------------------------ MODULE NetworkAndMedia_proofs ------------------------
(***************************************************************************)
(* The resources whose work is done by threads of the wrapper: sockets and *)
(* look-ups, audio streams, the camera and the video decoder, for any      *)
(* number of each.                                                         *)
(*                                                                         *)
(* Network: every call is answered once and no descriptor is leaked,       *)
(* whatever the plugin does (Bookkeeping).  That no task uses what is      *)
(* freed or closed needs a plugin that leaves closed sockets alone and     *)
(* closes none whose Connect is still looking up its host (NoStrays).      *)
(*                                                                         *)
(* Media: what the browser is told of audio is right whatever the plugin   *)
(* does (AudioCounts).  That streams and resources match needs a plugin    *)
(* that opens an input once (AudioOwners).  No frame of the camera or of   *)
(* the decoder is with two parties, none is lost, and nothing the camera's *)
(* thread uses is taken away under it.                                     *)
(***************************************************************************)
EXTENDS Network, Audio, VideoCapture, VideoDecoder,
        SequenceTheorems, FiniteSetTheorems, WellFoundedInduction, TLAPS

-----------------------------------------------------------------------------
(* Network *)

(* A live task belongs to a resource that was created, of the right kind;  *)
(* a disconnect task is in the table until it runs, its socket is marked,  *)
(* and it holds the descriptor of its socket, which is open.               *)
TaskIsOfItsResource(t) ==
  Live(t) =>
    /\ res[task[t].resource].state # "unused"
    /\ task[t].type = "resolve" <=> task[t].resource \in Resolvers
    /\ task[t].type # "resolve" => task[t].sock \in Socks
    /\ task[t].type = "disconnect" =>
         /\ res[task[t].resource].destroyed
         /\ owner[task[t].sock] = task[t].resource
         /\ task[t].at \in {"table", "armed", "fired"}

(* One disconnect task per socket. *)
OneDisconnect ==
  \A t, u \in Tasks :
    /\ Live(t) /\ task[t].type = "disconnect"
    /\ Live(u) /\ task[u].type = "disconnect"
    /\ task[t].resource = task[u].resource
    => t = u

(* An open descriptor is the one of its socket, which the plugin can close *)
(* or which a disconnect task is about to close.                           *)
OwnersKnow ==
  \A s \in Socks : owner[s] # Nobody =>
    /\ res[owner[s]].sock = s
    /\ res[owner[s]].state # "unused"
    /\ res[owner[s]].state = "alive" \/ res[owner[s]].destroyed
    /\ res[owner[s]].destroyed =>
         \E t \in Tasks : Live(t) /\ task[t].type = "disconnect" /\ task[t].resource = owner[s]

(* A socket that is not closed has its descriptor. *)
SocketsAreOpen ==
  \A r \in Sockets : Alive(r) /\ ~res[r].destroyed => owner[res[r].sock] = r

(* What the two threads remember between their two steps. *)
InBetween ==
  /\ adding # NoTask /\ Live(adding) => task[adding].at = "table"
  /\ closing # NoTask =>
       Live(closing) /\ task[closing].type = "disconnect" /\ task[closing].at = "fired"

FreshThings ==
  /\ \A t \in Tasks : task[t].mem = "unused" => posts[t] = 0
  /\ \A r \in Resources : res[r].state = "unused" \/ r \in Resolvers => ~res[r].destroyed
  /\ \A r \in Sockets : res[r].state # "unused" => res[r].sock \in Socks

Bookkeeping ==
  /\ TypeOK
  /\ \A t \in Tasks : TaskIsOfItsResource(t)
  /\ OneDisconnect
  /\ OwnersKnow
  /\ SocketsAreOpen
  /\ InBetween
  /\ FreshThings
  /\ AnsweredOnce

(* No task of a socket is where Disconnect does not find it once the       *)
(* socket is marked, and none is left when its descriptor is closed.       *)
NoStrays ==
  /\ NoFreedTaskIsUsed
  /\ TasksHaveTheirSocket
  /\ \A t \in Tasks :
       Live(t) /\ task[t].type \notin {"resolve", "disconnect"} =>
         /\ task[t].at # "memory"
         /\ res[task[t].resource].destroyed => InTable(t)
         /\ res[task[t].resource].destroyed => t # adding
         /\ closing # NoTask => task[closing].resource # task[t].resource

NetworkInv == Bookkeeping /\ NoStrays

-----------------------------------------------------------------------------
(* The operators the actions are made of. *)

LEMMA MinIsIn ==
  ASSUME NEW T \in SUBSET Nat, T # {} PROVE Min(T) \in T
<1>. DEFINE Less == {ss \in Nat \X Nat : ss[1] < ss[2]}
<1>1. Less = OpToRel(<, Nat)
  BY Zenon DEF OpToRel
<1>2. PICK x \in T : \A y \in T : ~(<<y, x>> \in OpToRel(<, Nat))
  BY WFMin, NatLessThanWellFounded, Zenon
<1>3. ASSUME NEW y \in Nat, y < x PROVE <<y, x>> \in Less
  BY <1>3, Zenon
<1>. HIDE DEF Less
<1>4. \A y \in T : x <= y
  <2>1. SUFFICES ASSUME NEW y \in T, ~(x <= y) PROVE FALSE
    OBVIOUS
  <2>2. y < x
    BY <2>1
  <2>. QED
    BY <2>2, <1>1, <1>2, <1>3, Zenon
<1>. QED
  BY <1>4 DEF Min

LEMMA NewTaskIsUnused ==
  ASSUME Unused # {} PROVE NewTask \in Tasks /\ task[NewTask].mem = "unused"
<1>1. Unused \in SUBSET Nat
  BY DEF Unused, Tasks
<1>. QED
  BY <1>1, MinIsIn DEF NewTask, Unused

Places == {"memory", "dns", "table", "armed", "fired"}

(* t is the only task that changes, and it is still the task of the same call. *)
OnlyTask(tk, t) ==
  /\ task' \in [Tasks -> TaskType]
  /\ \A u \in Tasks \ {t} : task'[u] = tk[u]
  /\ task'[t].type = tk[t].type /\ task'[t].resource = tk[t].resource

LEMMA WaitEffect ==
  ASSUME NEW tk \in [Tasks -> TaskType], NEW t \in Tasks, NEW at \in Places, Wait(tk, t, at)
  PROVE  /\ OnlyTask(tk, t) /\ posts' = posts
         /\ task'[t].mem = tk[t].mem /\ task'[t].sock = tk[t].sock /\ task'[t].at = at
  BY DEF Wait, OnlyTask, TaskType, Places

LEMMA DestroyedEffect ==
  ASSUME NEW tk \in [Tasks -> TaskType], NEW ts \in SUBSET Tasks,
         NetworkBoundsAssumption
  PROVE  /\ Destroyed(tk, ts) \in [Tasks -> TaskType]
         /\ \A u \in Tasks \ ts : Destroyed(tk, ts)[u] = tk[u]
         /\ \A u \in ts : /\ Destroyed(tk, ts)[u].mem = "freed"
                          /\ Destroyed(tk, ts)[u].at = "memory"
                          /\ Destroyed(tk, ts)[u].type = tk[u].type
                          /\ Destroyed(tk, ts)[u].resource = tk[u].resource
<1>1. 0 \in 0 .. MaxAddrs
  BY NetworkBoundsAssumption
<1>2. \A u \in Tasks : Destroyed(tk, ts)[u] \in TaskType
  BY <1>1, ZenonT(60) DEF Destroyed, TaskType
<1>3. Destroyed(tk, ts) \in [Tasks -> TaskType]
  <2>1. Destroyed(tk, ts) = [u \in Tasks |-> Destroyed(tk, ts)[u]]
    BY DEF Destroyed
  <2>. HIDE DEF Destroyed
  <2>. QED
    BY <1>2, <2>1
<1>4. \A u \in Tasks \ ts : Destroyed(tk, ts)[u] = tk[u]
  BY DEF Destroyed
<1>5. \A u \in ts : /\ Destroyed(tk, ts)[u].mem = "freed"
                    /\ Destroyed(tk, ts)[u].at = "memory"
                    /\ Destroyed(tk, ts)[u].type = tk[u].type
                    /\ Destroyed(tk, ts)[u].resource = tk[u].resource
  BY DEF Destroyed, TaskType
<1>. QED
  BY <1>3, <1>4, <1>5

LEMMA PostEffect ==
  ASSUME TypeOK, NEW ts \in SUBSET Tasks, \A t \in ts : posts[t] = 0,
         ppb_message_loop_post_work_with_result(ts)
  PROVE  /\ posts' \in [Tasks -> 0 .. 1]
         /\ \A t \in Tasks : posts'[t] = IF t \in ts THEN 1 ELSE posts[t]
<1>1. \A t \in Tasks : posts'[t] = IF t \in ts THEN 1 ELSE posts[t]
  BY DEF ppb_message_loop_post_work_with_result, TypeOK
<1>2. \A t \in Tasks : posts'[t] \in 0 .. 1
  BY <1>1 DEF TypeOK
<1>3. posts' = [t \in Tasks |-> posts'[t]]
  BY DEF ppb_message_loop_post_work_with_result
<1>. QED
  BY <1>1, <1>2, <1>3

LEMMA FinishEffect ==
  ASSUME TypeOK, NEW tk \in [Tasks -> TaskType], NEW t \in Tasks, posts[t] = 0, Finish(tk, t)
  PROVE  /\ OnlyTask(tk, t) /\ task'[t].mem = "freed" /\ task'[t].at = "memory"
         /\ posts' \in [Tasks -> 0 .. 1] /\ posts'[t] = 1
         /\ \A u \in Tasks \ {t} : posts'[u] = posts[u]
<1>1. task' = Destroyed(tk, {t}) /\ ppb_message_loop_post_work_with_result({t})
  BY DEF Finish
<1>2. OnlyTask(tk, t) /\ task'[t].mem = "freed" /\ task'[t].at = "memory"
  BY <1>1, NetworkBoundsAssumption, DestroyedEffect DEF OnlyTask
<1>. QED
  BY <1>1, <1>2, PostEffect

LEMMA DropEffect ==
  ASSUME TypeOK, NEW t \in Tasks, Drop(t)
  PROVE  /\ OnlyTask(task, t) /\ task'[t].mem = "freed" /\ task'[t].at = "memory"
         /\ posts' = posts
<1>1. task' = Destroyed(task, {t}) /\ posts' = posts
  BY DEF Drop
<1>. QED
  BY <1>1, NetworkBoundsAssumption, DestroyedEffect DEF OnlyTask, TypeOK

LEMMA CreatedEffect ==
  ASSUME TypeOK, NEW type \in Types, NEW r \in Resources, NEW n \in Tasks,
         NEW sock \in Socks \cup {NoSock}
  PROVE  /\ [task EXCEPT ![n] = Created(type, r, sock)] \in [Tasks -> TaskType]
         /\ \A u \in Tasks \ {n} : [task EXCEPT ![n] = Created(type, r, sock)][u] = task[u]
         /\ [task EXCEPT ![n] = Created(type, r, sock)][n] = Created(type, r, sock)
<1>1. Created(type, r, sock) \in TaskType
  BY NetworkBoundsAssumption DEF Created, TaskType
<1>. QED
  BY <1>1 DEF TypeOK

-----------------------------------------------------------------------------
(* A call of the plugin on r made the task n and ran its first stage. *)
Started(n, type, r) ==
  /\ task[n].mem = "unused"
  /\ task' \in [Tasks -> TaskType] /\ posts' \in [Tasks -> 0 .. 1]
  /\ \A u \in Tasks \ {n} : task'[u] = task[u] /\ posts'[u] = posts[u]
  /\ task'[n].type = type /\ task'[n].resource = r
  /\ \/ /\ task'[n].mem = "live" /\ task'[n].at \in {"dns", "table"} /\ posts'[n] = 0
        /\ task'[n].sock = res[r].sock
     \/ task'[n].mem = "freed" /\ task'[n].at = "memory" /\ posts'[n] = 1
  /\ adding' = IF task'[n].at = "table" THEN n ELSE NoTask
  /\ UNCHANGED <<res, owner, closing>>

(* The network thread went on with the task t, which is not one of Disconnect. *)
Moved(t) ==
  /\ Live(t) /\ task[t].type # "disconnect" /\ task[t].at # "table"
  /\ OnlyTask(task, t)
  /\ posts' \in [Tasks -> 0 .. 1] /\ \A u \in Tasks \ {t} : posts'[u] = posts[u]
  /\ \/ /\ task'[t].mem = "live" /\ task'[t].at = "armed" /\ task'[t].sock = task[t].sock
        /\ posts'[t] = posts[t]
     \/ task'[t].mem = "freed" /\ task'[t].at = "memory" /\ posts'[t] = 1
     \/ /\ task'[t].mem = "freed" /\ task'[t].at = "memory" /\ posts'[t] = posts[t]
        /\ res[task[t].resource].state # "alive"
  /\ res' \in [Resources -> ResourceType]
  /\ \A r \in Resources : /\ res'[r].state = res[r].state /\ res'[r].sock = res[r].sock
                          /\ res'[r].destroyed = res[r].destroyed
  /\ closing = NoTask /\ UNCHANGED <<owner, adding, closing>>

LEMMA Stage3Effect ==
  ASSUME TypeOK, NEW tk \in [Tasks -> TaskType], NEW t \in Tasks, posts[t] = 0,
         NEW count \in 0 .. MaxAddrs, NEW at \in Places,
         handle_tcp_connect_stage3([tk EXCEPT ![t].left = count], t, at)
  PROVE  /\ OnlyTask(tk, t) /\ posts' \in [Tasks -> 0 .. 1]
         /\ \A u \in Tasks \ {t} : posts'[u] = posts[u]
         /\ \/ /\ task'[t].mem = tk[t].mem /\ task'[t].sock = tk[t].sock /\ task'[t].at = at
               /\ posts'[t] = 0
            \/ task'[t].mem = "freed" /\ task'[t].at = "memory" /\ posts'[t] = 1
<1>. DEFINE tl == [tk EXCEPT ![t].left = count]
<1>1. tl \in [Tasks -> TaskType]
  BY DEF TaskType
<1>2. /\ \A u \in Tasks \ {t} : tl[u] = tk[u]
      /\ tl[t].mem = tk[t].mem /\ tl[t].sock = tk[t].sock
      /\ tl[t].type = tk[t].type /\ tl[t].resource = tk[t].resource
  BY DEF TaskType
<1>3. Finish(tl, t) \/ Wait(tl, t, at)
  BY DEF handle_tcp_connect_stage3
<1>. HIDE DEF tl
<1>4. CASE Finish(tl, t)
  BY <1>1, <1>2, <1>4, FinishEffect DEF OnlyTask
<1>5. CASE Wait(tl, t, at)
  BY <1>1, <1>2, <1>5, WaitEffect DEF OnlyTask, TypeOK
<1>. QED
  BY <1>3, <1>4, <1>5

LEMMA Stage2Effect ==
  ASSUME TypeOK, NEW tk \in [Tasks -> TaskType], NEW t \in Tasks, posts[t] = 0,
         NEW count \in 0 .. MaxAddrs, NEW at \in Places,
         handle_tcp_connect_stage2(tk, t, count, at)
  PROVE  /\ OnlyTask(tk, t) /\ posts' \in [Tasks -> 0 .. 1]
         /\ \A u \in Tasks \ {t} : posts'[u] = posts[u]
         /\ \/ /\ task'[t].mem = tk[t].mem /\ task'[t].sock = tk[t].sock /\ task'[t].at = at
               /\ posts'[t] = 0
            \/ task'[t].mem = "freed" /\ task'[t].at = "memory" /\ posts'[t] = 1
<1>1. CASE count = 0
  BY <1>1, FinishEffect DEF handle_tcp_connect_stage2
<1>2. CASE count # 0
  <2>1. count - 1 \in 0 .. MaxAddrs
    BY <1>2, NetworkBoundsAssumption
  <2>. QED
    BY <1>2, <2>1, Stage3Effect DEF handle_tcp_connect_stage2
<1>. QED
  BY <1>1, <1>2

(* Every call that makes a task, but Disconnect. *)
LEMMA CallsStart ==
  ASSUME Bookkeeping, NEW r \in Resources,
         \/ r \in TCP /\ (Connect(r) \/ Read(r) \/ Write(r))
         \/ r \in UDP /\ (RecvFrom(r) \/ SendTo(r))
         \/ r \in Resolvers /\ Resolve(r)
  PROVE  /\ adding = NoTask /\ Usable(r)
         /\ \E n \in Tasks, type \in Types \ {"disconnect"} :
              /\ type = "resolve" <=> r \in Resolvers
              /\ Started(n, type, r)
<1>1. /\ adding = NoTask /\ Usable(r) /\ Unused # {}
      /\ async_network_task_push
  BY DEF Connect, Read, Write, RecvFrom, SendTo, Resolve, MayCall
<1>. DEFINE n == NewTask
<1>2. n \in Tasks /\ task[n].mem = "unused" /\ posts[n] = 0
  BY <1>1, NewTaskIsUnused DEF Bookkeeping, FreshThings
<1>3. PICK type \in Types \ {"disconnect"} :
        LET tk == WithTask(type, r) IN
        /\ type = "resolve" <=> r \in Resolvers
        /\ \/ Finish(tk, n)
           \/ Wait(tk, n, "dns")
           \/ Wait(tk, n, "table")
           \/ handle_tcp_connect_stage2(tk, n, 1, "table")
  BY ResourcesAssumption
     DEF Connect, Read, Write, RecvFrom, SendTo, Resolve, stage1, handle_tcp_connect_stage1,
         handle_udp_send_stage1, handle_host_resolve_stage1, Types, Sockets
<1>. DEFINE tk == WithTask(type, r)
<1>4. /\ tk \in [Tasks -> TaskType]
      /\ \A u \in Tasks \ {n} : tk[u] = task[u]
      /\ tk[n].mem = "live" /\ tk[n].type = type /\ tk[n].resource = r /\ tk[n].sock = res[r].sock
  <2>1. res[r].sock \in Socks \cup {NoSock}
    BY DEF Bookkeeping, TypeOK, ResourceType
  <2>. QED
    BY <1>2, <2>1, CreatedEffect DEF WithTask, Created, Bookkeeping
<1>. HIDE DEF tk, n
<1>5. /\ OnlyTask(tk, n) /\ posts' \in [Tasks -> 0 .. 1]
      /\ \A u \in Tasks \ {n} : posts'[u] = posts[u]
      /\ \/ /\ task'[n].mem = "live" /\ task'[n].sock = tk[n].sock
            /\ task'[n].at \in {"dns", "table"} /\ posts'[n] = 0
         \/ task'[n].mem = "freed" /\ task'[n].at = "memory" /\ posts'[n] = 1
  <2>1. TypeOK /\ 1 \in 0 .. MaxAddrs /\ "dns" \in Places /\ "table" \in Places
    BY NetworkBoundsAssumption DEF Bookkeeping, Places
  <2>2. CASE Finish(tk, n)
    BY <1>2, <1>4, <2>1, <2>2, FinishEffect
  <2>3. CASE Wait(tk, n, "dns")
    BY <1>2, <1>4, <2>1, <2>3, WaitEffect DEF TypeOK
  <2>4. CASE Wait(tk, n, "table")
    BY <1>2, <1>4, <2>1, <2>4, WaitEffect DEF TypeOK
  <2>5. CASE handle_tcp_connect_stage2(tk, n, 1, "table")
    BY <1>2, <1>4, <2>1, <2>5, Stage2Effect
  <2>. QED
    BY <1>3, <2>2, <2>3, <2>4, <2>5 DEF tk, n
<1>6. UNCHANGED <<res, owner, closing>> /\ adding' = IF task'[n].at = "table" THEN n ELSE NoTask
  BY <1>1 DEF async_network_task_push, ThenAddEvent, n
<1>7. Started(n, type, r)
  BY <1>2, <1>4, <1>5, <1>6 DEF Started, OnlyTask
<1>. QED
  BY <1>1, <1>2, <1>3, <1>7

(* Every handler of the network thread, but Disconnect's. *)
LEMMA HandlersMove ==
  ASSUME Bookkeeping, NEW t \in Tasks,
         \/ ConnectLookup(t) \/ handle_host_resolve_stage2(t) \/ handle_tcp_connect_stage4(t)
         \/ Untimed(t)
  PROVE  Moved(t)
<1>1. /\ Live(t) /\ task[t].type # "disconnect" /\ task[t].at # "table" /\ posts[t] = 0
      /\ closing = NoTask /\ UNCHANGED <<owner, adding, closing>>
  BY DEF Bookkeeping, AnsweredOnce, ConnectLookup, handle_host_resolve_stage2,
         handle_tcp_connect_stage4, Untimed, handle_tcp_read_stage2, handle_tcp_write_stage2,
         handle_udp_recv_stage2, handle_udp_send_stage2, Ready, Armed, Looking, NetworkStep
<1>. DEFINE r == task[t].resource
<1>2. TypeOK /\ r \in Resources /\ task \in [Tasks -> TaskType] /\ res \in [Resources -> ResourceType]
  BY DEF Bookkeeping, TypeOK, TaskType
<1>3. /\ res' \in [Resources -> ResourceType]
      /\ \A q \in Resources : /\ res'[q].state = res[q].state /\ res'[q].sock = res[q].sock
                              /\ res'[q].destroyed = res[q].destroyed
  <2>1. \/ res' = res
        \/ \E up \in BOOLEAN : res' = [res EXCEPT ![r].is_connected = up]
        \/ res' = [res EXCEPT ![r].seen_eof = TRUE]
    BY DEF ConnectLookup, handle_host_resolve_stage2, handle_tcp_connect_stage4, Untimed,
           handle_tcp_read_stage2, handle_tcp_write_stage2, handle_udp_recv_stage2,
           handle_udp_send_stage2
  <2>. HIDE DEF r
  <2>2. CASE res' = res
    BY <1>2, <2>2
  <2>3. ASSUME NEW up \in BOOLEAN, res' = [res EXCEPT ![r].is_connected = up] PROVE <1>3!:
    BY <1>2, <2>3 DEF ResourceType
  <2>4. CASE res' = [res EXCEPT ![r].seen_eof = TRUE]
    BY <1>2, <2>4 DEF ResourceType
  <2>. QED
    BY <2>1, <2>2, <2>3, <2>4
<1>4. \/ Finish(task, t)
      \/ Drop(t) /\ res[r].state # "alive"
      \/ \E count \in 0 .. MaxAddrs : handle_tcp_connect_stage2(task, t, count, "armed")
      \/ /\ task[t].left > 0
         /\ handle_tcp_connect_stage3([task EXCEPT ![t].left = @ - 1], t, "armed")
  BY DEF ConnectLookup, handle_host_resolve_stage2, handle_tcp_connect_stage4, NextAddress,
         Untimed, handle_tcp_read_stage2, handle_tcp_write_stage2, handle_udp_recv_stage2,
         handle_udp_send_stage2, Alive
<1>5. /\ OnlyTask(task, t) /\ posts' \in [Tasks -> 0 .. 1]
      /\ \A u \in Tasks \ {t} : posts'[u] = posts[u]
      /\ \/ /\ task'[t].mem = "live" /\ task'[t].at = "armed" /\ task'[t].sock = task[t].sock
            /\ posts'[t] = posts[t]
         \/ task'[t].mem = "freed" /\ task'[t].at = "memory" /\ posts'[t] = 1
         \/ /\ task'[t].mem = "freed" /\ task'[t].at = "memory" /\ posts'[t] = posts[t]
            /\ res[r].state # "alive"
  <2>. "armed" \in Places
    BY DEF Places
  <2>1. CASE Finish(task, t)
    BY <1>1, <1>2, <2>1, FinishEffect
  <2>2. CASE Drop(t) /\ res[r].state # "alive"
    BY <1>1, <1>2, <2>2, DropEffect DEF TypeOK
  <2>3. CASE \E count \in 0 .. MaxAddrs : handle_tcp_connect_stage2(task, t, count, "armed")
    BY <1>1, <1>2, <2>3, Stage2Effect DEF Live
  <2>4. CASE /\ task[t].left > 0
             /\ handle_tcp_connect_stage3([task EXCEPT ![t].left = @ - 1], t, "armed")
    <3>1. task[t].left - 1 \in 0 .. MaxAddrs
      BY <1>2, <2>4, NetworkBoundsAssumption DEF TaskType
    <3>2. handle_tcp_connect_stage3([task EXCEPT ![t].left = task[t].left - 1], t, "armed")
      BY <2>4
    <3>. QED
      BY <1>1, <1>2, <3>1, <3>2, Stage3Effect DEF Live
  <2>. QED
    BY <1>4, <2>1, <2>2, <2>3, <2>4
<1>. QED
  BY <1>1, <1>3, <1>5 DEF Moved

-----------------------------------------------------------------------------
(* Bookkeeping is kept, whatever the plugin does. *)

LEMMA BookkeepingInit == Init => Bookkeeping
<1>. SUFFICES ASSUME Init PROVE Bookkeeping
  OBVIOUS
<1>1. PICK r \in Resources : r = CHOOSE q \in Resources : TRUE
  BY ResourcesAssumption
<1>2. task \in [Tasks -> TaskType] /\ \A t \in Tasks : task[t].mem = "unused"
  <2>1. task \in [Tasks -> [mem : {"unused"}, type : {"connect"}, resource : {r}, sock : {NoSock},
                            at : {"memory"}, left : {0}]]
    BY <1>1 DEF Init
  <2>. QED
    BY <2>1, NetworkBoundsAssumption DEF TaskType, Types
<1>3. TypeOK
  BY <1>2, ResourcesAssumption DEF Init, TypeOK, ResourceType, NoTask
<1>. QED
  BY <1>2, <1>3, ResourcesAssumption
     DEF Init, Bookkeeping, TaskIsOfItsResource, OneDisconnect, OwnersKnow, SocketsAreOpen,
         InBetween, FreshThings, AnsweredOnce, Live, Alive, Resources

LEMMA StartedBookkeeping ==
  ASSUME Bookkeeping, NEW n \in Tasks, NEW type \in Types \ {"disconnect"}, NEW r \in Resources,
         type = "resolve" <=> r \in Resolvers, Alive(r), Started(n, type, r)
  PROVE  Bookkeeping'
<1>1. TypeOK'
  BY DEF Bookkeeping, TypeOK, Started
<1>2. \A t \in Tasks : TaskIsOfItsResource(t)'
  <2>1. type # "resolve" => res[r].sock \in Socks
    BY DEF Bookkeeping, FreshThings, Alive, Resources
  <2>. QED
    BY <2>1 DEF Bookkeeping, TaskIsOfItsResource, Started, Live, Alive
<1>3. OneDisconnect'
  BY DEF Bookkeeping, OneDisconnect, Started, Live
<1>4. OwnersKnow'
  <2>. SUFFICES ASSUME NEW s \in Socks, owner[s] # Nobody, res[owner[s]].destroyed
                PROVE  \E t \in Tasks : /\ Live(t)' /\ task'[t].type = "disconnect"
                                        /\ task'[t].resource = owner[s]
    BY DEF Bookkeeping, OwnersKnow, Started
  <2>1. PICK t \in Tasks : /\ Live(t) /\ task[t].type = "disconnect"
                           /\ task[t].resource = owner[s]
    BY DEF Bookkeeping, OwnersKnow
  <2>2. task'[t] = task[t]
    BY <2>1 DEF Started, Live
  <2>. QED
    BY <2>1, <2>2 DEF Live
<1>5. InBetween'
  BY DEF Bookkeeping, InBetween, Started, Live, TypeOK, NoTask, Tasks
<1>6. FreshThings'
  BY DEF Bookkeeping, FreshThings, Started
<1>7. AnsweredOnce'
  <2>. SUFFICES ASSUME NEW t \in Tasks
                PROVE  (/\ Live(t) => posts[t] = 0
                        /\ task[t].mem = "freed" =>
                             IF task[t].type = "disconnect" THEN posts[t] = 0
                             ELSE posts[t] = 1 \/ (posts[t] = 0 /\ res[task[t].resource].state = "gone"))'
    BY DEF AnsweredOnce
  <2>1. CASE t = n
    BY <2>1 DEF Started, Live
  <2>2. CASE t # n
    BY <2>2 DEF Started, Live, Bookkeeping, AnsweredOnce
  <2>. QED
    BY <2>1, <2>2
<1>8. SocketsAreOpen'
  BY DEF Bookkeeping, SocketsAreOpen, Started, Alive
<1>. QED
  BY <1>1, <1>2, <1>3, <1>4, <1>5, <1>6, <1>7, <1>8 DEF Bookkeeping

LEMMA MovedBookkeeping ==
  ASSUME Bookkeeping, NEW t \in Tasks, Moved(t)
  PROVE  Bookkeeping'
<1>1. TypeOK'
  BY DEF Bookkeeping, TypeOK, Moved, OnlyTask
<1>2. \A u \in Tasks : TaskIsOfItsResource(u)'
  BY DEF Bookkeeping, TypeOK, TaskType, TaskIsOfItsResource, Moved, OnlyTask, Live
<1>3. OneDisconnect'
  BY DEF Bookkeeping, OneDisconnect, Moved, OnlyTask, Live
<1>4. OwnersKnow'
  <2>. SUFFICES ASSUME NEW s \in Socks, owner[s] # Nobody
                PROVE  (/\ res[owner[s]].sock = s
                        /\ res[owner[s]].state # "unused"
                        /\ res[owner[s]].state = "alive" \/ res[owner[s]].destroyed
                        /\ res[owner[s]].destroyed =>
                             \E u \in Tasks : Live(u) /\ task[u].type = "disconnect" /\ task[u].resource = owner[s])'
    BY DEF Moved, OwnersKnow
  <2>1. owner[s] \in Resources /\ owner'[s] = owner[s]
    BY DEF Bookkeeping, TypeOK, Moved, Resources
  <2>2. CASE ~res[owner[s]].destroyed
    BY <2>1, <2>2 DEF Bookkeeping, OwnersKnow, Moved
  <2>3. CASE res[owner[s]].destroyed
    <3>1. PICK u \in Tasks : /\ Live(u) /\ task[u].type = "disconnect"
                             /\ task[u].resource = owner[s]
      BY <2>3 DEF Bookkeeping, OwnersKnow
    <3>2. task'[u] = task[u]
      BY <3>1 DEF Moved, OnlyTask
    <3>. QED
      BY <2>1, <3>1, <3>2 DEF Bookkeeping, OwnersKnow, Moved, Live
  <2>. QED
    BY <2>2, <2>3
<1>5. InBetween'
  BY DEF Bookkeeping, InBetween, Moved, OnlyTask, Live, TypeOK, NoTask, Tasks
<1>6. FreshThings'
  BY DEF Bookkeeping, FreshThings, Moved, OnlyTask, Live, Resources
<1>7. AnsweredOnce'
  <2>. SUFFICES ASSUME NEW u \in Tasks
                PROVE  (/\ Live(u) => posts[u] = 0
                        /\ task[u].mem = "freed" =>
                             IF task[u].type = "disconnect" THEN posts[u] = 0
                             ELSE posts[u] = 1 \/ (posts[u] = 0 /\ res[task[u].resource].state = "gone"))'
    BY DEF AnsweredOnce
  <2>0. task[u].resource \in Resources
    BY DEF Bookkeeping, TypeOK, TaskType
  <2>1. CASE u = t
    <3>1. res[task[t].resource].state \in {"alive", "gone"}
      BY <2>0, <2>1 DEF Bookkeeping, TypeOK, ResourceType, TaskIsOfItsResource, Moved
    <3>. QED
      BY <2>0, <2>1, <3>1 DEF Moved, OnlyTask, Live, Bookkeeping, AnsweredOnce
  <2>2. CASE u # t
    BY <2>0, <2>2 DEF Moved, OnlyTask, Live, Bookkeeping, AnsweredOnce
  <2>. QED
    BY <2>1, <2>2
<1>8. SocketsAreOpen'
  BY DEF Bookkeeping, SocketsAreOpen, Moved, Alive, Resources
<1>. QED
  BY <1>1, <1>2, <1>3, <1>4, <1>5, <1>6, <1>7, <1>8 DEF Bookkeeping

LEMMA CreateBookkeeping ==
  ASSUME Bookkeeping, NEW r \in Resources, Create(r)
  PROVE  Bookkeeping'
<1>0. /\ res[r].state = "unused" /\ ~res[r].destroyed /\ UNCHANGED <<task, posts, adding, closing>>
      /\ \A t \in Tasks : Live(t) => task[t].resource # r
      /\ \A s \in Socks : owner[s] # r
  BY ResourcesAssumption
     DEF Create, Bookkeeping, FreshThings, TaskIsOfItsResource, OwnersKnow
<1>1. PICK sock \in Socks \cup {NoSock} :
        /\ res' = [res EXCEPT ![r].state = "alive", ![r].sock = sock]
        /\ \/ r \in Resolvers /\ owner' = owner /\ sock = res[r].sock
           \/ /\ r \in Sockets /\ sock \in Socks /\ owner[sock] = Nobody
              /\ owner' = [owner EXCEPT ![sock] = r]
  <2>1. CASE r \in Resolvers
    <3>1. res[r].sock \in Socks \cup {NoSock}
      BY DEF Bookkeeping, TypeOK, ResourceType
    <3>2. res' = [res EXCEPT ![r].state = "alive", ![r].sock = res[r].sock]
      BY <2>1 DEF Create, Bookkeeping, TypeOK, ResourceType
    <3>. QED
      BY <2>1, <3>1, <3>2 DEF Create
  <2>2. CASE r \notin Resolvers
    <3>. DEFINE free == {s \in Socks : owner[s] = Nobody}
    <3>1. free \in SUBSET Nat /\ free # {}
      BY <2>2 DEF Create, Socks
    <3>2. Min(free) \in free
      BY <3>1, MinIsIn
    <3>. QED
      BY <2>2, <3>2 DEF Create, Resources
  <2>. QED
    BY <2>1, <2>2
<1>2. /\ res' \in [Resources -> ResourceType]
      /\ res'[r].state = "alive" /\ res'[r].sock = sock /\ ~res'[r].destroyed
      /\ \A q \in Resources \ {r} : res'[q] = res[q]
  BY <1>0, <1>1, ZenonT(60) DEF Bookkeeping, TypeOK, ResourceType
<1>3. /\ owner' \in [Socks -> Sockets \cup {Nobody}]
      /\ \A s \in Socks : owner'[s] = owner[s] \/ (s = sock /\ owner[s] = Nobody /\ owner'[s] = r)
      /\ r \in Sockets => owner'[sock] = r
  BY <1>0, <1>1, ResourcesAssumption DEF Bookkeeping, TypeOK
<1>4. TypeOK'
  BY <1>0, <1>2, <1>3 DEF Bookkeeping, TypeOK
<1>5. \A t \in Tasks : TaskIsOfItsResource(t)'
  <2>. SUFFICES ASSUME NEW t \in Tasks, Live(t) PROVE TaskIsOfItsResource(t)'
    BY <1>0 DEF TaskIsOfItsResource, Live
  <2>1. task[t].resource \in Resources \ {r} /\ res'[task[t].resource] = res[task[t].resource]
    BY <1>0, <1>2 DEF Bookkeeping, TypeOK, TaskType
  <2>2. task[t].type = "disconnect" => owner'[task[t].sock] = task[t].resource
    <3>. SUFFICES ASSUME task[t].type = "disconnect" PROVE owner'[task[t].sock] = task[t].resource
      OBVIOUS
    <3>1. task[t].sock \in Socks /\ owner[task[t].sock] = task[t].resource
      BY DEF Bookkeeping, TypeOK, TaskType, TaskIsOfItsResource
    <3>2. task[t].resource # Nobody
      BY <2>1, ResourcesAssumption
    <3>. QED
      BY <1>1, <3>1, <3>2 DEF Bookkeeping, TypeOK
  <2>. QED
    BY <1>0, <2>1, <2>2 DEF Bookkeeping, TaskIsOfItsResource, Live
<1>6. OneDisconnect' /\ InBetween'
  BY <1>0 DEF Bookkeeping, OneDisconnect, InBetween, Live
<1>7. OwnersKnow'
  <2>. SUFFICES ASSUME NEW s \in Socks, owner'[s] # Nobody
                PROVE  (/\ res[owner[s]].sock = s
                        /\ res[owner[s]].state # "unused"
                        /\ res[owner[s]].state = "alive" \/ res[owner[s]].destroyed
                        /\ res[owner[s]].destroyed =>
                             \E u \in Tasks : Live(u) /\ task[u].type = "disconnect" /\ task[u].resource = owner[s])'
    BY DEF OwnersKnow
  <2>1. CASE owner'[s] = r /\ owner[s] = Nobody
    BY <1>2, <1>3, <2>1
  <2>2. CASE owner'[s] = owner[s]
    <3>1. owner[s] \in Resources \ {r} /\ res'[owner[s]] = res[owner[s]]
      BY <1>0, <1>2, <2>2 DEF Bookkeeping, TypeOK, Resources
    <3>. QED
      BY <1>0, <2>2, <3>1 DEF Bookkeeping, OwnersKnow, Live
  <2>. QED
    BY <1>3, <2>1, <2>2
<1>8. SocketsAreOpen'
  <2>. SUFFICES ASSUME NEW q \in Sockets, Alive(q)', ~res'[q].destroyed
                PROVE  owner'[res'[q].sock] = q
    BY DEF SocketsAreOpen
  <2>1. CASE q = r
    BY <1>2, <1>3, <2>1
  <2>2. CASE q # r
    <3>1. res'[q] = res[q] /\ owner[res[q].sock] = q /\ res[q].sock \in Socks
      BY <1>2, <2>2 DEF Bookkeeping, SocketsAreOpen, FreshThings, Alive, Resources
    <3>2. q # Nobody
      BY ResourcesAssumption DEF Resources
    <3>. QED
      BY <1>1, <3>1, <3>2 DEF Bookkeeping, TypeOK
  <2>. QED
    BY <2>1, <2>2
<1>9. FreshThings'
  BY <1>0, <1>1, <1>2, ResourcesAssumption DEF Bookkeeping, FreshThings, Resources
<1>10. AnsweredOnce'
  <2>1. \A t \in Tasks : task[t].resource \in Resources
    BY DEF Bookkeeping, TypeOK, TaskType
  <2>. QED
    BY <1>0, <1>2, <2>1 DEF Bookkeeping, AnsweredOnce, Live
<1>. QED
  BY <1>4, <1>5, <1>6, <1>7, <1>8, <1>9, <1>10 DEF Bookkeeping

(* The event of the task that was entered last is added. *)
LEMMA EventAddBookkeeping ==
  ASSUME Bookkeeping, event_add
  PROVE  Bookkeeping'
<1>1. adding \in Tasks /\ adding' = NoTask /\ UNCHANGED <<res, owner, posts, closing>>
  BY DEF event_add, Bookkeeping, TypeOK
<1>2. /\ task' \in [Tasks -> TaskType]
      /\ \A u \in Tasks : /\ task'[u].mem = task[u].mem /\ task'[u].type = task[u].type
                          /\ task'[u].resource = task[u].resource /\ task'[u].sock = task[u].sock
                          /\ u # adding => task'[u].at = task[u].at
                          /\ u = adding => task'[u].at = "armed"
  BY <1>1 DEF event_add, Bookkeeping, TypeOK, TaskType
<1>3. closing # NoTask => closing \in Tasks /\ closing # adding
  BY DEF event_add, Bookkeeping, InBetween, TypeOK
<1>4. TypeOK'
  BY <1>1, <1>2 DEF Bookkeeping, TypeOK
<1>5. \A t \in Tasks : TaskIsOfItsResource(t)'
  BY <1>1, <1>2 DEF Bookkeeping, TaskIsOfItsResource, Live
<1>6. OneDisconnect' /\ FreshThings' /\ AnsweredOnce'
  BY <1>1, <1>2 DEF Bookkeeping, OneDisconnect, FreshThings, AnsweredOnce, Live
<1>7. OwnersKnow' /\ SocketsAreOpen'
  BY <1>1, <1>2 DEF Bookkeeping, OwnersKnow, SocketsAreOpen, Live, Alive
<1>8. InBetween'
  BY <1>1, <1>2, <1>3 DEF Bookkeeping, InBetween, Live
<1>. QED
  BY <1>4, <1>5, <1>6, <1>7, <1>8 DEF Bookkeeping

(* The destructor of the socket r made the disconnect task n. *)
Marked(n, r) ==
  /\ task[n].mem = "unused" /\ r \in Sockets /\ Alive(r) /\ ~res[r].destroyed
  /\ adding = NoTask /\ adding' = n
  /\ task' \in [Tasks -> TaskType] /\ \A u \in Tasks \ {n} : task'[u] = task[u]
  /\ task'[n].mem = "live" /\ task'[n].type = "disconnect" /\ task'[n].resource = r
  /\ task'[n].sock = res[r].sock /\ task'[n].at = "table"
  /\ res' \in [Resources -> ResourceType] /\ \A q \in Resources \ {r} : res'[q] = res[q]
  /\ res'[r].sock = res[r].sock /\ res'[r].destroyed /\ res'[r].state \in {"alive", "gone"}
  /\ UNCHANGED <<owner, posts, closing>>

(* The plugin dropped a resource that has nothing (more) to close. *)
Dropped(r) ==
  /\ Alive(r) /\ (res[r].destroyed \/ r \in Resolvers)
  /\ res' \in [Resources -> ResourceType] /\ \A q \in Resources \ {r} : res'[q] = res[q]
  /\ res'[r].sock = res[r].sock /\ res'[r].destroyed = res[r].destroyed /\ res'[r].state = "gone"
  /\ UNCHANGED <<owner, task, posts, adding, closing>>

LEMMA DestroyEffect ==
  ASSUME Bookkeeping, NEW r \in Resources,
         Unref(r) \/ (r \in Sockets /\ Disconnect(r))
  PROVE  MayClose(r) /\ (Dropped(r) \/ \E n \in Tasks : Marked(n, r))
<1>1. /\ adding = NoTask /\ Alive(r) /\ UNCHANGED <<owner, closing>> /\ MayClose(r)
      /\ TypeOK /\ res[r] \in ResourceType
  BY DEF Unref, Disconnect, Usable, Bookkeeping, TypeOK
<1>2. PICK s \in ResourceType :
        /\ s.sock = res[r].sock /\ s.destroyed = res[r].destroyed
        /\ s.state = "gone" \/ (s.state = "alive" /\ r \in Sockets /\ ~res[r].destroyed)
        /\ Destroy(r, s)
  <2>1. CASE Unref(r)
    <3>. DEFINE s == [res[r] EXCEPT !.state = "gone"]
    <3>1. /\ s \in ResourceType /\ s.sock = res[r].sock /\ s.destroyed = res[r].destroyed
          /\ s.state = "gone"
      BY <1>1 DEF ResourceType
    <3>2. Destroy(r, s)
      BY <2>1 DEF Unref
    <3>. HIDE DEF s
    <3>. QED
      BY <3>1, <3>2
  <2>2. CASE r \in Sockets /\ Disconnect(r)
    BY <1>1, <2>2 DEF Disconnect, Alive
  <2>. QED
    BY <2>1, <2>2
<1>3. CASE s.destroyed \/ r \in Resolvers
  <2>1. s.state = "gone"
    BY <1>2, <1>3, ResourcesAssumption
  <2>2. res' = [res EXCEPT ![r] = s] /\ UNCHANGED <<task, posts, adding>>
    BY <1>2, <1>3 DEF Destroy
  <2>3. Dropped(r)
    BY <1>1, <1>2, <1>3, <2>1, <2>2 DEF Dropped, TypeOK
  <2>. QED
    BY <1>1, <2>3
<1>4. CASE ~s.destroyed /\ r \notin Resolvers
  <2>. DEFINE n == NewTask
              tk == [task EXCEPT ![n] = Created("disconnect", r, s.sock)]
              m == [s EXCEPT !.destroyed = TRUE, !.is_connected = FALSE]
  <2>1. /\ Unused # {} /\ res' = [res EXCEPT ![r] = m]
        /\ Wait(tk, n, "table") /\ adding' = n
    BY <1>2, <1>4 DEF Destroy
  <2>2. n \in Tasks /\ task[n].mem = "unused"
    BY <2>1, NewTaskIsUnused
  <2>3. m \in ResourceType /\ m.sock = res[r].sock /\ m.destroyed /\ m.state \in {"alive", "gone"}
    BY <1>2 DEF ResourceType
  <2>4. /\ tk \in [Tasks -> TaskType] /\ \A u \in Tasks \ {n} : tk[u] = task[u]
        /\ tk[n] = Created("disconnect", r, s.sock)
    <3>1. s.sock \in Socks \cup {NoSock} /\ "disconnect" \in Types
      BY DEF ResourceType, Types
    <3>. QED
      BY <1>1, <2>2, <3>1, CreatedEffect
  <2>5. tk[n].mem = "live" /\ tk[n].type = "disconnect" /\ tk[n].resource = r /\ tk[n].sock = res[r].sock
    BY <1>2, <2>4 DEF Created
  <2>. HIDE DEF n, tk, m
  <2>6. /\ OnlyTask(tk, n) /\ posts' = posts
        /\ task'[n].mem = "live" /\ task'[n].sock = res[r].sock /\ task'[n].at = "table"
    <3>1. "table" \in Places
      BY DEF Places
    <3>. QED
      BY <2>1, <2>2, <2>4, <2>5, <3>1, WaitEffect
  <2>7. /\ res' \in [Resources -> ResourceType] /\ \A q \in Resources \ {r} : res'[q] = res[q]
        /\ res'[r] = m
    BY <1>1, <2>1, <2>3 DEF TypeOK
  <2>8. Marked(n, r)
    BY <1>1, <1>2, <1>4, <2>1, <2>2, <2>3, <2>4, <2>5, <2>6, <2>7 DEF Marked, OnlyTask, Resources
  <2>. QED
    BY <1>1, <2>2, <2>8
<1>. QED
  BY <1>3, <1>4

LEMMA DroppedBookkeeping ==
  ASSUME Bookkeeping, NEW r \in Resources, Dropped(r)
  PROVE  Bookkeeping'
<1>1. TypeOK' /\ OneDisconnect' /\ InBetween'
  BY DEF Bookkeeping, TypeOK, OneDisconnect, InBetween, Dropped, Live
<1>2. /\ \A t \in Tasks : task[t].resource \in Resources
      /\ \A s \in Socks : owner[s] # Nobody => owner[s] \in Resources /\ owner[s] \notin Resolvers
  BY ResourcesAssumption DEF Bookkeeping, TypeOK, TaskType, Resources
<1>3. \A t \in Tasks : TaskIsOfItsResource(t)'
  BY <1>2 DEF Bookkeeping, TaskIsOfItsResource, Dropped, Live
<1>4. OwnersKnow'
  BY <1>2 DEF Bookkeeping, OwnersKnow, Dropped, Live
<1>5. SocketsAreOpen' /\ FreshThings'
  BY ResourcesAssumption
     DEF Bookkeeping, SocketsAreOpen, FreshThings, Dropped, Alive, Resources
<1>6. AnsweredOnce'
  BY <1>2 DEF Bookkeeping, AnsweredOnce, Dropped, Live
<1>. QED
  BY <1>1, <1>3, <1>4, <1>5, <1>6 DEF Bookkeeping

LEMMA MarkedBookkeeping ==
  ASSUME Bookkeeping, NEW n \in Tasks, NEW r \in Resources, Marked(n, r)
  PROVE  Bookkeeping'
<1>1. /\ \A t \in Tasks : task[t].resource \in Resources
      /\ \A s \in Socks : owner[s] # Nobody => owner[s] \in Resources
      /\ r \notin Resolvers /\ owner[res[r].sock] = r /\ res[r].sock \in Socks
  BY ResourcesAssumption
     DEF Bookkeeping, TypeOK, TaskType, Resources, Marked, SocketsAreOpen, FreshThings, Alive
<1>2. TypeOK'
  BY DEF Bookkeeping, TypeOK, Marked
<1>3. \A t \in Tasks : TaskIsOfItsResource(t)'
  <2>. SUFFICES ASSUME NEW t \in Tasks PROVE TaskIsOfItsResource(t)'
    OBVIOUS
  <2>1. CASE t = n
    BY <1>1, <2>1 DEF TaskIsOfItsResource, Marked, Live
  <2>2. CASE t # n
    BY <1>1, <2>2 DEF Bookkeeping, TaskIsOfItsResource, Marked, Live, Alive
  <2>. QED
    BY <2>1, <2>2
<1>4. OneDisconnect'
  <2>1. \A t \in Tasks \ {n} : Live(t)' /\ task'[t].type = "disconnect" => task'[t].resource # r
    BY DEF Bookkeeping, TaskIsOfItsResource, Marked, Live
  <2>. QED
    BY <2>1 DEF Bookkeeping, OneDisconnect, Marked, Live
<1>5. OwnersKnow'
  <2>. SUFFICES ASSUME NEW s \in Socks, owner[s] # Nobody
                PROVE  (/\ res[owner[s]].sock = s
                        /\ res[owner[s]].state # "unused"
                        /\ res[owner[s]].state = "alive" \/ res[owner[s]].destroyed
                        /\ res[owner[s]].destroyed =>
                             \E u \in Tasks : Live(u) /\ task[u].type = "disconnect" /\ task[u].resource = owner[s])'
    BY DEF OwnersKnow, Marked
  <2>1. CASE owner[s] = r
    BY <2>1 DEF Bookkeeping, OwnersKnow, Marked, Live
  <2>2. CASE owner[s] # r
    <3>1. owner'[s] = owner[s] /\ res'[owner[s]] = res[owner[s]]
      BY <1>1, <2>2 DEF Marked
    <3>2. \A u \in Tasks : Live(u) => task'[u] = task[u]
      BY DEF Marked, Live
    <3>. QED
      BY <3>1, <3>2 DEF Bookkeeping, OwnersKnow, Live
  <2>. QED
    BY <2>1, <2>2
<1>6. SocketsAreOpen' /\ FreshThings'
  BY <1>1 DEF Bookkeeping, SocketsAreOpen, FreshThings, Marked, Alive, Resources
<1>7. InBetween'
  BY DEF Bookkeeping, InBetween, TypeOK, Marked, Live, NoTask, Tasks
<1>8. AnsweredOnce'
  <2>1. posts[n] = 0 /\ posts' = posts
    BY DEF Bookkeeping, FreshThings, Marked
  <2>. QED
    BY <1>1, <2>1 DEF Bookkeeping, AnsweredOnce, Marked, Live, Alive
<1>. QED
  BY <1>2, <1>3, <1>4, <1>5, <1>6, <1>7, <1>8 DEF Bookkeeping

(* The disconnect task t aborts the other tasks of its socket. *)
LEMMA AbortEffect ==
  ASSUME Bookkeeping, NEW t \in Tasks, handle_disconnect_stage2(t)
  PROVE  /\ Live(t) /\ task[t].type = "disconnect" /\ closing = NoTask /\ closing' = t
         /\ t # adding
         /\ UNCHANGED <<res, owner, adding>>
         /\ task' \in [Tasks -> TaskType] /\ posts' \in [Tasks -> 0 .. 1]
         /\ \A u \in Tasks : task'[u].type = task[u].type /\ task'[u].resource = task[u].resource
         /\ task'[t].mem = "live" /\ task'[t].sock = task[t].sock /\ task'[t].at = "fired"
         /\ \A u \in Pending(t) : /\ Live(u) /\ task[u].type # "disconnect"
                                  /\ task'[u].mem = "freed" /\ posts'[u] = 1
         /\ \A u \in Tasks \ Pending(t) : u # t => task'[u] = task[u]
         /\ \A u \in Tasks \ Pending(t) : posts'[u] = posts[u]
<1>. DEFINE P == Pending(t)
            tk == Destroyed(task, P)
<1>1. /\ Live(t) /\ task[t].type = "disconnect" /\ task[t].at = "armed"
      /\ closing = NoTask /\ closing' = t /\ UNCHANGED <<res, owner, adding>>
      /\ task' = [tk EXCEPT ![t].at = "fired"]
      /\ ppb_message_loop_post_work_with_result(P)
  BY DEF handle_disconnect_stage2, Armed
<1>2. /\ P \in SUBSET Tasks /\ t \notin P
      /\ \A u \in P : Live(u) /\ task[u].resource = task[t].resource
  BY DEF Pending, InTable
<1>3. \A u \in P : task[u].type # "disconnect" /\ posts[u] = 0
  BY <1>1, <1>2 DEF Bookkeeping, OneDisconnect, AnsweredOnce
<1>4. t # adding
  BY <1>1 DEF Bookkeeping, InBetween, NoTask, Tasks
<1>. HIDE DEF P
<1>5. TypeOK /\ task \in [Tasks -> TaskType]
  BY DEF Bookkeeping, TypeOK
<1>6. /\ tk \in [Tasks -> TaskType] /\ \A u \in Tasks \ P : tk[u] = task[u]
      /\ \A u \in P : /\ tk[u].mem = "freed" /\ tk[u].type = task[u].type
                      /\ tk[u].resource = task[u].resource
  BY <1>2, <1>5, NetworkBoundsAssumption, DestroyedEffect
<1>. HIDE DEF tk
<1>7. /\ task' \in [Tasks -> TaskType] /\ \A u \in Tasks \ {t} : task'[u] = tk[u]
      /\ task'[t].mem = tk[t].mem /\ task'[t].type = tk[t].type /\ task'[t].at = "fired"
      /\ task'[t].resource = tk[t].resource /\ task'[t].sock = tk[t].sock
  BY <1>1, <1>6 DEF TaskType
<1>8. /\ posts' \in [Tasks -> 0 .. 1]
      /\ \A u \in Tasks : posts'[u] = IF u \in P THEN 1 ELSE posts[u]
  BY <1>1, <1>2, <1>3, <1>5, PostEffect
<1>. QED
  BY <1>1, <1>2, <1>3, <1>4, <1>6, <1>7, <1>8 DEF P, Live

LEMMA AbortBookkeeping ==
  ASSUME Bookkeeping, NEW t \in Tasks, handle_disconnect_stage2(t)
  PROVE  Bookkeeping'
<1>. DEFINE P == Pending(t)
<1>. HIDE DEF P
<1>0. /\ Live(t) /\ task[t].type = "disconnect" /\ closing = NoTask /\ closing' = t
      /\ t # adding
      /\ UNCHANGED <<res, owner, adding>>
      /\ task' \in [Tasks -> TaskType] /\ posts' \in [Tasks -> 0 .. 1]
      /\ \A u \in Tasks : task'[u].type = task[u].type /\ task'[u].resource = task[u].resource
      /\ task'[t].mem = "live" /\ task'[t].sock = task[t].sock /\ task'[t].at = "fired"
      /\ \A u \in P : Live(u) /\ task[u].type # "disconnect" /\ task'[u].mem = "freed" /\ posts'[u] = 1
      /\ \A u \in Tasks \ P : (u # t => task'[u] = task[u]) /\ posts'[u] = posts[u]
  BY AbortEffect DEF P
<1>1. TypeOK'
  BY <1>0 DEF Bookkeeping, TypeOK
<1>2. \A u \in Tasks : TaskIsOfItsResource(u)'
  <2>. SUFFICES ASSUME NEW u \in Tasks PROVE TaskIsOfItsResource(u)'
    OBVIOUS
  <2>1. CASE u \in P
    BY <1>0, <2>1 DEF TaskIsOfItsResource, Live
  <2>2. CASE u \notin P
    BY <1>0, <2>2 DEF Bookkeeping, TaskIsOfItsResource, Live
  <2>. QED
    BY <2>1, <2>2
<1>3. OneDisconnect'
  BY <1>0 DEF Bookkeeping, OneDisconnect, Live
<1>4. OwnersKnow'
  <2>1. \A u \in Tasks : Live(u) /\ task[u].type = "disconnect" => Live(u)'
    BY <1>0 DEF Live
  <2>. QED
    BY <1>0, <2>1 DEF Bookkeeping, OwnersKnow
<1>5. SocketsAreOpen'
  BY <1>0 DEF Bookkeeping, SocketsAreOpen, Alive
<1>6. FreshThings'
  <2>1. \A u \in Tasks : task'[u].mem = "unused" => posts'[u] = 0
    BY <1>0 DEF Bookkeeping, FreshThings
  <2>. QED
    BY <1>0, <2>1 DEF Bookkeeping, FreshThings
<1>7. InBetween'
  BY <1>0 DEF Bookkeeping, InBetween, TypeOK, Live
<1>8. AnsweredOnce'
  BY <1>0 DEF Bookkeeping, AnsweredOnce, Live
<1>. QED
  BY <1>1, <1>2, <1>3, <1>4, <1>5, <1>6, <1>7, <1>8 DEF Bookkeeping

(* The descriptor is closed, after the lock was left. *)
LEMMA CloseBookkeeping ==
  ASSUME Bookkeeping, DisconnectClose
  PROVE  Bookkeeping'
<1>1. PICK c \in Tasks : c = closing
  BY DEF DisconnectClose, Bookkeeping, TypeOK
<1>2. /\ Live(c) /\ task[c].type = "disconnect" /\ task[c].sock \in Socks
      /\ owner[task[c].sock] = task[c].resource /\ task[c].resource \in Resources
      /\ task[c].resource \notin Resolvers /\ posts[c] = 0
      /\ res[task[c].resource].destroyed
  BY <1>1 DEF DisconnectClose, Bookkeeping, InBetween, TaskIsOfItsResource, TypeOK, TaskType,
              AnsweredOnce
<1>. DEFINE s == task[c].sock
<1>3. /\ OnlyTask(task, c) /\ task'[c].mem = "freed" /\ posts' = posts
      /\ closing' = NoTask /\ UNCHANGED <<res, adding>>
      /\ owner' = [owner EXCEPT ![s] = Nobody]
  BY <1>1, DropEffect DEF DisconnectClose, Bookkeeping
<1>. HIDE DEF s
<1>4. /\ owner' \in [Socks -> Sockets \cup {Nobody}] /\ owner'[s] = Nobody
      /\ \A k \in Socks \ {s} : owner'[k] = owner[k]
  BY <1>2, <1>3 DEF Bookkeeping, TypeOK, s
<1>5. TypeOK'
  BY <1>3, <1>4 DEF Bookkeeping, TypeOK, OnlyTask
<1>6. \A u \in Tasks : TaskIsOfItsResource(u)'
  <2>. SUFFICES ASSUME NEW u \in Tasks, u # c, Live(u) PROVE TaskIsOfItsResource(u)'
    BY <1>3 DEF TaskIsOfItsResource, OnlyTask, Live
  <2>1. task[u].type = "disconnect" => task[u].sock # s
    BY <1>2 DEF Bookkeeping, TaskIsOfItsResource, OneDisconnect, s
  <2>. QED
    BY <1>3, <1>4, <2>1 DEF Bookkeeping, TaskIsOfItsResource, OnlyTask, Live
<1>7. OneDisconnect'
  BY <1>3 DEF Bookkeeping, OneDisconnect, OnlyTask, Live
<1>8. OwnersKnow'
  <2>. SUFFICES ASSUME NEW k \in Socks, owner'[k] # Nobody
                PROVE  (/\ res[owner[k]].sock = k
                        /\ res[owner[k]].state # "unused"
                        /\ res[owner[k]].state = "alive" \/ res[owner[k]].destroyed
                        /\ res[owner[k]].destroyed =>
                             \E u \in Tasks : Live(u) /\ task[u].type = "disconnect" /\ task[u].resource = owner[k])'
    BY DEF OwnersKnow
  <2>1. k # s /\ owner'[k] = owner[k]
    BY <1>4
  <2>2. owner[k] # task[c].resource
    BY <1>2, <2>1, ResourcesAssumption DEF Bookkeeping, OwnersKnow, s
  <2>3. ASSUME res[owner[k]].destroyed
        PROVE  \E u \in Tasks : Live(u)' /\ task'[u].type = "disconnect" /\ task'[u].resource = owner[k]
    <3>1. PICK u \in Tasks : Live(u) /\ task[u].type = "disconnect" /\ task[u].resource = owner[k]
      BY <2>1, <2>3 DEF Bookkeeping, OwnersKnow
    <3>2. task'[u] = task[u]
      BY <1>3, <2>2, <3>1 DEF OnlyTask
    <3>. QED
      BY <3>1, <3>2 DEF Live
  <2>. QED
    BY <1>3, <2>1, <2>3 DEF Bookkeeping, OwnersKnow
<1>9. SocketsAreOpen'
  <2>. SUFFICES ASSUME NEW r \in Sockets, Alive(r), ~res[r].destroyed
                PROVE  owner'[res[r].sock] = r
    BY <1>3 DEF SocketsAreOpen, Alive
  <2>1. owner[res[r].sock] = r /\ res[r].sock \in Socks
    BY DEF Bookkeeping, SocketsAreOpen, FreshThings, Alive
  <2>2. res[r].sock # s
    BY <1>2, <2>1 DEF s
  <2>. QED
    BY <1>4, <2>1, <2>2
<1>10. FreshThings' /\ AnsweredOnce'
  BY <1>2, <1>3 DEF Bookkeeping, FreshThings, AnsweredOnce, OnlyTask, Live
<1>11. InBetween'
  <2>1. adding # c \/ adding = NoTask
    BY <1>1 DEF Bookkeeping, InBetween, DisconnectClose
  <2>. QED
    BY <1>3, <2>1 DEF Bookkeeping, InBetween, TypeOK, OnlyTask, Live
<1>. QED
  BY <1>5, <1>6, <1>7, <1>8, <1>9, <1>10, <1>11 DEF Bookkeeping

LEMMA BookkeepingNext ==
  ASSUME Bookkeeping, [Next]_vars
  PROVE  Bookkeeping'
<1>1. CASE UNCHANGED vars
  BY <1>1 DEF vars, Bookkeeping, TypeOK, TaskIsOfItsResource, OneDisconnect, OwnersKnow,
              SocketsAreOpen, InBetween, FreshThings, AnsweredOnce, Live, Alive
<1>2. ASSUME NEW r \in Resources, Create(r) PROVE Bookkeeping'
  BY <1>2, CreateBookkeeping
<1>3. ASSUME NEW r \in Resources, Unref(r) \/ (r \in Sockets /\ Disconnect(r)) PROVE Bookkeeping'
  BY <1>3, DestroyEffect, DroppedBookkeeping, MarkedBookkeeping
<1>4. ASSUME NEW r \in Resources,
             \/ r \in TCP /\ (Connect(r) \/ Read(r) \/ Write(r))
             \/ r \in UDP /\ (RecvFrom(r) \/ SendTo(r))
             \/ r \in Resolvers /\ Resolve(r)
      PROVE  Bookkeeping'
  BY <1>4, CallsStart, StartedBookkeeping DEF Usable
<1>5. CASE PluginCall
  BY <1>2, <1>3, <1>4, <1>5 DEF PluginCall, Resources, Sockets
<1>6. ASSUME NEW t \in Tasks, Timed(t) \/ Untimed(t) PROVE Bookkeeping'
  BY <1>6, HandlersMove, MovedBookkeeping, AbortBookkeeping DEF Timed
<1>. QED
  BY <1>1, <1>5, <1>6, EventAddBookkeeping, CloseBookkeeping DEF Next

-----------------------------------------------------------------------------
(* Every accepted call is answered exactly once; only one whose resource   *)
(* the plugin has let go may end without an answer.  Disconnect's abort of *)
(* the tasks in the table and the stages that end a task on the other      *)
(* thread never both answer it.                                            *)
THEOREM EveryCallIsAnsweredOnce == Spec => []AnsweredOnce
<1>1. Bookkeeping => AnsweredOnce
  BY DEF Bookkeeping
<1>. QED
  BY <1>1, BookkeepingInit, BookkeepingNext, PTL DEF Spec

LEMMA BookkeepingClosable == Bookkeeping => OpenSocketsAreClosable
<1>. SUFFICES ASSUME Bookkeeping, NEW s \in Socks, owner[s] # Nobody
              PROVE  LET r == res[owner[s]]
                         closers == {t \in Tasks : /\ Live(t) /\ task[t].type = "disconnect"
                                                   /\ task[t].sock = s}
                     IN  /\ r.sock = s
                         /\ Cardinality(closers) = IF r.destroyed THEN 1 ELSE 0
                         /\ r.state = "alive" \/ r.destroyed
  BY DEF OpenSocketsAreClosable
<1>. DEFINE closers == {t \in Tasks : Live(t) /\ task[t].type = "disconnect" /\ task[t].sock = s}
<1>1. res[owner[s]].sock = s /\ (res[owner[s]].state = "alive" \/ res[owner[s]].destroyed)
  BY DEF Bookkeeping, OwnersKnow
<1>2. \A t \in closers : task[t].resource = owner[s] /\ res[owner[s]].destroyed
  BY DEF Bookkeeping, TaskIsOfItsResource
<1>3. CASE ~res[owner[s]].destroyed
  <2>1. closers = {}
    BY <1>2, <1>3
  <2>. QED
    BY <1>1, <1>3, <2>1, FS_EmptySet
<1>4. CASE res[owner[s]].destroyed
  <2>1. PICK t \in Tasks : Live(t) /\ task[t].type = "disconnect" /\ task[t].resource = owner[s]
    BY <1>4 DEF Bookkeeping, OwnersKnow
  <2>2. task[t].sock = s
    <3>1. task[t].sock \in Socks /\ owner[task[t].sock] = owner[s]
      BY <2>1 DEF Bookkeeping, TaskIsOfItsResource
    <3>. QED
      BY <1>1, <3>1 DEF Bookkeeping, OwnersKnow
  <2>3. closers = {t}
    BY <1>2, <2>1, <2>2 DEF Bookkeeping, OneDisconnect
  <2>. QED
    BY <1>1, <1>4, <2>3, FS_Singleton
<1>. QED
  BY <1>3, <1>4

(* No descriptor is leaked: an open one belongs to a socket the plugin can *)
(* still close, or exactly one disconnect task is going to close it.       *)
THEOREM DescriptorsAreNotLeaked == Spec => []OpenSocketsAreClosable
<1>. QED
  BY BookkeepingInit, BookkeepingNext, BookkeepingClosable, PTL DEF Spec

-----------------------------------------------------------------------------
(* A plugin that leaves closed sockets alone: no task is left behind. *)

LEMMA NoStraysInit == Init => NoStrays
<1>. SUFFICES ASSUME Init PROVE NoStrays
  OBVIOUS
<1>1. \A t \in Tasks : task[t].mem = "unused"
  BY DEF Init
<1>. QED
  BY <1>1 DEF Init, NoStrays, NoFreedTaskIsUsed, TasksHaveTheirSocket, Live

LEMMA StartedNoStrays ==
  ASSUME NetworkInv, NEW n \in Tasks, NEW type \in Types \ {"disconnect"}, NEW r \in Resources,
         type = "resolve" <=> r \in Resolvers, Alive(r), ~res[r].destroyed, adding = NoTask,
         Started(n, type, r)
  PROVE  NoStrays'
<1>1. type # "resolve" => owner[res[r].sock] = r
  BY DEF NetworkInv, Bookkeeping, SocketsAreOpen, Resources
<1>2. closing # NoTask => /\ closing \in Tasks /\ closing # n /\ Live(closing)
                          /\ res[task[closing].resource].destroyed
  BY DEF NetworkInv, Bookkeeping, InBetween, TaskIsOfItsResource, TypeOK, Started, Live
<1>3. NoFreedTaskIsUsed'
  BY <1>2 DEF NoFreedTaskIsUsed, Started, Live
<1>4. TasksHaveTheirSocket'
  BY <1>1 DEF NetworkInv, NoStrays, TasksHaveTheirSocket, Started, Live
<1>5. ASSUME NEW t \in Tasks, Live(t)', task'[t].type \notin {"resolve", "disconnect"}
      PROVE  (/\ task[t].at # "memory"
              /\ res[task[t].resource].destroyed => InTable(t)
              /\ res[task[t].resource].destroyed => t # adding
              /\ closing # NoTask => task[closing].resource # task[t].resource)'
  <2>1. CASE t = n
    BY <1>2, <1>5, <2>1 DEF Started, Live
  <2>2. CASE t # n
    BY <1>2, <1>5, <2>2 DEF NetworkInv, NoStrays, Started, Live, InTable
  <2>. QED
    BY <2>1, <2>2
<1>. QED
  BY <1>3, <1>4, <1>5 DEF NoStrays

LEMMA MovedNoStrays ==
  ASSUME NetworkInv, NEW t \in Tasks, Moved(t)
  PROVE  NoStrays'
<1>1. t # adding /\ (adding # NoTask => adding \in Tasks) /\ closing' = NoTask /\ adding' = adding
  BY DEF NetworkInv, Bookkeeping, InBetween, TypeOK, Moved, Live, NoTask, Tasks
<1>2. \A u \in Tasks : task[u].resource \in Resources
  BY DEF NetworkInv, Bookkeeping, TypeOK, TaskType
<1>3. NoFreedTaskIsUsed'
  BY <1>1 DEF NetworkInv, NoStrays, NoFreedTaskIsUsed, Moved, OnlyTask, Live
<1>4. TasksHaveTheirSocket'
  BY <1>2 DEF NetworkInv, NoStrays, TasksHaveTheirSocket, Moved, OnlyTask, Live
<1>5. ASSUME NEW u \in Tasks, Live(u)', task'[u].type \notin {"resolve", "disconnect"}
      PROVE  (/\ task[u].at # "memory"
              /\ res[task[u].resource].destroyed => InTable(u)
              /\ res[task[u].resource].destroyed => u # adding)'
  BY <1>1, <1>2, <1>5 DEF NetworkInv, NoStrays, Moved, OnlyTask, Live, InTable
<1>. QED
  BY <1>1, <1>3, <1>4, <1>5 DEF NoStrays

LEMMA CreateNoStrays ==
  ASSUME NetworkInv, NEW r \in Resources, Create(r)
  PROVE  NoStrays'
<1>1. /\ UNCHANGED <<task, posts, adding, closing>>
      /\ \A t \in Tasks : Live(t) => task[t].resource # r /\ task[t].resource \in Resources
  BY DEF Create, NetworkInv, Bookkeeping, TaskIsOfItsResource, TypeOK, TaskType
<1>2. \A q \in Resources \ {r} : res'[q] = res[q]
  BY DEF Create, NetworkInv, Bookkeeping, TypeOK
<1>3. \A s \in Socks : owner[s] # Nobody => owner'[s] = owner[s]
  <2>1. CASE r \in Resolvers
    BY <2>1 DEF Create
  <2>2. CASE r \notin Resolvers
    <3>. DEFINE free == {s \in Socks : owner[s] = Nobody}
    <3>1. free \in SUBSET Nat /\ free # {} /\ owner' = [owner EXCEPT ![Min(free)] = r]
      BY <2>2 DEF Create, Socks
    <3>2. Min(free) \in free
      BY <3>1, MinIsIn
    <3>. HIDE DEF free
    <3>3. owner[Min(free)] = Nobody
      BY <3>2 DEF free
    <3>. QED
      BY <3>1, <3>3 DEF NetworkInv, Bookkeeping, TypeOK
  <2>. QED
    BY <2>1, <2>2
<1>4. NoFreedTaskIsUsed'
  BY <1>1 DEF NetworkInv, NoStrays, NoFreedTaskIsUsed, Live
<1>5. TasksHaveTheirSocket'
  BY <1>1, <1>3, ResourcesAssumption
     DEF NetworkInv, Bookkeeping, TaskIsOfItsResource, NoStrays, TasksHaveTheirSocket, Live
<1>. QED
  BY <1>1, <1>2, <1>4, <1>5 DEF NetworkInv, NoStrays, Live, InTable

LEMMA EventAddNoStrays ==
  ASSUME NetworkInv, event_add
  PROVE  NoStrays'
<1>1. adding \in Tasks /\ adding' = NoTask /\ UNCHANGED <<res, owner, posts, closing>>
  BY DEF event_add, NetworkInv, Bookkeeping, TypeOK
<1>2. \A u \in Tasks : /\ task'[u].mem = task[u].mem /\ task'[u].type = task[u].type
                       /\ task'[u].resource = task[u].resource /\ task'[u].sock = task[u].sock
                       /\ task'[u].at = IF u = adding THEN "armed" ELSE task[u].at
  BY <1>1 DEF event_add, NetworkInv, Bookkeeping, TypeOK, TaskType
<1>3. closing \in Tasks \cup {NoTask}
  BY DEF NetworkInv, Bookkeeping, TypeOK
<1>4. NoTask \notin Tasks
  BY DEF NoTask, Tasks
<1>. QED
  BY <1>1, <1>2, <1>3, <1>4
     DEF NetworkInv, NoStrays, NoFreedTaskIsUsed, TasksHaveTheirSocket, Live, InTable

LEMMA DroppedNoStrays ==
  ASSUME NetworkInv, NEW r \in Resources, Dropped(r)
  PROVE  NoStrays'
<1>1. \A u \in Tasks : task[u].resource \in Resources
  BY DEF NetworkInv, Bookkeeping, TypeOK, TaskType
<1>2. \A q \in Resources : res'[q].destroyed = res[q].destroyed
  BY DEF Dropped
<1>. QED
  BY <1>1, <1>2 DEF Dropped, NetworkInv, NoStrays, NoFreedTaskIsUsed, TasksHaveTheirSocket, Live,
                    InTable

(* No task of the socket is with evdns, so they are all in the table. *)
LEMMA MarkedNoStrays ==
  ASSUME NetworkInv, ClosesInLookup = FALSE, NEW n \in Tasks, NEW r \in Resources, MayClose(r),
         Marked(n, r)
  PROVE  NoStrays'
<1>1. \A u \in Tasks : task[u].resource \in Resources /\ task[u].at \in Places
  BY DEF NetworkInv, Bookkeeping, TypeOK, TaskType, Places
<1>2. owner[res[r].sock] = r
  BY DEF NetworkInv, Bookkeeping, SocketsAreOpen, Marked
<1>3. closing # NoTask => closing \in Tasks /\ closing # n /\ Live(closing)
  BY DEF NetworkInv, Bookkeeping, InBetween, TypeOK, Marked, Live
<1>4. NoFreedTaskIsUsed'
  BY <1>3 DEF NoFreedTaskIsUsed, Marked, Live
<1>5. TasksHaveTheirSocket'
  BY <1>2 DEF NetworkInv, NoStrays, TasksHaveTheirSocket, Marked, Live
<1>6. ASSUME NEW t \in Tasks, Live(t)', task'[t].type \notin {"resolve", "disconnect"}
      PROVE  (/\ task[t].at # "memory"
              /\ res[task[t].resource].destroyed => InTable(t)
              /\ res[task[t].resource].destroyed => t # adding
              /\ closing # NoTask => task[closing].resource # task[t].resource)'
  <2>1. t # n /\ task'[t] = task[t] /\ Live(t)
    BY <1>6 DEF Marked, Live
  <2>2. task[t].resource = r => InTable(t)
    BY <1>1, <1>6, <2>1 DEF MayClose, Looking, InTable, NetworkInv, NoStrays, Marked, Places
  <2>3. task[t].resource # r => res'[task[t].resource] = res[task[t].resource]
    BY <1>1 DEF Marked
  <2>. QED
    BY <1>3, <1>6, <2>1, <2>2, <2>3 DEF NetworkInv, NoStrays, Marked, InTable, Live
<1>. QED
  BY <1>4, <1>5, <1>6 DEF NoStrays

(* Disconnect finds every other task of its socket in the table. *)
LEMMA AbortNoStrays ==
  ASSUME NetworkInv, NEW t \in Tasks, handle_disconnect_stage2(t)
  PROVE  NoStrays'
<1>0. /\ Live(t) /\ task[t].type = "disconnect" /\ closing = NoTask /\ closing' = t
      /\ t # adding /\ UNCHANGED <<res, owner, adding>>
      /\ \A u \in Tasks : task'[u].type = task[u].type /\ task'[u].resource = task[u].resource
      /\ task'[t].mem = "live" /\ task'[t].sock = task[t].sock /\ task'[t].at = "fired"
      /\ \A u \in Pending(t) : task[u].type # "disconnect" /\ task'[u].mem = "freed"
      /\ \A u \in Tasks \ Pending(t) : u # t => task'[u] = task[u]
  BY AbortEffect DEF NetworkInv
<1>1. res[task[t].resource].destroyed /\ task[t].resource \notin Resolvers
  BY <1>0 DEF NetworkInv, Bookkeeping, TaskIsOfItsResource
<1>2. adding # NoTask => adding \in Tasks /\ Live(adding) /\ adding \notin Pending(t)
  <2>. SUFFICES ASSUME adding # NoTask, adding \in Pending(t) PROVE FALSE
    BY DEF NetworkInv, Bookkeeping, TypeOK, NoStrays, NoFreedTaskIsUsed
  <2>1. adding \in Tasks /\ Live(adding) /\ task[adding].resource = task[t].resource
    BY DEF Pending, InTable
  <2>2. task[adding].type \notin {"resolve", "disconnect"}
    BY <1>0, <1>1, <2>1 DEF NetworkInv, Bookkeeping, TaskIsOfItsResource
  <2>. QED
    BY <1>1, <2>1, <2>2 DEF NetworkInv, NoStrays
<1>3. NoFreedTaskIsUsed'
  BY <1>0, <1>2 DEF NoFreedTaskIsUsed, Live
<1>4. TasksHaveTheirSocket'
  BY <1>0 DEF NetworkInv, NoStrays, TasksHaveTheirSocket, Live
<1>5. ASSUME NEW u \in Tasks, Live(u)', task'[u].type \notin {"resolve", "disconnect"}
      PROVE  (/\ task[u].at # "memory"
              /\ res[task[u].resource].destroyed => InTable(u)
              /\ res[task[u].resource].destroyed => u # adding
              /\ closing # NoTask => task[closing].resource # task[u].resource)'
  <2>1. u # t /\ u \notin Pending(t) /\ task'[u] = task[u] /\ Live(u)
    BY <1>0, <1>5 DEF Live
  <2>2. task[u].resource # task[t].resource
    BY <1>0, <1>1, <1>5, <2>1 DEF NetworkInv, NoStrays, Pending
  <2>. QED
    BY <1>0, <1>5, <2>1, <2>2 DEF NetworkInv, NoStrays, InTable, Live
<1>. QED
  BY <1>3, <1>4, <1>5 DEF NoStrays

(* When the descriptor is closed, nobody else has it. *)
LEMMA CloseNoStrays ==
  ASSUME NetworkInv, DisconnectClose
  PROVE  NoStrays'
<1>1. PICK c \in Tasks : c = closing
  BY DEF DisconnectClose, NetworkInv, Bookkeeping, TypeOK
<1>2. /\ closing # NoTask /\ Live(c) /\ task[c].type = "disconnect" /\ task[c].at = "fired"
      /\ task[c].sock \in Socks /\ owner[task[c].sock] = task[c].resource
  BY <1>1 DEF DisconnectClose, NetworkInv, Bookkeeping, InBetween, TaskIsOfItsResource
<1>3. /\ OnlyTask(task, c) /\ task'[c].mem = "freed" /\ closing' = NoTask /\ UNCHANGED <<res, adding>>
      /\ owner' = [owner EXCEPT ![task[c].sock] = Nobody]
  BY <1>1, DropEffect DEF DisconnectClose, NetworkInv, Bookkeeping
<1>4. adding # NoTask => adding \in Tasks /\ adding # c /\ Live(adding)
  BY <1>1, <1>2 DEF NetworkInv, Bookkeeping, InBetween, TypeOK, NoStrays, NoFreedTaskIsUsed
<1>5. NoFreedTaskIsUsed'
  BY <1>3, <1>4 DEF NoFreedTaskIsUsed, OnlyTask, Live
<1>6. TasksHaveTheirSocket'
  <2>. SUFFICES ASSUME NEW u \in Tasks, u # c, Live(u), task[u].type # "resolve"
                PROVE  owner'[task[u].sock] = task[u].resource
    BY <1>3 DEF TasksHaveTheirSocket, OnlyTask, Live
  <2>1. task[u].sock \in Socks /\ owner[task[u].sock] = task[u].resource
    BY DEF NetworkInv, Bookkeeping, TaskIsOfItsResource, NoStrays, TasksHaveTheirSocket
  <2>2. task[u].resource # task[c].resource
    BY <1>1, <1>2 DEF NetworkInv, NoStrays, Bookkeeping, OneDisconnect
  <2>. QED
    BY <1>2, <1>3, <2>1, <2>2 DEF NetworkInv, Bookkeeping, TypeOK
<1>7. ASSUME NEW u \in Tasks, Live(u)', task'[u].type \notin {"resolve", "disconnect"}
      PROVE  (/\ task[u].at # "memory"
              /\ res[task[u].resource].destroyed => InTable(u)
              /\ res[task[u].resource].destroyed => u # adding)'
  BY <1>3, <1>7 DEF NetworkInv, NoStrays, OnlyTask, InTable, Live
<1>. QED
  BY <1>3, <1>5, <1>6, <1>7 DEF NoStrays

LEMMA NoStraysNext ==
  ASSUME UsesClosed = FALSE, ClosesInLookup = FALSE, NetworkInv, [Next]_vars
  PROVE  NoStrays'
<1>1. CASE UNCHANGED vars
  BY <1>1 DEF vars, NetworkInv, NoStrays, NoFreedTaskIsUsed, TasksHaveTheirSocket, Live, InTable
<1>2. ASSUME NEW r \in Resources, Create(r) PROVE NoStrays'
  BY <1>2, CreateNoStrays
<1>3. ASSUME NEW r \in Resources, Unref(r) \/ (r \in Sockets /\ Disconnect(r)) PROVE NoStrays'
  BY <1>3, DestroyEffect, DroppedNoStrays, MarkedNoStrays DEF NetworkInv
<1>4. ASSUME NEW r \in Resources,
             \/ r \in TCP /\ (Connect(r) \/ Read(r) \/ Write(r))
             \/ r \in UDP /\ (RecvFrom(r) \/ SendTo(r))
             \/ r \in Resolvers /\ Resolve(r)
      PROVE  NoStrays'
  BY <1>4, CallsStart, StartedNoStrays DEF Usable, NetworkInv
<1>5. CASE PluginCall
  BY <1>2, <1>3, <1>4, <1>5 DEF PluginCall, Resources, Sockets
<1>6. ASSUME NEW t \in Tasks, Timed(t) \/ Untimed(t) PROVE NoStrays'
  BY <1>6, HandlersMove, MovedNoStrays, AbortNoStrays DEF Timed, NetworkInv
<1>. QED
  BY <1>1, <1>5, <1>6, EventAddNoStrays, CloseNoStrays DEF Next

(***************************************************************************)
(* Neither thread goes on with a freed task, and a task that is still to   *)
(* touch a descriptor holds the one of its own socket, which is open.      *)
(* Assumed of the plugin: it leaves a socket alone after it closed it, and *)
(* does not close one while its Connect looks up the host (a look-up is    *)
(* not in tasks_ht, where Disconnect would find it).                       *)
(***************************************************************************)
THEOREM TasksAreSafeCorrect ==
  ASSUME UsesClosed = FALSE, ClosesInLookup = FALSE PROVE Spec => []TasksAreSafe
<1>1. Init => NetworkInv
  BY BookkeepingInit, NoStraysInit DEF NetworkInv
<1>2. NetworkInv /\ [Next]_vars => NetworkInv'
  BY BookkeepingNext, NoStraysNext DEF NetworkInv
<1>3. NetworkInv => TasksAreSafe
  BY DEF NetworkInv, Bookkeeping, NoStrays, TasksAreSafe
<1>. QED
  BY <1>1, <1>2, <1>3, PTL DEF Spec

-----------------------------------------------------------------------------
(* Audio *)

CreateSteps == {"start", "open", "insert", "ready", "setcb"}
DestroySteps == {"delete", "cork", "join"}

(* Whether resource a is between its creation and its stream. *)
Creating(a) ==
  \/ a \in Players /\ audios[a].state = "unused"
  \/ a \in Inputs /\ audios[a].state = "alive"

(* Where the plugin's thread waits tells what the resource it waits for is. *)
PluginWaitsFor ==
  /\ plugin.at # "idle" => plugin.audio \in Audios
  /\ plugin.at \in CreateSteps => Creating(plugin.audio)
  /\ plugin.at \in DestroySteps => audios[plugin.audio].state = "destroying"
  /\ plugin.at \in {"insert", "ready", "setcb"} \cup DestroySteps => plugin.stream \in Streams

(* Only a player that was created plays. *)
PlayersPlay ==
  \A a \in Audios :
    /\ audios[a].is_playing => a \in Players /\ audios[a].state # "unused"
    /\ a \in Players /\ audios[a].state = "alive" => audios[a].stream \in Streams

AudioCounts == AudioTypeOK /\ BrowserKnowsOfPlaying /\ PluginWaitsFor /\ PlayersPlay

-----------------------------------------------------------------------------
(* A resource that has a stream has an open one of its own; it gets it at  *)
(* the end of its creation and has it until its destruction is over.       *)
AudiosHaveStreams ==
  \A a \in Audios :
    /\ audios[a].state = "unused" => audios[a].stream = NoStream
    /\ audios[a].state # "gone" /\ audios[a].stream # NoStream =>
         LET s == streams[audios[a].stream] IN s.mem = "open" /\ s.owner = a /\ s.alive
    /\ audios[a].state = "destroying" =>
         plugin.at \in DestroySteps /\ plugin.audio = a /\ plugin.stream = audios[a].stream

StreamsHaveAudios ==
  \A s \in Streams : Open(s) =>
    /\ streams[s].owner \in Audios
    /\ \/ /\ audios[streams[s].owner].stream = s
          /\ audios[streams[s].owner].state \in {"alive", "destroying"}
       \/ plugin.stream = s /\ plugin.audio = streams[s].owner /\ streams[s].alive
       \/ backend = "noaudio" /\ ~streams[s].alive

(* The step a thread waits in is one of its backend's, and the stream that *)
(* is made is not yet the one of its resource.                             *)
StepsOfBackend ==
  /\ plugin.at = "idle" => plugin.audio = NoAudio /\ plugin.stream = NoStream
  /\ plugin.at \in {"start", "open", "insert", "delete"} => backend = "alsa"
  /\ plugin.at \in {"ready", "cork"} => backend = "pulse"
  /\ plugin.at = "join" => backend = "jack"
  /\ plugin.at = "setcb" => backend = "noaudio"
  /\ plugin.at \in CreateSteps => audios[plugin.audio].stream = NoStream
  /\ plugin.at \in {"start", "open"} => plugin.stream = NoStream
  /\ plugin.at \in {"insert", "ready", "setcb"} =>
       LET s == streams[plugin.stream] IN s.mem = "open" /\ s.owner = plugin.audio /\ s.alive

(* audio_thread and the plugin's thread meet at the barrier only after the *)
(* list of polled streams was rebuilt for what the plugin waits for.       *)
AlsaThread ==
  /\ thread.at = "first" => plugin.at = "start"
  /\ thread.at = "barrier" =>
       /\ plugin.at \in {"start", "insert", "delete"}
       /\ plugin.at = "delete" => plugin.stream \notin fds
  /\ rebuild_fds => plugin.at \in {"insert", "delete"} /\ thread.at # "barrier"
  /\ plugin.at = "delete" /\ thread.at # "barrier" => plugin.stream \in streams_to_delete
  /\ fds \subseteq {s \in Streams : Open(s)}
  /\ thread.todo \subseteq fds
  /\ backend # "alsa" => thread.at = "none" /\ fds = {}

RunningIsSafe ==
  backend # "noaudio" =>
    /\ \A s \in running : Open(s) /\ streams[s].cb
    /\ backend \in {"pulse", "jack"} => \A s \in Streams : Open(s) => streams[s].cb
    /\ backend = "alsa" => running \subseteq fds /\ (thread.at # "serve" => running = {})

AudioOwners ==
  /\ AudiosHaveStreams /\ StreamsHaveAudios /\ StepsOfBackend
  /\ AlsaThread /\ RunningIsSafe

AudioInv == AudioCounts /\ AudioOwners

-----------------------------------------------------------------------------
(* What the parts of the steps do, field by field. *)

OnlyAudio(a) ==
  audios' \in [Audios -> AudioType] /\ \A b \in Audios : b # a => audios'[b] = audios[b]
OnlyStream(s) ==
  streams' \in [Streams -> StreamType] /\ \A t \in Streams : t # s => streams'[t] = streams[t]

PluginType ==
  [at : PluginSteps, audio : Audios \cup {NoAudio}, stream : Streams \cup {NoStream}]
PluginIs(step, a, s) ==
  /\ plugin' \in PluginType
  /\ plugin'.at = step /\ plugin'.audio = a /\ plugin'.stream = s

(* The plugin's thread goes to where it waits. *)
LEMMA GotoIs ==
  ASSUME NEW step \in PluginSteps, NEW a \in Audios, NEW s \in Streams \cup {NoStream},
         Goto(step, a, s)
  PROVE  PluginIs(step, a, s)
BY DEF Goto, PluginIs, PluginType

LEMMA IdleIs ==
  ASSUME plugin' = Idle
  PROVE  PluginIs("idle", NoAudio, NoStream)
BY DEF Idle, PluginIs, PluginType, PluginSteps

(* Creation returns with a stream or without one. *)
LEMMA CreateReturnsIs ==
  ASSUME AudioTypeOK, NEW a \in Audios, NEW s \in Streams \cup {NoStream}, CreateReturns(a, s)
  PROVE  /\ PluginIs("idle", NoAudio, NoStream) /\ OnlyAudio(a)
         /\ audios'[a].state = IF s = NoStream /\ a \in Players THEN "gone" ELSE "alive"
         /\ audios'[a].stream = s /\ audios'[a].is_playing = audios[a].is_playing
<1>1. PluginIs("idle", NoAudio, NoStream)
  BY IdleIs DEF CreateReturns
<1>2. audios \in [Audios -> AudioType]
  BY DEF AudioTypeOK
<1> QED
  BY <1>1, <1>2 DEF CreateReturns, OnlyAudio, AudioType

(* The backend's destroy has to wait. *)
LEMMA DestroyWaitsIs ==
  ASSUME AudioTypeOK, NEW step \in PluginSteps, NEW a \in Audios, NEW s \in Streams,
         DestroyWaits(step, a, s)
  PROVE  /\ PluginIs(step, a, s) /\ OnlyAudio(a)
         /\ audios'[a].state = "destroying"
         /\ audios'[a].stream = audios[a].stream /\ audios'[a].is_playing = FALSE
<1>1. PluginIs(step, a, s)
  BY GotoIs DEF DestroyWaits
<1>2. audios \in [Audios -> AudioType]
  BY DEF AudioTypeOK
<1> QED
  BY <1>1, <1>2 DEF DestroyWaits, OnlyAudio, AudioType

(* A resource is destroyed. *)
LEMMA GoneIs ==
  ASSUME AudioTypeOK, NEW a \in Audios, audios' = [audios EXCEPT ![a].state = "gone"]
  PROVE  /\ OnlyAudio(a) /\ audios'[a].state = "gone"
         /\ audios'[a].stream = audios[a].stream /\ audios'[a].is_playing = audios[a].is_playing
<1>1. audios \in [Audios -> AudioType]
  BY DEF AudioTypeOK
<1> QED
  BY <1>1 DEF OnlyAudio, AudioType

LEMMA ClosedIs ==
  ASSUME AudioTypeOK, NEW s \in Streams, streams' = [streams EXCEPT ![s].mem = "closed"]
  PROVE  OnlyStream(s) /\ streams'[s].mem = "closed"
<1>1. streams \in [Streams -> StreamType]
  BY DEF AudioTypeOK
<1> QED
  BY <1>1 DEF OnlyStream, StreamType

LEMMA DestroyReturnsIs ==
  ASSUME AudioTypeOK, NEW a \in Audios, NEW s \in Streams, DestroyReturns(a, s)
  PROVE  /\ PluginIs("idle", NoAudio, NoStream)
         /\ OnlyAudio(a) /\ audios'[a].state = "gone"
         /\ audios'[a].stream = audios[a].stream /\ audios'[a].is_playing = audios[a].is_playing
         /\ OnlyStream(s) /\ streams'[s].mem = "closed"
BY IdleIs, GoneIs, ClosedIs DEF DestroyReturns

(* A stream is allocated. *)
LEMMA NewStreamIs ==
  ASSUME AudioTypeOK, NEW s \in Streams, NEW a \in Audios, NEW c \in BOOLEAN,
         streams' = [streams EXCEPT ![s] = NewStream(a, c)]
  PROVE  /\ OnlyStream(s) /\ streams'[s].mem = "open" /\ streams'[s].owner = a
         /\ streams'[s].cb = c /\ streams'[s].alive
<1>1. streams \in [Streams -> StreamType]
  BY DEF AudioTypeOK
<1>2. NewStream(a, c) \in StreamType
  BY AudioBoundsAssumption DEF NewStream, StreamType
<1>3. /\ NewStream(a, c).mem = "open" /\ NewStream(a, c).owner = a
      /\ NewStream(a, c).cb = c /\ NewStream(a, c).alive
  BY DEF NewStream
<1>4. streams'[s] = NewStream(a, c)
  BY <1>1
<1> QED
  BY <1>1, <1>2, <1>3, <1>4 DEF OnlyStream

(* A stream gets its callback, is paused or resumed, is marked, and its    *)
(* queue grows and shrinks.                                                *)
LEMMA StreamFieldIs ==
  ASSUME AudioTypeOK, NEW s \in Streams,
         \/ streams' = [streams EXCEPT ![s].cb = TRUE]
         \/ \E p \in BOOLEAN : streams' = [streams EXCEPT ![s].paused = p]
         \/ \E n \in 0 .. MaxCmds : streams' = [streams EXCEPT ![s].cmds = n]
  PROVE  /\ OnlyStream(s) /\ streams'[s].mem = streams[s].mem
         /\ streams'[s].owner = streams[s].owner /\ streams'[s].alive = streams[s].alive
         /\ streams[s].cb => streams'[s].cb
<1>1. streams \in [Streams -> StreamType] /\ streams[s] \in StreamType
  BY DEF AudioTypeOK
<1>2. CASE streams' = [streams EXCEPT ![s].cb = TRUE]
  BY <1>1, <1>2 DEF OnlyStream, StreamType
<1>3. CASE \E p \in BOOLEAN : streams' = [streams EXCEPT ![s].paused = p]
  BY <1>1, <1>3 DEF OnlyStream, StreamType
<1>4. CASE \E n \in 0 .. MaxCmds : streams' = [streams EXCEPT ![s].cmds = n]
  BY <1>1, <1>4 DEF OnlyStream, StreamType
<1> QED
  BY <1>2, <1>3, <1>4

LEMMA MarkedIs ==
  ASSUME AudioTypeOK, NEW s \in Streams, streams' = [streams EXCEPT ![s].alive = FALSE]
  PROVE  /\ OnlyStream(s) /\ streams'[s].mem = streams[s].mem
         /\ streams'[s].owner = streams[s].owner /\ ~streams'[s].alive
<1>1. streams \in [Streams -> StreamType]
  BY DEF AudioTypeOK
<1> QED
  BY <1>1 DEF OnlyStream, StreamType

-----------------------------------------------------------------------------
(* The count of the playing resources. *)

Plays(a) == a \in Players /\ audios[a].state = "alive" /\ audios[a].is_playing
PlayingNow == {a \in Players : Plays(a)}
CountOK ==
  audio_source_count = Cardinality(PlayingNow) /\ audio_source_count \in 0 .. Cardinality(Players)

LEMMA PlayingIsFinite ==
  /\ IsFiniteSet(PlayingNow) /\ Cardinality(PlayingNow) \in 0 .. Cardinality(Players)
  /\ IsFiniteSet(PlayingNow') /\ Cardinality(PlayingNow') \in 0 .. Cardinality(Players)
<1>1. PlayingNow \subseteq Players /\ PlayingNow' \subseteq Players
  BY DEF PlayingNow
<1>2. IsFiniteSet(Players) /\ Cardinality(Players) \in Nat
  BY AudioIdsAssumption, FS_CardinalityType
<1>3. /\ IsFiniteSet(PlayingNow) /\ Cardinality(PlayingNow) <= Cardinality(Players)
      /\ IsFiniteSet(PlayingNow') /\ Cardinality(PlayingNow') <= Cardinality(Players)
  BY <1>1, <1>2, FS_Subset
<1> QED
  BY <1>2, <1>3, FS_CardinalityType

(* The count is right when it follows the one resource that changes. *)
LEMMA CountFollows ==
  ASSUME CountOK, NEW a \in Audios, \A b \in Audios : b # a => audios'[b] = audios[b],
         \/ Plays(a)' /\ ~Plays(a) /\ audio_source_count' = audio_source_count + 1
         \/ ~Plays(a)' /\ Plays(a) /\ audio_source_count' = audio_source_count - 1
         \/ (Plays(a)' <=> Plays(a)) /\ audio_source_count' = audio_source_count
  PROVE  CountOK'
<1>1. \A b \in Players : b # a => (Plays(b)' <=> Plays(b))
  BY DEF Plays, Audios
<1>2. /\ IsFiniteSet(PlayingNow) /\ Cardinality(PlayingNow) \in 0 .. Cardinality(Players)
      /\ IsFiniteSet(PlayingNow') /\ Cardinality(PlayingNow') \in 0 .. Cardinality(Players)
  BY PlayingIsFinite
<1>3. Cardinality(Players) \in Nat
  BY AudioIdsAssumption, FS_CardinalityType
<1>4. CASE Plays(a)' /\ ~Plays(a) /\ audio_source_count' = audio_source_count + 1
  <2>1. a \notin PlayingNow /\ PlayingNow' = PlayingNow \cup {a}
    BY <1>1, <1>4 DEF PlayingNow, Plays
  <2>2. Cardinality(PlayingNow') = Cardinality(PlayingNow) + 1
    BY <2>1, <1>2, FS_AddElement
  <2> QED
    BY <1>2, <1>3, <1>4, <2>2 DEF CountOK
<1>5. CASE ~Plays(a)' /\ Plays(a) /\ audio_source_count' = audio_source_count - 1
  <2>1. a \in PlayingNow /\ PlayingNow' = PlayingNow \ {a}
    BY <1>1, <1>5 DEF PlayingNow, Plays
  <2>2. Cardinality(PlayingNow') = Cardinality(PlayingNow) - 1
    BY <2>1, <1>2, FS_RemoveElement
  <2> QED
    BY <1>2, <1>3, <1>5, <2>2 DEF CountOK
<1>6. CASE (Plays(a)' <=> Plays(a)) /\ audio_source_count' = audio_source_count
  <2>1. PlayingNow' = PlayingNow
    BY <1>1, <1>6 DEF PlayingNow
  <2> QED
    BY <1>2, <1>3, <1>6, <2>1 DEF CountOK
<1> QED
  BY <1>4, <1>5, <1>6

LEMMA CountStays ==
  ASSUME CountOK, audios' = audios, audio_source_count' = audio_source_count
  PROVE  CountOK'
BY DEF CountOK, PlayingNow, Plays

(* The parts of AudioCounts, apart. *)
OtherTypesOK ==
  /\ backend \in Backends
  /\ audios \in [Audios -> AudioType]
  /\ streams \in [Streams -> StreamType]
  /\ running \subseteq Streams
  /\ plugin \in PluginType
  /\ thread \in [at : ThreadSteps, todo : SUBSET Streams]
  /\ rebuild_fds \in BOOLEAN
  /\ streams_to_delete \subseteq Streams /\ fds \subseteq Streams
  /\ statusCalls \in 0 .. MaxStatusCalls
  /\ told \in BOOLEAN
ToldOK == audio_source_count > 0 /\ statusCalls = 0 => told

LEMMA CountsAre ==
  AudioCounts <=> OtherTypesOK /\ CountOK /\ ToldOK /\ PluginWaitsFor /\ PlayersPlay
BY DEF AudioCounts, AudioTypeOK, BrowserKnowsOfPlaying, OtherTypesOK, PluginType, CountOK,
       PlayingNow, Plays, ToldOK

LEMMA CountsArePrimed ==
  AudioCounts' <=> OtherTypesOK' /\ CountOK' /\ ToldOK' /\ PluginWaitsFor' /\ PlayersPlay'
BY DEF AudioCounts, AudioTypeOK, BrowserKnowsOfPlaying, OtherTypesOK, PluginType, CountOK,
       PlayingNow, Plays, ToldOK

-----------------------------------------------------------------------------
(* How each kind of step keeps AudioCounts. *)

(* The browser still knows when the count does not change. *)
LEMMA ToldStays ==
  ASSUME ToldOK, UNCHANGED statusVars
  PROVE  ToldOK'
BY DEF ToldOK, statusVars

(* Steps of the threads that play: neither the resources nor the plugin.   *)
LEMMA CountsSteady ==
  ASSUME AudioCounts, OtherTypesOK', UNCHANGED <<audios, plugin, statusVars>>
  PROVE  AudioCounts'
<1>1. OtherTypesOK /\ CountOK /\ ToldOK /\ PluginWaitsFor /\ PlayersPlay
  BY CountsAre
<1>2. CountOK'
  BY <1>1, CountStays DEF statusVars
<1>3. ToldOK'
  BY <1>1, ToldStays
<1>4. PluginWaitsFor' /\ PlayersPlay'
  BY <1>1 DEF PluginWaitsFor, PlayersPlay, Creating
<1> QED
  BY <1>2, <1>3, <1>4, CountsArePrimed

(* Creation has to wait. *)
LEMMA CountsCreating ==
  ASSUME AudioCounts, OtherTypesOK', NEW a \in Audios, Creating(a), NEW step \in CreateSteps,
         NEW s \in Streams \cup {NoStream}, s # NoStream \/ step \in {"start", "open"},
         PluginIs(step, a, s), UNCHANGED <<audios, statusVars>>
  PROVE  AudioCounts'
<1>1. OtherTypesOK /\ CountOK /\ ToldOK /\ PluginWaitsFor /\ PlayersPlay
  BY CountsAre
<1>2. CountOK'
  BY <1>1, CountStays DEF statusVars
<1>3. ToldOK'
  BY <1>1, ToldStays
<1>4. PluginWaitsFor'
  BY DEF PluginWaitsFor, PluginIs, Creating, CreateSteps, DestroySteps
<1>5. PlayersPlay'
  BY <1>1 DEF PlayersPlay
<1> QED
  BY <1>2, <1>3, <1>4, <1>5, CountsArePrimed

(* Creation returns. *)
LEMMA CountsCreated ==
  ASSUME AudioCounts, OtherTypesOK', NEW a \in Audios, Creating(a),
         NEW s \in Streams \cup {NoStream}, CreateReturns(a, s), UNCHANGED statusVars
  PROVE  AudioCounts'
<1>1. OtherTypesOK /\ CountOK /\ ToldOK /\ PluginWaitsFor /\ PlayersPlay /\ AudioTypeOK
  BY CountsAre DEF AudioCounts
<1>2. /\ PluginIs("idle", NoAudio, NoStream) /\ OnlyAudio(a)
      /\ audios'[a].state = IF s = NoStream /\ a \in Players THEN "gone" ELSE "alive"
      /\ audios'[a].stream = s /\ audios'[a].is_playing = audios[a].is_playing
  BY <1>1, CreateReturnsIs
<1>3. Plays(a)' <=> Plays(a)
  BY <1>1, <1>2, AudioIdsAssumption DEF Plays, Creating, PlayersPlay
<1>4. CountOK'
  BY <1>1, <1>2, <1>3, CountFollows DEF OnlyAudio, statusVars
<1>5. ToldOK'
  BY <1>1, ToldStays
<1>6. PluginWaitsFor'
  BY <1>2 DEF PluginWaitsFor, PluginIs, CreateSteps, DestroySteps
<1>7. PlayersPlay'
  BY <1>1, <1>2, NoneAssumption, AudioIdsAssumption DEF PlayersPlay, OnlyAudio, Creating
<1> QED
  BY <1>4, <1>5, <1>6, <1>7, CountsArePrimed

(* Destruction has to wait. *)
LEMMA CountsDestroying ==
  ASSUME AudioCounts, OtherTypesOK', NEW a \in Audios, audios[a].state = "alive",
         NEW step \in DestroySteps, NEW s \in Streams, DestroyWaits(step, a, s),
         Uncount(a), UNCHANGED <<statusCalls, told>>
  PROVE  AudioCounts'
<1>1. OtherTypesOK /\ CountOK /\ ToldOK /\ PluginWaitsFor /\ PlayersPlay /\ AudioTypeOK
  BY CountsAre DEF AudioCounts
<1>2. step \in PluginSteps
  BY DEF DestroySteps, PluginSteps
<1>3. /\ PluginIs(step, a, s) /\ OnlyAudio(a)
      /\ audios'[a].state = "destroying"
      /\ audios'[a].stream = audios[a].stream /\ audios'[a].is_playing = FALSE
  BY <1>1, <1>2, DestroyWaitsIs
<1>4. audios[a].is_playing <=> Plays(a)
  BY <1>1 DEF Plays, PlayersPlay
<1>5. ~Plays(a)'
  BY <1>3 DEF Plays
<1>6. CountOK'
  BY <1>1, <1>3, <1>4, <1>5, CountFollows DEF OnlyAudio, Uncount
<1>7. ToldOK'
  BY <1>1, <1>6 DEF ToldOK, Uncount, CountOK
<1>8. PluginWaitsFor'
  BY <1>3 DEF PluginWaitsFor, PluginIs, CreateSteps, DestroySteps
<1>9. PlayersPlay'
  BY <1>1, <1>3 DEF PlayersPlay, OnlyAudio
<1> QED
  BY <1>6, <1>7, <1>8, <1>9, CountsArePrimed

(* A resource is destroyed at once: it has no stream, or the backend is    *)
(* noaudio.                                                                *)
LEMMA CountsGone ==
  ASSUME AudioCounts, OtherTypesOK', NEW a \in Audios, audios[a].state = "alive",
         audios' = [audios EXCEPT ![a].state = "gone"], plugin.at = "idle",
         plugin' = plugin \/ plugin' = Idle,
         Uncount(a), UNCHANGED <<statusCalls, told>>
  PROVE  AudioCounts'
<1>1. OtherTypesOK /\ CountOK /\ ToldOK /\ PluginWaitsFor /\ PlayersPlay /\ AudioTypeOK
  BY CountsAre DEF AudioCounts
<1>2. /\ OnlyAudio(a) /\ audios'[a].state = "gone"
      /\ audios'[a].stream = audios[a].stream /\ audios'[a].is_playing = audios[a].is_playing
  BY <1>1, GoneIs
<1>3. audios[a].is_playing <=> Plays(a)
  BY <1>1 DEF Plays, PlayersPlay
<1>4. ~Plays(a)'
  BY <1>2 DEF Plays
<1>5. CountOK'
  BY <1>1, <1>2, <1>3, <1>4, CountFollows DEF OnlyAudio, Uncount
<1>6. ToldOK'
  BY <1>1, <1>5 DEF ToldOK, Uncount, CountOK
<1>7. plugin'.at = "idle"
  BY IdleIs DEF PluginIs
<1>8. PluginWaitsFor'
  BY <1>7 DEF PluginWaitsFor, CreateSteps, DestroySteps
<1>9. PlayersPlay'
  BY <1>1, <1>2 DEF PlayersPlay, OnlyAudio
<1> QED
  BY <1>5, <1>6, <1>8, <1>9, CountsArePrimed

(* Destruction returns. *)
LEMMA CountsDestroyed ==
  ASSUME AudioCounts, OtherTypesOK', NEW a \in Audios, audios[a].state = "destroying",
         NEW s \in Streams, DestroyReturns(a, s), UNCHANGED statusVars
  PROVE  AudioCounts'
<1>1. OtherTypesOK /\ CountOK /\ ToldOK /\ PluginWaitsFor /\ PlayersPlay /\ AudioTypeOK
  BY CountsAre DEF AudioCounts
<1>2. /\ PluginIs("idle", NoAudio, NoStream)
      /\ OnlyAudio(a) /\ audios'[a].state = "gone"
      /\ audios'[a].stream = audios[a].stream /\ audios'[a].is_playing = audios[a].is_playing
  BY <1>1, DestroyReturnsIs
<1>3. Plays(a)' <=> Plays(a)
  BY <1>2 DEF Plays
<1>4. CountOK'
  BY <1>1, <1>2, <1>3, CountFollows DEF OnlyAudio, statusVars
<1>5. ToldOK'
  BY <1>1, ToldStays
<1>6. PluginWaitsFor'
  BY <1>2 DEF PluginWaitsFor, PluginIs, CreateSteps, DestroySteps
<1>7. PlayersPlay'
  BY <1>1, <1>2 DEF PlayersPlay, OnlyAudio
<1> QED
  BY <1>4, <1>5, <1>6, <1>7, CountsArePrimed

(* StartPlayback and StopPlayback; the input's StartCapture has Pause too. *)
LEMMA PauseIs ==
  ASSUME AudioTypeOK, NEW a \in Audios, audios[a].stream \in Streams, NEW p \in BOOLEAN, Pause(a, p)
  PROVE  LET s == audios[a].stream
         IN  /\ OnlyStream(s) /\ streams'[s].mem = streams[s].mem
             /\ streams'[s].owner = streams[s].owner /\ streams'[s].alive = streams[s].alive
             /\ streams[s].cb => streams'[s].cb
<1> PICK s \in Streams : s = audios[a].stream
  OBVIOUS
<1>1. \E q \in BOOLEAN : streams' = [streams EXCEPT ![s].paused = q]
  BY DEF Pause
<1> QED
  BY <1>1, StreamFieldIs

LEMMA PlayingIs ==
  ASSUME AudioTypeOK, NEW a \in Audios, NEW p \in BOOLEAN,
         audios' = [audios EXCEPT ![a].is_playing = p]
  PROVE  /\ OnlyAudio(a) /\ audios'[a].state = audios[a].state
         /\ audios'[a].stream = audios[a].stream /\ audios'[a].is_playing = p
<1>1. audios \in [Audios -> AudioType]
  BY DEF AudioTypeOK
<1> QED
  BY <1>1 DEF OnlyAudio, AudioType

LEMMA CountsPlaying ==
  ASSUME AudioCounts, NEW a \in Players, ppb_audio_start_playback(a) \/ ppb_audio_stop_playback(a)
  PROVE  AudioCounts'
<1>1. OtherTypesOK /\ CountOK /\ ToldOK /\ PluginWaitsFor /\ PlayersPlay /\ AudioTypeOK
  BY CountsAre DEF AudioCounts
<1>2. PICK p \in BOOLEAN :
        /\ SetPlaying(a, p)
        /\ audio_source_count' =
             IF p THEN IF audios[a].is_playing THEN audio_source_count ELSE audio_source_count + 1
                  ELSE IF audios[a].is_playing THEN audio_source_count - 1 ELSE audio_source_count
  BY DEF ppb_audio_start_playback, ppb_audio_stop_playback, Uncount
<1>3. a \in Audios /\ audios[a].state = "alive" /\ audios[a].stream \in Streams
  BY <1>1, <1>2 DEF SetPlaying, PlayersPlay, Audios
<1>4. /\ OnlyAudio(a) /\ audios'[a].state = audios[a].state
      /\ audios'[a].stream = audios[a].stream /\ audios'[a].is_playing = p
  BY <1>1, <1>2, <1>3, PlayingIs DEF SetPlaying
<1>5. (Plays(a) <=> audios[a].is_playing) /\ (Plays(a)' <=> p)
  BY <1>3, <1>4 DEF Plays
<1>6. CountOK'
  <2>1. audio_source_count \in Nat
    BY <1>1 DEF CountOK
  <2>2. CASE p
    <3>1. \/ Plays(a)' /\ ~Plays(a) /\ audio_source_count' = audio_source_count + 1
          \/ (Plays(a)' <=> Plays(a)) /\ audio_source_count' = audio_source_count
      BY <1>2, <1>5, <2>2
    <3> QED
      BY <3>1, <1>1, <1>3, <1>4, CountFollows DEF OnlyAudio
  <2>3. CASE ~p
    <3>1. \/ ~Plays(a)' /\ Plays(a) /\ audio_source_count' = audio_source_count - 1
          \/ (Plays(a)' <=> Plays(a)) /\ audio_source_count' = audio_source_count
      BY <1>2, <1>5, <2>3
    <3> QED
      BY <3>1, <1>1, <1>3, <1>4, CountFollows DEF OnlyAudio
  <2> QED
    BY <2>2, <2>3
<1>7. statusCalls' \in 1 .. MaxStatusCalls
  BY <1>1, <1>2, AudioBoundsAssumption DEF SetPlaying, OtherTypesOK
<1>8. ToldOK'
  BY <1>7 DEF ToldOK
<1>9. PluginWaitsFor' /\ PlayersPlay'
  BY <1>1, <1>2, <1>3, <1>4
  DEF PluginWaitsFor, PlayersPlay, OnlyAudio, SetPlaying, CreateSteps, DestroySteps, At
<1>10. OtherTypesOK'
  <2>1. OnlyStream(audios[a].stream)
    BY <1>1, <1>2, <1>3, PauseIs DEF SetPlaying
  <2>2. UNCHANGED <<backend, running, plugin, thread, rebuild_fds, streams_to_delete, fds, told>>
    BY <1>2 DEF SetPlaying, alsaVars
  <2> QED
    BY <1>1, <1>4, <1>7, <2>1, <2>2 DEF OtherTypesOK, OnlyAudio, OnlyStream
<1> QED
  BY <1>6, <1>8, <1>9, <1>10, CountsArePrimed

(* The browser is told. *)
LEMMA CountsTold ==
  ASSUME AudioCounts, update_instance_playing_audio_status_ptac
  PROVE  AudioCounts'
<1>1. OtherTypesOK /\ CountOK /\ ToldOK /\ PluginWaitsFor /\ PlayersPlay
  BY CountsAre
<1>2. CountOK'
  BY <1>1, CountStays DEF update_instance_playing_audio_status_ptac
<1>3. ToldOK'
  BY <1>1 DEF ToldOK, update_instance_playing_audio_status_ptac
<1>4. PluginWaitsFor' /\ PlayersPlay'
  BY <1>1 DEF PluginWaitsFor, PlayersPlay, Creating, update_instance_playing_audio_status_ptac
<1>5. OtherTypesOK'
  <2>1. statusCalls' \in 0 .. MaxStatusCalls /\ told' \in BOOLEAN
    BY <1>1, AudioBoundsAssumption DEF OtherTypesOK, update_instance_playing_audio_status_ptac
  <2> QED
    BY <1>1, <2>1 DEF OtherTypesOK, update_instance_playing_audio_status_ptac, alsaVars
<1> QED
  BY <1>2, <1>3, <1>4, <1>5, CountsArePrimed

LEMMA CountsInput ==
  ASSUME AudioCounts, NEW a \in Inputs, ppb_audio_input_create(a)
  PROVE  AudioCounts'
<1>1. OtherTypesOK /\ CountOK /\ ToldOK /\ PluginWaitsFor /\ PlayersPlay
  BY CountsAre
<1>2. a \in Audios /\ a \notin Players
  BY AudioIdsAssumption DEF Audios
<1>3. audios \in [Audios -> AudioType] /\ audios' = [audios EXCEPT ![a].state = "alive"]
  BY <1>1 DEF OtherTypesOK, ppb_audio_input_create
<1>4. /\ OnlyAudio(a) /\ audios'[a].state = "alive"
      /\ audios'[a].stream = audios[a].stream /\ audios'[a].is_playing = audios[a].is_playing
  BY <1>2, <1>3 DEF OnlyAudio, AudioType
<1>5. CountOK'
  BY <1>1, <1>2, <1>4, CountFollows DEF OnlyAudio, Plays, ppb_audio_input_create, statusVars
<1>6. ToldOK'
  BY <1>1, ToldStays DEF ppb_audio_input_create
<1>7. PluginWaitsFor' /\ PlayersPlay'
  BY <1>1, <1>2, <1>4
  DEF PluginWaitsFor, PlayersPlay, OnlyAudio, ppb_audio_input_create, CreateSteps, DestroySteps, At
<1>8. OtherTypesOK'
  BY <1>1, <1>4 DEF OtherTypesOK, OnlyAudio, ppb_audio_input_create, alsaVars, statusVars
<1> QED
  BY <1>5, <1>6, <1>7, <1>8, CountsArePrimed

-----------------------------------------------------------------------------
(* The actions, one by one, keep AudioCounts. *)

(* The types after a step that leaves the resources, the plugin and the    *)
(* count alone.                                                            *)
LEMMA SteadyTypes ==
  ASSUME OtherTypesOK, UNCHANGED <<backend, audios, plugin, statusVars>>,
         streams' \in [Streams -> StreamType], running' \subseteq Streams,
         thread' \in [at : ThreadSteps, todo : SUBSET Streams], rebuild_fds' \in BOOLEAN,
         streams_to_delete' \subseteq Streams, fds' \subseteq Streams
  PROVE  OtherTypesOK'
BY DEF OtherTypesOK, statusVars

LEMMA CountsAlsaThread ==
  ASSUME AudioCounts, do_rebuild_fds \/ AlsaServed \/ AlsaPoll \/ \E s \in Streams : AlsaServe(s)
  PROVE  AudioCounts'
<1>1. OtherTypesOK
  BY CountsAre
<1>2. UNCHANGED <<backend, audios, streams, plugin, statusVars>>
  BY DEF do_rebuild_fds, AlsaServed, AlsaPoll, AlsaServe
<1>3. CASE do_rebuild_fds
  <2>1. fds' \subseteq Streams /\ streams_to_delete' \subseteq Streams /\ rebuild_fds' \in BOOLEAN
    BY <1>3 DEF do_rebuild_fds, active_streams
  <2>2. thread' \in [at : ThreadSteps, todo : SUBSET Streams] /\ running' = running
    BY <1>3 DEF do_rebuild_fds, ThreadSteps
  <2> QED
    BY <1>1, <1>2, <2>1, <2>2, SteadyTypes, CountsSteady DEF OtherTypesOK
<1>4. CASE AlsaServed
  <2>1. thread' \in [at : ThreadSteps, todo : SUBSET Streams]
    BY <1>1, <1>4 DEF AlsaServed, ThreadSteps, OtherTypesOK
  <2>2. UNCHANGED <<running, rebuild_fds, streams_to_delete, fds>>
    BY <1>4 DEF AlsaServed
  <2> QED
    BY <1>1, <1>2, <2>1, <2>2, SteadyTypes, CountsSteady DEF OtherTypesOK
<1>5. CASE AlsaPoll
  <2>1. thread' \in [at : ThreadSteps, todo : SUBSET Streams]
    BY <1>1, <1>5 DEF AlsaPoll, ThreadSteps, OtherTypesOK
  <2>2. UNCHANGED <<running, rebuild_fds, streams_to_delete, fds>>
    BY <1>5 DEF AlsaPoll
  <2> QED
    BY <1>1, <1>2, <2>1, <2>2, SteadyTypes, CountsSteady DEF OtherTypesOK
<1>6. ASSUME NEW s \in Streams, AlsaServe(s) PROVE AudioCounts'
  <2>1. thread' \in [at : ThreadSteps, todo : SUBSET Streams]
    BY <1>1, <1>6 DEF AlsaServe, ThreadSteps, OtherTypesOK
  <2>2. UNCHANGED <<rebuild_fds, streams_to_delete, fds>> /\ running' \subseteq Streams
    BY <1>6 DEF AlsaServe
  <2> QED
    BY <1>1, <1>2, <2>1, <2>2, SteadyTypes, CountsSteady DEF OtherTypesOK
<1> QED
  BY <1>3, <1>4, <1>5, <1>6

(* Steps of PulseAudio's, JACK's and noaudio's threads, and the end of a callback. *)
LEMMA CountsOtherThreads ==
  ASSUME AudioCounts, NEW s \in Streams,
         \/ ja_resampler_thread_func(s) \/ playback_cb(s) \/ PulseCallback(s)
         \/ ja_process_cb(s) \/ NoaudioCallback(s) \/ NoaudioFree(s)
  PROVE  AudioCounts'
<1>1. OtherTypesOK /\ AudioTypeOK
  BY CountsAre DEF AudioCounts
<1>2. UNCHANGED <<backend, audios, plugin, alsaVars, statusVars>>
  BY DEF ja_resampler_thread_func, playback_cb, PulseCallback, ja_process_cb, NoaudioCallback,
         NoaudioFree
<1>3. running' \subseteq Streams
  BY <1>1 DEF ja_resampler_thread_func, playback_cb, PulseCallback, ja_process_cb, NoaudioCallback,
              NoaudioFree, OtherTypesOK
<1>4. streams' \in [Streams -> StreamType]
  <2>1. CASE ja_resampler_thread_func(s)
    <3>1. streams[s].cmds - 1 \in 0 .. MaxCmds
      BY <1>1, <2>1, AudioBoundsAssumption DEF ja_resampler_thread_func, OtherTypesOK, StreamType
    <3> QED
      BY <1>1, <2>1, <3>1, StreamFieldIs DEF ja_resampler_thread_func, OnlyStream
  <2>2. CASE ja_process_cb(s)
    <3>1. streams[s].cmds + 1 \in 0 .. MaxCmds
      BY <1>1, <2>2, AudioBoundsAssumption DEF ja_process_cb, OtherTypesOK, StreamType
    <3> QED
      BY <1>1, <2>2, <3>1, StreamFieldIs DEF ja_process_cb, OnlyStream
  <2>3. CASE NoaudioFree(s)
    BY <1>1, <2>3, ClosedIs DEF NoaudioFree, OnlyStream
  <2>4. CASE playback_cb(s) \/ PulseCallback(s) \/ NoaudioCallback(s)
    BY <1>1, <2>4 DEF playback_cb, PulseCallback, NoaudioCallback, OtherTypesOK
  <2> QED
    BY <2>1, <2>2, <2>3, <2>4
<1> QED
  BY <1>1, <1>2, <1>3, <1>4, SteadyTypes, CountsSteady DEF OtherTypesOK, alsaVars

LEMMA CountsCapture ==
  ASSUME AudioCounts, NEW a \in Inputs, NEW c \in BOOLEAN, ppb_audio_input_capture(a, c)
  PROVE  AudioCounts'
<1>1. OtherTypesOK /\ AudioTypeOK
  BY CountsAre DEF AudioCounts
<1>2. a \in Audios /\ audios[a].stream \in Streams
  BY <1>1 DEF ppb_audio_input_capture, OtherTypesOK, AudioType, Audios
<1>3. streams' \in [Streams -> StreamType]
  BY <1>1, <1>2, PauseIs DEF ppb_audio_input_capture, OnlyStream
<1> QED
  BY <1>1, <1>3, SteadyTypes, CountsSteady DEF OtherTypesOK, alsaVars, ppb_audio_input_capture

(* The types after a step of a call of the plugin that keeps the count. *)
LEMMA CallTypes ==
  ASSUME OtherTypesOK, UNCHANGED <<backend, running, statusVars>>,
         audios' \in [Audios -> AudioType], plugin' \in PluginType,
         streams' \in [Streams -> StreamType],
         thread' \in [at : ThreadSteps, todo : SUBSET Streams], rebuild_fds' \in BOOLEAN,
         streams_to_delete' \subseteq Streams, fds' \subseteq Streams
  PROVE  OtherTypesOK'
BY DEF OtherTypesOK, statusVars

LEMMA CountsCreate ==
  ASSUME AudioCounts, NEW a \in Audios, Creating(a), CreateStream(a), UNCHANGED <<backend, statusVars>>
  PROVE  AudioCounts'
<1>1. OtherTypesOK /\ AudioTypeOK
  BY CountsAre DEF AudioCounts
<1>2. CASE AlsaStart(a)
  <2>1. PICK step \in {"start", "open"} : Goto(step, a, NoStream)
    BY <1>2 DEF AlsaStart
  <2>2. PluginIs(step, a, NoStream)
    BY <2>1, GotoIs DEF PluginSteps
  <2>3. thread' \in [at : ThreadSteps, todo : SUBSET Streams]
    BY <1>1, <1>2 DEF AlsaStart, OtherTypesOK, ThreadSteps
  <2>4. UNCHANGED <<audios, streams, running, rebuild_fds, streams_to_delete, fds>>
    BY <1>2 DEF AlsaStart
  <2>5. OtherTypesOK'
    BY <1>1, <2>2, <2>3, <2>4, CallTypes DEF OtherTypesOK, PluginIs
  <2> QED
    BY <2>1, <2>2, <2>4, <2>5, CountsCreating DEF CreateSteps
<1>3. CASE PulseCreate(a)
  <2>1. PICK s \in UnusedStreams :
          streams' = [streams EXCEPT ![s] = NewStream(a, TRUE)] /\ Goto("ready", a, s)
    BY <1>3 DEF PulseCreate
  <2>2. s \in Streams /\ PluginIs("ready", a, s)
    BY <2>1, GotoIs DEF PluginSteps, UnusedStreams
  <2>3. streams' \in [Streams -> StreamType]
    BY <1>1, <2>1, <2>2, NewStreamIs DEF OnlyStream
  <2>4. UNCHANGED <<audios, running, alsaVars>>
    BY <1>3 DEF PulseCreate
  <2>5. OtherTypesOK'
    BY <1>1, <2>2, <2>3, <2>4, CallTypes DEF OtherTypesOK, PluginIs, alsaVars
  <2> QED
    BY <2>2, <2>4, <2>5, CountsCreating, NoneAssumption DEF CreateSteps
<1>4. CASE JackCreate(a)
  <2>1. PICK s \in Streams \cup {NoStream} :
          /\ CreateReturns(a, s)
          /\ \/ streams' = streams
             \/ s \in Streams /\ streams' = [streams EXCEPT ![s] = NewStream(a, TRUE)]
    BY <1>4 DEF JackCreate, UnusedStreams
  <2>2. streams' \in [Streams -> StreamType]
    BY <1>1, <2>1, NewStreamIs DEF OnlyStream, OtherTypesOK
  <2>3. PluginIs("idle", NoAudio, NoStream) /\ OnlyAudio(a)
    BY <1>1, <2>1, CreateReturnsIs
  <2>4. UNCHANGED <<running, alsaVars>>
    BY <1>4 DEF JackCreate
  <2>5. OtherTypesOK'
    BY <1>1, <2>2, <2>3, <2>4, CallTypes DEF OtherTypesOK, PluginIs, alsaVars, OnlyAudio
  <2> QED
    BY <2>1, <2>5, CountsCreated
<1>5. CASE NoaudioCreate(a)
  <2>1. UNCHANGED <<running, alsaVars>>
    BY <1>5 DEF NoaudioCreate
  <2>2. CASE a \in Inputs
    <3>1. CreateReturns(a, NoStream) /\ streams' = streams
      BY <1>5, <2>2 DEF NoaudioCreate
    <3>2. PluginIs("idle", NoAudio, NoStream) /\ OnlyAudio(a)
      BY <1>1, <3>1, CreateReturnsIs
    <3>3. OtherTypesOK'
      BY <1>1, <2>1, <3>1, <3>2, CallTypes DEF OtherTypesOK, PluginIs, alsaVars, OnlyAudio
    <3> QED
      BY <3>1, <3>3, CountsCreated
  <2>3. CASE a \notin Inputs
    <3>1. PICK s \in UnusedStreams :
            /\ streams' = [streams EXCEPT ![s] = NewStream(a, FALSE)]
            /\ Goto("setcb", a, s) /\ audios' = audios
      BY <1>5, <2>3 DEF NoaudioCreate
    <3>2. s \in Streams /\ PluginIs("setcb", a, s)
      BY <3>1, GotoIs DEF PluginSteps, UnusedStreams
    <3>3. streams' \in [Streams -> StreamType]
      BY <1>1, <3>1, <3>2, NewStreamIs DEF OnlyStream
    <3>4. OtherTypesOK'
      BY <1>1, <2>1, <3>1, <3>2, <3>3, CallTypes DEF OtherTypesOK, PluginIs, alsaVars
    <3> QED
      BY <3>1, <3>2, <3>4, CountsCreating, NoneAssumption DEF CreateSteps
  <2> QED
    BY <2>2, <2>3
<1> QED
  BY <1>2, <1>3, <1>4, <1>5 DEF CreateStream

(* What the plugin's thread waited for has come. *)
LEMMA CountsWaits ==
  ASSUME AudioCounts, PluginWaits
  PROVE  AudioCounts'
<1>1. OtherTypesOK /\ AudioTypeOK /\ PluginWaitsFor
  BY CountsAre DEF AudioCounts
<1>2. UNCHANGED <<backend, running, statusVars, streams_to_delete, fds>>
  BY DEF PluginWaits, alsa_create_stream, stream_list_update_barrier, pulse_stream_state_cb,
         pulse_stream_success_cb, JackJoin, noaudio_create_playback_stream, alsaVars
<1>3. thread' \in [at : ThreadSteps, todo : SUBSET Streams] /\ rebuild_fds' \in BOOLEAN
  <2>1. CASE stream_list_update_barrier
    BY <1>1, <2>1 DEF stream_list_update_barrier, OtherTypesOK, ThreadSteps
  <2>2. CASE alsa_create_stream
    BY <1>1, <2>2 DEF alsa_create_stream, wakeup_audio_thread, OtherTypesOK
  <2> QED
    BY <1>1, <2>1, <2>2 DEF PluginWaits, pulse_stream_state_cb, pulse_stream_success_cb, JackJoin,
       noaudio_create_playback_stream, alsaVars, OtherTypesOK
<1> PICK a \in Audios : a = plugin.audio
  <2> QED
    BY <1>1 DEF PluginWaits, alsa_create_stream, stream_list_update_barrier, pulse_stream_state_cb,
       pulse_stream_success_cb, JackJoin, noaudio_create_playback_stream, PluginWaitsFor, At
<1> PICK s \in Streams \cup {NoStream} : s = plugin.stream
  BY <1>1 DEF OtherTypesOK, PluginType
<1>4. CASE \/ alsa_create_stream /\ CreateReturns(a, NoStream) /\ streams' = streams
           \/ /\ stream_list_update_barrier /\ At("insert") /\ CreateReturns(a, s)
              /\ streams' = [streams EXCEPT ![s].cb = TRUE]
           \/ pulse_stream_state_cb /\ CreateReturns(a, s) /\ streams' = streams
           \/ /\ pulse_stream_state_cb /\ CreateReturns(a, NoStream)
              /\ streams' = [streams EXCEPT ![s].mem = "closed"]
           \/ /\ noaudio_create_playback_stream /\ CreateReturns(a, s)
              /\ streams' = [streams EXCEPT ![s].cb = TRUE]
  <2>1. PICK t \in {s, NoStream} : CreateReturns(a, t)
    BY <1>4
  <2>2. Creating(a)
    BY <1>1, <1>4 DEF PluginWaitsFor, CreateSteps, alsa_create_stream, At, pulse_stream_state_cb,
       noaudio_create_playback_stream
  <2>3. streams' = streams \/ s \in Streams
    BY <1>1, <1>4 DEF PluginWaitsFor, At, pulse_stream_state_cb, noaudio_create_playback_stream
  <2>4. streams' \in [Streams -> StreamType]
    BY <1>1, <1>4, <2>3, StreamFieldIs, ClosedIs DEF OnlyStream, OtherTypesOK
  <2>5. PluginIs("idle", NoAudio, NoStream) /\ OnlyAudio(a)
    BY <1>1, <2>1, CreateReturnsIs
  <2>6. OtherTypesOK'
    BY <1>1, <1>2, <1>3, <2>4, <2>5, CallTypes DEF OtherTypesOK, PluginIs, OnlyAudio
  <2> QED
    BY <1>2, <2>1, <2>2, <2>6, CountsCreated
<1>5. CASE /\ alsa_create_stream
           /\ \E t \in UnusedStreams :
              /\ streams' = [streams EXCEPT ![t] = NewStream(a, FALSE)]
              /\ Goto("insert", a, t)
              /\ audios' = audios
  <2>1. PICK t \in Streams :
          /\ streams' = [streams EXCEPT ![t] = NewStream(a, FALSE)]
          /\ Goto("insert", a, t)
    BY <1>5 DEF UnusedStreams
  <2>2. PluginIs("insert", a, t)
    BY <2>1, GotoIs DEF PluginSteps
  <2>3. streams' \in [Streams -> StreamType]
    BY <1>1, <2>1, NewStreamIs DEF OnlyStream
  <2>4. Creating(a)
    BY <1>1, <1>5 DEF PluginWaitsFor, CreateSteps, alsa_create_stream, At
  <2>5. OtherTypesOK'
    BY <1>1, <1>2, <1>3, <1>5, <2>2, <2>3, CallTypes DEF OtherTypesOK, PluginIs
  <2> QED
    BY <1>2, <1>5, <2>2, <2>4, <2>5, CountsCreating, NoneAssumption DEF CreateSteps
<1>6. CASE /\ stream_list_update_barrier /\ At("start") /\ Goto("open", a, NoStream)
           /\ audios' = audios /\ streams' = streams
  <2>1. PluginIs("open", a, NoStream)
    BY <1>6, GotoIs DEF PluginSteps
  <2>2. Creating(a)
    BY <1>1, <1>6 DEF PluginWaitsFor, CreateSteps, At
  <2>3. OtherTypesOK'
    BY <1>1, <1>2, <1>3, <1>6, <2>1, CallTypes DEF OtherTypesOK, PluginIs
  <2> QED
    BY <1>2, <1>6, <2>1, <2>2, <2>3, CountsCreating DEF CreateSteps
<1>7. CASE (At("delete") \/ At("cork") \/ At("join")) /\ DestroyReturns(a, s)
  <2>1. s \in Streams /\ audios[a].state = "destroying"
    BY <1>1, <1>7 DEF PluginWaitsFor, DestroySteps, At
  <2>2. PluginIs("idle", NoAudio, NoStream) /\ OnlyAudio(a) /\ OnlyStream(s)
    BY <1>1, <1>7, <2>1, DestroyReturnsIs
  <2>3. OtherTypesOK'
    BY <1>1, <1>2, <1>3, <2>2, CallTypes DEF OtherTypesOK, PluginIs, OnlyAudio, OnlyStream
  <2> QED
    BY <1>2, <1>7, <2>1, <2>3, CountsDestroyed
<1>8. CASE alsa_create_stream
  BY <1>4, <1>5, <1>8 DEF alsa_create_stream
<1>9. CASE stream_list_update_barrier
  BY <1>4, <1>6, <1>7, <1>9 DEF stream_list_update_barrier
<1>10. CASE pulse_stream_state_cb
  BY <1>4, <1>10 DEF pulse_stream_state_cb
<1>11. CASE noaudio_create_playback_stream
  BY <1>4, <1>11 DEF noaudio_create_playback_stream
<1>12. CASE pulse_stream_success_cb \/ JackJoin
  BY <1>7, <1>12 DEF pulse_stream_success_cb, JackJoin
<1> QED
  BY <1>8, <1>9, <1>10, <1>11, <1>12 DEF PluginWaits

LEMMA CountsDestroy ==
  ASSUME AudioCounts, NEW a \in Audios, ppb_audio_destroy(a)
  PROVE  AudioCounts'
<1>1. OtherTypesOK /\ AudioTypeOK /\ PluginWaitsFor
  BY CountsAre DEF AudioCounts
<1>2. /\ plugin.at = "idle" /\ audios[a].state = "alive" /\ Uncount(a)
      /\ UNCHANGED <<backend, statusCalls, told>>
  BY DEF ppb_audio_destroy, At
<1>3. CASE audios[a].stream = NoStream
  <2>1. /\ audios' = [audios EXCEPT ![a].state = "gone"]
        /\ UNCHANGED <<streams, running, plugin, alsaVars>>
    BY <1>3 DEF ppb_audio_destroy
  <2>2. OnlyAudio(a)
    BY <1>1, <2>1, GoneIs
  <2>3. OtherTypesOK'
    BY <1>1, <1>2, <2>1, <2>2 DEF OtherTypesOK, OnlyAudio, alsaVars
  <2> QED
    BY <1>2, <2>1, <2>3, CountsGone
<1>4. CASE audios[a].stream # NoStream
  <2> PICK s \in Streams : s = audios[a].stream
    BY <1>1, <1>4 DEF OtherTypesOK, AudioType
  <2>1. DestroyStream(a, s)
    BY <1>4 DEF ppb_audio_destroy
  <2>2. CASE alsa_destroy_stream(a, s) \/ PulseDestroy(a, s) \/ JackDestroy(a, s)
    <3>1. PICK step \in DestroySteps : DestroyWaits(step, a, s)
      BY <2>2 DEF alsa_destroy_stream, PulseDestroy, JackDestroy, DestroySteps
    <3>2. PluginIs(step, a, s) /\ OnlyAudio(a)
      BY <1>1, <3>1, DestroyWaitsIs, ZenonT(60) DEF DestroySteps, PluginSteps
    <3>3. /\ UNCHANGED <<streams, running, thread, fds>>
          /\ streams_to_delete' \subseteq Streams /\ rebuild_fds' \in BOOLEAN
      BY <1>1, <2>2 DEF alsa_destroy_stream, PulseDestroy, JackDestroy, wakeup_audio_thread, alsaVars,
         OtherTypesOK
    <3>4. OtherTypesOK'
      BY <1>1, <1>2, <3>2, <3>3 DEF OtherTypesOK, OnlyAudio, PluginIs
    <3> QED
      BY <1>2, <3>1, <3>4, CountsDestroying
  <2>3. CASE NoaudioDestroy(a, s)
    <3>1. OnlyAudio(a) /\ OnlyStream(s) /\ PluginIs("idle", NoAudio, NoStream)
      BY <1>1, <2>3, GoneIs, MarkedIs, IdleIs DEF NoaudioDestroy
    <3>2. UNCHANGED <<running, alsaVars>>
      BY <2>3 DEF NoaudioDestroy
    <3>3. OtherTypesOK'
      BY <1>1, <1>2, <3>1, <3>2 DEF OtherTypesOK, OnlyAudio, OnlyStream, PluginIs, alsaVars
    <3> QED
      BY <1>2, <2>3, <3>3, CountsGone DEF NoaudioDestroy
  <2> QED
    BY <2>1, <2>2, <2>3 DEF DestroyStream
<1> QED
  BY <1>3, <1>4

(* The selected backend is one of the present ones. *)
LEMMA SelectsABackend ==
  ASSUME NEW available \in SUBSET Backends
  PROVE  audio_select_implementation(available) \in Backends
<1> DEFINE order == <<"jack", "pulse", "alsa", "noaudio">>
           S == {i \in 1 .. 4 : order[i] \in available \cup {"noaudio"}}
<1>1. S \subseteq 1 .. 4 /\ 4 \in S
  OBVIOUS
<1>2. \E i \in S : \A j \in S : i <= j
  <2> HIDE DEF S
  <2>1. CASE 1 \in S
    BY <1>1, <2>1
  <2>2. CASE 1 \notin S /\ 2 \in S
    BY <1>1, <2>2
  <2>3. CASE 1 \notin S /\ 2 \notin S /\ 3 \in S
    BY <1>1, <2>3
  <2>4. CASE 1 \notin S /\ 2 \notin S /\ 3 \notin S
    BY <1>1, <2>4
  <2> QED
    BY <2>1, <2>2, <2>3, <2>4
<1>3. Min(S) \in S
  <2> HIDE DEF S
  <2> QED
    BY <1>2 DEF Min
<1>4. \A i \in S : order[i] \in Backends
  BY AudioBoundsAssumption
<1>5. audio_select_implementation(available) = order[Min(S)]
  BY DEF audio_select_implementation
<1> HIDE DEF S, order
<1> QED
  BY <1>3, <1>4, <1>5

LEMMA CountsInit ==
  ASSUME AudioInit
  PROVE  AudioCounts
<1>1. backend \in Backends
  BY SelectsABackend DEF AudioInit
<1>2. /\ audios \in [Audios -> AudioType]
      /\ \A a \in Audios : /\ audios[a].state = "unused" /\ audios[a].stream = NoStream
                           /\ ~audios[a].is_playing
  BY DEF AudioInit, AudioType
<1>3. streams \in [Streams -> StreamType]
  BY AudioBoundsAssumption DEF AudioInit, StreamType
<1>4. plugin \in PluginType /\ plugin.at = "idle"
  BY DEF AudioInit, Idle, PluginType, PluginSteps
<1>5. thread \in [at : ThreadSteps, todo : SUBSET Streams]
  BY DEF AudioInit, ThreadSteps
<1>6. statusCalls \in 0 .. MaxStatusCalls
  BY AudioBoundsAssumption DEF AudioInit
<1>7. OtherTypesOK
  BY <1>1, <1>2, <1>3, <1>4, <1>5, <1>6 DEF OtherTypesOK, AudioInit
<1>8. CountOK
  <2>1. PlayingNow = {}
    BY <1>2 DEF PlayingNow, Plays, Audios
  <2> QED
    BY <2>1, FS_EmptySet, FS_CardinalityType, AudioIdsAssumption DEF CountOK, AudioInit
<1>9. ToldOK
  BY DEF ToldOK, AudioInit
<1>10. PluginWaitsFor /\ PlayersPlay
  BY <1>2, <1>4 DEF PluginWaitsFor, PlayersPlay, CreateSteps, DestroySteps
<1> QED
  BY <1>7, <1>8, <1>9, <1>10, CountsAre

LEMMA CountsStutter ==
  ASSUME AudioCounts, UNCHANGED audioVars
  PROVE  AudioCounts'
<1>1. UNCHANGED <<backend, audios, streams, running, plugin, thread, rebuild_fds,
                  streams_to_delete, fds, statusVars>>
  BY DEF audioVars, alsaVars
<1>2. OtherTypesOK
  BY CountsAre
<1> QED
  BY <1>1, <1>2, SteadyTypes, CountsSteady DEF OtherTypesOK

LEMMA CountsNext ==
  ASSUME AudioCounts, [AudioNext]_audioVars
  PROVE  AudioCounts'
<1>1. ASSUME NEW a \in Players, do_ppb_audio_create(a) PROVE AudioCounts'
  BY <1>1, CountsCreate DEF do_ppb_audio_create, Creating, Audios
<1>2. ASSUME NEW a \in Inputs, do_ppb_audio_input_open(a) PROVE AudioCounts'
  BY <1>2, CountsCreate DEF do_ppb_audio_input_open, Creating, Audios
<1>3. ASSUME PPB_Audio PROVE AudioCounts'
  BY <1>1, <1>3, CountsPlaying DEF PPB_Audio
<1>4. ASSUME PPB_AudioInput PROVE AudioCounts'
  BY <1>2, <1>4, CountsInput, CountsCapture DEF PPB_AudioInput
<1>5. ASSUME audio_thread \/ AlsaPoll PROVE AudioCounts'
  BY <1>5, CountsAlsaThread DEF audio_thread
<1> QED
  BY <1>3, <1>4, <1>5, CountsDestroy, CountsWaits, CountsOtherThreads, CountsTold, CountsStutter
  DEF AudioNext

LEMMA CountsInvariant ==
  AudioSpec => []AudioCounts
<1>1. AudioInit => AudioCounts
  BY CountsInit
<1>2. AudioCounts /\ [AudioNext]_audioVars => AudioCounts'
  BY CountsNext
<1> QED
  BY <1>1, <1>2, PTL DEF AudioSpec

(* In each backend, whatever the plugin opens, closes and plays:           *)
(* audio_source_count of ppb_audio.c is the number of resources that play, *)
(* and the browser, once the calls on their way to it have run, does not   *)
(* think the instance silent while one plays.                              *)
THEOREM BrowserKnowsOfPlayingCorrect ==
  AudioSpec => []BrowserKnowsOfPlaying
<1>1. AudioCounts => BrowserKnowsOfPlaying
  BY DEF AudioCounts
<1> QED
  BY <1>1, CountsInvariant, PTL

-----------------------------------------------------------------------------
(* Steps that leave every stream and resource with each other. *)

StreamsKeep ==
  \A s \in Streams :
    /\ streams'[s].mem = streams[s].mem /\ streams'[s].owner = streams[s].owner
    /\ streams'[s].alive = streams[s].alive /\ (streams[s].cb => streams'[s].cb)
AudiosKeep ==
  \A a \in Audios : audios'[a].state = audios[a].state /\ audios'[a].stream = audios[a].stream

LEMMA OwnersSteady ==
  ASSUME AudioInv, StreamsKeep, AudiosKeep, UNCHANGED <<backend, plugin>>
  PROVE  AudiosHaveStreams' /\ StreamsHaveAudios' /\ StepsOfBackend'
<1> USE DEF StreamsKeep, AudiosKeep
<1>1. /\ audios \in [Audios -> AudioType] /\ streams \in [Streams -> StreamType]
      /\ plugin \in PluginType /\ PluginWaitsFor
  BY CountsAre DEF AudioInv, OtherTypesOK
<1>2. AudiosHaveStreams /\ StreamsHaveAudios /\ StepsOfBackend
  BY DEF AudioInv, AudioOwners
<1>3. AudiosHaveStreams'
  BY <1>1, <1>2 DEF AudiosHaveStreams, AudioType
<1>4. StreamsHaveAudios'
  BY <1>1, <1>2 DEF StreamsHaveAudios, Open
<1>5. StepsOfBackend'
  BY <1>1, <1>2 DEF StepsOfBackend, PluginWaitsFor, CreateSteps
<1> QED
  BY <1>3, <1>4, <1>5

(* ... and audio_thread of ALSA alone. *)
LEMMA ThreadSteady ==
  ASSUME AudioInv, StreamsKeep, UNCHANGED <<backend, plugin, alsaVars>>
  PROVE  AlsaThread'
BY DEF AudioInv, AudioOwners, AlsaThread, StreamsKeep, Open, alsaVars

(* Streams and callbacks are the same, or a callback returns. *)
LEMMA RunningSteady ==
  ASSUME AudioInv, StreamsKeep, backend' = backend, running' \subseteq running,
         UNCHANGED alsaVars
  PROVE  RunningIsSafe'
<1>1. running \subseteq Streams
  BY CountsAre DEF AudioInv, OtherTypesOK
<1> QED
  BY <1>1 DEF AudioInv, AudioOwners, RunningIsSafe, StreamsKeep, Open, alsaVars

LEMMA OwnersAlsaThread ==
  ASSUME AudioInv, do_rebuild_fds \/ AlsaServed \/ AlsaPoll \/ \E s \in Streams : AlsaServe(s)
  PROVE  AudioOwners'
<1>1. OtherTypesOK /\ AlsaThread /\ RunningIsSafe /\ StepsOfBackend /\ StreamsHaveAudios
  BY CountsAre DEF AudioInv, AudioOwners
<1>2. UNCHANGED <<backend, audios, streams, plugin>>
  BY DEF do_rebuild_fds, AlsaServed, AlsaPoll, AlsaServe
<1>3. AudiosHaveStreams' /\ StreamsHaveAudios' /\ StepsOfBackend'
  BY <1>2, OwnersSteady DEF StreamsKeep, AudiosKeep
<1>4. \A s \in Streams : Open(s)' <=> Open(s)
  BY <1>2 DEF Open
<1>5. CASE do_rebuild_fds
  <2>1. /\ thread'.at = "barrier" /\ thread'.todo = {} /\ ~rebuild_fds' /\ backend = "alsa"
        /\ fds' = {s \in Streams : Open(s)} \ streams_to_delete
        /\ thread.at = "first" \/ (thread.at = "poll" /\ rebuild_fds)
        /\ running' = running
    BY <1>5 DEF do_rebuild_fds, active_streams
  <2>2. AlsaThread'
    BY <1>1, <1>2, <1>4, <2>1 DEF AlsaThread
  <2>3. RunningIsSafe'
    BY <1>1, <1>2, <1>4, <2>1 DEF RunningIsSafe
  <2> QED
    BY <1>3, <2>2, <2>3 DEF AudioOwners
<1>6. CASE AlsaServed \/ AlsaPoll
  <2>1. /\ thread'.at \in {"poll", "serve"} /\ thread.at \in {"poll", "serve"}
        /\ thread'.todo \subseteq fds \cup thread.todo
        /\ running' = running /\ (thread'.at = "serve" \/ running = {})
        /\ UNCHANGED <<rebuild_fds, streams_to_delete, fds>>
    <3>1. CASE AlsaServed
      BY <1>1, <3>1 DEF AlsaServed, OtherTypesOK, ThreadSteps
    <3>2. CASE AlsaPoll
      BY <1>1, <3>2 DEF AlsaPoll, OtherTypesOK, ThreadSteps
    <3> QED
      BY <1>6, <3>1, <3>2
  <2>2. AlsaThread'
    BY <1>1, <1>2, <1>4, <2>1 DEF AlsaThread
  <2>3. RunningIsSafe'
    BY <1>1, <1>2, <1>4, <2>1 DEF RunningIsSafe, OtherTypesOK
  <2> QED
    BY <1>3, <2>2, <2>3 DEF AudioOwners
<1>7. ASSUME NEW s \in Streams, AlsaServe(s) PROVE AudioOwners'
  <2>1. /\ thread'.at = "serve" /\ thread.at = "serve" /\ s \in thread.todo
        /\ thread'.todo \subseteq thread.todo
        /\ running' = {} \/ (running' = {s} /\ streams[s].cb)
        /\ UNCHANGED <<rebuild_fds, streams_to_delete, fds>>
    BY <1>1, <1>7 DEF AlsaServe, OtherTypesOK, ThreadSteps
  <2>2. AlsaThread'
    BY <1>1, <1>2, <1>4, <2>1 DEF AlsaThread
  <2>3. RunningIsSafe'
    BY <1>1, <1>2, <1>4, <2>1 DEF RunningIsSafe, AlsaThread
  <2> QED
    BY <1>3, <2>2, <2>3 DEF AudioOwners
<1> QED
  BY <1>5, <1>6, <1>7

(* A callback starts or returns; a queue grows or shrinks; the browser is told. *)
LEMMA OwnersOtherThreads ==
  ASSUME AudioInv, NEW s \in Streams,
         \/ ja_resampler_thread_func(s) \/ playback_cb(s) \/ PulseCallback(s)
         \/ ja_process_cb(s) \/ NoaudioCallback(s)
         \/ update_instance_playing_audio_status_ptac
  PROVE  AudioOwners'
<1>1. OtherTypesOK /\ AudioTypeOK /\ AlsaThread /\ RunningIsSafe
  BY CountsAre DEF AudioInv, AudioOwners, AudioCounts
<1>2. UNCHANGED <<backend, audios, plugin, alsaVars>>
  BY DEF ja_resampler_thread_func, playback_cb, PulseCallback, ja_process_cb, NoaudioCallback,
         update_instance_playing_audio_status_ptac
<1>3. StreamsKeep
  <2>1. CASE ja_resampler_thread_func(s)
    <3>1. streams[s].cmds - 1 \in 0 .. MaxCmds
      BY <1>1, <2>1, AudioBoundsAssumption DEF ja_resampler_thread_func, OtherTypesOK, StreamType
    <3> QED
      BY <1>1, <2>1, <3>1, StreamFieldIs DEF ja_resampler_thread_func, OnlyStream, StreamsKeep
  <2>2. CASE ja_process_cb(s)
    <3>1. streams[s].cmds + 1 \in 0 .. MaxCmds
      BY <1>1, <2>2, AudioBoundsAssumption DEF ja_process_cb, OtherTypesOK, StreamType
    <3> QED
      BY <1>1, <2>2, <3>1, StreamFieldIs DEF ja_process_cb, OnlyStream, StreamsKeep
  <2> QED
    BY <2>1, <2>2 DEF playback_cb, PulseCallback, NoaudioCallback, StreamsKeep,
       update_instance_playing_audio_status_ptac
<1>4. AudiosHaveStreams' /\ StreamsHaveAudios' /\ StepsOfBackend'
  BY <1>2, <1>3, OwnersSteady DEF AudiosKeep
<1>5. AlsaThread'
  BY <1>2, <1>3, ThreadSteady
<1>6. RunningIsSafe'
  <2>1. CASE running' \subseteq running
    BY <1>2, <1>3, <2>1, RunningSteady
  <2>2. CASE /\ running' \subseteq running \cup {s} /\ Open(s)
             /\ backend \in {"pulse", "jack", "noaudio"}
    BY <1>1, <1>2, <1>3, <2>2 DEF RunningIsSafe, StreamsKeep, Open, OtherTypesOK
  <2> QED
    BY <2>1, <2>2 DEF ja_resampler_thread_func, playback_cb, PulseCallback, ja_process_cb,
       NoaudioCallback, update_instance_playing_audio_status_ptac
<1> QED
  BY <1>4, <1>5, <1>6 DEF AudioOwners

(* Playback and capture start and stop. *)
LEMMA OwnersPause ==
  ASSUME AudioInv, NEW a \in Audios, NEW p \in BOOLEAN,
         SetPlaying(a, p) \/ ppb_audio_input_capture(a, p)
  PROVE  AudioOwners'
<1>1. OtherTypesOK /\ AudioTypeOK /\ PlayersPlay
  BY CountsAre DEF AudioInv, AudioCounts
<1>2. audios[a].stream \in Streams
  BY <1>1 DEF SetPlaying, PlayersPlay, ppb_audio_input_capture, OtherTypesOK, AudioType
<1>3. UNCHANGED <<backend, running, plugin, alsaVars>>
  BY DEF SetPlaying, ppb_audio_input_capture
<1>4. \E q \in BOOLEAN : Pause(a, q)
  BY DEF SetPlaying, ppb_audio_input_capture
<1>5. StreamsKeep
  BY <1>1, <1>2, <1>4, PauseIs DEF StreamsKeep, OnlyStream
<1>6. AudiosKeep
  <2>1. CASE SetPlaying(a, p)
    BY <1>1, <2>1, PlayingIs DEF SetPlaying, AudiosKeep, OnlyAudio
  <2>2. CASE ppb_audio_input_capture(a, p)
    BY <2>2 DEF ppb_audio_input_capture, AudiosKeep
  <2> QED
    BY <2>1, <2>2
<1> QED
  BY <1>3, <1>5, <1>6, OwnersSteady, ThreadSteady, RunningSteady DEF AudioOwners

-----------------------------------------------------------------------------
(* Steps that make or break the tie between a stream and its resource. *)

Ties == AudiosHaveStreams /\ StreamsHaveAudios /\ StepsOfBackend
BackendOf(step) ==
  CASE step \in {"start", "open", "insert", "delete"} -> "alsa"
    [] step \in {"ready", "cork"} -> "pulse"
    [] step = "join" -> "jack"
    [] step = "setcb" -> "noaudio"

LEMMA InvIs ==
  ASSUME AudioInv
  PROVE  /\ AudioTypeOK /\ OtherTypesOK /\ PluginWaitsFor /\ PlayersPlay
         /\ audios \in [Audios -> AudioType] /\ streams \in [Streams -> StreamType]
         /\ plugin \in PluginType /\ running \subseteq Streams /\ fds \subseteq Streams
         /\ AudiosHaveStreams /\ StreamsHaveAudios /\ StepsOfBackend /\ AlsaThread /\ RunningIsSafe
BY CountsAre DEF AudioInv, AudioOwners, AudioCounts, OtherTypesOK

(* A stream is made and creation waits. *)
LEMMA TiesNew ==
  ASSUME AudioInv, NEW a \in Audios, Creating(a), audios[a].stream = NoStream,
         plugin.at \in {"idle", "open"}, NEW s \in Streams, streams[s].mem = "unused",
         OnlyStream(s), streams'[s].mem = "open", streams'[s].owner = a, streams'[s].alive,
         NEW step \in {"insert", "ready", "setcb"}, PluginIs(step, a, s),
         backend = BackendOf(step), UNCHANGED <<backend, audios>>
  PROVE  Ties'
<1> USE InvIs, NoneAssumption
<1>1. plugin.stream = NoStream
  BY DEF StepsOfBackend
<1>2. AudiosHaveStreams'
  BY <1>1 DEF AudiosHaveStreams, OnlyStream, PluginIs, DestroySteps, AudioType
<1>3. StreamsHaveAudios'
  BY <1>1 DEF StreamsHaveAudios, OnlyStream, PluginIs, Open
<1>4. StepsOfBackend'
  BY DEF StepsOfBackend, PluginIs, BackendOf, CreateSteps
<1> QED
  BY <1>2, <1>3, <1>4 DEF Ties

(* A stream is made and is the one of its resource at once. *)
LEMMA TiesNewAtOnce ==
  ASSUME AudioInv, NEW a \in Audios, Creating(a), audios[a].stream = NoStream,
         plugin.at = "idle", NEW s \in Streams, streams[s].mem = "unused",
         OnlyStream(s), streams'[s].mem = "open", streams'[s].owner = a, streams'[s].alive,
         CreateReturns(a, s), UNCHANGED backend
  PROVE  Ties'
<1> USE InvIs, NoneAssumption
<1>1. plugin.stream = NoStream
  BY DEF StepsOfBackend
<1>2. /\ PluginIs("idle", NoAudio, NoStream) /\ OnlyAudio(a)
      /\ audios'[a].state = "alive" /\ audios'[a].stream = s
  BY CreateReturnsIs
<1>3. AudiosHaveStreams'
  BY <1>1, <1>2 DEF AudiosHaveStreams, OnlyStream, OnlyAudio, PluginIs, DestroySteps, AudioType
<1>4. StreamsHaveAudios'
  BY <1>1, <1>2 DEF StreamsHaveAudios, OnlyStream, OnlyAudio, PluginIs, Open
<1>5. StepsOfBackend'
  BY <1>2 DEF StepsOfBackend, PluginIs, CreateSteps
<1> QED
  BY <1>3, <1>4, <1>5 DEF Ties

(* Creation returns NULL; if a stream was made it is closed. *)
LEMMA TiesNoStream ==
  ASSUME AudioInv, NEW a \in Audios, Creating(a), audios[a].stream = NoStream,
         \/ plugin.at \in {"idle", "open"} /\ streams' = streams
         \/ /\ plugin.at = "ready" /\ plugin.audio = a
            /\ streams' = [streams EXCEPT ![plugin.stream].mem = "closed"],
         CreateReturns(a, NoStream), UNCHANGED backend
  PROVE  Ties'
<1> USE InvIs, NoneAssumption
<1>1. /\ PluginIs("idle", NoAudio, NoStream) /\ OnlyAudio(a)
      /\ audios'[a].stream = NoStream /\ audios'[a].state \in {"alive", "gone"}
  BY CreateReturnsIs
<1>2. StepsOfBackend'
  BY <1>1 DEF StepsOfBackend, PluginIs, CreateSteps
<1>3. CASE plugin.at \in {"idle", "open"} /\ streams' = streams
  <2>1. plugin.stream = NoStream
    BY <1>3 DEF StepsOfBackend
  <2>2. AudiosHaveStreams'
    BY <1>1, <1>3, <2>1 DEF AudiosHaveStreams, OnlyAudio, PluginIs, DestroySteps, AudioType
  <2>3. StreamsHaveAudios'
    BY <1>1, <1>3, <2>1 DEF StreamsHaveAudios, OnlyAudio, PluginIs, Open
  <2> QED
    BY <1>2, <2>2, <2>3 DEF Ties
<1>4. CASE /\ plugin.at = "ready" /\ plugin.audio = a
           /\ streams' = [streams EXCEPT ![plugin.stream].mem = "closed"]
  <2> PICK s \in Streams : s = plugin.stream
    BY <1>4 DEF PluginWaitsFor
  <2>1. OnlyStream(s) /\ streams'[s].mem = "closed"
    BY <1>4, ClosedIs
  <2>2. streams[s].owner = a
    BY <1>4 DEF StepsOfBackend
  <2>3. AudiosHaveStreams'
    BY <1>1, <1>4, <2>1, <2>2
    DEF AudiosHaveStreams, OnlyAudio, OnlyStream, PluginIs, DestroySteps, AudioType
  <2>4. StreamsHaveAudios'
    BY <1>1, <1>4, <2>1, <2>2 DEF StreamsHaveAudios, OnlyAudio, OnlyStream, PluginIs, Open
  <2> QED
    BY <1>2, <2>3, <2>4 DEF Ties
<1> QED
  BY <1>3, <1>4

(* The stream creation waited for becomes the one of its resource. *)
LEMMA TiesReady ==
  ASSUME AudioInv, NEW a \in Audios, a = plugin.audio, NEW s \in Streams, s = plugin.stream,
         plugin.at \in {"insert", "ready", "setcb"}, StreamsKeep,
         CreateReturns(a, s), UNCHANGED backend
  PROVE  Ties'
<1> USE InvIs, NoneAssumption
<1>1. /\ PluginIs("idle", NoAudio, NoStream) /\ OnlyAudio(a)
      /\ audios'[a].stream = s /\ audios'[a].state = "alive"
  BY CreateReturnsIs
<1>2. /\ audios[a].stream = NoStream
      /\ streams[s].mem = "open" /\ streams[s].owner = a /\ streams[s].alive
  BY DEF StepsOfBackend, CreateSteps
<1>3. AudiosHaveStreams'
  BY <1>1, <1>2 DEF AudiosHaveStreams, OnlyAudio, StreamsKeep, PluginIs, DestroySteps, AudioType
<1>4. StreamsHaveAudios'
  BY <1>1, <1>2 DEF StreamsHaveAudios, OnlyAudio, StreamsKeep, PluginIs, Open
<1>5. StepsOfBackend'
  BY <1>1 DEF StepsOfBackend, PluginIs, CreateSteps
<1> QED
  BY <1>3, <1>4, <1>5 DEF Ties

(* ALSA: creation starts, or audio_thread is up. *)
LEMMA TiesStarting ==
  ASSUME AudioInv, NEW a \in Audios, audios[a].stream = NoStream, backend = "alsa",
         plugin.at \in {"idle", "start"}, NEW step \in {"start", "open"},
         PluginIs(step, a, NoStream), UNCHANGED <<backend, audios, streams>>
  PROVE  Ties'
<1> USE InvIs, NoneAssumption
<1>1. plugin.stream = NoStream
  BY DEF StepsOfBackend
<1>2. AudiosHaveStreams'
  BY DEF AudiosHaveStreams, PluginIs, DestroySteps, AudioType
<1>3. StreamsHaveAudios'
  BY <1>1 DEF StreamsHaveAudios, PluginIs, Open
<1>4. StepsOfBackend'
  BY DEF StepsOfBackend, PluginIs, CreateSteps
<1> QED
  BY <1>2, <1>3, <1>4 DEF Ties

(* Destruction waits. *)
LEMMA TiesDestroying ==
  ASSUME AudioInv, NEW a \in Audios, audios[a].state = "alive", plugin.at = "idle",
         NEW s \in Streams, s = audios[a].stream, NEW step \in DestroySteps,
         DestroyWaits(step, a, s), backend = BackendOf(step), UNCHANGED <<backend, streams>>
  PROVE  Ties'
<1> USE InvIs, NoneAssumption
<1>1. plugin.stream = NoStream
  BY DEF StepsOfBackend
<1>2. /\ PluginIs(step, a, s) /\ OnlyAudio(a) /\ audios'[a].state = "destroying"
      /\ audios'[a].stream = s
  BY DestroyWaitsIs, ZenonT(60) DEF DestroySteps, PluginSteps
<1>3. AudiosHaveStreams'
  BY <1>2 DEF AudiosHaveStreams, OnlyAudio, PluginIs, DestroySteps, AudioType
<1>4. StreamsHaveAudios'
  BY <1>1, <1>2 DEF StreamsHaveAudios, OnlyAudio, PluginIs, Open
<1>5. StepsOfBackend'
  BY <1>2 DEF StepsOfBackend, PluginIs, BackendOf, CreateSteps, DestroySteps
<1> QED
  BY <1>3, <1>4, <1>5 DEF Ties

(* Destruction is over. *)
LEMMA TiesDestroyed ==
  ASSUME AudioInv, NEW a \in Audios, a = plugin.audio, NEW s \in Streams, s = plugin.stream,
         plugin.at \in DestroySteps, DestroyReturns(a, s), UNCHANGED backend
  PROVE  Ties'
<1> USE InvIs, NoneAssumption
<1>1. /\ PluginIs("idle", NoAudio, NoStream) /\ OnlyAudio(a) /\ audios'[a].state = "gone"
      /\ audios'[a].stream = audios[a].stream /\ OnlyStream(s) /\ streams'[s].mem = "closed"
  BY DestroyReturnsIs
<1>2. audios[a].state = "destroying" /\ audios[a].stream = s /\ streams[s].owner = a
  BY DEF PluginWaitsFor, AudiosHaveStreams
<1>3. AudiosHaveStreams'
  BY <1>1, <1>2, SMTT(30) DEF AudiosHaveStreams, OnlyAudio, OnlyStream, PluginIs, AudioType
<1>4. StreamsHaveAudios'
  BY <1>1, <1>2 DEF StreamsHaveAudios, OnlyAudio, OnlyStream, PluginIs, Open
<1>5. StepsOfBackend'
  BY <1>1 DEF StepsOfBackend, PluginIs, CreateSteps
<1> QED
  BY <1>3, <1>4, <1>5 DEF Ties

(* A resource without a stream is destroyed, or noaudio marks its stream.  *)
LEMMA TiesGone ==
  ASSUME AudioInv, NEW a \in Audios, audios[a].state = "alive", plugin.at = "idle",
         audios' = [audios EXCEPT ![a].state = "gone"], plugin' = plugin \/ plugin' = Idle,
         \/ audios[a].stream = NoStream /\ streams' = streams
         \/ /\ audios[a].stream # NoStream /\ backend = "noaudio"
            /\ streams' = [streams EXCEPT ![audios[a].stream].alive = FALSE],
         UNCHANGED backend
  PROVE  Ties'
<1> USE InvIs, NoneAssumption
<1>1. /\ OnlyAudio(a) /\ audios'[a].state = "gone" /\ audios'[a].stream = audios[a].stream
  BY GoneIs
<1>2. PluginIs("idle", NoAudio, NoStream) /\ plugin.stream = NoStream
  BY IdleIs DEF StepsOfBackend, PluginIs
<1>3. StepsOfBackend'
  BY <1>2 DEF StepsOfBackend, PluginIs, CreateSteps
<1>4. CASE audios[a].stream = NoStream /\ streams' = streams
  <2>1. AudiosHaveStreams'
    BY <1>1, <1>2, <1>4 DEF AudiosHaveStreams, OnlyAudio, PluginIs, AudioType, DestroySteps
  <2>2. StreamsHaveAudios'
    BY <1>1, <1>2, <1>4 DEF StreamsHaveAudios, OnlyAudio, PluginIs, Open
  <2> QED
    BY <1>3, <2>1, <2>2 DEF Ties
<1>5. CASE /\ audios[a].stream # NoStream /\ backend = "noaudio"
           /\ streams' = [streams EXCEPT ![audios[a].stream].alive = FALSE]
  <2> PICK s \in Streams : s = audios[a].stream
    BY <1>5 DEF AudioType
  <2>1. /\ OnlyStream(s) /\ streams'[s].mem = streams[s].mem
        /\ streams'[s].owner = streams[s].owner /\ ~streams'[s].alive
    BY <1>5, MarkedIs
  <2>2. streams[s].owner = a
    BY <1>5 DEF AudiosHaveStreams
  <2>3. AudiosHaveStreams'
    BY <1>1, <1>2, <2>1, <2>2
    DEF AudiosHaveStreams, OnlyAudio, OnlyStream, PluginIs, AudioType, DestroySteps
  <2>4. StreamsHaveAudios'
    <3> SUFFICES ASSUME NEW t \in Streams, Open(t)'
                 PROVE  /\ streams'[t].owner \in Audios
                        /\ \/ /\ audios'[streams'[t].owner].stream = t
                              /\ audios'[streams'[t].owner].state \in {"alive", "destroying"}
                           \/ backend' = "noaudio" /\ ~streams'[t].alive
      BY DEF StreamsHaveAudios
    <3>1. Open(t)
      BY <2>1 DEF OnlyStream, Open
    <3>2. CASE t = s
      BY <1>5, <2>1, <2>2, <3>2
    <3>3. CASE t # s
      <4>1. streams'[t] = streams[t]
        BY <2>1, <3>3 DEF OnlyStream
      <4>2. /\ streams[t].owner \in Audios
            /\ \/ /\ audios[streams[t].owner].stream = t
                  /\ audios[streams[t].owner].state \in {"alive", "destroying"}
               \/ backend = "noaudio" /\ ~streams[t].alive
        BY <1>2, <3>1 DEF StreamsHaveAudios
      <4>3. CASE streams[t].owner = a
        BY <3>3, <4>1, <4>2, <4>3
      <4>4. CASE streams[t].owner # a
        BY <1>1, <4>1, <4>2, <4>4 DEF OnlyAudio
      <4> QED
        BY <4>3, <4>4
    <3> QED
      BY <3>2, <3>3
  <2> QED
    BY <1>3, <2>3, <2>4 DEF Ties
<1> QED
  BY <1>4, <1>5

(* noaudio's worker frees what is marked; it has neither polled streams    *)
(* nor checks.                                                             *)
LEMMA OwnersFree ==
  ASSUME AudioInv, NEW s \in Streams, NoaudioFree(s)
  PROVE  AudioOwners'
<1> USE InvIs, NoneAssumption
<1>1. /\ OnlyStream(s) /\ streams'[s].mem = "closed" /\ ~streams[s].alive
      /\ backend = "noaudio" /\ UNCHANGED <<backend, audios, running, plugin, alsaVars>>
  BY ClosedIs DEF NoaudioFree
<1>2. AudiosHaveStreams'
  BY <1>1 DEF AudiosHaveStreams, OnlyStream, AudioType
<1>3. StreamsHaveAudios'
  BY <1>1 DEF StreamsHaveAudios, OnlyStream, Open
<1>4. StepsOfBackend'
  BY <1>1 DEF StepsOfBackend, OnlyStream, CreateSteps, PluginWaitsFor
<1>5. AlsaThread'
  BY <1>1 DEF AlsaThread, alsaVars
<1>6. RunningIsSafe'
  BY <1>1 DEF RunningIsSafe
<1> QED
  BY <1>2, <1>3, <1>4, <1>5, <1>6 DEF AudioOwners

LEMMA OwnersInput ==
  ASSUME AudioInv, NEW a \in Inputs, ppb_audio_input_create(a)
  PROVE  AudioOwners'
<1> USE InvIs, NoneAssumption
<1>1. a \in Audios
  BY DEF Audios
<1>2. audios' = [audios EXCEPT ![a].state = "alive"]
  BY DEF ppb_audio_input_create
<1>3. /\ OnlyAudio(a) /\ audios'[a].state = "alive" /\ audios'[a].stream = audios[a].stream
      /\ audios[a].state = "unused" /\ plugin.at = "idle"
      /\ UNCHANGED <<backend, streams, running, plugin, alsaVars>>
  BY <1>1, <1>2 DEF ppb_audio_input_create, OnlyAudio, AudioType, At
<1>4. AudiosHaveStreams'
  BY <1>1, <1>3 DEF AudiosHaveStreams, OnlyAudio, AudioType, DestroySteps
<1>5. StreamsHaveAudios'
  BY <1>1, <1>3 DEF StreamsHaveAudios, OnlyAudio, Open
<1>6. StepsOfBackend'
  BY <1>3 DEF StepsOfBackend, CreateSteps
<1>7. AlsaThread' /\ RunningIsSafe'
  BY <1>3, ThreadSteady, RunningSteady DEF StreamsKeep
<1> QED
  BY <1>4, <1>5, <1>6, <1>7 DEF AudioOwners

(* PulseAudio, JACK and noaudio have no audio_thread. *)
LEMMA ThreadOther ==
  ASSUME AudioInv, backend # "alsa", UNCHANGED <<backend, alsaVars>>, Ties'
  PROVE  AlsaThread'
BY InvIs DEF AlsaThread, alsaVars, Ties, StepsOfBackend

(* Their callbacks are safe if no stream is closed while it plays.         *)
LEMMA RunningOther ==
  ASSUME AudioInv, backend # "alsa", UNCHANGED <<backend, running>>,
         backend # "noaudio" => /\ \A s \in running : Open(s)'
                                /\ \A s \in Streams : Open(s)' => streams'[s].cb
  PROVE  RunningIsSafe'
BY InvIs DEF RunningIsSafe

LEMMA OwnersCreate ==
  ASSUME AudioInv, NEW a \in Audios, Creating(a), audios[a].stream = NoStream, At("idle"),
         CreateStream(a), UNCHANGED backend
  PROVE  AudioOwners'
<1> USE InvIs
<1>1. plugin.at = "idle"
  BY DEF At
<1>2. CASE backend = "alsa" /\ AlsaStart(a)
  <2>1. PICK step \in {"start", "open"} :
          /\ Goto(step, a, NoStream)
          /\ step = "start" => thread.at = "none" /\ thread'.at = "first" /\ thread'.todo = thread.todo
          /\ step = "open" => thread.at # "none" /\ thread' = thread
    <3>1. CASE thread.at = "none"
      BY <1>2, <3>1 DEF AlsaStart, OtherTypesOK, ThreadSteps
    <3>2. CASE thread.at # "none"
      BY <1>2, <3>2 DEF AlsaStart
    <3> QED
      BY <3>1, <3>2
  <2>2. PluginIs(step, a, NoStream)
    BY <2>1, GotoIs DEF PluginSteps
  <2>3. UNCHANGED <<audios, streams, running, rebuild_fds, streams_to_delete, fds>>
    BY <1>2 DEF AlsaStart
  <2>4. Ties'
    BY <1>1, <1>2, <2>2, <2>3, TiesStarting
  <2>5. AlsaThread'
    BY <1>1, <1>2, <2>1, <2>2, <2>3 DEF AlsaThread, PluginIs, Open
  <2>6. RunningIsSafe'
    BY <1>1, <1>2, <2>1, <2>3 DEF RunningIsSafe, Open
  <2> QED
    BY <2>4, <2>5, <2>6 DEF AudioOwners, Ties
<1>3. CASE backend = "pulse" /\ PulseCreate(a)
  <2>1. PICK s \in Streams :
          /\ streams[s].mem = "unused" /\ streams' = [streams EXCEPT ![s] = NewStream(a, TRUE)]
          /\ Goto("ready", a, s)
    BY <1>3 DEF PulseCreate, UnusedStreams
  <2>2. /\ OnlyStream(s) /\ streams'[s].mem = "open" /\ streams'[s].owner = a
        /\ streams'[s].cb = TRUE /\ streams'[s].alive
    BY <2>1, NewStreamIs
  <2>3. PluginIs("ready", a, s)
    BY <2>1, GotoIs DEF PluginSteps
  <2>4. running = {} /\ UNCHANGED <<audios, running, alsaVars>>
    BY <1>3 DEF PulseCreate
  <2>5. Ties'
    BY <1>1, <1>3, <2>1, <2>2, <2>3, <2>4, TiesNew DEF BackendOf
  <2>6. RunningIsSafe'
    BY <1>3, <2>2, <2>4, RunningOther DEF OnlyStream, Open, RunningIsSafe
  <2> QED
    BY <1>3, <2>4, <2>5, <2>6, ThreadOther DEF AudioOwners, Ties
<1>4. CASE backend = "jack" /\ JackCreate(a)
  <2>1. UNCHANGED <<running, alsaVars>>
    BY <1>4 DEF JackCreate
  <2>2. CASE CreateReturns(a, NoStream) /\ streams' = streams
    <3>1. Ties'
      BY <1>1, <2>2, TiesNoStream
    <3>2. RunningIsSafe'
      BY <1>4, <2>1, <2>2, RunningOther DEF Open, RunningIsSafe
    <3> QED
      BY <1>4, <2>1, <3>1, <3>2, ThreadOther DEF AudioOwners, Ties
  <2>3. CASE \E s \in UnusedStreams :
               streams' = [streams EXCEPT ![s] = NewStream(a, TRUE)] /\ CreateReturns(a, s)
    <3>1. PICK s \in Streams :
            /\ streams[s].mem = "unused" /\ streams' = [streams EXCEPT ![s] = NewStream(a, TRUE)]
            /\ CreateReturns(a, s)
      BY <2>3 DEF UnusedStreams
    <3>2. /\ OnlyStream(s) /\ streams'[s].mem = "open" /\ streams'[s].owner = a
          /\ streams'[s].cb = TRUE /\ streams'[s].alive
      BY <3>1, NewStreamIs
    <3>3. Ties'
      BY <1>1, <3>1, <3>2, TiesNewAtOnce
    <3>4. RunningIsSafe'
      BY <1>4, <2>1, <3>1, <3>2, RunningOther DEF OnlyStream, Open, RunningIsSafe
    <3> QED
      BY <1>4, <2>1, <3>3, <3>4, ThreadOther DEF AudioOwners, Ties
  <2> QED
    BY <1>4, <2>2, <2>3 DEF JackCreate
<1>5. CASE backend = "noaudio" /\ NoaudioCreate(a)
  <2>1. UNCHANGED <<running, alsaVars>>
    BY <1>5 DEF NoaudioCreate
  <2>2. RunningIsSafe'
    BY <1>5, <2>1, RunningOther
  <2>3. Ties'
    <3>1. CASE a \in Inputs
      BY <1>1, <1>5, <3>1, TiesNoStream DEF NoaudioCreate
    <3>2. CASE a \notin Inputs
      <4>1. PICK s \in Streams :
              /\ streams[s].mem = "unused" /\ streams' = [streams EXCEPT ![s] = NewStream(a, FALSE)]
              /\ Goto("setcb", a, s) /\ audios' = audios
        BY <1>5, <3>2 DEF NoaudioCreate, UnusedStreams
      <4>2. OnlyStream(s) /\ streams'[s].mem = "open" /\ streams'[s].owner = a /\ streams'[s].alive
        BY <4>1, NewStreamIs
      <4>3. PluginIs("setcb", a, s)
        BY <4>1, GotoIs DEF PluginSteps
      <4> QED
        BY <1>1, <1>5, <4>1, <4>2, <4>3, TiesNew DEF BackendOf
    <3> QED
      BY <3>1, <3>2
  <2> QED
    BY <1>5, <2>1, <2>2, <2>3, ThreadOther DEF AudioOwners, Ties
<1> QED
  BY <1>2, <1>3, <1>4, <1>5 DEF CreateStream

LEMMA OwnersDestroy ==
  ASSUME AudioInv, NEW a \in Audios, ppb_audio_destroy(a)
  PROVE  AudioOwners'
<1> USE InvIs
<1>1. plugin.at = "idle" /\ audios[a].state = "alive" /\ backend' = backend
  BY DEF ppb_audio_destroy, At
<1>2. CASE audios[a].stream = NoStream
  <2>1. audios' = [audios EXCEPT ![a].state = "gone"]
    BY <1>2 DEF ppb_audio_destroy
  <2>2. UNCHANGED <<streams, running, plugin, alsaVars>>
    BY <1>2 DEF ppb_audio_destroy
  <2>3. Ties'
    BY <1>1, <1>2, <2>1, <2>2, TiesGone
  <2> QED
    BY <1>1, <2>2, <2>3, ThreadSteady, RunningSteady DEF AudioOwners, Ties, StreamsKeep
<1>3. CASE audios[a].stream # NoStream
  <2> PICK s \in Streams : s = audios[a].stream
    BY <1>3 DEF AudioType
  <2>1. DestroyStream(a, s)
    BY <1>3 DEF ppb_audio_destroy
  <2>2. CASE backend = "alsa" /\ alsa_destroy_stream(a, s)
    <3>1. /\ DestroyWaits("delete", a, s) /\ UNCHANGED <<streams, running, thread, fds>>
          /\ streams_to_delete' = streams_to_delete \cup {s} /\ rebuild_fds' = TRUE
      BY <2>2 DEF alsa_destroy_stream, wakeup_audio_thread
    <3>2. Ties'
      BY <1>1, <2>2, <3>1, TiesDestroying DEF DestroySteps, BackendOf
    <3>3. PluginIs("delete", a, s)
      BY <3>1, DestroyWaitsIs DEF PluginSteps
    <3>4. AlsaThread'
      BY <1>1, <2>2, <3>1, <3>3 DEF AlsaThread, PluginIs, Open
    <3>5. RunningIsSafe'
      BY <1>1, <3>1 DEF RunningIsSafe, Open
    <3> QED
      BY <3>2, <3>4, <3>5 DEF AudioOwners, Ties
  <2>3. CASE \/ backend = "pulse" /\ PulseDestroy(a, s)
             \/ backend = "jack" /\ JackDestroy(a, s)
    <3>1. PICK step \in DestroySteps : DestroyWaits(step, a, s) /\ backend = BackendOf(step)
      BY <2>3 DEF PulseDestroy, JackDestroy, DestroySteps, BackendOf
    <3>2. UNCHANGED <<streams, running, alsaVars>>
      BY <2>3 DEF PulseDestroy, JackDestroy
    <3>3. Ties'
      BY <1>1, <3>1, <3>2, TiesDestroying
    <3>4. AlsaThread'
      BY <1>1, <2>3, <3>2, <3>3, ThreadOther
    <3>5. RunningIsSafe'
      BY <1>1, <3>2, RunningSteady DEF StreamsKeep
    <3> QED
      BY <3>3, <3>4, <3>5 DEF AudioOwners, Ties
  <2>4. CASE backend = "noaudio" /\ NoaudioDestroy(a, s)
    <3>1. UNCHANGED <<running, alsaVars>>
      BY <2>4 DEF NoaudioDestroy
    <3>2. Ties'
      BY <1>1, <1>3, <2>4, TiesGone DEF NoaudioDestroy
    <3>3. RunningIsSafe'
      BY <1>1, <2>4, <3>1, RunningOther
    <3> QED
      BY <1>1, <2>4, <3>1, <3>2, <3>3, ThreadOther DEF AudioOwners, Ties
  <2> QED
    BY <2>1, <2>2, <2>3, <2>4 DEF DestroyStream
<1> QED
  BY <1>2, <1>3

LEMMA OwnersAlsaCreate ==
  ASSUME AudioInv, alsa_create_stream
  PROVE  AudioOwners'
<1> USE InvIs
<1>1. /\ backend = "alsa" /\ plugin.at = "open"
      /\ UNCHANGED <<backend, running, thread, streams_to_delete, fds>>
  BY DEF alsa_create_stream, At
<1> PICK a \in Audios : a = plugin.audio
  BY <1>1 DEF PluginWaitsFor
<1>2. Creating(a) /\ audios[a].stream = NoStream
  BY <1>1 DEF PluginWaitsFor, StepsOfBackend, CreateSteps
<1>3. ~rebuild_fds /\ thread.at \notin {"first", "barrier"}
  BY <1>1 DEF AlsaThread
<1>4. CASE CreateReturns(a, NoStream) /\ UNCHANGED <<streams, rebuild_fds>>
  <2>1. Ties'
    BY <1>1, <1>2, <1>4, TiesNoStream
  <2>2. PluginIs("idle", NoAudio, NoStream)
    BY <1>4, IdleIs DEF CreateReturns
  <2>3. AlsaThread'
    BY <1>1, <1>3, <1>4, <2>2 DEF AlsaThread, PluginIs, Open
  <2>4. RunningIsSafe'
    BY <1>1, <1>4 DEF RunningIsSafe, Open
  <2> QED
    BY <2>1, <2>3, <2>4 DEF AudioOwners, Ties
<1>5. CASE \E s \in UnusedStreams :
             /\ streams' = [streams EXCEPT ![s] = NewStream(a, FALSE)]
             /\ Goto("insert", a, s) /\ wakeup_audio_thread /\ UNCHANGED audios
  <2>1. PICK s \in Streams :
          /\ streams[s].mem = "unused" /\ streams' = [streams EXCEPT ![s] = NewStream(a, FALSE)]
          /\ Goto("insert", a, s) /\ wakeup_audio_thread /\ UNCHANGED audios
    BY <1>5 DEF UnusedStreams
  <2>2. OnlyStream(s) /\ streams'[s].mem = "open" /\ streams'[s].owner = a /\ streams'[s].alive
    BY <2>1, NewStreamIs
  <2>3. PluginIs("insert", a, s)
    BY <2>1, GotoIs DEF PluginSteps
  <2>4. Ties'
    BY <1>1, <1>2, <2>1, <2>2, <2>3, TiesNew DEF BackendOf
  <2>5. AlsaThread'
    BY <1>1, <1>3, <2>1, <2>2, <2>3 DEF AlsaThread, PluginIs, OnlyStream, Open, wakeup_audio_thread
  <2>6. RunningIsSafe'
    BY <1>1, <2>1, <2>2 DEF RunningIsSafe, OnlyStream, Open
  <2> QED
    BY <2>4, <2>5, <2>6 DEF AudioOwners, Ties
<1> QED
  BY <1>4, <1>5 DEF alsa_create_stream

LEMMA OwnersBarrier ==
  ASSUME AudioInv, stream_list_update_barrier
  PROVE  AudioOwners'
<1> USE InvIs
<1>1. /\ thread.at = "barrier" /\ thread'.at = "poll" /\ thread'.todo = thread.todo
      /\ UNCHANGED <<backend, running, rebuild_fds, streams_to_delete, fds>>
  BY DEF stream_list_update_barrier, OtherTypesOK, ThreadSteps
<1>2. /\ backend = "alsa" /\ ~rebuild_fds /\ plugin.at \in {"start", "insert", "delete"}
      /\ running = {}
  BY <1>1 DEF AlsaThread, RunningIsSafe
<1> PICK a \in Audios : a = plugin.audio
  BY <1>2 DEF PluginWaitsFor
<1>3. RunningIsSafe'
  BY <1>1, <1>2 DEF RunningIsSafe
<1>4. CASE At("start") /\ Goto("open", a, NoStream) /\ UNCHANGED <<audios, streams>>
  <2>1. PluginIs("open", a, NoStream)
    BY <1>4, GotoIs DEF PluginSteps
  <2>2. Ties'
    BY <1>1, <1>2, <1>4, <2>1, TiesStarting DEF At, StepsOfBackend, CreateSteps
  <2>3. AlsaThread'
    BY <1>1, <1>2, <1>4, <2>1 DEF AlsaThread, PluginIs, Open
  <2> QED
    BY <1>3, <2>2, <2>3 DEF AudioOwners, Ties
<1>5. CASE /\ At("insert") /\ CreateReturns(a, plugin.stream)
           /\ streams' = [streams EXCEPT ![plugin.stream].cb = TRUE]
  <2> PICK s \in Streams : s = plugin.stream
    BY <1>5 DEF PluginWaitsFor, At
  <2>1. StreamsKeep
    BY <1>5, StreamFieldIs DEF StreamsKeep, OnlyStream
  <2>2. Ties'
    BY <1>1, <1>5, <2>1, TiesReady DEF At
  <2>3. PluginIs("idle", NoAudio, NoStream)
    BY <1>5, IdleIs DEF CreateReturns
  <2>4. AlsaThread'
    BY <1>1, <1>2, <2>1, <2>3 DEF AlsaThread, PluginIs, Open, StreamsKeep
  <2> QED
    BY <1>3, <2>2, <2>4 DEF AudioOwners, Ties
<1>6. CASE At("delete") /\ DestroyReturns(a, plugin.stream)
  <2> PICK s \in Streams : s = plugin.stream
    BY <1>6 DEF PluginWaitsFor, At, DestroySteps
  <2>1. Ties'
    BY <1>1, <1>6, TiesDestroyed DEF At, DestroySteps
  <2>2. OnlyStream(s) /\ PluginIs("idle", NoAudio, NoStream)
    BY <1>6, DestroyReturnsIs
  <2>3. s \notin fds
    BY <1>1, <1>6 DEF AlsaThread, At
  <2>4. AlsaThread'
    BY <1>1, <1>2, <2>2, <2>3 DEF AlsaThread, PluginIs, Open, OnlyStream
  <2> QED
    BY <1>3, <2>1, <2>4 DEF AudioOwners, Ties
<1> QED
  BY <1>4, <1>5, <1>6 DEF stream_list_update_barrier

LEMMA OwnersPulseReady ==
  ASSUME AudioInv, pulse_stream_state_cb
  PROVE  AudioOwners'
<1> USE InvIs
<1>1. plugin.at = "ready" /\ running = {} /\ UNCHANGED <<backend, running, alsaVars>>
  BY DEF pulse_stream_state_cb, At
<1>2. backend = "pulse"
  BY <1>1 DEF StepsOfBackend
<1> PICK a \in Audios : a = plugin.audio
  BY <1>1 DEF PluginWaitsFor
<1> PICK s \in Streams : s = plugin.stream
  BY <1>1 DEF PluginWaitsFor
<1>3. CASE CreateReturns(a, s) /\ UNCHANGED streams
  <2>1. Ties'
    BY <1>1, <1>3, TiesReady DEF StreamsKeep
  <2>2. RunningIsSafe'
    BY <1>1, <1>3, RunningSteady DEF StreamsKeep
  <2> QED
    BY <1>1, <1>2, <2>1, <2>2, ThreadOther DEF AudioOwners, Ties
<1>4. CASE CreateReturns(a, NoStream) /\ streams' = [streams EXCEPT ![s].mem = "closed"]
  <2>1. Creating(a) /\ audios[a].stream = NoStream
    BY <1>1 DEF PluginWaitsFor, StepsOfBackend, CreateSteps
  <2>2. Ties'
    BY <1>1, <1>4, <2>1, TiesNoStream
  <2>3. OnlyStream(s) /\ streams'[s].mem = "closed"
    BY <1>4, ClosedIs
  <2>4. RunningIsSafe'
    BY <1>1, <1>2, <2>3, RunningOther DEF OnlyStream, Open, RunningIsSafe
  <2> QED
    BY <1>1, <1>2, <2>2, <2>4, ThreadOther DEF AudioOwners, Ties
<1> QED
  BY <1>3, <1>4 DEF pulse_stream_state_cb

(* PulseAudio holds the lock, JACK has joined the thread. *)
LEMMA OwnersDestroyed ==
  ASSUME AudioInv, pulse_stream_success_cb \/ JackJoin
  PROVE  AudioOwners'
<1> USE InvIs
<1>1. /\ plugin.at \in {"cork", "join"} /\ plugin.stream \notin running
      /\ DestroyReturns(plugin.audio, plugin.stream) /\ UNCHANGED <<backend, running, alsaVars>>
  BY DEF pulse_stream_success_cb, JackJoin, At
<1>2. backend \in {"pulse", "jack"}
  BY <1>1 DEF StepsOfBackend
<1> PICK a \in Audios : a = plugin.audio
  BY <1>1 DEF PluginWaitsFor
<1> PICK s \in Streams : s = plugin.stream
  BY <1>1 DEF PluginWaitsFor, DestroySteps
<1>3. Ties'
  BY <1>1, TiesDestroyed DEF DestroySteps
<1>4. OnlyStream(s) /\ streams'[s].mem = "closed"
  BY <1>1, DestroyReturnsIs
<1>5. RunningIsSafe'
  BY <1>1, <1>2, <1>4, RunningOther DEF OnlyStream, Open, RunningIsSafe
<1> QED
  BY <1>1, <1>2, <1>3, <1>5, ThreadOther DEF AudioOwners, Ties

LEMMA OwnersNoaudio ==
  ASSUME AudioInv, noaudio_create_playback_stream
  PROVE  AudioOwners'
<1> USE InvIs
<1>1. plugin.at = "setcb" /\ UNCHANGED <<backend, running, alsaVars>>
  BY DEF noaudio_create_playback_stream, At
<1>2. backend = "noaudio"
  BY <1>1 DEF StepsOfBackend
<1> PICK a \in Audios : a = plugin.audio
  BY <1>1 DEF PluginWaitsFor
<1> PICK s \in Streams : s = plugin.stream
  BY <1>1 DEF PluginWaitsFor
<1>3. StreamsKeep
  BY StreamFieldIs DEF noaudio_create_playback_stream, StreamsKeep, OnlyStream
<1>4. Ties'
  BY <1>1, <1>3, TiesReady DEF noaudio_create_playback_stream
<1>5. RunningIsSafe'
  BY <1>1, <1>2, RunningOther
<1> QED
  BY <1>1, <1>2, <1>4, <1>5, ThreadOther DEF AudioOwners, Ties

LEMMA OwnersInit ==
  ASSUME AudioInit
  PROVE  AudioOwners
<1>1. \A a \in Audios : audios[a].state = "unused" /\ audios[a].stream = NoStream
  BY DEF AudioInit
<1>2. \A s \in Streams : ~Open(s)
  BY DEF AudioInit, Open
<1>3. plugin.at = "idle" /\ plugin.audio = NoAudio /\ plugin.stream = NoStream
  BY DEF AudioInit, Idle
<1>4. thread.at = "none" /\ thread.todo = {}
  BY DEF AudioInit
<1> QED
  BY <1>1, <1>2, <1>3, <1>4
  DEF AudioInit, AudioOwners, AudiosHaveStreams, StreamsHaveAudios, StepsOfBackend, AlsaThread,
      RunningIsSafe, CreateSteps, DestroySteps

LEMMA OwnersNext ==
  ASSUME Reopens = FALSE, AudioInv, [AudioNext]_audioVars
  PROVE  AudioOwners'
<1> USE InvIs
<1>1. ASSUME NEW a \in Players, do_ppb_audio_create(a) PROVE AudioOwners'
  <2>1. a \in Audios /\ audios[a].stream = NoStream
    BY <1>1 DEF do_ppb_audio_create, AudiosHaveStreams, Audios
  <2> QED
    BY <1>1, <2>1, OwnersCreate DEF do_ppb_audio_create, Creating
<1>2. ASSUME NEW a \in Inputs, do_ppb_audio_input_open(a) PROVE AudioOwners'
  BY <1>2, OwnersCreate DEF do_ppb_audio_input_open, Creating, Audios
<1>3. ASSUME PPB_Audio PROVE AudioOwners'
  BY <1>1, <1>3, OwnersPause
  DEF PPB_Audio, ppb_audio_start_playback, ppb_audio_stop_playback, Audios
<1>4. ASSUME PPB_AudioInput PROVE AudioOwners'
  BY <1>2, <1>4, OwnersInput, OwnersPause DEF PPB_AudioInput, Audios
<1>5. ASSUME audio_thread \/ AlsaPoll PROVE AudioOwners'
  BY <1>5, OwnersAlsaThread DEF audio_thread
<1>6. ASSUME PluginWaits PROVE AudioOwners'
  BY <1>6, OwnersAlsaCreate, OwnersBarrier, OwnersPulseReady, OwnersDestroyed, OwnersNoaudio
  DEF PluginWaits
<1>7. ASSUME update_instance_playing_audio_status_ptac PROVE AudioOwners'
  BY <1>7, OwnersSteady, ThreadSteady, RunningSteady
  DEF update_instance_playing_audio_status_ptac, StreamsKeep, AudiosKeep, AudioOwners
<1>8. ASSUME UNCHANGED audioVars PROVE AudioOwners'
  BY <1>8, OwnersSteady, ThreadSteady, RunningSteady
  DEF audioVars, StreamsKeep, AudiosKeep, AudioOwners
<1> QED
  BY <1>3, <1>4, <1>5, <1>6, <1>7, <1>8, OwnersDestroy, OwnersOtherThreads, OwnersFree DEF AudioNext

(* While the plugin opens an input at most once: a stream of ALSA,         *)
(* PulseAudio or JACK calls back only while it is open and its resource    *)
(* exists, so what each backend's destroy waits for in                     *)
(* audio_thread_{alsa,pulseaudio,jack}.c is enough; and no open stream is  *)
(* without its resource on any path of creation or destruction.            *)
THEOREM StreamsMatchResourcesCorrect ==
  ASSUME Reopens = FALSE
  PROVE  AudioSpec => []StreamsMatchResources
<1>1. AudioInit => AudioInv
  BY CountsInit, OwnersInit DEF AudioInv
<1>2. AudioInv /\ [AudioNext]_audioVars => AudioInv'
  <2>1. AudioInv /\ [AudioNext]_audioVars => AudioCounts'
    BY CountsNext DEF AudioInv
  <2>2. AudioInv /\ [AudioNext]_audioVars => AudioOwners'
    BY OwnersNext
  <2> QED
    BY <2>1, <2>2 DEF AudioInv
<1>3. AudioInv => StreamsMatchResources
  <2> SUFFICES ASSUME AudioInv PROVE StreamsMatchResources
    OBVIOUS
  <2> USE InvIs
  <2>1. CallbacksHaveTheirAudio
    <3> SUFFICES ASSUME NEW s \in running, backend # "noaudio"
                 PROVE  /\ Open(s) /\ streams[s].cb
                        /\ streams[s].owner \in {plugin.audio} \cup {a \in Audios : audios[a].state # "gone"}
      BY DEF CallbacksHaveTheirAudio
    <3>1. Open(s) /\ streams[s].cb
      BY DEF RunningIsSafe
    <3> QED
      BY <3>1 DEF StreamsHaveAudios
  <2>2. StreamsAreOwned
    BY DEF StreamsAreOwned, StreamsHaveAudios
  <2> QED
    BY <2>1, <2>2 DEF StreamsMatchResources
<1> QED
  BY <1>1, <1>2, <1>3, PTL DEF AudioSpec

-----------------------------------------------------------------------------
(* The camera *)

(* Where a buffer is; FramesAreExclusive says that it is in one place. *)
OnTheWay(b) == \E i \in 1 .. Len(readyQueue) : readyQueue[i] = b

InOnePlace ==
  vc.buffers =>
    /\ \A b \in Buffers :
         /\ bufferIsFree[b] => grabber.buffer # b /\ b \notin held /\ ~OnTheWay(b)
         /\ grabber.buffer = b => b \notin held /\ ~OnTheWay(b)
         /\ b \in held => ~OnTheWay(b)
         /\ captureInstance => bufferIsFree[b] \/ grabber.buffer = b \/ b \in held \/ OnTheWay(b)
    /\ \A i, j \in 1 .. Len(readyQueue) : readyQueue[i] = readyQueue[j] => i = j

(* The thread exists from StartCapture to the join, has a reference of its *)
(* own and keeps the device open; StopCapture tells it to end exactly while*)
(* it waits for it.                                                        *)
ThreadHasItsReference ==
  /\ vc.thread_started => vc.refs > 0 /\ vc.fd
  /\ ~vc.thread_started => vc.refs <= 1
  /\ vc.thread_started <=> grabber.at # "none"
  /\ vc.fd <=> vc.buffers
  /\ vc.fd => vc.refs > 0
  /\ joining # "no_call" <=> vc.terminate_thread
  /\ vc.terminate_thread => vc.thread_started
  /\ grabber.at = "exited" => vc.terminate_thread
  /\ grabber.buffer # NoBuffer <=> grabber.at = "read"

CaptureInv == CaptureTypeOK /\ InOnePlace /\ ThreadHasItsReference

-----------------------------------------------------------------------------
(* What the run checks follows from the inductive invariant. *)
LEMMA CaptureInvSuffices == CaptureInv => CameraIsShared
<1>. SUFFICES ASSUME CaptureInv PROVE CameraIsShared
  OBVIOUS
<1>1. DOMAIN readyQueue = 1 .. Len(readyQueue)
  BY LenProperties DEF CaptureInv, CaptureTypeOK
<1>2. CameraStaysOpen
  BY DEF CaptureInv, ThreadHasItsReference, CameraStaysOpen
<1>3. FramesAreExclusive
  <2>. SUFFICES ASSUME vc.buffers, NEW b \in Buffers
                PROVE  LET places == << bufferIsFree[b], grabber.buffer = b, b \in held,
                                        OnTheWay(b) >>
                       IN  /\ \A i, j \in 1 .. 4 : places[i] /\ places[j] => i = j
                           /\ captureInstance => \E i \in 1 .. 4 : places[i]
                           /\ \A i, j \in 1 .. Len(readyQueue) : readyQueue[i] = readyQueue[j] => i = j
    BY <1>1 DEF FramesAreExclusive, OnTheWay
  <2>. DEFINE places == << bufferIsFree[b], grabber.buffer = b, b \in held, OnTheWay(b) >>
  <2>1. /\ places[1] <=> bufferIsFree[b]
        /\ places[2] <=> grabber.buffer = b
        /\ places[3] <=> b \in held
        /\ places[4] <=> OnTheWay(b)
    BY Zenon
  <2>2. \A i \in 1 .. 4 : i = 1 \/ i = 2 \/ i = 3 \/ i = 4
    OBVIOUS
  <2>3. 1 \in 1 .. 4 /\ 2 \in 1 .. 4 /\ 3 \in 1 .. 4 /\ 4 \in 1 .. 4
    OBVIOUS
  <2>. HIDE DEF places
  <2>4. \A i, j \in 1 .. 4 : places[i] /\ places[j] => i = j
    BY <2>1, <2>2 DEF CaptureInv, InOnePlace
  <2>5. captureInstance => \E i \in 1 .. 4 : places[i]
    BY <2>1, <2>3 DEF CaptureInv, InOnePlace
  <2>. QED
    BY <2>4, <2>5 DEF CaptureInv, InOnePlace, places
<1>. QED
  BY <1>2, <1>3 DEF CaptureInv, CameraIsShared

(* Nothing is open in the initial state. *)
LEMMA CaptureInitInv == CaptureInit => CaptureInv
<1>. SUFFICES ASSUME CaptureInit PROVE CaptureInv
  OBVIOUS
<1>1. CaptureTypeOK
  BY CaptureBoundsAssumption, EmptySeq DEF CaptureInit, CaptureTypeOK, NoBuffer, Buffers
<1>. QED
  BY <1>1 DEF CaptureInit, CaptureInv, InOnePlace, ThreadHasItsReference, NoBuffer

-----------------------------------------------------------------------------
(* The steps that leave every frame where it is. *)
LEMMA SameFrames ==
  ASSUME CaptureInv, CaptureTypeOK', ThreadHasItsReference',
         UNCHANGED <<bufferIsFree, readyQueue, held>>, grabber.buffer' = grabber.buffer,
         vc'.buffers => vc.buffers, captureInstance' => captureInstance
  PROVE  CaptureInv'
  BY DEF CaptureInv, CaptureTypeOK, InOnePlace, OnTheWay

(* The record of the resource keeps its type under each kind of update. *)
CaptureRecord == [refs : 0 .. 2, fd : BOOLEAN, buffers : BOOLEAN, thread_started : BOOLEAN,
                  terminate_thread : BOOLEAN]

LEMMA CaptureRecordUpdates ==
  ASSUME NEW v \in CaptureRecord
  PROVE  /\ Closed(v) \in CaptureRecord
         /\ \A n \in 0 .. 2 : /\ [v EXCEPT !.refs = n] \in CaptureRecord
                             /\ [v EXCEPT !.thread_started = TRUE, !.refs = n] \in CaptureRecord
                             /\ [v EXCEPT !.thread_started = FALSE, !.terminate_thread = FALSE,
                                          !.refs = n] \in CaptureRecord
  BY DEF CaptureRecord, Closed

LEMMA CreateInv == CaptureInv /\ ppb_video_capture_create => CaptureInv'
<1>. SUFFICES ASSUME CaptureInv, ppb_video_capture_create PROVE CaptureInv'
  OBVIOUS
<1>1. CaptureTypeOK' /\ ThreadHasItsReference' /\ vc'.buffers = vc.buffers
  BY DEF CaptureInv, CaptureTypeOK, ThreadHasItsReference, ppb_video_capture_create
<1>. QED
  BY <1>1, SameFrames DEF ppb_video_capture_create

(* StartCapture: the thread gets a reference. *)
LEMMA StartInv == CaptureInv /\ ppb_video_capture_start_capture => CaptureInv'
<1>. SUFFICES ASSUME CaptureInv, ppb_video_capture_start_capture PROVE CaptureInv'
  OBVIOUS
<1>1. vc.refs = 1 /\ ~vc.terminate_thread /\ grabber.buffer = NoBuffer
  BY DEF CaptureInv, CaptureTypeOK, ThreadHasItsReference, ppb_video_capture_start_capture,
         Calling, NoBuffer
<1>2. /\ vc'.refs = 2 /\ vc'.fd /\ vc'.buffers = vc.buffers
      /\ vc'.thread_started /\ ~vc'.terminate_thread
  BY <1>1 DEF CaptureInv, CaptureTypeOK, ppb_video_capture_start_capture
<1>3. CaptureTypeOK'
  <2>1. vc' = [vc EXCEPT !.thread_started = TRUE, !.refs = 2]
    BY <1>1 DEF ppb_video_capture_start_capture
  <2>0. vc \in CaptureRecord /\ 2 \in 0 .. 2
    BY DEF CaptureInv, CaptureTypeOK, CaptureRecord
  <2>2. vc' \in CaptureRecord
    BY <2>0, <2>1, CaptureRecordUpdates
  <2>3. grabber' \in [at : {"none", "loop", "wait", "read", "exited"},
                      buffer : Buffers \cup {NoBuffer}]
    BY DEF ppb_video_capture_start_capture
  <2>. QED
    BY <2>2, <2>3 DEF CaptureInv, CaptureTypeOK, CaptureRecord, ppb_video_capture_start_capture
<1>4. ThreadHasItsReference'
  BY <1>1, <1>2 DEF CaptureInv, CaptureTypeOK, ThreadHasItsReference,
                    ppb_video_capture_start_capture, Calling
<1>. QED
  BY <1>1, <1>2, <1>3, <1>4, SameFrames DEF ppb_video_capture_start_capture

(* StopCapture and Close until they wait for the thread; without a thread  *)
(* Close closes at once.                                                   *)
LEMMA StopBeginInv ==
  ASSUME CaptureInv, NEW call \in {"stop", "close"}, StopBegin(call) PROVE CaptureInv'
<1>1. CaptureTypeOK' /\ ThreadHasItsReference' /\ (vc'.buffers => vc.buffers)
  <2>1. CASE vc.thread_started
    BY <2>1 DEF CaptureInv, CaptureTypeOK, ThreadHasItsReference, StopBegin, Calling
  <2>2. CASE ~vc.thread_started
    BY <2>2, ZenonT(60) DEF CaptureInv, CaptureTypeOK, ThreadHasItsReference, StopBegin, Calling, Closed
  <2>. QED
    BY <2>1, <2>2
<1>. QED
  BY <1>1, SameFrames DEF StopBegin

(* The join: the thread is over, and its reference may have been the last. *)
LEMMA JoinInv == CaptureInv /\ ppb_video_capture_stop_capture => CaptureInv'
<1>. SUFFICES ASSUME CaptureInv, ppb_video_capture_stop_capture PROVE CaptureInv'
  OBVIOUS
<1>1. vc.refs \in {1, 2} /\ vc.fd /\ vc.buffers /\ grabber.buffer = NoBuffer
  BY DEF CaptureInv, CaptureTypeOK, ThreadHasItsReference, ppb_video_capture_stop_capture
<1>2. /\ vc'.refs = vc.refs - 1
      /\ vc'.fd <=> joining # "close" /\ vc.refs = 2
      /\ vc'.buffers <=> joining # "close" /\ vc.refs = 2
      /\ ~vc'.thread_started /\ ~vc'.terminate_thread
  BY <1>1 DEF CaptureInv, CaptureTypeOK, ppb_video_capture_stop_capture, Closed
<1>3. grabber'.at = "none" /\ grabber'.buffer = NoBuffer
  BY <1>1 DEF CaptureInv, CaptureTypeOK, ppb_video_capture_stop_capture
<1>4. CaptureTypeOK'
  <2>. DEFINE v == [vc EXCEPT !.thread_started = FALSE, !.terminate_thread = FALSE,
                              !.refs = vc.refs - 1]
  <2>1. vc.refs - 1 \in 0 .. 2
    BY <1>1
  <2>2. v \in CaptureRecord
    BY <2>1, CaptureRecordUpdates DEF CaptureInv, CaptureTypeOK, CaptureRecord
  <2>3. vc' = v \/ vc' = Closed(v)
    BY DEF ppb_video_capture_stop_capture
  <2>. HIDE DEF v
  <2>4. vc' \in CaptureRecord
    BY <2>2, <2>3, CaptureRecordUpdates
  <2>. QED
    BY <2>4 DEF CaptureInv, CaptureTypeOK, CaptureRecord, ppb_video_capture_stop_capture
<1>5. ThreadHasItsReference'
  BY <1>1, <1>2, <1>3 DEF ThreadHasItsReference, ppb_video_capture_stop_capture
<1>. QED
  BY <1>1, <1>2, <1>3, <1>4, <1>5, SameFrames DEF ppb_video_capture_stop_capture

(* The plugin lets go of the resource; with a thread it is not the last.   *)
LEMMA ReleaseInv == CaptureInv /\ ReleaseCapture => CaptureInv'
<1>. SUFFICES ASSUME CaptureInv, ReleaseCapture PROVE CaptureInv'
  OBVIOUS
<1>. DEFINE last == vc.refs = 1
<1>1. /\ vc'.refs = vc.refs - 1
      /\ vc'.fd <=> vc.fd /\ ~last
      /\ vc'.buffers <=> vc.buffers /\ ~last
      /\ vc'.thread_started = vc.thread_started /\ vc'.terminate_thread = vc.terminate_thread
  BY DEF CaptureInv, CaptureTypeOK, ReleaseCapture, Closed
<1>2. last => ~vc.thread_started
  BY DEF ReleaseCapture
<1>3. CaptureTypeOK'
  <2>1. vc.refs - 1 \in 0 .. 2
    BY DEF CaptureInv, CaptureTypeOK, ReleaseCapture, Calling
  <2>. DEFINE v == [vc EXCEPT !.refs = vc.refs - 1]
  <2>2. v \in CaptureRecord
    BY <2>1, CaptureRecordUpdates DEF CaptureInv, CaptureTypeOK, CaptureRecord
  <2>3. vc' = v \/ vc' = Closed(v)
    BY <2>1 DEF ReleaseCapture
  <2>. HIDE DEF v
  <2>4. vc' \in CaptureRecord
    BY <2>2, <2>3, CaptureRecordUpdates
  <2>. QED
    BY <2>4 DEF CaptureInv, CaptureTypeOK, CaptureRecord, ReleaseCapture
<1>4. ThreadHasItsReference'
  BY <1>1, <1>2 DEF CaptureInv, CaptureTypeOK, ThreadHasItsReference, ReleaseCapture, Calling
<1>. QED
  BY <1>1, <1>3, <1>4, SameFrames DEF ReleaseCapture

LEMMA InstanceGoneInv == CaptureInv /\ CaptureInstanceGone => CaptureInv'
  BY SameFrames DEF CaptureInv, CaptureTypeOK, ThreadHasItsReference, CaptureInstanceGone

(* Waiting for a buffer, and the end of the thread. *)
LEMMA WaitAndExitInv == CaptureInv /\ (WaitForBuffer \/ ThreadExit) => CaptureInv'
<1>. SUFFICES ASSUME CaptureInv, WaitForBuffer \/ ThreadExit PROVE CaptureInv'
  OBVIOUS
<1>1. CaptureTypeOK' /\ ThreadHasItsReference' /\ vc'.buffers = vc.buffers
      /\ grabber'.buffer = grabber.buffer
  BY DEF CaptureInv, CaptureTypeOK, ThreadHasItsReference, WaitForBuffer, ThreadExit, NoBuffer
<1>. QED
  BY <1>1, SameFrames DEF WaitForBuffer, ThreadExit

-----------------------------------------------------------------------------
(* The steps that move a frame. *)

(* Open makes every buffer free: none is with the camera or on its way, for*)
(* the plugin opens only a closed camera and after the last OnBufferReady. *)
LEMMA OpenInv ==
  ASSUME CaptureInv, ppb_video_capture_open, OpensUnclosed = FALSE PROVE CaptureInv'
<1>1. readyQueue = <<>> /\ grabber.buffer = NoBuffer /\ grabber.at = "none"
  BY DEF CaptureInv, CaptureTypeOK, ThreadHasItsReference, ppb_video_capture_open
<1>2. opened' \in 0 .. MaxCaptureOps
  BY CaptureBoundsAssumption DEF CaptureInv, CaptureTypeOK, ppb_video_capture_open
<1>3. CASE /\ \E kept \in {vc.buffers, FALSE} : vc' = [vc EXCEPT !.fd = FALSE, !.buffers = kept]
           /\ UNCHANGED <<bufferIsFree, held>>
  <2>0. ~vc.fd /\ ~vc.buffers
    BY DEF CaptureInv, ThreadHasItsReference, ppb_video_capture_open
  <2>1. CaptureTypeOK' /\ ThreadHasItsReference' /\ ~vc'.buffers
    BY <1>2, <1>3, <2>0 DEF CaptureInv, CaptureTypeOK, ThreadHasItsReference, ppb_video_capture_open
  <2>. QED
    BY <2>1, <1>3, SameFrames DEF ppb_video_capture_open
<1>4. CASE /\ vc' = [vc EXCEPT !.fd = TRUE, !.buffers = TRUE]
           /\ bufferIsFree' = [b \in Buffers |-> TRUE]
           /\ held' = {}
  <2>1. CaptureTypeOK'
    BY <1>2, <1>4 DEF CaptureInv, CaptureTypeOK, ppb_video_capture_open
  <2>2. ThreadHasItsReference'
    BY <1>1, <1>4 DEF CaptureInv, CaptureTypeOK, ThreadHasItsReference, ppb_video_capture_open,
                      Calling
  <2>3. Len(readyQueue') = 0 /\ \A b \in Buffers : grabber'.buffer # b
    BY <1>1, EmptySeq DEF ppb_video_capture_open, Buffers, NoBuffer
  <2>4. InOnePlace'
    BY <1>4, <2>3 DEF InOnePlace, OnTheWay
  <2>. QED
    BY <2>1, <2>2, <2>4 DEF CaptureInv
<1>. QED
  BY <1>3, <1>4 DEF ppb_video_capture_open

(* ReuseBuffer: from the plugin to the free ones. *)
LEMMA ReuseInv ==
  ASSUME CaptureInv, NEW b \in Buffers, ppb_video_capture_reuse_buffer(b) PROVE CaptureInv'
<1>1. CaptureTypeOK' /\ ThreadHasItsReference'
  BY DEF CaptureInv, CaptureTypeOK, ThreadHasItsReference, ppb_video_capture_reuse_buffer
<1>2. \A c \in Buffers : bufferIsFree'[c] = (bufferIsFree[c] \/ c = b)
  BY DEF CaptureInv, CaptureTypeOK, ppb_video_capture_reuse_buffer
<1>3. InOnePlace'
  BY <1>2 DEF CaptureInv, InOnePlace, OnTheWay, ppb_video_capture_reuse_buffer
<1>. QED
  BY <1>1, <1>3 DEF CaptureInv

(* The thread takes a free buffer. *)
LEMMA TakeInv == CaptureInv /\ TakeBuffer => CaptureInv'
<1>. SUFFICES ASSUME CaptureInv, TakeBuffer PROVE CaptureInv'
  OBVIOUS
<1>1. PICK b \in Buffers : /\ bufferIsFree[b]
                           /\ bufferIsFree' = [bufferIsFree EXCEPT ![b] = FALSE]
                           /\ grabber' = [at |-> "read", buffer |-> b]
  BY DEF TakeBuffer
<1>2. CaptureTypeOK'
  BY <1>1 DEF CaptureInv, CaptureTypeOK, TakeBuffer
<1>3. b # NoBuffer
  BY DEF Buffers, NoBuffer
<1>4. ThreadHasItsReference'
  BY <1>1, <1>3 DEF CaptureInv, CaptureTypeOK, ThreadHasItsReference, TakeBuffer
<1>5. grabber.buffer = NoBuffer /\ \A c \in Buffers : c # NoBuffer
  BY DEF CaptureInv, ThreadHasItsReference, TakeBuffer, Buffers, NoBuffer
<1>6. \A c \in Buffers : bufferIsFree'[c] = (bufferIsFree[c] /\ c # b)
  BY <1>1 DEF CaptureInv, CaptureTypeOK
<1>7. InOnePlace'
  BY <1>1, <1>5, <1>6, ZenonT(60) DEF CaptureInv, InOnePlace, OnTheWay, TakeBuffer
<1>. QED
  BY <1>2, <1>4, <1>7 DEF CaptureInv

(* The thread posts the frame it has read. *)
LEMMA PostInv == CaptureInv /\ PostBuffer => CaptureInv'
<1>. SUFFICES ASSUME CaptureInv, PostBuffer PROVE CaptureInv'
  OBVIOUS
<1>. DEFINE n == Len(readyQueue)
            f == grabber.buffer
<1>1. f \in Buffers /\ f # NoBuffer /\ n \in Nat
  BY LenProperties DEF CaptureInv, CaptureTypeOK, ThreadHasItsReference, PostBuffer
<1>2. /\ readyQueue' \in Seq(Buffers)
      /\ Len(readyQueue') = n + 1
      /\ \A i \in 1 .. n : readyQueue'[i] = readyQueue[i]
      /\ readyQueue'[n + 1] = f
  BY <1>1, AppendProperties DEF CaptureInv, CaptureTypeOK, PostBuffer
<1>3. CaptureTypeOK'
  BY <1>2 DEF CaptureInv, CaptureTypeOK, PostBuffer
<1>4. ThreadHasItsReference'
  BY DEF CaptureInv, CaptureTypeOK, ThreadHasItsReference, PostBuffer
<1>5. \A b \in Buffers : OnTheWay(b)' <=> OnTheWay(b) \/ b = f
  BY <1>1, <1>2 DEF OnTheWay
<1>6. grabber'.buffer = NoBuffer /\ \A c \in Buffers : c # NoBuffer
  BY DEF PostBuffer, Buffers, NoBuffer
<1>7. vc.buffers /\ ~OnTheWay(f) =>
        \A i, j \in 1 .. n + 1 : readyQueue'[i] = readyQueue'[j] => i = j
  BY <1>1, <1>2 DEF CaptureInv, InOnePlace, OnTheWay
<1>8. InOnePlace'
  BY <1>1, <1>2, <1>5, <1>6, <1>7 DEF CaptureInv, InOnePlace, PostBuffer
<1>. QED
  BY <1>3, <1>4, <1>8 DEF CaptureInv

(* OnBufferReady: the plugin has the first frame of the queue. *)
LEMMA ReadyInv == CaptureInv /\ on_buffer_ready_comt => CaptureInv'
<1>. SUFFICES ASSUME CaptureInv, on_buffer_ready_comt PROVE CaptureInv'
  OBVIOUS
<1>. DEFINE n == Len(readyQueue)
<1>0. PICK f \in Buffers : f = Head(readyQueue)
  BY EmptySeq, HeadTailProperties DEF CaptureInv, CaptureTypeOK, on_buffer_ready_comt
<1>1. /\ n \in Nat /\ n > 0 /\ f = readyQueue[1]
      /\ readyQueue' \in Seq(Buffers)
      /\ Len(readyQueue') = n - 1
      /\ \A i \in 1 .. n - 1 : readyQueue'[i] = readyQueue[i + 1]
  BY <1>0, EmptySeq, LenProperties, HeadTailProperties
     DEF CaptureInv, CaptureTypeOK, on_buffer_ready_comt
<1>2. CaptureTypeOK'
  BY <1>1 DEF CaptureInv, CaptureTypeOK, on_buffer_ready_comt
<1>3. ThreadHasItsReference'
  BY DEF CaptureInv, CaptureTypeOK, ThreadHasItsReference, on_buffer_ready_comt
<1>4. \A b \in Buffers : OnTheWay(b)' => OnTheWay(b)
  BY <1>1 DEF OnTheWay
<1>5. \A b \in Buffers : OnTheWay(b) => OnTheWay(b)' \/ b = f
  <2>. SUFFICES ASSUME NEW i \in 1 .. n, readyQueue[i] # f
                PROVE  \E k \in 1 .. Len(readyQueue') : readyQueue'[k] = readyQueue[i]
    BY DEF OnTheWay
  <2>1. i - 1 \in 1 .. n - 1 /\ (i - 1) + 1 = i
    BY <1>1
  <2>. QED
    BY <1>1, <2>1
<1>6. OnTheWay(f)
  BY <1>1 DEF OnTheWay
<1>7. vc.buffers => ~OnTheWay(f)'
  <2>. SUFFICES ASSUME vc.buffers, NEW k \in 1 .. n - 1, readyQueue[k + 1] = readyQueue[1]
                PROVE  FALSE
    BY <1>1 DEF OnTheWay
  <2>. QED
    BY <1>1 DEF CaptureInv, InOnePlace
<1>8. vc.buffers => \A i, j \in 1 .. n - 1 : readyQueue'[i] = readyQueue'[j] => i = j
  <2>. SUFFICES ASSUME vc.buffers, NEW i \in 1 .. n - 1, NEW j \in 1 .. n - 1,
                       readyQueue[i + 1] = readyQueue[j + 1]
                PROVE  i = j
    BY <1>1
  <2>. QED
    BY <1>1 DEF CaptureInv, InOnePlace
<1>9. InOnePlace'
  BY <1>0, <1>1, <1>4, <1>5, <1>6, <1>7, <1>8 DEF CaptureInv, InOnePlace, on_buffer_ready_comt
<1>. QED
  BY <1>2, <1>3, <1>9 DEF CaptureInv

-----------------------------------------------------------------------------
LEMMA CaptureNextInv ==
  ASSUME OpensUnclosed = FALSE, CaptureInv, [CaptureNext]_captureVars PROVE CaptureInv'
<1>1. CASE UNCHANGED captureVars
  BY <1>1 DEF CaptureInv, CaptureTypeOK, InOnePlace, OnTheWay, ThreadHasItsReference, captureVars
<1>2. CASE PPB_VideoCapture
  BY <1>2, CreateInv, OpenInv, StartInv, ReuseInv, StopBeginInv, ReleaseInv
     DEF PPB_VideoCapture
<1>3. CASE video_capture_thread
  BY <1>3, TakeInv, PostInv, WaitAndExitInv DEF video_capture_thread
<1>. QED
  BY <1>1, <1>2, <1>3, JoinInv, ReadyInv, InstanceGoneInv DEF CaptureNext

(***************************************************************************)
(* The camera writes only into a buffer nobody else has; every buffer is   *)
(* free, with the camera, on its way or with the plugin, in one place only *)
(* and, as long as the instance is there, not lost; and the thread never   *)
(* runs on a closed device or a destroyed resource.  Assumed: the plugin   *)
(* opens a camera that is closed, and only after the last OnBufferReady of *)
(* before (Open makes new buffers, all free, without asking whether there  *)
(* are others and who has them).                                           *)
(***************************************************************************)
THEOREM CameraIsSharedCorrect ==
  ASSUME OpensUnclosed = FALSE PROVE CaptureSpec => []CameraIsShared
<1>1. CaptureInit => CaptureInv
  BY CaptureInitInv
<1>2. CaptureInv /\ [CaptureNext]_captureVars => CaptureInv'
  BY CaptureNextInv
<1>. QED
  BY <1>1, <1>2, CaptureInvSuffices, PTL DEF CaptureSpec

-----------------------------------------------------------------------------
(* The decoder *)

(* Picture buffers exist only after the plugin was asked for them, and it  *)
(* is asked only while there are none.                                     *)
AskedForPictures ==
  /\ vd.asked => \A p \in Pictures : pictures[p] = "none"
  /\ vd.asked => vd.buffers_were_requested \/ decode.at = "provide"
  /\ ~vd.buffers_were_requested /\ decode.at # "provide" =>
       \A p \in Pictures : pictures[p] = "none"

(* One set of surfaces per codec, as long as nothing has failed. *)
OneSurfaceSet ==
  /\ decode.at # "no" => vd.initialized
  /\ ~vd.failed_state =>
       surfaceSets = IF vd.initialized /\ vd.hwdec_api # "none" THEN 1 ELSE 0

DecoderInv == FramesGoRound /\ AskedForPictures /\ OneSurfaceSet

(* Each kind of update of the decoder's record keeps its type. *)
LEMMA DecoderRecordUpdates ==
  ASSUME NEW v \in DecoderType, NEW api \in {"none", "vaapi", "vdpau"},
         NEW st \in {"unused", "alive", "gone"}
  PROVE  /\ [v EXCEPT !.state = st] \in DecoderType
         /\ [v EXCEPT !.initialized = TRUE, !.graphics3d = TRUE, !.hwdec_api = "none"] \in DecoderType
         /\ [v EXCEPT !.failed_state = TRUE, !.hwdec_api = api] \in DecoderType
         /\ [v EXCEPT !.hwdec_api = api] \in DecoderType
         /\ [v EXCEPT !.asked = TRUE] \in DecoderType
         /\ [v EXCEPT !.asked = FALSE] \in DecoderType
         /\ [v EXCEPT !.buffers_were_requested = TRUE] \in DecoderType
         /\ [v EXCEPT !.state = st, !.initialized = FALSE, !.buffers_were_requested = FALSE,
                      !.graphics3d = FALSE, !.asked = FALSE] \in DecoderType
  BY DEF DecoderType

LEMMA DecoderInitInv == DecoderInit => DecoderInv
<1>. SUFFICES ASSUME DecoderInit PROVE DecoderInv
  OBVIOUS
<1>1. DecoderTypeOK
  BY DecoderBoundsAssumption DEF DecoderInit, DecoderTypeOK, DecoderType
<1>2. PicturesAreReturned /\ AskedForPictures
  BY DEF DecoderInit, PicturesAreReturned, AskedForPictures
<1>3. SurfacesAreReturned /\ OneSurfaceSet
  BY DEF DecoderInit, SurfacesAreReturned, OneSurfaceSet, Surfaces, NoSurface
<1>. QED
  BY <1>1, <1>2, <1>3 DEF DecoderInv, FramesGoRound

(* Create: nothing else exists. *)
LEMMA DecoderCreateInv == DecoderInv /\ ppb_video_decoder_create => DecoderInv'
<1>. SUFFICES ASSUME DecoderInv, ppb_video_decoder_create PROVE DecoderInv'
  OBVIOUS
<1>. USE DEF DecoderInv, FramesGoRound, ppb_video_decoder_create
<1>1. DecoderTypeOK'
  BY DecoderRecordUpdates DEF DecoderTypeOK
<1>2. /\ vd'.asked = vd.asked /\ vd'.buffers_were_requested = vd.buffers_were_requested
      /\ vd'.initialized = vd.initialized /\ vd'.failed_state = vd.failed_state
      /\ vd'.hwdec_api = vd.hwdec_api
  BY DEF DecoderTypeOK, DecoderType
<1>3. PicturesAreReturned' /\ AskedForPictures'
  BY <1>2 DEF PicturesAreReturned, AskedForPictures
<1>4. SurfacesAreReturned' /\ OneSurfaceSet'
  BY <1>2 DEF SurfacesAreReturned, OneSurfaceSet
<1>. QED
  BY <1>1, <1>3, <1>4

(* Reset and the destructor: everything goes, the set of surfaces too. *)
LEMMA DeinitializeInv ==
  ASSUME DecoderInv, NEW st \in {"alive", "gone"}, Outside, deinitialize_decoder(st),
         UNCHANGED decode
  PROVE  DecoderInv'
<1>. USE DEF DecoderInv, FramesGoRound, deinitialize_decoder
<1>1. vd' \in DecoderType
  BY DecoderRecordUpdates DEF DecoderTypeOK
<1>2. /\ ~vd'.asked /\ ~vd'.buffers_were_requested /\ ~vd'.initialized
      /\ vd'.failed_state = vd.failed_state /\ vd'.hwdec_api = vd.hwdec_api
  BY DEF DecoderTypeOK, DecoderType
<1>3. surfaceSets' \in 0 .. MaxFrames /\ (~vd.failed_state => surfaceSets' = 0)
  <2>1. surfaceSets \in 0 .. MaxFrames
    BY DEF DecoderTypeOK
  <2>. QED
    BY <2>1, DecoderBoundsAssumption DEF OneSurfaceSet
<1>4. DecoderTypeOK'
  BY <1>1, <1>3 DEF DecoderTypeOK
<1>5. PicturesAreReturned' /\ AskedForPictures'
  BY <1>2 DEF PicturesAreReturned, AskedForPictures
<1>6. SurfacesAreReturned' /\ OneSurfaceSet'
  BY <1>2, <1>3 DEF SurfacesAreReturned, OneSurfaceSet, Outside, Surfaces, NoSurface
<1>. QED
  BY <1>4, <1>5, <1>6

(* Decode begins, with a codec or without. *)
LEMMA DecodeInv == DecoderInv /\ ppb_video_decoder_decode => DecoderInv'
<1>. SUFFICES ASSUME DecoderInv, ppb_video_decoder_decode PROVE DecoderInv'
  OBVIOUS
<1>. USE DEF DecoderInv, FramesGoRound
<1>1. /\ vd \in DecoderType /\ ~vd.failed_state /\ decode.at = "no"
      /\ UNCHANGED <<used, codecRefs, avframe, pictures, bound, shown, surfaceSets>>
  BY DEF DecoderTypeOK, ppb_video_decoder_decode, Outside
<1>2. /\ vd' \in DecoderType
      /\ vd'.asked = vd.asked /\ vd'.buffers_were_requested = vd.buffers_were_requested
      /\ \/ vd'.initialized /\ vd.initialized /\ ~vd'.failed_state /\ vd'.hwdec_api = vd.hwdec_api
         \/ vd'.initialized /\ ~vd.initialized /\ ~vd'.failed_state /\ vd'.hwdec_api = "none"
         \/ vd'.failed_state /\ decode' = decode
  <2>1. CASE vd' = vd
    BY <1>1, <2>1 DEF ppb_video_decoder_decode, DecoderType
  <2>2. CASE ~vd.initialized /\ vd' = [vd EXCEPT !.initialized = TRUE, !.graphics3d = TRUE,
                                                 !.hwdec_api = "none"]
    BY <1>1, <2>2 DEF DecoderType
  <2>3. CASE decode' = decode /\ vd' = [vd EXCEPT !.failed_state = TRUE, !.hwdec_api = "none"]
    BY <1>1, <2>3 DEF DecoderType
  <2>. QED
    BY <2>1, <2>2, <2>3 DEF ppb_video_decoder_decode
<1>3. /\ decode' \in [at : {"no", "parse", "frame", "provide", "ready"}, left : 0 .. MaxFrames]
      /\ decode'.at \in {"no", "parse"}
      /\ vd'.initialized \/ decode'.at = "no"
  <2>1. CASE \E n \in 1 .. MaxFrames : decode' = [at |-> "parse", left |-> n]
    <3>1. vd'.initialized
      BY <1>1, <1>2, <2>1 DEF DecoderTypeOK
    <3>. QED
      BY <2>1, <3>1, DecoderBoundsAssumption
  <2>2. CASE decode' = decode
    BY <1>1, <2>2 DEF DecoderTypeOK
  <2>. QED
    BY <2>1, <2>2 DEF ppb_video_decoder_decode
<1>4. DecoderTypeOK'
  BY <1>1, <1>2, <1>3 DEF DecoderTypeOK
<1>5. PicturesAreReturned' /\ AskedForPictures'
  BY <1>1, <1>2 DEF PicturesAreReturned, AskedForPictures
<1>6. OneSurfaceSet'
  BY <1>1, <1>2, <1>3 DEF OneSurfaceSet
<1>7. SurfacesAreReturned'
  BY <1>1, <1>2 DEF SurfacesAreReturned, OneSurfaceSet
<1>. QED
  BY <1>4, <1>5, <1>6, <1>7

(* libavcodec asks for a format: once per codec, unless it changes. *)
LEMMA FormatInv ==
  ASSUME DecoderInv, ChangesSize = FALSE, NEW api \in {"vaapi", "vdpau"}, get_format(api)
  PROVE  DecoderInv'
<1>. USE DEF DecoderInv, FramesGoRound
<1>1. /\ vd \in DecoderType /\ vd.initialized /\ decode.at = "parse" /\ vd.hwdec_api = "none"
      /\ surfaceSets \in 0 .. MaxFrames /\ surfaceSets < MaxFrames
      /\ UNCHANGED <<used, codecRefs, avframe, pictures, bound, shown>>
  BY DEF DecoderTypeOK, OneSurfaceSet, get_format
<1>2. /\ vd' \in DecoderType
      /\ vd'.asked = vd.asked /\ vd'.buffers_were_requested = vd.buffers_were_requested
      /\ vd'.initialized = vd.initialized
      /\ \/ vd'.failed_state = vd.failed_state /\ vd'.hwdec_api = api /\ surfaceSets' = surfaceSets + 1
         \/ vd'.failed_state
  <2>1. CASE vd' = [vd EXCEPT !.hwdec_api = api] /\ surfaceSets' = surfaceSets + 1
    BY <1>1, <2>1 DEF DecoderType
  <2>2. CASE vd' = [vd EXCEPT !.failed_state = TRUE, !.hwdec_api = IF api = "vdpau" THEN api ELSE @]
    BY <1>1, <2>2 DEF DecoderType
  <2>. QED
    BY <2>1, <2>2 DEF get_format
<1>3. surfaceSets' \in 0 .. MaxFrames
  BY <1>1, DecoderBoundsAssumption DEF get_format
<1>4. /\ decode' \in [at : {"no", "parse", "frame", "provide", "ready"}, left : 0 .. MaxFrames]
      /\ decode'.at = "parse"
  <2>1. decode.left > 0 => decode.left - 1 \in 0 .. MaxFrames
    BY DecoderBoundsAssumption DEF DecoderTypeOK
  <2>. QED
    BY <1>1, <2>1 DEF get_format, DecoderTypeOK
<1>5. DecoderTypeOK'
  BY <1>1, <1>2, <1>3, <1>4 DEF DecoderTypeOK
<1>6. PicturesAreReturned' /\ AskedForPictures'
  BY <1>1, <1>2, <1>4 DEF PicturesAreReturned, AskedForPictures
<1>7. OneSurfaceSet'
  BY <1>1, <1>2 DEF OneSurfaceSet
<1>8. SurfacesAreReturned'
  BY <1>1, <1>2 DEF SurfacesAreReturned
<1>. QED
  BY <1>5, <1>6, <1>7, <1>8

(* The steps of Decode that leave vd and the pictures alone. *)
LEMMA InCodecInv ==
  ASSUME DecoderInv, vd' = vd, UNCHANGED <<pictures, bound, shown, surfaceSets>>,
         used' \in [Surfaces -> BOOLEAN], codecRefs' \subseteq Surfaces,
         avframe' \in Surfaces \cup {NoSurface},
         \A s \in Surfaces : used'[s] <=> (s \in codecRefs' \/ s = avframe'),
         decode' \in [at : {"no", "parse", "frame", "ready"}, left : 0 .. MaxFrames],
         decode'.at = "no" \/ decode.at # "no", decode.at # "provide"
  PROVE  DecoderInv'
<1>. USE DEF DecoderInv, FramesGoRound
<1>1. DecoderTypeOK'
  BY DEF DecoderTypeOK
<1>2. PicturesAreReturned' /\ AskedForPictures'
  BY DEF PicturesAreReturned, AskedForPictures
<1>3. OneSurfaceSet' /\ SurfacesAreReturned'
  BY DEF OneSurfaceSet, SurfacesAreReturned
<1>. QED
  BY <1>1, <1>2, <1>3

LEMMA CodecStepsInv ==
  ASSUME DecoderInv, NEW s,
         \/ s \in Surfaces /\ (get_buffer2(s) \/ release_buffer2(s))
         \/ NoFrame \/ PictureReadyReturns \/ DecodeReturns \/ ppb_video_decoder_flush
  PROVE  DecoderInv'
<1>. USE DEF DecoderInv, FramesGoRound
<1>1. decode \in [at : {"no", "parse", "frame", "provide", "ready"}, left : 0 .. MaxFrames]
  BY DEF DecoderTypeOK
<1>2. decode.left > 0 => decode.left - 1 \in 0 .. MaxFrames
  BY <1>1, DecoderBoundsAssumption
<1>3. /\ vd' = vd /\ UNCHANGED <<pictures, bound, shown, surfaceSets>>
      /\ decode.at \in {"no", "parse", "ready"}
  BY DEF get_buffer2, release_buffer2, NoFrame, PictureReadyReturns, DecodeReturns,
         ppb_video_decoder_flush, Outside
<1>4. /\ decode' \in [at : {"no", "parse", "frame", "ready"}, left : 0 .. MaxFrames]
      /\ decode'.at = "no" \/ decode.at # "no"
  BY <1>1, <1>2 DEF get_buffer2, release_buffer2, NoFrame, PictureReadyReturns, DecodeReturns,
         ppb_video_decoder_flush, Outside
<1>5. /\ used' \in [Surfaces -> BOOLEAN] /\ codecRefs' \subseteq Surfaces
      /\ avframe' \in Surfaces \cup {NoSurface}
      /\ \A k \in Surfaces : used'[k] <=> (k \in codecRefs' \/ k = avframe')
  <2>1. CASE s \in Surfaces /\ get_buffer2(s)
    BY <2>1 DEF get_buffer2, MarkUsed, DecoderTypeOK, SurfacesAreReturned, NoSurface, Surfaces
  <2>2. CASE s \in Surfaces /\ release_buffer2(s)
    <3>1. codecRefs' \subseteq Surfaces /\ avframe' \in Surfaces \cup {NoSurface}
      BY <2>2 DEF release_buffer2, DecoderTypeOK
    <3>2. /\ used' = [used EXCEPT ![s] = (s \in codecRefs' \/ s = avframe')]
          /\ (s \in codecRefs' \/ s = avframe') \in BOOLEAN
      BY <2>2 DEF release_buffer2
    <3>3. used' \in [Surfaces -> BOOLEAN]
      BY <2>2, <3>2 DEF DecoderTypeOK
    <3>4. \A k \in Surfaces \ {s} : used'[k] = used[k]
      BY <2>2, <3>2 DEF DecoderTypeOK
    <3>5. used'[s] <=> (s \in codecRefs' \/ s = avframe')
      BY <2>2, <3>2, Zenon DEF DecoderTypeOK
    <3>6. \A k \in Surfaces \ {s} : (k \in codecRefs' \/ k = avframe') <=> (k \in codecRefs \/ k = avframe)
      BY <2>2 DEF release_buffer2, NoSurface, Surfaces
    <3>. QED
      BY <3>1, <3>3, <3>4, <3>5, <3>6 DEF SurfacesAreReturned
  <2>3. CASE ppb_video_decoder_flush
    BY <2>3 DEF ppb_video_decoder_flush, DecoderTypeOK
  <2>4. CASE NoFrame \/ PictureReadyReturns \/ DecodeReturns
    BY <2>4 DEF NoFrame, PictureReadyReturns, DecodeReturns, DecoderTypeOK, SurfacesAreReturned
  <2>. QED
    BY <2>1, <2>2, <2>3, <2>4
<1>. QED
  BY <1>3, <1>4, <1>5, InCodecInv

(* The first frame asks for picture buffers, and Decode goes on after it. *)
LEMMA RequestInv == DecoderInv /\ (request_buffers \/ ProvideReturns) => DecoderInv'
<1>. SUFFICES ASSUME DecoderInv, request_buffers \/ ProvideReturns PROVE DecoderInv'
  OBVIOUS
<1>. USE DEF DecoderInv, FramesGoRound
<1>1. /\ vd \in DecoderType
      /\ UNCHANGED <<used, codecRefs, avframe, pictures, bound, shown, surfaceSets>>
      /\ decode.at \in {"frame", "provide"}
  BY DEF DecoderTypeOK, request_buffers, ProvideReturns
<1>2. /\ vd' \in DecoderType /\ vd'.initialized = vd.initialized
      /\ vd'.failed_state = vd.failed_state /\ vd'.hwdec_api = vd.hwdec_api
      /\ \/ /\ decode.at = "frame" /\ decode'.at = "provide" /\ ~vd.buffers_were_requested
         \/ vd'.buffers_were_requested /\ vd'.asked = vd.asked
  BY <1>1, ZenonT(60) DEF request_buffers, ProvideReturns, DecoderType, DecoderTypeOK
<1>3. decode' \in [at : {"no", "parse", "frame", "provide", "ready"}, left : 0 .. MaxFrames]
  BY DEF request_buffers, ProvideReturns, DecoderTypeOK
<1>4. DecoderTypeOK'
  BY <1>1, <1>2, <1>3 DEF DecoderTypeOK
<1>5. PicturesAreReturned' /\ AskedForPictures'
  BY <1>1, <1>2 DEF PicturesAreReturned, AskedForPictures
<1>6. OneSurfaceSet' /\ SurfacesAreReturned'
  BY <1>1, <1>2 DEF OneSurfaceSet, SurfacesAreReturned
<1>. QED
  BY <1>4, <1>5, <1>6

(* A frame goes to a picture buffer that is free. *)
LEMMA IssueInv == DecoderInv /\ issue_frame => DecoderInv'
<1>. SUFFICES ASSUME DecoderInv, issue_frame PROVE DecoderInv'
  OBVIOUS
<1>. USE DEF DecoderInv, FramesGoRound
<1>1. /\ decode.at = "frame" /\ vd.buffers_were_requested
      /\ UNCHANGED <<vd, used, codecRefs, avframe, surfaceSets>>
      /\ decode' \in [at : {"no", "parse", "frame", "provide", "ready"}, left : 0 .. MaxFrames]
  BY DEF issue_frame, DecoderTypeOK
<1>2. OneSurfaceSet' /\ SurfacesAreReturned'
  BY <1>1 DEF OneSurfaceSet, SurfacesAreReturned
<1>3. CASE UNCHANGED <<pictures, bound, shown>>
  <2>1. DecoderTypeOK' /\ PicturesAreReturned' /\ AskedForPictures'
    BY <1>1, <1>3 DEF DecoderTypeOK, PicturesAreReturned, AskedForPictures
  <2>. QED
    BY <1>2, <2>1
<1>4. ASSUME NEW p \in Pictures, find_free_buffer(p),
             pictures' = [pictures EXCEPT ![p] = "used"], bound' = bound \cup {p},
             shown' = [shown EXCEPT ![p] = @ + 1]
      PROVE  DecoderInv'
  <2>1. pictures[p] = "free" /\ shown[p] = 0 /\ ~vd.asked
    BY <1>4 DEF find_free_buffer, PicturesAreReturned, AskedForPictures, DecoderTypeOK, DecoderType
  <2>2. /\ \A q \in Pictures : pictures'[q] = IF q = p THEN "used" ELSE pictures[q]
        /\ \A q \in Pictures : shown'[q] = IF q = p THEN 1 ELSE shown[q]
        /\ pictures' \in [Pictures -> {"none", "free", "used"}]
        /\ shown' \in [Pictures -> 0 .. 2]
    BY <1>4, <2>1 DEF DecoderTypeOK
  <2>3. DecoderTypeOK'
    BY <1>1, <1>4, <2>2 DEF DecoderTypeOK
  <2>4. PicturesAreReturned'
    <3>1. \A q \in Pictures : shown'[q] = IF pictures'[q] = "used" THEN 1 ELSE 0
      BY <2>1, <2>2 DEF PicturesAreReturned
    <3>2. bound' = {q \in Pictures : shown'[q] > 0}
      BY <1>4, <2>2 DEF PicturesAreReturned
    <3>. QED
      BY <3>1, <3>2 DEF PicturesAreReturned
  <2>5. AskedForPictures'
    BY <1>1, <2>1 DEF AskedForPictures
  <2>. QED
    BY <1>2, <2>3, <2>4, <2>5
<1>. QED
  BY <1>3, <1>4 DEF issue_frame

(* AssignPictureBuffers: none were there before. *)
LEMMA AssignInv ==
  ASSUME DecoderInv, NEW ps \in SUBSET Pictures, ppb_video_decoder_assign_picture_buffers(ps)
  PROVE  DecoderInv'
<1>. USE DEF DecoderInv, FramesGoRound
<1>1. /\ vd \in DecoderType /\ vd.asked
      /\ UNCHANGED <<used, codecRefs, avframe, bound, shown, surfaceSets, decode>>
      /\ vd' = [vd EXCEPT !.asked = FALSE]
      /\ pictures' = [p \in Pictures |-> IF p \in ps THEN "free" ELSE "none"]
  BY DEF DecoderTypeOK, ppb_video_decoder_assign_picture_buffers
<1>2. /\ vd' \in DecoderType /\ ~vd'.asked /\ vd'.initialized = vd.initialized
      /\ vd'.failed_state = vd.failed_state /\ vd'.hwdec_api = vd.hwdec_api
      /\ vd'.buffers_were_requested = vd.buffers_were_requested
  BY <1>1 DEF DecoderType
<1>3. vd.buffers_were_requested \/ decode.at = "provide"
  BY <1>1 DEF AskedForPictures
<1>4. DecoderTypeOK'
  BY <1>1, <1>2 DEF DecoderTypeOK
<1>5. PicturesAreReturned'
  BY <1>1 DEF PicturesAreReturned, AskedForPictures
<1>6. AskedForPictures'
  BY <1>1, <1>2, <1>3 DEF AskedForPictures
<1>7. OneSurfaceSet' /\ SurfacesAreReturned'
  BY <1>1, <1>2 DEF OneSurfaceSet, SurfacesAreReturned
<1>. QED
  BY <1>4, <1>5, <1>6, <1>7

(* ReusePictureBuffer: the plugin gives back one it has. *)
LEMMA ReusePictureInv ==
  ASSUME DecoderInv, NEW p \in Pictures, ppb_video_decoder_reuse_picture_buffer(p)
  PROVE  DecoderInv'
<1>. USE DEF DecoderInv, FramesGoRound
<1>1. /\ shown[p] = 1 /\ pictures[p] = "used"
      /\ UNCHANGED <<vd, used, codecRefs, avframe, surfaceSets, decode>>
  BY DEF ppb_video_decoder_reuse_picture_buffer, PicturesAreReturned
<1>2. /\ \A q \in Pictures : pictures'[q] = IF q = p THEN "free" ELSE pictures[q]
      /\ \A q \in Pictures : shown'[q] = IF q = p THEN 0 ELSE shown[q]
      /\ pictures' \in [Pictures -> {"none", "free", "used"}]
      /\ shown' \in [Pictures -> 0 .. 2]
      /\ bound' = bound \ {p}
  BY <1>1 DEF ppb_video_decoder_reuse_picture_buffer, DecoderTypeOK
<1>3. DecoderTypeOK'
  BY <1>1, <1>2 DEF DecoderTypeOK
<1>4. PicturesAreReturned'
  <2>1. \A q \in Pictures : shown'[q] = IF pictures'[q] = "used" THEN 1 ELSE 0
    BY <1>2 DEF PicturesAreReturned
  <2>2. bound' = {q \in Pictures : shown'[q] > 0}
    BY <1>2 DEF PicturesAreReturned
  <2>. QED
    BY <2>1, <2>2 DEF PicturesAreReturned
<1>5. AskedForPictures'
  BY <1>1, <1>2 DEF AskedForPictures
<1>6. OneSurfaceSet' /\ SurfacesAreReturned'
  BY <1>1 DEF OneSurfaceSet, SurfacesAreReturned
<1>. QED
  BY <1>3, <1>4, <1>5, <1>6

LEMMA DecoderNextInv ==
  ASSUME ChangesSize = FALSE, DecoderInv, [DecoderNext]_decoderVars
  PROVE  DecoderInv'
<1>1. CASE UNCHANGED decoderVars
  BY <1>1 DEF decoderVars, DecoderInv, FramesGoRound, DecoderTypeOK, PicturesAreReturned,
              SurfacesAreReturned, AskedForPictures, OneSurfaceSet
<1>2. CASE PPB_VideoDecoder
  <2>1. CASE ppb_video_decoder_reset
    BY <2>1, DeinitializeInv DEF ppb_video_decoder_reset
  <2>. QED
    BY <1>2, <2>1, DecoderCreateInv, DecodeInv, AssignInv, ReusePictureInv, CodecStepsInv
       DEF PPB_VideoDecoder
<1>3. CASE ppb_video_decoder_destroy_priv
  BY <1>3, DeinitializeInv DEF ppb_video_decoder_destroy_priv
<1>4. CASE decode_frame
  BY <1>4, FormatInv, CodecStepsInv, RequestInv, IssueInv DEF decode_frame
<1>5. CASE DecodeReturns
  BY <1>5, CodecStepsInv
<1>. QED
  BY <1>1, <1>2, <1>3, <1>4, <1>5 DEF DecoderNext

(***************************************************************************)
(* The plugin shows exactly the picture buffers that are marked used, a    *)
(* surface is marked exactly while libavcodec refers to it, and a decoder  *)
(* without a codec that has not failed holds no surfaces.  Assumed of      *)
(* libavcodec: it asks for a format once per codec (a second one makes a   *)
(* second set of surfaces, and only one is destroyed).                     *)
(***************************************************************************)
THEOREM FramesGoRoundCorrect ==
  ASSUME ChangesSize = FALSE PROVE DecoderSpec => []FramesGoRound
<1>1. DecoderInv => FramesGoRound
  BY DEF DecoderInv
<1>2. DecoderInv /\ [DecoderNext]_decoderVars => DecoderInv'
  BY DecoderNextInv
<1>. QED
  BY <1>1, <1>2, DecoderInitInv, PTL DEF DecoderSpec
=============================================================================
