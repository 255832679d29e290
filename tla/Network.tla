------------------------------- MODULE Network -------------------------------
(***************************************************************************)
(* TCP and UDP sockets and the host resolver: src/async_network.c with     *)
(* its callers src/ppb_tcp_socket.c, src/ppb_udp_socket.c and              *)
(* src/ppb_host_resolver.c.                                                *)
(*                                                                         *)
(* A call of the plugin makes a task and runs its first stage on the       *)
(* plugin's thread; the later stages are callbacks of libevent and evdns   *)
(* on the network thread.  The two meet at tasks_ht, the table of tasks    *)
(* that have an event: Disconnect aborts the tasks of its socket that it   *)
(* finds there and then closes the descriptor.                             *)
(*                                                                         *)
(* A handler of the network thread holds the socket's resource or touches  *)
(* only its own task, so it is one step; handle_disconnect_stage2 closes   *)
(* the descriptor after it has left its lock, which is a second step.  A   *)
(* first stage enters its task in the table and then adds the event, which *)
(* are two steps of the plugin's thread.                                   *)
(*                                                                         *)
(* A task stands for the memory of one call; the model never reuses a      *)
(* task's address, so use of freed memory shows as use of a freed task.    *)
(* Descriptors are reused, lowest first, as the kernel does.               *)
(***************************************************************************)
EXTENDS Naturals, FiniteSets, FiniteSetsExt

CONSTANTS
  TCP, UDP, Resolvers,  \* resource ids, by type
  MaxSock,              \* bound: descriptors
  MaxTasks,             \* bound: calls that make a task
  MaxAddrs,             \* bound: addresses of a name
  UsesClosed,           \* the plugin calls functions of sockets it has closed
  ClosesInLookup        \* the plugin closes sockets while Connect looks up a name

Sockets == TCP \cup UDP
Resources == Sockets \cup Resolvers
Socks == 1 .. MaxSock
Tasks == 1 .. MaxTasks
NoSock == 0
NoTask == 0
Nobody == "nobody"
Types == {"connect", "read", "write", "recv", "send", "resolve", "disconnect"}

ASSUME ResourcesAssumption ==
  /\ TCP \cap UDP = {} /\ Sockets \cap Resolvers = {}
  /\ Nobody \notin Resources /\ Resources # {}
ASSUME NetworkBoundsAssumption ==
  /\ MaxSock \in Nat /\ MaxTasks \in Nat /\ MaxAddrs \in Nat \ {0}
  /\ {UsesClosed, ClosesInLookup} \subseteq BOOLEAN

VARIABLES
  res,     \* struct pp_tcp_socket_s, pp_udp_socket_s or pp_host_resolver_s of an id
  owner,   \* the socket an open descriptor belongs to
  task,    \* struct async_network_task_s
  posts,   \* how often the callback of each task was posted to the plugin's loop
  adding,  \* the task whose event the plugin's thread is about to add
  closing  \* the disconnect task whose descriptor the network thread is about to close

vars == <<res, owner, task, posts, adding, closing>>

\* at: "memory" (handed to nobody yet or by then), "dns" (evdns has it), "table"
\* (in tasks_ht), "armed" (in tasks_ht, event added), "fired" (in tasks_ht, event ran).
TaskType ==
  [mem : {"unused", "live", "freed"}, type : Types, resource : Resources,
   sock : Socks \cup {NoSock}, at : {"memory", "dns", "table", "armed", "fired"},
   left : 0 .. MaxAddrs]

ResourceType ==
  [state : {"unused", "alive", "gone"}, sock : Socks \cup {NoSock},
   is_connected : BOOLEAN, seen_eof : BOOLEAN, destroyed : BOOLEAN]

TypeOK ==
  /\ res \in [Resources -> ResourceType]
  /\ owner \in [Socks -> Sockets \cup {Nobody}]
  /\ task \in [Tasks -> TaskType]
  /\ posts \in [Tasks -> 0 .. 1]
  /\ {adding, closing} \subseteq Tasks \cup {NoTask}

Init ==
  /\ res = [r \in Resources |-> [state |-> "unused", sock |-> NoSock, is_connected |-> FALSE,
                                 seen_eof |-> FALSE, destroyed |-> FALSE]]
  /\ owner = [s \in Socks |-> Nobody]
  /\ task \in [Tasks -> [mem : {"unused"}, type : {"connect"},
                         resource : {CHOOSE r \in Resources : TRUE},
                         sock : {NoSock}, at : {"memory"}, left : {0}]]
  /\ posts = [t \in Tasks |-> 0]
  /\ adding = NoTask
  /\ closing = NoTask

-----------------------------------------------------------------------------
(* Tasks *)

Alive(r) == res[r].state = "alive"
Live(t) == task[t].mem = "live"
InTable(t) == Live(t) /\ task[t].at \in {"table", "armed", "fired"}
Looking(t) == Live(t) /\ task[t].at = "dns"
Armed(t, type) == Live(t) /\ task[t].at = "armed" /\ task[t].type = type
Unused == {t \in Tasks : task[t].mem = "unused"}
NewTask == Min(Unused)

Created(type, r, sock) ==
  [mem |-> "live", type |-> type, resource |-> r, sock |-> sock, at |-> "memory", left |-> 0]

\* tk with the tasks ts destroyed.
Destroyed(tk, ts) ==
  [t \in Tasks |->
     IF t \in ts THEN [tk[t] EXCEPT !.mem = "freed", !.at = "memory", !.sock = NoSock, !.left = 0]
                 ELSE tk[t]]

ppb_message_loop_post_work_with_result(ts) ==
  posts' = [t \in Tasks |-> IF t \in ts THEN posts[t] + 1 ELSE posts[t]]

\* The task ends, with its callback posted or without a word.
Finish(tk, t) == task' = Destroyed(tk, {t}) /\ ppb_message_loop_post_work_with_result({t})
Drop(t) == task' = Destroyed(task, {t}) /\ UNCHANGED posts

\* The task waits: in evdns, in the table, or in the table with its event added.
Wait(tk, t, at) == task' = [tk EXCEPT ![t].at = at] /\ UNCHANGED posts

\* The plugin's thread has entered a task in the table: its event is next.
ThenAddEvent(t) == adding' = IF task'[t].at = "table" THEN t ELSE NoTask

\* Mutant: the event is made and entered in the table, and not added.
Stage3WithoutEventAdd(tk, t, at) ==
  \/ Finish(tk, t)
  \/ owner[tk[t].sock] # Nobody /\ Wait(tk, t, "table")

\* connect() to the next address; the socket must be open for it to be in progress.
handle_tcp_connect_stage3(tk, t, at) ==
  \/ Finish(tk, t)
  \/ owner[tk[t].sock] # Nobody /\ Wait(tk, t, at)

\* The answer of evdns to a Connect, or an address that needs no look-up.
handle_tcp_connect_stage2(tk, t, count, at) ==
  IF count = 0
  THEN Finish(tk, t)
  ELSE handle_tcp_connect_stage3([tk EXCEPT ![t].left = count - 1], t, at)

-----------------------------------------------------------------------------
(* Calls of the plugin *)

\* Whether the plugin makes calls on r.
Usable(r) == Alive(r) /\ (UsesClosed \/ ~res[r].destroyed)

MayCall(r) == adding = NoTask /\ Unused # {} /\ Usable(r)

\* The tasks with a new one for a call on r.
WithTask(type, r) == [task EXCEPT ![NewTask] = Created(type, r, res[r].sock)]

\* What is common to the calls that push the new task, after its first stage.
async_network_task_push == ThenAddEvent(NewTask) /\ UNCHANGED <<res, owner, closing>>

Create(r) ==
  /\ adding = NoTask
  /\ res[r].state = "unused"
  /\ IF r \in Resolvers
     THEN res' = [res EXCEPT ![r].state = "alive"] /\ UNCHANGED owner
     ELSE LET free == {s \in Socks : owner[s] = Nobody} IN
          /\ free # {}
          /\ res' = [res EXCEPT ![r].state = "alive", ![r].sock = Min(free)]
          /\ owner' = [owner EXCEPT ![Min(free)] = r]
  /\ UNCHANGED <<task, posts, adding, closing>>

\* A numeric host and the variant with a PP_NetAddress_Private connect at once (or
\* refuse the address); a name goes to evdns, which may refuse it at once.
handle_tcp_connect_stage1(tk, t) ==
  \/ Finish(tk, t)
  \/ Wait(tk, t, "dns")
  \/ handle_tcp_connect_stage2(tk, t, 1, "table")

Connect(r) ==
  /\ MayCall(r)
  /\ handle_tcp_connect_stage1(WithTask("connect", r), NewTask)
  /\ async_network_task_push

\* Read, Write and RecvFrom make an event for the socket and enter it in the table.
stage1(tk, t) == Wait(tk, t, "table")

Read(r) ==
  /\ MayCall(r) /\ res[r].is_connected /\ ~res[r].seen_eof
  /\ stage1(WithTask("read", r), NewTask)
  /\ async_network_task_push

Write(r) ==
  /\ MayCall(r) /\ res[r].is_connected
  /\ stage1(WithTask("write", r), NewTask)
  /\ async_network_task_push

RecvFrom(r) ==
  /\ MayCall(r)
  /\ stage1(WithTask("recv", r), NewTask)
  /\ async_network_task_push

\* The datagram may go out at once; otherwise the task waits for the socket.
handle_udp_send_stage1(tk, t) ==
  \/ owner[tk[t].sock] # Nobody /\ Finish(tk, t)
  \/ Wait(tk, t, "table")

SendTo(r) ==
  /\ MayCall(r)
  /\ handle_udp_send_stage1(WithTask("send", r), NewTask)
  /\ async_network_task_push

handle_host_resolve_stage1(tk, t) ==
  \/ Finish(tk, t)
  \/ Wait(tk, t, "dns")

Resolve(r) ==
  /\ MayCall(r)
  /\ handle_host_resolve_stage1(WithTask("resolve", r), NewTask)
  /\ async_network_task_push

\* Mutant: the destructor forgets that Disconnect has run it already.
DestroyTwice(r, s) ==
  IF r \in Resolvers
  THEN res' = [res EXCEPT ![r] = s] /\ UNCHANGED <<task, posts, adding>>
  ELSE /\ Unused # {}
       /\ res' = [res EXCEPT ![r] = [s EXCEPT !.destroyed = TRUE, !.is_connected = FALSE]]
       /\ LET t == NewTask IN
            /\ Wait([task EXCEPT ![t] = Created("disconnect", r, s.sock)], t, "table")
            /\ adding' = t

\* The destructor of a socket, which Disconnect and Close call too: r becomes s and
\* one task to close the descriptor is pushed.
Destroy(r, s) ==
  IF s.destroyed \/ r \in Resolvers
  THEN res' = [res EXCEPT ![r] = s] /\ UNCHANGED <<task, posts, adding>>
  ELSE /\ Unused # {}
       /\ res' = [res EXCEPT ![r] = [s EXCEPT !.destroyed = TRUE, !.is_connected = FALSE]]
       /\ LET t == NewTask IN
            /\ Wait([task EXCEPT ![t] = Created("disconnect", r, s.sock)], t, "table")
            /\ adding' = t

MayClose(r) ==
  ClosesInLookup \/ \A t \in Tasks : ~(Looking(t) /\ task[t].resource = r /\ r \in Sockets)

Disconnect(r) ==
  /\ adding = NoTask
  /\ Usable(r) /\ ~res[r].destroyed /\ MayClose(r)
  /\ Destroy(r, res[r])
  /\ UNCHANGED <<owner, closing>>

\* The plugin drops its last reference: the id is gone, the destructor runs.
Unref(r) ==
  /\ adding = NoTask
  /\ Alive(r) /\ MayClose(r)
  /\ Destroy(r, [res[r] EXCEPT !.state = "gone"])
  /\ UNCHANGED <<owner, closing>>

event_add ==
  /\ adding # NoTask
  /\ task' = [task EXCEPT ![adding].at = "armed"]
  /\ adding' = NoTask
  /\ UNCHANGED <<res, owner, posts, closing>>

-----------------------------------------------------------------------------
(* The network thread *)

NetworkStep == closing = NoTask /\ UNCHANGED <<owner, adding, closing>>

\* evdns answers a Connect with count addresses, 0 for an error or a timeout.
ConnectLookup(t) ==
  /\ NetworkStep
  /\ Looking(t) /\ task[t].type = "connect"
  /\ \E count \in 0 .. MaxAddrs : handle_tcp_connect_stage2(task, t, count, "armed")
  /\ UNCHANGED res

handle_host_resolve_stage2(t) ==
  /\ NetworkStep
  /\ Looking(t) /\ task[t].type = "resolve"
  /\ LET r == task[t].resource IN
       Finish(task, t) \/ (~Alive(r) /\ Drop(t))
  /\ UNCHANGED res

\* Mutant: nobody is told when the addresses run out.
SilentFailure(t) ==
  \/ /\ task[t].left > 0
     /\ handle_tcp_connect_stage3([task EXCEPT ![t].left = @ - 1], t, "armed")
  \/ task[t].left = 0 /\ Drop(t)

\* The next address, or an error when there is none left.
NextAddress(t) ==
  \/ /\ task[t].left > 0
     /\ handle_tcp_connect_stage3([task EXCEPT ![t].left = @ - 1], t, "armed")
  \/ task[t].left = 0 /\ Finish(task, t)

\* The socket is writable or the connect timeout has passed.  up is what the timeout
\* and getpeername(ts->sock) say; only the owner's open socket has a peer.
handle_tcp_connect_stage4(t) ==
  /\ NetworkStep
  /\ Armed(t, "connect")
  /\ LET r == task[t].resource IN
       \/ ~Alive(r) /\ Drop(t) /\ UNCHANGED res
       \/ /\ Alive(r)
          /\ \E up \in IF owner[res[r].sock] = Nobody THEN {FALSE} ELSE BOOLEAN :
               /\ res' = [res EXCEPT ![r].is_connected = up]
               /\ IF up THEN Finish(task, t) ELSE NextAddress(t)

\* The kernel reports only open descriptors to libevent.
Ready(t, type) == Armed(t, type) /\ owner[task[t].sock] # Nobody

handle_tcp_read_stage2(t) ==
  /\ NetworkStep
  /\ Ready(t, "read")
  /\ Finish(task, t)
  /\ \E r \in {task[t].resource}, eof \in BOOLEAN :
       res' = IF eof /\ Alive(r) THEN [res EXCEPT ![r].seen_eof = TRUE] ELSE res

handle_tcp_write_stage2(t) ==
  NetworkStep /\ Ready(t, "write") /\ Finish(task, t) /\ UNCHANGED res

\* A zero-length datagram also sets seen_eof, which nothing reads on a UDP socket.
handle_udp_recv_stage2(t) ==
  /\ NetworkStep
  /\ Ready(t, "recv")
  /\ IF Alive(task[t].resource) THEN Finish(task, t) ELSE Drop(t)
  /\ UNCHANGED res

handle_udp_send_stage2(t) ==
  NetworkStep /\ Ready(t, "send") /\ Finish(task, t) /\ UNCHANGED res

\* Mutants of the loop over the table: the current task is not skipped; the loop ends
\* after the first task.
PendingWithItself(t) == {u \in Tasks : InTable(u) /\ task[u].resource = task[t].resource}
FirstPending(t) ==
  LET pending == PendingWithItself(t) \ {t} IN IF pending = {} THEN {} ELSE {Min(pending)}

\* The tasks of the socket of the disconnect task t, without t.
Pending(t) == {u \in Tasks \ {t} : InTable(u) /\ task[u].resource = task[t].resource}

\* Mutant: the loop tells the tasks and leaves them where they are.
AbortKeepsTasks(t) ==
  /\ closing = NoTask
  /\ Armed(t, "disconnect")
  /\ task' = [task EXCEPT ![t].at = "fired"]
  /\ ppb_message_loop_post_work_with_result(Pending(t))
  /\ closing' = t
  /\ UNCHANGED <<res, owner, adding>>

handle_disconnect_stage2(t) ==
  /\ closing = NoTask
  /\ Armed(t, "disconnect")
  /\ task' = [Destroyed(task, Pending(t)) EXCEPT ![t].at = "fired"]
  /\ ppb_message_loop_post_work_with_result(Pending(t))
  /\ closing' = t
  /\ UNCHANGED <<res, owner, adding>>

DisconnectClose ==
  /\ closing # NoTask
  /\ owner' = [owner EXCEPT ![task[closing].sock] = Nobody]
  /\ Drop(closing)
  /\ closing' = NoTask
  /\ UNCHANGED <<res, adding>>

-----------------------------------------------------------------------------

PluginCall ==
  \/ \E r \in Resources : Create(r) \/ Unref(r)
  \/ \E r \in TCP : Connect(r) \/ Read(r) \/ Write(r) \/ Disconnect(r)
  \/ \E r \in UDP : RecvFrom(r) \/ SendTo(r) \/ Disconnect(r)
  \/ \E r \in Resolvers : Resolve(r)

\* What the network thread does with t whatever the peer does: evdns and connect()
\* have timeouts, the timer of a disconnect is zero.
Timed(t) ==
  \/ ConnectLookup(t) \/ handle_host_resolve_stage2(t)
  \/ handle_tcp_connect_stage4(t)
  \/ handle_disconnect_stage2(t)

\* What needs the peer or the network to move.
Untimed(t) ==
  \/ handle_tcp_read_stage2(t) \/ handle_tcp_write_stage2(t)
  \/ handle_udp_recv_stage2(t) \/ handle_udp_send_stage2(t)

Next ==
  \/ PluginCall
  \/ event_add
  \/ DisconnectClose
  \/ \E t \in Tasks : Timed(t) \/ Untimed(t)

Spec == Init /\ [][Next]_vars

\* The plugin's thread finishes the call it is in; the network thread runs the events
\* that are due.
FairSpec ==
  /\ Spec
  /\ WF_vars(event_add)
  /\ WF_vars(DisconnectClose)
  /\ \A t \in Tasks : WF_vars(Timed(t))

-----------------------------------------------------------------------------
(* Properties *)

\* Disconnect frees tasks of a socket while the plugin's thread may be between
\* entering one in the table and adding its event, and the close follows outside the
\* lock: neither thread ever goes on with a task that is freed.
NoFreedTaskIsUsed == \A t \in {adding, closing} \ {NoTask} : Live(t)

\* A task that is still to touch a descriptor (connect, recv, send, close) holds the
\* one of its own socket: never one that was closed, or closed and reused by the next
\* socket, since Disconnect aborts the tasks first and closes after that.
TasksHaveTheirSocket ==
  \A t \in Tasks :
    Live(t) /\ task[t].type # "resolve" => owner[task[t].sock] = task[t].resource

\* Every accepted call is answered exactly once, at the end of its task: by a stage, by
\* a failed one, or with PP_ERROR_ABORTED by Disconnect.  Only a call whose resource
\* the plugin has let go may end without an answer.
AnsweredOnce ==
  \A t \in Tasks :
    /\ Live(t) => posts[t] = 0
    /\ task[t].mem = "freed" =>
         IF task[t].type = "disconnect" THEN posts[t] = 0
         ELSE posts[t] = 1 \/ (posts[t] = 0 /\ res[task[t].resource].state = "gone")

\* No descriptor is leaked: an open one belongs to a socket the plugin can still close,
\* or exactly one disconnect task is on its way to close it.
OpenSocketsAreClosable ==
  \A s \in Socks : owner[s] # Nobody =>
    LET r == res[owner[s]]
        closers == {t \in Tasks : Live(t) /\ task[t].type = "disconnect" /\ task[t].sock = s}
    IN  /\ r.sock = s
        /\ Cardinality(closers) = IF r.destroyed THEN 1 ELSE 0
        /\ r.state = "alive" \/ r.destroyed

\* Nothing waits for ever on a closed socket, and a Connect or Resolve ends whatever
\* the network does: by an answer, by trying every address, or by the timeouts.
EveryTaskEnds ==
  \A t \in Tasks :
    (/\ Live(t)
     /\ \/ task[t].type \in {"connect", "resolve", "disconnect"}
        \/ res[task[t].resource].destroyed) ~> ~Live(t)

\* Both: tasks outlive what still uses them, and descriptors the tasks that use them.
TasksAreSafe == TypeOK /\ NoFreedTaskIsUsed /\ TasksHaveTheirSocket

=============================================================================
