-------------------------- MODULE URLLoader_proofs ---------------------------
(***************************************************************************)
(* The URL loader, for any number of streams, calls and units of data: the *)
(* body is read in order, and no callback is lost or called twice.         *)
(***************************************************************************)
EXTENDS URLLoader, SequenceTheorems, FiniteSetTheorems, TLAPS

-----------------------------------------------------------------------------
(* Where callbacks are *)

OnLoop(i) == \E j \in DOMAIN loop : loop[j].op = i
OkOnLoop(i) == \E j \in DOMAIN loop : loop[j].op = i /\ loop[j].ok
OnceOnLoop == \A j, k \in DOMAIN loop : loop[j].op = loop[k].op => j = k
InOrder == \A j, k \in DOMAIN ul.read_tasks : j < k => ul.read_tasks[j] < ul.read_tasks[k]

Somewhere(i) == ul.ccb = i \/ bh.ccb = i \/ Waiting(i) \/ OnLoop(i) \/ op[i].called > 0

(* The places a callback can be in exclude each other. *)
OnePlace ==
  /\ \A i \in Ops :
       /\ ul.ccb = i => bh.ccb # i /\ ~Waiting(i) /\ ~OnLoop(i) /\ op[i].called = 0
       /\ bh.ccb = i => ~Waiting(i) /\ ~OnLoop(i) /\ op[i].called = 0
       /\ Waiting(i) => ~OnLoop(i) /\ op[i].called = 0
       /\ OnLoop(i) => op[i].called = 0
       /\ op[i].called <= 1
  /\ OnceOnLoop

(* Calls are numbered in the order in which they are made, and each kind   *)
(* of call leaves its callback where that kind belongs.                    *)
Calls ==
  \A i \in Ops :
    /\ op[i].state = "unused" => op[i].kind = "none" /\ op[i].n = 0 /\ ~Somewhere(i)
    /\ op[i].kind = "none" => op[i].state = "unused"
    /\ (op[i].state = "begun" <=> pc = i)
    /\ op[i].state = "begun" => op[i].kind = "open"
    /\ ul.ccb = i => op[i].kind = "open" /\ \A j \in Ops : op[j].kind = "open" => j <= i
    /\ bh.ccb = i => op[i].kind = "open"
    /\ Waiting(i) => op[i].kind = "read" /\ op[i].state = "pending" /\ op[i].n = 0
    /\ (op[i].kind = "finish" <=> ul.stream_to_file_ccb = i)
    /\ op[i].called = 0 => ~op[i].ok
    /\ \A j \in Ops : j < i /\ op[j].state = "unused" => op[i].state = "unused"
    /\ ul.open = "no" => op[i].state = "unused"

NotLost ==
  \A i \in Ops :
    ul.alive /\ op[i].kind \in {"open", "read"} /\ op[i].state \in {"begun", "pending"}
    => Somewhere(i)

-----------------------------------------------------------------------------
(* Streams of a live loader *)

Feeds(k) == stream[k].state = "open" /\ stream[k].pdata
IsRequested(k) == stream[k].state = "requested"

(* The last call that asked for a stream has not been told of one. *)
Unanswered ==
  \A i \in Ops :
    op[i].kind = "open" /\ (\A j \in Ops : op[j].kind = "open" => j <= i)
    => ~op[i].ok /\ ~OkOnLoop(i)

(* A live loader has at most one stream that is asked for or feeds it, and *)
(* the handler of the browser thread works for that one.                   *)
OneStream ==
  /\ \A k \in Streams : IsRequested(k) =>
       /\ pc = NoOp /\ bh.at = "idle"
       /\ \A j \in Streams : (IsRequested(j) => j = k) /\ ~Feeds(j)
  /\ \A k \in Streams : Feeds(k) =>
       ul.np_stream = k /\ pc = NoOp /\ bh.at \in {"idle", "follow", "write"}
  /\ bh.at \in {"follow", "request"} => ul.ccb = NoOp /\ ul.follow_redirects /\ pc = NoOp
  /\ bh.at = "drain" => ~ul.redirect_url
  /\ ul.open = "no" => bh.at = "idle" /\ \A k \in Streams : ~IsRequested(k) /\ ~Feeds(k)
  /\ ~ul.follow_redirects /\ (pc # NoOp \/ \E k \in Streams : IsRequested(k)) => Unanswered

Handler ==
  /\ bh.at \notin {"follow", "request"} => bh.ccb = NoOp
  /\ bh.at # "idle" => bh.of \in Streams
  /\ bh.at = "write" => stream[bh.of].sent < MaxBytes

(* Nothing can finish the loader any more. *)
Quiet ==
  /\ ~ul.redirect_url
  /\ bh.at \in {"idle", "write"}
  /\ \A k \in Streams : ~IsRequested(k) /\ ~Feeds(k)

(* NPP_DestroyStream never clears stream_to_file_ccb; it is posted once    *)
(* because no second stream can end after the one that posted it.          *)
FinishOnce ==
  \A f \in Ops : ul.stream_to_file_ccb = f =>
    /\ pc = NoOp
    /\ ~ul.follow_redirects => ~ul.redirect_url /\ \A k \in Streams : ~IsRequested(k)
    /\ OnLoop(f) \/ op[f].called > 0 => Quiet

-----------------------------------------------------------------------------
(* Reads *)

(* Reads wait in the order of their calls, and all that came after a       *)
(* waiting one wait; those that were served end where the next begins.     *)
Reads ==
  /\ InOrder
  /\ \A i, j \in Ops : Waiting(i) /\ i < j /\ op[j].kind = "read" => Waiting(j)
  /\ \A i \in Ops : Served(i) =>
       /\ op[i].gen <= ul.gen
       /\ op[i].gen = ul.gen => op[i].from + op[i].n <= ul.read_pos
       /\ \A j \in Ops : j < i /\ Served(j) /\ op[j].gen = op[i].gen
                         => op[j].from + op[j].n <= op[i].from
       /\ \/ op[i].from = 0
          \/ \E j \in Ops : /\ j < i /\ Served(j) /\ op[j].gen = op[i].gen
                            /\ op[j].from + op[j].n = op[i].from
  /\ \/ ul.read_pos = 0
     \/ \E j \in Ops : Served(j) /\ op[j].gen = ul.gen /\ op[j].from + op[j].n = ul.read_pos

Drained == ul.alive /\ ul.finished_loading /\ bh.at # "drain" => ul.read_tasks = <<>>

Live == ul.alive => OneStream /\ FinishOnce

LoaderInv ==
  TypeOK /\ OnePlace /\ Calls /\ NotLost /\ Handler /\ Live /\ Reads /\ Drained

-----------------------------------------------------------------------------
(* Sequences *)

LEMMA AppendFacts ==
  ASSUME NEW S, NEW s \in Seq(S), NEW e \in S
  PROVE  /\ Append(s, e) \in Seq(S)
         /\ DOMAIN Append(s, e) = DOMAIN s \cup {Len(s) + 1}
         /\ Len(s) + 1 \notin DOMAIN s
         /\ \A j \in DOMAIN s : j \in Nat /\ j < Len(s) + 1 /\ Append(s, e)[j] = s[j]
         /\ Append(s, e)[Len(s) + 1] = e
         /\ Append(s, e) # << >>
BY AppendProperties, LenProperties

LEMMA TailFacts ==
  ASSUME NEW S, NEW s \in Seq(S), s # << >>
  PROVE  /\ Tail(s) \in Seq(S)
         /\ Head(s) \in S
         /\ 1 \in DOMAIN s
         /\ Head(s) = s[1]
         /\ \A j \in DOMAIN Tail(s) : j \in Nat /\ j + 1 \in DOMAIN s /\ Tail(s)[j] = s[j + 1]
         /\ \A j \in DOMAIN s : j \in Nat /\ (j = 1 \/ (j > 1 /\ j - 1 \in DOMAIN Tail(s)))
<1>1. Len(s) \in Nat /\ DOMAIN s = 1 .. Len(s) /\ Len(s) > 0
  BY LenProperties, EmptySeq
<1>2. /\ Tail(s) \in Seq(S) /\ Head(s) \in S /\ Len(Tail(s)) = Len(s) - 1
      /\ \A j \in 1 .. Len(s) - 1 : Tail(s)[j] = s[j + 1]
  BY <1>1, HeadTailProperties
<1>3. DOMAIN Tail(s) = 1 .. Len(s) - 1
  BY <1>1, <1>2, LenProperties
<1>4. Head(s) = s[1]
  OBVIOUS
<1>. QED
  BY <1>1, <1>2, <1>3, <1>4

Tasks == [op : Ops, ok : BOOLEAN, wrapped : BOOLEAN]

(* A task is posted. *)
LEMMA PostedEffect ==
  ASSUME loop \in Seq(Tasks), NEW i \in Ops, NEW ok \in BOOLEAN, NEW w \in BOOLEAN,
         loop' = Append(loop, Task(i, ok, w))
  PROVE  /\ loop' \in Seq(Tasks)
         /\ \A j \in Ops : (OnLoop(j)' <=> OnLoop(j) \/ j = i)
         /\ \A j \in Ops : (OkOnLoop(j)' <=> OkOnLoop(j) \/ (j = i /\ ok))
         /\ OnceOnLoop /\ ~OnLoop(i) => OnceOnLoop'
<1>1. Task(i, ok, w) \in Tasks /\ Task(i, ok, w).op = i /\ Task(i, ok, w).ok = ok
  BY DEF Task, Tasks
<1>. PICK t \in Tasks : t = Task(i, ok, w) /\ t.op = i /\ t.ok = ok
  BY <1>1
<1>2. /\ loop' \in Seq(Tasks)
      /\ DOMAIN loop' = DOMAIN loop \cup {Len(loop) + 1}
      /\ Len(loop) + 1 \notin DOMAIN loop
      /\ \A j \in DOMAIN loop : loop'[j] = loop[j]
      /\ loop'[Len(loop) + 1] = t
  BY AppendFacts
<1>3. \A j \in Ops : (OnLoop(j)' <=> OnLoop(j) \/ j = i)
  BY <1>2 DEF OnLoop
<1>4. \A j \in Ops : (OkOnLoop(j)' <=> OkOnLoop(j) \/ (j = i /\ ok))
  BY <1>2 DEF OkOnLoop
<1>5. OnceOnLoop /\ ~OnLoop(i) => OnceOnLoop'
  BY <1>2 DEF OnceOnLoop, OnLoop
<1>. QED
  BY <1>2, <1>3, <1>4, <1>5

(* The first task is taken. *)
LEMMA TakenEffect ==
  ASSUME loop \in Seq(Tasks), loop # << >>, OnceOnLoop, loop' = Tail(loop)
  PROVE  /\ loop' \in Seq(Tasks)
         /\ Head(loop) \in Tasks
         /\ OnLoop(Head(loop).op)
         /\ Head(loop).ok => OkOnLoop(Head(loop).op)
         /\ \A j \in Ops : (OnLoop(j)' <=> OnLoop(j) /\ j # Head(loop).op)
         /\ \A j \in Ops : OkOnLoop(j)' => OkOnLoop(j)
         /\ OnceOnLoop'
<1>1. /\ loop' \in Seq(Tasks)
      /\ Head(loop) \in Tasks
      /\ 1 \in DOMAIN loop
      /\ Head(loop) = loop[1]
      /\ \A j \in DOMAIN loop' : j \in Nat /\ j + 1 \in DOMAIN loop /\ loop'[j] = loop[j + 1]
      /\ \A j \in DOMAIN loop : j \in Nat /\ (j = 1 \/ (j > 1 /\ j - 1 \in DOMAIN loop'))
  BY TailFacts
<1>2. OnLoop(Head(loop).op) /\ (Head(loop).ok => OkOnLoop(Head(loop).op))
  BY <1>1 DEF OnLoop, OkOnLoop
<1>3. ASSUME NEW j \in Ops PROVE OnLoop(j)' <=> OnLoop(j) /\ j # Head(loop).op
  <2>1. ASSUME OnLoop(j)' PROVE OnLoop(j) /\ j # Head(loop).op
    <3>1. PICK k \in DOMAIN loop' : loop'[k].op = j
      BY <2>1 DEF OnLoop
    <3>2. k \in Nat /\ k + 1 \in DOMAIN loop /\ loop[k + 1].op = j /\ k + 1 # 1
      <4>1. k # 0
        BY <1>1, LenProperties
      <4>. QED
        BY <3>1, <4>1, <1>1
    <3>. QED
      BY <3>2, <1>1 DEF OnLoop, OnceOnLoop
  <2>2. ASSUME OnLoop(j), j # Head(loop).op PROVE OnLoop(j)'
    <3>1. PICK k \in DOMAIN loop : loop[k].op = j
      BY <2>2 DEF OnLoop
    <3>2. k - 1 \in DOMAIN loop' /\ loop'[k - 1] = loop[k]
      BY <3>1, <2>2, <1>1
    <3>. QED
      BY <3>1, <3>2 DEF OnLoop
  <2>. QED
    BY <2>1, <2>2
<1>4. \A j \in Ops : OkOnLoop(j)' => OkOnLoop(j)
  BY <1>1 DEF OkOnLoop
<1>5. OnceOnLoop'
  <2>. SUFFICES ASSUME NEW j \in DOMAIN loop', NEW k \in DOMAIN loop', loop'[j].op = loop'[k].op
                PROVE  j = k
    BY DEF OnceOnLoop
  <2>1. j + 1 = k + 1
    BY <1>1 DEF OnceOnLoop
  <2>. QED
    BY <2>1, <1>1
<1>. QED
  BY <1>1, <1>2, <1>3, <1>4, <1>5

(* The callback i is posted, if there is one. *)
LEMMA PostEffect ==
  ASSUME loop \in Seq(Tasks), NEW i \in Ops \cup {NoOp}, NEW ok \in BOOLEAN, Post(i, ok)
  PROVE  /\ loop' \in Seq(Tasks)
         /\ \A j \in Ops : (OnLoop(j)' <=> OnLoop(j) \/ j = i)
         /\ \A j \in Ops : (OkOnLoop(j)' <=> OkOnLoop(j) \/ (j = i /\ ok))
         /\ OnceOnLoop /\ ~OnLoop(i) => OnceOnLoop'
<1>0. NoOp \notin Ops
  BY DEF NoOp, Ops
<1>1. CASE i = NoOp
  <2>1. loop' = loop
    BY <1>1 DEF Post
  <2>. QED
    BY <2>1, <1>1, <1>0 DEF OnLoop, OkOnLoop, OnceOnLoop
<1>2. CASE i # NoOp
  <2>1. i \in Ops /\ loop' = Append(loop, Task(i, ok, FALSE))
    BY <1>2 DEF Post
  <2>. QED
    BY <2>1, PostedEffect
<1>. QED
  BY <1>1, <1>2

LEMMA LoopSame ==
  ASSUME loop' = loop
  PROVE  /\ \A j \in Ops : (OnLoop(j)' <=> OnLoop(j))
         /\ \A j \in Ops : (OkOnLoop(j)' <=> OkOnLoop(j))
         /\ OnceOnLoop => OnceOnLoop'
BY DEF OnLoop, OkOnLoop, OnceOnLoop

LEMMA WaitingSame ==
  ASSUME ul'.read_tasks = ul.read_tasks
  PROVE  /\ \A j \in Ops : (Waiting(j)' <=> Waiting(j))
         /\ InOrder => InOrder'
BY DEF Waiting, InOrder

(* A read joins the list, after all that wait. *)
LEMMA QueuedEffect ==
  ASSUME ul.read_tasks \in Seq(Ops), NEW i \in Ops, ul'.read_tasks = Append(ul.read_tasks, i),
         \A j \in Ops : Waiting(j) => j < i
  PROVE  /\ \A j \in Ops : (Waiting(j)' <=> Waiting(j) \/ j = i)
         /\ InOrder => InOrder'
<1>. PICK s \in Seq(Ops) : s = ul.read_tasks
  OBVIOUS
<1>. PICK n : n = Len(s) + 1
  OBVIOUS
<1>1. /\ DOMAIN ul'.read_tasks = DOMAIN s \cup {n}
      /\ n \notin DOMAIN s
      /\ \A j \in DOMAIN s : j \in Nat /\ j < n /\ ul'.read_tasks[j] = s[j]
      /\ ul'.read_tasks[n] = i
  BY AppendFacts
<1>2. n \in Nat /\ \A j \in DOMAIN s : s[j] \in Ops
  BY LenProperties, ElementOfSeq
<1>3. \A j \in Ops : (Waiting(j)' <=> Waiting(j) \/ j = i)
  BY <1>1 DEF Waiting
<1>4. ASSUME InOrder PROVE InOrder'
  <2>. SUFFICES ASSUME NEW j \in DOMAIN ul'.read_tasks, NEW k \in DOMAIN ul'.read_tasks, j < k
                PROVE  ul'.read_tasks[j] < ul'.read_tasks[k]
    BY DEF InOrder
  <2>1. j \in DOMAIN s
    BY <1>1, <1>2
  <2>2. CASE k \in DOMAIN s
    BY <1>1, <1>4, <2>1, <2>2 DEF InOrder
  <2>3. CASE k = n
    BY <1>1, <1>2, <2>1, <2>3 DEF Waiting
  <2>. QED
    BY <1>1, <2>2, <2>3
<1>. QED
  BY <1>3, <1>4

(* The first waiting read leaves the list. *)
LEMMA DequeuedEffect ==
  ASSUME ul.read_tasks \in Seq(Ops), ul.read_tasks # << >>,
         ul'.read_tasks = Tail(ul.read_tasks), InOrder
  PROVE  /\ Head(ul.read_tasks) \in Ops
         /\ Waiting(Head(ul.read_tasks))
         /\ \A j \in Ops : Waiting(j) => Head(ul.read_tasks) <= j
         /\ \A j \in Ops : (Waiting(j)' <=> Waiting(j) /\ j # Head(ul.read_tasks))
         /\ InOrder'
<1>. PICK s \in Seq(Ops) : s = ul.read_tasks
  OBVIOUS
<1>1. /\ ul'.read_tasks \in Seq(Ops)
      /\ Head(s) \in Ops
      /\ 1 \in DOMAIN s
      /\ Head(s) = s[1]
      /\ \A j \in DOMAIN ul'.read_tasks :
           j \in Nat /\ j + 1 \in DOMAIN s /\ ul'.read_tasks[j] = s[j + 1]
      /\ \A j \in DOMAIN s : j \in Nat /\ (j = 1 \/ (j > 1 /\ j - 1 \in DOMAIN ul'.read_tasks))
  BY TailFacts
<1>2. \A j \in DOMAIN s : s[j] \in Ops
  BY LenProperties, ElementOfSeq
<1>3. \A j \in DOMAIN s : j # 1 => s[1] < s[j]
  BY <1>1 DEF InOrder
<1>4. Ops \subseteq Nat
  BY DEF Ops
<1>5. Waiting(Head(s)) /\ \A j \in Ops : Waiting(j) => Head(s) <= j
  <2>1. Waiting(Head(s))
    BY <1>1 DEF Waiting
  <2>2. ASSUME NEW j \in Ops, Waiting(j) PROVE Head(s) <= j
    <3>1. PICK k \in DOMAIN s : s[k] = j
      BY <2>2 DEF Waiting
    <3>2. s[1] = s[k] \/ s[1] < s[k]
      BY <1>3
    <3>3. Head(s) = s[1] /\ s[1] \in Nat /\ j \in Nat
      BY <1>1, <1>4
    <3>. QED
      BY ONLY <3>1, <3>2, <3>3, SMT
  <2>. QED
    BY <2>1, <2>2
<1>6. ASSUME NEW j \in Ops PROVE Waiting(j)' <=> Waiting(j) /\ j # Head(s)
  <2>1. ASSUME Waiting(j)' PROVE Waiting(j) /\ j # Head(s)
    <3>1. PICK k \in DOMAIN ul'.read_tasks : ul'.read_tasks[k] = j
      BY <2>1 DEF Waiting
    <3>2. k # 0
      BY <1>1, LenProperties
    <3>3. k \in Nat /\ k + 1 \in DOMAIN s /\ s[k + 1] = j /\ k + 1 # 1
      BY <3>1, <3>2, <1>1
    <3>4. s[1] < s[k + 1]
      BY <3>3, <1>3
    <3>5. j # Head(s)
      BY <3>3, <3>4, <1>1, <1>4
    <3>. QED
      BY <3>3, <3>5 DEF Waiting
  <2>2. ASSUME Waiting(j), j # Head(s) PROVE Waiting(j)'
    <3>1. PICK k \in DOMAIN s : s[k] = j
      BY <2>2 DEF Waiting
    <3>2. k \in Nat /\ k - 1 \in DOMAIN ul'.read_tasks
      BY <3>1, <2>2, <1>1
    <3>3. ul'.read_tasks[k - 1] = s[(k - 1) + 1]
      BY <3>2, <1>1
    <3>4. (k - 1) + 1 = k
      BY <3>2
    <3>. QED
      BY <3>1, <3>2, <3>3, <3>4 DEF Waiting
  <2>. QED
    BY <2>1, <2>2
<1>7. InOrder'
  <2>. SUFFICES ASSUME NEW j \in DOMAIN ul'.read_tasks, NEW k \in DOMAIN ul'.read_tasks, j < k
                PROVE  ul'.read_tasks[j] < ul'.read_tasks[k]
    BY DEF InOrder
  <2>1. j + 1 \in DOMAIN s /\ k + 1 \in DOMAIN s /\ j + 1 < k + 1
    BY <1>1
  <2>. QED
    BY <2>1, <1>1 DEF InOrder
<1>. QED
  BY <1>1, <1>5, <1>6, <1>7

-----------------------------------------------------------------------------
(* Records *)

OpRecs ==
  [kind : {"none", "open", "read", "finish"},
   state : {"unused", "begun", "pending", "returned"},
   called : Nat, ok : BOOLEAN, gen : Nat, from : Nat, n : Nat]
StreamRecs ==
  [state : {"unused", "requested", "open", "destroyed", "closed"},
   notify : BOOLEAN, pdata : BOOLEAN, redirect : BOOLEAN, sent : 0 .. MaxBytes]
Handlers ==
  [at : {"idle", "follow", "request", "write", "destroy", "drain"},
   of : Streams \cup {NoStream}, ccb : Ops \cup {NoOp}]

(* The loaders u and v differ in nothing but the fields named. *)
SameBut(u, v, fields) ==
  /\ "alive" \in fields \/ v.alive = u.alive
  /\ "open" \in fields \/ v.open = u.open
  /\ "file" \in fields \/ v.file = u.file
  /\ "read_pos" \in fields \/ v.read_pos = u.read_pos
  /\ "redirect_url" \in fields \/ v.redirect_url = u.redirect_url
  /\ "finished_loading" \in fields \/ v.finished_loading = u.finished_loading
  /\ "follow_redirects" \in fields \/ v.follow_redirects = u.follow_redirects
  /\ "stream_to_file" \in fields \/ v.stream_to_file = u.stream_to_file
  /\ "stream_to_file_ccb" \in fields \/ v.stream_to_file_ccb = u.stream_to_file_ccb
  /\ "ccb" \in fields \/ v.ccb = u.ccb
  /\ "np_stream" \in fields \/ v.np_stream = u.np_stream
  /\ "read_tasks" \in fields \/ v.read_tasks = u.read_tasks
  /\ "gen" \in fields \/ v.gen = u.gen

LEMMA TypeParts ==
  TypeOK <=> /\ ul \in Loader
             /\ ul.read_pos <= ul.file
             /\ content \in {"off", "free", "set", "used"}
             /\ stream \in [Streams -> StreamRecs]
             /\ op \in [Ops -> OpRecs]
             /\ loop \in Seq(Tasks)
             /\ pc \in Ops \cup {NoOp}
             /\ bh \in Handlers
BY DEF TypeOK, StreamRecs, OpRecs, Handlers, Tasks

LEMMA LoaderFields ==
  ASSUME NEW u \in Loader
  PROVE  /\ u.alive \in BOOLEAN /\ u.open \in {"no", "yes", "closed"}
         /\ u.file \in Nat /\ u.file <= MaxBytes /\ u.read_pos \in Nat
         /\ u.redirect_url \in BOOLEAN /\ u.finished_loading \in BOOLEAN
         /\ u.follow_redirects \in BOOLEAN /\ u.stream_to_file \in BOOLEAN
         /\ u.stream_to_file_ccb \in Ops \cup {NoOp} /\ u.ccb \in Ops \cup {NoOp}
         /\ u.np_stream \in Streams \cup {NoStream}
         /\ u.read_tasks \in Seq(Ops) /\ u.gen \in Nat
BY BoundsAssumption DEF Loader

LEMMA OpFields ==
  ASSUME NEW o \in OpRecs
  PROVE  /\ o.kind \in {"none", "open", "read", "finish"}
         /\ o.state \in {"unused", "begun", "pending", "returned"}
         /\ o.called \in Nat /\ o.ok \in BOOLEAN /\ o.gen \in Nat /\ o.from \in Nat /\ o.n \in Nat
BY DEF OpRecs

LEMMA StreamFields ==
  ASSUME NEW s \in StreamRecs
  PROVE  /\ s.state \in {"unused", "requested", "open", "destroyed", "closed"}
         /\ s.notify \in BOOLEAN /\ s.pdata \in BOOLEAN /\ s.redirect \in BOOLEAN
         /\ s.sent \in Nat /\ s.sent <= MaxBytes
BY BoundsAssumption DEF StreamRecs

LEMMA HandlerFields ==
  ASSUME NEW h \in Handlers
  PROVE  /\ h.at \in {"idle", "follow", "request", "write", "destroy", "drain"}
         /\ h.of \in Streams \cup {NoStream} /\ h.ccb \in Ops \cup {NoOp}
BY DEF Handlers

LEMMA Numbers ==
  /\ NoOp = 0 /\ NoStream = 0 /\ NoOp \notin Ops /\ NoStream \notin Streams
  /\ \A i \in Ops : i \in Nat
  /\ \A k \in Streams : k \in Nat
BY BoundsAssumption DEF NoOp, NoStream, Ops, Streams

(* The types of everything an invariant reads. *)
LEMMA Types ==
  ASSUME TypeOK
  PROVE  /\ ul.alive \in BOOLEAN /\ ul.open \in {"no", "yes", "closed"}
         /\ ul.file \in Nat /\ ul.file <= MaxBytes /\ ul.read_pos \in Nat
         /\ ul.redirect_url \in BOOLEAN /\ ul.finished_loading \in BOOLEAN
         /\ ul.follow_redirects \in BOOLEAN /\ ul.stream_to_file \in BOOLEAN
         /\ ul.stream_to_file_ccb \in Ops \cup {NoOp} /\ ul.ccb \in Ops \cup {NoOp}
         /\ ul.np_stream \in Streams \cup {NoStream}
         /\ ul.read_tasks \in Seq(Ops) /\ ul.gen \in Nat
         /\ \A i \in Ops :
              /\ op[i].kind \in {"none", "open", "read", "finish"}
              /\ op[i].state \in {"unused", "begun", "pending", "returned"}
              /\ op[i].called \in Nat /\ op[i].ok \in BOOLEAN /\ op[i].gen \in Nat
              /\ op[i].from \in Nat /\ op[i].n \in Nat
         /\ \A k \in Streams :
              /\ stream[k].state \in {"unused", "requested", "open", "destroyed", "closed"}
              /\ stream[k].notify \in BOOLEAN /\ stream[k].pdata \in BOOLEAN
              /\ stream[k].redirect \in BOOLEAN
              /\ stream[k].sent \in Nat /\ stream[k].sent <= MaxBytes
         /\ pc \in Ops \cup {NoOp}
         /\ bh.at \in {"idle", "follow", "request", "write", "destroy", "drain"}
         /\ bh.of \in Streams \cup {NoStream} /\ bh.ccb \in Ops \cup {NoOp}
<1>1. ASSUME NEW i \in Ops PROVE op[i] \in OpRecs
  BY TypeParts
<1>2. ASSUME NEW k \in Streams PROVE stream[k] \in StreamRecs
  BY TypeParts
<1>3. ul \in Loader /\ bh \in Handlers /\ pc \in Ops \cup {NoOp}
  BY TypeParts
<1>. QED
  BY <1>1, <1>2, <1>3, LoaderFields, OpFields, StreamFields, HandlerFields

LEMMA TypeNext ==
  ASSUME ul' \in Loader, ul'.read_pos <= ul'.file, content' \in {"off", "free", "set", "used"},
         stream' \in [Streams -> StreamRecs], op' \in [Ops -> OpRecs], loop' \in Seq(Tasks),
         pc' \in Ops \cup {NoOp}, bh' \in Handlers
  PROVE  TypeOK'
BY DEF TypeOK, StreamRecs, OpRecs, Handlers, Tasks

(* The next call is the one after all that were made. *)
LEMMA NextOpEffect ==
  ASSUME LoaderInv, NEW i \in Ops, NextOp(i)
  PROVE  /\ op[i].state = "unused" /\ op[i].kind = "none" /\ op[i].called = 0
         /\ ~op[i].ok
         /\ ~Waiting(i) /\ ~OnLoop(i) /\ ul.ccb # i /\ bh.ccb # i /\ pc # i
         /\ ul.stream_to_file_ccb # i
         /\ \A j \in Ops : op[j].state # "unused" => j < i
         /\ \A j \in Ops : j < i => op[j].state # "unused"
<1>1. op[i].state = "unused" /\ \A j \in Ops : j < i => op[j].state # "unused"
  BY DEF NextOp
<1>2. \A j \in Ops : op[j].state # "unused" => j < i
  BY <1>1, Numbers DEF LoaderInv, Calls
<1>3. op[i].kind = "none" /\ op[i].called \in Nat
  BY <1>1, Types DEF LoaderInv, Calls
<1>. QED
  BY <1>1, <1>2, <1>3 DEF LoaderInv, Calls, Somewhere

(* Records of calls that differ in two fields. *)
LEMMA OpStarts ==
  ASSUME NEW K, NEW S, NEW kind \in K, NEW state \in S,
         NEW x \in [kind : K, state : S, called : Nat, ok : BOOLEAN, gen : Nat, from : Nat, n : Nat],
         NEW y, y = [x EXCEPT !.kind = kind, !.state = state]
  PROVE  /\ y \in [kind : K, state : S, called : Nat, ok : BOOLEAN, gen : Nat, from : Nat, n : Nat]
         /\ y.kind = kind /\ y.state = state /\ y.called = x.called
         /\ y.ok = x.ok /\ y.gen = x.gen /\ y.from = x.from /\ y.n = x.n
OBVIOUS

LEMMA OpEnds ==
  ASSUME NEW K, NEW S, NEW ok \in BOOLEAN, NEW c \in Nat,
         NEW x \in [kind : K, state : S, called : Nat, ok : BOOLEAN, gen : Nat, from : Nat, n : Nat],
         NEW y, y = [x EXCEPT !.called = c, !.ok = ok]
  PROVE  /\ y \in [kind : K, state : S, called : Nat, ok : BOOLEAN, gen : Nat, from : Nat, n : Nat]
         /\ y.kind = x.kind /\ y.state = x.state /\ y.called = c
         /\ y.ok = ok /\ y.gen = x.gen /\ y.from = x.from /\ y.n = x.n
OBVIOUS

(* The callback of h is called with ok. *)
Ended(h, ok) == [op EXCEPT ![h].called = @ + 1, ![h].ok = ok]

LEMMA EndedEffect ==
  ASSUME op \in [Ops -> OpRecs], NEW h \in Ops, NEW ok \in BOOLEAN, op[h].called = 0,
         op' = Ended(h, ok)
  PROVE  /\ op' \in [Ops -> OpRecs]
         /\ \A j \in Ops : /\ op'[j].kind = op[j].kind /\ op'[j].state = op[j].state
                           /\ op'[j].gen = op[j].gen /\ op'[j].from = op[j].from
                           /\ op'[j].n = op[j].n
                           /\ j # h => op'[j].called = op[j].called /\ op'[j].ok = op[j].ok
         /\ op'[h].called = 1 /\ op'[h].ok = ok
<1>. PICK x \in OpRecs : x = op[h]
  OBVIOUS
<1>. PICK c \in Nat : c = 1 /\ c = x.called + 1
  OBVIOUS
<1>. PICK y : y = [x EXCEPT !.called = c, !.ok = ok]
  OBVIOUS
<1>1. /\ y \in OpRecs /\ y.kind = x.kind /\ y.state = x.state /\ y.called = c
      /\ y.ok = ok /\ y.gen = x.gen /\ y.from = x.from /\ y.n = x.n
  BY OpEnds DEF OpRecs
<1>2. op' = [op EXCEPT ![h] = y]
  BY DEF Ended
<1>3. op' \in [Ops -> OpRecs] /\ op'[h] = y /\ \A j \in Ops : j # h => op'[j] = op[j]
  BY <1>1, <1>2
<1>. QED
  BY <1>1, <1>3

LEMMA StartedEffect ==
  ASSUME op \in [Ops -> OpRecs], NEW i \in Ops,
         NEW kind \in {"none", "open", "read", "finish"},
         NEW state \in {"unused", "begun", "pending", "returned"},
         NEW o, o = Started(i, kind, state)
  PROVE  /\ o \in [Ops -> OpRecs]
         /\ \A j \in Ops : j # i => o[j] = op[j]
         /\ o[i].kind = kind /\ o[i].state = state
         /\ o[i].called = op[i].called /\ o[i].ok = op[i].ok
         /\ o[i].gen = op[i].gen /\ o[i].from = op[i].from /\ o[i].n = op[i].n
<1>. PICK x : x = op[i]
  OBVIOUS
<1>. PICK y : y = [x EXCEPT !.kind = kind, !.state = state]
  OBVIOUS
<1>1. x \in OpRecs
  OBVIOUS
<1>2. /\ y \in OpRecs /\ y.kind = kind /\ y.state = state /\ y.called = x.called
      /\ y.ok = x.ok /\ y.gen = x.gen /\ y.from = x.from /\ y.n = x.n
  <2>. PICK K : K = {"none", "open", "read", "finish"}
    OBVIOUS
  <2>. PICK S : S = {"unused", "begun", "pending", "returned"}
    OBVIOUS
  <2>1. OpRecs = [kind : K, state : S, called : Nat, ok : BOOLEAN, gen : Nat, from : Nat, n : Nat]
    BY DEF OpRecs
  <2>2. kind \in K /\ state \in S
    OBVIOUS
  <2>. QED
    BY <1>1, <2>1, <2>2, OpStarts
<1>3. o = [op EXCEPT ![i] = y]
  BY DEF Started
<1>4. o \in [Ops -> OpRecs] /\ o[i] = y /\ \A j \in Ops : j # i => o[j] = op[j]
  BY <1>2, <1>3
<1>. QED
  BY <1>2, <1>4

-----------------------------------------------------------------------------
(* Steps *)

LEMMA LoaderInvInit == Init => LoaderInv
<1>. SUFFICES ASSUME Init PROVE LoaderInv
  OBVIOUS
<1>. USE BoundsAssumption
<1>1. TypeOK
  <2>1. << >> \in Seq(Ops) /\ << >> \in Seq([op : Ops, ok : BOOLEAN, wrapped : BOOLEAN])
    BY EmptySeq
  <2>. QED
    BY <2>1 DEF Init, TypeOK, Loader, Idle, Unused, NoOp, NoStream
<1>2. /\ \A i \in Ops : ~Waiting(i) /\ ~OnLoop(i)
      /\ InOrder /\ OnceOnLoop
  BY DEF Init, Waiting, OnLoop, InOrder, OnceOnLoop
<1>3. /\ ul.alive /\ ul.ccb = NoOp /\ ul.read_pos = 0 /\ ul.stream_to_file_ccb = NoOp
      /\ ul.open = "no" /\ ul.read_tasks = << >>
      /\ pc = NoOp /\ bh.at = "idle" /\ bh.ccb = NoOp
      /\ \A i \in Ops : /\ op[i].kind = "none" /\ op[i].state = "unused" /\ op[i].called = 0
                        /\ ~op[i].ok /\ op[i].n = 0
      /\ \A k \in Streams : stream[k].state = "unused"
  BY DEF Init, Idle, Unused
<1>4. OnePlace /\ Calls /\ NotLost /\ Handler /\ Drained
  BY <1>2, <1>3, Numbers DEF OnePlace, Calls, NotLost, Handler, Drained, Somewhere
<1>5. Live
  BY <1>3, Numbers DEF Live, OneStream, FinishOnce, IsRequested, Feeds
<1>6. Reads
  BY <1>2, <1>3 DEF Reads, Served
<1>. QED
  BY <1>1, <1>4, <1>5, <1>6 DEF LoaderInv

LEMMA CloseKeeps ==
  ASSUME LoaderInv, ppb_url_loader_close
  PROVE  LoaderInv'
<1>1. /\ ul.alive /\ ul.open = "yes"
      /\ ul' = [ul EXCEPT !.open = "closed"]
      /\ stream' = stream /\ op' = op /\ loop' = loop /\ pc' = pc /\ bh' = bh /\ content' = content
  BY DEF ppb_url_loader_close
<1>2. ul' \in Loader /\ SameBut(ul, ul', {"open"}) /\ ul'.open = "closed"
  BY <1>1 DEF LoaderInv, TypeOK, Loader, SameBut
<1>3. TypeOK'
  BY <1>1, <1>2, TypeParts DEF LoaderInv, TypeOK, SameBut
<1>4. /\ \A j \in Ops : (Waiting(j)' <=> Waiting(j)) /\ (OnLoop(j)' <=> OnLoop(j))
                        /\ (OkOnLoop(j)' <=> OkOnLoop(j))
      /\ InOrder' /\ OnceOnLoop'
  BY <1>1, <1>2, LoopSame, WaitingSame DEF LoaderInv, OnePlace, Reads, SameBut
<1>5. OnePlace' /\ NotLost' /\ Handler' /\ Drained'
  BY <1>1, <1>2, <1>4 DEF LoaderInv, OnePlace, NotLost, Handler, Drained, Somewhere, SameBut
<1>6. Calls'
  BY <1>1, <1>2, <1>4 DEF LoaderInv, Calls, Somewhere, SameBut
<1>7. Live'
  BY <1>1, <1>2, <1>4, Types
  DEF LoaderInv, Live, OneStream, FinishOnce, IsRequested, Feeds, Quiet, Unanswered, SameBut
<1>8. Reads'
  BY <1>1, <1>2, <1>4 DEF LoaderInv, Reads, Served, SameBut
<1>. QED
  BY <1>3, <1>5, <1>6, <1>7, <1>8 DEF LoaderInv

LEMMA DestroyKeeps ==
  ASSUME LoaderInv, ppb_url_loader_destroy
  PROVE  LoaderInv'
<1>1. /\ ul' = [ul EXCEPT !.alive = FALSE, !.open = "closed", !.read_tasks = <<>>]
      /\ stream' = stream /\ op' = op /\ loop' = loop /\ pc' = pc /\ bh' = bh /\ content' = content
  BY DEF ppb_url_loader_destroy
<1>2. /\ ul' \in Loader /\ SameBut(ul, ul', {"alive", "open", "read_tasks"})
      /\ ~ul'.alive /\ ul'.open = "closed" /\ ul'.read_tasks = << >>
  BY <1>1, EmptySeq DEF LoaderInv, TypeOK, Loader, SameBut
<1>3. TypeOK'
  BY <1>1, <1>2, TypeParts DEF LoaderInv, TypeOK, SameBut
<1>4. /\ \A j \in Ops : ~Waiting(j)' /\ (OnLoop(j)' <=> OnLoop(j))
      /\ InOrder' /\ OnceOnLoop'
  BY <1>1, <1>2, LoopSame DEF LoaderInv, OnePlace, Waiting, InOrder
<1>5. OnePlace' /\ NotLost' /\ Handler' /\ Drained' /\ Live'
  BY <1>1, <1>2, <1>4 DEF LoaderInv, OnePlace, NotLost, Handler, Drained, Live, SameBut
<1>6. Calls'
  BY <1>1, <1>2, <1>4 DEF LoaderInv, Calls, Somewhere, SameBut
<1>8. Reads'
  BY <1>1, <1>2, <1>4 DEF LoaderInv, Reads, Served, SameBut
<1>. QED
  BY <1>3, <1>5, <1>6, <1>8 DEF LoaderInv

LEMMA RunKeeps ==
  ASSUME LoaderInv, RunTask
  PROVE  LoaderInv'
<1>. PICK t : t = Head(loop)
  OBVIOUS
<1>1. /\ loop # << >> /\ loop' = Tail(loop)
      /\ ul' = ul /\ stream' = stream /\ pc' = pc /\ bh' = bh /\ content' = content
  BY DEF RunTask
<1>0. op' = IF t.wrapped /\ ~ul.alive THEN op
            ELSE [op EXCEPT ![t.op].called = @ + 1, ![t.op].ok = t.ok]
  BY DEF RunTask
<1>2. /\ loop' \in Seq(Tasks) /\ t \in Tasks /\ OnLoop(t.op) /\ (t.ok => OkOnLoop(t.op))
      /\ \A j \in Ops : (OnLoop(j)' <=> OnLoop(j) /\ j # t.op)
      /\ \A j \in Ops : OkOnLoop(j)' => OkOnLoop(j)
      /\ OnceOnLoop'
  BY <1>1, TakenEffect, TypeParts DEF LoaderInv, OnePlace
<1>. PICK h \in Ops : h = t.op
  BY <1>2 DEF Tasks
<1>3. /\ \A j \in Ops : (Waiting(j)' <=> Waiting(j))
      /\ InOrder'
  BY <1>1, WaitingSame DEF LoaderInv, Reads
<1>4. op[h].called = 0 /\ op[h].state # "unused" /\ op[h] \in OpRecs
  BY <1>2, TypeParts DEF LoaderInv, OnePlace, Calls, Somewhere
<1>5. CASE t.wrapped /\ ~ul.alive
  <2>1. op' = op /\ ~ul'.alive
    BY <1>0, <1>1, <1>5
  <2>2. TypeOK'
    BY <1>1, <1>2, <2>1, TypeParts, TypeNext DEF LoaderInv
  <2>3. OnePlace' /\ NotLost' /\ Handler' /\ Drained' /\ Live'
    BY <1>1, <1>2, <1>3, <2>1 DEF LoaderInv, OnePlace, NotLost, Handler, Drained, Live
  <2>4. Calls'
    BY <1>1, <1>2, <1>3, <2>1 DEF LoaderInv, Calls, Somewhere
  <2>5. Reads'
    BY <1>1, <1>3, <2>1 DEF LoaderInv, Reads, Served
  <2>. QED
    BY <2>2, <2>3, <2>4, <2>5 DEF LoaderInv
<1>6. CASE ~(t.wrapped /\ ~ul.alive)
  <2>1. /\ op' \in [Ops -> OpRecs]
        /\ \A j \in Ops : /\ op'[j].kind = op[j].kind /\ op'[j].state = op[j].state
                          /\ op'[j].gen = op[j].gen /\ op'[j].from = op[j].from
                          /\ op'[j].n = op[j].n
                          /\ j # h => op'[j].called = op[j].called /\ op'[j].ok = op[j].ok
        /\ op'[h].called = 1 /\ op'[h].ok = t.ok /\ t.ok \in BOOLEAN
    <3>1. op \in [Ops -> OpRecs] /\ op' = Ended(h, t.ok) /\ t.ok \in BOOLEAN
      BY <1>0, <1>2, <1>6, TypeParts DEF LoaderInv, Tasks, Ended
    <3>. QED
      BY <3>1, <1>4, EndedEffect
  <2>2. TypeOK'
    BY <1>1, <1>2, <2>1, TypeParts, TypeNext DEF LoaderInv
  <2>3. OnePlace'
    BY <1>1, <1>2, <1>3, <1>4, <2>1 DEF LoaderInv, OnePlace
  <2>4. NotLost'
    BY <1>1, <1>2, <1>3, <1>4, <2>1 DEF LoaderInv, NotLost, Somewhere
  <2>5. Handler' /\ Drained'
    BY <1>1 DEF LoaderInv, Handler, Drained
  <2>6. Live'
    <3>1. Unanswered => Unanswered'
      BY <1>2, <1>4, <2>1 DEF Unanswered
    <3>2. OneStream => OneStream'
      BY <1>1, <3>1 DEF OneStream, IsRequested, Feeds
    <3>3. FinishOnce => FinishOnce'
      BY <1>1, <1>2, <2>1, Types DEF LoaderInv, FinishOnce, Quiet, IsRequested, Feeds
    <3>. QED
      BY <1>1, <3>2, <3>3 DEF LoaderInv, Live
  <2>7. Calls'
    BY <1>1, <1>2, <1>3, <1>4, <2>1 DEF LoaderInv, Calls, Somewhere
  <2>8. Reads'
    BY <1>1, <1>3, <2>1 DEF LoaderInv, Reads, Served
  <2>. QED
    BY <2>2, <2>3, <2>4, <2>5, <2>6, <2>7, <2>8 DEF LoaderInv
<1>. QED
  BY <1>5, <1>6

(* A stream is asked for: k, the first that was not used, or none. *)
LEMMA RequestedEffect ==
  ASSUME stream \in [Streams -> StreamRecs],
         (\E k \in Streams : Free(k) /\ stream' = Requested(k)) \/ stream' = stream
  PROVE  /\ stream' \in [Streams -> StreamRecs]
         /\ \A j \in Streams : (Feeds(j)' <=> Feeds(j)) /\ stream'[j].sent = stream[j].sent
         /\ \/ \A j \in Streams : (IsRequested(j)' <=> IsRequested(j))
            \/ \E k \in Streams : \A j \in Streams : (IsRequested(j)' <=> IsRequested(j) \/ j = k)
<1>1. CASE stream' = stream
  BY <1>1 DEF Feeds, IsRequested
<1>2. ASSUME NEW k \in Streams, Free(k), stream' = Requested(k)
      PROVE  /\ stream' \in [Streams -> StreamRecs]
             /\ \A j \in Streams : (Feeds(j)' <=> Feeds(j)) /\ stream'[j].sent = stream[j].sent
             /\ \E l \in Streams : \A j \in Streams : (IsRequested(j)' <=> IsRequested(j) \/ j = l)
  <2>1. /\ stream' \in [Streams -> StreamRecs]
        /\ \A j \in Streams : /\ j # k => stream'[j] = stream[j]
                              /\ stream'[j].sent = stream[j].sent
        /\ stream'[k].state = "requested"
    BY <1>2 DEF Requested, StreamRecs
  <2>2. stream[k].state = "unused"
    BY <1>2 DEF Free
  <2>. QED
    BY <2>1, <2>2 DEF Feeds, IsRequested
<1>. QED
  BY <1>1, <1>2

LEMMA RequestKeeps ==
  ASSUME LoaderInv, url_loader_open_ptac
  PROVE  LoaderInv'
<1>1. /\ bh.at = "idle" /\ pc # NoOp /\ pc' = NoOp
      /\ ul' = ul /\ loop' = loop /\ bh' = bh /\ content' = content
  BY DEF url_loader_open_ptac
<1>0. (\E k \in Streams : Free(k) /\ stream' = Requested(k)) \/ stream' = stream
  BY DEF url_loader_open_ptac
<1>. PICK i \in Ops : i = pc
  BY <1>1, TypeParts DEF LoaderInv
<1>2. PICK st \in {"pending", "returned"} : op' = [op EXCEPT ![i].state = st]
  BY DEF url_loader_open_ptac
<1>3. /\ op' \in [Ops -> OpRecs]
      /\ \A j \in Ops : /\ op'[j].kind = op[j].kind /\ op'[j].called = op[j].called
                        /\ op'[j].ok = op[j].ok /\ op'[j].gen = op[j].gen
                        /\ op'[j].from = op[j].from /\ op'[j].n = op[j].n
                        /\ j # i => op'[j].state = op[j].state
      /\ op'[i].state = st
  <2>1. op \in [Ops -> OpRecs]
    BY TypeParts DEF LoaderInv
  <2>. QED
    BY <1>2, <2>1 DEF OpRecs
<1>4. op[i].state = "begun" /\ op[i].kind = "open" /\ ul.open # "no"
  BY DEF LoaderInv, Calls
<1>5. /\ stream' \in [Streams -> StreamRecs]
      /\ \A j \in Streams : (Feeds(j)' <=> Feeds(j)) /\ stream'[j].sent = stream[j].sent
      /\ \/ \A j \in Streams : (IsRequested(j)' <=> IsRequested(j))
         \/ \E k \in Streams : \A j \in Streams : (IsRequested(j)' <=> IsRequested(j) \/ j = k)
  BY <1>0, RequestedEffect, TypeParts DEF LoaderInv
<1>6. /\ \A j \in Ops : (Waiting(j)' <=> Waiting(j)) /\ (OnLoop(j)' <=> OnLoop(j))
                        /\ (OkOnLoop(j)' <=> OkOnLoop(j))
      /\ InOrder' /\ OnceOnLoop'
  BY <1>1, LoopSame, WaitingSame DEF LoaderInv, OnePlace, Reads
<1>7. TypeOK'
  BY <1>1, <1>3, <1>5, TypeParts, TypeNext DEF LoaderInv
<1>8. OnePlace' /\ NotLost' /\ Handler' /\ Drained'
  <2>1. OnePlace'
    BY <1>1, <1>3, <1>6 DEF LoaderInv, OnePlace
  <2>2. NotLost'
    BY <1>1, <1>3, <1>4, <1>6 DEF LoaderInv, NotLost, Somewhere
  <2>3. Handler' /\ Drained'
    BY <1>1, <1>5 DEF LoaderInv, Handler, Drained
  <2>. QED
    BY <2>1, <2>2, <2>3
<1>9. Live'
  <2>. SUFFICES ASSUME ul.alive PROVE OneStream' /\ FinishOnce'
    BY <1>1 DEF Live
  <2>0. OneStream /\ FinishOnce
    BY DEF LoaderInv, Live
  <2>1. ~ul.follow_redirects => Unanswered
    BY <1>1, <2>0 DEF OneStream
  <2>2. Unanswered => Unanswered'
    BY <1>3, <1>6 DEF Unanswered
  <2>3. \A j \in Streams : ~IsRequested(j) /\ ~Feeds(j)
    BY <1>1, <2>0 DEF OneStream
  <2>4. OneStream'
    BY <1>1, <1>4, <1>5, <2>0, <2>1, <2>2, <2>3 DEF OneStream
  <2>5. FinishOnce'
    BY <1>1, <2>0 DEF FinishOnce
  <2>. QED
    BY <2>4, <2>5
<1>10. Calls'
  BY <1>1, <1>3, <1>4, <1>6, Numbers DEF LoaderInv, Calls, Somewhere
<1>11. Reads'
  BY <1>1, <1>3, <1>6 DEF LoaderInv, Reads, Served
<1>. QED
  BY <1>7, <1>8, <1>9, <1>10, <1>11 DEF LoaderInv

(* What the callbacks of calls depend on is as before. *)
LEMMA SamePlaces ==
  ASSUME loop' = loop, ul'.read_tasks = ul.read_tasks, LoaderInv
  PROVE  /\ \A j \in Ops : (Waiting(j)' <=> Waiting(j)) /\ (OnLoop(j)' <=> OnLoop(j))
                           /\ (OkOnLoop(j)' <=> OkOnLoop(j))
         /\ InOrder' /\ OnceOnLoop'
BY LoopSame, WaitingSame DEF LoaderInv, OnePlace, Reads

LEMMA RedirectKeeps ==
  ASSUME LoaderInv, NEW k \in Streams, NPP_URLRedirectNotify(k)
  PROVE  LoaderInv'
<1>1. /\ bh.at = "idle" /\ IsRequested(k)
      /\ op' = op /\ loop' = loop /\ pc' = pc /\ bh' = bh /\ content' = content
  BY DEF NPP_URLRedirectNotify, IsRequested
<1>2. /\ ul' \in Loader /\ SameBut(ul, ul', {"redirect_url"})
  <2>1. ul' = IF ul.alive THEN [ul EXCEPT !.redirect_url = TRUE] ELSE ul
    BY DEF NPP_URLRedirectNotify
  <2>2. ul \in Loader
    BY DEF LoaderInv, TypeOK
  <2>. QED
    BY <2>1, <2>2 DEF Loader, SameBut
<1>3. /\ stream' \in [Streams -> StreamRecs]
      /\ \A j \in Streams : /\ (IsRequested(j)' <=> IsRequested(j)) /\ (Feeds(j)' <=> Feeds(j))
                            /\ stream'[j].sent = stream[j].sent
  <2>1. stream' = [stream EXCEPT ![k].redirect = TRUE] /\ stream \in [Streams -> StreamRecs]
    BY TypeParts DEF NPP_URLRedirectNotify, LoaderInv
  <2>2. /\ stream' \in [Streams -> StreamRecs]
        /\ \A j \in Streams : /\ stream'[j].state = stream[j].state
                              /\ stream'[j].pdata = stream[j].pdata
                              /\ stream'[j].sent = stream[j].sent
    BY <2>1 DEF StreamRecs
  <2>. QED
    BY <2>2 DEF IsRequested, Feeds
<1>4. /\ \A j \in Ops : (Waiting(j)' <=> Waiting(j)) /\ (OnLoop(j)' <=> OnLoop(j))
                        /\ (OkOnLoop(j)' <=> OkOnLoop(j))
      /\ InOrder' /\ OnceOnLoop'
  BY <1>1, <1>2, SamePlaces DEF SameBut
<1>5. TypeOK'
  BY <1>1, <1>2, <1>3, TypeParts, TypeNext DEF LoaderInv, SameBut
<1>6. OnePlace' /\ NotLost' /\ Handler' /\ Drained'
  <2>1. OnePlace'
    BY <1>1, <1>2, <1>4 DEF LoaderInv, OnePlace, SameBut
  <2>2. NotLost'
    BY <1>1, <1>2, <1>4 DEF LoaderInv, NotLost, Somewhere, SameBut
  <2>3. Handler' /\ Drained'
    BY <1>1, <1>2, <1>3 DEF LoaderInv, Handler, Drained, SameBut
  <2>. QED
    BY <2>1, <2>2, <2>3
<1>7. Live'
  <2>. SUFFICES ASSUME ul.alive PROVE OneStream' /\ FinishOnce'
    BY <1>2 DEF Live, SameBut
  <2>0. OneStream /\ FinishOnce
    BY DEF LoaderInv, Live
  <2>1. Unanswered => Unanswered'
    BY <1>1, <1>4 DEF Unanswered
  <2>2. OneStream'
    BY <1>1, <1>2, <1>3, <2>0, <2>1 DEF OneStream, SameBut
  <2>3. ~Quiet
    BY <1>1 DEF Quiet
  <2>4. FinishOnce'
    BY <1>1, <1>2, <1>3, <1>4, <2>0, <2>3, Types DEF LoaderInv, FinishOnce, SameBut
  <2>. QED
    BY <2>2, <2>4
<1>8. Calls'
  BY <1>1, <1>2, <1>4 DEF LoaderInv, Calls, Somewhere, SameBut
<1>9. Reads'
  BY <1>1, <1>2, <1>4 DEF LoaderInv, Reads, Served, SameBut
<1>. QED
  BY <1>5, <1>6, <1>7, <1>8, <1>9 DEF LoaderInv

LEMMA WriteKeeps ==
  ASSUME LoaderInv, NEW k \in Streams, NPP_Write(k)
  PROVE  LoaderInv'
<1>1. /\ bh.at = "idle" /\ stream[k].state = "open" /\ stream[k].sent < MaxBytes
      /\ ul' = ul /\ op' = op /\ loop' = loop /\ pc' = pc /\ content' = content
  BY DEF NPP_Write
<1>2. /\ bh' \in Handlers /\ bh'.ccb = NoOp /\ bh.ccb = NoOp
      /\ bh' = bh \/ (bh'.at = "write" /\ bh'.of = k /\ Feeds(k) /\ stream' = stream)
  <2>1. bh \in Handlers /\ bh.ccb = NoOp
    BY <1>1, TypeParts DEF LoaderInv, Handler
  <2>2. bh' = bh \/ (bh' = [at |-> "write", of |-> k, ccb |-> NoOp] /\ Feeds(k) /\ stream' = stream)
    BY <1>1 DEF NPP_Write, Feeds
  <2>. QED
    BY <2>1, <2>2 DEF Handlers
<1>3. /\ stream' \in [Streams -> StreamRecs]
      /\ \A j \in Streams : (IsRequested(j)' <=> IsRequested(j)) /\ (Feeds(j)' <=> Feeds(j))
  <2>1. /\ stream' = stream \/ stream' = [stream EXCEPT ![k].sent = @ + 1]
        /\ stream \in [Streams -> StreamRecs]
    BY TypeParts DEF NPP_Write, LoaderInv
  <2>2. stream[k].sent \in Nat /\ stream[k].sent + 1 \in 0 .. MaxBytes
    BY <1>1, Types, BoundsAssumption DEF LoaderInv
  <2>3. /\ stream' \in [Streams -> StreamRecs]
        /\ \A j \in Streams : /\ stream'[j].state = stream[j].state
                              /\ stream'[j].pdata = stream[j].pdata
    BY <2>1, <2>2 DEF StreamRecs
  <2>. QED
    BY <2>3 DEF IsRequested, Feeds
<1>4. /\ \A j \in Ops : (Waiting(j)' <=> Waiting(j)) /\ (OnLoop(j)' <=> OnLoop(j))
                        /\ (OkOnLoop(j)' <=> OkOnLoop(j))
      /\ InOrder' /\ OnceOnLoop'
  BY <1>1, SamePlaces
<1>5. TypeOK'
  BY <1>1, <1>2, <1>3, TypeParts, TypeNext DEF LoaderInv
<1>6. OnePlace' /\ NotLost' /\ Handler' /\ Drained'
  <2>1. OnePlace'
    BY <1>1, <1>2, <1>4 DEF LoaderInv, OnePlace
  <2>2. NotLost'
    BY <1>1, <1>2, <1>4 DEF LoaderInv, NotLost, Somewhere
  <2>3. Handler' /\ Drained'
    BY <1>1, <1>2 DEF LoaderInv, Handler, Drained
  <2>. QED
    BY <2>1, <2>2, <2>3
<1>7. Live'
  <2>. SUFFICES ASSUME ul.alive PROVE OneStream' /\ FinishOnce'
    BY <1>1 DEF Live
  <2>0. OneStream /\ FinishOnce
    BY DEF LoaderInv, Live
  <2>1. Unanswered => Unanswered'
    BY <1>1, <1>4 DEF Unanswered
  <2>2. OneStream'
    BY <1>1, <1>2, <1>3, <2>0, <2>1 DEF OneStream
  <2>3. Quiet => Quiet'
    BY <1>1, <1>2, <1>3 DEF Quiet
  <2>4. FinishOnce'
    BY <1>1, <1>3, <1>4, <2>0, <2>3, Types DEF LoaderInv, FinishOnce
  <2>. QED
    BY <2>2, <2>4
<1>8. Calls'
  BY <1>1, <1>2, <1>4 DEF LoaderInv, Calls, Somewhere
<1>9. Reads'
  BY <1>1, <1>4 DEF LoaderInv, Reads, Served
<1>. QED
  BY <1>5, <1>6, <1>7, <1>8, <1>9 DEF LoaderInv

LEMMA DestroyStreamKeeps ==
  ASSUME LoaderInv, NEW k \in Streams, NPP_DestroyStream(k)
  PROVE  LoaderInv'
<1>1. /\ bh.at = "idle" /\ stream[k].state = "open"
      /\ ul' = ul /\ op' = op /\ loop' = loop /\ pc' = pc /\ content' = content
  BY DEF NPP_DestroyStream
<1>2. /\ bh' \in Handlers /\ bh'.ccb = NoOp /\ bh.ccb = NoOp
      /\ \/ bh'.at = "idle" /\ ~Feeds(k)
         \/ bh'.at = "destroy" /\ bh'.of = k /\ Feeds(k)
  <2>1. bh \in Handlers /\ bh.ccb = NoOp /\ stream[k].pdata \in BOOLEAN
    BY <1>1, TypeParts, Types DEF LoaderInv, Handler
  <2>2. bh' = IF stream[k].pdata THEN [at |-> "destroy", of |-> k, ccb |-> NoOp] ELSE Idle
    BY DEF NPP_DestroyStream
  <2>. QED
    BY <1>1, <2>1, <2>2 DEF Handlers, Idle, Feeds
<1>3. /\ stream' \in [Streams -> StreamRecs]
      /\ \A j \in Streams : (IsRequested(j)' <=> IsRequested(j)) /\ (Feeds(j)' <=> Feeds(j) /\ j # k)
  <2>1. /\ stream' = [stream EXCEPT ![k].state = "destroyed"]
        /\ stream \in [Streams -> StreamRecs]
    BY TypeParts DEF NPP_DestroyStream, LoaderInv
  <2>2. /\ stream' \in [Streams -> StreamRecs]
        /\ \A j \in Streams : j # k => stream'[j] = stream[j]
        /\ stream'[k].state = "destroyed"
    BY <2>1 DEF StreamRecs
  <2>. QED
    BY <1>1, <2>2 DEF IsRequested, Feeds
<1>4. /\ \A j \in Ops : (Waiting(j)' <=> Waiting(j)) /\ (OnLoop(j)' <=> OnLoop(j))
                        /\ (OkOnLoop(j)' <=> OkOnLoop(j))
      /\ InOrder' /\ OnceOnLoop'
  BY <1>1, SamePlaces
<1>5. TypeOK'
  BY <1>1, <1>2, <1>3, TypeParts, TypeNext DEF LoaderInv
<1>6. OnePlace' /\ NotLost' /\ Handler' /\ Drained'
  <2>1. OnePlace'
    BY <1>1, <1>2, <1>4 DEF LoaderInv, OnePlace
  <2>2. NotLost'
    BY <1>1, <1>2, <1>4 DEF LoaderInv, NotLost, Somewhere
  <2>3. Handler' /\ Drained'
    BY <1>1, <1>2 DEF LoaderInv, Handler, Drained
  <2>. QED
    BY <2>1, <2>2, <2>3
<1>7. Live'
  <2>. SUFFICES ASSUME ul.alive PROVE OneStream' /\ FinishOnce'
    BY <1>1 DEF Live
  <2>0. OneStream /\ FinishOnce
    BY DEF LoaderInv, Live
  <2>1. Unanswered => Unanswered'
    BY <1>1, <1>4 DEF Unanswered
  <2>2. OneStream'
    BY <1>1, <1>2, <1>3, <2>0, <2>1 DEF OneStream
  <2>3. Quiet => Quiet'
    BY <1>1, <1>2, <1>3 DEF Quiet
  <2>4. FinishOnce'
    BY <1>1, <1>3, <1>4, <2>0, <2>3, Types DEF LoaderInv, FinishOnce
  <2>. QED
    BY <2>2, <2>4
<1>8. Calls'
  BY <1>1, <1>2, <1>4 DEF LoaderInv, Calls, Somewhere
<1>9. Reads'
  BY <1>1, <1>4 DEF LoaderInv, Reads, Served
<1>. QED
  BY <1>5, <1>6, <1>7, <1>8, <1>9 DEF LoaderInv

LEMMA NotifyKeeps ==
  ASSUME LoaderInv, NEW k \in Streams, NEW err \in BOOLEAN, NPP_URLNotify(k, err)
  PROVE  LoaderInv'
<1>1. /\ bh.at = "idle" /\ stream[k].state \in {"destroyed", "requested"}
      /\ op' = op /\ pc' = pc /\ bh' = bh /\ content' = content
  BY DEF NPP_URLNotify
<1>2. /\ stream' \in [Streams -> StreamRecs]
      /\ \A j \in Streams : (IsRequested(j)' <=> IsRequested(j) /\ j # k) /\ (Feeds(j)' <=> Feeds(j))
  <2>1. /\ stream' = [stream EXCEPT ![k].state = "closed"]
        /\ stream \in [Streams -> StreamRecs]
    BY TypeParts DEF NPP_URLNotify, LoaderInv
  <2>2. /\ stream' \in [Streams -> StreamRecs]
        /\ \A j \in Streams : j # k => stream'[j] = stream[j]
        /\ stream'[k].state = "closed"
    BY <2>1 DEF StreamRecs
  <2>. QED
    BY <1>1, <2>2 DEF IsRequested, Feeds
<1>3. PICK c \in Ops \cup {NoOp} :
        /\ (c = NoOp /\ ul'.ccb = ul.ccb) \/ (c = ul.ccb /\ ul'.ccb = NoOp)
        /\ ul' \in Loader /\ SameBut(ul, ul', {"ccb"})
        /\ Post(c, FALSE)
  <2>1. ul \in Loader /\ ul.ccb \in Ops \cup {NoOp}
    BY TypeParts, Types DEF LoaderInv
  <2>2. CASE err /\ ul.alive
    <3>1. ul' = [ul EXCEPT !.ccb = NoOp] /\ Post(ul.ccb, FALSE)
      BY <2>2 DEF NPP_URLNotify
    <3>2. ul' \in Loader /\ SameBut(ul, ul', {"ccb"}) /\ ul'.ccb = NoOp
      BY <3>1, <2>1 DEF Loader, SameBut
    <3>. QED
      BY <3>1, <3>2, <2>1
  <2>3. CASE ~(err /\ ul.alive)
    <3>1. ul' = ul /\ loop' = loop
      BY <2>3 DEF NPP_URLNotify
    <3>2. SameBut(ul, ul', {"ccb"}) /\ Post(NoOp, FALSE)
      BY <3>1 DEF SameBut, Post
    <3>. QED
      BY <3>1, <3>2, <2>1
  <2>. QED
    BY <2>2, <2>3
<1>4. ~OnLoop(c)
  <2>1. ASSUME OnLoop(NoOp) PROVE FALSE
    <3>1. PICK j \in DOMAIN loop : loop[j].op = NoOp
      BY <2>1 DEF OnLoop
    <3>2. loop[j] \in Tasks
      BY TypeParts, LenProperties, ElementOfSeq DEF LoaderInv
    <3>. QED
      BY <3>1, <3>2, Numbers DEF Tasks
  <2>. QED
    BY <2>1, <1>3, Types DEF LoaderInv, OnePlace
<1>5. /\ \A j \in Ops : /\ (Waiting(j)' <=> Waiting(j))
                        /\ (OnLoop(j)' <=> OnLoop(j) \/ j = c)
                        /\ (OkOnLoop(j)' <=> OkOnLoop(j))
      /\ InOrder' /\ OnceOnLoop' /\ loop' \in Seq(Tasks)
  BY <1>3, <1>4, PostEffect, WaitingSame, TypeParts DEF LoaderInv, OnePlace, Reads, SameBut
<1>6. TypeOK'
  BY <1>1, <1>2, <1>3, <1>5, TypeParts, TypeNext DEF LoaderInv, SameBut
<1>7. OnePlace' /\ NotLost' /\ Handler' /\ Drained'
  <2>1. OnePlace'
    BY <1>1, <1>3, <1>5, Numbers DEF LoaderInv, OnePlace, SameBut
  <2>2. NotLost'
    <3>1. \A j \in Ops : Somewhere(j) => Somewhere(j)'
      BY <1>1, <1>3, <1>5, Numbers DEF Somewhere
    <3>. QED
      BY <1>1, <1>3, <3>1 DEF LoaderInv, NotLost, SameBut
  <2>3. Handler' /\ Drained'
    BY <1>1, <1>3 DEF LoaderInv, Handler, Drained, SameBut
  <2>. QED
    BY <2>1, <2>2, <2>3
<1>8. Live'
  <2>. SUFFICES ASSUME ul.alive PROVE OneStream' /\ FinishOnce'
    BY <1>3 DEF Live, SameBut
  <2>0. OneStream /\ FinishOnce
    BY DEF LoaderInv, Live
  <2>1. Unanswered => Unanswered'
    BY <1>1, <1>5 DEF Unanswered
  <2>2. OneStream'
    BY <1>1, <1>2, <1>3, <2>0, <2>1 DEF OneStream, SameBut
  <2>3. Quiet => Quiet'
    BY <1>1, <1>2, <1>3 DEF Quiet, SameBut
  <2>4. \A f \in Ops : ul.stream_to_file_ccb = f => f # c
    BY <1>3, Types, Numbers DEF LoaderInv, Calls
  <2>5. FinishOnce'
    BY <1>1, <1>2, <1>3, <1>5, <2>0, <2>3, <2>4, Types DEF LoaderInv, FinishOnce, SameBut
  <2>. QED
    BY <2>2, <2>5
<1>9. Calls'
  BY <1>1, <1>3, <1>5, Numbers DEF LoaderInv, Calls, Somewhere, SameBut
<1>10. Reads'
  BY <1>1, <1>3, <1>5 DEF LoaderInv, Reads, Served, SameBut
<1>. QED
  BY <1>6, <1>7, <1>8, <1>9, <1>10 DEF LoaderInv

LEMMA NoOpNotPosted == LoaderInv => ~OnLoop(NoOp)
<1>. SUFFICES ASSUME LoaderInv, OnLoop(NoOp) PROVE FALSE
  OBVIOUS
<1>1. PICK j \in DOMAIN loop : loop[j].op = NoOp
  BY DEF OnLoop
<1>2. loop[j] \in Tasks
  BY TypeParts, LenProperties, ElementOfSeq DEF LoaderInv
<1>. QED
  BY <1>1, <1>2, Numbers DEF Tasks

(* The plugin was told that its last request succeeded. *)
LEMMA LastOpenEffect ==
  ASSUME LoaderInv, LastOpenOk
  PROVE  ul.ccb = NoOp /\ ~Unanswered /\ ul.open # "no"
<1>1. PICK i \in Ops :
        /\ op[i].kind = "open" /\ op[i].called > 0 /\ op[i].ok /\ op[i].state = "pending"
        /\ \A j \in Ops : op[j].kind = "open" => j <= i
  BY DEF LastOpenOk, IsOpen
<1>2. ~Unanswered
  BY <1>1 DEF Unanswered
<1>3. ul.ccb # i
  BY <1>1, Types DEF LoaderInv, OnePlace
<1>4. ul.ccb = NoOp
  <2>. SUFFICES ASSUME ul.ccb \in Ops PROVE FALSE
    BY Types DEF LoaderInv
  <2>1. op[ul.ccb].kind = "open" /\ i <= ul.ccb
    BY <1>1 DEF LoaderInv, Calls
  <2>2. ul.ccb <= i
    BY <1>1, <2>1
  <2>. QED
    BY <1>3, <2>1, <2>2, Numbers
<1>5. ul.open # "no"
  BY <1>1 DEF LoaderInv, Calls
<1>. QED
  BY <1>2, <1>4, <1>5

LEMMA FinishKeeps ==
  ASSUME LoaderInv, NEW i \in Ops, ppb_url_loader_finish_streaming_to_file(i)
  PROVE  LoaderInv'
<1>1. /\ pc = NoOp /\ ul.alive /\ ~ul.redirect_url /\ ul.stream_to_file_ccb = NoOp
      /\ LastOpenOk /\ NextOp(i)
      /\ stream' = stream /\ loop' = loop /\ pc' = pc /\ bh' = bh /\ content' = content
  BY DEF ppb_url_loader_finish_streaming_to_file, PluginRuns
<1>2. ul' \in Loader /\ SameBut(ul, ul', {"stream_to_file_ccb"}) /\ ul'.stream_to_file_ccb = i
  <2>1. ul' = [ul EXCEPT !.stream_to_file_ccb = i] /\ ul \in Loader
    BY TypeParts DEF ppb_url_loader_finish_streaming_to_file, LoaderInv
  <2>. QED
    BY <2>1 DEF Loader, SameBut
<1>3. /\ op' \in [Ops -> OpRecs]
      /\ \A j \in Ops : j # i => op'[j] = op[j]
      /\ op'[i].kind = "finish" /\ op'[i].state = "pending"
      /\ op'[i].called = op[i].called /\ op'[i].ok = op[i].ok
      /\ op'[i].gen = op[i].gen /\ op'[i].from = op[i].from /\ op'[i].n = op[i].n
  <2>1. op' = Started(i, "finish", "pending") /\ op \in [Ops -> OpRecs]
    BY TypeParts DEF ppb_url_loader_finish_streaming_to_file, LoaderInv
  <2>. QED
    BY <2>1, StartedEffect
<1>4. /\ op[i].state = "unused" /\ op[i].kind = "none" /\ op[i].called = 0 /\ ~op[i].ok
      /\ ~Waiting(i) /\ ~OnLoop(i) /\ ul.ccb # i /\ bh.ccb # i
      /\ \A j \in Ops : op[j].state # "unused" => j < i
      /\ \A j \in Ops : j < i => op[j].state # "unused"
  BY <1>1, NextOpEffect
<1>5. /\ \A j \in Ops : (Waiting(j)' <=> Waiting(j)) /\ (OnLoop(j)' <=> OnLoop(j))
                        /\ (OkOnLoop(j)' <=> OkOnLoop(j))
      /\ InOrder' /\ OnceOnLoop'
  BY <1>1, <1>2, SamePlaces DEF SameBut
<1>6. TypeOK'
  BY <1>1, <1>2, <1>3, TypeParts, TypeNext DEF LoaderInv, SameBut
<1>7. OnePlace' /\ NotLost' /\ Handler' /\ Drained'
  <2>1. OnePlace'
    BY <1>1, <1>2, <1>3, <1>5 DEF LoaderInv, OnePlace, SameBut
  <2>2. NotLost'
    BY <1>1, <1>2, <1>3, <1>5 DEF LoaderInv, NotLost, Somewhere, SameBut
  <2>3. Handler' /\ Drained'
    BY <1>1, <1>2 DEF LoaderInv, Handler, Drained, SameBut
  <2>. QED
    BY <2>1, <2>2, <2>3
<1>8. Live'
  <2>0. OneStream /\ FinishOnce
    BY <1>1 DEF LoaderInv, Live
  <2>1. Unanswered => Unanswered'
    BY <1>3, <1>4, <1>5 DEF Unanswered
  <2>2. \A k \in Streams : (IsRequested(k)' <=> IsRequested(k)) /\ (Feeds(k)' <=> Feeds(k))
    BY <1>1 DEF IsRequested, Feeds
  <2>3. OneStream'
    BY <1>1, <1>2, <2>0, <2>1, <2>2 DEF OneStream, SameBut
  <2>4. ~ul.follow_redirects => \A k \in Streams : ~IsRequested(k)
    BY <1>1, <2>0, LastOpenEffect DEF OneStream
  <2>5. FinishOnce'
    BY <1>1, <1>2, <1>3, <1>4, <1>5, <2>2, <2>4 DEF FinishOnce, SameBut
  <2>. QED
    BY <2>3, <2>5 DEF Live
<1>9. Calls'
  BY <1>1, <1>2, <1>3, <1>4, <1>5, Numbers, LastOpenEffect DEF LoaderInv, Calls, Somewhere, SameBut
<1>10. Reads'
  BY <1>1, <1>2, <1>3, <1>4, <1>5 DEF LoaderInv, Reads, Served, SameBut
<1>. QED
  BY <1>6, <1>7, <1>8, <1>9, <1>10 DEF LoaderInv

LEMMA OpenKeeps ==
  ASSUME LoaderInv, NEW i \in Ops, NEW follow \in BOOLEAN, NEW to_file \in BOOLEAN,
         ppb_url_loader_open_target(i, follow, to_file)
  PROVE  LoaderInv'
<1>1. /\ pc = NoOp /\ ul.alive /\ ul.open = "no" /\ NextOp(i)
      /\ loop' = loop /\ bh' = bh
  BY DEF ppb_url_loader_open_target, PluginRuns
<1>2. /\ ul' \in Loader
      /\ SameBut(ul, ul', {"open", "file", "read_pos", "follow_redirects", "stream_to_file", "ccb"})
      /\ ul'.open = "yes" /\ ul'.file = 0 /\ ul'.read_pos = 0 /\ ul'.ccb = i
  <2>1. /\ ul' = [ul EXCEPT !.open = "yes", !.file = 0, !.read_pos = 0,
                            !.follow_redirects = follow, !.stream_to_file = to_file, !.ccb = i]
        /\ ul \in Loader
    BY TypeParts DEF ppb_url_loader_open_target, LoaderInv
  <2>2. 0 \in 0 .. MaxBytes
    BY BoundsAssumption
  <2>3. ul' \in Loader
    BY <2>1, <2>2 DEF Loader
  <2>4. SameBut(ul, ul', {"open", "file", "read_pos", "follow_redirects", "stream_to_file", "ccb"})
    BY <2>1 DEF Loader, SameBut
  <2>. QED
    BY <2>1, <2>3, <2>4 DEF Loader
<1>3. PICK st \in {"pending", "begun"} :
        /\ op' = Started(i, "open", st)
        /\ \/ st = "begun" /\ pc' = i /\ stream' = stream /\ content' = content
           \/ /\ st = "pending" /\ pc' = NoOp /\ content' = "set"
              /\ stream' = [stream EXCEPT ![1].state = "requested", ![1].notify = FALSE]
  BY <1>1 DEF ppb_url_loader_open_target
<1>4. /\ op' \in [Ops -> OpRecs]
      /\ \A j \in Ops : j # i => op'[j] = op[j]
      /\ op'[i].kind = "open" /\ op'[i].state = st
      /\ op'[i].called = op[i].called /\ op'[i].ok = op[i].ok
  <2>1. op \in [Ops -> OpRecs]
    BY TypeParts DEF LoaderInv
  <2>. QED
    BY <2>1, <1>3, StartedEffect
<1>5. /\ op[i].state = "unused" /\ op[i].kind = "none" /\ op[i].called = 0 /\ ~op[i].ok
      /\ ~Waiting(i) /\ ~OnLoop(i) /\ ul.ccb # i /\ bh.ccb # i /\ ul.stream_to_file_ccb # i
      /\ \A j \in Ops : op[j].state # "unused" => j < i
      /\ \A j \in Ops : j < i => op[j].state # "unused"
  BY <1>1, NextOpEffect
<1>6. /\ \A j \in Ops : /\ op[j].state = "unused" /\ op[j].kind = "none"
                        /\ ~Waiting(j) /\ ~OnLoop(j) /\ op[j].called = 0 /\ ul.ccb # j /\ bh.ccb # j
      /\ ul.stream_to_file_ccb = NoOp
      /\ bh.at = "idle" /\ \A k \in Streams : ~IsRequested(k) /\ ~Feeds(k)
  BY <1>1, Types DEF LoaderInv, Calls, Live, OneStream, Somewhere
<1>7. /\ \A j \in Ops : ~Waiting(j)' /\ ~OnLoop(j)' /\ ~OkOnLoop(j)'
      /\ InOrder' /\ OnceOnLoop'
  <2>1. \A j \in Ops : ~OkOnLoop(j)
    BY <1>6 DEF OkOnLoop, OnLoop
  <2>. QED
    BY <1>1, <1>2, <1>6, <2>1, SamePlaces DEF SameBut
<1>8. /\ stream' \in [Streams -> StreamRecs] /\ content' \in {"off", "free", "set", "used"}
      /\ \A k \in Streams : ~Feeds(k)' /\ stream'[k].sent = stream[k].sent
      /\ \/ pc' = i /\ \A k \in Streams : ~IsRequested(k)'
         \/ pc' = NoOp /\ \A k \in Streams : (IsRequested(k)' <=> k = 1)
  <2>1. stream \in [Streams -> StreamRecs] /\ content \in {"off", "free", "set", "used"}
    BY TypeParts DEF LoaderInv
  <2>2. CASE stream' = stream /\ pc' = i /\ content' = content
    BY <1>6, <2>1, <2>2 DEF Feeds, IsRequested
  <2>3. CASE /\ stream' = [stream EXCEPT ![1].state = "requested", ![1].notify = FALSE]
             /\ pc' = NoOp /\ content' = "set"
    <3>1. 1 \in Streams
      BY BoundsAssumption DEF Streams
    <3>2. /\ stream' \in [Streams -> StreamRecs]
          /\ \A k \in Streams : (k # 1 => stream'[k] = stream[k]) /\ stream'[k].sent = stream[k].sent
          /\ stream'[1].state = "requested"
      <4>. PICK x : x = stream[1]
        OBVIOUS
      <4>. PICK y : y = [x EXCEPT !.state = "requested", !.notify = FALSE]
        OBVIOUS
      <4>1. x \in StreamRecs
        BY <2>1, <3>1
      <4>2. y \in StreamRecs /\ y.state = "requested" /\ y.sent = x.sent
        BY <4>1 DEF StreamRecs
      <4>3. stream' = [stream EXCEPT ![1] = y]
        BY <2>3
      <4>4. /\ stream' \in [Streams -> StreamRecs] /\ stream'[1] = y
            /\ \A k \in Streams : k # 1 => stream'[k] = stream[k]
        BY <2>1, <3>1, <4>2, <4>3
      <4>. QED
        BY <4>2, <4>4
    <3>. QED
      BY <3>2, <2>3, <1>6 DEF Feeds, IsRequested
  <2>. QED
    BY <1>3, <2>2, <2>3
<1>9. TypeOK'
  <2>1. pc' \in Ops \cup {NoOp} /\ ul'.read_pos <= ul'.file
    BY <1>2, <1>3
  <2>. QED
    BY <1>1, <1>2, <1>4, <1>8, <2>1, TypeParts, TypeNext DEF LoaderInv
<1>10. OnePlace' /\ NotLost' /\ Handler' /\ Drained'
  <2>1. OnePlace'
    BY <1>1, <1>2, <1>4, <1>5, <1>6, <1>7 DEF LoaderInv, OnePlace, SameBut
  <2>2. NotLost'
    BY <1>1, <1>2, <1>4, <1>6 DEF NotLost, Somewhere, SameBut
  <2>3. Handler' /\ Drained'
    BY <1>1, <1>2, <1>6, <1>8 DEF LoaderInv, Handler, Drained, SameBut
  <2>. QED
    BY <2>1, <2>2, <2>3
<1>11. Live'
  <2>1. Unanswered'
    BY <1>4, <1>5, <1>6, <1>7 DEF Unanswered
  <2>2. OneStream'
    BY <1>1, <1>2, <1>6, <1>8, <2>1 DEF OneStream
  <2>3. FinishOnce'
    BY <1>2, <1>6, Numbers DEF FinishOnce, SameBut
  <2>. QED
    BY <2>2, <2>3 DEF Live
<1>12. Calls'
  BY <1>1, <1>2, <1>3, <1>4, <1>5, <1>6, <1>7, Numbers DEF LoaderInv, Calls, Somewhere, SameBut
<1>13. Reads'
  BY <1>1, <1>2, <1>4, <1>6, <1>7 DEF Reads, Served, SameBut
<1>. QED
  BY <1>9, <1>10, <1>11, <1>12, <1>13 DEF LoaderInv

LEMMA DetachedStream ==
  ASSUME NEW s \in [Streams -> StreamRecs], NEW k \in Streams,
         NEW t, t = [s EXCEPT ![k].pdata = FALSE]
  PROVE  /\ t \in [Streams -> StreamRecs]
         /\ \A j \in Streams : /\ j # k => t[j] = s[j]
                               /\ t[j].sent = s[j].sent /\ t[j].state = s[j].state
         /\ ~t[k].pdata
BY DEF StreamRecs

(* The loader lets go of its stream. *)
LEMMA DetachedEffect ==
  ASSUME LoaderInv, stream' = Detached
  PROVE  /\ stream' \in [Streams -> StreamRecs]
         /\ \A j \in Streams : /\ (IsRequested(j)' <=> IsRequested(j))
                               /\ stream'[j].sent = stream[j].sent
                               /\ Feeds(j)' => Feeds(j) /\ ul.np_stream # j
<1>1. stream \in [Streams -> StreamRecs] /\ ul.np_stream \in Streams \cup {NoStream}
  BY TypeParts, Types DEF LoaderInv
<1>2. CASE ul.np_stream = NoStream
  BY <1>1, <1>2, Numbers DEF Detached, IsRequested, Feeds
<1>3. CASE ul.np_stream # NoStream
  <2>. PICK k \in Streams : k = ul.np_stream
    BY <1>1, <1>3
  <2>1. stream' = [stream EXCEPT ![k].pdata = FALSE]
    BY <1>3 DEF Detached
  <2>2. /\ stream' \in [Streams -> StreamRecs]
        /\ \A j \in Streams : /\ j # k => stream'[j] = stream[j]
                              /\ stream'[j].sent = stream[j].sent /\ stream'[j].state = stream[j].state
        /\ ~stream'[k].pdata
    BY <1>1, <2>1, DetachedStream
  <2>. QED
    BY <2>2 DEF IsRequested, Feeds
<1>. QED
  BY <1>2, <1>3

LEMMA RestartedEffect ==
  ASSUME LoaderInv, NEW i \in Ops \cup {NoOp}, ul' = Restarted(i)
  PROVE  /\ ul' \in Loader
         /\ SameBut(ul, ul', {"open", "file", "read_pos", "redirect_url", "np_stream", "ccb", "gen"})
         /\ ul'.open = "yes" /\ ul'.file = 0 /\ ul'.read_pos = 0 /\ ~ul'.redirect_url
         /\ ul'.np_stream = NoStream /\ ul'.ccb = i /\ ul'.gen = ul.gen + 1
<1>1. ul \in Loader /\ ul.gen + 1 \in Nat /\ 0 \in 0 .. MaxBytes
  BY TypeParts, Types, BoundsAssumption DEF LoaderInv
<1>2. ul' = [ul EXCEPT !.open = "yes", !.file = 0, !.read_pos = 0, !.redirect_url = FALSE,
                       !.np_stream = NoStream, !.ccb = i, !.gen = @ + 1]
  BY DEF Restarted
<1>3. ul' \in Loader
  <2>. DEFINE r == [ul EXCEPT !.open = "yes", !.file = 0, !.read_pos = 0, !.redirect_url = FALSE,
                              !.np_stream = NoStream, !.ccb = i, !.gen = @ + 1]
  <2>1. r \in Loader
    BY <1>1 DEF Loader
  <2>. QED
    BY <1>2, <2>1
<1>4. SameBut(ul, ul', {"open", "file", "read_pos", "redirect_url", "np_stream", "ccb", "gen"})
  BY <1>1, <1>2 DEF Loader, SameBut
<1>. QED
  BY <1>1, <1>2, <1>3, <1>4 DEF Loader

LEMMA FollowKeeps ==
  ASSUME LoaderInv, NEW i \in Ops, ppb_url_loader_follow_redirect(i)
  PROVE  LoaderInv'
<1>1. /\ pc = NoOp /\ ul.alive /\ ~ul.follow_redirects /\ ul.redirect_url /\ LastOpenOk /\ NextOp(i)
      /\ loop' = loop /\ bh' = bh /\ content' = content /\ pc' = i
  BY DEF ppb_url_loader_follow_redirect, PluginRuns
<1>2. /\ ul' \in Loader
      /\ SameBut(ul, ul', {"open", "file", "read_pos", "redirect_url", "np_stream", "ccb", "gen"})
      /\ ul'.open = "yes" /\ ul'.file = 0 /\ ul'.read_pos = 0 /\ ~ul'.redirect_url
      /\ ul'.np_stream = NoStream /\ ul'.ccb = i /\ ul'.gen = ul.gen + 1
  BY RestartedEffect DEF ppb_url_loader_follow_redirect
<1>3. /\ op' \in [Ops -> OpRecs]
      /\ \A j \in Ops : j # i => op'[j] = op[j]
      /\ op'[i].kind = "open" /\ op'[i].state = "begun"
      /\ op'[i].called = op[i].called /\ op'[i].ok = op[i].ok
  <2>1. op \in [Ops -> OpRecs] /\ op' = Started(i, "open", "begun")
    BY TypeParts DEF LoaderInv, ppb_url_loader_follow_redirect
  <2>. QED
    BY <2>1, StartedEffect
<1>4. /\ op[i].state = "unused" /\ op[i].kind = "none" /\ op[i].called = 0 /\ ~op[i].ok
      /\ ~Waiting(i) /\ ~OnLoop(i) /\ bh.ccb # i /\ ul.stream_to_file_ccb # i
      /\ \A j \in Ops : op[j].state # "unused" => j < i
      /\ \A j \in Ops : j < i => op[j].state # "unused"
  BY <1>1, NextOpEffect
<1>5. /\ stream' \in [Streams -> StreamRecs]
      /\ \A j \in Streams : /\ (IsRequested(j)' <=> IsRequested(j))
                            /\ stream'[j].sent = stream[j].sent
                            /\ Feeds(j)' => Feeds(j) /\ ul.np_stream # j
  BY DetachedEffect DEF ppb_url_loader_follow_redirect
<1>6. /\ \A j \in Ops : (Waiting(j)' <=> Waiting(j)) /\ (OnLoop(j)' <=> OnLoop(j))
                        /\ (OkOnLoop(j)' <=> OkOnLoop(j))
      /\ InOrder' /\ OnceOnLoop' /\ ~OkOnLoop(i)
  BY <1>1, <1>2, <1>4, SamePlaces DEF SameBut, OkOnLoop, OnLoop
<1>7. ul.ccb = NoOp /\ ~Unanswered
  BY <1>1, LastOpenEffect
<1>8. TypeOK'
  <2>1. ul'.read_pos <= ul'.file
    BY <1>2
  <2>. QED
    BY <1>1, <1>2, <1>3, <1>5, <2>1, TypeParts, TypeNext DEF LoaderInv
<1>9. OnePlace' /\ NotLost' /\ Handler' /\ Drained'
  <2>1. OnePlace'
    BY <1>1, <1>2, <1>3, <1>4, <1>6 DEF LoaderInv, OnePlace, SameBut
  <2>2. NotLost'
    BY <1>1, <1>2, <1>3, <1>6, <1>7, Numbers DEF LoaderInv, NotLost, Somewhere, SameBut
  <2>3. Handler' /\ Drained'
    BY <1>1, <1>2, <1>5 DEF LoaderInv, Handler, Drained, SameBut
  <2>. QED
    BY <2>1, <2>2, <2>3
<1>10. Live'
  <2>0. OneStream /\ FinishOnce
    BY <1>1 DEF LoaderInv, Live
  <2>1. Unanswered'
    <3>. SUFFICES ASSUME NEW j \in Ops, op'[j].kind = "open",
                         \A l \in Ops : op'[l].kind = "open" => l <= j
                  PROVE  ~op'[j].ok /\ ~OkOnLoop(j)'
      BY DEF Unanswered
    <3>1. j = i
      <4>1. i <= j
        BY <1>3
      <4>2. j # i => op[j].state # "unused"
        BY <1>3 DEF LoaderInv, Calls
      <4>. QED
        BY <4>1, <4>2, <1>4, Numbers
    <3>. QED
      BY <3>1, <1>3, <1>4, <1>6
  <2>2. \A k \in Streams : ~IsRequested(k)
    BY <1>1, <1>7, <2>0 DEF OneStream
  <2>3. \A k \in Streams : ~IsRequested(k)' /\ ~Feeds(k)'
    BY <1>5, <2>0, <2>2 DEF OneStream
  <2>4. bh.at \notin {"follow", "request", "drain"}
    BY <1>1, <2>0 DEF OneStream
  <2>5. OneStream'
    BY <1>1, <1>2, <2>1, <2>3, <2>4 DEF OneStream
  <2>6. FinishOnce'
    BY <1>1, <1>2, <2>0 DEF FinishOnce, SameBut
  <2>. QED
    BY <2>5, <2>6 DEF Live
<1>11. Calls'
  BY <1>1, <1>2, <1>3, <1>4, <1>6, <1>7, Numbers DEF LoaderInv, Calls, Somewhere, SameBut
<1>12. Reads'
  <2>1. \A j \in Ops : (Served(j)' <=> Served(j)) /\ (Served(j) => op'[j] = op[j])
    BY <1>3, <1>4 DEF Served
  <2>2. \A j \in Ops : Served(j) => op[j].gen # ul'.gen /\ op[j].gen <= ul'.gen
    BY <1>2, Types DEF LoaderInv, Reads
  <2>3. \A j \in Ops : op'[j].kind = "read" => op[j].kind = "read"
    BY <1>3
  <2>. QED
    BY <1>2, <1>6, <2>1, <2>2, <2>3 DEF LoaderInv, Reads
<1>. QED
  BY <1>8, <1>9, <1>10, <1>11, <1>12 DEF LoaderInv

(* What a read gets is inside the file. *)
LEMMA AvailableBound ==
  ASSUME NEW u \in Loader, u.read_pos <= u.file
  PROVE  Available(u) \in Nat /\ u.read_pos + Available(u) <= u.file
<1>1. u.file \in Nat /\ u.read_pos \in Nat /\ ReadSize \in Nat
  BY LoaderFields, BoundsAssumption
<1>. QED
  BY <1>1 DEF Available

(* The read i is served from where the last one ended. *)
LEMMA ServedReads ==
  ASSUME LoaderInv, NEW i \in Ops, NEW n \in Nat,
         \A j \in Ops : j # i => op'[j] = op[j],
         op'[i].kind = "read", op'[i].gen = ul.gen, op'[i].from = ul.read_pos, op'[i].n = n,
         ul'.gen = ul.gen, ul'.read_pos = ul.read_pos + n,
         \A j \in Ops : Served(j) => j < i,
         InOrder',
         \A j \in Ops : (Waiting(j)' <=> Waiting(j) /\ j # i),
         \A j \in Ops : Waiting(j) => i <= j
  PROVE  Reads'
<1>0. /\ ul.read_pos \in Nat /\ ul.gen \in Nat /\ i \in Nat
      /\ \A j \in Ops : j \in Nat /\ op[j].from \in Nat /\ op[j].n \in Nat /\ op[j].gen \in Nat
  BY Types, Numbers DEF LoaderInv
<1>. HIDE DEF Served
<1>9. \A j, k \in Ops : j < k => j # k
  BY ONLY Numbers
<1>1. \A j \in Ops : Served(j) => j # i /\ Served(j)' /\ op'[j] = op[j]
  <2>1. ASSUME NEW j \in Ops, Served(j) PROVE j # i /\ Served(j)' /\ op'[j] = op[j]
    <3>1. j # i
      BY <1>9, <2>1
    <3>2. op'[j] = op[j]
      BY <3>1
    <3>. QED
      BY <2>1, <3>1, <3>2 DEF Served
  <2>. QED
    BY <2>1
<1>2. \A j \in Ops : Served(j)' => Served(j) \/ (j = i /\ n > 0)
  BY DEF Served
<1>3. n > 0 => Served(i)'
  BY DEF Served
<1>4. ASSUME NEW a \in Ops, NEW b \in Ops, Waiting(a)', a < b, op'[b].kind = "read"
      PROVE  Waiting(b)'
  <2>1. b # i
    BY <1>0, <1>4
  <2>. QED
    BY <1>4, <2>1 DEF LoaderInv, Reads
<1>5. ASSUME NEW a \in Ops, Served(a)'
      PROVE  /\ op'[a].gen <= ul'.gen
             /\ op'[a].gen = ul'.gen => op'[a].from + op'[a].n <= ul'.read_pos
             /\ \A j \in Ops : j < a /\ Served(j)' /\ op'[j].gen = op'[a].gen
                               => op'[j].from + op'[j].n <= op'[a].from
             /\ \/ op'[a].from = 0
                \/ \E j \in Ops : /\ j < a /\ Served(j)' /\ op'[j].gen = op'[a].gen
                                  /\ op'[j].from + op'[j].n = op'[a].from
  <2>1. CASE a = i
    <3>1. op'[a].gen <= ul'.gen /\ op'[a].from + op'[a].n <= ul'.read_pos
      BY <1>0, <2>1
    <3>2. ASSUME NEW j \in Ops, j < a, Served(j)', op'[j].gen = op'[a].gen
          PROVE  op'[j].from + op'[j].n <= op'[a].from
      <4>1. Served(j) /\ op'[j] = op[j]
        BY <1>9, <1>1, <1>2, <2>1, <3>2
      <4>. QED
        BY <4>1, <2>1, <3>2 DEF LoaderInv, Reads
    <3>3. \/ op'[a].from = 0
          \/ \E j \in Ops : /\ j < a /\ Served(j)' /\ op'[j].gen = op'[a].gen
                            /\ op'[j].from + op'[j].n = op'[a].from
      <4>1. CASE ul.read_pos = 0
        BY <4>1, <2>1
      <4>2. CASE ul.read_pos # 0
        <5>1. PICK j \in Ops : /\ Served(j) /\ op[j].gen = ul.gen
                               /\ op[j].from + op[j].n = ul.read_pos
          BY <4>2 DEF LoaderInv, Reads
        <5>. QED
          BY <5>1, <1>1, <2>1
      <4>. QED
        BY <4>1, <4>2
    <3>. QED
      BY <3>1, <3>2, <3>3
  <2>2. CASE a # i
    <3>1. Served(a) /\ op'[a] = op[a] /\ a < i
      BY <1>2, <2>2, <1>5
    <3>2. op'[a].gen <= ul'.gen
      BY <3>1 DEF LoaderInv, Reads
    <3>3. op'[a].gen = ul'.gen => op'[a].from + op'[a].n <= ul'.read_pos
      <4>1. op[a].gen = ul.gen => op[a].from + op[a].n <= ul.read_pos
        BY <3>1 DEF LoaderInv, Reads
      <4>. QED
        BY <4>1, <3>1, <1>0
    <3>4. ASSUME NEW j \in Ops, j < a, Served(j)', op'[j].gen = op'[a].gen
          PROVE  op'[j].from + op'[j].n <= op'[a].from
      <4>1. j # i
        <5>1. ~(a < i /\ i < a)
          BY ONLY Numbers, a \in Ops, i \in Ops
        <5>. QED
          BY <5>1, <3>1, <3>4
      <4>2. Served(j) /\ op'[j] = op[j]
        BY <4>1, <1>2, <3>4
      <4>. QED
        BY <4>2, <3>1, <3>4 DEF LoaderInv, Reads
    <3>5. \/ op'[a].from = 0
          \/ \E j \in Ops : /\ j < a /\ Served(j)' /\ op'[j].gen = op'[a].gen
                            /\ op'[j].from + op'[j].n = op'[a].from
      <4>1. \/ op[a].from = 0
            \/ \E j \in Ops : /\ j < a /\ Served(j) /\ op[j].gen = op[a].gen
                              /\ op[j].from + op[j].n = op[a].from
        BY <3>1 DEF LoaderInv, Reads
      <4>. QED
        BY <4>1, <1>1, <3>1
    <3>. QED
      BY <3>2, <3>3, <3>4, <3>5
  <2>. QED
    BY <2>1, <2>2
<1>6. \/ ul'.read_pos = 0
      \/ \E j \in Ops : /\ Served(j)' /\ op'[j].gen = ul'.gen
                        /\ op'[j].from + op'[j].n = ul'.read_pos
  <2>1. CASE n > 0
    BY <2>1, <1>3
  <2>2. CASE n = 0
    <3>1. ul'.read_pos = ul.read_pos
      BY <2>2, <1>0
    <3>2. CASE ul.read_pos # 0
      <4>1. PICK j \in Ops : /\ Served(j) /\ op[j].gen = ul.gen
                             /\ op[j].from + op[j].n = ul.read_pos
        BY <3>2 DEF LoaderInv, Reads
      <4>. QED
        BY <4>1, <1>1, <3>1
    <3>. QED
      BY <3>1, <3>2
  <2>. QED
    BY <2>1, <2>2
<1>. QED
  BY <1>4, <1>5, <1>6 DEF Reads

(* What is taken from the file. *)
LEMMA AdvancedEffect ==
  ASSUME NEW u \in Loader, u.read_pos <= u.file, NEW v, v = Advanced(u)
  PROVE  /\ v \in Loader /\ SameBut(u, v, {"read_pos"})
         /\ v.read_pos = u.read_pos + Available(u) /\ v.read_pos <= v.file
<1>1. Available(u) \in Nat /\ u.read_pos + Available(u) <= u.file /\ u.read_pos \in Nat
  BY AvailableBound, LoaderFields
<1>. PICK n \in Nat : n = Available(u) /\ u.read_pos + n <= u.file /\ u.read_pos + n \in Nat
  BY <1>1
<1>2. v = [u EXCEPT !.read_pos = @ + n]
  BY DEF Advanced
<1>3. v \in Loader
  BY <1>2 DEF Loader
<1>4. SameBut(u, v, {"read_pos"}) /\ v.read_pos = u.read_pos + n
  BY <1>2 DEF Loader, SameBut
<1>. QED
  BY <1>3, <1>4 DEF SameBut

LEMMA GotEffect ==
  ASSUME NEW o \in [Ops -> OpRecs], NEW i \in Ops, NEW u \in Loader, u.read_pos <= u.file,
         NEW p, p = Got(o, i, u)
  PROVE  /\ p \in [Ops -> OpRecs]
         /\ \A j \in Ops : j # i => p[j] = o[j]
         /\ p[i].kind = o[i].kind /\ p[i].state = o[i].state
         /\ p[i].called = o[i].called /\ p[i].ok = o[i].ok
         /\ p[i].gen = u.gen /\ p[i].from = u.read_pos /\ p[i].n = Available(u)
<1>1. Available(u) \in Nat /\ u.read_pos \in Nat /\ u.gen \in Nat
  BY AvailableBound, LoaderFields
<1>. PICK g \in Nat, f \in Nat, n \in Nat : g = u.gen /\ f = u.read_pos /\ n = Available(u)
  BY <1>1
<1>. PICK r \in OpRecs : r = o[i]
  OBVIOUS
<1>2. p = [o EXCEPT ![i] = [r EXCEPT !.gen = g, !.from = f, !.n = n]]
  BY DEF Got
<1>3. /\ [r EXCEPT !.gen = g, !.from = f, !.n = n] \in OpRecs
      /\ [r EXCEPT !.gen = g, !.from = f, !.n = n].kind = r.kind
      /\ [r EXCEPT !.gen = g, !.from = f, !.n = n].state = r.state
      /\ [r EXCEPT !.gen = g, !.from = f, !.n = n].called = r.called
      /\ [r EXCEPT !.gen = g, !.from = f, !.n = n].ok = r.ok
      /\ [r EXCEPT !.gen = g, !.from = f, !.n = n].gen = g
      /\ [r EXCEPT !.gen = g, !.from = f, !.n = n].from = f
      /\ [r EXCEPT !.gen = g, !.from = f, !.n = n].n = n
  BY DEF OpRecs
<1>. PICK q \in OpRecs : q = [r EXCEPT !.gen = g, !.from = f, !.n = n]
  BY <1>3
<1>4. p = [o EXCEPT ![i] = q]
  BY <1>2
<1>5. /\ q.kind = r.kind /\ q.state = r.state /\ q.called = r.called /\ q.ok = r.ok
      /\ q.gen = g /\ q.from = f /\ q.n = n
  BY <1>3
<1>6. p \in [Ops -> OpRecs] /\ p[i] = q /\ \A j \in Ops : j # i => p[j] = o[j]
  BY <1>4
<1>. QED
  BY <1>5, <1>6

LEMMA ReadKeeps ==
  ASSUME LoaderInv, NEW i \in Ops, NEW optional \in BOOLEAN,
         ppb_url_loader_read_response_body(i, optional)
  PROVE  LoaderInv'
<1>1. /\ pc = NoOp /\ ul.alive /\ ul.open = "yes" /\ LastOpenOk /\ NextOp(i)
      /\ stream' = stream /\ pc' = pc /\ bh' = bh /\ content' = content
  BY DEF ppb_url_loader_read_response_body, PluginRuns
<1>2. /\ op[i].state = "unused" /\ op[i].kind = "none" /\ op[i].called = 0 /\ ~op[i].ok
      /\ ~Waiting(i) /\ ~OnLoop(i) /\ ul.ccb # i /\ bh.ccb # i /\ ul.stream_to_file_ccb # i
      /\ \A j \in Ops : op[j].state # "unused" => j < i
      /\ \A j \in Ops : j < i => op[j].state # "unused"
  BY <1>1, NextOpEffect
<1>3. \A j \in Ops : Waiting(j) => op[j].state # "unused"
  BY DEF LoaderInv, Calls, Somewhere
<1>4. op \in [Ops -> OpRecs] /\ ul \in Loader /\ ul.read_pos <= ul.file /\ loop \in Seq(Tasks)
      /\ ul.read_tasks \in Seq(Ops)
  BY TypeParts, Types DEF LoaderInv
<1>5. \A k \in Streams : (IsRequested(k)' <=> IsRequested(k)) /\ (Feeds(k)' <=> Feeds(k))
  BY <1>1 DEF IsRequested, Feeds
<1>6. ASSUME ul.read_tasks # <<>> \/ (Available(ul) = 0 /\ ~ul.finished_loading)
      PROVE  LoaderInv'
  <2>1. loop' = loop /\ op' = Started(i, "read", "pending")
        /\ ul' = [ul EXCEPT !.read_tasks = Append(@, i)]
    BY <1>6 DEF ppb_url_loader_read_response_body
  <2>2. /\ op' \in [Ops -> OpRecs]
        /\ \A j \in Ops : j # i => op'[j] = op[j]
        /\ op'[i].kind = "read" /\ op'[i].state = "pending"
        /\ op'[i].called = op[i].called /\ op'[i].ok = op[i].ok
        /\ op'[i].gen = op[i].gen /\ op'[i].from = op[i].from /\ op'[i].n = op[i].n
    BY <2>1, <1>4, StartedEffect
  <2>3. /\ ul' \in Loader /\ SameBut(ul, ul', {"read_tasks"})
        /\ ul'.read_tasks = Append(ul.read_tasks, i)
    <3>1. Append(ul.read_tasks, i) \in Seq(Ops)
      BY <1>4, AppendFacts
    <3>. PICK s \in Seq(Ops) : s = Append(ul.read_tasks, i)
      BY <3>1
    <3>2. ul' = [ul EXCEPT !.read_tasks = s]
      BY <2>1
    <3>. QED
      BY <1>4, <3>2 DEF Loader, SameBut
  <2>4. /\ \A j \in Ops : /\ (Waiting(j)' <=> Waiting(j) \/ j = i)
                          /\ (OnLoop(j)' <=> OnLoop(j)) /\ (OkOnLoop(j)' <=> OkOnLoop(j))
        /\ InOrder' /\ OnceOnLoop'
    BY <2>1, <2>3, <1>2, <1>3, <1>4, QueuedEffect, LoopSame DEF LoaderInv, OnePlace, Reads
  <2>5. TypeOK'
    BY <1>1, <1>4, <2>1, <2>2, <2>3, TypeParts, TypeNext DEF LoaderInv, SameBut
  <2>7. OnePlace' /\ NotLost' /\ Handler' /\ Drained'
    <3>1. OnePlace'
      BY <1>1, <1>2, <2>2, <2>3, <2>4 DEF LoaderInv, OnePlace, SameBut
    <3>2. NotLost'
      BY <1>1, <2>2, <2>3, <2>4 DEF LoaderInv, NotLost, Somewhere, SameBut
    <3>3. Handler' /\ Drained'
      BY <1>1, <1>6, <2>3 DEF LoaderInv, Handler, Drained, SameBut
    <3>. QED
      BY <3>1, <3>2, <3>3
  <2>8. Live'
    <3>0. OneStream /\ FinishOnce
      BY <1>1 DEF LoaderInv, Live
    <3>1. Unanswered => Unanswered'
      BY <1>2, <2>2, <2>4 DEF Unanswered
    <3>2. OneStream'
      BY <1>1, <1>5, <2>3, <3>0, <3>1 DEF OneStream, SameBut
    <3>3. Quiet => Quiet'
      BY <1>1, <1>5, <2>3 DEF Quiet, SameBut
    <3>4. FinishOnce'
      BY <1>1, <1>2, <1>5, <2>2, <2>3, <2>4, <3>0, <3>3, Types DEF LoaderInv, FinishOnce, SameBut
    <3>. QED
      BY <3>2, <3>4 DEF Live
  <2>9. op[i].n = 0
    BY <1>2 DEF LoaderInv, Calls
  <2>10. Calls'
    BY <1>1, <1>2, <2>2, <2>3, <2>4, <2>9, Numbers DEF LoaderInv, Calls, Somewhere, SameBut
  <2>11. Reads'
    <3>1. \A j \in Ops : (Served(j)' <=> Served(j)) /\ (Served(j) => op'[j] = op[j])
      BY <1>2, <2>2, <2>9 DEF Served
    <3>2. ASSUME NEW a \in Ops, NEW b \in Ops, Waiting(a)', a < b, op'[b].kind = "read"
          PROVE  Waiting(b)'
      <4>1. CASE b = i
        BY <4>1, <2>4
      <4>2. CASE b # i
        <5>1. op[b].kind = "read" /\ op[b].state # "unused"
          BY <4>2, <3>2, <2>2 DEF LoaderInv, Calls
        <5>2. a # i
          BY <5>1, <1>2, <3>2, Numbers
        <5>. QED
          BY <5>1, <5>2, <3>2, <2>4 DEF LoaderInv, Reads
      <4>. QED
        BY <4>1, <4>2
    <3>. QED
      BY <2>3, <2>4, <3>1, <3>2 DEF LoaderInv, Reads, SameBut
  <2>. QED
    BY <2>5, <2>7, <2>8, <2>10, <2>11 DEF LoaderInv
<1>7. ASSUME ~(ul.read_tasks # <<>> \/ (Available(ul) = 0 /\ ~ul.finished_loading))
      PROVE  LoaderInv'
  <2>. PICK st \in {"returned", "pending"} : st = IF optional THEN "returned" ELSE "pending"
    OBVIOUS
  <2>1. /\ ul' = Advanced(ul)
        /\ op' = Got(Started(i, "read", st), i, ul)
        /\ IF optional THEN loop' = loop ELSE Post(i, TRUE)
    BY <1>7 DEF ppb_url_loader_read_response_body
  <2>. PICK n \in Nat : n = Available(ul)
    BY <1>4, AvailableBound
  <2>2. /\ ul' \in Loader /\ SameBut(ul, ul', {"read_pos"})
        /\ ul'.read_pos = ul.read_pos + n /\ ul'.read_pos <= ul'.file
    BY <2>1, <1>4, AdvancedEffect
  <2>3. /\ op' \in [Ops -> OpRecs]
        /\ \A j \in Ops : j # i => op'[j] = op[j]
        /\ op'[i].kind = "read" /\ op'[i].state = st
        /\ op'[i].called = op[i].called /\ op'[i].ok = op[i].ok
        /\ op'[i].gen = ul.gen /\ op'[i].from = ul.read_pos /\ op'[i].n = n
    <3>. PICK o : o = Started(i, "read", st)
      OBVIOUS
    <3>1. /\ o \in [Ops -> OpRecs]
          /\ \A j \in Ops : j # i => o[j] = op[j]
          /\ o[i].kind = "read" /\ o[i].state = st
          /\ o[i].called = op[i].called /\ o[i].ok = op[i].ok
      <4>1. st \in {"unused", "begun", "pending", "returned"}
        OBVIOUS
      <4>. QED
        BY <1>4, <4>1, StartedEffect
    <3>2. op' = Got(o, i, ul)
      BY <2>1
    <3>. QED
      BY <1>4, <3>1, <3>2, GotEffect
  <2>4. ul.read_tasks = << >> /\ \A j \in Ops : ~Waiting(j)
    BY <1>7 DEF Waiting
  <2>5. /\ \A j \in Ops : ~Waiting(j)'
        /\ \A j \in Ops : (OnLoop(j)' <=> OnLoop(j) \/ (j = i /\ ~optional))
        /\ \A j \in Ops : OkOnLoop(j)' => OkOnLoop(j) \/ j = i
        /\ InOrder' /\ OnceOnLoop' /\ loop' \in Seq(Tasks)
    <3>1. InOrder' /\ \A j \in Ops : ~Waiting(j)'
      BY <2>2, <2>4, WaitingSame DEF LoaderInv, Reads, SameBut
    <3>2. CASE optional
      BY <1>4, <2>1, <3>1, <3>2, LoopSame DEF LoaderInv, OnePlace
    <3>3. CASE ~optional
      <4>1. Post(i, TRUE) /\ i \in Ops \cup {NoOp}
        BY <2>1, <3>3
      <4>. QED
        BY <1>2, <1>4, <3>1, <3>3, <4>1, PostEffect DEF LoaderInv, OnePlace
    <3>. QED
      BY <3>2, <3>3
  <2>6. TypeOK'
    BY <1>1, <2>2, <2>3, <2>5, TypeParts, TypeNext DEF LoaderInv
  <2>7. OnePlace' /\ NotLost' /\ Handler' /\ Drained'
    <3>1. OnePlace'
      BY <1>1, <1>2, <2>2, <2>3, <2>4, <2>5 DEF LoaderInv, OnePlace, SameBut
    <3>2. NotLost'
      BY <1>1, <2>2, <2>3, <2>4, <2>5 DEF LoaderInv, NotLost, Somewhere, SameBut
    <3>3. Handler' /\ Drained'
      BY <1>1, <2>2 DEF LoaderInv, Handler, Drained, SameBut
    <3>. QED
      BY <3>1, <3>2, <3>3
  <2>8. Live'
    <3>0. OneStream /\ FinishOnce
      BY <1>1 DEF LoaderInv, Live
    <3>1. Unanswered => Unanswered'
      BY <1>2, <2>3, <2>5 DEF Unanswered
    <3>2. OneStream'
      BY <1>1, <1>5, <2>2, <3>0, <3>1 DEF OneStream, SameBut
    <3>3. Quiet => Quiet'
      BY <1>1, <1>5, <2>2 DEF Quiet, SameBut
    <3>4. FinishOnce'
      BY <1>1, <1>2, <1>5, <2>2, <2>3, <2>5, <3>0, <3>3, Types DEF LoaderInv, FinishOnce, SameBut
    <3>. QED
      BY <3>2, <3>4 DEF Live
  <2>9. Calls'
    BY <1>1, <1>2, <2>2, <2>3, <2>4, <2>5, Numbers DEF LoaderInv, Calls, Somewhere, SameBut
  <2>10. Reads'
    <3>1. \A j \in Ops : Served(j) => j < i
      BY <1>2 DEF LoaderInv, Calls, Served
    <3>2. ul'.gen = ul.gen /\ ul'.read_pos = ul.read_pos + n
      BY <2>2 DEF SameBut
    <3>. QED
      BY <2>3, <2>4, <2>5, <3>1, <3>2, ServedReads
  <2>. QED
    BY <2>6, <2>7, <2>8, <2>9, <2>10 DEF LoaderInv
<1>. QED
  BY <1>6, <1>7

(* A read goes from the list to the loop. *)
LEMMA ServedPlaces ==
  ASSUME LoaderInv, NEW i \in Ops, Waiting(i),
         ul'.ccb = ul.ccb, ul'.alive = ul.alive, ul'.open = ul.open,
         ul'.stream_to_file_ccb = ul.stream_to_file_ccb,
         pc' = pc, bh.ccb = NoOp, bh'.ccb = NoOp,
         \A j \in Ops : /\ op'[j].kind = op[j].kind /\ op'[j].state = op[j].state
                        /\ op'[j].called = op[j].called /\ op'[j].ok = op[j].ok,
         \A j \in Ops : j # i => op'[j].n = op[j].n,
         \A j \in Ops : (Waiting(j)' <=> Waiting(j) /\ j # i),
         \A j \in Ops : (OnLoop(j)' <=> OnLoop(j) \/ j = i),
         OnceOnLoop'
  PROVE  OnePlace' /\ NotLost' /\ Calls'
<1>1. op[i].kind = "read" /\ op[i].state = "pending" /\ op[i].called = 0 /\ ~OnLoop(i)
      /\ ul.ccb # i
  BY DEF LoaderInv, Calls, OnePlace
<1>2. OnePlace'
  BY <1>1, Numbers DEF LoaderInv, OnePlace
<1>3. NotLost'
  BY <1>1 DEF LoaderInv, NotLost, Somewhere
<1>4. Calls'
  <2>. SUFFICES ASSUME NEW j \in Ops
                PROVE
    /\ op'[j].state = "unused" => op'[j].kind = "none" /\ op'[j].n = 0 /\ ~Somewhere(j)'
    /\ op'[j].kind = "none" => op'[j].state = "unused"
    /\ (op'[j].state = "begun" <=> pc' = j)
    /\ op'[j].state = "begun" => op'[j].kind = "open"
    /\ ul'.ccb = j => op'[j].kind = "open" /\ \A k \in Ops : op'[k].kind = "open" => k <= j
    /\ bh'.ccb = j => op'[j].kind = "open"
    /\ Waiting(j)' => op'[j].kind = "read" /\ op'[j].state = "pending" /\ op'[j].n = 0
    /\ (op'[j].kind = "finish" <=> ul'.stream_to_file_ccb = j)
    /\ op'[j].called = 0 => ~op'[j].ok
    /\ \A k \in Ops : k < j /\ op'[k].state = "unused" => op'[j].state = "unused"
    /\ ul'.open = "no" => op'[j].state = "unused"
    BY DEF Calls
  <2>1. op'[j].state = "unused" => op'[j].kind = "none" /\ op'[j].n = 0 /\ ~Somewhere(j)'
    BY <1>1, Numbers DEF LoaderInv, Calls, Somewhere
  <2>2. Waiting(j)' => op'[j].kind = "read" /\ op'[j].state = "pending" /\ op'[j].n = 0
    BY DEF LoaderInv, Calls
  <2>. QED
    BY <2>1, <2>2, Numbers DEF LoaderInv, Calls
<1>. QED
  BY <1>2, <1>3, <1>4

(* The first waiting read is served by a handler of the browser thread,    *)
(* from a file that may have grown.                                        *)
LEMMA ServeFirstEffect ==
  ASSUME LoaderInv, NEW u \in Loader, SameBut(ul, u, {"file", "np_stream", "finished_loading"}),
         u.read_pos <= u.file, u.read_tasks # << >>, ul.alive, ServeFirst(u),
         pc' = pc, bh.ccb = NoOp, bh'.ccb = NoOp
  PROVE  /\ ul' \in Loader /\ SameBut(u, ul', {"read_pos", "read_tasks"})
         /\ ul'.read_pos <= ul'.file
         /\ op' \in [Ops -> OpRecs] /\ loop' \in Seq(Tasks)
         /\ OnePlace' /\ NotLost' /\ Calls' /\ Reads'
         /\ Unanswered => Unanswered'
         /\ ul'.stream_to_file_ccb = ul.stream_to_file_ccb
         /\ \A f \in Ops : ul.stream_to_file_ccb = f =>
              (OnLoop(f)' <=> OnLoop(f)) /\ op'[f].called = op[f].called
<1>1. /\ op \in [Ops -> OpRecs] /\ loop \in Seq(Tasks) /\ ul.read_tasks \in Seq(Ops)
      /\ u.read_tasks = ul.read_tasks /\ u.gen = ul.gen /\ u.read_pos = ul.read_pos
  BY TypeParts, Types DEF LoaderInv, SameBut
<1>. PICK i : i = Head(ul.read_tasks)
  OBVIOUS
<1>. PICK v : v = [u EXCEPT !.read_tasks = Tail(@)]
  OBVIOUS
<1>2. ul' = Advanced(v) /\ op' = Got(op, i, u) /\ loop' = Append(loop, Task(i, u.open = "yes", TRUE))
  BY <1>1 DEF ServeFirst
<1>3. Tail(ul.read_tasks) \in Seq(Ops) /\ i \in Ops
  BY <1>1, TailFacts
<1>4. /\ v \in Loader /\ SameBut(u, v, {"read_tasks"}) /\ v.read_tasks = Tail(ul.read_tasks)
      /\ Available(v) = Available(u)
  <2>. PICK s \in Seq(Ops) : s = Tail(ul.read_tasks)
    BY <1>3
  <2>1. v = [u EXCEPT !.read_tasks = s]
    BY <1>1
  <2>0. u \in Loader
    BY <1>1
  <2>2. v \in Loader /\ SameBut(u, v, {"read_tasks"}) /\ v.read_tasks = s
    <3>1. v \in Loader
      BY <2>0, <2>1 DEF Loader
    <3>2. SameBut(u, v, {"read_tasks"}) /\ v.read_tasks = s
      BY <2>0, <2>1 DEF Loader, SameBut
    <3>. QED
      BY <3>1, <3>2
  <2>. QED
    BY <2>2 DEF Available, SameBut
<1>. PICK n \in Nat : n = Available(u)
  BY AvailableBound
<1>5. /\ ul' \in Loader /\ SameBut(v, ul', {"read_pos"})
      /\ ul'.read_pos = v.read_pos + n /\ ul'.read_pos <= ul'.file
  <2>1. v.read_pos <= v.file
    BY <1>4 DEF SameBut
  <2>. QED
    BY <2>1, <1>2, <1>4, AdvancedEffect
<1>6. /\ SameBut(u, ul', {"read_pos", "read_tasks"}) /\ ul'.read_pos = ul.read_pos + n
      /\ SameBut(ul, ul', {"file", "np_stream", "finished_loading", "read_pos", "read_tasks"})
      /\ ul'.read_tasks = Tail(ul.read_tasks)
  <2>1. SameBut(u, ul', {"read_pos", "read_tasks"})
    BY <1>4, <1>5 DEF SameBut
  <2>2. SameBut(ul, ul', {"file", "np_stream", "finished_loading", "read_pos", "read_tasks"})
    BY <2>1 DEF SameBut
  <2>3. v.read_pos = ul.read_pos /\ ul'.read_tasks = v.read_tasks
    BY <1>1, <1>4, <1>5 DEF SameBut
  <2>. QED
    BY <1>4, <1>5, <2>1, <2>2, <2>3
<1>7. /\ op' \in [Ops -> OpRecs]
      /\ \A j \in Ops : j # i => op'[j] = op[j]
      /\ op'[i].kind = op[i].kind /\ op'[i].state = op[i].state
      /\ op'[i].called = op[i].called /\ op'[i].ok = op[i].ok
      /\ op'[i].gen = ul.gen /\ op'[i].from = ul.read_pos /\ op'[i].n = n
  BY <1>1, <1>2, <1>3, GotEffect
<1>8. /\ Waiting(i)
      /\ \A j \in Ops : Waiting(j) => i <= j
      /\ \A j \in Ops : (Waiting(j)' <=> Waiting(j) /\ j # i)
      /\ InOrder'
  BY <1>1, <1>6, DequeuedEffect DEF LoaderInv, Reads
<1>9. op[i].kind = "read" /\ op[i].state = "pending" /\ op[i].n = 0 /\ op[i].called = 0 /\ ~OnLoop(i)
      /\ ul.ccb # i /\ bh.ccb # i
  BY <1>3, <1>8 DEF LoaderInv, Calls, OnePlace
<1>10. /\ loop' \in Seq(Tasks) /\ OnceOnLoop'
       /\ \A j \in Ops : (OnLoop(j)' <=> OnLoop(j) \/ j = i)
       /\ \A j \in Ops : OkOnLoop(j)' => OkOnLoop(j) \/ j = i
  <2>. PICK ok \in BOOLEAN : ok = (u.open = "yes")
    OBVIOUS
  <2>1. loop' = Append(loop, Task(i, ok, TRUE))
    BY <1>2
  <2>2. loop \in Seq(Tasks) /\ OnceOnLoop
    BY TypeParts DEF LoaderInv, OnePlace
  <2>. QED
    BY <1>3, <1>9, <2>1, <2>2, PostedEffect
<1>11. ul'.ccb = ul.ccb /\ ul'.alive = ul.alive /\ ul'.open = ul.open
       /\ ul'.stream_to_file_ccb = ul.stream_to_file_ccb
  BY <1>6 DEF SameBut
<1>12. /\ \A j \in Ops : /\ op'[j].kind = op[j].kind /\ op'[j].state = op[j].state
                         /\ op'[j].called = op[j].called /\ op'[j].ok = op[j].ok
       /\ \A j \in Ops : j # i => op'[j].n = op[j].n
  BY <1>7
<1>13. OnePlace' /\ NotLost' /\ Calls'
  BY <1>3, <1>8, <1>10, <1>11, <1>12, ServedPlaces
<1>14. Reads'
  <2>1. ASSUME NEW j \in Ops, Served(j) PROVE j < i
    <3>1. op[j].kind = "read" /\ op[j].n > 0
      BY <2>1 DEF Served
    <3>2. ~Waiting(j)
      BY <3>1, Types DEF LoaderInv, Calls
    <3>3. ~(i < j)
      BY <1>3, <1>8, <3>1, <3>2 DEF LoaderInv, Reads
    <3>. QED
      BY <3>2, <3>3, <1>3, <1>8, Numbers
  <2>2. ul'.gen = ul.gen /\ op'[i].kind = "read"
    BY <1>6, <1>7, <1>9 DEF SameBut
  <2>. QED
    BY <2>1, <2>2, <1>3, <1>6, <1>7, <1>8, ServedReads
<1>15. Unanswered => Unanswered'
  BY <1>3, <1>7, <1>9, <1>10 DEF Unanswered
<1>16. ul'.stream_to_file_ccb = ul.stream_to_file_ccb
  BY <1>6 DEF SameBut
<1>17. ASSUME NEW f \in Ops, ul.stream_to_file_ccb = f
       PROVE  (OnLoop(f)' <=> OnLoop(f)) /\ op'[f].called = op[f].called
  <2>1. f # i
    BY <1>9, <1>17 DEF LoaderInv, Calls
  <2>. QED
    BY <2>1, <1>7, <1>10
<1>. QED
  BY <1>5, <1>6, <1>7, <1>10, <1>13, <1>14, <1>15, <1>16, <1>17

LEMMA NewStreamKeeps ==
  ASSUME LoaderInv, NEW k \in Streams, NPP_NewStream(k)
  PROVE  LoaderInv'
<1>1. /\ bh.at = "idle" /\ IsRequested(k) /\ op' = op /\ pc' = pc
      /\ content' \in {"off", "free", "set", "used"} /\ bh.ccb = NoOp
  BY TypeParts DEF NPP_NewStream, IsRequested, LoaderInv, Handler
<1>2. /\ stream' \in [Streams -> StreamRecs]
      /\ \A j \in Streams : /\ (IsRequested(j)' <=> IsRequested(j) /\ j # k)
                            /\ (Feeds(j)' <=> Feeds(j) \/ j = k)
                            /\ stream'[j].sent = stream[j].sent
  <2>1. /\ stream' = [stream EXCEPT ![k].state = "open", ![k].pdata = TRUE]
        /\ stream \in [Streams -> StreamRecs]
    BY TypeParts DEF NPP_NewStream, LoaderInv
  <2>2. /\ stream' \in [Streams -> StreamRecs]
        /\ \A j \in Streams : (j # k => stream'[j] = stream[j]) /\ stream'[j].sent = stream[j].sent
        /\ stream'[k].state = "open" /\ stream'[k].pdata
    BY <2>1 DEF StreamRecs
  <2>. QED
    BY <1>1, <2>2 DEF IsRequested, Feeds
<1>3. ul \in Loader /\ bh \in Handlers /\ loop \in Seq(Tasks) /\ ul.ccb \in Ops \cup {NoOp}
  BY TypeParts, Types DEF LoaderInv
<1>4. ASSUME ~ul.alive, ul' = ul, loop' = loop, bh' = bh
      PROVE  LoaderInv'
  <2>1. /\ \A j \in Ops : (Waiting(j)' <=> Waiting(j)) /\ (OnLoop(j)' <=> OnLoop(j))
        /\ InOrder' /\ OnceOnLoop'
    BY <1>4, SamePlaces
  <2>2. TypeOK'
    BY <1>1, <1>2, <1>3, <1>4, TypeParts, TypeNext DEF LoaderInv
  <2>3. OnePlace'
    BY <1>1, <1>4, <2>1 DEF LoaderInv, OnePlace
  <2>4. Calls'
    BY <1>1, <1>4, <2>1 DEF LoaderInv, Calls, Somewhere
  <2>5. NotLost' /\ Handler' /\ Live' /\ Drained'
    BY <1>1, <1>4 DEF LoaderInv, NotLost, Handler, Live, Drained
  <2>6. Reads'
    BY <1>1, <1>4, <2>1 DEF LoaderInv, Reads, Served
  <2>. QED
    BY <2>2, <2>3, <2>4, <2>5, <2>6 DEF LoaderInv
<1>5. ASSUME ul.alive, ul' = [ul EXCEPT !.ccb = NoOp, !.np_stream = k]
      PROVE  /\ ul' \in Loader /\ SameBut(ul, ul', {"ccb", "np_stream"})
             /\ ul'.ccb = NoOp /\ ul'.np_stream = k
             /\ pc = NoOp /\ ul.open # "no"
             /\ \A j \in Streams : ~IsRequested(j)' /\ (Feeds(j)' <=> j = k)
             /\ \A j \in Ops : (Waiting(j)' <=> Waiting(j))
             /\ InOrder'
             /\ \A f \in Ops : ul.stream_to_file_ccb = f => ~OnLoop(f) /\ ~(op[f].called > 0) /\ f # ul.ccb
  <2>1. ul' \in Loader /\ SameBut(ul, ul', {"ccb", "np_stream"}) /\ ul'.ccb = NoOp /\ ul'.np_stream = k
    BY <1>3, <1>5 DEF Loader, SameBut
  <2>2. OneStream /\ FinishOnce
    BY <1>5 DEF LoaderInv, Live
  <2>3. pc = NoOp /\ ul.open # "no" /\ \A j \in Streams : ~IsRequested(j)' /\ (Feeds(j)' <=> j = k)
    BY <1>1, <1>2, <2>2 DEF OneStream
  <2>4. InOrder' /\ \A j \in Ops : (Waiting(j)' <=> Waiting(j))
    BY <2>1, WaitingSame DEF LoaderInv, Reads, SameBut
  <2>5. \A f \in Ops : ul.stream_to_file_ccb = f => ~OnLoop(f) /\ ~(op[f].called > 0) /\ f # ul.ccb
    BY <1>1, <2>2 DEF FinishOnce, Quiet, LoaderInv, Calls
  <2>. QED
    BY <2>1, <2>3, <2>4, <2>5
<1>6. ASSUME ul.alive, ul.redirect_url, ul.follow_redirects,
             ul' = [ul EXCEPT !.ccb = NoOp, !.np_stream = k],
             bh' = [at |-> "follow", of |-> k, ccb |-> ul.ccb], loop' = loop
      PROVE  LoaderInv'
  <2>1. bh' \in Handlers /\ bh'.at = "follow" /\ bh'.of = k /\ bh'.ccb = ul.ccb
    BY <1>3, <1>6 DEF Handlers
  <2>2. /\ \A j \in Ops : (OnLoop(j)' <=> OnLoop(j))
        /\ OnceOnLoop'
    BY <1>6, LoopSame DEF LoaderInv, OnePlace
  <2>3. /\ ul' \in Loader /\ SameBut(ul, ul', {"ccb", "np_stream"})
        /\ ul'.ccb = NoOp /\ ul'.np_stream = k
        /\ pc = NoOp /\ ul.open # "no"
        /\ \A j \in Streams : ~IsRequested(j)' /\ (Feeds(j)' <=> j = k)
        /\ \A j \in Ops : (Waiting(j)' <=> Waiting(j))
        /\ InOrder'
        /\ \A f \in Ops : ul.stream_to_file_ccb = f => ~OnLoop(f) /\ ~(op[f].called > 0) /\ f # ul.ccb
    BY <1>5, <1>6
  <2>4. TypeOK'
    BY <1>1, <1>2, <1>3, <1>6, <2>1, <2>3, TypeParts, TypeNext DEF LoaderInv, SameBut
  <2>5. OnePlace'
    BY <1>1, <2>1, <2>2, <2>3, Numbers DEF LoaderInv, OnePlace, SameBut
  <2>6. NotLost'
    <3>1. \A j \in Ops : Somewhere(j) => Somewhere(j)'
      BY <1>1, <2>1, <2>2, <2>3, Numbers DEF Somewhere, SameBut
    <3>. QED
      BY <1>1, <2>1, <2>3, <3>1 DEF LoaderInv, NotLost, SameBut
  <2>7. Calls'
    BY <1>1, <2>1, <2>2, <2>3, Numbers DEF LoaderInv, Calls, Somewhere, SameBut
  <2>8. Handler' /\ Drained'
    BY <1>1, <2>1, <2>3 DEF LoaderInv, Handler, Drained, SameBut
  <2>9. OneStream'
    BY <1>1, <1>6, <2>1, <2>3 DEF OneStream, SameBut
  <2>10. FinishOnce'
    BY <1>1, <1>6, <2>2, <2>3 DEF LoaderInv, Live, FinishOnce, SameBut
  <2>11. Reads'
    BY <1>1, <2>3 DEF LoaderInv, Reads, Served, SameBut
  <2>. QED
    BY <2>4, <2>5, <2>6, <2>7, <2>8, <2>9, <2>10, <2>11 DEF LoaderInv, Live
<1>7. ASSUME ul.alive, ul' = [ul EXCEPT !.ccb = NoOp, !.np_stream = k], Post(ul.ccb, TRUE), bh' = bh
      PROVE  LoaderInv'
  <2>. PICK c \in Ops \cup {NoOp} : c = ul.ccb
    BY <1>3
  <2>1. ~OnLoop(c)
    BY NoOpNotPosted DEF LoaderInv, OnePlace
  <2>2. /\ \A j \in Ops : (OnLoop(j)' <=> OnLoop(j) \/ j = c)
        /\ OnceOnLoop' /\ loop' \in Seq(Tasks)
    BY <1>3, <1>7, <2>1, PostEffect DEF LoaderInv, OnePlace
  <2>3. /\ ul' \in Loader /\ SameBut(ul, ul', {"ccb", "np_stream"})
        /\ ul'.ccb = NoOp /\ ul'.np_stream = k
        /\ pc = NoOp /\ ul.open # "no"
        /\ \A j \in Streams : ~IsRequested(j)' /\ (Feeds(j)' <=> j = k)
        /\ \A j \in Ops : (Waiting(j)' <=> Waiting(j))
        /\ InOrder'
        /\ \A f \in Ops : ul.stream_to_file_ccb = f => ~OnLoop(f) /\ ~(op[f].called > 0) /\ f # ul.ccb
    BY <1>5, <1>7
  <2>4. TypeOK'
    BY <1>1, <1>2, <1>3, <1>7, <2>2, <2>3, TypeParts, TypeNext DEF LoaderInv, SameBut
  <2>5. OnePlace'
    BY <1>1, <1>7, <2>2, <2>3, Numbers DEF LoaderInv, OnePlace, SameBut
  <2>6. NotLost'
    BY <1>1, <1>7, <2>2, <2>3, Numbers DEF LoaderInv, NotLost, Somewhere, SameBut
  <2>7. Calls'
    BY <1>1, <1>7, <2>2, <2>3, Numbers DEF LoaderInv, Calls, Somewhere, SameBut
  <2>8. Handler' /\ Drained'
    BY <1>1, <1>7, <2>3 DEF LoaderInv, Handler, Drained, SameBut
  <2>9. OneStream'
    BY <1>1, <1>7, <2>3 DEF OneStream, SameBut
  <2>10. FinishOnce'
    BY <1>1, <1>7, <2>2, <2>3 DEF LoaderInv, Live, FinishOnce, SameBut
  <2>11. Reads'
    BY <1>1, <2>3 DEF LoaderInv, Reads, Served, SameBut
  <2>. QED
    BY <2>4, <2>5, <2>6, <2>7, <2>8, <2>9, <2>10, <2>11 DEF LoaderInv, Live
<1>. QED
  BY <1>4, <1>6, <1>7 DEF NPP_NewStream

LEMMA AutoFollowKeeps ==
  ASSUME LoaderInv, AutoFollow
  PROVE  LoaderInv'
<1>1. bh.at = "follow" /\ op' = op /\ pc' = pc /\ content' = content
  BY DEF AutoFollow
<1>2. bh \in Handlers /\ loop \in Seq(Tasks) /\ bh.ccb \in Ops \cup {NoOp} /\ bh.of \in Streams
  BY <1>1, TypeParts, Types DEF LoaderInv, Handler
<1>3. CASE ul.alive
  <2>1. /\ ul' \in Loader
        /\ SameBut(ul, ul', {"open", "file", "read_pos", "redirect_url", "np_stream", "ccb", "gen"})
        /\ ul'.open = "yes" /\ ul'.file = 0 /\ ul'.read_pos = 0 /\ ~ul'.redirect_url
        /\ ul'.np_stream = NoStream /\ ul'.ccb = NoOp /\ ul'.gen = ul.gen + 1
    BY <1>3, RestartedEffect DEF AutoFollow
  <2>2. /\ stream' \in [Streams -> StreamRecs]
        /\ \A j \in Streams : /\ (IsRequested(j)' <=> IsRequested(j))
                              /\ stream'[j].sent = stream[j].sent
                              /\ Feeds(j)' => Feeds(j) /\ ul.np_stream # j
    BY <1>3, DetachedEffect DEF AutoFollow
  <2>3. bh' \in Handlers /\ bh'.at = "request" /\ bh'.of = bh.of /\ bh'.ccb = bh.ccb
    BY <1>2, <1>3 DEF AutoFollow, Handlers
  <2>4. /\ \A j \in Ops : (Waiting(j)' <=> Waiting(j)) /\ (OnLoop(j)' <=> OnLoop(j))
        /\ InOrder' /\ OnceOnLoop' /\ loop' = loop
    BY <1>3, <2>1, SamePlaces DEF SameBut, AutoFollow
  <2>5. OneStream /\ FinishOnce /\ ul.ccb = NoOp /\ ul.follow_redirects /\ pc = NoOp
    BY <1>1, <1>3 DEF LoaderInv, Live, OneStream
  <2>6. TypeOK'
    <3>1. ul'.read_pos <= ul'.file
      BY <2>1
    <3>. QED
      BY <1>1, <2>1, <2>2, <2>3, <2>4, <3>1, TypeParts, TypeNext DEF LoaderInv
  <2>7. OnePlace'
    BY <1>1, <2>1, <2>3, <2>4, Numbers DEF LoaderInv, OnePlace, SameBut
  <2>8. NotLost'
    <3>1. \A j \in Ops : Somewhere(j) => Somewhere(j)'
      BY <1>1, <2>1, <2>3, <2>4, <2>5, Numbers DEF Somewhere, SameBut
    <3>. QED
      BY <1>1, <2>1, <3>1 DEF LoaderInv, NotLost, SameBut
  <2>9. Calls'
    BY <1>1, <2>1, <2>3, <2>4, <2>5, Numbers DEF LoaderInv, Calls, Somewhere, SameBut
  <2>10. Handler' /\ Drained'
    BY <1>1, <1>2, <2>1, <2>3 DEF LoaderInv, Handler, Drained, SameBut
  <2>11. \A j \in Streams : ~IsRequested(j)' /\ ~Feeds(j)'
    BY <1>1, <2>2, <2>5 DEF OneStream
  <2>12. OneStream'
    BY <1>1, <2>1, <2>3, <2>5, <2>11 DEF OneStream, SameBut
  <2>13. \A f \in Ops : ul.stream_to_file_ccb = f => ~OnLoop(f) /\ ~(op[f].called > 0)
    BY <1>1, <2>5 DEF FinishOnce, Quiet
  <2>14. FinishOnce'
    BY <1>1, <2>1, <2>4, <2>5, <2>13 DEF FinishOnce, SameBut
  <2>15. Reads'
    <3>1. \A j \in Ops : (Served(j)' <=> Served(j)) /\ op'[j] = op[j]
      BY <1>1 DEF Served
    <3>2. \A j \in Ops : Served(j) => op[j].gen # ul'.gen /\ op[j].gen <= ul'.gen
      BY <2>1, Types DEF LoaderInv, Reads
    <3>. QED
      BY <2>1, <2>4, <3>1, <3>2 DEF LoaderInv, Reads
  <2>. QED
    BY <2>6, <2>7, <2>8, <2>9, <2>10, <2>12, <2>14, <2>15 DEF LoaderInv, Live
<1>4. CASE ~ul.alive
  <2>. PICK c \in Ops \cup {NoOp} : c = bh.ccb
    BY <1>2
  <2>1. ul' = ul /\ stream' = stream /\ Post(c, TRUE) /\ bh' = Idle
    BY <1>4 DEF AutoFollow
  <2>2. ~OnLoop(c)
    BY NoOpNotPosted DEF LoaderInv, OnePlace
  <2>3. /\ \A j \in Ops : (OnLoop(j)' <=> OnLoop(j) \/ j = c)
        /\ OnceOnLoop' /\ loop' \in Seq(Tasks)
    BY <1>2, <2>1, <2>2, PostEffect DEF LoaderInv, OnePlace
  <2>4. InOrder' /\ \A j \in Ops : (Waiting(j)' <=> Waiting(j))
    BY <2>1, WaitingSame DEF LoaderInv, Reads
  <2>5. bh' \in Handlers /\ bh'.at = "idle" /\ bh'.ccb = NoOp
    BY <2>1 DEF Idle, Handlers
  <2>6. TypeOK'
    BY <1>1, <2>1, <2>3, <2>5, TypeParts, TypeNext DEF LoaderInv
  <2>7. OnePlace'
    BY <1>1, <2>1, <2>3, <2>4, <2>5, Numbers DEF LoaderInv, OnePlace
  <2>8. Calls'
    BY <1>1, <2>1, <2>3, <2>4, <2>5, Numbers DEF LoaderInv, Calls, Somewhere
  <2>9. NotLost' /\ Handler' /\ Live' /\ Drained'
    BY <1>4, <2>1, <2>5 DEF NotLost, Handler, Live, Drained
  <2>10. Reads'
    BY <1>1, <2>1, <2>4 DEF LoaderInv, Reads, Served
  <2>. QED
    BY <2>6, <2>7, <2>8, <2>9, <2>10 DEF LoaderInv
<1>. QED
  BY <1>3, <1>4

LEMMA AutoRequestKeeps ==
  ASSUME LoaderInv, AutoRequest
  PROVE  LoaderInv'
<1>. PICK c \in Ops \cup {NoOp} : c = bh.ccb
  BY Types DEF LoaderInv
<1>1. /\ bh.at = "request" /\ op' = op /\ pc' = pc /\ content' = content /\ ul' = ul
      /\ Post(c, TRUE)
  BY DEF AutoRequest
<1>2. bh' \in Handlers /\ bh'.at = "idle" /\ bh'.ccb = NoOp
  BY DEF AutoRequest, Idle, Handlers
<1>3. /\ stream' \in [Streams -> StreamRecs]
      /\ \A j \in Streams : (Feeds(j)' <=> Feeds(j)) /\ stream'[j].sent = stream[j].sent
      /\ \/ \A j \in Streams : (IsRequested(j)' <=> IsRequested(j))
         \/ \E k \in Streams : \A j \in Streams : (IsRequested(j)' <=> IsRequested(j) \/ j = k)
  <2>1. (\E k \in Streams : Free(k) /\ stream' = Requested(k)) \/ stream' = stream
    BY DEF AutoRequest
  <2>. QED
    BY <2>1, RequestedEffect, TypeParts DEF LoaderInv
<1>4. ~OnLoop(c)
  BY NoOpNotPosted DEF LoaderInv, OnePlace
<1>5. /\ \A j \in Ops : (OnLoop(j)' <=> OnLoop(j) \/ j = c)
      /\ OnceOnLoop' /\ loop' \in Seq(Tasks)
  BY <1>1, <1>4, PostEffect, TypeParts DEF LoaderInv, OnePlace
<1>6. InOrder' /\ \A j \in Ops : (Waiting(j)' <=> Waiting(j))
  BY <1>1, WaitingSame DEF LoaderInv, Reads
<1>7. TypeOK'
  BY <1>1, <1>2, <1>3, <1>5, TypeParts, TypeNext DEF LoaderInv
<1>8. OnePlace'
  BY <1>1, <1>2, <1>5, <1>6, Numbers DEF LoaderInv, OnePlace
<1>9. NotLost'
  BY <1>1, <1>2, <1>5, <1>6, Numbers DEF LoaderInv, NotLost, Somewhere
<1>10. Calls'
  BY <1>1, <1>2, <1>5, <1>6, Numbers DEF LoaderInv, Calls, Somewhere
<1>11. Handler' /\ Drained'
  BY <1>1, <1>2 DEF LoaderInv, Handler, Drained
<1>12. Live'
  <2>. SUFFICES ASSUME ul.alive PROVE OneStream' /\ FinishOnce'
    BY <1>1 DEF Live
  <2>1. /\ OneStream /\ FinishOnce /\ ul.ccb = NoOp /\ ul.follow_redirects /\ pc = NoOp
        /\ ul.open # "no"
    BY <1>1 DEF LoaderInv, Live, OneStream
  <2>2. \A j \in Streams : ~IsRequested(j) /\ ~Feeds(j)
    BY <1>1, <2>1 DEF OneStream
  <2>3. OneStream'
    BY <1>1, <1>2, <1>3, <2>1, <2>2 DEF OneStream
  <2>4. \A f \in Ops : ul.stream_to_file_ccb = f => ~OnLoop(f) /\ ~(op[f].called > 0) /\ f # c
    BY <1>1, <2>1 DEF FinishOnce, Quiet, LoaderInv, Calls
  <2>5. FinishOnce'
    BY <1>1, <1>5, <2>1, <2>4 DEF FinishOnce
  <2>. QED
    BY <2>3, <2>5
<1>13. Reads'
  BY <1>1, <1>6 DEF LoaderInv, Reads, Served
<1>. QED
  BY <1>7, <1>8, <1>9, <1>10, <1>11, <1>12, <1>13 DEF LoaderInv

LEMMA StoredEffect ==
  ASSUME LoaderInv, NEW k \in Streams, stream[k].sent < MaxBytes
  PROVE  /\ Stored(k) \in Loader /\ SameBut(ul, Stored(k), {"file"})
         /\ Stored(k).read_pos <= Stored(k).file
<1>. PICK n : n = IF stream[k].sent < ul.file THEN ul.file ELSE stream[k].sent + 1
  OBVIOUS
<1>1. ul \in Loader /\ ul.read_pos <= ul.file /\ ul.file \in Nat /\ ul.file <= MaxBytes
      /\ ul.read_pos \in Nat /\ stream[k].sent \in Nat /\ MaxBytes \in Nat
  BY TypeParts, Types, BoundsAssumption DEF LoaderInv
<1>2. n \in 0 .. MaxBytes /\ ul.file <= n
  BY <1>1
<1>3. Stored(k) = [ul EXCEPT !.file = n]
  BY DEF Stored
<1>4. ul.read_pos <= n
  BY <1>1, <1>2
<1>. QED
  BY <1>1, <1>2, <1>3, <1>4 DEF Loader, SameBut

LEMMA WriteBodyKeeps ==
  ASSUME LoaderInv, WriteBody
  PROVE  LoaderInv'
<1>1. bh.at = "write" /\ pc' = pc /\ content' = content
  BY DEF WriteBody
<1>2. bh.of \in Streams /\ bh.ccb = NoOp /\ stream[bh.of].sent < MaxBytes
  BY <1>1 DEF LoaderInv, Handler
<1>. PICK k \in Streams : k = bh.of
  BY <1>2
<1>. PICK u : u = Stored(k)
  OBVIOUS
<1>3. u \in Loader /\ SameBut(ul, u, {"file"}) /\ u.read_pos <= u.file
  BY <1>2, StoredEffect
<1>4. bh' \in Handlers /\ bh'.at = "idle" /\ bh'.ccb = NoOp
  BY DEF WriteBody, Idle, Handlers
<1>5. /\ stream' \in [Streams -> StreamRecs]
      /\ \A j \in Streams : (IsRequested(j)' <=> IsRequested(j)) /\ (Feeds(j)' <=> Feeds(j))
  <2>1. stream' = [stream EXCEPT ![k].sent = @ + 1] /\ stream \in [Streams -> StreamRecs]
    BY TypeParts DEF WriteBody, LoaderInv
  <2>2. stream[k].sent \in Nat /\ stream[k].sent + 1 \in 0 .. MaxBytes
    <3>1. stream[k].sent \in Nat /\ MaxBytes \in Nat /\ stream[k].sent < MaxBytes
      BY <1>2, Types, BoundsAssumption DEF LoaderInv
    <3>. QED
      BY ONLY <3>1
  <2>3. /\ stream' \in [Streams -> StreamRecs]
        /\ \A j \in Streams : /\ stream'[j].state = stream[j].state
                              /\ stream'[j].pdata = stream[j].pdata
    BY <2>1, <2>2 DEF StreamRecs
  <2>. QED
    BY <2>3 DEF IsRequested, Feeds
<1>6. Handler'
  BY <1>4 DEF Handler
<1>7. ASSUME ul.alive, ul.read_tasks # << >>, ServeFirst(u)
      PROVE  LoaderInv'
  <2>1. SameBut(ul, u, {"file", "np_stream", "finished_loading"}) /\ u.read_tasks # << >>
    BY <1>3, <1>7 DEF SameBut
  <2>2. /\ ul' \in Loader /\ SameBut(u, ul', {"read_pos", "read_tasks"})
        /\ ul'.read_pos <= ul'.file
        /\ op' \in [Ops -> OpRecs] /\ loop' \in Seq(Tasks)
        /\ OnePlace' /\ NotLost' /\ Calls' /\ Reads'
        /\ Unanswered => Unanswered'
        /\ ul'.stream_to_file_ccb = ul.stream_to_file_ccb
        /\ \A f \in Ops : ul.stream_to_file_ccb = f =>
             (OnLoop(f)' <=> OnLoop(f)) /\ op'[f].called = op[f].called
    BY <1>1, <1>2, <1>3, <1>4, <1>7, <2>1, ServeFirstEffect
  <2>3. SameBut(ul, ul', {"file", "read_pos", "read_tasks"})
    BY <1>3, <2>2 DEF SameBut
  <2>4. TypeOK'
    BY <1>1, <1>4, <1>5, <2>2, TypeParts, TypeNext DEF LoaderInv
  <2>5. Drained'
    BY <1>1, <1>7, <2>3 DEF LoaderInv, Drained, SameBut
  <2>6. OneStream /\ FinishOnce
    BY <1>7 DEF LoaderInv, Live
  <2>7. OneStream'
    BY <1>1, <1>4, <1>5, <2>2, <2>3, <2>6 DEF OneStream, SameBut
  <2>8. Quiet => Quiet'
    BY <1>4, <1>5, <2>3 DEF Quiet, SameBut
  <2>9. FinishOnce'
    BY <1>1, <1>5, <2>2, <2>3, <2>6, <2>8 DEF FinishOnce, SameBut
  <2>. QED
    BY <1>6, <2>2, <2>4, <2>5, <2>7, <2>9 DEF LoaderInv, Live
<1>8. ASSUME ul' = IF ul.alive /\ ul.open = "yes" THEN u ELSE ul, op' = op, loop' = loop
      PROVE  LoaderInv'
  <2>1. ul' \in Loader /\ SameBut(ul, ul', {"file"}) /\ ul'.read_pos <= ul'.file
    <3>1. CASE ul' = u
      BY <1>3, <3>1
    <3>2. CASE ul' = ul
      BY <3>2, TypeParts DEF LoaderInv, SameBut
    <3>. QED
      BY <1>8, <3>1, <3>2
  <2>2. /\ \A j \in Ops : (Waiting(j)' <=> Waiting(j)) /\ (OnLoop(j)' <=> OnLoop(j))
                          /\ (OkOnLoop(j)' <=> OkOnLoop(j))
        /\ InOrder' /\ OnceOnLoop'
    BY <1>8, <2>1, SamePlaces DEF SameBut
  <2>3. op' = op /\ loop' = loop
    BY <1>8
  <2>4. TypeOK'
    BY <1>1, <1>4, <1>5, <2>1, <2>3, TypeParts, TypeNext DEF LoaderInv
  <2>5. OnePlace'
    BY <1>2, <1>4, <2>1, <2>2, <2>3 DEF LoaderInv, OnePlace, SameBut
  <2>6. NotLost'
    BY <1>2, <1>4, <2>1, <2>2, <2>3 DEF LoaderInv, NotLost, Somewhere, SameBut
  <2>7. Calls'
    BY <1>1, <1>2, <1>4, <2>1, <2>2, <2>3 DEF LoaderInv, Calls, Somewhere, SameBut
  <2>8. Drained'
    BY <1>1, <2>1 DEF LoaderInv, Drained, SameBut
  <2>9. Live'
    <3>. SUFFICES ASSUME ul.alive PROVE OneStream' /\ FinishOnce'
      BY <2>1 DEF Live, SameBut
    <3>1. OneStream /\ FinishOnce
      BY DEF LoaderInv, Live
    <3>2. Unanswered => Unanswered'
      BY <2>2, <2>3 DEF Unanswered
    <3>3. OneStream'
      BY <1>1, <1>4, <1>5, <2>1, <3>1, <3>2 DEF OneStream, SameBut
    <3>4. Quiet => Quiet'
      BY <1>4, <1>5, <2>1 DEF Quiet, SameBut
    <3>5. FinishOnce'
      BY <1>1, <1>5, <2>1, <2>2, <2>3, <3>1, <3>4 DEF FinishOnce, SameBut
    <3>. QED
      BY <3>3, <3>5
  <2>10. Reads'
    BY <2>1, <2>2, <2>3 DEF LoaderInv, Reads, Served, SameBut
  <2>. QED
    BY <1>6, <2>4, <2>5, <2>6, <2>7, <2>8, <2>9, <2>10 DEF LoaderInv
<1>. QED
  BY <1>7, <1>8 DEF WriteBody

(* A round of NPP_DestroyStream over the waiting reads, or the end of it. *)
LEMMA DrainKeeps ==
  ASSUME LoaderInv, NEW u \in Loader, SameBut(ul, u, {"np_stream", "finished_loading"}),
         bh.at \in {"destroy", "drain"}, ul.alive => ~ul.redirect_url, Drain(u),
         content' = content, stream' = stream, pc' = pc
  PROVE  LoaderInv'
<1>1. /\ bh.of \in Streams /\ bh.ccb = NoOp /\ bh \in Handlers /\ loop \in Seq(Tasks)
      /\ stream \in [Streams -> StreamRecs]
  BY TypeParts DEF LoaderInv, Handler
<1>2. u.read_pos <= u.file /\ u.alive = ul.alive /\ u.read_tasks = ul.read_tasks
      /\ u.stream_to_file_ccb = ul.stream_to_file_ccb
  BY TypeParts DEF LoaderInv, SameBut
<1>3. \A j \in Streams : (IsRequested(j)' <=> IsRequested(j)) /\ (Feeds(j)' <=> Feeds(j))
  BY DEF IsRequested, Feeds
<1>4. ul.alive => /\ OneStream /\ FinishOnce /\ ul.open # "no"
                  /\ \A j \in Streams : ~IsRequested(j) /\ ~Feeds(j)
                  /\ \A f \in Ops : ul.stream_to_file_ccb = f => ~OnLoop(f) /\ ~(op[f].called > 0)
  BY DEF LoaderInv, Live, OneStream, FinishOnce, Quiet
<1>5. ASSUME u.alive, u.read_tasks # << >>, ServeFirst(u), bh' = [bh EXCEPT !.at = "drain"]
      PROVE  LoaderInv'
  <2>1. bh' \in Handlers /\ bh'.at = "drain" /\ bh'.of = bh.of /\ bh'.ccb = NoOp
    BY <1>1, <1>5 DEF Handlers
  <2>2. SameBut(ul, u, {"file", "np_stream", "finished_loading"}) /\ ul.alive
    BY <1>2, <1>5 DEF SameBut
  <2>3. /\ ul' \in Loader /\ SameBut(u, ul', {"read_pos", "read_tasks"})
        /\ ul'.read_pos <= ul'.file
        /\ op' \in [Ops -> OpRecs] /\ loop' \in Seq(Tasks)
        /\ OnePlace' /\ NotLost' /\ Calls' /\ Reads'
        /\ Unanswered => Unanswered'
        /\ ul'.stream_to_file_ccb = ul.stream_to_file_ccb
        /\ \A f \in Ops : ul.stream_to_file_ccb = f =>
             (OnLoop(f)' <=> OnLoop(f)) /\ op'[f].called = op[f].called
    BY <1>1, <1>2, <1>5, <2>1, <2>2, ServeFirstEffect
  <2>4. SameBut(ul, ul', {"np_stream", "finished_loading", "read_pos", "read_tasks"})
    BY <2>3 DEF SameBut
  <2>5. TypeOK'
    BY <1>1, <2>1, <2>3, TypeParts, TypeNext DEF LoaderInv
  <2>6. Handler' /\ Drained'
    BY <1>1, <2>1 DEF Handler, Drained
  <2>7. OneStream'
    BY <1>3, <1>4, <2>1, <2>2, <2>3, <2>4 DEF OneStream, SameBut
  <2>8. FinishOnce'
    BY <1>3, <1>4, <2>2, <2>3, <2>4 DEF FinishOnce, SameBut
  <2>. QED
    BY <2>3, <2>5, <2>6, <2>7, <2>8 DEF LoaderInv, Live
<1>6. ASSUME ~(u.alive /\ u.read_tasks # << >>), ul' = u, op' = op, bh' = Idle,
             NEW c \in Ops \cup {NoOp}, Post(c, TRUE),
             c # NoOp => ul.alive /\ c = ul.stream_to_file_ccb
      PROVE  LoaderInv'
  <2>1. bh' \in Handlers /\ bh'.at = "idle" /\ bh'.ccb = NoOp
    BY <1>6 DEF Idle, Handlers
  <2>2. ul' \in Loader /\ SameBut(ul, ul', {"np_stream", "finished_loading"}) /\ op' = op
    BY <1>6
  <2>3. c \in Ops => /\ ~OnLoop(c) /\ op[c].called = 0 /\ op[c].kind = "finish"
                     /\ op[c].state # "unused" /\ ul.ccb # c /\ ~Waiting(c)
    <3>. SUFFICES ASSUME c \in Ops
                  PROVE  /\ ~OnLoop(c) /\ op[c].called = 0 /\ op[c].kind = "finish"
                         /\ op[c].state # "unused" /\ ul.ccb # c /\ ~Waiting(c)
      OBVIOUS
    <3>1. ul.alive /\ ul.stream_to_file_ccb = c /\ op[c].called \in Nat
      BY <1>6, Types, Numbers DEF LoaderInv
    <3>2. op[c].kind = "finish"
      BY <3>1 DEF LoaderInv, Calls
    <3>3. ul.ccb # c /\ ~Waiting(c) /\ op[c].state # "unused"
      BY <3>2 DEF LoaderInv, Calls
    <3>. QED
      BY <1>4, <3>1, <3>2, <3>3
  <2>4. /\ \A j \in Ops : (OnLoop(j)' <=> OnLoop(j) \/ j = c)
        /\ \A j \in Ops : OkOnLoop(j)' => OkOnLoop(j) \/ j = c
        /\ OnceOnLoop' /\ loop' \in Seq(Tasks)
    <3>1. ~OnLoop(c)
      BY <2>3, NoOpNotPosted
    <3>. QED
      BY <1>1, <1>6, <3>1, PostEffect DEF LoaderInv, OnePlace
  <2>5. InOrder' /\ \A j \in Ops : (Waiting(j)' <=> Waiting(j))
    BY <2>2, WaitingSame DEF LoaderInv, Reads, SameBut
  <2>6. TypeOK'
    BY <1>1, <1>2, <2>1, <2>2, <2>4, TypeParts, TypeNext DEF LoaderInv, SameBut
  <2>7. OnePlace'
    BY <1>1, <2>1, <2>2, <2>3, <2>4, <2>5, Numbers DEF LoaderInv, OnePlace, SameBut
  <2>8. NotLost'
    BY <1>1, <2>1, <2>2, <2>4, <2>5, Numbers DEF LoaderInv, NotLost, Somewhere, SameBut
  <2>9. Calls'
    BY <1>1, <2>1, <2>2, <2>3, <2>4, <2>5, Numbers DEF LoaderInv, Calls, Somewhere, SameBut
  <2>10. Handler' /\ Drained'
    BY <1>6, <2>1 DEF Handler, Drained
  <2>11. Live'
    <3>. SUFFICES ASSUME ul.alive PROVE OneStream' /\ FinishOnce'
      BY <2>2 DEF Live, SameBut
    <3>1. Unanswered => Unanswered'
      BY <2>2, <2>3, <2>4 DEF Unanswered
    <3>2. OneStream'
      BY <1>3, <1>4, <2>1, <2>2, <3>1 DEF OneStream, SameBut
    <3>3. Quiet'
      BY <1>3, <1>4, <2>1, <2>2 DEF Quiet, SameBut
    <3>4. FinishOnce'
      BY <1>3, <1>4, <2>2, <3>3 DEF FinishOnce, SameBut
    <3>. QED
      BY <3>2, <3>4
  <2>12. Reads'
    BY <2>2, <2>5 DEF LoaderInv, Reads, Served, SameBut
  <2>. QED
    BY <2>6, <2>7, <2>8, <2>9, <2>10, <2>11, <2>12 DEF LoaderInv
<1>7. ASSUME ~(u.alive /\ u.read_tasks # << >>), ul' = u, op' = op, bh' = Idle,
             IF u.alive /\ u.stream_to_file THEN Post(u.stream_to_file_ccb, TRUE) ELSE loop' = loop
      PROVE  LoaderInv'
  <2>1. CASE u.alive /\ u.stream_to_file
    <3>1. ul.stream_to_file_ccb \in Ops \cup {NoOp} /\ Post(ul.stream_to_file_ccb, TRUE) /\ ul.alive
      BY <1>2, <1>7, <2>1, Types DEF LoaderInv
    <3>. QED
      BY <1>6, <1>7, <3>1
  <2>2. CASE ~(u.alive /\ u.stream_to_file)
    <3>1. NoOp \in Ops \cup {NoOp} /\ Post(NoOp, TRUE)
      BY <1>7, <2>2 DEF Post
    <3>. QED
      BY <1>6, <1>7, <3>1
  <2>. QED
    BY <2>1, <2>2
<1>. QED
  BY <1>5, <1>7 DEF Drain

LEMMA DestroyBodyKeeps ==
  ASSUME LoaderInv, DestroyBody
  PROVE  LoaderInv'
<1>. PICK u : u = [ul EXCEPT !.np_stream = NoStream, !.finished_loading = TRUE]
  OBVIOUS
<1>1. bh.at = "destroy" /\ content' = content /\ stream' = stream /\ pc' = pc
  BY DEF DestroyBody
<1>2. ul \in Loader
  BY TypeParts DEF LoaderInv
<1>3. u \in Loader /\ SameBut(ul, u, {"np_stream", "finished_loading"})
  BY <1>2 DEF Loader, SameBut
<1>4. CASE ul.alive /\ ~ul.redirect_url
  <2>1. Drain(u)
    BY <1>4 DEF DestroyBody
  <2>. QED
    BY <1>1, <1>3, <1>4, <2>1, DrainKeeps
<1>5. CASE ~(ul.alive /\ ~ul.redirect_url)
  <2>1. bh' = Idle /\ op' = op /\ loop' = loop
    BY <1>5 DEF DestroyBody
  <2>2. ul' \in Loader /\ SameBut(ul, ul', {"np_stream"})
    <3>1. ul' = [ul EXCEPT !.np_stream = NoStream] \/ ul' = ul
      BY <1>5 DEF DestroyBody
    <3>. QED
      BY <1>2, <3>1 DEF Loader, SameBut
  <2>3. bh' \in Handlers /\ bh'.at = "idle" /\ bh'.ccb = NoOp /\ bh.ccb = NoOp
    BY <1>1, <2>1 DEF Idle, Handlers, LoaderInv, Handler
  <2>4. /\ \A j \in Ops : (Waiting(j)' <=> Waiting(j)) /\ (OnLoop(j)' <=> OnLoop(j))
                          /\ (OkOnLoop(j)' <=> OkOnLoop(j))
        /\ InOrder' /\ OnceOnLoop'
    BY <2>1, <2>2, SamePlaces DEF SameBut
  <2>5. TypeOK'
    BY <1>1, <2>1, <2>2, <2>3, TypeParts, TypeNext DEF LoaderInv, SameBut
  <2>6. OnePlace'
    BY <2>1, <2>2, <2>3, <2>4 DEF LoaderInv, OnePlace, SameBut
  <2>7. NotLost'
    BY <2>1, <2>2, <2>3, <2>4 DEF LoaderInv, NotLost, Somewhere, SameBut
  <2>8. Calls'
    BY <1>1, <2>1, <2>2, <2>3, <2>4 DEF LoaderInv, Calls, Somewhere, SameBut
  <2>9. Handler' /\ Drained'
    BY <1>1, <2>2, <2>3 DEF LoaderInv, Handler, Drained, SameBut
  <2>10. Live'
    <3>. SUFFICES ASSUME ul.alive PROVE OneStream' /\ FinishOnce'
      BY <2>2 DEF Live, SameBut
    <3>1. \A j \in Streams : (IsRequested(j)' <=> IsRequested(j)) /\ (Feeds(j)' <=> Feeds(j))
      BY <1>1 DEF IsRequested, Feeds
    <3>2. /\ OneStream /\ FinishOnce /\ ul.open # "no"
          /\ \A j \in Streams : ~IsRequested(j) /\ ~Feeds(j)
          /\ \A f \in Ops : ul.stream_to_file_ccb = f => ~OnLoop(f) /\ ~(op[f].called > 0)
      BY <1>1 DEF LoaderInv, Live, OneStream, FinishOnce, Quiet
    <3>3. Unanswered => Unanswered'
      BY <2>1, <2>4 DEF Unanswered
    <3>4. OneStream'
      BY <1>1, <2>2, <2>3, <3>1, <3>2, <3>3 DEF OneStream, SameBut
    <3>5. FinishOnce'
      BY <1>1, <2>1, <2>2, <2>4, <3>1, <3>2 DEF FinishOnce, SameBut
    <3>. QED
      BY <3>4, <3>5
  <2>11. Reads'
    BY <2>1, <2>2, <2>4 DEF LoaderInv, Reads, Served, SameBut
  <2>. QED
    BY <2>5, <2>6, <2>7, <2>8, <2>9, <2>10, <2>11 DEF LoaderInv
<1>. QED
  BY <1>4, <1>5

LEMMA DrainRestKeeps ==
  ASSUME LoaderInv, DrainRest
  PROVE  LoaderInv'
<1>1. /\ bh.at = "drain" /\ content' = content /\ stream' = stream /\ pc' = pc
      /\ Drain(ul) /\ ul \in Loader /\ SameBut(ul, ul, {"np_stream", "finished_loading"})
  BY TypeParts DEF DrainRest, LoaderInv, SameBut
<1>2. ul.alive => ~ul.redirect_url
  BY <1>1 DEF LoaderInv, Live, OneStream
<1>. QED
  BY <1>1, <1>2, DrainKeeps

-----------------------------------------------------------------------------
(* Results *)

LEMMA LoaderInvNext == LoaderInv /\ [Next]_vars => LoaderInv'
<1>. SUFFICES ASSUME LoaderInv, [Next]_vars PROVE LoaderInv'
  OBVIOUS
<1>1. ASSUME NEW i \in Ops, PluginCall(i) PROVE LoaderInv'
  BY <1>1, OpenKeeps, FollowKeeps, ReadKeeps, FinishKeeps DEF PluginCall
<1>2. ASSUME NEW k \in Streams, StreamEvent(k) PROVE LoaderInv'
  BY <1>2, RedirectKeeps, NewStreamKeeps, WriteKeeps, DestroyStreamKeeps, NotifyKeeps
  DEF StreamEvent
<1>3. CASE HandlerStep
  BY <1>3, AutoFollowKeeps, AutoRequestKeeps, WriteBodyKeeps, DestroyBodyKeeps, DrainRestKeeps
  DEF HandlerStep
<1>4. CASE ppb_url_loader_close \/ ppb_url_loader_destroy \/ RunTask \/ url_loader_open_ptac
  BY <1>4, CloseKeeps, DestroyKeeps, RunKeeps, RequestKeeps
<1>5. CASE UNCHANGED vars
  <2>1. /\ ul' = ul /\ stream' = stream /\ op' = op /\ loop' = loop /\ pc' = pc /\ bh' = bh
        /\ content' = content
    BY <1>5 DEF vars
  <2>2. /\ \A j \in Ops : (Waiting(j)' <=> Waiting(j)) /\ (OnLoop(j)' <=> OnLoop(j))
                          /\ (OkOnLoop(j)' <=> OkOnLoop(j))
        /\ InOrder' /\ OnceOnLoop'
    BY <2>1, SamePlaces
  <2>3. TypeOK'
    BY <2>1 DEF LoaderInv, TypeOK
  <2>4. OnePlace' /\ NotLost' /\ Handler' /\ Drained'
    BY <2>1, <2>2 DEF LoaderInv, OnePlace, NotLost, Handler, Drained, Somewhere
  <2>5. Calls'
    BY <2>1, <2>2 DEF LoaderInv, Calls, Somewhere
  <2>6. Live'
    BY <2>1, <2>2 DEF LoaderInv, Live, OneStream, FinishOnce, IsRequested, Feeds, Quiet, Unanswered
  <2>7. Reads'
    BY <2>1, <2>2 DEF LoaderInv, Reads, Served
  <2>. QED
    BY <2>3, <2>4, <2>5, <2>6, <2>7 DEF LoaderInv
<1>. QED
  BY <1>1, <1>2, <1>3, <1>4, <1>5 DEF Next

LEMMA LoaderInvAlways == Spec => []LoaderInv
BY LoaderInvInit, LoaderInvNext, PTL DEF Spec

LEMMA LoaderInvReads == LoaderInv => BodyIsReadInOrder
<1>. SUFFICES ASSUME LoaderInv PROVE BodyIsReadInOrder
  OBVIOUS
<1>1. TypeOK
  BY DEF LoaderInv
<1>2. ASSUME NEW i \in Ops, Served(i)
      PROVE  LET before == {j \in Ops : j < i /\ op[j].kind = "read" /\ op[j].gen = op[i].gen} IN
             /\ \A j \in before : Served(j) => op[j].from + op[j].n <= op[i].from
             /\ op[i].from = 0 \/ \E j \in before : Served(j) /\ op[j].from + op[j].n = op[i].from
             /\ op[i].gen = ul.gen => \A j \in Ops : j < i => ~Waiting(j)
  <2>. DEFINE before == {j \in Ops : j < i /\ op[j].kind = "read" /\ op[j].gen = op[i].gen}
  <2>0. \A j \in Ops : Served(j) => op[j].kind = "read"
    BY DEF Served
  <2>1. \A j \in before : Served(j) => op[j].from + op[j].n <= op[i].from
    BY <1>2 DEF LoaderInv, Reads
  <2>2. op[i].from = 0 \/ \E j \in before : Served(j) /\ op[j].from + op[j].n = op[i].from
    BY <1>2, <2>0 DEF LoaderInv, Reads
  <2>3. ASSUME NEW j \in Ops, j < i, Waiting(j) PROVE FALSE
    <3>1. Waiting(i)
      BY <1>2, <2>0, <2>3 DEF LoaderInv, Reads
    <3>2. op[i].n = 0
      BY <3>1 DEF LoaderInv, Calls
    <3>. QED
      BY <1>2, <3>2 DEF Served
  <2>. QED
    BY <2>1, <2>2, <2>3
<1>3. ReadsAreInOrder
  BY <1>2 DEF ReadsAreInOrder
<1>4. NoReadIsStranded
  BY DEF LoaderInv, Drained, NoReadIsStranded
<1>. QED
  BY <1>1, <1>3, <1>4 DEF BodyIsReadInOrder

(* A set of places is empty or has one element. *)
LEMMA AtMostOne ==
  ASSUME NEW S, \A x, y \in S : x = y
  PROVE  \/ (S = {} /\ Cardinality(S) = 0)
         \/ (S # {} /\ Cardinality(S) = 1)
<1>1. CASE S = {}
  BY <1>1, FS_EmptySet
<1>2. CASE S # {}
  <2>1. PICK x : S = {x}
    BY <1>2
  <2>. QED
    BY <2>1, FS_Singleton
<1>. QED
  BY <1>1, <1>2

LEMMA LoaderInvPlaces == LoaderInv => CallbacksAreNeitherLostNorDoubled
<1>. SUFFICES ASSUME LoaderInv, NEW i \in Ops
              PROVE
    LET places == Cardinality({x \in {1} : ul.ccb = i}) + Cardinality({x \in {1} : bh.ccb = i})
                  + Cardinality({j \in DOMAIN ul.read_tasks : ul.read_tasks[j] = i})
                  + InLoop(i) + op[i].called
    IN /\ places <= 1
       /\ ul.alive /\ op[i].state = "pending" /\ op[i].kind # "finish" => places = 1
  BY DEF CallbacksAreNeitherLostNorDoubled
<1>. PICK a : a = Cardinality({x \in {1} : ul.ccb = i})
  OBVIOUS
<1>. PICK b : b = Cardinality({x \in {1} : bh.ccb = i})
  OBVIOUS
<1>. PICK c : c = Cardinality({j \in DOMAIN ul.read_tasks : ul.read_tasks[j] = i})
  OBVIOUS
<1>. PICK d : d = InLoop(i)
  OBVIOUS
<1>. PICK e \in Nat : e = op[i].called
  BY Types DEF LoaderInv
<1>1. a \in {0, 1} /\ (a = 1 <=> ul.ccb = i)
  <2>1. (ul.ccb = i <=> {x \in {1} : ul.ccb = i} # {})
    OBVIOUS
  <2>. QED
    BY <2>1, AtMostOne
<1>2. b \in {0, 1} /\ (b = 1 <=> bh.ccb = i)
  <2>1. (bh.ccb = i <=> {x \in {1} : bh.ccb = i} # {})
    OBVIOUS
  <2>. QED
    BY <2>1, AtMostOne
<1>3. c \in {0, 1} /\ (c = 1 <=> Waiting(i))
  <2>. PICK s : s = ul.read_tasks
    OBVIOUS
  <2>. PICK S : S = {j \in DOMAIN s : s[j] = i}
    OBVIOUS
  <2>1. ASSUME NEW x \in S, NEW y \in S PROVE x = y
    <3>0. s \in Seq(Ops)
      BY Types DEF LoaderInv
    <3>1. /\ x \in DOMAIN s /\ y \in DOMAIN s /\ s[x] = i /\ s[y] = i
          /\ x \in Nat /\ y \in Nat /\ i \in Nat
      BY <2>1, <3>0, Numbers, LenProperties
    <3>2. (x < y => s[x] < s[y]) /\ (y < x => s[y] < s[x])
      BY <3>1 DEF LoaderInv, Reads, InOrder
    <3>. QED
      BY ONLY <3>1, <3>2
  <2>2. (Waiting(i) <=> S # {})
    BY DEF Waiting
  <2>3. c = Cardinality(S)
    OBVIOUS
  <2>. QED
    BY <2>1, <2>2, <2>3, AtMostOne
<1>4. d \in {0, 1} /\ (d = 1 <=> OnLoop(i))
  <2>. PICK S : S = {j \in DOMAIN loop : loop[j].op = i}
    OBVIOUS
  <2>1. \A x, y \in S : x = y
    BY DEF LoaderInv, OnePlace, OnceOnLoop
  <2>2. (OnLoop(i) <=> S # {})
    BY DEF OnLoop
  <2>3. d = Cardinality(S)
    BY DEF InLoop
  <2>. QED
    BY <2>1, <2>2, <2>3, AtMostOne
<1>5. /\ a = 1 => b # 1 /\ c # 1 /\ d # 1 /\ e = 0
      /\ b = 1 => c # 1 /\ d # 1 /\ e = 0
      /\ c = 1 => d # 1 /\ e = 0
      /\ d = 1 => e = 0
      /\ e <= 1
  BY <1>1, <1>2, <1>3, <1>4 DEF LoaderInv, OnePlace
<1>6. ul.alive /\ op[i].state = "pending" /\ op[i].kind # "finish"
      => a = 1 \/ b = 1 \/ c = 1 \/ d = 1 \/ e > 0
  BY <1>1, <1>2, <1>3, <1>4, Types DEF LoaderInv, NotLost, Somewhere, Calls
<1>7. a + b + c + d + e <= 1
  BY ONLY <1>1, <1>2, <1>3, <1>4, <1>5, e \in Nat
<1>8. a = 1 \/ b = 1 \/ c = 1 \/ d = 1 \/ e > 0 => a + b + c + d + e = 1
  BY ONLY <1>1, <1>2, <1>3, <1>4, <1>5, e \in Nat
<1>. QED
  BY <1>6, <1>7, <1>8

(* For any number of streams and calls, any size of the body and of a      *)
(* read: the reads of a body get it in the order in which they were made,  *)
(* without gaps or repetitions, whoever serves them, and none is left      *)
(* waiting when loading is finished.                                       *)
THEOREM LoaderReadsInOrder == Spec => []BodyIsReadInOrder
BY LoaderInvAlways, LoaderInvReads, PTL

(* The callback of a call is never posted or called twice, and that of a   *)
(* live loader is never lost: NPP_NewStream and NPP_URLNotify take it out  *)
(* before they post it, a waiting read is in the list or in the loop, and  *)
(* stream_to_file_ccb, which is never cleared, is posted by the last       *)
(* stream only.                                                            *)
THEOREM LoaderCallsBackOnce == Spec => []CallbacksAreNeitherLostNorDoubled
BY LoaderInvAlways, LoaderInvPlaces, PTL
=============================================================================
