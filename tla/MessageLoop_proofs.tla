-------------------------- MODULE MessageLoop_proofs --------------------------
(***************************************************************************)
(* The message loop of one thread keeps its nesting and its work and runs  *)
(* the work in order, for any number of tasks, delays, nested runs and     *)
(* synchronous calls.                                                      *)
(***************************************************************************)
EXTENDS MessageLoopClient, FiniteSetTheorems, SequenceTheorems, NaturalsInduction, TLAPS

-----------------------------------------------------------------------------
(* The types. *)

Task == TaskType(WorkItems)
Frame == FrameType(WorkItems, Waiters)
LoopState ==
  [async_q : Seq(Task), int_q : SUBSET Task, running : BOOLEAN, teardown : BOOLEAN, depth : Nat,
   alive : BOOLEAN]
TaskState == [state : {"none", "queued", "refused", "ran"}, delay : Delays \cup {0}]
SyncState ==
  [state : {"none", "waiting", "returned"}, depth : Nat, asked : BOOLEAN, answered : BOOLEAN]
FlashState == [running : BOOLEAN, depth : Nat, runs : Nat, quits : Nat, returned : Nat]

QueueTypes == ml \in [Loops -> LoopState] /\ stack \in [Loops -> Seq(Frame)]
ClientTypes ==
  /\ now \in 0 .. MaxTime
  /\ task \in [Tasks -> TaskState] /\ sync \in [Syncs -> SyncState] /\ flash \in FlashState

(* The bounds hold because a run and a PostQuit in progress have their     *)
(* place in the count.                                                     *)
CountsInv ==
  /\ quits \in 0 .. MaxQuits /\ exits \in 0 .. MaxRuns /\ told \in Nat
  /\ stack[Loop] # <<>> => exits < MaxRuns
  /\ quitter = -1 \/ (quitter \in Nat /\ quits < MaxQuits)

-----------------------------------------------------------------------------
(* The frames of a thread.  A run that is not nested is the outermost one, *)
(* and every frame has saved whether there was one around it: that is what *)
(* makes the flag right again when the frame is left.                      *)

LoopsOf(s) == {i \in 1 .. Len(s) : s[i].kind = "loop"}
DeepOf(s) == {i \in LoopsOf(s) : "ML_INCREASE_DEPTH" \in s[i].flags}
UpTo(s, i) == {j \in DeepOf(s) : j <= i}

Nested(s, depth, running) ==
  /\ depth = Cardinality(DeepOf(s))
  /\ running <=> LoopsOf(s) # {}
  /\ \A i \in LoopsOf(s) : s[i].depth = Cardinality(UpTo(s, i))
  /\ \A i \in LoopsOf(s) : s[i].saved.running <=> \E j \in LoopsOf(s) : j < i
  /\ \A i \in LoopsOf(s) : "ML_NESTED" \notin s[i].flags => ~s[i].saved.running

NestingInv == Nested(stack[Loop], ml[Loop].depth, ml[Loop].running)

LoopInv == QueueTypes /\ ClientTypes /\ CountsInv /\ NestingInv

-----------------------------------------------------------------------------
(* Work is kept because no two tasks have the same stamp (a second one     *)
(* would not get into the tree) and a quit task carries no work.           *)

Async == ml[Loop].async_q
Tree == ml[Loop].int_q
StampsDiffer ==
  /\ \A i, j \in DOMAIN Async : i # j => Async[i].when # Async[j].when
  /\ \A i \in DOMAIN Async, t \in Tree : Async[i].when # t.when
QuitsCarryNoWork == \A t \in Queued : t.terminate => t.work.fn = "none"

KeptInv == StampsDiffer /\ QuitsCarryNoWork /\ AcceptedWorkIsKept

-----------------------------------------------------------------------------
(* Every nested run has its own reason to return.  The frame of a          *)
(* synchronous call is the only one at its depth that waits, and the quit  *)
(* tasks that reach its depth are the answers to the calls in progress.    *)
(* The Flash message loop does not increase the depth, so nothing tells    *)
(* its quit tasks from others: they are counted.                           *)

Quits == {t \in Queued : t.terminate}
Waits(i) == sync[i].state = "waiting"
SyncWaiter(i) == [fn |-> "sync", id |-> i]

(* A frame of run_int, at position k of the stack. *)
FrameInTurn(k, f) ==
  \/ k = 1 /\ f.call = NoWait /\ f.flags = {"ML_INCREASE_DEPTH"}
  \/ /\ k > 1 /\ ~f.teardown /\ f.flags = {"ML_NESTED", "ML_INCREASE_DEPTH"}
     /\ \E i \in Syncs : f.call = SyncWaiter(i) /\ Waits(i) /\ sync[i].depth = f.depth
  \/ /\ k > 1 /\ ~f.teardown /\ f.flags = {"ML_NESTED"}
     /\ f.call.fn = "flash" /\ flash.runs > 0

InTurn(s) ==
  /\ s # <<>> => 1 \in LoopsOf(s)
  /\ \A k \in LoopsOf(s) : FrameInTurn(k, s[k])
  /\ \A j, k \in LoopsOf(s) : s[j].call = s[k].call /\ s[k].call.fn = "sync" => j = k
FramesInTurn == InTurn(stack[Loop])

Waiting(s, depth) ==
  /\ \A i \in Syncs : Waits(i) =>
       sync[i].depth \in 2 .. depth /\ \E k \in LoopsOf(s) : s[k].call = SyncWaiter(i)
  /\ \A i, j \in Syncs : Waits(i) /\ Waits(j) /\ sync[i].depth = sync[j].depth => i = j
WaitersInTurn == Waiting(stack[Loop], ml[Loop].depth)

(* A request stands for a call in progress or finished. *)
Requests(w) == w.fn = "request" => w.id \in Syncs /\ sync[w.id].state # "none"
RequestsIn(s) == \A k \in 1 .. Len(s) : s[k].kind = "cb" => Requests(s[k].work)
RequestsAreCalls ==
  /\ RequestsIn(stack[Loop])
  /\ \A t \in Queued : Requests(t.work)
  /\ \A i \in Syncs : sync[i].state = "none" => ~sync[i].asked

(* Without MixFlash a Flash message loop meets no other reason to return. *)
FlashAlone ==
  /\ quitter \in {-1, 1}
  /\ flash.runs > 0 => quitter = -1 /\ quits = 0 /\ \A i \in Syncs : sync[i].state = "none"
  /\ flash.runs = 0 => flash.quits = 0 /\ flash.returned = 0 /\ ~flash.running

QuitsHaveReasons ==
  flash.runs = 0 =>
    /\ \A t \in Quits : \/ t.depth = 1 /\ quits > 0
                        \/ \E i \in Syncs : Waits(i) /\ sync[i].answered /\ sync[i].depth = t.depth
    /\ \A t, u \in Quits : t.depth = u.depth /\ t.depth # 1 => t = u

FlashQuitsAreCounted ==
  flash.runs > 0 => IsFiniteSet(Quits) /\ flash.returned + Cardinality(Quits) <= flash.quits

TurnInv ==
  /\ FramesInTurn /\ WaitersInTurn /\ RequestsAreCalls /\ FlashAlone
  /\ QuitsHaveReasons /\ FlashQuitsAreCounted /\ SyncReturnsAfterAnswer

-----------------------------------------------------------------------------
(* Work is run in the order in which it was posted because both queues     *)
(* keep it: async_q is a queue, and the tree goes by the time stamps,      *)
(* which grow with the posts.                                              *)

(* Task t is not behind u: it leaves async_q first. *)
Ahead(t, u) == t \in Tree \/ \E p, q \in DOMAIN Async : p < q /\ Async[p] = t /\ Async[q] = u

Undelayed(t, i) == t.work = Work("work", i) /\ task[i].delay = 0
InPostOrder ==
  \A t, u \in Queued, i, j \in Tasks :
    Undelayed(t, i) /\ Undelayed(u, j) /\ i < j => t.when < u.when /\ Ahead(t, u)
StampsPast == \A t \in Queued, i \in Tasks : Undelayed(t, i) => t.when <= now
PostedInTurn ==
  /\ \A t \in Queued, i \in Tasks : t.work = Work("work", i) => task[i].state # "none"
  /\ \A i, j \in Tasks : i < j /\ task[j].state # "none" => task[i].state # "none"
OrderInv == InPostOrder /\ StampsPast /\ PostedInTurn

(* A quit task carries how many work items were posted before it.  These   *)
(* are not behind it, and have left async_q when the outermost run has     *)
(* taken it, whoever has posted it.                                        *)
Early(t, i, n) == t.work = Work("work", i) /\ i <= n
EarlyFirst ==
  \A t, u \in Queued, i \in Tasks : u.terminate /\ Early(t, i, u.work.id) => Ahead(t, u)
EarlyInTree == \A t \in Queued, i \in Tasks : Early(t, i, told) => t \in Tree
TornDown(s) == (\E k \in LoopsOf(s) : s[k].teardown) => EarlyInTree
QuitsCount ==
  /\ \A u \in Quits, i \in Tasks : i <= u.work.id => task[i].state # "none"
  /\ \A i \in Tasks : i <= told => task[i].state # "none"
EarlyInv == EarlyFirst /\ QuitsCount /\ TornDown(stack[Loop])

-----------------------------------------------------------------------------
(* Every end of a run has used up a quit task: those of PostQuit and of    *)
(* the Flash message loop that can still end one, and the outermost run    *)
(* that is being torn down, are counted.                                   *)

Owed == {t \in Quits : t.depth = 1 \/ flash.runs > 0}
Torn(s) == IF s # <<>> /\ s[1].teardown THEN 1 ELSE 0
Ends == exits + Torn(stack[Loop]) + flash.returned
Given == quits + flash.quits
EndsInv == IsFiniteSet(Owed) /\ Ends + Cardinality(Owed) <= Given

-----------------------------------------------------------------------------
(* A non-empty set of natural numbers has a least element. *)
LEMMA LeastOf ==
  ASSUME NEW N \in SUBSET Nat, N # {}
  PROVE  \E n \in N : \A m \in N : n <= m
<1> DEFINE R == OpToRel(<, Nat)
<1>1. IsWellFoundedOn(R, Nat)
  BY NatLessThanWellFounded
<1>2. \A x, y \in Nat : <<y, x>> \in R <=> y < x
  BY DEF OpToRel
<1> HIDE DEF R
<1>3. PICK n \in N : \A m \in N : ~(<<m, n>> \in R)
  BY <1>1, WFMin
<1>4. \A m \in N : ~(m < n)
  BY <1>2, <1>3
<1> QED
  BY <1>4

(* The first task of a queue is in it. *)
LEMMA FirstIs ==
  ASSUME NEW q \in SUBSET Task, q # {}
  PROVE  First(q) \in q
<1>1. \A t \in q : t.when \in Nat
  BY DEF Task, TaskType
<1> DEFINE N == {t.when : t \in q}
<1>2. PICK n \in N : \A m \in N : n <= m
  BY <1>1, LeastOf, ZenonT(60)
<1>3. PICK t \in q : \A u \in q : t.when <= u.when
  BY <1>2
<1> QED
  BY <1>3 DEF First

-----------------------------------------------------------------------------
(* What pushing and popping a frame does to the nesting. *)

LEMMA DeepIsFinite ==
  ASSUME NEW s \in Seq(Frame), NEW i
  PROVE  IsFiniteSet(DeepOf(s)) /\ IsFiniteSet(UpTo(s, i))
<1>1. IsFiniteSet(1 .. Len(s))
  BY FS_Interval
<1>2. DeepOf(s) \in SUBSET (1 .. Len(s)) /\ UpTo(s, i) \in SUBSET (1 .. Len(s))
  BY DEF DeepOf, UpTo, LoopsOf
<1> QED
  BY <1>1, <1>2, FS_Subset

(* Frames that agree in the parts nesting is about. *)
LEMMA NestedSame ==
  ASSUME NEW s \in Seq(Frame), NEW z \in Seq(Frame), NEW d, NEW r, Nested(s, d, r),
         LoopsOf(z) = LoopsOf(s),
         \A i \in LoopsOf(s) : /\ z[i].flags = s[i].flags /\ z[i].depth = s[i].depth
                               /\ z[i].saved = s[i].saved
  PROVE  Nested(z, d, r)
<1>1. DeepOf(z) = DeepOf(s)
  BY DEF DeepOf
<1>2. \A i : UpTo(z, i) = UpTo(s, i)
  BY <1>1 DEF UpTo
<1> QED
  BY <1>1, <1>2 DEF Nested

LEMMA PushCallback ==
  ASSUME NEW s \in Seq(Frame), NEW d, NEW r, Nested(s, d, r), NEW f \in Frame, f.kind = "cb"
  PROVE  Nested(Append(s, f), d, r)
<1> DEFINE z == Append(s, f)
<1>1. z \in Seq(Frame) /\ Len(z) = Len(s) + 1 /\ z[Len(s) + 1] = f
      /\ \A i \in 1 .. Len(s) : z[i] = s[i]
  BY AppendProperties
<1> HIDE DEF z
<1>2. LoopsOf(z) = LoopsOf(s)
  BY <1>1 DEF LoopsOf
<1>3. \A i \in LoopsOf(s) : z[i] = s[i]
  BY <1>1 DEF LoopsOf
<1>4. Nested(z, d, r)
  BY <1>1, <1>2, <1>3, NestedSame
<1> QED
  BY <1>4 DEF z

LEMMA BelowIs ==
  ASSUME NEW s \in Seq(Frame), s # <<>>
  PROVE  /\ Len(s) \in Nat \ {0}
         /\ SubSeq(s, 1, Len(s) - 1) \in Seq(Frame)
         /\ Len(SubSeq(s, 1, Len(s) - 1)) = Len(s) - 1
         /\ \A i \in 1 .. Len(s) - 1 : SubSeq(s, 1, Len(s) - 1)[i] = s[i]
         /\ s[Len(s)] \in Frame
         /\ SubSeq(s, 1, Len(s) - 1) = <<>> <=> Len(s) = 1
<1>1. Len(s) \in Nat \ {0}
  BY EmptySeq
<1>2. \A i \in 1 .. Len(s) - 1 : s[i] \in Frame
  BY ElementOfSeq
<1>3. /\ SubSeq(s, 1, Len(s) - 1) \in Seq(Frame)
      /\ Len(SubSeq(s, 1, Len(s) - 1)) = Len(s) - 1
      /\ \A i \in 1 .. Len(s) - 1 : SubSeq(s, 1, Len(s) - 1)[i] = s[i]
  <2>1. PICK k \in Nat : k = Len(s) - 1
    BY <1>1
  <2>2. \A i \in 1 .. k : s[i] \in Frame
    BY <1>2, <2>1
  <2>3. /\ SubSeq(s, 1, k) \in Seq(Frame)
        /\ Len(SubSeq(s, 1, k)) = k
        /\ \A i \in 1 .. k : SubSeq(s, 1, k)[i] = s[i]
    BY <2>2
  <2> QED
    BY <2>1, <2>3
<1>4. s[Len(s)] \in Frame
  BY <1>1, ElementOfSeq
<1>5. SubSeq(s, 1, Len(s) - 1) = <<>> <=> Len(s) = 1
  <2> DEFINE z == SubSeq(s, 1, Len(s) - 1)
  <2>1. z \in Seq(Frame) /\ Len(z) = Len(s) - 1
    BY <1>3
  <2> HIDE DEF z
  <2>2. z = <<>> <=> Len(z) = 0
    BY <2>1, EmptySeq
  <2>3. z = <<>> <=> Len(s) = 1
    BY <1>1, <2>1, <2>2
  <2> QED
    BY <2>3 DEF z
<1> QED
  BY <1>1, <1>3, <1>4, <1>5

LEMMA PopCallback ==
  ASSUME NEW s \in Seq(Frame), s # <<>>, s[Len(s)].kind = "cb", NEW d, NEW r, Nested(s, d, r)
  PROVE  Nested(SubSeq(s, 1, Len(s) - 1), d, r)
<1> DEFINE z == SubSeq(s, 1, Len(s) - 1)
<1>1. /\ Len(s) \in Nat \ {0} /\ z \in Seq(Frame) /\ Len(z) = Len(s) - 1
      /\ \A i \in 1 .. Len(s) - 1 : z[i] = s[i]
  BY BelowIs
<1> HIDE DEF z
<1>2. LoopsOf(z) = LoopsOf(s) /\ \A i \in LoopsOf(s) : z[i] = s[i]
  BY <1>1 DEF LoopsOf
<1>3. Nested(z, d, r)
  BY <1>1, <1>2, NestedSame
<1> QED
  BY <1>3 DEF z

LEMMA PushLoop ==
  ASSUME NEW s \in Seq(Frame), NEW d \in Nat, NEW r, Nested(s, d, r), NEW f \in Frame,
         f.kind = "loop", f.depth = IF "ML_INCREASE_DEPTH" \in f.flags THEN d + 1 ELSE d,
         f.saved.running = r, "ML_NESTED" \in f.flags \/ ~r
  PROVE  Nested(Append(s, f), f.depth, TRUE)
<1> DEFINE z == Append(s, f)
           n == Len(s) + 1
<1>1. /\ z \in Seq(Frame) /\ Len(z) = n /\ z[n] = f /\ n \in Nat
      /\ \A i \in 1 .. Len(s) : z[i] = s[i]
  BY AppendProperties
<1> HIDE DEF z
<1>2. /\ LoopsOf(z) = LoopsOf(s) \cup {n} /\ n \notin LoopsOf(s)
      /\ \A i \in LoopsOf(s) : z[i] = s[i] /\ i < n /\ i \in Nat
  BY <1>1 DEF LoopsOf
<1> HIDE DEF n
<1>3. /\ "ML_INCREASE_DEPTH" \in f.flags => DeepOf(z) = DeepOf(s) \cup {n}
      /\ "ML_INCREASE_DEPTH" \notin f.flags => DeepOf(z) = DeepOf(s)
      /\ n \notin DeepOf(s)
  BY <1>1, <1>2 DEF DeepOf
<1>4. Cardinality(DeepOf(z)) = f.depth
  BY <1>3, DeepIsFinite, FS_AddElement DEF Nested
<1>5. \A i \in LoopsOf(s) : UpTo(z, i) = UpTo(s, i)
  BY <1>1, <1>2, <1>3 DEF UpTo, DeepOf
<1>6. UpTo(z, n) = DeepOf(z)
  BY <1>1, <1>2 DEF UpTo, DeepOf
<1>7. \A i \in LoopsOf(z) : z[i].depth = Cardinality(UpTo(z, i))
  BY <1>1, <1>2, <1>4, <1>5, <1>6 DEF Nested
<1>8. \A i \in LoopsOf(z) : z[i].saved.running <=> \E j \in LoopsOf(z) : j < i
  <2>1. ASSUME NEW i \in LoopsOf(s) PROVE z[i].saved.running <=> \E j \in LoopsOf(z) : j < i
    <3>1. (\E j \in LoopsOf(z) : j < i) <=> \E j \in LoopsOf(s) : j < i
      BY <1>1, <1>2
    <3> QED
      BY <1>2, <3>1 DEF Nested
  <2>2. z[n].saved.running <=> \E j \in LoopsOf(z) : j < n
    BY <1>1, <1>2 DEF Nested
  <2> QED
    BY <1>2, <2>1, <2>2
<1>9. \A i \in LoopsOf(z) : "ML_NESTED" \notin z[i].flags => ~z[i].saved.running
  BY <1>1, <1>2 DEF Nested
<1>10. Nested(z, f.depth, TRUE)
  BY <1>2, <1>4, <1>7, <1>8, <1>9 DEF Nested
<1> QED
  BY <1>10 DEF z

LEMMA PopLoop ==
  ASSUME NEW s \in Seq(Frame), s # <<>>, NEW f, f = s[Len(s)], f.kind = "loop",
         NEW d \in Nat, NEW r, Nested(s, d, r)
  PROVE  /\ Nested(SubSeq(s, 1, Len(s) - 1), IF "ML_INCREASE_DEPTH" \in f.flags THEN d - 1 ELSE d,
                   "ML_NESTED" \in f.flags /\ f.saved.running)
         /\ f.depth = d
         /\ "ML_INCREASE_DEPTH" \in f.flags => d > 0
<1> DEFINE z == SubSeq(s, 1, Len(s) - 1)
           n == Len(s)
<1>1. /\ n \in Nat \ {0} /\ z \in Seq(Frame) /\ Len(z) = n - 1
      /\ \A i \in 1 .. n - 1 : z[i] = s[i]
  BY BelowIs
<1> HIDE DEF z
<1>2. /\ LoopsOf(z) = LoopsOf(s) \ {n} /\ n \in LoopsOf(s)
      /\ \A i \in LoopsOf(z) : z[i] = s[i] /\ i < n /\ i \in Nat
  BY <1>1 DEF LoopsOf
<1> HIDE DEF n
<1>3. f = s[n]
  BY DEF n
<1>4. DeepOf(z) = DeepOf(s) \ {n} /\ (n \in DeepOf(s) <=> "ML_INCREASE_DEPTH" \in f.flags)
  BY <1>2, <1>3 DEF DeepOf
<1>5. Cardinality(DeepOf(z)) = IF "ML_INCREASE_DEPTH" \in f.flags THEN d - 1 ELSE d
  <2>1. IsFiniteSet(DeepOf(s)) /\ Cardinality(DeepOf(s)) = d
    BY DeepIsFinite DEF Nested
  <2>2. Cardinality(DeepOf(s) \ {n}) = IF n \in DeepOf(s) THEN Cardinality(DeepOf(s)) - 1
                                       ELSE Cardinality(DeepOf(s))
    BY <2>1, FS_RemoveElement
  <2> QED
    BY <1>4, <2>1, <2>2
<1>6. \A i \in LoopsOf(z) : UpTo(z, i) = UpTo(s, i)
  BY <1>1, <1>2, <1>4 DEF UpTo, DeepOf
<1>7. UpTo(s, n) = DeepOf(s)
  <2>1. \A j \in DeepOf(s) : j <= n
    BY <1>1, <1>2 DEF DeepOf
  <2> QED
    BY <2>1 DEF UpTo
<1>8. \A i \in LoopsOf(z) : z[i].depth = Cardinality(UpTo(z, i))
  BY <1>2, <1>6 DEF Nested
<1>9. \A i \in LoopsOf(z) : z[i].saved.running <=> \E j \in LoopsOf(z) : j < i
  <2>1. ASSUME NEW i \in LoopsOf(z) PROVE z[i].saved.running <=> \E j \in LoopsOf(z) : j < i
    <3>1. (\E j \in LoopsOf(z) : j < i) <=> \E j \in LoopsOf(s) : j < i
      BY <1>1, <1>2
    <3> QED
      BY <1>2, <3>1 DEF Nested
  <2> QED
    BY <2>1
<1>10. \A i \in LoopsOf(z) : "ML_NESTED" \notin z[i].flags => ~z[i].saved.running
  BY <1>2 DEF Nested
<1>11. "ML_NESTED" \in f.flags /\ f.saved.running <=> LoopsOf(z) # {}
  <2>1. f.saved.running <=> \E j \in LoopsOf(s) : j < n
    BY <1>2, <1>3 DEF Nested
  <2>2. (\E j \in LoopsOf(s) : j < n) <=> LoopsOf(z) # {}
    <3>1. ~(n < n)
      BY <1>1
    <3>2. \A j \in LoopsOf(z) : j \in LoopsOf(s) /\ j < n
      BY <1>2
    <3>3. \A j \in LoopsOf(s) : j < n => j \in LoopsOf(z)
      BY <1>2, <3>1
    <3> QED
      BY <3>2, <3>3
  <2> QED
    BY <1>2, <1>3, <2>1, <2>2 DEF Nested
<1>12. f.depth = d
  BY <1>2, <1>3, <1>7 DEF Nested
<1>13. "ML_INCREASE_DEPTH" \in f.flags => d > 0
  <2>1. "ML_INCREASE_DEPTH" \in f.flags => DeepOf(s) # {}
    BY <1>4
  <2> QED
    BY <2>1, DeepIsFinite, FS_EmptySet DEF Nested
<1>14. Nested(z, IF "ML_INCREASE_DEPTH" \in f.flags THEN d - 1 ELSE d,
              "ML_NESTED" \in f.flags /\ f.saved.running)
  BY <1>5, <1>8, <1>9, <1>10, <1>11 DEF Nested
<1> QED
  BY <1>12, <1>13, <1>14 DEF z

-----------------------------------------------------------------------------
(* What a step does to the loop: its new state, and the frames. *)

LoopBecomes(r) == ml' \in [Loops -> LoopState] /\ ml'[Loop] = r
FramesBecome(z) == stack' \in [Loops -> Seq(Frame)] /\ stack'[Loop] = z

LoopFrameType ==
  [kind : {"loop"}, flags : SUBSET Flags, call : Waiters, depth : Nat,
   saved : [running : BOOLEAN, teardown : BOOLEAN],
   teardown : BOOLEAN, destroy_ml : BOOLEAN, pumping : BOOLEAN]

LEMMA TheLoop == Loop \in Loops /\ \A l \in Loops : l = Loop
BY ClientAssumption

LEMMA SetLoop ==
  ASSUME QueueTypes, NEW r \in LoopState, ml' = [ml EXCEPT ![Loop] = r]
  PROVE  LoopBecomes(r)
BY TheLoop DEF QueueTypes, LoopBecomes

LEMMA SetFrames ==
  ASSUME QueueTypes, NEW z \in Seq(Frame), stack' = [stack EXCEPT ![Loop] = z]
  PROVE  FramesBecome(z)
BY TheLoop DEF QueueTypes, FramesBecome

LEMMA QueueIs ==
  ASSUME QueueTypes
  PROVE  /\ ml[Loop] \in LoopState /\ ml[Loop].async_q \in Seq(Task) /\ ml[Loop].int_q \in SUBSET Task
         /\ ml[Loop].running \in BOOLEAN /\ ml[Loop].teardown \in BOOLEAN
         /\ ml[Loop].depth \in Nat /\ ml[Loop].alive \in BOOLEAN
         /\ stack[Loop] \in Seq(Frame)
<1>1. ml[Loop] \in LoopState /\ stack[Loop] \in Seq(Frame)
  BY TheLoop DEF QueueTypes
<1> QED
  BY <1>1 DEF LoopState

(* The innermost frame when the thread is in run_int. *)
LEMMA TopIs ==
  ASSUME QueueTypes, InLoop(Loop)
  PROVE  Top(Loop) \in LoopFrameType /\ stack[Loop] # <<>> /\ Top(Loop) = stack[Loop][Len(stack[Loop])]
<1>1. stack[Loop] \in Seq(Frame) /\ stack[Loop] # <<>> /\ Top(Loop).kind = "loop"
  BY QueueIs DEF InLoop
<1>2. Top(Loop) \in Frame
  BY <1>1, BelowIs DEF Top
<1>3. Top(Loop) \in LoopFrameType
  BY <1>1, <1>2 DEF Frame, FrameType, LoopFrameType
<1> QED
  BY <1>1, <1>3 DEF Top

(* A task that is due is in the tree. *)
LEMMA DueIs ==
  ASSUME QueueTypes, Due(Loop, now)
  PROVE  DueTask(Loop) \in ml[Loop].int_q /\ DueTask(Loop) \in Task /\ InLoop(Loop)
<1>1. Appropriate(Loop) \in SUBSET ml[Loop].int_q /\ Appropriate(Loop) # {} /\ InLoop(Loop)
  BY DEF Due, Appropriate
<1>2. Appropriate(Loop) \in SUBSET Task
  BY <1>1, QueueIs
<1> QED
  BY <1>1, <1>2, FirstIs, QueueIs DEF DueTask

(* Posting leaves the loop as it is, or puts one task at the end. *)
Posted(t) == LoopBecomes([ml[Loop] EXCEPT !.async_q = Append(@, t)])

LEMMA PostIs ==
  ASSUME QueueTypes, NEW t \in Task,
         \/ ml' = ppb_message_loop_post_work_with_result(ml, Loop, t)
         \/ ml' = ppb_message_loop_post_quit_depth(ml, Loop, t)
  PROVE  ml' = ml \/ Posted(t)
<1> DEFINE r == [ml[Loop] EXCEPT !.async_q = Append(@, t)]
<1>1. CASE ml' = ml
  BY <1>1
<1>2. CASE ml' = [ml EXCEPT ![Loop].async_q = Append(@, t)]
  <2>1. ml[Loop] \in LoopState /\ Append(ml[Loop].async_q, t) \in Seq(Task)
    BY QueueIs, AppendProperties
  <2>2. r \in LoopState
    BY <2>1 DEF LoopState
  <2>3. ml' = [ml EXCEPT ![Loop] = r]
    BY <1>2
  <2> HIDE DEF r
  <2>4. LoopBecomes(r)
    BY <2>2, <2>3, SetLoop
  <2> QED
    BY <2>4 DEF Posted, r
<1> QED
  BY <1>1, <1>2 DEF ppb_message_loop_post_work_with_result, ppb_message_loop_post_quit_depth

(* The five changes of the loop and its frames. *)
TypesStay == ml' \in [Loops -> LoopState] /\ stack' \in [Loops -> Seq(Frame)]
QueuesAre(a, q) == ml'[Loop].async_q = a /\ ml'[Loop].int_q = q
FlagsStay ==
  /\ ml'[Loop].running = ml[Loop].running /\ ml'[Loop].depth = ml[Loop].depth
  /\ ml'[Loop].alive = ml[Loop].alive

LEMMA PostedIs ==
  ASSUME QueueTypes, NEW t \in Task, Posted(t), UNCHANGED stack
  PROVE  TypesStay /\ QueuesAre(Append(Async, t), Tree) /\ FlagsStay
<1>1. ml[Loop] \in LoopState
  BY QueueIs
<1> DEFINE r == [ml[Loop] EXCEPT !.async_q = Append(@, t)]
<1>2. /\ r.async_q = Append(ml[Loop].async_q, t) /\ r.int_q = ml[Loop].int_q
      /\ r.running = ml[Loop].running /\ r.depth = ml[Loop].depth /\ r.alive = ml[Loop].alive
  BY <1>1 DEF LoopState
<1>3. LoopBecomes(r)
  BY DEF Posted
<1> HIDE DEF r
<1> QED
  BY <1>2, <1>3 DEF LoopBecomes, TypesStay, QueuesAre, FlagsStay, QueueTypes, Async, Tree

(* Entry of run_int: m is ml, or ml with the request of the caller posted. *)
EntersFrom(m, flags, w, f) ==
  /\ TypesStay /\ QueuesAre(m[Loop].async_q, m[Loop].int_q)
  /\ ml'[Loop].running = TRUE /\ ml'[Loop].depth = f.depth /\ ml'[Loop].alive = m[Loop].alive
  /\ stack'[Loop] = Append(stack[Loop], f)
  /\ f \in LoopFrameType /\ f.kind = "loop" /\ f.flags = flags /\ f.call = w
  /\ f.depth = IF "ML_INCREASE_DEPTH" \in flags THEN m[Loop].depth + 1 ELSE m[Loop].depth
  /\ f.saved.running = m[Loop].running
  /\ f.teardown = FALSE

LEMMA FrameTypes ==
  /\ LoopFrameType \subseteq Frame
  /\ \A w \in WorkItems : CallbackFrame(w) \in Frame /\ CallbackFrame(w).kind = "cb"
                          /\ CallbackFrame(w).work = w
BY DEF LoopFrameType, Frame, FrameType, CallbackFrame

LEMMA EnterIs ==
  ASSUME QueueTypes, NEW m \in [Loops -> LoopState], NEW flags \in SUBSET Flags, NEW w \in Waiters,
         Enter(m, flags, w)
  PROVE  EntersFrom(m, flags, w, LoopFrame(m, Loop, flags, w))
<1> USE TheLoop
<1>1. m[Loop] \in LoopState
  OBVIOUS
<1> DEFINE r == Entered(m, Loop, flags)[Loop]
           d == IF "ML_INCREASE_DEPTH" \in flags THEN m[Loop].depth + 1 ELSE m[Loop].depth
<1>2. r = [m[Loop] EXCEPT !.running = TRUE, !.teardown = FALSE,
             !.depth = IF "ML_INCREASE_DEPTH" \in flags THEN m[Loop].depth + 1 ELSE m[Loop].depth]
  BY DEF Entered
<1>3. d \in Nat
  BY <1>1 DEF LoopState
<1>4. r = [m[Loop] EXCEPT !.running = TRUE, !.teardown = FALSE, !.depth = d]
  BY <1>2
<1>5. /\ r \in LoopState /\ r.async_q = m[Loop].async_q /\ r.int_q = m[Loop].int_q
      /\ r.running = TRUE /\ r.depth = d /\ r.alive = m[Loop].alive
  <2> HIDE DEF r, d
  <2> QED
    BY <1>1, <1>3, <1>4 DEF LoopState
<1>6. ml' \in [Loops -> LoopState] /\ ml'[Loop] = r
  <2>1. ml' = [m EXCEPT ![Loop] = r]
    BY <1>2 DEF Enter, Entered
  <2> HIDE DEF r
  <2> QED
    BY <1>5, <2>1
<1> DEFINE f == LoopFrame(m, Loop, flags, w)
<1>7. f = [kind |-> "loop", flags |-> flags, call |-> w, depth |-> r.depth,
           saved |-> [running |-> m[Loop].running, teardown |-> m[Loop].teardown],
           teardown |-> FALSE, destroy_ml |-> FALSE, pumping |-> "ML_EXIT_ON_EMPTY" \in flags]
  BY DEF LoopFrame
<1>8. /\ f \in LoopFrameType /\ f.kind = "loop" /\ f.flags = flags /\ f.call = w /\ f.depth = d
      /\ f.saved.running = m[Loop].running /\ f.teardown = FALSE
  <2>1. m[Loop].running \in BOOLEAN /\ m[Loop].teardown \in BOOLEAN
    BY <1>1 DEF LoopState
  <2>2. [running |-> m[Loop].running, teardown |-> m[Loop].teardown]
          \in [running : BOOLEAN, teardown : BOOLEAN]
    BY <2>1
  <2> HIDE DEF f, r, d
  <2> QED
    BY <1>3, <1>5, <1>7, <2>1, <2>2 DEF LoopFrameType
<1>9. FramesBecome(Append(stack[Loop], f))
  <2>1. f \in Frame
    BY <1>8, FrameTypes
  <2>2. stack' = [stack EXCEPT ![Loop] = Append(stack[Loop], f)]
    BY DEF Enter
  <2> HIDE DEF f
  <2> QED
    BY <2>1, <2>2, QueueIs, AppendProperties, SetFrames
<1> QED
  <2> HIDE DEF f, r
  <2>1. EntersFrom(m, flags, w, f)
    BY <1>5, <1>6, <1>8, <1>9 DEF EntersFrom, TypesStay, QueuesAre, FramesBecome
  <2> QED
    BY <2>1 DEF f

LEMMA RunTaskIs ==
  ASSUME QueueTypes, RunTask(Loop, now)
  PROVE  /\ TypesStay /\ QueuesAre(Async, Tree \ {DueTask(Loop)}) /\ FlagsStay
         /\ stack'[Loop] = Append(stack[Loop], CallbackFrame(DueTask(Loop).work))
         /\ DueTask(Loop) \in Tree /\ DueTask(Loop) \in Task /\ ~DueTask(Loop).terminate
<1>1. /\ DueTask(Loop) \in ml[Loop].int_q /\ DueTask(Loop) \in Task /\ ~DueTask(Loop).terminate
  BY DueIs DEF RunTask
<1> DEFINE q == ml[Loop].int_q \ {DueTask(Loop)}
           r == [ml[Loop] EXCEPT !.int_q = q]
<1>2. q \in SUBSET Task /\ ml[Loop] \in LoopState
  BY QueueIs
<1>3. ml' = [ml EXCEPT ![Loop] = r]
  BY DEF RunTask
<1>4. /\ r \in LoopState /\ r.async_q = ml[Loop].async_q /\ r.int_q = q
      /\ r.running = ml[Loop].running /\ r.depth = ml[Loop].depth /\ r.alive = ml[Loop].alive
  <2> HIDE DEF q
  <2> QED
    BY <1>2 DEF LoopState
<1>5. LoopBecomes(r)
  <2> HIDE DEF r
  <2> QED
    BY <1>3, <1>4, SetLoop
<1> DEFINE f == CallbackFrame(DueTask(Loop).work)
<1>6. FramesBecome(Append(stack[Loop], f))
  <2>1. DueTask(Loop).work \in WorkItems
    BY <1>1 DEF Task, TaskType
  <2>2. f \in Frame
    BY <2>1, FrameTypes
  <2>3. stack' = [stack EXCEPT ![Loop] = Append(stack[Loop], f)]
    BY DEF RunTask
  <2> HIDE DEF f
  <2> QED
    BY <2>2, <2>3, QueueIs, AppendProperties, SetFrames
<1> HIDE DEF r
<1> QED
  BY <1>1, <1>4, <1>5, <1>6 DEF TypesStay, QueuesAre, FlagsStay, LoopBecomes, FramesBecome, Async, Tree

(* A run is left with the tree q. *)
Leaves(q, f) ==
  /\ TypesStay /\ QueuesAre(Async, q)
  /\ f = Top(Loop) /\ f \in LoopFrameType /\ stack[Loop] # <<>> /\ f = stack[Loop][Len(stack[Loop])]
  /\ ml'[Loop].depth = IF "ML_INCREASE_DEPTH" \in f.flags THEN ml[Loop].depth - 1 ELSE ml[Loop].depth
  /\ ml'[Loop].running = ("ML_NESTED" \in f.flags /\ f.saved.running)
  /\ stack'[Loop] = SubSeq(stack[Loop], 1, Len(stack[Loop]) - 1)

LEMMA LeaveIs ==
  ASSUME QueueTypes, NestingInv, InLoop(Loop), NEW q \in SUBSET Task, LeaveLoop(Loop, q)
  PROVE  Leaves(q, Top(Loop))
<1>1. PICK f \in LoopFrameType : f = Top(Loop) /\ stack[Loop] # <<>> /\ f = stack[Loop][Len(stack[Loop])]
  BY TopIs
<1>2. f.kind = "loop" /\ f.flags \in SUBSET Flags /\ f.saved \in [running : BOOLEAN, teardown : BOOLEAN]
      /\ f.destroy_ml \in BOOLEAN
  BY DEF LoopFrameType
<1>3. "ML_INCREASE_DEPTH" \in f.flags => ml[Loop].depth > 0
  BY <1>1, <1>2, QueueIs, PopLoop, SMTT(60) DEF NestingInv
<1> DEFINE r == Exited(Loop, f, q)
           d == IF "ML_INCREASE_DEPTH" \in f.flags THEN ml[Loop].depth - 1 ELSE ml[Loop].depth
           run == "ML_NESTED" \in f.flags /\ f.saved.running
           down == IF "ML_NESTED" \in f.flags THEN f.saved.teardown ELSE ml[Loop].teardown
           alive == ml[Loop].alive /\ ~f.destroy_ml
<1>4. r = [ml[Loop] EXCEPT !.int_q = q, !.depth = d, !.running = run, !.teardown = down, !.alive = alive]
  BY QueueIs DEF Exited
<1>5. d \in Nat /\ run \in BOOLEAN /\ down \in BOOLEAN /\ alive \in BOOLEAN
  BY <1>2, <1>3, QueueIs
<1>6. ml[Loop] \in LoopState
  BY QueueIs
<1>7. /\ r \in LoopState /\ r.async_q = ml[Loop].async_q /\ r.int_q = q /\ r.depth = d /\ r.running = run
  <2> HIDE DEF r, d, run, down, alive
  <2> QED
    BY <1>4, <1>5, <1>6 DEF LoopState
<1>8. LoopBecomes(r)
  <2>1. ml' = [ml EXCEPT ![Loop] = r]
    BY <1>1 DEF LeaveLoop
  <2> HIDE DEF r
  <2> QED
    BY <1>7, <2>1, SetLoop
<1>9. FramesBecome(SubSeq(stack[Loop], 1, Len(stack[Loop]) - 1))
  <2>1. stack' = [stack EXCEPT ![Loop] = SubSeq(stack[Loop], 1, Len(stack[Loop]) - 1)]
    BY DEF LeaveLoop, Below
  <2> QED
    BY <1>1, <2>1, QueueIs, BelowIs, SetFrames
<1> HIDE DEF r
<1> QED
  BY <1>1, <1>7, <1>8, <1>9 DEF Leaves, TypesStay, QueuesAre, LoopBecomes, FramesBecome, Async

(* The outermost run goes into teardown. *)
LEMMA QuitOutermostIs ==
  ASSUME QueueTypes, QuitOutermost(Loop, now)
  PROVE  /\ TypesStay /\ QueuesAre(Async, Tree \ {DueTask(Loop)}) /\ FlagsStay
         /\ DueTask(Loop) \in Tree /\ DueTask(Loop).terminate
         /\ stack[Loop] # <<>> /\ Top(Loop) \in LoopFrameType /\ ~IsNested(Top(Loop))
         /\ Len(stack'[Loop]) = Len(stack[Loop])
         /\ \A i \in 1 .. Len(stack[Loop]) : i # Len(stack[Loop]) => stack'[Loop][i] = stack[Loop][i]
         /\ LET f == stack'[Loop][Len(stack[Loop])] IN
            /\ f.kind = "loop" /\ f.flags = Top(Loop).flags /\ f.depth = Top(Loop).depth
            /\ f.saved = Top(Loop).saved /\ f.call = Top(Loop).call /\ f.teardown = TRUE
<1>1. /\ DueTask(Loop) \in ml[Loop].int_q /\ DueTask(Loop) \in Task /\ DueTask(Loop).terminate
      /\ ~IsNested(Top(Loop))
  BY DueIs DEF QuitOutermost
<1>2. PICK f \in LoopFrameType : f = Top(Loop) /\ stack[Loop] # <<>> /\ f = stack[Loop][Len(stack[Loop])]
  BY DueIs, TopIs DEF QuitOutermost
<1> DEFINE q == ml[Loop].int_q \ {DueTask(Loop)}
           r == [ml[Loop] EXCEPT !.teardown = TRUE, !.int_q = q]
<1>3. q \in SUBSET Task /\ ml[Loop] \in LoopState
  BY QueueIs
<1>4. ml' = [ml EXCEPT ![Loop] = r]
  BY DEF QuitOutermost
<1>5. /\ r \in LoopState /\ r.async_q = ml[Loop].async_q /\ r.int_q = q
      /\ r.running = ml[Loop].running /\ r.depth = ml[Loop].depth /\ r.alive = ml[Loop].alive
  <2> HIDE DEF q
  <2> QED
    BY <1>3 DEF LoopState
<1>6. LoopBecomes(r)
  <2> HIDE DEF r
  <2> QED
    BY <1>4, <1>5, SetLoop
<1> DEFINE g == [f EXCEPT !.teardown = TRUE, !.destroy_ml = DueTask(Loop).destroy]
           z == [stack[Loop] EXCEPT ![Len(stack[Loop])] = g]
<1>7. /\ g \in LoopFrameType /\ g.kind = "loop" /\ g.flags = f.flags /\ g.depth = f.depth
      /\ g.saved = f.saved /\ g.call = f.call /\ g.teardown = TRUE
  <2>1. DueTask(Loop).destroy \in BOOLEAN
    BY <1>1 DEF Task, TaskType
  <2> QED
    BY <2>1 DEF LoopFrameType
<1>8. g \in Frame
  BY <1>7, FrameTypes
<1>9. stack' = [stack EXCEPT ![Loop] = z]
  BY <1>2, TheLoop DEF QuitOutermost, QueueTypes
<1> HIDE DEF g
<1>10. /\ z \in Seq(Frame) /\ Len(z) = Len(stack[Loop]) /\ z[Len(stack[Loop])] = g
       /\ \A i \in 1 .. Len(stack[Loop]) : i # Len(stack[Loop]) => z[i] = stack[Loop][i]
  <2>1. stack[Loop] \in Seq(Frame) /\ Len(stack[Loop]) \in 1 .. Len(stack[Loop])
    BY <1>2, QueueIs, BelowIs
  <2> QED
    BY <1>8, <2>1, ExceptSeq
<1>11. FramesBecome(z)
  <2> HIDE DEF z
  <2> QED
    BY <1>9, <1>10, SetFrames
<1> HIDE DEF r, z
<1> QED
  BY <1>1, <1>2, <1>5, <1>6, <1>7, <1>10, <1>11
     DEF TypesStay, QueuesAre, FlagsStay, LoopBecomes, FramesBecome, Async, Tree

(* A task goes from the queue to the tree. *)
LEMMA MoveIs ==
  ASSUME QueueTypes, ml[Loop].async_q # <<>>, MoveToTree(Loop), UNCHANGED stack
  PROVE  TypesStay /\ QueuesAre(Tail(Async), g_tree_insert(Tree, Head(Async))) /\ FlagsStay
<1> DEFINE a == Tail(ml[Loop].async_q)
           q == g_tree_insert(ml[Loop].int_q, Head(ml[Loop].async_q))
           r == [ml[Loop] EXCEPT !.async_q = a, !.int_q = q]
<1>1. a \in Seq(Task) /\ Head(ml[Loop].async_q) \in Task /\ ml[Loop] \in LoopState
  BY QueueIs, HeadTailProperties
<1>2. q \in SUBSET Task
  BY <1>1, QueueIs DEF g_tree_insert
<1>3. ml' = [ml EXCEPT ![Loop] = r]
  BY DEF MoveToTree
<1>4. /\ r \in LoopState /\ r.async_q = a /\ r.int_q = q
      /\ r.running = ml[Loop].running /\ r.depth = ml[Loop].depth /\ r.alive = ml[Loop].alive
  <2> HIDE DEF a, q
  <2> QED
    BY <1>1, <1>2 DEF LoopState
<1> HIDE DEF r
<1>5. LoopBecomes(r)
  BY <1>3, <1>4, SetLoop
<1> QED
  BY <1>4, <1>5 DEF TypesStay, QueuesAre, FlagsStay, LoopBecomes, QueueTypes, Async, Tree

(* A callback returns. *)
LEMMA ReturnIs ==
  ASSUME QueueTypes, InCallback(Loop), Returns, UNCHANGED ml
  PROVE  /\ TypesStay /\ stack[Loop] # <<>> /\ stack[Loop][Len(stack[Loop])].kind = "cb"
         /\ stack'[Loop] = SubSeq(stack[Loop], 1, Len(stack[Loop]) - 1)
<1>1. stack[Loop] # <<>> /\ stack[Loop][Len(stack[Loop])].kind = "cb"
  BY DEF InCallback, Top
<1>2. stack' = [stack EXCEPT ![Loop] = SubSeq(stack[Loop], 1, Len(stack[Loop]) - 1)]
  BY DEF Returns, Below
<1>3. FramesBecome(SubSeq(stack[Loop], 1, Len(stack[Loop]) - 1))
  BY <1>1, <1>2, QueueIs, BelowIs, SetFrames
<1> QED
  BY <1>1, <1>3 DEF TypesStay, FramesBecome, QueueTypes

(* The loop with a request posted, or as it was if it takes no work. *)
LEMMA RequestedIs ==
  ASSUME QueueTypes, NEW t \in Task, NEW m, m = ppb_message_loop_post_work_with_result(ml, Loop, t)
  PROVE  /\ m \in [Loops -> LoopState] /\ m[Loop].int_q = Tree
         /\ m[Loop].running = ml[Loop].running /\ m[Loop].depth = ml[Loop].depth
         /\ m[Loop].async_q = Async \/ m[Loop].async_q = Append(Async, t)
<1> USE TheLoop DEF QueueTypes, Async, Tree
<1>1. CASE m = ml
  BY <1>1
<1>2. CASE m = [ml EXCEPT ![Loop].async_q = Append(@, t)]
  <2> DEFINE r == [ml[Loop] EXCEPT !.async_q = Append(@, t)]
  <2>1. ml[Loop] \in LoopState /\ Append(ml[Loop].async_q, t) \in Seq(Task)
    BY QueueIs, AppendProperties
  <2>2. /\ r \in LoopState /\ r.int_q = ml[Loop].int_q /\ r.running = ml[Loop].running
        /\ r.depth = ml[Loop].depth /\ r.async_q = Append(ml[Loop].async_q, t)
    BY <2>1 DEF LoopState
  <2>3. m = [ml EXCEPT ![Loop] = r]
    BY <1>2
  <2> HIDE DEF r
  <2> QED
    BY <2>2, <2>3
<1> QED
  BY <1>1, <1>2 DEF ppb_message_loop_post_work_with_result

-----------------------------------------------------------------------------
(* The nesting is right after every change. *)

LEMMA NestStays ==
  ASSUME NestingInv, FlagsStay, stack'[Loop] = stack[Loop]
  PROVE  NestingInv'
BY DEF NestingInv, FlagsStay

LEMMA NestEnter ==
  ASSUME QueueTypes, NestingInv, NEW m, NEW flags, NEW w, NEW f, EntersFrom(m, flags, w, f),
         m[Loop].depth = ml[Loop].depth, m[Loop].running = ml[Loop].running,
         "ML_NESTED" \in flags \/ ~ml[Loop].running
  PROVE  NestingInv'
<1>1. f \in Frame
  BY FrameTypes DEF EntersFrom
<1>2. /\ f.kind = "loop" /\ f.saved.running = ml[Loop].running
      /\ f.depth = IF "ML_INCREASE_DEPTH" \in f.flags THEN ml[Loop].depth + 1 ELSE ml[Loop].depth
      /\ "ML_NESTED" \in f.flags \/ ~ml[Loop].running
  BY DEF EntersFrom
<1>3. Nested(Append(stack[Loop], f), f.depth, TRUE)
  BY <1>1, <1>2, QueueIs, PushLoop DEF NestingInv
<1> QED
  BY <1>3 DEF NestingInv, EntersFrom

LEMMA NestRun ==
  ASSUME QueueTypes, NestingInv, RunTask(Loop, now)
  PROVE  NestingInv'
<1>1. DueTask(Loop).work \in WorkItems
  BY RunTaskIs DEF Task, TaskType
<1>2. Nested(Append(stack[Loop], CallbackFrame(DueTask(Loop).work)), ml[Loop].depth, ml[Loop].running)
  BY <1>1, QueueIs, FrameTypes, PushCallback DEF NestingInv
<1> QED
  BY <1>2, RunTaskIs DEF NestingInv, FlagsStay

LEMMA NestReturn ==
  ASSUME QueueTypes, NestingInv, InCallback(Loop), Returns, UNCHANGED ml
  PROVE  NestingInv'
<1>1. Nested(SubSeq(stack[Loop], 1, Len(stack[Loop]) - 1), ml[Loop].depth, ml[Loop].running)
  BY ReturnIs, QueueIs, PopCallback DEF NestingInv
<1> QED
  BY <1>1, ReturnIs DEF NestingInv

LEMMA NestLeave ==
  ASSUME QueueTypes, NestingInv, NEW q, NEW f, Leaves(q, f)
  PROVE  NestingInv'
<1>1. f.kind = "loop" /\ f = stack[Loop][Len(stack[Loop])] /\ stack[Loop] # <<>>
  BY DEF Leaves, LoopFrameType
<1>2. Nested(SubSeq(stack[Loop], 1, Len(stack[Loop]) - 1),
             IF "ML_INCREASE_DEPTH" \in f.flags THEN ml[Loop].depth - 1 ELSE ml[Loop].depth,
             "ML_NESTED" \in f.flags /\ f.saved.running)
  BY <1>1, QueueIs, PopLoop DEF NestingInv
<1> QED
  BY <1>2 DEF NestingInv, Leaves

LEMMA NestQuit ==
  ASSUME QueueTypes, NestingInv, QuitOutermost(Loop, now)
  PROVE  NestingInv'
<1> DEFINE s == stack[Loop]
           z == stack'[Loop]
<1>1. /\ TypesStay /\ FlagsStay /\ s # <<>> /\ Len(z) = Len(s)
      /\ \A i \in 1 .. Len(s) : i # Len(s) => z[i] = s[i]
      /\ z[Len(s)].kind = "loop" /\ z[Len(s)].flags = Top(Loop).flags
      /\ z[Len(s)].depth = Top(Loop).depth /\ z[Len(s)].saved = Top(Loop).saved
      /\ Top(Loop).kind = "loop"
  BY QuitOutermostIs DEF LoopFrameType
<1>2. s \in Seq(Frame) /\ z \in Seq(Frame)
  BY <1>1, QueueIs, TheLoop DEF TypesStay
<1>3. Top(Loop) = s[Len(s)]
  BY DEF Top
<1> HIDE DEF s, z
<1>4. LoopsOf(z) = LoopsOf(s)
  BY <1>1, <1>2, <1>3 DEF LoopsOf
<1>5. \A i \in LoopsOf(s) : /\ z[i].flags = s[i].flags /\ z[i].depth = s[i].depth
                            /\ z[i].saved = s[i].saved
  BY <1>1, <1>2, <1>3 DEF LoopsOf
<1>6. Nested(z, ml[Loop].depth, ml[Loop].running)
  BY <1>2, <1>4, <1>5, NestedSame DEF NestingInv, s
<1> QED
  BY <1>1, <1>6 DEF NestingInv, FlagsStay, z

-----------------------------------------------------------------------------
(* LoopInv is inductive. *)

LEMMA LoopInvIs ==
  ASSUME LoopInv
  PROVE  /\ QueueTypes /\ NestingInv /\ CountsInv /\ ClientTypes
         /\ now \in Nat /\ MaxTime \in Nat /\ MaxQuits \in Nat /\ MaxRuns \in Nat /\ Delays \subseteq Nat
         /\ \A d \in Delays : now + d \in Nat
         /\ quits \in Nat /\ exits \in Nat
BY ClientAssumption DEF LoopInv, ClientTypes, CountsInv

(* What a quit task carries: the number of items of work posted before it. *)
LEMMA NoWorkIs ==
  /\ NoWork \in WorkItems /\ NoWork.fn = "none" /\ NoWork.id \in Nat
  /\ \A i \in Tasks : i <= NoWork.id /\ task[i].state = "none" =>
       \E k \in Tasks : i < k /\ task[k].state # "none"
<1>1. PICK n : n = Cardinality(PostedWork) /\ NoWork = Work("none", n)
  BY DEF NoWork
<1>2. MaxTasks \in Nat /\ PostedWork \in SUBSET (1 .. MaxTasks)
  BY ClientAssumption DEF PostedWork, Tasks
<1>3. n \in Nat
  <2>1. IsFiniteSet(1 .. MaxTasks)
    BY <1>2, FS_Interval
  <2>2. IsFiniteSet(PostedWork)
    BY <1>2, <2>1, FS_Subset
  <2> QED
    BY <1>1, <2>2, FS_CardinalityType
<1>4. ASSUME NEW i \in Tasks, i <= n, task[i].state = "none",
             \A k \in Tasks : i < k => task[k].state = "none"
      PROVE  FALSE
  <2>1. i \in 1 .. MaxTasks /\ i - 1 \in Nat /\ 0 \in Int /\ i \in Nat
    BY <1>2 DEF Tasks
  <2>2. PostedWork \in SUBSET (1 .. i - 1)
    BY <1>2, <1>4, <2>1 DEF PostedWork, Tasks
  <2>3. IsFiniteSet(1 .. i - 1) /\ Cardinality(1 .. i - 1) = i - 1
    <3>1. 1 \in Int /\ i - 1 \in Int
      BY <2>1
    <3>2. Cardinality(1 .. i - 1) = IF 1 > i - 1 THEN 0 ELSE (i - 1) - 1 + 1
      BY <3>1, FS_Interval
    <3> QED
      BY <2>1, <3>1, <3>2, FS_Interval
  <2>4. n <= i - 1
    BY <1>1, <2>2, <2>3, FS_Subset
  <2> QED
    BY <1>3, <1>4, <2>1, <2>4
<1>5. NoWork \in WorkItems /\ NoWork.fn = "none" /\ NoWork.id = n
  BY <1>1, <1>3 DEF Work, WorkItems
<1> QED
  BY <1>3, <1>4, <1>5

LEMMA TasksAreTyped ==
  /\ \A when \in Nat, depth \in Nat, w \in WorkItems :
       /\ WorkTask(when, depth, w) \in Task /\ ~WorkTask(when, depth, w).terminate
       /\ WorkTask(when, depth, w).work = w /\ WorkTask(when, depth, w).when = when
       /\ WorkTask(when, depth, w).depth = depth
  /\ \A when \in Nat, depth \in Nat, destroy \in BOOLEAN, w \in WorkItems :
       /\ QuitTask(when, depth, destroy, w) \in Task /\ QuitTask(when, depth, destroy, w).terminate
       /\ QuitTask(when, depth, destroy, w).work = w /\ QuitTask(when, depth, destroy, w).when = when
       /\ QuitTask(when, depth, destroy, w).depth = depth
  /\ \A i \in Nat : Work("work", i) \in WorkItems /\ Work("request", i) \in WorkItems
  /\ NoWork \in WorkItems /\ NoWork.fn = "none"
  /\ NoWait \in Waiters /\ \A i \in Nat : [fn |-> "sync", id |-> i] \in Waiters
                                          /\ [fn |-> "flash", id |-> i] \in Waiters
BY NoWorkIs DEF WorkTask, QuitTask, Task, TaskType, Work, WorkItems, Waiters, NoWait

(* A step that at most posts a task. *)
LEMMA LoopPosts ==
  ASSUME LoopInv, NEW t \in Task, UNCHANGED stack,
         \/ ml' = ppb_message_loop_post_work_with_result(ml, Loop, t)
         \/ ml' = ppb_message_loop_post_quit_depth(ml, Loop, t)
  PROVE  /\ QueueTypes' /\ NestingInv' /\ stack'[Loop] = stack[Loop]
<1> USE LoopInvIs
<1>1. CASE ml' = ml
  BY <1>1 DEF QueueTypes, NestingInv
<1>2. CASE Posted(t)
  <2>1. TypesStay /\ FlagsStay
    BY <1>2, PostedIs
  <2> QED
    BY <2>1, NestStays DEF TypesStay, QueueTypes
<1> QED
  BY <1>1, <1>2, PostIs

LEMMA SyncSets ==
  ASSUME sync \in [Syncs -> SyncState], NEW i
  PROVE  /\ [sync EXCEPT ![i].answered = TRUE] \in [Syncs -> SyncState]
         /\ [sync EXCEPT ![i].asked = TRUE] \in [Syncs -> SyncState]
         /\ [sync EXCEPT ![i].state = "returned"] \in [Syncs -> SyncState]
<1>1. CASE i \in Syncs
  <2>1. sync[i] \in SyncState
    BY <1>1
  <2>2. /\ [sync[i] EXCEPT !.answered = TRUE] \in SyncState
        /\ [sync[i] EXCEPT !.asked = TRUE] \in SyncState
        /\ [sync[i] EXCEPT !.state = "returned"] \in SyncState
    BY <2>1 DEF SyncState
  <2> QED
    BY <1>1, <2>2
<1>2. CASE i \notin Syncs
  BY <1>2
<1> QED
  BY <1>1, <1>2

LEMMA TaskRan ==
  ASSUME task \in [Tasks -> TaskState], NEW w
  PROVE  Ran(w) \in [Tasks -> TaskState]
<1>1. ASSUME NEW i PROVE [task EXCEPT ![i].state = "ran"] \in [Tasks -> TaskState]
  <2>1. CASE i \in Tasks
    <3>1. [task[i] EXCEPT !.state = "ran"] \in TaskState
      BY <2>1 DEF TaskState
    <3> QED
      BY <2>1, <3>1
  <2>2. CASE i \notin Tasks
    BY <2>2
  <2> QED
    BY <2>1, <2>2
<1> QED
  BY <1>1 DEF Ran

LEMMA InvTick ==
  ASSUME LoopInv, Tick PROVE LoopInv'
<1> USE LoopInvIs
<1>1. UNCHANGED <<ml, stack, task, sync, flash, quitter, quits, exits, told>> /\ now' \in 0 .. MaxTime
  BY DEF Tick, ClientTypes
<1> QED
  BY <1>1 DEF LoopInv, QueueTypes, NestingInv, CountsInv, ClientTypes

LEMMA InvPostWork ==
  ASSUME LoopInv, NEW i \in Tasks, NEW delay \in Delays, NEW depth \in {0, 1},
         ppb_message_loop_post_work(i, delay, depth)
  PROVE  LoopInv'
<1> USE LoopInvIs
<1>1. /\ UNCHANGED <<stack, now, sync, flash, quitter, quits, exits, told>>
      /\ ml' = ppb_message_loop_post_work_with_result(
                 ml, Loop, WorkTask(now + delay, depth, Work("work", i)))
  BY DEF ppb_message_loop_post_work
<1>2. WorkTask(now + delay, depth, Work("work", i)) \in Task
  <2>1. i \in Nat /\ now + delay \in Nat /\ depth \in Nat
    BY DEF Tasks
  <2> QED
    BY <2>1, TasksAreTyped
<1>3. QueueTypes' /\ NestingInv' /\ stack'[Loop] = stack[Loop]
  BY <1>1, <1>2, LoopPosts
<1>4. task' \in [Tasks -> TaskState]
  <2> DEFINE r == [state |-> IF AcceptsWork(ml, Loop) THEN "queued" ELSE "refused",
                   delay |-> delay]
  <2>1. r \in TaskState
    BY DEF TaskState
  <2>2. task' = [task EXCEPT ![i] = r]
    BY DEF ppb_message_loop_post_work
  <2> HIDE DEF r
  <2> QED
    BY <2>1, <2>2 DEF ClientTypes
<1> QED
  BY <1>1, <1>3, <1>4 DEF LoopInv, CountsInv, ClientTypes

LEMMA InvReadDepth ==
  ASSUME LoopInv, ReadDepth PROVE LoopInv'
<1> USE LoopInvIs
<1>1. UNCHANGED <<ml, stack, now, task, sync, flash, quits, exits, told>> /\ quits < MaxQuits /\ quitter' \in Nat
  BY QueueIs DEF ReadDepth
<1> QED
  BY <1>1 DEF LoopInv, QueueTypes, NestingInv, CountsInv, ClientTypes

LEMMA InvPostQuit ==
  ASSUME LoopInv, NEW destroy \in BOOLEAN, ppb_message_loop_post_quit(destroy)
  PROVE  LoopInv'
<1> USE LoopInvIs
<1>1. /\ UNCHANGED <<stack, now, task, sync, flash, exits, told>>
      /\ quitter # -1 /\ quitter' = -1 /\ quits' = quits + 1
      /\ ml' = ppb_message_loop_post_quit_depth(
                 ml, Loop, QuitTask(now, quitter, destroy, NoWork))
  BY DEF ppb_message_loop_post_quit
<1>2. quitter \in Nat /\ quits < MaxQuits
  BY <1>1 DEF CountsInv
<1>3. QuitTask(now, quitter, destroy, NoWork) \in Task
  BY <1>2, TasksAreTyped, ZenonT(60)
<1>4. QueueTypes' /\ NestingInv' /\ stack'[Loop] = stack[Loop]
  BY <1>1, <1>3, LoopPosts
<1>5. CountsInv'
  BY <1>1, <1>2, <1>4 DEF CountsInv
<1> QED
  BY <1>1, <1>4, <1>5 DEF LoopInv, ClientTypes

LEMMA InvAnswer ==
  ASSUME LoopInv, NEW i \in Syncs, AnswerSync(i)
  PROVE  LoopInv'
<1> USE LoopInvIs
<1>1. /\ UNCHANGED <<stack, now, task, flash, quitter, quits, exits, told>>
      /\ sync' = [sync EXCEPT ![i].answered = TRUE]
      /\ ml' = ppb_message_loop_post_quit_depth(
                 ml, Loop, QuitTask(now, sync[i].depth, FALSE, NoWork))
  BY DEF AnswerSync
<1>2. QuitTask(now, sync[i].depth, FALSE, NoWork) \in Task
  <2>1. sync[i].depth \in Nat
    BY DEF ClientTypes, SyncState
  <2> QED
    BY <2>1, TasksAreTyped, ZenonT(60)
<1>3. QueueTypes' /\ NestingInv' /\ stack'[Loop] = stack[Loop]
  BY <1>1, <1>2, LoopPosts
<1>4. sync' \in [Syncs -> SyncState]
  BY <1>1, SyncSets DEF ClientTypes
<1> QED
  BY <1>1, <1>3, <1>4 DEF LoopInv, CountsInv, ClientTypes

LEMMA InvRun ==
  ASSUME LoopInv, ppb_message_loop_run PROVE LoopInv'
<1> USE LoopInvIs
<1>1. /\ UNCHANGED <<now, task, sync, flash, quitter, quits, exits, told>> /\ exits < MaxRuns
      /\ Enter(ml, {"ML_INCREASE_DEPTH"}, NoWait) /\ ~ml[Loop].running
  BY DEF ppb_message_loop_run, MayRun
<1>2. PICK f : EntersFrom(ml, {"ML_INCREASE_DEPTH"}, NoWait, f)
  <2>1. {"ML_INCREASE_DEPTH"} \in SUBSET Flags
    BY DEF Flags
  <2> QED
    BY <1>1, <2>1, EnterIs, TasksAreTyped DEF QueueTypes
<1>3. NestingInv'
  BY <1>1, <1>2, NestEnter
<1>4. QueueTypes'
  BY <1>2 DEF EntersFrom, TypesStay, QueueTypes
<1> QED
  BY <1>1, <1>3, <1>4 DEF LoopInv, CountsInv, ClientTypes

LEMMA InvWorkReturns ==
  ASSUME LoopInv, InCallback(Loop), Returns, UNCHANGED <<ml, now, task, flash, quitter, quits, exits, told>>,
         sync' \in [Syncs -> SyncState]
  PROVE  LoopInv'
<1> USE LoopInvIs
<1>1. NestingInv'
  BY NestReturn
<1>2. QueueTypes' /\ stack[Loop] # <<>>
  BY ReturnIs DEF TypesStay, QueueTypes
<1> QED
  BY <1>1, <1>2 DEF LoopInv, CountsInv, ClientTypes

LEMMA InvCallSync ==
  ASSUME LoopInv, NEW i \in Syncs, CallSync(i)
  PROVE  LoopInv'
<1> USE LoopInvIs
<1> DEFINE depth == ml[Loop].depth + 1
           t == WorkTask(now, depth, Work("request", i))
           flags == {"ML_NESTED", "ML_INCREASE_DEPTH"}
           w == [fn |-> "sync", id |-> i]
           r == [state |-> "waiting", depth |-> depth, asked |-> FALSE, answered |-> FALSE]
<1>1. /\ UNCHANGED <<now, task, flash, quitter, quits, exits, told>> /\ stack[Loop] # <<>>
      /\ sync' = [sync EXCEPT ![i] = r]
  BY DEF CallSync, InWork, InCallback
<1>2. PICK m : m = ppb_message_loop_post_work_with_result(ml, Loop, t) /\ Enter(m, flags, w)
  BY DEF CallSync
<1>3. t \in Task /\ depth \in Nat /\ w \in Waiters /\ flags \in SUBSET Flags /\ r \in SyncState
  <2>1. depth \in Nat /\ i \in Nat
    BY QueueIs DEF Syncs
  <2>2. t \in Task /\ w \in Waiters
    BY <2>1, TasksAreTyped
  <2>3. flags \in SUBSET Flags
    BY DEF Flags
  <2>4. r \in SyncState
    <3> HIDE DEF depth
    <3> QED
      BY <2>1 DEF SyncState
  <2> QED
    BY <2>1, <2>2, <2>3, <2>4
<1> HIDE DEF t, w, r, depth
<1>4. /\ m \in [Loops -> LoopState]
      /\ m[Loop].running = ml[Loop].running /\ m[Loop].depth = ml[Loop].depth
  BY <1>2, <1>3, RequestedIs
<1>5. PICK f : EntersFrom(m, flags, w, f)
  BY <1>2, <1>3, <1>4, EnterIs
<1>6. NestingInv'
  BY <1>4, <1>5, NestEnter
<1>7. QueueTypes'
  BY <1>5 DEF EntersFrom, TypesStay, QueueTypes
<1>8. sync' \in [Syncs -> SyncState]
  BY <1>1, <1>3 DEF ClientTypes
<1> QED
  BY <1>1, <1>6, <1>7, <1>8 DEF LoopInv, CountsInv, ClientTypes

LEMMA FlashIs ==
  ASSUME flash \in FlashState
  PROVE  /\ flash.runs \in Nat /\ flash.quits \in Nat /\ flash.returned \in Nat /\ flash.depth \in Nat
         /\ flash.runs + 1 \in Nat /\ flash.quits + 1 \in Nat /\ flash.returned + 1 \in Nat
BY DEF FlashState

(* The record of the Flash message loop after Run, Quit and the return of  *)
(* Run.                                                                    *)
LEMMA FlashRuns ==
  ASSUME flash \in FlashState, NEW d \in Nat, NEW n \in Nat
  PROVE  [flash EXCEPT !.running = TRUE, !.depth = d, !.runs = n] \in FlashState
BY DEF FlashState

LEMMA FlashQuits ==
  ASSUME flash \in FlashState, NEW n \in Nat
  PROVE  [flash EXCEPT !.quits = n] \in FlashState
BY DEF FlashState

LEMMA FlashReturns ==
  ASSUME flash \in FlashState, NEW n \in Nat
  PROVE  [flash EXCEPT !.running = FALSE, !.returned = n] \in FlashState
BY DEF FlashState

LEMMA InvFlashRun ==
  ASSUME LoopInv, ppb_flash_message_loop_run PROVE LoopInv'
<1> USE LoopInvIs
<1> DEFINE w == [fn |-> "flash", id |-> flash.runs + 1]
<1>1. /\ UNCHANGED <<now, task, sync, quitter, quits, exits, told>> /\ stack[Loop] # <<>>
      /\ flash' = [flash EXCEPT !.running = TRUE, !.depth = ml[Loop].depth + 1, !.runs = flash.runs + 1]
      /\ Enter(ml, {"ML_NESTED"}, w)
  BY DEF ppb_flash_message_loop_run, InWork, InCallback
<1>2. flash' \in FlashState /\ flash.runs + 1 \in Nat
  <2>1. flash \in FlashState
    BY DEF ClientTypes
  <2>2. flash.runs + 1 \in Nat
    BY <2>1, FlashIs
  <2>3. ml[Loop].depth + 1 \in Nat
    BY QueueIs
  <2> QED
    BY <1>1, <2>1, <2>2, <2>3, FlashRuns
<1>3. w \in Waiters /\ {"ML_NESTED"} \in SUBSET Flags
  BY <1>2, TasksAreTyped DEF Flags
<1> HIDE DEF w
<1>4. PICK f : EntersFrom(ml, {"ML_NESTED"}, w, f)
  BY <1>1, <1>3, EnterIs DEF QueueTypes
<1>5. NestingInv'
  BY <1>4, NestEnter
<1>6. QueueTypes'
  BY <1>4 DEF EntersFrom, TypesStay, QueueTypes
<1> QED
  BY <1>1, <1>2, <1>5, <1>6 DEF LoopInv, CountsInv, ClientTypes

LEMMA InvFlashQuit ==
  ASSUME LoopInv, ppb_flash_message_loop_quit PROVE LoopInv'
<1> USE LoopInvIs
<1>1. /\ UNCHANGED <<stack, now, task, sync, quitter, quits, exits, told>>
      /\ flash' = [flash EXCEPT !.quits = flash.quits + 1]
      /\ ml' = ppb_message_loop_post_quit_depth(
                 ml, Loop, QuitTask(now, flash.depth, FALSE, NoWork))
  BY DEF ppb_flash_message_loop_quit
<1>2. QuitTask(now, flash.depth, FALSE, NoWork) \in Task /\ flash' \in FlashState
  <2>1. flash \in FlashState /\ now \in Nat
    BY DEF ClientTypes
  <2>2. flash.quits + 1 \in Nat /\ flash.depth \in Nat
    BY <2>1, FlashIs
  <2>3. flash' \in FlashState
    BY <1>1, <2>1, <2>2, FlashQuits
  <2> QED
    BY <2>1, <2>2, <2>3, TasksAreTyped, ZenonT(60)
<1>3. QueueTypes' /\ NestingInv' /\ stack'[Loop] = stack[Loop]
  BY <1>1, <1>2, LoopPosts
<1> QED
  BY <1>1, <1>2, <1>3 DEF LoopInv, CountsInv, ClientTypes

(* The frame that is left gives the count of exits its place back. *)
LEMMA InvLeave ==
  ASSUME LoopInv, NEW q \in SUBSET Task, NEW f, Leaves(q, f), LeftFrame,
         UNCHANGED <<now, task, quitter, quits>>, told' \in Nat
  PROVE  LoopInv'
<1> USE LoopInvIs
<1>1. NestingInv' /\ QueueTypes'
  BY NestLeave DEF Leaves, TypesStay, QueueTypes
<1>2. sync' \in [Syncs -> SyncState]
  BY SyncSets DEF LeftFrame, ClientTypes
<1>3. flash' \in FlashState
  <2>1. flash \in FlashState
    BY DEF ClientTypes
  <2>2. flash.returned + 1 \in Nat
    BY <2>1, FlashIs
  <2>3. [flash EXCEPT !.running = FALSE, !.returned = flash.returned + 1] \in FlashState
    BY <2>1, <2>2, FlashReturns
  <2> QED
    BY <2>1, <2>3 DEF LeftFrame
<1>4. CountsInv'
  <2>1. stack[Loop] # <<>> /\ stack'[Loop] = SubSeq(stack[Loop], 1, Len(stack[Loop]) - 1)
    BY DEF Leaves
  <2>2. stack'[Loop] = <<>> <=> Len(stack[Loop]) = 1
    BY <2>1, QueueIs, BelowIs
  <2>3. exits < MaxRuns
    BY <2>1 DEF CountsInv
  <2>4. exits' = IF Len(stack[Loop]) = 1 THEN exits + 1 ELSE exits
    BY DEF LeftFrame
  <2> QED
    BY <2>2, <2>3, <2>4 DEF CountsInv
<1> QED
  BY <1>1, <1>2, <1>3, <1>4 DEF LoopInv, ClientTypes

(* What the thread does inside run_int leaves a run, or changes the queues. *)
LEMMA StepKinds ==
  ASSUME LoopInv, LoopStep
  PROVE  /\ UNCHANGED <<now, quitter, quits>> /\ told' \in Nat
         /\ \/ RunTask(Loop, now) /\ task' = Ran(DueTask(Loop).work) /\ UNCHANGED <<sync, flash, exits, told>>
            \/ /\ Leaves(Tree \ {DueTask(Loop)}, Top(Loop)) /\ LeftFrame /\ UNCHANGED task /\ Told
               /\ DueTask(Loop) \in Tree /\ DueTask(Loop).terminate /\ QuitNested(Loop, now)
            \/ QuitOutermost(Loop, now) /\ Told /\ UNCHANGED <<task, sync, flash, exits>>
            \/ /\ Leaves(Tree, Top(Loop)) /\ LeftFrame /\ UNCHANGED <<task, told>> /\ ExitOnEmpty(Loop)
            \/ /\ PopAsync(Loop, now) /\ UNCHANGED <<task, sync, flash, exits, told, stack>>
               /\ MoveToTree(Loop) /\ ml[Loop].async_q # <<>>
<1> USE LoopInvIs
<1>1. UNCHANGED <<now, quitter, quits>>
  BY DEF LoopStep
<1>2. ASSUME Due(Loop, now), Told PROVE told' \in Nat
  <2>1. DueTask(Loop) \in Task
    BY <1>2, DueIs, QueueIs
  <2>2. DueTask(Loop).work.id \in Nat
    BY <2>1 DEF Task, TaskType, WorkItems
  <2> QED
    BY <1>2, <2>2 DEF Told, CountsInv
<1>3. ASSUME UNCHANGED told PROVE told' \in Nat
  BY <1>3 DEF CountsInv
<1>4. CASE QuitNested(Loop, now) /\ LeftFrame /\ Told /\ UNCHANGED task
  <2>1. Tree \ {DueTask(Loop)} \in SUBSET Task /\ InLoop(Loop) /\ DueTask(Loop) \in Tree
    BY <1>4, DueIs, QueueIs DEF QuitNested, Tree
  <2>2. LeaveLoop(Loop, Tree \ {DueTask(Loop)}) /\ DueTask(Loop).terminate
    BY <1>4 DEF QuitNested, Tree
  <2>3. Leaves(Tree \ {DueTask(Loop)}, Top(Loop))
    BY <2>1, <2>2, LeaveIs
  <2>4. told' \in Nat
    BY <1>4, <1>2 DEF QuitNested
  <2> QED
    BY <1>1, <1>4, <2>1, <2>2, <2>3, <2>4
<1>5. CASE ExitOnEmpty(Loop) /\ LeftFrame /\ UNCHANGED <<task, told>>
  <2>1. Tree \in SUBSET Task /\ InLoop(Loop) /\ LeaveLoop(Loop, Tree)
    BY <1>5, QueueIs DEF ExitOnEmpty, Tree
  <2>2. Leaves(Tree, Top(Loop))
    BY <2>1, LeaveIs
  <2> QED
    BY <1>1, <1>5, <1>3, <2>2
<1>6. CASE PopAsync(Loop, now) /\ UNCHANGED <<task, sync, flash, exits, told>>
  BY <1>1, <1>6, <1>3 DEF PopAsync
<1>7. CASE RunTask(Loop, now) /\ task' = Ran(DueTask(Loop).work) /\ UNCHANGED <<sync, flash, exits, told>>
  BY <1>1, <1>3, <1>7
<1>8. CASE QuitOutermost(Loop, now) /\ Told /\ UNCHANGED <<task, sync, flash, exits>>
  <2>1. told' \in Nat
    BY <1>2, <1>8 DEF QuitOutermost
  <2> QED
    BY <1>1, <1>8, <2>1
<1> QED
  BY <1>4, <1>5, <1>6, <1>7, <1>8 DEF LoopStep

LEMMA InvLoopStep ==
  ASSUME LoopInv, LoopStep PROVE LoopInv'
<1> USE LoopInvIs
<1>1. UNCHANGED <<now, quitter, quits>> /\ told' \in Nat
  BY StepKinds
<1>2. CASE RunTask(Loop, now) /\ task' = Ran(DueTask(Loop).work) /\ UNCHANGED <<sync, flash, exits, told>>
  <2>1. NestingInv' /\ QueueTypes' /\ stack[Loop] # <<>>
    BY <1>2, NestRun, RunTaskIs DEF TypesStay, QueueTypes, RunTask, Due, InLoop
  <2>2. task' \in [Tasks -> TaskState]
    BY <1>2, TaskRan DEF ClientTypes
  <2> QED
    BY <1>1, <1>2, <2>1, <2>2 DEF LoopInv, CountsInv, ClientTypes
<1>3. CASE Leaves(Tree \ {DueTask(Loop)}, Top(Loop)) /\ LeftFrame /\ UNCHANGED task
  <2>1. Tree \ {DueTask(Loop)} \in SUBSET Task
    BY QueueIs DEF Tree
  <2> QED
    BY <1>1, <1>3, <2>1, InvLeave
<1>4. CASE QuitOutermost(Loop, now) /\ Told /\ UNCHANGED <<task, sync, flash, exits>>
  <2>1. NestingInv' /\ QueueTypes' /\ stack[Loop] # <<>>
    BY <1>4, NestQuit, QuitOutermostIs DEF TypesStay, QueueTypes
  <2> QED
    BY <1>1, <1>4, <2>1 DEF LoopInv, CountsInv, ClientTypes
<1>5. CASE Leaves(Tree, Top(Loop)) /\ LeftFrame /\ UNCHANGED task
  <2>1. Tree \in SUBSET Task
    BY QueueIs DEF Tree
  <2> QED
    BY <1>1, <1>5, <2>1, InvLeave
<1>6. CASE MoveToTree(Loop) /\ ml[Loop].async_q # <<>> /\ UNCHANGED <<task, sync, flash, exits, told, stack>>
  <2>1. NestingInv' /\ QueueTypes'
    BY <1>6, MoveIs, NestStays DEF TypesStay, QueueTypes
  <2> QED
    BY <1>1, <1>6, <2>1 DEF LoopInv, CountsInv, ClientTypes
<1> QED
  BY <1>2, <1>3, <1>4, <1>5, <1>6, StepKinds

LEMMA InvInit == Init => LoopInv
<1> SUFFICES ASSUME Init PROVE LoopInv
  OBVIOUS
<1> USE ClientAssumption, TheLoop DEF Init
<1>1. NewLoop \in LoopState /\ NewLoop.depth = 0 /\ NewLoop.running = FALSE
  BY EmptySeq DEF NewLoop, LoopState
<1>2. QueueTypes
  BY <1>1, EmptySeq DEF QueueTypes
<1>3. ClientTypes
  BY DEF ClientTypes, TaskState, SyncState, FlashState
<1>4. CountsInv
  BY DEF CountsInv
<1>5. NestingInv
  <2>1. LoopsOf(<<>>) = {} /\ DeepOf(<<>>) = {}
    BY DEF LoopsOf, DeepOf
  <2>2. Nested(<<>>, 0, FALSE)
    BY <2>1, FS_EmptySet DEF Nested
  <2> QED
    BY <1>1, <2>2 DEF NestingInv
<1> QED
  BY <1>2, <1>3, <1>4, <1>5 DEF LoopInv

LEMMA InvNext ==
  ASSUME LoopInv, [Next]_vars PROVE LoopInv'
<1>1. ASSUME NEW i \in Syncs, AnswerSync(i) \/ CallSync(i) PROVE LoopInv'
  BY <1>1, InvAnswer, InvCallSync
<1>2. CASE ThreadStep
  <2>1. CASE WorkReturns
    BY <2>1, InvWorkReturns, LoopInvIs DEF WorkReturns, InWork, ClientTypes
  <2>2. CASE RequestReturns
    <3>1. sync' \in [Syncs -> SyncState]
      BY <2>2, SyncSets, LoopInvIs DEF RequestReturns, ClientTypes
    <3> QED
      BY <2>2, <3>1, InvWorkReturns DEF RequestReturns
  <2> QED
    BY <1>2, <2>1, <2>2, InvLoopStep DEF ThreadStep
<1>3. CASE UNCHANGED vars
  BY <1>3 DEF vars, LoopInv, QueueTypes, NestingInv, CountsInv, ClientTypes
<1> QED
  BY <1>1, <1>2, <1>3, InvTick, InvPostWork, InvReadDepth, InvPostQuit, InvRun, InvFlashRun, InvFlashQuit
     DEF Next

-----------------------------------------------------------------------------
(* ml->depth and the running flag, which other threads read, agree with    *)
(* the frames of ppb_message_loop_run_int at every moment, however runs,   *)
(* quits, synchronous calls and Flash message loops nest.                  *)
THEOREM LoopIsConsistentCorrect == Spec => []LoopIsConsistent
<1>1. LoopInv => LoopIsConsistent
  <2> SUFFICES ASSUME LoopInv PROVE LoopIsConsistent
    OBVIOUS
  <2> USE LoopInvIs
  <2>1. TypeOK
    <3>1. LoopTypeOK(WorkItems)
      BY QueueIs, TheLoop DEF LoopTypeOK, Task
    <3>2. stack[Loop] \in Seq(FrameType(WorkItems, Waiters))
      BY QueueIs DEF Frame
    <3>3. quitter \in Int /\ quits \in 0 .. MaxQuits /\ exits \in 0 .. MaxRuns /\ told \in Nat
      BY DEF CountsInv
    <3> QED
      BY <3>1, <3>2, <3>3 DEF TypeOK, ClientTypes, TaskState, SyncState, FlashState
  <2>2. DepthIsNesting
    <3>1. LoopFrames(Loop) = LoopsOf(stack[Loop])
      <4>1. DOMAIN stack[Loop] = 1 .. Len(stack[Loop])
        BY QueueIs, LenProperties
      <4> QED
        BY <4>1 DEF LoopFrames, LoopsOf
    <3>2. Deepening(Loop) = DeepOf(stack[Loop])
      BY <3>1 DEF Deepening, DeepOf
    <3>3. \A i : {j \in Deepening(Loop) : j <= i} = UpTo(stack[Loop], i)
      BY <3>2 DEF UpTo
    <3>4. ml[Loop].depth = Cardinality(Deepening(Loop))
      BY <3>2 DEF NestingInv, Nested
    <3>5. ASSUME NEW i \in LoopFrames(Loop)
          PROVE  stack[Loop][i].depth = Cardinality({j \in Deepening(Loop) : j <= i})
      <4>1. i \in LoopsOf(stack[Loop])
        BY <3>1
      <4>2. stack[Loop][i].depth = Cardinality(UpTo(stack[Loop], i))
        BY <4>1 DEF NestingInv, Nested
      <4> QED
        BY <3>3, <4>2
    <3>6. ml[Loop].running <=> LoopFrames(Loop) # {}
      BY <3>1 DEF NestingInv, Nested
    <3> QED
      BY <3>4, <3>5, <3>6, TheLoop DEF DepthIsNesting
  <2> QED
    BY <2>1, <2>2 DEF LoopIsConsistent
<1>2. LoopInv /\ [Next]_vars => LoopInv'
  BY InvNext
<1> QED
  BY <1>1, <1>2, InvInit, PTL DEF Spec

-----------------------------------------------------------------------------
(* What the changes of the queues do to the tasks in them. *)

(* A task with a stamp of its own is posted. *)
LEMMA QueuedGrows ==
  ASSUME QueueTypes, StampsDiffer, NEW t \in Task, \A u \in Queued : u.when # t.when,
         QueuesAre(Append(Async, t), Tree)
  PROVE  StampsDiffer' /\ Queued' = Queued \cup {t}
<1>1. Async \in Seq(Task)
  BY QueueIs DEF Async
<1> DEFINE a == Append(Async, t)
<1>2. /\ DOMAIN a = 1 .. Len(Async) + 1 /\ DOMAIN Async = 1 .. Len(Async)
      /\ \A i \in 1 .. Len(Async) : a[i] = Async[i]
      /\ a[Len(Async) + 1] = t /\ Len(Async) \in Nat
  BY <1>1, AppendProperties, LenProperties
<1>3. Async' = a /\ Tree' = Tree
  BY DEF QueuesAre, Async, Tree
<1>4. Queued = Tree \cup {Async[i] : i \in DOMAIN Async} /\ Queued' = Tree' \cup {Async'[i] : i \in DOMAIN Async'}
  BY DEF Queued, Async, Tree
<1> HIDE DEF a
<1>5. Queued' = Queued \cup {t}
  BY <1>2, <1>3, <1>4
<1>6. \A i \in DOMAIN Async : Async[i].when # t.when
  BY <1>4
<1>7. \A u \in Tree : u.when # t.when
  BY <1>4
<1>8. ASSUME NEW i \in DOMAIN a, NEW j \in DOMAIN a, i # j PROVE a[i].when # a[j].when
  <2>1. CASE i \in DOMAIN Async /\ j \in DOMAIN Async
    BY <1>2, <1>8, <2>1 DEF StampsDiffer
  <2>2. CASE i = Len(Async) + 1
    BY <1>2, <1>6, <1>8, <2>2
  <2>3. CASE j = Len(Async) + 1
    BY <1>2, <1>6, <1>8, <2>3
  <2> QED
    BY <1>2, <2>1, <2>2, <2>3
<1>9. ASSUME NEW i \in DOMAIN a, NEW u \in Tree PROVE a[i].when # u.when
  <2>1. CASE i \in DOMAIN Async
    BY <1>2, <2>1 DEF StampsDiffer
  <2>2. CASE i = Len(Async) + 1
    BY <1>2, <1>7, <2>2
  <2> QED
    BY <1>2, <2>1, <2>2
<1> QED
  BY <1>3, <1>5, <1>8, <1>9 DEF StampsDiffer

(* The stamps being different, nothing is dropped on the way to the tree. *)
LEMMA QueuedMoves ==
  ASSUME QueueTypes, StampsDiffer, Async # <<>>,
         QueuesAre(Tail(Async), g_tree_insert(Tree, Head(Async)))
  PROVE  StampsDiffer' /\ Queued' = Queued
<1>1. Async \in Seq(Task)
  BY QueueIs DEF Async
<1> DEFINE a == Tail(Async)
<1>2. /\ DOMAIN Async = 1 .. Len(Async) /\ Len(Async) \in Nat \ {0}
      /\ DOMAIN a = 1 .. Len(Async) - 1 /\ Head(Async) = Async[1]
      /\ \A i \in DOMAIN a : a[i] = Async[i + 1]
  BY <1>1, HeadTailProperties, LenProperties, EmptySeq
<1>3. 1 \in DOMAIN Async
  BY <1>2
<1>4. g_tree_insert(Tree, Head(Async)) = Tree \cup {Async[1]}
  BY <1>2, <1>3 DEF g_tree_insert, StampsDiffer
<1>5. Async' = a /\ Tree' = Tree \cup {Async[1]}
  BY <1>4 DEF QueuesAre, Async, Tree
<1>6. Queued = Tree \cup {Async[i] : i \in DOMAIN Async} /\ Queued' = Tree' \cup {Async'[i] : i \in DOMAIN Async'}
  BY DEF Queued, Async, Tree
<1> HIDE DEF a
<1>7. \A i \in DOMAIN a : i + 1 \in DOMAIN Async /\ i + 1 # 1
  BY <1>2
<1>8. \A i \in DOMAIN Async : i # 1 => i - 1 \in DOMAIN a /\ a[i - 1] = Async[i]
  BY <1>2
<1>9. {Async[i] : i \in DOMAIN Async} = {Async[1]} \cup {a[i] : i \in DOMAIN a}
  <2>1. ASSUME NEW t \in {Async[i] : i \in DOMAIN Async} PROVE t \in {Async[1]} \cup {a[i] : i \in DOMAIN a}
    BY <1>8
  <2>2. ASSUME NEW t \in {a[i] : i \in DOMAIN a} PROVE t \in {Async[i] : i \in DOMAIN Async}
    BY <1>2, <1>7
  <2> QED
    BY <1>3, <2>1, <2>2
<1>10. Queued' = Queued
  BY <1>5, <1>6, <1>9
<1>11. ASSUME NEW i \in DOMAIN a, NEW j \in DOMAIN a, i # j PROVE a[i].when # a[j].when
  <2>1. i + 1 # j + 1
    BY <1>2, <1>11
  <2> QED
    BY <1>2, <1>7, <2>1 DEF StampsDiffer
<1>12. ASSUME NEW i \in DOMAIN a, NEW u \in Tree \cup {Async[1]} PROVE a[i].when # u.when
  BY <1>2, <1>3, <1>7 DEF StampsDiffer
<1> QED
  BY <1>5, <1>10, <1>11, <1>12 DEF StampsDiffer

(* One task is taken from the tree. *)
LEMMA QueuedShrinks ==
  ASSUME QueueTypes, StampsDiffer, NEW t \in Tree, QueuesAre(Async, Tree \ {t})
  PROVE  StampsDiffer' /\ Queued' = Queued \ {t}
<1>1. Async' = Async /\ Tree' = Tree \ {t}
  BY DEF QueuesAre, Async, Tree
<1>2. Queued = Tree \cup {Async[i] : i \in DOMAIN Async} /\ Queued' = Tree' \cup {Async'[i] : i \in DOMAIN Async'}
  BY DEF Queued, Async, Tree
<1>3. \A i \in DOMAIN Async : Async[i] # t
  BY DEF StampsDiffer
<1> QED
  BY <1>1, <1>2, <1>3 DEF StampsDiffer

LEMMA QueuedStays ==
  ASSUME StampsDiffer, QueuesAre(Async, Tree)
  PROVE  StampsDiffer' /\ Queued' = Queued
BY DEF QueuesAre, Queued, Async, Tree, StampsDiffer

(* What any step does to the tasks in the queues: it posts one with a      *)
(* stamp of its own, takes one, or leaves them all.                        *)
Posts(t) == t \in Task /\ t \notin Queued /\ Queued' = Queued \cup {t}
Takes(t) == t \in Queued /\ t \in Task /\ Queued' = Queued \ {t}
Holds == Queued' = Queued

(* A posting step of the client. *)
LEMMA PostStep ==
  ASSUME LoopInv, StampsDiffer, UniqueStamps = TRUE, NEW t \in Task, StampFree(t.when), UNCHANGED stack,
         \/ ml' = ppb_message_loop_post_work_with_result(ml, Loop, t)
         \/ ml' = ppb_message_loop_post_quit_depth(ml, Loop, t)
  PROVE  StampsDiffer' /\ (Holds \/ Posts(t))
<1> USE LoopInvIs
<1>1. \A u \in Queued : u.when # t.when
  BY DEF StampFree
<1>2. CASE ml' = ml
  BY <1>2, QueuedStays DEF QueuesAre, Async, Tree, Holds
<1>3. CASE Posted(t)
  BY <1>1, <1>3, PostedIs, QueuedGrows DEF Posts
<1> QED
  BY <1>2, <1>3, PostIs

-----------------------------------------------------------------------------
(* What each action does to the tasks in the queues. *)

LEMMA WorkTaskIs ==
  ASSUME NEW when \in Nat, NEW depth \in Nat, NEW w \in WorkItems, NEW t, t = WorkTask(when, depth, w)
  PROVE  t \in Task /\ ~t.terminate /\ t.work = w /\ t.when = when /\ t.depth = depth
BY TasksAreTyped

LEMMA QuitTaskIs ==
  ASSUME NEW when \in Nat, NEW depth \in Nat, NEW destroy \in BOOLEAN, NEW w \in WorkItems,
         NEW t, t = QuitTask(when, depth, destroy, w)
  PROVE  t \in Task /\ t.terminate /\ t.work = w /\ t.when = when /\ t.depth = depth
BY TasksAreTyped

LEMMA CallPosts ==
  ASSUME LoopInv, StampsDiffer, UniqueStamps = TRUE, NEW i \in Syncs, CallSync(i)
  PROVE  LET t == WorkTask(now, ml[Loop].depth + 1, Work("request", i)) IN
         /\ StampsDiffer' /\ (Holds \/ Posts(t))
         /\ t \in Task /\ ~t.terminate /\ t.work = Work("request", i)
         /\ \E m, f : /\ EntersFrom(m, {"ML_NESTED", "ML_INCREASE_DEPTH"}, SyncWaiter(i), f)
                      /\ m[Loop].depth = ml[Loop].depth
<1> USE LoopInvIs
<1> DEFINE depth == ml[Loop].depth + 1
           t == WorkTask(now, depth, Work("request", i))
           flags == {"ML_NESTED", "ML_INCREASE_DEPTH"}
           w == SyncWaiter(i)
<1>1. PICK m : m = ppb_message_loop_post_work_with_result(ml, Loop, t) /\ Enter(m, flags, w)
  BY DEF CallSync, SyncWaiter
<1>2. t \in Task /\ w \in Waiters /\ flags \in SUBSET Flags /\ t.when = now
      /\ ~t.terminate /\ t.work = Work("request", i)
  <2>1. depth \in Nat /\ i \in Nat
    BY QueueIs DEF Syncs
  <2>2. Work("request", i) \in WorkItems /\ w \in Waiters
    BY <2>1, TasksAreTyped DEF SyncWaiter
  <2>3. flags \in SUBSET Flags
    BY DEF Flags
  <2>4. t \in Task /\ t.when = now /\ ~t.terminate /\ t.work = Work("request", i)
    <3>1. t = WorkTask(now, depth, Work("request", i))
      OBVIOUS
    <3> HIDE DEF depth, t
    <3> QED
      BY <2>1, <2>2, <3>1, WorkTaskIs
  <2> QED
    BY <2>2, <2>3, <2>4
<1>3. \A u \in Queued : u.when # t.when
  BY <1>2 DEF CallSync, StampFree
<1> HIDE DEF t, w, depth
<1>4. /\ m \in [Loops -> LoopState] /\ m[Loop].int_q = Tree /\ m[Loop].depth = ml[Loop].depth
      /\ m[Loop].async_q = Async \/ m[Loop].async_q = Append(Async, t)
  BY <1>1, <1>2, RequestedIs
<1>5. PICK f : EntersFrom(m, flags, w, f)
  BY <1>1, <1>2, <1>4, EnterIs
<1>6. QueuesAre(Async, Tree) \/ QueuesAre(Append(Async, t), Tree)
  BY <1>4, <1>5 DEF EntersFrom
<1>7. StampsDiffer' /\ (Holds \/ Posts(t))
  <2>1. CASE QueuesAre(Async, Tree)
    BY <2>1, QueuedStays DEF Holds
  <2>2. CASE QueuesAre(Append(Async, t), Tree)
    BY <1>2, <1>3, <2>2, QueuedGrows DEF Posts
  <2> QED
    BY <1>6, <2>1, <2>2
<1> QED
  BY <1>2, <1>4, <1>5, <1>7 DEF t, w, depth

LEMMA QuitPosts ==
  ASSUME LoopInv, StampsDiffer, UniqueStamps = TRUE, NEW depth \in Nat, NEW destroy \in BOOLEAN,
         StampFree(now), UNCHANGED stack,
         ml' = ppb_message_loop_post_quit_depth(ml, Loop, QuitTask(now, depth, destroy, NoWork))
  PROVE  LET t == QuitTask(now, depth, destroy, NoWork) IN
         /\ StampsDiffer' /\ (Holds \/ Posts(t)) /\ FlagsStay
         /\ t \in Task /\ t.terminate /\ t.work = NoWork /\ t.depth = depth
<1> USE LoopInvIs
<1> DEFINE t == QuitTask(now, depth, destroy, NoWork)
<1>1. t \in Task /\ t.terminate /\ t.work = NoWork /\ t.depth = depth /\ t.when = now
  <2>1. NoWork \in WorkItems
    BY TasksAreTyped
  <2> QED
    BY <2>1, QuitTaskIs
<1> HIDE DEF t
<1>2. StampsDiffer' /\ (Holds \/ Posts(t))
  BY <1>1, PostStep DEF t
<1>3. FlagsStay
  BY <1>1, PostIs, PostedIs DEF t, FlagsStay
<1> QED
  BY <1>1, <1>2, <1>3 DEF t

LEMMA WorkPosts ==
  ASSUME LoopInv, StampsDiffer, UniqueStamps = TRUE, NEW i \in Tasks, NEW delay \in Delays,
         NEW depth \in {0, 1}, ppb_message_loop_post_work(i, delay, depth)
  PROVE  LET t == WorkTask(now + delay, depth, Work("work", i)) IN
         /\ StampsDiffer' /\ (Holds \/ Posts(t)) /\ FlagsStay
         /\ t \in Task /\ ~t.terminate /\ t.work = Work("work", i)
         /\ AcceptsWork(ml, Loop) => Posts(t)
<1> USE LoopInvIs
<1> DEFINE t == WorkTask(now + delay, depth, Work("work", i))
<1>1. t \in Task /\ ~t.terminate /\ t.work = Work("work", i) /\ t.when = now + delay
  <2>1. i \in Nat /\ now + delay \in Nat /\ depth \in Nat
    BY DEF Tasks
  <2>2. Work("work", i) \in WorkItems
    BY <2>1, TasksAreTyped
  <2>3. t = WorkTask(now + delay, depth, Work("work", i))
    OBVIOUS
  <2>4. PICK w, d : w = Work("work", i) /\ d = now + delay /\ w \in WorkItems /\ d \in Nat
    BY <2>1, <2>2
  <2>5. t = WorkTask(d, depth, w)
    BY <2>3, <2>4
  <2> HIDE DEF t
  <2>6. t \in Task /\ ~t.terminate /\ t.work = w /\ t.when = d
    BY <2>1, <2>4, <2>5, WorkTaskIs
  <2> QED
    BY <2>4, <2>6
<1>2. /\ StampFree(t.when) /\ UNCHANGED stack
      /\ ml' = ppb_message_loop_post_work_with_result(ml, Loop, t)
  BY <1>1 DEF ppb_message_loop_post_work
<1> HIDE DEF t
<1>3. StampsDiffer' /\ (Holds \/ Posts(t))
  BY <1>1, <1>2, PostStep
<1>4. FlagsStay
  BY <1>1, <1>2, PostIs, PostedIs DEF FlagsStay
<1>5. ASSUME AcceptsWork(ml, Loop) PROVE Posts(t)
  <2>1. ml' = [ml EXCEPT ![Loop].async_q = Append(@, t)]
    BY <1>2, <1>5 DEF ppb_message_loop_post_work_with_result
  <2>2. ml' # ml
    <3>1. ml'[Loop].async_q = Append(ml[Loop].async_q, t)
      BY <2>1, TheLoop, QueueIs DEF QueueTypes, LoopState
    <3>2. Len(Append(ml[Loop].async_q, t)) = Len(ml[Loop].async_q) + 1 /\ Len(ml[Loop].async_q) \in Nat
      BY <1>1, QueueIs, AppendProperties, LenProperties
    <3>3. Append(ml[Loop].async_q, t) # ml[Loop].async_q
      BY <3>2
    <3> QED
      BY <3>1, <3>3
  <2>3. QueuesAre(Append(Async, t), Tree)
    BY <1>1, <1>2, <2>2, PostIs, PostedIs
  <2>4. \A u \in Queued : u.when # t.when
    BY <1>2 DEF StampFree
  <2> QED
    BY <1>1, <2>3, <2>4, QueuedGrows DEF Posts
<1> QED
  BY <1>1, <1>3, <1>4, <1>5 DEF t

(* What the thread does inside run_int. *)
LEMMA LoopTakes ==
  ASSUME LoopInv, StampsDiffer, LoopStep
  PROVE  /\ StampsDiffer' /\ UNCHANGED <<now, quitter, quits>>
         /\ \/ /\ RunTask(Loop, now) /\ Takes(DueTask(Loop)) /\ ~DueTask(Loop).terminate
               /\ task' = Ran(DueTask(Loop).work) /\ UNCHANGED <<sync, flash, exits, told>>
            \/ /\ Takes(DueTask(Loop)) /\ DueTask(Loop).terminate /\ UNCHANGED task
               /\ \/ QuitNested(Loop, now) /\ LeftFrame /\ Leaves(Tree \ {DueTask(Loop)}, Top(Loop))
                  \/ QuitOutermost(Loop, now) /\ Told /\ UNCHANGED <<sync, flash, exits>>
            \/ Holds /\ UNCHANGED task /\ ExitOnEmpty(Loop) /\ LeftFrame /\ Leaves(Tree, Top(Loop))
            \/ Holds /\ FlagsStay /\ UNCHANGED <<task, sync, flash, exits, told, stack>>
<1> USE LoopInvIs
<1>1. UNCHANGED <<now, quitter, quits>>
  BY StepKinds
<1>2. \A t \in Tree : t \in Queued /\ t \in Task
  BY QueueIs DEF Tree, Queued
<1>3. CASE RunTask(Loop, now) /\ task' = Ran(DueTask(Loop).work) /\ UNCHANGED <<sync, flash, exits, told>>
  BY <1>1, <1>2, <1>3, RunTaskIs, QueuedShrinks DEF Takes
<1>4. CASE /\ Leaves(Tree \ {DueTask(Loop)}, Top(Loop)) /\ LeftFrame /\ UNCHANGED task
           /\ DueTask(Loop) \in Tree /\ DueTask(Loop).terminate /\ QuitNested(Loop, now)
  <2>1. QueuesAre(Async, Tree \ {DueTask(Loop)})
    BY <1>4 DEF Leaves
  <2> QED
    BY <1>1, <1>2, <1>4, <2>1, QueuedShrinks DEF Takes
<1>5. CASE QuitOutermost(Loop, now) /\ Told /\ UNCHANGED <<task, sync, flash, exits>>
  BY <1>1, <1>2, <1>5, QuitOutermostIs, QueuedShrinks DEF Takes
<1>6. CASE Leaves(Tree, Top(Loop)) /\ LeftFrame /\ UNCHANGED task /\ ExitOnEmpty(Loop)
  <2>1. QueuesAre(Async, Tree)
    BY <1>6 DEF Leaves
  <2> QED
    BY <1>1, <1>6, <2>1, QueuedStays DEF Holds
<1>7. CASE MoveToTree(Loop) /\ ml[Loop].async_q # <<>> /\ UNCHANGED <<task, sync, flash, exits, told, stack>>
  BY <1>1, <1>7, MoveIs, QueuedMoves DEF Holds, Async
<1> QED
  BY <1>3, <1>4, <1>5, <1>6, <1>7, StepKinds

-----------------------------------------------------------------------------
(* KeptInv is inductive. *)

LEMMA KeptPosts ==
  ASSUME KeptInv, StampsDiffer', NEW t, Holds \/ Posts(t), t.terminate => t.work.fn = "none",
         UNCHANGED task
  PROVE  KeptInv'
<1>1. \A u \in Queued : u \in Queued'
  BY DEF Holds, Posts
<1>2. QuitsCarryNoWork'
  BY DEF KeptInv, QuitsCarryNoWork, Holds, Posts
<1>3. AcceptedWorkIsKept'
  BY <1>1 DEF KeptInv, AcceptedWorkIsKept, PendingTask
<1> QED
  BY <1>2, <1>3 DEF KeptInv

LEMMA KeptHolds ==
  ASSUME KeptInv, StampsDiffer', Holds, UNCHANGED task
  PROVE  KeptInv'
BY DEF KeptInv, QuitsCarryNoWork, Holds, AcceptedWorkIsKept, PendingTask

LEMMA KeptTakes ==
  ASSUME KeptInv, ClientTypes, StampsDiffer', NEW t, Takes(t),
         task' = IF t.terminate THEN task ELSE Ran(t.work)
  PROVE  KeptInv'
<1>1. QuitsCarryNoWork'
  BY DEF KeptInv, QuitsCarryNoWork, Takes
<1>2. ASSUME NEW i \in Tasks, task'[i].state = "queued" PROVE PendingTask(i)'
  <2>1. task[i].state = "queued" /\ t.work # Work("work", i)
    <3>1. CASE t.terminate
      <4>1. t.work.fn = "none"
        BY <3>1 DEF KeptInv, QuitsCarryNoWork, Takes
      <4>2. Work("work", i).fn = "work"
        BY DEF Work
      <4> QED
        BY <1>2, <3>1, <4>1, <4>2
    <3>2. CASE ~t.terminate /\ t.work.fn # "work"
      <4>1. Work("work", i).fn = "work" /\ task' = task
        BY <3>2 DEF Work, Ran
      <4> QED
        BY <1>2, <3>2, <4>1
    <3>3. CASE ~t.terminate /\ t.work.fn = "work"
      <4>1. task' = [task EXCEPT ![t.work.id].state = "ran"] /\ Work("work", i).id = i
        BY <3>3 DEF Ran, Work
      <4>2. task[i] \in TaskState /\ task \in [Tasks -> TaskState]
        BY DEF ClientTypes
      <4>3. CASE t.work.id = i
        <5>1. task'[i] = [task[i] EXCEPT !.state = "ran"]
          BY <4>1, <4>2, <4>3
        <5>2. task'[i].state = "ran"
          BY <4>2, <5>1 DEF TaskState
        <5> QED
          BY <1>2, <5>2
      <4>4. CASE t.work.id # i
        <5>1. task'[i] = task[i]
          BY <4>1, <4>2, <4>4
        <5> QED
          BY <1>2, <4>1, <4>4, <5>1
      <4> QED
        BY <4>3, <4>4
    <3> QED
      BY <3>1, <3>2, <3>3
  <2>2. PICK u \in Queued : u.work = Work("work", i)
    BY <2>1 DEF KeptInv, AcceptedWorkIsKept, PendingTask
  <2>3. u \in Queued'
    BY <2>1, <2>2 DEF Takes
  <2> QED
    BY <2>2, <2>3 DEF PendingTask
<1>3. AcceptedWorkIsKept'
  BY <1>2 DEF AcceptedWorkIsKept
<1> QED
  BY <1>1, <1>3 DEF KeptInv

LEMMA KeptWork ==
  ASSUME LoopInv, KeptInv, UniqueStamps = TRUE, NEW i \in Tasks, NEW delay \in Delays,
         NEW depth \in {0, 1}, ppb_message_loop_post_work(i, delay, depth)
  PROVE  KeptInv'
<1> USE LoopInvIs
<1>1. PICK t : t = WorkTask(now + delay, depth, Work("work", i))
  OBVIOUS
<1>2. /\ StampsDiffer' /\ (Holds \/ Posts(t))
      /\ t \in Task /\ ~t.terminate /\ t.work = Work("work", i)
      /\ AcceptsWork(ml, Loop) => Posts(t)
  BY <1>1, WorkPosts DEF KeptInv
<1>3. QuitsCarryNoWork'
  BY <1>2 DEF KeptInv, QuitsCarryNoWork, Holds, Posts
<1>4. ASSUME NEW j \in Tasks, task'[j].state = "queued" PROVE PendingTask(j)'
  <2> DEFINE r == [state |-> IF AcceptsWork(ml, Loop) THEN "queued" ELSE "refused",
                   delay |-> delay]
  <2>1. task' = [task EXCEPT ![i] = r] /\ task \in [Tasks -> TaskState]
    BY DEF ppb_message_loop_post_work, ClientTypes
  <2>2. r.state = "queued" => AcceptsWork(ml, Loop)
    OBVIOUS
  <2> HIDE DEF r
  <2>3. CASE j = i
    <3>1. Posts(t)
      BY <1>2, <1>4, <2>1, <2>2, <2>3
    <3> QED
      BY <1>2, <2>3, <3>1 DEF PendingTask, Posts
  <2>4. CASE j # i
    <3>1. task[j].state = "queued"
      BY <1>4, <2>1, <2>4
    <3>2. PICK u \in Queued : u.work = Work("work", j)
      BY <3>1 DEF KeptInv, AcceptedWorkIsKept, PendingTask
    <3> QED
      BY <1>2, <3>2 DEF PendingTask, Holds, Posts
  <2> QED
    BY <2>3, <2>4
<1> QED
  BY <1>2, <1>3, <1>4 DEF KeptInv, AcceptedWorkIsKept

LEMMA KeptNext ==
  ASSUME UniqueStamps = TRUE, LoopInv, KeptInv, [Next]_vars
  PROVE  KeptInv'
<1> USE LoopInvIs
<1>1. StampsDiffer
  BY DEF KeptInv
<1>2. ASSUME UNCHANGED <<ml, task>> PROVE KeptInv'
  BY <1>2, KeptHolds, QueuedStays, <1>1 DEF QueuesAre, Async, Tree, Holds
<1>3. ASSUME NEW depth \in Nat, NEW destroy \in BOOLEAN, StampFree(now), UNCHANGED <<stack, task>>,
             ml' = ppb_message_loop_post_quit_depth(ml, Loop, QuitTask(now, depth, destroy, NoWork))
      PROVE  KeptInv'
  <2>1. PICK t : t = QuitTask(now, depth, destroy, NoWork)
    OBVIOUS
  <2>2. StampsDiffer' /\ (Holds \/ Posts(t)) /\ t.work = NoWork
    BY <1>1, <1>3, <2>1, QuitPosts
  <2>3. t.work.fn = "none"
    BY <2>2, TasksAreTyped
  <2> QED
    BY <1>3, <2>2, <2>3, KeptPosts
<1>4. CASE \E destroy \in BOOLEAN : ppb_message_loop_post_quit(destroy)
  <2>1. quitter \in Nat
    BY <1>4 DEF ppb_message_loop_post_quit, CountsInv
  <2> QED
    BY <1>3, <1>4, <2>1 DEF ppb_message_loop_post_quit
<1>5. ASSUME NEW i \in Syncs, AnswerSync(i) PROVE KeptInv'
  <2>1. sync[i].depth \in Nat
    BY DEF ClientTypes, SyncState
  <2> QED
    BY <1>3, <1>5, <2>1 DEF AnswerSync
<1>6. CASE ppb_flash_message_loop_quit
  <2>1. flash.depth \in Nat
    BY FlashIs DEF ClientTypes
  <2> QED
    BY <1>3, <1>6, <2>1 DEF ppb_flash_message_loop_quit
<1>7. ASSUME NEW i \in Syncs, CallSync(i) PROVE KeptInv'
  <2>1. PICK t : t = WorkTask(now, ml[Loop].depth + 1, Work("request", i))
    OBVIOUS
  <2>2. StampsDiffer' /\ (Holds \/ Posts(t)) /\ ~t.terminate
    BY <1>1, <1>7, <2>1, CallPosts
  <2>3. UNCHANGED task
    BY <1>7 DEF CallSync
  <2> QED
    BY <2>2, <2>3, KeptPosts
<1>8. CASE ppb_message_loop_run \/ ppb_flash_message_loop_run
  <2>1. UNCHANGED task
    BY <1>8 DEF ppb_message_loop_run, ppb_flash_message_loop_run
  <2>2. PICK flags, w : Enter(ml, flags, w)
    BY <1>8 DEF ppb_message_loop_run, ppb_flash_message_loop_run
  <2>3. QueuesAre(Async, Tree)
    <3> DEFINE r == [ml[Loop] EXCEPT !.running = TRUE, !.teardown = FALSE,
                                     !.depth = IF "ML_INCREASE_DEPTH" \in flags
                                               THEN ml[Loop].depth + 1 ELSE ml[Loop].depth]
    <3>1. ml' = [ml EXCEPT ![Loop] = r]
      BY <2>2 DEF Enter, Entered
    <3>2. r.async_q = ml[Loop].async_q /\ r.int_q = ml[Loop].int_q
      BY QueueIs DEF LoopState
    <3> HIDE DEF r
    <3>3. ml'[Loop] = r
      BY <3>1, TheLoop DEF QueueTypes
    <3> QED
      BY <3>2, <3>3 DEF QueuesAre, Async, Tree
  <2> QED
    BY <1>1, <2>1, <2>3, QueuedStays, KeptHolds DEF Holds
<1>9. CASE LoopStep
  <2>1. StampsDiffer'
    BY <1>1, <1>9, LoopTakes
  <2>2. CASE Takes(DueTask(Loop)) /\ ~DueTask(Loop).terminate /\ task' = Ran(DueTask(Loop).work)
    BY <2>1, <2>2, KeptTakes
  <2>3. CASE Takes(DueTask(Loop)) /\ DueTask(Loop).terminate /\ UNCHANGED task
    BY <2>1, <2>3, KeptTakes
  <2>4. CASE Holds /\ UNCHANGED task
    BY <2>1, <2>4, KeptHolds
  <2> QED
    BY <1>1, <1>9, <2>2, <2>3, <2>4, LoopTakes
<1>10. CASE Tick \/ ReadDepth \/ WorkReturns \/ RequestReturns \/ UNCHANGED vars
  <2>1. UNCHANGED <<ml, task>>
    BY <1>10 DEF Tick, ReadDepth, WorkReturns, RequestReturns, vars
  <2> QED
    BY <1>2, <2>1
<1> QED
  BY <1>4, <1>5, <1>6, <1>7, <1>8, <1>9, <1>10, KeptWork DEF Next, ThreadStep

LEMMA KeptInit ==
  ASSUME Init PROVE KeptInv
<1>1. ml[Loop].async_q = <<>> /\ ml[Loop].int_q = {}
  BY TheLoop DEF Init, NewLoop
<1>2. Queued = {} /\ Async = <<>> /\ Tree = {}
  BY <1>1 DEF Queued, Async, Tree
<1>3. \A i \in Tasks : task[i].state # "queued"
  BY DEF Init
<1> QED
  BY <1>2, <1>3 DEF KeptInv, StampsDiffer, QuitsCarryNoWork, AcceptedWorkIsKept

(* Work that PostWork accepted stays in one of the two queues until the    *)
(* loop runs it, whatever nests, quits or is moved between the queues in   *)
(* the meantime, provided that no two posts get the same time stamp.       *)
THEOREM AcceptedWorkIsKeptCorrect ==
  ASSUME UniqueStamps = TRUE
  PROVE  Spec => []AcceptedWorkIsKept
<1>1. Init => LoopInv /\ KeptInv
  BY InvInit, KeptInit
<1>2. LoopInv /\ KeptInv /\ [Next]_vars => (LoopInv /\ KeptInv)'
  BY InvNext, KeptNext
<1>3. KeptInv => AcceptedWorkIsKept
  BY DEF KeptInv
<1> QED
  BY <1>1, <1>2, <1>3, PTL DEF Spec

-----------------------------------------------------------------------------
(* The frames after a push and a pop, and a call's record after a change. *)

Pushed(s, f, z, n) ==
  /\ n \in Nat /\ n = Len(s) /\ (s = <<>> <=> n = 0) /\ z # <<>> /\ Len(z) = n + 1
  /\ z[n + 1] = f /\ \A i \in 1 .. n : z[i] = s[i]
  /\ LoopsOf(s) \subseteq 1 .. n
  /\ LoopsOf(z) = IF f.kind = "loop" THEN LoopsOf(s) \cup {n + 1} ELSE LoopsOf(s)

Popped(s, z, n) ==
  /\ n \in Nat \ {0} /\ n = Len(s) /\ s # <<>> /\ (z = <<>> <=> n = 1) /\ Len(z) = n - 1
  /\ \A i \in 1 .. n - 1 : z[i] = s[i]
  /\ LoopsOf(s) \subseteq 1 .. n /\ LoopsOf(z) = LoopsOf(s) \ {n}

LEMMA LoopsPush ==
  ASSUME NEW s \in Seq(Frame), NEW f \in Frame
  PROVE  \E n : Pushed(s, f, Append(s, f), n)
<1>1. PICK n \in Nat : n = Len(s)
  BY LenProperties
<1>2. PICK z : z = Append(s, f)
  OBVIOUS
<1>3. /\ z \in Seq(Frame) /\ Len(z) = n + 1 /\ z[n + 1] = f
      /\ \A i \in 1 .. n : z[i] = s[i]
  BY <1>1, <1>2, AppendProperties, LenProperties
<1>4. (s = <<>> <=> n = 0) /\ z # <<>>
  BY <1>1, <1>3, EmptySeq
<1>5. LoopsOf(z) = IF f.kind = "loop" THEN LoopsOf(s) \cup {n + 1} ELSE LoopsOf(s)
  <2>1. 1 .. Len(z) = (1 .. n) \cup {n + 1}
    BY <1>3
  <2> QED
    BY <1>1, <1>3, <2>1 DEF LoopsOf
<1>6. LoopsOf(s) \subseteq 1 .. n
  BY <1>1 DEF LoopsOf
<1>7. Pushed(s, f, z, n)
  BY <1>1, <1>3, <1>4, <1>5, <1>6 DEF Pushed
<1> QED
  BY <1>2, <1>7

LEMMA LoopsPop ==
  ASSUME NEW s \in Seq(Frame), s # <<>>
  PROVE  \E n : Popped(s, SubSeq(s, 1, Len(s) - 1), n)
<1>1. PICK n \in Nat \ {0} : n = Len(s)
  BY LenProperties, EmptySeq
<1>2. PICK m \in Nat : m = n - 1 /\ n = m + 1
  BY <1>1
<1>3. PICK z : z = SubSeq(s, 1, m)
  OBVIOUS
<1>4. /\ z \in Seq(Frame) /\ Len(z) = m /\ \A i \in 1 .. m : z[i] = s[i]
  BY <1>1, <1>2, <1>3
<1>5. z = <<>> <=> m = 0
  BY <1>4, EmptySeq
<1>6. LoopsOf(z) = LoopsOf(s) \ {n} /\ LoopsOf(s) \subseteq 1 .. n
  BY <1>1, <1>2, <1>4 DEF LoopsOf
<1>7. Popped(s, z, n)
  BY <1>1, <1>2, <1>4, <1>5, <1>6 DEF Popped
<1> QED
  BY <1>1, <1>2, <1>3, <1>7

(* The records of the calls: the record of call i becomes r. *)
CallBecomes(i, r) == sync'[i] = r /\ \A j \in Syncs : j # i => sync'[j] = sync[j]

LEMMA SyncAnswered ==
  ASSUME sync \in [Syncs -> SyncState], NEW i \in Syncs, sync' = [sync EXCEPT ![i].answered = TRUE]
  PROVE  /\ sync'[i].state = sync[i].state /\ sync'[i].depth = sync[i].depth
         /\ sync'[i].asked = sync[i].asked /\ sync'[i].answered = TRUE
         /\ \A j \in Syncs : j # i => sync'[j] = sync[j]
<1>1. sync[i] \in SyncState /\ sync'[i] = [sync[i] EXCEPT !.answered = TRUE]
  OBVIOUS
<1> QED
  BY <1>1 DEF SyncState

LEMMA SyncAsked ==
  ASSUME sync \in [Syncs -> SyncState], NEW i \in Syncs, sync' = [sync EXCEPT ![i].asked = TRUE]
  PROVE  /\ sync'[i].state = sync[i].state /\ sync'[i].depth = sync[i].depth
         /\ sync'[i].answered = sync[i].answered
         /\ \A j \in Syncs : j # i => sync'[j] = sync[j]
<1>1. sync[i] \in SyncState /\ sync'[i] = [sync[i] EXCEPT !.asked = TRUE]
  OBVIOUS
<1> QED
  BY <1>1 DEF SyncState

LEMMA SyncReturned ==
  ASSUME sync \in [Syncs -> SyncState], NEW i \in Syncs, sync' = [sync EXCEPT ![i].state = "returned"]
  PROVE  /\ sync'[i].state = "returned" /\ sync'[i].depth = sync[i].depth
         /\ sync'[i].asked = sync[i].asked /\ sync'[i].answered = sync[i].answered
         /\ \A j \in Syncs : j # i => sync'[j] = sync[j]
<1>1. sync[i] \in SyncState /\ sync'[i] = [sync[i] EXCEPT !.state = "returned"]
  OBVIOUS
<1> QED
  BY <1>1 DEF SyncState

(* The calls in progress stay in progress, and none is forgotten. *)
WaitsStay == \A i \in Syncs : Waits(i) => Waits(i)' /\ sync'[i].depth = sync[i].depth
CallsStay == \A i \in Syncs : sync[i].state # "none" => sync'[i].state # "none"
RunsStay == flash.runs > 0 => flash'.runs > 0

LEMMA FrameStays ==
  ASSUME NEW k, NEW f, FrameInTurn(k, f), RunsStay,
         \A i \in Syncs : f.call = SyncWaiter(i) /\ Waits(i) => Waits(i)' /\ sync'[i].depth = sync[i].depth
  PROVE  FrameInTurn(k, f)'
BY DEF FrameInTurn, RunsStay

(* The frames are in turn when nothing is pushed or popped, after a push,  *)
(* and after a pop.                                                        *)
LEMMA InTurnNow ==
  ASSUME NEW s, s = stack[Loop]
  PROVE  FramesInTurn <=> InTurn(s)
BY DEF FramesInTurn

LEMMA InTurnThen ==
  ASSUME NEW s, s = stack'[Loop]
  PROVE  FramesInTurn' <=> InTurn(s)'
BY DEF FramesInTurn, InTurn

LEMMA FramesStay ==
  ASSUME FramesInTurn, WaitsStay, RunsStay, stack'[Loop] = stack[Loop]
  PROVE  FramesInTurn'
<1>1. PICK s : s = stack[Loop] /\ s = stack'[Loop]
  OBVIOUS
<1>2. InTurn(s)
  BY <1>1, InTurnNow, InTurnThen
<1>3. ASSUME NEW k \in LoopsOf(s) PROVE FrameInTurn(k, s[k])'
  BY <1>2, FrameStays DEF InTurn, WaitsStay
<1>4. InTurn(s)'
  BY <1>2, <1>3 DEF InTurn
<1> QED
  BY <1>1, <1>4, InTurnNow, InTurnThen

(* The same for frames s that become z. *)
LEMMA PushInTurn ==
  ASSUME NEW s, NEW f \in Frame, NEW z, NEW n, Pushed(s, f, z, n), InTurn(s), WaitsStay, RunsStay, s # <<>> \/ f.kind = "loop",
         f.kind = "loop" => FrameInTurn(n + 1, f)',
         f.kind = "loop" /\ f.call.fn = "sync" => \A k \in LoopsOf(s) : s[k].call # f.call
  PROVE  InTurn(z)'
<1>1. /\ z[n + 1] = f /\ \A i \in 1 .. n : z[i] = s[i]
      /\ LoopsOf(z) = IF f.kind = "loop" THEN LoopsOf(s) \cup {n + 1} ELSE LoopsOf(s)
      /\ n \in Nat /\ (s = <<>> <=> n = 0) /\ LoopsOf(s) \subseteq 1 .. n
  BY DEF Pushed
<1>2. /\ n + 1 \notin LoopsOf(s)
      /\ \A k \in LoopsOf(z) : k # n + 1 => k \in LoopsOf(s) /\ z[k] = s[k]
      /\ n + 1 \in LoopsOf(z) => f.kind = "loop"
  BY <1>1
<1>3. 1 \in LoopsOf(z)
  BY <1>1 DEF InTurn
<1>4. ASSUME NEW k \in LoopsOf(z) PROVE FrameInTurn(k, z[k])'
  <2>1. CASE k = n + 1
    BY <1>1, <1>2, <2>1
  <2>2. CASE k # n + 1
    <3>1. FrameInTurn(k, s[k]) /\ z[k] = s[k]
      BY <1>2, <2>2 DEF InTurn
    <3>2. FrameInTurn(k, s[k])'
      BY <3>1, FrameStays DEF WaitsStay
    <3> QED
      BY <3>1, <3>2
  <2> QED
    BY <2>1, <2>2
<1>5. ASSUME NEW j \in LoopsOf(z), NEW k \in LoopsOf(z), z[j].call = z[k].call, z[k].call.fn = "sync"
      PROVE  j = k
  <2>1. CASE j # n + 1 /\ k # n + 1
    BY <1>2, <1>5, <2>1 DEF InTurn
  <2>2. CASE j = n + 1 /\ k # n + 1
    BY <1>1, <1>2, <1>5, <2>2
  <2>3. CASE j # n + 1 /\ k = n + 1
    BY <1>1, <1>2, <1>5, <2>3
  <2> QED
    BY <2>1, <2>2, <2>3
<1> QED
  BY <1>3, <1>4, <1>5 DEF InTurn

LEMMA PopInTurn ==
  ASSUME NEW s, NEW z, NEW n, Popped(s, z, n), InTurn(s), RunsStay,
         \A i \in Syncs :
           \/ Waits(i) => Waits(i)' /\ sync'[i].depth = sync[i].depth
           \/ n \in LoopsOf(s) /\ s[n].call = SyncWaiter(i)
  PROVE  InTurn(z)'
<1>1. /\ n \in Nat \ {0} /\ \A i \in 1 .. n - 1 : z[i] = s[i]
      /\ LoopsOf(z) = LoopsOf(s) \ {n} /\ (z = <<>> <=> n = 1) /\ LoopsOf(s) \subseteq 1 .. n
  BY DEF Popped
<1>2. \A k \in LoopsOf(z) : z[k] = s[k] /\ k \in LoopsOf(s) /\ k # n
  BY <1>1
<1>3. z # <<>> => 1 \in LoopsOf(z)
  BY <1>1 DEF InTurn, Popped
<1>4. ASSUME NEW k \in LoopsOf(z) PROVE FrameInTurn(k, z[k])'
  <2>1. FrameInTurn(k, s[k]) /\ z[k] = s[k] /\ k \in LoopsOf(s) /\ k # n
    BY <1>2 DEF InTurn
  <2>2. ASSUME NEW i \in Syncs, s[k].call = SyncWaiter(i), Waits(i)
        PROVE  Waits(i)' /\ sync'[i].depth = sync[i].depth
    <3>1. s[k].call.fn = "sync"
      BY <2>2 DEF SyncWaiter
    <3>2. ~(n \in LoopsOf(s) /\ s[n].call = SyncWaiter(i))
      BY <2>1, <2>2, <3>1 DEF InTurn
    <3> QED
      BY <2>2, <3>2
  <2>3. FrameInTurn(k, s[k])'
    BY <2>1, <2>2, FrameStays
  <2> QED
    BY <2>1, <2>3
<1>5. \A j, k \in LoopsOf(z) : z[j].call = z[k].call /\ z[k].call.fn = "sync" => j = k
  BY <1>2 DEF InTurn
<1> QED
  BY <1>3, <1>4, <1>5 DEF InTurn

LEMMA FramesPush ==
  ASSUME FramesInTurn, WaitsStay, RunsStay, NEW f \in Frame, NEW s, NEW z, NEW n,
         s = stack[Loop], z = stack'[Loop], Pushed(s, f, z, n), s # <<>> \/ f.kind = "loop",
         f.kind = "loop" => FrameInTurn(n + 1, f)',
         f.kind = "loop" /\ f.call.fn = "sync" => \A k \in LoopsOf(s) : s[k].call # f.call
  PROVE  FramesInTurn'
<1>1. InTurn(s)
  BY InTurnNow
<1>2. InTurn(z)'
  BY <1>1, PushInTurn
<1> QED
  BY <1>2, InTurnThen

LEMMA FramesPop ==
  ASSUME FramesInTurn, RunsStay, NEW s, NEW z, NEW n, s = stack[Loop], z = stack'[Loop], Popped(s, z, n),
         \A i \in Syncs :
           \/ Waits(i) => Waits(i)' /\ sync'[i].depth = sync[i].depth
           \/ n \in LoopsOf(s) /\ s[n].call = SyncWaiter(i)
  PROVE  FramesInTurn'
<1>1. InTurn(s)
  BY InTurnNow
<1>2. InTurn(z)'
  BY <1>1, PopInTurn
<1> QED
  BY <1>2, InTurnThen

(* The callers that wait, when none is added and no frame is lost. *)
LEMMA WaitersStay ==
  ASSUME WaitersInTurn, NEW s, NEW z, NEW d \in Nat, NEW e \in Nat, d <= e,
         s = stack[Loop], z = stack'[Loop], d = ml[Loop].depth, e = ml'[Loop].depth,
         \A i \in Syncs : sync[i].depth \in Nat,
         \A i \in Syncs : Waits(i)' => Waits(i) /\ sync'[i].depth = sync[i].depth,
         \A i \in Syncs, k \in LoopsOf(s) : Waits(i)' /\ s[k].call = SyncWaiter(i) =>
           k \in LoopsOf(z) /\ z[k].call = s[k].call
  PROVE  WaitersInTurn'
<1>1. Waiting(s, d)
  BY DEF WaitersInTurn
<1>2. ASSUME NEW i \in Syncs, Waits(i)'
      PROVE  sync'[i].depth \in 2 .. e /\ \E k \in LoopsOf(z) : z[k].call = SyncWaiter(i)
  <2>1. sync[i].depth \in 2 .. d /\ \E k \in LoopsOf(s) : s[k].call = SyncWaiter(i)
    BY <1>1, <1>2 DEF Waiting
  <2>2. sync'[i].depth \in 2 .. e
    BY <1>2, <2>1
  <2> QED
    BY <1>2, <2>1, <2>2
<1>3. ASSUME NEW i \in Syncs, NEW j \in Syncs, Waits(i)', Waits(j)', sync'[i].depth = sync'[j].depth
      PROVE  i = j
  BY <1>1, <1>3 DEF Waiting
<1>4. Waiting(z, e)'
  BY <1>2, <1>3 DEF Waiting
<1> QED
  BY <1>4 DEF WaitersInTurn, Waiting

LEMMA WaitersSame ==
  ASSUME WaitersInTurn, stack'[Loop] = stack[Loop], ml'[Loop].depth = ml[Loop].depth,
         \A i \in Syncs : (Waits(i)' <=> Waits(i)) /\ sync'[i].depth = sync[i].depth
  PROVE  WaitersInTurn'
<1>1. PICK s, d : s = stack[Loop] /\ s = stack'[Loop] /\ d = ml[Loop].depth /\ d = ml'[Loop].depth
  OBVIOUS
<1>2. Waiting(s, d)
  BY <1>1 DEF WaitersInTurn
<1>3. Waiting(s, d)'
  BY <1>2 DEF Waiting
<1> QED
  BY <1>1, <1>3 DEF WaitersInTurn, Waiting

LEMMA NobodyWaits ==
  ASSUME \A i \in Syncs : ~Waits(i)'
  PROVE  WaitersInTurn'
BY DEF WaitersInTurn, Waiting

(* Leaving a callback leaves the runs where they are. *)
LEMMA PoppedCallback ==
  ASSUME NEW s, NEW z, NEW n, Popped(s, z, n), n \notin LoopsOf(s)
  PROVE  \A k \in LoopsOf(s) : k \in LoopsOf(z) /\ z[k] = s[k]
BY DEF Popped

(* Every frame after a push is the new one or was there before. *)
LEMMA PushedAt ==
  ASSUME NEW s, NEW f, NEW z, NEW n, Pushed(s, f, z, n), NEW k \in 1 .. Len(z)
  PROVE  z[k] = f \/ (k \in 1 .. Len(s) /\ z[k] = s[k])
<1>1. n \in Nat /\ n = Len(s) /\ Len(z) = n + 1 /\ z[n + 1] = f /\ \A i \in 1 .. n : z[i] = s[i]
  BY DEF Pushed
<1>2. k = n + 1 \/ k \in 1 .. n
  BY <1>1
<1> QED
  BY <1>1, <1>2, Zenon

(* Requests. *)
LEMMA RequestsPush ==
  ASSUME RequestsAreCalls, CallsStay, NEW f, NEW s, NEW z, NEW n, s = stack[Loop], z = stack'[Loop],
         Pushed(s, f, z, n), f.kind = "cb" => Requests(f.work)
  PROVE  RequestsIn(stack[Loop])'
<1>1. RequestsIn(s)
  BY DEF RequestsAreCalls
<1>2. ASSUME NEW k \in 1 .. Len(z), z[k].kind = "cb" PROVE Requests(z[k].work)'
  <2>1. Requests(z[k].work)
    <3>1. z[k] = f \/ (k \in 1 .. Len(s) /\ z[k] = s[k])
      BY PushedAt
    <3> QED
      BY <1>1, <1>2, <3>1, Zenon DEF RequestsIn
  <2> QED
    BY <2>1 DEF Requests, CallsStay
<1> QED
  BY <1>2 DEF RequestsIn

LEMMA RequestsPop ==
  ASSUME RequestsAreCalls, CallsStay, NEW s, NEW z, NEW n, s = stack[Loop], z = stack'[Loop], Popped(s, z, n)
  PROVE  RequestsIn(stack[Loop])'
<1>1. RequestsIn(s)
  BY DEF RequestsAreCalls
<1>2. ASSUME NEW k \in 1 .. Len(z), z[k].kind = "cb" PROVE Requests(z[k].work)'
  <2>1. Requests(z[k].work)
    BY <1>1, <1>2 DEF RequestsIn, Popped
  <2> QED
    BY <2>1 DEF Requests, CallsStay
<1> QED
  BY <1>2 DEF RequestsIn

LEMMA RequestsStay ==
  ASSUME RequestsAreCalls, CallsStay, stack'[Loop] = stack[Loop]
  PROVE  RequestsIn(stack[Loop])'
BY DEF RequestsAreCalls, RequestsIn, Requests, CallsStay

LEMMA RequestsQueued ==
  ASSUME RequestsAreCalls, CallsStay, NEW t, Queued' \subseteq Queued \cup {t}, Requests(t.work)'
  PROVE  (\A u \in Queued : Requests(u.work))'
BY DEF RequestsAreCalls, Requests, CallsStay

(* The quit tasks in the queues. *)
LEMMA QuitsAre ==
  /\ Holds => Quits' = Quits
  /\ \A t : Posts(t) /\ ~t.terminate => Quits' = Quits
  /\ \A t : Posts(t) /\ t.terminate => Quits' = Quits \cup {t} /\ t \notin Quits
  /\ \A t : Takes(t) /\ ~t.terminate => Quits' = Quits
  /\ \A t : Takes(t) /\ t.terminate => Quits' = Quits \ {t} /\ t \in Quits
BY DEF Holds, Posts, Takes, Quits

LEMMA ReasonsStay ==
  ASSUME QuitsHaveReasons, Quits' \subseteq Quits, flash'.runs = flash.runs, quits \in Nat, quits' \in Nat,
         quits' >= quits,
         \A i \in Syncs : Waits(i) /\ sync[i].answered =>
           Waits(i)' /\ sync'[i].answered /\ sync'[i].depth = sync[i].depth
  PROVE  QuitsHaveReasons'
<1> SUFFICES ASSUME flash.runs = 0 PROVE QuitsHaveReasons'
  BY DEF QuitsHaveReasons
<1>1. ASSUME NEW t \in Quits'
      PROVE  \/ t.depth = 1 /\ quits' > 0
             \/ \E i \in Syncs : Waits(i)' /\ sync'[i].answered /\ sync'[i].depth = t.depth
  BY DEF QuitsHaveReasons
<1>2. \A t, u \in Quits' : t.depth = u.depth /\ t.depth # 1 => t = u
  BY DEF QuitsHaveReasons
<1> QED
  BY <1>1, <1>2 DEF QuitsHaveReasons

LEMMA CountStays ==
  ASSUME FlashQuitsAreCounted, Quits' \subseteq Quits, UNCHANGED flash, flash \in FlashState
  PROVE  FlashQuitsAreCounted'
<1> SUFFICES ASSUME flash.runs > 0 PROVE FlashQuitsAreCounted'
  BY DEF FlashQuitsAreCounted
<1>1. IsFiniteSet(Quits) /\ flash.returned + Cardinality(Quits) <= flash.quits
  BY DEF FlashQuitsAreCounted
<1>2. IsFiniteSet(Quits') /\ Cardinality(Quits') <= Cardinality(Quits)
  BY <1>1, FS_Subset
<1>3. Cardinality(Quits') \in Nat /\ Cardinality(Quits) \in Nat
  BY <1>1, <1>2, FS_CardinalityType
<1>4. flash.returned \in Nat /\ flash.quits \in Nat
  BY FlashIs
<1>5. flash'.returned + Cardinality(Quits') <= flash'.quits
  BY <1>1, <1>2, <1>3, <1>4
<1> QED
  BY <1>2, <1>5 DEF FlashQuitsAreCounted

-----------------------------------------------------------------------------
(* TurnInv is inductive. *)

LEMMA TurnIs ==
  ASSUME LoopInv, TurnInv
  PROVE  /\ FramesInTurn /\ WaitersInTurn /\ RequestsAreCalls /\ FlashAlone /\ QuitsHaveReasons
         /\ FlashQuitsAreCounted /\ SyncReturnsAfterAnswer
         /\ flash \in FlashState /\ flash.runs \in Nat /\ quits \in Nat /\ ml[Loop].depth \in Nat
         /\ sync \in [Syncs -> SyncState]
         /\ \A i \in Syncs : sync[i] \in SyncState /\ sync[i].depth \in Nat
<1>1. flash \in FlashState /\ sync \in [Syncs -> SyncState] /\ quits \in Nat /\ ml[Loop].depth \in Nat
  BY LoopInvIs, QueueIs DEF ClientTypes
<1>2. \A i \in Syncs : sync[i] \in SyncState /\ sync[i].depth \in Nat
  BY <1>1 DEF SyncState
<1> QED
  BY <1>1, <1>2, FlashIs DEF TurnInv

LEMMA CallsUnchanged ==
  ASSUME UNCHANGED <<sync, flash>>
  PROVE  /\ WaitsStay /\ CallsStay /\ RunsStay
         /\ \A i \in Syncs : Waits(i)' <=> Waits(i)
         /\ SyncReturnsAfterAnswer => SyncReturnsAfterAnswer'
BY DEF WaitsStay, CallsStay, RunsStay, Waits, SyncReturnsAfterAnswer

(* A step that touches no frame, call or quit task. *)
LEMMA TurnQuiet ==
  ASSUME LoopInv, TurnInv, UNCHANGED <<sync, flash, quits>>, stack'[Loop] = stack[Loop],
         ml'[Loop].depth = ml[Loop].depth, Quits' \subseteq Quits, FlashAlone',
         NEW t, t.work.fn # "request", Queued' \subseteq Queued \cup {t}
  PROVE  TurnInv'
<1> USE TurnIs
<1>1. WaitsStay /\ CallsStay /\ RunsStay /\ SyncReturnsAfterAnswer' /\ \A i \in Syncs : Waits(i)' <=> Waits(i)
  BY CallsUnchanged
<1>2. FramesInTurn'
  BY <1>1, FramesStay
<1>3. WaitersInTurn'
  BY <1>1, WaitersStay
<1>4. RequestsAreCalls'
  <2>1. Requests(t.work)'
    BY DEF Requests
  <2>2. RequestsIn(stack[Loop])' /\ (\A u \in Queued : Requests(u.work))'
    BY <1>1, <2>1, RequestsStay, RequestsQueued
  <2>3. (\A i \in Syncs : sync[i].state = "none" => ~sync[i].asked)'
    BY DEF RequestsAreCalls
  <2> QED
    BY <2>2, <2>3 DEF RequestsAreCalls
<1>5. QuitsHaveReasons'
  BY <1>1, ReasonsStay
<1>6. FlashQuitsAreCounted'
  BY CountStays
<1> QED
  BY <1>1, <1>2, <1>3, <1>4, <1>5, <1>6 DEF TurnInv

LEMMA TurnPostQuit ==
  ASSUME UniqueStamps = TRUE, LoopInv, StampsDiffer, TurnInv,
         NEW destroy \in BOOLEAN, ppb_message_loop_post_quit(destroy)
  PROVE  TurnInv'
<1> USE TurnIs
<1>1. /\ UNCHANGED <<stack, now, task, sync, flash, exits, told>> /\ StampFree(now)
      /\ quitter # -1 /\ quitter' = -1 /\ quits' = quits + 1
      /\ ml' = ppb_message_loop_post_quit_depth(
                 ml, Loop, QuitTask(now, quitter, destroy, NoWork))
  BY DEF ppb_message_loop_post_quit
<1>2. quitter = 1 /\ flash.runs = 0
  BY <1>1 DEF FlashAlone
<1>3. PICK t : t = QuitTask(now, quitter, destroy, NoWork)
  OBVIOUS
<1>4. (Holds \/ Posts(t)) /\ FlagsStay /\ t.terminate /\ t.work = NoWork /\ t.depth = 1
  BY <1>1, <1>2, <1>3, QuitPosts
<1>5. Queued' \subseteq Queued \cup {t} /\ Quits' \subseteq Quits \cup {t} /\ t.work.fn = "none"
  BY <1>4, QuitsAre, TasksAreTyped DEF Holds, Posts
<1>6. WaitsStay /\ CallsStay /\ RunsStay /\ SyncReturnsAfterAnswer' /\ \A i \in Syncs : Waits(i)' <=> Waits(i)
  BY <1>1, CallsUnchanged
<1>7. FramesInTurn'
  BY <1>1, <1>6, FramesStay
<1>8. WaitersInTurn'
  BY <1>1, <1>4, <1>6, WaitersStay DEF FlagsStay
<1>9. RequestsAreCalls'
  <2>1. Requests(t.work)'
    BY <1>5 DEF Requests
  <2>2. RequestsIn(stack[Loop])' /\ (\A u \in Queued : Requests(u.work))'
    BY <1>1, <1>5, <1>6, <2>1, RequestsStay, RequestsQueued
  <2>3. (\A i \in Syncs : sync[i].state = "none" => ~sync[i].asked)'
    BY <1>1 DEF RequestsAreCalls
  <2> QED
    BY <2>2, <2>3 DEF RequestsAreCalls
<1>10. FlashAlone'
  BY <1>1, <1>2 DEF FlashAlone
<1>11. QuitsHaveReasons'
  <2>1. ASSUME NEW u \in Quits'
        PROVE  \/ u.depth = 1 /\ quits' > 0
               \/ \E i \in Syncs : Waits(i)' /\ sync'[i].answered /\ sync'[i].depth = u.depth
    <3>1. CASE u = t
      BY <1>1, <1>4, <3>1
    <3>2. CASE u \in Quits
      BY <1>1, <1>2, <1>6, <3>2 DEF QuitsHaveReasons
    <3> QED
      BY <1>5, <3>1, <3>2
  <2>2. \A u, v \in Quits' : u.depth = v.depth /\ u.depth # 1 => u = v
    BY <1>2, <1>4, <1>5 DEF QuitsHaveReasons
  <2> QED
    BY <2>1, <2>2 DEF QuitsHaveReasons
<1>12. FlashQuitsAreCounted'
  BY <1>1, <1>2 DEF FlashQuitsAreCounted
<1> QED
  BY <1>6, <1>7, <1>8, <1>9, <1>10, <1>11, <1>12 DEF TurnInv

(* Nobody has answered call i before: no quit task has its depth. *)
LEMMA TurnAnswer ==
  ASSUME UniqueStamps = TRUE, LoopInv, StampsDiffer, TurnInv, NEW i \in Syncs, AnswerSync(i)
  PROVE  TurnInv'
<1> USE TurnIs
<1>1. /\ UNCHANGED <<stack, now, task, flash, quitter, quits, exits, told>> /\ StampFree(now)
      /\ sync' = [sync EXCEPT ![i].answered = TRUE] /\ sync[i].asked /\ ~sync[i].answered
      /\ ml' = ppb_message_loop_post_quit_depth(
                 ml, Loop, QuitTask(now, sync[i].depth, FALSE, NoWork))
  BY DEF AnswerSync
<1>2. Waits(i) /\ flash.runs = 0
  <2>1. sync[i].state # "none" /\ sync[i].state # "returned"
    BY <1>1 DEF RequestsAreCalls, SyncReturnsAfterAnswer
  <2>2. sync[i].state = "waiting"
    BY <2>1 DEF SyncState
  <2> QED
    BY <2>1, <2>2 DEF Waits, FlashAlone
<1>3. /\ sync'[i].state = sync[i].state /\ sync'[i].depth = sync[i].depth
      /\ sync'[i].asked = sync[i].asked /\ sync'[i].answered = TRUE
      /\ \A j \in Syncs : j # i => sync'[j] = sync[j]
  BY <1>1, SyncAnswered
<1>4. PICK t : t = QuitTask(now, sync[i].depth, FALSE, NoWork)
  OBVIOUS
<1>5. (Holds \/ Posts(t)) /\ FlagsStay /\ t.terminate /\ t.work = NoWork /\ t.depth = sync[i].depth
  BY <1>1, <1>4, QuitPosts
<1>6. Queued' \subseteq Queued \cup {t} /\ Quits' \subseteq Quits \cup {t} /\ t.work.fn = "none"
  BY <1>5, QuitsAre, TasksAreTyped DEF Holds, Posts
<1>7. /\ WaitsStay /\ CallsStay /\ RunsStay
      /\ \A j \in Syncs : (Waits(j)' <=> Waits(j)) /\ sync'[j].depth = sync[j].depth
      /\ \A j \in Syncs : sync[j].answered => sync'[j].answered
  BY <1>1, <1>3 DEF WaitsStay, CallsStay, RunsStay, Waits
<1>8. FramesInTurn'
  BY <1>1, <1>7, FramesStay
<1>9. WaitersInTurn'
  BY <1>1, <1>5, <1>7, WaitersSame DEF FlagsStay
<1>10. RequestsAreCalls'
  <2>1. Requests(t.work)'
    BY <1>6 DEF Requests
  <2>2. RequestsIn(stack[Loop])' /\ (\A u \in Queued : Requests(u.work))'
    BY <1>1, <1>6, <1>7, <2>1, RequestsStay, RequestsQueued
  <2>3. ASSUME NEW j \in Syncs, sync'[j].state = "none" PROVE ~sync'[j].asked
    BY <1>2, <1>3, <2>3 DEF RequestsAreCalls, Waits
  <2> QED
    BY <2>2, <2>3 DEF RequestsAreCalls
<1>11. FlashAlone'
  BY <1>1, <1>2 DEF FlashAlone
<1>12. QuitsHaveReasons'
  <2>1. ASSUME NEW u \in Quits'
        PROVE  \/ u.depth = 1 /\ quits' > 0
               \/ \E j \in Syncs : Waits(j)' /\ sync'[j].answered /\ sync'[j].depth = u.depth
    <3>1. CASE u = t
      BY <1>2, <1>3, <1>5, <1>7, <3>1
    <3>2. CASE u \in Quits
      BY <1>1, <1>2, <1>7, <3>2 DEF QuitsHaveReasons
    <3> QED
      BY <1>6, <3>1, <3>2
  <2>2. ASSUME NEW u \in Quits, u.depth # 1 PROVE u.depth # t.depth
    <3>1. PICK j \in Syncs : Waits(j) /\ sync[j].answered /\ sync[j].depth = u.depth
      BY <1>2, <2>2 DEF QuitsHaveReasons
    <3>2. j # i
      BY <1>1, <3>1
    <3> QED
      BY <1>2, <1>5, <3>1, <3>2 DEF WaitersInTurn, Waiting
  <2>3. \A u, v \in Quits' : u.depth = v.depth /\ u.depth # 1 => u = v
    BY <1>2, <1>6, <2>2 DEF QuitsHaveReasons
  <2> QED
    BY <2>1, <2>3 DEF QuitsHaveReasons
<1>13. FlashQuitsAreCounted'
  BY <1>1, <1>2 DEF FlashQuitsAreCounted
<1>14. SyncReturnsAfterAnswer'
  BY <1>3 DEF SyncReturnsAfterAnswer
<1> QED
  BY <1>8, <1>9, <1>10, <1>11, <1>12, <1>13, <1>14 DEF TurnInv

(* A frame on the stack means that the loop is at depth 1 at least. *)
LEMMA DepthPositive ==
  ASSUME LoopInv, FramesInTurn, stack[Loop] # <<>>
  PROVE  ml[Loop].depth >= 1 /\ ml[Loop].depth \in Nat
<1> USE LoopInvIs
<1>1. PICK s \in Seq(Frame) : s = stack[Loop]
  BY QueueIs
<1>2. InTurn(s) /\ s # <<>>
  BY <1>1, InTurnNow
<1>3. 1 \in LoopsOf(s) /\ FrameInTurn(1, s[1])
  BY <1>2 DEF InTurn
<1>4. s[1].flags = {"ML_INCREASE_DEPTH"}
  BY <1>3 DEF FrameInTurn
<1>5. 1 \in DeepOf(s)
  BY <1>3, <1>4 DEF DeepOf
<1>6. IsFiniteSet(DeepOf(s)) /\ {1} \in SUBSET DeepOf(s)
  BY <1>5, DeepIsFinite
<1>7. Cardinality({1}) <= Cardinality(DeepOf(s)) /\ Cardinality({1}) = 1
  BY <1>6, FS_Subset, FS_Singleton
<1>8. ml[Loop].depth = Cardinality(DeepOf(s)) /\ ml[Loop].depth \in Nat
  BY <1>1, QueueIs DEF NestingInv, Nested
<1> QED
  BY <1>7, <1>8

(* The innermost run works at the depth of the loop. *)
LEMMA TopInTurn ==
  ASSUME LoopInv, FramesInTurn, NEW f, f \in LoopFrameType, stack[Loop] # <<>>,
         f = stack[Loop][Len(stack[Loop])]
  PROVE  /\ Len(stack[Loop]) \in LoopsOf(stack[Loop]) /\ FrameInTurn(Len(stack[Loop]), f)
         /\ f.depth = ml[Loop].depth
<1> USE LoopInvIs
<1>1. PICK s \in Seq(Frame), n \in Nat \ {0} : s = stack[Loop] /\ n = Len(s) /\ f = s[n]
  BY QueueIs, LenProperties, EmptySeq
<1>2. InTurn(s)
  BY <1>1, InTurnNow
<1>3. f.kind = "loop"
  BY DEF LoopFrameType
<1>4. n \in LoopsOf(s)
  BY <1>1, <1>3 DEF LoopsOf
<1>5. UpTo(s, n) = DeepOf(s)
  BY <1>1 DEF UpTo, DeepOf, LoopsOf
<1>6. Nested(s, ml[Loop].depth, ml[Loop].running)
  BY <1>1 DEF NestingInv
<1>7. s[n].depth = Cardinality(UpTo(s, n)) /\ ml[Loop].depth = Cardinality(DeepOf(s))
  BY <1>4, <1>6 DEF Nested
<1>8. FrameInTurn(n, s[n])
  BY <1>2, <1>4 DEF InTurn
<1> QED
  BY <1>1, <1>4, <1>5, <1>7, <1>8

(* The new call waits one level deeper than all others. *)
LEMMA TurnCall ==
  ASSUME UniqueStamps = TRUE, MixFlash = FALSE, LoopInv, StampsDiffer, TurnInv,
         NEW i \in Syncs, CallSync(i)
  PROVE  TurnInv'
<1> USE TurnIs
<1> DEFINE r == [state |-> "waiting", depth |-> ml[Loop].depth + 1, asked |-> FALSE, answered |-> FALSE]
<1>1. /\ UNCHANGED <<now, task, flash, quitter, quits, exits, told>> /\ stack[Loop] # <<>>
      /\ sync' = [sync EXCEPT ![i] = r] /\ sync[i].state = "none" /\ ~(flash.runs > 0)
  BY DEF CallSync, InWork, InCallback
<1>2. /\ sync'[i].state = "waiting" /\ sync'[i].depth = ml[Loop].depth + 1
      /\ sync'[i].asked = FALSE /\ sync'[i].answered = FALSE
      /\ \A j \in Syncs : j # i => sync'[j] = sync[j]
  BY <1>1
<1> HIDE DEF r
<1>3. PICK t : t = WorkTask(now, ml[Loop].depth + 1, Work("request", i))
  OBVIOUS
<1>4. (Holds \/ Posts(t)) /\ ~t.terminate /\ t.work = Work("request", i)
  BY <1>3, CallPosts
<1>5. PICK m, f : /\ EntersFrom(m, {"ML_NESTED", "ML_INCREASE_DEPTH"}, SyncWaiter(i), f)
                  /\ m[Loop].depth = ml[Loop].depth
  BY CallPosts
<1>6. Queued' \subseteq Queued \cup {t} /\ Quits' = Quits
  BY <1>4, QuitsAre DEF Holds, Posts
<1>7. PICK d \in Nat : d = ml[Loop].depth /\ d >= 1
  BY <1>1, DepthPositive
<1>8. /\ stack'[Loop] = Append(stack[Loop], f) /\ f \in LoopFrameType /\ f.kind = "loop" /\ ~f.teardown
      /\ f.flags = {"ML_NESTED", "ML_INCREASE_DEPTH"} /\ f.call = SyncWaiter(i)
      /\ f.depth = d + 1 /\ ml'[Loop].depth = d + 1
  BY <1>5, <1>7 DEF EntersFrom
<1>9. f \in Frame
  BY <1>8, FrameTypes
<1>10. PICK s, z, n : s = stack[Loop] /\ z = stack'[Loop] /\ Pushed(s, f, z, n)
  BY <1>8, <1>9, LoopsPush, LoopInvIs, QueueIs
<1>11. /\ WaitsStay /\ CallsStay /\ RunsStay /\ Waits(i)' /\ ~Waits(i) /\ sync'[i].depth = d + 1
       /\ \A j \in Syncs : j # i => (Waits(j)' <=> Waits(j)) /\ sync'[j].depth = sync[j].depth
  BY <1>1, <1>2, <1>7 DEF WaitsStay, CallsStay, RunsStay, Waits
<1>12. InTurn(s) /\ s # <<>> /\ n \in Nat \ {0}
  <2>1. InTurn(s) /\ s # <<>>
    BY <1>1, <1>10, InTurnNow
  <2> QED
    BY <1>10, <2>1 DEF Pushed
<1>13. \A k \in LoopsOf(s) : s[k].call # SyncWaiter(i)
  <2>1. ASSUME NEW k \in LoopsOf(s), s[k].call = SyncWaiter(i) PROVE FALSE
    <3>1. FrameInTurn(k, s[k])
      BY <1>12 DEF InTurn
    <3>2. SyncWaiter(i).fn = "sync" /\ SyncWaiter(i).id = i /\ NoWait.fn = "nobody"
      BY DEF SyncWaiter, NoWait
    <3>3. PICK j \in Syncs : s[k].call = SyncWaiter(j) /\ Waits(j)
      BY <2>1, <3>1, <3>2 DEF FrameInTurn
    <3>4. j = i
      BY <2>1, <3>3 DEF SyncWaiter
    <3> QED
      BY <1>11, <3>3, <3>4
  <2> QED
    BY <2>1
<1>14. FramesInTurn'
  <2>1. FrameInTurn(n + 1, f)'
    <3>1. n + 1 > 1 /\ sync'[i].depth = f.depth
      BY <1>8, <1>11, <1>12
    <3> QED
      BY <1>8, <1>11, <3>1 DEF FrameInTurn
  <2> QED
    BY <1>8, <1>9, <1>10, <1>11, <1>12, <1>13, <2>1, FramesPush
<1>15. WaitersInTurn'
  <2>1. Waiting(s, d)
    BY <1>7, <1>10 DEF WaitersInTurn
  <2>2. \A k \in LoopsOf(s) : k \in LoopsOf(z) /\ z[k] = s[k]
    BY <1>10 DEF Pushed
  <2>3. n + 1 \in LoopsOf(z) /\ z[n + 1] = f
    BY <1>8, <1>10 DEF Pushed
  <2>4. ASSUME NEW j \in Syncs, Waits(j)', j # i
        PROVE  sync'[j].depth \in 2 .. d /\ \E k \in LoopsOf(z) : z[k].call = SyncWaiter(j)
    BY <1>11, <2>1, <2>2, <2>4 DEF Waiting
  <2>5. ASSUME NEW j \in Syncs, Waits(j)'
        PROVE  sync'[j].depth \in 2 .. d + 1 /\ \E k \in LoopsOf(z) : z[k].call = SyncWaiter(j)
    <3>1. CASE j = i
      <4>1. d + 1 \in 2 .. d + 1
        BY <1>7
      <4> QED
        BY <1>8, <1>11, <2>3, <3>1, <4>1
    <3>2. CASE j # i
      <4>1. 2 .. d \subseteq 2 .. d + 1
        OBVIOUS
      <4> QED
        BY <2>4, <2>5, <3>2, <4>1
    <3> QED
      BY <3>1, <3>2
  <2>6. ASSUME NEW j \in Syncs, NEW k \in Syncs, Waits(j)', Waits(k)', sync'[j].depth = sync'[k].depth
        PROVE  j = k
    <3>1. d + 1 \notin 2 .. d
      OBVIOUS
    <3>2. CASE j = i \/ k = i
      BY <1>11, <2>4, <2>6, <3>1, <3>2
    <3>3. CASE j # i /\ k # i
      BY <1>11, <2>1, <2>6, <3>3 DEF Waiting
    <3> QED
      BY <3>2, <3>3
  <2>7. Waiting(z, d + 1)'
    BY <2>5, <2>6 DEF Waiting
  <2> QED
    BY <1>8, <1>10, <2>7 DEF WaitersInTurn, Waiting
<1>16. RequestsAreCalls'
  <2>1. Requests(t.work)'
    BY <1>2, <1>4 DEF Requests, Work
  <2>2. RequestsIn(stack[Loop])' /\ (\A u \in Queued : Requests(u.work))'
    BY <1>6, <1>8, <1>10, <1>11, <2>1, RequestsPush, RequestsQueued
  <2>3. ASSUME NEW j \in Syncs, sync'[j].state = "none" PROVE ~sync'[j].asked
    BY <1>2, <2>3 DEF RequestsAreCalls
  <2> QED
    BY <2>2, <2>3 DEF RequestsAreCalls
<1>17. FlashAlone'
  BY <1>1 DEF FlashAlone
<1>18. QuitsHaveReasons'
  BY <1>1, <1>2, <1>6, <1>11, ReasonsStay
<1>19. FlashQuitsAreCounted'
  BY <1>1, <1>6, CountStays
<1>20. SyncReturnsAfterAnswer'
  BY <1>2 DEF SyncReturnsAfterAnswer
<1> QED
  BY <1>14, <1>15, <1>16, <1>17, <1>18, <1>19, <1>20 DEF TurnInv

LEMMA TurnRun ==
  ASSUME LoopInv, StampsDiffer, TurnInv, ppb_message_loop_run
  PROVE  TurnInv'
<1> USE TurnIs
<1>1. /\ UNCHANGED <<now, task, sync, flash, quitter, quits, exits, told>> /\ stack[Loop] = <<>>
      /\ Enter(ml, {"ML_INCREASE_DEPTH"}, NoWait)
  BY DEF ppb_message_loop_run
<1>2. PICK f : EntersFrom(ml, {"ML_INCREASE_DEPTH"}, NoWait, f)
  <2>1. {"ML_INCREASE_DEPTH"} \in SUBSET Flags
    BY DEF Flags
  <2> QED
    BY <1>1, <2>1, EnterIs, TasksAreTyped, LoopInvIs DEF QueueTypes
<1>3. /\ stack'[Loop] = Append(stack[Loop], f) /\ f \in LoopFrameType /\ f.kind = "loop"
      /\ f.flags = {"ML_INCREASE_DEPTH"} /\ f.call = NoWait /\ QueuesAre(Async, Tree)
  BY <1>2 DEF EntersFrom, Async, Tree
<1>4. f \in Frame /\ NoWait.fn = "nobody"
  BY <1>3, FrameTypes DEF NoWait
<1>5. PICK s, z, n : s = stack[Loop] /\ z = stack'[Loop] /\ Pushed(s, f, z, n)
  BY <1>3, <1>4, LoopsPush, LoopInvIs, QueueIs
<1>6. s = <<>> /\ n = 0 /\ LoopsOf(s) = {}
  BY <1>1, <1>5 DEF Pushed
<1>7. Holds /\ Quits' = Quits
  BY <1>3, QueuedStays, QuitsAre DEF Holds
<1>8. WaitsStay /\ CallsStay /\ RunsStay /\ SyncReturnsAfterAnswer' /\ \A i \in Syncs : Waits(i)' <=> Waits(i)
  BY <1>1, CallsUnchanged
<1>9. \A i \in Syncs : ~Waits(i)
  BY <1>5, <1>6 DEF WaitersInTurn, Waiting
<1>10. FramesInTurn'
  <2>1. FrameInTurn(n + 1, f)'
    BY <1>3, <1>6 DEF FrameInTurn
  <2> QED
    BY <1>3, <1>4, <1>5, <1>8, <2>1, FramesPush
<1>11. WaitersInTurn'
  BY <1>8, <1>9, NobodyWaits
<1>12. RequestsAreCalls'
  <2>1. RequestsIn(stack[Loop])'
    BY <1>3, <1>5, <1>8, RequestsPush
  <2>2. (\A u \in Queued : Requests(u.work))' /\ (\A i \in Syncs : sync[i].state = "none" => ~sync[i].asked)'
    BY <1>1, <1>7 DEF RequestsAreCalls, Requests, Holds
  <2> QED
    BY <2>1, <2>2 DEF RequestsAreCalls
<1>13. FlashAlone'
  BY <1>1 DEF FlashAlone
<1>14. QuitsHaveReasons' /\ FlashQuitsAreCounted'
  BY <1>1, <1>7, <1>8, ReasonsStay, CountStays
<1> QED
  BY <1>8, <1>10, <1>11, <1>12, <1>13, <1>14 DEF TurnInv

(* The first run of the Flash message loop finds no quit task queued. *)
LEMMA TurnFlashRun ==
  ASSUME MixFlash = FALSE, LoopInv, StampsDiffer, TurnInv, ppb_flash_message_loop_run
  PROVE  TurnInv'
<1> USE TurnIs
<1> DEFINE w == [fn |-> "flash", id |-> flash.runs + 1]
<1>1. /\ UNCHANGED <<now, task, sync, quitter, quits, exits, told>> /\ stack[Loop] # <<>>
      /\ quitter = -1 /\ ~(quits > 0) /\ \A i \in Syncs : sync[i].state = "none"
      /\ flash' = [flash EXCEPT !.running = TRUE, !.depth = ml[Loop].depth + 1, !.runs = flash.runs + 1]
      /\ Enter(ml, {"ML_NESTED"}, w)
  BY DEF ppb_flash_message_loop_run, InWork, InCallback
<1>2. /\ flash'.runs = flash.runs + 1 /\ flash'.runs > 0 /\ flash'.runs # 0
      /\ flash'.quits = flash.quits /\ flash'.returned = flash.returned
  <2>1. /\ flash'.runs = flash.runs + 1 /\ flash'.quits = flash.quits /\ flash'.returned = flash.returned
    BY <1>1 DEF FlashState
  <2> QED
    BY <2>1
<1>3. w \in Waiters /\ {"ML_NESTED"} \in SUBSET Flags /\ w.fn = "flash"
  <2>1. flash.runs + 1 \in Nat
    OBVIOUS
  <2>2. w \in Waiters
    BY <2>1, TasksAreTyped
  <2>3. {"ML_NESTED"} \in SUBSET Flags
    BY DEF Flags
  <2> QED
    BY <2>2, <2>3
<1> HIDE DEF w
<1>4. PICK f : EntersFrom(ml, {"ML_NESTED"}, w, f)
  BY <1>1, <1>3, EnterIs, LoopInvIs DEF QueueTypes
<1>5. /\ stack'[Loop] = Append(stack[Loop], f) /\ f \in LoopFrameType /\ f.kind = "loop" /\ ~f.teardown
      /\ f.flags = {"ML_NESTED"} /\ f.call.fn = "flash" /\ QueuesAre(Async, Tree)
  BY <1>3, <1>4 DEF EntersFrom, Async, Tree
<1>6. f \in Frame
  BY <1>5, FrameTypes
<1>7. PICK s, z, n : s = stack[Loop] /\ z = stack'[Loop] /\ Pushed(s, f, z, n)
  BY <1>5, <1>6, LoopsPush, LoopInvIs, QueueIs
<1>8. n + 1 > 1
  BY <1>1, <1>7 DEF Pushed
<1>9. Holds /\ Quits' = Quits
  BY <1>5, QueuedStays, QuitsAre DEF Holds
<1>10. WaitsStay /\ CallsStay /\ RunsStay /\ SyncReturnsAfterAnswer' /\ \A i \in Syncs : ~Waits(i) /\ ~Waits(i)'
  BY <1>1, <1>2 DEF WaitsStay, CallsStay, RunsStay, SyncReturnsAfterAnswer, Waits
<1>11. FramesInTurn'
  <2>1. FrameInTurn(n + 1, f)'
    BY <1>2, <1>5, <1>8 DEF FrameInTurn
  <2> QED
    BY <1>5, <1>6, <1>7, <1>10, <2>1, FramesPush
<1>12. WaitersInTurn'
  BY <1>10, NobodyWaits
<1>13. RequestsAreCalls'
  <2>1. RequestsIn(stack[Loop])'
    BY <1>5, <1>7, <1>10, RequestsPush
  <2>2. (\A u \in Queued : Requests(u.work))' /\ (\A i \in Syncs : sync[i].state = "none" => ~sync[i].asked)'
    BY <1>1, <1>9 DEF RequestsAreCalls, Requests, Holds
  <2> QED
    BY <2>1, <2>2 DEF RequestsAreCalls
<1>14. FlashAlone'
  <2>1. quits' = 0 /\ quitter' = -1 /\ \A i \in Syncs : sync'[i].state = "none"
    BY <1>1
  <2> QED
    BY <1>2, <2>1 DEF FlashAlone
<1>15. QuitsHaveReasons'
  BY <1>2 DEF QuitsHaveReasons
<1>16. FlashQuitsAreCounted'
  <2>1. IsFiniteSet(Quits) /\ flash.returned + Cardinality(Quits) <= flash.quits
    <3>1. CASE flash.runs = 0
      <4>1. Quits = {} /\ flash.returned = 0 /\ flash.quits = 0
        BY <1>1, <1>10, <3>1 DEF QuitsHaveReasons, FlashAlone
      <4> QED
        BY <4>1, FS_EmptySet
    <3>2. CASE flash.runs > 0
      BY <3>2 DEF FlashQuitsAreCounted
    <3> QED
      BY <3>1, <3>2
  <2> QED
    BY <1>2, <1>9, <2>1 DEF FlashQuitsAreCounted
<1> QED
  BY <1>10, <1>11, <1>12, <1>13, <1>14, <1>15, <1>16 DEF TurnInv

LEMMA TurnFlashQuit ==
  ASSUME UniqueStamps = TRUE, LoopInv, StampsDiffer, TurnInv, ppb_flash_message_loop_quit
  PROVE  TurnInv'
<1> USE TurnIs
<1>1. /\ UNCHANGED <<stack, now, task, sync, quitter, quits, exits, told>> /\ StampFree(now)
      /\ flash' = [flash EXCEPT !.quits = flash.quits + 1] /\ flash.running
      /\ ml' = ppb_message_loop_post_quit_depth(
                 ml, Loop, QuitTask(now, flash.depth, FALSE, NoWork))
  BY DEF ppb_flash_message_loop_quit
<1>2. /\ flash'.runs = flash.runs /\ flash.runs > 0 /\ flash.runs # 0
      /\ flash'.quits = flash.quits + 1 /\ flash'.returned = flash.returned
      /\ flash.returned \in Nat /\ flash.quits \in Nat
  <2>1. flash'.runs = flash.runs /\ flash'.quits = flash.quits + 1 /\ flash'.returned = flash.returned
    BY <1>1 DEF FlashState
  <2>2. flash.returned \in Nat /\ flash.quits \in Nat
    BY FlashIs
  <2>3. flash.runs # 0
    BY <1>1 DEF FlashAlone
  <2> QED
    BY <2>1, <2>2, <2>3
<1>3. PICK t : t = QuitTask(now, flash.depth, FALSE, NoWork)
  OBVIOUS
<1>4. (Holds \/ Posts(t)) /\ FlagsStay /\ t.terminate /\ t.work = NoWork
  <2>1. flash.depth \in Nat
    BY FlashIs
  <2> QED
    BY <1>1, <1>3, <2>1, QuitPosts
<1>5. Queued' \subseteq Queued \cup {t} /\ Quits' \subseteq Quits \cup {t} /\ t.work.fn = "none"
  BY <1>4, QuitsAre, TasksAreTyped DEF Holds, Posts
<1>6. /\ WaitsStay /\ CallsStay /\ RunsStay /\ SyncReturnsAfterAnswer'
      /\ \A i \in Syncs : (Waits(i)' <=> Waits(i)) /\ sync'[i].depth = sync[i].depth
  BY <1>1, <1>2 DEF WaitsStay, CallsStay, RunsStay, SyncReturnsAfterAnswer, Waits
<1>7. FramesInTurn'
  BY <1>1, <1>6, FramesStay
<1>8. WaitersInTurn'
  BY <1>1, <1>4, <1>6, WaitersSame DEF FlagsStay
<1>9. RequestsAreCalls'
  <2>1. Requests(t.work)'
    BY <1>5 DEF Requests
  <2>2. RequestsIn(stack[Loop])' /\ (\A u \in Queued : Requests(u.work))'
    BY <1>1, <1>5, <1>6, <2>1, RequestsStay, RequestsQueued
  <2>3. (\A i \in Syncs : sync[i].state = "none" => ~sync[i].asked)'
    BY <1>1 DEF RequestsAreCalls
  <2> QED
    BY <2>2, <2>3 DEF RequestsAreCalls
<1>10. FlashAlone'
  BY <1>1, <1>2 DEF FlashAlone
<1>11. QuitsHaveReasons'
  BY <1>2 DEF QuitsHaveReasons
<1>12. FlashQuitsAreCounted'
  <2>1. IsFiniteSet(Quits) /\ flash.returned + Cardinality(Quits) <= flash.quits
    BY <1>2 DEF FlashQuitsAreCounted
  <2>2. /\ IsFiniteSet(Quits \cup {t}) /\ Cardinality(Quits) \in Nat
        /\ Cardinality(Quits \cup {t}) <= Cardinality(Quits) + 1 /\ Cardinality(Quits \cup {t}) \in Nat
    <3>1. PICK Q : Q = Quits
      OBVIOUS
    <3>2. /\ IsFiniteSet(Q \cup {t})
          /\ Cardinality(Q \cup {t}) = IF t \in Q THEN Cardinality(Q) ELSE Cardinality(Q) + 1
      BY <2>1, <3>1, FS_AddElement
    <3>3. Cardinality(Q) \in Nat /\ Cardinality(Q \cup {t}) \in Nat
      BY <2>1, <3>1, <3>2, FS_CardinalityType
    <3> QED
      BY <3>1, <3>2, <3>3
  <2>3. IsFiniteSet(Quits') /\ Cardinality(Quits') <= Cardinality(Quits \cup {t}) /\ Cardinality(Quits') \in Nat
    BY <1>5, <2>2, FS_Subset, FS_CardinalityType
  <2>4. flash'.returned + Cardinality(Quits') <= flash'.quits
    BY <1>2, <2>1, <2>2, <2>3
  <2> QED
    BY <2>3, <2>4 DEF FlashQuitsAreCounted
<1> QED
  BY <1>6, <1>7, <1>8, <1>9, <1>10, <1>11, <1>12 DEF TurnInv

(* A callback returns; the one of a request has handed the request over. *)
LEMMA TurnReturn ==
  ASSUME LoopInv, TurnInv, InCallback(Loop), Returns, UNCHANGED <<ml, flash, quitter, quits>>,
         \/ UNCHANGED sync
         \/ Top(Loop).work.fn = "request" /\ sync' = [sync EXCEPT ![Top(Loop).work.id].asked = TRUE]
  PROVE  TurnInv'
<1> USE TurnIs
<1>1. /\ stack[Loop] # <<>> /\ stack[Loop][Len(stack[Loop])].kind = "cb"
      /\ stack'[Loop] = SubSeq(stack[Loop], 1, Len(stack[Loop]) - 1)
  BY ReturnIs, LoopInvIs
<1>2. PICK s, z, n : s = stack[Loop] /\ z = stack'[Loop] /\ Popped(s, z, n)
  BY <1>1, LoopsPop, LoopInvIs, QueueIs
<1>3. n \notin LoopsOf(s) /\ s[n].kind = "cb" /\ Top(Loop) = s[n] /\ n \in 1 .. Len(s)
  <2>1. n = Len(s) /\ n \in Nat \ {0}
    BY <1>2 DEF Popped
  <2>2. s[n].kind = "cb" /\ Top(Loop) = s[n]
    BY <1>1, <1>2, <2>1, Zenon DEF Top
  <2> QED
    BY <2>1, <2>2 DEF LoopsOf
<1>4. /\ \A i \in Syncs : /\ sync'[i].state = sync[i].state /\ sync'[i].depth = sync[i].depth
                          /\ sync'[i].answered = sync[i].answered
      /\ \A i \in Syncs : sync'[i].state = "none" => ~sync'[i].asked
  <2>1. CASE UNCHANGED sync
    BY <2>1 DEF RequestsAreCalls
  <2>2. CASE Top(Loop).work.fn = "request" /\ sync' = [sync EXCEPT ![Top(Loop).work.id].asked = TRUE]
    <3>1. Requests(s[n].work)
      BY <1>2, <1>3 DEF RequestsAreCalls, RequestsIn
    <3>2. PICK i \in Syncs : i = Top(Loop).work.id /\ sync[i].state # "none"
      BY <1>3, <2>2, <3>1 DEF Requests
    <3>3. /\ sync'[i].state = sync[i].state /\ sync'[i].depth = sync[i].depth
          /\ sync'[i].answered = sync[i].answered
          /\ \A j \in Syncs : j # i => sync'[j] = sync[j]
      BY <2>2, <3>2, SyncAsked
    <3> QED
      BY <3>2, <3>3 DEF RequestsAreCalls
  <2> QED
    BY <2>1, <2>2
<1>5. /\ WaitsStay /\ CallsStay /\ RunsStay /\ SyncReturnsAfterAnswer'
      /\ \A i \in Syncs : (Waits(i)' <=> Waits(i)) /\ sync'[i].depth = sync[i].depth
  BY <1>4 DEF WaitsStay, CallsStay, RunsStay, SyncReturnsAfterAnswer, Waits
<1>6. Queued' = Queued /\ Quits' = Quits
  BY DEF Queued, Quits
<1>7. FramesInTurn'
  BY <1>2, <1>5, FramesPop DEF WaitsStay
<1>8. WaitersInTurn'
  <2>1. \A k \in LoopsOf(s) : k \in LoopsOf(z) /\ z[k] = s[k]
    <3>1. Popped(s, z, n) /\ n \notin LoopsOf(s)
      BY <1>2, <1>3, Zenon
    <3> QED
      BY <3>1, PoppedCallback
  <2>2. PICK d \in Nat : d = ml[Loop].depth /\ d = ml'[Loop].depth
    OBVIOUS
  <2> QED
    BY <1>2, <1>5, <2>1, <2>2, WaitersStay
<1>9. RequestsAreCalls'
  <2>1. RequestsIn(stack[Loop])'
    BY <1>2, <1>5, RequestsPop
  <2>2. (\A u \in Queued : Requests(u.work))'
    BY <1>5, <1>6 DEF RequestsAreCalls, Requests, CallsStay
  <2> QED
    BY <1>4, <2>1, <2>2 DEF RequestsAreCalls
<1>10. FlashAlone'
  BY <1>4 DEF FlashAlone
<1>11. QuitsHaveReasons'
  BY <1>4, <1>5, <1>6, ReasonsStay
<1>12. FlashQuitsAreCounted'
  BY <1>6, CountStays
<1> QED
  BY <1>5, <1>7, <1>8, <1>9, <1>10, <1>11, <1>12 DEF TurnInv

LEMMA TurnRunTask ==
  ASSUME LoopInv, TurnInv, RunTask(Loop, now), Takes(DueTask(Loop)), ~DueTask(Loop).terminate,
         UNCHANGED <<sync, flash, quitter, quits>>
  PROVE  TurnInv'
<1> USE TurnIs
<1>1. PICK t \in Task : t = DueTask(Loop) /\ t \in Queued /\ Takes(t) /\ ~t.terminate
  BY DEF Takes
<1>2. PICK f : f = CallbackFrame(t.work)
  OBVIOUS
<1>3. f \in Frame /\ f.kind = "cb" /\ f.work = t.work
  <2>1. t.work \in WorkItems
    BY DEF Task, TaskType
  <2> QED
    BY <1>2, <2>1, FrameTypes
<1>4. stack'[Loop] = Append(stack[Loop], f) /\ FlagsStay /\ stack[Loop] # <<>>
  BY <1>1, <1>2, RunTaskIs, LoopInvIs DEF RunTask, Due, InLoop
<1>5. PICK s, z, n : s = stack[Loop] /\ z = stack'[Loop] /\ Pushed(s, f, z, n)
  BY <1>3, <1>4, LoopsPush, LoopInvIs, QueueIs
<1>6. WaitsStay /\ CallsStay /\ RunsStay /\ SyncReturnsAfterAnswer' /\ \A i \in Syncs : Waits(i)' <=> Waits(i)
  BY CallsUnchanged
<1>7. Queued' \subseteq Queued /\ Quits' = Quits
  BY <1>1, QuitsAre DEF Takes
<1>8. FramesInTurn'
  BY <1>3, <1>4, <1>5, <1>6, FramesPush
<1>9. WaitersInTurn'
  <2>1. \A k \in LoopsOf(s) : k \in LoopsOf(z) /\ z[k] = s[k]
    BY <1>3, <1>5 DEF Pushed
  <2>2. PICK d \in Nat : d = ml[Loop].depth /\ d = ml'[Loop].depth
    BY <1>4 DEF FlagsStay
  <2> QED
    BY <1>5, <1>6, <2>1, <2>2, WaitersStay
<1>10. RequestsAreCalls'
  <2>1. Requests(f.work)
    BY <1>1, <1>3 DEF RequestsAreCalls
  <2>2. RequestsIn(stack[Loop])'
    BY <1>5, <1>6, <2>1, RequestsPush
  <2>3. (\A u \in Queued : Requests(u.work))' /\ (\A i \in Syncs : sync[i].state = "none" => ~sync[i].asked)'
    BY <1>7 DEF RequestsAreCalls, Requests
  <2> QED
    BY <2>2, <2>3 DEF RequestsAreCalls
<1>11. FlashAlone'
  BY DEF FlashAlone
<1>12. QuitsHaveReasons' /\ FlashQuitsAreCounted'
  BY <1>6, <1>7, ReasonsStay, CountStays
<1> QED
  BY <1>6, <1>8, <1>9, <1>10, <1>11, <1>12 DEF TurnInv

(* Only the outermost run goes into teardown. *)
LEMMA TurnQuitOutermost ==
  ASSUME LoopInv, TurnInv, QuitOutermost(Loop, now), Takes(DueTask(Loop)), DueTask(Loop).terminate,
         UNCHANGED <<sync, flash, quitter, quits>>
  PROVE  TurnInv'
<1> USE TurnIs
<1>1. PICK s \in Seq(Frame), n \in Nat \ {0} : s = stack[Loop] /\ n = Len(s)
  BY QuitOutermostIs, LoopInvIs, QueueIs, LenProperties, EmptySeq
<1>2. PICK f \in LoopFrameType : f = Top(Loop) /\ ~IsNested(f) /\ f = s[n]
  BY <1>1, QuitOutermostIs, LoopInvIs DEF Top
<1>3. PICK z \in Seq(Frame) : z = stack'[Loop]
  BY QuitOutermostIs, LoopInvIs, TheLoop DEF TypesStay
<1>4. Len(z) = n /\ \A i \in 1 .. n : i # n => z[i] = s[i]
  BY <1>1, <1>3, QuitOutermostIs, LoopInvIs
<1>5. z[n].kind = "loop" /\ z[n].flags = f.flags /\ z[n].depth = f.depth /\ z[n].call = f.call
  <2>1. /\ stack'[Loop][Len(stack[Loop])].kind = "loop"
        /\ stack'[Loop][Len(stack[Loop])].flags = Top(Loop).flags
        /\ stack'[Loop][Len(stack[Loop])].depth = Top(Loop).depth
        /\ stack'[Loop][Len(stack[Loop])].call = Top(Loop).call
    BY QuitOutermostIs, LoopInvIs
  <2> QED
    BY <1>1, <1>2, <1>3, <2>1
<1>6. FlagsStay /\ stack[Loop] # <<>>
  BY QuitOutermostIs, LoopInvIs
<1>7. n \in LoopsOf(s) /\ FrameInTurn(n, f) /\ f.depth = ml[Loop].depth
  BY <1>1, <1>2, <1>6, TopInTurn
<1>8. n = 1 /\ f.call = NoWait /\ f.flags = {"ML_INCREASE_DEPTH"}
  <2>1. ~(f.depth > 1) /\ "ML_INCREASE_DEPTH" \in f.flags
    BY <1>2 DEF IsNested
  <2>2. ASSUME NEW i \in Syncs, Waits(i), sync[i].depth = f.depth PROVE FALSE
    BY <2>1, <2>2 DEF WaitersInTurn, Waiting
  <2> QED
    BY <1>7, <2>1, <2>2 DEF FrameInTurn
<1>9. LoopsOf(z) = {1} /\ LoopsOf(s) = {1} /\ z # <<>>
  BY <1>1, <1>7, <1>8, <1>3, <1>4, <1>5 DEF LoopsOf
<1>10. WaitsStay /\ CallsStay /\ RunsStay /\ SyncReturnsAfterAnswer' /\ \A i \in Syncs : Waits(i)' <=> Waits(i)
  BY CallsUnchanged
<1>11. Queued' \subseteq Queued /\ Quits' \subseteq Quits
  BY QuitsAre DEF Takes
<1>12. FramesInTurn'
  <2>1. FrameInTurn(1, z[1])'
    BY <1>8, <1>5 DEF FrameInTurn
  <2>2. InTurn(z)'
    BY <1>8, <1>9, <2>1 DEF InTurn
  <2> QED
    BY <1>3, <2>2, InTurnThen
<1>13. WaitersInTurn'
  <2>1. ASSUME NEW i \in Syncs, Waits(i) PROVE FALSE
    <3>1. PICK k \in LoopsOf(s) : s[k].call = SyncWaiter(i)
      BY <1>1, <2>1 DEF WaitersInTurn, Waiting
    <3>2. NoWait = SyncWaiter(i)
      BY <1>2, <1>8, <1>9, <3>1
    <3> QED
      BY <3>2 DEF NoWait, SyncWaiter
  <2> QED
    BY <1>10, <2>1, NobodyWaits
<1>14. RequestsAreCalls'
  <2>1. ASSUME NEW k \in 1 .. Len(z), z[k].kind = "cb" PROVE FALSE
    BY <1>8, <1>4, <1>5, <2>1
  <2>2. RequestsIn(stack[Loop])'
    BY <1>3, <2>1 DEF RequestsIn
  <2>3. (\A u \in Queued : Requests(u.work))' /\ (\A i \in Syncs : sync[i].state = "none" => ~sync[i].asked)'
    BY <1>11 DEF RequestsAreCalls, Requests
  <2> QED
    BY <2>2, <2>3 DEF RequestsAreCalls
<1>15. FlashAlone'
  BY DEF FlashAlone
<1>16. QuitsHaveReasons' /\ FlashQuitsAreCounted'
  BY <1>10, <1>11, ReasonsStay, CountStays
<1> QED
  BY <1>10, <1>12, <1>13, <1>14, <1>15, <1>16 DEF TurnInv

(* A run is left: the outermost one, with nobody waiting; ...              *)
LEMMA TurnLeaveOutermost ==
  ASSUME LoopInv, TurnInv, NEW q, NEW f, Leaves(q, f), LeftFrame, UNCHANGED <<quitter, quits>>,
         Queued' \subseteq Queued, Quits' \subseteq Quits, Len(stack[Loop]) = 1, f.call = NoWait
  PROVE  TurnInv'
<1> USE TurnIs
<1>1. /\ f = Top(Loop) /\ stack[Loop] # <<>> /\ f = stack[Loop][Len(stack[Loop])]
      /\ stack'[Loop] = SubSeq(stack[Loop], 1, Len(stack[Loop]) - 1)
  BY DEF Leaves
<1>2. PICK s, z, n : s = stack[Loop] /\ z = stack'[Loop] /\ Popped(s, z, n)
  BY <1>1, LoopsPop, LoopInvIs, QueueIs
<1>3. n = 1 /\ s[1].call = NoWait /\ LoopsOf(s) \subseteq {1}
  BY <1>1, <1>2 DEF Popped
<1>4. UNCHANGED <<sync, flash>>
  <2>1. NoWait.fn = "nobody"
    BY DEF NoWait
  <2> QED
    BY <1>1, <2>1 DEF LeftFrame
<1>5. WaitsStay /\ CallsStay /\ RunsStay /\ SyncReturnsAfterAnswer' /\ \A i \in Syncs : Waits(i)' <=> Waits(i)
  BY <1>4, CallsUnchanged
<1>6. FramesInTurn'
  BY <1>2, <1>5, FramesPop DEF WaitsStay
<1>7. WaitersInTurn'
  <2>1. ASSUME NEW i \in Syncs, Waits(i) PROVE FALSE
    <3>1. PICK k \in LoopsOf(s) : s[k].call = SyncWaiter(i)
      BY <1>2, <2>1 DEF WaitersInTurn, Waiting
    <3>2. NoWait = SyncWaiter(i)
      BY <1>3, <3>1
    <3> QED
      BY <3>2 DEF NoWait, SyncWaiter
  <2> QED
    BY <1>5, <2>1, NobodyWaits
<1>8. RequestsAreCalls'
  <2>1. RequestsIn(stack[Loop])'
    BY <1>2, <1>5, RequestsPop
  <2>2. (\A u \in Queued : Requests(u.work))' /\ (\A i \in Syncs : sync[i].state = "none" => ~sync[i].asked)'
    BY <1>4 DEF RequestsAreCalls, Requests
  <2> QED
    BY <2>1, <2>2 DEF RequestsAreCalls
<1>9. FlashAlone'
  BY <1>4 DEF FlashAlone
<1>10. QuitsHaveReasons' /\ FlashQuitsAreCounted'
  BY <1>4, <1>5, ReasonsStay, CountStays
<1> QED
  BY <1>5, <1>6, <1>7, <1>8, <1>9, <1>10 DEF TurnInv

(* ... the one of a synchronous call, by the answer to this call and no    *)
(* other, since the others wait at smaller depths; ...                     *)
LEMMA TurnLeaveSync ==
  ASSUME LoopInv, TurnInv, NEW q, NEW f, Leaves(q, f), LeftFrame, UNCHANGED <<quitter, quits>>,
         Queued' \subseteq Queued, NEW i \in Syncs, f.call = SyncWaiter(i), Waits(i), sync[i].depth = f.depth,
         NEW t \in Quits, Quits' = Quits \ {t}, t.depth = 0 \/ t.depth >= f.depth
  PROVE  TurnInv'
<1> USE TurnIs
<1>1. /\ f = Top(Loop) /\ stack[Loop] # <<>> /\ f = stack[Loop][Len(stack[Loop])] /\ f \in LoopFrameType
      /\ stack'[Loop] = SubSeq(stack[Loop], 1, Len(stack[Loop]) - 1)
  BY DEF Leaves
<1>2. PICK s, z, n : s = stack[Loop] /\ z = stack'[Loop] /\ Popped(s, z, n)
  BY <1>1, LoopsPop, LoopInvIs, QueueIs
<1>3. n \in LoopsOf(s) /\ f = s[n] /\ f.depth = ml[Loop].depth
  BY <1>1, <1>2, TopInTurn DEF Popped
<1>4. PICK d \in Nat : d = ml[Loop].depth /\ d = sync[i].depth
  BY <1>3
<1>5. flash.runs = 0
  BY DEF FlashAlone, Waits
<1>6. \A j \in Syncs : Waits(j) => sync[j].depth \in 2 .. d
  BY <1>4 DEF WaitersInTurn, Waiting
<1>7. \A j \in Syncs : Waits(j) /\ sync[j].depth = d => j = i
  BY <1>4 DEF WaitersInTurn, Waiting
<1>8. t.depth = d /\ sync[i].answered
  <2>1. ~(t.depth = 1)
    BY <1>4, <1>6
  <2>2. PICK j \in Syncs : Waits(j) /\ sync[j].answered /\ sync[j].depth = t.depth
    BY <1>5, <2>1 DEF QuitsHaveReasons
  <2>3. t.depth = d
    BY <1>4, <1>6, <2>2
  <2> QED
    BY <1>7, <2>2, <2>3
<1>9. \A u \in Quits' : u \in Quits /\ u.depth # d
  <2>1. d # 1
    BY <1>4, <1>6
  <2> QED
    BY <1>5, <1>8, <2>1 DEF QuitsHaveReasons
<1>10. UNCHANGED flash /\ sync' = [sync EXCEPT ![i].state = "returned"]
  <2>1. f.call.fn = "sync" /\ f.call.id = i
    BY DEF SyncWaiter
  <2> QED
    BY <1>1, <2>1 DEF LeftFrame
<1>11. /\ sync'[i].state = "returned" /\ sync'[i].depth = sync[i].depth
       /\ sync'[i].asked = sync[i].asked /\ sync'[i].answered = sync[i].answered
       /\ \A j \in Syncs : j # i => sync'[j] = sync[j]
  BY <1>10, SyncReturned
<1>12. /\ CallsStay /\ RunsStay /\ ~Waits(i)'
       /\ \A j \in Syncs : j # i => (Waits(j)' <=> Waits(j)) /\ sync'[j].depth = sync[j].depth
  BY <1>10, <1>11 DEF CallsStay, RunsStay, Waits
<1>13. FramesInTurn'
  BY <1>2, <1>3, <1>12, FramesPop
<1>14. WaitersInTurn'
  <2>1. PICK e : e = ml'[Loop].depth
    OBVIOUS
  <2>2. e = d - 1
    <3>1. f.flags = {"ML_NESTED", "ML_INCREASE_DEPTH"}
      <4>1. FrameInTurn(Len(stack[Loop]), f)
        BY <1>1, TopInTurn
      <4>2. NoWait.fn = "nobody" /\ SyncWaiter(i).fn = "sync"
        BY DEF NoWait, SyncWaiter
      <4> QED
        BY <4>1, <4>2 DEF FrameInTurn
    <3> QED
      BY <1>4, <2>1, <3>1 DEF Leaves
  <2>3. Waiting(s, d)
    BY <1>2, <1>4 DEF WaitersInTurn
  <2>4. ASSUME NEW j \in Syncs, Waits(j)'
        PROVE  sync'[j].depth \in 2 .. d - 1 /\ \E k \in LoopsOf(z) : z[k].call = SyncWaiter(j)
    <3>1. j # i /\ Waits(j) /\ sync'[j].depth = sync[j].depth
      BY <1>12, <2>4
    <3>2. sync[j].depth # d /\ sync[j].depth \in 2 .. d
      BY <1>6, <1>7, <3>1
    <3>3. PICK k \in LoopsOf(s) : s[k].call = SyncWaiter(j)
      BY <2>3, <3>1 DEF Waiting
    <3>4. k # n
      <4>1. SyncWaiter(j).id = j /\ SyncWaiter(i).id = i
        BY DEF SyncWaiter
      <4> QED
        BY <1>3, <3>1, <3>3, <4>1
    <3>5. k \in LoopsOf(z) /\ z[k] = s[k]
      BY <1>2, <3>4 DEF Popped
    <3>6. sync'[j].depth \in 2 .. d - 1
      BY <3>1, <3>2
    <3> QED
      BY <3>3, <3>5, <3>6
  <2>5. ASSUME NEW j \in Syncs, NEW k \in Syncs, Waits(j)', Waits(k)', sync'[j].depth = sync'[k].depth
        PROVE  j = k
    BY <1>12, <2>3, <2>5 DEF Waiting
  <2>6. Waiting(z, e)'
    BY <2>2, <2>4, <2>5 DEF Waiting
  <2> QED
    BY <1>2, <2>1, <2>6 DEF WaitersInTurn, Waiting
<1>15. RequestsAreCalls'
  <2>1. RequestsIn(stack[Loop])'
    BY <1>2, <1>12, RequestsPop
  <2>2. (\A u \in Queued : Requests(u.work))'
    BY <1>12 DEF RequestsAreCalls, Requests, CallsStay
  <2>3. ASSUME NEW j \in Syncs, sync'[j].state = "none" PROVE ~sync'[j].asked
    BY <1>11, <2>3 DEF RequestsAreCalls
  <2> QED
    BY <2>1, <2>2, <2>3 DEF RequestsAreCalls
<1>16. FlashAlone'
  BY <1>5, <1>10 DEF FlashAlone
<1>17. QuitsHaveReasons'
  <2>1. ASSUME NEW u \in Quits'
        PROVE  \/ u.depth = 1 /\ quits' > 0
               \/ \E j \in Syncs : Waits(j)' /\ sync'[j].answered /\ sync'[j].depth = u.depth
    <3>1. u \in Quits /\ u.depth # d
      BY <1>9
    <3>2. CASE u.depth = 1 /\ quits > 0
      BY <3>2
    <3>3. CASE \E j \in Syncs : Waits(j) /\ sync[j].answered /\ sync[j].depth = u.depth
      <4>1. PICK j \in Syncs : Waits(j) /\ sync[j].answered /\ sync[j].depth = u.depth
        BY <3>3
      <4>2. j # i
        BY <1>4, <3>1, <4>1
      <4> QED
        BY <1>11, <1>12, <4>1, <4>2
    <3> QED
      BY <1>5, <3>1, <3>2, <3>3 DEF QuitsHaveReasons
  <2>2. \A u, v \in Quits' : u.depth = v.depth /\ u.depth # 1 => u = v
    BY <1>5, <1>9 DEF QuitsHaveReasons
  <2> QED
    BY <2>1, <2>2 DEF QuitsHaveReasons
<1>18. FlashQuitsAreCounted'
  BY <1>10, CountStays
<1>19. SyncReturnsAfterAnswer'
  BY <1>8, <1>11 DEF SyncReturnsAfterAnswer
<1> QED
  BY <1>13, <1>14, <1>15, <1>16, <1>17, <1>18, <1>19 DEF TurnInv

(* ... and the one of the Flash message loop, by a quit task that a Quit   *)
(* has paid for.                                                           *)
LEMMA TurnLeaveFlash ==
  ASSUME LoopInv, TurnInv, NEW q, NEW f, Leaves(q, f), LeftFrame, UNCHANGED <<quitter, quits>>,
         Queued' \subseteq Queued, f.call.fn = "flash", flash.runs > 0,
         NEW t \in Quits, Quits' = Quits \ {t}
  PROVE  TurnInv'
<1> USE TurnIs
<1>1. /\ f = Top(Loop) /\ stack[Loop] # <<>>
      /\ stack'[Loop] = SubSeq(stack[Loop], 1, Len(stack[Loop]) - 1)
  BY DEF Leaves
<1>2. PICK s, z, n : s = stack[Loop] /\ z = stack'[Loop] /\ Popped(s, z, n)
  BY <1>1, LoopsPop, LoopInvIs, QueueIs
<1>3. UNCHANGED sync /\ flash' = [flash EXCEPT !.running = FALSE, !.returned = flash.returned + 1]
  BY <1>1 DEF LeftFrame
<1>4. /\ flash'.runs = flash.runs /\ flash'.quits = flash.quits /\ flash'.returned = flash.returned + 1
      /\ flash.returned \in Nat /\ flash.quits \in Nat /\ flash.runs # 0
  <2>1. flash'.runs = flash.runs /\ flash'.quits = flash.quits /\ flash'.returned = flash.returned + 1
    BY <1>3 DEF FlashState
  <2>2. flash.returned \in Nat /\ flash.quits \in Nat
    BY FlashIs
  <2> QED
    BY <2>1, <2>2
<1>5. \A i \in Syncs : sync[i].state = "none"
  BY DEF FlashAlone
<1>6. WaitsStay /\ CallsStay /\ RunsStay /\ SyncReturnsAfterAnswer' /\ \A i \in Syncs : ~Waits(i)'
  BY <1>3, <1>4, <1>5 DEF WaitsStay, CallsStay, RunsStay, SyncReturnsAfterAnswer, Waits
<1>7. FramesInTurn'
  BY <1>2, <1>6, FramesPop DEF WaitsStay
<1>8. WaitersInTurn'
  BY <1>6, NobodyWaits
<1>9. RequestsAreCalls'
  <2>1. RequestsIn(stack[Loop])'
    BY <1>2, <1>6, RequestsPop
  <2>2. (\A u \in Queued : Requests(u.work))' /\ (\A i \in Syncs : sync[i].state = "none" => ~sync[i].asked)'
    BY <1>3 DEF RequestsAreCalls, Requests
  <2> QED
    BY <2>1, <2>2 DEF RequestsAreCalls
<1>10. FlashAlone'
  BY <1>3, <1>4 DEF FlashAlone
<1>11. QuitsHaveReasons'
  BY <1>4 DEF QuitsHaveReasons
<1>12. FlashQuitsAreCounted'
  <2>1. PICK Q : Q = Quits
    OBVIOUS
  <2>2. IsFiniteSet(Q) /\ flash.returned + Cardinality(Q) <= flash.quits
    BY <2>1 DEF FlashQuitsAreCounted
  <2>3. IsFiniteSet(Q \ {t}) /\ Cardinality(Q \ {t}) = Cardinality(Q) - 1
    BY <2>1, <2>2, FS_RemoveElement
  <2>4. Cardinality(Q) \in Nat
    BY <2>2, FS_CardinalityType
  <2>5. flash'.returned + Cardinality(Q \ {t}) <= flash'.quits
    BY <1>4, <2>2, <2>3, <2>4
  <2> QED
    BY <2>1, <2>3, <2>5 DEF FlashQuitsAreCounted
<1> QED
  BY <1>6, <1>7, <1>8, <1>9, <1>10, <1>11, <1>12 DEF TurnInv

(* The kinds of runs, and what can make each of them return. *)
LEMMA TurnLeave ==
  ASSUME LoopInv, TurnInv, NEW q, NEW f, Leaves(q, f), LeftFrame, UNCHANGED <<quitter, quits>>,
         Queued' \subseteq Queued,
         \/ Quits' \subseteq Quits /\ (f.teardown \/ "ML_EXIT_ON_EMPTY" \in f.flags)
         \/ \E t \in Quits : Quits' = Quits \ {t} /\ (t.depth = 0 \/ t.depth >= f.depth)
  PROVE  TurnInv'
<1> USE TurnIs
<1>1. f \in LoopFrameType /\ stack[Loop] # <<>> /\ f = stack[Loop][Len(stack[Loop])]
  BY DEF Leaves
<1>2. FrameInTurn(Len(stack[Loop]), f)
  BY <1>1, TopInTurn
<1>3. Quits' \subseteq Quits
  OBVIOUS
<1>4. CASE Len(stack[Loop]) = 1 /\ f.call = NoWait
  BY <1>3, <1>4, TurnLeaveOutermost
<1>5. CASE ~f.teardown /\ "ML_EXIT_ON_EMPTY" \notin f.flags
  <2>1. PICK t \in Quits : Quits' = Quits \ {t} /\ (t.depth = 0 \/ t.depth >= f.depth)
    BY <1>5
  <2>2. CASE \E i \in Syncs : f.call = SyncWaiter(i) /\ Waits(i) /\ sync[i].depth = f.depth
    BY <2>1, <2>2, TurnLeaveSync
  <2>3. CASE f.call.fn = "flash" /\ flash.runs > 0
    BY <2>1, <2>3, TurnLeaveFlash
  <2> QED
    BY <1>2, <1>4, <2>2, <2>3 DEF FrameInTurn
<1>6. CASE ~(Len(stack[Loop]) = 1 /\ f.call = NoWait)
  <2>1. ~f.teardown /\ "ML_EXIT_ON_EMPTY" \notin f.flags
    BY <1>2, <1>6 DEF FrameInTurn
  <2> QED
    BY <1>5, <2>1
<1> QED
  BY <1>4, <1>6

LEMMA TurnLoopStep ==
  ASSUME LoopInv, StampsDiffer, TurnInv, LoopStep
  PROVE  TurnInv'
<1> USE TurnIs
<1>1. UNCHANGED <<quitter, quits>>
  BY LoopTakes
<1>2. CASE /\ RunTask(Loop, now) /\ Takes(DueTask(Loop)) /\ ~DueTask(Loop).terminate
           /\ UNCHANGED <<sync, flash>>
  BY <1>1, <1>2, TurnRunTask
<1>3. CASE /\ Takes(DueTask(Loop)) /\ DueTask(Loop).terminate
           /\ QuitNested(Loop, now) /\ LeftFrame /\ Leaves(Tree \ {DueTask(Loop)}, Top(Loop))
  <2>1. PICK t : t = DueTask(Loop) /\ Takes(t) /\ t.terminate
    BY <1>3
  <2>2. Quits' = Quits \ {t} /\ t \in Quits /\ Queued' \subseteq Queued
    BY <2>1, QuitsAre DEF Takes
  <2>3. PICK f : f = Top(Loop) /\ Leaves(Tree \ {t}, f)
    BY <1>3, <2>1
  <2>4. t \in Appropriate(Loop)
    <3>1. Appropriate(Loop) # {} /\ Appropriate(Loop) \in SUBSET Task
      BY <1>3, LoopInvIs, QueueIs DEF QuitNested, Due, Appropriate
    <3> QED
      BY <2>1, <3>1, FirstIs DEF DueTask
  <2>5. t.depth = 0 \/ t.depth >= f.depth
    BY <2>3, <2>4 DEF Appropriate
  <2> QED
    BY <1>1, <1>3, <2>2, <2>3, <2>5, TurnLeave
<1>4. CASE /\ Takes(DueTask(Loop)) /\ DueTask(Loop).terminate
           /\ QuitOutermost(Loop, now) /\ UNCHANGED <<sync, flash>>
  BY <1>1, <1>4, TurnQuitOutermost
<1>5. CASE Holds /\ ExitOnEmpty(Loop) /\ LeftFrame /\ Leaves(Tree, Top(Loop))
  <2>1. Queued' \subseteq Queued /\ Quits' \subseteq Quits
    BY <1>5, QuitsAre DEF Holds
  <2>2. Top(Loop).teardown \/ "ML_EXIT_ON_EMPTY" \in Top(Loop).flags
    BY <1>5 DEF ExitOnEmpty
  <2>3. PICK f : f = Top(Loop) /\ Leaves(Tree, f)
    BY <1>5
  <2> QED
    BY <1>1, <1>5, <2>1, <2>2, <2>3, TurnLeave
<1>6. CASE Holds /\ FlagsStay /\ UNCHANGED <<sync, flash, stack>>
  <2>1. Queued' = Queued /\ Quits' = Quits /\ FlashAlone'
    BY <1>1, <1>6, QuitsAre DEF Holds, FlashAlone
  <2>2. PICK t : t.work.fn # "request" /\ t = QuitTask(0, 0, FALSE, NoWork)
    BY TasksAreTyped DEF QuitTask, Work
  <2> QED
    BY <1>1, <1>6, <2>1, <2>2, TurnQuiet DEF FlagsStay
<1> QED
  BY <1>2, <1>3, <1>4, <1>5, <1>6, LoopTakes

LEMMA TurnNext ==
  ASSUME UniqueStamps = TRUE, AnyQuit = FALSE, MixFlash = FALSE, LoopInv, KeptInv, TurnInv, [Next]_vars
  PROVE  TurnInv'
<1> USE TurnIs
<1>1. StampsDiffer
  BY DEF KeptInv
<1>2. PICK e : e.work.fn # "request" /\ e = QuitTask(0, 0, FALSE, NoWork)
  BY NoWorkIs DEF QuitTask
<1>3. CASE Tick \/ ReadDepth \/ UNCHANGED vars
  <2>1. UNCHANGED <<ml, stack, sync, flash, quits>>
    BY <1>3 DEF Tick, ReadDepth, vars
  <2>2. Queued' = Queued /\ Quits' = Quits
    BY <2>1 DEF Queued, Quits
  <2>3. FlashAlone'
    <3>1. CASE UNCHANGED quitter
      BY <2>1, <3>1 DEF FlashAlone
    <3>2. CASE ReadDepth
      <4>1. quitter' = 1 /\ ~(flash.runs > 0)
        BY <3>2 DEF ReadDepth
      <4> QED
        BY <2>1, <4>1 DEF FlashAlone
    <3> QED
      BY <1>3, <3>1, <3>2 DEF Tick, vars
  <2> QED
    BY <1>2, <2>1, <2>2, <2>3, TurnQuiet
<1>4. ASSUME NEW i \in Tasks, NEW delay \in Delays, NEW depth \in {0, 1},
             ppb_message_loop_post_work(i, delay, depth)
      PROVE  TurnInv'
  <2>1. PICK t : t = WorkTask(now + delay, depth, Work("work", i))
    OBVIOUS
  <2>2. (Holds \/ Posts(t)) /\ FlagsStay /\ ~t.terminate /\ t.work = Work("work", i)
    BY <1>1, <1>4, <2>1, WorkPosts
  <2>3. UNCHANGED <<stack, sync, flash, quits, quitter>>
    BY <1>4 DEF ppb_message_loop_post_work
  <2>4. Queued' \subseteq Queued \cup {t} /\ Quits' = Quits
    BY <2>2, QuitsAre DEF Holds, Posts
  <2>5. t.work.fn # "request"
    BY <2>2 DEF Work
  <2>6. FlashAlone'
    BY <2>3 DEF FlashAlone
  <2> QED
    BY <2>2, <2>3, <2>4, <2>5, <2>6, TurnQuiet DEF FlagsStay
<1>5. CASE WorkReturns \/ RequestReturns
  <2>1. /\ InCallback(Loop) /\ Returns /\ UNCHANGED <<ml, flash, quitter, quits>>
        /\ \/ UNCHANGED sync
           \/ Top(Loop).work.fn = "request" /\ sync' = [sync EXCEPT ![Top(Loop).work.id].asked = TRUE]
    BY <1>5 DEF WorkReturns, InWork, RequestReturns
  <2> QED
    BY <2>1, TurnReturn
<1> QED
  BY <1>1, <1>3, <1>4, <1>5, TurnPostQuit, TurnAnswer, TurnCall, TurnRun, TurnFlashRun, TurnFlashQuit,
     TurnLoopStep DEF Next, ThreadStep

LEMMA TurnInit ==
  ASSUME Init PROVE LoopInv /\ KeptInv /\ TurnInv
<1>1. LoopInv /\ KeptInv
  BY InvInit, KeptInit
<1>2. Queued = {} /\ Quits = {} /\ stack[Loop] = <<>>
  BY TheLoop DEF Init, NewLoop, Queued, Quits
<1>3. \A i \in Syncs : sync[i].state = "none" /\ ~sync[i].asked
  BY DEF Init
<1>4. flash.runs = 0 /\ flash.quits = 0 /\ flash.returned = 0 /\ ~flash.running /\ quitter = -1
  BY DEF Init
<1>5. LoopsOf(<<>>) = {} /\ 1 .. Len(<<>>) = {}
  BY DEF LoopsOf
<1>6. FramesInTurn /\ WaitersInTurn
  BY <1>2, <1>3, <1>5 DEF FramesInTurn, InTurn, WaitersInTurn, Waiting, Waits
<1>7. RequestsAreCalls
  BY <1>2, <1>3, <1>5 DEF RequestsAreCalls, RequestsIn
<1>8. FlashAlone /\ QuitsHaveReasons /\ FlashQuitsAreCounted /\ SyncReturnsAfterAnswer
  BY <1>2, <1>3, <1>4 DEF FlashAlone, QuitsHaveReasons, FlashQuitsAreCounted, SyncReturnsAfterAnswer
<1> QED
  BY <1>1, <1>6, <1>7, <1>8 DEF TurnInv

-----------------------------------------------------------------------------
(* What a step does to the order of the tasks in the queues. *)

AheadKept == \A t, u \in Queued' : t \in Queued /\ u \in Queued /\ Ahead(t, u) => Ahead(t, u)'
TreeKept == \A t \in Queued' : t \in Tree => t \in Tree'
NewIsLast == \A x : Posts(x) => \A t \in Queued : Ahead(t, x)'
OrderKept == AheadKept /\ TreeKept /\ NewIsLast

LEMMA AsyncIs ==
  ASSUME QueueTypes
  PROVE  /\ Async \in Seq(Task) /\ Len(Async) \in Nat /\ DOMAIN Async = 1 .. Len(Async)
         /\ Tree \in SUBSET Task /\ Queued = Tree \cup {Async[i] : i \in DOMAIN Async}
         /\ Queued' = Tree' \cup {Async'[i] : i \in DOMAIN Async'}
<1>1. Async \in Seq(Task) /\ Tree \in SUBSET Task
  BY QueueIs DEF Async, Tree
<1>2. Len(Async) \in Nat /\ DOMAIN Async = 1 .. Len(Async)
  BY <1>1, LenProperties
<1> QED
  BY <1>1, <1>2 DEF Queued, Async, Tree

LEMMA OrderStays ==
  ASSUME QueueTypes, QueuesAre(Async, Tree)
  PROVE  OrderKept
<1>1. Async' = Async /\ Tree' = Tree /\ Queued' = Queued
  BY AsyncIs DEF QueuesAre, Async, Tree
<1> QED
  BY <1>1 DEF OrderKept, AheadKept, TreeKept, NewIsLast, Posts, Ahead

LEMMA OrderShrinks ==
  ASSUME QueueTypes, StampsDiffer, NEW x \in Tree, QueuesAre(Async, Tree \ {x})
  PROVE  OrderKept
<1>1. Async' = Async /\ Tree' = Tree \ {x} /\ Queued' = Queued \ {x}
  BY QueuedShrinks DEF QueuesAre, Async, Tree
<1> QED
  BY <1>1 DEF OrderKept, AheadKept, TreeKept, NewIsLast, Posts, Ahead

LEMMA OrderGrows ==
  ASSUME QueueTypes, NEW y \in Task, QueuesAre(Append(Async, y), Tree)
  PROVE  OrderKept
<1>1. PICK a, n : /\ a = Append(Async, y) /\ n \in Nat /\ n = Len(Async) /\ DOMAIN Async = 1 .. n
                  /\ DOMAIN a = 1 .. n + 1 /\ a[n + 1] = y /\ \A i \in 1 .. n : a[i] = Async[i]
  <2>1. PICK n \in Nat : n = Len(Async) /\ DOMAIN Async = 1 .. n /\ Async \in Seq(Task)
    BY AsyncIs
  <2>2. PICK a : a = Append(Async, y)
    OBVIOUS
  <2>3. a \in Seq(Task) /\ Len(a) = n + 1 /\ a[n + 1] = y /\ \A i \in 1 .. n : a[i] = Async[i]
    BY <2>1, <2>2, AppendProperties
  <2>4. DOMAIN a = 1 .. n + 1
    BY <2>3, LenProperties
  <2> QED
    BY <2>1, <2>2, <2>3, <2>4
<1>2. Async' = a /\ Tree' = Tree
  BY <1>1 DEF QueuesAre, Async, Tree
<1>3. Queued' = Queued \cup {y}
  BY <1>1, <1>2, AsyncIs
<1>4. ASSUME NEW t, NEW u, Ahead(t, u) PROVE Ahead(t, u)'
  <2>1. CASE t \in Tree
    BY <1>2, <2>1 DEF Ahead
  <2>2. CASE \E p, q \in DOMAIN Async : p < q /\ Async[p] = t /\ Async[q] = u
    <3>1. PICK p, q \in 1 .. n : p < q /\ Async[p] = t /\ Async[q] = u
      BY <1>1, <2>2
    <3>2. p \in DOMAIN Async' /\ q \in DOMAIN Async' /\ Async'[p] = t /\ Async'[q] = u
      BY <1>1, <1>2, <3>1
    <3> QED
      BY <3>1, <3>2 DEF Ahead
  <2> QED
    BY <1>4, <2>1, <2>2 DEF Ahead
<1>5. ASSUME NEW t \in Queued PROVE Ahead(t, y)'
  <2>1. CASE t \in Tree
    BY <1>2, <2>1 DEF Ahead
  <2>2. CASE \E p \in DOMAIN Async : Async[p] = t
    <3>1. PICK p \in 1 .. n : Async[p] = t
      BY <1>1, <2>2
    <3>2. p \in DOMAIN Async' /\ n + 1 \in DOMAIN Async' /\ Async'[p] = t /\ Async'[n + 1] = y /\ p < n + 1
      BY <1>1, <1>2, <3>1
    <3> QED
      BY <3>2 DEF Ahead
  <2> QED
    BY <2>1, <2>2, AsyncIs
<1>6. \A x : Posts(x) => x = y
  BY <1>3 DEF Posts
<1>7. NewIsLast
  BY <1>5, <1>6 DEF NewIsLast
<1>8. AheadKept /\ TreeKept
  BY <1>2, <1>4 DEF AheadKept, TreeKept
<1> QED
  BY <1>7, <1>8 DEF OrderKept

LEMMA OrderMoves ==
  ASSUME QueueTypes, StampsDiffer, Async # <<>>, QueuesAre(Tail(Async), g_tree_insert(Tree, Head(Async)))
  PROVE  OrderKept
<1>1. PICK a, n : /\ a = Tail(Async) /\ n \in Nat /\ DOMAIN Async = 1 .. n + 1 /\ DOMAIN a = 1 .. n
                  /\ Head(Async) = Async[1] /\ \A i \in 1 .. n : a[i] = Async[i + 1]
  <2>1. /\ DOMAIN Async = 1 .. Len(Async) /\ Len(Async) \in Nat \ {0}
        /\ DOMAIN Tail(Async) = 1 .. Len(Async) - 1 /\ Head(Async) = Async[1]
        /\ \A i \in DOMAIN Tail(Async) : Tail(Async)[i] = Async[i + 1]
    BY AsyncIs, HeadTailProperties, LenProperties, EmptySeq
  <2>2. PICK m \in Nat \ {0} : m = Len(Async)
    BY <2>1
  <2>3. PICK n \in Nat : n = m - 1 /\ m = n + 1
    <3>1. m - 1 \in Nat /\ m = (m - 1) + 1
      OBVIOUS
    <3> QED
      BY <3>1
  <2> QED
    BY <2>1, <2>2, <2>3
<1>2. Tree' = Tree \cup {Async[1]}
  <2>1. 1 \in DOMAIN Async
    BY <1>1
  <2>2. g_tree_insert(Tree, Async[1]) = Tree \cup {Async[1]}
    BY <2>1 DEF g_tree_insert, StampsDiffer
  <2> QED
    BY <1>1, <2>2 DEF QueuesAre, Async, Tree
<1>3. Async' = a
  BY <1>1 DEF QueuesAre, Async
<1>4. Queued' = Queued
  BY QueuedMoves
<1>5. ASSUME NEW t, NEW u, Ahead(t, u) PROVE Ahead(t, u)'
  <2>1. CASE t \in Tree
    BY <1>2, <2>1 DEF Ahead
  <2>2. CASE \E p, q \in DOMAIN Async : p < q /\ Async[p] = t /\ Async[q] = u
    <3>1. PICK p, q \in 1 .. n + 1 : p < q /\ Async[p] = t /\ Async[q] = u
      BY <1>1, <2>2
    <3>2. CASE p = 1
      BY <1>2, <3>1, <3>2 DEF Ahead
    <3>3. CASE p # 1
      <4>1. PICK i, j \in 1 .. n : i < j /\ p = i + 1 /\ q = j + 1
        <5>1. p - 1 \in 1 .. n /\ q - 1 \in 1 .. n /\ p - 1 < q - 1 /\ p = (p - 1) + 1 /\ q = (q - 1) + 1
          BY <1>1, <3>1, <3>3
        <5> QED
          BY <5>1
      <4>2. i \in DOMAIN Async' /\ j \in DOMAIN Async' /\ Async'[i] = t /\ Async'[j] = u
        BY <1>1, <1>3, <3>1, <4>1
      <4> QED
        BY <4>1, <4>2 DEF Ahead
    <3> QED
      BY <3>2, <3>3
  <2> QED
    BY <1>5, <2>1, <2>2 DEF Ahead
<1>6. NewIsLast
  BY <1>4 DEF NewIsLast, Posts
<1>7. AheadKept /\ TreeKept
  BY <1>2, <1>5 DEF AheadKept, TreeKept
<1> QED
  BY <1>6, <1>7 DEF OrderKept

(* Entering a run leaves the queues as they are. *)
LEMMA RunQueues ==
  ASSUME LoopInv, ppb_message_loop_run \/ ppb_flash_message_loop_run
  PROVE  QueuesAre(Async, Tree)
<1> USE LoopInvIs
<1>1. PICK flags, w : Enter(ml, flags, w) /\ flags \in SUBSET Flags /\ w \in Waiters
  <2>1. /\ {"ML_NESTED"} \in SUBSET Flags /\ {"ML_INCREASE_DEPTH"} \in SUBSET Flags /\ NoWait \in Waiters
        /\ [fn |-> "flash", id |-> flash.runs + 1] \in Waiters
    BY TasksAreTyped, FlashIs DEF Flags, ClientTypes
  <2> QED
    BY <2>1 DEF ppb_message_loop_run, ppb_flash_message_loop_run
<1>2. PICK f : EntersFrom(ml, flags, w, f)
  BY <1>1, EnterIs DEF QueueTypes
<1> QED
  BY <1>2 DEF EntersFrom, QueuesAre, Async, Tree

LEMMA QuitIsTask ==
  ASSUME LoopInv, NEW depth \in Nat, NEW destroy \in BOOLEAN
  PROVE  QuitTask(now, depth, destroy, NoWork) \in Task
<1>1. PICK when \in Nat : when = now
  BY LoopInvIs
<1>2. PICK w \in WorkItems : w = NoWork
  BY TasksAreTyped
<1>3. QuitTask(when, depth, destroy, w) \in Task
  BY QuitTaskIs
<1> QED
  BY <1>1, <1>2, <1>3

(* What any step does to the queues themselves. *)
LEMMA QueueForms ==
  ASSUME LoopInv, [Next]_vars
  PROVE  \/ QueuesAre(Async, Tree)
         \/ \E x \in Task : QueuesAre(Append(Async, x), Tree)
         \/ Async # <<>> /\ QueuesAre(Tail(Async), g_tree_insert(Tree, Head(Async)))
         \/ \E x \in Tree : QueuesAre(Async, Tree \ {x})
<1> USE LoopInvIs
<1>1. ASSUME UNCHANGED ml PROVE QueuesAre(Async, Tree)
  BY <1>1 DEF QueuesAre, Async, Tree
<1>2. ASSUME NEW x \in Task, UNCHANGED stack,
             \/ ml' = ppb_message_loop_post_work_with_result(ml, Loop, x)
             \/ ml' = ppb_message_loop_post_quit_depth(ml, Loop, x)
      PROVE  QueuesAre(Async, Tree) \/ QueuesAre(Append(Async, x), Tree)
  BY <1>1, <1>2, PostIs, PostedIs
<1>3. ASSUME NEW depth \in Nat, NEW destroy \in BOOLEAN, UNCHANGED stack,
             ml' = ppb_message_loop_post_quit_depth(ml, Loop, QuitTask(now, depth, destroy, NoWork))
      PROVE  QueuesAre(Async, Tree) \/ \E x \in Task : QueuesAre(Append(Async, x), Tree)
  <2>1. PICK x : x \in Task /\ x = QuitTask(now, depth, destroy, NoWork)
    BY QuitIsTask
  <2> QED
    BY <1>2, <1>3, <2>1
<1>4. CASE \E destroy \in BOOLEAN : ppb_message_loop_post_quit(destroy)
  <2>1. quitter \in Nat
    BY <1>4 DEF ppb_message_loop_post_quit, CountsInv
  <2> QED
    BY <1>3, <1>4, <2>1 DEF ppb_message_loop_post_quit
<1>5. ASSUME NEW i \in Syncs, AnswerSync(i)
      PROVE  QueuesAre(Async, Tree) \/ \E x \in Task : QueuesAre(Append(Async, x), Tree)
  <2>1. sync[i].depth \in Nat
    BY DEF ClientTypes, SyncState
  <2> QED
    BY <1>3, <1>5, <2>1 DEF AnswerSync
<1>6. CASE ppb_flash_message_loop_quit
  <2>1. flash.depth \in Nat
    BY FlashIs DEF ClientTypes
  <2> QED
    BY <1>3, <1>6, <2>1 DEF ppb_flash_message_loop_quit
<1>7. ASSUME NEW i \in Tasks, NEW delay \in Delays, NEW depth \in {0, 1},
             ppb_message_loop_post_work(i, delay, depth)
      PROVE  QueuesAre(Async, Tree) \/ \E x \in Task : QueuesAre(Append(Async, x), Tree)
  <2>1. i \in Nat /\ now + delay \in Nat /\ depth \in Nat
    BY DEF Tasks
  <2>2. PICK x \in Task : x = WorkTask(now + delay, depth, Work("work", i))
    BY <2>1, TasksAreTyped
  <2> QED
    BY <1>2, <1>7, <2>2 DEF ppb_message_loop_post_work
<1>8. ASSUME NEW i \in Syncs, CallSync(i)
      PROVE  QueuesAre(Async, Tree) \/ \E x \in Task : QueuesAre(Append(Async, x), Tree)
  <2>1. i \in Nat /\ ml[Loop].depth + 1 \in Nat
    BY QueueIs DEF Syncs
  <2>2. PICK x \in Task : x = WorkTask(now, ml[Loop].depth + 1, Work("request", i))
    BY <2>1, TasksAreTyped
  <2>3. PICK m, flags, w : /\ m = ppb_message_loop_post_work_with_result(ml, Loop, x) /\ Enter(m, flags, w)
                           /\ flags \in SUBSET Flags /\ w \in Waiters
    <3>1. {"ML_NESTED", "ML_INCREASE_DEPTH"} \in SUBSET Flags /\ [fn |-> "sync", id |-> i] \in Waiters
      BY <2>1, TasksAreTyped DEF Flags
    <3> QED
      BY <1>8, <2>2, <3>1 DEF CallSync
  <2>4. /\ m \in [Loops -> LoopState] /\ m[Loop].int_q = Tree
        /\ m[Loop].async_q = Async \/ m[Loop].async_q = Append(Async, x)
    BY <2>3, RequestedIs
  <2>5. PICK f : EntersFrom(m, flags, w, f)
    BY <2>3, <2>4, EnterIs
  <2> QED
    BY <2>4, <2>5 DEF EntersFrom
<1>9. CASE ppb_message_loop_run \/ ppb_flash_message_loop_run
  BY <1>9, RunQueues
<1>10. CASE LoopStep
  <2>1. CASE RunTask(Loop, now)
    BY <2>1, RunTaskIs
  <2>2. CASE Leaves(Tree \ {DueTask(Loop)}, Top(Loop)) /\ DueTask(Loop) \in Tree
    BY <2>2 DEF Leaves
  <2>3. CASE QuitOutermost(Loop, now)
    BY <2>3, QuitOutermostIs
  <2>4. CASE Leaves(Tree, Top(Loop))
    BY <2>4 DEF Leaves
  <2>5. CASE MoveToTree(Loop) /\ ml[Loop].async_q # <<>> /\ UNCHANGED stack
    BY <2>5, MoveIs DEF Async
  <2> QED
    BY <1>10, <2>1, <2>2, <2>3, <2>4, <2>5, StepKinds
<1>11. CASE Tick \/ ReadDepth \/ WorkReturns \/ RequestReturns \/ UNCHANGED vars
  BY <1>1, <1>11 DEF Tick, ReadDepth, WorkReturns, RequestReturns, vars
<1> QED
  BY <1>4, <1>5, <1>6, <1>7, <1>8, <1>9, <1>10, <1>11 DEF Next, ThreadStep

LEMMA OrderStep ==
  ASSUME LoopInv, KeptInv, [Next]_vars
  PROVE  OrderKept
<1>1. QueueTypes /\ StampsDiffer
  BY LoopInvIs DEF KeptInv
<1> QED
  BY <1>1, QueueForms, OrderStays, OrderGrows, OrderMoves, OrderShrinks

-----------------------------------------------------------------------------
(* OrderInv is inductive. *)

TasksKept ==
  \A i \in Tasks :
    task'[i].delay = task[i].delay /\ (task'[i].state = "none" <=> task[i].state = "none")

NoNewWork == Queued' \subseteq Queued \/ \E x : Posts(x) /\ x.work.fn # "work"

LEMMA TasksRan ==
  ASSUME ClientTypes, NEW w, w.fn = "work" /\ w.id \in Tasks => task[w.id].state # "none", task' = Ran(w)
  PROVE  TasksKept
<1>1. ASSUME NEW i \in Tasks
      PROVE  task'[i].delay = task[i].delay /\ (task'[i].state = "none" <=> task[i].state = "none")
  <2>1. task[i] \in TaskState /\ task \in [Tasks -> TaskState]
    BY DEF ClientTypes
  <2>2. CASE task'[i] = task[i]
    BY <2>2
  <2>3. CASE w.fn = "work" /\ w.id = i
    <3>1. task'[i] = [task[i] EXCEPT !.state = "ran"]
      BY <2>1, <2>3 DEF Ran
    <3>2. task'[i].delay = task[i].delay /\ task'[i].state = "ran"
      BY <2>1, <3>1 DEF TaskState
    <3> QED
      BY <2>3, <3>2
  <2>4. CASE ~(w.fn = "work" /\ w.id = i)
    <3>1. task'[i] = task[i]
      BY <2>1, <2>4 DEF Ran
    <3> QED
      BY <3>1
  <2> QED
    BY <2>3, <2>4
<1> QED
  BY <1>1 DEF TasksKept

LEMMA QueuedTyped ==
  ASSUME QueueTypes
  PROVE  \A t \in Queued : t \in Task
<1>1. ASSUME NEW i \in DOMAIN Async PROVE Async[i] \in Task
  BY AsyncIs, ElementOfSeq
<1> QED
  BY <1>1, AsyncIs

LEMMA WorkIs ==
  \A i, j : /\ Work("work", i).fn = "work" /\ Work("work", i).id = i
            /\ (Work("work", i) = Work("work", j) => i = j)
<1>1. \A i : Work("work", i).fn = "work" /\ Work("work", i).id = i
  BY DEF Work
<1> QED
  BY <1>1

LEMMA NoNewWorkIs ==
  ASSUME NoNewWork, NEW t \in Queued', NEW i, t.work = Work("work", i)
  PROVE  t \in Queued
BY WorkIs DEF NoNewWork, Posts

LEMMA OrderHeld ==
  ASSUME LoopInv, OrderInv, OrderKept, TasksKept, NoNewWork, now' \in Nat, now' >= now
  PROVE  OrderInv'
<1>1. ASSUME NEW t \in Queued', NEW i \in Tasks, t.work = Work("work", i)
      PROVE  t \in Queued
  BY <1>1, NoNewWorkIs
<1>2. ASSUME NEW t \in Queued', NEW i \in Tasks, Undelayed(t, i)'
      PROVE  t \in Queued /\ Undelayed(t, i)
  BY <1>1, <1>2 DEF Undelayed, TasksKept
<1>3. InPostOrder'
  <2> SUFFICES ASSUME NEW t \in Queued', NEW u \in Queued', NEW i \in Tasks, NEW j \in Tasks,
                      Undelayed(t, i)', Undelayed(u, j)', i < j
               PROVE  t.when < u.when /\ Ahead(t, u)'
    BY DEF InPostOrder
  <2>1. t \in Queued /\ u \in Queued /\ Undelayed(t, i) /\ Undelayed(u, j)
    BY <1>2
  <2>2. t.when < u.when /\ Ahead(t, u)
    BY <2>1 DEF OrderInv, InPostOrder
  <2> QED
    BY <2>1, <2>2 DEF OrderKept, AheadKept
<1>4. StampsPast'
  <2> SUFFICES ASSUME NEW t \in Queued', NEW i \in Tasks, Undelayed(t, i)'
               PROVE  t.when <= now'
    BY DEF StampsPast
  <2>1. t \in Queued /\ Undelayed(t, i)
    BY <1>2
  <2>2. t.when <= now
    BY <2>1 DEF OrderInv, StampsPast
  <2>3. t.when \in Nat /\ now \in Nat
    BY <2>1, LoopInvIs, QueuedTyped DEF Task, TaskType
  <2> QED
    BY <2>2, <2>3
<1>5. PostedInTurn'
  <2>1. ASSUME NEW i \in Tasks, NEW j \in Tasks, i < j, task'[j].state # "none" PROVE task'[i].state # "none"
    BY <2>1 DEF OrderInv, PostedInTurn, TasksKept
  <2>2. ASSUME NEW t \in Queued', NEW i \in Tasks, t.work = Work("work", i) PROVE task'[i].state # "none"
    BY <1>1, <2>2 DEF OrderInv, PostedInTurn, TasksKept
  <2> QED
    BY <2>1, <2>2 DEF PostedInTurn
<1> QED
  BY <1>3, <1>4, <1>5 DEF OrderInv

LEMMA OrderWork ==
  ASSUME UniqueStamps = TRUE, LoopInv, KeptInv, OrderInv, OrderKept, NEW i \in Tasks, NEW delay \in Delays,
         NEW depth \in {0, 1}, ppb_message_loop_post_work(i, delay, depth)
  PROVE  OrderInv'
<1> USE LoopInvIs
<1>1. PICK x : x = WorkTask(now + delay, depth, Work("work", i))
  OBVIOUS
<1>2. (Holds \/ Posts(x)) /\ x.work = Work("work", i)
  BY <1>1, WorkPosts DEF KeptInv
<1>3. x.when = now + delay /\ now' = now /\ \A u \in Queued : u.when # now + delay
  BY <1>1 DEF WorkTask, ppb_message_loop_post_work, StampFree
<1>4. /\ task[i].state = "none" /\ \A j \in Tasks : j < i => task[j].state # "none"
      /\ task'[i].state # "none" /\ task'[i].delay = delay
      /\ \A j \in Tasks : j # i => task'[j] = task[j]
  <2>1. task \in [Tasks -> TaskState]
    BY DEF ClientTypes
  <2>2. /\ task[i].state = "none" /\ \A j \in Tasks : j < i => task[j].state # "none"
        /\ task' = [task EXCEPT ![i] = [state |-> IF AcceptsWork(ml, Loop) THEN "queued" ELSE "refused",
                                        delay |-> delay]]
    BY DEF ppb_message_loop_post_work
  <2> QED
    BY <2>1, <2>2
<1>5. \A j \in Tasks : j > i => task[j].state = "none"
  BY <1>4 DEF OrderInv, PostedInTurn, Tasks
<1>6. ASSUME NEW t \in Queued, NEW j \in Tasks, t.work = Work("work", j)
      PROVE  j < i /\ j # i /\ task'[j] = task[j]
  <2>1. task[j].state # "none"
    BY <1>6 DEF OrderInv, PostedInTurn
  <2> QED
    BY <1>4, <1>5, <2>1 DEF Tasks
<1>7. \A t \in Queued' : t \in Queued \/ t = x
  BY <1>2 DEF Holds, Posts
<1>8. ASSUME NEW t \in Queued, NEW j \in Tasks, Undelayed(t, j)' PROVE Undelayed(t, j) /\ j < i
  <2>1. t.work = Work("work", j) /\ task'[j].delay = 0
    BY <1>8 DEF Undelayed
  <2> QED
    BY <1>6, <2>1 DEF Undelayed
<1>9. ASSUME NEW j \in Tasks, Undelayed(x, j)' PROVE j = i /\ delay = 0
  <2>1. x.work = Work("work", j) /\ task'[j].delay = 0
    BY <1>9 DEF Undelayed
  <2>2. j = i
    BY <1>2, <2>1, WorkIs
  <2> QED
    BY <1>4, <2>1, <2>2
<1>10. \A t \in Queued : t.when \in Nat
  BY QueuedTyped DEF Task, TaskType
<1>11. InPostOrder'
  <2> SUFFICES ASSUME NEW t \in Queued', NEW u \in Queued', NEW a \in Tasks, NEW b \in Tasks,
                      Undelayed(t, a)', Undelayed(u, b)', a < b
               PROVE  t.when < u.when /\ Ahead(t, u)'
    BY DEF InPostOrder
  <2>1. CASE t \in Queued /\ u \in Queued
    <3>1. Undelayed(t, a) /\ Undelayed(u, b)
      BY <1>8, <2>1
    <3>2. t.when < u.when /\ Ahead(t, u)
      BY <2>1, <3>1 DEF OrderInv, InPostOrder
    <3> QED
      BY <2>1, <3>2 DEF OrderKept, AheadKept
  <2>2. CASE t \in Queued /\ u \notin Queued
    <3>1. u = x /\ Posts(x)
      BY <1>2, <1>7, <2>2 DEF Holds
    <3>2. Undelayed(t, a) /\ delay = 0
      BY <1>8, <1>9, <2>2, <3>1
    <3>3. t.when <= now /\ t.when # now + delay /\ t.when \in Nat
      BY <1>3, <1>10, <2>2, <3>2 DEF OrderInv, StampsPast
    <3>4. Ahead(t, x)'
      BY <2>2, <3>1 DEF OrderKept, NewIsLast
    <3> QED
      BY <1>3, <3>1, <3>2, <3>3, <3>4
  <2>3. CASE t \notin Queued
    <3>1. a = i /\ t = x
      BY <1>7, <1>9, <2>3
    <3>2. b = i \/ b < i
      BY <1>7, <1>8, <1>9
    <3> QED
      BY <3>1, <3>2 DEF Tasks
  <2> QED
    BY <2>1, <2>2, <2>3
<1>12. StampsPast'
  <2> SUFFICES ASSUME NEW t \in Queued', NEW j \in Tasks, Undelayed(t, j)' PROVE t.when <= now'
    BY DEF StampsPast
  <2>1. CASE t \in Queued
    BY <1>3, <1>8, <2>1 DEF OrderInv, StampsPast
  <2>2. CASE t = x
    <3>1. delay = 0
      BY <1>9, <2>2
    <3> QED
      BY <1>3, <2>2, <3>1
  <2> QED
    BY <1>7, <2>1, <2>2
<1>13. PostedInTurn'
  <2>1. ASSUME NEW a \in Tasks, NEW b \in Tasks, a < b, task'[b].state # "none" PROVE task'[a].state # "none"
    <3>1. b <= i
      BY <1>4, <1>5, <2>1 DEF Tasks
    <3>2. a < i /\ a # i
      BY <2>1, <3>1 DEF Tasks
    <3> QED
      BY <1>4, <3>2
  <2>2. ASSUME NEW t \in Queued', NEW j \in Tasks, t.work = Work("work", j) PROVE task'[j].state # "none"
    <3>1. CASE t \in Queued
      BY <1>6, <2>2, <3>1 DEF OrderInv, PostedInTurn
    <3>2. CASE t = x
      BY <1>2, <1>4, <2>2, <3>2, WorkIs
    <3> QED
      BY <1>7, <3>1, <3>2
  <2> QED
    BY <2>1, <2>2 DEF PostedInTurn
<1> QED
  BY <1>11, <1>12, <1>13 DEF OrderInv

(* A quit task that a step posts counts the work items posted before it. *)
NewQuits == \A u \in Quits' : u \in Quits \/ u.work = NoWork

(* A step posts a work item, or leaves the work items as they are. *)
LEMMA ClientKinds ==
  ASSUME UniqueStamps = TRUE, LoopInv, KeptInv, OrderInv, [Next]_vars
  PROVE  \/ NoNewWork /\ NewQuits /\ TasksKept /\ now' \in Nat /\ now' >= now
         \/ \E i \in Tasks, delay \in Delays, depth \in {0, 1} : ppb_message_loop_post_work(i, delay, depth)
<1> USE LoopInvIs
<1>1. StampsDiffer /\ flash \in FlashState
  BY DEF KeptInv, ClientTypes
<1>2. ASSUME UNCHANGED task PROVE TasksKept
  BY <1>2 DEF TasksKept
<1>3. ASSUME NEW x, Holds \/ Posts(x), x.work.fn # "work", x.terminate => x.work = NoWork
      PROVE  NoNewWork /\ NewQuits
  BY <1>3 DEF NoNewWork, NewQuits, Quits, Holds, Posts
<1>4. ASSUME NEW depth \in Nat, NEW destroy \in BOOLEAN, StampFree(now), UNCHANGED stack,
             ml' = ppb_message_loop_post_quit_depth(ml, Loop, QuitTask(now, depth, destroy, NoWork))
      PROVE  NoNewWork /\ NewQuits
  <2>1. PICK t : t = QuitTask(now, depth, destroy, NoWork)
    OBVIOUS
  <2>2. (Holds \/ Posts(t)) /\ t.work = NoWork
    BY <1>1, <1>4, <2>1, QuitPosts
  <2>3. t.work.fn # "work"
    BY <2>2, NoWorkIs
  <2> QED
    BY <1>3, <2>2, <2>3
<1>5. CASE \E destroy \in BOOLEAN : ppb_message_loop_post_quit(destroy)
  <2>1. quitter \in Nat
    BY <1>5 DEF ppb_message_loop_post_quit, CountsInv
  <2>2. NoNewWork /\ NewQuits
    BY <1>4, <1>5, <2>1 DEF ppb_message_loop_post_quit
  <2>3. UNCHANGED <<task, now>>
    BY <1>5 DEF ppb_message_loop_post_quit
  <2> QED
    BY <1>2, <2>2, <2>3
<1>6. ASSUME NEW i \in Syncs, AnswerSync(i) PROVE NoNewWork /\ NewQuits /\ UNCHANGED <<task, now>>
  <2>1. sync[i].depth \in Nat
    BY DEF ClientTypes, SyncState
  <2> QED
    BY <1>4, <1>6, <2>1 DEF AnswerSync
<1>7. ASSUME NEW i \in Syncs, CallSync(i) PROVE NoNewWork /\ NewQuits /\ UNCHANGED <<task, now>>
  <2>1. PICK t : t = WorkTask(now, ml[Loop].depth + 1, Work("request", i))
    OBVIOUS
  <2>2. (Holds \/ Posts(t)) /\ t.work = Work("request", i) /\ ~t.terminate
    BY <1>1, <1>7, <2>1, CallPosts
  <2>3. t.work.fn # "work" /\ UNCHANGED <<task, now>>
    BY <1>7, <2>2 DEF Work, CallSync
  <2> QED
    BY <1>3, <2>2, <2>3
<1>8. CASE ppb_flash_message_loop_quit
  <2>1. flash.depth \in Nat
    BY <1>1, FlashIs
  <2>2. NoNewWork /\ NewQuits /\ UNCHANGED <<task, now>>
    BY <1>4, <1>8, <2>1 DEF ppb_flash_message_loop_quit
  <2> QED
    BY <1>2, <2>2
<1>9. CASE ppb_message_loop_run \/ ppb_flash_message_loop_run
  <2>1. NoNewWork /\ NewQuits
    BY <1>1, <1>9, RunQueues, QueuedStays DEF NoNewWork, NewQuits, Quits
  <2>2. UNCHANGED <<task, now>>
    BY <1>9 DEF ppb_message_loop_run, ppb_flash_message_loop_run
  <2> QED
    BY <1>2, <2>1, <2>2
<1>10. CASE LoopStep
  <2>1. UNCHANGED now
    BY <1>1, <1>10, LoopTakes
  <2>2. NoNewWork /\ NewQuits
    BY <1>1, <1>10, LoopTakes DEF NoNewWork, NewQuits, Quits, Takes, Holds
  <2>3. ASSUME Takes(DueTask(Loop)), task' = Ran(DueTask(Loop).work) PROVE TasksKept
    <3>1. PICK t : t = DueTask(Loop) /\ Takes(t) /\ task' = Ran(t.work)
      BY <2>3
    <3>2. t \in Queued /\ t \in Task
      BY <3>1 DEF Takes
    <3>3. ASSUME t.work.fn = "work", t.work.id \in Tasks PROVE task[t.work.id].state # "none"
      <4>1. t.work = Work("work", t.work.id)
        BY <3>2, <3>3 DEF Task, TaskType, WorkItems, Work
      <4> QED
        BY <3>2, <3>3, <4>1 DEF OrderInv, PostedInTurn
    <3> QED
      BY <3>1, <3>3, TasksRan
  <2>4. TasksKept
    BY <1>1, <1>2, <1>10, <2>3, LoopTakes
  <2> QED
    BY <2>1, <2>2, <2>4
<1>11. CASE Tick \/ ReadDepth \/ WorkReturns \/ RequestReturns \/ UNCHANGED vars
  <2>1. UNCHANGED <<ml, task>> /\ (now' = now \/ now' = now + 1)
    BY <1>11 DEF Tick, ReadDepth, WorkReturns, RequestReturns, vars
  <2>2. NoNewWork /\ NewQuits /\ now' \in Nat /\ now' >= now
    BY <2>1 DEF Queued, NoNewWork, NewQuits, Quits
  <2> QED
    BY <1>2, <2>1, <2>2
<1> QED
  BY <1>2, <1>5, <1>6, <1>7, <1>8, <1>9, <1>10, <1>11 DEF Next, ThreadStep

LEMMA OrderNext ==
  ASSUME UniqueStamps = TRUE, LoopInv, KeptInv, OrderInv, [Next]_vars
  PROVE  OrderInv'
BY OrderStep, ClientKinds, OrderHeld, OrderWork

(* A task that is due is the first of those that the run may take. *)
LEMMA FirstIsLeast ==
  ASSUME NEW q \in SUBSET Task, q # {}
  PROVE  \A u \in q : First(q).when <= u.when
<1>1. \A t \in q : t.when \in Nat
  BY DEF Task, TaskType
<1> DEFINE N == {t.when : t \in q}
<1>2. PICK n \in N : \A m \in N : n <= m
  BY <1>1, LeastOf, ZenonT(60)
<1>3. PICK t \in q : t.when = n
  OBVIOUS
<1>4. \A u \in q : t.when <= u.when
  BY <1>2, <1>3
<1> HIDE DEF N
<1> QED
  BY <1>3, <1>4 DEF First

(* What is not behind a task of the tree is in the tree. *)
LEMMA AheadInTree ==
  ASSUME StampsDiffer, NEW t, NEW u \in Tree, Ahead(t, u)
  PROVE  t \in Tree
BY DEF Ahead, StampsDiffer

OrderedRun(i, j) ==
  ( /\ i < j /\ task[i].delay = 0 /\ task[j].delay = 0
    /\ task[i].state = "queued" /\ task[j].state = "queued"
    /\ \A t \in Queued : t.work \in {Work("work", i), Work("work", j)} => t.depth = 0 )
  => task'[j].state = "queued" \/ task'[i].state = "ran"

LEMMA RunsInOrder ==
  ASSUME LoopInv, KeptInv, OrderInv, [Next]_vars, NEW i \in Tasks, NEW j \in Tasks
  PROVE  OrderedRun(i, j)
<1> USE LoopInvIs
<1> SUFFICES ASSUME i < j, task[i].delay = 0, task[j].delay = 0,
                    task[i].state = "queued", task[j].state = "queued",
                    \A t \in Queued : t.work = Work("work", i) => t.depth = 0,
                    task'[j].state # "queued"
             PROVE  FALSE
  BY DEF OrderedRun
<1>1. task \in [Tasks -> TaskState]
  BY DEF ClientTypes
<1>2. PICK t \in Queued : t.work = Work("work", i)
  BY DEF KeptInv, AcceptedWorkIsKept, PendingTask
<1>3. PICK w : task' = Ran(w) /\ RunTask(Loop, now) /\ w = DueTask(Loop).work
  <2>1. ASSUME UNCHANGED task PROVE FALSE
    BY <2>1
  <2>2. ASSUME NEW k \in Tasks, NEW delay \in Delays, NEW depth \in {0, 1},
               ppb_message_loop_post_work(k, delay, depth)
        PROVE  FALSE
    <3>1. task[k].state = "none" /\ task'[j] = IF j = k THEN task'[k] ELSE task[j]
      BY <1>1, <2>2 DEF ppb_message_loop_post_work
    <3> QED
      BY <3>1
  <2>3. LoopStep
    BY <2>1, <2>2 DEF Next, ThreadStep, Tick, ReadDepth, ppb_message_loop_post_quit, AnswerSync, CallSync,
                      ppb_message_loop_run, ppb_flash_message_loop_run, ppb_flash_message_loop_quit,
                      WorkReturns, RequestReturns, vars
  <2> QED
    BY <2>1, <2>3, StepKinds
<1>4. PICK u : u = DueTask(Loop) /\ u \in Tree /\ u \in Task /\ w = u.work /\ w \in WorkItems
  BY <1>3, RunTaskIs DEF Task, TaskType
<1>5. w = Work("work", j)
  <2>1. w.fn = "work" /\ w.id = j
    BY <1>1, <1>3 DEF Ran
  <2> QED
    BY <1>4, <2>1 DEF WorkItems, Work
<1>6. u \in Queued /\ Undelayed(t, i) /\ Undelayed(u, j)
  BY <1>2, <1>4, <1>5 DEF Undelayed, Queued, Tree
<1>7. t.when < u.when /\ Ahead(t, u)
  BY <1>2, <1>6 DEF OrderInv, InPostOrder
<1>8. t \in Tree /\ t \in Appropriate(Loop)
  <2>1. t \in Tree
    BY <1>4, <1>7, AheadInTree DEF KeptInv
  <2> QED
    BY <1>2, <2>1 DEF Appropriate, Tree
<1>9. Appropriate(Loop) \in SUBSET Task
  BY QueueIs DEF Appropriate
<1>10. u.when <= t.when
  BY <1>4, <1>8, <1>9, FirstIsLeast DEF DueTask
<1>11. u.when \in Nat /\ t.when \in Nat
  BY <1>4, <1>8, <1>9 DEF Task, TaskType
<1> QED
  BY <1>7, <1>10, <1>11

-----------------------------------------------------------------------------
(* EarlyInv is inductive: the tasks, ...                                   *)

LEMMA EarlyHeld ==
  ASSUME LoopInv, OrderInv, EarlyInv, OrderKept, TasksKept, NoNewWork, NewQuits
  PROVE  /\ EarlyFirst' /\ (told' = told => QuitsCount' /\ (EarlyInTree => EarlyInTree'))
         /\ \A u \in Quits : told' = u.work.id => QuitsCount'
<1>1. ASSUME NEW i \in Tasks, i <= NoWork.id PROVE task[i].state # "none"
  <2>1. ASSUME NEW k \in Tasks, i < k, task[k].state # "none" PROVE task[i].state # "none"
    BY <2>1 DEF OrderInv, PostedInTurn
  <2> QED
    BY <1>1, <2>1, NoWorkIs
<1>2. ASSUME NEW t \in Queued', NEW i \in Tasks, NEW n, Early(t, i, n)
      PROVE  t \in Queued
  BY <1>2, NoNewWorkIs DEF Early
<1>3. ASSUME NEW t \in Queued', NEW u \in Queued', NEW i \in Tasks, Early(t, i, u.work.id), u.terminate
      PROVE  Ahead(t, u)'
  <2>1. t \in Queued
    BY <1>2, <1>3
  <2>2. CASE u \in Queued
    BY <1>3, <2>1, <2>2 DEF EarlyInv, EarlyFirst, OrderKept, AheadKept
  <2>3. CASE u \notin Queued
    <3>1. Posts(u)
      BY <2>3 DEF NoNewWork, Posts
    <3> QED
      BY <2>1, <3>1 DEF OrderKept, NewIsLast
  <2> QED
    BY <2>2, <2>3
<1>4. EarlyFirst'
  BY <1>3 DEF EarlyFirst, Early
<1>5. ASSUME NEW u \in Quits', NEW i \in Tasks, i <= u.work.id PROVE task'[i].state # "none"
  <2>1. task[i].state # "none"
    BY <1>1, <1>5 DEF EarlyInv, QuitsCount, NewQuits
  <2> QED
    BY <2>1 DEF TasksKept
<1>6. ASSUME \A i \in Tasks : i <= told' => task[i].state # "none" PROVE QuitsCount'
  BY <1>5, <1>6 DEF QuitsCount, TasksKept
<1>7. ASSUME told' = told PROVE QuitsCount' /\ (EarlyInTree => EarlyInTree')
  <2>1. QuitsCount'
    BY <1>6, <1>7 DEF EarlyInv, QuitsCount
  <2>2. ASSUME EarlyInTree, NEW t \in Queued', NEW i \in Tasks, Early(t, i, told) PROVE t \in Tree'
    BY <1>2, <2>2 DEF EarlyInTree, OrderKept, TreeKept
  <2>3. EarlyInTree => EarlyInTree'
    BY <1>7, <2>2 DEF EarlyInTree, Early
  <2> QED
    BY <2>1, <2>3
<1>8. ASSUME NEW u \in Quits, told' = u.work.id PROVE QuitsCount'
  BY <1>6, <1>8 DEF EarlyInv, QuitsCount
<1> QED
  BY <1>4, <1>7, <1>8

(* New work is behind every quit task, and none of them counts it. *)
LEMMA EarlyWork ==
  ASSUME UniqueStamps = TRUE, LoopInv, KeptInv, OrderInv, OrderKept, EarlyInv,
         NEW i \in Tasks, NEW delay \in Delays, NEW depth \in {0, 1}, ppb_message_loop_post_work(i, delay, depth)
  PROVE  told' = told /\ EarlyFirst' /\ QuitsCount' /\ (EarlyInTree => EarlyInTree')
<1> USE LoopInvIs
<1>1. PICK x : x = WorkTask(now + delay, depth, Work("work", i))
  OBVIOUS
<1>2. (Holds \/ Posts(x)) /\ x.work = Work("work", i) /\ ~x.terminate
  BY <1>1, WorkPosts DEF KeptInv
<1>3. Quits' = Quits /\ told' = told
  BY <1>2, QuitsAre DEF ppb_message_loop_post_work
<1>4. /\ task[i].state = "none"
      /\ \A j \in Tasks : task[j].state # "none" => task'[j].state # "none"
  <2>1. task \in [Tasks -> TaskState]
    BY DEF ClientTypes
  <2>2. /\ task[i].state = "none"
        /\ task' = [task EXCEPT ![i] = [state |-> IF AcceptsWork(ml, Loop) THEN "queued" ELSE "refused",
                                        delay |-> delay]]
    BY DEF ppb_message_loop_post_work
  <2> QED
    BY <2>1, <2>2
<1>5. \A t \in Queued' : t \in Queued \/ t = x
  BY <1>2 DEF Holds, Posts
<1>6. ASSUME NEW j \in Tasks, NEW n, Early(x, j, n), \A k \in Tasks : k <= n => task[k].state # "none"
      PROVE  FALSE
  <2>1. j = i
    BY <1>2, <1>6, WorkIs DEF Early
  <2> QED
    BY <1>4, <1>6, <2>1 DEF Early
<1>7. ASSUME NEW t \in Queued', NEW u \in Queued', NEW j \in Tasks, Early(t, j, u.work.id), u.terminate
      PROVE  Ahead(t, u)'
  <2>1. u \in Quits
    BY <1>2, <1>5, <1>7 DEF Quits
  <2>2. t \in Queued
    <3>1. \A k \in Tasks : k <= u.work.id => task[k].state # "none"
      BY <2>1 DEF EarlyInv, QuitsCount
    <3> QED
      BY <1>5, <1>6, <1>7, <3>1
  <2>3. Ahead(t, u)
    BY <1>7, <2>1, <2>2 DEF EarlyInv, EarlyFirst, Quits
  <2> QED
    BY <2>1, <2>2, <2>3 DEF OrderKept, AheadKept, Quits
<1>8. EarlyFirst'
  BY <1>7 DEF EarlyFirst, Early
<1>9. QuitsCount'
  BY <1>3, <1>4 DEF EarlyInv, QuitsCount
<1>10. ASSUME EarlyInTree, NEW t \in Queued', NEW j \in Tasks, Early(t, j, told) PROVE t \in Tree'
  <2>1. \A k \in Tasks : k <= told => task[k].state # "none"
    BY DEF EarlyInv, QuitsCount
  <2>2. t \in Queued
    BY <1>5, <1>6, <1>10, <2>1
  <2> QED
    BY <1>10, <2>2 DEF EarlyInTree, OrderKept, TreeKept
<1> QED
  BY <1>3, <1>8, <1>9, <1>10 DEF EarlyInTree, Early

LEMMA EarlyQueues ==
  ASSUME UniqueStamps = TRUE, LoopInv, KeptInv, OrderInv, EarlyInv, [Next]_vars
  PROVE  /\ EarlyFirst' /\ (told' = told => QuitsCount' /\ (EarlyInTree => EarlyInTree'))
         /\ \A u \in Quits : told' = u.work.id => QuitsCount'
BY OrderStep, ClientKinds, EarlyHeld, EarlyWork

(* What was posted before the quit task that is taken is in the tree. *)
LEMMA EarlyTaken ==
  ASSUME LoopInv, KeptInv, EarlyInv, OrderKept, NoNewWork, NEW u \in Quits, u \in Tree, told' = u.work.id
  PROVE  EarlyInTree'
<1>1. ASSUME NEW t \in Queued', NEW i \in Tasks, Early(t, i, u.work.id) PROVE t \in Tree'
  <2>1. t \in Queued
    BY <1>1, NoNewWorkIs DEF Early
  <2>2. Ahead(t, u)
    BY <1>1, <2>1 DEF EarlyInv, EarlyFirst, Quits
  <2>3. t \in Tree
    BY <2>2, AheadInTree DEF KeptInv
  <2> QED
    BY <2>1, <2>3 DEF OrderKept, TreeKept
<1> QED
  BY <1>1 DEF EarlyInTree, Early

(* ... and the frames, when one is pushed and one is popped.               *)
LEMMA TornPush ==
  ASSUME NEW s, NEW f, NEW z, NEW n, Pushed(s, f, z, n), TornDown(s), EarlyInTree => EarlyInTree',
         f.kind = "loop" => ~f.teardown
  PROVE  TornDown(z)'
<1>1. /\ z[n + 1] = f /\ \A i \in 1 .. n : z[i] = s[i]
      /\ LoopsOf(z) = IF f.kind = "loop" THEN LoopsOf(s) \cup {n + 1} ELSE LoopsOf(s)
      /\ n \in Nat /\ LoopsOf(s) \subseteq 1 .. n
  BY DEF Pushed
<1>2. ASSUME NEW k \in LoopsOf(z), z[k].teardown PROVE k \in LoopsOf(s) /\ s[k].teardown
  BY <1>1, <1>2
<1> QED
  BY <1>2 DEF TornDown

LEMMA TornPop ==
  ASSUME NEW s, NEW z, NEW n, Popped(s, z, n), TornDown(s), EarlyInTree => EarlyInTree'
  PROVE  TornDown(z)'
<1>1. /\ n \in Nat \ {0} /\ \A i \in 1 .. n - 1 : z[i] = s[i]
      /\ LoopsOf(z) = LoopsOf(s) \ {n} /\ LoopsOf(s) \subseteq 1 .. n
  BY DEF Popped
<1>2. ASSUME NEW k \in LoopsOf(z), z[k].teardown PROVE k \in LoopsOf(s) /\ s[k].teardown
  BY <1>1, <1>2
<1> QED
  BY <1>2 DEF TornDown

(* The outermost run is the only frame of its thread that runs the loop,   *)
(* and nobody waits in it.                                                 *)
LEMMA OutermostIs ==
  ASSUME LoopInv, TurnInv, NEW f \in LoopFrameType, NEW s, s = stack[Loop], s # <<>>, f = s[Len(s)], ~IsNested(f)
  PROVE  Len(s) = 1 /\ LoopsOf(s) = {1} /\ f = s[1] /\ f.call = NoWait
<1> USE TurnIs
<1>1. Len(s) \in LoopsOf(s) /\ FrameInTurn(Len(s), f) /\ f.depth = ml[Loop].depth
  BY TopInTurn
<1>2. Len(s) = 1 /\ f.call = NoWait
  <2>1. ~(f.depth > 1) /\ "ML_INCREASE_DEPTH" \in f.flags
    BY DEF IsNested
  <2>2. ASSUME NEW i \in Syncs, Waits(i), sync[i].depth = f.depth PROVE FALSE
    BY <2>1, <2>2 DEF WaitersInTurn, Waiting
  <2> QED
    BY <1>1, <2>1, <2>2 DEF FrameInTurn
<1>3. LoopsOf(s) = {1}
  BY <1>1, <1>2 DEF LoopsOf
<1> QED
  BY <1>2, <1>3

LEMMA OneFrame ==
  ASSUME NEW s \in Seq(Frame), Len(s) = 1
  PROVE  s # <<>>
<1>1. s = <<>> <=> Len(s) = 0
  BY EmptySeq
<1> QED
  BY <1>1

(* The frame of the outermost run, when it is the only one. *)
LEMMA OutermostFrame ==
  ASSUME LoopInv, TurnInv, Len(stack[Loop]) = 1
  PROVE  \E s \in Seq(Frame) :
           /\ s = stack[Loop] /\ s # <<>> /\ Len(s) = 1 /\ 1 \in LoopsOf(s) /\ s[1].kind = "loop"
           /\ Top(Loop) = s[1] /\ Top(Loop) \in LoopFrameType /\ Top(Loop).call = NoWait
           /\ Top(Loop).flags = {"ML_INCREASE_DEPTH"} /\ ~IsNested(Top(Loop))
           /\ ~(Top(Loop).depth > 1) /\ Top(Loop).depth \in Nat
<1> USE TurnIs
<1>1. PICK s \in Seq(Frame) : s = stack[Loop] /\ s # <<>> /\ Len(s) = 1 /\ InTurn(s)
  <2>1. stack[Loop] \in Seq(Frame)
    BY LoopInvIs, QueueIs
  <2>2. PICK s : s = stack[Loop] /\ s \in Seq(Frame) /\ Len(s) = 1
    BY <2>1
  <2>3. s # <<>>
    BY <2>2, OneFrame
  <2> QED
    BY <2>2, <2>3, InTurnNow
<1>2. 1 \in LoopsOf(s) /\ FrameInTurn(1, s[1]) /\ s[1].kind = "loop" /\ Top(Loop) = s[1]
  BY <1>1 DEF InTurn, LoopsOf, Top
<1>3. s[1] \in LoopFrameType
  <2>1. s[1] \in Frame
    BY <1>1, ElementOfSeq
  <2> QED
    BY <1>2, <2>1 DEF Frame, FrameType, LoopFrameType
<1>4. s[1].flags = {"ML_INCREASE_DEPTH"} /\ s[1].call = NoWait
  BY <1>2 DEF FrameInTurn
<1>5. ~(s[1].depth > 1) /\ s[1].depth \in Nat
  <2>1. s[1].depth = Cardinality(UpTo(s, 1))
    BY <1>1, <1>2, LoopInvIs DEF NestingInv, Nested
  <2>2. UpTo(s, 1) \in SUBSET {1}
    BY <1>1 DEF UpTo, DeepOf, LoopsOf
  <2>3. IsFiniteSet({1}) /\ Cardinality({1}) = 1
    BY FS_Singleton
  <2>4. IsFiniteSet(UpTo(s, 1)) /\ Cardinality(UpTo(s, 1)) <= 1
    BY <2>2, <2>3, FS_Subset
  <2>5. Cardinality(UpTo(s, 1)) \in Nat
    BY <2>4, FS_CardinalityType
  <2> QED
    BY <2>1, <2>4, <2>5
<1> QED
  BY <1>1, <1>2, <1>3, <1>4, <1>5 DEF IsNested

-----------------------------------------------------------------------------
(* EndsInv is inductive. *)

LEMMA TornIs ==
  \A s : Torn(s) \in {0, 1}
BY DEF Torn

LEMMA EndsAre ==
  ASSUME LoopInv
  PROVE  Ends \in Nat /\ Given \in Nat /\ exits \in Nat /\ quits \in Nat /\ flash \in FlashState
         /\ flash.returned \in Nat /\ flash.quits \in Nat /\ flash.runs \in Nat
<1>1. exits \in Nat /\ quits \in Nat /\ flash \in FlashState
  BY LoopInvIs DEF ClientTypes
<1>2. flash.returned \in Nat /\ flash.quits \in Nat /\ flash.runs \in Nat
  BY <1>1, FlashIs
<1>3. Torn(stack[Loop]) \in {0, 1}
  BY TornIs
<1> QED
  BY <1>1, <1>2, <1>3 DEF Ends, Given

(* A step gives a quit task, uses one up, or does neither. *)
LEMMA EndsKept ==
  ASSUME LoopInv, LoopInv', EndsInv, Owed' \subseteq Owed, Ends' = Ends, Given' = Given
  PROVE  EndsInv'
<1>1. IsFiniteSet(Owed') /\ Cardinality(Owed') <= Cardinality(Owed)
  BY FS_Subset DEF EndsInv
<1>2. Cardinality(Owed') \in Nat /\ Cardinality(Owed) \in Nat
  BY <1>1, FS_CardinalityType DEF EndsInv
<1>3. Ends \in Nat /\ Given \in Nat /\ Ends + Cardinality(Owed) <= Given
  BY EndsAre DEF EndsInv
<1>4. Ends' + Cardinality(Owed') <= Given'
  BY <1>1, <1>2, <1>3
<1> QED
  BY <1>1, <1>4 DEF EndsInv

LEMMA EndsGiven ==
  ASSUME LoopInv, LoopInv', EndsInv, NEW t, Owed' \subseteq Owed \cup {t}, Ends' = Ends, Given' = Given + 1
  PROVE  EndsInv'
<1>1. PICK Q : Q = Owed /\ IsFiniteSet(Q)
  BY DEF EndsInv
<1>2. /\ IsFiniteSet(Q \cup {t})
      /\ Cardinality(Q \cup {t}) = IF t \in Q THEN Cardinality(Q) ELSE Cardinality(Q) + 1
  BY <1>1, FS_AddElement
<1>3. IsFiniteSet(Owed') /\ Cardinality(Owed') <= Cardinality(Q \cup {t})
  BY <1>1, <1>2, FS_Subset
<1>4. Cardinality(Owed') \in Nat /\ Cardinality(Q) \in Nat /\ Cardinality(Q \cup {t}) \in Nat
  BY <1>1, <1>2, <1>3, FS_CardinalityType
<1>5. Ends \in Nat /\ Given \in Nat /\ Ends + Cardinality(Q) <= Given
  BY <1>1, EndsAre DEF EndsInv
<1>6. Ends' + Cardinality(Owed') <= Given'
  BY <1>2, <1>3, <1>4, <1>5
<1> QED
  BY <1>3, <1>6 DEF EndsInv

LEMMA EndsUsed ==
  ASSUME LoopInv, LoopInv', EndsInv, NEW u \in Owed, Owed' \subseteq Owed \ {u}, Ends' \in {Ends, Ends + 1},
         Given' = Given
  PROVE  EndsInv'
<1>1. PICK Q : Q = Owed /\ IsFiniteSet(Q) /\ u \in Q
  BY DEF EndsInv
<1>2. IsFiniteSet(Q \ {u}) /\ Cardinality(Q \ {u}) = Cardinality(Q) - 1
  BY <1>1, FS_RemoveElement
<1>3. IsFiniteSet(Owed') /\ Cardinality(Owed') <= Cardinality(Q \ {u})
  BY <1>1, <1>2, FS_Subset
<1>4. Cardinality(Owed') \in Nat /\ Cardinality(Q) \in Nat /\ Cardinality(Q \ {u}) \in Nat
  BY <1>1, <1>2, <1>3, FS_CardinalityType
<1>5. Ends \in Nat /\ Given \in Nat /\ Ends + Cardinality(Q) <= Given
  BY <1>1, EndsAre DEF EndsInv
<1>6. Ends' + Cardinality(Owed') <= Given'
  BY <1>2, <1>3, <1>4, <1>5
<1> QED
  BY <1>3, <1>6 DEF EndsInv

(* The first frame goes into teardown in one place only. *)
LEMMA TornStays ==
  ASSUME QueueTypes,
         \/ stack'[Loop] = stack[Loop]
         \/ \E f \in Frame : stack'[Loop] = Append(stack[Loop], f) /\ (stack[Loop] = <<>> => ~f.teardown)
         \/ /\ stack[Loop] # <<>> /\ Len(stack[Loop]) # 1
            /\ stack'[Loop] = SubSeq(stack[Loop], 1, Len(stack[Loop]) - 1)
  PROVE  Torn(stack'[Loop]) = Torn(stack[Loop])
<1>1. PICK s, z : s \in Seq(Frame) /\ s = stack[Loop] /\ z = stack'[Loop]
  BY QueueIs
<1>2. CASE \E f \in Frame : z = Append(s, f) /\ (s = <<>> => ~f.teardown)
  <2>1. PICK f \in Frame : z = Append(s, f) /\ (s = <<>> => ~f.teardown)
    BY <1>2
  <2>2. PICK n : Pushed(s, f, z, n)
    BY <1>1, <2>1, LoopsPush
  <2>3. n \in Nat /\ z[n + 1] = f /\ (s = <<>> <=> n = 0) /\ z # <<>> /\ \A i \in 1 .. n : z[i] = s[i]
    BY <2>2 DEF Pushed
  <2>4. CASE n = 0
    <3>1. z[1] = f /\ ~f.teardown /\ s = <<>>
      BY <2>1, <2>3, <2>4
    <3> QED
      BY <1>1, <2>3, <3>1 DEF Torn
  <2>5. CASE n # 0
    <3>1. z[1] = s[1] /\ s # <<>>
      BY <2>3, <2>5
    <3> QED
      BY <1>1, <2>3, <3>1 DEF Torn
  <2> QED
    BY <2>4, <2>5
<1>3. CASE s # <<>> /\ Len(s) # 1 /\ z = SubSeq(s, 1, Len(s) - 1)
  <2>1. PICK n : Popped(s, z, n)
    BY <1>1, <1>3, LoopsPop
  <2>2. n = Len(s) /\ n \in Nat \ {0} /\ \A i \in 1 .. n - 1 : z[i] = s[i]
    BY <2>1 DEF Popped
  <2>3. z[1] = s[1] /\ z # <<>>
    BY <1>1, <1>3, <2>2, BelowIs
  <2> QED
    BY <1>1, <1>3, <2>3 DEF Torn
<1> QED
  BY <1>1, <1>2, <1>3

(* A step that neither posts nor takes a quit task and ends no run. *)
LEMMA EndsQuiet ==
  ASSUME LoopInv, LoopInv', EndsInv, UNCHANGED <<quits, flash, exits>>, Quits' \subseteq Quits,
         Torn(stack'[Loop]) = Torn(stack[Loop])
  PROVE  EndsInv'
<1>1. Owed' \subseteq Owed
  BY DEF Owed
<1>2. Ends' = Ends /\ Given' = Given
  BY DEF Ends, Given, Torn
<1> QED
  BY <1>1, <1>2, EndsKept

(* Each step that posts a quit task gives one, ...                         *)
LEMMA EndsPostQuit ==
  ASSUME UniqueStamps = TRUE, LoopInv, LoopInv', KeptInv, TurnInv, EndsInv,
         \/ \E destroy \in BOOLEAN : ppb_message_loop_post_quit(destroy)
         \/ ppb_flash_message_loop_quit
  PROVE  EndsInv'
<1> USE EndsAre
<1>1. PICK depth, destroy :
        /\ depth \in Nat /\ destroy \in BOOLEAN /\ StampFree(now) /\ UNCHANGED stack
        /\ ml' = ppb_message_loop_post_quit_depth(ml, Loop, QuitTask(now, depth, destroy, NoWork))
        /\ Given' = Given + 1 /\ UNCHANGED exits /\ flash'.runs = flash.runs /\ flash'.returned = flash.returned
  <2>1. ASSUME NEW destroy \in BOOLEAN, ppb_message_loop_post_quit(destroy)
        PROVE  /\ quitter \in Nat /\ StampFree(now) /\ UNCHANGED stack
               /\ ml' = ppb_message_loop_post_quit_depth(ml, Loop, QuitTask(now, quitter, destroy, NoWork))
               /\ Given' = Given + 1 /\ UNCHANGED exits /\ flash'.runs = flash.runs
               /\ flash'.returned = flash.returned
    <3>1. quitter \in Nat
      BY <2>1, LoopInvIs DEF ppb_message_loop_post_quit, CountsInv
    <3>2. quits' = quits + 1 /\ flash' = flash
      BY <2>1 DEF ppb_message_loop_post_quit
    <3>3. Given' = Given + 1
      BY <3>2 DEF Given
    <3> QED
      BY <2>1, <3>1, <3>2, <3>3 DEF ppb_message_loop_post_quit
  <2>2. ASSUME ppb_flash_message_loop_quit
        PROVE  /\ flash.depth \in Nat /\ StampFree(now) /\ UNCHANGED stack
               /\ ml' = ppb_message_loop_post_quit_depth(ml, Loop, QuitTask(now, flash.depth, FALSE, NoWork))
               /\ Given' = Given + 1 /\ UNCHANGED exits /\ flash'.runs = flash.runs
               /\ flash'.returned = flash.returned
    <3>1. flash.depth \in Nat
      BY FlashIs
    <3>2. quits' = quits /\ flash' = [flash EXCEPT !.quits = flash.quits + 1]
      BY <2>2 DEF ppb_flash_message_loop_quit
    <3>3. flash'.quits = flash.quits + 1 /\ flash'.runs = flash.runs /\ flash'.returned = flash.returned
      BY <3>2 DEF FlashState
    <3>4. Given' = Given + 1
      BY <3>2, <3>3 DEF Given
    <3> QED
      BY <2>2, <3>1, <3>3, <3>4 DEF ppb_flash_message_loop_quit
  <2> QED
    BY <2>1, <2>2
<1>2. PICK t : (Holds \/ Posts(t)) /\ t.terminate
  BY <1>1, QuitPosts DEF KeptInv
<1>3. Quits' \subseteq Quits \cup {t}
  BY <1>2, QuitsAre
<1>4. Owed' \subseteq Owed \cup {t}
  BY <1>1, <1>3 DEF Owed
<1>5. Ends' = Ends
  BY <1>1 DEF Ends, Torn
<1> QED
  BY <1>1, <1>4, <1>5, EndsGiven

(* ... but for the answer to a synchronous call, which can end no other    *)
(* run.                                                                    *)
LEMMA EndsAnswer ==
  ASSUME UniqueStamps = TRUE, LoopInv, LoopInv', KeptInv, TurnInv, EndsInv, NEW i \in Syncs, AnswerSync(i)
  PROVE  EndsInv'
<1> USE TurnIs
<1>1. /\ UNCHANGED <<stack, flash, quits, exits>> /\ StampFree(now) /\ sync[i].asked /\ ~sync[i].answered
      /\ ml' = ppb_message_loop_post_quit_depth(
                 ml, Loop, QuitTask(now, sync[i].depth, FALSE, NoWork))
  BY DEF AnswerSync
<1>2. Waits(i) /\ flash.runs = 0
  <2>1. sync[i].state # "none" /\ sync[i].state # "returned"
    BY <1>1 DEF RequestsAreCalls, SyncReturnsAfterAnswer
  <2>2. sync[i].state = "waiting"
    BY <2>1 DEF SyncState
  <2> QED
    BY <2>1, <2>2 DEF Waits, FlashAlone
<1>3. PICK t : (Holds \/ Posts(t)) /\ t.terminate /\ t.depth = sync[i].depth
  BY <1>1, QuitPosts DEF KeptInv
<1>4. Quits' \subseteq Quits \cup {t}
  BY <1>3, QuitsAre
<1>5. t.depth # 1
  BY <1>2, <1>3 DEF WaitersInTurn, Waiting
<1>6. Owed' \subseteq Owed
  BY <1>1, <1>2, <1>4, <1>5 DEF Owed
<1>7. Ends' = Ends /\ Given' = Given
  BY <1>1 DEF Ends, Given, Torn
<1> QED
  BY <1>6, <1>7, EndsKept

(* The first run of the Flash message loop finds no quit task queued. *)
LEMMA EndsFlashRun ==
  ASSUME MixFlash = FALSE, LoopInv, LoopInv', KeptInv, TurnInv, EndsInv, ppb_flash_message_loop_run
  PROVE  EndsInv'
<1> USE TurnIs, EndsAre
<1>1. /\ UNCHANGED <<sync, quits, exits>> /\ stack[Loop] # <<>>
      /\ ~(quits > 0) /\ \A i \in Syncs : sync[i].state = "none"
      /\ flash' = [flash EXCEPT !.running = TRUE, !.depth = ml[Loop].depth + 1, !.runs = flash.runs + 1]
      /\ Enter(ml, {"ML_NESTED"}, [fn |-> "flash", id |-> flash.runs + 1])
  BY DEF ppb_flash_message_loop_run, InWork, InCallback
<1>2. flash'.quits = flash.quits /\ flash'.returned = flash.returned
  BY <1>1 DEF FlashState
<1>3. Quits' = Quits
  <2>1. StampsDiffer
    BY DEF KeptInv
  <2> QED
    BY <2>1, RunQueues, QueuedStays DEF Quits
<1>4. Owed' \subseteq Owed
  <2>1. CASE flash.runs = 0
    <3>1. Quits = {}
      BY <1>1, <2>1 DEF QuitsHaveReasons, Waits
    <3> QED
      BY <1>3, <3>1 DEF Owed
  <2>2. CASE flash.runs > 0
    BY <1>3, <2>2 DEF Owed
  <2> QED
    BY <2>1, <2>2
<1>5. PICK f : EntersFrom(ml, {"ML_NESTED"}, [fn |-> "flash", id |-> flash.runs + 1], f)
  <2>1. PICK n \in Nat : n = flash.runs + 1
    OBVIOUS
  <2>2. [fn |-> "flash", id |-> n] \in Waiters
    BY TasksAreTyped
  <2>3. {"ML_NESTED"} \in SUBSET Flags
    BY DEF Flags
  <2> QED
    BY <1>1, <2>1, <2>2, <2>3, EnterIs, LoopInvIs DEF QueueTypes
<1>6. f \in Frame /\ ~f.teardown /\ stack'[Loop] = Append(stack[Loop], f)
  BY <1>5, FrameTypes DEF EntersFrom
<1>7. Torn(stack'[Loop]) = Torn(stack[Loop])
  BY <1>6, TornStays, LoopInvIs
<1>8. Ends' = Ends /\ Given' = Given
  BY <1>1, <1>2, <1>7 DEF Ends, Given, Torn
<1> QED
  BY <1>4, <1>8, EndsKept

(* The outermost run takes a quit task that nobody waits for, goes into    *)
(* teardown and ends by itself.                                            *)
LEMMA EndsTeardown ==
  ASSUME LoopInv, LoopInv', KeptInv, TurnInv, EndsInv, QuitOutermost(Loop, now), Takes(DueTask(Loop)),
         DueTask(Loop).terminate, UNCHANGED <<sync, quits, flash, exits>>
  PROVE  EndsInv'
<1> USE TurnIs, EndsAre
<1>1. PICK s : s = stack[Loop] /\ Len(s) = 1 /\ LoopsOf(s) = {1} /\ s[1].call = NoWait
  BY QuitOutermostIs, LoopInvIs, OutermostIs DEF Top
<1>2. PICK u : u = DueTask(Loop) /\ u \in Quits /\ Quits' = Quits \ {u}
  BY QuitsAre DEF Takes, Quits
<1>3. \A i \in Syncs : ~Waits(i)
  <2>1. Waiting(s, ml[Loop].depth)
    BY <1>1 DEF WaitersInTurn
  <2>2. ASSUME NEW i \in Syncs, Waits(i) PROVE FALSE
    <3>1. PICK k \in LoopsOf(s) : s[k].call = SyncWaiter(i)
      BY <2>1, <2>2 DEF Waiting
    <3>2. NoWait = SyncWaiter(i)
      BY <1>1, <3>1
    <3> QED
      BY <3>2 DEF NoWait, SyncWaiter
  <2> QED
    BY <2>2
<1>4. u \in Owed
  BY <1>2, <1>3 DEF QuitsHaveReasons, Owed
<1>5. Owed' \subseteq Owed \ {u}
  BY <1>2 DEF Owed
<1>6. stack'[Loop] # <<>> /\ stack'[Loop][1].teardown = TRUE
  <2>1. Len(stack'[Loop]) = 1
    BY <1>1, QuitOutermostIs, LoopInvIs
  <2>2. stack'[Loop] # <<>>
    BY <2>1, LoopInvIs, OneFrame, TheLoop, QuitOutermostIs DEF TypesStay
  <2>3. stack'[Loop][Len(stack[Loop])].teardown = TRUE
    BY QuitOutermostIs, LoopInvIs
  <2> QED
    BY <1>1, <2>2, <2>3
<1>7. Torn(stack'[Loop]) = 1
  BY <1>6 DEF Torn
<1>8. Ends' \in {Ends, Ends + 1} /\ Given' = Given
  <2>1. Torn(stack[Loop]) \in {0, 1}
    BY TornIs
  <2>2. Ends' = exits + 1 + flash.returned
    BY <1>7 DEF Ends, Torn
  <2>3. Ends = exits + Torn(stack[Loop]) + flash.returned
    BY DEF Ends
  <2>4. Given' = Given
    BY DEF Given
  <2> QED
    BY <2>1, <2>2, <2>3, <2>4
<1> QED
  BY <1>4, <1>5, <1>8, EndsUsed

(* A nested run takes a quit task: the one of a Flash message loop has     *)
(* used it up, ...                                                         *)
LEMMA EndsNested ==
  ASSUME LoopInv, LoopInv', KeptInv, TurnInv, EndsInv, QuitNested(Loop, now), Takes(DueTask(Loop)),
         DueTask(Loop).terminate, NEW q, Leaves(q, Top(Loop)), LeftFrame, UNCHANGED quits
  PROVE  EndsInv'
<1> USE TurnIs, EndsAre
<1>1. PICK f : /\ f = Top(Loop) /\ f \in LoopFrameType /\ stack[Loop] # <<>> /\ f = stack[Loop][Len(stack[Loop])]
               /\ stack'[Loop] = SubSeq(stack[Loop], 1, Len(stack[Loop]) - 1)
  BY DEF Leaves
<1>2. PICK u : u = DueTask(Loop) /\ u \in Quits /\ Quits' = Quits \ {u}
  BY QuitsAre DEF Takes, Quits
<1>3. Len(stack[Loop]) # 1
  BY OutermostFrame DEF QuitNested
<1>4. FrameInTurn(Len(stack[Loop]), f)
  BY <1>1, TopInTurn
<1>5. Torn(stack'[Loop]) = Torn(stack[Loop]) /\ UNCHANGED exits /\ Given' = Given /\ flash'.runs = flash.runs
  <2>1. Torn(stack'[Loop]) = Torn(stack[Loop])
    BY <1>1, <1>3, TornStays, LoopInvIs
  <2>2. UNCHANGED exits
    BY <1>3 DEF LeftFrame
  <2>3. flash'.quits = flash.quits /\ flash'.runs = flash.runs
    <3>1. CASE f.call.fn = "flash"
      <4>1. flash' = [flash EXCEPT !.running = FALSE, !.returned = flash.returned + 1]
        BY <1>1, <3>1 DEF LeftFrame
      <4> QED
        BY <4>1 DEF FlashState
    <3>2. CASE f.call.fn # "flash"
      BY <1>1, <3>2 DEF LeftFrame
    <3> QED
      BY <3>1, <3>2
  <2> QED
    BY <2>1, <2>2, <2>3 DEF Given
<1>6. CASE f.call.fn = "flash" /\ flash.runs > 0
  <2>1. u \in Owed /\ Owed' \subseteq Owed \ {u}
    BY <1>2, <1>5, <1>6 DEF Owed
  <2>2. flash' = [flash EXCEPT !.running = FALSE, !.returned = flash.returned + 1]
    BY <1>1, <1>6 DEF LeftFrame
  <2>3. flash'.returned = flash.returned + 1
    BY <2>2 DEF FlashState
  <2>4. Torn(stack[Loop]) \in {0, 1}
    BY TornIs
  <2>5. Ends' \in {Ends, Ends + 1}
    <3>1. Ends = exits + Torn(stack[Loop]) + flash.returned
      BY DEF Ends
    <3>2. Ends' = exits' + Torn(stack'[Loop]) + flash'.returned
      BY DEF Ends, Torn
    <3>3. Ends' = exits + Torn(stack[Loop]) + (flash.returned + 1)
      BY <1>5, <2>3, <3>2
    <3> QED
      BY <2>4, <3>1, <3>3
  <2> QED
    BY <1>5, <2>1, <2>5, EndsUsed
<1>7. CASE \E i \in Syncs : f.call = SyncWaiter(i)
  <2>1. f.call.fn # "flash"
    BY <1>7 DEF SyncWaiter
  <2>2. UNCHANGED flash
    BY <1>1, <2>1 DEF LeftFrame
  <2>3. Owed' \subseteq Owed
    BY <1>2, <1>5 DEF Owed
  <2>4. Ends' = Ends
    BY <1>5, <2>2 DEF Ends, Torn
  <2> QED
    BY <1>5, <2>3, <2>4, EndsKept
<1> QED
  BY <1>3, <1>4, <1>6, <1>7 DEF FrameInTurn

(* ... and the outermost run that was torn down has ended.                 *)
LEMMA EndsEmpty ==
  ASSUME LoopInv, LoopInv', KeptInv, TurnInv, EndsInv, ExitOnEmpty(Loop), Holds,
         NEW q, Leaves(q, Top(Loop)), LeftFrame, UNCHANGED quits
  PROVE  EndsInv'
<1> USE TurnIs, EndsAre
<1>1. PICK f : /\ f = Top(Loop) /\ f \in LoopFrameType /\ stack[Loop] # <<>> /\ f = stack[Loop][Len(stack[Loop])]
               /\ stack'[Loop] = SubSeq(stack[Loop], 1, Len(stack[Loop]) - 1)
  BY DEF Leaves
<1>2. FrameInTurn(Len(stack[Loop]), f)
  BY <1>1, TopInTurn
<1>3. Len(stack[Loop]) = 1 /\ f.call = NoWait /\ f.teardown
  BY <1>1, <1>2 DEF ExitOnEmpty, FrameInTurn
<1>4. stack'[Loop] = <<>>
  BY <1>1, <1>3, BelowIs, LoopInvIs, QueueIs
<1>5. Torn(stack[Loop]) = 1 /\ Torn(stack'[Loop]) = 0
  BY <1>1, <1>3, <1>4 DEF Torn
<1>6. UNCHANGED flash /\ exits' = exits + 1
  <2>1. NoWait.fn = "nobody"
    BY DEF NoWait
  <2> QED
    BY <1>1, <1>3, <2>1 DEF LeftFrame
<1>7. Quits' = Quits
  BY QuitsAre
<1>8. Owed' \subseteq Owed
  BY <1>6, <1>7 DEF Owed
<1>9. Ends' = Ends /\ Given' = Given
  BY <1>5, <1>6 DEF Ends, Given, Torn
<1> QED
  BY <1>8, <1>9, EndsKept

LEMMA EndsNext ==
  ASSUME UniqueStamps = TRUE, MixFlash = FALSE, LoopInv, LoopInv', KeptInv, TurnInv, EndsInv, [Next]_vars
  PROVE  EndsInv'
<1> USE TurnIs, EndsAre
<1>1. StampsDiffer /\ QueueTypes
  BY LoopInvIs DEF KeptInv
<1>2. ASSUME UNCHANGED <<quits, flash, exits>>, Quits' = Quits, UNCHANGED stack PROVE EndsInv'
  BY <1>2, EndsQuiet
<1>3. CASE Tick \/ ReadDepth \/ UNCHANGED vars
  <2>1. UNCHANGED <<quits, flash, exits, stack, ml>>
    BY <1>3 DEF Tick, ReadDepth, vars
  <2> QED
    BY <1>2, <2>1 DEF Quits, Queued
<1>4. ASSUME NEW i \in Tasks, NEW delay \in Delays, NEW depth \in {0, 1},
             ppb_message_loop_post_work(i, delay, depth)
      PROVE  EndsInv'
  <2>1. PICK t : (Holds \/ Posts(t)) /\ ~t.terminate
    BY <1>1, <1>4, WorkPosts
  <2> QED
    BY <1>2, <1>4, <2>1, QuitsAre DEF ppb_message_loop_post_work
<1>5. ASSUME NEW i \in Syncs, CallSync(i) PROVE EndsInv'
  <2>1. PICK t, m, f : /\ (Holds \/ Posts(t)) /\ ~t.terminate
                       /\ EntersFrom(m, {"ML_NESTED", "ML_INCREASE_DEPTH"}, SyncWaiter(i), f)
    BY <1>1, <1>5, CallPosts
  <2>2. f \in Frame /\ ~f.teardown /\ stack'[Loop] = Append(stack[Loop], f)
    BY <2>1, FrameTypes DEF EntersFrom
  <2>3. UNCHANGED <<quits, flash, exits>>
    BY <1>5 DEF CallSync
  <2> QED
    BY <1>1, <2>1, <2>2, <2>3, QuitsAre, TornStays, EndsQuiet
<1>6. CASE ppb_message_loop_run
  <2>1. UNCHANGED <<quits, flash, exits>> /\ Enter(ml, {"ML_INCREASE_DEPTH"}, NoWait)
    BY <1>6 DEF ppb_message_loop_run
  <2>2. PICK f : EntersFrom(ml, {"ML_INCREASE_DEPTH"}, NoWait, f)
    <3>1. {"ML_INCREASE_DEPTH"} \in SUBSET Flags /\ NoWait \in Waiters
      BY TasksAreTyped DEF Flags
    <3> QED
      BY <1>1, <2>1, <3>1, EnterIs, LoopInvIs DEF QueueTypes
  <2>3. f \in Frame /\ ~f.teardown /\ stack'[Loop] = Append(stack[Loop], f)
    BY <2>2, FrameTypes DEF EntersFrom
  <2>4. Quits' = Quits
    BY <1>1, <1>6, RunQueues, QueuedStays DEF Quits
  <2> QED
    BY <1>1, <2>1, <2>3, <2>4, TornStays, EndsQuiet
<1>7. CASE WorkReturns \/ RequestReturns
  <2>1. InCallback(Loop) /\ Returns /\ UNCHANGED <<ml, quits, flash, exits>>
    BY <1>7 DEF WorkReturns, InWork, RequestReturns
  <2>2. /\ stack[Loop] # <<>> /\ stack[Loop][Len(stack[Loop])].kind = "cb"
        /\ stack'[Loop] = SubSeq(stack[Loop], 1, Len(stack[Loop]) - 1)
    BY <1>1, <2>1, ReturnIs
  <2>3. Len(stack[Loop]) # 1
    <3>1. ASSUME Len(stack[Loop]) = 1 PROVE FALSE
      <4>1. PICK s : s = stack[Loop] /\ s[1].kind = "loop"
        BY <3>1, OutermostFrame
      <4> QED
        BY <2>2, <3>1, <4>1
    <3> QED
      BY <3>1
  <2>4. Quits' = Quits
    BY <2>1 DEF Quits, Queued
  <2> QED
    BY <1>1, <2>1, <2>2, <2>3, <2>4, TornStays, EndsQuiet
<1>8. CASE LoopStep
  <2>1. UNCHANGED quits
    BY <1>1, <1>8, LoopTakes
  <2>2. CASE RunTask(Loop, now) /\ Takes(DueTask(Loop)) /\ ~DueTask(Loop).terminate /\ UNCHANGED <<flash, exits>>
    <3>1. PICK f : /\ f \in Frame /\ stack'[Loop] = Append(stack[Loop], f) /\ stack[Loop] # <<>>
      BY <1>1, <2>2, RunTaskIs, FrameTypes DEF Task, TaskType, RunTask, Due, InLoop
    <3>2. Quits' = Quits
      BY <2>2, QuitsAre
    <3> QED
      BY <1>1, <2>1, <2>2, <3>1, <3>2, TornStays, EndsQuiet
  <2>3. CASE /\ QuitNested(Loop, now) /\ Takes(DueTask(Loop)) /\ DueTask(Loop).terminate
             /\ LeftFrame /\ \E q : Leaves(q, Top(Loop))
    BY <2>1, <2>3, EndsNested
  <2>4. CASE /\ QuitOutermost(Loop, now) /\ Takes(DueTask(Loop)) /\ DueTask(Loop).terminate
             /\ UNCHANGED <<sync, flash, exits>>
    BY <2>1, <2>4, EndsTeardown
  <2>5. CASE Holds /\ ExitOnEmpty(Loop) /\ LeftFrame /\ \E q : Leaves(q, Top(Loop))
    BY <2>1, <2>5, EndsEmpty
  <2>6. CASE Holds /\ UNCHANGED <<flash, exits, stack>>
    BY <1>2, <2>1, <2>6, QuitsAre
  <2> QED
    BY <1>1, <1>8, <2>2, <2>3, <2>4, <2>5, <2>6, LoopTakes
<1> QED
  BY <1>3, <1>4, <1>5, <1>6, <1>7, <1>8, EndsPostQuit, EndsAnswer, EndsFlashRun DEF Next, ThreadStep

LEMMA EndsInit ==
  ASSUME Init PROVE EndsInv
<1>1. Quits = {} /\ stack[Loop] = <<>>
  BY TheLoop DEF Init, NewLoop, Queued, Quits
<1>2. exits = 0 /\ quits = 0 /\ flash.returned = 0 /\ flash.quits = 0
  BY DEF Init
<1>3. Owed = {} /\ Torn(stack[Loop]) = 0
  BY <1>1 DEF Owed, Torn
<1> QED
  BY <1>2, <1>3, FS_EmptySet DEF EndsInv, Ends, Given

(* A synchronous call returns to its caller, who then frees the memory of  *)
(* the call, only after the other thread has answered it, and              *)
(* PPB_Flash_MessageLoop.Run returns only after a Quit, which is not one   *)
(* that has ended another run or the outermost loop before.  The           *)
(* assumptions are the ones under which the code is safe: MCLoopFlashSync  *)
(* shows what happens when a Flash message loop and synchronous calls      *)
(* meet.  Calls made during teardown and repeated calls of Quit are        *)
(* covered.                                                                *)
THEOREM RunsReturnInTurnCorrect ==
  ASSUME UniqueStamps = TRUE, AnyQuit = FALSE, MixFlash = FALSE
  PROVE  Spec => []RunsReturnInTurn
<1> DEFINE Inv == LoopInv /\ KeptInv /\ TurnInv /\ EndsInv
<1>1. Init => Inv
  BY TurnInit, EndsInit
<1>2. Inv /\ [Next]_vars => Inv'
  BY InvNext, KeptNext, TurnNext, EndsNext
<1>3. Inv => RunsReturnInTurn
  <2> SUFFICES ASSUME Inv PROVE RunsReturnInTurn
    OBVIOUS
  <2>1. SyncReturnsAfterAnswer /\ flash \in FlashState
    BY TurnIs
  <2>2. flash.returned <= flash.quits
    <3>1. flash.returned \in Nat /\ flash.quits \in Nat /\ flash.runs \in Nat
      BY <2>1, FlashIs
    <3>2. CASE flash.runs = 0
      BY <3>2, TurnIs DEF FlashAlone
    <3>3. CASE flash.runs > 0
      <4>1. IsFiniteSet(Quits) /\ flash.returned + Cardinality(Quits) <= flash.quits
        BY <3>3, TurnIs DEF FlashQuitsAreCounted
      <4>2. Cardinality(Quits) \in Nat
        BY <4>1, FS_CardinalityType
      <4> QED
        BY <3>1, <4>1, <4>2
    <3> QED
      BY <3>1, <3>2, <3>3
  <2>3. exits + flash.returned <= quits + flash.quits
    <3>1. Cardinality(Owed) \in Nat /\ Torn(stack[Loop]) \in {0, 1}
      BY TornIs, FS_CardinalityType DEF EndsInv
    <3>2. exits + Torn(stack[Loop]) + flash.returned + Cardinality(Owed) <= quits + flash.quits
      BY DEF EndsInv, Ends, Given
    <3> QED
      BY <3>1, <3>2, EndsAre
  <2> QED
    BY <2>1, <2>2, <2>3 DEF RunsReturnInTurn, FlashRunReturnsAfterQuit
<1> HIDE DEF Inv
<1> QED
  BY <1>1, <1>2, <1>3, PTL DEF Spec

-----------------------------------------------------------------------------
(* What the steps do to the frames and to what the outermost run was told. *)
TornKinds ==
  \/ told' = told /\ stack'[Loop] = stack[Loop]
  \/ told' = told /\ \E f \in Frame : stack'[Loop] = Append(stack[Loop], f) /\ (f.kind = "loop" => ~f.teardown)
  \/ /\ told' = told /\ stack[Loop] # <<>>
     /\ stack'[Loop] = SubSeq(stack[Loop], 1, Len(stack[Loop]) - 1)
  \/ LoopStep /\ \E u \in Quits : u \in Tree /\ told' = u.work.id

LEMMA TornKindsAre ==
  ASSUME UniqueStamps = TRUE, LoopInv, KeptInv, TurnInv, [Next]_vars
  PROVE  TornKinds
<1> USE LoopInvIs
<1>1. StampsDiffer /\ flash.runs \in Nat
  BY FlashIs DEF KeptInv, ClientTypes
<1>2. ASSUME NEW m, NEW flags, NEW w, NEW f, EntersFrom(m, flags, w, f), told' = told PROVE TornKinds
  <2>1. f \in Frame /\ ~f.teardown /\ stack'[Loop] = Append(stack[Loop], f)
    BY <1>2, FrameTypes DEF EntersFrom
  <2> QED
    BY <1>2, <2>1 DEF TornKinds
<1>3. ASSUME NEW i \in Syncs, CallSync(i) PROVE TornKinds
  <2>1. PICK m, f : EntersFrom(m, {"ML_NESTED", "ML_INCREASE_DEPTH"}, SyncWaiter(i), f)
    BY <1>1, <1>3, CallPosts
  <2>2. told' = told
    BY <1>3 DEF CallSync
  <2> QED
    BY <1>2, <2>1, <2>2
<1>4. CASE ppb_message_loop_run \/ ppb_flash_message_loop_run
  <2>1. /\ {"ML_NESTED"} \in SUBSET Flags /\ {"ML_INCREASE_DEPTH"} \in SUBSET Flags /\ NoWait \in Waiters
        /\ [fn |-> "flash", id |-> flash.runs + 1] \in Waiters
    <3>1. PICK n \in Nat : n = flash.runs + 1
      BY <1>1
    <3>2. [fn |-> "flash", id |-> n] \in Waiters /\ NoWait \in Waiters
      BY TasksAreTyped
    <3>3. {"ML_NESTED"} \in SUBSET Flags /\ {"ML_INCREASE_DEPTH"} \in SUBSET Flags
      BY DEF Flags
    <3> QED
      BY <3>1, <3>2, <3>3
  <2>2. PICK flags, w : Enter(ml, flags, w) /\ flags \in SUBSET Flags /\ w \in Waiters /\ told' = told
    <3>1. CASE ppb_message_loop_run
      BY <2>1, <3>1 DEF ppb_message_loop_run
    <3>2. CASE ppb_flash_message_loop_run
      <4>1. told' = told /\ Enter(ml, {"ML_NESTED"}, [fn |-> "flash", id |-> flash.runs + 1])
        BY <3>2 DEF ppb_flash_message_loop_run
      <4> QED
        BY <2>1, <4>1
    <3> QED
      BY <1>4, <3>1, <3>2
  <2>3. PICK f : EntersFrom(ml, flags, w, f)
    BY <2>2, EnterIs DEF QueueTypes
  <2> QED
    BY <1>2, <2>2, <2>3
<1>5. CASE LoopStep
  <2>1. CASE RunTask(Loop, now) /\ UNCHANGED told
    <3>1. PICK f : /\ f = CallbackFrame(DueTask(Loop).work) /\ f \in Frame /\ f.kind = "cb"
                   /\ stack'[Loop] = Append(stack[Loop], f)
      BY <2>1, RunTaskIs, FrameTypes DEF Task, TaskType
    <3> QED
      BY <2>1, <3>1 DEF TornKinds
  <2>2. ASSUME DueTask(Loop) \in Tree, DueTask(Loop).terminate, told' = DueTask(Loop).work.id PROVE TornKinds
    <3>1. PICK u : u = DueTask(Loop)
      OBVIOUS
    <3>2. u \in Quits /\ u \in Tree
      BY <2>2, <3>1 DEF Quits, Queued, Tree
    <3> QED
      BY <1>5, <2>2, <3>1, <3>2 DEF TornKinds
  <2>3. CASE /\ Leaves(Tree \ {DueTask(Loop)}, Top(Loop)) /\ Told
             /\ DueTask(Loop) \in Tree /\ DueTask(Loop).terminate
    <3>1. CASE Len(stack[Loop]) = 1
      BY <2>2, <2>3, <3>1 DEF Told
    <3>2. CASE Len(stack[Loop]) # 1
      BY <2>3, <3>2 DEF Told, Leaves, TornKinds
    <3> QED
      BY <3>1, <3>2
  <2>4. CASE QuitOutermost(Loop, now) /\ Told
    <3>1. PICK s : s = stack[Loop]
      OBVIOUS
    <3>2. DueTask(Loop) \in Tree /\ DueTask(Loop).terminate /\ Len(s) = 1
      BY <2>4, <3>1, QuitOutermostIs, OutermostIs DEF Top
    <3> QED
      BY <2>2, <2>4, <3>1, <3>2 DEF Told
  <2>5. CASE Leaves(Tree, Top(Loop)) /\ UNCHANGED told
    BY <2>5 DEF Leaves, TornKinds
  <2>6. CASE UNCHANGED <<stack, told>>
    BY <2>6 DEF TornKinds
  <2> QED
    BY <1>5, <2>1, <2>3, <2>4, <2>5, <2>6, StepKinds
<1>6. CASE WorkReturns \/ RequestReturns
  <2>1. InCallback(Loop) /\ Returns /\ UNCHANGED <<ml, told>>
    BY <1>6 DEF WorkReturns, InWork, RequestReturns
  <2> QED
    BY <2>1, ReturnIs DEF TornKinds
<1>7. ASSUME \/ Tick \/ ReadDepth \/ UNCHANGED vars \/ ppb_flash_message_loop_quit
             \/ \E i \in Tasks, delay \in Delays, depth \in {0, 1} : ppb_message_loop_post_work(i, delay, depth)
             \/ \E destroy \in BOOLEAN : ppb_message_loop_post_quit(destroy)
             \/ \E i \in Syncs : AnswerSync(i)
      PROVE  TornKinds
  BY <1>7 DEF Tick, ReadDepth, vars, ppb_message_loop_post_work, ppb_message_loop_post_quit, AnswerSync,
              ppb_flash_message_loop_quit, TornKinds
<1> QED
  BY <1>3, <1>4, <1>5, <1>6, <1>7 DEF Next, ThreadStep

LEMMA EarlyNext ==
  ASSUME UniqueStamps = TRUE, LoopInv, KeptInv, TurnInv, OrderInv, EarlyInv, [Next]_vars
  PROVE  EarlyInv'
<1>1. /\ EarlyFirst' /\ (told' = told => QuitsCount' /\ (EarlyInTree => EarlyInTree'))
      /\ \A u \in Quits : told' = u.work.id => QuitsCount'
  BY EarlyQueues
<1>2. PICK s, z : s = stack[Loop] /\ z = stack'[Loop] /\ TornDown(s)
  BY DEF EarlyInv
<1>3. stack[Loop] \in Seq(Frame)
  BY LoopInvIs, QueueIs
<1>4. ASSUME TornDown(z)', QuitsCount' PROVE EarlyInv'
  BY <1>1, <1>2, <1>4 DEF EarlyInv, TornDown
<1>5. CASE told' = told /\ z = s
  <2>1. TornDown(z)'
    BY <1>1, <1>2, <1>5 DEF TornDown
  <2> QED
    BY <1>1, <1>4, <1>5, <2>1
<1>6. ASSUME told' = told, NEW f \in Frame, z = Append(s, f), f.kind = "loop" => ~f.teardown PROVE EarlyInv'
  <2>1. PICK n : Pushed(s, f, z, n)
    BY <1>2, <1>3, <1>6, LoopsPush
  <2>2. TornDown(z)'
    BY <1>1, <1>2, <1>6, <2>1, TornPush
  <2> QED
    BY <1>1, <1>4, <1>6, <2>2
<1>7. CASE told' = told /\ s # <<>> /\ z = SubSeq(s, 1, Len(s) - 1)
  <2>1. PICK n : Popped(s, z, n)
    BY <1>2, <1>3, <1>7, LoopsPop
  <2>2. TornDown(z)'
    BY <1>1, <1>2, <1>7, <2>1, TornPop
  <2> QED
    BY <1>1, <1>4, <1>7, <2>2
<1>8. ASSUME LoopStep, NEW u \in Quits, u \in Tree, told' = u.work.id PROVE EarlyInv'
  <2>1. OrderKept /\ NoNewWork
    BY <1>8, OrderStep, LoopTakes DEF KeptInv, NoNewWork, Takes, Holds
  <2>2. EarlyInTree'
    BY <1>8, <2>1, EarlyTaken
  <2>3. TornDown(z)'
    BY <2>2 DEF TornDown
  <2> QED
    BY <1>1, <1>4, <1>8, <2>3
<1> QED
  BY <1>2, <1>5, <1>6, <1>7, <1>8, TornKindsAre DEF TornKinds

LEMMA OrderInit ==
  ASSUME Init PROVE OrderInv /\ EarlyInv
<1>1. Queued = {} /\ Quits = {} /\ stack[Loop] = <<>>
  BY TheLoop DEF Init, NewLoop, Queued, Quits
<1>2. told = 0 /\ \A i \in Tasks : task[i].state = "none" /\ i \in Nat /\ i # 0
  BY DEF Init, Tasks
<1>3. LoopsOf(<<>>) = {}
  BY DEF LoopsOf
<1>4. OrderInv
  BY <1>1, <1>2 DEF OrderInv, InPostOrder, StampsPast, PostedInTurn
<1>5. TornDown(<<>>)
  BY <1>3 DEF TornDown
<1>6. EarlyFirst /\ QuitsCount
  BY <1>1, <1>2 DEF EarlyFirst, QuitsCount
<1> QED
  BY <1>1, <1>4, <1>5, <1>6 DEF EarlyInv

(* The outermost run is left with nothing in the tree. *)
EndsAfterEarlier ==
  Len(stack[Loop]) = 1 /\ stack'[Loop] = <<>> => \A i \in Tasks : i <= told' => task[i].state # "queued"

LEMMA EndsInOrder ==
  ASSUME LoopInv, KeptInv, TurnInv, EarlyInv, [Next]_vars
  PROVE  EndsAfterEarlier
<1> USE TurnIs
<1> SUFFICES ASSUME Len(stack[Loop]) = 1, stack'[Loop] = <<>>, NEW i \in Tasks, i <= told',
                    task[i].state = "queued"
             PROVE  FALSE
  BY DEF EndsAfterEarlier
<1>1. PICK s \in Seq(Frame) : s = stack[Loop] /\ s # <<>> /\ Len(s) = 1
  BY OutermostFrame
<1>2. /\ 1 \in LoopsOf(s) /\ s[1].kind = "loop" /\ Top(Loop) = s[1] /\ Top(Loop) \in LoopFrameType
      /\ Top(Loop).flags = {"ML_INCREASE_DEPTH"} /\ ~IsNested(Top(Loop)) /\ ~(Top(Loop).depth > 1)
      /\ Top(Loop).depth \in Nat
  BY <1>1, OutermostFrame
<1>3. ASSUME NEW f \in Frame, stack'[Loop] = Append(stack[Loop], f) PROVE FALSE
  <2>1. PICK z, n : z = stack'[Loop] /\ Pushed(s, f, z, n)
    BY <1>1, <1>3, LoopsPush
  <2> QED
    BY <2>1 DEF Pushed
<1>4. ASSUME NEW m, NEW flags, NEW w, NEW f, EntersFrom(m, flags, w, f) PROVE FALSE
  BY <1>3, <1>4, FrameTypes DEF EntersFrom
<1>5. LoopStep
  <2>1. ASSUME stack' = stack PROVE FALSE
    BY <1>1, <2>1
  <2>2. ASSUME NEW j \in Syncs, CallSync(j) PROVE FALSE
    <3>1. PICK t \in Task : t = WorkTask(now, ml[Loop].depth + 1, Work("request", j))
      <4>1. j \in Nat /\ now \in Nat /\ ml[Loop].depth + 1 \in Nat
        BY LoopInvIs DEF Syncs
      <4> QED
        BY <4>1, TasksAreTyped
    <3>2. PICK m : /\ m = ppb_message_loop_post_work_with_result(ml, Loop, t)
                   /\ Enter(m, {"ML_NESTED", "ML_INCREASE_DEPTH"}, SyncWaiter(j))
      BY <2>2, <3>1 DEF CallSync, SyncWaiter
    <3>3. m \in [Loops -> LoopState]
      BY <3>2, LoopInvIs, RequestedIs
    <3>4. {"ML_NESTED", "ML_INCREASE_DEPTH"} \in SUBSET Flags /\ SyncWaiter(j) \in Waiters
      <4>1. j \in Nat
        BY DEF Syncs
      <4> QED
        BY <4>1, TasksAreTyped DEF Flags, SyncWaiter
    <3> QED
      BY <1>4, <3>2, <3>3, <3>4, LoopInvIs, EnterIs
  <2>3. ASSUME ppb_message_loop_run \/ ppb_flash_message_loop_run PROVE FALSE
    <3>1. /\ {"ML_NESTED"} \in SUBSET Flags /\ {"ML_INCREASE_DEPTH"} \in SUBSET Flags /\ NoWait \in Waiters
          /\ [fn |-> "flash", id |-> flash.runs + 1] \in Waiters
      BY TasksAreTyped, FlashIs DEF Flags
    <3>2. PICK flags, w : Enter(ml, flags, w) /\ flags \in SUBSET Flags /\ w \in Waiters
      BY <2>3, <3>1 DEF ppb_message_loop_run, ppb_flash_message_loop_run
    <3> QED
      BY <1>4, <3>2, LoopInvIs, EnterIs DEF QueueTypes
  <2>4. ASSUME WorkReturns \/ RequestReturns PROVE FALSE
    BY <1>2, <2>4 DEF WorkReturns, InWork, RequestReturns, InCallback
  <2> QED
    BY <2>1, <2>2, <2>3, <2>4
       DEF Next, ThreadStep, Tick, ReadDepth, ppb_message_loop_post_work, ppb_message_loop_post_quit, AnswerSync,
           ppb_flash_message_loop_quit, vars
<1>6. ExitOnEmpty(Loop) /\ told' = told
  <2>1. CASE RunTask(Loop, now)
    <3>1. PICK f \in Frame : stack'[Loop] = Append(stack[Loop], f)
      BY <2>1, RunTaskIs, FrameTypes, LoopInvIs DEF Task, TaskType
    <3> QED
      BY <1>3, <3>1
  <2>2. CASE QuitNested(Loop, now)
    BY <1>2, <2>2 DEF QuitNested
  <2>3. CASE QuitOutermost(Loop, now)
    <3>1. Len(stack'[Loop]) = 1
      BY <2>3, QuitOutermostIs, LoopInvIs
    <3>2. Len(<<>>) = 0
      OBVIOUS
    <3> QED
      BY <3>1, <3>2
  <2>4. CASE UNCHANGED stack
    BY <1>1, <2>4
  <2> QED
    BY <1>5, <2>1, <2>2, <2>3, <2>4, StepKinds
<1>7. Tree = {}
  <2>1. ASSUME NEW t \in Tree PROVE t \in Appropriate(Loop)
    <3>1. t.depth \in Nat
      BY LoopInvIs, QueueIs DEF Tree, Task, TaskType
    <3>2. t.depth = 0 \/ t.depth >= Top(Loop).depth
      BY <1>2, <3>1
    <3> QED
      BY <3>2 DEF Appropriate, Tree
  <2> QED
    BY <1>6, <2>1 DEF ExitOnEmpty
<1>8. EarlyInTree
  <2>1. s[1].teardown
    BY <1>2, <1>6 DEF ExitOnEmpty
  <2>2. TornDown(s)
    BY <1>1 DEF EarlyInv
  <2> QED
    BY <1>2, <2>1, <2>2 DEF TornDown
<1>9. PICK t \in Queued : t.work = Work("work", i)
  BY DEF KeptInv, AcceptedWorkIsKept, PendingTask
<1>10. Early(t, i, told)
  BY <1>6, <1>9 DEF Early
<1> QED
  BY <1>7, <1>8, <1>9, <1>10 DEF EarlyInTree

(* Work posted without delay never overtakes earlier work without delay,   *)
(* and a loop told to quit ends only after all work posted before the      *)
(* quit, delayed work included, has been run, be the quit one of PostQuit  *)
(* or one that the runs of the Flash message loop have left.  The assumptions are those   *)
(* of RunsReturnInTurnCorrect.                                             *)
THEOREM WorkInOrderCorrect ==
  ASSUME UniqueStamps = TRUE, AnyQuit = FALSE, MixFlash = FALSE
  PROVE  Spec => WorkInOrder
<1> DEFINE Inv == LoopInv /\ KeptInv /\ TurnInv /\ OrderInv /\ EarlyInv
<1>1. Init => Inv
  BY TurnInit, OrderInit
<1>2. Inv /\ [Next]_vars => Inv'
  BY InvNext, KeptNext, TurnNext, OrderNext, EarlyNext
<1>3. Inv /\ [Next]_vars => \A i, j \in Tasks : OrderedRun(i, j)
  BY RunsInOrder
<1>4. Inv /\ [Next]_vars => EndsAfterEarlier
  BY EndsInOrder
<1>5. Inv /\ [Next]_vars =>
        [\A i, j \in Tasks :
           ( /\ i < j /\ task[i].delay = 0 /\ task[j].delay = 0
             /\ task[i].state = "queued" /\ task[j].state = "queued"
             /\ \A t \in Queued : t.work \in {Work("work", i), Work("work", j)} => t.depth = 0 )
           => task'[j].state = "queued" \/ task'[i].state = "ran"]_vars
  BY <1>3 DEF OrderedRun
<1>6. Inv /\ [Next]_vars =>
        [(Len(stack[Loop]) = 1 /\ stack'[Loop] = <<>>) =>
           \A i \in Tasks : i <= told' => task[i].state # "queued"]_vars
  BY <1>4 DEF EndsAfterEarlier
<1> HIDE DEF Inv
<1> QED
  BY <1>1, <1>2, <1>5, <1>6, PTL DEF Spec, WorkInOrder, WorkInPostOrder, QuitAfterEarlierWork
=============================================================================
