------------------------ MODULE BrowserCalls_proofs ------------------------
(***************************************************************************)
(* Calls between the two threads are synchronous, for any number of calls, *)
(* levels of nesting and other tasks: BrowserCalls implements SyncCall.    *)
(***************************************************************************)
EXTENDS BrowserCalls, WellFoundedInduction, TLAPS

-----------------------------------------------------------------------------
(* The invariant.                                                          *)

TaskT == TaskType(WorkItems)
FrameT == FrameType(WorkItems, Calls \cup {NoCall})
LoopT ==
  [async_q : Seq(TaskT), int_q : SUBSET TaskT, running : BOOLEAN, teardown : BOOLEAN,
   depth : Nat, alive : BOOLEAN]
CallT == [state : {"unused", "called", "handled", "returned"}, depth : Nat, destroys : BOOLEAN]

Types ==
  /\ ml \in [Loops -> LoopT] /\ stack \in [Loops -> Seq(FrameT)]
  /\ calls \in [Calls -> CallT] /\ stamp \in [Loops -> Nat] /\ activations \in Nat
  /\ events \in 0 .. MaxEvents /\ posts \in 0 .. MaxPosts /\ npp \in BOOLEAN

(* The stamps of queued tasks: they grow along async_q, and what has moved *)
(* to the tree is older, so that no task is dropped there.                 *)
StampsOf(r, now) ==
  /\ \A k \in 1..Len(r.async_q) :
       r.async_q[k].when < now /\ \A t \in r.int_q : t.when < r.async_q[k].when
  /\ \A j, k \in 1..Len(r.async_q) : j < k => r.async_q[j].when < r.async_q[k].when
  /\ \A t \in r.int_q : t.when < now
  /\ \A t, u \in r.int_q : t.when = u.when => t = u

Stamps(l) == StampsOf(ml[l], stamp[l])

(* The tasks of a loop, in whichever queue. *)
TasksOf(r) == r.int_q \cup {r.async_q[k] : k \in 1..Len(r.async_q)}

Queued(l) == TasksOf(ml[l])

IsLoop(f) == f.kind = "loop"
IsCb(f) == f.kind = "cb"

(* The frames of a thread alternate, and each run has the depth of its     *)
(* place among them.                                                       *)
ShapeOf(s, d) ==
  LET n == Len(s) IN
  /\ \A i \in 1..n : IsLoop(s[i]) => 2 * s[i].depth = i + 1 /\ "ML_INCREASE_DEPTH" \in s[i].flags
  /\ \A i \in 1..n : IsCb(s[i]) => i > 1 /\ IsLoop(s[i - 1])
  /\ \A i \in 1..n : IsLoop(s[i]) /\ i > 1 => IsCb(s[i - 1])
  /\ 2 * d = IF n > 0 /\ IsLoop(s[n]) THEN n + 1 ELSE n

Shape(l) == ShapeOf(stack[l], ml[l].depth)

(* A run that waits for a call is one of that call. *)
Waiter(f) == IsLoop(f) /\ f.call # NoCall

Fits(cs, f) ==
  Waiter(f) =>
    /\ cs[f.call].state \in {"called", "handled"} /\ cs[f.call].depth = f.depth
    /\ f.flags = Nested
    /\ f.teardown => cs[f.call].state = "handled"

Waiters(l) ==
  LET s == stack[l] IN
  /\ \A i \in 1..Len(s) : Fits(calls, s[i])
  /\ \A i, j \in 1..Len(s) : i < j /\ Waiter(s[i]) /\ Waiter(s[j]) => s[i].call < s[j].call

Apart == \A l, m \in Loops : l # m => Waits(l) \cap Waits(m) = {}

(* Calls are made in their order. *)
InOrder ==
  \A c \in Calls :
    /\ calls[c].state = "unused" => calls[c] = Unused
    /\ \A d \in Calls : d < c /\ calls[c].state # "unused" => calls[d].state # "unused"

(* A quit task is the answer to a call that its thread waits for, at the   *)
(* depth of that call's run, and the only one.                             *)
Ends(cs, t, f) ==
  Waiter(f) /\ f.depth = t.depth /\ cs[f.call].state = "handled" /\ ~f.teardown

Quits(l) ==
  /\ \A t \in Queued(l) : t.terminate => \E i \in 1..Len(stack[l]) : Ends(calls, t, stack[l][i])
  /\ \A t, u \in Queued(l) : t.terminate /\ u.terminate /\ t.depth = u.depth => t = u

(* A step of a call under way: its call is not handled, and its caller     *)
(* waits.                                                                  *)
PluginFns == {"n2p_call_comt", "p2n_invoke_comt"}
BrowserFns == {"n2p_call_ptac", "p2n_invoke_prepare_comt", "trampoline"}
Serves(l, fn) == fn \in IF l = PluginLoop THEN PluginFns ELSE BrowserFns
CallerOf(fn) == IF fn \in {"n2p_call_comt", "n2p_call_ptac"} THEN PluginLoop ELSE BrowserLoop

Carries(cs, ws, l, w) ==
  IF Serves(l, w.fn)
  THEN w.call \in Calls /\ cs[w.call].state = "called" /\ w.call \in ws[CallerOf(w.fn)]
  ELSE w.call = NoCall

AllWaits == [l \in Loops |-> Waits(l)]

Works(l) ==
  /\ \A t \in Queued(l) : Carries(calls, AllWaits, l, t.work)
  /\ \A i \in 1..Len(stack[l]) : IsCb(stack[l][i]) => Carries(calls, AllWaits, l, stack[l][i].work)

(* It is in one place. *)
QueuedCalls(l) == {t.work.call : t \in Queued(l)} \ {NoCall}
FrameCalls(l) == {stack[l][i].work.call : i \in {j \in 1..Len(stack[l]) : IsCb(stack[l][j])}} \ {NoCall}

Single(l) ==
  /\ \A t, u \in Queued(l) : t.work.call = u.work.call /\ t.work.call # NoCall => t = u
  /\ \A i, j \in 1..Len(stack[l]) :
       IsCb(stack[l][i]) /\ IsCb(stack[l][j]) /\ stack[l][i].work.call = stack[l][j].work.call
         /\ stack[l][i].work.call # NoCall => i = j

Places ==
  /\ \A l, m \in Loops : QueuedCalls(l) \cap FrameCalls(m) = {}
  /\ \A l, m \in Loops : l # m => QueuedCalls(l) \cap QueuedCalls(m) = {}
                                  /\ FrameCalls(l) \cap FrameCalls(m) = {}

StampsInv == \A l \in Loops : Stamps(l)
LoopInv(l) == Shape(l) /\ Waiters(l) /\ Quits(l) /\ Works(l) /\ Single(l)

CallsInv ==
  /\ Types /\ StampsInv /\ Apart /\ InOrder /\ Places
  /\ \A l \in Loops : LoopInv(l)

-----------------------------------------------------------------------------
(* One loop: what posting, moving and taking do to its queues.             *)

\* A set of numbers that is not empty has a least member.
LEMMA LeastNumber ==
  ASSUME NEW T \in SUBSET Nat, T # {} PROVE \E x \in T : \A y \in T : x <= y
<1> DEFINE Less == {ss \in Nat \X Nat : ss[1] < ss[2]}
<1>1. IsWellFoundedOn(Less, Nat) BY NatLessThanWellFounded DEF OpToRel
<1>2. PICK x \in T : \A y \in T : ~ (<<y, x>> \in Less) BY <1>1, WFMin
<1>3. \A y \in T : ~(y < x) BY <1>2
<1> QED BY <1>3

\* The fields of a task.
LEMMA TaskFields ==
  ASSUME NEW t \in TaskT
  PROVE  /\ t.when \in Nat /\ t.depth \in Nat /\ t.terminate \in BOOLEAN
         /\ t.destroy \in BOOLEAN /\ t.work \in WorkItems
BY DEF TaskT, TaskType

\* The fields of a loop.
LEMMA LoopFields ==
  ASSUME NEW r \in LoopT
  PROVE  /\ r.async_q \in Seq(TaskT) /\ r.int_q \in SUBSET TaskT /\ r.depth \in Nat
         /\ r.running \in BOOLEAN /\ r.teardown \in BOOLEAN /\ r.alive \in BOOLEAN
BY DEF LoopT

\* Nothing is queued that is not a task.
LEMMA TasksTyped == ASSUME NEW r \in LoopT PROVE TasksOf(r) \subseteq TaskT
BY LoopFields DEF TasksOf

WithTask(r, t) == [r EXCEPT !.async_q = Append(r.async_q, t)]
WithMoved(r) == [r EXCEPT !.async_q = Tail(r.async_q),
                          !.int_q = g_tree_insert(r.int_q, Head(r.async_q))]

\* Posting appends a task with a fresh stamp.
LEMMA PostTask ==
  ASSUME NEW r \in LoopT, NEW now \in Nat, NEW t \in TaskT, t.when = now, StampsOf(r, now),
         NEW r1, r1 = WithTask(r, t)
  PROVE  /\ r1 \in LoopT /\ StampsOf(r1, now + 1) /\ r1.depth = r.depth
         /\ TasksOf(r1) = TasksOf(r) \cup {t} /\ t \notin TasksOf(r)
<1> DEFINE n == Len(r.async_q)
<1>0. r.async_q \in Seq(TaskT) /\ r.int_q \in SUBSET TaskT /\ n \in Nat BY LoopFields
<1>1. /\ r1.async_q = Append(r.async_q, t) /\ r1.int_q = r.int_q /\ r1.depth = r.depth
      /\ r1 \in LoopT
  <2>1. Append(r.async_q, t) \in Seq(TaskT) BY <1>0
  <2>2. PICK a : a = Append(r.async_q, t) OBVIOUS
  <2>3. r1 = [r EXCEPT !.async_q = a] BY <2>2 DEF WithTask
  <2>4. a \in Seq(TaskT) /\ r \in LoopT BY <2>1, <2>2
  <2>5. r1.async_q = a /\ r1.int_q = r.int_q /\ r1.depth = r.depth /\ r1 \in LoopT
    BY ONLY <2>3, <2>4 DEF LoopT
  <2> QED BY ONLY <2>2, <2>5
<1>2. /\ Len(r1.async_q) = n + 1 /\ r1.async_q[n + 1] = t
      /\ \A k \in 1..n : r1.async_q[k] = r.async_q[k]
  BY <1>0, <1>1
<1>3. \A u \in TaskT : u.when \in Nat BY TaskFields
<1>4. \A k \in 1..n : r.async_q[k] \in TaskT BY <1>0
<1>5. StampsOf(r1, now + 1)
  <2>1. \A k \in 1..(n + 1) : k = n + 1 \/ k \in 1..n BY <1>0
  <2>2. \A k \in 1..n : r.async_q[k].when < now /\ \A u \in r.int_q : u.when < r.async_q[k].when
    BY DEF StampsOf
  <2>3. \A u \in r.int_q : u.when < now /\ u.when \in Nat BY <1>0, <1>3 DEF StampsOf
  <2>4. \A j, k \in 1..n : j < k => r.async_q[j].when < r.async_q[k].when BY DEF StampsOf
  <2>5. \A u, v \in r.int_q : u.when = v.when => u = v BY DEF StampsOf
  <2>6. ASSUME NEW k \in 1..(n + 1)
        PROVE  r1.async_q[k].when < now + 1 /\ \A u \in r.int_q : u.when < r1.async_q[k].when
    <3>1. CASE k = n + 1 BY <3>1, <1>2, <2>3
    <3>2. CASE k \in 1..n
      <4>1. r1.async_q[k] = r.async_q[k] /\ r.async_q[k].when \in Nat BY <3>2, <1>2, <1>3, <1>4
      <4> QED BY <4>1, <3>2, <2>2
    <3> QED BY <2>1, <3>1, <3>2
  <2>7. ASSUME NEW j \in 1..(n + 1), NEW k \in 1..(n + 1), j < k
        PROVE  r1.async_q[j].when < r1.async_q[k].when
    <3>1. j \in 1..n BY <2>7, <1>0
    <3>2. CASE k = n + 1 BY <3>1, <3>2, <1>2, <2>2
    <3>3. CASE k \in 1..n BY <3>1, <3>3, <1>2, <2>4, <2>7
    <3> QED BY <2>1, <3>2, <3>3
  <2>8. \A u \in r.int_q : u.when < now + 1 BY <2>3
  <2> QED BY <1>1, <1>2, <2>5, <2>6, <2>7, <2>8 DEF StampsOf
<1>6. TasksOf(r1) = TasksOf(r) \cup {t}
  <2>1. {r1.async_q[k] : k \in 1..(n + 1)} = {r.async_q[k] : k \in 1..n} \cup {t}
    <3>1. \A k \in 1..(n + 1) : k = n + 1 \/ k \in 1..n BY <1>0
    <3>2. n + 1 \in 1..(n + 1) /\ \A k \in 1..n : k \in 1..(n + 1) BY <1>0
    <3> QED BY <3>1, <3>2, <1>2
  <2> QED BY <2>1, <1>1, <1>2 DEF TasksOf
<1>7. t \notin TasksOf(r)
  <2>1. \A k \in 1..n : r.async_q[k].when < now BY DEF StampsOf
  <2>2. \A u \in r.int_q : u.when < now BY DEF StampsOf
  <2> QED BY <2>1, <2>2 DEF TasksOf
<1> QED BY <1>1, <1>5, <1>6, <1>7

\* Moving the head of async_q to the tree loses nothing.
LEMMA MoveTask ==
  ASSUME NEW r \in LoopT, NEW now \in Nat, StampsOf(r, now), r.async_q # <<>>,
         NEW r1, r1 = WithMoved(r)
  PROVE  r1 \in LoopT /\ StampsOf(r1, now) /\ r1.depth = r.depth /\ TasksOf(r1) = TasksOf(r)
<1> DEFINE n == Len(r.async_q)  h == Head(r.async_q)
<1>0. /\ r.async_q \in Seq(TaskT) /\ r.int_q \in SUBSET TaskT /\ n \in Nat /\ n > 0
      /\ h = r.async_q[1] /\ h \in TaskT
  BY LoopFields
<1>1. \A u \in TaskT : u.when \in Nat BY TaskFields
<1>2. \A u \in r.int_q : u.when < h.when BY <1>0 DEF StampsOf
<1>3. g_tree_insert(r.int_q, h) = r.int_q \cup {h}
  <2>1. ~ \E u \in r.int_q : u.when = h.when BY <1>0, <1>1, <1>2
  <2> QED BY <2>1 DEF g_tree_insert
<1>4. /\ r1.async_q = Tail(r.async_q) /\ r1.int_q = r.int_q \cup {h} /\ r1.depth = r.depth
      /\ r1 \in LoopT
  <2>1. Tail(r.async_q) \in Seq(TaskT) /\ r.int_q \cup {h} \in SUBSET TaskT BY <1>0
  <2>2. PICK a : a = Tail(r.async_q) OBVIOUS
  <2>3. PICK q : q = r.int_q \cup {h} OBVIOUS
  <2>4. r1 = [r EXCEPT !.async_q = a, !.int_q = q] BY <2>2, <2>3, <1>3 DEF WithMoved
  <2>5. r \in LoopT /\ a \in Seq(TaskT) /\ q \in SUBSET TaskT BY <2>1, <2>2, <2>3
  <2>6. r1.async_q = a /\ r1.int_q = q /\ r1.depth = r.depth /\ r1 \in LoopT
    BY ONLY <2>4, <2>5 DEF LoopT
  <2> QED BY ONLY <2>2, <2>3, <2>6
<1>5. /\ Len(r1.async_q) = n - 1
      /\ \A k \in 1..(n - 1) : r1.async_q[k] = r.async_q[k + 1] /\ k + 1 \in 1..n
  BY <1>0, <1>4
<1>6. \A k \in 1..n : r.async_q[k] \in TaskT /\ r.async_q[k].when \in Nat BY <1>0, <1>1
<1>7. StampsOf(r1, now)
  <2>1. \A k \in 1..n : r.async_q[k].when < now /\ \A u \in r.int_q : u.when < r.async_q[k].when
    BY DEF StampsOf
  <2>2. \A k \in 1..(n - 1) : h.when < r.async_q[k + 1].when BY <1>0 DEF StampsOf
  <2>3. \A j, k \in 1..(n - 1) : j < k => r.async_q[j + 1].when < r.async_q[k + 1].when
    <3>1. \A j, k \in 1..n : j < k => r.async_q[j].when < r.async_q[k].when BY DEF StampsOf
    <3>2. \A j \in 1..(n - 1) : j + 1 \in 1..n BY <1>0
    <3>3. ASSUME NEW j \in 1..(n - 1), NEW k \in 1..(n - 1), j < k
          PROVE  r.async_q[j + 1].when < r.async_q[k + 1].when
      <4>1. j + 1 < k + 1 BY <3>3, <1>0
      <4> QED BY <4>1, <3>1, <3>2
    <3> QED BY <3>3
  <2>4. \A u \in r.int_q : u.when < now BY DEF StampsOf
  <2>5. \A u, v \in r.int_q : u.when = v.when => u = v BY DEF StampsOf
  <2>6. h.when < now BY <2>1, <1>0
  <2>7. \A k \in 1..(n - 1) : r1.async_q[k].when < now
                            /\ \A u \in r1.int_q : u.when < r1.async_q[k].when
    BY <1>4, <1>5, <2>1, <2>2
  <2>8. \A j, k \in 1..(n - 1) : j < k => r1.async_q[j].when < r1.async_q[k].when
    BY <1>5, <2>3
  <2>9. \A u \in r1.int_q : u.when < now BY <1>4, <2>4, <2>6
  <2>10. \A u, v \in r1.int_q : u.when = v.when => u = v
    <3>1. \A u \in r.int_q : u.when # h.when BY <1>0, <1>1, <1>2
    <3> QED BY <3>1, <2>5, <1>4
  <2> QED BY <1>5, <2>7, <2>8, <2>9, <2>10 DEF StampsOf
<1>8. TasksOf(r1) = TasksOf(r)
  <2>1. {r.async_q[k] : k \in 1..n} = {r1.async_q[k] : k \in 1..(n - 1)} \cup {h}
    <3>1. \A k \in 1..n : k = 1 \/ (k - 1 \in 1..(n - 1) /\ (k - 1) + 1 = k) BY <1>0
    <3>2. \A k \in 1..n : k # 1 => r.async_q[k] = r1.async_q[k - 1] BY <3>1, <1>5
    <3>3. 1 \in 1..n /\ r.async_q[1] = h BY <1>0
    <3>4. \A k \in 1..n : r.async_q[k] \in {r1.async_q[j] : j \in 1..(n - 1)} \cup {h}
      BY <3>1, <3>2, <3>3
    <3>5. \A k \in 1..(n - 1) : r1.async_q[k] \in {r.async_q[j] : j \in 1..n} BY <1>5
    <3>6. h \in {r.async_q[j] : j \in 1..n} BY <3>3
    <3> HIDE DEF n, h
    <3> QED BY <3>4, <3>5, <3>6
  <2> QED BY <2>1, <1>4, <1>5 DEF TasksOf
<1> QED BY <1>4, <1>7, <1>8

\* A task that is taken leaves the tree; the rest of the loop may change too.
LEMMA TakeTask ==
  ASSUME NEW r \in LoopT, NEW now \in Nat, StampsOf(r, now), NEW t \in r.int_q,
         NEW r1 \in LoopT, r1.async_q = r.async_q, r1.int_q = r.int_q \ {t}
  PROVE  StampsOf(r1, now) /\ TasksOf(r1) = TasksOf(r) \ {t} /\ t \in TasksOf(r)
<1>1. StampsOf(r1, now) BY DEF StampsOf
<1>2. \A u \in TaskT : u.when \in Nat BY TaskFields
<1>3. r.async_q \in Seq(TaskT) /\ r.int_q \in SUBSET TaskT BY LoopFields
<1>4. \A k \in 1..Len(r.async_q) : r.async_q[k] # t
  <2>1. \A k \in 1..Len(r.async_q) : t.when < r.async_q[k].when BY DEF StampsOf
  <2> QED BY <2>1, <1>2, <1>3
<1>5. TasksOf(r1) = TasksOf(r) \ {t} /\ t \in TasksOf(r) BY <1>4 DEF TasksOf
<1> QED BY <1>1, <1>5

\* What leaves the queues alone leaves the tasks alone.
LEMMA SameTasks ==
  ASSUME NEW r, NEW r1, NEW now, StampsOf(r, now), r1.async_q = r.async_q, r1.int_q = r.int_q
  PROVE  StampsOf(r1, now) /\ TasksOf(r1) = TasksOf(r)
BY DEF StampsOf, TasksOf

\* Time passes.
LEMMA LaterStamps ==
  ASSUME NEW r \in LoopT, NEW now \in Nat, NEW then \in {now, now + 1}, StampsOf(r, now)
  PROVE  StampsOf(r, then)
<1>1. \A u \in TaskT : u.when \in Nat BY TaskFields
<1>2. r.async_q \in Seq(TaskT) /\ r.int_q \in SUBSET TaskT BY LoopFields
<1>3. \A k \in 1..Len(r.async_q) : r.async_q[k].when \in Nat BY <1>1, <1>2
<1>4. \A t \in r.int_q : t.when \in Nat BY <1>1, <1>2
<1> QED BY <1>3, <1>4 DEF StampsOf

\* First finds a task when there is one.
LEMMA FirstOfTasks ==
  ASSUME NEW q \in SUBSET TaskT, q # {} PROVE First(q) \in q
<1> DEFINE T == {t.when : t \in q}
<1>1. \A t \in q : t.when \in Nat BY TaskFields
<1>2. T \in SUBSET Nat /\ T # {} BY <1>1
<1>3. PICK x \in T : \A y \in T : x <= y BY <1>2, LeastNumber
<1>4. PICK t \in q : t.when = x BY <1>3
<1>5. \A u \in q : t.when <= u.when BY <1>3, <1>4
<1> QED BY <1>4, <1>5 DEF First

-----------------------------------------------------------------------------
(* What the steps do to the tasks, the frames and the depth of a loop.     *)

QSame(l) == Queued(l)' = Queued(l)
QAdded(l, t) == t \notin Queued(l) /\ (Queued(l)' = Queued(l) \/ Queued(l)' = Queued(l) \cup {t})
QTaken(l, t) == t \in Queued(l) /\ Queued(l)' = Queued(l) \ {t}
DSame(l) == ml'[l].depth = ml[l].depth
SSame(l) == stack'[l] = stack[l]
Pushed(l, f) ==
  /\ Len(stack'[l]) = Len(stack[l]) + 1 /\ stack'[l][Len(stack[l]) + 1] = f
  /\ \A i \in 1..Len(stack[l]) : stack'[l][i] = stack[l][i]
Popped(l) ==
  /\ Len(stack[l]) > 0 /\ Len(stack'[l]) = Len(stack[l]) - 1
  /\ \A i \in 1..(Len(stack[l]) - 1) : stack'[l][i] = stack[l][i]
Retopped(l, f) ==
  /\ Len(stack[l]) > 0 /\ Len(stack'[l]) = Len(stack[l]) /\ stack'[l][Len(stack[l])] = f
  /\ \A i \in 1..(Len(stack[l]) - 1) : stack'[l][i] = stack[l][i]

LoopsTyped == ml \in [Loops -> LoopT] /\ stamp \in [Loops -> Nat]

\* The fields of a frame.
LEMMA FrameFields ==
  ASSUME NEW f \in FrameT
  PROVE  /\ IsLoop(f) \/ IsCb(f)
         /\ ~(IsLoop(f) /\ IsCb(f))
         /\ IsCb(f) => f.work \in WorkItems
         /\ IsLoop(f) => /\ f.flags \in SUBSET Flags /\ f.call \in Calls \cup {NoCall}
                         /\ f.depth \in Nat /\ f.teardown \in BOOLEAN /\ f.pumping \in BOOLEAN
                         /\ f.destroy_ml \in BOOLEAN
                         /\ f.saved \in [running : BOOLEAN, teardown : BOOLEAN]
BY DEF FrameT, FrameType, IsLoop, IsCb

\* A stack is a sequence of frames.
LEMMA StackTyped ==
  ASSUME Types, NEW l \in Loops
  PROVE  /\ stack[l] \in Seq(FrameT) /\ Len(stack[l]) \in Nat
         /\ \A i \in 1..Len(stack[l]) : stack[l][i] \in FrameT
BY DEF Types

\* A frame on top.
LEMMA PushFrame ==
  ASSUME Types, NEW l \in Loops, NEW f \in FrameT, stack' = [stack EXCEPT ![l] = Append(@, f)]
  PROVE  /\ stack' \in [Loops -> Seq(FrameT)] /\ Pushed(l, f)
         /\ \A m \in Loops \ {l} : SSame(m)
<1>1. stack[l] \in Seq(FrameT) BY StackTyped
<1>2. Append(stack[l], f) \in Seq(FrameT) BY <1>1
<1>3. stack \in [Loops -> Seq(FrameT)] BY DEF Types
<1>4. PICK s : s = Append(stack[l], f) OBVIOUS
<1>5. stack' = [stack EXCEPT ![l] = s] BY <1>4
<1>6. /\ stack' \in [Loops -> Seq(FrameT)] /\ stack'[l] = s
      /\ \A m \in Loops \ {l} : stack'[m] = stack[m]
  BY <1>2, <1>3, <1>4, <1>5
<1>7. /\ Len(s) = Len(stack[l]) + 1 /\ s[Len(stack[l]) + 1] = f
      /\ \A i \in 1..Len(stack[l]) : s[i] = stack[l][i]
  BY <1>1, <1>4
<1> QED BY <1>6, <1>7 DEF Pushed, SSame

\* The top frame goes.
LEMMA PopFrame ==
  ASSUME Types, NEW l \in Loops, stack[l] # <<>>, stack' = [stack EXCEPT ![l] = Below(l)]
  PROVE  /\ stack' \in [Loops -> Seq(FrameT)] /\ Popped(l)
         /\ \A m \in Loops \ {l} : SSame(m)
<1>1. stack[l] \in Seq(FrameT) /\ Len(stack[l]) \in Nat /\ Len(stack[l]) > 0 BY StackTyped
<1>2. PICK s : s = Below(l) OBVIOUS
<1>3. /\ s \in Seq(FrameT) /\ Len(s) = Len(stack[l]) - 1
      /\ \A i \in 1..(Len(stack[l]) - 1) : s[i] = stack[l][i]
  BY <1>1, <1>2 DEF Below
<1>4. stack \in [Loops -> Seq(FrameT)] BY DEF Types
<1>5. stack' = [stack EXCEPT ![l] = s] BY <1>2
<1>6. /\ stack' \in [Loops -> Seq(FrameT)] /\ stack'[l] = s
      /\ \A m \in Loops \ {l} : stack'[m] = stack[m]
  BY <1>3, <1>4, <1>5
<1> QED BY <1>1, <1>3, <1>6 DEF Popped, SSame

\* The top frame changes.
LEMMA RetopFrame ==
  ASSUME Types, NEW l \in Loops, stack[l] # <<>>, NEW f \in FrameT,
         stack' = [stack EXCEPT ![l] = [stack[l] EXCEPT ![Len(stack[l])] = f]]
  PROVE  /\ stack' \in [Loops -> Seq(FrameT)] /\ Retopped(l, f)
         /\ \A m \in Loops \ {l} : SSame(m)
<1>1. stack[l] \in Seq(FrameT) /\ Len(stack[l]) \in Nat /\ Len(stack[l]) > 0 BY StackTyped
<1>2. PICK s : s = [stack[l] EXCEPT ![Len(stack[l])] = f] OBVIOUS
<1>3. /\ s \in Seq(FrameT) /\ Len(s) = Len(stack[l]) /\ s[Len(stack[l])] = f
      /\ \A i \in 1..(Len(stack[l]) - 1) : s[i] = stack[l][i]
  BY <1>1, <1>2
<1>4. stack \in [Loops -> Seq(FrameT)] BY DEF Types
<1>5. stack' = [stack EXCEPT ![l] = s] BY <1>2
<1>6. /\ stack' \in [Loops -> Seq(FrameT)] /\ stack'[l] = s
      /\ \A m \in Loops \ {l} : stack'[m] = stack[m]
  BY <1>3, <1>4, <1>5
<1> QED BY <1>1, <1>3, <1>6 DEF Retopped, SSame

\* One loop changes: the others keep their tasks and depth.
LEMMA OneLoop ==
  ASSUME LoopsTyped, StampsInv, NEW l \in Loops, NEW r \in LoopT, ml' = [ml EXCEPT ![l] = r],
         stamp' \in [Loops -> Nat], \A m \in Loops \ {l} : stamp'[m] = stamp[m],
         StampsOf(r, stamp'[l])
  PROVE  /\ LoopsTyped' /\ StampsInv' /\ ml'[l] = r
         /\ \A m \in Loops \ {l} : QSame(m) /\ DSame(m)
<1>1. /\ ml' \in [Loops -> LoopT] /\ ml'[l] = r /\ \A m \in Loops \ {l} : ml'[m] = ml[m]
  BY DEF LoopsTyped
<1>2. \A m \in Loops \ {l} : Queued(m)' = Queued(m) /\ Stamps(m)' BY <1>1 DEF Queued, Stamps, StampsInv
<1>3. Stamps(l)' BY <1>1 DEF Stamps
<1>4. StampsInv' BY <1>2, <1>3 DEF StampsInv
<1> QED BY <1>1, <1>2, <1>4 DEF LoopsTyped, QSame, DSame

\* A post adds a task to its loop, or is refused.
LEMMA PostEffect ==
  ASSUME LoopsTyped, StampsInv, NEW l \in Loops, NEW t \in TaskT, t.when = stamp[l], Stamped(l),
         ml' \in {ml, [ml EXCEPT ![l].async_q = Append(@, t)]}
  PROVE  /\ LoopsTyped' /\ StampsInv' /\ QAdded(l, t)
         /\ \A m \in Loops \ {l} : QSame(m)
         /\ \A m \in Loops : DSame(m)
<1>1. /\ ml[l] \in LoopT /\ stamp[l] \in Nat /\ StampsOf(ml[l], stamp[l])
  BY DEF LoopsTyped, StampsInv, Stamps
<1>2. /\ stamp' \in [Loops -> Nat] /\ stamp'[l] = stamp[l] + 1
      /\ \A m \in Loops \ {l} : stamp'[m] = stamp[m]
  BY DEF Stamped, LoopsTyped
<1>3. PICK r : r = WithTask(ml[l], t) OBVIOUS
<1>4. /\ r \in LoopT /\ StampsOf(r, stamp[l] + 1) /\ r.depth = ml[l].depth
      /\ TasksOf(r) = TasksOf(ml[l]) \cup {t} /\ t \notin TasksOf(ml[l])
  BY PostTask, <1>1, <1>3
<1>5. CASE ml' = [ml EXCEPT ![l].async_q = Append(@, t)]
  <2>1. ml' = [ml EXCEPT ![l] = r] BY <1>3, <1>5 DEF WithTask
  <2>2. StampsOf(r, stamp'[l]) BY <1>2, <1>4
  <2>3. /\ LoopsTyped' /\ StampsInv' /\ ml'[l] = r
        /\ \A m \in Loops \ {l} : QSame(m) /\ DSame(m)
    BY <2>1, <2>2, <1>2, <1>4, OneLoop
  <2>4. QAdded(l, t) /\ DSame(l) BY <2>3, <1>4 DEF QAdded, Queued, DSame
  <2> QED BY <2>3, <2>4
<1>6. CASE ml' = ml
  <2>1. ASSUME NEW m \in Loops PROVE Stamps(m)'
    <3>1. ml[m] \in LoopT /\ stamp[m] \in Nat /\ stamp'[m] \in {stamp[m], stamp[m] + 1}
      BY <1>2 DEF LoopsTyped
    <3>2. StampsOf(ml[m], stamp[m]) BY DEF StampsInv, Stamps
    <3>3. StampsOf(ml[m], stamp'[m]) BY <3>1, <3>2, LaterStamps
    <3> QED BY <3>3, <1>6 DEF Stamps
  <2>2. \A m \in Loops : QSame(m) /\ DSame(m) BY <1>6 DEF QSame, DSame, Queued
  <2>3. QAdded(l, t) BY <2>2, <1>4 DEF QAdded, QSame, Queued
  <2>4. LoopsTyped' BY <1>2, <1>6 DEF LoopsTyped
  <2> QED BY <2>1, <2>2, <2>3, <2>4 DEF StampsInv
<1> QED BY <1>5, <1>6

\* The two ways to post.
LEMMA PostsAre ==
  ASSUME NEW m, NEW l, NEW t
  PROVE  /\ ppb_message_loop_post_work_with_result(m, l, t)
              \in {m, [m EXCEPT ![l].async_q = Append(@, t)]}
         /\ ppb_message_loop_post_quit_depth(m, l, t)
              \in {m, [m EXCEPT ![l].async_q = Append(@, t)]}
BY DEF ppb_message_loop_post_work_with_result, ppb_message_loop_post_quit_depth

WithRun(r, d) == [r EXCEPT !.running = TRUE, !.teardown = FALSE, !.depth = d]

\* Entering a run leaves the queues alone.
LEMMA RunRecord ==
  ASSUME NEW r \in LoopT, NEW d \in Nat, NEW r1, r1 = WithRun(r, d)
  PROVE  r1 \in LoopT /\ r1.async_q = r.async_q /\ r1.int_q = r.int_q /\ r1.depth = d
BY DEF LoopT, WithRun

NewRun(f, flags, c, d) ==
  /\ f \in FrameT /\ IsLoop(f) /\ f.call = c /\ f.flags = flags /\ f.depth = d /\ ~f.teardown

\* The frame of a run, and the loop it runs.
LEMMA EnterRun ==
  ASSUME NEW m \in [Loops -> LoopT], NEW l \in Loops, NEW flags \in SUBSET Flags,
         "ML_INCREASE_DEPTH" \in flags, NEW c \in Calls \cup {NoCall}
  PROVE  /\ Entered(m, l, flags) = [m EXCEPT ![l] = WithRun(m[l], m[l].depth + 1)]
         /\ NewRun(LoopFrame(m, l, flags, c), flags, c, m[l].depth + 1)
<1>1. m[l] \in LoopT /\ m[l].depth \in Nat /\ m[l].running \in BOOLEAN /\ m[l].teardown \in BOOLEAN
  BY LoopFields
<1>2. Entered(m, l, flags) = [m EXCEPT ![l] = WithRun(m[l], m[l].depth + 1)]
  BY DEF Entered, WithRun
<1>3. PICK d : d = m[l].depth + 1 OBVIOUS
<1>4. d \in Nat BY <1>1, <1>3
<1>5. Entered(m, l, flags)[l].depth = d
  <2>1. Entered(m, l, flags)[l] = WithRun(m[l], d) BY <1>2, <1>3
  <2> QED BY <2>1, <1>1, <1>4, RunRecord
<1>6. PICK run, td : run = m[l].running /\ td = m[l].teardown OBVIOUS
<1>7. run \in BOOLEAN /\ td \in BOOLEAN BY <1>1, <1>6
<1>8. PICK pump : pump = ("ML_EXIT_ON_EMPTY" \in flags) OBVIOUS
<1>9. PICK f : f = [kind |-> "loop", flags |-> flags, call |-> c, depth |-> d,
                    saved |-> [running |-> run, teardown |-> td],
                    teardown |-> FALSE, destroy_ml |-> FALSE, pumping |-> pump]
  OBVIOUS
<1>10. LoopFrame(m, l, flags, c) = f BY <1>5, <1>6, <1>8, <1>9 DEF LoopFrame
<1>11. f \in FrameT
  <2>1. pump \in BOOLEAN BY <1>8
  <2> QED BY <2>1, <1>4, <1>7, <1>9 DEF FrameT, FrameType
<1>12. IsLoop(f) /\ f.call = c /\ f.flags = flags /\ f.depth = d /\ ~f.teardown
  BY <1>9 DEF IsLoop
<1> QED BY <1>2, <1>3, <1>10, <1>11, <1>12 DEF NewRun

\* A task for a work item.
LEMMA WorkTaskTyped ==
  ASSUME NEW w \in Nat, NEW d \in Nat, NEW k \in WorkItems
  PROVE  LET t == WorkTask(w, d, k) IN
         t \in TaskT /\ t.when = w /\ t.depth = d /\ t.work = k /\ ~t.terminate
BY DEF WorkTask, TaskT, TaskType

\* Work items.
LEMMA WorkTyped ==
  ASSUME NEW c \in Calls \cup {NoCall},
         NEW fn \in {"none", "event", "call_forceredraw_ptac"} \cup PluginFns \cup BrowserFns
  PROVE  LET w == Work(fn, c) IN w \in WorkItems /\ w.fn = fn /\ w.call = c
BY DEF Work, WorkItems, PluginFns, BrowserFns

CallsChange(c, st) ==
  /\ calls' \in [Calls -> CallT] /\ calls'[c].state = st
  /\ \A d \in Calls \ {c} : calls'[d] = calls[d]

IsStep(t, fn, c) == t \in TaskT /\ ~t.terminate /\ t.work.fn = fn /\ t.work.call = c

\* The caller's side: a task with its call, a run that waits for it, the call is made.
LEMMA CallEffect ==
  ASSUME Types, StampsInv, NEW l \in Loops, NEW c \in Calls, NEW td \in Nat,
         NEW fn \in PluginFns \cup BrowserFns, NEW destroys \in BOOLEAN,
         CallAndWait(l, c, fn, td, destroys)
  PROVE  /\ LoopsTyped' /\ StampsInv' /\ stack' \in [Loops -> Seq(FrameT)]
         /\ \E t : QAdded(l, t) /\ IsStep(t, fn, c)
         /\ \E f : Pushed(l, f) /\ NewRun(f, Nested, c, ml[l].depth + 1)
         /\ ml'[l].depth = ml[l].depth + 1
         /\ \A m \in Loops \ {l} : QSame(m) /\ DSame(m) /\ SSame(m)
         /\ CallsChange(c, "called") /\ calls'[c].depth = ml[l].depth + 1
         /\ IsNextCall(c)
<1>1. /\ LoopsTyped /\ ml[l] \in LoopT /\ stamp[l] \in Nat /\ StampsOf(ml[l], stamp[l])
      /\ ml \in [Loops -> LoopT] /\ ml[l].depth \in Nat
  BY LoopFields DEF Types, LoopsTyped, StampsInv, Stamps
<1>2. /\ stamp' \in [Loops -> Nat] /\ stamp'[l] = stamp[l] + 1
      /\ \A m \in Loops \ {l} : stamp'[m] = stamp[m]
  BY <1>1 DEF CallAndWait, Stamped, LoopsTyped
<1>3. PICK t : t = WorkTask(stamp[l], td, Work(fn, c)) OBVIOUS
<1>4. t \in TaskT /\ t.when = stamp[l] /\ IsStep(t, fn, c)
  BY <1>1, <1>3, WorkTyped, WorkTaskTyped DEF IsStep
<1>5. PICK m : m = ppb_message_loop_post_work_with_result(ml, l, t) OBVIOUS
<1>6. m \in {ml, [ml EXCEPT ![l].async_q = Append(@, t)]} BY <1>5, PostsAre
<1>7. PICK r : r = m[l] OBVIOUS
<1>8. /\ r \in LoopT /\ r.depth = ml[l].depth /\ StampsOf(r, stamp[l] + 1) /\ t \notin TasksOf(ml[l])
      /\ TasksOf(r) = TasksOf(ml[l]) \/ TasksOf(r) = TasksOf(ml[l]) \cup {t}
      /\ m \in [Loops -> LoopT] /\ \A k \in Loops \ {l} : m[k] = ml[k]
  <2>1. PICK p : p = WithTask(ml[l], t) OBVIOUS
  <2>2. /\ p \in LoopT /\ StampsOf(p, stamp[l] + 1) /\ p.depth = ml[l].depth
        /\ TasksOf(p) = TasksOf(ml[l]) \cup {t} /\ t \notin TasksOf(ml[l])
    BY PostTask, <1>1, <1>4, <2>1
  <2>3. CASE m = ml
    <3>1. StampsOf(ml[l], stamp[l] + 1) BY <1>1, LaterStamps
    <3> QED BY <2>3, <2>2, <3>1, <1>1, <1>7
  <2>4. CASE m = [ml EXCEPT ![l].async_q = Append(@, t)]
    <3>1. m = [ml EXCEPT ![l] = p] BY <2>1, <2>4 DEF WithTask
    <3>2. r = p BY <3>1, <1>1, <1>7
    <3>3. m \in [Loops -> LoopT] /\ \A k \in Loops \ {l} : m[k] = ml[k] BY <3>1, <2>2, <1>1
    <3> QED BY <3>2, <3>3, <2>2
  <2> QED BY <1>6, <2>3, <2>4
<1>9. Nested \in SUBSET Flags /\ "ML_INCREASE_DEPTH" \in Nested BY DEF Nested, Flags
<1>10. PICK d : d = ml[l].depth + 1 OBVIOUS
<1>11. d \in Nat BY <1>1, <1>10
<1>12. /\ Entered(m, l, Nested) = [m EXCEPT ![l] = WithRun(r, d)]
       /\ NewRun(LoopFrame(m, l, Nested, c), Nested, c, d)
  BY <1>7, <1>8, <1>9, <1>10, EnterRun
<1>13. PICK r1 : r1 = WithRun(r, d) OBVIOUS
<1>14. r1 \in LoopT /\ r1.async_q = r.async_q /\ r1.int_q = r.int_q /\ r1.depth = d
  <2>1. r \in LoopT BY <1>8
  <2> QED BY ONLY <2>1, <1>11, <1>13, RunRecord
<1>15. StampsOf(r1, stamp[l] + 1) /\ TasksOf(r1) = TasksOf(r) BY <1>8, <1>14, SameTasks
<1>16. ml' = [ml EXCEPT ![l] = r1]
  <2>1. ml' = Entered(m, l, Nested) BY <1>3, <1>5 DEF CallAndWait
  <2>2. ml' = [m EXCEPT ![l] = r1] BY <2>1, <1>12, <1>13
  <2> QED BY ONLY <2>2, <1>1, <1>8, <1>14, l \in Loops
<1>17. /\ LoopsTyped' /\ StampsInv' /\ ml'[l] = r1
       /\ \A k \in Loops \ {l} : QSame(k) /\ DSame(k)
  <2>1. StampsOf(r1, stamp'[l]) BY <1>2, <1>15
  <2> QED BY <2>1, <1>1, <1>2, <1>14, <1>16, OneLoop
<1>18. PICK f : f = LoopFrame(m, l, Nested, c) OBVIOUS
<1>19. NewRun(f, Nested, c, d) /\ f \in FrameT BY <1>12, <1>18 DEF NewRun
<1>20. stack' = [stack EXCEPT ![l] = Append(@, f)] BY <1>3, <1>5, <1>18 DEF CallAndWait
<1>21. /\ stack' \in [Loops -> Seq(FrameT)] /\ Pushed(l, f) /\ \A k \in Loops \ {l} : SSame(k)
  BY <1>19, <1>20, PushFrame
<1>22. CallsChange(c, "called") /\ calls'[c].depth = d
  <2>1. PICK e : e = [state |-> "called", depth |-> d, destroys |-> destroys] OBVIOUS
  <2>2. e \in CallT /\ e.state = "called" /\ e.depth = d BY <2>1, <1>11 DEF CallT
  <2>3. calls' = [calls EXCEPT ![c] = e] BY <2>1, <1>10 DEF CallAndWait
  <2>4. calls \in [Calls -> CallT] BY DEF Types
  <2> QED BY <2>2, <2>3, <2>4 DEF CallsChange
<1>23. QAdded(l, t) BY <1>8, <1>15, <1>17 DEF QAdded, Queued
<1>24. IsNextCall(c) BY DEF CallAndWait
<1> QED BY <1>4, <1>10, <1>14, <1>17, <1>19, <1>21, <1>22, <1>23, <1>24

-----------------------------------------------------------------------------
(* What the steps of a loop do.                                            *)

SameRun(f, g) ==
  g \in FrameT /\ IsLoop(g) /\ g.call = f.call /\ g.flags = f.flags /\ g.depth = f.depth

\* A run that has pumped its queue, and one that is in teardown.
LEMMA RunChanges ==
  ASSUME NEW f \in FrameT, IsLoop(f), NEW b \in BOOLEAN, NEW g,
         g = [f EXCEPT !.pumping = FALSE] \/ g = [f EXCEPT !.teardown = TRUE, !.destroy_ml = b]
  PROVE  SameRun(f, g) /\ (g.teardown <=> f.teardown \/ g # [f EXCEPT !.pumping = FALSE])
<1>1. PICK fl, c, d, s, t, x, p :
         f = [kind |-> "loop", flags |-> fl, call |-> c, depth |-> d, saved |-> s,
              teardown |-> t, destroy_ml |-> x, pumping |-> p]
  BY DEF FrameT, FrameType, IsLoop
<1>2. /\ fl \in SUBSET Flags /\ c \in Calls \cup {NoCall} /\ d \in Nat
      /\ s \in [running : BOOLEAN, teardown : BOOLEAN]
      /\ t \in BOOLEAN /\ x \in BOOLEAN /\ p \in BOOLEAN
  BY <1>1, FrameFields
<1>3. CASE g = [f EXCEPT !.pumping = FALSE]
  <2>1. g = [kind |-> "loop", flags |-> fl, call |-> c, depth |-> d, saved |-> s,
             teardown |-> t, destroy_ml |-> x, pumping |-> FALSE]
    BY <1>1, <1>3
  <2>2. g \in FrameT BY <2>1, <1>2 DEF FrameT, FrameType
  <2> QED BY <2>1, <2>2, <1>1, <1>2, <1>3 DEF SameRun, IsLoop
<1>4. CASE g = [f EXCEPT !.teardown = TRUE, !.destroy_ml = b] /\ g # [f EXCEPT !.pumping = FALSE]
  <2>1. g = [kind |-> "loop", flags |-> fl, call |-> c, depth |-> d, saved |-> s,
             teardown |-> TRUE, destroy_ml |-> b, pumping |-> p]
    BY <1>1, <1>4
  <2>2. g \in FrameT BY <2>1, <1>2 DEF FrameT, FrameType
  <2> QED BY <2>1, <2>2, <1>1, <1>2, <1>4 DEF SameRun, IsLoop
<1> QED BY <1>3, <1>4

\* A callback that goes on as another function.
LEMMA CallbackTyped ==
  ASSUME NEW w \in WorkItems
  PROVE  CallbackFrame(w) \in FrameT /\ IsCb(CallbackFrame(w)) /\ CallbackFrame(w).work = w
BY DEF CallbackFrame, FrameT, FrameType, IsCb

\* The top frame.
LEMMA TopFrame ==
  ASSUME Types, NEW l \in Loops, stack[l] # <<>>
  PROVE  /\ Len(stack[l]) \in Nat /\ Len(stack[l]) > 0 /\ Len(stack[l]) \in 1..Len(stack[l])
         /\ Top(l) = stack[l][Len(stack[l])] /\ Top(l) \in FrameT
BY StackTyped DEF Top

\* Taking a task from async_q is not seen.
LEMMA MoveEffect ==
  ASSUME LoopsTyped, StampsInv, NEW l \in Loops, ml[l].async_q # <<>>, MoveToTree(l),
         stamp' = stamp
  PROVE  LoopsTyped' /\ StampsInv' /\ \A m \in Loops : QSame(m) /\ DSame(m)
<1>1. ml[l] \in LoopT /\ stamp[l] \in Nat /\ StampsOf(ml[l], stamp[l])
  BY DEF LoopsTyped, StampsInv, Stamps
<1>2. PICK r : r = WithMoved(ml[l]) OBVIOUS
<1>3. r \in LoopT /\ StampsOf(r, stamp[l]) /\ r.depth = ml[l].depth /\ TasksOf(r) = TasksOf(ml[l])
  BY <1>1, <1>2, MoveTask
<1>4. ml' = [ml EXCEPT ![l] = r] BY <1>2 DEF MoveToTree, WithMoved
<1>5. stamp' \in [Loops -> Nat] BY DEF LoopsTyped
<1>6. /\ LoopsTyped' /\ StampsInv' /\ ml'[l] = r
      /\ \A m \in Loops \ {l} : QSame(m) /\ DSame(m)
  BY <1>3, <1>4, <1>5, OneLoop
<1>7. QSame(l) /\ DSame(l) BY <1>3, <1>6 DEF QSame, DSame, Queued
<1> QED BY <1>6, <1>7

Unseen(l) ==
  /\ \A m \in Loops : QSame(m) /\ DSame(m)
  /\ \A m \in Loops \ {l} : SSame(m)
  /\ SSame(l) \/ \E f \in FrameT : /\ Retopped(l, f) /\ SameRun(Top(l), f) /\ IsLoop(Top(l))
                                   /\ (f.teardown <=> Top(l).teardown)

\* Pumping is not seen either.
LEMMA PumpEffect ==
  ASSUME Types, StampsInv, NEW l \in Loops, Pump(l), stamp' = stamp
  PROVE  LoopsTyped' /\ StampsInv' /\ stack' \in [Loops -> Seq(FrameT)] /\ Unseen(l)
<1>0. LoopsTyped BY DEF LoopsTyped, Types
<1>1. CASE ml[l].async_q # <<>> /\ MoveToTree(l) /\ UNCHANGED stack
  <2>1. LoopsTyped' /\ StampsInv' /\ \A m \in Loops : QSame(m) /\ DSame(m)
    BY <1>0, <1>1, MoveEffect
  <2>2. stack' \in [Loops -> Seq(FrameT)] /\ \A m \in Loops : SSame(m) BY <1>1 DEF Types, SSame
  <2> QED BY <2>1, <2>2 DEF Unseen
<1>2. CASE stack' = [stack EXCEPT ![l][Len(stack[l])].pumping = FALSE] /\ UNCHANGED ml
  <2>1. stack[l] # <<>> /\ IsLoop(Top(l)) /\ Top(l) \in FrameT /\ Top(l) = stack[l][Len(stack[l])]
    BY TopFrame DEF Pump, InLoop, IsLoop
  <2>2. PICK f : f = [Top(l) EXCEPT !.pumping = FALSE] OBVIOUS
  <2>3. SameRun(Top(l), f) /\ (f.teardown <=> Top(l).teardown) /\ f \in FrameT
    <3>1. SameRun(Top(l), f) /\ (f.teardown <=> Top(l).teardown \/ f # [Top(l) EXCEPT !.pumping = FALSE])
      BY <2>1, <2>2, RunChanges
    <3> QED BY <3>1, <2>2 DEF SameRun
  <2>4. stack' = [stack EXCEPT ![l] = [stack[l] EXCEPT ![Len(stack[l])] = f]]
    BY <1>2, <2>1, <2>2
  <2>5. /\ stack' \in [Loops -> Seq(FrameT)] /\ Retopped(l, f)
        /\ \A m \in Loops \ {l} : SSame(m)
    BY <2>1, <2>3, <2>4, RetopFrame
  <2>6. LoopsTyped' /\ StampsInv' /\ \A m \in Loops : QSame(m) /\ DSame(m)
    BY <1>0, <1>2 DEF LoopsTyped, StampsInv, Stamps, QSame, DSame, Queued
  <2> QED BY <2>1, <2>3, <2>5, <2>6 DEF Unseen
<1> QED BY <1>1, <1>2 DEF Pump

\* The task that is due is in the tree, and addressed to the top run or a deeper one.
LEMMA DueTaskIs ==
  ASSUME Types, NEW l \in Loops, NEW now, Due(l, now)
  PROVE  /\ DueTask(l) \in ml[l].int_q /\ DueTask(l) \in TaskT
         /\ DueTask(l).depth = 0 \/ DueTask(l).depth >= Top(l).depth
         /\ stack[l] # <<>> /\ IsLoop(Top(l))
<1>1. ml[l] \in LoopT BY DEF Types
<1>2. Appropriate(l) \in SUBSET TaskT BY <1>1, LoopFields DEF Appropriate
<1>3. First(Appropriate(l)) \in Appropriate(l) BY <1>2, FirstOfTasks DEF Due
<1>4. stack[l] # <<>> /\ IsLoop(Top(l)) BY DEF Due, InLoop, IsLoop
<1> QED BY <1>2, <1>3, <1>4 DEF DueTask, Appropriate

\* A task is taken from the tree of a loop whose other fields may change.
LEMMA TakeEffect ==
  ASSUME LoopsTyped, StampsInv, NEW l \in Loops, NEW t \in ml[l].int_q, NEW r \in LoopT,
         r.async_q = ml[l].async_q, r.int_q = ml[l].int_q \ {t}, ml' = [ml EXCEPT ![l] = r],
         stamp' = stamp
  PROVE  /\ LoopsTyped' /\ StampsInv' /\ ml'[l] = r /\ QTaken(l, t)
         /\ \A m \in Loops \ {l} : QSame(m) /\ DSame(m)
<1>1. ml[l] \in LoopT /\ stamp[l] \in Nat /\ StampsOf(ml[l], stamp[l])
  BY DEF LoopsTyped, StampsInv, Stamps
<1>2. StampsOf(r, stamp[l]) /\ TasksOf(r) = TasksOf(ml[l]) \ {t} /\ t \in TasksOf(ml[l])
  BY <1>1, TakeTask
<1>3. stamp' \in [Loops -> Nat] /\ StampsOf(r, stamp'[l]) BY <1>2 DEF LoopsTyped
<1>4. /\ LoopsTyped' /\ StampsInv' /\ ml'[l] = r
      /\ \A m \in Loops \ {l} : QSame(m) /\ DSame(m)
  BY <1>3, OneLoop
<1> QED BY <1>2, <1>4 DEF QTaken, Queued

Ran(l, t) ==
  /\ t \in TaskT /\ QTaken(l, t) /\ ~t.terminate /\ stack[l] # <<>> /\ IsLoop(Top(l))
  /\ \E f \in FrameT : Pushed(l, f) /\ IsCb(f) /\ f.work = t.work
  /\ \A m \in Loops : DSame(m)
  /\ \A m \in Loops \ {l} : QSame(m) /\ SSame(m)

\* A task becomes a callback.
LEMMA RunEffect ==
  ASSUME Types, StampsInv, NEW l \in Loops, NEW now, RunTask(l, now), stamp' = stamp
  PROVE  LoopsTyped' /\ StampsInv' /\ stack' \in [Loops -> Seq(FrameT)] /\ \E t : Ran(l, t)
<1>0. LoopsTyped /\ ml \in [Loops -> LoopT] BY DEF LoopsTyped, Types
<1>1. Due(l, now) BY DEF RunTask
<1>2. PICK t : t = DueTask(l) OBVIOUS
<1>3. t \in ml[l].int_q /\ t \in TaskT /\ stack[l] # <<>> /\ IsLoop(Top(l)) /\ ~t.terminate
  BY <1>1, <1>2, DueTaskIs DEF RunTask
<1>4. ml' = [ml EXCEPT ![l].int_q = @ \ {t}] BY <1>2 DEF RunTask
<1>5. PICK r : r = [ml[l] EXCEPT !.int_q = ml[l].int_q \ {t}] OBVIOUS
<1>6. r \in LoopT /\ r.async_q = ml[l].async_q /\ r.int_q = ml[l].int_q \ {t} /\ r.depth = ml[l].depth
  <2>1. PICK q : q = ml[l].int_q \ {t} OBVIOUS
  <2>2. q \in SUBSET TaskT /\ ml[l] \in LoopT BY <2>1, <1>0, LoopFields
  <2>3. r = [ml[l] EXCEPT !.int_q = q] BY <1>5, <2>1
  <2>4. r \in LoopT /\ r.async_q = ml[l].async_q /\ r.int_q = q /\ r.depth = ml[l].depth
    BY ONLY <2>2, <2>3 DEF LoopT
  <2> QED BY <2>1, <2>4
<1>7. ml' = [ml EXCEPT ![l] = r] BY <1>4, <1>5
<1>8. /\ LoopsTyped' /\ StampsInv' /\ ml'[l] = r /\ QTaken(l, t)
      /\ \A m \in Loops \ {l} : QSame(m) /\ DSame(m)
  BY <1>0, <1>3, <1>6, <1>7, TakeEffect
<1>9. PICK f : f = CallbackFrame(t.work) OBVIOUS
<1>10. f \in FrameT /\ IsCb(f) /\ f.work = t.work
  <2>1. t.work \in WorkItems BY <1>3, TaskFields
  <2> QED BY <2>1, <1>9, CallbackTyped
<1>11. stack' = [stack EXCEPT ![l] = Append(@, f)] BY <1>2, <1>9 DEF RunTask
<1>12. /\ stack' \in [Loops -> Seq(FrameT)] /\ Pushed(l, f)
       /\ \A m \in Loops \ {l} : SSame(m)
  BY <1>10, <1>11, PushFrame
<1>13. DSame(l) BY <1>6, <1>8 DEF DSame
<1>14. Ran(l, t) BY <1>3, <1>8, <1>10, <1>12, <1>13 DEF Ran
<1> QED BY <1>8, <1>12, <1>14

\* Leaving a run.
LEMMA ExitRecord ==
  ASSUME NEW l \in Loops, ml[l] \in LoopT, NEW f \in FrameT, IsLoop(f),
         "ML_INCREASE_DEPTH" \in f.flags, ml[l].depth > 0, NEW q \in SUBSET TaskT,
         NEW r, r = Exited(l, f, q)
  PROVE  /\ r \in LoopT /\ r.async_q = ml[l].async_q /\ r.int_q = q
         /\ r.depth = ml[l].depth - 1
<1>1. /\ ml[l].depth \in Nat /\ ml[l].running \in BOOLEAN /\ ml[l].teardown \in BOOLEAN
      /\ ml[l].alive \in BOOLEAN
  BY LoopFields
<1>2. f.saved \in [running : BOOLEAN, teardown : BOOLEAN] /\ f.destroy_ml \in BOOLEAN BY FrameFields
<1>3. PICK run, td, al :
        /\ run = ("ML_NESTED" \in f.flags /\ f.saved.running)
        /\ td = (IF "ML_NESTED" \in f.flags THEN f.saved.teardown ELSE ml[l].teardown)
        /\ al = (ml[l].alive /\ ~f.destroy_ml)
  OBVIOUS
<1>4. run \in BOOLEAN /\ td \in BOOLEAN /\ al \in BOOLEAN
  <2>1. f.saved.teardown \in BOOLEAN BY <1>2
  <2> QED BY <1>1, <1>3, <2>1
<1>5. PICK d : d = ml[l].depth - 1 OBVIOUS
<1>6. d \in Nat BY <1>1, <1>5
<1>7. r = [ml[l] EXCEPT !.int_q = q, !.depth = d, !.running = run, !.teardown = td, !.alive = al]
  BY <1>3, <1>5 DEF Exited
<1>8. r \in LoopT /\ r.async_q = ml[l].async_q /\ r.int_q = q /\ r.depth = d
  <2>1. ml[l] \in LoopT OBVIOUS
  <2> QED BY ONLY <2>1, <1>4, <1>6, <1>7, q \in SUBSET TaskT DEF LoopT
<1> QED BY <1>5, <1>8

Left(l) ==
  /\ Popped(l) /\ stack[l] # <<>> /\ IsLoop(Top(l)) /\ ml'[l].depth = ml[l].depth - 1
  /\ \A m \in Loops \ {l} : QSame(m) /\ DSame(m) /\ SSame(m)

\* The depth of a loop in a run.
LEMMA TopRun ==
  ASSUME Types, NEW l \in Loops, Shape(l), stack[l] # <<>>, IsLoop(Top(l))
  PROVE  /\ ml[l].depth \in Nat /\ ml[l].depth > 0 /\ Top(l).depth = ml[l].depth
         /\ "ML_INCREASE_DEPTH" \in Top(l).flags /\ 2 * ml[l].depth = Len(stack[l]) + 1
         /\ Top(l) \in FrameT
<1>1. /\ Len(stack[l]) \in Nat /\ Len(stack[l]) > 0 /\ Len(stack[l]) \in 1..Len(stack[l])
      /\ Top(l) = stack[l][Len(stack[l])] /\ Top(l) \in FrameT
  BY TopFrame
<1>2. ml[l].depth \in Nat BY LoopFields DEF Types
<1>3. Top(l).depth \in Nat BY <1>1, FrameFields
<1>4. 2 * ml[l].depth = Len(stack[l]) + 1 BY <1>1 DEF Shape, ShapeOf
<1>5. 2 * Top(l).depth = Len(stack[l]) + 1 /\ "ML_INCREASE_DEPTH" \in Top(l).flags
  BY <1>1 DEF Shape, ShapeOf
<1>6. Top(l).depth = ml[l].depth /\ ml[l].depth > 0 BY ONLY <1>1, <1>2, <1>3, <1>4, <1>5
<1> QED BY <1>1, <1>2, <1>4, <1>5, <1>6

\* A nested run takes its quit task and is left.
LEMMA QuitNestedEffect ==
  ASSUME Types, StampsInv, NEW l \in Loops, Shape(l), NEW now, QuitNested(l, now), stamp' = stamp
  PROVE  /\ LoopsTyped' /\ StampsInv' /\ stack' \in [Loops -> Seq(FrameT)] /\ Left(l)
         /\ \E t \in TaskT : QTaken(l, t) /\ t.terminate /\ (t.depth = 0 \/ t.depth >= Top(l).depth)
<1>0. LoopsTyped /\ ml[l] \in LoopT BY DEF LoopsTyped, Types
<1>1. Due(l, now) BY DEF QuitNested
<1>2. PICK t : t = DueTask(l) OBVIOUS
<1>3. /\ t \in ml[l].int_q /\ t \in TaskT /\ stack[l] # <<>> /\ IsLoop(Top(l)) /\ t.terminate
      /\ t.depth = 0 \/ t.depth >= Top(l).depth
  BY <1>1, <1>2, DueTaskIs DEF QuitNested
<1>4. ml[l].depth > 0 /\ "ML_INCREASE_DEPTH" \in Top(l).flags /\ Top(l) \in FrameT
  BY <1>3, TopRun
<1>5. PICK q : q = ml[l].int_q \ {t} OBVIOUS
<1>6. q \in SUBSET TaskT BY <1>0, <1>5, LoopFields
<1>7. PICK r : r = Exited(l, Top(l), q) OBVIOUS
<1>8. r \in LoopT /\ r.async_q = ml[l].async_q /\ r.int_q = q /\ r.depth = ml[l].depth - 1
  BY <1>0, <1>3, <1>4, <1>6, <1>7, ExitRecord
<1>9. ml' = [ml EXCEPT ![l] = r] /\ stack' = [stack EXCEPT ![l] = Below(l)]
  BY <1>2, <1>5, <1>7 DEF QuitNested, LeaveLoop
<1>10. /\ LoopsTyped' /\ StampsInv' /\ ml'[l] = r /\ QTaken(l, t)
       /\ \A m \in Loops \ {l} : QSame(m) /\ DSame(m)
  BY <1>0, <1>3, <1>5, <1>8, <1>9, TakeEffect
<1>11. /\ stack' \in [Loops -> Seq(FrameT)] /\ Popped(l)
       /\ \A m \in Loops \ {l} : SSame(m)
  BY <1>3, <1>9, PopFrame
<1> QED BY <1>3, <1>8, <1>10, <1>11 DEF Left

\* A run is left with nothing to do.
LEMMA ExitEffect ==
  ASSUME Types, StampsInv, NEW l \in Loops, Shape(l), ExitOnEmpty(l), stamp' = stamp
  PROVE  /\ LoopsTyped' /\ StampsInv' /\ stack' \in [Loops -> Seq(FrameT)] /\ Left(l) /\ QSame(l)
         /\ Top(l).teardown \/ "ML_EXIT_ON_EMPTY" \in Top(l).flags
<1>0. LoopsTyped /\ ml[l] \in LoopT /\ stamp \in [Loops -> Nat] BY DEF LoopsTyped, Types
<1>1. /\ stack[l] # <<>> /\ IsLoop(Top(l))
      /\ Top(l).teardown \/ "ML_EXIT_ON_EMPTY" \in Top(l).flags
  BY DEF ExitOnEmpty, InLoop, IsLoop
<1>2. ml[l].depth > 0 /\ "ML_INCREASE_DEPTH" \in Top(l).flags /\ Top(l) \in FrameT
  BY <1>1, TopRun
<1>3. PICK q : q = ml[l].int_q OBVIOUS
<1>4. q \in SUBSET TaskT BY <1>0, <1>3, LoopFields
<1>5. PICK r : r = Exited(l, Top(l), q) OBVIOUS
<1>6. r \in LoopT /\ r.async_q = ml[l].async_q /\ r.int_q = q /\ r.depth = ml[l].depth - 1
  BY <1>0, <1>1, <1>2, <1>4, <1>5, ExitRecord
<1>7. ml' = [ml EXCEPT ![l] = r] /\ stack' = [stack EXCEPT ![l] = Below(l)]
  BY <1>3, <1>5 DEF ExitOnEmpty, LeaveLoop
<1>8. StampsOf(ml[l], stamp[l]) BY DEF StampsInv, Stamps
<1>9. StampsOf(r, stamp[l]) /\ TasksOf(r) = TasksOf(ml[l]) BY <1>3, <1>6, <1>8, SameTasks
<1>10. /\ LoopsTyped' /\ StampsInv' /\ ml'[l] = r
       /\ \A m \in Loops \ {l} : QSame(m) /\ DSame(m)
  BY <1>0, <1>6, <1>7, <1>9, OneLoop
<1>11. /\ stack' \in [Loops -> Seq(FrameT)] /\ Popped(l)
       /\ \A m \in Loops \ {l} : SSame(m)
  BY <1>1, <1>7, PopFrame
<1>12. QSame(l) BY <1>9, <1>10 DEF QSame, Queued
<1> QED BY <1>1, <1>6, <1>10, <1>11, <1>12 DEF Left

TornDown(l) ==
  /\ stack[l] # <<>> /\ IsLoop(Top(l))
  /\ \E f \in FrameT : Retopped(l, f) /\ SameRun(Top(l), f)
  /\ \E t \in TaskT : QTaken(l, t) /\ t.terminate /\ (t.depth = 0 \/ t.depth >= Top(l).depth)
  /\ \A m \in Loops : DSame(m)
  /\ \A m \in Loops \ {l} : QSame(m) /\ SSame(m)

\* The outermost run takes its quit task and goes on in teardown.
LEMMA QuitOutermostEffect ==
  ASSUME Types, StampsInv, NEW l \in Loops, NEW now, QuitOutermost(l, now), stamp' = stamp
  PROVE  LoopsTyped' /\ StampsInv' /\ stack' \in [Loops -> Seq(FrameT)] /\ TornDown(l)
<1>0. LoopsTyped /\ ml[l] \in LoopT BY DEF LoopsTyped, Types
<1>1. Due(l, now) BY DEF QuitOutermost
<1>2. PICK t : t = DueTask(l) OBVIOUS
<1>3. /\ t \in ml[l].int_q /\ t \in TaskT /\ stack[l] # <<>> /\ IsLoop(Top(l)) /\ t.terminate
      /\ t.depth = 0 \/ t.depth >= Top(l).depth
  BY <1>1, <1>2, DueTaskIs DEF QuitOutermost
<1>4. PICK q : q = ml[l].int_q \ {t} OBVIOUS
<1>5. q \in SUBSET TaskT BY <1>0, <1>4, LoopFields
<1>6. PICK r : r = [ml[l] EXCEPT !.teardown = TRUE, !.int_q = q] OBVIOUS
<1>7. r \in LoopT /\ r.async_q = ml[l].async_q /\ r.int_q = q /\ r.depth = ml[l].depth
  BY ONLY <1>0, <1>5, <1>6 DEF LoopT
<1>8. ml' = [ml EXCEPT ![l] = r] BY <1>2, <1>4, <1>6 DEF QuitOutermost
<1>9. /\ LoopsTyped' /\ StampsInv' /\ ml'[l] = r /\ QTaken(l, t)
      /\ \A m \in Loops \ {l} : QSame(m) /\ DSame(m)
  BY <1>0, <1>3, <1>4, <1>7, <1>8, TakeEffect
<1>10. Top(l) = stack[l][Len(stack[l])] /\ Top(l) \in FrameT BY <1>3, TopFrame
<1>11. PICK b : b = t.destroy OBVIOUS
<1>12. PICK f : f = [Top(l) EXCEPT !.teardown = TRUE, !.destroy_ml = b] OBVIOUS
<1>13. b \in BOOLEAN BY <1>3, <1>11, TaskFields
<1>14. SameRun(Top(l), f) /\ f \in FrameT
  <2>1. SameRun(Top(l), f) BY <1>3, <1>10, <1>12, <1>13, RunChanges
  <2> QED BY <2>1 DEF SameRun
<1>15. stack' = [stack EXCEPT ![l] = [stack[l] EXCEPT ![Len(stack[l])] = f]]
  BY <1>2, <1>10, <1>11, <1>12 DEF QuitOutermost
<1>16. /\ stack' \in [Loops -> Seq(FrameT)] /\ Retopped(l, f)
       /\ \A m \in Loops \ {l} : SSame(m)
  BY <1>3, <1>14, <1>15, RetopFrame
<1>17. DSame(l) BY <1>7, <1>9 DEF DSame
<1> QED BY <1>3, <1>9, <1>14, <1>16, <1>17 DEF TornDown

\* Popping async_q is not seen.
LEMMA PopEffect ==
  ASSUME Types, StampsInv, NEW l \in Loops, NEW now, PopAsync(l, now), stamp' = stamp
  PROVE  LoopsTyped' /\ StampsInv' /\ stack' \in [Loops -> Seq(FrameT)] /\ Unseen(l)
<1>1. LoopsTyped BY DEF LoopsTyped, Types
<1>2. LoopsTyped' /\ StampsInv' /\ \A m \in Loops : QSame(m) /\ DSame(m)
  BY <1>1, MoveEffect DEF PopAsync
<1>3. stack' \in [Loops -> Seq(FrameT)] /\ \A m \in Loops : SSame(m) BY DEF PopAsync, Types, SSame
<1> QED BY <1>2, <1>3 DEF Unseen

-----------------------------------------------------------------------------
(* What the callbacks do.                                                  *)

AtWork(l, w) == stack[l] # <<>> /\ IsCb(Top(l)) /\ Top(l).work = w /\ w \in WorkItems

\* The callback on top.
LEMMA InWork ==
  ASSUME Types, NEW l \in Loops, NEW fns, InFunction(l, fns)
  PROVE  \E w : AtWork(l, w) /\ w.fn \in fns
<1>1. stack[l] # <<>> /\ IsCb(Top(l)) /\ Top(l).work.fn \in fns BY DEF InFunction, InCallback, IsCb
<1>2. Top(l).work \in WorkItems BY <1>1, TopFrame, FrameFields
<1> QED BY <1>1, <1>2 DEF AtWork

Returned(l) == Popped(l) /\ \A m \in Loops \ {l} : SSame(m)

\* A callback returns.
LEMMA ReturnEffect ==
  ASSUME Types, NEW l \in Loops, NEW w, AtWork(l, w), Returns(l)
  PROVE  stack' \in [Loops -> Seq(FrameT)] /\ Returned(l)
BY PopFrame DEF Returns, Returned, AtWork

\* The fields of a work item.
LEMMA WorkFields ==
  ASSUME NEW w \in WorkItems
  PROVE  /\ w.call \in Calls \cup {NoCall} /\ w.depth \in Nat
         /\ w.fn \in {"none", "event", "call_forceredraw_ptac"} \cup PluginFns \cup BrowserFns
BY DEF WorkItems, PluginFns, BrowserFns

PostedTo(l, t) ==
  /\ t \in TaskT /\ QAdded(l, t)
  /\ \A m \in Loops \ {l} : QSame(m)
  /\ \A m \in Loops : DSame(m)

\* A post of a step of a call, or of other work.
LEMMA PostWork ==
  ASSUME Types, StampsInv, NEW l \in Loops, NEW d \in Nat, NEW c \in Calls \cup {NoCall},
         NEW fn \in {"none", "event", "call_forceredraw_ptac"} \cup PluginFns \cup BrowserFns,
         ml' = ppb_message_loop_post_work_with_result(ml, l, WorkTask(stamp[l], d, Work(fn, c))),
         Stamped(l)
  PROVE  LoopsTyped' /\ StampsInv' /\ \E t : PostedTo(l, t) /\ IsStep(t, fn, c)
<1>1. LoopsTyped /\ stamp[l] \in Nat BY DEF Types, LoopsTyped
<1>2. PICK t : t = WorkTask(stamp[l], d, Work(fn, c)) OBVIOUS
<1>3. Work(fn, c) \in WorkItems /\ Work(fn, c).fn = fn /\ Work(fn, c).call = c BY WorkTyped
<1>4. t \in TaskT /\ t.when = stamp[l] /\ IsStep(t, fn, c)
  BY <1>1, <1>2, <1>3, WorkTaskTyped DEF IsStep
<1>5. ml' \in {ml, [ml EXCEPT ![l].async_q = Append(@, t)]} BY <1>2, PostsAre
<1>6. /\ LoopsTyped' /\ StampsInv' /\ QAdded(l, t)
      /\ \A m \in Loops \ {l} : QSame(m)
      /\ \A m \in Loops : DSame(m)
  BY <1>1, <1>4, <1>5, PostEffect
<1> QED BY <1>4, <1>6 DEF PostedTo

IsAnswer(t, c) == t \in TaskT /\ t.terminate /\ t.depth = calls[c].depth /\ t.work.call = NoCall
                  /\ t.work.fn = "none"

\* An answer.
LEMMA AnswerEffect ==
  ASSUME Types, StampsInv, NEW l \in Loops, NEW c \in Calls, Answer(l, c)
  PROVE  /\ LoopsTyped' /\ StampsInv' /\ \E t : PostedTo(l, t) /\ IsAnswer(t, c)
         /\ CallsChange(c, "handled") /\ calls'[c].depth = calls[c].depth
<1>1. LoopsTyped /\ stamp[l] \in Nat /\ calls \in [Calls -> CallT] /\ calls[c] \in CallT
  BY DEF Types, LoopsTyped
<1>2. calls[c].depth \in Nat BY <1>1 DEF CallT
<1>3. PICK t : t = QuitTask(stamp[l], calls[c].depth, FALSE, Work("none", NoCall)) OBVIOUS
<1>4. /\ Work("none", NoCall) \in WorkItems /\ Work("none", NoCall).fn = "none"
      /\ Work("none", NoCall).call = NoCall
  BY WorkTyped
<1>5. t \in TaskT /\ t.when = stamp[l] /\ IsAnswer(t, c)
  <2>1. PICK k : k = Work("none", NoCall) OBVIOUS
  <2>2. k \in WorkItems /\ k.fn = "none" /\ k.call = NoCall BY <1>4, <2>1
  <2>3. PICK d, w : d = calls[c].depth /\ w = stamp[l] OBVIOUS
  <2>4. t = QuitTask(w, d, FALSE, k) BY <1>3, <2>1, <2>3
  <2>5. d \in Nat /\ w \in Nat BY <1>1, <1>2, <2>3
  <2>6. t \in TaskT /\ t.when = w /\ t.depth = d /\ t.work = k /\ t.terminate
    BY ONLY <2>2, <2>4, <2>5 DEF QuitTask, TaskT, TaskType
  <2> QED BY <2>2, <2>3, <2>6 DEF IsAnswer
<1>6. ml' \in {ml, [ml EXCEPT ![l].async_q = Append(@, t)]} BY <1>3, PostsAre DEF Answer
<1>7. /\ LoopsTyped' /\ StampsInv' /\ QAdded(l, t)
      /\ \A m \in Loops \ {l} : QSame(m)
      /\ \A m \in Loops : DSame(m)
  BY <1>1, <1>5, <1>6, PostEffect DEF Answer
<1>8. CallsChange(c, "handled") /\ calls'[c].depth = calls[c].depth
  <2>1. PICK e : e = [calls[c] EXCEPT !.state = "handled"] OBVIOUS
  <2>2. e \in CallT /\ e.state = "handled" /\ e.depth = calls[c].depth
    BY ONLY <2>1, <1>1 DEF CallT
  <2>3. calls' = [calls EXCEPT ![c] = e] BY <2>1 DEF Answer
  <2> QED BY <2>2, <2>3, <1>1 DEF CallsChange
<1> QED BY <1>5, <1>7, <1>8 DEF PostedTo

-----------------------------------------------------------------------------
(* The calls a thread waits for.                                           *)

\* c is waited for by a run on the stack.
LEMMA WaitsIs ==
  ASSUME NEW l, NEW c, stack[l] \in Seq(FrameT)
  PROVE  c \in Waits(l) <=> \E i \in 1..Len(stack[l]) : Waiter(stack[l][i]) /\ stack[l][i].call = c
<1>1. DOMAIN stack[l] = 1..Len(stack[l]) OBVIOUS
<1> QED BY <1>1 DEF Waits, LoopFrames, Waiter, IsLoop

\* The same, after a step.
LEMMA WaitsIsNext ==
  ASSUME NEW l, NEW c, stack'[l] \in Seq(FrameT)
  PROVE  c \in Waits(l)' <=> \E i \in 1..Len(stack'[l]) : Waiter(stack'[l][i]) /\ stack'[l][i].call = c
<1>1. DOMAIN stack'[l] = 1..Len(stack'[l]) OBVIOUS
<1> QED BY <1>1 DEF Waits, LoopFrames, Waiter, IsLoop

NextTyped == stack' \in [Loops -> Seq(FrameT)]

\* Other steps leave it alone.
LEMMA WaitsSame == ASSUME NEW l, SSame(l) PROVE Waits(l)' = Waits(l)
BY DEF SSame, Waits, LoopFrames

\* A run that waits for a call is entered, or one that waits for none.
LEMMA WaitsPushRun ==
  ASSUME Types, NextTyped, NEW l \in Loops, NEW f, Pushed(l, f), IsLoop(f)
  PROVE  Waits(l)' = IF f.call = NoCall THEN Waits(l) ELSE Waits(l) \cup {f.call}
<1>1. stack[l] \in Seq(FrameT) /\ stack'[l] \in Seq(FrameT) BY DEF Types, NextTyped
<1>2. Len(stack[l]) \in Nat BY <1>1
<1>3. \A i \in 1..Len(stack'[l]) : i = Len(stack[l]) + 1 \/ i \in 1..Len(stack[l])
  BY <1>2 DEF Pushed
<1>4. Len(stack[l]) + 1 \in 1..Len(stack'[l]) /\ \A i \in 1..Len(stack[l]) : i \in 1..Len(stack'[l])
  BY <1>2 DEF Pushed
<1>5. ASSUME NEW c
      PROVE  c \in Waits(l)' <=> c \in Waits(l) \/ (f.call # NoCall /\ c = f.call)
  <2>1. c \in Waits(l)' => c \in Waits(l) \/ (f.call # NoCall /\ c = f.call)
    BY <1>1, <1>3, WaitsIs, WaitsIsNext DEF Pushed, Waiter
  <2>2. c \in Waits(l) => c \in Waits(l)' BY <1>1, <1>4, WaitsIs, WaitsIsNext DEF Pushed
  <2>3. f.call # NoCall /\ c = f.call => c \in Waits(l)'
    BY <1>1, <1>4, WaitsIsNext DEF Pushed, Waiter
  <2> QED BY <2>1, <2>2, <2>3
<1>6. CASE f.call = NoCall BY <1>5, <1>6
<1>7. CASE f.call # NoCall
  <2>1. Waits(l)' = Waits(l) \cup {f.call} BY <1>5, <1>7
  <2> QED BY <2>1, <1>7
<1> QED BY <1>6, <1>7

\* A callback starts.
LEMMA WaitsPushCb ==
  ASSUME Types, NextTyped, NEW l \in Loops, NEW f \in FrameT, Pushed(l, f), IsCb(f)
  PROVE  Waits(l)' = Waits(l)
<1>1. stack[l] \in Seq(FrameT) /\ stack'[l] \in Seq(FrameT) BY DEF Types, NextTyped
<1>2. Len(stack[l]) \in Nat /\ ~Waiter(f) BY <1>1, FrameFields DEF Waiter
<1>3. \A i \in 1..Len(stack'[l]) : i = Len(stack[l]) + 1 \/ i \in 1..Len(stack[l])
  BY <1>2 DEF Pushed
<1>4. \A i \in 1..Len(stack[l]) : i \in 1..Len(stack'[l]) BY <1>2 DEF Pushed
<1>5. ASSUME NEW c PROVE  c \in Waits(l)' <=> c \in Waits(l)
  BY <1>1, <1>2, <1>3, <1>4, WaitsIs, WaitsIsNext DEF Pushed
<1> QED BY <1>5

\* A callback returns.
LEMMA WaitsPopCb ==
  ASSUME Types, NextTyped, NEW l \in Loops, Popped(l), stack[l] # <<>>, IsCb(Top(l))
  PROVE  Waits(l)' = Waits(l)
<1>1. stack[l] \in Seq(FrameT) /\ stack'[l] \in Seq(FrameT) BY DEF Types, NextTyped
<1>2. Len(stack[l]) \in Nat /\ ~Waiter(stack[l][Len(stack[l])])
  BY <1>1, TopFrame, FrameFields DEF Waiter
<1>3. \A i \in 1..Len(stack[l]) : i = Len(stack[l]) \/ i \in 1..(Len(stack[l]) - 1) BY <1>2
<1>4. \A i \in 1..(Len(stack[l]) - 1) : i \in 1..Len(stack[l]) BY <1>2
<1>5. ASSUME NEW c \in Waits(l) PROVE  c \in Waits(l)'
  <2>1. PICK i \in 1..Len(stack[l]) : Waiter(stack[l][i]) /\ stack[l][i].call = c
    BY <1>1, WaitsIs
  <2>2. i \in 1..(Len(stack[l]) - 1) BY <2>1, <1>2, <1>3
  <2>3. i \in 1..Len(stack'[l]) /\ stack'[l][i] = stack[l][i] BY <2>2 DEF Popped
  <2> QED BY <2>1, <2>3, <1>1, WaitsIsNext
<1>6. ASSUME NEW c \in Waits(l)' PROVE  c \in Waits(l)
  <2>1. PICK i \in 1..Len(stack'[l]) : Waiter(stack'[l][i]) /\ stack'[l][i].call = c
    BY <1>1, WaitsIsNext
  <2>2. i \in 1..(Len(stack[l]) - 1) /\ stack'[l][i] = stack[l][i] BY <2>1 DEF Popped
  <2> QED BY <2>1, <2>2, <1>1, <1>4, WaitsIs
<1> QED BY <1>5, <1>6

\* A run is left: its call is the last one made of those that were waited for.
LEMMA WaitsPopRun ==
  ASSUME Types, NextTyped, NEW l \in Loops, Waiters(l), Popped(l), stack[l] # <<>>, IsLoop(Top(l))
  PROVE  /\ Waits(l)' = Waits(l) \ {Top(l).call}
         /\ Top(l).call # NoCall =>
              Top(l).call \in Waits(l) /\ \A d \in Waits(l) : d <= Top(l).call
<1>1. stack[l] \in Seq(FrameT) /\ stack'[l] \in Seq(FrameT) BY DEF Types, NextTyped
<1>2. PICK n : n = Len(stack[l]) OBVIOUS
<1>3. n \in Nat /\ n > 0 /\ n \in 1..n /\ Top(l) = stack[l][n] /\ Top(l) \in FrameT
  BY <1>2, TopFrame
<1>4. \A i \in 1..n : i = n \/ (i \in 1..(n - 1) /\ i < n) BY <1>3
<1>5. \A i \in 1..(n - 1) : i \in 1..n BY <1>3
<1>6. \A i \in 1..n : Waiter(stack[l][i]) => stack[l][i].call \in Calls /\ stack[l][i].call # NoCall
  BY <1>1, <1>2, FrameFields, StackTyped DEF Waiter
<1>7. \A i \in 1..(n - 1) : Waiter(stack[l][i]) /\ Top(l).call # NoCall => stack[l][i].call < Top(l).call
  BY <1>2, <1>3, <1>4, <1>5 DEF Waiters, Waiter
<1>8. Len(stack'[l]) = n - 1 /\ \A i \in 1..(n - 1) : stack'[l][i] = stack[l][i]
  BY <1>2 DEF Popped
<1>9. \A c \in Calls : c \in Nat BY DEF Calls
<1>10. ASSUME NEW c PROVE c \in Waits(l)' <=> c \in Waits(l) /\ c # Top(l).call
  <2>1. ASSUME c \in Waits(l)' PROVE c \in Waits(l) /\ c # Top(l).call
    <3>1. PICK i \in 1..(n - 1) : Waiter(stack[l][i]) /\ stack[l][i].call = c
      BY <2>1, <1>1, <1>8, WaitsIsNext
    <3>2. c \in Waits(l) BY <3>1, <1>1, <1>2, <1>5, WaitsIs
    <3>3. c \in Calls /\ c # NoCall BY <3>1, <1>5, <1>6
    <3>4. Top(l).call # NoCall => c < Top(l).call BY <3>1, <1>7
    <3> QED BY <3>2, <3>3, <3>4, <1>9
  <2>2. ASSUME c \in Waits(l), c # Top(l).call PROVE c \in Waits(l)'
    <3>1. PICK i \in 1..n : Waiter(stack[l][i]) /\ stack[l][i].call = c
      BY <2>2, <1>1, <1>2, WaitsIs
    <3>2. i \in 1..(n - 1) BY <3>1, <2>2, <1>3, <1>4
    <3> QED BY <3>1, <3>2, <1>1, <1>8, WaitsIsNext
  <2> QED BY <2>1, <2>2
<1>11. ASSUME Top(l).call # NoCall, NEW d \in Waits(l) PROVE d <= Top(l).call
  <2>1. PICK i \in 1..n : Waiter(stack[l][i]) /\ stack[l][i].call = d
    BY <1>1, <1>2, WaitsIs
  <2>2. d \in Nat BY <2>1, <1>6, <1>9
  <2>3. CASE i = n BY <2>1, <2>2, <2>3, <1>3
  <2>4. CASE i \in 1..(n - 1)
    <3>1. d < Top(l).call BY <2>1, <2>4, <1>7, <1>11
    <3>2. Top(l).call \in Nat BY <1>3, <1>9, <1>11, FrameFields
    <3> QED BY <3>1, <3>2, <2>2
  <2> QED BY <1>4, <2>3, <2>4
<1>12. Top(l).call # NoCall => Top(l).call \in Waits(l)
  BY <1>1, <1>2, <1>3, WaitsIs DEF Waiter
<1> QED BY <1>10, <1>11, <1>12

\* The top frame changes but not what it waits for.
LEMMA WaitsRetop ==
  ASSUME Types, NextTyped, NEW l \in Loops, NEW f \in FrameT, Retopped(l, f), stack[l] # <<>>,
         (IsCb(Top(l)) /\ IsCb(f)) \/ (IsLoop(Top(l)) /\ SameRun(Top(l), f))
  PROVE  Waits(l)' = Waits(l)
<1>1. stack[l] \in Seq(FrameT) /\ stack'[l] \in Seq(FrameT) BY DEF Types, NextTyped
<1>2. PICK n : n = Len(stack[l]) OBVIOUS
<1>3. n \in Nat /\ n > 0 /\ n \in 1..n /\ Top(l) = stack[l][n] /\ Top(l) \in FrameT
  BY <1>2, TopFrame
<1>4. \A i \in 1..n : i = n \/ i \in 1..(n - 1) BY <1>3
<1>5. /\ Len(stack'[l]) = n /\ stack'[l][n] = f
      /\ \A i \in 1..(n - 1) : stack'[l][i] = stack[l][i]
  BY <1>2 DEF Retopped
<1>6. /\ Waiter(f) <=> Waiter(Top(l))
      /\ Waiter(f) => f.call = Top(l).call
  BY <1>3, FrameFields DEF Waiter, SameRun
<1>7. \A i \in 1..n : /\ Waiter(stack'[l][i]) <=> Waiter(stack[l][i])
                      /\ Waiter(stack[l][i]) => stack'[l][i].call = stack[l][i].call
  BY <1>3, <1>4, <1>5, <1>6
<1>8. ASSUME NEW c PROVE  c \in Waits(l)' <=> c \in Waits(l)
  BY <1>1, <1>2, <1>5, <1>7, WaitsIs, WaitsIsNext
<1> QED BY <1>8

-----------------------------------------------------------------------------
(* The frames after a step: those below the top are as they were.          *)

Over(l, F) ==
  \A i \in 1..Len(stack'[l]) :
    \/ i \in 1..Len(stack[l]) /\ stack'[l][i] = stack[l][i]
    \/ i = Len(stack'[l]) /\ stack'[l][i] \in F

\* Nothing else is on the stack but a new top.
LEMMA OverStep ==
  ASSUME Types, NextTyped, NEW l \in Loops
  PROVE  /\ SSame(l) => Over(l, {})
         /\ Popped(l) => Over(l, {})
         /\ \A f : Pushed(l, f) => Over(l, {f})
         /\ \A f : Retopped(l, f) => Over(l, {f})
<1>1. Len(stack[l]) \in Nat /\ Len(stack'[l]) \in Nat BY DEF Types, NextTyped
<1>2. SSame(l) => Over(l, {}) BY DEF SSame, Over
<1>3. Popped(l) => Over(l, {}) BY <1>1 DEF Popped, Over
<1>4. ASSUME NEW f, Pushed(l, f) PROVE Over(l, {f})
  <2>1. \A i \in 1..Len(stack'[l]) : i = Len(stack[l]) + 1 \/ i \in 1..Len(stack[l])
    BY <1>1, <1>4 DEF Pushed
  <2> QED BY <2>1, <1>4 DEF Pushed, Over
<1>5. ASSUME NEW f, Retopped(l, f) PROVE Over(l, {f})
  <2>1. \A i \in 1..Len(stack'[l]) : i = Len(stack[l]) \/ i \in 1..(Len(stack[l]) - 1)
    BY <1>1, <1>5 DEF Retopped
  <2>2. \A i \in 1..(Len(stack[l]) - 1) : i \in 1..Len(stack[l]) BY <1>1
  <2> QED BY <2>1, <2>2, <1>5 DEF Retopped, Over
<1> QED BY <1>2, <1>3, <1>4, <1>5

\* A frame that is put on a stack keeps its shape.
LEMMA ShapePush ==
  ASSUME NEW s \in Seq(FrameT), NEW t \in Seq(FrameT), NEW f \in FrameT, NEW d \in Nat, NEW e \in Nat,
         ShapeOf(s, d), Len(t) = Len(s) + 1, t[Len(s) + 1] = f,
         \A i \in 1..Len(s) : t[i] = s[i],
         \/ IsCb(f) /\ Len(s) > 0 /\ IsLoop(s[Len(s)]) /\ e = d
         \/ /\ IsLoop(f) /\ (Len(s) > 0 => IsCb(s[Len(s)])) /\ e = d + 1
            /\ f.depth = e /\ "ML_INCREASE_DEPTH" \in f.flags
  PROVE  ShapeOf(t, e)
<1> DEFINE n == Len(s)
<1>1. n \in Nat /\ \A i \in 1..(n + 1) : i = n + 1 \/ i \in 1..n OBVIOUS
<1>2. IsLoop(f) => ~IsCb(f) BY FrameFields
<1>3. n > 0 => n \in 1..n /\ (IsCb(s[n]) => ~IsLoop(s[n])) BY FrameFields
<1>4. IsLoop(f) => 2 * f.depth = (n + 1) + 1 /\ "ML_INCREASE_DEPTH" \in f.flags
  BY <1>1, <1>2, <1>3 DEF ShapeOf
<1>5. 2 * e = IF IsLoop(f) THEN (n + 1) + 1 ELSE n + 1
  <2>1. CASE IsCb(f) BY <1>2, <1>3, <2>1 DEF ShapeOf
  <2>2. CASE IsLoop(f) BY <1>4, <2>2, <1>2
  <2> QED BY <2>1, <2>2
<1>6. IsCb(f) => n + 1 > 1 /\ IsLoop(t[(n + 1) - 1]) BY <1>1, <1>2, <1>3
<1>7. IsLoop(f) /\ n + 1 > 1 => IsCb(t[(n + 1) - 1]) BY <1>1, <1>2, <1>3
<1>8. \A i \in 1..n : i > 1 => i - 1 \in 1..n BY <1>1
<1>9. ASSUME NEW i \in 1..(n + 1)
      PROVE  /\ IsLoop(t[i]) => 2 * t[i].depth = i + 1 /\ "ML_INCREASE_DEPTH" \in t[i].flags
             /\ IsCb(t[i]) => i > 1 /\ IsLoop(t[i - 1])
             /\ IsLoop(t[i]) /\ i > 1 => IsCb(t[i - 1])
  <2>1. CASE i = n + 1 BY <2>1, <1>4, <1>6, <1>7
  <2>2. CASE i \in 1..n
    <3>1. t[i] = s[i] /\ (i > 1 => t[i - 1] = s[i - 1]) BY <2>2, <1>8
    <3> QED BY <2>2, <3>1 DEF ShapeOf
  <2> QED BY <1>1, <2>1, <2>2
<1>10. n + 1 > 0 BY <1>1
<1> QED BY <1>5, <1>9, <1>10 DEF ShapeOf

\* So does one that is taken off.
LEMMA ShapePop ==
  ASSUME NEW s \in Seq(FrameT), NEW t \in Seq(FrameT), NEW d \in Nat, NEW e \in Nat,
         ShapeOf(s, d), Len(s) > 0, Len(t) = Len(s) - 1, \A i \in 1..(Len(s) - 1) : t[i] = s[i],
         IF IsCb(s[Len(s)]) THEN e = d ELSE e = d - 1
  PROVE  ShapeOf(t, e)
<1> DEFINE n == Len(s)
<1>1. n \in Nat /\ n > 0 /\ n \in 1..n /\ \A i \in 1..(n - 1) : i \in 1..n OBVIOUS
<1>2. \A i \in 1..n : s[i] \in FrameT /\ (IsLoop(s[i]) \/ IsCb(s[i])) /\ ~(IsLoop(s[i]) /\ IsCb(s[i]))
  BY FrameFields
<1>3. 2 * e = IF n - 1 > 0 /\ IsLoop(t[n - 1]) THEN (n - 1) + 1 ELSE n - 1
  <2>0. n - 1 > 0 => n - 1 \in 1..(n - 1) /\ n > 1 BY <1>1
  <2>1. CASE IsCb(s[n])
    <3>1. 2 * d = n /\ n > 1 /\ IsLoop(s[n - 1]) BY <2>1, <1>1, <1>2 DEF ShapeOf
    <3>2. e = d BY <2>1
    <3>3. n - 1 > 0 /\ n - 1 \in 1..(n - 1) BY <3>1, <1>1
    <3>4. t[n - 1] = s[n - 1] BY <3>3
    <3>5. (n - 1) + 1 = n BY <1>1
    <3> QED BY <3>1, <3>2, <3>3, <3>4, <3>5
  <2>2. CASE IsLoop(s[n])
    <3>1. 2 * d = n + 1 BY <2>2, <1>1 DEF ShapeOf
    <3>2. e = d - 1 BY <2>2, <1>1, <1>2
    <3>3. n - 1 > 0 => ~IsLoop(t[n - 1])
      <4>1. ASSUME n - 1 > 0 PROVE ~IsLoop(t[n - 1])
        <5>1. IsCb(s[n - 1]) BY <4>1, <2>2, <1>1 DEF ShapeOf
        <5> QED BY <5>1, <4>1, <2>0, <1>1, <1>2
      <4> QED BY <4>1
    <3> QED BY <3>1, <3>2, <3>3, <1>1
  <2> QED BY <2>1, <2>2, <1>1, <1>2
<1>4. \A i \in 1..(n - 1) : i > 1 => i - 1 \in 1..(n - 1) BY <1>1
<1>5. ASSUME NEW i \in 1..(n - 1)
      PROVE  /\ IsLoop(t[i]) => 2 * t[i].depth = i + 1 /\ "ML_INCREASE_DEPTH" \in t[i].flags
             /\ IsCb(t[i]) => i > 1 /\ IsLoop(t[i - 1])
             /\ IsLoop(t[i]) /\ i > 1 => IsCb(t[i - 1])
  <2>1. t[i] = s[i] /\ (i > 1 => t[i - 1] = s[i - 1]) BY <1>4
  <2> QED BY <1>1, <2>1 DEF ShapeOf
<1> QED BY <1>3, <1>5 DEF ShapeOf

\* So does a top that changes.
LEMMA ShapeRetop ==
  ASSUME NEW s \in Seq(FrameT), NEW t \in Seq(FrameT), NEW f \in FrameT, NEW d \in Nat,
         ShapeOf(s, d), Len(s) > 0, Len(t) = Len(s), \A i \in 1..(Len(s) - 1) : t[i] = s[i],
         t[Len(s)] = f,
         (IsCb(s[Len(s)]) /\ IsCb(f)) \/ (IsLoop(s[Len(s)]) /\ SameRun(s[Len(s)], f))
  PROVE  ShapeOf(t, d)
<1> DEFINE n == Len(s)
<1>1. n \in Nat /\ n > 0 /\ n \in 1..n /\ \A i \in 1..n : i = n \/ i \in 1..(n - 1) OBVIOUS
<1>2. (IsLoop(f) <=> IsLoop(s[n])) /\ (IsCb(f) <=> IsCb(s[n])) BY <1>1, FrameFields DEF SameRun
<1>3. IsLoop(f) => f.depth = s[n].depth /\ f.flags = s[n].flags BY <1>1, FrameFields DEF SameRun
<1>4. \A i \in 1..n : (IsLoop(t[i]) <=> IsLoop(s[i])) /\ (IsCb(t[i]) <=> IsCb(s[i]))
  BY <1>1, <1>2
<1>5. \A i \in 1..n : IsLoop(t[i]) => t[i].depth = s[i].depth /\ t[i].flags = s[i].flags
  BY <1>1, <1>3
<1>6. \A i \in 1..n : i > 1 => i - 1 \in 1..n BY <1>1
<1>7. ASSUME NEW i \in 1..n
      PROVE  /\ IsLoop(t[i]) => 2 * t[i].depth = i + 1 /\ "ML_INCREASE_DEPTH" \in t[i].flags
             /\ IsCb(t[i]) => i > 1 /\ IsLoop(t[i - 1])
             /\ IsLoop(t[i]) /\ i > 1 => IsCb(t[i - 1])
  BY <1>4, <1>5, <1>6 DEF ShapeOf
<1>8. 2 * d = IF n > 0 /\ IsLoop(t[n]) THEN n + 1 ELSE n BY <1>1, <1>4 DEF ShapeOf
<1> QED BY <1>7, <1>8 DEF ShapeOf

-----------------------------------------------------------------------------
(* The calls that are waited for.                                          *)

(* The calls that stay waited for keep their depth, and their answer. *)
CallsKeep(l) ==
  \A c \in Waits(l) \cap Waits(l)' :
               /\ calls'[c].depth = calls[c].depth
               /\ calls[c].state = "called" => calls'[c].state \in {"called", "handled"}
               /\ calls[c].state = "handled" => calls'[c].state = "handled"

(* A new top that waits does so for a later call. *)
NewWaiters(l, F) ==
  /\ \A f \in F : Fits(calls', f)
  /\ \A f \in F : Waiter(f) =>
       \A j \in 1..Len(stack[l]) : j < Len(stack'[l]) /\ Waiter(stack[l][j]) => stack[l][j].call < f.call

\* The runs on a stack stay those of their calls.
LEMMA WaitersStep ==
  ASSUME Types, NextTyped, NEW l \in Loops, NEW F, Over(l, F), Waiters(l), CallsKeep(l), NewWaiters(l, F)
  PROVE  Waiters(l)'
<1>1. stack[l] \in Seq(FrameT) /\ stack'[l] \in Seq(FrameT) BY DEF Types, NextTyped
<1>2. Len(stack[l]) \in Nat /\ Len(stack'[l]) \in Nat BY <1>1
<1>3. ASSUME NEW i \in 1..Len(stack'[l]) PROVE Fits(calls', stack'[l][i])
  <2>1. CASE i \in 1..Len(stack[l]) /\ stack'[l][i] = stack[l][i]
    <3>1. PICK f : f = stack[l][i] OBVIOUS
    <3>2. Fits(calls, f) BY <2>1, <3>1 DEF Waiters
    <3>3. Waiter(f) => f.call \in Waits(l) /\ f.call \in Waits(l)'
      BY <2>1, <3>1, <1>1, WaitsIs, WaitsIsNext
    <3>4. Fits(calls', f) BY <3>2, <3>3 DEF Fits, CallsKeep
    <3> QED BY <2>1, <3>1, <3>4
  <2>2. CASE stack'[l][i] \in F BY <2>2 DEF NewWaiters
  <2> QED BY <2>1, <2>2 DEF Over
<1>4. ASSUME NEW i \in 1..Len(stack'[l]), NEW j \in 1..Len(stack'[l]), i < j,
             Waiter(stack'[l][i]), Waiter(stack'[l][j])
      PROVE  stack'[l][i].call < stack'[l][j].call
  <2>1. i # Len(stack'[l]) /\ i < Len(stack'[l]) BY <1>2, <1>4
  <2>2. i \in 1..Len(stack[l]) /\ stack'[l][i] = stack[l][i] BY <2>1 DEF Over
  <2>3. CASE j \in 1..Len(stack[l]) /\ stack'[l][j] = stack[l][j]
    BY <1>4, <2>2, <2>3 DEF Waiters
  <2>4. CASE j = Len(stack'[l]) /\ stack'[l][j] \in F BY <1>4, <2>1, <2>2, <2>4 DEF NewWaiters
  <2> QED BY <2>3, <2>4 DEF Over
<1> QED BY <1>3, <1>4 DEF Waiters

(* No call under way but x is handled, returned or let down by its caller. *)
KeepsCalled(x) ==
  \A c \in Calls \ {x} : calls[c].state = "called" =>
    calls'[c].state = "called" /\ \A m \in Loops : c \in Waits(m) => c \in Waits(m)'

\* A step of a call stays one.
LEMMA CarriesKept ==
  ASSUME NEW l \in Loops, NEW w, NEW x, Carries(calls, AllWaits, l, w), KeepsCalled(x),
         w.call # x \/ x = NoCall
  PROVE  Carries(calls', AllWaits', l, w)
<1>1. CallerOf(w.fn) \in Loops BY LoopsAssumption DEF CallerOf
<1>2. CASE Serves(l, w.fn)
  <2>1. w.call \in Calls /\ calls[w.call].state = "called" /\ w.call \in Waits(CallerOf(w.fn))
    BY <1>1, <1>2 DEF Carries, AllWaits
  <2>2. w.call \in Calls \ {x} BY <2>1 DEF Calls, NoCall
  <2>3. calls'[w.call].state = "called" /\ w.call \in Waits(CallerOf(w.fn))'
    BY <2>1, <2>2, <1>1 DEF KeepsCalled
  <2>4. w.call \in AllWaits'[CallerOf(w.fn)] BY <2>3, <1>1 DEF AllWaits
  <2> QED BY <2>1, <2>3, <2>4, <1>2 DEF Carries
<1>3. CASE ~Serves(l, w.fn) BY <1>3 DEF Carries
<1> QED BY <1>2, <1>3

Gone(l, x) == x = NoCall \/ (x \notin QueuedCalls(l) /\ x \notin FrameCalls(l)')

(* A new task or callback has work of this loop to do. *)
NewWorks(l, F, T) ==
  /\ Queued(l)' \subseteq Queued(l) \cup T
  /\ \A t \in T : Carries(calls', AllWaits', l, t.work)
  /\ \A f \in F : IsCb(f) => Carries(calls', AllWaits', l, f.work)

\* The steps of calls in the queues and on the stack of a loop stay such.
LEMMA WorksStep ==
  ASSUME NEW l \in Loops, NEW F, NEW T, NEW x, Over(l, F), Works(l), KeepsCalled(x),
         Gone(l, x), NewWorks(l, F, T)
  PROVE  Works(l)'
<1>1. ASSUME NEW t \in Queued(l)' PROVE Carries(calls', AllWaits', l, t.work)
  <2>1. CASE t \in Queued(l)
    <3>1. Carries(calls, AllWaits, l, t.work) BY <2>1 DEF Works
    <3>2. x = NoCall \/ t.work.call # x BY <2>1 DEF QueuedCalls, Gone
    <3>3. PICK w : w = t.work OBVIOUS
    <3> QED BY <3>1, <3>2, <3>3, CarriesKept
  <2>2. CASE t \in T BY <2>2 DEF NewWorks
  <2> QED BY <2>1, <2>2 DEF NewWorks
<1>2. ASSUME NEW i \in 1..Len(stack'[l]), IsCb(stack'[l][i])
      PROVE  Carries(calls', AllWaits', l, stack'[l][i].work)
  <2>1. CASE i \in 1..Len(stack[l]) /\ stack'[l][i] = stack[l][i]
    <3>1. Carries(calls, AllWaits, l, stack[l][i].work) BY <1>2, <2>1 DEF Works
    <3>2. x = NoCall \/ stack'[l][i].work.call # x BY <1>2 DEF FrameCalls, Gone
    <3>3. PICK w : w = stack[l][i].work OBVIOUS
    <3>4. Carries(calls', AllWaits', l, w) BY <2>1, <3>1, <3>2, <3>3, CarriesKept
    <3> QED BY <2>1, <3>3, <3>4
  <2>2. CASE stack'[l][i] \in F BY <1>2, <2>2 DEF NewWorks
  <2> QED BY <2>1, <2>2 DEF Over
<1> QED BY <1>1, <1>2 DEF Works

(* The call of a new task or callback has no other here. *)
NewSingles(l, F, T) ==
  /\ Queued(l)' \subseteq Queued(l) \cup T
  /\ \A t \in T : t.work.call = NoCall \/ t.work.call \notin QueuedCalls(l)
  /\ \A t, u \in T : t = u
  /\ \A f \in F : IsCb(f) /\ f.work.call # NoCall =>
       \A j \in 1..Len(stack[l]) : j < Len(stack'[l]) /\ IsCb(stack[l][j]) => stack[l][j].work.call # f.work.call

\* A call still has one step in the queues, or one on the stack.
LEMMA SingleStep ==
  ASSUME Types, NextTyped, NEW l \in Loops, NEW F, NEW T, Over(l, F), Single(l), NewSingles(l, F, T)
  PROVE  Single(l)'
<1>1. ASSUME NEW t \in Queued(l)', NEW u \in Queued(l)', t.work.call = u.work.call, t.work.call # NoCall
      PROVE  t = u
  <2>1. CASE t \in Queued(l) /\ u \in Queued(l) BY <1>1, <2>1 DEF Single
  <2>2. CASE t \in T /\ u \in T BY <2>2 DEF NewSingles
  <2>3. CASE t \in T /\ u \in Queued(l)
    <3>1. u.work.call \in QueuedCalls(l) BY <1>1, <2>3 DEF QueuedCalls
    <3> QED BY <3>1, <2>3, <1>1 DEF NewSingles
  <2>4. CASE u \in T /\ t \in Queued(l)
    <3>1. t.work.call \in QueuedCalls(l) BY <1>1, <2>4 DEF QueuedCalls
    <3> QED BY <3>1, <2>4, <1>1 DEF NewSingles
  <2> QED BY <2>1, <2>2, <2>3, <2>4 DEF NewSingles
<1>2. Len(stack'[l]) \in Nat /\ Len(stack[l]) \in Nat BY DEF NextTyped, Types
<1>3. ASSUME NEW i \in 1..Len(stack'[l]), NEW j \in 1..Len(stack'[l]), i < j,
             IsCb(stack'[l][i]), IsCb(stack'[l][j]),
             stack'[l][i].work.call = stack'[l][j].work.call, stack'[l][i].work.call # NoCall
      PROVE  FALSE
  <2>1. i # Len(stack'[l]) /\ i < Len(stack'[l]) BY <1>2, <1>3
  <2>2. i \in 1..Len(stack[l]) /\ stack'[l][i] = stack[l][i] BY <2>1 DEF Over
  <2>3. CASE j \in 1..Len(stack[l]) /\ stack'[l][j] = stack[l][j]
    <3>1. i = j BY <1>3, <2>2, <2>3 DEF Single
    <3> QED BY <3>1, <1>3, <1>2
  <2>4. CASE j = Len(stack'[l]) /\ stack'[l][j] \in F BY <1>3, <2>1, <2>2, <2>4 DEF NewSingles
  <2> QED BY <2>3, <2>4 DEF Over
<1>4. ASSUME NEW i \in 1..Len(stack'[l]), NEW j \in 1..Len(stack'[l]),
             IsCb(stack'[l][i]), IsCb(stack'[l][j]),
             stack'[l][i].work.call = stack'[l][j].work.call, stack'[l][i].work.call # NoCall
      PROVE  i = j
  <2>1. i < j \/ j < i \/ i = j BY <1>2
  <2>2. ~(i < j) BY <1>3, <1>4
  <2>3. ~(j < i) BY <1>3, <1>4
  <2> QED BY <2>1, <2>2, <2>3
<1> QED BY <1>1, <1>4 DEF Single

(* The places where a step of call c may be; the others are as they were. *)
OthersStay(c) ==
  \A m \in Loops : /\ QueuedCalls(m)' \subseteq QueuedCalls(m) \cup {c}
                   /\ FrameCalls(m)' \subseteq FrameCalls(m) \cup {c}

\* A step of a call that moves is in one place again.
LEMMA PlacesStep ==
  ASSUME Places, NEW c, OthersStay(c),
         \A m, k \in Loops : ~(c \in QueuedCalls(m)' /\ c \in FrameCalls(k)'),
         \A m, k \in Loops : m # k => /\ ~(c \in QueuedCalls(m)' /\ c \in QueuedCalls(k)')
                                      /\ ~(c \in FrameCalls(m)' /\ c \in FrameCalls(k)')
  PROVE  Places'
<1>1. ASSUME NEW m \in Loops, NEW k \in Loops, NEW d, d \in QueuedCalls(m)', d \in FrameCalls(k)' PROVE FALSE
  <2>1. d # c BY <1>1
  <2>2. d \in QueuedCalls(m) /\ d \in FrameCalls(k) BY <1>1, <2>1 DEF OthersStay
  <2> QED BY <2>2 DEF Places
<1>2. ASSUME NEW m \in Loops, NEW k \in Loops, m # k, NEW d, d \in QueuedCalls(m)', d \in QueuedCalls(k)'
      PROVE  FALSE
  <2>1. d # c BY <1>2
  <2>2. d \in QueuedCalls(m) /\ d \in QueuedCalls(k) BY <1>2, <2>1 DEF OthersStay
  <2> QED BY <2>2, <1>2 DEF Places
<1>3. ASSUME NEW m \in Loops, NEW k \in Loops, m # k, NEW d, d \in FrameCalls(m)', d \in FrameCalls(k)'
      PROVE  FALSE
  <2>1. d # c BY <1>3
  <2>2. d \in FrameCalls(m) /\ d \in FrameCalls(k) BY <1>3, <2>1 DEF OthersStay
  <2> QED BY <2>2, <1>3 DEF Places
<1>4. \A m, k \in Loops : (QueuedCalls(m) \cap FrameCalls(k))' = {} BY <1>1
<1>5. \A m, k \in Loops : m # k => (QueuedCalls(m) \cap QueuedCalls(k))' = {} BY <1>2
<1>6. \A m, k \in Loops : m # k => (FrameCalls(m) \cap FrameCalls(k))' = {} BY <1>3
<1> QED BY <1>4, <1>5, <1>6 DEF Places

-----------------------------------------------------------------------------
(* The quit tasks.                                                         *)

(* Every run that waits is still there. *)
SameWaiter(f, g) ==
  Waiter(g) /\ g.call = f.call /\ g.depth = f.depth /\ (g.teardown <=> f.teardown)

KeepsRuns(l) ==
  \A i \in 1..Len(stack[l]) : Waiter(stack[l][i]) =>
    \E j \in 1..Len(stack'[l]) : SameWaiter(stack[l][i], stack'[l][j])

\* Only a run that is left goes.
LEMMA KeepsRunsStep ==
  ASSUME Types, NextTyped, NEW l \in Loops
  PROVE  /\ SSame(l) => KeepsRuns(l)
         /\ \A f : Pushed(l, f) => KeepsRuns(l)
         /\ Popped(l) /\ IsCb(Top(l)) => KeepsRuns(l)
         /\ \A f \in FrameT : Retopped(l, f) /\ IsCb(Top(l)) => KeepsRuns(l)
         /\ \A f \in FrameT : /\ Retopped(l, f) /\ IsLoop(Top(l)) /\ SameRun(Top(l), f)
                              /\ (f.teardown <=> Top(l).teardown)
                              => KeepsRuns(l)
<1>1. stack[l] \in Seq(FrameT) /\ Len(stack[l]) \in Nat /\ Len(stack'[l]) \in Nat
  BY DEF Types, NextTyped
<1>2. SSame(l) => KeepsRuns(l) BY DEF SSame, KeepsRuns, SameWaiter
<1>3. ASSUME NEW f, Pushed(l, f) PROVE KeepsRuns(l)
  <2>1. \A i \in 1..Len(stack[l]) : i \in 1..Len(stack'[l]) /\ stack'[l][i] = stack[l][i]
    BY <1>1, <1>3 DEF Pushed
  <2> QED BY <2>1 DEF KeepsRuns, SameWaiter
<1>4. \A i \in 1..Len(stack[l]) : i = Len(stack[l]) \/ i \in 1..(Len(stack[l]) - 1) BY <1>1
<1>5. Len(stack[l]) > 0 => Top(l) = stack[l][Len(stack[l])] /\ Top(l) \in FrameT
  BY <1>1 DEF Top
<1>6. ASSUME IsCb(Top(l)), Len(stack[l]) > 0,
             \A i \in 1..(Len(stack[l]) - 1) : i \in 1..Len(stack'[l]) /\ stack'[l][i] = stack[l][i]
      PROVE  KeepsRuns(l)
  <2>1. ~Waiter(stack[l][Len(stack[l])]) BY <1>5, <1>6, FrameFields DEF Waiter
  <2>2. \A i \in 1..Len(stack[l]) : Waiter(stack[l][i]) =>
          i \in 1..Len(stack'[l]) /\ stack'[l][i] = stack[l][i]
    BY <1>4, <1>6, <2>1
  <2> QED BY <2>2 DEF KeepsRuns, SameWaiter
<1>7. Popped(l) /\ IsCb(Top(l)) => KeepsRuns(l)
  <2>1. Popped(l) => \A i \in 1..(Len(stack[l]) - 1) : i \in 1..Len(stack'[l]) BY <1>1 DEF Popped
  <2> QED BY <2>1, <1>6 DEF Popped
<1>8. ASSUME NEW f \in FrameT, Retopped(l, f), IsCb(Top(l)) PROVE KeepsRuns(l)
  <2>1. \A i \in 1..(Len(stack[l]) - 1) : i \in 1..Len(stack'[l]) BY <1>1, <1>8 DEF Retopped
  <2> QED BY <2>1, <1>6, <1>8 DEF Retopped
<1>9. ASSUME NEW f \in FrameT, Retopped(l, f), IsLoop(Top(l)), SameRun(Top(l), f),
             (f.teardown <=> Top(l).teardown)
      PROVE  KeepsRuns(l)
  <2>1. \A i \in 1..(Len(stack[l]) - 1) : i \in 1..Len(stack'[l]) /\ stack'[l][i] = stack[l][i]
    BY <1>1, <1>9 DEF Retopped
  <2>2. Len(stack[l]) \in 1..Len(stack'[l]) /\ stack'[l][Len(stack[l])] = f
    BY <1>1, <1>9 DEF Retopped
  <2>3. Waiter(Top(l)) => SameWaiter(Top(l), f) BY <1>9 DEF SameWaiter, Waiter, SameRun
  <2>4. Top(l) = stack[l][Len(stack[l])] BY DEF Top
  <2>5. \A i \in 1..(Len(stack[l]) - 1) : Waiter(stack[l][i]) => SameWaiter(stack[l][i], stack'[l][i])
    BY <2>1 DEF SameWaiter
  <2> QED BY <1>4, <2>1, <2>2, <2>3, <2>4, <2>5 DEF KeepsRuns
<1> QED BY <1>2, <1>3, <1>7, <1>8, <1>9

\* A run that ends with a quit task still does.
LEMMA EndsKept ==
  ASSUME Types, NextTyped, NEW l \in Loops, CallsKeep(l), NEW t,
         NEW i \in 1..Len(stack[l]), NEW j \in 1..Len(stack'[l]),
         SameWaiter(stack[l][i], stack'[l][j]), Ends(calls, t, stack[l][i])
  PROVE  Ends(calls', t, stack'[l][j])
<1>1. stack[l] \in Seq(FrameT) /\ stack'[l] \in Seq(FrameT) BY DEF Types, NextTyped
<1>2. PICK f, g : f = stack[l][i] /\ g = stack'[l][j] OBVIOUS
<1>3. Waiter(f) /\ Waiter(g) /\ g.call = f.call /\ g.depth = f.depth /\ ~g.teardown /\ f.depth = t.depth
      /\ calls[f.call].state = "handled"
  BY <1>2 DEF SameWaiter, Ends
<1>4. f.call \in Waits(l) /\ f.call \in Waits(l)' BY <1>1, <1>2, <1>3, WaitsIs, WaitsIsNext
<1>5. calls'[f.call].state = "handled" BY <1>3, <1>4 DEF CallsKeep
<1> QED BY <1>2, <1>3, <1>5 DEF Ends

NoNewQuit(l) == \A t \in Queued(l)' : t.terminate => t \in Queued(l)

\* A step that leaves the runs alone leaves every quit task its run.
LEMMA QuitsKept ==
  ASSUME Types, NextTyped, NEW l \in Loops, CallsKeep(l), KeepsRuns(l), Quits(l), NoNewQuit(l)
  PROVE  Quits(l)'
<1>1. ASSUME NEW t \in Queued(l)', t.terminate
      PROVE  \E i \in 1..Len(stack'[l]) : Ends(calls', t, stack'[l][i])
  <2>1. t \in Queued(l) BY <1>1 DEF NoNewQuit
  <2>2. PICK i \in 1..Len(stack[l]) : Ends(calls, t, stack[l][i]) BY <1>1, <2>1 DEF Quits
  <2>3. Waiter(stack[l][i]) BY <2>2 DEF Ends
  <2>4. PICK j \in 1..Len(stack'[l]) : SameWaiter(stack[l][i], stack'[l][j]) BY <2>3 DEF KeepsRuns
  <2> QED BY <2>2, <2>4, EndsKept
<1>2. ASSUME NEW t \in Queued(l)', NEW u \in Queued(l)', t.terminate, u.terminate, t.depth = u.depth
      PROVE  t = u
  <2>1. t \in Queued(l) /\ u \in Queued(l) BY <1>2 DEF NoNewQuit
  <2> QED BY <1>2, <2>1 DEF Quits
<1> QED BY <1>1, <1>2 DEF Quits

\* A run that goes, or that is in teardown from now on, has no quit task.
LEMMA QuitsLess ==
  ASSUME Types, NextTyped, NEW l \in Loops, stack[l] # <<>>, CallsKeep(l), Quits(l),
         \A i \in 1..(Len(stack[l]) - 1) : i \in 1..Len(stack'[l]) /\ stack'[l][i] = stack[l][i],
         Queued(l)' \subseteq Queued(l),
         \A t \in Queued(l)' : t.terminate => ~Ends(calls, t, Top(l))
  PROVE  Quits(l)'
<1>0. Len(stack[l]) \in Nat /\ Top(l) = stack[l][Len(stack[l])] BY TopFrame
<1>1. ASSUME NEW t \in Queued(l)', t.terminate
      PROVE  \E i \in 1..Len(stack'[l]) : Ends(calls', t, stack'[l][i])
  <2>1. PICK i \in 1..Len(stack[l]) : Ends(calls, t, stack[l][i]) BY <1>1 DEF Quits
  <2>2. i # Len(stack[l]) BY <1>0, <1>1, <2>1
  <2>3. i \in 1..(Len(stack[l]) - 1) BY <1>0, <2>2
  <2>4. i \in 1..Len(stack'[l]) /\ stack'[l][i] = stack[l][i] BY <2>3
  <2>5. SameWaiter(stack[l][i], stack'[l][i]) BY <2>1, <2>4 DEF SameWaiter, Ends
  <2> QED BY <2>1, <2>4, <2>5, EndsKept
<1>2. ASSUME NEW t \in Queued(l)', NEW u \in Queued(l)', t.terminate, u.terminate, t.depth = u.depth
      PROVE  t = u
  BY <1>2 DEF Quits
<1> QED BY <1>1, <1>2 DEF Quits

\* The run that a quit task ends, when it is taken, is the one on top.
LEMMA EnderIsTop ==
  ASSUME Types, NEW l \in Loops, Shape(l), Quits(l), stack[l] # <<>>, IsLoop(Top(l)),
         NEW t \in TaskT, t \in Queued(l), t.terminate, t.depth = 0 \/ t.depth >= Top(l).depth
  PROVE  /\ Ends(calls, t, Top(l))
         /\ \A u \in Queued(l) \ {t} : u.terminate => ~Ends(calls, u, Top(l))
<1>1. PICK i \in 1..Len(stack[l]) : Ends(calls, t, stack[l][i]) BY DEF Quits
<1>2. PICK n : n = Len(stack[l]) OBVIOUS
<1>3. n \in Nat /\ n \in 1..n /\ i \in 1..n /\ Top(l) = stack[l][n] BY <1>2, TopFrame
<1>4. PICK d, e : d = stack[l][i].depth /\ e = Top(l).depth OBVIOUS
<1>5. d \in Nat /\ e \in Nat
  <2>1. stack[l][i] \in FrameT /\ IsLoop(stack[l][i]) BY <1>1, StackTyped DEF Ends, Waiter
  <2>2. Top(l) \in FrameT BY TopFrame
  <2> QED BY <2>1, <2>2, <1>4, FrameFields
<1>6. 2 * d = i + 1
  <2>1. IsLoop(stack[l][i]) BY <1>1 DEF Ends, Waiter
  <2> QED BY <2>1, <1>4 DEF Shape, ShapeOf
<1>7. 2 * e = n + 1 BY <1>2, <1>3, <1>4 DEF Shape, ShapeOf
<1>8. d = 0 \/ d >= e BY <1>1, <1>4 DEF Ends
<1>9. i = n BY ONLY <1>3, <1>5, <1>6, <1>7, <1>8
<1>10. Ends(calls, t, Top(l)) BY <1>1, <1>3, <1>9
<1>11. ASSUME NEW u \in Queued(l) \ {t}, u.terminate, Ends(calls, u, Top(l)) PROVE FALSE
  <2>1. u.depth = t.depth BY <1>10, <1>11 DEF Ends
  <2> QED BY <2>1, <1>11 DEF Quits
<1> QED BY <1>10, <1>11

\* An answer is the one quit task for the run of its call.
LEMMA QuitsAnswer ==
  ASSUME Types, NextTyped, NEW l \in Loops, Shape(l), Waiters(l), Quits(l), CallsKeep(l), SSame(l),
         NEW c \in Calls, c \in Waits(l), calls[c].state = "called", calls'[c].state = "handled",
         NEW t, Queued(l)' \subseteq Queued(l) \cup {t}, t.depth = calls[c].depth
  PROVE  Quits(l)'
<1>1. stack[l] \in Seq(FrameT) BY DEF Types
<1>2. PICK i \in 1..Len(stack[l]) : Waiter(stack[l][i]) /\ stack[l][i].call = c BY <1>1, WaitsIs
<1>3. PICK f : f = stack[l][i] OBVIOUS
<1>4. Fits(calls, f) /\ Waiter(f) /\ f.call = c BY <1>2, <1>3 DEF Waiters
<1>5. f.depth = t.depth /\ ~f.teardown BY <1>4 DEF Fits
<1>6. Ends(calls', t, f) BY <1>4, <1>5 DEF Ends
<1>7. KeepsRuns(l) BY KeepsRunsStep
<1>8. ASSUME NEW u \in Queued(l), u.terminate
      PROVE  /\ u.depth # t.depth
             /\ \E k \in 1..Len(stack'[l]) : Ends(calls', u, stack'[l][k])
  <2>1. PICK k \in 1..Len(stack[l]) : Ends(calls, u, stack[l][k]) BY <1>8 DEF Quits
  <2>2. Waiter(stack[l][k]) BY <2>1 DEF Ends
  <2>3. PICK j \in 1..Len(stack'[l]) : SameWaiter(stack[l][k], stack'[l][j]) BY <2>2, <1>7 DEF KeepsRuns
  <2>4. Ends(calls', u, stack'[l][j]) BY <2>1, <2>3, EndsKept
  <2>5. ASSUME u.depth = t.depth PROVE FALSE
    <3>1. PICK d : d = t.depth OBVIOUS
    <3>2. stack[l][k].depth = d /\ stack[l][i].depth = d BY <2>1, <2>5, <3>1, <1>3, <1>5 DEF Ends
    <3>3. 2 * d = k + 1 /\ 2 * d = i + 1 BY <3>2, <2>2, <1>2 DEF Waiter, Shape, ShapeOf
    <3>4. i = k BY <3>3, <1>1
    <3>5. calls[c].state = "handled" BY <3>4, <2>1, <1>2 DEF Ends
    <3> QED BY <3>5
  <2> QED BY <2>4, <2>5
<1>9. \E k \in 1..Len(stack'[l]) : Ends(calls', t, stack'[l][k]) BY <1>3, <1>6 DEF SSame
<1>10. \A u \in Queued(l)' : u \in Queued(l) \/ u = t OBVIOUS
<1>11. \A u \in Queued(l)' : u.terminate => \E k \in 1..Len(stack'[l]) : Ends(calls', u, stack'[l][k])
  BY <1>8, <1>9, <1>10
<1>12. ASSUME NEW u \in Queued(l)', NEW v \in Queued(l)', u.terminate, v.terminate, u.depth = v.depth
       PROVE  u = v
  <2>1. CASE u \in Queued(l) /\ v \in Queued(l) BY <1>12, <2>1 DEF Quits
  <2>2. CASE u = t /\ v = t BY <2>2
  <2>3. CASE u = t /\ v \in Queued(l) BY <2>3, <1>8, <1>12
  <2>4. CASE v = t /\ u \in Queued(l) BY <2>4, <1>8, <1>12
  <2> QED BY <1>10, <2>1, <2>2, <2>3, <2>4
<1> QED BY <1>11, <1>12 DEF Quits

-----------------------------------------------------------------------------
(* Where the steps of calls are.                                           *)

\* A call that is waited for is under way or handled.
LEMMA WaitsUsed ==
  ASSUME Types, NEW l \in Loops, Waiters(l), NEW c \in Waits(l)
  PROVE  c \in Calls /\ c # NoCall /\ calls[c].state \in {"called", "handled"}
<1>1. stack[l] \in Seq(FrameT) BY DEF Types
<1>2. PICK i \in 1..Len(stack[l]) : Waiter(stack[l][i]) /\ stack[l][i].call = c BY <1>1, WaitsIs
<1>3. PICK f : f = stack[l][i] OBVIOUS
<1>4. f \in FrameT /\ Waiter(f) /\ f.call = c /\ Fits(calls, f) BY <1>1, <1>2, <1>3 DEF Waiters
<1>5. f.call \in Calls \cup {NoCall} BY <1>4, FrameFields DEF Waiter
<1> QED BY <1>4, <1>5 DEF Fits, Waiter

\* A call with a step in a queue or on a stack is under way.
LEMMA PlacedCalled ==
  ASSUME NEW l \in Loops, Works(l), NEW c, c \in QueuedCalls(l) \/ c \in FrameCalls(l)
  PROVE  c \in Calls /\ c # NoCall /\ calls[c].state = "called"
<1>1. \A w : Carries(calls, AllWaits, l, w) /\ w.call # NoCall =>
        w.call \in Calls /\ calls[w.call].state = "called"
  BY DEF Carries
<1>2. CASE c \in QueuedCalls(l)
  <2>1. PICK t \in Queued(l) : t.work.call = c /\ c # NoCall BY <1>2 DEF QueuedCalls
  <2>2. PICK w : w = t.work OBVIOUS
  <2>3. Carries(calls, AllWaits, l, w) BY <2>1, <2>2 DEF Works
  <2> QED BY <2>1, <2>2, <2>3, <1>1
<1>3. CASE c \in FrameCalls(l)
  <2>1. PICK i \in 1..Len(stack[l]) : IsCb(stack[l][i]) /\ stack[l][i].work.call = c /\ c # NoCall
    BY <1>3 DEF FrameCalls
  <2>2. PICK w : w = stack[l][i].work OBVIOUS
  <2>3. Carries(calls, AllWaits, l, w) BY <2>1, <2>2 DEF Works
  <2> QED BY <2>1, <2>2, <2>3, <1>1
<1> QED BY <1>2, <1>3

\* What posting and taking do to the calls with a step in a queue.
LEMMA QueuedCallsStep ==
  ASSUME NEW l
  PROVE  /\ QSame(l) => QueuedCalls(l)' = QueuedCalls(l)
         /\ \A t : QAdded(l, t) => QueuedCalls(l)' \subseteq QueuedCalls(l) \cup ({t.work.call} \ {NoCall})
         /\ \A t : QTaken(l, t) => QueuedCalls(l)' \subseteq QueuedCalls(l)
         /\ \A t : QTaken(l, t) /\ Single(l) => t.work.call \notin QueuedCalls(l)'
         /\ \A t : QTaken(l, t) /\ t.work.call # NoCall => t.work.call \in QueuedCalls(l)
<1>1. QSame(l) => QueuedCalls(l)' = QueuedCalls(l) BY DEF QSame, QueuedCalls
<1>2. ASSUME NEW t, QAdded(l, t)
      PROVE  QueuedCalls(l)' \subseteq QueuedCalls(l) \cup ({t.work.call} \ {NoCall})
  BY <1>2 DEF QAdded, QueuedCalls
<1>3. ASSUME NEW t, QTaken(l, t) PROVE QueuedCalls(l)' \subseteq QueuedCalls(l)
  BY <1>3 DEF QTaken, QueuedCalls
<1>4. ASSUME NEW t, QTaken(l, t), Single(l) PROVE t.work.call \notin QueuedCalls(l)'
  <2>1. ASSUME NEW u \in Queued(l)', u.work.call # NoCall, u.work.call = t.work.call PROVE FALSE
    <3>1. u \in Queued(l) /\ u # t /\ t \in Queued(l) BY <1>4 DEF QTaken
    <3> QED BY <3>1, <2>1, <1>4 DEF Single
  <2> QED BY <2>1 DEF QueuedCalls
<1>5. \A t : QTaken(l, t) /\ t.work.call # NoCall => t.work.call \in QueuedCalls(l)
  BY DEF QTaken, QueuedCalls
<1> QED BY <1>1, <1>2, <1>3, <1>4, <1>5

\* What the frames do to the calls with a step on a stack.
LEMMA FrameCallsStep ==
  ASSUME Types, NextTyped, NEW l \in Loops, NEW F, Over(l, F), \A f \in F : f \in FrameT
  PROVE  /\ FrameCalls(l)' \subseteq FrameCalls(l) \cup ({f.work.call : f \in {g \in F : IsCb(g)}} \ {NoCall})
         /\ (\A f \in F : IsLoop(f)) => FrameCalls(l)' \subseteq FrameCalls(l)
<1>1. ASSUME NEW c \in FrameCalls(l)'
      PROVE  c # NoCall /\ (c \in FrameCalls(l) \/ \E f \in F : IsCb(f) /\ f.work.call = c)
  <2>1. PICK i \in 1..Len(stack'[l]) : IsCb(stack'[l][i]) /\ stack'[l][i].work.call = c /\ c # NoCall
    BY <1>1 DEF FrameCalls
  <2>2. CASE i \in 1..Len(stack[l]) /\ stack'[l][i] = stack[l][i] BY <2>1, <2>2 DEF FrameCalls
  <2>3. CASE stack'[l][i] \in F BY <2>1, <2>3
  <2> QED BY <2>1, <2>2, <2>3 DEF Over
<1>2. FrameCalls(l)' \subseteq FrameCalls(l) \cup ({f.work.call : f \in {g \in F : IsCb(g)}} \ {NoCall})
  BY <1>1
<1>3. (\A f \in F : IsLoop(f)) => FrameCalls(l)' \subseteq FrameCalls(l)
  <2>1. (\A f \in F : IsLoop(f)) => \A f \in F : ~IsCb(f) BY FrameFields
  <2> QED BY <1>1, <2>1
<1> QED BY <1>2, <1>3

\* A callback that returns takes its call off the stack.
LEMMA FrameCallsPop ==
  ASSUME Types, NextTyped, NEW l \in Loops, Single(l), NEW w, AtWork(l, w), Popped(l)
  PROVE  /\ w.call \notin FrameCalls(l)' /\ (w.call # NoCall => w.call \in FrameCalls(l))
         /\ FrameCalls(l)' \subseteq FrameCalls(l)
<1>1. PICK n : n = Len(stack[l]) OBVIOUS
<1>2. n \in Nat /\ n \in 1..n /\ Top(l) = stack[l][n] /\ IsCb(stack[l][n]) /\ stack[l][n].work = w
  BY <1>1, TopFrame DEF AtWork
<1>3. FrameCalls(l)' \subseteq FrameCalls(l) BY OverStep, FrameCallsStep
<1>4. w.call # NoCall => w.call \in FrameCalls(l) BY <1>1, <1>2 DEF FrameCalls
<1>5. ASSUME w.call \in FrameCalls(l)' PROVE FALSE
  <2>1. PICK i \in 1..Len(stack'[l]) : IsCb(stack'[l][i]) /\ stack'[l][i].work.call = w.call /\ w.call # NoCall
    BY <1>5 DEF FrameCalls
  <2>2. i \in 1..(n - 1) /\ stack'[l][i] = stack[l][i] BY <1>1 DEF Popped
  <2>3. i \in 1..n /\ i # n BY <2>2, <1>2
  <2> QED BY <2>1, <2>2, <2>3, <1>1, <1>2 DEF Single
<1> QED BY <1>3, <1>4, <1>5

-----------------------------------------------------------------------------
(* The calls.                                                              *)

WaitersInv == \A m \in Loops : Waiters(m)
WorksInv == \A m \in Loops : Works(m)

\* A step that leaves the calls alone.
LEMMA QuietCalls ==
  ASSUME calls' = calls, \A m \in Loops : Waits(m)' = Waits(m), Apart, InOrder
  PROVE  Apart' /\ InOrder' /\ KeepsCalled(NoCall) /\ \A m \in Loops : CallsKeep(m)
<1>1. Apart' BY DEF Apart
<1>2. InOrder' BY DEF InOrder
<1>3. KeepsCalled(NoCall) BY DEF KeepsCalled
<1>4. \A m \in Loops : CallsKeep(m) BY DEF CallsKeep
<1> QED BY <1>1, <1>2, <1>3, <1>4

\* A call is made.
LEMMA MadeCall ==
  ASSUME Types, Apart, InOrder, WaitersInv, WorksInv, NEW l \in Loops, NEW c \in Calls, IsNextCall(c),
         CallsChange(c, "called"), Waits(l)' = Waits(l) \cup {c},
         \A m \in Loops \ {l} : Waits(m)' = Waits(m)
  PROVE  /\ Apart' /\ InOrder' /\ KeepsCalled(NoCall)
         /\ \A m \in Loops : CallsKeep(m) /\ c \notin Waits(m) /\ c \notin QueuedCalls(m) /\ c \notin FrameCalls(m)
         /\ \A d \in Calls : calls[d].state # "unused" => d < c
<1>1. calls[c].state = "unused" BY DEF IsNextCall, Unused
<1>2. \A m \in Loops : c \notin Waits(m) BY <1>1, WaitsUsed DEF WaitersInv
<1>3. \A m \in Loops : c \notin QueuedCalls(m) /\ c \notin FrameCalls(m)
  BY <1>1, PlacedCalled DEF WorksInv
<1>4. Apart'
  <2>1. ASSUME NEW m \in Loops, NEW k \in Loops, m # k, NEW d, d \in Waits(m)', d \in Waits(k)' PROVE FALSE
    <3>1. d = c \/ (d \in Waits(m) /\ d \in Waits(k)) BY <2>1
    <3>2. CASE d = c BY <2>1, <1>2, <3>2
    <3>3. CASE d \in Waits(m) /\ d \in Waits(k) BY <2>1, <3>3 DEF Apart
    <3> QED BY <3>1, <3>2, <3>3
  <2>2. \A m, k \in Loops : m # k => (Waits(m) \cap Waits(k))' = {} BY <2>1
  <2> QED BY <2>2 DEF Apart
<1>5. \A d \in Calls \ {c} : calls'[d] = calls[d] BY DEF CallsChange
<1>6. calls'[c].state = "called" BY DEF CallsChange
<1>7. \A d \in Calls : d < c => calls[d].state # "unused" BY DEF IsNextCall, InOrder
<1>8. \A d \in Calls : d \in Nat BY DEF Calls
<1>9. ASSUME NEW d \in Calls, calls[d].state # "unused" PROVE d < c
  <2>1. d # c BY <1>1, <1>9
  <2>2. ~(c < d) BY <1>1, <1>9 DEF InOrder
  <2> QED BY <2>1, <2>2, <1>8
<1>10. InOrder'
  <2>1. ASSUME NEW d \in Calls, calls'[d].state = "unused" PROVE calls'[d] = Unused
    <3>1. d # c BY <1>6, <2>1
    <3> QED BY <3>1, <1>5, <2>1 DEF InOrder
  <2>2. ASSUME NEW d \in Calls, NEW e \in Calls, e < d, calls'[d].state # "unused"
        PROVE  calls'[e].state # "unused"
    <3>1. CASE e = c BY <3>1, <1>6
    <3>2. CASE e # c /\ d = c BY <3>2, <2>2, <1>5, <1>7
    <3>3. CASE e # c /\ d # c BY <3>3, <2>2, <1>5 DEF InOrder
    <3> QED BY <3>1, <3>2, <3>3
  <2> QED BY <2>1, <2>2 DEF InOrder
<1>11. KeepsCalled(NoCall)
  <2>1. ASSUME NEW d \in Calls, calls[d].state = "called"
        PROVE  calls'[d].state = "called" /\ \A m \in Loops : d \in Waits(m) => d \in Waits(m)'
    <3>1. d # c BY <1>1, <2>1
    <3> QED BY <3>1, <1>5, <2>1
  <2> QED BY <2>1 DEF KeepsCalled
<1>12. \A m \in Loops : CallsKeep(m)
  <2>1. ASSUME NEW m \in Loops, NEW d \in Waits(m) PROVE d \in Calls \ {c}
    <3>1. d \in Calls BY <2>1, WaitsUsed DEF WaitersInv
    <3> QED BY <3>1, <2>1, <1>2
  <2> QED BY <2>1, <1>5 DEF CallsKeep
<1> QED BY <1>2, <1>3, <1>4, <1>9, <1>10, <1>11, <1>12

\* A call is answered.
LEMMA HandledCall ==
  ASSUME Types, Apart, InOrder, WaitersInv, NEW c \in Calls, calls[c].state = "called",
         CallsChange(c, "handled"), calls'[c].depth = calls[c].depth,
         \A m \in Loops : Waits(m)' = Waits(m)
  PROVE  Apart' /\ InOrder' /\ KeepsCalled(c) /\ \A m \in Loops : CallsKeep(m)
<1>1. Apart' BY DEF Apart
<1>2. \A d \in Calls \ {c} : calls'[d] = calls[d] BY DEF CallsChange
<1>3. calls'[c].state = "handled" BY DEF CallsChange
<1>4. InOrder'
  <2>1. ASSUME NEW d \in Calls, calls'[d].state = "unused" PROVE calls'[d] = Unused
    <3>1. d # c BY <1>3, <2>1
    <3> QED BY <3>1, <1>2, <2>1 DEF InOrder
  <2>2. ASSUME NEW d \in Calls, NEW e \in Calls, e < d, calls'[d].state # "unused"
        PROVE  calls'[e].state # "unused"
    <3>1. calls[d].state # "unused" BY <1>2, <2>2
    <3>2. calls[e].state # "unused" BY <3>1, <2>2 DEF InOrder
    <3> QED BY <3>2, <1>2, <1>3
  <2> QED BY <2>1, <2>2 DEF InOrder
<1>5. KeepsCalled(c) BY <1>2 DEF KeepsCalled
<1>6. \A m \in Loops : CallsKeep(m)
  <2>1. ASSUME NEW m \in Loops, NEW d \in Waits(m) PROVE d \in Calls
    BY <2>1, WaitsUsed DEF WaitersInv
  <2>2. \A d \in Calls : /\ calls'[d].depth = calls[d].depth
                         /\ calls[d].state = "called" => calls'[d].state \in {"called", "handled"}
                         /\ calls[d].state = "handled" => calls'[d].state = "handled"
    BY <1>2, <1>3
  <2> QED BY <2>1, <2>2 DEF CallsKeep
<1> QED BY <1>1, <1>4, <1>5, <1>6

\* A call returns, or a run that waits for none is left.
LEMMA ReturnedCall ==
  ASSUME Types, Apart, InOrder, WaitersInv, NEW l \in Loops, NEW c, Waits(l)' = Waits(l) \ {c},
         \A m \in Loops \ {l} : Waits(m)' = Waits(m),
         \/ c = NoCall /\ calls' = calls
         \/ c \in Waits(l) /\ calls[c].state = "handled" /\ CallsChange(c, "returned")
  PROVE  Apart' /\ InOrder' /\ KeepsCalled(NoCall) /\ \A m \in Loops : CallsKeep(m)
<1>0. \A m \in Loops : \A d \in Waits(m) : d \in Calls /\ d # NoCall BY WaitsUsed DEF WaitersInv
<1>1. Apart'
  <2>1. \A m \in Loops : Waits(m)' \subseteq Waits(m) OBVIOUS
  <2> QED BY <2>1 DEF Apart
<1>2. CASE c = NoCall /\ calls' = calls
  <2>1. \A m \in Loops : Waits(m)' = Waits(m) BY <1>0, <1>2
  <2> QED BY <2>1, <1>2, QuietCalls
<1>3. CASE c \in Waits(l) /\ calls[c].state = "handled" /\ CallsChange(c, "returned")
  <2>0. c \in Calls BY <1>0, <1>3
  <2>1. \A d \in Calls \ {c} : calls'[d] = calls[d] BY <1>3 DEF CallsChange
  <2>2. calls'[c].state = "returned" BY <1>3 DEF CallsChange
  <2>3. InOrder'
    <3>1. ASSUME NEW d \in Calls, calls'[d].state = "unused" PROVE calls'[d] = Unused
      <4>1. d # c BY <2>2, <3>1
      <4> QED BY <4>1, <2>1, <3>1 DEF InOrder
    <3>2. ASSUME NEW d \in Calls, NEW e \in Calls, e < d, calls'[d].state # "unused"
          PROVE  calls'[e].state # "unused"
      <4>1. calls[d].state # "unused" BY <1>3, <2>1, <3>2
      <4>2. calls[e].state # "unused" BY <4>1, <3>2 DEF InOrder
      <4> QED BY <4>2, <2>1, <2>2
    <3> QED BY <3>1, <3>2 DEF InOrder
  <2>4. KeepsCalled(NoCall)
    <3>1. ASSUME NEW d \in Calls, calls[d].state = "called"
          PROVE  calls'[d].state = "called" /\ \A m \in Loops : d \in Waits(m) => d \in Waits(m)'
      <4>1. d # c BY <1>3, <3>1
      <4> QED BY <4>1, <2>1, <3>1
    <3> QED BY <3>1 DEF KeepsCalled
  <2>5. ASSUME NEW m \in Loops, NEW d \in Waits(m) \cap Waits(m)' PROVE d \in Calls \ {c}
    <3>1. CASE m = l BY <2>5, <3>1, <1>0
    <3>2. CASE m # l
      <4>1. d # c BY <2>5, <3>2, <1>3 DEF Apart
      <4> QED BY <4>1, <2>5, <1>0
    <3> QED BY <3>1, <3>2
  <2>6. \A m \in Loops : CallsKeep(m) BY <2>1, <2>5 DEF CallsKeep
  <2> QED BY <1>1, <2>3, <2>4, <2>6
<1> QED BY <1>2, <1>3

-----------------------------------------------------------------------------
(* One loop: its part of the invariant after each kind of step.            *)

TypedNext == LoopsTyped' /\ NextTyped

(* Tasks that may be added: steps of calls that had none queued here. *)
NewSteps(l, T) ==
  /\ Queued(l)' \subseteq Queued(l) \cup T
  /\ \A t, u \in T : t = u
  /\ \A t \in T : ~t.terminate /\ Carries(calls', AllWaits', l, t.work)
                  /\ (t.work.call = NoCall \/ t.work.call \notin QueuedCalls(l))

\* Depths are numbers.
LEMMA Depths ==
  ASSUME Types, TypedNext, NEW l \in Loops
  PROVE  /\ ml[l].depth \in Nat /\ ml'[l].depth \in Nat
         /\ stack[l] \in Seq(FrameT) /\ stack'[l] \in Seq(FrameT) /\ NextTyped
<1>1. ml[l] \in LoopT /\ ml'[l] \in LoopT BY DEF Types, TypedNext, LoopsTyped
<1>2. ml[l].depth \in Nat /\ ml'[l].depth \in Nat BY <1>1, LoopFields
<1> QED BY <1>2 DEF Types, TypedNext, NextTyped

\* A loop whose frames are left alone.
LEMMA LoopPosts ==
  ASSUME Types, TypedNext, NEW l \in Loops, LoopInv(l), CallsKeep(l), NEW x, KeepsCalled(x), Gone(l, x),
         NEW T, NewSteps(l, T), SSame(l), DSame(l)
  PROVE  LoopInv(l)'
<1>0. NextTyped /\ Over(l, {}) /\ KeepsRuns(l) BY Depths, OverStep, KeepsRunsStep
<1>1. Shape(l)' BY DEF LoopInv, Shape, SSame, DSame
<1>2. Waiters(l)'
  <2>1. NewWaiters(l, {}) BY DEF NewWaiters
  <2> QED BY <1>0, <2>1, WaitersStep DEF LoopInv
<1>3. Quits(l)'
  <2>1. NoNewQuit(l) BY DEF NewSteps, NoNewQuit
  <2> QED BY <1>0, <2>1, QuitsKept DEF LoopInv
<1>4. Works(l)'
  <2>1. NewWorks(l, {}, T) BY DEF NewSteps, NewWorks
  <2> QED BY <1>0, <2>1, WorksStep DEF LoopInv
<1>5. Single(l)'
  <2>1. NewSingles(l, {}, T) BY DEF NewSteps, NewSingles
  <2> QED BY <1>0, <2>1, SingleStep DEF LoopInv
<1> QED BY <1>1, <1>2, <1>3, <1>4, <1>5 DEF LoopInv

\* A loop that nothing happens to.
LEMMA LoopRests ==
  ASSUME Types, TypedNext, NEW l \in Loops, LoopInv(l), CallsKeep(l), NEW x, KeepsCalled(x), Gone(l, x),
         QSame(l), SSame(l), DSame(l)
  PROVE  LoopInv(l)'
<1>1. NewSteps(l, {}) BY DEF NewSteps, QSame
<1> QED BY <1>1, LoopPosts

\* A callback returns.
LEMMA LoopReturns ==
  ASSUME Types, TypedNext, NEW l \in Loops, LoopInv(l), CallsKeep(l), NEW x, KeepsCalled(x), Gone(l, x),
         QSame(l), DSame(l), Popped(l), NEW w, AtWork(l, w)
  PROVE  LoopInv(l)'
<1>0. /\ NextTyped /\ Over(l, {}) /\ KeepsRuns(l) /\ Queued(l)' \subseteq Queued(l) \cup {}
      /\ stack[l] # <<>> /\ IsCb(Top(l))
  BY Depths, OverStep, KeepsRunsStep DEF AtWork, QSame
<1>1. Shape(l)'
  <2>1. PICK s, t, d, e : s = stack[l] /\ t = stack'[l] /\ d = ml[l].depth /\ e = ml'[l].depth OBVIOUS
  <2>2. s \in Seq(FrameT) /\ t \in Seq(FrameT) /\ d \in Nat /\ e \in Nat BY <2>1, Depths
  <2>3. /\ Len(s) > 0 /\ Len(t) = Len(s) - 1 /\ (\A i \in 1..(Len(s) - 1) : t[i] = s[i])
        /\ IsCb(s[Len(s)]) /\ e = d /\ ShapeOf(s, d)
    BY <2>1, <1>0 DEF Popped, Top, DSame, LoopInv, Shape
  <2>4. ShapeOf(t, e) BY ONLY <2>2, <2>3, ShapePop
  <2> QED BY <2>1, <2>4 DEF Shape
<1>2. Waiters(l)'
  <2>1. NewWaiters(l, {}) BY DEF NewWaiters
  <2> QED BY <1>0, <2>1, WaitersStep DEF LoopInv
<1>3. Quits(l)'
  <2>1. NoNewQuit(l) BY <1>0 DEF NoNewQuit
  <2> QED BY <1>0, <2>1, QuitsKept DEF LoopInv
<1>4. Works(l)'
  <2>1. NewWorks(l, {}, {}) BY <1>0 DEF NewWorks
  <2> QED BY <1>0, <2>1, WorksStep DEF LoopInv
<1>5. Single(l)'
  <2>1. NewSingles(l, {}, {}) BY <1>0 DEF NewSingles
  <2> QED BY <1>0, <2>1, SingleStep DEF LoopInv
<1> QED BY <1>1, <1>2, <1>3, <1>4, <1>5 DEF LoopInv

\* The answer arrives.
LEMMA LoopAnswered ==
  ASSUME Types, TypedNext, NEW l \in Loops, LoopInv(l), CallsKeep(l),
         NEW c \in Calls, KeepsCalled(c), Gone(l, c), c \in Waits(l),
         calls[c].state = "called", calls'[c].state = "handled", NEW t, QAdded(l, t), IsAnswer(t, c),
         SSame(l), DSame(l)
  PROVE  LoopInv(l)'
<1>0. /\ NextTyped /\ Over(l, {}) /\ Queued(l)' \subseteq Queued(l) \cup {t}
      /\ t.work.call = NoCall /\ t.depth = calls[c].depth
  BY Depths, OverStep DEF QAdded, IsAnswer
<1>1. Shape(l)' BY DEF LoopInv, Shape, SSame, DSame
<1>2. Waiters(l)'
  <2>1. NewWaiters(l, {}) BY DEF NewWaiters
  <2> QED BY <1>0, <2>1, WaitersStep DEF LoopInv
<1>3. Quits(l)' BY <1>0, QuitsAnswer DEF LoopInv
<1>4. Carries(calls', AllWaits', l, t.work)
  <2>1. ~Serves(l, t.work.fn) BY DEF IsAnswer, Serves, PluginFns, BrowserFns
  <2> QED BY <2>1, <1>0 DEF Carries
<1>5. Works(l)'
  <2>1. NewWorks(l, {}, {t}) BY <1>0, <1>4 DEF NewWorks
  <2> QED BY <1>0, <2>1, WorksStep DEF LoopInv
<1>6. Single(l)'
  <2>1. NewSingles(l, {}, {t}) BY <1>0 DEF NewSingles
  <2> QED BY <1>0, <2>1, SingleStep DEF LoopInv
<1> QED BY <1>1, <1>2, <1>3, <1>5, <1>6 DEF LoopInv

\* A run is entered.
LEMMA LoopEntered ==
  ASSUME Types, TypedNext, NEW l \in Loops, LoopInv(l), CallsKeep(l), KeepsCalled(NoCall),
         NEW T, NewSteps(l, T), NEW f, NEW flags, NEW c, NewRun(f, flags, c, ml[l].depth + 1),
         "ML_INCREASE_DEPTH" \in flags, Pushed(l, f), ml'[l].depth = ml[l].depth + 1,
         stack[l] = <<>> \/ IsCb(Top(l)), Fits(calls', f),
         c # NoCall => \A d \in Waits(l) : d < c
  PROVE  LoopInv(l)'
<1>0. /\ NextTyped /\ Over(l, {f}) /\ KeepsRuns(l) /\ f \in FrameT /\ IsLoop(f) /\ ~IsCb(f)
      /\ f.call = c /\ f.flags = flags /\ f.depth = ml[l].depth + 1
  BY Depths, OverStep, KeepsRunsStep, FrameFields DEF NewRun
<1>1. Shape(l)'
  <2>1. PICK s, t, d, e : s = stack[l] /\ t = stack'[l] /\ d = ml[l].depth /\ e = ml'[l].depth OBVIOUS
  <2>2. s \in Seq(FrameT) /\ t \in Seq(FrameT) /\ d \in Nat /\ e \in Nat /\ f \in FrameT BY <2>1, <1>0, Depths
  <2>3. /\ ShapeOf(s, d) /\ Len(t) = Len(s) + 1 /\ t[Len(s) + 1] = f
        /\ \A i \in 1..Len(s) : t[i] = s[i]
    BY <2>1 DEF Pushed, LoopInv, Shape
  <2>4. IsLoop(f) /\ e = d + 1 /\ f.depth = e /\ "ML_INCREASE_DEPTH" \in f.flags BY <2>1, <1>0
  <2>5. Len(s) > 0 => IsCb(s[Len(s)]) BY <2>1, <2>2 DEF Top
  <2>6. ShapeOf(t, e) BY ONLY <2>2, <2>3, <2>4, <2>5, ShapePush
  <2> QED BY <2>1, <2>6 DEF Shape
<1>2. Waiters(l)'
  <2>1. ASSUME NEW j \in 1..Len(stack[l]), Waiter(stack[l][j]), Waiter(f) PROVE stack[l][j].call < f.call
    <3>1. stack[l][j].call \in Waits(l) BY <2>1, Depths, WaitsIs
    <3> QED BY <3>1, <2>1, <1>0 DEF Waiter
  <2>2. NewWaiters(l, {f}) BY <2>1 DEF NewWaiters
  <2> QED BY <1>0, <2>2, WaitersStep DEF LoopInv
<1>3. Quits(l)'
  <2>1. NoNewQuit(l) BY DEF NewSteps, NoNewQuit
  <2> QED BY <1>0, <2>1, QuitsKept DEF LoopInv
<1>4. Works(l)'
  <2>1. NewWorks(l, {f}, T) BY <1>0 DEF NewSteps, NewWorks
  <2>2. Gone(l, NoCall) BY DEF Gone
  <2> QED BY <1>0, <2>1, <2>2, WorksStep DEF LoopInv
<1>5. Single(l)'
  <2>1. NewSingles(l, {f}, T) BY <1>0 DEF NewSteps, NewSingles
  <2> QED BY <1>0, <2>1, SingleStep DEF LoopInv
<1> QED BY <1>1, <1>2, <1>3, <1>4, <1>5 DEF LoopInv

\* A callback goes on as another function of the same call.
LEMMA LoopPrepared ==
  ASSUME Types, TypedNext, NEW l \in Loops, LoopInv(l), CallsKeep(l), KeepsCalled(NoCall),
         QSame(l), DSame(l), NEW f \in FrameT, IsCb(f), Retopped(l, f), NEW w, AtWork(l, w),
         f.work.call = w.call, Carries(calls', AllWaits', l, f.work)
  PROVE  LoopInv(l)'
<1>0. /\ NextTyped /\ Over(l, {f}) /\ KeepsRuns(l) /\ Queued(l)' \subseteq Queued(l) \cup {}
      /\ stack[l] # <<>> /\ IsCb(Top(l)) /\ ~IsLoop(f)
  BY Depths, OverStep, KeepsRunsStep, FrameFields DEF AtWork, QSame
<1>1. Shape(l)'
  <2>1. PICK s, t, d : s = stack[l] /\ t = stack'[l] /\ d = ml[l].depth /\ d = ml'[l].depth BY DEF DSame
  <2>2. s \in Seq(FrameT) /\ t \in Seq(FrameT) /\ d \in Nat /\ f \in FrameT BY <2>1, Depths
  <2>3. /\ Len(s) > 0 /\ Len(t) = Len(s) /\ (\A i \in 1..(Len(s) - 1) : t[i] = s[i])
        /\ IsCb(s[Len(s)]) /\ IsCb(f) /\ t[Len(s)] = f /\ ShapeOf(s, d)
    BY <2>1, <1>0 DEF Retopped, Top, LoopInv, Shape
  <2>4. ShapeOf(t, d) BY ONLY <2>2, <2>3, ShapeRetop
  <2> QED BY <2>1, <2>4 DEF Shape
<1>2. Waiters(l)'
  <2>1. ~Waiter(f) BY <1>0 DEF Waiter
  <2>2. Fits(calls', f) BY <2>1 DEF Fits
  <2>3. NewWaiters(l, {f}) BY <2>1, <2>2 DEF NewWaiters
  <2> QED BY <1>0, <2>3, WaitersStep DEF LoopInv
<1>3. Quits(l)'
  <2>1. NoNewQuit(l) BY <1>0 DEF NoNewQuit
  <2> QED BY <1>0, <2>1, QuitsKept DEF LoopInv
<1>4. Works(l)'
  <2>1. NewWorks(l, {f}, {}) BY <1>0 DEF NewWorks
  <2>2. Gone(l, NoCall) BY DEF Gone
  <2> QED BY <1>0, <2>1, <2>2, WorksStep DEF LoopInv
<1>5. Single(l)'
  <2>1. PICK n : n = Len(stack[l]) OBVIOUS
  <2>2. n \in Nat /\ n \in 1..n /\ stack[l][n].work = w /\ IsCb(stack[l][n]) /\ Len(stack'[l]) = n
    BY <2>1, <1>0, TopFrame DEF AtWork, Retopped
  <2>3. ASSUME NEW j \in 1..Len(stack[l]), j < Len(stack'[l]), IsCb(stack[l][j]), f.work.call # NoCall,
               stack[l][j].work.call = f.work.call
        PROVE  FALSE
    <3>1. j = n BY <2>1, <2>2, <2>3 DEF LoopInv, Single
    <3> QED BY <3>1, <2>2, <2>3
  <2>4. NewSingles(l, {f}, {}) BY <1>0, <2>3 DEF NewSingles
  <2> QED BY <1>0, <2>4, SingleStep DEF LoopInv
<1> QED BY <1>1, <1>2, <1>3, <1>4, <1>5 DEF LoopInv

\* A run on top that changes is still the run of its call.
LEMMA RetopWaiters ==
  ASSUME Types, NEW l \in Loops, Waiters(l), calls' = calls, stack[l] # <<>>, IsLoop(Top(l)),
         NEW f, Retopped(l, f), SameRun(Top(l), f),
         f.teardown /\ Waiter(Top(l)) => Top(l).teardown \/ calls[Top(l).call].state = "handled"
  PROVE  NewWaiters(l, {f})
<1>1. PICK n : n = Len(stack[l]) OBVIOUS
<1>2. n \in Nat /\ n \in 1..n /\ Top(l) = stack[l][n] /\ Len(stack'[l]) = n
  BY <1>1, TopFrame DEF Retopped
<1>3. PICK g : g = Top(l) OBVIOUS
<1>4. Fits(calls, g) BY <1>1, <1>2, <1>3 DEF Waiters
<1>5. (Waiter(f) <=> Waiter(g)) /\ f.call = g.call /\ f.flags = g.flags /\ f.depth = g.depth
  BY <1>3 DEF SameRun, Waiter
<1>6. Fits(calls', f) BY <1>3, <1>4, <1>5 DEF Fits
<1>7. ASSUME NEW j \in 1..Len(stack[l]), j < Len(stack'[l]), Waiter(stack[l][j]), Waiter(f)
      PROVE  stack[l][j].call < f.call
  <2>1. j < n /\ Waiter(stack[l][n]) BY <1>2, <1>3, <1>5, <1>7
  <2>2. stack[l][j].call < stack[l][n].call BY <1>1, <1>2, <1>7, <2>1 DEF Waiters
  <2> QED BY <2>2, <1>2, <1>3, <1>5
<1> QED BY <1>6, <1>7 DEF NewWaiters

\* And the stack keeps its shape.
LEMMA RetopShape ==
  ASSUME Types, TypedNext, NEW l \in Loops, Shape(l), DSame(l), stack[l] # <<>>, IsLoop(Top(l)),
         NEW f, Retopped(l, f), SameRun(Top(l), f)
  PROVE  Shape(l)'
<1>1. PICK s, t, d : s = stack[l] /\ t = stack'[l] /\ d = ml[l].depth /\ d = ml'[l].depth BY DEF DSame
<1>2. s \in Seq(FrameT) /\ t \in Seq(FrameT) /\ d \in Nat /\ f \in FrameT BY <1>1, Depths DEF SameRun
<1>3. /\ Len(s) > 0 /\ Len(t) = Len(s) /\ (\A i \in 1..(Len(s) - 1) : t[i] = s[i])
      /\ IsLoop(s[Len(s)]) /\ SameRun(s[Len(s)], f) /\ t[Len(s)] = f /\ ShapeOf(s, d)
  BY <1>1 DEF Retopped, Top, Shape
<1>4. ShapeOf(t, d) BY ONLY <1>2, <1>3, ShapeRetop
<1> QED BY <1>1, <1>4 DEF Shape

\* A loop whose thread only looks at its queues.
LEMMA LoopUnseen ==
  ASSUME Types, TypedNext, NEW l \in Loops, LoopInv(l), CallsKeep(l), KeepsCalled(NoCall), calls' = calls,
         Unseen(l)
  PROVE  LoopInv(l)'
<1>0. QSame(l) /\ DSame(l) /\ NextTyped /\ Gone(l, NoCall) /\ Queued(l)' = Queued(l)
  BY Depths DEF Unseen, Gone, QSame
<1>1. CASE SSame(l) BY <1>0, <1>1, LoopRests
<1>2. CASE ~SSame(l)
  <2>1. PICK f \in FrameT : /\ Retopped(l, f) /\ SameRun(Top(l), f) /\ IsLoop(Top(l))
                            /\ (f.teardown <=> Top(l).teardown)
    BY <1>2 DEF Unseen
  <2>2. stack[l] # <<>> BY <2>1 DEF Retopped
  <2>3. Over(l, {f}) /\ KeepsRuns(l) BY <1>0, <2>1, OverStep, KeepsRunsStep
  <2>4. IsLoop(f) /\ ~IsCb(f) BY <2>1, FrameFields DEF SameRun
  <2>5. Shape(l)' BY <1>0, <2>1, <2>2, RetopShape DEF LoopInv
  <2>6. Waiters(l)'
    <3>1. NewWaiters(l, {f}) BY <2>1, <2>2, RetopWaiters DEF LoopInv
    <3> QED BY <1>0, <2>3, <3>1, WaitersStep DEF LoopInv
  <2>7. Quits(l)'
    <3>1. NoNewQuit(l) BY <1>0 DEF NoNewQuit
    <3> QED BY <1>0, <2>3, <3>1, QuitsKept DEF LoopInv
  <2>8. Works(l)'
    <3>1. NewWorks(l, {f}, {}) BY <1>0, <2>4 DEF NewWorks
    <3> QED BY <1>0, <2>3, <3>1, WorksStep DEF LoopInv
  <2>9. Single(l)'
    <3>1. NewSingles(l, {f}, {}) BY <1>0, <2>4 DEF NewSingles
    <3> QED BY <1>0, <2>3, <3>1, SingleStep DEF LoopInv
  <2> QED BY <2>5, <2>6, <2>7, <2>8, <2>9 DEF LoopInv
<1> QED BY <1>1, <1>2

\* A callback starts.
LEMMA LoopRan ==
  ASSUME Types, TypedNext, NEW l \in Loops, LoopInv(l), CallsKeep(l), KeepsCalled(NoCall), NEW t, Ran(l, t),
         t.work.call \notin FrameCalls(l)
  PROVE  LoopInv(l)'
<1>1. PICK f \in FrameT : Pushed(l, f) /\ IsCb(f) /\ f.work = t.work BY DEF Ran
<1>2. /\ NextTyped /\ Over(l, {f}) /\ KeepsRuns(l) /\ ~IsLoop(f) /\ DSame(l) /\ Gone(l, NoCall)
      /\ t \in Queued(l) /\ Queued(l)' = Queued(l) \ {t} /\ stack[l] # <<>> /\ IsLoop(Top(l))
  BY <1>1, Depths, OverStep, KeepsRunsStep, FrameFields DEF Ran, QTaken, Gone
<1>3. Shape(l)'
  <2>1. PICK s, u, d, e : s = stack[l] /\ u = stack'[l] /\ d = ml[l].depth /\ e = ml'[l].depth OBVIOUS
  <2>2. s \in Seq(FrameT) /\ u \in Seq(FrameT) /\ d \in Nat /\ e \in Nat /\ f \in FrameT BY <2>1, Depths
  <2>3. /\ ShapeOf(s, d) /\ Len(u) = Len(s) + 1 /\ u[Len(s) + 1] = f
        /\ \A i \in 1..Len(s) : u[i] = s[i]
    BY <2>1, <1>1 DEF Pushed, LoopInv, Shape
  <2>4. IsCb(f) /\ Len(s) > 0 /\ IsLoop(s[Len(s)]) /\ e = d BY <2>1, <2>2, <1>1, <1>2 DEF Top, DSame
  <2>5. ShapeOf(u, e) BY ONLY <2>2, <2>3, <2>4, ShapePush
  <2> QED BY <2>1, <2>5 DEF Shape
<1>4. Waiters(l)'
  <2>1. ~Waiter(f) BY <1>2 DEF Waiter
  <2>2. Fits(calls', f) BY <2>1 DEF Fits
  <2>3. NewWaiters(l, {f}) BY <2>1, <2>2 DEF NewWaiters
  <2> QED BY <1>2, <2>3, WaitersStep DEF LoopInv
<1>5. Quits(l)'
  <2>1. NoNewQuit(l) BY <1>2 DEF NoNewQuit
  <2> QED BY <1>2, <2>1, QuitsKept DEF LoopInv
<1>6. Works(l)'
  <2>1. PICK w : w = t.work OBVIOUS
  <2>2. Carries(calls, AllWaits, l, w) BY <1>2, <2>1 DEF LoopInv, Works
  <2>3. Carries(calls', AllWaits', l, w) BY <2>2, CarriesKept
  <2>4. NewWorks(l, {f}, {}) BY <1>1, <1>2, <2>1, <2>3 DEF NewWorks
  <2> QED BY <1>2, <2>4, WorksStep DEF LoopInv
<1>7. Single(l)'
  <2>1. \A j \in 1..Len(stack[l]) : IsCb(stack[l][j]) /\ f.work.call # NoCall =>
          stack[l][j].work.call # f.work.call
    BY <1>1 DEF FrameCalls
  <2>2. NewSingles(l, {f}, {}) BY <1>2, <2>1 DEF NewSingles
  <2> QED BY <1>2, <2>2, SingleStep DEF LoopInv
<1> QED BY <1>3, <1>4, <1>5, <1>6, <1>7 DEF LoopInv

(* No quit task is left for the run on top. *)
NoneForTop(l) == \A t \in Queued(l)' : t.terminate => ~Ends(calls, t, Top(l))

\* A run is left.
LEMMA LoopLeft ==
  ASSUME Types, TypedNext, NEW l \in Loops, LoopInv(l), CallsKeep(l), KeepsCalled(NoCall), Left(l),
         Queued(l)' \subseteq Queued(l), NoneForTop(l)
  PROVE  LoopInv(l)'
<1>0. /\ NextTyped /\ Over(l, {}) /\ Popped(l) /\ stack[l] # <<>> /\ IsLoop(Top(l)) /\ Gone(l, NoCall)
      /\ ml'[l].depth = ml[l].depth - 1 /\ Top(l) \in FrameT /\ ~IsCb(Top(l))
  BY Depths, OverStep, TopFrame, FrameFields DEF Left, Gone
<1>1. Shape(l)'
  <2>1. PICK s, t, d, e : s = stack[l] /\ t = stack'[l] /\ d = ml[l].depth /\ e = ml'[l].depth OBVIOUS
  <2>2. s \in Seq(FrameT) /\ t \in Seq(FrameT) /\ d \in Nat /\ e \in Nat BY <2>1, Depths
  <2>3. /\ Len(s) > 0 /\ Len(t) = Len(s) - 1 /\ (\A i \in 1..(Len(s) - 1) : t[i] = s[i])
        /\ ~IsCb(s[Len(s)]) /\ e = d - 1 /\ ShapeOf(s, d)
    BY <2>1, <1>0 DEF Popped, Top, LoopInv, Shape
  <2>4. ShapeOf(t, e) BY ONLY <2>2, <2>3, ShapePop
  <2> QED BY <2>1, <2>4 DEF Shape
<1>2. Waiters(l)'
  <2>1. NewWaiters(l, {}) BY DEF NewWaiters
  <2> QED BY <1>0, <2>1, WaitersStep DEF LoopInv
<1>3. Quits(l)'
  <2>1. \A i \in 1..(Len(stack[l]) - 1) : i \in 1..Len(stack'[l]) /\ stack'[l][i] = stack[l][i]
    BY <1>0 DEF Popped
  <2> QED BY <1>0, <2>1, QuitsLess DEF LoopInv, NoneForTop
<1>4. Works(l)'
  <2>1. NewWorks(l, {}, {}) BY DEF NewWorks
  <2> QED BY <1>0, <2>1, WorksStep DEF LoopInv
<1>5. Single(l)'
  <2>1. NewSingles(l, {}, {}) BY DEF NewSingles
  <2> QED BY <1>0, <2>1, SingleStep DEF LoopInv
<1> QED BY <1>1, <1>2, <1>3, <1>4, <1>5 DEF LoopInv

\* The outermost run is in teardown.
LEMMA LoopTorn ==
  ASSUME Types, TypedNext, NEW l \in Loops, LoopInv(l), CallsKeep(l), KeepsCalled(NoCall), calls' = calls,
         TornDown(l)
  PROVE  LoopInv(l)'
<1>1. PICK f \in FrameT : Retopped(l, f) /\ SameRun(Top(l), f) BY DEF TornDown
<1>2. PICK t \in TaskT : QTaken(l, t) /\ t.terminate /\ (t.depth = 0 \/ t.depth >= Top(l).depth)
  BY DEF TornDown
<1>3. /\ NextTyped /\ Over(l, {f}) /\ IsLoop(f) /\ ~IsCb(f) /\ DSame(l) /\ Gone(l, NoCall)
      /\ t \in Queued(l) /\ Queued(l)' = Queued(l) \ {t} /\ stack[l] # <<>> /\ IsLoop(Top(l))
  BY <1>1, <1>2, Depths, OverStep, FrameFields DEF TornDown, QTaken, Gone, SameRun
<1>4. /\ Ends(calls, t, Top(l))
      /\ \A u \in Queued(l) \ {t} : u.terminate => ~Ends(calls, u, Top(l))
  BY <1>2, <1>3, EnderIsTop DEF LoopInv
<1>5. Shape(l)' BY <1>1, <1>3, RetopShape DEF LoopInv
<1>6. Waiters(l)'
  <2>1. calls[Top(l).call].state = "handled" BY <1>4 DEF Ends
  <2>2. NewWaiters(l, {f}) BY <1>1, <1>3, <2>1, RetopWaiters DEF LoopInv
  <2> QED BY <1>3, <2>2, WaitersStep DEF LoopInv
<1>7. Quits(l)'
  <2>1. \A i \in 1..(Len(stack[l]) - 1) : i \in 1..Len(stack'[l]) /\ stack'[l][i] = stack[l][i]
    <3>1. Len(stack[l]) \in Nat BY StackTyped
    <3> QED BY <3>1, <1>1 DEF Retopped
  <2>2. Queued(l)' \subseteq Queued(l) /\ \A u \in Queued(l)' : u.terminate => ~Ends(calls, u, Top(l))
    BY <1>3, <1>4
  <2> QED BY <1>3, <2>1, <2>2, QuitsLess DEF LoopInv
<1>8. Works(l)'
  <2>1. NewWorks(l, {f}, {}) BY <1>3 DEF NewWorks
  <2> QED BY <1>3, <2>1, WorksStep DEF LoopInv
<1>9. Single(l)'
  <2>1. NewSingles(l, {f}, {}) BY <1>3 DEF NewSingles
  <2> QED BY <1>3, <2>1, SingleStep DEF LoopInv
<1> QED BY <1>5, <1>6, <1>7, <1>8, <1>9 DEF LoopInv

-----------------------------------------------------------------------------
(* The steps of the system.  Each keeps the invariant and is a step of     *)
(* SyncCall, or none.                                                      *)

NoStep == calls' = calls /\ \A m \in Loops : Waits(m)' = Waits(m)

CallStep(l, c) ==
  /\ l \in Loops /\ c \in Calls /\ calls[c].state = "unused"
  /\ \A d \in Calls : calls[d].state # "unused" => d < c
  /\ CallsChange(c, "called") /\ Waits(l)' = Waits(l) \cup {c}
  /\ \A m \in Loops \ {l} : Waits(m)' = Waits(m)

HandleStep(c) ==
  /\ c \in Calls /\ calls[c].state = "called" /\ CallsChange(c, "handled")
  /\ \A m \in Loops : Waits(m)' = Waits(m)

ReturnStep(l, c) ==
  /\ l \in Loops /\ c \in Calls /\ c \in Waits(l) /\ \A d \in Waits(l) : d <= c
  /\ calls[c].state = "handled" /\ CallsChange(c, "returned") /\ Waits(l)' = Waits(l) \ {c}
  /\ \A m \in Loops \ {l} : Waits(m)' = Waits(m)

AbstractStep ==
  \/ NoStep
  \/ \E l, c : CallStep(l, c) \/ ReturnStep(l, c)
  \/ \E c : HandleStep(c)

Good == CallsInv' /\ AbstractStep

NextOK == Types' /\ StampsInv'

\* What the invariant of two states gives to the steps below.
LEMMA InvGives ==
  ASSUME CallsInv, NextOK
  PROVE  /\ Types /\ TypedNext /\ NextTyped /\ WaitersInv /\ WorksInv
         /\ \A m \in Loops : LoopInv(m) /\ Gone(m, NoCall) /\ Single(m) /\ Waiters(m)
<1>1. Types /\ \A m \in Loops : LoopInv(m) BY DEF CallsInv
<1>2. TypedNext /\ NextTyped BY DEF NextOK, Types, TypedNext, NextTyped, LoopsTyped
<1>3. \A m \in Loops : Single(m) /\ Waiters(m) /\ Works(m) BY <1>1 DEF LoopInv
<1> QED BY <1>1, <1>2, <1>3 DEF WaitersInv, WorksInv, Gone

\* The parts make the invariant.
LEMMA Whole ==
  ASSUME NextOK, Apart', InOrder', Places', \A m \in Loops : LoopInv(m)'
  PROVE  CallsInv'
BY DEF NextOK, CallsInv

\* No step of a call moves.
LEMMA PlacesLess ==
  ASSUME Places, \A m \in Loops : QueuedCalls(m)' \subseteq QueuedCalls(m),
         \A m \in Loops : FrameCalls(m)' \subseteq FrameCalls(m)
  PROVE  Places'
<1>1. \A m, k \in Loops : (QueuedCalls(m) \cap FrameCalls(k))' = {} BY DEF Places
<1>2. \A m, k \in Loops : m # k => (QueuedCalls(m) \cap QueuedCalls(k))' = {} BY DEF Places
<1>3. \A m, k \in Loops : m # k => (FrameCalls(m) \cap FrameCalls(k))' = {} BY DEF Places
<1> QED BY <1>1, <1>2, <1>3 DEF Places

\* The calls on a stack that is left alone.
LEMMA FrameCallsSame ==
  ASSUME NEW l, SSame(l) PROVE FrameCalls(l)' = FrameCalls(l)
BY DEF SSame, FrameCalls

\* Work nobody waits for is posted.
LEMMA PlainPost ==
  ASSUME CallsInv, NextOK, calls' = calls, \A m \in Loops : SSame(m), NEW l \in Loops, NEW t,
         PostedTo(l, t), NEW fn \in {"event", "call_forceredraw_ptac"}, IsStep(t, fn, NoCall)
  PROVE  Good
<1>0. /\ Types /\ TypedNext /\ NextTyped /\ WaitersInv /\ WorksInv
      /\ \A m \in Loops : LoopInv(m) /\ Gone(m, NoCall)
  BY InvGives
<1>1. \A m \in Loops : Waits(m)' = Waits(m) BY WaitsSame
<1>2. Apart' /\ InOrder' /\ KeepsCalled(NoCall) /\ \A m \in Loops : CallsKeep(m)
  BY <1>1, QuietCalls DEF CallsInv
<1>3. NewSteps(l, {t})
  <2>1. ~Serves(l, t.work.fn) /\ t.work.call = NoCall BY DEF IsStep, Serves, PluginFns, BrowserFns
  <2>2. Carries(calls', AllWaits', l, t.work) BY <2>1 DEF Carries
  <2> QED BY <2>1, <2>2 DEF NewSteps, IsStep, PostedTo, QAdded
<1>4. LoopInv(l)' BY <1>0, <1>2, <1>3, LoopPosts DEF PostedTo
<1>5. \A m \in Loops \ {l} : LoopInv(m)' BY <1>0, <1>2, LoopRests DEF PostedTo
<1>6. Places'
  <2>1. \A m \in Loops : FrameCalls(m)' \subseteq FrameCalls(m) BY FrameCallsSame
  <2>2. QueuedCalls(l)' \subseteq QueuedCalls(l) BY QueuedCallsStep DEF PostedTo, IsStep
  <2>3. \A m \in Loops \ {l} : QueuedCalls(m)' \subseteq QueuedCalls(m) BY QueuedCallsStep DEF PostedTo
  <2> QED BY <2>1, <2>2, <2>3, PlacesLess DEF CallsInv
<1>7. CallsInv' BY <1>2, <1>4, <1>5, <1>6, Whole
<1> QED BY <1>1, <1>7 DEF Good, AbstractStep, NoStep

\* A callback that is not a step of a call, or whose call goes on elsewhere, returns.
LEMMA Done ==
  ASSUME CallsInv, NextOK, calls' = calls, NEW l \in Loops, NEW w, AtWork(l, w), Returned(l),
         \A m \in Loops : QSame(m) /\ DSame(m)
  PROVE  Good
<1>0. /\ Types /\ TypedNext /\ NextTyped /\ WaitersInv /\ WorksInv
      /\ \A m \in Loops : LoopInv(m) /\ Gone(m, NoCall) /\ Single(m)
  BY InvGives
<1>1. Waits(l)' = Waits(l) BY <1>0, WaitsPopCb DEF Returned, AtWork
<1>2. \A m \in Loops : Waits(m)' = Waits(m) BY <1>1, WaitsSame DEF Returned
<1>3. Apart' /\ InOrder' /\ KeepsCalled(NoCall) /\ \A m \in Loops : CallsKeep(m)
  BY <1>2, QuietCalls DEF CallsInv
<1>4. LoopInv(l)' BY <1>0, <1>3, LoopReturns DEF Returned
<1>5. \A m \in Loops \ {l} : LoopInv(m)' BY <1>0, <1>3, LoopRests DEF Returned
<1>6. Places'
  <2>1. FrameCalls(l)' \subseteq FrameCalls(l) BY <1>0, FrameCallsPop DEF Returned
  <2>2. \A m \in Loops : FrameCalls(m)' \subseteq FrameCalls(m) BY <2>1, FrameCallsSame DEF Returned
  <2>3. \A m \in Loops : QueuedCalls(m)' \subseteq QueuedCalls(m) BY QueuedCallsStep
  <2> QED BY <2>2, <2>3, PlacesLess DEF CallsInv
<1>7. CallsInv' BY <1>3, <1>4, <1>5, <1>6, Whole
<1> QED BY <1>2, <1>7 DEF Good, AbstractStep, NoStep

\* A step of a call hands over to the other thread.
LEMMA Forward ==
  ASSUME CallsInv, NextOK, calls' = calls, NEW l \in Loops, NEW k \in Loops, l # k, NEW w, AtWork(l, w),
         Serves(l, w.fn), Returned(l), NEW t, PostedTo(k, t), NEW fn, IsStep(t, fn, w.call),
         Serves(k, fn), CallerOf(fn) = CallerOf(w.fn)
  PROVE  Good
<1>0. /\ Types /\ TypedNext /\ NextTyped /\ WaitersInv /\ WorksInv
      /\ \A m \in Loops : LoopInv(m) /\ Gone(m, NoCall) /\ Single(m)
  BY InvGives
<1>1. Waits(l)' = Waits(l) BY <1>0, WaitsPopCb DEF Returned, AtWork
<1>2. \A m \in Loops : Waits(m)' = Waits(m) BY <1>1, WaitsSame DEF Returned
<1>3. Apart' /\ InOrder' /\ KeepsCalled(NoCall) /\ \A m \in Loops : CallsKeep(m)
  BY <1>2, QuietCalls DEF CallsInv
<1>4. QSame(l) /\ DSame(l) /\ DSame(k) /\ SSame(k) /\ QAdded(k, t) BY DEF PostedTo, Returned
<1>5. LoopInv(l)' BY <1>0, <1>3, <1>4, LoopReturns DEF Returned
<1>6. PICK c : c = w.call OBVIOUS
<1>7. /\ c \in Calls /\ c # NoCall /\ calls[c].state = "called" /\ c \in AllWaits[CallerOf(fn)]
      /\ c \in FrameCalls(l) /\ c \notin FrameCalls(l)' /\ FrameCalls(l)' \subseteq FrameCalls(l)
  <2>1. /\ w.call \notin FrameCalls(l)' /\ (w.call # NoCall => w.call \in FrameCalls(l))
        /\ FrameCalls(l)' \subseteq FrameCalls(l)
    BY <1>0, FrameCallsPop DEF Returned
  <2>2. Carries(calls, AllWaits, l, w)
    <3>1. Len(stack[l]) \in 1..Len(stack[l]) /\ Top(l) = stack[l][Len(stack[l])]
      BY <1>0, TopFrame DEF AtWork
    <3> QED BY <3>1, <1>0 DEF AtWork, WorksInv, Works
  <2>3. c \in Calls /\ calls[c].state = "called" /\ c \in AllWaits[CallerOf(fn)]
    BY <2>2, <1>6 DEF Carries
  <2>4. c # NoCall BY <2>3 DEF Calls, NoCall
  <2> QED BY <2>1, <2>3, <2>4, <1>6
<1>8. \A m \in Loops : c \notin QueuedCalls(m) BY <1>7 DEF CallsInv, Places
<1>9. NewSteps(k, {t})
  <2>1. t.work.fn = fn /\ t.work.call = c /\ ~t.terminate BY <1>6 DEF IsStep
  <2>2. c \in AllWaits'[CallerOf(fn)]
    <3>1. AllWaits' = AllWaits BY <1>2 DEF AllWaits
    <3> QED BY <3>1, <1>7
  <2>3. Carries(calls', AllWaits', k, t.work) BY <2>1, <2>2, <1>7 DEF Carries
  <2> QED BY <2>1, <2>3, <1>4, <1>8 DEF NewSteps, QAdded
<1>10. LoopInv(k)' BY <1>0, <1>3, <1>4, <1>9, LoopPosts
<1>11. \A m \in Loops \ {l, k} : LoopInv(m)' BY <1>0, <1>3, LoopRests DEF PostedTo, Returned
<1>12. Places'
  <2>1. \A m \in Loops \ {l} : FrameCalls(m)' = FrameCalls(m) BY FrameCallsSame DEF Returned
  <2>2. \A m \in Loops \ {l} : c \notin FrameCalls(m) BY <1>7 DEF CallsInv, Places
  <2>3. \A m \in Loops : c \notin FrameCalls(m)' /\ FrameCalls(m)' \subseteq FrameCalls(m)
    BY <1>7, <2>1, <2>2
  <2>4. QueuedCalls(k)' \subseteq QueuedCalls(k) \cup {c} BY <1>4, <1>6, QueuedCallsStep DEF IsStep
  <2>5. \A m \in Loops \ {k} : QueuedCalls(m)' = QueuedCalls(m) BY QueuedCallsStep DEF PostedTo
  <2>6. \A m \in Loops \ {k} : c \notin QueuedCalls(m)' BY <2>5, <1>8
  <2>7. OthersStay(c) BY <2>3, <2>4, <2>5 DEF OthersStay
  <2> QED BY <2>3, <2>6, <2>7, PlacesStep DEF CallsInv
<1>13. CallsInv' BY <1>3, <1>5, <1>10, <1>11, <1>12, Whole
<1> QED BY <1>2, <1>13 DEF Good, AbstractStep, NoStep

\* The last step of a call answers it.
LEMMA Answered ==
  ASSUME CallsInv, NextOK, NEW l \in Loops, NEW k \in Loops, l # k, NEW w, AtWork(l, w),
         Serves(l, w.fn), CallerOf(w.fn) = k, Returned(l), NEW t, PostedTo(k, t), IsAnswer(t, w.call),
         CallsChange(w.call, "handled"), calls'[w.call].depth = calls[w.call].depth
  PROVE  Good
<1>0. /\ Types /\ TypedNext /\ NextTyped /\ WaitersInv /\ WorksInv
      /\ \A m \in Loops : LoopInv(m) /\ Single(m)
  BY InvGives
<1>1. Waits(l)' = Waits(l) BY <1>0, WaitsPopCb DEF Returned, AtWork
<1>2. \A m \in Loops : Waits(m)' = Waits(m) BY <1>1, WaitsSame DEF Returned
<1>3. PICK c : c = w.call OBVIOUS
<1>4. QSame(l) /\ DSame(l) /\ DSame(k) /\ SSame(k) /\ QAdded(k, t) BY DEF PostedTo, Returned
<1>5. /\ c \in Calls /\ c # NoCall /\ calls[c].state = "called" /\ c \in Waits(k)
      /\ c \in FrameCalls(l) /\ c \notin FrameCalls(l)' /\ FrameCalls(l)' \subseteq FrameCalls(l)
  <2>1. /\ w.call \notin FrameCalls(l)' /\ (w.call # NoCall => w.call \in FrameCalls(l))
        /\ FrameCalls(l)' \subseteq FrameCalls(l)
    BY <1>0, FrameCallsPop DEF Returned
  <2>2. Carries(calls, AllWaits, l, w)
    <3>1. Len(stack[l]) \in 1..Len(stack[l]) /\ Top(l) = stack[l][Len(stack[l])]
      BY <1>0, TopFrame DEF AtWork
    <3> QED BY <3>1, <1>0 DEF AtWork, WorksInv, Works
  <2>3. c \in Calls /\ calls[c].state = "called" /\ c \in Waits(k)
    BY <2>2, <1>3 DEF Carries, AllWaits
  <2>4. c # NoCall BY <2>3 DEF Calls, NoCall
  <2> QED BY <2>1, <2>3, <2>4, <1>3
<1>6. Apart' /\ InOrder' /\ KeepsCalled(c) /\ \A m \in Loops : CallsKeep(m)
  BY <1>0, <1>2, <1>3, <1>5, HandledCall DEF CallsInv
<1>7. \A m \in Loops : c \notin QueuedCalls(m) BY <1>5 DEF CallsInv, Places
<1>8. \A m \in Loops \ {l} : FrameCalls(m)' = FrameCalls(m) BY FrameCallsSame DEF Returned
<1>9. \A m \in Loops \ {l} : c \notin FrameCalls(m) BY <1>5 DEF CallsInv, Places
<1>10. \A m \in Loops : Gone(m, c) BY <1>5, <1>7, <1>8, <1>9 DEF Gone
<1>11. LoopInv(l)' BY <1>0, <1>4, <1>6, <1>10, LoopReturns DEF Returned
<1>12. LoopInv(k)'
  <2>1. calls'[c].state = "handled" /\ IsAnswer(t, c) BY <1>3 DEF CallsChange
  <2> QED BY <1>0, <1>4, <1>5, <1>6, <1>10, <2>1, LoopAnswered
<1>13. \A m \in Loops \ {l, k} : LoopInv(m)' BY <1>0, <1>6, <1>10, LoopRests DEF PostedTo, Returned
<1>14. Places'
  <2>1. \A m \in Loops : FrameCalls(m)' \subseteq FrameCalls(m) BY <1>5, <1>8
  <2>2. QueuedCalls(k)' \subseteq QueuedCalls(k) BY <1>4, QueuedCallsStep DEF IsAnswer
  <2>3. \A m \in Loops : QueuedCalls(m)' \subseteq QueuedCalls(m) BY <2>2, QueuedCallsStep DEF PostedTo
  <2> QED BY <2>1, <2>3, PlacesLess DEF CallsInv
<1>15. CallsInv' BY <1>6, <1>11, <1>12, <1>13, <1>14, Whole
<1>16. HandleStep(c) BY <1>2, <1>3, <1>5 DEF HandleStep
<1> QED BY <1>15, <1>16 DEF Good, AbstractStep

\* A call is made: its first step is posted and a run waits for it.
LEMMA Made ==
  ASSUME CallsInv, NextOK, NEW l \in Loops, NEW c \in Calls, NEW fn, Serves(l, fn), CallerOf(fn) = l,
         stack[l] = <<>> \/ IsCb(Top(l)),
         NEW t, QAdded(l, t), IsStep(t, fn, c), NEW f, Pushed(l, f),
         NewRun(f, Nested, c, ml[l].depth + 1), ml'[l].depth = ml[l].depth + 1,
         \A m \in Loops \ {l} : QSame(m) /\ DSame(m) /\ SSame(m),
         CallsChange(c, "called"), calls'[c].depth = ml[l].depth + 1, IsNextCall(c)
  PROVE  Good
<1>0. /\ Types /\ TypedNext /\ NextTyped /\ WaitersInv /\ WorksInv
      /\ \A m \in Loops : LoopInv(m) /\ Gone(m, NoCall) /\ Single(m)
  BY InvGives
<1>1. c # NoCall BY DEF Calls, NoCall
<1>2. Waits(l)' = Waits(l) \cup {c}
  <2>1. IsLoop(f) /\ f.call = c BY DEF NewRun
  <2>2. Waits(l)' = IF f.call = NoCall THEN Waits(l) ELSE Waits(l) \cup {f.call}
    BY <1>0, <2>1, WaitsPushRun
  <2> QED BY <2>1, <2>2, <1>1
<1>3. \A m \in Loops \ {l} : Waits(m)' = Waits(m) BY WaitsSame
<1>4. /\ Apart' /\ InOrder' /\ KeepsCalled(NoCall)
      /\ \A m \in Loops : CallsKeep(m) /\ c \notin Waits(m) /\ c \notin QueuedCalls(m) /\ c \notin FrameCalls(m)
      /\ \A d \in Calls : calls[d].state # "unused" => d < c
  BY <1>0, <1>2, <1>3, MadeCall DEF CallsInv
<1>5. LoopInv(l)'
  <2>1. t.work.fn = fn /\ t.work.call = c /\ ~t.terminate BY DEF IsStep
  <2>2. calls'[c].state = "called" /\ c \in AllWaits'[CallerOf(fn)]
    BY <1>2 DEF CallsChange, AllWaits
  <2>3. Carries(calls', AllWaits', l, t.work) BY <2>1, <2>2 DEF Carries
  <2>4. NewSteps(l, {t}) BY <2>1, <2>3, <1>4 DEF NewSteps, QAdded
  <2>5. Fits(calls', f) BY <2>2 DEF Fits, NewRun
  <2>6. \A d \in Waits(l) : d < c
    <3>1. \A d \in Waits(l) : d \in Calls /\ calls[d].state # "unused" BY <1>0, WaitsUsed DEF WaitersInv
    <3> QED BY <3>1, <1>4
  <2>7. "ML_INCREASE_DEPTH" \in Nested BY DEF Nested
  <2> QED BY <1>0, <1>4, <2>4, <2>5, <2>6, <2>7, LoopEntered
<1>6. \A m \in Loops \ {l} : LoopInv(m)' BY <1>0, <1>4, LoopRests
<1>7. Places'
  <2>1. \A m \in Loops \ {l} : FrameCalls(m)' = FrameCalls(m) BY FrameCallsSame
  <2>2. FrameCalls(l)' \subseteq FrameCalls(l)
    <3>1. f \in FrameT /\ IsLoop(f) BY DEF NewRun
    <3>2. Over(l, {f}) BY <1>0, OverStep
    <3> QED BY <3>1, <3>2, <1>0, FrameCallsStep
  <2>3. \A m \in Loops : c \notin FrameCalls(m)' /\ FrameCalls(m)' \subseteq FrameCalls(m)
    BY <2>1, <2>2, <1>4
  <2>4. QueuedCalls(l)' \subseteq QueuedCalls(l) \cup {c} BY QueuedCallsStep DEF IsStep
  <2>5. \A m \in Loops \ {l} : QueuedCalls(m)' = QueuedCalls(m) BY QueuedCallsStep
  <2>6. \A m \in Loops \ {l} : c \notin QueuedCalls(m)' BY <2>5, <1>4
  <2>7. OthersStay(c) BY <2>3, <2>4, <2>5 DEF OthersStay
  <2> QED BY <2>3, <2>6, <2>7, PlacesStep DEF CallsInv
<1>8. CallsInv' BY <1>4, <1>5, <1>6, <1>7, Whole
<1>9. CallStep(l, c)
  <2>1. calls[c].state = "unused" BY DEF IsNextCall, Unused
  <2> QED BY <2>1, <1>2, <1>3, <1>4 DEF CallStep
<1> QED BY <1>8, <1>9 DEF Good, AbstractStep

\* A run that waits for nothing is entered.
LEMMA Activated ==
  ASSUME CallsInv, NextOK, calls' = calls, NEW l \in Loops, stack[l] = <<>> \/ IsCb(Top(l)),
         NEW f, NEW flags, Pushed(l, f), NewRun(f, flags, NoCall, ml[l].depth + 1),
         "ML_INCREASE_DEPTH" \in flags, ml'[l].depth = ml[l].depth + 1,
         \A m \in Loops : QSame(m), \A m \in Loops \ {l} : DSame(m) /\ SSame(m)
  PROVE  Good
<1>0. /\ Types /\ TypedNext /\ NextTyped /\ WaitersInv /\ WorksInv
      /\ \A m \in Loops : LoopInv(m) /\ Gone(m, NoCall) /\ Single(m)
  BY InvGives
<1>1. f \in FrameT /\ IsLoop(f) /\ f.call = NoCall BY DEF NewRun
<1>2. Waits(l)' = Waits(l)
  <2>1. Waits(l)' = IF f.call = NoCall THEN Waits(l) ELSE Waits(l) \cup {f.call}
    BY <1>0, <1>1, WaitsPushRun
  <2> QED BY <1>1, <2>1
<1>3. \A m \in Loops : Waits(m)' = Waits(m) BY <1>2, WaitsSame
<1>4. Apart' /\ InOrder' /\ KeepsCalled(NoCall) /\ \A m \in Loops : CallsKeep(m)
  BY <1>3, QuietCalls DEF CallsInv
<1>5. LoopInv(l)'
  <2>1. NewSteps(l, {}) BY DEF NewSteps, QSame
  <2>2. Fits(calls', f) BY <1>1 DEF Fits, Waiter
  <2> QED BY <1>0, <1>4, <2>1, <2>2, LoopEntered
<1>6. \A m \in Loops \ {l} : LoopInv(m)' BY <1>0, <1>4, LoopRests
<1>7. Places'
  <2>1. Over(l, {f}) BY <1>0, OverStep
  <2>2. FrameCalls(l)' \subseteq FrameCalls(l) BY <1>0, <1>1, <2>1, FrameCallsStep
  <2>3. \A m \in Loops : FrameCalls(m)' \subseteq FrameCalls(m) BY <2>2, FrameCallsSame
  <2>4. \A m \in Loops : QueuedCalls(m)' \subseteq QueuedCalls(m) BY QueuedCallsStep
  <2> QED BY <2>3, <2>4, PlacesLess DEF CallsInv
<1>8. CallsInv' BY <1>4, <1>5, <1>6, <1>7, Whole
<1> QED BY <1>3, <1>8 DEF Good, AbstractStep, NoStep

\* A step of a call goes on as another one.
LEMMA Prepared ==
  ASSUME CallsInv, NextOK, calls' = calls, NEW l \in Loops, NEW w, AtWork(l, w), Serves(l, w.fn),
         NEW f \in FrameT, IsCb(f), Retopped(l, f), f.work.call = w.call, Serves(l, f.work.fn),
         CallerOf(f.work.fn) = CallerOf(w.fn),
         \A m \in Loops : QSame(m) /\ DSame(m), \A m \in Loops \ {l} : SSame(m)
  PROVE  Good
<1>0. /\ Types /\ TypedNext /\ NextTyped /\ WaitersInv /\ WorksInv
      /\ \A m \in Loops : LoopInv(m) /\ Gone(m, NoCall) /\ Single(m)
  BY InvGives
<1>1. stack[l] # <<>> /\ IsCb(Top(l)) BY DEF AtWork
<1>2. Waits(l)' = Waits(l) BY <1>0, <1>1, WaitsRetop
<1>3. \A m \in Loops : Waits(m)' = Waits(m) BY <1>2, WaitsSame
<1>4. Apart' /\ InOrder' /\ KeepsCalled(NoCall) /\ \A m \in Loops : CallsKeep(m)
  BY <1>3, QuietCalls DEF CallsInv
<1>5. Len(stack[l]) \in 1..Len(stack[l]) /\ Top(l) = stack[l][Len(stack[l])]
  BY <1>0, TopFrame DEF AtWork
<1>6. Carries(calls, AllWaits, l, w) BY <1>5, <1>0 DEF AtWork, WorksInv, Works
<1>7. Carries(calls', AllWaits', l, f.work)
  <2>1. AllWaits' = AllWaits BY <1>3 DEF AllWaits
  <2> QED BY <2>1, <1>6 DEF Carries
<1>8. LoopInv(l)' BY <1>0, <1>4, <1>7, LoopPrepared
<1>9. \A m \in Loops \ {l} : LoopInv(m)' BY <1>0, <1>4, LoopRests
<1>10. Places'
  <2>1. Over(l, {f}) BY <1>0, OverStep
  <2>2. FrameCalls(l)' \subseteq FrameCalls(l) \cup ({f.work.call} \ {NoCall}) BY <1>0, <2>1, FrameCallsStep
  <2>3. w.call # NoCall => w.call \in FrameCalls(l) BY <1>5 DEF AtWork, FrameCalls
  <2>4. \A m \in Loops : FrameCalls(m)' \subseteq FrameCalls(m) BY <2>2, <2>3, FrameCallsSame
  <2>5. \A m \in Loops : QueuedCalls(m)' \subseteq QueuedCalls(m) BY QueuedCallsStep
  <2> QED BY <2>4, <2>5, PlacesLess DEF CallsInv
<1>11. CallsInv' BY <1>4, <1>8, <1>9, <1>10, Whole
<1> QED BY <1>3, <1>11 DEF Good, AbstractStep, NoStep

\* A thread looks at its queues.
LEMMA Looked ==
  ASSUME CallsInv, NextOK, calls' = calls, NEW l \in Loops, Unseen(l)
  PROVE  Good
<1>0. /\ Types /\ TypedNext /\ NextTyped /\ WaitersInv /\ WorksInv
      /\ \A m \in Loops : LoopInv(m) /\ Gone(m, NoCall) /\ Single(m)
  BY InvGives
<1>1. \A m \in Loops : QSame(m) /\ DSame(m) BY DEF Unseen
<1>2. \A m \in Loops \ {l} : SSame(m) BY DEF Unseen
<1>3. Waits(l)' = Waits(l) /\ FrameCalls(l)' \subseteq FrameCalls(l)
  <2>1. CASE SSame(l) BY <2>1, WaitsSame, FrameCallsSame
  <2>2. CASE ~SSame(l)
    <3>1. PICK f \in FrameT : Retopped(l, f) /\ SameRun(Top(l), f) /\ IsLoop(Top(l))
      BY <2>2 DEF Unseen
    <3>2. stack[l] # <<>> BY <3>1 DEF Retopped
    <3>3. Waits(l)' = Waits(l) BY <1>0, <3>1, <3>2, WaitsRetop
    <3>4. Over(l, {f}) /\ IsLoop(f) BY <1>0, <3>1, OverStep DEF SameRun
    <3>5. FrameCalls(l)' \subseteq FrameCalls(l) BY <1>0, <3>4, FrameCallsStep
    <3> QED BY <3>3, <3>5
  <2> QED BY <2>1, <2>2
<1>4. \A m \in Loops : Waits(m)' = Waits(m) BY <1>2, <1>3, WaitsSame
<1>5. Apart' /\ InOrder' /\ KeepsCalled(NoCall) /\ \A m \in Loops : CallsKeep(m)
  BY <1>4, QuietCalls DEF CallsInv
<1>6. LoopInv(l)' BY <1>0, <1>5, LoopUnseen
<1>7. \A m \in Loops \ {l} : LoopInv(m)' BY <1>0, <1>1, <1>2, <1>5, LoopRests
<1>8. Places'
  <2>1. \A m \in Loops : FrameCalls(m)' \subseteq FrameCalls(m) BY <1>2, <1>3, FrameCallsSame
  <2>2. \A m \in Loops : QueuedCalls(m)' \subseteq QueuedCalls(m) BY <1>1, QueuedCallsStep
  <2> QED BY <2>1, <2>2, PlacesLess DEF CallsInv
<1>9. CallsInv' BY <1>5, <1>6, <1>7, <1>8, Whole
<1> QED BY <1>4, <1>9 DEF Good, AbstractStep, NoStep

\* A task runs.
LEMMA Started ==
  ASSUME CallsInv, NextOK, calls' = calls, NEW l \in Loops, NEW t, Ran(l, t)
  PROVE  Good
<1>0. /\ Types /\ TypedNext /\ NextTyped /\ WaitersInv /\ WorksInv
      /\ \A m \in Loops : LoopInv(m) /\ Gone(m, NoCall) /\ Single(m)
  BY InvGives
<1>1. PICK f \in FrameT : Pushed(l, f) /\ IsCb(f) /\ f.work = t.work BY DEF Ran
<1>2. QTaken(l, t) /\ \A m \in Loops \ {l} : QSame(m) /\ SSame(m) /\ DSame(m) BY DEF Ran
<1>3. Waits(l)' = Waits(l) BY <1>0, <1>1, WaitsPushCb
<1>4. \A m \in Loops : Waits(m)' = Waits(m) BY <1>2, <1>3, WaitsSame
<1>5. Apart' /\ InOrder' /\ KeepsCalled(NoCall) /\ \A m \in Loops : CallsKeep(m)
  BY <1>4, QuietCalls DEF CallsInv
<1>6. PICK c : c = t.work.call OBVIOUS
<1>7. /\ QueuedCalls(l)' \subseteq QueuedCalls(l) /\ c \notin QueuedCalls(l)'
      /\ (c # NoCall => c \in QueuedCalls(l))
  BY <1>0, <1>2, <1>6, QueuedCallsStep
<1>8. \A m \in Loops : c \notin FrameCalls(m)
  <2>1. CASE c = NoCall BY <2>1 DEF FrameCalls
  <2>2. CASE c # NoCall BY <2>2, <1>7 DEF CallsInv, Places
  <2> QED BY <2>1, <2>2
<1>9. LoopInv(l)' BY <1>0, <1>5, <1>6, <1>8, LoopRan
<1>10. \A m \in Loops \ {l} : LoopInv(m)' BY <1>0, <1>2, <1>5, LoopRests
<1>11. Places'
  <2>1. Over(l, {f}) BY <1>0, <1>1, OverStep
  <2>2. FrameCalls(l)' \subseteq FrameCalls(l) \cup {c} BY <1>0, <1>1, <1>6, <2>1, FrameCallsStep
  <2>3. \A m \in Loops \ {l} : FrameCalls(m)' = FrameCalls(m) BY <1>2, FrameCallsSame
  <2>4. \A m \in Loops \ {l} : c \notin FrameCalls(m)' BY <2>3, <1>8
  <2>5. \A m \in Loops \ {l} : QueuedCalls(m)' = QueuedCalls(m) BY <1>2, QueuedCallsStep
  <2>6. \A m \in Loops \ {l} : c \notin QueuedCalls(m)
    <3>1. CASE c = NoCall BY <3>1 DEF QueuedCalls
    <3>2. CASE c # NoCall BY <3>2, <1>7 DEF CallsInv, Places
    <3> QED BY <3>1, <3>2
  <2>7. \A m \in Loops : c \notin QueuedCalls(m)' BY <2>5, <2>6, <1>7
  <2>8. OthersStay(c) BY <2>2, <2>3, <2>5, <1>7 DEF OthersStay
  <2> QED BY <2>4, <2>7, <2>8, PlacesStep DEF CallsInv
<1>12. CallsInv' BY <1>5, <1>9, <1>10, <1>11, Whole
<1> QED BY <1>4, <1>12 DEF Good, AbstractStep, NoStep

\* The outermost run goes on in teardown.
LEMMA InTeardown ==
  ASSUME CallsInv, NextOK, calls' = calls, NEW l \in Loops, TornDown(l)
  PROVE  Good
<1>0. /\ Types /\ TypedNext /\ NextTyped /\ WaitersInv /\ WorksInv
      /\ \A m \in Loops : LoopInv(m) /\ Gone(m, NoCall) /\ Single(m)
  BY InvGives
<1>1. PICK f \in FrameT : Retopped(l, f) /\ SameRun(Top(l), f) BY DEF TornDown
<1>2. PICK t : QTaken(l, t) BY DEF TornDown
<1>3. /\ \A m \in Loops \ {l} : QSame(m) /\ SSame(m) /\ DSame(m)
      /\ stack[l] # <<>> /\ IsLoop(Top(l))
  BY DEF TornDown
<1>4. Waits(l)' = Waits(l) BY <1>0, <1>1, <1>3, WaitsRetop
<1>5. \A m \in Loops : Waits(m)' = Waits(m) BY <1>3, <1>4, WaitsSame
<1>6. Apart' /\ InOrder' /\ KeepsCalled(NoCall) /\ \A m \in Loops : CallsKeep(m)
  BY <1>5, QuietCalls DEF CallsInv
<1>7. LoopInv(l)' BY <1>0, <1>6, LoopTorn
<1>8. \A m \in Loops \ {l} : LoopInv(m)' BY <1>0, <1>3, <1>6, LoopRests
<1>9. Places'
  <2>1. Over(l, {f}) /\ IsLoop(f) BY <1>0, <1>1, OverStep DEF SameRun
  <2>2. FrameCalls(l)' \subseteq FrameCalls(l) BY <1>0, <2>1, FrameCallsStep
  <2>3. \A m \in Loops : FrameCalls(m)' \subseteq FrameCalls(m) BY <1>3, <2>2, FrameCallsSame
  <2>4. \A m \in Loops : QueuedCalls(m)' \subseteq QueuedCalls(m) BY <1>2, <1>3, QueuedCallsStep
  <2> QED BY <2>3, <2>4, PlacesLess DEF CallsInv
<1>10. CallsInv' BY <1>6, <1>7, <1>8, <1>9, Whole
<1> QED BY <1>5, <1>10 DEF Good, AbstractStep, NoStep

\* A run is left: what it waited for has been handled, and has no other quit task.
LEMMA LeftIsHandled ==
  ASSUME CallsInv, NEW l \in Loops, stack[l] # <<>>, IsLoop(Top(l)),
         \/ \E t \in TaskT : QTaken(l, t) /\ t.terminate /\ (t.depth = 0 \/ t.depth >= Top(l).depth)
         \/ QSame(l) /\ (Top(l).teardown \/ "ML_EXIT_ON_EMPTY" \in Top(l).flags)
  PROVE  /\ Top(l).call # NoCall => calls[Top(l).call].state = "handled"
         /\ NoneForTop(l) /\ Queued(l)' \subseteq Queued(l)
         /\ QueuedCalls(l)' \subseteq QueuedCalls(l)
<1>0. Types /\ Shape(l) /\ Quits(l) /\ Waiters(l) BY DEF CallsInv, LoopInv
<1>1. CASE \E t \in TaskT : QTaken(l, t) /\ t.terminate /\ (t.depth = 0 \/ t.depth >= Top(l).depth)
  <2>1. PICK t \in TaskT : QTaken(l, t) /\ t.terminate /\ (t.depth = 0 \/ t.depth >= Top(l).depth)
    BY <1>1
  <2>2. t \in Queued(l) /\ Queued(l)' = Queued(l) \ {t} BY <2>1 DEF QTaken
  <2>3. /\ Ends(calls, t, Top(l))
        /\ \A u \in Queued(l) \ {t} : u.terminate => ~Ends(calls, u, Top(l))
    BY <1>0, <2>1, <2>2, EnderIsTop
  <2>4. calls[Top(l).call].state = "handled" BY <2>3 DEF Ends
  <2>5. NoneForTop(l) BY <2>2, <2>3 DEF NoneForTop
  <2>6. QueuedCalls(l)' \subseteq QueuedCalls(l) BY <2>1, QueuedCallsStep
  <2> QED BY <2>2, <2>4, <2>5, <2>6
<1>2. CASE QSame(l) /\ (Top(l).teardown \/ "ML_EXIT_ON_EMPTY" \in Top(l).flags)
  <2>1. Len(stack[l]) \in 1..Len(stack[l]) /\ Top(l) = stack[l][Len(stack[l])] BY <1>0, TopFrame
  <2>2. PICK g : g = Top(l) OBVIOUS
  <2>3. Fits(calls, g) BY <1>0, <2>1, <2>2 DEF Waiters
  <2>4. "ML_EXIT_ON_EMPTY" \notin Nested BY DEF Nested
  <2>5. Waiter(g) => g.teardown /\ calls[g.call].state = "handled" BY <1>2, <2>2, <2>3, <2>4 DEF Fits
  <2>6. Top(l).call # NoCall => calls[Top(l).call].state = "handled" BY <2>2, <2>5 DEF Waiter
  <2>7. \A t : ~Ends(calls, t, g) BY <2>5 DEF Ends
  <2>8. NoneForTop(l) BY <2>2, <2>7 DEF NoneForTop
  <2>9. QueuedCalls(l)' \subseteq QueuedCalls(l) BY <1>2, QueuedCallsStep
  <2> QED BY <1>2, <2>6, <2>8, <2>9 DEF QSame
<1> QED BY <1>1, <1>2

\* And the call it waited for returns.
LEMMA LeftRun ==
  ASSUME CallsInv, NextOK, NEW l \in Loops, Left(l), LeftFrame(l),
         \/ \E t \in TaskT : QTaken(l, t) /\ t.terminate /\ (t.depth = 0 \/ t.depth >= Top(l).depth)
         \/ QSame(l) /\ (Top(l).teardown \/ "ML_EXIT_ON_EMPTY" \in Top(l).flags)
  PROVE  Good
<1>0. /\ Types /\ TypedNext /\ NextTyped /\ WaitersInv /\ WorksInv
      /\ \A m \in Loops : LoopInv(m) /\ Gone(m, NoCall) /\ Single(m) /\ Waiters(m)
  BY InvGives
<1>1. /\ Popped(l) /\ stack[l] # <<>> /\ IsLoop(Top(l))
      /\ \A m \in Loops \ {l} : QSame(m) /\ DSame(m) /\ SSame(m)
  BY DEF Left
<1>2. /\ Top(l).call # NoCall => calls[Top(l).call].state = "handled"
      /\ NoneForTop(l) /\ Queued(l)' \subseteq Queued(l)
      /\ QueuedCalls(l)' \subseteq QueuedCalls(l)
  BY <1>1, LeftIsHandled
<1>3. PICK c : c = Top(l).call OBVIOUS
<1>4. /\ Waits(l)' = Waits(l) \ {c}
      /\ c # NoCall => c \in Waits(l) /\ \A d \in Waits(l) : d <= c
  BY <1>0, <1>1, <1>3, WaitsPopRun
<1>5. \A m \in Loops \ {l} : Waits(m)' = Waits(m) BY <1>1, WaitsSame
<1>6. c # NoCall => c \in Calls /\ CallsChange(c, "returned")
  <2>1. SUFFICES ASSUME c # NoCall PROVE c \in Calls /\ CallsChange(c, "returned") OBVIOUS
  <2>2. c \in Calls BY <2>1, <1>0, <1>4, WaitsUsed
  <2>3. calls' = [calls EXCEPT ![c].state = "returned"] BY <2>1, <1>3 DEF LeftFrame
  <2>4. calls \in [Calls -> CallT] BY <1>0 DEF Types
  <2>5. PICK e : e = [calls[c] EXCEPT !.state = "returned"] OBVIOUS
  <2>6. calls[c] \in CallT BY <2>2, <2>4
  <2>7. e \in CallT /\ e.state = "returned" BY ONLY <2>5, <2>6 DEF CallT
  <2>8. calls' = [calls EXCEPT ![c] = e] BY <2>3, <2>5
  <2> QED BY <2>2, <2>4, <2>7, <2>8 DEF CallsChange
<1>7. c = NoCall => calls' = calls BY <1>3 DEF LeftFrame
<1>8. Apart' /\ InOrder' /\ KeepsCalled(NoCall) /\ \A m \in Loops : CallsKeep(m)
  <2>1. \/ c = NoCall /\ calls' = calls
        \/ c \in Waits(l) /\ calls[c].state = "handled" /\ CallsChange(c, "returned")
    BY <1>2, <1>3, <1>4, <1>6, <1>7
  <2> QED BY <1>0, <1>4, <1>5, <2>1, ReturnedCall DEF CallsInv
<1>9. LoopInv(l)' BY <1>0, <1>2, <1>8, LoopLeft
<1>10. \A m \in Loops \ {l} : LoopInv(m)' BY <1>0, <1>1, <1>8, LoopRests
<1>11. Places'
  <2>1. Over(l, {}) BY <1>0, <1>1, OverStep
  <2>2. FrameCalls(l)' \subseteq FrameCalls(l) BY <1>0, <2>1, FrameCallsStep
  <2>3. \A m \in Loops : FrameCalls(m)' \subseteq FrameCalls(m) BY <1>1, <2>2, FrameCallsSame
  <2>4. \A m \in Loops : QueuedCalls(m)' \subseteq QueuedCalls(m) BY <1>1, <1>2, QueuedCallsStep
  <2> QED BY <2>3, <2>4, PlacesLess DEF CallsInv
<1>12. CallsInv' BY <1>8, <1>9, <1>10, <1>11, Whole
<1>13. CASE c = NoCall
  <2>1. NoCall \notin Waits(l) BY DEF Waits
  <2>2. \A m \in Loops : Waits(m)' = Waits(m) BY <1>4, <1>5, <1>13, <2>1
  <2> QED BY <2>2, <1>7, <1>12, <1>13 DEF Good, AbstractStep, NoStep
<1>14. CASE c # NoCall
  <2>1. ReturnStep(l, c) BY <1>2, <1>3, <1>4, <1>5, <1>6, <1>14 DEF ReturnStep
  <2> QED BY <2>1, <1>12 DEF Good, AbstractStep
<1> QED BY <1>13, <1>14

-----------------------------------------------------------------------------
(* The actions.                                                            *)

CountersOK ==
  activations \in Nat /\ events \in 0 .. MaxEvents /\ posts \in 0 .. MaxPosts /\ npp \in BOOLEAN

\* The types after a step.
LEMMA NextIsOK ==
  ASSUME LoopsTyped', StampsInv', stack' \in [Loops -> Seq(FrameT)], calls' \in [Calls -> CallT], CountersOK'
  PROVE  NextOK
BY DEF NextOK, Types, LoopsTyped, CountersOK

\* The two loops, and who serves what.
LEMMA TwoLoops ==
  /\ PluginLoop \in Loops /\ BrowserLoop \in Loops /\ PluginLoop # BrowserLoop
  /\ Serves(PluginLoop, "n2p_call_comt") /\ Serves(PluginLoop, "p2n_invoke_comt")
  /\ Serves(BrowserLoop, "n2p_call_ptac") /\ Serves(BrowserLoop, "p2n_invoke_prepare_comt")
  /\ Serves(BrowserLoop, "trampoline")
  /\ CallerOf("n2p_call_comt") = PluginLoop /\ CallerOf("n2p_call_ptac") = PluginLoop
  /\ CallerOf("p2n_invoke_comt") = BrowserLoop /\ CallerOf("trampoline") = BrowserLoop
  /\ CallerOf("p2n_invoke_prepare_comt") = BrowserLoop
BY LoopsAssumption DEF Serves, CallerOf, PluginFns, BrowserFns

\* What a step of a call carries.
LEMMA CarriesCall ==
  ASSUME CallsInv, NEW l \in Loops, NEW w, AtWork(l, w), Serves(l, w.fn)
  PROVE  w.call \in Calls /\ calls[w.call].state = "called"
<1>1. Types /\ Works(l) BY DEF CallsInv, LoopInv
<1>2. Len(stack[l]) \in 1..Len(stack[l]) /\ Top(l) = stack[l][Len(stack[l])]
  BY <1>1, TopFrame DEF AtWork
<1>3. Carries(calls, AllWaits, l, w) BY <1>1, <1>2 DEF AtWork, Works
<1> QED BY <1>3 DEF Carries

\* ppb_core_call_on_main_thread2.
LEMMA EventPosted ==
  ASSUME CallsInv, ppb_core_call_on_main_thread2 PROVE Good
<1> USE DEF ppb_core_call_on_main_thread2
<1>1. Types /\ StampsInv /\ PluginLoop \in Loops BY TwoLoops DEF CallsInv
<1>2. LoopsTyped' /\ StampsInv' /\ \E t : PostedTo(PluginLoop, t) /\ IsStep(t, "event", NoCall)
  BY <1>1, PostWork
<1>3. CountersOK' BY <1>1, BoundsAssumption DEF Types, CountersOK
<1>4. NextOK BY <1>1, <1>2, <1>3, NextIsOK DEF Types
<1>5. \A m \in Loops : SSame(m) BY DEF SSame
<1> QED BY <1>1, <1>2, <1>4, <1>5, PlainPost

\* The calls of either side.
LEMMA CallMade ==
  ASSUME CallsInv, NEW l \in Loops, NEW c \in Calls, NEW td \in Nat,
         NEW fn \in PluginFns \cup BrowserFns, Serves(l, fn), CallerOf(fn) = l, NEW destroys \in BOOLEAN,
         stack[l] = <<>> \/ IsCb(Top(l)), CallAndWait(l, c, fn, td, destroys),
         UNCHANGED <<activations, npp, events, posts>>
  PROVE  Good
<1>1. Types /\ StampsInv BY DEF CallsInv
<1>2. /\ LoopsTyped' /\ StampsInv' /\ stack' \in [Loops -> Seq(FrameT)]
      /\ \E t : QAdded(l, t) /\ IsStep(t, fn, c)
      /\ \E f : Pushed(l, f) /\ NewRun(f, Nested, c, ml[l].depth + 1)
      /\ ml'[l].depth = ml[l].depth + 1
      /\ \A m \in Loops \ {l} : QSame(m) /\ DSame(m) /\ SSame(m)
      /\ CallsChange(c, "called") /\ calls'[c].depth = ml[l].depth + 1
      /\ IsNextCall(c)
  BY <1>1, CallEffect
<1>3. CountersOK' BY <1>1 DEF Types, CountersOK
<1>4. NextOK BY <1>2, <1>3, NextIsOK DEF CallsChange
<1>5. PICK t : QAdded(l, t) /\ IsStep(t, fn, c) BY <1>2
<1>6. PICK f : Pushed(l, f) /\ NewRun(f, Nested, c, ml[l].depth + 1) BY <1>2
<1> QED BY <1>2, <1>4, <1>5, <1>6, Made

\* n2p_call, p2n_invoke and NPP_Destroy.
LEMMA CallsMade ==
  ASSUME CallsInv, NEW c \in Calls, n2p_call(c) \/ p2n_invoke(c) \/ NPP_Destroy(c) PROVE Good
<1>1. Types /\ ml \in [Loops -> LoopT] BY DEF CallsInv, Types
<1>2. ml[PluginLoop].depth + 1 \in Nat /\ ml[BrowserLoop].depth + 1 \in Nat
  BY <1>1, TwoLoops, LoopFields
<1>3. "n2p_call_comt" \in PluginFns \cup BrowserFns /\ "p2n_invoke_prepare_comt" \in PluginFns \cup BrowserFns
  BY DEF PluginFns, BrowserFns
<1>4. PICK d, e : d = ml[PluginLoop].depth + 1 /\ e = ml[BrowserLoop].depth + 1 OBVIOUS
<1>5. CASE n2p_call(c)
  <2>1. IsCb(Top(PluginLoop)) BY <1>5 DEF n2p_call, InFunction, InCallback, IsCb
  <2>2. /\ CallAndWait(PluginLoop, c, "n2p_call_comt", d, FALSE)
        /\ UNCHANGED <<activations, npp, events, posts>>
    BY <1>4, <1>5 DEF n2p_call
  <2> QED BY <1>2, <1>3, <1>4, <2>1, <2>2, TwoLoops, CallMade
<1>6. CASE p2n_invoke(c)
  <2>1. stack[BrowserLoop] = <<>> \/ IsCb(Top(BrowserLoop))
    BY <1>6 DEF p2n_invoke, InBrowser, InFunction, InCallback, IsCb
  <2>2. /\ CallAndWait(BrowserLoop, c, "p2n_invoke_prepare_comt", 0, FALSE)
        /\ UNCHANGED <<activations, npp, events, posts>>
    BY <1>6 DEF p2n_invoke
  <2> QED BY <1>3, <2>1, <2>2, TwoLoops, CallMade
<1>7. CASE NPP_Destroy(c)
  <2>1. /\ CallAndWait(BrowserLoop, c, "p2n_invoke_prepare_comt", e, TRUE)
        /\ UNCHANGED <<activations, npp, events, posts>> /\ stack[BrowserLoop] = <<>>
    BY <1>4, <1>7 DEF NPP_Destroy
  <2> QED BY <1>2, <1>3, <1>4, <2>1, TwoLoops, CallMade
<1> QED BY <1>5, <1>6, <1>7

\* n2p_call_comt hands the call to the browser thread.
LEMMA CallForwarded ==
  ASSUME CallsInv, n2p_call_comt PROVE Good
<1> USE DEF n2p_call_comt, ppb_core_call_on_browser_thread
<1>1. Types /\ StampsInv BY DEF CallsInv
<1>2. PICK w : AtWork(PluginLoop, w) /\ w.fn \in {"n2p_call_comt"} BY <1>1, TwoLoops, InWork
<1>3. w.fn = "n2p_call_comt" /\ w.call \in Calls /\ Top(PluginLoop).work = w
  <2>1. w.fn = "n2p_call_comt" /\ Top(PluginLoop).work = w BY <1>2 DEF AtWork
  <2>2. Serves(PluginLoop, w.fn) BY <2>1, TwoLoops
  <2> QED BY <2>1, <2>2, <1>2, TwoLoops, CarriesCall
<1>4. LoopsTyped' /\ StampsInv' /\ \E t : PostedTo(BrowserLoop, t) /\ IsStep(t, "n2p_call_ptac", w.call)
  <2>1. PICK c : c = w.call OBVIOUS
  <2>2. /\ ml' = ppb_message_loop_post_work_with_result(
                   ml, BrowserLoop, WorkTask(stamp[BrowserLoop], 0, Work("n2p_call_ptac", c)))
        /\ Stamped(BrowserLoop)
    BY <1>3, <2>1
  <2>3. "n2p_call_ptac" \in BrowserFns BY DEF BrowserFns
  <2> QED BY <1>1, <1>3, <2>1, <2>2, <2>3, TwoLoops, PostWork
<1>5. PICK t : PostedTo(BrowserLoop, t) /\ IsStep(t, "n2p_call_ptac", w.call) BY <1>4
<1>6. stack' \in [Loops -> Seq(FrameT)] /\ Returned(PluginLoop) BY <1>1, <1>2, TwoLoops, ReturnEffect
<1>7. CountersOK' BY <1>1 DEF Types, CountersOK
<1>8. NextOK BY <1>1, <1>4, <1>6, <1>7, NextIsOK DEF Types
<1>9. calls' = calls OBVIOUS
<1> QED BY <1>2, <1>3, <1>5, <1>6, <1>8, <1>9, TwoLoops, Forward

\* PostToBrowser.
LEMMA TaskPosted ==
  ASSUME CallsInv, PostToBrowser PROVE Good
<1> USE DEF PostToBrowser, ppb_core_call_on_browser_thread
<1>1. Types /\ StampsInv /\ BrowserLoop \in Loops BY TwoLoops DEF CallsInv
<1>2. LoopsTyped' /\ StampsInv' /\ \E t : PostedTo(BrowserLoop, t) /\ IsStep(t, "call_forceredraw_ptac", NoCall)
  BY <1>1, PostWork
<1>3. CountersOK' BY <1>1, BoundsAssumption DEF Types, CountersOK
<1>4. NextOK BY <1>1, <1>2, <1>3, NextIsOK DEF Types
<1>5. \A m \in Loops : SSame(m) BY DEF SSame
<1> QED BY <1>1, <1>2, <1>4, <1>5, PlainPost

\* p2n_invoke_comt answers the browser thread, n2p_call_ptac the plugin thread.
LEMMA CallAnswered ==
  ASSUME CallsInv, NEW l \in Loops, NEW k \in Loops, l # k, NEW w, AtWork(l, w), Serves(l, w.fn),
         CallerOf(w.fn) = k, Answer(k, w.call), Returns(l), CountersOK'
  PROVE  Good
<1>1. Types /\ StampsInv /\ w.call \in Calls BY CarriesCall DEF CallsInv
<1>2. PICK c \in Calls : c = w.call BY <1>1
<1>3. /\ LoopsTyped' /\ StampsInv' /\ \E t : PostedTo(k, t) /\ IsAnswer(t, c)
      /\ CallsChange(c, "handled") /\ calls'[c].depth = calls[c].depth
  BY <1>1, <1>2, AnswerEffect
<1>4. PICK t : PostedTo(k, t) /\ IsAnswer(t, c) BY <1>3
<1>5. stack' \in [Loops -> Seq(FrameT)] /\ Returned(l) BY <1>1, ReturnEffect
<1>6. NextOK BY <1>3, <1>5, NextIsOK DEF CallsChange
<1> QED BY <1>2, <1>3, <1>4, <1>5, <1>6, Answered

\* The two of them.
LEMMA CallsAnswered ==
  ASSUME CallsInv, p2n_invoke_comt \/ n2p_call_ptac PROVE Good
<1>1. Types BY DEF CallsInv
<1>2. CASE p2n_invoke_comt
  <2>1. PICK w : AtWork(PluginLoop, w) /\ w.fn \in {"p2n_invoke_comt"}
    BY <1>1, <1>2, TwoLoops, InWork DEF p2n_invoke_comt
  <2>2. w.fn = "p2n_invoke_comt" /\ Top(PluginLoop).work = w BY <2>1 DEF AtWork
  <2>3. Answer(BrowserLoop, w.call) /\ Returns(PluginLoop) BY <1>2, <2>2 DEF p2n_invoke_comt
  <2>4. CountersOK'
    <3>1. npp' \in BOOLEAN BY <1>2 DEF p2n_invoke_comt
    <3> QED BY <3>1, <1>1, <1>2 DEF p2n_invoke_comt, Types, CountersOK
  <2> QED BY <2>1, <2>2, <2>3, <2>4, TwoLoops, CallAnswered
<1>3. CASE n2p_call_ptac
  <2>1. PICK w : AtWork(BrowserLoop, w) /\ w.fn \in {"n2p_call_ptac"}
    BY <1>1, <1>3, TwoLoops, InWork DEF n2p_call_ptac
  <2>2. w.fn = "n2p_call_ptac" /\ Top(BrowserLoop).work = w BY <2>1 DEF AtWork
  <2>3. Answer(PluginLoop, w.call) /\ Returns(BrowserLoop) BY <1>3, <2>2 DEF n2p_call_ptac
  <2>4. CountersOK' BY <1>1, <1>3 DEF n2p_call_ptac, Types, CountersOK
  <2> QED BY <2>1, <2>2, <2>3, <2>4, TwoLoops, CallAnswered
<1> QED BY <1>2, <1>3

\* EventReturns and call_forceredraw_ptac.
LEMMA CallbackReturns ==
  ASSUME CallsInv, EventReturns \/ call_forceredraw_ptac PROVE Good
<1>1. Types /\ StampsInv BY DEF CallsInv
<1>2. PICK l \in Loops : \E w : AtWork(l, w) /\ Returns(l)
  <2>1. CASE EventReturns
    <3>1. \E w : AtWork(PluginLoop, w) BY <1>1, <2>1, TwoLoops, InWork DEF EventReturns
    <3> QED BY <3>1, <2>1, TwoLoops DEF EventReturns
  <2>2. CASE call_forceredraw_ptac
    <3>1. \E w : AtWork(BrowserLoop, w) BY <1>1, <2>2, TwoLoops, InWork DEF call_forceredraw_ptac
    <3> QED BY <3>1, <2>2, TwoLoops DEF call_forceredraw_ptac
  <2> QED BY <2>1, <2>2
<1>3. UNCHANGED <<ml, calls, stamp, activations, npp, events, posts>>
  BY DEF EventReturns, call_forceredraw_ptac
<1>4. PICK w : AtWork(l, w) /\ Returns(l) BY <1>2
<1>5. stack' \in [Loops -> Seq(FrameT)] /\ Returned(l) BY <1>1, <1>4, ReturnEffect
<1>6. LoopsTyped' /\ StampsInv' /\ \A m \in Loops : QSame(m) /\ DSame(m)
  BY <1>1, <1>3 DEF Types, LoopsTyped, StampsInv, Stamps, QSame, DSame, Queued
<1>7. CountersOK' BY <1>1, <1>3 DEF Types, CountersOK
<1>8. NextOK BY <1>1, <1>3, <1>5, <1>6, <1>7, NextIsOK DEF Types
<1> QED BY <1>3, <1>4, <1>5, <1>6, <1>8, Done

\* activate_browser_thread_ml_ptac.
LEMMA ThreadActivated ==
  ASSUME CallsInv, activate_browser_thread_ml_ptac PROVE Good
<1> USE DEF activate_browser_thread_ml_ptac
<1>1. Types /\ StampsInv /\ BrowserLoop \in Loops /\ LoopsTyped BY TwoLoops DEF CallsInv, Types, LoopsTyped
<1>2. PICK l, flags : l = BrowserLoop /\ flags = {"ML_INCREASE_DEPTH", "ML_EXIT_ON_EMPTY", "ML_NESTED"}
  OBVIOUS
<1>3. flags \in SUBSET Flags /\ "ML_INCREASE_DEPTH" \in flags /\ l \in Loops BY <1>1, <1>2 DEF Flags
<1>4. ml \in [Loops -> LoopT] /\ ml[l] \in LoopT /\ ml[l].depth \in Nat
  BY <1>1, <1>3, LoopFields DEF Types
<1>5. PICK d : d = ml[l].depth + 1 OBVIOUS
<1>6. /\ Entered(ml, l, flags) = [ml EXCEPT ![l] = WithRun(ml[l], d)]
      /\ NewRun(LoopFrame(ml, l, flags, NoCall), flags, NoCall, d)
  BY <1>3, <1>4, <1>5, EnterRun
<1>7. PICK r : r = WithRun(ml[l], d) OBVIOUS
<1>8. r \in LoopT /\ r.async_q = ml[l].async_q /\ r.int_q = ml[l].int_q /\ r.depth = d
  <2>1. d \in Nat /\ ml[l] \in LoopT BY <1>4, <1>5
  <2> QED BY ONLY <2>1, <1>7, RunRecord
<1>9. ml' = [ml EXCEPT ![l] = r] BY <1>2, <1>6, <1>7
<1>10. StampsOf(r, stamp[l]) /\ TasksOf(r) = TasksOf(ml[l])
  BY <1>1, <1>3, <1>8, SameTasks DEF StampsInv, Stamps
<1>11. /\ LoopsTyped' /\ StampsInv' /\ ml'[l] = r
       /\ \A m \in Loops \ {l} : QSame(m) /\ DSame(m)
  <2>1. stamp' \in [Loops -> Nat] /\ stamp' = stamp BY <1>1 DEF LoopsTyped
  <2> QED BY <1>1, <1>3, <1>8, <1>9, <1>10, <2>1, OneLoop
<1>12. QSame(l) BY <1>10, <1>11 DEF QSame, Queued
<1>13. PICK f : f = LoopFrame(ml, l, flags, NoCall) OBVIOUS
<1>14. NewRun(f, flags, NoCall, d) /\ f \in FrameT BY <1>6, <1>13 DEF NewRun
<1>15. stack' = [stack EXCEPT ![l] = Append(@, f)] BY <1>2, <1>13
<1>16. /\ stack' \in [Loops -> Seq(FrameT)] /\ Pushed(l, f) /\ \A m \in Loops \ {l} : SSame(m)
  BY <1>1, <1>3, <1>14, <1>15, PushFrame
<1>17. CountersOK' BY <1>1 DEF Types, CountersOK
<1>18. NextOK BY <1>1, <1>11, <1>16, <1>17, NextIsOK DEF Types
<1>19. stack[l] = <<>> \/ IsCb(Top(l)) BY <1>2 DEF InBrowser, InFunction, InCallback, IsCb
<1>20. calls' = calls /\ ml'[l].depth = ml[l].depth + 1 BY <1>5, <1>8, <1>11
<1> QED BY <1>3, <1>5, <1>11, <1>12, <1>14, <1>16, <1>18, <1>19, <1>20, Activated

\* p2n_invoke_prepare_comt reads the depth of the plugin thread's loop.
LEMMA DepthRead ==
  ASSUME CallsInv, p2n_invoke_prepare_comt PROVE Good
<1> USE DEF p2n_invoke_prepare_comt
<1>1. Types /\ StampsInv BY DEF CallsInv
<1>2. PICK w : AtWork(BrowserLoop, w) /\ w.fn \in {"p2n_invoke_prepare_comt"} BY <1>1, TwoLoops, InWork
<1>3. PICK l : l = BrowserLoop OBVIOUS
<1>4. l \in Loops /\ AtWork(l, w) /\ w.fn = "p2n_invoke_prepare_comt" /\ stack[l] # <<>> /\ Top(l).work = w
      /\ IsCb(Top(l)) /\ w \in WorkItems
  BY <1>2, <1>3, TwoLoops DEF AtWork
<1>5. PICK d : d = ml[PluginLoop].depth OBVIOUS
<1>6. d \in Nat BY <1>1, <1>5, TwoLoops, LoopFields DEF Types
<1>7. PICK v : v = [fn |-> "trampoline", call |-> w.call, depth |-> d] OBVIOUS
<1>8. v \in WorkItems /\ v.fn = "trampoline" /\ v.call = w.call
  <2>1. w.call \in Calls \cup {NoCall} BY <1>4, WorkFields
  <2> QED BY <2>1, <1>6, <1>7 DEF WorkItems
<1>9. Top(l) = stack[l][Len(stack[l])] /\ Top(l) \in FrameT BY <1>1, <1>4, TopFrame
<1>10. Top(l) = [kind |-> "cb", work |-> w]
  <2>1. Top(l) \in [kind : {"cb"}, work : WorkItems] BY <1>4, <1>9 DEF FrameT, FrameType, IsCb
  <2> QED BY <2>1, <1>4
<1>11. PICK f : f = CallbackFrame(v) OBVIOUS
<1>12. f \in FrameT /\ IsCb(f) /\ f.work = v BY <1>8, <1>11, CallbackTyped
<1>13. stack' = [stack EXCEPT ![l] = [stack[l] EXCEPT ![Len(stack[l])] = f]]
  <2>1. f = [Top(l) EXCEPT !.work = v] BY <1>10, <1>11 DEF CallbackFrame
  <2>2. v = [fn |-> "trampoline", call |-> stack[l][Len(stack[l])].work.call, depth |-> ml[PluginLoop].depth]
    BY <1>4, <1>5, <1>7, <1>9
  <2> QED BY <2>1, <2>2, <1>3, <1>9
<1>14. /\ stack' \in [Loops -> Seq(FrameT)] /\ Retopped(l, f)
       /\ \A m \in Loops \ {l} : SSame(m)
  BY <1>1, <1>4, <1>12, <1>13, RetopFrame
<1>15. LoopsTyped' /\ StampsInv' /\ \A m \in Loops : QSame(m) /\ DSame(m)
  BY <1>1 DEF Types, LoopsTyped, StampsInv, Stamps, QSame, DSame, Queued
<1>16. CountersOK' BY <1>1 DEF Types, CountersOK
<1>17. NextOK BY <1>1, <1>14, <1>15, <1>16, NextIsOK DEF Types
<1>18. /\ Serves(l, w.fn) /\ Serves(l, f.work.fn) /\ CallerOf(f.work.fn) = CallerOf(w.fn)
       /\ f.work.call = w.call
  BY <1>3, <1>4, <1>8, <1>12, TwoLoops
<1>19. calls' = calls OBVIOUS
<1> QED BY <1>4, <1>12, <1>14, <1>15, <1>17, <1>18, <1>19, Prepared

\* ppb_core_trampoline_to_main_thread hands the call to the plugin thread.
LEMMA CallTrampolined ==
  ASSUME CallsInv, ppb_core_trampoline_to_main_thread PROVE Good
<1> USE DEF ppb_core_trampoline_to_main_thread
<1>1. Types /\ StampsInv BY DEF CallsInv
<1>2. PICK w : AtWork(BrowserLoop, w) /\ w.fn \in {"trampoline"} BY <1>1, TwoLoops, InWork
<1>3. w.fn = "trampoline" /\ w.call \in Calls /\ Top(BrowserLoop).work = w /\ w.depth \in Nat
  <2>1. w.fn = "trampoline" /\ Top(BrowserLoop).work = w /\ w \in WorkItems BY <1>2 DEF AtWork
  <2>2. Serves(BrowserLoop, w.fn) BY <2>1, TwoLoops
  <2>3. w.call \in Calls BY <2>1, <2>2, <1>2, TwoLoops, CarriesCall
  <2> QED BY <2>1, <2>3, WorkFields
<1>4. LoopsTyped' /\ StampsInv' /\ \E t : PostedTo(PluginLoop, t) /\ IsStep(t, "p2n_invoke_comt", w.call)
  <2>1. PICK c, d : c = w.call /\ d = w.depth OBVIOUS
  <2>2. /\ ml' = ppb_message_loop_post_work_with_result(
                   ml, PluginLoop, WorkTask(stamp[PluginLoop], d, Work("p2n_invoke_comt", c)))
        /\ Stamped(PluginLoop)
    BY <1>3, <2>1
  <2>3. "p2n_invoke_comt" \in PluginFns BY DEF PluginFns
  <2> QED BY <1>1, <1>3, <2>1, <2>2, <2>3, TwoLoops, PostWork
<1>5. PICK t : PostedTo(PluginLoop, t) /\ IsStep(t, "p2n_invoke_comt", w.call) BY <1>4
<1>6. stack' \in [Loops -> Seq(FrameT)] /\ Returned(BrowserLoop) BY <1>1, <1>2, TwoLoops, ReturnEffect
<1>7. CountersOK' BY <1>1 DEF Types, CountersOK
<1>8. NextOK BY <1>1, <1>4, <1>6, <1>7, NextIsOK DEF Types
<1>9. calls' = calls OBVIOUS
<1> QED BY <1>2, <1>3, <1>5, <1>6, <1>8, <1>9, TwoLoops, Forward

\* The steps of the loops.
LEMMA LoopSteps ==
  ASSUME CallsInv, NEW l \in Loops, LoopStep(l) PROVE Good
<1>1. Types /\ StampsInv /\ Shape(l) BY DEF CallsInv, LoopInv
<1>2. stamp' = stamp /\ UNCHANGED <<activations, npp, events, posts>> BY DEF LoopStep
<1>3. CountersOK' BY <1>1, <1>2 DEF Types, CountersOK
<1>4. calls \in [Calls -> CallT] BY <1>1 DEF Types
<1>5. CASE Pump(l) /\ UNCHANGED calls
  <2>1. LoopsTyped' /\ StampsInv' /\ stack' \in [Loops -> Seq(FrameT)] /\ Unseen(l)
    BY <1>1, <1>2, <1>5, PumpEffect
  <2>2. NextOK BY <2>1, <1>3, <1>4, <1>5, NextIsOK
  <2> QED BY <2>1, <2>2, <1>5, Looked
<1>6. CASE RunTask(l, stamp[l]) /\ UNCHANGED calls
  <2>1. LoopsTyped' /\ StampsInv' /\ stack' \in [Loops -> Seq(FrameT)] /\ \E t : Ran(l, t)
    BY <1>1, <1>2, <1>6, RunEffect
  <2>2. NextOK BY <2>1, <1>3, <1>4, <1>6, NextIsOK
  <2> QED BY <2>1, <2>2, <1>6, Started
<1>7. ASSUME LeftFrame(l) PROVE calls' \in [Calls -> CallT]
  <2>1. CASE Top(l).call = NoCall BY <2>1, <1>4, <1>7 DEF LeftFrame
  <2>2. CASE Top(l).call # NoCall
    <3>1. PICK c : c = Top(l).call OBVIOUS
    <3>2. calls' = [calls EXCEPT ![c] = [calls[c] EXCEPT !.state = "returned"]]
      BY <2>2, <3>1, <1>7 DEF LeftFrame
    <3>3. c \in Calls => [calls[c] EXCEPT !.state = "returned"] \in CallT
      <4>1. c \in Calls => calls[c] \in CallT BY <1>4
      <4>2. \A e \in CallT : [e EXCEPT !.state = "returned"] \in CallT BY DEF CallT
      <4> QED BY <4>1, <4>2
    <3> QED BY <3>2, <3>3, <1>4
  <2> QED BY <2>1, <2>2
<1>8. CASE QuitNested(l, stamp[l]) /\ LeftFrame(l)
  <2>1. /\ LoopsTyped' /\ StampsInv' /\ stack' \in [Loops -> Seq(FrameT)] /\ Left(l)
        /\ \E t \in TaskT : QTaken(l, t) /\ t.terminate /\ (t.depth = 0 \/ t.depth >= Top(l).depth)
    BY <1>1, <1>2, <1>8, QuitNestedEffect
  <2>2. NextOK BY <2>1, <1>3, <1>7, <1>8, NextIsOK
  <2> QED BY <2>1, <2>2, <1>8, LeftRun
<1>9. CASE QuitOutermost(l, stamp[l]) /\ UNCHANGED calls
  <2>1. LoopsTyped' /\ StampsInv' /\ stack' \in [Loops -> Seq(FrameT)] /\ TornDown(l)
    BY <1>1, <1>2, <1>9, QuitOutermostEffect
  <2>2. NextOK BY <2>1, <1>3, <1>4, <1>9, NextIsOK
  <2> QED BY <2>1, <2>2, <1>9, InTeardown
<1>10. CASE ExitOnEmpty(l) /\ LeftFrame(l)
  <2>1. /\ LoopsTyped' /\ StampsInv' /\ stack' \in [Loops -> Seq(FrameT)] /\ Left(l) /\ QSame(l)
        /\ Top(l).teardown \/ "ML_EXIT_ON_EMPTY" \in Top(l).flags
    BY <1>1, <1>2, <1>10, ExitEffect
  <2>2. NextOK BY <2>1, <1>3, <1>7, <1>10, NextIsOK
  <2> QED BY <2>1, <2>2, <1>10, LeftRun
<1>11. CASE PopAsync(l, stamp[l]) /\ UNCHANGED calls
  <2>1. LoopsTyped' /\ StampsInv' /\ stack' \in [Loops -> Seq(FrameT)] /\ Unseen(l)
    BY <1>1, <1>2, <1>11, PopEffect
  <2>2. NextOK BY <2>1, <1>3, <1>4, <1>11, NextIsOK
  <2> QED BY <2>1, <2>2, <1>11, Looked
<1> QED BY <1>5, <1>6, <1>8, <1>9, <1>10, <1>11 DEF LoopStep

-----------------------------------------------------------------------------
(* The results.                                                            *)

\* A loop with no tasks and at most one run, of nothing, has its part of the invariant.
LEMMA LoopStarts ==
  ASSUME Types, NEW l \in Loops, ml[l].async_q = <<>>, ml[l].int_q = {},
         \/ stack[l] = <<>> /\ ml[l].depth = 0
         \/ /\ Len(stack[l]) = 1 /\ IsLoop(stack[l][1]) /\ stack[l][1].call = NoCall
            /\ "ML_INCREASE_DEPTH" \in stack[l][1].flags /\ stack[l][1].depth = 1 /\ ml[l].depth = 1
  PROVE  /\ Stamps(l) /\ LoopInv(l) /\ Waits(l) = {} /\ QueuedCalls(l) = {} /\ FrameCalls(l) = {}
<1>1. Queued(l) = {} BY DEF Queued, TasksOf
<1>2. Stamps(l) BY DEF Stamps, StampsOf
<1>3. \A i \in 1..Len(stack[l]) : i = 1 /\ IsLoop(stack[l][i]) /\ ~IsCb(stack[l][i]) /\ ~Waiter(stack[l][i])
  <2>1. CASE stack[l] = <<>> BY <2>1
  <2>2. CASE Len(stack[l]) = 1 /\ IsLoop(stack[l][1]) /\ stack[l][1].call = NoCall
    <3>1. \A i \in 1..Len(stack[l]) : i = 1 BY <2>2
    <3>2. ~IsCb(stack[l][1])
      <4>1. stack[l][1] \in FrameT BY <2>2, StackTyped
      <4> QED BY <4>1, <2>2, FrameFields
    <3> QED BY <2>2, <3>1, <3>2 DEF Waiter
  <2> QED BY <2>1, <2>2
<1>4. Shape(l)
  <2>1. CASE stack[l] = <<>> /\ ml[l].depth = 0 BY <2>1 DEF Shape, ShapeOf
  <2>2. CASE /\ Len(stack[l]) = 1 /\ IsLoop(stack[l][1])
             /\ "ML_INCREASE_DEPTH" \in stack[l][1].flags /\ stack[l][1].depth = 1 /\ ml[l].depth = 1
    BY <2>2, <1>3 DEF Shape, ShapeOf
  <2> QED BY <2>1, <2>2
<1>5. Waiters(l)
  <2>1. \A i \in 1..Len(stack[l]) : Fits(calls, stack[l][i]) BY <1>3 DEF Fits
  <2> QED BY <1>3, <2>1 DEF Waiters
<1>6. Quits(l) /\ Works(l) /\ Single(l) BY <1>1, <1>3 DEF Quits, Works, Single
<1>7. stack[l] \in Seq(FrameT) BY StackTyped
<1>8. Waits(l) = {} BY <1>3, <1>7, WaitsIs
<1>9. QueuedCalls(l) = {} /\ FrameCalls(l) = {} BY <1>1, <1>3 DEF QueuedCalls, FrameCalls
<1> QED BY <1>2, <1>4, <1>5, <1>6, <1>8, <1>9 DEF LoopInv

\* Initially the plugin thread runs its loop and there is no call.
LEMMA CallsInit ==
  ASSUME Init PROVE CallsInv /\ \A l \in Loops : Waits(l) = {}
<1> DEFINE m0 == [k \in Loops |-> NewLoop]  fl == {"ML_INCREASE_DEPTH"}
<1>1. NewLoop \in LoopT /\ NewLoop.async_q = <<>> /\ NewLoop.int_q = {} /\ NewLoop.depth = 0
  <2>1. <<>> \in Seq(TaskT) /\ {} \in SUBSET TaskT OBVIOUS
  <2> QED BY <2>1 DEF NewLoop, LoopT
<1>2. m0 \in [Loops -> LoopT] /\ m0[PluginLoop] = NewLoop BY <1>1, TwoLoops
<1>3. fl \in SUBSET Flags /\ "ML_INCREASE_DEPTH" \in fl BY DEF Flags
<1>4. /\ Entered(m0, PluginLoop, fl) = [m0 EXCEPT ![PluginLoop] = WithRun(NewLoop, 1)]
      /\ NewRun(LoopFrame(m0, PluginLoop, fl, NoCall), fl, NoCall, 1)
  <2>1. /\ Entered(m0, PluginLoop, fl) = [m0 EXCEPT ![PluginLoop] = WithRun(m0[PluginLoop], m0[PluginLoop].depth + 1)]
        /\ NewRun(LoopFrame(m0, PluginLoop, fl, NoCall), fl, NoCall, m0[PluginLoop].depth + 1)
    <3> HIDE DEF m0, fl
    <3> QED BY <1>2, <1>3, TwoLoops, EnterRun
  <2>2. m0[PluginLoop].depth + 1 = 1 BY <1>1, <1>2
  <2> QED BY <2>1, <2>2, <1>2
<1>5. PICK r : r = WithRun(NewLoop, 1) OBVIOUS
<1>6. r \in LoopT /\ r.async_q = <<>> /\ r.int_q = {} /\ r.depth = 1
  <2>1. r \in LoopT /\ r.async_q = NewLoop.async_q /\ r.int_q = NewLoop.int_q /\ r.depth = 1
    BY <1>1, <1>5, RunRecord
  <2> QED BY <2>1, <1>1
<1>7. PICK f : f = LoopFrame(m0, PluginLoop, fl, NoCall) OBVIOUS
<1>8. NewRun(f, fl, NoCall, 1) /\ f \in FrameT BY <1>4, <1>7 DEF NewRun
<1>9. ml = [l \in Loops |-> IF l = PluginLoop THEN r ELSE NewLoop]
  <2>1. Entered(m0, PluginLoop, fl)[PluginLoop] = r BY <1>2, <1>4, <1>5, TwoLoops
  <2> QED BY <2>1 DEF Init
<1>10. stack = [l \in Loops |-> IF l = PluginLoop THEN <<f>> ELSE <<>>] BY <1>7 DEF Init
<1>11. Types
  <2>1. ml \in [Loops -> LoopT] BY <1>1, <1>6, <1>9
  <2>2. <<f>> \in Seq(FrameT) /\ <<>> \in Seq(FrameT) BY <1>8
  <2>3. stack \in [Loops -> Seq(FrameT)] BY <1>10, <2>2
  <2>4. Unused \in CallT BY DEF Unused, CallT
  <2>5. calls \in [Calls -> CallT] BY <2>4 DEF Init
  <2> QED BY <2>1, <2>3, <2>5, BoundsAssumption DEF Init, Types
<1>12. ASSUME NEW l \in Loops
       PROVE  Stamps(l) /\ LoopInv(l) /\ Waits(l) = {} /\ QueuedCalls(l) = {} /\ FrameCalls(l) = {}
  <2>1. CASE l = PluginLoop
    <3>1. ml[l] = r /\ stack[l] = <<f>> BY <1>9, <1>10, <2>1
    <3>2. Len(<<f>>) = 1 /\ <<f>>[1] = f OBVIOUS
    <3>3. IsLoop(f) /\ f.call = NoCall /\ "ML_INCREASE_DEPTH" \in f.flags /\ f.depth = 1
      BY <1>3, <1>8 DEF NewRun
    <3>4. ml[l].async_q = <<>> /\ ml[l].int_q = {} /\ ml[l].depth = 1 BY <3>1, <1>6
    <3>5. Len(stack[l]) = 1 /\ stack[l][1] = f BY <3>1, <3>2
    <3> QED BY <1>11, <3>3, <3>4, <3>5, LoopStarts
  <2>2. CASE l # PluginLoop
    <3>1. ml[l] = NewLoop /\ stack[l] = <<>> BY <1>9, <1>10, <2>2
    <3>2. ml[l].async_q = <<>> /\ ml[l].int_q = {} /\ ml[l].depth = 0 BY <3>1, <1>1
    <3> QED BY <1>11, <3>1, <3>2, LoopStarts
  <2> QED BY <2>1, <2>2
<1>13. Apart /\ Places BY <1>12 DEF Apart, Places
<1>14. InOrder BY DEF Init, InOrder, Unused
<1>15. StampsInv BY <1>12 DEF StampsInv
<1> QED BY <1>11, <1>12, <1>13, <1>14, <1>15 DEF CallsInv

\* Nothing happens.
LEMMA CallsStutter ==
  ASSUME CallsInv, UNCHANGED vars PROVE Good
<1> USE DEF vars
<1>1. Types /\ StampsInv BY DEF CallsInv
<1>2. LoopsTyped' /\ StampsInv' /\ \A m \in Loops : QSame(m) /\ DSame(m) /\ SSame(m)
  BY <1>1 DEF Types, LoopsTyped, StampsInv, Stamps, QSame, DSame, SSame, Queued
<1>3. CountersOK' BY <1>1 DEF Types, CountersOK
<1>4. NextOK BY <1>1, <1>2, <1>3, NextIsOK DEF Types
<1>5. PluginLoop \in Loops /\ Unseen(PluginLoop) BY <1>2, TwoLoops DEF Unseen
<1> QED BY <1>4, <1>5, Looked

\* Every step keeps the invariant, and is a step of SyncCall or none.
LEMMA CallsStep ==
  ASSUME CallsInv, [Next]_vars PROVE Good
<1>1. CASE ppb_core_call_on_main_thread2 BY <1>1, EventPosted
<1>2. CASE \E c \in Calls : n2p_call(c) \/ p2n_invoke(c) \/ NPP_Destroy(c) BY <1>2, CallsMade
<1>3. CASE PostToBrowser BY <1>3, TaskPosted
<1>4. CASE activate_browser_thread_ml_ptac BY <1>4, ThreadActivated
<1>5. CASE PluginStep
  BY <1>5, CallForwarded, CallsAnswered, CallbackReturns, LoopSteps, TwoLoops DEF PluginStep
<1>6. CASE BrowserStep
  BY <1>6, CallsAnswered, CallbackReturns, DepthRead, CallTrampolined, LoopSteps, TwoLoops DEF BrowserStep
<1>7. CASE Rest BY <1>7, CallsStutter DEF Rest
<1>8. CASE UNCHANGED vars BY <1>8, CallsStutter
<1> QED BY <1>1, <1>2, <1>3, <1>4, <1>5, <1>6, <1>7, <1>8 DEF Next

\* The invariant holds throughout.
LEMMA CallsInvariant == Spec => []CallsInv
<1>1. Init => CallsInv BY CallsInit
<1>2. CallsInv /\ [Next]_vars => CallsInv' BY CallsStep DEF Good
<1> QED BY <1>1, <1>2, PTL DEF Spec

(* The queues, the frames and the calls have their types, whatever the     *)
(* number of calls, of other tasks and of nested runs.                     *)
THEOREM CallsTypeCorrect == Spec => []TypeOK
<1>1. CallsInv => TypeOK
  <2>1. SUFFICES ASSUME Types PROVE TypeOK BY DEF CallsInv
  <2>2. ASSUME NEW l \in Loops PROVE ml[l] \in LoopT /\ stack[l] \in Seq(FrameT) BY <2>1 DEF Types
  <2>3. LoopTypeOK(WorkItems)
    <3>1. ASSUME NEW l \in Loops
          PROVE  /\ ml[l].async_q \in Seq(TaskT) /\ ml[l].int_q \subseteq TaskT
                 /\ ml[l].running \in BOOLEAN /\ ml[l].teardown \in BOOLEAN /\ ml[l].alive \in BOOLEAN
                 /\ ml[l].depth \in Nat
      BY <2>2, LoopFields
    <3> QED BY <3>1 DEF LoopTypeOK, TaskT
  <2>4. \A l \in Loops : stack[l] \in Seq(FrameType(WorkItems, Calls \cup {NoCall})) BY <2>2 DEF FrameT
  <2> QED BY <2>1, <2>3, <2>4 DEF TypeOK, Types, CallT
<1> QED BY <1>1, CallsInvariant, PTL

\* A step as SyncCall sees it.
LEMMA AbstractSteps ==
  ASSUME CallsInv, AbstractStep, CallsInv'
  PROVE  [Abstract!Next]_<<[c \in Calls |-> calls[c].state], [l \in Loops |-> Waits(l)]>>
<1> DEFINE st == [c \in Calls |-> calls[c].state]  wt == [l \in Loops |-> Waits(l)]
<1>1. CASE NoStep
  <2>1. st' = st BY <1>1 DEF NoStep
  <2>2. wt' = wt BY <1>1 DEF NoStep
  <2> QED BY <2>1, <2>2
<1>2. ASSUME NEW c \in Calls, NEW x, CallsChange(c, x) PROVE st' = [st EXCEPT ![c] = x]
  <2>1. \A d \in Calls : calls'[d].state = IF d = c THEN x ELSE calls[d].state BY <1>2 DEF CallsChange
  <2> QED BY <2>1
<1>3. ASSUME NEW l, NEW c, CallStep(l, c) PROVE Abstract!Next
  <2>1. l \in Loops /\ c \in Calls BY <1>3 DEF CallStep
  <2>2. st[c] = "unused" /\ \A d \in Calls : st[d] # "unused" => d < c BY <1>3, <2>1 DEF CallStep
  <2>3. st' = [st EXCEPT ![c] = "called"] BY <1>2, <1>3, <2>1 DEF CallStep
  <2>4. wt' = [wt EXCEPT ![l] = @ \cup {c}]
    <3>1. \A m \in Loops : Waits(m)' = IF m = l THEN Waits(m) \cup {c} ELSE Waits(m) BY <1>3 DEF CallStep
    <3> QED BY <3>1, <2>1
  <2>5. Abstract!Call(l, c) BY <2>2, <2>3, <2>4 DEF Abstract!Call
  <2> QED BY <2>1, <2>5 DEF Abstract!Next
<1>4. ASSUME NEW c, HandleStep(c) PROVE Abstract!Next
  <2>1. c \in Calls BY <1>4 DEF HandleStep
  <2>2. st[c] = "called" BY <1>4, <2>1 DEF HandleStep
  <2>3. st' = [st EXCEPT ![c] = "handled"] BY <1>2, <1>4, <2>1 DEF HandleStep
  <2>4. wt' = wt BY <1>4 DEF HandleStep
  <2>5. Abstract!Handle(c) BY <2>2, <2>3, <2>4 DEF Abstract!Handle
  <2> QED BY <2>1, <2>5 DEF Abstract!Next
<1>5. ASSUME NEW l, NEW c, ReturnStep(l, c) PROVE Abstract!Next
  <2>1. l \in Loops /\ c \in Calls BY <1>5 DEF ReturnStep
  <2>2. c \in wt[l] /\ (\A d \in wt[l] : d <= c) /\ st[c] = "handled" BY <1>5, <2>1 DEF ReturnStep
  <2>3. st' = [st EXCEPT ![c] = "returned"] BY <1>2, <1>5, <2>1 DEF ReturnStep
  <2>4. wt' = [wt EXCEPT ![l] = @ \ {c}]
    <3>1. \A m \in Loops : Waits(m)' = IF m = l THEN Waits(m) \ {c} ELSE Waits(m) BY <1>5 DEF ReturnStep
    <3> QED BY <3>1, <2>1
  <2>5. Abstract!Return(l, c) BY <2>2, <2>3, <2>4 DEF Abstract!Return
  <2> QED BY <2>1, <2>5 DEF Abstract!Next
<1> QED BY <1>1, <1>3, <1>4, <1>5 DEF AbstractStep

(* BrowserCalls implements SyncCall: every call is handled once, by the    *)
(* other thread, and returns to the thread that made it only then, calls   *)
(* of a thread in the reverse order of making them.  So the parameter      *)
(* structure on the caller's stack outlives its use by the other thread.   *)
THEOREM CallsAreSynchronousCorrect == Spec => CallsAreSynchronous
<1>1. Init => Abstract!Init
  <2>1. SUFFICES ASSUME Init PROVE Abstract!Init OBVIOUS
  <2>2. \A l \in Loops : Waits(l) = {} BY <2>1, CallsInit
  <2>3. [c \in Calls |-> calls[c].state] = [c \in Calls |-> "unused"] BY <2>1 DEF Init, Unused
  <2>4. [l \in Loops |-> Waits(l)] = [l \in Loops |-> {}] BY <2>2
  <2> QED BY <2>3, <2>4 DEF Abstract!Init
<1>2. CallsInv /\ [Next]_vars
        => [Abstract!Next]_<<[c \in Calls |-> calls[c].state], [l \in Loops |-> Waits(l)]>>
  BY CallsStep, AbstractSteps DEF Good
<1> QED BY <1>1, <1>2, CallsInvariant, PTL DEF Spec, CallsAreSynchronous, Abstract!Spec
=============================================================================
