----------------------------- MODULE MessageLoop -----------------------------
(***************************************************************************)
(* The message loop of src/ppb_message_loop.c.                             *)
(*                                                                         *)
(* A loop is attached to one thread, so the loop also names the thread.    *)
(* Any thread posts to async_q; only the attached thread moves tasks to    *)
(* int_q, a tree ordered by the time stamp of the tasks, and runs them.    *)
(* A callback may run the loop again: stack holds the loop and callback    *)
(* frames of the attached thread, the innermost one last.                  *)
(*                                                                         *)
(* This module has the loop's own steps; MessageLoopClient and             *)
(* BrowserCalls add what the callbacks do.  A section between              *)
(* pp_resource_acquire and pp_resource_release of the loop is atomic, and  *)
(* so is work of the attached thread on int_q that precedes it.            *)
(***************************************************************************)
EXTENDS Integers, Sequences, FiniteSets

CONSTANTS
  Loops,       \* message loops, each with the thread it is attached to
  BrowserLoop  \* the loop of the browser thread

VARIABLES
  ml,          \* struct pp_message_loop_s of each loop
  stack        \* frames of the attached thread

loopVars == <<ml, stack>>

Flags == {"ML_NESTED", "ML_INCREASE_DEPTH", "ML_EXIT_ON_EMPTY"}

NewLoop == [async_q |-> <<>>, int_q |-> {}, running |-> FALSE,
            teardown |-> FALSE, depth |-> 0, alive |-> TRUE]

(* struct message_loop_task_s; work stands for the callback. *)
WorkTask(when, depth, work) ==
  [when |-> when, terminate |-> FALSE, depth |-> depth, destroy |-> FALSE, work |-> work]

QuitTask(when, depth, destroy, none) ==
  [when |-> when, terminate |-> TRUE, depth |-> depth, destroy |-> destroy, work |-> none]

(* The types, for callbacks in works and callers that wait for calls. *)
TaskType(works) ==
  [when : Nat, terminate : BOOLEAN, depth : Nat, destroy : BOOLEAN, work : works]

LoopTypeOK(works) ==
  \A l \in Loops :
    /\ ml[l].async_q \in Seq(TaskType(works))
    /\ ml[l].int_q \subseteq TaskType(works)
    /\ ml[l].running \in BOOLEAN /\ ml[l].teardown \in BOOLEAN /\ ml[l].alive \in BOOLEAN
    /\ ml[l].depth \in Nat

FrameType(works, calls) ==
  [kind : {"cb"}, work : works]
  \cup [kind : {"loop"}, flags : SUBSET Flags, call : calls, depth : Nat,
        saved : [running : BOOLEAN, teardown : BOOLEAN],
        teardown : BOOLEAN, destroy_ml : BOOLEAN, pumping : BOOLEAN]

Top(l) == stack[l][Len(stack[l])]

Below(l) == SubSeq(stack[l], 1, Len(stack[l]) - 1)

InLoop(l) == stack[l] # <<>> /\ Top(l).kind = "loop"

InCallback(l) == stack[l] # <<>> /\ Top(l).kind = "cb"

CallbackFrame(work) == [kind |-> "cb", work |-> work]

-----------------------------------------------------------------------------
(* Posting.  m is the state of the loops: the operators below are steps on *)
(* it, composed by the handlers that take several of them.                 *)

(* Mutant: the browser thread's loop refuses work in teardown too. *)
AcceptsWorkNoException(m, l) == m[l].alive /\ ~(m[l].running /\ m[l].teardown)

(* PP_ERROR_BADRESOURCE, and PP_ERROR_FAILED for a loop in teardown that   *)
(* is not the loop of the browser thread.                                  *)
AcceptsWork(m, l) ==
  /\ m[l].alive
  /\ l = BrowserLoop \/ ~(m[l].running /\ m[l].teardown)

ppb_message_loop_post_work_with_result(m, l, task) ==
  IF AcceptsWork(m, l) THEN [m EXCEPT ![l].async_q = Append(@, task)] ELSE m

ppb_message_loop_post_quit_depth(m, l, task) ==
  IF m[l].alive THEN [m EXCEPT ![l].async_q = Append(@, task)] ELSE m

(* g_tree_insert with a key that compares equal to one in the tree leaves  *)
(* the tree's key in place: the new task is dropped.                       *)
g_tree_insert(q, task) ==
  IF \E t \in q : t.when = task.when THEN q ELSE q \cup {task}

-----------------------------------------------------------------------------
(* Mutants: no depth is checked; tasks of the current depth only. *)
AppropriateAll(l) == ml[l].int_q

AppropriateSameDepth(l) == {t \in ml[l].int_q : t.depth = Top(l).depth}

(* find_first_task_with_appropriate_depth *)
Appropriate(l) ==
  {t \in ml[l].int_q : t.depth = 0 \/ t.depth >= Top(l).depth}

First(q) == CHOOSE t \in q : \A u \in q : t.when <= u.when

(* Entry of ppb_message_loop_run_int; call is what the caller waits for. *)
MayRun(m, l, flags) == m[l].alive /\ ("ML_NESTED" \in flags \/ ~m[l].running)

(* Mutant: the depth is never increased. *)
EnteredSameDepth(m, l, flags) == [m EXCEPT ![l].running = TRUE, ![l].teardown = FALSE]

Entered(m, l, flags) ==
  [m EXCEPT ![l] = [@ EXCEPT !.running = TRUE,
                             !.teardown = FALSE,
                             !.depth = IF "ML_INCREASE_DEPTH" \in flags
                                       THEN m[l].depth + 1 ELSE m[l].depth]]

LoopFrame(m, l, flags, call) ==
  [kind |-> "loop", flags |-> flags, call |-> call,
   depth |-> Entered(m, l, flags)[l].depth,
   saved |-> [running |-> m[l].running, teardown |-> m[l].teardown],
   teardown |-> FALSE, destroy_ml |-> FALSE,
   pumping |-> "ML_EXIT_ON_EMPTY" \in flags]

(* Mutant: the state saved at the entry is not restored. *)
ExitedNoRestore(l, f, q) ==
  [ml[l] EXCEPT !.int_q = q,
                !.depth = IF "ML_INCREASE_DEPTH" \in f.flags THEN @ - 1 ELSE @,
                !.running = FALSE,
                !.alive = @ /\ ~f.destroy_ml]

(* Exit: the loop state with int_q left as q.  The reference that          *)
(* should_destroy drops is the one of the loop's creator.                  *)
Exited(l, f, q) ==
  LET nested == "ML_NESTED" \in f.flags IN
  [ml[l] EXCEPT !.int_q = q,
                !.depth = IF "ML_INCREASE_DEPTH" \in f.flags THEN @ - 1 ELSE @,
                !.running = nested /\ f.saved.running,
                !.teardown = IF nested THEN f.saved.teardown ELSE @,
                !.alive = @ /\ ~f.destroy_ml]

LeaveLoop(l, q) ==
  /\ ml' = [ml EXCEPT ![l] = Exited(l, Top(l), q)]
  /\ stack' = [stack EXCEPT ![l] = Below(l)]

-----------------------------------------------------------------------------
(* The steps of the thread inside run_int.  now is the clock of the loop.  *)

(* Mutant: the most recent task is taken first. *)
MoveLastToTree(l) ==
  LET q == ml[l].async_q IN
  ml' = [ml EXCEPT ![l].async_q = SubSeq(q, 1, Len(q) - 1),
                   ![l].int_q = g_tree_insert(@, q[Len(q)])]

MoveToTree(l) ==
  LET q == ml[l].async_q IN
  ml' = [ml EXCEPT ![l] = [@ EXCEPT !.async_q = Tail(q),
                                    !.int_q = g_tree_insert(ml[l].int_q, Head(q))]]

(* ML_EXIT_ON_EMPTY: async_q is pumped to int_q, until a pop finds it empty. *)
Pump(l) ==
  /\ InLoop(l)
  /\ Top(l).pumping
  /\ \/ /\ ml[l].async_q # <<>>
        /\ MoveToTree(l)
        /\ UNCHANGED stack
     \/ /\ ml[l].async_q = <<>>
        /\ stack' = [stack EXCEPT ![l][Len(stack[l])].pumping = FALSE]
        /\ UNCHANGED ml

(* The first appropriate task is due. *)
Due(l, now) ==
  /\ InLoop(l)
  /\ ~Top(l).pumping
  /\ Appropriate(l) # {}
  /\ First(Appropriate(l)).when <= now

DueTask(l) == First(Appropriate(l))

RunTask(l, now) ==
  /\ Due(l, now)
  /\ ~DueTask(l).terminate
  /\ ml' = [ml EXCEPT ![l].int_q = @ \ {DueTask(l)}]
  /\ stack' = [stack EXCEPT ![l] = Append(@, CallbackFrame(DueTask(l).work))]

(* Mutant: every loop exits at once. *)
IsNestedAlways(f) == TRUE

(* "if depth > 1 or loop was reentered with no depth increase, it's a      *)
(* nested loop": it exits at once.                                         *)
IsNested(f) == f.depth > 1 \/ "ML_INCREASE_DEPTH" \notin f.flags

(* Mutant: what the nested loop has taken is thrown away. *)
QuitNestedDrops(l, now) ==
  /\ Due(l, now)
  /\ DueTask(l).terminate
  /\ IsNested(Top(l))
  /\ LeaveLoop(l, {})

QuitNested(l, now) ==
  /\ Due(l, now)
  /\ DueTask(l).terminate
  /\ IsNested(Top(l))
  /\ LeaveLoop(l, ml[l].int_q \ {DueTask(l)})

(* "it's the outermost loop, we should wait for all tasks to be run" *)
QuitOutermost(l, now) ==
  /\ Due(l, now)
  /\ DueTask(l).terminate
  /\ ~IsNested(Top(l))
  /\ ml' = [ml EXCEPT ![l] = [@ EXCEPT !.teardown = TRUE, !.int_q = ml[l].int_q \ {DueTask(l)}]]
  /\ stack' = [stack EXCEPT ![l][Len(stack[l])] =
                 [@ EXCEPT !.teardown = TRUE, !.destroy_ml = DueTask(l).destroy]]

(* Mutants: any loop exits when it has nothing to do; teardown does not   *)
(* make a loop exit.                                                       *)
ExitOnEmptyAlways(l) ==
  /\ InLoop(l)
  /\ ~Top(l).pumping
  /\ Appropriate(l) = {}
  /\ LeaveLoop(l, ml[l].int_q)

ExitOnEmptyFlagOnly(l) ==
  /\ InLoop(l)
  /\ ~Top(l).pumping
  /\ Appropriate(l) = {}
  /\ "ML_EXIT_ON_EMPTY" \in Top(l).flags
  /\ LeaveLoop(l, ml[l].int_q)

(* "teardown, no tasks in queue left"; "loop break was requested for       *)
(* no-task condition".                                                     *)
ExitOnEmpty(l) ==
  /\ InLoop(l)
  /\ ~Top(l).pumping
  /\ Appropriate(l) = {}
  /\ Top(l).teardown \/ "ML_EXIT_ON_EMPTY" \in Top(l).flags
  /\ LeaveLoop(l, ml[l].int_q)

(* g_async_queue_timeout_pop, while there is nothing to run. *)
PopAsync(l, now) ==
  /\ InLoop(l)
  /\ ~Top(l).pumping
  /\ ~Due(l, now)
  /\ Appropriate(l) = {} => ~(Top(l).teardown \/ "ML_EXIT_ON_EMPTY" \in Top(l).flags)
  /\ ml[l].async_q # <<>>
  /\ MoveToTree(l)
  /\ UNCHANGED stack

-----------------------------------------------------------------------------
(* The loop frames of a thread, and how many of them increased the depth.  *)
LoopFrames(l) == {i \in DOMAIN stack[l] : stack[l][i].kind = "loop"}

Deepening(l) == {i \in LoopFrames(l) : "ML_INCREASE_DEPTH" \in stack[l][i].flags}

(* ml->depth, which other threads read to address a task to a nesting      *)
(* level, is the number of nested runs of the loop; every frame works with *)
(* the depth it entered at; and a thread inside run_int has its loop       *)
(* marked as running, so that a second run without ML_NESTED is refused.   *)
DepthIsNesting ==
  \A l \in Loops :
    /\ ml[l].depth = Cardinality(Deepening(l))
    /\ \A i \in LoopFrames(l) :
         stack[l][i].depth = Cardinality({j \in Deepening(l) : j <= i})
    /\ ml[l].running <=> LoopFrames(l) # {}
=============================================================================
