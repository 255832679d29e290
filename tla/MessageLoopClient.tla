------------------------- MODULE MessageLoopClient --------------------------
(***************************************************************************)
(* One message loop created by the plugin (PPB_MessageLoop), with          *)
(* everything that can happen to it: work posted by any thread with and    *)
(* without delay, PostQuit, Run, callbacks that make a synchronous call    *)
(* (which runs the loop nested) and callbacks that run a Flash message     *)
(* loop (src/ppb_flash_message_loop.c) on top of it.                       *)
(***************************************************************************)
EXTENDS MessageLoop

CONSTANTS
  Loop,          \* the loop
  MaxTasks,      \* bound: work items posted
  MaxTime,       \* bound: the clock
  MaxRuns,       \* bound: calls of Run
  Delays,        \* delays of posted work
  MaxQuits,      \* bound: PostQuit calls
  MaxSync,       \* bound: synchronous calls
  MaxFlash,      \* bound: runs of the Flash message loop
  MaxFlashQuits, \* bound: calls of its Quit that find it running
  UniqueStamps,  \* no two tasks in the queues have the same time stamp
  AnyQuit,       \* PostQuit may be called at any depth, not just at depth 1
  TeardownCalls, \* callbacks make synchronous calls during teardown too
  MixFlash       \* synchronous calls and PostQuit meet a Flash message loop

ASSUME ClientAssumption ==
  /\ Loops = {Loop} /\ BrowserLoop # Loop
  /\ {MaxTasks, MaxTime, MaxRuns, MaxQuits, MaxSync, MaxFlash, MaxFlashQuits} \subseteq Nat
  /\ Delays \subseteq Nat
  /\ {UniqueStamps, AnyQuit, TeardownCalls, MixFlash} \subseteq BOOLEAN

Tasks == 1 .. MaxTasks
Syncs == 1 .. MaxSync

VARIABLES
  now,      \* CLOCK_REALTIME
  task,     \* each work item: what became of it and its delay
  sync,     \* each synchronous call: its depth, its state
  flash,    \* struct pp_flash_message_loop_s, and how often Run was called
  quitter,  \* PostQuit in progress: the depth it read, or -1
  quits,    \* PostQuit calls finished
  exits,    \* times the outermost loop has exited
  told      \* work items posted before the quit task that the outermost loop
            \* took last

vars == <<ml, stack, now, task, sync, flash, quitter, quits, exits, told>>

NoWait == [fn |-> "nobody", id |-> 0]
Work(fn, id) == [fn |-> fn, id |-> id]

WorkItems == [fn : {"none", "work", "request"}, id : Nat]
Waiters   == {NoWait} \cup [fn : {"sync", "flash"}, id : Nat]

TypeOK ==
  /\ LoopTypeOK(WorkItems)
  /\ stack[Loop] \in Seq(FrameType(WorkItems, Waiters))
  /\ now \in 0 .. MaxTime
  /\ task \in [Tasks -> [state : {"none", "queued", "refused", "ran"},
                         delay : Delays \cup {0}]]
  /\ sync \in [Syncs -> [state : {"none", "waiting", "returned"}, depth : Nat,
                         asked : BOOLEAN, answered : BOOLEAN]]
  /\ flash \in [running : BOOLEAN, depth : Nat, runs : Nat, quits : Nat, returned : Nat]
  /\ quitter \in Int
  /\ quits \in 0 .. MaxQuits
  /\ exits \in 0 .. MaxRuns
  /\ told \in Nat

Init ==
  /\ ml = [l \in Loops |-> NewLoop]
  /\ stack = [l \in Loops |-> <<>>]
  /\ now = 0
  /\ task = [i \in Tasks |-> [state |-> "none", delay |-> 0]]
  /\ sync = [i \in Syncs |-> [state |-> "none", depth |-> 0,
                             asked |-> FALSE, answered |-> FALSE]]
  /\ flash = [running |-> FALSE, depth |-> 0, runs |-> 0, quits |-> 0, returned |-> 0]
  /\ quitter = -1
  /\ quits = 0
  /\ exits = 0
  /\ told = 0

(* A quit task carries, as the id of the work it has none of, how many     *)
(* work items were posted before it.                                       *)
PostedWork == {i \in Tasks : task[i].state # "none"}
NoWork == Work("none", Cardinality(PostedWork))

Queued == ml[Loop].int_q \cup {ml[Loop].async_q[i] : i \in DOMAIN ml[Loop].async_q}

(* The last time stamp of new work: the clock has room for it to get due   *)
(* and for the answers.                                                    *)
Horizon == MaxTime - MaxSync

(* clock_gettime, with a resolution that tells the posts apart. *)
StampFree(when) == UniqueStamps => \A t \in Queued : t.when # when

Tick ==
  /\ now < MaxTime
  /\ now' = now + 1
  /\ UNCHANGED <<ml, stack, task, sync, flash, quitter, quits, exits, told>>

-----------------------------------------------------------------------------
(* Any thread *)

ppb_message_loop_post_work(i, delay, depth) ==
  /\ task[i].state = "none"
  /\ \A j \in Tasks : j < i => task[j].state # "none"
  /\ now + delay <= Horizon
  /\ StampFree(now + delay)
  /\ ml' = ppb_message_loop_post_work_with_result(
             ml, Loop, WorkTask(now + delay, depth, Work("work", i)))
  /\ task' = [task EXCEPT ![i] =
                [state |-> IF AcceptsWork(ml, Loop) THEN "queued" ELSE "refused",
                 delay |-> delay]]
  /\ UNCHANGED <<stack, now, sync, flash, quitter, quits, exits, told>>

(* ppb_message_loop_post_quit reads the depth in one critical section and  *)
(* posts in another.                                                       *)
ReadDepth ==
  /\ quitter = -1
  /\ quits < MaxQuits
  /\ ml[Loop].alive
  /\ ml[Loop].depth = 1 \/ AnyQuit
  /\ flash.runs > 0 => MixFlash
  /\ quitter' = ml[Loop].depth
  /\ UNCHANGED <<ml, stack, now, task, sync, flash, quits, exits, told>>

ppb_message_loop_post_quit(destroy) ==
  /\ quitter # -1
  /\ now <= Horizon
  /\ StampFree(now)
  /\ ml' = ppb_message_loop_post_quit_depth(
             ml, Loop, QuitTask(now, quitter, destroy, NoWork))
  /\ quitter' = -1
  /\ quits' = quits + 1
  /\ UNCHANGED <<stack, now, task, sync, flash, exits, told>>

(* The thread that handles a synchronous call answers it. *)
AnswerSync(i) ==
  /\ sync[i].asked /\ ~sync[i].answered
  /\ StampFree(now)
  /\ ml' = ppb_message_loop_post_quit_depth(
             ml, Loop, QuitTask(now, sync[i].depth, FALSE, NoWork))
  /\ sync' = [sync EXCEPT ![i].answered = TRUE]
  /\ UNCHANGED <<stack, now, task, flash, quitter, quits, exits, told>>

-----------------------------------------------------------------------------
(* The attached thread, outside the loop and in callbacks *)

Enter(m, flags, waiter) ==
  /\ ml' = Entered(m, Loop, flags)
  /\ stack' = [stack EXCEPT ![Loop] = Append(@, LoopFrame(m, Loop, flags, waiter))]

ppb_message_loop_run ==
  /\ stack[Loop] = <<>>
  /\ exits < MaxRuns
  /\ MayRun(ml, Loop, {"ML_INCREASE_DEPTH"})
  /\ Enter(ml, {"ML_INCREASE_DEPTH"}, NoWait)
  /\ UNCHANGED <<now, task, sync, flash, quitter, quits, exits, told>>

InWork == InCallback(Loop) /\ Top(Loop).work.fn = "work"

Returns == stack' = [stack EXCEPT ![Loop] = Below(Loop)]

WorkReturns ==
  /\ InWork
  /\ Returns
  /\ UNCHANGED <<ml, now, task, sync, flash, quitter, quits, exits, told>>

(* A synchronous call, as in n2p_call.  The result of posting the request  *)
(* is ignored; the loop runs nested whatever it was.                       *)
CallSync(i) ==
  LET depth == ml[Loop].depth + 1 IN
  /\ InWork
  /\ sync[i].state = "none"
  /\ ml[Loop].teardown => TeardownCalls
  /\ flash.runs > 0 => MixFlash
  /\ now <= Horizon
  /\ StampFree(now)
  /\ Enter(ppb_message_loop_post_work_with_result(
             ml, Loop, WorkTask(now, depth, Work("request", i))),
           {"ML_NESTED", "ML_INCREASE_DEPTH"}, [fn |-> "sync", id |-> i])
  /\ sync' = [sync EXCEPT ![i] = [state |-> "waiting", depth |-> depth,
                               asked |-> FALSE, answered |-> FALSE]]
  /\ UNCHANGED <<now, task, flash, quitter, quits, exits, told>>

RequestReturns ==
  /\ InCallback(Loop)
  /\ Top(Loop).work.fn = "request"
  /\ sync' = [sync EXCEPT ![Top(Loop).work.id].asked = TRUE]
  /\ Returns
  /\ UNCHANGED <<ml, now, task, flash, quitter, quits, exits, told>>

(* "launching nested loop without depth increase to prevent hang up of     *)
(* previously pushed tasks"                                                *)
ppb_flash_message_loop_run ==
  /\ InWork
  /\ flash.runs < MaxFlash
  /\ quitter # -1 \/ quits > 0 \/ (\E i \in Syncs : sync[i].state # "none") => MixFlash
  /\ flash' = [flash EXCEPT !.running = TRUE, !.depth = ml[Loop].depth + 1, !.runs = flash.runs + 1]
  /\ Enter(ml, {"ML_NESTED"}, [fn |-> "flash", id |-> flash.runs + 1])
  /\ UNCHANGED <<now, task, sync, quitter, quits, exits, told>>

(* Quit posts its task whenever the loop is marked as running, however     *)
(* often it was called before: what the run does not take is left for the  *)
(* next run, and then for the outermost loop.                              *)
ppb_flash_message_loop_quit ==
  /\ InWork
  /\ flash.running
  /\ flash.quits < MaxFlashQuits
  /\ now <= Horizon
  /\ StampFree(now)
  /\ ml' = ppb_message_loop_post_quit_depth(
             ml, Loop, QuitTask(now, flash.depth, FALSE, NoWork))
  /\ flash' = [flash EXCEPT !.quits = flash.quits + 1]
  /\ UNCHANGED <<stack, now, task, sync, quitter, quits, exits, told>>

-----------------------------------------------------------------------------
(* Inside the loop *)

(* The frame that is left returns to what waited in it. *)
LeftFrame ==
  LET w == Top(Loop).call IN
  /\ sync' = IF w.fn = "sync" THEN [sync EXCEPT ![w.id].state = "returned"] ELSE sync
  /\ flash' = IF w.fn = "flash" THEN [flash EXCEPT !.running = FALSE, !.returned = flash.returned + 1]
              ELSE flash
  /\ exits' = IF Len(stack[Loop]) = 1 THEN exits + 1 ELSE exits

Ran(w) == IF w.fn = "work" THEN [task EXCEPT ![w.id].state = "ran"] ELSE task

(* A quit task is taken. *)
Told == told' = IF Len(stack[Loop]) = 1 THEN DueTask(Loop).work.id ELSE told

LoopStep ==
  /\ \/ RunTask(Loop, now) /\ task' = Ran(DueTask(Loop).work) /\ UNCHANGED <<sync, flash, exits, told>>
     \/ QuitNested(Loop, now) /\ LeftFrame /\ Told /\ UNCHANGED task
     \/ QuitOutermost(Loop, now) /\ Told /\ UNCHANGED <<task, sync, flash, exits>>
     \/ ExitOnEmpty(Loop) /\ LeftFrame /\ UNCHANGED <<task, told>>
     \/ PopAsync(Loop, now) /\ UNCHANGED <<task, sync, flash, exits, told>>
  /\ UNCHANGED <<now, quitter, quits>>

ThreadStep == WorkReturns \/ RequestReturns \/ LoopStep

Next ==
  \/ Tick
  \/ \E i \in Tasks, delay \in Delays, depth \in {0, 1} :
       ppb_message_loop_post_work(i, delay, depth)
  \/ ReadDepth
  \/ \E destroy \in BOOLEAN : ppb_message_loop_post_quit(destroy)
  \/ \E i \in Syncs : AnswerSync(i) \/ CallSync(i)
  \/ ppb_message_loop_run
  \/ ppb_flash_message_loop_run
  \/ ppb_flash_message_loop_quit
  \/ ThreadStep

Spec == Init /\ [][Next]_vars

(* The attached thread keeps going, time passes and handlers answer. *)
Fairness ==
  /\ WF_vars(ThreadStep)
  /\ WF_vars(Tick)
  /\ \A i \in Syncs : WF_vars(AnswerSync(i))

FairSpec == Spec /\ Fairness

-----------------------------------------------------------------------------
PendingTask(i) == \E t \in Queued : t.work = Work("work", i)

(* PPB_MessageLoop.PostWork: work accepted with PP_OK "will be executed":  *)
(* it is in one of the queues until the loop runs it.                      *)
AcceptedWorkIsKept ==
  \A i \in Tasks : task[i].state = "queued" => PendingTask(i)

(* "Posted work will be executed in the order it was posted": a work item  *)
(* without delay never overtakes an earlier one without delay.             *)
WorkInPostOrder ==
  [][\A i, j \in Tasks :
       ( /\ i < j /\ task[i].delay = 0 /\ task[j].delay = 0
         /\ task[i].state = "queued" /\ task[j].state = "queued"
         /\ \A t \in Queued : t.work \in {Work("work", i), Work("work", j)} => t.depth = 0 )
       => task'[j].state = "queued" \/ task'[i].state = "ran"]_vars

(* PostQuit: "Work posted before that point will be processed before       *)
(* quitting", delayed work included.  So it is for whatever quit task the  *)
(* outermost loop takes, a surplus one of the Flash message loop too.      *)
QuitAfterEarlierWork ==
  [][(Len(stack[Loop]) = 1 /\ stack'[Loop] = <<>>) =>
       \A i \in Tasks : i <= told' => task[i].state # "queued"]_vars

(* A synchronous call returns to its caller, who then frees the parameter  *)
(* structure, only after the other thread has answered.                    *)
SyncReturnsAfterAnswer ==
  \A i \in Syncs : sync[i].state = "returned" => sync[i].answered

(* PPB_Flash_MessageLoop.Run returns only after a Quit, and every end of a *)
(* run, of a Flash message loop or of the outermost loop, has used up a    *)
(* quit task of its own: none ends two of them.                            *)
FlashRunReturnsAfterQuit ==
  /\ flash.returned <= flash.quits
  /\ exits + flash.returned <= quits + flash.quits

(* "it's the outermost loop, we should wait for all tasks to be run":      *)
(* nothing that was accepted is left when the outermost loop exits.        *)
TeardownRunsAll ==
  [][(Len(stack[Loop]) = 1 /\ stack'[Loop] = <<>>) =>
       \A i \in Tasks : task[i].state # "queued"]_vars

(* A running loop that was told to quit takes the quit task, runs what is  *)
(* left in teardown, and exits.                                            *)
QuitIsServed == (quits > 0 /\ stack[Loop] # <<>>) ~> exits > 0

(* Work accepted by a loop that is not told to quit is run; a task that    *)
(* was left for an outer nesting level runs when the inner loops have      *)
(* returned.  A Quit that no Flash run was left for ends the loop itself.  *)
AcceptedWorkRuns ==
  \A i \in Tasks :
    (task[i].state = "queued" /\ stack[Loop] # <<>> /\ quits = 0)
      ~> \/ task[i].state # "queued" \/ quits > 0 \/ quitter # -1
         \/ stack[Loop] = <<>> /\ flash.quits > flash.returned

\* The depth and the frames of ppb_message_loop_run_int agree at every moment.
LoopIsConsistent == TypeOK /\ DepthIsNesting

\* Every nested run, of a synchronous call or of PPB_Flash_MessageLoop, returns for its
\* own reason and for no other's.
RunsReturnInTurn == SyncReturnsAfterAnswer /\ FlashRunReturnsAfterQuit

\* Work and quits posted to one loop are taken in the order of ppb_message_loop_post_work.
WorkInOrder == WorkInPostOrder /\ QuitAfterEarlierWork

\* Accepted work runs and an accepted quit ends the loop.
WorkIsServed == AcceptedWorkRuns /\ QuitIsServed

=============================================================================
