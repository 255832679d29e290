---------------------------- MODULE BrowserCalls ----------------------------
(***************************************************************************)
(* Synchronous calls between the plugin thread and the browser thread.     *)
(*                                                                         *)
(* The plugin thread runs its message loop for ever; the browser thread    *)
(* runs its own loop only while it waits for the plugin or when an         *)
(* activation reaches it through NPN_PluginThreadAsyncCall.  Either thread *)
(* waits by running its loop nested until the answer posts a quit task for *)
(* that nesting depth, and so serves calls of the other side meanwhile.    *)
(*                                                                         *)
(* Plugin to browser: the n2p_* functions of n2p_proxy_class.c and those   *)
(* of ppb_var.c, ppb_instance.c, ppb_url_loader.c, ppb_flash*.c; browser   *)
(* to plugin: the p2n_* functions of p2n_proxy_class.c, NPP_New and        *)
(* NPP_Destroy of np_functions.c and the module calls of np_entry.c.       *)
(***************************************************************************)
EXTENDS MessageLoop

CONSTANTS
  PluginLoop,  \* the loop of the plugin's main thread
  MaxCalls,    \* bound: synchronous calls in a behaviour
  MaxEvents,   \* bound: callbacks other threads post to the plugin thread
  MaxPosts,    \* bound: fire-and-forget tasks for the browser thread
  MayDestroy   \* whether the browser may destroy the (only) instance

ASSUME LoopsAssumption == Loops = {PluginLoop, BrowserLoop} /\ PluginLoop # BrowserLoop
ASSUME BoundsAssumption ==
  MaxCalls \in Nat /\ MaxEvents \in Nat /\ MaxPosts \in Nat /\ MayDestroy \in BOOLEAN

Calls == 1 .. MaxCalls

VARIABLES
  calls,       \* the parameter structure of each call, and what became of it
  stamp,       \* the clock of each loop: posts get increasing time stamps
  activations, \* pending calls of activate_browser_thread_ml_ptac
  npp,         \* the instance is alive: pp_i->npp is set
  events,      \* callbacks posted to the plugin thread so far
  posts        \* fire-and-forget tasks posted to the browser thread so far

vars == <<ml, stack, calls, stamp, activations, npp, events, posts>>

NoCall == 0

Work(fn, c) == [fn |-> fn, call |-> c, depth |-> 0]

Unused == [state |-> "unused", depth |-> 0, destroys |-> FALSE]

WorkItems ==
  [fn : {"none", "event", "n2p_call_comt", "n2p_call_ptac", "call_forceredraw_ptac",
         "p2n_invoke_prepare_comt", "trampoline", "p2n_invoke_comt"},
   call : Calls \cup {NoCall}, depth : Nat]

TypeOK ==
  /\ LoopTypeOK(WorkItems)
  /\ \A l \in Loops : stack[l] \in Seq(FrameType(WorkItems, Calls \cup {NoCall}))
  /\ calls \in [Calls -> [state : {"unused", "called", "handled", "returned"},
                          depth : Nat, destroys : BOOLEAN]]
  /\ stamp \in [Loops -> Nat]
  /\ activations \in Nat
  /\ events \in 0 .. MaxEvents
  /\ posts \in 0 .. MaxPosts
  /\ npp \in BOOLEAN

(* The plugin thread is in ppb_message_loop_run (main_thread.c). *)
Init ==
  /\ ml = [l \in Loops |-> IF l = PluginLoop
                           THEN Entered([k \in Loops |-> NewLoop], l, {"ML_INCREASE_DEPTH"})[l]
                           ELSE NewLoop]
  /\ stack = [l \in Loops |->
                IF l = PluginLoop
                THEN <<LoopFrame([k \in Loops |-> NewLoop], l, {"ML_INCREASE_DEPTH"}, NoCall)>>
                ELSE <<>>]
  /\ calls = [c \in Calls |-> Unused]
  /\ stamp = [l \in Loops |-> 0]
  /\ activations = 0
  /\ npp = TRUE
  /\ events = 0
  /\ posts = 0

Stamped(l) == stamp' = [stamp EXCEPT ![l] = @ + 1]

IsNextCall(c) == /\ calls[c] = Unused
                 /\ \A d \in Calls : d < c => calls[d] # Unused

Returns(l) == stack' = [stack EXCEPT ![l] = Below(l)]

InFunction(l, fns) == InCallback(l) /\ Top(l).work.fn \in fns

Nested == {"ML_NESTED", "ML_INCREASE_DEPTH"}

(* The caller's side of every synchronous call: the depth the nested loop  *)
(* will have is read, the first step is posted to the caller's own loop    *)
(* and the loop runs nested.                                               *)
CallAndWait(l, c, fn, taskDepth, destroys) ==
  LET depth  == ml[l].depth + 1
      posted == ppb_message_loop_post_work_with_result(
                  ml, l, WorkTask(stamp[l], taskDepth, Work(fn, c)))
  IN /\ IsNextCall(c)
     /\ calls' = [calls EXCEPT ![c] = [state |-> "called", depth |-> depth,
                                       destroys |-> destroys]]
     /\ ml' = Entered(posted, l, Nested)
     /\ stack' = [stack EXCEPT ![l] = Append(@, LoopFrame(posted, l, Nested, c))]
     /\ Stamped(l)

(* The handler's side: the answer is a quit for the caller's nested loop.  *)
Answer(l, c) ==
  /\ ml' = ppb_message_loop_post_quit_depth(
             ml, l, QuitTask(stamp[l], calls[c].depth, FALSE, Work("none", NoCall)))
  /\ calls' = [calls EXCEPT ![c].state = "handled"]
  /\ Stamped(l)

-----------------------------------------------------------------------------
(* The plugin thread *)

(* Some thread: ppb_core_call_on_main_thread2. *)
ppb_core_call_on_main_thread2 ==
  /\ events < MaxEvents
  /\ events' = events + 1
  /\ ml' = ppb_message_loop_post_work_with_result(
             ml, PluginLoop, WorkTask(stamp[PluginLoop], 1, Work("event", NoCall)))
  /\ Stamped(PluginLoop)
  /\ UNCHANGED <<stack, calls, activations, npp, posts>>

(* n2p_call and its like, from plugin code in a callback. *)
n2p_call(c) ==
  /\ InFunction(PluginLoop, {"event", "p2n_invoke_comt"})
  /\ CallAndWait(PluginLoop, c, "n2p_call_comt", ml[PluginLoop].depth + 1, FALSE)
  /\ UNCHANGED <<activations, npp, events, posts>>

(* ppb_core_call_on_browser_thread: the task goes to the browser thread's  *)
(* queue; an activation goes to the browser if there is an instance.       *)
ppb_core_call_on_browser_thread(work) ==
  /\ ml' = ppb_message_loop_post_work_with_result(
             ml, BrowserLoop, WorkTask(stamp[BrowserLoop], 0, work))
  /\ activations' = IF npp THEN activations + 1 ELSE activations
  /\ Stamped(BrowserLoop)

n2p_call_comt ==
  /\ InFunction(PluginLoop, {"n2p_call_comt"})
  /\ ppb_core_call_on_browser_thread(Work("n2p_call_ptac", Top(PluginLoop).work.call))
  /\ Returns(PluginLoop)
  /\ UNCHANGED <<calls, npp, events, posts>>

(* A task nobody waits for, such as call_forceredraw_ptac. *)
PostToBrowser ==
  /\ InFunction(PluginLoop, {"event", "p2n_invoke_comt"})
  /\ posts < MaxPosts
  /\ posts' = posts + 1
  /\ ppb_core_call_on_browser_thread(Work("call_forceredraw_ptac", NoCall))
  /\ UNCHANGED <<stack, calls, npp, events>>

(* destroy_instance_comt takes the instance away before it answers. *)
p2n_invoke_comt ==
  /\ InFunction(PluginLoop, {"p2n_invoke_comt"})
  /\ LET c == Top(PluginLoop).work.call IN
     /\ Answer(BrowserLoop, c)
     /\ npp' = (npp /\ ~calls[c].destroys)
  /\ Returns(PluginLoop)
  /\ UNCHANGED <<activations, events, posts>>

EventReturns ==
  /\ InFunction(PluginLoop, {"event"})
  /\ Returns(PluginLoop)
  /\ UNCHANGED <<ml, calls, stamp, activations, npp, events, posts>>

-----------------------------------------------------------------------------
(* The browser thread.  It is in the browser's event loop, or in an NPN    *)
(* call of a handler, which may run scripts and events of its own.         *)
InBrowser == stack[BrowserLoop] = <<>> \/ InFunction(BrowserLoop, {"n2p_call_ptac"})

activate_browser_thread_ml_ptac ==
  LET flags == {"ML_INCREASE_DEPTH", "ML_EXIT_ON_EMPTY", "ML_NESTED"} IN
  /\ activations > 0
  /\ InBrowser
  /\ activations' = activations - 1
  /\ ml' = Entered(ml, BrowserLoop, flags)
  /\ stack' = [stack EXCEPT ![BrowserLoop] =
                 Append(@, LoopFrame(ml, BrowserLoop, flags, NoCall))]
  /\ UNCHANGED <<calls, stamp, npp, events, posts>>

n2p_call_ptac ==
  /\ InFunction(BrowserLoop, {"n2p_call_ptac"})
  /\ Answer(PluginLoop, Top(BrowserLoop).work.call)
  /\ Returns(BrowserLoop)
  /\ UNCHANGED <<activations, npp, events, posts>>

call_forceredraw_ptac ==
  /\ InFunction(BrowserLoop, {"call_forceredraw_ptac"})
  /\ Returns(BrowserLoop)
  /\ UNCHANGED <<ml, calls, stamp, activations, npp, events, posts>>

(* p2n_invoke and its like post the first step with depth 0. *)
p2n_invoke(c) ==
  /\ InBrowser
  /\ npp
  /\ CallAndWait(BrowserLoop, c, "p2n_invoke_prepare_comt", 0, FALSE)
  /\ UNCHANGED <<activations, npp, events, posts>>

(* NPP_Destroy posts the first step with the depth of its nested loop. *)
NPP_Destroy(c) ==
  /\ MayDestroy
  /\ stack[BrowserLoop] = <<>>
  /\ npp
  /\ CallAndWait(BrowserLoop, c, "p2n_invoke_prepare_comt", ml[BrowserLoop].depth + 1, TRUE)
  /\ UNCHANGED <<activations, npp, events, posts>>

(* ppb_core_trampoline_to_main_thread: the depth of the plugin's loop is   *)
(* read in one critical section and used in another.                       *)
p2n_invoke_prepare_comt ==
  /\ InFunction(BrowserLoop, {"p2n_invoke_prepare_comt"})
  /\ stack' = [stack EXCEPT ![BrowserLoop][Len(stack[BrowserLoop])].work =
                 [fn |-> "trampoline", call |-> @.call, depth |-> ml[PluginLoop].depth]]
  /\ UNCHANGED <<ml, calls, stamp, activations, npp, events, posts>>

ppb_core_trampoline_to_main_thread ==
  /\ InFunction(BrowserLoop, {"trampoline"})
  /\ LET w == Top(BrowserLoop).work IN
     ml' = ppb_message_loop_post_work_with_result(
             ml, PluginLoop, WorkTask(stamp[PluginLoop], w.depth, Work("p2n_invoke_comt", w.call)))
  /\ Stamped(PluginLoop)
  /\ Returns(BrowserLoop)
  /\ UNCHANGED <<calls, activations, npp, events, posts>>

-----------------------------------------------------------------------------
(* The loops: a frame that is left returns to the call that waited in it.  *)
LeftFrame(l) ==
  calls' = IF Top(l).call = NoCall THEN calls
           ELSE [calls EXCEPT ![Top(l).call].state = "returned"]

LoopStep(l) ==
  /\ \/ Pump(l) /\ UNCHANGED calls
     \/ RunTask(l, stamp[l]) /\ UNCHANGED calls
     \/ QuitNested(l, stamp[l]) /\ LeftFrame(l)
     \/ QuitOutermost(l, stamp[l]) /\ UNCHANGED calls
     \/ ExitOnEmpty(l) /\ LeftFrame(l)
     \/ PopAsync(l, stamp[l]) /\ UNCHANGED calls
  /\ UNCHANGED <<stamp, activations, npp, events, posts>>

(* The bounds are used up and everybody is back: the system may rest. *)
Rest ==
  /\ stack[BrowserLoop] = <<>>
  /\ Len(stack[PluginLoop]) = 1
  /\ \A l \in Loops : ml[l].async_q = <<>> /\ ml[l].int_q = {}
  /\ UNCHANGED vars

PluginStep ==
  \/ n2p_call_comt \/ p2n_invoke_comt \/ EventReturns \/ LoopStep(PluginLoop)

BrowserStep ==
  \/ n2p_call_ptac \/ call_forceredraw_ptac
  \/ p2n_invoke_prepare_comt \/ ppb_core_trampoline_to_main_thread
  \/ LoopStep(BrowserLoop)

Next ==
  \/ ppb_core_call_on_main_thread2
  \/ \E c \in Calls : n2p_call(c) \/ p2n_invoke(c) \/ NPP_Destroy(c)
  \/ PostToBrowser
  \/ activate_browser_thread_ml_ptac
  \/ PluginStep
  \/ BrowserStep
  \/ Rest

Spec == Init /\ [][Next]_vars

(* Both threads keep going: a callback returns, a loop with a task takes   *)
(* it, and the browser runs what NPN_PluginThreadAsyncCall gave it when it *)
(* is back in its event loop.                                              *)
Fairness ==
  /\ WF_vars(PluginStep)
  /\ WF_vars(BrowserStep)
  /\ WF_vars(stack[BrowserLoop] = <<>> /\ activate_browser_thread_ml_ptac)

FairSpec == Spec /\ Fairness

-----------------------------------------------------------------------------
(* The calls the thread of a loop waits for. *)
Waits(l) == {stack[l][i].call : i \in LoopFrames(l)} \ {NoCall}

Abstract == INSTANCE SyncCall WITH
  Threads <- Loops,
  state   <- [c \in Calls |-> calls[c].state],
  waiting <- [l \in Loops |-> Waits(l)]

(* Every synchronous call returns to its caller after it was handled, and  *)
(* calls of a thread return in reverse order: the parameter structure is   *)
(* freed by the caller only when the other thread is done with it.         *)
CallsAreSynchronous == Abstract!Spec

(* "we can implement waiting as entering a nested loop and thus avoid        *)
(* deadlocks": every call returns.                                         *)
EveryCallReturns ==
  \A c \in Calls : calls[c].state = "called" ~> calls[c].state = "returned"

(* It does while there is an instance whose npp carries the activations.   *)
CallsReturnWhileAlive ==
  \A c \in Calls : calls[c].state = "called" ~> (calls[c].state = "returned" \/ ~npp)
=============================================================================
