------------------------------ MODULE MCWindows ------------------------------
(* Instances with their events, and the full screen window: each behaviour *)
(* of this instance is one of one of them.                                 *)
EXTENDS Instances, Fullscreen

VARIABLE part   \* the component that runs

windowVars == <<instVars, fsVars, part>>

\* A button, a key and the ways to get the focus.
MCXEvents ==
  { [type |-> "ButtonPress", button |-> 3], [type |-> "ButtonRelease", button |-> 3],
    [type |-> "KeyPress", button |-> 1],
    [type |-> "XEMBED_FOCUS_IN", button |-> 0], [type |-> "FocusIn", button |-> 0] }

Init ==
  /\ part \in {"instances", "fullscreen"}
  /\ InstancesInit
  /\ FullscreenInit /\ (part = "instances" => ~enable_vsync)

Next ==
  \/ part = "instances" /\ InstancesNext /\ UNCHANGED <<fsVars, part>>
  \/ part = "fullscreen" /\ FullscreenNext /\ UNCHANGED <<instVars, part>>

Spec == Init /\ [][Next]_windowVars /\ InstancesFairness /\ FullscreenFairness

\* NPP_New, NPP_SetWindow and NPP_Destroy return to the browser whatever the event thread
\* is doing, and the full screen window goes when it is asked to.
WindowCallsReturn == InstanceCallsReturn /\ FullscreenEnds
=============================================================================
