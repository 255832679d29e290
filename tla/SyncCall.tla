------------------------------ MODULE SyncCall ------------------------------
(***************************************************************************)
(* What a synchronous call between the plugin thread and the browser       *)
(* thread promises.  Each thread has a stack of calls it waits for.  A     *)
(* call is handled once, by the other side, and the caller, who may have   *)
(* been entered again meanwhile, gets its calls back in the reverse order  *)
(* of making them, each one only when it has been handled.                 *)
(***************************************************************************)
EXTENDS Naturals

CONSTANTS
  Threads,
  Calls    \* numbered in the order in which they are made

VARIABLES
  state,   \* of each call: unused, called, handled or returned
  waiting  \* the calls each thread waits for; the innermost one was made last

Init ==
  /\ state = [c \in Calls |-> "unused"]
  /\ waiting = [t \in Threads |-> {}]

Call(t, c) ==
  /\ state[c] = "unused"
  /\ \A d \in Calls : state[d] # "unused" => d < c
  /\ state' = [state EXCEPT ![c] = "called"]
  /\ waiting' = [waiting EXCEPT ![t] = @ \cup {c}]

Handle(c) ==
  /\ state[c] = "called"
  /\ state' = [state EXCEPT ![c] = "handled"]
  /\ UNCHANGED waiting

Return(t, c) ==
  /\ c \in waiting[t] /\ \A d \in waiting[t] : d <= c
  /\ state[c] = "handled"
  /\ state' = [state EXCEPT ![c] = "returned"]
  /\ waiting' = [waiting EXCEPT ![t] = @ \ {c}]

Next ==
  \/ \E t \in Threads, c \in Calls : Call(t, c) \/ Return(t, c)
  \/ \E c \in Calls : Handle(c)

Spec == Init /\ [][Next]_<<state, waiting>>
=============================================================================
