------------------------------ MODULE Fullscreen ------------------------------
(***************************************************************************)
(* The full screen window: src/ppb_flash_fullscreen.c.                     *)
(*                                                                         *)
(* The plugin pushes a transition; the full screen thread makes a window,  *)
(* reads its X events and passes them to the browser's thread or to the    *)
(* plugin's, one at a time, meeting the other at a barrier for two.  A     *)
(* delay thread sends messages to the window: that the window manager has  *)
(* had its time, then one for each vertical blank.  The window goes when   *)
(* Escape was pressed and something was painted.                           *)
(*                                                                         *)
(* The X connection outlives the window: what is left in its queue is read *)
(* when the next window is there; a GraphicsExpose names its window.  Sizes *)
(* and window properties are left out, and a frame painted in the page is  *)
(* Graphics' affair.                                                       *)
(***************************************************************************)
EXTENDS Naturals, Sequences

CONSTANTS
  FsInsts,     \* instances
  MaxX         \* bound: events in the queue of the X connection, and transitions asked for

Vacant == "nobody"

ASSUME FullscreenBoundsAssumption ==
  MaxX \in Nat \ {0} /\ Vacant \notin FsInsts

VARIABLES
  enable_vsync,               \* of the configuration
  is_fullscreen, is_fullscreen_apparent,   \* of each instance
  fullscreen_transition_queue, currently_fullscreen,
  fs,        \* the full screen thread: where it is, for whom, and its local variables
  call,      \* the call it waits for at cross_thread_call_barrier
  delay,     \* where delay_thread is
  run_delay_thread,
  xevents,   \* the events on the connection
  leaver,    \* whom SetFullscreen(FALSE) was called for, while it is
  frame,     \* the instance waits for the GraphicsExpose of what it has drawn, or that was
             \* still unread when its window went
  strayMessage \* delay_thread has sent to a window that is not there

fsVars == <<enable_vsync, is_fullscreen, is_fullscreen_apparent, fullscreen_transition_queue,
            currently_fullscreen, fs, call, delay, run_delay_thread, xevents, leaver, frame,
            strayMessage>>

\* An OldGraphicsExpose is one of a window that has gone; a "stale" call passes it on.
FsEvents ==
  {"Escape", "WM_DELETE_WINDOW", "Input", "WAIT_IS_OVER", "VSYNC", "GraphicsExpose",
   "OldGraphicsExpose"}
Calls == {"none", "get_browser_window", "view", "event", "expose", "stale", "leave"}
Frames == {"no", "waits", "missed"}
FsThread ==
  [at : {"pop", "create", "window", "loop", "leave", "flush", "join"}, inst : FsInsts \cup {Vacant},
   called_did_change_view : BOOLEAN, graphics_expose_events_in_queue : Nat,
   quit_message_received : BOOLEAN, graphics_expose_was_at_least_once : BOOLEAN]
AtPop ==
  [at |-> "pop", inst |-> Vacant, called_did_change_view |-> FALSE,
   graphics_expose_events_in_queue |-> 0, quit_message_received |-> FALSE,
   graphics_expose_was_at_least_once |-> FALSE]

FullscreenTypeOK ==
  /\ enable_vsync \in BOOLEAN
  /\ is_fullscreen \in [FsInsts -> BOOLEAN] /\ is_fullscreen_apparent \in [FsInsts -> BOOLEAN]
  /\ fullscreen_transition_queue \in Seq(FsInsts) /\ currently_fullscreen \in BOOLEAN
  /\ fs \in FsThread /\ call \in Calls
  /\ delay \in {"none", "wait", "vsync"} /\ run_delay_thread \in BOOLEAN
  /\ xevents \in Seq(FsEvents)
  /\ leaver \in FsInsts \cup {Vacant} /\ frame \in [FsInsts -> Frames]
  /\ strayMessage \in BOOLEAN

FullscreenInit ==
  /\ enable_vsync \in BOOLEAN
  /\ is_fullscreen = [i \in FsInsts |-> FALSE] /\ is_fullscreen_apparent = [i \in FsInsts |-> FALSE]
  /\ fullscreen_transition_queue = <<>> /\ currently_fullscreen = FALSE
  /\ fs = AtPop /\ call = "none"
  /\ delay = "none" /\ run_delay_thread = TRUE
  /\ xevents = <<>>
  /\ leaver = Vacant /\ frame = [i \in FsInsts |-> "no"] /\ strayMessage = FALSE

HasWindow(i) == fs.inst = i /\ fs.at \in {"window", "loop"}
Deliver(e) == xevents' = Append(xevents, e)

-----------------------------------------------------------------------------
(* The plugin's thread *)

\* Refused while a window is there, for this instance or another; not while one is asked for,
\* which then comes after the other.
EnterFullscreen(i) ==
  /\ leaver = Vacant
  /\ ~is_fullscreen[i] /\ ~currently_fullscreen /\ Len(xevents) < MaxX
  /\ Len(fullscreen_transition_queue) < MaxX
  /\ fullscreen_transition_queue' = Append(fullscreen_transition_queue, i)
  /\ UNCHANGED <<enable_vsync, is_fullscreen, is_fullscreen_apparent, currently_fullscreen, fs, call,
                 delay, run_delay_thread, xevents, leaver, frame, strayMessage>>

\* The test, with the lock, and the rest of the call with the lock taken again.
LeaveFullscreen(i) ==
  /\ leaver = Vacant
  /\ is_fullscreen[i]
  /\ leaver' = i
  /\ UNCHANGED <<enable_vsync, is_fullscreen, is_fullscreen_apparent, fullscreen_transition_queue,
                 currently_fullscreen, fs, call, delay, run_delay_thread, xevents, frame, strayMessage>>

\* An Escape for the window; if it has gone meanwhile X drops it.
SendEscape ==
  /\ leaver # Vacant
  /\ leaver' = Vacant
  /\ is_fullscreen' = IF currently_fullscreen THEN [is_fullscreen EXCEPT ![leaver] = FALSE]
                      ELSE is_fullscreen
  /\ IF currently_fullscreen /\ HasWindow(leaver) THEN Deliver("Escape") ELSE UNCHANGED xevents
  /\ UNCHANGED <<enable_vsync, is_fullscreen_apparent, fullscreen_transition_queue,
                 currently_fullscreen, fs, call, delay, run_delay_thread, frame, strayMessage>>

ppb_flash_fullscreen_set_fullscreen ==
  (\E i \in FsInsts : EnterFullscreen(i) \/ LeaveFullscreen(i)) \/ SendEscape

\* Flush or SwapBuffers in full screen: the answer is a GraphicsExpose for the window.
PaintFrame(i) ==
  /\ leaver = Vacant
  /\ is_fullscreen[i] /\ frame[i] = "no" /\ Len(xevents) < MaxX
  /\ fs.graphics_expose_events_in_queue < MaxX
  /\ frame' = [frame EXCEPT ![i] = "waits"]
  /\ Deliver("GraphicsExpose")
  /\ UNCHANGED <<enable_vsync, is_fullscreen, is_fullscreen_apparent, fullscreen_transition_queue,
                 currently_fullscreen, fs, call, delay, run_delay_thread, leaver, strayMessage>>

\* The browser repaints the page; in full screen NPP_HandleEvent ignores that.
PageExpose(i) ==
  /\ ~is_fullscreen[i] /\ frame[i] # "no"
  /\ frame' = [frame EXCEPT ![i] = "no"]
  /\ UNCHANGED <<enable_vsync, is_fullscreen, is_fullscreen_apparent, fullscreen_transition_queue,
                 currently_fullscreen, fs, call, delay, run_delay_thread, xevents, leaver,
                 strayMessage>>

-----------------------------------------------------------------------------
(* The thread of the window *)

fullscreen_window_thread ==
  /\ fs.at = "pop" /\ fullscreen_transition_queue # <<>>
  /\ fullscreen_transition_queue' = Tail(fullscreen_transition_queue)
  /\ currently_fullscreen' = TRUE
  /\ run_delay_thread' = TRUE /\ delay' = "wait"
  /\ fs' = [AtPop EXCEPT !.at = "create", !.inst = Head(fullscreen_transition_queue)]
  /\ UNCHANGED <<enable_vsync, is_fullscreen, is_fullscreen_apparent, call, xevents, leaver, frame,
                 strayMessage>>

\* The window is made and mapped, then the browser is asked for its own.  What is left of an
\* earlier window names a window that is not the instance's.
XCreateWindow ==
  /\ fs.at = "create"
  /\ fs' = [fs EXCEPT !.at = "window"]
  /\ call' = "get_browser_window"
  /\ xevents' = [k \in 1 .. Len(xevents) |->
                   IF xevents[k] = "GraphicsExpose" THEN "OldGraphicsExpose" ELSE xevents[k]]
  /\ UNCHANGED <<enable_vsync, is_fullscreen, is_fullscreen_apparent, fullscreen_transition_queue,
                 currently_fullscreen, delay, run_delay_thread, leaver, frame, strayMessage>>

\* The browser has answered; from here on the instance is in full screen.
get_browser_window ==
  /\ call = "get_browser_window"
  /\ call' = "none"
  /\ fs' = [fs EXCEPT !.at = "loop"]
  /\ is_fullscreen' = [is_fullscreen EXCEPT ![fs.inst] = TRUE]
  /\ UNCHANGED <<enable_vsync, is_fullscreen_apparent, fullscreen_transition_queue,
                 currently_fullscreen, delay, run_delay_thread, xevents, leaver, frame, strayMessage>>

\* Mutant: the plugin must have been told as well.
QuitsAfterView ==
  fs.quit_message_received /\ fs.graphics_expose_was_at_least_once /\ fs.called_did_change_view

Quits == fs.quit_message_received /\ fs.graphics_expose_was_at_least_once

\* XNextEvent and the switch on its type; what is not handled goes to the browser.
HandleXEvent ==
  /\ fs.at = "loop" /\ call = "none" /\ ~Quits
  /\ xevents # <<>> /\ xevents' = Tail(xevents)
  /\ LET n == fs.graphics_expose_events_in_queue
     IN  CASE Head(xevents) = "Escape" ->
                fs' = [fs EXCEPT !.quit_message_received = TRUE] /\ call' = "event"
           [] Head(xevents) = "WM_DELETE_WINDOW" ->
                fs' = [fs EXCEPT !.quit_message_received = TRUE] /\ UNCHANGED call
           [] Head(xevents) = "Input" -> call' = "event" /\ UNCHANGED fs
           [] Head(xevents) = "WAIT_IS_OVER" ->
                /\ call' = IF fs.called_did_change_view THEN "none" ELSE "view"
                /\ fs' = [fs EXCEPT !.called_did_change_view = TRUE]
           [] Head(xevents) = "VSYNC" /\ n > 0 ->
                /\ fs' = [fs EXCEPT !.graphics_expose_events_in_queue = n - 1,
                                    !.graphics_expose_was_at_least_once = TRUE]
                /\ call' = "expose"
           [] Head(xevents) \in {"GraphicsExpose", "OldGraphicsExpose"} /\ enable_vsync ->
                /\ fs' = [fs EXCEPT !.graphics_expose_events_in_queue = n + 1]
                /\ UNCHANGED call
           [] Head(xevents) \in {"GraphicsExpose", "OldGraphicsExpose"} /\ ~enable_vsync ->
                /\ fs' = [fs EXCEPT !.graphics_expose_was_at_least_once = TRUE]
                /\ call' = IF Head(xevents) = "GraphicsExpose" THEN "expose" ELSE "stale"
           [] OTHER -> UNCHANGED <<fs, call>>
  /\ UNCHANGED <<enable_vsync, is_fullscreen, is_fullscreen_apparent, fullscreen_transition_queue,
                 currently_fullscreen, delay, run_delay_thread, leaver, frame, strayMessage>>

ExposeIn(q) == \E k \in 1 .. Len(q) : q[k] = "GraphicsExpose"

\* A GraphicsExpose that was not read when the window goes answers no frame any more, unless
\* another one was counted: the instance has to wait for the page to be painted.
LeavesUnread(i) ==
  frame' = IF frame[i] = "waits" /\ ExposeIn(xevents) /\ fs.graphics_expose_events_in_queue = 0
           THEN [frame EXCEPT ![i] = "missed"] ELSE frame

\* Mutant: the window is destroyed before is_fullscreen is reset.
QuitKeepsFullscreen ==
  /\ fs.at = "loop" /\ call = "none" /\ Quits
  /\ is_fullscreen_apparent' = [is_fullscreen_apparent EXCEPT ![fs.inst] = FALSE]
  /\ fs' = [fs EXCEPT !.at = "leave"] /\ call' = "leave"
  /\ LeavesUnread(fs.inst)
  /\ UNCHANGED <<enable_vsync, is_fullscreen, fullscreen_transition_queue, currently_fullscreen,
                 delay, run_delay_thread, xevents, leaver, strayMessage>>

\* The window goes, and the plugin is told.
quit_and_destroy_fs_wnd ==
  /\ fs.at = "loop" /\ call = "none" /\ Quits
  /\ is_fullscreen' = [is_fullscreen EXCEPT ![fs.inst] = FALSE]
  /\ is_fullscreen_apparent' = [is_fullscreen_apparent EXCEPT ![fs.inst] = FALSE]
  /\ fs' = [fs EXCEPT !.at = "leave"] /\ call' = "leave"
  /\ LeavesUnread(fs.inst)
  /\ UNCHANGED <<enable_vsync, fullscreen_transition_queue, currently_fullscreen, delay,
                 run_delay_thread, xevents, leaver, strayMessage>>

\* Mutant: exposes that wait for a vertical blank are forgotten.
ForgetExposes ==
  /\ fs.at = "flush" /\ call = "none"
  /\ fs' = [fs EXCEPT !.at = "join", !.graphics_expose_events_in_queue = 0]
  /\ run_delay_thread' = FALSE /\ UNCHANGED call
  /\ UNCHANGED <<enable_vsync, is_fullscreen, is_fullscreen_apparent, fullscreen_transition_queue,
                 currently_fullscreen, delay, xevents, leaver, frame, strayMessage>>

\* The exposes that waited for a vertical blank are passed on; then delay_thread may end.
FlushExposes ==
  /\ fs.at = "flush" /\ call = "none"
  /\ IF fs.graphics_expose_events_in_queue > 0
     THEN /\ fs' = [fs EXCEPT !.graphics_expose_events_in_queue = @ - 1]
          /\ call' = "expose" /\ UNCHANGED run_delay_thread
     ELSE /\ fs' = [fs EXCEPT !.at = "join"]
          /\ run_delay_thread' = FALSE /\ UNCHANGED call
  /\ UNCHANGED <<enable_vsync, is_fullscreen, is_fullscreen_apparent, fullscreen_transition_queue,
                 currently_fullscreen, delay, xevents, leaver, frame, strayMessage>>

\* pthread_join.
JoinDelayThread ==
  /\ fs.at = "join" /\ delay = "none"
  /\ fs' = AtPop /\ currently_fullscreen' = FALSE
  /\ UNCHANGED <<enable_vsync, is_fullscreen, is_fullscreen_apparent, fullscreen_transition_queue,
                 call, delay, run_delay_thread, xevents, leaver, frame, strayMessage>>

fullscreen_window_thread_int == XCreateWindow \/ HandleXEvent \/ quit_and_destroy_fs_wnd \/ FlushExposes

-----------------------------------------------------------------------------
(* The other side of the barrier *)

\* On the browser's thread, NPP_HandleEvent: a GraphicsExpose answers the frame the instance
\* waits for, one of another window only if the instance is not in full screen.
handle_event_ptac ==
  /\ call \in {"event", "expose", "stale"}
  /\ call' = "none"
  /\ frame' = IF call = "expose" \/ (call = "stale" /\ ~is_fullscreen[fs.inst])
              THEN [frame EXCEPT ![fs.inst] = "no"] ELSE frame
  /\ UNCHANGED <<enable_vsync, is_fullscreen, is_fullscreen_apparent, fullscreen_transition_queue,
                 currently_fullscreen, fs, delay, run_delay_thread, xevents, leaver, strayMessage>>

\* On the plugin's thread.  Having gone to full screen the thread makes up a GraphicsExpose.
call_did_change_view_comt ==
  /\ call \in {"view", "leave"} /\ leaver = Vacant
  /\ is_fullscreen_apparent' = [is_fullscreen_apparent EXCEPT ![fs.inst] = (call = "view")]
  /\ call' = IF call = "view" THEN "expose" ELSE "none"
  /\ fs' = [fs EXCEPT !.at = IF call = "view" THEN @ ELSE "flush"]
  /\ UNCHANGED <<enable_vsync, is_fullscreen, fullscreen_transition_queue, currently_fullscreen,
                 delay, run_delay_thread, xevents, leaver, frame, strayMessage>>

cross_thread_call_barrier == get_browser_window \/ handle_event_ptac \/ call_did_change_view_comt

-----------------------------------------------------------------------------
\* delay_thread sends to the window of an instance in full screen.
SendToWindow(e) ==
  IF is_fullscreen[fs.inst]
  THEN Deliver(e) /\ strayMessage' = (strayMessage \/ ~HasWindow(fs.inst))
  ELSE UNCHANGED <<xevents, strayMessage>>

\* The window manager has had fs_delay_ms, or the window was not even there by then.
DelayIsOver ==
  /\ delay = "wait"
  /\ SendToWindow("WAIT_IS_OVER")
  /\ delay' = "vsync"
  /\ UNCHANGED <<enable_vsync, is_fullscreen, is_fullscreen_apparent, fullscreen_transition_queue,
                 currently_fullscreen, fs, call, run_delay_thread, leaver, frame>>

\* A vertical blank; one message of them in the queue is as good as many.
Vsync ==
  /\ delay = "vsync" /\ run_delay_thread /\ enable_vsync
  /\ \A k \in 1 .. Len(xevents) : xevents[k] # "VSYNC"
  /\ SendToWindow("VSYNC")
  /\ UNCHANGED <<enable_vsync, is_fullscreen, is_fullscreen_apparent, fullscreen_transition_queue,
                 currently_fullscreen, fs, call, delay, run_delay_thread, leaver, frame>>

DelayThreadEnds ==
  /\ delay = "vsync" /\ ~run_delay_thread
  /\ delay' = "none"
  /\ UNCHANGED <<enable_vsync, is_fullscreen, is_fullscreen_apparent, fullscreen_transition_queue,
                 currently_fullscreen, fs, call, run_delay_thread, xevents, leaver, frame,
                 strayMessage>>

delay_thread == DelayIsOver \/ Vsync \/ DelayThreadEnds

\* The user presses Escape or another key, or closes the window.
UserInput(e) ==
  /\ \E i \in FsInsts : HasWindow(i)
  /\ Len(xevents) < MaxX
  /\ Deliver(e)
  /\ UNCHANGED <<enable_vsync, is_fullscreen, is_fullscreen_apparent, fullscreen_transition_queue,
                 currently_fullscreen, fs, call, delay, run_delay_thread, leaver, frame, strayMessage>>

FullscreenNext ==
  \/ ppb_flash_fullscreen_set_fullscreen
  \/ \E i \in FsInsts : PaintFrame(i) \/ PageExpose(i)
  \/ fullscreen_window_thread \/ fullscreen_window_thread_int \/ JoinDelayThread
  \/ cross_thread_call_barrier \/ delay_thread
  \/ \E e \in {"Escape", "WM_DELETE_WINDOW", "Input"} : UserInput(e)

\* Threads go on and the display has vertical blanks; nobody has to paint or to press a key.
FullscreenFairness ==
  /\ WF_fsVars(fullscreen_window_thread) /\ WF_fsVars(fullscreen_window_thread_int)
  /\ WF_fsVars(JoinDelayThread) /\ WF_fsVars(cross_thread_call_barrier)
  /\ WF_fsVars(SendEscape)
  /\ WF_fsVars(DelayIsOver) /\ WF_fsVars(Vsync) /\ WF_fsVars(DelayThreadEnds)

FullscreenSpec == FullscreenInit /\ [][FullscreenNext]_fsVars /\ FullscreenFairness

-----------------------------------------------------------------------------
\* The instances never disagree with the thread about who is in full screen, and delay_thread
\* sends to no window that was destroyed.
OneIsInFullscreen ==
  /\ \A i \in FsInsts : is_fullscreen[i] => HasWindow(i) /\ fs.at = "loop"
  /\ \A i \in FsInsts : is_fullscreen_apparent[i] => HasWindow(i)
  /\ ~strayMessage
  /\ currently_fullscreen <=> fs.at # "pop"

\* A frame waits only for the window it was drawn in, and a GraphicsExpose is on its way to
\* it: in the queue while the loop will read it, counted, or being passed on.  Leaving full
\* screen breaks no chain of callbacks but those whose GraphicsExpose is still unread, and a
\* GraphicsExpose left for the next window keeps nothing from its own.
FramesAreAnswered ==
  \A i \in FsInsts : frame[i] = "waits" =>
    /\ fs.inst = i
    /\ \/ call = "expose" \/ fs.graphics_expose_events_in_queue > 0
       \/ fs.at = "loop" /\ ExposeIn(xevents)

\* "to prevent callback chain breakage" (ppb_flash_fullscreen.c:493): not so for a
\* GraphicsExpose the loop has not read yet, see LeavesUnread.
NoFrameIsMissed == \A i \in FsInsts : frame[i] # "missed"

\* The flags of SetFullscreen, the window's thread and the frames on their way agree.
FullscreenIsConsistent == FullscreenTypeOK /\ OneIsInFullscreen /\ FramesAreAnswered

\* SetFullscreen(FALSE) has stopped the vertical blanks before one has brought a frame.
LeftUnpainted ==
  /\ fs.at = "loop" /\ ~is_fullscreen[fs.inst]
  /\ enable_vsync /\ ~fs.graphics_expose_was_at_least_once

\* When the user or the plugin wants to leave full screen, and a frame was drawn there, the
\* window goes, except when the plugin left before its first frame was shown.
FullscreenEnds ==
  ( /\ fs.quit_message_received
    /\ fs.graphics_expose_was_at_least_once \/ \E i \in FsInsts : frame[i] = "waits" )
    ~> (fs.at = "pop" \/ LeftUnpainted)
=============================================================================
