--------------------- MODULE WindowsAndServices_proofs ---------------------
(***************************************************************************)
(* Fullscreen and Instances, for any number of instances and any length of *)
(* the queues of events.  OpenGL ES calls work on their own context, and   *)
(* the shader tables are right, for any number of contexts, shaders and    *)
(* mapped blocks; the plugin runs only while it is loaded, and the newest  *)
(* one is, for any search path.                                            *)
(***************************************************************************)
EXTENDS Fullscreen, Instances, OpenGLES2, PluginModule,
        SequenceTheorems, WellFoundedInduction, TLAPS

-----------------------------------------------------------------------------
(* Full screen: what else is true in every state. *)

(* Which calls the thread may be waiting for depends on where it is. *)
CallOfPlace ==
  /\ fs.at \in {"pop", "create", "join"} => call = "none"
  /\ fs.at = "window" => call = "get_browser_window"
  /\ fs.at = "loop" => call \in {"none", "view", "event", "expose", "stale"}
  /\ fs.at = "leave" => call = "leave"
  /\ fs.at = "flush" => call \in {"none", "expose"}

(* The thread has an instance while it has something to do, and counts no  *)
(* exposes outside the window's life; delay_thread lives within it.        *)
ThreadHasInstance ==
  /\ fs.at # "pop" => fs.inst \in FsInsts
  /\ fs.at \in {"pop", "create", "window", "join"} => fs.graphics_expose_events_in_queue = 0
  /\ fs.at = "pop" => delay = "none"

(* SetFullscreen(FALSE) cannot outlast the window it was called for. *)
LeaverHasWindow ==
  leaver # Vacant => /\ fs.inst = leaver /\ fs.at \in {"loop", "leave"}
                     /\ fs.at = "loop" => is_fullscreen[leaver]

FullscreenInv ==
  /\ FullscreenTypeOK /\ OneIsInFullscreen /\ FramesAreAnswered
  /\ CallOfPlace /\ ThreadHasInstance /\ LeaverHasWindow

(* The parts of the type invariant that proofs of a step cite. *)
FsTypes ==
  /\ is_fullscreen \in [FsInsts -> BOOLEAN] /\ is_fullscreen_apparent \in [FsInsts -> BOOLEAN]
  /\ fs \in FsThread /\ frame \in [FsInsts -> Frames]
  /\ xevents \in Seq(FsEvents) /\ Len(xevents) \in Nat
  /\ fullscreen_transition_queue \in Seq(FsInsts)
  /\ MaxX \in Nat \ {0} /\ Vacant \notin FsInsts

LEMMA FsInvIs ==
  ASSUME FullscreenInv
  PROVE  /\ FsTypes /\ FullscreenTypeOK /\ OneIsInFullscreen /\ FramesAreAnswered
         /\ CallOfPlace /\ ThreadHasInstance /\ LeaverHasWindow
BY FullscreenBoundsAssumption DEF FullscreenInv, FullscreenTypeOK, FsTypes

(* Where the thread goes, and how many exposes it counts then. *)
FsGoes(at, n) ==
  /\ fs' \in FsThread /\ fs'.at = at /\ fs'.inst = fs.inst
  /\ fs'.graphics_expose_events_in_queue = n

LEMMA GoesTo ==
  ASSUME fs \in FsThread,
         NEW at \in {"pop", "create", "window", "loop", "leave", "flush", "join"},
         fs' = [fs EXCEPT !.at = at]
  PROVE  FsGoes(at, fs.graphics_expose_events_in_queue)
BY DEF FsGoes, FsThread

(* The thread starts anew for an instance, or ends. *)
LEMMA PopIs ==
  ASSUME NEW at \in {"pop", "create"}, NEW i \in FsInsts \cup {Vacant},
         fs' = [AtPop EXCEPT !.at = at, !.inst = i]
  PROVE  /\ fs' \in FsThread /\ fs'.at = at /\ fs'.inst = i
         /\ fs'.graphics_expose_events_in_queue = 0
BY DEF AtPop, FsThread

LEMMA AtPopIs ==
  /\ AtPop \in FsThread /\ AtPop.at = "pop" /\ AtPop.inst = Vacant
  /\ AtPop.graphics_expose_events_in_queue = 0
BY DEF AtPop, FsThread

(* What reading an event and what a new event do to the queue. *)
LEMMA ExposeAppended ==
  ASSUME NEW q \in Seq(FsEvents), NEW e \in FsEvents
  PROVE  /\ Append(q, e) \in Seq(FsEvents) /\ Len(Append(q, e)) = Len(q) + 1
         /\ ExposeIn(q) => ExposeIn(Append(q, e))
         /\ e = "GraphicsExpose" => ExposeIn(Append(q, e))
BY DEF ExposeIn

LEMMA ExposeTaken ==
  ASSUME NEW q \in Seq(FsEvents), q # <<>>
  PROVE  /\ Tail(q) \in Seq(FsEvents) /\ Len(Tail(q)) = Len(q) - 1 /\ Head(q) \in FsEvents
         /\ ExposeIn(q) => Head(q) = "GraphicsExpose" \/ ExposeIn(Tail(q))
<1>1. /\ Tail(q) \in Seq(FsEvents) /\ Len(Tail(q)) = Len(q) - 1 /\ Head(q) \in FsEvents
      /\ Len(q) \in Nat \ {0} /\ Head(q) = q[1]
      /\ \A k \in 1 .. Len(q) - 1 : Tail(q)[k] = q[k + 1]
  OBVIOUS
<1>2. ASSUME NEW k \in 1 .. Len(q), q[k] = "GraphicsExpose", k # 1
      PROVE  k - 1 \in 1 .. Len(Tail(q)) /\ Tail(q)[k - 1] = "GraphicsExpose"
  BY <1>1, <1>2
<1> QED
  BY <1>1, <1>2 DEF ExposeIn

(* XNextEvent: the thread stays in its loop, and an expose is passed on or counted. *)
LEMMA HandleXEventIs ==
  ASSUME FullscreenInv, HandleXEvent
  PROVE  LET n == fs.graphics_expose_events_in_queue
             m == fs'.graphics_expose_events_in_queue
         IN  /\ FsGoes("loop", m) /\ m \in Nat
             /\ call' \in {"none", "view", "event", "expose", "stale"}
             /\ m = n \/ m > 0 \/ call' = "expose"
             /\ Head(xevents) = "GraphicsExpose" => m > 0 \/ call' = "expose"
<1> DEFINE n == fs.graphics_expose_events_in_queue
           e == Head(xevents)
<1>1. fs \in FsThread /\ n \in Nat /\ fs.at = "loop" /\ call = "none"
  BY FsInvIs DEF FsTypes, HandleXEvent, FsThread
<1>2. e \in FsEvents
  BY FsInvIs, ExposeTaken DEF FsTypes, HandleXEvent
<1> USE <1>1, <1>2
<1>3. CASE e = "Escape"
  <2>1. fs' = [fs EXCEPT !.quit_message_received = TRUE] /\ call' = "event"
    BY <1>3 DEF HandleXEvent
  <2> QED
    BY <1>3, <2>1 DEF FsGoes, FsThread
<1>4. CASE e = "WM_DELETE_WINDOW"
  <2>1. fs' = [fs EXCEPT !.quit_message_received = TRUE] /\ call' = call
    BY <1>4 DEF HandleXEvent
  <2> QED
    BY <1>4, <2>1 DEF FsGoes, FsThread
<1>5. CASE e = "Input"
  <2>1. call' = "event" /\ fs' = fs
    BY <1>5 DEF HandleXEvent
  <2> QED
    BY <1>5, <2>1 DEF FsGoes
<1>6. CASE e = "WAIT_IS_OVER"
  <2>1. /\ call' = IF fs.called_did_change_view THEN "none" ELSE "view"
        /\ fs' = [fs EXCEPT !.called_did_change_view = TRUE]
    BY <1>6 DEF HandleXEvent
  <2> QED
    BY <1>6, <2>1 DEF FsGoes, FsThread
<1>7. CASE e = "VSYNC" /\ n > 0
  <2>1. /\ fs' = [fs EXCEPT !.graphics_expose_events_in_queue = n - 1,
                            !.graphics_expose_was_at_least_once = TRUE]
        /\ call' = "expose"
    BY <1>7 DEF HandleXEvent
  <2> PICK k \in Nat : k = n - 1
    BY <1>7
  <2>2. fs' = [fs EXCEPT !.graphics_expose_events_in_queue = k,
                         !.graphics_expose_was_at_least_once = TRUE]
    BY <2>1
  <2>3. FsGoes("loop", k)
    <3> HIDE DEF n
    <3> QED
      BY <2>2 DEF FsGoes, FsThread
  <2> QED
    BY <1>7, <2>1, <2>3 DEF FsGoes
<1>8. CASE e \in {"GraphicsExpose", "OldGraphicsExpose"} /\ enable_vsync
  <2>1. fs' = [fs EXCEPT !.graphics_expose_events_in_queue = n + 1] /\ call' = call
    BY <1>8 DEF HandleXEvent
  <2> QED
    BY <1>8, <2>1 DEF FsGoes, FsThread
<1>9. CASE e \in {"GraphicsExpose", "OldGraphicsExpose"} /\ ~enable_vsync
  <2>1. /\ fs' = [fs EXCEPT !.graphics_expose_was_at_least_once = TRUE]
        /\ call' = IF e = "GraphicsExpose" THEN "expose" ELSE "stale"
    BY <1>9 DEF HandleXEvent
  <2> QED
    BY <1>9, <2>1 DEF FsGoes, FsThread
<1>10. CASE e = "VSYNC" /\ ~(n > 0)
  <2>1. fs' = fs /\ call' = call
    BY <1>10 DEF HandleXEvent
  <2> QED
    BY <1>10, <2>1 DEF FsGoes
<1> QED
  BY <1>3, <1>4, <1>5, <1>6, <1>7, <1>8, <1>9, <1>10 DEF FsEvents

-----------------------------------------------------------------------------
(* The actions of the plugin's thread. *)

LEMMA FsStutter ==
  ASSUME FullscreenInv, UNCHANGED fsVars
  PROVE  FullscreenInv'
BY DEF fsVars, FullscreenInv, FullscreenTypeOK, OneIsInFullscreen, FramesAreAnswered, CallOfPlace,
       ThreadHasInstance, LeaverHasWindow, HasWindow, ExposeIn

LEMMA FsEnter ==
  ASSUME FullscreenInv, NEW i \in FsInsts, EnterFullscreen(i)
  PROVE  FullscreenInv'
<1> USE FsInvIs DEF FsTypes
<1>1. /\ fullscreen_transition_queue' \in Seq(FsInsts)
      /\ UNCHANGED <<enable_vsync, is_fullscreen, is_fullscreen_apparent, currently_fullscreen, fs,
                     call, delay, run_delay_thread, xevents, leaver, frame, strayMessage>>
  BY DEF EnterFullscreen
<1>2. FullscreenTypeOK' /\ OneIsInFullscreen' /\ FramesAreAnswered'
  BY <1>1 DEF FullscreenTypeOK, OneIsInFullscreen, FramesAreAnswered, ExposeIn, HasWindow
<1>3. CallOfPlace' /\ ThreadHasInstance' /\ LeaverHasWindow'
  BY <1>1 DEF CallOfPlace, ThreadHasInstance, LeaverHasWindow
<1> QED
  BY <1>2, <1>3 DEF FullscreenInv

LEMMA FsLeave ==
  ASSUME FullscreenInv, NEW i \in FsInsts, LeaveFullscreen(i)
  PROVE  FullscreenInv'
<1> USE FsInvIs DEF FsTypes
<1>1. /\ is_fullscreen[i] /\ leaver' = i /\ fs.inst = i /\ fs.at = "loop"
      /\ UNCHANGED <<enable_vsync, is_fullscreen, is_fullscreen_apparent,
                     fullscreen_transition_queue, currently_fullscreen, fs, call, delay,
                     run_delay_thread, xevents, frame, strayMessage>>
  BY DEF LeaveFullscreen, OneIsInFullscreen, HasWindow
<1>2. FullscreenTypeOK' /\ OneIsInFullscreen' /\ FramesAreAnswered'
  BY <1>1 DEF FullscreenTypeOK, OneIsInFullscreen, FramesAreAnswered, ExposeIn, HasWindow
<1>3. CallOfPlace' /\ ThreadHasInstance' /\ LeaverHasWindow'
  BY <1>1 DEF CallOfPlace, ThreadHasInstance, LeaverHasWindow
<1> QED
  BY <1>2, <1>3 DEF FullscreenInv

LEMMA FsEscape ==
  ASSUME FullscreenInv, SendEscape
  PROVE  FullscreenInv'
<1> USE FsInvIs DEF FsTypes
<1> PICK i \in FsInsts : i = leaver
  BY DEF SendEscape, FullscreenTypeOK
<1>1. /\ i # Vacant /\ leaver' = Vacant /\ fs.inst = i /\ fs.at \in {"loop", "leave"}
      /\ is_fullscreen' = [is_fullscreen EXCEPT ![i] = FALSE]
      /\ UNCHANGED <<enable_vsync, is_fullscreen_apparent, fullscreen_transition_queue,
                     currently_fullscreen, fs, call, delay, run_delay_thread, frame, strayMessage>>
  BY DEF SendEscape, LeaverHasWindow, OneIsInFullscreen
<1>2. /\ is_fullscreen' \in [FsInsts -> BOOLEAN] /\ ~is_fullscreen'[i]
      /\ \A j \in FsInsts : is_fullscreen'[j] => is_fullscreen[j]
  BY <1>1
<1>3. \/ xevents' = xevents /\ fs.at = "leave"
      \/ xevents' = Append(xevents, "Escape") /\ fs.at = "loop" /\ is_fullscreen[i]
  BY <1>1 DEF SendEscape, Deliver, HasWindow, LeaverHasWindow, OneIsInFullscreen
<1>4. /\ xevents' \in Seq(FsEvents) /\ (ExposeIn(xevents) => ExposeIn(xevents)')
  <2>1. CASE xevents' = xevents /\ fs.at = "leave"
    BY <2>1 DEF ExposeIn
  <2>2. CASE xevents' = Append(xevents, "Escape") /\ fs.at = "loop"
    <3>1. "Escape" \in FsEvents
      BY DEF FsEvents
    <3>2. /\ xevents' \in Seq(FsEvents) /\ Len(xevents') = Len(xevents) + 1
          /\ ExposeIn(xevents) => ExposeIn(xevents')
      BY <2>2, <3>1, ExposeAppended
    <3> QED
      BY <2>2, <3>2 DEF ExposeIn
  <2> QED
    BY <1>3, <2>1, <2>2
<1>6. FullscreenTypeOK' /\ OneIsInFullscreen'
  BY <1>1, <1>2, <1>4 DEF FullscreenTypeOK, OneIsInFullscreen, HasWindow
<1>7. FramesAreAnswered'
  BY <1>1, <1>4 DEF FramesAreAnswered
<1>8. CallOfPlace' /\ ThreadHasInstance' /\ LeaverHasWindow'
  BY <1>1 DEF CallOfPlace, ThreadHasInstance, LeaverHasWindow
<1> QED
  BY <1>6, <1>7, <1>8 DEF FullscreenInv

(* A new event changes nothing but the queue. *)
FsNewEvent(e) ==
  /\ e \in FsEvents /\ xevents' = Append(xevents, e)
  /\ UNCHANGED <<enable_vsync, is_fullscreen, is_fullscreen_apparent, fullscreen_transition_queue,
                 currently_fullscreen, fs, call, run_delay_thread, leaver, strayMessage>>

LEMMA FsDelivered ==
  ASSUME FullscreenInv, NEW e \in FsEvents, FsNewEvent(e), delay' = delay
  PROVE  /\ xevents' \in Seq(FsEvents)
         /\ ExposeIn(xevents) => ExposeIn(xevents)'
         /\ OneIsInFullscreen' /\ CallOfPlace' /\ ThreadHasInstance' /\ LeaverHasWindow'
<1> USE FsInvIs DEF FsTypes, FsNewEvent
<1>1. xevents' \in Seq(FsEvents) /\ (ExposeIn(xevents) => ExposeIn(xevents)')
  BY ExposeAppended DEF ExposeIn
<1>2. OneIsInFullscreen' /\ CallOfPlace' /\ ThreadHasInstance' /\ LeaverHasWindow'
  BY DEF OneIsInFullscreen, HasWindow, CallOfPlace, ThreadHasInstance, LeaverHasWindow
<1> QED
  BY <1>1, <1>2

LEMMA FsInput ==
  ASSUME FullscreenInv, NEW e \in {"Escape", "WM_DELETE_WINDOW", "Input"}, UserInput(e)
  PROVE  FullscreenInv'
<1> USE FsInvIs DEF FsTypes
<1>1. FsNewEvent(e) /\ UNCHANGED <<delay, frame>> /\ e \in FsEvents
  BY DEF UserInput, FsNewEvent, Deliver, FsEvents
<1>2. FullscreenTypeOK' /\ FramesAreAnswered'
  BY <1>1, FsDelivered DEF FullscreenTypeOK, FramesAreAnswered, FsNewEvent
<1> QED
  BY <1>1, <1>2, FsDelivered DEF FullscreenInv

LEMMA FsPaint ==
  ASSUME FullscreenInv, NEW i \in FsInsts, PaintFrame(i)
  PROVE  FullscreenInv'
<1> USE FsInvIs DEF FsTypes
<1>1. FsNewEvent("GraphicsExpose") /\ UNCHANGED delay /\ "GraphicsExpose" \in FsEvents
  BY DEF PaintFrame, FsNewEvent, Deliver, FsEvents
<1>2. frame' = [frame EXCEPT ![i] = "waits"] /\ fs.inst = i /\ fs.at = "loop"
  BY DEF PaintFrame, OneIsInFullscreen, HasWindow
<1>3. ExposeIn(xevents)'
  BY <1>1, ExposeAppended DEF FsNewEvent, ExposeIn
<1>4. FramesAreAnswered'
  BY <1>1, <1>2, <1>3 DEF FramesAreAnswered, FsNewEvent
<1>5. FullscreenTypeOK'
  BY <1>1, <1>2, FsDelivered DEF FullscreenTypeOK, FsNewEvent, Frames
<1> QED
  BY <1>1, <1>4, <1>5, FsDelivered DEF FullscreenInv

(* The browser repaints the page of an instance that is not in full screen. *)
LEMMA FsPageExpose ==
  ASSUME FullscreenInv, NEW i \in FsInsts, PageExpose(i)
  PROVE  FullscreenInv'
<1> USE FsInvIs DEF FsTypes
<1>1. /\ frame' = [frame EXCEPT ![i] = "no"]
      /\ UNCHANGED <<enable_vsync, is_fullscreen, is_fullscreen_apparent,
                     fullscreen_transition_queue, currently_fullscreen, fs, call, delay,
                     run_delay_thread, xevents, leaver, strayMessage>>
  BY DEF PageExpose
<1>2. FullscreenTypeOK' /\ OneIsInFullscreen' /\ FramesAreAnswered'
  BY <1>1 DEF FullscreenTypeOK, OneIsInFullscreen, FramesAreAnswered, ExposeIn, HasWindow, Frames
<1>3. CallOfPlace' /\ ThreadHasInstance' /\ LeaverHasWindow'
  BY <1>1 DEF CallOfPlace, ThreadHasInstance, LeaverHasWindow
<1> QED
  BY <1>2, <1>3 DEF FullscreenInv

-----------------------------------------------------------------------------
(* The actions of the thread of the window. *)

LEMMA FsPop ==
  ASSUME FullscreenInv, fullscreen_window_thread
  PROVE  FullscreenInv'
<1> USE FsInvIs DEF FsTypes
<1> PICK i \in FsInsts : i = Head(fullscreen_transition_queue)
  BY DEF fullscreen_window_thread
<1>1. /\ fs.at = "pop" /\ fullscreen_transition_queue # <<>> /\ currently_fullscreen' = TRUE
      /\ delay' = "wait" /\ run_delay_thread' = TRUE
      /\ fs' = [AtPop EXCEPT !.at = "create", !.inst = i]
      /\ UNCHANGED <<enable_vsync, is_fullscreen, is_fullscreen_apparent, call, xevents, leaver,
                     frame, strayMessage>>
  BY DEF fullscreen_window_thread
<1>2. /\ fs' \in FsThread /\ fs'.at = "create" /\ fs'.inst = i
      /\ fs'.graphics_expose_events_in_queue = 0
  BY <1>1, PopIs
<1>3. fullscreen_transition_queue' \in Seq(FsInsts)
  BY <1>1 DEF fullscreen_window_thread
<1>4. FullscreenTypeOK'
  BY <1>1, <1>2, <1>3 DEF FullscreenTypeOK
<1>5. OneIsInFullscreen'
  BY <1>1, <1>2 DEF OneIsInFullscreen, HasWindow
<1>6. FramesAreAnswered'
  BY <1>1, <1>2 DEF FramesAreAnswered, ThreadHasInstance, CallOfPlace
<1>7. CallOfPlace' /\ ThreadHasInstance' /\ LeaverHasWindow'
  BY <1>1, <1>2, <1>3 DEF CallOfPlace, ThreadHasInstance, LeaverHasWindow
<1> QED
  BY <1>4, <1>5, <1>6, <1>7 DEF FullscreenInv

LEMMA FsCreate ==
  ASSUME FullscreenInv, XCreateWindow
  PROVE  FullscreenInv'
<1> USE FsInvIs DEF FsTypes
<1>1. /\ fs.at = "create" /\ call' = "get_browser_window"
      /\ UNCHANGED <<enable_vsync, is_fullscreen, is_fullscreen_apparent,
                     fullscreen_transition_queue, currently_fullscreen, delay, run_delay_thread,
                     leaver, frame, strayMessage>>
  BY DEF XCreateWindow
<1>0. xevents' \in Seq(FsEvents)
  <2> DEFINE old(k) == IF xevents[k] = "GraphicsExpose" THEN "OldGraphicsExpose" ELSE xevents[k]
  <2>1. \A k \in 1 .. Len(xevents) : old(k) \in FsEvents
    BY DEF FsEvents
  <2>2. xevents' = [k \in 1 .. Len(xevents) |-> old(k)]
    BY DEF XCreateWindow
  <2> HIDE DEF old
  <2> QED
    BY <2>1, <2>2
<1>2. FsGoes("window", fs.graphics_expose_events_in_queue)
  BY GoesTo DEF XCreateWindow
<1> USE DEF FsGoes
<1>3. FullscreenTypeOK'
  BY <1>0, <1>1, <1>2 DEF FullscreenTypeOK, Calls
<1>4. OneIsInFullscreen'
  BY <1>1, <1>2 DEF OneIsInFullscreen, HasWindow
<1>5. FramesAreAnswered'
  BY <1>1, <1>2 DEF FramesAreAnswered, CallOfPlace, ThreadHasInstance
<1>6. CallOfPlace' /\ ThreadHasInstance' /\ LeaverHasWindow'
  BY <1>1, <1>2 DEF CallOfPlace, ThreadHasInstance, LeaverHasWindow
<1> QED
  BY <1>3, <1>4, <1>5, <1>6 DEF FullscreenInv

LEMMA FsBrowserWindow ==
  ASSUME FullscreenInv, get_browser_window
  PROVE  FullscreenInv'
<1> USE FsInvIs DEF FsTypes
<1>1. /\ call = "get_browser_window" /\ call' = "none" /\ fs.at = "window"
      /\ UNCHANGED <<enable_vsync, is_fullscreen_apparent, fullscreen_transition_queue,
                     currently_fullscreen, delay, run_delay_thread, xevents, leaver, frame,
                     strayMessage>>
  BY DEF get_browser_window, CallOfPlace, FsThread
<1>2. FsGoes("loop", fs.graphics_expose_events_in_queue)
  BY GoesTo DEF get_browser_window
<1> PICK i \in FsInsts : i = fs.inst
  BY <1>1 DEF ThreadHasInstance
<1>3. is_fullscreen' = [is_fullscreen EXCEPT ![i] = TRUE]
  BY DEF get_browser_window
<1>4. \A j \in FsInsts : is_fullscreen'[j] <=> j = i
  BY <1>1, <1>3 DEF OneIsInFullscreen
<1> USE DEF FsGoes
<1>5. FullscreenTypeOK'
  BY <1>1, <1>2, <1>3 DEF FullscreenTypeOK, Calls
<1>6. OneIsInFullscreen'
  BY <1>1, <1>2, <1>4 DEF OneIsInFullscreen, HasWindow
<1>7. FramesAreAnswered'
  BY <1>1, <1>2 DEF FramesAreAnswered, ThreadHasInstance
<1>8. CallOfPlace' /\ ThreadHasInstance' /\ LeaverHasWindow'
  BY <1>1, <1>2 DEF CallOfPlace, ThreadHasInstance, LeaverHasWindow
<1> QED
  BY <1>5, <1>6, <1>7, <1>8 DEF FullscreenInv

LEMMA FsXEvent ==
  ASSUME FullscreenInv, HandleXEvent
  PROVE  FullscreenInv'
<1> USE FsInvIs DEF FsTypes
<1>1. /\ fs.at = "loop" /\ call = "none" /\ xevents # <<>> /\ xevents' = Tail(xevents)
      /\ UNCHANGED <<enable_vsync, is_fullscreen, is_fullscreen_apparent,
                     fullscreen_transition_queue, currently_fullscreen, delay, run_delay_thread,
                     leaver, frame, strayMessage>>
  BY DEF HandleXEvent
<1>2. PICK m \in Nat :
        /\ FsGoes("loop", m) /\ call' \in {"none", "view", "event", "expose", "stale"}
        /\ m = fs.graphics_expose_events_in_queue \/ m > 0 \/ call' = "expose"
        /\ Head(xevents) = "GraphicsExpose" => m > 0 \/ call' = "expose"
  BY HandleXEventIs
<1>3. /\ xevents' \in Seq(FsEvents) /\ Len(xevents') = Len(xevents) - 1
      /\ ExposeIn(xevents) => Head(xevents) = "GraphicsExpose" \/ ExposeIn(xevents)'
  BY <1>1, ExposeTaken DEF ExposeIn
<1> USE DEF FsGoes
<1>4. FullscreenTypeOK'
  BY <1>1, <1>2, <1>3 DEF FullscreenTypeOK, Calls
<1>5. OneIsInFullscreen'
  BY <1>1, <1>2 DEF OneIsInFullscreen, HasWindow
<1>6. FramesAreAnswered'
  BY <1>1, <1>2, <1>3 DEF FramesAreAnswered
<1>7. CallOfPlace' /\ ThreadHasInstance' /\ LeaverHasWindow'
  BY <1>1, <1>2 DEF CallOfPlace, ThreadHasInstance, LeaverHasWindow
<1> QED
  BY <1>4, <1>5, <1>6, <1>7 DEF FullscreenInv

LEMMA FsQuit ==
  ASSUME FullscreenInv, quit_and_destroy_fs_wnd
  PROVE  FullscreenInv'
<1> USE FsInvIs DEF FsTypes
<1>1. /\ fs.at = "loop" /\ call = "none" /\ call' = "leave"
      /\ UNCHANGED <<enable_vsync, fullscreen_transition_queue, currently_fullscreen, delay,
                     run_delay_thread, xevents, leaver, strayMessage>>
  BY DEF quit_and_destroy_fs_wnd
<1>2. FsGoes("leave", fs.graphics_expose_events_in_queue)
  BY GoesTo DEF quit_and_destroy_fs_wnd
<1> PICK i \in FsInsts : i = fs.inst
  BY <1>1 DEF ThreadHasInstance
<1>3. /\ is_fullscreen' = [is_fullscreen EXCEPT ![i] = FALSE]
      /\ is_fullscreen_apparent' = [is_fullscreen_apparent EXCEPT ![i] = FALSE]
  BY DEF quit_and_destroy_fs_wnd
<1>4. \A j \in FsInsts : ~is_fullscreen'[j] /\ ~is_fullscreen_apparent'[j]
  BY <1>1, <1>3 DEF OneIsInFullscreen, HasWindow
<1>0. /\ frame' \in [FsInsts -> Frames]
      /\ \A j \in FsInsts : frame'[j] = "waits" =>
           frame[j] = "waits" /\ (j = i => ~(ExposeIn(xevents) /\ fs.graphics_expose_events_in_queue = 0))
  BY DEF quit_and_destroy_fs_wnd, LeavesUnread, Frames
<1> USE DEF FsGoes
<1>5. FullscreenTypeOK'
  BY <1>0, <1>1, <1>2, <1>3 DEF FullscreenTypeOK, Calls
<1>6. OneIsInFullscreen'
  BY <1>1, <1>2, <1>4 DEF OneIsInFullscreen
<1>7. FramesAreAnswered'
  <2> fs.graphics_expose_events_in_queue \in Nat
    BY DEF FsThread
  <2> QED
    BY <1>0, <1>1, <1>2 DEF FramesAreAnswered
<1>8. CallOfPlace' /\ ThreadHasInstance' /\ LeaverHasWindow'
  BY <1>1, <1>2 DEF CallOfPlace, ThreadHasInstance, LeaverHasWindow
<1> QED
  BY <1>5, <1>6, <1>7, <1>8 DEF FullscreenInv

LEMMA FsFlush ==
  ASSUME FullscreenInv, FlushExposes
  PROVE  FullscreenInv'
<1> USE FsInvIs DEF FsTypes
<1> DEFINE n == fs.graphics_expose_events_in_queue
<1>1. /\ fs.at = "flush" /\ call = "none" /\ n \in Nat
      /\ UNCHANGED <<enable_vsync, is_fullscreen, is_fullscreen_apparent,
                     fullscreen_transition_queue, currently_fullscreen, delay, xevents, leaver,
                     frame, strayMessage>>
  BY DEF FlushExposes, FsThread
<1>2. PICK at \in {"flush", "join"}, m \in Nat :
        /\ FsGoes(at, m) /\ call' \in {"none", "expose"} /\ run_delay_thread' \in BOOLEAN
        /\ at = "flush" => call' = "expose"
        /\ at = "join" => call' = "none" /\ m = 0 /\ n = 0
  <2>1. CASE n > 0
    <3> PICK k \in Nat : k = n - 1
      BY <1>1, <2>1
    <3>1. /\ fs' = [fs EXCEPT !.graphics_expose_events_in_queue = k]
          /\ call' = "expose" /\ run_delay_thread' = run_delay_thread
      BY <2>1 DEF FlushExposes
    <3>2. FsGoes("flush", k)
      BY <1>1, <3>1 DEF FsGoes, FsThread
    <3> QED
      BY <3>1, <3>2 DEF FullscreenTypeOK
  <2>2. CASE ~(n > 0)
    <3>1. fs' = [fs EXCEPT !.at = "join"] /\ run_delay_thread' = FALSE /\ call' = "none"
      BY <1>1, <2>2 DEF FlushExposes
    <3>2. n = 0
      BY <1>1, <2>2
    <3>3. FsGoes("join", 0)
      BY <3>1, <3>2, GoesTo
    <3> WITNESS "join" \in {"flush", "join"}, 0 \in Nat
    <3> QED
      BY <3>1, <3>2, <3>3
  <2> QED
    BY <2>1, <2>2
<1> USE DEF FsGoes
<1>3. FullscreenTypeOK'
  BY <1>1, <1>2 DEF FullscreenTypeOK, Calls
<1>4. OneIsInFullscreen'
  BY <1>1, <1>2 DEF OneIsInFullscreen, HasWindow
<1>5. FramesAreAnswered'
  BY <1>1, <1>2 DEF FramesAreAnswered, ExposeIn
<1>6. CallOfPlace' /\ ThreadHasInstance' /\ LeaverHasWindow'
  BY <1>1, <1>2 DEF CallOfPlace, ThreadHasInstance, LeaverHasWindow
<1> QED
  BY <1>3, <1>4, <1>5, <1>6 DEF FullscreenInv

LEMMA FsJoin ==
  ASSUME FullscreenInv, JoinDelayThread
  PROVE  FullscreenInv'
<1> USE FsInvIs DEF FsTypes
<1>1. /\ fs.at = "join" /\ delay = "none" /\ currently_fullscreen' = FALSE
      /\ UNCHANGED <<enable_vsync, is_fullscreen, is_fullscreen_apparent,
                     fullscreen_transition_queue, call, delay, run_delay_thread, xevents, leaver,
                     frame, strayMessage>>
  BY DEF JoinDelayThread
<1>2. /\ fs' \in FsThread /\ fs'.at = "pop" /\ fs'.inst = Vacant
      /\ fs'.graphics_expose_events_in_queue = 0
  BY AtPopIs DEF JoinDelayThread
<1>3. FullscreenTypeOK'
  BY <1>1, <1>2 DEF FullscreenTypeOK
<1>4. OneIsInFullscreen'
  BY <1>1, <1>2 DEF OneIsInFullscreen, HasWindow
<1>5. FramesAreAnswered'
  BY <1>1, <1>2 DEF FramesAreAnswered, ThreadHasInstance, CallOfPlace
<1>6. CallOfPlace' /\ ThreadHasInstance' /\ LeaverHasWindow'
  BY <1>1, <1>2 DEF CallOfPlace, ThreadHasInstance, LeaverHasWindow
<1> QED
  BY <1>3, <1>4, <1>5, <1>6 DEF FullscreenInv

-----------------------------------------------------------------------------
(* The other side of the barrier, and delay_thread. *)

LEMMA FsEventHandled ==
  ASSUME FullscreenInv, handle_event_ptac
  PROVE  FullscreenInv'
<1> USE FsInvIs DEF FsTypes
<1>1. /\ call \in {"event", "expose", "stale"} /\ call' = "none" /\ fs.at \in {"loop", "flush"}
      /\ UNCHANGED <<enable_vsync, is_fullscreen, is_fullscreen_apparent,
                     fullscreen_transition_queue, currently_fullscreen, fs, delay,
                     run_delay_thread, xevents, leaver, strayMessage>>
  BY DEF handle_event_ptac, CallOfPlace, FsThread
<1>2. fs.inst \in FsInsts
  BY <1>1 DEF ThreadHasInstance
<1>3. /\ frame' \in [FsInsts -> Frames]
      /\ \A i \in FsInsts : frame'[i] = "waits" => frame[i] = "waits"
      /\ call = "expose" => frame'[fs.inst] # "waits"
  BY <1>2 DEF handle_event_ptac, Frames
<1>4. FullscreenTypeOK'
  BY <1>1, <1>3 DEF FullscreenTypeOK, Calls
<1>5. OneIsInFullscreen'
  BY <1>1 DEF OneIsInFullscreen, HasWindow
<1>6. FramesAreAnswered'
  BY <1>1, <1>3 DEF FramesAreAnswered, ExposeIn
<1>7. CallOfPlace' /\ ThreadHasInstance' /\ LeaverHasWindow'
  BY <1>1, <1>3 DEF CallOfPlace, ThreadHasInstance, LeaverHasWindow
<1> QED
  BY <1>4, <1>5, <1>6, <1>7 DEF FullscreenInv

LEMMA FsViewChanged ==
  ASSUME FullscreenInv, call_did_change_view_comt
  PROVE  FullscreenInv'
<1> USE FsInvIs DEF FsTypes
<1>1. /\ leaver = Vacant
      /\ UNCHANGED <<enable_vsync, is_fullscreen, fullscreen_transition_queue,
                     currently_fullscreen, delay, run_delay_thread, xevents, leaver, frame,
                     strayMessage>>
  BY DEF call_did_change_view_comt
<1>2. PICK i \in FsInsts : i = fs.inst
  BY DEF call_did_change_view_comt, CallOfPlace, ThreadHasInstance
<1>3. \/ /\ call = "view" /\ call' = "expose" /\ fs.at = "loop"
         /\ is_fullscreen_apparent' = [is_fullscreen_apparent EXCEPT ![i] = TRUE]
         /\ fs' = [fs EXCEPT !.at = "loop"]
      \/ /\ call = "leave" /\ call' = "none" /\ fs.at = "leave"
         /\ is_fullscreen_apparent' = [is_fullscreen_apparent EXCEPT ![i] = FALSE]
         /\ fs' = [fs EXCEPT !.at = "flush"]
  BY <1>2 DEF call_did_change_view_comt, CallOfPlace, FsThread
<1>4. CASE /\ call = "view" /\ call' = "expose" /\ fs.at = "loop"
           /\ is_fullscreen_apparent' = [is_fullscreen_apparent EXCEPT ![i] = TRUE]
           /\ fs' = [fs EXCEPT !.at = "loop"]
  <2>1. FsGoes("loop", fs.graphics_expose_events_in_queue)
    BY <1>4, GoesTo
  <2> USE DEF FsGoes
  <2>2. FullscreenTypeOK'
    BY <1>1, <1>4, <2>1 DEF FullscreenTypeOK, Calls
  <2>3. OneIsInFullscreen'
    BY <1>1, <1>2, <1>4, <2>1 DEF OneIsInFullscreen, HasWindow
  <2>4. FramesAreAnswered'
    BY <1>1, <1>4, <2>1 DEF FramesAreAnswered
  <2>5. CallOfPlace' /\ ThreadHasInstance' /\ LeaverHasWindow'
    BY <1>1, <1>4, <2>1 DEF CallOfPlace, ThreadHasInstance, LeaverHasWindow
  <2> QED
    BY <2>2, <2>3, <2>4, <2>5 DEF FullscreenInv
<1>5. CASE /\ call = "leave" /\ call' = "none" /\ fs.at = "leave"
           /\ is_fullscreen_apparent' = [is_fullscreen_apparent EXCEPT ![i] = FALSE]
           /\ fs' = [fs EXCEPT !.at = "flush"]
  <2>1. FsGoes("flush", fs.graphics_expose_events_in_queue)
    BY <1>5, GoesTo
  <2> USE DEF FsGoes
  <2>2. FullscreenTypeOK'
    BY <1>1, <1>5, <2>1 DEF FullscreenTypeOK, Calls
  <2>3. OneIsInFullscreen'
    BY <1>1, <1>2, <1>5, <2>1 DEF OneIsInFullscreen, HasWindow
  <2>4. FramesAreAnswered'
    BY <1>1, <1>5, <2>1 DEF FramesAreAnswered, ExposeIn
  <2>5. CallOfPlace' /\ ThreadHasInstance' /\ LeaverHasWindow'
    BY <1>1, <1>5, <2>1 DEF CallOfPlace, ThreadHasInstance, LeaverHasWindow
  <2> QED
    BY <2>2, <2>3, <2>4, <2>5 DEF FullscreenInv
<1> QED
  BY <1>3, <1>4, <1>5

(* delay_thread sends only to a window that is there. *)
LEMMA SendToWindowIs ==
  ASSUME FullscreenInv, NEW e \in FsEvents, SendToWindow(e), delay # "none"
  PROVE  /\ strayMessage' = FALSE
         /\ xevents' \in Seq(FsEvents) /\ (ExposeIn(xevents) => ExposeIn(xevents)')
<1> USE FsInvIs DEF FsTypes
<1>1. fs.inst \in FsInsts /\ strayMessage = FALSE
  BY DEF ThreadHasInstance, OneIsInFullscreen, FullscreenTypeOK
<1>2. CASE is_fullscreen[fs.inst]
  <2>1. HasWindow(fs.inst) /\ fs.at = "loop"
    BY <1>1, <1>2 DEF OneIsInFullscreen
  <2>2. xevents' = Append(xevents, e) /\ strayMessage' = FALSE
    BY <1>1, <1>2, <2>1 DEF SendToWindow, Deliver
  <2>3. xevents' \in Seq(FsEvents) /\ (ExposeIn(xevents) => ExposeIn(xevents'))
    BY <2>2, ExposeAppended
  <2> QED
    BY <2>1, <2>2, <2>3 DEF ExposeIn
<1>3. CASE ~is_fullscreen[fs.inst]
  BY <1>1, <1>3 DEF SendToWindow, ExposeIn
<1> QED
  BY <1>2, <1>3

LEMMA FsDelay ==
  ASSUME FullscreenInv, delay_thread
  PROVE  FullscreenInv'
<1> USE FsInvIs DEF FsTypes
<1>1. /\ delay # "none" /\ delay' \in {"none", "vsync"}
      /\ UNCHANGED <<enable_vsync, is_fullscreen, is_fullscreen_apparent,
                     fullscreen_transition_queue, currently_fullscreen, fs, call,
                     run_delay_thread, leaver, frame>>
  BY DEF delay_thread, DelayIsOver, Vsync, DelayThreadEnds
<1>2. /\ strayMessage' = FALSE
      /\ xevents' \in Seq(FsEvents) /\ (ExposeIn(xevents) => ExposeIn(xevents)')
  <2>1. CASE DelayIsOver
    BY <1>1, <2>1, SendToWindowIs DEF DelayIsOver, FsEvents
  <2>2. CASE Vsync
    BY <1>1, <2>2, SendToWindowIs DEF Vsync, FsEvents
  <2>3. CASE DelayThreadEnds
    BY <2>3 DEF DelayThreadEnds, ExposeIn, OneIsInFullscreen, FullscreenTypeOK
  <2> QED
    BY <2>1, <2>2, <2>3 DEF delay_thread
<1>4. FullscreenTypeOK'
  BY <1>1, <1>2 DEF FullscreenTypeOK
<1>5. OneIsInFullscreen'
  BY <1>1, <1>2 DEF OneIsInFullscreen, HasWindow
<1>6. FramesAreAnswered'
  BY <1>1, <1>2 DEF FramesAreAnswered
<1>7. CallOfPlace' /\ ThreadHasInstance' /\ LeaverHasWindow'
  BY <1>1 DEF CallOfPlace, ThreadHasInstance, LeaverHasWindow
<1> QED
  BY <1>4, <1>5, <1>6, <1>7 DEF FullscreenInv

LEMMA FsInitInv ==
  ASSUME FullscreenInit
  PROVE  FullscreenInv
<1> USE FullscreenBoundsAssumption DEF FullscreenInit
<1>1. /\ fs \in FsThread /\ fs.at = "pop" /\ fs.inst = Vacant
      /\ fs.graphics_expose_events_in_queue = 0
  BY AtPopIs
<1>2. FullscreenTypeOK
  <2>1. xevents \in Seq(FsEvents) /\ fullscreen_transition_queue \in Seq(FsInsts)
    OBVIOUS
  <2>2. /\ is_fullscreen \in [FsInsts -> BOOLEAN] /\ is_fullscreen_apparent \in [FsInsts -> BOOLEAN]
        /\ frame \in [FsInsts -> Frames]
    BY DEF Frames
  <2> QED
    BY <1>1, <2>1, <2>2 DEF FullscreenTypeOK, Calls
<1>3. OneIsInFullscreen /\ FramesAreAnswered
  BY <1>1 DEF OneIsInFullscreen, FramesAreAnswered
<1>4. CallOfPlace /\ ThreadHasInstance /\ LeaverHasWindow
  BY <1>1 DEF CallOfPlace, ThreadHasInstance, LeaverHasWindow
<1> QED
  BY <1>2, <1>3, <1>4 DEF FullscreenInv

LEMMA FsNextInv ==
  ASSUME FullscreenInv, [FullscreenNext]_fsVars
  PROVE  FullscreenInv'
<1>1. ASSUME ppb_flash_fullscreen_set_fullscreen PROVE FullscreenInv'
  BY <1>1, FsEnter, FsLeave, FsEscape DEF ppb_flash_fullscreen_set_fullscreen
<1>2. ASSUME fullscreen_window_thread_int PROVE FullscreenInv'
  BY <1>2, FsCreate, FsXEvent, FsQuit, FsFlush DEF fullscreen_window_thread_int
<1>3. ASSUME cross_thread_call_barrier PROVE FullscreenInv'
  BY <1>3, FsBrowserWindow, FsEventHandled, FsViewChanged DEF cross_thread_call_barrier
<1> QED
  BY <1>1, <1>2, <1>3, FsPaint, FsPageExpose, FsPop, FsJoin, FsDelay, FsInput, FsStutter DEF FullscreenNext

(* For any number of instances and events: is_fullscreen of an instance    *)
(* agrees with the thread of ppb_flash_fullscreen.c about who has the      *)
(* window, delay_thread sends no message to a window that is gone, and a   *)
(* frame drawn in full screen gets its GraphicsExpose though the window    *)
(* goes, unless that is still unread; one that is left over for the next   *)
(* window takes nothing from that window's frames.                         *)
THEOREM FullscreenIsConsistentCorrect == FullscreenSpec => []FullscreenIsConsistent
<1>1. FullscreenInit => FullscreenInv
  BY FsInitInv
<1>2. FullscreenInv /\ [FullscreenNext]_fsVars => FullscreenInv'
  BY FsNextInv
<1>3. FullscreenInv => FullscreenIsConsistent
  BY DEF FullscreenInv, FullscreenIsConsistent
<1> QED
  BY <1>1, <1>2, <1>3, PTL DEF FullscreenSpec

-----------------------------------------------------------------------------
(* Instances: what else is true in every state. *)

X11Places == [at : {"poll", "barrier", "use"}, x : XEventOf \cup {NoXEvent}]
BrowserPlaces == {"idle", "new", "created", "register", "unregister", "destroy", "destroyed"}
InstTypes ==
  /\ inst \in [Insts -> InstType] /\ told \in [Insts -> {"no", "created", "destroyed"}]
  /\ browserAt \in [at : BrowserPlaces, inst : Insts \cup {NoInst}]
  /\ mainQ \in Seq(TaskType) /\ xq \in Seq(XEventOf) /\ asyncCalls \in Seq(XEventOf)
  /\ ht \subseteq Windows /\ socket_ht \subseteq Windows
  /\ pipe \in {"empty", "register", "unregister"}
  /\ x11At \in X11Places
  /\ x11At.at = "use" => x11At.x \in XEventOf
  /\ typeCall \in [inst : Insts \cup {NoInst}, text : BOOLEAN] /\ live \in Int
  /\ typeCall # NoTypeCall => typeCall.inst \in Insts
  /\ xButtons \in [Insts -> SUBSET (1 .. 3)] /\ pressed \in [Insts -> SUBSET (0 .. 3)]
  /\ full \subseteq Insts /\ steady \subseteq Insts

(* The plugin has the instances it was told of. *)
ToldIsKnown ==
  /\ strayCall = FALSE
  /\ \A i \in Insts : told[i] = "created" <=> inst[i].in_table /\ inst[i].interfaces

(* The browser's thread waits for the one task it has posted. *)
Waited == {"create", "destroy"}
OneTaskIsWaitedFor ==
  \A j, k \in 1 .. Len(mainQ) :
    mainQ[j].kind \in Waited =>
      /\ mainQ[j].inst = browserAt.inst
      /\ browserAt.at = IF mainQ[j].kind = "create" THEN "new" ELSE "destroy"
      /\ mainQ[k].kind \in Waited => j = k

(* Everything that leads to a call of the plugin but DidCreate comes from  *)
(* an instance whose interfaces were found.                                *)
TasksOfTheCreated ==
  /\ \A k \in 1 .. Len(mainQ) : mainQ[k].kind # "create" => inst[mainQ[k].inst].interfaces
  /\ \A w \in ht \cup socket_ht : inst[w.inst].interfaces
  /\ \A i \in Insts : inst[i].instance_loaded \/ i \in full => inst[i].interfaces

(* What an instance is, and what the browser's thread is doing with it. *)
LifeOf(i) ==
  /\ inst[i].mem = "none" => ~inst[i].interfaces /\ told[i] = "no"
  /\ inst[i].in_table => inst[i].mem = "alive"
  /\ browserAt.inst = i =>
       /\ inst[i].mem = "alive"
       /\ browserAt.at = "new" => inst[i].in_table /\ ~inst[i].interfaces /\ told[i] = "no"
       /\ browserAt.at = "destroyed" => ~inst[i].in_table
       /\ browserAt.at \in {"register", "unregister", "destroy"} => inst[i].interfaces
       /\ browserAt.at \in {"register", "unregister"} => inst[i].wnd \in Wins
LifeOfInstance ==
  /\ browserAt.at = "idle" <=> browserAt.inst = NoInst
  /\ \A i \in Insts : LifeOf(i)

(* The command in task_pipe is the one its sender waits for. *)
PipeOfBrowser == pipe # "empty" => browserAt.at = pipe

CallsInv ==
  /\ InstTypes /\ ToldIsKnown
  /\ OneTaskIsWaitedFor /\ TasksOfTheCreated /\ LifeOfInstance /\ PipeOfBrowser

(* The last window of an instance that is registered keeps its instance,   *)
(* unless it is embedded; the event thread works on registered ones.       *)
KeepsInstance(w) ==
  /\ inst[w.inst].windowed_mode
  /\ ~inst[w.inst].use_xembed /\ inst[w.inst].wnd = w.no =>
       /\ inst[w.inst].mem = "alive"
       /\ browserAt.inst = w.inst => browserAt.at \notin {"destroy", "destroyed"}
WindowsHaveInstances ==
  /\ \A w \in ht : KeepsInstance(w)
  /\ x11At.at = "use" => x11At.x.wnd \in ht

(* An input method is that of an instance which is not being made or destroyed. *)
MethodsHaveInstances ==
  \A i \in Insts :
    inst[i].im_context => inst[i].mem = "alive" /\ (browserAt.inst = i => browserAt.at = "register")

(* A call for the input method was made for an instance that is not being destroyed. *)
TypesInTime ==
  typeCall # NoTypeCall =>
    /\ told[typeCall.inst] # "no" /\ typeCall.inst \in Insts
    /\ browserAt.at \notin {"unregister", "destroy", "destroyed"}

ThreadParts == MethodsHaveInstances /\ WindowsHaveInstances /\ TypesInTime
ThreadInv == CallsInv /\ ThreadParts

-----------------------------------------------------------------------------
(* The operators of Instances and InputEvents. *)

(* The events made of an X event are input events. *)
LEMMA SeqOfOne ==
  ASSUME NEW S, NEW a \in S
  PROVE  << a >> \in Seq(S) /\ Len(<< a >>) = 1 /\ << a >>[1] = a
OBVIOUS

LEMMA SeqOfTwo ==
  ASSUME NEW S, NEW s \in Seq(S), NEW t \in Seq(S)
  PROVE  s \o t \in Seq(S)
OBVIOUS

LEMMA EventsAre ==
  ASSUME NEW t \in InputEventTypes, NEW b \in 0 .. 3
  PROVE  /\ << ppb_mouse_input_event_create(t, b) >> \in Seq(InputEvent)
         /\ << ppb_wheel_input_event_create >> \in Seq(InputEvent)
         /\ << ppb_keyboard_input_event_create(t) >> \in Seq(InputEvent)
         /\ << ppb_ime_input_event_create(t) >> \in Seq(InputEvent)
<1>1. /\ ppb_mouse_input_event_create(t, b) \in InputEvent
      /\ ppb_wheel_input_event_create \in InputEvent
      /\ ppb_keyboard_input_event_create(t) \in InputEvent
      /\ ppb_ime_input_event_create(t) \in InputEvent
  BY DEF ppb_mouse_input_event_create, ppb_wheel_input_event_create, ppb_keyboard_input_event_create,
         ppb_ime_input_event_create, InputEvent, Classes, InputEventTypes, NoButton
<1> QED
  BY <1>1, SeqOfOne

LEMMA ButtonInput ==
  ASSUME NEW e, NEW mask \in SUBSET Classes
  PROVE  handle_button_press_release_event(e, mask) \in Seq(InputEvent)
<1>1. <<>> \in Seq(InputEvent)
  OBVIOUS
<1>2. "WHEEL" \in InputEventTypes /\ "MOUSEDOWN" \in InputEventTypes /\ "MOUSEUP" \in InputEventTypes
      /\ "CONTEXTMENU" \in InputEventTypes /\ 3 \in 0 .. 3
  BY DEF InputEventTypes
<1>3. << ppb_wheel_input_event_create >> \in Seq(InputEvent)
  BY <1>2, EventsAre
<1>4. CASE ButtonClass(e.button) \in mask /\ ButtonClass(e.button) # "WHEEL"
  <2>1. e.button \in 0 .. 3
    BY <1>4 DEF ButtonClass, Classes
  <2>2. /\ << ppb_mouse_input_event_create("MOUSEDOWN", e.button) >> \in Seq(InputEvent)
        /\ << ppb_mouse_input_event_create("MOUSEUP", e.button) >> \in Seq(InputEvent)
        /\ << ppb_mouse_input_event_create("CONTEXTMENU", 3) >> \in Seq(InputEvent)
    BY <1>2, <2>1, EventsAre, Zenon
  <2>3. /\ << ppb_mouse_input_event_create("MOUSEUP", e.button) >>
             \o << ppb_mouse_input_event_create("CONTEXTMENU", 3) >> \in Seq(InputEvent)
        /\ << ppb_mouse_input_event_create("MOUSEUP", e.button) >> \o <<>> \in Seq(InputEvent)
    BY <1>1, <2>2, SeqOfTwo, Zenon
  <2> QED
    BY <1>4, <2>2, <2>3, Zenon DEF handle_button_press_release_event
<1>5. CASE ButtonClass(e.button) \notin mask \/ ButtonClass(e.button) = "WHEEL"
  BY <1>1, <1>3, <1>5, Zenon DEF handle_button_press_release_event
<1> QED
  BY <1>4, <1>5

LEMMA KeyInput ==
  ASSUME NEW e, NEW mask \in SUBSET Classes, NEW im, NEW filter \in FilterResults
  PROVE  handle_key_press_release_event(e, mask, im, filter) \in Seq(InputEvent)
<1>1. <<>> \in Seq(InputEvent)
  OBVIOUS
<1>2. ASSUME NEW t \in InputEventTypes
      PROVE  /\ << ppb_keyboard_input_event_create(t) >> \in Seq(InputEvent)
             /\ << ppb_ime_input_event_create(t) >> \in Seq(InputEvent)
  BY 0 \in 0 .. 3, EventsAre
<1>3. "KEYDOWN" \in InputEventTypes /\ "KEYUP" \in InputEventTypes /\ "CHAR" \in InputEventTypes
  BY DEF InputEventTypes
<1>4. im_preedit_start \in Seq(InputEvent) /\ im_preedit_changed \in Seq(InputEvent)
  BY <1>2 DEF im_preedit_start, im_preedit_changed, InputEventTypes
<1>5. im_commit \in Seq(InputEvent)
  <2>1. /\ ppb_ime_input_event_create("IME_COMPOSITION_END") \in InputEvent
        /\ ppb_ime_input_event_create("IME_TEXT") \in InputEvent
    BY DEF ppb_ime_input_event_create, InputEvent, Classes, InputEventTypes, NoButton
  <2> QED
    BY <2>1 DEF im_commit
<1>6. im_preedit_start \o im_preedit_changed \in Seq(InputEvent)
  BY <1>4, SeqOfTwo
<1>7. filter.said \in Seq(InputEvent)
  <2>1. CASE filter = [stop |-> FALSE, said |-> <<>>]
    <3>1. filter.said = <<>>
      BY <2>1
    <3> QED
      BY <1>1, <3>1, Zenon
  <2>2. ASSUME NEW s \in Seq(InputEvent), filter = [stop |-> TRUE, said |-> s]
        PROVE  filter.said \in Seq(InputEvent)
    BY <2>2
  <2>3. \/ filter = [stop |-> FALSE, said |-> <<>>]
        \/ \E s \in {im_preedit_start \o im_preedit_changed, im_preedit_changed, im_commit} :
             filter = [stop |-> TRUE, said |-> s]
    BY Zenon DEF FilterResults
  <2> QED
    BY <1>4, <1>5, <1>6, <2>1, <2>2, <2>3, Zenon
<1>8. ASSUME NEW t \in {"KEYDOWN", "KEYUP"}
      PROVE  /\ << ppb_keyboard_input_event_create(t) >> \o << ppb_keyboard_input_event_create("CHAR") >>
                  \in Seq(InputEvent)
             /\ << ppb_keyboard_input_event_create(t) >> \o <<>> \in Seq(InputEvent)
  BY <1>1, <1>2, <1>3, SeqOfTwo, Zenon
<1> QED
  BY <1>1, <1>7, <1>8, Zenon DEF handle_key_press_release_event

LEMMA InputIs ==
  ASSUME NEW e, NEW mask \in SUBSET Classes, NEW im, NEW filter \in FilterResults
  PROVE  InputOf(e, mask, im, filter) \in Seq(InputEvent)
<1>1. <<>> \in Seq(InputEvent)
  OBVIOUS
<1>2. /\ "MOUSEENTER" \in InputEventTypes /\ "MOUSELEAVE" \in InputEventTypes
      /\ "MOUSEMOVE" \in InputEventTypes /\ NoButton \in 0 .. 3
  BY DEF InputEventTypes, NoButton
<1>3. /\ << ppb_mouse_input_event_create("MOUSEENTER", NoButton) >> \in Seq(InputEvent)
      /\ << ppb_mouse_input_event_create("MOUSELEAVE", NoButton) >> \in Seq(InputEvent)
      /\ << ppb_mouse_input_event_create("MOUSEMOVE", NoButton) >> \in Seq(InputEvent)
  BY <1>2, EventsAre, Zenon
<1>4. handle_enter_leave_event(e, mask) \in Seq(InputEvent)
  BY <1>1, <1>3, Zenon DEF handle_enter_leave_event
<1>5. handle_motion_event(mask) \in Seq(InputEvent)
  BY <1>1, <1>3, Zenon DEF handle_motion_event
<1>6. /\ handle_button_press_release_event(e, mask) \in Seq(InputEvent)
      /\ handle_key_press_release_event(e, mask, im, filter) \in Seq(InputEvent)
  BY ButtonInput, KeyInput
<1> HIDE DEF handle_enter_leave_event, handle_motion_event, handle_button_press_release_event,
             handle_key_press_release_event
<1> QED
  BY <1>1, <1>4, <1>5, <1>6 DEF InputOf, CrossingTypes, ButtonTypes, KeyTypes

(* A converted event adds to the queue nothing that is waited for. *)
LEMMA ConvertedIs ==
  ASSUME NEW i \in Insts, NEW e, NEW filter \in FilterResults, Converted(i, e, filter),
         inst \in [Insts -> InstType], mainQ \in Seq(TaskType), live \in Int
  PROVE  /\ live' \in Int
         /\ \E s \in Seq(TaskType) :
              /\ mainQ' = mainQ \o s
              /\ \A k \in 1 .. Len(s) : s[k].inst = i /\ s[k].kind \notin Waited
<1> DEFINE made == InputOf(e, inst[i].mask, inst[i].im_context, filter)
           tasks == IF e.type \in FocusTypes THEN << Task("focus", i, NoEvent) >>
                    ELSE [k \in 1 .. Len(made) |-> Task("input", i, made[k])]
<1>2. made \in Seq(InputEvent)
  <2>1. inst[i].mask \in SUBSET Classes
    BY DEF InstType
  <2> QED
    BY <2>1, InputIs
<1>3. live' = live + Len(made) /\ mainQ' = mainQ \o tasks
  BY DEF Converted
<1> HIDE DEF made
<1>4. live' \in Int
  BY <1>2, <1>3
<1>5. ASSUME NEW kind \in {"input", "focus"}, NEW ie \in InputEvent \cup {NoEvent}
      PROVE  /\ Task(kind, i, ie) \in TaskType
             /\ Task(kind, i, ie).inst = i /\ Task(kind, i, ie).kind \notin Waited
  BY DEF Task, TaskType, Waited
<1>6. /\ tasks \in Seq(TaskType)
      /\ \A k \in 1 .. Len(tasks) : tasks[k].inst = i /\ tasks[k].kind \notin Waited
  <2>1. CASE e.type \in FocusTypes
    <3>1. tasks = << Task("focus", i, NoEvent) >>
      BY <2>1
    <3> HIDE DEF tasks
    <3> QED
      BY <3>1, <1>5
  <2>2. CASE e.type \notin FocusTypes
    <3>1. tasks = [k \in 1 .. Len(made) |-> Task("input", i, made[k])]
      BY <2>2
    <3>2. \A k \in 1 .. Len(made) : made[k] \in InputEvent
      BY <1>2
    <3>3. Len(made) \in Nat
      BY <1>2
    <3>4. /\ DOMAIN tasks = 1 .. Len(made)
          /\ \A k \in 1 .. Len(made) : /\ tasks[k] \in TaskType
                                       /\ tasks[k].inst = i /\ tasks[k].kind \notin Waited
      BY <3>1, <3>2, <1>5
    <3>5. tasks \in [1 .. Len(made) -> TaskType]
      BY <3>1, <3>4
    <3> HIDE DEF tasks
    <3>6. tasks \in Seq(TaskType) /\ Len(tasks) = Len(made)
      BY <3>3, <3>5
    <3> QED
      BY <3>4, <3>6
  <2> QED
    BY <2>1, <2>2
<1> QED
  BY <1>3, <1>4, <1>6

(* What a step does to the queue of the plugin's thread: it takes the      *)
(* first task, adds one, or adds the tasks of an event of i.               *)
QueueTakes(kind) ==
  /\ mainQ' \in Seq(TaskType) /\ Len(mainQ) > 0 /\ Len(mainQ') = Len(mainQ) - 1
  /\ mainQ[1] \in TaskType /\ Head(mainQ) = mainQ[1] /\ mainQ[1].kind = kind
  /\ \A k \in 1 .. Len(mainQ') : mainQ'[k] = mainQ[k + 1]
QueueAdds(kind, i) ==
  /\ mainQ' \in Seq(TaskType) /\ Len(mainQ') = Len(mainQ) + 1
  /\ \A k \in 1 .. Len(mainQ) : mainQ'[k] = mainQ[k]
  /\ mainQ'[Len(mainQ) + 1].kind = kind /\ mainQ'[Len(mainQ) + 1].inst = i
QueueExtends(i) ==
  /\ mainQ' \in Seq(TaskType) /\ Len(mainQ') >= Len(mainQ)
  /\ \A k \in 1 .. Len(mainQ) : mainQ'[k] = mainQ[k]
  /\ \A k \in Len(mainQ) + 1 .. Len(mainQ') : mainQ'[k].inst = i /\ mainQ'[k].kind \notin Waited

LEMMA NextTaskIs ==
  ASSUME mainQ \in Seq(TaskType), NEW kind, NextTask(kind)
  PROVE  QueueTakes(kind)
<1>1. Len(mainQ) > 0 /\ mainQ' = Tail(mainQ) /\ Head(mainQ) = mainQ[1] /\ mainQ[1].kind = kind
  BY DEF NextTask
<1>2. mainQ' \in Seq(TaskType) /\ Len(mainQ') = Len(mainQ) - 1
  BY <1>1
<1> QED
  BY <1>1, <1>2 DEF QueueTakes

LEMMA PostIs ==
  ASSUME mainQ \in Seq(TaskType), NEW kind \in {"create", "destroy", "view", "focus", "input"},
         NEW i \in Insts, Post(kind, i)
  PROVE  QueueAdds(kind, i)
<1>1. /\ Task(kind, i, NoEvent) \in TaskType
      /\ Task(kind, i, NoEvent).kind = kind /\ Task(kind, i, NoEvent).inst = i
  BY DEF Task, TaskType
<1>2. mainQ' = Append(mainQ, Task(kind, i, NoEvent))
  BY DEF Post
<1> HIDE DEF Task
<1> QED
  BY <1>1, <1>2 DEF QueueAdds

LEMMA ConvertedExtends ==
  ASSUME NEW i \in Insts, NEW e, NEW filter \in FilterResults, Converted(i, e, filter),
         inst \in [Insts -> InstType], mainQ \in Seq(TaskType), live \in Int
  PROVE  live' \in Int /\ QueueExtends(i)
<1>1. PICK s \in Seq(TaskType) :
         /\ mainQ' = mainQ \o s
         /\ \A k \in 1 .. Len(s) : s[k].inst = i /\ s[k].kind \notin Waited
  BY ConvertedIs
<1>2. mainQ' \in Seq(TaskType) /\ Len(mainQ') = Len(mainQ) + Len(s)
  BY <1>1
<1>3. \A k \in 1 .. Len(mainQ) : mainQ'[k] = mainQ[k]
  BY <1>1
<1>4. \A k \in Len(mainQ) + 1 .. Len(mainQ') : mainQ'[k] = s[k - Len(mainQ)]
  BY <1>1, <1>2
<1>5. \A k \in Len(mainQ) + 1 .. Len(mainQ') : mainQ'[k].inst = i /\ mainQ'[k].kind \notin Waited
  BY <1>1, <1>2, <1>4
<1> QED
  BY <1>2, <1>3, <1>5, ConvertedIs DEF QueueExtends

LEMMA QueueStays ==
  ASSUME NEW i, mainQ \in Seq(TaskType), UNCHANGED mainQ
  PROVE  QueueExtends(i)
<1>1. Len(mainQ) \in Nat
  OBVIOUS
<1>2. Len(mainQ) + 1 .. Len(mainQ) = {}
  BY <1>1
<1> QED
  BY <1>1, <1>2 DEF QueueExtends

LEMMA HandleEventIs ==
  ASSUME NEW i \in Insts, NEW e, NPP_HandleEvent(i, e), inst \in [Insts -> InstType],
         mainQ \in Seq(TaskType), live \in Int
  PROVE  live' \in Int /\ QueueExtends(i)
<1>1. CASE UNCHANGED <<live, mainQ>>
  BY <1>1, QueueStays
<1>2. CASE \E filter \in FilterResults : Converted(i, e, filter)
  BY <1>2, ConvertedExtends
<1> QED
  BY <1>1, <1>2 DEF NPP_HandleEvent

LEMMA ViewIs ==
  ASSUME NEW i \in Insts, PostView(i), mainQ \in Seq(TaskType)
  PROVE  QueueExtends(i)
<1>1. CASE UNCHANGED mainQ
  BY <1>1, QueueStays
<1>2. CASE Post("view", i)
  <2>1. QueueAdds("view", i) /\ Len(mainQ) \in Nat
    BY <1>2, PostIs
  <2>2. \A k \in Len(mainQ) + 1 .. Len(mainQ') : k = Len(mainQ) + 1
    BY <2>1 DEF QueueAdds
  <2> QED
    BY <2>1, <2>2 DEF QueueAdds, QueueExtends, Waited
<1> QED
  BY <1>1, <1>2 DEF PostView

(* A window is known by its instance and its number. *)
LEMMA WindowIs ==
  ASSUME NEW w \in Windows, w.no = inst[w.inst].wnd
  PROVE  w = WindowOf(w.inst)
BY DEF Windows, WindowOf

LEMMA InstWindowRecord ==
  ASSUME NEW q \in InstType, NEW n \in Wins
  PROVE  [q EXCEPT !.wnd = n] \in InstType
BY DEF InstType

(* What a step does to the struct of instance i, and to the browser's thread. *)
OnlyInst(i) == inst' \in [Insts -> InstType] /\ \A j \in Insts \ {i} : inst'[j] = inst[j]
\* The fields the invariants speak of, but those a lemma gives.
SameWindow(i) ==
  /\ inst'[i].windowed_mode = inst[i].windowed_mode /\ inst'[i].use_xembed = inst[i].use_xembed
  /\ inst'[i].wnd = inst[i].wnd
BrowserGets(step, i) ==
  /\ browserAt' \in [at : BrowserPlaces, inst : Insts \cup {NoInst}]
  /\ browserAt'.at = step /\ browserAt'.inst = i

LEMMA BrowserGoesTo ==
  ASSUME NEW step \in BrowserPlaces, NEW i \in Insts \cup {NoInst}, BrowserGoes(step, i)
  PROVE  BrowserGets(step, i)
BY DEF BrowserGoes, BrowserGets
-----------------------------------------------------------------------------
(* Instances: every step keeps CallsInv, and ThreadInv while no call for   *)
(* the input method is late.                                               *)

(* What the steps read of the types. *)
LEMMA InstIs ==
  ASSUME CallsInv
  PROVE  /\ inst \in [Insts -> InstType] /\ told \in [Insts -> {"no", "created", "destroyed"}]
         /\ browserAt.at \in BrowserPlaces /\ browserAt.inst \in Insts \cup {NoInst}
         /\ mainQ \in Seq(TaskType) /\ Len(mainQ) \in Nat
         /\ \A k \in 1 .. Len(mainQ) : mainQ[k].inst \in Insts
         /\ xq \in Seq(XEventOf) /\ asyncCalls \in Seq(XEventOf)
         /\ ht \subseteq Windows /\ socket_ht \subseteq Windows
         /\ \A w \in Windows : w.inst \in Insts
         /\ full \subseteq Insts
         /\ x11At \in X11Places /\ pipe \in {"empty", "register", "unregister"}
         /\ ToldIsKnown /\ OneTaskIsWaitedFor /\ TasksOfTheCreated /\ LifeOfInstance /\ PipeOfBrowser
<1>1. InstTypes
  BY DEF CallsInv
<1>2. \A k \in 1 .. Len(mainQ) : mainQ[k].inst \in Insts
  <2>1. mainQ \in Seq(TaskType)
    BY <1>1 DEF InstTypes
  <2>2. \A k \in 1 .. Len(mainQ) : mainQ[k] \in TaskType
    BY <2>1
  <2> QED
    BY <2>2 DEF TaskType
<1>3. \A w \in Windows : w.inst \in Insts
  BY DEF Windows
<1> QED
  BY <1>1, <1>2, <1>3 DEF CallsInv, InstTypes

(* A task the browser's thread will wait for is posted when there is none, and nobody *)
(* waits for the others.                                                              *)
LEMMA WaitsForNone ==
  ASSUME CallsInv, browserAt.at \notin {"new", "destroy"}
  PROVE  \A k \in 1 .. Len(mainQ) : mainQ[k].kind \notin Waited
BY InstIs DEF OneTaskIsWaitedFor

LEMMA QueueOf ==
  ASSUME CallsInv, NEW i, QueueExtends(i)
  PROVE  \A k \in 1 .. Len(mainQ') :
           \/ k \in 1 .. Len(mainQ) /\ mainQ'[k] = mainQ[k]
           \/ mainQ'[k].inst = i /\ mainQ'[k].kind \notin Waited
BY InstIs DEF QueueExtends

LEMMA WaitsForNoneYet ==
  ASSUME CallsInv, browserAt.at \notin {"new", "destroy"}, NEW i, QueueExtends(i)
  PROVE  OneTaskIsWaitedFor'
BY WaitsForNone, QueueOf DEF OneTaskIsWaitedFor

LEMMA TasksExtended ==
  ASSUME CallsInv, NEW i \in Insts, QueueExtends(i), inst[i].interfaces,
         \A j \in Insts : inst'[j].interfaces = inst[j].interfaces
  PROVE  \A k \in 1 .. Len(mainQ') : mainQ'[k].kind # "create" => inst'[mainQ'[k].inst].interfaces
<1>1. \A k \in 1 .. Len(mainQ) : mainQ[k].inst \in Insts /\ (mainQ[k].kind # "create" => inst[mainQ[k].inst].interfaces)
  BY InstIs DEF TasksOfTheCreated
<1> QED
  BY <1>1, QueueOf

LEMMA WaitsForOne ==
  ASSUME CallsInv, browserAt.at \notin {"new", "destroy"}, NEW i, NEW kind \in Waited,
         QueueAdds(kind, i),
         browserAt'.inst = i, browserAt'.at = IF kind = "create" THEN "new" ELSE "destroy"
  PROVE  OneTaskIsWaitedFor'
<1>1. \A k \in 1 .. Len(mainQ') : k # Len(mainQ) + 1 => mainQ'[k].kind \notin Waited
  <2>1. \A k \in 1 .. Len(mainQ') :
          k # Len(mainQ) + 1 => k \in 1 .. Len(mainQ) /\ mainQ'[k] = mainQ[k]
    BY InstIs DEF QueueAdds
  <2>2. \A k \in 1 .. Len(mainQ) : mainQ[k].kind \notin Waited
    BY WaitsForNone
  <2> QED
    BY <2>1, <2>2, Zenon
<1>2. mainQ'[Len(mainQ) + 1].kind = kind /\ mainQ'[Len(mainQ) + 1].inst = i
  BY DEF QueueAdds
<1> QED
  BY <1>1, <1>2 DEF OneTaskIsWaitedFor

LEMMA WaitsForNoMore ==
  ASSUME \A k \in 1 .. Len(mainQ') : mainQ'[k].kind \notin Waited
  PROVE  OneTaskIsWaitedFor'
BY DEF OneTaskIsWaitedFor

LEMMA InstRecords ==
  ASSUME NEW q \in InstType, NEW b \in BOOLEAN, NEW c \in BOOLEAN, NEW m \in SUBSET Classes
  PROVE  /\ [q EXCEPT !.mem = "alive", !.npp = TRUE, !.in_table = TRUE,
                       !.windowed_mode = b, !.use_xembed = c] \in InstType
         /\ [q EXCEPT !.in_table = FALSE, !.npp = FALSE] \in InstType
         /\ [q EXCEPT !.mem = "freed"] \in InstType
         /\ [q EXCEPT !.instance_loaded = b] \in InstType
         /\ [q EXCEPT !.interfaces = b] \in InstType
         /\ [q EXCEPT !.im_context = b] \in InstType
         /\ [q EXCEPT !.mask = m] \in InstType
<1>1. [q EXCEPT !.mem = "alive", !.npp = TRUE, !.in_table = TRUE,
                !.windowed_mode = b, !.use_xembed = c] \in InstType
  BY DEF InstType
<1>2. [q EXCEPT !.in_table = FALSE, !.npp = FALSE] \in InstType /\ [q EXCEPT !.mem = "freed"] \in InstType
  BY DEF InstType
<1>3. [q EXCEPT !.instance_loaded = b] \in InstType /\ [q EXCEPT !.interfaces = b] \in InstType
  BY DEF InstType
<1>4. [q EXCEPT !.im_context = b] \in InstType /\ [q EXCEPT !.mask = m] \in InstType
  BY DEF InstType
<1> QED
  BY <1>1, <1>2, <1>3, <1>4

(* Another struct for instance i. *)
LEMMA InstBecomes ==
  ASSUME inst \in [Insts -> InstType], NEW i \in Insts, NEW r \in InstType,
         inst' = [inst EXCEPT ![i] = r]
  PROVE  OnlyInst(i) /\ inst'[i] = r
BY DEF OnlyInst

LEMMA InstNew ==
  ASSUME CallsInv, NEW i \in Insts, NPP_New(i)
  PROVE  CallsInv' /\ (ThreadParts => ThreadParts')
<1> USE InstanceBoundsAssumption, InstIs
<1>1. /\ browserAt.at = "idle" /\ inst[i].mem = "none" /\ QueueAdds("create", i) /\ BrowserGets("new", i)
  BY PostIs, BrowserGoesTo DEF NPP_New, Browser, BrowserPlaces
<1>2. /\ OnlyInst(i) /\ inst'[i].mem = "alive" /\ inst'[i].in_table
      /\ inst'[i].interfaces = inst[i].interfaces /\ inst'[i].instance_loaded = inst[i].instance_loaded
      /\ inst'[i].im_context = inst[i].im_context
  <2>1. PICK windowed, xembed \in BOOLEAN :
          inst' = [inst EXCEPT ![i] =
            [inst[i] EXCEPT !.mem = "alive", !.npp = TRUE, !.in_table = TRUE,
                            !.windowed_mode = windowed, !.use_xembed = windowed /\ xembed]]
    BY DEF NPP_New
  <2> DEFINE r == [inst[i] EXCEPT !.mem = "alive", !.npp = TRUE, !.in_table = TRUE,
                                  !.windowed_mode = windowed, !.use_xembed = windowed /\ xembed]
  <2>2. r \in InstType
    <3>1. PICK x \in BOOLEAN : x = (windowed /\ xembed)
      BY Zenon
    <3>2. [inst[i] EXCEPT !.mem = "alive", !.npp = TRUE, !.in_table = TRUE,
                          !.windowed_mode = windowed, !.use_xembed = x] \in InstType
      BY inst[i] \in InstType, {} \in SUBSET Classes, InstRecords
    <3> QED
      BY <3>1, <3>2
  <2>3. /\ r.mem = "alive" /\ r.in_table /\ r.interfaces = inst[i].interfaces
        /\ r.instance_loaded = inst[i].instance_loaded /\ r.im_context = inst[i].im_context
    BY DEF InstType
  <2> HIDE DEF r
  <2> QED
    BY <2>1, <2>2, <2>3, InstBecomes DEF r
<1>3. UNCHANGED <<told, strayCall, ht, socket_ht, pipe, x11At, xq, asyncCalls,
                  typeCall, live, full, xButtons, pressed, steady>>
  BY DEF NPP_New, x11Vars, inputVars
<1> USE DEF QueueAdds, OnlyInst, BrowserGets
<1>4. InstTypes'
  BY <1>1, <1>2, <1>3 DEF CallsInv, InstTypes
<1>5. ToldIsKnown'
  BY <1>1, <1>2, <1>3 DEF ToldIsKnown, LifeOfInstance, LifeOf
<1>6. OneTaskIsWaitedFor'
  BY <1>1, WaitsForOne DEF Waited
<1>7. TasksOfTheCreated'
  <2>1. \A j \in Insts : /\ inst'[j].interfaces = inst[j].interfaces
                         /\ inst'[j].instance_loaded = inst[j].instance_loaded
    BY <1>2
  <2>2. \A k \in 1 .. Len(mainQ') : mainQ'[k].kind # "create" =>
          k \in 1 .. Len(mainQ) /\ mainQ'[k] = mainQ[k]
    BY <1>1
  <2> QED
    BY <1>3, <2>1, <2>2, ZenonT(60) DEF TasksOfTheCreated
<1>8. LifeOfInstance' /\ PipeOfBrowser'
  <2>1. LifeOf(i)'
    BY <1>1, <1>2, <1>3 DEF LifeOfInstance, LifeOf
  <2>2. ASSUME NEW j \in Insts \ {i} PROVE LifeOf(j)'
    BY <1>1, <1>2, <1>3 DEF LifeOfInstance, LifeOf
  <2> QED
    BY <1>1, <1>3, <2>1, <2>2 DEF LifeOfInstance, PipeOfBrowser
<1>9. ASSUME ThreadParts PROVE ThreadParts'
  <2>1. \A w \in ht : w.inst \in Insts \ {i}
    <3>1. ~inst[i].interfaces
      BY <1>1 DEF LifeOfInstance, LifeOf
    <3> QED
      BY <3>1 DEF TasksOfTheCreated
  <2>2a. MethodsHaveInstances'
    <3>1. ~inst[i].im_context
      BY <1>1, <1>9 DEF ThreadParts, MethodsHaveInstances
    <3>2. \A j \in Insts : inst'[j].im_context = inst[j].im_context
      BY <1>2
    <3>3. \A j \in Insts : inst[j].im_context => inst[j].mem = "alive" /\ j # i
      BY <1>9, <3>1 DEF ThreadParts, MethodsHaveInstances
    <3> QED
      BY <1>1, <1>2, <3>2, <3>3 DEF MethodsHaveInstances
  <2>2b. WindowsHaveInstances'
    <3>1. ASSUME NEW w \in ht PROVE KeepsInstance(w)'
      <4>1. w.inst \in Insts \ {i} /\ KeepsInstance(w)
        BY <1>9, <2>1 DEF ThreadParts, WindowsHaveInstances
      <4> QED
        BY <1>1, <1>2, <4>1 DEF KeepsInstance
    <3> QED
      BY <1>3, <1>9, <3>1 DEF ThreadParts, WindowsHaveInstances
  <2>3. TypesInTime'
    BY <1>1, <1>2, <1>3, <1>9 DEF ThreadParts, TypesInTime
  <2> QED
    BY <2>2a, <2>2b, <2>3 DEF ThreadParts
<1> QED
  BY <1>4, <1>5, <1>6, <1>7, <1>8, <1>9 DEF CallsInv

LEMMA InstNewReturns ==
  ASSUME CallsInv, NPP_NewReturns
  PROVE  CallsInv' /\ (ThreadParts => ThreadParts')
<1> USE InstanceBoundsAssumption, InstIs
<1>1. PICK i \in Insts : i = browserAt.inst
  BY DEF NPP_NewReturns, Browser, LifeOfInstance, LifeOf
<1>2. browserAt.at = "created" /\ BrowserGets("idle", NoInst)
  BY BrowserGoesTo DEF NPP_NewReturns, Browser, BrowserPlaces
<1>3. /\ OnlyInst(i) /\ inst'[i].mem = inst[i].mem /\ inst'[i].in_table = inst[i].in_table
      /\ inst'[i].interfaces = inst[i].interfaces /\ inst'[i].instance_loaded = inst[i].interfaces
      /\ inst'[i].im_context = inst[i].im_context /\ SameWindow(i)
  <2>1. inst' = [inst EXCEPT ![i].instance_loaded = inst[i].interfaces]
    BY <1>1 DEF NPP_NewReturns
  <2> DEFINE r == [inst[i] EXCEPT !.instance_loaded = inst[i].interfaces]
  <2>2. inst[i] \in InstType /\ inst[i].interfaces \in BOOLEAN
    BY DEF InstType
  <2>3. /\ r.mem = inst[i].mem /\ r.in_table = inst[i].in_table
        /\ r.interfaces = inst[i].interfaces /\ r.instance_loaded = inst[i].interfaces
        /\ r.im_context = inst[i].im_context
        /\ r.windowed_mode = inst[i].windowed_mode /\ r.use_xembed = inst[i].use_xembed
        /\ r.wnd = inst[i].wnd
    BY <2>2 DEF InstType
  <2>4. r \in InstType
    BY <2>2, {} \in SUBSET Classes, InstRecords
  <2>5. inst' = [inst EXCEPT ![i] = r]
    BY <2>1
  <2> HIDE DEF r
  <2> QED
    BY <2>3, <2>4, <2>5, InstBecomes DEF SameWindow
<1>4. UNCHANGED <<told, strayCall, mainQ, ht, socket_ht, pipe, x11At, xq, asyncCalls,
                  typeCall, live, full, xButtons, pressed, steady>>
  BY DEF NPP_NewReturns, x11Vars, inputVars
<1> USE DEF OnlyInst, BrowserGets, SameWindow
<1>5. InstTypes'
  BY <1>2, <1>3, <1>4 DEF CallsInv, InstTypes
<1>6. ToldIsKnown' /\ LifeOfInstance' /\ PipeOfBrowser'
  <2>1. \A j \in Insts : /\ inst'[j].mem = inst[j].mem /\ inst'[j].in_table = inst[j].in_table
                         /\ inst'[j].interfaces = inst[j].interfaces
    BY <1>3
  <2>2. ToldIsKnown'
    BY <1>4, <2>1 DEF ToldIsKnown
  <2>3. ASSUME NEW j \in Insts PROVE LifeOf(j)'
    BY <1>2, <1>4, <2>1 DEF LifeOfInstance, LifeOf
  <2> QED
    BY <1>2, <1>4, <2>2, <2>3 DEF LifeOfInstance, PipeOfBrowser
<1>7. OneTaskIsWaitedFor'
  BY <1>2, <1>4 DEF OneTaskIsWaitedFor, Waited
<1>8. TasksOfTheCreated'
  BY <1>3, <1>4 DEF TasksOfTheCreated
<1>9. ASSUME ThreadParts PROVE ThreadParts'
  <2>1. MethodsHaveInstances'
    <3>1. \A j \in Insts : /\ inst'[j].mem = inst[j].mem /\ inst'[j].use_xembed = inst[j].use_xembed
                           /\ inst'[j].im_context = inst[j].im_context
      BY <1>3
    <3>2. \A j \in Insts : inst[j].im_context => inst[j].mem = "alive"
      BY <1>9 DEF ThreadParts, MethodsHaveInstances
    <3> QED
      BY <1>2, <1>4, <3>1, <3>2 DEF MethodsHaveInstances
  <2>2. WindowsHaveInstances'
    <3>1. ASSUME NEW w \in ht PROVE KeepsInstance(w)'
      <4>1. w.inst \in Insts /\ KeepsInstance(w)
        BY <1>9 DEF ThreadParts, WindowsHaveInstances
      <4> QED
        BY <1>2, <1>3, <4>1 DEF KeepsInstance
    <3> QED
      BY <1>4, <1>9, <3>1 DEF ThreadParts, WindowsHaveInstances
  <2>3. TypesInTime'
    BY <1>1, <1>2, <1>3, <1>4, <1>9 DEF ThreadParts, TypesInTime
  <2> QED
    BY <2>1, <2>2, <2>3 DEF ThreadParts
<1> QED
  BY <1>5, <1>6, <1>7, <1>8, <1>9 DEF CallsInv

LEMMA InstSetWindow ==
  ASSUME CallsInv, NEW i \in Insts, NEW n \in Wins, NPP_SetWindow(i, n)
  PROVE  CallsInv' /\ (ThreadParts => ThreadParts')
<1> USE InstanceBoundsAssumption, InstIs
<1> DEFINE w == [inst |-> i, no |-> n]
<1>1. /\ browserAt.at = "idle" /\ browserAt.inst = NoInst /\ inst[i].mem = "alive" /\ inst[i].interfaces
      /\ UNCHANGED <<told, strayCall, socket_ht, x11At, xq, asyncCalls,
                     typeCall, live, full, xButtons, pressed, steady>>
  BY DEF NPP_SetWindow, Browser, Loaded, inputVars, TasksOfTheCreated, LifeOfInstance
<1>2. w \in Windows /\ w.inst = i /\ w.no = n
  BY DEF Windows
<1>3. /\ inst' \in [Insts -> InstType]
      /\ \A j \in Insts : /\ inst'[j].mem = inst[j].mem /\ inst'[j].in_table = inst[j].in_table
                          /\ inst'[j].interfaces = inst[j].interfaces
                          /\ inst'[j].instance_loaded = inst[j].instance_loaded
                          /\ inst'[j].windowed_mode = inst[j].windowed_mode
                          /\ inst'[j].use_xembed = inst[j].use_xembed
                          /\ inst'[j].im_context = inst[j].im_context
                          /\ j # i => inst'[j].wnd = inst[j].wnd
      /\ inst[i].windowed_mode => inst'[i].wnd = n
  <2>1. CASE ~inst[i].windowed_mode
    BY <2>1 DEF NPP_SetWindow
  <2>2. CASE inst[i].windowed_mode
    <3> DEFINE r == [inst[i] EXCEPT !.wnd = n]
    <3>1. inst[i] \in InstType
      OBVIOUS
    <3>2. r \in InstType
      BY <3>1, InstWindowRecord
    <3>3. /\ r.mem = inst[i].mem /\ r.in_table = inst[i].in_table
          /\ r.interfaces = inst[i].interfaces /\ r.instance_loaded = inst[i].instance_loaded
          /\ r.windowed_mode = inst[i].windowed_mode /\ r.use_xembed = inst[i].use_xembed
          /\ r.im_context = inst[i].im_context /\ r.wnd = n
      BY <3>1 DEF InstType
    <3>4. inst' = [inst EXCEPT ![i] = r]
      BY <2>2 DEF NPP_SetWindow
    <3> HIDE DEF r
    <3>5. OnlyInst(i) /\ inst'[i] = r
      BY <3>2, <3>4, InstBecomes
    <3> QED
      BY <3>3, <3>5 DEF OnlyInst
  <2> QED
    BY <2>1, <2>2
<1>4. /\ QueueExtends(i) /\ ht' \subseteq ht \cup {w}
      /\ w \in ht' => w \in ht \/ inst[i].windowed_mode
      /\ \/ UNCHANGED <<pipe, browserAt>>
         \/ pipe' = "register" /\ BrowserGets("register", i) /\ inst[i].windowed_mode
  <2>1. CASE inst[i].windowed_mode /\ w \notin ht
    <3>1. ht' = ht \cup {w} /\ pipe' = "register" /\ BrowserGoes("register", i) /\ UNCHANGED mainQ
      BY <2>1 DEF NPP_SetWindow
    <3> QED
      BY <2>1, <3>1, BrowserGoesTo, QueueStays DEF BrowserPlaces
  <2>2. CASE ~(inst[i].windowed_mode /\ w \notin ht)
    <3>1. PostView(i) /\ UNCHANGED <<ht, pipe, browserAt>>
      BY <2>2 DEF NPP_SetWindow
    <3> QED
      BY <3>1, ViewIs
  <2> QED
    BY <2>1, <2>2
<1> HIDE DEF w
<1> USE DEF BrowserGets
<1>5. InstTypes'
  BY <1>1, <1>2, <1>3, <1>4 DEF CallsInv, InstTypes, QueueExtends
<1>6. ToldIsKnown' /\ PipeOfBrowser'
  BY <1>1, <1>3, <1>4 DEF ToldIsKnown, PipeOfBrowser
<1>7. OneTaskIsWaitedFor'
  BY <1>1, <1>4, WaitsForNoneYet
<1>8. TasksOfTheCreated'
  <2>1. \A k \in 1 .. Len(mainQ') : mainQ'[k].kind # "create" => inst'[mainQ'[k].inst].interfaces
    BY <1>1, <1>3, <1>4, TasksExtended
  <2>2. \A v \in ht' \cup socket_ht' : v.inst \in Insts /\ inst[v.inst].interfaces
    BY <1>1, <1>2, <1>4 DEF TasksOfTheCreated
  <2> QED
    BY <1>1, <1>3, <2>1, <2>2 DEF TasksOfTheCreated
<1>9. LifeOfInstance'
  <2>1. ASSUME NEW j \in Insts PROVE LifeOf(j)'
    BY <1>1, <1>3, <1>4 DEF LifeOfInstance, LifeOf
  <2> QED
    BY <1>1, <1>4, <2>1 DEF LifeOfInstance
<1>10. ASSUME ThreadParts PROVE ThreadParts'
  <2>1. MethodsHaveInstances' /\ TypesInTime'
    BY <1>1, <1>3, <1>4, <1>10 DEF ThreadParts, MethodsHaveInstances, TypesInTime
  <2>2. ASSUME NEW v \in ht' PROVE KeepsInstance(v)'
    <3>1. v.inst \in Insts /\ inst[v.inst].windowed_mode
      BY <1>2, <1>4, <1>10 DEF ThreadParts, WindowsHaveInstances, KeepsInstance
    <3>2. CASE v.inst = i
      BY <1>1, <1>3, <1>4, <3>1, <3>2 DEF KeepsInstance
    <3>3. CASE v.inst # i
      <4>1. KeepsInstance(v)
        BY <1>2, <1>4, <1>10, <3>3 DEF ThreadParts, WindowsHaveInstances
      <4> QED
        BY <1>1, <1>3, <1>4, <3>1, <3>3, <4>1 DEF KeepsInstance
    <3> QED
      BY <3>2, <3>3
  <2>3. ht \subseteq ht'
    BY DEF NPP_SetWindow
  <2> QED
    BY <1>1, <1>10, <2>1, <2>2, <2>3 DEF ThreadParts, WindowsHaveInstances
<1> QED
  BY <1>5, <1>6, <1>7, <1>8, <1>9, <1>10 DEF CallsInv

(* The tasks of an event of an instance that the plugin knows. *)
LEMMA InstQueueExtends ==
  ASSUME CallsInv, NEW i \in Insts, inst[i].interfaces, QueueExtends(i),
         asyncCalls' \in Seq(XEventOf), live' \in Int, xButtons' \in [Insts -> SUBSET (1 .. 3)],
         UNCHANGED <<inst, told, strayCall, browserAt, ht, socket_ht, pipe, x11At, xq,
                     typeCall, full, pressed, steady>>
  PROVE  CallsInv' /\ (ThreadParts => ThreadParts')
<1> USE InstIs DEF QueueExtends
<1>0. InstTypes'
  BY DEF CallsInv, InstTypes
<1>1. ToldIsKnown' /\ PipeOfBrowser' /\ LifeOfInstance'
  BY DEF ToldIsKnown, PipeOfBrowser, LifeOfInstance, LifeOf
<1>2. OneTaskIsWaitedFor' /\ TasksOfTheCreated'
  <2>1. ASSUME NEW k \in 1 .. Len(mainQ')
        PROVE  \/ k \in 1 .. Len(mainQ) /\ mainQ'[k] = mainQ[k]
               \/ mainQ'[k].inst = i /\ mainQ'[k].kind \notin Waited
    OBVIOUS
  <2> QED
    BY <2>1, ZenonT(60) DEF OneTaskIsWaitedFor, TasksOfTheCreated
<1>3. ASSUME ThreadParts PROVE ThreadParts'
  BY <1>3 DEF ThreadParts, MethodsHaveInstances, WindowsHaveInstances, KeepsInstance, TypesInTime
<1> QED
  BY <1>0, <1>1, <1>2, <1>3 DEF CallsInv

LEMMA ButtonsAre ==
  ASSUME NEW i \in Insts, NEW e, xButtons \in [Insts -> SUBSET (1 .. 3)],
         xButtons' = [xButtons EXCEPT ![i] =
           CASE e.type = "ButtonPress" /\ e.button \in 1 .. 3 -> @ \cup {e.button}
             [] e.type = "ButtonRelease" -> @ \ {e.button}
             [] OTHER -> @]
  PROVE  xButtons' \in [Insts -> SUBSET (1 .. 3)]
<1>1. CASE e.type = "ButtonPress" /\ e.button \in 1 .. 3
  BY <1>1
<1>2. CASE e.type = "ButtonRelease"
  BY <1>2
<1>3. CASE ~(e.type = "ButtonPress" /\ e.button \in 1 .. 3) /\ e.type # "ButtonRelease"
  BY <1>3
<1> QED
  BY <1>1, <1>2, <1>3

LEMMA InstBrowserEvent ==
  ASSUME CallsInv, NEW i \in Insts, NEW e, BrowserEvent(i, e)
  PROVE  CallsInv' /\ (ThreadParts => ThreadParts')
<1> USE DEF CallsInv, InstTypes
<1>1. live' \in Int /\ QueueExtends(i)
  BY HandleEventIs DEF BrowserEvent
<1>2. xButtons' \in [Insts -> SUBSET (1 .. 3)]
  BY ButtonsAre DEF BrowserEvent
<1>3. /\ inst[i].interfaces
      /\ UNCHANGED <<inst, told, strayCall, browserAt, ht, socket_ht, pipe, x11At, xq, asyncCalls,
                     typeCall, full, pressed, steady>>
  BY DEF BrowserEvent, Loaded, TasksOfTheCreated, x11Vars
<1> QED
  BY <1>1, <1>2, <1>3, InstQueueExtends

LEMMA InstFullscreenEvent ==
  ASSUME CallsInv, NEW i \in Insts, NEW e, FullscreenEvent(i, e)
  PROVE  CallsInv' /\ (ThreadParts => ThreadParts')
<1> USE DEF CallsInv, InstTypes
<1>1. live' \in Int /\ QueueExtends(i)
  BY ConvertedExtends DEF FullscreenEvent
<1>2. /\ inst[i].interfaces
      /\ UNCHANGED <<inst, told, strayCall, browserAt, ht, socket_ht, pipe, x11At, xq, asyncCalls,
                     typeCall, full, xButtons, pressed, steady>>
  BY DEF FullscreenEvent, TasksOfTheCreated, x11Vars
<1> QED
  BY <1>1, <1>2, InstQueueExtends

LEMMA InstHandleEvent ==
  ASSUME CallsInv, call_handle_event_ptac
  PROVE  CallsInv' /\ (ThreadParts => ThreadParts')
<1> USE DEF CallsInv, InstTypes
<1>1. /\ asyncCalls' \in Seq(XEventOf)
      /\ Head(asyncCalls) \in XEventOf
      /\ UNCHANGED <<inst, told, strayCall, browserAt, ht, socket_ht, pipe, x11At, xq,
                     typeCall, full, xButtons, pressed, steady>>
  BY DEF call_handle_event_ptac
<1>2. PICK w \in Windows : w = Head(asyncCalls).wnd
  BY <1>1 DEF XEventOf
<1>2a. PICK i \in Insts : i = w.inst
  BY InstIs
<1>3. CASE w \in ht /\ NPP_HandleEvent(i, Head(asyncCalls).ev)
  <2>1. live' \in Int /\ QueueExtends(i) /\ inst[i].interfaces
    BY <1>2a, <1>3, HandleEventIs DEF TasksOfTheCreated
  <2> QED
    BY <1>1, <2>1, InstQueueExtends
<1>4. CASE UNCHANGED <<live, mainQ>>
  <2>1. InstTypes'
    BY <1>1, <1>4
  <2>1a. ToldIsKnown' /\ PipeOfBrowser' /\ LifeOfInstance'
    BY <1>1, <1>4 DEF ToldIsKnown, PipeOfBrowser, LifeOfInstance, LifeOf
  <2>2. OneTaskIsWaitedFor' /\ TasksOfTheCreated'
    BY <1>1, <1>4 DEF OneTaskIsWaitedFor, TasksOfTheCreated
  <2>3. ASSUME ThreadParts PROVE ThreadParts'
    BY <1>1, <1>4, <2>3 DEF ThreadParts, MethodsHaveInstances, WindowsHaveInstances, KeepsInstance, TypesInTime
  <2> QED
    BY <2>1, <2>1a, <2>2, <2>3
<1> QED
  BY <1>2, <1>2a, <1>3, <1>4 DEF call_handle_event_ptac

(* Steps that leave the life of every instance, and the plugin's queue, alone. *)
SameLives ==
  /\ \A j \in Insts : /\ inst'[j].mem = inst[j].mem /\ inst'[j].in_table = inst[j].in_table
                      /\ inst'[j].interfaces = inst[j].interfaces
                      /\ inst'[j].instance_loaded = inst[j].instance_loaded
                      /\ inst'[j].wnd = inst[j].wnd
  /\ UNCHANGED <<told, strayCall, browserAt, ht, pipe>>
LEMMA InstSameLives ==
  ASSUME CallsInv, InstTypes', SameLives, UNCHANGED mainQ,
         \A w \in socket_ht' : inst[w.inst].interfaces, \A j \in full' : inst[j].interfaces
  PROVE  CallsInv'
<1> USE InstIs DEF SameLives
<1>1. ToldIsKnown' /\ PipeOfBrowser'
  BY DEF ToldIsKnown, PipeOfBrowser
<1>2. LifeOfInstance'
  <2>1. ASSUME NEW j \in Insts PROVE LifeOf(j)'
    BY DEF LifeOfInstance, LifeOf
  <2> QED
    BY <2>1 DEF LifeOfInstance
<1>3. OneTaskIsWaitedFor'
  BY DEF OneTaskIsWaitedFor
<1>4. TasksOfTheCreated'
  <2>1. (\A w \in socket_ht' : w \in Windows) /\ \A j \in full' : j \in Insts
    BY DEF InstTypes
  <2> QED
    BY <2>1 DEF TasksOfTheCreated
<1> QED
  BY <1>1, <1>2, <1>3, <1>4 DEF CallsInv

LEMMA ThreadSameLives ==
  ASSUME CallsInv, ThreadParts, SameLives, UNCHANGED typeCall,
         \A j \in Insts : inst'[j].im_context = inst[j].im_context /\ SameWindow(j),
         x11At'.at = "use" => x11At'.x.wnd \in ht
  PROVE  ThreadParts'
<1> USE InstIs DEF SameLives, SameWindow
<1>1. WindowsHaveInstances'
  <2>1. ASSUME NEW w \in ht PROVE KeepsInstance(w)'
    <3>1. w.inst \in Insts /\ KeepsInstance(w)
      BY DEF ThreadParts, WindowsHaveInstances
    <3> QED
      BY <3>1 DEF KeepsInstance
  <2> QED
    BY <2>1 DEF WindowsHaveInstances
<1>2. TypesInTime'
  BY DEF ThreadParts, TypesInTime
<1>3. \A i \in Insts :
        inst'[i].im_context => inst'[i].mem = "alive" /\ (browserAt'.inst = i => browserAt'.at = "register")
  BY DEF ThreadParts, MethodsHaveInstances
<1> QED
  BY <1>1, <1>2, <1>3 DEF ThreadParts, MethodsHaveInstances

(* Taking a task moves the others up by one. *)
LEMMA QueueShifts ==
  ASSUME mainQ \in Seq(TaskType), NEW kind, QueueTakes(kind)
  PROVE  \A k \in 1 .. Len(mainQ') :
           k + 1 \in 1 .. Len(mainQ) /\ k + 1 # 1 /\ mainQ'[k] = mainQ[k + 1]
<1>1. Len(mainQ) \in Nat /\ Len(mainQ') = Len(mainQ) - 1 /\ \A k \in 1 .. Len(mainQ') : mainQ'[k] = mainQ[k + 1]
  BY DEF QueueTakes
<1> QED
  BY <1>1

(* The plugin's thread has taken a task. *)
LEMMA WaitsForTaken ==
  ASSUME CallsInv, NEW kind \in Waited, QueueTakes(kind)
  PROVE  /\ OneTaskIsWaitedFor' /\ mainQ[1].inst = browserAt.inst /\ mainQ[1].inst \in Insts
         /\ browserAt.at = IF kind = "create" THEN "new" ELSE "destroy"
<1> USE InstIs
<1>1. 1 \in 1 .. Len(mainQ) /\ mainQ[1].kind = kind
  BY DEF QueueTakes
<1>2. \A k \in 1 .. Len(mainQ) : mainQ[k].kind \in Waited => k = 1
  BY <1>1 DEF OneTaskIsWaitedFor
<1>3. \A k \in 1 .. Len(mainQ') : mainQ'[k].kind \notin Waited
  BY <1>2, QueueShifts
<1>4. OneTaskIsWaitedFor'
  BY <1>3, WaitsForNoMore
<1>5. OneTaskIsWaitedFor /\ mainQ[1].inst \in Insts
  BY <1>1
<1>6. /\ mainQ[1].inst = browserAt.inst
      /\ browserAt.at = IF kind = "create" THEN "new" ELSE "destroy"
  BY <1>1, <1>5 DEF OneTaskIsWaitedFor
<1> QED
  BY <1>4, <1>5, <1>6

LEMMA WaitsStill ==
  ASSUME CallsInv, NEW kind, QueueTakes(kind), kind \notin Waited, UNCHANGED browserAt
  PROVE  OneTaskIsWaitedFor'
<1> USE InstIs
<1>1. \A k \in 1 .. Len(mainQ') : k + 1 \in 1 .. Len(mainQ) /\ mainQ'[k] = mainQ[k + 1]
  BY QueueShifts
<1>2. SUFFICES ASSUME NEW j \in 1 .. Len(mainQ'), NEW k \in 1 .. Len(mainQ'), mainQ'[j].kind \in Waited
               PROVE  /\ mainQ'[j].inst = browserAt.inst
                      /\ browserAt.at = IF mainQ'[j].kind = "create" THEN "new" ELSE "destroy"
                      /\ mainQ'[k].kind \in Waited => j = k
  BY DEF OneTaskIsWaitedFor
<1>3. /\ mainQ[j + 1].inst = browserAt.inst
      /\ browserAt.at = IF mainQ[j + 1].kind = "create" THEN "new" ELSE "destroy"
      /\ mainQ[k + 1].kind \in Waited => j + 1 = k + 1
  BY <1>1, <1>2 DEF OneTaskIsWaitedFor
<1> QED
  BY <1>1, <1>3

LEMMA TasksStay ==
  ASSUME CallsInv, NEW kind, QueueTakes(kind),
         \A j \in Insts : /\ inst[j].interfaces => inst'[j].interfaces
                          /\ inst'[j].instance_loaded = inst[j].instance_loaded,
         UNCHANGED <<ht, socket_ht>>, full' \subseteq full
  PROVE  TasksOfTheCreated'
<1> USE InstIs
<1>1. \A k \in 1 .. Len(mainQ') : k + 1 \in 1 .. Len(mainQ) /\ mainQ'[k] = mainQ[k + 1]
  BY QueueShifts
<1>2. \A k \in 1 .. Len(mainQ') : mainQ'[k].kind # "create" => inst'[mainQ'[k].inst].interfaces
  <2>1. ASSUME NEW k \in 1 .. Len(mainQ), mainQ[k].kind # "create"
        PROVE  inst'[mainQ[k].inst].interfaces
    <3>1. mainQ[k].inst \in Insts
      OBVIOUS
    <3> QED
      BY <2>1, <3>1, Zenon DEF TasksOfTheCreated
  <2>2. ASSUME NEW k \in 1 .. Len(mainQ'), mainQ'[k].kind # "create"
        PROVE  inst'[mainQ'[k].inst].interfaces
    <3>1. k + 1 \in 1 .. Len(mainQ) /\ mainQ'[k] = mainQ[k + 1]
      BY <1>1
    <3>2. PICK n \in 1 .. Len(mainQ) : mainQ'[k] = mainQ[n]
      BY <3>1, Zenon
    <3> QED
      BY <2>1, <2>2, <3>2, Zenon
  <2> QED
    BY <2>2, Zenon
<1>3. /\ \A w \in ht \cup socket_ht : inst'[w.inst].interfaces
      /\ \A i \in Insts : inst'[i].instance_loaded \/ i \in full' => inst'[i].interfaces
  BY DEF TasksOfTheCreated
<1> QED
  BY <1>2, <1>3 DEF TasksOfTheCreated

LEMMA TasksAdded ==
  ASSUME CallsInv, NEW kind, NEW i \in Insts, QueueAdds(kind, i), inst[i].interfaces,
         UNCHANGED <<inst, socket_ht, full>>, ht' \subseteq ht
  PROVE  TasksOfTheCreated'
<1> USE InstIs
<1>1. \A k \in 1 .. Len(mainQ') :
        \/ k \in 1 .. Len(mainQ) /\ mainQ'[k] = mainQ[k]
        \/ mainQ'[k].inst = i
  BY DEF QueueAdds
<1>2. \A k \in 1 .. Len(mainQ') : mainQ'[k].kind # "create" => inst[mainQ'[k].inst].interfaces
  BY <1>1 DEF TasksOfTheCreated
<1> QED
  BY <1>2 DEF TasksOfTheCreated

-----------------------------------------------------------------------------
LEMMA InstHandleTask ==
  ASSUME CallsInv, x11et_handle_task
  PROVE  CallsInv' /\ (ThreadParts => ThreadParts')
<1> USE InstanceBoundsAssumption, InstIs
<1>1. PICK i \in Insts : i = browserAt.inst /\ inst[i].interfaces /\ inst[i].wnd \in Wins
  BY DEF x11et_handle_task, PipeOfBrowser, LifeOfInstance, LifeOf
<1>1a. WindowOf(i) \in Windows /\ WindowOf(i).inst = i
  BY <1>1 DEF WindowOf, Windows
<1>2. /\ UNCHANGED <<inst, told, strayCall, browserAt, mainQ, ht, pipe, xq, asyncCalls,
                     typeCall, live, full, xButtons, pressed, steady>>
      /\ x11At' = [x11At EXCEPT !.at = "barrier"]
      /\ socket_ht' \subseteq socket_ht \cup {WindowOf(i)}
  BY <1>1 DEF x11et_handle_task, inputVars
<1>3. /\ x11At' \in X11Places
      /\ x11At'.at = "barrier"
  BY <1>2 DEF X11Places
<1>4. InstTypes'
  BY <1>1a, <1>2, <1>3 DEF CallsInv, InstTypes
<1>5. SameLives
  BY <1>2 DEF SameLives
<1>6. CallsInv'
  BY <1>1, <1>1a, <1>2, <1>4, <1>5, InstSameLives DEF TasksOfTheCreated
<1>7. ASSUME ThreadParts PROVE ThreadParts'
  BY <1>2, <1>3, <1>5, <1>7, ThreadSameLives DEF SameWindow
<1> QED
  BY <1>6, <1>7

LEMMA InstBarrier ==
  ASSUME CallsInv, task_pass_barrier
  PROVE  CallsInv' /\ (ThreadParts => ThreadParts')
<1> USE InstanceBoundsAssumption, InstIs
<1>1. /\ UNCHANGED <<inst, told, strayCall, socket_ht, xq, asyncCalls,
                     typeCall, live, full, xButtons, pressed, steady>>
      /\ x11At' = [x11At EXCEPT !.at = "poll"] /\ pipe' = "empty"
  BY DEF task_pass_barrier, inputVars
<1>2. /\ x11At' \in X11Places
      /\ x11At'.at = "poll"
  BY <1>1 DEF X11Places
<1>3. PICK i \in Insts : /\ i = browserAt.inst /\ inst[i].interfaces /\ inst[i].mem = "alive"
                         /\ browserAt.at \in {"register", "unregister"}
  BY DEF task_pass_barrier, Browser, LifeOfInstance, LifeOf
<1>4. CASE Browser("register")
  <2>1. QueueExtends(i) /\ BrowserGets("idle", NoInst) /\ UNCHANGED ht
    BY <1>3, <1>4, ViewIs, BrowserGoesTo DEF task_pass_barrier, Browser, BrowserPlaces
  <2> USE DEF BrowserGets
  <2>2. InstTypes'
    BY <1>1, <1>2, <2>1 DEF CallsInv, InstTypes, QueueExtends
  <2>3. ToldIsKnown' /\ PipeOfBrowser'
    BY <1>1 DEF ToldIsKnown, PipeOfBrowser
  <2>4. LifeOfInstance'
    <3>1. ASSUME NEW j \in Insts PROVE LifeOf(j)'
      BY <1>1, <2>1 DEF LifeOfInstance, LifeOf
    <3> QED
      BY <2>1, <3>1 DEF LifeOfInstance
  <2>5. OneTaskIsWaitedFor'
    BY <1>3, <2>1, WaitsForNoneYet
  <2>6. TasksOfTheCreated'
    <3>1. \A k \in 1 .. Len(mainQ') : mainQ'[k].kind # "create" => inst'[mainQ'[k].inst].interfaces
      BY <1>1, <1>3, <2>1, TasksExtended
    <3> QED
      BY <1>1, <2>1, <3>1 DEF TasksOfTheCreated
  <2>7. ASSUME ThreadParts PROVE ThreadParts'
    BY <1>1, <1>2, <2>1, <2>7
       DEF ThreadParts, MethodsHaveInstances, WindowsHaveInstances, KeepsInstance, TypesInTime
  <2> QED
    BY <2>2, <2>3, <2>4, <2>5, <2>6, <2>7 DEF CallsInv
<1>5. CASE Browser("unregister")
  <2>1. QueueAdds("destroy", i) /\ BrowserGets("destroy", i) /\ ht' = ht \ {WindowOf(i)}
    BY <1>3, <1>5, PostIs, BrowserGoesTo DEF task_pass_barrier, Browser, BrowserPlaces
  <2> USE DEF QueueAdds, BrowserGets
  <2>2. InstTypes'
    BY <1>1, <1>2, <2>1 DEF CallsInv, InstTypes
  <2>3. ToldIsKnown' /\ PipeOfBrowser'
    BY <1>1 DEF ToldIsKnown, PipeOfBrowser
  <2>4. LifeOfInstance'
    BY <1>1, <1>3, <2>1 DEF LifeOfInstance, LifeOf
  <2>5. OneTaskIsWaitedFor'
    BY <1>3, <2>1, WaitsForOne DEF Waited
  <2>6. TasksOfTheCreated'
    BY <1>1, <1>3, <2>1, TasksAdded
  <2>7. ASSUME ThreadParts PROVE ThreadParts'
    <3>1. browserAt.at = "unregister" /\ typeCall = NoTypeCall
      BY <1>5, <2>7 DEF Browser, ThreadParts, TypesInTime
    <3>2. WindowsHaveInstances'
      <4>1. ASSUME NEW w \in ht' PROVE KeepsInstance(w)'
        <5>1. w \in ht /\ w \in Windows /\ KeepsInstance(w)
          BY <2>1, <2>7 DEF ThreadParts, WindowsHaveInstances
        <5>2. w.inst = i => inst[i].wnd # w.no
          BY <2>1, <5>1, WindowIs
        <5> QED
          BY <1>1, <1>3, <2>1, <5>1, <5>2 DEF KeepsInstance
      <4> QED
        BY <1>2, <4>1 DEF WindowsHaveInstances
    <3>3. MethodsHaveInstances' /\ TypesInTime'
      BY <1>1, <1>2, <1>3, <2>1, <2>7, <3>1 DEF ThreadParts, MethodsHaveInstances, TypesInTime
    <3> QED
      BY <3>2, <3>3 DEF ThreadParts
  <2> QED
    BY <2>2, <2>3, <2>4, <2>5, <2>6, <2>7 DEF CallsInv
<1> QED
  BY <1>4, <1>5 DEF task_pass_barrier

LEMMA InstUserEvent ==
  ASSUME CallsInv, NEW w \in Windows, NEW e \in XEvents, UserEvent(w, e)
  PROVE  CallsInv' /\ (ThreadParts => ThreadParts')
<1> USE InstIs
<1>1. /\ xq' = Append(xq, [wnd |-> w, ev |-> e])
      /\ UNCHANGED <<inst, told, strayCall, browserAt, mainQ, ht, socket_ht, pipe, x11At, asyncCalls,
                     typeCall, live, full, pressed, steady>>
  BY DEF UserEvent
<1>2. xButtons' \in [Insts -> SUBSET (1 .. 3)]
  BY w.inst \in Insts, ButtonsAre DEF UserEvent, CallsInv, InstTypes
<1>3. xq' \in Seq(XEventOf)
  <2>1. [wnd |-> w, ev |-> e] \in XEventOf
    BY DEF XEventOf
  <2> QED
    BY <1>1, <2>1
<1>4. InstTypes' /\ SameLives
  BY <1>1, <1>2, <1>3 DEF CallsInv, InstTypes, SameLives
<1>5. CallsInv'
  BY <1>1, <1>4, InstSameLives DEF TasksOfTheCreated
<1>6. ASSUME ThreadParts PROVE ThreadParts'
  BY <1>1, <1>4, <1>6, ThreadSameLives DEF SameWindow, ThreadParts, WindowsHaveInstances
<1> QED
  BY <1>5, <1>6

LEMMA InstHandleXEvent ==
  ASSUME CallsInv, x11et_handle_xevent
  PROVE  CallsInv' /\ (ThreadParts => ThreadParts')
<1> USE InstIs
<1>1. /\ xq # <<>> /\ xq' = Tail(xq)
      /\ UNCHANGED <<inst, told, strayCall, browserAt, mainQ, ht, socket_ht, pipe, asyncCalls,
                     typeCall, live, full, xButtons, pressed, steady>>
  BY DEF x11et_handle_xevent, inputVars
<1>2. xq' \in Seq(XEventOf) /\ Head(xq) \in XEventOf
  BY <1>1
<1>3. /\ x11At' \in X11Places
      /\ (UNCHANGED x11At) \/ (x11At'.x \in XEventOf /\ x11At'.x.wnd \in ht)
  <2>1. CASE UNCHANGED x11At
    BY <2>1 DEF CallsInv, InstTypes
  <2>2. CASE Head(xq).wnd \in ht /\ x11At' = [at |-> "use", x |-> Head(xq)]
    BY <1>2, <2>2 DEF X11Places
  <2> QED
    BY <2>1, <2>2 DEF x11et_handle_xevent
<1>4. InstTypes' /\ SameLives
  BY <1>1, <1>2, <1>3 DEF CallsInv, InstTypes, SameLives
<1>5. CallsInv'
  BY <1>1, <1>4, InstSameLives DEF TasksOfTheCreated
<1>6. ASSUME ThreadParts PROVE ThreadParts'
  BY <1>1, <1>3, <1>4, <1>6, ThreadSameLives DEF SameWindow, ThreadParts, WindowsHaveInstances
<1> QED
  BY <1>5, <1>6

LEMMA InstPostXEvent ==
  ASSUME CallsInv, PostXEvent
  PROVE  CallsInv' /\ (ThreadParts => ThreadParts')
<1> USE InstIs
<1>1. /\ x11At' = [at |-> "poll", x |-> NoXEvent]
      /\ UNCHANGED <<inst, told, strayCall, browserAt, mainQ, ht, socket_ht, pipe, xq,
                     typeCall, live, full, xButtons, pressed, steady>>
  BY DEF PostXEvent, inputVars
<1>2. x11At.x \in XEventOf
  BY DEF PostXEvent, CallsInv, InstTypes
<1>3. /\ x11At' \in X11Places
      /\ x11At'.at = "poll"
  BY <1>1 DEF X11Places
<1>4. asyncCalls' \in Seq(XEventOf)
  <2>1. PICK xembed \in BOOLEAN : xembed = inst[x11At.x.wnd.inst].use_xembed
    BY <1>2 DEF XEventOf, InstType
  <2> DEFINE e == Translated(x11At.x.ev, xembed)
  <2>2. e \in XEvents /\ x11At.x.wnd \in Windows
    BY <1>2, InstanceBoundsAssumption DEF XEventOf
  <2>3. asyncCalls' = asyncCalls \/ asyncCalls' = Append(asyncCalls, [wnd |-> x11At.x.wnd, ev |-> e])
    BY <2>1 DEF PostXEvent
  <2>4. PICK c \in XEventOf : c = [wnd |-> x11At.x.wnd, ev |-> e]
    BY <2>2 DEF XEventOf
  <2>5. asyncCalls' = asyncCalls \/ asyncCalls' = Append(asyncCalls, c)
    BY <2>3, <2>4
  <2>6. Append(asyncCalls, c) \in Seq(XEventOf)
    <3>1. ASSUME NEW S, NEW q \in Seq(S), NEW d \in S PROVE Append(q, d) \in Seq(S)
      OBVIOUS
    <3> QED
      BY <3>1, InstIs, Zenon
  <2> QED
    BY <2>5, <2>6, InstIs, Zenon
<1>5. InstTypes' /\ SameLives
  BY <1>1, <1>3, <1>4 DEF CallsInv, InstTypes, SameLives
<1>6. CallsInv'
  BY <1>1, <1>5, InstSameLives DEF TasksOfTheCreated
<1>7. ASSUME ThreadParts PROVE ThreadParts'
  BY <1>1, <1>3, <1>5, <1>7, ThreadSameLives DEF SameWindow
<1> QED
  BY <1>6, <1>7
LEMMA InstDestroy ==
  ASSUME CallsInv, NEW i \in Insts, NPP_Destroy(i)
  PROVE  CallsInv' /\ (ThreadParts /\ TypesLate = FALSE => ThreadParts')
<1> USE InstanceBoundsAssumption, InstIs
<1>1. /\ browserAt.at = "idle" /\ inst[i].mem = "alive" /\ inst[i].instance_loaded
      /\ TypesLate \/ typeCall = NoTypeCall
      /\ UNCHANGED <<told, strayCall, ht, socket_ht, x11At, xq, asyncCalls,
                     typeCall, live, full, xButtons, pressed, steady>>
  BY DEF NPP_Destroy, Browser, Loaded, inputVars
<1>1a. WindowOf(i) \in ht => inst[i].wnd \in Wins
  BY DEF WindowOf, Windows
<1>2. /\ OnlyInst(i) /\ inst'[i].mem = inst[i].mem /\ inst'[i].in_table = inst[i].in_table
      /\ inst'[i].interfaces = inst[i].interfaces /\ inst'[i].instance_loaded = inst[i].instance_loaded
      /\ inst'[i].im_context = FALSE /\ SameWindow(i)
  <2> DEFINE r == [inst[i] EXCEPT !.im_context = FALSE]
  <2>1. inst[i] \in InstType
    OBVIOUS
  <2>2. r \in InstType
    BY <2>1, {} \in SUBSET Classes, FALSE \in BOOLEAN, InstRecords
  <2>3. /\ r.mem = inst[i].mem /\ r.in_table = inst[i].in_table
        /\ r.interfaces = inst[i].interfaces /\ r.instance_loaded = inst[i].instance_loaded
        /\ r.im_context = FALSE
        /\ r.windowed_mode = inst[i].windowed_mode /\ r.use_xembed = inst[i].use_xembed
        /\ r.wnd = inst[i].wnd
    BY <2>1 DEF InstType
  <2>4. inst' = [inst EXCEPT ![i] = r]
    BY DEF NPP_Destroy
  <2> HIDE DEF r
  <2> QED
    BY <2>2, <2>3, <2>4, InstBecomes DEF SameWindow
<1>3. /\ inst[i].interfaces
      /\ \A j \in Insts : /\ inst'[j].mem = inst[j].mem /\ inst'[j].in_table = inst[j].in_table
                          /\ inst'[j].interfaces = inst[j].interfaces
                          /\ inst'[j].instance_loaded = inst[j].instance_loaded /\ SameWindow(j)
                          /\ inst'[j].im_context => inst[j].im_context /\ j # i
  BY <1>1, <1>2 DEF OnlyInst, SameWindow, TasksOfTheCreated
<1>4. ToldIsKnown'
  BY <1>1, <1>3 DEF ToldIsKnown
<1>5. ASSUME ThreadParts, browserAt'.inst = i, browserAt'.at \in {"unregister", "destroy"},
             TypesLate = FALSE, WindowOf(i) \in ht /\ ~inst[i].use_xembed => browserAt'.at = "unregister"
      PROVE  ThreadParts'
  <2>1. WindowsHaveInstances'
    <3>1. ASSUME NEW w \in ht PROVE KeepsInstance(w)'
      <4>1. w \in Windows /\ w.inst \in Insts /\ KeepsInstance(w)
        BY <1>5 DEF ThreadParts, WindowsHaveInstances
      <4>2. w.inst = i /\ ~inst[i].use_xembed /\ inst[i].wnd = w.no => browserAt'.at = "unregister"
        BY <1>5, <4>1, WindowIs
      <4> QED
        BY <1>1, <1>3, <1>5, <4>1, <4>2 DEF KeepsInstance, SameWindow
    <3> QED
      BY <1>1, <1>5, <3>1 DEF ThreadParts, WindowsHaveInstances
  <2>2. TypesInTime'
    BY <1>1, <1>5 DEF ThreadParts, TypesInTime
  <2>3. \A j \in Insts : inst'[j].im_context => inst'[j].mem = "alive" /\ j # i
    BY <1>3, <1>5 DEF ThreadParts, MethodsHaveInstances
  <2> QED
    BY <1>5, <2>1, <2>2, <2>3 DEF ThreadParts, MethodsHaveInstances
<1>6. CASE inst[i].windowed_mode /\ ~inst[i].use_xembed /\ WindowOf(i) \in ht
  <2>1. pipe' = "unregister" /\ BrowserGets("unregister", i) /\ UNCHANGED mainQ
    BY <1>6, BrowserGoesTo DEF NPP_Destroy, BrowserPlaces
  <2> USE DEF BrowserGets
  <2>2. InstTypes' /\ PipeOfBrowser'
    BY <1>1, <1>2, <2>1 DEF CallsInv, InstTypes, OnlyInst, PipeOfBrowser
  <2>3. LifeOfInstance'
    <3>1. ASSUME NEW j \in Insts PROVE LifeOf(j)'
      <4>1. /\ inst'[j].mem = inst[j].mem /\ inst'[j].in_table = inst[j].in_table
            /\ inst'[j].interfaces = inst[j].interfaces /\ inst'[j].wnd = inst[j].wnd
            /\ told'[j] = told[j] /\ browserAt'.at = "unregister" /\ browserAt'.inst = i
        BY <1>1, <1>3, <2>1 DEF SameWindow
      <4>2. /\ LifeOf(j) /\ inst[i].interfaces /\ inst[i].mem = "alive"
            /\ inst[i].wnd \in Wins
        BY <1>1, <1>1a, <1>3, <1>6 DEF LifeOfInstance
      <4> QED
        BY ONLY <4>1, <4>2 DEF LifeOf
    <3> QED
      BY <2>1, <3>1 DEF LifeOfInstance
  <2>4. OneTaskIsWaitedFor'
    BY <1>1, <2>1, WaitsForNone, WaitsForNoMore
  <2>5. TasksOfTheCreated'
    BY <1>1, <1>3, <2>1 DEF TasksOfTheCreated
  <2> QED
    BY <1>4, <1>5, <2>1, <2>2, <2>3, <2>4, <2>5 DEF CallsInv
<1>7. CASE ~(inst[i].windowed_mode /\ ~inst[i].use_xembed /\ WindowOf(i) \in ht)
  <2>1. QueueAdds("destroy", i) /\ BrowserGets("destroy", i) /\ UNCHANGED pipe
    BY <1>7, PostIs, BrowserGoesTo DEF NPP_Destroy, BrowserPlaces
  <2> USE DEF BrowserGets, QueueAdds
  <2>2. InstTypes' /\ PipeOfBrowser'
    BY <1>1, <1>2, <2>1 DEF CallsInv, InstTypes, OnlyInst, PipeOfBrowser
  <2>3. LifeOfInstance'
    <3>1. ASSUME NEW j \in Insts PROVE LifeOf(j)'
      <4>1. /\ inst'[j].mem = inst[j].mem /\ inst'[j].in_table = inst[j].in_table
            /\ inst'[j].interfaces = inst[j].interfaces /\ told'[j] = told[j]
            /\ browserAt'.at = "destroy" /\ browserAt'.inst = i
        BY <1>1, <1>3, <2>1
      <4>2. LifeOf(j) /\ inst[i].interfaces /\ inst[i].mem = "alive"
        BY <1>1, <1>3 DEF LifeOfInstance
      <4> QED
        BY ONLY <4>1, <4>2 DEF LifeOf
    <3> QED
      BY <2>1, <3>1 DEF LifeOfInstance
  <2>4. OneTaskIsWaitedFor'
    BY <1>1, <2>1, WaitsForOne DEF Waited
  <2>5. TasksOfTheCreated'
    <3>1. \A k \in 1 .. Len(mainQ') :
            \/ k \in 1 .. Len(mainQ) /\ mainQ'[k] = mainQ[k]
            \/ mainQ'[k].inst = i
      BY <2>1
    <3>2. \A k \in 1 .. Len(mainQ') : mainQ'[k].kind # "create" => inst'[mainQ'[k].inst].interfaces
      BY <1>3, <3>1 DEF TasksOfTheCreated
    <3> QED
      BY <1>1, <1>3, <3>2 DEF TasksOfTheCreated
  <2>6. ThreadParts => (WindowOf(i) \in ht /\ ~inst[i].use_xembed => browserAt'.at = "unregister")
    BY <1>7 DEF ThreadParts, WindowsHaveInstances, KeepsInstance, WindowOf
  <2> QED
    BY <1>4, <1>5, <2>1, <2>2, <2>3, <2>4, <2>5, <2>6 DEF CallsInv
<1> QED
  BY <1>6, <1>7

LEMMA InstDestroyReturns ==
  ASSUME CallsInv, NPP_DestroyReturns
  PROVE  CallsInv' /\ (ThreadParts => ThreadParts')
<1> USE InstanceBoundsAssumption, InstIs
<1>1. PICK i \in Insts : i = browserAt.inst
  BY DEF NPP_DestroyReturns, Browser, LifeOfInstance
<1>2. browserAt.at = "destroyed" /\ BrowserGets("idle", NoInst)
  BY BrowserGoesTo DEF NPP_DestroyReturns, Browser, BrowserPlaces
<1>3. /\ OnlyInst(i) /\ inst'[i].mem = "freed" /\ inst'[i].in_table = inst[i].in_table
      /\ inst'[i].interfaces = inst[i].interfaces /\ inst'[i].instance_loaded = inst[i].instance_loaded
      /\ inst'[i].im_context = inst[i].im_context /\ SameWindow(i)
  <2> DEFINE r == [inst[i] EXCEPT !.mem = "freed"]
  <2>1. inst[i] \in InstType
    OBVIOUS
  <2>2. r \in InstType
    BY <2>1, {} \in SUBSET Classes, FALSE \in BOOLEAN, InstRecords
  <2>3. /\ r.mem = "freed" /\ r.in_table = inst[i].in_table
        /\ r.interfaces = inst[i].interfaces /\ r.instance_loaded = inst[i].instance_loaded
        /\ r.im_context = inst[i].im_context
        /\ r.windowed_mode = inst[i].windowed_mode /\ r.use_xembed = inst[i].use_xembed
        /\ r.wnd = inst[i].wnd
    BY <2>1 DEF InstType
  <2>4. inst' = [inst EXCEPT ![i] = r]
    BY <1>1 DEF NPP_DestroyReturns
  <2> HIDE DEF r
  <2> QED
    BY <2>2, <2>3, <2>4, InstBecomes DEF SameWindow
<1>4. UNCHANGED <<told, strayCall, mainQ, ht, socket_ht, pipe, x11At, xq, asyncCalls,
                  typeCall, live, full, xButtons, pressed, steady>>
  BY DEF NPP_DestroyReturns, x11Vars, inputVars
<1>5. \A j \in Insts : /\ inst'[j].in_table = inst[j].in_table
                       /\ inst'[j].interfaces = inst[j].interfaces
                       /\ inst'[j].instance_loaded = inst[j].instance_loaded /\ SameWindow(j)
                       /\ inst'[j].im_context = inst[j].im_context
                       /\ j # i => inst'[j].mem = inst[j].mem
  BY <1>3 DEF OnlyInst, SameWindow
<1> USE DEF BrowserGets
<1>6. InstTypes' /\ ToldIsKnown' /\ PipeOfBrowser'
  <2>1. InstTypes'
    BY <1>2, <1>3, <1>4 DEF CallsInv, InstTypes, OnlyInst
  <2> QED
    BY <1>2, <1>4, <1>5, <2>1 DEF ToldIsKnown, PipeOfBrowser
<1>7. LifeOfInstance'
  <2>1. LifeOf(i)'
    BY <1>1, <1>2, <1>3, <1>4 DEF LifeOfInstance, LifeOf
  <2>2. ASSUME NEW j \in Insts, j # i PROVE LifeOf(j)'
    BY <1>2, <1>4, <1>5, <2>2, ZenonT(60) DEF LifeOfInstance, LifeOf
  <2> QED
    BY <1>2, <2>1, <2>2 DEF LifeOfInstance
<1>8. OneTaskIsWaitedFor' /\ TasksOfTheCreated'
  <2>1. OneTaskIsWaitedFor'
    BY <1>2, <1>4, WaitsForNone, WaitsForNoMore
  <2> QED
    BY <1>4, <1>5, <2>1 DEF TasksOfTheCreated
<1>9. ASSUME ThreadParts PROVE ThreadParts'
  <2>1. typeCall = NoTypeCall /\ ~inst[i].im_context
    BY <1>1, <1>2, <1>9 DEF ThreadParts, TypesInTime, MethodsHaveInstances
  <2>2. WindowsHaveInstances'
    <3>1. ASSUME NEW w \in ht PROVE KeepsInstance(w)'
      <4>1. w.inst \in Insts /\ KeepsInstance(w)
        BY <1>9 DEF ThreadParts, WindowsHaveInstances
      <4> QED
        BY <1>1, <1>2, <1>5, <4>1, NoInst \notin Insts DEF KeepsInstance, SameWindow
    <3> QED
      BY <1>4, <1>9, <3>1 DEF ThreadParts, WindowsHaveInstances
  <2>3. TypesInTime'
    BY <1>4, <2>1 DEF TypesInTime
  <2>5. \A j \in Insts : inst'[j].im_context => inst'[j].mem = "alive"
    BY <1>5, <1>9, <2>1 DEF ThreadParts, MethodsHaveInstances
  <2> QED
    BY <1>2, <2>2, <2>3, <2>5 DEF ThreadParts, MethodsHaveInstances
<1> QED
  BY <1>6, <1>7, <1>8, <1>9 DEF CallsInv

LEMMA InstDidCreate ==
  ASSUME CallsInv, call_plugin_did_create_comt
  PROVE  CallsInv' /\ (ThreadParts => ThreadParts')
<1> USE InstanceBoundsAssumption, InstIs
<1>1. QueueTakes("create")
  BY NextTaskIs DEF call_plugin_did_create_comt
<1>2. PICK i \in Insts : i = mainQ[1].inst /\ i = browserAt.inst
  BY <1>1, WaitsForTaken DEF Waited
<1>3. /\ browserAt.at = "new" /\ OneTaskIsWaitedFor'
      /\ inst[i].mem = "alive" /\ inst[i].in_table /\ ~inst[i].interfaces /\ told[i] = "no"
  <2>1. browserAt.at = "new" /\ OneTaskIsWaitedFor'
    BY <1>1, WaitsForTaken DEF Waited
  <2> QED
    BY <1>2, <2>1 DEF LifeOfInstance, LifeOf
<1>4. BrowserGets("created", i)
  BY <1>1, <1>2, BrowserGoesTo DEF call_plugin_did_create_comt, QueueTakes, BrowserPlaces
<1>5. UNCHANGED <<strayCall, ht, socket_ht, pipe, x11At, xq, asyncCalls,
                  typeCall, live, full, xButtons, pressed, steady>>
  BY DEF call_plugin_did_create_comt, x11Vars, inputVars
<1>6. PICK b \in BOOLEAN :
        /\ OnlyInst(i) /\ inst'[i].interfaces = b
        /\ told' = [told EXCEPT ![i] = IF b THEN "created" ELSE told[i]]
        /\ \A j \in Insts : /\ inst'[j].mem = inst[j].mem /\ inst'[j].in_table = inst[j].in_table
                            /\ inst'[j].instance_loaded = inst[j].instance_loaded /\ SameWindow(j)
                            /\ inst'[j].im_context = inst[j].im_context
  <2>1. CASE UNCHANGED <<inst, told>>
    <3>1. inst[i].interfaces = FALSE
      BY <1>3 DEF InstType
    <3> QED
      BY <2>1, <3>1 DEF OnlyInst, SameWindow
  <2>2. CASE told' = [told EXCEPT ![i] = "created"] /\ inst' = [inst EXCEPT ![i].interfaces = TRUE]
    <3> DEFINE r == [inst[i] EXCEPT !.interfaces = TRUE]
    <3>1. inst[i] \in InstType
      OBVIOUS
    <3>2. r \in InstType
      BY <3>1, {} \in SUBSET Classes, TRUE \in BOOLEAN, InstRecords
    <3>3. /\ r.mem = inst[i].mem /\ r.in_table = inst[i].in_table
          /\ r.interfaces = TRUE /\ r.instance_loaded = inst[i].instance_loaded
          /\ r.im_context = inst[i].im_context
          /\ r.windowed_mode = inst[i].windowed_mode /\ r.use_xembed = inst[i].use_xembed
          /\ r.wnd = inst[i].wnd
      BY <3>1 DEF InstType
    <3>4. inst' = [inst EXCEPT ![i] = r]
      BY <2>2
    <3> HIDE DEF r
    <3>5. OnlyInst(i) /\ inst'[i] = r
      BY <3>2, <3>4, InstBecomes
    <3> QED
      BY <2>2, <3>3, <3>5 DEF OnlyInst, SameWindow
  <2> QED
    BY <1>1, <1>2, <2>1, <2>2 DEF call_plugin_did_create_comt, QueueTakes
<1> USE DEF BrowserGets
<1>7. InstTypes'
  BY <1>1, <1>4, <1>5, <1>6 DEF CallsInv, InstTypes, OnlyInst, QueueTakes
<1>8. ToldIsKnown'
  <2>1. told'[i] = "created" <=> inst'[i].in_table /\ inst'[i].interfaces
    BY <1>3, <1>6
  <2>2. ASSUME NEW j \in Insts, j # i
        PROVE  told'[j] = "created" <=> inst'[j].in_table /\ inst'[j].interfaces
    BY <1>6, <2>2 DEF OnlyInst, ToldIsKnown
  <2> QED
    BY <1>5, <2>1, <2>2 DEF ToldIsKnown
<1>9. TasksOfTheCreated'
  <2>1. \A j \in Insts : /\ inst[j].interfaces => inst'[j].interfaces
                         /\ inst'[j].instance_loaded = inst[j].instance_loaded
    BY <1>3, <1>6 DEF OnlyInst
  <2> QED
    BY <1>1, <1>5, <2>1, TasksStay
<1>10. LifeOfInstance' /\ PipeOfBrowser'
  <2>1. LifeOf(i)'
    BY <1>3, <1>4, <1>6 DEF LifeOf
  <2>2. ASSUME NEW j \in Insts, j # i PROVE LifeOf(j)'
    BY <1>4, <1>6, <2>2 DEF LifeOfInstance, LifeOf, OnlyInst
  <2> QED
    BY <1>3, <1>4, <1>5, <2>1, <2>2 DEF LifeOfInstance, PipeOfBrowser
<1>11. ASSUME ThreadParts PROVE ThreadParts'
  <2>1. ~inst[i].im_context
    BY <1>2, <1>3, <1>11 DEF ThreadParts, MethodsHaveInstances
  <2>2. WindowsHaveInstances'
    <3>1. ASSUME NEW w \in ht PROVE KeepsInstance(w)'
      <4>1. w.inst \in Insts /\ KeepsInstance(w)
        BY <1>11 DEF ThreadParts, WindowsHaveInstances
      <4> QED
        BY <1>4, <1>6, <4>1 DEF KeepsInstance, SameWindow
    <3> QED
      BY <1>5, <1>11, <3>1 DEF ThreadParts, WindowsHaveInstances
  <2>3. TypesInTime'
    BY <1>4, <1>5, <1>6, <1>11 DEF ThreadParts, TypesInTime
  <2>5. MethodsHaveInstances'
    BY <1>4, <1>5, <1>6, <1>11, <2>1 DEF ThreadParts, MethodsHaveInstances
  <2> QED
    BY <2>2, <2>3, <2>5 DEF ThreadParts
<1> QED
  BY <1>3, <1>7, <1>8, <1>9, <1>10, <1>11 DEF CallsInv
LEMMA InstDidDestroy ==
  ASSUME CallsInv, destroy_instance_comt
  PROVE  CallsInv' /\ (ThreadParts => ThreadParts')
<1> USE InstanceBoundsAssumption, InstIs
<1>1. QueueTakes("destroy")
  BY NextTaskIs DEF destroy_instance_comt
<1>2. PICK i \in Insts : i = mainQ[1].inst /\ i = browserAt.inst
  BY <1>1, WaitsForTaken DEF Waited
<1>3. browserAt.at = "destroy" /\ OneTaskIsWaitedFor' /\ inst[i].mem = "alive"
  <2>1. browserAt.at = "destroy" /\ OneTaskIsWaitedFor'
    BY <1>1, WaitsForTaken DEF Waited
  <2> QED
    BY <1>2, <2>1 DEF LifeOfInstance, LifeOf
<1>4. BrowserGets("destroyed", i)
  BY <1>1, <1>2, BrowserGoesTo DEF destroy_instance_comt, QueueTakes, BrowserPlaces
<1>5. /\ told' = [told EXCEPT ![i] = "destroyed"] /\ full' \subseteq full
      /\ UNCHANGED <<strayCall, ht, socket_ht, pipe, x11At, xq, asyncCalls,
                     typeCall, live, xButtons, pressed, steady>>
  BY <1>1, <1>2 DEF destroy_instance_comt, QueueTakes, x11Vars, inputVars
<1>6. /\ OnlyInst(i) /\ inst'[i].in_table = FALSE
      /\ \A j \in Insts : /\ inst'[j].mem = inst[j].mem /\ inst'[j].interfaces = inst[j].interfaces
                          /\ inst'[j].instance_loaded = inst[j].instance_loaded /\ SameWindow(j)
                          /\ inst'[j].im_context = inst[j].im_context
  <2> DEFINE r == [inst[i] EXCEPT !.in_table = FALSE, !.npp = FALSE]
  <2>1. inst[i] \in InstType
    OBVIOUS
  <2>2. r \in InstType
    BY <2>1, {} \in SUBSET Classes, TRUE \in BOOLEAN, InstRecords
  <2>3. /\ r.mem = inst[i].mem /\ r.in_table = FALSE
        /\ r.interfaces = inst[i].interfaces /\ r.instance_loaded = inst[i].instance_loaded
        /\ r.im_context = inst[i].im_context
        /\ r.windowed_mode = inst[i].windowed_mode /\ r.use_xembed = inst[i].use_xembed
        /\ r.wnd = inst[i].wnd
    BY <2>1 DEF InstType
  <2>4. inst' = [inst EXCEPT ![i] = r]
    BY <1>1, <1>2 DEF destroy_instance_comt, QueueTakes
  <2> HIDE DEF r
  <2>5. OnlyInst(i) /\ inst'[i] = r
    BY <2>2, <2>4, InstBecomes
  <2> QED
    BY <2>3, <2>5 DEF OnlyInst, SameWindow
<1> USE DEF BrowserGets
<1>7. InstTypes'
  BY <1>1, <1>4, <1>5, <1>6 DEF CallsInv, InstTypes, OnlyInst, QueueTakes
<1>8. ToldIsKnown'
  <2>1. told'[i] # "created" /\ ~inst'[i].in_table
    BY <1>5, <1>6
  <2>2. ASSUME NEW j \in Insts, j # i
        PROVE  told'[j] = "created" <=> inst'[j].in_table /\ inst'[j].interfaces
    BY <1>5, <1>6, <2>2 DEF OnlyInst, ToldIsKnown
  <2> QED
    BY <1>5, <2>1, <2>2 DEF ToldIsKnown
<1>9. TasksOfTheCreated'
  BY <1>1, <1>5, <1>6, TasksStay
<1>10. LifeOfInstance' /\ PipeOfBrowser'
  <2>1. LifeOf(i)'
    BY <1>3, <1>4, <1>6 DEF LifeOf
  <2>2. ASSUME NEW j \in Insts, j # i PROVE LifeOf(j)'
    BY <1>4, <1>5, <1>6, <2>2 DEF LifeOfInstance, LifeOf, OnlyInst
  <2> QED
    BY <1>3, <1>4, <1>5, <2>1, <2>2 DEF LifeOfInstance, PipeOfBrowser
<1>11. ASSUME ThreadParts PROVE ThreadParts'
  <2>1. ~inst[i].im_context /\ typeCall = NoTypeCall
    BY <1>2, <1>3, <1>11 DEF ThreadParts, MethodsHaveInstances, TypesInTime, Browser
  <2>2. WindowsHaveInstances'
    <3>1. ASSUME NEW w \in ht PROVE KeepsInstance(w)'
      <4>1. w.inst \in Insts /\ KeepsInstance(w)
        BY <1>11 DEF ThreadParts, WindowsHaveInstances
      <4> QED
        BY <1>2, <1>3, <1>4, <1>6, <4>1 DEF KeepsInstance, SameWindow
    <3> QED
      BY <1>5, <1>11, <3>1 DEF ThreadParts, WindowsHaveInstances
  <2>3. TypesInTime'
    BY <1>5, <2>1 DEF TypesInTime
  <2>5. MethodsHaveInstances'
    BY <1>4, <1>5, <1>6, <1>11, <2>1, ZenonT(60) DEF ThreadParts, MethodsHaveInstances
  <2> QED
    BY <2>2, <2>3, <2>5 DEF ThreadParts
<1> QED
  BY <1>3, <1>7, <1>8, <1>9, <1>10, <1>11 DEF CallsInv

(* A task that nobody waits for, and that may call the plugin for its instance. *)
LEMMA InstTask ==
  ASSUME CallsInv, NEW kind, kind \notin Waited, QueueTakes(kind),
         \/ UNCHANGED strayCall
         \/ tables_get_pp_instance(mainQ[1].inst) /\ CallPlugin(mainQ[1].inst),
         live' \in Int, pressed' \in [Insts -> SUBSET (0 .. 3)],
         UNCHANGED <<inst, told, browserAt, ht, socket_ht, pipe, x11At, xq, asyncCalls,
                     typeCall, full, xButtons, steady>>
  PROVE  CallsInv' /\ (ThreadParts => ThreadParts')
<1> USE InstIs
<1>1. strayCall' = FALSE
  <2>1. kind # "create" /\ 1 \in 1 .. Len(mainQ) /\ mainQ[1].inst \in Insts
    BY DEF Waited, QueueTakes
  <2>2. inst[mainQ[1].inst].interfaces
    BY <2>1 DEF QueueTakes, TasksOfTheCreated
  <2>3. tables_get_pp_instance(mainQ[1].inst) => told[mainQ[1].inst] = "created"
    BY <2>1, <2>2 DEF tables_get_pp_instance, ToldIsKnown
  <2> QED
    BY <2>3 DEF CallPlugin, ToldIsKnown
<1>2. InstTypes'
  BY DEF CallsInv, InstTypes, QueueTakes
<1>3. ToldIsKnown' /\ PipeOfBrowser' /\ LifeOfInstance'
  BY <1>1 DEF ToldIsKnown, PipeOfBrowser, LifeOfInstance, LifeOf
<1>4. OneTaskIsWaitedFor' /\ TasksOfTheCreated'
  BY WaitsStill, TasksStay
<1>5. SameLives \/ UNCHANGED strayCall
  BY <1>1 DEF ToldIsKnown
<1>6. ASSUME ThreadParts PROVE ThreadParts'
  BY <1>6 DEF ThreadParts, MethodsHaveInstances, WindowsHaveInstances, KeepsInstance, TypesInTime
<1> QED
  BY <1>2, <1>3, <1>4, <1>6 DEF CallsInv

LEMMA InstNotify ==
  ASSUME CallsInv, NEW kind \in {"view", "focus"},
         \/ Notify(kind)
         \/ NextTask(kind) /\ UNCHANGED <<inst, told, strayCall, browserAt, x11Vars, inputVars>>
  PROVE  CallsInv' /\ (ThreadParts => ThreadParts')
<1> USE InstIs
<1>1. QueueTakes(kind) /\ kind \notin Waited
  BY NextTaskIs DEF Notify, Waited
<1>2. /\ \/ UNCHANGED strayCall
         \/ tables_get_pp_instance(mainQ[1].inst) /\ CallPlugin(mainQ[1].inst)
      /\ UNCHANGED <<inst, told, browserAt, ht, socket_ht, pipe, x11At, xq, asyncCalls,
                     typeCall, live, full, xButtons, pressed, steady>>
  BY <1>1 DEF Notify, QueueTakes, x11Vars, inputVars
<1>3. live' \in Int /\ pressed' \in [Insts -> SUBSET (0 .. 3)]
  BY <1>2 DEF CallsInv, InstTypes
<1> QED
  BY <1>1, <1>2, <1>3, InstTask

LEMMA InstInput ==
  ASSUME CallsInv, call_ppp_handle_input_event_comt
  PROVE  CallsInv' /\ (ThreadParts => ThreadParts')
<1> USE InstIs
<1>1. QueueTakes("input") /\ "input" \notin Waited
  BY NextTaskIs DEF call_ppp_handle_input_event_comt, Waited
<1>2. /\ live' = live - 1
      /\ UNCHANGED <<inst, told, browserAt, ht, socket_ht, pipe, x11At, xq, asyncCalls,
                     typeCall, full, xButtons, steady>>
  BY DEF call_ppp_handle_input_event_comt, x11Vars
<1>3. live' \in Int
  BY <1>2 DEF CallsInv, InstTypes
<1> DEFINE ie == mainQ[1].event
           b == ppb_mouse_input_event_get_button(ie)
<1>4. \/ UNCHANGED <<strayCall, pressed>>
      \/ /\ tables_get_pp_instance(mainQ[1].inst) /\ CallPlugin(mainQ[1].inst)
         /\ pressed' = [pressed EXCEPT ![mainQ[1].inst] =
              CASE ppb_input_event_get_type(ie) = "MOUSEDOWN" -> @ \cup {b}
                [] ppb_input_event_get_type(ie) = "MOUSEUP" -> @ \ {b}
                [] OTHER -> @]
  BY <1>1 DEF call_ppp_handle_input_event_comt, QueueTakes
<1>5. pressed' \in [Insts -> SUBSET (0 .. 3)]
  <2>1. mainQ[1] \in TaskType /\ mainQ[1].inst \in Insts /\ pressed \in [Insts -> SUBSET (0 .. 3)]
    BY <1>1 DEF QueueTakes, CallsInv, InstTypes
  <2>2. ie \in InputEvent \cup {NoEvent}
    BY <2>1 DEF TaskType
  <2>3. b \in 0 .. 3
    BY <2>2 DEF InputEvent, NoEvent, NoButton, ppb_mouse_input_event_get_button
  <2> HIDE DEF b, ie
  <2>4. ASSUME NEW t, pressed' = [pressed EXCEPT ![mainQ[1].inst] =
                        CASE t = "MOUSEDOWN" -> @ \cup {b} [] t = "MOUSEUP" -> @ \ {b} [] OTHER -> @]
        PROVE  pressed' \in [Insts -> SUBSET (0 .. 3)]
    <3>1. CASE t = "MOUSEDOWN"
      BY <2>1, <2>3, <2>4, <3>1
    <3>2. CASE t = "MOUSEUP"
      BY <2>1, <2>4, <3>2
    <3>3. CASE t # "MOUSEDOWN" /\ t # "MOUSEUP"
      BY <2>1, <2>4, <3>3
    <3> QED
      BY <3>1, <3>2, <3>3
  <2> QED
    BY <1>4, <2>1, <2>4
<1> QED
  BY <1>1, <1>2, <1>3, <1>4, <1>5, InstTask
(* What the plugin asks for: events, and an input method. *)
LEMMA InstRequest ==
  ASSUME CallsInv, NEW i \in Insts, NEW m \in SUBSET Classes,
         inst' = [inst EXCEPT ![i].mask = m], steady' \subseteq Insts,
         UNCHANGED <<told, strayCall, browserAt, mainQ, ht, socket_ht, pipe, x11At, xq, asyncCalls,
                     typeCall, live, full, xButtons, pressed>>
  PROVE  CallsInv' /\ (ThreadParts => ThreadParts')
<1> USE InstIs
<1>1. /\ OnlyInst(i)
      /\ \A j \in Insts : /\ inst'[j].mem = inst[j].mem /\ inst'[j].in_table = inst[j].in_table
                          /\ inst'[j].interfaces = inst[j].interfaces
                          /\ inst'[j].instance_loaded = inst[j].instance_loaded /\ SameWindow(j)
                          /\ inst'[j].im_context = inst[j].im_context
  <2> DEFINE r == [inst[i] EXCEPT !.mask = m]
  <2>1. inst[i] \in InstType
    OBVIOUS
  <2>2. r \in InstType
    BY <2>1, TRUE \in BOOLEAN, InstRecords
  <2>3. /\ r.mem = inst[i].mem /\ r.in_table = inst[i].in_table
        /\ r.interfaces = inst[i].interfaces /\ r.instance_loaded = inst[i].instance_loaded
        /\ r.im_context = inst[i].im_context
        /\ r.windowed_mode = inst[i].windowed_mode /\ r.use_xembed = inst[i].use_xembed
        /\ r.wnd = inst[i].wnd
    BY <2>1 DEF InstType
  <2>4. inst' = [inst EXCEPT ![i] = r]
    OBVIOUS
  <2> HIDE DEF r
  <2>5. OnlyInst(i) /\ inst'[i] = r
    BY <2>2, <2>4, InstBecomes
  <2> QED
    BY <2>3, <2>5 DEF OnlyInst, SameWindow
<1>2. InstTypes'
  BY <1>1 DEF CallsInv, InstTypes, OnlyInst
<1>3. SameLives
  BY <1>1 DEF SameLives, SameWindow
<1>4. CallsInv'
  BY <1>2, <1>3, InstSameLives DEF TasksOfTheCreated
<1>5. ASSUME ThreadParts PROVE ThreadParts'
  BY <1>1, <1>3, <1>5, ThreadSameLives DEF ThreadParts, WindowsHaveInstances
<1> QED
  BY <1>4, <1>5

LEMMA InstInputEvents ==
  ASSUME CallsInv, PPB_InputEvent
  PROVE  CallsInv' /\ (ThreadParts => ThreadParts')
<1> USE InstIs
<1>1. PICK i \in Insts :
        \/ ppb_input_event_request_input_events(i, Classes)
        \/ ppb_input_event_clear_input_event_request(i, Classes)
  BY DEF PPB_InputEvent
<1>2. steady \subseteq Insts /\ inst[i].mask \in SUBSET Classes
  BY DEF CallsInv, InstTypes, InstType
<1>3. UNCHANGED <<told, strayCall, browserAt, mainQ, ht, socket_ht, pipe, x11At, xq, asyncCalls,
                  typeCall, live, full, xButtons, pressed>>
  BY <1>1 DEF ppb_input_event_request_input_events, ppb_input_event_clear_input_event_request, x11Vars
<1>4. steady' \subseteq Insts
  BY <1>1, <1>2 DEF ppb_input_event_request_input_events, ppb_input_event_clear_input_event_request
<1>5. CASE ppb_input_event_request_input_events(i, Classes)
  <2>1. inst' = [inst EXCEPT ![i].mask = inst[i].mask \cup Classes]
    BY <1>5 DEF ppb_input_event_request_input_events
  <2>2. inst[i].mask \cup Classes \in SUBSET Classes
    BY <1>2
  <2> QED
    BY <1>3, <1>4, <2>1, <2>2, InstRequest
<1>6. CASE ppb_input_event_clear_input_event_request(i, Classes)
  <2>1. inst' = [inst EXCEPT ![i].mask = inst[i].mask \ Classes]
    BY <1>6 DEF ppb_input_event_clear_input_event_request
  <2>2. inst[i].mask \ Classes \in SUBSET Classes
    BY <1>2
  <2> QED
    BY <1>3, <1>4, <2>1, <2>2, InstRequest
<1> QED
  BY <1>1, <1>5, <1>6

LEMMA InstTextInput ==
  ASSUME CallsInv, PPB_TextInput_Dev
  PROVE  CallsInv' /\ (ThreadParts /\ TypesLate = FALSE => ThreadParts')
<1> USE InstanceBoundsAssumption, InstIs
<1>1. PICK i \in Insts, text \in BOOLEAN : ppb_text_input_interface_set_text_input_type(i, text)
  BY DEF PPB_TextInput_Dev
<1>2. /\ told[i] = "created" /\ (TypesLate \/ browserAt.at = "idle")
      /\ typeCall' = [inst |-> i, text |-> text]
      /\ UNCHANGED <<inst, told, strayCall, browserAt, mainQ, ht, socket_ht, pipe, x11At, xq, asyncCalls,
                     live, full, xButtons, pressed, steady>>
  BY <1>1 DEF ppb_text_input_interface_set_text_input_type, x11Vars, Browser
<1>3. typeCall' \in [inst : Insts \cup {NoInst}, text : BOOLEAN] /\ typeCall'.inst = i
  BY <1>2
<1>4. InstTypes' /\ SameLives
  BY <1>2, <1>3 DEF CallsInv, InstTypes, SameLives
<1>5. CallsInv'
  BY <1>2, <1>4, InstSameLives DEF TasksOfTheCreated
<1>6. ASSUME ThreadParts, TypesLate = FALSE PROVE ThreadParts'
  <2>1. TypesInTime'
    BY <1>2, <1>3, <1>6 DEF TypesInTime
  <2>2. MethodsHaveInstances' /\ WindowsHaveInstances'
    BY <1>2, <1>6 DEF ThreadParts, MethodsHaveInstances, WindowsHaveInstances, KeepsInstance, Browser
  <2> QED
    BY <2>1, <2>2 DEF ThreadParts
<1> QED
  BY <1>5, <1>6

LEMMA InstSetType ==
  ASSUME CallsInv, set_text_input_type_ptac
  PROVE  CallsInv' /\ (ThreadParts => ThreadParts')
<1> USE InstanceBoundsAssumption, InstIs
<1>1. /\ typeCall # NoTypeCall /\ browserAt.at \in {"idle", "new", "destroy"}
      /\ typeCall' = NoTypeCall
      /\ UNCHANGED <<told, strayCall, browserAt, mainQ, ht, socket_ht, pipe, x11At, xq, asyncCalls,
                     live, full, xButtons, pressed, steady>>
  BY DEF set_text_input_type_ptac, x11Vars
<1>2. /\ typeCall' \in [inst : Insts \cup {NoInst}, text : BOOLEAN] /\ typeCall.text \in BOOLEAN
  BY <1>1 DEF NoTypeCall, CallsInv, InstTypes
<1>2a. typeCall.inst \in Insts
  BY <1>1 DEF CallsInv, InstTypes
<1>3. CASE inst' = inst
  <2>1. InstTypes' /\ SameLives
    BY <1>1, <1>2, <1>3 DEF CallsInv, InstTypes, SameLives
  <2>2. CallsInv'
    BY <1>1, <2>1, InstSameLives DEF TasksOfTheCreated
  <2>3. ASSUME ThreadParts PROVE ThreadParts'
    BY <1>1, <1>3, <2>3 DEF ThreadParts, MethodsHaveInstances, WindowsHaveInstances, KeepsInstance, TypesInTime
  <2> QED
    BY <2>2, <2>3
<1>4. ASSUME NEW i \in Insts, i = typeCall.inst, inst[i].in_table,
             inst' = [inst EXCEPT ![i].im_context = typeCall.text]
      PROVE  CallsInv' /\ (ThreadParts => ThreadParts')
  <2>1. /\ OnlyInst(i)
        /\ \A j \in Insts : /\ inst'[j].mem = inst[j].mem /\ inst'[j].in_table = inst[j].in_table
                            /\ inst'[j].interfaces = inst[j].interfaces
                            /\ inst'[j].instance_loaded = inst[j].instance_loaded /\ SameWindow(j)
                            /\ j # i => inst'[j].im_context = inst[j].im_context
    <3> DEFINE r == [inst[i] EXCEPT !.im_context = typeCall.text]
    <3>1. inst[i] \in InstType
      OBVIOUS
    <3>2. r \in InstType
      BY <1>2, <3>1, {} \in SUBSET Classes, InstRecords
    <3>3. /\ r.mem = inst[i].mem /\ r.in_table = inst[i].in_table
          /\ r.interfaces = inst[i].interfaces /\ r.instance_loaded = inst[i].instance_loaded
          /\ r.windowed_mode = inst[i].windowed_mode /\ r.use_xembed = inst[i].use_xembed
          /\ r.wnd = inst[i].wnd
      BY <3>1 DEF InstType
    <3>4. inst' = [inst EXCEPT ![i] = r]
      BY <1>4
    <3> HIDE DEF r
    <3>5. OnlyInst(i) /\ inst'[i] = r
      BY <3>2, <3>4, InstBecomes
    <3> QED
      BY <3>3, <3>5 DEF OnlyInst, SameWindow
  <2>2. InstTypes' /\ SameLives
    BY <1>1, <1>2, <2>1 DEF CallsInv, InstTypes, SameLives, OnlyInst, SameWindow
  <2>3. CallsInv'
    BY <1>1, <2>2, InstSameLives DEF TasksOfTheCreated
  <2>4. ASSUME ThreadParts PROVE ThreadParts'
    <3>1. told[i] # "no" /\ browserAt.at # "destroy" /\ inst[i].mem = "alive"
      BY <1>1, <1>4, <2>4 DEF ThreadParts, TypesInTime, LifeOfInstance, LifeOf
    <3>2. browserAt.inst # i
      BY <1>1, <3>1 DEF LifeOfInstance, LifeOf
    <3>3. WindowsHaveInstances' /\ TypesInTime'
      <4>1. ASSUME NEW w \in ht PROVE KeepsInstance(w)'
        <5>1. w.inst \in Insts /\ KeepsInstance(w)
          BY <2>4 DEF ThreadParts, WindowsHaveInstances
        <5> QED
          BY <1>1, <2>1, <5>1 DEF KeepsInstance, SameWindow
      <4> QED
        BY <1>1, <2>4, <4>1 DEF ThreadParts, WindowsHaveInstances, TypesInTime
    <3>6. \A j \in Insts : inst'[j].im_context =>
                             inst'[j].mem = "alive" /\ (browserAt'.inst = j => browserAt'.at = "register")
      <4>1. \A j \in Insts : inst[j].im_context =>
                               inst[j].mem = "alive" /\ (browserAt.inst = j => browserAt.at = "register")
        BY <2>4 DEF ThreadParts, MethodsHaveInstances
      <4>2. browserAt' = browserAt
        BY <1>1
      <4>3. ASSUME NEW j \in Insts, inst'[j].im_context
            PROVE  inst'[j].mem = "alive" /\ (browserAt'.inst = j => browserAt'.at = "register")
        <5>1. CASE j = i
          BY <2>1, <3>1, <3>2, <4>2, <5>1
        <5>2. CASE j # i
          <6>1. inst'[j].mem = inst[j].mem /\ inst'[j].im_context = inst[j].im_context
            BY <2>1, <5>2, Zenon
          <6> QED
            BY <4>1, <4>2, <4>3, <6>1
        <5> QED
          BY <5>1, <5>2, Zenon
      <4> QED
        BY <4>3, Zenon
    <3>7. MethodsHaveInstances'
      BY <3>6 DEF MethodsHaveInstances
    <3> QED
      BY <3>3, <3>7 DEF ThreadParts
  <2> QED
    BY <2>3, <2>4
<1> QED
  BY <1>2a, <1>3, <1>4 DEF set_text_input_type_ptac, tables_get_pp_instance

(* An instance goes to full screen or leaves it. *)
LEMMA InstFullscreen ==
  ASSUME CallsInv, NEW i \in Insts, IsFullscreenChanges(i)
  PROVE  CallsInv' /\ (ThreadParts => ThreadParts')
<1> USE InstIs
<1>1. /\ full' \subseteq full \cup {i} /\ steady' \subseteq steady
      /\ i \in full' => told[i] = "created"
      /\ UNCHANGED <<inst, told, strayCall, browserAt, mainQ, ht, socket_ht, pipe, x11At, xq, asyncCalls,
                     typeCall, live, xButtons, pressed>>
  BY DEF IsFullscreenChanges, x11Vars
<1>2. InstTypes' /\ SameLives
  BY <1>1 DEF CallsInv, InstTypes, SameLives
<1>3. \A j \in full' : inst[j].interfaces
  BY <1>1 DEF TasksOfTheCreated, ToldIsKnown, CallsInv, InstTypes
<1>4. CallsInv'
  BY <1>1, <1>2, <1>3, InstSameLives DEF TasksOfTheCreated
<1>5. ASSUME ThreadParts PROVE ThreadParts'
  BY <1>1, <1>2, <1>5, ThreadSameLives DEF SameWindow, ThreadParts, WindowsHaveInstances
<1> QED
  BY <1>4, <1>5

LEMMA InstStutter ==
  ASSUME CallsInv, UNCHANGED instVars
  PROVE  CallsInv' /\ (ThreadParts => ThreadParts')
<1>1. UNCHANGED <<inst, told, strayCall, browserAt, mainQ, ht, socket_ht, pipe, x11At, xq, asyncCalls,
                  typeCall, live, full, xButtons, pressed, steady>>
  BY DEF instVars
<1>2. InstTypes' /\ SameLives
  BY <1>1 DEF CallsInv, InstTypes, SameLives
<1>3. CallsInv'
  BY <1>1, <1>2, InstIs, InstSameLives DEF TasksOfTheCreated
<1>4. ASSUME ThreadParts PROVE ThreadParts'
  BY <1>1, <1>4 DEF ThreadParts, MethodsHaveInstances, WindowsHaveInstances, KeepsInstance, TypesInTime
<1> QED
  BY <1>3, <1>4

LEMMA InstInit ==
  ASSUME InstancesInit
  PROVE  CallsInv /\ ThreadParts
<1> USE InstanceBoundsAssumption DEF InstancesInit
<1>1. /\ x11At \in X11Places
      /\ x11At.at = "poll"
  BY DEF X11Places
<1>2. /\ browserAt \in [at : BrowserPlaces, inst : Insts \cup {NoInst}]
      /\ browserAt.at = "idle" /\ browserAt.inst = NoInst
  BY DEF BrowserPlaces
<1>3. inst \in [Insts -> InstType]
  BY DEF InstType
<1>4. \A i \in Insts : /\ inst[i].mem = "none" /\ inst[i].in_table = FALSE /\ inst[i].interfaces = FALSE
                       /\ inst[i].instance_loaded = FALSE /\ inst[i].im_context = FALSE
  OBVIOUS
<1>5. mainQ \in Seq(TaskType) /\ xq \in Seq(XEventOf) /\ asyncCalls \in Seq(XEventOf) /\ Len(mainQ) = 0
  OBVIOUS
<1>6. typeCall \in [inst : Insts \cup {NoInst}, text : BOOLEAN]
  BY DEF NoTypeCall
<1>7. InstTypes
  <2>1. /\ told \in [Insts -> {"no", "created", "destroyed"}] /\ live \in Int
        /\ xButtons \in [Insts -> SUBSET (1 .. 3)] /\ pressed \in [Insts -> SUBSET (0 .. 3)]
    OBVIOUS
  <2>2. /\ ht \subseteq Windows /\ socket_ht \subseteq Windows /\ full \subseteq Insts /\ steady \subseteq Insts
        /\ pipe = "empty" /\ typeCall = NoTypeCall
    OBVIOUS
  <2> QED
    BY <1>1, <1>2, <1>3, <1>5, <1>6, <2>1, <2>2, Zenon DEF InstTypes
<1>8. ToldIsKnown /\ PipeOfBrowser
  BY <1>2, <1>4 DEF ToldIsKnown, PipeOfBrowser
<1>9. LifeOfInstance
  BY <1>2, <1>4 DEF LifeOfInstance, LifeOf
<1>10. OneTaskIsWaitedFor /\ TasksOfTheCreated
  BY <1>4, <1>5 DEF OneTaskIsWaitedFor, TasksOfTheCreated
<1>11. ThreadParts
  BY <1>1, <1>2, <1>4 DEF ThreadParts, MethodsHaveInstances, WindowsHaveInstances, TypesInTime
<1> QED
  BY <1>7, <1>8, <1>9, <1>10, <1>11 DEF CallsInv

LEMMA InstNext ==
  ASSUME CallsInv, [InstancesNext]_instVars
  PROVE  CallsInv' /\ (ThreadParts /\ TypesLate = FALSE => ThreadParts')
<1>1. ASSUME main_thread PROVE CallsInv' /\ (ThreadParts => ThreadParts')
  <2>1. CASE set_window_comt \/ call_ppp_did_change_focus_comt
    BY <2>1, InstNotify DEF set_window_comt, call_ppp_did_change_focus_comt
  <2> QED
    BY <1>1, <2>1, InstDidCreate, InstDidDestroy, InstInput DEF main_thread
<1>2. ASSUME x11_event_thread_func \/ BrowserWaits PROVE CallsInv' /\ (ThreadParts => ThreadParts')
  BY <1>2, InstHandleTask, InstHandleXEvent, InstPostXEvent, InstBarrier, InstNewReturns,
     InstDestroyReturns DEF x11_event_thread_func, BrowserWaits
<1>3. ASSUME NEW i \in Insts,
             \/ NPP_New(i) \/ NPP_Destroy(i) \/ IsFullscreenChanges(i)
             \/ \E n \in Wins : NPP_SetWindow(i, n)
             \/ \E e \in XEvents : BrowserEvent(i, e) \/ FullscreenEvent(i, e)
      PROVE  CallsInv' /\ (ThreadParts /\ TypesLate = FALSE => ThreadParts')
  BY <1>3, InstNew, InstSetWindow, InstDestroy, InstBrowserEvent, InstFullscreenEvent, InstFullscreen
<1> QED
  BY <1>1, <1>2, <1>3, InstUserEvent, InstInputEvents, InstTextInput, InstSetType, InstHandleEvent, InstStutter
     DEF InstancesNext

(* For any number of instances, events and tasks in the queues: no function *)
(* of PPP_Instance or PPP_InputEvent is called for an instance before its   *)
(* DidCreate or after its DidDestroy, though NPP_Destroy comes with tasks   *)
(* of the instance queued, and the table of instances agrees with what the  *)
(* plugin was told.                                                         *)
THEOREM CallsAreBetweenCreateAndDestroyCorrect ==
  InstancesSpec => []CallsAreBetweenCreateAndDestroy
<1>1. InstancesInit => CallsInv
  BY InstInit
<1>2. CallsInv /\ [InstancesNext]_instVars => CallsInv'
  BY InstNext
<1>3. CallsInv => CallsAreBetweenCreateAndDestroy
  <2> SUFFICES ASSUME CallsInv PROVE CallsAreBetweenCreateAndDestroy
    OBVIOUS
  <2>1. /\ \A k \in 1 .. Len(mainQ) : mainQ[k] \in TaskType
        /\ \A k \in 1 .. Len(xq) : xq[k] \in XEventOf
        /\ \A k \in 1 .. Len(asyncCalls) : asyncCalls[k] \in XEventOf
    <3>1. \A S, q : q \in Seq(S) => \A k \in 1 .. Len(q) : q[k] \in S
      OBVIOUS
    <3>2. mainQ \in Seq(TaskType) /\ xq \in Seq(XEventOf) /\ asyncCalls \in Seq(XEventOf)
      BY InstIs
    <3> QED
      BY <3>1, <3>2, Zenon
  <2>2. strayCall = FALSE
    BY InstIs DEF ToldIsKnown
  <2>3. InstancesTypeOK
    BY <2>1, <2>2 DEF CallsInv, InstTypes, InstancesTypeOK, BrowserPlaces, X11Places
  <2> QED
    BY <2>2, <2>3, InstIs DEF CallsAreBetweenCreateAndDestroy, ToldIsKnown
<1> QED
  BY <1>1, <1>2, <1>3, PTL DEF InstancesSpec

(* For any number of instances and of windows they get one after another,   *)
(* when no SetTextInputType call is on the way while NPP_Destroy runs: an   *)
(* instance that x11et_handle_xevent found by its last window is not freed  *)
(* before it is used, unless the window is embedded, and no input method is *)
(* chosen for an instance that has let go of it.                            *)
THEOREM EventThreadHasItsInstanceCorrect ==
  ASSUME TypesLate = FALSE
  PROVE  InstancesSpec => []EventThreadHasItsInstance
<1>1. InstancesInit => ThreadInv
  BY InstInit DEF ThreadInv
<1>2. ThreadInv /\ [InstancesNext]_instVars => ThreadInv'
  BY InstNext DEF ThreadInv
<1>3. ThreadInv => EventThreadHasItsInstance
  <2> SUFFICES ASSUME ThreadInv PROVE EventThreadHasItsInstance
    OBVIOUS
  <2>1. ASSUME x11At.at = "use", NEW w, w = x11At.x.wnd
        PROVE  inst[w.inst].mem = "alive" \/ inst[w.inst].use_xembed \/ inst[w.inst].wnd # w.no
    BY <2>1 DEF ThreadInv, ThreadParts, WindowsHaveInstances, KeepsInstance
  <2> QED
    BY <2>1 DEF ThreadInv, ThreadParts, MethodsHaveInstances, EventThreadHasItsInstance, Browser
<1> QED
  BY <1>1, <1>2, <1>3, PTL DEF InstancesSpec

-----------------------------------------------------------------------------
(* OpenGL ES: the types. *)

MaybeCtx == Ctxs \cup {Nobody}
PluginCalls == TableCalls \cup {"plain", "UnmapTexSubImage2D", "resize"}
Fns == PluginCalls \cup {"none", "create", "resized", "destroy", "expose"}
CtxType ==
  [state : {"none", "live", "dying", "gone"}, group : MaybeCtx, held : BOOLEAN,
   user : GLThreads \cup {Nobody}, bound : BOOLEAN]
CallType == [fn : Fns, ctx : MaybeCtx, step : {"idle", "lock", "call", "destroy"}, share : MaybeCtx]
MaybeType == ShaderTypes \cup {"none"}
ShaderType == [type : MaybeType, body : GLSources \cup {Nobody}, as : MaybeType]

GLTypes ==
  /\ g3d \in [Ctxs -> CtxType] /\ subMaps \in [Ctxs -> SUBSET Mems]
  /\ current \in [GLThreads -> MaybeCtx] /\ displayLock \in GLThreads \cup {Nobody}
  /\ glCall \in [GLThreads -> CallType]
  /\ driver \in [Ctxs -> [Shaders -> ShaderType]]
  /\ typeTable \in [Shaders -> MaybeType] /\ sourceTable \in [Shaders -> GLSources \cup {Nobody}]

(* Where a thread is: display.lock is held in a call and nowhere else; a   *)
(* call has acquired its context, which is alive, and the plugin's thread  *)
(* drops no reference meanwhile.                                           *)
CallOf(t) ==
  LET mine == glCall[t] IN
  /\ mine.step = "call" <=> displayLock = t
  /\ mine.step = "idle" => mine.fn \in {"none", "resized"}
  /\ mine.step \in {"lock", "call"} /\ mine.fn # "create" =>
       /\ mine.ctx \in Ctxs /\ Live(mine.ctx) /\ g3d[mine.ctx].user = t
       /\ mine.fn \in IF t = GLPlugin THEN PluginCalls ELSE {"expose"}
       /\ t = GLPlugin => Referenced(mine.ctx)
  /\ mine.step = "call" => mine.fn # "create" /\ (mine.fn # "expose" => current[t] = mine.ctx)
  /\ mine.step = "destroy" => mine.fn = "destroy" /\ mine.ctx \in Ctxs /\ g3d[mine.ctx].state = "dying"
  /\ mine.fn = "create" => t = GLPlugin /\ mine.step = "lock" /\ mine.ctx \in Ctxs
                           /\ g3d[mine.ctx].state = "none"

(* Only the plugin's thread makes contexts current, and between calls only  *)
(* a resized one stays so.                                                 *)
WhatIsCurrent ==
  /\ current[GLBrowser] = Nobody
  /\ current[GLPlugin] # Nobody =>
       /\ Live(current[GLPlugin]) /\ Referenced(current[GLPlugin])
       /\ Idle(GLPlugin) => glCall[GLPlugin].fn = "resized" /\ glCall[GLPlugin].ctx = current[GLPlugin]

ContextsAreUsed == \A c \in Ctxs : Live(c) => Referenced(c) \/ g3d[c].user # Nobody

OneDestroys ==
  glCall[GLPlugin].step = "destroy" /\ glCall[GLBrowser].step = "destroy" =>
    glCall[GLPlugin].ctx # glCall[GLBrowser].ctx

IsolationInv ==
  GLTypes /\ (\A t \in GLThreads : CallOf(t)) /\ WhatIsCurrent /\ ContextsAreUsed /\ OneDestroys

(* A share group is named by its first context. *)
GroupsExist ==
  /\ \A c \in Ctxs : g3d[c].state \in {"live", "dying"} =>
       g3d[c].group \in Ctxs /\ g3d[g3d[c].group].state # "none"
  /\ \A c \in Ctxs, s \in Shaders : g3d[c].state = "none" => driver[c][s] = NoShader

(* The context that is being created will share its objects. *)
Creates == glCall[GLPlugin].fn = "create"
Shared == glCall[GLPlugin].share
SharesGroup(g) == Creates /\ Shared \in Ctxs /\ g3d[Shared].group = g

(* One share group is in use. *)
OneGroup ==
  /\ \A c, d \in Ctxs : Live(c) /\ Live(d) => g3d[c].group = g3d[d].group
  /\ Creates =>
       IF Shared = Nobody THEN \A c \in Ctxs : ~Live(c)
       ELSE /\ g3d[Shared].group \in Ctxs /\ g3d[g3d[Shared].group].state # "none"
            /\ \A c \in Ctxs : Live(c) => g3d[c].group = g3d[Shared].group

InUse(g) == (\E c \in Ctxs : Live(c) /\ g3d[c].group = g) \/ SharesGroup(g)
TablesOf(g) ==
  \A s \in Shaders : driver[g][s] # NoShader =>
    /\ typeTable[s] = driver[g][s].type
    /\ driver[g][s].body # Nobody =>
         driver[g][s].as = driver[g][s].type /\ sourceTable[s] = driver[g][s].body
TablesAgree == \A g \in Ctxs : InUse(g) => TablesOf(g)

TablesInv == GroupsExist /\ OneGroup /\ TablesAgree
GLInv == IsolationInv /\ TablesInv

-----------------------------------------------------------------------------
(* What a step does to context c and to the call of thread t. *)

OnlyCtx(c) == g3d' \in [Ctxs -> CtxType] /\ \A d \in Ctxs \ {c} : g3d'[d] = g3d[d]
OnlyCall(t) == glCall' \in [GLThreads -> CallType] /\ \A u \in GLThreads \ {t} : glCall'[u] = glCall[u]
SameRefs(c) == g3d'[c].group = g3d[c].group /\ g3d'[c].held = g3d[c].held /\ g3d'[c].bound = g3d[c].bound

LEMMA CtxBecomes ==
  ASSUME g3d \in [Ctxs -> CtxType], NEW c \in Ctxs, NEW r \in CtxType, g3d' = [g3d EXCEPT ![c] = r]
  PROVE  OnlyCtx(c) /\ g3d'[c] = r
BY DEF OnlyCtx

LEMMA CallBecomes ==
  ASSUME glCall \in [GLThreads -> CallType], NEW t \in GLThreads, NEW r \in CallType,
         glCall' = [glCall EXCEPT ![t] = r]
  PROVE  OnlyCall(t) /\ glCall'[t] = r
BY DEF OnlyCall

LEMMA ThreadsAre ==
  /\ GLPlugin \in GLThreads /\ GLBrowser \in GLThreads /\ Nobody \notin GLThreads /\ Nobody \notin Ctxs
  /\ \A t \in GLThreads : t = GLPlugin \/ t = GLBrowser
  /\ GLPlugin # GLBrowser
BY GLAssumption DEF GLThreads

LEMMA IsoIs ==
  ASSUME IsolationInv
  PROVE  /\ g3d \in [Ctxs -> CtxType] /\ current \in [GLThreads -> MaybeCtx]
         /\ glCall \in [GLThreads -> CallType] /\ displayLock \in GLThreads \cup {Nobody}
         /\ \A t \in GLThreads : CallOf(t)
         /\ WhatIsCurrent /\ ContextsAreUsed /\ OneDestroys
BY DEF IsolationInv, GLTypes

(* A context that a thread has just begun to destroy was alive. *)
LEMMA IsoOneDestroys ==
  ASSUME IsolationInv, NEW t \in GLThreads, OnlyCall(t),
         glCall'[t].step = "destroy" => Live(glCall'[t].ctx)
  PROVE  OneDestroys'
<1>1. \A u \in GLThreads : glCall[u].step = "destroy" => ~Live(glCall[u].ctx)
  BY IsoIs DEF CallOf, Live
<1> QED
  BY <1>1, ThreadsAre DEF OnlyCall, OneDestroys

(* The end of a call: display.lock is free, the context released, and      *)
(* destroyed by this thread if nobody else refers to it.                   *)
LEMMA ReleaseIs ==
  ASSUME IsolationInv, NEW t \in GLThreads, NEW c \in Ctxs, c = glCall[t].ctx, UnlockAndRelease(t)
  PROVE  /\ displayLock' = Nobody /\ OnlyCtx(c) /\ OnlyCall(t) /\ SameRefs(c)
         /\ g3d'[c].user = Nobody
         /\ g3d'[c].state = IF Referenced(c) THEN g3d[c].state ELSE "dying"
         /\ Referenced(c) => /\ glCall'[t].step = "idle" /\ glCall'[t].fn \in {"none", "resized"}
                             /\ glCall[t].fn = "resize" =>
                                  glCall'[t].fn = "resized" /\ glCall'[t].ctx = c
         /\ ~Referenced(c) => /\ glCall'[t].step = "destroy" /\ glCall'[t].fn = "destroy"
                              /\ glCall'[t].ctx = c
<1> USE IsoIs, ThreadsAre
<1>1. displayLock' = Nobody
  BY DEF UnlockAndRelease
<1>2. /\ OnlyCtx(c) /\ SameRefs(c) /\ g3d'[c].user = Nobody
      /\ g3d'[c].state = IF Referenced(c) THEN g3d[c].state ELSE "dying"
  <2> DEFINE r == [g3d[c] EXCEPT !.user = Nobody, !.state = IF Referenced(c) THEN g3d[c].state ELSE "dying"]
  <2>1. g3d' = [g3d EXCEPT ![c] = r]
    BY DEF UnlockAndRelease
  <2>2. g3d[c] \in CtxType
    OBVIOUS
  <2>3. /\ r \in CtxType /\ r.user = Nobody /\ r.group = g3d[c].group /\ r.held = g3d[c].held
        /\ r.bound = g3d[c].bound /\ r.state = IF Referenced(c) THEN g3d[c].state ELSE "dying"
    BY <2>2 DEF CtxType
  <2> HIDE DEF r
  <2> QED
    BY <2>1, <2>3, CtxBecomes DEF SameRefs
<1>3. CASE Referenced(c)
  <2> DEFINE r == Ended(glCall[t])
  <2>1. glCall' = [glCall EXCEPT ![t] = r]
    BY <1>3 DEF UnlockAndRelease, AfterDrop
  <2>2. /\ r \in CallType /\ r.step = "idle" /\ r.fn \in {"none", "resized"}
        /\ glCall[t].fn = "resize" => r.fn = "resized" /\ r.ctx = c
    <3>1. CASE glCall[t].fn \in {"resize", "resized"}
      <4>2. r = [fn |-> "resized", ctx |-> c, step |-> "idle", share |-> Nobody]
        BY <3>1 DEF Ended, Resized
      <4>3. r \in CallType
        BY <4>2 DEF CallType, Fns, MaybeCtx
      <4> QED
        BY <4>2, <4>3
    <3>2. CASE glCall[t].fn \notin {"resize", "resized"}
      <4>1. r = NoCall
        BY <3>2 DEF Ended
      <4> QED
        BY <3>2, <4>1 DEF NoCall, CallType, Fns, MaybeCtx
    <3> QED
      BY <3>1, <3>2
  <2> HIDE DEF r
  <2> QED
    BY <1>1, <1>2, <1>3, <2>1, <2>2, CallBecomes
<1>4. CASE ~Referenced(c)
  <2> DEFINE r == [NoCall EXCEPT !.fn = "destroy", !.ctx = c, !.step = "destroy"]
  <2>1. glCall' = [glCall EXCEPT ![t] = r]
    BY <1>4 DEF UnlockAndRelease, AfterDrop
  <2>2. /\ r \in CallType /\ r.step = "destroy" /\ r.fn = "destroy" /\ r.ctx = c
    BY DEF NoCall, CallType, Fns, MaybeCtx
  <2> HIDE DEF r
  <2> QED
    BY <1>1, <1>2, <1>4, <2>1, <2>2, CallBecomes
<1> QED
  BY <1>3, <1>4

-----------------------------------------------------------------------------
(* Every step keeps IsolationInv while a resized context is not released   *)
(* before the next call.                                                   *)

TableTypes ==
  /\ driver \in [Ctxs -> [Shaders -> ShaderType]]
  /\ typeTable \in [Shaders -> MaybeType] /\ sourceTable \in [Shaders -> GLSources \cup {Nobody}]

LEMMA IsoRelease ==
  ASSUME IsolationInv, NEW t \in GLThreads, glCall[t].step = "call", UnlockAndRelease(t),
         \/ current' = [current EXCEPT ![t] = Nobody]
         \/ UNCHANGED current /\ glCall[t].fn \in {"resize", "expose"},
         subMaps' \in [Ctxs -> SUBSET Mems], TableTypes'
  PROVE  IsolationInv'
<1> USE IsoIs, ThreadsAre
<1>1. PICK c \in Ctxs : /\ c = glCall[t].ctx /\ Live(c) /\ g3d[c].user = t /\ displayLock = t
                        /\ t = GLPlugin => Referenced(c)
                        /\ glCall[t].fn \in IF t = GLPlugin THEN PluginCalls ELSE {"expose"}
  BY DEF CallOf
<1>2. /\ displayLock' = Nobody /\ OnlyCtx(c) /\ OnlyCall(t) /\ SameRefs(c)
      /\ g3d'[c].user = Nobody
      /\ g3d'[c].state = IF Referenced(c) THEN g3d[c].state ELSE "dying"
      /\ Referenced(c) => /\ glCall'[t].step = "idle" /\ glCall'[t].fn \in {"none", "resized"}
                          /\ glCall[t].fn = "resize" =>
                               glCall'[t].fn = "resized" /\ glCall'[t].ctx = c
      /\ ~Referenced(c) => /\ glCall'[t].step = "destroy" /\ glCall'[t].fn = "destroy"
                           /\ glCall'[t].ctx = c
  BY <1>1, ReleaseIs
<1>3. GLTypes'
  <2>1. current' \in [GLThreads -> MaybeCtx]
    BY DEF MaybeCtx
  <2> QED
    BY <1>2, <2>1 DEF GLTypes, TableTypes, OnlyCtx, OnlyCall
<1>4. CallOf(t)'
  BY <1>1, <1>2 DEF CallOf
<1>5. ASSUME NEW u \in GLThreads, u # t PROVE CallOf(u)'
  <2>1. /\ glCall'[u] = glCall[u] /\ glCall[u].step # "call" /\ displayLock' # u
        /\ glCall[u].step \in {"lock", "destroy"} => glCall[u].ctx \in Ctxs /\ glCall[u].ctx # c
    BY <1>1, <1>2, <1>5 DEF CallOf, OnlyCall, Live
  <2>2. CallOf(u)
    OBVIOUS
  <2>3. glCall[u].step \in {"lock", "destroy"} => g3d'[glCall[u].ctx] = g3d[glCall[u].ctx]
    BY <1>2, <2>1 DEF OnlyCtx
  <2> QED
    BY <2>1, <2>2, <2>3 DEF CallOf, Live, Referenced
<1>6. WhatIsCurrent'
  <2>1. CASE t = GLPlugin
    <3>1. current'[GLBrowser] = Nobody
      BY <2>1 DEF WhatIsCurrent
    <3>2. current'[GLPlugin] # Nobody => /\ current'[GLPlugin] = c /\ glCall[t].fn = "resize"
      BY <1>1, <2>1 DEF CallOf, PluginCalls, TableCalls
    <3>3. Live(c)' /\ Referenced(c)'
      BY <1>1, <1>2, <2>1 DEF Live, Referenced, SameRefs
    <3> QED
      BY <1>1, <1>2, <2>1, <3>1, <3>2, <3>3 DEF WhatIsCurrent, Live, Referenced
  <2>2. CASE t = GLBrowser
    <3>1. current'[GLBrowser] = Nobody /\ current'[GLPlugin] = current[GLPlugin]
      BY <2>2 DEF WhatIsCurrent
    <3>2. glCall'[GLPlugin] = glCall[GLPlugin]
      BY <1>2, <2>2 DEF OnlyCall
    <3>3. ASSUME current[GLPlugin] # Nobody
          PROVE  Live(current[GLPlugin])' /\ Referenced(current[GLPlugin])'
      <4>1. PICK p \in Ctxs : p = current[GLPlugin] /\ Live(p) /\ Referenced(p)
        BY <3>3 DEF WhatIsCurrent, MaybeCtx
      <4>2. CASE p = c
        BY <1>2, <3>1, <4>1, <4>2 DEF Live, Referenced, SameRefs
      <4>3. CASE p # c
        BY <1>2, <3>1, <4>1, <4>3 DEF Live, Referenced, OnlyCtx
      <4> QED
        BY <4>2, <4>3
    <3> QED
      BY <3>1, <3>2, <3>3 DEF WhatIsCurrent, Idle
  <2> QED
    BY <2>1, <2>2
<1>7. ContextsAreUsed'
  <2>1. Live(c)' => Referenced(c)'
    BY <1>2 DEF Live, Referenced, SameRefs
  <2>2. ASSUME NEW d \in Ctxs, d # c PROVE Live(d)' => Referenced(d)' \/ g3d'[d].user # Nobody
    BY <1>2, <2>2 DEF ContextsAreUsed, OnlyCtx, Live, Referenced
  <2> QED
    BY <2>1, <2>2 DEF ContextsAreUsed
<1>20. OneDestroys'
  BY <1>1, <1>2, IsoOneDestroys
<1> QED
  BY <1>3, <1>4, <1>5, <1>6, <1>7, <1>20 DEF IsolationInv

LEMMA IsoLock ==
  ASSUME IsolationInv, NEW t \in GLThreads, LockAndMakeCurrent(t)
  PROVE  IsolationInv'
<1> USE IsoIs, ThreadsAre
<1>1. /\ glCall[t].step = "lock" /\ glCall[t].fn # "create" /\ displayLock = Nobody /\ displayLock' = t
      /\ UNCHANGED <<g3d, subMaps, driver, typeTable, sourceTable>>
  BY DEF LockAndMakeCurrent, glTables
<1>2. PICK c \in Ctxs : /\ c = glCall[t].ctx /\ Live(c) /\ g3d[c].user = t
                        /\ t = GLPlugin => Referenced(c)
                        /\ glCall[t].fn \in IF t = GLPlugin THEN PluginCalls ELSE {"expose"}
  BY <1>1 DEF CallOf
<1>3. /\ OnlyCall(t) /\ glCall'[t].step = "call" /\ glCall'[t].fn = glCall[t].fn /\ glCall'[t].ctx = c
  <2> DEFINE r == [glCall[t] EXCEPT !.step = "call"]
  <2>1. glCall' = [glCall EXCEPT ![t] = r]
    BY DEF LockAndMakeCurrent
  <2>2. glCall[t] \in CallType
    OBVIOUS
  <2>3. r \in CallType /\ r.step = "call" /\ r.fn = glCall[t].fn /\ r.ctx = c
    BY <1>2, <2>2 DEF CallType
  <2> HIDE DEF r
  <2> QED
    BY <2>1, <2>3, CallBecomes
<1>4. current' = IF t = GLPlugin THEN [current EXCEPT ![t] = c] ELSE current
  <2>1. CASE t = GLPlugin
    <3>1. glCall[t].fn # "expose"
      BY <1>2, <2>1 DEF PluginCalls, TableCalls
    <3>2. current' = MakeCurrent(t, c)
      BY <1>2, <3>1 DEF LockAndMakeCurrent
    <3>3. \A u \in GLThreads \ {t} : current[u] # c
      BY <2>1 DEF WhatIsCurrent
    <3> QED
      BY <2>1, <3>2, <3>3 DEF MakeCurrent
  <2>2. CASE t # GLPlugin
    BY <1>2, <2>2 DEF LockAndMakeCurrent
  <2> QED
    BY <2>1, <2>2
<1>5. GLTypes'
  <2>1. current' \in [GLThreads -> MaybeCtx]
    BY <1>4 DEF MaybeCtx
  <2> QED
    BY <1>1, <1>3, <2>1 DEF IsolationInv, GLTypes, OnlyCall
<1>6. CallOf(t)'
  <2>1. t = GLPlugin => current'[t] = c
    BY <1>4
  <2>2. glCall[t].fn # "expose" => t = GLPlugin
    BY <1>2
  <2> QED
    BY <1>1, <1>2, <1>3, <2>1, <2>2 DEF CallOf, Live, Referenced
<1>7. ASSUME NEW u \in GLThreads, u # t PROVE CallOf(u)'
  <2>1. glCall'[u] = glCall[u] /\ glCall[u].step # "call" /\ displayLock' # u
    BY <1>1, <1>3, <1>7 DEF CallOf, OnlyCall
  <2>2. CallOf(u)
    OBVIOUS
  <2> QED
    BY <1>1, <2>1, <2>2 DEF CallOf, Live, Referenced
<1>8. WhatIsCurrent'
  <2>1. CASE t = GLPlugin
    <3>1. current'[GLBrowser] = Nobody /\ current'[GLPlugin] = c
      BY <1>4, <2>1 DEF WhatIsCurrent
    <3> QED
      BY <1>1, <1>2, <1>3, <2>1, <3>1 DEF WhatIsCurrent, Live, Referenced, Idle
  <2>2. CASE t # GLPlugin
    BY <1>1, <1>3, <1>4, <2>2 DEF WhatIsCurrent, Live, Referenced, Idle, OnlyCall
  <2> QED
    BY <2>1, <2>2
<1>9. ContextsAreUsed'
  BY <1>1 DEF ContextsAreUsed, Live, Referenced
<1>20. OneDestroys'
  BY <1>3, IsoOneDestroys
<1> QED
  BY <1>5, <1>6, <1>7, <1>8, <1>9, <1>20 DEF IsolationInv

LEMMA IsoPrologue ==
  ASSUME IsolationInv, NEW t \in GLThreads, NEW c \in Ctxs, NEW fn, Prologue(t, c, fn),
         fn \in IF t = GLPlugin THEN PluginCalls ELSE {"expose"}
  PROVE  IsolationInv'
<1> USE IsoIs, ThreadsAre
<1>1. /\ glCall[t].step = "idle" /\ Live(c) /\ g3d[c].user = Nobody /\ Referenced(c)
      /\ UNCHANGED <<subMaps, current, displayLock, driver, typeTable, sourceTable>>
  BY DEF Prologue, Idle, glTables, ContextsAreUsed
<1>2. OnlyCtx(c) /\ SameRefs(c) /\ g3d'[c].user = t /\ g3d'[c].state = g3d[c].state
  <2> DEFINE r == [g3d[c] EXCEPT !.user = t]
  <2>1. g3d' = [g3d EXCEPT ![c] = r]
    BY DEF Prologue
  <2>2. g3d[c] \in CtxType
    OBVIOUS
  <2>3. /\ r \in CtxType /\ r.user = t /\ r.state = g3d[c].state
        /\ r.group = g3d[c].group /\ r.held = g3d[c].held /\ r.bound = g3d[c].bound
    BY <2>2 DEF CtxType
  <2> HIDE DEF r
  <2> QED
    BY <2>1, <2>3, CtxBecomes DEF SameRefs
<1>3. OnlyCall(t) /\ glCall'[t].step = "lock" /\ glCall'[t].fn = fn /\ glCall'[t].ctx = c
  <2> DEFINE r == [NoCall EXCEPT !.fn = fn, !.ctx = c, !.step = "lock"]
  <2>1. glCall' = [glCall EXCEPT ![t] = r]
    BY DEF Prologue
  <2>2. fn \in Fns
    BY DEF Fns
  <2>3. r \in CallType /\ r.step = "lock" /\ r.fn = fn /\ r.ctx = c
    BY <2>2 DEF CallType, NoCall, MaybeCtx
  <2> HIDE DEF r
  <2> QED
    BY <2>1, <2>3, CallBecomes
<1>4. GLTypes'
  BY <1>1, <1>2, <1>3 DEF IsolationInv, GLTypes, OnlyCall, OnlyCtx
<1>5. CallOf(t)'
  <2>1. fn # "create"
    BY DEF PluginCalls, TableCalls
  <2>2. displayLock # t
    BY <1>1 DEF CallOf
  <2>3. Live(c)' /\ Referenced(c)'
    BY <1>1, <1>2 DEF Live, Referenced, SameRefs
  <2> QED
    BY <1>1, <1>2, <1>3, <2>1, <2>2, <2>3 DEF CallOf, Live, Referenced
<1>6. ASSUME NEW u \in GLThreads, u # t PROVE CallOf(u)'
  <2>1. glCall'[u] = glCall[u]
    BY <1>3, <1>6 DEF OnlyCall
  <2>2. CallOf(u)
    OBVIOUS
  <2>3. glCall[u].step # "idle" =>
          /\ glCall[u].ctx \in Ctxs /\ glCall[u].ctx # c
          /\ g3d'[glCall[u].ctx] = g3d[glCall[u].ctx]
    <3>1. glCall[u] \in CallType
      OBVIOUS
    <3>2. glCall[u].step # "idle" => glCall[u].ctx \in Ctxs /\ glCall[u].ctx # c
      BY <1>1, <2>2, <3>1 DEF CallOf, Live, CallType
    <3> QED
      BY <1>2, <3>2 DEF OnlyCtx
  <2> QED
    BY <1>1, <2>1, <2>2, <2>3 DEF CallOf, Live, Referenced
<1>7. \A d \in Ctxs : /\ g3d'[d].state = g3d[d].state /\ g3d'[d].held = g3d[d].held
                      /\ g3d'[d].bound = g3d[d].bound
  BY <1>2 DEF OnlyCtx, SameRefs
<1>8. WhatIsCurrent'
  <2>1. current[GLPlugin] # Nobody => current[GLPlugin] \in Ctxs
    BY DEF MaybeCtx
  <2>2. glCall'[GLPlugin].step = "idle" => glCall'[GLPlugin] = glCall[GLPlugin]
    BY <1>3 DEF OnlyCall
  <2> QED
    BY <1>1, <1>7, <2>1, <2>2 DEF WhatIsCurrent, Live, Referenced, Idle
<1>9. ContextsAreUsed'
  <2>1. ASSUME NEW d \in Ctxs PROVE Live(d)' => Referenced(d)' \/ g3d'[d].user # Nobody
    BY <1>2, <1>7 DEF ContextsAreUsed, OnlyCtx, Live, Referenced
  <2> QED
    BY <2>1 DEF ContextsAreUsed
<1>20. OneDestroys'
  BY <1>3, IsoOneDestroys
<1> QED
  BY <1>4, <1>5, <1>6, <1>8, <1>9, <1>20 DEF IsolationInv

LEMMA IsoCreateBegin ==
  ASSUME IsolationInv, NEW c \in Ctxs, NEW share \in MaybeCtx, GraphicsCreateBegin(c, share)
  PROVE  IsolationInv'
<1> USE IsoIs, ThreadsAre
<1>1. /\ glCall[GLPlugin].step = "idle" /\ g3d[c].state = "none"
      /\ UNCHANGED <<g3d, subMaps, current, displayLock, driver, typeTable, sourceTable>>
  BY DEF GraphicsCreateBegin, Idle, glTables
<1>2. /\ OnlyCall(GLPlugin) /\ glCall'[GLPlugin].step = "lock" /\ glCall'[GLPlugin].fn = "create"
      /\ glCall'[GLPlugin].ctx = c
  <2> DEFINE r == [fn |-> "create", ctx |-> c, step |-> "lock", share |-> peek_gl_context(share)]
  <2>1. glCall' = [glCall EXCEPT ![GLPlugin] = r]
    BY DEF GraphicsCreateBegin
  <2>2. peek_gl_context(share) \in MaybeCtx
    BY DEF peek_gl_context, MaybeCtx
  <2>3. r \in CallType /\ r.step = "lock" /\ r.fn = "create" /\ r.ctx = c
    BY <2>2 DEF CallType, Fns, MaybeCtx
  <2> HIDE DEF r
  <2> QED
    BY <2>1, <2>3, CallBecomes
<1>3. GLTypes'
  BY <1>1, <1>2 DEF IsolationInv, GLTypes, OnlyCall
<1>4. CallOf(GLPlugin)'
  BY <1>1, <1>2 DEF CallOf
<1>5. CallOf(GLBrowser)'
  BY <1>1, <1>2 DEF CallOf, OnlyCall, Live, Referenced
<1>6. WhatIsCurrent' /\ ContextsAreUsed'
  BY <1>1, <1>2 DEF WhatIsCurrent, ContextsAreUsed, Live, Referenced, Idle
<1>20. OneDestroys'
  BY <1>2, IsoOneDestroys
<1> QED
  BY <1>3, <1>4, <1>5, <1>6, <1>20 DEF IsolationInv

(* What is noted of a context that is left current. *)
LEMMA ResizedIs ==
  ASSUME NEW d \in MaybeCtx
  PROVE  /\ Resized(d) \in CallType /\ Resized(d).step = "idle" /\ Resized(d).fn = "resized"
         /\ Resized(d).ctx = d
<1> DEFINE r == [fn |-> "resized", ctx |-> d, step |-> "idle", share |-> Nobody]
<1>1. Resized(d) = r
  BY DEF Resized
<1>2. Nobody \in MaybeCtx
  BY DEF MaybeCtx
<1>3. r \in CallType /\ r.step = "idle" /\ r.fn = "resized" /\ r.ctx = d
  BY <1>2 DEF CallType, Fns
<1> HIDE DEF r
<1> QED
  BY <1>1, <1>3

(* The context that is made is a new one. *)
LEMMA CreateEndIs ==
  ASSUME IsolationInv, GraphicsCreateEnd
  PROVE  \E c \in Ctxs :
           /\ c = glCall[GLPlugin].ctx /\ g3d[c].state = "none" /\ displayLock = Nobody
           /\ glCall[GLPlugin].fn = "create" /\ glCall[GLPlugin].step = "lock"
           /\ OnlyCall(GLPlugin) /\ glCall'[GLPlugin].step = "idle"
           /\ glCall'[GLPlugin].fn \in {"none", "resized"}
           /\ \/ current' = [current EXCEPT ![GLPlugin] = Nobody]
              \/ /\ UNCHANGED current
                 /\ current[GLPlugin] # Nobody =>
                      glCall'[GLPlugin].fn = "resized" /\ glCall'[GLPlugin].ctx = current[GLPlugin]
           /\ UNCHANGED <<subMaps, displayLock, driver, typeTable, sourceTable>>
           /\ \E made \in BOOLEAN :
                g3d' = [g3d EXCEPT ![c] =
                  IF made
                    THEN [state |-> "live", held |-> TRUE, user |-> Nobody, bound |-> FALSE,
                          group |-> IF glCall[GLPlugin].share = Nobody THEN c
                                    ELSE g3d[glCall[GLPlugin].share].group]
                    ELSE [g3d[c] EXCEPT !.state = "gone"]]
<1> USE IsoIs, ThreadsAre
<1>1. PICK c \in Ctxs : /\ c = glCall[GLPlugin].ctx /\ g3d[c].state = "none"
                        /\ glCall[GLPlugin].step = "lock"
  BY DEF GraphicsCreateEnd, CallOf
<1>2. NoCall \in CallType /\ NoCall.step = "idle" /\ NoCall.fn = "none"
  BY DEF NoCall, CallType, Fns, MaybeCtx
<1>3. CASE /\ current' = [current EXCEPT ![GLPlugin] = Nobody]
           /\ glCall' = [glCall EXCEPT ![GLPlugin] = NoCall]
           /\ g3d' = [g3d EXCEPT ![c] =
                [state |-> "live", held |-> TRUE, user |-> Nobody, bound |-> FALSE,
                 group |-> IF glCall[GLPlugin].share = Nobody THEN c
                           ELSE g3d[glCall[GLPlugin].share].group]]
  <2>1. OnlyCall(GLPlugin) /\ glCall'[GLPlugin] = NoCall
    BY <1>2, <1>3, CallBecomes
  <2> QED
    BY <1>1, <1>2, <1>3, <2>1 DEF GraphicsCreateEnd, glTables
<1>4. CASE /\ UNCHANGED current
           /\ glCall' = [glCall EXCEPT ![GLPlugin] =
                IF current[GLPlugin] = Nobody THEN NoCall ELSE Resized(current[GLPlugin])]
           /\ g3d' = [g3d EXCEPT ![c].state = "gone"]
  <2> DEFINE r == IF current[GLPlugin] = Nobody THEN NoCall ELSE Resized(current[GLPlugin])
  <2>1. current[GLPlugin] \in MaybeCtx
    OBVIOUS
  <2>3. /\ r \in CallType /\ r.step = "idle" /\ r.fn \in {"none", "resized"}
        /\ current[GLPlugin] # Nobody => r.fn = "resized" /\ r.ctx = current[GLPlugin]
    BY <1>2, <2>1, ResizedIs
  <2>4. glCall' = [glCall EXCEPT ![GLPlugin] = r]
    BY <1>4
  <2> HIDE DEF r
  <2>5. OnlyCall(GLPlugin) /\ glCall'[GLPlugin] = r
    BY <2>3, <2>4, CallBecomes
  <2> QED
    BY <1>1, <1>4, <2>3, <2>5 DEF GraphicsCreateEnd, glTables
<1> QED
  BY <1>1, <1>3, <1>4 DEF GraphicsCreateEnd

(* Another context: live if it was made. *)
LEMMA CreatedIs ==
  ASSUME IsolationInv, NEW c \in Ctxs, NEW made \in BOOLEAN, NEW group \in MaybeCtx,
         g3d' = [g3d EXCEPT ![c] =
           IF made
             THEN [state |-> "live", held |-> TRUE, user |-> Nobody, bound |-> FALSE, group |-> group]
             ELSE [g3d[c] EXCEPT !.state = "gone"]]
  PROVE  /\ OnlyCtx(c)
         /\ IF made THEN /\ g3d'[c].state = "live" /\ g3d'[c].held = TRUE /\ g3d'[c].group = group
            ELSE g3d'[c].state = "gone"
<1> USE IsoIs, ThreadsAre
<1>1. CASE made
  <2> DEFINE r == [state |-> "live", held |-> TRUE, user |-> Nobody, bound |-> FALSE, group |-> group]
  <2>1. r \in CtxType /\ r.state = "live" /\ r.held = TRUE /\ r.group = group
    BY DEF CtxType
  <2>2. g3d' = [g3d EXCEPT ![c] = r]
    BY <1>1
  <2> HIDE DEF r
  <2> QED
    BY <1>1, <2>1, <2>2, CtxBecomes
<1>2. CASE ~made
  <2> DEFINE r == [g3d[c] EXCEPT !.state = "gone"]
  <2>1. g3d[c] \in CtxType
    OBVIOUS
  <2>2. r \in CtxType /\ r.state = "gone"
    BY <2>1 DEF CtxType
  <2>3. g3d' = [g3d EXCEPT ![c] = r]
    BY <1>2
  <2> HIDE DEF r
  <2> QED
    BY <1>2, <2>2, <2>3, CtxBecomes
<1> QED
  BY <1>1, <1>2

LEMMA IsoCreateEnd ==
  ASSUME IsolationInv, GraphicsCreateEnd
  PROVE  IsolationInv'
<1> USE IsoIs, ThreadsAre
<1>1. PICK c \in Ctxs :
        /\ c = glCall[GLPlugin].ctx /\ g3d[c].state = "none" /\ displayLock = Nobody
        /\ glCall[GLPlugin].fn = "create" /\ glCall[GLPlugin].step = "lock"
        /\ OnlyCall(GLPlugin) /\ glCall'[GLPlugin].step = "idle"
        /\ glCall'[GLPlugin].fn \in {"none", "resized"}
        /\ \/ current' = [current EXCEPT ![GLPlugin] = Nobody]
           \/ /\ UNCHANGED current
              /\ current[GLPlugin] # Nobody =>
                   glCall'[GLPlugin].fn = "resized" /\ glCall'[GLPlugin].ctx = current[GLPlugin]
        /\ UNCHANGED <<subMaps, displayLock, driver, typeTable, sourceTable>>
        /\ \E made \in BOOLEAN :
             g3d' = [g3d EXCEPT ![c] =
               IF made
                 THEN [state |-> "live", held |-> TRUE, user |-> Nobody, bound |-> FALSE,
                       group |-> IF glCall[GLPlugin].share = Nobody THEN c
                                 ELSE g3d[glCall[GLPlugin].share].group]
                 ELSE [g3d[c] EXCEPT !.state = "gone"]]
  BY CreateEndIs
<1>2. PICK group \in MaybeCtx : group = IF glCall[GLPlugin].share = Nobody THEN c
                                        ELSE g3d[glCall[GLPlugin].share].group
  <2>1. glCall[GLPlugin].share \in MaybeCtx
    BY DEF CallType
  <2> QED
    BY <2>1 DEF MaybeCtx, CtxType
<1>3. /\ OnlyCtx(c)
      /\ g3d'[c].state = "live" => g3d'[c].held = TRUE
  BY <1>1, <1>2, CreatedIs
<1>4. GLTypes'
  <2>1. current' \in [GLThreads -> MaybeCtx]
    BY <1>1 DEF MaybeCtx
  <2> QED
    BY <1>1, <1>3, <2>1 DEF IsolationInv, GLTypes, OnlyCall, OnlyCtx
<1>5. CallOf(GLPlugin)'
  BY <1>1 DEF CallOf
<1>6. CallOf(GLBrowser)'
  <2>1. glCall'[GLBrowser] = glCall[GLBrowser] /\ displayLock' = displayLock
    BY <1>1 DEF OnlyCall
  <2>2. CallOf(GLBrowser) /\ glCall[GLBrowser] \in CallType
    OBVIOUS
  <2>3. glCall[GLBrowser].step # "idle" =>
          glCall[GLBrowser].ctx \in Ctxs /\ glCall[GLBrowser].ctx # c
    BY <1>1, <2>2 DEF CallOf, Live, CallType
  <2>4. glCall[GLBrowser].step # "idle" => g3d'[glCall[GLBrowser].ctx] = g3d[glCall[GLBrowser].ctx]
    BY <1>3, <2>3 DEF OnlyCtx
  <2>5. glCall[GLBrowser].step # "call"
    BY <1>1, <2>2 DEF CallOf
  <2> QED
    BY <2>1, <2>2, <2>3, <2>4, <2>5 DEF CallOf, Live, Referenced
<1>7. WhatIsCurrent'
  <2>1. CASE current' = [current EXCEPT ![GLPlugin] = Nobody]
    BY <2>1 DEF WhatIsCurrent
  <2>2. CASE /\ UNCHANGED current
             /\ current[GLPlugin] # Nobody =>
                  glCall'[GLPlugin].fn = "resized" /\ glCall'[GLPlugin].ctx = current[GLPlugin]
    <3>1. current[GLPlugin] # Nobody =>
            /\ current[GLPlugin] \in Ctxs /\ current[GLPlugin] # c
            /\ Live(current[GLPlugin]) /\ Referenced(current[GLPlugin])
      BY <1>1 DEF WhatIsCurrent, MaybeCtx, Live
    <3>2. current[GLPlugin] # Nobody => g3d'[current[GLPlugin]] = g3d[current[GLPlugin]]
      BY <1>3, <3>1 DEF OnlyCtx
    <3> QED
      BY <2>2, <3>1, <3>2 DEF WhatIsCurrent, Live, Referenced
  <2> QED
    BY <1>1, <2>1, <2>2
<1>8. ContextsAreUsed'
  <2>1. ASSUME NEW d \in Ctxs PROVE Live(d)' => Referenced(d)' \/ g3d'[d].user # Nobody
    BY <1>3 DEF ContextsAreUsed, OnlyCtx, Live, Referenced
  <2> QED
    BY <2>1 DEF ContextsAreUsed
<1>20. OneDestroys'
  BY <1>1, IsoOneDestroys
<1> QED
  BY <1>4, <1>5, <1>6, <1>7, <1>8, <1>20 DEF IsolationInv

LEMMA IsoMap ==
  ASSUME IsolationInv, NEW c \in Ctxs, NEW mem \in Mems, MapTexSubImage2D(c, mem)
  PROVE  IsolationInv'
<1>1. UNCHANGED <<g3d, current, displayLock, glCall, driver, typeTable, sourceTable>>
  BY DEF MapTexSubImage2D, glTables
<1>2. subMaps' \in [Ctxs -> SUBSET Mems]
  BY DEF MapTexSubImage2D, IsolationInv, GLTypes
<1>3. GLTypes'
  BY <1>1, <1>2 DEF IsolationInv, GLTypes
<1>4. (\A t \in GLThreads : CallOf(t))'
  BY <1>1 DEF IsolationInv, CallOf, Live, Referenced
<1>5. WhatIsCurrent' /\ ContextsAreUsed' /\ OneDestroys'
  BY <1>1 DEF IsolationInv, WhatIsCurrent, ContextsAreUsed, OneDestroys, Live, Referenced, Idle
<1> QED
  BY <1>3, <1>4, <1>5 DEF IsolationInv

(* The plugin lets go of a context: the browser's thread may still paint it. *)
LEMMA DropIs ==
  ASSUME IsolationInv, NEW c \in Ctxs, NEW part \in {"held", "bound"}, DropReference(c, part)
  PROVE  /\ glCall[GLPlugin].step = "idle" /\ Live(c)
         /\ UNCHANGED <<subMaps, current, displayLock, driver, typeTable, sourceTable>>
         /\ OnlyCtx(c) /\ g3d'[c].user = g3d[c].user /\ g3d'[c].group = g3d[c].group
         /\ OnlyCall(GLPlugin)
         /\ \/ /\ g3d'[c].state = "live" /\ (Referenced(c)' \/ g3d[c].user # Nobody)
               /\ glCall'[GLPlugin].step = "idle" /\ glCall'[GLPlugin].fn \in {"none", "resized"}
               /\ glCall[GLPlugin].fn = "resized" =>
                    glCall'[GLPlugin].fn = "resized" /\ glCall'[GLPlugin].ctx = glCall[GLPlugin].ctx
            \/ /\ g3d'[c].state = "dying" /\ g3d[c].user = Nobody
               /\ glCall'[GLPlugin].step = "destroy" /\ glCall'[GLPlugin].fn = "destroy"
               /\ glCall'[GLPlugin].ctx = c
<1> USE IsoIs, ThreadsAre
<1> DEFINE last == ~(IF part = "held" THEN g3d[c].bound ELSE g3d[c].held) /\ g3d[c].user = Nobody
<1>1. /\ glCall[GLPlugin].step = "idle" /\ Live(c)
      /\ UNCHANGED <<subMaps, current, displayLock, driver, typeTable, sourceTable>>
  BY DEF DropReference, Idle, glTables
<1>2. /\ OnlyCtx(c) /\ g3d'[c].user = g3d[c].user /\ g3d'[c].group = g3d[c].group
      /\ g3d'[c].state = IF last THEN "dying" ELSE g3d[c].state
      /\ ~last => Referenced(c)' \/ g3d[c].user # Nobody
  <2>1. g3d[c] \in CtxType
    OBVIOUS
  <2>2. CASE part = "held"
    <3> DEFINE r == [g3d[c] EXCEPT !["held"] = FALSE, !.state = IF last THEN "dying" ELSE g3d[c].state]
    <3>1. g3d' = [g3d EXCEPT ![c] = r]
      BY <2>2 DEF DropReference
    <3>2. /\ r \in CtxType /\ r.user = g3d[c].user /\ r.group = g3d[c].group /\ r.bound = g3d[c].bound
          /\ r.state = IF last THEN "dying" ELSE g3d[c].state
      BY <2>1 DEF CtxType
    <3>3. ~last => g3d[c].bound \/ g3d[c].user # Nobody
      BY <2>2
    <3> HIDE DEF r, last
    <3> QED
      BY <3>1, <3>2, <3>3, CtxBecomes DEF Referenced
  <2>3. CASE part = "bound"
    <3> DEFINE r == [g3d[c] EXCEPT !["bound"] = FALSE, !.state = IF last THEN "dying" ELSE g3d[c].state]
    <3>1. g3d' = [g3d EXCEPT ![c] = r]
      BY <2>3 DEF DropReference
    <3>2. /\ r \in CtxType /\ r.user = g3d[c].user /\ r.group = g3d[c].group /\ r.held = g3d[c].held
          /\ r.state = IF last THEN "dying" ELSE g3d[c].state
      BY <2>1 DEF CtxType
    <3>3. ~last => g3d[c].held \/ g3d[c].user # Nobody
      BY <2>3
    <3> HIDE DEF r, last
    <3> QED
      BY <3>1, <3>2, <3>3, CtxBecomes DEF Referenced
  <2> QED
    BY <2>2, <2>3
<1>3. AfterDrop(GLPlugin, c, last)
  BY DEF DropReference
<1>4. CASE last
  <2> DEFINE r == [NoCall EXCEPT !.fn = "destroy", !.ctx = c, !.step = "destroy"]
  <2>1. glCall' = [glCall EXCEPT ![GLPlugin] = r]
    BY <1>3, <1>4 DEF AfterDrop
  <2>2. r \in CallType /\ r.step = "destroy" /\ r.fn = "destroy" /\ r.ctx = c
    BY DEF NoCall, CallType, Fns, MaybeCtx
  <2>3. g3d[c].user = Nobody
    BY <1>4
  <2> HIDE DEF r, last
  <2> QED
    BY <1>1, <1>2, <1>4, <2>1, <2>2, <2>3, CallBecomes
<1>5. CASE ~last
  <2> DEFINE r == Ended(glCall[GLPlugin])
  <2>1. glCall' = [glCall EXCEPT ![GLPlugin] = r]
    BY <1>3, <1>5 DEF AfterDrop
  <2>2. /\ r \in CallType /\ r.step = "idle" /\ r.fn \in {"none", "resized"}
        /\ glCall[GLPlugin].fn = "resized" => r.fn = "resized" /\ r.ctx = glCall[GLPlugin].ctx
    <3>1. CASE glCall[GLPlugin].fn \in {"resize", "resized"}
      <4>2. r = [fn |-> "resized", ctx |-> glCall[GLPlugin].ctx, step |-> "idle", share |-> Nobody]
        BY <3>1 DEF Ended, Resized
      <4>3. glCall[GLPlugin].ctx \in MaybeCtx
        BY DEF CallType
      <4>4. r \in CallType
        BY <4>2, <4>3 DEF CallType, Fns, MaybeCtx
      <4> QED
        BY <4>2, <4>4
    <3>2. CASE glCall[GLPlugin].fn \notin {"resize", "resized"}
      <4>1. r = NoCall
        BY <3>2 DEF Ended
      <4> QED
        BY <3>2, <4>1 DEF NoCall, CallType, Fns, MaybeCtx
    <3> QED
      BY <3>1, <3>2
  <2> HIDE DEF r, last
  <2> QED
    BY <1>1, <1>2, <1>5, <2>1, <2>2, CallBecomes DEF Live
<1> QED
  BY <1>4, <1>5

LEMMA IsoDrop ==
  ASSUME IsolationInv, LeavesCurrent = FALSE, NEW c \in Ctxs, NEW part \in {"held", "bound"},
         DropReference(c, part)
  PROVE  IsolationInv'
<1> USE IsoIs, ThreadsAre
<1>1. /\ glCall[GLPlugin].step = "idle" /\ Live(c)
      /\ UNCHANGED <<subMaps, current, displayLock, driver, typeTable, sourceTable>>
      /\ OnlyCtx(c) /\ g3d'[c].user = g3d[c].user /\ g3d'[c].group = g3d[c].group
      /\ OnlyCall(GLPlugin)
  BY DropIs
<1>2. \/ /\ g3d'[c].state = "live" /\ (Referenced(c)' \/ g3d[c].user # Nobody)
         /\ glCall'[GLPlugin].step = "idle" /\ glCall'[GLPlugin].fn \in {"none", "resized"}
         /\ glCall[GLPlugin].fn = "resized" =>
              glCall'[GLPlugin].fn = "resized" /\ glCall'[GLPlugin].ctx = glCall[GLPlugin].ctx
      \/ /\ g3d'[c].state = "dying" /\ g3d[c].user = Nobody
         /\ glCall'[GLPlugin].step = "destroy" /\ glCall'[GLPlugin].fn = "destroy"
         /\ glCall'[GLPlugin].ctx = c
  BY DropIs
<1>3. GLTypes'
  BY <1>1 DEF IsolationInv, GLTypes, OnlyCall, OnlyCtx
<1>4. CallOf(GLPlugin)'
  <2>1. displayLock' # GLPlugin
    BY <1>1 DEF CallOf
  <2> QED
    BY <1>2, <2>1 DEF CallOf
<1>5. CallOf(GLBrowser)'
  <2>1. glCall'[GLBrowser] = glCall[GLBrowser]
    BY <1>1 DEF OnlyCall
  <2>2. CallOf(GLBrowser) /\ glCall[GLBrowser] \in CallType
    OBVIOUS
  <2>3. glCall[GLBrowser].step # "idle" =>
          /\ glCall[GLBrowser].ctx \in Ctxs
          /\ g3d'[glCall[GLBrowser].ctx].state = g3d[glCall[GLBrowser].ctx].state
          /\ g3d'[glCall[GLBrowser].ctx].user = g3d[glCall[GLBrowser].ctx].user
    <3>1. glCall[GLBrowser].step # "idle" => glCall[GLBrowser].ctx \in Ctxs
      BY <2>2 DEF CallOf, CallType
    <3>2. glCall[GLBrowser].step # "idle" /\ glCall[GLBrowser].ctx = c =>
            g3d[c].user = GLBrowser \/ g3d[c].state = "dying"
      BY <2>2 DEF CallOf, CallType
    <3> QED
      BY <1>1, <1>2, <3>1, <3>2 DEF OnlyCtx, Live
  <2> QED
    BY <1>1, <2>1, <2>2, <2>3 DEF CallOf, Live
<1>6. WhatIsCurrent'
  <2>1. current[GLPlugin] # c /\ (current[GLPlugin] # Nobody => glCall[GLPlugin].fn = "resized")
    BY <1>1 DEF WhatIsCurrent, DropReference, Idle
  <2>2. current[GLPlugin] # Nobody =>
          current[GLPlugin] \in Ctxs /\ g3d'[current[GLPlugin]] = g3d[current[GLPlugin]]
    BY <1>1, <2>1 DEF MaybeCtx, OnlyCtx
  <2> QED
    BY <1>1, <1>2, <2>1, <2>2 DEF WhatIsCurrent, Live, Referenced, Idle
<1>7. ContextsAreUsed'
  <2>1. ASSUME NEW d \in Ctxs PROVE Live(d)' => Referenced(d)' \/ g3d'[d].user # Nobody
    BY <1>1, <1>2 DEF ContextsAreUsed, OnlyCtx, Live, Referenced
  <2> QED
    BY <2>1 DEF ContextsAreUsed
<1>20. OneDestroys'
  BY <1>1, <1>2, IsoOneDestroys
<1> QED
  BY <1>3, <1>4, <1>5, <1>6, <1>7, <1>20 DEF IsolationInv

LEMMA IsoBind ==
  ASSUME IsolationInv, NEW c \in Ctxs, BindContext(c)
  PROVE  /\ IsolationInv'
         /\ OnlyCtx(c) /\ g3d'[c].state = g3d[c].state /\ g3d'[c].group = g3d[c].group
<1> USE IsoIs, ThreadsAre
<1>1. UNCHANGED <<subMaps, current, displayLock, glCall, driver, typeTable, sourceTable>>
  BY DEF BindContext, glTables
<1>2. /\ OnlyCtx(c) /\ g3d'[c].state = g3d[c].state /\ g3d'[c].group = g3d[c].group
      /\ g3d'[c].user = g3d[c].user /\ g3d'[c].bound
  <2> DEFINE r == [g3d[c] EXCEPT !.bound = TRUE]
  <2>1. g3d' = [g3d EXCEPT ![c] = r]
    BY DEF BindContext
  <2>2. g3d[c] \in CtxType
    OBVIOUS
  <2>3. /\ r \in CtxType /\ r.user = g3d[c].user /\ r.state = g3d[c].state
        /\ r.group = g3d[c].group /\ r.bound
    BY <2>2 DEF CtxType
  <2> HIDE DEF r
  <2> QED
    BY <2>1, <2>3, CtxBecomes
<1>3. GLTypes'
  BY <1>1, <1>2 DEF IsolationInv, GLTypes, OnlyCtx
<1>4. \A d \in Ctxs : /\ g3d'[d].state = g3d[d].state /\ g3d'[d].user = g3d[d].user
                      /\ Referenced(d) => Referenced(d)'
  BY <1>2 DEF OnlyCtx, Referenced
<1>5. ASSUME NEW t \in GLThreads PROVE CallOf(t)'
  BY <1>1, <1>4 DEF CallOf, Live
<1>6. WhatIsCurrent'
  <2>1. current[GLPlugin] # Nobody => current[GLPlugin] \in Ctxs
    BY DEF MaybeCtx
  <2> QED
    BY <1>1, <1>4, <2>1 DEF WhatIsCurrent, Live, Referenced, Idle
<1>7. ContextsAreUsed' /\ OneDestroys'
  BY <1>1, <1>4 DEF ContextsAreUsed, OneDestroys, Live, Referenced
<1> QED
  BY <1>2, <1>3, <1>5, <1>6, <1>7 DEF IsolationInv

LEMMA DestroyIs ==
  ASSUME IsolationInv, NEW t \in GLThreads, GraphicsDestroy(t)
  PROVE  \E c \in Ctxs :
           /\ c = glCall[t].ctx /\ g3d[c].state = "dying" /\ displayLock = Nobody
           /\ glCall[t].step = "destroy" /\ glCall[t].fn = "destroy"
           /\ OnlyCtx(c) /\ g3d'[c].state = "gone" /\ g3d'[c].group = g3d[c].group
           /\ OnlyCall(t) /\ glCall'[t].step = "idle" /\ glCall'[t].fn = "none"
           /\ current' = [current EXCEPT ![t] = Nobody]
           /\ subMaps' = [subMaps EXCEPT ![c] = {}]
           /\ driver' = IF \E d \in Ctxs \ {c} : Live(d) /\ g3d[d].group = g3d[c].group
                        THEN driver
                        ELSE [driver EXCEPT ![g3d[c].group] = [s \in Shaders |-> NoShader]]
           /\ UNCHANGED <<displayLock, typeTable, sourceTable>>
<1> USE IsoIs, ThreadsAre
<1>1. PICK c \in Ctxs : /\ c = glCall[t].ctx /\ g3d[c].state = "dying" /\ glCall[t].fn = "destroy"
                        /\ glCall[t].step = "destroy"
  BY DEF GraphicsDestroy, CallOf
<1>2. OnlyCall(t) /\ glCall'[t].step = "idle" /\ glCall'[t].fn = "none"
  <2>1. NoCall \in CallType /\ NoCall.step = "idle" /\ NoCall.fn = "none"
    BY DEF NoCall, CallType, Fns, MaybeCtx
  <2> QED
    BY <2>1, CallBecomes DEF GraphicsDestroy
<1>3. OnlyCtx(c) /\ g3d'[c].state = "gone" /\ g3d'[c].group = g3d[c].group
  <2> DEFINE r == [g3d[c] EXCEPT !.state = "gone"]
  <2>1. g3d' = [g3d EXCEPT ![c] = r]
    BY <1>1 DEF GraphicsDestroy
  <2>2. g3d[c] \in CtxType
    OBVIOUS
  <2>3. r \in CtxType /\ r.state = "gone" /\ r.group = g3d[c].group
    BY <2>2 DEF CtxType
  <2> HIDE DEF r
  <2> QED
    BY <2>1, <2>3, CtxBecomes
<1>4. driver' = IF \E d \in Ctxs \ {c} : Live(d) /\ g3d[d].group = g3d[c].group
                THEN driver
                ELSE [driver EXCEPT ![g3d[c].group] = [s \in Shaders |-> NoShader]]
  BY <1>1, Zenon DEF GraphicsDestroy
<1> QED
  BY <1>1, <1>2, <1>3, <1>4 DEF GraphicsDestroy

LEMMA IsoDestroy ==
  ASSUME IsolationInv, NEW t \in GLThreads, GraphicsDestroy(t)
  PROVE  IsolationInv'
<1> USE IsoIs, ThreadsAre
<1>1. PICK c \in Ctxs :
           /\ c = glCall[t].ctx /\ g3d[c].state = "dying" /\ displayLock = Nobody
           /\ glCall[t].step = "destroy" /\ glCall[t].fn = "destroy"
           /\ OnlyCtx(c) /\ g3d'[c].state = "gone" /\ g3d'[c].group = g3d[c].group
           /\ OnlyCall(t) /\ glCall'[t].step = "idle" /\ glCall'[t].fn = "none"
           /\ current' = [current EXCEPT ![t] = Nobody]
           /\ subMaps' = [subMaps EXCEPT ![c] = {}]
           /\ driver' = IF \E d \in Ctxs \ {c} : Live(d) /\ g3d[d].group = g3d[c].group
                        THEN driver
                        ELSE [driver EXCEPT ![g3d[c].group] = [s \in Shaders |-> NoShader]]
           /\ UNCHANGED <<displayLock, typeTable, sourceTable>>
  BY DestroyIs
<1>2. GLTypes'
  <2>1. current' \in [GLThreads -> MaybeCtx] /\ subMaps' \in [Ctxs -> SUBSET Mems]
    BY <1>1 DEF MaybeCtx, IsolationInv, GLTypes
  <2>2. driver' \in [Ctxs -> [Shaders -> ShaderType]]
    <3>1. driver \in [Ctxs -> [Shaders -> ShaderType]] /\ NoShader \in ShaderType
      BY DEF IsolationInv, GLTypes, NoShader, ShaderType, MaybeType
    <3>2. [s \in Shaders |-> NoShader] \in [Shaders -> ShaderType]
      BY <3>1
    <3> QED
      BY <1>1, <3>1, <3>2
  <2> QED
    BY <1>1, <2>1, <2>2 DEF IsolationInv, GLTypes, OnlyCall, OnlyCtx
<1>3. CallOf(t)'
  BY <1>1 DEF CallOf
<1>4. ASSUME NEW u \in GLThreads, u # t PROVE CallOf(u)'
  <2>1. glCall'[u] = glCall[u] /\ displayLock' = displayLock /\ glCall[u].step # "call"
    BY <1>1, <1>4 DEF OnlyCall, CallOf
  <2>2. CallOf(u) /\ glCall[u] \in CallType
    OBVIOUS
  <2>3. glCall[u].step # "idle" => glCall[u].ctx \in Ctxs /\ glCall[u].ctx # c
    BY <1>1, <1>4, <2>2 DEF CallOf, Live, CallType, OneDestroys
  <2>4. glCall[u].step # "idle" => g3d'[glCall[u].ctx] = g3d[glCall[u].ctx]
    BY <1>1, <2>3 DEF OnlyCtx
  <2> QED
    BY <2>1, <2>2, <2>3, <2>4 DEF CallOf, Live, Referenced
<1>5. WhatIsCurrent'
  <2>1. current'[GLBrowser] = Nobody
    BY <1>1 DEF WhatIsCurrent
  <2>2. ASSUME current'[GLPlugin] # Nobody
        PROVE  /\ t # GLPlugin /\ current'[GLPlugin] = current[GLPlugin] /\ current[GLPlugin] \in Ctxs
               /\ g3d'[current[GLPlugin]] = g3d[current[GLPlugin]]
    <3>1. t # GLPlugin /\ current'[GLPlugin] = current[GLPlugin] /\ current[GLPlugin] \in Ctxs
      BY <1>1, <2>2 DEF MaybeCtx
    <3>2. current[GLPlugin] # c
      BY <1>1, <2>2, <3>1 DEF WhatIsCurrent, Live
    <3> QED
      BY <1>1, <3>1, <3>2 DEF OnlyCtx
  <2> QED
    BY <1>1, <2>1, <2>2 DEF WhatIsCurrent, Live, Referenced, Idle, OnlyCall
<1>6. ContextsAreUsed'
  <2>1. ASSUME NEW d \in Ctxs PROVE Live(d)' => Referenced(d)' \/ g3d'[d].user # Nobody
    BY <1>1 DEF ContextsAreUsed, OnlyCtx, Live, Referenced
  <2> QED
    BY <2>1 DEF ContextsAreUsed
<1>7. OneDestroys'
  BY <1>1, IsoOneDestroys
<1> QED
  BY <1>2, <1>3, <1>4, <1>5, <1>6, <1>7 DEF IsolationInv

(* What the table calls write: g is the share group of the context. *)
LEMMA TableTypesStay ==
  ASSUME IsolationInv, NEW t \in GLThreads,
         CreateShader(t) \/ DeleteShader(t) \/ ShaderSource(t)
  PROVE  TableTypes'
<1>1. TableTypes
  BY DEF IsolationInv, GLTypes, TableTypes
<1>2. NoShader \in ShaderType
  BY DEF NoShader, ShaderType, MaybeType
<1> DEFINE g == GroupOf(t)
<1> HIDE DEF g
<1>3. CASE CreateShader(t)
  <2>1. PICK s \in Shaders, type \in ShaderTypes :
          /\ driver' = [driver EXCEPT ![g][s] = [NoShader EXCEPT !.type = type]]
          /\ typeTable' = [typeTable EXCEPT ![s] = type]
    BY <1>3 DEF CreateShader, g
  <2>2. [NoShader EXCEPT !.type = type] \in ShaderType
    BY DEF NoShader, ShaderType, MaybeType
  <2>3. UNCHANGED sourceTable
    BY <1>3 DEF CreateShader
  <2> QED
    BY <1>1, <2>1, <2>2, <2>3 DEF TableTypes, MaybeType
<1>4. CASE DeleteShader(t)
  <2>1. PICK s \in Shaders :
          /\ driver' = [driver EXCEPT ![g][s] = NoShader]
          /\ sourceTable' = [sourceTable EXCEPT ![s] = Nobody]
          /\ typeTable' = [typeTable EXCEPT ![s] = "none"]
    BY <1>4 DEF DeleteShader, g
  <2> QED
    BY <1>1, <1>2, <2>1 DEF TableTypes, MaybeType
<1>5. CASE ShaderSource(t)
  <2>1. PICK s \in Shaders, b \in GLSources :
          /\ sourceTable' = [sourceTable EXCEPT ![s] = b]
          /\ driver' = [driver EXCEPT ![g][s] = [driver[g][s] EXCEPT !.body = b, !.as = typeTable[s]]]
    BY <1>5 DEF ShaderSource, g
  <2>2. UNCHANGED typeTable
    BY <1>5 DEF ShaderSource
  <2>3. CASE g \in Ctxs
    <3>1. driver[g][s] \in ShaderType /\ typeTable[s] \in MaybeType
      BY <1>1, <2>3 DEF TableTypes
    <3>2. [driver[g][s] EXCEPT !.body = b, !.as = typeTable[s]] \in ShaderType
      BY <3>1 DEF ShaderType
    <3> QED
      BY <1>1, <2>1, <2>2, <2>3, <3>2 DEF TableTypes
  <2>4. CASE g \notin Ctxs
    <3>1. driver' = driver
      BY <1>1, <2>1, <2>4 DEF TableTypes
    <3> QED
      BY <1>1, <2>1, <2>2, <3>1 DEF TableTypes
  <2> QED
    BY <2>3, <2>4
<1> QED
  BY <1>3, <1>4, <1>5

LEMMA IsoCall ==
  ASSUME IsolationInv, NEW t \in GLThreads,
         \/ PlainCall(t) \/ CreateShader(t) \/ DeleteShader(t) \/ ShaderSource(t)
         \/ UnmapTexSubImage2D(t) \/ ResizeBuffers(t) \/ Expose(t)
  PROVE  IsolationInv' /\ glCall[t].step = "call" /\ UnlockAndRelease(t)
<1> USE DEF InCall, Epilogue
<1>1. TableTypes /\ subMaps \in [Ctxs -> SUBSET Mems]
  BY DEF IsolationInv, GLTypes, TableTypes
<1>2. CASE PlainCall(t) \/ ResizeBuffers(t) \/ Expose(t)
  <2>1. UNCHANGED <<subMaps, driver, typeTable, sourceTable>>
    BY <1>2 DEF PlainCall, ResizeBuffers, Expose, glTables
  <2>2. TableTypes' /\ subMaps' \in [Ctxs -> SUBSET Mems]
    BY <1>1, <2>1 DEF TableTypes
  <2> QED
    BY <1>2, <2>2, IsoRelease DEF PlainCall, ResizeBuffers, Expose
<1>3. CASE CreateShader(t) \/ DeleteShader(t) \/ ShaderSource(t)
  <2>1. TableTypes'
    BY <1>3, TableTypesStay
  <2>2. subMaps' = subMaps
    BY <1>3 DEF CreateShader, DeleteShader, ShaderSource
  <2> QED
    BY <1>1, <1>3, <2>1, <2>2, IsoRelease DEF CreateShader, DeleteShader, ShaderSource
<1>4. CASE UnmapTexSubImage2D(t)
  <2>1. TableTypes'
    BY <1>1, <1>4 DEF UnmapTexSubImage2D, TableTypes, glTables
  <2>2. subMaps' \in [Ctxs -> SUBSET Mems]
    BY <1>1, <1>4 DEF UnmapTexSubImage2D
  <2> QED
    BY <1>4, <2>1, <2>2, IsoRelease DEF UnmapTexSubImage2D
<1> QED
  BY <1>2, <1>3, <1>4

LEMMA IsoInit == GLInit => IsolationInv
<1> SUFFICES ASSUME GLInit PROVE IsolationInv
  OBVIOUS
<1> USE ThreadsAre DEF GLInit
<1>1. NoShader \in ShaderType /\ NoCall \in CallType /\ NoCall.step = "idle" /\ NoCall.fn = "none"
  BY DEF NoShader, ShaderType, MaybeType, NoCall, CallType, Fns, MaybeCtx
<1>2. g3d \in [Ctxs -> CtxType] /\ \A c \in Ctxs : g3d[c].state = "none"
  BY DEF CtxType, MaybeCtx
<1>3. GLTypes
  BY <1>1, <1>2 DEF GLTypes, MaybeCtx, MaybeType
<1>4. \A t \in GLThreads : glCall[t] = NoCall /\ displayLock # t /\ current[t] = Nobody
  OBVIOUS
<1>5. \A t \in GLThreads : CallOf(t)
  BY <1>1, <1>4 DEF CallOf
<1>6. WhatIsCurrent /\ ContextsAreUsed /\ OneDestroys
  BY <1>1, <1>2, <1>4 DEF WhatIsCurrent, ContextsAreUsed, OneDestroys, Live
<1> QED
  BY <1>3, <1>5, <1>6 DEF IsolationInv

(* The plugin makes driver calls and resizes. *)
LEMMA PluginCallsAre == DriverCalls \cup {"resize"} \subseteq PluginCalls
BY DEF DriverCalls, KindOf, PluginCalls

(* One step per disjunct of GLNext. *)
LEMMA IsoNext ==
  ASSUME IsolationInv, LeavesCurrent = FALSE, [GLNext]_glVars
  PROVE  IsolationInv'
<1>1. ASSUME NEW c \in Ctxs, NEW share \in Ctxs \cup {Nobody}, GraphicsCreateBegin(c, share)
      PROVE  IsolationInv'
  BY <1>1, IsoCreateBegin DEF MaybeCtx
<1>2. ASSUME NEW c \in Ctxs, NEW fn \in DriverCalls \cup {"resize"}, Prologue(GLPlugin, c, fn)
      PROVE  IsolationInv'
  BY <1>2, IsoPrologue, PluginCallsAre, ThreadsAre
<1>3. ASSUME NEW c \in Ctxs, Prologue(GLBrowser, c, "expose")
      PROVE  IsolationInv'
  BY <1>3, IsoPrologue, ThreadsAre
<1>4. ASSUME NEW c \in Ctxs, NEW mem \in Mems, MapTexSubImage2D(c, mem)
      PROVE  IsolationInv'
  BY <1>4, IsoMap
<1>5. ASSUME NEW c \in Ctxs, NEW part \in {"held", "bound"}, DropReference(c, part)
      PROVE  IsolationInv'
  BY <1>5, IsoDrop
<1>6. ASSUME NEW c \in Ctxs, BindContext(c)
      PROVE  IsolationInv'
  BY <1>6, IsoBind
<1>7. ASSUME NEW t \in GLThreads, GLStep(t)
      PROVE  IsolationInv'
  BY <1>7, IsoLock, IsoCall, IsoDestroy, IsoCreateEnd DEF GLStep
<1>8. CASE UNCHANGED glVars
  <2>1. UNCHANGED <<g3d, subMaps, current, displayLock, glCall, driver, typeTable, sourceTable>>
    BY <1>8 DEF glVars
  <2>2. GLTypes' /\ OneDestroys'
    BY <2>1 DEF IsolationInv, GLTypes, OneDestroys
  <2>3. (\A t \in GLThreads : CallOf(t))'
    BY <2>1 DEF IsolationInv, CallOf, Live, Referenced
  <2>4. WhatIsCurrent' /\ ContextsAreUsed'
    BY <2>1 DEF IsolationInv, WhatIsCurrent, ContextsAreUsed, Live, Referenced, Idle
  <2> QED
    BY <2>2, <2>3, <2>4 DEF IsolationInv
<1> QED
  BY <1>1, <1>2, <1>3, <1>4, <1>5, <1>6, <1>7, <1>8 DEF GLNext

-----------------------------------------------------------------------------
(* The tables: no step but a creation brings another share group into use. *)

Keeps ==
  /\ \A c \in Ctxs : /\ g3d'[c].group = g3d[c].group
                     /\ Live(c)' => Live(c)
                     /\ g3d'[c].state = "none" <=> g3d[c].state = "none"
                     /\ g3d'[c].state \in {"live", "dying"} => g3d[c].state \in {"live", "dying"}
  /\ Creates' => Creates /\ Shared' = Shared

LEMMA TabKeeps ==
  ASSUME IsolationInv, GroupsExist, OneGroup, Keeps,
         \A c \in Ctxs, s \in Shaders : g3d[c].state = "none" => driver'[c][s] = NoShader
  PROVE  /\ GroupsExist' /\ OneGroup'
         /\ \A g \in Ctxs : InUse(g)' => InUse(g)
<1> USE ThreadsAre
<1>1. Shared \in MaybeCtx
  BY IsoIs DEF Shared, CallType
<1>2. GroupsExist'
  <2>1. ASSUME NEW c \in Ctxs, g3d'[c].state \in {"live", "dying"}
        PROVE  g3d'[c].group \in Ctxs /\ g3d'[g3d'[c].group].state # "none"
    BY <2>1 DEF GroupsExist, Keeps
  <2>2. ASSUME NEW c \in Ctxs, NEW s \in Shaders, g3d'[c].state = "none"
        PROVE  driver'[c][s] = NoShader
    BY <2>2 DEF Keeps
  <2> QED
    BY <2>1, <2>2 DEF GroupsExist
<1>3. OneGroup'
  <2>1. ASSUME NEW c \in Ctxs, NEW d \in Ctxs, Live(c)', Live(d)'
        PROVE  g3d'[c].group = g3d'[d].group
    BY <2>1 DEF Keeps, OneGroup
  <2>2. ASSUME Creates', Shared' = Nobody, NEW c \in Ctxs
        PROVE  ~Live(c)'
    BY <2>2 DEF Keeps, OneGroup
  <2>3. ASSUME Creates', Shared' # Nobody
        PROVE  /\ g3d'[Shared'].group \in Ctxs /\ g3d'[g3d'[Shared'].group].state # "none"
               /\ \A c \in Ctxs : Live(c)' => g3d'[c].group = g3d'[Shared'].group
    <3>1. Creates /\ Shared' = Shared /\ Shared \in Ctxs
      BY <1>1, <2>3 DEF Keeps, MaybeCtx
    <3>2. g3d'[Shared'].group = g3d[Shared].group /\ g3d[Shared].group \in Ctxs
      BY <2>3, <3>1 DEF Keeps, OneGroup
    <3> QED
      BY <2>3, <3>1, <3>2 DEF Keeps, OneGroup
  <2> QED
    BY <2>1, <2>2, <2>3 DEF OneGroup
<1>4. ASSUME NEW g \in Ctxs, InUse(g)' PROVE InUse(g)
  <2>1. CASE \E c \in Ctxs : Live(c)' /\ g3d'[c].group = g
    BY <2>1 DEF Keeps, InUse
  <2>2. CASE SharesGroup(g)'
    BY <2>2 DEF Keeps, InUse, SharesGroup
  <2> QED
    BY <1>4, <2>1, <2>2 DEF InUse
<1> QED
  BY <1>2, <1>3, <1>4

LEMMA TabSame ==
  ASSUME IsolationInv, TablesInv, Keeps, UNCHANGED <<driver, typeTable, sourceTable>>
  PROVE  TablesInv'
<1>1. /\ GroupsExist' /\ OneGroup'
      /\ \A g \in Ctxs : InUse(g)' => InUse(g)
  BY TabKeeps DEF TablesInv, GroupsExist
<1>2. TablesAgree'
  BY <1>1 DEF TablesInv, TablesAgree, TablesOf
<1> QED
  BY <1>1, <1>2 DEF TablesInv

(* A call that ends keeps the groups, and the plugin's is in none of its creations. *)
LEMMA ReleaseKeeps ==
  ASSUME IsolationInv, NEW t \in GLThreads, glCall[t].step = "call", UnlockAndRelease(t)
  PROVE  Keeps
<1> USE IsoIs, ThreadsAre
<1>1. PICK c \in Ctxs : c = glCall[t].ctx /\ Live(c)
  BY DEF CallOf
<1>2. /\ OnlyCtx(c) /\ OnlyCall(t) /\ SameRefs(c)
      /\ g3d'[c].state = IF Referenced(c) THEN g3d[c].state ELSE "dying"
      /\ glCall'[t].fn # "create"
  BY <1>1, ReleaseIs
<1>3. Creates' => Creates /\ Shared' = Shared
  BY <1>2 DEF Creates, Shared, OnlyCall
<1>4. ASSUME NEW d \in Ctxs
      PROVE  /\ g3d'[d].group = g3d[d].group
             /\ Live(d)' => Live(d)
             /\ g3d'[d].state = "none" <=> g3d[d].state = "none"
             /\ g3d'[d].state \in {"live", "dying"} => g3d[d].state \in {"live", "dying"}
  BY <1>1, <1>2 DEF OnlyCtx, SameRefs, Live
<1> QED
  BY <1>3, <1>4 DEF Keeps

LEMMA TabPrologue ==
  ASSUME IsolationInv, TablesInv, NEW t \in GLThreads, NEW c \in Ctxs, NEW fn, Prologue(t, c, fn),
         fn \in Fns \ {"create"}
  PROVE  TablesInv'
<1> USE IsoIs, ThreadsAre
<1>1. /\ OnlyCtx(c) /\ g3d'[c].state = g3d[c].state /\ g3d'[c].group = g3d[c].group
  <2> DEFINE r == [g3d[c] EXCEPT !.user = t]
  <2>1. g3d' = [g3d EXCEPT ![c] = r]
    BY DEF Prologue
  <2>2. g3d[c] \in CtxType
    OBVIOUS
  <2>3. r \in CtxType /\ r.state = g3d[c].state /\ r.group = g3d[c].group
    BY <2>2 DEF CtxType
  <2> HIDE DEF r
  <2> QED
    BY <2>1, <2>3, CtxBecomes
<1>2. OnlyCall(t) /\ glCall'[t].fn = fn
  <2> DEFINE r == [NoCall EXCEPT !.fn = fn, !.ctx = c, !.step = "lock"]
  <2>1. glCall' = [glCall EXCEPT ![t] = r]
    BY DEF Prologue
  <2>2. r \in CallType /\ r.fn = fn
    BY DEF CallType, NoCall, MaybeCtx
  <2> HIDE DEF r
  <2> QED
    BY <2>1, <2>2, CallBecomes
<1>3. Creates' => Creates /\ Shared' = Shared
  BY <1>2 DEF Creates, Shared, OnlyCall
<1>4. Keeps
  BY <1>1, <1>3 DEF Keeps, OnlyCtx, Live
<1> QED
  BY <1>4, TabSame DEF Prologue, glTables

LEMMA TabLock ==
  ASSUME IsolationInv, TablesInv, NEW t \in GLThreads, LockAndMakeCurrent(t)
  PROVE  TablesInv'
<1> USE IsoIs, ThreadsAre
<1>1. OnlyCall(t) /\ glCall'[t].fn = glCall[t].fn /\ glCall'[t].fn # "create"
  <2> DEFINE r == [glCall[t] EXCEPT !.step = "call"]
  <2>1. glCall' = [glCall EXCEPT ![t] = r] /\ glCall[t].fn # "create"
    BY DEF LockAndMakeCurrent
  <2>2. glCall[t] \in CallType
    OBVIOUS
  <2>3. r \in CallType /\ r.fn = glCall[t].fn
    BY <2>2 DEF CallType
  <2> HIDE DEF r
  <2> QED
    BY <2>1, <2>3, CallBecomes
<1>2. UNCHANGED <<g3d, driver, typeTable, sourceTable>>
  BY DEF LockAndMakeCurrent, glTables
<1>3. Keeps
  BY <1>1, <1>2 DEF Keeps, Live, Creates, Shared, OnlyCall
<1> QED
  BY <1>2, <1>3, TabSame

LEMMA TabMap ==
  ASSUME IsolationInv, TablesInv, NEW c \in Ctxs, NEW mem \in Mems, MapTexSubImage2D(c, mem)
  PROVE  TablesInv'
<1>1. UNCHANGED <<g3d, glCall, driver, typeTable, sourceTable>>
  BY DEF MapTexSubImage2D, glTables
<1>2. Keeps
  BY <1>1 DEF Keeps, Live, Creates, Shared
<1> QED
  BY <1>1, <1>2, TabSame

LEMMA TabDrop ==
  ASSUME IsolationInv, TablesInv, NEW c \in Ctxs, NEW part \in {"held", "bound"}, DropReference(c, part)
  PROVE  TablesInv'
<1>1. /\ Live(c) /\ UNCHANGED <<driver, typeTable, sourceTable>>
      /\ OnlyCtx(c) /\ g3d'[c].group = g3d[c].group /\ g3d'[c].state \in {"live", "dying"}
      /\ glCall'[GLPlugin].fn # "create"
  BY DropIs
<1>2. Keeps
  BY <1>1 DEF Keeps, OnlyCtx, Live, Creates
<1> QED
  BY <1>1, <1>2, TabSame

LEMMA TabBind ==
  ASSUME IsolationInv, TablesInv, NEW c \in Ctxs, BindContext(c)
  PROVE  TablesInv'
<1>1. /\ UNCHANGED <<glCall, driver, typeTable, sourceTable>>
      /\ OnlyCtx(c) /\ g3d'[c].state = g3d[c].state /\ g3d'[c].group = g3d[c].group
  BY IsoBind DEF BindContext, glTables
<1>2. Keeps
  BY <1>1 DEF Keeps, OnlyCtx, Live, Creates, Shared
<1> QED
  BY <1>1, <1>2, TabSame

(* The context to share with is the only group in use, or there is none. *)
LEMMA TabCreateBegin ==
  ASSUME IsolationInv, TablesInv, Unshared = FALSE, NEW c \in Ctxs, NEW share \in MaybeCtx,
         GraphicsCreateBegin(c, share)
  PROVE  TablesInv'
<1> USE IsoIs, ThreadsAre
<1>1. /\ UNCHANGED <<g3d, driver, typeTable, sourceTable>>
      /\ IF share = Nobody THEN \A d \in Ctxs : ~Live(d) ELSE Live(share)
  BY DEF GraphicsCreateBegin, glTables
<1>2. Creates' /\ Shared' = share
  <2> DEFINE r == [fn |-> "create", ctx |-> c, step |-> "lock", share |-> peek_gl_context(share)]
  <2>1. glCall' = [glCall EXCEPT ![GLPlugin] = r]
    BY DEF GraphicsCreateBegin
  <2>2. peek_gl_context(share) = share
    BY <1>1 DEF peek_gl_context
  <2>3. r \in CallType /\ r.fn = "create" /\ r.share = share
    BY <2>2 DEF CallType, Fns, MaybeCtx
  <2> HIDE DEF r
  <2>4. glCall'[GLPlugin] = r
    BY <2>1, <2>3, CallBecomes
  <2> QED
    BY <2>3, <2>4 DEF Creates, Shared
<1>3. GroupsExist'
  BY <1>1 DEF TablesInv, GroupsExist
<1>4. OneGroup'
  <2>1. \A d \in Ctxs : Live(d)' <=> Live(d)
    BY <1>1 DEF Live
  <2>2. share # Nobody => /\ share \in Ctxs /\ g3d[share].group \in Ctxs
                          /\ g3d[g3d[share].group].state # "none"
                          /\ \A d \in Ctxs : Live(d) => g3d[d].group = g3d[share].group
    BY <1>1 DEF TablesInv, GroupsExist, OneGroup, MaybeCtx, Live
  <2> QED
    BY <1>1, <1>2, <2>1, <2>2 DEF TablesInv, OneGroup
<1>5. ASSUME NEW g \in Ctxs, InUse(g)' PROVE InUse(g)
  BY <1>1, <1>2, <1>5 DEF InUse, SharesGroup, Live
<1>6. TablesAgree'
  BY <1>1, <1>5 DEF TablesInv, TablesAgree, TablesOf
<1> QED
  BY <1>3, <1>4, <1>6 DEF TablesInv

(* The new context joins the group in use, or begins one without objects. *)
LEMMA TabCreateEnd ==
  ASSUME IsolationInv, TablesInv, GraphicsCreateEnd
  PROVE  TablesInv'
<1> USE IsoIs, ThreadsAre
<1>1. PICK c \in Ctxs :
        /\ c = glCall[GLPlugin].ctx /\ g3d[c].state = "none" /\ displayLock = Nobody
        /\ glCall[GLPlugin].fn = "create" /\ glCall[GLPlugin].step = "lock"
        /\ OnlyCall(GLPlugin) /\ glCall'[GLPlugin].step = "idle"
        /\ glCall'[GLPlugin].fn \in {"none", "resized"}
        /\ \/ current' = [current EXCEPT ![GLPlugin] = Nobody]
           \/ /\ UNCHANGED current
              /\ current[GLPlugin] # Nobody =>
                   glCall'[GLPlugin].fn = "resized" /\ glCall'[GLPlugin].ctx = current[GLPlugin]
        /\ UNCHANGED <<subMaps, displayLock, driver, typeTable, sourceTable>>
        /\ \E made \in BOOLEAN :
             g3d' = [g3d EXCEPT ![c] =
               IF made
                 THEN [state |-> "live", held |-> TRUE, user |-> Nobody, bound |-> FALSE,
                       group |-> IF glCall[GLPlugin].share = Nobody THEN c
                                 ELSE g3d[glCall[GLPlugin].share].group]
                 ELSE [g3d[c] EXCEPT !.state = "gone"]]
  BY CreateEndIs
<1>2. Shared \in MaybeCtx /\ Creates /\ ~Creates'
  BY <1>1 DEF Shared, Creates, CallType
<1>3. PICK group \in Ctxs : group = IF Shared = Nobody THEN c ELSE g3d[Shared].group
  BY <1>2 DEF TablesInv, OneGroup
<1>4. /\ OnlyCtx(c) /\ g3d'[c].state \in {"live", "gone"}
      /\ g3d'[c].state = "live" => g3d'[c].group = group
  BY <1>1, <1>3, CreatedIs DEF Shared, MaybeCtx
<1>5. \A d \in Ctxs : Live(d) => d # c /\ g3d[d].group = group
  BY <1>1, <1>2, <1>3 DEF TablesInv, OneGroup, Live
<1>6. \A d \in Ctxs : Live(d)' => g3d'[d].group = group
  BY <1>4, <1>5 DEF OnlyCtx, Live
<1>7. g3d'[group].state # "none"
  BY <1>2, <1>3, <1>4 DEF TablesInv, OneGroup, OnlyCtx
<1>8. GroupsExist'
  <2>1. ASSUME NEW d \in Ctxs, g3d'[d].state \in {"live", "dying"}
        PROVE  g3d'[d].group \in Ctxs /\ g3d'[g3d'[d].group].state # "none"
    <3>1. CASE d = c
      BY <1>4, <1>7, <2>1, <3>1
    <3>2. CASE d # c
      <4>1. g3d'[d] = g3d[d]
        BY <1>4, <3>2 DEF OnlyCtx
      <4>2. g3d[d].group \in Ctxs /\ g3d[g3d[d].group].state # "none"
        BY <2>1, <4>1 DEF TablesInv, GroupsExist
      <4> QED
        BY <1>4, <4>1, <4>2 DEF OnlyCtx
    <3> QED
      BY <3>1, <3>2
  <2>2. ASSUME NEW d \in Ctxs, NEW s \in Shaders, g3d'[d].state = "none"
        PROVE  driver'[d][s] = NoShader
    BY <1>1, <1>4, <2>2 DEF TablesInv, GroupsExist, OnlyCtx
  <2> QED
    BY <2>1, <2>2 DEF GroupsExist
<1>9. OneGroup'
  BY <1>2, <1>6 DEF OneGroup
<1>10. TablesOf(group)
  <2>1. CASE Shared = Nobody
    <3>1. \A s \in Shaders : driver[group][s] = NoShader
      BY <1>1, <1>3, <2>1 DEF TablesInv, GroupsExist
    <3> QED
      BY <3>1 DEF TablesOf
  <2>2. CASE Shared # Nobody
    <3>1. SharesGroup(group)
      BY <1>2, <1>3, <2>2 DEF SharesGroup, MaybeCtx
    <3> QED
      BY <3>1 DEF TablesInv, TablesAgree, InUse
  <2> QED
    BY <2>1, <2>2
<1>11. TablesAgree'
  <2>1. ASSUME NEW g \in Ctxs, InUse(g)' PROVE g = group
    BY <1>2, <1>6, <2>1 DEF InUse, SharesGroup
  <2> QED
    BY <1>1, <1>10, <2>1 DEF TablesAgree, TablesOf
<1> QED
  BY <1>8, <1>9, <1>11 DEF TablesInv

(* The objects of a share group go with its last context. *)
LEMMA TabDestroy ==
  ASSUME IsolationInv, TablesInv, NEW t \in GLThreads, GraphicsDestroy(t)
  PROVE  TablesInv'
<1> USE IsoIs, ThreadsAre
<1>1. PICK c \in Ctxs :
           /\ c = glCall[t].ctx /\ g3d[c].state = "dying" /\ displayLock = Nobody
           /\ glCall[t].step = "destroy" /\ glCall[t].fn = "destroy"
           /\ OnlyCtx(c) /\ g3d'[c].state = "gone" /\ g3d'[c].group = g3d[c].group
           /\ OnlyCall(t) /\ glCall'[t].step = "idle" /\ glCall'[t].fn = "none"
           /\ current' = [current EXCEPT ![t] = Nobody]
           /\ subMaps' = [subMaps EXCEPT ![c] = {}]
           /\ driver' = IF \E d \in Ctxs \ {c} : Live(d) /\ g3d[d].group = g3d[c].group
                        THEN driver
                        ELSE [driver EXCEPT ![g3d[c].group] = [s \in Shaders |-> NoShader]]
           /\ UNCHANGED <<displayLock, typeTable, sourceTable>>
  BY DestroyIs
<1>2. Keeps
  <2>1. Creates' => Creates /\ Shared' = Shared
    BY <1>1 DEF Creates, Shared, OnlyCall
  <2> QED
    BY <1>1, <2>1 DEF Keeps, OnlyCtx, Live
<1>3. driver \in [Ctxs -> [Shaders -> ShaderType]]
  BY DEF IsolationInv, GLTypes
<1>4. ASSUME NEW g \in Ctxs
      PROVE  driver'[g] = driver[g] \/ \A s \in Shaders : driver'[g][s] = NoShader
  BY <1>1, <1>3
<1>5. \A d \in Ctxs, s \in Shaders : g3d[d].state = "none" => driver'[d][s] = NoShader
  BY <1>4 DEF TablesInv, GroupsExist
<1>6. /\ GroupsExist' /\ OneGroup'
      /\ \A g \in Ctxs : InUse(g)' => InUse(g)
  BY <1>2, <1>5, TabKeeps DEF TablesInv
<1>7. TablesAgree'
  <2>1. ASSUME NEW g \in Ctxs, InUse(g)' PROVE TablesOf(g)'
    <3>1. TablesOf(g)
      BY <1>6, <2>1 DEF TablesInv, TablesAgree
    <3> QED
      BY <1>1, <1>4, <3>1, ZenonT(60) DEF TablesOf
  <2> QED
    BY <2>1 DEF TablesAgree
<1> QED
  BY <1>6, <1>7 DEF TablesInv

(* A shader of the group in use: what a table call writes about it. *)
LEMMA TabCall ==
  ASSUME IsolationInv, TablesInv, NEW t \in GLThreads,
         \/ PlainCall(t) \/ CreateShader(t) \/ DeleteShader(t) \/ ShaderSource(t)
         \/ UnmapTexSubImage2D(t) \/ ResizeBuffers(t) \/ Expose(t)
  PROVE  TablesInv'
<1> USE IsoIs, ThreadsAre
<1>1. glCall[t].step = "call" /\ Keeps
  BY IsoCall, ReleaseKeeps
<1>2. TableTypes /\ TableTypes'
  BY IsoCall DEF IsolationInv, GLTypes, TableTypes
<1>3. CASE PlainCall(t) \/ UnmapTexSubImage2D(t) \/ ResizeBuffers(t) \/ Expose(t)
  <2>1. UNCHANGED <<driver, typeTable, sourceTable>>
    BY <1>3 DEF PlainCall, UnmapTexSubImage2D, ResizeBuffers, Expose, glTables
  <2> QED
    BY <1>1, <2>1, TabSame
<1>4. CASE CreateShader(t) \/ DeleteShader(t) \/ ShaderSource(t)
  <2>1. glCall[t].fn \in TableCalls
    BY <1>4 DEF CreateShader, DeleteShader, ShaderSource, InCall, TableCalls
  <2>2. PICK c \in Ctxs : t = GLPlugin /\ c = glCall[t].ctx /\ current[t] = c /\ Live(c) /\ ~Creates
    BY <1>1, <2>1 DEF CallOf, TableCalls, Creates
  <2>3. PICK g \in Ctxs : /\ g = GroupOf(t) /\ InUse(g) /\ g3d[g].state # "none"
                          /\ \A d \in Ctxs : Live(d) => g3d[d].group = g
    BY <2>2 DEF GroupOf, TablesInv, GroupsExist, OneGroup, InUse, Live
  <2>4. \A h \in Ctxs : InUse(h) => h = g
    BY <2>2, <2>3 DEF InUse, SharesGroup
  <2>5. \A h \in Ctxs \ {g} : driver'[h] = driver[h]
    <3>1. CASE CreateShader(t)
      <4>1. PICK s \in Shaders, type \in ShaderTypes :
              driver' = [driver EXCEPT ![g][s] = [NoShader EXCEPT !.type = type]]
        BY <2>3, <3>1 DEF CreateShader
      <4> QED
        BY <1>2, <4>1 DEF TableTypes
    <3>2. CASE DeleteShader(t)
      <4>1. PICK s \in Shaders : driver' = [driver EXCEPT ![g][s] = NoShader]
        BY <2>3, <3>2 DEF DeleteShader
      <4> QED
        BY <1>2, <4>1 DEF TableTypes
    <3>3. CASE ShaderSource(t)
      <4>1. PICK s \in Shaders, b \in GLSources :
              driver' = [driver EXCEPT ![g][s] = [driver[g][s] EXCEPT !.body = b, !.as = typeTable[s]]]
        BY <2>3, <3>3 DEF ShaderSource
      <4> QED
        BY <1>2, <4>1 DEF TableTypes
    <3> QED
      BY <1>4, <3>1, <3>2, <3>3
  <2>6. /\ GroupsExist' /\ OneGroup'
        /\ \A h \in Ctxs : InUse(h)' => InUse(h)
    <3>1. \A d \in Ctxs, s \in Shaders : g3d[d].state = "none" => driver'[d][s] = NoShader
      BY <2>3, <2>5 DEF TablesInv, GroupsExist
    <3> QED
      BY <1>1, <3>1, TabKeeps DEF TablesInv
  <2>7. TablesOf(g)
    BY <2>3 DEF TablesInv, TablesAgree
  <2>8. TablesOf(g)'
    <3>1. CASE CreateShader(t)
      <4>1. PICK s \in Shaders, type \in ShaderTypes :
              /\ driver' = [driver EXCEPT ![g][s] = [NoShader EXCEPT !.type = type]]
              /\ typeTable' = [typeTable EXCEPT ![s] = type] /\ sourceTable' = sourceTable
        BY <2>3, <3>1 DEF CreateShader
      <4>2. /\ driver'[g][s].type = type /\ driver'[g][s].body = Nobody /\ typeTable'[s] = type
            /\ \A z \in Shaders \ {s} : driver'[g][z] = driver[g][z] /\ typeTable'[z] = typeTable[z]
        BY <1>2, <4>1 DEF TableTypes, NoShader
      <4> QED
        BY <2>7, <4>1, <4>2 DEF TablesOf
    <3>2. CASE DeleteShader(t)
      <4>1. PICK s \in Shaders :
              /\ driver' = [driver EXCEPT ![g][s] = NoShader]
              /\ sourceTable' = [sourceTable EXCEPT ![s] = Nobody]
              /\ typeTable' = [typeTable EXCEPT ![s] = "none"]
        BY <2>3, <3>2 DEF DeleteShader
      <4>2. /\ driver'[g][s] = NoShader
            /\ \A z \in Shaders \ {s} : /\ driver'[g][z] = driver[g][z] /\ typeTable'[z] = typeTable[z]
                                        /\ sourceTable'[z] = sourceTable[z]
        BY <1>2, <4>1 DEF TableTypes
      <4> QED
        BY <2>7, <4>2 DEF TablesOf
    <3>3. CASE ShaderSource(t)
      <4>1. PICK s \in Shaders, b \in GLSources :
              /\ driver[g][s] # NoShader
              /\ sourceTable' = [sourceTable EXCEPT ![s] = b] /\ typeTable' = typeTable
              /\ driver' = [driver EXCEPT ![g][s] = [driver[g][s] EXCEPT !.body = b, !.as = typeTable[s]]]
        BY <2>3, <3>3 DEF ShaderSource
      <4>2. driver[g][s] \in ShaderType
        BY <1>2 DEF TableTypes
      <4> DEFINE r == [driver[g][s] EXCEPT !.body = b, !.as = typeTable[s]]
      <4>3. r.body = b /\ r.as = typeTable[s] /\ r.type = driver[g][s].type
        BY <4>2 DEF ShaderType
      <4>4. driver' = [driver EXCEPT ![g][s] = r]
        BY <4>1
      <4> HIDE DEF r
      <4>5. /\ driver'[g][s] = r /\ sourceTable'[s] = b
            /\ \A z \in Shaders \ {s} : driver'[g][z] = driver[g][z] /\ sourceTable'[z] = sourceTable[z]
        BY <1>2, <4>1, <4>4 DEF TableTypes
      <4>6. typeTable[s] = driver[g][s].type
        BY <2>7, <4>1 DEF TablesOf
      <4> QED
        BY <2>7, <4>1, <4>3, <4>5, <4>6 DEF TablesOf
    <3> QED
      BY <1>4, <3>1, <3>2, <3>3
  <2> QED
    BY <2>4, <2>6, <2>8 DEF TablesInv, TablesAgree
<1> QED
  BY <1>3, <1>4

LEMMA TabInit == GLInit => TablesInv
<1> SUFFICES ASSUME GLInit PROVE TablesInv
  OBVIOUS
<1> USE ThreadsAre DEF GLInit
<1>1. \A c \in Ctxs : g3d[c].state = "none" /\ ~Live(c) /\ \A s \in Shaders : driver[c][s] = NoShader
  BY DEF Live
<1>2. ~Creates
  BY DEF Creates, NoCall
<1> QED
  BY <1>1, <1>2 DEF TablesInv, GroupsExist, OneGroup, TablesAgree, TablesOf

LEMMA TabNext ==
  ASSUME IsolationInv, TablesInv, Unshared = FALSE, [GLNext]_glVars
  PROVE  TablesInv'
<1>1. ASSUME NEW c \in Ctxs, NEW share \in Ctxs \cup {Nobody}, GraphicsCreateBegin(c, share)
      PROVE  TablesInv'
  BY <1>1, TabCreateBegin DEF MaybeCtx
<1>2. ASSUME NEW c \in Ctxs, NEW fn \in DriverCalls \cup {"resize"}, Prologue(GLPlugin, c, fn)
      PROVE  TablesInv'
  <2>1. fn \in Fns \ {"create"}
    BY PluginCallsAre DEF Fns, PluginCalls, TableCalls
  <2> QED
    BY <1>2, <2>1, TabPrologue, ThreadsAre
<1>3. ASSUME NEW c \in Ctxs, Prologue(GLBrowser, c, "expose")
      PROVE  TablesInv'
  <2>1. "expose" \in Fns \ {"create"}
    BY DEF Fns
  <2> QED
    BY <1>3, <2>1, TabPrologue, ThreadsAre
<1>4. ASSUME NEW c \in Ctxs, NEW mem \in Mems, MapTexSubImage2D(c, mem)
      PROVE  TablesInv'
  BY <1>4, TabMap
<1>5. ASSUME NEW c \in Ctxs, NEW part \in {"held", "bound"}, DropReference(c, part)
      PROVE  TablesInv'
  BY <1>5, TabDrop
<1>6. ASSUME NEW c \in Ctxs, BindContext(c)
      PROVE  TablesInv'
  BY <1>6, TabBind
<1>7. ASSUME NEW t \in GLThreads, GLStep(t)
      PROVE  TablesInv'
  BY <1>7, TabLock, TabCall, TabDestroy, TabCreateEnd DEF GLStep
<1>8. CASE UNCHANGED glVars
  <2>1. UNCHANGED <<g3d, glCall, driver, typeTable, sourceTable>>
    BY <1>8 DEF glVars
  <2>2. Keeps
    BY <2>1 DEF Keeps, Live, Creates, Shared
  <2> QED
    BY <2>1, <2>2, TabSame
<1> QED
  BY <1>1, <1>2, <1>3, <1>4, <1>5, <1>6, <1>7, <1>8 DEF GLNext

-----------------------------------------------------------------------------
(* A driver call of ppb_opengles2.c runs with its own context current and  *)
(* display.lock held, no thread has a dead context current, and the two    *)
(* tables of the shader translator say what the driver has of the shaders  *)
(* of the live contexts.  It holds of plugins that keep to one share group *)
(* and make a further call before they release a context they resized: the *)
(* two switches stand for the plugins that do not.                         *)
THEOREM GLCallsAreIsolatedCorrect ==
  ASSUME Unshared = FALSE, LeavesCurrent = FALSE
  PROVE  GLSpec => []GLCallsAreIsolated
<1>1. GLInit => GLInv
  BY IsoInit, TabInit DEF GLInv
<1>2. GLInv /\ [GLNext]_glVars => GLInv'
  BY IsoNext, TabNext DEF GLInv
<1>3. GLInv => GLCallsAreIsolated
  <2> SUFFICES ASSUME GLInv PROVE GLCallsAreIsolated
    OBVIOUS
  <2> USE IsoIs, ThreadsAre DEF GLInv
  <2>1. \A t \in GLThreads : glCall[t].step = "call" =>
          displayLock = t /\ (glCall[t].fn # "expose" => current[t] = glCall[t].ctx)
    BY DEF CallOf
  <2>2. \A t \in GLThreads : current[t] # Nobody => Live(current[t])
    BY DEF WhatIsCurrent
  <2>3. ShaderTablesAgree
    <3>1. ASSUME NEW g \in Ctxs, NEW s \in Shaders, driver[g][s] # NoShader,
                 \E c \in Ctxs : Live(c) /\ g3d[c].group = g
          PROVE  /\ typeTable[s] = driver[g][s].type
                 /\ driver[g][s].body # Nobody =>
                      driver[g][s].as = driver[g][s].type /\ sourceTable[s] = driver[g][s].body
      BY <3>1 DEF TablesInv, TablesAgree, InUse, TablesOf
    <3> QED
      BY <3>1 DEF ShaderTablesAgree
  <2> QED
    BY <2>1, <2>2, <2>3 DEF GLCallsAreIsolated, CallsHaveTheirContext
<1> QED
  BY <1>1, <1>2, <1>3, PTL DEF GLSpec

-----------------------------------------------------------------------------
(* Loading and unloading.  The search path may have any length, so what    *)
(* the search returns is proved by induction, in the form that the provers *)
(* can use: a set of numbers has a least member, the least counterexample  *)
(* included.                                                               *)

LessOnNat == {ss \in Nat \X Nat : ss[1] < ss[2]}

\* A set of numbers that is not empty has a least member.
LEMMA LeastNumber ==
  ASSUME NEW T \in SUBSET Nat, T # {} PROVE \E x \in T : \A y \in T : x <= y
<1>1. IsWellFoundedOn(LessOnNat, Nat) BY NatLessThanWellFounded DEF OpToRel, LessOnNat
<1>2. PICK x \in T : \A y \in T : ~ (<<y, x>> \in LessOnNat)
  BY <1>1, WFMin
<1>3. \A y \in T : ~(y < x)
  BY <1>2 DEF LessOnNat
<1> QED BY <1>3

\* g is what the recursion of Probed computes for the first n files.
IsProbed(g, n) ==
  /\ g \in [0..n -> Nat]
  /\ \A k \in 0..n : g[k] = IF k = 0 THEN 0 ELSE probe_flapper(g[k - 1], Candidates[k])

\* The files of the search path are numbers, and there are finitely many.
LEMMA CandidateTypes ==
  Len(Candidates) \in Nat /\ \A k \in 1..Len(Candidates) : Candidates[k] \in Nat
BY ModuleAssumption

\* What one more file does: the result is a number, as new as both, and there is one if there
\* was one before.
LEMMA ProbeFlapper ==
  ASSUME NEW f \in Nat, NEW v \in Nat
  PROVE probe_flapper(f, v) \in Nat /\ f <= probe_flapper(f, v) /\ v <= probe_flapper(f, v)
BY DEF probe_flapper

\* The recursion has a solution for every number of files.
LEMMA ProbedExists == \A n \in 0..Len(Candidates) : \E g : IsProbed(g, n)
<1> DEFINE T == {n \in 0..Len(Candidates) : ~ \E g : IsProbed(g, n)}
<1> SUFFICES ASSUME T # {} PROVE FALSE OBVIOUS
<1>1. T \in SUBSET Nat BY CandidateTypes
<1>2. PICK n \in T : \A y \in T : n <= y BY <1>1, LeastNumber
<1>3. n \in 0..Len(Candidates) /\ ~ \E g : IsProbed(g, n) OBVIOUS
<1> HIDE DEF T
<1>4. CASE n = 0
  <2>1. IsProbed([k \in 0..0 |-> 0], 0) BY DEF IsProbed
  <2> QED BY <2>1, <1>3, <1>4
<1>5. CASE n # 0
  <2>1. n - 1 \in 0..Len(Candidates) /\ n \in 1..Len(Candidates) /\ n - 1 < n /\ n \in Nat
    BY CandidateTypes, <1>3, <1>5
  <2>2. \E g : IsProbed(g, n - 1) BY CandidateTypes, <1>2, <2>1 DEF T
  <2>3. PICK g : IsProbed(g, n - 1) BY <2>2
  <2> DEFINE last == probe_flapper(g[n - 1], Candidates[n])
  <2> DEFINE h == [k \in 0..n |-> IF k = n THEN last ELSE g[k]]
  <2>4. last \in Nat
    <3>1. g[n - 1] \in Nat BY <2>1, <2>3 DEF IsProbed
    <3> QED BY <3>1, <2>1, CandidateTypes, ProbeFlapper
  <2>5. h \in [0..n -> Nat]
    <3> HIDE DEF last
    <3>1. \A k \in 0..n : k # n => g[k] \in Nat BY <2>1, <2>3 DEF IsProbed
    <3> QED BY <3>1, <2>4
  <2>6. ASSUME NEW k \in 0..n
        PROVE h[k] = IF k = 0 THEN 0 ELSE probe_flapper(h[k - 1], Candidates[k])
    <3>1. CASE k = n BY <3>1, <2>1
    <3>2. CASE k # n
      <4>1. k \in 0..(n - 1) /\ (k # 0 => k - 1 \in 0..n /\ k - 1 # n) BY <2>1, <3>2
      <4>2. h[k] = g[k] /\ (k # 0 => h[k - 1] = g[k - 1]) BY <4>1, <3>2
      <4> HIDE DEF h
      <4> QED BY <4>1, <4>2, <2>3 DEF IsProbed
    <3> QED BY <3>1, <3>2
  <2>7. IsProbed(h, n)
    <3> HIDE DEF h
    <3> QED BY <2>5, <2>6 DEF IsProbed
  <2> QED BY <2>7, <1>3
<1> QED BY <1>4, <1>5

\* Probed is that solution.
LEMMA ProbedStep ==
  \A k \in 0..Len(Candidates) :
    Probed[k] = IF k = 0 THEN 0 ELSE probe_flapper(Probed[k - 1], Candidates[k])
<1> DEFINE R(f) == f = [k \in 0..Len(Candidates) |->
                          IF k = 0 THEN 0 ELSE probe_flapper(f[k - 1], Candidates[k])]
<1>1. PICK g : IsProbed(g, Len(Candidates)) BY CandidateTypes, ProbedExists
<1>2. R(g) BY <1>1 DEF IsProbed
<1>3. Probed = CHOOSE f : R(f) BY DEF Probed
<1>4. R(Probed) BY <1>2, <1>3
<1> QED BY <1>4

\* After any number of files the plugin found is a number that no file so far exceeds.
LEMMA ProbedIsNewest ==
  \A n \in 0..Len(Candidates) :
    Probed[n] \in Nat /\ \A k \in 1..n : Candidates[k] <= Probed[n]
<1> DEFINE Good(n) == Probed[n] \in Nat /\ \A k \in 1..n : Candidates[k] <= Probed[n]
           T == {n \in 0..Len(Candidates) : ~ Good(n)}
<1> SUFFICES ASSUME T # {} PROVE FALSE OBVIOUS
<1>1. T \in SUBSET Nat BY CandidateTypes
<1>2. PICK n \in T : \A y \in T : n <= y BY <1>1, LeastNumber
<1>3. n \in 0..Len(Candidates) /\ ~ Good(n) OBVIOUS
<1>4. CASE n = 0 BY <1>3, <1>4, ProbedStep
<1>5. CASE n # 0
  <2>1. n - 1 \in 0..Len(Candidates) /\ n \in 1..Len(Candidates) /\ n - 1 < n /\ n \in Nat
    BY CandidateTypes, <1>3, <1>5
  <2>2. n - 1 \notin T BY <1>2, <2>1
  <2>3. Good(n - 1) BY <2>1, <2>2
  <2>4. Probed[n] = probe_flapper(Probed[n - 1], Candidates[n]) BY ProbedStep, <2>1, <1>5
  <2>5. Probed[n] \in Nat /\ Probed[n - 1] <= Probed[n] /\ Candidates[n] <= Probed[n]
    BY <2>1, <2>3, <2>4, CandidateTypes, ProbeFlapper
  <2>6. ASSUME NEW k \in 1..n PROVE Candidates[k] <= Probed[n]
    <3>1. CASE k = n BY <3>1, <2>5
    <3>2. CASE k # n
      <4>1. k \in 1..(n - 1) /\ k \in 1..Len(Candidates) BY <2>1, <3>2
      <4>2. Candidates[k] <= Probed[n - 1] /\ Candidates[k] \in Nat /\ Probed[n - 1] \in Nat
        BY <4>1, <2>3, CandidateTypes
      <4> QED BY <4>2, <2>5
    <3> QED BY <3>1, <3>2
  <2> QED BY <2>5, <2>6, <1>3
<1> QED BY <1>4, <1>5

\* fpp_config_find_backend_plugin returns the newest plugin on the search path.
LEMMA NewestPluginIsFound ==
  /\ fpp_config_find_backend_plugin \in Nat
  /\ \A k \in 1..Len(Candidates) : Candidates[k] <= fpp_config_find_backend_plugin
BY ProbedIsNewest, CandidateTypes DEF fpp_config_find_backend_plugin

-----------------------------------------------------------------------------
(* The invariant of loading.  NP_Initialize goes through its steps once;   *)
(* the plugin's code has work only between the opening of the display and  *)
(* unload_ppp_module, and the work of NP_Initialize and NP_Shutdown is     *)
(* queued only while they wait for it.                                     *)

Waiting == {"initializing", "shutting"}
Steps == {"idle", "load", "barrier", "display", "initialized", "unload"} \cup Waiting

ModuleTypes ==
  /\ npCalled \in BOOLEAN /\ functions \in BOOLEAN /\ browserOld \in BOOLEAN
  /\ cfg \in [initialized : BOOLEAN, missing : BOOLEAN, path : Nat]
  /\ dl \in {"none", "open"} /\ mainThread \in {"none", "starting", "running"}
  /\ mainJob \in {"none", "init", "shutdown", "callback"}
  /\ mainQueue \in Seq({"init", "shutdown"}) /\ callbacks \in Nat
  /\ xDisplay \in {"none", "open", "failed", "closed"} /\ decoders \in SUBSET {"va", "vdpau"}
  /\ dbus \in BOOLEAN
  /\ npStep \in Steps /\ npResult \in {"none", "ok", "error"} /\ instances \in {0, 1}

\* Where NP_Initialize and NP_Shutdown are.
ModuleSteps ==
  /\ ~npCalled => /\ npStep = "idle" /\ ~functions /\ xDisplay = "none" /\ dl = "none"
                  /\ mainThread = "none"
  /\ npStep \in {"load", "barrier", "display"} => functions /\ xDisplay = "none"
  /\ npStep = "load" => dl = "none"
  /\ npStep = "barrier" => dl = "open"
  /\ npStep \in Waiting \cup {"initialized", "unload"} => functions /\ xDisplay = "open"
  /\ npStep \in Waiting \cup {"initialized"} => dl = "open"
  /\ npStep \in {"shutting", "unload"} => instances = 0 /\ callbacks = 0
  /\ npStep = "unload" => mainJob = "none"
  /\ xDisplay = "closed" => dl = "none" /\ decoders = {} /\ ~dbus
  /\ functions => npCalled

\* What there is for the plugin's main thread to do.
ModuleWork ==
  /\ mainJob # "none" \/ callbacks > 0 => dl = "open" /\ xDisplay = "open"
  /\ instances > 0 => xDisplay = "open"
  /\ npStep \notin Waiting => mainQueue = <<>>
  /\ mainJob \in {"init", "shutdown"} => mainQueue = <<>>
  /\ mainJob = "init" => npStep = "initializing"
  /\ mainJob = "shutdown" => npStep = "shutting"
  /\ mainQueue # <<>> => mainQueue = IF npStep = "shutting" THEN <<"shutdown">> ELSE <<"init">>
  /\ npStep = "shutting" => mainJob \in {"none", "shutdown"}

\* What the configuration says.
ModuleConfig ==
  /\ cfg.initialized => cfg.path = fpp_config_find_backend_plugin
  /\ functions /\ xDisplay # "closed" => cfg.initialized
  /\ functions /\ xDisplay # "closed" /\ browserOld => cfg.missing
  /\ xDisplay = "open" /\ dl = "none" => cfg.missing
  /\ npStep = "display" /\ dl = "none" => cfg.missing
  /\ xDisplay \in {"open", "failed", "closed"} => functions
  /\ dl = "open" => functions /\ xDisplay # "closed"

ModuleInv == ModuleTypes /\ ModuleSteps /\ ModuleWork /\ ModuleConfig

ModuleSpec == ModuleInit /\ [][ModuleNext]_moduleVars

\* Nothing is loaded at first.
LEMMA ModuleInitInv == ModuleInit => ModuleInv
<1> SUFFICES ASSUME ModuleInit PROVE ModuleInv OBVIOUS
<1> USE DEF ModuleInit, DefaultConfig
<1>1. ModuleTypes
  <2>1. cfg \in [initialized : BOOLEAN, missing : BOOLEAN, path : Nat] OBVIOUS
  <2>2. mainQueue \in Seq({"init", "shutdown"}) OBVIOUS
  <2> QED BY <2>1, <2>2 DEF ModuleTypes, Steps, Waiting
<1>2. ModuleSteps BY DEF ModuleSteps, Waiting
<1>3. ModuleWork BY DEF ModuleWork, Waiting
<1>4. ModuleConfig BY DEF ModuleConfig
<1> QED BY <1>1, <1>2, <1>3, <1>4 DEF ModuleInv

\* probe_ppp_module reads the configuration, keeps its mark and sets it if there is no plugin.
LEMMA ProbeModule ==
  ASSUME NEW c \in [initialized : BOOLEAN, missing : BOOLEAN, path : Nat],
         c.initialized => c.path = fpp_config_find_backend_plugin
  PROVE LET p == probe_ppp_module(c) IN
    /\ p \in [initialized : BOOLEAN, missing : BOOLEAN, path : Nat]
    /\ p.initialized /\ p.path = fpp_config_find_backend_plugin
    /\ c.initialized /\ c.missing => p.missing
    /\ p.path = 0 => p.missing
BY NewestPluginIsFound DEF probe_ppp_module, fpp_config_initialize, DefaultConfig
\* NP_GetValue: the configuration is read, or read before.
LEMMA Inv_NP_GetValue ==
  ASSUME ModuleInv, NP_GetValue, CarefulBrowser, ProbesFirst, ~LeavesWork
  PROVE  ModuleInv'
<1> USE DEF NP_GetValue, mainVars, screenVars
<1>1. ModuleTypes /\ ModuleSteps /\ ModuleWork /\ ModuleConfig BY DEF ModuleInv
<1>2. /\ probe_ppp_module(cfg) \in [initialized : BOOLEAN, missing : BOOLEAN, path : Nat]
      /\ probe_ppp_module(cfg).initialized
      /\ probe_ppp_module(cfg).path = fpp_config_find_backend_plugin
      /\ cfg.initialized /\ cfg.missing => probe_ppp_module(cfg).missing
      /\ probe_ppp_module(cfg).path = 0 => probe_ppp_module(cfg).missing
  BY <1>1, ProbeModule DEF ModuleTypes, ModuleConfig
<1>3. ModuleTypes' BY <1>1, <1>2 DEF ModuleTypes, Steps, Waiting
<1>4. ModuleSteps'
  BY <1>1, <1>2 DEF ModuleTypes, ModuleSteps, ModuleWork, ModuleConfig, Waiting, Steps
<1>5. ModuleWork' BY <1>1, <1>2 DEF ModuleTypes, ModuleSteps, ModuleWork, Waiting, Steps
<1>6. ModuleConfig' BY <1>1, <1>2 DEF ModuleTypes, ModuleSteps, ModuleConfig, Waiting, Steps
<1> QED BY <1>3, <1>4, <1>5, <1>6 DEF ModuleInv

\* NP_Initialize: it goes on only the first time.
LEMMA Inv_NP_Initialize ==
  ASSUME ModuleInv, NP_Initialize, CarefulBrowser, ProbesFirst, ~LeavesWork
  PROVE  ModuleInv'
<1> USE DEF NP_Initialize, Return, mainVars, screenVars
<1>1. ModuleTypes /\ ModuleSteps /\ ModuleWork /\ ModuleConfig BY DEF ModuleInv
<1>3. ModuleTypes'
  <2>1. npCalled' \in BOOLEAN /\ functions' \in BOOLEAN BY <1>1 DEF ModuleTypes
  <2>2. cfg' \in [initialized : BOOLEAN, missing : BOOLEAN, path : Nat] BY <1>1 DEF ModuleTypes
  <2>3. npStep' \in Steps /\ npResult' \in {"none", "ok", "error"}
    BY <1>1 DEF ModuleTypes, Steps, Waiting
  <2> QED BY <1>1, <2>1, <2>2, <2>3 DEF ModuleTypes
<1>4. ModuleSteps' BY <1>1 DEF ModuleTypes, ModuleSteps, ModuleWork, ModuleConfig, Waiting, Steps
<1>5. ModuleWork' BY <1>1 DEF ModuleTypes, ModuleSteps, ModuleWork, Waiting, Steps
<1>6. ModuleConfig' BY <1>1 DEF ModuleTypes, ModuleSteps, ModuleConfig, Waiting, Steps
<1> QED BY <1>3, <1>4, <1>5, <1>6 DEF ModuleInv

\* load_ppp_module: a library is open afterwards, or the plugin is marked as missing.
LEMMA Inv_load_ppp_module ==
  ASSUME ModuleInv, load_ppp_module, CarefulBrowser, ProbesFirst, ~LeavesWork
  PROVE  ModuleInv'
<1> USE DEF load_ppp_module, mainVars, screenVars
<1>1. ModuleTypes /\ ModuleSteps /\ ModuleWork /\ ModuleConfig BY DEF ModuleInv
<1>2. /\ probe_ppp_module(cfg) \in [initialized : BOOLEAN, missing : BOOLEAN, path : Nat]
      /\ probe_ppp_module(cfg).initialized
      /\ probe_ppp_module(cfg).path = fpp_config_find_backend_plugin
      /\ cfg.initialized /\ cfg.missing => probe_ppp_module(cfg).missing
      /\ probe_ppp_module(cfg).path = 0 => probe_ppp_module(cfg).missing
  BY <1>1, ProbeModule DEF ModuleTypes, ModuleConfig
<1>3. ModuleTypes'
  <2>1. cfg' \in [initialized : BOOLEAN, missing : BOOLEAN, path : Nat] BY <1>1, <1>2 DEF ModuleTypes
  <2>2. /\ dl' \in {"none", "open"} /\ mainThread' \in {"none", "starting", "running"}
        /\ npStep' \in Steps
    BY <1>1 DEF ModuleTypes, Steps, Waiting
  <2> QED BY <1>1, <2>1, <2>2 DEF ModuleTypes
<1>4. ModuleSteps'
  BY <1>1, <1>2 DEF ModuleTypes, ModuleSteps, ModuleWork, ModuleConfig, Waiting, Steps
<1>5. ModuleWork' BY <1>1, <1>2 DEF ModuleTypes, ModuleSteps, ModuleWork, Waiting, Steps
<1>6. ModuleConfig' BY <1>1, <1>2 DEF ModuleTypes, ModuleSteps, ModuleConfig, Waiting, Steps
<1> QED BY <1>3, <1>4, <1>5, <1>6 DEF ModuleInv

\* fresh_wrapper_main_thread: the barrier is passed.
LEMMA Inv_fresh_wrapper_main_thread ==
  ASSUME ModuleInv, fresh_wrapper_main_thread, CarefulBrowser, ProbesFirst, ~LeavesWork
  PROVE  ModuleInv'
<1> USE DEF fresh_wrapper_main_thread, mainVars, screenVars
<1>1. ModuleTypes /\ ModuleSteps /\ ModuleWork /\ ModuleConfig BY DEF ModuleInv
<1>3. ModuleTypes' BY <1>1 DEF ModuleTypes, Steps, Waiting
<1>4. ModuleSteps' BY <1>1 DEF ModuleTypes, ModuleSteps, ModuleWork, ModuleConfig, Waiting, Steps
<1>5. ModuleWork' BY <1>1 DEF ModuleTypes, ModuleSteps, ModuleWork, Waiting, Steps
<1>6. ModuleConfig' BY <1>1 DEF ModuleTypes, ModuleSteps, ModuleConfig, Waiting, Steps
<1> QED BY <1>3, <1>4, <1>5, <1>6 DEF ModuleInv

\* tables_open_display: the plugin is initialised only with a display.
LEMMA Inv_tables_open_display ==
  ASSUME ModuleInv, tables_open_display, CarefulBrowser, ProbesFirst, ~LeavesWork
  PROVE  ModuleInv'
<1> USE DEF tables_open_display, Return, initialize_decoders, screensaver_connect, mainVars,
            screenVars
<1>1. ModuleTypes /\ ModuleSteps /\ ModuleWork /\ ModuleConfig BY DEF ModuleInv
<1>3. ModuleTypes'
  <2>1. mainQueue' \in Seq({"init", "shutdown"}) BY <1>1 DEF ModuleTypes
  <2>2. decoders' \in SUBSET {"va", "vdpau"} /\ dbus' \in BOOLEAN BY <1>1, Zenon DEF ModuleTypes
  <2>3. /\ npStep' \in Steps /\ npResult' \in {"none", "ok", "error"}
        /\ xDisplay' \in {"none", "open", "failed", "closed"}
    BY <1>1 DEF ModuleTypes, Steps, Waiting
  <2> QED BY <1>1, <2>1, <2>2, <2>3 DEF ModuleTypes
<1>4. ModuleSteps' BY <1>1 DEF ModuleTypes, ModuleSteps, ModuleWork, ModuleConfig, Waiting, Steps
<1>5. ModuleWork' BY <1>1 DEF ModuleTypes, ModuleSteps, ModuleWork, Waiting, Steps
<1>6. ModuleConfig' BY <1>1 DEF ModuleTypes, ModuleSteps, ModuleConfig, Waiting, Steps
<1> QED BY <1>3, <1>4, <1>5, <1>6 DEF ModuleInv

\* MainTakes: what is taken was posted for an open library.
LEMMA Inv_MainTakes ==
  ASSUME ModuleInv, MainTakes, CarefulBrowser, ProbesFirst, ~LeavesWork
  PROVE  ModuleInv'
<1> USE DEF MainTakes, mainVars, screenVars
<1>1. ModuleTypes /\ ModuleSteps /\ ModuleWork /\ ModuleConfig BY DEF ModuleInv
<1>3. ModuleTypes'
  <2>1. mainQueue' \in Seq({"init", "shutdown"})
    <3>1. PICK Q : Q = Seq({"init", "shutdown"}) OBVIOUS
    <3>2. mainQueue \in Q /\ (mainQueue # <<>> => Tail(mainQueue) \in Q) BY <1>1, <3>1 DEF ModuleTypes
    <3>3. mainQueue' = mainQueue \/ (mainQueue # <<>> /\ mainQueue' = Tail(mainQueue)) OBVIOUS
    <3> QED BY ONLY <3>1, <3>2, <3>3
  <2>2. mainJob' \in {"none", "init", "shutdown", "callback"} BY <1>1 DEF ModuleTypes
  <2>3. callbacks' \in Nat BY <1>1 DEF ModuleTypes
  <2> QED BY <1>1, <2>1, <2>2, <2>3 DEF ModuleTypes
<1>4. ModuleSteps' BY <1>1 DEF ModuleTypes, ModuleSteps, ModuleWork, ModuleConfig, Waiting, Steps
<1>5. ModuleWork' BY <1>1 DEF ModuleTypes, ModuleSteps, ModuleWork, Waiting, Steps
<1>6. ModuleConfig' BY <1>1 DEF ModuleTypes, ModuleSteps, ModuleConfig, Waiting, Steps
<1> QED BY <1>3, <1>4, <1>5, <1>6 DEF ModuleInv

\* PluginPosts: only code that runs posts.
LEMMA Inv_PluginPosts ==
  ASSUME ModuleInv, PluginPosts, CarefulBrowser, ProbesFirst, ~LeavesWork
  PROVE  ModuleInv'
<1> USE DEF PluginPosts, mainVars, screenVars
<1>1. ModuleTypes /\ ModuleSteps /\ ModuleWork /\ ModuleConfig BY DEF ModuleInv
<1>3. ModuleTypes' BY <1>1 DEF ModuleTypes, Steps, Waiting
<1>4. ModuleSteps' BY <1>1 DEF ModuleTypes, ModuleSteps, ModuleWork, ModuleConfig, Waiting, Steps
<1>5. ModuleWork' BY <1>1 DEF ModuleTypes, ModuleSteps, ModuleWork, Waiting, Steps
<1>6. ModuleConfig' BY <1>1 DEF ModuleTypes, ModuleSteps, ModuleConfig, Waiting, Steps
<1> QED BY <1>3, <1>4, <1>5, <1>6 DEF ModuleInv

\* call_plugin_init_module_comt: the waiting loop is told to quit.
LEMMA Inv_call_plugin_init_module_comt ==
  ASSUME ModuleInv, call_plugin_init_module_comt, CarefulBrowser, ProbesFirst, ~LeavesWork
  PROVE  ModuleInv'
<1> USE DEF call_plugin_init_module_comt, mainVars, screenVars
<1>1. ModuleTypes /\ ModuleSteps /\ ModuleWork /\ ModuleConfig BY DEF ModuleInv
<1>3. ModuleTypes' BY <1>1 DEF ModuleTypes, Steps, Waiting
<1>4. ModuleSteps' BY <1>1 DEF ModuleTypes, ModuleSteps, ModuleWork, ModuleConfig, Waiting, Steps
<1>5. ModuleWork' BY <1>1 DEF ModuleTypes, ModuleSteps, ModuleWork, Waiting, Steps
<1>6. ModuleConfig' BY <1>1 DEF ModuleTypes, ModuleSteps, ModuleConfig, Waiting, Steps
<1> QED BY <1>3, <1>4, <1>5, <1>6 DEF ModuleInv

\* call_plugin_init_module: NP_Initialize returns.
LEMMA Inv_call_plugin_init_module ==
  ASSUME ModuleInv, call_plugin_init_module, CarefulBrowser, ProbesFirst, ~LeavesWork
  PROVE  ModuleInv'
<1> USE DEF call_plugin_init_module, mainVars, screenVars
<1>1. ModuleTypes /\ ModuleSteps /\ ModuleWork /\ ModuleConfig BY DEF ModuleInv
<1>3. ModuleTypes' BY <1>1 DEF ModuleTypes, Steps, Waiting
<1>4. ModuleSteps' BY <1>1 DEF ModuleTypes, ModuleSteps, ModuleWork, ModuleConfig, Waiting, Steps
<1>5. ModuleWork' BY <1>1 DEF ModuleTypes, ModuleSteps, ModuleWork, Waiting, Steps
<1>6. ModuleConfig' BY <1>1 DEF ModuleTypes, ModuleSteps, ModuleConfig, Waiting, Steps
<1> QED BY <1>3, <1>4, <1>5, <1>6 DEF ModuleInv

\* CallbackEnds: the bus is connected only while the display is open.
LEMMA Inv_CallbackEnds ==
  ASSUME ModuleInv, CallbackEnds, CarefulBrowser, ProbesFirst, ~LeavesWork
  PROVE  ModuleInv'
<1> USE DEF CallbackEnds, screensaver_connect, mainVars, screenVars
<1>1. ModuleTypes /\ ModuleSteps /\ ModuleWork /\ ModuleConfig BY DEF ModuleInv
<1>3. ModuleTypes'
  <2>1. dbus' \in BOOLEAN BY <1>1, Zenon DEF ModuleTypes
  <2> QED BY <1>1, <2>1 DEF ModuleTypes
<1>4. ModuleSteps' BY <1>1 DEF ModuleTypes, ModuleSteps, ModuleWork, ModuleConfig, Waiting, Steps
<1>5. ModuleWork' BY <1>1 DEF ModuleTypes, ModuleSteps, ModuleWork, Waiting, Steps
<1>6. ModuleConfig' BY <1>1 DEF ModuleTypes, ModuleSteps, ModuleConfig, Waiting, Steps
<1> QED BY <1>3, <1>4, <1>5, <1>6 DEF ModuleInv

\* InstanceChanges: only with a display.
LEMMA Inv_InstanceChanges ==
  ASSUME ModuleInv, InstanceChanges, CarefulBrowser, ProbesFirst, ~LeavesWork
  PROVE  ModuleInv'
<1> USE DEF InstanceChanges, mainVars, screenVars
<1>1. ModuleTypes /\ ModuleSteps /\ ModuleWork /\ ModuleConfig BY DEF ModuleInv
<1>3. ModuleTypes' BY <1>1 DEF ModuleTypes, Steps, Waiting
<1>4. ModuleSteps' BY <1>1 DEF ModuleTypes, ModuleSteps, ModuleWork, ModuleConfig, Waiting, Steps
<1>5. ModuleWork' BY <1>1 DEF ModuleTypes, ModuleSteps, ModuleWork, Waiting, Steps
<1>6. ModuleConfig' BY <1>1 DEF ModuleTypes, ModuleSteps, ModuleConfig, Waiting, Steps
<1> QED BY <1>3, <1>4, <1>5, <1>6 DEF ModuleInv

\* NP_Shutdown: nothing is left to run.
LEMMA Inv_NP_Shutdown ==
  ASSUME ModuleInv, NP_Shutdown, CarefulBrowser, ProbesFirst, ~LeavesWork
  PROVE  ModuleInv'
<1> USE DEF NP_Shutdown, mainVars, screenVars
<1>1. ModuleTypes /\ ModuleSteps /\ ModuleWork /\ ModuleConfig BY DEF ModuleInv
<1>3. ModuleTypes' BY <1>1 DEF ModuleTypes, Steps, Waiting
<1>4. ModuleSteps' BY <1>1 DEF ModuleTypes, ModuleSteps, ModuleWork, ModuleConfig, Waiting, Steps
<1>5. ModuleWork' BY <1>1 DEF ModuleTypes, ModuleSteps, ModuleWork, Waiting, Steps
<1>6. ModuleConfig' BY <1>1 DEF ModuleTypes, ModuleSteps, ModuleConfig, Waiting, Steps
<1> QED BY <1>3, <1>4, <1>5, <1>6 DEF ModuleInv

\* call_plugin_shutdown_module_comt: the waiting loop is told to quit.
LEMMA Inv_call_plugin_shutdown_module_comt ==
  ASSUME ModuleInv, call_plugin_shutdown_module_comt, CarefulBrowser, ProbesFirst, ~LeavesWork
  PROVE  ModuleInv'
<1> USE DEF call_plugin_shutdown_module_comt, mainVars, screenVars
<1>1. ModuleTypes /\ ModuleSteps /\ ModuleWork /\ ModuleConfig BY DEF ModuleInv
<1>3. ModuleTypes' BY <1>1 DEF ModuleTypes, Steps, Waiting
<1>4. ModuleSteps' BY <1>1 DEF ModuleTypes, ModuleSteps, ModuleWork, ModuleConfig, Waiting, Steps
<1>5. ModuleWork' BY <1>1 DEF ModuleTypes, ModuleSteps, ModuleWork, Waiting, Steps
<1>6. ModuleConfig' BY <1>1 DEF ModuleTypes, ModuleSteps, ModuleConfig, Waiting, Steps
<1> QED BY <1>3, <1>4, <1>5, <1>6 DEF ModuleInv

\* unload_ppp_module: nothing of the plugin is left when its library goes.
LEMMA Inv_unload_ppp_module ==
  ASSUME ModuleInv, unload_ppp_module, CarefulBrowser, ProbesFirst, ~LeavesWork
  PROVE  ModuleInv'
<1> USE DEF unload_ppp_module, tables_close_display, fpp_config_destroy, mainVars, screenVars
<1>1. ModuleTypes /\ ModuleSteps /\ ModuleWork /\ ModuleConfig BY DEF ModuleInv
<1>3. ModuleTypes'
  <2>1. cfg' \in [initialized : BOOLEAN, missing : BOOLEAN, path : Nat] BY <1>1 DEF ModuleTypes
  <2>2. npStep' \in Steps BY DEF Steps
  <2> QED BY <1>1, <2>1, <2>2 DEF ModuleTypes
<1>4. ModuleSteps' BY <1>1 DEF ModuleTypes, ModuleSteps, ModuleWork, ModuleConfig, Waiting, Steps
<1>5. ModuleWork' BY <1>1 DEF ModuleTypes, ModuleSteps, ModuleWork, Waiting, Steps
<1>6. ModuleConfig' BY <1>1 DEF ModuleTypes, ModuleSteps, ModuleConfig, Waiting, Steps
<1> QED BY <1>3, <1>4, <1>5, <1>6 DEF ModuleInv
\* The invariant is inductive.
LEMMA ModuleNextInv ==
  ASSUME ModuleInv, [ModuleNext]_moduleVars, CarefulBrowser, ProbesFirst, ~LeavesWork
  PROVE ModuleInv'
<1>1. CASE UNCHANGED moduleVars
  BY <1>1 DEF moduleVars, ModuleInv, ModuleTypes, ModuleSteps, ModuleWork, ModuleConfig
<1>2. CASE ModuleNext
  BY <1>2, Inv_NP_GetValue, Inv_NP_Initialize, Inv_NP_Shutdown, Inv_InstanceChanges,
     Inv_MainTakes, Inv_PluginPosts, Inv_CallbackEnds, Inv_load_ppp_module,
     Inv_fresh_wrapper_main_thread, Inv_tables_open_display, Inv_call_plugin_init_module_comt,
     Inv_call_plugin_init_module, Inv_call_plugin_shutdown_module_comt, Inv_unload_ppp_module
  DEF ModuleNext, ModuleProgress
<1> QED BY <1>1, <1>2

\* It implies the property.
LEMMA ModuleInvUsable == ASSUME ModuleInv PROVE ModuleIsUsable
<1> USE DEF ModuleInv, ModuleTypes, ModuleSteps, ModuleWork, ModuleConfig
<1>1. PluginRunsLoaded BY DEF PluginRunsLoaded, Waiting
<1>2. PlaceholderWhenUnusable BY NewestPluginIsFound DEF PlaceholderWhenUnusable
<1> QED BY <1>1, <1>2 DEF ModuleIsUsable

\* The plugin's code runs only while its library is loaded and the display is open, and once
\* NP_Initialize has answered the newest plugin of the search path is loaded or the browser
\* shows the placeholder, for every search path: with a browser that asks for the name first
\* and neither repeats NP_Initialize after a failure nor after NP_Shutdown, and a plugin that
\* leaves no callbacks.
THEOREM ModuleIsUsableCorrect ==
  ASSUME CarefulBrowser, ProbesFirst, ~LeavesWork
  PROVE ModuleSpec => []ModuleIsUsable
BY ModuleInitInv, ModuleNextInv, ModuleInvUsable, PTL DEF ModuleSpec
=============================================================================
