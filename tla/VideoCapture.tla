---------------------------- MODULE VideoCapture -----------------------------
(***************************************************************************)
(* The camera: src/ppb_video_capture.c.  A thread reads frames into        *)
(* buffers that the plugin gets with OnBufferReady, through its message    *)
(* loop, and gives back with ReuseBuffer.  The thread holds the resource   *)
(* except while it reads; StopCapture lets the resource go while it joins  *)
(* the thread.                                                             *)
(*                                                                         *)
(* One resource, called by one thread of the plugin.  Every stretch of the *)
(* code between an acquire and the matching release is one step.           *)
(***************************************************************************)
EXTENDS Naturals, Sequences

CONSTANTS
  NBuffers,      \* bound: max(buffer_count, 5) of Open
  MaxCaptureOps, \* bound: calls of Open
  OpensUnclosed  \* the plugin opens a camera that is open, or one closed a moment ago
                 \* whose last OnBufferReady is still on the way

ASSUME CaptureBoundsAssumption ==
  NBuffers \in Nat \ {0} /\ MaxCaptureOps \in Nat \ {0} /\ OpensUnclosed \in BOOLEAN

Buffers == 1 .. NBuffers
NoBuffer == 0

VARIABLES
  vc,           \* struct pp_video_capture_s; refs: its reference count
  bufferIsFree, \* buffer_is_free, for as long as vc.buffers
  grabber,      \* video_capture_thread: where it is, and the buffer it reads into
  readyQueue,   \* on_buffer_ready_comt calls in the plugin's message loop
  held,         \* the buffers the plugin was given and has not reused
  joining,      \* "no_call" or the call whose StopCapture waits for the thread
  opened,       \* how often Open was called
  captureInstance \* tables_get_pp_instance finds the instance

captureVars == <<vc, bufferIsFree, grabber, readyQueue, held, joining, opened, captureInstance>>

CaptureTypeOK ==
  /\ vc \in [refs : 0 .. 2, fd : BOOLEAN, buffers : BOOLEAN, thread_started : BOOLEAN,
             terminate_thread : BOOLEAN]
  /\ bufferIsFree \in [Buffers -> BOOLEAN]
  /\ grabber \in [at : {"none", "loop", "wait", "read", "exited"}, buffer : Buffers \cup {NoBuffer}]
  /\ readyQueue \in Seq(Buffers)
  /\ held \subseteq Buffers
  /\ joining \in {"no_call", "stop", "close"}
  /\ opened \in 0 .. MaxCaptureOps
  /\ captureInstance \in BOOLEAN

CaptureInit ==
  /\ vc = [refs |-> 0, fd |-> FALSE, buffers |-> FALSE, thread_started |-> FALSE,
           terminate_thread |-> FALSE]
  /\ bufferIsFree = [b \in Buffers |-> FALSE]
  /\ grabber = [at |-> "none", buffer |-> NoBuffer]
  /\ readyQueue = <<>> /\ held = {} /\ joining = "no_call" /\ opened = 0
  /\ captureInstance = TRUE

Calling == joining = "no_call" /\ vc.refs > 0

-----------------------------------------------------------------------------
(* Calls of the plugin *)

ppb_video_capture_create ==
  /\ opened = 0 /\ vc.refs = 0 /\ captureInstance
  /\ vc' = [vc EXCEPT !.refs = 1]
  /\ UNCHANGED <<bufferIsFree, grabber, readyQueue, held, joining, opened, captureInstance>>

\* The code takes whatever Open finds for nothing: the descriptor and the buffers of before
\* are overwritten.  Without the device the old buffers stay; after a later failure there
\* are none.  The plugin forgets the buffers it had before.
ppb_video_capture_open ==
  /\ Calling /\ opened < MaxCaptureOps
  /\ OpensUnclosed \/ (~vc.fd /\ readyQueue = <<>>)
  /\ opened' = opened + 1
  /\ \/ /\ vc' = [vc EXCEPT !.fd = TRUE, !.buffers = TRUE]
        /\ bufferIsFree' = [b \in Buffers |-> TRUE]
        /\ held' = {}
     \/ /\ \E kept \in {vc.buffers, FALSE} : vc' = [vc EXCEPT !.fd = FALSE, !.buffers = kept]
        /\ UNCHANGED <<bufferIsFree, held>>
  /\ UNCHANGED <<grabber, readyQueue, joining, captureInstance>>

ppb_video_capture_start_capture ==
  /\ Calling /\ vc.fd /\ ~vc.thread_started
  /\ vc' = [vc EXCEPT !.thread_started = TRUE, !.refs = @ + 1]
  /\ grabber' = [at |-> "loop", buffer |-> NoBuffer]
  /\ UNCHANGED <<bufferIsFree, readyQueue, held, joining, opened, captureInstance>>

ppb_video_capture_reuse_buffer(b) ==
  /\ Calling /\ vc.buffers /\ b \in held
  /\ bufferIsFree' = [bufferIsFree EXCEPT ![b] = TRUE]
  /\ held' = held \ {b}
  /\ UNCHANGED <<vc, grabber, readyQueue, joining, opened, captureInstance>>

\* The descriptor is closed and the buffers are released.
Closed(v) == [v EXCEPT !.fd = FALSE, !.buffers = FALSE]

\* StopCapture until pthread_join; Close is StopCapture first.
StopBegin(call) ==
  /\ Calling
  /\ IF vc.thread_started
     THEN vc' = [vc EXCEPT !.terminate_thread = TRUE] /\ joining' = call
     ELSE vc' = (IF call = "close" THEN Closed(vc) ELSE vc) /\ UNCHANGED joining
  /\ UNCHANGED <<bufferIsFree, grabber, readyQueue, held, opened, captureInstance>>

\* The thread is joined: the reference of StartCapture goes.
ppb_video_capture_stop_capture ==
  /\ joining # "no_call" /\ grabber.at = "exited"
  /\ LET v == [vc EXCEPT !.thread_started = FALSE, !.terminate_thread = FALSE, !.refs = @ - 1]
     IN  vc' = IF joining = "close" \/ v.refs = 0 THEN Closed(v) ELSE v
  /\ grabber' = [grabber EXCEPT !.at = "none"]
  /\ joining' = "no_call"
  /\ UNCHANGED <<bufferIsFree, readyQueue, held, opened, captureInstance>>

\* The plugin's own reference goes; the last one destroys the resource.
ReleaseCapture ==
  /\ Calling /\ vc.refs > (IF vc.thread_started THEN 1 ELSE 0)
  /\ vc' = IF vc.refs = 1 THEN Closed([vc EXCEPT !.refs = 0]) ELSE [vc EXCEPT !.refs = @ - 1]
  /\ UNCHANGED <<bufferIsFree, grabber, readyQueue, held, joining, opened, captureInstance>>

\* OnBufferReady, unless the instance is gone.
on_buffer_ready_comt ==
  /\ readyQueue # <<>> /\ joining = "no_call"
  /\ readyQueue' = Tail(readyQueue)
  /\ held' = IF captureInstance THEN held \cup {Head(readyQueue)} ELSE held
  /\ UNCHANGED <<vc, bufferIsFree, grabber, joining, opened, captureInstance>>

CaptureInstanceGone ==
  /\ captureInstance /\ joining = "no_call"
  /\ captureInstance' = FALSE
  /\ UNCHANGED <<vc, bufferIsFree, grabber, readyQueue, held, joining, opened>>

-----------------------------------------------------------------------------
(* video_capture_thread *)

\* Mutant: the buffer that is read into is not marked.
TakeUnmarked ==
  /\ grabber.at \in {"loop", "wait"} /\ ~vc.terminate_thread /\ vc.refs > 0
  /\ \E b \in Buffers : bufferIsFree[b] /\ grabber' = [at |-> "read", buffer |-> b]
  /\ UNCHANGED <<vc, bufferIsFree, readyQueue, held, joining, opened, captureInstance>>

\* The top of the loop with the resource acquired: the first free buffer is taken.
TakeBuffer ==
  /\ grabber.at \in {"loop", "wait"} /\ ~vc.terminate_thread /\ vc.refs > 0
  /\ \E b \in Buffers :
     /\ bufferIsFree[b] /\ \A k \in 1 .. b - 1 : ~bufferIsFree[k]
     /\ bufferIsFree' = [bufferIsFree EXCEPT ![b] = FALSE]
     /\ grabber' = [at |-> "read", buffer |-> b]
  /\ UNCHANGED <<vc, readyQueue, held, joining, opened, captureInstance>>

\* No buffer is free: the thread tries again after a while.
WaitForBuffer ==
  /\ grabber.at = "loop" /\ ~vc.terminate_thread /\ vc.refs > 0
  /\ \A b \in Buffers : ~bufferIsFree[b]
  /\ grabber' = [grabber EXCEPT !.at = "wait"]
  /\ UNCHANGED <<vc, bufferIsFree, readyQueue, held, joining, opened, captureInstance>>

\* v4l2_read has returned: the buffer goes to the plugin, also when the thread is to end.
PostBuffer ==
  /\ grabber.at = "read" /\ vc.refs > 0
  /\ readyQueue' = Append(readyQueue, grabber.buffer)
  /\ grabber' = [at |-> "loop", buffer |-> NoBuffer]
  /\ UNCHANGED <<vc, bufferIsFree, held, joining, opened, captureInstance>>

\* The end of the loop, or the resource is gone.
ThreadExit ==
  /\ grabber.at \in {"loop", "wait"} \cup (IF vc.refs = 0 THEN {"read"} ELSE {})
  /\ vc.terminate_thread \/ vc.refs = 0
  /\ grabber' = [at |-> "exited", buffer |-> NoBuffer]
  /\ UNCHANGED <<vc, bufferIsFree, readyQueue, held, joining, opened, captureInstance>>

video_capture_thread == TakeBuffer \/ WaitForBuffer \/ PostBuffer \/ ThreadExit

PPB_VideoCapture ==
  \/ ppb_video_capture_create \/ ppb_video_capture_open \/ ppb_video_capture_start_capture
  \/ \E b \in Buffers : ppb_video_capture_reuse_buffer(b)
  \/ StopBegin("stop") \/ StopBegin("close") \/ ReleaseCapture

CaptureNext ==
  \/ PPB_VideoCapture \/ ppb_video_capture_stop_capture \/ on_buffer_ready_comt
  \/ CaptureInstanceGone \/ video_capture_thread

\* The camera delivers frames, and threads that can go on do.
CaptureFairness ==
  WF_captureVars(video_capture_thread) /\ WF_captureVars(ppb_video_capture_stop_capture)

CaptureSpec == CaptureInit /\ [][CaptureNext]_captureVars /\ CaptureFairness

-----------------------------------------------------------------------------
\* The camera writes into a buffer only while nobody else has it, and a buffer that is
\* not free is with the camera, on its way to the plugin or with the plugin, exactly once.
FramesAreExclusive ==
  vc.buffers =>
    \A b \in Buffers :
      LET places == << bufferIsFree[b], grabber.buffer = b, b \in held,
                       \E i \in DOMAIN readyQueue : readyQueue[i] = b >>
      IN  /\ \A i, j \in 1 .. 4 : places[i] /\ places[j] => i = j
          /\ captureInstance => \E i \in 1 .. 4 : places[i]
          /\ \A i, j \in DOMAIN readyQueue : readyQueue[i] = readyQueue[j] => i = j

\* While the thread is in its loop the resource, its device and its buffers are there: Close
\* and the release of the last reference wait for the thread.
CameraStaysOpen ==
  grabber.at \in {"loop", "wait", "read"} =>
    vc.refs > 0 /\ vc.fd /\ vc.buffers /\ vc.thread_started

\* The camera, its thread, its buffers and the plugin never have what another still uses.
CameraIsShared == CaptureTypeOK /\ FramesAreExclusive /\ CameraStaysOpen

\* StopCapture and Close return.
StopReturns == joining # "no_call" ~> joining = "no_call"
=============================================================================
