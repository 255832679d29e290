------------------------------- MODULE MCMedia -------------------------------
(* Audio, the camera and the video decoder, which share no state: each     *)
(* behaviour of this instance is one of one of them.                       *)
EXTENDS Audio, VideoCapture, VideoDecoder

VARIABLE part   \* the component that runs

mediaVars == <<audioVars, captureVars, decoderVars, part>>

Init ==
  /\ part \in {"audio", "capture", "decoder"}
  /\ AudioInit /\ (part # "audio" => backend = "noaudio")
  /\ CaptureInit /\ DecoderInit

Next ==
  \/ part = "audio" /\ AudioNext /\ UNCHANGED <<captureVars, decoderVars, part>>
  \/ part = "capture" /\ CaptureNext /\ UNCHANGED <<audioVars, decoderVars, part>>
  \/ part = "decoder" /\ DecoderNext /\ UNCHANGED <<audioVars, captureVars, part>>

Spec == Init /\ [][Next]_mediaVars /\ AudioFairness /\ CaptureFairness

\* Creating, opening, stopping and releasing a stream or a camera returns, whatever the
\* threads of the backend and the camera are doing.
MediaCallsReturn == AudioCallsReturn /\ StopReturns
=============================================================================
