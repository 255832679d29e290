---------------------------- MODULE VideoDecoder -----------------------------
(***************************************************************************)
(* Hardware decoding: src/ppb_video_decoder.c.  Decode runs libavcodec,    *)
(* which calls back for a pixel format and for surfaces to decode into; a  *)
(* finished frame is copied to a picture buffer of the plugin.  Decode     *)
(* calls the plugin (ProvidePictureBuffers, PictureReady) with the         *)
(* resource released, and the plugin calls back into the decoder from      *)
(* there: AssignPictureBuffers and ReusePictureBuffer run in the middle of *)
(* Decode.                                                                 *)
(*                                                                         *)
(* One decoder on one thread.  Pictures, bitstreams and dimensions are     *)
(* left out; what libavcodec does with its surfaces is a free choice.      *)
(***************************************************************************)
EXTENDS Naturals

CONSTANTS
  NSurfaces,       \* bound: MAX_VA_SURFACES, MAX_VDP_SURFACES
  Pictures,        \* ids of picture buffers
  MaxFrames,       \* bound: frames in a bitstream buffer
  ChangesSize      \* libavcodec asks for a format again in mid-stream

ASSUME DecoderBoundsAssumption ==
  NSurfaces \in Nat /\ MaxFrames \in Nat \ {0} /\ ChangesSize \in BOOLEAN

Surfaces == 1 .. NSurfaces
NoSurface == 0

VARIABLES
  vd,        \* struct pp_video_decoder_s
  used,      \* surface_used
  codecRefs, \* surfaces libavcodec keeps as references
  avframe,   \* the surface of the frame in vd->avframe
  pictures,  \* buffers[k].used of the assigned picture buffers: "none", "free" or "used"
  bound,     \* picture buffers bound to their texture with glXBindTexImageEXT
  shown,     \* how many frames the plugin has in each, from PictureReady to ReusePictureBuffer
  surfaceSets, \* sets of surfaces that were created and not destroyed
  decode     \* where Decode is, and the frames it has still to decode

decoderVars ==
  <<vd, used, codecRefs, avframe, pictures, bound, shown, surfaceSets, decode>>

DecoderType ==
  [state : {"unused", "alive", "gone"}, initialized : BOOLEAN, buffers_were_requested : BOOLEAN,
   failed_state : BOOLEAN, hwdec_api : {"none", "vaapi", "vdpau"}, graphics3d : BOOLEAN,
   asked : BOOLEAN]

DecoderTypeOK ==
  /\ vd \in DecoderType
  /\ used \in [Surfaces -> BOOLEAN]
  /\ codecRefs \subseteq Surfaces /\ avframe \in Surfaces \cup {NoSurface}
  /\ pictures \in [Pictures -> {"none", "free", "used"}]
  /\ bound \subseteq Pictures /\ shown \in [Pictures -> 0 .. 2]
  /\ surfaceSets \in 0 .. MaxFrames
  /\ decode \in [at : {"no", "parse", "frame", "provide", "ready"}, left : 0 .. MaxFrames]

DecoderInit ==
  /\ vd = [state |-> "unused", initialized |-> FALSE, buffers_were_requested |-> FALSE,
           failed_state |-> FALSE, hwdec_api |-> "none", graphics3d |-> FALSE, asked |-> FALSE]
  /\ used = [s \in Surfaces |-> FALSE] /\ codecRefs = {} /\ avframe = NoSurface
  /\ pictures = [p \in Pictures |-> "none"] /\ bound = {} /\ shown = [p \in Pictures |-> 0]
  /\ surfaceSets = 0
  /\ decode = [at |-> "no", left |-> 0]

Outside == decode.at = "no" /\ vd.state = "alive"
\* The plugin has control: outside Decode, or in one of its callbacks.
InPlugin == vd.state = "alive" /\ decode.at \in {"no", "provide", "ready"}

-----------------------------------------------------------------------------
ppb_video_decoder_create ==
  /\ vd.state = "unused"
  /\ vd' = [vd EXCEPT !.state = "alive"]
  /\ UNCHANGED <<used, codecRefs, avframe, pictures, bound, shown, surfaceSets, decode>>

\* Everything of the codec goes; the plugin is told to dismiss its picture buffers.
deinitialize_decoder(state) ==
  /\ vd' = [vd EXCEPT !.state = state, !.initialized = FALSE, !.buffers_were_requested = FALSE,
                      !.graphics3d = FALSE, !.asked = FALSE]
  /\ used' = [s \in Surfaces |-> FALSE] /\ codecRefs' = {} /\ avframe' = NoSurface
  /\ pictures' = [p \in Pictures |-> "none"] /\ bound' = {} /\ shown' = [p \in Pictures |-> 0]
  /\ surfaceSets' = IF vd.hwdec_api # "none" /\ surfaceSets > 0 THEN surfaceSets - 1 ELSE surfaceSets

\* Decode refuses a decoder that failed; the first call makes the codec, which may fail.
ppb_video_decoder_decode ==
  /\ Outside /\ ~vd.failed_state
  /\ \/ /\ \E n \in 1 .. MaxFrames : decode' = [at |-> "parse", left |-> n]
        /\ vd' = IF vd.initialized THEN vd
                 ELSE [vd EXCEPT !.initialized = TRUE, !.graphics3d = TRUE, !.hwdec_api = "none"]
     \/ /\ ~vd.initialized
        /\ vd' = [vd EXCEPT !.failed_state = TRUE, !.hwdec_api = "none"]
        /\ UNCHANGED decode
  /\ UNCHANGED <<used, codecRefs, avframe, pictures, bound, shown, surfaceSets>>

\* prepare_vaapi_context or prepare_vdpau_context, when libavcodec knows the format.  Either
\* may fail after it has made surfaces; only VDPAU has noted by then that it has some.
get_format(api) ==
  /\ decode.at = "parse" /\ decode.left > 0 /\ surfaceSets < MaxFrames
  /\ vd.hwdec_api = "none" \/ ChangesSize
  /\ \/ /\ vd' = [vd EXCEPT !.hwdec_api = api]
        /\ surfaceSets' = surfaceSets + 1
        /\ UNCHANGED decode
     \/ /\ vd' = [vd EXCEPT !.failed_state = TRUE, !.hwdec_api = IF api = "vdpau" THEN api ELSE @]
        /\ surfaceSets' \in {surfaceSets, surfaceSets + 1}
        /\ decode' = [decode EXCEPT !.left = @ - 1]
  /\ UNCHANGED <<used, codecRefs, avframe, pictures, bound, shown>>

MarkUsed(s) == used' = [used EXCEPT ![s] = TRUE]

\* libavcodec takes the first surface that is free, for the frame it decodes; the frame
\* may become a reference.
get_buffer2(s) ==
  /\ decode.at = "parse" /\ decode.left > 0 /\ vd.hwdec_api # "none" /\ avframe = NoSurface
  /\ ~used[s] /\ \A k \in 1 .. s - 1 : used[k]
  /\ MarkUsed(s)
  /\ avframe' = s
  /\ codecRefs' \in {codecRefs, codecRefs \cup {s}}
  /\ decode' = [at |-> "frame", left |-> decode.left - 1]
  /\ UNCHANGED <<vd, pictures, bound, shown, surfaceSets>>

\* Nothing came out: an error, no surface was free, or a frame that comes later.
NoFrame ==
  /\ decode.at = "parse" /\ decode.left > 0
  /\ decode' = [decode EXCEPT !.left = @ - 1]
  /\ UNCHANGED <<vd, used, codecRefs, avframe, pictures, bound, shown, surfaceSets>>

\* libavcodec drops a reference; the frame of the last call is dropped by the next.
release_buffer2(s) ==
  /\ decode.at = "parse" /\ used[s]
  /\ \/ s \in codecRefs /\ codecRefs' = codecRefs \ {s} /\ UNCHANGED avframe
     \/ s = avframe /\ avframe' = NoSurface /\ UNCHANGED codecRefs
  /\ used' = [used EXCEPT ![s] = (s \in codecRefs' \/ s = avframe')]
  /\ UNCHANGED <<vd, pictures, bound, shown, surfaceSets, decode>>

\* The first frame asks the plugin for picture buffers.
request_buffers ==
  /\ decode.at = "frame" /\ ~vd.buffers_were_requested
  /\ vd' = [vd EXCEPT !.asked = TRUE]
  /\ decode' = [decode EXCEPT !.at = "provide"]
  /\ UNCHANGED <<used, codecRefs, avframe, pictures, bound, shown, surfaceSets>>

ProvideReturns ==
  /\ decode.at = "provide"
  /\ vd' = [vd EXCEPT !.buffers_were_requested = TRUE]
  /\ decode' = [decode EXCEPT !.at = "frame"]
  /\ UNCHANGED <<used, codecRefs, avframe, pictures, bound, shown, surfaceSets>>

\* Mutant: issue_frame takes any buffer.
AnyBuffer(p) == pictures[p] # "none"

find_free_buffer(p) == pictures[p] = "free"

\* The frame is copied to a picture buffer, if one is free, and PictureReady is called.
issue_frame ==
  /\ decode.at = "frame" /\ vd.buffers_were_requested
  /\ IF \E p \in Pictures : find_free_buffer(p)
     THEN \E p \in Pictures :
          /\ find_free_buffer(p)
          /\ pictures' = [pictures EXCEPT ![p] = "used"]
          /\ bound' = bound \cup {p} /\ shown' = [shown EXCEPT ![p] = @ + 1]
          /\ decode' = [decode EXCEPT !.at = "ready"]
     ELSE decode' = [decode EXCEPT !.at = "parse"] /\ UNCHANGED <<pictures, bound, shown>>
  /\ UNCHANGED <<vd, used, codecRefs, avframe, surfaceSets>>

PictureReadyReturns ==
  /\ decode.at = "ready"
  /\ decode' = [decode EXCEPT !.at = "parse"]
  /\ UNCHANGED <<vd, used, codecRefs, avframe, pictures, bound, shown, surfaceSets>>

\* The bitstream buffer is consumed; the callback is posted.
DecodeReturns ==
  /\ decode.at = "parse" /\ decode.left = 0
  /\ decode' = [decode EXCEPT !.at = "no"]
  /\ UNCHANGED <<vd, used, codecRefs, avframe, pictures, bound, shown, surfaceSets>>

\* The plugin answers ProvidePictureBuffers, in the callback or later.  A pixmap that
\* cannot be made ends the loop: the buffers up to it are there.
ppb_video_decoder_assign_picture_buffers(ps) ==
  /\ InPlugin /\ vd.asked /\ vd.graphics3d
  /\ vd' = [vd EXCEPT !.asked = FALSE]
  /\ pictures' = [p \in Pictures |-> IF p \in ps THEN "free" ELSE "none"]
  /\ UNCHANGED <<used, codecRefs, avframe, bound, shown, surfaceSets, decode>>

ppb_video_decoder_reuse_picture_buffer(p) ==
  /\ InPlugin /\ shown[p] > 0
  /\ pictures' = [pictures EXCEPT ![p] = IF @ = "used" THEN "free" ELSE @]
  /\ bound' = IF pictures[p] = "used" THEN bound \ {p} ELSE bound
  /\ shown' = [shown EXCEPT ![p] = @ - 1]
  /\ UNCHANGED <<vd, used, codecRefs, avframe, surfaceSets, decode>>

\* libavcodec drops all its references.
ppb_video_decoder_flush ==
  /\ Outside /\ vd.initialized
  /\ codecRefs' = {}
  /\ used' = [s \in Surfaces |-> s = avframe]
  /\ UNCHANGED <<vd, avframe, pictures, bound, shown, surfaceSets, decode>>

ppb_video_decoder_reset == Outside /\ deinitialize_decoder("alive") /\ UNCHANGED decode

ppb_video_decoder_destroy_priv == Outside /\ deinitialize_decoder("gone") /\ UNCHANGED decode

PPB_VideoDecoder ==
  \/ ppb_video_decoder_create \/ ppb_video_decoder_decode
  \/ \E ps \in SUBSET Pictures : ppb_video_decoder_assign_picture_buffers(ps)
  \/ \E p \in Pictures : ppb_video_decoder_reuse_picture_buffer(p)
  \/ ppb_video_decoder_flush \/ ppb_video_decoder_reset

decode_frame ==
  \/ get_format("vaapi") \/ get_format("vdpau")
  \/ \E s \in Surfaces : get_buffer2(s) \/ release_buffer2(s)
  \/ NoFrame \/ request_buffers \/ ProvideReturns \/ issue_frame \/ PictureReadyReturns

DecoderNext ==
  PPB_VideoDecoder \/ ppb_video_decoder_destroy_priv \/ decode_frame \/ DecodeReturns

DecoderSpec == DecoderInit /\ [][DecoderNext]_decoderVars

-----------------------------------------------------------------------------
\* The plugin shows exactly the picture buffers that are marked used and bound to their
\* texture: no frame is drawn over one it has not returned and none is lost to it.
PicturesAreReturned ==
  /\ \A p \in Pictures : shown[p] = IF pictures[p] = "used" THEN 1 ELSE 0
  /\ bound = {p \in Pictures : shown[p] > 0}

\* A surface is marked exactly while libavcodec refers to it, so none is decoded into
\* while it is a reference and none is lost; and a decoder that is reset or destroyed
\* leaves no surfaces behind, unless it has failed.
SurfacesAreReturned ==
  /\ \A s \in Surfaces : used[s] <=> (s \in codecRefs \/ s = avframe)
  /\ ~vd.initialized /\ ~vd.failed_state => surfaceSets = 0

\* Surfaces and picture buffers both go round: none is written while another has it.
FramesGoRound == DecoderTypeOK /\ PicturesAreReturned /\ SurfacesAreReturned
=============================================================================
