-------------------------------- MODULE Audio --------------------------------
(***************************************************************************)
(* Audio output and input: src/ppb_audio.c and src/ppb_audio_input.c over  *)
(* the four backends src/audio_thread_{alsa,pulseaudio,jack,noaudio}.c.    *)
(*                                                                         *)
(* A stream calls its callback with a raw pointer to the resource that     *)
(* made it, on a thread the resource table knows nothing about.  Whether   *)
(* that resource is still there depends on what the backend's destroy      *)
(* waits for: ALSA meets its thread at a barrier, PulseAudio takes the     *)
(* lock of the main loop, JACK joins the resampler, noaudio waits for      *)
(* nothing.                                                                *)
(*                                                                         *)
(* The plugin calls from one thread.  Samples, rates and what the plugin   *)
(* does in its callback are left out.                                      *)
(***************************************************************************)
EXTENDS Naturals, FiniteSets, FiniteSetsExt

CONSTANTS
  Players, Inputs,   \* resource ids: PPB_Audio and PPB_AudioInput
  Streams,           \* addresses of struct audio_stream_s; not reused
  Backends,          \* the backends that are present
  MaxStatusCalls,    \* bound: calls on the way to the browser's thread
  MaxCmds,           \* bound: commands in the queue of a JACK resampler
  Reopens            \* the plugin calls Open on an input that is open

ASSUME AudioIdsAssumption == Players \cap Inputs = {} /\ IsFiniteSet(Players)
ASSUME AudioBoundsAssumption ==
  /\ Backends \subseteq {"jack", "pulse", "alsa", "noaudio"} /\ "noaudio" \in Backends
  /\ MaxStatusCalls \in Nat \ {0} /\ MaxCmds \in Nat \ {0} /\ Reopens \in BOOLEAN

Audios == Players \cup Inputs
NoStream == "no_stream"
NoAudio == "no_audio"

ASSUME NoneAssumption == NoStream \notin Streams /\ NoAudio \notin Audios

VARIABLES
  backend,             \* what audio_select_implementation returns in this process
  audios,              \* struct pp_audio_s and pp_audio_input_s
  streams,             \* struct audio_stream_s
  running,             \* the streams whose callback is being executed
  plugin,              \* where the plugin's thread is, for which resource and stream
  thread,              \* ALSA: where audio_thread is, and what it still has to serve
  rebuild_fds, streams_to_delete,   \* ALSA: as in the code
  fds,                 \* ALSA: the streams audio_thread polls
  audio_source_count,  \* of the instance
  statusCalls,         \* update_instance_playing_audio_status_ptac calls on the way
  told                 \* the NPPVpluginIsPlayingAudio the browser was told last

alsaVars == <<thread, rebuild_fds, streams_to_delete, fds>>
statusVars == <<audio_source_count, statusCalls, told>>
audioVars == <<backend, audios, streams, running, plugin, alsaVars, statusVars>>

AudioType ==
  [state : {"unused", "alive", "destroying", "gone"},
   stream : Streams \cup {NoStream}, is_playing : BOOLEAN]
\* mem: "open" from the stream's creation until its destruction is over; alive is
\* noaudio's flag; cb: playback_cb or capture_cb is assigned.
StreamType ==
  [mem : {"unused", "open", "closed"}, owner : Audios \cup {NoAudio}, paused : BOOLEAN,
   cb : BOOLEAN, alive : BOOLEAN, cmds : 0 .. MaxCmds]
PluginSteps == {"idle", "start", "open", "insert", "delete", "ready", "cork", "join", "setcb"}
ThreadSteps == {"none", "first", "poll", "barrier", "serve"}

AudioTypeOK ==
  /\ backend \in Backends
  /\ audios \in [Audios -> AudioType]
  /\ streams \in [Streams -> StreamType]
  /\ running \subseteq Streams
  /\ plugin \in [at : PluginSteps, audio : Audios \cup {NoAudio}, stream : Streams \cup {NoStream}]
  /\ thread \in [at : ThreadSteps, todo : SUBSET Streams]
  /\ rebuild_fds \in BOOLEAN
  /\ streams_to_delete \subseteq Streams /\ fds \subseteq Streams
  /\ audio_source_count \in 0 .. Cardinality(Players)
  /\ statusCalls \in 0 .. MaxStatusCalls
  /\ told \in BOOLEAN

-----------------------------------------------------------------------------
\* The first of the backends that is available; JACK is when the configuration asks for
\* it, noaudio always is.
audio_select_implementation(available) ==
  LET order == <<"jack", "pulse", "alsa", "noaudio">>
  IN  order[Min({i \in 1 .. 4 : order[i] \in available \cup {"noaudio"}})]

Idle == [at |-> "idle", audio |-> NoAudio, stream |-> NoStream]

AudioInit ==
  /\ \E available \in SUBSET Backends : backend = audio_select_implementation(available)
  /\ audios = [a \in Audios |-> [state |-> "unused", stream |-> NoStream, is_playing |-> FALSE]]
  /\ streams = [s \in Streams |-> [mem |-> "unused", owner |-> NoAudio, paused |-> TRUE,
                                   cb |-> FALSE, alive |-> FALSE, cmds |-> 0]]
  /\ running = {}
  /\ plugin = Idle
  /\ thread = [at |-> "none", todo |-> {}]
  /\ rebuild_fds = FALSE /\ streams_to_delete = {} /\ fds = {}
  /\ audio_source_count = 0 /\ statusCalls = 0 /\ told = FALSE

UnusedStreams == {s \in Streams : streams[s].mem = "unused"}
Open(s) == streams[s].mem = "open"
NewStream(a, hasCallback) ==
  [mem |-> "open", owner |-> a, paused |-> TRUE, cb |-> hasCallback, alive |-> TRUE, cmds |-> 1]

At(step) == plugin.at = step
Goto(step, a, s) == plugin' = [at |-> step, audio |-> a, stream |-> s]

\* create_playback_stream or create_capture_stream returns s, or NULL: then the
\* resource of PPB_Audio is expunged, and an input stays as it is, without a stream.
CreateReturns(a, s) ==
  /\ plugin' = Idle
  /\ audios' = [audios EXCEPT ![a].state = IF s = NoStream /\ a \in Players THEN "gone" ELSE "alive",
                              ![a].stream = s]

\* The backend's destroy waits for something, or returns and with it the destructor.
DestroyWaits(step, a, s) ==
  /\ Goto(step, a, s)
  /\ audios' = [audios EXCEPT ![a].state = "destroying", ![a].is_playing = FALSE]

DestroyReturns(a, s) ==
  /\ plugin' = Idle
  /\ streams' = [streams EXCEPT ![s].mem = "closed"]
  /\ audios' = [audios EXCEPT ![a].state = "gone"]

-----------------------------------------------------------------------------
(* ALSA: src/audio_thread_alsa.c *)

\* The first stream starts audio_thread and meets it once it is up.
AlsaStart(a) ==
  /\ IF thread.at = "none"
     THEN thread' = [thread EXCEPT !.at = "first"] /\ Goto("start", a, NoStream)
     ELSE Goto("open", a, NoStream) /\ UNCHANGED thread
  /\ UNCHANGED <<audios, streams, running, rebuild_fds, streams_to_delete, fds>>

\* Mutant: the thread is woken and not told what for.
wakeup_without_rebuild == rebuild_fds' = FALSE

\* rebuild_fds is set, the pipe written, and the caller waits at the barrier.
wakeup_audio_thread == rebuild_fds' = TRUE

\* The rest of alsa_create_stream: the device may refuse.
alsa_create_stream ==
  /\ backend = "alsa" /\ At("open")
  /\ \/ /\ CreateReturns(plugin.audio, NoStream)
        /\ UNCHANGED <<streams, rebuild_fds>>
     \/ \E s \in UnusedStreams :
        /\ streams' = [streams EXCEPT ![s] = NewStream(plugin.audio, FALSE)]
        /\ Goto("insert", plugin.audio, s)
        /\ wakeup_audio_thread
        /\ UNCHANGED audios
  /\ UNCHANGED <<backend, running, thread, streams_to_delete, fds, statusVars>>

alsa_destroy_stream(a, s) ==
  /\ streams_to_delete' = streams_to_delete \cup {s}
  /\ DestroyWaits("delete", a, s)
  /\ wakeup_audio_thread
  /\ UNCHANGED <<streams, running, thread, fds>>

\* What do_rebuild_fds finds in active_streams_ht after process_stream_deletions_unlocked.
active_streams == {s \in Streams : Open(s)} \ streams_to_delete

\* audio_thread takes note of new and deleted streams, and goes to the barrier.
do_rebuild_fds ==
  /\ backend = "alsa"
  /\ \/ thread.at = "first"
     \/ thread.at = "poll" /\ rebuild_fds
  /\ fds' = active_streams
  /\ streams_to_delete' = {}
  /\ rebuild_fds' = FALSE
  /\ thread' = [at |-> "barrier", todo |-> {}]
  /\ UNCHANGED <<backend, audios, streams, running, plugin, statusVars>>

\* Both have arrived at stream_list_update_barrier: each goes on.
stream_list_update_barrier ==
  /\ thread.at = "barrier"
  /\ thread' = [thread EXCEPT !.at = "poll"]
  /\ \/ /\ At("start")
        /\ Goto("open", plugin.audio, NoStream)
        /\ UNCHANGED <<audios, streams>>
     \/ /\ At("insert")
        /\ streams' = [streams EXCEPT ![plugin.stream].cb = TRUE]
        /\ CreateReturns(plugin.audio, plugin.stream)
     \/ /\ At("delete")
        /\ DestroyReturns(plugin.audio, plugin.stream)
  /\ UNCHANGED <<backend, running, rebuild_fds, streams_to_delete, fds, statusVars>>

\* poll returns for some of the streams, and nothing has changed.
AlsaPoll ==
  /\ backend = "alsa" /\ thread.at = "poll" /\ ~rebuild_fds
  /\ \E ready \in SUBSET fds \ {{}} : thread' = [at |-> "serve", todo |-> ready]
  /\ UNCHANGED <<backend, audios, streams, running, plugin, rebuild_fds, streams_to_delete, fds,
                 statusVars>>

\* One of them is served: silence, or its callback.
AlsaServe(s) ==
  /\ thread.at = "serve" /\ running = {}
  /\ s \in thread.todo
  /\ thread' = [thread EXCEPT !.todo = @ \ {s}]
  /\ running' = IF streams[s].paused \/ ~streams[s].cb THEN {} ELSE {s}
  /\ UNCHANGED <<backend, audios, streams, plugin, rebuild_fds, streams_to_delete, fds, statusVars>>

AlsaServed ==
  /\ thread.at = "serve" /\ running = {} /\ thread.todo = {}
  /\ thread' = [thread EXCEPT !.at = "poll"]
  /\ UNCHANGED <<backend, audios, streams, running, plugin, rebuild_fds, streams_to_delete, fds,
                 statusVars>>

-----------------------------------------------------------------------------
(* PulseAudio: src/audio_thread_pulseaudio.c.  The main loop runs callbacks with  *)
(* its lock held, so the lock is free when running is empty.                      *)

PulseCreate(a) ==
  /\ running = {}
  /\ \E s \in UnusedStreams :
     /\ streams' = [streams EXCEPT ![s] = NewStream(a, TRUE)]
     /\ Goto("ready", a, s)
  /\ UNCHANGED <<audios, running, alsaVars>>

\* The server's answer: the stream is ready, or it failed.
pulse_stream_state_cb ==
  /\ At("ready") /\ running = {}
  /\ \/ CreateReturns(plugin.audio, plugin.stream) /\ UNCHANGED streams
     \/ /\ CreateReturns(plugin.audio, NoStream)
        /\ streams' = [streams EXCEPT ![plugin.stream].mem = "closed"]
  /\ UNCHANGED <<backend, running, alsaVars, statusVars>>

PulseCallback(s) ==
  /\ backend = "pulse" /\ running = {}
  /\ Open(s) /\ ~streams[s].paused
  /\ running' = {s}
  /\ UNCHANGED <<backend, audios, streams, plugin, alsaVars, statusVars>>

\* Corks the stream and waits, giving up the lock while it waits.
PulseDestroy(a, s) ==
  /\ running = {}
  /\ DestroyWaits("cork", a, s)
  /\ UNCHANGED <<streams, running, alsaVars>>

\* Mutant: the stream is disconnected without the lock of the main loop.
pulse_success_unlocked ==
  /\ At("cork")
  /\ DestroyReturns(plugin.audio, plugin.stream)
  /\ UNCHANGED <<backend, running, alsaVars, statusVars>>

\* The cork is done: the stream is disconnected before the lock is released.
pulse_stream_success_cb ==
  /\ At("cork") /\ running = {}
  /\ DestroyReturns(plugin.audio, plugin.stream)
  /\ UNCHANGED <<backend, running, alsaVars, statusVars>>

-----------------------------------------------------------------------------
(* JACK: src/audio_thread_jack.c.  Each stream has a resampler thread.            *)

JackCreate(a) ==
  /\ \/ CreateReturns(a, NoStream) /\ UNCHANGED streams
     \/ \E s \in UnusedStreams :
        /\ streams' = [streams EXCEPT ![s] = NewStream(a, TRUE)]
        /\ CreateReturns(a, s)
  /\ UNCHANGED <<running, alsaVars>>

Joined(s) == At("join") /\ plugin.stream = s

\* JACK moved samples; the resampler is to fill or drain the ring buffer.  Not after
\* jack_client_close.
ja_process_cb(s) ==
  /\ backend = "jack" /\ Open(s) /\ ~Joined(s)
  /\ streams[s].cmds < MaxCmds
  /\ streams' = [streams EXCEPT ![s].cmds = @ + 1]
  /\ UNCHANGED <<backend, audios, running, plugin, alsaVars, statusVars>>

ja_resampler_thread_func(s) ==
  /\ backend = "jack" /\ Open(s) /\ s \notin running
  /\ streams[s].cmds > 0
  /\ streams' = [streams EXCEPT ![s].cmds = @ - 1]
  /\ running' = IF streams[s].paused THEN running ELSE running \cup {s}
  /\ UNCHANGED <<backend, audios, plugin, alsaVars, statusVars>>

\* The client is closed, CMD_TERMINATE is queued, and the thread is joined.
JackDestroy(a, s) ==
  /\ DestroyWaits("join", a, s)
  /\ UNCHANGED <<streams, running, alsaVars>>

\* The resampler has come to CMD_TERMINATE, the last command of its queue.
JackJoin ==
  /\ At("join") /\ plugin.stream \notin running /\ streams[plugin.stream].cmds = 0
  /\ DestroyReturns(plugin.audio, plugin.stream)
  /\ UNCHANGED <<backend, running, alsaVars, statusVars>>

-----------------------------------------------------------------------------
(* No audio: src/audio_thread_noaudio.c.  It has no capture streams.              *)

NoaudioCreate(a) ==
  /\ IF a \in Inputs
     THEN CreateReturns(a, NoStream) /\ UNCHANGED streams
     ELSE \E s \in UnusedStreams :
          /\ streams' = [streams EXCEPT ![s] = NewStream(a, FALSE)]
          /\ Goto("setcb", a, s) /\ UNCHANGED audios
  /\ UNCHANGED <<running, alsaVars>>

\* The stream is in the worker's table before it has its callback.
noaudio_create_playback_stream ==
  /\ At("setcb")
  /\ streams' = [streams EXCEPT ![plugin.stream].cb = TRUE]
  /\ CreateReturns(plugin.audio, plugin.stream)
  /\ UNCHANGED <<backend, running, alsaVars, statusVars>>

\* Every 20 ms, paused or not.
NoaudioCallback(s) ==
  /\ backend = "noaudio" /\ running = {}
  /\ Open(s) /\ streams[s].alive
  /\ running' = {s}
  /\ UNCHANGED <<backend, audios, streams, plugin, alsaVars, statusVars>>

\* The worker frees what destroy has marked.
NoaudioFree(s) ==
  /\ backend = "noaudio" /\ running = {}
  /\ Open(s) /\ ~streams[s].alive
  /\ streams' = [streams EXCEPT ![s].mem = "closed"]
  /\ UNCHANGED <<backend, audios, running, plugin, alsaVars, statusVars>>

NoaudioDestroy(a, s) ==
  /\ streams' = [streams EXCEPT ![s].alive = FALSE]
  /\ audios' = [audios EXCEPT ![a].state = "gone"]
  /\ plugin' = Idle
  /\ UNCHANGED <<running, alsaVars>>

-----------------------------------------------------------------------------
(* PPB_Audio and PPB_AudioInput *)

CreateStream(a) ==
  \/ backend = "alsa" /\ AlsaStart(a)
  \/ backend = "pulse" /\ PulseCreate(a)
  \/ backend = "jack" /\ JackCreate(a)
  \/ backend = "noaudio" /\ NoaudioCreate(a)

do_ppb_audio_create(a) ==
  /\ At("idle") /\ a \in Players /\ audios[a].state = "unused"
  /\ CreateStream(a)
  /\ UNCHANGED <<backend, statusVars>>

ppb_audio_input_create(a) ==
  /\ At("idle") /\ a \in Inputs /\ audios[a].state = "unused"
  /\ audios' = [audios EXCEPT ![a].state = "alive"]
  /\ UNCHANGED <<backend, streams, running, plugin, alsaVars, statusVars>>

do_ppb_audio_input_open(a) ==
  /\ At("idle") /\ a \in Inputs /\ audios[a].state = "alive"
  /\ Reopens \/ audios[a].stream = NoStream
  /\ CreateStream(a)
  /\ UNCHANGED <<backend, statusVars>>

DestroyStream(a, s) ==
  \/ backend = "alsa" /\ alsa_destroy_stream(a, s)
  \/ backend = "pulse" /\ PulseDestroy(a, s)
  \/ backend = "jack" /\ JackDestroy(a, s)
  \/ backend = "noaudio" /\ NoaudioDestroy(a, s)

\* A source that plays no more is taken off the instance's count.
Uncount(a) ==
  audio_source_count' = IF audios[a].is_playing THEN audio_source_count - 1 ELSE audio_source_count

\* The last reference is released: ppb_audio_destroy or ppb_audio_input_destroy.  The
\* browser is not told.
ppb_audio_destroy(a) ==
  /\ At("idle") /\ audios[a].state = "alive"
  /\ IF audios[a].stream = NoStream
     THEN /\ audios' = [audios EXCEPT ![a].state = "gone"]
          /\ UNCHANGED <<streams, running, plugin, alsaVars>>
     ELSE DestroyStream(a, audios[a].stream)
  /\ Uncount(a)
  /\ UNCHANGED <<backend, statusCalls, told>>

Pause(a, enabled) == streams' = [streams EXCEPT ![audios[a].stream].paused = enabled]

\* StartPlayback (enabled = FALSE) or StopPlayback; the browser's thread is asked to
\* tell the browser.
SetPlaying(a, playing) ==
  /\ At("idle") /\ a \in Players /\ audios[a].state = "alive" /\ statusCalls < MaxStatusCalls
  /\ Pause(a, ~playing)
  /\ audios' = [audios EXCEPT ![a].is_playing = playing]
  /\ statusCalls' = statusCalls + 1
  /\ UNCHANGED <<backend, running, plugin, alsaVars, told>>

ppb_audio_start_playback(a) ==
  /\ SetPlaying(a, TRUE)
  /\ audio_source_count' = IF audios[a].is_playing THEN audio_source_count ELSE audio_source_count + 1

ppb_audio_stop_playback(a) == SetPlaying(a, FALSE) /\ Uncount(a)

\* StartCapture and StopCapture.
ppb_audio_input_capture(a, capturing) ==
  /\ At("idle") /\ a \in Inputs /\ audios[a].state = "alive" /\ audios[a].stream # NoStream
  /\ Pause(a, ~capturing)
  /\ UNCHANGED <<backend, audios, running, plugin, alsaVars, statusVars>>

\* Mutant: the browser is told what was true when the call was made.
TellFalse ==
  /\ statusCalls > 0
  /\ statusCalls' = statusCalls - 1
  /\ told' = FALSE
  /\ UNCHANGED <<backend, audios, streams, running, plugin, alsaVars, audio_source_count>>

update_instance_playing_audio_status_ptac ==
  /\ statusCalls > 0
  /\ statusCalls' = statusCalls - 1
  /\ told' = (audio_source_count > 0)
  /\ UNCHANGED <<backend, audios, streams, running, plugin, alsaVars, audio_source_count>>

\* playback_cb or capture_cb returns.
playback_cb(s) ==
  /\ s \in running
  /\ running' = running \ {s}
  /\ UNCHANGED <<backend, audios, streams, plugin, alsaVars, statusVars>>

PPB_Audio ==
  \E a \in Players :
    do_ppb_audio_create(a) \/ ppb_audio_start_playback(a) \/ ppb_audio_stop_playback(a)
PPB_AudioInput ==
  \E a \in Inputs :
    \/ ppb_audio_input_create(a) \/ do_ppb_audio_input_open(a)
    \/ ppb_audio_input_capture(a, TRUE) \/ ppb_audio_input_capture(a, FALSE)

audio_thread == do_rebuild_fds \/ AlsaServed \/ \E s \in Streams : AlsaServe(s)

\* What the plugin's thread waits for.
PluginWaits ==
  \/ alsa_create_stream \/ stream_list_update_barrier
  \/ pulse_stream_state_cb \/ pulse_stream_success_cb
  \/ JackJoin \/ noaudio_create_playback_stream

AudioNext ==
  \/ PPB_Audio \/ PPB_AudioInput \/ \E a \in Audios : ppb_audio_destroy(a)
  \/ audio_thread \/ PluginWaits \/ AlsaPoll
  \/ \E s \in Streams :
       \/ ja_resampler_thread_func(s) \/ playback_cb(s)
       \/ PulseCallback(s) \/ ja_process_cb(s) \/ NoaudioCallback(s) \/ NoaudioFree(s)
  \/ update_instance_playing_audio_status_ptac

\* Threads that can go on do; PulseAudio's lock goes to the thread that waits for it.
AudioFairness ==
  /\ WF_audioVars(audio_thread) /\ SF_audioVars(PluginWaits)
  /\ \A s \in Streams :
       WF_audioVars(ja_resampler_thread_func(s)) /\ WF_audioVars(playback_cb(s))

AudioSpec == AudioInit /\ [][AudioNext]_audioVars /\ AudioFairness

-----------------------------------------------------------------------------
\* A callback runs only for a resource that is there and a stream that is open, and it
\* has an address: every backend but noaudio sees to that.
CallbacksHaveTheirAudio ==
  \A s \in running :
    backend # "noaudio" =>
      /\ Open(s) /\ streams[s].cb
      /\ streams[s].owner \in {plugin.audio} \cup {a \in Audios : audios[a].state # "gone"}

\* Every open stream is the stream of its resource, or is about to be: none is leaked
\* on an error path, none survives its resource (but until noaudio's worker wakes).
StreamsAreOwned ==
  \A s \in Streams : Open(s) =>
    \/ audios[streams[s].owner].stream = s /\ audios[streams[s].owner].state # "gone"
    \/ plugin.stream = s
    \/ backend = "noaudio" /\ ~streams[s].alive

\* The streams of every backend and the resources of PPB_Audio and PPB_AudioInput live as
\* long as each other needs them: no callback after its resource, no stream without one.
StreamsMatchResources == AudioTypeOK /\ CallbacksHaveTheirAudio /\ StreamsAreOwned

\* audio_source_count counts the resources that are playing, and the browser is never
\* left with "silent" while one is.
BrowserKnowsOfPlaying ==
  /\ audio_source_count =
       Cardinality({a \in Players : audios[a].state = "alive" /\ audios[a].is_playing})
  /\ audio_source_count > 0 /\ statusCalls = 0 => told

\* Create, Open and the release of a resource return: nobody waits for a thread that
\* waits for nobody.
AudioCallsReturn == plugin.at # "idle" ~> plugin.at = "idle"
=============================================================================
