# A TLA+ model of freshplayerplugin

freshplayerplugin lets a browser that knows NPAPI run a plugin written for
PPAPI (Pepper Flash).  It is a shared library between the two: it implements
the NPP functions the browser calls and the PPB interfaces the plugin calls.
The modules here model the parts in which several threads, callbacks and
reference counts meet, because that is where the code is hardest to test.

Paths below are those of the repository; `np_functions.c` is
`src/np_functions.c`.

## 1. The system

### Threads

| Thread | What runs there |
|---|---|
| browser thread | the NPP functions, and functions with the suffix `_ptac` |
| plugin thread | the plugin's main message loop, and functions with the suffix `_comt` |
| threads of the plugin | message loops the plugin creates, GL and audio work |
| network thread | libevent, for sockets and name lookups |
| X11 event thread, fullscreen threads | events of windows of the library's own |
| audio and capture threads | one per backend or device |

The plugin thread and the browser thread call each other synchronously.  A
thread that waits does so in a nested run of its message loop, in which it keeps
serving the other one.

### Components

| Component | State | Operations | Hard behaviour |
|---|---|---|---|
| Resource table, `pp_resource.c` | handle to structure, reference count, mutex of each resource | allocate, expunge, acquire, release, ref, unref | two critical sections in release; the destructor runs outside the lock; acquire spins |
| Message loop, `ppb_message_loop.c`, `ppb_flash_message_loop.c` | queue of incoming tasks, tree of tasks by time, depth, running, teardown | post work, post quit, run, run nested, Flash run and quit | tasks and quits of several nesting levels share the queues |
| Cross-thread calls, `ppb_core.c`, `n2p_proxy_class.c`, `p2n_proxy_class.c` | the two loops, pending activations | call on browser thread, call on main thread, trampoline | both threads wait at once; the last instance goes while a call is under way |
| Variables, `ppb_var.c` and the proxy classes | table of variables, next id, counts on both sides | create, reference, release, containers, object proxies | a release may wait for the browser and let other callbacks run |
| Graphics, `ppb_instance.c`, `ppb_graphics2d.c`, `ppb_graphics3d.c`, `np_functions.c` | bound device, stored callback, in-progress flag | bind, flush, swap, redraw, expose | expose events at any time; values read before and after the lock |
| URL loader, `ppb_url_loader.c`, `np_functions.c` | file, reading position, waiting reads, callback, stream | open, follow, read, finish, close; the stream functions of NPP | both threads use the loader, with gaps between two acquires |
| Instances and input, `np_functions.c`, `tables.c`, `ppb_input_event.c`, `ppb_text_input.c` | instance table, windows, input masks, input method | new, destroy, set window, events, event requests | destruction while events, calls and tasks are on the way |
| X11 event thread, `x11_event_thread.c` | registered windows, a pipe and a barrier | register, unregister, deliver | the thread has found an instance that is being destroyed |
| Full screen, `ppb_flash_fullscreen.c` | transition queue, window, delay thread, one barrier | enter, leave, deliver, paint | four threads and one X queue that outlives the window |
| Network, `async_network.c`, sockets | task table, sockets | connect, read, write, disconnect, resolve | disconnect cancels what other callbacks are about to use |
| Audio, `ppb_audio.c`, `ppb_audio_input.c`, `audio_thread_*.c` | streams, source count | create, start, stop, release | callbacks on foreign threads with a raw pointer to the resource |
| Camera, `ppb_video_capture.c` | buffers, thread | open, start, stop, reuse, close | stop joins a thread that needs the resource |
| Decoder, `ppb_video_decoder.c` | surfaces, picture buffers | initialize, decode, assign, reuse, flush, reset | the plugin calls back in the middle of Decode |
| GL wrappers, `ppb_opengles2.c`, `ppb_graphics3d.c` | contexts, current context, shader tables | every GL entry point, create, resize, destroy | two threads share contexts under one lock; tables shared by all contexts |
| Module, `np_entry.c`, `main_thread.c`, `tables.c`, `config*.c`, `screensaver_control.c` | library, main thread, display, configuration | NP_GetValue, NP_Initialize, NP_Shutdown | initialised twice, unloaded while callbacks are pending |
| Clipboard, menu, cursor, device id | offered data, static callback, salt file | write, read, show, set, get | data served later by the browser's thread; another process |
| Files and request bodies | references, descriptors, body parts | choose, open, append, post, module-local calls | ownership of descriptors; paths that climb |

`PROJECT.json` has every component with its files and with the reason where it
is not modelled, and the hazards with the line at which each bites.

### What makes it correct

* A resource is not freed under a user and is destroyed once; counts are exact.
* A loop loses no accepted work, keeps its order, and a nested run ends by the
  quit that was meant for it.
* A synchronous call returns after it was handled; the threads do not wait for
  each other for ever.
* A variable lives as long as somebody refers to it, on either side.
* A completion callback is called once; it is not lost.
* The body of a response is read in order and completely.
* The plugin is called for an instance only between DidCreate and DidDestroy,
  and no thread goes on with an instance that is freed.
* A callback of a foreign thread never outlives the resource it is for, and a
  buffer or surface is never with two parties.
* A GL call works on the context it was called for and on its shaders.
* A descriptor has one owner; what is posted is what was put together; the
  plugin's paths stay in its directory.

## 2. The modules

| Module | Models | Used by |
|---|---|---|
| `PPResource` | the resource table and its clients | `MCPPResource`, `PPResource_proofs` |
| `PPResource_proofs` | theorems about it | |
| `MessageLoop` | the loop as operators on one loop's state | the next two |
| `MessageLoopClient` | one loop with everything that happens to it, Flash loop included | `MCMessageLoopClient` |
| `BrowserCalls` | the plugin's loop and the browser's loop calling each other | `MCBrowserCalls` |
| `SyncCall` | abstract: what a synchronous call promises | instantiated by `BrowserCalls` |
| `PPVar` | variables, containers and object proxies | `MCPPVar` |
| `Graphics` | bind, flush, swap, expose | `MCGraphics` |
| `URLLoader` | a loader and its streams | `MCURLLoader` |
| `Network` | sockets, the resolver and the tasks of the network thread | `MCNetwork` |
| `Audio`, `VideoCapture`, `VideoDecoder` | streams, the camera, hardware decoding | `MCMedia` |
| `InputEvents` | what an X event becomes, as operators | `Instances` |
| `Instances`, `Fullscreen` | instances with their events, the full screen window | `MCWindows` |
| `OpenGLES2`, `PluginModule`, `Clipboard`, `MenuAndCursor`, `DeviceId`, `Files`, `LocalFiles` | GL contexts and calls, loading, the services | `MCServices` |
| `MessageLoop_proofs`, `BrowserCalls_proofs`, `PPVar_proofs`, `Graphics_proofs`, `URLLoader_proofs` | theorems about the modules they are named after (`MessageLoop`: the loop with its clients) | |
| `NetworkAndMedia_proofs`, `WindowsAndServices_proofs` | theorems about `Network`, `Audio`, `VideoCapture` and `VideoDecoder`; `Instances` and `Fullscreen`; `OpenGLES2` and `PluginModule` | |

`MCMedia`, `MCWindows` and `MCServices` hold modules that share no state.  A
behaviour of such an instance is one of one module (`part` says which), so that
the states add up and do not multiply.

**Granularity.** What a function does while it holds the lock that protects the
state is one step.  A function with several critical sections is several steps,
and what it read in one and uses in another is kept in between (`pc`, `bh`,
`expose`, `quitter`).  Definitions have the names of the functions; where a
function is split, the parts are named for what they do.  `PROJECT.json`,
"map", has the lines of each.

**PPResource.** `res_tbl`, `res`, `mem` are the table and the structures; `pc`
is the call a thread is in; `held` the resources it has acquired.  `owned` is
not in the code: it counts the references the clients account for, so that
exactness of `ref_cnt` can be stated.  The nested acquires of the callers are
the constant `NestOrder`.

**MessageLoop.** `ml[l]` has `async_q`, `int_q`, `depth`, `running` and
`teardown`; `stack[l]` is the C stack of the thread as far as loops matter: run
frames and callbacks.  `MessageLoopClient` adds a clock, delayed work, PostQuit
with its two critical sections, synchronous calls and the Flash loop.  Its Quit
tests only `running`, which Run resets after its nested loop has returned: called
again before that it leaves a quit task too many (bound `MaxFlashQuits`), which
ends the next Flash run, or the outermost loop without a PostQuit.  `told` is not
in the code: how many work items had been posted before the quit task that the
outermost loop took last (a quit task carries the number).
`BrowserCalls` adds calls in both directions, the activation through
`NPN_PluginThreadAsyncCall`, fire-and-forget tasks, and an instance that may be
destroyed.  `SyncCall` has of each call whether it was made, handled or returned,
and of each thread the calls it waits for; calls are numbered in the order in
which they are made, and the one that may return is the last one made.

**PPVar.** Variables are ids into `var_ht`; ids wrap around at `IdSpace` and
`NPObject.referenceCount` at `CountSpace`, as both are 32 bits wide in the
code.  `frames` is the stack of callbacks on the plugin thread; each has the
steps that its call has left, since a release that deallocates a proxy waits in
a nested loop.  `np[o].mapped` is the entry of a browser object in
`npobj_to_npp_ht`: it is made with a proxy's variable, removed by the deallocation
that takes the last reference, and overwritten with what the called proxy has
(NULL if it has none) when a method of a proxy returns an object.  The objects
that NPP_New gets and NPP_Destroy lets go with their mapping (`np_window_obj`, the
plugin element) are not among `NPObjects`.  A container that goes releases its elements in turn: an array in
the order of the indexes, the hash table of a dictionary in any order (`Orders`).

**Graphics.** `graphics`, `ccb` and the in-progress flag are fields of the
instance.  The browser is a thread with one expose event at a time; damage of
its own may come at any moment (external).

**URLLoader.** `ul` has the fields of `struct pp_url_loader_s` that steer
control.  The file is its size.  A stream passes through requested, open,
destroyed and closed, which is the order in which NPAPI calls the NPP functions
(external).  The plugin keeps to what PPAPI asks of it: it opens a loader once,
reads after the open succeeded, follows a redirect it was told of.  It calls
FollowRedirect only where it asked to be told: `ppb_url_request_info.h` of PPAPI
has FOLLOWREDIRECTS for that: "Set this value to PP_FALSE if you want to use
PPB_URLLoader.FollowRedirects() to follow the redirects only after examining
redirect headers".  The proof of the callback property needs this and TLC agrees:
without it and with three streams, a loader that follows by itself and is told to
follow once more has two streams, the second of which takes a callback that the
first has answered.  Two streams are too few for that to happen.  With the
quirk `connect_first_loader_to_unrequested_stream` the first loader waits for
the stream that the browser opens by itself.

**Network.** A task is the memory of one call; `at` says who has it: evdns, the
table `tasks_ht`, or libevent too.  `adding` is the plugin's thread between
`add_event_mapping` and `event_add`, `closing` the network thread between the
loop of `handle_disconnect_stage2` and its `close`.  Descriptors go to the
lowest free number, so that a closed one is soon another socket's.  What evdns,
`connect` and the peer answer is a choice; a result code is only whether the
callback was posted.

**Audio.** `backend` is the implementation `audio_select_implementation` returns;
the actions of the four backends are guarded by it.  `running` has the streams
whose callback is being executed.  `plugin` is the plugin's thread in the middle
of a create, open or destroy, which in ALSA waits at a barrier, in JACK joins the
resampler and in PulseAudio takes the lock of the main loop.

**VideoCapture, VideoDecoder.** Every stretch between acquire and release is one
step; the calls into the plugin are points at which it may call back.  Open of a
camera may fail at the device, its format or its buffers: there is no descriptor
then, and the old buffers are kept or gone, depending on how far it had come.
While the camera is open, Open replaces the descriptor and the buffers; the
switch `OpensUnclosed` is about that.  `held` and `shown` are what the plugin
has; what libavcodec does with its surfaces is a choice.

**Instances.** The browser's thread, the plugin's thread with its tasks in order
(`mainQ`), and the event thread with its pipe and barrier.  An X event passes
through `xq`, the event thread, `asyncCalls` (or straight from the browser),
NPP_HandleEvent, which makes input events of it (`InputEvents`), and `mainQ`.
The waits of a cross-thread call are one step in each direction; `BrowserCalls`
has the queues.  `xButtons` and `pressed` are not in the code: what is down and
what the plugin was told.  The browser may give an instance one window after
another (`Wins`); each is registered, and NPP_Destroy unregisters the last one
only, so that entries of earlier windows stay in the tables (external: a window is
made for one instance, and X does not use its number again).  `full` is
`is_fullscreen`, which the thread of `Fullscreen` sets and resets at any time: while
it is set NPP_HandleEvent ignores the page's events and NPP_SetWindow posts no view,
and the events of the full screen window arrive by `FullscreenEvent`.

**Fullscreen.** The window's thread, `delay_thread`, and a call that waits at
`cross_thread_call_barrier`.  The queue of the X connection stays when the window
goes, and what is left in it is read for the next window.  `frame` is the plugin's
Flush or SwapBuffers in full screen: it `waits` for its GraphicsExpose, or has
`missed` it and waits for the page to be painted (`PageExpose`).  Two things are
missed: a GraphicsExpose of an earlier window, which NPP_HandleEvent drops while
the instance is in full screen (`OldGraphicsExpose`), and one that was not read
when the window went.  The code counts those it has read and passes them on
(`FlushExposes`); those it has not read it leaves, although the comment at
`ppb_flash_fullscreen.c:492` wants no callback chain broken.

**OpenGLES2.** The entry points are grouped in the order of the source; all take
`PROLOGUE` and `EPILOGUE`, and those that touch the shader tables are actions of
their own.  `current` is what glXMakeCurrent made current on each thread: it
refuses a context that is current on another one.  `driver` has the shaders by
share group, `typeTable` and `sourceTable` the two tables of the translator.  A
create that fails leaves what was current before it: its resource is expunged, and
no destructor runs.

**PluginModule.** The browser's entry points, step by step, and the plugin's main
thread, which nobody ends.  The configuration is read at the first use and reset
to its defaults first.  `Candidates` are the versions on the search path.

**Clipboard, MenuAndCursor, DeviceId.** What is written is served later, when
somebody asks, and freed when GTK says so; menus share static variables; the salt
file is opened, created and written in separate system calls, with a crash
possible at any of them (`ProcessDies`).

**Files.** A reference is a resource with a count and perhaps a descriptor.
`upload` is the browser's thread in `url_loader_open_ptac`, with the plugin's
thread waiting: other programs may change the file between two of its steps.
Bytes are named by the part they come from and their position.  Opening a file and
every read of it may fail; the part is then left out or cut short although it was
announced, and the rest of the body follows (`cut` remembers which parts).

**LocalFiles.** `to_abs_path` is translated character by character, as a fold,
because the property is about what it does to a path; it is compared with the
resolution of names on every path of up to `MaxResolved` characters.

## 3. The runs

### Passing

| Run | Shows | Bounds |
|---|---|---|
| `resource_table` | acquired resources are alive and locked, counts are exact, destructors run once; resources go when released; nested acquires in the code's order do not spin for ever | 2 threads, 2 handles, 2 types, 2 client references |
| `loop` | depth is nesting, accepted work is kept and runs in order, a nested call returns after its answer, quitting waits for earlier work, teardown ends; the Flash loop returns only after Quit, and no quit task ends two runs | 3 tasks with delay 0 or 1, 2 runs, 1 PostQuit, 1 call, 2 Flash runs and 3 calls of their Quit, clock to 3 |
| `browser_calls` | `BrowserCalls` implements `SyncCall`, also when the instance goes; calls return while there is an instance | 3 calls, 2 events, 1 fire-and-forget task |
| `variables` | no variable is freed under a holder, counts are exact on both sides, mappings live as long as proxies, ids are not reused early | 6 calls, 3 ids, 1 browser object, 1 proxy, 2 nested callbacks |
| `graphics` | callbacks are in one place and get called, no device stays locked, references are exact | one 2D and one 3D device, 2 requests, 2 binds, 2 redraws of the browser |
| `url_loader` | reads get the body in order, none is left when loading ends, callbacks are neither lost nor doubled, opens and reads complete | 2 streams of 2 units, 3 calls with callback |
| `media` | callbacks of the backends never outlive their resource and no stream is leaked; the browser knows whether something plays; a frame is never with two of camera, queue and plugin; surfaces and picture buffers come back; create, open, stop and release return | 2 players, 1 input, 2 streams, 4 backends; 3 buffers, 2 opens; 2 surfaces, 2 pictures, 3 frames |
| `windows` | the plugin is called only between DidCreate and DidDestroy, no freed instance is used, every input event is delivered or released, the window and the instances agree on full screen, a frame has its GraphicsExpose on the way or is known to have missed it, every wait ends | 1 instance with 2 windows one after another, 5 X events, 2 on the way; 2 instances for full screen, 2 X events: 961,569 states |
| `services` | GL calls have their own context and shaders, the plugin runs only while it is loaded, clipboard, menu, cursor, device id, files and paths are sound (`ServicesAreSound`, one conjunct per module), calls return | 2 contexts, 1 shader; 4 candidates, 2 tasks; 3 variables, 2 items in one write or two; 1 menu, 2 Shows; 1 process, 2 salts; 1 reference, 3 descriptors, bodies of 2 parts, a file of up to 1 byte in 2 versions; paths of 3 characters, 6 for the resolution |
| `network` | no freed task is used, tasks keep to their own socket's descriptor, every call is answered once, descriptors do not leak, nothing waits for ever on a closed socket | a TCP and a UDP socket, a resolver, 2 descriptors, 3 tasks, 2 addresses |

Why these bounds are enough to be interesting: two threads and two handles give
every pair of critical sections and both nesting orders; three tasks are needed
for one that waits, one that overtakes and one that quits; three calls for a
call, the call it provokes and a crossing one; three ids for a wrap-around while
one id is still used; two requests for a callback that meets the next one; three
loader calls for an open and two waiting reads, or an open, a redirect and a
read; three tasks for a connection, what waits on it and the disconnect, or two
waiting receives and a close; two players for a count that is one too low and
three buffers for one with each of camera, queue and plugin; two X events for a
press and a release, or an Escape and a frame; two windows for one that is not
the last; three calls of Quit for a surplus one that meets a second Flash run
and one that meets the outermost loop; two body parts for one that fails before
another; two contexts and one shader for two contexts of one share group, or of
two; three descriptors for a loader, a reference and a FileIO.  Growing any of
them multiplies the states without a new pair of steps.

Deadlock is not checked: in every instance the bounded calls run out, after
which the system may rightly rest.

### Violations

Each shows what a comment or a header says and the code does not do.

| Run | What happens |
|---|---|
| `loop_flash_quit_sync` | Quit of a Flash loop ends the nested loop of a synchronous call, which returns without an answer |
| `browser_calls_no_instance` | once no instance is left, a call waits for a browser thread that nobody activates |

Four more statements are in the modules without a run of their own; TLC refutes
each when it is added to a configuration.

| Definition | Why it fails |
|---|---|
| `TeardownRunsAll` (`MessageLoopClient`) | work accepted after PostQuit and before the quit task is taken stays in `async_q` when the outermost loop exits, and so does work accepted after a surplus Quit of the Flash loop |
| `ScriptRefsAreKept` (`PPVar`, with `LendObjects`) | an object a script lends to a plugin method is released as if it were owned |
| `NoFrameIsMissed` (`Fullscreen`) | a GraphicsExpose that the window's thread has not read when the window goes reaches nobody, and the callback of its frame waits for the page to be painted |
| `CalledWhenPainted` (`Graphics`) | two expose events for one swap let the second wrapper call the next callback before its image is painted |

### Restrictions of the passing runs

Some constants exclude behaviour in which the code is known not to hold what
the run checks.  They are switches of the model, so that the exclusion can be
seen and undone.

* `UniqueStamps`: two tasks in the queues never have the same time stamp.
  Equal ones compare as equal in `g_tree_insert`, and one is dropped.
* `AnyQuit`: PostQuit is called by callbacks of the outermost level only.
* `TeardownCalls`: no synchronous call in teardown.  Posting its request is
  refused, and the nested run then waits for nobody.
* `MixFlash`: a Flash loop meets neither a synchronous call nor a PostQuit, whose
  quit tasks it would take or leave to the wrong frame (`loop_flash_quit_sync`).
* `LendObjects`: see `ScriptRefsAreKept`.
* `NestedSets`: nested callbacks do not change dictionaries.
  `ppb_var_dictionary_set` takes its reference after a release that may wait.
* `OrphanCalls`: scripts call no method of a proxy that has no entry in
  `npobj_to_npp_ht`.  The call would overwrite the entry of an object it returns
  with NULL (`p2n_proxy_class.c:177`), under the variable that stands for it.
* `MaxRebinds = 0` and one plugin thread in `graphics`: the expose handler
  acquires one device and releases whatever is bound by then.
* In `URLLoader` FinishStreamingToFile is left out of the callback properties:
  after the end of the stream nobody calls its callback.
* `UsesClosed`: no calls on a socket the plugin has closed.  RecvFrom and SendTo
  do not refuse one, and a Connect that succeeds just after Disconnect makes Read
  and Write accept it: their tasks may be freed before their event is added, or
  wait on a descriptor that is closed.
* `ClosesInLookup`: a socket is not closed while evdns looks up the name it is to
  connect to.  Such a task is in no table, Disconnect does not abort it, and the
  answer uses a descriptor that is closed or another socket's.
* `Reopens`: Open is not called on an audio input that is open; its stream would
  be replaced and never destroyed.
* noaudio is exempt from `CallbacksHaveTheirAudio`: its destroy waits for nobody.
* `OpensUnclosed`: a camera is not opened while it is open, nor after a close
  whose last OnBufferReady is still on the way.  Open forgets the descriptor and the
  buffers it replaces, and marks all as free that the plugin may still hold.
* `ChangesSize`: libavcodec asks for a format once per stream; a second set of
  surfaces overwrites the first.
* `TypesLate`: no SetTextInputType is on the way when NPP_Destroy starts.  The
  nested loop of NPP_Destroy would run it and choose a freed input method.
* `use_xembed` is exempt in `EventThreadHasItsInstance`: an embedded window is
  registered by its socket and looked up by its plug, so it stays registered.  The
  property is about the instance's last window, for the same reason: NPP_Destroy
  unregisters no other.
* `FullscreenEnds` is about a window in which a frame was drawn, and names the
  outcome `LeftUnpainted`: the loop at `ppb_flash_fullscreen.c:391` ends only when
  something was painted, so the window of a plugin that draws nothing stays, and
  SetFullscreen(FALSE) before the first frame stops the vertical blanks that would
  bring it.
* `InputIsDelivered` compares buttons for instances that stayed in the page: a
  release that meets full screen is ignored, and the plugin keeps the button down.
* `Unshared`: all contexts are of one share group.  The shader tables have no
  context, so two groups use each other's entries.
* `LeavesCurrent`: a context is not released right after ResizeBuffers, which
  leaves it current on the plugin's thread, until a call has ended on that thread; a
  create that fails is no such call.
* `CarefulBrowser`: no NP_Initialize after a failed one or after NP_Shutdown;
  `np_initialize_was_called` is never reset.
* `ProbesFirst`: the browser asks for name or description before NP_Initialize.
  Otherwise reading the configuration wipes the mark that the browser is too old.
* `LeavesWork`: the plugin leaves no callbacks in its main loop at NP_Shutdown;
  they would run after dlclose.
* `HtmlFirst`: a write of both lists the HTML text before the plain text.  Plain text
  is offered as HTML too, and hides an HTML text listed after it, so what is read
  then is not what was written.
* `OneMenu`: one menu at a time; `popup_menu_ccb` and its companions are static.
* `Processes` has one member: a second process may truncate the salt file while
  the first one reads it, and a crash leaves an empty one.
* `PlainUploads`: files are posted by name, from their start, no more of them than
  there is, and nobody changes them meanwhile.  A short or changed file makes the
  loop read nothing for ever, a file without a name is skipped though it was
  announced, and the start offset is never sought.  Errors of open and read are not excluded.
* `OpensOnce`: a second Open of a FileIO forgets the first descriptor.

With any of these switches turned TLC finds a violation of the run's properties.

### What a property joins

A property of a run may be a conjunction of named parts of a module, each with its
comment: `StreamsMatchResources` joins the type invariant of `Audio` with
`CallbacksHaveTheirAudio` and `StreamsAreOwned`; `CameraIsShared`,
`FramesGoRound`, `CallsAreBetweenCreateAndDestroy`, `FullscreenIsConsistent`,
`LoopIsConsistent`, `HeldThingsExist`, `CountsAreExact`, `DevicesAreReleased`,
`BodyIsReadInOrder`, `TasksAreSafe` and `ServicesAreSound` are made the same way.
The mutants in `PROJECT.json` each break one of the conjuncts.

### Fairness

* `PPResource`: weak fairness of the second halves of calls, strong fairness of
  acquire (a spinning thread retries for ever, and meets the mutex free
  infinitely often) and of release by a thread that holds a resource: no
  function of the code keeps a resource acquired for ever.
* `MessageLoopClient`: the loop's thread runs, time passes, the other thread
  answers.
* `BrowserCalls`: both threads run, and the browser delivers an asynchronous
  call when it is in its own event loop.
* `Graphics`: threads run; the browser paints what was invalidated.
* `URLLoader`: threads run; the browser answers each request, with a stream or
  with an error, and ends each stream.  The content stream comes after the
  first Open.
* `Network`: the plugin's thread finishes its call; the network thread runs what
  is due.  evdns and connect have timeouts and the timer of a disconnect is zero,
  so these are fair; reads, writes, receives and sends are not, they wait for the
  peer until the socket is closed.
* `Audio`: the threads of the backends run, a callback of the plugin returns, and
  the plugin's thread goes on when it can; strongly, since the barrier and the lock
  it waits for are free again and again.
* `VideoCapture`: the camera's thread runs (its wait has a timeout), and a join
  returns when the thread has ended.
* `Instances`: threads that can go on do; the browser need not send anything.
* `Fullscreen`: the window's and the delay thread run, the other side of the
  barrier comes, SetFullscreen(FALSE) finishes, and vertical blanks come.  All of it
  is weak: nobody has to paint, to leave or to press a key.
* `OpenGLES2`: strong fairness of a thread in a GL call, which competes for
  `display.lock` with a thread that holds it only during calls.
* `PluginModule`: the browser's thread goes on, and the main loop, which serves
  its queue in order, takes what is queued.
* `Files`: the browser's thread goes on with what it posts.

## 4. The proofs

The theorems hold for every value of the constants that the assumptions allow:
any number of threads, handles, tasks, levels, buffers, contexts and instances.
A switch of section 3 that a theorem needs is a hypothesis of the theorem; where
none is named, the switches may be anything.

| Module | Theorem | States | Hypotheses |
|---|---|---|---|
| `PPResource_proofs` | `TypeCorrect` | `[]TypeOK`; counts are never negative | |
| | `AcquiredStaysAlive` | `[]AcquiredIsAlive` | |
| | `CountsAreExact` | `[]RefCountExact` | |
| | `DestructorRunsOnce` | `[]DestroyedOnce` | |
| `MessageLoop_proofs` | `LoopIsConsistentCorrect` | `[]LoopIsConsistent` | |
| | `AcceptedWorkIsKeptCorrect` | `[]AcceptedWorkIsKept` | `UniqueStamps` |
| | `RunsReturnInTurnCorrect` | `[]RunsReturnInTurn` | `UniqueStamps`, not `AnyQuit`, not `MixFlash` |
| | `WorkInOrderCorrect` | `WorkInOrder`, two action properties | `UniqueStamps`, not `AnyQuit`, not `MixFlash` |
| `BrowserCalls_proofs` | `CallsTypeCorrect` | `[]TypeOK` | |
| | `CallsAreSynchronousCorrect` | `CallsAreSynchronous`: `BrowserCalls` implements `SyncCall` | |
| `PPVar_proofs` | `VariablesInvariant` | `[]VarInv`, the invariant of the next three | `PlainCalls`: not `LendObjects`, not `NestedSets`, not `OrphanCalls` |
| | `HeldThingsExistAlways` | `[]HeldThingsExist` | `PlainCalls` |
| | `CountsAreExactAlways` | `[]CountsAreExact` | `PlainCalls` |
| | `NewIdsAreUnusedAlways` | `NewIdsAreUnused`, an action property | `PlainCalls` |
| `Graphics_proofs` | `GraphicsReleasesDevices` | `[]DevicesAreReleased` | one plugin thread, `MaxRebinds = 0` |
| | `GraphicsCallsBackOnce` | `[]CallbacksAreNeitherLostNorDoubled` | one plugin thread, `MaxRebinds = 0` |
| `URLLoader_proofs` | `LoaderReadsInOrder` | `[]BodyIsReadInOrder` | |
| | `LoaderCallsBackOnce` | `[]CallbacksAreNeitherLostNorDoubled` | |
| `NetworkAndMedia_proofs` | `EveryCallIsAnsweredOnce` | `[]AnsweredOnce` | |
| | `DescriptorsAreNotLeaked` | `[]OpenSocketsAreClosable` | |
| | `TasksAreSafeCorrect` | `[]TasksAreSafe` | not `UsesClosed`, not `ClosesInLookup` |
| | `BrowserKnowsOfPlayingCorrect` | `[]BrowserKnowsOfPlaying` | |
| | `StreamsMatchResourcesCorrect` | `[]StreamsMatchResources` | not `Reopens` |
| | `CameraIsSharedCorrect` | `[]CameraIsShared` | not `OpensUnclosed` |
| | `FramesGoRoundCorrect` | `[]FramesGoRound` | not `ChangesSize` |
| `WindowsAndServices_proofs` | `FullscreenIsConsistentCorrect` | `[]FullscreenIsConsistent` | |
| | `CallsAreBetweenCreateAndDestroyCorrect` | `[]CallsAreBetweenCreateAndDestroy` | |
| | `EventThreadHasItsInstanceCorrect` | `[]EventThreadHasItsInstance` | not `TypesLate` |
| | `GLCallsAreIsolatedCorrect` | `[]GLCallsAreIsolated` | not `Unshared`, not `LeavesCurrent` |
| | `ModuleIsUsableCorrect` | `[]ModuleIsUsable` | `CarefulBrowser`, `ProbesFirst`, not `LeavesWork` |

Each theorem is `Init => I`, `I /\ [Next]_vars => I'`, `I => property` (for an
action property `I /\ [Next]_vars => property`), with one lemma per action.  The
inductive invariants `I` are what the properties alone leave out; TLC checked each
on a small instance before it was proved.  Where an action changes records or
sequences, a lemma first says field by field what it does, and the lemmas about
the invariant use only that.

**PPResource.** They rest on the assumptions `ThreadsAssumption` (threads are a
finite set and `NoThread` is not one), `TypesAssumption` (there is a type) and
`BoundsAssumption` (the bounds are numbers).  `NestOrder` needs none.  The three
safety invariants are not inductive, neither alone nor together: nothing in them
says that a handle not given out yet is unknown to everybody, that what is in the
table is live, that the second half of a release still has the reference it is
going to drop, or that a resource under construction is private to its creator.
`IndInv` is their conjunction with these four facts.  The critical section that
`unref` and the second half of `release` share is one lemma, `UnrefSectionInv`,
in which the cardinality argument is: the thread leaves the set of those that
have a reference, or the client's count goes down, and the count with it.

**MessageLoop.** `LoopInv` says what every frame has saved: its depth is the
number of runs up to it, and `running` was set around it exactly if there was
one, so that leaving a frame makes both right again.  `KeptInv` adds that no two
queued tasks have the same stamp (the second would be lost on its way into the
tree) and that quit tasks carry no work.  `TurnInv` is about reasons: the frame
of a synchronous call is the only one of its depth that waits, a quit task that
reaches a nested depth is the answer to the call that waits there, and one depth
has at most one of them.  A Flash loop does not increase the depth, so nothing
tells its quits from others: they are counted, and never fall short of the runs
that returned.  The theorem does not assume that calls in teardown are excluded,
as the run does: they may wait for ever, but return for no other's reason.
`OrderInv` says that the order of posting survives both queues: of two queued
tasks without delay, the earlier has the smaller stamp and is not behind the other
in `async_q`.  `EarlyInv` is what makes teardown wait for the right work, whoever has posted the
quit task, PostQuit or a surplus Quit of the Flash loop: work posted before a quit
task is not behind it in `async_q`, so it is in the tree when the outermost loop
has taken that task.  `EndsInv` counts: the ends of runs so far, the outermost run
that is being torn down and the quit tasks that can still end one are no more
than the calls of PostQuit and Quit.

**BrowserCalls.** `CallsInv` follows a call from its making to its return.  Time
stamps grow along `async_q` and what is in the tree is older (`StampsInv`), so no
task is dropped on its way.  The frames of a thread alternate between runs and
callbacks, and the depth of a run is its place among them (`Shape`), so a quit
task posted for a depth names one run.  A quit task is the answer to a handled
call whose run has not ended, and no other has its depth (`Quits`); a run that
waits is that of a call of its own depth (`Waiters`), and one thread's calls are
apart from the other's.  A step of a call, queued or on a C stack, belongs to a
call that is made and not handled and whose caller waits (`Works`), and is in one
place (`Single`, `Places`), so a call is handled once.  None of this can be left
out: without the last two a second copy of a step could answer a call that has
returned, and `SyncCall` would have to handle it twice.  The lemma of each action
proves the invariant of the next state and names the step of `SyncCall` it is, or
that it is none; the refinement mapping is applied once, at the end.  Neither the
hypothesis that an instance is left nor a bound on the nesting is needed.

**PPVar.** A reference count is a sum over containers, arguments of callbacks,
proxies and releases still to do, and `RefCountExact` is nearly inductive by
itself once each of the four is the cardinality of a set of places: every action
adds one place to one set or takes one from it, and a container that goes turns
its elements into the same number of releases (`Orders` counts them through a
bijection).  `VarInv` adds what the counts rest on.  `Kinds`: only containers have
elements, only objects have a browser object, a proxy in use stands for an object
of the plugin that is there.  `LostAreThere`: what `ppb_var_array_set` has lost
keeps its variable for ever.  `Frames` is about the one moment at which a count is
wrong, between the release and the reference in `ppb_var_dictionary_set`
(`Setting`): only the outermost callback can be there, the dictionary has the
element, and somebody outside it keeps both until the reference is taken, so that
the release in between, with all that nests in it, frees neither.  With
`NestedSets` that is false, and with `LendObjects` the release of a lent object
takes a reference nobody gave; with `OrphanCalls` a live proxy loses its mapping.  TLC
shows all three, and they are the hypothesis.
`Ending` says that a result is converted before it is released, which keeps an
object that a script receives.  Nothing is assumed of the sizes: ids may wrap
around, and `NewIdsAreUnusedAlways` is about exactly that.

**Graphics.** `GraphicsInv`: who has the lock of a device is inside an operation
on it, the expose handler has acquired nothing but the bound device, the
references are those of the plugin, of the binding and of the lock, and the
callback of a call under way is stored exactly if its device is the bound one.
Both hypotheses are in the third of these: with a second thread, or a device that
replaces another, the handler releases what it has not acquired.

**URLLoader.** `LoaderInv`: a callback is in one of five places (the loader, the
browser's handler between two acquires, the queue of reads, the plugin's loop, or
called), a live loader has at most one stream that is asked for or feeds it, and
the handler of the browser's thread works for that one.  That is what keeps
NPP_DestroyStream from calling an answered callback again: it never clears
`stream_to_file_ccb`, and no second stream ends after the one that posted it.
For the body: reads wait in the order of their calls, all that came after a
waiting one wait, and those served end where the next begins.

**Network.** `Bookkeeping` ties the places a task can be in to its memory, its
resource and the two windows of the code (`adding`, `closing`): a socket has at
most one disconnect task, and has it exactly if it is marked as destroyed.
`NoStrays` adds what the two switches give: once a socket is marked, its tasks are
in `tasks_ht`, where `handle_disconnect_stage2` finds them, and none is left when
the descriptor is closed.

**Audio.** `AudioCounts` has the count of playing resources by cardinality, and the
calls to the browser that are under way.  `AudioOwners` pairs streams and
resources field by field and backend by backend, the plugin's thread in the
middle of a create or destroy included; for ALSA also what the thread has copied
of the streams (`AlsaThread`), which the barrier makes harmless.

**VideoCapture, VideoDecoder.** `CaptureInv`: every buffer is in one place, and
the capture thread has a reference while it runs.  `DecoderInv`: the pictures the
plugin was asked for, and one set of surfaces per initialisation.

**Fullscreen, Instances.** `FullscreenInv` says for each place of the window's
thread which call it waits in and whose window it has, and that
SetFullscreen(FALSE) is under way only for an instance that was in full screen.  A
frame that waits is then never without its GraphicsExpose: the step that takes the
window away says which one is lost (`LeavesUnread`).  `CallsInv` follows an instance
through NPP_New and NPP_Destroy: what its memory, the table, the interfaces and
the plugin's knowledge are at each step of the browser's thread, that one task at
most is waited for, and that queued tasks are of instances whose DidCreate came
first.  `ThreadInv` adds that a registered window that is the last of its instance
and not embedded keeps it (`KeepsInstance`), that the event thread works on
registered windows, and that no call for an input method outlives the start of
NPP_Destroy.

**OpenGLES2.** `IsolationInv`: `display.lock` is held in a call and nowhere else, a
call has acquired a context that is alive, and only the plugin's thread makes one
current.  `TablesInv`: one share group is in use, the one under creation included,
and both tables agree with its shaders.

**PluginModule.** `ModuleInv`: what library, main thread and display are at each
step of the browser's entry points, that a queued task is one somebody waits for,
and that the configuration once read has the path of the newest plugin.  The last
is about a search path of any length, and is proved with the least position at
which the claim would fail (`NatLessThanWellFounded`, `WFMin`), since an
induction principle cannot be cited here.  The same argument gives the first
appropriate task of a loop's tree.

The assumptions on the constants (`*Assumption`) say that sets are finite, that
`Nobody`, `NoInst` and the like are not members, and that bounds are numbers.

Only model-checked:

* liveness (`CallsAndDestructorsFinish`, `WorkIsServed`, `CallsReturnWhileAlive`,
  `EveryTaskEnds` and the like): fairness and `ENABLED` are beyond the prover;
* what `PPVar` does with `LendObjects`, `NestedSets` or `OrphanCalls`: the code has not the
  properties then;
* `InputIsDelivered` of `Instances`: its first half counts the events in a queue;
* `ServicesAreSound`: the conjuncts about paths, posted bodies and offered data are
  folds over strings and lists.

What a fold or a recursive definition computes needs an induction over data, which
the prover cannot cite.

## 5. Not modelled

* Logging, formatting, pixels, samples, coordinates and what the GL driver draws.
* Argument conversion other than that of objects; headers of requests and
  responses; URL parsing, percent encoding, certificates, character sets: pure
  functions of strings.
* `reverse_constant.c`, `gtk_wrapper.*`, the key tables and the tracing twins of
  every interface (`trace_ppb_*`): tables and logging.
* Address records and the network monitor, image data and buffers, messaging,
  printing: no state but a resource's, or a single posted task.
* The destruction of an instance that is in full screen, and of one whose device
  another instance binds: listed as hazards without a property.
* Calls made without callback where the code polls
  (`ppb_url_loader_open_target`).
* Memory that is freed too early is modelled as freed, not as what the allocator
  does with it next.

## 6. What is left

1. `InputIsDelivered`, with the counted queue as a set of positions.
2. The hazards without a property: an instance that is destroyed in full screen,
   and a device bound by two instances.
