---------------------------- MODULE PluginModule ----------------------------
(* Loading and unloading of the plugin: NP_Initialize and NP_Shutdown on the   *)
(* browser's thread, the plugin's main thread they start and never stop, the   *)
(* X display, the hardware decoders and the screensaver connection opened with *)
(* it, and the configuration.                                                  *)
EXTENDS Naturals, Sequences

CONSTANTS
  Candidates,     \* versions of the plugin files on the search path, 0 for a missing file
  MaxTasks,       \* bound on the callbacks the plugin has pending
  CarefulBrowser, \* the browser does not initialise again after a failure or a shutdown,
                  \* and shuts down what it initialised
  ProbesFirst,    \* the browser asks for the plugin's name before it initialises
  LeavesWork      \* the plugin may leave callbacks pending when it is shut down

ASSUME ModuleAssumption ==
  /\ Candidates \in Seq(Nat) /\ MaxTasks \in Nat
  /\ CarefulBrowser \in BOOLEAN /\ ProbesFirst \in BOOLEAN /\ LeavesWork \in BOOLEAN

VARIABLES
  npCalled,    \* np_initialize_was_called
  functions,   \* the browser has the NPP functions
  browserOld,  \* the browser's API is older than thread asynchronous calls
  cfg,         \* [initialized, missing, path]: the configuration
  dl,          \* module_dl_handler: "none" or "open"
  mainThread,  \* the plugin's main thread: "none", "starting" or "running"
  mainJob,     \* what runs on it: "none", "init", "shutdown", "callback" or "activity"
  mainQueue,   \* work posted to it by NP_Initialize and NP_Shutdown
  callbacks,   \* the plugin's own callbacks pending on it
  xDisplay,    \* display: "none", "open", "failed" or "closed"
  decoders,    \* hardware decoders initialised with the display
  dbus,        \* connection of screensaver_control.c
  npStep,      \* where NP_Initialize or NP_Shutdown is on the browser's thread
  npResult,    \* the answer of the last NP_Initialize
  instances    \* live instances

moduleVars == <<npCalled, functions, browserOld, cfg, dl, mainThread, mainJob, mainQueue,
                callbacks, xDisplay, decoders, dbus, npStep, npResult, instances>>
screenVars == <<xDisplay, decoders, dbus>>
mainVars == <<mainThread, mainJob, mainQueue, callbacks>>

\* Mutant: the last readable file is taken.
probe_last(found, version) == IF version # 0 THEN version ELSE found

\* probe_flapper: a readable file replaces the one found so far when it is newer.
probe_flapper(found, version) ==
  IF version # 0 /\ (found = 0 \/ version > found) THEN version ELSE found

\* The plugin found after the first k files of the search path.
Probed[k \in 0..Len(Candidates)] ==
  IF k = 0 THEN 0 ELSE probe_flapper(Probed[k - 1], Candidates[k])

\* fpp_config_find_backend_plugin over the whole path; 0 when there is no plugin.
fpp_config_find_backend_plugin == Probed[Len(Candidates)]

DefaultConfig == [initialized |-> FALSE, missing |-> FALSE, path |-> 0]

\* fpp_config_initialize: the first call starts from the defaults, whatever was set before.
fpp_config_initialize(c) ==
  IF c.initialized THEN c
  ELSE [DefaultConfig EXCEPT !.initialized = TRUE, !.path = fpp_config_find_backend_plugin]

\* probe_ppp_module: the configuration, and a mark when there is no plugin.
probe_ppp_module(c) ==
  LET i == fpp_config_initialize(c) IN [i EXCEPT !.missing = @ \/ i.path = 0]

\* fpp_config_destroy frees the strings; flags and the path found stay.
fpp_config_destroy(c) == [c EXCEPT !.initialized = FALSE]

ModuleInit ==
  /\ npCalled = FALSE /\ functions = FALSE /\ browserOld \in BOOLEAN
  /\ cfg = DefaultConfig /\ dl = "none"
  /\ mainThread = "none" /\ mainJob = "none" /\ mainQueue = <<>> /\ callbacks = 0
  /\ xDisplay = "none" /\ decoders = {} /\ dbus = FALSE
  /\ npStep = "idle" /\ npResult = "none" /\ instances = 0

-----------------------------------------------------------------------------
\* NP_GetValue and NP_GetPluginVersion.
NP_GetValue ==
  /\ npStep = "idle"
  /\ cfg' = probe_ppp_module(cfg)
  /\ UNCHANGED <<npCalled, functions, browserOld, dl, mainVars, screenVars, npStep, npResult,
                 instances>>

Return(result) == npStep' = "idle" /\ npResult' = result

\* NP_Initialize up to load_ppp_module.  A second call, and a process without GTK, get
\* NPERR_NO_ERROR and nothing else; without asynchronous calls it fails.
NP_Initialize ==
  /\ npStep = "idle"
  /\ CarefulBrowser => ~npCalled \/ (xDisplay = "open" /\ npResult = "ok")
  /\ ProbesFirst => cfg.initialized
  /\ npCalled' = TRUE
  /\ \/ npCalled /\ Return("ok") /\ UNCHANGED <<functions, cfg>>
     \/ ~npCalled /\ \E r \in {"ok", "error"} : Return(r) /\ UNCHANGED <<functions, cfg>>
     \/ /\ ~npCalled
        /\ functions' = TRUE
        /\ cfg' = [cfg EXCEPT !.missing = @ \/ browserOld]
        /\ npStep' = "load" /\ UNCHANGED npResult
  /\ UNCHANGED <<browserOld, dl, mainVars, screenVars, instances>>

\* load_ppp_module: find the plugin, open it, and start the main thread behind a barrier.
load_ppp_module ==
  /\ npStep = "load"
  /\ LET c == probe_ppp_module(cfg) IN
     \/ /\ dl = "none" /\ c.path # 0
        /\ dl' = "open" /\ cfg' = c
        /\ mainThread' = IF mainThread = "none" THEN "starting" ELSE mainThread
        /\ npStep' = IF mainThread = "none" THEN "barrier" ELSE "display"
     \/ /\ dl = "none"            \* no file, no library, or a function missing in it
        /\ cfg' = [c EXCEPT !.missing = TRUE]
        /\ npStep' = "display" /\ UNCHANGED <<dl, mainThread>>
  /\ UNCHANGED <<npCalled, functions, browserOld, mainJob, mainQueue, callbacks, screenVars,
                 npResult, instances>>

\* fresh_wrapper_main_thread: the loop runs, and its first task meets the browser's thread
\* at the barrier.
fresh_wrapper_main_thread ==
  /\ mainThread = "starting" /\ npStep = "barrier"
  /\ mainThread' = "running" /\ npStep' = "display"
  /\ UNCHANGED <<npCalled, functions, browserOld, cfg, dl, mainJob, mainQueue, callbacks,
                 screenVars, npResult, instances>>

\* screensaver_connect: a session bus may be missing.  screensaver_type_detect tries again.
screensaver_connect(connected) == dbus' = connected

\* initialize_vaapi and initialize_vdpau, as far as the configuration and the drivers go.
initialize_decoders(found) == decoders' = found

\* tables_open_display, then call_plugin_init_module up to the nested loop: without a plugin
\* there is nothing to initialise.
tables_open_display ==
  /\ npStep = "display"
  /\ \/ /\ xDisplay' = "failed" /\ Return("error") /\ UNCHANGED <<decoders, dbus, mainQueue>>
     \/ /\ xDisplay' = "open"
        /\ \E found \in SUBSET {"va", "vdpau"} : initialize_decoders(found)
        /\ \E connected \in BOOLEAN : screensaver_connect(connected)
        /\ IF dl = "none"
             THEN Return("ok") /\ UNCHANGED mainQueue
             ELSE /\ mainQueue' = Append(mainQueue, "init")
                  /\ npStep' = "initializing" /\ UNCHANGED npResult
  /\ UNCHANGED <<npCalled, functions, browserOld, cfg, dl, mainThread, mainJob, callbacks,
                 instances>>

-----------------------------------------------------------------------------
\* The main thread takes its next piece of work: a call of NP_Initialize or NP_Shutdown in
\* turn, or a callback of the plugin that is due.
MainTakes ==
  /\ mainThread = "running" /\ mainJob = "none"
  /\ \/ /\ mainQueue # <<>>
        /\ mainJob' = Head(mainQueue) /\ mainQueue' = Tail(mainQueue)
        /\ UNCHANGED callbacks
     \/ /\ callbacks > 0
        /\ mainJob' = "callback" /\ callbacks' = callbacks - 1
        /\ UNCHANGED mainQueue
  /\ UNCHANGED <<npCalled, functions, browserOld, cfg, dl, mainThread, screenVars, npStep,
                 npResult, instances>>

\* The plugin asks for callbacks while it is initialised and while it has instances.
PluginPosts ==
  /\ mainJob \in {"init", "callback"} /\ callbacks < MaxTasks
  /\ mainJob = "init" \/ instances > 0
  /\ callbacks' = callbacks + 1
  /\ UNCHANGED <<npCalled, functions, browserOld, cfg, dl, mainThread, mainJob, mainQueue,
                 screenVars, npStep, npResult, instances>>

\* Mutant: the nested loop is left only when the plugin succeeded.
QuitsOnSuccess ==
  /\ mainJob = "init" /\ npStep = "initializing"
  /\ mainJob' = "none"
  /\ \E r \in {"ok", "error"} :
       /\ npResult' = r
       /\ npStep' = IF r = "ok" THEN "initialized" ELSE npStep
  /\ UNCHANGED <<npCalled, functions, browserOld, cfg, dl, mainThread, mainQueue, callbacks,
                 screenVars, instances>>

\* call_plugin_init_module_comt: PPP_InitializeModule answers, and the nested loop of the
\* browser's thread is told to quit.
call_plugin_init_module_comt ==
  /\ mainJob = "init" /\ npStep = "initializing"
  /\ mainJob' = "none" /\ npStep' = "initialized"
  /\ \E r \in {"ok", "error"} : npResult' = r
  /\ UNCHANGED <<npCalled, functions, browserOld, cfg, dl, mainThread, mainQueue, callbacks,
                 screenVars, instances>>

\* The nested loop returned: so does NP_Initialize.
call_plugin_init_module ==
  /\ npStep = "initialized"
  /\ npStep' = "idle"
  /\ UNCHANGED <<npCalled, functions, browserOld, cfg, dl, mainVars, screenVars, npResult,
                 instances>>

\* A callback of the plugin ends.  It may have called UpdateActivity: screensaver_deactivate
\* talks to the display and connects to the bus again if there is no connection.
CallbackEnds ==
  /\ mainJob = "callback" /\ mainJob' = "none"
  /\ \E connected \in {dbus, TRUE} : screensaver_connect(connected)
  /\ UNCHANGED <<npCalled, functions, browserOld, cfg, dl, mainThread, mainQueue, callbacks,
                 xDisplay, decoders, npStep, npResult, instances>>

\* Instances come and go while the module is initialised.
InstanceChanges ==
  /\ npStep = "idle" /\ functions /\ npResult = "ok"
  /\ CarefulBrowser => xDisplay = "open"
  /\ instances' = 1 - instances
  /\ UNCHANGED <<npCalled, functions, browserOld, cfg, dl, mainVars, screenVars, npStep,
                 npResult>>

-----------------------------------------------------------------------------
\* NP_Shutdown up to the nested loop of call_plugin_shutdown_module; a plugin without
\* PPP_ShutdownModule, or none at all, is not called.
NP_Shutdown ==
  /\ npStep = "idle" /\ npCalled /\ instances = 0
  /\ CarefulBrowser => functions /\ npResult = "ok" /\ xDisplay = "open"
  /\ LeavesWork \/ (callbacks = 0 /\ mainJob = "none")
  /\ \/ /\ dl = "open"
        /\ mainQueue' = Append(mainQueue, "shutdown") /\ npStep' = "shutting"
     \/ npStep' = "unload" /\ UNCHANGED mainQueue
  /\ UNCHANGED <<npCalled, functions, browserOld, cfg, dl, mainThread, mainJob, callbacks,
                 screenVars, npResult, instances>>

\* call_plugin_shutdown_module_comt.
call_plugin_shutdown_module_comt ==
  /\ mainJob = "shutdown" /\ npStep = "shutting"
  /\ mainJob' = "none" /\ npStep' = "unload"
  /\ UNCHANGED <<npCalled, functions, browserOld, cfg, dl, mainThread, mainQueue, callbacks,
                 screenVars, npResult, instances>>

\* Mutant: the connection to the bus is left open.
CloseKeepsBus == xDisplay' = "closed" /\ decoders' = {} /\ UNCHANGED dbus

\* tables_close_display: the bus, the decoders, the cursor and the display.
tables_close_display == xDisplay' = "closed" /\ decoders' = {} /\ dbus' = FALSE

\* The rest of unload_ppp_module and of NP_Shutdown.  The main thread keeps running.
unload_ppp_module ==
  /\ npStep = "unload" /\ npStep' = "idle"
  /\ dl' = "none"
  /\ cfg' = fpp_config_destroy(cfg)
  /\ tables_close_display
  /\ UNCHANGED <<npCalled, functions, browserOld, mainVars, npResult, instances>>

-----------------------------------------------------------------------------
ModuleProgress ==
  \/ load_ppp_module \/ fresh_wrapper_main_thread \/ tables_open_display
  \/ call_plugin_init_module_comt \/ call_plugin_init_module
  \/ call_plugin_shutdown_module_comt \/ unload_ppp_module

ModuleNext ==
  \/ NP_GetValue \/ NP_Initialize \/ NP_Shutdown \/ InstanceChanges
  \/ MainTakes \/ PluginPosts \/ CallbackEnds \/ ModuleProgress

\* The browser's thread goes on, and the main thread serves its loop; the loop serves
\* posted work before long even when callbacks keep coming due.
ModuleFairness ==
  /\ WF_moduleVars(ModuleProgress)
  /\ WF_moduleVars(CallbackEnds)
  /\ SF_moduleVars(MainTakes /\ mainQueue # <<>> /\ mainQueue' # mainQueue)

-----------------------------------------------------------------------------
\* The plugin's code runs only while its library is loaded, and it and the instances have the
\* display; what tables_close_display closes was opened, and stays closed.
PluginRunsLoaded ==
  /\ mainJob # "none" => dl = "open"
  /\ mainJob = "callback" \/ instances > 0 \/ npStep = "unload" => xDisplay = "open"
  /\ xDisplay = "closed" => decoders = {} /\ ~dbus

\* Once NP_Initialize has answered, a browser with an old API or a missing plugin has the
\* placeholder, and a plugin that was loaded is the newest of those found.
PlaceholderWhenUnusable ==
  (npStep = "idle" /\ functions /\ npResult = "ok" /\ xDisplay = "open") =>
    /\ browserOld \/ dl = "none" => cfg.missing
    /\ dl = "open" => \A k \in 1..Len(Candidates) : Candidates[k] <= cfg.path

ModuleIsUsable == PluginRunsLoaded /\ PlaceholderWhenUnusable

\* NP_Initialize and NP_Shutdown return.
ModuleCallsReturn == npStep # "idle" ~> npStep = "idle"
=============================================================================
