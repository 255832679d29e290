------------------------------ MODULE MCServices ------------------------------
(* Loading of the plugin, the OpenGL ES calls, files and three Flash services, *)
(* which share no state: each behaviour of this instance is one of one of them. *)
EXTENDS OpenGLES2, PluginModule, Clipboard, MenuAndCursor, DeviceId, Files, LocalFiles

VARIABLE part   \* the component that runs

serviceVars == <<glVars, moduleVars, clipVars, uiVars, drmVars, fileVars, localVars, part>>

\* Versions on the search path: a missing file, and the newest one in the middle.
MCCandidates == <<2, 0, 3, 1>>

Init ==
  /\ part \in {"gl", "module", "clipboard", "menu", "drm", "files", "local"}
  /\ GLInit /\ ClipInit /\ UIInit /\ DrmInit /\ LocalInit
  /\ FilesInit /\ (part # "files" => onDisk.size = 0)
  /\ ModuleInit /\ (part # "module" => ~browserOld)

Next ==
  \/ part = "gl" /\ GLNext
     /\ UNCHANGED <<moduleVars, clipVars, uiVars, drmVars, fileVars, localVars, part>>
  \/ part = "module" /\ ModuleNext
     /\ UNCHANGED <<glVars, clipVars, uiVars, drmVars, fileVars, localVars, part>>
  \/ part = "clipboard" /\ ClipNext
     /\ UNCHANGED <<glVars, moduleVars, uiVars, drmVars, fileVars, localVars, part>>
  \/ part = "menu" /\ UINext
     /\ UNCHANGED <<glVars, moduleVars, clipVars, drmVars, fileVars, localVars, part>>
  \/ part = "drm" /\ DrmNext
     /\ UNCHANGED <<glVars, moduleVars, clipVars, uiVars, fileVars, localVars, part>>
  \/ part = "files" /\ FilesNext
     /\ UNCHANGED <<glVars, moduleVars, clipVars, uiVars, drmVars, localVars, part>>
  \/ part = "local" /\ LocalNext
     /\ UNCHANGED <<glVars, moduleVars, clipVars, uiVars, drmVars, fileVars, part>>

Spec == Init /\ [][Next]_serviceVars /\ GLFairness /\ ModuleFairness /\ FilesFairness

\* The clipboard hands out what was written and keeps its references, a menu answers the call
\* that showed it, a cursor is freed by its owner, the device id never changes, descriptors
\* and file references have their owners, a request is posted whole, and the plugin's files
\* stay in its directory.
ServicesAreSound ==
  /\ ClipboardIsSound /\ MenuAndCursorAreSound /\ DeviceIdIsStable
  /\ FilesAreSound /\ LocalFilesStayLocal

\* GL calls, NP_Initialize, NP_Shutdown and the posting of a request return, whatever the
\* other thread is doing.
ServiceCallsReturn == GLCallsReturn /\ ModuleCallsReturn /\ UploadEnds
=============================================================================
