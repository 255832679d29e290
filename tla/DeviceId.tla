------------------------------- MODULE DeviceId -------------------------------
(* PPB_Flash_DRM.GetDeviceID: the id is a salt kept in a file, made on first    *)
(* use.  Processes of the browser may come and go, or be killed, at any point.  *)
EXTENDS Naturals, FiniteSets

CONSTANTS
  Processes,    \* plugin processes of one user
  Salts         \* salts that can be made: one (machine-id), or many (random numbers)

Absent == "absent"
Truncated == "truncated"

VARIABLES
  saltFile,   \* the file: absent, truncated, or a salt
  drm,        \* [process -> where it is in GetDeviceID, and the salt it holds]
  deviceIds   \* ids that were answered

drmVars == <<saltFile, drm, deviceIds>>

DrmIdle == [step |-> "idle", salt |-> Absent]

DrmInit ==
  /\ saltFile = Absent
  /\ drm = [p \in Processes |-> DrmIdle]
  /\ deviceIds = {}

\* GetDeviceID opens the file for reading.
OpenSalt(p) ==
  /\ drm[p].step = "idle"
  /\ drm' = [drm EXCEPT ![p].step = IF saltFile = Absent THEN "create" ELSE "read"]
  /\ UNCHANGED <<saltFile, deviceIds>>

\* There is none: it is opened for writing, which empties it, or cannot be.
CreateSalt(p) ==
  /\ drm[p].step = "create"
  /\ \/ /\ saltFile' = Truncated
        /\ drm' = [drm EXCEPT ![p].step = "salt"]
     \/ drm' = [drm EXCEPT ![p] = DrmIdle] /\ UNCHANGED saltFile
  /\ UNCHANGED deviceIds

\* get_system_salt: one of the machine-id files, or random bytes.
get_system_salt(p) ==
  /\ drm[p].step = "salt"
  /\ \E s \in Salts : drm' = [drm EXCEPT ![p] = [step |-> "write", salt |-> s]]
  /\ UNCHANGED <<saltFile, deviceIds>>

\* Mutant: the salt is answered from memory, and a file that could not be written is removed.
WriteAndAnswer(p) ==
  /\ drm[p].step = "write"
  /\ saltFile' \in {drm[p].salt, Absent}
  /\ drm' = [drm EXCEPT ![p] = DrmIdle]
  /\ deviceIds' = deviceIds \cup {drm[p].salt}

\* The salt reaches the file when it is closed, unless the disk is full; nobody looks.
WriteSalt(p) ==
  /\ drm[p].step = "write"
  /\ saltFile' \in {drm[p].salt, Truncated}
  /\ drm' = [drm EXCEPT ![p] = [DrmIdle EXCEPT !.step = "read"]]
  /\ UNCHANGED deviceIds

\* The id is what the file says, read back; a truncated file is an error.
ReadSalt(p) ==
  /\ drm[p].step = "read"
  /\ deviceIds' = IF saltFile \in Salts THEN deviceIds \cup {saltFile} ELSE deviceIds
  /\ drm' = [drm EXCEPT ![p] = DrmIdle]
  /\ UNCHANGED saltFile

\* The process is killed and started again.
ProcessDies(p) ==
  /\ drm[p].step # "idle"
  /\ drm' = [drm EXCEPT ![p] = DrmIdle]
  /\ UNCHANGED <<saltFile, deviceIds>>

DrmNext ==
  \E p \in Processes :
    OpenSalt(p) \/ CreateSalt(p) \/ get_system_salt(p) \/ WriteSalt(p) \/ ReadSalt(p)
      \/ ProcessDies(p)

-----------------------------------------------------------------------------
\* The id never changes, over any number of calls, crashes and full disks: GetDeviceID
\* answers only what it has read back from the file.
DeviceIdIsStable == Cardinality(deviceIds) <= 1
=============================================================================
