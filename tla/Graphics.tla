------------------------------ MODULE Graphics ------------------------------
(***************************************************************************)
(* How an image of the plugin gets to the screen: BindGraphics of          *)
(* src/ppb_instance.c, Flush of src/ppb_graphics2d.c, SwapBuffers of       *)
(* src/ppb_graphics3d.c and the expose handler of src/np_functions.c.      *)
(*                                                                         *)
(* Plugin threads flush devices; a flush of the device that is bound to    *)
(* the instance leaves its callback in the instance and asks the browser   *)
(* thread for a redraw.  The expose event that follows draws the device    *)
(* and posts a wrapper to the loop of the flushing thread; the wrapper     *)
(* takes the callback out of the instance and calls it.                    *)
(*                                                                         *)
(* pp_i->graphics, graphics_ccb and graphics_in_progress are written under *)
(* display.lock; every critical section of that lock is one step.  What    *)
(* the code reads outside the lock is read in a step of its own.           *)
(***************************************************************************)
EXTENDS Integers, Sequences, FiniteSets

CONSTANTS
  Devices2D, Devices3D,  \* handles of PPB_Graphics2D and PPB_Graphics3D resources
  PluginThreads,         \* threads that call the plugin interfaces
  MaxRequests,           \* bound: calls of Flush and SwapBuffers
  MaxBinds,              \* bound: calls of BindGraphics
  MaxRebinds,            \* bound: calls that replace or unbind a bound device
  MaxDamage              \* bound: redraws the browser does on its own

None == "none"
NullCallback == 0   \* a callback whose func is NULL
Wrapper == 0        \* in a loop: graphics_ccb_wrapper_comt
Browser == "browser"

Devices == Devices2D \cup Devices3D
Requests == 1 .. MaxRequests
Threads == PluginThreads \cup {Browser}

ASSUME DevicesAssumption == Devices2D \cap Devices3D = {} /\ None \notin Devices
ASSUME ThreadsAssumption == Browser \notin PluginThreads /\ None \notin Threads
ASSUME BoundsAssumption == {MaxRequests, MaxBinds, MaxRebinds, MaxDamage} \subseteq Nat

VARIABLES
  dev,       \* resource of a device: ref_count (0: not in the table) and lock
  created,   \* devices created so far
  own,       \* references of plugin code to each device
  graphics,  \* pp_i->graphics
  ccb,       \* pp_i->graphics_ccb
  ccb_ml,    \* pp_i->graphics_ccb_ml
  in_progress, \* pp_i->graphics_in_progress
  pc,        \* where each plugin thread is in a call
  loop,      \* message loop of each plugin thread
  tasks,     \* redraws called on the browser thread
  damaged,   \* the browser has to paint the area of the instance
  expose,    \* the expose handler of the browser thread
  req,       \* what became of each flush
  binds, rebinds, damages  \* calls so far

inst == <<graphics, ccb, ccb_ml, in_progress>>
counts == <<binds, rebinds, damages>>
vars == <<dev, created, own, inst, pc, loop, tasks, damaged, expose, req, counts>>

Idle == [at |-> "idle", dev |-> None, cb |-> NullCallback, prev |-> None]

Places == {"idle", "flush_store", "flush_draw", "flush_redraw", "flush_post",
           "swap_store", "swap_redraw", "bind_set", "bind_refs", "bind_done", "unbind_set"}

TypeOK ==
  /\ dev \in [Devices -> [refs : Nat, lock : Threads \cup {None}]]
  /\ created \subseteq Devices
  /\ own \in [Devices -> Nat]
  /\ graphics \in Devices \cup {None}
  /\ ccb \in Requests \cup {NullCallback}
  /\ ccb_ml \in PluginThreads \cup {None}
  /\ in_progress \in BOOLEAN
  /\ pc \in [PluginThreads -> [at : Places, dev : Devices \cup {None},
                               cb : Requests \cup {NullCallback}, prev : Devices \cup {None}]]
  /\ loop \in [PluginThreads -> Seq({Wrapper} \cup Requests)]
  /\ tasks \in Nat
  /\ damaged \in BOOLEAN
  /\ expose \in [at : {"idle", "as_3d", "draw"}, g2d : Devices \cup {None},
                 g3d : Devices \cup {None}]
  /\ req \in [Requests -> [dev : Devices \cup {None}, shown : BOOLEAN, called : Nat,
                           state : {"unused", "begun", "pending", "none"}]]
  /\ binds \in 0 .. MaxBinds
  /\ rebinds \in 0 .. MaxRebinds
  /\ damages \in 0 .. MaxDamage

NoExpose == [at |-> "idle", g2d |-> None, g3d |-> None]

Init ==
  /\ dev = [d \in Devices |-> [refs |-> 0, lock |-> None]]
  /\ created = {}
  /\ own = [d \in Devices |-> 0]
  /\ graphics = None
  /\ ccb = NullCallback
  /\ ccb_ml = None
  /\ in_progress = FALSE
  /\ pc = [t \in PluginThreads |-> Idle]
  /\ loop = [t \in PluginThreads |-> <<>>]
  /\ tasks = 0
  /\ damaged = FALSE
  /\ expose = NoExpose
  /\ req = [r \in Requests |-> [dev |-> None, shown |-> FALSE, called |-> 0, state |-> "unused"]]
  /\ binds = 0 /\ rebinds = 0 /\ damages = 0

-----------------------------------------------------------------------------
(* Resources of devices; PPResource models the table in detail. *)

Exists(d) == d \in Devices /\ dev[d].refs > 0

(* pp_resource_acquire(d, type) by t returns with the lock and a reference,*)
(* after spinning while another thread has the lock.                       *)
CanAcquire(d) == dev[d].lock = None
Acquired(d, t) == [dev EXCEPT ![d] = [refs |-> @.refs + 1, lock |-> t]]

(* pp_resource_unref: a handle that is not in the table is ignored. *)
Unref(ds, d) ==
  IF d \in Devices /\ ds[d].refs > 0 THEN [ds EXCEPT ![d].refs = @ - 1] ELSE ds

(* pp_resource_release unlocks whoever holds the lock. *)
Release(ds, d) ==
  IF d \in Devices /\ ds[d].refs > 0
  THEN Unref([ds EXCEPT ![d].lock = None], d)
  ELSE ds

AddRef(ds, d) == IF ds[d].refs > 0 THEN [ds EXCEPT ![d].refs = @ + 1] ELSE ds

-----------------------------------------------------------------------------
(* Plugin code *)

At(t, place) == pc[t].at = place
Goto(t, place) == pc' = [pc EXCEPT ![t].at = place]
Finish(t) == pc' = [pc EXCEPT ![t] = Idle]

(* ppb_graphics2d_create and ppb_graphics3d_create. *)
CreateDevice(t, d) ==
  /\ At(t, "idle")
  /\ d \notin created
  /\ created' = created \cup {d}
  /\ dev' = [dev EXCEPT ![d].refs = 1]
  /\ own' = [own EXCEPT ![d] = 1]
  /\ UNCHANGED <<inst, pc, loop, tasks, damaged, expose, req, counts>>

(* ppb_core_release_resource by plugin code. *)
ReleaseDevice(t, d) ==
  /\ At(t, "idle")
  /\ own[d] > 0
  /\ own' = [own EXCEPT ![d] = @ - 1]
  /\ dev' = Unref(dev, d)
  /\ UNCHANGED <<created, inst, pc, loop, tasks, damaged, expose, req, counts>>

-----------------------------------------------------------------------------
(* Flush and SwapBuffers *)

(* The next call; its callback is its number or NULL. *)
NextRequest(r) ==
  req[r].state = "unused" /\ \A q \in Requests : q < r => req[q].state # "unused"

Begin(t, d, cb, place) ==
  /\ At(t, "idle")
  /\ Exists(d)
  /\ CanAcquire(d)
  /\ dev' = Acquired(d, t)
  /\ pc' = [pc EXCEPT ![t] = [at |-> place, dev |-> d, cb |-> cb, prev |-> None]]

Mark(cb, state) == req' = IF cb = NullCallback THEN req ELSE [req EXCEPT ![cb].state = state]

BeginRequest(t, d, r, cb, place) ==
  /\ NextRequest(r)
  /\ Begin(t, d, cb, place)
  /\ req' = [req EXCEPT ![r].dev = d, ![r].state = IF cb = NullCallback THEN "none" ELSE "begun"]

ppb_graphics2d_flush(t, d, r, cb) ==
  /\ BeginRequest(t, d, r, cb, "flush_store")
  /\ UNCHANGED <<created, own, inst, loop, tasks, damaged, expose, counts>>

(* Under display.lock: one flush at a time. *)
Store(t) ==
  /\ ccb' = pc[t].cb
  /\ ccb_ml' = t
  /\ in_progress' = TRUE
  /\ UNCHANGED graphics

Refuse(t) ==
  /\ dev' = Release(dev, pc[t].dev)
  /\ Mark(pc[t].cb, "none")
  /\ Finish(t)
  /\ UNCHANGED inst

(* Mutant: the device stays locked when another flush is in progress. *)
FlushStoreKeepsLock(t) ==
  /\ At(t, "flush_store")
  /\ \/ /\ in_progress
        /\ Mark(pc[t].cb, "none")
        /\ Finish(t)
        /\ UNCHANGED <<dev, inst>>
     \/ /\ ~in_progress
        /\ IF graphics = pc[t].dev THEN Store(t) ELSE UNCHANGED inst
        /\ Goto(t, "flush_draw")
        /\ UNCHANGED <<dev, req>>
  /\ UNCHANGED <<created, own, loop, tasks, damaged, expose, counts>>

(* Mutant: a second flush replaces the callback of the first. *)
FlushStoreOverwrites(t) ==
  /\ At(t, "flush_store")
  /\ IF graphics = pc[t].dev THEN Store(t) ELSE UNCHANGED inst
  /\ Goto(t, "flush_draw")
  /\ UNCHANGED <<dev, created, own, req, loop, tasks, damaged, expose, counts>>

FlushStore(t) ==
  /\ At(t, "flush_store")
  /\ \/ in_progress /\ Refuse(t)
     \/ /\ ~in_progress
        /\ IF graphics = pc[t].dev THEN Store(t) ELSE UNCHANGED inst
        /\ Goto(t, "flush_draw")
        /\ UNCHANGED <<dev, req>>
  /\ UNCHANGED <<created, own, loop, tasks, damaged, expose, counts>>

(* Paint tasks are done and the result is copied to second_buffer. *)
FlushDraw(t) ==
  /\ At(t, "flush_draw")
  /\ dev' = Release(dev, pc[t].dev)
  /\ Goto(t, "flush_redraw")
  /\ UNCHANGED <<created, own, inst, loop, tasks, damaged, expose, req, counts>>

FlushRedraw(t) ==
  /\ At(t, "flush_redraw")
  /\ tasks' = tasks + 1
  /\ Goto(t, "flush_post")
  /\ UNCHANGED <<dev, created, own, inst, loop, damaged, expose, req, counts>>

(* Without display.lock: the callback of a device that is not bound is     *)
(* posted at once.                                                         *)
FlushPost(t) ==
  /\ At(t, "flush_post")
  /\ loop' = IF pc[t].cb # NullCallback /\ graphics # pc[t].dev
             THEN [loop EXCEPT ![t] = Append(@, pc[t].cb)]
             ELSE loop
  /\ Mark(pc[t].cb, "pending")
  /\ Finish(t)
  /\ UNCHANGED <<dev, created, own, inst, tasks, damaged, expose, counts>>

ppb_graphics3d_swap_buffers(t, d, r, cb) ==
  /\ BeginRequest(t, d, r, cb, "swap_store")
  /\ UNCHANGED <<created, own, inst, loop, tasks, damaged, expose, counts>>

(* Under display.lock, pixmap[0] is copied to pixmap[1]. *)
SwapStore(t) ==
  /\ At(t, "swap_store")
  /\ \/ (graphics # pc[t].dev \/ in_progress) /\ Refuse(t)
     \/ /\ graphics = pc[t].dev /\ ~in_progress
        /\ dev' = Release(dev, pc[t].dev)
        /\ Store(t)
        /\ Goto(t, "swap_redraw")
        /\ UNCHANGED req
  /\ UNCHANGED <<created, own, loop, tasks, damaged, expose, counts>>

(* Mutant: the browser is not told. *)
SwapWithoutRedraw(t) ==
  /\ At(t, "swap_redraw")
  /\ Mark(pc[t].cb, "pending")
  /\ Finish(t)
  /\ UNCHANGED <<dev, created, own, inst, loop, tasks, damaged, expose, counts>>

SwapRedraw(t) ==
  /\ At(t, "swap_redraw")
  /\ tasks' = tasks + 1
  /\ Mark(pc[t].cb, "pending")
  /\ Finish(t)
  /\ UNCHANGED <<dev, created, own, inst, loop, damaged, expose, counts>>

-----------------------------------------------------------------------------
(* BindGraphics *)

Rebinds == graphics # None

ppb_instance_bind_graphics(t, d) ==
  /\ binds < MaxBinds
  /\ graphics # d => rebinds < MaxRebinds \/ ~Rebinds
  /\ Begin(t, d, NullCallback, "bind_set")
  /\ binds' = binds + 1
  /\ UNCHANGED <<created, own, inst, loop, tasks, damaged, expose, req, rebinds, damages>>

(* Under display.lock; the rest of the call is not. *)
BindSet(t) ==
  /\ At(t, "bind_set")
  /\ graphics' = pc[t].dev
  /\ rebinds' = IF graphics \in {None, pc[t].dev} THEN rebinds ELSE rebinds + 1
  /\ pc' = [pc EXCEPT ![t].at = IF graphics = pc[t].dev THEN "bind_done" ELSE "bind_refs",
                      ![t].prev = graphics]
  /\ UNCHANGED <<dev, created, own, ccb, ccb_ml, in_progress, loop, tasks, damaged, expose,
                 req, binds, damages>>

(* Mutant: the instance takes no reference. *)
BindWithoutRef(t) ==
  /\ At(t, "bind_refs")
  /\ dev' = Unref(dev, pc[t].prev)
  /\ pc' = [pc EXCEPT ![t].at = "bind_done", ![t].prev = None]
  /\ UNCHANGED <<created, own, inst, loop, tasks, damaged, expose, req, counts>>

BindRefs(t) ==
  /\ At(t, "bind_refs")
  /\ dev' = Unref(AddRef(dev, pc[t].dev), pc[t].prev)
  /\ pc' = [pc EXCEPT ![t].at = "bind_done", ![t].prev = None]
  /\ UNCHANGED <<created, own, inst, loop, tasks, damaged, expose, req, counts>>

(* The area is invalidated in the browser. *)
BindDone(t) ==
  /\ At(t, "bind_done")
  /\ dev' = Release(dev, pc[t].dev)
  /\ tasks' = tasks + 1
  /\ Finish(t)
  /\ UNCHANGED <<created, own, inst, loop, damaged, expose, req, counts>>

(* BindGraphics(0): the device is released before it is unbound. *)
Unbind(t) ==
  /\ At(t, "idle")
  /\ binds < MaxBinds
  /\ Rebinds => rebinds < MaxRebinds
  /\ binds' = binds + 1
  /\ rebinds' = IF Rebinds THEN rebinds + 1 ELSE rebinds
  /\ dev' = Unref(dev, graphics)
  /\ pc' = [pc EXCEPT ![t] = [Idle EXCEPT !.at = "unbind_set", !.prev = graphics]]
  /\ UNCHANGED <<created, own, inst, loop, tasks, damaged, expose, req, damages>>

UnbindSet(t) ==
  /\ At(t, "unbind_set")
  /\ graphics' = None
  /\ Finish(t)
  /\ UNCHANGED <<dev, created, own, ccb, ccb_ml, in_progress, loop, tasks, damaged, expose,
                 req, counts>>

-----------------------------------------------------------------------------
(* The loop of a plugin thread *)

Call(r) == [req EXCEPT ![r].called = @ + 1]

graphics_ccb_wrapper_comt(t) ==
  /\ At(t, "idle")
  /\ loop[t] # <<>>
  /\ Head(loop[t]) = Wrapper
  /\ loop' = [loop EXCEPT ![t] = Tail(@)]
  /\ ccb' = NullCallback
  /\ in_progress' = FALSE
  /\ req' = IF ccb # NullCallback THEN Call(ccb) ELSE req
  /\ UNCHANGED <<dev, created, own, graphics, ccb_ml, pc, tasks, damaged, expose, counts>>

(* The callback of a device that was not bound. *)
CallUnbound(t) ==
  /\ At(t, "idle")
  /\ loop[t] # <<>>
  /\ Head(loop[t]) \in Requests
  /\ loop' = [loop EXCEPT ![t] = Tail(@)]
  /\ req' = Call(Head(loop[t]))
  /\ UNCHANGED <<dev, created, own, inst, pc, tasks, damaged, expose, counts>>

-----------------------------------------------------------------------------
(* The browser thread *)

(* Mutant: a task is run again. *)
RedrawTwice ==
  /\ expose.at = "idle"
  /\ tasks' = tasks - 1
  /\ damaged' = TRUE
  /\ UNCHANGED <<dev, created, own, inst, pc, loop, expose, req, counts>>

(* call_forceredraw_ptac, call_invalidaterect_ptac: windowless through     *)
(* NPN_InvalidateRect, windowed through an X event to the own window; what *)
(* the browser makes of it is an expose event, one for several at times.   *)
call_forceredraw_ptac ==
  /\ expose.at = "idle"
  /\ tasks > 0
  /\ tasks' = tasks - 1
  /\ damaged' = TRUE
  /\ UNCHANGED <<dev, created, own, inst, pc, loop, expose, req, counts>>

(* The page is scrolled, a window is moved away. *)
BrowserDamage ==
  /\ damages < MaxDamage
  /\ ~damaged
  /\ damaged' = TRUE
  /\ damages' = damages + 1
  /\ UNCHANGED <<dev, created, own, inst, pc, loop, tasks, expose, req, binds, rebinds>>

(* Waits for the lock of a device of this type, NULL for any other. *)
TryAcquire(devices, field) ==
  IF Exists(graphics) /\ graphics \in devices
  THEN /\ CanAcquire(graphics)
       /\ dev' = Acquired(graphics, Browser)
       /\ expose' = [expose EXCEPT ![field] = graphics, !.at = IF @ = "idle" THEN "as_3d" ELSE "draw"]
  ELSE /\ expose' = [expose EXCEPT !.at = IF @ = "idle" THEN "as_3d" ELSE "draw"]
       /\ UNCHANGED dev

(* handle_graphics_expose_event reads pp_i->graphics for each type ... *)
handle_graphics_expose_event ==
  /\ expose.at = "idle"
  /\ damaged
  /\ damaged' = FALSE
  /\ TryAcquire(Devices2D, "g2d")
  /\ UNCHANGED <<created, own, inst, pc, loop, tasks, req, counts>>

ExposeAcquire3D ==
  /\ expose.at = "as_3d"
  /\ TryAcquire(Devices3D, "g3d")
  /\ UNCHANGED <<created, own, inst, pc, loop, tasks, damaged, req, counts>>

(* What is in the buffers of d is on the screen. *)
Shown(d) ==
  [r \in Requests |-> IF req[r].dev = d /\ req[r].state # "none"
                      THEN [req[r] EXCEPT !.shown = TRUE] ELSE req[r]]

(* ... and once more, under display.lock, to release the device. *)
ExposeDraw ==
  /\ expose.at = "draw"
  /\ expose' = NoExpose
  /\ IF expose.g2d = None /\ expose.g3d = None
     THEN UNCHANGED <<dev, loop, req>>
     ELSE /\ req' = Shown(IF expose.g2d # None THEN expose.g2d ELSE expose.g3d)
          /\ dev' = Release(dev, graphics)
          /\ loop' = IF in_progress /\ ccb # NullCallback
                     THEN [loop EXCEPT ![ccb_ml] = Append(@, Wrapper)]
                     ELSE loop
  /\ UNCHANGED <<created, own, inst, pc, tasks, damaged, counts>>

-----------------------------------------------------------------------------
PluginStep(t) ==
  \/ FlushStore(t) \/ FlushDraw(t) \/ FlushRedraw(t) \/ FlushPost(t)
  \/ SwapStore(t) \/ SwapRedraw(t)
  \/ BindSet(t) \/ BindRefs(t) \/ BindDone(t) \/ UnbindSet(t)

LoopStep(t) == graphics_ccb_wrapper_comt(t) \/ CallUnbound(t)

PluginCall(t) ==
  \/ \E d \in Devices : CreateDevice(t, d) \/ ReleaseDevice(t, d) \/ ppb_instance_bind_graphics(t, d)
  \/ \E d \in Devices2D, r \in Requests : \E cb \in {r, NullCallback} :
       ppb_graphics2d_flush(t, d, r, cb)
  \/ \E d \in Devices3D, r \in Requests : \E cb \in {r, NullCallback} :
       ppb_graphics3d_swap_buffers(t, d, r, cb)
  \/ Unbind(t)

BrowserStep == handle_graphics_expose_event \/ ExposeAcquire3D \/ ExposeDraw

Next ==
  \/ \E t \in PluginThreads : PluginStep(t) \/ LoopStep(t) \/ PluginCall(t)
  \/ call_forceredraw_ptac
  \/ BrowserDamage
  \/ BrowserStep

Spec == Init /\ [][Next]_vars

(* Threads go on with what they have begun, loops run what is posted, the  *)
(* browser runs what is called on its thread and paints what is damaged.   *)
Fairness ==
  /\ \A t \in PluginThreads : WF_vars(PluginStep(t)) /\ WF_vars(LoopStep(t))
  /\ WF_vars(call_forceredraw_ptac)
  /\ WF_vars(BrowserStep)

FairSpec == Spec /\ Fairness

-----------------------------------------------------------------------------
Posted(r) ==
  Cardinality(UNION {{<<t, i>> : i \in {j \in DOMAIN loop[t] : loop[t][j] = r}} :
                     t \in PluginThreads})

(* The callback of a call that has returned PP_OK_COMPLETIONPENDING is in  *)
(* exactly one place: in the instance, posted, or called; one that was     *)
(* refused is nowhere.  FlushPost decides by a second look at              *)
(* pp_i->graphics, and the wrapper may find what another call has stored.  *)
CallbacksAreNeitherLostNorDoubled ==
  \A r \in Requests :
    LET places == (IF ccb = r THEN 1 ELSE 0) + Posted(r) + req[r].called
    IN /\ req[r].state = "pending" => places = 1
       /\ req[r].state = "none" => places = 0
       /\ places <= 1

(* A device is locked only by a thread that is inside an operation on it:  *)
(* no early return leaves a device that nobody can acquire again.          *)
NoLockIsLeftBehind ==
  \A d \in Devices :
    /\ dev[d].lock \in PluginThreads =>
         /\ pc[dev[d].lock].dev = d
         /\ pc[dev[d].lock].at \in {"flush_store", "flush_draw", "swap_store",
                                    "bind_set", "bind_refs", "bind_done"}
    /\ dev[d].lock = Browser => d \in {expose.g2d, expose.g3d}

(* References of the instance to d: the one for pp_i->graphics, less what  *)
(* a call of BindGraphics has yet to take, plus what it has yet to drop.   *)
InstanceRefs(d) ==
  (IF graphics = d THEN 1 ELSE 0)
  + Cardinality({t \in PluginThreads : At(t, "bind_refs") /\ pc[t].prev = d})
  - Cardinality({t \in PluginThreads :
                   \/ At(t, "bind_refs") /\ pc[t].dev = d
                   \/ At(t, "unbind_set") /\ pc[t].prev = d})

(* "On success, a reference to the device will be held by the instance"    *)
(* (PPB_Instance.BindGraphics), and by nobody else than plugin code and    *)
(* operations in progress: devices are neither freed while bound nor kept  *)
(* for ever.                                                               *)
DeviceRefsAreExact ==
  \A d \in Devices :
    dev[d].refs = own[d] + InstanceRefs(d) + (IF dev[d].lock # None THEN 1 ELSE 0)

(* A callback that waits for the screen is called when the image it was    *)
(* given for has been painted: "to be called when the image has been       *)
(* painted on the screen" (PPB_Graphics2D.Flush).                          *)
CalledWhenPainted ==
  [][\A r \in Requests : ccb = r /\ req'[r].called > req[r].called => req[r].shown]_vars

(* Whoever was told to wait for a callback gets it. *)
EveryRequestCompletes ==
  \A r \in Requests : req[r].state = "pending" ~> req[r].called > 0

\* Every way through Flush, SwapBuffers, BindGraphics and the expose handler releases what
\* it has acquired: no lock and no reference of a device is left behind.
DevicesAreReleased == TypeOK /\ NoLockIsLeftBehind /\ DeviceRefsAreExact

=============================================================================
