--------------------------- MODULE Graphics_proofs ---------------------------
(***************************************************************************)
(* Flush, SwapBuffers, BindGraphics and the expose handler, for any        *)
(* devices, any number of calls and of redraws: locks and references of    *)
(* devices are released, and no callback is lost or called twice, if one   *)
(* thread calls the plugin interfaces and a bound device is not replaced.  *)
(***************************************************************************)
EXTENDS Graphics, SequenceTheorems, FiniteSetTheorems, TLAPS

(* The thread of the plugin, and where it is. *)
Main == CHOOSE t : PluginThreads = {t}
p == pc[Main]

(* What the results assume of the plugin. *)
PlainPlugin == PluginThreads = {Main} /\ MaxRebinds = 0

-----------------------------------------------------------------------------
(* The inductive invariant *)

Locking == {"flush_store", "flush_draw", "swap_store", "bind_set", "bind_refs", "bind_done"}
Asking == {"flush_store", "flush_draw", "flush_redraw", "flush_post", "swap_store", "swap_redraw"}
AfterStore == {"flush_draw", "flush_redraw", "flush_post", "swap_redraw"}

(* Where the thread is in a call, and what it binds. *)
Place ==
  /\ p.at = "idle" => p.dev = None /\ p.cb = NullCallback /\ p.prev = None
  /\ p.at \in Locking \cup AfterStore => p.dev \in created
  /\ p.at = "bind_set" => graphics \in {None, p.dev}
  /\ p.at = "bind_refs" => graphics = p.dev /\ p.prev = None
  /\ p.at = "unbind_set" => graphics = None /\ p.prev = None
  /\ graphics \in created \cup {None}

(* Who has the lock of a device is inside an operation on it. *)
Locks ==
  \A d \in Devices :
    /\ (dev[d].lock = Main <=> p.dev = d /\ p.at \in Locking)
    /\ (dev[d].lock = Browser <=> expose.g2d = d \/ expose.g3d = d)

(* The expose handler has acquired nothing but the bound device. *)
Exposing ==
  /\ expose.g2d \in {None, graphics} /\ expose.g3d \in {None, graphics}
  /\ expose.g2d \in Devices2D \cup {None} /\ expose.g3d \in Devices3D \cup {None}
  /\ expose.at = "idle" => expose.g2d = None /\ expose.g3d = None
  /\ expose.at = "as_3d" => expose.g3d = None

(* The instance has a reference to d. *)
Bound(d) == graphics = d /\ p.at # "bind_refs"
One(b) == IF b THEN 1 ELSE 0

Refs ==
  \A d \in Devices :
    /\ dev[d].refs = own[d] + One(Bound(d)) + One(dev[d].lock # None)
    /\ d \notin created => own[d] = 0

OnLoop(r) == \E j \in DOMAIN loop[Main] : loop[Main][j] = r
OnceOnLoop ==
  \A j, k \in DOMAIN loop[Main] : loop[Main][j] = loop[Main][k] /\ loop[Main][j] # Wrapper => j = k

(* Where the callbacks are: those of calls that have returned are stored,  *)
(* posted or called; that of a call under way is stored if its device is   *)
(* the bound one.                                                          *)
Callbacks ==
  /\ \A r \in Requests :
       /\ ccb = r => req[r].state \in {"begun", "pending"} /\ ~OnLoop(r) /\ req[r].called = 0
       /\ OnLoop(r) => req[r].state = "pending" /\ req[r].called = 0
       /\ req[r].called <= 1
       /\ req[r].called > 0 => req[r].state = "pending"
       /\ req[r].state = "pending" => ccb = r \/ OnLoop(r) \/ req[r].called > 0
       /\ (req[r].state = "begun" <=> p.cb = r)
  /\ OnceOnLoop
  /\ p.cb # NullCallback => p.at \in Asking
  /\ p.cb # NullCallback /\ p.at \in AfterStore => (ccb = p.cb <=> graphics = p.dev)
  /\ p.cb # NullCallback /\ p.at \notin AfterStore => ccb # p.cb
  /\ ~in_progress => ccb = NullCallback
  /\ p.at = "swap_redraw" => graphics = p.dev

GraphicsInv == TypeOK /\ Place /\ Locks /\ Exposing /\ Refs /\ Callbacks

-----------------------------------------------------------------------------
(* Types and names *)

DevRecs == [refs : Nat, lock : Threads \cup {None}]
CallRecs ==
  [at : Places, dev : Devices \cup {None}, cb : Requests \cup {NullCallback},
   prev : Devices \cup {None}]
ExposeRecs == [at : {"idle", "as_3d", "draw"}, g2d : Devices \cup {None}, g3d : Devices \cup {None}]
ReqRecs ==
  [dev : Devices \cup {None}, shown : BOOLEAN, called : Nat,
   state : {"unused", "begun", "pending", "none"}]
LoopItems == {Wrapper} \cup Requests

LEMMA Names ==
  ASSUME PlainPlugin
  PROVE  /\ Main \in PluginThreads /\ Main \in Threads /\ Main # Browser /\ Main # None
         /\ Browser # None /\ Browser \in Threads
         /\ \A t \in PluginThreads : t = Main
         /\ None \notin Devices /\ Devices2D \subseteq Devices /\ Devices3D \subseteq Devices
         /\ Devices2D \cap Devices3D = {}
         /\ NullCallback \notin Requests /\ NullCallback = Wrapper /\ Requests \subseteq Nat
<1>1. PluginThreads = {Main}
  BY DEF PlainPlugin
<1>2. NullCallback \notin Requests /\ NullCallback = Wrapper /\ Requests \subseteq Nat
  BY BoundsAssumption DEF NullCallback, Wrapper, Requests
<1>3. Browser # None
  BY DEF Browser, None
<1>. QED
  BY <1>1, <1>2, <1>3, DevicesAssumption, ThreadsAssumption DEF Threads, Devices

LEMMA TypeParts ==
  TypeOK <=> /\ dev \in [Devices -> DevRecs]
             /\ created \subseteq Devices
             /\ own \in [Devices -> Nat]
             /\ graphics \in Devices \cup {None}
             /\ ccb \in Requests \cup {NullCallback}
             /\ ccb_ml \in PluginThreads \cup {None}
             /\ in_progress \in BOOLEAN
             /\ pc \in [PluginThreads -> CallRecs]
             /\ loop \in [PluginThreads -> Seq(LoopItems)]
             /\ tasks \in Nat
             /\ damaged \in BOOLEAN
             /\ expose \in ExposeRecs
             /\ req \in [Requests -> ReqRecs]
             /\ binds \in 0 .. MaxBinds
             /\ rebinds \in 0 .. MaxRebinds
             /\ damages \in 0 .. MaxDamage
BY DEF TypeOK, DevRecs, CallRecs, ExposeRecs, ReqRecs, LoopItems

LEMMA TypeNext ==
  ASSUME dev' \in [Devices -> DevRecs], created' \subseteq Devices, own' \in [Devices -> Nat],
         graphics' \in Devices \cup {None}, ccb' \in Requests \cup {NullCallback},
         ccb_ml' \in PluginThreads \cup {None}, in_progress' \in BOOLEAN,
         pc' \in [PluginThreads -> CallRecs], loop' \in [PluginThreads -> Seq(LoopItems)],
         tasks' \in Nat, damaged' \in BOOLEAN, expose' \in ExposeRecs,
         req' \in [Requests -> ReqRecs],
         binds' \in 0 .. MaxBinds, rebinds' \in 0 .. MaxRebinds, damages' \in 0 .. MaxDamage
  PROVE  TypeOK'
BY DEF TypeOK, DevRecs, CallRecs, ExposeRecs, ReqRecs, LoopItems

(* The types of what an invariant reads. *)
LEMMA Types ==
  ASSUME PlainPlugin, TypeOK
  PROVE  /\ \A d \in Devices : /\ dev[d].refs \in Nat /\ dev[d].lock \in {Main, Browser, None}
                               /\ own[d] \in Nat
         /\ p \in CallRecs
         /\ p.at \in Places /\ p.dev \in Devices \cup {None} /\ p.prev \in Devices \cup {None}
         /\ p.cb \in Requests \cup {NullCallback}
         /\ expose.at \in {"idle", "as_3d", "draw"}
         /\ expose.g2d \in Devices \cup {None} /\ expose.g3d \in Devices \cup {None}
         /\ \A r \in Requests : /\ req[r].state \in {"unused", "begun", "pending", "none"}
                                /\ req[r].called \in Nat
         /\ loop[Main] \in Seq(LoopItems)
         /\ created \subseteq Devices
         /\ graphics \in Devices \cup {None} /\ ccb \in Requests \cup {NullCallback}
         /\ in_progress \in BOOLEAN
<1>1. Main \in PluginThreads /\ Threads \cup {None} = {Main, Browser, None}
  BY Names DEF Threads
<1>2. ASSUME NEW d \in Devices PROVE dev[d].refs \in Nat /\ dev[d].lock \in {Main, Browser, None}
                                     /\ own[d] \in Nat
  <2>1. dev[d] \in DevRecs /\ own[d] \in Nat
    BY TypeParts
  <2>. QED
    BY <1>1, <2>1 DEF DevRecs
<1>3. p \in CallRecs
  BY <1>1, TypeParts DEF p
<1>4. p.at \in Places /\ p.dev \in Devices \cup {None} /\ p.prev \in Devices \cup {None}
      /\ p.cb \in Requests \cup {NullCallback}
  BY <1>3 DEF CallRecs
<1>5. /\ expose.at \in {"idle", "as_3d", "draw"}
      /\ expose.g2d \in Devices \cup {None} /\ expose.g3d \in Devices \cup {None}
  BY TypeParts DEF ExposeRecs
<1>6. ASSUME NEW r \in Requests PROVE req[r].state \in {"unused", "begun", "pending", "none"}
                                      /\ req[r].called \in Nat
  <2>1. req[r] \in ReqRecs
    BY TypeParts
  <2>. QED
    BY <2>1 DEF ReqRecs
<1>7. /\ loop[Main] \in Seq(LoopItems)
      /\ created \subseteq Devices
      /\ graphics \in Devices \cup {None} /\ ccb \in Requests \cup {NullCallback}
      /\ in_progress \in BOOLEAN
  BY <1>1, TypeParts
<1>. QED
  BY <1>2, <1>3, <1>4, <1>5, <1>6, <1>7

-----------------------------------------------------------------------------
(* What the operators of the model do *)

(* A lock is taken with a reference. *)
LEMMA AcquiredEffect ==
  ASSUME dev \in [Devices -> DevRecs], NEW d \in Devices, NEW t \in Threads,
         dev' = Acquired(d, t)
  PROVE  /\ dev' \in [Devices -> DevRecs]
         /\ dev'[d].refs = dev[d].refs + 1 /\ dev'[d].lock = t
         /\ \A e \in Devices : e # d => dev'[e] = dev[e]
<1>1. dev[d].refs \in Nat
  BY DEF DevRecs
<1>. QED
  BY <1>1 DEF Acquired, DevRecs

(* Both are given back. *)
LEMMA ReleasedEffect ==
  ASSUME dev \in [Devices -> DevRecs], NEW d \in Devices, dev[d].refs > 0, dev' = Release(dev, d)
  PROVE  /\ dev' \in [Devices -> DevRecs]
         /\ dev'[d].refs = dev[d].refs - 1 /\ dev'[d].lock = None
         /\ \A e \in Devices : e # d => dev'[e] = dev[e]
<1>. PICK u : u = [dev EXCEPT ![d].lock = None]
  OBVIOUS
<1>1. dev[d].refs \in Nat /\ dev[d].refs - 1 \in Nat
  BY DEF DevRecs
<1>2. /\ u \in [Devices -> DevRecs] /\ u[d].lock = None /\ u[d].refs = dev[d].refs
      /\ \A e \in Devices : e # d => u[e] = dev[e]
  BY <1>1 DEF DevRecs
<1>3. dev' = [u EXCEPT ![d].refs = @ - 1]
  BY <1>2 DEF Release, Unref
<1>. QED
  BY <1>1, <1>2, <1>3 DEF DevRecs

LEMMA UnrefEffect ==
  ASSUME dev \in [Devices -> DevRecs], NEW d \in Devices, dev[d].refs > 0, dev' = Unref(dev, d)
  PROVE  /\ dev' \in [Devices -> DevRecs]
         /\ dev'[d].refs = dev[d].refs - 1 /\ dev'[d].lock = dev[d].lock
         /\ \A e \in Devices : e # d => dev'[e] = dev[e]
<1>1. dev[d].refs \in Nat /\ dev[d].refs - 1 \in Nat
  BY DEF DevRecs
<1>. QED
  BY <1>1 DEF Unref, DevRecs

LEMMA AddRefEffect ==
  ASSUME dev \in [Devices -> DevRecs], NEW d \in Devices, dev[d].refs > 0, dev' = AddRef(dev, d)
  PROVE  /\ dev' \in [Devices -> DevRecs]
         /\ dev'[d].refs = dev[d].refs + 1 /\ dev'[d].lock = dev[d].lock
         /\ \A e \in Devices : e # d => dev'[e] = dev[e]
<1>1. dev[d].refs \in Nat /\ dev[d].refs + 1 \in Nat
  BY DEF DevRecs
<1>. QED
  BY <1>1 DEF AddRef, DevRecs

(* The thread goes on in its call, or ends it. *)
LEMMA GotoEffect ==
  ASSUME PlainPlugin, pc \in [PluginThreads -> CallRecs], NEW place \in Places, Goto(Main, place)
  PROVE  /\ pc' \in [PluginThreads -> CallRecs]
         /\ p'.at = place /\ p'.dev = p.dev /\ p'.cb = p.cb /\ p'.prev = p.prev
<1>1. Main \in PluginThreads /\ pc[Main] \in CallRecs
  BY Names
<1>. QED
  BY <1>1 DEF Goto, p, CallRecs

LEMMA FinishEffect ==
  ASSUME PlainPlugin, pc \in [PluginThreads -> CallRecs], Finish(Main)
  PROVE  /\ pc' \in [PluginThreads -> CallRecs]
         /\ p'.at = "idle" /\ p'.dev = None /\ p'.cb = NullCallback /\ p'.prev = None
<1>1. Main \in PluginThreads
  BY Names
<1>2. Idle \in CallRecs
  BY DEF Idle, CallRecs, Places
<1>. QED
  BY <1>1, <1>2 DEF Finish, p, Idle

LEMMA EnterEffect ==
  ASSUME PlainPlugin, pc \in [PluginThreads -> CallRecs], NEW c \in CallRecs,
         pc' = [pc EXCEPT ![Main] = c]
  PROVE  pc' \in [PluginThreads -> CallRecs] /\ p' = c
<1>1. Main \in PluginThreads
  BY Names
<1>. QED
  BY <1>1 DEF p

(* The state of a request is noted. *)
LEMMA MarkEffect ==
  ASSUME PlainPlugin, req \in [Requests -> ReqRecs], NEW cb \in Requests \cup {NullCallback},
         NEW state \in {"unused", "begun", "pending", "none"}, Mark(cb, state)
  PROVE  /\ req' \in [Requests -> ReqRecs]
         /\ \A r \in Requests : /\ req'[r].called = req[r].called
                                /\ r = cb => req'[r].state = state
                                /\ r # cb => req'[r].state = req[r].state
<1>1. CASE cb = NullCallback
  BY <1>1, Names DEF Mark
<1>2. CASE cb # NullCallback
  BY <1>2 DEF Mark, ReqRecs
<1>. QED
  BY <1>1, <1>2

LEMMA CallEffect ==
  ASSUME req \in [Requests -> ReqRecs], NEW r \in Requests, req' = Call(r)
  PROVE  /\ req' \in [Requests -> ReqRecs]
         /\ req'[r].called = req[r].called + 1
         /\ \A q \in Requests : /\ req'[q].state = req[q].state
                                /\ q # r => req'[q].called = req[q].called
<1>1. req[r].called \in Nat
  BY DEF ReqRecs
<1>. QED
  BY <1>1 DEF Call, ReqRecs

LEMMA ShownEffect ==
  ASSUME req \in [Requests -> ReqRecs], NEW d, req' = Shown(d)
  PROVE  /\ req' \in [Requests -> ReqRecs]
         /\ \A q \in Requests : req'[q].state = req[q].state /\ req'[q].called = req[q].called
<1>1. ASSUME NEW q \in Requests
      PROVE  /\ req'[q] \in ReqRecs
             /\ req'[q].state = req[q].state /\ req'[q].called = req[q].called
  <2>1. req'[q] = req[q] \/ req'[q] = [req[q] EXCEPT !.shown = TRUE]
    BY DEF Shown
  <2>2. req[q] \in ReqRecs
    OBVIOUS
  <2>. QED
    BY <2>1, <2>2 DEF ReqRecs
<1>2. req' = [q \in Requests |-> req'[q]]
  BY DEF Shown
<1>. QED
  BY <1>1, <1>2

(* Something is posted to the loop of the thread. *)
LEMMA PostedEffect ==
  ASSUME PlainPlugin, loop \in [PluginThreads -> Seq(LoopItems)], NEW c \in LoopItems,
         loop' = [loop EXCEPT ![Main] = Append(@, c)]
  PROVE  /\ loop' \in [PluginThreads -> Seq(LoopItems)]
         /\ \A r \in Requests : (OnLoop(r)' <=> OnLoop(r) \/ r = c)
         /\ OnceOnLoop /\ (c = Wrapper \/ ~OnLoop(c)) => OnceOnLoop'
<1>. PICK s \in Seq(LoopItems) : s = loop[Main]
  BY Names
<1>. PICK n : n = Len(s) + 1
  OBVIOUS
<1>1. Append(s, c) \in Seq(LoopItems)
  BY AppendProperties
<1>2. loop' \in [PluginThreads -> Seq(LoopItems)] /\ loop'[Main] = Append(s, c)
  BY <1>1, Names
<1>3. /\ DOMAIN loop'[Main] = DOMAIN s \cup {n} /\ n \notin DOMAIN s
      /\ \A j \in DOMAIN s : loop'[Main][j] = s[j]
      /\ loop'[Main][n] = c
  BY <1>2, AppendProperties, LenProperties
<1>4. \A r \in Requests : (OnLoop(r)' <=> OnLoop(r) \/ r = c)
  BY <1>3 DEF OnLoop
<1>5. OnceOnLoop /\ (c = Wrapper \/ ~OnLoop(c)) => OnceOnLoop'
  BY <1>3 DEF OnceOnLoop, OnLoop
<1>. QED
  BY <1>2, <1>4, <1>5

(* The loop takes its first item. *)
LEMMA TakenEffect ==
  ASSUME PlainPlugin, loop \in [PluginThreads -> Seq(LoopItems)], loop[Main] # << >>,
         OnceOnLoop, loop' = [loop EXCEPT ![Main] = Tail(@)]
  PROVE  /\ loop' \in [PluginThreads -> Seq(LoopItems)]
         /\ \A r \in Requests : (OnLoop(r)' <=> OnLoop(r) /\ r # Head(loop[Main]))
         /\ Head(loop[Main]) \in Requests => OnLoop(Head(loop[Main]))
         /\ OnceOnLoop'
<1>. PICK s \in Seq(LoopItems) : s = loop[Main]
  BY Names
<1>1. Len(s) \in Nat /\ DOMAIN s = 1 .. Len(s) /\ Len(s) > 0
  BY LenProperties, EmptySeq
<1>2. Tail(s) \in Seq(LoopItems) /\ Len(Tail(s)) = Len(s) - 1
      /\ \A j \in 1 .. Len(s) - 1 : Tail(s)[j] = s[j + 1]
  BY <1>1, HeadTailProperties
<1>3. DOMAIN Tail(s) = 1 .. Len(s) - 1
  BY <1>1, <1>2, LenProperties
<1>4. Head(s) = s[1]
  OBVIOUS
<1>. PICK u : u = loop'[Main]
  OBVIOUS
<1>5. loop' \in [PluginThreads -> Seq(LoopItems)] /\ u = Tail(s)
  BY <1>2, Names
<1>6. /\ 1 \in DOMAIN s
      /\ \A j \in DOMAIN u : j \in Nat /\ j + 1 \in DOMAIN s /\ j + 1 # 1 /\ u[j] = s[j + 1]
      /\ \A j \in DOMAIN s : j \in Nat /\ (j = 1 \/ (j > 1 /\ j - 1 \in DOMAIN u /\ u[j - 1] = s[j]))
  BY <1>1, <1>2, <1>3, <1>5
<1>7. \A j, k \in DOMAIN s : s[j] = s[k] /\ s[j] # Wrapper => j = k
  BY DEF OnceOnLoop
<1>8. ASSUME NEW r \in Requests PROVE OnLoop(r)' <=> OnLoop(r) /\ r # Head(loop[Main])
  <2>0. r # Wrapper
    BY Names
  <2>1. ASSUME OnLoop(r)' PROVE OnLoop(r) /\ r # Head(loop[Main])
    <3>1. PICK j \in DOMAIN u : u[j] = r
      BY <2>1 DEF OnLoop
    <3>2. j + 1 \in DOMAIN s /\ j + 1 # 1 /\ s[j + 1] = r
      BY <3>1, <1>6
    <3>. QED
      BY <3>2, <1>4, <1>6, <1>7, <2>0 DEF OnLoop
  <2>2. ASSUME OnLoop(r), r # Head(loop[Main]) PROVE OnLoop(r)'
    <3>1. PICK j \in DOMAIN s : s[j] = r
      BY <2>2 DEF OnLoop
    <3>2. j - 1 \in DOMAIN u /\ u[j - 1] = r
      BY <3>1, <2>2, <1>4, <1>6
    <3>. QED
      BY <3>2 DEF OnLoop
  <2>. QED
    BY <2>1, <2>2
<1>9. Head(loop[Main]) \in Requests => OnLoop(Head(loop[Main]))
  BY <1>4, <1>6 DEF OnLoop
<1>10. OnceOnLoop'
  <2>. SUFFICES ASSUME NEW j \in DOMAIN u, NEW k \in DOMAIN u, u[j] = u[k], u[j] # Wrapper
                PROVE  j = k
    BY DEF OnceOnLoop
  <2>1. j + 1 = k + 1
    BY <1>6, <1>7
  <2>. QED
    BY <2>1, <1>6
<1>. QED
  BY <1>5, <1>8, <1>9, <1>10

LEMMA LoopSame ==
  ASSUME loop' = loop
  PROVE  (\A r \in Requests : (OnLoop(r)' <=> OnLoop(r))) /\ (OnceOnLoop => OnceOnLoop')
BY DEF OnLoop, OnceOnLoop

-----------------------------------------------------------------------------
(* Parts of the invariant that several steps keep *)

(* No device, no binding and no lock changes. *)
LEMMA SameDevices ==
  ASSUME PlainPlugin, GraphicsInv,
         dev' = dev, created' = created, own' = own, graphics' = graphics, expose' = expose,
         p.at # "bind_refs", p'.at # "bind_refs",
         \A d \in Devices : (p'.dev = d /\ p'.at \in Locking <=> p.dev = d /\ p.at \in Locking)
  PROVE  Locks' /\ Exposing' /\ Refs'
<1>1. Locks' /\ Exposing'
  BY DEF GraphicsInv, Locks, Exposing
<1>2. \A d \in Devices : (Bound(d)' <=> Bound(d))
  BY DEF Bound
<1>3. Refs'
  BY <1>2 DEF GraphicsInv, Refs, One
<1>. QED
  BY <1>1, <1>3

(* The thread releases the device it works on. *)
LEMMA ReleasedDevices ==
  ASSUME PlainPlugin, GraphicsInv, p.at \in Locking, p.at # "bind_refs", dev' = Release(dev, p.dev),
         created' = created, own' = own, graphics' = graphics, expose' = expose,
         p'.at \notin Locking
  PROVE  dev' \in [Devices -> DevRecs] /\ Locks' /\ Exposing' /\ Refs'
<1>0. p'.at # "bind_refs"
  BY DEF Locking
<1>1. p.dev \in Devices
  BY Types, Names DEF GraphicsInv, Place
<1>. PICK d \in Devices : d = p.dev
  BY <1>1
<1>2. dev[d].lock = Main /\ dev[d].refs \in Nat /\ own[d] \in Nat
  BY Types DEF GraphicsInv, Locks
<1>3. dev[d].refs = own[d] + One(Bound(d)) + 1
  BY <1>2, Names DEF GraphicsInv, Refs, One
<1>4. dev[d].refs > 0
  BY <1>2, <1>3 DEF One
<1>5. /\ dev' \in [Devices -> DevRecs]
      /\ dev'[d].refs = dev[d].refs - 1 /\ dev'[d].lock = None
      /\ \A e \in Devices : e # d => dev'[e] = dev[e]
  BY <1>4, ReleasedEffect, TypeParts DEF GraphicsInv
<1>6. \A e \in Devices : (Bound(e)' <=> Bound(e))
  BY <1>0 DEF Bound
<1>7. Locks'
  BY <1>2, <1>5, Names DEF GraphicsInv, Locks
<1>8. Exposing'
  BY DEF GraphicsInv, Exposing
<1>9. Refs'
  <2>1. dev'[d].refs = own'[d] + One(Bound(d)') + One(dev'[d].lock # None)
    BY <1>2, <1>3, <1>5, <1>6 DEF One
  <2>2. \A e \in Devices : e # d => dev'[e].refs = own'[e] + One(Bound(e)') + One(dev'[e].lock # None)
    BY <1>5, <1>6 DEF GraphicsInv, Refs, One
  <2>. QED
    BY <2>1, <2>2 DEF GraphicsInv, Refs
<1>. QED
  BY <1>5, <1>7, <1>8, <1>9

(* A thread that is idle takes the lock of d. *)
LEMMA BegunDevices ==
  ASSUME PlainPlugin, GraphicsInv, NEW d \in Devices, NEW cb \in Requests \cup {NullCallback},
         NEW place \in {"flush_store", "swap_store", "bind_set"}, Begin(Main, d, cb, place),
         created' = created, own' = own, graphics' = graphics, expose' = expose
  PROVE  /\ dev' \in [Devices -> DevRecs] /\ pc' \in [PluginThreads -> CallRecs]
         /\ p.at = "idle" /\ p.cb = NullCallback
         /\ p'.at = place /\ p'.dev = d /\ p'.cb = cb /\ p'.prev = None
         /\ d \in created
         /\ Locks' /\ Exposing' /\ Refs'
<1>1. p.at = "idle" /\ dev[d].refs > 0 /\ dev[d].lock = None /\ dev' = Acquired(d, Main)
      /\ pc' = [pc EXCEPT ![Main] = [at |-> place, dev |-> d, cb |-> cb, prev |-> None]]
  BY DEF Begin, At, p, Exists, CanAcquire
<1>2. p.cb = NullCallback /\ p.dev = None
  BY <1>1 DEF GraphicsInv, Place
<1>3. pc' \in [PluginThreads -> CallRecs]
      /\ p'.at = place /\ p'.dev = d /\ p'.cb = cb /\ p'.prev = None
  <2>. PICK c : c = [at |-> place, dev |-> d, cb |-> cb, prev |-> None]
    OBVIOUS
  <2>1. c \in CallRecs /\ c.at = place /\ c.dev = d /\ c.cb = cb /\ c.prev = None
    BY DEF CallRecs, Places
  <2>2. p' = c /\ pc' \in [PluginThreads -> CallRecs]
    BY <1>1, <2>1, EnterEffect, TypeParts DEF GraphicsInv
  <2>. QED
    BY <2>1, <2>2
<1>4. /\ dev' \in [Devices -> DevRecs]
      /\ dev'[d].refs = dev[d].refs + 1 /\ dev'[d].lock = Main
      /\ \A e \in Devices : e # d => dev'[e] = dev[e]
  BY <1>1, Names, AcquiredEffect, TypeParts DEF GraphicsInv
<1>5. \A e \in Devices : (Bound(e)' <=> Bound(e))
  BY <1>1, <1>3 DEF Bound
<1>6. d \in created
  <2>. SUFFICES ASSUME d \notin created PROVE FALSE
    OBVIOUS
  <2>1. own[d] = 0 /\ ~Bound(d)
    BY Names DEF GraphicsInv, Refs, Place, Bound
  <2>. QED
    BY <1>1, <2>1 DEF GraphicsInv, Refs, One
<1>7. Locks'
  <2>1. place \in Locking /\ "idle" \notin Locking
    BY DEF Locking
  <2>. QED
    BY <1>1, <1>2, <1>3, <1>4, <2>1, Names DEF GraphicsInv, Locks
<1>8. Exposing'
  BY DEF GraphicsInv, Exposing
<1>9. Refs'
  <2>0. dev[d].refs \in Nat /\ own[d] \in Nat
    BY Types DEF GraphicsInv
  <2>1. dev'[d].refs = own'[d] + One(Bound(d)') + One(dev'[d].lock # None)
    BY <1>1, <1>4, <1>5, <2>0, Names DEF GraphicsInv, Refs, One
  <2>2. \A e \in Devices : e # d => dev'[e].refs = own'[e] + One(Bound(e)') + One(dev'[e].lock # None)
    BY <1>4, <1>5 DEF GraphicsInv, Refs, One
  <2>. QED
    BY <2>1, <2>2 DEF GraphicsInv, Refs
<1>. QED
  BY <1>1, <1>2, <1>3, <1>4, <1>6, <1>7, <1>8, <1>9

(* No callback moves, and the thread makes no call with one. *)
LEMMA SameCallbacks ==
  ASSUME PlainPlugin, GraphicsInv, ccb' = ccb, in_progress' = in_progress,
         \A r \in Requests : req'[r].state = req[r].state /\ req'[r].called = req[r].called,
         \A r \in Requests : (OnLoop(r)' <=> OnLoop(r)), OnceOnLoop',
         \/ p'.cb = NullCallback /\ p.cb = NullCallback /\ p'.at # "swap_redraw"
         \/ p'.cb = p.cb /\ p'.dev = p.dev /\ p'.at = p.at /\ graphics' = graphics
         \/ /\ p'.cb = p.cb /\ p'.dev = p.dev /\ graphics' = graphics
            /\ p.at \in AfterStore /\ p'.at \in AfterStore \ {"swap_redraw"}
  PROVE  Callbacks'
<1>1. \A r \in Requests : (req'[r].state = "begun" <=> p'.cb = r)
  BY Names DEF GraphicsInv, Callbacks
<1>2. AfterStore \subseteq Asking
  BY DEF AfterStore, Asking
<1>3. CASE p'.cb = NullCallback /\ p.cb = NullCallback /\ p'.at # "swap_redraw"
  BY <1>1, <1>3 DEF GraphicsInv, Callbacks
<1>4. CASE p'.cb = p.cb /\ p'.dev = p.dev /\ p'.at = p.at /\ graphics' = graphics
  BY <1>1, <1>4 DEF GraphicsInv, Callbacks
<1>5. CASE /\ p'.cb = p.cb /\ p'.dev = p.dev /\ graphics' = graphics
           /\ p.at \in AfterStore /\ p'.at \in AfterStore \ {"swap_redraw"}
  BY <1>1, <1>2, <1>5 DEF GraphicsInv, Callbacks
<1>. QED
  BY <1>3, <1>4, <1>5

-----------------------------------------------------------------------------
(* Steps *)

LEMMA GraphicsInvInit == PlainPlugin /\ Init => GraphicsInv
<1>. SUFFICES ASSUME PlainPlugin, Init PROVE GraphicsInv
  OBVIOUS
<1>1. TypeOK
  <2>1. << >> \in Seq({Wrapper} \cup Requests)
    BY EmptySeq
  <2>2. 0 \in 0 .. MaxBinds /\ 0 \in 0 .. MaxRebinds /\ 0 \in 0 .. MaxDamage
    BY BoundsAssumption
  <2>. QED
    BY <2>1, <2>2 DEF Init, TypeOK, Idle, NoExpose, Places
<1>2. /\ p.at = "idle" /\ p.dev = None /\ p.cb = NullCallback /\ p.prev = None
      /\ loop[Main] = << >>
  BY Names DEF Init, p, Idle
<1>3. /\ graphics = None /\ ccb = NullCallback /\ created = {}
      /\ expose.at = "idle" /\ expose.g2d = None /\ expose.g3d = None
      /\ \A d \in Devices : dev[d].refs = 0 /\ dev[d].lock = None /\ own[d] = 0
      /\ \A r \in Requests : req[r].called = 0 /\ req[r].state = "unused"
  BY DEF Init, NoExpose
<1>4. Place
  BY <1>2, <1>3 DEF Place, Locking, AfterStore
<1>5. Locks /\ Exposing
  BY <1>2, <1>3, Names DEF Locks, Exposing
<1>6. Refs
  BY <1>3, Names DEF Refs, One, Bound
<1>7. OnceOnLoop /\ \A r \in Requests : ~OnLoop(r)
  BY <1>2 DEF OnceOnLoop, OnLoop
<1>8. Callbacks
  BY <1>2, <1>3, <1>7, Names DEF Callbacks
<1>. QED
  BY <1>1, <1>4, <1>5, <1>6, <1>8 DEF GraphicsInv

LEMMA CreateKeeps ==
  ASSUME PlainPlugin, GraphicsInv, NEW d \in Devices, CreateDevice(Main, d)
  PROVE  GraphicsInv'
<1>1. /\ p.at = "idle" /\ d \notin created /\ created' = created \cup {d}
      /\ UNCHANGED <<inst, pc, loop, tasks, damaged, expose, req, counts>>
  BY DEF CreateDevice, At, p
<1>2. /\ graphics' = graphics /\ ccb' = ccb /\ ccb_ml' = ccb_ml /\ in_progress' = in_progress
      /\ pc' = pc /\ p' = p /\ loop' = loop /\ tasks' = tasks /\ damaged' = damaged
      /\ expose' = expose /\ req' = req /\ binds' = binds /\ rebinds' = rebinds
      /\ damages' = damages
  BY <1>1 DEF inst, counts, p
<1>3. /\ dev' \in [Devices -> DevRecs] /\ dev'[d].refs = 1 /\ dev'[d].lock = dev[d].lock
      /\ \A e \in Devices : e # d => dev'[e] = dev[e]
  <2>1. dev \in [Devices -> DevRecs] /\ dev' = [dev EXCEPT ![d].refs = 1]
    BY TypeParts DEF CreateDevice, GraphicsInv
  <2>. QED
    BY <2>1 DEF DevRecs
<1>4. own' \in [Devices -> Nat] /\ own'[d] = 1 /\ \A e \in Devices : e # d => own'[e] = own[e]
  <2>1. own \in [Devices -> Nat] /\ own' = [own EXCEPT ![d] = 1]
    BY TypeParts DEF CreateDevice, GraphicsInv
  <2>. QED
    BY <2>1
<1>5. TypeOK'
  BY <1>1, <1>2, <1>3, <1>4, TypeParts, TypeNext DEF GraphicsInv
<1>6. Place'
  BY <1>1, <1>2 DEF GraphicsInv, Place
<1>7. Locks' /\ Exposing'
  BY <1>2, <1>3 DEF GraphicsInv, Locks, Exposing
<1>8. Refs'
  <2>1. graphics # d /\ dev[d].lock = None
    BY <1>1, Types, Names DEF GraphicsInv, Place, Locks, Exposing
  <2>2. \A e \in Devices : (Bound(e)' <=> Bound(e))
    BY <1>2 DEF Bound
  <2>3. dev'[d].refs = own'[d] + One(Bound(d)') + One(dev'[d].lock # None)
    BY <1>3, <1>4, <2>1, <2>2 DEF One, Bound
  <2>4. \A e \in Devices : e # d => dev'[e].refs = own'[e] + One(Bound(e)') + One(dev'[e].lock # None)
    BY <1>3, <1>4, <2>2 DEF GraphicsInv, Refs, One
  <2>. QED
    BY <1>1, <1>4, <2>3, <2>4 DEF GraphicsInv, Refs
<1>9. Callbacks'
  BY <1>2, LoopSame, SameCallbacks DEF GraphicsInv, Callbacks
<1>. QED
  BY <1>5, <1>6, <1>7, <1>8, <1>9 DEF GraphicsInv

LEMMA ReleaseKeeps ==
  ASSUME PlainPlugin, GraphicsInv, NEW d \in Devices, ReleaseDevice(Main, d)
  PROVE  GraphicsInv'
<1>1. /\ p.at = "idle" /\ own[d] > 0
      /\ UNCHANGED <<created, inst, pc, loop, tasks, damaged, expose, req, counts>>
  BY DEF ReleaseDevice, At, p
<1>2. /\ graphics' = graphics /\ ccb' = ccb /\ ccb_ml' = ccb_ml /\ in_progress' = in_progress
      /\ pc' = pc /\ p' = p /\ loop' = loop /\ tasks' = tasks /\ damaged' = damaged
      /\ expose' = expose /\ req' = req /\ binds' = binds /\ rebinds' = rebinds
      /\ damages' = damages /\ created' = created
  BY <1>1 DEF inst, counts, p
<1>3. dev[d].refs \in Nat /\ own[d] \in Nat /\ dev[d].refs > 0
  <2>1. dev[d].refs \in Nat /\ own[d] \in Nat
    BY Types DEF GraphicsInv
  <2>. QED
    BY <1>1, <2>1 DEF GraphicsInv, Refs, One
<1>4. /\ dev' \in [Devices -> DevRecs]
      /\ dev'[d].refs = dev[d].refs - 1 /\ dev'[d].lock = dev[d].lock
      /\ \A e \in Devices : e # d => dev'[e] = dev[e]
  BY <1>3, UnrefEffect, TypeParts DEF ReleaseDevice, GraphicsInv
<1>5. own' \in [Devices -> Nat] /\ own'[d] = own[d] - 1 /\ \A e \in Devices : e # d => own'[e] = own[e]
  <2>1. own \in [Devices -> Nat] /\ own' = [own EXCEPT ![d] = @ - 1] /\ own[d] - 1 \in Nat
    BY <1>1, <1>3, TypeParts DEF ReleaseDevice, GraphicsInv
  <2>. QED
    BY <2>1
<1>6. TypeOK'
  BY <1>2, <1>4, <1>5, TypeParts, TypeNext DEF GraphicsInv
<1>7. Place'
  BY <1>2 DEF GraphicsInv, Place
<1>8. Locks' /\ Exposing'
  BY <1>2, <1>4 DEF GraphicsInv, Locks, Exposing
<1>9. Refs'
  <2>1. \A e \in Devices : (Bound(e)' <=> Bound(e))
    BY <1>2 DEF Bound
  <2>2. dev'[d].refs = own'[d] + One(Bound(d)') + One(dev'[d].lock # None)
    BY <1>3, <1>4, <1>5, <2>1 DEF GraphicsInv, Refs, One
  <2>3. \A e \in Devices : e # d => dev'[e].refs = own'[e] + One(Bound(e)') + One(dev'[e].lock # None)
    BY <1>4, <1>5, <2>1 DEF GraphicsInv, Refs, One
  <2>4. d \in created
    BY <1>1 DEF GraphicsInv, Refs
  <2>. QED
    BY <1>2, <1>5, <2>2, <2>3, <2>4 DEF GraphicsInv, Refs
<1>10. Callbacks'
  BY <1>2, LoopSame, SameCallbacks DEF GraphicsInv, Callbacks
<1>. QED
  BY <1>6, <1>7, <1>8, <1>9, <1>10 DEF GraphicsInv

(* Flush and SwapBuffers begin. *)
LEMMA RequestKeeps ==
  ASSUME PlainPlugin, GraphicsInv, NEW d \in Devices, NEW r \in Requests,
         NEW cb \in {r, NullCallback}, NEW place \in {"flush_store", "swap_store"},
         BeginRequest(Main, d, r, cb, place),
         UNCHANGED <<created, own, inst, loop, tasks, damaged, expose, counts>>
  PROVE  GraphicsInv'
<1>1. /\ graphics' = graphics /\ ccb' = ccb /\ ccb_ml' = ccb_ml /\ in_progress' = in_progress
      /\ loop' = loop /\ tasks' = tasks /\ damaged' = damaged
      /\ expose' = expose /\ binds' = binds /\ rebinds' = rebinds
      /\ damages' = damages /\ created' = created /\ own' = own
  BY DEF inst, counts
<1>2. Begin(Main, d, cb, place) /\ req[r].state = "unused"
  BY DEF BeginRequest, NextRequest
<1>3. /\ dev' \in [Devices -> DevRecs] /\ pc' \in [PluginThreads -> CallRecs]
      /\ p.at = "idle" /\ p.cb = NullCallback
      /\ p'.at = place /\ p'.dev = d /\ p'.cb = cb /\ p'.prev = None
      /\ d \in created
      /\ Locks' /\ Exposing' /\ Refs'
  BY <1>1, <1>2, BegunDevices
<1>. PICK st \in {"none", "begun"} : st = IF cb = NullCallback THEN "none" ELSE "begun"
  OBVIOUS
<1>4. /\ req' \in [Requests -> ReqRecs]
      /\ req'[r].state = st
      /\ \A q \in Requests : /\ req'[q].called = req[q].called
                             /\ q # r => req'[q].state = req[q].state
  <2>1. req \in [Requests -> ReqRecs] /\ req' = [req EXCEPT ![r].dev = d, ![r].state = st]
    BY TypeParts DEF BeginRequest, GraphicsInv
  <2>. PICK x : x = req[r]
    OBVIOUS
  <2>. PICK y : y = [x EXCEPT !.dev = d, !.state = st]
    OBVIOUS
  <2>2. x \in ReqRecs /\ d \in Devices
    BY <2>1
  <2>3. y \in ReqRecs /\ y.state = st /\ y.called = x.called
    BY <2>2 DEF ReqRecs
  <2>4. req' = [req EXCEPT ![r] = y]
    BY <2>1
  <2>5. /\ req' \in [Requests -> ReqRecs] /\ req'[r] = y
        /\ \A q \in Requests : q # r => req'[q] = req[q]
    BY <2>1, <2>3, <2>4
  <2>. QED
    BY <2>3, <2>5
<1>5. TypeOK'
  BY <1>1, <1>3, <1>4, TypeParts, TypeNext DEF GraphicsInv
<1>6. Place'
  BY <1>1, <1>3 DEF GraphicsInv, Place
<1>7. /\ \A q \in Requests : (OnLoop(q)' <=> OnLoop(q))
      /\ OnceOnLoop'
  BY <1>1, LoopSame DEF GraphicsInv, Callbacks
<1>8. Callbacks'
  <2>1. ccb # r /\ ~OnLoop(r) /\ ~(req[r].called > 0)
    BY <1>2 DEF GraphicsInv, Callbacks
  <2>2. \A q \in Requests : (req'[q].state = "begun" <=> p'.cb = q)
    BY <1>3, <1>4, Names DEF GraphicsInv, Callbacks
  <2>3. place \in Asking /\ place \notin AfterStore /\ place # "swap_redraw"
    BY DEF Asking, AfterStore
  <2>. QED
    BY <1>1, <1>3, <1>4, <1>7, <2>1, <2>2, <2>3 DEF GraphicsInv, Callbacks
<1>. QED
  BY <1>3, <1>5, <1>6, <1>8 DEF GraphicsInv

(* A call is refused: the device is released and the callback dropped. *)
LEMMA RefuseKeeps ==
  ASSUME PlainPlugin, GraphicsInv, p.at \in {"flush_store", "swap_store"}, Refuse(Main),
         UNCHANGED <<created, own, loop, tasks, damaged, expose, counts>>
  PROVE  GraphicsInv'
<1>1. /\ graphics' = graphics /\ ccb' = ccb /\ ccb_ml' = ccb_ml /\ in_progress' = in_progress
      /\ loop' = loop /\ tasks' = tasks /\ damaged' = damaged
      /\ expose' = expose /\ binds' = binds /\ rebinds' = rebinds
      /\ damages' = damages /\ created' = created /\ own' = own
      /\ dev' = Release(dev, p.dev) /\ Mark(p.cb, "none") /\ Finish(Main)
  BY DEF inst, counts, Refuse, p
<1>2. /\ pc' \in [PluginThreads -> CallRecs]
      /\ p'.at = "idle" /\ p'.dev = None /\ p'.cb = NullCallback /\ p'.prev = None
  BY <1>1, FinishEffect, TypeParts DEF GraphicsInv
<1>3. dev' \in [Devices -> DevRecs] /\ Locks' /\ Exposing' /\ Refs'
  <2>1. p.at \in Locking /\ p.at # "bind_refs" /\ p'.at \notin Locking
    BY <1>2 DEF Locking
  <2>. QED
    BY <1>1, <2>1, ReleasedDevices
<1>4. /\ req' \in [Requests -> ReqRecs]
      /\ \A r \in Requests : /\ req'[r].called = req[r].called
                             /\ r = p.cb => req'[r].state = "none"
                             /\ r # p.cb => req'[r].state = req[r].state
  BY <1>1, MarkEffect, TypeParts, Types DEF GraphicsInv
<1>5. TypeOK'
  BY <1>1, <1>2, <1>3, <1>4, TypeParts, TypeNext DEF GraphicsInv
<1>6. Place'
  BY <1>1, <1>2 DEF GraphicsInv, Place, Locking, AfterStore
<1>7. /\ \A q \in Requests : (OnLoop(q)' <=> OnLoop(q))
      /\ OnceOnLoop'
  BY <1>1, LoopSame DEF GraphicsInv, Callbacks
<1>8. Callbacks'
  <2>1. p.at \notin AfterStore
    BY DEF AfterStore
  <2>2. p.cb \in Requests => /\ ccb # p.cb /\ req[p.cb].state = "begun"
                             /\ ~OnLoop(p.cb) /\ ~(req[p.cb].called > 0)
    BY <2>1, Names DEF GraphicsInv, Callbacks
  <2>3. \A q \in Requests : req'[q].state # "begun" /\ p'.cb # q
    BY <1>2, <1>4, Names DEF GraphicsInv, Callbacks
  <2>. QED
    BY <1>1, <1>2, <1>4, <1>7, <2>2, <2>3 DEF GraphicsInv, Callbacks
<1>. QED
  BY <1>3, <1>5, <1>6, <1>8 DEF GraphicsInv

(* The callback of the call under way is stored in the instance. *)
LEMMA StoredCallbacks ==
  ASSUME PlainPlugin, GraphicsInv, p.at \in {"flush_store", "swap_store"}, ~in_progress,
         graphics' = graphics, graphics = p.dev, ccb' = p.cb, in_progress',
         \A r \in Requests : req'[r].state = req[r].state /\ req'[r].called = req[r].called,
         loop' = loop,
         p'.at \in AfterStore, p'.dev = p.dev, p'.cb = p.cb
  PROVE  Callbacks'
<1>1. \A r \in Requests : (OnLoop(r)' <=> OnLoop(r))
  BY LoopSame DEF GraphicsInv, Callbacks
<1>2. ccb = NullCallback /\ AfterStore \subseteq Asking
  BY DEF GraphicsInv, Callbacks, AfterStore, Asking
<1>3. \A r \in Requests : ccb' = r => /\ req[r].state = "begun" /\ ~OnLoop(r)
                                      /\ req[r].called = 0
  BY Types DEF GraphicsInv, Callbacks
<1>4. OnceOnLoop'
  BY LoopSame DEF GraphicsInv, Callbacks
<1>. QED
  BY <1>1, <1>2, <1>3, <1>4, Names DEF GraphicsInv, Callbacks

LEMMA FlushStoreKeeps ==
  ASSUME PlainPlugin, GraphicsInv, FlushStore(Main)
  PROVE  GraphicsInv'
<1>1. /\ p.at = "flush_store" /\ loop' = loop /\ tasks' = tasks /\ damaged' = damaged
      /\ expose' = expose /\ binds' = binds /\ rebinds' = rebinds
      /\ damages' = damages /\ created' = created /\ own' = own
      /\ UNCHANGED <<created, own, loop, tasks, damaged, expose, counts>>
  BY DEF FlushStore, counts, At, p
<1>2. CASE in_progress /\ Refuse(Main)
  BY <1>1, <1>2, RefuseKeeps
<1>3. ASSUME ~in_progress, IF graphics = p.dev THEN Store(Main) ELSE UNCHANGED inst,
             Goto(Main, "flush_draw"), dev' = dev, req' = req
      PROVE  GraphicsInv'
  <2>1. "flush_draw" \in Places
    BY DEF Places
  <2>2. /\ pc' \in [PluginThreads -> CallRecs]
        /\ p'.at = "flush_draw" /\ p'.dev = p.dev /\ p'.cb = p.cb /\ p'.prev = p.prev
    BY <1>3, <2>1, GotoEffect, TypeParts DEF GraphicsInv
  <2>3. /\ graphics' = graphics
        /\ \/ /\ graphics = p.dev /\ ccb' = p.cb /\ ccb_ml' = Main /\ in_progress' = TRUE
           \/ /\ graphics # p.dev /\ ccb' = ccb /\ ccb_ml' = ccb_ml /\ in_progress' = in_progress
    BY <1>3 DEF Store, inst, p
  <2>4. TypeOK'
    <3>1. p.cb \in Requests \cup {NullCallback} /\ Main \in PluginThreads
      BY Types, Names DEF GraphicsInv
    <3>. QED
      BY <1>1, <1>3, <2>2, <2>3, <3>1, TypeParts, TypeNext DEF GraphicsInv
  <2>5. Place'
    BY <1>1, <2>2, <2>3 DEF GraphicsInv, Place, Locking, AfterStore
  <2>6. Locks' /\ Exposing' /\ Refs'
    <3>1. p.at \in Locking /\ p'.at \in Locking /\ p.at # "bind_refs" /\ p'.at # "bind_refs"
      BY <1>1, <2>2 DEF Locking
    <3>. QED
      BY <1>1, <1>3, <2>2, <2>3, <3>1, SameDevices
  <2>7. Callbacks'
    <3>0. p'.at \in AfterStore /\ p.at \notin AfterStore
      BY <1>1, <2>2 DEF AfterStore
    <3>1. CASE graphics = p.dev
      BY <1>1, <1>3, <2>2, <2>3, <3>0, <3>1, StoredCallbacks
    <3>2. CASE graphics # p.dev
      <4>1. /\ \A r \in Requests : (OnLoop(r)' <=> OnLoop(r))
            /\ OnceOnLoop'
        BY <1>1, LoopSame DEF GraphicsInv, Callbacks
      <4>2. ccb' = ccb /\ in_progress' = in_progress /\ ccb = NullCallback
        BY <1>3, <2>3, <3>2 DEF GraphicsInv, Callbacks
      <4>3. p'.at \in Asking /\ p'.at # "swap_redraw"
        BY <2>2 DEF Asking
      <4>. QED
        BY <1>3, <2>2, <2>3, <3>0, <3>2, <4>1, <4>2, <4>3 DEF GraphicsInv, Callbacks
    <3>. QED
      BY <3>1, <3>2
  <2>. QED
    BY <2>4, <2>5, <2>6, <2>7 DEF GraphicsInv
<1>. QED
  BY <1>2, <1>3 DEF FlushStore, p

LEMMA SwapStoreKeeps ==
  ASSUME PlainPlugin, GraphicsInv, SwapStore(Main)
  PROVE  GraphicsInv'
<1>1. /\ p.at = "swap_store" /\ loop' = loop /\ tasks' = tasks /\ damaged' = damaged
      /\ expose' = expose /\ binds' = binds /\ rebinds' = rebinds
      /\ damages' = damages /\ created' = created /\ own' = own
      /\ UNCHANGED <<created, own, loop, tasks, damaged, expose, counts>>
  BY DEF SwapStore, counts, At, p
<1>2. CASE Refuse(Main)
  BY <1>1, <1>2, RefuseKeeps
<1>3. ASSUME ~in_progress, graphics = p.dev, dev' = Release(dev, p.dev), Store(Main),
             Goto(Main, "swap_redraw"), req' = req
      PROVE  GraphicsInv'
  <2>1. "swap_redraw" \in Places
    BY DEF Places
  <2>2. /\ pc' \in [PluginThreads -> CallRecs]
        /\ p'.at = "swap_redraw" /\ p'.dev = p.dev /\ p'.cb = p.cb /\ p'.prev = p.prev
    BY <1>3, <2>1, GotoEffect, TypeParts DEF GraphicsInv
  <2>3. graphics' = graphics /\ ccb' = p.cb /\ ccb_ml' = Main /\ in_progress' = TRUE
    BY <1>3 DEF Store, p
  <2>4. dev' \in [Devices -> DevRecs] /\ Locks' /\ Exposing' /\ Refs'
    <3>1. p.at \in Locking /\ p.at # "bind_refs" /\ p'.at \notin Locking
      BY <1>1, <2>2 DEF Locking
    <3>. QED
      BY <1>1, <1>3, <2>3, <3>1, ReleasedDevices
  <2>5. TypeOK'
    <3>1. p.cb \in Requests \cup {NullCallback} /\ Main \in PluginThreads
      BY Types, Names DEF GraphicsInv
    <3>. QED
      BY <1>1, <1>3, <2>2, <2>3, <2>4, <3>1, TypeParts, TypeNext DEF GraphicsInv
  <2>6. Place'
    BY <1>1, <2>2, <2>3 DEF GraphicsInv, Place, Locking, AfterStore
  <2>7. Callbacks'
    <3>1. p'.at \in AfterStore
      BY <2>2 DEF AfterStore
    <3>. QED
      BY <1>1, <1>3, <2>2, <2>3, <3>1, StoredCallbacks
  <2>. QED
    BY <2>4, <2>5, <2>6, <2>7 DEF GraphicsInv
<1>. QED
  BY <1>2, <1>3 DEF SwapStore, p

LEMMA FlushDrawKeeps ==
  ASSUME PlainPlugin, GraphicsInv, FlushDraw(Main)
  PROVE  GraphicsInv'
<1>1. /\ p.at = "flush_draw" /\ dev' = Release(dev, p.dev) /\ Goto(Main, "flush_redraw")
      /\ graphics' = graphics /\ ccb' = ccb /\ ccb_ml' = ccb_ml /\ in_progress' = in_progress
      /\ loop' = loop /\ tasks' = tasks /\ damaged' = damaged /\ req' = req
      /\ expose' = expose /\ binds' = binds /\ rebinds' = rebinds
      /\ damages' = damages /\ created' = created /\ own' = own
  BY DEF FlushDraw, counts, inst, At, p
<1>2. /\ pc' \in [PluginThreads -> CallRecs]
      /\ p'.at = "flush_redraw" /\ p'.dev = p.dev /\ p'.cb = p.cb /\ p'.prev = p.prev
  <2>1. "flush_redraw" \in Places
    BY DEF Places
  <2>. QED
    BY <1>1, <2>1, GotoEffect, TypeParts DEF GraphicsInv
<1>3. dev' \in [Devices -> DevRecs] /\ Locks' /\ Exposing' /\ Refs'
  <2>1. p.at \in Locking /\ p.at # "bind_refs" /\ p'.at \notin Locking
    BY <1>1, <1>2 DEF Locking
  <2>. QED
    BY <1>1, <2>1, ReleasedDevices
<1>4. TypeOK'
  BY <1>1, <1>2, <1>3, TypeParts, TypeNext DEF GraphicsInv
<1>5. Place'
  BY <1>1, <1>2 DEF GraphicsInv, Place, Locking, AfterStore
<1>6. Callbacks'
  <2>1. p.at \in AfterStore /\ p'.at \in AfterStore \ {"swap_redraw"}
    BY <1>1, <1>2 DEF AfterStore
  <2>. QED
    BY <1>1, <1>2, <2>1, LoopSame, SameCallbacks DEF GraphicsInv, Callbacks
<1>. QED
  BY <1>3, <1>4, <1>5, <1>6 DEF GraphicsInv

LEMMA FlushRedrawKeeps ==
  ASSUME PlainPlugin, GraphicsInv, FlushRedraw(Main)
  PROVE  GraphicsInv'
<1>1. /\ p.at = "flush_redraw" /\ dev' = dev /\ Goto(Main, "flush_post")
      /\ graphics' = graphics /\ ccb' = ccb /\ ccb_ml' = ccb_ml /\ in_progress' = in_progress
      /\ loop' = loop /\ tasks' = tasks + 1 /\ damaged' = damaged /\ req' = req
      /\ expose' = expose /\ binds' = binds /\ rebinds' = rebinds
      /\ damages' = damages /\ created' = created /\ own' = own
  BY DEF FlushRedraw, counts, inst, At, p
<1>2. /\ pc' \in [PluginThreads -> CallRecs]
      /\ p'.at = "flush_post" /\ p'.dev = p.dev /\ p'.cb = p.cb /\ p'.prev = p.prev
  <2>1. "flush_post" \in Places
    BY DEF Places
  <2>. QED
    BY <1>1, <2>1, GotoEffect, TypeParts DEF GraphicsInv
<1>3. Locks' /\ Exposing' /\ Refs'
  <2>1. p.at \notin Locking /\ p'.at \notin Locking /\ p.at # "bind_refs" /\ p'.at # "bind_refs"
    BY <1>1, <1>2 DEF Locking
  <2>. QED
    BY <1>1, <1>2, <2>1, SameDevices
<1>4. TypeOK'
  <2>1. tasks + 1 \in Nat
    BY TypeParts DEF GraphicsInv
  <2>. QED
    BY <1>1, <1>2, <2>1, TypeParts, TypeNext DEF GraphicsInv
<1>5. Place'
  BY <1>1, <1>2 DEF GraphicsInv, Place, Locking, AfterStore
<1>6. Callbacks'
  <2>1. p.at \in AfterStore /\ p'.at \in AfterStore \ {"swap_redraw"}
    BY <1>1, <1>2 DEF AfterStore
  <2>. QED
    BY <1>1, <1>2, <2>1, LoopSame, SameCallbacks DEF GraphicsInv, Callbacks
<1>. QED
  BY <1>3, <1>4, <1>5, <1>6 DEF GraphicsInv

(* Flush ends: the callback was stored, or is posted. *)
LEMMA FlushPostKeeps ==
  ASSUME PlainPlugin, GraphicsInv, FlushPost(Main)
  PROVE  GraphicsInv'
<1>1. /\ p.at = "flush_post" /\ dev' = dev /\ Finish(Main) /\ Mark(p.cb, "pending")
      /\ graphics' = graphics /\ ccb' = ccb /\ ccb_ml' = ccb_ml /\ in_progress' = in_progress
      /\ tasks' = tasks /\ damaged' = damaged
      /\ expose' = expose /\ binds' = binds /\ rebinds' = rebinds
      /\ damages' = damages /\ created' = created /\ own' = own
  BY DEF FlushPost, counts, inst, At, p
<1>2. /\ pc' \in [PluginThreads -> CallRecs]
      /\ p'.at = "idle" /\ p'.dev = None /\ p'.cb = NullCallback /\ p'.prev = None
  BY <1>1, FinishEffect, TypeParts DEF GraphicsInv
<1>3. Locks' /\ Exposing' /\ Refs'
  <2>1. p.at \notin Locking /\ p'.at \notin Locking /\ p.at # "bind_refs" /\ p'.at # "bind_refs"
    BY <1>1, <1>2 DEF Locking
  <2>. QED
    BY <1>1, <2>1, SameDevices
<1>. PICK c \in Requests \cup {NullCallback} : c = p.cb
  BY Types DEF GraphicsInv
<1>4. /\ req' \in [Requests -> ReqRecs]
      /\ \A r \in Requests : /\ req'[r].called = req[r].called
                             /\ r = c => req'[r].state = "pending"
                             /\ r # c => req'[r].state = req[r].state
  BY <1>1, MarkEffect, TypeParts DEF GraphicsInv
<1>5. c \in Requests => /\ req[c].state = "begun" /\ ~OnLoop(c) /\ ~(req[c].called > 0)
                        /\ req[c].called = 0
                        /\ (ccb = c <=> graphics = p.dev)
  <2>1. p.at \in AfterStore
    BY <1>1 DEF AfterStore
  <2>. QED
    BY <2>1, Types, Names DEF GraphicsInv, Callbacks
<1>6. /\ loop' \in [PluginThreads -> Seq(LoopItems)] /\ OnceOnLoop'
      /\ \A r \in Requests : (OnLoop(r)' <=> OnLoop(r) \/ (r = c /\ graphics # p.dev))
  <2>0. loop \in [PluginThreads -> Seq(LoopItems)] /\ OnceOnLoop
    BY TypeParts DEF GraphicsInv, Callbacks
  <2>1. CASE c # NullCallback /\ graphics # p.dev
    <3>1. loop' = [loop EXCEPT ![Main] = Append(@, c)] /\ c \in LoopItems
      BY <2>1 DEF FlushPost, p, LoopItems
    <3>. QED
      BY <1>5, <2>0, <2>1, <3>1, PostedEffect
  <2>2. CASE ~(c # NullCallback /\ graphics # p.dev)
    <3>1. loop' = loop
      BY <2>2 DEF FlushPost, p
    <3>. QED
      BY <2>0, <2>2, <3>1, Names, LoopSame
  <2>. QED
    BY <2>1, <2>2
<1>7. TypeOK'
  BY <1>1, <1>2, <1>4, <1>6, TypeParts, TypeNext DEF GraphicsInv
<1>8. Place'
  BY <1>1, <1>2 DEF GraphicsInv, Place, Locking, AfterStore
<1>9. Callbacks'
  <2>1. \A q \in Requests : req'[q].state # "begun" /\ p'.cb # q
    BY <1>2, <1>4, Names DEF GraphicsInv, Callbacks
  <2>. QED
    BY <1>1, <1>2, <1>4, <1>5, <1>6, <2>1 DEF GraphicsInv, Callbacks
<1>. QED
  BY <1>3, <1>7, <1>8, <1>9 DEF GraphicsInv

LEMMA SwapRedrawKeeps ==
  ASSUME PlainPlugin, GraphicsInv, SwapRedraw(Main)
  PROVE  GraphicsInv'
<1>1. /\ p.at = "swap_redraw" /\ dev' = dev /\ Finish(Main) /\ Mark(p.cb, "pending")
      /\ graphics' = graphics /\ ccb' = ccb /\ ccb_ml' = ccb_ml /\ in_progress' = in_progress
      /\ tasks' = tasks + 1 /\ damaged' = damaged /\ loop' = loop
      /\ expose' = expose /\ binds' = binds /\ rebinds' = rebinds
      /\ damages' = damages /\ created' = created /\ own' = own
  BY DEF SwapRedraw, counts, inst, At, p
<1>2. /\ pc' \in [PluginThreads -> CallRecs]
      /\ p'.at = "idle" /\ p'.dev = None /\ p'.cb = NullCallback /\ p'.prev = None
  BY <1>1, FinishEffect, TypeParts DEF GraphicsInv
<1>3. Locks' /\ Exposing' /\ Refs'
  <2>1. p.at \notin Locking /\ p'.at \notin Locking /\ p.at # "bind_refs" /\ p'.at # "bind_refs"
    BY <1>1, <1>2 DEF Locking
  <2>. QED
    BY <1>1, <2>1, SameDevices
<1>. PICK c \in Requests \cup {NullCallback} : c = p.cb
  BY Types DEF GraphicsInv
<1>4. /\ req' \in [Requests -> ReqRecs]
      /\ \A r \in Requests : /\ req'[r].called = req[r].called
                             /\ r = c => req'[r].state = "pending"
                             /\ r # c => req'[r].state = req[r].state
  BY <1>1, MarkEffect, TypeParts DEF GraphicsInv
<1>5. c \in Requests => req[c].state = "begun" /\ ccb = c
  <2>1. p.at \in AfterStore
    BY <1>1 DEF AfterStore
  <2>. QED
    BY <1>1, <2>1, Names DEF GraphicsInv, Callbacks
<1>6. TypeOK'
  <2>1. tasks + 1 \in Nat
    BY TypeParts DEF GraphicsInv
  <2>. QED
    BY <1>1, <1>2, <1>4, <2>1, TypeParts, TypeNext DEF GraphicsInv
<1>7. Place'
  BY <1>1, <1>2 DEF GraphicsInv, Place, Locking, AfterStore
<1>8. /\ \A q \in Requests : (OnLoop(q)' <=> OnLoop(q))
      /\ OnceOnLoop'
  BY <1>1, LoopSame DEF GraphicsInv, Callbacks
<1>9. Callbacks'
  <2>1. \A q \in Requests : req'[q].state # "begun" /\ p'.cb # q
    BY <1>2, <1>4, Names DEF GraphicsInv, Callbacks
  <2>. QED
    BY <1>1, <1>2, <1>4, <1>5, <1>8, <2>1 DEF GraphicsInv, Callbacks
<1>. QED
  BY <1>3, <1>6, <1>7, <1>9 DEF GraphicsInv

LEMMA BindKeeps ==
  ASSUME PlainPlugin, GraphicsInv, NEW d \in Devices, ppb_instance_bind_graphics(Main, d)
  PROVE  GraphicsInv'
<1>1. /\ graphics' = graphics /\ ccb' = ccb /\ ccb_ml' = ccb_ml /\ in_progress' = in_progress
      /\ loop' = loop /\ tasks' = tasks /\ damaged' = damaged /\ req' = req
      /\ expose' = expose /\ binds' = binds + 1 /\ binds < MaxBinds /\ rebinds' = rebinds
      /\ damages' = damages /\ created' = created /\ own' = own
      /\ Begin(Main, d, NullCallback, "bind_set")
  BY DEF ppb_instance_bind_graphics, inst
<1>2. graphics \in {None, d}
  <2>1. rebinds \in 0 .. 0 /\ (graphics # d => rebinds < 0 \/ graphics = None)
    BY TypeParts DEF ppb_instance_bind_graphics, Rebinds, GraphicsInv, PlainPlugin
  <2>. QED
    BY <2>1
<1>3. /\ dev' \in [Devices -> DevRecs] /\ pc' \in [PluginThreads -> CallRecs]
      /\ p.at = "idle" /\ p.cb = NullCallback
      /\ p'.at = "bind_set" /\ p'.dev = d /\ p'.cb = NullCallback /\ p'.prev = None
      /\ d \in created
      /\ Locks' /\ Exposing' /\ Refs'
  <2>1. NullCallback \in Requests \cup {NullCallback} /\ "bind_set" \in {"flush_store", "swap_store", "bind_set"}
    OBVIOUS
  <2>. QED
    BY <1>1, <2>1, BegunDevices
<1>4. TypeOK'
  <2>1. binds + 1 \in 0 .. MaxBinds
    BY <1>1, TypeParts, BoundsAssumption DEF GraphicsInv
  <2>. QED
    BY <1>1, <1>3, <2>1, TypeParts, TypeNext DEF GraphicsInv
<1>5. Place'
  BY <1>1, <1>2, <1>3 DEF GraphicsInv, Place
<1>6. Callbacks'
  BY <1>1, <1>3, LoopSame, SameCallbacks DEF GraphicsInv, Callbacks
<1>. QED
  BY <1>3, <1>4, <1>5, <1>6 DEF GraphicsInv

LEMMA BindSetKeeps ==
  ASSUME PlainPlugin, GraphicsInv, BindSet(Main)
  PROVE  GraphicsInv'
<1>1. /\ p.at = "bind_set" /\ graphics' = p.dev
      /\ ccb' = ccb /\ ccb_ml' = ccb_ml /\ in_progress' = in_progress
      /\ loop' = loop /\ tasks' = tasks /\ damaged' = damaged /\ req' = req
      /\ expose' = expose /\ binds' = binds /\ dev' = dev
      /\ damages' = damages /\ created' = created /\ own' = own
  BY DEF BindSet, At, p
<1>2. /\ graphics \in {None, p.dev} /\ p.dev \in created /\ p.dev \in Devices
      /\ p.cb = NullCallback
  <2>1. p.at \in Locking /\ p.at \notin Asking
    BY <1>1 DEF Locking, Asking
  <2>. QED
    BY <1>1, <2>1, Types DEF GraphicsInv, Place, Callbacks
<1>3. rebinds' = rebinds
  BY <1>2 DEF BindSet, p
<1>4. PICK place \in {"bind_refs", "bind_done"} :
        /\ place = IF graphics = p.dev THEN "bind_done" ELSE "bind_refs"
        /\ pc' = [pc EXCEPT ![Main].at = place, ![Main].prev = graphics]
  BY DEF BindSet, p
<1>5. /\ pc' \in [PluginThreads -> CallRecs]
      /\ p'.at = place /\ p'.dev = p.dev /\ p'.cb = p.cb /\ p'.prev = graphics
  <2>1. /\ Main \in PluginThreads /\ pc[Main] \in CallRecs /\ pc \in [PluginThreads -> CallRecs]
        /\ graphics \in Devices \cup {None} /\ place \in Places
    BY Names, TypeParts DEF GraphicsInv, Places
  <2>. QED
    BY <1>4, <2>1 DEF p, CallRecs
<1>6. TypeOK'
  BY <1>1, <1>2, <1>3, <1>5, TypeParts, TypeNext DEF GraphicsInv
<1>7. Place'
  BY <1>1, <1>2, <1>4, <1>5 DEF GraphicsInv, Place, Locking, AfterStore
<1>8. Locks'
  <2>1. p.at \in Locking /\ p'.at \in Locking
    BY <1>1, <1>5 DEF Locking
  <2>. QED
    BY <1>1, <1>5, <2>1 DEF GraphicsInv, Locks
<1>9. Exposing'
  BY <1>1, <1>2 DEF GraphicsInv, Exposing
<1>10. Refs'
  <2>1. \A e \in Devices : (Bound(e)' <=> Bound(e))
    BY <1>1, <1>2, <1>4, <1>5, Names DEF Bound
  <2>. QED
    BY <1>1, <2>1 DEF GraphicsInv, Refs, One
<1>11. Callbacks'
  BY <1>1, <1>2, <1>5, LoopSame, SameCallbacks DEF GraphicsInv, Callbacks
<1>. QED
  BY <1>6, <1>7, <1>8, <1>9, <1>10, <1>11 DEF GraphicsInv

LEMMA BindRefsKeeps ==
  ASSUME PlainPlugin, GraphicsInv, BindRefs(Main)
  PROVE  GraphicsInv'
<1>1. /\ p.at = "bind_refs" /\ graphics' = graphics
      /\ ccb' = ccb /\ ccb_ml' = ccb_ml /\ in_progress' = in_progress
      /\ loop' = loop /\ tasks' = tasks /\ damaged' = damaged /\ req' = req
      /\ expose' = expose /\ binds' = binds /\ rebinds' = rebinds
      /\ damages' = damages /\ created' = created /\ own' = own
  BY DEF BindRefs, At, p, inst, counts
<1>2. /\ graphics = p.dev /\ p.prev = None /\ p.dev \in created /\ p.dev \in Devices
      /\ p.cb = NullCallback
  <2>1. p.at \in Locking /\ p.at \notin Asking
    BY <1>1 DEF Locking, Asking
  <2>. QED
    BY <1>1, <2>1, Types DEF GraphicsInv, Place, Callbacks
<1>. PICK d \in Devices : d = p.dev
  BY <1>2
<1>3. dev' = AddRef(dev, d)
  <2>1. dev' = Unref(AddRef(dev, d), None)
    BY <1>2 DEF BindRefs, p
  <2>. QED
    BY <2>1, Names DEF Unref
<1>4. /\ pc' \in [PluginThreads -> CallRecs]
      /\ p'.at = "bind_done" /\ p'.dev = p.dev /\ p'.cb = p.cb /\ p'.prev = None
  <2>1. /\ Main \in PluginThreads /\ pc[Main] \in CallRecs /\ pc \in [PluginThreads -> CallRecs]
        /\ "bind_done" \in Places
    BY Names, TypeParts DEF GraphicsInv, Places
  <2>. QED
    BY <2>1 DEF BindRefs, p, CallRecs
<1>5. dev[d].lock = Main /\ dev[d].refs \in Nat /\ own[d] \in Nat
  <2>1. p.at \in Locking
    BY <1>1 DEF Locking
  <2>. QED
    BY <2>1, Types DEF GraphicsInv, Locks
<1>6. dev[d].refs = own[d] + 1
  <2>1. dev[d].refs = own[d] + One(Bound(d)) + One(dev[d].lock # None)
    BY DEF GraphicsInv, Refs
  <2>2. ~Bound(d)
    BY <1>1 DEF Bound
  <2>. QED
    BY <1>5, <2>1, <2>2, Names DEF One
<1>7. /\ dev' \in [Devices -> DevRecs]
      /\ dev'[d].refs = dev[d].refs + 1 /\ dev'[d].lock = dev[d].lock
      /\ \A e \in Devices : e # d => dev'[e] = dev[e]
  <2>1. dev[d].refs > 0
    BY <1>5, <1>6
  <2>. QED
    BY <1>3, <2>1, AddRefEffect, TypeParts DEF GraphicsInv
<1>8. TypeOK'
  BY <1>1, <1>4, <1>7, TypeParts, TypeNext DEF GraphicsInv
<1>9. Place'
  BY <1>1, <1>2, <1>4 DEF GraphicsInv, Place, Locking, AfterStore
<1>10. Locks'
  <2>1. p.at \in Locking /\ p'.at \in Locking
    BY <1>1, <1>4 DEF Locking
  <2>. QED
    BY <1>1, <1>4, <1>7, <2>1 DEF GraphicsInv, Locks
<1>11. Exposing'
  BY <1>1 DEF GraphicsInv, Exposing
<1>12. Refs'
  <2>1. Bound(d)' /\ \A e \in Devices : e # d => (Bound(e)' <=> Bound(e))
    BY <1>1, <1>2, <1>4 DEF Bound
  <2>2. dev'[d].refs = own'[d] + One(Bound(d)') + One(dev'[d].lock # None)
    BY <1>1, <1>5, <1>6, <1>7, <2>1, Names DEF One
  <2>3. \A e \in Devices : e # d => dev'[e].refs = own'[e] + One(Bound(e)') + One(dev'[e].lock # None)
    BY <1>1, <1>7, <2>1 DEF GraphicsInv, Refs, One
  <2>. QED
    BY <1>1, <2>2, <2>3 DEF GraphicsInv, Refs
<1>13. Callbacks'
  BY <1>1, <1>2, <1>4, LoopSame, SameCallbacks DEF GraphicsInv, Callbacks
<1>. QED
  BY <1>8, <1>9, <1>10, <1>11, <1>12, <1>13 DEF GraphicsInv

LEMMA BindDoneKeeps ==
  ASSUME PlainPlugin, GraphicsInv, BindDone(Main)
  PROVE  GraphicsInv'
<1>1. /\ p.at = "bind_done" /\ graphics' = graphics /\ dev' = Release(dev, p.dev) /\ Finish(Main)
      /\ ccb' = ccb /\ ccb_ml' = ccb_ml /\ in_progress' = in_progress
      /\ loop' = loop /\ tasks' = tasks + 1 /\ damaged' = damaged /\ req' = req
      /\ expose' = expose /\ binds' = binds /\ rebinds' = rebinds
      /\ damages' = damages /\ created' = created /\ own' = own
  BY DEF BindDone, At, p, inst, counts
<1>2. /\ pc' \in [PluginThreads -> CallRecs]
      /\ p'.at = "idle" /\ p'.dev = None /\ p'.cb = NullCallback /\ p'.prev = None
  BY <1>1, FinishEffect, TypeParts DEF GraphicsInv
<1>3. dev' \in [Devices -> DevRecs] /\ Locks' /\ Exposing' /\ Refs'
  <2>1. p.at \in Locking /\ p.at # "bind_refs" /\ p'.at \notin Locking
    BY <1>1, <1>2 DEF Locking
  <2>. QED
    BY <1>1, <2>1, ReleasedDevices
<1>4. TypeOK'
  <2>1. tasks + 1 \in Nat
    BY TypeParts DEF GraphicsInv
  <2>. QED
    BY <1>1, <1>2, <1>3, <2>1, TypeParts, TypeNext DEF GraphicsInv
<1>5. Place'
  BY <1>1, <1>2 DEF GraphicsInv, Place, Locking, AfterStore
<1>6. p.cb = NullCallback
  <2>1. p.at \notin Asking
    BY <1>1 DEF Asking
  <2>. QED
    BY <2>1 DEF GraphicsInv, Callbacks
<1>7. Callbacks'
  BY <1>1, <1>2, <1>6, LoopSame, SameCallbacks DEF GraphicsInv, Callbacks
<1>. QED
  BY <1>3, <1>4, <1>5, <1>7 DEF GraphicsInv

LEMMA UnbindKeeps ==
  ASSUME PlainPlugin, GraphicsInv, Unbind(Main)
  PROVE  GraphicsInv'
<1>1. /\ p.at = "idle" /\ graphics' = graphics /\ binds < MaxBinds /\ binds' = binds + 1
      /\ ccb' = ccb /\ ccb_ml' = ccb_ml /\ in_progress' = in_progress
      /\ loop' = loop /\ tasks' = tasks /\ damaged' = damaged /\ req' = req
      /\ expose' = expose /\ damages' = damages /\ created' = created /\ own' = own
  BY DEF Unbind, At, p, inst
<1>2. graphics = None
  <2>1. rebinds \in 0 .. 0 /\ (graphics # None => rebinds < 0)
    BY TypeParts DEF Unbind, Rebinds, GraphicsInv, PlainPlugin
  <2>. QED
    BY <2>1
<1>3. dev' = dev /\ rebinds' = rebinds
  BY <1>2, Names DEF Unbind, Unref, Rebinds
<1>4. p.cb = NullCallback /\ p.dev = None
  BY <1>1 DEF GraphicsInv, Place
<1>5. /\ pc' \in [PluginThreads -> CallRecs]
      /\ p'.at = "unbind_set" /\ p'.dev = None /\ p'.cb = NullCallback /\ p'.prev = None
  <2>. PICK c : c = [Idle EXCEPT !.at = "unbind_set", !.prev = None]
    OBVIOUS
  <2>1. c \in CallRecs /\ c.at = "unbind_set" /\ c.dev = None /\ c.cb = NullCallback /\ c.prev = None
    BY DEF CallRecs, Places, Idle
  <2>2. pc' = [pc EXCEPT ![Main] = c]
    BY <1>2 DEF Unbind
  <2>3. p' = c /\ pc' \in [PluginThreads -> CallRecs]
    BY <2>1, <2>2, EnterEffect, TypeParts DEF GraphicsInv
  <2>. QED
    BY <2>1, <2>3
<1>6. TypeOK'
  <2>1. binds + 1 \in 0 .. MaxBinds
    BY <1>1, TypeParts, BoundsAssumption DEF GraphicsInv
  <2>. QED
    BY <1>1, <1>3, <1>5, <2>1, TypeParts, TypeNext DEF GraphicsInv
<1>7. Place'
  BY <1>1, <1>2, <1>5 DEF GraphicsInv, Place, Locking, AfterStore
<1>8. Locks' /\ Exposing' /\ Refs'
  <2>1. p.at \notin Locking /\ p'.at \notin Locking /\ p.at # "bind_refs" /\ p'.at # "bind_refs"
    BY <1>1, <1>5 DEF Locking
  <2>. QED
    BY <1>1, <1>3, <2>1, SameDevices
<1>9. Callbacks'
  BY <1>1, <1>4, <1>5, LoopSame, SameCallbacks DEF GraphicsInv, Callbacks
<1>. QED
  BY <1>6, <1>7, <1>8, <1>9 DEF GraphicsInv

LEMMA UnbindSetKeeps ==
  ASSUME PlainPlugin, GraphicsInv, UnbindSet(Main)
  PROVE  GraphicsInv'
<1>1. /\ p.at = "unbind_set" /\ graphics' = None /\ dev' = dev /\ Finish(Main)
      /\ ccb' = ccb /\ ccb_ml' = ccb_ml /\ in_progress' = in_progress
      /\ loop' = loop /\ tasks' = tasks /\ damaged' = damaged /\ req' = req
      /\ expose' = expose /\ binds' = binds /\ rebinds' = rebinds
      /\ damages' = damages /\ created' = created /\ own' = own
  BY DEF UnbindSet, At, p, counts
<1>2. graphics = None /\ p.cb = NullCallback
  <2>1. p.at \notin Asking
    BY <1>1 DEF Asking
  <2>. QED
    BY <1>1, <2>1 DEF GraphicsInv, Place, Callbacks
<1>3. /\ pc' \in [PluginThreads -> CallRecs]
      /\ p'.at = "idle" /\ p'.dev = None /\ p'.cb = NullCallback /\ p'.prev = None
  BY <1>1, FinishEffect, TypeParts DEF GraphicsInv
<1>4. TypeOK'
  BY <1>1, <1>3, TypeParts, TypeNext DEF GraphicsInv
<1>5. Place'
  BY <1>1, <1>3 DEF Place, Locking, AfterStore
<1>6. Locks' /\ Exposing' /\ Refs'
  <2>1. p.at \notin Locking /\ p'.at \notin Locking /\ p.at # "bind_refs" /\ p'.at # "bind_refs"
    BY <1>1, <1>3 DEF Locking
  <2>. QED
    BY <1>1, <1>2, <2>1, SameDevices
<1>7. Callbacks'
  BY <1>1, <1>2, <1>3, LoopSame, SameCallbacks DEF GraphicsInv, Callbacks
<1>. QED
  BY <1>4, <1>5, <1>6, <1>7 DEF GraphicsInv

LEMMA WrapperKeeps ==
  ASSUME PlainPlugin, GraphicsInv, graphics_ccb_wrapper_comt(Main)
  PROVE  GraphicsInv'
<1>1. /\ p.at = "idle" /\ loop[Main] # << >> /\ Head(loop[Main]) = Wrapper
      /\ loop' = [loop EXCEPT ![Main] = Tail(@)]
      /\ ccb' = NullCallback /\ in_progress' = FALSE
      /\ dev' = dev /\ graphics' = graphics /\ ccb_ml' = ccb_ml /\ pc' = pc /\ p' = p
      /\ tasks' = tasks /\ damaged' = damaged
      /\ expose' = expose /\ binds' = binds /\ rebinds' = rebinds
      /\ damages' = damages /\ created' = created /\ own' = own
  BY DEF graphics_ccb_wrapper_comt, At, p, counts
<1>2. p.cb = NullCallback
  BY <1>1 DEF GraphicsInv, Place
<1>3. /\ loop' \in [PluginThreads -> Seq(LoopItems)] /\ OnceOnLoop'
      /\ \A r \in Requests : (OnLoop(r)' <=> OnLoop(r))
  BY <1>1, Names, TakenEffect, TypeParts DEF GraphicsInv, Callbacks
<1>4. /\ req' \in [Requests -> ReqRecs]
      /\ \A r \in Requests : /\ req'[r].state = req[r].state
                             /\ r = ccb => req'[r].called = req[r].called + 1
                             /\ r # ccb => req'[r].called = req[r].called
  <2>0. req \in [Requests -> ReqRecs] /\ ccb \in Requests \cup {NullCallback}
    BY TypeParts DEF GraphicsInv
  <2>1. CASE ccb = NullCallback
    BY <2>0, <2>1, Names DEF graphics_ccb_wrapper_comt
  <2>2. CASE ccb # NullCallback
    <3>1. ccb \in Requests /\ req' = Call(ccb)
      BY <2>0, <2>2 DEF graphics_ccb_wrapper_comt
    <3>. QED
      BY <2>0, <3>1, CallEffect
  <2>. QED
    BY <2>1, <2>2
<1>5. TypeOK'
  BY <1>1, <1>3, <1>4, TypeParts, TypeNext DEF GraphicsInv
<1>6. Place'
  BY <1>1 DEF GraphicsInv, Place
<1>7. Locks' /\ Exposing' /\ Refs'
  BY <1>1, SameDevices
<1>8. Callbacks'
  <2>1. \A r \in Requests : ccb = r => req[r].state = "pending" /\ ~OnLoop(r) /\ req[r].called = 0
    BY <1>2, Names DEF GraphicsInv, Callbacks
  <2>2. \A r \in Requests : (req'[r].state = "begun" <=> p'.cb = r)
    BY <1>1, <1>4 DEF GraphicsInv, Callbacks
  <2>3. ASSUME NEW r \in Requests
        PROVE  /\ OnLoop(r)' => req'[r].state = "pending" /\ req'[r].called = 0
               /\ req'[r].called <= 1
               /\ req'[r].called > 0 => req'[r].state = "pending"
               /\ req'[r].state = "pending" => OnLoop(r)' \/ req'[r].called > 0
    <3>1. CASE r = ccb
      BY <1>3, <1>4, <2>1, <3>1
    <3>2. CASE r # ccb
      BY <1>3, <1>4, <3>2 DEF GraphicsInv, Callbacks
    <3>. QED
      BY <3>1, <3>2
  <2>. QED
    BY <1>1, <1>2, <1>3, <2>2, <2>3, Names DEF Callbacks
<1>. QED
  BY <1>5, <1>6, <1>7, <1>8 DEF GraphicsInv

LEMMA CallUnboundKeeps ==
  ASSUME PlainPlugin, GraphicsInv, CallUnbound(Main)
  PROVE  GraphicsInv'
<1>1. /\ p.at = "idle" /\ loop[Main] # << >> /\ Head(loop[Main]) \in Requests
      /\ loop' = [loop EXCEPT ![Main] = Tail(@)]
      /\ ccb' = ccb /\ in_progress' = in_progress
      /\ dev' = dev /\ graphics' = graphics /\ ccb_ml' = ccb_ml /\ pc' = pc /\ p' = p
      /\ tasks' = tasks /\ damaged' = damaged
      /\ expose' = expose /\ binds' = binds /\ rebinds' = rebinds
      /\ damages' = damages /\ created' = created /\ own' = own
      /\ req' = Call(Head(loop[Main]))
  BY DEF CallUnbound, At, p, counts, inst
<1>. PICK c \in Requests : c = Head(loop[Main])
  BY <1>1
<1>2. p.cb = NullCallback
  BY <1>1 DEF GraphicsInv, Place
<1>3. /\ loop' \in [PluginThreads -> Seq(LoopItems)] /\ OnceOnLoop' /\ OnLoop(c)
      /\ \A r \in Requests : (OnLoop(r)' <=> OnLoop(r) /\ r # c)
  BY <1>1, TakenEffect, TypeParts DEF GraphicsInv, Callbacks
<1>4. /\ req' \in [Requests -> ReqRecs]
      /\ req'[c].called = req[c].called + 1
      /\ \A q \in Requests : /\ req'[q].state = req[q].state
                             /\ q # c => req'[q].called = req[q].called
  BY <1>1, CallEffect, TypeParts DEF GraphicsInv
<1>5. TypeOK'
  BY <1>1, <1>3, <1>4, TypeParts, TypeNext DEF GraphicsInv
<1>6. Place'
  BY <1>1 DEF GraphicsInv, Place
<1>7. Locks' /\ Exposing' /\ Refs'
  BY <1>1, SameDevices
<1>8. Callbacks'
  <2>1. req[c].state = "pending" /\ req[c].called = 0 /\ ccb # c
    BY <1>3 DEF GraphicsInv, Callbacks
  <2>2. \A r \in Requests : (req'[r].state = "begun" <=> p'.cb = r)
    BY <1>1, <1>4 DEF GraphicsInv, Callbacks
  <2>3. ASSUME NEW r \in Requests
        PROVE  /\ ccb' = r => req'[r].state \in {"begun", "pending"} /\ ~OnLoop(r)' /\ req'[r].called = 0
               /\ OnLoop(r)' => req'[r].state = "pending" /\ req'[r].called = 0
               /\ req'[r].called <= 1
               /\ req'[r].called > 0 => req'[r].state = "pending"
               /\ req'[r].state = "pending" => ccb' = r \/ OnLoop(r)' \/ req'[r].called > 0
    <3>1. CASE r = c
      BY <1>1, <1>3, <1>4, <2>1, <3>1
    <3>2. CASE r # c
      BY <1>1, <1>3, <1>4, <3>2 DEF GraphicsInv, Callbacks
    <3>. QED
      BY <3>1, <3>2
  <2>. QED
    BY <1>1, <1>2, <1>3, <2>2, <2>3 DEF GraphicsInv, Callbacks
<1>. QED
  BY <1>5, <1>6, <1>7, <1>8 DEF GraphicsInv

(* The browser is asked for a redraw, or has one of its own. *)
LEMMA DamageKeeps ==
  ASSUME PlainPlugin, GraphicsInv, call_forceredraw_ptac \/ BrowserDamage
  PROVE  GraphicsInv'
<1>1. /\ dev' = dev /\ created' = created /\ own' = own /\ graphics' = graphics
      /\ ccb' = ccb /\ ccb_ml' = ccb_ml /\ in_progress' = in_progress
      /\ pc' = pc /\ p' = p /\ loop' = loop /\ expose' = expose /\ req' = req
      /\ binds' = binds /\ rebinds' = rebinds /\ damaged' = TRUE
  BY DEF call_forceredraw_ptac, BrowserDamage, inst, counts, p
<1>2. tasks' \in Nat /\ damages' \in 0 .. MaxDamage
  <2>1. tasks \in Nat /\ damages \in 0 .. MaxDamage /\ MaxDamage \in Nat
    BY TypeParts, BoundsAssumption DEF GraphicsInv
  <2>2. CASE call_forceredraw_ptac
    BY <2>1, <2>2 DEF call_forceredraw_ptac, counts
  <2>3. CASE BrowserDamage
    BY <2>1, <2>3 DEF BrowserDamage
  <2>. QED
    BY <2>2, <2>3
<1>3. TypeOK'
  BY <1>1, <1>2, TypeParts, TypeNext DEF GraphicsInv
<1>4. Place' /\ Locks' /\ Exposing'
  BY <1>1 DEF GraphicsInv, Place, Locks, Exposing
<1>5. Refs'
  BY <1>1 DEF GraphicsInv, Refs, Bound
<1>6. Callbacks'
  BY <1>1, LoopSame, SameCallbacks DEF GraphicsInv, Callbacks
<1>. QED
  BY <1>3, <1>4, <1>5, <1>6 DEF GraphicsInv

(* The expose handler looks for a device of one kind. *)
LEMMA AcquireKeeps ==
  ASSUME PlainPlugin, GraphicsInv,
         NEW devices, NEW field,
         \/ field = "g2d" /\ devices = Devices2D /\ expose.at = "idle"
         \/ field = "g3d" /\ devices = Devices3D /\ expose.at = "as_3d",
         TryAcquire(devices, field), damaged' \in BOOLEAN,
         UNCHANGED <<created, own, inst, pc, loop, tasks, req, counts>>
  PROVE  GraphicsInv'
<1>1. /\ created' = created /\ own' = own /\ graphics' = graphics
      /\ ccb' = ccb /\ ccb_ml' = ccb_ml /\ in_progress' = in_progress
      /\ pc' = pc /\ p' = p /\ loop' = loop /\ req' = req /\ tasks' = tasks
      /\ binds' = binds /\ rebinds' = rebinds /\ damages' = damages
  BY DEF inst, counts, p
<1>2. expose \in ExposeRecs /\ dev \in [Devices -> DevRecs] /\ graphics \in Devices \cup {None}
  BY TypeParts DEF GraphicsInv
<1>3. /\ expose.at = "idle" => expose.g2d = None /\ expose.g3d = None
      /\ expose.at = "as_3d" => expose.g3d = None
      /\ expose.g2d \in {None, graphics} /\ expose.g2d \in Devices2D \cup {None}
      /\ expose.g3d \in {None, graphics} /\ expose.g3d \in Devices3D \cup {None}
  BY DEF GraphicsInv, Exposing
<1>4. \A e \in Devices : (Bound(e)' <=> Bound(e))
  BY <1>1 DEF Bound
<1>5. Place' /\ Callbacks'
  <2>1. Place'
    BY <1>1 DEF GraphicsInv, Place
  <2>2. Callbacks'
    BY <1>1, LoopSame, SameCallbacks DEF GraphicsInv, Callbacks
  <2>. QED
    BY <2>1, <2>2
<1>6. CASE Exists(graphics) /\ graphics \in devices
  <2>. PICK d \in Devices : d = graphics
    BY <1>6 DEF Exists
  <2>1. dev[d].lock = None /\ dev' = Acquired(d, Browser)
    BY <1>6 DEF TryAcquire, CanAcquire
  <2>2. /\ dev' \in [Devices -> DevRecs]
        /\ dev'[d].refs = dev[d].refs + 1 /\ dev'[d].lock = Browser
        /\ \A e \in Devices : e # d => dev'[e] = dev[e]
    BY <1>2, <2>1, Names, AcquiredEffect
  <2>3. /\ expose' \in ExposeRecs
        /\ \/ /\ field = "g2d" /\ expose.at = "idle" /\ d \in Devices2D
              /\ expose'.at = "as_3d" /\ expose'.g2d = d /\ expose'.g3d = None
           \/ /\ field = "g3d" /\ expose.at = "as_3d" /\ d \in Devices3D
              /\ expose'.at = "draw" /\ expose'.g2d = expose.g2d /\ expose'.g3d = d
    <3>1. CASE field = "g2d" /\ devices = Devices2D /\ expose.at = "idle"
      <4>1. expose' = [expose EXCEPT !["g2d"] = d, !.at = "as_3d"] /\ d \in Devices2D
        BY <1>6, <3>1 DEF TryAcquire
      <4>. QED
        BY <1>2, <1>3, <3>1, <4>1 DEF ExposeRecs
    <3>2. CASE field = "g3d" /\ devices = Devices3D /\ expose.at = "as_3d"
      <4>1. expose' = [expose EXCEPT !["g3d"] = d, !.at = "draw"] /\ d \in Devices3D
        BY <1>6, <3>2 DEF TryAcquire
      <4>. QED
        BY <1>2, <1>3, <3>2, <4>1 DEF ExposeRecs
    <3>. QED
      BY <3>1, <3>2
  <2>4. TypeOK'
    BY <1>1, <2>2, <2>3, TypeParts, TypeNext DEF GraphicsInv
  <2>5. Locks'
    <3>1. p.dev = d => p.at \notin Locking
      BY <2>1, Names DEF GraphicsInv, Locks
    <3>2. expose.g2d # d /\ expose.g3d # d
      BY <2>1, Names DEF GraphicsInv, Locks
    <3>3. \A e \in Devices : e # d =>
            (expose'.g2d = e \/ expose'.g3d = e <=> expose.g2d = e \/ expose.g3d = e)
      BY <1>3, <2>3, Names
    <3>. QED
      BY <1>1, <2>1, <2>2, <2>3, <3>1, <3>2, <3>3, Names DEF GraphicsInv, Locks
  <2>6. Exposing'
    BY <1>1, <1>3, <2>3 DEF Exposing
  <2>7. Refs'
    <3>0. dev[d].refs \in Nat /\ own[d] \in Nat
      BY Types DEF GraphicsInv
    <3>1. dev'[d].refs = own'[d] + One(Bound(d)') + One(dev'[d].lock # None)
      BY <1>1, <1>4, <2>1, <2>2, <3>0, Names DEF GraphicsInv, Refs, One
    <3>2. \A e \in Devices : e # d => dev'[e].refs = own'[e] + One(Bound(e)') + One(dev'[e].lock # None)
      BY <1>1, <1>4, <2>2 DEF GraphicsInv, Refs, One
    <3>. QED
      BY <1>1, <3>1, <3>2 DEF GraphicsInv, Refs
  <2>. QED
    BY <1>5, <2>4, <2>5, <2>6, <2>7 DEF GraphicsInv
<1>7. CASE ~(Exists(graphics) /\ graphics \in devices)
  <2>1. dev' = dev
    BY <1>7 DEF TryAcquire
  <2>2. expose' \in ExposeRecs /\ expose'.g2d = expose.g2d /\ expose'.g3d = expose.g3d
        /\ \/ expose.at = "idle" /\ expose'.at = "as_3d"
           \/ expose.at = "as_3d" /\ expose'.at = "draw"
    <3>1. expose' = [expose EXCEPT !.at = IF @ = "idle" THEN "as_3d" ELSE "draw"]
      BY <1>7 DEF TryAcquire
    <3>. QED
      BY <1>2, <3>1 DEF ExposeRecs
  <2>3. TypeOK'
    BY <1>1, <2>1, <2>2, TypeParts, TypeNext DEF GraphicsInv
  <2>4. Locks'
    BY <1>1, <2>1, <2>2 DEF GraphicsInv, Locks
  <2>5. Exposing'
    BY <1>1, <1>3, <2>2 DEF Exposing
  <2>6. Refs'
    BY <1>1, <1>4, <2>1 DEF GraphicsInv, Refs, One
  <2>. QED
    BY <1>5, <2>3, <2>4, <2>5, <2>6 DEF GraphicsInv
<1>. QED
  BY <1>6, <1>7

LEMMA ExposeDrawKeeps ==
  ASSUME PlainPlugin, GraphicsInv, ExposeDraw
  PROVE  GraphicsInv'
<1>1. /\ created' = created /\ own' = own /\ graphics' = graphics
      /\ ccb' = ccb /\ ccb_ml' = ccb_ml /\ in_progress' = in_progress
      /\ pc' = pc /\ p' = p /\ tasks' = tasks /\ damaged' = damaged
      /\ binds' = binds /\ rebinds' = rebinds /\ damages' = damages
      /\ expose.at = "draw"
  BY DEF ExposeDraw, inst, counts, p
<1>2. /\ expose' \in ExposeRecs /\ expose'.at = "idle" /\ expose'.g2d = None /\ expose'.g3d = None
  BY DEF ExposeDraw, NoExpose, ExposeRecs
<1>3. /\ expose.g2d \in {None, graphics} /\ expose.g3d \in {None, graphics}
  BY DEF GraphicsInv, Exposing
<1>4. \A e \in Devices : (Bound(e)' <=> Bound(e))
  BY <1>1 DEF Bound
<1>5. Place' /\ Exposing'
  BY <1>1, <1>2 DEF GraphicsInv, Place, Exposing
<1>6. CASE expose.g2d = None /\ expose.g3d = None
  <2>1. dev' = dev /\ loop' = loop /\ req' = req
    BY <1>6 DEF ExposeDraw
  <2>2. TypeOK'
    BY <1>1, <1>2, <2>1, TypeParts, TypeNext DEF GraphicsInv
  <2>3. Locks'
    BY <1>1, <1>2, <1>6, <2>1 DEF GraphicsInv, Locks
  <2>4. Refs'
    BY <1>1, <1>4, <2>1 DEF GraphicsInv, Refs, One
  <2>5. Callbacks'
    BY <1>1, <2>1, LoopSame, SameCallbacks DEF GraphicsInv, Callbacks
  <2>. QED
    BY <1>5, <2>2, <2>3, <2>4, <2>5 DEF GraphicsInv
<1>7. CASE ~(expose.g2d = None /\ expose.g3d = None)
  <2>1. graphics \in Devices /\ dev[graphics].lock = Browser
    BY <1>3, <1>7, Types DEF GraphicsInv, Locks
  <2>. PICK d \in Devices : d = graphics
    BY <2>1
  <2>2. dev[d].refs \in Nat /\ own[d] \in Nat
    BY Types DEF GraphicsInv
  <2>3. dev[d].refs = own[d] + One(Bound(d)) + 1
    BY <2>1, Names DEF GraphicsInv, Refs, One
  <2>4. /\ dev' \in [Devices -> DevRecs]
        /\ dev'[d].refs = dev[d].refs - 1 /\ dev'[d].lock = None
        /\ \A e \in Devices : e # d => dev'[e] = dev[e]
    <3>1. dev[d].refs > 0
      BY <2>2, <2>3 DEF One
    <3>2. dev' = Release(dev, d)
      BY <1>7 DEF ExposeDraw
    <3>. QED
      BY <3>1, <3>2, ReleasedEffect, TypeParts DEF GraphicsInv
  <2>5. /\ req' \in [Requests -> ReqRecs]
        /\ \A q \in Requests : req'[q].state = req[q].state /\ req'[q].called = req[q].called
    <3>1. PICK e : req' = Shown(e)
      BY <1>7 DEF ExposeDraw
    <3>. QED
      BY <3>1, ShownEffect, TypeParts DEF GraphicsInv
  <2>6. /\ loop' \in [PluginThreads -> Seq(LoopItems)] /\ OnceOnLoop'
        /\ \A r \in Requests : (OnLoop(r)' <=> OnLoop(r))
    <3>0. loop \in [PluginThreads -> Seq(LoopItems)] /\ OnceOnLoop
          /\ ccb_ml \in PluginThreads \cup {None}
      BY TypeParts DEF GraphicsInv, Callbacks
    <3>1. CASE loop' = [loop EXCEPT ![ccb_ml] = Append(@, Wrapper)] /\ ccb_ml = Main
      <4>1. Wrapper \in LoopItems /\ loop' = [loop EXCEPT ![Main] = Append(@, Wrapper)]
        BY <3>1 DEF LoopItems
      <4>. QED
        BY <3>0, <4>1, Names, PostedEffect
    <3>2. CASE loop' = [loop EXCEPT ![ccb_ml] = Append(@, Wrapper)] /\ ccb_ml # Main
      <4>1. ccb_ml \notin PluginThreads
        BY <3>2, Names
      <4>2. loop' = loop
        BY <3>0, <3>2, <4>1
      <4>. QED
        BY <3>0, <4>2, LoopSame
    <3>3. CASE loop' = loop
      BY <3>0, <3>3, LoopSame
    <3>. QED
      BY <1>7, <3>1, <3>2, <3>3 DEF ExposeDraw
  <2>7. TypeOK'
    BY <1>1, <1>2, <2>4, <2>5, <2>6, TypeParts, TypeNext DEF GraphicsInv
  <2>8. Locks'
    <3>1. \A e \in Devices : e # d => ~(expose.g2d = e \/ expose.g3d = e)
      BY <1>3, Names
    <3>2. p.dev = d => p.at \notin Locking
      BY <2>1, Names DEF GraphicsInv, Locks
    <3>. QED
      BY <1>1, <1>2, <2>4, <3>1, <3>2, Names DEF GraphicsInv, Locks
  <2>9. Refs'
    <3>1. dev'[d].refs = own'[d] + One(Bound(d)') + One(dev'[d].lock # None)
      BY <1>1, <1>4, <2>2, <2>3, <2>4 DEF One
    <3>2. \A e \in Devices : e # d => dev'[e].refs = own'[e] + One(Bound(e)') + One(dev'[e].lock # None)
      BY <1>1, <1>4, <2>4 DEF GraphicsInv, Refs, One
    <3>. QED
      BY <1>1, <3>1, <3>2 DEF GraphicsInv, Refs
  <2>10. Callbacks'
    BY <1>1, <2>5, <2>6, SameCallbacks
  <2>. QED
    BY <1>5, <2>7, <2>8, <2>9, <2>10 DEF GraphicsInv
<1>. QED
  BY <1>6, <1>7

-----------------------------------------------------------------------------
(* Results *)

LEMMA GraphicsInvNext ==
  ASSUME PlainPlugin, GraphicsInv, [Next]_vars
  PROVE  GraphicsInv'
<1>1. ASSUME NEW t \in PluginThreads, PluginStep(t) PROVE GraphicsInv'
  <2>1. PluginStep(Main)
    BY <1>1, Names
  <2>. QED
    BY <2>1, FlushStoreKeeps, FlushDrawKeeps, FlushRedrawKeeps, FlushPostKeeps, SwapStoreKeeps,
       SwapRedrawKeeps, BindSetKeeps, BindRefsKeeps, BindDoneKeeps, UnbindSetKeeps
    DEF PluginStep
<1>2. ASSUME NEW t \in PluginThreads, LoopStep(t) PROVE GraphicsInv'
  <2>1. LoopStep(Main)
    BY <1>2, Names
  <2>. QED
    BY <2>1, WrapperKeeps, CallUnboundKeeps DEF LoopStep
<1>3. ASSUME NEW t \in PluginThreads, PluginCall(t) PROVE GraphicsInv'
  <2>1. PluginCall(Main)
    BY <1>3, Names
  <2>2. ASSUME NEW d \in Devices,
               CreateDevice(Main, d) \/ ReleaseDevice(Main, d) \/ ppb_instance_bind_graphics(Main, d)
        PROVE  GraphicsInv'
    BY <2>2, CreateKeeps, ReleaseKeeps, BindKeeps
  <2>3. ASSUME NEW d \in Devices2D, NEW r \in Requests, NEW cb \in {r, NullCallback},
               ppb_graphics2d_flush(Main, d, r, cb)
        PROVE  GraphicsInv'
    <3>1. /\ BeginRequest(Main, d, r, cb, "flush_store") /\ d \in Devices
          /\ UNCHANGED <<created, own, inst, loop, tasks, damaged, expose, counts>>
          /\ "flush_store" \in {"flush_store", "swap_store"}
      BY <2>3, Names DEF ppb_graphics2d_flush
    <3>. QED
      BY <2>3, <3>1, RequestKeeps
  <2>4. ASSUME NEW d \in Devices3D, NEW r \in Requests, NEW cb \in {r, NullCallback},
               ppb_graphics3d_swap_buffers(Main, d, r, cb)
        PROVE  GraphicsInv'
    <3>1. /\ BeginRequest(Main, d, r, cb, "swap_store") /\ d \in Devices
          /\ UNCHANGED <<created, own, inst, loop, tasks, damaged, expose, counts>>
          /\ "swap_store" \in {"flush_store", "swap_store"}
      BY <2>4, Names DEF ppb_graphics3d_swap_buffers
    <3>. QED
      BY <2>4, <3>1, RequestKeeps
  <2>. QED
    BY <2>1, <2>2, <2>3, <2>4, UnbindKeeps DEF PluginCall
<1>4. CASE call_forceredraw_ptac \/ BrowserDamage
  BY <1>4, DamageKeeps
<1>5. CASE handle_graphics_expose_event
  <2>1. /\ expose.at = "idle" /\ damaged' = FALSE /\ TryAcquire(Devices2D, "g2d")
        /\ UNCHANGED <<created, own, inst, pc, loop, tasks, req, counts>>
    BY <1>5 DEF handle_graphics_expose_event
  <2>2. damaged' \in BOOLEAN
    BY <2>1
  <2>. QED
    BY <2>1, <2>2, AcquireKeeps
<1>6. CASE ExposeAcquire3D
  <2>1. /\ expose.at = "as_3d" /\ damaged' = damaged /\ TryAcquire(Devices3D, "g3d")
        /\ UNCHANGED <<created, own, inst, pc, loop, tasks, req, counts>>
    BY <1>6 DEF ExposeAcquire3D
  <2>2. damaged' \in BOOLEAN
    BY <2>1, TypeParts DEF GraphicsInv
  <2>. QED
    BY <2>1, <2>2, AcquireKeeps
<1>7. CASE UNCHANGED vars
  <2>1. /\ dev' = dev /\ created' = created /\ own' = own /\ graphics' = graphics
        /\ ccb' = ccb /\ ccb_ml' = ccb_ml /\ in_progress' = in_progress
        /\ pc' = pc /\ p' = p /\ loop' = loop /\ expose' = expose /\ req' = req
        /\ binds' = binds /\ rebinds' = rebinds /\ damaged' = damaged
        /\ tasks' = tasks /\ damages' = damages
    BY <1>7 DEF vars, inst, counts, p
  <2>2. TypeOK'
    BY <2>1, TypeParts, TypeNext DEF GraphicsInv
  <2>3. Place' /\ Locks' /\ Exposing'
    BY <2>1 DEF GraphicsInv, Place, Locks, Exposing
  <2>4. Refs'
    BY <2>1 DEF GraphicsInv, Refs, Bound
  <2>5. Callbacks'
    BY <2>1, LoopSame, SameCallbacks DEF GraphicsInv, Callbacks
  <2>. QED
    BY <2>2, <2>3, <2>4, <2>5 DEF GraphicsInv
<1>. QED
  BY <1>1, <1>2, <1>3, <1>4, <1>5, <1>6, <1>7, ExposeDrawKeeps DEF Next, BrowserStep

-----------------------------------------------------------------------------
(* The properties *)

LEMMA AtMostOne ==
  ASSUME NEW S, \A x, y \in S : x = y
  PROVE  \/ (S = {} /\ Cardinality(S) = 0)
         \/ (S # {} /\ Cardinality(S) = 1)
<1>1. CASE S = {}
  BY <1>1, FS_EmptySet
<1>2. CASE S # {}
  <2>1. PICK x : S = {x}
    BY <1>2
  <2>. QED
    BY <2>1, FS_Singleton
<1>. QED
  BY <1>1, <1>2

LEMMA GraphicsInvLocks ==
  ASSUME PlainPlugin, GraphicsInv
  PROVE  NoLockIsLeftBehind
<1>. SUFFICES ASSUME NEW d \in Devices
              PROVE  /\ dev[d].lock \in PluginThreads =>
                          /\ pc[dev[d].lock].dev = d
                          /\ pc[dev[d].lock].at \in Locking
                     /\ dev[d].lock = Browser => d \in {expose.g2d, expose.g3d}
  BY DEF NoLockIsLeftBehind, Locking
<1>1. (dev[d].lock = Main => p.dev = d /\ p.at \in Locking)
      /\ (dev[d].lock = Browser => expose.g2d = d \/ expose.g3d = d)
  BY DEF GraphicsInv, Locks
<1>2. dev[d].lock \in PluginThreads => dev[d].lock = Main
  BY Names
<1>. QED
  BY <1>1, <1>2 DEF p

(* The only call of BindGraphics that has references to move is the one    *)
(* that has yet to take that of the instance.                              *)
LEMMA GraphicsInvInstanceRefs ==
  ASSUME PlainPlugin, GraphicsInv, NEW d \in Devices
  PROVE  InstanceRefs(d) = One(Bound(d))
<1>. PICK A : A = {t \in PluginThreads : At(t, "bind_refs") /\ pc[t].prev = d}
  OBVIOUS
<1>. PICK B : B = {t \in PluginThreads : \/ At(t, "bind_refs") /\ pc[t].dev = d
                                         \/ At(t, "unbind_set") /\ pc[t].prev = d}
  OBVIOUS
<1>0. /\ p.at = "bind_refs" => graphics = p.dev /\ p.prev = None
      /\ p.at = "unbind_set" => p.prev = None
  BY DEF GraphicsInv, Place
<1>1. d # None /\ Main \in PluginThreads /\ \A t \in PluginThreads : t = Main
  BY Names
<1>2. A = {}
  BY <1>0, <1>1 DEF At, p
<1>3. B # {} <=> p.at = "bind_refs" /\ p.dev = d
  BY <1>0, <1>1 DEF At, p
<1>4. Cardinality(A) = 0
  BY <1>2, FS_EmptySet
<1>5. \A x, y \in B : x = y
  BY <1>1
<1>6. InstanceRefs(d) = (IF graphics = d THEN 1 ELSE 0) + Cardinality(A) - Cardinality(B)
  BY DEF InstanceRefs
<1>7. CASE p.at = "bind_refs" /\ p.dev = d
  <2>1. Cardinality(B) = 1 /\ graphics = d
    BY <1>0, <1>3, <1>5, <1>7, AtMostOne
  <2>. QED
    BY <1>4, <1>6, <1>7, <2>1 DEF One, Bound
<1>8. CASE ~(p.at = "bind_refs" /\ p.dev = d)
  <2>1. Cardinality(B) = 0
    BY <1>3, <1>5, <1>8, AtMostOne
  <2>2. Bound(d) <=> graphics = d
    BY <1>0, <1>8 DEF Bound
  <2>. QED
    BY <1>4, <1>6, <2>1, <2>2 DEF One
<1>. QED
  BY <1>7, <1>8

LEMMA GraphicsInvDevices ==
  ASSUME PlainPlugin, GraphicsInv
  PROVE  DevicesAreReleased
<1>1. TypeOK
  BY DEF GraphicsInv
<1>2. ASSUME NEW d \in Devices
      PROVE  dev[d].refs = own[d] + InstanceRefs(d) + (IF dev[d].lock # None THEN 1 ELSE 0)
  <2>1. dev[d].refs = own[d] + One(Bound(d)) + One(dev[d].lock # None)
    BY DEF GraphicsInv, Refs
  <2>. QED
    BY <2>1, GraphicsInvInstanceRefs DEF One
<1>3. DeviceRefsAreExact
  BY <1>2 DEF DeviceRefsAreExact
<1>. QED
  BY <1>1, <1>3, GraphicsInvLocks DEF DevicesAreReleased

LEMMA GraphicsInvPosted ==
  ASSUME PlainPlugin, GraphicsInv, NEW r \in Requests
  PROVE  Posted(r) = One(OnLoop(r))
<1>. PICK S : S = UNION {{<<t, i>> : i \in {j \in DOMAIN loop[t] : loop[t][j] = r}} :
                         t \in PluginThreads}
  OBVIOUS
<1>. PICK T : T = {j \in DOMAIN loop[Main] : loop[Main][j] = r}
  OBVIOUS
<1>1. r # Wrapper /\ PluginThreads = {Main}
  BY Names DEF PlainPlugin
<1>2. S = {<<Main, i>> : i \in T}
  BY <1>1
<1>3. \A x, y \in T : x = y
  BY <1>1 DEF GraphicsInv, Callbacks, OnceOnLoop
<1>4. \A x, y \in S : x = y
  BY <1>2, <1>3
<1>5. S # {} <=> OnLoop(r)
  <2>1. \A i \in T : <<Main, i>> \in S
    BY <1>2
  <2>2. S # {} => T # {}
    BY <1>2
  <2>3. T # {} <=> OnLoop(r)
    BY DEF OnLoop
  <2>. QED
    BY <2>1, <2>2, <2>3
<1>6. Posted(r) = Cardinality(S)
  BY DEF Posted
<1>. QED
  BY <1>4, <1>5, <1>6, AtMostOne DEF One

LEMMA GraphicsInvCallbacks ==
  ASSUME PlainPlugin, GraphicsInv
  PROVE  CallbacksAreNeitherLostNorDoubled
<1>. SUFFICES ASSUME NEW r \in Requests
              PROVE  LET places == (IF ccb = r THEN 1 ELSE 0) + Posted(r) + req[r].called
                     IN /\ req[r].state = "pending" => places = 1
                        /\ req[r].state = "none" => places = 0
                        /\ places <= 1
  BY DEF CallbacksAreNeitherLostNorDoubled
<1>. PICK a : a = (IF ccb = r THEN 1 ELSE 0)
  OBVIOUS
<1>. PICK b : b = Posted(r)
  OBVIOUS
<1>. PICK c : c = req[r].called
  OBVIOUS
<1>1. /\ ccb = r => req[r].state \in {"begun", "pending"} /\ ~OnLoop(r) /\ req[r].called = 0
      /\ OnLoop(r) => req[r].state = "pending" /\ req[r].called = 0
      /\ req[r].called <= 1
      /\ req[r].called > 0 => req[r].state = "pending"
      /\ req[r].state = "pending" => ccb = r \/ OnLoop(r) \/ req[r].called > 0
  BY DEF GraphicsInv, Callbacks
<1>2. c \in Nat
  BY Types DEF GraphicsInv
<1>3. a \in {0, 1} /\ (a = 1 <=> ccb = r)
  OBVIOUS
<1>4. b \in {0, 1} /\ (b = 1 <=> OnLoop(r))
  BY GraphicsInvPosted DEF One
<1>5. c \in {0, 1} /\ (c = 1 <=> req[r].called > 0)
  BY <1>1, <1>2
<1>6. /\ a = 1 => b = 0 /\ c = 0 /\ req[r].state # "none"
      /\ b = 1 => c = 0 /\ req[r].state # "none"
      /\ c = 1 => req[r].state # "none"
      /\ req[r].state = "pending" => a = 1 \/ b = 1 \/ c = 1
  BY <1>1, <1>3, <1>4, <1>5
<1>7. /\ req[r].state = "pending" => a + b + c = 1
      /\ req[r].state = "none" => a + b + c = 0
      /\ a + b + c <= 1
  BY ONLY <1>3, <1>4, <1>5, <1>6
<1>. QED
  BY <1>7

(* What the two theorems rest on, as one step of temporal logic. *)
LEMMA GraphicsInvAlways ==
  ASSUME PlainPlugin
  PROVE  Spec => []GraphicsInv
<1>1. Init => GraphicsInv
  BY GraphicsInvInit
<1>2. GraphicsInv /\ [Next]_vars => GraphicsInv'
  BY GraphicsInvNext
<1>. QED
  BY <1>1, <1>2, PTL DEF Spec

(* A plugin that calls Flush, SwapBuffers and BindGraphics on one thread   *)
(* and does not replace the device it has bound leaves no device locked    *)
(* and keeps every reference count exact, whatever it calls and however    *)
(* the expose events of the browser fall between: refused flushes, NULL    *)
(* callbacks and devices released while they are bound included.           *)
(* The hypotheses are what the code needs: a BindGraphics of another       *)
(* device between the acquire and the release of the expose handler makes  *)
(* it release the wrong one (src/np_functions.c reads pp_i->graphics       *)
(* twice).                                                                 *)
THEOREM GraphicsReleasesDevices ==
  ASSUME \E t : PluginThreads = {t}, MaxRebinds = 0
  PROVE  Spec => []DevicesAreReleased
<1>1. PlainPlugin
  BY DEF PlainPlugin, Main
<1>2. GraphicsInv => DevicesAreReleased
  BY <1>1, GraphicsInvDevices
<1>. QED
  BY <1>1, <1>2, GraphicsInvAlways, PTL

(* Under the same hypotheses every callback that Flush or SwapBuffers has  *)
(* promised to call is in exactly one place, the instance, the loop of the *)
(* thread, or called, and is called at most once; a call that was refused  *)
(* has left its callback nowhere.                                          *)
THEOREM GraphicsCallsBackOnce ==
  ASSUME \E t : PluginThreads = {t}, MaxRebinds = 0
  PROVE  Spec => []CallbacksAreNeitherLostNorDoubled
<1>1. PlainPlugin
  BY DEF PlainPlugin, Main
<1>2. GraphicsInv => CallbacksAreNeitherLostNorDoubled
  BY <1>1, GraphicsInvCallbacks
<1>. QED
  BY <1>1, <1>2, GraphicsInvAlways, PTL
=============================================================================
