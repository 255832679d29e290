----------------------------- MODULE PPResource -----------------------------
(***************************************************************************)
(* The resource table of src/pp_resource.c: integer handles handed to the  *)
(* plugin, a reference count and a mutex per resource, and one global      *)
(* mutex, res_tbl_lock, around the table.                                  *)
(*                                                                         *)
(* Every critical section under res_tbl_lock is one action.  A call that   *)
(* has more than one section (pp_resource_release unlocks, then unrefs;    *)
(* pp_resource_unref drops the count, then destroys outside the lock;      *)
(* pp_resource_acquire retries) is a sequence of actions tracked by pc.    *)
(***************************************************************************)
EXTENDS Integers, FiniteSets

CONSTANTS
  Threads,    \* threads of the plugin process that use resources
  NoThread,   \* "nobody": an unlocked mutex, a published resource
  Types,      \* resource types (enum pp_resource_type_e)
  NestOrder,  \* <<outer, inner>>: the nested acquires of the callers
  MaxId,      \* bound: number of handles ever allocated
  MaxRefs     \* bound: references the plugin keeps on one resource

ASSUME ThreadsAssumption == IsFiniteSet(Threads) /\ NoThread \notin Threads
ASSUME TypesAssumption   == Types # {}
ASSUME BoundsAssumption  == MaxId \in Nat /\ MaxRefs \in Nat \ {0}

Ids == 1 .. MaxId

VARIABLES
  res_tbl,      \* handles present in the hash table
  res_tbl_next, \* next handle
  res,          \* the structures: type, ref_cnt and lock of each handle
  mem,          \* what the memory of the structure is: none, live or freed
  destroyed,    \* how often the destructor of the resource was called
  pc,           \* the call each thread is in the middle of
  held,         \* resources each thread acquired and has not released
  owned,        \* references the clients of the table account for
  creator       \* thread still constructing the resource, or NoThread

vars == <<res_tbl, res_tbl_next, res, mem, destroyed, pc, held, owned, creator>>

Idle == [op |-> "idle"]

Calls == {Idle}
         \cup [op : {"acquire"}, id : Ids, type : Types]
         \cup [op : {"unref", "destroy"}, id : Ids]

Resource == [type : Types, ref_cnt : Nat, lock : Threads \cup {NoThread}]

TypeOK ==
  /\ res_tbl \subseteq Ids
  /\ res_tbl_next \in 1 .. MaxId + 1
  /\ res \in [Ids -> Resource]
  /\ mem \in [Ids -> {"none", "live", "freed"}]
  /\ destroyed \in [Ids -> Nat]
  /\ pc \in [Threads -> Calls]
  /\ held \in [Threads -> SUBSET Ids]
  /\ owned \in [Ids -> Nat]
  /\ creator \in [Ids -> Threads \cup {NoThread}]

SomeType == CHOOSE ty \in Types : TRUE

Init ==
  /\ res_tbl = {}
  /\ res_tbl_next = 1
  /\ res = [i \in Ids |-> [type |-> SomeType, ref_cnt |-> 0, lock |-> NoThread]]
  /\ mem = [i \in Ids |-> "none"]
  /\ destroyed = [i \in Ids |-> 0]
  /\ pc = [t \in Threads |-> Idle]
  /\ held = [t \in Threads |-> {}]
  /\ owned = [i \in Ids |-> 0]
  /\ creator = [i \in Ids |-> NoThread]

-----------------------------------------------------------------------------
(* A thread names a handle it is constructing or one that was returned to  *)
(* the plugin.  A handle that is not, or no longer, in the table is legal. *)
CanName(t, id) == id < res_tbl_next /\ creator[id] \in {t, NoThread}

pp_resource_allocate(t, ty) ==
  LET id == res_tbl_next IN
  /\ pc[t] = Idle
  /\ id \in Ids
  /\ res' = [res EXCEPT ![id] = [type |-> ty, ref_cnt |-> 1, lock |-> NoThread]]
  /\ res_tbl_next' = id + 1
  /\ res_tbl' = res_tbl \cup {id}
  /\ mem' = [mem EXCEPT ![id] = "live"]
  /\ owned' = [owned EXCEPT ![id] = 1]
  /\ creator' = [creator EXCEPT ![id] = t]
  /\ UNCHANGED <<destroyed, pc, held>>

(* The constructing function returns the handle to the plugin. *)
ReturnHandle(t, id) ==
  /\ pc[t] = Idle
  /\ creator[id] = t
  /\ id \in res_tbl
  /\ id \notin held[t]
  /\ creator' = [creator EXCEPT ![id] = NoThread]
  /\ UNCHANGED <<res_tbl, res_tbl_next, res, mem, destroyed, pc, held, owned>>

(* The error path of ppb_audio_create and ppb_graphics3d_create: the       *)
(* resource goes away with no call to its destructor.                      *)
pp_resource_expunge(t, id) ==
  /\ pc[t] = Idle
  /\ creator[id] = t
  /\ id \in res_tbl
  /\ id \notin held[t]
  /\ mem' = [mem EXCEPT ![id] = "freed"]
  /\ res_tbl' = res_tbl \ {id}
  /\ owned' = [owned EXCEPT ![id] = 0]
  /\ UNCHANGED <<res_tbl_next, res, destroyed, pc, held, creator>>

-----------------------------------------------------------------------------
(* The retry loop of pp_resource_acquire: a failed trylock changes nothing *)
(* and the table is looked up again.                                       *)
BeginAcquire(t, id, ty) ==
  /\ pc[t] = Idle
  /\ CanName(t, id)
  /\ id \notin held[t]
  /\ \A h \in held[t] : <<res[h].type, ty>> \in NestOrder
  /\ pc' = [pc EXCEPT ![t] = [op |-> "acquire", id |-> id, type |-> ty]]
  /\ UNCHANGED <<res_tbl, res_tbl_next, res, mem, destroyed, held, owned, creator>>

Found(id, ty) == id \in res_tbl /\ res[id].type = ty

(* Mutant: no reference is taken for the acquirer. *)
AcquireWithoutRef(t) ==
  /\ pc[t].op = "acquire"
  /\ LET id == pc[t].id IN
     /\ Found(id, pc[t].type)
     /\ res[id].lock = NoThread
     /\ res' = [res EXCEPT ![id].lock = t]
     /\ held' = [held EXCEPT ![t] = @ \cup {id}]
  /\ pc' = [pc EXCEPT ![t] = Idle]
  /\ UNCHANGED <<res_tbl, res_tbl_next, mem, destroyed, owned, creator>>

pp_resource_acquire(t) ==
  /\ pc[t].op = "acquire"
  /\ LET id == pc[t].id IN
     /\ Found(id, pc[t].type)
     /\ res[id].lock = NoThread
     /\ res' = [res EXCEPT ![id].lock = t, ![id].ref_cnt = @ + 1]
     /\ held' = [held EXCEPT ![t] = @ \cup {id}]
  /\ pc' = [pc EXCEPT ![t] = Idle]
  /\ UNCHANGED <<res_tbl, res_tbl_next, mem, destroyed, owned, creator>>

AcquireReturnsNull(t) ==
  /\ pc[t].op = "acquire"
  /\ ~Found(pc[t].id, pc[t].type)
  /\ pc' = [pc EXCEPT ![t] = Idle]
  /\ UNCHANGED <<res_tbl, res_tbl_next, res, mem, destroyed, held, owned, creator>>

(* Mutants: the reference of the acquirer is not dropped; the lock is not. *)
ReleaseWithoutUnref(t, id) ==
  /\ pc[t] = Idle
  /\ id \in held[t]
  /\ res' = [res EXCEPT ![id].lock = NoThread]
  /\ held' = [held EXCEPT ![t] = @ \ {id}]
  /\ UNCHANGED <<res_tbl, res_tbl_next, mem, destroyed, owned, creator, pc>>

ReleaseKeepsLock(t, id) ==
  /\ pc[t] = Idle
  /\ id \in held[t]
  /\ held' = [held EXCEPT ![t] = @ \ {id}]
  /\ pc' = [pc EXCEPT ![t] = [op |-> "unref", id |-> id]]
  /\ UNCHANGED <<res, res_tbl, res_tbl_next, mem, destroyed, owned, creator>>

pp_resource_release(t, id) ==
  /\ pc[t] = Idle
  /\ id \in held[t]
  /\ res' = IF id \in res_tbl THEN [res EXCEPT ![id].lock = NoThread] ELSE res
  /\ held' = [held EXCEPT ![t] = @ \ {id}]
  /\ pc' = [pc EXCEPT ![t] = [op |-> "unref", id |-> id]]
  /\ UNCHANGED <<res_tbl, res_tbl_next, mem, destroyed, owned, creator>>

-----------------------------------------------------------------------------
(* AddRefResource and ReleaseResource are legal with a reference to the    *)
(* resource, and harmless with a handle whose resource is gone: handles    *)
(* are never reused.                                                       *)
MayCount(t, id) ==
  /\ pc[t] = Idle
  /\ id < res_tbl_next
  /\ creator[id] = NoThread
  /\ owned[id] > 0 \/ id \notin res_tbl

pp_resource_ref(t, id) ==
  /\ MayCount(t, id)
  /\ IF id \in res_tbl
     THEN /\ owned[id] < MaxRefs
          /\ res' = [res EXCEPT ![id].ref_cnt = @ + 1]
          /\ owned' = [owned EXCEPT ![id] = @ + 1]
     ELSE UNCHANGED <<res, owned>>
  /\ UNCHANGED <<res_tbl, res_tbl_next, mem, destroyed, pc, held, creator>>

(* Mutants: the lookup result is not checked; the handle stays in the table *)
(* while the destructor runs.                                               *)
UnrefUnchecked(t, id) ==
  LET gone == res[id].ref_cnt - 1 <= 0 IN
  /\ res' = [res EXCEPT ![id].ref_cnt = @ - 1]
  /\ res_tbl' = IF gone THEN res_tbl \ {id} ELSE res_tbl
  /\ pc' = [pc EXCEPT ![t] = IF gone THEN [op |-> "destroy", id |-> id] ELSE Idle]

UnrefKeepsHandle(t, id) ==
  IF id \notin res_tbl
  THEN /\ pc' = [pc EXCEPT ![t] = Idle]
       /\ UNCHANGED <<res, res_tbl>>
  ELSE /\ res' = [res EXCEPT ![id].ref_cnt = @ - 1]
       /\ pc' = [pc EXCEPT ![t] =
                   IF res[id].ref_cnt <= 1 THEN [op |-> "destroy", id |-> id] ELSE Idle]
       /\ UNCHANGED res_tbl

(* The critical section of pp_resource_unref, run by thread t. *)
UnrefSection(t, id) ==
  IF id \notin res_tbl
  THEN /\ pc' = [pc EXCEPT ![t] = Idle]
       /\ UNCHANGED <<res, res_tbl>>
  ELSE LET gone == res[id].ref_cnt - 1 <= 0 IN
       /\ res' = [res EXCEPT ![id].ref_cnt = @ - 1]
       /\ res_tbl' = IF gone THEN res_tbl \ {id} ELSE res_tbl
       /\ pc' = [pc EXCEPT ![t] = IF gone THEN [op |-> "destroy", id |-> id] ELSE Idle]

(* PPB_Core.ReleaseResource, or wrapper code dropping a reference it took. *)
pp_resource_unref(t, id) ==
  /\ MayCount(t, id)
  /\ owned' = IF id \in res_tbl THEN [owned EXCEPT ![id] = @ - 1] ELSE owned
  /\ UnrefSection(t, id)
  /\ UNCHANGED <<res_tbl_next, mem, destroyed, held, creator>>

(* The second half of pp_resource_release. *)
ReleaseUnref(t) ==
  /\ pc[t].op = "unref"
  /\ UnrefSection(t, pc[t].id)
  /\ UNCHANGED <<res_tbl_next, mem, destroyed, held, owned, creator>>

(* The destructor and g_slice_free1, outside res_tbl_lock. *)
RunDestructor(t) ==
  /\ pc[t].op = "destroy"
  /\ mem' = [mem EXCEPT ![pc[t].id] = "freed"]
  /\ destroyed' = [destroyed EXCEPT ![pc[t].id] = @ + 1]
  /\ pc' = [pc EXCEPT ![t] = Idle]
  /\ UNCHANGED <<res_tbl, res_tbl_next, res, held, owned, creator>>

-----------------------------------------------------------------------------
Next ==
  \/ \E t \in Threads, ty \in Types : pp_resource_allocate(t, ty)
  \/ \E t \in Threads, id \in Ids : ReturnHandle(t, id)
  \/ \E t \in Threads, id \in Ids : pp_resource_expunge(t, id)
  \/ \E t \in Threads, id \in Ids, ty \in Types : BeginAcquire(t, id, ty)
  \/ \E t \in Threads : pp_resource_acquire(t)
  \/ \E t \in Threads : AcquireReturnsNull(t)
  \/ \E t \in Threads, id \in Ids : pp_resource_release(t, id)
  \/ \E t \in Threads, id \in Ids : pp_resource_ref(t, id)
  \/ \E t \in Threads, id \in Ids : pp_resource_unref(t, id)
  \/ \E t \in Threads : ReleaseUnref(t)
  \/ \E t \in Threads : RunDestructor(t)

Spec == Init /\ [][Next]_vars

(* A call in progress runs to its end.  A caller releases what it acquired *)
(* even if it makes nested calls meanwhile: the code between acquire and   *)
(* release is straight-line.  A retried trylock succeeds if the lock is    *)
(* free again and again.                                                   *)
Fairness ==
  \A t \in Threads :
    /\ SF_vars(pp_resource_acquire(t))
    /\ WF_vars(AcquireReturnsNull(t))
    /\ WF_vars(ReleaseUnref(t))
    /\ WF_vars(RunDestructor(t))
    /\ \A id \in Ids : SF_vars(pp_resource_release(t, id))

FairSpec == Spec /\ Fairness

-----------------------------------------------------------------------------
(* References the table itself took: one per acquirer, kept until the      *)
(* second half of pp_resource_release.                                     *)
Users(id) ==
  {t \in Threads : id \in held[t]}

Releasers(id) ==
  {t \in Threads : pc[t].op = "unref" /\ pc[t].id = id}

(* "reference to avoid freeing acquired resource": whoever holds a pointer *)
(* returned by pp_resource_acquire has the resource locked and its memory  *)
(* alive, whatever the other threads release meanwhile.                    *)
AcquiredIsAlive ==
  \A t \in Threads : \A id \in held[t] :
    /\ mem[id] = "live"
    /\ id \in res_tbl
    /\ res[id].lock = t

(* The count of a resource in the table is the references its clients      *)
(* account for plus one per thread inside an acquire/release pair; it is   *)
(* never zero or negative there.                                           *)
RefCountExact ==
  \A id \in res_tbl :
    /\ res[id].ref_cnt = owned[id] + Cardinality(Users(id)) + Cardinality(Releasers(id))
    /\ res[id].ref_cnt > 0

(* "prevent from being destroyed twice": the thread that runs the          *)
(* destructor is alone with memory that is still allocated, and no         *)
(* destructor runs twice.                                                  *)
DestroyedOnce ==
  /\ \A id \in Ids : destroyed[id] <= 1
  /\ \A t \in Threads : pc[t].op = "destroy" =>
       /\ mem[pc[t].id] = "live"
       /\ pc[t].id \notin res_tbl
       /\ destroyed[pc[t].id] = 0
       /\ \A u \in Threads \ {t} :
            /\ pc[t].id \notin held[u]
            /\ pc[u].op \in {"unref", "destroy"} => pc[u].id # pc[t].id

(* A returned resource that nobody references any more, and that no late   *)
(* caller is looking up, does not stay allocated: its last user destroys   *)
(* and frees it.                                                           *)
Abandoned(id) ==
  /\ mem[id] = "live"
  /\ creator[id] = NoThread
  /\ owned[id] = 0
  /\ \A t \in Threads : pc[t].op = "acquire" => pc[t].id # id

EventuallyDestroyed == \A id \in Ids : []<>~Abandoned(id)

(* No nesting of acquires leaves threads spinning on each other for ever. *)
AcquireTerminates ==
  \A t \in Threads : pc[t].op = "acquire" ~> pc[t].op # "acquire"

\* Both: pp_resource_acquire gives up spinning and what nobody refers to is destroyed.
CallsAndDestructorsFinish == EventuallyDestroyed /\ AcquireTerminates

=============================================================================
