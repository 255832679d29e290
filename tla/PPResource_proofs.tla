-------------------------- MODULE PPResource_proofs --------------------------
(***************************************************************************)
(* The safety of the resource table, for any number of threads, handles,   *)
(* types and references, and any order of nested acquires.                 *)
(***************************************************************************)
EXTENDS PPResource, FiniteSetTheorems, TLAPS

(* What the three safety invariants rest on: a handle that was never given *)
(* out occurs nowhere, a resource in the table is intact, the second half  *)
(* of a release still has its reference, and nobody but its creator uses a *)
(* resource under construction.                                            *)
FreshHandles ==
  \A id \in Ids : id >= res_tbl_next =>
    /\ destroyed[id] = 0
    /\ id \notin res_tbl
    /\ creator[id] = NoThread
    /\ \A t \in Threads : id \notin held[t] /\ (pc[t].op # "idle" => pc[t].id # id)

TableIsIntact == \A id \in res_tbl : mem[id] = "live" /\ destroyed[id] = 0

ReleasersHaveReference ==
  \A t \in Threads : pc[t].op = "unref" => pc[t].id \in res_tbl

ConstructionIsPrivate ==
  \A id \in Ids, u \in Threads :
    creator[id] \notin {NoThread, u} =>
      id \notin held[u] /\ (pc[u].op # "idle" => pc[u].id # id)

IndInv ==
  /\ TypeOK
  /\ AcquiredIsAlive
  /\ RefCountExact
  /\ DestroyedOnce
  /\ FreshHandles
  /\ TableIsIntact
  /\ ReleasersHaveReference
  /\ ConstructionIsPrivate

-----------------------------------------------------------------------------
(* A thread inside a call names a handle. *)
LEMMA CallTypes ==
  ASSUME TypeOK, NEW t \in Threads
  PROVE  /\ pc[t].op \in {"idle", "acquire", "unref", "destroy"}
         /\ pc[t].op = "idle" <=> pc[t] = Idle
         /\ pc[t].op # "idle" => pc[t].id \in Ids
         /\ pc[t].op = "acquire" => pc[t].type \in Types
  BY DEF TypeOK, Calls, Idle

(* The sets counted by RefCountExact are finite. *)
LEMMA CountedSets ==
  ASSUME NEW id
  PROVE  /\ IsFiniteSet(Users(id)) /\ Cardinality(Users(id)) \in Nat
         /\ IsFiniteSet(Releasers(id)) /\ Cardinality(Releasers(id)) \in Nat
<1>1. Users(id) \subseteq Threads /\ Releasers(id) \subseteq Threads
  BY DEF Users, Releasers
<1>. QED
  BY <1>1, ThreadsAssumption, FS_Subset, FS_CardinalityType

(* The initial state satisfies the invariant. *)
LEMMA InitInv == Init => IndInv
<1>. SUFFICES ASSUME Init PROVE IndInv
  OBVIOUS
<1>1. TypeOK
  <2>1. SomeType \in Types
    BY TypesAssumption DEF SomeType
  <2>. QED
    BY <2>1, BoundsAssumption DEF Init, TypeOK, Resource, Calls, Ids
<1>. QED
  BY <1>1 DEF Init, IndInv, AcquiredIsAlive, RefCountExact, DestroyedOnce, FreshHandles,
              TableIsIntact, ReleasersHaveReference, ConstructionIsPrivate, Idle

(* pp_resource_allocate: the new handle is fresh, nobody counts on it yet. *)
LEMMA AllocateInv ==
  ASSUME IndInv, NEW t \in Threads, NEW ty \in Types, pp_resource_allocate(t, ty)
  PROVE  IndInv'
<1>. DEFINE n == res_tbl_next
<1>0. /\ TypeOK /\ FreshHandles /\ n \in Ids /\ n \in Nat
      /\ pc' = pc /\ held' = held /\ destroyed' = destroyed
      /\ res_tbl' = res_tbl \cup {n} /\ res_tbl_next' = n + 1
      /\ t # NoThread
  BY ThreadsAssumption DEF IndInv, pp_resource_allocate, Ids
<1>1. TypeOK'
  BY <1>0, BoundsAssumption DEF pp_resource_allocate, TypeOK, Ids, Resource
<1>2. AcquiredIsAlive'
  BY <1>0 DEF IndInv, AcquiredIsAlive, FreshHandles, pp_resource_allocate, TypeOK, Resource
<1>3. RefCountExact'
  <2>1. \A i : Users(i)' = Users(i) /\ Releasers(i)' = Releasers(i)
    BY <1>0 DEF Users, Releasers
  <2>2. Users(n) = {} /\ Releasers(n) = {}
    BY <1>0, CallTypes DEF FreshHandles, Users, Releasers
  <2>3. Cardinality(Users(n)) = 0 /\ Cardinality(Releasers(n)) = 0
    BY <2>2, FS_EmptySet
  <2>4. res'[n].ref_cnt = 1 /\ owned'[n] = 1
    BY <1>0 DEF pp_resource_allocate, TypeOK
  <2>5. \A i \in res_tbl : i # n /\ res'[i] = res[i] /\ owned'[i] = owned[i]
    BY <1>0 DEF pp_resource_allocate, TypeOK, FreshHandles
  <2>. QED
    BY <1>0, <2>1, <2>3, <2>4, <2>5 DEF IndInv, RefCountExact
<1>4. DestroyedOnce'
  BY <1>0, CallTypes DEF IndInv, DestroyedOnce, FreshHandles, pp_resource_allocate, TypeOK
<1>5. FreshHandles'
  BY <1>0 DEF FreshHandles, pp_resource_allocate, TypeOK, Ids
<1>6. TableIsIntact'
  BY <1>0 DEF IndInv, FreshHandles, TableIsIntact, pp_resource_allocate, TypeOK
<1>7. ReleasersHaveReference'
  BY <1>0 DEF IndInv, ReleasersHaveReference
<1>8. ConstructionIsPrivate'
  BY <1>0 DEF IndInv, ConstructionIsPrivate, FreshHandles, pp_resource_allocate, TypeOK
<1>. QED
  BY <1>1, <1>2, <1>3, <1>4, <1>5, <1>6, <1>7, <1>8 DEF IndInv

(* The steps that change neither counts nor locks. *)
LEMMA ReturnHandleInv ==
  ASSUME IndInv, NEW t \in Threads, NEW id \in Ids, ReturnHandle(t, id)
  PROVE  IndInv'
<1>1. TypeOK'
  BY DEF IndInv, ReturnHandle, TypeOK
<1>2. AcquiredIsAlive' /\ RefCountExact' /\ DestroyedOnce' /\ TableIsIntact'
      /\ ReleasersHaveReference'
  BY SMTT(30) DEF IndInv, ReturnHandle, AcquiredIsAlive, RefCountExact, Users, Releasers, DestroyedOnce,
         TableIsIntact, ReleasersHaveReference
<1>3. FreshHandles' /\ ConstructionIsPrivate'
  BY ThreadsAssumption DEF IndInv, ReturnHandle, FreshHandles, ConstructionIsPrivate, TypeOK
<1>. QED
  BY <1>1, <1>2, <1>3 DEF IndInv

(* pp_resource_expunge: only the creator knew the resource, and it has     *)
(* released it.                                                            *)
LEMMA ExpungeInv ==
  ASSUME IndInv, NEW t \in Threads, NEW id \in Ids, pp_resource_expunge(t, id)
  PROVE  IndInv'
<1>0. /\ TypeOK /\ pc' = pc /\ held' = held /\ destroyed' = destroyed /\ res' = res
      /\ res_tbl' = res_tbl \ {id} /\ pc[t].op = "idle" /\ t # NoThread /\ creator[id] = t
      /\ creator' = creator /\ res_tbl_next' = res_tbl_next /\ id \in res_tbl
  BY ThreadsAssumption DEF IndInv, pp_resource_expunge, Idle
<1>1. TypeOK'
  BY <1>0 DEF pp_resource_expunge, TypeOK
<1>2. \A u \in Threads : id \notin held[u] /\ (pc[u].op # "idle" => pc[u].id # id)
  BY <1>0 DEF IndInv, ConstructionIsPrivate, pp_resource_expunge
<1>3. AcquiredIsAlive' /\ DestroyedOnce' /\ TableIsIntact' /\ ReleasersHaveReference'
  BY <1>0, <1>2, CallTypes
     DEF IndInv, AcquiredIsAlive, DestroyedOnce, TableIsIntact, ReleasersHaveReference,
         pp_resource_expunge, TypeOK
<1>4. RefCountExact'
  <2>1. \A i : Users(i)' = Users(i) /\ Releasers(i)' = Releasers(i)
    BY <1>0 DEF Users, Releasers
  <2>2. \A i \in Ids : i # id => owned'[i] = owned[i]
    BY DEF pp_resource_expunge, IndInv, TypeOK
  <2>. QED
    BY <1>0, <2>1, <2>2 DEF IndInv, RefCountExact, TypeOK
<1>5. FreshHandles' /\ ConstructionIsPrivate'
  BY <1>0 DEF IndInv, FreshHandles, ConstructionIsPrivate
<1>. QED
  BY <1>1, <1>3, <1>4, <1>5 DEF IndInv

(* A call to pp_resource_acquire begins, or gives up. *)
LEMMA BeginAcquireInv ==
  ASSUME IndInv, NEW t \in Threads, NEW id \in Ids, NEW ty \in Types, BeginAcquire(t, id, ty)
  PROVE  IndInv'
<1>0. /\ TypeOK /\ pc[t].op = "idle" /\ CanName(t, id)
      /\ UNCHANGED <<res_tbl, res_tbl_next, res, mem, destroyed, held, owned, creator>>
      /\ pc' = [pc EXCEPT ![t] = [op |-> "acquire", id |-> id, type |-> ty]]
  BY DEF IndInv, BeginAcquire, Idle
<1>1. TypeOK'
  BY <1>0 DEF TypeOK, Calls
<1>2. /\ \A u \in Threads : u # t => pc'[u] = pc[u]
      /\ pc'[t].op = "acquire" /\ pc'[t].id = id
  BY <1>0 DEF TypeOK
<1>3. AcquiredIsAlive' /\ TableIsIntact'
  BY <1>0 DEF IndInv, AcquiredIsAlive, TableIsIntact
<1>4. RefCountExact'
  <2>1. \A i : Users(i)' = Users(i) /\ Releasers(i)' = Releasers(i)
    BY <1>0, <1>2 DEF Users, Releasers
  <2>. QED
    BY <1>0, <2>1 DEF IndInv, RefCountExact
<1>5. DestroyedOnce' /\ ReleasersHaveReference'
  BY <1>0, <1>2 DEF IndInv, DestroyedOnce, ReleasersHaveReference
<1>6. FreshHandles' /\ ConstructionIsPrivate'
  BY <1>0, <1>2 DEF IndInv, FreshHandles, ConstructionIsPrivate, CanName, TypeOK, Ids
<1>. QED
  BY <1>1, <1>3, <1>4, <1>5, <1>6 DEF IndInv

LEMMA AcquireReturnsNullInv ==
  ASSUME IndInv, NEW t \in Threads, AcquireReturnsNull(t)
  PROVE  IndInv'
<1>0. /\ TypeOK /\ pc[t].op = "acquire"
      /\ UNCHANGED <<res_tbl, res_tbl_next, res, mem, destroyed, held, owned, creator>>
      /\ pc' = [pc EXCEPT ![t] = Idle]
  BY DEF IndInv, AcquireReturnsNull
<1>1. TypeOK'
  BY <1>0 DEF TypeOK, Calls
<1>2. /\ \A u \in Threads : u # t => pc'[u] = pc[u]
      /\ pc'[t].op = "idle"
  BY <1>0 DEF TypeOK, Idle
<1>3. AcquiredIsAlive' /\ TableIsIntact'
  BY <1>0 DEF IndInv, AcquiredIsAlive, TableIsIntact
<1>4. RefCountExact'
  <2>1. \A i : Users(i)' = Users(i) /\ Releasers(i)' = Releasers(i)
    BY <1>0, <1>2 DEF Users, Releasers
  <2>. QED
    BY <1>0, <2>1 DEF IndInv, RefCountExact
<1>5. DestroyedOnce' /\ ReleasersHaveReference'
  BY <1>0, <1>2 DEF IndInv, DestroyedOnce, ReleasersHaveReference
<1>6. FreshHandles' /\ ConstructionIsPrivate'
  BY <1>0, <1>2 DEF IndInv, FreshHandles, ConstructionIsPrivate
<1>. QED
  BY <1>1, <1>3, <1>4, <1>5, <1>6 DEF IndInv

(* pp_resource_acquire: the new user is counted. *)
LEMMA AcquireInv ==
  ASSUME IndInv, NEW t \in Threads, pp_resource_acquire(t)
  PROVE  IndInv'
<1>. PICK id \in Ids : id = pc[t].id
  BY CallTypes DEF IndInv, pp_resource_acquire
<1>0. /\ TypeOK /\ pc[t].op = "acquire" /\ id = pc[t].id /\ id \in res_tbl
      /\ res[id].lock = NoThread /\ t # NoThread
      /\ UNCHANGED <<res_tbl, res_tbl_next, mem, destroyed, owned, creator>>
      /\ res' = [res EXCEPT ![id].lock = t, ![id].ref_cnt = @ + 1]
      /\ held' = [held EXCEPT ![t] = @ \cup {id}]
      /\ pc' = [pc EXCEPT ![t] = Idle]
  BY ThreadsAssumption DEF IndInv, pp_resource_acquire, Found
<1>1. TypeOK'
  BY <1>0 DEF TypeOK, Calls, Resource
<1>2. /\ \A u \in Threads : u # t => pc'[u] = pc[u] /\ held'[u] = held[u]
      /\ pc'[t].op = "idle" /\ held'[t] = held[t] \cup {id}
      /\ \A i \in Ids : i # id => res'[i] = res[i]
      /\ res'[id].lock = t /\ res'[id].ref_cnt = res[id].ref_cnt + 1
  BY <1>0 DEF TypeOK, Idle, Resource
<1>3. \A u \in Threads : id \notin held[u]
  BY <1>0, ThreadsAssumption DEF IndInv, AcquiredIsAlive
<1>4. AcquiredIsAlive' /\ TableIsIntact'
  BY <1>0, <1>2, <1>3 DEF IndInv, AcquiredIsAlive, TableIsIntact, TypeOK
<1>5. RefCountExact'
  <2>1. \A i : Releasers(i)' = Releasers(i)
    BY <1>0, <1>2 DEF Releasers
  <2>2. \A i : i # id => Users(i)' = Users(i)
    BY <1>2 DEF Users
  <2>3. Users(id)' = Users(id) \cup {t} /\ t \notin Users(id)
    BY <1>2, <1>3 DEF Users
  <2>4. Cardinality(Users(id)') = Cardinality(Users(id)) + 1
    BY <2>3, CountedSets, FS_AddElement
  <2>5. \A i \in res_tbl : /\ Cardinality(Users(i)) \in Nat
                           /\ Cardinality(Releasers(i)) \in Nat
                           /\ owned[i] \in Nat /\ res[i].ref_cnt \in Nat /\ i \in Ids
    BY <1>0, CountedSets DEF TypeOK, Resource
  <2>6. ASSUME NEW i \in res_tbl
        PROVE  /\ res'[i].ref_cnt = owned[i] + Cardinality(Users(i)') + Cardinality(Releasers(i)')
               /\ res'[i].ref_cnt > 0
    <3>1. CASE i = id
      BY <3>1, <1>2, <2>1, <2>4, <2>5 DEF IndInv, RefCountExact
    <3>2. CASE i # id
      BY <3>2, <1>2, <2>1, <2>2, <2>5 DEF IndInv, RefCountExact
    <3>. QED
      BY <3>1, <3>2
  <2>. QED
    BY <1>0, <2>6 DEF RefCountExact
<1>6. DestroyedOnce' /\ ReleasersHaveReference'
  <2>1. TypeOK /\ id \in res_tbl /\ UNCHANGED <<res_tbl, mem, destroyed>>
    BY <1>0
  <2>. QED
    BY <1>2, <2>1, CallTypes DEF IndInv, DestroyedOnce, ReleasersHaveReference
<1>7. FreshHandles' /\ ConstructionIsPrivate'
  BY <1>0, <1>2, SMTT(60) DEF IndInv, FreshHandles, ConstructionIsPrivate
<1>. QED
  BY <1>1, <1>4, <1>5, <1>6, <1>7 DEF IndInv

(* The first half of pp_resource_release: the user turns into a releaser. *)
LEMMA ReleaseInv ==
  ASSUME IndInv, NEW t \in Threads, NEW id \in Ids, pp_resource_release(t, id)
  PROVE  IndInv'
<1>0. /\ TypeOK /\ pc[t].op = "idle" /\ id \in held[t] /\ id \in res_tbl
      /\ res[id].lock = t
      /\ UNCHANGED <<res_tbl, res_tbl_next, mem, destroyed, owned, creator>>
      /\ res' = [res EXCEPT ![id].lock = NoThread]
      /\ held' = [held EXCEPT ![t] = @ \ {id}]
      /\ pc' = [pc EXCEPT ![t] = [op |-> "unref", id |-> id]]
  BY DEF IndInv, pp_resource_release, AcquiredIsAlive, Idle
<1>1. TypeOK'
  BY <1>0 DEF TypeOK, Calls, Resource
<1>2. /\ \A u \in Threads : u # t => pc'[u] = pc[u] /\ held'[u] = held[u]
      /\ pc'[t].op = "unref" /\ pc'[t].id = id /\ held'[t] = held[t] \ {id}
      /\ \A i \in Ids : i # id => res'[i] = res[i]
      /\ res'[id].ref_cnt = res[id].ref_cnt
  BY <1>0 DEF TypeOK, Resource
<1>3. \A u \in Threads : u # t => id \notin held[u]
  BY <1>0 DEF IndInv, AcquiredIsAlive
<1>4. AcquiredIsAlive' /\ TableIsIntact'
  BY <1>0, <1>2, <1>3 DEF IndInv, AcquiredIsAlive, TableIsIntact, TypeOK
<1>5. RefCountExact'
  <2>1. \A i : i # id => Users(i)' = Users(i) /\ Releasers(i)' = Releasers(i)
    BY <1>0, <1>2 DEF Users, Releasers
  <2>2. /\ Users(id)' = Users(id) \ {t} /\ t \in Users(id)
        /\ Releasers(id)' = Releasers(id) \cup {t} /\ t \notin Releasers(id)
    BY <1>0, <1>2 DEF Users, Releasers
  <2>3. /\ Cardinality(Users(id)') = Cardinality(Users(id)) - 1
        /\ Cardinality(Releasers(id)') = Cardinality(Releasers(id)) + 1
    <3>1. Cardinality(Users(id) \ {t}) = Cardinality(Users(id)) - 1
      BY <2>2, CountedSets, FS_RemoveElement
    <3>2. Cardinality(Releasers(id) \cup {t}) = Cardinality(Releasers(id)) + 1
      BY <2>2, CountedSets, FS_AddElement
    <3>. QED
      BY <2>2, <3>1, <3>2
  <2>4. \A i \in res_tbl : /\ Cardinality(Users(i)) \in Nat
                           /\ Cardinality(Releasers(i)) \in Nat
                           /\ owned[i] \in Nat /\ res[i].ref_cnt \in Nat /\ i \in Ids
    BY <1>0, CountedSets DEF TypeOK, Resource
  <2>5. ASSUME NEW i \in res_tbl
        PROVE  /\ res'[i].ref_cnt = owned[i] + Cardinality(Users(i)') + Cardinality(Releasers(i)')
               /\ res'[i].ref_cnt > 0
    <3>1. CASE i = id
      BY <3>1, <1>2, <2>3, <2>4 DEF IndInv, RefCountExact
    <3>2. CASE i # id
      BY <3>2, <1>2, <2>1, <2>4 DEF IndInv, RefCountExact
    <3>. QED
      BY <3>1, <3>2
  <2>. QED
    BY <1>0, <2>5 DEF RefCountExact
<1>6. DestroyedOnce' /\ ReleasersHaveReference'
  BY <1>0, <1>2, CallTypes DEF IndInv, DestroyedOnce, ReleasersHaveReference
<1>7. FreshHandles' /\ ConstructionIsPrivate'
  BY <1>0, <1>2 DEF IndInv, FreshHandles, ConstructionIsPrivate
<1>. QED
  BY <1>1, <1>4, <1>5, <1>6, <1>7 DEF IndInv

(* pp_resource_ref: one more reference of the plugin. *)
LEMMA RefInv ==
  ASSUME IndInv, NEW t \in Threads, NEW id \in Ids, pp_resource_ref(t, id)
  PROVE  IndInv'
<1>1. CASE id \notin res_tbl
  <2>1. UNCHANGED vars
    BY <1>1 DEF pp_resource_ref, vars
  <2>. QED
    BY <2>1 DEF vars, IndInv, TypeOK, AcquiredIsAlive, RefCountExact, Users, Releasers,
                DestroyedOnce, FreshHandles, TableIsIntact, ReleasersHaveReference,
                ConstructionIsPrivate
<1>2. CASE id \in res_tbl
  <2>0. /\ TypeOK
        /\ UNCHANGED <<res_tbl, res_tbl_next, mem, destroyed, pc, held, creator>>
        /\ res' = [res EXCEPT ![id].ref_cnt = @ + 1]
        /\ owned' = [owned EXCEPT ![id] = @ + 1]
    BY <1>2 DEF IndInv, pp_resource_ref
  <2>1. TypeOK'
    BY <2>0, SMTT(60) DEF TypeOK, Resource
  <2>2. /\ \A i \in Ids : i # id => res'[i] = res[i] /\ owned'[i] = owned[i]
        /\ res'[id].ref_cnt = res[id].ref_cnt + 1 /\ owned'[id] = owned[id] + 1
        /\ res'[id].lock = res[id].lock
    BY <2>0 DEF TypeOK, Resource
  <2>3. AcquiredIsAlive' /\ TableIsIntact'
    BY <2>0, <2>2 DEF IndInv, AcquiredIsAlive, TableIsIntact, TypeOK
  <2>4. RefCountExact'
    <3>1. \A i : Users(i)' = Users(i) /\ Releasers(i)' = Releasers(i)
      BY <2>0 DEF Users, Releasers
    <3>2. \A i \in res_tbl : /\ Cardinality(Users(i)) \in Nat
                             /\ Cardinality(Releasers(i)) \in Nat
                             /\ owned[i] \in Nat /\ res[i].ref_cnt \in Nat /\ i \in Ids
      BY <2>0, CountedSets DEF TypeOK, Resource
    <3>. QED
      BY <2>0, <2>2, <3>1, <3>2 DEF IndInv, RefCountExact
  <2>5. DestroyedOnce' /\ ReleasersHaveReference' /\ FreshHandles' /\ ConstructionIsPrivate'
    BY <2>0 DEF IndInv, DestroyedOnce, ReleasersHaveReference, FreshHandles,
                ConstructionIsPrivate
  <2>. QED
    BY <2>1, <2>3, <2>4, <2>5 DEF IndInv
<1>. QED
  BY <1>1, <1>2

(* The critical section of pp_resource_unref on a resource in the table,   *)
(* for a caller who drops a reference that was counted.                    *)
LEMMA UnrefSectionInv ==
  ASSUME IndInv, NEW t \in Threads, NEW id \in res_tbl, UnrefSection(t, id),
         pc[t].op \in {"idle", "unref"}, pc[t].op = "unref" => pc[t].id = id,
         creator[id] \in {NoThread, t},
         UNCHANGED <<res_tbl_next, mem, destroyed, held, creator>>,
         owned' \in [Ids -> Nat],
         \A i \in Ids : i # id => owned'[i] = owned[i],
         res[id].ref_cnt - 1 = owned'[id] + Cardinality(Users(id)) + Cardinality(Releasers(id) \ {t})
  PROVE  IndInv'
<1>. DEFINE gone == res[id].ref_cnt - 1 <= 0
<1>0. /\ TypeOK /\ id \in Ids /\ res[id].ref_cnt \in Nat /\ res[id].ref_cnt > 0
      /\ res' = [res EXCEPT ![id].ref_cnt = @ - 1]
      /\ res_tbl' = IF gone THEN res_tbl \ {id} ELSE res_tbl
      /\ pc' = [pc EXCEPT ![t] = IF gone THEN [op |-> "destroy", id |-> id] ELSE Idle]
  BY DEF IndInv, TypeOK, Resource, RefCountExact, UnrefSection
<1>1. TypeOK'
  <2>1. res' \in [Ids -> Resource]
    <3>1. res[id] \in Resource /\ res[id].ref_cnt - 1 \in Nat
      BY <1>0 DEF TypeOK
    <3>2. [res[id] EXCEPT !.ref_cnt = @ - 1] \in Resource
      BY <3>1 DEF Resource
    <3>3. res' = [res EXCEPT ![id] = [res[id] EXCEPT !.ref_cnt = @ - 1]]
      BY <1>0
    <3>. QED
      BY <1>0, <3>2, <3>3 DEF TypeOK
  <2>2. pc' \in [Threads -> Calls]
    <3>1. Idle \in Calls /\ [op |-> "destroy", id |-> id] \in Calls
      BY <1>0 DEF Calls
    <3>. QED
      BY <1>0, <3>1 DEF TypeOK
  <2>3. res_tbl' \subseteq Ids
    BY <1>0 DEF TypeOK
  <2>. QED
    BY <1>0, <2>1, <2>2, <2>3 DEF TypeOK
<1>2. /\ \A u \in Threads : u # t => pc'[u] = pc[u]
      /\ gone => pc'[t].op = "destroy" /\ pc'[t].id = id
      /\ ~gone => pc'[t].op = "idle"
      /\ \A i \in Ids : i # id => res'[i] = res[i]
      /\ res'[id].ref_cnt = res[id].ref_cnt - 1 /\ res'[id].lock = res[id].lock
  BY <1>0 DEF TypeOK, Resource, Idle
<1>3. /\ \A i : Users(i)' = Users(i)
      /\ Releasers(id)' = Releasers(id) \ {t}
      /\ \A i : i # id => Releasers(i)' = Releasers(i)
  BY <1>0, <1>2 DEF Users, Releasers
<1>4. /\ IsFiniteSet(Users(id)) /\ IsFiniteSet(Releasers(id) \ {t})
      /\ Cardinality(Users(id)) \in Nat /\ Cardinality(Releasers(id) \ {t}) \in Nat
      /\ owned'[id] \in Nat
  <2>1. /\ IsFiniteSet(Users(id)) /\ IsFiniteSet(Releasers(id))
        /\ Cardinality(Users(id)) \in Nat
    BY CountedSets
  <2>2. IsFiniteSet(Releasers(id) \ {t})
    BY <2>1, FS_RemoveElement
  <2>3. Cardinality(Releasers(id) \ {t}) \in Nat
    BY <2>2, FS_CardinalityType
  <2>. QED
    BY <1>0, <2>1, <2>2, <2>3
<1>5. gone => Users(id) = {} /\ Releasers(id) \ {t} = {}
  <2>1. gone => Cardinality(Users(id)) = 0 /\ Cardinality(Releasers(id) \ {t}) = 0
    BY <1>0, <1>4
  <2>. QED
    BY <2>1, <1>4, FS_EmptySet
<1>6. gone => \A u \in Threads : /\ id \notin held[u]
                                 /\ u # t /\ pc[u].op = "unref" => pc[u].id # id
  BY <1>5 DEF Users, Releasers
<1>. HIDE DEF gone
<1>7. AcquiredIsAlive'
  BY <1>0, <1>2, <1>6 DEF IndInv, AcquiredIsAlive, TypeOK
<1>8. TableIsIntact'
  BY <1>0 DEF IndInv, TableIsIntact
<1>9. RefCountExact'
  <2>1. \A i \in res_tbl : /\ Cardinality(Users(i)) \in Nat
                           /\ Cardinality(Releasers(i)) \in Nat
                           /\ owned[i] \in Nat /\ res[i].ref_cnt \in Nat /\ i \in Ids
    BY <1>0, CountedSets DEF TypeOK, Resource
  <2>2. ASSUME NEW i \in res_tbl'
        PROVE  /\ res'[i].ref_cnt = owned'[i] + Cardinality(Users(i)') + Cardinality(Releasers(i)')
               /\ res'[i].ref_cnt > 0
    <3>1. CASE i = id
      <4>1. ~gone
        BY <3>1, <1>0
      <4>2. res[id].ref_cnt - 1 > 0
        BY <4>1, <1>0 DEF gone
      <4>. QED
        BY <3>1, <4>2, <1>2, <1>3
    <3>2. CASE i # id
      <4>1. i \in res_tbl
        BY <1>0
      <4>. QED
        BY <3>2, <4>1, <1>2, <1>3, <2>1 DEF IndInv, RefCountExact
    <3>. QED
      BY <3>1, <3>2
  <2>. QED
    BY <2>2 DEF RefCountExact
<1>10. DestroyedOnce'
  <2>1. \A i \in Ids : destroyed'[i] <= 1
    BY DEF IndInv, DestroyedOnce
  <2>2. ASSUME NEW v \in Threads, pc'[v].op = "destroy"
        PROVE  /\ mem'[pc'[v].id] = "live"
               /\ pc'[v].id \notin res_tbl'
               /\ destroyed'[pc'[v].id] = 0
               /\ \A u \in Threads \ {v} :
                    /\ pc'[v].id \notin held'[u]
                    /\ pc'[u].op \in {"unref", "destroy"} => pc'[u].id # pc'[v].id
    <3>1. CASE v = t
      <4>1. gone /\ pc'[v].id = id
        BY <2>2, <3>1, <1>2
      <4>2. \A u \in Threads : pc[u].op = "destroy" => pc[u].id # id
        BY DEF IndInv, DestroyedOnce
      <4>. QED
        BY <3>1, <4>1, <4>2, <1>0, <1>2, <1>6 DEF IndInv, TableIsIntact
    <3>2. CASE v # t
      <4>1. pc'[v] = pc[v] /\ pc[v].id # id /\ pc[v].id \notin res_tbl
        BY <2>2, <3>2, <1>2 DEF IndInv, DestroyedOnce
      <4>. QED
        BY <2>2, <3>2, <4>1, <1>0, <1>2 DEF IndInv, DestroyedOnce
    <3>. QED
      BY <3>1, <3>2
  <2>. QED
    BY <2>1, <2>2 DEF DestroyedOnce
<1>11. ReleasersHaveReference'
  BY <1>0, <1>2, <1>6 DEF IndInv, ReleasersHaveReference
<1>12. FreshHandles'
  <2>1. id < res_tbl_next
    BY <1>0 DEF IndInv, FreshHandles, TypeOK, Ids
  <2>. QED
    BY <2>1, <1>0, <1>2 DEF IndInv, FreshHandles, TypeOK, Ids
<1>13. ConstructionIsPrivate'
  BY <1>0, <1>2 DEF IndInv, ConstructionIsPrivate
<1>. QED
  BY <1>1, <1>7, <1>8, <1>9, <1>10, <1>11, <1>12, <1>13 DEF IndInv

(* pp_resource_unref by a holder of a reference, or on a handle that is gone. *)
LEMMA UnrefInv ==
  ASSUME IndInv, NEW t \in Threads, NEW id \in Ids, pp_resource_unref(t, id)
  PROVE  IndInv'
<1>0. TypeOK /\ pc[t] = Idle /\ pc[t].op = "idle" /\ creator[id] = NoThread
  BY DEF IndInv, pp_resource_unref, MayCount, Idle
<1>1. CASE id \notin res_tbl
  <2>1. UNCHANGED <<res_tbl, res_tbl_next, res, mem, destroyed, held, owned, creator>>
    BY <1>1 DEF pp_resource_unref, UnrefSection
  <2>2. pc' = pc
    BY <1>0, <1>1 DEF pp_resource_unref, UnrefSection, TypeOK
  <2>. QED
    BY <2>1, <2>2
       DEF IndInv, TypeOK, AcquiredIsAlive, RefCountExact, Users, Releasers, DestroyedOnce,
           FreshHandles, TableIsIntact, ReleasersHaveReference, ConstructionIsPrivate
<1>2. CASE id \in res_tbl
  <2>1. owned[id] > 0 /\ owned' = [owned EXCEPT ![id] = @ - 1]
    BY <1>2 DEF pp_resource_unref, MayCount
  <2>2. /\ owned' \in [Ids -> Nat] /\ owned'[id] = owned[id] - 1 /\ owned[id] \in Nat
        /\ \A i \in Ids : i # id => owned'[i] = owned[i]
    BY <1>0, <2>1 DEF TypeOK
  <2>3. Releasers(id) \ {t} = Releasers(id)
    BY <1>0 DEF Releasers
  <2>4. res[id].ref_cnt - 1
          = owned'[id] + Cardinality(Users(id)) + Cardinality(Releasers(id) \ {t})
    <3>1. res[id].ref_cnt = owned[id] + Cardinality(Users(id)) + Cardinality(Releasers(id))
      BY <1>2 DEF IndInv, RefCountExact
    <3>2. Cardinality(Users(id)) \in Nat /\ Cardinality(Releasers(id)) \in Nat
      BY CountedSets
    <3>3. Cardinality(Releasers(id) \ {t}) = Cardinality(Releasers(id))
      BY <2>3
    <3>. QED
      BY <2>2, <3>1, <3>2, <3>3
  <2>5. UnrefSection(t, id) /\ UNCHANGED <<res_tbl_next, mem, destroyed, held, creator>>
    BY DEF pp_resource_unref
  <2>. QED
    BY <1>0, <1>2, <2>2, <2>4, <2>5, UnrefSectionInv
<1>. QED
  BY <1>1, <1>2

(* The second half of pp_resource_release. *)
LEMMA ReleaseUnrefInv ==
  ASSUME IndInv, NEW t \in Threads, ReleaseUnref(t)
  PROVE  IndInv'
<1>. PICK id \in Ids : id = pc[t].id
  BY CallTypes DEF IndInv, ReleaseUnref
<1>0. /\ TypeOK /\ pc[t].op = "unref" /\ id = pc[t].id /\ id \in res_tbl
      /\ creator[id] \in {NoThread, t}
  BY DEF IndInv, ReleaseUnref, ReleasersHaveReference, ConstructionIsPrivate
<1>1. /\ UnrefSection(t, id)
      /\ UNCHANGED <<res_tbl_next, mem, destroyed, held, creator>>
      /\ owned' = owned
  BY <1>0 DEF ReleaseUnref
<1>2. Cardinality(Releasers(id) \ {t}) = Cardinality(Releasers(id)) - 1
  <2>1. t \in Releasers(id)
    BY <1>0 DEF Releasers
  <2>. QED
    BY <2>1, CountedSets, FS_RemoveElement
<1>3. res[id].ref_cnt - 1 = owned'[id] + Cardinality(Users(id)) + Cardinality(Releasers(id) \ {t})
  <2>1. res[id].ref_cnt = owned[id] + Cardinality(Users(id)) + Cardinality(Releasers(id))
    BY <1>0 DEF IndInv, RefCountExact
  <2>2. owned[id] \in Nat
    BY <1>0 DEF TypeOK
  <2>. QED
    BY <1>1, <1>2, <2>1, <2>2, CountedSets
<1>4. owned' \in [Ids -> Nat]
  BY <1>0, <1>1 DEF TypeOK
<1>. QED
  BY <1>0, <1>1, <1>3, <1>4, UnrefSectionInv

(* The destructor runs on memory nobody else reaches. *)
LEMMA RunDestructorInv ==
  ASSUME IndInv, NEW t \in Threads, RunDestructor(t)
  PROVE  IndInv'
<1>. PICK id \in Ids : id = pc[t].id
  BY CallTypes DEF IndInv, RunDestructor
<1>0. /\ TypeOK /\ pc[t].op = "destroy" /\ id = pc[t].id
      /\ id \notin res_tbl /\ destroyed[id] = 0
      /\ UNCHANGED <<res_tbl, res_tbl_next, res, held, owned, creator>>
      /\ mem' = [mem EXCEPT ![id] = "freed"]
      /\ destroyed' = [destroyed EXCEPT ![id] = @ + 1]
      /\ pc' = [pc EXCEPT ![t] = Idle]
  BY DEF IndInv, RunDestructor, DestroyedOnce
<1>1. TypeOK'
  BY <1>0 DEF TypeOK, Calls
<1>2. /\ \A u \in Threads : u # t => pc'[u] = pc[u]
      /\ pc'[t].op = "idle"
      /\ \A i \in Ids : i # id => mem'[i] = mem[i] /\ destroyed'[i] = destroyed[i]
      /\ destroyed'[id] = 1
  BY <1>0 DEF TypeOK, Idle
<1>3. AcquiredIsAlive' /\ TableIsIntact' /\ ReleasersHaveReference'
  BY <1>0, <1>2 DEF IndInv, AcquiredIsAlive, TableIsIntact, ReleasersHaveReference, TypeOK
<1>4. RefCountExact'
  <2>1. \A i : Users(i)' = Users(i) /\ Releasers(i)' = Releasers(i)
    BY <1>0, <1>2 DEF Users, Releasers
  <2>. QED
    BY <1>0, <2>1 DEF IndInv, RefCountExact
<1>5. DestroyedOnce'
  <2>1. \A u \in Threads : u # t /\ pc[u].op = "destroy" => pc[u].id # id /\ pc[u].id \in Ids
    BY <1>0, CallTypes DEF IndInv, DestroyedOnce
  <2>. QED
    BY <1>0, <1>2, <2>1 DEF IndInv, DestroyedOnce
<1>6. FreshHandles' /\ ConstructionIsPrivate'
  BY <1>0, <1>2 DEF IndInv, FreshHandles, ConstructionIsPrivate
<1>. QED
  BY <1>1, <1>3, <1>4, <1>5, <1>6 DEF IndInv

-----------------------------------------------------------------------------
(* Every step of the resource table preserves the invariant. *)
LEMMA NextInv == IndInv /\ [Next]_vars => IndInv'
<1>. SUFFICES ASSUME IndInv, [Next]_vars PROVE IndInv'
  OBVIOUS
<1>1. CASE UNCHANGED vars
  BY <1>1 DEF vars, IndInv, TypeOK, AcquiredIsAlive, RefCountExact, Users, Releasers,
              DestroyedOnce, FreshHandles, TableIsIntact, ReleasersHaveReference,
              ConstructionIsPrivate
<1>2. CASE Next
  BY <1>2, AllocateInv, ReturnHandleInv, ExpungeInv, BeginAcquireInv, AcquireInv,
     AcquireReturnsNullInv, ReleaseInv, RefInv, UnrefInv, ReleaseUnrefInv, RunDestructorInv
     DEF Next
<1>. QED
  BY <1>1, <1>2

(* The invariant holds in every reachable state of the resource table. *)
THEOREM Invariance == Spec => []IndInv
<1>. QED
  BY InitInv, NextInv, PTL DEF Spec

(* Type correctness of the model of pp_resource.c; a reference count in it *)
(* is never negative, the case that pp_resource_unref calls a logic error. *)
THEOREM TypeCorrect == Spec => []TypeOK
<1>1. IndInv => TypeOK
  BY DEF IndInv
<1>. QED
  BY Invariance, <1>1, PTL

(* A resource that some thread has acquired is locked by that thread, in   *)
(* the table and not freed, whatever other threads release or destroy.     *)
THEOREM AcquiredStaysAlive == Spec => []AcquiredIsAlive
<1>1. IndInv => AcquiredIsAlive
  BY DEF IndInv
<1>. QED
  BY Invariance, <1>1, PTL

(* Reference counts are exact in the presence of concurrent acquires,      *)
(* releases, refs and unrefs.                                              *)
THEOREM CountsAreExact == Spec => []RefCountExact
<1>1. IndInv => RefCountExact
  BY DEF IndInv
<1>. QED
  BY Invariance, <1>1, PTL

(* No destructor runs twice, and none runs while another thread still has  *)
(* a use for the resource.                                                 *)
THEOREM DestructorRunsOnce == Spec => []DestroyedOnce
<1>1. IndInv => DestroyedOnce
  BY DEF IndInv
<1>. QED
  BY Invariance, <1>1, PTL
=============================================================================
