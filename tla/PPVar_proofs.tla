---------------------------- MODULE PPVar_proofs -----------------------------
(***************************************************************************)
(* Variables and objects that cross the border, for any number of ids,     *)
(* objects, proxies, elements, calls and nested callbacks: nothing goes    *)
(* while somebody holds it, both reference counts are exact, and no id is  *)
(* handed out twice, if scripts lend no objects to the plugin and call     *)
(* methods only of proxies that have an instance, and nested callbacks do  *)
(* not change dictionaries.                                                *)
(***************************************************************************)
EXTENDS PPVar, FiniteSetTheorems, FunctionTheorems, SequenceTheorems,
        WellFoundedInduction, TLAPS

(* What the results assume of scripts and of the plugin. *)
PlainCalls == ~LendObjects /\ ~NestedSets /\ ~OrphanCalls

-----------------------------------------------------------------------------
(* The inductive invariant *)

(* Only containers have elements and only objects are the browser's; what  *)
(* a proxy stands for is an object of the plugin.                          *)
KindOf(v) ==
  /\ v.type = "OBJECT" => v.slots = Empty
  /\ v.type # "OBJECT" => v.obj = None

Kinds ==
  /\ \A id \in DOMAIN var_ht : KindOf(var_ht[id])
  /\ \A x \in Proxies :
       IF proxy[x].ppobj = None THEN proxy[x].refs = 0
       ELSE /\ proxy[x].refs > 0
            /\ proxy[x].ppobj \in DOMAIN var_ht
            /\ var_ht[proxy[x].ppobj].type = "OBJECT" /\ var_ht[proxy[x].ppobj].obj = None

(* A variable with a lost reference never goes. *)
LostAreThere == \A id \in Ids \ DOMAIN var_ht : lost[id] = 0

(* A dictionary that has an element it does not count yet. *)
Stores(ht, d, id) ==
  d \in DOMAIN ht /\ ht[d].type = "DICTIONARY" /\ \E s \in Slots : ht[d].slots[s] = id

(* The outermost callback only may be in the middle of                     *)
(* ppb_var_dictionary_set: the dictionary has the element, addref is the   *)
(* last step, and the plugin or the caller keeps both meanwhile.           *)
Setting(fr, ht, own) ==
  /\ \A j \in DOMAIN fr.todo : fr.todo[j].op = "addref" =>
       /\ j = Len(fr.todo) /\ fr.todo[j].of \in fr.args
       /\ \E d \in fr.args : Stores(ht, d, fr.todo[j].of)
  /\ fr.args # {} => \E j \in DOMAIN fr.todo : fr.todo[j].op = "addref"
  /\ \A id \in fr.args : own[id] > 0 \/ fr.lent = id

Plain(fr) == fr.args = {} /\ \A j \in DOMAIN fr.todo : fr.todo[j].op # "addref"

(* A result is released after its conversion; a callback that has returned *)
(* has no arguments left.                                                  *)
Ending(fr) ==
  /\ \A j \in DOMAIN fr.todo : fr.todo[j].op = "tonp" =>
       j < Len(fr.todo) /\ fr.todo[j + 1] = Step("release", fr.todo[j].of)
  /\ fr.done => fr.lent = None /\ fr.args = {}

Frames ==
  \A f \in DOMAIN frames :
    /\ Ending(frames[f])
    /\ IF f = 1 THEN Setting(frames[f], var_ht, owned) ELSE Plain(frames[f])

VarInv ==
  /\ TypeOK /\ Kinds /\ LostAreThere /\ Frames
  /\ HeldVarsAreAlive /\ RefCountExact /\ NPRefsExact /\ ProxiesAreMapped

-----------------------------------------------------------------------------
(* Counting *)

One(b) == IF b THEN 1 ELSE 0
CountOf(s, x) == Cardinality({j \in DOMAIN s : s[j] = x})

(* A one-to-one map keeps the number of members. *)
LEMMA SameSize ==
  ASSUME NEW S, NEW T, IsFiniteSet(S), NEW f \in [S -> T],
         \A a, b \in S : f[a] = f[b] => a = b, \A t \in T : \E s \in S : f[s] = t
  PROVE  IsFiniteSet(T) /\ Cardinality(T) = Cardinality(S)
<1>1. f \in Bijection(S, T)
  BY Fun_IsBij
<1>2. ExistsBijection(S, T)
  BY <1>1 DEF ExistsBijection
<1> QED
  BY <1>2, FS_Bijection

(* Two sets without a common member add up. *)
LEMMA AddUp ==
  ASSUME NEW S, IsFiniteSet(S), NEW T, IsFiniteSet(T), S \cap T = {}
  PROVE  IsFiniteSet(S \cup T) /\ Cardinality(S \cup T) = Cardinality(S) + Cardinality(T)
<1>1. Cardinality(S \cap T) = 0
  BY FS_EmptySet
<1>2. Cardinality(S) \in Nat /\ Cardinality(T) \in Nat
  BY FS_CardinalityType
<1>3. /\ IsFiniteSet(S \cup T)
      /\ Cardinality(S \cup T) = Cardinality(S) + Cardinality(T) - Cardinality(S \cap T)
  BY FS_Union
<1> QED
  BY <1>1, <1>2, <1>3

(* A set with a member is not empty, and conversely. *)
LEMMA Positive ==
  ASSUME NEW S, IsFiniteSet(S)
  PROVE  Cardinality(S) \in Nat /\ (Cardinality(S) > 0 <=> S # {})
<1>1. Cardinality(S) \in Nat
  BY FS_CardinalityType
<1> QED
  BY <1>1, FS_EmptySet

LEMMA CountFinite ==
  ASSUME NEW A, NEW s \in Seq(A), NEW x
  PROVE  IsFiniteSet({j \in DOMAIN s : s[j] = x}) /\ CountOf(s, x) \in Nat
<1>1. IsFiniteSet(1 .. Len(s))
  BY FS_Interval, LenProperties
<1>2. {j \in DOMAIN s : s[j] = x} \in SUBSET (1 .. Len(s))
  BY LenProperties
<1>3. IsFiniteSet({j \in DOMAIN s : s[j] = x})
  BY <1>1, <1>2, FS_Subset
<1> QED
  BY <1>3, FS_CardinalityType DEF CountOf

LEMMA CountEmpty == \A x : CountOf(<<>>, x) = 0
<1> SUFFICES ASSUME NEW x PROVE CountOf(<<>>, x) = 0
  OBVIOUS
<1>1. {j \in DOMAIN <<>> : <<>>[j] = x} = {}
  OBVIOUS
<1> QED
  BY <1>1, FS_EmptySet DEF CountOf

LEMMA CountConcat ==
  ASSUME NEW A, NEW s \in Seq(A), NEW t \in Seq(A), NEW x
  PROVE  CountOf(s \o t, x) = CountOf(s, x) + CountOf(t, x)
<1> DEFINE n == Len(s)
           m == Len(t)
           S == {j \in DOMAIN s : s[j] = x}
           T == {j \in DOMAIN t : t[j] = x}
           U == {j \in DOMAIN (s \o t) : (s \o t)[j] = x}
           V == {j \in n + 1 .. n + m : t[j - n] = x}
           f == [k \in T |-> k + n]
<1>1. /\ n \in Nat /\ m \in Nat /\ DOMAIN s = 1 .. n /\ DOMAIN t = 1 .. m
      /\ DOMAIN (s \o t) = 1 .. n + m
      /\ \A j \in 1 .. n + m : (s \o t)[j] = IF j <= n THEN s[j] ELSE t[j - n]
  BY LenProperties, ConcatProperties
<1>2. IsFiniteSet(S) /\ IsFiniteSet(T)
  BY CountFinite
<1>3. U = S \cup V
  BY <1>1
<1>4. S \cap V = {}
  BY <1>1
<1>5. f \in [T -> V]
  BY <1>1
<1>6. \A a, b \in T : f[a] = f[b] => a = b
  BY <1>1
<1>7. \A v \in V : \E k \in T : f[k] = v
  <2> SUFFICES ASSUME NEW v \in V PROVE \E k \in T : f[k] = v
    OBVIOUS
  <2>1. v - n \in T /\ f[v - n] = v
    BY <1>1
  <2> QED
    BY <2>1
<1> HIDE DEF f, S, T, U, V
<1>8. IsFiniteSet(V) /\ Cardinality(V) = Cardinality(T)
  BY <1>2, <1>5, <1>6, <1>7, SameSize
<1>9. Cardinality(U) = Cardinality(S) + Cardinality(V)
  BY <1>2, <1>3, <1>4, <1>8, AddUp
<1> QED
  BY <1>8, <1>9 DEF CountOf, S, T, U

LEMMA CountOne == ASSUME NEW x, NEW y PROVE CountOf(<<y>>, x) = One(y = x)
<1>1. {j \in DOMAIN <<y>> : <<y>>[j] = x} = IF y = x THEN {1} ELSE {}
  OBVIOUS
<1> QED
  BY <1>1, FS_EmptySet, FS_Singleton DEF CountOf, One

LEMMA CountTail ==
  ASSUME NEW A, NEW s \in Seq(A), s # <<>>, NEW x
  PROVE  CountOf(s, x) = One(Head(s) = x) + CountOf(Tail(s), x)
<1>1. <<Head(s)>> \in Seq(A) /\ Tail(s) \in Seq(A) /\ s = <<Head(s)>> \o Tail(s)
  BY HeadTailProperties, ConcatProperties, SeqEqual
<1>2. CountOf(<<Head(s)>> \o Tail(s), x) = CountOf(<<Head(s)>>, x) + CountOf(Tail(s), x)
  BY <1>1, CountConcat
<1> QED
  BY <1>1, <1>2, CountOne

-----------------------------------------------------------------------------
(* Steps and arguments in a stack of callbacks *)

FrameT ==
  [todo : Seq(Steps), lent : Ids \cup {None}, args : SUBSET Ids, done : BOOLEAN]

Places(fs, st) ==
  UNION {{<<f, i>> : i \in {j \in DOMAIN fs[f].todo : fs[f].todo[j] = st}} : f \in DOMAIN fs}
Pend(fs, st) == Cardinality(Places(fs, st))
LentIn(fs, id) == {f \in DOMAIN fs : fs[f].lent = id}
Lent(fs, id) == Cardinality(LentIn(fs, id))

LEMMA PlacesIs ==
  ASSUME NEW fs, NEW st
  PROVE  \A p : p \in Places(fs, st) <=>
           \E f \in DOMAIN fs : \E i \in DOMAIN fs[f].todo : fs[f].todo[i] = st /\ p = <<f, i>>
BY DEF Places

(* The image of a finite set is finite. *)
LEMMA ImageFinite ==
  ASSUME NEW S, NEW T, IsFiniteSet(S), NEW f \in [S -> T], \A t \in T : \E s \in S : f[s] = t
  PROVE  IsFiniteSet(T)
<1>1. f \in Surjection(S, T)
  BY Fun_IsSurj
<1> QED
  BY <1>1, FS_Surjection

LEMMA PlacesFinite ==
  ASSUME NEW fs \in Seq(FrameT), NEW st
  PROVE  IsFiniteSet(Places(fs, st)) /\ Pend(fs, st) \in Nat
<1> DEFINE In(f) == {j \in DOMAIN fs[f].todo : fs[f].todo[j] = st}
           At(f) == {<<f, i>> : i \in In(f)}
<1>1. IsFiniteSet({At(f) : f \in DOMAIN fs})
  <2>1. IsFiniteSet(DOMAIN fs)
    BY FS_Interval, LenProperties
  <2> DEFINE g == [f \in DOMAIN fs |-> At(f)]
             T == {At(f) : f \in DOMAIN fs}
  <2>2. g \in [DOMAIN fs -> T] /\ \A t \in T : \E f \in DOMAIN fs : g[f] = t
    BY Zenon
  <2> HIDE DEF At, g, T
  <2>3. IsFiniteSet(T)
    BY <2>1, <2>2, ImageFinite
  <2> QED
    BY <2>3 DEF T
<1>2. ASSUME NEW f \in DOMAIN fs PROVE IsFiniteSet(At(f))
  <2>1. fs[f].todo \in Seq(Steps)
    <3>1. f \in 1 .. Len(fs)
      BY LenProperties
    <3>2. fs[f] \in FrameT
      BY <3>1, ElementOfSeq
    <3> QED
      BY <3>2 DEF FrameT
  <2>2. IsFiniteSet(In(f))
    BY <2>1, CountFinite
  <2> DEFINE g == [i \in In(f) |-> <<f, i>>]
             T == {<<f, i>> : i \in In(f)}
  <2>3. g \in [In(f) -> T] /\ \A t \in T : \E i \in In(f) : g[i] = t
    BY Zenon
  <2> HIDE DEF In, g, T
  <2>4. IsFiniteSet(T)
    BY <2>2, <2>3, ImageFinite
  <2> QED
    BY <2>4 DEF T
<1>3. IsFiniteSet(UNION {At(f) : f \in DOMAIN fs})
  <2> HIDE DEF At
  <2>1. \A T \in {At(f) : f \in DOMAIN fs} : IsFiniteSet(T)
    BY <1>2
  <2> QED
    BY <1>1, <2>1, FS_UNION
<1>4. Places(fs, st) = UNION {At(f) : f \in DOMAIN fs}
  BY DEF Places
<1> QED
  BY <1>3, <1>4, FS_CardinalityType DEF Pend

LEMMA LentFinite ==
  ASSUME NEW fs \in Seq(FrameT), NEW id
  PROVE  IsFiniteSet(LentIn(fs, id)) /\ Lent(fs, id) \in Nat
<1>1. IsFiniteSet(DOMAIN fs) /\ LentIn(fs, id) \in SUBSET DOMAIN fs
  BY FS_Interval, LenProperties DEF LentIn
<1> QED
  BY <1>1, FS_Subset, FS_CardinalityType DEF Lent

(* Two stacks that agree below their top differ by what is at the top. *)
Under(fs) == SubSeq(fs, 1, Len(fs) - 1)

LEMMA UnderIs ==
  ASSUME NEW fs \in Seq(FrameT), fs # <<>>
  PROVE  /\ Len(fs) \in Nat \ {0} /\ DOMAIN fs = 1 .. Len(fs)
         /\ Under(fs) \in Seq(FrameT) /\ Len(Under(fs)) = Len(fs) - 1
         /\ DOMAIN Under(fs) = 1 .. Len(fs) - 1
         /\ \A f \in 1 .. Len(fs) - 1 : Under(fs)[f] = fs[f]
         /\ fs[Len(fs)] \in FrameT
<1>1. Len(fs) \in Nat \ {0} /\ DOMAIN fs = 1 .. Len(fs)
  BY LenProperties, EmptySeq
<1>2. \A i \in 1 .. Len(fs) - 1 : fs[i] \in FrameT
  BY <1>1, ElementOfSeq
<1>3. /\ Under(fs) \in Seq(FrameT) /\ Len(Under(fs)) = Len(fs) - 1
      /\ \A f \in 1 .. Len(fs) - 1 : Under(fs)[f] = fs[f]
  BY <1>1, <1>2 DEF Under
<1> QED
  BY <1>1, <1>3, ElementOfSeq, LenProperties

LEMMA PendTop ==
  ASSUME NEW fs \in Seq(FrameT), fs # <<>>, NEW st
  PROVE  /\ Pend(fs, st) = Pend(Under(fs), st) + CountOf(fs[Len(fs)].todo, st)
         /\ Pend(Under(fs), st) \in Nat /\ CountOf(fs[Len(fs)].todo, st) \in Nat
<1> DEFINE n == Len(fs)
           todo == fs[n].todo
           J == {j \in DOMAIN todo : todo[j] = st}
           T == {<<n, j>> : j \in J}
           g == [j \in J |-> <<n, j>>]
<1>1. /\ n \in Nat \ {0} /\ DOMAIN fs = 1 .. n /\ Under(fs) \in Seq(FrameT)
      /\ DOMAIN Under(fs) = 1 .. n - 1 /\ \A f \in 1 .. n - 1 : Under(fs)[f] = fs[f]
      /\ todo \in Seq(Steps)
  BY UnderIs DEF FrameT
<1>2. IsFiniteSet(J) /\ CountOf(todo, st) \in Nat
  BY <1>1, CountFinite
<1>3. IsFiniteSet(T) /\ Cardinality(T) = Cardinality(J)
  <2>1. g \in [J -> T] /\ (\A a, b \in J : g[a] = g[b] => a = b) /\ \A t \in T : \E j \in J : g[j] = t
    OBVIOUS
  <2> HIDE DEF g, J, T
  <2> QED
    BY <1>2, <2>1, SameSize
<1>4. Places(fs, st) = Places(Under(fs), st) \cup T
  <2> SUFFICES ASSUME NEW p
               PROVE  p \in Places(fs, st) <=> p \in Places(Under(fs), st) \/ p \in T
    OBVIOUS
  <2>1. p \in Places(fs, st) <=>
          \E f \in DOMAIN fs : \E i \in DOMAIN fs[f].todo : fs[f].todo[i] = st /\ p = <<f, i>>
    BY PlacesIs
  <2>2. p \in Places(Under(fs), st) <=>
          \E f \in 1 .. n - 1 : \E i \in DOMAIN fs[f].todo : fs[f].todo[i] = st /\ p = <<f, i>>
    BY <1>1, PlacesIs
  <2>3. p \in T <=> \E i \in DOMAIN fs[n].todo : fs[n].todo[i] = st /\ p = <<n, i>>
    OBVIOUS
  <2>4. DOMAIN fs = (1 .. n - 1) \cup {n}
    BY <1>1
  <2> QED
    BY <2>1, <2>2, <2>3, <2>4
<1>5. Places(Under(fs), st) \cap T = {}
  <2>1. \A p \in Places(Under(fs), st) : \E f \in 1 .. n - 1 : \E i : p = <<f, i>>
    BY <1>1, PlacesIs
  <2> QED
    BY <1>1, <2>1
<1>6. IsFiniteSet(Places(Under(fs), st)) /\ Pend(Under(fs), st) \in Nat
  BY <1>1, PlacesFinite
<1>7. Cardinality(Places(fs, st)) = Cardinality(Places(Under(fs), st)) + Cardinality(T)
  BY <1>3, <1>4, <1>5, <1>6, AddUp
<1> QED
  BY <1>2, <1>3, <1>6, <1>7 DEF Pend, CountOf

LEMMA LentTop ==
  ASSUME NEW fs \in Seq(FrameT), fs # <<>>, NEW id
  PROVE  /\ Lent(fs, id) = Lent(Under(fs), id) + One(fs[Len(fs)].lent = id)
         /\ Lent(Under(fs), id) \in Nat
<1> DEFINE n == Len(fs)
<1>1. /\ n \in Nat \ {0} /\ DOMAIN fs = 1 .. n /\ Under(fs) \in Seq(FrameT)
      /\ DOMAIN Under(fs) = 1 .. n - 1 /\ \A f \in 1 .. n - 1 : Under(fs)[f] = fs[f]
  BY UnderIs
<1>2. LentIn(fs, id) = IF fs[n].lent = id THEN LentIn(Under(fs), id) \cup {n} ELSE LentIn(Under(fs), id)
  BY <1>1 DEF LentIn
<1>3. n \notin LentIn(Under(fs), id)
  BY <1>1 DEF LentIn
<1>4. IsFiniteSet(LentIn(Under(fs), id)) /\ Lent(Under(fs), id) \in Nat
  BY <1>1, LentFinite
<1> HIDE DEF n
<1>5. Cardinality(LentIn(Under(fs), id) \cup {n}) = Cardinality(LentIn(Under(fs), id)) + 1
  BY <1>3, <1>4, FS_AddElement
<1> QED
  BY <1>2, <1>4, <1>5 DEF Lent, One, n

(* What a stack has if it is another one with this frame on top. *)
LEMMA OnTop ==
  ASSUME NEW fs \in Seq(FrameT), NEW gs \in Seq(FrameT), NEW n \in Nat,
         Len(fs) = n, Len(gs) = n + 1, \A f \in 1 .. n : gs[f] = fs[f]
  PROVE  /\ \A st : Pend(gs, st) = Pend(fs, st) + CountOf(gs[n + 1].todo, st)
         /\ \A id : Lent(gs, id) = Lent(fs, id) + One(gs[n + 1].lent = id)
<1>1. gs # <<>>
  BY EmptySeq
<1>2. Under(gs) = fs
  <2>1. /\ Under(gs) \in Seq(FrameT) /\ Len(Under(gs)) = n
        /\ \A f \in 1 .. n : Under(gs)[f] = gs[f]
    <3>1. /\ Under(gs) \in Seq(FrameT) /\ Len(Under(gs)) = Len(gs) - 1
          /\ \A f \in 1 .. Len(gs) - 1 : Under(gs)[f] = gs[f]
      BY <1>1, UnderIs
    <3>2. Len(gs) - 1 = n
      OBVIOUS
    <3> QED
      BY <3>1, <3>2
  <2> QED
    BY <2>1, SeqEqual
<1> QED
  BY <1>1, <1>2, PendTop, LentTop

-----------------------------------------------------------------------------
(* The table, the proxies and the references they hold *)

Table(ht) == DOMAIN ht \subseteq Ids /\ \A id \in DOMAIN ht : ht[id] \in Var
NPT == [refs : Nat, script : Nat, mapped : BOOLEAN]
ProxyT == [ppobj : Ids \cup {None}, refs : 0 .. CountSpace - 1]

SlotsIn(ht, i) == {p \in (DOMAIN ht) \X Slots : ht[p[1]].slots[p[2]] = i}
SlotCount(ht, i) == Cardinality(SlotsIn(ht, i))
ProxiesOf(px, i) == {x \in Proxies : px[x].ppobj = i}
ProxyCount(px, i) == Cardinality(ProxiesOf(px, i))
ObjsOf(ht, o) == {id \in DOMAIN ht : ht[id].obj = o}
ObjCount(ht, o) == Cardinality(ObjsOf(ht, o))

(* Two sets that differ in one member at most. *)
LEMMA OneChanges ==
  ASSUME NEW A, NEW B, NEW x, IsFiniteSet(A), \A y : y # x => (y \in A <=> y \in B)
  PROVE  IsFiniteSet(B) /\ Cardinality(B) = Cardinality(A) + One(x \in B) - One(x \in A)
<1>1. Cardinality(A) \in Nat
  BY FS_CardinalityType
<1>2. CASE x \in B /\ x \notin A
  <2>1. B = A \cup {x}
    BY <1>2
  <2>2. IsFiniteSet(A \cup {x}) /\ Cardinality(A \cup {x}) = Cardinality(A) + 1
    BY <1>2, FS_AddElement
  <2> QED
    BY <1>1, <1>2, <2>1, <2>2 DEF One
<1>3. CASE x \notin B /\ x \in A
  <2>1. B = A \ {x}
    BY <1>3
  <2>2. IsFiniteSet(A \ {x}) /\ Cardinality(A \ {x}) = Cardinality(A) - 1
    BY <1>3, FS_RemoveElement
  <2> QED
    BY <1>1, <1>3, <2>1, <2>2 DEF One
<1>4. CASE x \in A <=> x \in B
  <2>1. A = B
    BY <1>4
  <2> QED
    BY <1>1, <2>1 DEF One
<1> QED
  BY <1>2, <1>3, <1>4

LEMMA SpaceFinite == IsFiniteSet(Ids) /\ IsFiniteSet(Slots) /\ IsFiniteSet(Ids \X Slots)
<1>1. IsFiniteSet(Ids) /\ IsFiniteSet(Slots)
  BY FS_Interval, SpaceAssumption, BoundsAssumption DEF Ids, Slots
<1> QED
  BY <1>1, FS_Product

LEMMA SlotsFinite ==
  ASSUME NEW ht, Table(ht), NEW i
  PROVE  IsFiniteSet(SlotsIn(ht, i)) /\ SlotCount(ht, i) \in Nat
<1>1. SlotsIn(ht, i) \in SUBSET (Ids \X Slots)
  BY DEF SlotsIn, Table
<1> QED
  BY <1>1, SpaceFinite, FS_Subset, FS_CardinalityType DEF SlotCount

LEMMA ObjsFinite ==
  ASSUME NEW ht, Table(ht), NEW o
  PROVE  IsFiniteSet(ObjsOf(ht, o)) /\ ObjCount(ht, o) \in Nat
<1>1. ObjsOf(ht, o) \in SUBSET Ids
  BY DEF ObjsOf, Table
<1> QED
  BY <1>1, SpaceFinite, FS_Subset, FS_CardinalityType DEF ObjCount

LEMMA ProxiesFinite ==
  ASSUME NEW px, NEW i PROVE IsFiniteSet(ProxiesOf(px, i)) /\ ProxyCount(px, i) \in Nat
<1>1. ProxiesOf(px, i) \in SUBSET Proxies
  BY DEF ProxiesOf
<1> QED
  BY <1>1, ProxiesAssumption, FS_Subset, FS_CardinalityType DEF ProxyCount

(* Counts that leave the elements and the objects alone. *)
LEMMA TableSame ==
  ASSUME NEW ht, NEW hu, DOMAIN hu = DOMAIN ht,
         \A id \in DOMAIN ht : hu[id].slots = ht[id].slots /\ hu[id].obj = ht[id].obj
  PROVE  /\ \A i : SlotCount(hu, i) = SlotCount(ht, i)
         /\ \A o : ObjCount(hu, o) = ObjCount(ht, o)
<1>1. ASSUME NEW i PROVE SlotsIn(hu, i) = SlotsIn(ht, i)
  BY DEF SlotsIn
<1>2. ASSUME NEW o PROVE ObjsOf(hu, o) = ObjsOf(ht, o)
  BY DEF ObjsOf
<1> QED
  BY <1>1, <1>2 DEF SlotCount, ObjCount

(* A new variable has no elements. *)
LEMMA TablePut ==
  ASSUME NEW ht, Table(ht), NEW id \in Ids \ DOMAIN ht, NEW v \in Var, v.slots = Empty
  PROVE  LET hu == Put(ht, id, v) IN
         /\ DOMAIN hu = DOMAIN ht \cup {id} /\ hu[id] = v
         /\ \A j \in DOMAIN ht : hu[j] = ht[j]
         /\ Table(hu)
         /\ \A i \in Ids : SlotCount(hu, i) = SlotCount(ht, i)
         /\ \A o : ObjCount(hu, o) = ObjCount(ht, o) + One(v.obj = o)
<1> DEFINE hu == Put(ht, id, v)
<1>1. /\ DOMAIN hu = DOMAIN ht \cup {id} /\ hu[id] = v
      /\ \A j \in DOMAIN ht : hu[j] = ht[j]
  BY DEF Put
<1> HIDE DEF hu
<1>2. Table(hu)
  BY <1>1 DEF Table
<1>3. ASSUME NEW i \in Ids PROVE SlotsIn(hu, i) = SlotsIn(ht, i)
  <2>1. \A s \in Slots : v.slots[s] # i
    BY DEF Empty, Ids, None
  <2> QED
    BY <1>1, <2>1 DEF SlotsIn
<1>4. ASSUME NEW o PROVE ObjCount(hu, o) = ObjCount(ht, o) + One(v.obj = o)
  <2>1. IsFiniteSet(ObjsOf(ht, o)) /\ ObjCount(ht, o) \in Nat
    BY ObjsFinite
  <2>2. \A y : y # id => (y \in ObjsOf(ht, o) <=> y \in ObjsOf(hu, o))
    BY <1>1 DEF ObjsOf
  <2>3. (id \in ObjsOf(hu, o) <=> v.obj = o) /\ id \notin ObjsOf(ht, o)
    BY <1>1 DEF ObjsOf
  <2>4. Cardinality(ObjsOf(hu, o)) =
          Cardinality(ObjsOf(ht, o)) + One(id \in ObjsOf(hu, o)) - One(id \in ObjsOf(ht, o))
    BY <2>1, <2>2, OneChanges
  <2> QED
    BY <2>1, <2>3, <2>4 DEF ObjCount, One
<1> QED
  BY <1>1, <1>2, <1>3, <1>4 DEF SlotCount, hu

(* A variable goes with its elements and its object. *)
LEMMA TableDrop ==
  ASSUME NEW ht, Table(ht), NEW c \in DOMAIN ht
  PROVE  LET hu == Drop(ht, c) IN
         /\ DOMAIN hu = DOMAIN ht \ {c} /\ \A j \in DOMAIN hu : hu[j] = ht[j]
         /\ Table(hu)
         /\ \A i : /\ SlotCount(ht, i) = SlotCount(hu, i) + CountOf(ht[c].slots, i)
                   /\ CountOf(ht[c].slots, i) \in Nat
         /\ \A o : ObjCount(hu, o) = ObjCount(ht, o) - One(ht[c].obj = o)
<1> DEFINE hu == Drop(ht, c)
<1>1. DOMAIN hu = DOMAIN ht \ {c} /\ \A j \in DOMAIN hu : hu[j] = ht[j]
  BY DEF Drop
<1> HIDE DEF hu
<1>2. Table(hu)
  BY <1>1 DEF Table
<1>3. ASSUME NEW i
      PROVE  /\ SlotCount(ht, i) = SlotCount(hu, i) + CountOf(ht[c].slots, i)
             /\ CountOf(ht[c].slots, i) \in Nat
  <2> DEFINE J == {s \in DOMAIN ht[c].slots : ht[c].slots[s] = i}
             T == {<<c, s>> : s \in J}
             g == [s \in J |-> <<c, s>>]
  <2>1. DOMAIN ht[c].slots = Slots
    BY DEF Table, Var
  <2>2. IsFiniteSet(J)
    <3>1. J \in SUBSET Slots
      BY <2>1
    <3> QED
      BY <3>1, SpaceFinite, FS_Subset
  <2>3. IsFiniteSet(T) /\ Cardinality(T) = Cardinality(J)
    <3>1. g \in [J -> T] /\ (\A a, b \in J : g[a] = g[b] => a = b) /\ \A t \in T : \E j \in J : g[j] = t
      OBVIOUS
    <3> HIDE DEF g, J, T
    <3> QED
      BY <2>2, <3>1, SameSize
  <2>4. SlotsIn(ht, i) = SlotsIn(hu, i) \cup T
    BY <1>1, <2>1 DEF SlotsIn
  <2>5. SlotsIn(hu, i) \cap T = {}
    BY <1>1 DEF SlotsIn
  <2>6. IsFiniteSet(SlotsIn(hu, i))
    BY <1>2, SlotsFinite
  <2> HIDE DEF J, T, g
  <2>7. Cardinality(SlotsIn(ht, i)) = Cardinality(SlotsIn(hu, i)) + Cardinality(T)
    BY <2>3, <2>4, <2>5, <2>6, AddUp
  <2>8. Cardinality(J) \in Nat
    BY <2>2, FS_CardinalityType
  <2> QED
    BY <2>3, <2>7, <2>8 DEF SlotCount, CountOf, J
<1>4. ASSUME NEW o PROVE ObjCount(hu, o) = ObjCount(ht, o) - One(ht[c].obj = o)
  <2>1. IsFiniteSet(ObjsOf(ht, o)) /\ ObjCount(ht, o) \in Nat
    BY ObjsFinite
  <2>2. \A y : y # c => (y \in ObjsOf(ht, o) <=> y \in ObjsOf(hu, o))
    BY <1>1 DEF ObjsOf
  <2>3. (c \in ObjsOf(ht, o) <=> ht[c].obj = o) /\ c \notin ObjsOf(hu, o)
    BY <1>1 DEF ObjsOf
  <2>4. Cardinality(ObjsOf(hu, o)) =
          Cardinality(ObjsOf(ht, o)) + One(c \in ObjsOf(hu, o)) - One(c \in ObjsOf(ht, o))
    BY <2>1, <2>2, OneChanges
  <2> QED
    BY <2>1, <2>3, <2>4 DEF ObjCount, One
<1> QED
  BY <1>1, <1>2, <1>3, <1>4 DEF hu

(* An element is replaced. *)
LEMMA SlotsSet ==
  ASSUME NEW ht, Table(ht), NEW c \in DOMAIN ht, NEW s \in Slots, NEW hu,
         DOMAIN hu = DOMAIN ht,
         \A j \in DOMAIN ht, t \in Slots :
           j # c \/ t # s => hu[j].slots[t] = ht[j].slots[t],
         NEW i
  PROVE  SlotCount(hu, i) =
           SlotCount(ht, i) + One(hu[c].slots[s] = i) - One(ht[c].slots[s] = i)
<1>1. IsFiniteSet(SlotsIn(ht, i)) /\ SlotCount(ht, i) \in Nat
  BY SlotsFinite
<1>2. \A y : y # <<c, s>> => (y \in SlotsIn(ht, i) <=> y \in SlotsIn(hu, i))
  <2> SUFFICES ASSUME NEW y, y # <<c, s>>
               PROVE  y \in SlotsIn(ht, i) <=> y \in SlotsIn(hu, i)
    OBVIOUS
  <2>1. CASE y \in (DOMAIN ht) \X Slots
    BY <2>1 DEF SlotsIn
  <2>2. CASE y \notin (DOMAIN ht) \X Slots
    BY <2>2 DEF SlotsIn
  <2> QED
    BY <2>1, <2>2
<1>3. /\ <<c, s>> \in SlotsIn(ht, i) <=> ht[c].slots[s] = i
      /\ <<c, s>> \in SlotsIn(hu, i) <=> hu[c].slots[s] = i
  BY DEF SlotsIn
<1>4. Cardinality(SlotsIn(hu, i)) = Cardinality(SlotsIn(ht, i))
        + One(<<c, s>> \in SlotsIn(hu, i)) - One(<<c, s>> \in SlotsIn(ht, i))
  BY <1>1, <1>2, OneChanges
<1> QED
  BY <1>3, <1>4 DEF SlotCount, One

(* A proxy changes. *)
LEMMA ProxySet ==
  ASSUME NEW x \in Proxies, NEW i,
         \A y \in Proxies : y # x => proxy'[y].ppobj = proxy[y].ppobj
  PROVE  ProxyCount(proxy', i) = ProxyCount(proxy, i) + One(proxy'[x].ppobj = i) - One(proxy[x].ppobj = i)
<1>1. IsFiniteSet(ProxiesOf(proxy, i)) /\ ProxyCount(proxy, i) \in Nat
  BY ProxiesFinite
<1>2. \A y : y # x => (y \in ProxiesOf(proxy, i) <=> y \in ProxiesOf(proxy', i))
  BY DEF ProxiesOf
<1>3. (x \in ProxiesOf(proxy, i) <=> proxy[x].ppobj = i) /\ (x \in ProxiesOf(proxy', i) <=> proxy'[x].ppobj = i)
  BY DEF ProxiesOf
<1>4. Cardinality(ProxiesOf(proxy', i)) =
        Cardinality(ProxiesOf(proxy, i)) + One(x \in ProxiesOf(proxy', i)) - One(x \in ProxiesOf(proxy, i))
  BY <1>1, <1>2, OneChanges
<1> QED
  BY <1>3, <1>4 DEF ProxyCount, One

-----------------------------------------------------------------------------
(* Steps *)

LEMMA StepIs ==
  /\ \A a, b, x, y : Step(a, x) = Step(b, y) <=> a = b /\ x = y
  /\ \A a, x : Step(a, x).op = a /\ Step(a, x).of = x
  /\ \A i \in Ids : Step("release", i) \in Steps /\ Step("addref", i) \in Steps /\ Step("tonp", i) \in Steps
  /\ \A o \in NPObjects : Step("dealloc", o) \in Steps
  /\ \A st \in Steps : st = Step(st.op, st.of)
BY DEF Step, Steps

(* What goes with a variable: a release for each of its elements, and the  *)
(* deallocation of its object.                                             *)
LEMMA FreeingIs ==
  ASSUME NEW v \in Var, NEW order \in Orders(v)
  PROVE  /\ Freeing(v, order) \in Seq(Steps)
         /\ \A j \in DOMAIN Freeing(v, order) : Freeing(v, order)[j].op \in {"release", "dealloc"}
         /\ \A i \in Ids : /\ CountOf(Freeing(v, order), Step("release", i)) = CountOf(v.slots, i)
                           /\ CountOf(Freeing(v, order), Step("addref", i)) = 0
         /\ \A o \in NPObjects : CountOf(Freeing(v, order), Step("dealloc", o)) = One(v.obj = o)
<1> DEFINE used == {s \in Slots : v.slots[s] # None}
           n == Cardinality(used)
           R == [i \in DOMAIN order |-> Step("release", v.slots[order[i]])]
           D == IF v.obj # None THEN <<Step("dealloc", v.obj)>> ELSE <<>>
<1>1. v.slots \in [Slots -> Ids \cup {None}] /\ v.obj \in NPObjects \cup {None}
  BY DEF Var
<1>2. IsFiniteSet(used) /\ n \in Nat
  <2>1. used \in SUBSET Slots
    OBVIOUS
  <2> QED
    BY <2>1, SpaceFinite, FS_Subset, FS_CardinalityType
<1>3. order \in Bijection(1 .. n, used)
  BY DEF Orders
<1>4. /\ order \in [1 .. n -> used] /\ \A t \in used : \E s \in 1 .. n : order[s] = t
      /\ \A a, b \in 1 .. n : order[a] = order[b] => a = b
  BY <1>3 DEF Bijection, Injection, Surjection, IsInjective
<1> HIDE DEF n
<1>5. R \in Seq(Steps) /\ DOMAIN R = 1 .. n
  <2>1. \A i \in 1 .. n : v.slots[order[i]] \in Ids
    BY <1>1, <1>4
  <2>2. R \in [1 .. n -> Steps]
    BY <1>4, <2>1, StepIs
  <2> QED
    BY <1>2, <2>2, IsASeq
<1>6. D \in Seq(Steps)
  BY <1>1, StepIs
<1>7. Freeing(v, order) = R \o D
  BY DEF Freeing
<1>8. Freeing(v, order) \in Seq(Steps)
  BY <1>5, <1>6, <1>7, ConcatProperties
<1>9. ASSUME NEW i \in Ids
      PROVE  /\ CountOf(R, Step("release", i)) = CountOf(v.slots, i)
             /\ CountOf(D, Step("release", i)) = 0
             /\ CountOf(R, Step("addref", i)) = 0 /\ CountOf(D, Step("addref", i)) = 0
  <2> DEFINE A == {j \in DOMAIN R : R[j] = Step("release", i)}
             B == {s \in DOMAIN v.slots : v.slots[s] = i}
             f == [j \in A |-> order[j]]
  <2>1. \A j \in DOMAIN R : j \in A <=> v.slots[order[j]] = i
    BY StepIs
  <2>2. i # None
    BY DEF Ids, None
  <2>3. f \in [A -> B]
    BY <1>1, <1>4, <1>5, <2>1
  <2>4. \A a, b \in A : f[a] = f[b] => a = b
    BY <1>4, <1>5
  <2>5. \A t \in B : \E s \in A : f[s] = t
    <3> SUFFICES ASSUME NEW t \in B PROVE \E s \in A : f[s] = t
      OBVIOUS
    <3>1. t \in used
      BY <1>1, <2>2
    <3>2. PICK s \in 1 .. n : order[s] = t
      BY <1>4, <3>1
    <3>3. s \in A /\ f[s] = t
      BY <1>5, <2>1, <3>2
    <3> QED
      BY <3>3
  <2>6. IsFiniteSet(A)
    <3> HIDE DEF R
    <3> QED
      BY <1>5, CountFinite
  <2> HIDE DEF A, B, f
  <2>7. Cardinality(B) = Cardinality(A)
    BY <2>3, <2>4, <2>5, <2>6, SameSize
  <2>8. CountOf(R, Step("release", i)) = CountOf(v.slots, i)
    BY <2>7 DEF CountOf, A, B
  <2>9. {j \in DOMAIN R : R[j] = Step("addref", i)} = {}
    BY StepIs
  <2>10. CountOf(R, Step("addref", i)) = 0
    BY <2>9, FS_EmptySet DEF CountOf
  <2>11. CountOf(D, Step("addref", i)) = 0 /\ CountOf(D, Step("release", i)) = 0
    BY CountOne, CountEmpty, StepIs DEF One
  <2> QED
    BY <2>8, <2>10, <2>11
<1>10. ASSUME NEW o \in NPObjects
       PROVE  /\ CountOf(R, Step("dealloc", o)) = 0
              /\ CountOf(D, Step("dealloc", o)) = One(v.obj = o)
  <2>1. {j \in DOMAIN R : R[j] = Step("dealloc", o)} = {}
    BY StepIs
  <2>2. CountOf(R, Step("dealloc", o)) = 0
    BY <2>1, FS_EmptySet DEF CountOf
  <2>3. None # o
    BY NamesAssumption
  <2>4. CountOf(D, Step("dealloc", o)) = One(v.obj = o)
    BY <2>3, CountOne, CountEmpty, StepIs DEF One
  <2> QED
    BY <2>2, <2>4
<1>11. \A j \in DOMAIN (R \o D) : (R \o D)[j].op \in {"release", "dealloc"}
  <2>1. (\A j \in DOMAIN R : R[j].op = "release") /\ \A j \in DOMAIN D : D[j].op = "dealloc"
    BY StepIs
  <2>2. \A j \in DOMAIN (R \o D) : \/ j \in DOMAIN R /\ (R \o D)[j] = R[j]
                                   \/ j - Len(R) \in DOMAIN D /\ (R \o D)[j] = D[j - Len(R)]
    <3> HIDE DEF R, D
    <3>1. /\ DOMAIN R = 1 .. Len(R) /\ DOMAIN D = 1 .. Len(D) /\ Len(R) \in Nat /\ Len(D) \in Nat
          /\ DOMAIN (R \o D) = 1 .. Len(R) + Len(D)
          /\ \A i \in 1 .. Len(R) + Len(D) : (R \o D)[i] = IF i <= Len(R) THEN R[i] ELSE D[i - Len(R)]
      BY <1>5, <1>6, ConcatProperties, LenProperties
    <3> QED
      BY <3>1
  <2> QED
    BY <2>1, <2>2
<1> HIDE DEF R, D
<1>12. \A st : CountOf(R \o D, st) = CountOf(R, st) + CountOf(D, st)
  BY <1>5, <1>6, CountConcat
<1>13. \A i \in Ids : CountOf(v.slots, i) \in Nat
  <2>1. v.slots \in Seq(Ids \cup {None})
    BY <1>1, BoundsAssumption, IsASeq DEF Slots
  <2> QED
    BY <2>1, CountFinite
<1>14. ASSUME NEW i \in Ids
       PROVE  /\ CountOf(R \o D, Step("release", i)) = CountOf(v.slots, i)
              /\ CountOf(R \o D, Step("addref", i)) = 0
  BY <1>9, <1>12, <1>13
<1>15. ASSUME NEW o \in NPObjects PROVE CountOf(R \o D, Step("dealloc", o)) = One(v.obj = o)
  BY <1>10, <1>12 DEF One
<1> QED
  BY <1>7, <1>8, <1>11, <1>14, <1>15

(* Nothing below the top changes, and a callback that ends has no argument *)
(* any more.                                                               *)
TopIs(gs, fr) ==
  /\ Len(gs) = Len(frames) /\ \A f \in 1 .. Len(frames) - 1 : gs[f] = frames[f]
  /\ gs[Len(frames)] = fr

LEMMA NewTop ==
  ASSUME frames \in Seq(FrameT), frames # <<>>, NEW fr \in FrameT
  PROVE  LET gs == [frames EXCEPT ![Len(frames)] = fr] IN gs \in Seq(FrameT) /\ TopIs(gs, fr)
<1> DEFINE n == Len(frames)
<1>1. n \in Nat \ {0} /\ DOMAIN frames = 1 .. n
  BY UnderIs
<1>2. n \in 1 .. Len(frames)
  BY <1>1
<1> HIDE DEF n
<1>3. /\ [frames EXCEPT ![n] = fr] \in Seq(FrameT)
      /\ Len([frames EXCEPT ![n] = fr]) = Len(frames)
  BY <1>2, ExceptSeq
<1>4. [frames EXCEPT ![n] = fr][n] = fr /\ \A f \in 1 .. n - 1 : [frames EXCEPT ![n] = fr][f] = frames[f]
  BY <1>1
<1> QED
  BY <1>3, <1>4 DEF n, TopIs

LEMMA TopGives ==
  ASSUME frames \in Seq(FrameT), frames # <<>>, NEW gs \in Seq(FrameT), NEW fr, TopIs(gs, fr)
  PROVE  /\ \A st : Pend(gs, st) = Pend(Under(frames), st) + CountOf(fr.todo, st)
         /\ \A id : Lent(gs, id) = Lent(Under(frames), id) + One(fr.lent = id)
<1>1. /\ Len(frames) \in Nat \ {0} /\ Under(frames) \in Seq(FrameT)
      /\ Len(Under(frames)) = Len(frames) - 1
      /\ \A f \in 1 .. Len(frames) - 1 : Under(frames)[f] = frames[f]
  BY UnderIs
<1>2. PICK m \in Nat : m = Len(frames) - 1
  BY <1>1
<1>3. PICK us \in Seq(FrameT) : us = Under(frames)
  BY <1>1
<1>4. Len(us) = m /\ Len(gs) = m + 1 /\ gs[m + 1] = fr /\ \A f \in 1 .. m : gs[f] = us[f]
  BY <1>1, <1>2, <1>3 DEF TopIs
<1>5. /\ \A st : Pend(gs, st) = Pend(us, st) + CountOf(gs[m + 1].todo, st)
      /\ \A id : Lent(gs, id) = Lent(us, id) + One(gs[m + 1].lent = id)
  BY ONLY <1>4, OnTop, m \in Nat, us \in Seq(FrameT), gs \in Seq(FrameT)
<1> QED
  BY <1>3, <1>4, <1>5

LEMMA WithTopIs ==
  ASSUME frames \in Seq(FrameT), frames # <<>>, NEW T \in Seq(Steps), Top.done => Top.lent = None
  PROVE  /\ WithTop(T) \in Seq(FrameT)
         /\ \/ WithTop(T) = Under(frames) /\ T = <<>>
            \/ TopIs(WithTop(T), [Top EXCEPT !.todo = T])
         /\ \A st : Pend(WithTop(T), st) = Pend(Under(frames), st) + CountOf(T, st)
         /\ \A id \in Ids : Lent(WithTop(T), id) = Lent(frames, id)
<1>1. Top \in FrameT /\ Under(frames) \in Seq(FrameT)
  BY UnderIs DEF Top
<1>2. CASE Top.done /\ T = <<>>
  <2>1. WithTop(T) = Under(frames)
    BY <1>2 DEF WithTop, Under
  <2>2. \A st : CountOf(T, st) = 0 /\ Pend(Under(frames), st) \in Nat
    BY <1>2, CountEmpty, PendTop
  <2>3. \A id \in Ids : Lent(Under(frames), id) = Lent(frames, id)
    <3> SUFFICES ASSUME NEW id \in Ids PROVE Lent(Under(frames), id) = Lent(frames, id)
      OBVIOUS
    <3>1. Top.lent # id
      BY <1>2 DEF Ids, None
    <3>2. Lent(frames, id) = Lent(Under(frames), id) + One(Top.lent = id) /\ Lent(Under(frames), id) \in Nat
      BY LentTop DEF Top
    <3> QED
      BY <3>1, <3>2 DEF One
  <2> QED
    BY <1>1, <1>2, <2>1, <2>2, <2>3
<1>3. CASE ~(Top.done /\ T = <<>>)
  <2> DEFINE fr == [Top EXCEPT !.todo = T]
  <2>1. fr \in FrameT /\ fr.todo = T /\ fr.lent = Top.lent
    BY <1>1 DEF FrameT
  <2>2. WithTop(T) = [frames EXCEPT ![Len(frames)] = fr]
    BY <1>3 DEF WithTop, Top
  <2> HIDE DEF fr
  <2>3. WithTop(T) \in Seq(FrameT) /\ TopIs(WithTop(T), fr)
    BY <2>1, <2>2, NewTop
  <2>4. /\ \A st : Pend(WithTop(T), st) = Pend(Under(frames), st) + CountOf(fr.todo, st)
        /\ \A id : Lent(WithTop(T), id) = Lent(Under(frames), id) + One(fr.lent = id)
    BY <2>3, TopGives
  <2>5. \A id : Lent(frames, id) = Lent(Under(frames), id) + One(Top.lent = id)
    BY LentTop DEF Top
  <2> QED
    BY <2>1, <2>3, <2>5, <2>4 DEF fr
<1> QED
  BY <1>2, <1>3

-----------------------------------------------------------------------------
(* The counts of a state *)

H(own, ht, px, fs, i) ==
  own[i] + SlotCount(ht, i) + ProxyCount(px, i) + Lent(fs, i) + Pend(fs, Step("release", i))
Bal(own, ht, px, fs, lst, i) == H(own, ht, px, fs, i) + lst[i] - Pend(fs, Step("addref", i))

Typed(ht, own, lst, fs) ==
  Table(ht) /\ own \in [Ids -> Nat] /\ lst \in [Ids -> Nat] /\ fs \in Seq(FrameT)

LEMMA TypeParts ==
  /\ TypeOK <=> /\ Typed(var_ht, owned, lost, frames) /\ var_id \in Ids
                /\ np \in [NPObjects -> NPT] /\ proxy \in [Proxies -> ProxyT] /\ calls \in 0 .. MaxCalls
  /\ TypeOK' <=> /\ Typed(var_ht', owned', lost', frames') /\ var_id' \in Ids
                 /\ np' \in [NPObjects -> NPT] /\ proxy' \in [Proxies -> ProxyT] /\ calls' \in 0 .. MaxCalls
BY DEF TypeOK, Typed, Table, FrameT, NPT, ProxyT

LEMMA Counted ==
  /\ \A i : Holders(i) = H(owned, var_ht, proxy, frames, i)
  /\ \A i : Holders(i)' = H(owned', var_ht', proxy', frames', i)
  /\ RefCountExact <=> \A i \in DOMAIN var_ht :
       var_ht[i].ref_count = Bal(owned, var_ht, proxy, frames, lost, i)
  /\ RefCountExact' <=> \A i \in DOMAIN var_ht' :
       var_ht'[i].ref_count = Bal(owned', var_ht', proxy', frames', lost', i)
  /\ NPRefsExact <=> \A o \in NPObjects :
       np[o].refs = np[o].script + Pend(frames, Step("dealloc", o)) + ObjCount(var_ht, o)
  /\ NPRefsExact' <=> \A o \in NPObjects :
       np'[o].refs = np'[o].script + Pend(frames', Step("dealloc", o)) + ObjCount(var_ht', o)
<1> USE DEF H, InSlots, SlotCount, SlotsIn, InProxies, ProxyCount, ProxiesOf, InArgs, Lent, LentIn,
            Pending, Pend, Places
<1>1. \A i : Holders(i) = H(owned, var_ht, proxy, frames, i)
  BY DEF Holders
<1>2. \A i : Holders(i)' = H(owned', var_ht', proxy', frames', i)
  BY DEF Holders
<1>3. \A x : /\ Pending("addref", x) = Pend(frames, Step("addref", x))
             /\ Pending("dealloc", x) = Pend(frames, Step("dealloc", x))
             /\ Pending("addref", x)' = Pend(frames', Step("addref", x))
             /\ Pending("dealloc", x)' = Pend(frames', Step("dealloc", x))
  OBVIOUS
<1>4. \A o : VarsOf(o) = ObjCount(var_ht, o) /\ VarsOf(o)' = ObjCount(var_ht', o)
  BY DEF VarsOf, ObjCount, ObjsOf
<1> HIDE DEF H, Pending, Pend, SlotCount, ProxyCount, Lent
<1> QED
  BY <1>1, <1>2, <1>3, <1>4 DEF RefCountExact, NPRefsExact, Bal

LEMMA Numbers ==
  ASSUME NEW ht, NEW own, NEW lst, NEW fs, Typed(ht, own, lst, fs), NEW px, NEW i \in Ids
  PROVE  /\ own[i] \in Nat /\ SlotCount(ht, i) \in Nat /\ ProxyCount(px, i) \in Nat
         /\ Lent(fs, i) \in Nat /\ Pend(fs, Step("release", i)) \in Nat
         /\ Pend(fs, Step("addref", i)) \in Nat /\ lst[i] \in Nat
         /\ H(own, ht, px, fs, i) \in Nat
<1>1. own[i] \in Nat /\ lst[i] \in Nat /\ Table(ht) /\ fs \in Seq(FrameT)
  BY DEF Typed
<1>2. SlotCount(ht, i) \in Nat /\ ProxyCount(px, i) \in Nat
  BY <1>1, SlotsFinite, ProxiesFinite
<1>3. Lent(fs, i) \in Nat /\ Pend(fs, Step("release", i)) \in Nat /\ Pend(fs, Step("addref", i)) \in Nat
  BY <1>1, LentFinite, PlacesFinite
<1> QED
  BY <1>1, <1>2, <1>3 DEF H

(* What the invariant gives. *)
Hold(i) == H(owned, var_ht, proxy, frames, i)
Adding(i) == Pend(frames, Step("addref", i))

LEMMA InvGives ==
  ASSUME VarInv
  PROVE  /\ Typed(var_ht, owned, lost, frames) /\ Table(var_ht) /\ frames \in Seq(FrameT)
         /\ owned \in [Ids -> Nat] /\ lost \in [Ids -> Nat]
         /\ var_id \in Ids /\ np \in [NPObjects -> NPT] /\ proxy \in [Proxies -> ProxyT]
         /\ calls \in 0 .. MaxCalls
         /\ Kinds /\ LostAreThere /\ Frames /\ ProxiesAreMapped
         /\ \A i \in Ids : Hold(i) \in Nat /\ (Hold(i) > 0 => i \in DOMAIN var_ht)
         /\ \A i \in DOMAIN var_ht : i \in Ids /\ var_ht[i] \in Var
                                     /\ var_ht[i].ref_count = Hold(i) + lost[i] - Adding(i)
         /\ \A o \in NPObjects :
              np[o].refs = np[o].script + Pend(frames, Step("dealloc", o)) + ObjCount(var_ht, o)
<1>1. /\ Typed(var_ht, owned, lost, frames) /\ var_id \in Ids
      /\ np \in [NPObjects -> NPT] /\ proxy \in [Proxies -> ProxyT] /\ calls \in 0 .. MaxCalls
  BY TypeParts DEF VarInv
<1>2. \A i \in Ids : Hold(i) \in Nat
  BY <1>1, Numbers DEF Hold
<1>3. \A i \in Ids : Hold(i) > 0 => i \in DOMAIN var_ht
  BY Counted DEF VarInv, HeldVarsAreAlive, Hold
<1>4. \A i \in DOMAIN var_ht : var_ht[i].ref_count = Hold(i) + lost[i] - Adding(i)
  BY Counted DEF VarInv, Hold, Adding, Bal
<1> QED
  BY <1>1, <1>2, <1>3, <1>4, Counted DEF VarInv, Typed, Table

(* Who is among the holders. *)
LEMMA HoldParts ==
  ASSUME VarInv, NEW i \in Ids
  PROVE  /\ owned[i] \in Nat /\ SlotCount(var_ht, i) \in Nat /\ ProxyCount(proxy, i) \in Nat
         /\ Lent(frames, i) \in Nat /\ Pend(frames, Step("release", i)) \in Nat
         /\ Adding(i) \in Nat /\ lost[i] \in Nat
         /\ Hold(i) = owned[i] + SlotCount(var_ht, i) + ProxyCount(proxy, i)
                      + Lent(frames, i) + Pend(frames, Step("release", i))
BY InvGives, Numbers DEF Hold, Adding, H

LEMMA HeldIsThere ==
  ASSUME VarInv, NEW i \in Ids,
         \/ owned[i] > 0 \/ SlotCount(var_ht, i) > 0 \/ ProxyCount(proxy, i) > 0
         \/ Lent(frames, i) > 0 \/ Pend(frames, Step("release", i)) > 0
  PROVE  i \in DOMAIN var_ht /\ var_ht[i] \in Var
<1>1. Hold(i) > 0
  BY HoldParts
<1> QED
  BY <1>1, InvGives

(* A proxy, an argument, an element and a step are holders. *)
LEMMA Holding ==
  ASSUME VarInv, NEW i \in Ids
  PROVE  /\ \A x \in Proxies : proxy[x].ppobj = i => ProxyCount(proxy, i) > 0
         /\ \A f \in DOMAIN frames : frames[f].lent = i => Lent(frames, i) > 0
         /\ \A c \in DOMAIN var_ht, s \in Slots :
              var_ht[c].slots[s] = i => SlotCount(var_ht, i) > 0
         /\ \A f \in DOMAIN frames : \A j \in DOMAIN frames[f].todo :
              frames[f].todo[j] = Step("release", i) => Pend(frames, Step("release", i)) > 0
<1>1. Table(var_ht) /\ frames \in Seq(FrameT)
  BY InvGives
<1>2. ASSUME NEW x \in Proxies, proxy[x].ppobj = i PROVE ProxyCount(proxy, i) > 0
  <2>1. x \in ProxiesOf(proxy, i)
    BY <1>2 DEF ProxiesOf
  <2> QED
    BY <2>1, ProxiesFinite, Positive DEF ProxyCount
<1>3. ASSUME NEW f \in DOMAIN frames, frames[f].lent = i PROVE Lent(frames, i) > 0
  <2>1. f \in LentIn(frames, i)
    BY <1>3 DEF LentIn
  <2> QED
    BY <1>1, <2>1, LentFinite, Positive DEF Lent
<1>4. ASSUME NEW c \in DOMAIN var_ht, NEW s \in Slots, var_ht[c].slots[s] = i
      PROVE  SlotCount(var_ht, i) > 0
  <2>1. <<c, s>> \in SlotsIn(var_ht, i)
    BY <1>4 DEF SlotsIn
  <2> QED
    BY <1>1, <2>1, SlotsFinite, Positive DEF SlotCount
<1>5. ASSUME NEW f \in DOMAIN frames, NEW j \in DOMAIN frames[f].todo,
             frames[f].todo[j] = Step("release", i)
      PROVE  Pend(frames, Step("release", i)) > 0
  <2>1. <<f, j>> \in Places(frames, Step("release", i))
    BY <1>5, PlacesIs
  <2> QED
    BY <1>1, <2>1, PlacesFinite, Positive DEF Pend
<1> QED
  BY <1>2, <1>3, <1>4, <1>5

(* While a dictionary is set, both it and the element are kept. *)
LEMMA ArgsAreHeld ==
  ASSUME VarInv, frames # <<>>, NEW i \in frames[1].args
  PROVE  i \in Ids /\ owned[i] + Lent(frames, i) > 0
<1>1. 1 \in DOMAIN frames /\ frames[1] \in FrameT
  BY InvGives, UnderIs, ElementOfSeq
<1>2. i \in Ids
  BY <1>1 DEF FrameT
<1>3. owned[i] > 0 \/ frames[1].lent = i
  BY <1>1, InvGives DEF Frames, Setting
<1>4. owned[i] \in Nat /\ Lent(frames, i) \in Nat
  BY <1>2, HoldParts
<1> QED
  BY <1>1, <1>2, <1>3, <1>4, Holding

LEMMA AddingIs ==
  ASSUME VarInv, NEW i \in Ids
  PROVE  /\ Adding(i) \in {0, 1}
         /\ Adding(i) = 1 => frames # <<>> /\ i \in frames[1].args /\ SlotCount(var_ht, i) > 0
<1>1. frames \in Seq(FrameT) /\ Frames /\ Table(var_ht)
  BY InvGives
<1>2. IsFiniteSet(Places(frames, Step("addref", i)))
  BY <1>1, PlacesFinite
<1>3. ASSUME NEW p \in Places(frames, Step("addref", i))
      PROVE  /\ frames # <<>> /\ p = <<1, Len(frames[1].todo)>>
             /\ i \in frames[1].args /\ SlotCount(var_ht, i) > 0
  <2>1. PICK f \in DOMAIN frames : \E j \in DOMAIN frames[f].todo :
               frames[f].todo[j] = Step("addref", i) /\ p = <<f, j>>
    BY PlacesIs
  <2>2. PICK j \in DOMAIN frames[f].todo : frames[f].todo[j] = Step("addref", i) /\ p = <<f, j>>
    BY <2>1
  <2>3. frames[f].todo[j].op = "addref" /\ frames[f].todo[j].of = i
    BY <2>2, StepIs
  <2>4. f = 1
    BY <1>1, <2>3 DEF Frames, Plain
  <2>5. /\ j = Len(frames[1].todo) /\ i \in frames[1].args
        /\ \E d \in frames[1].args : Stores(var_ht, d, i)
    BY <1>1, <2>3, <2>4 DEF Frames, Setting
  <2>6. SlotCount(var_ht, i) > 0
    BY <2>5, Holding DEF Stores
  <2>7. frames # <<>>
    BY <2>4
  <2> QED
    BY <2>2, <2>4, <2>5, <2>6, <2>7
<1>4. CASE Places(frames, Step("addref", i)) = {}
  <2>1. Adding(i) = 0
    BY <1>4, FS_EmptySet DEF Adding, Pend
  <2> QED
    BY <2>1
<1>5. CASE Places(frames, Step("addref", i)) # {}
  <2>1. Places(frames, Step("addref", i)) = {<<1, Len(frames[1].todo)>>}
    BY <1>3, <1>5
  <2>2. Adding(i) = 1
    BY <2>1, FS_Singleton DEF Adding, Pend
  <2> QED
    BY <1>3, <1>5, <2>2
<1> QED
  BY <1>4, <1>5

(* A variable goes with its last holder. *)
LEMMA GoneIs ==
  ASSUME VarInv, NEW i \in Ids, Gone(i),
         ProxyCount(proxy, i) > 0 \/ Pend(frames, Step("release", i)) > 0
  PROVE  /\ i \in DOMAIN var_ht /\ Hold(i) = 1 /\ lost[i] = 0 /\ Adding(i) = 0
         /\ SlotCount(var_ht, i) = 0
         /\ frames # <<>> => i \notin frames[1].args
<1>1. i \in DOMAIN var_ht /\ var_ht[i] \in Var
  BY HeldIsThere
<1>2. var_ht[i].ref_count = 1 /\ var_ht[i].ref_count = Hold(i) + lost[i] - Adding(i)
  BY <1>1, InvGives DEF Gone, Var
<1>3. Adding(i) = 1 => SlotCount(var_ht, i) > 0 /\ owned[i] + Lent(frames, i) > 0
  BY AddingIs, ArgsAreHeld
<1>4. Adding(i) \in {0, 1}
  BY AddingIs
<1>5. Adding(i) = 0 /\ Hold(i) = 1 /\ lost[i] = 0 /\ SlotCount(var_ht, i) = 0
      /\ owned[i] + Lent(frames, i) = 0
  <2>1. PICK own, sl, pr, le, re, lo, ad \in Nat :
          /\ own = owned[i] /\ sl = SlotCount(var_ht, i) /\ pr = ProxyCount(proxy, i)
          /\ le = Lent(frames, i) /\ re = Pend(frames, Step("release", i)) /\ lo = lost[i]
          /\ ad = Adding(i)
    BY HoldParts
  <2>2. Hold(i) = own + sl + pr + le + re
    BY <2>1, HoldParts
  <2>3. 1 = own + sl + pr + le + re + lo - ad
    BY <1>2, <2>1, <2>2
  <2>4. (ad = 1 => sl > 0 /\ own + le > 0) /\ ad \in {0, 1} /\ (pr > 0 \/ re > 0)
    BY <1>3, <1>4, <2>1
  <2>5. ad = 0 /\ own + sl + pr + le + re = 1 /\ lo = 0 /\ sl = 0 /\ own + le = 0
    BY ONLY <2>3, <2>4, own \in Nat, sl \in Nat, pr \in Nat, le \in Nat, re \in Nat, lo \in Nat, ad \in Nat
  <2> QED
    BY <2>1, <2>2, <2>5
<1> QED
  BY <1>1, <1>5, ArgsAreHeld

LEMMA StaysIs ==
  ASSUME VarInv, NEW i \in DOMAIN var_ht, ~Gone(i)
  PROVE  var_ht[i].ref_count - 1 \in Nat \ {0}
BY InvGives DEF Gone, Var

-----------------------------------------------------------------------------
(* The counts of the next state *)

CountsNext == HeldVarsAreAlive' /\ RefCountExact' /\ LostAreThere'

NextTyped == Typed(var_ht', owned', lost', frames')

HoldNext(i) == H(owned', var_ht', proxy', frames', i)

LEMMA CountsAre ==
  ASSUME \A i \in Ids \ DOMAIN var_ht' : HoldNext(i) = 0 /\ lost'[i] = 0,
         \A i \in Ids : HoldNext(i) \in Nat,
         \A i \in DOMAIN var_ht' :
           var_ht'[i].ref_count = HoldNext(i) + lost'[i] - Pend(frames', Step("addref", i))
  PROVE  CountsNext
<1>1. HeldVarsAreAlive'
  <2>1. \A i \in Ids : Holders(i)' > 0 => i \in DOMAIN var_ht'
    BY Counted DEF HoldNext
  <2> QED
    BY <2>1 DEF HeldVarsAreAlive
<1>2. RefCountExact'
  BY Counted DEF HoldNext, Bal
<1>3. LostAreThere'
  BY DEF LostAreThere
<1> QED
  BY <1>1, <1>2, <1>3 DEF CountsNext

(* What a step adds to the count of a variable, to plugin code, elements,  *)
(* proxies, arguments, releases and additions to do, and lost references.  *)
Delta(i, r, o, s, p, l, e, a, x) ==
  /\ i \in DOMAIN var_ht => var_ht'[i].ref_count = var_ht[i].ref_count + r
  /\ owned'[i] = owned[i] + o
  /\ SlotCount(var_ht', i) = SlotCount(var_ht, i) + s
  /\ ProxyCount(proxy', i) = ProxyCount(proxy, i) + p
  /\ Lent(frames', i) = Lent(frames, i) + l
  /\ Pend(frames', Step("release", i)) = Pend(frames, Step("release", i)) + e
  /\ Pend(frames', Step("addref", i)) = Pend(frames, Step("addref", i)) + a
  /\ lost'[i] = lost[i] + x

Balanced(i) ==
  \E r, o, s, p, l, e, a, x \in Int :
    /\ Delta(i, r, o, s, p, l, e, a, x)
    /\ r = o + s + p + l + e + x - a
    /\ i \notin DOMAIN var_ht => o + s + p + l + e = 0 /\ x = 0

(* The table keeps its ids. *)
LEMMA CountsKeep ==
  ASSUME VarInv, NextTyped, DOMAIN var_ht' = DOMAIN var_ht, \A i \in Ids : Balanced(i)
  PROVE  CountsNext
<1>1. ASSUME NEW i \in Ids
      PROVE  /\ HoldNext(i) \in Nat
             /\ i \notin DOMAIN var_ht => HoldNext(i) = 0 /\ lost'[i] = 0
             /\ i \in DOMAIN var_ht =>
                  var_ht'[i].ref_count = HoldNext(i) + lost'[i] - Pend(frames', Step("addref", i))
  <2>1. PICK r, o, s, p, l, e, a, x \in Int :
          /\ Delta(i, r, o, s, p, l, e, a, x)
          /\ r = o + s + p + l + e + x - a
          /\ i \notin DOMAIN var_ht => o + s + p + l + e = 0 /\ x = 0
    BY <1>1 DEF Balanced
  <2>2. PICK own, sl, pr, le, re, lo, ad \in Nat :
          /\ own = owned[i] /\ sl = SlotCount(var_ht, i) /\ pr = ProxyCount(proxy, i)
          /\ le = Lent(frames, i) /\ re = Pend(frames, Step("release", i)) /\ lo = lost[i]
          /\ ad = Adding(i)
    BY HoldParts
  <2>3. Hold(i) = own + sl + pr + le + re
    BY <2>2, HoldParts
  <2>4. /\ HoldNext(i) = (own + o) + (sl + s) + (pr + p) + (le + l) + (re + e)
        /\ lost'[i] = lo + x /\ Pend(frames', Step("addref", i)) = ad + a
    BY <2>1, <2>2 DEF Delta, HoldNext, H, Adding
  <2>5. HoldNext(i) \in Nat
    BY Numbers DEF HoldNext, NextTyped
  <2>6. CASE i \notin DOMAIN var_ht
    <3>1. Hold(i) = 0 /\ lo = 0
      <4>1. Hold(i) \in Nat /\ ~(Hold(i) > 0) /\ lost[i] = 0
        BY <2>6, InvGives DEF LostAreThere
      <4> QED
        BY <4>1, <2>2
    <3>2. HoldNext(i) = 0 /\ lost'[i] = 0
      <4>1. own + sl + pr + le + re = 0 /\ o + s + p + l + e = 0 /\ x = 0
        BY <2>1, <2>3, <2>6, <3>1
      <4>2. (own + o) + (sl + s) + (pr + p) + (le + l) + (re + e) = 0
        BY ONLY <4>1, own \in Nat, sl \in Nat, pr \in Nat, le \in Nat, re \in Nat,
                o \in Int, s \in Int, p \in Int, l \in Int, e \in Int
      <4> QED
        BY <2>4, <3>1, <4>1, <4>2
    <3> QED
      BY <2>5, <2>6, <3>2
  <2>7. CASE i \in DOMAIN var_ht
    <3>1. PICK k \in Nat : k = var_ht[i].ref_count
      BY <2>7, InvGives DEF Var
    <3>2. k = own + sl + pr + le + re + lo - ad
      BY <2>2, <2>3, <2>7, <3>1, InvGives
    <3>3. var_ht'[i].ref_count = k + r
      BY <2>1, <2>7, <3>1 DEF Delta
    <3>4. k + r = (own + o) + (sl + s) + (pr + p) + (le + l) + (re + e) + (lo + x) - (ad + a)
      <4>1. r = o + s + p + l + e + x - a
        BY <2>1
      <4> QED
        BY ONLY <3>2, <4>1, own \in Nat, sl \in Nat, pr \in Nat, le \in Nat, re \in Nat, lo \in Nat,
                ad \in Nat, r \in Int, o \in Int, s \in Int, p \in Int, l \in Int, e \in Int,
                a \in Int, x \in Int
    <3> QED
      BY <2>4, <2>5, <2>7, <3>3, <3>4
  <2> QED
    BY <2>6, <2>7
<1>2. DOMAIN var_ht \subseteq Ids
  BY InvGives DEF Table
<1> QED
  BY <1>1, <1>2, CountsAre

(* A new variable is known to its creator only. *)
LEMMA CountsPut ==
  ASSUME VarInv, NextTyped, NEW new \in Ids \ DOMAIN var_ht, NEW v \in Var,
         v.ref_count = 1, v.slots = Empty, var_ht' = Put(var_ht, new, v),
         owned' = [owned EXCEPT ![new] = @ + 1], UNCHANGED <<lost, frames, proxy>>
  PROVE  CountsNext
<1>1. Table(var_ht) /\ owned \in [Ids -> Nat] /\ DOMAIN var_ht \subseteq Ids
  BY InvGives DEF Table
<1>2. /\ DOMAIN var_ht' = DOMAIN var_ht \cup {new} /\ var_ht'[new] = v
      /\ \A j \in DOMAIN var_ht : var_ht'[j] = var_ht[j]
      /\ \A i \in Ids : SlotCount(var_ht', i) = SlotCount(var_ht, i)
  BY <1>1, TablePut
<1>3. ASSUME NEW i \in Ids
      PROVE  HoldNext(i) = Hold(i) + One(i = new)
  <2>1. owned'[i] = owned[i] + One(i = new)
    BY <1>1 DEF One
  <2>2. One(i = new) \in Nat
    BY DEF One
  <2> QED
    BY <1>2, <2>1, <2>2, HoldParts DEF HoldNext, H, One
<1>4. Hold(new) = 0 /\ lost[new] = 0 /\ Adding(new) = 0
  <2>1. Hold(new) = 0 /\ lost[new] = 0
    BY InvGives DEF LostAreThere
  <2>2. Adding(new) # 1
    <3>1. SlotCount(var_ht, new) = 0
      <4>1. PICK own, sl, pr, le, re \in Nat :
              /\ own = owned[new] /\ sl = SlotCount(var_ht, new) /\ pr = ProxyCount(proxy, new)
              /\ le = Lent(frames, new) /\ re = Pend(frames, Step("release", new))
        BY HoldParts
      <4>2. Hold(new) = own + sl + pr + le + re
        BY <4>1, HoldParts
      <4> QED
        BY <2>1, <4>1, <4>2
    <3> QED
      BY <3>1, AddingIs
  <2> QED
    BY <2>1, <2>2, AddingIs
<1>5. \A i \in Ids : HoldNext(i) \in Nat
  BY Numbers DEF HoldNext, NextTyped
<1>6. \A i \in Ids \ DOMAIN var_ht' : HoldNext(i) = 0 /\ lost'[i] = 0
  <2> SUFFICES ASSUME NEW i \in Ids \ DOMAIN var_ht' PROVE HoldNext(i) = 0 /\ lost'[i] = 0
    OBVIOUS
  <2>1. i # new /\ i \notin DOMAIN var_ht
    BY <1>2
  <2>2. Hold(i) = 0 /\ lost[i] = 0
    BY <2>1, InvGives DEF LostAreThere
  <2> QED
    BY <1>3, <2>1, <2>2 DEF One
<1>7. \A i \in DOMAIN var_ht' :
        var_ht'[i].ref_count = HoldNext(i) + lost'[i] - Pend(frames', Step("addref", i))
  <2> SUFFICES ASSUME NEW i \in DOMAIN var_ht'
               PROVE var_ht'[i].ref_count = HoldNext(i) + lost'[i] - Adding(i)
    BY DEF Adding
  <2>1. CASE i = new
    BY <1>2, <1>3, <1>4, <2>1 DEF One
  <2>2. CASE i # new
    <3>1. i \in DOMAIN var_ht /\ i \in Ids /\ var_ht'[i] = var_ht[i]
      BY <1>1, <1>2, <2>2
    <3>2. HoldNext(i) = Hold(i)
      BY <1>3, <2>2, <3>1, InvGives DEF One
    <3> QED
      BY <3>1, <3>2, InvGives
  <2> QED
    BY <2>1, <2>2
<1> QED
  BY <1>5, <1>6, <1>7, CountsAre

(* A variable goes, and leaves its elements to be released. *)
LEMMA CountsDrop ==
  ASSUME VarInv, NextTyped, NEW c \in Ids, Gone(c),
         ProxyCount(proxy, c) > 0 \/ Pend(frames, Step("release", c)) > 0,
         var_ht' = Drop(var_ht, c), UNCHANGED <<owned, lost>>,
         \A i \in Ids :
           /\ Lent(frames', i) = Lent(frames, i)
           /\ Pend(frames', Step("addref", i)) = Pend(frames, Step("addref", i))
           /\ ProxyCount(proxy', i) + Pend(frames', Step("release", i)) =
                ProxyCount(proxy, i) + Pend(frames, Step("release", i))
                - One(i = c) + CountOf(var_ht[c].slots, i)
  PROVE  CountsNext
<1>1. Table(var_ht) /\ DOMAIN var_ht \subseteq Ids
  BY InvGives DEF Table
<1>2. c \in DOMAIN var_ht /\ Hold(c) = 1 /\ lost[c] = 0
  BY GoneIs
<1>3. /\ DOMAIN var_ht' = DOMAIN var_ht \ {c} /\ \A j \in DOMAIN var_ht' : var_ht'[j] = var_ht[j]
      /\ \A i : /\ SlotCount(var_ht, i) = SlotCount(var_ht', i) + CountOf(var_ht[c].slots, i)
                /\ CountOf(var_ht[c].slots, i) \in Nat
  <2>1. LET hu == Drop(var_ht, c) IN
          /\ DOMAIN hu = DOMAIN var_ht \ {c} /\ \A j \in DOMAIN hu : hu[j] = var_ht[j]
          /\ \A i : /\ SlotCount(var_ht, i) = SlotCount(hu, i) + CountOf(var_ht[c].slots, i)
                    /\ CountOf(var_ht[c].slots, i) \in Nat
    BY <1>1, <1>2, TableDrop
  <2> QED
    BY <2>1
<1>4. ASSUME NEW i \in Ids
      PROVE  HoldNext(i) = Hold(i) - One(i = c) /\ HoldNext(i) \in Nat
  <2>1. PICK own, sl, pr, le, re, n \in Nat :
          /\ own = owned[i] /\ sl = SlotCount(var_ht, i) /\ pr = ProxyCount(proxy, i)
          /\ le = Lent(frames, i) /\ re = Pend(frames, Step("release", i))
          /\ n = CountOf(var_ht[c].slots, i)
    BY <1>3, HoldParts
  <2>2. PICK sl2, pr2, re2 \in Nat :
          /\ sl2 = SlotCount(var_ht', i) /\ pr2 = ProxyCount(proxy', i)
          /\ re2 = Pend(frames', Step("release", i))
    BY Numbers DEF NextTyped
  <2>3. PICK one \in {0, 1} : one = One(i = c)
    BY DEF One
  <2>4. Hold(i) = own + sl + pr + le + re
    BY <2>1, HoldParts
  <2>5. HoldNext(i) = own + sl2 + pr2 + le + re2
    BY <2>1, <2>2 DEF HoldNext, H
  <2>6. sl = sl2 + n /\ pr2 + re2 = pr + re - one + n
    BY <1>3, <2>1, <2>2, <2>3
  <2>7. own + sl2 + pr2 + le + re2 = own + sl + pr + le + re - one
    BY ONLY <2>6, own \in Nat, sl \in Nat, pr \in Nat, le \in Nat, re \in Nat, n \in Nat,
            sl2 \in Nat, pr2 \in Nat, re2 \in Nat, one \in {0, 1}
  <2> QED
    BY <2>3, <2>4, <2>5, <2>7
<1>5. \A i \in Ids \ DOMAIN var_ht' : HoldNext(i) = 0 /\ lost'[i] = 0
  <2> SUFFICES ASSUME NEW i \in Ids \ DOMAIN var_ht' PROVE HoldNext(i) = 0 /\ lost'[i] = 0
    OBVIOUS
  <2>1. CASE i = c
    BY <1>2, <1>4, <2>1 DEF One
  <2>2. CASE i # c
    <3>1. Hold(i) = 0 /\ lost[i] = 0
      BY <1>3, <2>2, InvGives DEF LostAreThere
    <3> QED
      BY <1>4, <2>2, <3>1 DEF One
  <2> QED
    BY <2>1, <2>2
<1>6. \A i \in DOMAIN var_ht' :
        var_ht'[i].ref_count = HoldNext(i) + lost'[i] - Pend(frames', Step("addref", i))
  <2> SUFFICES ASSUME NEW i \in DOMAIN var_ht'
               PROVE var_ht'[i].ref_count = HoldNext(i) + lost'[i] - Pend(frames', Step("addref", i))
    OBVIOUS
  <2>1. i \in DOMAIN var_ht /\ i \in Ids /\ i # c /\ var_ht'[i] = var_ht[i]
    BY <1>1, <1>3
  <2>2. HoldNext(i) = Hold(i) /\ Pend(frames', Step("addref", i)) = Adding(i)
    BY <1>4, <2>1, InvGives DEF One, Adding
  <2> QED
    BY <2>1, <2>2, InvGives
<1> QED
  BY <1>4, <1>5, <1>6, CountsAre

-----------------------------------------------------------------------------
(* The stack of the next state *)

(* The dictionary that is being set keeps its element, and the plugin what *)
(* it gave.                                                                *)
Keeps(fr) ==
  \A d \in fr.args :
    /\ owned[d] > 0 => owned'[d] > 0
    /\ \A e : Stores(var_ht, d, e) => Stores(var_ht', d, e)
Kept == frames # <<>> => Keeps(frames[1])

FrameOK(f, fr) == Ending(fr) /\ IF f = 1 THEN Setting(fr, var_ht', owned') ELSE Plain(fr)

LEMMA SettingKeeps ==
  ASSUME NEW fr, Setting(fr, var_ht, owned), Keeps(fr)
  PROVE  Setting(fr, var_ht', owned')
BY DEF Setting, Keeps

LEMMA PlainSets == \A fr, ht, own : Plain(fr) => Setting(fr, ht, own)
BY DEF Plain, Setting

LEMMA TopIsThere ==
  ASSUME VarInv, frames # <<>>
  PROVE  /\ Len(frames) \in DOMAIN frames /\ 1 \in DOMAIN frames /\ DOMAIN frames = 1 .. Len(frames)
         /\ Len(frames) \in Nat \ {0}
         /\ Top \in FrameT /\ Top = frames[Len(frames)] /\ Ending(Top)
         /\ IF Len(frames) = 1 THEN Setting(Top, var_ht, owned) ELSE Plain(Top)
<1>1. /\ Len(frames) \in DOMAIN frames /\ 1 \in DOMAIN frames /\ DOMAIN frames = 1 .. Len(frames)
      /\ Len(frames) \in Nat \ {0} /\ Top \in FrameT /\ Top = frames[Len(frames)]
  BY InvGives, UnderIs DEF Top
<1> QED
  BY <1>1, InvGives DEF Frames

LEMMA FramesSame ==
  ASSUME VarInv, frames' = frames, Kept
  PROVE  Frames'
<1> SUFFICES ASSUME NEW f \in DOMAIN frames PROVE FrameOK(f, frames[f])
  BY DEF Frames, FrameOK
<1>1. Ending(frames[f]) /\ IF f = 1 THEN Setting(frames[f], var_ht, owned) ELSE Plain(frames[f])
  BY InvGives DEF Frames
<1>2. f = 1 => Keeps(frames[f])
  BY DEF Kept
<1> QED
  BY <1>1, <1>2, SettingKeeps DEF FrameOK

LEMMA FramesTop ==
  ASSUME VarInv, frames # <<>>, Kept, frames' \in Seq(FrameT),
         frames' = Under(frames) \/ \E fr : TopIs(frames', fr) /\ FrameOK(Len(frames), fr)
  PROVE  Frames'
<1> SUFFICES ASSUME NEW f \in DOMAIN frames' PROVE FrameOK(f, frames'[f])
  BY DEF Frames, FrameOK
<1>1. /\ DOMAIN frames = 1 .. Len(frames) /\ Len(frames) \in Nat \ {0}
      /\ DOMAIN Under(frames) = 1 .. Len(frames) - 1
      /\ \A g \in 1 .. Len(frames) - 1 : Under(frames)[g] = frames[g]
  BY InvGives, UnderIs
<1>2. ASSUME NEW g \in 1 .. Len(frames) - 1 PROVE FrameOK(g, frames[g])
  <2>1. Ending(frames[g]) /\ IF g = 1 THEN Setting(frames[g], var_ht, owned) ELSE Plain(frames[g])
    <3>1. g \in DOMAIN frames
      BY <1>1
    <3> QED
      BY <3>1, InvGives DEF Frames
  <2>2. g = 1 => Keeps(frames[g])
    BY DEF Kept
  <2> QED
    BY <2>1, <2>2, SettingKeeps DEF FrameOK
<1>3. CASE frames' = Under(frames)
  BY <1>1, <1>2, <1>3
<1>4. CASE \E fr : TopIs(frames', fr) /\ FrameOK(Len(frames), fr)
  <2>1. PICK fr : TopIs(frames', fr) /\ FrameOK(Len(frames), fr)
    BY <1>4
  <2>2. DOMAIN frames' = 1 .. Len(frames)
    BY <2>1, LenProperties DEF TopIs
  <2> QED
    BY <1>1, <1>2, <2>1, <2>2 DEF TopIs
<1> QED
  BY <1>3, <1>4

LEMMA FramesPush ==
  ASSUME VarInv, Kept, NEW l \in Ids \cup {None}, Calls(l)
  PROVE  /\ frames' \in Seq(FrameT) /\ Frames'
         /\ \A st : Pend(frames', st) = Pend(frames, st)
         /\ \A id : Lent(frames', id) = Lent(frames, id) + One(l = id)
<1> DEFINE fr == [todo |-> <<>>, lent |-> l, args |-> {}, done |-> FALSE]
<1>1. fr \in FrameT
  BY EmptySeq DEF FrameT
<1>2. fr.todo = <<>> /\ fr.lent = l /\ Plain(fr) /\ Ending(fr)
  BY DEF Plain, Ending
<1>3. frames' = Append(frames, fr)
  BY DEF Calls
<1> HIDE DEF fr
<1>4. frames \in Seq(FrameT)
  BY InvGives
<1>5. PICK n \in Nat : n = Len(frames) /\ DOMAIN frames = 1 .. n
  BY <1>4, LenProperties
<1>6. /\ frames' \in Seq(FrameT) /\ Len(frames') = n + 1 /\ DOMAIN frames' = 1 .. n + 1
      /\ frames'[n + 1] = fr /\ \A f \in 1 .. n : frames'[f] = frames[f]
  BY <1>1, <1>3, <1>4, <1>5, AppendProperties, LenProperties
<1>7. PICK gs \in Seq(FrameT) : gs = frames'
  BY <1>6
<1>8. /\ \A st : Pend(gs, st) = Pend(frames, st) + CountOf(gs[n + 1].todo, st)
      /\ \A id : Lent(gs, id) = Lent(frames, id) + One(gs[n + 1].lent = id)
  BY <1>4, <1>5, <1>6, <1>7, OnTop
<1>9. \A st : Pend(frames, st) \in Nat /\ CountOf(<<>>, st) = 0
  BY <1>4, PlacesFinite, CountEmpty
<1>10. Frames'
  <2> SUFFICES ASSUME NEW f \in DOMAIN frames' PROVE FrameOK(f, frames'[f])
    BY DEF Frames, FrameOK
  <2>1. CASE f = n + 1
    <3>1. frames'[f] = fr /\ Setting(fr, var_ht', owned')
      BY <1>2, <1>6, <2>1, PlainSets
    <3> QED
      BY <1>2, <3>1 DEF FrameOK
  <2>2. CASE f # n + 1
    <3>1. f \in DOMAIN frames /\ frames'[f] = frames[f] /\ frames # <<>>
      BY <1>5, <1>6, <2>2
    <3>2. Ending(frames[f]) /\ IF f = 1 THEN Setting(frames[f], var_ht, owned) ELSE Plain(frames[f])
      BY <3>1, InvGives DEF Frames
    <3>3. f = 1 => Keeps(frames[f])
      BY <3>1 DEF Kept
    <3> QED
      BY <3>1, <3>2, <3>3, SettingKeeps DEF FrameOK
  <2> QED
    BY <2>1, <2>2
<1> QED
  BY <1>2, <1>6, <1>7, <1>8, <1>9, <1>10

(* A callback that runs has no step left, and sets no dictionary.          *)
LEMMA RunningIs ==
  ASSUME VarInv, Running
  PROVE  frames # <<>> /\ Top.todo = <<>> /\ Top.args = {} /\ Top.done = FALSE /\ Top \in FrameT
<1>1. frames # <<>> /\ Top.todo = <<>> /\ ~Top.done
  BY DEF Running, InFrame
<1>2. Top \in FrameT /\ IF Len(frames) = 1 THEN Setting(Top, var_ht, owned) ELSE Plain(Top)
  BY <1>1, TopIsThere
<1>3. Top.args = {}
  BY <1>1, <1>2 DEF Setting, Plain
<1> QED
  BY <1>1, <1>2, <1>3 DEF FrameT

(* The steps of a release come before those that are left: these keep      *)
(* their places, counted from the last one.                                *)
Later(T, td) ==
  \A j \in DOMAIN T : T[j].op \in {"addref", "tonp"} =>
    \E k \in DOMAIN td :
      /\ k > 1 /\ T[j] = td[k] /\ Len(T) - j = Len(td) - k
      /\ j < Len(T) => T[j + 1] = td[k + 1]
AllLeft(T, td) == \A k \in DOMAIN td : k > 1 => \E j \in DOMAIN T : T[j] = td[k]

LEMMA LaterIs ==
  ASSUME NEW td \in Seq(Steps), td # <<>>, NEW X \in Seq(Steps),
         \A j \in DOMAIN X : X[j].op \in {"release", "dealloc"}
  PROVE  /\ X \o Tail(td) \in Seq(Steps) /\ Later(X \o Tail(td), td) /\ AllLeft(X \o Tail(td), td)
         /\ \A st : /\ CountOf(X \o Tail(td), st) = CountOf(X, st) + CountOf(Tail(td), st)
                    /\ CountOf(td, st) = One(Head(td) = st) + CountOf(Tail(td), st)
                    /\ CountOf(X, st) \in Nat /\ CountOf(Tail(td), st) \in Nat
<1>1. Len(td) \in Nat /\ Len(td) # 0 /\ DOMAIN td = 1 .. Len(td)
  BY LenProperties, EmptySeq
<1>2. PICK n \in Nat : n = Len(td) - 1
  <2>1. Len(td) - 1 \in Nat
    BY <1>1
  <2> QED
    BY <2>1
<1>3. Len(td) = n + 1 /\ DOMAIN td = 1 .. n + 1
  BY <1>1, <1>2
<1>4. /\ Tail(td) \in Seq(Steps) /\ Len(Tail(td)) = n /\ DOMAIN Tail(td) = 1 .. n
      /\ \A j \in 1 .. n : Tail(td)[j] = td[j + 1]
  BY <1>3, HeadTailProperties, LenProperties
<1>5. PICK tl \in Seq(Steps) : tl = Tail(td)
  BY <1>4
<1>6. Len(tl) = n /\ DOMAIN tl = 1 .. n /\ \A j \in 1 .. n : tl[j] = td[j + 1]
  BY <1>4, <1>5
<1>7. Len(X) \in Nat /\ DOMAIN X = 1 .. Len(X)
  BY LenProperties
<1>8. PICK m \in Nat : m = Len(X) /\ DOMAIN X = 1 .. m
  BY <1>7
<1>9. /\ X \o tl \in Seq(Steps) /\ Len(X \o tl) = m + n /\ DOMAIN (X \o tl) = 1 .. m + n
      /\ \A j \in 1 .. m + n : (X \o tl)[j] = IF j <= m THEN X[j] ELSE tl[j - m]
  <2>1. /\ X \o tl \in Seq(Steps) /\ Len(X \o tl) = m + n
        /\ \A j \in 1 .. m + n : (X \o tl)[j] = IF j <= m THEN X[j] ELSE tl[j - m]
    BY <1>6, <1>8, ConcatProperties
  <2> QED
    BY <2>1, LenProperties
<1>10. PICK T \in Seq(Steps) : T = X \o tl
  BY <1>9
<1>11. /\ Len(T) = m + n /\ DOMAIN T = 1 .. m + n
       /\ \A j \in 1 .. m + n : T[j] = IF j <= m THEN X[j] ELSE tl[j - m]
  BY <1>9, <1>10
<1>12. Later(T, td)
  <2> SUFFICES ASSUME NEW j \in DOMAIN T, T[j].op \in {"addref", "tonp"}
               PROVE  \E k \in DOMAIN td :
                        /\ k > 1 /\ T[j] = td[k] /\ Len(T) - j = Len(td) - k
                        /\ j < Len(T) => T[j + 1] = td[k + 1]
    BY DEF Later
  <2>1. j \in 1 .. m + n
    BY <1>11
  <2>2. ~(j <= m)
    <3> SUFFICES ASSUME j <= m PROVE FALSE
      OBVIOUS
    <3>1. T[j] = X[j] /\ j \in 1 .. m
      BY <1>11, <2>1
    <3> QED
      BY <1>8, <3>1
  <2>3. PICK i \in 1 .. n : i = j - m
    BY <2>1, <2>2
  <2>4. T[j] = td[i + 1]
    <3>1. T[j] = tl[i]
      BY <1>11, <2>1, <2>2, <2>3
    <3> QED
      BY <1>6, <3>1
  <2>5. ASSUME j < m + n PROVE T[j + 1] = td[i + 2]
    <3>1. j + 1 \in 1 .. m + n /\ ~(j + 1 <= m) /\ (j + 1) - m = i + 1 /\ i + 1 \in 1 .. n
      BY <2>1, <2>2, <2>3, <2>5
    <3>2. T[j + 1] = tl[i + 1]
      BY <1>11, <3>1
    <3>3. tl[i + 1] = td[(i + 1) + 1]
      BY <1>6, <3>1
    <3> QED
      BY <3>2, <3>3
  <2>6. i + 1 \in 1 .. n + 1 /\ (i + 1) + 1 = i + 2 /\ i + 1 > 1
    OBVIOUS
  <2>7. (m + n) - j = (n + 1) - (i + 1)
    BY ONLY <2>1, <2>3, i \in 1 .. n, n \in Nat, m \in Nat
  <2> QED
    BY <1>3, <1>11, <2>4, <2>5, <2>6, <2>7
<1>13. AllLeft(T, td)
  <2> SUFFICES ASSUME NEW k \in 1 .. n + 1, k > 1 PROVE \E j \in 1 .. m + n : T[j] = td[k]
    BY <1>3, <1>11 DEF AllLeft
  <2>1. PICK i \in 1 .. n : k = i + 1
    OBVIOUS
  <2>2. m + i \in 1 .. m + n /\ ~(m + i <= m) /\ (m + i) - m = i
    OBVIOUS
  <2>3. T[m + i] = tl[i] /\ tl[i] = td[i + 1]
    BY <1>6, <1>11, <2>2
  <2> QED
    BY <2>1, <2>2, <2>3
<1>14. \A st : /\ CountOf(X \o tl, st) = CountOf(X, st) + CountOf(tl, st)
               /\ CountOf(X, st) \in Nat /\ CountOf(tl, st) \in Nat
  BY CountConcat, CountFinite
<1>15. \A st : CountOf(td, st) = One(Head(td) = st) + CountOf(Tail(td), st)
  BY CountTail
<1> QED
  BY <1>5, <1>10, <1>12, <1>13, <1>14, <1>15

LEMMA EndingRest ==
  ASSUME NEW fr, NEW gr, Ending(fr), fr.todo \in Seq(Steps), gr.todo \in Seq(Steps),
         Later(gr.todo, fr.todo), gr.done = fr.done, gr.lent = fr.lent, gr.args = fr.args
  PROVE  Ending(gr)
<1>1. PICK td \in Seq(Steps), T \in Seq(Steps) : td = fr.todo /\ T = gr.todo
  OBVIOUS
<1>2. Len(td) \in Nat /\ Len(T) \in Nat /\ DOMAIN td = 1 .. Len(td) /\ DOMAIN T = 1 .. Len(T)
  BY LenProperties
<1>3. Later(T, td)
  BY <1>1
<1>4. \A j \in DOMAIN td : td[j].op = "tonp" =>
        j < Len(td) /\ td[j + 1] = Step("release", td[j].of)
  BY <1>1 DEF Ending
<1>5. ASSUME NEW j \in DOMAIN T, T[j].op = "tonp"
      PROVE  j < Len(T) /\ T[j + 1] = Step("release", T[j].of)
  <2>1. PICK k \in DOMAIN td :
          /\ k > 1 /\ T[j] = td[k] /\ Len(T) - j = Len(td) - k
          /\ j < Len(T) => T[j + 1] = td[k + 1]
    <3>1. T[j].op \in {"addref", "tonp"}
      BY <1>5
    <3> QED
      BY <1>3, <3>1 DEF Later
  <2>2. k < Len(td) /\ td[k + 1] = Step("release", td[k].of)
    <3>1. k \in DOMAIN td /\ td[k].op = "tonp"
      BY <1>5, <2>1, Zenon
    <3> QED
      BY ONLY <1>4, <3>1
  <2>3. j < Len(T)
    <3>1. j \in Nat /\ k \in Nat /\ Len(T) - j = Len(td) - k
      BY <1>2, <1>5, <2>1
    <3> QED
      BY ONLY <1>2, <2>2, <3>1
  <2>4. T[j + 1] = Step("release", td[k].of) /\ td[k] = T[j]
    BY <2>1, <2>2, <2>3, Zenon
  <2> QED
    BY <2>3, <2>4, Zenon
<1> QED
  BY <1>1, <1>5 DEF Ending

LEMMA SettingRest ==
  ASSUME NEW fr, NEW gr, NEW ht, NEW own, Setting(fr, ht, own),
         fr.todo \in Seq(Steps), gr.todo \in Seq(Steps),
         Later(gr.todo, fr.todo), AllLeft(gr.todo, fr.todo), fr.todo[1].op # "addref",
         gr.lent = fr.lent, gr.args = fr.args
  PROVE  Setting(gr, ht, own)
<1>1. PICK td \in Seq(Steps), T \in Seq(Steps) : td = fr.todo /\ T = gr.todo
  OBVIOUS
<1>2. Len(td) \in Nat /\ Len(T) \in Nat /\ DOMAIN td = 1 .. Len(td) /\ DOMAIN T = 1 .. Len(T)
  BY LenProperties
<1>3. Later(T, td) /\ AllLeft(T, td) /\ td[1].op # "addref"
  BY <1>1
<1>4. /\ \A j \in DOMAIN td : td[j].op = "addref" =>
           /\ j = Len(td) /\ td[j].of \in fr.args /\ \E d \in fr.args : Stores(ht, d, td[j].of)
      /\ fr.args # {} => \E j \in DOMAIN td : td[j].op = "addref"
      /\ \A id \in fr.args : own[id] > 0 \/ fr.lent = id
  BY <1>1 DEF Setting
<1>5. ASSUME NEW j \in DOMAIN T, T[j].op = "addref"
      PROVE  j = Len(T) /\ T[j].of \in fr.args /\ \E d \in fr.args : Stores(ht, d, T[j].of)
  <2>1. PICK k \in DOMAIN td : T[j] = td[k] /\ Len(T) - j = Len(td) - k
    <3>1. T[j].op \in {"addref", "tonp"}
      BY <1>5
    <3> QED
      BY <1>3, <3>1 DEF Later
  <2>2. k = Len(td) /\ td[k].of \in fr.args /\ \E d \in fr.args : Stores(ht, d, td[k].of)
    BY <1>4, <1>5, <2>1
  <2>3. j = Len(T)
    BY ONLY <1>2, <2>1, <2>2, j \in DOMAIN T, k \in DOMAIN td
  <2> QED
    BY <2>1, <2>2, <2>3
<1>6. ASSUME fr.args # {} PROVE \E j \in DOMAIN T : T[j].op = "addref"
  <2>1. PICK k \in DOMAIN td : td[k].op = "addref"
    BY <1>4, <1>6
  <2>2. k > 1
    BY <1>2, <1>3, <2>1
  <2>3. PICK j \in DOMAIN T : T[j] = td[k]
    BY <1>3, <2>2 DEF AllLeft
  <2> QED
    BY <2>1, <2>3
<1> QED
  BY <1>1, <1>4, <1>5, <1>6 DEF Setting

LEMMA PlainRest ==
  ASSUME NEW fr, NEW gr, Plain(fr), Later(gr.todo, fr.todo), gr.args = fr.args
  PROVE  Plain(gr)
BY DEF Plain, Later

LEMMA RestIs ==
  ASSUME VarInv, frames # <<>>, Kept, Top.todo # <<>>, Head(Top.todo).op # "addref",
         NEW X \in Seq(Steps), \A j \in DOMAIN X : X[j].op \in {"release", "dealloc"}
  PROVE  /\ X \o Tail(Top.todo) \in Seq(Steps)
         /\ FrameOK(Len(frames), [Top EXCEPT !.todo = X \o Tail(Top.todo)])
         /\ \A st : /\ CountOf(X \o Tail(Top.todo), st) = CountOf(X, st) + CountOf(Tail(Top.todo), st)
                    /\ CountOf(Top.todo, st) = One(Head(Top.todo) = st) + CountOf(Tail(Top.todo), st)
                    /\ CountOf(X, st) \in Nat /\ CountOf(Tail(Top.todo), st) \in Nat
<1>1. PICK fr \in FrameT : fr = Top /\ Ending(fr) /\ fr.todo \in Seq(Steps)
  BY TopIsThere DEF FrameT
<1>2. PICK td \in Seq(Steps) : td = Top.todo
  BY <1>1
<1>3. td # <<>> /\ Head(td).op # "addref" /\ td[1].op # "addref"
  BY <1>2
<1>4. /\ X \o Tail(td) \in Seq(Steps) /\ Later(X \o Tail(td), td) /\ AllLeft(X \o Tail(td), td)
      /\ \A st : /\ CountOf(X \o Tail(td), st) = CountOf(X, st) + CountOf(Tail(td), st)
                 /\ CountOf(td, st) = One(Head(td) = st) + CountOf(Tail(td), st)
                 /\ CountOf(X, st) \in Nat /\ CountOf(Tail(td), st) \in Nat
  BY <1>3, LaterIs
<1>5. PICK T \in Seq(Steps) : T = X \o Tail(td)
  BY <1>4
<1>6. Later(T, td) /\ AllLeft(T, td)
  BY <1>4, <1>5
<1>7. PICK gr : gr = [Top EXCEPT !.todo = X \o Tail(Top.todo)]
  OBVIOUS
<1>8. gr.todo = T /\ gr.args = fr.args /\ gr.lent = fr.lent /\ gr.done = fr.done /\ fr.todo = td
  BY <1>1, <1>2, <1>5, <1>7 DEF FrameT
<1>9. Ending(gr)
  BY <1>1, <1>6, <1>8, EndingRest
<1>10. ASSUME Len(frames) = 1 PROVE FrameOK(Len(frames), gr)
  <2>1. Setting(fr, var_ht, owned) /\ Keeps(fr)
    BY <1>1, <1>10, TopIsThere DEF Kept
  <2>2. Setting(fr, var_ht', owned')
    BY <2>1, SettingKeeps
  <2>3. Setting(gr, var_ht', owned')
    BY <1>3, <1>6, <1>8, <2>2, SettingRest
  <2> QED
    BY <1>9, <1>10, <2>3 DEF FrameOK
<1>11. ASSUME Len(frames) # 1 PROVE FrameOK(Len(frames), gr)
  <2>1. Plain(fr)
    BY <1>1, <1>11, TopIsThere
  <2>2. Plain(gr)
    BY <1>6, <1>8, <2>1, PlainRest
  <2> QED
    BY <1>9, <1>11, <2>2 DEF FrameOK
<1>12. FrameOK(Len(frames), [Top EXCEPT !.todo = X \o Tail(Top.todo)])
  <2>1. FrameOK(Len(frames), gr)
    BY <1>10, <1>11
  <2> QED
    BY <1>7, <2>1
<1> QED
  BY <1>2, <1>4, <1>12

LEMMA Whole ==
  ASSUME TypeOK', Kinds', Frames', CountsNext, NPRefsExact', ProxiesAreMapped'
  PROVE  VarInv'
BY DEF VarInv, CountsNext

-----------------------------------------------------------------------------
(* New ids *)

LEMMA LeastNumber ==
  ASSUME NEW T \in SUBSET Nat, T # {} PROVE \E x \in T : \A y \in T : x <= y
<1> DEFINE Less == {ss \in Nat \X Nat : ss[1] < ss[2]}
<1>1. IsWellFoundedOn(Less, Nat)
  BY NatLessThanWellFounded DEF OpToRel
<1>2. PICK x \in T : \A y \in T : ~(<<y, x>> \in Less)
  BY <1>1, WFMin
<1>3. \A y \in T : ~(y < x)
  BY <1>2
<1> QED
  BY <1>3

LEMMA Modulo ==
  ASSUME NEW n \in Nat \ {0}
  PROVE  /\ \A x \in Nat : x % n \in 0 .. n - 1
         /\ \A x \in 0 .. n - 1 : x % n = x
         /\ \A x \in n .. 2 * n - 1 : x % n = x - n
OBVIOUS

(* get_new_var_id finds an id that is not in use. *)
LEMMA NewIdIs ==
  ASSUME var_id \in Ids, HasRoom, DOMAIN var_ht \subseteq Ids
  PROVE  get_new_var_id \in Ids \ DOMAIN var_ht
<1>1. PICK n \in Nat \ {0} : n = IdSpace
  BY SpaceAssumption
<1> DEFINE free == {k \in 1 .. n : (var_id + k) % n \notin DOMAIN var_ht}
           k0 == CHOOSE k \in free : \A j \in free : k <= j
<1>2. PICK e \in 0 .. n - 1 : e \notin DOMAIN var_ht
  BY <1>1 DEF HasRoom, Ids
<1>3. PICK v \in 0 .. n - 1 : v = var_id
  BY <1>1 DEF Ids
<1>4. free # {}
  <2>1. CASE e > v
    <3>1. e - v \in 1 .. n /\ v + (e - v) = e
      BY <2>1
    <3>2. (v + (e - v)) % n = e
      BY <3>1, Modulo
    <3> QED
      BY <1>2, <1>3, <3>1, <3>2
  <2>2. CASE ~(e > v)
    <3>1. (e - v) + n \in 1 .. n /\ v + ((e - v) + n) = e + n /\ e + n \in n .. 2 * n - 1
      BY <2>2
    <3>2. (e + n) % n = (e + n) - n /\ (e + n) - n = e
      BY <3>1, Modulo
    <3> QED
      BY <1>2, <1>3, <3>1, <3>2
  <2> QED
    BY <2>1, <2>2
<1>5. free \in SUBSET Nat
  OBVIOUS
<1>6. \E k \in free : \A j \in free : k <= j
  <2> HIDE DEF free
  <2> QED
    BY <1>4, <1>5, LeastNumber
<1>7. k0 \in free
  <2> HIDE DEF free
  <2> QED
    BY <1>6
<1>8. get_new_var_id = (v + k0) % n
  BY <1>1, <1>3 DEF get_new_var_id
<1>9. (v + k0) % n \notin DOMAIN var_ht /\ v + k0 \in Nat
  <2> HIDE DEF k0
  <2> QED
    BY <1>3, <1>7
<1>10. (v + k0) % n \in 0 .. n - 1
  <2> HIDE DEF k0
  <2> QED
    BY <1>9, Modulo
<1> QED
  BY <1>1, <1>8, <1>9, <1>10 DEF Ids

-----------------------------------------------------------------------------
(* The table of the next state *)

(* The variables stay, with their types and objects; only containers get   *)
(* other elements.                                                         *)
ShapeKept ==
  /\ DOMAIN var_ht' = DOMAIN var_ht /\ Table(var_ht')
  /\ \A j \in DOMAIN var_ht :
       /\ var_ht'[j].type = var_ht[j].type /\ var_ht'[j].obj = var_ht[j].obj
       /\ var_ht[j].type = "OBJECT" => var_ht'[j].slots = var_ht[j].slots

(* No dictionary loses an element that it does not count yet. *)
StoresKept == \A d, e : Stores(var_ht, d, e) => Stores(var_ht', d, e)

LEMMA ShapeGives ==
  ASSUME VarInv, ShapeKept
  PROVE  /\ \A j \in DOMAIN var_ht' : KindOf(var_ht'[j])
         /\ proxy' = proxy => Kinds'
         /\ \A o : ObjCount(var_ht', o) = ObjCount(var_ht, o)
         /\ (\A o \in NPObjects : np[o].mapped => np'[o].mapped) => ProxiesAreMapped'
<1>1. /\ \A j \in DOMAIN var_ht : KindOf(var_ht[j]) /\ var_ht[j] \in Var
      /\ \A x \in Proxies :
           IF proxy[x].ppobj = None THEN proxy[x].refs = 0
           ELSE /\ proxy[x].refs > 0
                /\ proxy[x].ppobj \in DOMAIN var_ht
                /\ var_ht[proxy[x].ppobj].type = "OBJECT" /\ var_ht[proxy[x].ppobj].obj = None
  BY InvGives DEF Kinds
<1>2. \A j \in DOMAIN var_ht' : KindOf(var_ht'[j])
  BY <1>1 DEF ShapeKept, KindOf
<1>3. proxy' = proxy => Kinds'
  BY <1>1, <1>2 DEF Kinds, ShapeKept
<1>4. \A o : ObjsOf(var_ht', o) = ObjsOf(var_ht, o)
  BY DEF ObjsOf, ShapeKept
<1>5. \A o : ObjCount(var_ht', o) = ObjCount(var_ht, o)
  BY <1>4 DEF ObjCount
<1>6. ASSUME \A o \in NPObjects : np[o].mapped => np'[o].mapped PROVE ProxiesAreMapped'
  <2> SUFFICES ASSUME NEW j \in DOMAIN var_ht', var_ht'[j].obj # None
               PROVE  np'[var_ht'[j].obj].mapped
    BY DEF ProxiesAreMapped
  <2>1. j \in DOMAIN var_ht /\ var_ht'[j].obj = var_ht[j].obj
    BY DEF ShapeKept
  <2>2. var_ht[j].obj \in NPObjects
    BY <1>1, <2>1 DEF Var
  <2>3. np[var_ht[j].obj].mapped
    BY <2>1, InvGives DEF ProxiesAreMapped
  <2> QED
    BY <1>6, <2>1, <2>2, <2>3
<1> QED
  BY <1>2, <1>3, <1>5, <1>6

(* A reference is added to one variable, or to none. *)
LEMMA AddRefIs ==
  ASSUME NEW ht, Table(ht), NEW id
  PROVE  LET hu == AddRef(ht, id) IN
         /\ DOMAIN hu = DOMAIN ht /\ Table(hu)
         /\ \A j \in DOMAIN ht :
              /\ hu[j].type = ht[j].type /\ hu[j].obj = ht[j].obj /\ hu[j].slots = ht[j].slots
              /\ hu[j].ref_count = ht[j].ref_count + One(id = j)
<1>1. CASE id \in DOMAIN ht
  <2> DEFINE hu == [ht EXCEPT ![id].ref_count = @ + 1]
  <2>1. AddRef(ht, id) = hu
    BY <1>1 DEF AddRef
  <2>2. ht[id] \in Var
    BY <1>1 DEF Table
  <2>3. /\ DOMAIN hu = DOMAIN ht /\ hu[id] = [ht[id] EXCEPT !.ref_count = @ + 1]
        /\ \A j \in DOMAIN ht : j # id => hu[j] = ht[j]
    BY <1>1
  <2> HIDE DEF hu
  <2>4. /\ hu[id] \in Var /\ hu[id].type = ht[id].type /\ hu[id].obj = ht[id].obj
        /\ hu[id].slots = ht[id].slots /\ hu[id].ref_count = ht[id].ref_count + 1
    BY <2>2, <2>3 DEF Var
  <2>5. Table(hu)
    BY <2>3, <2>4 DEF Table
  <2>6. ASSUME NEW j \in DOMAIN ht
        PROVE  /\ hu[j].type = ht[j].type /\ hu[j].obj = ht[j].obj /\ hu[j].slots = ht[j].slots
               /\ hu[j].ref_count = ht[j].ref_count + One(id = j)
    <3>1. CASE j = id
      BY <2>4, <3>1 DEF One
    <3>2. CASE j # id
      <4>1. hu[j] = ht[j] /\ ht[j].ref_count \in Nat
        BY <2>3, <3>2 DEF Table, Var
      <4> QED
        BY <3>2, <4>1 DEF One
    <3> QED
      BY <3>1, <3>2
  <2> QED
    BY <2>1, <2>3, <2>5, <2>6
<1>2. CASE id \notin DOMAIN ht
  <2>1. AddRef(ht, id) = ht
    BY <1>2 DEF AddRef
  <2>2. \A j \in DOMAIN ht : ht[j].ref_count = ht[j].ref_count + One(id = j)
    BY <1>2 DEF One, Table, Var
  <2> QED
    BY <2>1, <2>2
<1> QED
  BY <1>1, <1>2

(* What the reference count of a variable gains and its elements keep.     *)
Counts(id) ==
  /\ \A j \in DOMAIN var_ht : var_ht'[j].ref_count = var_ht[j].ref_count + One(id = j)
  /\ \A i : SlotCount(var_ht', i) = SlotCount(var_ht, i)

LEMMA AddRefGives ==
  ASSUME VarInv, NEW id, var_ht' = AddRef(var_ht, id)
  PROVE  ShapeKept /\ StoresKept /\ Counts(id)
<1>1. Table(var_ht)
  BY InvGives
<1>2. /\ DOMAIN var_ht' = DOMAIN var_ht /\ Table(var_ht')
      /\ \A j \in DOMAIN var_ht :
           /\ var_ht'[j].type = var_ht[j].type /\ var_ht'[j].obj = var_ht[j].obj
           /\ var_ht'[j].slots = var_ht[j].slots
           /\ var_ht'[j].ref_count = var_ht[j].ref_count + One(id = j)
  BY <1>1, AddRefIs
<1>3. ShapeKept
  BY <1>2 DEF ShapeKept
<1>4. StoresKept
  BY <1>2 DEF StoresKept, Stores
<1>5. \A i : SlotCount(var_ht', i) = SlotCount(var_ht, i)
  BY <1>2, TableSame
<1> QED
  BY <1>2, <1>3, <1>4, <1>5 DEF Counts

LEMMA SameTable ==
  ASSUME VarInv, var_ht' = var_ht PROVE ShapeKept /\ StoresKept /\ Counts(None)
<1>1. None \notin DOMAIN var_ht
  BY InvGives DEF Table, Ids, None
<1>2. var_ht' = AddRef(var_ht, None)
  BY <1>1 DEF AddRef
<1> QED
  BY <1>2, AddRefGives

(* A step that keeps the variables keeps the invariant. *)
LEMMA QuietStep ==
  ASSUME VarInv, ShapeKept, frames' \in Seq(FrameT), Frames',
         owned' \in [Ids -> Nat], lost' \in [Ids -> Nat], var_id' \in Ids, calls' \in 0 .. MaxCalls,
         np' \in [NPObjects -> NPT], proxy' \in [Proxies -> ProxyT],
         \A i \in Ids : Balanced(i), Kinds', NPRefsExact', ProxiesAreMapped'
  PROVE  VarInv'
<1>1. NextTyped
  BY DEF NextTyped, Typed, ShapeKept
<1>2. TypeOK'
  BY <1>1, TypeParts DEF NextTyped
<1>3. CountsNext
  BY <1>1, CountsKeep DEF ShapeKept
<1> QED
  BY <1>2, <1>3, Whole

LEMMA KeepsAll ==
  ASSUME StoresKept, \A i \in Ids : owned[i] > 0 => owned'[i] > 0, VarInv
  PROVE  Kept
<1> SUFFICES ASSUME frames # <<>> PROVE Keeps(frames[1])
  BY DEF Kept
<1>1. \A d \in frames[1].args : d \in Ids
  BY ArgsAreHeld
<1> QED
  BY <1>1 DEF Keeps, StoresKept

(* The objects of the browser when no step on them is done or added. *)
LEMMA ObjectsKept ==
  ASSUME VarInv, ShapeKept, np' = np,
         \A o \in NPObjects : Pend(frames', Step("dealloc", o)) = Pend(frames, Step("dealloc", o))
  PROVE  NPRefsExact' /\ ProxiesAreMapped' /\ np' \in [NPObjects -> NPT]
<1>1. \A o : ObjCount(var_ht', o) = ObjCount(var_ht, o)
  BY ShapeGives
<1>2. \A o \in NPObjects :
        np'[o].refs = np'[o].script + Pend(frames', Step("dealloc", o)) + ObjCount(var_ht', o)
  BY <1>1, InvGives
<1>3. NPRefsExact'
  BY <1>2, Counted
<1> QED
  BY <1>3, ShapeGives, InvGives

LEMMA BalancedBy ==
  ASSUME NEW i, NEW r \in Int, NEW o \in Int, NEW s \in Int, NEW p \in Int,
         NEW l \in Int, NEW e \in Int, NEW a \in Int, NEW x \in Int,
         Delta(i, r, o, s, p, l, e, a, x), r = o + s + p + l + e + x - a,
         i \notin DOMAIN var_ht => o + s + p + l + e = 0 /\ x = 0
  PROVE  Balanced(i)
BY DEF Balanced

-----------------------------------------------------------------------------
(* Callbacks begin and end *)

LEMMA InvokeKeeps ==
  ASSUME VarInv, PlainCalls, NEW arg \in {None} \cup Proxies \cup NPObjects, p2n_invoke_comt(arg)
  PROVE  VarInv'
<1>1. \E l \in Ids \cup {None} :
        Calls(l) /\ var_ht' = AddRef(var_ht, l) /\ var_id' = var_id /\ (l \in Ids => l \in DOMAIN var_ht)
  <2>1. CASE arg = None /\ Calls(None) /\ UNCHANGED <<var_ht, var_id>>
    <3>1. None \notin Ids
      BY DEF Ids, None
    <3>2. None \notin DOMAIN var_ht
      BY <3>1, InvGives DEF Table
    <3>3. var_ht' = AddRef(var_ht, None)
      BY <2>1, <3>2 DEF AddRef
    <3> QED
      BY <2>1, <3>1, <3>3
  <2>2. CASE /\ arg \in Proxies /\ proxy[arg].refs > 0 /\ Calls(proxy[arg].ppobj)
             /\ var_ht' = AddRef(var_ht, proxy[arg].ppobj) /\ UNCHANGED var_id
    <3>1. proxy[arg].ppobj \in DOMAIN var_ht
      BY <2>2, InvGives DEF Kinds
    <3>2. proxy[arg].ppobj \in Ids
      BY <3>1, InvGives
    <3> QED
      BY <2>2, <3>1, <3>2
  <2> QED
    BY <2>1, <2>2 DEF p2n_invoke_comt, PlainCalls
<1>2. PICK l \in Ids \cup {None} :
        Calls(l) /\ var_ht' = AddRef(var_ht, l) /\ var_id' = var_id /\ (l \in Ids => l \in DOMAIN var_ht)
  BY <1>1
<1>3. UNCHANGED <<owned, lost, np, proxy, calls>>
  BY DEF p2n_invoke_comt
<1>4. ShapeKept /\ StoresKept /\ Counts(l)
  BY <1>2, AddRefGives
<1>5. Kept
  BY <1>3, <1>4, KeepsAll
<1>6. /\ frames' \in Seq(FrameT) /\ Frames' /\ \A st : Pend(frames', st) = Pend(frames, st)
      /\ \A id : Lent(frames', id) = Lent(frames, id) + One(l = id)
  BY <1>2, <1>5, FramesPush
<1>7. Kinds'
  BY <1>3, <1>4, ShapeGives
<1>8. NPRefsExact' /\ ProxiesAreMapped' /\ np' \in [NPObjects -> NPT]
  BY <1>3, <1>4, <1>6, ObjectsKept
<1>9. ASSUME NEW i \in Ids PROVE Balanced(i)
  <2>1. PICK one \in {0, 1} : one = One(l = i) /\ (i \notin DOMAIN var_ht => one = 0)
    BY <1>2 DEF One
  <2>2. Delta(i, one, 0, 0, 0, one, 0, 0, 0)
    <3>1. /\ i \in DOMAIN var_ht => var_ht'[i].ref_count = var_ht[i].ref_count + one
          /\ SlotCount(var_ht', i) = SlotCount(var_ht, i) + 0
      BY <1>4, <2>1, InvGives, SlotsFinite DEF Counts
    <3>2. /\ owned'[i] = owned[i] + 0 /\ lost'[i] = lost[i] + 0
          /\ ProxyCount(proxy', i) = ProxyCount(proxy, i) + 0
      BY <1>3, HoldParts
    <3>3. /\ Lent(frames', i) = Lent(frames, i) + one
          /\ Pend(frames', Step("release", i)) = Pend(frames, Step("release", i)) + 0
          /\ Pend(frames', Step("addref", i)) = Pend(frames, Step("addref", i)) + 0
      BY <1>6, <2>1, HoldParts DEF Adding
    <3> QED
      BY <3>1, <3>2, <3>3 DEF Delta
  <2> QED
    BY <2>1, <2>2, BalancedBy
<1> QED
  BY <1>2, <1>3, <1>4, <1>6, <1>7, <1>8, <1>9, QuietStep, InvGives

(* Plugin code that gives up a reference keeps what calls around it use. *)
LEMMA DropIs ==
  ASSUME VarInv, NEW id \in Ids, MayDrop(id), owned' = [owned EXCEPT ![id] = @ - 1], StoresKept
  PROVE  /\ Kept /\ owned' \in [Ids -> Nat] /\ owned[id] > 0 /\ id \in DOMAIN var_ht
         /\ \A i \in Ids : owned'[i] = owned[i] - One(id = i)
<1> DEFINE A == {f \in DOMAIN frames : id \in frames[f].args}
<1>1. IsFiniteSet(DOMAIN frames) /\ A \in SUBSET DOMAIN frames
  BY InvGives, FS_Interval, LenProperties
<1>2. IsFiniteSet(A)
  BY <1>1, FS_Subset
<1>3. PICK c \in Nat : c = Cardinality(A) /\ (A # {} => c > 0)
  BY <1>2, Positive
<1>4. owned[id] > c
  BY <1>3 DEF MayDrop
<1>5. owned \in [Ids -> Nat]
  BY InvGives
<1>6. owned[id] > 0 /\ owned' \in [Ids -> Nat] /\ \A i \in Ids : owned'[i] = owned[i] - One(id = i)
  <2>1. owned[id] \in Nat /\ owned[id] > 0
    BY <1>3, <1>4, <1>5
  <2>2. owned[id] - 1 \in Nat
    BY <2>1
  <2>3. owned' \in [Ids -> Nat]
    BY <1>5, <2>2
  <2>4. ASSUME NEW i \in Ids PROVE owned'[i] = owned[i] - One(id = i)
    <3>1. owned[i] \in Nat
      BY <1>5
    <3>2. owned'[i] = IF i = id THEN owned[i] - 1 ELSE owned[i]
      BY <1>5
    <3> QED
      BY <3>1, <3>2 DEF One
  <2> QED
    BY <2>1, <2>3, <2>4
<1>7. ASSUME frames # <<>>, NEW d \in frames[1].args PROVE d \in Ids /\ (owned[d] > 0 => owned'[d] > 0)
  <2>1. d \in Ids
    BY <1>7, ArgsAreHeld
  <2>2. CASE d = id
    <3>1. 1 \in DOMAIN frames
      BY <1>7, TopIsThere
    <3>2. A # {}
      BY <1>7, <2>2, <3>1
    <3>3. owned[id] > 1 /\ owned[id] \in Nat
      BY <1>3, <1>4, <1>5, <3>2
    <3>4. owned'[id] = owned[id] - 1
      BY <1>5
    <3> QED
      BY <2>1, <2>2, <3>3, <3>4
  <2>3. CASE d # id
    <3>1. owned'[d] = owned[d]
      BY <1>5, <2>1, <2>3
    <3> QED
      BY <2>1, <3>1
  <2> QED
    BY <2>2, <2>3
<1>8. Kept
  BY <1>7 DEF Kept, Keeps, StoresKept
<1>9. id \in DOMAIN var_ht
  BY <1>6, HeldIsThere
<1> QED
  BY <1>6, <1>8, <1>9

LEMMA GainIs ==
  ASSUME VarInv, NEW id \in Ids, owned' = Owns(id)
  PROVE  /\ owned' \in [Ids -> Nat] /\ \A i \in Ids : owned'[i] = owned[i] + One(id = i)
         /\ \A i \in Ids : owned[i] > 0 => owned'[i] > 0
<1>1. owned \in [Ids -> Nat]
  BY InvGives
<1>2. owned' \in [Ids -> Nat]
  BY <1>1 DEF Owns
<1>3. ASSUME NEW i \in Ids PROVE owned'[i] = owned[i] + One(id = i) /\ owned[i] \in Nat
  <2>1. owned'[i] = (IF i = id THEN owned[i] + 1 ELSE owned[i]) /\ owned[i] \in Nat
    BY <1>1 DEF Owns
  <2> QED
    BY <2>1 DEF One
<1>4. \A i \in Ids : owned[i] > 0 => owned'[i] > 0
  BY <1>1, <1>3 DEF One
<1> QED
  BY <1>2, <1>3, <1>4

(* A callback that sets no dictionary and has only these steps. *)
LEMMA FreshFrame ==
  ASSUME NEW fr, fr.args = {}, \A j \in DOMAIN fr.todo : fr.todo[j].op \in {"release", "dealloc"},
         fr.done => fr.lent = None, NEW f
  PROVE  FrameOK(f, fr)
<1>1. Plain(fr)
  BY DEF Plain
<1>2. Ending(fr)
  BY DEF Ending
<1> QED
  BY <1>1, <1>2, PlainSets DEF FrameOK

LEMMA CallIs ==
  ASSUME VarInv, Call
  PROVE  /\ Running /\ calls' \in 0 .. MaxCalls /\ frames # <<>> /\ Top.todo = <<>> /\ Top.args = {}
         /\ Top.done = FALSE /\ Top \in FrameT
<1>1. calls \in 0 .. MaxCalls /\ MaxCalls \in Nat
  BY InvGives, BoundsAssumption
<1>2. Running /\ calls < MaxCalls /\ calls' = calls + 1
  BY DEF Call
<1>3. calls' \in 0 .. MaxCalls
  BY <1>1, <1>2
<1> QED
  BY <1>2, <1>3, RunningIs

LEMMA ReleaseKeeps ==
  ASSUME VarInv, NEW id \in Ids, ppb_var_release(id) PROVE VarInv'
<1>1. /\ Call /\ MayDrop(id) /\ owned' = [owned EXCEPT ![id] = @ - 1]
      /\ frames' = WithTop(<<Step("release", id)>>)
      /\ UNCHANGED <<var_ht, var_id, lost, np, proxy>>
  BY DEF ppb_var_release
<1>2. ShapeKept /\ StoresKept /\ Counts(None)
  BY <1>1, SameTable
<1>3. /\ Kept /\ owned' \in [Ids -> Nat] /\ owned[id] > 0 /\ id \in DOMAIN var_ht
      /\ \A i \in Ids : owned'[i] = owned[i] - One(id = i)
  BY <1>1, <1>2, DropIs
<1>4. /\ calls' \in 0 .. MaxCalls /\ frames # <<>> /\ Top.todo = <<>> /\ Top.args = {}
      /\ Top.done = FALSE /\ Top \in FrameT /\ frames \in Seq(FrameT)
  BY <1>1, CallIs, InvGives
<1>5. PICK T \in Seq(Steps) :
        /\ T = <<Step("release", id)>> /\ \A j \in DOMAIN T : T[j].op = "release"
        /\ \A st : CountOf(T, st) = One(Step("release", id) = st)
  <2>1. <<Step("release", id)>> \in Seq(Steps)
    BY StepIs
  <2>2. \A j \in DOMAIN <<Step("release", id)>> : <<Step("release", id)>>[j].op = "release"
    BY StepIs
  <2>3. \A st : CountOf(<<Step("release", id)>>, st) = One(Step("release", id) = st)
    BY CountOne
  <2> QED
    BY <2>1, <2>2, <2>3
<1>6. /\ frames' \in Seq(FrameT)
      /\ frames' = Under(frames) \/ TopIs(frames', [Top EXCEPT !.todo = T])
      /\ \A st : Pend(frames', st) = Pend(Under(frames), st) + CountOf(T, st)
      /\ \A i \in Ids : Lent(frames', i) = Lent(frames, i)
  BY <1>1, <1>4, <1>5, WithTopIs
<1>7. Frames'
  <2>1. PICK fr : fr = [Top EXCEPT !.todo = T]
    OBVIOUS
  <2>2. fr.todo = T /\ fr.args = {} /\ fr.done = FALSE
    BY <1>4, <2>1 DEF FrameT
  <2>3. FrameOK(Len(frames), fr)
    BY <1>5, <2>2, FreshFrame
  <2> QED
    BY <1>3, <1>4, <1>6, <2>1, <2>3, FramesTop
<1>8. \A st : Pend(frames', st) = Pend(frames, st) + One(Step("release", id) = st)
  <2> SUFFICES ASSUME NEW st PROVE Pend(frames', st) = Pend(frames, st) + One(Step("release", id) = st)
    OBVIOUS
  <2>1. /\ Pend(frames, st) = Pend(Under(frames), st) + CountOf(<<>>, st)
        /\ CountOf(<<>>, st) = 0 /\ Pend(Under(frames), st) \in Nat
    BY <1>4, PendTop, CountEmpty DEF Top
  <2> QED
    BY <1>5, <1>6, <2>1
<1>9. \A o \in NPObjects : Pend(frames', Step("dealloc", o)) = Pend(frames, Step("dealloc", o))
  <2> SUFFICES ASSUME NEW o \in NPObjects
               PROVE Pend(frames', Step("dealloc", o)) = Pend(frames, Step("dealloc", o))
    OBVIOUS
  <2>1. One(Step("release", id) = Step("dealloc", o)) = 0
    BY StepIs DEF One
  <2> QED
    BY <1>4, <1>8, <2>1, PlacesFinite
<1>10. NPRefsExact' /\ ProxiesAreMapped' /\ np' \in [NPObjects -> NPT]
  BY <1>1, <1>2, <1>9, ObjectsKept
<1>11. Kinds'
  BY <1>1, <1>2, ShapeGives
<1>12. ASSUME NEW i \in Ids PROVE Balanced(i)
  <2>1. PICK one \in {0, 1} : one = One(id = i) /\ (i \notin DOMAIN var_ht => one = 0)
    BY <1>3 DEF One
  <2>2. PICK min \in {0, 0 - 1} : min = 0 - one
    OBVIOUS
  <2>3. Delta(i, 0, min, 0, 0, 0, one, 0, 0)
    <3>1. /\ i \in DOMAIN var_ht => var_ht'[i].ref_count = var_ht[i].ref_count + 0
          /\ SlotCount(var_ht', i) = SlotCount(var_ht, i) + 0
      BY <1>1, InvGives, SlotsFinite DEF Var
    <3>2. owned'[i] = owned[i] + min
      <4>1. owned'[i] = owned[i] - one /\ owned[i] \in Nat
        BY <1>3, <2>1, HoldParts
      <4> QED
        BY <2>2, <4>1
    <3>3. lost'[i] = lost[i] + 0 /\ ProxyCount(proxy', i) = ProxyCount(proxy, i) + 0
      BY <1>1, HoldParts
    <3>4. One(Step("release", id) = Step("release", i)) = one /\ One(Step("release", id) = Step("addref", i)) = 0
      BY <2>1, StepIs DEF One
    <3>5. /\ Lent(frames', i) = Lent(frames, i) + 0
          /\ Pend(frames', Step("release", i)) = Pend(frames, Step("release", i)) + one
          /\ Pend(frames', Step("addref", i)) = Pend(frames, Step("addref", i)) + 0
      BY <1>6, <1>8, <3>4, HoldParts DEF Adding
    <3> QED
      BY <3>1, <3>2, <3>5, <3>3 DEF Delta
  <2>4. /\ 0 = min + 0 + 0 + 0 + one + 0 - 0 /\ min \in Int /\ one \in Int /\ 0 \in Int
        /\ i \notin DOMAIN var_ht => min + 0 + 0 + 0 + one = 0
    BY <2>1, <2>2
  <2> QED
    BY <2>3, <2>4, BalancedBy
<1> QED
  BY <1>1, <1>2, <1>3, <1>4, <1>6, <1>7, <1>10, <1>11, <1>12, QuietStep, InvGives

-----------------------------------------------------------------------------
(* Calls that give the plugin a reference *)

LEMMA GainKeeps ==
  ASSUME VarInv, NEW id \in DOMAIN var_ht, Call, var_ht' = AddRef(var_ht, id), owned' = Owns(id),
         UNCHANGED <<var_id, lost, frames, np>>, proxy' \in [Proxies -> ProxyT], Kinds',
         \A i \in Ids : ProxyCount(proxy', i) = ProxyCount(proxy, i)
  PROVE  VarInv'
<1>1. id \in Ids
  BY InvGives
<1>2. ShapeKept /\ StoresKept /\ Counts(id)
  BY AddRefGives
<1>3. /\ owned' \in [Ids -> Nat] /\ \A i \in Ids : owned'[i] = owned[i] + One(id = i)
      /\ \A i \in Ids : owned[i] > 0 => owned'[i] > 0
  BY <1>1, GainIs
<1>4. calls' \in 0 .. MaxCalls
  BY CallIs
<1>5. Kept
  BY <1>2, <1>3, KeepsAll
<1>6. Frames' /\ frames' \in Seq(FrameT)
  BY <1>5, FramesSame, InvGives
<1>7. NPRefsExact' /\ ProxiesAreMapped' /\ np' \in [NPObjects -> NPT]
  BY <1>2, ObjectsKept
<1>8. ASSUME NEW i \in Ids PROVE Balanced(i)
  <2>1. PICK one \in {0, 1} : one = One(id = i) /\ (i \notin DOMAIN var_ht => one = 0)
    BY DEF One
  <2>2. Delta(i, one, one, 0, 0, 0, 0, 0, 0)
    <3>1. /\ i \in DOMAIN var_ht => var_ht'[i].ref_count = var_ht[i].ref_count + one
          /\ SlotCount(var_ht', i) = SlotCount(var_ht, i) + 0
      BY <1>2, <2>1, InvGives, SlotsFinite DEF Counts
    <3>2. /\ owned'[i] = owned[i] + one /\ lost'[i] = lost[i] + 0
          /\ ProxyCount(proxy', i) = ProxyCount(proxy, i) + 0
      BY <1>3, <2>1, HoldParts
    <3>3. /\ Lent(frames', i) = Lent(frames, i) + 0
          /\ Pend(frames', Step("release", i)) = Pend(frames, Step("release", i)) + 0
          /\ Pend(frames', Step("addref", i)) = Pend(frames, Step("addref", i)) + 0
      BY HoldParts DEF Adding
    <3> QED
      BY <3>1, <3>2, <3>3 DEF Delta
  <2> QED
    BY <2>1, <2>2, BalancedBy
<1> QED
  BY <1>2, <1>3, <1>4, <1>6, <1>7, <1>8, QuietStep, InvGives

LEMMA AddRefKeeps ==
  ASSUME VarInv, NEW id \in Ids, ppb_var_add_ref(id) PROVE VarInv'
<1>1. /\ Call /\ id \in DOMAIN var_ht /\ var_ht' = AddRef(var_ht, id) /\ owned' = Owns(id)
      /\ UNCHANGED <<var_id, lost, frames, np, proxy>>
  BY DEF ppb_var_add_ref, MayUse
<1>2. proxy' \in [Proxies -> ProxyT] /\ Kinds'
  BY <1>1, AddRefGives, ShapeGives, InvGives
<1> QED
  BY <1>1, <1>2, GainKeeps

LEMMA GetKeeps ==
  ASSUME VarInv, NEW c \in DOMAIN var_ht, NEW s \in Slots, Get(c, s) PROVE VarInv'
<1>1. PICK id : id = var_ht[c].slots[s]
  OBVIOUS
<1>2. /\ Call /\ id # None /\ var_ht' = AddRef(var_ht, id) /\ owned' = Owns(id)
      /\ UNCHANGED <<var_id, lost, frames, np, proxy>>
  BY <1>1 DEF Get
<1>3. id \in Ids
  <2>1. var_ht[c] \in Var
    BY InvGives
  <2> QED
    BY <1>1, <1>2, <2>1 DEF Var
<1>4. id \in DOMAIN var_ht
  BY <1>1, <1>3, Holding, HeldIsThere
<1>5. proxy' \in [Proxies -> ProxyT] /\ Kinds'
  BY <1>2, AddRefGives, ShapeGives, InvGives
<1> QED
  BY <1>2, <1>4, <1>5, GainKeeps

(* A proxy gets other references, and keeps what it stands for. *)
LEMMA ProxyRefsIs ==
  ASSUME VarInv, NEW x \in Proxies, proxy[x].ppobj # None, NEW n \in 1 .. CountSpace - 1,
         proxy' = [proxy EXCEPT ![x].refs = n], ShapeKept
  PROVE  /\ proxy' \in [Proxies -> ProxyT] /\ Kinds'
         /\ \A i \in Ids : ProxyCount(proxy', i) = ProxyCount(proxy, i)
<1>1. proxy \in [Proxies -> ProxyT] /\ n \in 0 .. CountSpace - 1 /\ n > 0
  BY InvGives, SpaceAssumption
<1>2. /\ proxy'[x] = [proxy[x] EXCEPT !.refs = n] /\ proxy[x] \in ProxyT
      /\ \A y \in Proxies : y # x => proxy'[y] = proxy[y]
  BY <1>1
<1>3. proxy'[x].ppobj = proxy[x].ppobj /\ proxy'[x].refs = n /\ proxy'[x] \in ProxyT
  BY <1>1, <1>2 DEF ProxyT
<1>4. proxy' \in [Proxies -> ProxyT]
  BY <1>1, <1>3
<1>5. \A y \in Proxies : proxy'[y].ppobj = proxy[y].ppobj
  BY <1>2, <1>3
<1>6. \A i : ProxyCount(proxy', i) = ProxyCount(proxy, i)
  <2>1. \A i : ProxiesOf(proxy', i) = ProxiesOf(proxy, i)
    BY <1>5 DEF ProxiesOf
  <2> QED
    BY <2>1 DEF ProxyCount
<1>7. ASSUME NEW y \in Proxies
      PROVE  IF proxy'[y].ppobj = None THEN proxy'[y].refs = 0
             ELSE /\ proxy'[y].refs > 0 /\ proxy'[y].ppobj \in DOMAIN var_ht'
                  /\ var_ht'[proxy'[y].ppobj].type = "OBJECT" /\ var_ht'[proxy'[y].ppobj].obj = None
  <2>1. IF proxy[y].ppobj = None THEN proxy[y].refs = 0
        ELSE /\ proxy[y].refs > 0 /\ proxy[y].ppobj \in DOMAIN var_ht
             /\ var_ht[proxy[y].ppobj].type = "OBJECT" /\ var_ht[proxy[y].ppobj].obj = None
    BY InvGives DEF Kinds
  <2>2. proxy'[y].ppobj = proxy[y].ppobj /\ (y = x => proxy'[y].refs > 0) /\ (y # x => proxy'[y] = proxy[y])
    BY <1>1, <1>2, <1>3, <1>5
  <2> QED
    BY <2>1, <2>2 DEF ShapeKept
<1>8. Kinds'
  BY <1>7, ShapeGives DEF Kinds
<1> QED
  BY <1>4, <1>6, <1>8

LEMMA ResultProxyKeeps ==
  ASSUME VarInv, NEW x \in Proxies, n2p_result_proxy(x) PROVE VarInv'
<1>1. PICK id : id = proxy[x].ppobj
  OBVIOUS
<1>2. /\ Call /\ proxy[x].refs \in 1 .. CountSpace - 3 /\ var_ht' = AddRef(var_ht, id) /\ owned' = Owns(id)
      /\ proxy' = [proxy EXCEPT ![x].refs = @ + 1] /\ UNCHANGED <<var_id, lost, frames, np>>
  BY <1>1 DEF n2p_result_proxy
<1>3. proxy[x].ppobj # None /\ id \in DOMAIN var_ht
  BY <1>1, <1>2, InvGives DEF Kinds
<1>4. PICK n \in 1 .. CountSpace - 1 : n = proxy[x].refs + 1
  <2>1. proxy[x].refs + 1 \in 1 .. CountSpace - 1
    BY <1>2, SpaceAssumption
  <2> QED
    BY <2>1
<1>5. proxy' = [proxy EXCEPT ![x].refs = n]
  BY <1>2, <1>4, InvGives
<1>6. ShapeKept
  BY <1>2, AddRefGives
<1>7. /\ proxy' \in [Proxies -> ProxyT] /\ Kinds'
      /\ \A i \in Ids : ProxyCount(proxy', i) = ProxyCount(proxy, i)
  BY <1>3, <1>5, <1>6, ProxyRefsIs
<1> QED
  BY <1>2, <1>3, <1>7, GainKeeps

-----------------------------------------------------------------------------
(* New variables *)

LEMMA PutKeeps ==
  ASSUME VarInv, HasRoom, Call, NEW type \in {"OBJECT", "DICTIONARY", "ARRAY"},
         NEW obj \in NPObjects \cup {None}, type # "OBJECT" => obj = None,
         var_id' = get_new_var_id, var_ht' = Put(var_ht, var_id', NewVar(type, obj)),
         owned' = Owns(var_id'), UNCHANGED <<lost, frames, proxy>>,
         np' \in [NPObjects -> NPT],
         \A o \in NPObjects :
           /\ np'[o].refs = np[o].refs + One(obj = o) /\ np'[o].script = np[o].script
           /\ np[o].mapped \/ o = obj => np'[o].mapped
  PROVE  VarInv'
<1>1. PICK new \in Ids \ DOMAIN var_ht : new = var_id'
  <2>1. var_id \in Ids /\ DOMAIN var_ht \subseteq Ids
    BY InvGives DEF Table
  <2> QED
    BY <2>1, NewIdIs
<1>2. PICK v \in Var : /\ v = NewVar(type, obj) /\ v.ref_count = 1 /\ v.slots = Empty
                       /\ v.obj = obj /\ v.type = type
  <2>1. Empty \in [Slots -> Ids \cup {None}]
    BY DEF Empty
  <2>2. /\ NewVar(type, obj) \in Var /\ NewVar(type, obj).ref_count = 1
        /\ NewVar(type, obj).slots = Empty /\ NewVar(type, obj).obj = obj
        /\ NewVar(type, obj).type = type
    BY <2>1 DEF NewVar, Var
  <2> QED
    BY <2>2
<1>3. var_ht' = Put(var_ht, new, v)
  BY <1>1, <1>2
<1>4. Table(var_ht)
  BY InvGives
<1>5. /\ DOMAIN var_ht' = DOMAIN var_ht \cup {new} /\ var_ht'[new] = v
      /\ \A j \in DOMAIN var_ht : var_ht'[j] = var_ht[j]
      /\ Table(var_ht')
      /\ \A o : ObjCount(var_ht', o) = ObjCount(var_ht, o) + One(v.obj = o)
  <2>1. v.slots = Empty /\ var_ht' = Put(var_ht, new, v)
    BY <1>2, <1>3
  <2> QED
    BY ONLY <1>4, <2>1, TablePut, new \in Ids \ DOMAIN var_ht, v \in Var
<1>6. /\ owned' \in [Ids -> Nat] /\ \A i \in Ids : owned[i] > 0 => owned'[i] > 0
      /\ owned' = [owned EXCEPT ![new] = @ + 1]
  BY <1>1, GainIs DEF Owns
<1>7. StoresKept
  BY <1>5 DEF StoresKept, Stores
<1>8. Frames' /\ frames' \in Seq(FrameT)
  BY <1>6, <1>7, KeepsAll, FramesSame, InvGives
<1>9. NextTyped
  BY <1>5, <1>6, <1>8, InvGives DEF NextTyped, Typed
<1>10. TypeOK'
  <2>1. proxy' \in [Proxies -> ProxyT] /\ calls' \in 0 .. MaxCalls /\ var_id' \in Ids
    BY <1>1, CallIs, InvGives
  <2>2. Typed(var_ht', owned', lost', frames')
    BY <1>9 DEF NextTyped
  <2> QED
    BY <2>1, <2>2, TypeParts, Zenon
<1>11. CountsNext
  <2>1. v.ref_count = 1 /\ v.slots = Empty /\ owned' = [owned EXCEPT ![new] = @ + 1]
    BY <1>2, <1>6
  <2> QED
    BY ONLY <1>3, <1>9, <2>1, CountsPut, VarInv, new \in Ids \ DOMAIN var_ht, v \in Var,
            UNCHANGED <<lost, frames, proxy>>
<1>12. Kinds'
  <2>1. \A j \in DOMAIN var_ht : KindOf(var_ht[j])
    BY InvGives DEF Kinds
  <2>2. KindOf(v)
    BY <1>2 DEF KindOf
  <2>3. \A j \in DOMAIN var_ht' : KindOf(var_ht'[j])
    BY <1>5, <2>1, <2>2
  <2>4. ASSUME NEW y \in Proxies
        PROVE  IF proxy'[y].ppobj = None THEN proxy'[y].refs = 0
               ELSE /\ proxy'[y].refs > 0 /\ proxy'[y].ppobj \in DOMAIN var_ht'
                    /\ var_ht'[proxy'[y].ppobj].type = "OBJECT" /\ var_ht'[proxy'[y].ppobj].obj = None
    BY <1>5, InvGives DEF Kinds
  <2> QED
    BY <2>3, <2>4 DEF Kinds
<1>13. NPRefsExact'
  <2>1. ASSUME NEW o \in NPObjects
        PROVE  np'[o].refs = np'[o].script + Pend(frames', Step("dealloc", o)) + ObjCount(var_ht', o)
    <3>1. PICK sc, pe, ob \in Nat :
            sc = np[o].script /\ pe = Pend(frames, Step("dealloc", o)) /\ ob = ObjCount(var_ht, o)
      <4>1. np[o].script \in Nat
        BY InvGives DEF NPT
      <4>2. Pend(frames, Step("dealloc", o)) \in Nat /\ ObjCount(var_ht, o) \in Nat
        BY InvGives, PlacesFinite, ObjsFinite
      <4> QED
        BY <4>1, <4>2
    <3>2. PICK one \in {0, 1} : one = One(obj = o)
      BY DEF One
    <3>3. np[o].refs = sc + pe + ob
      BY <3>1, InvGives
    <3>4. np'[o].refs = (sc + pe + ob) + one
      BY <3>2, <3>3
    <3>5. ObjCount(var_ht', o) = ob + one
      BY <1>2, <1>5, <3>1, <3>2
    <3> QED
      BY <3>1, <3>4, <3>5
  <2> QED
    BY <2>1, Counted
<1>14. ProxiesAreMapped'
  <2> SUFFICES ASSUME NEW j \in DOMAIN var_ht', var_ht'[j].obj # None
               PROVE  np'[var_ht'[j].obj].mapped
    BY DEF ProxiesAreMapped
  <2>1. CASE j = new
    BY <1>2, <1>5, <2>1
  <2>2. CASE j # new
    <3>1. j \in DOMAIN var_ht /\ var_ht'[j] = var_ht[j]
      BY <1>5, <2>2
    <3>2. var_ht[j].obj \in NPObjects
      BY <3>1, InvGives DEF Var
    <3>3. np[var_ht[j].obj].mapped
      BY <3>1, InvGives DEF ProxiesAreMapped
    <3> QED
      BY <3>1, <3>2, <3>3
  <2> QED
    BY <2>1, <2>2
<1> QED
  BY <1>8, <1>10, <1>11, <1>12, <1>13, <1>14, Whole

LEMMA CreateKeeps ==
  ASSUME VarInv, NEW type \in {"OBJECT", "DICTIONARY", "ARRAY"}, Create(type) PROVE VarInv'
<1>1. /\ Call /\ HasRoom /\ var_id' = get_new_var_id /\ var_ht' = Put(var_ht, var_id', NewVar(type, None))
      /\ owned' = Owns(var_id') /\ UNCHANGED <<lost, frames, np, proxy>>
  BY DEF Create
<1>2. np \in [NPObjects -> NPT]
  BY InvGives
<1>3. \A o \in NPObjects :
        /\ np'[o].refs = np[o].refs + One(None = o) /\ np'[o].script = np[o].script
        /\ np[o].mapped \/ o = None => np'[o].mapped
  <2> SUFFICES ASSUME NEW o \in NPObjects
               PROVE  np[o].refs = np[o].refs + One(None = o) /\ o # None
    BY <1>1
  <2>1. np[o].refs \in Nat
    BY <1>2 DEF NPT
  <2> QED
    BY <2>1, NamesAssumption DEF One
<1>4. None \in NPObjects \cup {None} /\ np' \in [NPObjects -> NPT]
  BY <1>1, <1>2
<1> QED
  BY <1>1, <1>3, <1>4, PutKeeps

LEMMA ResultObjectKeeps ==
  ASSUME VarInv, NEW o \in NPObjects, n2p_result_object(o) PROVE VarInv'
<1>1. /\ Call /\ HasRoom /\ var_id' = get_new_var_id
      /\ var_ht' = Put(var_ht, var_id', NewVar("OBJECT", o)) /\ owned' = Owns(var_id')
      /\ np' = [np EXCEPT ![o].refs = @ + 1, ![o].mapped = TRUE] /\ UNCHANGED <<lost, frames, proxy>>
  BY DEF n2p_result_object
<1>2. np \in [NPObjects -> NPT]
  BY InvGives
<1>3. np[o] \in NPT
  BY <1>2
<1>4. /\ np'[o] = [np[o] EXCEPT !.refs = @ + 1, !.mapped = TRUE]
      /\ \A q \in NPObjects : q # o => np'[q] = np[q]
      /\ np' \in [NPObjects -> {np'[q] : q \in NPObjects}]
  BY <1>1, <1>2, <1>3 DEF NPT
<1>5. /\ np'[o].refs = np[o].refs + 1 /\ np'[o].script = np[o].script /\ np'[o].mapped = TRUE
      /\ np'[o] \in NPT
  <2>1. PICK q \in NPT : q = np[o]
    BY <1>3
  <2>2. np'[o] = [q EXCEPT !.refs = @ + 1, !.mapped = TRUE]
    BY <1>4, <2>1
  <2>3. q = [refs |-> q.refs, script |-> q.script, mapped |-> q.mapped] /\ q.refs + 1 \in Nat /\ q.script \in Nat
    BY DEF NPT
  <2>4. np'[o] = [refs |-> q.refs + 1, script |-> q.script, mapped |-> TRUE]
    BY <2>2, <2>3
  <2>5. np'[o] \in NPT
    BY <2>3, <2>4 DEF NPT
  <2> QED
    BY <2>1, <2>4, <2>5
<1>6. np' \in [NPObjects -> NPT]
  BY <1>2, <1>4, <1>5
<1>7. \A q \in NPObjects :
        /\ np'[q].refs = np[q].refs + One(o = q) /\ np'[q].script = np[q].script
        /\ np[q].mapped \/ q = o => np'[q].mapped
  <2> SUFFICES ASSUME NEW q \in NPObjects
               PROVE  /\ np'[q].refs = np[q].refs + One(o = q) /\ np'[q].script = np[q].script
                      /\ np[q].mapped \/ q = o => np'[q].mapped
    OBVIOUS
  <2>1. np[q].refs \in Nat
    BY <1>2 DEF NPT
  <2>2. CASE q = o
    BY <1>5, <2>2 DEF One
  <2>3. CASE q # o
    <3>1. np'[q] = np[q] /\ One(o = q) = 0
      BY <1>4, <2>3 DEF One
    <3> QED
      BY <2>1, <2>3, <3>1
  <2> QED
    BY <2>2, <2>3
<1> QED
  BY <1>1, <1>6, <1>7, PutKeeps

-----------------------------------------------------------------------------
(* Elements are stored *)

Stored(ht, a, s, id) == [ht EXCEPT ![a].slots[s] = id]

LEMMA SlotIs ==
  ASSUME NEW ht, Table(ht), NEW a \in DOMAIN ht, NEW s \in Slots, NEW id \in Ids
  PROVE  LET hu == Stored(ht, a, s, id) IN
         /\ DOMAIN hu = DOMAIN ht /\ Table(hu)
         /\ \A j \in DOMAIN ht :
              /\ hu[j].type = ht[j].type /\ hu[j].obj = ht[j].obj /\ hu[j].ref_count = ht[j].ref_count
              /\ j # a => hu[j].slots = ht[j].slots
         /\ hu[a].slots[s] = id
         /\ \A t \in Slots : t # s => hu[a].slots[t] = ht[a].slots[t]
<1> DEFINE hu == [ht EXCEPT ![a].slots[s] = id]
<1>1. PICK v \in Var : v = ht[a]
  BY DEF Table
<1>2. v.slots \in [Slots -> Ids \cup {None}]
  BY DEF Var
<1>3. PICK sl \in [Slots -> Ids \cup {None}] : sl = [v.slots EXCEPT ![s] = id]
  BY <1>2
<1>4. sl[s] = id /\ \A t \in Slots : t # s => sl[t] = v.slots[t]
  BY <1>2, <1>3
<1>5. /\ DOMAIN hu = DOMAIN ht /\ hu[a] = [v EXCEPT !.slots = sl]
      /\ \A j \in DOMAIN ht : j # a => hu[j] = ht[j]
  BY <1>1, <1>3
<1> HIDE DEF hu
<1>6. /\ hu[a].type = v.type /\ hu[a].obj = v.obj /\ hu[a].ref_count = v.ref_count
      /\ hu[a].slots = sl /\ hu[a] \in Var
  BY <1>5 DEF Var
<1>7. Table(hu)
  BY <1>5, <1>6 DEF Table
<1>8. \A j \in DOMAIN ht :
        /\ hu[j].type = ht[j].type /\ hu[j].obj = ht[j].obj /\ hu[j].ref_count = ht[j].ref_count
        /\ j # a => hu[j].slots = ht[j].slots
  BY <1>1, <1>5, <1>6
<1>9. hu[a].slots[s] = id /\ \A t \in Slots : t # s => hu[a].slots[t] = ht[a].slots[t]
  BY <1>1, <1>4, <1>6
<1> QED
  BY <1>5, <1>7, <1>8, <1>9 DEF hu, Stored

(* An element of a container is overwritten, and add gets a reference.     *)
LEMMA StoreIs ==
  ASSUME VarInv, NEW a \in DOMAIN var_ht, var_ht[a].type # "OBJECT", NEW s \in Slots,
         NEW id \in Ids, NEW add,
         var_ht' = AddRef(Stored(var_ht, a, s, id), add)
  PROVE  /\ ShapeKept
         /\ \A j \in DOMAIN var_ht : var_ht'[j].ref_count = var_ht[j].ref_count + One(add = j)
         /\ \A i : SlotCount(var_ht', i) =
                     SlotCount(var_ht, i) + One(id = i) - One(var_ht[a].slots[s] = i)
         /\ var_ht[a].type = "ARRAY" => StoresKept
         /\ var_ht[a].type = "DICTIONARY" => Stores(var_ht', a, id)
<1>1. Table(var_ht)
  BY InvGives
<1>2. PICK hu : hu = Stored(var_ht, a, s, id)
  OBVIOUS
<1>3. /\ DOMAIN hu = DOMAIN var_ht /\ Table(hu)
      /\ \A j \in DOMAIN var_ht :
           /\ hu[j].type = var_ht[j].type /\ hu[j].obj = var_ht[j].obj
           /\ hu[j].ref_count = var_ht[j].ref_count
           /\ j # a => hu[j].slots = var_ht[j].slots
      /\ hu[a].slots[s] = id
      /\ \A t \in Slots : t # s => hu[a].slots[t] = var_ht[a].slots[t]
  BY ONLY <1>1, <1>2, SlotIs, a \in DOMAIN var_ht, s \in Slots, id \in Ids
<1>4. var_ht' = AddRef(hu, add)
  BY <1>2
<1>5. /\ DOMAIN var_ht' = DOMAIN hu /\ Table(var_ht')
      /\ \A j \in DOMAIN hu :
           /\ var_ht'[j].type = hu[j].type /\ var_ht'[j].obj = hu[j].obj
           /\ var_ht'[j].slots = hu[j].slots
           /\ var_ht'[j].ref_count = hu[j].ref_count + One(add = j)
  BY ONLY <1>3, <1>4, AddRefIs
<1>6. ShapeKept
  BY ONLY <1>3, <1>5, var_ht[a].type # "OBJECT" DEF ShapeKept
<1>7. \A j \in DOMAIN var_ht : var_ht'[j].ref_count = var_ht[j].ref_count + One(add = j)
  BY ONLY <1>3, <1>5
<1>8. \A i : SlotCount(var_ht', i) =
               SlotCount(var_ht, i) + One(id = i) - One(var_ht[a].slots[s] = i)
  <2> SUFFICES ASSUME NEW i
               PROVE  SlotCount(var_ht', i) =
                        SlotCount(var_ht, i) + One(id = i) - One(var_ht[a].slots[s] = i)
    OBVIOUS
  <2>1. PICK hv : hv = var_ht'
    OBVIOUS
  <2>2. /\ DOMAIN hv = DOMAIN var_ht /\ hv[a].slots[s] = id
        /\ \A j \in DOMAIN var_ht, t \in Slots :
             j # a \/ t # s => hv[j].slots[t] = var_ht[j].slots[t]
    BY ONLY <1>3, <1>5, <2>1, a \in DOMAIN var_ht
  <2>3. SlotCount(hv, i) = SlotCount(var_ht, i) + One(hv[a].slots[s] = i) - One(var_ht[a].slots[s] = i)
    BY ONLY <1>1, <2>2, SlotsSet, a \in DOMAIN var_ht, s \in Slots
  <2> QED
    BY <2>1, <2>2, <2>3
<1>9. ASSUME var_ht[a].type = "ARRAY" PROVE StoresKept
  <2> SUFFICES ASSUME NEW d, NEW e, Stores(var_ht, d, e) PROVE Stores(var_ht', d, e)
    BY DEF StoresKept
  <2>1. d \in DOMAIN var_ht /\ d # a
    BY <1>9 DEF Stores
  <2>2. var_ht'[d].slots = var_ht[d].slots /\ var_ht'[d].type = var_ht[d].type /\ d \in DOMAIN var_ht'
    BY ONLY <1>3, <1>5, <2>1
  <2> QED
    BY <2>1, <2>2 DEF Stores
<1>10. ASSUME var_ht[a].type = "DICTIONARY" PROVE Stores(var_ht', a, id)
  <2>1. a \in DOMAIN var_ht' /\ var_ht'[a].type = "DICTIONARY" /\ var_ht'[a].slots[s] = id
    BY ONLY <1>3, <1>5, <1>10, a \in DOMAIN var_ht
  <2> QED
    BY <2>1 DEF Stores
<1> QED
  BY <1>6, <1>7, <1>8, <1>9, <1>10

(* What plugin code may use is there. *)
LEMMA UsedIs ==
  ASSUME VarInv, NEW id, MayUse(id)
  PROVE  id \in Ids /\ id \in DOMAIN var_ht /\ (owned[id] > 0 \/ Top.lent = id)
BY InvGives DEF MayUse

(* An element that is stored is there. *)
LEMMA OldIs ==
  ASSUME VarInv, NEW c \in DOMAIN var_ht, NEW s \in Slots, var_ht[c].slots[s] # None
  PROVE  var_ht[c].slots[s] \in Ids /\ var_ht[c].slots[s] \in DOMAIN var_ht
<1>1. var_ht[c] \in Var
  BY InvGives
<1>2. var_ht[c].slots[s] \in Ids
  BY <1>1 DEF Var
<1>3. SlotCount(var_ht, var_ht[c].slots[s]) > 0
  BY <1>2, Holding
<1> QED
  BY <1>2, <1>3, HeldIsThere

LEMMA NoneIsNoId == \A i \in Ids : One(None = i) = 0
BY DEF One, Ids, None

LEMMA ArraySetKeeps ==
  ASSUME VarInv, NEW a \in DOMAIN var_ht, NEW s \in Slots, NEW id \in DOMAIN var_ht,
         ppb_var_array_set(a, s, id)
  PROVE  VarInv'
<1>1. PICK old : old = var_ht[a].slots[s]
  OBVIOUS
<1>2. /\ Call /\ MayUse(a) /\ MayUse(id) /\ var_ht[a].type = "ARRAY"
      /\ var_ht' = AddRef(Stored(var_ht, a, s, id), id)
      /\ lost' = (IF old = None THEN lost ELSE [lost EXCEPT ![old] = @ + 1])
      /\ UNCHANGED <<var_id, owned, frames, np, proxy>>
  BY <1>1 DEF ppb_var_array_set, Stored
<1>3. id \in Ids /\ var_ht[a].type # "OBJECT"
  BY <1>2, InvGives
<1>4. /\ ShapeKept /\ StoresKept
      /\ \A j \in DOMAIN var_ht : var_ht'[j].ref_count = var_ht[j].ref_count + One(id = j)
      /\ \A i : SlotCount(var_ht', i) = SlotCount(var_ht, i) + One(id = i) - One(old = i)
  BY <1>1, <1>2, <1>3, StoreIs
<1>5. /\ lost' \in [Ids -> Nat] /\ \A i \in Ids : lost'[i] = lost[i] + One(old = i)
      /\ old \in Ids => old \in DOMAIN var_ht
  <2>1. lost \in [Ids -> Nat]
    BY InvGives
  <2>2. CASE old = None
    <3>1. \A i \in Ids : lost[i] = lost[i] + One(old = i)
      BY <2>1, <2>2, NoneIsNoId
    <3> QED
      BY <1>2, <2>1, <2>2, <3>1 DEF Ids, None
  <2>3. CASE old # None
    <3>1. old \in Ids /\ old \in DOMAIN var_ht
      BY <1>1, <2>3, OldIs
    <3>2. lost' = [lost EXCEPT ![old] = @ + 1] /\ lost[old] + 1 \in Nat
      BY <1>2, <2>1, <2>3, <3>1
    <3>3. lost' \in [Ids -> Nat]
      BY <2>1, <3>1, <3>2
    <3>4. ASSUME NEW i \in Ids PROVE lost'[i] = lost[i] + One(old = i)
      <4>1. lost'[i] = (IF i = old THEN lost[i] + 1 ELSE lost[i]) /\ lost[i] \in Nat
        BY <2>1, <3>1, <3>2
      <4> QED
        BY <4>1 DEF One
    <3> QED
      BY <3>1, <3>3, <3>4
  <2> QED
    BY <2>2, <2>3
<1>6. Kept
  BY <1>2, <1>4, KeepsAll
<1>7. Frames' /\ frames' \in Seq(FrameT) /\ calls' \in 0 .. MaxCalls
  BY <1>2, <1>6, FramesSame, CallIs, InvGives
<1>8. NPRefsExact' /\ ProxiesAreMapped' /\ np' \in [NPObjects -> NPT] /\ Kinds'
  BY <1>2, <1>4, ObjectsKept, ShapeGives
<1>9. ASSUME NEW i \in Ids PROVE Balanced(i)
  <2>1. PICK one \in {0, 1} : one = One(id = i) /\ (i \notin DOMAIN var_ht => one = 0)
    BY DEF One
  <2>2. PICK two \in {0, 1} : two = One(old = i) /\ (i \notin DOMAIN var_ht => two = 0)
    BY <1>5 DEF One
  <2>3. PICK sl \in {-1, 0, 1} : sl = one - two
    <3>1. one - two \in {-1, 0, 1}
      OBVIOUS
    <3> QED
      BY <3>1
  <2>4. Delta(i, one, 0, sl, 0, 0, 0, 0, two)
    <3>1. i \in DOMAIN var_ht => var_ht'[i].ref_count = var_ht[i].ref_count + one
      BY <1>4, <2>1
    <3>2. SlotCount(var_ht', i) = SlotCount(var_ht, i) + sl
      <4>1. SlotCount(var_ht, i) \in Nat /\ SlotCount(var_ht', i) = SlotCount(var_ht, i) + one - two
        BY <1>4, <2>1, <2>2, HoldParts
      <4> QED
        BY <2>3, <4>1
    <3>3. owned'[i] = owned[i] + 0 /\ ProxyCount(proxy', i) = ProxyCount(proxy, i) + 0
      BY <1>2, HoldParts
    <3>4. /\ Lent(frames', i) = Lent(frames, i) + 0
          /\ Pend(frames', Step("release", i)) = Pend(frames, Step("release", i)) + 0
          /\ Pend(frames', Step("addref", i)) = Pend(frames, Step("addref", i)) + 0
      BY <1>2, HoldParts DEF Adding
    <3>5. lost'[i] = lost[i] + two
      BY <1>5, <2>2
    <3> QED
      BY <3>1, <3>2, <3>3, <3>4, <3>5 DEF Delta
  <2>5. /\ one = 0 + sl + 0 + 0 + 0 + two - 0 /\ sl \in Int /\ one \in Int /\ two \in Int /\ 0 \in Int
        /\ i \notin DOMAIN var_ht => 0 + sl + 0 + 0 + 0 = 0 /\ two = 0
    BY <2>1, <2>2, <2>3
  <2> QED
    BY <2>4, <2>5, BalancedBy
<1> QED
  BY <1>2, <1>4, <1>5, <1>7, <1>8, <1>9, QuietStep, InvGives

(* The outermost callback runs: no call around it sets a dictionary.       *)
LEMMA OuterIs ==
  ASSUME VarInv, PlainCalls, Call, Len(frames) > 1 => NestedSets
  PROVE  Len(frames) = 1 /\ frames[1] = Top /\ frames \in Seq(FrameT) /\ Kept
<1>1. frames # <<>> /\ Top.args = {}
  BY CallIs
<1>2. Len(frames) \in Nat \ {0} /\ ~(Len(frames) > 1) /\ Top = frames[Len(frames)]
  BY <1>1, TopIsThere DEF PlainCalls
<1>3. Len(frames) = 1
  <2>1. PICK n \in Nat \ {0} : n = Len(frames) /\ ~(n > 1)
    BY <1>2
  <2>2. n = 1
    BY ONLY <2>1, n \in Nat \ {0}
  <2> QED
    BY <2>1, <2>2
<1> QED
  BY <1>1, <1>2, <1>3, InvGives DEF Kept, Keeps

LEMMA DictionaryPutKeeps ==
  ASSUME VarInv, PlainCalls, NEW d \in DOMAIN var_ht, NEW s \in Slots, NEW id \in DOMAIN var_ht,
         ppb_var_dictionary_set(d, s, id), var_ht[d].slots[s] = None
  PROVE  VarInv'
<1>1. /\ Call /\ MayUse(d) /\ MayUse(id) /\ var_ht[d].type = "DICTIONARY"
      /\ Len(frames) > 1 => NestedSets
      /\ var_ht' = AddRef(Stored(var_ht, d, s, id), id)
      /\ UNCHANGED <<var_id, owned, lost, frames, np, proxy>>
  BY DEF ppb_var_dictionary_set, Stored
<1>2. id \in Ids /\ var_ht[d].type # "OBJECT"
  BY <1>1, InvGives
<1>3. /\ ShapeKept
      /\ \A j \in DOMAIN var_ht : var_ht'[j].ref_count = var_ht[j].ref_count + One(id = j)
      /\ \A i : SlotCount(var_ht', i) = SlotCount(var_ht, i) + One(id = i) - One(None = i)
  BY <1>1, <1>2, StoreIs
<1>4. Kept
  BY <1>1, OuterIs
<1>5. Frames' /\ frames' \in Seq(FrameT) /\ calls' \in 0 .. MaxCalls
  BY <1>1, <1>4, FramesSame, CallIs, InvGives
<1>6. NPRefsExact' /\ ProxiesAreMapped' /\ np' \in [NPObjects -> NPT] /\ Kinds'
  BY <1>1, <1>3, ObjectsKept, ShapeGives
<1>7. ASSUME NEW i \in Ids PROVE Balanced(i)
  <2>1. PICK one \in {0, 1} : one = One(id = i) /\ (i \notin DOMAIN var_ht => one = 0)
    BY DEF One
  <2>2. Delta(i, one, 0, one, 0, 0, 0, 0, 0)
    <3>1. i \in DOMAIN var_ht => var_ht'[i].ref_count = var_ht[i].ref_count + one
      BY <1>3, <2>1
    <3>2. SlotCount(var_ht', i) = SlotCount(var_ht, i) + one
      BY <1>3, <2>1, HoldParts, NoneIsNoId
    <3>3. /\ owned'[i] = owned[i] + 0 /\ ProxyCount(proxy', i) = ProxyCount(proxy, i) + 0
          /\ lost'[i] = lost[i] + 0
      BY <1>1, HoldParts
    <3>4. /\ Lent(frames', i) = Lent(frames, i) + 0
          /\ Pend(frames', Step("release", i)) = Pend(frames, Step("release", i)) + 0
          /\ Pend(frames', Step("addref", i)) = Pend(frames, Step("addref", i)) + 0
      BY <1>1, HoldParts DEF Adding
    <3> QED
      BY <3>1, <3>2, <3>3, <3>4 DEF Delta
  <2> QED
    BY <2>1, <2>2, BalancedBy
<1> QED
  BY <1>1, <1>3, <1>5, <1>6, <1>7, QuietStep, InvGives

(* A new top frame. *)
LEMMA TopSet ==
  ASSUME VarInv, frames # <<>>, Kept, NEW fr \in FrameT, FrameOK(Len(frames), fr),
         frames' = [frames EXCEPT ![Len(frames)] = fr]
  PROVE  /\ frames' \in Seq(FrameT) /\ Frames'
         /\ \A st : /\ Pend(frames', st) = Pend(frames, st) + CountOf(fr.todo, st) - CountOf(Top.todo, st)
                    /\ CountOf(Top.todo, st) \in Nat
         /\ \A i : Lent(frames', i) = Lent(frames, i) + One(fr.lent = i) - One(Top.lent = i)
<1>1. frames \in Seq(FrameT)
  BY InvGives
<1>2. PICK gs \in Seq(FrameT) : gs = frames' /\ TopIs(gs, fr)
  BY <1>1, NewTop
<1>3. /\ \A st : Pend(gs, st) = Pend(Under(frames), st) + CountOf(fr.todo, st)
      /\ \A i : Lent(gs, i) = Lent(Under(frames), i) + One(fr.lent = i)
  BY <1>1, <1>2, TopGives
<1>4. ASSUME NEW st
      PROVE  /\ Pend(gs, st) = Pend(frames, st) + CountOf(fr.todo, st) - CountOf(Top.todo, st)
             /\ CountOf(Top.todo, st) \in Nat
  <2>1. /\ Pend(frames, st) = Pend(Under(frames), st) + CountOf(Top.todo, st)
        /\ Pend(Under(frames), st) \in Nat /\ CountOf(Top.todo, st) \in Nat
    BY <1>1, PendTop DEF Top
  <2>2. CountOf(fr.todo, st) \in Nat
    BY CountFinite DEF FrameT
  <2>3. PICK a, b, c \in Nat :
          a = Pend(Under(frames), st) /\ b = CountOf(Top.todo, st) /\ c = CountOf(fr.todo, st)
    BY <2>1, <2>2
  <2>4. Pend(gs, st) = a + c /\ Pend(frames, st) = a + b
    BY <1>3, <2>1, <2>3
  <2>5. a + c = (a + b) + c - b
    BY ONLY a \in Nat, b \in Nat, c \in Nat
  <2> QED
    BY <2>1, <2>3, <2>4, <2>5
<1>5. ASSUME NEW i
      PROVE  Lent(gs, i) = Lent(frames, i) + One(fr.lent = i) - One(Top.lent = i)
  <2>1. Lent(frames, i) = Lent(Under(frames), i) + One(Top.lent = i) /\ Lent(Under(frames), i) \in Nat
    BY <1>1, LentTop DEF Top
  <2>2. PICK a \in Nat, b \in {0, 1}, c \in {0, 1} :
          a = Lent(Under(frames), i) /\ b = One(Top.lent = i) /\ c = One(fr.lent = i)
    BY <2>1 DEF One
  <2>3. Lent(gs, i) = a + c /\ Lent(frames, i) = a + b
    BY <1>3, <2>1, <2>2
  <2>4. a + c = (a + b) + c - b
    BY ONLY a \in Nat, b \in {0, 1}, c \in {0, 1}
  <2> QED
    BY <2>2, <2>3, <2>4
<1>6. Frames'
  BY <1>2, FramesTop
<1> QED
  BY <1>2, <1>4, <1>5, <1>6

LEMMA DictionaryReplaceKeeps ==
  ASSUME VarInv, PlainCalls, NEW d \in DOMAIN var_ht, NEW s \in Slots, NEW id \in DOMAIN var_ht,
         ppb_var_dictionary_set(d, s, id), var_ht[d].slots[s] # None
  PROVE  VarInv'
<1>1. PICK old : old = var_ht[d].slots[s]
  OBVIOUS
<1>2. /\ Call /\ MayUse(d) /\ MayUse(id) /\ var_ht[d].type = "DICTIONARY"
      /\ Len(frames) > 1 => NestedSets
      /\ var_ht' = Stored(var_ht, d, s, id)
      /\ frames' = [frames EXCEPT ![Len(frames)].args = {d, id},
                      ![Len(frames)].todo = <<Step("release", old), Step("addref", id)>>]
      /\ UNCHANGED <<var_id, owned, lost, np, proxy>>
  BY <1>1 DEF ppb_var_dictionary_set, Stored
<1>3. /\ id \in Ids /\ d \in Ids /\ var_ht[d].type # "OBJECT"
      /\ \A e \in {d, id} : owned[e] > 0 \/ Top.lent = e
  BY <1>2, UsedIs
<1>4. old \in Ids /\ old \in DOMAIN var_ht
  BY <1>1, OldIs
<1>5. /\ frames # <<>> /\ Top.todo = <<>> /\ Top.done = FALSE /\ Top \in FrameT
      /\ calls' \in 0 .. MaxCalls
  BY <1>2, CallIs
<1>6. Len(frames) = 1 /\ Kept /\ frames \in Seq(FrameT) /\ 1 \in DOMAIN frames
  BY <1>2, <1>5, OuterIs, TopIsThere
<1>7. None \notin DOMAIN Stored(var_ht, d, s, id)
  <2>1. Table(var_ht) /\ None \notin DOMAIN var_ht
    BY InvGives DEF Table, Ids, None
  <2>2. DOMAIN Stored(var_ht, d, s, id) = DOMAIN var_ht
    BY <1>3, <2>1, SlotIs
  <2> QED
    BY <2>1, <2>2
<1>8. var_ht' = AddRef(Stored(var_ht, d, s, id), None)
  BY <1>2, <1>7 DEF AddRef
<1>9. /\ ShapeKept
      /\ \A j \in DOMAIN var_ht : var_ht'[j].ref_count = var_ht[j].ref_count + One(None = j)
      /\ \A i : SlotCount(var_ht', i) = SlotCount(var_ht, i) + One(id = i) - One(old = i)
      /\ Stores(var_ht', d, id)
  <2>1. var_ht[d].type # "OBJECT" /\ var_ht[d].type = "DICTIONARY" /\ id \in Ids
    BY <1>2, <1>3
  <2> QED
    BY ONLY VarInv, <1>1, <1>8, <2>1, StoreIs, d \in DOMAIN var_ht, s \in Slots
<1>10. PICK T \in Seq(Steps) : T = <<Step("release", old), Step("addref", id)>>
  <2>1. Step("release", old) \in Steps /\ Step("addref", id) \in Steps
    BY <1>3, <1>4, StepIs
  <2>2. <<Step("release", old), Step("addref", id)>> \in Seq(Steps)
    BY <2>1
  <2> QED
    BY <2>2
<1>11. /\ Len(T) = 2 /\ DOMAIN T = {1, 2} /\ T[1] = Step("release", old) /\ T[2] = Step("addref", id)
       /\ T[1].op = "release" /\ T[2].op = "addref" /\ T[2].of = id
  BY <1>10, StepIs
<1>12. \A st : CountOf(T, st) = One(Step("release", old) = st) + One(Step("addref", id) = st)
  <2>1. T = <<Step("release", old)>> \o <<Step("addref", id)>>
    BY <1>10
  <2>2. <<Step("release", old)>> \in Seq(Steps) /\ <<Step("addref", id)>> \in Seq(Steps)
    BY <1>3, <1>4, StepIs
  <2>3. \A st : CountOf(T, st) = CountOf(<<Step("release", old)>>, st) + CountOf(<<Step("addref", id)>>, st)
    BY <2>1, <2>2, CountConcat
  <2> QED
    BY <2>3, CountOne
<1>13. PICK fr \in FrameT : /\ fr = [Top EXCEPT !.args = {d, id}, !.todo = T]
                            /\ fr.todo = T /\ fr.args = {d, id} /\ fr.lent = Top.lent /\ fr.done = FALSE
  <2>1. PICK top \in FrameT : top = Top
    BY <1>5
  <2>2. PICK mid \in FrameT : /\ mid = [top EXCEPT !.args = {d, id}] /\ mid.args = {d, id}
                             /\ mid.lent = top.lent /\ mid.done = top.done
    <3>1. {d, id} \in SUBSET Ids
      BY <1>3
    <3>2. /\ [top EXCEPT !.args = {d, id}] \in FrameT
          /\ [top EXCEPT !.args = {d, id}].args = {d, id}
          /\ [top EXCEPT !.args = {d, id}].lent = top.lent
          /\ [top EXCEPT !.args = {d, id}].done = top.done
      BY ONLY <3>1, top \in FrameT DEF FrameT
    <3> QED
      BY <3>2
  <2>3. /\ [mid EXCEPT !.todo = T] \in FrameT /\ [mid EXCEPT !.todo = T].todo = T
        /\ [mid EXCEPT !.todo = T].args = mid.args /\ [mid EXCEPT !.todo = T].lent = mid.lent
        /\ [mid EXCEPT !.todo = T].done = mid.done
    BY ONLY mid \in FrameT, T \in Seq(Steps) DEF FrameT
  <2>4. [Top EXCEPT !.args = {d, id}, !.todo = T] = [mid EXCEPT !.todo = T]
    BY <2>1, <2>2
  <2> QED
    BY <1>5, <2>1, <2>2, <2>3, <2>4
<1>14. frames' = [frames EXCEPT ![Len(frames)] = fr]
  BY <1>2, <1>6, <1>10, <1>13 DEF Top
<1>15. FrameOK(Len(frames), fr)
  <2>1. Ending(fr)
    BY <1>11, <1>13 DEF Ending
  <2>2. \A j \in DOMAIN fr.todo : fr.todo[j].op = "addref" =>
          /\ j = Len(fr.todo) /\ fr.todo[j].of \in fr.args
          /\ \E e \in fr.args : Stores(var_ht', e, fr.todo[j].of)
    BY <1>9, <1>11, <1>13
  <2>3. fr.args # {} => \E j \in DOMAIN fr.todo : fr.todo[j].op = "addref"
    BY <1>11, <1>13
  <2>4. \A e \in fr.args : owned'[e] > 0 \/ fr.lent = e
    BY <1>2, <1>3, <1>13
  <2>5. Setting(fr, var_ht', owned')
    BY <2>2, <2>3, <2>4 DEF Setting
  <2> QED
    BY <1>6, <2>1, <2>5 DEF FrameOK
<1>16. /\ frames' \in Seq(FrameT) /\ Frames'
       /\ \A st : Pend(frames', st) = Pend(frames, st) + CountOf(fr.todo, st) - CountOf(Top.todo, st)
       /\ \A i : Lent(frames', i) = Lent(frames, i) + One(fr.lent = i) - One(Top.lent = i)
  <2>1. /\ frames' \in Seq(FrameT) /\ Frames'
        /\ \A st : /\ Pend(frames', st) = Pend(frames, st) + CountOf(fr.todo, st) - CountOf(Top.todo, st)
                   /\ CountOf(Top.todo, st) \in Nat
        /\ \A i : Lent(frames', i) = Lent(frames, i) + One(fr.lent = i) - One(Top.lent = i)
    BY ONLY VarInv, <1>5, <1>6, <1>14, <1>15, TopSet, fr \in FrameT
  <2> QED
    BY <2>1
<1>17. \A st : /\ Pend(frames', st) =
                    Pend(frames, st) + One(Step("release", old) = st) + One(Step("addref", id) = st)
               /\ Pend(frames, st) \in Nat
  <2> SUFFICES ASSUME NEW st
               PROVE  /\ Pend(frames', st) =
                           Pend(frames, st) + One(Step("release", old) = st) + One(Step("addref", id) = st)
                      /\ Pend(frames, st) \in Nat
    OBVIOUS
  <2>1. Pend(frames, st) \in Nat /\ CountOf(Top.todo, st) = 0
    BY <1>5, <1>6, PlacesFinite, CountEmpty
  <2>2. CountOf(fr.todo, st) = One(Step("release", old) = st) + One(Step("addref", id) = st)
    BY <1>12, <1>13
  <2>3. Pend(frames', st) = Pend(frames, st) + CountOf(fr.todo, st) - 0
    BY <1>16, <2>1
  <2>4. PICK a, b \in {0, 1} : a = One(Step("release", old) = st) /\ b = One(Step("addref", id) = st)
    BY DEF One
  <2> QED
    BY <2>1, <2>2, <2>3, <2>4
<1>18. \A o \in NPObjects : Pend(frames', Step("dealloc", o)) = Pend(frames, Step("dealloc", o))
  <2> SUFFICES ASSUME NEW o \in NPObjects
               PROVE  Pend(frames', Step("dealloc", o)) = Pend(frames, Step("dealloc", o))
    OBVIOUS
  <2>1. /\ One(Step("release", old) = Step("dealloc", o)) = 0
        /\ One(Step("addref", id) = Step("dealloc", o)) = 0
    BY StepIs DEF One
  <2> QED
    BY <1>17, <2>1
<1>19. NPRefsExact' /\ ProxiesAreMapped' /\ np' \in [NPObjects -> NPT] /\ Kinds'
  BY <1>2, <1>9, <1>18, ObjectsKept, ShapeGives
<1>20. ASSUME NEW i \in Ids PROVE Balanced(i)
  <2>1. PICK one \in {0, 1} : one = One(id = i) /\ (i \notin DOMAIN var_ht => one = 0)
    BY DEF One
  <2>2. PICK two \in {0, 1} : two = One(old = i) /\ (i \notin DOMAIN var_ht => two = 0)
    BY <1>4 DEF One
  <2>3. PICK sl \in {-1, 0, 1} : sl = one - two
    <3>1. one - two \in {-1, 0, 1}
      OBVIOUS
    <3> QED
      BY <3>1
  <2>4. Delta(i, 0, 0, sl, 0, 0, two, one, 0)
    <3>1. i \in DOMAIN var_ht => var_ht'[i].ref_count = var_ht[i].ref_count + 0
      BY <1>9, NoneIsNoId
    <3>2. SlotCount(var_ht', i) = SlotCount(var_ht, i) + sl
      <4>1. SlotCount(var_ht, i) \in Nat /\ SlotCount(var_ht', i) = SlotCount(var_ht, i) + one - two
        BY <1>9, <2>1, <2>2, HoldParts
      <4> QED
        BY <2>3, <4>1
    <3>3. /\ owned'[i] = owned[i] + 0 /\ ProxyCount(proxy', i) = ProxyCount(proxy, i) + 0
          /\ lost'[i] = lost[i] + 0
      BY <1>2, HoldParts
    <3>4. Lent(frames', i) = Lent(frames, i) + 0
      <4>1. Lent(frames', i) = Lent(frames, i) + One(Top.lent = i) - One(Top.lent = i)
        BY <1>13, <1>16
      <4>2. Lent(frames, i) \in Nat /\ One(Top.lent = i) \in {0, 1}
        BY HoldParts DEF One
      <4> QED
        BY <4>1, <4>2
    <3>5. /\ One(Step("release", old) = Step("release", i)) = two
          /\ One(Step("addref", id) = Step("release", i)) = 0
          /\ One(Step("release", old) = Step("addref", i)) = 0
          /\ One(Step("addref", id) = Step("addref", i)) = one
      BY <2>1, <2>2, StepIs DEF One
    <3>6. /\ Pend(frames', Step("release", i)) = Pend(frames, Step("release", i)) + two
          /\ Pend(frames', Step("addref", i)) = Pend(frames, Step("addref", i)) + one
      BY <1>17, <3>5
    <3> QED
      BY <3>1, <3>2, <3>3, <3>4, <3>6 DEF Delta
  <2>5. /\ 0 = 0 + sl + 0 + 0 + two + 0 - one /\ sl \in Int /\ one \in Int /\ two \in Int /\ 0 \in Int
        /\ i \notin DOMAIN var_ht => 0 + sl + 0 + 0 + two = 0 /\ 0 = 0
    BY <2>1, <2>2, <2>3
  <2> QED
    BY <2>4, <2>5, BalancedBy
<1> QED
  BY <1>2, <1>5, <1>9, <1>16, <1>19, <1>20, QuietStep, InvGives

-----------------------------------------------------------------------------
(* A method returns *)

ArgSteps(lent) == IF lent = None THEN <<>> ELSE <<Step("release", lent)>>
ResultSteps(res) == IF res = None THEN <<>> ELSE <<Step("tonp", res), Step("release", res)>>

LEMMA ArgStepsIs ==
  ASSUME NEW l \in Ids \cup {None}
  PROVE  /\ ArgSteps(l) \in Seq(Steps) /\ \A j \in DOMAIN ArgSteps(l) : ArgSteps(l)[j].op = "release"
         /\ \A i \in Ids : /\ CountOf(ArgSteps(l), Step("release", i)) = One(l = i)
                           /\ CountOf(ArgSteps(l), Step("addref", i)) = 0
         /\ \A o \in NPObjects : CountOf(ArgSteps(l), Step("dealloc", o)) = 0
<1>1. CASE l = None
  BY <1>1, CountEmpty, NoneIsNoId DEF ArgSteps
<1>2. CASE l # None
  <2>1. ArgSteps(l) = <<Step("release", l)>> /\ l \in Ids
    BY <1>2 DEF ArgSteps
  <2>2. ArgSteps(l) \in Seq(Steps) /\ \A j \in DOMAIN ArgSteps(l) : ArgSteps(l)[j].op = "release"
    <3>1. Step("release", l) \in Steps /\ Step("release", l).op = "release"
      BY <2>1, StepIs
    <3> QED
      BY <2>1, <3>1
  <2>3. \A st : CountOf(ArgSteps(l), st) = One(Step("release", l) = st)
    BY <2>1, CountOne
  <2>4. /\ \A i : /\ One(Step("release", l) = Step("release", i)) = One(l = i)
                  /\ One(Step("release", l) = Step("addref", i)) = 0
        /\ \A o : One(Step("release", l) = Step("dealloc", o)) = 0
    BY StepIs DEF One
  <2> QED
    BY <2>2, <2>3, <2>4
<1> QED
  BY <1>1, <1>2

LEMMA TwoSteps ==
  ASSUME NEW S, NEW a \in S, NEW b \in S, NEW T \in Seq(S), T = <<a, b>> PROVE T = <<a>> \o <<b>>
<1>1. <<a>> \in Seq(S) /\ <<b>> \in Seq(S) /\ Len(<<a>>) = 1 /\ Len(<<b>>) = 1
  OBVIOUS
<1>2. /\ <<a>> \o <<b>> \in Seq(S) /\ Len(<<a>> \o <<b>>) = 2
      /\ (<<a>> \o <<b>>)[1] = a /\ (<<a>> \o <<b>>)[2] = b
  BY <1>1, ConcatProperties
<1>3. PICK U \in Seq(S) : U = <<a>> \o <<b>>
  BY <1>2
<1>4. T[1] = a /\ T[2] = b /\ Len(T) = 2 /\ U[1] = a /\ U[2] = b /\ Len(U) = 2
  BY <1>2, <1>3
<1>5. \A i \in 1 .. Len(T) : T[i] = U[i]
  BY <1>4
<1>6. T = U
  BY <1>4, <1>5, SeqEqual
<1> QED
  BY <1>3, <1>6

LEMMA ResultStepsIs ==
  ASSUME NEW r \in Ids \cup {None}
  PROVE  /\ ResultSteps(r) \in Seq(Steps)
         /\ \A j \in DOMAIN ResultSteps(r) :
              /\ ResultSteps(r)[j].op \in {"release", "tonp"}
              /\ ResultSteps(r)[j].op = "tonp" =>
                   /\ j < Len(ResultSteps(r))
                   /\ ResultSteps(r)[j + 1] = Step("release", ResultSteps(r)[j].of)
         /\ \A i \in Ids : /\ CountOf(ResultSteps(r), Step("release", i)) = One(r = i)
                           /\ CountOf(ResultSteps(r), Step("addref", i)) = 0
         /\ \A o \in NPObjects : CountOf(ResultSteps(r), Step("dealloc", o)) = 0
<1>1. CASE r = None
  BY <1>1, CountEmpty, NoneIsNoId DEF ResultSteps
<1>2. CASE r # None
  <2>1. PICK a, b \in Steps : a = Step("tonp", r) /\ b = Step("release", r)
    BY <1>2, StepIs
  <2>2. a.op = "tonp" /\ a.of = r /\ b.op = "release"
    BY <2>1, StepIs
  <2>3. PICK T \in Seq(Steps) : T = ResultSteps(r) /\ T = <<a, b>>
    <3>1. ResultSteps(r) = <<a, b>> /\ <<a, b>> \in Seq(Steps)
      BY <1>2, <2>1 DEF ResultSteps
    <3> QED
      BY <3>1
  <2>4. DOMAIN T = {1, 2} /\ Len(T) = 2 /\ T[1] = a /\ T[2] = b
    BY <2>3
  <2>5. \A j \in DOMAIN T :
          /\ T[j].op \in {"release", "tonp"}
          /\ T[j].op = "tonp" => j < Len(T) /\ T[j + 1] = Step("release", T[j].of)
    BY <2>1, <2>2, <2>4
  <2>6. \A st : CountOf(T, st) = One(a = st) + One(b = st)
    <3>1. T = <<a>> \o <<b>> /\ <<a>> \in Seq(Steps) /\ <<b>> \in Seq(Steps)
      <4>1. <<a>> \in Seq(Steps) /\ <<b>> \in Seq(Steps)
        BY ONLY a \in Steps, b \in Steps
      <4> QED
        BY <2>3, <4>1, TwoSteps
    <3>2. \A st : CountOf(T, st) = CountOf(<<a>>, st) + CountOf(<<b>>, st)
      BY <3>1, CountConcat
    <3> QED
      BY <3>2, CountOne
  <2>7. /\ \A i : /\ One(a = Step("release", i)) = 0 /\ One(b = Step("release", i)) = One(r = i)
                  /\ One(a = Step("addref", i)) = 0 /\ One(b = Step("addref", i)) = 0
        /\ \A o : One(a = Step("dealloc", o)) = 0 /\ One(b = Step("dealloc", o)) = 0
    BY <2>1, StepIs DEF One
  <2>8. \A i \in Ids : CountOf(T, Step("release", i)) = One(r = i) /\ CountOf(T, Step("addref", i)) = 0
    <3> SUFFICES ASSUME NEW i \in Ids
                 PROVE  CountOf(T, Step("release", i)) = One(r = i) /\ CountOf(T, Step("addref", i)) = 0
      OBVIOUS
    <3>1. One(r = i) \in {0, 1}
      BY DEF One
    <3> QED
      BY <2>6, <2>7, <3>1
  <2>9. \A o \in NPObjects : CountOf(T, Step("dealloc", o)) = 0
    BY <2>6, <2>7
  <2> QED
    BY <2>3, <2>5, <2>8, <2>9
<1> QED
  BY <1>1, <1>2

(* The steps that a returning method leaves. *)
(* What a callback that returns has still to do. *)
EndSteps(T, l, r) ==
  /\ T \in Seq(Steps)
  /\ T = ArgSteps(l) \o ResultSteps(r)
  /\ \A j \in DOMAIN T :
       /\ T[j].op \in {"release", "tonp"}
       /\ T[j].op = "tonp" => j < Len(T) /\ T[j + 1] = Step("release", T[j].of)
  /\ \A i \in Ids : /\ CountOf(T, Step("release", i)) = One(l = i) + One(r = i)
                    /\ CountOf(T, Step("addref", i)) = 0
  /\ \A o \in NPObjects : CountOf(T, Step("dealloc", o)) = 0

LEMMA EndStepsIs ==
  ASSUME NEW l \in Ids \cup {None}, NEW r \in Ids \cup {None} PROVE \E T : EndSteps(T, l, r)
<1>1. PICK T : T = ArgSteps(l) \o ResultSteps(r)
  OBVIOUS
<1>2. PICK A \in Seq(Steps) :
        /\ A = ArgSteps(l) /\ \A j \in DOMAIN A : A[j].op = "release"
        /\ \A i \in Ids : CountOf(A, Step("release", i)) = One(l = i) /\ CountOf(A, Step("addref", i)) = 0
        /\ \A o \in NPObjects : CountOf(A, Step("dealloc", o)) = 0
  BY ArgStepsIs
<1>3. PICK R \in Seq(Steps) :
        /\ R = ResultSteps(r)
        /\ \A j \in DOMAIN R :
             /\ R[j].op \in {"release", "tonp"}
             /\ R[j].op = "tonp" => j < Len(R) /\ R[j + 1] = Step("release", R[j].of)
        /\ \A i \in Ids : CountOf(R, Step("release", i)) = One(r = i) /\ CountOf(R, Step("addref", i)) = 0
        /\ \A o \in NPObjects : CountOf(R, Step("dealloc", o)) = 0
  BY ResultStepsIs
<1>4. PICK m, n \in Nat : m = Len(A) /\ n = Len(R) /\ DOMAIN A = 1 .. m /\ DOMAIN R = 1 .. n
  <2>1. Len(A) \in Nat /\ Len(R) \in Nat /\ DOMAIN A = 1 .. Len(A) /\ DOMAIN R = 1 .. Len(R)
    BY LenProperties
  <2> QED
    BY <2>1
<1>5. /\ T \in Seq(Steps) /\ Len(T) = m + n /\ DOMAIN T = 1 .. m + n
      /\ \A j \in 1 .. m + n : T[j] = IF j <= m THEN A[j] ELSE R[j - m]
  <2>1. T = A \o R
    BY <1>2, <1>3, <1>1
  <2>2. /\ A \o R \in Seq(Steps) /\ Len(A \o R) = m + n
        /\ \A j \in 1 .. m + n : (A \o R)[j] = IF j <= m THEN A[j] ELSE R[j - m]
    BY <1>4, ConcatProperties
  <2> QED
    BY <2>1, <2>2, LenProperties
<1>6. ASSUME NEW j \in DOMAIN T
      PROVE  /\ T[j].op \in {"release", "tonp"}
             /\ T[j].op = "tonp" => j < Len(T) /\ T[j + 1] = Step("release", T[j].of)
  <2>1. CASE j <= m
    <3>1. j \in DOMAIN A /\ T[j] = A[j]
      BY <1>4, <1>5, <2>1
    <3> QED
      BY <1>2, <3>1
  <2>2. CASE ~(j <= m)
    <3>1. PICK k \in 1 .. n : k = j - m
      BY <1>5, <2>2
    <3>2. T[j] = R[k] /\ k \in DOMAIN R
      BY <1>4, <1>5, <2>2, <3>1
    <3>3. ASSUME k < n PROVE j < Len(T) /\ T[j + 1] = R[k + 1]
      <4>1. j + 1 \in 1 .. m + n /\ ~(j + 1 <= m) /\ (j + 1) - m = k + 1 /\ j < m + n
        <5>1. j \in 1 .. m + n
          BY <1>5
        <5> QED
          BY ONLY <2>2, <3>1, <3>3, <5>1, k \in 1 .. n, m \in Nat, n \in Nat
      <4> QED
        BY <1>5, <4>1
    <3>4. /\ R[k].op \in {"release", "tonp"}
          /\ R[k].op = "tonp" => k < n /\ R[k + 1] = Step("release", R[k].of)
      BY <1>3, <1>4, <3>2
    <3> QED
      BY <3>2, <3>3, <3>4
  <2> QED
    BY <2>1, <2>2
<1>7. \A st : CountOf(T, st) = CountOf(A, st) + CountOf(R, st)
  BY <1>2, <1>3, <1>1, CountConcat
<1>8. ASSUME NEW i \in Ids
      PROVE  /\ CountOf(T, Step("release", i)) = One(l = i) + One(r = i)
             /\ CountOf(T, Step("addref", i)) = 0
  BY <1>2, <1>3, <1>7
<1>9. \A o \in NPObjects : CountOf(T, Step("dealloc", o)) = 0
  BY <1>2, <1>3, <1>7
<1>10. EndSteps(T, l, r)
  BY <1>5, <1>6, <1>8, <1>9, <1>1 DEF EndSteps
<1> QED
  BY <1>10

LEMMA ReturnKeeps ==
  ASSUME VarInv, NEW res \in {None} \cup Ids, Return(res) PROVE VarInv'
<1>1. /\ frames # <<>> /\ Top.todo = <<>> /\ Top.args = {} /\ Top.done = FALSE /\ Top \in FrameT
      /\ frames \in Seq(FrameT)
  BY RunningIs, InvGives DEF Return
<1>2. PICK l \in Ids \cup {None} : l = Top.lent
  BY <1>1 DEF FrameT
<1>3. PICK T : EndSteps(T, l, res)
  BY EndStepsIs
<1>4. /\ T \in Seq(Steps) /\ T = ArgSteps(l) \o ResultSteps(res)
      /\ \A j \in DOMAIN T :
           /\ T[j].op \in {"release", "tonp"}
           /\ T[j].op = "tonp" => j < Len(T) /\ T[j + 1] = Step("release", T[j].of)
      /\ \A i \in Ids : /\ CountOf(T, Step("release", i)) = One(l = i) + One(res = i)
                        /\ CountOf(T, Step("addref", i)) = 0
      /\ \A o \in NPObjects : CountOf(T, Step("dealloc", o)) = 0
  BY <1>3 DEF EndSteps
<1>5. PICK fr : fr = [todo |-> T, lent |-> None, args |-> {}, done |-> TRUE]
  OBVIOUS
<1>6. /\ frames' = IF T = <<>> THEN Under(frames) ELSE [frames EXCEPT ![Len(frames)] = fr]
      /\ owned' = IF res = None THEN owned ELSE [owned EXCEPT ![res] = @ - 1]
      /\ UNCHANGED <<var_ht, var_id, lost, np, proxy, calls>>
      /\ res # None => MayDrop(res)
  BY <1>2, <1>4, <1>5 DEF Return, ArgSteps, ResultSteps, Under
<1>7. /\ fr \in FrameT /\ fr.todo = T /\ fr.lent = None /\ fr.args = {} /\ fr.done = TRUE
  BY <1>5, <1>4 DEF FrameT
<1>8. ShapeKept /\ StoresKept
  BY <1>6, SameTable
<1>9. /\ Kept /\ owned' \in [Ids -> Nat] /\ \A i \in Ids : owned'[i] = owned[i] - One(res = i)
      /\ res \in Ids => res \in DOMAIN var_ht
  <2>1. CASE res = None
    <3>1. owned' = owned /\ owned \in [Ids -> Nat]
      BY <1>6, <2>1, InvGives
    <3>2. \A i \in Ids : owned[i] - One(res = i) = owned[i]
      BY <2>1, <3>1, NoneIsNoId
    <3>3. Kept
      BY <1>8, <3>1, KeepsAll
    <3> QED
      BY <2>1, <3>1, <3>2, <3>3 DEF Ids, None
  <2>2. CASE res # None
    BY <1>6, <1>8, <2>2, DropIs
  <2> QED
    BY <2>1, <2>2
<1>10. FrameOK(Len(frames), fr)
  <2>1. Ending(fr)
    BY <1>4, <1>7 DEF Ending
  <2>2. Plain(fr)
    BY <1>4, <1>7 DEF Plain
  <2> QED
    BY <2>1, <2>2, PlainSets DEF FrameOK
<1>11. /\ frames' \in Seq(FrameT) /\ Frames'
       /\ \A st : Pend(frames', st) = Pend(frames, st) + CountOf(T, st)
       /\ \A i \in Ids : Lent(frames', i) = Lent(frames, i) - One(l = i)
  <2>1. \A st : Pend(frames, st) \in Nat /\ CountOf(<<>>, st) = 0 /\ CountOf(T, st) \in Nat
    BY <1>1, <1>4, PlacesFinite, CountEmpty, CountFinite
  <2>2. \A i \in Ids : One(None = i) = 0 /\ Lent(frames, i) \in Nat /\ One(l = i) \in {0, 1}
    BY <1>1, NoneIsNoId, LentFinite DEF One
  <2>3. CASE T = <<>>
    <3>1. frames' = Under(frames) /\ Under(frames) \in Seq(FrameT)
      BY <1>1, <1>6, <2>3, UnderIs
    <3>2. Frames'
      BY <1>1, <1>9, <3>1, FramesTop
    <3>3. \A st : Pend(frames, st) = Pend(Under(frames), st) + CountOf(<<>>, st) /\ Pend(Under(frames), st) \in Nat
      BY <1>1, PendTop DEF Top
    <3>4. \A i : Lent(frames, i) = Lent(Under(frames), i) + One(l = i) /\ Lent(Under(frames), i) \in Nat
      BY <1>1, <1>2, LentTop DEF Top
    <3>5. \A st : Pend(frames', st) = Pend(frames, st) + CountOf(T, st)
      BY <2>1, <2>3, <3>1, <3>3
    <3>6. \A i \in Ids : Lent(frames', i) = Lent(frames, i) - One(l = i)
      BY <2>2, <3>1, <3>4
    <3> QED
      BY <3>1, <3>2, <3>5, <3>6
  <2>4. CASE T # <<>>
    <3>1. frames' = [frames EXCEPT ![Len(frames)] = fr]
      BY <1>6, <2>4
    <3>2. /\ frames' \in Seq(FrameT) /\ Frames'
          /\ \A st : /\ Pend(frames', st) = Pend(frames, st) + CountOf(fr.todo, st) - CountOf(Top.todo, st)
                     /\ CountOf(Top.todo, st) \in Nat
          /\ \A i : Lent(frames', i) = Lent(frames, i) + One(fr.lent = i) - One(Top.lent = i)
      BY ONLY VarInv, <1>1, <1>7, <1>9, <1>10, <3>1, TopSet
    <3>3. \A st : Pend(frames', st) = Pend(frames, st) + CountOf(T, st) - 0
      BY <1>1, <1>7, <2>1, <3>2
    <3>4. \A st : Pend(frames', st) = Pend(frames, st) + CountOf(T, st)
      BY <2>1, <3>3
    <3>5. \A i \in Ids : Lent(frames', i) = Lent(frames, i) + 0 - One(l = i)
      BY <1>2, <1>7, <2>2, <3>2
    <3>6. \A i \in Ids : Lent(frames', i) = Lent(frames, i) - One(l = i)
      BY <2>2, <3>5
    <3> QED
      BY <3>2, <3>4, <3>6
  <2> QED
    BY <2>3, <2>4
<1>12. \A o \in NPObjects : Pend(frames', Step("dealloc", o)) = Pend(frames, Step("dealloc", o))
  BY <1>1, <1>4, <1>11, PlacesFinite
<1>13. NPRefsExact' /\ ProxiesAreMapped' /\ np' \in [NPObjects -> NPT] /\ Kinds'
  BY <1>6, <1>8, <1>12, ObjectsKept, ShapeGives
<1>14. ASSUME NEW i \in Ids PROVE Balanced(i)
  <2>1. PICK one \in {0, 1} : one = One(l = i) /\ (i \notin DOMAIN var_ht => one = 0)
    <3>1. ASSUME l = i PROVE i \in DOMAIN var_ht
      <4>1. Len(frames) \in DOMAIN frames /\ frames[Len(frames)].lent = i
        BY <1>1, <1>2, <3>1, TopIsThere
      <4>2. Lent(frames, i) > 0
        BY <4>1, Holding
      <4> QED
        BY <4>2, HeldIsThere
    <3> QED
      BY <3>1 DEF One
  <2>2. PICK two \in {0, 1} : two = One(res = i) /\ (i \notin DOMAIN var_ht => two = 0)
    BY <1>9 DEF One
  <2>3. PICK mone, mtwo \in {-1, 0} : mone = 0 - one /\ mtwo = 0 - two
    <3>1. 0 - one \in {-1, 0} /\ 0 - two \in {-1, 0}
      OBVIOUS
    <3> QED
      BY <3>1
  <2>4. PICK both \in {0, 1, 2} : both = one + two
    <3>1. one + two \in {0, 1, 2}
      OBVIOUS
    <3> QED
      BY <3>1
  <2>5. Delta(i, 0, mtwo, 0, 0, mone, both, 0, 0)
    <3>1. /\ i \in DOMAIN var_ht => var_ht'[i].ref_count = var_ht[i].ref_count + 0
          /\ SlotCount(var_ht', i) = SlotCount(var_ht, i) + 0
      <4>1. var_ht' = var_ht /\ SlotCount(var_ht, i) \in Nat
        BY <1>6, HoldParts
      <4>2. i \in DOMAIN var_ht => var_ht[i].ref_count \in Nat
        BY InvGives DEF Var
      <4> QED
        BY ONLY <4>1, <4>2
    <3>2. ProxyCount(proxy', i) = ProxyCount(proxy, i) + 0 /\ lost'[i] = lost[i] + 0
      BY <1>6, HoldParts
    <3>3. owned'[i] = owned[i] + mtwo
      <4>1. owned'[i] = owned[i] - two /\ owned[i] \in Nat
        BY <1>9, <2>2, HoldParts
      <4> QED
        BY <2>3, <4>1
    <3>4. Lent(frames', i) = Lent(frames, i) + mone
      <4>1. Lent(frames', i) = Lent(frames, i) - one /\ Lent(frames, i) \in Nat
        BY <1>11, <2>1, HoldParts
      <4> QED
        BY <2>3, <4>1
    <3>5. /\ Pend(frames', Step("release", i)) = Pend(frames, Step("release", i)) + both
          /\ Pend(frames', Step("addref", i)) = Pend(frames, Step("addref", i)) + 0
      BY <1>4, <1>11, <2>1, <2>2, <2>4
    <3> QED
      BY <3>1, <3>2, <3>3, <3>4, <3>5 DEF Delta
  <2>6. /\ 0 = mtwo + 0 + 0 + mone + both + 0 - 0 /\ mone \in Int /\ mtwo \in Int /\ both \in Int /\ 0 \in Int
        /\ i \notin DOMAIN var_ht => mtwo + 0 + 0 + mone + both = 0 /\ 0 = 0
    BY <2>1, <2>2, <2>3, <2>4
  <2> QED
    BY <2>5, <2>6, BalancedBy
<1> QED
  BY <1>6, <1>8, <1>9, <1>11, <1>13, <1>14, QuietStep, InvGives

-----------------------------------------------------------------------------
(* The steps of a call in progress *)

(* The step at the head is one of those that are counted. *)
LEMMA DoingIs ==
  ASSUME VarInv, NEW op, Doing(op)
  PROVE  /\ frames # <<>> /\ Top.todo # <<>> /\ Top.todo \in Seq(Steps) /\ Top \in FrameT
         /\ frames \in Seq(FrameT)
         /\ Head(Top.todo) \in Steps /\ Head(Top.todo) = Top.todo[1]
         /\ Head(Top.todo).op = op /\ Head(Top.todo) = Step(op, Head(Top.todo).of)
         /\ Pend(frames, Head(Top.todo)) > 0
<1>1. frames # <<>> /\ Top.todo # <<>> /\ Head(Top.todo).op = op
  BY DEF Doing, InFrame
<1>2. frames \in Seq(FrameT) /\ Top \in FrameT /\ Top = frames[Len(frames)]
  BY <1>1, InvGives, TopIsThere
<1>3. Top.todo \in Seq(Steps)
  BY <1>2 DEF FrameT
<1>4. Head(Top.todo) \in Steps /\ Head(Top.todo) = Top.todo[1]
  BY <1>1, <1>3, HeadTailProperties
<1>5. Head(Top.todo) = Step(op, Head(Top.todo).of)
  BY <1>1, <1>4, StepIs
<1>6. Pend(frames, Head(Top.todo)) > 0
  <2>1. PICK st : st = Head(Top.todo)
    OBVIOUS
  <2>2. /\ Pend(frames, st) = Pend(Under(frames), st) + CountOf(Top.todo, st)
        /\ Pend(Under(frames), st) \in Nat
    BY <1>1, <1>2, PendTop
  <2>3. CountOf(Top.todo, st) = One(Head(Top.todo) = st) + CountOf(Tail(Top.todo), st)
    BY <1>1, <1>3, CountTail
  <2>4. One(Head(Top.todo) = st) = 1
    BY <2>1 DEF One
  <2>5. CountOf(Tail(Top.todo), st) \in Nat
    BY <1>1, <1>3, HeadTailProperties, CountFinite
  <2> QED
    BY <2>1, <2>2, <2>3, <2>4, <2>5
<1> QED
  BY <1>1, <1>2, <1>3, <1>4, <1>5, <1>6

(* The step at the head makes way for others. *)
LEMMA NextStepIs ==
  ASSUME VarInv, NEW op, Doing(op), op # "addref", Kept,
         NEW X \in Seq(Steps), \A j \in DOMAIN X : X[j].op \in {"release", "dealloc"},
         frames' = WithTop(X \o Tail(Top.todo))
  PROVE  /\ frames' \in Seq(FrameT) /\ Frames'
         /\ \A st : /\ Pend(frames', st) = Pend(frames, st) - One(Head(Top.todo) = st) + CountOf(X, st)
                    /\ CountOf(X, st) \in Nat
         /\ \A i \in Ids : Lent(frames', i) = Lent(frames, i)
<1>1. /\ frames # <<>> /\ Top.todo # <<>> /\ frames \in Seq(FrameT) /\ Head(Top.todo).op # "addref"
      /\ Top.done => Top.lent = None
  BY DoingIs, TopIsThere DEF Ending
<1>2. PICK T \in Seq(Steps) :
        /\ T = X \o Tail(Top.todo)
        /\ FrameOK(Len(frames), [Top EXCEPT !.todo = T])
        /\ \A st : /\ CountOf(T, st) = CountOf(X, st) + CountOf(Tail(Top.todo), st)
                   /\ CountOf(Top.todo, st) = One(Head(Top.todo) = st) + CountOf(Tail(Top.todo), st)
                   /\ CountOf(X, st) \in Nat /\ CountOf(Tail(Top.todo), st) \in Nat
  BY <1>1, RestIs
<1>3. /\ frames' \in Seq(FrameT)
      /\ frames' = Under(frames) \/ TopIs(frames', [Top EXCEPT !.todo = T])
      /\ \A st : Pend(frames', st) = Pend(Under(frames), st) + CountOf(T, st)
      /\ \A i \in Ids : Lent(frames', i) = Lent(frames, i)
  BY <1>1, <1>2, WithTopIs
<1>4. Frames'
  BY <1>1, <1>2, <1>3, FramesTop
<1>5. ASSUME NEW st
      PROVE  Pend(frames', st) = Pend(frames, st) - One(Head(Top.todo) = st) + CountOf(X, st)
  <2>1. /\ Pend(frames, st) = Pend(Under(frames), st) + CountOf(Top.todo, st)
        /\ Pend(Under(frames), st) \in Nat
    BY <1>1, PendTop DEF Top
  <2>2. One(Head(Top.todo) = st) \in {0, 1}
    BY DEF One
  <2> QED
    BY <1>2, <1>3, <2>1, <2>2
<1> QED
  BY <1>2, <1>3, <1>4, <1>5

(* The step at the head is done. *)
LEMMA NextStepOnly ==
  ASSUME VarInv, NEW op, Doing(op), op # "addref", Kept, frames' = WithTop(Tail(Top.todo))
  PROVE  /\ frames' \in Seq(FrameT) /\ Frames'
         /\ \A st : Pend(frames', st) = Pend(frames, st) - One(Head(Top.todo) = st)
         /\ \A i \in Ids : Lent(frames', i) = Lent(frames, i)
<1>1. PICK X \in Seq(Steps) : X = <<>>
  <2>1. <<>> \in Seq(Steps)
    OBVIOUS
  <2> QED
    BY <2>1
<1>2. \A j \in DOMAIN X : X[j].op \in {"release", "dealloc"}
  BY <1>1
<1>3. Tail(Top.todo) \in Seq(Steps) /\ frames \in Seq(FrameT)
  BY DoingIs, HeadTailProperties
<1>4. X \o Tail(Top.todo) = Tail(Top.todo)
  BY <1>1, <1>3, ConcatEmptySeq
<1>5. /\ frames' \in Seq(FrameT) /\ Frames'
      /\ \A st : Pend(frames', st) = Pend(frames, st) - One(Head(Top.todo) = st) + CountOf(X, st)
      /\ \A i \in Ids : Lent(frames', i) = Lent(frames, i)
  BY <1>2, <1>4, NextStepIs
<1>6. ASSUME NEW st PROVE Pend(frames', st) = Pend(frames, st) - One(Head(Top.todo) = st)
  <2>1. CountOf(X, st) = 0 /\ Pend(frames, st) \in Nat /\ One(Head(Top.todo) = st) \in {0, 1}
    BY <1>1, <1>3, CountEmpty, PlacesFinite DEF One
  <2> QED
    BY <1>5, <2>1
<1> QED
  BY <1>5, <1>6

(* Nothing changes that is counted. *)
LEMMA SameCounts ==
  ASSUME VarInv, NEW i \in Ids, UNCHANGED <<var_ht, owned, lost>>,
         ProxyCount(proxy', i) = ProxyCount(proxy, i), Lent(frames', i) = Lent(frames, i),
         Pend(frames', Step("release", i)) = Pend(frames, Step("release", i)),
         Pend(frames', Step("addref", i)) = Pend(frames, Step("addref", i))
  PROVE  Balanced(i)
<1>1. i \in DOMAIN var_ht => var_ht[i].ref_count \in Nat
  BY InvGives DEF Var
<1>2. Delta(i, 0, 0, 0, 0, 0, 0, 0, 0)
  BY <1>1, HoldParts DEF Delta, Adding
<1>3. 0 \in Int /\ 0 = 0 + 0 + 0 + 0 + 0 + 0 - 0
  OBVIOUS
<1> QED
  BY <1>2, <1>3, BalancedBy

(* A variable loses a reference that is not the last one. *)
LEMMA LoseIs ==
  ASSUME VarInv, NEW id \in DOMAIN var_ht, ~Gone(id), var_ht' = Released(id)
  PROVE  /\ ShapeKept /\ StoresKept
         /\ \A j \in DOMAIN var_ht : var_ht'[j].ref_count = var_ht[j].ref_count - One(id = j)
         /\ \A i : SlotCount(var_ht', i) = SlotCount(var_ht, i)
<1>1. var_ht' = [var_ht EXCEPT ![id].ref_count = @ - 1]
  BY DEF Released
<1>2. var_ht[id] \in Var /\ var_ht[id].ref_count - 1 \in Nat \ {0} /\ Table(var_ht)
  BY InvGives, StaysIs
<1>3. PICK v : v = [var_ht[id] EXCEPT !.ref_count = @ - 1]
  OBVIOUS
<1>4. /\ v \in Var /\ v.type = var_ht[id].type /\ v.obj = var_ht[id].obj
      /\ v.slots = var_ht[id].slots /\ v.ref_count = var_ht[id].ref_count - 1
  BY <1>2, <1>3 DEF Var
<1>5. var_ht' = [var_ht EXCEPT ![id] = v]
  BY <1>1, <1>3
<1>6. /\ DOMAIN var_ht' = DOMAIN var_ht /\ var_ht'[id] = v
      /\ \A j \in DOMAIN var_ht : j # id => var_ht'[j] = var_ht[j]
  BY <1>5
<1>7. ShapeKept
  BY <1>2, <1>4, <1>6 DEF ShapeKept, Table
<1>8. StoresKept
  BY <1>4, <1>6 DEF StoresKept, Stores
<1>9. ASSUME NEW j \in DOMAIN var_ht PROVE var_ht'[j].ref_count = var_ht[j].ref_count - One(id = j)
  <2>1. var_ht[j].ref_count \in Nat
    BY <1>2 DEF Table, Var
  <2> QED
    BY <1>4, <1>6, <2>1 DEF One
<1>10. \A i : SlotCount(var_ht', i) = SlotCount(var_ht, i)
  <2>1. \A j \in DOMAIN var_ht : var_ht'[j].slots = var_ht[j].slots /\ var_ht'[j].obj = var_ht[j].obj
    BY <1>4, <1>6
  <2> QED
    BY <1>6, <2>1, TableSame
<1> QED
  BY <1>7, <1>8, <1>9, <1>10

(* The last reference: the variable goes and what it holds is released. *)
LEMMA LastReleaseKeeps ==
  ASSUME VarInv, ReleaseStep, Gone(Head(Top.todo).of) PROVE VarInv'
<1>1. PICK id : id = Head(Top.todo).of
  OBVIOUS
<1>2. /\ Doing("release") /\ var_ht' = Released(id) /\ Gone(id)
      /\ \E order \in Orders(var_ht[id]) :
           frames' = WithTop(Freeing(var_ht[id], order) \o Tail(Top.todo))
      /\ UNCHANGED <<var_id, owned, lost, np, proxy, calls>>
  BY <1>1 DEF ReleaseStep
<1>3. /\ frames # <<>> /\ frames \in Seq(FrameT) /\ Head(Top.todo) \in Steps
      /\ Head(Top.todo) = Step("release", id) /\ Pend(frames, Step("release", id)) > 0
  BY <1>1, <1>2, DoingIs
<1>4. id \in Ids
  BY <1>3, StepIs DEF Steps
<1>5. /\ id \in DOMAIN var_ht /\ Hold(id) = 1 /\ Adding(id) = 0
      /\ frames # <<>> => id \notin frames[1].args
  BY <1>2, <1>3, <1>4, GoneIs
<1>6. var_ht' = Drop(var_ht, id) /\ Table(var_ht) /\ var_ht[id] \in Var
  BY <1>2, <1>5, InvGives DEF Released
<1>7. /\ DOMAIN var_ht' = DOMAIN var_ht \ {id} /\ \A j \in DOMAIN var_ht' : var_ht'[j] = var_ht[j]
      /\ Table(var_ht')
      /\ \A o : ObjCount(var_ht', o) = ObjCount(var_ht, o) - One(var_ht[id].obj = o)
  <2>1. LET hu == Drop(var_ht, id) IN
          /\ DOMAIN hu = DOMAIN var_ht \ {id} /\ \A j \in DOMAIN hu : hu[j] = var_ht[j]
          /\ Table(hu)
          /\ \A o : ObjCount(hu, o) = ObjCount(var_ht, o) - One(var_ht[id].obj = o)
    BY <1>5, <1>6, TableDrop
  <2> QED
    BY <1>6, <2>1
<1>8. PICK X \in Seq(Steps) :
        /\ frames' = WithTop(X \o Tail(Top.todo))
        /\ \A j \in DOMAIN X : X[j].op \in {"release", "dealloc"}
        /\ \A i \in Ids : /\ CountOf(X, Step("release", i)) = CountOf(var_ht[id].slots, i)
                          /\ CountOf(X, Step("addref", i)) = 0
        /\ \A o \in NPObjects : CountOf(X, Step("dealloc", o)) = One(var_ht[id].obj = o)
  BY <1>2, <1>6, FreeingIs
<1>9. Kept
  <2>1. ASSUME frames # <<>>, NEW d \in frames[1].args, NEW e, Stores(var_ht, d, e)
        PROVE  Stores(var_ht', d, e)
    <3>1. d # id /\ d \in DOMAIN var_ht
      BY <1>5, <2>1 DEF Stores
    <3>2. d \in DOMAIN var_ht' /\ var_ht'[d] = var_ht[d]
      BY <1>7, <3>1
    <3> QED
      BY <2>1, <3>2 DEF Stores
  <2>2. owned' = owned
    BY <1>2
  <2> QED
    BY <2>1, <2>2 DEF Kept, Keeps
<1>10. /\ frames' \in Seq(FrameT) /\ Frames'
       /\ \A st : /\ Pend(frames', st) = Pend(frames, st) - One(Head(Top.todo) = st) + CountOf(X, st)
                  /\ CountOf(X, st) \in Nat
       /\ \A i \in Ids : Lent(frames', i) = Lent(frames, i)
  BY <1>2, <1>8, <1>9, NextStepIs
<1>11. NextTyped
  BY <1>2, <1>7, <1>10, InvGives DEF NextTyped, Typed
<1>12. CountsNext
  <2>1. ASSUME NEW i \in Ids
        PROVE  /\ Pend(frames', Step("addref", i)) = Pend(frames, Step("addref", i))
               /\ ProxyCount(proxy', i) + Pend(frames', Step("release", i)) =
                    ProxyCount(proxy, i) + Pend(frames, Step("release", i))
                    - One(i = id) + CountOf(var_ht[id].slots, i)
    <3>1. One(Step("release", id) = Step("addref", i)) = 0 /\ One(Step("release", id) = Step("release", i)) = One(i = id)
      BY StepIs DEF One
    <3>2. /\ ProxyCount(proxy, i) \in Nat /\ Pend(frames, Step("release", i)) \in Nat
          /\ Pend(frames, Step("addref", i)) \in Nat /\ One(i = id) \in {0, 1}
      BY HoldParts DEF Adding, One
    <3>3. /\ Pend(frames', Step("release", i)) = Pend(frames, Step("release", i)) - One(i = id) + CountOf(var_ht[id].slots, i)
          /\ Pend(frames', Step("addref", i)) = Pend(frames, Step("addref", i)) - 0 + 0
          /\ CountOf(var_ht[id].slots, i) \in Nat
      BY <1>3, <1>8, <1>10, <3>1
    <3> QED
      BY <1>2, <3>2, <3>3
  <2> QED
    BY <1>2, <1>3, <1>4, <1>6, <1>10, <1>11, <2>1, CountsDrop
<1>13. Kinds'
  <2>1. ASSUME NEW x \in Proxies PROVE proxy[x].ppobj # id
    <3>1. SUFFICES ASSUME proxy[x].ppobj = id PROVE FALSE
      OBVIOUS
    <3>2. ProxyCount(proxy, id) > 0
      BY <1>4, <3>1, Holding
    <3>3. /\ owned[id] \in Nat /\ SlotCount(var_ht, id) \in Nat /\ ProxyCount(proxy, id) \in Nat
          /\ Lent(frames, id) \in Nat /\ Pend(frames, Step("release", id)) \in Nat
          /\ Hold(id) = owned[id] + SlotCount(var_ht, id) + ProxyCount(proxy, id)
                        + Lent(frames, id) + Pend(frames, Step("release", id))
      BY <1>4, HoldParts
    <3> QED
      BY ONLY <1>3, <1>5, <3>2, <3>3
  <2> QED
    BY <1>2, <1>7, <2>1, InvGives DEF Kinds
<1>14. NPRefsExact'
  <2> SUFFICES ASSUME NEW o \in NPObjects
               PROVE  np'[o].refs = np'[o].script + Pend(frames', Step("dealloc", o)) + ObjCount(var_ht', o)
    BY Counted
  <2>1. One(Step("release", id) = Step("dealloc", o)) = 0 /\ One(var_ht[id].obj = o) \in {0, 1}
    BY StepIs DEF One
  <2>2. /\ Pend(frames, Step("dealloc", o)) \in Nat /\ ObjCount(var_ht, o) \in Nat /\ np[o].script \in Nat
    BY <1>3, <1>6, PlacesFinite, ObjsFinite, InvGives DEF NPT
  <2>3. Pend(frames', Step("dealloc", o)) = Pend(frames, Step("dealloc", o)) - 0 + One(var_ht[id].obj = o)
    BY <1>3, <1>8, <1>10, <2>1
  <2>4. /\ np'[o].refs = np[o].script + Pend(frames, Step("dealloc", o)) + ObjCount(var_ht, o)
        /\ np'[o].script = np[o].script
    BY <1>2, InvGives
  <2>5. PICK one \in {0, 1} : one = One(var_ht[id].obj = o)
    BY <2>1
  <2>6. /\ ObjCount(var_ht', o) = ObjCount(var_ht, o) - one
        /\ Pend(frames', Step("dealloc", o)) = Pend(frames, Step("dealloc", o)) - 0 + one
    BY <1>7, <2>3, <2>5
  <2>7. PICK n \in Nat : n = Pend(frames, Step("dealloc", o)) /\ Pend(frames', Step("dealloc", o)) = n + one
    BY <2>2, <2>6
  <2>8. PICK k \in Nat : k = ObjCount(var_ht, o) /\ ObjCount(var_ht', o) = k - one
    BY <2>2, <2>6
  <2>9. PICK m \in Nat : m = np[o].script
    BY <2>2
  <2>10. np'[o].refs = m + n + k /\ np'[o].script = m
    BY <2>4, <2>7, <2>8, <2>9
  <2>11. m + n + k = m + (n + one) + (k - one)
    OBVIOUS
  <2> QED
    BY <2>7, <2>8, <2>10, <2>11
<1>15. ProxiesAreMapped'
  BY <1>2, <1>7, InvGives DEF ProxiesAreMapped
<1>16. TypeOK'
  BY <1>2, <1>11, TypeParts, InvGives DEF NextTyped
<1> QED
  BY <1>10, <1>12, <1>13, <1>14, <1>15, <1>16, Whole

(* Another reference is left. *)
LEMMA ReleaseStepKeeps ==
  ASSUME VarInv, ReleaseStep, ~Gone(Head(Top.todo).of) PROVE VarInv'
<1>1. PICK id : id = Head(Top.todo).of
  OBVIOUS
<1>2. /\ Doing("release") /\ var_ht' = Released(id) /\ ~Gone(id)
      /\ frames' = WithTop(Tail(Top.todo))
      /\ UNCHANGED <<var_id, owned, lost, np, proxy, calls>>
  BY <1>1 DEF ReleaseStep
<1>3. /\ frames # <<>> /\ frames \in Seq(FrameT) /\ Head(Top.todo) \in Steps
      /\ Head(Top.todo) = Step("release", id) /\ Pend(frames, Step("release", id)) > 0
  BY <1>1, <1>2, DoingIs
<1>4. id \in Ids
  BY <1>3, StepIs DEF Steps
<1>5. id \in DOMAIN var_ht
  BY <1>3, <1>4, HeldIsThere
<1>6. /\ ShapeKept /\ StoresKept
      /\ \A j \in DOMAIN var_ht : var_ht'[j].ref_count = var_ht[j].ref_count - One(id = j)
      /\ \A i : SlotCount(var_ht', i) = SlotCount(var_ht, i)
  BY <1>2, <1>5, LoseIs
<1>7. Kept
  BY <1>2, <1>6, KeepsAll
<1>8. /\ frames' \in Seq(FrameT) /\ Frames'
      /\ \A st : Pend(frames', st) = Pend(frames, st) - One(Head(Top.todo) = st)
      /\ \A i \in Ids : Lent(frames', i) = Lent(frames, i)
  BY <1>2, <1>7, NextStepOnly
<1>9. \A o \in NPObjects : Pend(frames', Step("dealloc", o)) = Pend(frames, Step("dealloc", o))
  <2> SUFFICES ASSUME NEW o \in NPObjects
               PROVE Pend(frames', Step("dealloc", o)) = Pend(frames, Step("dealloc", o))
    OBVIOUS
  <2>1. One(Step("release", id) = Step("dealloc", o)) = 0 /\ Pend(frames, Step("dealloc", o)) \in Nat
    BY <1>3, StepIs, PlacesFinite DEF One
  <2> QED
    BY <1>3, <1>8, <2>1
<1>10. NPRefsExact' /\ ProxiesAreMapped' /\ np' \in [NPObjects -> NPT]
  BY <1>2, <1>6, <1>9, ObjectsKept
<1>11. Kinds'
  BY <1>2, <1>6, ShapeGives
<1>12. ASSUME NEW i \in Ids PROVE Balanced(i)
  <2>1. PICK one \in {0, 1} : one = One(id = i) /\ (i \notin DOMAIN var_ht => one = 0)
    BY <1>5 DEF One
  <2>2. PICK min \in {0, 0 - 1} : min = 0 - one
    OBVIOUS
  <2>3. Delta(i, min, 0, 0, 0, 0, min, 0, 0)
    <3>1. /\ i \in DOMAIN var_ht => var_ht'[i].ref_count = var_ht[i].ref_count + min
          /\ SlotCount(var_ht', i) = SlotCount(var_ht, i) + 0
      <4>1. i \in DOMAIN var_ht => var_ht[i].ref_count \in Nat /\ var_ht'[i].ref_count = var_ht[i].ref_count - one
        BY <1>6, <2>1, InvGives DEF Var
      <4>2. SlotCount(var_ht', i) = SlotCount(var_ht, i) /\ SlotCount(var_ht, i) \in Nat
        BY <1>6, HoldParts
      <4> QED
        BY ONLY <2>1, <2>2, <4>1, <4>2
    <3>2. /\ owned'[i] = owned[i] + 0 /\ lost'[i] = lost[i] + 0
          /\ ProxyCount(proxy', i) = ProxyCount(proxy, i) + 0 /\ Lent(frames', i) = Lent(frames, i) + 0
      BY <1>2, <1>8, HoldParts
    <3>3. One(Step("release", id) = Step("release", i)) = one /\ One(Step("release", id) = Step("addref", i)) = 0
      BY <2>1, StepIs DEF One
    <3>4. /\ Pend(frames', Step("release", i)) = Pend(frames, Step("release", i)) - one
          /\ Pend(frames', Step("addref", i)) = Pend(frames, Step("addref", i)) - 0
          /\ Pend(frames, Step("release", i)) \in Nat /\ Pend(frames, Step("addref", i)) \in Nat
      BY <1>3, <1>8, <3>3, HoldParts DEF Adding
    <3>5. /\ Pend(frames', Step("release", i)) = Pend(frames, Step("release", i)) + min
          /\ Pend(frames', Step("addref", i)) = Pend(frames, Step("addref", i)) + 0
      BY ONLY <2>1, <2>2, <3>4
    <3> QED
      BY <3>1, <3>2, <3>5 DEF Delta
  <2>4. /\ min = 0 + 0 + 0 + 0 + min + 0 - 0 /\ min \in Int /\ 0 \in Int
        /\ i \notin DOMAIN var_ht => 0 + 0 + 0 + 0 + min = 0 /\ 0 = 0
    BY <2>1, <2>2
  <2> QED
    BY <2>3, <2>4, BalancedBy
<1> QED
  BY <1>2, <1>6, <1>8, <1>10, <1>11, <1>12, QuietStep, InvGives

(* The reference that a dictionary took is counted. *)
LEMMA AddRefStepKeeps ==
  ASSUME VarInv, AddRefStep PROVE VarInv'
<1>1. PICK id : id = Head(Top.todo).of
  OBVIOUS
<1>2. /\ Doing("addref") /\ var_ht' = AddRef(var_ht, id)
      /\ frames' = [frames EXCEPT ![Len(frames)].args = {}, ![Len(frames)].todo = Tail(@)]
      /\ UNCHANGED <<var_id, owned, lost, np, proxy, calls>>
  BY <1>1 DEF AddRefStep
<1>3. /\ frames # <<>> /\ frames \in Seq(FrameT) /\ Top \in FrameT /\ Top.todo \in Seq(Steps)
      /\ Top.todo # <<>> /\ Head(Top.todo) \in Steps /\ Head(Top.todo) = Top.todo[1]
      /\ Head(Top.todo) = Step("addref", id) /\ Head(Top.todo).op = "addref"
  BY <1>1, <1>2, DoingIs
<1>4. id \in Ids
  BY <1>3, StepIs DEF Steps
<1>5. 1 \in DOMAIN Top.todo /\ Len(Top.todo) \in Nat
  BY <1>3, LenProperties, EmptySeq
<1>6. Len(frames) = 1 /\ Len(Top.todo) = 1
  <2>1. IF Len(frames) = 1 THEN Setting(Top, var_ht, owned) ELSE Plain(Top)
    BY <1>3, TopIsThere
  <2> QED
    BY <1>3, <1>5, <2>1 DEF Setting, Plain
<1>7. Tail(Top.todo) = <<>>
  <2>1. Tail(Top.todo) \in Seq(Steps) /\ Len(Tail(Top.todo)) = 0
    BY <1>3, <1>6, HeadTailProperties
  <2> QED
    BY <2>1, EmptySeq
<1>8. PICK fr \in FrameT :
        /\ fr.todo = <<>> /\ fr.args = {} /\ fr.lent = Top.lent /\ fr.done = Top.done
        /\ frames' = [frames EXCEPT ![Len(frames)] = fr]
  <2>1. PICK f1 : f1 = [Top EXCEPT !.args = {}]
    OBVIOUS
  <2>2. /\ f1 \in FrameT /\ f1.todo = Top.todo /\ f1.args = {} /\ f1.lent = Top.lent /\ f1.done = Top.done
    BY <1>3, <2>1 DEF FrameT
  <2>3. PICK fr : fr = [f1 EXCEPT !.todo = Tail(@)]
    OBVIOUS
  <2>4. fr = [f1 EXCEPT !.todo = <<>>] /\ <<>> \in Seq(Steps)
    <3>1. Tail(f1.todo) = <<>>
      BY <1>7, <2>2
    <3>2. fr = [f1 EXCEPT !.todo = Tail(f1.todo)]
      BY <2>3
    <3>3. <<>> \in Seq(Steps)
      OBVIOUS
    <3> QED
      BY ONLY <3>1, <3>2, <3>3
  <2>5. /\ fr \in FrameT /\ fr.todo = <<>> /\ fr.args = {} /\ fr.lent = Top.lent /\ fr.done = Top.done
    BY <2>2, <2>4 DEF FrameT
  <2>6. frames' = [frames EXCEPT ![Len(frames)] = fr]
    BY <1>2, <1>3, <2>1, <2>3 DEF Top
  <2> QED
    BY <2>5, <2>6
<1>9. ShapeKept /\ StoresKept /\ Counts(id)
  BY <1>2, AddRefGives
<1>10. Kept
  BY <1>2, <1>9, KeepsAll
<1>11. FrameOK(Len(frames), fr)
  <2>1. fr.done => fr.lent = None
    BY <1>3, <1>8, TopIsThere DEF Ending
  <2>2. \A j \in DOMAIN fr.todo : fr.todo[j].op \in {"release", "dealloc"}
    BY <1>8
  <2> QED
    BY <1>8, <2>1, <2>2, FreshFrame
<1>12. /\ frames' \in Seq(FrameT) /\ Frames'
       /\ \A st : /\ Pend(frames', st) = Pend(frames, st) + CountOf(fr.todo, st) - CountOf(Top.todo, st)
                  /\ CountOf(Top.todo, st) \in Nat
       /\ \A i : Lent(frames', i) = Lent(frames, i) + One(fr.lent = i) - One(Top.lent = i)
  BY ONLY VarInv, <1>3, <1>8, <1>10, <1>11, TopSet
<1>13. /\ \A st : Pend(frames', st) = Pend(frames, st) - One(Step("addref", id) = st)
       /\ \A i \in Ids : Lent(frames', i) = Lent(frames, i)
  <2>1. ASSUME NEW st PROVE Pend(frames', st) = Pend(frames, st) - One(Step("addref", id) = st)
    <3>1. /\ CountOf(<<>>, st) = 0 /\ Pend(frames, st) \in Nat /\ One(Step("addref", id) = st) \in {0, 1}
          /\ CountOf(Top.todo, st) = One(Head(Top.todo) = st) + CountOf(Tail(Top.todo), st)
      BY <1>3, CountEmpty, PlacesFinite, CountTail DEF One
    <3>2. PICK one \in {0, 1} : one = One(Step("addref", id) = st)
      BY <3>1
    <3>3. CountOf(Top.todo, st) = one + 0
      BY <1>3, <1>7, <3>1, <3>2
    <3>4. Pend(frames', st) = Pend(frames, st) + CountOf(fr.todo, st) - CountOf(Top.todo, st)
      BY <1>12
    <3>5. CountOf(fr.todo, st) = 0
      BY <1>8, <3>1
    <3>6. Pend(frames', st) = Pend(frames, st) + 0 - (one + 0)
      BY ONLY <3>3, <3>4, <3>5
    <3> QED
      BY <3>1, <3>2, <3>6
  <2>2. ASSUME NEW i \in Ids PROVE Lent(frames', i) = Lent(frames, i)
    <3>1. PICK one \in {0, 1} : one = One(Top.lent = i)
      BY DEF One
    <3>2. Lent(frames', i) = Lent(frames, i) + one - one
      BY <1>8, <1>12, <3>1
    <3> QED
      BY <3>2, HoldParts
  <2> QED
    BY <2>1, <2>2
<1>14. \A o \in NPObjects : Pend(frames', Step("dealloc", o)) = Pend(frames, Step("dealloc", o))
  <2> SUFFICES ASSUME NEW o \in NPObjects
               PROVE Pend(frames', Step("dealloc", o)) = Pend(frames, Step("dealloc", o))
    OBVIOUS
  <2>1. One(Step("addref", id) = Step("dealloc", o)) = 0 /\ Pend(frames, Step("dealloc", o)) \in Nat
    BY <1>3, StepIs, PlacesFinite DEF One
  <2> QED
    BY <1>13, <2>1
<1>15. NPRefsExact' /\ ProxiesAreMapped' /\ np' \in [NPObjects -> NPT] /\ Kinds'
  BY <1>2, <1>9, <1>14, ObjectsKept, ShapeGives
<1>16. ASSUME NEW i \in Ids PROVE Balanced(i)
  <2>1. PICK one \in {0, 1} : one = One(id = i)
    BY DEF One
  <2>2. PICK min \in {0, 0 - 1} : min = 0 - one
    OBVIOUS
  <2>3. Delta(i, one, 0, 0, 0, 0, 0, min, 0)
    <3>1. /\ i \in DOMAIN var_ht => var_ht'[i].ref_count = var_ht[i].ref_count + one
          /\ SlotCount(var_ht', i) = SlotCount(var_ht, i) + 0
      BY <1>9, <2>1, HoldParts DEF Counts
    <3>2. /\ owned'[i] = owned[i] + 0 /\ lost'[i] = lost[i] + 0
          /\ ProxyCount(proxy', i) = ProxyCount(proxy, i) + 0 /\ Lent(frames', i) = Lent(frames, i) + 0
      <4>1. Lent(frames', i) = Lent(frames, i)
        BY <1>13
      <4> QED
        BY <1>2, <4>1, HoldParts
    <3>3. One(Step("addref", id) = Step("addref", i)) = one /\ One(Step("addref", id) = Step("release", i)) = 0
      BY <2>1, StepIs DEF One
    <3>4. /\ Pend(frames', Step("addref", i)) = Pend(frames, Step("addref", i)) - one
          /\ Pend(frames', Step("release", i)) = Pend(frames, Step("release", i)) - 0
          /\ Pend(frames, Step("release", i)) \in Nat /\ Pend(frames, Step("addref", i)) \in Nat
      BY <1>13, <3>3, HoldParts DEF Adding
    <3>5. /\ Pend(frames', Step("addref", i)) = Pend(frames, Step("addref", i)) + min
          /\ Pend(frames', Step("release", i)) = Pend(frames, Step("release", i)) + 0
      BY ONLY <2>1, <2>2, <3>4
    <3> QED
      BY <3>1, <3>2, <3>5 DEF Delta
  <2>4. /\ one = 0 + 0 + 0 + 0 + 0 + 0 - min /\ min \in Int /\ one \in Int /\ 0 \in Int
        /\ i \notin DOMAIN var_ht => 0 + 0 + 0 + 0 + 0 = 0 /\ 0 = 0
    BY <2>1, <2>2
  <2> QED
    BY <2>3, <2>4, BalancedBy
<1> QED
  BY <1>2, <1>9, <1>12, <1>15, <1>16, QuietStep, InvGives

(* What converting a variable for a script leaves: a new proxy for an      *)
(* object of the plugin, one more reference to one of the browser.         *)
LEMMA KeptGives ==
  ASSUME VarInv, NEW id \in DOMAIN var_ht, NEW mapped \in BOOLEAN,
         pp_var_to_np_variant(id, mapped), var_ht[id].obj # None => mapped
  PROVE  /\ ShapeKept /\ StoresKept /\ Kinds'
         /\ proxy' \in [Proxies -> ProxyT] /\ np' \in [NPObjects -> NPT]
         /\ \A j \in DOMAIN var_ht :
              var_ht'[j].ref_count = var_ht[j].ref_count + One(var_ht[id].obj = None /\ id = j)
         /\ \A i : SlotCount(var_ht', i) = SlotCount(var_ht, i)
         /\ \A i \in Ids :
              ProxyCount(proxy', i) = ProxyCount(proxy, i) + One(var_ht[id].obj = None /\ id = i)
         /\ \A o \in NPObjects :
              /\ np'[o].refs = np[o].refs + One(var_ht[id].obj = o)
              /\ np'[o].script = np[o].script + One(var_ht[id].obj = o)
              /\ np[o].mapped => np'[o].mapped
<1>1. /\ id \in Ids /\ var_ht[id] \in Var /\ var_ht[id].type = "OBJECT"
      /\ np \in [NPObjects -> NPT] /\ proxy \in [Proxies -> ProxyT] /\ Kinds
  BY InvGives DEF pp_var_to_np_variant
<1>2. CASE var_ht[id].obj # None
  <2>1. PICK o \in NPObjects : o = var_ht[id].obj
    BY <1>1, <1>2 DEF Var
  <2>2. /\ np' = [np EXCEPT ![o].refs = @ + 1, ![o].script = @ + 1, ![o].mapped = mapped]
        /\ UNCHANGED <<var_ht, proxy>>
        /\ mapped
    BY <1>2, <2>1 DEF pp_var_to_np_variant, KeptByScript
  <2>3. ShapeKept /\ StoresKept /\ Counts(None)
    BY <2>2, SameTable
  <2>4. Kinds'
    BY <2>2, <2>3, ShapeGives
  <2>5. /\ np' \in [NPObjects -> NPT]
        /\ \A q \in NPObjects :
             /\ np'[q].refs = np[q].refs + One(o = q) /\ np'[q].script = np[q].script + One(o = q)
             /\ np[q].mapped => np'[q].mapped
    <3>1. PICK m1 : m1 = [np[o] EXCEPT !.refs = @ + 1]
      OBVIOUS
    <3>2. /\ m1 \in NPT /\ m1.refs = np[o].refs + 1 /\ m1.script = np[o].script
          /\ m1.mapped = np[o].mapped
      BY <1>1, <3>1 DEF NPT
    <3>3. PICK m2 : m2 = [m1 EXCEPT !.script = @ + 1]
      OBVIOUS
    <3>4. m2 \in NPT /\ m2.refs = np[o].refs + 1 /\ m2.script = np[o].script + 1
      BY <3>2, <3>3 DEF NPT
    <3>7. PICK m : m = [m2 EXCEPT !.mapped = mapped]
      OBVIOUS
    <3>8. /\ m \in NPT /\ m.refs = np[o].refs + 1 /\ m.script = np[o].script + 1
          /\ m.mapped
      BY <2>2, <3>4, <3>7 DEF NPT
    <3>5. np' = [np EXCEPT ![o] = m]
      BY <1>1, <2>2, <3>1, <3>3, <3>7
    <3>6. \A q \in NPObjects : np[q].refs \in Nat /\ np[q].script \in Nat
      BY <1>1 DEF NPT
    <3> QED
      BY <1>1, <3>8, <3>5, <3>6 DEF One
  <2>6. /\ \A j : One(var_ht[id].obj = None /\ id = j) = 0
        /\ \A q : One(var_ht[id].obj = q) = One(o = q)
    BY <1>2, <2>1 DEF One
  <2>7. \A j \in DOMAIN var_ht : var_ht[j].ref_count = var_ht[j].ref_count + 0
    BY InvGives DEF Var
  <2>8. \A i \in Ids : ProxyCount(proxy', i) = ProxyCount(proxy, i) + 0
    BY <2>2, HoldParts
  <2>9. proxy' \in [Proxies -> ProxyT] /\ var_ht' = var_ht
    BY <1>1, <2>2
  <2>10. /\ \A j \in DOMAIN var_ht :
              var_ht'[j].ref_count = var_ht[j].ref_count + One(var_ht[id].obj = None /\ id = j)
         /\ \A i \in Ids :
              ProxyCount(proxy', i) = ProxyCount(proxy, i) + One(var_ht[id].obj = None /\ id = i)
    BY <2>6, <2>7, <2>8, <2>9
  <2>11. \A o1 \in NPObjects :
           /\ np'[o1].refs = np[o1].refs + One(var_ht[id].obj = o1)
           /\ np'[o1].script = np[o1].script + One(var_ht[id].obj = o1)
           /\ np[o1].mapped => np'[o1].mapped
    BY <2>5, <2>6
  <2>12. np' \in [NPObjects -> NPT] /\ \A i : SlotCount(var_ht', i) = SlotCount(var_ht, i)
    BY <2>3, <2>5 DEF Counts
  <2> QED
    BY <2>3, <2>4, <2>9, <2>10, <2>11, <2>12
<1>3. CASE var_ht[id].obj = None
  <2>1. PICK x \in Proxies :
          /\ proxy[x] = Free /\ proxy' = [proxy EXCEPT ![x] = [ppobj |-> id, refs |-> 1]]
          /\ var_ht' = AddRef(var_ht, id) /\ np' = np
    BY <1>3 DEF pp_var_to_np_variant, KeptByScript
  <2>2. ShapeKept /\ StoresKept /\ Counts(id)
    BY <2>1, AddRefGives
  <2>3. /\ proxy' \in [Proxies -> ProxyT]
        /\ proxy'[x].ppobj = id /\ proxy'[x].refs = 1 /\ proxy[x].ppobj = None
        /\ \A y \in Proxies : y # x => proxy'[y] = proxy[y]
    <3>1. [ppobj |-> id, refs |-> 1] \in ProxyT
      BY <1>1, SpaceAssumption DEF ProxyT
    <3> QED
      BY <1>1, <2>1, <3>1 DEF Free
  <2>4. \A i \in Ids : ProxyCount(proxy', i) = ProxyCount(proxy, i) + One(id = i)
    <3> SUFFICES ASSUME NEW i \in Ids PROVE ProxyCount(proxy', i) = ProxyCount(proxy, i) + One(id = i)
      OBVIOUS
    <3>1. \A y \in Proxies : y # x => proxy'[y].ppobj = proxy[y].ppobj
      BY <2>3
    <3>2. ProxyCount(proxy', i) =
            ProxyCount(proxy, i) + One(proxy'[x].ppobj = i) - One(proxy[x].ppobj = i)
      BY <3>1, ProxySet
    <3>3. ProxyCount(proxy', i) = ProxyCount(proxy, i) + One(id = i) - One(None = i)
      BY <2>3, <3>2
    <3>4. One(None = i) = 0 /\ ProxyCount(proxy, i) \in Nat /\ One(id = i) \in {0, 1}
      BY NoneIsNoId, HoldParts DEF One
    <3> QED
      BY <3>3, <3>4
  <2>5. Kinds'
    <3>1. \A j \in DOMAIN var_ht' : KindOf(var_ht'[j])
      BY <2>2, ShapeGives
    <3>2. id # None
      BY <1>1 DEF Ids, None
    <3>3. /\ id \in DOMAIN var_ht' /\ var_ht'[id].type = "OBJECT" /\ var_ht'[id].obj = None
      BY <1>1, <1>3, <2>2 DEF ShapeKept
    <3>4. ASSUME NEW y \in Proxies, y # x
          PROVE  IF proxy'[y].ppobj = None THEN proxy'[y].refs = 0
                 ELSE /\ proxy'[y].refs > 0 /\ proxy'[y].ppobj \in DOMAIN var_ht'
                      /\ var_ht'[proxy'[y].ppobj].type = "OBJECT"
                      /\ var_ht'[proxy'[y].ppobj].obj = None
      BY <1>1, <2>2, <2>3, <3>4 DEF Kinds, ShapeKept
    <3> QED
      BY <2>3, <3>1, <3>2, <3>3, <3>4 DEF Kinds
  <2>6. \A j : One(var_ht[id].obj = None /\ id = j) = One(id = j)
    BY <1>3 DEF One
  <2>7. \A o \in NPObjects : One(var_ht[id].obj = o) = 0 /\ np[o].refs \in Nat /\ np[o].script \in Nat
    BY <1>1, <1>3, NamesAssumption DEF One, NPT
  <2>8. \A o \in NPObjects : /\ np'[o].refs = np[o].refs + One(var_ht[id].obj = o)
                             /\ np'[o].script = np[o].script + One(var_ht[id].obj = o)
                             /\ np[o].mapped => np'[o].mapped
    BY <2>1, <2>7
  <2>9. np' \in [NPObjects -> NPT]
    BY <1>1, <2>1
  <2> QED
    BY <2>2, <2>3, <2>4, <2>5, <2>6, <2>8, <2>9 DEF Counts
<1> QED
  BY <1>2, <1>3

LEMMA ConvertKeeps ==
  ASSUME VarInv, NEW id \in DOMAIN var_ht, NEW mapped \in BOOLEAN,
         pp_var_to_np_variant(id, mapped), var_ht[id].obj # None => mapped,
         UNCHANGED <<var_id, owned, lost>>, calls' \in 0 .. MaxCalls,
         frames' \in Seq(FrameT), Frames',
         \A i \in Ids : /\ Lent(frames', i) = Lent(frames, i)
                        /\ Pend(frames', Step("release", i)) = Pend(frames, Step("release", i))
                        /\ Pend(frames', Step("addref", i)) = Pend(frames, Step("addref", i)),
         \A o \in NPObjects : Pend(frames', Step("dealloc", o)) = Pend(frames, Step("dealloc", o))
  PROVE  VarInv'
<1>1. /\ ShapeKept /\ StoresKept /\ Kinds'
      /\ proxy' \in [Proxies -> ProxyT] /\ np' \in [NPObjects -> NPT]
      /\ \A j \in DOMAIN var_ht :
           var_ht'[j].ref_count = var_ht[j].ref_count + One(var_ht[id].obj = None /\ id = j)
      /\ \A i : SlotCount(var_ht', i) = SlotCount(var_ht, i)
      /\ \A i \in Ids :
           ProxyCount(proxy', i) = ProxyCount(proxy, i) + One(var_ht[id].obj = None /\ id = i)
      /\ \A o \in NPObjects :
           /\ np'[o].refs = np[o].refs + One(var_ht[id].obj = o)
           /\ np'[o].script = np[o].script + One(var_ht[id].obj = o)
           /\ np[o].mapped => np'[o].mapped
  BY KeptGives
<1>2. NPRefsExact'
  <2> SUFFICES ASSUME NEW o \in NPObjects
               PROVE  np'[o].refs = np'[o].script + Pend(frames', Step("dealloc", o)) + ObjCount(var_ht', o)
    BY Counted
  <2>1. /\ np[o].refs = np[o].script + Pend(frames, Step("dealloc", o)) + ObjCount(var_ht, o)
        /\ np[o].script \in Nat /\ Pend(frames, Step("dealloc", o)) \in Nat /\ ObjCount(var_ht, o) \in Nat
    BY InvGives, PlacesFinite, ObjsFinite DEF NPT
  <2>2. ObjCount(var_ht', o) = ObjCount(var_ht, o) /\ One(var_ht[id].obj = o) \in {0, 1}
    BY <1>1, ShapeGives DEF One
  <2> QED
    BY <1>1, <2>1, <2>2
<1>3. ProxiesAreMapped'
  BY <1>1, ShapeGives
<1>4. ASSUME NEW i \in Ids PROVE Balanced(i)
  <2>1. PICK one \in {0, 1} :
          one = One(var_ht[id].obj = None /\ id = i) /\ (i \notin DOMAIN var_ht => one = 0)
    BY DEF One
  <2>2. Delta(i, one, 0, 0, one, 0, 0, 0, 0)
    <3>1. /\ i \in DOMAIN var_ht => var_ht'[i].ref_count = var_ht[i].ref_count + one
          /\ SlotCount(var_ht', i) = SlotCount(var_ht, i) + 0
          /\ ProxyCount(proxy', i) = ProxyCount(proxy, i) + one
      BY <1>1, <2>1, HoldParts
    <3>2. /\ owned'[i] = owned[i] + 0 /\ lost'[i] = lost[i] + 0 /\ Lent(frames', i) = Lent(frames, i) + 0
          /\ Pend(frames', Step("release", i)) = Pend(frames, Step("release", i)) + 0
          /\ Pend(frames', Step("addref", i)) = Pend(frames, Step("addref", i)) + 0
      BY HoldParts DEF Adding
    <3> QED
      BY <3>1, <3>2 DEF Delta
  <2> QED
    BY <2>1, <2>2, BalancedBy
<1> QED
  BY <1>1, <1>2, <1>3, <1>4, QuietStep, InvGives

LEMMA ArgumentKeeps ==
  ASSUME VarInv, NEW id \in Ids, n2p_call(id) PROVE VarInv'
<1>1. /\ Call /\ MayUse(id) /\ pp_var_to_np_variant(id, HasInstance(id))
      /\ UNCHANGED <<var_id, owned, lost, frames>>
  BY DEF n2p_call
<1>2. id \in DOMAIN var_ht /\ calls' \in 0 .. MaxCalls
  BY <1>1, UsedIs, CallIs
<1>6. HasInstance(id) \in BOOLEAN /\ (var_ht[id].obj # None => HasInstance(id))
  BY <1>2, InvGives DEF HasInstance, ProxiesAreMapped, Var, NPT
<1>3. StoresKept
  BY <1>1, <1>2, <1>6, KeptGives
<1>4. Kept
  BY <1>1, <1>3, KeepsAll
<1>5. Frames' /\ frames' \in Seq(FrameT)
  BY <1>1, <1>4, FramesSame, InvGives
<1> QED
  BY <1>1, <1>2, <1>5, <1>6, ConvertKeeps

LEMMA ConvertResultKeeps ==
  ASSUME VarInv, PlainCalls, ConvertResult PROVE VarInv'
<1>1. PICK id : id = Head(Top.todo).of
  OBVIOUS
<1>2. /\ Doing("tonp") /\ pp_var_to_np_variant(id, TRUE) /\ frames' = WithTop(Tail(Top.todo))
      /\ UNCHANGED <<var_id, owned, lost, calls>>
  <2>1. PICK orphan \in {FALSE, OrphanCalls} : pp_var_to_np_variant(Head(Top.todo).of, ~orphan)
    BY DEF ConvertResult
  <2>2. OrphanCalls = FALSE
    BY FlagsAssumption DEF PlainCalls
  <2>3. (~orphan) = TRUE
    BY <2>1, <2>2
  <2>4. pp_var_to_np_variant(id, TRUE)
    BY <1>1, <2>1, <2>3
  <2> QED
    BY <2>4 DEF ConvertResult
<1>3. /\ frames # <<>> /\ frames \in Seq(FrameT) /\ Top.todo # <<>> /\ Top.todo \in Seq(Steps)
      /\ Head(Top.todo) \in Steps /\ Head(Top.todo) = Top.todo[1]
      /\ Head(Top.todo) = Step("tonp", id) /\ Head(Top.todo).op = "tonp"
  BY <1>1, <1>2, DoingIs
<1>4. id \in Ids
  BY <1>3, StepIs DEF Steps
<1>5. id \in DOMAIN var_ht
  <2>1. 1 \in DOMAIN Top.todo /\ Len(Top.todo) \in Nat /\ DOMAIN Top.todo = 1 .. Len(Top.todo)
    BY <1>3, LenProperties, EmptySeq
  <2>2. 1 < Len(Top.todo) /\ Top.todo[1 + 1] = Step("release", id)
    BY <1>1, <1>3, <2>1, TopIsThere DEF Ending
  <2>3. Len(frames) \in DOMAIN frames /\ Top = frames[Len(frames)] /\ 1 + 1 \in DOMAIN Top.todo
    BY <1>3, <2>1, <2>2, TopIsThere
  <2>4. Pend(frames, Step("release", id)) > 0
    BY <1>4, <2>2, <2>3, Holding
  <2> QED
    BY <1>4, <2>4, HeldIsThere
<1>6. StoresKept
  BY <1>2, <1>5, KeptGives
<1>7. Kept
  BY <1>2, <1>6, KeepsAll
<1>8. /\ frames' \in Seq(FrameT) /\ Frames'
      /\ \A st : Pend(frames', st) = Pend(frames, st) - One(Head(Top.todo) = st)
      /\ \A i \in Ids : Lent(frames', i) = Lent(frames, i)
  BY <1>2, <1>7, NextStepOnly
<1>9. ASSUME NEW op \in {"release", "addref", "dealloc"}, NEW y
      PROVE  Pend(frames', Step(op, y)) = Pend(frames, Step(op, y))
  <2>1. One(Step("tonp", id) = Step(op, y)) = 0 /\ Pend(frames, Step(op, y)) \in Nat
    BY <1>3, StepIs, PlacesFinite DEF One
  <2> QED
    BY <1>3, <1>8, <2>1
<1>10. calls' \in 0 .. MaxCalls
  BY <1>2, InvGives
<1> QED
  BY <1>2, <1>5, <1>8, <1>9, <1>10, ConvertKeeps

(* On the browser thread: the object of a variable that is gone. *)
LEMMA DeallocateKeeps ==
  ASSUME VarInv, n2p_deallocate_ptac PROVE VarInv'
<1>1. PICK o : o = Head(Top.todo).of
  OBVIOUS
<1>2. /\ Doing("dealloc") /\ np' = [np EXCEPT ![o].refs = @ - 1, ![o].mapped = @ /\ np[o].refs > 1]
      /\ frames' = WithTop(Tail(Top.todo))
      /\ UNCHANGED <<var_ht, var_id, owned, lost, proxy, calls>>
  BY <1>1 DEF n2p_deallocate_ptac
<1>3. /\ frames # <<>> /\ frames \in Seq(FrameT) /\ Head(Top.todo) \in Steps
      /\ Head(Top.todo) = Step("dealloc", o) /\ Pend(frames, Step("dealloc", o)) > 0
  BY <1>1, <1>2, DoingIs
<1>4. o \in NPObjects
  BY <1>3, StepIs DEF Steps
<1>5. ShapeKept /\ StoresKept
  BY <1>2, SameTable
<1>6. Kept
  BY <1>2, <1>5, KeepsAll
<1>7. /\ frames' \in Seq(FrameT) /\ Frames'
      /\ \A st : Pend(frames', st) = Pend(frames, st) - One(Head(Top.todo) = st)
      /\ \A i \in Ids : Lent(frames', i) = Lent(frames, i)
  BY <1>2, <1>6, NextStepOnly
<1>8. /\ np[o] \in NPT /\ np \in [NPObjects -> NPT] /\ ObjCount(var_ht, o) \in Nat
      /\ Pend(frames, Step("dealloc", o)) \in Nat
      /\ np[o].refs = np[o].script + Pend(frames, Step("dealloc", o)) + ObjCount(var_ht, o)
  BY <1>3, <1>4, InvGives, ObjsFinite, PlacesFinite
<1>9. PICK m \in NPT :
        /\ m.refs = np[o].refs - 1 /\ m.script = np[o].script
        /\ m.mapped = (np[o].mapped /\ np[o].refs > 1)
        /\ np' = [np EXCEPT ![o] = m]
  <2>1. PICK m1 : m1 = [np[o] EXCEPT !.refs = @ - 1]
    OBVIOUS
  <2>2. np[o].refs - 1 \in Nat
    BY <1>3, <1>8 DEF NPT
  <2>3. m1 \in NPT /\ m1.refs = np[o].refs - 1 /\ m1.script = np[o].script /\ m1.mapped = np[o].mapped
    BY <1>8, <2>1, <2>2 DEF NPT
  <2>4. PICK m : m = [m1 EXCEPT !.mapped = @ /\ np[o].refs > 1]
    OBVIOUS
  <2>5. m \in NPT /\ m.refs = m1.refs /\ m.script = m1.script /\ m.mapped = (m1.mapped /\ np[o].refs > 1)
    BY <2>3, <2>4 DEF NPT
  <2>6. np' = [np EXCEPT ![o] = m]
    BY <1>2, <1>4, <1>8, <2>1, <2>4
  <2> QED
    BY <2>3, <2>5, <2>6
<1>10. /\ np' \in [NPObjects -> NPT] /\ np'[o] = m
       /\ \A q \in NPObjects : q # o => np'[q] = np[q]
  BY <1>4, <1>8, <1>9
<1>11. NPRefsExact'
  <2> SUFFICES ASSUME NEW q \in NPObjects
               PROVE  np'[q].refs = np'[q].script + Pend(frames', Step("dealloc", q)) + ObjCount(var_ht', q)
    BY Counted
  <2>1. /\ np[q].refs = np[q].script + Pend(frames, Step("dealloc", q)) + ObjCount(var_ht, q)
        /\ np[q].script \in Nat /\ Pend(frames, Step("dealloc", q)) \in Nat /\ ObjCount(var_ht, q) \in Nat
    BY <1>3, InvGives, PlacesFinite, ObjsFinite DEF NPT
  <2>2. One(Step("dealloc", o) = Step("dealloc", q)) = One(o = q)
    BY StepIs DEF One
  <2>3. Pend(frames', Step("dealloc", q)) = Pend(frames, Step("dealloc", q)) - One(o = q)
    BY <1>3, <1>7, <2>2
  <2>4. np'[q].refs = np[q].refs - One(o = q) /\ np'[q].script = np[q].script
    <3>1. np[q].refs \in Nat
      BY <1>8 DEF NPT
    <3> QED
      BY <1>9, <1>10, <3>1 DEF One
  <2>5. One(o = q) \in {0, 1} /\ ObjCount(var_ht', q) = ObjCount(var_ht, q)
    BY <1>2 DEF One
  <2> QED
    BY <2>1, <2>3, <2>4, <2>5
<1>12. ProxiesAreMapped'
  <2> SUFFICES ASSUME NEW id \in DOMAIN var_ht, var_ht[id].obj # None
               PROVE  np'[var_ht[id].obj].mapped
    BY <1>2 DEF ProxiesAreMapped
  <2>1. var_ht[id].obj \in NPObjects /\ np[var_ht[id].obj].mapped
    BY InvGives DEF Var, ProxiesAreMapped
  <2>2. CASE var_ht[id].obj = o
    <3>1. id \in ObjsOf(var_ht, o)
      BY <2>2 DEF ObjsOf
    <3>2. ObjCount(var_ht, o) > 0
      BY <3>1, ObjsFinite, Positive, InvGives DEF ObjCount
    <3>3. np[o].refs > 1
      BY <1>3, <1>8, <3>2 DEF NPT
    <3> QED
      BY <1>9, <1>10, <2>1, <2>2, <3>3
  <2>3. CASE var_ht[id].obj # o
    BY <1>10, <2>1, <2>3
  <2> QED
    BY <2>2, <2>3
<1>13. Kinds'
  BY <1>2, <1>5, ShapeGives
<1>14. ASSUME NEW i \in Ids PROVE Balanced(i)
  <2>1. ASSUME NEW op \in {"release", "addref"} PROVE Pend(frames', Step(op, i)) = Pend(frames, Step(op, i))
    <3>1. One(Step("dealloc", o) = Step(op, i)) = 0 /\ Pend(frames, Step(op, i)) \in Nat
      BY <1>3, StepIs, PlacesFinite DEF One
    <3> QED
      BY <1>3, <1>7, <3>1
  <2> QED
    BY <1>2, <1>7, <2>1, SameCounts
<1> QED
  BY <1>2, <1>5, <1>7, <1>10, <1>11, <1>12, <1>13, <1>14, QuietStep, InvGives

-----------------------------------------------------------------------------
(* The browser *)

LEMMA ScriptDropKeeps ==
  ASSUME VarInv, NEW o \in NPObjects, ScriptDropsObject(o) PROVE VarInv'
<1>1. /\ np[o].script > 0 /\ np' = [np EXCEPT ![o].refs = @ - 1, ![o].script = @ - 1]
      /\ UNCHANGED <<var_ht, var_id, owned, lost, frames, proxy, calls>>
  BY DEF ScriptDropsObject
<1>2. ShapeKept /\ StoresKept
  BY <1>1, SameTable
<1>3. Kept
  BY <1>1, <1>2, KeepsAll
<1>4. Frames' /\ frames' \in Seq(FrameT) /\ Kinds'
  BY <1>1, <1>2, <1>3, FramesSame, InvGives, ShapeGives
<1>5. /\ np[o] \in NPT /\ np \in [NPObjects -> NPT] /\ ObjCount(var_ht, o) \in Nat
      /\ Pend(frames, Step("dealloc", o)) \in Nat
      /\ np[o].refs = np[o].script + Pend(frames, Step("dealloc", o)) + ObjCount(var_ht, o)
  BY InvGives, ObjsFinite, PlacesFinite
<1>6. PICK m \in NPT :
        /\ m.refs = np[o].refs - 1 /\ m.script = np[o].script - 1 /\ m.mapped = np[o].mapped
        /\ np' = [np EXCEPT ![o] = m]
  <2>1. PICK m1 : m1 = [np[o] EXCEPT !.refs = @ - 1]
    OBVIOUS
  <2>2. np[o].refs - 1 \in Nat /\ np[o].script - 1 \in Nat
    BY <1>1, <1>5 DEF NPT
  <2>3. m1 \in NPT /\ m1.refs = np[o].refs - 1 /\ m1.script = np[o].script /\ m1.mapped = np[o].mapped
    BY <1>5, <2>1, <2>2 DEF NPT
  <2>4. PICK m : m = [m1 EXCEPT !.script = @ - 1]
    OBVIOUS
  <2>5. m \in NPT /\ m.refs = m1.refs /\ m.script = m1.script - 1 /\ m.mapped = m1.mapped
    BY <2>2, <2>3, <2>4 DEF NPT
  <2>6. np' = [np EXCEPT ![o] = m]
    BY <1>1, <1>5, <2>1, <2>4
  <2>7. m.refs = np[o].refs - 1 /\ m.script = np[o].script - 1 /\ m.mapped = np[o].mapped
    BY <2>3, <2>5
  <2> QED
    BY <2>5, <2>6, <2>7
<1>7. /\ np' \in [NPObjects -> NPT] /\ np'[o] = m
      /\ \A q \in NPObjects : q # o => np'[q] = np[q]
  BY <1>5, <1>6
<1>8. NPRefsExact'
  <2> SUFFICES ASSUME NEW q \in NPObjects
               PROVE  np'[q].refs = np'[q].script + Pend(frames', Step("dealloc", q)) + ObjCount(var_ht', q)
    BY Counted
  <2>1. CASE q = o
    <3>1. np'[o].refs = np[o].refs - 1 /\ np'[o].script = np[o].script - 1
      BY <1>6, <1>7
    <3>2. np[o].script \in Nat
      BY <1>5 DEF NPT
    <3>3. np'[o].refs = np'[o].script + Pend(frames, Step("dealloc", o)) + ObjCount(var_ht, o)
      BY ONLY <1>5, <3>1, <3>2
    <3> QED
      BY <1>1, <2>1, <3>3
  <2>2. CASE q # o
    BY <1>1, <1>7, <2>2, InvGives
  <2> QED
    BY <2>1, <2>2
<1>9. ProxiesAreMapped'
  <2>1. \A q \in NPObjects : np[q].mapped => np'[q].mapped
    BY <1>6, <1>7
  <2> QED
    BY <1>2, <2>1, ShapeGives
<1>10. ASSUME NEW i \in Ids PROVE Balanced(i)
  BY <1>1, SameCounts
<1> QED
  BY <1>1, <1>2, <1>4, <1>7, <1>8, <1>9, <1>10, QuietStep, InvGives

(* The count of a proxy changes and does not become zero. *)
LEMMA ProxyCountKeeps ==
  ASSUME VarInv, NEW x \in Proxies, proxy[x].ppobj # None, NEW n \in 1 .. CountSpace - 1,
         proxy' = [proxy EXCEPT ![x].refs = n],
         UNCHANGED <<var_ht, var_id, owned, lost, frames, np, calls>>
  PROVE  VarInv'
<1>1. ShapeKept /\ StoresKept
  BY SameTable
<1>2. Kept
  BY <1>1, KeepsAll
<1>3. Frames' /\ frames' \in Seq(FrameT)
  BY <1>2, FramesSame, InvGives
<1>4. /\ proxy' \in [Proxies -> ProxyT] /\ Kinds'
      /\ \A i \in Ids : ProxyCount(proxy', i) = ProxyCount(proxy, i)
  BY <1>1, ProxyRefsIs
<1>5. NPRefsExact' /\ ProxiesAreMapped' /\ np' \in [NPObjects -> NPT]
  BY <1>1, ObjectsKept
<1>6. ASSUME NEW i \in Ids PROVE Balanced(i)
  BY <1>4, SameCounts
<1> QED
  BY <1>1, <1>3, <1>4, <1>5, <1>6, QuietStep, InvGives

(* A proxy goes. *)
LEMMA ProxyGoes ==
  ASSUME VarInv, NEW x \in Proxies, proxy[x].ppobj # None, proxy' = [proxy EXCEPT ![x] = Free]
  PROVE  /\ proxy' \in [Proxies -> ProxyT] /\ proxy'[x] = Free
         /\ \A y \in Proxies : y # x => proxy'[y] = proxy[y]
         /\ proxy[x].ppobj \in Ids /\ proxy[x].ppobj \in DOMAIN var_ht
         /\ ProxyCount(proxy, proxy[x].ppobj) > 0
         /\ var_ht[proxy[x].ppobj].slots = Empty /\ var_ht[proxy[x].ppobj].obj = None
         /\ \A i \in Ids : ProxyCount(proxy', i) = ProxyCount(proxy, i) - One(proxy[x].ppobj = i)
<1>1. proxy \in [Proxies -> ProxyT] /\ Kinds
  BY InvGives
<1>2. Free \in ProxyT
  BY SpaceAssumption DEF ProxyT, Free
<1>3. /\ proxy' \in [Proxies -> ProxyT] /\ proxy'[x] = Free
      /\ \A y \in Proxies : y # x => proxy'[y] = proxy[y]
  BY <1>1, <1>2
<1>4. /\ proxy[x].ppobj \in DOMAIN var_ht /\ var_ht[proxy[x].ppobj].slots = Empty
      /\ var_ht[proxy[x].ppobj].obj = None
  BY <1>1 DEF Kinds, KindOf
<1>5. proxy[x].ppobj \in Ids /\ ProxyCount(proxy, proxy[x].ppobj) > 0
  <2>1. proxy[x].ppobj \in Ids
    BY <1>4, InvGives
  <2> QED
    BY <2>1, Holding
<1>6. ASSUME NEW i \in Ids
      PROVE  ProxyCount(proxy', i) = ProxyCount(proxy, i) - One(proxy[x].ppobj = i)
  <2>1. \A y \in Proxies : y # x => proxy'[y].ppobj = proxy[y].ppobj
    BY <1>3
  <2>2. ProxyCount(proxy', i) =
          ProxyCount(proxy, i) + One(proxy'[x].ppobj = i) - One(proxy[x].ppobj = i)
    BY <2>1, ProxySet
  <2>3. One(proxy'[x].ppobj = i) = 0
    BY <1>3, NoneIsNoId DEF Free, One
  <2>4. PICK one \in {0, 1} : one = One(proxy[x].ppobj = i)
    BY DEF One
  <2>5. ProxyCount(proxy', i) = ProxyCount(proxy, i) + 0 - one
    BY <2>2, <2>3, <2>4
  <2>6. ProxyCount(proxy, i) \in Nat
    BY HoldParts
  <2>7. ProxyCount(proxy', i) = ProxyCount(proxy, i) - one
    BY ONLY <2>4, <2>5, <2>6, one \in {0, 1}
  <2> QED
    BY <2>4, <2>7
<1> QED
  BY <1>3, <1>4, <1>5, <1>6

(* A variable without elements holds nothing. *)
LEMMA EmptyHolds == \A i \in Ids : CountOf(Empty, i) = 0
<1> SUFFICES ASSUME NEW i \in Ids PROVE CountOf(Empty, i) = 0
  OBVIOUS
<1>1. {j \in DOMAIN Empty : Empty[j] = i} = {}
  BY DEF Empty, Ids, None
<1> QED
  BY <1>1, FS_EmptySet DEF CountOf

(* The last proxy goes and the variable with it. *)
LEMMA LastProxyKeeps ==
  ASSUME VarInv, NEW x \in Proxies, proxy[x].ppobj # None, Gone(proxy[x].ppobj),
         var_ht' = Released(proxy[x].ppobj), proxy' = [proxy EXCEPT ![x] = Free],
         UNCHANGED <<var_id, owned, lost, frames, np, calls>>
  PROVE  VarInv'
<1>1. PICK id : id = proxy[x].ppobj
  OBVIOUS
<1>2. /\ proxy' \in [Proxies -> ProxyT] /\ proxy'[x] = Free
      /\ \A y \in Proxies : y # x => proxy'[y] = proxy[y]
      /\ id \in Ids /\ id \in DOMAIN var_ht /\ ProxyCount(proxy, id) > 0
      /\ var_ht[id].slots = Empty /\ var_ht[id].obj = None
      /\ \A i \in Ids : ProxyCount(proxy', i) = ProxyCount(proxy, i) - One(id = i)
  BY <1>1, ProxyGoes
<1>3. /\ Hold(id) = 1 /\ Gone(id) /\ (frames # <<>> => id \notin frames[1].args)
  BY <1>1, <1>2, GoneIs
<1>4. var_ht' = Drop(var_ht, id) /\ Table(var_ht)
  BY <1>1, <1>2, <1>3, InvGives DEF Released
<1>5. /\ DOMAIN var_ht' = DOMAIN var_ht \ {id} /\ \A j \in DOMAIN var_ht' : var_ht'[j] = var_ht[j]
      /\ Table(var_ht')
      /\ \A o : ObjCount(var_ht', o) = ObjCount(var_ht, o) - One(var_ht[id].obj = o)
  <2>1. LET hu == Drop(var_ht, id) IN
          /\ DOMAIN hu = DOMAIN var_ht \ {id} /\ \A j \in DOMAIN hu : hu[j] = var_ht[j]
          /\ Table(hu)
          /\ \A o : ObjCount(hu, o) = ObjCount(var_ht, o) - One(var_ht[id].obj = o)
    <3>1. Table(var_ht) /\ id \in DOMAIN var_ht
      BY <1>2, <1>4
    <3> QED
      BY ONLY <3>1, TableDrop
  <2> QED
    BY <1>4, <2>1
<1>6. Kept
  <2>1. ASSUME frames # <<>>, NEW d \in frames[1].args, NEW e, Stores(var_ht, d, e)
        PROVE  Stores(var_ht', d, e)
    <3>1. d # id /\ d \in DOMAIN var_ht
      BY <1>3, <2>1 DEF Stores
    <3>2. d \in DOMAIN var_ht' /\ var_ht'[d] = var_ht[d]
      BY <1>5, <3>1
    <3> QED
      BY <2>1, <3>2 DEF Stores
  <2> QED
    BY <2>1 DEF Kept, Keeps
<1>7. Frames' /\ frames' \in Seq(FrameT)
  BY <1>6, FramesSame, InvGives
<1>8. NextTyped
  BY <1>5, <1>7, InvGives DEF NextTyped, Typed
<1>9. CountsNext
  <2>1. ASSUME NEW i \in Ids
        PROVE  ProxyCount(proxy', i) + Pend(frames', Step("release", i)) =
                 ProxyCount(proxy, i) + Pend(frames, Step("release", i))
                 - One(i = id) + CountOf(var_ht[id].slots, i)
    <3>1. PICK one \in {0, 1} : one = One(id = i) /\ one = One(i = id)
      BY DEF One
    <3>2. ProxyCount(proxy', i) = ProxyCount(proxy, i) - one
      BY <1>2, <3>1
    <3>3. ProxyCount(proxy, i) \in Nat /\ Pend(frames, Step("release", i)) \in Nat
      BY HoldParts
    <3>4. CountOf(var_ht[id].slots, i) = 0
      BY <1>2, EmptyHolds
    <3>5. ProxyCount(proxy', i) + Pend(frames, Step("release", i)) =
            ProxyCount(proxy, i) + Pend(frames, Step("release", i)) - one + 0
      BY ONLY <3>1, <3>2, <3>3
    <3> QED
      BY <3>1, <3>4, <3>5
  <2> QED
    BY <1>2, <1>3, <1>4, <1>8, <2>1, CountsDrop
<1>10. Kinds'
  <2>1. ASSUME NEW y \in Proxies, y # x PROVE proxy[y].ppobj # id
    <3>1. SUFFICES ASSUME proxy[y].ppobj = id PROVE FALSE
      OBVIOUS
    <3>2. y \in ProxiesOf(proxy', id)
      BY <1>2, <2>1, <3>1 DEF ProxiesOf
    <3>3. ProxyCount(proxy', id) > 0
      BY <3>2, ProxiesFinite, Positive DEF ProxyCount
    <3>4. ProxyCount(proxy', id) = ProxyCount(proxy, id) - 1
      BY <1>2 DEF One
    <3>5. /\ owned[id] \in Nat /\ SlotCount(var_ht, id) \in Nat /\ ProxyCount(proxy, id) \in Nat
          /\ Lent(frames, id) \in Nat /\ Pend(frames, Step("release", id)) \in Nat
          /\ Hold(id) = owned[id] + SlotCount(var_ht, id) + ProxyCount(proxy, id)
                        + Lent(frames, id) + Pend(frames, Step("release", id))
      BY <1>2, HoldParts
    <3> QED
      BY ONLY <1>3, <3>3, <3>4, <3>5
  <2>2. \A j \in DOMAIN var_ht' : KindOf(var_ht'[j])
    BY <1>5, InvGives DEF Kinds
  <2>3. ASSUME NEW y \in Proxies, y # x
        PROVE  IF proxy'[y].ppobj = None THEN proxy'[y].refs = 0
               ELSE /\ proxy'[y].refs > 0 /\ proxy'[y].ppobj \in DOMAIN var_ht'
                    /\ var_ht'[proxy'[y].ppobj].type = "OBJECT"
                    /\ var_ht'[proxy'[y].ppobj].obj = None
    BY <1>2, <1>5, <2>1, <2>3, InvGives DEF Kinds
  <2>4. proxy'[x].ppobj = None /\ proxy'[x].refs = 0
    BY <1>2 DEF Free
  <2> QED
    BY <2>2, <2>3, <2>4 DEF Kinds
<1>11. NPRefsExact'
  <2> SUFFICES ASSUME NEW o \in NPObjects
               PROVE  np'[o].refs = np'[o].script + Pend(frames', Step("dealloc", o)) + ObjCount(var_ht', o)
    BY Counted
  <2>1. One(var_ht[id].obj = o) = 0 /\ ObjCount(var_ht, o) \in Nat
    BY <1>2, <1>4, NamesAssumption, ObjsFinite DEF One
  <2>2. ObjCount(var_ht', o) = ObjCount(var_ht, o)
    BY <1>5, <2>1
  <2> QED
    BY <2>2, InvGives
<1>12. ProxiesAreMapped'
  BY <1>5, InvGives DEF ProxiesAreMapped
<1>13. TypeOK'
  BY <1>2, <1>8, TypeParts, InvGives DEF NextTyped
<1> QED
  BY <1>7, <1>9, <1>10, <1>11, <1>12, <1>13, Whole

(* A proxy goes and the variable stays. *)
LEMMA ProxyGoesKeeps ==
  ASSUME VarInv, NEW x \in Proxies, proxy[x].ppobj # None, ~Gone(proxy[x].ppobj),
         var_ht' = Released(proxy[x].ppobj), proxy' = [proxy EXCEPT ![x] = Free],
         UNCHANGED <<var_id, owned, lost, frames, np, calls>>
  PROVE  VarInv'
<1>1. PICK id : id = proxy[x].ppobj
  OBVIOUS
<1>2. /\ proxy' \in [Proxies -> ProxyT] /\ proxy'[x] = Free
      /\ \A y \in Proxies : y # x => proxy'[y] = proxy[y]
      /\ id \in Ids /\ id \in DOMAIN var_ht
      /\ \A i \in Ids : ProxyCount(proxy', i) = ProxyCount(proxy, i) - One(id = i)
  BY <1>1, ProxyGoes
<1>3. /\ ShapeKept /\ StoresKept
      /\ \A j \in DOMAIN var_ht : var_ht'[j].ref_count = var_ht[j].ref_count - One(id = j)
      /\ \A i : SlotCount(var_ht', i) = SlotCount(var_ht, i)
  BY <1>1, <1>2, LoseIs
<1>4. Kept
  BY <1>3, KeepsAll
<1>5. Frames' /\ frames' \in Seq(FrameT)
  BY <1>4, FramesSame, InvGives
<1>6. NPRefsExact' /\ ProxiesAreMapped' /\ np' \in [NPObjects -> NPT]
  BY <1>3, ObjectsKept
<1>7. Kinds'
  <2>1. \A j \in DOMAIN var_ht' : KindOf(var_ht'[j])
    BY <1>3, ShapeGives
  <2>2. ASSUME NEW y \in Proxies, y # x
        PROVE  IF proxy'[y].ppobj = None THEN proxy'[y].refs = 0
               ELSE /\ proxy'[y].refs > 0 /\ proxy'[y].ppobj \in DOMAIN var_ht'
                    /\ var_ht'[proxy'[y].ppobj].type = "OBJECT"
                    /\ var_ht'[proxy'[y].ppobj].obj = None
    <3>1. proxy'[y] = proxy[y]
      BY <1>2, <2>2
    <3>2. IF proxy[y].ppobj = None THEN proxy[y].refs = 0
          ELSE /\ proxy[y].refs > 0 /\ proxy[y].ppobj \in DOMAIN var_ht
               /\ var_ht[proxy[y].ppobj].type = "OBJECT" /\ var_ht[proxy[y].ppobj].obj = None
      BY InvGives DEF Kinds
    <3>3. /\ DOMAIN var_ht' = DOMAIN var_ht
          /\ \A j \in DOMAIN var_ht : var_ht'[j].type = var_ht[j].type /\ var_ht'[j].obj = var_ht[j].obj
      BY <1>3 DEF ShapeKept
    <3> QED
      BY <3>1, <3>2, <3>3
  <2>3. proxy'[x].ppobj = None /\ proxy'[x].refs = 0
    BY <1>2 DEF Free
  <2> QED
    BY <2>1, <2>2, <2>3 DEF Kinds
<1>8. ASSUME NEW i \in Ids PROVE Balanced(i)
  <2>1. PICK one \in {0, 1} : one = One(id = i) /\ (i \notin DOMAIN var_ht => one = 0)
    BY <1>2 DEF One
  <2>2. PICK min \in {0, 0 - 1} : min = 0 - one
    OBVIOUS
  <2>3. Delta(i, min, 0, 0, min, 0, 0, 0, 0)
    <3>1. /\ i \in DOMAIN var_ht => var_ht'[i].ref_count = var_ht[i].ref_count + min
          /\ SlotCount(var_ht', i) = SlotCount(var_ht, i) + 0
          /\ ProxyCount(proxy', i) = ProxyCount(proxy, i) + min
      <4>1. i \in DOMAIN var_ht => var_ht[i].ref_count \in Nat /\ var_ht'[i].ref_count = var_ht[i].ref_count - one
        BY <1>3, <2>1, InvGives DEF Var
      <4>2. SlotCount(var_ht', i) = SlotCount(var_ht, i) /\ SlotCount(var_ht, i) \in Nat
        BY <1>3, HoldParts
      <4>3. ProxyCount(proxy', i) = ProxyCount(proxy, i) - one /\ ProxyCount(proxy, i) \in Nat
        BY <1>2, <2>1, HoldParts
      <4> QED
        BY ONLY <2>1, <2>2, <4>1, <4>2, <4>3
    <3>2. /\ owned'[i] = owned[i] + 0 /\ lost'[i] = lost[i] + 0 /\ Lent(frames', i) = Lent(frames, i) + 0
          /\ Pend(frames', Step("release", i)) = Pend(frames, Step("release", i)) + 0
          /\ Pend(frames', Step("addref", i)) = Pend(frames, Step("addref", i)) + 0
      BY HoldParts DEF Adding
    <3> QED
      BY <3>1, <3>2 DEF Delta
  <2>4. /\ min = 0 + 0 + min + 0 + 0 + 0 - 0 /\ min \in Int /\ 0 \in Int
        /\ i \notin DOMAIN var_ht => 0 + 0 + min + 0 + 0 = 0 /\ 0 = 0
    BY <2>1, <2>2
  <2> QED
    BY <2>3, <2>4, BalancedBy
<1> QED
  BY <1>2, <1>3, <1>5, <1>6, <1>7, <1>8, QuietStep, InvGives

(* p2n_deallocate decrements a count that wraps around at zero. *)
LEMMA LeftIs ==
  ASSUME NEW n \in 1 .. CountSpace - 2
  PROVE  (0 + CountSpace - 1) % CountSpace = CountSpace - 1 /\ (n + CountSpace - 1) % CountSpace = n - 1
<1>1. CountSpace \in Nat \ {0}
  BY SpaceAssumption
<1>2. 0 + CountSpace - 1 \in 0 .. CountSpace - 1 /\ n + CountSpace - 1 \in CountSpace .. 2 * CountSpace - 1
  BY <1>1
<1>3. (0 + CountSpace - 1) % CountSpace = 0 + CountSpace - 1
  BY <1>1, <1>2, Modulo
<1>4. (n + CountSpace - 1) % CountSpace = (n + CountSpace - 1) - CountSpace
  BY <1>1, <1>2, Modulo
<1> QED
  BY <1>1, <1>3, <1>4

LEMMA LiveProxy ==
  ASSUME VarInv, NEW x \in Proxies, proxy[x].refs > 0 PROVE proxy[x].ppobj # None
BY InvGives DEF Kinds

LEMMA ScriptDropsProxyKeeps ==
  ASSUME VarInv, NEW x \in Proxies, ScriptDropsProxy(x) PROVE VarInv'
<1>1. /\ proxy[x].refs \in 1 .. CountSpace - 2 /\ CountSpace \in Nat
      /\ UNCHANGED <<var_id, owned, lost, frames, np, calls>>
  BY SpaceAssumption DEF ScriptDropsProxy
<1>2. proxy[x].ppobj # None
  BY <1>1, LiveProxy
<1>3. CASE proxy[x].refs = 1
  <2>1. p2n_deallocate(x, 0)
    BY <1>3 DEF ScriptDropsProxy
  <2>2. (0 + CountSpace - 1) % CountSpace = CountSpace - 1 /\ CountSpace - 1 \in 1 .. CountSpace - 1
    BY <1>1, LeftIs
  <2>3. proxy' = [proxy EXCEPT ![x].refs = CountSpace - 1] /\ var_ht' = var_ht
    BY <2>1, <2>2 DEF p2n_deallocate
  <2> QED
    BY <1>1, <1>2, <2>2, <2>3, ProxyCountKeeps
<1>4. CASE proxy[x].refs # 1
  <2>1. proxy' = [proxy EXCEPT ![x].refs = @ - 1] /\ var_ht' = var_ht
    BY <1>4 DEF ScriptDropsProxy
  <2>2. PICK n \in 1 .. CountSpace - 1 : n = proxy[x].refs - 1
    BY <1>1, <1>4
  <2>3. proxy' = [proxy EXCEPT ![x].refs = n]
    BY <2>1, <2>2
  <2> QED
    BY <1>1, <1>2, <2>1, <2>3, ProxyCountKeeps
<1> QED
  BY <1>3, <1>4

LEMMA InvalidateKeeps ==
  ASSUME VarInv, NEW x \in Proxies, p2n_invalidate(x) PROVE VarInv'
<1>1. PICK n \in 1 .. CountSpace - 2 : n = proxy[x].refs
  BY DEF p2n_invalidate
<1>2. /\ p2n_deallocate(x, n) /\ UNCHANGED <<var_id, owned, lost, frames, np, calls>>
      /\ CountSpace \in Nat
  BY <1>1, SpaceAssumption DEF p2n_invalidate
<1>3. (n + CountSpace - 1) % CountSpace = n - 1
  BY LeftIs
<1>4. proxy[x].ppobj # None
  BY <1>1, LiveProxy
<1>5. CASE n = 1
  <2>1. var_ht' = Released(proxy[x].ppobj) /\ proxy' = [proxy EXCEPT ![x] = Free]
    BY <1>2, <1>3, <1>5 DEF p2n_deallocate
  <2> QED
    BY <1>2, <1>4, <2>1, LastProxyKeeps, ProxyGoesKeeps
<1>6. CASE n # 1
  <2>1. proxy' = [proxy EXCEPT ![x].refs = n - 1] /\ var_ht' = var_ht
    BY <1>2, <1>3, <1>6 DEF p2n_deallocate
  <2>2. PICK k \in 1 .. CountSpace - 1 : k = n - 1
    BY <1>2, <1>6
  <2>3. proxy' = [proxy EXCEPT ![x].refs = k]
    BY <2>1, <2>2
  <2> QED
    BY <1>2, <1>4, <2>1, <2>3, ProxyCountKeeps
<1> QED
  BY <1>5, <1>6

-----------------------------------------------------------------------------
(* The invariant *)

LEMMA InitHolds == Init => VarInv
<1> SUFFICES ASSUME Init PROVE VarInv
  OBVIOUS
<1>1. /\ var_ht = <<>> /\ var_id = 1 /\ owned = [id \in Ids |-> 0] /\ lost = [id \in Ids |-> 0]
      /\ frames = <<>> /\ np = [o \in NPObjects |-> [refs |-> 0, script |-> 0, mapped |-> FALSE]]
      /\ proxy = [x \in Proxies |-> Free] /\ calls = 0
  BY DEF Init
<1>2. DOMAIN var_ht = {} /\ DOMAIN frames = {}
  BY <1>1
<1>3. TypeOK
  <2>1. Typed(var_ht, owned, lost, frames)
    <3>1. frames \in Seq(FrameT)
      BY <1>1
    <3> QED
      BY <1>1, <1>2, <3>1 DEF Typed, Table
  <2>2. var_id \in Ids /\ calls \in 0 .. MaxCalls
    BY <1>1, SpaceAssumption, BoundsAssumption DEF Ids
  <2>3. np \in [NPObjects -> NPT]
    BY <1>1 DEF NPT
  <2>4. proxy \in [Proxies -> ProxyT]
    BY <1>1, SpaceAssumption DEF ProxyT, Free
  <2> QED
    BY <2>1, <2>2, <2>3, <2>4, TypeParts
<1>4. Kinds /\ LostAreThere /\ Frames /\ ProxiesAreMapped
  BY <1>1, <1>2 DEF Kinds, LostAreThere, Frames, ProxiesAreMapped, Free
<1>5. HeldVarsAreAlive
  <2> SUFFICES ASSUME NEW i \in Ids PROVE Holders(i) = 0
    BY DEF HeldVarsAreAlive
  <2>1. SlotCount(var_ht, i) = 0
    <3>1. SlotsIn(var_ht, i) = {}
      BY <1>2 DEF SlotsIn
    <3> QED
      BY <3>1, FS_EmptySet DEF SlotCount
  <2>2. ProxyCount(proxy, i) = 0
    <3>1. ProxiesOf(proxy, i) = {}
      BY <1>1 DEF ProxiesOf, Free, Ids, None
    <3> QED
      BY <3>1, FS_EmptySet DEF ProxyCount
  <2>3. Lent(frames, i) = 0
    <3>1. LentIn(frames, i) = {}
      BY <1>2 DEF LentIn
    <3> QED
      BY <3>1, FS_EmptySet DEF Lent
  <2>4. Pend(frames, Step("release", i)) = 0
    <3>1. Places(frames, Step("release", i)) = {}
      BY <1>2, PlacesIs
    <3> QED
      BY <3>1, FS_EmptySet DEF Pend
  <2>5. owned[i] = 0
    BY <1>1
  <2>6. H(owned, var_ht, proxy, frames, i) = 0
    BY <2>1, <2>2, <2>3, <2>4, <2>5 DEF H
  <2> QED
    BY <2>6, Counted
<1>6. RefCountExact
  BY <1>2 DEF RefCountExact
<1>7. NPRefsExact
  <2> SUFFICES ASSUME NEW o \in NPObjects
               PROVE  np[o].refs = np[o].script + Pend(frames, Step("dealloc", o)) + ObjCount(var_ht, o)
    BY Counted
  <2>1. Pend(frames, Step("dealloc", o)) = 0
    <3>1. Places(frames, Step("dealloc", o)) = {}
      BY <1>2, PlacesIs
    <3> QED
      BY <3>1, FS_EmptySet DEF Pend
  <2>2. ObjCount(var_ht, o) = 0
    <3>1. ObjsOf(var_ht, o) = {}
      BY <1>2 DEF ObjsOf
    <3> QED
      BY <3>1, FS_EmptySet DEF ObjCount
  <2>3. np[o].refs = 0 /\ np[o].script = 0
    BY <1>1
  <2> QED
    BY <2>1, <2>2, <2>3
<1> QED
  BY <1>3, <1>4, <1>5, <1>6, <1>7 DEF VarInv

LEMMA StutterKeeps ==
  ASSUME VarInv, UNCHANGED vars PROVE VarInv'
<1>1. UNCHANGED <<var_ht, var_id, owned, lost, frames, np, proxy, calls>>
  BY DEF vars
<1>2. ShapeKept /\ StoresKept
  BY <1>1, SameTable
<1>3. Kept
  BY <1>1, <1>2, KeepsAll
<1>4. Frames' /\ frames' \in Seq(FrameT) /\ Kinds'
  BY <1>1, <1>2, <1>3, FramesSame, InvGives, ShapeGives
<1>5. NPRefsExact' /\ ProxiesAreMapped' /\ np' \in [NPObjects -> NPT]
  BY <1>1, <1>2, ObjectsKept
<1>6. ASSUME NEW i \in Ids PROVE Balanced(i)
  BY <1>1, SameCounts
<1> QED
  BY <1>1, <1>2, <1>4, <1>5, <1>6, QuietStep, InvGives

LEMMA StepHolds == VarInv /\ PlainCalls /\ [Next]_vars => VarInv'
<1> SUFFICES ASSUME VarInv, PlainCalls, [Next]_vars PROVE VarInv'
  OBVIOUS
<1>1. ASSUME NEW arg \in {None} \cup Proxies \cup NPObjects, p2n_invoke_comt(arg) PROVE VarInv'
  BY <1>1, InvokeKeeps
<1>2. ASSUME NEW res \in {None} \cup Ids, Return(res) PROVE VarInv'
  BY <1>2, ReturnKeeps
<1>3. ASSUME ppb_var_create_object \/ ppb_var_dictionary_create \/ ppb_var_array_create PROVE VarInv'
  BY <1>3, CreateKeeps DEF ppb_var_create_object, ppb_var_dictionary_create, ppb_var_array_create
<1>4. ASSUME NEW id \in Ids, ppb_var_add_ref(id) \/ ppb_var_release(id) \/ n2p_call(id) PROVE VarInv'
  BY <1>4, AddRefKeeps, ReleaseKeeps, ArgumentKeeps
<1>5. ASSUME NEW c \in DOMAIN var_ht, NEW s \in Slots,
             ppb_var_dictionary_get(c, s) \/ ppb_var_array_get(c, s)
      PROVE  VarInv'
  BY <1>5, GetKeeps DEF ppb_var_dictionary_get, ppb_var_array_get
<1>6. ASSUME NEW c \in DOMAIN var_ht, NEW s \in Slots, NEW id \in DOMAIN var_ht,
             ppb_var_array_set(c, s, id)
      PROVE  VarInv'
  BY <1>6, ArraySetKeeps
<1>7. ASSUME NEW c \in DOMAIN var_ht, NEW s \in Slots, NEW id \in DOMAIN var_ht,
             ppb_var_dictionary_set(c, s, id)
      PROVE  VarInv'
  BY <1>7, DictionaryPutKeeps, DictionaryReplaceKeeps
<1>8. ASSUME NEW o \in NPObjects, n2p_result_object(o) \/ ScriptDropsObject(o) PROVE VarInv'
  BY <1>8, ResultObjectKeeps, ScriptDropKeeps
<1>9. ASSUME NEW x \in Proxies, n2p_result_proxy(x) \/ ScriptDropsProxy(x) \/ p2n_invalidate(x)
      PROVE  VarInv'
  BY <1>9, ResultProxyKeeps, ScriptDropsProxyKeeps, InvalidateKeeps
<1>10. ASSUME ReleaseStep PROVE VarInv'
  BY <1>10, LastReleaseKeeps, ReleaseStepKeeps
<1>11. ASSUME AddRefStep \/ ConvertResult \/ n2p_deallocate_ptac PROVE VarInv'
  BY <1>11, AddRefStepKeeps, ConvertResultKeeps, DeallocateKeeps
<1>12. ASSUME UNCHANGED vars PROVE VarInv'
  BY <1>12, StutterKeeps
<1> QED
  BY <1>1, <1>2, <1>3, <1>4, <1>5, <1>6, <1>7, <1>8, <1>9, <1>10, <1>11, <1>12 DEF Next

-----------------------------------------------------------------------------
(* The results *)

(* Every count, set and mapping of ppb_var.c that the properties below     *)
(* speak of stays as the invariant says, whatever the callbacks do.        *)
THEOREM VariablesInvariant == PlainCalls /\ Spec => []VarInv
<1> SUFFICES ASSUME PlainCalls PROVE Spec => []VarInv
  OBVIOUS
<1>1. VarInv /\ [Next]_vars => VarInv'
  BY StepHolds
<1> QED
  BY <1>1, InitHolds, PTL DEF Spec

(* ppb_var_release frees a variable with its last holder and not before,   *)
(* and n2p_deallocate_ptac forgets the instance of an object of the        *)
(* browser only when no variable for it is left: what plugin code, a       *)
(* container, a proxy, an argument or a release to do refers to is there.  *)
THEOREM HeldThingsExistAlways == PlainCalls /\ Spec => []HeldThingsExist
<1>1. VarInv => HeldThingsExist
  BY DEF VarInv, HeldThingsExist
<1> QED
  BY <1>1, VariablesInvariant, PTL

(* ref_count is the number of holders plus the references that             *)
(* ppb_var_array_set dropped, up to the one ppb_var_dictionary_set is      *)
(* about to take; the references of a browser object are those of scripts  *)
(* and one for every n2p variable.                                         *)
THEOREM CountsAreExactAlways == PlainCalls /\ Spec => []CountsAreExact
<1>1. VarInv => CountsAreExact
  BY DEF VarInv, CountsAreExact
<1> QED
  BY <1>1, VariablesInvariant, PTL

LEMMA NewIdStep == Next => var_id' = var_id \/ (HasRoom /\ var_id' = get_new_var_id)
<1> SUFFICES ASSUME Next PROVE var_id' = var_id \/ (HasRoom /\ var_id' = get_new_var_id)
  OBVIOUS
<1>1. ASSUME NEW arg \in {None} \cup Proxies \cup NPObjects, p2n_invoke_comt(arg)
      PROVE  var_id' = var_id \/ (HasRoom /\ var_id' = get_new_var_id)
  BY <1>1 DEF p2n_invoke_comt
<1>2. ASSUME NEW type, Create(type) PROVE HasRoom /\ var_id' = get_new_var_id
  BY <1>2 DEF Create
<1>3. ASSUME NEW o \in NPObjects, n2p_result_object(o) PROVE HasRoom /\ var_id' = get_new_var_id
  BY <1>3 DEF n2p_result_object
<1>4. ASSUME NEW res \in {None} \cup Ids, Return(res) PROVE var_id' = var_id
  BY <1>4 DEF Return
<1>5. ASSUME NEW id \in Ids, ppb_var_add_ref(id) \/ ppb_var_release(id) \/ n2p_call(id)
      PROVE  var_id' = var_id
  BY <1>5 DEF ppb_var_add_ref, ppb_var_release, n2p_call
<1>6. ASSUME NEW c \in DOMAIN var_ht, NEW s \in Slots, Get(c, s) PROVE var_id' = var_id
  BY <1>6 DEF Get
<1>7. ASSUME NEW c \in DOMAIN var_ht, NEW s \in Slots, NEW id \in DOMAIN var_ht,
             ppb_var_array_set(c, s, id) \/ ppb_var_dictionary_set(c, s, id)
      PROVE  var_id' = var_id
  BY <1>7 DEF ppb_var_array_set, ppb_var_dictionary_set
<1>8. ASSUME NEW o \in NPObjects, ScriptDropsObject(o) PROVE var_id' = var_id
  BY <1>8 DEF ScriptDropsObject
<1>9. ASSUME NEW x \in Proxies, n2p_result_proxy(x) \/ ScriptDropsProxy(x) \/ p2n_invalidate(x)
      PROVE  var_id' = var_id
  BY <1>9 DEF n2p_result_proxy, ScriptDropsProxy, p2n_invalidate
<1>10. ASSUME ReleaseStep \/ AddRefStep \/ ConvertResult \/ n2p_deallocate_ptac PROVE var_id' = var_id
  BY <1>10 DEF ReleaseStep, AddRefStep, ConvertResult, n2p_deallocate_ptac
<1> QED
  BY <1>1, <1>2, <1>3, <1>4, <1>5, <1>6, <1>7, <1>8, <1>9, <1>10
  DEF Next, ppb_var_create_object, ppb_var_dictionary_create, ppb_var_array_create,
      ppb_var_dictionary_get, ppb_var_array_get

(* get_new_var_id never hands out an id that somebody still refers to,     *)
(* even after var_id has wrapped around.                                   *)
THEOREM NewIdsAreUnusedAlways == PlainCalls /\ Spec => NewIdsAreUnused
<1>1. VarInv /\ [Next]_vars =>
        [var_id' # var_id => var_id' \notin DOMAIN var_ht /\ Holders(var_id') = 0]_vars
  <2> SUFFICES ASSUME VarInv, Next, var_id' # var_id
               PROVE  var_id' \notin DOMAIN var_ht /\ Holders(var_id') = 0
    BY DEF vars
  <2>1. HasRoom /\ var_id' = get_new_var_id
    BY NewIdStep
  <2>2. var_id \in Ids /\ DOMAIN var_ht \subseteq Ids
    BY InvGives DEF Table
  <2>3. var_id' \in Ids \ DOMAIN var_ht
    BY <2>1, <2>2, NewIdIs
  <2>4. ASSUME NEW i \in Ids \ DOMAIN var_ht PROVE Holders(i) = 0
    <3>1. Hold(i) \in Nat /\ ~(Hold(i) > 0)
      BY InvGives
    <3> QED
      BY <3>1, Counted DEF Hold
  <2>5. Holders(var_id') = 0
    BY <2>3, <2>4, Zenon DEF Holders, InSlots, InProxies, InArgs, Pending
  <2> QED
    BY <2>3, <2>5
<1> QED
  BY <1>1, VariablesInvariant, PTL DEF Spec, NewIdsAreUnused
=============================================================================
