------------------------------- MODULE PPVar --------------------------------
(***************************************************************************)
(* The variables of src/ppb_var.c and the objects that cross the border    *)
(* between plugin and browser.                                             *)
(*                                                                         *)
(* A PP_Var of a counted type is an id in var_ht.  Arrays and dictionaries *)
(* hold references to their elements.  An object of the browser (NPObject) *)
(* reaches the plugin as a variable of n2p_proxy_class, which owns one     *)
(* reference to it; an object of the plugin reaches the browser as a p2n   *)
(* proxy, an NPObject which owns one reference to the variable.            *)
(*                                                                         *)
(* Plugin code runs in callbacks on the plugin thread.  A release that     *)
(* deallocates an n2p object waits in a nested message loop, where further *)
(* callbacks run: frames is the stack of callbacks, each with the steps    *)
(* that the call it is in still has to do.                                 *)
(***************************************************************************)
EXTENDS Integers, Sequences, FiniteSets, Functions

CONSTANTS
  NPObjects,    \* objects of the browser
  Proxies,      \* p2n proxies: NPObjects of p2n_proxy_class
  MaxSlots,     \* bound: elements of a container
  MaxCalls,     \* bound: calls of plugin code in a behaviour
  IdSpace,      \* 2^32: var_id is an uint32_t
  CountSpace,   \* 2^32: NPObject.referenceCount is an uint32_t
  MaxRefs,      \* bound: reference counts the plugin drives up to
  MaxFrames,    \* bound: nested callbacks
  LendObjects,  \* scripts pass objects of the browser to plugin methods
  NestedSets,   \* nested callbacks change dictionaries, too
  OrphanCalls   \* scripts call methods of proxies that npobj_to_npp_ht does not have

None == -1
Ids == 0 .. IdSpace - 1
Slots == 1 .. MaxSlots

ASSUME SpaceAssumption == IdSpace \in Nat \ {0, 1} /\ CountSpace \in Nat \ {0, 1}
ASSUME NamesAssumption == NPObjects \cap Ids = {} /\ None \notin NPObjects
ASSUME ProxiesAssumption == IsFiniteSet(Proxies) /\ None \notin Proxies
ASSUME BoundsAssumption ==
  MaxSlots \in Nat /\ MaxCalls \in Nat /\ MaxRefs \in Nat \ {0} /\ MaxFrames \in Nat \ {0}
ASSUME FlagsAssumption == {LendObjects, NestedSets, OrphanCalls} \subseteq BOOLEAN

VARIABLES
  var_ht,  \* id -> struct var_s
  var_id,  \* the id handed out last
  owned,   \* references to each variable that plugin code accounts for
  lost,    \* references dropped without a release
  frames,  \* callbacks on the plugin thread, innermost last
  np,      \* objects of the browser: reference count, references of scripts,
           \* and whether npobj_to_npp_ht has it
  proxy,   \* p2n proxies: ppobj and reference count
  calls    \* calls of plugin code so far

vars == <<var_ht, var_id, owned, lost, frames, np, proxy, calls>>

Var == [type : {"OBJECT", "DICTIONARY", "ARRAY"}, ref_count : Nat \ {0},
        slots : [Slots -> Ids \cup {None}], obj : NPObjects \cup {None}]

Steps == [op : {"release", "addref", "tonp"}, of : Ids] \cup [op : {"dealloc"}, of : NPObjects]

TypeOK ==
  /\ DOMAIN var_ht \subseteq Ids
  /\ \A id \in DOMAIN var_ht : var_ht[id] \in Var
  /\ var_id \in Ids
  /\ owned \in [Ids -> Nat]
  /\ lost \in [Ids -> Nat]
  /\ frames \in Seq([todo : Seq(Steps), lent : Ids \cup {None},
                     args : SUBSET Ids, done : BOOLEAN])
  /\ np \in [NPObjects -> [refs : Nat, script : Nat, mapped : BOOLEAN]]
  /\ proxy \in [Proxies -> [ppobj : Ids \cup {None}, refs : 0 .. CountSpace - 1]]
  /\ calls \in 0 .. MaxCalls

Empty == [s \in Slots |-> None]
Free == [ppobj |-> None, refs |-> 0]

Init ==
  /\ var_ht = <<>>
  /\ var_id = 1
  /\ owned = [id \in Ids |-> 0]
  /\ lost = [id \in Ids |-> 0]
  /\ frames = <<>>
  /\ np = [o \in NPObjects |-> [refs |-> 0, script |-> 0, mapped |-> FALSE]]
  /\ proxy = [x \in Proxies |-> Free]
  /\ calls = 0

-----------------------------------------------------------------------------
(* The table *)

(* Mutant: ids in use are not skipped. *)
NextIdBlindly == (var_id + 1) % IdSpace

(* get_new_var_id: the next id, modulo 2^32, that is not in use. *)
get_new_var_id ==
  LET free == {k \in 1 .. IdSpace : (var_id + k) % IdSpace \notin DOMAIN var_ht}
  IN (var_id + CHOOSE k \in free : \A j \in free : k <= j) % IdSpace

HasRoom == DOMAIN var_ht # Ids

Put(ht, id, v) == [i \in DOMAIN ht \cup {id} |-> IF i = id THEN v ELSE ht[i]]
Drop(ht, id) == [i \in DOMAIN ht \ {id} |-> ht[i]]

(* ppb_var_add_ref: an id that is gone is ignored. *)
AddRef(ht, id) == IF id \in DOMAIN ht THEN [ht EXCEPT ![id].ref_count = @ + 1] ELSE ht

NewVar(type, obj) == [type |-> type, ref_count |-> 1, slots |-> Empty, obj |-> obj]

(* Mutant: the variable goes one release too late. *)
GoneLate(id) == id \in DOMAIN var_ht /\ var_ht[id].ref_count - 1 < 0

(* ppb_var_release, inside the lock: the count reaches zero. *)
Gone(id) == id \in DOMAIN var_ht /\ var_ht[id].ref_count - 1 <= 0

Released(id) ==
  IF id \notin DOMAIN var_ht THEN var_ht
  ELSE IF Gone(id) THEN Drop(var_ht, id)
  ELSE [var_ht EXCEPT ![id].ref_count = @ - 1]

Step(op, x) == [op |-> op, of |-> x]

(* The orders in which the elements of a container are released: that of   *)
(* the indexes for an array, any for the hash table of a dictionary.       *)
Orders(v) ==
  LET used == {s \in Slots : v.slots[s] # None} IN
  {f \in Bijection(1 .. Cardinality(used), used) :
     v.type = "ARRAY" => \A i, j \in DOMAIN f : i < j => f[i] < f[j]}

(* ppb_var_release, after the lock: elements of a container are released,  *)
(* the object of an n2p variable is deallocated.                           *)
Freeing(v, order) ==
  [i \in DOMAIN order |-> Step("release", v.slots[order[i]])]
  \o (IF v.obj # None THEN <<Step("dealloc", v.obj)>> ELSE <<>>)

-----------------------------------------------------------------------------
(* Callbacks on the plugin thread *)

Top == frames[Len(frames)]
InFrame == frames # <<>>
Running == InFrame /\ ~Top.done /\ Top.todo = <<>>
Doing(op) == InFrame /\ Top.todo # <<>> /\ Head(Top.todo).op = op
Waiting == Doing("dealloc") \/ Doing("tonp")

(* The innermost callback is left with these steps; after the last one it  *)
(* goes on, or ends if the method has returned.                            *)
WithTop(todo) ==
  IF Top.done /\ todo = <<>>
  THEN SubSeq(frames, 1, Len(frames) - 1)
  ELSE [frames EXCEPT ![Len(frames)].todo = todo]

(* Plugin code makes a call. *)
Call == Running /\ calls < MaxCalls /\ calls' = calls + 1

(* Plugin code uses what it has a reference to, or was lent as argument. *)
MayUse(id) == id \in DOMAIN var_ht /\ (owned[id] > 0 \/ Top.lent = id)

(* It gives up a reference of its own, and none that a call around it was  *)
(* given as argument.                                                      *)
MayDrop(id) == owned[id] > Cardinality({f \in DOMAIN frames : id \in frames[f].args})

Owns(id) == [owned EXCEPT ![id] = @ + 1]

Calls(lent) ==
  frames' = Append(frames, [todo |-> <<>>, lent |-> lent, args |-> {}, done |-> FALSE])

(* p2n_invoke_comt, and with no argument any callback: the argument is     *)
(* converted.  While a callback waits, the nested loop takes further       *)
(* calls.                                                                  *)
p2n_invoke_comt(arg) ==
  /\ frames = <<>> \/ Waiting
  /\ Len(frames) < MaxFrames
  /\ \/ /\ arg = None
        /\ Calls(None)
        /\ UNCHANGED <<var_ht, var_id>>
     \/ /\ arg \in Proxies
        /\ proxy[arg].refs > 0
        /\ Calls(proxy[arg].ppobj)
        /\ var_ht' = AddRef(var_ht, proxy[arg].ppobj)
        /\ UNCHANGED var_id
     \/ /\ arg \in NPObjects
        /\ LendObjects
        /\ np[arg].script > 0
        /\ HasRoom
        /\ var_id' = get_new_var_id
        /\ Calls(var_id')
        /\ var_ht' = Put(var_ht, var_id', NewVar("OBJECT", arg))
  /\ UNCHANGED <<owned, lost, np, proxy, calls>>

(* The method returns: arguments are released, the result is converted and *)
(* released.                                                               *)
Return(res) ==
  /\ Running
  /\ res # None => MayDrop(res) /\ res \in DOMAIN var_ht /\ var_ht[res].type = "OBJECT"
  /\ LET args   == IF Top.lent = None THEN <<>> ELSE <<Step("release", Top.lent)>>
         result == IF res = None THEN <<>> ELSE <<Step("tonp", res), Step("release", res)>>
     IN frames' = IF args \o result = <<>>
                  THEN SubSeq(frames, 1, Len(frames) - 1)
                  ELSE [frames EXCEPT ![Len(frames)] =
                          [todo |-> args \o result, lent |-> None, args |-> {}, done |-> TRUE]]
  /\ owned' = IF res = None THEN owned ELSE [owned EXCEPT ![res] = @ - 1]
  /\ UNCHANGED <<var_ht, var_id, lost, np, proxy, calls>>

(* All creating functions are alike; a string or an array buffer, which    *)
(* holds no references, is like a fresh object of the plugin.              *)
Create(type) ==
  /\ Call
  /\ HasRoom
  /\ var_id' = get_new_var_id
  /\ var_ht' = Put(var_ht, var_id', NewVar(type, None))
  /\ owned' = Owns(var_id')
  /\ UNCHANGED <<lost, frames, np, proxy>>

ppb_var_create_object == Create("OBJECT")
ppb_var_dictionary_create == Create("DICTIONARY")
ppb_var_array_create == Create("ARRAY")

ppb_var_add_ref(id) ==
  /\ Call
  /\ MayUse(id)
  /\ var_ht[id].ref_count < MaxRefs
  /\ var_ht' = AddRef(var_ht, id)
  /\ owned' = Owns(id)
  /\ UNCHANGED <<var_id, lost, frames, np, proxy>>

ppb_var_release(id) ==
  /\ Call
  /\ MayDrop(id)
  /\ owned' = [owned EXCEPT ![id] = @ - 1]
  /\ frames' = WithTop(<<Step("release", id)>>)
  /\ UNCHANGED <<var_ht, var_id, lost, np, proxy>>

(* Mutant: the element is handed out without a reference. *)
GetWithoutRef(c, s) ==
  LET id == var_ht[c].slots[s] IN
  /\ Call
  /\ MayUse(c)
  /\ id # None
  /\ owned' = Owns(id)
  /\ UNCHANGED <<var_ht, var_id, lost, frames, np, proxy>>

Get(c, s) ==
  LET id == var_ht[c].slots[s] IN
  /\ Call
  /\ MayUse(c)
  /\ id # None
  /\ id \in DOMAIN var_ht => var_ht[id].ref_count < MaxRefs
  /\ var_ht' = AddRef(var_ht, id)
  /\ owned' = Owns(id)
  /\ UNCHANGED <<var_id, lost, frames, np, proxy>>

ppb_var_dictionary_get(d, s) == var_ht[d].type = "DICTIONARY" /\ Get(d, s)
ppb_var_array_get(a, s) == var_ht[a].type = "ARRAY" /\ Get(a, s)

(* The old element is overwritten, not released. *)
ppb_var_array_set(a, s, id) ==
  LET old == var_ht[a].slots[s] IN
  /\ Call
  /\ MayUse(a) /\ MayUse(id)
  /\ var_ht[a].type = "ARRAY"
  /\ var_ht[id].ref_count < MaxRefs
  /\ var_ht' = AddRef([var_ht EXCEPT ![a].slots[s] = id], id)
  /\ lost' = IF old = None THEN lost ELSE [lost EXCEPT ![old] = @ + 1]
  /\ UNCHANGED <<var_id, owned, frames, np, proxy>>

(* Mutant: no reference is taken for the dictionary. *)
SetWithoutRef(d, s, id) ==
  LET old == var_ht[d].slots[s] IN
  /\ Call
  /\ MayUse(d) /\ MayUse(id)
  /\ var_ht[d].type = "DICTIONARY"
  /\ var_ht' = [var_ht EXCEPT ![d].slots[s] = id]
  /\ frames' = WithTop(IF old = None THEN <<>> ELSE <<Step("release", old)>>)
  /\ UNCHANGED <<var_id, owned, lost, np, proxy>>

(* g_hash_table_replace releases the old value; the reference to the new   *)
(* one is taken after that.                                                *)
ppb_var_dictionary_set(d, s, id) ==
  LET old == var_ht[d].slots[s] IN
  /\ Call
  /\ MayUse(d) /\ MayUse(id)
  /\ var_ht[d].type = "DICTIONARY"
  /\ var_ht[id].ref_count < MaxRefs
  /\ Len(frames) > 1 => NestedSets
  /\ IF old = None
     THEN /\ var_ht' = AddRef([var_ht EXCEPT ![d].slots[s] = id], id)
          /\ UNCHANGED frames
     ELSE /\ var_ht' = [var_ht EXCEPT ![d].slots[s] = id]
          /\ frames' = [frames EXCEPT ![Len(frames)].args = {d, id},
               ![Len(frames)].todo = <<Step("release", old), Step("addref", id)>>]
  /\ UNCHANGED <<var_id, owned, lost, np, proxy>>

(* n2p_get_property, n2p_call, n2p_construct, ExecuteScript and            *)
(* GetWindowObject with a result that is an object of the browser: its     *)
(* reference passes to the new variable.                                   *)
n2p_result_object(o) ==
  /\ Call
  /\ HasRoom
  /\ var_id' = get_new_var_id
  /\ var_ht' = Put(var_ht, var_id', NewVar("OBJECT", o))
  /\ owned' = Owns(var_id')
  /\ np' = [np EXCEPT ![o].refs = @ + 1, ![o].mapped = TRUE]
  /\ UNCHANGED <<lost, frames, proxy>>

(* ... with a result that is an object of the plugin: the reference to the *)
(* proxy is never given back.                                              *)
n2p_result_proxy(x) ==
  LET id == proxy[x].ppobj IN
  /\ Call
  /\ proxy[x].refs \in 1 .. CountSpace - 3
  /\ var_ht[id].ref_count < MaxRefs
  /\ proxy' = [proxy EXCEPT ![x].refs = @ + 1]
  /\ var_ht' = AddRef(var_ht, id)
  /\ owned' = Owns(id)
  /\ UNCHANGED <<var_id, lost, frames, np>>

(* Mutant: the object is not retained. *)
KeptWithoutRetain(id, mapped) ==
  IF var_ht[id].obj # None
  THEN /\ np' = [np EXCEPT ![var_ht[id].obj].script = @ + 1, ![var_ht[id].obj].mapped = mapped]
       /\ UNCHANGED <<var_ht, proxy>>
  ELSE \E x \in Proxies :
       /\ proxy[x] = Free
       /\ proxy' = [proxy EXCEPT ![x] = [ppobj |-> id, refs |-> 1]]
       /\ var_ht' = AddRef(var_ht, id)
       /\ UNCHANGED np

(* The conversion of an argument of n2p_call or of a result of p2n_invoke  *)
(* that a script keeps: the object behind an n2p variable is retained, for *)
(* an object of the plugin a new proxy is made.  The mapping of the object *)
(* is then as given.                                                       *)
KeptByScript(id, mapped) ==
  IF var_ht[id].obj # None
  THEN /\ np' = [np EXCEPT ![var_ht[id].obj].refs = @ + 1, ![var_ht[id].obj].script = @ + 1,
                           ![var_ht[id].obj].mapped = mapped]
       /\ UNCHANGED <<var_ht, proxy>>
  ELSE \E x \in Proxies :
       /\ proxy[x] = Free
       /\ proxy' = [proxy EXCEPT ![x] = [ppobj |-> id, refs |-> 1]]
       /\ var_ht' = AddRef(var_ht, id)
       /\ UNCHANGED np

pp_var_to_np_variant(id, mapped) ==
  /\ var_ht[id].type = "OBJECT"
  /\ var_ht[id].obj # None => np[var_ht[id].obj].script < MaxRefs - 1
  /\ KeptByScript(id, mapped)

HasInstance(id) == var_ht[id].obj # None /\ np[var_ht[id].obj].mapped

n2p_call(arg) ==
  /\ Call
  /\ MayUse(arg)
  /\ pp_var_to_np_variant(arg, HasInstance(arg))
  /\ UNCHANGED <<var_id, owned, lost, frames>>

-----------------------------------------------------------------------------
(* The steps of a call in progress *)

ReleaseStep ==
  /\ Doing("release")
  /\ LET id == Head(Top.todo).of IN
     /\ var_ht' = Released(id)
     /\ IF Gone(id)
        THEN \E order \in Orders(var_ht[id]) :
               frames' = WithTop(Freeing(var_ht[id], order) \o Tail(Top.todo))
        ELSE frames' = WithTop(Tail(Top.todo))
  /\ UNCHANGED <<var_id, owned, lost, np, proxy, calls>>

AddRefStep ==
  /\ Doing("addref")
  /\ var_ht' = AddRef(var_ht, Head(Top.todo).of)
  /\ frames' = [frames EXCEPT ![Len(frames)].args = {}, ![Len(frames)].todo = Tail(@)]
  /\ UNCHANGED <<var_id, owned, lost, np, proxy, calls>>

(* The result of p2n_invoke_comt gets the instance of the proxy whose      *)
(* method was called, or NULL in place of its own if that proxy has none.  *)
ConvertResult ==
  /\ Doing("tonp")
  /\ \E orphan \in {FALSE, OrphanCalls} :
       pp_var_to_np_variant(Head(Top.todo).of, ~orphan)
  /\ frames' = WithTop(Tail(Top.todo))
  /\ UNCHANGED <<var_id, owned, lost, calls>>

(* Mutant: the mapping is removed whatever the count. *)
DeallocateUnmaps ==
  /\ Doing("dealloc")
  /\ LET o == Head(Top.todo).of IN
     np' = [np EXCEPT ![o].refs = @ - 1, ![o].mapped = FALSE]
  /\ frames' = WithTop(Tail(Top.todo))
  /\ UNCHANGED <<var_ht, var_id, owned, lost, proxy, calls>>

(* On the browser thread, while the plugin thread waits. *)
n2p_deallocate_ptac ==
  /\ Doing("dealloc")
  /\ LET o == Head(Top.todo).of IN
     np' = [np EXCEPT ![o].refs = @ - 1, ![o].mapped = @ /\ np[o].refs > 1]
  /\ frames' = WithTop(Tail(Top.todo))
  /\ UNCHANGED <<var_ht, var_id, owned, lost, proxy, calls>>

-----------------------------------------------------------------------------
(* The browser *)

(* A script drops an object: NPN_ReleaseObject. *)
ScriptDropsObject(o) ==
  /\ np[o].script > 0
  /\ np' = [np EXCEPT ![o].refs = @ - 1, ![o].script = @ - 1]
  /\ UNCHANGED <<var_ht, var_id, owned, lost, frames, proxy, calls>>

(* p2n_deallocate decrements the (unsigned) count once more. *)
p2n_deallocate(x, refs) ==
  LET left == (refs + CountSpace - 1) % CountSpace IN
  IF left <= 0
  THEN /\ var_ht' = Released(proxy[x].ppobj)
       /\ proxy' = [proxy EXCEPT ![x] = Free]
  ELSE /\ proxy' = [proxy EXCEPT ![x].refs = left]
       /\ UNCHANGED var_ht

(* NPN_ReleaseObject of a proxy: the class's deallocate is called when the *)
(* count goes to zero.                                                     *)
ScriptDropsProxy(x) ==
  /\ proxy[x].refs \in 1 .. CountSpace - 2
  /\ IF proxy[x].refs = 1
     THEN p2n_deallocate(x, 0)
     ELSE /\ proxy' = [proxy EXCEPT ![x].refs = @ - 1]
          /\ UNCHANGED var_ht
  /\ UNCHANGED <<var_id, owned, lost, frames, np, calls>>

(* The instance goes away: p2n_invalidate, then deallocate. *)
p2n_invalidate(x) ==
  /\ proxy[x].refs \in 1 .. CountSpace - 2
  /\ p2n_deallocate(x, proxy[x].refs)
  /\ UNCHANGED <<var_id, owned, lost, frames, np, calls>>

-----------------------------------------------------------------------------
Next ==
  \/ \E arg \in {None} \cup Proxies \cup NPObjects : p2n_invoke_comt(arg)
  \/ \E res \in {None} \cup Ids : Return(res)
  \/ ppb_var_create_object \/ ppb_var_dictionary_create \/ ppb_var_array_create
  \/ \E id \in Ids : ppb_var_add_ref(id) \/ ppb_var_release(id) \/ n2p_call(id)
  \/ \E c \in DOMAIN var_ht, s \in Slots :
       ppb_var_dictionary_get(c, s) \/ ppb_var_array_get(c, s)
  \/ \E c \in DOMAIN var_ht, s \in Slots, id \in DOMAIN var_ht :
       ppb_var_array_set(c, s, id) \/ ppb_var_dictionary_set(c, s, id)
  \/ \E o \in NPObjects : n2p_result_object(o) \/ ScriptDropsObject(o)
  \/ \E x \in Proxies : n2p_result_proxy(x) \/ ScriptDropsProxy(x) \/ p2n_invalidate(x)
  \/ ReleaseStep
  \/ AddRefStep
  \/ ConvertResult
  \/ n2p_deallocate_ptac

Spec == Init /\ [][Next]_vars

-----------------------------------------------------------------------------
(* How many steps of calls in progress are op on x. *)
Pending(op, x) ==
  Cardinality(UNION {{<<f, i>> : i \in {j \in DOMAIN frames[f].todo :
                                         frames[f].todo[j] = Step(op, x)}} :
                     f \in DOMAIN frames})

(* How many elements of containers, and how many arguments of running      *)
(* callbacks, a variable is; how many proxies it has.                      *)
InSlots(id) ==
  Cardinality({p \in (DOMAIN var_ht) \X Slots : var_ht[p[1]].slots[p[2]] = id})
InArgs(id) == Cardinality({f \in DOMAIN frames : frames[f].lent = id})
InProxies(id) == Cardinality({x \in Proxies : proxy[x].ppobj = id})

(* Who has a reference to a variable: plugin code, containers, proxies,    *)
(* arguments of running callbacks, releases that are still to be done.     *)
Holders(id) ==
  owned[id] + InSlots(id) + InProxies(id) + InArgs(id) + Pending("release", id)

(* How many n2p variables an object of the browser has. *)
VarsOf(o) == Cardinality({id \in DOMAIN var_ht : var_ht[id].obj = o})

(* Nobody has a reference to a variable that is gone: ppb_var_release      *)
(* frees it with its last holder and not before, whatever runs while it    *)
(* waits.                                                                  *)
HeldVarsAreAlive == \A id \in Ids : Holders(id) > 0 => id \in DOMAIN var_ht

(* The count of a variable is the number of its holders; what differs is   *)
(* what ppb_var_array_set overwrote and what ppb_var_dictionary_set has    *)
(* stored but not counted yet.                                             *)
RefCountExact ==
  \A id \in DOMAIN var_ht :
    var_ht[id].ref_count = Holders(id) + lost[id] - Pending("addref", id)

(* The references to an object of the browser are those of scripts and one *)
(* per n2p variable: n2p_deallocate gives back what the variable owns, and *)
(* nothing else.                                                           *)
NPRefsExact ==
  \A o \in NPObjects :
    np[o].refs = np[o].script + Pending("dealloc", o) + VarsOf(o)

(* NPN_RetainObject and NPN_ReleaseObject: "the callee adds a reference    *)
(* count which passes to the caller" of results only, so the plugin never  *)
(* gives back a reference that a script holds.                             *)
ScriptRefsAreKept == \A o \in NPObjects : np[o].refs >= np[o].script

(* The instance of an object the plugin can still call is known: the       *)
(* mapping goes with the last reference only, and a result that goes back  *)
(* to a script keeps one.                                                  *)
ProxiesAreMapped ==
  \A id \in DOMAIN var_ht : var_ht[id].obj # None => np[var_ht[id].obj].mapped

(* An id is not handed out again, even after var_id has wrapped around,    *)
(* while a reference to the variable that had it is left anywhere.         *)
NewIdsAreUnused ==
  [][var_id' # var_id => var_id' \notin DOMAIN var_ht /\ Holders(var_id') = 0]_vars

\* Whatever somebody holds is there: variables that are referred to, and the mapping of
\* every browser object that has a proxy.
HeldThingsExist == TypeOK /\ HeldVarsAreAlive /\ ProxiesAreMapped

\* Both reference counts are exact, of ppb_var.c and of NPN_RetainObject.
CountsAreExact == RefCountExact /\ NPRefsExact

=============================================================================
