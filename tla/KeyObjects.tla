----------------------------- MODULE KeyObjects ------------------------------
(***************************************************************************)
(* Key, Subkey, UserId and KeySig objects (lib/pygpgme-key.c) and the      *)
(* memory they look into.                                                  *)
(*                                                                         *)
(* A Key holds a reference to a gpgme_key_t, which is freed with its       *)
(* subkeys, user IDs and signatures when the last reference is gone.  A    *)
(* Subkey, UserId or KeySig is a pointer into that memory and a reference  *)
(* to the object it was read from, its parent; nothing but this chain of   *)
(* parents keeps the memory.  The getters make lists of such objects.      *)
(*                                                                         *)
(* Threads run Python code between any two steps of a getter, as they do   *)
(* where there is no interpreter lock, or where an allocation runs a       *)
(* finalizer.  References are counted atomically.  Dropping the last one   *)
(* and deallocating the object are two steps.                              *)
(***************************************************************************)
EXTENDS Naturals, FiniteSets

CONSTANTS
    Threads,    \* threads of the program
    GpgKeys,    \* places for a gpgme_key_t
    Objects,    \* places for a Python object
    Length,     \* Length[a]: the items of the attribute a
    NULL

Attributes == {"subkeys", "uids", "signatures"}

\* The type with the attribute, and the type of its items.
OwnerKind == [subkeys |-> "Key", uids |-> "Key", signatures |-> "UserId"]
ItemKind  == [subkeys |-> "Subkey", uids |-> "UserId",
              signatures |-> "KeySig"]

Views == {"Subkey", "UserId", "KeySig"}

ASSUME LengthAssumption == Length \in [Attributes -> Nat]
ASSUME NullAssumption   == NULL \notin GpgKeys \cup Objects \cup Attributes

VARIABLES
    kind,       \* kind[o]: the type of the object at o, "free" if none
    gkey,       \* gkey[o]: the gpgme_key_t it points to or into, or NULL
    parent,     \* parent[o]: the object a view has a reference to, or NULL
    items,      \* items[o]: the objects in the list o
    refs,       \* refs[o]: its reference count
    held,       \* the objects the program has a reference to
    keyrefs,    \* keyrefs[g]: the reference count of a gpgme_key_t
    signers,    \* the gpgme_key_t a context keeps as signers
    op,         \* op[t]: what thread t is in
    self,       \* self[t]: the object whose getter t runs
    attr,       \* attr[t]: which getter
    left,       \* left[t]: the nodes it has still to make an item for
    fetched,    \* fetched[t]: the gpgme_key_t the library has handed to t
    ret         \* ret[t]: the variable ret of the function t runs

heap  == <<kind, gkey, parent, items>>
calls == <<op, self, attr, left, fetched, ret>>
vars  == <<heap, refs, held, keyrefs, signers, calls>>

TypeOK ==
    /\ kind \in [Objects -> {"free", "Key", "list"} \cup Views]
    /\ gkey \in [Objects -> GpgKeys \cup {NULL}]
    /\ parent \in [Objects -> Objects \cup {NULL}]
    /\ items \in [Objects -> SUBSET Objects]
    /\ refs \in [Objects -> Nat]
    /\ held \subseteq Objects
    /\ keyrefs \in [GpgKeys -> Nat]
    /\ signers \subseteq GpgKeys
    /\ op \in [Threads -> {"none", "getter", "fetch", "made"}]
    /\ self \in [Threads -> Objects \cup {NULL}]
    /\ attr \in [Threads -> Attributes \cup {NULL}]
    /\ left \in [Threads -> Nat]
    /\ fetched \in [Threads -> GpgKeys \cup {NULL}]
    /\ ret \in [Threads -> Objects \cup {NULL}]
    \* A view has a parent of the type with the attribute it came from, and
    \* points into the memory of its parent.
    /\ \A o \in Objects :
        /\ kind[o] \in Views <=> parent[o] # NULL
        /\ kind[o] \in {"free", "list"} <=> gkey[o] = NULL
        /\ kind[o] \in Views => /\ gkey[o] = gkey[parent[o]]
                                /\ kind[parent[o]] =
                                       IF kind[o] = "KeySig" THEN "UserId"
                                       ELSE "Key"

Init ==
    /\ kind = [o \in Objects |-> "free"]
    /\ gkey = [o \in Objects |-> NULL]
    /\ parent = [o \in Objects |-> NULL]
    /\ items = [o \in Objects |-> {}]
    /\ refs = [o \in Objects |-> 0]
    /\ held = {}
    /\ keyrefs = [g \in GpgKeys |-> 0]
    /\ signers = {}
    /\ op = [t \in Threads |-> "none"]
    /\ self = [t \in Threads |-> NULL]
    /\ attr = [t \in Threads |-> NULL]
    /\ left = [t \in Threads |-> 0]
    /\ fetched = [t \in Threads |-> NULL]
    /\ ret = [t \in Threads |-> NULL]

-----------------------------------------------------------------------------
(* Memory.                                                                 *)

One(f, x, n) == [f EXCEPT ![x] = n]

Incref(o) == refs' = One(refs, o, refs[o] + 1)
Decref(o) == refs' = One(refs, o, refs[o] - 1)

\* PyObject_New and PyList_New: a place that is free, and one reference.
Place(o, k, g, p) ==
    /\ kind[o] = "free"
    /\ kind' = One(kind, o, k)
    /\ gkey' = One(gkey, o, g)
    /\ parent' = One(parent, o, p)

\* PyObject_Del.
Vacate(o) ==
    /\ kind' = One(kind, o, "free")
    /\ gkey' = One(gkey, o, NULL)
    /\ parent' = One(parent, o, NULL)
    /\ items' = One(items, o, {})

KeyRef(g)   == keyrefs' = One(keyrefs, g, keyrefs[g] + 1)
KeyUnref(g) == keyrefs' = One(keyrefs, g, keyrefs[g] - 1)

\* Memory that is in use, and whose object is not about to be deallocated.
Live(o) == kind[o] # "free" /\ refs[o] > 0

-----------------------------------------------------------------------------
(* Functions that return a Key: get_key, KeyIter.__next__, get_signers.    *)

\* The library makes a key, or hands out a signer, with a reference that
\* belongs to the caller.
FetchKey(t) ==
    /\ op[t] = "none"
    /\ \E g \in GpgKeys :
        /\ keyrefs[g] = 0 \/ g \in signers
        /\ fetched' = One(fetched, t, g)
        /\ KeyRef(g)
    /\ op' = One(op, t, "fetch")
    /\ UNCHANGED <<heap, refs, held, signers, self, attr, left, ret>>

\* pygpgme_key_new.
KeyNew(t) ==
    /\ op[t] = "fetch"
    /\ \/ \E o \in Objects :
            /\ Place(o, "Key", fetched[t], NULL)
            /\ refs' = One(refs, o, 1)
            /\ ret' = One(ret, t, o)
            /\ KeyRef(fetched[t])
       \/ UNCHANGED <<kind, gkey, parent, refs, ret, keyrefs>>
    /\ op' = One(op, t, "made")
    /\ UNCHANGED <<items, held, signers, self, attr, left, fetched>>

\* The caller's reference to the gpgme_key_t is given up, whether there is an
\* object or not, and the method returns.
ReturnKey(t) ==
    /\ op[t] = "made"
    /\ KeyUnref(fetched[t])
    /\ held' = held \cup ({ret[t]} \ {NULL})
    /\ op' = One(op, t, "none")
    /\ fetched' = One(fetched, t, NULL)
    /\ ret' = One(ret, t, NULL)
    /\ UNCHANGED <<heap, refs, signers, self, attr, left>>

-----------------------------------------------------------------------------
(* The getters subkeys, uids and signatures.                               *)

\* The caller keeps a reference to the object while the getter runs.
CallGetter(t, o, a) ==
    /\ op[t] = "none"
    /\ o \in held /\ kind[o] = OwnerKind[a]
    /\ \E l \in Objects :
        /\ Place(l, "list", NULL, NULL)
        /\ refs' = [refs EXCEPT ![l] = 1, ![o] = @ + 1]
        /\ ret' = One(ret, t, l)
    /\ op' = One(op, t, "getter")
    /\ self' = One(self, t, o)
    /\ attr' = One(attr, t, a)
    /\ left' = One(left, t, Length[a])
    /\ UNCHANGED <<items, held, keyrefs, signers, fetched>>

Getting(t) == op[t] = "getter"

\* Mutant: the item does not take a reference to its parent.
AddItemBorrows(t) ==
    /\ Getting(t) /\ left[t] > 0
    /\ \E i \in Objects :
        /\ Place(i, ItemKind[attr[t]], gkey[self[t]], self[t])
        /\ refs' = One(refs, i, 1)
        /\ items' = One(items, ret[t], items[ret[t]] \cup {i})
    /\ left' = One(left, t, left[t] - 1)
    /\ UNCHANGED <<held, keyrefs, signers, op, self, attr, fetched, ret>>

\* An object for the next node; the reference of the function goes to the
\* list.
AddItem(t) ==
    /\ Getting(t) /\ left[t] > 0
    /\ \E i \in Objects :
        /\ Place(i, ItemKind[attr[t]], gkey[self[t]], self[t])
        /\ refs' = [refs EXCEPT ![i] = 1, ![self[t]] = @ + 1]
        /\ items' = One(items, ret[t], items[ret[t]] \cup {i})
    /\ left' = One(left, t, left[t] - 1)
    /\ UNCHANGED <<held, keyrefs, signers, op, self, attr, fetched, ret>>

\* PyList_Append fails, which is not looked at: the item is dropped.
AppendFails(t) ==
    /\ Getting(t) /\ left[t] > 0
    /\ \E i \in Objects :
        /\ Place(i, ItemKind[attr[t]], gkey[self[t]], self[t])
        /\ Incref(self[t])
    /\ left' = One(left, t, left[t] - 1)
    /\ UNCHANGED <<items, held, keyrefs, signers, op, self, attr, fetched,
                   ret>>

Leave(t) ==
    /\ op' = One(op, t, "none")
    /\ self' = One(self, t, NULL)
    /\ attr' = One(attr, t, NULL)
    /\ left' = One(left, t, 0)
    /\ ret' = One(ret, t, NULL)
    /\ UNCHANGED fetched

\* PyObject_New fails: the list is dropped with what is in it.
ItemFails(t) ==
    /\ Getting(t) /\ left[t] > 0
    /\ refs' = [refs EXCEPT ![ret[t]] = @ - 1, ![self[t]] = @ - 1]
    /\ Leave(t)
    /\ UNCHANGED <<heap, held, keyrefs, signers>>

ReturnList(t) ==
    /\ Getting(t) /\ left[t] = 0
    /\ held' = held \cup {ret[t]}
    /\ Decref(self[t])
    /\ Leave(t)
    /\ UNCHANGED <<heap, keyrefs, signers>>

-----------------------------------------------------------------------------
(* What the program does with its objects.                                 *)

TakeItem(l, i) ==
    /\ l \in held /\ i \in items[l] /\ i \notin held
    /\ held' = held \cup {i}
    /\ Incref(i)
    /\ UNCHANGED <<heap, keyrefs, signers, calls>>

DropName(o) ==
    /\ o \in held
    /\ held' = held \ {o}
    /\ Decref(o)
    /\ UNCHANGED <<heap, keyrefs, signers, calls>>

\* set_signers: the context refers to the gpgme_key_t, not to the Key.
AddSigner(o) ==
    /\ o \in held /\ kind[o] = "Key" /\ gkey[o] \notin signers
    /\ signers' = signers \cup {gkey[o]}
    /\ KeyRef(gkey[o])
    /\ UNCHANGED <<heap, refs, held, calls>>

\* gpgme_signers_clear.
ClearSigners ==
    /\ signers # {}
    /\ signers' = {}
    /\ keyrefs' = [g \in GpgKeys |->
                      keyrefs[g] - IF g \in signers THEN 1 ELSE 0]
    /\ UNCHANGED <<heap, refs, held, calls>>

-----------------------------------------------------------------------------
(* Deallocation.                                                           *)

Dead(o) == kind[o] # "free" /\ refs[o] = 0

\* pygpgme_key_dealloc.
KeyDealloc(o) ==
    /\ Dead(o) /\ kind[o] = "Key"
    /\ KeyUnref(gkey[o])
    /\ Vacate(o)
    /\ UNCHANGED <<refs, held, signers, calls>>

\* Mutant: the parent is forgotten, and keeps its reference.
ViewDeallocLeaks(o) ==
    /\ Dead(o) /\ kind[o] \in Views
    /\ Vacate(o)
    /\ UNCHANGED <<refs, held, keyrefs, signers, calls>>

\* Mutant: the object is not taken apart.
ViewDeallocKeeps(o) ==
    /\ Dead(o) /\ kind[o] \in Views
    /\ Decref(parent[o])
    /\ kind' = One(kind, o, "free")
    /\ UNCHANGED <<gkey, parent, items, held, keyrefs, signers, calls>>

\* pygpgme_subkey_dealloc, pygpgme_user_id_dealloc, pygpgme_key_sig_dealloc.
ViewDealloc(o) ==
    /\ Dead(o) /\ kind[o] \in Views
    /\ Decref(parent[o])
    /\ Vacate(o)
    /\ UNCHANGED <<held, keyrefs, signers, calls>>

ListDealloc(o) ==
    /\ Dead(o) /\ kind[o] = "list"
    /\ refs' = [i \in Objects |-> refs[i] - IF i \in items[o] THEN 1 ELSE 0]
    /\ Vacate(o)
    /\ UNCHANGED <<held, keyrefs, signers, calls>>

ThreadStep(t) ==
    \/ FetchKey(t) \/ KeyNew(t) \/ ReturnKey(t)
    \/ \E o \in Objects, a \in Attributes : CallGetter(t, o, a)
    \/ AddItem(t) \/ AppendFails(t) \/ ItemFails(t) \/ ReturnList(t)

Next ==
    \/ \E t \in Threads : ThreadStep(t)
    \/ \E o, i \in Objects : TakeItem(o, i)
    \/ \E o \in Objects : \/ DropName(o) \/ AddSigner(o)
                          \/ KeyDealloc(o) \/ ViewDealloc(o) \/ ListDealloc(o)
    \/ ClearSigners

Spec == Init /\ [][Next]_vars

-----------------------------------------------------------------------------
(* Properties.                                                             *)

\* Whoever holds a Subkey, UserId or KeySig may read it, whatever has become
\* of the Key and of the list it came in: every object points to memory the
\* library has not freed, and its parent has not been deallocated.
ViewsValid ==
    \A o \in Objects :
        kind[o] \in {"Key"} \cup Views =>
            /\ keyrefs[gkey[o]] > 0
            /\ parent[o] # NULL => Live(parent[o])

\* The references there are to o.
Referrers(o) ==
    Cardinality({l \in Objects : o \in items[l]})
    + Cardinality({v \in Objects : parent[v] = o})
    + Cardinality({t \in Threads : self[t] = o})
    + Cardinality({t \in Threads : ret[t] = o})
    + (IF o \in held THEN 1 ELSE 0)

KeyReferrers(g) ==
    Cardinality({o \in Objects : kind[o] = "Key" /\ gkey[o] = g})
    + Cardinality({t \in Threads : fetched[t] = g})
    + (IF g \in signers THEN 1 ELSE 0)

\* Every function takes and gives up exactly the references it should, on
\* every path: an object or a gpgme_key_t is freed when nothing refers to it,
\* no sooner and no later.
CountsExact ==
    /\ \A o \in Objects : refs[o] = Referrers(o)
    /\ \A g \in GpgKeys : keyrefs[g] = KeyReferrers(g)
=============================================================================
