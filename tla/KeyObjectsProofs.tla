------------------------- MODULE KeyObjectsProofs --------------------------
(***************************************************************************)
(* Proofs about KeyObjects, for any number of threads, of gpgme_key_t and  *)
(* of objects, and attributes of any length.                               *)
(*                                                                         *)
(* The counts are exact by induction; everything else rests on them.  An   *)
(* object that something refers to has a count above 0 and is not taken    *)
(* apart, so it keeps its type, and what has been said of it stays true.   *)
(***************************************************************************)
EXTENDS KeyObjects, FiniteSetTheorems, TLAPS

(* Who refers to an object, and to a gpgme_key_t: the sets that Referrers   *)
(* and KeyReferrers count.                                                  *)
ListsWith(o)  == {l \in Objects : o \in items[l]}
Children(o)   == {v \in Objects : parent[v] = o}
GettersOf(o)  == {t \in Threads : self[t] = o}
MakersOf(o)   == {t \in Threads : ret[t] = o}
KeysOn(g)     == {o \in Objects : kind[o] = "Key" /\ gkey[o] = g}
FetchersOf(g) == {t \in Threads : fetched[t] = g}

\* The counts are exact.  The sets are finite at any time, so that their sizes
\* can go up and down by one.
ObjectsCounted ==
    \A o \in Objects :
        /\ IsFiniteSet(ListsWith(o)) /\ IsFiniteSet(Children(o))
        /\ IsFiniteSet(GettersOf(o)) /\ IsFiniteSet(MakersOf(o))
        /\ refs[o] = Referrers(o) /\ refs[o] \in Nat

KeysCounted ==
    \A g \in GpgKeys :
        /\ IsFiniteSet(KeysOn(g)) /\ IsFiniteSet(FetchersOf(g))
        /\ keyrefs[g] = KeyReferrers(g) /\ keyrefs[g] \in Nat

\* Free places are not counted, and only lists have items, all of them views.
HeapInv ==
    \A o \in Objects :
        /\ kind[o] = "free" => refs[o] = 0
        /\ kind[o] # "list" => items[o] = {}
        /\ \A i \in items[o] : kind[i] \in Views

\* What thread t has in its variables.
CallOK(t) ==
    \/ /\ op[t] = "none"
       /\ self[t] = NULL /\ attr[t] = NULL /\ left[t] = 0
       /\ fetched[t] = NULL /\ ret[t] = NULL
    \/ /\ op[t] = "fetch"
       /\ self[t] = NULL /\ attr[t] = NULL /\ left[t] = 0
       /\ fetched[t] \in GpgKeys /\ ret[t] = NULL
    \/ /\ op[t] = "made"
       /\ self[t] = NULL /\ attr[t] = NULL /\ left[t] = 0
       /\ fetched[t] \in GpgKeys
       /\ ret[t] # NULL => ret[t] \in Objects /\ kind[ret[t]] = "Key"
    \/ /\ op[t] = "getter"
       /\ attr[t] \in Attributes /\ fetched[t] = NULL
       /\ self[t] \in Objects /\ kind[self[t]] = OwnerKind[attr[t]]
       /\ ret[t] \in Objects /\ kind[ret[t]] = "list"

\* What a function is going to return is known to it alone.
ResultInv ==
    \A t \in Threads : ret[t] # NULL =>
        /\ ret[t] \notin held
        /\ \A u \in Threads : ret[u] = ret[t] => u = t

CallsInv == (\A t \in Threads : CallOK(t)) /\ ResultInv

IndInv == TypeOK /\ ObjectsCounted /\ KeysCounted /\ HeapInv /\ CallsInv

-----------------------------------------------------------------------------
(* Counting.                                                               *)

Unit(p) == IF p THEN 1 ELSE 0

\* A finite set that gains or loses nothing but d.
LEMMA CountChange ==
    ASSUME NEW S, IsFiniteSet(S), NEW T, NEW d,
           \A x : x # d => (x \in T <=> x \in S)
    PROVE  /\ IsFiniteSet(T)
           /\ Cardinality(S) \in Nat /\ Cardinality(T) \in Nat
           /\ Cardinality(T) = Cardinality(S) + Unit(d \in T) - Unit(d \in S)
<1>1. Cardinality(S) \in Nat
  BY FS_CardinalityType
<1>2. CASE d \in T <=> d \in S
  <2>1. S = T
    BY <1>2
  <2> QED BY <1>1, <1>2, <2>1 DEF Unit
<1>3. CASE d \in T /\ d \notin S
  <2>1. T = S \cup {d}
    BY <1>3
  <2>2. IsFiniteSet(T) /\ Cardinality(T) = Cardinality(S) + 1
    BY <1>3, <2>1, FS_AddElement
  <2> QED BY <1>1, <1>3, <2>2 DEF Unit
<1>4. CASE d \notin T /\ d \in S
  <2>1. T = S \ {d}
    BY <1>4
  <2>2. IsFiniteSet(T) /\ Cardinality(T) = Cardinality(S) - 1
    BY <1>4, <2>1, FS_RemoveElement
  <2>3. Cardinality(T) \in Nat
    BY <2>2, FS_CardinalityType
  <2> QED BY <1>1, <1>4, <2>2, <2>3 DEF Unit
<1> QED BY <1>2, <1>3, <1>4

\* A step that changes at most the items of l, the parent of i, the variables
\* of t and the names of the program, and the counts by just that.
ObjectsChange(l, i, t) ==
    /\ \A k \in Objects \ {l} : items'[k] = items[k]
    /\ \A k \in Objects \ {i} : parent'[k] = parent[k]
    /\ \A u \in Threads \ {t} : self'[u] = self[u] /\ ret'[u] = ret[u]
    /\ \A o \in Objects :
           refs'[o] = refs[o]
               + Unit(l \in ListsWith(o)') - Unit(l \in ListsWith(o))
               + Unit(i \in Children(o)') - Unit(i \in Children(o))
               + Unit(t \in GettersOf(o)') - Unit(t \in GettersOf(o))
               + Unit(t \in MakersOf(o)') - Unit(t \in MakersOf(o))
               + Unit(o \in held') - Unit(o \in held)

\* The same of the references to gpgme_key_t: at most what is at o changes,
\* what t has fetched, and the signers.
KeysChange(o, t) ==
    /\ \A k \in Objects \ {o} : kind'[k] = kind[k] /\ gkey'[k] = gkey[k]
    /\ \A u \in Threads \ {t} : fetched'[u] = fetched[u]
    /\ \A g \in GpgKeys :
           keyrefs'[g] = keyrefs[g]
               + Unit(o \in KeysOn(g)') - Unit(o \in KeysOn(g))
               + Unit(t \in FetchersOf(g)') - Unit(t \in FetchersOf(g))
               + Unit(g \in signers') - Unit(g \in signers)

\* Such a step keeps the counts exact.
LEMMA Balance ==
    ASSUME ObjectsCounted, NEW l, NEW i, NEW t, ObjectsChange(l, i, t)
    PROVE  ObjectsCounted'
<1> SUFFICES ASSUME NEW o \in Objects
             PROVE  /\ IsFiniteSet(ListsWith(o)') /\ IsFiniteSet(Children(o)')
                    /\ IsFiniteSet(GettersOf(o)') /\ IsFiniteSet(MakersOf(o)')
                    /\ refs'[o] = Referrers(o)' /\ refs'[o] \in Nat
  BY DEF ObjectsCounted
<1> USE DEF ObjectsChange
<1>1. \A k : k # l => (k \in ListsWith(o)' <=> k \in ListsWith(o))
  BY DEF ListsWith
<1>2. \A k : k # i => (k \in Children(o)' <=> k \in Children(o))
  BY DEF Children
<1>3. \A u : u # t => (u \in GettersOf(o)' <=> u \in GettersOf(o))
  BY DEF GettersOf
<1>4. \A u : u # t => (u \in MakersOf(o)' <=> u \in MakersOf(o))
  BY DEF MakersOf
<1>5. refs[o] = Cardinality(ListsWith(o)) + Cardinality(Children(o))
                + Cardinality(GettersOf(o)) + Cardinality(MakersOf(o))
                + Unit(o \in held)
  BY DEF ObjectsCounted, Referrers, ListsWith, Children, GettersOf, MakersOf,
         Unit
<1>6. /\ IsFiniteSet(ListsWith(o)') /\ IsFiniteSet(Children(o)')
      /\ IsFiniteSet(GettersOf(o)') /\ IsFiniteSet(MakersOf(o)')
      /\ Cardinality(ListsWith(o)) \in Nat /\ Cardinality(ListsWith(o)') \in Nat
      /\ Cardinality(Children(o)) \in Nat /\ Cardinality(Children(o)') \in Nat
      /\ Cardinality(GettersOf(o)) \in Nat /\ Cardinality(GettersOf(o)') \in Nat
      /\ Cardinality(MakersOf(o)) \in Nat /\ Cardinality(MakersOf(o)') \in Nat
  BY <1>1, <1>2, <1>3, <1>4, CountChange DEF ObjectsCounted
<1>7. /\ Cardinality(ListsWith(o)') = Cardinality(ListsWith(o))
             + Unit(l \in ListsWith(o)') - Unit(l \in ListsWith(o))
      /\ Cardinality(Children(o)') = Cardinality(Children(o))
             + Unit(i \in Children(o)') - Unit(i \in Children(o))
      /\ Cardinality(GettersOf(o)') = Cardinality(GettersOf(o))
             + Unit(t \in GettersOf(o)') - Unit(t \in GettersOf(o))
      /\ Cardinality(MakersOf(o)') = Cardinality(MakersOf(o))
             + Unit(t \in MakersOf(o)') - Unit(t \in MakersOf(o))
  BY <1>1, <1>2, <1>3, <1>4, CountChange DEF ObjectsCounted
<1>8. /\ Unit(l \in ListsWith(o)') \in Nat /\ Unit(l \in ListsWith(o)) \in Nat
      /\ Unit(i \in Children(o)') \in Nat /\ Unit(i \in Children(o)) \in Nat
      /\ Unit(t \in GettersOf(o)') \in Nat /\ Unit(t \in GettersOf(o)) \in Nat
      /\ Unit(t \in MakersOf(o)') \in Nat /\ Unit(t \in MakersOf(o)) \in Nat
      /\ Unit(o \in held') \in Nat /\ Unit(o \in held) \in Nat
  BY DEF Unit
<1> HIDE DEF Unit
<1>9. refs'[o] = Cardinality(ListsWith(o)') + Cardinality(Children(o)')
                 + Cardinality(GettersOf(o)') + Cardinality(MakersOf(o)')
                 + Unit(o \in held')
  BY <1>5, <1>6, <1>7, <1>8
<1>10. refs'[o] = Referrers(o)'
  BY <1>9 DEF Referrers, ListsWith, Children, GettersOf, MakersOf, Unit
<1>11. refs'[o] \in Nat
  BY <1>6, <1>8, <1>9
<1> QED BY <1>6, <1>10, <1>11

\* The same of the counts of gpgme_key_t.
LEMMA KeyBalance ==
    ASSUME KeysCounted, NEW o, NEW t, KeysChange(o, t)
    PROVE  KeysCounted'
<1> SUFFICES ASSUME NEW g \in GpgKeys
             PROVE  /\ IsFiniteSet(KeysOn(g)') /\ IsFiniteSet(FetchersOf(g)')
                    /\ keyrefs'[g] = KeyReferrers(g)' /\ keyrefs'[g] \in Nat
  BY DEF KeysCounted
<1> USE DEF KeysChange
<1>1. \A k : k # o => (k \in KeysOn(g)' <=> k \in KeysOn(g))
  BY DEF KeysOn
<1>2. \A u : u # t => (u \in FetchersOf(g)' <=> u \in FetchersOf(g))
  BY DEF FetchersOf
<1>3. keyrefs[g] = Cardinality(KeysOn(g)) + Cardinality(FetchersOf(g))
                   + Unit(g \in signers)
  BY DEF KeysCounted, KeyReferrers, KeysOn, FetchersOf, Unit
<1>4. /\ IsFiniteSet(KeysOn(g)') /\ IsFiniteSet(FetchersOf(g)')
      /\ Cardinality(KeysOn(g)) \in Nat /\ Cardinality(KeysOn(g)') \in Nat
      /\ Cardinality(FetchersOf(g)) \in Nat
      /\ Cardinality(FetchersOf(g)') \in Nat
      /\ Cardinality(KeysOn(g)') = Cardinality(KeysOn(g))
             + Unit(o \in KeysOn(g)') - Unit(o \in KeysOn(g))
      /\ Cardinality(FetchersOf(g)') = Cardinality(FetchersOf(g))
             + Unit(t \in FetchersOf(g)') - Unit(t \in FetchersOf(g))
  BY <1>1, <1>2, CountChange DEF KeysCounted
<1>5. /\ Unit(o \in KeysOn(g)') \in Nat /\ Unit(o \in KeysOn(g)) \in Nat
      /\ Unit(t \in FetchersOf(g)') \in Nat /\ Unit(t \in FetchersOf(g)) \in Nat
      /\ Unit(g \in signers') \in Nat /\ Unit(g \in signers) \in Nat
  BY DEF Unit
<1>6. keyrefs'[g] = Cardinality(KeysOn(g)') + Cardinality(FetchersOf(g)')
                    + Unit(g \in signers')
  BY <1>3, <1>4, <1>5
<1>7. keyrefs'[g] = KeyReferrers(g)'
  BY <1>6 DEF KeyReferrers, KeysOn, FetchersOf, Unit
<1>8. keyrefs'[g] \in Nat
  BY <1>4, <1>5, <1>6
<1> QED BY <1>4, <1>7, <1>8

\* What is referred to has a count above 0, and an object at its place.
LEMMA Referred ==
    ASSUME IndInv, NEW o \in Objects,
           \/ o \in held
           \/ \E l \in Objects : o \in items[l]
           \/ \E v \in Objects : parent[v] = o
           \/ \E t \in Threads : self[t] = o \/ ret[t] = o
    PROVE  refs[o] > 0 /\ kind[o] # "free"
<1>1. refs[o] = Cardinality(ListsWith(o)) + Cardinality(Children(o))
                + Cardinality(GettersOf(o)) + Cardinality(MakersOf(o))
                + Unit(o \in held)
  BY DEF IndInv, ObjectsCounted, Referrers, ListsWith, Children, GettersOf,
         MakersOf, Unit
<1>2. /\ IsFiniteSet(ListsWith(o)) /\ IsFiniteSet(Children(o))
      /\ IsFiniteSet(GettersOf(o)) /\ IsFiniteSet(MakersOf(o))
  BY DEF IndInv, ObjectsCounted
<1>3. /\ Cardinality(ListsWith(o)) \in Nat /\ Cardinality(Children(o)) \in Nat
      /\ Cardinality(GettersOf(o)) \in Nat /\ Cardinality(MakersOf(o)) \in Nat
  BY <1>2, FS_CardinalityType
<1>4. \/ o \in held \/ ListsWith(o) # {} \/ Children(o) # {}
      \/ GettersOf(o) # {} \/ MakersOf(o) # {}
  BY DEF ListsWith, Children, GettersOf, MakersOf
<1>5. \/ o \in held \/ Cardinality(ListsWith(o)) # 0
      \/ Cardinality(Children(o)) # 0 \/ Cardinality(GettersOf(o)) # 0
      \/ Cardinality(MakersOf(o)) # 0
  BY <1>2, <1>4, FS_EmptySet
<1>6. refs[o] > 0
  BY <1>1, <1>3, <1>5 DEF Unit
<1> QED BY <1>6 DEF IndInv, HeapInv

\* Where there is a Key there is its gpgme_key_t, and where a function has
\* fetched one.
LEMMA KeyReferred ==
    ASSUME IndInv, NEW g \in GpgKeys,
           \/ \E o \in Objects : kind[o] = "Key" /\ gkey[o] = g
           \/ \E t \in Threads : fetched[t] = g
           \/ g \in signers
    PROVE  keyrefs[g] > 0
<1>1. keyrefs[g] = Cardinality(KeysOn(g)) + Cardinality(FetchersOf(g))
                   + Unit(g \in signers)
  BY DEF IndInv, KeysCounted, KeyReferrers, KeysOn, FetchersOf, Unit
<1>2. IsFiniteSet(KeysOn(g)) /\ IsFiniteSet(FetchersOf(g))
  BY DEF IndInv, KeysCounted
<1>3. Cardinality(KeysOn(g)) \in Nat /\ Cardinality(FetchersOf(g)) \in Nat
  BY <1>2, FS_CardinalityType
<1>4. KeysOn(g) # {} \/ FetchersOf(g) # {} \/ g \in signers
  BY DEF KeysOn, FetchersOf
<1>5. \/ Cardinality(KeysOn(g)) # 0 \/ Cardinality(FetchersOf(g)) # 0
      \/ g \in signers
  BY <1>2, <1>4, FS_EmptySet
<1> QED BY <1>1, <1>3, <1>5 DEF Unit

\* Nothing that is counted changes.
LEMMA ObjectsSame ==
    ASSUME ObjectsCounted, UNCHANGED <<refs, items, parent, self, ret, held>>
    PROVE  ObjectsCounted'
  BY DEF ObjectsCounted, Referrers, ListsWith, Children, GettersOf, MakersOf

\* No Key comes or goes, and no other reference to a gpgme_key_t.
LEMMA KeysSame ==
    ASSUME KeysCounted, UNCHANGED <<keyrefs, signers, fetched>>,
           \A k \in Objects :
               \/ kind'[k] = kind[k] /\ gkey'[k] = gkey[k]
               \/ kind'[k] # "Key" /\ kind[k] # "Key"
    PROVE  KeysCounted'
<1>1. \A g \in GpgKeys : /\ KeysOn(g)' = KeysOn(g)
                         /\ FetchersOf(g)' = FetchersOf(g)
                         /\ KeyReferrers(g)' = KeyReferrers(g)
  BY DEF KeysOn, FetchersOf, KeyReferrers
<1> QED BY <1>1 DEF KeysCounted

-----------------------------------------------------------------------------
(* The heap.                                                               *)

\* What TypeOK says of the objects.
Shape ==
    /\ kind \in [Objects -> {"free", "Key", "list"} \cup Views]
    /\ gkey \in [Objects -> GpgKeys \cup {NULL}]
    /\ parent \in [Objects -> Objects \cup {NULL}]
    /\ \A o \in Objects :
        /\ kind[o] \in Views <=> parent[o] # NULL
        /\ kind[o] \in {"free", "list"} <=> gkey[o] = NULL
        /\ kind[o] \in Views => /\ gkey[o] = gkey[parent[o]]
                                /\ kind[parent[o]] =
                                       IF kind[o] = "KeySig" THEN "UserId"
                                       ELSE "Key"

\* What is referred to stays what it is.
Kept ==
    \A o \in Objects :
        refs[o] > 0 => /\ kind'[o] = kind[o] /\ gkey'[o] = gkey[o]
                       /\ parent'[o] = parent[o]

\* An object of type k that points to g and refers to p.
Fits(k, g, p) ==
    \/ k = "Key" /\ g \in GpgKeys /\ p = NULL
    \/ k = "list" /\ g = NULL /\ p = NULL
    \/ /\ k \in Views /\ p \in Objects
       /\ g = gkey[p] /\ g # NULL
       /\ kind[p] = IF k = "KeySig" THEN "UserId" ELSE "Key"

\* A new object that suits its place changes nothing that is referred to.
LEMMA PlaceKeeps ==
    ASSUME IndInv, NEW o \in Objects, NEW k, NEW g, NEW p,
           Fits(k, g, p), Place(o, k, g, p)
    PROVE  Shape' /\ Kept
<1> USE NullAssumption DEF IndInv, TypeOK
<1>1. Kept
  BY DEF Kept, HeapInv, Place, One
<1>2. /\ kind[o] = "free"
      /\ kind' = [kind EXCEPT ![o] = k] /\ gkey' = [gkey EXCEPT ![o] = g]
      /\ parent' = [parent EXCEPT ![o] = p]
  BY DEF Place, One
<1>3. /\ k \in {"Key", "list"} \cup Views
      /\ g \in GpgKeys \cup {NULL} /\ p \in Objects \cup {NULL}
      /\ k \in Views <=> p # NULL
      /\ k \in {"free", "list"} <=> g = NULL
  BY DEF Fits, Views
<1>4. \A v \in Objects : parent[v] # o
  BY <1>2, Referred
<1>5. ASSUME NEW v \in Objects, kind'[v] \in Views
      PROVE  /\ gkey'[v] = gkey'[parent'[v]]
             /\ kind'[parent'[v]] = IF kind'[v] = "KeySig" THEN "UserId"
                                    ELSE "Key"
  <2>1. CASE v = o
    <3>1. k \in Views /\ p # o /\ p \in Objects
      BY <1>2, <1>5, <2>1 DEF Fits, Views
    <3> QED BY <1>2, <2>1, <3>1 DEF Fits, Views
  <2>2. CASE v # o
    <3>1. kind[v] \in Views /\ parent[v] \in Objects /\ parent[v] # o
      BY <1>2, <1>4, <1>5, <2>2
    <3> QED BY <1>2, <2>2, <3>1
  <2> QED BY <2>1, <2>2
<1>6. ASSUME NEW v \in Objects
      PROVE  /\ kind'[v] \in Views <=> parent'[v] # NULL
             /\ kind'[v] \in {"free", "list"} <=> gkey'[v] = NULL
  BY <1>2, <1>3
<1>7. /\ kind' \in [Objects -> {"free", "Key", "list"} \cup Views]
      /\ gkey' \in [Objects -> GpgKeys \cup {NULL}]
      /\ parent' \in [Objects -> Objects \cup {NULL}]
  BY <1>2, <1>3
<1> QED BY <1>1, <1>5, <1>6, <1>7 DEF Shape

\* Taking an object apart changes nothing that is referred to: its count is 0,
\* so that it is no view's parent.
LEMMA VacateKeeps ==
    ASSUME IndInv, NEW o \in Objects, Dead(o), Vacate(o)
    PROVE  Shape' /\ Kept
<1> USE NullAssumption DEF IndInv, TypeOK
<1>1. refs[o] = 0
  BY DEF Dead
<1>2. Kept
  BY <1>1 DEF Kept, Vacate, One
<1>3. /\ kind' = [kind EXCEPT ![o] = "free"]
      /\ gkey' = [gkey EXCEPT ![o] = NULL]
      /\ parent' = [parent EXCEPT ![o] = NULL]
  BY DEF Vacate, One
<1>4. \A v \in Objects : parent[v] # o
  BY <1>1, Referred
<1>5. ASSUME NEW v \in Objects, kind'[v] \in Views
      PROVE  /\ gkey'[v] = gkey'[parent'[v]]
             /\ kind'[parent'[v]] = IF kind'[v] = "KeySig" THEN "UserId"
                                    ELSE "Key"
  <2>1. v # o /\ kind[v] \in Views /\ parent[v] \in Objects /\ parent[v] # o
    BY <1>3, <1>4, <1>5 DEF Views
  <2> QED BY <1>3, <2>1
<1>6. ASSUME NEW v \in Objects
      PROVE  /\ kind'[v] \in Views <=> parent'[v] # NULL
             /\ kind'[v] \in {"free", "list"} <=> gkey'[v] = NULL
  BY <1>3 DEF Views
<1>7. /\ kind' \in [Objects -> {"free", "Key", "list"} \cup Views]
      /\ gkey' \in [Objects -> GpgKeys \cup {NULL}]
      /\ parent' \in [Objects -> Objects \cup {NULL}]
  BY <1>3
<1> QED BY <1>2, <1>5, <1>6, <1>7 DEF Shape

\* A call whose variables do not change, and that refers to objects that stay
\* what they are, is as good as before.
LEMMA CallKept ==
    ASSUME IndInv, NEW t \in Threads, Kept,
           op'[t] = op[t], self'[t] = self[t], attr'[t] = attr[t],
           left'[t] = left[t], fetched'[t] = fetched[t], ret'[t] = ret[t]
    PROVE  CallOK(t)'
<1>1. self[t] \in Objects => kind'[self[t]] = kind[self[t]]
  BY Referred DEF Kept
<1>2. ret[t] \in Objects => kind'[ret[t]] = kind[ret[t]]
  BY Referred DEF Kept
<1>3. CallOK(t)
  BY DEF IndInv, CallsInv
<1> QED BY <1>1, <1>2, <1>3 DEF CallOK

\* Nor does a step that leaves the objects alone.
LEMMA HeapSame ==
    ASSUME TypeOK, UNCHANGED <<kind, gkey, parent>>
    PROVE  Shape' /\ Kept
  BY DEF TypeOK, Shape, Kept

\* The types of the variables, where the counts are known to be exact.
OtherTypes ==
    /\ refs \in [Objects -> Int]
    /\ keyrefs \in [GpgKeys -> Int]
    /\ items \in [Objects -> SUBSET Objects]
    /\ held \subseteq Objects /\ signers \subseteq GpgKeys
    /\ op \in [Threads -> {"none", "getter", "fetch", "made"}]
    /\ self \in [Threads -> Objects \cup {NULL}]
    /\ attr \in [Threads -> Attributes \cup {NULL}]
    /\ left \in [Threads -> Nat]
    /\ fetched \in [Threads -> GpgKeys \cup {NULL}]
    /\ ret \in [Threads -> Objects \cup {NULL}]

\* TypeOK from its parts: a count is a natural number because it is exact.
LEMMA Typing ==
    ASSUME Shape', ObjectsCounted', KeysCounted', OtherTypes'
    PROVE  TypeOK'
<1>1. refs' \in [Objects -> Nat]
  BY DEF ObjectsCounted, OtherTypes
<1>2. keyrefs' \in [GpgKeys -> Nat]
  BY DEF KeysCounted, OtherTypes
<1> QED BY <1>1, <1>2 DEF Shape, TypeOK, OtherTypes

\* Before the first step nothing refers to anything.
LEMMA InitInv == Init => IndInv
<1> SUFFICES ASSUME Init PROVE IndInv
  OBVIOUS
<1> USE NullAssumption DEF Init
<1>1. TypeOK
  BY DEF TypeOK, Views
<1>2. ObjectsCounted
  <2> SUFFICES ASSUME NEW o \in Objects
               PROVE  /\ IsFiniteSet(ListsWith(o)) /\ IsFiniteSet(Children(o))
                      /\ IsFiniteSet(GettersOf(o)) /\ IsFiniteSet(MakersOf(o))
                      /\ refs[o] = Referrers(o) /\ refs[o] \in Nat
    BY DEF ObjectsCounted
  <2>1. /\ ListsWith(o) = {} /\ Children(o) = {}
        /\ GettersOf(o) = {} /\ MakersOf(o) = {}
    BY DEF ListsWith, Children, GettersOf, MakersOf
  <2>2. IsFiniteSet({}) /\ Cardinality({}) = 0
    BY FS_EmptySet
  <2>3. Referrers(o) = Cardinality({}) + Cardinality({}) + Cardinality({})
                       + Cardinality({}) + 0
    BY <2>1 DEF Referrers, ListsWith, Children, GettersOf, MakersOf
  <2> QED BY <2>1, <2>2, <2>3
<1>3. KeysCounted
  <2> SUFFICES ASSUME NEW g \in GpgKeys
               PROVE  /\ IsFiniteSet(KeysOn(g)) /\ IsFiniteSet(FetchersOf(g))
                      /\ keyrefs[g] = KeyReferrers(g) /\ keyrefs[g] \in Nat
    BY DEF KeysCounted
  <2>1. KeysOn(g) = {} /\ FetchersOf(g) = {}
    BY DEF KeysOn, FetchersOf
  <2>2. IsFiniteSet({}) /\ Cardinality({}) = 0
    BY FS_EmptySet
  <2>3. KeyReferrers(g) = Cardinality({}) + Cardinality({}) + 0
    BY <2>1 DEF KeyReferrers, KeysOn, FetchersOf
  <2> QED BY <2>1, <2>2, <2>3
<1>4. HeapInv /\ CallsInv
  BY DEF HeapInv, CallsInv, CallOK, ResultInv
<1> QED BY <1>1, <1>2, <1>3, <1>4 DEF IndInv

-----------------------------------------------------------------------------
(* Functions that return a Key.                                            *)

\* The library hands out a gpgme_key_t, with a reference for the function.
LEMMA FetchKeyKeeps ==
    ASSUME IndInv, NEW t \in Threads, FetchKey(t)
    PROVE  IndInv'
<1> USE NullAssumption DEF IndInv, TypeOK
<1>1. PICK g \in GpgKeys :
          /\ fetched' = [fetched EXCEPT ![t] = g]
          /\ keyrefs' = [keyrefs EXCEPT ![g] = keyrefs[g] + 1]
  BY DEF FetchKey, One, KeyRef
<1>2. /\ op' = [op EXCEPT ![t] = "fetch"] /\ op[t] = "none"
      /\ UNCHANGED <<heap, refs, held, signers, self, attr, left, ret>>
  BY DEF FetchKey, One
<1>3. /\ fetched[t] = NULL /\ self[t] = NULL /\ ret[t] = NULL
      /\ attr[t] = NULL /\ left[t] = 0
  BY <1>2 DEF CallsInv, CallOK
<1>4. Shape' /\ Kept
  BY <1>2, HeapSame DEF heap
<1>5. ObjectsCounted'
  BY <1>2, ObjectsSame DEF heap
<1>6. KeysCounted'
  <2>1. \A h \in GpgKeys : /\ KeysOn(h)' = KeysOn(h)
                           /\ t \in FetchersOf(h)' <=> h = g
                           /\ t \notin FetchersOf(h)
    BY <1>1, <1>2, <1>3 DEF heap, KeysOn, FetchersOf
  <2>2. KeysChange(NULL, t)
    BY <1>1, <1>2, <2>1 DEF heap, KeysChange, Unit
  <2> QED BY <2>2, KeyBalance
<1>7. HeapInv'
  BY <1>2 DEF heap, HeapInv
<1>8. CallsInv'
  <2>1. \A u \in Threads \ {t} : CallOK(u)'
    BY <1>1, <1>2, <1>4, CallKept
  <2>2. CallOK(t)'
    BY <1>1, <1>2, <1>3 DEF CallOK
  <2> QED BY <1>2, <2>1, <2>2 DEF CallsInv, ResultInv
<1>9. TypeOK'
  <2>1. OtherTypes'
    BY <1>1, <1>2 DEF OtherTypes, heap
  <2> QED BY <1>4, <1>5, <1>6, <2>1, Typing
<1> QED BY <1>5, <1>6, <1>7, <1>8, <1>9

\* pygpgme_key_new takes a reference of its own, or none where it fails.
LEMMA KeyNewKeeps ==
    ASSUME IndInv, NEW t \in Threads, KeyNew(t)
    PROVE  IndInv'
<1> USE NullAssumption DEF IndInv, TypeOK
<1>1. /\ op' = [op EXCEPT ![t] = "made"] /\ op[t] = "fetch"
      /\ UNCHANGED <<items, held, signers, self, attr, left, fetched>>
  BY DEF KeyNew, One
<1>2. /\ fetched[t] \in GpgKeys /\ self[t] = NULL /\ ret[t] = NULL
      /\ attr[t] = NULL /\ left[t] = 0
  BY <1>1 DEF CallsInv, CallOK
<1>3. CASE UNCHANGED <<kind, gkey, parent, refs, ret, keyrefs>>
  <2>1. Shape' /\ Kept
    BY <1>3, HeapSame
  <2>2. ObjectsCounted' /\ KeysCounted'
    BY <1>1, <1>3, ObjectsSame, KeysSame
  <2>3. HeapInv'
    BY <1>1, <1>3 DEF HeapInv
  <2>4. CallsInv'
    <3>1. \A u \in Threads \ {t} : CallOK(u)'
      BY <1>1, <1>3, <2>1, CallKept
    <3>2. CallOK(t)'
      BY <1>1, <1>2, <1>3 DEF CallOK
    <3> QED BY <1>1, <1>3, <3>1, <3>2 DEF CallsInv, ResultInv
  <2>5. TypeOK'
    <3>1. OtherTypes'
      BY <1>1, <1>3, <2>1, <2>2 DEF OtherTypes, heap
    <3> QED BY <3>1, <1>1, <1>3, <2>1, <2>2, Typing
  <2> QED BY <2>2, <2>3, <2>4, <2>5
<1>4. ASSUME NEW o \in Objects, Place(o, "Key", fetched[t], NULL),
             refs' = One(refs, o, 1), ret' = One(ret, t, o), KeyRef(fetched[t])
      PROVE  IndInv'
  <2> DEFINE g == fetched[t]
  <2>1. /\ kind[o] = "free" /\ refs[o] = 0 /\ parent[o] = NULL
        /\ kind' = [kind EXCEPT ![o] = "Key"] /\ gkey' = [gkey EXCEPT ![o] = g]
        /\ parent' = [parent EXCEPT ![o] = NULL]
        /\ refs' = [refs EXCEPT ![o] = 1] /\ ret' = [ret EXCEPT ![t] = o]
        /\ keyrefs' = [keyrefs EXCEPT ![g] = keyrefs[g] + 1]
    BY <1>4 DEF Place, One, HeapInv, KeyRef, Views
  <2>2. Shape' /\ Kept
    BY <1>2, <1>4, PlaceKeeps DEF Fits
  <2>3. ObjectsCounted'
    <3>1. \A x \in Objects : /\ ListsWith(x)' = ListsWith(x)
                             /\ Children(x)' = Children(x)
                             /\ GettersOf(x)' = GettersOf(x)
                             /\ t \in MakersOf(x)' <=> x = o
                             /\ t \notin MakersOf(x)
      BY <1>1, <1>2, <2>1 DEF ListsWith, Children, GettersOf, MakersOf
    <3>2. ObjectsChange(o, o, t)
      BY <1>1, <2>1, <3>1 DEF heap, ObjectsChange, Unit
    <3> QED BY <3>2, Balance
  <2>4. KeysCounted'
    <3>1. \A h \in GpgKeys : /\ o \in KeysOn(h)' <=> h = g
                             /\ o \notin KeysOn(h)
                             /\ FetchersOf(h)' = FetchersOf(h)
      BY <1>1, <1>2, <2>1 DEF KeysOn, FetchersOf
    <3>2. KeysChange(o, t)
      BY <1>1, <2>1, <3>1 DEF heap, KeysChange, Unit
    <3> QED BY <3>2, KeyBalance
  <2>5. HeapInv'
    <3>1. \A x \in Objects : \A i \in items[x] : i \in Objects /\ i # o
      BY <2>1, Referred
    <3> QED BY <1>1, <2>1, <3>1 DEF HeapInv
  <2>6. CallsInv'
    <3>1. \A u \in Threads \ {t} : CallOK(u)'
      BY <1>1, <2>1, <2>2, CallKept
    <3>2. CallOK(t)'
      BY <1>1, <1>2, <2>1 DEF CallOK
    <3>3. o \notin held /\ \A u \in Threads : ret[u] # o
      BY <2>1, Referred
    <3>4. ResultInv'
      BY <1>1, <2>1, <3>3 DEF CallsInv, ResultInv
    <3> QED BY <3>1, <3>2, <3>4 DEF CallsInv
  <2>7. TypeOK'
    <3>1. OtherTypes'
      BY <1>1, <1>2, <2>1 DEF OtherTypes, heap
    <3> QED BY <2>2, <2>3, <2>4, <3>1, Typing
  <2> QED BY <2>3, <2>4, <2>5, <2>6, <2>7
<1> QED BY <1>3, <1>4 DEF KeyNew

\* The function gives up its reference to the gpgme_key_t, and the Key goes to
\* the program.
LEMMA ReturnKeyKeeps ==
    ASSUME IndInv, NEW t \in Threads, ReturnKey(t)
    PROVE  IndInv'
<1> USE NullAssumption DEF IndInv, TypeOK
<1> DEFINE g == fetched[t]
<1>1. /\ op' = [op EXCEPT ![t] = "none"] /\ op[t] = "made"
      /\ held' = held \cup ({ret[t]} \ {NULL})
      /\ fetched' = [fetched EXCEPT ![t] = NULL]
      /\ ret' = [ret EXCEPT ![t] = NULL]
      /\ keyrefs' = [keyrefs EXCEPT ![g] = keyrefs[g] - 1]
      /\ UNCHANGED <<heap, refs, signers, self, attr, left>>
  BY DEF ReturnKey, One, KeyUnref
<1>2. g \in GpgKeys /\ self[t] = NULL /\ (ret[t] # NULL => ret[t] \in Objects)
  BY <1>1 DEF CallsInv, CallOK
<1>3. ret[t] # NULL => ret[t] \notin held
  BY DEF CallsInv, ResultInv
<1>4. Shape' /\ Kept
  BY <1>1, HeapSame DEF heap
<1>5. ObjectsCounted'
  <2>1. \A x \in Objects : /\ ListsWith(x)' = ListsWith(x)
                           /\ Children(x)' = Children(x)
                           /\ GettersOf(x)' = GettersOf(x)
                           /\ t \notin MakersOf(x)'
                           /\ t \in MakersOf(x) <=> x = ret[t]
    BY <1>1 DEF heap, ListsWith, Children, GettersOf, MakersOf
  <2>2. ObjectsChange(t, t, t)
    BY <1>1, <1>2, <1>3, <2>1 DEF heap, ObjectsChange, Unit
  <2> QED BY <2>2, Balance
<1>6. KeysCounted'
  <2>1. \A h \in GpgKeys : /\ KeysOn(h)' = KeysOn(h)
                           /\ t \notin FetchersOf(h)'
                           /\ t \in FetchersOf(h) <=> h = g
    BY <1>1, <1>2 DEF heap, KeysOn, FetchersOf
  <2>2. KeysChange(t, t)
    BY <1>1, <2>1 DEF heap, KeysChange, Unit
  <2> QED BY <2>2, KeyBalance
<1>7. HeapInv'
  BY <1>1 DEF heap, HeapInv
<1>8. CallsInv'
  <2>1. \A u \in Threads \ {t} : CallOK(u)'
    BY <1>1, <1>4, CallKept
  <2>2. attr[t] = NULL /\ left[t] = 0
    BY <1>1 DEF CallsInv, CallOK
  <2>3. CallOK(t)'
    BY <1>1, <1>2, <2>2 DEF CallOK
  <2>4. ResultInv'
    BY <1>1 DEF CallsInv, ResultInv
  <2> QED BY <2>1, <2>3, <2>4 DEF CallsInv
<1>9. TypeOK'
  <2>1. OtherTypes'
    BY <1>1, <1>2 DEF OtherTypes, heap
  <2> QED BY <1>4, <1>5, <1>6, <2>1, Typing
<1> QED BY <1>5, <1>6, <1>7, <1>8, <1>9

-----------------------------------------------------------------------------
(* The getters.                                                            *)

\* The caller keeps the object, and the list is known to the getter alone.
LEMMA CallGetterKeeps ==
    ASSUME IndInv, NEW t \in Threads, NEW o \in Objects, NEW a \in Attributes,
           CallGetter(t, o, a)
    PROVE  IndInv'
<1> USE NullAssumption, LengthAssumption DEF IndInv, TypeOK
<1>1. PICK l \in Objects :
          /\ Place(l, "list", NULL, NULL)
          /\ refs' = [refs EXCEPT ![l] = 1, ![o] = @ + 1]
          /\ ret' = [ret EXCEPT ![t] = l]
  BY DEF CallGetter, One
<1>2. /\ op[t] = "none" /\ o \in held /\ kind[o] = OwnerKind[a]
      /\ op' = [op EXCEPT ![t] = "getter"]
      /\ self' = [self EXCEPT ![t] = o] /\ attr' = [attr EXCEPT ![t] = a]
      /\ left' = [left EXCEPT ![t] = Length[a]]
      /\ UNCHANGED <<items, held, keyrefs, signers, fetched>>
  BY DEF CallGetter, One
<1>3. /\ kind[l] = "free" /\ refs[l] = 0 /\ parent[l] = NULL
      /\ kind' = [kind EXCEPT ![l] = "list"]
      /\ gkey' = [gkey EXCEPT ![l] = NULL]
      /\ parent' = [parent EXCEPT ![l] = NULL]
  BY <1>1 DEF Place, One, HeapInv, Views
<1>4. refs[o] > 0 /\ kind[o] # "free" /\ o # l
  BY <1>2, <1>3, Referred
<1>5. self[t] = NULL /\ ret[t] = NULL /\ fetched[t] = NULL
  BY <1>2 DEF CallsInv, CallOK
<1>6. Shape' /\ Kept
  BY <1>1, PlaceKeeps DEF Fits
<1>7. ObjectsCounted'
  <2>1. \A x \in Objects : /\ ListsWith(x)' = ListsWith(x)
                           /\ Children(x)' = Children(x)
                           /\ t \in GettersOf(x)' <=> x = o
                           /\ t \notin GettersOf(x)
                           /\ t \in MakersOf(x)' <=> x = l
                           /\ t \notin MakersOf(x)
    BY <1>1, <1>2, <1>3, <1>5 DEF ListsWith, Children, GettersOf, MakersOf
  <2>2. \A x \in Objects : refs'[x] = IF x = l THEN 1
                                      ELSE IF x = o THEN refs[x] + 1
                                      ELSE refs[x]
    BY <1>1, <1>4
  <2>3. ObjectsChange(l, l, t)
    BY <1>1, <1>2, <1>3, <1>4, <2>1, <2>2 DEF ObjectsChange, Unit
  <2> QED BY <2>3, Balance
<1>8. KeysCounted'
  BY <1>2, <1>3, KeysSame
<1>9. HeapInv'
  <2>1. \A x \in Objects : \A i \in items[x] : i \in Objects /\ i # l
    BY <1>3, Referred
  <2>2. \A x \in Objects \ {l} : kind'[x] = kind[x]
    BY <1>3
  <2>3. \A x \in Objects : kind[x] = "free" /\ x # l => refs'[x] = refs[x]
    BY <1>1, <1>4
  <2> QED BY <1>2, <1>3, <2>1, <2>2, <2>3 DEF HeapInv, Views
<1>10. CallsInv'
  <2>1. \A u \in Threads \ {t} : CallOK(u)'
    BY <1>1, <1>2, <1>6, CallKept
  <2>2. CallOK(t)'
    BY <1>1, <1>2, <1>3, <1>4, <1>5 DEF CallOK
  <2>3. l \notin held /\ \A u \in Threads : ret[u] # l
    BY <1>3, Referred
  <2>4. ResultInv'
    BY <1>1, <1>2, <2>3 DEF CallsInv, ResultInv
  <2> QED BY <2>1, <2>2, <2>4 DEF CallsInv
<1>11. TypeOK'
  <2>1. OtherTypes'
    BY <1>1, <1>2 DEF OtherTypes
  <2> QED BY <1>6, <1>7, <1>8, <2>1, Typing
<1> QED BY <1>7, <1>8, <1>9, <1>10, <1>11

\* What the getter of thread t works with.
LEMMA Working ==
    ASSUME IndInv, NEW t \in Threads, Getting(t)
    PROVE  /\ attr[t] \in Attributes /\ fetched[t] = NULL
           /\ self[t] \in Objects /\ kind[self[t]] = OwnerKind[attr[t]]
           /\ ret[t] \in Objects /\ kind[ret[t]] = "list"
           /\ self[t] # ret[t]
           /\ refs[self[t]] > 0 /\ refs[ret[t]] > 0
           /\ ret[t] \notin held
           /\ gkey[self[t]] \in GpgKeys
<1> USE NullAssumption
<1>1. /\ attr[t] \in Attributes /\ fetched[t] = NULL
      /\ self[t] \in Objects /\ kind[self[t]] = OwnerKind[attr[t]]
      /\ ret[t] \in Objects /\ kind[ret[t]] = "list"
  BY DEF Getting, IndInv, CallsInv, CallOK
<1>2. kind[self[t]] \in {"Key", "UserId"}
  BY <1>1 DEF Attributes, OwnerKind
<1>3. refs[self[t]] > 0 /\ refs[ret[t]] > 0
  BY <1>1, Referred
<1>4. ret[t] \notin held
  BY <1>1 DEF IndInv, CallsInv, ResultInv
<1>5. gkey[self[t]] \in GpgKeys
  BY <1>1, <1>2 DEF IndInv, TypeOK
<1> QED BY <1>1, <1>2, <1>3, <1>4, <1>5

\* The item that a getter makes suits the place it is made for.
LEMMA ItemFits ==
    ASSUME IndInv, NEW t \in Threads, Getting(t)
    PROVE  /\ ItemKind[attr[t]] \in Views
           /\ Fits(ItemKind[attr[t]], gkey[self[t]], self[t])
<1>1. ItemKind[attr[t]] \in Views
  BY Working DEF Attributes, ItemKind, Views
<1>2. OwnerKind[attr[t]] = IF ItemKind[attr[t]] = "KeySig" THEN "UserId"
                           ELSE "Key"
  BY Working DEF Attributes, ItemKind, OwnerKind
<1> QED BY <1>1, <1>2, Working, NullAssumption DEF Fits

\* One reference more to the parent, and the only one to the item in the list.
LEMMA AddItemKeeps ==
    ASSUME IndInv, NEW t \in Threads, AddItem(t)
    PROVE  IndInv'
<1> USE NullAssumption DEF IndInv, TypeOK
<1> DEFINE k == ItemKind[attr[t]]
<1>1. Getting(t) /\ left[t] > 0
  BY DEF AddItem
<1>2. PICK p \in Objects : p = self[t] /\ refs[p] > 0 /\ kind[p] # "free"
  BY <1>1, Working, Referred
<1>3. PICK l \in Objects : l = ret[t] /\ refs[l] > 0 /\ kind[l] = "list"
  BY <1>1, Working
<1>4. PICK i \in Objects :
          /\ Place(i, k, gkey[p], p)
          /\ refs' = [refs EXCEPT ![i] = 1, ![p] = @ + 1]
          /\ items' = [items EXCEPT ![l] = items[l] \cup {i}]
  BY <1>2, <1>3 DEF AddItem, One
<1>5. /\ left' = [left EXCEPT ![t] = left[t] - 1]
      /\ UNCHANGED <<held, keyrefs, signers, op, self, attr, fetched, ret>>
  BY DEF AddItem, One
<1>6. k \in Views /\ Fits(k, gkey[p], p)
  BY <1>1, <1>2, ItemFits
<1> HIDE DEF k
<1>7. /\ kind[i] = "free" /\ refs[i] = 0 /\ parent[i] = NULL
      /\ kind' = [kind EXCEPT ![i] = k]
      /\ gkey' = [gkey EXCEPT ![i] = gkey[p]]
      /\ parent' = [parent EXCEPT ![i] = p]
      /\ i # p /\ i # l /\ p # l
  <2>1. p # l
    BY <1>1, <1>2, <1>3, Working
  <2> QED BY <1>2, <1>3, <1>4, <2>1 DEF Place, One, HeapInv, Views
<1>8. Shape' /\ Kept
  BY <1>4, <1>6, PlaceKeeps
<1>9. ObjectsCounted'
  <2>1. i \notin items[l]
    BY <1>7, Referred
  <2>2. \A x \in Objects : /\ l \in ListsWith(x)' <=> x \in items[l] \/ x = i
                           /\ l \in ListsWith(x) <=> x \in items[l]
                           /\ i \in Children(x)' <=> x = p
                           /\ i \notin Children(x)
                           /\ GettersOf(x)' = GettersOf(x)
                           /\ MakersOf(x)' = MakersOf(x)
    BY <1>4, <1>5, <1>7 DEF ListsWith, Children, GettersOf, MakersOf
  <2>3. \A x \in Objects : refs'[x] = IF x = i THEN 1
                                      ELSE IF x = p THEN refs[x] + 1
                                      ELSE refs[x]
    BY <1>4, <1>7
  <2>4. ObjectsChange(l, i, t)
    BY <1>4, <1>5, <1>7, <2>1, <2>2, <2>3 DEF ObjectsChange, Unit
  <2> QED BY <2>4, Balance
<1>10. KeysCounted'
  BY <1>5, <1>6, <1>7, KeysSame DEF Views
<1>11. HeapInv'
  <2>1. \A x \in Objects : \A y \in items[x] : y \in Objects /\ y # i
    BY <1>7, Referred
  <2>2. \A x \in Objects \ {i} : kind'[x] = kind[x]
    BY <1>7
  <2>3. \A x \in Objects : kind[x] = "free" /\ x # i => refs'[x] = refs[x]
    BY <1>2, <1>4
  <2>4. \A x \in Objects : items'[x] = IF x = l THEN items[l] \cup {i}
                                       ELSE items[x]
    BY <1>4
  <2>5. kind'[i] = k
    BY <1>7
  <2> QED BY <1>3, <1>6, <1>7, <2>1, <2>2, <2>3, <2>4, <2>5 DEF HeapInv, Views
<1>12. CallsInv'
  <2>1. \A u \in Threads \ {t} : CallOK(u)'
    BY <1>5, <1>8, CallKept
  <2>2. CallOK(t)'
    <3>1. kind'[p] = kind[p] /\ kind'[l] = kind[l]
      BY <1>7
    <3> QED BY <1>1, <1>2, <1>3, <1>5, <3>1, Working DEF CallOK, Getting
  <2> QED BY <1>5, <2>1, <2>2 DEF CallsInv, ResultInv
<1>13. TypeOK'
  <2>1. OtherTypes'
    BY <1>1, <1>4, <1>5, <1>7 DEF OtherTypes
  <2> QED BY <1>8, <1>9, <1>10, <2>1, Typing
<1> QED BY <1>9, <1>10, <1>11, <1>12, <1>13

\* The item has a reference to its parent, and nothing refers to the item.
LEMMA AppendFailsKeeps ==
    ASSUME IndInv, NEW t \in Threads, AppendFails(t)
    PROVE  IndInv'
<1> USE NullAssumption DEF IndInv, TypeOK
<1> DEFINE k == ItemKind[attr[t]]
<1>1. Getting(t) /\ left[t] > 0
  BY DEF AppendFails
<1>2. PICK p \in Objects : p = self[t] /\ refs[p] > 0 /\ kind[p] # "free"
  BY <1>1, Working, Referred
<1>3. PICK i \in Objects :
          /\ Place(i, k, gkey[p], p)
          /\ refs' = [refs EXCEPT ![p] = refs[p] + 1]
  BY <1>2 DEF AppendFails, One, Incref
<1>4. /\ left' = [left EXCEPT ![t] = left[t] - 1]
      /\ UNCHANGED <<items, held, keyrefs, signers, op, self, attr, fetched,
                     ret>>
  BY DEF AppendFails, One
<1>5. k \in Views /\ Fits(k, gkey[p], p)
  BY <1>1, <1>2, ItemFits
<1> HIDE DEF k
<1>6. /\ kind[i] = "free" /\ refs[i] = 0 /\ parent[i] = NULL /\ i # p
      /\ kind' = [kind EXCEPT ![i] = k]
      /\ gkey' = [gkey EXCEPT ![i] = gkey[p]]
      /\ parent' = [parent EXCEPT ![i] = p]
  BY <1>2, <1>3 DEF Place, One, HeapInv, Views
<1>7. Shape' /\ Kept
  BY <1>3, <1>5, PlaceKeeps
<1>8. ObjectsCounted'
  <2>1. \A x \in Objects : /\ ListsWith(x)' = ListsWith(x)
                           /\ i \in Children(x)' <=> x = p
                           /\ i \notin Children(x)
                           /\ GettersOf(x)' = GettersOf(x)
                           /\ MakersOf(x)' = MakersOf(x)
    BY <1>4, <1>6 DEF ListsWith, Children, GettersOf, MakersOf
  <2>2. \A x \in Objects : refs'[x] = IF x = p THEN refs[x] + 1 ELSE refs[x]
    BY <1>3
  <2>3. ObjectsChange(i, i, t)
    BY <1>4, <1>6, <2>1, <2>2 DEF ObjectsChange, Unit
  <2> QED BY <2>3, Balance
<1>9. KeysCounted'
  BY <1>4, <1>5, <1>6, KeysSame DEF Views
<1>10. HeapInv'
  <2>1. \A x \in Objects : \A y \in items[x] : y \in Objects /\ y # i
    BY <1>6, Referred
  <2>2. \A x \in Objects \ {i} : kind'[x] = kind[x]
    BY <1>6
  <2>3. \A x \in Objects : kind[x] = "free" => refs'[x] = refs[x]
    BY <1>2, <1>3
  <2> QED BY <1>4, <1>5, <1>6, <2>1, <2>2, <2>3 DEF HeapInv, Views
<1>11. CallsInv'
  <2>1. \A u \in Threads \ {t} : CallOK(u)'
    BY <1>4, <1>7, CallKept
  <2>2. CallOK(t)'
    <3>1. kind'[p] = kind[p] /\ kind'[ret[t]] = kind[ret[t]]
      BY <1>1, <1>6, Working
    <3> QED BY <1>1, <1>2, <1>4, <3>1, Working DEF CallOK, Getting
  <2> QED BY <1>4, <2>1, <2>2 DEF CallsInv, ResultInv
<1>12. TypeOK'
  <2>1. OtherTypes'
    BY <1>1, <1>3, <1>4 DEF OtherTypes
  <2> QED BY <1>7, <1>8, <1>9, <2>1, Typing
<1> QED BY <1>8, <1>9, <1>10, <1>11, <1>12

\* The getter is left, and its list dropped or returned.
LEMMA LeaveKeeps ==
    ASSUME IndInv, NEW t \in Threads, ItemFails(t) \/ ReturnList(t)
    PROVE  IndInv'
<1> USE NullAssumption DEF IndInv, TypeOK
<1>1. Getting(t)
  BY DEF ItemFails, ReturnList
<1>2. PICK p \in Objects : p = self[t] /\ refs[p] > 0 /\ kind[p] # "free"
  BY <1>1, Working, Referred
<1>3. PICK l \in Objects : /\ l = ret[t] /\ refs[l] > 0 /\ kind[l] = "list"
                           /\ l # p /\ l \notin held
  BY <1>1, <1>2, Working
<1>4. /\ op' = [op EXCEPT ![t] = "none"] /\ self' = [self EXCEPT ![t] = NULL]
      /\ attr' = [attr EXCEPT ![t] = NULL] /\ left' = [left EXCEPT ![t] = 0]
      /\ ret' = [ret EXCEPT ![t] = NULL]
      /\ UNCHANGED <<heap, keyrefs, signers, fetched>>
  BY DEF ItemFails, ReturnList, Leave, One
<1>5. \/ /\ refs' = [refs EXCEPT ![l] = @ - 1, ![p] = @ - 1]
         /\ held' = held
      \/ /\ refs' = [refs EXCEPT ![p] = refs[p] - 1]
         /\ held' = held \cup {l}
  BY <1>2, <1>3 DEF ItemFails, ReturnList, Decref, One
<1>6. Shape' /\ Kept
  BY <1>4, HeapSame DEF heap
<1>7. ObjectsCounted'
  <2>1. \A x \in Objects : /\ ListsWith(x)' = ListsWith(x)
                           /\ Children(x)' = Children(x)
                           /\ t \notin GettersOf(x)'
                           /\ t \in GettersOf(x) <=> x = p
                           /\ t \notin MakersOf(x)'
                           /\ t \in MakersOf(x) <=> x = l
    BY <1>2, <1>3, <1>4 DEF heap, ListsWith, Children, GettersOf, MakersOf
  <2>2. ObjectsChange(t, t, t)
    <3>1. CASE /\ refs' = [refs EXCEPT ![l] = @ - 1, ![p] = @ - 1]
               /\ held' = held
      <4>1. \A x \in Objects : refs'[x] = IF x = p \/ x = l THEN refs[x] - 1
                                          ELSE refs[x]
        BY <1>3, <3>1
      <4> QED BY <1>3, <1>4, <2>1, <3>1, <4>1 DEF heap, ObjectsChange, Unit
    <3>2. CASE /\ refs' = [refs EXCEPT ![p] = refs[p] - 1]
               /\ held' = held \cup {l}
      <4>1. \A x \in Objects : refs'[x] = IF x = p THEN refs[x] - 1
                                          ELSE refs[x]
        BY <3>2
      <4> QED BY <1>3, <1>4, <2>1, <3>2, <4>1 DEF heap, ObjectsChange, Unit
    <3> QED BY <1>5, <3>1, <3>2
  <2> QED BY <2>2, Balance
<1>8. KeysCounted'
  BY <1>4, KeysSame DEF heap
<1>9. HeapInv'
  <2>1. \A x \in Objects : kind[x] = "free" => refs'[x] = refs[x]
    BY <1>2, <1>3, <1>5
  <2> QED BY <1>4, <2>1 DEF heap, HeapInv
<1>10. CallsInv'
  <2>1. \A u \in Threads \ {t} : CallOK(u)'
    BY <1>4, <1>6, CallKept
  <2>2. CallOK(t)'
    BY <1>1, <1>4, Working DEF CallOK
  <2>3. ResultInv'
    BY <1>3, <1>4, <1>5 DEF CallsInv, ResultInv
  <2> QED BY <2>1, <2>2, <2>3 DEF CallsInv
<1>11. TypeOK'
  <2>1. OtherTypes'
    BY <1>4, <1>5 DEF OtherTypes, heap
  <2> QED BY <1>6, <1>7, <1>8, <2>1, Typing
<1> QED BY <1>7, <1>8, <1>9, <1>10, <1>11

-----------------------------------------------------------------------------
(* What the program does with its objects.                                 *)

\* Where no function moves, the calls are as good as before.
LEMMA CallsSame ==
    ASSUME IndInv, Kept, UNCHANGED calls
    PROVE  \A u \in Threads : CallOK(u)'
<1> SUFFICES ASSUME NEW u \in Threads PROVE CallOK(u)'
  OBVIOUS
<1>1. /\ op'[u] = op[u] /\ self'[u] = self[u] /\ attr'[u] = attr[u]
      /\ left'[u] = left[u] /\ fetched'[u] = fetched[u] /\ ret'[u] = ret[u]
  BY DEF calls
<1> QED BY <1>1, CallKept

\* An item of a list gets a name.  It is a view, which no function is about to
\* return.
LEMMA TakeItemKeeps ==
    ASSUME IndInv, NEW l \in Objects, NEW i \in Objects, TakeItem(l, i)
    PROVE  IndInv'
<1> USE DEF IndInv, TypeOK
<1>1. /\ i \in items[l] /\ i \notin held /\ held' = held \cup {i}
      /\ refs' = [refs EXCEPT ![i] = refs[i] + 1]
      /\ UNCHANGED <<heap, keyrefs, signers, calls>>
  BY DEF TakeItem, Incref, One
<1>2. Shape' /\ Kept
  BY <1>1, HeapSame DEF heap
<1>3. refs[i] > 0 /\ kind[i] # "free" /\ kind[i] \in Views
  BY <1>1, Referred DEF HeapInv
<1>4. ObjectsCounted'
  <2>1. \A x \in Objects : /\ ListsWith(x)' = ListsWith(x)
                           /\ Children(x)' = Children(x)
                           /\ GettersOf(x)' = GettersOf(x)
                           /\ MakersOf(x)' = MakersOf(x)
    BY <1>1 DEF heap, calls, ListsWith, Children, GettersOf, MakersOf
  <2>2. ObjectsChange(l, l, l)
    BY <1>1, <2>1 DEF heap, calls, ObjectsChange, Unit
  <2> QED BY <2>2, Balance
<1>5. KeysCounted'
  BY <1>1, KeysSame DEF heap, calls
<1>6. HeapInv'
  BY <1>1, <1>3 DEF heap, HeapInv
<1>7. CallsInv'
  <2>1. \A u \in Threads : CallOK(u)'
    BY <1>1, <1>2, CallsSame
  <2>2. \A u \in Threads : ret[u] # i
    BY <1>3, NullAssumption DEF CallsInv, CallOK, Views
  <2>3. ResultInv'
    BY <1>1, <2>2 DEF CallsInv, ResultInv, calls
  <2> QED BY <2>1, <2>3 DEF CallsInv
<1>8. TypeOK'
  <2>1. OtherTypes'
    BY <1>1 DEF OtherTypes, heap, calls
  <2> QED BY <1>2, <1>4, <1>5, <2>1, Typing
<1> QED BY <1>4, <1>5, <1>6, <1>7, <1>8

\* A name is dropped, and one reference with it.
LEMMA DropNameKeeps ==
    ASSUME IndInv, NEW o \in Objects, DropName(o)
    PROVE  IndInv'
<1> USE DEF IndInv, TypeOK
<1>1. /\ o \in held /\ held' = held \ {o}
      /\ refs' = [refs EXCEPT ![o] = refs[o] - 1]
      /\ UNCHANGED <<heap, keyrefs, signers, calls>>
  BY DEF DropName, Decref, One
<1>2. Shape' /\ Kept
  BY <1>1, HeapSame DEF heap
<1>3. refs[o] > 0 /\ kind[o] # "free"
  BY <1>1, Referred
<1>4. ObjectsCounted'
  <2>1. \A x \in Objects : /\ ListsWith(x)' = ListsWith(x)
                           /\ Children(x)' = Children(x)
                           /\ GettersOf(x)' = GettersOf(x)
                           /\ MakersOf(x)' = MakersOf(x)
    BY <1>1 DEF heap, calls, ListsWith, Children, GettersOf, MakersOf
  <2>2. ObjectsChange(o, o, o)
    BY <1>1, <2>1 DEF heap, calls, ObjectsChange, Unit
  <2> QED BY <2>2, Balance
<1>5. KeysCounted'
  BY <1>1, KeysSame DEF heap, calls
<1>6. HeapInv'
  BY <1>1, <1>3 DEF heap, HeapInv
<1>7. CallsInv'
  <2>1. \A u \in Threads : CallOK(u)'
    BY <1>1, <1>2, CallsSame
  <2>2. ResultInv'
    BY <1>1 DEF CallsInv, ResultInv, calls
  <2> QED BY <2>1, <2>2 DEF CallsInv
<1>8. TypeOK'
  <2>1. OtherTypes'
    BY <1>1 DEF OtherTypes, heap, calls
  <2> QED BY <1>2, <1>4, <1>5, <2>1, Typing
<1> QED BY <1>4, <1>5, <1>6, <1>7, <1>8

\* The context takes a reference to the gpgme_key_t of a Key, or gives up
\* those of its signers.
LEMMA SignersKeep ==
    ASSUME IndInv, ClearSigners \/ \E o \in Objects : AddSigner(o)
    PROVE  IndInv'
<1> USE DEF IndInv, TypeOK
<1>1. UNCHANGED <<heap, refs, held, calls>>
  BY DEF ClearSigners, AddSigner
<1>2. Shape' /\ Kept
  BY <1>1, HeapSame DEF heap
<1>3. ObjectsCounted'
  BY <1>1, ObjectsSame DEF heap, calls
<1>4. \A g \in GpgKeys : KeysOn(g)' = KeysOn(g) /\ FetchersOf(g)' = FetchersOf(g)
  BY <1>1 DEF heap, calls, KeysOn, FetchersOf
<1>5. /\ \A g \in GpgKeys : keyrefs'[g] = keyrefs[g] + Unit(g \in signers')
                                          - Unit(g \in signers)
      /\ signers' \subseteq GpgKeys /\ keyrefs' \in [GpgKeys -> Int]
  <2>1. CASE ClearSigners
    BY <2>1 DEF ClearSigners, Unit
  <2>2. ASSUME NEW o \in Objects, AddSigner(o)
        PROVE  <1>5
    <3>1. gkey[o] \in GpgKeys
      BY <2>2 DEF AddSigner
    <3> QED BY <2>2, <3>1 DEF AddSigner, KeyRef, One, Unit
  <2> QED BY <2>1, <2>2
<1>6. KeysCounted'
  <2>1. KeysChange(NULL, NULL)
    BY <1>1, <1>4, <1>5 DEF heap, calls, KeysChange, Unit
  <2> QED BY <2>1, KeyBalance
<1>7. HeapInv'
  BY <1>1 DEF heap, HeapInv
<1>8. CallsInv'
  <2>1. \A u \in Threads : CallOK(u)'
    BY <1>1, <1>2, CallsSame
  <2> QED BY <1>1, <2>1 DEF CallsInv, ResultInv, calls
<1>9. TypeOK'
  <2>1. OtherTypes'
    BY <1>1, <1>5 DEF OtherTypes, heap, calls
  <2> QED BY <1>2, <1>3, <1>6, <2>1, Typing
<1> QED BY <1>3, <1>6, <1>7, <1>8, <1>9

-----------------------------------------------------------------------------
(* Deallocation.                                                           *)

\* What is taken apart is referred to by nothing, and only a list has items,
\* only a view a parent.
LEMMA Unreferred ==
    ASSUME IndInv, NEW o \in Objects, Dead(o), Vacate(o)
    PROVE  /\ kind' = [kind EXCEPT ![o] = "free"]
           /\ gkey' = [gkey EXCEPT ![o] = NULL]
           /\ parent' = [parent EXCEPT ![o] = NULL]
           /\ items' = [items EXCEPT ![o] = {}]
           /\ refs[o] = 0 /\ o \notin held
           /\ \A x \in Objects : o \notin items[x] /\ parent[x] # o
           /\ kind[o] # "list" => items[o] = {}
           /\ kind[o] \notin Views => parent[o] = NULL
<1>1. refs[o] = 0 /\ kind[o] # "free"
  BY DEF Dead
<1>2. o \notin held /\ \A x \in Objects : o \notin items[x] /\ parent[x] # o
  BY <1>1, Referred
<1>3. /\ kind[o] # "list" => items[o] = {}
      /\ kind[o] \notin Views => parent[o] = NULL
  BY DEF IndInv, HeapInv, TypeOK
<1> QED BY <1>1, <1>2, <1>3 DEF Vacate, One

\* Calls, and the rest of the heap, are not affected by it.
LEMMA VacateRest ==
    ASSUME IndInv, NEW o \in Objects, Dead(o), Vacate(o), Kept,
           UNCHANGED <<held, calls>>,
           refs'[o] = 0, \A x \in Objects : kind[x] = "free" => refs'[x] = 0
    PROVE  HeapInv' /\ CallsInv'
<1>1. HeapInv'
  <2>1. \A x \in Objects : \A i \in items[x] : i \in Objects /\ i # o
    BY Unreferred DEF IndInv, TypeOK
  <2>2. \A x \in Objects \ {o} : kind'[x] = kind[x] /\ items'[x] = items[x]
    BY Unreferred DEF IndInv, TypeOK
  <2>3. kind'[o] = "free" /\ items'[o] = {}
    BY Unreferred DEF IndInv, TypeOK
  <2> QED BY <2>1, <2>2, <2>3 DEF IndInv, HeapInv
<1>2. CallsInv'
  <2>1. \A u \in Threads : CallOK(u)'
    BY CallsSame
  <2> QED BY <2>1 DEF IndInv, CallsInv, ResultInv, calls
<1> QED BY <1>1, <1>2

\* A Key is taken apart, and gives up its gpgme_key_t.
LEMMA KeyFreed ==
    ASSUME IndInv, NEW o \in Objects, KeyDealloc(o)
    PROVE  IndInv'
<1> USE NullAssumption DEF IndInv, TypeOK
<1>1. PICK g \in GpgKeys : g = gkey[o]
  BY DEF KeyDealloc
<1>2. /\ Dead(o) /\ kind[o] = "Key" /\ Vacate(o)
      /\ keyrefs' = [keyrefs EXCEPT ![g] = keyrefs[g] - 1]
      /\ UNCHANGED <<refs, held, signers, calls>>
  BY <1>1 DEF KeyDealloc, KeyUnref, One
<1>3. Shape' /\ Kept
  BY <1>2, VacateKeeps
<1>4. /\ kind' = [kind EXCEPT ![o] = "free"]
      /\ gkey' = [gkey EXCEPT ![o] = NULL]
      /\ refs[o] = 0 /\ parent' = parent /\ items' = items
  <2>1. /\ kind' = [kind EXCEPT ![o] = "free"]
        /\ gkey' = [gkey EXCEPT ![o] = NULL]
        /\ parent' = [parent EXCEPT ![o] = NULL]
        /\ items' = [items EXCEPT ![o] = {}]
        /\ refs[o] = 0 /\ items[o] = {} /\ parent[o] = NULL
    BY <1>2, Unreferred DEF Views
  <2>2. parent' = parent
    BY <2>1
  <2>3. items' = items
    BY <2>1
  <2> QED BY <2>1, <2>2, <2>3
<1>5. ObjectsCounted'
  BY <1>2, <1>4, ObjectsSame DEF calls
<1>6. KeysCounted'
  <2>1. \A h \in GpgKeys : /\ FetchersOf(h)' = FetchersOf(h)
                           /\ o \notin KeysOn(h)'
                           /\ o \in KeysOn(h) <=> h = g
    BY <1>1, <1>2, <1>4 DEF calls, KeysOn, FetchersOf
  <2>2. KeysChange(o, NULL)
    BY <1>2, <1>4, <2>1 DEF calls, KeysChange, Unit
  <2> QED BY <2>2, KeyBalance
<1>7. \A x \in Objects : kind[x] = "free" => refs'[x] = 0
  BY <1>2 DEF HeapInv
<1>8. HeapInv' /\ CallsInv'
  BY <1>2, <1>3, <1>4, <1>7, VacateRest
<1>9. TypeOK'
  <2>1. OtherTypes'
    BY <1>2, <1>4 DEF OtherTypes, calls
  <2> QED BY <1>3, <1>5, <1>6, <2>1, Typing
<1> QED BY <1>5, <1>6, <1>8, <1>9

\* A view is taken apart, and gives up its parent.
LEMMA ViewFreed ==
    ASSUME IndInv, NEW o \in Objects, ViewDealloc(o)
    PROVE  IndInv'
<1> USE NullAssumption DEF IndInv, TypeOK
<1>1. PICK p \in Objects : p = parent[o] /\ refs[p] > 0 /\ kind[p] # "free"
  <2>1. parent[o] \in Objects
    BY DEF ViewDealloc
  <2> QED BY <2>1, Referred
<1>2. /\ Dead(o) /\ kind[o] \in Views /\ Vacate(o)
      /\ refs' = [refs EXCEPT ![p] = refs[p] - 1]
      /\ UNCHANGED <<held, keyrefs, signers, calls>>
  BY <1>1 DEF ViewDealloc, Decref, One
<1>3. Shape' /\ Kept
  BY <1>2, VacateKeeps
<1>4. /\ kind' = [kind EXCEPT ![o] = "free"]
      /\ gkey' = [gkey EXCEPT ![o] = NULL]
      /\ parent' = [parent EXCEPT ![o] = NULL]
      /\ items' = items /\ refs[o] = 0 /\ p # o
  <2>1. /\ kind' = [kind EXCEPT ![o] = "free"]
        /\ gkey' = [gkey EXCEPT ![o] = NULL]
        /\ parent' = [parent EXCEPT ![o] = NULL]
        /\ items' = [items EXCEPT ![o] = {}]
        /\ refs[o] = 0 /\ items[o] = {}
    BY <1>2, Unreferred DEF Views
  <2>2. items' = items
    BY <2>1
  <2> QED BY <1>1, <2>1, <2>2
<1>5. ObjectsCounted'
  <2>1. \A x \in Objects : /\ ListsWith(x)' = ListsWith(x)
                           /\ o \notin Children(x)'
                           /\ o \in Children(x) <=> x = p
                           /\ GettersOf(x)' = GettersOf(x)
                           /\ MakersOf(x)' = MakersOf(x)
    BY <1>1, <1>2, <1>4 DEF calls, ListsWith, Children, GettersOf, MakersOf
  <2>2. ObjectsChange(o, o, o)
    BY <1>2, <1>4, <2>1 DEF calls, ObjectsChange, Unit
  <2> QED BY <2>2, Balance
<1>6. KeysCounted'
  BY <1>2, <1>4, KeysSame DEF calls, Views
<1>7. \A x \in Objects : kind[x] = "free" => refs'[x] = 0
  BY <1>1, <1>2 DEF HeapInv
<1>8. HeapInv' /\ CallsInv'
  BY <1>2, <1>3, <1>4, <1>7, VacateRest
<1>9. TypeOK'
  <2>1. OtherTypes'
    BY <1>2, <1>4 DEF OtherTypes, calls
  <2> QED BY <1>3, <1>5, <1>6, <2>1, Typing
<1> QED BY <1>5, <1>6, <1>8, <1>9

\* A list is taken apart, and gives up its items.
LEMMA ListFreed ==
    ASSUME IndInv, NEW o \in Objects, ListDealloc(o)
    PROVE  IndInv'
<1> USE NullAssumption DEF IndInv, TypeOK
<1>1. /\ Dead(o) /\ kind[o] = "list" /\ Vacate(o)
      /\ refs' = [i \in Objects |-> refs[i] - IF i \in items[o] THEN 1 ELSE 0]
      /\ UNCHANGED <<held, keyrefs, signers, calls>>
  BY DEF ListDealloc
<1>2. Shape' /\ Kept
  BY <1>1, VacateKeeps
<1>3. /\ kind' = [kind EXCEPT ![o] = "free"]
      /\ gkey' = [gkey EXCEPT ![o] = NULL]
      /\ parent' = parent /\ items' = [items EXCEPT ![o] = {}]
      /\ refs[o] = 0 /\ o \notin items[o]
  BY <1>1, Unreferred DEF Views
<1>4. ObjectsCounted'
  <2>1. \A x \in Objects : /\ o \notin ListsWith(x)'
                           /\ o \in ListsWith(x) <=> x \in items[o]
                           /\ Children(x)' = Children(x)
                           /\ GettersOf(x)' = GettersOf(x)
                           /\ MakersOf(x)' = MakersOf(x)
    BY <1>1, <1>3 DEF calls, ListsWith, Children, GettersOf, MakersOf
  <2>2. ObjectsChange(o, o, o)
    BY <1>1, <1>3, <2>1 DEF calls, ObjectsChange, Unit
  <2> QED BY <2>2, Balance
<1>5. KeysCounted'
  BY <1>1, <1>3, KeysSame DEF calls
<1>6. \A x \in Objects : kind[x] = "free" => refs'[x] = 0
  <2>1. \A x \in Objects : kind[x] = "free" => refs[x] = 0 /\ x \notin items[o]
    BY Referred DEF HeapInv
  <2> QED BY <1>1, <2>1
<1>7. refs'[o] = 0
  BY <1>1, <1>3
<1>8. HeapInv' /\ CallsInv'
  BY <1>1, <1>2, <1>6, <1>7, VacateRest
<1>9. TypeOK'
  <2>1. OtherTypes'
    BY <1>1, <1>3 DEF OtherTypes, calls
  <2> QED BY <1>2, <1>4, <1>5, <2>1, Typing
<1> QED BY <1>4, <1>5, <1>8, <1>9

-----------------------------------------------------------------------------
(* The theorems.                                                           *)

\* Where no step is taken, the invariant stays.
LEMMA Stutter ==
    ASSUME IndInv, UNCHANGED vars
    PROVE  IndInv'
<1> USE DEF vars, heap, calls
<1>1. ObjectsCounted' /\ KeysCounted'
  BY ObjectsSame, KeysSame DEF IndInv
<1>2. TypeOK' /\ HeapInv'
  BY DEF IndInv, TypeOK, HeapInv
<1>3. CallsInv'
  BY DEF IndInv, CallsInv, CallOK, ResultInv
<1> QED BY <1>1, <1>2, <1>3 DEF IndInv

\* Every step keeps the invariant.
LEMMA StepKeeps ==
    ASSUME IndInv, [Next]_vars
    PROVE  IndInv'
<1>1. ASSUME NEW t \in Threads, ThreadStep(t)
      PROVE  IndInv'
  BY <1>1, FetchKeyKeeps, KeyNewKeeps, ReturnKeyKeeps, CallGetterKeeps,
     AddItemKeeps, AppendFailsKeeps, LeaveKeeps DEF ThreadStep
<1>2. ASSUME NEW o \in Objects, NEW i \in Objects, TakeItem(o, i)
      PROVE  IndInv'
  BY <1>2, TakeItemKeeps
<1>3. ASSUME NEW o \in Objects, \/ DropName(o) \/ AddSigner(o) \/ KeyDealloc(o)
                                \/ ViewDealloc(o) \/ ListDealloc(o)
      PROVE  IndInv'
  BY <1>3, DropNameKeeps, SignersKeep, KeyFreed, ViewFreed, ListFreed
<1>4. CASE ClearSigners
  BY <1>4, SignersKeep
<1>5. CASE UNCHANGED vars
  BY <1>5, Stutter
<1> QED BY <1>1, <1>2, <1>3, <1>4, <1>5 DEF Next

\* The invariant holds at any time.
LEMMA Invariance == Spec => []IndInv
<1>1. Init => IndInv
  BY InitInv
<1>2. IndInv /\ [Next]_vars => IndInv'
  BY StepKeeps
<1> QED BY <1>1, <1>2, PTL DEF Spec

\* Objects are of the type their pointers and parents suit: a view always has
\* a parent of the type it was read from, and points into the same memory.
THEOREM TypeCorrect == Spec => []TypeOK
<1>1. IndInv => TypeOK
  BY DEF IndInv
<1> QED BY <1>1, Invariance, PTL

\* Whatever path a function takes, the counts of objects and of gpgme_key_t
\* are what refers to them: nothing leaks, and nothing is freed too soon.
THEOREM CountsAreExact == Spec => []CountsExact
<1>1. IndInv => CountsExact
  BY DEF IndInv, ObjectsCounted, KeysCounted, CountsExact
<1> QED BY <1>1, Invariance, PTL

\* A Subkey, UserId or KeySig may be read for as long as it is held: its
\* parent has not been deallocated, and the memory is that of a gpgme_key_t
\* that a Key still refers to.
THEOREM ViewsStayValid == Spec => []ViewsValid
<1>1. ASSUME IndInv, NEW o \in Objects, kind[o] = "Key"
      PROVE  gkey[o] \in GpgKeys /\ keyrefs[gkey[o]] > 0
  <2>1. gkey[o] \in GpgKeys
    BY <1>1 DEF IndInv, TypeOK
  <2> QED BY <1>1, <2>1, KeyReferred
<1>2. ASSUME IndInv, NEW o \in Objects, kind[o] \in Views
      PROVE  /\ parent[o] \in Objects /\ Live(parent[o])
             /\ gkey[o] = gkey[parent[o]]
             /\ kind[parent[o]] = IF kind[o] = "KeySig" THEN "UserId" ELSE "Key"
  <2>1. /\ parent[o] \in Objects /\ gkey[o] = gkey[parent[o]]
        /\ kind[parent[o]] = IF kind[o] = "KeySig" THEN "UserId" ELSE "Key"
    BY <1>2 DEF IndInv, TypeOK
  <2> QED BY <1>2, <2>1, Referred DEF Live
<1>3. ASSUME IndInv, NEW o \in Objects, kind[o] \in Views
      PROVE  keyrefs[gkey[o]] > 0
  <2>1. CASE kind[parent[o]] = "Key"
    BY <1>1, <1>2, <1>3, <2>1
  <2>2. CASE kind[parent[o]] = "UserId"
    <3>1. parent[o] \in Objects /\ gkey[o] = gkey[parent[o]]
      BY <1>2, <1>3
    <3>2. /\ parent[parent[o]] \in Objects
          /\ gkey[parent[o]] = gkey[parent[parent[o]]]
          /\ kind[parent[parent[o]]] = "Key"
      BY <1>2, <1>3, <2>2, <3>1 DEF Views
    <3> QED BY <1>1, <1>3, <3>1, <3>2
  <2> QED BY <1>2, <1>3, <2>1, <2>2
<1>4. ASSUME IndInv, NEW o \in Objects, kind[o] = "Key"
      PROVE  parent[o] = NULL
  BY <1>4 DEF IndInv, TypeOK, Views
<1>5. IndInv => ViewsValid
  BY <1>1, <1>2, <1>3, <1>4 DEF ViewsValid, Views
<1> QED BY <1>5, Invariance, PTL
=============================================================================
