-------------------------- MODULE KeyListingProofs --------------------------
(***************************************************************************)
(* Proofs about KeyListing, for any sets of contexts, iterators, keys and  *)
(* patterns, and any bound on the keys taken from an iterator.             *)
(*                                                                         *)
(* IndInv is inductive.  Its parts are the types, the references (of which *)
(* there are finitely many at any time, so that their number can go up and *)
(* down by one), and what the owner of a listing has returned of it.        *)
(***************************************************************************)
EXTENDS KeyListing, FiniteSetTheorems, SequenceTheorems, TLAPS

\* TypeOK, and the functions it only speaks of the values of.
Typed ==
    /\ TypeOK
    /\ listing = [c \in Contexts |-> listing[c]]

\* The program and finitely many iterators refer to a context.
RefsInv ==
    /\ \A c \in Contexts : IsFiniteSet(IteratorsOf(c))
    /\ ContextRefsExact

\* The owner of a listing is an iterator of the context.
OwnerInv == \A c \in Contexts : owner[c] # NULL => ctx[owner[c]] = c

\* An iterator that does not exist has no past.
FreshInv ==
    \A i \in Iters :
        ctx[i] = NULL => yielded[i] = <<>> /\ outcome[i] = "none"

\* How many members of all are not in l, its end.
Gone(all, l) == Len(all) - Len(l)

\* l is the end of all.
EndOf(l, all) ==
    /\ l \in Seq(Keys) /\ Len(l) <= Len(all)
    /\ \A n \in 1 .. Len(l) : l[n] = all[Gone(all, l) + n]

\* y is what is left of the first g members of all without some of them.
InOrder(y, all, g) ==
    \E place \in [1 .. Len(y) -> 1 .. g] :
        /\ \A m, n \in 1 .. Len(y) : m < n => place[m] < place[n]
        /\ \A n \in 1 .. Len(y) : y[n] = all[place[n]]

\* What LatestIteratorInOrder says of the owner i of the listing of c, with
\* what is still to come as the end of what matches.
Delivered(i, c) ==
    LET all == Matches[asked[i]] IN
    /\ asked[i] \in Patterns
    /\ EndOf(listing[c], all)
    /\ InOrder(yielded[i], all, Gone(all, listing[c]))
    /\ c \notin broken => Gone(all, listing[c]) = Len(yielded[i]) + taken[c]
    /\ c \notin broken /\ taken[c] = 0 => yielded[i] \o listing[c] = all
    /\ outcome[i] = "stop" => listing[c] = <<>>

DeliveredInv == \A c \in Contexts : owner[c] # NULL => Delivered(owner[c], c)

ListInv == OwnerInv /\ FreshInv /\ DeliveredInv
IndInv  == Typed /\ RefsInv /\ ListInv

-----------------------------------------------------------------------------
\* Taking the head of a listing and appending it to what has been returned
\* does not change the two together.
LEMMA MoveHead ==
    ASSUME NEW S, NEW y \in Seq(S), NEW l \in Seq(S), l # <<>>
    PROVE  /\ Append(y, Head(l)) \in Seq(S)
           /\ Tail(l) \in Seq(S)
           /\ Append(y, Head(l)) \o Tail(l) = y \o l
<1>1. /\ Head(l) \in S /\ Tail(l) \in Seq(S)
      /\ Len(Tail(l)) = Len(l) - 1
      /\ \A i \in 1 .. Len(Tail(l)) : Tail(l)[i] = l[i + 1]
  BY HeadTailProperties
<1>2. /\ Append(y, Head(l)) \in Seq(S)
      /\ Len(Append(y, Head(l))) = Len(y) + 1
      /\ \A i \in 1 .. Len(y) : Append(y, Head(l))[i] = y[i]
      /\ Append(y, Head(l))[Len(y) + 1] = Head(l)
  BY <1>1, AppendProperties
<1> DEFINE a == Append(y, Head(l)) \o Tail(l)
           b == y \o l
<1>3. /\ a \in Seq(S) /\ Len(a) = Len(y) + Len(l)
      /\ \A i \in 1 .. Len(y) + Len(l) :
             a[i] = IF i <= Len(y) + 1 THEN Append(y, Head(l))[i]
                    ELSE Tail(l)[i - (Len(y) + 1)]
  BY <1>1, <1>2, ConcatProperties, LenProperties
<1>4. /\ b \in Seq(S) /\ Len(b) = Len(y) + Len(l)
      /\ \A i \in 1 .. Len(y) + Len(l) :
             b[i] = IF i <= Len(y) THEN y[i] ELSE l[i - Len(y)]
  BY ConcatProperties
<1>5. ASSUME NEW i \in 1 .. Len(y) + Len(l) PROVE a[i] = b[i]
  <2>1. Len(y) \in Nat /\ Len(l) \in Nat /\ Head(l) = l[1]
    BY LenProperties
  <2>2. CASE i <= Len(y)
    BY <1>2, <1>3, <1>4, <2>1, <2>2
  <2>3. CASE i = Len(y) + 1
    BY <1>2, <1>3, <1>4, <2>1, <2>3
  <2>4. CASE i > Len(y) + 1
    <3>1. i - (Len(y) + 1) \in 1 .. Len(Tail(l))
      BY <1>1, <2>1, <2>4
    <3>2. Tail(l)[i - (Len(y) + 1)] = l[(i - (Len(y) + 1)) + 1]
      BY <1>1, <3>1
    <3>3. (i - (Len(y) + 1)) + 1 = i - Len(y)
      BY <2>1
    <3> QED BY <1>3, <1>4, <2>1, <2>4, <3>2, <3>3
  <2> QED BY <2>1, <2>2, <2>3, <2>4
<1>6. a = b
  BY <1>3, <1>4, <1>5, SeqEqual
<1> QED BY <1>1, <1>2, <1>6

\* The head of the end of all is the next member of all, the tail is its end.
LEMMA EndTail ==
    ASSUME NEW all \in Seq(Keys), NEW l, EndOf(l, all), l # <<>>
    PROVE  /\ EndOf(Tail(l), all)
           /\ Gone(all, l) \in Nat
           /\ Gone(all, Tail(l)) = Gone(all, l) + 1
           /\ Gone(all, l) + 1 \in 1 .. Len(all)
           /\ Head(l) = all[Gone(all, l) + 1]
<1>1. l \in Seq(Keys) /\ Len(l) \in Nat /\ Len(all) \in Nat /\ Len(l) <= Len(all)
  BY LenProperties DEF EndOf
<1>2. /\ Head(l) = l[1] /\ Tail(l) \in Seq(Keys)
      /\ Len(Tail(l)) = Len(l) - 1
      /\ \A n \in 1 .. Len(Tail(l)) : Tail(l)[n] = l[n + 1]
  BY <1>1, HeadTailProperties
<1>3. Len(l) >= 1
  BY <1>1, EmptySeq
<1>4. /\ Gone(all, l) \in Nat
      /\ Gone(all, Tail(l)) = Gone(all, l) + 1
      /\ Gone(all, l) + 1 \in 1 .. Len(all)
  BY <1>1, <1>2, <1>3 DEF Gone
<1>5. Head(l) = all[Gone(all, l) + 1]
  BY <1>1, <1>2, <1>3 DEF EndOf
<1>6. ASSUME NEW n \in 1 .. Len(Tail(l))
      PROVE  Tail(l)[n] = all[Gone(all, Tail(l)) + n]
  <2>1. n + 1 \in 1 .. Len(l) /\ Tail(l)[n] = l[n + 1]
    BY <1>1, <1>2
  <2>2. l[n + 1] = all[Gone(all, l) + (n + 1)]
    BY <2>1 DEF EndOf
  <2>3. Gone(all, l) + (n + 1) = Gone(all, Tail(l)) + n
    BY <1>4
  <2> QED BY <2>1, <2>2, <2>3
<1> QED BY <1>1, <1>2, <1>4, <1>5, <1>6 DEF EndOf

\* The first members of all may become more.
LEMMA InOrderMore ==
    ASSUME NEW all, NEW y \in Seq(Keys), NEW g \in Nat, NEW h \in Nat, g <= h,
           InOrder(y, all, g)
    PROVE  InOrder(y, all, h)
<1>1. PICK place \in [1 .. Len(y) -> 1 .. g] :
          /\ \A m, n \in 1 .. Len(y) : m < n => place[m] < place[n]
          /\ \A n \in 1 .. Len(y) : y[n] = all[place[n]]
  BY DEF InOrder
<1>2. place \in [1 .. Len(y) -> 1 .. h]
  <2>1. \A n \in 1 .. g : n \in 1 .. h
    OBVIOUS
  <2> QED BY <2>1
<1> QED BY <1>1, <1>2 DEF InOrder

\* The next member of all may be appended.
LEMMA InOrderAppend ==
    ASSUME NEW all, NEW y \in Seq(Keys), NEW x \in Keys, NEW g \in Nat,
           InOrder(y, all, g), x = all[g + 1]
    PROVE  InOrder(Append(y, x), all, g + 1)
<1>1. PICK place \in [1 .. Len(y) -> 1 .. g] :
          /\ \A m, n \in 1 .. Len(y) : m < n => place[m] < place[n]
          /\ \A n \in 1 .. Len(y) : y[n] = all[place[n]]
  BY DEF InOrder
<1>2. /\ Len(y) \in Nat
      /\ Append(y, x) \in Seq(Keys)
      /\ Len(Append(y, x)) = Len(y) + 1
      /\ \A n \in 1 .. Len(y) : Append(y, x)[n] = y[n]
      /\ Append(y, x)[Len(y) + 1] = x
  BY AppendProperties, LenProperties
<1> DEFINE more == [n \in 1 .. Len(y) + 1 |-> IF n <= Len(y) THEN place[n] ELSE g + 1]
<1>3. \A n \in 1 .. Len(y) : place[n] \in 1 .. g /\ more[n] = place[n]
  BY <1>2
<1>4. more[Len(y) + 1] = g + 1
  BY <1>2
<1>5. \A n \in 1 .. Len(y) + 1 : n \in 1 .. Len(y) \/ n = Len(y) + 1
  BY <1>2
<1> HIDE DEF more
<1>6. more \in [1 .. Len(y) + 1 -> 1 .. g + 1]
  <2>1. \A n \in 1 .. Len(y) + 1 : more[n] \in 1 .. g + 1
    BY <1>3, <1>4, <1>5
  <2> QED BY <2>1 DEF more
<1>7. ASSUME NEW m \in 1 .. Len(y) + 1, NEW n \in 1 .. Len(y) + 1, m < n
      PROVE  more[m] < more[n]
  <2>1. m \in 1 .. Len(y)
    BY <1>2, <1>7
  <2>2. CASE n \in 1 .. Len(y)
    BY <1>1, <1>3, <1>7, <2>1, <2>2
  <2>3. CASE n = Len(y) + 1
    BY <1>3, <1>4, <2>1, <2>3
  <2> QED BY <1>5, <2>2, <2>3
<1>8. ASSUME NEW n \in 1 .. Len(y) + 1 PROVE Append(y, x)[n] = all[more[n]]
  BY <1>1, <1>2, <1>3, <1>4, <1>5
<1> QED BY <1>2, <1>6, <1>7, <1>8 DEF InOrder

\* InOrder is what SubsequenceOf says of the first members of all.
LEMMA InOrderIsSubsequence ==
    ASSUME NEW all \in Seq(Keys), NEW y \in Seq(Keys), NEW g \in Nat,
           g <= Len(all), InOrder(y, all, g)
    PROVE  SubsequenceOf(y, SubSeq(all, 1, g))
<1>1. PICK place \in [1 .. Len(y) -> 1 .. g] :
          /\ \A m, n \in 1 .. Len(y) : m < n => place[m] < place[n]
          /\ \A n \in 1 .. Len(y) : y[n] = all[place[n]]
  BY DEF InOrder
<1>2. /\ Len(SubSeq(all, 1, g)) = g
      /\ \A n \in 1 .. g : SubSeq(all, 1, g)[n] = all[n]
  BY LenProperties
<1>3. \A n \in 1 .. Len(y) : place[n] \in 1 .. g
  OBVIOUS
<1>4. \A n \in 1 .. Len(y) : y[n] = SubSeq(all, 1, g)[place[n]]
  BY <1>1, <1>2, <1>3
<1> QED BY <1>1, <1>2, <1>4 DEF SubsequenceOf

-----------------------------------------------------------------------------
\* Before the first step there is no listing and no iterator.
LEMMA InitInv == Init => IndInv
<1> SUFFICES ASSUME Init PROVE IndInv
  OBVIOUS
<1> USE NullAssumption DEF Init
<1>1. Typed
  BY DEF Typed, TypeOK
<1>2. ASSUME NEW c \in Contexts
      PROVE  IsFiniteSet(IteratorsOf(c)) /\ Cardinality(IteratorsOf(c)) = 0
  <2>1. IteratorsOf(c) = {}
    BY DEF IteratorsOf
  <2> QED BY <2>1, FS_EmptySet
<1>3. RefsInv
  BY <1>2 DEF RefsInv, ContextRefsExact
<1>4. ListInv
  BY DEF ListInv, OwnerInv, FreshInv, DeliveredInv
<1> QED BY <1>1, <1>3, <1>4 DEF IndInv

-----------------------------------------------------------------------------
\* Every step keeps the types.  That a count does not fall below zero is the
\* business of the references: whoever gives one up has had it.
LEMMA TypeStep == IndInv /\ [Next]_vars => Typed'
<1> SUFFICES ASSUME IndInv, [Next]_vars PROVE Typed'
  OBVIOUS
<1>0. ASSUME NEW i \in Iters, KeyIterDealloc(i)
      PROVE  \/ NewListing(ctx[i], NULL)
             \/ UNCHANGED <<owner, taken, broken>>
  BY <1>0 DEF KeyIterDealloc, listings
<1> USE MatchesAssumption, NullAssumption DEF IndInv, Typed, TypeOK, iterators, listings, NewListing
<1>1. ASSUME NEW c \in Contexts, NEW i \in Iters, NEW p \in Patterns,
             Keylist(i, c, p)
      PROVE  Typed'
  <2>1. /\ Matches[p] \in Seq(Keys)
        /\ listing' = [listing EXCEPT ![c] = Matches[p]]
    BY <1>1 DEF Keylist, GpgmeListStart
  <2>2. /\ \A d \in Contexts : listing'[d] # NULL => listing'[d] \in Seq(Keys)
        /\ listing' = [d \in Contexts |-> listing'[d]]
    BY <2>1
  <2>3. /\ refs' \in [Contexts -> Nat] /\ held' \subseteq Contexts
        /\ ctx' \in [Iters -> Contexts \cup {NULL}]
        /\ asked' \in [Iters -> Patterns \cup {NULL}]
        /\ owner' \in [Contexts -> Iters \cup {NULL}]
    BY <1>1 DEF Keylist, NewIterator
  <2> QED BY <1>1, <2>2, <2>3 DEF Keylist, NewIterator
<1>2. ASSUME NEW c \in Contexts, NEW p \in Patterns, KeylistFails(c, p)
      PROVE  Typed'
  <2>1. /\ \A d \in Contexts : listing'[d] # NULL => listing'[d] \in Seq(Keys)
        /\ listing' = [d \in Contexts |-> listing'[d]]
    <3>1. PICK l \in {NULL, <<>>, Matches[p]} :
              listing' = [listing EXCEPT ![c] = l]
      BY <1>2 DEF KeylistFails, GpgmeReset
    <3>2. <<>> \in Seq(Keys)
      BY EmptySeq
    <3> QED BY <3>1, <3>2
  <2> QED BY <1>2, <2>1 DEF KeylistFails
<1>3. ASSUME NEW c \in Contexts, OtherOperation(c) PROVE Typed'
  BY <1>3 DEF OtherOperation, GpgmeReset
<1>4. ASSUME NEW c \in Contexts, DropContext(c) PROVE Typed'
  <2>1. refs[c] - 1 \in Nat
    BY <1>4, FS_CardinalityType
    DEF DropContext, RefsInv, ContextRefsExact
  <2> QED BY <1>4, <2>1 DEF DropContext
<1>5. ASSUME NEW i \in Iters, NextKey(i) PROVE Typed'
  <2>1. /\ ctx[i] \in Contexts
        /\ listing[ctx[i]] \in Seq(Keys) /\ listing[ctx[i]] # <<>>
    BY <1>5 DEF NextKey, Live, GpgmePop
  <2>2. /\ Append(yielded[i], Head(listing[ctx[i]])) \in Seq(Keys)
        /\ Tail(listing[ctx[i]]) \in Seq(Keys)
    BY <2>1, MoveHead
  <2>3. taken' \in [Contexts -> Nat]
    BY <1>5, <2>1 DEF NextKey, Taken
  <2>4. /\ listing' = [listing EXCEPT ![ctx[i]] = Tail(listing[ctx[i]])]
        /\ yielded' = [yielded EXCEPT ![i] =
                          Append(yielded[i], Head(listing[ctx[i]]))]
        /\ outcome' = [outcome EXCEPT ![i] = "key"]
        /\ UNCHANGED <<refs, held, ctx, asked, owner, broken>>
    BY <1>5 DEF NextKey, GpgmePop, Ends
  <2> QED BY <2>1, <2>2, <2>3, <2>4
<1>6. ASSUME NEW i \in Iters, NextKeyLost(i) PROVE Typed'
  <2>1. /\ ctx[i] \in Contexts
        /\ listing[ctx[i]] \in Seq(Keys) /\ listing[ctx[i]] # <<>>
    BY <1>6 DEF NextKeyLost, Live, GpgmePop
  <2>2. Tail(listing[ctx[i]]) \in Seq(Keys)
    BY <2>1, HeadTailProperties
  <2>3. taken' \in [Contexts -> Nat]
    BY <1>6, <2>1 DEF NextKeyLost, Taken
  <2>4. /\ listing' = [listing EXCEPT ![ctx[i]] = Tail(listing[ctx[i]])]
        /\ outcome' = [outcome EXCEPT ![i] = "error"]
        /\ UNCHANGED <<refs, held, ctx, asked, yielded, owner, broken>>
    BY <1>6 DEF NextKeyLost, GpgmePop, Ends
  <2> QED BY <2>1, <2>2, <2>3, <2>4
<1>7. ASSUME NEW i \in Iters, NextStop(i) PROVE Typed'
  BY <1>7 DEF NextStop, Ends
<1>8. ASSUME NEW i \in Iters, NextError(i) PROVE Typed'
  <2>1. /\ \A d \in Contexts : listing'[d] # NULL => listing'[d] \in Seq(Keys)
        /\ listing' = [d \in Contexts |-> listing'[d]]
    <3>1. \/ listing' = listing
          \/ listing' = [listing EXCEPT ![ctx[i]] = <<>>]
      BY <1>8 DEF NextError, GpgmeReset
    <3>2. <<>> \in Seq(Keys)
      BY EmptySeq
    <3> QED BY <3>1, <3>2
  <2> QED BY <1>8, <2>1 DEF NextError, Live, Ends, Broken
<1>9. ASSUME NEW i \in Iters, KeyIterDealloc(i) PROVE Typed'
  <2>1. /\ ctx[i] \in Contexts
        /\ i \in IteratorsOf(ctx[i])
    BY <1>9 DEF KeyIterDealloc, IteratorsOf
  <2>2. /\ IsFiniteSet(IteratorsOf(ctx[i]))
        /\ Cardinality(IteratorsOf(ctx[i])) \in Nat \ {0}
    BY <2>1, FS_CardinalityType, FS_EmptySet DEF RefsInv
  <2>3. refs[ctx[i]] - 1 \in Nat
    BY <2>1, <2>2 DEF RefsInv, ContextRefsExact
  <2>4. /\ owner' \in [Contexts -> Iters \cup {NULL}]
        /\ taken' \in [Contexts -> Nat] /\ broken' \subseteq Contexts
    <3>1. CASE NewListing(ctx[i], NULL)
      BY <2>1, <3>1
    <3>2. CASE UNCHANGED <<owner, taken, broken>>
      BY <3>2
    <3>3. NewListing(ctx[i], NULL) \/ UNCHANGED <<owner, taken, broken>>
      BY <1>9, <1>0, Zenon
    <3> QED BY <3>1, <3>2, <3>3
  <2>5. /\ refs' = [refs EXCEPT ![ctx[i]] = @ - 1]
        /\ ctx' = [ctx EXCEPT ![i] = NULL]
        /\ asked' = [asked EXCEPT ![i] = NULL]
        /\ yielded' = [yielded EXCEPT ![i] = <<>>]
        /\ outcome' = [outcome EXCEPT ![i] = "none"]
        /\ UNCHANGED <<held, listing>>
    BY <1>9 DEF KeyIterDealloc
  <2> QED BY <2>1, <2>3, <2>4, <2>5, EmptySeq
<1>10. CASE UNCHANGED vars
  BY <1>10 DEF vars
<1> QED BY <1>1, <1>2, <1>3, <1>4, <1>5, <1>6, <1>7, <1>8, <1>9, <1>10
        DEF Next

\* Every step keeps the counts: a reference is counted where an iterator is
\* made or deallocated, or the program gives up the context, and nowhere else.
LEMMA RefsStep == IndInv /\ [Next]_vars => RefsInv'
<1> SUFFICES ASSUME IndInv, [Next]_vars PROVE RefsInv'
  OBVIOUS
<1> USE NullAssumption DEF IndInv, Typed, TypeOK, RefsInv, ContextRefsExact
<1>1. ASSUME NEW c \in Contexts, NEW i \in Iters, NEW p \in Patterns,
             Keylist(i, c, p)
      PROVE  RefsInv'
  <2>1. /\ IteratorsOf(c)' = IteratorsOf(c) \cup {i}
        /\ i \notin IteratorsOf(c)
        /\ \A d \in Contexts \ {c} : IteratorsOf(d)' = IteratorsOf(d)
    BY <1>1 DEF Keylist, NewIterator, IteratorsOf
  <2>2. /\ IsFiniteSet(IteratorsOf(c))'
        /\ Cardinality(IteratorsOf(c))' = Cardinality(IteratorsOf(c)) + 1
    <3>1. /\ IsFiniteSet(IteratorsOf(c) \cup {i})
          /\ Cardinality(IteratorsOf(c) \cup {i}) = Cardinality(IteratorsOf(c)) + 1
      BY <2>1, FS_AddElement
    <3> QED BY <2>1, <3>1
  <2>3. Cardinality(IteratorsOf(c)) \in Nat
    BY FS_CardinalityType
  <2>4. ASSUME NEW d \in Contexts
        PROVE  /\ IsFiniteSet(IteratorsOf(d)')
               /\ refs'[d] = Cardinality(IteratorsOf(d)')
                             + (IF d \in held' THEN 1 ELSE 0)
    <3>1. CASE d = c
      BY <1>1, <2>2, <2>3, <3>1 DEF Keylist
    <3>2. CASE d # c
      BY <1>1, <2>1, <3>2 DEF Keylist
    <3> QED BY <3>1, <3>2
  <2> QED BY <2>4
<1>2. ASSUME NEW i \in Iters, KeyIterDealloc(i) PROVE RefsInv'
  <2>1. PICK c \in Contexts : c = ctx[i]
    BY <1>2 DEF KeyIterDealloc
  <2>2. /\ IteratorsOf(c)' = IteratorsOf(c) \ {i}
        /\ i \in IteratorsOf(c)
        /\ \A d \in Contexts \ {c} : IteratorsOf(d)' = IteratorsOf(d)
    BY <1>2, <2>1 DEF KeyIterDealloc, IteratorsOf
  <2>3. /\ IsFiniteSet(IteratorsOf(c))'
        /\ Cardinality(IteratorsOf(c))' = Cardinality(IteratorsOf(c)) - 1
    <3>1. /\ IsFiniteSet(IteratorsOf(c) \ {i})
          /\ Cardinality(IteratorsOf(c) \ {i}) = Cardinality(IteratorsOf(c)) - 1
      BY <2>2, FS_RemoveElement
    <3> QED BY <2>2, <3>1
  <2>4. Cardinality(IteratorsOf(c)) \in Nat
    BY FS_CardinalityType
  <2>5. ASSUME NEW d \in Contexts
        PROVE  /\ IsFiniteSet(IteratorsOf(d)')
               /\ refs'[d] = Cardinality(IteratorsOf(d)')
                             + (IF d \in held' THEN 1 ELSE 0)
    <3>1. CASE d = c
      BY <1>2, <2>1, <2>3, <2>4, <3>1 DEF KeyIterDealloc
    <3>2. CASE d # c
      BY <1>2, <2>1, <2>2, <3>2 DEF KeyIterDealloc
    <3> QED BY <3>1, <3>2
  <2> QED BY <2>5
<1>3. ASSUME NEW c \in Contexts, DropContext(c) PROVE RefsInv'
  <2>1. \A d \in Contexts : IteratorsOf(d)' = IteratorsOf(d)
    BY <1>3 DEF DropContext, IteratorsOf
  <2>2. Cardinality(IteratorsOf(c)) \in Nat
    BY FS_CardinalityType
  <2> QED BY <1>3, <2>1, <2>2 DEF DropContext
<1>4. CASE UNCHANGED <<refs, held, ctx>>
  BY <1>4 DEF IteratorsOf
<1> QED BY <1>1, <1>2, <1>3, <1>4
        DEF Next, KeylistFails, OtherOperation, NextKey, NextKeyLost,
            NextStop, NextError, vars

-----------------------------------------------------------------------------
\* What an operation begins, or no key leaves, keeps the owners of the other
\* listings as they are.
LEMMA OtherListing ==
    ASSUME IndInv, NEW d \in Contexts, owner[d] # NULL, owner'[d] = owner[d],
           listing'[d] = listing[d], taken'[d] = taken[d],
           (d \in broken') = (d \in broken),
           asked'[owner[d]] = asked[owner[d]],
           yielded'[owner[d]] = yielded[owner[d]],
           outcome'[owner[d]] = outcome[owner[d]]
    PROVE  Delivered(owner[d], d)'
<1>1. Delivered(owner[d], d)
  BY DEF IndInv, ListInv, DeliveredInv
<1> QED BY <1>1 DEF Delivered

\* A key leaves the listing of c, and its owner does not return it.
LEMMA TakenStep ==
    ASSUME IndInv, NEW c \in Contexts, NEW i \in Iters, owner[c] = i,
           listing[c] # <<>>, listing'[c] = Tail(listing[c]),
           taken'[c] = taken[c] + 1, (c \in broken') = (c \in broken),
           asked'[i] = asked[i],
           yielded'[i] = yielded[i],
           outcome'[i] = "stop" => outcome[i] = "stop"
    PROVE  Delivered(i, c)'
<1> DEFINE all == Matches[asked[i]]
<1>1. Delivered(i, c)
  BY NullAssumption DEF IndInv, ListInv, DeliveredInv
<1>2. /\ i \in Iters /\ yielded[i] \in Seq(Keys) /\ taken[c] \in Nat
      /\ asked[i] \in Patterns /\ all \in Seq(Keys)
  BY <1>1, MatchesAssumption DEF Delivered, IndInv, Typed, TypeOK
<1>3. /\ EndOf(Tail(listing[c]), all)
      /\ Gone(all, listing[c]) \in Nat
      /\ Gone(all, Tail(listing[c])) = Gone(all, listing[c]) + 1
  BY <1>1, <1>2, EndTail DEF Delivered
<1>4. InOrder(yielded[i], all, Gone(all, listing[c]) + 1)
  BY <1>1, <1>2, <1>3, InOrderMore DEF Delivered
<1>5. Len(yielded[i]) \in Nat
  BY <1>2, LenProperties
<1>6. outcome[i] # "stop"
  BY <1>1 DEF Delivered
<1>7. asked'[i] = asked[i] /\ yielded'[i] = yielded[i]
  OBVIOUS
<1> HIDE DEF all
<1>8. c \notin broken => Gone(all, Tail(listing[c])) = Len(yielded[i]) + taken'[c]
  BY <1>1, <1>2, <1>3, <1>5 DEF Delivered, all
<1>9. taken'[c] # 0 /\ outcome'[i] # "stop"
  BY <1>2, <1>6
<1> QED BY <1>2, <1>3, <1>4, <1>7, <1>8, <1>9 DEF Delivered, all

\* The owner i of the listing of c returns the next key.
LEMMA OwnKeyStep ==
    ASSUME IndInv, NEW c \in Contexts, NEW i \in Iters, owner[c] = i,
           listing[c] # <<>>, listing'[c] = Tail(listing[c]),
           taken'[c] = taken[c], (c \in broken') = (c \in broken),
           asked'[i] = asked[i],
           yielded'[i] = Append(yielded[i], Head(listing[c])),
           outcome'[i] # "stop"
    PROVE  Delivered(i, c)'
<1> DEFINE all == Matches[asked[i]]
<1>1. Delivered(i, c)
  BY NullAssumption DEF IndInv, ListInv, DeliveredInv
<1>2. /\ i \in Iters /\ yielded[i] \in Seq(Keys) /\ taken[c] \in Nat
      /\ asked[i] \in Patterns /\ all \in Seq(Keys)
  BY <1>1, MatchesAssumption DEF Delivered, IndInv, Typed, TypeOK
<1>3. /\ EndOf(Tail(listing[c]), all)
      /\ Gone(all, listing[c]) \in Nat
      /\ Gone(all, Tail(listing[c])) = Gone(all, listing[c]) + 1
      /\ Head(listing[c]) = all[Gone(all, listing[c]) + 1]
  BY <1>1, <1>2, EndTail DEF Delivered
<1>4. listing[c] \in Seq(Keys) /\ Head(listing[c]) \in Keys
  BY <1>1, HeadTailProperties DEF Delivered, EndOf
<1>5. InOrder(Append(yielded[i], Head(listing[c])), all,
              Gone(all, listing[c]) + 1)
  BY <1>1, <1>2, <1>3, <1>4, InOrderAppend DEF Delivered
<1>6. /\ Len(yielded[i]) \in Nat
      /\ Len(Append(yielded[i], Head(listing[c]))) = Len(yielded[i]) + 1
  BY <1>2, <1>4, LenProperties, AppendProperties
<1>7. Append(yielded[i], Head(listing[c])) \o Tail(listing[c])
          = yielded[i] \o listing[c]
  <2>1. listing[c] \in Seq(Keys) /\ listing[c] # <<>>
    BY <1>4
  <2>2. \A y, l \in Seq(Keys) :
            l # <<>> => Append(y, Head(l)) \o Tail(l) = y \o l
    BY MoveHead
  <2> QED BY <1>2, <2>1, <2>2
<1>8. c \notin broken =>
          Gone(all, Tail(listing[c]))
              = Len(Append(yielded[i], Head(listing[c]))) + taken[c]
  BY <1>1, <1>2, <1>3, <1>6 DEF Delivered
<1>9. c \notin broken /\ taken[c] = 0 =>
          Append(yielded[i], Head(listing[c])) \o Tail(listing[c]) = all
  BY <1>1, <1>7 DEF Delivered
<1> QED BY <1>2, <1>3, <1>5, <1>8, <1>9 DEF Delivered

\* A step of the iterator i keeps ListInv when it does so for the listing of
\* i's own context.
LEMMA IterStep ==
    ASSUME IndInv, NEW i \in Iters, NEW c \in Contexts, c = ctx[i],
           ctx' = ctx, asked' = asked, owner' = owner,
           \A j \in Iters \ {i} : /\ yielded'[j] = yielded[j]
                                  /\ outcome'[j] = outcome[j],
           \A d \in Contexts \ {c} : /\ listing'[d] = listing[d]
                                     /\ taken'[d] = taken[d]
                                     /\ (d \in broken') = (d \in broken),
           owner[c] # NULL => Delivered(owner[c], c)'
    PROVE  ListInv'
<1> USE NullAssumption
<1>1. OwnerInv' /\ FreshInv'
  BY DEF IndInv, Typed, TypeOK, ListInv, OwnerInv, FreshInv
<1>2. ASSUME NEW d \in Contexts, owner'[d] # NULL PROVE Delivered(owner[d], d)'
  <2>1. CASE d = c
    BY <1>2, <2>1
  <2>2. CASE d # c
    <3>1. owner[d] # NULL /\ owner[d] \in Iters \ {i}
      BY <1>2, <2>2 DEF IndInv, Typed, TypeOK, ListInv, OwnerInv
    <3> QED BY <2>2, <3>1, OtherListing
  <2> QED BY <2>1, <2>2
<1> QED BY <1>1, <1>2 DEF ListInv, DeliveredInv

\* Every step keeps what the owners of the listings have returned in order.
LEMMA ListStep == IndInv /\ [Next]_vars => ListInv'
<1> SUFFICES ASSUME IndInv, [Next]_vars PROVE ListInv'
  OBVIOUS
<1> USE MatchesAssumption, NullAssumption
<1>1. ASSUME NEW c \in Contexts, NEW i \in Iters, NEW p \in Patterns,
             Keylist(i, c, p)
      PROVE  ListInv'
  <2>1. /\ ctx' = [ctx EXCEPT ![i] = c] /\ owner' = [owner EXCEPT ![c] = i]
        /\ asked' = [asked EXCEPT ![i] = p]
        /\ listing' = [listing EXCEPT ![c] = Matches[p]]
        /\ taken' = [taken EXCEPT ![c] = 0] /\ broken' = broken \ {c}
        /\ UNCHANGED <<yielded, outcome>>
    BY <1>1 DEF Keylist, NewIterator, NewListing, GpgmeListStart
  <2>2. ctx[i] = NULL /\ yielded[i] = <<>> /\ outcome[i] = "none"
    BY <1>1 DEF Keylist, IndInv, ListInv, FreshInv
  <2>3. \A d \in Contexts : owner[d] # i
    BY <2>2 DEF IndInv, ListInv, OwnerInv, Typed, TypeOK
  <2>4. /\ asked'[i] = p /\ listing'[c] = Matches[p] /\ taken'[c] = 0
        /\ yielded'[i] = <<>> /\ outcome'[i] = "none"
        /\ Matches[p] \in Seq(Keys)
    BY <2>1, <2>2 DEF IndInv, Typed, TypeOK
  <2>5. Delivered(i, c)'
    <3> DEFINE all == Matches[p]
    <3>1. Len(all) \in Nat /\ Len(<<>>) = 0 /\ <<>> \o all = all
      BY <2>4, LenProperties, ConcatEmptySeq
    <3>2. EndOf(all, all) /\ Gone(all, all) = 0
      BY <2>4, <3>1 DEF EndOf, Gone
    <3>3. InOrder(<<>>, all, 0)
      <4>1. <<>> \in [1 .. Len(<<>>) -> 1 .. 0]
        BY <3>1
      <4>2. \A n \in 1 .. Len(<<>>) : FALSE
        BY <3>1
      <4> QED BY <4>1, <4>2 DEF InOrder
    <3> QED BY <2>4, <3>1, <3>2, <3>3 DEF Delivered
  <2>6. ASSUME NEW d \in Contexts, owner'[d] # NULL
        PROVE  Delivered(owner[d], d)'
    <3>1. CASE d = c
      <4>1. owner'[c] = i
        BY <2>1 DEF IndInv, Typed, TypeOK
      <4> QED BY <2>5, <3>1, <4>1
    <3>2. CASE d # c
      <4>1. owner'[d] = owner[d] /\ owner[d] \in Iters \ {i}
        BY <2>1, <2>3, <2>6, <3>2 DEF IndInv, Typed, TypeOK
      <4>2. /\ listing'[d] = listing[d] /\ taken'[d] = taken[d]
            /\ (d \in broken') = (d \in broken)
            /\ asked'[owner[d]] = asked[owner[d]]
            /\ yielded'[owner[d]] = yielded[owner[d]]
            /\ outcome'[owner[d]] = outcome[owner[d]]
        BY <2>1, <3>2, <4>1 DEF IndInv, Typed, TypeOK
      <4> QED BY <2>6, <4>1, <4>2, OtherListing
    <3> QED BY <3>1, <3>2
  <2>7. OwnerInv' /\ FreshInv'
    BY <2>1, <2>2, <2>3
    DEF IndInv, Typed, TypeOK, ListInv, OwnerInv, FreshInv
  <2> QED BY <2>6, <2>7 DEF ListInv, DeliveredInv
<1>2. ASSUME NEW c \in Contexts,
             (\E p \in Patterns : KeylistFails(c, p)) \/ OtherOperation(c)
      PROVE  ListInv'
  <2>1. /\ owner' = [owner EXCEPT ![c] = NULL]
        /\ \A d \in Contexts \ {c} : /\ listing'[d] = listing[d]
                                     /\ taken'[d] = taken[d]
                                     /\ (d \in broken') = (d \in broken)
        /\ UNCHANGED <<ctx, asked, yielded, outcome>>
    BY <1>2 DEF KeylistFails, OtherOperation, GpgmeReset, NewListing, iterators,
                IndInv, Typed, TypeOK
  <2>2. ASSUME NEW d \in Contexts, owner'[d] # NULL
        PROVE  owner'[d] = owner[d] /\ Delivered(owner[d], d)'
    <3>1. d # c /\ owner'[d] = owner[d]
      BY <2>1, <2>2 DEF IndInv, Typed, TypeOK
    <3> QED BY <2>1, <2>2, <3>1, OtherListing
  <2>3. OwnerInv' /\ FreshInv'
    BY <2>1, <2>2 DEF IndInv, Typed, TypeOK, ListInv, OwnerInv, FreshInv
  <2> QED BY <2>2, <2>3 DEF ListInv, DeliveredInv
<1>3. ASSUME UNCHANGED <<listing, ctx, iterators, listings>> PROVE ListInv'
  <2>1. ASSUME NEW d \in Contexts, owner'[d] # NULL
        PROVE  Delivered(owner[d], d)'
    BY <1>3, <2>1, OtherListing DEF iterators, listings
  <2> QED BY <1>3, <2>1
          DEF IndInv, ListInv, DeliveredInv, OwnerInv, FreshInv, iterators, listings
<1>4. ASSUME NEW i \in Iters, NextKey(i) PROVE ListInv'
  <2>1. PICK c \in Contexts : c = ctx[i]
    BY <1>4 DEF NextKey, Live, IndInv, Typed, TypeOK
  <2>2. /\ listing[c] # <<>>
        /\ listing' = [listing EXCEPT ![c] = Tail(@)]
        /\ yielded' = [yielded EXCEPT ![i] = Append(@, Head(listing[c]))]
        /\ outcome' = [outcome EXCEPT ![i] = "key"]
        /\ taken' = IF owner[c] = i THEN taken
                    ELSE [taken EXCEPT ![c] = IF owner[c] = NULL THEN 0 ELSE @ + 1]
        /\ UNCHANGED <<ctx, asked, owner, broken>>
    BY <1>4, <2>1 DEF NextKey, GpgmePop, Ends, Taken
  <2>3. /\ listing'[c] = Tail(listing[c])
        /\ yielded'[i] = Append(yielded[i], Head(listing[c]))
        /\ outcome'[i] = "key"
        /\ \A j \in Iters \ {i} : /\ yielded'[j] = yielded[j]
                                  /\ outcome'[j] = outcome[j]
        /\ \A d \in Contexts \ {c} : /\ listing'[d] = listing[d]
                                     /\ taken'[d] = taken[d]
    BY <2>2 DEF IndInv, Typed, TypeOK
  <2>4. ASSUME owner[c] # NULL PROVE Delivered(owner[c], c)'
    <3>1. owner[c] \in Iters
      BY <2>4 DEF IndInv, Typed, TypeOK
    <3>2. CASE owner[c] = i
      <4>1. Delivered(i, c)'
        BY <2>2, <2>3, <3>2, OwnKeyStep
      <4> QED BY <2>2, <3>2, <4>1
    <3>3. CASE owner[c] # i
      <4>1. taken'[c] = taken[c] + 1
        BY <2>2, <2>4, <3>3 DEF IndInv, Typed, TypeOK
      <4>2. PICK o \in Iters \ {i} : owner[c] = o
        BY <3>1, <3>3
      <4>3. Delivered(o, c)'
        BY <2>2, <2>3, <4>1, <4>2, TakenStep
      <4> QED BY <2>2, <4>2, <4>3
    <3> QED BY <3>2, <3>3
  <2> QED BY <2>1, <2>2, <2>3, <2>4, IterStep
<1>5. ASSUME NEW i \in Iters, NextKeyLost(i) PROVE ListInv'
  <2>1. PICK c \in Contexts : c = ctx[i]
    BY <1>5 DEF NextKeyLost, Live, IndInv, Typed, TypeOK
  <2>2. /\ listing[c] # <<>>
        /\ listing' = [listing EXCEPT ![c] = Tail(@)]
        /\ outcome' = [outcome EXCEPT ![i] = "error"]
        /\ taken' = [taken EXCEPT ![c] = IF owner[c] = NULL THEN 0 ELSE @ + 1]
        /\ UNCHANGED <<ctx, asked, yielded, owner, broken>>
    BY <1>5, <2>1 DEF NextKeyLost, GpgmePop, Ends, Taken
  <2>3. /\ listing'[c] = Tail(listing[c])
        /\ outcome'[i] = "error"
        /\ \A j \in Iters \ {i} : /\ yielded'[j] = yielded[j]
                                  /\ outcome'[j] = outcome[j]
        /\ \A d \in Contexts \ {c} : /\ listing'[d] = listing[d]
                                     /\ taken'[d] = taken[d]
    BY <2>2 DEF IndInv, Typed, TypeOK
  <2>4. ASSUME owner[c] # NULL PROVE Delivered(owner[c], c)'
    <3>1. owner[c] \in Iters /\ taken'[c] = taken[c] + 1
      BY <2>2, <2>4 DEF IndInv, Typed, TypeOK
    <3>2. outcome'[owner[c]] = "stop" => outcome[owner[c]] = "stop"
      BY <2>3, <3>1
    <3>3. PICK o \in Iters : owner[c] = o
      BY <3>1
    <3>4. Delivered(o, c)'
      BY <2>2, <2>3, <3>1, <3>2, <3>3, TakenStep
    <3> QED BY <2>2, <3>3, <3>4
  <2> QED BY <2>1, <2>2, <2>3, <2>4, IterStep
<1>6. ASSUME NEW i \in Iters, NextStop(i) PROVE ListInv'
  <2>1. PICK c \in Contexts : c = ctx[i]
    BY <1>6 DEF NextStop, Live, IndInv, Typed, TypeOK
  <2>2. /\ listing[c] = <<>>
        /\ outcome' = [outcome EXCEPT ![i] = "stop"]
        /\ UNCHANGED <<listing, ctx, asked, yielded, owner, taken, broken>>
    BY <1>6, <2>1 DEF NextStop, Ends, listings
  <2>3. ASSUME owner[c] # NULL PROVE Delivered(owner[c], c)'
    <3>1. Delivered(owner[c], c)
      BY <2>3 DEF IndInv, ListInv, DeliveredInv
    <3> QED BY <2>2, <3>1 DEF Delivered
  <2>4. \A j \in Iters \ {i} : /\ yielded'[j] = yielded[j]
                               /\ outcome'[j] = outcome[j]
    BY <2>2 DEF IndInv, Typed, TypeOK
  <2> QED BY <2>1, <2>2, <2>3, <2>4, IterStep
<1>7. ASSUME NEW i \in Iters, NextError(i) PROVE ListInv'
  <2>1. PICK c \in Contexts : c = ctx[i]
    BY <1>7 DEF NextError, Live, IndInv, Typed, TypeOK
  <2>2. /\ \/ listing[c] = NULL /\ listing' = listing
           \/ listing[c] # NULL /\ listing' = [listing EXCEPT ![c] = <<>>]
        /\ outcome' = [outcome EXCEPT ![i] = "error"]
        /\ broken' = IF owner[c] = NULL THEN broken ELSE broken \cup {c}
        /\ UNCHANGED <<ctx, asked, yielded, owner, taken>>
    BY <1>7, <2>1 DEF NextError, GpgmeReset, Ends, Broken
  <2>3. /\ \A j \in Iters \ {i} : /\ yielded'[j] = yielded[j]
                                  /\ outcome'[j] = outcome[j]
        /\ \A d \in Contexts \ {c} : /\ listing'[d] = listing[d]
                                     /\ taken'[d] = taken[d]
                                     /\ (d \in broken') = (d \in broken)
    BY <2>2 DEF IndInv, Typed, TypeOK
  <2>4. ASSUME owner[c] # NULL PROVE Delivered(owner[c], c)'
    <3> DEFINE o == owner[c]
               all == Matches[asked[o]]
    <3>1. Delivered(o, c)
      BY <2>4 DEF IndInv, ListInv, DeliveredInv
    <3>2. c \in broken' /\ (listing'[c] = <<>> \/ listing'[c] = listing[c])
      BY <2>2, <2>4 DEF IndInv, Typed, TypeOK
    <3>3. asked[o] \in Patterns /\ all \in Seq(Keys) /\ yielded[o] \in Seq(Keys)
      BY <2>4, <3>1 DEF Delivered, IndInv, Typed, TypeOK
    <3>4. CASE listing'[c] = <<>>
      <4>1. /\ Len(all) \in Nat /\ Len(listing[c]) \in Nat /\ Len(<<>>) = 0
            /\ Len(listing[c]) <= Len(all)
        BY <3>1, <3>3, LenProperties DEF Delivered, EndOf
      <4>2. EndOf(<<>>, all) /\ Gone(all, <<>>) = Len(all)
        BY <4>1 DEF EndOf, Gone
      <4>3. Gone(all, listing[c]) \in Nat /\ Gone(all, listing[c]) <= Len(all)
        <5> HIDE DEF all
        <5> QED BY <4>1 DEF Gone
      <4>4. InOrder(yielded[o], all, Len(all))
        BY <3>1, <3>3, <4>1, <4>3, InOrderMore DEF Delivered
      <4> QED BY <2>2, <3>1, <3>2, <3>4, <4>2, <4>4 DEF Delivered
    <3>5. CASE listing'[c] = listing[c]
      <4>1. outcome'[o] = "stop" => outcome[o] = "stop"
        BY <2>2, <2>4 DEF IndInv, Typed, TypeOK
      <4> QED BY <2>2, <3>1, <3>2, <3>5, <4>1 DEF Delivered
    <3> QED BY <3>2, <3>4, <3>5
  <2> QED BY <2>1, <2>2, <2>3, <2>4, IterStep
<1>8. ASSUME NEW i \in Iters, KeyIterDealloc(i) PROVE ListInv'
  <2>1. PICK c \in Contexts : c = ctx[i]
    BY <1>8 DEF KeyIterDealloc, IndInv, Typed, TypeOK
  <2>2. /\ ctx' = [ctx EXCEPT ![i] = NULL]
        /\ asked' = [asked EXCEPT ![i] = NULL]
        /\ yielded' = [yielded EXCEPT ![i] = <<>>]
        /\ outcome' = [outcome EXCEPT ![i] = "none"]
        /\ \/ /\ owner[c] = i /\ owner' = [owner EXCEPT ![c] = NULL]
              /\ taken' = [taken EXCEPT ![c] = 0] /\ broken' = broken \ {c}
           \/ owner[c] # i /\ UNCHANGED <<owner, taken, broken>>
        /\ UNCHANGED listing
    BY <1>8, <2>1 DEF KeyIterDealloc, NewListing, listings
  <2>3. ASSUME NEW d \in Contexts, owner'[d] # NULL
        PROVE  /\ owner'[d] = owner[d] /\ owner[d] \in Iters \ {i}
               /\ taken'[d] = taken[d] /\ (d \in broken') = (d \in broken)
    <3>1. owner[d] = i => d = c
      BY <2>1 DEF IndInv, ListInv, OwnerInv
    <3> QED BY <2>2, <2>3, <3>1 DEF IndInv, Typed, TypeOK
  <2>4. ASSUME NEW d \in Contexts, owner'[d] # NULL
        PROVE  Delivered(owner[d], d)'
    <3>1. /\ asked'[owner[d]] = asked[owner[d]]
          /\ yielded'[owner[d]] = yielded[owner[d]]
          /\ outcome'[owner[d]] = outcome[owner[d]]
      BY <2>2, <2>3, <2>4 DEF IndInv, Typed, TypeOK
    <3> QED BY <2>2, <2>3, <2>4, <3>1, OtherListing
  <2>5. OwnerInv' /\ FreshInv'
    BY <2>2, <2>3 DEF IndInv, Typed, TypeOK, ListInv, OwnerInv, FreshInv
  <2> QED BY <2>3, <2>4, <2>5 DEF ListInv, DeliveredInv
<1>9. CASE UNCHANGED vars
  BY <1>3, <1>9 DEF vars
<1>10. ASSUME NEW c \in Contexts, DropContext(c) PROVE ListInv'
  BY <1>3, <1>10 DEF DropContext
<1>11. CASE Next
  <2>1. CASE \E c \in Contexts :
                 \/ \E i \in Iters, p \in Patterns : Keylist(i, c, p)
                 \/ \E p \in Patterns : KeylistFails(c, p)
                 \/ OtherOperation(c) \/ DropContext(c)
    BY <2>1, <1>1, <1>2, <1>10
  <2>2. CASE \E i \in Iters :
                 \/ NextKey(i) \/ NextKeyLost(i) \/ NextStop(i)
                 \/ NextError(i) \/ KeyIterDealloc(i)
    BY <2>2, <1>4, <1>5, <1>6, <1>7, <1>8
  <2> QED BY <1>11, <2>1, <2>2 DEF Next
<1> QED BY <1>9, <1>11
-----------------------------------------------------------------------------
\* IndInv holds of every state that the program reaches.
LEMMA Invariance == Spec => []IndInv
<1>1. IndInv /\ [Next]_vars => IndInv'
  BY TypeStep, RefsStep, ListStep DEF IndInv
<1> QED BY InitInv, <1>1, PTL DEF Spec

\* The variables have their types: in particular no count of references falls
\* below zero, however calls and deallocations alternate.
THEOREM TypeCorrect == Spec => []TypeOK
<1>1. IndInv => TypeOK
  BY DEF IndInv, Typed
<1> QED BY <1>1, Invariance, PTL

\* The count of a context's references is exact, so that pygpgme_keyiter_next
\* finds its context alive and a context nobody refers to is freed.
THEOREM ContextRefs == Spec => []ContextRefsExact
<1>1. IndInv => ContextRefsExact
  BY DEF IndInv, RefsInv
<1> QED BY <1>1, Invariance, PTL

\* What the iterator of the last keylist call on a context returns, beside any
\* number of older iterators of that context: the keys that match, in order and
\* once each, and all of them but for those that another pygpgme_keyiter_next
\* has taken out of the library's listing or has failed on.
THEOREM LatestIterator == Spec => []LatestIteratorInOrder
<1>1. IndInv => LatestIteratorInOrder
  <2> SUFFICES ASSUME IndInv, NEW c \in Contexts, owner[c] # NULL
               PROVE  LET i    == owner[c]
                          all  == Matches[asked[i]]
                          gone == Len(all) - Len(listing[c]) IN
                      /\ SubsequenceOf(yielded[i], SubSeq(all, 1, gone))
                      /\ c \notin broken => gone = Len(yielded[i]) + taken[c]
                      /\ c \notin broken /\ taken[c] = 0 =>
                             yielded[i] \o listing[c] = all
                      /\ outcome[i] = "stop" => listing[c] = <<>>
    BY DEF LatestIteratorInOrder
  <2>1. Delivered(owner[c], c)
    BY DEF IndInv, ListInv, DeliveredInv
  <2>2. /\ yielded[owner[c]] \in Seq(Keys)
        /\ Matches[asked[owner[c]]] \in Seq(Keys)
    BY <2>1, MatchesAssumption, NullAssumption DEF Delivered, IndInv, Typed, TypeOK
  <2> DEFINE all == Matches[asked[owner[c]]]
             gone == Len(all) - Len(listing[c])
  <2>3. gone \in Nat /\ gone <= Len(all)
    <3>1. /\ Len(all) \in Nat /\ Len(listing[c]) \in Nat
          /\ Len(listing[c]) <= Len(all)
      BY <2>1, <2>2, LenProperties DEF Delivered, EndOf
    <3> HIDE DEF all
    <3> QED BY <3>1
  <2>4. SubsequenceOf(yielded[owner[c]], SubSeq(all, 1, gone))
    <3>1. InOrder(yielded[owner[c]], all, gone)
      BY <2>1 DEF Delivered, Gone
    <3> HIDE DEF all, gone
    <3> QED BY <2>2, <2>3, <3>1, InOrderIsSubsequence DEF all
  <2> QED BY <2>1, <2>4 DEF Delivered, Gone
<1> QED BY <1>1, Invariance, PTL
=============================================================================
