----------------------- MODULE ContextAttributesProofs -----------------------
(***************************************************************************)
(* Proofs about ContextAttributes, for any number of threads, any items    *)
(* and sequences of any length.                                            *)
(*                                                                         *)
(* What an assignment amounts to is known when it takes the mutex (last).  *)
(* The inductive invariant says how far the holder of the mutex has got:   *)
(* while a list is filled, what is stored and what is left to add are      *)
(* together the assigned sequence, an exception is pending exactly if an   *)
(* item was stored without its name or value, and nobody but the holder is *)
(* between the clearing and the last item.                                 *)
(***************************************************************************)
EXTENDS ContextAttributes, SequenceTheorems, TLAPS

AnyItem  == Items \cup {BadItem, LossyItem}
AnyAdded == Stored \cup {BadItem}
Scalar   == {<<v>> : v \in CValues}
PyScalar == {<<v>> : v \in PyValues}
Values   == Seq(AnyItem) \cup Seq(Stored) \cup Scalar \cup PyScalar

Typed ==
    /\ TypeOK
    /\ arg \in [Threads -> Values]
    /\ left \in [Threads -> Values]
    /\ got \in [Threads -> Values]

\* What thread t knows of its own call.
CallInv(t) ==
    /\ pc[t] = "acquire" => doing[t] \in {"set", "get", "op"}
    /\ pc[t] = "set" => doing[t] = "set" /\ attr \notin Lists
    /\ pc[t] \in {"clear", "add"} => doing[t] = "set" /\ attr \in Lists
    /\ pc[t] = "get" => doing[t] = "get" /\ attr \notin Lists
    /\ pc[t] = "enum" => doing[t] = "get" /\ attr \in Lists
    /\ pc[t] = "op" => doing[t] = "op"
    /\ pc[t] = "unlock" => doing[t] \in {"set", "get"}
    /\ doing[t] = "set" /\ attr \in Lists => arg[t] \in Seq(AnyItem)
    /\ doing[t] = "set" /\ attr \notin Lists =>
           arg[t] \in PyScalar /\ CValue(arg[t]) \in CValues
    /\ pc[t] \in {"acquire", "set", "clear"} /\ doing[t] = "set" =>
           raised[t] = IF attr \notin Lists /\ Lossy(arg[t]) THEN "unseen" ELSE "no"
    /\ pc[t] \in {"unlock", "python"} /\ doing[t] = "set" =>
           /\ raised[t] = "yes" <=> Refuses(arg[t])
           /\ raised[t] = "unseen" <=> ~ Refuses(arg[t]) /\ Lossy(arg[t])

\* s begins with r.
BeginsWith(s, r) ==
    /\ r \in Seq(Stored)
    /\ Len(r) <= Len(s)
    /\ \A n \in 1 .. Len(r) : r[n] = s[n]

\* An item of s lacks what could not be converted.
HasCut(s) == \E n \in DOMAIN s : s[n] = CutItem

\* How far thread t has got with the attribute.
AccessInv(t) ==
    /\ pc[t] = "set" => last = Outcome(arg[t])
    /\ pc[t] = "clear" => last = GoodPrefix(Added(arg[t])) /\ left[t] = arg[t]
    /\ pc[t] = "add" => /\ last = GoodPrefix(Added(arg[t]))
                        /\ left[t] \in Seq(AnyItem)
                        /\ stored \o Added(left[t]) = Added(arg[t])
                        /\ raised[t] = IF HasCut(stored) THEN "unseen" ELSE "no"
    /\ pc[t] \in {"get", "enum", "op", "unlock"} => stored = last
    /\ pc[t] = "enum" => BeginsWith(stored, got[t])
    /\ pc[t] = "unlock" /\ doing[t] = "get" /\ raised[t] = "no" =>
           got[t] = last

IndInv ==
    /\ Typed
    /\ \A t \in Threads : CallInv(t) /\ AccessInv(t)
    /\ mutex = NULL => stored = last

-----------------------------------------------------------------------------
(* Sequences.                                                              *)

\* What the library is given for a sequence, item by item.
LEMMA AddedItems ==
    ASSUME NEW s \in Seq(AnyItem)
    PROVE  /\ Added(s) \in Seq(AnyAdded)
           /\ Len(Added(s)) = Len(s)
           /\ DOMAIN Added(s) = DOMAIN s
           /\ \A n \in 1 .. Len(s) : Added(s)[n] = AsAdded(s[n])
           /\ Bad(Added(s)) = Bad(s)
           /\ HasCut(Added(s)) <=> \E n \in DOMAIN s : s[n] = LossyItem
<1>1. Len(s) \in Nat /\ DOMAIN s = 1 .. Len(s)
  BY LenProperties
<1>2. \A n \in 1 .. Len(s) : s[n] \in AnyItem
  BY ElementOfSeq
<1>3. \A x \in AnyItem : /\ AsAdded(x) \in AnyAdded
                         /\ AsAdded(x) = BadItem <=> x = BadItem
                         /\ AsAdded(x) = CutItem <=> x = LossyItem
  BY ItemsAssumption DEF AnyItem, AnyAdded, Stored, AsAdded
<1>4. Added(s) = [n \in 1 .. Len(s) |-> AsAdded(s[n])]
  BY <1>1 DEF Added
<1>5. Added(s) \in Seq(AnyAdded) /\ Len(Added(s)) = Len(s)
  <2>1. Added(s) \in [1 .. Len(s) -> AnyAdded]
    BY <1>2, <1>3, <1>4
  <2> QED BY <1>1, <2>1, SeqDef, LenProperties
<1> QED BY <1>1, <1>2, <1>3, <1>4, <1>5 DEF Bad, HasCut

\* The first item of a sequence is converted, and the rest remains.
LEMMA AddedRest ==
    ASSUME NEW l \in Seq(AnyItem), l # <<>>
    PROVE  /\ Head(l) \in AnyItem /\ Tail(l) \in Seq(AnyItem)
           /\ Added(l) \in Seq(AnyAdded) /\ Added(l) # <<>>
           /\ Head(Added(l)) = AsAdded(Head(l))
           /\ Tail(Added(l)) = Added(Tail(l))
<1>1. /\ Head(l) \in AnyItem /\ Tail(l) \in Seq(AnyItem)
      /\ Len(Tail(l)) = Len(l) - 1 /\ Len(l) \in Nat \ {0}
      /\ \A n \in 1 .. Len(Tail(l)) : Tail(l)[n] = l[n + 1]
  BY HeadTailProperties, EmptySeq, LenProperties
<1>2. /\ Added(l) \in Seq(AnyAdded) /\ Len(Added(l)) = Len(l)
      /\ \A n \in 1 .. Len(l) : Added(l)[n] = AsAdded(l[n])
  BY AddedItems
<1>3. /\ Added(Tail(l)) \in Seq(AnyAdded) /\ Len(Added(Tail(l))) = Len(l) - 1
      /\ \A n \in 1 .. Len(l) - 1 : Added(Tail(l))[n] = AsAdded(Tail(l)[n])
  BY <1>1, AddedItems
<1>4. Added(l) # <<>>
  BY <1>1, <1>2, EmptySeq
<1>5. Head(Added(l)) = AsAdded(Head(l))
  BY <1>1, <1>2
<1>6. /\ Tail(Added(l)) \in Seq(AnyAdded) /\ Len(Tail(Added(l))) = Len(l) - 1
      /\ \A n \in 1 .. Len(l) - 1 : Tail(Added(l))[n] = Added(l)[n + 1]
  BY <1>2, <1>4, HeadTailProperties
<1>7. \A n \in 1 .. Len(l) - 1 : Tail(Added(l))[n] = Added(Tail(l))[n]
  BY <1>1, <1>2, <1>3, <1>6
<1>8. Tail(Added(l)) = Added(Tail(l))
  BY <1>3, <1>6, <1>7, SeqEqual
<1> QED BY <1>1, <1>2, <1>4, <1>5, <1>8

\* Nothing is given for an empty sequence.
LEMMA AddedEmpty == Added(<<>>) = <<>>
<1>1. <<>> \in Seq(AnyItem) /\ Len(<<>>) = 0
  BY EmptySeq
<1> QED BY <1>1, AddedItems, EmptySeq

\* A converted item is moved from what is left to what is stored.
LEMMA MoveItem ==
    ASSUME NEW s \in Seq(Stored), NEW l \in Seq(AnyAdded), l # <<>>,
           Head(l) # BadItem
    PROVE  /\ Append(s, Head(l)) \in Seq(Stored)
           /\ Tail(l) \in Seq(AnyAdded)
           /\ Append(s, Head(l)) \o Tail(l) = s \o l
<1>1. /\ Head(l) \in Stored /\ Head(l) \in AnyAdded
      /\ Tail(l) \in Seq(AnyAdded) /\ s \in Seq(AnyAdded)
  BY HeadTailProperties, SeqMonotonic DEF AnyAdded, Stored
<1>2. l = <<Head(l)>> \o Tail(l)
  <2>1. Len(l) \in Nat \ {0} /\ Head(l) = l[1]
    BY EmptySeq
  <2>2. SubSeq(l, 1, Len(l)) = <<l[1]>> \o SubSeq(l, 1 + 1, Len(l))
    BY <2>1, SubSeqRecursiveFirst
  <2>3. SubSeq(l, 1, Len(l)) = l /\ SubSeq(l, 2, Len(l)) = Tail(l)
    BY SubSeqFull, TailIsSubSeq
  <2> QED BY <2>1, <2>2, <2>3
<1>3. <<Head(l)>> \in Seq(AnyAdded)
  BY <1>1
<1>4. Append(s, Head(l)) \o Tail(l) = s \o (<<Head(l)>> \o Tail(l))
  <2>1. Append(s, Head(l)) = s \o <<Head(l)>>
    BY <1>1, AppendIsConcat
  <2> QED BY <1>1, <1>3, <2>1, ConcatAssociative
<1>5. Append(s, Head(l)) \in Seq(Stored)
  BY <1>1, AppendProperties
<1> QED BY <1>1, <1>2, <1>4, <1>5

\* A sequence of nothing but items is assigned as a whole.
LEMMA AllGood ==
    ASSUME NEW s \in Seq(Stored)
    PROVE  Bad(s) = {} /\ GoodPrefix(s) = s
<1>1. \A n \in DOMAIN s : s[n] # BadItem
  BY ItemsAssumption, ElementOfSeq, LenProperties DEF Stored
<1> QED BY <1>1 DEF Bad, GoodPrefix

\* One that goes on with something that is refused is assigned up to there.
LEMMA GoodUpTo ==
    ASSUME NEW s \in Seq(Stored), NEW l \in Seq(AnyAdded), l # <<>>,
           Head(l) = BadItem
    PROVE  Bad(s \o l) # {} /\ GoodPrefix(s \o l) = s
<1> DEFINE a == s \o l
           m == Len(s) + 1
<1>1. s \in Seq(AnyAdded) /\ Len(s) \in Nat /\ Len(l) \in Nat \ {0}
  BY SeqMonotonic, LenProperties, EmptySeq DEF AnyAdded, Stored
<1>2. /\ a \in Seq(AnyAdded) /\ DOMAIN a = 1 .. Len(s) + Len(l)
      /\ \A n \in 1 .. Len(s) + Len(l) :
             a[n] = IF n <= Len(s) THEN s[n] ELSE l[n - Len(s)]
  BY <1>1, ConcatProperties, LenProperties
<1>3. \A n \in 1 .. Len(s) : a[n] = s[n] /\ s[n] \in Stored
  BY <1>1, <1>2, ElementOfSeq
<1>4. m \in DOMAIN a /\ a[m] = BadItem
  <2>1. Head(l) = l[1] /\ m - Len(s) = 1 /\ ~ m <= Len(s)
    BY <1>1
  <2>2. m \in 1 .. Len(s) + Len(l)
    BY <1>1
  <2> QED BY <1>2, <2>1, <2>2
<1>5. \A n \in Bad(a) : n \in Nat /\ m <= n
  BY <1>1, <1>2, <1>3, ItemsAssumption DEF Bad, Stored
<1>6. m \in Bad(a)
  BY <1>4 DEF Bad
<1>7. Min(Bad(a)) = m
  <2>1. m \in Nat
    BY <1>1
  <2>2. \A x \in Bad(a) : (\A y \in Bad(a) : x =< y) => x = m
    BY <1>5, <1>6, <2>1
  <2> QED BY <1>5, <1>6, <2>2 DEF Min
<1>8. SubSeq(a, 1, Len(s)) = s
  <2>1. \A n \in 1 .. Len(s) : a[n] \in Stored
    BY <1>3
  <2>2. SubSeq(a, 1, Len(s)) \in Seq(Stored)
    BY <1>1, <2>1, SubSeqProperties
  <2>3. Len(SubSeq(a, 1, Len(s))) = Len(s)
    BY <1>1, <2>1, SubSeqProperties
  <2>4. \A n \in 1 .. Len(s) : SubSeq(a, 1, Len(s))[n] = s[n]
    BY <1>1, <1>3, <2>1, SubSeqProperties
  <2> QED BY <2>2, <2>3, <2>4, SeqEqual
<1>9. GoodPrefix(a) = SubSeq(a, 1, Min(Bad(a)) - 1)
  BY <1>6 DEF GoodPrefix
<1> QED BY <1>1, <1>6, <1>7, <1>8, <1>9

\* What can be assigned to a list.
LEMMA AssignableSeq ==
    ASSUME NEW a
    PROVE  Assignable(a) \subseteq Seq(AnyItem)
<1> DEFINE S == Items \cup {BadItem}
                      \cup (IF a = "sig_notations" THEN {LossyItem} ELSE {})
<1>1. Assignable(a) \subseteq Seq(S)
  BY SeqDef DEF Assignable, SeqOf
<1>2. S \subseteq AnyItem
  BY DEF AnyItem
<1> QED BY <1>1, <1>2, SeqMonotonic

\* What a scalar attribute is set to.
LEMMA ScalarValues ==
    ASSUME NEW a \in DOMAIN Scalars, NEW v \in PyValues,
           Scalars[a].convert[v] # "error"
    PROVE  Scalars[a].convert[v] \in CValues
<1>1. ASSUME NEW accepted
      PROVE  /\ Number(accepted).convert[v] \in CValues \cup {"error"}
             /\ ParsedInt(accepted).convert[v] \in CValues \cup {"error"}
  BY DEF Number, ParsedInt, Numbers, CValues
<1>2. Flag.convert[v] \in CValues \cup {"error"}
  BY DEF Flag, Numbers, CValues
<1>3. Sender.convert[v] \in CValues \cup {"error"}
  BY DEF Sender, CValues
<1>4. \/ Scalars[a] = Flag \/ Scalars[a] = Sender
      \/ \E accepted : \/ Scalars[a] = Number(accepted)
                       \/ Scalars[a] = ParsedInt(accepted)
  <2>1. \/ a \in {"armor", "textmode", "offline"} /\ Scalars[a] = Flag
        \/ a = "sender" /\ Scalars[a] = Sender
        \/ a = "protocol" /\ Scalars[a] = Protocol
        \/ a = "include_certs" /\ Scalars[a] = IncludeCerts
        \/ a = "keylist_mode" /\ Scalars[a] = KeylistMode
        \/ a = "pinentry_mode" /\ Scalars[a] = PinentryMode
        \/ a = "engine_info" /\ Scalars[a] = EngineInfo
        \/ a = "locale" /\ Scalars[a] = Locale
    BY DEF Scalars, Armor, Textmode, Offline
  <2> QED BY <2>1 DEF Protocol, IncludeCerts, KeylistMode, PinentryMode,
                      EngineInfo, Locale
<1> QED BY <1>1, <1>2, <1>3, <1>4

\* A getter that has read all of a list has read the list.
LEMMA ReadToEnd ==
    ASSUME NEW s \in Seq(Stored), NEW r, BeginsWith(s, r), Len(r) >= Len(s)
    PROVE  r = s
<1>1. r \in Seq(Stored) /\ Len(r) \in Nat /\ Len(s) \in Nat /\ Len(r) <= Len(s)
  BY LenProperties DEF BeginsWith
<1>2. Len(r) = Len(s)
  BY <1>1
<1> QED BY <1>1, <1>2, SeqEqual DEF BeginsWith

\* Reading the next item of a list.
LEMMA ReadItem ==
    ASSUME NEW s \in Seq(Stored), NEW r, BeginsWith(s, r), Len(r) < Len(s)
    PROVE  BeginsWith(s, Append(r, s[Len(r) + 1]))
<1>1. r \in Seq(Stored) /\ Len(r) \in Nat /\ Len(s) \in Nat
  BY LenProperties DEF BeginsWith
<1>2. Len(r) + 1 \in 1 .. Len(s)
  BY <1>1
<1>3. s[Len(r) + 1] \in Stored
  BY <1>2, ElementOfSeq
<1>4. LET q == Append(r, s[Len(r) + 1])
      IN  /\ q \in Seq(Stored) /\ Len(q) = Len(r) + 1
          /\ \A n \in 1 .. Len(r) : q[n] = r[n]
          /\ q[Len(r) + 1] = s[Len(r) + 1]
  BY <1>1, <1>3, AppendProperties
<1> QED BY <1>1, <1>2, <1>4 DEF BeginsWith

-----------------------------------------------------------------------------
(* The invariant.                                                          *)

\* Before the first step every thread runs Python code.
LEMMA InitInv == Init => IndInv
<1> SUFFICES ASSUME Init PROVE IndInv
  OBVIOUS
<1> USE DEF Init
<1>1. <<>> \in Seq(AnyItem) /\ <<>> \in Seq(Stored)
  BY EmptySeq
<1>2. TypeOK
  BY <1>1, NullAssumption
  DEF TypeOK, Initial, CValues, Numbers, Holding, InAccess, Raised
<1>3. Typed
  BY <1>1, <1>2 DEF Typed, Values
<1>4. \A t \in Threads : CallInv(t) /\ AccessInv(t)
  BY DEF CallInv, AccessInv
<1> QED BY <1>3, <1>4 DEF IndInv

\* At most thread t moves.
Alone(t) ==
    /\ attr' = attr
    /\ \A u \in Threads \ {t} :
           /\ pc'[u] = pc[u] /\ doing'[u] = doing[u] /\ arg'[u] = arg[u]
           /\ left'[u] = left[u] /\ got'[u] = got[u] /\ raised'[u] = raised[u]

\* The others are where they were: the attribute changes only where thread t
\* has the mutex, or takes it.
LEMMA OthersKeep ==
    ASSUME IndInv, NEW t \in Threads, Alone(t),
           (stored' = stored /\ last' = last) \/ mutex \in {NULL, t}
    PROVE  \A u \in Threads \ {t} : CallInv(u)' /\ AccessInv(u)'
<1> SUFFICES ASSUME NEW u \in Threads \ {t}
             PROVE  CallInv(u)' /\ AccessInv(u)'
  OBVIOUS
<1> USE DEF Alone
<1>1. CallInv(u) /\ AccessInv(u)
  BY DEF IndInv
<1>2. CallInv(u)'
  BY <1>1 DEF CallInv, Refuses, Lossy, Bad, CValue
<1>3. ASSUME stored' = stored /\ last' = last PROVE AccessInv(u)'
  <2>1. arg'[u] = arg[u] /\ left'[u] = left[u] /\ got'[u] = got[u]
        /\ pc'[u] = pc[u] /\ doing'[u] = doing[u] /\ raised'[u] = raised[u]
    OBVIOUS
  <2>2. /\ GoodPrefix(Added(arg[u]))' = GoodPrefix(Added(arg[u]))
        /\ Added(arg[u])' = Added(arg[u]) /\ Added(left[u])' = Added(left[u])
    BY <2>1 DEF GoodPrefix, Bad, Added
  <2>3. Refuses(arg[u])' = Refuses(arg[u]) /\ CValue(arg[u])' = CValue(arg[u])
    BY <2>1 DEF Refuses, Bad, CValue
  <2>4. Outcome(arg[u])' = Outcome(arg[u])
    BY <1>3, <2>1, <2>2, <2>3 DEF Outcome
  <2>6. HasCut(stored)' = HasCut(stored)
    BY <1>3 DEF HasCut
  <2>5. BeginsWith(stored, got[u])' = BeginsWith(stored, got[u])
    BY <1>3, <2>1 DEF BeginsWith
  <2> QED BY <1>1, <1>3, <2>1, <2>2, <2>4, <2>5, <2>6 DEF AccessInv
<1>4. ASSUME mutex \in {NULL, t} PROVE AccessInv(u)'
  <2>1. pc[u] \notin Holding
    BY <1>4, NullAssumption DEF IndInv, Typed, TypeOK
  <2> QED BY <2>1 DEF AccessInv, Holding, InAccess
<1> QED BY <1>2, <1>3, <1>4

\* Nobody else is in the lock while thread t is.
LEMMA Exclusive ==
    ASSUME IndInv, NEW t \in Threads, pc[t] \in Holding
    PROVE  mutex = t /\ \A u \in Threads \ {t} : pc[u] \notin Holding
  BY DEF IndInv, Typed, TypeOK

\* A thread begins a call, or fails to, without the mutex.
LEMMA AskKeeps ==
    ASSUME IndInv, NEW t \in Threads,
           Assign(t) \/ AssignFails(t) \/ Read(t) \/ CallOperation(t)
    PROVE  IndInv'
<1> USE DEF IndInv, Typed, TypeOK
<1>1. /\ pc[t] = "python"
      /\ UNCHANGED <<attr, stored, mutex, left, got, last>>
  BY DEF Assign, AssignFails, Read, CallOperation, Goto
<1>2. \/ /\ pc' = [pc EXCEPT ![t] = "acquire"]
         /\ raised' = [raised EXCEPT ![t] =
                IF doing'[t] = "set" /\ attr \notin Lists /\ Lossy(arg'[t])
                THEN "unseen" ELSE "no"]
         /\ \E what \in {"set", "get", "op"}, value \in Values :
                /\ Ask(t, what, value)
                /\ what = "set" =>
                       IF attr \in Lists THEN value \in Seq(AnyItem)
                       ELSE value \in PyScalar /\ CValue(value) \in CValues
      \/ /\ pc' = pc
         /\ raised' = [raised EXCEPT ![t] = "yes"]
         /\ Ask(t, "none", <<>>)
  <2>1. CASE Assign(t)
    <3>1. CASE attr \in Lists
      <4>1. PICK items \in Assignable(attr) : Ask(t, "set", items)
        BY <2>1, <3>1 DEF Assign, AssignList, AssignScalar
      <4>2. items \in Seq(AnyItem)
        BY <4>1, AssignableSeq
      <4> QED BY <2>1, <3>1, <4>1, <4>2
              DEF Assign, AssignList, AssignScalar, Goto, Values
    <3>2. CASE attr \notin Lists
      <4>1. PICK v \in PyValues :
                /\ Scalars[attr].convert[v] # "error"
                /\ Ask(t, "set", <<v>>)
                /\ raised' = [raised EXCEPT ![t] = IF Lossy(<<v>>) THEN "unseen"
                                                  ELSE "no"]
        BY <2>1, <3>2 DEF Assign, AssignList, AssignScalar
      <4>2. CValue(<<v>>) \in CValues
        BY <3>2, <4>1, ScalarValues DEF CValue
      <4>3. doing'[t] = "set" /\ arg'[t] = <<v>>
        BY <4>1 DEF Ask
      <4> QED BY <2>1, <3>2, <4>1, <4>2, <4>3 DEF Assign, Goto, Values, PyScalar
    <3> QED BY <3>1, <3>2
  <2>2. CASE AssignFails(t)
    BY <2>2 DEF AssignFails
  <2>3. CASE Read(t) \/ CallOperation(t)
    BY <2>3, EmptySeq DEF Read, CallOperation, Goto, Values, Ask
  <2> QED BY <2>1, <2>2, <2>3
<1>3. /\ doing' \in [Threads -> {"none", "set", "get", "op"}]
      /\ arg' \in [Threads -> Values]
      /\ raised' \in [Threads -> Raised]
  <2>1. <<>> \in Values
    BY EmptySeq DEF Values
  <2> QED BY <1>2, <2>1 DEF Ask, Raised
<1>4. Alone(t)
  BY <1>1, <1>2 DEF Alone, Ask
<1>5. Typed'
  BY <1>1, <1>2, <1>3 DEF Holding, InAccess
<1>6. \A u \in Threads \ {t} : CallInv(u)' /\ AccessInv(u)'
  BY <1>1, <1>4, OthersKeep
<1>7. CallInv(t)' /\ AccessInv(t)'
  <2>1. CASE pc' = pc
    BY <1>1, <1>2, <2>1 DEF CallInv, AccessInv, Ask
  <2>2. CASE pc'[t] = "acquire"
    <3>1. attr' = attr /\ CValue(arg[t])' = CValue(arg'[t])
          /\ Lossy(arg[t])' = Lossy(arg'[t])
      BY <1>1 DEF CValue, Lossy
    <3> QED BY <1>1, <1>2, <2>2, <3>1 DEF CallInv, AccessInv, Ask
  <2> QED BY <1>2, <2>1, <2>2
<1> QED BY <1>1, <1>5, <1>6, <1>7

\* The mutex is taken: what the assignment amounts to is decided.
LEMMA AcquireKeeps ==
    ASSUME IndInv, NEW t \in Threads, Acquire(t)
    PROVE  IndInv'
<1> USE DEF IndInv, Typed, TypeOK
<1>1. /\ mutex = NULL /\ mutex' = t /\ pc[t] = "acquire"
      /\ pc' = [pc EXCEPT ![t] = Entry(t)]
      /\ left' = [left EXCEPT ![t] = arg[t]]
      /\ got' = [got EXCEPT ![t] = <<>>]
      /\ last' = IF doing[t] = "set" THEN Outcome(arg[t]) ELSE last
      /\ UNCHANGED <<attr, stored, doing, arg, raised>>
  BY DEF Acquire, Goto, call
<1>2. doing[t] \in {"set", "get", "op"} /\ CallInv(t)
  BY <1>1 DEF CallInv
<1>3. Entry(t) \in Holding \ {"add", "unlock"}
  BY <1>2 DEF Entry, Holding, InAccess
<1>4. \A u \in Threads : pc[u] \notin Holding
  BY <1>1, NullAssumption
<1>5. Alone(t)
  BY <1>1 DEF Alone
<1>6. Typed'
  <2>1. <<>> \in Values
    BY EmptySeq DEF Values
  <2> QED BY <1>1, <1>3, <1>4, <2>1
<1>7. \A u \in Threads \ {t} : CallInv(u)' /\ AccessInv(u)'
  BY <1>1, <1>5, OthersKeep
<1>8. CallInv(t)'
  BY <1>1, <1>2 DEF CallInv, Entry, Refuses, Lossy, Bad, CValue
<1>9. AccessInv(t)'
  <2>1. stored = last
    BY <1>1
  <2>2. attr \in Lists => stored \in Seq(Stored) /\ BeginsWith(stored, <<>>)
    BY EmptySeq, LenProperties DEF BeginsWith
  <2>3. CASE doing[t] = "set"
    BY <1>1, <2>3
    DEF AccessInv, Entry, Outcome, Refuses, GoodPrefix, Bad, Added, CValue
  <2>4. CASE doing[t] = "get"
    BY <1>1, <2>1, <2>2, <2>4 DEF AccessInv, Entry, BeginsWith
  <2>5. CASE doing[t] = "op"
    BY <1>1, <2>1, <2>5 DEF AccessInv, Entry
  <2> QED BY <1>2, <2>3, <2>4, <2>5
<1> QED BY <1>1, <1>6, <1>7, <1>8, <1>9, NullAssumption

\* A scalar is set, or refused.
LEMMA SetScalarKeeps ==
    ASSUME IndInv, NEW t \in Threads, SetScalar(t)
    PROVE  IndInv'
<1> USE DEF IndInv, Typed, TypeOK
<1>1. /\ pc[t] = "set" /\ pc' = [pc EXCEPT ![t] = "unlock"]
      /\ stored' = IF Refuses(arg[t]) THEN stored ELSE <<CValue(arg[t])>>
      /\ raised' = IF Refuses(arg[t]) THEN [raised EXCEPT ![t] = "yes"]
                   ELSE raised
      /\ UNCHANGED <<attr, mutex, doing, arg, left, got, last>>
  BY DEF SetScalar, Goto, call
<1>2. /\ mutex = t /\ doing[t] = "set" /\ attr \notin Lists
      /\ CValue(arg[t]) \in CValues /\ last = Outcome(arg[t])
      /\ raised[t] = IF Lossy(arg[t]) THEN "unseen" ELSE "no"
  BY <1>1 DEF CallInv, AccessInv, Holding, InAccess
<1>3. /\ Refuses(arg[t])' <=> Refuses(arg[t])
      /\ Lossy(arg[t])' <=> Lossy(arg[t])
      /\ CValue(arg[t])' = CValue(arg[t])
  BY <1>1 DEF Refuses, Lossy, Bad, CValue
<1>4. raised' \in [Threads -> Raised]
  BY <1>1 DEF Raised
<1>5. Typed'
  <2>1. stored' \in Scalar
    BY <1>1, <1>2 DEF Scalar
  <2> QED BY <1>1, <1>2, <1>4, <2>1 DEF Holding, InAccess, Scalar
<1>6. Alone(t)
  BY <1>1 DEF Alone
<1>7. \A u \in Threads \ {t} : CallInv(u)' /\ AccessInv(u)'
  BY <1>2, <1>6, OthersKeep
<1>8. CallInv(t)'
  BY <1>1, <1>2, <1>3 DEF CallInv
<1>9. AccessInv(t)'
  BY <1>1, <1>2 DEF AccessInv, Outcome
<1> QED BY <1>1, <1>2, <1>5, <1>7, <1>8, <1>9, NullAssumption

\* The list in the library is cleared.
LEMMA ClearListKeeps ==
    ASSUME IndInv, NEW t \in Threads, ClearList(t)
    PROVE  IndInv'
<1> USE DEF IndInv, Typed, TypeOK
<1>1. /\ pc[t] = "clear" /\ pc' = [pc EXCEPT ![t] = "add"] /\ stored' = <<>>
      /\ UNCHANGED <<attr, mutex, doing, arg, left, got, raised, last>>
  BY DEF ClearList, Goto, call
<1>2. /\ mutex = t /\ doing[t] = "set" /\ attr \in Lists /\ raised[t] = "no"
      /\ arg[t] \in Seq(AnyItem) /\ left[t] = arg[t]
      /\ last = GoodPrefix(Added(arg[t]))
  BY <1>1 DEF CallInv, AccessInv, Holding, InAccess
<1>3. Typed'
  <2>1. stored' \in Seq(Stored)
    BY <1>1, EmptySeq
  <2> QED BY <1>1, <1>2, <2>1 DEF Holding, InAccess
<1>4. Alone(t)
  BY <1>1 DEF Alone
<1>5. \A u \in Threads \ {t} : CallInv(u)' /\ AccessInv(u)'
  BY <1>2, <1>4, OthersKeep
<1>6. CallInv(t)'
  BY <1>1, <1>2 DEF CallInv
<1>7. AccessInv(t)'
  <2>1. stored' \o Added(left'[t]) = Added(arg'[t]) /\ ~ HasCut(stored')
    BY <1>1, <1>2, AddedItems, ConcatEmptySeq DEF HasCut
  <2> QED BY <1>1, <1>2, <2>1 DEF AccessInv, GoodPrefix, Bad, Added, HasCut
<1> QED BY <1>1, <1>2, <1>3, <1>5, <1>6, <1>7, NullAssumption

\* Where the setter of a list has got to.
LEMMA Adding ==
    ASSUME IndInv, NEW t \in Threads, pc[t] = "add"
    PROVE  /\ mutex = t /\ doing[t] = "set" /\ attr \in Lists
           /\ raised[t] = IF HasCut(stored) THEN "unseen" ELSE "no"
           /\ arg[t] \in Seq(AnyItem) /\ stored \in Seq(Stored)
           /\ left[t] \in Seq(AnyItem)
           /\ stored \o Added(left[t]) = Added(arg[t])
           /\ last = GoodPrefix(Added(arg[t]))
  BY DEF IndInv, Typed, TypeOK, CallInv, AccessInv, Holding, InAccess

\* An item is added.
LEMMA AddItemKeeps ==
    ASSUME IndInv, NEW t \in Threads, AddItem(t)
    PROVE  IndInv'
<1> USE DEF IndInv, Typed, TypeOK
<1> DEFINE item == Head(left[t])
<1>1. /\ pc[t] = "add" /\ left[t] # <<>> /\ item # BadItem
      /\ stored' = Append(stored, AsAdded(item))
      /\ left' = [left EXCEPT ![t] = Tail(left[t])]
      /\ raised' = [raised EXCEPT ![t] = IF item = LossyItem THEN "unseen"
                                        ELSE raised[t]]
      /\ UNCHANGED <<attr, mutex, pc, doing, arg, got, last>>
  BY DEF AddItem, call
<1>2. /\ mutex = t /\ doing[t] = "set" /\ attr \in Lists
      /\ raised[t] = IF HasCut(stored) THEN "unseen" ELSE "no"
      /\ arg[t] \in Seq(AnyItem) /\ stored \in Seq(Stored)
      /\ left[t] \in Seq(AnyItem)
      /\ stored \o Added(left[t]) = Added(arg[t])
      /\ last = GoodPrefix(Added(arg[t]))
  BY <1>1, Adding
<1>3. /\ item \in AnyItem /\ Tail(left[t]) \in Seq(AnyItem)
      /\ Added(left[t]) \in Seq(AnyAdded) /\ Added(left[t]) # <<>>
      /\ Head(Added(left[t])) = AsAdded(item)
      /\ Tail(Added(left[t])) = Added(Tail(left[t]))
  BY <1>1, <1>2, AddedRest
<1>4. AsAdded(item) # BadItem /\ (AsAdded(item) = CutItem <=> item = LossyItem)
  BY <1>1, <1>3, ItemsAssumption DEF AsAdded, AnyItem
<1>5. /\ stored' \in Seq(Stored) /\ left'[t] \in Seq(AnyItem)
      /\ stored' \o Added(left'[t]) = Added(arg[t])
  BY <1>1, <1>2, <1>3, <1>4, MoveItem
<1>6. HasCut(stored') <=> HasCut(stored) \/ item = LossyItem
  <2>1. /\ Len(stored) \in Nat /\ DOMAIN stored = 1 .. Len(stored)
        /\ DOMAIN stored' = 1 .. Len(stored) + 1
        /\ \A n \in 1 .. Len(stored) : stored'[n] = stored[n]
        /\ stored'[Len(stored) + 1] = AsAdded(item)
    <3>1. AsAdded(item) \in Stored
      BY <1>1, <1>3 DEF AsAdded, AnyItem, Stored
    <3> QED BY <1>1, <1>2, <1>5, <3>1, AppendProperties, LenProperties
  <2>2. 1 .. Len(stored) + 1 = 1 .. Len(stored) \cup {Len(stored) + 1}
    BY <2>1
  <2> QED BY <1>4, <2>1, <2>2 DEF HasCut
<1>7. Typed'
  BY <1>1, <1>2, <1>5 DEF Values, Raised
<1>8. Alone(t)
  BY <1>1 DEF Alone
<1>9. \A u \in Threads \ {t} : CallInv(u)' /\ AccessInv(u)'
  BY <1>2, <1>8, OthersKeep
<1>10. CallInv(t)'
  BY <1>1, <1>2 DEF CallInv
<1>11. AccessInv(t)'
  <2>1. /\ GoodPrefix(Added(arg[t]))' = GoodPrefix(Added(arg[t]))
        /\ Added(arg[t])' = Added(arg[t]) /\ Added(left[t])' = Added(left'[t])
        /\ HasCut(stored)' <=> HasCut(stored')
    BY <1>1 DEF GoodPrefix, Bad, Added, HasCut
  <2>2. raised'[t] = IF HasCut(stored') THEN "unseen" ELSE "no"
    BY <1>1, <1>2, <1>6
  <2> QED BY <1>1, <1>2, <1>5, <2>1, <2>2 DEF AccessInv
<1> QED BY <1>1, <1>2, <1>7, <1>9, <1>10, <1>11, NullAssumption

\* The setter comes to the end of the sequence, or to an item it refuses: what
\* is stored is what the assignment amounts to.
LEMMA ListDoneKeeps ==
    ASSUME IndInv, NEW t \in Threads, RefuseItem(t) \/ LastItemAdded(t)
    PROVE  IndInv'
<1> USE DEF IndInv, Typed, TypeOK
<1>1. /\ pc[t] = "add" /\ pc' = [pc EXCEPT ![t] = "unlock"]
      /\ UNCHANGED <<attr, stored, mutex, doing, arg, left, got, last>>
      /\ raised' \in [Threads -> Raised]
      /\ \A u \in Threads \ {t} : raised'[u] = raised[u]
  BY DEF RefuseItem, LastItemAdded, Goto, call, Raised
<1>2. /\ mutex = t /\ doing[t] = "set" /\ attr \in Lists
      /\ raised[t] = IF HasCut(stored) THEN "unseen" ELSE "no"
      /\ arg[t] \in Seq(AnyItem) /\ stored \in Seq(Stored)
      /\ left[t] \in Seq(AnyItem)
      /\ stored \o Added(left[t]) = Added(arg[t])
      /\ last = GoodPrefix(Added(arg[t]))
  BY <1>1, Adding
<1>3. /\ Refuses(arg[t]) <=> Bad(Added(arg[t])) # {}
      /\ Lossy(arg[t]) <=> HasCut(Added(arg[t]))
  BY <1>2, AddedItems DEF Refuses, Lossy
<1>4. /\ stored = last
      /\ raised'[t] = "yes" <=> Refuses(arg[t])
      /\ raised'[t] = "unseen" <=> ~ Refuses(arg[t]) /\ Lossy(arg[t])
  <2>1. CASE RefuseItem(t)
    <3>1. left[t] # <<>> /\ Head(left[t]) = BadItem /\ raised'[t] = "yes"
      BY <2>1 DEF RefuseItem
    <3>2. /\ Added(left[t]) \in Seq(AnyAdded) /\ Added(left[t]) # <<>>
          /\ Head(Added(left[t])) = BadItem
      BY <1>2, <3>1, AddedRest, ItemsAssumption DEF AsAdded
    <3>3. Bad(Added(arg[t])) # {} /\ GoodPrefix(Added(arg[t])) = stored
      BY <1>2, <3>2, GoodUpTo
    <3> QED BY <1>2, <1>3, <3>1, <3>3
  <2>2. CASE LastItemAdded(t)
    <3>1. left[t] = <<>> /\ raised' = raised
      BY <2>2 DEF LastItemAdded
    <3>2. Added(arg[t]) = stored
      BY <1>2, <3>1, AddedEmpty, ConcatEmptySeq
    <3>3. Bad(Added(arg[t])) = {} /\ GoodPrefix(Added(arg[t])) = stored
      BY <1>2, <3>2, AllGood
    <3> QED BY <1>2, <1>3, <3>1, <3>2, <3>3
  <2> QED BY <2>1, <2>2
<1>5. Typed'
  BY <1>1, <1>2 DEF Holding, InAccess
<1>6. Alone(t)
  BY <1>1 DEF Alone
<1>7. \A u \in Threads \ {t} : CallInv(u)' /\ AccessInv(u)'
  BY <1>2, <1>6, OthersKeep
<1>8. CallInv(t)'
  <2>1. (Refuses(arg[t])' <=> Refuses(arg[t])) /\ (Lossy(arg[t])' <=> Lossy(arg[t]))
    BY <1>1 DEF Refuses, Lossy, Bad, CValue
  <2> QED BY <1>1, <1>2, <1>4, <2>1 DEF CallInv
<1>9. AccessInv(t)'
  BY <1>1, <1>2, <1>4 DEF AccessInv
<1> QED BY <1>1, <1>2, <1>5, <1>7, <1>8, <1>9, NullAssumption

\* A getter goes on, and what it reads stays as it is.
LEMMA GetKeeps ==
    ASSUME IndInv, NEW t \in Threads,
           GetScalar(t) \/ EnumItem(t) \/ EnumEnd(t) \/ GetFails(t)
    PROVE  IndInv'
<1> USE DEF IndInv, Typed, TypeOK
<1>1. /\ pc[t] \in {"get", "enum"}
      /\ pc' = pc \/ pc' = [pc EXCEPT ![t] = "unlock"]
      /\ UNCHANGED <<attr, stored, mutex, doing, arg, left, last>>
      /\ raised' = raised \/ raised' = [raised EXCEPT ![t] = "yes"]
      /\ \A u \in Threads \ {t} : got'[u] = got[u]
  BY DEF GetScalar, EnumItem, EnumEnd, GetFails, Goto, call
<1>2. mutex = t /\ doing[t] = "get" /\ stored = last
  BY <1>1 DEF CallInv, AccessInv, Holding, InAccess
<1>3. /\ got' \in [Threads -> Values]
      /\ \/ pc'[t] = "unlock" /\ got'[t] = stored
         \/ pc'[t] = "unlock" /\ raised'[t] = "yes"
         \/ /\ pc'[t] = "enum" /\ pc[t] = "enum"
            /\ BeginsWith(stored, got'[t])
  <2>1. CASE GetScalar(t)
    <3>1. attr \notin Lists
      BY <2>1 DEF GetScalar, Goto, CallInv
    <3> QED BY <2>1, <3>1 DEF GetScalar, Goto, Values, Scalar
  <2>2. CASE EnumItem(t)
    <3>1. /\ pc[t] = "enum" /\ pc' = pc /\ Len(got[t]) < Len(stored)
          /\ got' = [got EXCEPT ![t] = Append(got[t], stored[Len(got[t]) + 1])]
      BY <2>2 DEF EnumItem
    <3>2. stored \in Seq(Stored) /\ BeginsWith(stored, got[t])
      BY <3>1 DEF CallInv, AccessInv
    <3>3. BeginsWith(stored, got'[t])
      BY <3>1, <3>2, ReadItem
    <3>4. got'[t] \in Seq(Stored)
      BY <3>3 DEF BeginsWith
    <3> QED BY <3>1, <3>3, <3>4 DEF Values
  <2>3. CASE EnumEnd(t)
    <3>1. pc[t] = "enum" /\ pc'[t] = "unlock" /\ Len(got[t]) >= Len(stored)
          /\ got' = got
      BY <2>3 DEF EnumEnd, Goto
    <3>2. stored \in Seq(Stored) /\ BeginsWith(stored, got[t])
      BY <3>1 DEF CallInv, AccessInv
    <3> QED BY <3>1, <3>2, ReadToEnd
  <2>4. CASE GetFails(t)
    BY <2>4 DEF GetFails
  <2> QED BY <2>1, <2>2, <2>3, <2>4
<1>4. Typed'
  BY <1>1, <1>2, <1>3 DEF Holding, InAccess, Raised
<1>5. Alone(t)
  BY <1>1 DEF Alone
<1>6. \A u \in Threads \ {t} : CallInv(u)' /\ AccessInv(u)'
  BY <1>2, <1>5, OthersKeep
<1>7. CallInv(t)' /\ AccessInv(t)'
  BY <1>1, <1>2, <1>3 DEF CallInv, AccessInv, BeginsWith
<1> QED BY <1>1, <1>2, <1>4, <1>6, <1>7, NullAssumption

\* The mutex is given up, with the value whole.
LEMMA LeaveKeeps ==
    ASSUME IndInv, NEW t \in Threads, Unlock(t) \/ EndOperation(t)
    PROVE  IndInv'
<1> USE DEF IndInv, Typed, TypeOK
<1>1. /\ pc[t] \in {"unlock", "op"} /\ pc' = [pc EXCEPT ![t] = "python"]
      /\ mutex' = NULL
      /\ UNCHANGED <<attr, stored, doing, arg, left, got, raised, last>>
  BY DEF Unlock, EndOperation, Goto, call
<1>2. /\ \A u \in Threads \ {t} : pc[u] \notin Holding
      /\ stored = last
      /\ doing[t] = "set" => pc[t] = "unlock"
  BY <1>1, Exclusive DEF CallInv, AccessInv, Holding, InAccess
<1>3. Typed'
  BY <1>1, <1>2 DEF Holding, InAccess
<1>4. Alone(t)
  BY <1>1 DEF Alone
<1>5. \A u \in Threads \ {t} : CallInv(u)' /\ AccessInv(u)'
  BY <1>1, <1>4, OthersKeep
<1>6. CallInv(t)' /\ AccessInv(t)'
  <2>1. CallInv(t)
    OBVIOUS
  <2> QED BY <1>1, <1>2, <2>1
          DEF CallInv, AccessInv, Refuses, Lossy, Bad, CValue
<1> QED BY <1>1, <1>2, <1>3, <1>5, <1>6

\* A process that dies is followed by a new one.
LEMMA CrashKeeps ==
    ASSUME IndInv, NEW t \in Threads, Crash(t)
    PROVE  IndInv'
<1>1. Init'
  BY DEF Crash, Init, IndInv, Typed, TypeOK
<1>2. Init' => IndInv'
  BY InitInv, PTL
<1> QED BY <1>1, <1>2

\* Every step keeps the invariant.
LEMMA StepKeeps ==
    ASSUME IndInv, [Next]_vars
    PROVE  IndInv'
<1>1. ASSUME NEW t \in Threads,
             \/ Setter(t) \/ Getter(t) \/ CallOperation(t)
             \/ Acquire(t) \/ EndOperation(t) \/ Unlock(t)
      PROVE  IndInv'
  BY <1>1, AskKeeps, AcquireKeeps, SetScalarKeeps, ClearListKeeps,
     AddItemKeeps, ListDoneKeeps, GetKeeps, LeaveKeeps, CrashKeeps
  DEF Setter, Getter
<1>2. CASE UNCHANGED vars
  <2>1. UNCHANGED <<attr, stored, mutex, pc, doing, arg, left, got, raised, last>>
    BY <1>2 DEF vars
  <2>2. Typed'
    BY <2>1 DEF IndInv, Typed, TypeOK
  <2>3. ASSUME NEW t \in Threads PROVE CallInv(t)' /\ AccessInv(t)'
    <3>1. CallInv(t) /\ AccessInv(t)
      BY DEF IndInv
    <3>2. CallInv(t)'
      BY <2>1, <3>1 DEF CallInv, Refuses, Lossy, Bad, CValue
    <3>3. AccessInv(t)'
      BY <2>1, <3>1 DEF AccessInv, BeginsWith, Outcome, GoodPrefix, Bad, Refuses,
                        Added, CValue, HasCut
    <3> QED BY <3>2, <3>3
  <2> QED BY <2>1, <2>2, <2>3 DEF IndInv
<1> QED BY <1>1, <1>2 DEF Next

\* The invariant holds at any time.
LEMMA Invariance == Spec => []IndInv
<1>1. Init => IndInv
  BY InitInv
<1>2. IndInv /\ [Next]_vars => IndInv'
  BY StepKeeps
<1> QED BY <1>1, <1>2, PTL DEF Spec

-----------------------------------------------------------------------------
(* The theorems.                                                           *)

\* The value in the library is of its attribute's type, and a thread between
\* lock_context and unlock_context has the mutex.
THEOREM TypeCorrect == Spec => []TypeOK
<1>1. IndInv => TypeOK
  BY DEF IndInv, Typed
<1> QED BY <1>1, Invariance, PTL

\* When the mutex is free, an attribute is what the last assignment to take
\* the mutex amounts to; an assignment has raised exactly if it stopped short,
\* and has hidden an exception exactly if it stored NULL for what has no UTF-8
\* form: whatever other threads assign, read and run in between.
THEOREM WholeAssignments == Spec => []AssignmentsAreWhole
<1>1. IndInv => AssignmentsAreWhole
  BY DEF IndInv, CallInv, AssignmentsAreWhole
<1> QED BY <1>1, Invariance, PTL

\* A getter returns, and an operation runs with, what an assignment amounts
\* to, and never part of a list.
THEOREM WholeReads == Spec => []ReadsAreWhole
<1>1. IndInv => ReadsAreWhole
  BY DEF IndInv, AccessInv, ReadsAreWhole
<1> QED BY <1>1, Invariance, PTL
=============================================================================
