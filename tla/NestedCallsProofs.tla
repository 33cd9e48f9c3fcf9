------------------------- MODULE NestedCallsProofs -------------------------
(***************************************************************************)
(* Proofs about NestedCalls, for any threads and contexts, any depth of    *)
(* nesting, and whatever contexts the callbacks of a context use; that     *)
(* nobody waits in a circle holds if they use contexts in one direction.   *)
(***************************************************************************)
EXTENDS NestedCalls, SequenceTheorems, WellFoundedInduction, TLAPS

Holding   == {"op", "callback", "access", "finalizer"}
Acquiring == {"op_acquire", "access_acquire"}

\* The calls thread t is inside, outermost first.
Depths(t) == 1 .. Len(stack[t])

Typed == TypeOK /\ stack \in [Threads -> Seq(Frame)]

\* A call that has taken the mutex of its context still has it; its thread
\* state is saved in the context if it is an operation, and only then.
HeldInv ==
    \A t \in Threads : \A i \in Depths(t) :
        LET f == stack[t][i] IN
        f.at \in Holding =>
            /\ mutex[f.ctx] = t
            /\ tstate[f.ctx] = IF f.at \in {"op", "callback"} THEN t ELSE NULL

\* A free context has no thread state in it.
FreeInv == \A c \in Contexts : mutex[c] = NULL => tstate[c] = NULL

\* A thread is not twice in calls that have the mutex of one context.
OnceInv ==
    \A t \in Threads : \A i, j \in Depths(t) :
        /\ stack[t][i].at \in Holding /\ stack[t][j].at \in Holding
        /\ stack[t][i].ctx = stack[t][j].ctx
        => i = j

\* A mutex that is taken is that of a call which will give it back.
OwnedInv ==
    \A c \in Contexts : mutex[c] # NULL =>
        \E i \in Depths(mutex[c]) : /\ stack[mutex[c]][i].ctx = c
                                    /\ stack[mutex[c]][i].at \in Holding

LockInv == HeldInv /\ FreeInv /\ OnceInv /\ OwnedInv
IndInv  == Typed /\ LockInv

\* The contexts of nested calls come in the order of rank.
RankInv(rank) ==
    \A t \in Threads : \A i, j \in Depths(t) :
        i < j => rank[stack[t][j].ctx] < rank[stack[t][i].ctx]

-----------------------------------------------------------------------------
(* What the steps do to the stack of a thread.                             *)

\* A call is added to it.
LEMMA PushEffect ==
    ASSUME Typed, NEW t \in Threads, NEW f \in Frame,
           stack' = [stack EXCEPT ![t] = Append(@, f)]
    PROVE  /\ stack' \in [Threads -> Seq(Frame)]
           /\ \A u \in Threads \ {t} : stack'[u] = stack[u]
           /\ Len(stack'[t]) = Len(stack[t]) + 1
           /\ \A i \in Depths(t) : stack'[t][i] = stack[t][i]
           /\ stack'[t][Len(stack[t]) + 1] = f
<1>1. stack[t] \in Seq(Frame) /\ stack'[t] = Append(stack[t], f)
  BY DEF Typed
<1> QED BY <1>1, AppendProperties DEF Typed, Depths

\* The innermost call moves on.
LEMMA MoveEffect ==
    ASSUME Typed, NEW t \in Threads, ~ Idle(t),
           NEW stage \in OperationStage \cup AccessStage, MoveTo(t, stage)
    PROVE  /\ stack' \in [Threads -> Seq(Frame)]
           /\ \A u \in Threads \ {t} : stack'[u] = stack[u]
           /\ Len(stack[t]) \in Depths(t)
           /\ Len(stack'[t]) = Len(stack[t])
           /\ \A i \in Depths(t) \ {Len(stack[t])} : stack'[t][i] = stack[t][i]
           /\ stack'[t][Len(stack[t])] = [ctx |-> Top(t).ctx, at |-> stage]
<1> DEFINE s == stack[t]
           n == Len(s)
           f == [ctx |-> Top(t).ctx, at |-> stage]
<1>1. s \in Seq(Frame) /\ s # <<>>
  BY DEF Typed, Idle
<1>2. n \in Nat \ {0} /\ n \in 1 .. Len(s)
  BY <1>1, EmptySeq
<1>3. s[n] \in Frame /\ s[n] = Top(t)
  BY <1>1, <1>2, ElementOfSeq DEF Top, Last
<1>4. f \in Frame /\ [s[n] EXCEPT !.at = stage] = f
  BY <1>3 DEF Frame
<1>5. stack' = [stack EXCEPT ![t] = [s EXCEPT ![n] = f]]
  BY <1>4 DEF MoveTo, Typed
<1>6. /\ [s EXCEPT ![n] = f] \in Seq(Frame)
      /\ Len([s EXCEPT ![n] = f]) = n
      /\ \A i \in 1 .. n : [s EXCEPT ![n] = f][i] = IF i = n THEN f ELSE s[i]
  BY <1>1, <1>2, <1>4, ExceptSeq
<1>7. stack'[t] = [s EXCEPT ![n] = f]
  BY <1>5 DEF Typed
<1>8. /\ stack' \in [Threads -> Seq(Frame)]
      /\ \A u \in Threads \ {t} : stack'[u] = stack[u]
  BY <1>5, <1>6 DEF Typed
<1> QED BY <1>2, <1>6, <1>7, <1>8 DEF Depths

\* It returns.
LEMMA PopEffect ==
    ASSUME Typed, NEW t \in Threads, ~ Idle(t), Pop(t)
    PROVE  /\ stack' \in [Threads -> Seq(Frame)]
           /\ \A u \in Threads \ {t} : stack'[u] = stack[u]
           /\ Len(stack[t]) \in Depths(t)
           /\ Len(stack'[t]) = Len(stack[t]) - 1
           /\ \A i \in Depths(t) \ {Len(stack[t])} : stack'[t][i] = stack[t][i]
<1> DEFINE s == stack[t]
           n == Len(s)
<1>1. s \in Seq(Frame) /\ s # <<>>
  BY DEF Typed, Idle
<1>2. n \in Nat \ {0} /\ n \in 1 .. Len(s)
  BY <1>1, EmptySeq
<1>3. stack' = [stack EXCEPT ![t] = SubSeq(s, 1, n - 1)]
  BY DEF Pop, Front
<1>4. \A i \in 1 .. n - 1 : s[i] \in Frame
  BY <1>1, <1>2, ElementOfSeq
<1>5. /\ SubSeq(s, 1, n - 1) \in Seq(Frame)
      /\ Len(SubSeq(s, 1, n - 1)) = IF 1 <= n - 1 THEN (n - 1) - 1 + 1 ELSE 0
      /\ \A i \in 1 .. (n - 1) - 1 + 1 :
             SubSeq(s, 1, n - 1)[i] = s[1 + i - 1]
  BY <1>2, <1>4, SubSeqProperties
<1>6. stack'[t] = SubSeq(s, 1, n - 1)
  BY <1>3 DEF Typed
<1>7. /\ stack' \in [Threads -> Seq(Frame)]
      /\ \A u \in Threads \ {t} : stack'[u] = stack[u]
  BY <1>3, <1>5 DEF Typed
<1>8. \A i \in 1 .. n - 1 : stack'[t][i] = s[i]
  BY <1>2, <1>5, <1>6
<1> QED BY <1>2, <1>5, <1>6, <1>7, <1>8 DEF Depths

\* Every call is of a context.
LEMMA FrameTyped ==
    ASSUME Typed, NEW t \in Threads, NEW i \in Depths(t)
    PROVE  stack[t][i] \in Frame /\ stack[t][i].ctx \in Contexts
<1>1. stack[t][i] \in Frame
  BY ElementOfSeq DEF Typed, Depths
<1> QED BY <1>1 DEF Frame

\* The innermost call is a frame of the stack.
LEMMA TopFrame ==
    ASSUME Typed, NEW t \in Threads, ~ Idle(t)
    PROVE  /\ Len(stack[t]) \in Depths(t)
           /\ Top(t) = stack[t][Len(stack[t])]
           /\ Top(t) \in Frame
           /\ Top(t).ctx \in Contexts
<1>1. stack[t] \in Seq(Frame) /\ stack[t] # <<>>
  BY DEF Typed, Idle
<1>2. Len(stack[t]) \in 1 .. Len(stack[t])
  BY <1>1, EmptySeq
<1>3. stack[t][Len(stack[t])] \in Frame
  BY <1>1, <1>2, ElementOfSeq
<1> QED BY <1>2, <1>3 DEF Top, Last, Depths, Frame

-----------------------------------------------------------------------------
\* Before the first step no thread is in a method, and no context is locked.
LEMMA InitInv == Init => IndInv
<1> SUFFICES ASSUME Init PROVE IndInv
  OBVIOUS
<1> USE DepthAssumption, NullAssumption DEF Init
<1>1. <<>> \in Seq(Frame) /\ Len(<<>>) = 0
  BY EmptySeq
<1>2. Typed
  BY <1>1 DEF Typed, TypeOK
<1>3. LockInv
  BY <1>1 DEF LockInv, HeldInv, FreeInv, OnceInv, OwnedInv, Depths
<1> QED BY <1>2, <1>3 DEF IndInv

\* Every step keeps the types: no stack outgrows MaxDepth, and only Python
\* code calls methods.
LEMMA TypeStep == Typed /\ [Next]_vars => Typed'
<1> SUFFICES ASSUME Typed, [Next]_vars PROVE Typed'
  OBVIOUS
<1> USE MayAssumption, DepthAssumption
<1>1. ASSUME NEW t \in Threads, Call(t) PROVE Typed'
  <2>1. PICK c \in Callable(t), stage \in Acquiring :
            stack' = [stack EXCEPT ![t] = Append(@, [ctx |-> c, at |-> stage])]
    BY <1>1 DEF Call, Acquiring
  <2>2. c \in Contexts
    BY <2>1, TopFrame DEF Callable
  <2>3. [ctx |-> c, at |-> stage] \in Frame
    BY <2>2 DEF Frame, Acquiring, OperationStage, AccessStage
  <2>4. /\ stack' \in [Threads -> Seq(Frame)]
        /\ \A u \in Threads \ {t} : stack'[u] = stack[u]
        /\ Len(stack'[t]) = Len(stack[t]) + 1
        /\ \A i \in Depths(t) : stack'[t][i] = stack[t][i]
    BY <2>1, <2>3, PushEffect
  <2>5. Len(stack[t]) \in Nat /\ Len(stack[t]) < MaxDepth
    BY <1>1, EmptySeq DEF Call, Typed, TypeOK
  <2>6. ASSUME NEW i \in 1 .. Len(stack'[t]) - 1
        PROVE  stack'[t][i].at \in {"callback", "finalizer"}
    <3>1. CASE i = Len(stack[t])
      <4>1. ~ Idle(t)
        BY <2>5, <3>1, EmptySeq DEF Idle
      <4>2. Top(t).at \in {"callback", "finalizer"}
        BY <1>1, <4>1 DEF Call, InPython, At
      <4> QED BY <2>4, <3>1, <4>1, <4>2, TopFrame
    <3>2. CASE i # Len(stack[t])
      <4>1. i \in 1 .. Len(stack[t]) - 1 /\ i \in Depths(t)
        BY <2>4, <2>5, <3>2 DEF Depths
      <4> QED BY <2>4, <4>1 DEF Typed, TypeOK
    <3> QED BY <3>1, <3>2
  <2> QED BY <1>1, <2>4, <2>5, <2>6 DEF Typed, TypeOK, Call
<1>2. ASSUME NEW t \in Threads, ~ Idle(t),
             NEW stage \in OperationStage \cup AccessStage, MoveTo(t, stage),
             mutex' \in [Contexts -> Threads \cup {NULL}],
             tstate' \in [Contexts -> Threads \cup {NULL}]
      PROVE  Typed'
  <2>1. /\ stack' \in [Threads -> Seq(Frame)]
        /\ \A u \in Threads \ {t} : stack'[u] = stack[u]
        /\ Len(stack'[t]) = Len(stack[t])
        /\ \A i \in Depths(t) \ {Len(stack[t])} : stack'[t][i] = stack[t][i]
    BY <1>2, MoveEffect
  <2>2. ASSUME NEW i \in 1 .. Len(stack'[t]) - 1
        PROVE  stack'[t][i].at \in {"callback", "finalizer"}
    <3>1. Len(stack[t]) \in Nat
      BY EmptySeq DEF Typed
    <3>2. i \in Depths(t) \ {Len(stack[t])} /\ i \in 1 .. Len(stack[t]) - 1
      BY <2>1, <3>1 DEF Depths
    <3>3. stack'[t][i] = stack[t][i]
      BY <2>1, <3>2
    <3> QED BY <3>2, <3>3 DEF Typed, TypeOK
  <2> QED BY <1>2, <2>1, <2>2 DEF Typed, TypeOK
<1>3. ASSUME NEW t \in Threads, ~ Idle(t), Pop(t),
             mutex' \in [Contexts -> Threads \cup {NULL}],
             tstate' \in [Contexts -> Threads \cup {NULL}]
      PROVE  Typed'
  <2>1. /\ stack' \in [Threads -> Seq(Frame)]
        /\ \A u \in Threads \ {t} : stack'[u] = stack[u]
        /\ Len(stack'[t]) = Len(stack[t]) - 1
        /\ \A i \in Depths(t) \ {Len(stack[t])} : stack'[t][i] = stack[t][i]
    BY <1>3, PopEffect
  <2>2. Len(stack[t]) \in Nat /\ Len(stack[t]) <= MaxDepth
    BY EmptySeq DEF Typed, TypeOK
  <2>3. ASSUME NEW i \in 1 .. Len(stack'[t]) - 1
        PROVE  stack'[t][i].at \in {"callback", "finalizer"}
    <3>1. i \in Depths(t) \ {Len(stack[t])} /\ i \in 1 .. Len(stack[t]) - 1
      BY <2>1, <2>2 DEF Depths
    <3>2. stack'[t][i] = stack[t][i]
      BY <2>1, <3>1
    <3> QED BY <3>1, <3>2 DEF Typed, TypeOK
  <2>4. Len(stack'[t]) <= MaxDepth
    BY <2>1, <2>2
  <2> QED BY <1>3, <2>1, <2>3, <2>4 DEF Typed, TypeOK
<1>4. ASSUME NEW t \in Threads, Begin(t) PROVE Typed'
  <2>1. ~ Idle(t)
    BY <1>4 DEF Begin, BeginOperation, BeginAccess, At
  <2>2. MoveTo(t, "op") \/ MoveTo(t, "access")
    BY <1>4 DEF Begin, BeginOperation, BeginAccess
  <2>3. /\ mutex' \in [Contexts -> Threads \cup {NULL}]
        /\ tstate' \in [Contexts -> Threads \cup {NULL}]
    <3>1. CASE BeginOperation(t)
      BY <3>1 DEF BeginOperation, Typed, TypeOK
    <3>2. CASE BeginAccess(t)
      BY <3>2 DEF BeginAccess, Typed, TypeOK
    <3> QED BY <1>4, <3>1, <3>2 DEF Begin
  <2> QED BY <1>2, <2>1, <2>2, <2>3 DEF OperationStage, AccessStage
<1>5. ASSUME NEW t \in Threads,
             EnterCallback(t) \/ LeaveCallback(t) \/ EnterFinalizer(t)
      PROVE  Typed'
  <2>1. ~ Idle(t)
    BY <1>5 DEF EnterCallback, LeaveCallback, EnterFinalizer, At
  <2>2. MoveTo(t, "op") \/ MoveTo(t, "callback") \/ MoveTo(t, "finalizer")
    BY <1>5 DEF EnterCallback, LeaveCallback, EnterFinalizer
  <2>3. /\ mutex' \in [Contexts -> Threads \cup {NULL}]
        /\ tstate' \in [Contexts -> Threads \cup {NULL}]
    BY <1>5 DEF EnterCallback, LeaveCallback, EnterFinalizer, Typed, TypeOK
  <2> QED BY <1>2, <2>1, <2>2, <2>3 DEF OperationStage, AccessStage
<1>6. ASSUME NEW t \in Threads, EndOperation(t) \/ EndAccess(t) PROVE Typed'
  BY <1>3, <1>6 DEF EndOperation, EndAccess, At, Typed, TypeOK
<1>7. CASE UNCHANGED vars
  BY <1>7 DEF vars, Typed, TypeOK
<1> QED BY <1>1, <1>4, <1>5, <1>6, <1>7 DEF Next

-----------------------------------------------------------------------------
(* The mutexes.  A step does one of four things with them.                 *)

\* A call that does not have the mutex yet is added to a stack.
LEMMA CallKeeps ==
    ASSUME IndInv, NEW t \in Threads, Call(t)
    PROVE  LockInv'
<1>1. PICK c \in Callable(t), stage \in Acquiring :
          stack' = [stack EXCEPT ![t] = Append(@, [ctx |-> c, at |-> stage])]
  BY DEF Call, Acquiring
<1>2. c \in Contexts
  BY <1>1, TopFrame, MayAssumption DEF Callable, IndInv
<1> DEFINE f == [ctx |-> c, at |-> stage]
           n == Len(stack[t]) + 1
<1>3. f \in Frame /\ f.at \notin Holding
  BY <1>2 DEF Frame, Acquiring, OperationStage, AccessStage, Holding
<1> HIDE DEF f
<1>4. /\ \A u \in Threads \ {t} : stack'[u] = stack[u]
      /\ Len(stack'[t]) = n
      /\ \A i \in Depths(t) : stack'[t][i] = stack[t][i]
      /\ stack'[t][n] = f
  BY <1>1, <1>3, PushEffect DEF IndInv, f
<1>5. Len(stack[t]) \in Nat
  BY EmptySeq DEF IndInv, Typed
<1>6. mutex' = mutex /\ tstate' = tstate
  BY DEF Call
<1>7. \A u \in Threads : \A i \in Depths(u)' :
          stack'[u][i].at \in Holding =>
              i \in Depths(u) /\ stack'[u][i] = stack[u][i]
  BY <1>3, <1>4, <1>5 DEF Depths
<1>8. \A u \in Threads : \A i \in Depths(u) :
          i \in Depths(u)' /\ stack'[u][i] = stack[u][i]
  BY <1>4, <1>5 DEF Depths
<1>9. HeldInv' /\ OnceInv'
  BY <1>6, <1>7 DEF IndInv, LockInv, HeldInv, OnceInv
<1>10. FreeInv'
  BY <1>6 DEF IndInv, LockInv, FreeInv
<1>11. OwnedInv'
  BY <1>6, <1>8 DEF IndInv, LockInv, OwnedInv, Typed, TypeOK
<1> QED BY <1>9, <1>10, <1>11 DEF LockInv
\* A call takes a mutex that is free.
LEMMA BeginKeeps ==
    ASSUME IndInv, NEW t \in Threads, Begin(t)
    PROVE  LockInv'
<1> DEFINE n == Len(stack[t])
<1>1. ~ Idle(t) /\ Top(t).at \in Acquiring
  BY DEF Begin, BeginOperation, BeginAccess, At, Acquiring
<1>2. n \in Depths(t) /\ Top(t) = stack[t][n] /\ Top(t) \in Frame
  BY <1>1, TopFrame DEF IndInv
<1>3. PICK c \in Contexts : c = Top(t).ctx
  BY <1>2 DEF Frame
<1>4. PICK stage \in {"op", "access"} :
          /\ MoveTo(t, stage) /\ mutex[c] = NULL
          /\ mutex' = [mutex EXCEPT ![c] = t]
          /\ tstate' = IF stage = "op" THEN [tstate EXCEPT ![c] = t] ELSE tstate
  BY <1>3 DEF Begin, BeginOperation, BeginAccess
<1>5. /\ \A u \in Threads \ {t} : stack'[u] = stack[u]
      /\ Len(stack'[t]) = n
      /\ \A i \in Depths(t) \ {n} : stack'[t][i] = stack[t][i]
      /\ stack'[t][n] = [ctx |-> c, at |-> stage]
  BY <1>1, <1>3, <1>4, MoveEffect DEF IndInv, OperationStage, AccessStage
<1>6. \A u \in Threads : Depths(u)' = Depths(u)
  BY <1>5 DEF Depths
<1>7. \A u \in Threads : \A i \in Depths(u) :
          stack[u][i].at \in Holding =>
              stack[u][i].ctx # c /\ ~ (u = t /\ i = n)
  BY <1>1, <1>2, <1>4, NullAssumption
  DEF IndInv, LockInv, HeldInv, Acquiring, Holding
<1>8. tstate[c] = NULL
  BY <1>4 DEF IndInv, LockInv, FreeInv
<1> USE DEF IndInv, LockInv, Typed, TypeOK
<1>9. HeldInv'
  <2> SUFFICES ASSUME NEW u \in Threads, NEW i \in Depths(u),
                      stack'[u][i].at \in Holding
               PROVE  /\ mutex'[stack'[u][i].ctx] = u
                      /\ tstate'[stack'[u][i].ctx] =
                             IF stack'[u][i].at \in {"op", "callback"} THEN u
                             ELSE NULL
    BY <1>6 DEF HeldInv
  <2>1. CASE u = t /\ i = n
    BY <1>4, <1>5, <1>8, <2>1
  <2>2. CASE ~ (u = t /\ i = n)
    <3>1. stack'[u][i] = stack[u][i] /\ stack[u][i].ctx # c
      BY <1>5, <1>7, <2>2
    <3> QED BY <1>4, <3>1 DEF HeldInv
  <2> QED BY <2>1, <2>2
<1>10. FreeInv'
  BY <1>4, NullAssumption DEF FreeInv
<1>11. OnceInv'
  <2> SUFFICES ASSUME NEW u \in Threads, NEW i \in Depths(u), NEW j \in Depths(u),
                      stack'[u][i].at \in Holding, stack'[u][j].at \in Holding,
                      stack'[u][i].ctx = stack'[u][j].ctx
               PROVE  i = j
    BY <1>6 DEF OnceInv
  <2>1. \A k \in Depths(u) : ~ (u = t /\ k = n) => stack'[u][k] = stack[u][k]
    BY <1>5
  <2>2. CASE u = t /\ (i = n \/ j = n)
    BY <1>5, <1>7, <2>1, <2>2
  <2>3. CASE ~ (u = t /\ (i = n \/ j = n))
    BY <2>1, <2>3 DEF OnceInv
  <2> QED BY <2>2, <2>3
<1>12. OwnedInv'
  <2> SUFFICES ASSUME NEW d \in Contexts, mutex'[d] # NULL
               PROVE  \E i \in Depths(mutex'[d]) :
                          /\ stack'[mutex'[d]][i].ctx = d
                          /\ stack'[mutex'[d]][i].at \in Holding
    <3>1. \A d \in Contexts : mutex'[d] \in Threads \cup {NULL}
      BY <1>4
    <3> QED BY <1>6, <3>1 DEF OwnedInv
  <2>1. CASE d = c
    <3>1. mutex'[d] = t
      BY <1>4, <2>1
    <3> QED BY <1>2, <1>5, <2>1, <3>1 DEF Holding
  <2>2. CASE d # c
    <3>1. mutex'[d] = mutex[d] /\ mutex[d] \in Threads
      BY <1>4, <2>2
    <3>2. PICK i \in Depths(mutex[d]) : /\ stack[mutex[d]][i].ctx = d
                                        /\ stack[mutex[d]][i].at \in Holding
      BY <3>1 DEF OwnedInv
    <3>3. ~ (mutex[d] = t /\ i = n)
      BY <1>7, <3>1, <3>2
    <3>4. stack'[mutex[d]][i] = stack[mutex[d]][i]
      BY <1>5, <3>1, <3>2, <3>3
    <3> QED BY <3>1, <3>2, <3>4
  <2> QED BY <2>1, <2>2
<1> QED BY <1>9, <1>10, <1>11, <1>12
\* A call that has the mutex goes on with it.
LEMMA HoldKeeps ==
    ASSUME IndInv, NEW t \in Threads,
           EnterCallback(t) \/ LeaveCallback(t) \/ EnterFinalizer(t)
    PROVE  LockInv'
<1> DEFINE n == Len(stack[t])
<1>1. ~ Idle(t)
  BY DEF EnterCallback, LeaveCallback, EnterFinalizer, At
<1>2. n \in Depths(t) /\ Top(t) = stack[t][n] /\ Top(t) \in Frame
  BY <1>1, TopFrame DEF IndInv
<1>3. PICK c \in Contexts : c = Top(t).ctx
  BY <1>2 DEF Frame
<1>4. PICK stage \in Holding :
          /\ MoveTo(t, stage)
          /\ Top(t).at \in Holding
          /\ stage \in {"op", "callback"} <=> Top(t).at \in {"op", "callback"}
    <2>1. CASE EnterCallback(t)
      BY <2>1 DEF EnterCallback, At, Holding
    <2>2. CASE LeaveCallback(t)
      BY <2>2 DEF LeaveCallback, At, Holding
    <2>3. CASE EnterFinalizer(t)
      BY <2>3 DEF EnterFinalizer, At, Holding
    <2> QED BY <2>1, <2>2, <2>3
<1>5. /\ \A u \in Threads \ {t} : stack'[u] = stack[u]
      /\ Len(stack'[t]) = n
      /\ \A i \in Depths(t) \ {n} : stack'[t][i] = stack[t][i]
      /\ stack'[t][n] = [ctx |-> c, at |-> stage]
  BY <1>1, <1>3, <1>4, MoveEffect
  DEF IndInv, OperationStage, AccessStage, Holding
<1>6. \A u \in Threads : Depths(u)' = Depths(u)
  BY <1>5 DEF Depths
<1>7. \A u \in Threads : \A i \in Depths(u) :
          /\ stack'[u][i].ctx = stack[u][i].ctx
          /\ stack'[u][i].at \in Holding <=> stack[u][i].at \in Holding
          /\ stack'[u][i].at \in {"op", "callback"}
                 <=> stack[u][i].at \in {"op", "callback"}
  BY <1>2, <1>3, <1>4, <1>5
<1>8. mutex' = mutex /\ tstate' = tstate
  <2>1. mutex' = mutex
    BY DEF EnterCallback, LeaveCallback, EnterFinalizer
  <2>2. CASE LeaveCallback(t)
    <3>1. Top(t).at \in {"op", "callback"}
      BY <2>2 DEF LeaveCallback, At
    <3>2. tstate[c] = t
      BY <1>2, <1>3, <3>1 DEF IndInv, LockInv, HeldInv, Holding
    <3>3. tstate' = [tstate EXCEPT ![c] = t]
      BY <1>3, <2>2 DEF LeaveCallback
    <3> QED BY <2>1, <3>2, <3>3 DEF IndInv, Typed, TypeOK
  <2>3. CASE EnterCallback(t) \/ EnterFinalizer(t)
    BY <2>1, <2>3 DEF EnterCallback, EnterFinalizer
  <2> QED BY <2>2, <2>3
<1> USE DEF IndInv, LockInv
<1>9. HeldInv'
  <2> SUFFICES ASSUME NEW u \in Threads, NEW i \in Depths(u),
                      stack'[u][i].at \in Holding
               PROVE  /\ mutex'[stack'[u][i].ctx] = u
                      /\ tstate'[stack'[u][i].ctx] =
                             IF stack'[u][i].at \in {"op", "callback"} THEN u
                             ELSE NULL
    BY <1>6 DEF HeldInv
  <2> QED BY <1>7, <1>8 DEF HeldInv
<1>10. FreeInv'
  BY <1>8 DEF FreeInv
<1>11. OnceInv'
  BY <1>6, <1>7 DEF OnceInv
<1>12. OwnedInv'
  <2> SUFFICES ASSUME NEW d \in Contexts, mutex[d] # NULL
               PROVE  \E i \in Depths(mutex[d]) :
                          /\ stack'[mutex[d]][i].ctx = d
                          /\ stack'[mutex[d]][i].at \in Holding
    <3>1. \A d \in Contexts : mutex[d] \in Threads \cup {NULL}
      BY DEF Typed, TypeOK
    <3> QED BY <1>6, <1>8, <3>1 DEF OwnedInv
  <2>1. mutex[d] \in Threads
    BY DEF Typed, TypeOK
  <2>2. PICK i \in Depths(mutex[d]) : /\ stack[mutex[d]][i].ctx = d
                                      /\ stack[mutex[d]][i].at \in Holding
    BY Zenon DEF OwnedInv
  <2> QED BY <1>7, <2>1, <2>2
<1> QED BY <1>9, <1>10, <1>11, <1>12

\* A call returns and gives its mutex back.
LEMMA EndKeeps ==
    ASSUME IndInv, NEW t \in Threads, EndOperation(t) \/ EndAccess(t)
    PROVE  LockInv'
<1> DEFINE n == Len(stack[t])
<1>1. ~ Idle(t) /\ Pop(t) /\ Top(t).at \in Holding
  BY DEF EndOperation, EndAccess, At, Holding
<1>2. n \in Depths(t) /\ Top(t) = stack[t][n] /\ Top(t) \in Frame
  BY <1>1, TopFrame DEF IndInv
<1>3. PICK c \in Contexts : c = Top(t).ctx
  BY <1>2 DEF Frame
<1>4. /\ \A u \in Threads \ {t} : stack'[u] = stack[u]
      /\ Len(stack'[t]) = n - 1
      /\ \A i \in Depths(t) \ {n} : stack'[t][i] = stack[t][i]
  BY <1>1, PopEffect DEF IndInv
<1>5. n \in Nat
  BY EmptySeq DEF IndInv, Typed
<1>6. /\ \A u \in Threads \ {t} : Depths(u)' = Depths(u)
      /\ Depths(t)' = Depths(t) \ {n}
  BY <1>4, <1>5 DEF Depths
<1> USE DEF IndInv, LockInv, Typed, TypeOK
<1>7. /\ mutex' = [mutex EXCEPT ![c] = NULL]
      /\ mutex'[c] = NULL /\ tstate'[c] = NULL
      /\ \A d \in Contexts \ {c} :
             mutex'[d] = mutex[d] /\ tstate'[d] = tstate[d]
  <2>1. CASE EndOperation(t)
    BY <1>3, <2>1 DEF EndOperation
  <2>2. CASE EndAccess(t)
    <3>1. Top(t).at \in {"access", "finalizer"}
      BY <2>2 DEF EndAccess, At
    <3>2. tstate[c] = NULL
      BY <1>1, <1>2, <1>3, <3>1 DEF HeldInv
    <3> QED BY <1>3, <2>2, <3>2 DEF EndAccess
  <2> QED BY <2>1, <2>2
<1>8. \A u \in Threads : \A i \in Depths(u)' :
          /\ i \in Depths(u) /\ stack'[u][i] = stack[u][i]
          /\ stack[u][i].at \in Holding => stack[u][i].ctx # c
  <2> SUFFICES ASSUME NEW u \in Threads, NEW i \in Depths(u)'
               PROVE  /\ i \in Depths(u) /\ stack'[u][i] = stack[u][i]
                      /\ stack[u][i].at \in Holding => stack[u][i].ctx # c
    OBVIOUS
  <2>1. i \in Depths(u) /\ ~ (u = t /\ i = n) /\ stack'[u][i] = stack[u][i]
    BY <1>4, <1>6
  <2>2. mutex[c] = t
    BY <1>1, <1>2, <1>3 DEF HeldInv
  <2>3. CASE u = t
    BY <1>1, <1>2, <1>3, <2>1, <2>3 DEF OnceInv
  <2>4. CASE u # t
    BY <2>1, <2>2, <2>4 DEF HeldInv
  <2> QED BY <2>1, <2>3, <2>4
<1>9. HeldInv'
  <2> SUFFICES ASSUME NEW u \in Threads, NEW i \in Depths(u)',
                      stack'[u][i].at \in Holding
               PROVE  /\ mutex'[stack'[u][i].ctx] = u
                      /\ tstate'[stack'[u][i].ctx] =
                             IF stack'[u][i].at \in {"op", "callback"} THEN u
                             ELSE NULL
    BY DEF HeldInv
  <2>1. /\ stack'[u][i] = stack[u][i] /\ i \in Depths(u)
        /\ stack[u][i].ctx # c
    BY <1>8
  <2>2. stack[u][i].ctx \in Contexts
    BY <2>1, FrameTyped
  <2> QED BY <1>7, <2>1, <2>2 DEF HeldInv
<1>10. FreeInv'
  BY <1>7 DEF FreeInv
<1>11. OnceInv'
  BY <1>8 DEF OnceInv
<1>12. OwnedInv'
  <2> SUFFICES ASSUME NEW d \in Contexts, NEW u \in Threads, mutex'[d] = u,
                      u # NULL
               PROVE  \E i \in Depths(u)' : /\ stack'[u][i].ctx = d
                                            /\ stack'[u][i].at \in Holding
    <3>1. \A d \in Contexts : mutex'[d] \in Threads \cup {NULL}
      BY <1>7
    <3> QED BY <3>1 DEF OwnedInv
  <2>1. d # c /\ mutex[d] = u
    BY <1>7
  <2>2. PICK i \in Depths(u) : /\ stack[u][i].ctx = d
                               /\ stack[u][i].at \in Holding
    <3>1. mutex[d] # NULL
      BY <2>1
    <3>2. \E i \in Depths(mutex[d]) : /\ stack[mutex[d]][i].ctx = d
                                      /\ stack[mutex[d]][i].at \in Holding
      BY <3>1, Zenon DEF OwnedInv
    <3> QED BY <2>1, <3>2, Zenon
  <2>3. ~ (u = t /\ i = n)
    BY <1>2, <1>3, <2>1, <2>2
  <2>4. i \in Depths(u)' /\ stack'[u][i] = stack[u][i]
    BY <1>4, <1>6, <2>3
  <2> QED BY <2>2, <2>4
<1> QED BY <1>9, <1>10, <1>11, <1>12

-----------------------------------------------------------------------------
\* IndInv holds of every state that the program reaches.
LEMMA Invariance == Spec => []IndInv
<1>1. IndInv /\ [Next]_vars => IndInv'
  <2> SUFFICES ASSUME IndInv, [Next]_vars PROVE IndInv'
    OBVIOUS
  <2>1. Typed'
    BY TypeStep DEF IndInv
  <2>2. CASE UNCHANGED vars
    BY <2>2 DEF vars, IndInv, Typed, TypeOK, LockInv, HeldInv, FreeInv,
                OnceInv, OwnedInv, Depths
  <2>3. CASE Next
    BY <2>1, <2>3, CallKeeps, BeginKeeps, HoldKeeps, EndKeeps DEF Next, IndInv
  <2> QED BY <2>2, <2>3
<1> QED BY InitInv, <1>1, PTL DEF Spec

\* The variables have their types, and a call is only made by Python code:
\* by a callback or a finalizer of the call it is nested in.
THEOREM TypeCorrect == Spec => []TypeOK
<1>1. IndInv => TypeOK
  BY DEF IndInv, Typed
<1> QED BY <1>1, Invariance, PTL

\* The assertions of begin_allow_threads and of the callbacks hold at any
\* depth of nesting, whatever contexts the callbacks use: also where they
\* wait for each other for ever.
THEOREM NestedAssertions == Spec => []AssertionsHold
<1>1. IndInv => AssertionsHold
  <2> SUFFICES ASSUME IndInv, NEW t \in Threads, NEW i \in 1 .. MaxDepth,
                      i <= Len(stack[t])
               PROVE  /\ stack[t][i].at \in {"op", "callback"} =>
                             tstate[stack[t][i].ctx] = t
                      /\ stack[t][i].at = "op_acquire"
                         /\ mutex[stack[t][i].ctx] = NULL =>
                             tstate[stack[t][i].ctx] = NULL
    BY DEF AssertionsHold
  <2>1. i \in Depths(t) /\ stack[t] \in Seq(Frame)
    BY EmptySeq, DepthAssumption DEF Depths, IndInv, Typed
  <2>2. stack[t][i].ctx \in Contexts
    BY <2>1, FrameTyped DEF IndInv
  <2> QED BY <2>1, <2>2 DEF IndInv, LockInv, HeldInv, FreeInv, Holding
<1> QED BY <1>1, Invariance, PTL
-----------------------------------------------------------------------------
(* Contexts that are used in one direction.                                *)

\* Callbacks only use contexts of a lower rank than their own.
Ordering(rank) ==
    /\ rank \in [Contexts -> Nat]
    /\ \A c \in Contexts : \A d \in May[c] : rank[d] < rank[c]

\* The order of the contexts of nested calls is kept: a call is added below
\* the innermost one, and no call changes its context.
LEMMA RankStep ==
    ASSUME NEW rank, Ordering(rank), IndInv, RankInv(rank), [Next]_vars
    PROVE  RankInv(rank)'
<1> USE DEF RankInv
<1>1. ASSUME NEW t \in Threads, Call(t) PROVE RankInv(rank)'
  <2>1. PICK c \in Callable(t), stage \in Acquiring :
            stack' = [stack EXCEPT ![t] = Append(@, [ctx |-> c, at |-> stage])]
    BY <1>1 DEF Call, Acquiring
  <2>2. c \in Contexts
    BY <2>1, TopFrame, MayAssumption DEF Callable, IndInv
  <2>3. [ctx |-> c, at |-> stage] \in Frame
    BY <2>2 DEF Frame, Acquiring, OperationStage, AccessStage
  <2>4. /\ \A u \in Threads \ {t} : stack'[u] = stack[u]
        /\ Len(stack'[t]) = Len(stack[t]) + 1
        /\ \A i \in Depths(t) : stack'[t][i] = stack[t][i]
        /\ stack'[t][Len(stack[t]) + 1] = [ctx |-> c, at |-> stage]
    BY <2>1, <2>3, PushEffect DEF IndInv
  <2>5. Len(stack[t]) \in Nat
    BY EmptySeq DEF IndInv, Typed
  <2>6. ASSUME NEW i \in Depths(t) PROVE rank[c] < rank[stack[t][i].ctx]
    <3>1. ~ Idle(t)
      BY EmptySeq DEF Idle, Depths
    <3>2. c \in May[Top(t).ctx]
      BY <2>1, <3>1 DEF Callable
    <3>3. /\ Len(stack[t]) \in Depths(t) /\ Top(t) = stack[t][Len(stack[t])]
          /\ Top(t).ctx \in Contexts
      BY <3>1, TopFrame DEF IndInv
    <3>4. rank[c] < rank[Top(t).ctx]
      BY <3>2, <3>3 DEF Ordering
    <3>5. stack[t][i].ctx \in Contexts
      BY FrameTyped DEF IndInv
    <3>6. i = Len(stack[t]) \/ i < Len(stack[t])
      BY <2>5 DEF Depths
    <3>7. rank[Top(t).ctx] <= rank[stack[t][i].ctx]
      BY <3>3, <3>5, <3>6 DEF Ordering
    <3> QED BY <2>2, <3>3, <3>4, <3>5, <3>7 DEF Ordering
  <2>7. ASSUME NEW u \in Threads, NEW i \in Depths(u)', NEW j \in Depths(u)',
               i < j
        PROVE  rank[stack'[u][j].ctx] < rank[stack'[u][i].ctx]
    <3>1. CASE u # t
      BY <2>4, <2>7, <3>1 DEF Depths
    <3>2. CASE u = t /\ j = Len(stack[t]) + 1
      <4>1. i \in Depths(t)
        BY <2>4, <2>5, <2>7, <3>2 DEF Depths
      <4>2. stack'[u][j].ctx = c /\ stack'[u][i] = stack[t][i]
        BY <2>4, <3>2, <4>1
      <4> QED BY <2>6, <4>1, <4>2
    <3>3. CASE u = t /\ j # Len(stack[t]) + 1
      <4>1. i \in Depths(t) /\ j \in Depths(t)
        BY <2>4, <2>5, <2>7, <3>3 DEF Depths
      <4> QED BY <2>4, <2>7, <3>3, <4>1
    <3> QED BY <3>1, <3>2, <3>3
  <2> QED BY <2>7
<1>2. ASSUME \A u \in Threads : \A i \in Depths(u)' :
                 i \in Depths(u) /\ stack'[u][i].ctx = stack[u][i].ctx
      PROVE  RankInv(rank)'
  BY <1>2
<1>3. ASSUME NEW t \in Threads, ~ Idle(t),
             NEW stage \in OperationStage \cup AccessStage, MoveTo(t, stage)
      PROVE  RankInv(rank)'
  <2>1. /\ \A u \in Threads \ {t} : stack'[u] = stack[u]
        /\ Len(stack'[t]) = Len(stack[t])
        /\ \A i \in Depths(t) \ {Len(stack[t])} : stack'[t][i] = stack[t][i]
        /\ stack'[t][Len(stack[t])] = [ctx |-> Top(t).ctx, at |-> stage]
    BY <1>3, MoveEffect DEF IndInv
  <2>2. Top(t) = stack[t][Len(stack[t])]
    BY <1>3, TopFrame DEF IndInv
  <2> QED BY <1>2, <2>1, <2>2 DEF Depths
<1>4. ASSUME NEW t \in Threads, ~ Idle(t), Pop(t) PROVE RankInv(rank)'
  <2>1. /\ \A u \in Threads \ {t} : stack'[u] = stack[u]
        /\ Len(stack'[t]) = Len(stack[t]) - 1
        /\ \A i \in Depths(t) \ {Len(stack[t])} : stack'[t][i] = stack[t][i]
    BY <1>4, PopEffect DEF IndInv
  <2>2. Len(stack[t]) \in Nat
    BY EmptySeq DEF IndInv, Typed
  <2>3. Depths(t)' = Depths(t) \ {Len(stack[t])}
    BY <2>1, <2>2 DEF Depths
  <2>4. \A u \in Threads \ {t} : Depths(u)' = Depths(u)
    BY <2>1 DEF Depths
  <2> QED BY <1>2, <2>1, <2>3, <2>4
<1>5. ASSUME NEW t \in Threads,
             \/ Begin(t) \/ EnterCallback(t) \/ LeaveCallback(t)
             \/ EnterFinalizer(t) \/ EndOperation(t) \/ EndAccess(t)
      PROVE  RankInv(rank)'
  <2>1. ~ Idle(t)
    BY <1>5 DEF Begin, BeginOperation, BeginAccess, EnterCallback,
                LeaveCallback, EnterFinalizer, EndOperation, EndAccess, At
  <2>2. \/ Pop(t)
        \/ \E stage \in OperationStage \cup AccessStage : MoveTo(t, stage)
    BY <1>5 DEF Begin, BeginOperation, BeginAccess, EnterCallback,
                LeaveCallback, EnterFinalizer, EndOperation, EndAccess,
                OperationStage, AccessStage
  <2> QED BY <1>3, <1>4, <2>1, <2>2
<1>6. CASE UNCHANGED vars
  BY <1>6 DEF vars, Depths
<1> QED BY <1>1, <1>5, <1>6 DEF Next

\* Any non-empty set of natural numbers has a least one.
LEMMA Least ==
    ASSUME NEW T \in SUBSET Nat, T # {}
    PROVE  \E n \in T : \A m \in T : n <= m
<1> DEFINE R == OpToRel(<, Nat)
<1>1. \E n \in T : \A m \in T : ~ (<<m, n>> \in R)
  BY NatLessThanWellFounded, WFMin
<1>2. ASSUME NEW m \in T, NEW n \in T, m < n PROVE <<m, n>> \in R
  <2>1. <<m, n>> \in Nat \X Nat /\ <<m, n>>[1] = m /\ <<m, n>>[2] = n
    OBVIOUS
  <2> QED BY <1>2, <2>1, Zenon DEF OpToRel
<1>3. ASSUME NEW n \in T, NEW m \in T, ~ (m < n) PROVE n <= m
  BY <1>3
<1> QED BY <1>1, <1>2, <1>3

\* Of the threads of a set that all wait, take one that waits for the context
\* of the lowest rank.  Whoever has its mutex is waiting too, for a context
\* of a call nested in the one that has the mutex, and so of a lower rank.
LEMMA NoCircle ==
    ASSUME NEW rank, Ordering(rank), IndInv, RankInv(rank)
    PROVE  NoCircularWait
<1> SUFFICES ASSUME NEW S \in SUBSET Threads, S # {},
                    \A t \in S : \E u \in S : WaitsFor(t, u)
             PROVE  FALSE
  BY DEF NoCircularWait
<1>1. ASSUME NEW t \in S PROVE Top(t).ctx \in Contexts
  BY TopFrame DEF WaitsFor, At, IndInv
<1> DEFINE T == {rank[Top(t).ctx] : t \in S}
<1>2. T \in SUBSET Nat /\ T # {}
  BY <1>1 DEF Ordering
<1>3. PICK t \in S : \A u \in S : rank[Top(t).ctx] <= rank[Top(u).ctx]
  <2>1. PICK n \in T : \A m \in T : n <= m
    BY <1>2, Least
  <2> QED BY <2>1
<1>4. PICK u \in S : WaitsFor(t, u)
  OBVIOUS
<1>5. PICK c \in Contexts : c = Top(t).ctx
  BY <1>1
<1>6. PICK i \in Depths(u) : /\ stack[u][i].ctx = c
                             /\ stack[u][i].at \in Holding
  BY <1>4, <1>5, NullAssumption DEF WaitsFor, IndInv, LockInv, OwnedInv
<1>7. ~ Idle(u) /\ Top(u).at \in Acquiring
  BY DEF WaitsFor, At, Acquiring
<1>8. Len(stack[u]) \in Depths(u) /\ Top(u) = stack[u][Len(stack[u])]
  BY <1>7, TopFrame DEF IndInv
<1>9. i < Len(stack[u])
  BY <1>6, <1>7, <1>8 DEF Holding, Acquiring, Depths
<1>10. rank[Top(u).ctx] < rank[c]
  BY <1>6, <1>8, <1>9 DEF RankInv
<1> QED BY <1>1, <1>3, <1>5, <1>10 DEF Ordering

\* If callbacks use contexts in one direction only, no set of threads waits
\* in a circle for the mutexes of its contexts, at any depth of nesting.
THEOREM OrderedContextsDoNotDeadlock ==
    ASSUME NEW rank, Ordering(rank)
    PROVE  Spec => []NoCircularWait
<1>1. Init => RankInv(rank)
  BY EmptySeq DEF Init, RankInv, Depths
<1>2. IndInv /\ RankInv(rank) /\ [Next]_vars => RankInv(rank)'
  BY RankStep
<1>3. IndInv /\ RankInv(rank) => NoCircularWait
  BY NoCircle
<1> QED BY <1>1, <1>2, <1>3, Invariance, PTL DEF Spec
=============================================================================
