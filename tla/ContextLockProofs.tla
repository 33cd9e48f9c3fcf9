------------------------- MODULE ContextLockProofs -------------------------
(***************************************************************************)
(* Proofs about ContextLock, for every number of threads, contexts, slots  *)
(* and callables, on builds with and without a GIL.                        *)
(*                                                                         *)
(* IndInv is inductive.  One lemma shows for each of its conjuncts that    *)
(* every action keeps it; Invariance puts them together; the safety        *)
(* properties follow from IndInv.                                          *)
(*                                                                         *)
(* In the end, ContextLock implements ContextMonitor: its initial states   *)
(* map to initial states of the monitor, and each of its steps to a step   *)
(* of the monitor or to a stutter.                                         *)
(***************************************************************************)
EXTENDS ContextLock, TLAPS

\* Every step keeps the types; that PyEval_RestoreThread is given a thread,
\* not NULL, needs TstateConsistent.
LEMMA TypeStep == IndInv /\ [Next]_vars => TypeOK'
<1> SUFFICES ASSUME IndInv, [Next]_vars PROVE TypeOK'
  OBVIOUS
<1> USE UsesAssumption DEF IndInv, TypeOK, Location, Holding, InOperation,
        InAccess, PythonCode, Calls, Operations, Accesses, Goto, Return,
        Ask, request
<1>1. ASSUME NEW t \in Threads, Preempt(t) PROVE TypeOK'
  BY <1>1 DEF Preempt
<1>2. ASSUME NEW t \in Threads, Resume(t) PROVE TypeOK'
  BY <1>2 DEF Resume
<1>3. ASSUME NEW t \in Threads, CallOperation(t) PROVE TypeOK'
  BY <1>3 DEF CallOperation, Call
<1>4. ASSUME NEW t \in Threads, CallGetter(t) PROVE TypeOK'
  BY <1>4 DEF CallGetter, Call
<1>5. ASSUME NEW t \in Threads, CallSetter(t) PROVE TypeOK'
  BY <1>5 DEF CallSetter, Call
<1>6. ASSUME NEW t \in Threads, CallNext(t) PROVE TypeOK'
  BY <1>6 DEF CallNext, Call
<1>7. ASSUME NEW t \in Threads, Acquire(t) PROVE TypeOK'
  BY <1>7 DEF Acquire
<1>8. ASSUME NEW t \in Threads, Operate(t) PROVE TypeOK'
  <2>1. CASE BeginSet(t)
    BY <2>1 DEF BeginSet
  <2>2. CASE GpgmeStart(t)
    BY <2>2 DEF GpgmeStart
  <2>3. CASE GpgmeCallback(t)
    BY <2>3 DEF GpgmeCallback
  <2>4. CASE CallbackEnter(t)
    BY <2>4 DEF CallbackEnter, TstateConsistent, CallConsistent
  <2>5. CASE CallbackLeave(t)
    BY <2>5 DEF CallbackLeave
  <2>6. CASE GpgmeFinish(t)
    BY <2>6 DEF GpgmeFinish
  <2>7. CASE EndRestore(t)
    BY <2>7 DEF EndRestore, TstateConsistent
  <2>8. CASE EndClear(t)
    BY <2>8 DEF EndClear
  <2>9. CASE EndRelease(t)
    BY <2>9 DEF EndRelease
  <2>10. CASE ReadResult(t)
    BY <2>10 DEF ReadResult
  <2> QED BY <1>8, <2>1, <2>2, <2>3, <2>4, <2>5, <2>6, <2>7, <2>8, <2>9,
             <2>10 DEF Operate
<1>9. ASSUME NEW t \in Threads, Access(t) PROVE TypeOK'
  <2>1. CASE LockRestore(t)
    BY <2>1 DEF LockRestore, CallConsistent
  <2>2. CASE GetCallback(t)
    BY <2>2 DEF GetCallback, CallConsistent
  <2>3. CASE ClearCallback(t)
    BY <2>3 DEF ClearCallback, CallConsistent
  <2>4. CASE InstallCallback(t)
    BY <2>4 DEF InstallCallback, CallConsistent
  <2>5. CASE Unlock(t)
    BY <2>5 DEF Unlock
  <2> QED BY <1>9, <2>1, <2>2, <2>3, <2>4, <2>5 DEF Access
<1>10. ASSUME NEW t \in Threads, NextKey(t) PROVE TypeOK'
  BY <1>10 DEF NextKey
<1>11. ASSUME NEW t \in Threads, NextReturn(t) PROVE TypeOK'
  BY <1>11 DEF NextReturn
<1>12. CASE UNCHANGED vars
  BY <1>12 DEF vars, request
<1> QED BY <1>1, <1>2, <1>3, <1>4, <1>5, <1>6, <1>7, <1>8, <1>9, <1>10,
           <1>11, <1>12 DEF Next

\* Every step keeps a thread's location and its call in agreement.
LEMMA CallStep == IndInv /\ [Next]_vars => CallConsistent'
<1> SUFFICES ASSUME IndInv, [Next]_vars PROVE CallConsistent'
  OBVIOUS
<1> USE UsesAssumption, NullAssumption DEF IndInv, TypeOK, Location,
        Holding, InOperation, InAccess, PythonCode, Calls, Operations,
        Accesses, Goto, Return, Ask, request, CallConsistent
<1>1. ASSUME NEW t \in Threads, Preempt(t) PROVE CallConsistent'
  BY <1>1 DEF Preempt
<1>2. ASSUME NEW t \in Threads, Resume(t) PROVE CallConsistent'
  BY <1>2 DEF Resume
<1>3. ASSUME NEW t \in Threads, CallOperation(t) PROVE CallConsistent'
  BY <1>3 DEF CallOperation, Call
<1>4. ASSUME NEW t \in Threads, CallGetter(t) PROVE CallConsistent'
  BY <1>4 DEF CallGetter, Call
<1>5. ASSUME NEW t \in Threads, CallSetter(t) PROVE CallConsistent'
  BY <1>5 DEF CallSetter, Call
<1>6. ASSUME NEW t \in Threads, CallNext(t) PROVE CallConsistent'
  BY <1>6 DEF CallNext, Call
<1>7. ASSUME NEW t \in Threads, Acquire(t) PROVE CallConsistent'
  BY <1>7 DEF Acquire
<1>8. ASSUME NEW t \in Threads, Operate(t) PROVE CallConsistent'
  <2>1. CASE BeginSet(t)
    BY <2>1 DEF BeginSet
  <2>2. CASE GpgmeStart(t)
    BY <2>2 DEF GpgmeStart
  <2>3. CASE GpgmeCallback(t)
    BY <2>3 DEF GpgmeCallback
  <2>4. CASE CallbackEnter(t)
    BY <2>4 DEF CallbackEnter
  <2>5. CASE CallbackLeave(t)
    BY <2>5 DEF CallbackLeave
  <2>6. CASE GpgmeFinish(t)
    BY <2>6 DEF GpgmeFinish
  <2>7. CASE EndRestore(t)
    BY <2>7 DEF EndRestore
  <2>8. CASE EndClear(t)
    BY <2>8 DEF EndClear
  <2>9. CASE EndRelease(t)
    BY <2>9 DEF EndRelease
  <2>10. CASE ReadResult(t)
    BY <2>10 DEF ReadResult
  <2> QED BY <1>8, <2>1, <2>2, <2>3, <2>4, <2>5, <2>6, <2>7, <2>8, <2>9,
             <2>10 DEF Operate
<1>9. ASSUME NEW t \in Threads, Access(t) PROVE CallConsistent'
  <2>1. CASE LockRestore(t)
    BY <2>1 DEF LockRestore
  <2>2. CASE GetCallback(t)
    BY <2>2 DEF GetCallback
  <2>3. CASE ClearCallback(t)
    BY <2>3 DEF ClearCallback
  <2>4. CASE InstallCallback(t)
    BY <2>4 DEF InstallCallback
  <2>5. CASE Unlock(t)
    BY <2>5 DEF Unlock
  <2> QED BY <1>9, <2>1, <2>2, <2>3, <2>4, <2>5 DEF Access
<1>10. ASSUME NEW t \in Threads, NextKey(t) PROVE CallConsistent'
  BY <1>10 DEF NextKey
<1>11. ASSUME NEW t \in Threads, NextReturn(t) PROVE CallConsistent'
  BY <1>11 DEF NextReturn
<1>12. CASE UNCHANGED vars
  BY <1>12 DEF vars, request
<1> QED BY <1>1, <1>2, <1>3, <1>4, <1>5, <1>6, <1>7, <1>8, <1>9, <1>10,
           <1>11, <1>12 DEF Next

\* Every step keeps the mutex with the thread that is past Acquire.
LEMMA MutexStep == IndInv /\ [Next]_vars => MutexConsistent'
<1> SUFFICES ASSUME IndInv, [Next]_vars PROVE MutexConsistent'
  OBVIOUS
<1> USE UsesAssumption, NullAssumption DEF IndInv, TypeOK, Location,
        Holding, InOperation, InAccess, PythonCode, Calls, Operations,
        Accesses, Goto, Return, Ask, request, CallConsistent,
        MutexConsistent
<1>1. ASSUME NEW t \in Threads, Preempt(t) PROVE MutexConsistent'
  BY <1>1 DEF Preempt
<1>2. ASSUME NEW t \in Threads, Resume(t) PROVE MutexConsistent'
  BY <1>2 DEF Resume
<1>3. ASSUME NEW t \in Threads, CallOperation(t) PROVE MutexConsistent'
  BY <1>3 DEF CallOperation, Call
<1>4. ASSUME NEW t \in Threads, CallGetter(t) PROVE MutexConsistent'
  BY <1>4 DEF CallGetter, Call
<1>5. ASSUME NEW t \in Threads, CallSetter(t) PROVE MutexConsistent'
  BY <1>5 DEF CallSetter, Call
<1>6. ASSUME NEW t \in Threads, CallNext(t) PROVE MutexConsistent'
  BY <1>6 DEF CallNext, Call
<1>7. ASSUME NEW t \in Threads, Acquire(t) PROVE MutexConsistent'
  BY <1>7 DEF Acquire
<1>8. ASSUME NEW t \in Threads, Operate(t) PROVE MutexConsistent'
  <2>1. CASE BeginSet(t)
    BY <2>1 DEF BeginSet
  <2>2. CASE GpgmeStart(t)
    BY <2>2 DEF GpgmeStart
  <2>3. CASE GpgmeCallback(t)
    BY <2>3 DEF GpgmeCallback
  <2>4. CASE CallbackEnter(t)
    BY <2>4 DEF CallbackEnter
  <2>5. CASE CallbackLeave(t)
    BY <2>5 DEF CallbackLeave
  <2>6. CASE GpgmeFinish(t)
    BY <2>6 DEF GpgmeFinish
  <2>7. CASE EndRestore(t)
    BY <2>7 DEF EndRestore
  <2>8. CASE EndClear(t)
    BY <2>8 DEF EndClear
  <2>9. CASE EndRelease(t)
    BY <2>9 DEF EndRelease
  <2>10. CASE ReadResult(t)
    BY <2>10 DEF ReadResult
  <2> QED BY <1>8, <2>1, <2>2, <2>3, <2>4, <2>5, <2>6, <2>7, <2>8, <2>9,
             <2>10 DEF Operate
<1>9. ASSUME NEW t \in Threads, Access(t) PROVE MutexConsistent'
  <2>1. CASE LockRestore(t)
    BY <2>1 DEF LockRestore
  <2>2. CASE GetCallback(t)
    BY <2>2 DEF GetCallback
  <2>3. CASE ClearCallback(t)
    BY <2>3 DEF ClearCallback
  <2>4. CASE InstallCallback(t)
    BY <2>4 DEF InstallCallback
  <2>5. CASE Unlock(t)
    BY <2>5 DEF Unlock
  <2> QED BY <1>9, <2>1, <2>2, <2>3, <2>4, <2>5 DEF Access
<1>10. ASSUME NEW t \in Threads, NextKey(t) PROVE MutexConsistent'
  BY <1>10 DEF NextKey
<1>11. ASSUME NEW t \in Threads, NextReturn(t) PROVE MutexConsistent'
  BY <1>11 DEF NextReturn
<1>12. CASE UNCHANGED vars
  BY <1>12 DEF vars, request
<1> QED BY <1>1, <1>2, <1>3, <1>4, <1>5, <1>6, <1>7, <1>8, <1>9, <1>10,
           <1>11, <1>12 DEF Next

\* Every step keeps the saved thread state that of the thread in operation.
LEMMA TstateStep == IndInv /\ [Next]_vars => TstateConsistent'
<1> SUFFICES ASSUME IndInv, [Next]_vars PROVE TstateConsistent'
  OBVIOUS
<1> USE UsesAssumption, NullAssumption DEF IndInv, TypeOK, Location,
        Holding, InOperation, InAccess, PythonCode, Calls, Operations,
        Accesses, Goto, Return, Ask, request, CallConsistent,
        MutexConsistent, TstateConsistent
<1>1. ASSUME NEW t \in Threads, Preempt(t) PROVE TstateConsistent'
  BY <1>1 DEF Preempt
<1>2. ASSUME NEW t \in Threads, Resume(t) PROVE TstateConsistent'
  BY <1>2 DEF Resume
<1>3. ASSUME NEW t \in Threads, CallOperation(t) PROVE TstateConsistent'
  BY <1>3 DEF CallOperation, Call
<1>4. ASSUME NEW t \in Threads, CallGetter(t) PROVE TstateConsistent'
  BY <1>4 DEF CallGetter, Call
<1>5. ASSUME NEW t \in Threads, CallSetter(t) PROVE TstateConsistent'
  BY <1>5 DEF CallSetter, Call
<1>6. ASSUME NEW t \in Threads, CallNext(t) PROVE TstateConsistent'
  BY <1>6 DEF CallNext, Call
<1>7. ASSUME NEW t \in Threads, Acquire(t) PROVE TstateConsistent'
  BY <1>7 DEF Acquire
<1>8. ASSUME NEW t \in Threads, Operate(t) PROVE TstateConsistent'
  <2>1. CASE BeginSet(t)
    BY <2>1 DEF BeginSet
  <2>2. CASE GpgmeStart(t)
    BY <2>2 DEF GpgmeStart
  <2>3. CASE GpgmeCallback(t)
    BY <2>3 DEF GpgmeCallback
  <2>4. CASE CallbackEnter(t)
    BY <2>4 DEF CallbackEnter
  <2>5. CASE CallbackLeave(t)
    BY <2>5 DEF CallbackLeave
  <2>6. CASE GpgmeFinish(t)
    BY <2>6 DEF GpgmeFinish
  <2>7. CASE EndRestore(t)
    BY <2>7 DEF EndRestore
  <2>8. CASE EndClear(t)
    BY <2>8 DEF EndClear
  <2>9. CASE EndRelease(t)
    BY <2>9 DEF EndRelease
  <2>10. CASE ReadResult(t)
    BY <2>10 DEF ReadResult
  <2> QED BY <1>8, <2>1, <2>2, <2>3, <2>4, <2>5, <2>6, <2>7, <2>8, <2>9,
             <2>10 DEF Operate
<1>9. ASSUME NEW t \in Threads, Access(t) PROVE TstateConsistent'
  <2>1. CASE LockRestore(t)
    BY <2>1 DEF LockRestore
  <2>2. CASE GetCallback(t)
    BY <2>2 DEF GetCallback
  <2>3. CASE ClearCallback(t)
    BY <2>3 DEF ClearCallback
  <2>4. CASE InstallCallback(t)
    BY <2>4 DEF InstallCallback
  <2>5. CASE Unlock(t)
    BY <2>5 DEF Unlock
  <2> QED BY <1>9, <2>1, <2>2, <2>3, <2>4, <2>5 DEF Access
<1>10. ASSUME NEW t \in Threads, NextKey(t) PROVE TstateConsistent'
  BY <1>10 DEF NextKey
<1>11. ASSUME NEW t \in Threads, NextReturn(t) PROVE TstateConsistent'
  BY <1>11 DEF NextReturn
<1>12. CASE UNCHANGED vars
  BY <1>12 DEF vars, request
<1> QED BY <1>1, <1>2, <1>3, <1>4, <1>5, <1>6, <1>7, <1>8, <1>9, <1>10,
           <1>11, <1>12 DEF Next

\* Every step keeps threads attached exactly where the protocol wants them.
LEMMA AttachedStep == IndInv /\ [Next]_vars => AttachedConsistent'
<1> SUFFICES ASSUME IndInv, [Next]_vars PROVE AttachedConsistent'
  OBVIOUS
<1> USE UsesAssumption, NullAssumption DEF IndInv, TypeOK, Location,
        Holding, InOperation, InAccess, PythonCode, Calls, Operations,
        Accesses, Goto, Return, Ask, request, Detached, UsesPython,
        CallConsistent, TstateConsistent, AttachedConsistent
<1>1. ASSUME NEW t \in Threads, Preempt(t) PROVE AttachedConsistent'
  BY <1>1 DEF Preempt
<1>2. ASSUME NEW t \in Threads, Resume(t) PROVE AttachedConsistent'
  BY <1>2 DEF Resume
<1>3. ASSUME NEW t \in Threads, CallOperation(t) PROVE AttachedConsistent'
  BY <1>3 DEF CallOperation, Call
<1>4. ASSUME NEW t \in Threads, CallGetter(t) PROVE AttachedConsistent'
  BY <1>4 DEF CallGetter, Call
<1>5. ASSUME NEW t \in Threads, CallSetter(t) PROVE AttachedConsistent'
  BY <1>5 DEF CallSetter, Call
<1>6. ASSUME NEW t \in Threads, CallNext(t) PROVE AttachedConsistent'
  BY <1>6 DEF CallNext, Call
<1>7. ASSUME NEW t \in Threads, Acquire(t) PROVE AttachedConsistent'
  BY <1>7 DEF Acquire
<1>8. ASSUME NEW t \in Threads, Operate(t) PROVE AttachedConsistent'
  <2>1. CASE BeginSet(t)
    BY <2>1 DEF BeginSet
  <2>2. CASE GpgmeStart(t)
    BY <2>2 DEF GpgmeStart
  <2>3. CASE GpgmeCallback(t)
    BY <2>3 DEF GpgmeCallback
  <2>4. CASE CallbackEnter(t)
    BY <2>4 DEF CallbackEnter
  <2>5. CASE CallbackLeave(t)
    BY <2>5 DEF CallbackLeave
  <2>6. CASE GpgmeFinish(t)
    BY <2>6 DEF GpgmeFinish
  <2>7. CASE EndRestore(t)
    BY <2>7 DEF EndRestore
  <2>8. CASE EndClear(t)
    BY <2>8 DEF EndClear
  <2>9. CASE EndRelease(t)
    BY <2>9 DEF EndRelease
  <2>10. CASE ReadResult(t)
    BY <2>10 DEF ReadResult
  <2> QED BY <1>8, <2>1, <2>2, <2>3, <2>4, <2>5, <2>6, <2>7, <2>8, <2>9,
             <2>10 DEF Operate
<1>9. ASSUME NEW t \in Threads, Access(t) PROVE AttachedConsistent'
  <2>1. CASE LockRestore(t)
    BY <2>1 DEF LockRestore
  <2>2. CASE GetCallback(t)
    BY <2>2 DEF GetCallback
  <2>3. CASE ClearCallback(t)
    BY <2>3 DEF ClearCallback
  <2>4. CASE InstallCallback(t)
    BY <2>4 DEF InstallCallback
  <2>5. CASE Unlock(t)
    BY <2>5 DEF Unlock
  <2> QED BY <1>9, <2>1, <2>2, <2>3, <2>4, <2>5 DEF Access
<1>10. ASSUME NEW t \in Threads, NextKey(t) PROVE AttachedConsistent'
  BY <1>10 DEF NextKey
<1>11. ASSUME NEW t \in Threads, NextReturn(t) PROVE AttachedConsistent'
  BY <1>11 DEF NextReturn
<1>12. CASE UNCHANGED vars
  BY <1>12 DEF vars, request
<1> QED BY <1>1, <1>2, <1>3, <1>4, <1>5, <1>6, <1>7, <1>8, <1>9, <1>10,
           <1>11, <1>12 DEF Next

\* A step that changes no slot, by a thread that replaces none, keeps
\* HookConsistent.
LEMMA HookKept ==
    ASSUME HookConsistent, NEW t \in Threads,
           UNCHANGED <<callable, hooked>>,
           pc[t] \notin {"install", "finalizer"},
           \A u \in Threads \ {t} :
               pc'[u] = pc[u] /\ self'[u] = self[u] /\ slot'[u] = slot[u]
    PROVE  HookConsistent'
<1> SUFFICES ASSUME NEW c \in Contexts, NEW s \in Slots,
                    ~ (hooked[c][s] <=> callable[c][s] # NULL)
             PROVE  \E u \in Threads : Replacing(u, c, s)'
  BY DEF HookConsistent
<1>1. PICK u \in Threads : Replacing(u, c, s)
  BY DEF HookConsistent
<1>2. u # t
  BY <1>1 DEF Replacing
<1> QED
  BY <1>1, <1>2 DEF Replacing


\* Every step keeps slots and registrations in agreement, except for the
\* slot being replaced.
LEMMA HookStep == IndInv /\ [Next]_vars => HookConsistent'
<1> SUFFICES ASSUME IndInv, [Next]_vars PROVE HookConsistent'
  OBVIOUS
<1> USE UsesAssumption, NullAssumption DEF IndInv, TypeOK, Location,
        Holding, InOperation, InAccess, PythonCode, Calls, Operations,
        Accesses, Goto, Return, Ask, request, CallConsistent
<1>1. ASSUME NEW t \in Threads, Preempt(t) PROVE HookConsistent'
  BY <1>1 DEF Preempt, HookConsistent, Replacing
<1>2. ASSUME NEW t \in Threads, Resume(t) PROVE HookConsistent'
  BY <1>2 DEF Resume, HookConsistent, Replacing
<1>3. ASSUME NEW t \in Threads, CallOperation(t) PROVE HookConsistent'
  BY <1>3, HookKept DEF CallOperation, Call
<1>4. ASSUME NEW t \in Threads, CallGetter(t) PROVE HookConsistent'
  BY <1>4, HookKept DEF CallGetter, Call
<1>5. ASSUME NEW t \in Threads, CallSetter(t) PROVE HookConsistent'
  BY <1>5, HookKept DEF CallSetter, Call
<1>6. ASSUME NEW t \in Threads, CallNext(t) PROVE HookConsistent'
  BY <1>6, HookKept DEF CallNext, Call
<1>7. ASSUME NEW t \in Threads, Acquire(t) PROVE HookConsistent'
  BY <1>7, HookKept DEF Acquire
<1>8. ASSUME NEW t \in Threads, Operate(t) PROVE HookConsistent'
  <2>1. CASE BeginSet(t)
    BY <2>1, HookKept DEF BeginSet
  <2>2. CASE GpgmeStart(t)
    BY <2>2, HookKept DEF GpgmeStart
  <2>3. CASE GpgmeCallback(t)
    BY <2>3, HookKept DEF GpgmeCallback
  <2>4. CASE CallbackEnter(t)
    BY <2>4, HookKept DEF CallbackEnter
  <2>5. CASE CallbackLeave(t)
    BY <2>5, HookKept DEF CallbackLeave
  <2>6. CASE GpgmeFinish(t)
    BY <2>6, HookKept DEF GpgmeFinish
  <2>7. CASE EndRestore(t)
    BY <2>7, HookKept DEF EndRestore
  <2>8. CASE EndClear(t)
    BY <2>8, HookKept DEF EndClear
  <2>9. CASE EndRelease(t)
    BY <2>9, HookKept DEF EndRelease
  <2>10. CASE ReadResult(t)
    BY <2>10, HookKept DEF ReadResult
  <2> QED BY <1>8, <2>1, <2>2, <2>3, <2>4, <2>5, <2>6, <2>7, <2>8, <2>9,
             <2>10 DEF Operate
<1>9. ASSUME NEW t \in Threads, Access(t) PROVE HookConsistent'
  <2>1. CASE LockRestore(t)
    BY <2>1, HookKept DEF LockRestore
  <2>2. CASE GetCallback(t)
    BY <2>2, HookKept DEF GetCallback
  <2>3. CASE ClearCallback(t)
    BY <2>3 DEF ClearCallback, HookConsistent, Replacing
  <2>4. CASE InstallCallback(t)
    <3> SUFFICES ASSUME NEW c \in Contexts, NEW s \in Slots,
                        ~ (hooked'[c][s] <=> callable'[c][s] # NULL)
                 PROVE  \E u \in Threads : Replacing(u, c, s)'
      BY DEF HookConsistent
    <3>1. ~ (c = self[t] /\ s = slot[t])
      <4> SUFFICES ASSUME c = self[t], s = slot[t] PROVE FALSE
        OBVIOUS
      <4>1. callable \in [Contexts -> [Slots -> Callables \cup {NULL}]]
        BY DEF TypeOK
      <4>2. hooked \in [Contexts -> [Slots -> BOOLEAN]]
        BY DEF TypeOK
      <4>3. callable'[c][s] = value[t]
        BY <2>4, <4>1 DEF InstallCallback
      <4>4. hooked'[c][s] = (value[t] # NULL)
        BY <2>4, <4>2 DEF InstallCallback
      <4> QED BY <4>3, <4>4
    <3>2. PICK u \in Threads : Replacing(u, c, s)
      BY <2>4, <3>1 DEF InstallCallback, HookConsistent
    <3>3. u # t
      BY <3>1, <3>2 DEF Replacing
    <3> QED
      BY <2>4, <3>2, <3>3 DEF InstallCallback, Replacing
  <2>5. CASE Unlock(t)
    BY <2>5, HookKept DEF Unlock
  <2> QED BY <1>9, <2>1, <2>2, <2>3, <2>4, <2>5 DEF Access
<1>10. ASSUME NEW t \in Threads, NextKey(t) PROVE HookConsistent'
  BY <1>10, HookKept DEF NextKey
<1>11. ASSUME NEW t \in Threads, NextReturn(t) PROVE HookConsistent'
  BY <1>11, HookKept DEF NextReturn
<1>12. CASE UNCHANGED vars
  BY <1>12 DEF vars, request, HookConsistent, Replacing
<1> QED BY <1>1, <1>2, <1>3, <1>4, <1>5, <1>6, <1>7, <1>8, <1>9, <1>10,
           <1>11, <1>12 DEF Next

\* Every step keeps the object a trampoline calls in its slot.
LEMMA CalledStep == IndInv /\ [Next]_vars => CalledConsistent'
<1> SUFFICES ASSUME IndInv, [Next]_vars PROVE CalledConsistent'
  OBVIOUS
<1> USE UsesAssumption, NullAssumption DEF IndInv, TypeOK, Location,
        Holding, InOperation, InAccess, PythonCode, Calls, Operations,
        Accesses, Goto, Return, Ask, request, Replacing, CallConsistent,
        MutexConsistent, HookConsistent, CalledConsistent
<1>1. ASSUME NEW t \in Threads, Preempt(t) PROVE CalledConsistent'
  BY <1>1 DEF Preempt
<1>2. ASSUME NEW t \in Threads, Resume(t) PROVE CalledConsistent'
  BY <1>2 DEF Resume
<1>3. ASSUME NEW t \in Threads, CallOperation(t) PROVE CalledConsistent'
  BY <1>3 DEF CallOperation, Call
<1>4. ASSUME NEW t \in Threads, CallGetter(t) PROVE CalledConsistent'
  BY <1>4 DEF CallGetter, Call
<1>5. ASSUME NEW t \in Threads, CallSetter(t) PROVE CalledConsistent'
  BY <1>5 DEF CallSetter, Call
<1>6. ASSUME NEW t \in Threads, CallNext(t) PROVE CalledConsistent'
  BY <1>6 DEF CallNext, Call
<1>7. ASSUME NEW t \in Threads, Acquire(t) PROVE CalledConsistent'
  BY <1>7 DEF Acquire
<1>8. ASSUME NEW t \in Threads, Operate(t) PROVE CalledConsistent'
  <2>1. CASE BeginSet(t)
    BY <2>1 DEF BeginSet
  <2>2. CASE GpgmeStart(t)
    BY <2>2 DEF GpgmeStart
  <2>3. CASE GpgmeCallback(t)
    BY <2>3 DEF GpgmeCallback
  <2>4. CASE CallbackEnter(t)
    BY <2>4 DEF CallbackEnter
  <2>5. CASE CallbackLeave(t)
    BY <2>5 DEF CallbackLeave
  <2>6. CASE GpgmeFinish(t)
    BY <2>6 DEF GpgmeFinish
  <2>7. CASE EndRestore(t)
    BY <2>7 DEF EndRestore
  <2>8. CASE EndClear(t)
    BY <2>8 DEF EndClear
  <2>9. CASE EndRelease(t)
    BY <2>9 DEF EndRelease
  <2>10. CASE ReadResult(t)
    BY <2>10 DEF ReadResult
  <2> QED BY <1>8, <2>1, <2>2, <2>3, <2>4, <2>5, <2>6, <2>7, <2>8, <2>9,
             <2>10 DEF Operate
<1>9. ASSUME NEW t \in Threads, Access(t) PROVE CalledConsistent'
  <2>1. CASE LockRestore(t)
    BY <2>1 DEF LockRestore
  <2>2. CASE GetCallback(t)
    BY <2>2 DEF GetCallback
  <2>3. CASE ClearCallback(t)
    BY <2>3 DEF ClearCallback
  <2>4. CASE InstallCallback(t)
    BY <2>4 DEF InstallCallback
  <2>5. CASE Unlock(t)
    BY <2>5 DEF Unlock
  <2> QED BY <1>9, <2>1, <2>2, <2>3, <2>4, <2>5 DEF Access
<1>10. ASSUME NEW t \in Threads, NextKey(t) PROVE CalledConsistent'
  BY <1>10 DEF NextKey
<1>11. ASSUME NEW t \in Threads, NextReturn(t) PROVE CalledConsistent'
  BY <1>11 DEF NextReturn
<1>12. CASE UNCHANGED vars
  BY <1>12 DEF vars, request
<1> QED BY <1>1, <1>2, <1>3, <1>4, <1>5, <1>6, <1>7, <1>8, <1>9, <1>10,
           <1>11, <1>12 DEF Next

-----------------------------------------------------------------------------
\* The invariant holds initially.
LEMMA InitInv == Init => IndInv
<1> SUFFICES ASSUME Init PROVE IndInv
  OBVIOUS
<1> USE NullAssumption DEF Init
<1>1. TypeOK
  BY DEF TypeOK, Location, PythonCode, Calls
<1>2. CallConsistent
  BY DEF CallConsistent, InOperation, InAccess, Operations, Accesses
<1>3. MutexConsistent /\ TstateConsistent
  BY DEF MutexConsistent, TstateConsistent, Holding, InOperation, InAccess
<1>4. AttachedConsistent
  BY DEF AttachedConsistent, UsesPython, Detached
<1>5. HookConsistent /\ CalledConsistent
  BY DEF HookConsistent, CalledConsistent
<1> QED
  BY <1>1, <1>2, <1>3, <1>4, <1>5 DEF IndInv

\* The invariant that ties locations, mutexes, thread states and callback
\* slots together holds for any number of threads, contexts and slots, on
\* builds with and without a GIL.
THEOREM Invariance == Spec => []IndInv
<1>1. Init => IndInv
  BY InitInv
<1>2. IndInv /\ [Next]_vars => IndInv'
  BY TypeStep, CallStep, MutexStep, TstateStep, AttachedStep, HookStep,
     CalledStep DEF IndInv
<1> QED
  BY <1>1, <1>2, PTL DEF Spec

\* The state of the locking protocol is always well formed.
THEOREM TypeCorrect == Spec => []TypeOK
<1>1. IndInv => TypeOK
  BY DEF IndInv
<1> QED
  BY <1>1, Invariance, PTL

\* No assert() of begin_allow_threads, end_allow_threads or a callback
\* trampoline ever fails: the saved thread state is the caller's own.
THEOREM AssertionSafety == Spec => []AssertionsHold
<1>1. IndInv => AssertionsHold
  <2> SUFFICES ASSUME IndInv, NEW t \in Threads
               PROVE  /\ pc[t] = "begin_set" => tstate[self[t]] = NULL
                      /\ pc[t] \in {"cb_restore", "end_restore"}
                             => tstate[self[t]] = t
    BY DEF AssertionsHold
  <2>1. ASSUME pc[t] = "begin_set" PROVE tstate[self[t]] = NULL
    <3> SUFFICES ASSUME tstate[self[t]] # NULL PROVE FALSE
      OBVIOUS
    <3> DEFINE u == tstate[self[t]]
    <3>1. self[t] \in Contexts
      BY <2>1 DEF IndInv, CallConsistent
    <3>2. u \in Threads /\ pc[u] \in InOperation /\ self[u] = self[t]
      BY <3>1 DEF IndInv, TypeOK, TstateConsistent
    <3>3. mutex[self[t]] = t /\ mutex[self[t]] = u
      BY <2>1, <3>2 DEF IndInv, MutexConsistent, Holding
    <3> QED
      BY <2>1, <3>2, <3>3 DEF InOperation
  <2>2. pc[t] \in {"cb_restore", "end_restore"} => tstate[self[t]] = t
    BY DEF IndInv, TstateConsistent, InOperation
  <2> QED
    BY <2>1, <2>2
<1> QED
  BY <1>1, Invariance, PTL

\* C code that touches Python objects always has its own thread attached,
\* and no thread waits for a mutex or runs the library while attached.
THEOREM AttachmentSafety == Spec => []AttachmentDiscipline
<1>1. IndInv => AttachmentDiscipline
  BY DEF IndInv, AttachedConsistent, AttachmentDiscipline
<1> QED
  BY <1>1, Invariance, PTL

\* Two calls that take the mutex of a context are never both inside it.
THEOREM Exclusion == Spec => []MutualExclusion
<1>1. IndInv => MutualExclusion
  BY DEF IndInv, MutexConsistent, MutualExclusion
<1> QED
  BY <1>1, Invariance, PTL

\* A trampoline registered with gpgme always has an object to call, and a
\* getter an object to return, when they look.
THEOREM HookSafety == Spec => []HookMatchesCallable
<1>1. IndInv => HookMatchesCallable
  <2> SUFFICES ASSUME IndInv, NEW t \in Threads, NEW s \in Slots,
                      pc[t] \in {"start", "op", "cb_restore", "get"}
               PROVE  hooked[self[t]][s] <=> callable[self[t]][s] # NULL
    BY DEF HookMatchesCallable
  <2>1. self[t] \in Contexts /\ mutex[self[t]] = t
    BY DEF IndInv, CallConsistent, MutexConsistent, Holding, InOperation,
           InAccess
  <2>2. ASSUME NEW u \in Threads, Replacing(u, self[t], s) PROVE FALSE
    BY <2>1, <2>2 DEF IndInv, MutexConsistent, Replacing, Holding, InAccess
  <2> QED
    BY <2>1, <2>2 DEF IndInv, HookConsistent
<1> QED
  BY <1>1, Invariance, PTL

\* The object a callback trampoline is calling stays in its slot.
THEOREM BorrowedReference == Spec => []CalledStaysInstalled
<1>1. IndInv => CalledStaysInstalled
  BY DEF IndInv, CalledConsistent, CalledStaysInstalled
<1> QED
  BY <1>1, Invariance, PTL

\* Whose operation is ending is the only one that can touch the result: the
\* steps that replace it are those of a thread that holds the mutex.
LEMMA ResultStep ==
    IndInv /\ ResultIsOwnUntilRelease /\ [Next]_vars
        => ResultIsOwnUntilRelease'
<1> SUFFICES ASSUME IndInv, ResultIsOwnUntilRelease, [Next]_vars,
                    NEW t \in Threads,
                    pc'[t] \in {"end_restore", "end_clear", "end_release"}
             PROVE  opdata'[self'[t]] = t
  BY DEF ResultIsOwnUntilRelease
<1> DEFINE Ending(r) == pc[r] \in {"end_restore", "end_clear", "end_release"}
<1> USE NullAssumption DEF IndInv, TypeOK, Goto, Return, Ask, request,
        CallConsistent, Holding, InOperation
<1>1. \A u \in Threads \ {t} :
          Ending(t) /\ pc[u] \in {"start", "op"} => self[u] # self[t]
  BY DEF MutexConsistent
<1>2. Ending(t) => opdata[self[t]] = t
  BY DEF ResultIsOwnUntilRelease
<1>3. CASE Ending(t) /\ self'[t] = self[t] /\ opdata' = opdata
  BY <1>2, <1>3
<1>4. ASSUME NEW u \in Threads, GpgmeStart(u) PROVE opdata'[self'[t]] = t
  BY <1>1, <1>2, <1>4 DEF GpgmeStart
<1>5. ASSUME NEW u \in Threads, GpgmeFinish(u) PROVE opdata'[self'[t]] = t
  BY <1>1, <1>2, <1>5 DEF GpgmeFinish
<1>6. ASSUME NEW u \in Threads, Operate(u) PROVE opdata'[self'[t]] = t
  <2>1. CASE BeginSet(u) \/ GpgmeCallback(u)
    BY <1>3, <2>1 DEF BeginSet, GpgmeCallback
  <2>2. CASE CallbackEnter(u) \/ CallbackLeave(u)
    BY <1>3, <2>2 DEF CallbackEnter, CallbackLeave
  <2>3. CASE EndRestore(u)
    BY <1>3, <2>3 DEF EndRestore
  <2>4. CASE EndClear(u)
    BY <1>3, <2>4 DEF EndClear
  <2>5. CASE EndRelease(u) \/ ReadResult(u)
    BY <1>3, <2>5 DEF EndRelease, ReadResult
  <2> QED BY <1>4, <1>5, <1>6, <2>1, <2>2, <2>3, <2>4, <2>5 DEF Operate
<1>7. ASSUME NEW u \in Threads, Access(u) PROVE opdata'[self'[t]] = t
  <2>1. CASE LockRestore(u)
    BY <1>3, <2>1 DEF LockRestore, Accesses, InAccess
  <2>2. CASE GetCallback(u) \/ ClearCallback(u)
    BY <1>3, <2>2 DEF GetCallback, ClearCallback
  <2>3. CASE InstallCallback(u) \/ Unlock(u)
    BY <1>3, <2>3 DEF InstallCallback, Unlock
  <2> QED BY <1>7, <2>1, <2>2, <2>3 DEF Access
<1>8. ASSUME NEW u \in Threads,
             CallOperation(u) \/ CallGetter(u) \/ CallSetter(u) \/ CallNext(u)
      PROVE  opdata'[self'[t]] = t
  BY <1>3, <1>8 DEF CallOperation, CallGetter, CallSetter, CallNext, Call
<1>9. ASSUME NEW u \in Threads,
             Preempt(u) \/ Resume(u) \/ Acquire(u) \/ NextKey(u) \/ NextReturn(u)
      PROVE  opdata'[self'[t]] = t
  BY <1>3, <1>9 DEF Preempt, Resume, Acquire, NextKey, NextReturn
<1>10. CASE UNCHANGED vars
  BY <1>3, <1>10 DEF vars
<1> QED BY <1>6, <1>7, <1>8, <1>9, <1>10 DEF Next

\* The result of an operation stays in the context until end_allow_threads has
\* released the mutex, for any number of threads that use the context: what a
\* method reads after the release is lost there and nowhere before.
THEOREM ResultsUntilRelease == Spec => []ResultIsOwnUntilRelease
<1>1. Init => ResultIsOwnUntilRelease
  BY DEF Init, ResultIsOwnUntilRelease
<1> QED
  BY <1>1, ResultStep, Invariance, PTL DEF Spec

\* No setter changes a callback while an operation on the context runs.
THEOREM CallbacksFixed == Spec => CallbacksFixedDuringOperation
<1> DEFINE Fixed(t) ==
        pc[t] \in InOperation =>
            /\ callable'[self[t]] = callable[self[t]]
            /\ hooked'[self[t]] = hooked[self[t]]
<1>1. ASSUME IndInv, [Next]_vars, NEW t \in Threads PROVE Fixed(t)
  <2> SUFFICES ASSUME pc[t] \in InOperation,
                      callable' # callable \/ hooked' # hooked
               PROVE  /\ callable'[self[t]] = callable[self[t]]
                      /\ hooked'[self[t]] = hooked[self[t]]
    OBVIOUS
  <2>1. PICK u \in Threads : ClearCallback(u) \/ InstallCallback(u)
    BY <1>1 DEF Next, vars, request, Preempt, Resume, CallOperation,
       CallGetter, CallSetter, CallNext, Call, Acquire, Operate, Access,
       NextKey, NextReturn, BeginSet, GpgmeStart, GpgmeCallback,
       CallbackEnter, CallbackLeave, GpgmeFinish, EndRestore, EndClear,
       EndRelease, ReadResult, LockRestore, GetCallback, Unlock
  <2>2. self[u] # self[t] /\ self[u] \in Contexts /\ self[t] \in Contexts
    BY <1>1, <2>1 DEF ClearCallback, InstallCallback, Goto, IndInv,
       CallConsistent, MutexConsistent, Holding, InOperation, InAccess
  <2> QED
    BY <1>1, <2>1, <2>2 DEF ClearCallback, InstallCallback, IndInv, TypeOK
<1>2. IndInv /\ [Next]_vars =>
          [\A t \in Threads :
               pc[t] \in InOperation =>
                   /\ callable'[self[t]] = callable[self[t]]
                   /\ hooked'[self[t]] = hooked[self[t]]]_vars
  BY <1>1
<1> QED
  BY <1>2, Invariance, PTL DEF Spec, CallbacksFixedDuringOperation

-----------------------------------------------------------------------------
(* The monitor: its variables, described point by point.                   *)

HolderSame == \A c \in Contexts : Holder(c)' = Holder(c)
InstalledSame ==
    \A c \in Contexts, s \in Slots : Installed(c, s)' = Installed(c, s)

\* A change of the holder of one context, as an EXCEPT.
LEMMA HolderChange ==
    ASSUME NEW c \in Contexts, NEW h, Holder(c)' = h,
           \A d \in Contexts \ {c} : Holder(d)' = Holder(d)
    PROVE  [d \in Contexts |-> Holder(d)]' =
               [[d \in Contexts |-> Holder(d)] EXCEPT ![c] = h]
  OBVIOUS

\* A change of what one thread has seen, as an EXCEPT.
LEMMA SeenChange ==
    ASSUME NEW t \in Threads, NEW v, Seen(t)' = v,
           \A u \in Threads \ {t} : Seen(u)' = Seen(u)
    PROVE  [u \in Threads |-> Seen(u)]' =
               [[u \in Threads |-> Seen(u)] EXCEPT ![t] = v]
  OBVIOUS

\* A change of one slot, as an EXCEPT.
LEMMA InstalledChange ==
    ASSUME NEW c \in Contexts, NEW s \in Slots, NEW v,
           Installed(c, s)' = v,
           \A d \in Contexts, r \in Slots :
               d # c \/ r # s => Installed(d, r)' = Installed(d, r)
    PROVE  [d \in Contexts |-> [r \in Slots |-> Installed(d, r)]]' =
               [[d \in Contexts |-> [r \in Slots |-> Installed(d, r)]]
                   EXCEPT ![c][s] = v]
  OBVIOUS

\* A step with these effects enters the monitor.
LEMMA ToEnter ==
    ASSUME NEW t \in Threads, NEW c \in Contexts, NEW p,
           Holder(c) = NULL, Holder(c)' = [by |-> t, for |-> p],
           \A d \in Contexts \ {c} : Holder(d)' = Holder(d),
           InstalledSame, \A u \in Threads : Seen(u)' = Seen(u),
           opdata' = opdata
    PROVE  Monitor!Enter(t, c, p)
  BY HolderChange DEF Monitor!Enter, InstalledSame

\* A step with these effects looks at a slot.
LEMMA ToLook ==
    ASSUME NEW t \in Threads, NEW c \in Contexts, NEW s \in Slots,
           \E p \in Monitor!Purpose : Monitor!Inside(t, c, p),
           Seen(t)' = Installed(c, s),
           \A u \in Threads \ {t} : Seen(u)' = Seen(u),
           HolderSame, InstalledSame, opdata' = opdata
    PROVE  Monitor!Look(t, c, s)
  BY SeenChange DEF Monitor!Look, HolderSame, InstalledSame

\* A step with these effects drops what was seen.
LEMMA ToDrop ==
    ASSUME NEW t \in Threads, NEW c \in Contexts,
           Monitor!Inside(t, c, "operation"),
           Seen(t)' = NULL, \A u \in Threads \ {t} : Seen(u)' = Seen(u),
           HolderSame, InstalledSame, opdata' = opdata
    PROVE  Monitor!Drop(t, c)
  BY SeenChange DEF Monitor!Drop, HolderSame, InstalledSame

\* A step with these effects installs an object.
LEMMA ToInstall ==
    ASSUME NEW t \in Threads, NEW c \in Contexts, NEW s \in Slots, NEW v,
           Monitor!Inside(t, c, "access"),
           Installed(c, s)' = v,
           \A d \in Contexts, r \in Slots :
               d # c \/ r # s => Installed(d, r)' = Installed(d, r),
           HolderSame, \A u \in Threads : Seen(u)' = Seen(u),
           opdata' = opdata
    PROVE  Monitor!Install(t, c, s, v)
  BY InstalledChange DEF Monitor!Install, HolderSame

\* A step with these effects leaves the monitor.
LEMMA ToLeave ==
    ASSUME NEW t \in Threads, NEW c \in Contexts,
           NEW p, Monitor!Inside(t, c, p),
           Holder(c)' = NULL,
           \A d \in Contexts \ {c} : Holder(d)' = Holder(d),
           Seen(t)' = NULL, \A u \in Threads \ {t} : Seen(u)' = Seen(u),
           InstalledSame, opdata' = opdata
    PROVE  Monitor!Leave(t, c, p)
  BY HolderChange, SeenChange DEF Monitor!Leave, InstalledSame

-----------------------------------------------------------------------------
(* What the monitor does not see.                                          *)

\* A step of a thread that holds no mutex leaves the monitor as it is.
LEMMA OutsideStutters ==
    ASSUME IndInv, NEW t \in Threads,
           pc[t] \notin Holding, pc'[t] \notin Holding,
           UNCHANGED <<mutex, callable, opdata>>,
           \A u \in Threads \ {t} :
               /\ pc'[u] = pc[u]     /\ self'[u] = self[u]
               /\ what'[u] = what[u] /\ slot'[u] = slot[u]
               /\ value'[u] = value[u]
    PROVE  UNCHANGED Monitor!vars
<1> USE DEF IndInv, TypeOK, MutexConsistent
<1>1. \A c \in Contexts : mutex[c] # NULL => mutex[c] \in Threads \ {t}
  OBVIOUS
<1>2. \A c \in Contexts : Holder(c)' = Holder(c)
  BY <1>1 DEF Holder
<1>3. \A c \in Contexts, s \in Slots : Installed(c, s)' = Installed(c, s)
  BY <1>1 DEF Installed, Replacing
<1>4. \A u \in Threads : Seen(u)' = Seen(u)
  BY DEF Seen, Holding, InOperation, InAccess
<1> QED
  BY <1>2, <1>3, <1>4 DEF Monitor!vars

\* Attaching and detaching is not seen.
LEMMA IdleStutters ==
    ASSUME UNCHANGED <<mutex, callable, opdata, pc, self, what, slot, value>>
    PROVE  UNCHANGED Monitor!vars
  BY DEF Monitor!vars, Holder, Installed, Replacing, Seen

\* A step of a thread between two locations of one call that changes no
\* attribute and takes nothing from a slot leaves the monitor as it is.
LEMMA InsideStutters ==
    ASSUME IndInv, NEW t \in Threads,
           pc[t] \notin {"callback", "unlock", "install", "finalizer"},
           pc'[t] \notin {"callback", "unlock", "install", "finalizer"},
           UNCHANGED <<mutex, callable, opdata, self, what, value>>,
           \A u \in Threads \ {t} : pc'[u] = pc[u] /\ slot'[u] = slot[u]
    PROVE  UNCHANGED Monitor!vars
<1> USE DEF IndInv, TypeOK
<1>1. \A c \in Contexts : Holder(c)' = Holder(c)
  BY DEF Holder
<1>2. \A c \in Contexts, s \in Slots : Installed(c, s)' = Installed(c, s)
  BY DEF Installed, Replacing
<1>3. \A u \in Threads : Seen(u)' = Seen(u)
  BY DEF Seen
<1> QED
  BY <1>1, <1>2, <1>3 DEF Monitor!vars

-----------------------------------------------------------------------------
(* What the monitor sees.                                                  *)

\* Acquiring the mutex enters the monitor.
LEMMA AcquireEnters ==
    ASSUME IndInv, NEW t \in Threads, Acquire(t)
    PROVE  \E c \in Contexts, p \in Monitor!Purpose : Monitor!Enter(t, c, p)
<1> DEFINE p == IF what[t] \in Operations THEN "operation" ELSE "access"
<1> USE NullAssumption DEF IndInv, TypeOK, Acquire, Goto, request
<1>1. self[t] \in Contexts
  BY DEF CallConsistent
<1>2. /\ Holder(self[t]) = NULL
      /\ Holder(self[t])' = [by |-> t, for |-> p]
      /\ \A c \in Contexts \ {self[t]} : Holder(c)' = Holder(c)
  BY <1>1 DEF Holder
<1>3. InstalledSame
  BY <1>1 DEF InstalledSame, Installed, Replacing
<1>4. \A u \in Threads : Seen(u)' = Seen(u)
  BY DEF Seen
<1>5. Monitor!Enter(t, self[t], p)
  BY <1>1, <1>2, <1>3, <1>4, ToEnter
<1> QED
  BY <1>1, <1>5 DEF Monitor!Purpose

\* A thread inside an operation or an access is inside the monitor.
LEMMA InsideMonitor ==
    ASSUME IndInv, NEW t \in Threads, pc[t] \in Holding
    PROVE  /\ self[t] \in Contexts
           /\ pc[t] \in InAccess => Monitor!Inside(t, self[t], "access")
           /\ pc[t] \notin InAccess => Monitor!Inside(t, self[t], "operation")
<1> USE NullAssumption DEF IndInv, TypeOK
<1>1. self[t] \in Contexts /\ mutex[self[t]] = t /\ t # NULL
  BY DEF CallConsistent, MutexConsistent, Holding, InOperation, InAccess
<1>2. /\ pc[t] \in InAccess => what[t] \notin Operations
      /\ pc[t] \notin InAccess => what[t] \in Operations
  BY DEF CallConsistent, Holding, Operations, Accesses
<1> QED
  BY <1>1, <1>2 DEF Monitor!Inside, Holder

\* Starting and finishing an operation drop and set the result.
LEMMA ResultSteps ==
    ASSUME IndInv, NEW t \in Threads, GpgmeStart(t) \/ GpgmeFinish(t)
    PROVE  Monitor!Start(t, self[t]) \/ Monitor!Finish(t, self[t])
<1> USE NullAssumption DEF IndInv, TypeOK, GpgmeStart, GpgmeFinish, Goto, request
<1>1. Monitor!Inside(t, self[t], "operation")
  BY InsideMonitor DEF Holding, InOperation, InAccess
<1>2. HolderSame
  BY DEF Holder, HolderSame
<1>3. InstalledSame
  BY DEF InstalledSame, Installed, Replacing
<1>4. \A u \in Threads : Seen(u)' = Seen(u)
  BY DEF Seen
<1> QED
  BY <1>1, <1>2, <1>3, <1>4
     DEF Monitor!Start, Monitor!Finish, HolderSame, InstalledSame

\* Calling a trampoline, or a getter, looks at the slot; calling back a data
\* object is not seen.
LEMMA LookSteps ==
    ASSUME IndInv, NEW t \in Threads, CallbackEnter(t) \/ GetCallback(t)
    PROVE  \/ \E s \in Slots : Monitor!Look(t, self[t], s)
           \/ UNCHANGED Monitor!vars
<1> USE NullAssumption DEF IndInv, TypeOK, CallbackEnter, GetCallback, Goto
<1>1. HolderSame
  BY DEF Holder, HolderSame
<1>2. InstalledSame
  BY DEF InstalledSame, Installed, Replacing, CallConsistent, MutexConsistent
<1>3. \A u \in Threads \ {t} : Seen(u)' = Seen(u)
  BY DEF Seen
<1>4. self[t] \in Contexts /\ \E p \in Monitor!Purpose : Monitor!Inside(t, self[t], p)
  BY InsideMonitor DEF Holding, InOperation, InAccess, Monitor!Purpose
<1>5. mutex[self[t]] = t
  BY DEF MutexConsistent, Holding, InOperation, InAccess
<1>6. CASE slot[t] \in Slots
  <2>1. Installed(self[t], slot[t]) = callable[self[t]][slot[t]]
    BY <1>5 DEF Installed, Replacing
  <2>2. GetCallback(t) => what[t] = "get"
    BY DEF CallConsistent
  <2>3. hooked[self[t]][slot[t]] <=> callable[self[t]][slot[t]] # NULL
    BY <1>4, <1>5, <1>6 DEF HookConsistent, Replacing, MutexConsistent, Holding, InAccess
  <2>4. callable[self[t]][slot[t]] \in Callables \cup {NULL}
    BY <1>4, <1>6
  <2>5. Seen(t)' = Installed(self[t], slot[t])
    BY <1>6, <2>1, <2>2, <2>3, <2>4 DEF Seen
  <2> QED
    BY <1>1, <1>2, <1>3, <1>4, <1>6, <2>5, ToLook
<1>7. CASE slot[t] \notin Slots
  <2>1. Seen(t)' = Seen(t)
    BY <1>7 DEF Seen, CallConsistent, Accesses
  <2> QED
    BY <1>1, <1>2, <1>3, <1>7, <2>1
       DEF Monitor!vars, CallConsistent, Accesses, HolderSame, InstalledSame
<1> QED
  BY <1>6, <1>7

\* A callback that returns drops what the operation took from the slot.
LEMMA CallbackLeaveDrops ==
    ASSUME IndInv, NEW t \in Threads, CallbackLeave(t)
    PROVE  Monitor!Drop(t, self[t])
<1> USE NullAssumption DEF IndInv, TypeOK, CallbackLeave, Goto
<1>0. self[t] \in Contexts
  BY DEF CallConsistent
<1>1. Monitor!Inside(t, self[t], "operation")
  BY InsideMonitor DEF Holding, InOperation, InAccess
<1>2. HolderSame
  BY DEF Holder, HolderSame
<1>3. InstalledSame
  BY DEF InstalledSame, Installed, Replacing
<1>4. Seen(t)' = NULL /\ \A u \in Threads \ {t} : Seen(u)' = Seen(u)
  BY DEF Seen
<1> QED
  BY <1>0, <1>1, <1>2, <1>3, <1>4, ToDrop

\* Py_CLEAR is the moment the new value takes effect; filling the slot and
\* telling gpgme are not seen.
LEMMA ClearInstalls ==
    ASSUME IndInv, NEW t \in Threads, ClearCallback(t)
    PROVE  \E s \in Slots, v \in Callables \cup {NULL} :
               Monitor!Install(t, self[t], s, v)
<1> USE NullAssumption DEF IndInv, TypeOK, ClearCallback, Goto, request
<1>1. Monitor!Inside(t, self[t], "access")
  BY InsideMonitor DEF Holding, InAccess
<1>2. self[t] \in Contexts /\ slot[t] \in Slots /\ mutex[self[t]] = t
  BY DEF CallConsistent, MutexConsistent, Holding, InAccess, Accesses
<1>3. HolderSame
  BY DEF Holder, HolderSame
<1>4. Installed(self[t], slot[t])' = value[t]
  BY <1>2 DEF Installed, Replacing
<1>5. ASSUME NEW c \in Contexts, NEW s \in Slots,
             ~ (c = self[t] /\ s = slot[t])
      PROVE  Installed(c, s)' = Installed(c, s)
  BY <1>2, <1>5 DEF Installed, Replacing
<1>6. \A u \in Threads : Seen(u)' = Seen(u)
  BY DEF Seen
<1>7. Monitor!Install(t, self[t], slot[t], value[t])
  BY <1>1, <1>2, <1>3, <1>4, <1>5, <1>6, ToInstall
<1> QED
  BY <1>2, <1>7

\* Filling a cleared slot and registering the trampoline is not seen.
LEMMA InstallStutters ==
    ASSUME IndInv, NEW t \in Threads, InstallCallback(t)
    PROVE  UNCHANGED Monitor!vars
<1> USE NullAssumption DEF IndInv, TypeOK, InstallCallback, request
<1>1. self[t] \in Contexts /\ slot[t] \in Slots /\ mutex[self[t]] = t
  BY DEF CallConsistent, MutexConsistent, Holding, InAccess, Accesses
<1>2. HolderSame
  BY DEF Holder, HolderSame
<1>3. InstalledSame
  BY <1>1 DEF InstalledSame, Installed, Replacing
<1>4. \A u \in Threads : Seen(u)' = Seen(u)
  BY DEF Seen, CallConsistent
<1> QED
  BY <1>2, <1>3, <1>4 DEF Monitor!vars, HolderSame, InstalledSame

\* Releasing the mutex leaves the monitor.
LEMMA ReleaseLeaves ==
    ASSUME IndInv, NEW t \in Threads, EndRelease(t) \/ Unlock(t)
    PROVE  \E p \in Monitor!Purpose : Monitor!Leave(t, self[t], p)
<1>1. pc[t] \in Holding /\ pc[t] \in {"end_release", "unlock"}
  BY DEF EndRelease, Unlock, Goto, Return, Holding, InAccess
<1>2. PICK p \in Monitor!Purpose : Monitor!Inside(t, self[t], p)
  BY <1>1, InsideMonitor DEF Monitor!Purpose
<1>3. PICK c \in Contexts : c = self[t] /\ mutex[c] = t /\ t # NULL
  BY <1>1, NullAssumption, InsideMonitor DEF IndInv, MutexConsistent
<1>4. \A d \in Contexts \ {c} :
          mutex[d] # NULL => mutex[d] \in Threads \ {t}
  BY <1>3 DEF IndInv, TypeOK, MutexConsistent
<1>5. /\ mutex'[c] = NULL
      /\ \A d \in Contexts \ {c} : mutex'[d] = mutex[d]
      /\ UNCHANGED <<callable, opdata>>
  BY <1>3 DEF IndInv, TypeOK, EndRelease, Unlock
<1>6. /\ pc'[t] \notin {"callback", "unlock"}
      /\ \A u \in Threads \ {t} :
             /\ pc'[u] = pc[u]     /\ self'[u] = self[u]
             /\ what'[u] = what[u] /\ slot'[u] = slot[u]
             /\ value'[u] = value[u]
  BY DEF IndInv, TypeOK, EndRelease, Unlock, Goto, Return, Ask, request
<1>7. /\ Holder(c)' = NULL
      /\ \A d \in Contexts \ {c} : Holder(d)' = Holder(d)
  BY <1>3, <1>4, <1>5, <1>6 DEF Holder
<1>8. InstalledSame
  BY <1>1, <1>3, <1>4, <1>5, <1>6 DEF InstalledSame, Installed, Replacing
<1>9. Seen(t)' = NULL /\ \A u \in Threads \ {t} : Seen(u)' = Seen(u)
  BY <1>6 DEF Seen
<1>10. Monitor!Leave(t, c, p)
  BY <1>2, <1>3, <1>5, <1>7, <1>8, <1>9, ToLeave
<1> QED
  BY <1>3, <1>10

-----------------------------------------------------------------------------
\* Initial states map to initial states.
LEMMA InitMaps == Init => Monitor!Init
  BY DEF Init, Monitor!Init, Holder, Installed, Replacing, Seen

\* Every step maps to a step of the monitor or to a stutter.
LEMMA StepMaps == IndInv /\ [Next]_vars => [Monitor!Next]_Monitor!vars
<1> SUFFICES ASSUME IndInv, [Next]_vars PROVE [Monitor!Next]_Monitor!vars
  OBVIOUS
<1>1. ASSUME NEW t \in Threads, Preempt(t) \/ Resume(t)
      PROVE  UNCHANGED Monitor!vars
  BY <1>1, IdleStutters DEF Preempt, Resume, request
<1>2. ASSUME NEW t \in Threads,
             \/ CallOperation(t) \/ CallGetter(t) \/ CallSetter(t)
             \/ CallNext(t) \/ ReadResult(t) \/ NextKey(t) \/ NextReturn(t)
      PROVE  UNCHANGED Monitor!vars
  <2>1. /\ pc[t] \notin Holding /\ pc'[t] \notin Holding
        /\ UNCHANGED <<mutex, callable, opdata>>
        /\ \A u \in Threads \ {t} :
               /\ pc'[u] = pc[u]     /\ self'[u] = self[u]
               /\ what'[u] = what[u] /\ slot'[u] = slot[u]
               /\ value'[u] = value[u]
    BY <1>2 DEF IndInv, TypeOK, CallOperation, CallGetter, CallSetter,
                CallNext, Call, ReadResult, NextKey, NextReturn, Return, Goto,
                Ask, request, Holding, InOperation, InAccess
  <2> QED
    BY <2>1, OutsideStutters
<1>3. ASSUME NEW t \in Threads,
             \/ BeginSet(t) \/ GpgmeCallback(t) \/ EndRestore(t)
             \/ EndClear(t) \/ LockRestore(t)
      PROVE  UNCHANGED Monitor!vars
  <2>1. /\ pc[t] \notin {"callback", "unlock", "install", "finalizer"}
        /\ pc'[t] \notin {"callback", "unlock", "install", "finalizer"}
        /\ UNCHANGED <<mutex, callable, opdata, self, what, value>>
        /\ \A u \in Threads \ {t} : pc'[u] = pc[u] /\ slot'[u] = slot[u]
    BY <1>3 DEF IndInv, TypeOK, CallConsistent, BeginSet, GpgmeCallback,
                EndRestore, EndClear, LockRestore, Goto, request, InAccess,
                Accesses
  <2> QED
    BY <2>1, InsideStutters
<1>4. ASSUME NEW t \in Threads, Acquire(t) PROVE Monitor!Next
  BY <1>4, AcquireEnters DEF Monitor!Next
<1>5. ASSUME NEW t \in Threads, pc[t] \in Holding PROVE self[t] \in Contexts
  BY <1>5, InsideMonitor
<1>6. ASSUME NEW t \in Threads, GpgmeStart(t) \/ GpgmeFinish(t)
      PROVE  Monitor!Next
  <2>1. self[t] \in Contexts
    BY <1>5, <1>6 DEF GpgmeStart, GpgmeFinish, Goto, Holding, InOperation
  <2> QED
    BY <1>6, <2>1, ResultSteps DEF Monitor!Next
<1>7. ASSUME NEW t \in Threads, CallbackEnter(t) \/ GetCallback(t)
      PROVE  [Monitor!Next]_Monitor!vars
  <2>1. self[t] \in Contexts
    BY <1>5, <1>7 DEF CallbackEnter, GetCallback, Goto, Holding, InOperation,
                      InAccess
  <2> QED
    BY <1>7, <2>1, LookSteps DEF Monitor!Next
<1>8. ASSUME NEW t \in Threads, CallbackLeave(t) PROVE Monitor!Next
  <2>1. self[t] \in Contexts
    BY <1>5, <1>8 DEF CallbackLeave, Goto, Holding, InOperation
  <2> QED
    BY <1>8, <2>1, CallbackLeaveDrops DEF Monitor!Next
<1>9. ASSUME NEW t \in Threads, ClearCallback(t) PROVE Monitor!Next
  <2>1. self[t] \in Contexts
    BY <1>5, <1>9 DEF ClearCallback, Goto, Holding, InAccess
  <2> QED
    BY <1>9, <2>1, ClearInstalls DEF Monitor!Next
<1>10. ASSUME NEW t \in Threads, InstallCallback(t)
       PROVE  UNCHANGED Monitor!vars
  BY <1>10, InstallStutters
<1>11. ASSUME NEW t \in Threads, EndRelease(t) \/ Unlock(t)
       PROVE  Monitor!Next
  <2>1. self[t] \in Contexts
    BY <1>5, <1>11 DEF EndRelease, Unlock, Return, Goto, Holding, InAccess
  <2> QED
    BY <1>11, <2>1, ReleaseLeaves DEF Monitor!Next
<1>12. CASE UNCHANGED vars
  BY <1>12, IdleStutters DEF vars, request
<1> QED
  BY <1>1, <1>2, <1>3, <1>4, <1>6, <1>7, <1>8, <1>9, <1>10, <1>11, <1>12
     DEF Next, Operate, Access

\* Every behaviour of the locking protocol is a behaviour of the monitor.
THEOREM Refinement == Spec => ImplementsMonitor
<1>1. Init => Monitor!Init
  BY InitMaps
<1>2. IndInv /\ [Next]_vars => [Monitor!Next]_Monitor!vars
  BY StepMaps
<1> QED
  BY <1>1, <1>2, Invariance, PTL DEF Spec, ImplementsMonitor, Monitor!Spec
=============================================================================
