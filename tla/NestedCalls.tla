---------------------------- MODULE NestedCalls ----------------------------
(***************************************************************************)
(* Methods called from inside methods.  While a thread holds the mutex of  *)
(* a context it may run Python code: a callback of the operation (the      *)
(* passphrase, progress and edit callbacks, the read, write and seek of a  *)
(* file object) or the finalizer of a callable that a setter drops.  That  *)
(* code may call methods, on the same context or on another one, and the   *)
(* mutex is not recursive.                                                 *)
(*                                                                         *)
(* ContextLock models one call per thread step by step; here a thread has  *)
(* a stack of calls, and taking the mutex, running, and giving it back are *)
(* one step each.  The interpreter is left out: a thread never waits for a *)
(* mutex while attached (AttachmentDiscipline of ContextLock).             *)
(***************************************************************************)
EXTENDS Naturals, Sequences, SequencesExt

CONSTANTS
    Threads,    \* threads of one interpreter
    Contexts,   \* gpgme.Context objects
    May,        \* May[c]: the contexts that code run by c may call methods of
    MaxDepth,   \* bound on the depth of nested calls
    NULL

ASSUME MayAssumption   == May \in [Contexts -> SUBSET Contexts]
ASSUME DepthAssumption == MaxDepth \in Nat \ {0}
ASSUME NullAssumption  == NULL \notin Threads

VARIABLES
    mutex,      \* mutex[c]: the thread that holds c's mutex, or NULL
    tstate,     \* tstate[c]: the thread whose state is saved in c, or NULL
    stack       \* stack[t]: the calls thread t is inside, innermost last

vars == <<mutex, tstate, stack>>

\* An operation waits for the mutex, runs, and is in a callback or not; an
\* access waits for the mutex, has it, and is in a finalizer or not.
OperationStage == {"op_acquire", "op", "callback"}
AccessStage    == {"access_acquire", "access", "finalizer"}
Frame == [ctx : Contexts, at : OperationStage \cup AccessStage]

TypeOK ==
    /\ mutex \in [Contexts -> Threads \cup {NULL}]
    /\ tstate \in [Contexts -> Threads \cup {NULL}]
    /\ \A t \in Threads : /\ stack[t] \in Seq(Frame)
                          /\ Len(stack[t]) <= MaxDepth
                          \* Only Python code calls methods.
                          /\ \A i \in 1 .. Len(stack[t]) - 1 :
                                 stack[t][i].at \in {"callback", "finalizer"}

-----------------------------------------------------------------------------
Idle(t) == stack[t] = <<>>
Top(t)  == Last(stack[t])

At(t, stages) == ~ Idle(t) /\ Top(t).at \in stages

\* Mutant: the library's callbacks reach Python without their trampoline.
InPythonAnywhere(t) == Idle(t) \/ At(t, {"op", "callback", "finalizer"})

\* Thread t runs Python code.
InPython(t) == Idle(t) \/ At(t, {"callback", "finalizer"})

\* The contexts the Python code that t runs may call methods of.
Callable(t) == IF Idle(t) THEN Contexts ELSE May[Top(t).ctx]

MoveTo(t, stage) ==
    stack' = [stack EXCEPT ![t][Len(stack[t])].at = stage]

Pop(t) == stack' = [stack EXCEPT ![t] = Front(@)]

-----------------------------------------------------------------------------
Init ==
    /\ mutex = [c \in Contexts |-> NULL]
    /\ tstate = [c \in Contexts |-> NULL]
    /\ stack = [t \in Threads |-> <<>>]

\* A method is called: begin_allow_threads or lock_context.
Call(t) ==
    /\ InPython(t)
    /\ Len(stack[t]) < MaxDepth
    /\ \E c \in Callable(t), stage \in {"op_acquire", "access_acquire"} :
           stack' = [stack EXCEPT ![t] = Append(@, [ctx |-> c, at |-> stage])]
    /\ UNCHANGED <<mutex, tstate>>

\* begin_allow_threads: acquire, assert(self->tstate == NULL), save.
BeginOperation(t) ==
    /\ At(t, {"op_acquire"})
    /\ mutex[Top(t).ctx] = NULL
    /\ mutex' = [mutex EXCEPT ![Top(t).ctx] = t]
    /\ tstate' = [tstate EXCEPT ![Top(t).ctx] = t]
    /\ MoveTo(t, "op")

\* lock_context.
BeginAccess(t) ==
    /\ At(t, {"access_acquire"})
    /\ mutex[Top(t).ctx] = NULL
    /\ mutex' = [mutex EXCEPT ![Top(t).ctx] = t]
    /\ MoveTo(t, "access")
    /\ UNCHANGED tstate

\* assert(self->tstate != NULL); PyEval_RestoreThread(self->tstate).
EnterCallback(t) ==
    /\ At(t, {"op"})
    /\ MoveTo(t, "callback")
    /\ UNCHANGED <<mutex, tstate>>

\* self->tstate = PyEval_SaveThread().
LeaveCallback(t) ==
    /\ At(t, {"callback"})
    /\ tstate' = [tstate EXCEPT ![Top(t).ctx] = t]
    /\ MoveTo(t, "op")
    /\ UNCHANGED mutex

\* Py_CLEAR in a setter drops the last reference to a callable.
EnterFinalizer(t) ==
    /\ At(t, {"access"})
    /\ MoveTo(t, "finalizer")
    /\ UNCHANGED <<mutex, tstate>>

\* Mutant: the thread state is left behind in the context.
EndOperationKeepsState(t) ==
    /\ At(t, {"op"})
    /\ mutex' = [mutex EXCEPT ![Top(t).ctx] = NULL]
    /\ Pop(t)
    /\ UNCHANGED tstate

\* Mutant: the mutex is not released.
EndOperationKeepsMutex(t) ==
    /\ At(t, {"op"})
    /\ tstate' = [tstate EXCEPT ![Top(t).ctx] = NULL]
    /\ Pop(t)
    /\ UNCHANGED mutex

\* end_allow_threads: restore, clear the thread state, release.
EndOperation(t) ==
    /\ At(t, {"op"})
    /\ tstate' = [tstate EXCEPT ![Top(t).ctx] = NULL]
    /\ mutex' = [mutex EXCEPT ![Top(t).ctx] = NULL]
    /\ Pop(t)

\* The setter or getter does its work; unlock_context.
EndAccess(t) ==
    /\ At(t, {"access", "finalizer"})
    /\ mutex' = [mutex EXCEPT ![Top(t).ctx] = NULL]
    /\ Pop(t)
    /\ UNCHANGED tstate

Begin(t) == BeginOperation(t) \/ BeginAccess(t)

Next ==
    \E t \in Threads :
        \/ Call(t) \/ Begin(t) \/ EnterCallback(t) \/ LeaveCallback(t)
        \/ EnterFinalizer(t) \/ EndOperation(t) \/ EndAccess(t)

Spec == Init /\ [][Next]_vars

(* At every depth Python code returns, an operation calls back finitely     *)
(* often, and a lock that is released again and again is obtained in the    *)
(* end.                                                                     *)
Fairness ==
    \A t \in Threads, d \in 1 .. MaxDepth :
        /\ SF_vars(Len(stack[t]) = d /\ Begin(t))
        /\ SF_vars(Len(stack[t]) = d /\ LeaveCallback(t))
        /\ SF_vars(Len(stack[t]) = d /\ EndOperation(t))
        /\ SF_vars(Len(stack[t]) = d /\ EndAccess(t))

FairSpec == Spec /\ Fairness

-----------------------------------------------------------------------------
(* Properties.                                                             *)

\* The assertions of the locking protocol survive nesting: an operation finds
\* the slot of its context empty, its callbacks and its end find the calling
\* thread's state there, whatever calls the callbacks made meanwhile.
AssertionsHold ==
    \A t \in Threads, i \in 1 .. MaxDepth :
        i <= Len(stack[t]) =>
            LET f == stack[t][i] IN
            /\ f.at \in {"op", "callback"} => tstate[f.ctx] = t
            /\ f.at = "op_acquire" /\ mutex[f.ctx] = NULL
                   => tstate[f.ctx] = NULL

\* Thread t waits for a mutex that thread u holds.
WaitsFor(t, u) ==
    /\ At(t, {"op_acquire", "access_acquire"})
    /\ mutex[Top(t).ctx] = u

\* No set of threads waits in a circle: no thread waits for a mutex it holds
\* itself, nor for one that is only released after it has released its own.
NoCircularWait ==
    \A S \in SUBSET Threads :
        S # {} => \E t \in S : \A u \in S : ~ WaitsFor(t, u)

\* Every call returns, and with it everything that waits for it.
EveryCallReturns == \A t \in Threads : ~ Idle(t) ~> Idle(t)
=============================================================================
