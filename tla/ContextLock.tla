---------------------------- MODULE ContextLock ----------------------------
(***************************************************************************)
(* The locking protocol of gpgme.Context (lib/pygpgme-context.c).          *)
(*                                                                         *)
(* Every context has a mutex and a slot, tstate, for the Python thread     *)
(* state of the thread that is inside a gpgme_op_* call on it.  A method   *)
(* that runs an operation brackets it with begin_allow_threads and         *)
(* end_allow_threads; an attribute getter or setter brackets its body with *)
(* lock_context and unlock_context; KeyIter.__next__ only detaches from    *)
(* the interpreter.  The library calls Python back from inside an          *)
(* operation: the C trampoline re-attaches the saved thread state, calls   *)
(* the callable and saves the thread state again.                          *)
(*                                                                         *)
(* A thread that runs Python code is attached to the interpreter.  On a    *)
(* build with a GIL at most one thread is attached at a time; the module   *)
(* declares Py_MOD_GIL_NOT_USED, so on a free-threaded build any number    *)
(* is.  The constant GIL selects the build.                                *)
(*                                                                         *)
(* A callable here does not itself call into a context: nested calls are   *)
(* the subject of NestedCalls.                                             *)
(***************************************************************************)
EXTENDS Naturals, FiniteSets

CONSTANTS
    Threads,    \* threads of one interpreter
    Contexts,   \* gpgme.Context objects
    Slots,      \* callback attributes: passphrase_cb, progress_cb
    Callables,  \* Python objects a program installs in a slot
    Uses,       \* Uses[t]: the contexts thread t calls methods of
    GIL,        \* TRUE: at most one thread is attached to the interpreter
    NULL        \* C's NULL, also Python's None for a slot

ASSUME UsesAssumption == Uses \in [Threads -> SUBSET Contexts]
ASSUME GILAssumption  == GIL \in BOOLEAN
ASSUME NullAssumption == /\ NULL \notin Threads
                         /\ NULL \notin Contexts
                         /\ NULL \notin Slots
                         /\ NULL \notin Callables

VARIABLES
    attached,   \* threads attached to the interpreter
    mutex,      \* mutex[c]: the thread that holds c's mutex, or NULL
    tstate,     \* tstate[c]: the thread whose PyThreadState is saved, or NULL
    callable,   \* callable[c][s]: the Python object in the slot, or NULL
    hooked,     \* hooked[c][s]: the C trampoline is registered with gpgme
    opdata,     \* opdata[c]: the thread whose operation left gpgme's result
    pc,         \* pc[t]: where thread t is
    self,       \* self[t]: the context of the call thread t is making, or NULL
    what,       \* what[t]: the kind of that call
    slot,       \* slot[t]: the slot it accesses, or the library calls, or NULL
    value       \* value[t]: the object it installs, returns or calls, or NULL

vars == <<attached, mutex, tstate, callable, hooked, opdata, pc,
          self, what, slot, value>>

\* What the interpreter knows of the call a thread is making.
request == <<self, what, slot, value>>

-----------------------------------------------------------------------------
(* Types.                                                                  *)

\* "op" reads its gpgme_op_*_result after the operation, "plain" does not.
Operations == {"op", "plain"}
Accesses   == {"get", "set"}

Calls == Operations \cup Accesses \cup {"next", "none"}

\* Where a thread runs interpreted code and may be preempted: between calls,
\* in a callback, and in the __del__ of a callable Py_CLEAR has dropped.
PythonCode == {"python", "callback", "finalizer"}

\* Inside begin_allow_threads ... end_allow_threads, tstate being set.
InOperation == {"start", "op", "cb_restore", "callback", "end_restore",
                "end_clear"}

\* Inside lock_context ... unlock_context.
InAccess == {"lock_restore", "get", "set", "finalizer", "install", "unlock"}

\* The locations at which a thread holds the mutex of its context.
Holding == InOperation \cup InAccess \cup {"begin_set", "end_release"}

\* The locations at which C code uses the Python API.
UsesPython == {"end_clear", "end_release", "result", "get", "set", "install",
               "unlock"}

Location == PythonCode \cup Holding \cup
            {"acquire", "result", "next", "next_restore"}

TypeOK ==
    /\ attached \subseteq Threads
    /\ mutex \in [Contexts -> Threads \cup {NULL}]
    /\ tstate \in [Contexts -> Threads \cup {NULL}]
    /\ callable \in [Contexts -> [Slots -> Callables \cup {NULL}]]
    /\ hooked \in [Contexts -> [Slots -> BOOLEAN]]
    /\ opdata \in [Contexts -> Threads \cup {NULL}]
    /\ pc \in [Threads -> Location]
    /\ self \in [Threads -> Contexts \cup {NULL}]
    /\ what \in [Threads -> Calls]
    /\ slot \in [Threads -> Slots \cup {NULL}]
    /\ value \in [Threads -> Callables \cup {NULL}]

-----------------------------------------------------------------------------
(* The interpreter.                                                        *)

\* PyEval_RestoreThread blocks until the GIL, if there is one, is free.
CanAttach == GIL => attached = {}

Goto(t, from, to) ==
    /\ pc[t] = from
    /\ pc' = [pc EXCEPT ![t] = to]

Ask(t, c, k, s, v) ==
    /\ self' = [self EXCEPT ![t] = c]
    /\ what' = [what EXCEPT ![t] = k]
    /\ slot' = [slot EXCEPT ![t] = s]
    /\ value' = [value EXCEPT ![t] = v]

\* Back in the interpreter: the arguments of the call are forgotten.
Return(t, from) ==
    /\ Goto(t, from, "python")
    /\ Ask(t, NULL, "none", NULL, NULL)

Init ==
    /\ attached \in {S \in SUBSET Threads : GIL => Cardinality(S) <= 1}
    /\ mutex = [c \in Contexts |-> NULL]
    /\ tstate = [c \in Contexts |-> NULL]
    /\ callable = [c \in Contexts |-> [s \in Slots |-> NULL]]
    /\ hooked = [c \in Contexts |-> [s \in Slots |-> FALSE]]
    /\ opdata = [c \in Contexts |-> NULL]
    /\ pc = [t \in Threads |-> "python"]
    /\ self = [t \in Threads |-> NULL]
    /\ what = [t \in Threads |-> "none"]
    /\ slot = [t \in Threads |-> NULL]
    /\ value = [t \in Threads |-> NULL]

\* The eval loop gives up the interpreter, or the code blocks.
Preempt(t) ==
    /\ pc[t] \in PythonCode
    /\ t \in attached
    /\ attached' = attached \ {t}
    /\ UNCHANGED <<mutex, tstate, callable, hooked, opdata, pc, request>>

Resume(t) ==
    /\ pc[t] \in PythonCode
    /\ t \notin attached
    /\ CanAttach
    /\ attached' = attached \cup {t}
    /\ UNCHANGED <<mutex, tstate, callable, hooked, opdata, pc, request>>

-----------------------------------------------------------------------------
(* Taking and giving back the mutex.                                       *)

\* A method is called and detaches: PyEval_SaveThread in begin_allow_threads,
\* Py_BEGIN_ALLOW_THREADS in lock_context and in KeyIter.__next__.
Call(t, c, k, s, v, to) ==
    /\ t \in attached
    /\ c \in Uses[t]
    /\ Goto(t, "python", to)
    /\ Ask(t, c, k, s, v)
    /\ attached' = attached \ {t}
    /\ UNCHANGED <<mutex, tstate, callable, hooked, opdata>>

CallOperation(t) ==
    \E c \in Contexts, k \in Operations : Call(t, c, k, NULL, NULL, "acquire")

CallGetter(t) ==
    \E c \in Contexts, s \in Slots : Call(t, c, "get", s, NULL, "acquire")

\* None and a deleted attribute both arrive as a NULL value.
CallSetter(t) ==
    \E c \in Contexts, s \in Slots, v \in Callables \cup {NULL} :
        Call(t, c, "set", s, v, "acquire")

CallNext(t) == \E c \in Contexts : Call(t, c, "next", NULL, NULL, "next")

\* Mutant: the result of a non-blocking PyThread_acquire_lock is ignored.
AcquireNoWait(t) ==
    /\ Goto(t, "acquire",
            IF what[t] \in Operations THEN "begin_set" ELSE "lock_restore")
    /\ mutex' = [mutex EXCEPT ![self[t]] = t]
    /\ UNCHANGED <<attached, tstate, callable, hooked, opdata, request>>

\* PyThread_acquire_lock(self->mutex, WAIT_LOCK), detached.
Acquire(t) ==
    LET c == self[t] IN
    /\ Goto(t, "acquire",
            IF what[t] \in Operations THEN "begin_set" ELSE "lock_restore")
    /\ mutex[c] = NULL
    /\ mutex' = [mutex EXCEPT ![c] = t]
    /\ UNCHANGED <<attached, tstate, callable, hooked, opdata, request>>

\* assert(self->tstate == NULL); self->tstate = tstate;
BeginSet(t) ==
    /\ Goto(t, "begin_set", "start")
    /\ tstate' = [tstate EXCEPT ![self[t]] = t]
    /\ UNCHANGED <<attached, mutex, callable, hooked, opdata, request>>

\* Mutant: end_allow_threads releases the mutex first.
EndRestoreReleases(t) ==
    /\ CanAttach
    /\ Goto(t, "end_restore", "end_clear")
    /\ attached' = attached \cup {tstate[self[t]]}
    /\ mutex' = [mutex EXCEPT ![self[t]] = NULL]
    /\ UNCHANGED <<tstate, callable, hooked, opdata, request>>

\* assert(self->tstate != NULL); PyEval_RestoreThread(self->tstate);
EndRestore(t) ==
    /\ CanAttach
    /\ Goto(t, "end_restore", "end_clear")
    /\ attached' = attached \cup {tstate[self[t]]}
    /\ UNCHANGED <<mutex, tstate, callable, hooked, opdata, request>>

\* Mutant: end_allow_threads forgets to reset the thread state.
EndClearNoReset(t) ==
    /\ Goto(t, "end_clear", "end_release")
    /\ UNCHANGED <<attached, mutex, tstate, callable, hooked, opdata, request>>

\* self->tstate = NULL;
EndClear(t) ==
    /\ Goto(t, "end_clear", "end_release")
    /\ tstate' = [tstate EXCEPT ![self[t]] = NULL]
    /\ UNCHANGED <<attached, mutex, callable, hooked, opdata, request>>

\* PyThread_release_lock(self->mutex);
EndRelease(t) ==
    /\ Goto(t, "end_release", "result")
    /\ mutex' = [mutex EXCEPT ![self[t]] = NULL]
    /\ UNCHANGED <<attached, tstate, callable, hooked, opdata, request>>

\* The method checks the error and, for an "op", reads the result with
\* gpgme_op_*_result(self->ctx) and converts it.
ReadResult(t) ==
    /\ Return(t, "result")
    /\ UNCHANGED <<attached, mutex, tstate, callable, hooked, opdata>>

-----------------------------------------------------------------------------
(* Inside a gpgme operation.                                               *)

\* The library forgets the result of the context's previous operation.
GpgmeStart(t) ==
    /\ Goto(t, "start", "op")
    /\ opdata' = [opdata EXCEPT ![self[t]] = NULL]
    /\ UNCHANGED <<attached, mutex, tstate, callable, hooked, request>>

\* The library calls a registered trampoline (a slot) or one of the four
\* callbacks of a data object (NULL): assert(self->tstate != NULL).
GpgmeCallback(t) ==
    \E s \in Slots \cup {NULL} :
        /\ Goto(t, "op", "cb_restore")
        /\ s \in Slots => hooked[self[t]][s]
        /\ slot' = [slot EXCEPT ![t] = s]
        /\ UNCHANGED <<attached, mutex, tstate, callable, hooked, opdata,
                       self, what, value>>

\* PyEval_RestoreThread(self->tstate); PyObject_CallFunction(self->..._cb).
CallbackEnter(t) ==
    LET c == self[t]
        s == slot[t] IN
    /\ CanAttach
    /\ Goto(t, "cb_restore", "callback")
    /\ attached' = attached \cup {tstate[c]}
    /\ value' = [value EXCEPT ![t] =
                    IF s \in Slots THEN callable[c][s] ELSE NULL]
    /\ UNCHANGED <<mutex, tstate, callable, hooked, opdata, self, what, slot>>

\* Mutant: the trampoline does not store what PyEval_SaveThread returns.
CallbackLeaveNoSave(t) ==
    /\ t \in attached
    /\ Goto(t, "callback", "op")
    /\ attached' = attached \ {t}
    /\ tstate' = [tstate EXCEPT ![self[t]] = NULL]
    /\ slot' = [slot EXCEPT ![t] = NULL]
    /\ value' = [value EXCEPT ![t] = NULL]
    /\ UNCHANGED <<mutex, callable, hooked, opdata, self, what>>

\* self->tstate = PyEval_SaveThread();
CallbackLeave(t) ==
    /\ t \in attached
    /\ Goto(t, "callback", "op")
    /\ attached' = attached \ {t}
    /\ tstate' = [tstate EXCEPT ![self[t]] = t]
    /\ slot' = [slot EXCEPT ![t] = NULL]
    /\ value' = [value EXCEPT ![t] = NULL]
    /\ UNCHANGED <<mutex, callable, hooked, opdata, self, what>>

\* The operation ends and leaves its result in the context.
GpgmeFinish(t) ==
    /\ Goto(t, "op", "end_restore")
    /\ opdata' = [opdata EXCEPT ![self[t]] = t]
    /\ UNCHANGED <<attached, mutex, tstate, callable, hooked, request>>

-----------------------------------------------------------------------------
(* Getter and setter of a callback slot.                                   *)

\* Mutant: lock_context returns without re-attaching.
LockRestoreDetached(t) ==
    /\ Goto(t, "lock_restore", what[t])
    /\ UNCHANGED <<attached, mutex, tstate, callable, hooked, opdata, request>>

\* Py_END_ALLOW_THREADS in lock_context, holding the mutex.
LockRestore(t) ==
    /\ CanAttach
    /\ Goto(t, "lock_restore", what[t])
    /\ attached' = attached \cup {t}
    /\ UNCHANGED <<mutex, tstate, callable, hooked, opdata, request>>

GetCallback(t) ==
    LET c == self[t]
        s == slot[t] IN
    /\ Goto(t, "get", "unlock")
    /\ value' = [value EXCEPT ![t] =
                    IF hooked[c][s] THEN callable[c][s] ELSE NULL]
    /\ UNCHANGED <<attached, mutex, tstate, callable, hooked, opdata,
                   self, what, slot>>

\* Py_CLEAR(self->passphrase_cb): the old object may be finalized.
ClearCallback(t) ==
    LET c == self[t]
        s == slot[t] IN
    /\ Goto(t, "set", IF callable[c][s] = NULL THEN "install" ELSE "finalizer")
    /\ callable' = [callable EXCEPT ![c][s] = NULL]
    /\ UNCHANGED <<attached, mutex, tstate, hooked, opdata, request>>

\* Mutant: unsetting a callback leaves the trampoline registered.
InstallKeepsHook(t) ==
    LET c == self[t]
        s == slot[t]
        v == value[t] IN
    /\ pc[t] \in {"install", "finalizer"}
    /\ t \in attached
    /\ pc' = [pc EXCEPT ![t] = "unlock"]
    /\ callable' = [callable EXCEPT ![c][s] = v]
    /\ hooked' = [hooked EXCEPT ![c][s] = @ \/ v # NULL]
    /\ UNCHANGED <<attached, mutex, tstate, opdata, request>>

\* Mutant: unsetting a callback returns without unlock_context.
InstallReturnsLocked(t) ==
    LET c == self[t]
        s == slot[t]
        v == value[t] IN
    /\ pc[t] \in {"install", "finalizer"}
    /\ t \in attached
    /\ callable' = [callable EXCEPT ![c][s] = v]
    /\ hooked' = [hooked EXCEPT ![c][s] = (v # NULL)]
    /\ IF v = NULL
       THEN /\ pc' = [pc EXCEPT ![t] = "python"]
            /\ Ask(t, NULL, "none", NULL, NULL)
       ELSE /\ pc' = [pc EXCEPT ![t] = "unlock"]
            /\ UNCHANGED request
    /\ UNCHANGED <<attached, mutex, tstate, opdata>>

InstallCallback(t) ==
    LET c == self[t]
        s == slot[t]
        v == value[t] IN
    /\ pc[t] \in {"install", "finalizer"}
    /\ t \in attached
    /\ pc' = [pc EXCEPT ![t] = "unlock"]
    /\ callable' = [callable EXCEPT ![c][s] = v]
    /\ hooked' = [hooked EXCEPT ![c][s] = (v # NULL)]
    /\ UNCHANGED <<attached, mutex, tstate, opdata, request>>

Unlock(t) ==
    /\ Return(t, "unlock")
    /\ mutex' = [mutex EXCEPT ![self[t]] = NULL]
    /\ UNCHANGED <<attached, tstate, callable, hooked, opdata>>

-----------------------------------------------------------------------------
(* KeyIter.__next__: detached, but without the context's mutex.            *)

NextKey(t) ==
    /\ Goto(t, "next", "next_restore")
    /\ UNCHANGED <<attached, mutex, tstate, callable, hooked, opdata, request>>

NextReturn(t) ==
    /\ CanAttach
    /\ Return(t, "next_restore")
    /\ attached' = attached \cup {t}
    /\ UNCHANGED <<mutex, tstate, callable, hooked, opdata>>

-----------------------------------------------------------------------------
Operate(t) ==
    \/ BeginSet(t) \/ GpgmeStart(t) \/ GpgmeCallback(t) \/ CallbackEnter(t)
    \/ CallbackLeave(t) \/ GpgmeFinish(t) \/ EndRestore(t) \/ EndClear(t)
    \/ EndRelease(t) \/ ReadResult(t)

Access(t) ==
    \/ LockRestore(t) \/ GetCallback(t) \/ ClearCallback(t)
    \/ InstallCallback(t) \/ Unlock(t)

Next ==
    \E t \in Threads :
        \/ Preempt(t) \/ Resume(t)
        \/ CallOperation(t) \/ CallGetter(t) \/ CallSetter(t) \/ CallNext(t)
        \/ Acquire(t) \/ Operate(t) \/ Access(t)
        \/ NextKey(t) \/ NextReturn(t)

Spec == Init /\ [][Next]_vars

-----------------------------------------------------------------------------
(* The monitor a context implements.  The mutex is the monitor; a slot that *)
(* has been cleared and not yet filled already has its new value.           *)

Holder(c) ==
    IF mutex[c] = NULL THEN NULL
    ELSE [by  |-> mutex[c],
          for |-> IF what[mutex[c]] \in Operations
                  THEN "operation" ELSE "access"]

\* Thread t is between Py_CLEAR of slot s and the assignment of the new value.
Replacing(t, c, s) ==
    /\ pc[t] \in {"install", "finalizer"}
    /\ self[t] = c
    /\ slot[t] = s

Installed(c, s) ==
    IF mutex[c] # NULL /\ Replacing(mutex[c], c, s)
    THEN value[mutex[c]] ELSE callable[c][s]

Seen(t) ==
    IF pc[t] = "callback" \/ (pc[t] = "unlock" /\ what[t] = "get")
    THEN value[t] ELSE NULL

Monitor == INSTANCE ContextMonitor WITH
    holder    <- [c \in Contexts |-> Holder(c)],
    installed <- [c \in Contexts |-> [s \in Slots |-> Installed(c, s)]],
    seen      <- [t \in Threads |-> Seen(t)],
    result    <- opdata

\* Every context behaves as a monitor: what threads see of its attributes and
\* operations is what they would see if each access were a single step.
ImplementsMonitor == Monitor!Spec

-----------------------------------------------------------------------------
(* The inductive invariant behind the safety properties.                   *)

\* Where a thread waits, or is in the library, without its thread state.
Detached == {"acquire", "begin_set", "start", "op", "cb_restore",
             "end_restore", "lock_restore", "next", "next_restore"}

\* A thread's location and the call it is making agree.
CallConsistent ==
    \A t \in Threads :
        /\ pc[t] # "python" => self[t] \in Contexts
        /\ pc[t] = "acquire" => what[t] \in Operations \cup Accesses
        /\ pc[t] \in InOperation \cup {"begin_set", "end_release", "result"}
               => what[t] \in Operations
        /\ pc[t] \in InAccess => what[t] \in Accesses
        /\ pc[t] = "get" => what[t] = "get"
        /\ pc[t] \in {"set", "finalizer", "install"} => what[t] = "set"
        /\ what[t] \in Accesses => slot[t] \in Slots

\* The mutex of a context is held by the one thread that is past Acquire.
MutexConsistent ==
    /\ \A t \in Threads : pc[t] \in Holding => mutex[self[t]] = t
    /\ \A c \in Contexts : mutex[c] # NULL =>
           pc[mutex[c]] \in Holding /\ self[mutex[c]] = c

\* The saved thread state is that of the thread inside the operation.
TstateConsistent ==
    /\ \A t \in Threads : pc[t] \in InOperation => tstate[self[t]] = t
    /\ \A c \in Contexts : tstate[c] # NULL =>
           pc[tstate[c]] \in InOperation /\ self[tstate[c]] = c

AttachedConsistent ==
    \A t \in Threads :
        /\ pc[t] \in UsesPython => t \in attached
        /\ pc[t] \in Detached => t \notin attached

\* A slot differs from its registration only while it is being replaced.
HookConsistent ==
    \A c \in Contexts, s \in Slots :
        \/ hooked[c][s] <=> callable[c][s] # NULL
        \/ \E t \in Threads : Replacing(t, c, s)

\* The object a trampoline is about to call, or is calling, is in its slot.
CalledConsistent ==
    \A t \in Threads :
        slot[t] \in Slots =>
            /\ pc[t] = "cb_restore" => hooked[self[t]][slot[t]]
            /\ pc[t] = "callback" => /\ value[t] # NULL
                                     /\ callable[self[t]][slot[t]] = value[t]

IndInv ==
    /\ TypeOK
    /\ CallConsistent
    /\ MutexConsistent
    /\ TstateConsistent
    /\ AttachedConsistent
    /\ HookConsistent
    /\ CalledConsistent

-----------------------------------------------------------------------------
(* Fairness.  A thread inside a call takes its next step (C code does not  *)
(* stop); the interpreter is handed over (CPython makes a thread that      *)
(* drops the GIL on request wait until another one has taken it), so a     *)
(* thread that waits for it again and again gets it; a callback returns,   *)
(* and an operation calls back finitely often.  Nothing obliges a thread   *)
(* to call a method.                                                       *)

Running(t) ==
    \/ BeginSet(t) \/ GpgmeStart(t) \/ EndClear(t) \/ EndRelease(t)
    \/ ReadResult(t) \/ GetCallback(t) \/ ClearCallback(t) \/ Unlock(t)
    \/ NextKey(t) \/ Acquire(t)

Attaching(t) ==
    \/ Resume(t) \/ EndRestore(t) \/ CallbackEnter(t) \/ LockRestore(t)
    \/ NextReturn(t)

Fairness ==
    \A t \in Threads :
        /\ WF_vars(Running(t))
        /\ WF_vars(Preempt(t))
        /\ SF_vars(Attaching(t))
        /\ SF_vars(CallbackLeave(t))
        /\ SF_vars(InstallCallback(t))
        /\ SF_vars(GpgmeFinish(t))

\* A lock that is released again and again is obtained in the end: what a
\* platform with starvation-free locks gives.
LockFairness == \A t \in Threads : SF_vars(Acquire(t))

FairSpec == Spec /\ Fairness /\ LockFairness

-----------------------------------------------------------------------------
(* Properties.                                                             *)

\* The four assert() of the locking protocol: begin_allow_threads finds the
\* slot for the thread state empty, end_allow_threads and the callback
\* trampolines find it filled, and with the state of the calling thread.
AssertionsHold ==
    \A t \in Threads :
        /\ pc[t] = "begin_set" => tstate[self[t]] = NULL
        /\ pc[t] \in {"cb_restore", "end_restore"} => tstate[self[t]] = t

\* C code that touches Python objects runs with its own thread state
\* attached: PyEval_RestoreThread never resumes another thread's state.  A
\* thread waits for a context's mutex, or sits inside the library, only after
\* it has let go of the interpreter: the GIL and a mutex are never waited for
\* in opposite orders.
AttachmentDiscipline ==
    \A t \in Threads :
        /\ pc[t] \in UsesPython => t \in attached
        /\ pc[t] \in Detached => t \notin attached

\* Two calls that take the mutex of a context are never both inside it.
MutualExclusion ==
    \A t, u \in Threads :
        t # u /\ pc[t] \in Holding /\ pc[u] \in Holding => self[t] # self[u]

\* Whenever the library may call a trampoline, or a getter looks at a slot,
\* the registration with gpgme and the Python reference agree: a trampoline
\* never calls NULL, a getter never returns it.
HookMatchesCallable ==
    \A t \in Threads :
        pc[t] \in {"start", "op", "cb_restore", "get"} =>
            \A s \in Slots :
                hooked[self[t]][s] <=> callable[self[t]][s] # NULL

\* The object a trampoline is calling stays in its slot until it returns: the
\* borrowed reference given to PyObject_CallFunction stays valid.
CalledStaysInstalled ==
    \A t \in Threads :
        pc[t] = "callback" /\ slot[t] \in Slots =>
            /\ value[t] # NULL
            /\ callable[self[t]][slot[t]] = value[t]

\* An operation runs from start to end with the callbacks it started with.
CallbacksFixedDuringOperation ==
    [][\A t \in Threads :
           pc[t] \in InOperation =>
               /\ callable'[self[t]] = callable[self[t]]
               /\ hooked'[self[t]] = hooked[self[t]]]_vars

\* The result a method reads after its operation is that operation's own.
ResultIsOwn ==
    \A t \in Threads :
        pc[t] = "result" /\ what[t] = "op" => opdata[self[t]] = t

\* It is until end_allow_threads has released the mutex: whatever other threads
\* do, the release is what exposes it, and a method that read its result inside
\* the operation's lock would read its own.
ResultIsOwnUntilRelease ==
    \A t \in Threads :
        pc[t] \in {"end_restore", "end_clear", "end_release"}
            => opdata[self[t]] = t

\* Every call on a context returns to the interpreter.
EveryCallReturns ==
    \A t \in Threads : pc[t] # "python" ~> pc[t] = "python"
=============================================================================
