-------------------------- MODULE ContextMonitor --------------------------
(***************************************************************************)
(* What a gpgme.Context promises the threads of a program: it is a         *)
(* monitor.  One thread at a time is inside, to run an operation or to     *)
(* access a callback attribute; an attribute changes in one step and only  *)
(* in an access; a callback that an operation invokes, and the value that  *)
(* a getter returns, is the object installed at that moment; the result of *)
(* an operation is forgotten when the next one starts.                     *)
(*                                                                         *)
(* ContextLock implements this specification with a mutex, thread states   *)
(* and a reference that is first cleared and then filled again.            *)
(***************************************************************************)
CONSTANTS Threads, Contexts, Slots, Callables, NULL

VARIABLES
    holder,     \* holder[c]: who is inside c and what for, or NULL
    installed,  \* installed[c][s]: the object in the slot, or NULL
    seen,       \* seen[t]: the object t has taken from a slot, or NULL
    result      \* result[c]: the thread whose result c keeps, or NULL

vars == <<holder, installed, seen, result>>

Purpose == {"operation", "access"}

Inside(t, c, p) == holder[c] = [by |-> t, for |-> p]

Init ==
    /\ holder = [c \in Contexts |-> NULL]
    /\ installed = [c \in Contexts |-> [s \in Slots |-> NULL]]
    /\ seen = [t \in Threads |-> NULL]
    /\ result = [c \in Contexts |-> NULL]

Enter(t, c, p) ==
    /\ holder[c] = NULL
    /\ holder' = [holder EXCEPT ![c] = [by |-> t, for |-> p]]
    /\ UNCHANGED <<installed, seen, result>>

\* A getter reads a slot, or an operation invokes the object in it.
Look(t, c, s) ==
    /\ \E p \in Purpose : Inside(t, c, p)
    /\ seen' = [seen EXCEPT ![t] = installed[c][s]]
    /\ UNCHANGED <<holder, installed, result>>

\* The object that was invoked returns to the operation.
Drop(t, c) ==
    /\ Inside(t, c, "operation")
    /\ seen' = [seen EXCEPT ![t] = NULL]
    /\ UNCHANGED <<holder, installed, result>>

Install(t, c, s, v) ==
    /\ Inside(t, c, "access")
    /\ installed' = [installed EXCEPT ![c][s] = v]
    /\ UNCHANGED <<holder, seen, result>>

Start(t, c) ==
    /\ Inside(t, c, "operation")
    /\ result' = [result EXCEPT ![c] = NULL]
    /\ UNCHANGED <<holder, installed, seen>>

Finish(t, c) ==
    /\ Inside(t, c, "operation")
    /\ result' = [result EXCEPT ![c] = t]
    /\ UNCHANGED <<holder, installed, seen>>

Leave(t, c, p) ==
    /\ Inside(t, c, p)
    /\ holder' = [holder EXCEPT ![c] = NULL]
    /\ seen' = [seen EXCEPT ![t] = NULL]
    /\ UNCHANGED <<installed, result>>

Next ==
    \E t \in Threads, c \in Contexts :
        \/ \E p \in Purpose : Enter(t, c, p) \/ Leave(t, c, p)
        \/ \E s \in Slots : Look(t, c, s)
        \/ \E s \in Slots, v \in Callables \cup {NULL} : Install(t, c, s, v)
        \/ Drop(t, c) \/ Start(t, c) \/ Finish(t, c)

Spec == Init /\ [][Next]_vars
=============================================================================
