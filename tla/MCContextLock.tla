--------------------------- MODULE MCContextLock ---------------------------
(* Small instances of ContextLock.                                         *)
EXTENDS ContextLock

\* Every thread calls methods of every context.
Shared == [t \in Threads |-> Contexts]

\* t1 has a context of its own and shares the other one.
CONSTANTS t1, c1
OneOwn == [t \in Threads |-> IF t = t1 THEN Contexts ELSE Contexts \ {c1}]
=============================================================================
