--------------------------- MODULE MCNestedCalls ---------------------------
(* A small instance of NestedCalls.                                        *)
EXTENDS NestedCalls

CONSTANTS c1, c2, c3

\* Callbacks use contexts in one direction only.
Ordered ==
    [c \in Contexts |-> CASE c = c1 -> {c2, c3} \cap Contexts
                          [] c = c2 -> {c3} \cap Contexts
                          [] OTHER  -> {}]
=============================================================================
