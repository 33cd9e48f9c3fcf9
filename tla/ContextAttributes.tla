------------------------- MODULE ContextAttributes -------------------------
(***************************************************************************)
(* The attributes of gpgme.Context that live in the library                *)
(* (lib/pygpgme-context.c), and its engine info and locale: threads assign *)
(* and read them, and run operations that depend on them.                  *)
(*                                                                         *)
(* A scalar attribute is converted before the mutex is taken and set by    *)
(* one call of the library.  signers and sig_notations are lists in the    *)
(* library: a setter clears the list and adds the items one by one, a      *)
(* getter enumerates it.  The attributes do not depend on each other, so a *)
(* behaviour is about one of them.  Callback attributes are the subject of *)
(* ContextLock.                                                            *)
(***************************************************************************)
EXTENDS Naturals, Sequences, FiniteSets, FiniteSetsExt, SequencesExt

CONSTANTS
    Threads,    \* threads that use the context
    Items,      \* Key or SigNotation objects
    BadItem,    \* an item of another type, or one the library refuses
    LossyItem,  \* a SigNotation whose name or value has no UTF-8 form
    CutItem,    \* what the library stores for it: NULL for that name or value
    MaxItems,   \* bound on the length of an assigned sequence
    NULL

ASSUME ItemsAssumption ==
    /\ BadItem \notin Items \cup {LossyItem, CutItem}
    /\ LossyItem \notin Items \cup {CutItem}
    /\ CutItem \notin Items
ASSUME NullAssumption    == NULL \notin Threads

-----------------------------------------------------------------------------
(* The attributes.  convert maps the Python value of an assignment to a C  *)
(* value or to "error", accepted holds what the library does not refuse.   *)

Numbers  == {"0", "1", "2"}
PyValues == Numbers \cup {"2^32", "address", "text", "surrogate", "None"}

\* PyLong_AsLong, put in a C variable of 32 bits; nothing but a number is
\* accepted.
Number(accepted) ==
    [convert  |-> [v \in PyValues |-> IF v \in Numbers THEN v
                                      ELSE IF v = "2^32" THEN "0"
                                      ELSE "error"],
     accepted |-> accepted]

\* PyArg_ParseTuple with "i": a number that is too large for an int raises
\* OverflowError.
ParsedInt(accepted) ==
    [convert  |-> [v \in PyValues |-> IF v \in Numbers THEN v ELSE "error"],
     accepted |-> accepted]

\* PyLong_AsLong(value) != 0.
Flag ==
    [convert  |-> [v \in PyValues |-> IF v = "0" THEN "0"
                                      ELSE IF v \in Numbers \cup {"2^32"} THEN "1"
                                      ELSE "error"],
     accepted |-> {"0", "1"}]

Protocol     == Number({"0", "1"})
Armor        == Flag
Textmode     == Flag
Offline      == Flag
IncludeCerts == Number(Numbers)
KeylistMode  == Number(Numbers)
PinentryMode == Number({"0", "1"})

\* A string or None, which unsets it; the library refuses a string that is
\* not an address.  A string without a UTF-8 form also unsets it: the setter
\* does not look at the failure of PyUnicode_AsUTF8AndSize (see Lossy).
Sender ==
    [convert  |-> [v \in PyValues |->
                      IF v \in {"None", "surrogate"} THEN "unset"
                      ELSE IF v \in {"address", "text"} THEN v
                      ELSE "error"],
     accepted |-> {"unset", "address"}]

\* Methods rather than attributes, but with the same life: set_engine_info
\* refuses an unknown protocol ("2"), set_locale an unknown category.
\* get_engine_info asks for the list of the context's engines before it takes
\* the mutex, and reads it afterwards: the library keeps that list for the life
\* of the context and changes it in place.
EngineInfo == ParsedInt({"0", "1"})
Locale     == ParsedInt({"0", "1"})

Scalars ==
    [protocol |-> Protocol, armor |-> Armor, textmode |-> Textmode,
     offline |-> Offline, include_certs |-> IncludeCerts,
     keylist_mode |-> KeylistMode, pinentry_mode |-> PinentryMode,
     sender |-> Sender, engine_info |-> EngineInfo, locale |-> Locale]

Lists == {"signers", "sig_notations"}

\* The sequences that may be assigned to list a.  A key is not converted.
Assignable(a) ==
    SeqOf(Items \cup {BadItem}
                \cup (IF a = "sig_notations" THEN {LossyItem} ELSE {}), MaxItems)

\* What the library is given for an item: the setter does not look at a failed
\* conversion of the name or the value, and passes NULL.
AsAdded(item) == IF item = LossyItem THEN CutItem ELSE item
Stored        == Items \cup {CutItem}

-----------------------------------------------------------------------------
VARIABLES
    attr,       \* the attribute this behaviour is about
    stored,     \* its value in the library: one C value, or the items
    mutex,      \* the thread that holds the context's mutex, or NULL
    pc,         \* pc[t]: where thread t is
    doing,      \* doing[t]: "set", "get" or "op"
    arg,        \* arg[t]: what it assigns: <<Python value>> or the items
    left,       \* left[t]: the items it has still to add
    got,        \* got[t]: what its getter has read
    raised,     \* raised[t]: what its last call did with exceptions (Raised)
    last        \* what the last assignment to take the mutex amounts to

vars == <<attr, stored, mutex, pc, doing, arg, left, got, raised, last>>
call == <<doing, arg>>

InAccess == {"set", "clear", "add", "get", "enum", "unlock"}
Holding  == InAccess \cup {"op"}

CValues == Numbers \cup {"unset", "address", "text"}

\* The call returns -1 or NULL ("yes"), or it returns its result although an
\* exception is set ("unseen").
Raised == {"no", "yes", "unseen"}

TypeOK ==
    /\ attr \in DOMAIN Scalars \cup Lists
    /\ IF attr \in Lists THEN stored \in Seq(Stored)
       ELSE stored \in {<<v>> : v \in CValues}
    /\ mutex \in Threads \cup {NULL}
    /\ pc \in [Threads -> Holding \cup {"python", "acquire"}]
    /\ doing \in [Threads -> {"none", "set", "get", "op"}]
    /\ raised \in [Threads -> Raised]
    \* Between lock_context and unlock_context the thread has the mutex.
    /\ \A t \in Threads : pc[t] \in Holding => mutex = t

\* The value of attribute a in a new context.
Initial(a) ==
    IF a \in Lists THEN <<>> ELSE IF a = "sender" THEN <<"unset">> ELSE <<"0">>

Init ==
    /\ attr \in DOMAIN Scalars \cup Lists
    /\ stored = Initial(attr)
    /\ mutex = NULL
    /\ pc = [t \in Threads |-> "python"]
    /\ doing = [t \in Threads |-> "none"]
    /\ arg = [t \in Threads |-> <<>>]
    /\ left = [t \in Threads |-> <<>>]
    /\ got = [t \in Threads |-> <<>>]
    /\ raised = [t \in Threads |-> "no"]
    /\ last = stored

-----------------------------------------------------------------------------
(* What an assignment amounts to, for the properties.                      *)

Bad(items) == {n \in DOMAIN items : items[n] = BadItem}

GoodPrefix(items) ==
    IF Bad(items) = {} THEN items ELSE SubSeq(items, 1, Min(Bad(items)) - 1)

Added(items) == [n \in DOMAIN items |-> AsAdded(items[n])]
CValue(value) == Scalars[attr].convert[value[1]]

\* The library, or the loop of the setter, refuses the value.
Refuses(value) ==
    IF attr \in Lists THEN Bad(value) # {}
    ELSE CValue(value) \notin Scalars[attr].accepted

\* A failed conversion goes unnoticed, and NULL is stored in its place.
Lossy(value) ==
    IF attr \in Lists THEN \E n \in DOMAIN value : value[n] = LossyItem
    ELSE attr = "sender" /\ value[1] = "surrogate"

Outcome(value) ==
    IF attr \in Lists THEN GoodPrefix(Added(value))
    ELSE IF Refuses(value) THEN stored ELSE <<CValue(value)>>

-----------------------------------------------------------------------------
Goto(t, from, to) ==
    /\ pc[t] = from
    /\ pc' = [pc EXCEPT ![t] = to]

Ask(t, what, value) ==
    /\ doing' = [doing EXCEPT ![t] = what]
    /\ arg' = [arg EXCEPT ![t] = value]

\* The attribute is assigned a sequence, or a value that is converted: to the
\* mutex.
AssignList(t) ==
    /\ attr \in Lists
    /\ \E items \in Assignable(attr) : Ask(t, "set", items)
    /\ raised' = [raised EXCEPT ![t] = "no"]

AssignScalar(t) ==
    /\ attr \notin Lists
    /\ \E v \in PyValues :
           /\ Scalars[attr].convert[v] # "error"
           /\ Ask(t, "set", <<v>>)
           /\ raised' = [raised EXCEPT ![t] = IF Lossy(<<v>>) THEN "unseen"
                                             ELSE "no"]

Assign(t) ==
    /\ Goto(t, "python", "acquire")
    /\ AssignList(t) \/ AssignScalar(t)
    /\ UNCHANGED <<attr, stored, mutex, left, got, last>>

\* It is deleted, or assigned a value that cannot be converted (one of them
\* is always possible): an exception, and the mutex is not taken.
AssignFails(t) ==
    /\ pc[t] = "python"
    /\ raised' = [raised EXCEPT ![t] = "yes"]
    /\ Ask(t, "none", <<>>)
    /\ UNCHANGED <<attr, stored, mutex, pc, left, got, last>>

Read(t) ==
    /\ attr # "locale"
    /\ Goto(t, "python", "acquire")
    /\ Ask(t, "get", <<>>)
    /\ raised' = [raised EXCEPT ![t] = "no"]
    /\ UNCHANGED <<attr, stored, mutex, left, got, last>>

\* A method that runs an operation, which may look at the attribute any time.
CallOperation(t) ==
    /\ Goto(t, "python", "acquire")
    /\ Ask(t, "op", <<>>)
    /\ raised' = [raised EXCEPT ![t] = "no"]
    /\ UNCHANGED <<attr, stored, mutex, left, got, last>>

\* Where the call begins its work on the attribute.
Entry(t) ==
    CASE doing[t] = "op"  -> "op"
      [] doing[t] = "set" -> IF attr \in Lists THEN "clear" ELSE "set"
      [] doing[t] = "get" -> IF attr \in Lists THEN "enum" ELSE "get"

\* Mutant: the lock is not waited for.
AcquireNoWait(t) ==
    /\ Goto(t, "acquire", Entry(t))
    /\ mutex' = t
    /\ left' = [left EXCEPT ![t] = arg[t]]
    /\ got' = [got EXCEPT ![t] = <<>>]
    /\ last' = IF doing[t] = "set" THEN Outcome(arg[t]) ELSE last
    /\ UNCHANGED <<attr, stored, call, raised>>

\* lock_context, begin_allow_threads.
Acquire(t) ==
    /\ mutex = NULL
    /\ Goto(t, "acquire", Entry(t))
    /\ mutex' = t
    /\ left' = [left EXCEPT ![t] = arg[t]]
    /\ got' = [got EXCEPT ![t] = <<>>]
    /\ last' = IF doing[t] = "set" THEN Outcome(arg[t]) ELSE last
    /\ UNCHANGED <<attr, stored, call, raised>>

\* gpgme_set_*; pygpgme_check_error follows unlock_context.
SetScalar(t) ==
    /\ Goto(t, "set", "unlock")
    /\ IF Refuses(arg[t])
       THEN /\ raised' = [raised EXCEPT ![t] = "yes"]
            /\ stored' = stored
       ELSE /\ stored' = <<CValue(arg[t])>>
            /\ raised' = raised
    /\ UNCHANGED <<attr, mutex, call, left, got, last>>

\* gpgme_signers_clear, gpgme_sig_notation_clear.
ClearList(t) ==
    /\ Goto(t, "clear", "add")
    /\ stored' = <<>>
    /\ UNCHANGED <<attr, mutex, call, left, got, raised, last>>

\* gpgme_signers_add, gpgme_sig_notation_add.  The exception of a failed
\* conversion stays: the next items are added with it, and the setter returns 0.
AddItem(t) ==
    /\ pc[t] = "add"
    /\ left[t] # <<>>
    /\ Head(left[t]) # BadItem
    /\ stored' = Append(stored, AsAdded(Head(left[t])))
    /\ left' = [left EXCEPT ![t] = Tail(@)]
    /\ raised' = [raised EXCEPT ![t] = IF Head(left[t]) = LossyItem THEN "unseen"
                                      ELSE @]
    /\ UNCHANGED <<attr, mutex, pc, call, got, last>>

\* Mutant: the loop goes on after an item it has refused.
RefuseItemContinues(t) ==
    /\ pc[t] = "add"
    /\ left[t] # <<>>
    /\ Head(left[t]) = BadItem
    /\ left' = [left EXCEPT ![t] = Tail(@)]
    /\ raised' = [raised EXCEPT ![t] = "yes"]
    /\ UNCHANGED <<attr, stored, mutex, pc, call, got, last>>

\* An item of the wrong type, or that the library refuses: goto end.
RefuseItem(t) ==
    /\ pc[t] = "add"
    /\ left[t] # <<>>
    /\ Head(left[t]) = BadItem
    /\ Goto(t, "add", "unlock")
    /\ raised' = [raised EXCEPT ![t] = "yes"]
    /\ UNCHANGED <<attr, stored, mutex, call, left, got, last>>

LastItemAdded(t) ==
    /\ left[t] = <<>>
    /\ Goto(t, "add", "unlock")
    /\ UNCHANGED <<attr, stored, mutex, call, left, got, raised, last>>

GetScalar(t) ==
    /\ Goto(t, "get", "unlock")
    /\ got' = [got EXCEPT ![t] = stored]
    /\ UNCHANGED <<attr, stored, mutex, call, left, raised, last>>

\* gpgme_signers_enum(ctx, i), the next notation of gpgme_sig_notation_get.
EnumItem(t) ==
    /\ pc[t] = "enum"
    /\ Len(got[t]) < Len(stored)
    /\ got' = [got EXCEPT ![t] = Append(@, stored[Len(@) + 1])]
    /\ UNCHANGED <<attr, stored, mutex, pc, call, left, raised, last>>

EnumEnd(t) ==
    /\ Len(got[t]) >= Len(stored)
    /\ Goto(t, "enum", "unlock")
    /\ UNCHANGED <<attr, stored, mutex, call, left, got, raised, last>>

\* The object to return, or one of its items, cannot be made.
GetFails(t) ==
    /\ pc[t] \in {"get", "enum"}
    /\ pc' = [pc EXCEPT ![t] = "unlock"]
    /\ raised' = [raised EXCEPT ![t] = "yes"]
    /\ UNCHANGED <<attr, stored, mutex, call, left, got, last>>

\* The getter of sig_notations has no list.
NullList(t) ==
    /\ pc[t] = "unlock"
    /\ attr = "sig_notations"
    /\ doing[t] = "get"
    /\ raised[t] = "yes"

\* The operation ends: end_allow_threads.
EndOperation(t) ==
    /\ Goto(t, "op", "python")
    /\ mutex' = NULL
    /\ UNCHANGED <<attr, stored, call, left, got, raised, last>>

Unlock(t) ==
    /\ ~ NullList(t)
    /\ Goto(t, "unlock", "python")
    /\ mutex' = NULL
    /\ UNCHANGED <<attr, stored, call, left, got, raised, last>>

\* PySequence_Tuple(NULL), which raises, and Py_DECREF(NULL): the process dies,
\* and the program starts again with a new context.
Crash(t) ==
    /\ NullList(t)
    /\ UNCHANGED attr
    /\ stored' = Initial(attr)
    /\ mutex' = NULL
    /\ pc' = [u \in Threads |-> "python"]
    /\ doing' = [u \in Threads |-> "none"]
    /\ arg' = [u \in Threads |-> <<>>]
    /\ left' = [u \in Threads |-> <<>>]
    /\ got' = [u \in Threads |-> <<>>]
    /\ raised' = [u \in Threads |-> "no"]
    /\ last' = stored'

Setter(t) ==
    \/ Assign(t) \/ AssignFails(t) \/ SetScalar(t) \/ ClearList(t)
    \/ AddItem(t) \/ RefuseItem(t) \/ LastItemAdded(t)

Getter(t) ==
    \/ Read(t) \/ GetScalar(t) \/ EnumItem(t) \/ EnumEnd(t)
    \/ GetFails(t) \/ Crash(t)

Next ==
    \E t \in Threads :
        \/ Setter(t) \/ Getter(t) \/ CallOperation(t)
        \/ Acquire(t) \/ EndOperation(t) \/ Unlock(t)

Spec == Init /\ [][Next]_vars

-----------------------------------------------------------------------------
(* Properties.                                                             *)

\* Between calls the value in the library is what the last assignment amounts
\* to: for a list all its items up to the first that is refused, in order,
\* and none of an earlier assignment or of another thread's.  The caller can
\* tell how far it went: an assignment that stopped short has raised and no
\* other has, and one that stored NULL for what it could not convert has
\* left an exception behind that it did not report, and no other has.
AssignmentsAreWhole ==
    /\ mutex = NULL => stored = last
    /\ \A t \in Threads :
        pc[t] = "python" /\ doing[t] = "set" =>
            /\ raised[t] = "yes" <=> Refuses(arg[t])
            /\ raised[t] = "unseen" <=> ~ Refuses(arg[t]) /\ Lossy(arg[t])

\* A getter that does not fail returns such a value, and an operation works
\* with one: never one that a setter in another thread has cleared or filled
\* in part.
ReadsAreWhole ==
    \A t \in Threads :
        /\ pc[t] = "unlock" /\ doing[t] = "get" /\ raised[t] = "no" =>
               got[t] = last
        /\ pc[t] = "op" => stored = last
=============================================================================
