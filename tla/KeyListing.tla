----------------------------- MODULE KeyListing -----------------------------
(***************************************************************************)
(* Key listings: Context.keylist (lib/pygpgme-context.c) and the KeyIter   *)
(* objects it returns (lib/pygpgme-keyiter.c).                             *)
(*                                                                         *)
(* A KeyIter holds a reference to its context and nothing else: the keys   *)
(* still to come are in the library, which keeps one listing per context   *)
(* and forgets it when the next operation on that context begins.          *)
(*                                                                         *)
(* Calls are single steps here; ContextLock has their interleaving.        *)
(***************************************************************************)
EXTENDS Naturals, Sequences, FiniteSets

CONSTANTS
    Contexts,   \* gpgme.Context objects
    Iters,      \* KeyIter objects
    Keys,       \* the keys of the key ring
    Patterns,   \* what keylist may be asked for
    Matches,    \* Matches[p]: the keys that match p, in the engine's order
    MaxYielded, \* bound on the keys the model takes from one iterator
    NULL

ASSUME MatchesAssumption == Matches \in [Patterns -> Seq(Keys)]
ASSUME NullAssumption    == NULL \notin Contexts \cup Iters \cup Patterns

VARIABLES
    refs,       \* refs[c]: references to the context; it is freed at 0
    held,       \* the contexts the program itself refers to
    listing,    \* listing[c]: the keys of c's listing still to come, or NULL
    ctx,        \* ctx[i]: the context iterator i refers to, NULL if no object
    asked,      \* asked[i]: the pattern of the keylist call that returned i
    yielded,    \* yielded[i]: the keys iterator i has returned so far
    outcome,    \* outcome[i]: how its last __next__ ended
    owner,      \* owner[c]: the iterator that c's last operation returned,
                \* or NULL if it returned none
    taken,      \* taken[c]: how many keys have left c's listing without its
                \* owner's returning them, if it has one
    broken      \* the contexts whose listing has an owner and ended with an
                \* error that a __next__ has raised

\* What these record is for the properties; the one step that depends on them
\* is the bound on yielded.
iterators == <<asked, yielded, outcome>>
listings  == <<owner, taken, broken>>

vars == <<refs, held, listing, ctx, iterators, listings>>

TypeOK ==
    /\ refs \in [Contexts -> Nat]
    /\ held \subseteq Contexts
    /\ \A c \in Contexts : listing[c] # NULL => listing[c] \in Seq(Keys)
    /\ ctx \in [Iters -> Contexts \cup {NULL}]
    /\ asked \in [Iters -> Patterns \cup {NULL}]
    /\ yielded \in [Iters -> Seq(Keys)]
    /\ outcome \in [Iters -> {"none", "key", "stop", "error"}]
    /\ owner \in [Contexts -> Iters \cup {NULL}]
    /\ taken \in [Contexts -> Nat]
    /\ broken \subseteq Contexts

-----------------------------------------------------------------------------
Init ==
    /\ refs = [c \in Contexts |-> 1]
    /\ held = Contexts
    /\ listing = [c \in Contexts |-> NULL]
    /\ ctx = [i \in Iters |-> NULL]
    /\ asked = [i \in Iters |-> NULL]
    /\ yielded = [i \in Iters |-> <<>>]
    /\ outcome = [i \in Iters |-> "none"]
    /\ owner = [c \in Contexts |-> NULL]
    /\ taken = [c \in Contexts |-> 0]
    /\ broken = {}

\* gpgme_op_keylist_ext_start succeeds: c lists the keys that match p.
GpgmeListStart(c, p) == listing' = [listing EXCEPT ![c] = Matches[p]]

\* Any operation that begins on c drops the listing; one that fails to list
\* may leave an empty one.
GpgmeReset(c, left) == listing' = [listing EXCEPT ![c] = left]

\* i is the iterator of the operation that begins on c, or NULL; NULL also if
\* that iterator is gone.
NewListing(c, i) ==
    /\ owner' = [owner EXCEPT ![c] = i]
    /\ taken' = [taken EXCEPT ![c] = 0]
    /\ broken' = broken \ {c}

\* PyObject_New of a KeyIter.
NewIterator(i, c, p) ==
    /\ ctx' = [ctx EXCEPT ![i] = c]
    /\ asked' = [asked EXCEPT ![i] = p]
    /\ UNCHANGED <<yielded, outcome>>
    /\ NewListing(c, i)

\* Mutant: the iterator does not own a reference to its context.
KeylistBorrows(i, c, p) ==
    /\ c \in held
    /\ ctx[i] = NULL
    /\ GpgmeListStart(c, p)
    /\ NewIterator(i, c, p)
    /\ UNCHANGED <<refs, held>>

\* Context.keylist(p): returns a KeyIter that owns a reference to its context.
Keylist(i, c, p) ==
    /\ c \in held
    /\ ctx[i] = NULL
    /\ GpgmeListStart(c, p)
    /\ NewIterator(i, c, p)
    /\ refs' = [refs EXCEPT ![c] = @ + 1]
    /\ UNCHANGED held

\* Context.keylist(p) raises: the operation failed, or it did not and there is
\* no memory for the KeyIter, while the library lists the keys.
KeylistFails(c, p) ==
    /\ c \in held
    /\ \E left \in {NULL, <<>>, Matches[p]} : GpgmeReset(c, left)
    /\ NewListing(c, NULL)
    /\ UNCHANGED <<refs, held, ctx, iterators>>

\* Any other method that runs an operation on c, whether it succeeds or not.
OtherOperation(c) ==
    /\ c \in held
    /\ GpgmeReset(c, NULL)
    /\ NewListing(c, NULL)
    /\ UNCHANGED <<refs, held, ctx, iterators>>

-----------------------------------------------------------------------------
(* KeyIter.__next__.                                                       *)

\* The program still has the iterator.
Live(i) == ctx[i] # NULL

\* A key leaves the listing of c, and the owner does not return it.
Taken(c) == taken' = [taken EXCEPT ![c] = IF owner[c] = NULL THEN 0 ELSE @ + 1]

\* An error ends the listing of c.
Broken(c) == broken' = IF owner[c] = NULL THEN broken ELSE broken \cup {c}

Ends(i, how) == outcome' = [outcome EXCEPT ![i] = how]

\* gpgme_op_keylist_next hands out the next key of the context's listing.
GpgmePop(c) ==
    /\ listing[c] \notin {NULL, <<>>}
    /\ listing' = [listing EXCEPT ![c] = Tail(@)]

NextKey(i) ==
    /\ Live(i)
    /\ Len(yielded[i]) < MaxYielded
    /\ GpgmePop(ctx[i])
    /\ yielded' = [yielded EXCEPT ![i] = Append(@, Head(listing[ctx[i]]))]
    /\ Ends(i, "key")
    /\ IF owner[ctx[i]] = i THEN UNCHANGED taken ELSE Taken(ctx[i])
    /\ UNCHANGED <<refs, held, ctx, asked, owner, broken>>

\* pygpgme_key_new fails: the key is gone from the listing, not returned.
NextKeyLost(i) ==
    /\ Live(i)
    /\ GpgmePop(ctx[i])
    /\ Ends(i, "error")
    /\ Taken(ctx[i])
    /\ UNCHANGED <<refs, held, ctx, asked, yielded, owner, broken>>

\* GPG_ERR_EOF from the library: StopIteration.
NextStop(i) ==
    /\ Live(i)
    /\ listing[ctx[i]] = <<>>
    /\ Ends(i, "stop")
    /\ UNCHANGED <<refs, held, listing, ctx, asked, yielded, listings>>

\* Mutant: every error ends the iteration, whatever its code.
NextStopOnError(i) ==
    /\ Live(i)
    /\ \/ listing[ctx[i]] = NULL /\ UNCHANGED listing
       \/ listing[ctx[i]] # NULL /\ GpgmeReset(ctx[i], <<>>)
    /\ Ends(i, "stop")
    /\ UNCHANGED <<refs, held, ctx, asked, yielded, listings>>

\* Any other error: the engine fails, or the context lists nothing any more
\* (GPG_ERR_INV_VALUE).
NextError(i) ==
    /\ Live(i)
    /\ \/ listing[ctx[i]] = NULL /\ UNCHANGED listing
       \/ listing[ctx[i]] # NULL /\ GpgmeReset(ctx[i], <<>>)
    /\ Ends(i, "error")
    /\ Broken(ctx[i])
    /\ UNCHANGED <<refs, held, ctx, asked, yielded, owner, taken>>

-----------------------------------------------------------------------------
(* References.                                                             *)

\* Mutant: ctx is not cleared, and a second pass gives it up again.
KeyIterDeallocTwice(i) ==
    /\ ctx[i] # NULL
    /\ refs' = [refs EXCEPT ![ctx[i]] = @ - 1]
    /\ UNCHANGED <<held, listing, ctx, iterators, listings>>

\* The iterator is deallocated: gpgme_op_keylist_end, which changes nothing,
\* then the reference to the context is given up.
KeyIterDealloc(i) ==
    LET c == ctx[i] IN
    /\ c # NULL
    /\ ctx' = [ctx EXCEPT ![i] = NULL]
    /\ refs' = [refs EXCEPT ![c] = @ - 1]
    /\ asked' = [asked EXCEPT ![i] = NULL]
    /\ yielded' = [yielded EXCEPT ![i] = <<>>]
    /\ outcome' = [outcome EXCEPT ![i] = "none"]
    /\ IF owner[c] = i THEN NewListing(c, NULL) ELSE UNCHANGED listings
    /\ UNCHANGED <<held, listing>>

\* The program drops its last reference to the context.
DropContext(c) ==
    /\ c \in held
    /\ held' = held \ {c}
    /\ refs' = [refs EXCEPT ![c] = @ - 1]
    /\ UNCHANGED <<listing, ctx, iterators, listings>>

Next ==
    \/ \E c \in Contexts :
           \/ \E i \in Iters, p \in Patterns : Keylist(i, c, p)
           \/ \E p \in Patterns : KeylistFails(c, p)
           \/ OtherOperation(c) \/ DropContext(c)
    \/ \E i \in Iters :
           \/ NextKey(i) \/ NextKeyLost(i) \/ NextStop(i) \/ NextError(i)
           \/ KeyIterDealloc(i)

Spec == Init /\ [][Next]_vars

-----------------------------------------------------------------------------
(* Properties.                                                             *)

IteratorsOf(c) == {i \in Iters : ctx[i] = c}

\* The count of a context's references is exact: it is freed (count 0) when
\* neither the program nor an iterator can reach it, and not before, so that
\* __next__ never uses a freed gpgme_ctx_t.
ContextRefsExact ==
    \A c \in Contexts :
        refs[c] = Cardinality(IteratorsOf(c)) + (IF c \in held THEN 1 ELSE 0)

\* s is what is left of t without some of its members.
SubsequenceOf(s, t) ==
    \E place \in [1 .. Len(s) -> 1 .. Len(t)] :
        /\ \A m, n \in 1 .. Len(s) : m < n => place[m] < place[n]
        /\ \A n \in 1 .. Len(s) : s[n] = t[place[n]]

\* The iterator i of the last operation on its context returns keys that match
\* what it was asked for, in order and once each, whatever is done with older
\* iterators of the context.  None is lost unnoticed: unless an error has been
\* raised, the keys that have left the listing are those i has returned and
\* those that another iterator has returned or a __next__ has raised an error
\* for.  If there are none of these, i has returned all that are not to come;
\* it stops only when there is none to come.
LatestIteratorInOrder ==
    \A c \in Contexts :
        LET i    == owner[c]
            all  == Matches[asked[i]]
            gone == Len(all) - Len(listing[c]) IN
        i # NULL =>
            /\ SubsequenceOf(yielded[i], SubSeq(all, 1, gone))
            /\ c \notin broken => gone = Len(yielded[i]) + taken[c]
            /\ c \notin broken /\ taken[c] = 0 =>
                   yielded[i] \o listing[c] = all
            /\ outcome[i] = "stop" => listing[c] = <<>>
=============================================================================
