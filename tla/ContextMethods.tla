--------------------------- MODULE ContextMethods ---------------------------
(***************************************************************************)
(* The methods of gpgme.Context that run an operation                      *)
(* (lib/pygpgme-context.c), as scripts: what each one acquires before the  *)
(* operation, what it runs when an acquisition fails, and what it does     *)
(* after the operation, in the order of its statements.                    *)
(*                                                                         *)
(* A file argument becomes a gpgme_data_t (pygpgme_data_new); a sequence   *)
(* of keys becomes an array of borrowed gpgme_key_t next to a reference to *)
(* the sequence; a pattern becomes an array of C strings.  Nothing in C    *)
(* gives them back but the statements of the method.                       *)
(*                                                                         *)
(* One call at a time: ContextLock has the interleaving of calls.  While   *)
(* the operation runs, other Python code may change the caller's list.     *)
(* Memory is never exhausted where the code does not check for it.         *)
(*                                                                         *)
(* Results are converted item by item.  Making an enum member or an error  *)
(* runs Python code, where a signal such as KeyboardInterrupt may be       *)
(* raised; the rest of an item is copied data.                             *)
(***************************************************************************)
EXTENDS Naturals, Sequences

CONSTANTS
    Keys,           \* the Key objects in a caller's sequence of keys
    SequenceKinds,  \* what callers pass: "list", "tuple", "iterator"
    WarningsRaise   \* TRUE: a DeprecationWarning is turned into an exception

ASSUME KindsAssumption ==
    SequenceKinds \subseteq {"list", "tuple", "iterator"}
ASSUME WarningsAssumption == WarningsRaise \in BOOLEAN

VARIABLES
    method,     \* the method that runs, or last ran
    at,         \* "idle", "running", "returned" or "crashed"
    rest,       \* the statements still to run
    var,        \* var[r]: the C variable for resource r
    kind,       \* the kind of the sequence of keys, or "none"
    inseq,      \* the keys the sequence holds now
    borrowed,   \* the keys the array points to
    detached,   \* between begin_allow_threads and end_allow_threads
    failed,     \* the operation returned an error
    null,       \* the method is going to return NULL
    exc,        \* the exception that is set: "none", "gpgme" or "other"
    item,       \* the item of a result that is being made
    holey,      \* the result has an item with a NULL member
    lost        \* what the call made, never gave up, and has no variable for

built == <<item, holey, lost>>
vars == <<method, at, rest, var, kind, inseq, borrowed, detached, failed,
          null, exc, built>>

-----------------------------------------------------------------------------
(* Statements.                                                             *)

Files     == {"plain", "cipher", "sig", "signed_text", "keydata", "pubkey",
              "seckey", "out"}
Resources == Files \cup {"seq", "keys", "patterns", "key", "result"}

\* Objects that are forgotten with a reference to them: see ParsePatterns,
\* CheckError and DoConvert.
Forgotten == {"bytes", "error", "import_result"}

Statement(op, what) == [op |-> op, what |-> what]

Open(file)  == Statement("open", file)          \* pygpgme_data_new
Parse       == Statement("parse", "patterns")   \* parse_key_patterns
Fast        == Statement("fast", "seq")         \* PySequence_Fast
FastOrNone  == Statement("fast_or_none", "seq")
Borrow      == Statement("borrow", "keys")      \* the array and its loop
Warn        == Statement("warn", "none")        \* PyErr_WarnEx
Begin       == Statement("begin", "none")       \* begin_allow_threads
Operate     == Statement("operate", "none")     \* gpgme_op_*
OperateKey  == Statement("operate", "key")      \* gpgme_get_key
End         == Statement("end", "none")         \* end_allow_threads
Check       == Statement("check", "none")       \* pygpgme_check_error
Convert(b)  == Statement("convert", b)          \* pygpgme_siglist_new, ...
Annotate(b) == Statement("annotate", b)         \* PyObject_SetAttrString
Discard     == Statement("discard", "result")   \* Py_XDECREF on an error
DiscardIfGpgme == Statement("discard_if_gpgme", "result")
Free(r)     == Statement("free", r)

Operation == <<Begin, Operate, End>>

\* The loop over the items of a result, and what makes one, see Builder.
Items(b) == Statement("items", b)               \* for (...; ...; next)
Fill   == Statement("fill", "none")             \* pygpgme_enum_value_new, ...
Look   == Statement("look", "none")             \* PyErr_Occurred
Store  == Statement("store", "none")            \* PyList_Append

\* A method that jumps to its cleanup from everywhere: the same statements
\* run in every case, and the variables they free are NULL at first.
WithCleanup(acquire, after, cleanup) ==
    [script |-> acquire \o Operation \o after \o cleanup,
     undo   |-> [n \in DOMAIN acquire |-> cleanup],
     nulls  |-> Resources]

\* A method that returns at once: undo[n] runs when statement n fails.
Returning(acquire, undo, after) ==
    [script |-> acquire \o Operation \o after,
     undo   |-> undo,
     nulls  |-> {}]

-----------------------------------------------------------------------------
(* The methods.                                                            *)

GetKey == [script |-> <<Begin, OperateKey, End, Check, Convert("key"),
                        Free("key")>>,
           undo |-> <<>>, nulls |-> {}]

\* Mutant: the reference to the sequence is given up before the operation.
EncryptDropsSequence ==
    WithCleanup(<<FastOrNone, Borrow, Free("seq"), Open("plain"),
                  Open("cipher")>>, <<Check, Annotate("pairs")>>,
                <<Free("keys"), Free("plain"), Free("cipher")>>)

Encrypt ==
    WithCleanup(<<FastOrNone, Borrow, Open("plain"), Open("cipher")>>,
                <<Check, Annotate("pairs")>>,
                <<Free("keys"), Free("seq"), Free("plain"), Free("cipher")>>)

\* What sign and encrypt_sign do with their result after the operation.
SignResult(first) ==
    <<Check>> \o first
    \o <<Annotate("pairs"), Annotate("newsigs"), Convert("newsigs")>>

EncryptSign ==
    WithCleanup(<<Fast, Borrow, Open("plain"), Open("cipher")>>,
                SignResult(<<Annotate("pairs")>>),
                <<Free("keys"), Free("seq"), Free("plain"), Free("cipher")>>)

Decrypt ==
    Returning(<<Open("cipher"), Open("plain")>>,
              << <<>>, <<Free("cipher")>> >>,
              <<Free("cipher"), Free("plain"), Check,
                Annotate("values")>>)

DecryptVerify ==
    Returning(<<Open("cipher"), Open("plain")>>,
              << <<>>, <<Free("cipher")>> >>,
              <<Free("cipher"), Free("plain"), Check,
                Annotate("values"), Convert("sigs")>>)

Sign ==
    Returning(<<Open("plain"), Open("sig")>>,
              << <<>>, <<Free("plain")>> >>,
              <<Free("plain"), Free("sig")>> \o SignResult(<<>>))

\* Mutant: signed_text is forgotten when plaintext cannot be wrapped.
VerifyForgets ==
    Returning(<<Open("sig"), Open("signed_text"), Open("plain")>>,
              << <<>>, <<Free("sig")>>, <<Free("sig")>> >>,
              <<Free("sig"), Free("signed_text"), Free("plain"), Check,
                Annotate("sigs"), Convert("sigs")>>)

\* Mutant: one undo list for every failure, as if the variables were NULL.
VerifyUndoesAll ==
    LET all == <<Free("sig"), Free("signed_text"), Free("plain")>> IN
    Returning(<<Open("sig"), Open("signed_text"), Open("plain")>>,
              <<all, all, all>>,
              all \o <<Check, Annotate("sigs"), Convert("sigs")>>)

Verify ==
    Returning(<<Open("sig"), Open("signed_text"), Open("plain")>>,
              << <<>>, <<Free("sig")>>,
                 <<Free("sig"), Free("signed_text")>> >>,
              <<Free("sig"), Free("signed_text"), Free("plain"), Check,
                Annotate("sigs"), Convert("sigs")>>)

Import ==
    Returning(<<Open("keydata")>>, << <<>> >>,
              <<Free("keydata"), Convert("imports"), Check, Discard>>)

ImportKeys ==
    WithCleanup(<<Fast, Borrow>>, <<Convert("imports"), Check, Discard>>,
                <<Free("keys"), Free("seq")>>)

\* Mutant: the patterns are freed before the operation that reads them.
ExportFreesEarly ==
    Returning(<<Parse, Open("keydata"), Free("patterns")>>,
              << <<>>, <<Free("patterns")>>, <<>> >>,
              <<Free("keydata"), Check>>)

Export ==
    Returning(<<Parse, Open("keydata")>>,
              << <<>>, <<Free("patterns")>> >>,
              <<Free("patterns"), Free("keydata"), Check>>)

ExportKeys ==
    WithCleanup(<<Fast, Borrow, Open("keydata")>>, <<Check>>,
                <<Free("keydata"), Free("keys"), Free("seq")>>)

GenKey ==
    Returning(<<Open("pubkey"), Open("seckey")>>,
              << <<>>, <<Free("pubkey")>> >>,
              <<Free("seckey"), Free("pubkey"), Convert("genkey"), Check,
                DiscardIfGpgme>>)

\* Mutant: the error of the operation is not checked.
DeleteUnchecked == Returning(<<>>, <<>>, <<>>)

Delete == Returning(<<>>, <<>>, <<Check>>)

Edit ==
    Returning(<<Warn, Open("out")>>, << <<>>, <<>> >>,
              <<Free("out"), Check>>)

CardEdit ==
    Returning(<<Warn, Open("out")>>, << <<>>, <<>> >>,
              <<Free("out"), Check>>)

\* Up to the KeyIter it returns: see KeyListing.
Keylist == Returning(<<Parse>>, << <<>> >>, <<Free("patterns"), Check>>)

\* No operation runs, and no error of one is checked.
GetEngineInfo == [script |-> <<Convert("engines")>>, undo |-> <<>>,
                  nulls |-> {}]

\* Mutant: an item is stored without a look at what became of its members.
BuilderUnlooked ==
    [newsigs |-> <<Fill, Look, Store>>, sigs |-> <<Fill, Store>>,
     imports |-> <<Fill, Look, Store>>, genkey  |-> <<>>,
     engines |-> <<Fill, Store>>, key |-> <<>>]

\* How an item of each result is made.  A GenkeyResult is one object of copied
\* data, and a Key one object that copies when it is read: see KeyObjects.
Builder ==
    [newsigs |-> <<Fill, Look, Store>>, sigs |-> <<Fill, Look, Store>>,
     imports |-> <<Fill, Look, Store>>, genkey  |-> <<>>,
     engines |-> <<Fill, Store>>, key |-> <<>>]

Method ==
    [get_key |-> GetKey, encrypt |-> Encrypt, encrypt_sign |-> EncryptSign,
     decrypt |-> Decrypt, decrypt_verify |-> DecryptVerify, sign |-> Sign,
     verify |-> Verify, import_ |-> Import, import_keys |-> ImportKeys,
     export |-> Export, export_keys |-> ExportKeys, genkey |-> GenKey,
     delete |-> Delete, edit |-> Edit, card_edit |-> CardEdit,
     keylist |-> Keylist, get_engine_info |-> GetEngineInfo]

-----------------------------------------------------------------------------
TypeOK ==
    /\ method \in DOMAIN Method
    /\ at \in {"idle", "running", "returned", "crashed"}
    /\ var \in [Resources -> {"unset", "null", "live", "freed"}]
    /\ kind \in SequenceKinds \cup {"none"}
    /\ inseq \subseteq Keys /\ borrowed \subseteq Keys
    /\ {detached, failed, null, holey} \subseteq BOOLEAN
    /\ exc \in {"none", "gpgme", "other"}
    /\ item \in {"none", "whole", "broken"}
    /\ lost \subseteq Forgotten
    \* A call that is bound to fail does not start the operation.
    /\ null => \A n \in DOMAIN rest : rest[n].op # "begin"

Init ==
    /\ method = "delete"
    /\ at = "idle"
    /\ rest = <<>>
    /\ var = [r \in Resources |-> "unset"]
    /\ kind = "none"
    /\ inseq = {} /\ borrowed = {}
    /\ detached = FALSE /\ failed = FALSE /\ null = FALSE
    /\ exc = "none" /\ item = "none" /\ holey = FALSE
    /\ lost = {}

\* PyArg_ParseTuple accepts the arguments of a call of m.
Invoke(m) ==
    /\ at = "idle"
    /\ method' = m
    /\ at' = "running"
    /\ rest' = Method[m].script
    /\ var' = [r \in Resources |->
                  IF r \in Method[m].nulls THEN "null" ELSE "unset"]
    /\ UNCHANGED <<kind, inseq, borrowed, detached, failed, null, exc, built>>

-----------------------------------------------------------------------------
(* One action per kind of statement.                                       *)

Runs(op) == at = "running" /\ rest # <<>> /\ Head(rest).op = op

\* The variable the next statement is about.
What == Head(rest).what

Proceed == rest' = Tail(rest)

\* The statement fails: what is left to do is what the method undoes there.
Abandon ==
    LET m == Method[method]
        n == Len(m.script) - Len(rest) + 1 IN
    /\ rest' = m.undo[n]
    /\ null' = TRUE

Fail == Abandon /\ exc' = "other"

\* pygpgme_check_error of an error: a GpgmeError is made and set, replacing any
\* other exception, and the reference it was made with is never given up;
\* or the Python code that makes it is interrupted.
CheckError ==
    \/ exc' = "gpgme" /\ lost' = lost \cup {"error"}
    \/ exc' = "other" /\ UNCHANGED lost

Assign(r, v) == var' = [var EXCEPT ![r] = v]

\* Mutant: the result of pygpgme_data_new is not looked at.
OpenFileUnchecked ==
    /\ Runs("open")
    /\ \/ \E v \in {"null", "live"} : Assign(What, v)
          /\ UNCHANGED <<null, exc>>
       \/ Assign(What, "null") /\ null' = TRUE /\ exc' = "other"
    /\ Proceed
    /\ UNCHANGED <<method, at, kind, inseq, borrowed, detached, failed, built>>

\* pygpgme_data_new: None gives a NULL handle; out of memory leaves *dh as it
\* is, an error of the library sets it to NULL.
OpenFile ==
    /\ Runs("open")
    /\ \/ \E v \in {"null", "live"} : Assign(What, v)
          /\ Proceed /\ UNCHANGED <<null, exc, lost>>
       \/ Fail /\ UNCHANGED <<var, lost>>
       \/ Assign(What, "null") /\ Abandon /\ CheckError
    /\ UNCHANGED <<method, at, kind, inseq, borrowed, detached, failed, item,
                   holey>>

\* parse_key_patterns: NULL for None, else an array of copies.  The bytes
\* objects the copies are made from, one for each, are never given up.  If it
\* fails it has freed the array.
ParsePatterns ==
    /\ Runs("parse")
    /\ \/ Assign("patterns", "null") /\ Proceed /\ UNCHANGED <<null, exc, lost>>
       \/ /\ Assign("patterns", "live")
          /\ lost' \in {lost, lost \cup {"bytes"}}
          /\ Proceed
          /\ UNCHANGED <<null, exc>>
       \/ /\ Assign("patterns", "null")
          /\ lost' \in {lost, lost \cup {"bytes"}}
          /\ Fail
    /\ UNCHANGED <<method, at, kind, inseq, borrowed, detached, failed, item,
                   holey>>

\* PySequence_Fast returns a list or tuple itself and copies anything else
\* into a list of its own.  Encrypt accepts None instead of a sequence.
FastSequence ==
    /\ Runs("fast") \/ Runs("fast_or_none")
    /\ \/ /\ kind' \in SequenceKinds
          /\ inseq' = Keys
          /\ Assign("seq", "live")
          /\ Proceed
          /\ UNCHANGED <<null, exc>>
       \/ /\ Runs("fast_or_none")
          /\ Proceed
          /\ UNCHANGED <<var, kind, inseq, null, exc>>
       \/ Fail /\ UNCHANGED <<var, kind, inseq>>
    /\ UNCHANGED <<method, at, borrowed, detached, failed, built>>

\* The array takes the gpgme_key_t of every item without a reference of its
\* own; an item that is not a Key is a TypeError.
BorrowKeys ==
    /\ Runs("borrow")
    /\ IF var["seq"] = "live" THEN Assign("keys", "live") ELSE UNCHANGED var
    /\ \/ /\ borrowed' = IF var["seq"] = "live" THEN inseq ELSE {}
          /\ Proceed
          /\ UNCHANGED <<null, exc>>
       \/ var["seq"] = "live" /\ Fail /\ UNCHANGED borrowed
    /\ UNCHANGED <<method, at, kind, inseq, detached, failed, built>>

\* The value PyErr_WarnEx returns is ignored.
DoWarn ==
    /\ Runs("warn")
    /\ exc' \in IF WarningsRaise THEN {"none", "other"} ELSE {"none"}
    /\ Proceed
    /\ UNCHANGED <<method, at, var, kind, inseq, borrowed, detached, failed,
                   null, built>>

DoBegin ==
    /\ Runs("begin")
    /\ detached' = TRUE
    /\ Proceed
    /\ UNCHANGED <<method, at, var, kind, inseq, borrowed, failed, null, exc,
                   built>>

\* Only gpgme_get_key hands out something the method owns.
DoOperate ==
    /\ Runs("operate")
    /\ failed' \in BOOLEAN
    /\ IF What = "none" THEN UNCHANGED var
       ELSE Assign(What, IF failed' THEN "null" ELSE "live")
    /\ Proceed
    /\ UNCHANGED <<method, at, kind, inseq, borrowed, detached, null, exc,
                   built>>

DoEnd ==
    /\ Runs("end")
    /\ detached' = FALSE
    /\ Proceed
    /\ UNCHANGED <<method, at, var, kind, inseq, borrowed, failed, null, exc,
                   built>>

\* The result of the operation is made into a list, or into an object with a
\* list, unless the method is going to return NULL; None or an empty list if
\* the library has no result, and NULL if PyObject_New fails.  The object of
\* an import has been made, and is not given up, if PyList_New fails after it.
DoConvert ==
    /\ Runs("convert")
    /\ \/ null /\ Proceed /\ UNCHANGED <<var, null, exc, lost>>
       \/ /\ ~ null
          /\ Assign("result", "live")
          /\ rest' = <<Items(What)>> \o Tail(rest)
          /\ UNCHANGED <<null, exc, lost>>
       \/ /\ ~ null
          /\ Assign("result", "null") /\ null' = TRUE /\ exc' = "other"
          /\ \/ UNCHANGED lost
             \/ What = "imports" /\ lost' = lost \cup {"import_result"}
          /\ Proceed
    /\ UNCHANGED <<method, at, kind, inseq, borrowed, detached, failed, item,
                   holey>>

\* The library has another item, or no more of them.
DoItems ==
    /\ Runs("items")
    /\ Proceed \/ rest' = Builder[What] \o rest
    /\ UNCHANGED <<method, at, var, kind, inseq, borrowed, detached, failed,
                   null, exc, built>>

\* The members of an item: one that is made by Python code may be NULL.
DoFill ==
    /\ Runs("fill")
    /\ \/ item' = "whole" /\ UNCHANGED exc
       \/ item' = "broken" /\ exc' = "other"
    /\ Proceed
    /\ UNCHANGED <<method, at, var, kind, inseq, borrowed, detached, failed,
                   null, holey, lost>>

\* An exception is set: the item and the list are dropped, and the function
\* that makes the result returns NULL, from inside its loop.
DoLook ==
    /\ Runs("look")
    /\ IF exc = "none"
       THEN Proceed /\ UNCHANGED <<var, null, item>>
       ELSE /\ Assign("result", "null")
            /\ null' = TRUE
            /\ item' = "none"
            /\ rest' = SubSeq(rest, 4, Len(rest)) \* after Look, Store, Items
    /\ UNCHANGED <<method, at, kind, inseq, borrowed, detached, failed, exc,
                   holey, lost>>

DoStore ==
    /\ Runs("store")
    /\ holey' = (holey \/ item = "broken")
    /\ item' = "none"
    /\ Proceed
    /\ UNCHANGED <<method, at, var, kind, inseq, borrowed, detached, failed,
                   null, exc, lost>>

\* The GpgmeError is given an attribute from the library's result, with the
\* exception put aside; any other exception is left alone.  If the value is a
\* list whose conversion fails, Py_DECREF is applied to NULL.
DoAnnotate ==
    /\ Runs("annotate")
    /\ \/ Proceed /\ UNCHANGED at
       \/ /\ exc = "gpgme" /\ What # "values"
          /\ at' = "crashed"
          /\ rest' = <<>>
    /\ UNCHANGED <<method, var, kind, inseq, borrowed, detached, failed, null,
                   exc, built>>

\* An error of the operation becomes the exception.
DoCheck ==
    /\ Runs("check")
    /\ null' = (null \/ failed)
    /\ IF failed THEN CheckError ELSE UNCHANGED <<exc, lost>>
    /\ Proceed
    /\ UNCHANGED <<method, at, var, kind, inseq, borrowed, detached, failed,
                   item, holey>>

\* On an error the result is given up; genkey does so only after it has made
\* it an attribute of a GpgmeError.
DoDiscard ==
    /\ Runs("discard") \/ Runs("discard_if_gpgme")
    /\ IF /\ null /\ var["result"] = "live"
          /\ Runs("discard") \/ exc = "gpgme"
       THEN Assign("result", "freed")
       ELSE UNCHANGED var
    /\ Proceed
    /\ UNCHANGED <<method, at, kind, inseq, borrowed, detached, failed, null,
                   exc, built>>

\* Freeing NULL does nothing.
DoFree ==
    /\ Runs("free")
    /\ Assign(What, IF var[What] = "null" THEN "null" ELSE "freed")
    /\ Proceed
    /\ UNCHANGED <<method, at, kind, inseq, borrowed, detached, failed, null,
                   exc, built>>

Return ==
    /\ at = "running" /\ rest = <<>>
    /\ at' = "returned"
    /\ UNCHANGED <<method, rest, var, kind, inseq, borrowed, detached, failed,
                   null, exc, built>>

\* The interpreter takes the value or the exception and goes on, or is started
\* again.
Resume ==
    /\ at \in {"returned", "crashed"}
    /\ at' = "idle"
    /\ rest' = <<>>
    /\ var' = [r \in Resources |-> "unset"]
    /\ kind' = "none"
    /\ inseq' = {} /\ borrowed' = {}
    /\ failed' = FALSE /\ null' = FALSE /\ exc' = "none"
    /\ item' = "none" /\ holey' = FALSE /\ lost' = {}
    /\ UNCHANGED <<method, detached>>

\* A callback, or another thread, takes a key out of the caller's list.
ChangeList ==
    /\ detached
    /\ kind = "list"
    /\ \E k \in inseq : inseq' = inseq \ {k}
    /\ UNCHANGED <<method, at, rest, var, kind, borrowed, detached, failed,
                   null, exc, built>>

Next ==
    \/ \E m \in DOMAIN Method : Invoke(m)
    \/ OpenFile \/ ParsePatterns \/ FastSequence \/ BorrowKeys
    \/ DoWarn \/ DoBegin \/ DoOperate \/ DoEnd \/ DoCheck
    \/ DoConvert \/ DoItems \/ DoFill \/ DoLook \/ DoStore \/ DoAnnotate
    \/ DoDiscard \/ DoFree \/ Return \/ Resume \/ ChangeList

Spec == Init /\ [][Next]_vars

-----------------------------------------------------------------------------
(* Properties.                                                             *)

\* The error of genkey was interrupted on its way to becoming a GpgmeError:
\* genkey jumps over the Py_DECREF of its result.
Interrupted == method = "genkey" /\ failed /\ exc = "other"

\* Where an object may be forgotten: the bytes of the patterns of export and
\* keylist, every GpgmeError that is raised, and the ImportResult of an import
\* that ran out of memory.
MayForget(x) ==
    CASE x = "bytes" -> method \in {"export", "keylist"}
      [] x = "error" -> null /\ exc = "gpgme"
      [] x = "import_result" -> null /\ method \in {"import_", "import_keys"}

\* When a method returns, whichever of its statements failed, it has given back
\* every handle, array, sequence and key it acquired; a result is kept only if
\* it is what the method returns, but for Interrupted, and nothing has been
\* forgotten but where MayForget says.
EverythingReleased ==
    at = "returned" =>
        /\ \A r \in Resources :
               var[r] = "live" => r = "result" /\ (~ null \/ Interrupted)
        /\ \A x \in lost : MayForget(x)

\* A method frees what has a value and has not been freed, and frees it with
\* the thread state held, for the release callback of a file object drops
\* Python references.
ReleasesProper ==
    Runs("free") => var[What] \in {"null", "live"} /\ ~ detached

\* The operation runs with all its arguments: no handle, array or string it
\* reads has been freed, or was never made.
ArgumentsValid ==
    Runs("operate") =>
        \A n \in DOMAIN Method[method].script :
            LET s == Method[method].script[n] IN
            s.op \in {"open", "parse", "borrow"} =>
                var[s.what] \in {"null", "live"}

\* edit and card_edit ignore what PyErr_WarnEx returns: where warnings are
\* exceptions they may return a value with one set.
Warned == WarningsRaise /\ method \in {"edit", "card_edit"}

\* A method raises exactly if it returns NULL, but for Warned, and raises if
\* its operation returned an error.  get_engine_info may do one without the
\* other.
RaisesIffNull ==
    at = "returned" /\ method # "get_engine_info" =>
        /\ null => exc # "none"
        /\ exc # "none" => null \/ Warned
        /\ failed => null

\* No item of a list a method returns has a member that is NULL, wherever its
\* conversion was interrupted.  get_engine_info does not look.
ResultsWhole ==
    at = "returned" /\ method # "get_engine_info" /\ ~ null => ~ holey

\* The keys that something still refers to: a private list dies with the
\* method's reference to it.
KeysAlive == IF kind = "iterator" /\ var["seq"] # "live" THEN {} ELSE inseq

\* A tuple, or the list PySequence_Fast makes of an iterator, keeps the keys
\* in the array for as long as the operation may use them.
FixedSequenceKeepsKeys ==
    Runs("operate") /\ kind # "list" => borrowed \subseteq KeysAlive

\* Memory management is no concern of the caller: no bytes object made from a
\* pattern is left behind by export or keylist.
NoReferenceLost == at = "returned" => "bytes" \notin lost
=============================================================================
