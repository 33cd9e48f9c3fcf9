--------------------------- MODULE CallbackErrors ---------------------------
(***************************************************************************)
(* What a Python callback tells the library, and what becomes of its       *)
(* exceptions: the trampolines of lib/pygpgme-context.c, the data          *)
(* callbacks of lib/pygpgme-data.c and the conversions of                  *)
(* lib/pygpgme-error.c, during one operation with one file.                *)
(*                                                                         *)
(* An exception of a callback becomes a gpgme_error_t or an errno, makes   *)
(* the operation fail, and comes back as the GpgmeError that the method    *)
(* raises.  The library is external: it ends an operation with the first   *)
(* error that a callback reports.  Locking is the subject of ContextLock.  *)
(***************************************************************************)
EXTENDS Naturals, Sequences

CONSTANTS
    MaxCallbacks,   \* bound on the callbacks of an operation
    FileSize,       \* the bytes in the file at first
    BufferSize,     \* the most the library reads or writes at a time
    NULL

ASSUME BoundsAssumption ==
    MaxCallbacks \in Nat /\ FileSize \in Nat /\ BufferSize \in Nat \ {0}

-----------------------------------------------------------------------------
(* gpgme_error_t and exceptions.                                           *)

\* What 7 bits make of -1 is a source, what 16 bits make of it a code.
Sources == {"unknown", "gpgme", "agent", "user", "127"}
Errnos  == {"0", "EIO", "EINVAL"}
Codes   == {"no_error", "missing_errno", "unknown_errno", "general",
            "canceled", "65535"} \cup {"EIO", "EINVAL"}

\* Numbers of a program that the code of an error, an int and a long of C
\* cannot hold.
Wide    == {"2^16", "2^32", "2^64"}
Numbers == Sources \cup Codes \cup Errnos \cup Wide    \* the Python ints

NoError == <<"unknown", "no_error">>
General == <<"user", "general">>     \* gpgme_error(GPG_ERR_GENERAL)

\* What is left of a number: PyLong_AsLong makes -1 of 2^64, an int has 32
\* bits, the source of an error 7 and its code 16.
SourceOf(n) ==
    CASE n \in {"2^16", "2^32"} -> "unknown"
      [] n = "2^64" -> "127"
      [] OTHER -> n
CodeOf(n) ==
    CASE n \in {"2^16", "2^32"} -> "no_error"
      [] n = "2^64" -> "65535"
      [] OTHER -> n
IntOf(n) == IF n = "2^32" THEN "0" ELSE n

\* gpgme_err_make, gpgme_err_code_from_errno, gpg_error_from_syserror.  The
\* first takes 2^16 for a code, for it looks at more than 16 bits.
ErrMake(source, code) ==
    IF code \in {"no_error", "2^32"} THEN NoError
    ELSE <<SourceOf(source), CodeOf(code)>>
CodeFromErrno(errno) ==
    IF errno \in Errnos THEN errno ELSE "unknown_errno"
FromErrno(errno) ==
    IF IntOf(errno) = "0" THEN NoError
    ELSE <<"unknown", CodeFromErrno(errno)>>
FromSyserror(errno) ==
    <<"gpgme", IF IntOf(errno) = "0" THEN "missing_errno"
               ELSE CodeFromErrno(errno)>>

Errors == Sources \X Codes

\* code and errno are the attributes of these names; "unset" if there is none,
\* or None.
Exception(type, args, code, errno) ==
    [type |-> type, args |-> args, code |-> code, errno |-> errno]

\* pygpgme_error_object, and what pygpgme_check_error raises for err.
ErrorObject(err) ==
    Exception("GpgmeError", <<err[1], err[2], "text">>, err[2], "unset")

\* Of the shapes of exception the conversions tell apart:
\* GpgmeError(source, code), or with the attribute set afterwards; the error
\* of an operation on another context; OSError with and without an errno; and
\* something else.
Exceptions ==
    {Exception("GpgmeError", <<s, c>>, "unset", "unset") :
         s \in Sources \cup Wide, c \in Codes \cup Wide}
    \cup {Exception("GpgmeError", args, c, "unset") :
              args \in {<<>>, <<"text">>}, c \in Codes \cup {"unset"}}
    \cup {ErrorObject(e) : e \in Errors \ {NoError}}
    \cup {Exception("OSError", <<n, "text">>, "unset", n) :
              n \in Errnos \cup Wide}
    \cup {Exception("OSError", <<"text">>, "unset", "unset")}
    \cup {Exception("other", args, "unset", "unset") :
              args \in {<<>>, <<"text">>, <<"EIO">>}}

\* What the interpreter makes of a call that leaves an old exception set.
SystemError == Exception("other", <<"text">>, "unset", "unset")

\* Mutant: the error is NO_ERROR until a code has been found.
CheckPyErrorOptimistic(exc) ==
    CASE exc.type = "GpgmeError" /\ Len(exc.args) > 1 ->
             ErrMake(exc.args[1], exc.args[2])
      [] OTHER -> NoError

\* Mutant: the code is put together without the source.
CheckPyErrorNoSource(exc) ==
    IF exc.type = "GpgmeError" /\ Len(exc.args) > 1
    THEN ErrMake("gpgme", exc.args[2]) ELSE General

\* Mutant: an errno is taken for an error code.
CheckPyErrorErrno(exc) ==
    IF exc.type = "OSError" /\ exc.args[1] \in Numbers
    THEN <<"unknown", exc.args[1]>> ELSE General

\* pygpgme_check_pyerror.
CheckPyError(exc) ==
    CASE /\ exc.type = "GpgmeError" /\ Len(exc.args) > 1
         /\ {exc.args[1], exc.args[2]} \subseteq Numbers ->
             ErrMake(exc.args[1], exc.args[2])
      [] exc.type = "OSError" /\ exc.args # <<>> /\ exc.args[1] \in Numbers ->
             FromErrno(exc.args[1])
      [] OTHER -> General

\* set_errno: PyLong_AsLong of the attribute sets an exception of its own.
LeavesOverflow(exc) == exc.type = "OSError" /\ exc.errno = "2^64"

\* set_errno: what becomes of errno.
SetErrno(exc) ==
    IF exc.type = "OSError" /\ exc.errno # "unset" THEN exc.errno ELSE "EINVAL"

-----------------------------------------------------------------------------
(* The state.                                                              *)

Hooks == {"passphrase", "edit"}     \* they return a gpgme_error_t
Data  == {"read", "write", "seek"}  \* they return a count, and set errno

\* No exception, in no callback, is taken for none.
ASSUME NullAssumption ==
    NULL \notin Exceptions \cup ((Hooks \cup Data) \X Exceptions)

VARIABLES
    at,         \* "python", "library", "ended", "returned" or "crashed"
    calls,      \* the callbacks so far
    pending,    \* an exception is set in the thread
    reported,   \* the error a callback has reported to the library
    err,        \* the error of the operation
    raised,     \* the exception the method raises, or NULL
    pos, size,  \* the file: its position and its length
    libpos,     \* the position as the library knows it
    last,       \* <<callback, exception>> of the last one, or NULL; a progress
                \* callback's does not count
    uneven,     \* read() has returned too much, or write() taken too little
    overflowed  \* tell(), or the errno of an OSError, was a number that is
                \* no C long

vars == <<at, calls, pending, reported, err, raised, pos, size, libpos, last,
          uneven, overflowed>>
file == <<pos, size, libpos, uneven, overflowed>>

\* A file may be written over or behind its end, and be sought in.
MaxPos == FileSize + MaxCallbacks * (BufferSize + 1)

TypeOK ==
    /\ at \in {"python", "library", "ended", "returned", "crashed"}
    /\ calls \in 0..MaxCallbacks
    /\ pending \in BOOLEAN
    /\ reported \in Errors /\ err \in Errors
    /\ raised \in Exceptions \cup {NULL}
    /\ pos \in 0..MaxPos /\ size \in 0..MaxPos /\ libpos \in 0..MaxPos
    /\ last = NULL \/ last \in (Hooks \cup Data) \X Exceptions
    /\ uneven \in BOOLEAN /\ overflowed \in BOOLEAN

Init ==
    /\ at = "python"
    /\ calls = 0
    /\ pending = FALSE
    /\ reported = NoError /\ err = NoError
    /\ raised = NULL
    /\ pos = 0 /\ size = FileSize /\ libpos = 0
    /\ last = NULL
    /\ uneven = FALSE /\ overflowed = FALSE

-----------------------------------------------------------------------------
\* begin_allow_threads.
Begin ==
    /\ at = "python"
    /\ at' = "library"
    /\ UNCHANGED <<calls, pending, reported, err, raised, file, last>>

\* The library calls back: not after an error has been reported to it.
Callback(error, exception) ==
    /\ at = "library"
    /\ reported = NoError
    /\ calls < MaxCallbacks
    /\ calls' = calls + 1
    /\ reported' = error
    /\ last' = IF exception = NULL THEN last ELSE exception
    /\ UNCHANGED <<at, err, raised>>

\* A callback that returns whatever it likes: its value is not looked at.
HookReturns ==
    /\ Callback(NoError, NULL)
    /\ UNCHANGED <<pending, file>>

\* pygpgme_passphrase_cb, pygpgme_edit_cb.
HookRaises ==
    \E hook \in Hooks, exc \in Exceptions :
        /\ Callback(CheckPyError(exc), <<hook, exc>>)
        /\ pending' = FALSE
        /\ UNCHANGED file

\* pygpgme_edit_cb: a signal interrupts the call that makes the status, and
\* Py_DECREF gets NULL.
EditStatusFails ==
    /\ at = "library"
    /\ reported = NoError
    /\ at' = "crashed"
    /\ UNCHANGED <<calls, pending, reported, err, raised, file, last>>

\* Mutant: the exception is left where it is.
ProgressRaisesUncleared ==
    /\ Callback(NoError, NULL)
    /\ pending' = TRUE
    /\ UNCHANGED file

\* pygpgme_progress_cb: PyErr_Clear.
ProgressRaises ==
    /\ Callback(NoError, NULL)
    /\ pending' = FALSE
    /\ UNCHANGED file

DataRaises ==
    \E cb \in Data, exc \in Exceptions :
        /\ Callback(FromSyserror(SetErrno(exc)), <<cb, exc>>)
        /\ pending' = LeavesOverflow(exc)
        /\ overflowed' = (overflowed \/ LeavesOverflow(exc))
        \* seek() has moved the file if it is tell() that raises.
        /\ pos' \in (IF cb = "seek" THEN 0..size ELSE {pos})
        /\ UNCHANGED <<size, libpos, uneven>>

\* read() returns something that is not bytes, tell() not an integer.
DataWrongType ==
    /\ Callback(FromSyserror("EINVAL"), NULL)
    /\ pos' \in 0..size
    /\ UNCHANGED <<pending, size, libpos, uneven, overflowed>>

Lesser(m, n) == IF m < n THEN m ELSE n

\* read_cb: up to n bytes are asked for; if read() returns one more than
\* that, it is dropped.
ReadReturns ==
    \E n \in 1..BufferSize, given \in 0..(BufferSize + 1) :
        /\ pos + given <= size /\ given <= n + 1
        /\ Callback(NoError, NULL)
        /\ pos' = pos + given
        /\ libpos' = libpos + Lesser(given, n)
        /\ uneven' = (uneven \/ given > n)
        /\ UNCHANGED <<pending, size, overflowed>>

\* write_cb: n bytes, of which write() takes some or all; its result is not
\* looked at.
WriteReturns ==
    \E n \in 1..BufferSize : \E taken \in 0..n :
        /\ Callback(NoError, NULL)
        /\ pos' = pos + taken
        /\ size' = IF pos + taken > size THEN pos + taken ELSE size
        /\ libpos' = libpos + n
        /\ uneven' = (uneven \/ taken < n)
        /\ UNCHANGED <<pending, overflowed>>

\* Where seek(offset, whence) goes.
Target(offset, whence) ==
    CASE whence = "SET" -> offset
      [] whence = "CUR" -> pos + offset
      [] whence = "END" -> size + offset

\* Mutant: the offset is returned without asking the file.
SeekReturnsOffset ==
    \E offset \in 0..1, whence \in {"SET", "CUR", "END"} :
        /\ Target(offset, whence) <= size
        /\ Callback(NoError, NULL)
        /\ pos' = Target(offset, whence)
        /\ libpos' = offset
        /\ UNCHANGED <<pending, size, uneven, overflowed>>

\* seek_cb: seek(), then what tell() says.
SeekReturns ==
    \E offset \in 0..1, whence \in {"SET", "CUR", "END"} :
        /\ Target(offset, whence) <= size
        /\ Callback(NoError, NULL)
        /\ pos' = Target(offset, whence)
        /\ libpos' = pos'
        /\ UNCHANGED <<pending, size, uneven, overflowed>>

\* tell() returns an integer that is no C long: PyLong_AsLong leaves its
\* exception, seek_cb returns -1 and errno is what it was.
TellOverflows ==
    \E errno \in Errnos :
        /\ Callback(FromSyserror(errno), NULL)
        /\ pending' = TRUE
        /\ pos' \in 0..size
        /\ overflowed' = TRUE
        /\ UNCHANGED <<size, libpos, uneven>>

\* The operation ends: with the error that was reported to it, with one of
\* its own, or well.
GpgmeEnds ==
    /\ at = "library"
    /\ at' = "ended"
    /\ IF reported # NoError THEN err' = reported
       ELSE err' \in {NoError, <<"gpgme", "general">>, <<"agent", "canceled">>}
    /\ UNCHANGED <<calls, pending, reported, raised, file, last>>

\* end_allow_threads, pygpgme_check_error, and the method returns.  What it
\* adds to the exception (decode_encrypt_result, ...) is left out.  With an
\* exception pending the calls that make the GpgmeError need not succeed.
CheckError ==
    /\ at = "ended"
    /\ at' = "returned"
    /\ IF err = NoError THEN UNCHANGED <<raised, pending>>
       ELSE /\ raised' \in {ErrorObject(err)} \cup
                           (IF pending THEN {SystemError} ELSE {})
            /\ pending' = TRUE
    /\ UNCHANGED <<calls, reported, err, file, last>>

\* The caller, or another program after a crash, goes on: another operation,
\* with another file.
Resume ==
    /\ at \in {"returned", "crashed"}
    /\ at' = "python"
    /\ calls' = 0 /\ pending' = FALSE
    /\ reported' = NoError /\ err' = NoError
    /\ raised' = NULL
    /\ pos' = 0 /\ size' = FileSize /\ libpos' = 0
    /\ last' = NULL /\ uneven' = FALSE /\ overflowed' = FALSE

Next ==
    \/ Begin \/ HookReturns \/ HookRaises \/ EditStatusFails \/ ProgressRaises
    \/ DataRaises \/ DataWrongType \/ ReadReturns \/ WriteReturns
    \/ SeekReturns \/ TellOverflows
    \/ GpgmeEnds \/ CheckError \/ Resume

Spec == Init /\ [][Next]_vars

-----------------------------------------------------------------------------
(* Properties.                                                             *)

\* An exception that tells the library that the callback has succeeded: the
\* numbers it has, or what C leaves of them, are code 0 or errno 0.
SaysSuccess(cb, exc) ==
    /\ cb \in Hooks
    /\ Len(exc.args) > 1
    /\ \/ /\ exc.type = "GpgmeError"
          /\ \/ exc.args[2] \in {"no_error", "2^32"}
             \/ exc.args[2] = "2^16" /\ SourceOf(exc.args[1]) = "unknown"
       \/ exc.type = "OSError" /\ exc.args[1] \in {"0", "2^32"}

\* No exception of a callback is lost, a progress callback's excepted: the
\* method raises, unless the exception says that there is no error.
ExceptionsSurface ==
    at = "returned" /\ last # NULL /\ ~ SaysSuccess(last[1], last[2]) =>
        raised # NULL

\* The GpgmeError that an operation on another context has raised in a
\* passphrase or edit callback comes out of the outer operation with the
\* same source and code.  Only an error with code 0, which no operation has but
\* by a callback's GpgmeError(source, 2**16), does not.
NestedErrorSurvives ==
    at = "returned" /\ last # NULL =>
        \A e \in Sources \X (Codes \ {"no_error"}) :
            last[1] \in Hooks /\ last[2] = ErrorObject(e) =>
                raised = last[2]

\* While the library runs, and while other Python threads may, no callback's
\* exception is pending in this one, but for the OverflowError of a number
\* beyond a C long: in seek_cb what tell() returned, in set_errno the errno of
\* an OSError that read(), write(), seek() or tell() raised.
NothingPending == at \in {"library", "ended"} /\ pending => overflowed

\* The position the library believes a file to be at is the position it is
\* at: no byte is lost, repeated or skipped on the way, as long as read() and
\* write() transfer what they are asked to and no error was reported.
PositionsAgree == ~ uneven /\ reported = NoError => libpos = pos

\* The passphrase callback may cancel the operation with "a gpgme.GpgmeError
\* whose .code attribute is set to ERR_CANCELED": the method then raises
\* that error.
CancelIsReported ==
    /\ at = "returned"
    /\ last # NULL
    /\ last[1] = "passphrase"
    /\ last[2].type = "GpgmeError"
    /\ last[2].code = "canceled"
    => raised # NULL /\ raised.code = "canceled"
=============================================================================
