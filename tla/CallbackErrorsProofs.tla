------------------------ MODULE CallbackErrorsProofs ------------------------
(***************************************************************************)
(* Proofs about CallbackErrors, for any number of callbacks, and files and *)
(* buffers of any size.                                                    *)
(*                                                                         *)
(* The lemmas about the conversions of lib/pygpgme-error.c say which       *)
(* exceptions tell the library that a callback has succeeded, and that the *)
(* error object of an operation is turned back into its error.  The        *)
(* invariant carries what was reported through the operation.              *)
(***************************************************************************)
EXTENDS CallbackErrors, TLAPS

\* How far a file can reach after n callbacks.
Reach(n) == FileSize + n * (BufferSize + 1)

FileInv == pos <= size /\ size <= Reach(calls) /\ libpos <= Reach(calls)

\* What was said of the last exception, and what has become of it.
ErrorInv ==
    /\ at # "returned" => raised = NULL
    /\ at = "python" => ~ pending
    /\ at \in {"ended", "returned"} /\ reported # NoError => err = reported
    /\ at = "returned" =>
           \/ raised = IF err = NoError THEN NULL ELSE ErrorObject(err)
           \/ overflowed /\ raised = SystemError

\* The errors an operation can have of its own.
Genuine == Sources \X (Codes \ {"no_error"})

LastInv ==
    last # NULL =>
        /\ ~ SaysSuccess(last[1], last[2]) => reported # NoError
        /\ \A e \in Genuine :
               last[1] \in Hooks /\ last[2] = ErrorObject(e) => reported = e

\* A number beyond a C long is the last thing the library hears of, and no
\* error of a nested operation.
OverflowInv ==
    overflowed =>
        /\ reported # NoError
        /\ \A e \in Genuine :
               last # NULL => ~ (last[1] \in Hooks /\ last[2] = ErrorObject(e))

IndInv == TypeOK /\ FileInv /\ ErrorInv /\ LastInv /\ OverflowInv
              /\ NothingPending /\ PositionsAgree

-----------------------------------------------------------------------------
(* The conversions.                                                        *)

\* What there is to know of an exception of a callback.
LEMMA ExceptionForms ==
    ASSUME NEW exc \in Exceptions
    PROVE  /\ exc.type \in {"GpgmeError", "OSError", "other"}
           /\ exc.type = "GpgmeError" /\ Len(exc.args) > 1 =>
                  exc.args[1] \in Sources \cup Wide /\ exc.args[2] \in Codes \cup Wide
           /\ exc.type = "OSError" /\ exc.args # <<>>
                  /\ exc.args[1] \in Numbers =>
                  exc.args[1] \in Errnos \cup Wide /\ Len(exc.args) > 1
           /\ exc.errno \in Errnos \cup Wide \cup {"unset"}
<1> USE DEF Exception
<1>1. CASE \E s \in Sources \cup Wide, c \in Codes \cup Wide :
               exc = Exception("GpgmeError", <<s, c>>, "unset", "unset")
  BY <1>1
<1>2. CASE \E args \in {<<>>, <<"text">>}, c \in Codes \cup {"unset"} :
               exc = Exception("GpgmeError", args, c, "unset")
  BY <1>2
<1>3. CASE \E e \in Errors \ {NoError} : exc = ErrorObject(e)
  <2>1. PICK s \in Sources, c \in Codes : exc = ErrorObject(<<s, c>>)
    BY <1>3 DEF Errors
  <2> QED BY <2>1 DEF ErrorObject
<1>4. CASE \E n \in Errnos \cup Wide :
               exc = Exception("OSError", <<n, "text">>, "unset", n)
  BY <1>4
<1>5. CASE exc = Exception("OSError", <<"text">>, "unset", "unset")
  BY <1>5 DEF Numbers, Sources, Codes, Errnos, Wide
<1>6. CASE \E args \in {<<>>, <<"text">>, <<"EIO">>} :
               exc = Exception("other", args, "unset", "unset")
  BY <1>6
<1> QED BY <1>1, <1>2, <1>3, <1>4, <1>5, <1>6 DEF Exceptions

\* pygpgme_check_pyerror makes an error of every exception, but of those that
\* say that there is none.
LEMMA HookErrors ==
    ASSUME NEW cb \in Hooks, NEW exc \in Exceptions
    PROVE  /\ CheckPyError(exc) \in Errors
           /\ CheckPyError(exc) = NoError => SaysSuccess(cb, exc)
<1> USE DEF Errors, NoError, Sources, Codes, Errnos, Wide
<1>1. CASE /\ exc.type = "GpgmeError" /\ Len(exc.args) > 1
           /\ {exc.args[1], exc.args[2]} \subseteq Numbers
  <2>1. CheckPyError(exc) = ErrMake(exc.args[1], exc.args[2])
    BY <1>1 DEF CheckPyError
  <2>2. exc.args[1] \in Sources \cup Wide /\ exc.args[2] \in Codes \cup Wide
    BY <1>1, ExceptionForms
  <2>3. /\ SourceOf(exc.args[1]) \in Sources /\ CodeOf(exc.args[2]) \in Codes
        /\ CodeOf(exc.args[2]) = "no_error" =>
               exc.args[2] \in {"no_error", "2^16", "2^32"}
    BY <2>2 DEF SourceOf, CodeOf
  <2> QED BY <1>1, <2>1, <2>2, <2>3 DEF ErrMake, SaysSuccess
<1>2. CASE /\ exc.type = "OSError" /\ exc.args # <<>>
           /\ exc.args[1] \in Numbers
  <2>1. CheckPyError(exc) = FromErrno(exc.args[1])
    BY <1>2 DEF CheckPyError
  <2>2. exc.args[1] \in Errnos \cup Wide /\ Len(exc.args) > 1
    BY <1>2, ExceptionForms
  <2> QED BY <1>2, <2>1, <2>2 DEF FromErrno, IntOf, CodeFromErrno, SaysSuccess
<1>3. CASE /\ ~ /\ exc.type = "GpgmeError" /\ Len(exc.args) > 1
                /\ {exc.args[1], exc.args[2]} \subseteq Numbers
           /\ ~ /\ exc.type = "OSError" /\ exc.args # <<>>
                /\ exc.args[1] \in Numbers
  <2>1. CheckPyError(exc) = General
    BY <1>3 DEF CheckPyError
  <2> QED BY <2>1 DEF General
<1> QED BY <1>1, <1>2, <1>3

\* The exception of an operation on another context is its error again.
LEMMA RoundTrip ==
    /\ \A e \in Errors \ {NoError} : ErrorObject(e) \in Exceptions
    /\ \A e \in Genuine : CheckPyError(ErrorObject(e)) = e
<1>1. ASSUME NEW e \in Genuine PROVE CheckPyError(ErrorObject(e)) = e
  <2>1. PICK s \in Sources, c \in Codes \ {"no_error"} : e = <<s, c>>
    BY DEF Genuine
  <2>2. /\ ErrorObject(e).type = "GpgmeError"
        /\ ErrorObject(e).args = <<s, c, "text">>
    BY <2>1 DEF ErrorObject, Exception
  <2>3. CheckPyError(ErrorObject(e)) = ErrMake(s, c)
    BY <2>2 DEF CheckPyError, Numbers
  <2>4. ErrMake(s, c) = e
    BY <2>1 DEF ErrMake, SourceOf, CodeOf, Sources, Codes
  <2> QED BY <2>3, <2>4
<1> QED BY <1>1 DEF Exceptions

\* A callback that sets errno always reports an error.
LEMMA DataErrors ==
    /\ \A errno \in Errnos \cup Wide : FromSyserror(errno) \in Errors \ {NoError}
    /\ \A exc \in Exceptions : SetErrno(exc) \in Errnos \cup Wide
<1>1. ASSUME NEW errno \in Errnos \cup Wide
      PROVE  FromSyserror(errno) \in Errors \ {NoError}
  BY DEF FromSyserror, IntOf, CodeFromErrno, Errors, NoError, Sources, Codes,
         Errnos, Wide
<1>2. ASSUME NEW exc \in Exceptions
      PROVE  SetErrno(exc) \in Errnos \cup Wide
  BY ExceptionForms DEF SetErrno, Errnos
<1> QED BY <1>1, <1>2

\* One callback more lets a file reach that much further, and never beyond
\* what the bound on the callbacks allows.
LEMMA ReachFurther ==
    ASSUME NEW n \in 0 .. MaxCallbacks
    PROVE  /\ Reach(n) \in Nat /\ MaxPos \in Nat /\ Reach(n) <= MaxPos
           /\ Reach(n + 1) = Reach(n) + BufferSize + 1
<1> USE BoundsAssumption
<1>1. PICK k \in Nat : k = BufferSize + 1
  OBVIOUS
<1>2. n \in Nat /\ MaxCallbacks \in Nat /\ n <= MaxCallbacks
  OBVIOUS
<1>3. n * k \in Nat /\ MaxCallbacks * k \in Nat
  BY <1>1, <1>2
<1>4. n * k <= MaxCallbacks * k
  BY <1>1, <1>2
<1>5. (n + 1) * k = n * k + k
  BY <1>1, <1>2
<1> QED BY <1>1, <1>2, <1>3, <1>4, <1>5 DEF Reach, MaxPos

-----------------------------------------------------------------------------
(* The steps.                                                              *)

\* Before the first operation nothing has been reported.
LEMMA InitInv == Init => IndInv
<1> SUFFICES ASSUME Init PROVE IndInv
  OBVIOUS
<1> USE BoundsAssumption DEF Init
<1>1. Reach(0) = FileSize
  BY DEF Reach
<1>2. FileSize <= MaxPos /\ MaxPos \in Nat
  BY <1>1, ReachFurther
<1>3. TypeOK
  <2>1. /\ calls \in 0 .. MaxCallbacks /\ pos \in 0 .. MaxPos
        /\ size \in 0 .. MaxPos /\ libpos \in 0 .. MaxPos
    BY <1>2
  <2> QED BY <2>1 DEF TypeOK, Errors, NoError, Sources, Codes
<1> QED BY <1>1, <1>3 DEF IndInv, FileInv, ErrorInv, LastInv, OverflowInv,
                          NothingPending, PositionsAgree

\* An exception of a callback, and the error that was made of it.
Told(error, cb, exc) ==
    /\ ~ SaysSuccess(cb, exc) => error # NoError
    /\ \A e \in Genuine :
           cb \in Hooks /\ exc = ErrorObject(e) => error = e

\* The library calls back once more, as no error has been reported yet.
LEMMA Called ==
    ASSUME IndInv, NEW error \in Errors, NEW exception,
           Callback(error, exception),
           exception # NULL =>
               \E cb \in Hooks \cup Data, exc \in Exceptions :
                   exception = <<cb, exc>> /\ Told(error, cb, exc)
    PROVE  /\ at = "library" /\ UNCHANGED <<at, err, raised>>
           /\ reported = NoError /\ reported' = error
           /\ calls \in 0 .. MaxCallbacks /\ calls' = calls + 1
           /\ calls' \in 0 .. MaxCallbacks
           /\ last' = NULL \/ last' \in (Hooks \cup Data) \X Exceptions
           /\ ErrorInv' /\ LastInv'
<1> USE BoundsAssumption DEF Callback, IndInv, TypeOK
<1>1. /\ at = "library" /\ UNCHANGED <<at, err, raised>>
      /\ reported = NoError /\ reported' = error
      /\ calls \in 0 .. MaxCallbacks /\ calls' = calls + 1
      /\ calls' \in 0 .. MaxCallbacks
  OBVIOUS
<1>2. ErrorInv'
  BY <1>1 DEF ErrorInv
<1>3. CASE exception = NULL
  <2>1. last' = last
    BY <1>3
  <2>2. \A e \in Genuine : e # NoError
    BY DEF Genuine, NoError
  <2>3. LastInv'
    BY <1>1, <2>1, <2>2 DEF LastInv
  <2> QED BY <1>1, <1>2, <2>1, <2>3
<1>4. CASE exception # NULL
  <2>1. PICK cb \in Hooks \cup Data, exc \in Exceptions :
            exception = <<cb, exc>> /\ Told(error, cb, exc)
    BY <1>4
  <2>2. last' = <<cb, exc>>
    BY <1>4, <2>1
  <2>3. last'[1] = cb /\ last'[2] = exc
    BY <2>2
  <2>4. LastInv'
    BY <1>1, <2>1, <2>3 DEF LastInv, Told
  <2> QED BY <1>1, <1>2, <2>2, <2>4
<1> QED BY <1>3, <1>4

\* What remains to be shown of a callback is what it does with the file.
LEMMA CallbackKeeps ==
    ASSUME IndInv, NEW error \in Errors, NEW exception,
           Callback(error, exception),
           exception # NULL =>
               \E cb \in Hooks \cup Data, exc \in Exceptions :
                   exception = <<cb, exc>> /\ Told(error, cb, exc),
           pending' = pending \/ pending' = FALSE \/ overflowed' = TRUE,
           pending' \in BOOLEAN,
           \/ overflowed' = overflowed
           \/ /\ overflowed' = TRUE /\ error # NoError
              /\ exception # NULL => exception[1] \in Data,
           uneven' \in BOOLEAN,
           pos' \in Nat, size' \in Nat, libpos' \in Nat,
           pos' <= size', size' <= Reach(calls + 1), libpos' <= Reach(calls + 1),
           PositionsAgree'
    PROVE  IndInv'
<1>1. /\ at = "library" /\ UNCHANGED <<at, err, raised>>
      /\ reported' = error
      /\ calls \in 0 .. MaxCallbacks /\ calls' = calls + 1
      /\ calls' \in 0 .. MaxCallbacks
      /\ last' = NULL \/ last' \in (Hooks \cup Data) \X Exceptions
      /\ ErrorInv' /\ LastInv'
  BY Called
<1>2. FileInv'
  BY <1>1 DEF FileInv, Reach
<1>3. Reach(calls') \in Nat /\ MaxPos \in Nat /\ Reach(calls') <= MaxPos
  BY <1>1, ReachFurther
<1>4. pos' <= MaxPos /\ size' <= MaxPos /\ libpos' <= MaxPos
  BY <1>1, <1>3
<1>5. pos' \in 0 .. MaxPos /\ size' \in 0 .. MaxPos /\ libpos' \in 0 .. MaxPos
  BY <1>3, <1>4
<1>6. TypeOK'
  BY <1>1, <1>5 DEF IndInv, TypeOK, MaxPos
<1>7. NothingPending'
  BY <1>1 DEF IndInv, NothingPending, TypeOK
<1>8. ~ overflowed /\ reported = NoError
  BY DEF IndInv, Callback, OverflowInv, TypeOK
<1>9. OverflowInv'
  <2>1. CASE overflowed' = overflowed
    BY <1>8, <2>1 DEF OverflowInv
  <2>2. CASE /\ overflowed' = TRUE /\ error # NoError
             /\ exception # NULL => exception[1] \in Data
    <3>1. CASE exception = NULL
      <4>1. last' = last
        BY <3>1 DEF Callback
      <4>2. \A e \in Genuine : e # NoError
        BY DEF Genuine, NoError
      <4> QED BY <1>1, <1>8, <2>2, <4>1, <4>2 DEF OverflowInv, IndInv, LastInv
    <3>2. CASE exception # NULL
      <4>1. last' = exception
        BY <3>2 DEF Callback
      <4>2. last'[1] \notin Hooks
        BY <2>2, <3>2, <4>1 DEF Hooks, Data
      <4> QED BY <1>1, <2>2, <4>2 DEF OverflowInv
    <3> QED BY <3>1, <3>2
  <2> QED BY <2>1, <2>2
<1> QED BY <1>1, <1>2, <1>6, <1>7, <1>9 DEF IndInv

\* The bounds of a file, where one callback more is allowed.
LEMMA Bounds ==
    ASSUME IndInv
    PROVE  /\ pos \in Nat /\ size \in Nat /\ libpos \in Nat
           /\ pos <= size /\ size <= Reach(calls) /\ libpos <= Reach(calls)
           /\ Reach(calls) \in Nat
           /\ Reach(calls + 1) = Reach(calls) + BufferSize + 1
           /\ Reach(calls + 1) \in Nat
           /\ pending \in BOOLEAN /\ uneven \in BOOLEAN
           /\ overflowed \in BOOLEAN
<1>1. calls \in 0 .. MaxCallbacks
  BY DEF IndInv, TypeOK
<1>2. /\ Reach(calls) \in Nat /\ MaxPos \in Nat
      /\ Reach(calls + 1) = Reach(calls) + BufferSize + 1
  BY <1>1, ReachFurther
<1>3. Reach(calls + 1) \in Nat
  BY <1>2, BoundsAssumption
<1>4. pos \in Nat /\ size \in Nat /\ libpos \in Nat
  BY <1>2 DEF IndInv, TypeOK
<1> QED BY <1>2, <1>3, <1>4 DEF IndInv, TypeOK, FileInv

\* Callbacks that have nothing to do with the file.
LEMMA HooksKeep ==
    ASSUME IndInv, HookReturns \/ HookRaises \/ ProgressRaises
    PROVE  IndInv'
<1> USE BoundsAssumption DEF file
<1>1. /\ UNCHANGED file
      /\ pending' = pending \/ pending' = FALSE
      /\ pending' \in BOOLEAN /\ uneven' \in BOOLEAN
      /\ overflowed' = overflowed
  BY DEF HookReturns, HookRaises, ProgressRaises, IndInv, TypeOK
<1>2. /\ pos' \in Nat /\ size' \in Nat /\ libpos' \in Nat /\ pos' <= size'
      /\ size' <= Reach(calls + 1) /\ libpos' <= Reach(calls + 1)
  BY <1>1, Bounds
<1>3. NoError \in Errors
  BY DEF Errors, NoError, Sources, Codes
<1>4. CASE HookReturns \/ ProgressRaises
  <2>1. Callback(NoError, NULL)
    BY <1>4 DEF HookReturns, ProgressRaises
  <2>2. PositionsAgree'
    BY <1>1, <2>1 DEF Callback, IndInv, PositionsAgree
  <2> QED BY <1>1, <1>2, <1>3, <2>1, <2>2, CallbackKeeps
<1>5. CASE HookRaises
  <2>1. PICK hook \in Hooks, exc \in Exceptions :
            Callback(CheckPyError(exc), <<hook, exc>>)
    BY <1>5 DEF HookRaises
  <2>2. CheckPyError(exc) \in Errors
    BY HookErrors
  <2>3. Told(CheckPyError(exc), hook, exc)
    BY HookErrors, RoundTrip DEF Told
  <2>4. PositionsAgree'
    BY <1>1, <2>1 DEF Callback, IndInv, PositionsAgree
  <2> QED BY <1>1, <1>2, <2>1, <2>2, <2>3, <2>4, CallbackKeeps
<1> QED BY <1>4, <1>5

\* Data callbacks that fail: the position no longer matters, for an error is
\* reported.
LEMMA DataFailsKeep ==
    ASSUME IndInv, DataRaises \/ DataWrongType \/ TellOverflows
    PROVE  IndInv'
<1> USE BoundsAssumption
<1>1. /\ pending' = pending \/ pending' = FALSE \/ overflowed' = TRUE
      /\ pending' \in BOOLEAN /\ uneven' \in BOOLEAN
      /\ overflowed' = overflowed \/ overflowed' = TRUE
      /\ size' = size /\ libpos' = libpos /\ pos' \in {pos} \cup 0 .. size
  BY DEF DataRaises, DataWrongType, TellOverflows, LeavesOverflow, IndInv, TypeOK
<1>2. /\ pos' \in Nat /\ size' \in Nat /\ libpos' \in Nat /\ pos' <= size'
      /\ size' <= Reach(calls + 1) /\ libpos' <= Reach(calls + 1)
  BY <1>1, Bounds
<1>3. ASSUME NEW errno \in Errnos \cup Wide, NEW exception,
             Callback(FromSyserror(errno), exception),
             exception # NULL =>
                 \E cb \in Data, exc \in Exceptions :
                     /\ exception = <<cb, exc>>
                     /\ Told(FromSyserror(errno), cb, exc)
      PROVE  IndInv'
  <2>1. FromSyserror(errno) \in Errors \ {NoError}
    BY DataErrors
  <2>2. PositionsAgree'
    BY <1>3, <2>1 DEF Callback, PositionsAgree
  <2>3. exception # NULL => exception[1] \in Data
    BY <1>3
  <2> QED BY <1>1, <1>2, <1>3, <2>1, <2>2, <2>3, CallbackKeeps
<1>4. CASE DataRaises
  <2>1. PICK cb \in Data, exc \in Exceptions :
            Callback(FromSyserror(SetErrno(exc)), <<cb, exc>>)
    BY <1>4 DEF DataRaises
  <2>2. SetErrno(exc) \in Errnos \cup Wide /\ FromSyserror(SetErrno(exc)) # NoError
    BY DataErrors
  <2>3. Told(FromSyserror(SetErrno(exc)), cb, exc)
    BY <2>2 DEF Told, Hooks, Data
  <2> QED BY <1>3, <2>1, <2>2, <2>3
<1>5. CASE DataWrongType
  BY <1>3, <1>5 DEF DataWrongType, Errnos
<1>6. CASE TellOverflows
  BY <1>3, <1>6 DEF TellOverflows
<1> QED BY <1>4, <1>5, <1>6

\* Data callbacks that do what they are asked to.
LEMMA DataKeeps ==
    ASSUME IndInv, ReadReturns \/ WriteReturns \/ SeekReturns
    PROVE  IndInv'
<1> USE BoundsAssumption
<1>1. Callback(NoError, NULL) /\ pending' = pending /\ overflowed' = overflowed
  BY DEF ReadReturns, WriteReturns, SeekReturns
<1>2. reported' = NoError /\ reported = NoError /\ NoError \in Errors
  BY <1>1 DEF Callback, Errors, NoError, Sources, Codes
<1>3. ~ uneven => libpos = pos
  BY <1>2 DEF IndInv, PositionsAgree
<1>4. /\ pos' \in Nat /\ size' \in Nat /\ libpos' \in Nat /\ pos' <= size'
      /\ size' <= Reach(calls + 1) /\ libpos' <= Reach(calls + 1)
      /\ uneven' \in BOOLEAN /\ PositionsAgree'
  <2>1. CASE ReadReturns
    <3>1. PICK n \in 1 .. BufferSize, given \in 0 .. (BufferSize + 1) :
              /\ pos + given <= size
              /\ pos' = pos + given /\ size' = size
              /\ libpos' = libpos + Lesser(given, n)
              /\ uneven' = (uneven \/ given > n)
      BY <2>1 DEF ReadReturns
    <3>2. Lesser(given, n) \in 0 .. BufferSize
      BY DEF Lesser
    <3>3. ~ uneven' => ~ uneven /\ Lesser(given, n) = given
      <4>1. ~ uneven' => ~ uneven /\ ~ given > n
        BY <3>1, Zenon
      <4>2. ~ given > n => Lesser(given, n) = given
        BY DEF Lesser
      <4> QED BY <4>1, <4>2
    <3>4. uneven' \in BOOLEAN
      BY <3>1
    <3> QED BY <1>3, <3>1, <3>2, <3>3, <3>4, Bounds DEF PositionsAgree
  <2>2. CASE WriteReturns
    <3>1. PICK n \in 1 .. BufferSize : \E taken \in 0 .. n :
              /\ pos' = pos + taken
              /\ size' = IF pos + taken > size THEN pos + taken ELSE size
              /\ libpos' = libpos + n
              /\ uneven' = (uneven \/ taken < n)
      BY <2>2 DEF WriteReturns
    <3>2. PICK taken \in 0 .. n :
              /\ pos' = pos + taken
              /\ size' = IF pos + taken > size THEN pos + taken ELSE size
              /\ libpos' = libpos + n
              /\ uneven' = (uneven \/ taken < n)
      BY <3>1
    <3>3. ~ uneven' => ~ uneven /\ taken = n
      <4>1. ~ uneven' => ~ uneven /\ ~ taken < n
        BY <3>2, Zenon
      <4>2. ~ taken < n => taken = n
        OBVIOUS
      <4> QED BY <4>1, <4>2
    <3>4. uneven' \in BOOLEAN
      BY <3>2
    <3> QED BY <1>3, <3>2, <3>3, <3>4, Bounds DEF PositionsAgree
  <2>3. CASE SeekReturns
    BY <1>3, <2>3, Bounds DEF SeekReturns, Target, PositionsAgree
  <2> QED BY <2>1, <2>2, <2>3
<1> QED BY <1>1, <1>2, <1>4, Bounds, CallbackKeeps

\* The operation begins and ends, and the method returns.
LEMMA OperationKeeps ==
    ASSUME IndInv, Begin \/ EditStatusFails \/ GpgmeEnds \/ CheckError
    PROVE  IndInv'
<1> USE DEF IndInv, TypeOK, file, MaxPos
<1>1. CASE Begin
  BY <1>1 DEF Begin, FileInv, Reach, ErrorInv, LastInv, OverflowInv,
              SaysSuccess, NothingPending, PositionsAgree
<1>2. CASE GpgmeEnds
  <2>1. err' \in Errors
    BY <1>2 DEF GpgmeEnds, Errors, NoError, Sources, Codes
  <2> QED BY <1>2, <2>1 DEF GpgmeEnds, FileInv, Reach, ErrorInv, LastInv,
                            OverflowInv, SaysSuccess, NothingPending,
                            PositionsAgree
<1>3. CASE CheckError
  <2>1. err # NoError => ErrorObject(err) \in Exceptions
    BY RoundTrip
  <2>2. SystemError \in Exceptions
    BY DEF SystemError, Exceptions
  <2> QED BY <1>3, <2>1, <2>2 DEF CheckError, FileInv, Reach, ErrorInv, LastInv,
                            OverflowInv, SaysSuccess, NothingPending,
                            PositionsAgree
<1>4. CASE EditStatusFails
  BY <1>4 DEF EditStatusFails, FileInv, Reach, ErrorInv, LastInv, OverflowInv,
              SaysSuccess, NothingPending, PositionsAgree
<1> QED BY <1>1, <1>2, <1>3, <1>4

\* Another operation starts as the first one did.
LEMMA ResumeKeeps ==
    ASSUME IndInv, Resume
    PROVE  IndInv'
<1> USE BoundsAssumption DEF Resume
<1>1. Reach(0) = FileSize
  BY DEF Reach
<1>2. FileSize <= MaxPos /\ MaxPos \in Nat
  BY <1>1, ReachFurther
<1>3. TypeOK'
  <2>1. /\ calls' \in 0 .. MaxCallbacks /\ pos' \in 0 .. MaxPos
        /\ size' \in 0 .. MaxPos /\ libpos' \in 0 .. MaxPos
    BY <1>2
  <2>2. MaxPos' = MaxPos
    BY DEF MaxPos
  <2> QED BY <2>1, <2>2 DEF TypeOK, Errors, NoError, Sources, Codes
<1>4. FileInv'
  BY <1>1 DEF FileInv, Reach
<1> QED BY <1>3, <1>4 DEF IndInv, ErrorInv, LastInv, OverflowInv,
                          NothingPending, PositionsAgree

\* The invariant holds at any time.
LEMMA Invariance == Spec => []IndInv
<1>1. Init => IndInv
  BY InitInv
<1>2. IndInv /\ [Next]_vars => IndInv'
  <2> SUFFICES ASSUME IndInv, [Next]_vars PROVE IndInv'
    OBVIOUS
  <2>1. CASE Next
    BY <2>1, HooksKeep, DataFailsKeep, DataKeeps, OperationKeeps, ResumeKeeps
       DEF Next
  <2>2. CASE UNCHANGED vars
    BY <2>2 DEF vars, IndInv, TypeOK, MaxPos, FileInv, Reach, ErrorInv,
                LastInv, OverflowInv, SaysSuccess, NothingPending, PositionsAgree
  <2> QED BY <2>1, <2>2
<1> QED BY <1>1, <1>2, PTL DEF Spec

-----------------------------------------------------------------------------
(* The theorems.                                                           *)

\* Every conversion gives a gpgme_error_t, and every error an exception; a
\* file stays within reach.
THEOREM TypeCorrect == Spec => []TypeOK
<1>1. IndInv => TypeOK
  BY DEF IndInv
<1> QED BY <1>1, Invariance, PTL

\* An exception of a passphrase, edit or data callback that does not itself
\* say that there is no error makes the method raise, whatever callbacks came
\* before it.
THEOREM ExceptionsAreRaised == Spec => []ExceptionsSurface
<1>1. IndInv => ExceptionsSurface
  <2> SUFFICES ASSUME IndInv, at = "returned", last # NULL,
                      ~ SaysSuccess(last[1], last[2])
               PROVE  raised # NULL
    BY DEF ExceptionsSurface
  <2>1. /\ err # NoError /\ err \in Errors
        /\ raised \in {ErrorObject(err), SystemError}
    BY DEF IndInv, TypeOK, ErrorInv, LastInv
  <2>2. {ErrorObject(err), SystemError} \subseteq Exceptions
    BY <2>1, RoundTrip DEF SystemError, Exceptions
  <2> QED BY <2>1, <2>2, NullAssumption
<1> QED BY <1>1, Invariance, PTL

\* The error of an operation on another context comes out of the outer one
\* with its source and code.
THEOREM NestedErrorsSurvive == Spec => []NestedErrorSurvives
<1>1. IndInv => NestedErrorSurvives
  <2> SUFFICES ASSUME IndInv, at = "returned", last # NULL, NEW e \in Genuine,
                      last[1] \in Hooks, last[2] = ErrorObject(e)
               PROVE  raised = last[2]
    BY DEF NestedErrorSurvives, Genuine
  <2>1. reported = e /\ ~ overflowed /\ e # NoError
    BY DEF IndInv, LastInv, OverflowInv, Genuine, NoError
  <2> QED BY <2>1 DEF IndInv, ErrorInv
<1> QED BY <1>1, Invariance, PTL

\* No exception is left in the thread while the library runs, but the
\* OverflowError of a tell() or an errno beyond a C long.
THEOREM NoneIsPending == Spec => []NothingPending
<1>1. IndInv => NothingPending
  BY DEF IndInv
<1> QED BY <1>1, Invariance, PTL

\* The library is right about the position of a file whose read() and write()
\* keep to what they are asked.
THEOREM PositionsDoAgree == Spec => []PositionsAgree
<1>1. IndInv => PositionsAgree
  BY DEF IndInv
<1> QED BY <1>1, Invariance, PTL
=============================================================================
