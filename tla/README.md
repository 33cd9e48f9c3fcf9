# A TLA+ model of pygpgme

pygpgme wraps the gpgme library for Python: `lib/*.c` is the extension module
`gpgme._gpgme`, `src/gpgme/` the Python package around it. This directory holds
specifications of the wrapper, the TLC runs that check them on small
instances, and TLAPS proofs that their safety properties hold for instances of
any size. Paths below are relative to the root of the repository; `context.c`, `keyiter.c`, `data.c`,
`error.c`, `key.c` stand for `lib/pygpgme-*.c`, and `editutil.py` for
`src/gpgme/editutil.py`.

`PROJECT.json` lists the runs, the source lines every definition models, a
mutant of the code for every property, the hazards and the findings.

## The system

| Component | Sources | State | Operations |
|---|---|---|---|
| Context locking | `context.c`, `keyiter.c` | per context: `mutex`, `tstate`, the two callback references, gpgme's hooks | `begin_allow_threads` / `end_allow_threads`, `lock_context` / `unlock_context`, trampolines, callback attributes |
| Nested calls | `context.c` | the stack of calls of each thread | callbacks and finalizers that call methods |
| Context operations | `context.c`, `pygpgme-import.c`, `-genkey.c`, `-signature.c`, `-engine-info.c` | local variables of a method: data objects, arrays, patterns, sequences, results | 16 methods from `get_key` to `keylist`, and `get_engine_info`; conversion of results, attributes of exceptions |
| Context attributes | `context.c`, `pygpgme-signature.c` | what the library stores: scalars, `signers`, `sig_notations`, engine info, locale | getters and setters |
| Key listings | `context.c`, `keyiter.c` | one listing per gpgme context, references of iterators to contexts | `keylist`, `KeyIter.__next__`, deallocation |
| File-object data | `data.c` | a Python file and the context behind a `gpgme_data_t` | read, write, seek and release callbacks |
| Error conversion | `error.c` | none | exception to `gpgme_error_t` and back |
| Key objects | `key.c`, `context.c` | references of a `Key` to its `gpgme_key_t`, and of `Subkey`, `UserId`, `KeySig` to their parents | getters of lists, construction, deallocation |
| Signatures and results | `pygpgme-signature.c`, `-import.c`, `-genkey.c`, `-engine-info.c` | filled once | construction |
| Edit sessions | `editutil.py`, `context.c` | a generator that answers prompts | `key_editor`, `edit_trust`, `edit_sign` |
| Module | `gpgme.c`, `pygpgme-constants.c`, `src/gpgme/__init__.py` | types and constants of an interpreter | initialisation, traverse, clear |

How they interact. A Python program calls methods of `gpgme.Context` from any
number of threads. A method that runs an operation saves the thread state,
takes the context's mutex, stores the thread state in the context, and enters
the library; the interpreter is free for other threads meanwhile. The library
calls back: the passphrase, progress and edit trampolines, and the read, write
and seek callbacks of file arguments. Each restores the stored thread state,
runs Python code, turns an exception into an error, and saves the thread state
again. That Python code may call further methods. The library's error becomes
a `GpgmeError` after the mutex has been released. Attribute getters and
setters take the mutex too, but keep the interpreter while they use it.
`KeyIter.__next__` enters the library without the mutex. `edit_trust` and
`edit_sign` are Python generators that `key_editor` connects to the edit
callback: every status of gpg is sent into the generator, and what it yields
is written to gpg. A `Key` shares its `gpgme_key_t` with the library's list of
signers, and the objects in its lists point into that memory.

What is hard here:

- the order of two locks, the interpreter's and the context's, and one slot
  per context for the thread state, through callbacks that take and return it;
- callback attributes that a setter clears, fills and registers in steps, with
  a finalizer in between that may run any Python code;
- state of the library that a later operation replaces while Python still uses
  it: results read after the mutex is released, listings behind an iterator;
- a mutex that is not recursive, and callbacks that call methods;
- cleanup by hand in C on some forty failure paths;
- list attributes filled item by item, where an item may be refused;
- results made member by member, where Python code that makes one may be
  interrupted, and checks that come late or never;
- objects that are pointers into the memory of another, kept by a chain of
  references that each function extends and gives up by hand;
- a dialogue whose two sides each decide what comes next: a prompt out of
  place, a status nobody expects, a failed write, a gpg that dies;
- errors that cross the border between Python and C twice.

## Correctness properties by component

*Locking*: the assertions of the code hold; Python objects are touched only by
an attached thread; calls exclude each other; a registered trampoline has an
object to call, and the object stays alive; calls return. Together: a context
is a monitor. *Nested calls*: no circular wait, if callbacks use contexts in
one direction. *Operations*: everything acquired is given back once, under the
right conditions, and the references the code forgets are known; NULL is
returned exactly with an exception; no item of a returned result is half made.
*Attributes*: an assignment is seen whole, raises exactly if it is refused, and
hides an exception only where NULL is stored for what has no UTF-8 form. *Key objects*: everything the program holds
points to memory that is in use, and every reference count is exact. *Edit
sessions*: a call that returns has edited the key as asked; a session that
took an unexpected turn saves no signature; an undisturbed one succeeds; every
session ends. *Listings*: the
newest iterator returns matching keys, once each, in order, and misses none but
those another iterator took or an error was raised for; a context lives as long
as it is reachable. *Callbacks*: errors surface with their code, no exception
stays pending but the overflow of a number that is no C long, the library's
file position is the file's.

## Modules

| Module | Models | Extends / uses |
|---|---|---|
| `ContextLock` | the locking protocol, statement by statement | – |
| `MCContextLock` | instances: which thread uses which context | `ContextLock` |
| `ContextLockProofs` | the inductive invariant and its consequences; `ContextLock` implements `ContextMonitor` | `ContextLock`, `TLAPS` |
| `ContextMonitor` | the abstract promise: a context is a monitor | – |
| `NestedCalls`, `MCNestedCalls` | stacks of calls over several contexts | `SequencesExt` |
| `NestedCallsProofs` | assertions, and no circle of waits | `NestedCalls`, `SequenceTheorems`, `WellFoundedInduction` |
| `KeyListing`, `MCKeyListing` | listings, iterators and references | – |
| `KeyListingProofs` | exact counts, what the newest iterator returns | `KeyListing`, `FiniteSetTheorems`, `SequenceTheorems` |
| `ContextMethods` | every operation method as a script of its statements, with the conversion of its result | – |
| `ContextMethodsProofs` | all its safety properties | `ContextMethods`, `SequenceTheorems` |
| `ContextAttributes` | attributes kept by the library | `SequencesExt` |
| `ContextAttributesProofs` | whole assignments and reads | `ContextAttributes`, `SequenceTheorems` |
| `CallbackErrors` | callbacks, file positions and exceptions | – |
| `CallbackErrorsProofs` | all its safety properties | `CallbackErrors` |
| `KeyObjects`, `MCKeyObjects` | keys, the objects that look into them, and who keeps whom | `FiniteSets` |
| `KeyObjectsProofs` | exact counts, valid views | `KeyObjects`, `FiniteSetTheorems` |
| `EditSession` | the generators of `editutil.py` against gpg | – |
| `EditSessionProofs` | all its safety properties | `EditSession` |

**ContextLock.** A thread has a location `pc[t]` between any two statements
another thread can observe. `mutex`, `tstate` and `callable` are the fields of
`PyGpgmeContext`; `hooked` is what gpgme has registered; `opdata` says whose
operation left the result gpgme keeps; `attached` is the set of threads that
hold a thread state, at most one if `GIL` holds. `Call`, `Acquire`, `BeginSet`,
`EndRestore`, `EndClear`, `EndRelease` are the lines of the first pair of
locking functions, `LockRestore` and `Unlock` those of the second.
`CallbackEnter` and `CallbackLeave` are the trampolines; `ClearCallback` and
`InstallCallback` the setter before and after the finalizer that `Py_CLEAR`
can run. `ReadResult` is the read of `gpgme_op_*_result`, after the mutex is
free. `NextKey` and `NextReturn` are `KeyIter.__next__`. `Preempt` and `Resume`
are the interpreter's switches between threads.

**ContextMonitor.** Four variables: who is inside a context and why, the
installed callbacks, what a thread has seen there, and whose result is kept.
The mapping (`Holder`, `Installed`, `Seen` in `ContextLock`) hides the moment
between `Py_CLEAR` and the new reference: a setter installs at `ClearCallback`.

**NestedCalls.** A thread has a stack of frames, each a context and a stage.
Begin and end of an operation are single steps, justified by
`AttachmentDiscipline`: a thread never waits for a mutex with the interpreter in
its hands, so the interpreter cannot take part in a circle of waits.

**KeyListing.** `listing[c]` is the keys that gpgme will still deliver on a
context, `refs[c]` the reference count of the Python object. The rest is
history: `asked`, `yielded` and `outcome` of an iterator, and of a listing its
`owner` (the iterator that the last operation returned), how many keys have been
`taken` from it otherwise, and whether it is `broken` by an error. An older
iterator of the context takes keys of the same listing: `NextKey` does not ask
who the owner is. `NextKeyLost` is the path on which the key is taken but its
wrapper cannot be made. `KeylistFails` has three outcomes: no listing, an empty
one, and the new one, where there is no memory for the `KeyIter`.

**ContextMethods.** A method is a record: a script of statements (open a file,
parse patterns, borrow keys, run, free, ...), what runs when the nth acquisition
fails, and which variables start as NULL. A method with an `end:` label undoes
in the same way from everywhere, a method that returns from each test undoes
differently. `var[r]` is the C variable of resource r: unset, null, live or
freed. While the operation runs, `ChangeList` lets other Python code change a
list of keys the caller passed. `Convert` is replaced by `Items`, the loop over
the items of a result. `DoItems` goes on after the loop, or puts the statements
that make one more item (`Builder`) in front of it: `DoFill` makes the
members, one of which Python code may fail to make; `DoLook` is the look at
`PyErr_Occurred` after the last of them, and leaves the loop; `DoStore` appends.
Nothing counts the items: a result has any number of them. `DoAnnotate` adds an
attribute to the exception of a failed operation. Where a list for it cannot be
made the code applies `Py_DECREF` to NULL, and the model ends the program
("crashed"). An exception is a `GpgmeError` or another one, for a signal may
be raised while the `GpgmeError` is made. `lost` is what a call has made and
never gives up, and has no variable for: the bytes objects of patterns
(`ParsePatterns`), the reference a `GpgmeError` is made with (`CheckError`), an
`ImportResult` whose list cannot be made (`DoConvert`).

**ContextAttributes.** `Scalars` says, for each attribute, how its setter
converts a value and what the library refuses. As in the code, the setters of
attributes truncate a number that does not fit the C variable, `set_engine_info`
and `set_locale` refuse it, and a sender without a UTF-8 form becomes NULL.
`Lists` are cleared and filled item by item; a notation whose name or value has
no UTF-8 form (`LossyItem`) is added with NULL in its place (`CutItem`).
`raised[t]` tells a call that raises from one that returns its result with an
exception set ("unseen"). A getter may fail (`GetFails`); that of `sig_notations`
then takes the process with it (`Crash`), and the program starts again with a
new context. `last` is what the most recent assignment amounts to.
`get_engine_info` asks for the library's list before it takes the mutex and reads
it inside: the list belongs to the context and is changed in place, so only the
reading matters.

**KeyObjects.** `Objects` are places for Python objects: `kind`, `gkey`,
`parent`, `items` and `refs` are what is at a place, `held` what the program has
a name for, `keyrefs` the reference counts of gpgme's keys, `signers` what a
context keeps of them. Getters take one step per item, and another thread may
drop or take anything in between: `CallGetter`, then `AddItem`, `AppendFails`
or `ItemFails` for every node, then `ReturnList`. `FetchKey`, `KeyNew`,
`ReturnKey` are the functions that return a `Key`. Dropping the last reference
and deallocating are two steps (`DropName`, then `KeyDealloc`, `ViewDealloc` or
`ListDealloc`), so a chain of parents goes one link at a time. A place is
reused as soon as it is free, so a reference too few shows.

**EditSession.** A generator is a set of transitions: where it waits, the
prompt it asserts, the answer it yields, where it waits next. `TrustScript` and
`SignScript` are those of `edit_trust` and `edit_sign`. `IgnoreStatus`,
`SendAnswer`, `WriteFails` and `RejectMessage` are the ways through
`edit_callback`; `RefuseRequest`, `StartEdit` and `ReturnFromEdit` the wrapper
with its `finally`. gpg is external and is modelled from the prompts the code
names: it asks, obeys, signs for one signer after another, saves. It may leave
questions out, say that a key is signed already, fail to sign, send a status or
a prompt nobody expects, or die. `mem` is the key as gpg has edited it, `disk`
the keyring. `incident` and `before` are history.

**CallbackErrors.** One operation and one file. `Exceptions` holds the shapes of
exception that the conversions tell apart: arguments or none, numbers or not,
a `code` or `errno` attribute or not. `CheckPyError`, `SetErrno` and
`ErrorObject` are the functions of `error.c` and `data.c` on them. Numbers too
large for an error code, an int or a long of C are among the arguments and
errnos (`Wide`), with what C makes of them (`SourceOf`, `CodeOf`, `IntOf`). `pos`
and `libpos` are the position of the file and what the callbacks have told the
library about it. `uneven` and `overflowed` remember a file object that
transfers more or less than asked, and a `tell()` or errno that is no C long.
`EditStatusFails` is the `Py_DECREF` of a status that could not be made, and ends
the program; `Resume` starts the next call, or the next program.

## Runs

| Run | Shows | Bounds |
|---|---|---|
| `lock_gil` | the assertions, thread-state and exclusion properties, consistency of callback attributes, and that every call returns, with a GIL | 2 threads, 1 context, 1 slot, 2 callables, fair |
| `lock_free_threaded` | the inductive invariant, that a result is the method's own until the mutex is released, and the refinement of `ContextMonitor`, without a GIL | 2 threads, 2 contexts of which one is private, 2 slots |
| `lock_shared_result` | `ResultIsOwn` fails: a result is read after another thread's operation | 2 threads, 1 context |
| `nested_ordered` | assertions, no circular wait and termination with nested calls | 2 threads, 2 contexts, depth 2, fair |
| `listing_fresh` | exact reference counts; the newest iterator returns matching keys in order and misses none unnoticed, beside older ones | 2 contexts, 2 iterators, 2 patterns with a key in common, symmetric |
| `methods_release` | every method, every failure: releases and forgotten references, arguments, exceptions, whole results, borrowed keys | 2 keys; tuple, iterator and list; results of any size; warnings may be errors |
| `methods_patterns` | `NoReferenceLost` fails in `parse_key_patterns` | 2 keys; no lists, no warnings |
| `attributes` | whole assignments, which raise if refused and hide an exception only with what cannot be converted, and whole reads | 2 threads, 12 attributes, lists of up to 2 items of 2 kinds, a bad one and one without a UTF-8 form |
| `callbacks` | exceptions surface with their code, nothing pending but an overflow, positions agree | 3 callbacks, a file of 3 bytes, a buffer of 2 |
| `callbacks_cancel` | `CancelIsReported` fails: the attribute `code` is not looked at | the same |
| `edit_session` | success means the key is edited, surprises save nothing, quiet sessions succeed, every session ends | 2 user IDs, 2 signers, 3 levels of trust, 1 status on the list per session, any number of sessions, fair |
| `key_objects` | every object points to memory in use, every count is exact | 2 threads, 1 gpgme key, 5 objects at a time, 1 subkey, 2 user IDs with 1 signature each, symmetric |

Why the bounds are enough. Two threads make every pair of calls meet; that a
third adds nothing to the safety of the protocol is what the proofs show, for
any number. Two contexts and depth 2 are the least circle of waits between
contexts, and the least nesting on top of a held mutex; one context is enough
for waiting for oneself. Two patterns that share a key distinguish a key that
matches by luck from a listing that is right. Two list items give an assignment
a middle. Three callbacks allow a success, a second one that fails, and one in
between; a buffer of two bytes in a file of three gives a short last read. Two
user IDs make gpg ask whether to sign all, and two signers make a session fail
after its first signature; the trust values are one that is refused, one that is
stored, and the one that is confirmed. One status on the list shows that it may
come anywhere, for it changes nothing. Five objects hold the longest chain (a
key, a list, a user ID, its list and a signature); two threads are two getters
on one object. With two gpgme keys `KeyObjects` was also run to the end with
four objects (68 000 states) and five (488 000), which takes too long to repeat
often. Deadlock is checked except in `KeyListing`, whose program may drop all it has.

### What the failing runs say

- `lock_shared_result`. `sign` and seven more places read `gpgme_op_*_result`
  after `end_allow_threads`; the README describes operation and result as one
  call and promises to "play nicely in multi-threaded Python programs". Until
  the method releases the mutex the result is its own, on any context
  (`ResultIsOwnUntilRelease`, proved): a read one line earlier would be right.
- `methods_patterns`. `parse_key_patterns` drops its reference to a pattern's
  bytes object only on failure.
- `callbacks_cancel`. The documentation of `passphrase_cb` asks for a
  `GpgmeError` whose attribute `code` is `ERR_CANCELED`; the code reads the
  second argument of the exception.

### What the model contains and no run shows

These are behaviours of the code that the models have and that no failing run
is about; few of them contradict a text of the repository. They are listed as
hazards, and the properties that pass make
an exception for them where the text of the property says so.

- `KeyIter.__next__` is in the library outside the mutex, beside any other
  call (`keyiter.c:57`).
- A listing belongs to the context, not to the iterator, and the next operation
  replaces it: an older iterator goes on with keys that need not match what it
  was asked for, and takes them from the newest one. What is left of the promise
  is `LatestIteratorInOrder`.
- Every `GpgmeError` a method raises keeps the reference it was made with
  (`error.c:73`), and an import that has no memory for its list forgets its
  `ImportResult` (`pygpgme-import.c:124`): errors of the kind `methods_patterns`
  shows. `EverythingReleased` excepts them by name (`MayForget`).
- A list of keys that is changed during an operation can leave the library with
  keys that nothing refers to; `FixedSequenceKeepsKeys` holds for the other
  sequences.
- `set_sender` unsets the sender for a string that has no UTF-8 form, and
  `sig_notations` stores such a notation without its name or value; both return 0
  with an exception pending. `AssignmentsAreWhole` says that nothing else does.
- A number beyond 32 bits is truncated, and `write_cb` ignores a short write.
- `set_errno` leaves an `OverflowError` pending if the errno of an `OSError` is no
  C long, as `seek_cb` does for `tell()`; the method then raises, but perhaps not
  a `GpgmeError`.
- `get_engine_info` returns an item with a NULL member, and an exception set,
  where a member cannot be made.
- `edit` and `card_edit` run their operation although `PyErr_WarnEx` has set an
  exception, and may return a value with it (`Warned`).
- A failed method whose exception cannot be given its list applies `Py_DECREF` to
  NULL, and so do `pygpgme_edit_cb` without a status (`context.c:1912`) and the
  getter of `sig_notations` without a list (613). `genkey` keeps its result for
  ever if its error is not a `GpgmeError`.
- A getter of a key returns a shorter list, with an exception set, if
  `PyList_Append` fails.
- An edit call may raise although the key is saved: a status nobody expects
  after the last answer finds the generator finished. Where gpg reports a failed
  signature only by a status on the list, the call raises at the end but the
  signatures that were made are saved.

## Fairness

Only `EveryCallReturns` and `EditReturns` need it. In `ContextLock`, `Fairness` says: a thread in
C code takes its next step; the interpreter is handed over (CPython makes the
thread that gives up the GIL on request wait until another has taken it), so
that a thread that wants to attach again and again does (`SF`); a Python
callback returns; an operation calls back finitely often and ends.
`LockFairness` adds that a mutex released again and again is obtained:
`PyThread_acquire_lock` promises this only on platforms whose locks are
starvation-free, and it is a condition of its own for that reason. No fairness
makes a thread call a method. `NestedCalls` assumes the same for each depth of
nesting. In `nested_ordered` callbacks use contexts in one direction (`Ordered`):
with callbacks that may use any context, threads wait in a circle, and a callback
or finalizer that uses its own context waits for itself. In `EditSession` weak
fairness makes gpg go on with its own dialogue (`GpgProceeds`), the library call
the function with what gpg said (`Callback`), and the wrapper return. What gpg
does not owe (statuses in between, surprises, dying, answers that fail) has
none, and neither has the caller's next call. That a session ends also needs
that gpg does not talk about nothing for ever, which is the bound `MaxChatter`.
`SuccessMeansDone` needs no fairness, but it does assume that gpg tells of a
failed signature: by a status that is not on the list, or by the error of the
operation.

## Proofs

TLAPS checks the theorems below for every value of the constants. Each proof
module has an `IndInv` that is inductive (`Init => IndInv` and
`IndInv /\ [Next]_vars => IndInv'`, lemma by lemma, one per action or one per
conjunct), and every theorem follows from it. TLC checked each `IndInv` on the
instance of the module's run before it was proved.

| Module | Theorem | Property |
|---|---|---|
| `ContextLockProofs` | `Invariance` | `IndInv` |
| | `TypeCorrect` | `TypeOK` |
| | `AssertionSafety` | `AssertionsHold` |
| | `AttachmentSafety` | `AttachmentDiscipline` |
| | `Exclusion` | `MutualExclusion` |
| | `HookSafety` | `HookMatchesCallable` |
| | `BorrowedReference` | `CalledStaysInstalled` (proved only: no run checks it by itself) |
| | `CallbacksFixed` | `CallbacksFixedDuringOperation` |
| | `ResultsUntilRelease` | `ResultIsOwnUntilRelease` |
| | `Refinement` | `ImplementsMonitor` |
| `NestedCallsProofs` | `TypeCorrect` | `TypeOK` |
| | `NestedAssertions` | `AssertionsHold` |
| | `OrderedContextsDoNotDeadlock` | `NoCircularWait`, if `Ordering(rank)` |
| `KeyListingProofs` | `TypeCorrect` | `TypeOK` |
| | `ContextRefs` | `ContextRefsExact` |
| | `LatestIterator` | `LatestIteratorInOrder` |
| `ContextMethodsProofs` | `TypeCorrect` | `TypeOK` |
| | `EverythingIsReleased` | `EverythingReleased` |
| | `ReleasesAreProper` | `ReleasesProper` |
| | `ArgumentsAreValid` | `ArgumentsValid` |
| | `RaisesIff` | `RaisesIffNull` |
| | `ResultsAreWhole` | `ResultsWhole` |
| | `FixedSequencesKeepKeys` | `FixedSequenceKeepsKeys` |
| `ContextAttributesProofs` | `TypeCorrect` | `TypeOK` |
| | `WholeAssignments` | `AssignmentsAreWhole` |
| | `WholeReads` | `ReadsAreWhole` |
| `CallbackErrorsProofs` | `TypeCorrect` | `TypeOK` |
| | `ExceptionsAreRaised` | `ExceptionsSurface` |
| | `NestedErrorsSurvive` | `NestedErrorSurvives` |
| | `NoneIsPending` | `NothingPending` |
| | `PositionsDoAgree` | `PositionsAgree` |
| `KeyObjectsProofs` | `TypeCorrect` | `TypeOK` |
| | `CountsAreExact` | `CountsExact` |
| | `ViewsStayValid` | `ViewsValid` |
| `EditSessionProofs` | `TypeCorrect` | `TypeOK` |
| | `SuccessIsDone` | `SuccessMeansDone` |
| | `NothingSavedOnSurprise` | `SurpriseSavesNothing` |
| | `QuietSessionsSucceed` | `QuietSessionSucceeds` |

The assumptions are the `ASSUME`s of the modelled modules, which TLC evaluates
in every run: the types of the constants (`Uses`, `May`, `Matches`, `Length`
are functions of the right kind, bounds are natural numbers, `GIL` is a
Boolean, `Trusts` are trust values of the library), and that `NULL`, and
the items that are refused or cut, are none of the other values. No set of threads, contexts, keys or
objects is assumed to be finite. One theorem has a hypothesis of its own:
`OrderedContextsDoNotDeadlock` takes a `rank` of the contexts such that the
callbacks of a context use only contexts of a lower rank. A program that
nests contexts in one direction has one; without it the property is false.

The argument, module by module.

**ContextLock.** None of the properties is inductive. `AssertionsHold` at
`begin_set` needs that nobody else has stored a thread state in the context,
which needs that the mutex is held by the thread that says so, which needs that
whoever is inside holds it. `IndInv` is the conjunction of `TypeOK` and

- `CallConsistent`: the request a thread makes fits its location;
- `MutexConsistent`: a location inside a call implies the mutex, and a held
  mutex a thread inside;
- `TstateConsistent`: a thread inside an operation, its callbacks included, is
  the one its context's `tstate` holds, and a filled `tstate` belongs to a thread
  inside an operation on that very context;
- `AttachedConsistent`: which locations are attached and which are not;
- `HookConsistent`: hooks and references agree except for a setter between its
  two halves;
- `CalledConsistent`: an invoked object is the installed one.

Each conjunct has a lemma with one step per action (`TypeStep`, ...,
`CalledStep`). `ResultIsOwnUntilRelease` is inductive beside `IndInv`
(`ResultStep`): a thread between the end of its operation and the release holds
the mutex, so no other operation ends on its context.
The refinement maps `Acquire` to `Enter`, `EndRelease` and `Unlock` to `Leave`,
`CallbackEnter` and `GetCallback` to `Look`, `CallbackLeave` to `Drop`,
`ClearCallback` to `Install`, `GpgmeStart` and `GpgmeFinish` to `Start` and
`Finish`, and everything else to a stutter.

**NestedCalls.** The mutex and the saved thread state of a context are related
to the frames of all stacks: a frame that has acquired holds (`HeldInv`), a held
mutex is that of some frame of its thread (`OwnedInv`), and of no two
(`OnceInv`). For the circle of waits, `RankInv` says that the contexts of a
stack have falling ranks. Among threads that wait for each other, take one that
waits for the context of the lowest rank: whoever holds that is waiting too,
for a context of a frame above, which has a lower rank yet. That a non-empty set
of ranks has a least one is `Least`, from the library's theorem on well-founded
relations, which takes a set and not an operator.

**KeyListing.** `RefsInv` says that the iterators of a context are finitely
many, and that the count is their number and the program's reference; the two go
up and down together. `ListInv` says of the owner of a listing (`Delivered`) that
the listing is the end of the list of matches, and that the owner has returned
keys of the part before it, each later in that part than the one it returned
before (`InOrder`). Any `__next__` makes that part longer by one key: the owner's
appends it, another's leaves it out and is counted, and if none has been left out
what is returned and what is to come are together all matches.

**ContextMethods.** The methods are 17 fixed scripts, but `rest` has no bound: a
result has any number of items. What the properties need is therefore said of
pairs of statements, of `rest` as it is and not of places in it:

- `Orderly`: which statement may come before which (`Before`: the acquisitions,
  then the operation, then the rest; no two statements free the same variable;
  nothing is checked once the result has been given up), and what a statement
  is followed by (what acquires by what frees it, a result made before the
  error is checked by a statement that discards it, `Fill` by `Look`);
- `Sane`: a script is orderly, and the undo list of each of its acquisitions
  frees what has been acquired before it, once, and nothing that is unset.

A condition on pairs that holds of a list holds of what is left of it
(`TailSound`). It is kept where the loop puts the statements of an item in front
(`LoopSound`, `MakingSound`), and where an exception leaves the loop
(`AbortContinues`); so all of it has to be proved of the scripts and undo lists
only. 15 methods are acquisitions, `Operation`, and a rest without a loop
(`Regular`, `RegularSane`), which leaves each of them checks of two short lists
(`EncryptSane`, ...); `get_key` and `get_engine_info` are proved directly.

`IndInv` relates the variables to the statements that are left. While the
operation is to come, nothing has failed and `rest` is the end of the script
(`OnScript`), so what has been acquired is what the first statements of the
script acquire (`ReadyInv`), and the keys in the array are those of the sequence
(`KeysInv`). At all times what is live is going to be freed, and after the
operation what is going to be freed can be (`OwedInv`). A live result is
discarded later if the method is going to return NULL (`ResultInv`). What has
been forgotten is of a kind the method may forget: a `GpgmeError` once it is set,
an `ImportResult` once NULL is certain (`LostInv`). An
exception means NULL, but for a broken item that is looked at next, or a warning
(`ErrorInv`, `ItemInv`). `EarlyStep`, `FailStep` and `LateStep` show what all
statements before the operation, all failures and all statements after it have
in common; then there is one lemma per action.

**ContextAttributes.** `last` is decided when an assignment takes the mutex. The
invariant follows its holder: after the clear, and after each item, what is
stored and what is left to add, as the library will be given it (`Added`), are
together the assigned sequence, an exception is pending exactly if something
that is stored is cut, and what the library will have in the end is the longest
prefix without a bad item (`AccessInv`). Nobody else is between clear and unlock, for they would need the
mutex; whenever it is free, `stored = last`. A reader that holds it has read a
prefix of what is stored.

**CallbackErrors.** The lemmas are about the conversions: which exceptions make
`pygpgme_check_pyerror` and `set_errno` report success, and that the error object
made of an error is converted back into the same error (`RoundTrip`). `ErrorInv`
and `LastInv` carry what was reported for the last exception through the
operation to what is raised. `OverflowInv` says that an overflow has been reported
as an error, so that no later callback follows it, and that it is not the error
of a nested operation. `FileInv` bounds the positions by the number of
callbacks, so that they have a type.

**KeyObjects.** The counts are the induction. The referrers of an object are in
four finite sets (lists, children, getters, functions that return it) and the
names of the program; every action adds one member to one of them, or takes one
away, and changes the count by one (`CountChange`). That the sets are finite is
part of the invariant, so the sets of objects and threads need not be. An object
with a referrer has a count above 0, and is not free and not being deallocated,
so it keeps its type, its key and its parent; then the chain from a view to its
`Key` and to the memory of gpgme is in use at every link.

**EditSession.** The invariant is the dialogue (`DialogueInv`): for each place
where the generator waits, where gpg can be, what has been written and not been
read, and what has been done to the key by then. `Rejected` follows from it: at
every place where gpg may ask, the script has a transition for the question. So
does success: the generator is asked whether to save, or gpg ends, only when the
key is edited as asked, or the operation is bound to fail. `Signed` says that
gpg has made all signatures of the signers it has come to, which makes the
signatures complete for any number of signers and user IDs.

Only model-checked:

- liveness (`EveryCallReturns`, `EditReturns` and the termination of nested
  calls), which is out of the prover's reach;
- the properties that fail, of course: their counterexamples are the runs'.

## What is not modelled

- The gpgme library is external: an operation calls back, ends with a result or
  an error, keeps one result and one listing per context.
- gpg is external too: `EditSession` has the prompts and statuses `editutil.py`
  names, in the orders its scripts allow for, and stand-ins for all others.
- Cryptography, the contents of results, keys and signatures, and error strings.
- Exhausted memory where the code does not test for it, but for `PyList_Append`
  in `KeyObjects`.
- `SigNotation.__init__` called again on an object (it drops the old members
  before it stores the new ones), and the accessors of signatures and keys that
  copy a member.
- Memory that is not given back to the allocator: deallocators that drop members
  and free nothing (`-engine-info.c:24`, `-signature.c:306`), the reference to a
  heap type that every instance keeps, and the garbage collector, which does not
  see a `Context` (a callback that refers to its context keeps both). No step of
  the system reads any of it again.
- Module initialisation, constants, type stubs, packaging: straight-line code
  and tables that run once, before any step of the models.

## Plan

Done, in this order: `ContextLock` with its proofs and `ContextMonitor`;
`NestedCalls`; `KeyListing`; `ContextMethods`; `ContextAttributes`;
`CallbackErrors`; `EditSession`; the conversion of results in
`ContextMethods`; `KeyObjects`.

The proofs cover the safety properties of all of these.

What is left would be new models: `SigNotation.__init__` called again on an
object, and the accessors of signatures; and, for `ContextMethods`, calls of
several threads on one context, of which `ContextLock` has the interleaving and
not the statements.
