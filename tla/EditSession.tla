----------------------------- MODULE EditSession -----------------------------
(***************************************************************************)
(* gpgme.editutil: key editors written as generators (key_editor,          *)
(* edit_trust, edit_sign in src/gpgme/editutil.py) against the program     *)
(* they talk to.                                                           *)
(*                                                                         *)
(* Context.edit calls a function with every status line of gpg.  The one   *)
(* key_editor makes drops the statuses on a list, sends every other one    *)
(* into the generator, and writes what the generator yields to gpg.  The   *)
(* generator is a set of transitions: where it waits, the prompt it        *)
(* expects there, the answer it yields and where it waits next; any other  *)
(* message is an AssertionError, or StopIteration once it has finished.    *)
(*                                                                         *)
(* The dialogue of gpg is external: its prompts are those editutil names.  *)
(* It may also fail to sign, send what editutil does not expect, or die;   *)
(* it closes the session when the callback fails, and it reports a failed  *)
(* signature by a status or by the error of the operation.                 *)
(***************************************************************************)
EXTENDS Naturals, Sequences

CONSTANTS
    UidCount,   \* the number of user IDs of the key
    Signers,    \* the keys of Context.signers
    Trusts,     \* the values of gpgme.Validity that callers pass
    MaxChatter  \* bound: statuses on the list that gpg sends in a session

ASSUME UidCountAssumption == UidCount \in Nat \ {0}
ASSUME MaxChatterAssumption == MaxChatter \in Nat
ASSUME TrustsAssumption ==
    Trusts \subseteq {"unknown", "undefined", "never", "marginal", "full",
                      "ultimate"}

VARIABLES
    request,    \* what edit_trust or edit_sign was called with
    at,         \* "idle", "session", "ended", "returned" or "raised"
    gen,        \* where the generator waits, "end" or "closed"
    msg,        \* the status or prompt the callback is called with
    answer,     \* what has been written to gpg and not been read
    failed,     \* gpgme_op_edit is going to return an error
    gpg,        \* where gpg is in its dialogue
    selected,   \* the user ID gpg has selected, 0 for none
    todo,       \* the signers gpg has not come to in this session
    mem,        \* the edited key in gpg
    disk,       \* the key in the keyring, and its owner trust
    before,     \* disk when the call began
    incident,   \* what has gone wrong: "none", "callback", "library", "late"
    chatter     \* statuses on the list sent so far

python == <<request, at, gen>>
library == <<gpg, selected, todo, mem, disk>>
vars == <<python, msg, answer, failed, library, before, incident, chatter>>

-----------------------------------------------------------------------------
(* The generators.                                                         *)

Transition(from, prompt, reply, to) ==
    [from |-> from, prompt |-> prompt, reply |-> reply, to |-> to]

\* Mutant: the confirmation of ultimate trust is not expected.
TrustScriptNoUltimate(trust) ==
    {Transition("begin",  "keyedit.prompt", <<"trust">>, "value"),
     Transition("value",  "edit_ownertrust.value", <<"value", trust>>,
                "valued"),
     Transition("valued", "keyedit.prompt", <<"quit">>, "save"),
     Transition("save",   "keyedit.save.okay", <<"Y">>, "end")}

TrustScript(trust) ==
    {Transition("begin",  "keyedit.prompt", <<"trust">>, "value"),
     Transition("value",  "edit_ownertrust.value", <<"value", trust>>,
                "valued"),
     Transition("valued", "edit_ownertrust.set_ultimate.okay", <<"Y">>,
                "confirmed"),
     Transition("valued", "keyedit.prompt", <<"quit">>, "save"),
     Transition("confirmed", "keyedit.prompt", <<"quit">>, "save"),
     Transition("save",   "keyedit.save.okay", <<"Y">>, "end")}

\* What the loop of edit_sign answers without leaving it.
SignQuestions == {"keyedit.sign_all.okay", "sign_uid.expire",
                  "sign_uid.class", "sign_uid.okay"}

\* Mutant: a message the loop does not know is answered, not refused.
SignScriptAnswersAll(index) ==
    {Transition("begin", "keyedit.prompt", <<"uid", index>>, "selected"),
     Transition("selected", "keyedit.prompt", <<"sign">>, "signing"),
     Transition("signing", "keyedit.prompt", <<"quit">>, "save"),
     Transition("save", "keyedit.save.okay", <<"Y">>, "end")}
    \cup {Transition("signing", q, <<"Y">>, "signing") :
             q \in SignQuestions \cup {"other.prompt"}}

SignScript(index) ==
    {Transition("begin", "keyedit.prompt", <<"uid", index>>, "selected"),
     Transition("selected", "keyedit.prompt", <<"sign">>, "signing"),
     Transition("signing", "keyedit.prompt", <<"quit">>, "save"),
     Transition("save", "keyedit.save.okay", <<"Y">>, "end")}
    \cup {Transition("signing", q, <<"Y">>, "signing") : q \in SignQuestions}

Script == IF request.edit = "trust" THEN TrustScript(request.trust)
          ELSE SignScript(request.index)

\* Calls that are not refused with ValueError before anything is sent.
Valid(r) == IF r.edit = "trust" THEN r.trust # "unknown"
            ELSE r.index <= UidCount

Requests == [edit : {"trust"}, trust : Trusts]
            \cup [edit : {"sign"}, index : 0 .. UidCount + 1]

\* Mutant: key_editor takes ERROR for a status of no interest.
IgnoredStatusesMore ==
    {"EOF", "GOT_IT", "NEED_PASSPHRASE", "GOOD_PASSPHRASE", "BAD_PASSPHRASE",
     "USERID_HINT", "SIGEXPIRED", "KEYEXPIRED", "PROGRESS", "KEY_CREATED",
     "ALREADY_SIGNED", "KEY_CONSIDERED", "ERROR"}

\* Mutant: the prompt of the menu is taken for a status of no interest.
IgnoredStatusesPrompt ==
    {"EOF", "GOT_IT", "NEED_PASSPHRASE", "GOOD_PASSPHRASE", "BAD_PASSPHRASE",
     "USERID_HINT", "SIGEXPIRED", "KEYEXPIRED", "PROGRESS", "KEY_CREATED",
     "ALREADY_SIGNED", "KEY_CONSIDERED", "keyedit.prompt"}

IgnoredStatuses ==
    {"EOF", "GOT_IT", "NEED_PASSPHRASE", "GOOD_PASSPHRASE", "BAD_PASSPHRASE",
     "USERID_HINT", "SIGEXPIRED", "KEYEXPIRED", "PROGRESS", "KEY_CREATED",
     "ALREADY_SIGNED", "KEY_CONSIDERED"}

-----------------------------------------------------------------------------
Places == {"prompt", "value", "ultimate", "sign_all", "signer", "expire",
           "class", "okay", "save", "over", "gone"}

PromptAt == [prompt   |-> "keyedit.prompt",
             value    |-> "edit_ownertrust.value",
             ultimate |-> "edit_ownertrust.set_ultimate.okay",
             sign_all |-> "keyedit.sign_all.okay",
             expire   |-> "sign_uid.expire",
             class    |-> "sign_uid.class",
             okay     |-> "sign_uid.okay",
             save     |-> "keyedit.save.okay"]

Signatures == (1 .. UidCount) \X Signers
KeyStates == [trust : Trusts \cup {"unknown"}, sigs : SUBSET Signatures]

Messages == {PromptAt[p] : p \in DOMAIN PromptAt} \cup IgnoredStatuses
            \cup {"none", "ERROR", "PINENTRY_LAUNCHED", "other.prompt"}

TypeOK ==
    /\ request \in Requests
    /\ at \in {"idle", "session", "ended", "returned", "raised"}
    /\ gen \in {"begin", "value", "valued", "confirmed", "selected",
                "signing", "save", "end", "closed"}
    /\ msg \in Messages
    /\ answer = <<>> \/ \E t \in Script : answer = t.reply
    /\ failed \in BOOLEAN
    /\ gpg \in Places
    /\ selected \in 0 .. UidCount
    /\ todo \subseteq Signers
    /\ {mem, disk, before} \subseteq KeyStates
    /\ incident \in {"none", "callback", "library", "late"}
    /\ chatter \in 0 .. MaxChatter
    \* The callback and gpg take turns, and a finished call keeps no
    \* generator that waits.
    /\ msg = "none" \/ answer = <<>>
    /\ at \in {"idle", "returned", "raised"} => gen \in {"end", "closed"}

Init ==
    /\ request \in Requests
    /\ at = "idle"
    /\ gen = "closed"
    /\ msg = "none" /\ answer = <<>> /\ failed = FALSE
    /\ gpg = "gone" /\ selected = 0 /\ todo = {}
    /\ disk = [trust |-> "unknown", sigs |-> {}]
    /\ mem = disk /\ before = disk
    /\ incident = "none" /\ chatter = 0

-----------------------------------------------------------------------------
(* The caller and the wrapper of key_editor.                               *)

\* ValueError, from the first step of the generator.
RefuseRequest(r) ==
    /\ at = "idle" /\ ~ Valid(r)
    /\ request' = r
    /\ at' = "raised"
    /\ before' = disk
    /\ UNCHANGED <<gen, msg, answer, failed, library, incident, chatter>>

\* The generator runs to its first yield, then ctx.edit starts gpg, or
\* raises without doing so.
StartEdit(r) ==
    /\ at = "idle" /\ Valid(r)
    /\ request' = r
    /\ gen' = "begin"
    /\ before' = disk
    /\ mem' = disk
    /\ \/ at' = "session" /\ gpg' = "prompt"
          /\ UNCHANGED <<failed, incident>>
       \/ at' = "ended" /\ failed' = TRUE /\ incident' = "library"
          /\ UNCHANGED gpg
    /\ UNCHANGED <<msg, answer, selected, todo, disk, chatter>>

\* Mutant: the wrapper has no finally clause.
ReturnWithoutClose ==
    /\ at = "ended"
    /\ at' = IF failed THEN "raised" ELSE "returned"
    /\ UNCHANGED <<request, gen, msg, answer, failed, library, before,
                   incident, chatter>>

\* The finally clause closes the generator, whether it has finished or not.
ReturnFromEdit ==
    /\ at = "ended"
    /\ at' = IF failed THEN "raised" ELSE "returned"
    /\ gen' = IF gen = "end" THEN "end" ELSE "closed"
    /\ UNCHANGED <<request, msg, answer, failed, library, before, incident,
                   chatter>>

\* The caller goes on.
Forget ==
    /\ at \in {"returned", "raised"}
    /\ at' = "idle" /\ gen' = "closed"
    /\ answer' = <<>> /\ failed' = FALSE
    /\ selected' = 0 /\ todo' = {} /\ mem' = disk /\ before' = disk
    /\ incident' = "none" /\ chatter' = 0
    /\ UNCHANGED <<request, msg, gpg, disk>>

-----------------------------------------------------------------------------
(* edit_callback.                                                          *)

Called == at = "session" /\ msg # "none"
Expected(t) == t \in Script /\ t.from = gen /\ t.prompt = msg

IgnoreStatus ==
    /\ Called /\ msg \in IgnoredStatuses
    /\ msg' = "none"
    /\ UNCHANGED <<python, answer, failed, library, before, incident,
                   chatter>>

\* gen.send returns the next answer, and os.write sends it.
SendAnswer ==
    /\ Called /\ msg \notin IgnoredStatuses
    /\ \E t \in Script :
        /\ Expected(t)
        /\ gen' = t.to
        /\ answer' = t.reply
    /\ msg' = "none"
    /\ UNCHANGED <<request, at, failed, library, before, incident, chatter>>

\* os.write raises: the generator has moved on, gpg has heard nothing.
WriteFails ==
    /\ Called /\ msg \notin IgnoredStatuses
    /\ \E t \in Script :
        /\ Expected(t)
        /\ gen' = t.to
    /\ msg' = "none"
    /\ at' = "ended" /\ gpg' = "gone" /\ failed' = TRUE
    /\ incident' = "callback"
    /\ UNCHANGED <<request, answer, selected, todo, mem, disk, before,
                   chatter>>

\* The generator raises AssertionError, or has finished: the callback
\* raises, and the library ends the session.
RejectMessage ==
    /\ Called /\ msg \notin IgnoredStatuses
    /\ ~ \E t \in Script : Expected(t)
    /\ gen' = IF gen = "end" THEN "end" ELSE "closed"
    /\ msg' = "none"
    /\ at' = "ended" /\ gpg' = "gone" /\ failed' = TRUE
    /\ UNCHANGED <<request, answer, selected, todo, mem, disk, before,
                   incident, chatter>>

Callback == IgnoreStatus \/ SendAnswer \/ WriteFails \/ RejectMessage

-----------------------------------------------------------------------------
(* gpg.                                                                    *)

Speaks == at = "session" /\ msg = "none" /\ answer = <<>>
Hears(reply) == at = "session" /\ answer = reply /\ answer' = <<>>
GoesTo(place) == gpg' = place

GpgAsks ==
    /\ Speaks /\ gpg \in DOMAIN PromptAt
    /\ msg' = PromptAt[gpg]
    /\ UNCHANGED <<python, answer, failed, library, before, incident,
                   chatter>>

GpgCommand ==
    /\ gpg = "prompt"
    /\ \/ Hears(<<"trust">>) /\ GoesTo("value")
          /\ UNCHANGED <<selected, todo>>
       \/ /\ \E n \in 0 .. UidCount : Hears(<<"uid", n>>) /\ selected' = n
          /\ UNCHANGED <<gpg, todo>>
       \/ /\ Hears(<<"sign">>)
          /\ GoesTo(IF selected = 0 /\ UidCount > 1 THEN "sign_all"
                    ELSE "signer")
          /\ todo' = Signers
          /\ UNCHANGED selected
       \/ /\ Hears(<<"quit">>)
          /\ gpg' \in IF mem # before THEN {"save"} ELSE {"save", "over"}
          /\ UNCHANGED <<selected, todo>>
    /\ UNCHANGED <<python, msg, failed, mem, disk, before, incident, chatter>>

\* The owner trust is stored at once, or with the rest.
SetTrust(trust) ==
    /\ mem' = [mem EXCEPT !.trust = trust]
    /\ disk' \in {disk, [disk EXCEPT !.trust = trust]}
    /\ GoesTo("prompt")

GpgTrust ==
    /\ \/ /\ gpg = "value"
          /\ \E v \in Trusts :
              /\ Hears(<<"value", v>>)
              /\ \/ SetTrust(v)
                 \/ v = "ultimate" /\ GoesTo("ultimate")
                    /\ UNCHANGED <<mem, disk>>
       \/ gpg = "ultimate" /\ Hears(<<"Y">>) /\ SetTrust("ultimate")
    /\ UNCHANGED <<python, msg, failed, selected, todo, before, incident,
                   chatter>>

\* The signatures a signer has still to make.
Missing(s) ==
    {u \in 1 .. UidCount : selected \in {0, u} /\ <<u, s>> \notin mem.sigs}

\* gpg comes to the next signer, and asks what it wants to know.
GpgSigner ==
    /\ Speaks /\ gpg = "signer"
    /\ \/ todo = {} /\ GoesTo("prompt") /\ UNCHANGED <<msg, todo>>
       \/ /\ \E s \in todo : Missing(s) = {} /\ todo' = todo \ {s}
          /\ msg' = "ALREADY_SIGNED"
          /\ UNCHANGED gpg
       \/ /\ \E s \in todo : Missing(s) # {}
          /\ gpg' \in {"expire", "class", "okay"}
          /\ UNCHANGED <<msg, todo>>
    /\ UNCHANGED <<python, answer, failed, selected, mem, disk, before,
                   incident, chatter>>

GpgQuestion ==
    /\ Hears(<<"Y">>)
    /\ \/ gpg = "sign_all" /\ GoesTo("signer")
       \/ gpg = "expire" /\ gpg' \in {"class", "okay"}
       \/ gpg = "class" /\ GoesTo("okay")
    /\ UNCHANGED <<python, msg, failed, selected, todo, mem, disk, before,
                   incident, chatter>>

GpgSigns ==
    /\ gpg = "okay" /\ Hears(<<"Y">>)
    /\ \E s \in todo :
        /\ Missing(s) # {}
        /\ mem' = [mem EXCEPT !.sigs = @ \cup (Missing(s) \X {s})]
        /\ todo' = todo \ {s}
    /\ GoesTo("signer")
    /\ UNCHANGED <<python, msg, failed, selected, disk, before, incident,
                   chatter>>

\* No more signatures are made.  What editutil sends into the generator says
\* so, or the operation does when it ends.
GpgCannotSign ==
    /\ gpg = "okay" /\ Hears(<<"Y">>)
    /\ \/ msg' = "ERROR" /\ incident' = "callback" /\ UNCHANGED failed
       \/ /\ msg' = "BAD_PASSPHRASE" /\ failed' = TRUE
          /\ incident' = "library"
    /\ GoesTo("prompt")
    /\ todo' = {}
    /\ UNCHANGED <<python, selected, mem, disk, before, chatter>>

GpgSaves ==
    /\ gpg = "save" /\ Hears(<<"Y">>)
    /\ disk' = mem
    /\ GoesTo("over")
    /\ UNCHANGED <<python, msg, failed, selected, todo, mem, before, incident,
                   chatter>>

\* The last status of a session, then the end of the operation.
GpgEnds ==
    /\ Speaks
    /\ \/ gpg = "over" /\ GoesTo("gone") /\ msg' = "EOF" /\ UNCHANGED at
       \/ gpg = "gone" /\ at' = "ended" /\ UNCHANGED <<gpg, msg>>
    /\ UNCHANGED <<request, gen, answer, failed, selected, todo, mem, disk,
                   before, incident, chatter>>

\* A status on the list, sent at any time.
GpgChatters ==
    /\ Speaks /\ gpg # "gone" /\ chatter < MaxChatter
    /\ msg' \in {"GOT_IT", "PROGRESS", "KEY_CONSIDERED"}
    /\ chatter' = chatter + 1
    /\ UNCHANGED <<python, answer, failed, library, before, incident>>

\* A status that is not on the list, or a prompt editutil does not know.
GpgSurprises ==
    /\ Speaks /\ gpg # "gone"
    /\ msg' \in {"PINENTRY_LAUNCHED", "other.prompt"}
    /\ incident' = IF gen # "end" THEN "callback"
                   ELSE IF incident = "none" THEN "late" ELSE incident
    /\ UNCHANGED <<python, answer, failed, library, before, chatter>>

GpgDies ==
    /\ at = "session" /\ gpg # "gone" /\ msg = "none"
    /\ at' = "ended" /\ gpg' = "gone" /\ failed' = TRUE
    /\ answer' = <<>>
    /\ incident' = IF incident = "none" THEN "library" ELSE incident
    /\ UNCHANGED <<request, gen, msg, selected, todo, mem, disk, before,
                   chatter>>

\* What gpg does if nothing keeps it from going on.
GpgProceeds ==
    GpgAsks \/ GpgCommand \/ GpgTrust \/ GpgSigner \/ GpgQuestion
    \/ GpgSigns \/ GpgCannotSign \/ GpgSaves \/ GpgEnds

Next ==
    \/ \E r \in Requests : RefuseRequest(r) \/ StartEdit(r)
    \/ ReturnFromEdit \/ Forget
    \/ Callback
    \/ GpgProceeds \/ GpgChatters \/ GpgSurprises \/ GpgDies

\* gpg answers what it is told, and the library calls the function with
\* everything gpg says; neither owes the caller a new session.
Fairness ==
    /\ WF_vars(GpgProceeds)
    /\ WF_vars(Callback)
    /\ WF_vars(ReturnFromEdit)

Spec == Init /\ [][Next]_vars /\ Fairness

-----------------------------------------------------------------------------
(* Properties.                                                             *)

\* What the caller asked for, on the key k.
Done(k) ==
    IF request.edit = "trust" THEN k.trust = request.trust
    ELSE \A u \in 1 .. UidCount : request.index \in {0, u} =>
             \A s \in Signers : <<u, s>> \in k.sigs

\* edit_trust and edit_sign return normally only if the key in the keyring
\* is edited as asked, whatever gpg said and wherever the session ended: the
\* generator need not have finished, for an already signed key has nothing
\* to save.
SuccessMeansDone == at = "returned" => Done(disk)

\* A session that took an unexpected turn before the script of edit_sign was
\* through saves no signature, not even those gpg has made already.
SurpriseSavesNothing ==
    incident = "callback" /\ at # "session" => disk.sigs = before.sigs

\* The scripts know everything gpg may ask, and in which order: if nothing
\* goes wrong, no call fails.
QuietSessionSucceeds ==
    at = "raised" /\ incident = "none" => ~ Valid(request)

\* No session hangs with gpg waiting for an answer and the callback for a
\* prompt: a call that has begun comes back.
EditReturns == at = "session" ~> at \in {"returned", "raised"}
=============================================================================
