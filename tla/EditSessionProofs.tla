-------------------------- MODULE EditSessionProofs --------------------------
(***************************************************************************)
(* Proofs about EditSession, for keys with any number of user IDs, any     *)
(* signers and trust values, and any number of statuses on the list.       *)
(*                                                                         *)
(* The inductive invariant is the dialogue itself: where the generator     *)
(* waits, where gpg is, what has been written and not been read, and what  *)
(* has been done to the key by then.  That the scripts and gpg never lose  *)
(* each other, and that what a call returns is true, both follow from it.  *)
(***************************************************************************)
EXTENDS EditSession, TLAPS

\* gpg has done its part for the signers it has come to.
Signed ==
    /\ selected = request.index
    /\ \A s \in Signers \ todo : Missing(s) = {}

\* The generator waits at g, gpg is at p, and r has been written to it.
Now(g, p, r) == gen = g /\ gpg = p /\ answer = r

TrustDialogue ==
    \/ /\ mem.trust = before.trust
       /\ \/ Now("begin", "prompt", <<>>)
          \/ Now("value", "prompt", <<"trust">>)
          \/ Now("value", "value", <<>>)
          \/ Now("valued", "value", <<"value", request.trust>>)
          \/ /\ request.trust = "ultimate"
             /\ \/ Now("valued", "ultimate", <<>>)
                \/ Now("confirmed", "ultimate", <<"Y">>)
    \/ /\ mem.trust = request.trust
       /\ Now("valued", "prompt", <<>>) \/ Now("confirmed", "prompt", <<>>)

SignDialogue ==
    \/ Now("begin", "prompt", <<>>)
    \/ Now("selected", "prompt", <<"uid", request.index>>)
    \/ /\ selected = request.index
       /\ \/ Now("selected", "prompt", <<>>)
          \/ Now("signing", "prompt", <<"sign">>)
    \/ /\ Signed
       /\ \/ Now("signing", "signer", <<>>)
          \/ \E p \in {"sign_all", "expire", "class", "okay"} :
                 Now("signing", p, <<>>) \/ Now("signing", p, <<"Y">>)
    \/ /\ failed \/ msg = "ERROR" \/ Done(mem)
       /\ Now("signing", "prompt", <<>>)

EndDialogue ==
    \/ /\ failed \/ Done(mem)
       /\ \/ Now("save", "prompt", <<"quit">>)
          \/ Now("save", "save", <<>>)
          \/ Now("end", "save", <<"Y">>)
    \/ /\ failed \/ Done(disk)
       /\ gen \in {"save", "end"} /\ gpg \in {"over", "gone"}
       /\ answer = <<>>

DialogueInv ==
    at = "session" =>
        \/ request.edit = "trust" /\ TrustDialogue
        \/ request.edit = "sign" /\ mem.trust = before.trust /\ SignDialogue
        \/ EndDialogue

Surprises == {"ERROR", "PINENTRY_LAUNCHED", "other.prompt"}

\* What the callback may be called with.
MsgInv ==
    /\ at = "session" =>
        \/ msg \in IgnoredStatuses \cup {"none"}
        \/ gpg \in DOMAIN PromptAt /\ msg = PromptAt[gpg]
        \/ msg \in Surprises /\ incident # "none"
    /\ at # "session" => msg = "none" /\ answer = <<>>

\* Until the end of the script nothing is saved, but the owner trust may be.
UnsavedInv ==
    at = "session" /\ (gen # "end" \/ gpg = "save") =>
        /\ disk.sigs = before.sigs
        /\ disk.trust \in {before.trust, mem.trust}

\* A message that was not expected ends the session.
SurpriseInv ==
    incident = "callback" => /\ disk.sigs = before.sigs
                             /\ at = "session" => msg \in Surprises

OutcomeInv ==
    /\ failed => incident # "none"
    /\ at = "ended" => failed \/ Done(disk)
    /\ at = "returned" => Done(disk)
    /\ at = "raised" => incident # "none" \/ ~ Valid(request)
    /\ at = "idle" => incident = "none" /\ ~ failed

IndInv == TypeOK /\ DialogueInv /\ MsgInv /\ UnsavedInv /\ SurpriseInv
              /\ OutcomeInv

-----------------------------------------------------------------------------
(* Messages and scripts.                                                   *)

\* The prompts of the places where gpg asks.
LEMMA Prompts ==
    /\ DOMAIN PromptAt = {"prompt", "value", "ultimate", "sign_all", "expire",
                          "class", "okay", "save"}
    /\ PromptAt["prompt"] = "keyedit.prompt"
    /\ PromptAt["value"] = "edit_ownertrust.value"
    /\ PromptAt["ultimate"] = "edit_ownertrust.set_ultimate.okay"
    /\ PromptAt["sign_all"] = "keyedit.sign_all.okay"
    /\ PromptAt["expire"] = "sign_uid.expire"
    /\ PromptAt["class"] = "sign_uid.class"
    /\ PromptAt["okay"] = "sign_uid.okay"
    /\ PromptAt["save"] = "keyedit.save.okay"
    /\ \A p \in DOMAIN PromptAt :
           PromptAt[p] \notin IgnoredStatuses \cup Surprises \cup {"none"}
  BY DEF PromptAt, IgnoredStatuses, Surprises

\* The statuses on the list are neither prompts nor unexpected.
LEMMA Ignored ==
    /\ \A m \in IgnoredStatuses : m \notin Surprises /\ m # "none"
    /\ "none" \notin Surprises
  BY DEF IgnoredStatuses, Surprises

\* The transitions of edit_trust, one by one.
LEMMA TrustTransitions ==
    ASSUME NEW t \in Script, request.edit = "trust"
    PROVE  \/ /\ t.from = "begin" /\ t.prompt = "keyedit.prompt"
              /\ t.reply = <<"trust">> /\ t.to = "value"
           \/ /\ t.from = "value" /\ t.prompt = "edit_ownertrust.value"
              /\ t.reply = <<"value", request.trust>> /\ t.to = "valued"
           \/ /\ t.from = "valued"
              /\ t.prompt = "edit_ownertrust.set_ultimate.okay"
              /\ t.reply = <<"Y">> /\ t.to = "confirmed"
           \/ /\ t.from \in {"valued", "confirmed"}
              /\ t.prompt = "keyedit.prompt"
              /\ t.reply = <<"quit">> /\ t.to = "save"
           \/ /\ t.from = "save" /\ t.prompt = "keyedit.save.okay"
              /\ t.reply = <<"Y">> /\ t.to = "end"
  BY DEF Script, TrustScript, Transition

\* The transitions of edit_sign.
LEMMA SignTransitions ==
    ASSUME NEW t \in Script, request.edit = "sign"
    PROVE  \/ /\ t.from = "begin" /\ t.prompt = "keyedit.prompt"
              /\ t.reply = <<"uid", request.index>> /\ t.to = "selected"
           \/ /\ t.from = "selected" /\ t.prompt = "keyedit.prompt"
              /\ t.reply = <<"sign">> /\ t.to = "signing"
           \/ /\ t.from = "signing" /\ t.prompt = "keyedit.prompt"
              /\ t.reply = <<"quit">> /\ t.to = "save"
           \/ /\ t.from = "save" /\ t.prompt = "keyedit.save.okay"
              /\ t.reply = <<"Y">> /\ t.to = "end"
           \/ /\ t.from = "signing" /\ t.prompt \in SignQuestions
              /\ t.reply = <<"Y">> /\ t.to = "signing"
  BY DEF Script, SignScript, Transition

\* A request is one or the other.
LEMMA RequestForms ==
    ASSUME TypeOK
    PROVE  \/ request.edit = "trust" /\ request.trust \in Trusts
           \/ request.edit = "sign" /\ request.index \in 0 .. UidCount + 1
  BY DEF TypeOK, Requests

\* What a generator may be sent: never anything when it has finished, and no
\* surprise.
LEMMA Transitions ==
    ASSUME TypeOK, NEW t \in Script
    PROVE  /\ t.from # "end" /\ t.prompt \notin Surprises
           /\ t.to \in {"value", "valued", "confirmed", "selected", "signing",
                        "save", "end"}
  BY RequestForms, TrustTransitions, SignTransitions
     DEF Surprises, SignQuestions

\* While gpg goes on nothing has surprised the callback.
LEMMA NoSurprise ==
    ASSUME IndInv, at = "session", msg = "none"
    PROVE  incident # "callback"
  BY Ignored DEF IndInv, SurpriseInv

\* In a session the callback is called with the prompt of the place where gpg
\* is, or it is called with a surprise.
LEMMA Prompted ==
    ASSUME IndInv, Called, msg \notin IgnoredStatuses
    PROVE  /\ at = "session" /\ answer = <<>>
           /\ \/ gpg \in DOMAIN PromptAt /\ msg = PromptAt[gpg]
              \/ msg \in Surprises /\ incident # "none"
  BY DEF IndInv, MsgInv, TypeOK, Called

\* Before the first call nothing is wrong.
LEMMA InitInv == Init => IndInv
<1> SUFFICES ASSUME Init PROVE IndInv
  OBVIOUS
<1> USE UidCountAssumption, MaxChatterAssumption DEF Init
<1>1. disk \in KeyStates
  BY DEF KeyStates
<1>2. TypeOK
  <2>1. selected \in 0 .. UidCount /\ chatter \in 0 .. MaxChatter
    OBVIOUS
  <2>2. {mem, disk, before} \subseteq KeyStates /\ todo \subseteq Signers
    BY <1>1
  <2>3. request \in Requests /\ msg \in Messages /\ gpg \in Places
    BY DEF Messages, Places
  <2> QED BY <2>1, <2>2, <2>3 DEF TypeOK
<1> QED BY <1>2 DEF IndInv, DialogueInv, MsgInv, UnsavedInv, SurpriseInv,
                    OutcomeInv

-----------------------------------------------------------------------------
(* The callback.                                                           *)

\* An answer takes the dialogue one step further.
LEMMA SendAnswerKeeps ==
    ASSUME IndInv, SendAnswer
    PROVE  IndInv'
<1>1. PICK t \in Script : /\ Expected(t) /\ gen' = t.to /\ answer' = t.reply
  BY DEF SendAnswer
<1>2. /\ Called /\ msg \notin IgnoredStatuses /\ msg' = "none"
      /\ UNCHANGED <<request, at, failed, library, before, incident, chatter>>
  BY DEF SendAnswer
<1>3. TypeOK
  BY DEF IndInv
<1>4. /\ t.from = gen /\ t.prompt = msg
      /\ t.from # "end" /\ t.prompt \notin Surprises
      /\ t.to \in {"value", "valued", "confirmed", "selected", "signing",
                   "save", "end"}
  BY <1>1, <1>3, Transitions DEF Expected
<1>5. /\ at = "session" /\ answer = <<>>
      /\ gpg \in DOMAIN PromptAt /\ t.prompt = PromptAt[gpg]
  BY <1>2, <1>4, Prompted
<1>6. TypeOK'
  <2>1. Script' = Script
    BY <1>2 DEF Script
  <2> QED BY <1>1, <1>2, <1>3, <1>4, <1>5, <2>1 DEF TypeOK, library, Messages
<1>7. DialogueInv'
  <2>1. CASE request.edit = "trust" /\ TrustDialogue
    <3> USE DEF Now
    <3>1. TrustDialogue' \/ EndDialogue'
      BY <1>1, <1>2, <1>4, <1>5, <2>1, TrustTransitions, Prompts
         DEF TrustDialogue, EndDialogue, Done, library
    <3> QED BY <1>2, <2>1, <3>1 DEF DialogueInv
  <2>2. CASE request.edit = "sign" /\ mem.trust = before.trust /\ SignDialogue
    <3> USE DEF Now
    <3>1. SignDialogue' \/ EndDialogue'
      BY <1>1, <1>2, <1>4, <1>5, <2>2, SignTransitions, Prompts
         DEF SignDialogue, EndDialogue, Done, library, Signed, Missing,
             SignQuestions
    <3> QED BY <1>2, <2>2, <3>1 DEF DialogueInv, library
  <2>3. CASE EndDialogue
    <3> USE DEF Now
    <3>1. EndDialogue'
      BY <1>1, <1>2, <1>3, <1>4, <1>5, <2>3, RequestForms, TrustTransitions,
         SignTransitions, Prompts DEF EndDialogue, Done, library
    <3> QED BY <3>1 DEF DialogueInv
  <2> QED BY <1>5, <2>1, <2>2, <2>3 DEF IndInv, DialogueInv
<1>8. MsgInv'
  BY <1>2, <1>5 DEF MsgInv
<1>9. UnsavedInv'
  BY <1>2, <1>4, <1>5 DEF UnsavedInv, IndInv, library
<1>10. SurpriseInv'
  BY <1>2, <1>4, <1>5 DEF SurpriseInv, IndInv
<1>11. OutcomeInv'
  BY <1>2, <1>5 DEF OutcomeInv, IndInv
<1> QED BY <1>6, <1>7, <1>8, <1>9, <1>10, <1>11 DEF IndInv

\* A status on the list is not answered.
LEMMA IgnoreStatusKeeps ==
    ASSUME IndInv, IgnoreStatus
    PROVE  IndInv'
<1>1. /\ at = "session" /\ msg \in IgnoredStatuses /\ msg' = "none"
      /\ UNCHANGED <<request, at, gen, answer, failed, gpg, selected, todo, mem,
                     disk, before, incident, chatter>>
  BY DEF IgnoreStatus, Called, python, library
<1>2. TypeOK'
  BY <1>1 DEF IndInv, TypeOK, Messages, Script
<1>3. DialogueInv'
  <2>1. msg # "ERROR"
    BY <1>1 DEF IgnoredStatuses
  <2> QED BY <1>1, <2>1 DEF IndInv, DialogueInv, TrustDialogue, SignDialogue,
                            EndDialogue, Signed, Missing, Done, Now
<1>4. MsgInv' /\ UnsavedInv'
  BY <1>1 DEF IndInv, MsgInv, UnsavedInv
<1>5. SurpriseInv' /\ OutcomeInv'
  BY <1>1, Ignored DEF IndInv, SurpriseInv, OutcomeInv, Done, Valid
<1> QED BY <1>2, <1>3, <1>4, <1>5 DEF IndInv

\* The generator knows every prompt of gpg: a message it rejects is one that
\* was announced as an incident.
LEMMA Rejected ==
    ASSUME IndInv, RejectMessage
    PROVE  incident # "none"
<1>1. /\ Called /\ msg \notin IgnoredStatuses /\ ~ \E t \in Script : Expected(t)
  BY DEF RejectMessage
<1>2. SUFFICES ASSUME gpg \in DOMAIN PromptAt, msg = PromptAt[gpg]
               PROVE  FALSE
  BY <1>1, Prompted
<1>3. at = "session" /\ answer = <<>>
  BY <1>1, Prompted
<1>4. \A t \in Script : ~ (t.from = gen /\ t.prompt = PromptAt[gpg])
  BY <1>1, <1>2 DEF Expected
<1>5. TypeOK
  BY DEF IndInv
<1>6. CASE request.edit = "trust" /\ TrustDialogue
  <2>1. /\ Transition("begin", "keyedit.prompt", <<"trust">>, "value") \in Script
        /\ Transition("value", "edit_ownertrust.value",
                      <<"value", request.trust>>, "valued") \in Script
        /\ Transition("valued", "edit_ownertrust.set_ultimate.okay", <<"Y">>,
                      "confirmed") \in Script
        /\ Transition("valued", "keyedit.prompt", <<"quit">>, "save") \in Script
        /\ Transition("confirmed", "keyedit.prompt", <<"quit">>, "save")
               \in Script
    BY <1>6 DEF Script, TrustScript
  <2>2. /\ ~ (gen = "begin" /\ gpg = "prompt")
        /\ ~ (gen = "value" /\ gpg = "value")
        /\ ~ (gen = "valued" /\ gpg = "ultimate")
        /\ ~ (gen = "valued" /\ gpg = "prompt")
        /\ ~ (gen = "confirmed" /\ gpg = "prompt")
    BY <1>4, <2>1, Prompts DEF Transition
  <2> QED BY <1>3, <1>6, <2>2 DEF TrustDialogue, Now
<1>7. CASE request.edit = "sign" /\ SignDialogue
  <2>1. /\ Transition("begin", "keyedit.prompt", <<"uid", request.index>>,
                      "selected") \in Script
        /\ Transition("selected", "keyedit.prompt", <<"sign">>, "signing")
               \in Script
        /\ Transition("signing", "keyedit.prompt", <<"quit">>, "save")
               \in Script
        /\ \A q \in SignQuestions :
               Transition("signing", q, <<"Y">>, "signing") \in Script
    BY <1>7 DEF Script, SignScript
  <2>2. /\ ~ (gen = "begin" /\ gpg = "prompt")
        /\ ~ (gen = "selected" /\ gpg = "prompt")
        /\ ~ (gen = "signing" /\ gpg = "prompt")
        /\ ~ (gen = "signing" /\ PromptAt[gpg] \in SignQuestions)
    BY <1>4, <2>1, Prompts DEF Transition
  <2>3. ~ (gen = "signing" /\ gpg \in {"sign_all", "expire", "class", "okay"})
    BY <2>2, Prompts DEF SignQuestions
  <2> QED BY <1>2, <1>3, <1>7, <2>2, <2>3, Prompts DEF SignDialogue, Now
<1>8. CASE EndDialogue
  <2>1. Transition("save", "keyedit.save.okay", <<"Y">>, "end") \in Script
    BY <1>5, RequestForms DEF Script, TrustScript, SignScript
  <2>2. ~ (gen = "save" /\ gpg = "save")
    BY <1>4, <2>1, Prompts DEF Transition
  <2> QED BY <1>2, <1>3, <1>8, <2>2, Prompts DEF EndDialogue, Now
<1> QED BY <1>3, <1>6, <1>7, <1>8 DEF IndInv, DialogueInv

\* The session ends with a failure, and nothing is saved that was not.
LEMMA FailureKeeps ==
    ASSUME IndInv, at = "session", at' = "ended", failed' = TRUE,
           gpg' \in Places, msg' = "none", answer' = <<>>,
           gen' \in {"begin", "value", "valued", "confirmed", "selected",
                     "signing", "save", "end", "closed"},
           incident' \in {"callback", "library", "late"},
           incident' = "callback" => disk.sigs = before.sigs,
           UNCHANGED <<request, selected, todo, mem, disk, before, chatter>>
    PROVE  IndInv'
<1>1. TypeOK'
  BY DEF IndInv, TypeOK, Messages
<1>2. DialogueInv' /\ MsgInv' /\ UnsavedInv'
  BY DEF DialogueInv, MsgInv, UnsavedInv
<1>3. SurpriseInv' /\ OutcomeInv'
  BY DEF SurpriseInv, OutcomeInv
<1> QED BY <1>1, <1>2, <1>3 DEF IndInv

\* os.write raises, or the generator does.
LEMMA CallbackFails ==
    ASSUME IndInv, WriteFails \/ RejectMessage
    PROVE  IndInv'
<1>1. /\ Called /\ msg \notin IgnoredStatuses
      /\ at' = "ended" /\ failed' = TRUE /\ msg' = "none" /\ gpg' = "gone"
      /\ UNCHANGED <<request, answer, selected, todo, mem, disk, before, chatter>>
  BY DEF WriteFails, RejectMessage
<1>2. at = "session" /\ answer' = <<>> /\ gpg' \in Places /\ TypeOK
  BY <1>1, Prompted DEF Places, IndInv
<1>3. CASE WriteFails
  <2>1. PICK t \in Script : Expected(t) /\ gen' = t.to
    BY <1>3 DEF WriteFails
  <2>2. gen # "end" /\ gen' \in {"value", "valued", "confirmed", "selected",
                                 "signing", "save", "end"}
    BY <1>2, <2>1, Transitions DEF Expected
  <2>3. incident' = "callback" /\ disk.sigs = before.sigs
    BY <1>2, <1>3, <2>2 DEF WriteFails, IndInv, UnsavedInv
  <2> QED BY <1>1, <1>2, <2>2, <2>3, FailureKeeps
<1>4. CASE RejectMessage
  <2>1. incident # "none" /\ incident' = incident /\ gen' \in {"end", "closed"}
    BY <1>4, Rejected DEF RejectMessage
  <2>2. incident' \in {"callback", "library", "late"}
    BY <1>2, <2>1 DEF TypeOK
  <2>3. incident' = "callback" => disk.sigs = before.sigs
    BY <2>1 DEF IndInv, SurpriseInv
  <2> QED BY <1>1, <1>2, <2>1, <2>2, <2>3, FailureKeeps
<1> QED BY <1>3, <1>4

-----------------------------------------------------------------------------
(* gpg.                                                                    *)

\* gpg asks what the place where it is calls for.
LEMMA AsksKeeps ==
    ASSUME IndInv, GpgAsks
    PROVE  IndInv'
<1>1. /\ at = "session" /\ msg = "none" /\ answer = <<>>
      /\ gpg \in DOMAIN PromptAt /\ msg' = PromptAt[gpg]
      /\ UNCHANGED <<request, at, gen, answer, failed, gpg, selected, todo, mem,
                     disk, before, incident, chatter>>
  BY DEF GpgAsks, Speaks, python, library
<1>2. incident # "callback"
  BY <1>1, NoSurprise
<1>3. TypeOK'
  BY <1>1 DEF IndInv, TypeOK, Messages, Script
<1>4. DialogueInv'
  BY <1>1 DEF IndInv, DialogueInv, TrustDialogue, SignDialogue, EndDialogue,
              Signed, Missing, Done, Now
<1>5. MsgInv' /\ UnsavedInv'
  BY <1>1 DEF IndInv, MsgInv, UnsavedInv
<1>6. SurpriseInv' /\ OutcomeInv'
  BY <1>1, <1>2 DEF IndInv, SurpriseInv, OutcomeInv, Done, Valid
<1> QED BY <1>3, <1>4, <1>5, <1>6 DEF IndInv

\* Where the dialogue is, when gpg has heard an answer.
LEMMA Heard ==
    ASSUME IndInv, at = "session", answer # <<>>
    PROVE  /\ msg = "none" /\ incident # "callback"
           /\ \/ /\ request.edit = "trust" /\ mem.trust = before.trust
                 /\ \/ Now("value", "prompt", <<"trust">>)
                    \/ Now("valued", "value", <<"value", request.trust>>)
                    \/ /\ request.trust = "ultimate"
                       /\ Now("confirmed", "ultimate", <<"Y">>)
              \/ /\ request.edit = "sign" /\ mem.trust = before.trust
                 /\ \/ Now("selected", "prompt", <<"uid", request.index>>)
                    \/ /\ selected = request.index
                       /\ Now("signing", "prompt", <<"sign">>)
                    \/ /\ Signed
                       /\ \E p \in {"sign_all", "expire", "class", "okay"} :
                              Now("signing", p, <<"Y">>)
              \/ /\ failed \/ Done(mem)
                 /\ \/ Now("save", "prompt", <<"quit">>)
                    \/ Now("end", "save", <<"Y">>)
<1>1. msg = "none"
  BY DEF IndInv, TypeOK
<1>2. incident # "callback"
  BY <1>1, NoSurprise
<1> QED BY <1>1, <1>2 DEF IndInv, DialogueInv, TrustDialogue, SignDialogue,
                          EndDialogue, Now

\* gpg is told what to do: a menu command.
LEMMA CommandKeeps ==
    ASSUME IndInv, GpgCommand
    PROVE  IndInv'
<1>1. /\ at = "session" /\ gpg = "prompt" /\ answer' = <<>> /\ answer # <<>>
      /\ UNCHANGED <<request, at, gen, msg, failed, mem, disk, before, incident,
                     chatter>>
  BY DEF GpgCommand, Hears, python
<1>2. msg = "none" /\ incident # "callback"
  BY <1>1, Heard
<1>3. \/ /\ answer = <<"trust">> /\ gpg' = "value"
         /\ UNCHANGED <<selected, todo>>
      \/ /\ \E n \in 0 .. UidCount : answer = <<"uid", n>> /\ selected' = n
         /\ gpg' = gpg /\ todo' = todo
      \/ /\ answer = <<"sign">> /\ gpg' \in {"sign_all", "signer"}
         /\ todo' = Signers /\ selected' = selected
      \/ /\ answer = <<"quit">>
         /\ gpg' \in (IF mem # before THEN {"save"} ELSE {"save", "over"})
         /\ UNCHANGED <<selected, todo>>
  BY DEF GpgCommand, Hears, GoesTo
<1>4. TypeOK'
  <2>1. gpg' \in Places /\ selected' \in 0 .. UidCount /\ todo' \subseteq Signers
    BY <1>1, <1>3 DEF IndInv, TypeOK, Places
  <2> QED BY <1>1, <2>1 DEF IndInv, TypeOK
<1>5. UnsavedInv'
  BY <1>1, Heard DEF IndInv, UnsavedInv, Now
<1>6. DialogueInv'
  <2>1. CASE answer = <<"trust">>
    BY <1>1, <1>3, <2>1, Heard DEF DialogueInv, TrustDialogue, Now
  <2>2. CASE \E n \in 0 .. UidCount : answer = <<"uid", n>>
    BY <1>1, <1>3, <2>2, Heard DEF DialogueInv, SignDialogue, Now
  <2>3. CASE answer = <<"sign">>
    BY <1>1, <1>3, <2>3, Heard DEF DialogueInv, SignDialogue, Signed, Now
  <2>4. CASE answer = <<"quit">>
    <3>1. gen = "save" /\ (failed \/ Done(mem))
      BY <1>1, <2>4, Heard DEF Now
    <3>2. disk.sigs = before.sigs /\ disk.trust \in {before.trust, mem.trust}
      BY <1>1, <3>1 DEF IndInv, UnsavedInv
    <3>3. mem = before /\ Done(mem) => Done(disk)
      BY <3>2 DEF Done
    <3>4. EndDialogue'
      BY <1>1, <1>3, <2>4, <3>1, <3>3 DEF EndDialogue, Done, Now
    <3> QED BY <3>4 DEF DialogueInv
  <2> QED BY <1>3, <2>1, <2>2, <2>3, <2>4
<1>7. MsgInv'
  BY <1>1, <1>2 DEF MsgInv
<1>8. SurpriseInv' /\ OutcomeInv'
  BY <1>1, <1>2 DEF IndInv, SurpriseInv, OutcomeInv
<1> QED BY <1>4, <1>5, <1>6, <1>7, <1>8 DEF IndInv

\* The owner trust is set: the answer was what edit_trust was called with.
LEMMA TrustKeeps ==
    ASSUME IndInv, GpgTrust
    PROVE  IndInv'
<1>1. /\ at = "session" /\ gpg \in {"value", "ultimate"}
      /\ answer' = <<>> /\ answer # <<>>
      /\ UNCHANGED <<request, at, gen, msg, failed, selected, todo, before,
                     incident, chatter>>
  BY DEF GpgTrust, Hears, python
<1>2. /\ msg = "none" /\ incident # "callback"
      /\ request.edit = "trust" /\ mem.trust = before.trust
      /\ \/ gen = "valued" /\ gpg = "value" /\ answer = <<"value", request.trust>>
         \/ /\ gen = "confirmed" /\ gpg = "ultimate" /\ answer = <<"Y">>
            /\ request.trust = "ultimate"
  BY <1>1, Heard DEF Now
<1>3. request.trust \in Trusts
  BY <1>2, RequestForms DEF IndInv
<1>4. disk.sigs = before.sigs /\ disk.trust = before.trust
  BY <1>1, <1>2 DEF IndInv, UnsavedInv
<1>5. \/ SetTrust(request.trust)
      \/ /\ request.trust = "ultimate" /\ gen = "valued" /\ gpg' = "ultimate"
         /\ UNCHANGED <<mem, disk>>
  BY <1>2 DEF GpgTrust, Hears, GoesTo
<1>6. CASE SetTrust(request.trust)
  <2>1. /\ mem \in KeyStates /\ disk \in KeyStates
        /\ mem' = [mem EXCEPT !.trust = request.trust]
        /\ disk' \in {disk, [disk EXCEPT !.trust = request.trust]}
        /\ gpg' = "prompt"
    BY <1>6 DEF SetTrust, GoesTo, IndInv, TypeOK
  <2>2. mem' \in KeyStates /\ mem'.trust = request.trust
    BY <1>3, <2>1 DEF KeyStates
  <2>3. /\ disk' \in KeyStates /\ disk'.sigs = before.sigs
        /\ disk'.trust \in {before.trust, request.trust}
    BY <1>3, <1>4, <2>1 DEF KeyStates
  <2>4. TypeOK'
    <3>1. {mem, disk, before}' \subseteq KeyStates
      BY <1>1, <2>2, <2>3 DEF IndInv, TypeOK
    <3>2. gpg' \in Places
      BY <2>1 DEF Places
    <3> QED BY <1>1, <3>1, <3>2 DEF IndInv, TypeOK
  <2>5. DialogueInv'
    BY <1>1, <1>2, <2>1, <2>2 DEF DialogueInv, TrustDialogue, Now
  <2>6. MsgInv' /\ UnsavedInv' /\ SurpriseInv' /\ OutcomeInv'
    BY <1>1, <1>2, <2>1, <2>2, <2>3
       DEF IndInv, MsgInv, UnsavedInv, SurpriseInv, OutcomeInv
  <2> QED BY <2>4, <2>5, <2>6 DEF IndInv
<1>7. CASE /\ request.trust = "ultimate" /\ gen = "valued" /\ gpg' = "ultimate"
           /\ UNCHANGED <<mem, disk>>
  <2>1. TypeOK'
    BY <1>1, <1>7 DEF IndInv, TypeOK, Places
  <2>2. DialogueInv'
    BY <1>1, <1>2, <1>7 DEF DialogueInv, TrustDialogue, Now
  <2>3. MsgInv' /\ UnsavedInv' /\ SurpriseInv' /\ OutcomeInv'
    BY <1>1, <1>2, <1>7, <1>4
       DEF IndInv, MsgInv, UnsavedInv, SurpriseInv, OutcomeInv
  <2> QED BY <2>1, <2>2, <2>3 DEF IndInv
<1> QED BY <1>5, <1>6, <1>7

\* Where the dialogue is, when gpg comes to a signer.
LEMMA AtSigner ==
    ASSUME IndInv, at = "session", gpg = "signer"
    PROVE  /\ request.edit = "sign" /\ mem.trust = before.trust
           /\ gen = "signing" /\ answer = <<>> /\ Signed
  BY DEF IndInv, DialogueInv, TrustDialogue, SignDialogue, EndDialogue, Now

\* gpg comes to the next signer: where there is none left, every signature has
\* been made.
LEMMA SignerKeeps ==
    ASSUME IndInv, GpgSigner
    PROVE  IndInv'
<1>1. /\ at = "session" /\ msg = "none" /\ answer = <<>> /\ gpg = "signer"
      /\ UNCHANGED <<request, at, gen, answer, failed, selected, mem, disk,
                     before, incident, chatter>>
  BY DEF GpgSigner, Speaks, python
<1>2. /\ incident # "callback" /\ request.edit = "sign" /\ gen = "signing"
      /\ mem.trust = before.trust /\ Signed
  BY <1>1, AtSigner, NoSurprise
<1>3. \/ todo = {} /\ gpg' = "prompt" /\ UNCHANGED <<msg, todo>>
      \/ /\ \E s \in todo : Missing(s) = {} /\ todo' = todo \ {s}
         /\ msg' = "ALREADY_SIGNED" /\ gpg' = gpg
      \/ gpg' \in {"expire", "class", "okay"} /\ UNCHANGED <<msg, todo>>
  BY DEF GpgSigner, GoesTo
<1>4. msg' \in {"none"} \cup IgnoredStatuses
  BY <1>1, <1>3 DEF IgnoredStatuses
<1>5. TypeOK'
  <2>1. gpg' \in Places /\ todo' \subseteq Signers /\ msg' \in Messages
    BY <1>1, <1>3, <1>4 DEF IndInv, TypeOK, Places, Messages
  <2> QED BY <1>1, <2>1 DEF IndInv, TypeOK, Script
<1>6. DialogueInv'
  <2>1. CASE todo = {} /\ gpg' = "prompt" /\ UNCHANGED <<msg, todo>>
    <3>1. \A u \in 1 .. UidCount : request.index \in {0, u} =>
              \A s \in Signers : <<u, s>> \in mem.sigs
      BY <1>2, <2>1 DEF Signed, Missing
    <3>2. Done(mem)
      BY <1>2, <3>1 DEF Done
    <3> QED BY <1>1, <1>2, <2>1, <3>2
            DEF DialogueInv, SignDialogue, Done, Now
  <2>2. CASE /\ \E s \in todo : Missing(s) = {} /\ todo' = todo \ {s}
             /\ msg' = "ALREADY_SIGNED" /\ gpg' = gpg
    <3>1. Signed'
      BY <1>1, <1>2, <2>2 DEF Signed, Missing
    <3> QED BY <1>1, <1>2, <2>2, <3>1 DEF DialogueInv, SignDialogue, Now
  <2>3. CASE gpg' \in {"expire", "class", "okay"} /\ UNCHANGED <<msg, todo>>
    <3>1. Signed'
      BY <1>1, <1>2, <2>3 DEF Signed, Missing
    <3> QED BY <1>1, <1>2, <2>3, <3>1 DEF DialogueInv, SignDialogue, Now
  <2> QED BY <1>3, <2>1, <2>2, <2>3
<1>7. MsgInv' /\ UnsavedInv' /\ SurpriseInv' /\ OutcomeInv'
  BY <1>1, <1>2, <1>4 DEF IndInv, MsgInv, UnsavedInv, SurpriseInv, OutcomeInv
<1> QED BY <1>5, <1>6, <1>7 DEF IndInv

\* gpg has been answered, and goes on with the next question or signer.
LEMMA QuestionKeeps ==
    ASSUME IndInv, GpgQuestion
    PROVE  IndInv'
<1>1. /\ at = "session" /\ answer = <<"Y">> /\ answer' = <<>>
      /\ gpg \in {"sign_all", "expire", "class"}
      /\ gpg' \in {"signer", "class", "okay"}
      /\ UNCHANGED <<request, at, gen, msg, failed, selected, todo, mem, disk,
                     before, incident, chatter>>
  BY DEF GpgQuestion, Hears, GoesTo, python
<1>2. /\ msg = "none" /\ incident # "callback" /\ request.edit = "sign"
      /\ gen = "signing" /\ mem.trust = before.trust /\ Signed
  BY <1>1, Heard DEF Now
<1>3. TypeOK'
  BY <1>1 DEF IndInv, TypeOK, Places
<1>4. DialogueInv'
  BY <1>1, <1>2 DEF DialogueInv, SignDialogue, Signed, Missing, Now
<1>5. MsgInv' /\ UnsavedInv' /\ SurpriseInv' /\ OutcomeInv'
  BY <1>1, <1>2 DEF IndInv, MsgInv, UnsavedInv, SurpriseInv, OutcomeInv
<1> QED BY <1>3, <1>4, <1>5 DEF IndInv

\* The signatures of a signer are made, and none is taken away.
LEMMA SignsKeeps ==
    ASSUME IndInv, GpgSigns
    PROVE  IndInv'
<1>1. /\ at = "session" /\ answer = <<"Y">> /\ answer' = <<>>
      /\ gpg = "okay" /\ gpg' = "signer"
      /\ UNCHANGED <<request, at, gen, msg, failed, selected, disk, before,
                     incident, chatter>>
  BY DEF GpgSigns, Hears, GoesTo, python
<1>2. /\ msg = "none" /\ incident # "callback" /\ request.edit = "sign"
      /\ gen = "signing" /\ mem.trust = before.trust /\ Signed
  BY <1>1, Heard DEF Now
<1>3. PICK s \in todo :
          /\ mem' = [mem EXCEPT !.sigs = @ \cup (Missing(s) \X {s})]
          /\ todo' = todo \ {s}
  BY DEF GpgSigns
<1>4. mem \in KeyStates /\ s \in Signers /\ todo \subseteq Signers
  BY DEF IndInv, TypeOK
<1>5. mem'.trust = mem.trust /\ mem'.sigs = mem.sigs \cup (Missing(s) \X {s})
  BY <1>3, <1>4 DEF KeyStates
<1>6. TypeOK'
  <2>1. Missing(s) \X {s} \subseteq Signatures
    BY <1>4 DEF Missing, Signatures
  <2>2. mem' \in KeyStates
    BY <1>3, <1>4, <2>1 DEF KeyStates
  <2>3. {mem, disk, before}' \subseteq KeyStates
    BY <1>1, <2>2 DEF IndInv, TypeOK
  <2>4. todo' \subseteq Signers /\ gpg' \in Places
    BY <1>1, <1>3, <1>4 DEF Places
  <2> QED BY <1>1, <2>3, <2>4 DEF IndInv, TypeOK
<1>7. Signed'
  <2> SUFFICES ASSUME NEW r \in Signers \ todo' PROVE Missing(r)' = {}
    BY <1>1, <1>2 DEF Signed
  <2>1. CASE r = s
    <3> SUFFICES ASSUME NEW u \in 1 .. UidCount, selected \in {0, u}
                 PROVE  <<u, s>> \in mem'.sigs
      BY <1>1, <2>1 DEF Missing
    <3>1. u \in Missing(s) \/ <<u, s>> \in mem.sigs
      BY DEF Missing
    <3> QED BY <1>5, <3>1
  <2>2. CASE r # s
    <3>1. Missing(r) = {}
      BY <1>2, <1>3, <2>2 DEF Signed
    <3> QED BY <1>1, <1>5, <3>1 DEF Missing
  <2> QED BY <2>1, <2>2
<1>8. DialogueInv'
  BY <1>1, <1>2, <1>5, <1>7 DEF DialogueInv, SignDialogue, Now
<1>9. MsgInv' /\ UnsavedInv' /\ SurpriseInv' /\ OutcomeInv'
  BY <1>1, <1>2, <1>5 DEF IndInv, MsgInv, UnsavedInv, SurpriseInv, OutcomeInv
<1> QED BY <1>6, <1>8, <1>9 DEF IndInv

\* No more signatures are made: a status or the operation is going to say so.
LEMMA CannotSignKeeps ==
    ASSUME IndInv, GpgCannotSign
    PROVE  IndInv'
<1>1. /\ at = "session" /\ answer = <<"Y">> /\ answer' = <<>>
      /\ gpg = "okay" /\ gpg' = "prompt" /\ todo' = {}
      /\ UNCHANGED <<request, at, gen, selected, mem, disk, before, chatter>>
      /\ \/ msg' = "ERROR" /\ incident' = "callback" /\ failed' = failed
         \/ /\ msg' = "BAD_PASSPHRASE" /\ failed' = TRUE
            /\ incident' = "library"
  BY DEF GpgCannotSign, Hears, GoesTo, python
<1>2. /\ msg = "none" /\ incident # "callback" /\ request.edit = "sign"
      /\ gen = "signing" /\ mem.trust = before.trust
  BY <1>1, Heard DEF Now
<1>3. disk.sigs = before.sigs
  BY <1>1, <1>2 DEF IndInv, UnsavedInv
<1>4. TypeOK'
  <2>1. msg' \in Messages /\ gpg' \in Places
    BY <1>1 DEF Messages, IgnoredStatuses, Places
  <2> QED BY <1>1, <2>1 DEF IndInv, TypeOK
<1>5. DialogueInv'
  BY <1>1, <1>2 DEF DialogueInv, SignDialogue, Now
<1>6. MsgInv'
  BY <1>1 DEF MsgInv, Surprises, IgnoredStatuses
<1>7. UnsavedInv' /\ SurpriseInv' /\ OutcomeInv'
  BY <1>1, <1>2, <1>3 DEF IndInv, UnsavedInv, SurpriseInv, OutcomeInv, Surprises
<1> QED BY <1>4, <1>5, <1>6, <1>7 DEF IndInv

\* The key is saved as it was edited.
LEMMA SavesKeeps ==
    ASSUME IndInv, GpgSaves
    PROVE  IndInv'
<1>1. /\ at = "session" /\ answer = <<"Y">> /\ answer' = <<>>
      /\ gpg = "save" /\ gpg' = "over" /\ disk' = mem
      /\ UNCHANGED <<request, at, gen, msg, failed, selected, todo, mem, before,
                     incident, chatter>>
  BY DEF GpgSaves, Hears, GoesTo, python
<1>2. /\ msg = "none" /\ incident # "callback" /\ gen = "end"
      /\ failed \/ Done(mem)
  BY <1>1, Heard DEF Now
<1>3. TypeOK'
  <2>1. gpg' \in Places /\ {mem, disk, before}' \subseteq KeyStates
    BY <1>1 DEF IndInv, TypeOK, Places
  <2> QED BY <1>1, <2>1 DEF IndInv, TypeOK
<1>4. DialogueInv'
  <2>1. EndDialogue'
    BY <1>1, <1>2 DEF EndDialogue, Done
  <2> QED BY <2>1 DEF DialogueInv
<1>5. MsgInv' /\ UnsavedInv' /\ SurpriseInv' /\ OutcomeInv'
  BY <1>1, <1>2 DEF IndInv, MsgInv, UnsavedInv, SurpriseInv, OutcomeInv
<1> QED BY <1>3, <1>4, <1>5 DEF IndInv

\* Where the dialogue is, when gpg has come to its end.
LEMMA AtEnd ==
    ASSUME IndInv, at = "session", gpg \in {"over", "gone"}
    PROVE  /\ gen \in {"save", "end"} /\ answer = <<>>
           /\ failed \/ Done(disk)
  BY DEF IndInv, DialogueInv, TrustDialogue, SignDialogue, EndDialogue, Now

\* gpg says EOF, and the operation ends.
LEMMA EndsKeeps ==
    ASSUME IndInv, GpgEnds
    PROVE  IndInv'
<1>1. /\ at = "session" /\ msg = "none" /\ answer = <<>>
      /\ gpg \in {"over", "gone"} /\ gpg' = "gone"
      /\ \/ msg' = "EOF" /\ at' = at
         \/ at' = "ended" /\ msg' = msg
      /\ UNCHANGED <<request, gen, answer, failed, selected, todo, mem, disk,
                     before, incident, chatter>>
  BY DEF GpgEnds, Speaks, GoesTo
<1>2. /\ incident # "callback" /\ gen \in {"save", "end"}
      /\ failed \/ Done(disk)
  BY <1>1, AtEnd, NoSurprise
<1>3. "EOF" \in IgnoredStatuses
  BY DEF IgnoredStatuses
<1>4. TypeOK'
  <2>1. msg' \in Messages /\ gpg' \in Places
    BY <1>1, <1>3 DEF Messages, Places
  <2> QED BY <1>1, <2>1 DEF IndInv, TypeOK, Script
<1>5. DialogueInv'
  <2>1. EndDialogue'
    BY <1>1, <1>2 DEF EndDialogue, Done
  <2> QED BY <2>1 DEF DialogueInv
<1>6. MsgInv' /\ UnsavedInv' /\ SurpriseInv' /\ OutcomeInv'
  BY <1>1, <1>2, <1>3
     DEF IndInv, MsgInv, UnsavedInv, SurpriseInv, OutcomeInv, Done
<1> QED BY <1>4, <1>5, <1>6 DEF IndInv

\* gpg says something else, which it was expected to or not.
LEMMA SaysKeeps ==
    ASSUME IndInv, GpgChatters \/ GpgSurprises
    PROVE  IndInv'
<1>1. /\ at = "session" /\ msg = "none" /\ answer = <<>> /\ gpg # "gone"
      /\ \/ msg' \in IgnoredStatuses /\ incident' = incident
         \/ /\ msg' \in Surprises
            /\ incident' = IF gen # "end" THEN "callback"
                           ELSE IF incident = "none" THEN "late" ELSE incident
      /\ chatter' \in 0 .. MaxChatter /\ msg' # "ERROR"
      /\ UNCHANGED <<request, at, gen, answer, failed, gpg, selected, todo, mem,
                     disk, before>>
  <2>1. chatter \in 0 .. MaxChatter
    BY DEF IndInv, TypeOK
  <2>2. chatter' \in 0 .. MaxChatter
    BY <2>1, MaxChatterAssumption DEF GpgChatters, GpgSurprises
  <2> QED BY <2>2 DEF GpgChatters, GpgSurprises, Speaks, python, library,
                      IgnoredStatuses, Surprises
<1>2. incident # "callback"
  BY <1>1, NoSurprise
<1>3. gen # "end" => disk.sigs = before.sigs
  BY <1>1 DEF IndInv, UnsavedInv
<1>4. incident \in {"none", "callback", "library", "late"}
  BY DEF IndInv, TypeOK
<1>5. TypeOK'
  <2>1. msg' \in Messages
    BY <1>1 DEF Messages, Surprises
  <2>2. incident' \in {"none", "callback", "library", "late"}
    BY <1>1, <1>4
  <2> QED BY <1>1, <2>1, <2>2 DEF IndInv, TypeOK, Script
<1>6. DialogueInv'
  BY <1>1 DEF IndInv, DialogueInv, TrustDialogue, SignDialogue, EndDialogue,
              Signed, Missing, Done, Now
<1>7. MsgInv' /\ UnsavedInv'
  BY <1>1, <1>2 DEF IndInv, MsgInv, UnsavedInv
<1>8. SurpriseInv' /\ OutcomeInv'
  BY <1>1, <1>2, <1>3 DEF IndInv, SurpriseInv, OutcomeInv
<1> QED BY <1>5, <1>6, <1>7, <1>8 DEF IndInv

\* gpg dies, wherever it is.
LEMMA DiesKeeps ==
    ASSUME IndInv, GpgDies
    PROVE  IndInv'
<1>1. /\ at = "session" /\ at' = "ended" /\ failed' = TRUE /\ msg = "none"
      /\ answer' = <<>> /\ gpg' = "gone" /\ gen' = gen /\ msg' = msg
      /\ incident' = IF incident = "none" THEN "library" ELSE incident
      /\ UNCHANGED <<request, selected, todo, mem, disk, before, chatter>>
  BY DEF GpgDies
<1>2. incident # "callback"
  BY <1>1, NoSurprise
<1>3. /\ incident' \in {"callback", "library", "late"}
      /\ gen' \in {"begin", "value", "valued", "confirmed", "selected",
                   "signing", "save", "end", "closed"}
      /\ gpg' \in Places
  BY <1>1 DEF IndInv, TypeOK, Places
<1> QED BY <1>1, <1>2, <1>3, FailureKeeps

-----------------------------------------------------------------------------
(* The caller.                                                             *)

\* A call is refused, or starts a session with the key as it is.
LEMMA StartKeeps ==
    ASSUME IndInv, NEW r \in Requests, RefuseRequest(r) \/ StartEdit(r)
    PROVE  IndInv'
<1>1. at = "idle" /\ msg = "none" /\ answer = <<>> /\ disk \in KeyStates
  BY DEF RefuseRequest, StartEdit, IndInv, TypeOK, MsgInv
<1>2. CASE RefuseRequest(r)
  <2>1. /\ ~ Valid(r) /\ request' = r /\ at' = "raised" /\ before' = disk
        /\ UNCHANGED <<gen, msg, answer, failed, gpg, selected, todo, mem, disk,
                       incident, chatter>>
    BY <1>2 DEF RefuseRequest, library
  <2>2. {mem, disk, before}' \subseteq KeyStates
    BY <2>1 DEF IndInv, TypeOK
  <2>3. TypeOK'
    BY <1>1, <2>1, <2>2 DEF IndInv, TypeOK
  <2>4. ~ Valid(request)'
    BY <2>1 DEF Valid
  <2> QED BY <1>1, <2>1, <2>3, <2>4 DEF IndInv, DialogueInv, MsgInv, UnsavedInv,
                                        SurpriseInv, OutcomeInv
<1>3. CASE StartEdit(r)
  <2>1. /\ request' = r /\ gen' = "begin" /\ before' = disk /\ mem' = disk
        /\ UNCHANGED <<msg, answer, selected, todo, disk, chatter>>
        /\ \/ at' = "session" /\ gpg' = "prompt" /\ UNCHANGED <<failed, incident>>
           \/ /\ at' = "ended" /\ failed' = TRUE /\ incident' = "library"
              /\ gpg' = gpg
    BY <1>3 DEF StartEdit
  <2>2. {mem, disk, before}' \subseteq KeyStates
    BY <1>1, <2>1
  <2>3. TypeOK'
    BY <1>1, <2>1, <2>2 DEF IndInv, TypeOK, Places
  <2>4. DialogueInv'
    <3>1. request'.edit \in {"trust", "sign"}
      BY <2>1 DEF Requests
    <3> QED BY <1>1, <2>1, <3>1
            DEF DialogueInv, TrustDialogue, SignDialogue, Now
  <2>5. UnsavedInv' /\ MsgInv'
    BY <1>1, <2>1 DEF UnsavedInv, MsgInv
  <2>6. incident' # "callback"
    BY <2>1, <1>1 DEF IndInv, OutcomeInv
  <2>7. SurpriseInv' /\ OutcomeInv'
    BY <2>1, <2>6 DEF IndInv, SurpriseInv, OutcomeInv
  <2> QED BY <2>3, <2>4, <2>5, <2>7 DEF IndInv
<1> QED BY <1>2, <1>3

\* The call returns, or raises what the session has failed with.
LEMMA ReturnKeeps ==
    ASSUME IndInv, ReturnFromEdit
    PROVE  IndInv'
<1>1. /\ at = "ended" /\ at' = IF failed THEN "raised" ELSE "returned"
      /\ gen' = IF gen = "end" THEN "end" ELSE "closed"
      /\ UNCHANGED <<request, msg, answer, failed, gpg, selected, todo, mem,
                     disk, before, incident, chatter>>
  BY DEF ReturnFromEdit, library
<1>2. at' \in {"returned", "raised"} /\ gen' \in {"end", "closed"}
  BY <1>1
<1>3. TypeOK'
  BY <1>1, <1>2 DEF IndInv, TypeOK, Script
<1>4. DialogueInv' /\ MsgInv' /\ UnsavedInv'
  BY <1>1, <1>2 DEF IndInv, DialogueInv, MsgInv, UnsavedInv
<1>5. SurpriseInv' /\ OutcomeInv'
  BY <1>1, <1>2 DEF IndInv, SurpriseInv, OutcomeInv, Done
<1> QED BY <1>3, <1>4, <1>5 DEF IndInv

\* The caller goes on, with the key as it is.
LEMMA ForgetKeeps ==
    ASSUME IndInv, Forget
    PROVE  IndInv'
<1>1. /\ at \in {"returned", "raised"} /\ at' = "idle" /\ gen' = "closed"
      /\ answer' = <<>> /\ failed' = FALSE /\ selected' = 0 /\ todo' = {}
      /\ mem' = disk /\ before' = disk /\ incident' = "none" /\ chatter' = 0
      /\ UNCHANGED <<request, msg, gpg, disk>>
  BY DEF Forget
<1>2. TypeOK'
  <2>1. 0 \in 0 .. UidCount /\ 0 \in 0 .. MaxChatter
    BY UidCountAssumption, MaxChatterAssumption
  <2>2. {mem, disk, before}' \subseteq KeyStates
    BY <1>1 DEF IndInv, TypeOK
  <2> QED BY <1>1, <2>1, <2>2 DEF IndInv, TypeOK
<1>3. DialogueInv' /\ MsgInv' /\ UnsavedInv' /\ SurpriseInv' /\ OutcomeInv'
  BY <1>1 DEF IndInv, DialogueInv, MsgInv, UnsavedInv, SurpriseInv, OutcomeInv
<1> QED BY <1>2, <1>3 DEF IndInv

-----------------------------------------------------------------------------
(* Every step.                                                             *)

\* Nothing but a step of the model changes what the invariant is about.
LEMMA StutterKeeps ==
    ASSUME IndInv, UNCHANGED vars
    PROVE  IndInv'
<1>1. UNCHANGED <<request, at, gen, msg, answer, failed, gpg, selected, todo,
                  mem, disk, before, incident, chatter>>
  BY DEF vars, python, library
<1>2. TypeOK'
  BY <1>1 DEF IndInv, TypeOK, Script
<1>3. DialogueInv'
  BY <1>1 DEF IndInv, DialogueInv, TrustDialogue, SignDialogue, EndDialogue,
              Signed, Missing, Done, Now
<1>4. MsgInv' /\ UnsavedInv' /\ SurpriseInv'
  BY <1>1 DEF IndInv, MsgInv, UnsavedInv, SurpriseInv
<1>5. OutcomeInv'
  BY <1>1 DEF IndInv, OutcomeInv, Done, Valid
<1> QED BY <1>2, <1>3, <1>4, <1>5 DEF IndInv

\* The callback, gpg and the caller each keep the dialogue.
LEMMA StepKeeps ==
    ASSUME IndInv, [Next]_vars
    PROVE  IndInv'
<1>1. CASE \E r \in Requests : RefuseRequest(r) \/ StartEdit(r)
  BY <1>1, StartKeeps
<1>2. CASE ReturnFromEdit \/ Forget
  BY <1>2, ReturnKeeps, ForgetKeeps
<1>3. CASE IgnoreStatus \/ SendAnswer
  BY <1>3, IgnoreStatusKeeps, SendAnswerKeeps
<1>4. CASE WriteFails \/ RejectMessage
  BY <1>4, CallbackFails
<1>5. CASE GpgProceeds
  BY <1>5, AsksKeeps, CommandKeeps, TrustKeeps, SignerKeeps, QuestionKeeps,
     SignsKeeps, CannotSignKeeps, SavesKeeps, EndsKeeps DEF GpgProceeds
<1>6. CASE GpgChatters \/ GpgSurprises \/ GpgDies
  BY <1>6, SaysKeeps, DiesKeeps
<1>7. CASE UNCHANGED vars
  BY <1>7, StutterKeeps
<1> QED BY <1>1, <1>2, <1>3, <1>4, <1>5, <1>6, <1>7 DEF Next, Callback

\* The dialogue is never lost.
THEOREM Invariance == Spec => []IndInv
BY InitInv, StepKeeps, PTL DEF Spec

-----------------------------------------------------------------------------
\* The state of the generator, of gpg and of the key is what the model says
\* of it: gpg is never asked to go on while it waits for an answer, and no
\* finished call leaves a generator that waits.
THEOREM TypeCorrect == Spec => []TypeOK
<1>1. IndInv => TypeOK
  BY DEF IndInv
<1> QED BY <1>1, Invariance, PTL

\* Whatever gpg says and wherever the session ends, edit_trust and edit_sign
\* return normally only with the key edited as asked, for a key with any
\* number of user IDs and a Context with any signers.
THEOREM SuccessIsDone == Spec => []SuccessMeansDone
<1>1. IndInv => SuccessMeansDone
  BY DEF IndInv, OutcomeInv, SuccessMeansDone
<1> QED BY <1>1, Invariance, PTL

\* A session whose callback failed saves no signature: the script answers the
\* question whether to save only as its last answer.
THEOREM NothingSavedOnSurprise == Spec => []SurpriseSavesNothing
<1>1. IndInv => SurpriseSavesNothing
  BY DEF IndInv, SurpriseInv, SurpriseSavesNothing
<1> QED BY <1>1, Invariance, PTL

\* If nothing goes wrong, no call fails: at every place where gpg may ask, the
\* generator waits for the question.
THEOREM QuietSessionsSucceed == Spec => []QuietSessionSucceeds
<1>1. IndInv => QuietSessionSucceeds
  BY DEF IndInv, OutcomeInv, QuietSessionSucceeds
<1> QED BY <1>1, Invariance, PTL
=============================================================================
