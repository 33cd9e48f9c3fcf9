SPECIFICATION Spec
CONSTANTS
    UidCount = 2
    Signers = {s1, s2}
    Trusts = {"unknown", "full", "ultimate"}
    MaxChatter = 1
INVARIANTS
    TypeOK
    SuccessMeansDone
    SurpriseSavesNothing
    QuietSessionSucceeds
PROPERTIES
    EditReturns
