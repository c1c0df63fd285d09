SPECIFICATION Spec
CONSTANTS
    Records = {c, v}
    Evidence = {v}
    Edits = {e1}
    NoJournal = NoJournal
    MaxRevision = 2
    MaxCrashes = 1
    c = c
    v = v
    e1 = e1
INVARIANTS
    TypeOK
    OwnWorkIsRecognized
    GapsAreJournaled
    PublishedIsReadable
PROPERTIES
    PinnedEvidenceIsKept
    EditsSurvive
    OnlyForgottenRecordsLeave
