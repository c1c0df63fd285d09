SPECIFICATION Spec
CONSTANTS
    Records = {c}
    Evidence = {}
    Edits = {}
    NoJournal = NoJournal
    MaxRevision = 2
    MaxCrashes = 0
    c = c
PROPERTIES
    ReleasedRowsAreRebuildable
