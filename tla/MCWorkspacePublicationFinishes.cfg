SPECIFICATION FairSpec
CONSTANTS
    Records = {c}
    Evidence = {}
    Edits = {e1}
    NoJournal = NoJournal
    MaxRevision = 2
    MaxCrashes = 1
    c = c
    e1 = e1
PROPERTIES
    PublicationFinishes
    IndexComesBack
