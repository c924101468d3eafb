CONSTANTS
    d1 = d1
    d2 = d2
    Tabs = {t1, t2}
    Docs = {d1, d2}
    None = None
    Newer = Newer
    Scopes <- MCScopes
SPECIFICATION Spec
INVARIANTS DraftsAreStored WarningIsTruthful OnlyOthersBlock OffersAreOfTheActive CleanFormsShowTheServer
PROPERTY DeletesOnlyItsOwn
CHECK_DEADLOCK FALSE
