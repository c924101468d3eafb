CONSTANTS
    d1 = d1
    d2 = d2
    Tabs = {t1, t2}
    Docs = {d1, d2}
    None = None
    Newer = Newer
    Scopes <- MCScopes
SPECIFICATION Spec
INVARIANT NoOrphans
INVARIANT UnsentIsKept
INVARIANT LeavingIsTruthful
CHECK_DEADLOCK FALSE
