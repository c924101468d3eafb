CONSTANTS
    f = f
    g = g
    a = a
    Names = {f, g}
    Props = {p}
    Values = {a, b, c, d}
    Typed = {a, b}
    TypedElsewhere = {c, d}
    Absent = Absent
    Sessions = {s1, s2}
    Scopes <- MCScopes
SPECIFICATION Spec
SYMMETRY MCSymmetry
INVARIANT DirtyDiffersFromBaseline
PROPERTY LocalEditsSurvive
PROPERTY OnlyEditsAreSubmitted
PROPERTY OwnWritesNeverBlock
PROPERTY AnswersFollowTheDispute
