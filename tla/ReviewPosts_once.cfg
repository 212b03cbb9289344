CONSTANTS
    Call = {c1, c2}
    MaxNote = 2
    Version <- MCVersion
    Footer = {f1}
    Anchored <- MCAnchored
    MaxHead = 1
    MaxSubmit = 2
    None = None
SPECIFICATION Spec
SYMMETRY Symm
CHECK_DEADLOCK FALSE
INVARIANT TypeOK
INVARIANT PostedOnce
PROPERTY ClearedWasTold
