CONSTANTS
    Call = {c1, c2}
    Tree <- MCTree
    BaseTree = "base"
    Fmt <- MCFmt
    Passing <- MCPassing
    Setup <- MCSetup
    MaxActs = 5
    MaxPeer = 1
    MaxRuns = 2
    None = None
SPECIFICATION Spec
SYMMETRY Symm
CHECK_DEADLOCK FALSE
INVARIANT TypeOK
INVARIANT OnePrOnItsBranch
PROPERTY PublishedIsVerified
PROPERTY PeerLossNeedsFetch
