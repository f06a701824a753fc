CONSTANTS
    ann = ann
    bob = bob
    p1 = p1
    p2 = p2
    Emails <- TwoEmails
    Passes <- TwoPasses
    MaxId = 2
    MaxPasses = 2
    MaxExpiries = 1
SPECIFICATION Spec
SYMMETRY InstanceSymmetry
INVARIANTS
    TypeOK
    NothingLeftBehind
    OwnData
    EnabledHasTokens
CHECK_DEADLOCK FALSE
