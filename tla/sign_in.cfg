CONSTANT
    MaxConnections = 3
SPECIFICATION Spec
PROPERTY
    RedirectEndsSignIn
CHECK_DEADLOCK FALSE
