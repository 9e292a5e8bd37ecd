SPECIFICATION Spec
CONSTANTS
    Windows = {main, d1}
    Main = main
    Users = {u1, u2}
    Tokens = {k1, k2, k3}
    NoToken = NoToken
    NoUser = NoUser
    MaxClears = 1
INVARIANT SecretsUnderOwnKey
SYMMETRY Symmetry
CHECK_DEADLOCK FALSE
