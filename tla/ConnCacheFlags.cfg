\* Does a copy get a connection made with its flags?
CONSTANTS
    Users = {u1, u2}
    Servers = {s1, s2}
    Flags = {f1, f2}
    MaxConns = 4
    None = None
SYMMETRY Symmetry
SPECIFICATION Spec
INVARIANT RightFlags
CHECK_DEADLOCK FALSE
