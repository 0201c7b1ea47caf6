CONSTANTS
    User = {u1}
    Login = {c1, c2}
    SignOn = {p1, p2}
    Op = {o1, o2}
    None = None
SPECIFICATION Spec
SYMMETRY Symmetry
INVARIANT ClosureIsComplete
