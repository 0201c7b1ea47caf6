CONSTANTS
    User = {u1, u2}
    Login = {c1, c2}
    SignOn = {p1, p2}
    Op = {o1, o2}
    None = None
    Org = t1
    Organization <- MCOrganization
    Other = t2
    guest = guest
    manager = manager
    Token <- MCToken
    Claims <- MCClaims
SPECIFICATION AdminSpec
CHECK_DEADLOCK FALSE
CONSTRAINT Bound
SYMMETRY Symmetry
INVARIANT TypeOK ClosedOnlyStragglers NothingLeftUpstream AdminTypeOK
PROPERTY PowerlessStaysPowerless
