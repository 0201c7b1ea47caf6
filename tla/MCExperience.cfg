SPECIFICATION Spec
CONSTANTS
    Identifier = {i1, i2}
    Chain = {c1, c2, c3}
    None = None
SYMMETRY Symmetry
INVARIANT PasswordBelongsToIdentifier RegistersWithPassword BusyMeansWaiting
