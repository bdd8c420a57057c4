SPECIFICATION MigrationsSpec
CONSTANTS
    Users = {u1, u2}
    ExtraIds = {r1}
    ExtraNames = {n1}
    None = None
SYMMETRY Symmetry
INVARIANTS
    MigrationsTypeOK
    NoLegacyRole
    ArriveConsistent
PROPERTY RoundTrip
