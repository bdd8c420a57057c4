SPECIFICATION RolesSpec
CONSTANTS
    Workers = {w1, w2}
    Users = {u1}
    RoleIds = {r1, r2}
    Names = {n1, n2}
    NoRole = NoRole
    NoRow = NoRow
    Missing = Missing
    Panel = TRUE
SYMMETRY Symmetry
INVARIANT RolesTypeOK
INVARIANT SupportHasRole
