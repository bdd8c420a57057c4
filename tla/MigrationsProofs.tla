------------------------- MODULE MigrationsProofs -------------------------
(***************************************************************************)
(* For any users, support roles and names: Migrations keeps its type       *)
(* invariant, 0003 leaves no legacy role behind, rows arrive at each       *)
(* release with the rule it checks, and a migration that is undone before  *)
(* anybody changes a role gives back every row as it was.                  *)
(*                                                                         *)
(* Going back twice needs more than the last migration: while nobody       *)
(* changed a role, what is saved of one version is the image of what is    *)
(* saved of the version before, and the table holds the image of the last. *)
(***************************************************************************)
EXTENDS Migrations, TLAPS

Names == ExtraNames \cup {RoleName[t] : t \in SupportTypes}

\* The rows a version has room for.  Going back to 2, 0003 leaves support of
\* another type than the general one as support, which 2 does not know.
RowsAt(v) ==
    [type : IF v = 2 THEN Types(2) \cup Types(3) ELSE Types(v),
     subtype : IF v = 3 THEN SupportTypes \cup {None} ELSE {None},
     role : IF v = 4 THEN RoleIds \cup {None} ELSE {None}]

TableInv ==
    /\ version \in 2 .. 4
    /\ users \in [Users -> RowsAt(version)]
    /\ roles \in [RoleIds -> Names \cup {None}]
    /\ version # 4 => roles = [r \in RoleIds |-> None]
    /\ \A u \in Users : users[u].role # None => roles[users[u].role] # None

Converted(table) == [u \in Users |-> ConvertLegacySupervisor(table[u])]
Referring(table) == [u \in Users |-> ToForeignKey(table[u])]

SavedInv ==
    /\ saved \in [2 .. 3 -> {<<>>} \cup [Users -> RowsAt(2)] \cup [Users -> RowsAt(3)]]
    /\ version > 2 /\ saved[2] # <<>> =>
          /\ saved[2] \in [Users -> RowsAt(2)]
          /\ Converted(saved[2]) = IF version = 3 THEN users ELSE saved[3]
    /\ version = 4 /\ saved # Unsaved =>
          /\ saved[3] \in [Users -> RowsAt(3)]
          /\ users = Referring(saved[3])
          /\ roles = SeedDefaultSupportRoles

\* Version 2 knows no support, so that there too the rule holds of its rows.
ArriveInv == ~ reverted => \A u \in Users : Consistent(users[u])

MigrationsInv == TableInv /\ ArriveInv /\ SavedInv

----------------------------------------------------------------------------
(* Rows, one at a time.                                                    *)

\* The names tell the types apart, and none of them is None.
LEMMA NamesOfTypes ==
  /\ \A s, t \in SupportTypes : RoleName[s] = RoleName[t] => s = t
  /\ \A t \in SupportTypes : RoleName[t] # None
  /\ None \notin SupportTypes \cup ExtraIds
  BY MigrationsAssumption DEF RoleName, SupportTypes

\* A row with two of its columns written.
LEMMA WriteTypes ==
  ASSUME NEW v, NEW r \in RowsAt(v), NEW x, NEW y
  PROVE  [r EXCEPT !.type = x, !.subtype = y] = [type |-> x, subtype |-> y, role |-> r.role]
<1> DEFINE row == [r EXCEPT !.type = x, !.subtype = y]
<1>1. row \in [type : {x}, subtype : {y}, role : {r.role}]
  BY DEF RowsAt
<1> HIDE DEF row
<1>2. row = [type |-> x, subtype |-> y, role |-> r.role]
  BY <1>1
<1> QED
  BY <1>2 DEF row

LEMMA WriteRoles ==
  ASSUME NEW v, NEW r \in RowsAt(v), NEW x, NEW y
  PROVE  /\ [r EXCEPT !.role = x, !.subtype = y] = [type |-> r.type, subtype |-> y, role |-> x]
         /\ [r EXCEPT !.subtype = y, !.role = x] = [type |-> r.type, subtype |-> y, role |-> x]
<1> DEFINE row == [r EXCEPT !.role = x, !.subtype = y]
           same == [r EXCEPT !.subtype = y, !.role = x]
<1>1. row \in [type : {r.type}, subtype : {y}, role : {x}]
  BY DEF RowsAt
<1>2. same \in [type : {r.type}, subtype : {y}, role : {x}]
  BY DEF RowsAt
<1> HIDE DEF row, same
<1>3. row = [type |-> r.type, subtype |-> y, role |-> x]
  BY <1>1
<1>4. same = [type |-> r.type, subtype |-> y, role |-> x]
  BY <1>2
<1> QED
  BY <1>3, <1>4 DEF row, same

LEMMA RowIsItsColumns ==
  ASSUME NEW v, NEW r \in RowsAt(v)
  PROVE  r = [type |-> r.type, subtype |-> r.subtype, role |-> r.role]
  BY DEF RowsAt

LEMMA ConvertedIs ==
  ASSUME NEW v, NEW r \in RowsAt(v)
  PROVE  ConvertLegacySupervisor(r)
           = IF r.type = "supervisor"
               THEN [type |-> "support", subtype |-> "general", role |-> r.role] ELSE r
  BY WriteTypes DEF ConvertLegacySupervisor

LEMMA RevertedIs ==
  ASSUME NEW v, NEW r \in RowsAt(v)
  PROVE  RevertLegacySupervisor(r)
           = [type |-> IF r.type = "support" /\ r.subtype = "general" THEN "supervisor" ELSE r.type,
              subtype |-> None, role |-> r.role]
<1>1. [r EXCEPT !.type = "supervisor", !.subtype = None]
        = [type |-> "supervisor", subtype |-> None, role |-> r.role]
  BY WriteTypes
<1>2. [r EXCEPT !.subtype = None] = [type |-> r.type, subtype |-> None, role |-> r.role]
  BY DEF RowsAt
<1> QED
  BY <1>1, <1>2 DEF RevertLegacySupervisor

LEMMA ReferringIs ==
  ASSUME NEW v, NEW r \in RowsAt(v)
  PROVE  ToForeignKey(r) = [type |-> r.type, subtype |-> None, role |-> r.subtype]
  BY WriteRoles DEF ToForeignKey

TypesNamedAs(r) == {t \in SupportTypes : r.role # None /\ roles[r.role] = RoleName[t]}

LEMMA BackIs ==
  ASSUME NEW v, NEW r \in RowsAt(v)
  PROVE  BackToSupportType(r)
           = [type |-> r.type,
              subtype |-> IF TypesNamedAs(r) = {} THEN None ELSE CHOOSE t \in TypesNamedAs(r) : TRUE,
              role |-> None]
<1> DEFINE s == IF TypesNamedAs(r) = {} THEN None ELSE CHOOSE t \in TypesNamedAs(r) : TRUE
<1>1. BackToSupportType(r) = [r EXCEPT !.subtype = s, !.role = None]
  BY DEF BackToSupportType, TypesNamedAs
<1> HIDE DEF s
<1>2. [r EXCEPT !.subtype = s, !.role = None] = [type |-> r.type, subtype |-> s, role |-> None]
  BY WriteRoles
<1> QED
  BY <1>1, <1>2 DEF s

\* 0003 makes rows of version 3 ...
LEMMA ConvertedRow ==
  ASSUME NEW r \in RowsAt(2)
  PROVE  /\ ConvertLegacySupervisor(r) \in RowsAt(3)
         /\ r.type # "support" =>
               (ConvertLegacySupervisor(r).type = "support"
                  <=> ConvertLegacySupervisor(r).subtype # None)
<1>1. "general" \in SupportTypes /\ "general" # None
  BY NamesOfTypes DEF SupportTypes
<1> QED
  BY <1>1, ConvertedIs DEF RowsAt, Types

\* ... of which going back makes the rows they were.
LEMMA ConvertedBack ==
  ASSUME NEW r \in RowsAt(2)
  PROVE  RevertLegacySupervisor(ConvertLegacySupervisor(r)) = r
<1> DEFINE row == ConvertLegacySupervisor(r)
<1>1. row \in RowsAt(3)
  BY ConvertedRow
<1>2. row = IF r.type = "supervisor"
              THEN [type |-> "support", subtype |-> "general", role |-> r.role] ELSE r
  BY ConvertedIs
<1>3. "general" # None
  BY NamesOfTypes DEF SupportTypes
<1> HIDE DEF row
<1>4. RevertLegacySupervisor(row)
        = [type |-> IF row.type = "support" /\ row.subtype = "general" THEN "supervisor" ELSE row.type,
           subtype |-> None, role |-> row.role]
  BY <1>1, RevertedIs
<1>5. r.subtype = None /\ r = [type |-> r.type, subtype |-> r.subtype, role |-> r.role]
  BY DEF RowsAt
<1>6. RevertLegacySupervisor(row) = r
  BY <1>2, <1>3, <1>4, <1>5
<1> QED
  BY <1>6 DEF row

LEMMA RevertedRow ==
  ASSUME NEW r \in RowsAt(3)
  PROVE  RevertLegacySupervisor(r) \in RowsAt(2)
  BY RevertedIs DEF RowsAt, Types

\* 0004 makes rows of version 4 that refer to a seeded role ...
LEMMA ReferringRow ==
  ASSUME NEW r \in RowsAt(3)
  PROVE  /\ ToForeignKey(r) \in RowsAt(4)
         /\ ToForeignKey(r).role = r.subtype /\ ToForeignKey(r).type = r.type
         /\ r.subtype # None => SeedDefaultSupportRoles[r.subtype] # None
<1>1. SupportTypes \subseteq RoleIds
  BY DEF RoleIds
<1>2. r.subtype \in SupportTypes \cup {None}
  BY DEF RowsAt
<1>3. r.subtype # None => SeedDefaultSupportRoles[r.subtype] # None
  BY <1>1, <1>2, NamesOfTypes DEF SeedDefaultSupportRoles
<1> QED
  BY <1>1, <1>3, ReferringIs DEF RowsAt, Types

\* ... and while its name is the seeded one, going back finds the type by it.
LEMMA ReferringBack ==
  ASSUME NEW r \in RowsAt(3), roles = SeedDefaultSupportRoles
  PROVE  BackToSupportType(ToForeignKey(r)) = r
<1> DEFINE row == ToForeignKey(r)
<1>1. row \in RowsAt(4) /\ row = [type |-> r.type, subtype |-> None, role |-> r.subtype]
  BY ReferringRow, ReferringIs
<1>2. r.subtype \in SupportTypes \cup {None} /\ r.role = None
      /\ r = [type |-> r.type, subtype |-> r.subtype, role |-> r.role]
  BY DEF RowsAt
<1> HIDE DEF row
<1>3. TypesNamedAs(row) = IF r.subtype = None THEN {} ELSE {r.subtype}
  BY <1>1, <1>2, NamesOfTypes DEF SeedDefaultSupportRoles, RoleIds, TypesNamedAs
<1>4. BackToSupportType(row)
        = [type |-> row.type,
           subtype |-> IF TypesNamedAs(row) = {} THEN None
                       ELSE CHOOSE t \in TypesNamedAs(row) : TRUE,
           role |-> None]
  BY <1>1, BackIs
<1>5. BackToSupportType(row) = r
  <2>1. CASE r.subtype = None
    BY <1>1, <1>2, <1>3, <1>4, <2>1
  <2>2. CASE r.subtype # None
    <3>1. (CHOOSE t \in {r.subtype} : TRUE) = r.subtype
      OBVIOUS
    <3> QED
      BY <1>1, <1>2, <1>3, <1>4, <2>2, <3>1
  <2> QED
    BY <2>1, <2>2
<1> QED
  BY <1>5 DEF row

\* Going back from whatever the roles are called by now.
LEMMA BackRow ==
  ASSUME NEW r \in RowsAt(4)
  PROVE  BackToSupportType(r) \in RowsAt(3)
<1> DEFINE s == IF TypesNamedAs(r) = {} THEN None ELSE CHOOSE t \in TypesNamedAs(r) : TRUE
<1>1. s \in SupportTypes \cup {None}
  <2>1. TypesNamedAs(r) # {} => (CHOOSE t \in TypesNamedAs(r) : TRUE) \in SupportTypes
    BY DEF TypesNamedAs
  <2> QED
    BY <2>1
<1>2. BackToSupportType(r) = [type |-> r.type, subtype |-> s, role |-> None]
  BY BackIs
<1> HIDE DEF s
<1>3. r.type \in Types(3)
  BY DEF RowsAt, Types
<1> QED
  BY <1>1, <1>2, <1>3 DEF RowsAt

----------------------------------------------------------------------------
(* The tables, one step at a time.                                         *)

LEMMA InitMigrationsInv == MigrationsInit => MigrationsInv
<1> SUFFICES ASSUME MigrationsInit PROVE MigrationsInv
  OBVIOUS
<1> USE DEF MigrationsInit
<1>1. [type : Types(2), subtype : {None}, role : {None}] \subseteq RowsAt(2)
  BY DEF RowsAt
<1>2. TableInv
  BY <1>1 DEF TableInv, RowsAt
<1>3. ArriveInv
  BY DEF ArriveInv, Consistent, Types
<1>4. SavedInv
  BY DEF SavedInv, Unsaved
<1> QED
  BY <1>2, <1>3, <1>4 DEF MigrationsInv

LEMMA Apply0003Inv == ASSUME MigrationsInv, Apply0003 PROVE MigrationsInv'
<1> USE DEF Apply0003
<1>1. /\ version = 2 /\ version' = 3 /\ users \in [Users -> RowsAt(2)]
      /\ users' = Converted(users) /\ roles' = roles /\ reverted' = reverted
  BY DEF MigrationsInv, TableInv, Converted
<1>2. users' \in [Users -> RowsAt(3)]
  BY <1>1, ConvertedRow DEF Converted
<1>3. TableInv'
  BY <1>1, <1>2 DEF MigrationsInv, TableInv, RowsAt
<1>4. ArriveInv'
  <2> SUFFICES ASSUME ~ reverted, NEW u \in Users PROVE Consistent(users[u])'
    BY <1>1 DEF ArriveInv
  <2>1. users[u] \in RowsAt(2) /\ users[u].type # "support"
    BY <1>1 DEF MigrationsInv, ArriveInv, Consistent, RowsAt
  <2>2. users'[u] = ConvertLegacySupervisor(users[u])
    BY <1>1 DEF Converted
  <2> QED
    BY <1>1, <2>1, <2>2, ConvertedRow DEF Consistent
<1>5. /\ saved \in [2 .. 3 -> {<<>>} \cup [Users -> RowsAt(2)] \cup [Users -> RowsAt(3)]]
      /\ saved' = [saved EXCEPT ![2] = users]
  BY DEF MigrationsInv, SavedInv
<1>6. SavedInv'
  BY <1>1, <1>5 DEF SavedInv
<1> QED
  BY <1>3, <1>4, <1>6 DEF MigrationsInv

LEMMA Revert0003Inv == ASSUME MigrationsInv, Revert0003 PROVE MigrationsInv'
<1> USE DEF Revert0003
<1>1. /\ version = 3 /\ version' = 2 /\ users \in [Users -> RowsAt(3)]
      /\ users' = [u \in Users |-> RevertLegacySupervisor(users[u])]
      /\ roles' = roles /\ saved' = saved /\ reverted'
  BY DEF MigrationsInv, TableInv
<1>2. users' \in [Users -> RowsAt(2)]
  BY <1>1, RevertedRow
<1>3. TableInv'
  BY <1>1, <1>2 DEF MigrationsInv, TableInv, RowsAt
<1>4. ArriveInv'
  BY <1>1 DEF ArriveInv
<1>5. SavedInv'
  BY <1>1 DEF MigrationsInv, SavedInv
<1> QED
  BY <1>3, <1>4, <1>5 DEF MigrationsInv

LEMMA Apply0004Inv == ASSUME MigrationsInv, Apply0004 PROVE MigrationsInv'
<1> USE DEF Apply0004
<1>1. /\ version = 3 /\ version' = 4 /\ users \in [Users -> RowsAt(3)]
      /\ users' = Referring(users) /\ roles' = SeedDefaultSupportRoles
      /\ saved' = [saved EXCEPT ![3] = users] /\ reverted' = reverted
  BY DEF MigrationsInv, TableInv, Referring
<1>2. users' \in [Users -> RowsAt(4)]
  BY <1>1, ReferringRow DEF Referring
<1>3. ASSUME NEW u \in Users
      PROVE  /\ users'[u].type = users[u].type /\ users'[u].role = users[u].subtype
             /\ users'[u].role # None => roles'[users'[u].role] # None
  BY <1>1, ReferringRow DEF Referring
<1>4. roles' \in [RoleIds -> Names \cup {None}]
  BY <1>1 DEF SeedDefaultSupportRoles, Names
<1>5. TableInv'
  BY <1>1, <1>2, <1>3, <1>4 DEF TableInv
<1>6. ArriveInv'
  BY <1>1, <1>3 DEF MigrationsInv, ArriveInv, Consistent
<1>7. SavedInv'
  <2>1. /\ saved \in [2 .. 3 -> {<<>>} \cup [Users -> RowsAt(2)] \cup [Users -> RowsAt(3)]]
        /\ saved[2] # <<>> =>
              saved[2] \in [Users -> RowsAt(2)] /\ Converted(saved[2]) = users
    BY <1>1 DEF MigrationsInv, SavedInv
  <2>2. /\ saved' \in [2 .. 3 -> {<<>>} \cup [Users -> RowsAt(2)] \cup [Users -> RowsAt(3)]]
        /\ saved'[2] = saved[2] /\ saved'[3] = users
    BY <1>1, <2>1
  <2> QED
    BY <1>1, <2>1, <2>2 DEF SavedInv, Converted, Referring
<1> QED
  BY <1>5, <1>6, <1>7 DEF MigrationsInv

LEMMA Revert0004Inv == ASSUME MigrationsInv, Revert0004 PROVE MigrationsInv'
<1> USE DEF Revert0004
<1>1. /\ version = 4 /\ version' = 3 /\ users \in [Users -> RowsAt(4)]
      /\ users' = [u \in Users |-> BackToSupportType(users[u])]
      /\ roles' = [r \in RoleIds |-> None] /\ saved' = saved /\ reverted'
  BY DEF MigrationsInv, TableInv
<1>2. users' \in [Users -> RowsAt(3)]
  BY <1>1, BackRow
<1>3. TableInv'
  BY <1>1, <1>2 DEF TableInv, RowsAt
<1>4. ArriveInv'
  BY <1>1 DEF ArriveInv
<1>5. SavedInv'
  <2>1. ASSUME saved[2] # <<>> PROVE users' = saved[3]
    <3>1. /\ saved[3] \in [Users -> RowsAt(3)] /\ users = Referring(saved[3])
          /\ roles = SeedDefaultSupportRoles
      BY <1>1, <2>1 DEF MigrationsInv, SavedInv, Unsaved
    <3>2. \A u \in Users : BackToSupportType(users[u]) = saved[3][u]
      BY <3>1, ReferringBack DEF Referring
    <3> QED
      BY <1>1, <3>1, <3>2
  <2> QED
    BY <1>1, <2>1 DEF MigrationsInv, SavedInv, Converted
<1> QED
  BY <1>3, <1>4, <1>5 DEF MigrationsInv

\* Nothing is saved once somebody changed a role.
LEMMA UnsavedInv == ASSUME saved' = Unsaved PROVE SavedInv'
  BY DEF SavedInv, Unsaved

LEMMA ChangeRoleInv == ASSUME MigrationsInv, NEW u \in Users, ChangeRole(u) PROVE MigrationsInv'
<1> USE DEF ChangeRole
<1>1. PICK t \in Types(version), s \in SupportTypes \cup {None}, r \in RoleIds \cup {None} :
        /\ version # 3 => s = None
        /\ version # 4 => r = None
        /\ r # None => roles[r] # None
        /\ users' = [users EXCEPT ![u] = [type |-> t, subtype |-> s, role |-> r]]
        /\ version > 2 => Consistent([type |-> t, subtype |-> s, role |-> r])
  OBVIOUS
<1> DEFINE row == [type |-> t, subtype |-> s, role |-> r]
<1>2. /\ row \in RowsAt(version) /\ row.role = r
      /\ Consistent(row)
  BY <1>1 DEF MigrationsInv, TableInv, RowsAt, Consistent, Types
<1> HIDE DEF row
<1>3. users \in [Users -> RowsAt(version)] /\ users' = [users EXCEPT ![u] = row]
      /\ UNCHANGED <<version, roles, reverted>>
  BY <1>1 DEF MigrationsInv, TableInv, row
<1>4. TableInv'
  BY <1>1, <1>2, <1>3 DEF MigrationsInv, TableInv
<1>5. ArriveInv'
  BY <1>2, <1>3 DEF MigrationsInv, ArriveInv, Consistent
<1> QED
  BY <1>4, <1>5, UnsavedInv DEF MigrationsInv

LEMMA NameRoleInv == ASSUME MigrationsInv, NEW r \in RoleIds, NameRole(r) PROVE MigrationsInv'
<1> USE DEF NameRole
<1>1. None \notin Names
  BY MigrationsAssumption DEF Names
<1>2. PICK n \in Names : roles' = [roles EXCEPT ![r] = n]
  BY DEF Names
<1>3. TableInv'
  BY <1>1, <1>2 DEF MigrationsInv, TableInv, RowsAt
<1>4. ArriveInv'
  BY DEF MigrationsInv, ArriveInv, Consistent
<1> QED
  BY <1>3, <1>4, UnsavedInv DEF MigrationsInv

LEMMA DeleteRoleInv == ASSUME MigrationsInv, NEW r \in RoleIds, DeleteRole(r) PROVE MigrationsInv'
<1> USE DEF DeleteRole
<1>1. TableInv'
  BY DEF MigrationsInv, TableInv, RowsAt
<1>2. ArriveInv'
  BY DEF MigrationsInv, ArriveInv, Consistent
<1> QED
  BY <1>1, <1>2, UnsavedInv DEF MigrationsInv

LEMMA NextMigrationsInv == MigrationsInv /\ [MigrationsNext]_migrationVars => MigrationsInv'
<1> SUFFICES ASSUME MigrationsInv, [MigrationsNext]_migrationVars PROVE MigrationsInv'
  OBVIOUS
<1>1. CASE Apply0003 \/ Apply0004 \/ Revert0004 \/ Revert0003
  BY <1>1, Apply0003Inv, Apply0004Inv, Revert0004Inv, Revert0003Inv
<1>2. CASE \E u \in Users : ChangeRole(u)
  BY <1>2, ChangeRoleInv
<1>3. CASE \E r \in RoleIds : NameRole(r) \/ DeleteRole(r)
  BY <1>3, NameRoleInv, DeleteRoleInv
<1>4. CASE UNCHANGED migrationVars
  BY <1>4 DEF migrationVars, MigrationsInv, TableInv, ArriveInv, Consistent, SavedInv
<1> QED
  BY <1>1, <1>2, <1>3, <1>4 DEF MigrationsNext

LEMMA AlwaysMigrationsInv == MigrationsSpec => []MigrationsInv
  BY InitMigrationsInv, NextMigrationsInv, PTL DEF MigrationsSpec

----------------------------------------------------------------------------

\* Columns hold nothing at the versions that do not have them, and a reference
\* is to a role that exists, whatever is applied, undone and changed.
THEOREM MigrationsTypeCorrect == MigrationsSpec => []MigrationsTypeOK
<1>1. MigrationsInv => MigrationsTypeOK
  BY DEF MigrationsInv, TableInv, MigrationsTypeOK, RowsAt, Types
<1> QED
  BY <1>1, AlwaysMigrationsInv, PTL

\* From 0003 on nobody has the legacy type (0003, lines 10 and 56-57).
THEOREM LegacyRoleIsGone == MigrationsSpec => []NoLegacyRole
<1>1. MigrationsInv => NoLegacyRole
  BY DEF MigrationsInv, TableInv, NoLegacyRole, RowsAt, Types
<1> QED
  BY <1>1, AlwaysMigrationsInv, PTL

\* Until somebody migrates backward, support is exactly those with a support
\* type or role, at each release and however people change roles in between.
THEOREM RowsArriveConsistent == MigrationsSpec => []ArriveConsistent
<1>1. MigrationsInv => ArriveConsistent
  BY DEF MigrationsInv, ArriveInv, ArriveConsistent
<1> QED
  BY <1>1, AlwaysMigrationsInv, PTL

\* Each of the two migrations, and the two together, undone before anybody
\* changes a role give back every row (0004, lines 22 and 59-60).
THEOREM MigrationsRoundTrip == MigrationsSpec => RoundTrip
<1> DEFINE Given == version' < version /\ saved[version'] # <<>> => users' = saved[version']
<1>1. MigrationsInv /\ [MigrationsNext]_migrationVars => [Given]_migrationVars
  <2> SUFFICES ASSUME MigrationsInv, MigrationsNext, version' < version, saved[version'] # <<>>
               PROVE  users' = saved[version']
    OBVIOUS
  <2>0. version \in 2 .. 4
    BY DEF MigrationsInv, TableInv
  <2>1. CASE Revert0003
    <3>1. saved[2] \in [Users -> RowsAt(2)] /\ Converted(saved[2]) = users
      BY <2>1 DEF Revert0003, MigrationsInv, SavedInv
    <3>2. \A u \in Users : RevertLegacySupervisor(users[u]) = saved[2][u]
      BY <3>1, ConvertedBack DEF Converted
    <3> QED
      BY <2>1, <3>1, <3>2 DEF Revert0003
  <2>2. CASE Revert0004
    <3>1. /\ saved[3] \in [Users -> RowsAt(3)] /\ users = Referring(saved[3])
          /\ roles = SeedDefaultSupportRoles
      BY <2>2 DEF Revert0004, MigrationsInv, SavedInv, Unsaved
    <3>2. \A u \in Users : BackToSupportType(users[u]) = saved[3][u]
      BY <3>1, ReferringBack DEF Referring
    <3> QED
      BY <2>2, <3>1, <3>2 DEF Revert0004
  <2>3. CASE Apply0003 \/ Apply0004
    BY <2>3 DEF Apply0003, Apply0004
  <2>4. CASE \E u \in Users : ChangeRole(u)
    BY <2>0, <2>4 DEF ChangeRole
  <2>5. CASE \E r \in RoleIds : NameRole(r) \/ DeleteRole(r)
    BY <2>0, <2>5 DEF NameRole, DeleteRole
  <2> QED
    BY <2>1, <2>2, <2>3, <2>4, <2>5 DEF MigrationsNext
<1> QED
  BY <1>1, AlwaysMigrationsInv, PTL DEF MigrationsSpec, RoundTrip
=============================================================================
