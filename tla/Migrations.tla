---------------------------- MODULE Migrations ----------------------------
(***************************************************************************)
(* The data migrations of the roles: 0003_teaching_assistant_and_support_- *)
(* roles and 0004_support_role_fk, forward and backward, between them what *)
(* the release of each version lets people do with roles.                  *)
(*                                                                         *)
(* The database is PostgreSQL, so a migration is one transaction: it is    *)
(* applied whole or not at all, and its operations compose into one step.  *)
(***************************************************************************)
EXTENDS Integers, FiniteSets

CONSTANTS
    Users,
    ExtraIds,      \* bound: support roles defined besides the three seeded
    ExtraNames,    \* names for them
    None           \* NULL, or a column that does not exist

SupportTypes == {"technical", "financial", "general"}

\* LEGACY_SUPPORT_TYPE_TO_ROLE_NAME; the names are Persian words.
RoleName == [technical |-> "fanni", financial |-> "mali", general |-> "omumi"]

ASSUME MigrationsAssumption ==
    /\ None \notin SupportTypes \cup ExtraIds \cup ExtraNames
    /\ None \notin {RoleName[t] : t \in SupportTypes}
    /\ ExtraIds \cap SupportTypes = {}

\* The seeded rows go by the type they replace; a seeded table is always new.
RoleIds == SupportTypes \cup ExtraIds

VARIABLES
    version,    \* the last migration applied
    users,      \* users[u]: user_type, support_type, support_role_id
    roles,      \* roles[r]: name of support role r, or None
    saved,      \* saved[v]: the users when v was left forward, if nobody
                \* changed a role since (history)
    reverted    \* whether anybody ever migrated backward (history)

migrationVars == <<version, users, roles, saved, reverted>>

\* "student" stands for the other types, which no migration tells apart.
Types(v) == IF v = 2 THEN {"student", "supervisor"} ELSE {"student", "support"}

Consistent(user) ==
    IF version = 4 THEN user.type = "support" <=> user.role # None
                   ELSE user.type = "support" <=> user.subtype # None

Unsaved == [v \in 2 .. 3 |-> <<>>]

MigrationsInit ==
    /\ version = 2
    /\ users \in [Users -> [type : Types(2), subtype : {None}, role : {None}]]
    /\ roles = [r \in RoleIds |-> None]
    /\ saved = Unsaved
    /\ reverted = FALSE

----------------------------------------------------------------------------
(* 0003: supervisor becomes support of the general type.                   *)

\* Mutant: the rows are left as they are.
KeepSupervisor(user) == user

ConvertLegacySupervisor(user) ==
    IF user.type = "supervisor"
      THEN [user EXCEPT !.type = "support", !.subtype = "general"]
      ELSE user

\* Mutant: only the converted rows lose their support_type.
RevertSupervisorsOnly(user) ==
    IF user.type = "support" /\ user.subtype = "general"
      THEN [user EXCEPT !.type = "supervisor", !.subtype = None]
      ELSE user

\* ... and back, then the column is dropped.
RevertLegacySupervisor(user) ==
    IF user.type = "support" /\ user.subtype = "general"
      THEN [user EXCEPT !.type = "supervisor", !.subtype = None]
      ELSE [user EXCEPT !.subtype = None]

Apply0003 ==
    /\ version = 2
    /\ version' = 3
    /\ users' = [u \in Users |-> ConvertLegacySupervisor(users[u])]
    /\ saved' = [saved EXCEPT ![2] = users]
    /\ UNCHANGED <<roles, reverted>>

Revert0003 ==
    /\ version = 3
    /\ version' = 2
    /\ users' = [u \in Users |-> RevertLegacySupervisor(users[u])]
    /\ reverted' = TRUE
    /\ UNCHANGED <<roles, saved>>

----------------------------------------------------------------------------
(* 0004: the type becomes a reference to a row with its name.              *)

SeedDefaultSupportRoles == [r \in RoleIds |-> IF r \in SupportTypes THEN RoleName[r] ELSE None]

\* Mutant: the general type is left out of the table of names.
ToForeignKeyButGeneral(user) ==
    [user EXCEPT !.role = IF user.subtype = "general" THEN None ELSE user.subtype,
                 !.subtype = None]

\* The row of the type's name, if any, then support_type is dropped.
ToForeignKey(user) == [user EXCEPT !.role = user.subtype, !.subtype = None]

\* The type whose name the role has by now, then support_role and the table
\* are dropped.
BackToSupportType(user) ==
    LET named == {t \in SupportTypes : user.role # None /\ roles[user.role] = RoleName[t]}
    IN [user EXCEPT !.subtype = IF named = {} THEN None ELSE CHOOSE t \in named : TRUE,
                    !.role = None]

Apply0004 ==
    /\ version = 3
    /\ version' = 4
    /\ roles' = SeedDefaultSupportRoles
    /\ users' = [u \in Users |-> ToForeignKey(users[u])]
    /\ saved' = [saved EXCEPT ![3] = users]
    /\ UNCHANGED reverted

Revert0004 ==
    /\ version = 4
    /\ version' = 3
    /\ users' = [u \in Users |-> BackToSupportType(users[u])]
    /\ roles' = [r \in RoleIds |-> None]
    /\ reverted' = TRUE
    /\ UNCHANGED saved

----------------------------------------------------------------------------
(* What the admins do in between.  Every release checks its rule.          *)

ChangeRole(u) ==
    /\ \E t \in Types(version), s \in SupportTypes \cup {None}, r \in RoleIds \cup {None} :
        /\ version # 3 => s = None
        /\ version # 4 => r = None
        /\ r # None => roles[r] # None
        /\ users' = [users EXCEPT ![u] = [type |-> t, subtype |-> s, role |-> r]]
        /\ version > 2 => Consistent([type |-> t, subtype |-> s, role |-> r])
    /\ saved' = Unsaved
    /\ UNCHANGED <<version, roles, reverted>>

NameFree(n) == \A r \in RoleIds : roles[r] # n

\* A new role, or a new name for one.
NameRole(r) ==
    /\ version = 4
    /\ r \in SupportTypes => roles[r] # None
    /\ \E n \in ExtraNames \cup {RoleName[t] : t \in SupportTypes} :
        NameFree(n) /\ roles' = [roles EXCEPT ![r] = n]
    /\ saved' = Unsaved
    /\ UNCHANGED <<version, users, reverted>>

DeleteRole(r) ==
    /\ version = 4
    /\ roles[r] # None
    /\ \A u \in Users : users[u].role # r
    /\ roles' = [roles EXCEPT ![r] = None]
    /\ saved' = Unsaved
    /\ UNCHANGED <<version, users, reverted>>

MigrationsNext ==
    \/ Apply0003 \/ Apply0004 \/ Revert0004 \/ Revert0003
    \/ \E u \in Users : ChangeRole(u)
    \/ \E r \in RoleIds : NameRole(r) \/ DeleteRole(r)

MigrationsSpec == MigrationsInit /\ [][MigrationsNext]_migrationVars

----------------------------------------------------------------------------
(* Properties.                                                             *)

\* Type invariant: a column holds nothing at the versions that do not have it.
MigrationsTypeOK ==
    /\ version \in 2 .. 4
    /\ \A u \in Users :
        /\ users[u].type \in {"student", "supervisor", "support"}
        /\ users[u].subtype \in SupportTypes \cup {None} /\ (version # 3 => users[u].subtype = None)
        /\ users[u].role \in RoleIds \cup {None} /\ (version # 4 => users[u].role = None)
        /\ users[u].role # None => roles[users[u].role] # None
    /\ \A r \in RoleIds : version # 4 => roles[r] = None

\* Nobody is left with the type 0003 does away with (its lines 10 and 56-57),
\* whatever was migrated back and forth before.
NoLegacyRole == version > 2 => \A u \in Users : users[u].type # "supervisor"

\* A migration that is undone before anybody changes a role gives back every
\* row as it was (0004, lines 22 and 59-60).
RoundTrip ==
    [][version' < version /\ saved[version'] # <<>> => users' = saved[version']]_migrationVars

\* As long as nobody migrated backward, the rows keep the rule of the release
\* they arrived at: support exactly for those with a support type or role, however
\* people changed roles before each migration.
ArriveConsistent ==
    version > 2 /\ ~ reverted => \A u \in Users : Consistent(users[u])
=============================================================================
