------------------------------- MODULE Roles -------------------------------
(***************************************************************************)
(* Who has which role: User.user_type and User.support_role, the table of  *)
(* support roles, and the endpoints of the chief admin over both:          *)
(* ChangeUserRoleView, SupportRoleListCreateView, SupportRoleDetailView,   *)
(* their serializers, and the forms of the admin panel.                    *)
(*                                                                         *)
(* A request advances by one query at a time and no transaction spans its  *)
(* queries.  What the database itself guarantees (a foreign key, a unique  *)
(* name) is asked where a row is written.  A request is in Next from the   *)
(* moment its caller was found to be an admin: one of anybody else is      *)
(* answered 403 and changes nothing.                                       *)
(***************************************************************************)
EXTENDS Integers, FiniteSets

CONSTANTS
    Workers,
    Users,
    RoleIds,       \* bound: support roles ever made
    Names,
    NoRole,        \* support_role is NULL
    NoRow,         \* there is no support role with the id
    Missing,       \* a field the request does not carry
    Panel          \* whether the staff works in the admin panel as well

ASSUME RolesAssumption ==
    /\ NoRole \notin RoleIds
    /\ Missing \notin Names \cup BOOLEAN
    /\ Panel \in BOOLEAN

\* "student" stands for instructor and teaching_assistant too: nothing here
\* tells the three apart.
UserType == {"student", "admin", "support"}

ASSUME MissingType == Missing \notin UserType

Row == [name : Names, active : BOOLEAN]

ASSUME NoRowAssumption == NoRow \notin Row

VARIABLES
    users,    \* users[u]: user_type, support_role and is_superuser of a row
    roles,    \* roles[r]: the row of support role r, or NoRow
    made,     \* ids given to a support role so far
    req       \* req[w]: the request worker w serves

rolesVars == <<users, roles, made, req>>

Exists(r) == roles[r] # NoRow
Active(r) == Exists(r) /\ roles[r].active
Assigned(r) == \E u \in Users : users[u].role = r

NameFree(n, except) == \A r \in RoleIds \ {except} : Exists(r) => roles[r].name # n

\* The rule User.clean and ChangeUserRoleSerializer.validate both check.
Consistent(type, r) == type = "support" <=> r # NoRole

IsAdminRole(u) == users[u].type = "admin" \/ users[u].super

----------------------------------------------------------------------------
(* Requests.                                                               *)

Assign(u, t, r) == [op |-> "assign", user |-> u, type |-> t, role |-> r]
Create(n, a) == [op |-> "create", name |-> n, active |-> a]
Edit(r, n, a) == [op |-> "edit", role |-> r, name |-> n, active |-> a]
Delete(r) == [op |-> "delete", role |-> r]

Forms ==
    {Assign(u, t, r) : u \in Users, t \in UserType \cup {Missing}, r \in RoleIds \cup {NoRole}}
    \cup {Create(n, a) : n \in Names, a \in BOOLEAN}
    \cup {Edit(r, n, a) : r \in RoleIds, n \in Names \cup {Missing}, a \in BOOLEAN \cup {Missing}}
    \cup {Delete(r) : r \in RoleIds}

NoForm == [op |-> "none"]

Steps == {"pick", "write", "check_name", "insert", "load", "check_rename", "store",
          "find", "collect", "delete"}
Outcomes == {"ok", "rejected", "conflict", "failed"}    \* 2xx, 400 or 404, 409, 500

At(step, caller, form, row) == [at |-> step, caller |-> caller, form |-> form, row |-> row]

NoRequest == At("idle", NoRole, NoForm, NoRow)

Goto(w, step) == req' = [req EXCEPT ![w].at = step]

Finish(w, outcome) == req' = [req EXCEPT ![w] = At(outcome, NoRole, NoForm, NoRow)]

\* A check on what is stored, without a change.
Check(w, step, next, otherwise, passes) ==
    /\ req[w].at = step
    /\ IF passes THEN Goto(w, next) ELSE Finish(w, otherwise)
    /\ UNCHANGED <<users, roles, made>>

FirstStep(form) ==
    CASE form.op = "assign" -> "pick" [] form.op = "create" -> "check_name"
      [] form.op = "edit" -> "load"   [] form.op = "delete" -> "find"

RolesInit ==
    /\ users \in [Users -> [type : {"student", "admin"}, role : {NoRole}, super : BOOLEAN]]
    /\ \E u \in Users : IsAdminRole(u)
    /\ roles = [r \in RoleIds |-> NoRow]
    /\ made = {}
    /\ req = [w \in Workers |-> NoRequest]

Submit(w, caller, form) ==
    /\ req[w] = NoRequest
    /\ IsAdminRole(caller)
    /\ req' = [req EXCEPT ![w] = At(FirstStep(form), caller, form, NoRow)]
    /\ UNCHANGED <<users, roles, made>>

----------------------------------------------------------------------------
(* ChangeUserRoleSerializer.                                               *)

Selectable(r) == r = NoRole \/ Active(r)

\* The queryset of support_role_id, then validate.
PickRole(w) ==
    LET f == req[w].form IN
    /\ f.op = "assign" /\ f.type # Missing
    /\ Check(w, "pick", "write", "rejected", Selectable(f.role) /\ Consistent(f.type, f.role))

\* PATCH makes no field mandatory, and validate reads user_type all the same.
PickFails(w) ==
    LET f == req[w].form IN
    /\ f.op = "assign" /\ f.type = Missing
    /\ req[w].at = "pick"
    /\ Finish(w, IF Selectable(f.role) THEN "failed" ELSE "rejected")
    /\ UNCHANGED <<users, roles, made>>

\* Mutant: support_role is missing from update_fields.
WriteTypeOnly(w) ==
    /\ req[w].at = "write"
    /\ users' = [users EXCEPT ![req[w].form.user].type = req[w].form.type]
    /\ Finish(w, "ok")
    /\ UNCHANGED <<roles, made>>

WriteRole(w) ==
    LET f == req[w].form IN
    /\ req[w].at = "write"
    /\ f.role # NoRole => Exists(f.role)
    /\ users' = [users EXCEPT ![f.user].type = f.type, ![f.user].role = f.role]
    /\ Finish(w, "ok")
    /\ UNCHANGED <<roles, made>>

\* The row the foreign key names is gone.
WriteRoleFails(w) ==
    /\ req[w].at = "write"
    /\ req[w].form.role # NoRole /\ ~ Exists(req[w].form.role)
    /\ Finish(w, "failed")
    /\ UNCHANGED <<users, roles, made>>

----------------------------------------------------------------------------
(* SupportRoleSerializer: create and update.                               *)

CheckName(w) ==
    /\ req[w].form.op = "create"
    /\ Check(w, "check_name", "insert", "rejected", NameFree(req[w].form.name, NoRole))

InsertRole(w) ==
    LET f == req[w].form IN
    /\ req[w].at = "insert"
    /\ NameFree(f.name, NoRole)
    /\ \E r \in RoleIds \ made :
        /\ roles' = [roles EXCEPT ![r] = [name |-> f.name, active |-> f.active]]
        /\ made' = made \cup {r}
    /\ Finish(w, "ok")
    /\ UNCHANGED users

InsertFails(w) ==
    /\ req[w].at = "insert"
    /\ ~ NameFree(req[w].form.name, NoRole)
    /\ Finish(w, "failed")
    /\ UNCHANGED <<users, roles, made>>

LoadRole(w) ==
    LET r == req[w].form.role IN
    /\ req[w].at = "load"
    /\ IF Exists(r)
         THEN req' = [req EXCEPT ![w].at = "check_rename", ![w].row = roles[r]]
         ELSE Finish(w, "rejected")
    /\ UNCHANGED <<users, roles, made>>

CheckRename(w) ==
    LET f == req[w].form IN
    /\ f.op = "edit"
    /\ Check(w, "check_rename", "store", "rejected",
             f.name # Missing => NameFree(f.name, f.role))

Edited(w) ==
    LET f == req[w].form IN
    [name |-> IF f.name = Missing THEN req[w].row.name ELSE f.name,
     active |-> IF f.active = Missing THEN req[w].row.active ELSE f.active]

\* instance.save() writes every column of the row it loaded; when the row is
\* gone by now, Django inserts it again.
StoreRole(w) ==
    LET r == req[w].form.role IN
    /\ req[w].at = "store"
    /\ NameFree(Edited(w).name, r)
    /\ roles' = [roles EXCEPT ![r] = Edited(w)]
    /\ Finish(w, "ok")
    /\ UNCHANGED <<users, made>>

StoreFails(w) ==
    /\ req[w].at = "store"
    /\ ~ NameFree(Edited(w).name, req[w].form.role)
    /\ Finish(w, "failed")
    /\ UNCHANGED <<users, roles, made>>

----------------------------------------------------------------------------
(* SupportRoleDetailView.destroy.                                          *)

FindRole(w) ==
    /\ req[w].form.op = "delete"
    /\ Check(w, "find", "collect", "rejected", Exists(req[w].form.role))

\* PROTECT: the collector looks for users of the role before anything is
\* deleted; ProtectedError is answered 409.
CollectUsers(w) ==
    /\ req[w].form.op = "delete"
    /\ Check(w, "collect", "delete", "conflict", ~ Assigned(req[w].form.role))

\* Mutant: the foreign key does not protect the row.
DeleteUnprotected(w) ==
    /\ req[w].at = "delete"
    /\ roles' = [roles EXCEPT ![req[w].form.role] = NoRow]
    /\ Finish(w, "ok")
    /\ UNCHANGED <<users, made>>

DeleteRole(w) ==
    /\ req[w].at = "delete"
    /\ ~ Assigned(req[w].form.role)
    /\ roles' = [roles EXCEPT ![req[w].form.role] = NoRow]
    /\ Finish(w, "ok")
    /\ UNCHANGED <<users, made>>

\* IntegrityError, which is not a ProtectedError.
DeleteFails(w) ==
    /\ req[w].at = "delete"
    /\ Assigned(req[w].form.role)
    /\ Finish(w, "failed")
    /\ UNCHANGED <<users, roles, made>>

----------------------------------------------------------------------------

Respond(w) ==
    /\ req[w].at \in Outcomes
    /\ req' = [req EXCEPT ![w] = NoRequest]
    /\ UNCHANGED <<users, roles, made>>

Die(w) ==
    /\ req[w].at \in Steps
    /\ req' = [req EXCEPT ![w] = NoRequest]
    /\ UNCHANGED <<users, roles, made>>

\* The user form of the panel saves in a transaction.  It runs User.clean; its
\* support_role field offers every stored role.
SaveUserForm(u, t, r) ==
    /\ Panel
    /\ r # NoRole => Exists(r)
    /\ Consistent(t, r)
    /\ users' = [users EXCEPT ![u].type = t, ![u].role = r]
    /\ UNCHANGED <<roles, made, req>>

\* SupportRoleAdmin: the form of a new role, or of one that is stored.
SaveRoleForm(r, n, a) ==
    /\ Panel
    /\ r \in made => Exists(r)
    /\ NameFree(n, r)
    /\ roles' = [roles EXCEPT ![r] = [name |-> n, active |-> a]]
    /\ made' = made \cup {r}
    /\ UNCHANGED <<users, req>>

\* The panel refuses to delete what PROTECT holds.
DeleteRoleForm(r) ==
    /\ Panel
    /\ Exists(r) /\ ~ Assigned(r)
    /\ roles' = [roles EXCEPT ![r] = NoRow]
    /\ UNCHANGED <<users, made, req>>

AssignStep(w) == PickRole(w) \/ PickFails(w) \/ WriteRole(w) \/ WriteRoleFails(w)
CreateStep(w) == CheckName(w) \/ InsertRole(w) \/ InsertFails(w)
EditStep(w) == LoadRole(w) \/ CheckRename(w) \/ StoreRole(w) \/ StoreFails(w)
DeleteStep(w) == FindRole(w) \/ CollectUsers(w) \/ DeleteRole(w) \/ DeleteFails(w)

RolesNext ==
    \/ \E w \in Workers :
        \/ \E u \in Users, f \in Forms : Submit(w, u, f)
        \/ AssignStep(w) \/ CreateStep(w) \/ EditStep(w) \/ DeleteStep(w)
        \/ Respond(w) \/ Die(w)
    \/ \E u \in Users, t \in UserType, r \in RoleIds \cup {NoRole} : SaveUserForm(u, t, r)
    \/ \E r \in RoleIds :
        DeleteRoleForm(r) \/ \E n \in Names, a \in BOOLEAN : SaveRoleForm(r, n, a)

RolesSpec == RolesInit /\ [][RolesNext]_rolesVars

----------------------------------------------------------------------------
(* Properties.                                                             *)

\* Type invariant: every support_role names a stored row, and rows have names
\* of their own.
RolesTypeOK ==
    /\ users \in [Users -> [type : UserType, role : RoleIds \cup {NoRole}, super : BOOLEAN]]
    /\ roles \in [RoleIds -> Row \cup {NoRow}]
    /\ made \in SUBSET RoleIds
    /\ \A w \in Workers :
        /\ req[w].at \in {"idle"} \cup Steps \cup Outcomes
        /\ req[w].form \in Forms \cup {NoForm}
        /\ req[w].row \in Row \cup {NoRow}
    /\ \A r \in RoleIds : Exists(r) => r \in made /\ NameFree(roles[r].name, r)
    /\ \A u \in Users : users[u].role # NoRole => Exists(users[u].role)

\* A user has a support role exactly when the user is support, whichever of the
\* two places that check the rule wrote the row and whatever ran in between.
SupportHasRole == \A u \in Users : Consistent(users[u].type, users[u].role)
=============================================================================
