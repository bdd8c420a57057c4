---------------------------- MODULE RolesProofs ----------------------------
(***************************************************************************)
(* For any workers, users, names and support roles: Roles keeps its type   *)
(* invariant, in which every support_role names a stored row and names are *)
(* unique, and a user has a support role exactly when the user is support. *)
(*                                                                         *)
(* A change that passed PickRole is consistent by itself, so that it does  *)
(* not matter what ran before the write; the database keeps the rest.      *)
(***************************************************************************)
EXTENDS Roles, TLAPS

User == [type : UserType, role : RoleIds \cup {NoRole}, super : BOOLEAN]

\* What a request asks for, and the columns of the row it loaded.
AssignForm(f) ==
    f \in [op : {"assign"}, user : Users, type : UserType \cup {Missing},
           role : RoleIds \cup {NoRole}]
CreateForm(f) == f \in [op : {"create"}, name : Names, active : BOOLEAN]
EditForm(f) ==
    f \in [op : {"edit"}, role : RoleIds, name : Names \cup {Missing},
           active : BOOLEAN \cup {Missing}]
DeleteForm(f) == f \in [op : {"delete"}, role : RoleIds]

Request == [at : {"idle"} \cup Steps \cup Outcomes, caller : Users \cup {NoRole},
            form : Forms \cup {NoForm}, row : Row \cup {NoRow}]

GoodRequest(q) ==
    /\ q \in Request
    /\ q.at \in {"pick", "write"} => AssignForm(q.form)
    /\ q.at = "write" => q.form.type \in UserType /\ Consistent(q.form.type, q.form.role)
    /\ q.at \in {"check_name", "insert"} => CreateForm(q.form)
    /\ q.at \in {"load", "check_rename", "store"} => EditForm(q.form)
    /\ q.at \in {"check_rename", "store"} => q.row \in Row /\ q.form.role \in made
    /\ q.at \in {"find", "collect", "delete"} => DeleteForm(q.form)

RequestInv == req \in [Workers -> Request] /\ \A w \in Workers : GoodRequest(req[w])

UserInv == users \in [Users -> User] /\ SupportHasRole

RoleInv ==
    /\ roles \in [RoleIds -> Row \cup {NoRow}]
    /\ made \in SUBSET RoleIds
    /\ \A r \in RoleIds : Exists(r) => r \in made /\ NameFree(roles[r].name, r)

ForeignKeyInv == \A u \in Users : users[u].role # NoRole => Exists(users[u].role)

RolesInv == UserInv /\ RoleInv /\ ForeignKeyInv /\ RequestInv

----------------------------------------------------------------------------
(* Steps that change a request and nothing else.                           *)

Stored == <<users, roles, made>>

LEMMA StoredInv ==
  ASSUME RolesInv, UNCHANGED Stored PROVE UserInv' /\ RoleInv' /\ ForeignKeyInv'
  BY DEF RolesInv, Stored, UserInv, SupportHasRole, RoleInv, Exists, NameFree, ForeignKeyInv

\* A request is as good as it was while ids only get used up.
LEMMA ReplaceRequest ==
  ASSUME RolesInv, made \subseteq made', NEW w \in Workers, NEW q, GoodRequest(q),
         req' = [req EXCEPT ![w] = q]
  PROVE  RequestInv'
<1>1. req' \in [Workers -> Request]
  BY DEF RolesInv, RequestInv, GoodRequest
<1>2. ASSUME NEW v \in Workers PROVE GoodRequest(req[v])'
  <2>1. GoodRequest(req'[v])
    BY DEF RolesInv, RequestInv
  <2> QED
    BY <2>1 DEF GoodRequest
<1> QED
  BY <1>1, <1>2 DEF RequestInv

LEMMA RequestOf ==
  ASSUME RolesInv, NEW w \in Workers PROVE req[w] \in Request /\ GoodRequest(req[w])
  BY DEF RolesInv, RequestInv

LEMMA RestIsGood ==
  ASSUME NEW outcome \in {"idle"} \cup Outcomes PROVE GoodRequest(At(outcome, NoRole, NoForm, NoRow))
  BY DEF GoodRequest, Request, At, Outcomes

LEMMA FinishInv ==
  ASSUME RolesInv, made \subseteq made', NEW w \in Workers,
         NEW outcome \in Outcomes, Finish(w, outcome)
  PROVE  RequestInv'
  BY RestIsGood, ReplaceRequest DEF Finish

LEMMA GotoInv ==
  ASSUME RolesInv, UNCHANGED Stored, NEW w \in Workers, NEW step \in Steps, Goto(w, step),
         GoodRequest([req[w] EXCEPT !.at = step])
  PROVE  RolesInv'
<1>1. req' = [req EXCEPT ![w] = [req[w] EXCEPT !.at = step]]
  BY DEF Goto, RolesInv, RequestInv
<1> QED
  BY <1>1, StoredInv, ReplaceRequest DEF RolesInv, Stored

LEMMA CheckInv ==
  ASSUME RolesInv, NEW w \in Workers, NEW step, NEW next \in Steps, NEW otherwise \in Outcomes,
         NEW passes, Check(w, step, next, otherwise, passes),
         passes => GoodRequest([req[w] EXCEPT !.at = next])
  PROVE  RolesInv'
<1>1. UNCHANGED Stored
  BY DEF Check, Stored
<1>2. CASE passes
  BY <1>1, <1>2, GotoInv DEF Check
<1>3. CASE ~ passes
  BY <1>1, <1>3, StoredInv, FinishInv DEF Check, RolesInv, Stored
<1> QED
  BY <1>2, <1>3

LEMMA RefusalInv ==
  ASSUME RolesInv, UNCHANGED Stored, NEW w \in Workers,
         NEW outcome \in Outcomes, Finish(w, outcome)
  PROVE  RolesInv'
  BY StoredInv, FinishInv DEF RolesInv, Stored

LEMMA SubmitInv ==
  ASSUME RolesInv, NEW w \in Workers, NEW u \in Users, NEW f \in Forms, Submit(w, u, f)
  PROVE  RolesInv'
<1> DEFINE q == At(FirstStep(f), u, f, NoRow)
<1>1. GoodRequest(q)
  <2>1. CASE AssignForm(f)
    <3>1. FirstStep(f) = "pick"
      BY <2>1 DEF AssignForm, FirstStep
    <3> QED
      BY <2>1, <3>1 DEF GoodRequest, Request, At, Steps
  <2>2. CASE CreateForm(f)
    <3>1. FirstStep(f) = "check_name"
      BY <2>2 DEF CreateForm, FirstStep
    <3> QED
      BY <2>2, <3>1 DEF GoodRequest, Request, At, Steps
  <2>3. CASE EditForm(f)
    <3>1. FirstStep(f) = "load"
      BY <2>3 DEF EditForm, FirstStep
    <3> QED
      BY <2>3, <3>1 DEF GoodRequest, Request, At, Steps
  <2>4. CASE DeleteForm(f)
    <3>1. FirstStep(f) = "find"
      BY <2>4 DEF DeleteForm, FirstStep
    <3> QED
      BY <2>4, <3>1 DEF GoodRequest, Request, At, Steps
  <2>5. AssignForm(f) \/ CreateForm(f) \/ EditForm(f) \/ DeleteForm(f)
    BY DEF Forms, Assign, Create, Edit, Delete, AssignForm, CreateForm, EditForm, DeleteForm
  <2> QED
    BY <2>1, <2>2, <2>3, <2>4, <2>5
<1>2. req' = [req EXCEPT ![w] = q] /\ UNCHANGED Stored
  BY DEF Submit, Stored
<1> HIDE DEF q
<1> QED
  BY <1>1, <1>2, StoredInv, ReplaceRequest DEF RolesInv, Stored

----------------------------------------------------------------------------
(* Giving a role.                                                          *)

\* Whoever writes a user writes a consistent pair and a stored role.
LEMMA WriteUser ==
  ASSUME RolesInv, UNCHANGED <<roles, made>>, NEW u \in Users, NEW t \in UserType,
         NEW r \in RoleIds \cup {NoRole}, Consistent(t, r), r # NoRole => Exists(r),
         users' = [users EXCEPT ![u].type = t, ![u].role = r]
  PROVE  UserInv' /\ RoleInv' /\ ForeignKeyInv'
<1> USE DEF RolesInv
<1>1. PICK row : row = [users[u] EXCEPT !.type = t, !.role = r]
  OBVIOUS
<1>2. users[u] \in User
  BY DEF UserInv
<1>3. row \in User /\ row.type = t /\ row.role = r
  BY <1>1, <1>2 DEF User
<1>4. users' = [users EXCEPT ![u] = row]
  BY <1>1 DEF UserInv
<1>5. users'[u] = row /\ \A v \in Users \ {u} : users'[v] = users[v]
  BY <1>4 DEF UserInv
<1>6. UserInv'
  BY <1>3, <1>4, <1>5 DEF UserInv, SupportHasRole, Consistent
<1>7. RoleInv'
  BY DEF RoleInv, Exists, NameFree
<1>8. ForeignKeyInv'
  BY <1>3, <1>5 DEF ForeignKeyInv, Exists
<1> QED
  BY <1>6, <1>7, <1>8

LEMMA AssignStepInv ==
  ASSUME RolesInv, NEW w \in Workers, AssignStep(w) PROVE RolesInv'
<1> DEFINE f == req[w].form
<1>1. req[w] \in Request /\ GoodRequest(req[w])
  BY RequestOf
<1>2. CASE PickRole(w)
  <2>1. CASE Selectable(f.role) /\ Consistent(f.type, f.role)
    <3>1. req[w].at = "pick" /\ AssignForm(f) /\ f.type \in UserType
      BY <1>1, <1>2 DEF PickRole, Check, GoodRequest, AssignForm
    <3>2. GoodRequest([req[w] EXCEPT !.at = "write"])
      BY <1>1, <2>1, <3>1 DEF GoodRequest, Request, Steps
    <3> QED
      BY <1>2, <3>2, CheckInv DEF PickRole, Steps, Outcomes
  <2>2. CASE ~ (Selectable(f.role) /\ Consistent(f.type, f.role))
    BY <1>2, <2>2, CheckInv DEF PickRole, Steps, Outcomes
  <2> QED
    BY <2>1, <2>2
<1>3. CASE PickFails(w)
  <2>1. \E outcome \in Outcomes : Finish(w, outcome)
    BY <1>3 DEF PickFails, Outcomes
  <2> QED
    BY <1>3, <2>1, RefusalInv DEF PickFails, Stored
<1>4. CASE WriteRole(w)
  <2>1. /\ f.user \in Users /\ f.type \in UserType /\ f.role \in RoleIds \cup {NoRole}
        /\ Consistent(f.type, f.role)
    BY <1>1, <1>4 DEF WriteRole, GoodRequest, AssignForm
  <2>2. UserInv' /\ RoleInv' /\ ForeignKeyInv'
    BY <1>4, <2>1, WriteUser DEF WriteRole
  <2>3. RequestInv'
    BY <1>4, FinishInv DEF WriteRole, Outcomes
  <2> QED
    BY <2>2, <2>3 DEF RolesInv
<1>5. CASE WriteRoleFails(w)
  BY <1>5, RefusalInv DEF WriteRoleFails, Outcomes, Stored
<1> QED
  BY <1>2, <1>3, <1>4, <1>5 DEF AssignStep

LEMMA SaveUserFormInv ==
  ASSUME RolesInv, NEW u \in Users, NEW t \in UserType, NEW r \in RoleIds \cup {NoRole},
         SaveUserForm(u, t, r)
  PROVE  RolesInv'
<1>1. UserInv' /\ RoleInv' /\ ForeignKeyInv'
  BY WriteUser DEF SaveUserForm
<1>2. RequestInv'
  BY DEF SaveUserForm, RolesInv, RequestInv, GoodRequest
<1> QED
  BY <1>1, <1>2 DEF RolesInv

----------------------------------------------------------------------------
(* Support roles.                                                          *)

\* A stored row has an id that was given and a name of its own; it may be new,
\* changed or back.
LEMMA WriteRoleRow ==
  ASSUME RolesInv, UNCHANGED users, NEW r \in RoleIds, NEW row \in Row,
         roles' = [roles EXCEPT ![r] = row], NameFree(row.name, r),
         made' \in SUBSET RoleIds, made \cup {r} \subseteq made'
  PROVE  UserInv' /\ RoleInv' /\ ForeignKeyInv'
<1> USE DEF RolesInv
<1>1. /\ roles'[r] = row /\ \A s \in RoleIds \ {r} : roles'[s] = roles[s]
      /\ roles' \in [RoleIds -> Row \cup {NoRow}] /\ row # NoRow
  BY NoRowAssumption DEF RoleInv
<1>2. ASSUME NEW s \in RoleIds, Exists(s)'
      PROVE  s \in made' /\ NameFree(roles[s].name, s)'
  <2>1. CASE s = r
    BY <1>1, <2>1 DEF NameFree, Exists
  <2>2. CASE s # r
    <3>1. Exists(s) /\ roles'[s] = roles[s] /\ s \in made /\ NameFree(roles[s].name, s)
      BY <1>1, <1>2, <2>2 DEF Exists, RoleInv
    <3>2. roles[s].name # row.name
      BY <2>2, <3>1 DEF NameFree
    <3> QED
      BY <1>1, <3>1, <3>2 DEF NameFree, Exists
  <2> QED
    BY <2>1, <2>2
<1>3. RoleInv'
  BY <1>1, <1>2 DEF RoleInv
<1>4. UserInv'
  BY DEF UserInv, SupportHasRole
<1>5. ForeignKeyInv'
  BY <1>1 DEF ForeignKeyInv, Exists, UserInv, User
<1> QED
  BY <1>3, <1>4, <1>5

LEMMA CreateStepInv ==
  ASSUME RolesInv, NEW w \in Workers, CreateStep(w) PROVE RolesInv'
<1> DEFINE f == req[w].form
<1>1. req[w] \in Request /\ GoodRequest(req[w])
  BY RequestOf
<1>2. CASE CheckName(w)
  <2>1. req[w].at = "check_name"
    BY <1>2 DEF CheckName, Check
  <2>2. GoodRequest([req[w] EXCEPT !.at = "insert"])
    BY <1>1, <2>1 DEF GoodRequest, Request, Steps
  <2> QED
    BY <1>2, <2>2, CheckInv DEF CheckName, Steps, Outcomes
<1>3. CASE InsertRole(w)
  <2>1. CreateForm(f)
    BY <1>1, <1>3 DEF InsertRole, GoodRequest
  <2>2. PICK r \in RoleIds \ made :
          /\ roles' = [roles EXCEPT ![r] = [name |-> f.name, active |-> f.active]]
          /\ made' = made \cup {r}
    BY <1>3 DEF InsertRole
  <2>3. PICK row : row = [name |-> f.name, active |-> f.active]
    OBVIOUS
  <2>4. row \in Row /\ row.name = f.name
    BY <2>1, <2>3 DEF CreateForm, Row
  <2>5. NameFree(row.name, r)
    BY <1>3, <2>4, RolesAssumption DEF InsertRole, NameFree
  <2>6. UserInv' /\ RoleInv' /\ ForeignKeyInv'
    BY <1>3, <2>2, <2>3, <2>4, <2>5, WriteRoleRow DEF InsertRole, RolesInv, RoleInv
  <2>7. RequestInv'
    BY <1>3, <2>2, FinishInv DEF InsertRole, Outcomes
  <2> QED
    BY <2>6, <2>7 DEF RolesInv
<1>4. CASE InsertFails(w)
  BY <1>4, RefusalInv DEF InsertFails, Outcomes, Stored
<1> QED
  BY <1>2, <1>3, <1>4 DEF CreateStep

LEMMA EditStepInv ==
  ASSUME RolesInv, NEW w \in Workers, EditStep(w) PROVE RolesInv'
<1> DEFINE f == req[w].form
<1>1. req[w] \in Request /\ GoodRequest(req[w])
  BY RequestOf
<1>2. CASE LoadRole(w) /\ Exists(f.role)
  <2> DEFINE q == [req[w] EXCEPT !.at = "check_rename", !.row = roles[f.role]]
  <2>1. req[w].at = "load" /\ f.role \in RoleIds
    BY <1>1, <1>2 DEF LoadRole, GoodRequest, EditForm
  <2>2. roles[f.role] \in Row /\ f.role \in made
    BY <1>2, <2>1 DEF RolesInv, RoleInv, Exists
  <2>3. GoodRequest(q)
    BY <1>1, <2>1, <2>2 DEF GoodRequest, Request, Steps
  <2>4. req' = [req EXCEPT ![w] = q] /\ UNCHANGED Stored
    BY <1>2 DEF LoadRole, RolesInv, RequestInv, Stored
  <2> HIDE DEF q
  <2> QED
    BY <2>3, <2>4, StoredInv, ReplaceRequest DEF RolesInv, Stored
<1>3. CASE LoadRole(w) /\ ~ Exists(f.role)
  BY <1>3, RefusalInv DEF LoadRole, Outcomes, Stored
<1>4. CASE CheckRename(w)
  <2>1. req[w].at = "check_rename"
    BY <1>4 DEF CheckRename, Check
  <2>2. GoodRequest([req[w] EXCEPT !.at = "store"])
    BY <1>1, <2>1 DEF GoodRequest, Request, Steps
  <2> QED
    BY <1>4, <2>2, CheckInv DEF CheckRename, Steps, Outcomes
<1>5. CASE StoreRole(w)
  <2>1. EditForm(f) /\ req[w].row \in Row /\ f.role \in made /\ f.role \in RoleIds
    BY <1>1, <1>5 DEF StoreRole, GoodRequest, EditForm
  <2>2. Edited(w) \in Row
    BY <2>1 DEF Edited, EditForm, Row
  <2>3. UserInv' /\ RoleInv' /\ ForeignKeyInv'
    <3> HIDE DEF f
    <3> QED
      BY <1>5, <2>1, <2>2, WriteRoleRow DEF StoreRole, RolesInv, RoleInv, f
  <2>4. RequestInv'
    BY <1>5, FinishInv DEF StoreRole, Outcomes
  <2> QED
    BY <2>3, <2>4 DEF RolesInv
<1>6. CASE StoreFails(w)
  BY <1>6, RefusalInv DEF StoreFails, Outcomes, Stored
<1> QED
  BY <1>2, <1>3, <1>4, <1>5, <1>6 DEF EditStep

\* Only a role that nobody has is deleted.
LEMMA DropRoleRow ==
  ASSUME RolesInv, UNCHANGED <<users, made>>, NEW r \in RoleIds, ~ Assigned(r),
         roles' = [roles EXCEPT ![r] = NoRow]
  PROVE  UserInv' /\ RoleInv' /\ ForeignKeyInv'
<1>1. /\ \A s \in RoleIds : roles'[s] = IF s = r THEN NoRow ELSE roles[s]
      /\ roles' \in [RoleIds -> Row \cup {NoRow}]
  BY DEF RolesInv, RoleInv
<1>2. RoleInv'
  BY <1>1 DEF RolesInv, RoleInv, Exists, NameFree
<1>3. UserInv' /\ ForeignKeyInv'
  BY <1>1 DEF RolesInv, UserInv, User, SupportHasRole, ForeignKeyInv, Exists, Assigned
<1> QED
  BY <1>2, <1>3

LEMMA DeleteStepInv ==
  ASSUME RolesInv, NEW w \in Workers, DeleteStep(w) PROVE RolesInv'
<1> DEFINE r == req[w].form.role
<1>1. req[w] \in Request /\ GoodRequest(req[w])
  BY RequestOf
<1>2. CASE FindRole(w)
  <2>1. GoodRequest([req[w] EXCEPT !.at = "collect"])
    BY <1>1, <1>2 DEF FindRole, Check, GoodRequest, Request, Steps
  <2> QED
    BY <1>2, <2>1, CheckInv DEF FindRole, Steps, Outcomes
<1>3. CASE CollectUsers(w)
  <2>1. GoodRequest([req[w] EXCEPT !.at = "delete"])
    BY <1>1, <1>3 DEF CollectUsers, Check, GoodRequest, Request, Steps
  <2> QED
    BY <1>3, <2>1, CheckInv DEF CollectUsers, Steps, Outcomes
<1>4. CASE DeleteRole(w)
  <2>1. r \in RoleIds /\ ~ Assigned(r)
    BY <1>1, <1>4 DEF DeleteRole, GoodRequest, DeleteForm
  <2>2. roles' = [roles EXCEPT ![r] = NoRow] /\ UNCHANGED <<users, made>>
    BY <1>4 DEF DeleteRole
  <2> HIDE DEF r
  <2>3. UserInv' /\ RoleInv' /\ ForeignKeyInv'
    BY <2>1, <2>2, DropRoleRow
  <2>4. RequestInv'
    BY <1>4, FinishInv DEF DeleteRole, Outcomes
  <2> QED
    BY <2>3, <2>4 DEF RolesInv
<1>5. CASE DeleteFails(w)
  BY <1>5, RefusalInv DEF DeleteFails, Outcomes, Stored
<1> QED
  BY <1>2, <1>3, <1>4, <1>5 DEF DeleteStep

LEMMA PanelRoleInv ==
  ASSUME RolesInv, NEW r \in RoleIds,
         DeleteRoleForm(r) \/ \E n \in Names, a \in BOOLEAN : SaveRoleForm(r, n, a)
  PROVE  RolesInv'
<1>1. CASE DeleteRoleForm(r)
  <2>1. UserInv' /\ RoleInv' /\ ForeignKeyInv'
    BY <1>1, DropRoleRow DEF DeleteRoleForm
  <2>2. RequestInv'
    BY <1>1 DEF DeleteRoleForm, RolesInv, RequestInv, GoodRequest
  <2> QED
    BY <2>1, <2>2 DEF RolesInv
<1>2. ASSUME NEW n \in Names, NEW a \in BOOLEAN, SaveRoleForm(r, n, a) PROVE RolesInv'
  <2>0. PICK row : row = [name |-> n, active |-> a]
    OBVIOUS
  <2>1. row \in Row /\ row.name = n
    BY <2>0 DEF Row
  <2>2. made' = made \cup {r} /\ made' \in SUBSET RoleIds
    BY <1>2 DEF SaveRoleForm, RolesInv, RoleInv
  <2>3. UserInv' /\ RoleInv' /\ ForeignKeyInv'
    BY <1>2, <2>0, <2>1, <2>2, WriteRoleRow DEF SaveRoleForm
  <2>4. RequestInv'
    <3>1. \A w \in Workers : GoodRequest(req[w])'
      BY <1>2, <2>2 DEF SaveRoleForm, RolesInv, RequestInv, GoodRequest
    <3> QED
      BY <1>2, <3>1 DEF SaveRoleForm, RolesInv, RequestInv
  <2> QED
    BY <2>3, <2>4 DEF RolesInv
<1> QED
  BY <1>1, <1>2

----------------------------------------------------------------------------
(* The invariant is inductive.                                             *)

LEMMA RolesInitInv == RolesInit => RolesInv
<1> SUFFICES ASSUME RolesInit PROVE RolesInv
  OBVIOUS
<1>1. UserInv
  BY DEF RolesInit, UserInv, User, UserType, SupportHasRole, Consistent
<1>2. RoleInv /\ ForeignKeyInv
  BY DEF RolesInit, RoleInv, ForeignKeyInv, Exists
<1>3. RequestInv
  BY RestIsGood DEF RolesInit, RequestInv, NoRequest, GoodRequest
<1> QED
  BY <1>1, <1>2, <1>3 DEF RolesInv

LEMMA RolesNextInv == RolesInv /\ [RolesNext]_rolesVars => RolesInv'
<1> SUFFICES ASSUME RolesInv, [RolesNext]_rolesVars PROVE RolesInv'
  OBVIOUS
<1>1. ASSUME NEW w \in Workers, Respond(w) \/ Die(w) PROVE RolesInv'
  <2>1. req' = [req EXCEPT ![w] = NoRequest] /\ UNCHANGED Stored
    BY <1>1 DEF Respond, Die, Stored
  <2> QED
    BY <2>1, RestIsGood, StoredInv, ReplaceRequest DEF NoRequest, RolesInv, Stored
<1>2. CASE UNCHANGED rolesVars
  BY <1>2, StoredInv DEF rolesVars, Stored, RolesInv, RequestInv, GoodRequest
<1> QED
  BY <1>1, <1>2, SubmitInv, AssignStepInv, CreateStepInv, EditStepInv, DeleteStepInv,
     SaveUserFormInv, PanelRoleInv DEF RolesNext

----------------------------------------------------------------------------

\* In every reachable state a support_role names a stored row and no two rows
\* have a name in common, for all workers, users, names and ids.
THEOREM RolesTypeCorrect == RolesSpec => []RolesTypeOK
<1>1. RolesInv => RolesTypeOK
  BY DEF RolesInv, UserInv, User, RoleInv, ForeignKeyInv, RequestInv, Request, RolesTypeOK
<1> QED
  BY RolesInitInv, RolesNextInv, <1>1, PTL DEF RolesSpec

\* A user has a support role exactly when the user is support, however requests
\* and the panel interleave.
THEOREM SupportAlwaysHasRole == RolesSpec => []SupportHasRole
<1>1. RolesInv => SupportHasRole
  BY DEF RolesInv, UserInv
<1> QED
  BY RolesInitInv, RolesNextInv, <1>1, PTL DEF RolesSpec
=============================================================================
