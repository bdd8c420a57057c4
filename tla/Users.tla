------------------------------- MODULE Users -------------------------------
(***************************************************************************)
(* The table accounts_user by id, its unique columns, and what other parts *)
(* of the system do to it while a login runs: the sign-up of a number and  *)
(* its verification (Registration models how), UserManager on the command  *)
(* line, and the staff in the admin panel.  Each is one statement or one   *)
(* transaction on the table.                                               *)
(***************************************************************************)
EXTENDS Integers, FiniteSets

CONSTANTS
    Phones, NoPhone,
    Emails,
    normalize_email,    \* [Emails -> Emails]: the domain in lower case
    Usernames,
    OthersNames,        \* bound: usernames asked for by others than Google logins
    GoogleIds, NoGoogle,
    NoUser,             \* no row of that id
    MaxUsers,           \* bound: ids in use
    Known               \* bound: users whose form the staff opens

ASSUME UsersAssumption ==
    /\ NoPhone \notin Phones /\ NoGoogle \notin GoogleIds
    /\ normalize_email \in [Emails -> Emails]
    /\ OthersNames \subseteq Usernames
    /\ MaxUsers \in Nat

VARIABLE
    rows        \* rows[id]

Ids == 1 .. MaxUsers

Row == [username : Usernames, email : Emails, phone : Phones \cup {NoPhone},
        google : GoogleIds \cup {NoGoogle},
        password : {"usable", "unusable"},
        verified : BOOLEAN,     \* is_phone_verified
        active : BOOLEAN]       \* is_active

ASSUME NoUserAssumption == NoUser \notin Row

Stored == {i \in Ids : rows[i] # NoUser}

UsersInit == rows = [i \in Ids |-> NoUser]

----------------------------------------------------------------------------
(* The unique columns; NULL equals nothing.                                *)

Clashes(i, row) ==
    \E k \in Stored \ {i} :
        \/ rows[k].username = row.username
        \/ rows[k].email = row.email
        \/ row.phone # NoPhone /\ rows[k].phone = row.phone
        \/ row.google # NoGoogle /\ rows[k].google = row.google

\* IntegrityError otherwise.
Insert(i, row) ==
    /\ i \in Ids \ Stored
    /\ ~ Clashes(i, row)
    /\ rows' = [rows EXCEPT ![i] = row]

Update(i, row) ==
    /\ i \in Stored
    /\ ~ Clashes(i, row)
    /\ rows' = [rows EXCEPT ![i] = row]

----------------------------------------------------------------------------
(* The rest of the system.                                                 *)

NewRow(u, e, p, flag) ==
    [username |-> u, email |-> e, phone |-> p, google |-> NoGoogle, password |-> "usable",
     verified |-> flag, active |-> flag]

\* What the validators of RegisterSerializer ask of the table.
FormPasses(p, u, e) ==
    \A k \in Stored :
        /\ rows[k].username # u
        /\ rows[k].verified => rows[k].email # e /\ rows[k].phone # p

\* update_or_create and the save of the password: a new row, or the row of the
\* number starts over but for the columns the form does not have.
SignUp(id, p, u, e) ==
    /\ FormPasses(p, u, e)
    /\ \A k \in Stored : rows[k].phone # p
    /\ Insert(id, NewRow(u, e, p, FALSE))

SignUpAgain(i, u, e) ==
    /\ rows[i].phone # NoPhone
    /\ FormPasses(rows[i].phone, u, e)
    /\ Update(i, [NewRow(u, e, rows[i].phone, FALSE) EXCEPT !.google = rows[i].google])

\* VerifyOTPSerializer.save.
VerifyPhone(i) ==
    /\ rows[i].phone # NoPhone
    /\ Update(i, [rows[i] EXCEPT !.verified = TRUE, !.active = TRUE])

\* UserManager.create_superuser, which is what manage.py createsuperuser calls:
\* create_user with the flags set.
CreateSuperuser(id, p, u, e) == Insert(id, NewRow(u, normalize_email[e], p, TRUE))

\* The panel's form of a user, as far as its two flags go.
SaveUserForm(i, active, verified) ==
    Update(i, [rows[i] EXCEPT !.active = active, !.verified = verified])

DeleteUser(i) == rows' = [rows EXCEPT ![i] = NoUser]

\* id: the uuid4 of the row to make.
OthersInsert(id) ==
    \E p \in Phones, u \in OthersNames, e \in Emails :
        SignUp(id, p, u, e) \/ CreateSuperuser(id, p, u, e)

OthersUpdate ==
    \E i \in Stored :
        \/ \E u \in OthersNames, e \in Emails : SignUpAgain(i, u, e)
        \/ VerifyPhone(i) \/ DeleteUser(i)
        \/ \E active, verified \in BOOLEAN :
              /\ i \in Known /\ <<active, verified>> # <<rows[i].active, rows[i].verified>>
              /\ SaveUserForm(i, active, verified)
=============================================================================
