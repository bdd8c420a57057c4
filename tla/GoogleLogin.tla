---------------------------- MODULE GoogleLogin ----------------------------
(***************************************************************************)
(* Login with Google: services/google_auth.py with GoogleLoginSerializer   *)
(* and GoogleLoginView, whose code the repository keeps in comments until  *)
(* a client id is set up.                                                  *)
(*                                                                         *)
(* A worker finds, links or makes the user of a Google profile, one action *)
(* per query, in no transaction.  It works on the copy of the row it read; *)
(* logins, sign-ups, the command line and the staff change the table       *)
(* between any two of its queries.                                         *)
(***************************************************************************)
EXTENDS Users, GoogleUsername

CONSTANTS
    Workers,
    Profiles,       \* what Google says of an account: [google_id, email]
    LocalParts,     \* sequences of characters
    local_part,     \* [Emails -> LocalParts]: the part before the @
    Suffixes        \* what a draw of secrets.randbelow adds, and BareName

BareName == <<>>

base == [e \in Emails |-> UsernameBase(local_part[e])]

ASSUME GoogleAssumption ==
    /\ Profiles \subseteq [google_id : GoogleIds, email : Emails]
    /\ local_part \in [Emails -> LocalParts]
    /\ BareName \in Suffixes
    /\ \A e \in Emails, s \in Suffixes : base[e] \o s \in Usernames

VARIABLES
    login,      \* login[w]: the request worker w serves
    raced       \* raced[w]: somebody else wrote the table meanwhile (history)

googleVars == <<rows, login, raced>>

NoId == 0

Steps == {"verify_token", "by_google", "by_email", "link", "username", "redraw", "create",
          "active", "last_login"}
Answers == {"ok", "created", "rejected", "inactive", "failed"}   \* 200, 201, 400, 401, 500

\* id and active: the user object, with is_active as it was read; new: it was made.
LoginAt(step, profile) ==
    [at |-> step, profile |-> profile, id |-> NoId, active |-> FALSE, suffix |-> BareName,
     new |-> FALSE]

NoProfile == [google_id |-> NoGoogle, email |-> NoUser]

NoLogin == LoginAt("idle", NoProfile)

Login == [at : {"idle"} \cup Steps \cup Answers, profile : Profiles \cup {NoProfile},
          id : Ids \cup {NoId}, active : BOOLEAN, suffix : Suffixes, new : BOOLEAN]

GoogleInit ==
    /\ UsersInit
    /\ login = [w \in Workers |-> NoLogin]
    /\ raced = [w \in Workers |-> FALSE]

UnderWay(w) == login[w].at \in Steps

\* Who is under way learns, for the properties, that the table changed.
Interferes(w) ==
    raced' = [v \in Workers |-> raced[v] \/ (v # w /\ UnderWay(v))]

\* A uuid4: nobody's id, nor that of a deleted row a login still works on.  (The
\* model gives an id that nothing refers to any more out again.)
NewId == CHOOSE i \in Ids : i \notin Stored /\ \A w \in Workers : login[w].id # i

\* Bound: every login under way has an id left for the user it may have to make.
Room == Cardinality(Stored) + Cardinality({w \in Workers : login[w] # NoLogin}) < MaxUsers

Goto(w, step) == login' = [login EXCEPT ![w] = [@ EXCEPT !.at = step]]

Answer(w, answer) == login' = [login EXCEPT ![w] = [NoLogin EXCEPT !.at = answer]]

Reads(w, i, step) ==
    login' = [login EXCEPT ![w] = [@ EXCEPT !.at = step, !.id = i, !.active = rows[i].active]]

----------------------------------------------------------------------------

PostIdToken(w, profile) ==
    /\ login[w] = NoLogin
    /\ Room
    /\ login' = [login EXCEPT ![w] = LoginAt("verify_token", profile)]
    /\ UNCHANGED <<rows, raced>>

\* verify_google_id_token: Google vouches for the token and the email, or the
\* request is answered 400.
VerifyIdToken(w) ==
    /\ login[w].at = "verify_token"
    /\ Goto(w, "by_google") \/ Answer(w, "rejected")
    /\ UNCHANGED <<rows, raced>>

WithGoogle(g) == {i \in Stored : rows[i].google = g}
WithEmail(e) == {i \in Stored : rows[i].email = e}

FindByGoogle(w) ==
    /\ login[w].at = "by_google"
    /\ \E i \in WithGoogle(login[w].profile.google_id) : Reads(w, i, "active")
    /\ UNCHANGED <<rows, raced>>

NotByGoogle(w) ==
    /\ login[w].at = "by_google"
    /\ WithGoogle(login[w].profile.google_id) = {}
    /\ Goto(w, "by_email")
    /\ UNCHANGED <<rows, raced>>

\* Mutant: the link is left out.
FindByEmailUnlinked(w) ==
    /\ login[w].at = "by_email"
    /\ \E i \in WithEmail(login[w].profile.email) : Reads(w, i, "active")
    /\ UNCHANGED <<rows, raced>>

\* Mutant: the lookup is email__iexact.
FindByEmailOfAnyCase(w) ==
    /\ login[w].at = "by_email"
    /\ \E i \in Stored :
          /\ normalize_email[rows[i].email] = normalize_email[login[w].profile.email]
          /\ Reads(w, i, "link")
    /\ UNCHANGED <<rows, raced>>

FindByEmail(w) ==
    /\ login[w].at = "by_email"
    /\ \E i \in WithEmail(login[w].profile.email) : Reads(w, i, "link")
    /\ UNCHANGED <<rows, raced>>

NotByEmail(w) ==
    /\ login[w].at = "by_email"
    /\ WithEmail(login[w].profile.email) = {}
    /\ Goto(w, "username")
    /\ UNCHANGED <<rows, raced>>

\* Mutant: save() of the whole copy, is_active as it was read among the rest.
LinkedCopy(w) ==
    [rows[login[w].id] EXCEPT !.google = login[w].profile.google_id, !.active = login[w].active]

\* save(update_fields=["google_id"]): the other columns stay as they are by now.
Linked(w) == [rows[login[w].id] EXCEPT !.google = login[w].profile.google_id]

LinkGoogle(w) ==
    /\ login[w].at = "link"
    /\ login[w].id \in Stored
    /\ Update(login[w].id, Linked(w))
    /\ Goto(w, "active")
    /\ Interferes(w)

\* IntegrityError, or DatabaseError when the row is gone.
LinkFails(w) ==
    /\ login[w].at = "link"
    /\ IF login[w].id \in Stored THEN Clashes(login[w].id, Linked(w)) ELSE TRUE
    /\ Answer(w, "failed")
    /\ UNCHANGED <<rows, raced>>

Taken(u) == \E k \in Stored : rows[k].username = u

Candidate(w, s) == base[login[w].profile.email] \o s

\* _generate_unique_username: one query per candidate, the bare name first.
\* Mutant: the bare name is not looked up.
TryUnchecked(w) ==
    /\ login[w].at = "username"
    /\ Goto(w, "create")
    /\ UNCHANGED <<rows, raced>>

TryBareName(w) ==
    /\ login[w].at = "username"
    /\ Goto(w, IF Taken(Candidate(w, BareName)) THEN "redraw" ELSE "create")
    /\ UNCHANGED <<rows, raced>>

\* Mutant: the loop tries the bare name again.
DrawBareName(w, s) ==
    /\ login[w].at = "redraw"
    /\ s = BareName
    /\ IF Taken(Candidate(w, s))
       THEN UNCHANGED login
       ELSE login' = [login EXCEPT ![w] = [@ EXCEPT !.at = "create", !.suffix = s]]
    /\ UNCHANGED <<rows, raced>>

\* A draw of secrets.randbelow and its query; the loop goes on if it is taken.
Draw(w, s) ==
    /\ login[w].at = "redraw"
    /\ s # BareName
    /\ IF Taken(Candidate(w, s))
       THEN UNCHANGED login
       ELSE login' = [login EXCEPT ![w] = [@ EXCEPT !.at = "create", !.suffix = s]]
    /\ UNCHANGED <<rows, raced>>

\* Mutant: username and email in the wrong order.
GoogleUserSwapped(w) ==
    [username |-> login[w].profile.email, email |-> Candidate(w, login[w].suffix),
     phone |-> NoPhone, google |-> login[w].profile.google_id, password |-> "unusable",
     verified |-> FALSE, active |-> TRUE]

\* set_unusable_password and save of a new object.
GoogleUser(w) ==
    [username |-> Candidate(w, login[w].suffix), email |-> login[w].profile.email, phone |-> NoPhone,
     google |-> login[w].profile.google_id, password |-> "unusable",
     verified |-> FALSE, active |-> TRUE]

CreateGoogleUser(w) ==
    /\ login[w].at = "create"
    /\ Insert(NewId, GoogleUser(w))
    /\ login' = [login EXCEPT ![w] =
                   [@ EXCEPT !.at = "active", !.id = NewId, !.active = TRUE, !.new = TRUE,
                             !.suffix = BareName]]
    /\ Interferes(w)

CreateFails(w) ==
    /\ login[w].at = "create"
    /\ Clashes(NewId, GoogleUser(w))
    /\ Answer(w, "failed")
    /\ UNCHANGED <<rows, raced>>

\* GoogleLoginSerializer: is_active of the copy.  The tokens are signed and
\* update_last_login writes one more column of the row.
CheckActive(w) ==
    /\ login[w].at = "active"
    /\ IF login[w].active THEN Goto(w, "last_login") ELSE Answer(w, "inactive")
    /\ UNCHANGED <<rows, raced>>

UpdateLastLogin(w) ==
    /\ login[w].at = "last_login"
    /\ Answer(w, IF login[w].id \notin Stored THEN "failed"
                 ELSE IF login[w].new THEN "created" ELSE "ok")
    /\ UNCHANGED <<rows, raced>>

Respond(w) ==
    /\ login[w].at \in Answers
    /\ login' = [login EXCEPT ![w] = NoLogin]
    /\ raced' = [raced EXCEPT ![w] = FALSE]
    /\ UNCHANGED rows

----------------------------------------------------------------------------

Lookup(w) == FindByGoogle(w) \/ NotByGoogle(w) \/ FindByEmail(w) \/ NotByEmail(w)

Serve(w) ==
    \/ VerifyIdToken(w) \/ Lookup(w) \/ LinkGoogle(w) \/ LinkFails(w)
    \/ TryBareName(w) \/ (\E s \in Suffixes : Draw(w, s))
    \/ CreateGoogleUser(w) \/ CreateFails(w) \/ CheckActive(w) \/ UpdateLastLogin(w)
    \/ Respond(w)

Others ==
    /\ \/ Room /\ OthersInsert(NewId)
       \/ OthersUpdate
    /\ raced' = [v \in Workers |-> raced[v] \/ UnderWay(v)]
    /\ UNCHANGED login

GoogleNext ==
    \/ \E w \in Workers : (\E profile \in Profiles : PostIdToken(w, profile)) \/ Serve(w)
    \/ Others

GoogleSpec == GoogleInit /\ [][GoogleNext]_googleVars

\* A draw that hits a free name.
DrawsFree(w) ==
    \E s \in Suffixes : Draw(w, s) /\ login'[w].at = "create"

\* Workers are not stopped; and the draws are independent and the names many, so
\* a loop that goes on hits a free one in the end.
GoogleFairSpec ==
    GoogleSpec /\ \A w \in Workers : WF_googleVars(Serve(w)) /\ WF_googleVars(DrawsFree(w))

----------------------------------------------------------------------------
(* Properties.                                                             *)

GoogleTypeOK ==
    /\ rows \in [Ids -> Row \cup {NoUser}]
    /\ login \in [Workers -> Login]
    /\ raced \in [Workers -> BOOLEAN]
    /\ \A w \in Workers :
        /\ login[w].at \in Steps => login[w].profile \in Profiles
        /\ login[w].at \in {"link", "active", "last_login"} => login[w].id \in Ids

\* A user is tied to a Google account, or to another in place of its own, only by
\* a login with that account and with the user's email, and not while the account
\* has a user already, be that one's email what it may (google_auth.py lines 95-107).
\* A sign-up that starts a row over keeps its tie.  Only a login whose reads are
\* out of date can do otherwise.
LinkGoesByEmail ==
    [][\A i \in Stored : rows'[i] # NoUser /\ rows'[i].google # rows[i].google =>
          \E w \in Workers :
              /\ login[w].at = "link"
              /\ rows'[i].google = login[w].profile.google_id
              /\ ~ raced[w] =>
                    /\ rows[i].email = login[w].profile.email
                    /\ WithGoogle(login[w].profile.google_id) = {}]_googleVars

\* A login never takes back what was done to the row since it read it: not the
\* verification of its number, not a block, not a change of its email.
LinkWritesOneColumn ==
    [][\A i \in Stored : login' # login /\ rows'[i] # rows[i] =>
          rows'[i] = [rows[i] EXCEPT !.google = rows'[i].google]]_googleVars

\* A login fails (500) only if somebody else wrote the table while it ran.
FailsOnlyInRace == \A w \in Workers : login[w].at = "failed" => raced[w]

\* A login that nobody interferes with is for the one active user that has the
\* Google id of its profile: found, linked or made, and by whichever of the two
\* lookups.
AnswersForItsUser ==
    \A w \in Workers : login[w].at = "last_login" /\ ~ raced[w] =>
        /\ WithGoogle(login[w].profile.google_id) = {login[w].id}
        /\ rows[login[w].id].active

\* Every login is answered, the loop over usernames included.
LoginIsAnswered == \A w \in Workers : login[w] # NoLogin ~> login[w] = NoLogin
=============================================================================
