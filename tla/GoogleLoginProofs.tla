------------------------- MODULE GoogleLoginProofs -------------------------
(***************************************************************************)
(* For any workers, profiles, rows and usernames: a login that nobody      *)
(* interferes with is for the one active user of its profile, it does not  *)
(* fail, and it ties a user to its account by the email only; and no login *)
(* overwrites more of a row than the Google id, interfered with or not.    *)
(*                                                                         *)
(* The unique columns hold of the table whoever writes it (Unique).  A     *)
(* login that was not raced still sees what its lookups saw (Calm), so     *)
(* that its write meets no row in its way.                                 *)
(***************************************************************************)
EXTENDS GoogleLogin, TLAPS

Unique == \A i \in Stored : ~ Clashes(i, rows[i])

\* What login q goes by, as long as nobody else writes the table.
Calm(q) ==
    /\ q.at \in {"by_email", "link", "username", "redraw", "create"} =>
          WithGoogle(q.profile.google_id) = {}
    /\ q.at = "link" =>
          /\ q.id \in Stored /\ q.active = rows[q.id].active
          /\ rows[q.id].email = q.profile.email
    /\ q.at \in {"username", "redraw", "create"} => WithEmail(q.profile.email) = {}
    /\ q.at = "create" => ~ Taken(base[q.profile.email] \o q.suffix)
    /\ q.at \in {"active", "last_login"} => WithGoogle(q.profile.google_id) = {q.id}
    /\ q.at = "active" => q.active = rows[q.id].active
    /\ q.at = "last_login" => rows[q.id].active
    /\ q.at # "failed"

GoodLogin(q) ==
    /\ q \in Login
    /\ q.at \in Steps => q.profile \in Profiles
    /\ q.at \in {"link", "active", "last_login"} => q.id \in Ids
    /\ q.at # "create" => q.suffix = BareName

TableInv == rows \in [Ids -> Row \cup {NoUser}] /\ Unique

LoginInv ==
    /\ login \in [Workers -> Login]
    /\ raced \in [Workers -> BOOLEAN]
    /\ \A w \in Workers : GoodLogin(login[w])

CalmInv == \A w \in Workers : ~ raced[w] => Calm(login[w])

GoogleInv == TableInv /\ LoginInv /\ CalmInv

----------------------------------------------------------------------------
(* Steps that write the table.                                             *)

\* A row put where it clashes with nothing leaves the columns unique.
LEMMA PutKeepsUnique ==
  ASSUME TableInv, NEW i \in Ids, NEW row \in Row, ~ Clashes(i, row),
         rows' = [rows EXCEPT ![i] = row]
  PROVE  TableInv'
<1>1. rows' \in [Ids -> Row \cup {NoUser}]
  BY DEF TableInv
<1>2. /\ rows'[i] = row
      /\ \A k \in Ids \ {i} : rows'[k] = rows[k]
      /\ Stored' = Stored \cup {i}
  BY NoUserAssumption DEF TableInv, Stored
<1>3. ASSUME NEW k \in Stored', Clashes(k, rows[k])' PROVE FALSE
  <2>1. PICK j \in Stored' \ {k} :
           \/ rows'[j].username = rows'[k].username
           \/ rows'[j].email = rows'[k].email
           \/ rows'[k].phone # NoPhone /\ rows'[j].phone = rows'[k].phone
           \/ rows'[k].google # NoGoogle /\ rows'[j].google = rows'[k].google
    BY <1>3 DEF Clashes
  <2>2. CASE k = i
    BY <1>2, <2>1, <2>2 DEF Clashes
  <2>3. CASE j = i
    <3>1. k \in Stored \ {i} /\ rows'[k] = rows[k] /\ rows'[j] = row
      BY <1>2, <2>1, <2>3 DEF Stored
    <3> QED
      BY <2>1, <3>1 DEF Clashes
  <2>4. CASE k # i /\ j # i
    <3>1. /\ k \in Stored /\ j \in Stored \ {k}
          /\ rows'[k] = rows[k] /\ rows'[j] = rows[j]
      BY <1>2, <2>1, <2>4 DEF Stored
    <3> QED
      BY <2>1, <3>1 DEF Clashes, TableInv, Unique
  <2> QED
    BY <2>2, <2>3, <2>4
<1> QED
  BY <1>1, <1>3 DEF TableInv, Unique

LEMMA DeleteKeepsUnique ==
  ASSUME TableInv, NEW i \in Ids, rows' = [rows EXCEPT ![i] = NoUser]
  PROVE  TableInv'
<1>1. /\ rows' \in [Ids -> Row \cup {NoUser}]
      /\ Stored' = Stored \ {i}
      /\ \A k \in Stored' : rows'[k] = rows[k]
  BY DEF TableInv, Stored
<1> QED
  BY <1>1 DEF TableInv, Unique, Clashes

LEMMA OthersKeepTable ==
  ASSUME TableInv, NEW id, OthersInsert(id) \/ OthersUpdate PROVE TableInv'
<1>1. \A u \in Usernames, e \in Emails, p \in Phones, flag \in BOOLEAN :
         NewRow(u, e, p, flag) \in Row
  BY DEF NewRow, Row
<1>2. \A i \in Stored : i \in Ids /\ rows[i] \in Row
  BY DEF TableInv, Stored
<1>3. CASE OthersInsert(id)
  <2>1. PICK p \in Phones, u \in Usernames, e \in Emails :
           SignUp(id, p, u, e) \/ CreateSuperuser(id, p, u, e)
    BY <1>3, UsersAssumption DEF OthersInsert
  <2>2. PICK row \in Row : Insert(id, row)
    BY <1>1, <2>1, UsersAssumption DEF SignUp, CreateSuperuser
  <2> QED
    BY <2>2, PutKeepsUnique DEF Insert
<1>4. CASE OthersUpdate
  <2>1. PICK i \in Stored :
           \/ \E u \in Usernames, e \in Emails : SignUpAgain(i, u, e)
           \/ VerifyPhone(i) \/ DeleteUser(i)
           \/ \E active, verified \in BOOLEAN : SaveUserForm(i, active, verified)
    BY <1>4, UsersAssumption DEF OthersUpdate
  <2>2. CASE DeleteUser(i)
    BY <1>2, <2>2, DeleteKeepsUnique DEF DeleteUser
  <2>3. ASSUME NEW row \in Row, Update(i, row) PROVE TableInv'
    BY <1>2, <2>3, PutKeepsUnique DEF Update
  <2>4. ASSUME NEW u \in Usernames, NEW e \in Emails, SignUpAgain(i, u, e)
        PROVE  TableInv'
    <3>1. rows[i].phone \in Phones /\ rows[i].google \in GoogleIds \cup {NoGoogle}
      BY <1>2, <2>4 DEF SignUpAgain, Row
    <3>2. PICK row \in Row : row = NewRow(u, e, rows[i].phone, FALSE)
      BY <1>1, <3>1
    <3>3. [row EXCEPT !.google = rows[i].google] \in Row
      BY <3>1 DEF Row
    <3> QED
      BY <2>3, <2>4, <3>2, <3>3 DEF SignUpAgain
  <2>5. CASE VerifyPhone(i)
    <3>1. [rows[i] EXCEPT !.verified = TRUE, !.active = TRUE] \in Row
      BY <1>2 DEF Row
    <3> QED
      BY <2>3, <2>5, <3>1 DEF VerifyPhone
  <2>6. ASSUME NEW active \in BOOLEAN, NEW verified \in BOOLEAN,
               SaveUserForm(i, active, verified)
        PROVE  TableInv'
    <3>1. [rows[i] EXCEPT !.active = active, !.verified = verified] \in Row
      BY <1>2 DEF Row
    <3> QED
      BY <2>3, <2>6, <3>1 DEF SaveUserForm
  <2> QED
    BY <2>1, <2>2, <2>4, <2>5, <2>6
<1> QED
  BY <1>3, <1>4

----------------------------------------------------------------------------
(* Steps of a login.                                                       *)

LEMMA ReplaceLogin ==
  ASSUME GoogleInv, NEW w \in Workers, NEW q, GoodLogin(q), ~ raced[w] => Calm(q),
         login' = [login EXCEPT ![w] = q], UNCHANGED <<rows, raced>>
  PROVE  GoogleInv'
<1>1. TableInv'
  BY DEF GoogleInv, TableInv, Unique, Stored, Clashes
<1>2. LoginInv'
  BY DEF GoogleInv, LoginInv, GoodLogin
<1>3. ASSUME NEW p, Calm(p) PROVE Calm(p)'
  BY <1>3 DEF Calm, WithGoogle, WithEmail, Taken, Stored
<1>4. ASSUME NEW v \in Workers, ~ raced'[v] PROVE Calm(login[v])'
  <2>1. login'[v] = (IF v = w THEN q ELSE login[v])
    BY DEF GoogleInv, LoginInv
  <2>2. PICK p : p = login'[v]
    OBVIOUS
  <2>3. Calm(p)
    BY <1>4, <2>1, <2>2 DEF GoogleInv, CalmInv
  <2> QED
    BY <1>3, <2>2, <2>3 DEF Calm
<1> QED
  BY <1>1, <1>2, <1>4 DEF GoogleInv, CalmInv

\* A write of the table leaves a calm login to its writer only.
LEMMA WriteLogin ==
  ASSUME GoogleInv, TableInv', NEW w \in Workers, NEW q, GoodLogin(q), ~ raced[w] => Calm(q)',
         login' = [login EXCEPT ![w] = q], Interferes(w)
  PROVE  GoogleInv'
<1>1. LoginInv'
  BY DEF GoogleInv, LoginInv, GoodLogin, Interferes
<1>2. ASSUME NEW v \in Workers, ~ raced'[v] PROVE Calm(login[v])'
  <2>1. CASE v = w
    BY <1>2, <2>1 DEF Calm, GoogleInv, LoginInv, Interferes
  <2>2. CASE v # w
    <3>1. ~ raced[v] /\ login[v].at \notin Steps /\ login'[v] = login[v]
      BY <1>2, <2>2 DEF GoogleInv, LoginInv, Interferes, UnderWay
    <3>2. login[v].at # "failed"
      BY <3>1 DEF GoogleInv, CalmInv, Calm
    <3> QED
      BY <3>1, <3>2 DEF Calm, Steps
  <2> QED
    BY <2>1, <2>2
<1> QED
  BY <1>1, <1>2 DEF GoogleInv, CalmInv

LEMMA NoLoginIsGood == GoodLogin(NoLogin) /\ Calm(NoLogin)
  BY GoogleAssumption DEF GoodLogin, Calm, NoLogin, LoginAt, Login, NoProfile, Steps

LEMMA AnswerIsGood ==
  ASSUME NEW a \in Answers
  PROVE  /\ GoodLogin([NoLogin EXCEPT !.at = a])
         /\ a # "failed" => Calm([NoLogin EXCEPT !.at = a])
  BY NoLoginIsGood DEF GoodLogin, Calm, NoLogin, LoginAt, Login, Steps, Answers

LEMMA AnswerKeepsInv ==
  ASSUME GoogleInv, NEW w \in Workers, NEW a \in Answers, a = "failed" => raced[w],
         Answer(w, a), UNCHANGED <<rows, raced>>
  PROVE  GoogleInv'
BY AnswerIsGood, ReplaceLogin DEF Answer

\* What holds of login w before its step.
LEMMA LoginFacts ==
  ASSUME GoogleInv, NEW w \in Workers
  PROVE  /\ login[w] \in Login /\ GoodLogin(login[w])
         /\ ~ raced[w] => Calm(login[w])
         /\ \A i \in Stored : i \in Ids /\ rows[i] \in Row
BY DEF GoogleInv, LoginInv, CalmInv, TableInv, Stored

\* A step that only moves on: its new place has to be as good and as calm.
LEMMA GotoKeepsInv ==
  ASSUME GoogleInv, NEW w \in Workers, NEW step \in Steps, Goto(w, step),
         UNCHANGED <<rows, raced>>,
         GoodLogin([login[w] EXCEPT !.at = step]),
         ~ raced[w] => Calm([login[w] EXCEPT !.at = step])
  PROVE  GoogleInv'
BY ReplaceLogin DEF Goto

LEMMA PostKeepsInv ==
  ASSUME GoogleInv, NEW w \in Workers, NEW p \in Profiles, PostIdToken(w, p) PROVE GoogleInv'
<1>1. GoodLogin(LoginAt("verify_token", p)) /\ Calm(LoginAt("verify_token", p))
  BY GoogleAssumption DEF GoodLogin, Calm, LoginAt, Login, Steps
<1> QED
  BY <1>1, ReplaceLogin DEF PostIdToken

LEMMA VerifyKeepsInv ==
  ASSUME GoogleInv, NEW w \in Workers, VerifyIdToken(w) PROVE GoogleInv'
<1>1. CASE Goto(w, "by_google")
  <2>1. GoodLogin([login[w] EXCEPT !.at = "by_google"]) /\ Calm([login[w] EXCEPT !.at = "by_google"])
    BY LoginFacts DEF VerifyIdToken, GoodLogin, Calm, Login, Steps
  <2> QED
    BY <1>1, <2>1, GotoKeepsInv DEF VerifyIdToken, Steps
<1>2. CASE Answer(w, "rejected")
  BY <1>2, AnswerKeepsInv DEF VerifyIdToken, Answers
<1> QED
  BY <1>1, <1>2 DEF VerifyIdToken

LEMMA LookupKeepsInv ==
  ASSUME GoogleInv, NEW w \in Workers, Lookup(w) PROVE GoogleInv'
<1> DEFINE q == login[w]
<1>1. CASE FindByGoogle(w)
  <2>1. PICK i \in WithGoogle(q.profile.google_id) : Reads(w, i, "active")
    BY <1>1 DEF FindByGoogle
  <2>2. i \in Stored /\ i \in Ids /\ rows[i] \in Row /\ rows[i].google = q.profile.google_id
    BY <2>1, LoginFacts DEF WithGoogle
  <2>3. PICK p : p = [q EXCEPT !.at = "active", !.id = i, !.active = rows[i].active]
    OBVIOUS
  <2>4. /\ p \in Login /\ p.at = "active" /\ p.id = i /\ p.active = rows[i].active
        /\ p.profile = q.profile /\ p.suffix = q.suffix
    BY <2>2, <2>3, LoginFacts DEF Login, Steps, Row
  <2>5. q.at = "by_google" /\ q.profile \in Profiles
    BY <1>1, LoginFacts DEF FindByGoogle, GoodLogin, Steps
  <2>6. GoodLogin(p)
    BY <2>2, <2>4, <2>5, LoginFacts DEF GoodLogin
  <2>7. WithGoogle(p.profile.google_id) = {i}
    <3>1. rows[i].google # NoGoogle
      BY <2>2, <2>5, GoogleAssumption, UsersAssumption
    <3> QED
      BY <2>2, <2>4, <3>1 DEF WithGoogle, GoogleInv, TableInv, Unique, Clashes
  <2>8. Calm(p)
    BY <2>4, <2>7 DEF Calm
  <2> QED
    BY <1>1, <2>1, <2>3, <2>6, <2>8, ReplaceLogin DEF FindByGoogle, Reads
<1>2. CASE NotByGoogle(w)
  <2>1. GoodLogin([q EXCEPT !.at = "by_email"]) /\ Calm([q EXCEPT !.at = "by_email"])
    BY <1>2, LoginFacts DEF NotByGoogle, GoodLogin, Calm, Login, Steps
  <2> QED
    BY <1>2, <2>1, GotoKeepsInv DEF NotByGoogle, Steps
<1>3. CASE FindByEmail(w)
  <2>1. PICK i \in WithEmail(q.profile.email) : Reads(w, i, "link")
    BY <1>3 DEF FindByEmail
  <2>2. i \in Stored /\ i \in Ids /\ rows[i] \in Row /\ rows[i].email = q.profile.email
    BY <2>1, LoginFacts DEF WithEmail
  <2>3. PICK p : p = [q EXCEPT !.at = "link", !.id = i, !.active = rows[i].active]
    OBVIOUS
  <2>4. /\ p \in Login /\ p.at = "link" /\ p.id = i /\ p.active = rows[i].active
        /\ p.profile = q.profile /\ p.suffix = q.suffix
    BY <2>2, <2>3, LoginFacts DEF Login, Steps, Row
  <2>5. q.at = "by_email" /\ q.profile \in Profiles
    BY <1>3, LoginFacts DEF FindByEmail, GoodLogin, Steps
  <2>6. GoodLogin(p)
    BY <2>2, <2>4, <2>5, LoginFacts DEF GoodLogin
  <2>7. ~ raced[w] => Calm(p)
    BY <2>2, <2>4, <2>5, LoginFacts DEF Calm
  <2> QED
    BY <1>3, <2>1, <2>3, <2>6, <2>7, ReplaceLogin DEF FindByEmail, Reads
<1>4. CASE NotByEmail(w)
  <2>1. /\ GoodLogin([q EXCEPT !.at = "username"])
        /\ ~ raced[w] => Calm([q EXCEPT !.at = "username"])
    BY <1>4, LoginFacts DEF NotByEmail, GoodLogin, Calm, Login, Steps
  <2> QED
    BY <1>4, <2>1, GotoKeepsInv DEF NotByEmail, Steps
<1> QED
  BY <1>1, <1>2, <1>3, <1>4 DEF Lookup

LEMMA LinkKeepsInv ==
  ASSUME GoogleInv, NEW w \in Workers, LinkGoogle(w) \/ LinkFails(w) PROVE GoogleInv'
<1> DEFINE q == login[w]
           i == q.id
<1>1. CASE LinkGoogle(w)
  <2>1. /\ q.at = "link" /\ q.profile \in Profiles /\ q.profile.google_id \in GoogleIds
        /\ i \in Stored /\ i \in Ids /\ rows[i] \in Row
    BY <1>1, LoginFacts, GoogleAssumption DEF LinkGoogle, GoodLogin, Steps
  <2>2. PICK row \in Row : /\ row = Linked(w) /\ row.google = q.profile.google_id
                           /\ row.active = rows[i].active
    <3>1. /\ Linked(w) \in Row /\ Linked(w).google = q.profile.google_id
          /\ Linked(w).active = rows[i].active
      BY <2>1 DEF Linked, Row
    <3> QED
      BY <3>1
  <2>3. rows' = [rows EXCEPT ![i] = row] /\ ~ Clashes(i, row)
    BY <1>1, <2>2 DEF LinkGoogle, Update
  <2>4. TableInv'
    BY <2>1, <2>3, PutKeepsUnique DEF GoogleInv
  <2>5. PICK p : p = [q EXCEPT !.at = "active"]
    OBVIOUS
  <2>6. /\ p \in Login /\ p.at = "active" /\ p.id = i /\ p.active = q.active
        /\ p.profile = q.profile /\ p.suffix = q.suffix
    BY <2>5, LoginFacts DEF Login, Steps
  <2>7. GoodLogin(p)
    BY <2>1, <2>6, LoginFacts DEF GoodLogin
  <2>8. ASSUME ~ raced[w] PROVE Calm(p)'
    <3>1. WithGoogle(q.profile.google_id) = {} /\ q.active = rows[i].active
      BY <2>1, <2>8, LoginFacts DEF Calm
    <3>2. PICK j \in Ids : j = i
      BY <2>1
    <3>3. rows' = [rows EXCEPT ![j] = row]
      BY <2>3, <3>2
    <3>4. rows'[j] = row /\ \A k \in Ids \ {j} : rows'[k] = rows[k]
      BY <3>3 DEF GoogleInv, TableInv
    <3>5. PICK g : g = q.profile.google_id
      OBVIOUS
    <3>6. WithGoogle(g)' = {j}
      BY <2>1, <2>2, <3>1, <3>2, <3>4, <3>5, NoUserAssumption DEF WithGoogle, Stored
    <3> QED
      BY <2>2, <2>6, <3>1, <3>2, <3>4, <3>5, <3>6 DEF Calm
  <2> QED
    BY <1>1, <2>4, <2>5, <2>7, <2>8, WriteLogin DEF LinkGoogle, Goto
<1>2. CASE LinkFails(w)
  <2>1. ASSUME ~ raced[w] PROVE FALSE
    <3>1. /\ q.at = "link" /\ i \in Stored /\ rows[i] \in Row
          /\ WithGoogle(q.profile.google_id) = {}
      BY <1>2, <2>1, LoginFacts DEF LinkFails, Calm
    <3>2. Clashes(i, Linked(w))
      BY <1>2, <3>1 DEF LinkFails
    <3>3. ~ Clashes(i, rows[i])
      BY <3>1 DEF GoogleInv, TableInv, Unique
    <3> QED
      BY <3>1, <3>2, <3>3 DEF Clashes, Linked, WithGoogle, Row
  <2> QED
    BY <1>2, <2>1, AnswerKeepsInv DEF LinkFails, Answers
<1> QED
  BY <1>1, <1>2

LEMMA UsernameKeepsInv ==
  ASSUME GoogleInv, NEW w \in Workers, TryBareName(w) \/ \E s \in Suffixes : Draw(w, s)
  PROVE  GoogleInv'
<1> DEFINE q == login[w]
<1>1. CASE TryBareName(w)
  <2>1. q.at = "username" /\ q.suffix = BareName /\ q \in Login /\ q.profile \in Profiles
    BY <1>1, LoginFacts DEF TryBareName, GoodLogin, Steps
  <2>2. CASE Taken(Candidate(w, BareName))
    <3>1. /\ GoodLogin([q EXCEPT !.at = "redraw"])
          /\ ~ raced[w] => Calm([q EXCEPT !.at = "redraw"])
      BY <2>1, LoginFacts DEF GoodLogin, Calm, Login, Steps
    <3> QED
      BY <1>1, <2>2, <3>1, GotoKeepsInv DEF TryBareName, Steps
  <2>3. CASE ~ Taken(Candidate(w, BareName))
    <3>1. /\ GoodLogin([q EXCEPT !.at = "create"])
          /\ ~ raced[w] => Calm([q EXCEPT !.at = "create"])
      BY <2>1, <2>3, LoginFacts DEF GoodLogin, Calm, Login, Steps, Candidate
    <3> QED
      BY <1>1, <2>3, <3>1, GotoKeepsInv DEF TryBareName, Steps
  <2> QED
    BY <2>2, <2>3
<1>2. ASSUME NEW s \in Suffixes, Draw(w, s) PROVE GoogleInv'
  <2>1. q.at = "redraw" /\ q \in Login /\ q.profile \in Profiles
    BY <1>2, LoginFacts DEF Draw, GoodLogin, Steps
  <2>2. CASE Taken(Candidate(w, s))
    <3>1. login' = [login EXCEPT ![w] = q]
      BY <1>2, <2>2 DEF Draw, GoogleInv, LoginInv
    <3> QED
      BY <1>2, <3>1, LoginFacts, ReplaceLogin DEF Draw
  <2>3. CASE ~ Taken(Candidate(w, s))
    <3>1. PICK p : p = [q EXCEPT !.at = "create", !.suffix = s]
      OBVIOUS
    <3>2. p \in Login /\ p.at = "create" /\ p.suffix = s /\ p.profile = q.profile
      BY <2>1, <3>1 DEF Login, Steps
    <3>3. GoodLogin(p)
      BY <2>1, <3>2 DEF GoodLogin
    <3>4. ~ raced[w] => Calm(p)
      BY <2>1, <2>3, <3>2, LoginFacts DEF Calm, Candidate
    <3> QED
      BY <1>2, <2>3, <3>1, <3>3, <3>4, ReplaceLogin DEF Draw
  <2> QED
    BY <2>2, <2>3
<1> QED
  BY <1>1, <1>2

LEMMA GoogleUserIsRow ==
  ASSUME GoogleInv, NEW w \in Workers, login[w].at = "create"
  PROVE  /\ GoogleUser(w) \in Row
         /\ GoogleUser(w).google = login[w].profile.google_id /\ GoogleUser(w).active
         /\ login[w].profile.google_id # NoGoogle
<1>1. /\ login[w].profile \in Profiles /\ login[w].suffix \in Suffixes
      /\ login[w].profile.email \in Emails /\ login[w].profile.google_id \in GoogleIds
  BY LoginFacts, GoogleAssumption DEF GoodLogin, Login, Steps
<1>2. Candidate(w, login[w].suffix) \in Usernames
  BY <1>1, GoogleAssumption DEF Candidate
<1> QED
  BY <1>1, <1>2, UsersAssumption DEF GoogleUser, Row

LEMMA CreateKeepsInv ==
  ASSUME GoogleInv, NEW w \in Workers, CreateGoogleUser(w) \/ CreateFails(w) PROVE GoogleInv'
<1> DEFINE q == login[w]
<1>1. CASE CreateGoogleUser(w)
  <2>1. q.at = "create" /\ q \in Login /\ q.profile \in Profiles
    BY <1>1, LoginFacts DEF CreateGoogleUser, GoodLogin, Steps
  <2>2. PICK row \in Row, j \in Ids \ Stored :
           /\ row = GoogleUser(w) /\ j = NewId
           /\ row.google = q.profile.google_id /\ row.active
           /\ ~ Clashes(j, row) /\ rows' = [rows EXCEPT ![j] = row]
    BY <1>1, <2>1, GoogleUserIsRow DEF CreateGoogleUser, Insert
  <2>3. TableInv'
    BY <2>2, PutKeepsUnique DEF GoogleInv
  <2>4. PICK p : p = [q EXCEPT !.at = "active", !.id = j, !.active = TRUE, !.new = TRUE,
                               !.suffix = BareName]
    OBVIOUS
  <2>5. /\ p \in Login /\ p.at = "active" /\ p.id = j /\ p.active = TRUE
        /\ p.profile = q.profile /\ p.suffix = BareName
    BY <2>1, <2>4, GoogleAssumption DEF Login, Steps
  <2>6. GoodLogin(p)
    BY <2>1, <2>5 DEF GoodLogin
  <2>7. ASSUME ~ raced[w] PROVE Calm(p)'
    <3>1. WithGoogle(q.profile.google_id) = {}
      BY <2>1, <2>7, LoginFacts DEF Calm
    <3>2. rows'[j] = row /\ \A k \in Ids \ {j} : rows'[k] = rows[k]
      BY <2>2 DEF GoogleInv, TableInv
    <3>3. PICK g : g = q.profile.google_id
      OBVIOUS
    <3>4. WithGoogle(g)' = {j}
      BY <2>2, <3>1, <3>2, <3>3, NoUserAssumption DEF WithGoogle, Stored
    <3> QED
      BY <2>2, <2>5, <3>2, <3>3, <3>4 DEF Calm
  <2> QED
    BY <1>1, <2>2, <2>3, <2>4, <2>6, <2>7, WriteLogin DEF CreateGoogleUser
<1>2. CASE CreateFails(w)
  <2>1. ASSUME ~ raced[w] PROVE FALSE
    <3>1. /\ q.at = "create" /\ Clashes(NewId, GoogleUser(w))
          /\ WithGoogle(q.profile.google_id) = {} /\ WithEmail(q.profile.email) = {}
          /\ ~ Taken(Candidate(w, q.suffix))
      BY <1>2, <2>1, LoginFacts DEF CreateFails, Calm, Candidate
    <3> QED
      BY <3>1 DEF Clashes, GoogleUser, WithGoogle, WithEmail, Taken
  <2> QED
    BY <1>2, <2>1, AnswerKeepsInv DEF CreateFails, Answers
<1> QED
  BY <1>1, <1>2

LEMMA FinishKeepsInv ==
  ASSUME GoogleInv, NEW w \in Workers, CheckActive(w) \/ UpdateLastLogin(w) \/ Respond(w)
  PROVE  GoogleInv'
<1> DEFINE q == login[w]
<1>1. CASE CheckActive(w)
  <2>1. q.at = "active" /\ q \in Login /\ q.profile \in Profiles /\ q.id \in Ids
    BY <1>1, LoginFacts DEF CheckActive, GoodLogin, Steps
  <2>2. CASE q.active
    <3>1. /\ GoodLogin([q EXCEPT !.at = "last_login"])
          /\ ~ raced[w] => Calm([q EXCEPT !.at = "last_login"])
      BY <2>1, <2>2, LoginFacts DEF GoodLogin, Calm, Login, Steps
    <3> QED
      BY <1>1, <2>2, <3>1, GotoKeepsInv DEF CheckActive, Steps
  <2>3. CASE ~ q.active
    BY <1>1, <2>3, AnswerKeepsInv DEF CheckActive, Answers
  <2> QED
    BY <2>2, <2>3
<1>2. CASE UpdateLastLogin(w)
  <2>1. PICK a \in {"failed", "created", "ok"} :
           Answer(w, a) /\ (a = "failed" => q.id \notin Stored)
    BY <1>2 DEF UpdateLastLogin
  <2>2. ~ raced[w] => q.id \in Stored
    BY <1>2, LoginFacts DEF UpdateLastLogin, Calm, WithGoogle
  <2> QED
    BY <1>2, <2>1, <2>2, AnswerKeepsInv DEF UpdateLastLogin, Answers
<1>3. CASE Respond(w)
  <2>1. TableInv'
    BY <1>3 DEF Respond, GoogleInv, TableInv, Unique, Stored, Clashes
  <2>2. LoginInv'
    BY <1>3, NoLoginIsGood DEF Respond, GoogleInv, LoginInv, GoodLogin
  <2>3. ASSUME NEW v \in Workers, ~ raced'[v] PROVE Calm(login[v])'
    <3>1. login'[v] = (IF v = w THEN NoLogin ELSE login[v]) /\ (v # w => ~ raced[v])
      BY <1>3, <2>3 DEF Respond, GoogleInv, LoginInv
    <3>2. PICK p : p = login'[v]
      OBVIOUS
    <3>3. Calm(p)
      BY <3>1, <3>2, NoLoginIsGood DEF GoogleInv, CalmInv
    <3>4. Calm(p)'
      BY <1>3, <3>3 DEF Respond, Calm, WithGoogle, WithEmail, Taken, Stored
    <3> QED
      BY <3>2, <3>4 DEF Calm
  <2> QED
    BY <2>1, <2>2, <2>3 DEF GoogleInv, CalmInv
<1> QED
  BY <1>1, <1>2, <1>3

LEMMA OthersKeepInv ==
  ASSUME GoogleInv, Others PROVE GoogleInv'
<1>1. TableInv'
  BY OthersKeepTable DEF Others, GoogleInv
<1>2. LoginInv'
  BY DEF Others, GoogleInv, LoginInv, GoodLogin
<1>3. ASSUME NEW v \in Workers, ~ raced'[v] PROVE Calm(login[v])'
  <2>1. ~ raced[v] /\ login[v].at \notin Steps /\ login'[v] = login[v]
    BY <1>3 DEF Others, GoogleInv, LoginInv, UnderWay
  <2>2. login[v].at # "failed"
    BY <2>1 DEF GoogleInv, CalmInv, Calm
  <2> QED
    BY <2>1, <2>2 DEF Calm, Steps
<1> QED
  BY <1>1, <1>2, <1>3 DEF GoogleInv, CalmInv

----------------------------------------------------------------------------

LEMMA GoogleInitInv == GoogleInit => GoogleInv
<1> SUFFICES ASSUME GoogleInit PROVE GoogleInv
  OBVIOUS
<1>1. TableInv
  BY DEF GoogleInit, UsersInit, TableInv, Unique, Stored
<1>2. LoginInv /\ CalmInv
  BY NoLoginIsGood DEF GoogleInit, LoginInv, CalmInv, GoodLogin
<1> QED
  BY <1>1, <1>2 DEF GoogleInv

LEMMA GoogleNextInv == GoogleInv /\ [GoogleNext]_googleVars => GoogleInv'
<1> SUFFICES ASSUME GoogleInv, [GoogleNext]_googleVars PROVE GoogleInv'
  OBVIOUS
<1>1. ASSUME NEW w \in Workers, NEW p \in Profiles, PostIdToken(w, p) PROVE GoogleInv'
  BY <1>1, PostKeepsInv
<1>2. ASSUME NEW w \in Workers, Serve(w) PROVE GoogleInv'
  BY <1>2, VerifyKeepsInv, LookupKeepsInv, LinkKeepsInv, UsernameKeepsInv, CreateKeepsInv,
     FinishKeepsInv DEF Serve
<1>3. CASE Others
  BY <1>3, OthersKeepInv
<1>4. CASE UNCHANGED googleVars
  BY <1>4 DEF googleVars, GoogleInv, TableInv, Unique, Stored, Clashes, LoginInv, GoodLogin,
              CalmInv, Calm, WithGoogle, WithEmail, Taken
<1> QED
  BY <1>1, <1>2, <1>3, <1>4 DEF GoogleNext

\* Rows, logins and histories are well formed, and a login that works on a row
\* has one.
THEOREM GoogleTypeCorrect == GoogleSpec => []GoogleTypeOK
<1>1. GoogleInv => GoogleTypeOK
  BY DEF GoogleInv, TableInv, LoginInv, GoodLogin, GoogleTypeOK
<1> QED
  BY GoogleInitInv, GoogleNextInv, <1>1, PTL DEF GoogleSpec

\* A login that nobody interferes with is for the one active user of its profile.
THEOREM LoginsAnswerForTheirUser == GoogleSpec => []AnswersForItsUser
<1>1. GoogleInv => AnswersForItsUser
  BY DEF GoogleInv, CalmInv, Calm, AnswersForItsUser
<1> QED
  BY GoogleInitInv, GoogleNextInv, <1>1, PTL DEF GoogleSpec

\* A login that nobody interferes with does not fail.
THEOREM LoginsFailInRacesOnly == GoogleSpec => []FailsOnlyInRace
<1>1. GoogleInv => FailsOnlyInRace
  BY DEF GoogleInv, CalmInv, Calm, FailsOnlyInRace
<1> QED
  BY GoogleInitInv, GoogleNextInv, <1>1, PTL DEF GoogleSpec

----------------------------------------------------------------------------
(* Who writes what of a stored row.                                        *)

LEMMA WritesOneColumn ==
  ASSUME GoogleInv, GoogleNext, NEW i \in Stored, login' # login, rows'[i] # rows[i]
  PROVE  rows'[i] = [rows[i] EXCEPT !.google = rows'[i].google]
<1>1. PICK w \in Workers : LinkGoogle(w) \/ CreateGoogleUser(w)
  BY DEF GoogleNext, Others, PostIdToken, Serve, VerifyIdToken, Lookup, FindByGoogle, NotByGoogle,
         FindByEmail, NotByEmail, LinkFails, TryBareName, Draw, CreateFails, CheckActive,
         UpdateLastLogin, Respond
<1>2. rows \in [Ids -> Row \cup {NoUser}] /\ i \in Ids
  BY DEF GoogleInv, TableInv, Stored
<1>3. CASE CreateGoogleUser(w)
  BY <1>2, <1>3 DEF CreateGoogleUser, Insert
<1>4. CASE LinkGoogle(w)
  <2>1. rows' = [rows EXCEPT ![login[w].id] = Linked(w)]
    BY <1>4 DEF LinkGoogle, Update
  <2>2. i = login[w].id /\ rows'[i] = Linked(w)
    BY <1>2, <2>1
  <2>3. rows[i] \in Row
    BY <1>2 DEF Stored
  <2>4. PICK g : g = login[w].profile.google_id
    OBVIOUS
  <2>5. rows'[i] = [rows[i] EXCEPT !.google = g]
    BY <2>2, <2>4 DEF Linked
  <2>6. rows'[i].google = g
    BY <2>3, <2>5 DEF Row
  <2> QED
    BY <2>5, <2>6
<1> QED
  BY <1>1, <1>3, <1>4

\* A login takes nothing back that was done to the row since it read it.
THEOREM LinksWriteOneColumn == GoogleSpec => LinkWritesOneColumn
<1>1. GoogleInv /\ [GoogleNext]_googleVars =>
        [\A i \in Stored : login' # login /\ rows'[i] # rows[i] =>
            rows'[i] = [rows[i] EXCEPT !.google = rows'[i].google]]_googleVars
  BY WritesOneColumn
<1> QED
  BY GoogleInitInv, GoogleNextInv, <1>1, PTL DEF GoogleSpec, LinkWritesOneColumn

\* Of the others, a sign-up keeps the tie of the row it starts over, a deletion
\* leaves no row, and the rest write other columns.
LEMMA OthersKeepTies ==
  ASSUME GoogleInv, Others, NEW i \in Stored, rows'[i] # NoUser
  PROVE  rows'[i].google = rows[i].google
<1>1. rows \in [Ids -> Row \cup {NoUser}] /\ i \in Ids /\ rows[i] \in Row
  BY DEF GoogleInv, TableInv, Stored
<1>2. ASSUME NEW k, NEW row, Insert(k, row) PROVE rows'[i] = rows[i]
  BY <1>1, <1>2 DEF Insert
<1>3. CASE OthersInsert(NewId)
  BY <1>2, <1>3 DEF OthersInsert, SignUp, CreateSuperuser
<1>4. ASSUME NEW k \in Stored, NEW row, Update(k, row)
      PROVE  rows'[i] = rows[i] \/ (k = i /\ rows'[i] = row)
  BY <1>1, <1>4 DEF Update
<1>5. CASE OthersUpdate
  <2>1. PICK k \in Stored :
           \/ \E u \in OthersNames, e \in Emails : SignUpAgain(k, u, e)
           \/ VerifyPhone(k) \/ DeleteUser(k)
           \/ \E active, verified \in BOOLEAN : SaveUserForm(k, active, verified)
    BY <1>5 DEF OthersUpdate
  <2>2. ASSUME NEW u \in OthersNames, NEW e \in Emails, SignUpAgain(k, u, e)
        PROVE  rows'[i].google = rows[i].google
    <3>1. [NewRow(u, e, rows[i].phone, FALSE) EXCEPT !.google = rows[i].google].google
             = rows[i].google
      BY DEF NewRow
    <3> QED
      BY <1>4, <2>2, <3>1 DEF SignUpAgain
  <2>3. CASE VerifyPhone(k)
    <3>1. [rows[i] EXCEPT !.verified = TRUE, !.active = TRUE].google = rows[i].google
      BY <1>1 DEF Row
    <3> QED
      BY <1>4, <2>3, <3>1 DEF VerifyPhone
  <2>4. CASE DeleteUser(k)
    BY <1>1, <2>4 DEF DeleteUser
  <2>5. ASSUME NEW active \in BOOLEAN, NEW verified \in BOOLEAN, SaveUserForm(k, active, verified)
        PROVE  rows'[i].google = rows[i].google
    <3>1. [rows[i] EXCEPT !.active = active, !.verified = verified].google = rows[i].google
      BY <1>1 DEF Row
    <3> QED
      BY <1>4, <2>5, <3>1 DEF SaveUserForm
  <2> QED
    BY <2>1, <2>2, <2>3, <2>4, <2>5
<1> QED
  BY <1>3, <1>5 DEF Others

LEMMA TiesByEmail ==
  ASSUME GoogleInv, GoogleNext, NEW i \in Stored, rows'[i] # NoUser,
         rows'[i].google # rows[i].google
  PROVE  \E w \in Workers :
            /\ login[w].at = "link"
            /\ rows'[i].google = login[w].profile.google_id
            /\ ~ raced[w] =>
                  /\ rows[i].email = login[w].profile.email
                  /\ WithGoogle(login[w].profile.google_id) = {}
<1>1. rows'[i] # rows[i]
  OBVIOUS
<1>2. PICK w \in Workers : LinkGoogle(w) \/ CreateGoogleUser(w)
  BY <1>1, OthersKeepTies
     DEF GoogleNext, PostIdToken, Serve, VerifyIdToken, Lookup, FindByGoogle, NotByGoogle,
         FindByEmail, NotByEmail, LinkFails, TryBareName, Draw, CreateFails, CheckActive,
         UpdateLastLogin, Respond
<1>3. rows \in [Ids -> Row \cup {NoUser}] /\ i \in Ids /\ rows[i] \in Row
  BY DEF GoogleInv, TableInv, Stored
<1>4. LinkGoogle(w)
  BY <1>1, <1>2, <1>3 DEF CreateGoogleUser, Insert
<1>5. login[w].at = "link" /\ rows' = [rows EXCEPT ![login[w].id] = Linked(w)]
  BY <1>4 DEF LinkGoogle, Update
<1>6. i = login[w].id /\ rows'[i] = Linked(w)
  BY <1>1, <1>3, <1>5
<1>7. rows'[i].google = login[w].profile.google_id
  BY <1>3, <1>6 DEF Linked, Row
<1>8. ~ raced[w] =>
         /\ rows[i].email = login[w].profile.email
         /\ WithGoogle(login[w].profile.google_id) = {}
  BY <1>5, <1>6, LoginFacts DEF Calm
<1> QED
  BY <1>5, <1>7, <1>8

\* A user is tied to a Google account by the email only, and only to an account
\* that has no user, unless the table changed under the login.
THEOREM LinksGoByEmail == GoogleSpec => LinkGoesByEmail
<1>1. GoogleInv /\ [GoogleNext]_googleVars =>
        [\A i \in Stored : rows'[i] # NoUser /\ rows'[i].google # rows[i].google =>
            \E w \in Workers :
              /\ login[w].at = "link"
              /\ rows'[i].google = login[w].profile.google_id
              /\ ~ raced[w] =>
                    /\ rows[i].email = login[w].profile.email
                    /\ WithGoogle(login[w].profile.google_id) = {}]_googleVars
  BY TiesByEmail
<1> QED
  BY GoogleInitInv, GoogleNextInv, <1>1, PTL DEF GoogleSpec, LinkGoesByEmail
=============================================================================
