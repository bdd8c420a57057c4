# Formal model of the accounts service

TLA+ models of the accounts service of the Rasekhoon academy (Django REST
framework, PostgreSQL, Redis), the TLC instances that check them and the TLAPS
proofs about them. Paths below are relative to the repository root; line numbers
are those of the files in `src/`.

## The system

One Django application, `accounts`, behind several worker processes that share a
PostgreSQL database and a Redis cache. Requests of different users, and of one
user in two tabs, run at the same time. `settings.DATABASES` sets neither
`ATOMIC_REQUESTS` nor an isolation level, and no view opens a transaction, so
each query commits by itself; every cache call is one Redis command.

| Component | Code | State | Operations |
|---|---|---|---|
| One-time codes | `services/otp.py` | Redis: the hashed code and the attempt counter of a (number, purpose), the throttle counter of a number | `is_throttled`, `request_otp`, `verify_otp` |
| Text messages | `services/sms/`, `registration.py`, `password_reset.py` | none | request a code, text it |
| Sign-up | `RegisterSerializer`, `VerifyOTPSerializer` | rows of `accounts_user` | register, verify the number |
| Sessions | `services/tokens.py`, `authentication.py`, `cookies.py`, login, refresh, logout and change-password views | signed tokens (kept by the browser), Redis: revoked `jti`s | login, refresh with rotation, logout, change of password, authentication of a request |
| Forgotten password | three `ForgotPassword...` serializers, `PasswordResetToken` | signed reset tokens (kept by the client), the password column | request, verify, confirm |
| Roles | `ChangeUserRoleSerializer`, `SupportRoleSerializer` and views, `User.clean`, `IsAdminRole` | `user_type`, `support_role`, table of support roles | give a role; create, edit, delete a support role |
| Admin panel | `admin.py` | the same tables | edit a user, among other forms |
| Role migrations | migrations 0003, 0004 | the same tables | apply, revert |
| Login with Google | `services/google_auth.py`, serializer and view kept in comments | rows of `accounts_user` with `google_id` | find, link or make the user of a Google profile |

How they interact:

- Sign-up and forgotten password call the one-time codes and share a throttle
  counter per number; the codes and attempt counters are per purpose.
- The verification of a number opens the first session. A new password, from
  either flow, voids sessions and reset tokens through `pwd_sig`, a signature of
  the password hash carried by every token.
- A logout is a Redis record with a life; a refresh token is otherwise stateless.
- Sign-up, Google login, the command line and the panel write the same rows of
  users; only the unique columns keep them apart.
- Roles are read by `IsAdminRole` at each request, and copied into the token when
  a session is opened.

What is hard here: read-then-write over the cache (otp.py 85-101, 117-128,
122-133) and over the database (every serializer that validates and then saves),
stale copies of the user row, entries that expire between two steps, a worker
that dies between two steps, answers that are lost or arrive after a logout, the
truncation of expiry times to whole seconds, and migrations undone after the data
moved on. `PROJECT.json` lists each hazard at its line.

What makes each part correct: a code is good for one acceptance and a bounded number
of guesses, the number of texts is bounded and no lock is forever; an account is
active only with a password and a verified number, and no sign-up rewrites a
verified row; a session ends for one of four reasons and then stays ended; a reset
token is good for the password it was made under and not spent twice; a user has a
support role exactly when the user is support; migrations preserve that rule; a user
is tied to a Google account by a login with it and with the user's email, and
logging in with it takes nothing from that user.

## Modules

| Module | Models | Instances |
|---|---|---|
| `Otp` | `otp.py`, one action per cache operation | `MCOtp` |
| `OtpProofs` | theorems about `Otp`, with any workers and with one | |
| `Registration` (extends `Otp`) | sign-up and verification | `MCRegistration` |
| `RegistrationProofs` | theorems about `Registration` | |
| `PasswordReset` (extends `Otp`) | the three steps of a forgotten password | `MCPasswordReset` |
| `PasswordResetProofs` | theorems about `PasswordReset` | |
| `Accounts` (extends `Otp`, instantiates both) | sign-up and forgotten password over one table and one cache, with the staff | `MCAccounts` |
| `AccountsProofs` | theorems about `Accounts` with one worker | |
| `Sessions` | sessions of one user and the browsers that keep them | `MCSessions` |
| `SessionsProofs` | theorems about `Sessions`, which implements `SessionPromise` | |
| `SessionPromise` | abstract: what the sessions of a user promise | |
| `Users` | the table of users with its unique columns, and who else writes it | |
| `GoogleUsername` | the username made of an email (pure) | |
| `GoogleLogin` (extends both) | login with Google | `MCGoogleLogin` |
| `GoogleLoginProofs` | theorems about `GoogleLogin` | |
| `Roles` | roles, support roles, forms of the panel | `MCRoles` |
| `RolesProofs` | theorems about `Roles` | |
| `Migrations` | data migrations 0003 and 0004 | `MCMigrations` |
| `MigrationsProofs` | theorems about `Migrations` | |

Common conventions. A worker or request is a record whose `at` (or `pc`) names
the query or cache operation it does next; its other fields are the locals the
handler still needs. One action is one query or one cache command with the Python
that follows it up to the next one; interleavings, expiry and death happen
between actions. Exceptions nobody catches end in the outcome `"failed"` (500).
Times to live count down with `Tick`. Every property is preceded by the lines it
is about. A definition marked `Mutant` is a plausible mistake in the definition
after it; `PROJECT.json` says which property it must break.

**Otp.** `otp`, `attempts`, `throttle` are the three kinds of cache entries;
`call[w]` is the activation of `request_otp` or `verify_otp` in worker `w`, with
the value it read (`seen`) and, for the properties, whether the code it compared
with is still the stored one (`own`). A hashed code is the code itself: hashing
is taken as injective. `uses`, `wrong` and `grants` are history.

**Registration** and **PasswordReset** extend `Otp` with handlers `task[w]` that
call it: `CallRequest` and `CallVerify` start a call, `OtpStep` runs it, `Return`
takes the answer. Each has a `Die` that takes handler and call together. In
`PasswordReset` a password is the number of the `set_password` that made its
hash: salts make every hash, and `pwd_sig`, new. `epoch` is history: the password
at the moment a code was compared.

**Accounts** composes the two. A worker runs a handler of one flow at a time;
both flows share `users`, the cache and the throttle of a number. What
`PasswordReset` keeps by itself is derived here: its `account` is the flags of
the row, and its count of passwords also counts the save of a sign-up
(`SignUpStep`). A recovery and a password change write the password column of the
row too (`PasswordSaved`), so that the column and the count say two things about
one write: which password it is, and which `set_password` made the hash.
`SaveUserForm` is the panel's form, which sets `is_active` and `is_phone_verified`
of any row. A number whose `is_phone_verified` it changed is in `edited`, which is
history: the staff may vouch for a number while a sign-up code for it is out, or
take it back while a reset code or a reset token is, and the properties about a
number's verification are about the numbers verified by their codes. Deleting a
row is left to `Users`: rows here go by their number, while the reset tokens and the
handlers under way that a deletion meets go by the id of the row they read.

**Sessions.** One user, any number of browsers. `token[j]` stands for a signed
pair; the server keeps only `revoked`. A browser sends what its jar holds at that
moment, and an answer changes the jar when it is delivered (`Deliver`) or is lost
(`Lose`). The clock has `TicksPerSecond` ticks in a second since `exp` is a whole
number of seconds and `int()` in `revoke_refresh_token` truncates.
`ResetPassword`, `SetActive` and `ChangeUserRole` stand for the other modules.
`LoseCache` is a restart of the process with the in-memory cache of the
development settings, or of Redis without its data: every logout is forgotten.

**SessionPromise** knows neither lifetimes nor caches nor queries: each refresh
token is not issued, live, logged out, in its last second, or void, and each
request is entitled to a new token by the password, by a live token, or not.
`Sessions!PromiseKept` maps the state of `Sessions` to it (`Life`, `Right`): a
token is void once it expired or its signature no longer matches; a request past
the comparison of the password is entitled as long as that is the stored one.

**Users**, **GoogleUsername**, **GoogleLogin.** `rows[id]` is a row or `NoUser`;
`Insert` and `Update` ask the unique columns, NULL being equal to nothing. `Others`
is everybody who is not a Google login, each in one step: sign-up and verification
(`Registration` has them query by query), `createsuperuser`, and the staff, who sets
the two flags of a row (`SaveUserForm`) or deletes it. `login[w]` is the request a
worker serves, with the copy of the row as far as it is used (`id`, `active`).
`raced[w]` is history: somebody else wrote the table meanwhile. The username loop is
one action per draw (`Draw`). In `GoogleUsername` a name is a sequence of
characters.

**Roles.** A request of an admin advances by queries. Foreign keys and unique
names are asked at the write. A form of the panel is one action: Django's admin
wraps a change in a transaction.

**Migrations.** Each migration is one atomic step (PostgreSQL runs it in one
transaction), forward and backward, with what each release lets admins do between
them. `saved` and `reverted` are history.

## Runs

| Run | Instance | Shows |
|---|---|---|
| `otp_race` | 2 workers, 2 codes, limits 2, lives 2 and 3 s, deaths | shape of the cache; `CountedGuessOutlivesCode`; bounds on what races overrun (`ThrottleOvershoot`, `AcceptOvershoot`); `LockReopens`, `ThrottleReopens` |
| `otp_races_attempt_cap` | 2 workers | `AttemptCap` is violated |
| `reg_race` | 2 workers, 2 numbers, 2 forms with one email, deaths | `ActiveHasPassword` |
| `accounts` | 1 worker, 2 numbers, 2 purposes, 3 sign-ups, one email and one username twice, 2 codes in a window of 2 s, deaths, staff | the documented limits exactly: `SingleUse`, `AttemptCap`, `SendCap`; `TextedCodeIsFresh`, `NoCodeOnceVerified`, `ResetIsForVerified`, `SignUpsSpareVerified`, `CreatedMeansGranted`, `FailsOnDraftEmail` |
| `reg_races_verified` | 2 workers | `VerifiedIsKept` is violated |
| `sessions_tabs` | 2 requests under way, 2 ticks a second, loss of the cache | `OldSessionsDie`, `RevokedToTheLastSecond`, `SlidingSession`; `PromiseKept`, the refinement of `SessionPromise` |
| `sessions_one_tab` | a browser that waits or gives up | `LogoutSticks` |
| `sessions_role` | a change of role between login and refresh | `RefreshRenewsRole` is violated |
| `reset_race` | 2 workers, deaths, 3 changes of password | `TokenDiesWithPassword`, `ConcurrentSpends`, `SpentTokenIsRefused` |
| `roles_race` | 2 requests and the panel's forms, 2 support roles | `SupportHasRole`; in the type invariant, no dangling reference and unique names |
| `google_login` | 2 logins, 1 Google account with 2 emails, 1 number, 3 rows, 4 usernames | `LinkGoesByEmail`, `AnswersForItsUser`, `FailsOnlyInRace`, `LinkWritesOneColumn`, `LoginIsAnswered`; the assumption `UsernameRule` on 5461 local parts |
| `migrations` | 2 users, 3 seeded roles and 1 more | `NoLegacyRole`, `ArriveConsistent`, `RoundTrip` |

**Bounds.** Two workers are the fewest that race; the counting properties are stated
for `Cardinality(Workers)`, and what is proved is proved for any number. Limits of 2
are the fewest at which a counter takes a value between none and locked; lives of 2
and 3 seconds let the code, its counter and the throttle lapse in every order. For
codes one number suffices, since no action touches the entries of another; for
sign-ups it takes two, which meet over the unique columns; two purposes are needed
for the shared throttle. Two codes are one right and one wrong. Two token pairs are
a login and its rotation, or two logins. `reset_race` sets all limits and lives to
one, so that one token, three saved passwords and two workers with deaths stay below
the time TLC has. `accounts` has one worker, which its properties need (the runs
with two are `otp_race`, `reg_race` and `reset_race`, which ask what then is left of
them). The throttle grants two codes in a window of two seconds, so that one flow
meets a count the other left, in the middle and at the limit; the other lives are
one second, and the guesses at a code one. The sign-ups it tries (`Submissions`) are
two forms for one number and one for the other, which shares the email with the
first and the username with the second; the passwords of the forms are also what a
recovery saves. Only the first number forgets its password and is known to the staff
(`Known`). In `google_login` two logins and one row of somebody else meet over every
unique column; e2 is e1 with its domain in capitals, and the Google account has now
one and now the other, so that account and email may belong to two users. Everybody
else asks for two usernames (`OthersNames`), and the staff opens the form of one
user (`Known`). All emails want the same username, and there is one draw more than a
login can find taken. The length at which a name is cut is 4 there instead of 24, so
that the cut happens among the local parts of up to 6 characters. `MaxTokens`,
`MaxPasswords`, `MaxResetTokens`, `Submissions`, `Known`, `OthersNames`, `RoleIds`,
`MaxUsers`, `ExtraIds` and `ExtraNames` are the only bounds on what the code leaves
unbounded; at a bound the actions that would exceed it are disabled. Symmetry is
used for sets whose elements no definition tells apart, and never with liveness.

**Deadlock** is checked in every run.

**Fairness.** `Otp!LiveSpec` assumes only `WF_vars(Tick)`: time goes on. Workers
need not proceed, so liveness is owed to expiry alone. `GoogleFairSpec` assumes
that a worker which can take a step of its request takes one in the end (`WF` of
`Serve`: a worker is a thread that runs until it answers), and that a loop over
usernames that could hit a free name at every draw does so in the end (`WF` of
`DrawsFree`: `secrets.randbelow` draws independently). The second is no fairness
of the scheduler but of the draws, and needs a free name: with all 9000 taken the
loop of the code would not end.

## What the code does that its comments do not say

Three of these are runs of their own: overlapping wrong guesses are counted once
(`otp_races_attempt_cap`), a number verified between validation and upsert is set
back to unverified (`reg_races_verified`), a refresh copies the role claim
(`sessions_role`). Met while modelling, part of the models, without a run:

- `request_otp` raises `ValueError` when the throttle entry lapses between
  otp.py 85 and 101, after storing a code it then does not text (`CountFails`).
  The first step of a forgotten password, which views.py 258 says always answers
  200, then answers 500.
- Two verifications that both compare before either deletes are both accepted
  (`AcceptOvershoot` says how many can be); the same holds of a reset token
  (`ConcurrentSpends`), which tokens.py 127-128 calls single-use.
- `request_otp`'s refusal is dropped by `RegisterSerializer.create` (line 106):
  two sign-ups that pass `is_throttled` together both answer 201.
- A number signing up again with its own username is refused (serializers.py 68);
  an email held by another unverified row passes validation and fails in the
  table (line 73), with an `IntegrityError` nothing catches.
- `int()` in tokens.py 174 ends a revocation up to a second before the token,
  which lines 161-163 say it equals (`RevokedToTheLastSecond` is what holds).
- With two tabs, a refresh that passed the revocation check before a logout hands
  the browser a new session after it; `LogoutSticks` holds for one tab only.
- settings.py 231-232 says a rotated refresh token becomes void; lines 236-242
  explain that it does not. `UPDATE_LAST_LOGIN` (line 244) has no effect, since the
  login view does not use simplejwt's serializer.
- A password saved between the check of the old one and the save of a new one is
  overwritten, by change-password and by the reset alike.
- `PATCH` without `user_type` raises `KeyError` (serializers.py 349, `PickFails`);
  deleting a role that is given meanwhile fails with an error views.py 415 does
  not catch; a role deactivated or picked in the panel can still be given; an edit
  of a role deleted meanwhile inserts it again, and overlapping edits lose one.
- google_auth.py 71-72 says that the username it makes follows the rule of the
  column. It may not: taking characters out can bring two dots together
  (`a.+.b@…`), and the cut to 24 comes after the dots were stripped.
  `RuleOrTwoCases` says that nothing else goes wrong.
- A Google login that races another sign-up for its email, username or Google id
  ends in an `IntegrityError` nothing catches (`LinkFails`, `CreateFails`). A user
  that already has a Google id and is found by email gets the new id in its place.
  A link that is raced may tie a row whose email was changed meanwhile.
- The panel may set or clear `is_phone_verified` while codes or reset tokens of the
  number are out: a sign-up code then verifies the number again, which also lifts
  a block, and a reset token of a number that is no longer verified still works.
- google_auth.py 95-97 lets a user of Google add a number later; no endpoint does.
- `create_user` normalizes the domain of an email, sign-up and Google login do
  not, so that one mailbox may have two users.
- Admins may demote each other until none is left.
- Reverting 0004 loses roles that were added or renamed, and reverting 0003 turns
  only `general` support into supervisors.

## Proofs

`tlapm` checks every proof to the last leaf. Eight modules hold theorems.

Assumptions, all on constants and evaluated by TLC in every run that uses the
module: `LimitsAssumption` (limits and lives are positive integers),
`NoCodeAssumption` (`NoCode` is no code), `RegisterPurpose` and `ResetPurpose` (the
purpose exists), `FormsAssumption` (a form has a password), `ResetAssumption` and
`SessionsAssumption` (lives and bounds are numbers), `RolesAssumption`,
`MissingType`, `NoRowAssumption`, `UsersAssumption` and `NoUserAssumption` (values
that stand for "none" are none of the others), `GoogleAssumption` (profiles and
usernames are in their sets), `AccountsAssumption` (what the two flows ask of their
constants) and `MigrationsAssumption` (no id and no name is the one that stands for
"none", and ids given later are new). Sets of workers, numbers, purposes and codes
are arbitrary.

**OtpProofs.** `TypeCorrect` and `CountedGuessOutlives`. Neither property is
inductive. `IInv` adds, to what the cache may hold (`CacheInv`), what a call may
carry from one cache operation to the next (`CallInv`): a call past the lock read
a count below the cap, so that the count it writes back, however stale, is within
the cap; and the counter is always written with the full life of a code, so that
it cannot lapse before a code stored earlier. The proof has one step per action
and under it one per half of the invariant. Deaths are actions like the others.

Two more theorems say by how much races overrun the limits, for any finite set of
workers. `AcceptancesAreBounded` (of `AcceptOvershoot`): acceptances of a code and
workers that compared it right are together at most the workers (`UseOk`), and
workers join the second group only while the code is stored, when it was accepted
by nobody. `GrantsAreBounded` (of `ThrottleOvershoot`): requests that read no
counter will each restart the count, and none joins them while a counter is live;
the bound on the grants so far is a function of how many of them are left
(`Within`), which each restart raises by the most a count can reach. The
arithmetic stands in lemmas of its own.

With one worker: `SerialCodesAreSingleUse`, `SerialGuessesAreCapped`,
`SerialSendsAreCapped`, `SerialTextsAreFresh`, each under the hypothesis
`OneWorker`: `\A v, w \in Workers : v = w`, for any numbers, purposes and limits
and with deaths anywhere. The history is tied to the cache: a code that is stored
has no use and no more wrong guesses than its counter says (`KeyOk`), grants are
no more than the throttle's count (`PhoneOk`), and what the only call has read is
still in the cache or has lapsed (`CallOk`). The last part is what a second worker
breaks; `otp_races_attempt_cap` and the bounds of `otp_race` show by how much.

**PasswordResetProofs.** `ResetTypeCorrect`, `TokensDieWithPassword`,
`SpentTokensAreRefused` and `SpendsAreBounded`. Passwords are counted, so that the
argument is a chain of inequalities: the copy of the user a handler works on is no
newer than the password at the comparison of the code, which is no newer than the
stored one (`CallerInv`); a token inherits the chain as signature, epoch and stored
password (`TokenInv`), and each new password only lengthens it. When the two ends
are equal, so is the middle. A token that was spent was signed with a password that
is gone. `SpendsAreBounded` (of `ConcurrentSpends`) is for finitely many workers:
saves done and workers about to save with a token are together at most the workers
(`SpendInv`), since a save takes one from the second to the first and nobody passes
the check once one has saved. For the chain to start, a call of `otp.py` must belong
to the handler that waits for it, which is the other half of `CallerInv`. The part
about the cache (`IInv`) comes from `OtpProofs`: every step of a handler that
touches the cache is a step of `Otp`, or the death of a worker.

**SessionsProofs.** `SessionsTypeCorrect`, `OldSessionsEnd` (of `OldSessionsDie`),
`LogoutOutlivesToken` (of `RevokedToTheLastSecond`), `SessionsSlide` (of
`SlidingSession`) and `LogoutsStick` (of `LogoutSticks`), under
`SessionsAssumption`: lifetimes and ticks per second are positive. A request about
to mint carries the password it compared as the one it signs with (`GoodRequest`),
no newer than the stored one, and a rotation copies the signature (`GoodToken`).
The record of a logout lacks less than a second of its token's life when it is
written, by the arithmetic of `RevocationLife`, and both lose a tick together
(`RevokedInv`); for that, a logged out token is one that was issued, so that no
new pair takes its place. Requests may race, be lost or be given up; `OneTab` and
`TicksPerSecond` are arbitrary but in the last theorem. A refresh that ends ended
in a check of its own (`EndOfRefresh`), and the invariant turns each check into
one of the four reasons. `LogoutsStick` assumes what its run sets: `OneTab`, a
cache that keeps its records and an exact `exp`. Then at most one request of a
browser is still waited for (`OneAwaited`), so that when the answer to a logout
arrives, nothing sent with the cookie can bring a token after it (`OutInv`).

The refinement is `SessionsKeepPromise`: `SessionsSpec => PromiseKept`, for any
browsers, requests, lifetimes and clocks. With `SessionsInv`, each step of
`Sessions` maps to one step of `SessionPromise` or to a stutter: most only move or
drop the right of one request (`LosesRight`); an issue is `IssueLive` when the
signer's password is still the stored one and `IssueVoid` when it is not; a tick is
`Age`, for which the record of a logout must not lapse before the last second of its
token.

**GoogleLoginProofs.** `GoogleTypeCorrect`, `LinksGoByEmail` (of `LinkGoesByEmail`),
`LoginsAnswerForTheirUser` (of `AnswersForItsUser`), `LoginsFailInRacesOnly` (of
`FailsOnlyInRace`) and `LinksWriteOneColumn`. The unique columns are an invariant of
the table whoever writes it (`Unique`). To a login that was not raced, everything
its lookups saw is still so (`Calm`): nobody has its Google id, then somebody, or
nobody, its email, then nobody its username, so that the INSERT or UPDATE clashes
with nothing and ends at the only row with the Google id. A step of anybody else
that writes the table sets `raced`, which ends the claim. For `LinksGoByEmail` every
other writer is shown to leave the ties of stored rows as they are
(`OthersKeepTies`; a sign-up that starts a row over is the case that could fail),
and the link is read off `Calm`: its row still has the email of the profile, and the
account still nobody. `LinksWriteOneColumn` (of `LinkWritesOneColumn`) needs no such
hypothesis: of the steps that change a login, only the link writes a stored row.

**RegistrationProofs.** `RegTypeCorrect` and `ActiveUsersHavePassword` (of
`ActiveHasPassword`). Rows and passwords only come, they never go (`RowsStay`).
A handler past the password, a call that compared a code and a stored code each
imply that the number's row has one (`GoodTask`, `GoodCaller`, `CodeInv`), so a
row cannot become active before. As with the reset, a call belongs to the handler
that waits for it, and the cache part comes from `OtpProofs`.

**RolesProofs.** `RolesTypeCorrect` (references and unique names) and
`SupportAlwaysHasRole` (of `SupportHasRole`). A request past `PickRole` carries a
consistent pair by itself, so nothing that runs before the write can spoil it; an
edit past its load carries an id that was given, so that a row it brings back
does not share its id with a later one.

**AccountsProofs.** With one worker that may die anywhere, `AccountsInv` is what one
worker gives to `otp.py` (`SerialInv` of `OtpProofs`) and what it gives to the
handlers (`FlowInv`). The names that `Otp` has in `Registration`, in `PasswordReset`
and in `Accounts` are first shown to be the same (`SignUpCalls`, `RecoveryRequests`
and the like), so that every step is, to the cache, a step of `Otp`, the death of a
call or nothing. What a validator found is still so when the row is written
(`FormOk`), what a handler knows of its row too (`RowOk`), a call belongs to one
handler (`CallerOk`), and its answer means what the handler takes it for
(`AnswerOk`): that a code compared as a sign-up code proves the number unverified,
and as a reset code proves it verified, is what keeps the purposes apart
(`PurposesOk`). There is one lemma per step of a flow, and one, `OutsideFlow`, for
what the staff, the signed-in user and the clock may do while a handler is half way.
What rests on a number's verification is claimed of numbers outside `edited` only,
which is what lets the panel change the flag at any moment. From it come
`AccountsTypeCorrect`, `VerifiedHasNoCode` (of `NoCodeOnceVerified`),
`OnlyVerifiedReset` (of `ResetIsForVerified`), the four promises of `otp.py` with
both callers (`AccountsCodesAreSingleUse`, `AccountsGuessesAreCapped`,
`AccountsSendsAreCapped`, `AccountsTextsAreFresh`) and the action properties
`SignUpsSpareVerifiedRows` (of `SignUpsSpareVerified`), `CreatedIsGranted` and
`OnlyDraftEmailFails`. For the first, each write of a sign-up is shown to find its
row not verified (`RowOk`): what `validate_phone_number` found lasts until the
upsert and the password, and a code that was accepted proves it of the activation.
The hypothesis `OneWorker` is needed: with two, a number may be verified between the
validation of a form and its upsert (`reg_races_verified`), and a code may be
counted twice.

**MigrationsProofs.** `MigrationsTypeCorrect`, `LegacyRoleIsGone` (of
`NoLegacyRole`), `RowsArriveConsistent` (of `ArriveConsistent`) and
`MigrationsRoundTrip`, for any users, roles and names. At each version the columns
hold what that version has (`TableInv`); going back to 2, 0003 leaves the support
users it does not know as they are, so that version has more rows than it was
released with. Rows that arrived by going forward only obey the rule of version 2
as well (`ArriveInv`), which `ArriveConsistent` does not state. For the round trip
over two migrations the last one is not enough: what is saved of each version is
the image of what is saved of the version before, as long as nobody changed a role
(`SavedInv`).

**Only model-checked.** Liveness (`LockReopens`, `ThrottleReopens`,
`LoginIsAnswered`), which the prover cannot express. `UsernameRule` is evaluated
over bounded inputs: the functions it is about are given by their definitions,
and what they compute for every input would need induction over sequences. The
three properties the code does not keep (the runs that expect a violation) are
counterexamples, not theorems.

## Not modelled

- The list of users and other reads: they change nothing. Permission classes no
  view uses.
- DRF's rate throttles: library code; no property leans on them.
- Schema migrations 0001 and 0002 as operations: they move no data. The columns
  they make are those of `Users`, `Migrations` and `Registration`.
- The HTTP requests to sms.ir and to Google: of the first no caller reads the
  outcome, the second is a choice of `VerifyIdToken`.
- The panel's forms for the other columns of a user, and wiring. The deletion of a
  user is in `Users`, not in `Accounts`.
- The in-memory cache of the development settings with several processes, each
  with codes and revocations of its own: settings.py 168-172 rules it out.

## Plan

1. Done: the modules above, their runs, the proofs listed.
2. An abstract sign-up (no row, unverified, verified) that `Registration`
   implements, with the steps that races add named.
