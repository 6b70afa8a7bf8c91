------------------------------ MODULE UserAccounts ------------------------------
(***************************************************************************)
(* The table users, and the requests that write it: register, Google login *)
(* (AuthApplicationService), and the administrator's store, update and     *)
(* destroy (UserApplicationService).                                       *)
(*                                                                         *)
(* Each of them reads before it writes, in statements of their own, so the *)
(* row it has read may have changed or gone when it writes.  Only the two  *)
(* unique indexes of the table are checked with the write itself.          *)
(***************************************************************************)
EXTENDS Naturals, FiniteSets

CONSTANTS
    Emails,      \* values of the column email
    Subs,        \* Google subjects
    NoEmail, NoSub,
    Roles,       \* values of the column role, "operador" among them
    Statuses,    \* values of the column status, "active" among them
    Requests,    \* requests the server can be serving at the same time
    MaxUsers     \* bound on the ids the serial column hands out

ASSUME NullsAreNoValues == NoEmail \notin Emails /\ NoSub \notin Subs

ASSUME Defaults == "operador" \in Roles /\ "active" \in Statuses

ASSUME UsersBound == MaxUsers \in Nat

Ids == 1..MaxUsers

VARIABLES
    account,   \* the table: the row of each id, or NoAccount
    issued,    \* the last id the serial column handed out
    req        \* program counter and locals of each request being served

vars == <<account, issued, req>>

-----------------------------------------------------------------------------
\* Data.

Row == [email         : Emails \cup {NoEmail},
        provider      : {"local", "google"},
        google_sub    : Subs \cup {NoSub},
        password_hash : BOOLEAN,                  \* whether it is not null
        role          : Roles,
        status        : Statuses]

Fields == {"email", "provider", "google_sub", "password_hash", "role", "status"}

NoAccount == [email |-> NoEmail, provider |-> "local", google_sub |-> NoSub,
              password_hash |-> FALSE, role |-> "operador", status |-> "active"]

\* What a request writes: a row to insert, or the columns named of row id, with
\* their values in change.  asked is a history field: the fields a PATCH came with.
Request == [pc     : {"idle", "insert", "google_email", "check_email", "update"},
            id     : 0..MaxUsers,
            asked  : SUBSET Fields,
            named  : SUBSET Fields,
            change : Row]

Holding(pc, row) == [pc |-> pc, id |-> 0, asked |-> {}, named |-> {}, change |-> row]

Idle == Holding("idle", NoAccount)

Exists(i) == account[i].email # NoEmail
HasEmail(e) == \E i \in Ids : account[i].email = e
HasSub(s) == \E i \in Ids : account[i].google_sub = s

\* The row register and store write.
LocalRow(e, role, status) ==
    [email |-> e, provider |-> "local", google_sub |-> NoSub,
     password_hash |-> TRUE, role |-> role, status |-> status]

\* The row google writes for a new user.
GoogleRow(e, s) ==
    [email |-> e, provider |-> "google", google_sub |-> s,
     password_hash |-> FALSE, role |-> "operador", status |-> "active"]

\* What the indexes users_email_unique and users_google_sub_unique admit as row i.
Admitted(i, row) ==
    \A k \in Ids \ {i} : Exists(k) =>
        /\ account[k].email # row.email
        /\ row.google_sub # NoSub => account[k].google_sub # row.google_sub

-----------------------------------------------------------------------------
\* userRepository.store.

\* findByEmail, by register or by store: 409 if the email is taken.
FindEmail(r, e, role, status) ==
    /\ req[r] = Idle
    /\ ~ HasEmail(e)
    /\ req' = [req EXCEPT ![r] = Holding("insert", LocalRow(e, role, status))]
    /\ UNCHANGED <<account, issued>>

\* Mutant of Insert: there are no unique indexes.
InsertUnchecked(r) ==
    /\ req[r].pc = "insert"
    /\ issued < MaxUsers
    /\ issued' = issued + 1
    /\ account' = [account EXCEPT ![issued + 1] = req[r].change]
    /\ req' = [req EXCEPT ![r] = Idle]

\* INSERT ... RETURNING.  A duplicate is an error of the statement, which draws
\* an id all the same.
Insert(r) ==
    /\ req[r].pc = "insert"
    /\ issued < MaxUsers
    /\ issued' = issued + 1
    /\ account' = IF Admitted(issued + 1, req[r].change)
                    THEN [account EXCEPT ![issued + 1] = req[r].change]
                    ELSE account
    /\ req' = [req EXCEPT ![r] = Idle]

-----------------------------------------------------------------------------
\* POST /auth/google, with the subject and the email of a verified id token.

\* findByGoogleSub: a known subject is signed in and writes nothing here.
FindSub(r, s, e) ==
    /\ req[r] = Idle
    /\ ~ HasSub(s)
    /\ req' = [req EXCEPT ![r] = Holding("google_email", GoogleRow(e, s))]
    /\ UNCHANGED <<account, issued>>

\* Mutant of GoogleEmail: the link sets the provider alone.
GoogleEmailProviderOnly(r) ==
    /\ req[r].pc = "google_email"
    /\ \/ \E i \in Ids :
            /\ account[i].email = req[r].change.email
            /\ req' = [req EXCEPT ![r].pc = "update", ![r].id = i, ![r].named = {"provider"}]
       \/ /\ ~ HasEmail(req[r].change.email)
          /\ req' = [req EXCEPT ![r].pc = "insert"]
    /\ UNCHANGED <<account, issued>>

\* findByEmail: the user it finds will be linked, or a new one is inserted.
GoogleEmail(r) ==
    /\ req[r].pc = "google_email"
    /\ \/ \E i \in Ids :
            /\ account[i].email = req[r].change.email
            /\ req' = [req EXCEPT ![r] =
                 [pc |-> "update", id |-> i, asked |-> {},
                  named |-> {"provider", "google_sub"}, change |-> @.change]]
       \/ /\ ~ HasEmail(req[r].change.email)
          /\ req' = [req EXCEPT ![r].pc = "insert"]
    /\ UNCHANGED <<account, issued>>

-----------------------------------------------------------------------------
\* PATCH /users/:id.

\* The columns the service sets for the body userUpdateSchema lets through.  The
\* schema is the partial of userStoreSchema and keeps its defaults, so role and
\* status are there even if the body did not have them; a password brings provider.
Named(body) ==
    body \cup {"role", "status"}
         \cup (IF "password_hash" \in body THEN {"provider"} ELSE {})

\* Their values, defaults in place of what the body does not have.
Parsed(body, e, role, status) ==
    LocalRow(IF "email" \in body THEN e ELSE NoEmail,
             IF "role" \in body THEN role ELSE "operador",
             IF "status" \in body THEN status ELSE "active")

\* findById, 404 without a row, and whether the email is to be checked.
UpdateFind(r, i, body, e, role, status) ==
    /\ req[r] = Idle
    /\ Exists(i)
    /\ req' = [req EXCEPT ![r] =
         [pc |-> IF "email" \in body /\ e # account[i].email THEN "check_email" ELSE "update",
          id |-> i, asked |-> body, named |-> Named(body),
          change |-> Parsed(body, e, role, status)]]
    /\ UNCHANGED <<account, issued>>

\* ensureEmailIsAvailable: 409 if it is not.
CheckEmail(r) ==
    /\ req[r].pc = "check_email"
    /\ req' = [req EXCEPT ![r] =
         IF HasEmail(req[r].change.email) THEN Idle ELSE [@ EXCEPT !.pc = "update"]]
    /\ UNCHANGED <<account, issued>>

\* Row i after the columns named in the request were set.
Updated(r, i) ==
    [f \in Fields |-> IF f \in req[r].named THEN req[r].change[f] ELSE account[i][f]]

\* Mutant of Update: the whole row is saved, inserted again if it has gone.
UpdateUpserting(r) ==
    LET i == req[r].id
    IN  /\ req[r].pc = "update"
        /\ account' = IF Admitted(i, req[r].change)
                        THEN [account EXCEPT ![i] = req[r].change]
                        ELSE account
        /\ req' = [req EXCEPT ![r] = Idle]
        /\ UNCHANGED issued

\* UPDATE ... WHERE id, of update and of google's link: 404 or 401 if the row has
\* gone meanwhile, an error if an index refuses it.
Update(r) ==
    LET i == req[r].id
    IN  /\ req[r].pc = "update"
        /\ account' = IF Exists(i) /\ Admitted(i, Updated(r, i))
                        THEN [account EXCEPT ![i] = Updated(r, i)]
                        ELSE account
        /\ req' = [req EXCEPT ![r] = Idle]
        /\ UNCHANGED issued

-----------------------------------------------------------------------------
\* DELETE /users/:id, one statement.
Destroy(i) ==
    /\ Exists(i)
    /\ account' = [account EXCEPT ![i] = NoAccount]
    /\ UNCHANGED <<issued, req>>

\* The process serving r stops, or a statement fails: its locals are lost.
Crash(r) ==
    /\ req[r] # Idle
    /\ req' = [req EXCEPT ![r] = Idle]
    /\ UNCHANGED <<account, issued>>

-----------------------------------------------------------------------------

Init ==
    /\ account = [i \in Ids |-> NoAccount]
    /\ issued = 0
    /\ req = [r \in Requests |-> Idle]

\* What the body of a PATCH may have.
Bodies == SUBSET {"email", "password_hash", "role", "status"}

Serve(r) ==
    \/ \E e \in Emails, role \in Roles, status \in Statuses : FindEmail(r, e, role, status)
    \/ Insert(r)
    \/ \E s \in Subs, e \in Emails : FindSub(r, s, e)
    \/ GoogleEmail(r)
    \/ \E i \in Ids, body \in Bodies, e \in Emails, role \in Roles, status \in Statuses :
         UpdateFind(r, i, body, e, role, status)
    \/ CheckEmail(r)
    \/ Update(r)
    \/ Crash(r)

Next ==
    \/ \E r \in Requests : Serve(r)
    \/ \E i \in Ids : Destroy(i)

Spec == Init /\ [][Next]_vars

-----------------------------------------------------------------------------
\* Properties.

\* Type invariant of the table and of the requests' locals.
TypeOK ==
    /\ account \in [Ids -> Row]
    /\ issued \in 0..MaxUsers
    /\ req \in [Requests -> Request]

\* An email and a Google subject belong to at most one user, although requests
\* check an email in one statement and write it in a later one.
OneUserPerIdentity ==
    \A i, k \in Ids :
        Exists(i) /\ Exists(k) /\ i # k =>
            /\ account[i].email # account[k].email
            /\ account[i].google_sub # NoSub => account[i].google_sub # account[k].google_sub

\* A user has the credential its provider says it signs in with, whatever
\* updates and Google links interleave: each writes both columns together.
ProviderHasCredential ==
    \A i \in Ids : Exists(i) =>
        IF account[i].provider = "google"
          THEN account[i].google_sub # NoSub
          ELSE account[i].password_hash

\* A user that was destroyed does not come back: a request that read the row
\* before writes nothing, and its id is not handed out again.
DestroyedForGood ==
    [][\A i \in Ids : i <= issued /\ ~ Exists(i) => ~ Exists(i)']_vars

\* No write of one kind undoes what another wrote between its read and its write:
\* a Google link survives any update, and a password survives any link.
CredentialsSurvive ==
    [][\A i \in Ids : Exists(i) /\ Exists(i)' =>
        /\ account[i].google_sub # NoSub => account'[i].google_sub # NoSub
        /\ account[i].password_hash => account'[i].password_hash]_vars

\* "construye update parcial" (user.application-service.test.ts:119), and the
\* guards of update: a PATCH writes a column only if its body has the field.
PatchIsPartial ==
    [][\A r \in Requests, i \in Ids :
         req[r].pc = "update" /\ req[r].id = i /\ req'[r] = Idle /\ Exists(i)' =>
            /\ "role" \notin req[r].asked => account'[i].role = account[i].role
            /\ "status" \notin req[r].asked => account'[i].status = account[i].status]_vars

-----------------------------------------------------------------------------
\* The abstract tables of emails and of Google subjects.

EmailTable == INSTANCE UniqueTable WITH
    MaxId <- MaxUsers,
    Keys <- Emails,
    NoKey <- NoEmail,
    present <- {i \in Ids : Exists(i)},
    key <- [i \in Ids |-> account[i].email]

SubjectTable == INSTANCE UniqueTable WITH
    MaxId <- MaxUsers,
    Keys <- Subs,
    NoKey <- NoSub,
    present <- {i \in Ids : Exists(i)},
    key <- [i \in Ids |-> IF Exists(i) THEN account[i].google_sub ELSE NoSub]

\* Registrations, Google logins and updates look for an email or a subject, and
\* write it one or two statements later.  Whatever ran in between, each of the two
\* columns changes as in a table with one writer: rows come under new ids, with
\* what is free at that moment, an identity once linked stays linked, and a row
\* that is gone is not written.
ImplementsUniqueTables == EmailTable!TableSpec /\ SubjectTable!TableSpec

-----------------------------------------------------------------------------
\* The inductive invariant: what a request holds can be written at any time.

\* An id the serial column has yet to hand out is nobody's.
FreshIdsFree == \A i \in Ids : i > issued => ~ Exists(i)

\* A row to insert has an email and its credential.
InsertsWellFormed ==
    \A r \in Requests : req[r].pc \in {"insert", "google_email"} =>
        /\ req[r].change.email # NoEmail
        /\ IF req[r].change.provider = "google"
             THEN req[r].change.google_sub # NoSub
             ELSE req[r].change.password_hash
        /\ req[r].pc = "google_email" => req[r].change.provider = "google"

\* The columns to set name a row that once was, clear no identity or credential,
\* and name the provider only with its credential.
UpdatesWellFormed ==
    \A r \in Requests : req[r].pc \in {"check_email", "update"} =>
        LET N == req[r].named
            c == req[r].change
        IN  /\ req[r].id \in Ids /\ req[r].id <= issued
            /\ "email" \in N => c.email # NoEmail
            /\ "google_sub" \in N => c.google_sub # NoSub
            /\ "password_hash" \in N => c.password_hash
            /\ "provider" \in N =>
                 IF c.provider = "google" THEN "google_sub" \in N ELSE "password_hash" \in N

IInv ==
    /\ TypeOK
    /\ FreshIdsFree
    /\ InsertsWellFormed
    /\ UpdatesWellFormed
    /\ OneUserPerIdentity
    /\ ProviderHasCredential

=============================================================================
