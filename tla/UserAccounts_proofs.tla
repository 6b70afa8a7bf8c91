---------------------------- MODULE UserAccounts_proofs ----------------------------
(***************************************************************************)
(* Proofs about UserAccounts, for every number of users and of concurrent  *)
(* requests and every set of emails, subjects, roles and statuses.         *)
(*                                                                         *)
(* A request that has read a row writes later, when the row may be another *)
(* one or none.  What makes that harmless is a property of what it holds:  *)
(* InsertsWellFormed and UpdatesWellFormed say it may be written whatever  *)
(* the row has become.                                                     *)
(***************************************************************************)
EXTENDS UserAccounts, TLAPS

\* A row with the named columns of change set is a row, column by column.
LEMMA UpdatedRow ==
  ASSUME TypeOK, NEW r \in Requests, NEW i \in Ids
  PROVE  /\ Updated(r, i) \in Row
         /\ \A f \in Fields :
              Updated(r, i)[f] = IF f \in req[r].named THEN req[r].change[f] ELSE account[i][f]
<1>1. /\ req[r].change \in Row /\ account[i] \in Row
      /\ req[r].named \in SUBSET Fields
  BY DEF TypeOK, Request
<1> QED BY <1>1 DEF Updated, Fields, Row

\* A step that leaves the table alone keeps what only depends on it.
LEMMA TableKept ==
  ASSUME IInv, account' = account, issued' = issued
  PROVE  FreshIdsFree' /\ OneUserPerIdentity' /\ ProviderHasCredential'
BY DEF IInv, FreshIdsFree, OneUserPerIdentity, ProviderHasCredential, Exists

\* The empty table and the idle requests satisfy the invariant.
LEMMA InitIInv == Init => IInv
<1> SUFFICES ASSUME Init PROVE IInv
  OBVIOUS
<1>1. \A i \in Ids : ~ Exists(i)
  BY DEF Init, Exists, NoAccount
<1>2. TypeOK
  BY Defaults, UsersBound DEF Init, TypeOK, Row, Request, NoAccount, Idle, Holding, Fields
<1>3. InsertsWellFormed /\ UpdatesWellFormed
  BY DEF Init, InsertsWellFormed, UpdatesWellFormed, Idle, Holding
<1> QED BY <1>1, <1>2, <1>3 DEF IInv, FreshIdsFree, OneUserPerIdentity, ProviderHasCredential

\* register and store: the email was free when it was looked up.
LEMMA FindEmailKeeps ==
  ASSUME IInv, NEW r \in Requests, NEW e \in Emails, NEW role \in Roles, NEW status \in Statuses,
         FindEmail(r, e, role, status)
  PROVE  IInv'
<1> DEFINE new == Holding("insert", LocalRow(e, role, status))
<1>1. /\ new \in Request /\ new.pc = "insert"
      /\ new.change.email # NoEmail /\ new.change.provider = "local" /\ new.change.password_hash
  <2>1. LocalRow(e, role, status) \in Row
    BY NullsAreNoValues, Defaults DEF LocalRow, Row
  <2>2. new \in Request
    BY <2>1, UsersBound DEF Holding, Request
  <2> QED BY <2>2, NullsAreNoValues DEF Holding, LocalRow
<1>2. req' = [req EXCEPT ![r] = new] /\ account' = account /\ issued' = issued
  BY DEF FindEmail
<1> HIDE DEF new
<1>3. TypeOK'
  BY <1>1, <1>2 DEF IInv, TypeOK
<1>4. InsertsWellFormed'
  BY <1>1, <1>2 DEF IInv, TypeOK, InsertsWellFormed
<1>5. UpdatesWellFormed'
  BY <1>1, <1>2 DEF IInv, TypeOK, UpdatesWellFormed
<1> QED BY <1>2, <1>3, <1>4, <1>5, TableKept DEF IInv

\* Google login of an unknown subject.
LEMMA FindSubKeeps ==
  ASSUME IInv, NEW r \in Requests, NEW s \in Subs, NEW e \in Emails, FindSub(r, s, e)
  PROVE  IInv'
<1> DEFINE new == Holding("google_email", GoogleRow(e, s))
<1>1. /\ new \in Request /\ new.pc = "google_email"
      /\ new.change.email # NoEmail /\ new.change.provider = "google" /\ new.change.google_sub # NoSub
  <2>1. GoogleRow(e, s) \in Row
    BY NullsAreNoValues, Defaults DEF GoogleRow, Row
  <2>2. new \in Request
    BY <2>1, UsersBound DEF Holding, Request
  <2> QED BY <2>2, NullsAreNoValues DEF Holding, GoogleRow
<1>2. req' = [req EXCEPT ![r] = new] /\ account' = account /\ issued' = issued
  BY DEF FindSub
<1> HIDE DEF new
<1>3. TypeOK'
  BY <1>1, <1>2 DEF IInv, TypeOK
<1>4. InsertsWellFormed'
  BY <1>1, <1>2 DEF IInv, TypeOK, InsertsWellFormed
<1>5. UpdatesWellFormed'
  BY <1>1, <1>2 DEF IInv, TypeOK, UpdatesWellFormed
<1> QED BY <1>2, <1>3, <1>4, <1>5, TableKept DEF IInv

\* The row with the same email will be linked, or a row inserted.
LEMMA GoogleEmailKeeps ==
  ASSUME IInv, NEW r \in Requests, GoogleEmail(r)
  PROVE  IInv'
<1>1. /\ req[r].pc = "google_email" /\ req[r] \in Request
      /\ req[r].change.email # NoEmail /\ req[r].change.provider = "google"
      /\ req[r].change.google_sub # NoSub
  BY DEF GoogleEmail, IInv, TypeOK, InsertsWellFormed
<1>2. account' = account /\ issued' = issued
  BY DEF GoogleEmail
<1>3. ASSUME NEW i \in Ids, account[i].email = req[r].change.email,
             req' = [req EXCEPT ![r] =
               [pc |-> "update", id |-> i, asked |-> {},
                named |-> {"provider", "google_sub"}, change |-> @.change]]
      PROVE  IInv'
  <2>1. i \in Nat /\ i <= MaxUsers /\ i <= issued
    BY <1>1, <1>3, UsersBound DEF IInv, FreshIdsFree, Exists, Ids, TypeOK
  <2>2. TypeOK'
    <3> DEFINE new == [pc |-> "update", id |-> i, asked |-> {},
                       named |-> {"provider", "google_sub"}, change |-> req[r].change]
    <3>1. new \in Request
      BY <1>1, <2>1, UsersBound DEF Request, Fields
    <3>2. req' = [req EXCEPT ![r] = new]
      BY <1>3
    <3> HIDE DEF new
    <3> QED BY <1>2, <3>1, <3>2 DEF IInv, TypeOK
  <2>3. InsertsWellFormed'
    BY <1>3 DEF IInv, TypeOK, Request, InsertsWellFormed
  <2>4. UpdatesWellFormed'
    BY <1>1, <1>2, <1>3, <2>1 DEF IInv, TypeOK, Request, UpdatesWellFormed
  <2> QED BY <1>2, <2>2, <2>3, <2>4, TableKept DEF IInv
<1>4. CASE req' = [req EXCEPT ![r].pc = "insert"]
  <2>1. TypeOK'
    BY <1>1, <1>2, <1>4 DEF IInv, TypeOK, Request
  <2>2. InsertsWellFormed'
    BY <1>1, <1>4 DEF IInv, TypeOK, Request, InsertsWellFormed
  <2>3. UpdatesWellFormed'
    BY <1>1, <1>2, <1>4 DEF IInv, TypeOK, Request, UpdatesWellFormed
  <2> QED BY <1>2, <2>1, <2>2, <2>3, TableKept DEF IInv
<1> QED BY <1>3, <1>4 DEF GoogleEmail

\* A PATCH of a row that is there.
LEMMA UpdateFindKeeps ==
  ASSUME IInv, NEW r \in Requests, NEW i \in Ids, NEW body \in Bodies, NEW e \in Emails,
         NEW role \in Roles, NEW status \in Statuses,
         UpdateFind(r, i, body, e, role, status)
  PROVE  IInv'
<1> DEFINE new == [pc |-> IF "email" \in body /\ e # account[i].email
                            THEN "check_email" ELSE "update",
                   id |-> i, asked |-> body, named |-> Named(body),
                   change |-> Parsed(body, e, role, status)]
<1>1. i \in 0..MaxUsers /\ i <= issued
  BY UsersBound DEF UpdateFind, IInv, FreshIdsFree, Ids, TypeOK
<1>2. /\ body \in SUBSET Fields /\ Named(body) \in SUBSET Fields
      /\ "google_sub" \notin Named(body)
      /\ "email" \in Named(body) => "email" \in body
      /\ "provider" \in Named(body) => "password_hash" \in Named(body)
  BY DEF Bodies, Fields, Named
<1>3. /\ Parsed(body, e, role, status) \in Row
      /\ Parsed(body, e, role, status).provider = "local"
      /\ Parsed(body, e, role, status).password_hash
      /\ "email" \in body => Parsed(body, e, role, status).email # NoEmail
  BY NullsAreNoValues, Defaults DEF Parsed, LocalRow, Row
<1>4. new \in Request
  BY <1>1, <1>2, <1>3 DEF Request
<1>5. /\ new.pc \in {"check_email", "update"} /\ new.id = i
      /\ new.named = Named(body) /\ new.change = Parsed(body, e, role, status)
  OBVIOUS
<1>6. req' = [req EXCEPT ![r] = new] /\ account' = account /\ issued' = issued
  BY DEF UpdateFind
<1> HIDE DEF new
<1>7. TypeOK'
  BY <1>4, <1>6 DEF IInv, TypeOK
<1>8. InsertsWellFormed'
  BY <1>5, <1>6 DEF IInv, TypeOK, InsertsWellFormed
<1>9. UpdatesWellFormed'
  BY <1>1, <1>2, <1>3, <1>5, <1>6 DEF IInv, TypeOK, UpdatesWellFormed
<1> QED BY <1>6, <1>7, <1>8, <1>9, TableKept DEF IInv

\* The PATCH goes on or is answered 409; a request that ends holds nothing.
LEMMA CheckOrCrashKeeps ==
  ASSUME IInv, NEW r \in Requests, CheckEmail(r) \/ Crash(r)
  PROVE  IInv'
<1>1. account' = account /\ issued' = issued
  BY DEF CheckEmail, Crash
<1>2. Idle \in Request /\ Idle.pc = "idle"
  BY Defaults, UsersBound DEF Idle, Holding, Request, NoAccount, Row, Fields
<1>3. \/ req' = [req EXCEPT ![r] = Idle]
      \/ req[r].pc = "check_email" /\ req' = [req EXCEPT ![r].pc = "update"]
  BY DEF CheckEmail, Crash
<1>4. TypeOK'
  BY <1>1, <1>2, <1>3 DEF IInv, TypeOK, Request
<1>5. InsertsWellFormed'
  BY <1>2, <1>3 DEF IInv, TypeOK, Request, InsertsWellFormed
<1>6. UpdatesWellFormed'
  BY <1>1, <1>2, <1>3 DEF IInv, TypeOK, Request, UpdatesWellFormed
<1> QED BY <1>1, <1>4, <1>5, <1>6, TableKept DEF IInv

\* Whoever writes, the request that did is idle afterwards.
LEMMA WriterEnds ==
  ASSUME IInv, NEW r \in Requests, req' = [req EXCEPT ![r] = Idle],
         issued' \in 0..MaxUsers, issued <= issued'
  PROVE  /\ req' \in [Requests -> Request]
         /\ InsertsWellFormed' /\ UpdatesWellFormed'
<1>1. Idle \in Request /\ Idle.pc = "idle"
  BY Defaults, UsersBound DEF Idle, Holding, Request, NoAccount, Row, Fields
<1>2. InsertsWellFormed'
  BY <1>1 DEF IInv, TypeOK, InsertsWellFormed
<1>3. UpdatesWellFormed'
  BY <1>1, UsersBound DEF IInv, TypeOK, UpdatesWellFormed, Ids
<1> QED BY <1>1, <1>2, <1>3 DEF IInv, TypeOK

\* Writing an admitted row with its credential keeps the identities apart.
LEMMA WriteKeeps ==
  ASSUME IInv, NEW i \in Ids, NEW row \in Row, Admitted(i, row), row.email # NoEmail,
         IF row.provider = "google" THEN row.google_sub # NoSub ELSE row.password_hash,
         account' = [account EXCEPT ![i] = row]
  PROVE  /\ account' \in [Ids -> Row]
         /\ OneUserPerIdentity' /\ ProviderHasCredential'
<1>1. OneUserPerIdentity'
  BY DEF IInv, TypeOK, OneUserPerIdentity, Admitted, Exists
<1>2. ProviderHasCredential'
  BY DEF IInv, TypeOK, ProviderHasCredential, Exists
<1> QED BY <1>1, <1>2 DEF IInv, TypeOK

\* The new row is written if the indexes admit it; its id is used up anyway.
LEMMA InsertKeeps ==
  ASSUME IInv, NEW r \in Requests, Insert(r)
  PROVE  IInv'
<1> DEFINE row == req[r].change
<1>1. /\ issued' = issued + 1 /\ issued + 1 \in Ids /\ issued' \in 0..MaxUsers /\ issued <= issued'
      /\ req' = [req EXCEPT ![r] = Idle]
  BY UsersBound DEF Insert, IInv, TypeOK, Ids
<1>2. /\ row \in Row /\ row.email # NoEmail
      /\ IF row.provider = "google" THEN row.google_sub # NoSub ELSE row.password_hash
  BY DEF Insert, IInv, TypeOK, Request, InsertsWellFormed
<1>3. CASE Admitted(issued + 1, row) /\ account' = [account EXCEPT ![issued + 1] = row]
  <2>1. account' \in [Ids -> Row] /\ OneUserPerIdentity' /\ ProviderHasCredential'
    BY <1>1, <1>2, <1>3, WriteKeeps
  <2>2. FreshIdsFree'
    BY <1>1, <1>3, UsersBound DEF IInv, TypeOK, FreshIdsFree, Exists, Ids
  <2> QED BY <1>1, <2>1, <2>2, WriterEnds DEF IInv, TypeOK
<1>4. CASE account' = account
  <2>1. OneUserPerIdentity' /\ ProviderHasCredential'
    BY <1>4 DEF IInv, OneUserPerIdentity, ProviderHasCredential, Exists
  <2>2. FreshIdsFree'
    BY <1>1, <1>4, UsersBound DEF IInv, TypeOK, FreshIdsFree, Exists, Ids
  <2> QED BY <1>1, <1>4, <2>1, <2>2, WriterEnds DEF IInv, TypeOK
<1> QED BY <1>3, <1>4 DEF Insert

\* What an update leaves of a row that is still there: an email, its credential,
\* and every credential it had.
LEMMA UpdatedHasCredential ==
  ASSUME IInv, NEW r \in Requests, req[r].pc = "update", Exists(req[r].id)
  PROVE  LET i   == req[r].id
             row == Updated(r, i)
         IN  /\ i \in Ids /\ i <= issued /\ row \in Row
             /\ row.email # NoEmail
             /\ IF row.provider = "google" THEN row.google_sub # NoSub ELSE row.password_hash
             /\ account[i].google_sub # NoSub => row.google_sub # NoSub
             /\ account[i].password_hash => row.password_hash
<1> DEFINE i   == req[r].id
           row == Updated(r, i)
           N   == req[r].named
           c   == req[r].change
<1>1. i \in Ids /\ i <= issued
  BY DEF IInv, UpdatesWellFormed
<1>2. row \in Row
  BY <1>1, UpdatedRow DEF IInv
<1>3. /\ row.email = IF "email" \in N THEN c.email ELSE account[i].email
      /\ row.provider = IF "provider" \in N THEN c.provider ELSE account[i].provider
      /\ row.google_sub = IF "google_sub" \in N THEN c.google_sub ELSE account[i].google_sub
      /\ row.password_hash = IF "password_hash" \in N THEN c.password_hash
                                                     ELSE account[i].password_hash
  BY DEF Updated, Fields
<1>4. /\ "email" \in N => c.email # NoEmail
      /\ "google_sub" \in N => c.google_sub # NoSub
      /\ "password_hash" \in N => c.password_hash
      /\ "provider" \in N =>
           IF c.provider = "google" THEN "google_sub" \in N ELSE "password_hash" \in N
  BY DEF IInv, UpdatesWellFormed
<1>5. /\ account[i].email # NoEmail
      /\ IF account[i].provider = "google"
           THEN account[i].google_sub # NoSub ELSE account[i].password_hash
  BY <1>1 DEF IInv, ProviderHasCredential, Exists
<1> HIDE DEF i, row, N, c
<1>6. row.email # NoEmail
  BY <1>3, <1>4, <1>5
<1>7. account[i].google_sub # NoSub => row.google_sub # NoSub
  BY <1>3, <1>4
<1>8. account[i].password_hash => row.password_hash
  BY <1>3, <1>4
<1>9. IF row.provider = "google" THEN row.google_sub # NoSub ELSE row.password_hash
  <2>1. CASE "provider" \in N
    BY <2>1, <1>3, <1>4
  <2>2. CASE "provider" \notin N
    BY <2>2, <1>3, <1>5, <1>7, <1>8
  <2> QED BY <2>1, <2>2
<1> QED BY <1>1, <1>2, <1>6, <1>7, <1>8, <1>9 DEF i, row

\* The columns are set if the row is still there and the indexes admit it.
LEMMA UpdateKeeps ==
  ASSUME IInv, NEW r \in Requests, Update(r)
  PROVE  IInv'
<1> DEFINE i   == req[r].id
           row == Updated(r, i)
<1>1. /\ issued' = issued /\ issued' \in 0..MaxUsers /\ issued <= issued'
      /\ req' = [req EXCEPT ![r] = Idle]
  BY UsersBound DEF Update, IInv, TypeOK
<1>2. CASE Exists(i) /\ Admitted(i, row) /\ account' = [account EXCEPT ![i] = row]
  <2>1. /\ i \in Ids /\ i <= issued /\ row \in Row /\ row.email # NoEmail
        /\ IF row.provider = "google" THEN row.google_sub # NoSub ELSE row.password_hash
    BY <1>2, UpdatedHasCredential DEF Update
  <2> HIDE DEF i, row
  <2>2. account' \in [Ids -> Row] /\ OneUserPerIdentity' /\ ProviderHasCredential'
    BY <1>2, <2>1, WriteKeeps
  <2>3. FreshIdsFree'
    BY <1>1, <1>2, <2>1, UsersBound DEF IInv, TypeOK, FreshIdsFree, Exists, Ids
  <2> QED BY <1>1, <2>2, <2>3, WriterEnds DEF IInv, TypeOK
<1>3. CASE account' = account
  BY <1>1, <1>3, TableKept, WriterEnds DEF IInv, TypeOK
<1> QED BY <1>2, <1>3 DEF Update

\* A row less.
LEMMA DestroyKeeps ==
  ASSUME IInv, NEW i \in Ids, Destroy(i)
  PROVE  IInv'
<1>1. /\ account' = [account EXCEPT ![i] = NoAccount]
      /\ issued' = issued /\ req' = req /\ NoAccount.email = NoEmail
  BY DEF Destroy, NoAccount
<1>2. TypeOK'
  BY <1>1, Defaults DEF IInv, TypeOK, NoAccount, Row
<1>3. InsertsWellFormed' /\ UpdatesWellFormed'
  BY <1>1 DEF IInv, InsertsWellFormed, UpdatesWellFormed
<1>4. FreshIdsFree' /\ OneUserPerIdentity' /\ ProviderHasCredential'
  BY <1>1 DEF IInv, TypeOK, FreshIdsFree, OneUserPerIdentity, ProviderHasCredential, Exists
<1> QED BY <1>2, <1>3, <1>4 DEF IInv

-----------------------------------------------------------------------------

\* What every step keeps.
THEOREM AccountsInvariant == Spec => []IInv
<1>1. IInv /\ [Next]_vars => IInv'
  <2> SUFFICES ASSUME IInv, [Next]_vars PROVE IInv'
    OBVIOUS
  <2>1. ASSUME NEW r \in Requests, Serve(r)
        PROVE  IInv'
    BY <2>1, FindEmailKeeps, InsertKeeps, FindSubKeeps, GoogleEmailKeeps, UpdateFindKeeps,
       CheckOrCrashKeeps, UpdateKeeps
       DEF Serve
  <2>2. CASE UNCHANGED vars
    BY <2>2, TableKept
       DEF vars, IInv, TypeOK, InsertsWellFormed, UpdatesWellFormed
  <2> QED BY <2>1, <2>2, DestroyKeeps DEF Next
<1> QED BY <1>1, InitIInv, PTL DEF Spec

\* The table and the requests' locals are always well typed.
THEOREM TypeCorrect == Spec => []TypeOK
<1>1. IInv => TypeOK
  BY DEF IInv
<1> QED BY <1>1, AccountsInvariant, PTL

\* Two users never share an email or a Google subject.
THEOREM OneUser == Spec => []OneUserPerIdentity
<1>1. IInv => OneUserPerIdentity
  BY DEF IInv
<1> QED BY <1>1, AccountsInvariant, PTL

\* No interleaving of writes leaves a user without the credential of its provider.
THEOREM CredentialOfProvider == Spec => []ProviderHasCredential
<1>1. IInv => ProviderHasCredential
  BY DEF IInv
<1> QED BY <1>1, AccountsInvariant, PTL

\* Only these steps write the table.
LEMMA TableWriters ==
  ASSUME [Next]_vars
  PROVE  \/ \E r \in Requests : Insert(r) \/ Update(r)
         \/ \E i \in Ids : Destroy(i)
         \/ account' = account /\ issued' = issued
BY DEF Next, Serve, vars, FindEmail, FindSub, GoogleEmail, UpdateFind, CheckEmail, Crash

\* A destroyed user stays destroyed, whatever requests had read of it.
THEOREM Destroyed == Spec => DestroyedForGood
<1> DEFINE Stays == \A i \in Ids : i <= issued /\ ~ Exists(i) => ~ Exists(i)'
<1>1. IInv /\ [Next]_vars => [Stays]_vars
  <2> SUFFICES ASSUME IInv, [Next]_vars, NEW i \in Ids, i <= issued, ~ Exists(i)
               PROVE  ~ Exists(i)'
    OBVIOUS
  <2>1. CASE \E r \in Requests : Insert(r)
    BY <2>1, UsersBound DEF Insert, IInv, TypeOK, Exists, Ids
  <2>2. CASE \E r \in Requests : Update(r)
    BY <2>2 DEF Update, IInv, TypeOK, Exists
  <2>3. CASE \E k \in Ids : Destroy(k)
    BY <2>3 DEF Destroy, IInv, TypeOK, Exists
  <2>4. CASE account' = account
    BY <2>4 DEF Exists
  <2> QED BY <2>1, <2>2, <2>3, <2>4, TableWriters
<1> QED BY <1>1, AccountsInvariant, PTL DEF Spec, DestroyedForGood

\* A Google link survives any update and a password survives any link.
THEOREM Credentials == Spec => CredentialsSurvive
<1> DEFINE Survive ==
      \A i \in Ids : Exists(i) /\ Exists(i)' =>
        /\ account[i].google_sub # NoSub => account'[i].google_sub # NoSub
        /\ account[i].password_hash => account'[i].password_hash
<1>1. IInv /\ [Next]_vars => [Survive]_vars
  <2> SUFFICES ASSUME IInv, [Next]_vars, NEW i \in Ids, Exists(i), Exists(i)'
               PROVE  /\ account[i].google_sub # NoSub => account'[i].google_sub # NoSub
                      /\ account[i].password_hash => account'[i].password_hash
    OBVIOUS
  <2>1. CASE \E r \in Requests : Insert(r)
    <3>1. account'[i] = account[i]
      BY <2>1, UsersBound DEF Insert, IInv, TypeOK, FreshIdsFree, Exists, Ids
    <3> QED BY <3>1
  <2>2. CASE \E r \in Requests : Update(r)
    <3>1. PICK r \in Requests : Update(r)
      BY <2>2
    <3>2. CASE account'[i] = account[i]
      BY <3>2
    <3>3. CASE i = req[r].id /\ account'[i] = Updated(r, i)
      BY <3>1, <3>3, UpdatedHasCredential DEF Update
    <3>4. account'[i] = account[i] \/ (i = req[r].id /\ account'[i] = Updated(r, i))
      BY <3>1 DEF Update, IInv, TypeOK
    <3> QED BY <3>2, <3>3, <3>4
  <2>3. CASE \E k \in Ids : Destroy(k)
    <3>1. account'[i] = account[i]
      BY <2>3 DEF Destroy, IInv, TypeOK, Exists, NoAccount
    <3> QED BY <3>1
  <2>4. CASE account' = account
    BY <2>4
  <2> QED BY <2>1, <2>2, <2>3, <2>4, TableWriters
<1> QED BY <1>1, AccountsInvariant, PTL DEF Spec, CredentialsSurvive

-----------------------------------------------------------------------------
\* The abstract tables.

\* What the mappings make of a row.
EmailOf(i) == account[i].email
SubOf(i) == IF Exists(i) THEN account[i].google_sub ELSE NoSub

EmailStep == [EmailTable!TableNext]_(EmailTable!tableVars)
SubjectStep == [SubjectTable!TableNext]_(SubjectTable!tableVars)

\* A step that leaves the rows and the sequence alone.
LEMMA TablesStay ==
  ASSUME account' = account, issued' = issued
  PROVE  EmailStep /\ SubjectStep
<1>1. \A i \in Ids : (Exists(i) <=> Exists(i)') /\ SubOf(i)' = SubOf(i) /\ EmailOf(i)' = EmailOf(i)
  BY DEF Exists, SubOf, EmailOf
<1>2. /\ {i \in Ids : Exists(i)'} = {i \in Ids : Exists(i)}
      /\ [i \in Ids |-> SubOf(i)'] = [i \in Ids |-> SubOf(i)]
      /\ [i \in Ids |-> EmailOf(i)'] = [i \in Ids |-> EmailOf(i)]
  BY <1>1
<1>3. UNCHANGED EmailTable!tableVars
  BY <1>2 DEF EmailTable!tableVars, EmailOf
<1>4. UNCHANGED SubjectTable!tableVars
  BY <1>2 DEF SubjectTable!tableVars, SubOf
<1> QED BY <1>3, <1>4 DEF EmailStep, SubjectStep

\* What the indexes admit is free in both columns.
LEMMA AdmittedIsFree ==
  ASSUME IInv, NEW i \in Ids, NEW row \in Row, Admitted(i, row), row.email # NoEmail
  PROVE  /\ \A j \in 1..MaxUsers : j # i => [k \in Ids |-> EmailOf(k)][j] # row.email
         /\ row.google_sub # NoSub =>
              \A j \in 1..MaxUsers : j # i => [k \in Ids |-> SubOf(k)][j] # row.google_sub
BY DEF Admitted, Exists, EmailOf, SubOf, Ids

\* The columns after row i is written.
LEMMA Written ==
  ASSUME IInv, NEW i \in Ids, NEW row \in Row, row.email # NoEmail,
         account' = [account EXCEPT ![i] = row]
  PROVE  /\ {k \in Ids : Exists(k)'} = {k \in Ids : Exists(k)} \cup {i}
         /\ [k \in Ids |-> EmailOf(k)'] = [[k \in Ids |-> EmailOf(k)] EXCEPT ![i] = row.email]
         /\ [k \in Ids |-> SubOf(k)'] = [[k \in Ids |-> SubOf(k)] EXCEPT ![i] = row.google_sub]
<1>1. \A k \in Ids : account'[k] = IF k = i THEN row ELSE account[k]
  BY DEF IInv, TypeOK
<1>2. \A k \in Ids : (Exists(k)' <=> Exists(k) \/ k = i)
  BY <1>1 DEF Exists
<1>3. \A k \in Ids : EmailOf(k)' = IF k = i THEN row.email ELSE EmailOf(k)
  BY <1>1 DEF EmailOf
<1>4. \A k \in Ids : SubOf(k)' = IF k = i THEN row.google_sub ELSE SubOf(k)
  BY <1>1, <1>2 DEF SubOf
<1> QED BY <1>2, <1>3, <1>4

\* INSERT adds the row to both tables, or wastes an id of both.
LEMMA InsertImplements ==
  ASSUME IInv, NEW r \in Requests, Insert(r)
  PROVE  EmailStep /\ SubjectStep
<1> DEFINE row == req[r].change
<1>1. /\ issued < MaxUsers /\ issued' = issued + 1 /\ issued + 1 \in Ids
  BY UsersBound DEF Insert, IInv, TypeOK, Ids
<1>2. /\ row \in Row /\ row.email # NoEmail
      /\ row.email \in Emails /\ row.google_sub \in Subs \cup {NoSub}
  BY DEF Insert, IInv, TypeOK, Request, InsertsWellFormed, Row
<1>3. CASE Admitted(issued + 1, row) /\ account' = [account EXCEPT ![issued + 1] = row]
  <2>1. PICK e \in Emails, s \in Subs \cup {NoSub} : e = row.email /\ s = row.google_sub
    BY <1>2
  <2> HIDE DEF row
  <2>2. /\ {k \in Ids : Exists(k)'} = {k \in Ids : Exists(k)} \cup {issued + 1}
        /\ [k \in Ids |-> EmailOf(k)'] = [[k \in Ids |-> EmailOf(k)] EXCEPT ![issued + 1] = row.email]
        /\ [k \in Ids |-> SubOf(k)'] = [[k \in Ids |-> SubOf(k)] EXCEPT ![issued + 1] = row.google_sub]
    BY <1>1, <1>2, <1>3, Written
  <2>3. /\ \A j \in 1..MaxUsers : j # issued + 1 => [k \in Ids |-> EmailOf(k)][j] # row.email
        /\ row.google_sub # NoSub =>
             \A j \in 1..MaxUsers : j # issued + 1 => [k \in Ids |-> SubOf(k)][j] # row.google_sub
    BY <1>1, <1>2, <1>3, AdmittedIsFree
  <2>4. EmailTable!Add(e)
    BY <1>1, <2>1, <2>2, <2>3 DEF EmailTable!Add, EmailTable!Free, EmailOf
  <2>5. SubjectTable!Add(s)
    BY <1>1, <2>1, <2>2, <2>3 DEF SubjectTable!Add, SubjectTable!Free, SubOf
  <2> QED BY <2>4, <2>5 DEF EmailStep, SubjectStep, EmailTable!TableNext, SubjectTable!TableNext
<1>4. CASE account' = account
  <2>1. /\ {i \in Ids : Exists(i)'} = {i \in Ids : Exists(i)}
        /\ [i \in Ids |-> SubOf(i)'] = [i \in Ids |-> SubOf(i)]
        /\ [i \in Ids |-> EmailOf(i)'] = [i \in Ids |-> EmailOf(i)]
    BY <1>4 DEF Exists, SubOf, EmailOf
  <2>2. EmailTable!Waste
    BY <1>1, <2>1 DEF EmailTable!Waste, EmailOf
  <2>3. SubjectTable!Waste
    BY <1>1, <2>1 DEF SubjectTable!Waste, SubOf
  <2> QED BY <2>2, <2>3 DEF EmailStep, SubjectStep, EmailTable!TableNext, SubjectTable!TableNext
<1> QED BY <1>3, <1>4 DEF Insert

\* UPDATE gives the row its email and its subject, new or old.  A row without a
\* subject that is given none keeps the second table as it is.
LEMMA UpdateImplements ==
  ASSUME IInv, NEW r \in Requests, Update(r)
  PROVE  EmailStep /\ SubjectStep
<1>1. issued' = issued
  BY DEF Update
<1>2. CASE account' = account
  BY <1>1, <1>2, TablesStay
<1>3. CASE /\ Exists(req[r].id) /\ Admitted(req[r].id, Updated(r, req[r].id))
           /\ account' = [account EXCEPT ![req[r].id] = Updated(r, req[r].id)]
  <2>1. /\ req[r].id \in Ids /\ Updated(r, req[r].id) \in Row
        /\ Updated(r, req[r].id).email # NoEmail
        /\ account[req[r].id].google_sub # NoSub => Updated(r, req[r].id).google_sub # NoSub
    BY <1>3, UpdatedHasCredential DEF Update
  <2>2. PICK i \in Ids, row \in Row : i = req[r].id /\ row = Updated(r, req[r].id)
    BY <2>1
  <2>3. /\ Exists(i) /\ Admitted(i, row) /\ account' = [account EXCEPT ![i] = row]
        /\ row.email # NoEmail /\ row.email \in Emails /\ row.google_sub \in Subs \cup {NoSub}
    BY <1>3, <2>1, <2>2 DEF Row
  <2>4. /\ {k \in Ids : Exists(k)'} = {k \in Ids : Exists(k)} \cup {i}
        /\ [k \in Ids |-> EmailOf(k)'] = [[k \in Ids |-> EmailOf(k)] EXCEPT ![i] = row.email]
        /\ [k \in Ids |-> SubOf(k)'] = [[k \in Ids |-> SubOf(k)] EXCEPT ![i] = row.google_sub]
    BY <2>3, Written
  <2>5. {k \in Ids : Exists(k)'} = {k \in Ids : Exists(k)}
    BY <2>3, <2>4
  <2>6. /\ \A j \in 1..MaxUsers : j # i => [k \in Ids |-> EmailOf(k)][j] # row.email
        /\ row.google_sub # NoSub =>
             \A j \in 1..MaxUsers : j # i => [k \in Ids |-> SubOf(k)][j] # row.google_sub
    BY <2>3, AdmittedIsFree
  <2>7. EmailStep
    <3>1. PICK e \in Emails : e = row.email
      BY <2>3
    <3>2. EmailTable!Rename(i, e)
      BY <1>1, <2>3, <2>4, <2>5, <2>6, <3>1
         DEF EmailTable!Rename, EmailTable!Free, EmailOf
    <3> QED BY <3>2 DEF EmailStep, EmailTable!TableNext, Ids
  <2>8. SubjectStep
    <3>1. CASE row.google_sub # NoSub
      <4>1. PICK s \in Subs : s = row.google_sub
        BY <2>3, <3>1
      <4>2. SubjectTable!Rename(i, s)
        BY <1>1, <2>3, <2>4, <2>5, <2>6, <3>1, <4>1
           DEF SubjectTable!Rename, SubjectTable!Free, SubOf
      <4> QED BY <4>2 DEF SubjectStep, SubjectTable!TableNext, Ids
    <3>2. CASE row.google_sub = NoSub
      <4>1. SubOf(i) = NoSub
        BY <2>1, <2>2, <3>2 DEF SubOf
      <4>2. [k \in Ids |-> SubOf(k)'] = [k \in Ids |-> SubOf(k)]
        BY <2>4, <3>2, <4>1
      <4>3. UNCHANGED SubjectTable!tableVars
        BY <1>1, <2>5, <4>2 DEF SubjectTable!tableVars, SubOf
      <4> QED BY <4>3 DEF SubjectStep
    <3> QED BY <3>1, <3>2
  <2> QED BY <2>7, <2>8
<1> QED BY <1>2, <1>3 DEF Update

\* DELETE removes the row from both tables.
LEMMA DestroyImplements ==
  ASSUME IInv, NEW i \in Ids, Destroy(i)
  PROVE  EmailStep /\ SubjectStep
<1>1. /\ issued' = issued /\ Exists(i)
      /\ \A k \in Ids : account'[k] = IF k = i THEN NoAccount ELSE account[k]
  BY DEF Destroy, IInv, TypeOK
<1>2. \A k \in Ids : (Exists(k)' <=> Exists(k) /\ k # i)
  BY <1>1 DEF Exists, NoAccount
<1>3. \A k \in Ids : EmailOf(k)' = IF k = i THEN NoEmail ELSE EmailOf(k)
  BY <1>1 DEF EmailOf, NoAccount
<1>4. \A k \in Ids : SubOf(k)' = IF k = i THEN NoSub ELSE SubOf(k)
  BY <1>1, <1>2 DEF SubOf
<1>5. /\ {k \in Ids : Exists(k)'} = {k \in Ids : Exists(k)} \ {i}
      /\ [k \in Ids |-> EmailOf(k)'] = [[k \in Ids |-> EmailOf(k)] EXCEPT ![i] = NoEmail]
      /\ [k \in Ids |-> SubOf(k)'] = [[k \in Ids |-> SubOf(k)] EXCEPT ![i] = NoSub]
  BY <1>2, <1>3, <1>4
<1>6. EmailTable!Remove(i)
  BY <1>1, <1>5 DEF EmailTable!Remove, EmailOf
<1>7. SubjectTable!Remove(i)
  BY <1>1, <1>5 DEF SubjectTable!Remove, SubOf
<1> QED BY <1>6, <1>7 DEF EmailStep, SubjectStep, EmailTable!TableNext, SubjectTable!TableNext, Ids

\* Registrations, Google logins and updates, each of which looks first and writes
\* later, write emails and subjects like a table with one writer, whatever the
\* number of concurrent requests.
THEOREM ImplementsTables == Spec => ImplementsUniqueTables
<1>1. Init => EmailTable!TableInit /\ SubjectTable!TableInit
  <2> SUFFICES ASSUME Init PROVE EmailTable!TableInit /\ SubjectTable!TableInit
    OBVIOUS
  <2>1. \A i \in Ids : account[i] = NoAccount /\ ~ Exists(i) /\ EmailOf(i) = NoEmail /\ SubOf(i) = NoSub
    BY DEF Init, Exists, EmailOf, SubOf, NoAccount
  <2>2. /\ {i \in Ids : Exists(i)} = {}
        /\ [i \in Ids |-> EmailOf(i)] = [i \in Ids |-> NoEmail]
        /\ [i \in Ids |-> SubOf(i)] = [i \in Ids |-> NoSub]
    BY <2>1
  <2>3. EmailTable!TableInit
    BY <2>2 DEF Init, EmailTable!TableInit, EmailOf, Ids
  <2>4. SubjectTable!TableInit
    BY <2>2 DEF Init, SubjectTable!TableInit, SubOf, Ids
  <2> QED BY <2>3, <2>4
<1>2. IInv /\ [Next]_vars => EmailStep /\ SubjectStep
  BY TableWriters, TablesStay, InsertImplements, UpdateImplements, DestroyImplements
<1>3. Spec => EmailTable!TableSpec /\ SubjectTable!TableSpec
  BY <1>1, <1>2, AccountsInvariant, PTL
     DEF Spec, EmailTable!TableSpec, SubjectTable!TableSpec, EmailStep, SubjectStep
<1> QED BY <1>3 DEF ImplementsUniqueTables

=============================================================================
