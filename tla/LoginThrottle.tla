------------------------------ MODULE LoginThrottle ------------------------------
(***************************************************************************)
(* The brake on failed logins: AuthApplicationService.login and the table  *)
(* auth_login_attempts.                                                    *)
(*                                                                         *)
(* A login counts the recent failures of its email, then those of its      *)
(* address, compares the password, and then records the failure or clears  *)
(* the email's failures.  Each is a statement of its own, so logins        *)
(* interleave between them.  Time passes in ticks; instead of a timestamp  *)
(* an attempt carries its age, and one that left the window is forgotten,  *)
(* since no later count includes it.                                       *)
(***************************************************************************)
EXTENDS Naturals, FiniteSets

CONSTANTS
    Emails,       \* lower-cased emails, whether or not a user has them
    Ips, NoIp,    \* client addresses; NoIp when the request context has none
    NoEmail,
    Logins,       \* login requests the server can be serving at the same time
    Ids,          \* ids of auth_login_attempts: a bound on the rows stored
    MaxPerEmail,  \* MAX_ATTEMPTS_PER_EMAIL
    MaxPerIp,     \* MAX_ATTEMPTS_PER_IP
    Window        \* LOGIN_ATTEMPT_WINDOW_MINUTES, in ticks

ASSUME NullsAreNoValues == NoEmail \notin Emails /\ NoIp \notin Ips

ASSUME Limits ==
    /\ MaxPerEmail \in Nat \ {0} /\ MaxPerIp \in Nat \ {0} /\ Window \in Nat

ASSUME FinitelyManyLogins == IsFiniteSet(Logins)

VARIABLES
    attempt,  \* the table: what each id stores
    login     \* program counter and locals of each login being served

vars == <<attempt, login>>

-----------------------------------------------------------------------------

Attempt == [email : Emails, ip : Ips \cup {NoIp}, age : 0..Window]

NoAttempt == [email |-> NoEmail, ip |-> NoIp, age |-> 0]

\* pc names what the login does next; by_email is the count it has read.
Login == [pc       : {"idle", "count_ip", "compare", "record", "clear"},
          email    : Emails \cup {NoEmail},
          ip       : Ips \cup {NoIp},
          by_email : Nat]

Idle == [pc |-> "idle", email |-> NoEmail, ip |-> NoIp, by_email |-> 0]

Stored(i) == attempt[i].email # NoEmail

\* The rows the two SELECT count(*) see: attempted_at >= since.
ByEmail(e) == {i \in Ids : attempt[i].email = e}
ByIp(a) == {i \in Ids : Stored(i) /\ attempt[i].ip = a}

-----------------------------------------------------------------------------
\* The statements of one login.

\* Mutant of CountByEmail: a login over the limit is recorded as a failure too.
CountByEmailRecordingRefused(r, e, a) ==
    LET n == Cardinality(ByEmail(e))
    IN  /\ login[r] = Idle
        /\ login' = [login EXCEPT ![r] =
             [pc |-> IF n >= MaxPerEmail THEN "record"
                     ELSE IF a = NoIp THEN "compare" ELSE "count_ip",
              email |-> e, ip |-> a, by_email |-> n]]
        /\ UNCHANGED attempt

\* count ... WHERE email.  Without an address by_ip is 0 and there is no second
\* statement; a login over the limit is answered 429 and leaves no trace.
CountByEmail(r, e, a) ==
    LET n == Cardinality(ByEmail(e))
    IN  /\ login[r] = Idle
        /\ a = NoIp => n < MaxPerEmail
        /\ login' = [login EXCEPT ![r] =
             [pc |-> IF a = NoIp THEN "compare" ELSE "count_ip",
              email |-> e, ip |-> a, by_email |-> n]]
        /\ UNCHANGED attempt

\* Mutant of CountByIp: each limit is tested with > instead of >=.
CountByIpOffByOne(r) ==
    /\ login[r].pc = "count_ip"
    /\ login' = [login EXCEPT ![r] =
         IF login[r].by_email <= MaxPerEmail /\ Cardinality(ByIp(login[r].ip)) <= MaxPerIp
           THEN [@ EXCEPT !.pc = "compare"]
           ELSE Idle]
    /\ UNCHANGED attempt

\* count ... WHERE ip_address, and the decision on the two counts.
CountByIp(r) ==
    /\ login[r].pc = "count_ip"
    /\ login' = [login EXCEPT ![r] =
         IF login[r].by_email < MaxPerEmail /\ Cardinality(ByIp(login[r].ip)) < MaxPerIp
           THEN [@ EXCEPT !.pc = "compare"]
           ELSE Idle]
    /\ UNCHANGED attempt

\* findByEmail and passwordHasher.verify: no such user, no password, not active
\* or a wrong password, or else a match.
Compare(r, matches) ==
    /\ login[r].pc = "compare"
    /\ login' = [login EXCEPT ![r].pc = IF matches THEN "clear" ELSE "record"]
    /\ UNCHANGED attempt

\* The id the serial column draws: which of the free ones does not matter.
FreeId == CHOOSE i \in Ids : ~ Stored(i)

\* recordLoginAttempt, and 401.
Record(r) ==
    /\ login[r].pc = "record"
    /\ \E i \in Ids : ~ Stored(i)
    /\ attempt' = [attempt EXCEPT ![FreeId] =
         [email |-> login[r].email, ip |-> login[r].ip, age |-> 0]]
    /\ login' = [login EXCEPT ![r] = Idle]

\* clearLoginAttempts deletes the email's rows, whatever address they came from.
Clear(r) ==
    /\ login[r].pc = "clear"
    /\ attempt' = [i \in Ids |->
         IF attempt[i].email = login[r].email THEN NoAttempt ELSE attempt[i]]
    /\ login' = [login EXCEPT ![r] = Idle]

\* The process stops or a statement fails: the login ends where it is.
Crash(r) ==
    /\ login[r] # Idle
    /\ login' = [login EXCEPT ![r] = Idle]
    /\ UNCHANGED attempt

\* DELETE ... WHERE attempted_at < before, of purgeExpired.
Purge(lag) ==
    /\ attempt' = [i \in Ids |-> IF attempt[i].age > lag THEN NoAttempt ELSE attempt[i]]
    /\ UNCHANGED login

\* Mutant of Tick: the counts have no lower bound in time, so a failure counts for ever.
TickWithoutWindow ==
    /\ attempt' = [i \in Ids |->
         IF ~ Stored(i) \/ attempt[i].age = Window
           THEN attempt[i]
           ELSE [attempt[i] EXCEPT !.age = @ + 1]]
    /\ UNCHANGED login

\* Time passes, and since = now - window moves on with it.
Tick ==
    /\ attempt' = [i \in Ids |->
         IF ~ Stored(i) \/ attempt[i].age = Window
           THEN NoAttempt
           ELSE [attempt[i] EXCEPT !.age = @ + 1]]
    /\ UNCHANGED login

-----------------------------------------------------------------------------

Init ==
    /\ attempt = [i \in Ids |-> NoAttempt]
    /\ login = [r \in Logins |-> Idle]

Serve(r) ==
    \/ \E e \in Emails, a \in Ips \cup {NoIp} : CountByEmail(r, e, a)
    \/ CountByIp(r)
    \/ \E matches \in BOOLEAN : Compare(r, matches)
    \/ Record(r)
    \/ Clear(r)
    \/ Crash(r)

Next ==
    \/ \E r \in Logins : Serve(r)
    \/ \E lag \in 0..Window : Purge(lag)
    \/ Tick

Spec == Init /\ [][Next]_vars

\* Time passes; a login may take as long as it likes.
FairSpec == Spec /\ WF_vars(Tick)

-----------------------------------------------------------------------------
\* Properties.

\* Type invariant of the table and of the logins' locals.
TypeOK ==
    /\ attempt \in [Ids -> Attempt \cup {NoAttempt}]
    /\ login \in [Logins -> Login]

\* Checking and recording are separate statements, so concurrent logins overshoot
\* the limit, but only by the logins that were being served at the same time: an
\* email never has more than MAX - 1 + the number of concurrent logins failures
\* in the window.
EmailOvershootBounded ==
    \A e \in Emails :
        Cardinality(ByEmail(e)) <= MaxPerEmail - 1 + Cardinality(Logins)

\* The same for an address, over all the emails it tries: a success clears rows
\* of other addresses too, and that never adds to the count.
IpOvershootBounded ==
    \A a \in Ips : Cardinality(ByIp(a)) <= MaxPerIp - 1 + Cardinality(Logins)

EmailBlocked(e) == Cardinality(ByEmail(e)) >= MaxPerEmail
IpBlocked(a) == Cardinality(ByIp(a)) >= MaxPerIp

\* "Reintenta en 15 minutos": a block lifts by the passing of time alone, however
\* often logins are tried meanwhile, because a refused login is not recorded.
EmailBlockLifts == \A e \in Emails : EmailBlocked(e) ~> ~ EmailBlocked(e)
IpBlockLifts == \A a \in Ips : IpBlocked(a) ~> ~ IpBlocked(a)

\* The logins that count has let through: each of them may still add a failure.
PassedEmail(e) ==
    {r \in Logins : login[r].email = e /\
        \/ login[r].pc \in {"compare", "record"}
        \/ login[r].pc = "count_ip" /\ login[r].by_email < MaxPerEmail}

PassedIp(a) ==
    {r \in Logins : login[r].ip = a /\ login[r].pc \in {"compare", "record"}}

\* No row is added and none gets younger.
OnlyAges(rows, rowsAfter) ==
    rowsAfter \subseteq rows /\ \A i \in rowsAfter : attempt'[i].age >= attempt[i].age

\* What a block costs is decided when the last login that was let through ends:
\* from then on no failure is added and no login is let through, however often
\* one is tried and whatever other emails and addresses do, until it lifts.
BlockIsNotProlonged ==
    [][/\ \A e \in Emails : EmailBlocked(e) /\ PassedEmail(e) = {} =>
            PassedEmail(e)' = {} /\ OnlyAges(ByEmail(e), ByEmail(e)')
       /\ \A a \in Ips : IpBlocked(a) /\ PassedIp(a) = {} =>
            PassedIp(a)' = {} /\ OnlyAges(ByIp(a), ByIp(a)')]_vars

\* "El sexto intento ya no llega a comparar la password"
\* (auth.application-service.test.ts:162): no password is compared for an email
\* that has its limit of failures in the window.
FullEmailIsNotCompared ==
    [][\A r \in Logins :
         login[r].pc = "compare" /\ login'[r].pc \in {"record", "clear"}
            => ~ EmailBlocked(login[r].email)]_vars

-----------------------------------------------------------------------------
\* The inductive invariant: a login that passed its count is as good as recorded.

StoredFinite == IsFiniteSet({i \in Ids : Stored(i)})

LocalsWellFormed ==
    \A r \in Logins : login[r].pc # "idle" => login[r].email \in Emails

EmailReserve ==
    \A e \in Emails :
        Cardinality(ByEmail(e)) + Cardinality(PassedEmail(e))
            <= MaxPerEmail - 1 + Cardinality(Logins)

IpReserve ==
    \A a \in Ips :
        Cardinality(ByIp(a)) + Cardinality(PassedIp(a))
            <= MaxPerIp - 1 + Cardinality(Logins)

IInv ==
    /\ TypeOK
    /\ StoredFinite
    /\ LocalsWellFormed
    /\ EmailReserve
    /\ IpReserve

=============================================================================
