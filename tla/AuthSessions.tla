------------------------------ MODULE AuthSessions ------------------------------
(***************************************************************************)
(* The refresh-token sessions of AuthApplicationService, kept in the       *)
(* PostgreSQL table auth_sessions.                                         *)
(*                                                                         *)
(* Every request of the API is a chain of awaited SQL statements, and      *)
(* PostgreSQL runs each statement atomically, so the grain of atomicity is *)
(* one statement together with the synchronous code up to the next await.  *)
(* Requests run concurrently, in one process or in several pods, and       *)
(* share nothing but the tables: between two statements of a request any   *)
(* other request may run, and the process may be stopped.                  *)
(*                                                                         *)
(* A refresh token is identified by its jti.  Its claims are immutable and *)
(* the row stored for it copies them (user_id, family_id, expires_at), so  *)
(* they are kept once, in token; row holds only the column that changes.   *)
(***************************************************************************)
EXTENDS Naturals

CONSTANTS
    Users,       \* values of users.id
    Jtis,        \* the jtis randomUUID can still draw: a bound on tokens signed
    Families,    \* the family ids randomUUID can still draw: a bound on logins
    Requests,    \* requests the server can be serving at the same time
    NoUser, NoJti, NoFamily,
    RefreshTTL,  \* JWT_REFRESH_TOKEN_TTL, in ticks of the clock
    MaxNow       \* bound on the clock

ASSUME NullsAreNoValues ==
    NoUser \notin Users /\ NoJti \notin Jtis /\ NoFamily \notin Families

ASSUME ClockConstants == RefreshTTL \in Nat \ {0} /\ MaxNow \in Nat

VARIABLES
    status,       \* users.status; "inactive" stands for inactive and blocked
    token,        \* the claims of every refresh token signed so far
    row,          \* auth_sessions: none, active, or the row's revoked_reason
    held,         \* tokens some client received in a response
    req,          \* program counter and locals of each request being served
    now,          \* the clock
    closed,       \* history: families a closing call reported closed, and why
    late          \* history: tokens stored for a user while not active, by family

vars == <<status, token, row, held, req, now, closed, late>>

-----------------------------------------------------------------------------
\* Data.

UserStatus == {"absent", "active", "inactive", "deleted"}

\* AuthSessionRevokedReason.
RevokedReason ==
    {"rotated", "logout", "logout_all", "reuse_detected", "user_inactive"}

\* parent is a history field: the token whose rotation produced this one.
Token == [user    : Users \cup {NoUser},
          family  : Families \cup {NoFamily},
          expires : Nat,
          parent  : Jtis \cup {NoJti}]

Unsigned == [user |-> NoUser, family |-> NoFamily, expires |-> 0, parent |-> NoJti]

\* pc names the statement the request is waiting to run.  jti is the token it
\* presented, next the one it signed and has yet to store.
Request == [pc   : {"idle", "revoke", "reuse", "user", "inactive", "store"},
            jti  : Jtis \cup {NoJti},
            next : Jtis \cup {NoJti}]

Idle == [pc |-> "idle", jti |-> NoJti, next |-> NoJti]

Signed(j) == token[j].family # NoFamily

Live(j) == row[j] = "active"

\* authTokenService.verify(token, "refresh"): a token of ours, not expired.
Verifies(j) == j \in held /\ now < token[j].expires

\* A refresh that won the rotation and has not stored the successor yet, or a
\* login that signed the first token of a family and has not stored it yet.
Minting(r) == req[r].pc \in {"user", "store"}

FamilyOf(r) ==
    IF req[r].pc = "store" THEN token[req[r].next].family ELSE token[req[r].jti].family

-----------------------------------------------------------------------------
\* The statements of AuthSessionRepository.

\* UPDATE ... WHERE jti = j AND revoked_at IS NULL.
RevokeByJti(j, reason) ==
    row' = [row EXCEPT ![j] = IF @ = "active" THEN reason ELSE @]

\* Mutant of RevokeFamily: the condition revoked_at IS NULL is forgotten.
RevokeWholeFamily(f, reason) ==
    row' = [j \in Jtis |->
              IF token[j].family = f /\ row[j] # "none" THEN reason ELSE row[j]]

\* UPDATE ... WHERE family_id = f AND revoked_at IS NULL.
RevokeFamily(f, reason) ==
    row' = [j \in Jtis |-> IF token[j].family = f /\ Live(j) THEN reason ELSE row[j]]

\* UPDATE ... WHERE user_id = u AND revoked_at IS NULL.
RevokeAllForUser(u, reason) ==
    row' = [j \in Jtis |-> IF token[j].user = u /\ Live(j) THEN reason ELSE row[j]]

\* signTokenPair: a random jti, the family handed in or a random one.
SignTokenPair(j, u, f, parent) ==
    /\ ~ Signed(j)
    /\ token' = [token EXCEPT ![j] =
         [user |-> u, family |-> f, expires |-> now + RefreshTTL, parent |-> parent]]

FreshFamily(f) == \A j \in Jtis : token[j].family # f

-----------------------------------------------------------------------------
\* POST /auth/login, /auth/google, /auth/register: a new family.

\* The common end of the three: sign the pair, then wait to store the session.
OpenSession(r, u, j, f) ==
    /\ FreshFamily(f)
    /\ SignTokenPair(j, u, f, NoJti)
    /\ req' = [req EXCEPT ![r] = [pc |-> "store", jti |-> NoJti, next |-> j]]
    /\ UNCHANGED <<row, held, now, closed, late>>

\* findByEmail returned an active user whose password matches.
Login(r, u, j, f) ==
    /\ req[r] = Idle
    /\ status[u] = "active"
    /\ OpenSession(r, u, j, f)
    /\ UNCHANGED status

\* findByGoogleSub or findByEmail and update returned the user; the service
\* does not look at its status.
Google(r, u, j, f) ==
    /\ req[r] = Idle
    /\ status[u] \in {"active", "inactive"}
    /\ OpenSession(r, u, j, f)
    /\ UNCHANGED status

\* userRepository.store of a new user, by register or by google.
Register(r, u, j, f) ==
    /\ req[r] = Idle
    /\ status[u] = "absent"
    /\ status' = [status EXCEPT ![u] = "active"]
    /\ OpenSession(r, u, j, f)

\* authSessionRepository.store and the response.  The response may be lost on
\* its way, and then the client never gets the token.
Store(r, delivered) ==
    LET j == req[r].next
        f == token[j].family
    IN  /\ req[r].pc = "store"
        /\ row' = [row EXCEPT ![j] = "active"]
        /\ held' = IF delivered THEN held \cup {j} ELSE held
        /\ late' = IF status[token[j].user] = "active"
                     THEN late
                     ELSE [late EXCEPT ![f] = @ + 1]
        /\ req' = [req EXCEPT ![r] = Idle]
        /\ UNCHANGED <<status, token, now, closed>>

-----------------------------------------------------------------------------
\* POST /auth/refresh.

\* findByJti.  Without a row the answer is 401 and nothing changes.
RefreshFind(r, j) ==
    /\ req[r] = Idle
    /\ Verifies(j)
    /\ row[j] # "none"
    /\ req' = [req EXCEPT ![r] = [pc |-> "revoke", jti |-> j, next |-> NoJti]]
    /\ UNCHANGED <<status, token, row, held, now, closed, late>>

\* Mutant of RefreshRevoke: the boolean revokeByJti returns is ignored.
RefreshRevokeIgnoringResult(r) ==
    /\ req[r].pc = "revoke"
    /\ RevokeByJti(req[r].jti, "rotated")
    /\ req' = [req EXCEPT ![r].pc = "user"]
    /\ UNCHANGED <<status, token, held, now, closed, late>>

\* revokeByJti(jti, "rotated") says whether the row was active.
RefreshRevoke(r) ==
    LET j == req[r].jti
    IN  /\ req[r].pc = "revoke"
        /\ RevokeByJti(j, "rotated")
        /\ req' = [req EXCEPT ![r].pc = IF Live(j) THEN "user" ELSE "reuse"]
        /\ UNCHANGED <<status, token, held, now, closed, late>>

\* The rotation was lost: revokeFamily(family_id, "reuse_detected"), 401.
RefreshReuse(r) ==
    LET f == token[req[r].jti].family
    IN  /\ req[r].pc = "reuse"
        /\ RevokeFamily(f, "reuse_detected")
        /\ closed' = closed \cup {<<f, "reuse_detected">>}
        /\ req' = [req EXCEPT ![r] = Idle]
        /\ UNCHANGED <<status, token, held, now, late>>

\* Mutant of RefreshUser: the user's status is not looked at.
RefreshUserAnyStatus(r, k) ==
    LET j == req[r].jti
    IN  /\ req[r].pc = "user"
        /\ SignTokenPair(k, token[j].user, token[j].family, j)
        /\ req' = [req EXCEPT ![r].pc = "store", ![r].next = k]
        /\ UNCHANGED <<status, row, held, now, closed, late>>

\* findById(session.user_id) found the user active: sign the successor.
RefreshUser(r, k) ==
    LET j == req[r].jti
    IN  /\ req[r].pc = "user"
        /\ status[token[j].user] = "active"
        /\ SignTokenPair(k, token[j].user, token[j].family, j)
        /\ req' = [req EXCEPT ![r].pc = "store", ![r].next = k]
        /\ UNCHANGED <<status, row, held, now, closed, late>>

\* findById found no user, or one that is not active.
RefreshUserInactive(r) ==
    /\ req[r].pc = "user"
    /\ status[token[req[r].jti].user] # "active"
    /\ req' = [req EXCEPT ![r].pc = "inactive"]
    /\ UNCHANGED <<status, token, row, held, now, closed, late>>

\* revokeFamily(family_id, "user_inactive"), 401.
RefreshInactive(r) ==
    LET f == token[req[r].jti].family
    IN  /\ req[r].pc = "inactive"
        /\ RevokeFamily(f, "user_inactive")
        /\ closed' = closed \cup {<<f, "user_inactive">>}
        /\ req' = [req EXCEPT ![r] = Idle]
        /\ UNCHANGED <<status, token, held, now, late>>

-----------------------------------------------------------------------------
\* POST /auth/logout and /auth/logout-all: one statement each.

Logout(j) ==
    /\ Verifies(j)
    /\ RevokeByJti(j, "logout")
    /\ UNCHANGED <<status, token, held, req, now, closed, late>>

\* The caller is authenticated by an access token, which it got together with
\* a refresh token.  The families it had received a token of are reported closed.
LogoutAll(u) ==
    LET Received == {token[j].family : j \in {k \in held : token[k].user = u}}
    IN  /\ Received # {}
        /\ RevokeAllForUser(u, "logout_all")
        /\ closed' = closed \cup {<<f, "logout_all">> : f \in Received}
        /\ UNCHANGED <<status, token, held, req, now, late>>

-----------------------------------------------------------------------------
\* The rest of the system.

\* POST /users, by an administrator: no session is opened.
StoreUser(u, s) ==
    /\ status[u] = "absent"
    /\ status' = [status EXCEPT ![u] = s]
    /\ UNCHANGED <<token, row, held, req, now, closed, late>>

\* PATCH /users/:id with a status.  Sessions are not touched.
SetStatus(u, s) ==
    /\ status[u] \in {"active", "inactive"}
    /\ status' = [status EXCEPT ![u] = s]
    /\ late' = IF s # "active"
                 THEN late
                 ELSE [f \in Families |->
                        IF \E j \in Jtis : token[j].family = f /\ token[j].user = u
                          THEN 0 ELSE late[f]]
    /\ UNCHANGED <<token, row, held, req, now, closed>>

\* DELETE /users/:id.  auth_sessions has no foreign key: its rows stay.
DestroyUser(u) ==
    /\ status[u] \in {"active", "inactive"}
    /\ status' = [status EXCEPT ![u] = "deleted"]
    /\ UNCHANGED <<token, row, held, req, now, closed, late>>

\* Mutant of PurgeExpired: the comparison is the wrong way round.
PurgeUnexpired ==
    /\ row' = [j \in Jtis |-> IF token[j].expires > now THEN "none" ELSE row[j]]
    /\ UNCHANGED <<status, token, held, req, now, closed, late>>

\* purgeExpired(now): DELETE FROM auth_sessions WHERE expires_at < now.
PurgeExpired ==
    /\ row' = [j \in Jtis |-> IF token[j].expires < now THEN "none" ELSE row[j]]
    /\ UNCHANGED <<status, token, held, req, now, closed, late>>

\* The process serving r stops, or the connection fails: its locals are lost.
Crash(r) ==
    /\ req[r] # Idle
    /\ req' = [req EXCEPT ![r] = Idle]
    /\ UNCHANGED <<status, token, row, held, now, closed, late>>

Tick ==
    /\ now < MaxNow
    /\ now' = now + 1
    /\ UNCHANGED <<status, token, row, held, req, closed, late>>

-----------------------------------------------------------------------------

Init ==
    /\ status = [u \in Users |-> "absent"]
    /\ token = [j \in Jtis |-> Unsigned]
    /\ row = [j \in Jtis |-> "none"]
    /\ held = {}
    /\ req = [r \in Requests |-> Idle]
    /\ now = 0
    /\ closed = {}
    /\ late = [f \in Families |-> 0]

OpenAny(r) ==
    \E u \in Users, j \in Jtis, f \in Families :
        Login(r, u, j, f) \/ Google(r, u, j, f) \/ Register(r, u, j, f)

RefreshAny(r) ==
    \/ \E j \in Jtis : RefreshFind(r, j)
    \/ RefreshRevoke(r)
    \/ RefreshReuse(r)
    \/ \E k \in Jtis : RefreshUser(r, k)
    \/ RefreshUserInactive(r)
    \/ RefreshInactive(r)

ServeRequest(r) ==
    \/ OpenAny(r)
    \/ RefreshAny(r)
    \/ \E delivered \in BOOLEAN : Store(r, delivered)
    \/ Crash(r)

Next ==
    \/ \E r \in Requests : ServeRequest(r)
    \/ \E j \in Jtis : Logout(j)
    \/ \E u \in Users : LogoutAll(u) \/ DestroyUser(u)
    \/ \E u \in Users, s \in {"active", "inactive"} : StoreUser(u, s) \/ SetStatus(u, s)
    \/ PurgeExpired
    \/ Tick

Spec == Init /\ [][Next]_vars

-----------------------------------------------------------------------------
\* Properties.

\* Type invariant of the tables, the tokens and the requests' locals.
TypeOK ==
    /\ status \in [Users -> UserStatus]
    /\ token \in [Jtis -> Token]
    /\ row \in [Jtis -> {"none", "active"} \cup RevokedReason]
    /\ held \in SUBSET Jtis
    /\ req \in [Requests -> Request]
    /\ now \in Nat
    /\ closed \in SUBSET (Families \X RevokedReason)
    /\ late \in [Families -> Nat]

\* However many requests present the tokens of a family, in whatever order, the
\* family is a single line: it has at most one active session, and while a
\* refresh is between winning the rotation and storing the successor it has none
\* and no second refresh is in that place.
OneHolderPerFamily ==
    /\ \A j, k \in Jtis :
         Live(j) /\ Live(k) /\ token[j].family = token[k].family => j = k
    /\ \A r, s \in Requests :
         Minting(r) /\ Minting(s) /\ FamilyOf(r) = FamilyOf(s) => r = s
    /\ \A j \in Jtis, r \in Requests :
         Live(j) /\ Minting(r) => token[j].family # FamilyOf(r)

\* "exactly one of the concurrent requests receives true": no token is ever
\* exchanged for two successors, and one that a logout, a logout-all or a family
\* revocation got to first is not exchanged at all.
ExchangedAtMostOnce ==
    /\ \A j, k \in Jtis :
         token[j].parent = token[k].parent /\ token[j].parent # NoJti => j = k
    /\ \A j, k \in Jtis : token[k].parent = j => row[j] \in {"rotated", "none"}

\* A token that still verifies has its row, so presenting it a second time is
\* recognised as reuse and never mistaken for an unknown token: purging by
\* expires_at and verifying by exp agree.
VerifiableTokenHasRow == \A j \in Jtis : Verifies(j) => row[j] # "none"

\* No session of the family is active and no request can still store one.
Over(f) ==
    /\ ~ FreshFamily(f)
    /\ \A j \in Jtis : token[j].family = f => ~ Live(j)
    /\ \A r \in Requests : Minting(r) => FamilyOf(r) # f

\* A family that came to its end, by whichever road, is never revived: no order
\* of the requests that hold stale tokens or stale locals of it opens it again.
OverIsFinal == [][\A f \in Families : Over(f) => Over(f)']_vars

\* A revoked row keeps its reason until it is purged: a later revocation by
\* another request does not rewrite how the session ended.
RevocationIsFinal ==
    [][\A j \in Jtis : row[j] \in RevokedReason => row'[j] \in {row[j], "none"}]_vars

\* When refresh finds the user not active it ends the family for good: whoever
\* won the rotation is itself, so nobody else is about to store a successor.
InactiveClosesFamily ==
    \A f \in Families : <<f, "user_inactive">> \in closed => Over(f)

\* A user that stops being active loses each of its sessions by the second
\* refresh at the latest: a status read before the change can let one more token
\* of a family be stored, never two.
AtMostOneLateToken == \A f \in Families : late[f] <= 1

\* "se revoca la familia completa, cerrando todas las sesiones derivadas de ese
\* login" (auth.application-service.ts:174): after reuse was detected no session
\* of the family is active.
ReuseClosesFamily ==
    \A j \in Jtis : Live(j) => <<token[j].family, "reuse_detected">> \notin closed

\* "Cierra todas las sesiones activas del usuario autenticado"
\* (auth.application-service.ts:235): after logout-all no session of a login
\* that had been answered before is active.
LogoutAllClosesSessions ==
    \A j \in Jtis : Live(j) => <<token[j].family, "logout_all">> \notin closed

-----------------------------------------------------------------------------
\* The inductive invariant: the properties above follow from it.

\* A signed token belongs to a user that was registered; what was never signed
\* is neither stored nor held.
TokensWellFormed ==
    \A j \in Jtis :
        IF Signed(j)
          THEN token[j].user \in Users /\ status[token[j].user] # "absent"
          ELSE token[j] = Unsigned /\ row[j] = "none" /\ j \notin held

\* A family has one user, and a successor stays in the family of its parent.
Lineage ==
    /\ \A j, k \in Jtis :
         Signed(j) /\ token[j].family = token[k].family => token[j].user = token[k].user
    /\ \A k \in Jtis :
         token[k].parent # NoJti =>
            /\ Signed(token[k].parent)
            /\ token[k].family = token[token[k].parent].family

\* The locals a request relies on between its statements.
LocalsWellFormed ==
    \A r \in Requests :
        /\ req[r].pc = "idle" => req[r] = Idle
        /\ req[r].pc \in {"revoke", "reuse", "user", "inactive"} =>
             req[r].jti \in Jtis /\ Signed(req[r].jti)
        /\ req[r].pc = "store" =>
             /\ req[r].next \in Jtis /\ Signed(req[r].next)
             /\ row[req[r].next] = "none" /\ req[r].next \notin held

\* A request that won a rotation is the only one to hand out a successor, and a
\* token that is not stored yet has none.
PendingSuccessors ==
    \A r \in Requests, k \in Jtis :
        /\ req[r].pc = "user" =>
             token[k].parent # req[r].jti /\ row[req[r].jti] \in {"rotated", "none"}
        /\ req[r].pc = "store" => token[k].parent # req[r].next

\* Only expired rows are ever deleted.
DeletedMeansExpired ==
    \A j \in held : row[j] = "none" => token[j].expires < now

\* After a late token the user is still not active and no other one is coming.
LateTokens ==
    \A f \in Families :
        \/ late[f] = 0
        \/ /\ late[f] = 1
           /\ ~ FreshFamily(f)
           /\ \A j \in Jtis : token[j].family = f => status[token[j].user] # "active"
           /\ \A r \in Requests : req[r].pc = "store" => token[req[r].next].family # f

\* Between finding the user inactive and revoking the family it is already over.
InactiveIsOver ==
    \A r \in Requests : req[r].pc = "inactive" => Over(token[req[r].jti].family)

SessionInv ==
    /\ TypeOK
    /\ TokensWellFormed
    /\ Lineage
    /\ LocalsWellFormed
    /\ OneHolderPerFamily
    /\ PendingSuccessors
    /\ ExchangedAtMostOnce
    /\ DeletedMeansExpired
    /\ LateTokens

IInv ==
    /\ SessionInv
    /\ InactiveIsOver
    /\ InactiveClosesFamily

=============================================================================
