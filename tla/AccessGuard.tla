------------------------------- MODULE AccessGuard -------------------------------
(***************************************************************************)
(* Access tokens and the calls they let through the guards of Routes.      *)
(*                                                                         *)
(* An access token is not looked up anywhere: JwtAuthGuard verifies it and *)
(* takes the user and the role from its claims, so a token keeps the role  *)
(* its user had when it was signed until it expires.  Users are written by *)
(* calls of this same API.  Whether a user still has a refresh session, or *)
(* a Google account, is the matter of AuthSessions and UserAccounts; here  *)
(* a refresh or a sign-in with Google may come at any time.                *)
(***************************************************************************)
EXTENDS Routes, Naturals

CONSTANTS
    Users,       \* users.id of the rows there are at the start
    Clients,     \* calls the API can be serving at the same time
    NoUser,
    GivenRoles,  \* the roles users are given: a bound
    AccessTTL    \* JWT_ACCESS_TOKEN_TTL, in ticks of the clock

ASSUME NoUserIsNoUser == NoUser \notin Users
ASSUME GivenRolesAreRoles == GivenRoles \subseteq Roles
ASSUME AccessTTLPositive == AccessTTL \in Nat \ {0}

VARIABLES
    role,    \* users.role of each user, "none" once its row was deleted
    active,  \* the users whose users.status is active
    access,  \* ticks left of the youngest access token of a user with a claim
    call     \* each call being served: its next statement, its user and claim

userVars == <<role, active>>
accessVars == <<userVars, access, call>>

\* users.role, which a row that was deleted has no more.
UserRole == GivenRoles \cup {"none"}

Quiet == [pc |-> "idle", user |-> NoUser, claim |-> "none"]

Claim == [user : Users \cup {NoUser}, claim : UserRole]

Answer(c) == call' = [call EXCEPT ![c] = Quiet]

-----------------------------------------------------------------------------
\* Signing in.

\* signTokenPair: the access token copies the role it is handed.
Sign(u, claim) == access' = [access EXCEPT ![u][claim] = AccessTTL]

\* The row was read, and the pair is going to be signed with its role.
ReadUser(c, u, claim) ==
    /\ call[c] = Quiet
    /\ role[u] # "none"
    /\ call' = [call EXCEPT ![c] = [pc |-> "sign", user |-> u, claim |-> claim]]
    /\ UNCHANGED <<userVars, access>>

\* login: findByEmail; then the password is compared and the failed attempts
\* are cleared.
LoginFind(c, u) == u \in active /\ ReadUser(c, u, role[u])

\* google: findByGoogleSub, or the row of the email as it was linked.  Neither
\* looks at the status.
GoogleFind(c, u) == ReadUser(c, u, role[u])

\* Mutant of RefreshFind: the claims of the refresh token are signed again; they
\* were copied from one to the next since the login, whatever the role was then.
RefreshFindKeepingClaims(c, u) ==
    u \in active /\ \E claim \in GivenRoles : ReadUser(c, u, claim)

\* refresh: findById of the user whose session was rotated.
RefreshFind(c, u) == u \in active /\ ReadUser(c, u, role[u])

\* buildTokenResponse.
SignPair(c) ==
    /\ call[c].pc = "sign"
    /\ Sign(call[c].user, call[c].claim)
    /\ Answer(c)
    /\ UNCHANGED userVars

\* A tick of the clock the tokens expire by.
Tick ==
    /\ access' = [u \in Users |-> [claim \in GivenRoles |->
                    IF access[u][claim] = 0 THEN 0 ELSE access[u][claim] - 1]]
    /\ UNCHANGED <<userVars, call>>

-----------------------------------------------------------------------------
\* Calls.

\* The guards let the call through to the first statement of its handler.
Admit(c, e, u, claim, first) ==
    /\ call[c] = Quiet
    /\ access[u][claim] > 0
    /\ Admits(e, claim)
    /\ call' = [call EXCEPT ![c] = [pc |-> first, user |-> u, claim |-> claim]]
    /\ UNCHANGED <<userVars, access>>

UserEndpoints == {<<"users", h>> : h \in {"store", "update", "destroy"}}

\* Endpoints that write neither users nor products.
OtherEndpoints ==
    {<<"users", "index">>, <<"users", "show">>, <<"uploads", "store">>,
     <<"aiChat", "store">>, <<"auth", "logoutAll">>}

AdmitUserWrite(c, u, claim) ==
    \E e \in UserEndpoints : Admit(c, e, u, claim, "writeUser")

AdmitOther(c, u, claim) ==
    \E e \in OtherEndpoints : Admit(c, e, u, claim, "answer")

\* update and destroy of UserController give a user another role or status, or
\* delete it; store adds one that is not in Users.
WriteUser(c) ==
    /\ call[c].pc = "writeUser"
    /\ \/ UNCHANGED userVars
       \/ \E u \in Users, r \in UserRole, status \in {"active", "inactive", "blocked"} :
            /\ role[u] # "none"
            /\ role' = [role EXCEPT ![u] = r]
            /\ active' = IF r # "none" /\ status = "active" THEN active \cup {u} ELSE active \ {u}
    /\ Answer(c)
    /\ UNCHANGED access

AnswerOther(c) ==
    /\ call[c].pc = "answer"
    /\ Answer(c)
    /\ UNCHANGED <<userVars, access>>

-----------------------------------------------------------------------------

AccessInit ==
    /\ role \in [Users -> GivenRoles] /\ active \in SUBSET Users
    /\ access = [u \in Users |-> [claim \in GivenRoles |-> 0]]
    /\ call = [c \in Clients |-> Quiet]

\* Somebody can act with role r of user u: a token that has not expired, or a
\* call, a sign-in among them, that is under way with it.
Wields(u, r) ==
    \/ access[u][r] > 0
    \/ \E c \in Clients : call[c].user = u /\ call[c].claim = r

\* A sign-in or a refresh has read user u with role r and will sign it.
Signing(u, r) ==
    \E c \in Clients : call[c].pc = "sign" /\ call[c].user = u /\ call[c].claim = r

=============================================================================
