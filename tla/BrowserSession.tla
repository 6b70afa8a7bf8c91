----------------------------- MODULE BrowserSession -----------------------------
(***************************************************************************)
(* One browser with several tabs in front of AuthController: the HttpOnly  *)
(* refresh cookie of AuthRefreshCookie over the sessions of AuthSessions.  *)
(*                                                                         *)
(* The tabs share the cookie jar.  A call carries the cookie the jar had   *)
(* when it was sent, and its Set-Cookie reaches the jar when the response  *)
(* arrives, so a response may overwrite what a later one brought.  A tab   *)
(* has one call under way, which the server serves as the request of the   *)
(* same name.                                                              *)
(***************************************************************************)
EXTENDS AuthSessionsRefinement

CONSTANT Clear   \* the Set-Cookie of clearCookie

ASSUME ClearIsNoValue == Clear \notin Jtis \cup {NoJti}

VARIABLES
    jar,        \* the refresh cookie, NoJti without one
    tab,        \* the call each tab waits for
    signedOut,  \* history: families whose logout answered one revoked session
    excused     \* history: families something happened to that may end a session

browserVars == <<jar, tab, signedOut, excused>>
allVars == <<vars, browserVars>>

-----------------------------------------------------------------------------

\* cookie is what the call was sent with, brings its Set-Cookie.
Tab == [at     : {"idle", "sent", "server", "back"},
        call   : {"none", "open", "refresh", "logout", "logoutAll"},
        cookie : Jtis \cup {NoJti},
        brings : Jtis \cup {NoJti, Clear}]

Quiet == [at |-> "idle", call |-> "none", cookie |-> NoJti, brings |-> NoJti]

\* readCookie: the browser drops a cookie when it expires (expires of write).
Cookie == IF jar # NoJti /\ now < token[jar].expires THEN jar ELSE NoJti

Family(j) == IF j = NoJti THEN {} ELSE {token[j].family}

\* requireRefreshToken, verify and findByJti: there is a session to look at.
Known(j) == IF j = NoJti THEN FALSE ELSE Verifies(j) /\ row[j] # "none"

\* The response with a Set-Cookie, or without one, leaves the server.
Answer(t, setCookie) ==
    tab' = [tab EXCEPT ![t].at = "back", ![t].brings = setCookie]

\* Mutant of IssueSession: the cookie is written with the token of the request.
IssueSessionOfRequest(t) ==
    Answer(t, IF tab[t].cookie = NoJti THEN req[t].next ELSE tab[t].cookie)

\* issueSession: the refresh token leaves in the cookie only.
IssueSession(t) == Answer(t, req[t].next)

-----------------------------------------------------------------------------
\* The browser.

\* A tab calls refresh or logout with the cookie of the jar.  A session may end
\* by a logout, and by a refresh with a token another tab is exchanging.
Send(t, c) ==
    /\ tab[t] = Quiet
    /\ tab' = [tab EXCEPT ![t].at = "sent", ![t].call = c, ![t].cookie = Cookie]
    /\ excused' =
         IF c = "logout" \/ \E s \in Requests : tab[s].call = "refresh" /\ tab[s].cookie = Cookie
           THEN excused \cup Family(Cookie)
           ELSE excused
    /\ UNCHANGED <<jar, signedOut>>
    /\ UNCHANGED vars

\* Set-Cookie of a response takes effect in the order of arrival.
Receive(t) ==
    /\ tab[t].at = "back"
    /\ jar' = CASE tab[t].brings = Clear -> NoJti
                [] tab[t].brings = NoJti -> jar
                [] OTHER -> tab[t].brings
    /\ tab' = [tab EXCEPT ![t] = Quiet]
    /\ UNCHANGED <<signedOut, excused>>
    /\ UNCHANGED vars

\* The response is lost on its way.
Lose(t) ==
    /\ tab[t].at = "back"
    /\ tab' = [tab EXCEPT ![t] = Quiet]
    /\ excused' = excused \cup Family(tab[t].cookie)
    /\ UNCHANGED <<jar, signedOut>>
    /\ UNCHANGED vars

-----------------------------------------------------------------------------
\* AuthController.

\* register, login and google: the service opens a session.
Open(t) ==
    /\ tab[t] = Quiet
    /\ \E u \in Users, j \in Jtis, f \in Families :
         Register(t, u, j, f) \/ Login(t, u, j, f) \/ Google(t, u, j, f)
    /\ tab' = [tab EXCEPT ![t].at = "server", ![t].call = "open"]
    /\ UNCHANGED <<jar, signedOut, excused>>

\* The session is stored and the response carries its cookie.
Stored(t) ==
    /\ Store(t, TRUE)
    /\ IssueSession(t)
    /\ UNCHANGED <<jar, signedOut, excused>>

\* requireRefreshToken found a cookie and the service its row.
RefreshAccepted(t) ==
    /\ tab[t].at = "sent" /\ tab[t].call = "refresh" /\ Known(tab[t].cookie)
    /\ RefreshFind(t, tab[t].cookie)
    /\ tab' = [tab EXCEPT ![t].at = "server"]
    /\ UNCHANGED <<jar, signedOut, excused>>

\* No cookie, or a token that expired on its way: 401, and the cookie stays.
RefreshRefused(t) ==
    /\ tab[t].at = "sent" /\ tab[t].call = "refresh"
    /\ ~ Known(tab[t].cookie)
    /\ Answer(t, NoJti)
    /\ UNCHANGED <<jar, signedOut, excused>>
    /\ UNCHANGED vars

\* The statements of the service between the two.
RefreshServed(t) ==
    /\ \/ RefreshRevoke(t)
       \/ \E k \in Jtis : RefreshUser(t, k)
       \/ RefreshUserInactive(t)
    /\ UNCHANGED browserVars

\* Reuse, or a user that is not active: 401, and the cookie stays.
RefreshFailed(t) ==
    /\ RefreshReuse(t) \/ RefreshInactive(t)
    /\ Answer(t, NoJti)
    /\ UNCHANGED <<jar, signedOut, excused>>

\* Mutant of LogoutServed: one revoked session is answered whatever revokeByJti says.
LogoutServedAlwaysOne(t) ==
    /\ tab[t].at = "sent" /\ tab[t].call = "logout" /\ tab[t].cookie # NoJti
    /\ Logout(tab[t].cookie)
    /\ Answer(t, Clear)
    /\ signedOut' = signedOut \cup Family(tab[t].cookie)
    /\ UNCHANGED <<jar, excused>>

\* logout of the service; revoked_sessions says whether the row was active.
LogoutServed(t) ==
    /\ tab[t].at = "sent" /\ tab[t].call = "logout" /\ tab[t].cookie # NoJti
    /\ Logout(tab[t].cookie)
    /\ Answer(t, Clear)
    /\ signedOut' = IF Live(tab[t].cookie)
                      THEN signedOut \cup Family(tab[t].cookie) ELSE signedOut
    /\ UNCHANGED <<jar, excused>>

\* The cookie is cleared before the service is called: it is cleared without a
\* cookie to revoke (0 sessions), when the token does not verify (401) and when
\* the statement fails (500), and then the session stays.
LogoutOnlyClears(t) ==
    /\ tab[t].at = "sent" /\ tab[t].call = "logout"
    /\ Answer(t, Clear)
    /\ UNCHANGED <<jar, signedOut, excused>>
    /\ UNCHANGED vars

\* logout-all is authenticated by the access token of a user, not by the cookie.
LogoutAllServed(t) ==
    /\ tab[t] = Quiet
    /\ \E u \in Users : LogoutAll(u)
    /\ tab' = [tab EXCEPT ![t].at = "back", ![t].call = "logoutAll", ![t].brings = Clear]
    /\ excused' = Families
    /\ UNCHANGED <<jar, signedOut>>

\* The process serving the call stops: the browser sees a failed call.
ServerStops(t) ==
    /\ Crash(t)
    /\ tab' = [tab EXCEPT ![t] = Quiet]
    /\ excused' = excused \cup Family(tab[t].cookie)
    /\ UNCHANGED <<jar, signedOut>>

-----------------------------------------------------------------------------

\* An administrator deactivates the user.
UserDeactivated ==
    /\ \E u \in Users : SetStatus(u, "inactive")
    /\ excused' = Families
    /\ UNCHANGED <<jar, tab, signedOut>>

TimePasses ==
    /\ Tick \/ PurgeExpired
    /\ UNCHANGED browserVars

BrowserInit ==
    /\ Init
    /\ jar = NoJti
    /\ tab = [t \in Requests |-> Quiet]
    /\ signedOut = {}
    /\ excused = {}

TabStep(t) ==
    \/ Send(t, "refresh") \/ Send(t, "logout")
    \/ Receive(t) \/ Lose(t)
    \/ Open(t) \/ Stored(t)
    \/ RefreshAccepted(t) \/ RefreshRefused(t) \/ RefreshServed(t) \/ RefreshFailed(t)
    \/ LogoutServed(t) \/ LogoutOnlyClears(t) \/ LogoutAllServed(t)
    \/ ServerStops(t)

BrowserNext == (\E t \in Requests : TabStep(t)) \/ UserDeactivated \/ TimePasses

BrowserSpec == BrowserInit /\ [][BrowserNext]_allVars

-----------------------------------------------------------------------------
\* Properties.

\* Type invariant of the browser; the sessions have their own.
BrowserTypeOK ==
    /\ jar \in Jtis \cup {NoJti}
    /\ tab \in [Requests -> Tab]
    /\ signedOut \in SUBSET Families
    /\ excused \in SUBSET Families

\* A logout that answers one revoked session ended the login for good, although
\* other tabs may be in the middle of a refresh of it: no response still to
\* come, and no token of it, signs the browser in again.
LogoutOfOneIsFinal == \A f \in signedOut : Over(f)

\* A response never overwrites the jar with a token that was exchanged already,
\* in whatever order the responses of the tabs arrive.
JarNeverMovesBack ==
    [][jar' \notin {jar, NoJti} =>
         row[jar'] # "rotated" /\ \A k \in Jtis : token[k].parent # jar']_allVars

\* Nobody is signed out for nothing: while the browser holds a cookie that did
\* not expire, its session is active or being exchanged, unless the session was
\* logged out, two tabs refreshed with one token, a response was lost, a process
\* stopped, or the user was changed.
SignedOutForAReason ==
    LET j == Cookie
    IN  j # NoJti /\ token[j].family \notin excused =>
          Live(j) \/ \E t \in Requests : tab[t].call = "refresh" /\ tab[t].cookie = j

-----------------------------------------------------------------------------
\* The inductive invariant of LogoutOfOneIsFinal and JarNeverMovesBack.

\* What the browser sends and receives are tokens that were handed out.
TokensAreHeld ==
    /\ jar \in held \cup {NoJti}
    /\ \A t \in Requests :
        /\ tab[t].cookie \in held \cup {NoJti}
        /\ tab[t].brings \in held \cup {NoJti, Clear}
        /\ req[t].jti \in held \cup {NoJti}

\* A token on its way to the jar is nowhere else, so nobody exchanged it.
BroughtIsFresh ==
    \A t \in Requests :
        tab[t].brings \in Jtis =>
            /\ jar # tab[t].brings /\ row[tab[t].brings] # "rotated"
            /\ \A k \in Jtis : token[k].parent # tab[t].brings
            /\ \A s \in Requests :
                /\ tab[s].cookie # tab[t].brings /\ req[s].jti # tab[t].brings
                /\ s # t => tab[s].brings # tab[t].brings

BrowserInv ==
    /\ BrowserTypeOK
    /\ TokensAreHeld
    /\ BroughtIsFresh
    /\ LogoutOfOneIsFinal

-----------------------------------------------------------------------------
\* The inductive invariant of SignedOutForAReason.

\* What a tab waits for is what the server does for it: a refresh is served with
\* the cookie it was sent with and brings a token of the same family, and whoever
\* signs in presents no cookie.
Served(t) ==
    /\ tab[t].at = "idle" => tab[t] = Quiet
    /\ tab[t].at = "server" <=> req[t] # Idle
    /\ tab[t].at = "server" => tab[t].call \in {"open", "refresh"}
    /\ tab[t].at = "server" /\ tab[t].call = "refresh" =>
         /\ tab[t].cookie # NoJti /\ req[t].jti = tab[t].cookie
         /\ req[t].pc = "store" => token[req[t].next].family = token[tab[t].cookie].family
    /\ tab[t].call = "open" =>
         /\ tab[t].cookie = NoJti
         /\ tab[t].at = "server" => req[t].pc = "store"
    /\ tab[t].brings \in Jtis =>
         /\ tab[t].at = "back" /\ tab[t].call \in {"open", "refresh"}
         /\ tab[t].call = "refresh" =>
              tab[t].cookie # NoJti /\ token[tab[t].brings].family = token[tab[t].cookie].family

CallsAreServed == \A t \in Requests : Served(t)

\* A tab that refreshes with a cookie of family f.
Refreshes(t, f) ==
    tab[t].call = "refresh" /\ tab[t].cookie # NoJti /\ token[tab[t].cookie].family = f

\* A family to which nothing happened is refreshed by one tab at a time, with the
\* cookie of the jar.
OneRefreshPerFamily ==
    \A f \in Families \ excused :
        /\ \A s, t \in Requests : Refreshes(s, f) /\ Refreshes(t, f) => s = t
        /\ \A t \in Requests :
             jar # NoJti /\ token[jar].family = f /\ Refreshes(t, f) => tab[t].cookie = jar

\* Until its first response arrives nobody holds another token of a new login.
LoginsAreAlone ==
    \A t \in Requests : tab[t].call = "open" =>
        /\ tab[t].at = "server" => \A h \in held : token[h].family # token[req[t].next].family
        /\ tab[t].brings \in Jtis =>
             \A h \in held : token[h].family = token[tab[t].brings].family => h = tab[t].brings

\* Logouts and changes of users are excuses.
ExcusesAreNoted ==
    /\ \A t \in Requests :
         tab[t].call = "logout" /\ tab[t].cookie # NoJti => token[tab[t].cookie].family \in excused
    /\ excused = Families \/ \A u \in Users : status[u] \in {"absent", "active"}

\* A token the browser may rely on.
Reliable(j) == j \in Jtis /\ token[j].family \notin excused /\ now < token[j].expires

\* The refresh of such a token does not fail.
RefreshSucceeds(t) ==
    tab[t].call = "refresh" /\ Reliable(tab[t].cookie) =>
      /\ tab[t].at = "sent" => Live(tab[t].cookie)
      /\ tab[t].at = "server" =>
           req[t].pc \in {"user", "store"} \/ (req[t].pc = "revoke" /\ Live(tab[t].cookie))
      /\ tab[t].at = "back" => tab[t].brings \in Jtis

\* Such a token is active in the jar, on its way to the jar and on its way to be
\* refreshed.
ReliableIsLive ==
    /\ Reliable(jar) =>
         Live(jar) \/ \E t \in Requests : tab[t].call = "refresh" /\ tab[t].cookie = jar
    /\ \A t \in Requests : Reliable(tab[t].brings) => Live(tab[t].brings)
    /\ \A t \in Requests : RefreshSucceeds(t)

SignedInInv ==
    /\ CallsAreServed
    /\ OneRefreshPerFamily
    /\ LoginsAreAlone
    /\ ExcusesAreNoted
    /\ ReliableIsLive

=============================================================================
