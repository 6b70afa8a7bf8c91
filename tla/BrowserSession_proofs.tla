--------------------------- MODULE BrowserSession_proofs ---------------------------
(***************************************************************************)
(* Proofs about BrowserSession, for every number of tabs, logins and       *)
(* tokens.                                                                 *)
(*                                                                         *)
(* The browser only calls the service: its steps are steps of AuthSessions *)
(* or leave the sessions alone, so what is proved there holds here.  What  *)
(* is added is where a token is on its way from the service to the jar.    *)
(***************************************************************************)
EXTENDS BrowserSession, AuthSessions_proofs

\* A step of the browser is a step of the service or none.
LEMMA BrowserStep ==
  ASSUME BrowserTypeOK, [BrowserNext]_allVars
  PROVE  [Next]_vars
<1>1. ASSUME NEW t \in Requests, TabStep(t) PROVE [Next]_vars
  <2>1. CASE Open(t)
    BY <2>1 DEF Open, Next, ServeRequest, OpenAny
  <2>2. CASE Stored(t)
    BY <2>2 DEF Stored, Next, ServeRequest
  <2>3. CASE RefreshAccepted(t)
    <3>1. tab[t].cookie \in Jtis
      BY <2>3 DEF RefreshAccepted, Known, BrowserTypeOK, Tab
    <3> QED BY <2>3, <3>1 DEF RefreshAccepted, Next, ServeRequest, RefreshAny
  <2>4. CASE RefreshServed(t) \/ RefreshFailed(t)
    BY <2>4 DEF RefreshServed, RefreshFailed, Next, ServeRequest, RefreshAny
  <2>5. CASE LogoutServed(t)
    <3>1. tab[t].cookie \in Jtis
      BY <2>5 DEF LogoutServed, BrowserTypeOK, Tab
    <3> QED BY <2>5, <3>1 DEF LogoutServed, Next
  <2>6. CASE LogoutAllServed(t)
    BY <2>6 DEF LogoutAllServed, Next
  <2>7. CASE ServerStops(t)
    BY <2>7 DEF ServerStops, Next, ServeRequest
  <2>8. CASE Send(t, "refresh") \/ Send(t, "logout") \/ Receive(t) \/ Lose(t)
             \/ RefreshRefused(t) \/ LogoutOnlyClears(t)
    BY <2>8 DEF Send, Receive, Lose, RefreshRefused, LogoutOnlyClears
  <2> QED BY <1>1, <2>1, <2>2, <2>3, <2>4, <2>5, <2>6, <2>7, <2>8 DEF TabStep
<1>2. UserDeactivated \/ TimePasses => [Next]_vars
  BY DEF UserDeactivated, TimePasses, Next
<1>3. UNCHANGED allVars => UNCHANGED vars
  BY DEF allVars
<1> QED BY <1>1, <1>2, <1>3 DEF BrowserNext

\* A token that was handed out belongs to a family.
LEMMA HeldHasFamily ==
  ASSUME SessionInv, NEW j \in held \cup {NoJti}
  PROVE  Family(j) \in SUBSET Families
<1>1. CASE j = NoJti
  BY <1>1 DEF Family
<1>2. CASE j # NoJti
  <2>1. j \in held /\ j \in Jtis
    BY <1>2 DEF SessionInv, TypeOK
  <2>2. token[j].family \in Families
    BY <2>1 DEF SessionInv, TypeOK, Token, TokensWellFormed, Signed
  <2> QED BY <1>2, <2>2 DEF Family
<1> QED BY <1>1, <1>2

\* The cookie a call is sent with is that of the jar, or none.
LEMMA CookieOfJar == Cookie \in {jar, NoJti}
BY DEF Cookie

\* What a step that changes one tab does to the types.
LEMMA TabTyped ==
  ASSUME BrowserTypeOK, NEW t \in Requests, NEW n \in Tab, tab' = [tab EXCEPT ![t] = n],
         jar' \in Jtis \cup {NoJti}, signedOut' \in SUBSET Families, excused' \in SUBSET Families
  PROVE  BrowserTypeOK'
BY DEF BrowserTypeOK

LEMMA AnswerTyped ==
  ASSUME BrowserTypeOK, NEW t \in Requests, NEW s \in Jtis \cup {NoJti, Clear}, Answer(t, s),
         jar' \in Jtis \cup {NoJti}, signedOut' \in SUBSET Families, excused' \in SUBSET Families
  PROVE  BrowserTypeOK'
<1> DEFINE n == [tab[t] EXCEPT !.at = "back", !.brings = s]
<1>1. n \in Tab
  BY DEF BrowserTypeOK, Tab
<1>2. tab' = [tab EXCEPT ![t] = n]
  BY DEF Answer
<1> HIDE DEF n
<1> QED BY <1>1, <1>2, TabTyped

LEMMA QuietTyped == Quiet \in Tab
BY DEF Quiet, Tab

\* The browser's variables keep their types.
LEMMA BrowserTypeKeeps ==
  ASSUME SessionInv, BrowserTypeOK, TokensAreHeld, [BrowserNext]_allVars
  PROVE  BrowserTypeOK'
<1>1. \A t \in Requests : Family(tab[t].cookie) \in SUBSET Families
  BY HeldHasFamily DEF TokensAreHeld
<1>2. Cookie \in held \cup {NoJti} /\ Cookie \in Jtis \cup {NoJti}
  BY CookieOfJar DEF TokensAreHeld, BrowserTypeOK
<1>3. Family(Cookie) \in SUBSET Families
  BY <1>2, HeldHasFamily
<1>4. ASSUME NEW t \in Requests, NEW c \in {"refresh", "logout"}, Send(t, c)
      PROVE  BrowserTypeOK'
  <2> DEFINE n == [tab[t] EXCEPT !.at = "sent", !.call = c, !.cookie = Cookie]
  <2>1. n \in Tab
    BY <1>2 DEF BrowserTypeOK, Tab
  <2>2. tab' = [tab EXCEPT ![t] = n]
    BY <1>4 DEF Send
  <2>3. jar' = jar /\ signedOut' = signedOut /\ excused' \in SUBSET Families
    BY <1>3, <1>4 DEF Send, BrowserTypeOK
  <2> HIDE DEF n
  <2> QED BY <2>1, <2>2, <2>3, TabTyped DEF BrowserTypeOK
<1>5. ASSUME NEW t \in Requests, Receive(t)
      PROVE  BrowserTypeOK'
  <2>1. jar' \in Jtis \cup {NoJti}
    BY <1>5 DEF Receive, BrowserTypeOK, Tab
  <2> QED BY <1>5, <2>1, QuietTyped, TabTyped DEF Receive, BrowserTypeOK
<1>6. ASSUME NEW t \in Requests, Lose(t) \/ ServerStops(t)
      PROVE  BrowserTypeOK'
  BY <1>1, <1>6, QuietTyped, TabTyped DEF Lose, ServerStops, BrowserTypeOK
<1>7. ASSUME NEW t \in Requests, Open(t)
      PROVE  BrowserTypeOK'
  <2> DEFINE n == [tab[t] EXCEPT !.at = "server", !.call = "open"]
  <2>1. n \in Tab
    BY DEF BrowserTypeOK, Tab
  <2>2. tab' = [tab EXCEPT ![t] = n]
    BY <1>7 DEF Open
  <2> HIDE DEF n
  <2> QED BY <1>7, <2>1, <2>2, TabTyped DEF Open, BrowserTypeOK
<1>8. ASSUME NEW t \in Requests, Stored(t)
      PROVE  BrowserTypeOK'
  <2>1. req[t].next \in Jtis
    BY <1>8 DEF Stored, Store, SessionInv, LocalsWellFormed
  <2> QED BY <1>8, <2>1, AnswerTyped DEF Stored, IssueSession, BrowserTypeOK
<1>9. ASSUME NEW t \in Requests, RefreshAccepted(t)
      PROVE  BrowserTypeOK'
  <2> DEFINE n == [tab[t] EXCEPT !.at = "server"]
  <2>1. n \in Tab
    BY DEF BrowserTypeOK, Tab
  <2>2. tab' = [tab EXCEPT ![t] = n]
    BY <1>9 DEF RefreshAccepted
  <2> HIDE DEF n
  <2> QED BY <1>9, <2>1, <2>2, TabTyped DEF RefreshAccepted, BrowserTypeOK
<1>10. ASSUME NEW t \in Requests, RefreshRefused(t) \/ RefreshFailed(t) \/ LogoutOnlyClears(t)
       PROVE  BrowserTypeOK'
  BY <1>10, AnswerTyped DEF RefreshRefused, RefreshFailed, LogoutOnlyClears, BrowserTypeOK
<1>11. ASSUME NEW t \in Requests, LogoutServed(t)
       PROVE  BrowserTypeOK'
  <2>1. signedOut' \in SUBSET Families
    BY <1>1, <1>11 DEF LogoutServed, BrowserTypeOK
  <2> QED BY <1>11, <2>1, AnswerTyped DEF LogoutServed, BrowserTypeOK
<1>12. ASSUME NEW t \in Requests, LogoutAllServed(t)
       PROVE  BrowserTypeOK'
  <2> DEFINE n == [tab[t] EXCEPT !.at = "back", !.call = "logoutAll", !.brings = Clear]
  <2>1. n \in Tab
    BY DEF BrowserTypeOK, Tab
  <2>2. tab' = [tab EXCEPT ![t] = n]
    BY <1>12 DEF LogoutAllServed
  <2> HIDE DEF n
  <2> QED BY <1>12, <2>1, <2>2, TabTyped DEF LogoutAllServed, BrowserTypeOK
<1>13. CASE \/ \E t \in Requests : RefreshServed(t)
            \/ TimePasses \/ UserDeactivated \/ UNCHANGED allVars
  BY <1>13 DEF RefreshServed, TimePasses, UserDeactivated, browserVars, allVars, BrowserTypeOK
<1> QED BY <1>4, <1>5, <1>6, <1>7, <1>8, <1>9, <1>10, <1>11, <1>12, <1>13 DEF BrowserNext, TabStep

-----------------------------------------------------------------------------
\* Where tokens go in one step.

\* What the service does with the tokens it is presented.
LEMMA ServiceMoves ==
  ASSUME SessionInv, [Next]_vars
  PROVE  /\ held \subseteq held'
         /\ \A j \in Jtis : row'[j] = "rotated" =>
              row[j] = "rotated" \/ \E s \in Requests : req[s].jti = j
         /\ \A k \in Jtis :
              \/ token'[k].parent \in {token[k].parent, NoJti}
              \/ \E s \in Requests : token'[k].parent = req[s].jti
<1> USE DEF SessionInv, TypeOK
<1>1. ASSUME NEW r \in Requests, OpenAny(r) PROVE held' = held /\ row' = row
      /\ \A k \in Jtis : token'[k].parent \in {token[k].parent, NoJti}
  BY <1>1 DEF OpenAny, Login, Google, Register, OpenSession, SignTokenPair
<1>2. ASSUME NEW r \in Requests, NEW d \in BOOLEAN, Store(r, d)
      PROVE  /\ held \subseteq held' /\ token' = token
             /\ \A j \in Jtis : row'[j] \in {row[j], "active"}
  BY <1>2 DEF Store
<1>3. ASSUME NEW r \in Requests, RefreshRevoke(r)
      PROVE  /\ held' = held /\ token' = token
             /\ \A j \in Jtis : row'[j] = row[j] \/ req[r].jti = j
  BY <1>3 DEF RefreshRevoke, RevokeByJti
<1>4. ASSUME NEW r \in Requests, NEW k \in Jtis, RefreshUser(r, k)
      PROVE  /\ held' = held /\ row' = row
             /\ \A i \in Jtis : token'[i].parent = token[i].parent \/ token'[i].parent = req[r].jti
  BY <1>4 DEF RefreshUser, SignTokenPair
<1>5. ASSUME NEW r \in Requests, RefreshReuse(r) \/ RefreshInactive(r)
      PROVE  /\ held' = held /\ token' = token
             /\ \A j \in Jtis : row'[j] \in {row[j], "reuse_detected", "user_inactive"}
  BY <1>5 DEF RefreshReuse, RefreshInactive, RevokeFamily
<1>6. ASSUME \/ \E j \in Jtis : Logout(j)
             \/ \E u \in Users : LogoutAll(u)
             \/ PurgeExpired
      PROVE  /\ held' = held /\ token' = token
             /\ \A j \in Jtis : row'[j] \in {row[j], "logout", "logout_all", "none"}
  BY <1>6 DEF Logout, LogoutAll, RevokeByJti, RevokeAllForUser, PurgeExpired
<1>7. ASSUME \/ \E r \in Requests, j \in Jtis : RefreshFind(r, j)
             \/ \E r \in Requests : RefreshUserInactive(r) \/ Crash(r)
             \/ \E u \in Users : DestroyUser(u)
             \/ \E u \in Users, s \in {"active", "inactive"} : StoreUser(u, s) \/ SetStatus(u, s)
             \/ Tick \/ UNCHANGED vars
      PROVE  held' = held /\ token' = token /\ row' = row
  BY <1>7 DEF RefreshFind, RefreshUserInactive, Crash, DestroyUser, StoreUser, SetStatus, Tick, vars
<1> QED
  BY <1>1, <1>2, <1>3, <1>4, <1>5, <1>6, <1>7 DEF Next, ServeRequest, RefreshAny

\* What a request of the service presents is the cookie of its call.
LEMMA PresentedMoves ==
  ASSUME SessionInv, [BrowserNext]_allVars, NEW s \in Requests
  PROVE  req'[s].jti \in {req[s].jti, tab[s].cookie, NoJti}
<1> USE DEF SessionInv, TypeOK
<1>1. ASSUME NEW t \in Requests, TabStep(t) PROVE req'[s].jti \in {req[s].jti, tab[s].cookie, NoJti}
  <2>1. CASE Open(t)
    BY <2>1 DEF Open, Login, Google, Register, OpenSession
  <2>2. CASE Stored(t) \/ RefreshFailed(t) \/ ServerStops(t)
    BY <2>2 DEF Stored, Store, RefreshFailed, RefreshReuse, RefreshInactive, ServerStops, Crash, Idle
  <2>3. CASE RefreshAccepted(t)
    BY <2>3 DEF RefreshAccepted, RefreshFind
  <2>4. CASE RefreshServed(t)
    BY <2>4 DEF RefreshServed, RefreshRevoke, RefreshUser, RefreshUserInactive, Request
  <2>5. CASE LogoutServed(t) \/ LogoutAllServed(t)
    BY <2>5 DEF LogoutServed, Logout, LogoutAllServed, LogoutAll
  <2>6. CASE Send(t, "refresh") \/ Send(t, "logout") \/ Receive(t) \/ Lose(t)
             \/ RefreshRefused(t) \/ LogoutOnlyClears(t)
    BY <2>6 DEF Send, Receive, Lose, RefreshRefused, LogoutOnlyClears, vars
  <2> QED BY <1>1, <2>1, <2>2, <2>3, <2>4, <2>5, <2>6 DEF TabStep
<1>2. CASE UserDeactivated \/ TimePasses \/ UNCHANGED allVars
  BY <1>2 DEF UserDeactivated, SetStatus, TimePasses, Tick, PurgeExpired, allVars, vars
<1> QED BY <1>1, <1>2 DEF BrowserNext

\* What a step of a tab does to the jar and the calls.
LEMMA BrowserMoves ==
  ASSUME BrowserTypeOK, [BrowserNext]_allVars
  PROVE  /\ \/ jar' \in {jar, NoJti}
            \/ \E t \in Requests : jar' = tab[t].brings /\ tab' = [tab EXCEPT ![t] = Quiet]
         /\ \A s \in Requests : tab'[s].cookie \in {tab[s].cookie, jar, NoJti}
         /\ \A s \in Requests :
              \/ tab'[s].brings \in {tab[s].brings, NoJti, Clear}
              \/ Stored(s) /\ tab'[s].brings = req[s].next
<1> USE CookieOfJar DEF BrowserTypeOK, Tab, Quiet
<1>1. ASSUME NEW t \in Requests, Send(t, "refresh") \/ Send(t, "logout")
      PROVE  /\ jar' = jar
             /\ \A s \in Requests : /\ tab'[s].cookie \in {tab[s].cookie, jar, NoJti}
                                    /\ tab'[s].brings = tab[s].brings
  BY <1>1 DEF Send
<1>2. ASSUME NEW t \in Requests, Receive(t)
      PROVE  /\ jar' \in {jar, NoJti, tab[t].brings} /\ tab' = [tab EXCEPT ![t] = Quiet]
             /\ \A s \in Requests : /\ tab'[s].cookie \in {tab[s].cookie, NoJti}
                                    /\ tab'[s].brings \in {tab[s].brings, NoJti}
  BY <1>2 DEF Receive
<1>3. ASSUME NEW t \in Requests, Lose(t) \/ ServerStops(t)
      PROVE  /\ jar' = jar
             /\ \A s \in Requests : /\ tab'[s].cookie \in {tab[s].cookie, NoJti}
                                    /\ tab'[s].brings \in {tab[s].brings, NoJti}
  BY <1>3 DEF Lose, ServerStops
<1>4. ASSUME NEW t \in Requests, Open(t) \/ RefreshAccepted(t)
      PROVE  /\ jar' = jar
             /\ \A s \in Requests : /\ tab'[s].cookie = tab[s].cookie
                                    /\ tab'[s].brings = tab[s].brings
  BY <1>4 DEF Open, RefreshAccepted
<1>5. ASSUME NEW t \in Requests, Stored(t)
      PROVE  /\ jar' = jar
             /\ \A s \in Requests : /\ tab'[s].cookie = tab[s].cookie
                                    /\ tab'[s].brings = IF s = t THEN req[t].next ELSE tab[s].brings
  BY <1>5 DEF Stored, IssueSession, Answer
<1>6. ASSUME NEW t \in Requests,
             RefreshRefused(t) \/ RefreshFailed(t) \/ LogoutServed(t) \/ LogoutOnlyClears(t)
      PROVE  /\ jar' = jar
             /\ \A s \in Requests : /\ tab'[s].cookie = tab[s].cookie
                                    /\ tab'[s].brings \in {tab[s].brings, NoJti, Clear}
  BY <1>6 DEF RefreshRefused, RefreshFailed, LogoutServed, LogoutOnlyClears, Answer
<1>7. ASSUME NEW t \in Requests, LogoutAllServed(t)
      PROVE  /\ jar' = jar
             /\ \A s \in Requests : /\ tab'[s].cookie = tab[s].cookie
                                    /\ tab'[s].brings \in {tab[s].brings, Clear}
  BY <1>7 DEF LogoutAllServed
<1>8. CASE \/ \E t \in Requests : RefreshServed(t)
           \/ TimePasses \/ UserDeactivated \/ UNCHANGED allVars
  BY <1>8 DEF RefreshServed, TimePasses, UserDeactivated, browserVars, allVars
<1> QED
  <2>1. CASE \E t \in Requests : TabStep(t)
    BY <2>1, <1>1, <1>2, <1>3, <1>4, <1>5, <1>6, <1>7, <1>8 DEF TabStep
  <2> QED BY <1>8, <2>1 DEF BrowserNext

\* The session a tab's response brings is stored by then, and was not before.
LEMMA StoredMoves ==
  ASSUME SessionInv, NEW t \in Requests, Stored(t)
  PROVE  /\ req[t].next \in Jtis /\ req[t].next \notin held /\ held' = held \cup {req[t].next}
         /\ row'[req[t].next] = "active" /\ token' = token /\ jar' = jar
         /\ \A k \in Jtis : token[k].parent # req[t].next
<1>1. req[t].pc = "store"
  BY DEF Stored, Store
<1>2. req[t].next \in Jtis /\ req[t].next \notin held
  BY <1>1 DEF SessionInv, LocalsWellFormed
<1>3. \A k \in Jtis : token[k].parent # req[t].next
  BY <1>1 DEF SessionInv, PendingSuccessors
<1> QED BY <1>2, <1>3 DEF Stored, Store, SessionInv, TypeOK

-----------------------------------------------------------------------------
\* The parts of the invariant are preserved.

LEMMA TokensAreHeldKeeps ==
  ASSUME SessionInv, BrowserTypeOK, TokensAreHeld, [BrowserNext]_allVars
  PROVE  TokensAreHeld'
<1>1. held \subseteq held'
  BY BrowserStep, ServiceMoves
<1>2. jar' \in held \cup {NoJti}
  <2>1. jar' \in Jtis \cup {NoJti}
    BY BrowserTypeKeeps DEF BrowserTypeOK
  <2>2. jar' \in held \cup {NoJti, Clear}
    BY BrowserMoves DEF TokensAreHeld
  <2> QED BY <2>1, <2>2, ClearIsNoValue
<1>3. ASSUME NEW s \in Requests
      PROVE  /\ tab'[s].cookie \in held \cup {NoJti}
             /\ req'[s].jti \in held \cup {NoJti}
             /\ tab'[s].brings \in held' \cup {NoJti, Clear}
  <2>1. tab'[s].cookie \in held \cup {NoJti}
    BY BrowserMoves DEF TokensAreHeld
  <2>2. req'[s].jti \in held \cup {NoJti}
    BY PresentedMoves DEF TokensAreHeld
  <2>3. tab'[s].brings \in held' \cup {NoJti, Clear}
    <3>1. CASE tab'[s].brings \in {tab[s].brings, NoJti, Clear}
      BY <1>1, <3>1 DEF TokensAreHeld
    <3>2. CASE Stored(s) /\ tab'[s].brings = req[s].next
      BY <3>2, StoredMoves
    <3> QED BY <3>1, <3>2, BrowserMoves
  <2> QED BY <2>1, <2>2, <2>3
<1> QED BY <1>1, <1>2, <1>3 DEF TokensAreHeld

LEMMA BroughtIsFreshKeeps ==
  ASSUME SessionInv, BrowserTypeOK, TokensAreHeld, BroughtIsFresh, [BrowserNext]_allVars
  PROVE  BroughtIsFresh'
<1> DEFINE Nowhere(t, j) ==
      /\ jar' # j /\ row'[j] # "rotated"
      /\ \A k \in Jtis : token'[k].parent # j
      /\ \A s \in Requests :
          /\ tab'[s].cookie # j /\ req'[s].jti # j
          /\ s # t => tab'[s].brings # j
<1>1. \A j \in Jtis : j # NoJti /\ j # Clear
  BY NullsAreNoValues, ClearIsNoValue
<1>2. [Next]_vars
  BY BrowserStep
<1>3. ASSUME NEW t \in Requests, NEW j \in Jtis, tab[t].brings = j, tab'[t].brings = j
      PROVE  Nowhere(t, j)
  <2>1. /\ jar # j /\ row[j] # "rotated"
        /\ \A k \in Jtis : token[k].parent # j
        /\ \A s \in Requests : /\ tab[s].cookie # j /\ req[s].jti # j
                               /\ s # t => tab[s].brings # j
    BY <1>3 DEF BroughtIsFresh
  <2>2. jar' # j
    <3>1. ASSUME NEW s \in Requests, jar' = tab[s].brings, tab' = [tab EXCEPT ![s] = Quiet]
          PROVE  jar' # j
      <4>1. s # t
        BY <1>1, <1>3, <3>1 DEF BrowserTypeOK, Quiet
      <4> QED BY <2>1, <3>1, <4>1
    <3> QED BY <1>1, <2>1, <3>1, BrowserMoves
  <2>3. row'[j] # "rotated" /\ \A k \in Jtis : token'[k].parent # j
    BY <1>1, <1>2, <2>1, ServiceMoves
  <2>4. ASSUME NEW s \in Requests
        PROVE  /\ tab'[s].cookie # j /\ req'[s].jti # j
               /\ s # t => tab'[s].brings # j
    <3>1. tab'[s].cookie # j
      BY <1>1, <2>1, BrowserMoves
    <3>2. req'[s].jti # j
      BY <1>1, <2>1, PresentedMoves
    <3>3. j \in held
      BY <1>1, <1>3 DEF TokensAreHeld
    <3>4. Stored(s) => req[s].next # j
      BY <3>3, StoredMoves
    <3> QED BY <1>1, <2>1, <3>1, <3>2, <3>4, BrowserMoves
  <2> QED BY <2>2, <2>3, <2>4
<1>4. ASSUME NEW t \in Requests, NEW j \in Jtis, Stored(t), tab'[t].brings = req[t].next, j = req[t].next
      PROVE  Nowhere(t, j)
  <2>1. /\ j \notin held /\ row'[j] = "active" /\ jar' = jar
        /\ \A k \in Jtis : token'[k].parent # j
    BY <1>4, StoredMoves
  <2>2. jar' # j
    BY <1>1, <2>1 DEF TokensAreHeld
  <2>3. ASSUME NEW s \in Requests
        PROVE  /\ tab'[s].cookie # j /\ req'[s].jti # j
               /\ s # t => tab'[s].brings # j
    <3>1. tab'[s].cookie # j /\ req'[s].jti # j
      BY <1>1, <2>1, BrowserMoves, PresentedMoves DEF TokensAreHeld
    <3>2. s # t => tab'[s].brings = tab[s].brings
      BY <1>4 DEF Stored, IssueSession, Answer, BrowserTypeOK
    <3> QED BY <1>1, <2>1, <3>1, <3>2 DEF TokensAreHeld
  <2> QED BY <2>1, <2>2, <2>3
<1>5. ASSUME NEW t \in Requests, tab'[t].brings \in Jtis
      PROVE  Nowhere(t, tab'[t].brings)
  <2>1. CASE tab'[t].brings \in {tab[t].brings, NoJti, Clear}
    BY <1>1, <1>3, <1>5, <2>1
  <2>2. CASE Stored(t) /\ tab'[t].brings = req[t].next
    BY <1>4, <1>5, <2>2
  <2> QED BY <2>1, <2>2, BrowserMoves
<1> QED BY <1>5 DEF BroughtIsFresh

\* A logout that revoked an active session left nothing of its family.
LEMMA LogoutEndsFamily ==
  ASSUME SessionInv, NEW j \in Jtis, Logout(j), Live(j), NEW f, f = token[j].family
  PROVE  Over(f)'
<1>1. token' = token /\ req' = req /\ row' = [row EXCEPT ![j] = "logout"]
  BY DEF Logout, RevokeByJti, Live
<1>2. ~ FreshFamily(f)'
  BY <1>1 DEF FreshFamily
<1>3. ASSUME NEW k \in Jtis, token'[k].family = f PROVE ~ Live(k)'
  <2>1. Live(k) => k = j
    BY <1>1, <1>3 DEF SessionInv, OneHolderPerFamily
  <2> QED BY <1>1, <2>1 DEF Live, SessionInv, TypeOK
<1>4. ASSUME NEW r \in Requests, Minting(r)' PROVE FamilyOf(r)' # f
  <2>1. Minting(r) /\ FamilyOf(r)' = FamilyOf(r)
    BY <1>1, <1>4 DEF Minting, FamilyOf
  <2> QED BY <2>1 DEF SessionInv, OneHolderPerFamily
<1> QED BY <1>1, <1>2, <1>3, <1>4 DEF Over

LEMMA LogoutOfOneKeeps ==
  ASSUME SessionInv, BrowserTypeOK, LogoutOfOneIsFinal, [BrowserNext]_allVars
  PROVE  LogoutOfOneIsFinal'
<1>1. \A f \in signedOut : Over(f)'
  BY BrowserStep, OverKeeps DEF LogoutOfOneIsFinal, BrowserTypeOK
<1>2. ASSUME NEW t \in Requests, LogoutServed(t) PROVE \A f \in signedOut' : Over(f)'
  <2>1. tab[t].cookie \in Jtis /\ Logout(tab[t].cookie)
    BY <1>2 DEF LogoutServed, BrowserTypeOK, Tab
  <2>2. \/ signedOut' = signedOut
        \/ Live(tab[t].cookie) /\ signedOut' = signedOut \cup {token[tab[t].cookie].family}
    BY <1>2 DEF LogoutServed, Family
  <2>3. Live(tab[t].cookie) => \A f : f = token[tab[t].cookie].family => Over(f)'
    BY <2>1, LogoutEndsFamily
  <2> QED BY <1>1, <2>2, <2>3
<1>3. CASE ~ \E t \in Requests : LogoutServed(t)
  <2>1. signedOut' = signedOut
    BY <1>3 DEF BrowserNext, TabStep, Send, Receive, Lose, Open, Stored, RefreshAccepted,
                RefreshRefused, RefreshServed, RefreshFailed, LogoutOnlyClears, LogoutAllServed,
                ServerStops, UserDeactivated, TimePasses, browserVars, allVars
  <2> QED BY <1>1, <2>1 DEF LogoutOfOneIsFinal
<1> QED BY <1>2, <1>3 DEF LogoutOfOneIsFinal

-----------------------------------------------------------------------------
\* The theorems.

LEMMA InitBrowserInv ==
  ASSUME BrowserInit
  PROVE  SessionInv /\ BrowserInv
<1>1. SessionInv
  BY InitSessionInv DEF BrowserInit
<1>2. BrowserTypeOK
  BY QuietTyped DEF BrowserInit, BrowserTypeOK
<1>3. TokensAreHeld /\ BroughtIsFresh
  BY NullsAreNoValues DEF BrowserInit, Init, Idle, Quiet, TokensAreHeld, BroughtIsFresh
<1>4. LogoutOfOneIsFinal
  BY DEF BrowserInit, LogoutOfOneIsFinal
<1> QED BY <1>1, <1>2, <1>3, <1>4 DEF BrowserInv

LEMMA BrowserInvKeeps ==
  ASSUME SessionInv, BrowserInv, [BrowserNext]_allVars
  PROVE  SessionInv' /\ BrowserInv'
<1> USE DEF BrowserInv
<1>1. SessionInv'
  BY BrowserStep, NextKeeps
<1>2. BrowserTypeOK'
  BY BrowserTypeKeeps
<1>3. TokensAreHeld'
  BY TokensAreHeldKeeps
<1>4. BroughtIsFresh'
  BY BroughtIsFreshKeeps
<1>5. LogoutOfOneIsFinal'
  BY LogoutOfOneKeeps
<1> QED BY <1>1, <1>2, <1>3, <1>4, <1>5

\* In every reachable state the sessions satisfy their invariant and the browser
\* its own: tabs, jar and calls hold handed-out tokens only, and one that is on
\* its way to the jar is nowhere else.
THEOREM BrowserInvariant == BrowserSpec => [](SessionInv /\ BrowserInv)
<1>1. BrowserInit => SessionInv /\ BrowserInv
  BY InitBrowserInv
<1>2. SessionInv /\ BrowserInv /\ [BrowserNext]_allVars => (SessionInv /\ BrowserInv)'
  BY BrowserInvKeeps
<1> QED BY <1>1, <1>2, PTL DEF BrowserSpec

\* POST /auth/logout answering one revoked session is final, whatever the other
\* tabs have under way.
THEOREM LogoutFinal == BrowserSpec => []LogoutOfOneIsFinal
<1>1. BrowserInv => LogoutOfOneIsFinal
  BY DEF BrowserInv
<1> QED BY <1>1, BrowserInvariant, PTL

\* Whatever the order in which the responses of the tabs arrive, the cookie they
\* leave is one nobody exchanged yet.
THEOREM JarForward == BrowserSpec => JarNeverMovesBack
<1> DEFINE Forward == jar' \notin {jar, NoJti} =>
      row[jar'] # "rotated" /\ \A k \in Jtis : token[k].parent # jar'
<1>1. ASSUME SessionInv, BrowserInv, [BrowserNext]_allVars PROVE Forward
  <2>1. SUFFICES ASSUME jar' \notin {jar, NoJti}
                 PROVE  row[jar'] # "rotated" /\ \A k \in Jtis : token[k].parent # jar'
    OBVIOUS
  <2>2. PICK t \in Requests : jar' = tab[t].brings
    BY <1>1, <2>1, BrowserMoves DEF BrowserInv
  <2>3. jar' \in Jtis
    BY <1>1, <2>1, BrowserTypeKeeps DEF BrowserInv, BrowserTypeOK
  <2> QED BY <1>1, <2>2, <2>3 DEF BrowserInv, BroughtIsFresh
<1>2. SessionInv /\ BrowserInv /\ [BrowserNext]_allVars => [Forward]_allVars
  BY <1>1
<1> QED BY <1>2, BrowserInvariant, PTL DEF BrowserSpec, JarNeverMovesBack

-----------------------------------------------------------------------------
\* Nobody is signed out for nothing: what the steps leave alone.

\* A token in use was signed, and keeps its family and its expiry.
LEMMA UsedTokensKeep ==
  ASSUME SessionInv, BrowserTypeOK, [BrowserNext]_allVars
  PROVE  /\ \A j \in held : j \in Jtis /\ token'[j] = token[j] /\ token[j].family \in Families
         /\ \A t \in Requests : req[t].pc = "store" =>
              /\ req[t].next \in Jtis /\ token'[req[t].next] = token[req[t].next]
              /\ token[req[t].next].family \in Families
<1>1. ASSUME NEW j \in Jtis, Signed(j)
      PROVE  token'[j] = token[j] /\ token[j].family \in Families
  BY <1>1, BrowserStep, SignedIsImmutable DEF SessionInv, TypeOK, Token, Signed
<1>2. \A j \in held : j \in Jtis /\ Signed(j)
  BY DEF SessionInv, TypeOK, TokensWellFormed
<1>3. \A t \in Requests : req[t].pc = "store" => req[t].next \in Jtis /\ Signed(req[t].next)
  BY DEF SessionInv, LocalsWellFormed
<1> QED BY <1>1, <1>2, <1>3

\* A step of a tab is about its own call and its own request.
LEMMA OthersStay ==
  ASSUME SessionInv, BrowserTypeOK, NEW t \in Requests, TabStep(t),
         NEW s \in Requests \ {t}
  PROVE  tab'[s] = tab[s] /\ req'[s] = req[s]
<1> USE DEF BrowserTypeOK, SessionInv, TypeOK
<1>1. CASE Send(t, "refresh") \/ Send(t, "logout") \/ Receive(t) \/ Lose(t)
           \/ RefreshRefused(t) \/ LogoutOnlyClears(t)
  BY <1>1 DEF Send, Receive, Lose, RefreshRefused, LogoutOnlyClears, Answer, vars
<1>2. CASE Open(t)
  BY <1>2 DEF Open, Login, Google, Register, OpenSession
<1>3. CASE Stored(t)
  BY <1>3 DEF Stored, Store, IssueSession, Answer
<1>4. CASE RefreshAccepted(t) \/ ServerStops(t)
  BY <1>4 DEF RefreshAccepted, RefreshFind, ServerStops, Crash
<1>5. CASE RefreshServed(t)
  BY <1>5 DEF RefreshServed, RefreshRevoke, RefreshUser, RefreshUserInactive, browserVars
<1>6. CASE RefreshFailed(t)
  BY <1>6 DEF RefreshFailed, RefreshReuse, RefreshInactive, Answer
<1>7. CASE LogoutServed(t) \/ LogoutAllServed(t)
  BY <1>7 DEF LogoutServed, Logout, Answer, LogoutAllServed, LogoutAll
<1> QED BY <1>1, <1>2, <1>3, <1>4, <1>5, <1>6, <1>7 DEF TabStep

\* Neither do administrators and the clock touch calls and requests.
LEMMA WorldStays ==
  ASSUME UserDeactivated \/ TimePasses \/ UNCHANGED allVars
  PROVE  tab' = tab /\ req' = req /\ jar' = jar /\ held' = held /\ token' = token
BY DEF UserDeactivated, SetStatus, TimePasses, Tick, PurgeExpired, browserVars, allVars, vars

\* An excuse stays one.
LEMMA ExcusedGrows ==
  ASSUME BrowserTypeOK, [BrowserNext]_allVars
  PROVE  excused \subseteq excused'
<1>1. ASSUME NEW t \in Requests, TabStep(t)
      PROVE  excused \subseteq excused'
  BY <1>1 DEF TabStep, Send, Receive, Lose, Open, Stored, RefreshAccepted, RefreshRefused, RefreshServed,
              RefreshFailed, LogoutServed, LogoutOnlyClears, LogoutAllServed, ServerStops, browserVars,
              BrowserTypeOK
<1>2. CASE UserDeactivated \/ TimePasses \/ UNCHANGED allVars
  BY <1>2 DEF UserDeactivated, TimePasses, browserVars, allVars, BrowserTypeOK
<1> QED BY <1>1, <1>2 DEF BrowserNext

\* A token is handed out when it is stored.
LEMMA HandedOut ==
  ASSUME SessionInv, BrowserTypeOK, [BrowserNext]_allVars, NEW h \in held' \ held
  PROVE  \E t \in Requests : Stored(t) /\ h = req[t].next
<1>1. ASSUME NEW t \in Requests, TabStep(t), ~ Stored(t)
      PROVE  held' = held
  BY <1>1 DEF TabStep, Send, Receive, Lose, Open, Login, Google, Register, OpenSession, RefreshAccepted,
              RefreshFind, RefreshRefused, RefreshServed, RefreshRevoke, RefreshUser,
              RefreshUserInactive, RefreshFailed, RefreshReuse, RefreshInactive, LogoutServed, Logout,
              LogoutOnlyClears, LogoutAllServed, LogoutAll, ServerStops, Crash, vars
<1>2. ~ (UserDeactivated \/ TimePasses \/ UNCHANGED allVars)
  BY WorldStays
<1>3. PICK t \in Requests : TabStep(t) /\ Stored(t)
  BY <1>1, <1>2 DEF BrowserNext
<1> QED BY <1>3, StoredMoves

-----------------------------------------------------------------------------
\* CallsAreServed.

\* A call and its request stay served as long as they stay.
LEMMA ServedStays ==
  ASSUME SessionInv, BrowserInv, [BrowserNext]_allVars, NEW s \in Requests, Served(s),
         tab'[s] = tab[s], req'[s] = req[s]
  PROVE  Served(s)'
<1>1. /\ tab[s].cookie # NoJti => token'[tab[s].cookie] = token[tab[s].cookie]
      /\ tab[s].brings \in Jtis => token'[tab[s].brings] = token[tab[s].brings]
  BY UsedTokensKeep, NullsAreNoValues, ClearIsNoValue DEF BrowserInv, TokensAreHeld
<1>2. req[s].pc = "store" => token'[req[s].next] = token[req[s].next]
  BY UsedTokensKeep DEF BrowserInv
<1> QED BY <1>1, <1>2 DEF Served

\* The tab whose step it is.
LEMMA ServedKeeps ==
  ASSUME SessionInv, BrowserInv, [BrowserNext]_allVars, NEW t \in Requests, TabStep(t), Served(t)
  PROVE  Served(t)'
<1> USE NullsAreNoValues, ClearIsNoValue DEF BrowserInv, BrowserTypeOK
<1>1. /\ tab[t].cookie # NoJti => token'[tab[t].cookie] = token[tab[t].cookie]
      /\ tab[t].brings \in Jtis => token'[tab[t].brings] = token[tab[t].brings]
      /\ req[t].pc = "store" => token'[req[t].next] = token[req[t].next] /\ req[t].next \in Jtis
  BY UsedTokensKeep DEF TokensAreHeld
<1>2. ASSUME tab'[t] = Quiet, req'[t] = Idle
      PROVE  Served(t)'
  BY <1>2 DEF Served, Quiet, Idle
<1>3. CASE Send(t, "refresh") \/ Send(t, "logout")
  <2>1. req[t] = Idle /\ req' = req
    BY <1>3 DEF Served, Send, Quiet, vars
  <2>2. PICK c \in {"refresh", "logout"} : Send(t, c)
    BY <1>3
  <2>3. tab[t] = Quiet /\ tab'[t] = [tab[t] EXCEPT !.at = "sent", !.call = c, !.cookie = Cookie]
    BY <2>2 DEF Send
  <2>4. tab'[t].at = "sent" /\ tab'[t].call = c /\ tab'[t].brings = NoJti
    BY <2>3 DEF Quiet
  <2> QED BY <2>1, <2>4 DEF Served
<1>4. CASE Receive(t) \/ Lose(t)
  <2>1. tab[t].at = "back" /\ tab'[t] = Quiet /\ req' = req
    BY <1>4 DEF Receive, Lose, vars
  <2> QED BY <1>2, <2>1 DEF Served
<1>5. CASE ServerStops(t)
  BY <1>2, <1>5 DEF ServerStops, Crash, SessionInv, TypeOK
<1>6. CASE Open(t)
  <2>1. tab[t] = Quiet /\ tab'[t] = [tab[t] EXCEPT !.at = "server", !.call = "open"]
    BY <1>6 DEF Open
  <2>2. req'[t].pc = "store" /\ req'[t] # Idle
    BY <1>6 DEF Open, Login, Google, Register, OpenSession, SessionInv, TypeOK, Idle
  <2>3. /\ tab'[t].at = "server" /\ tab'[t].call = "open" /\ tab'[t].brings = NoJti
        /\ tab'[t].cookie = NoJti
    BY <2>1 DEF Quiet
  <2> QED BY <2>2, <2>3 DEF Served
<1>7. CASE Stored(t)
  <2>1. /\ req[t].pc = "store" /\ req[t] # Idle /\ req'[t] = Idle /\ req[t].next \in Jtis
        /\ tab'[t] = [tab[t] EXCEPT !.at = "back", !.brings = req[t].next]
    BY <1>1, <1>7 DEF Stored, Store, IssueSession, Answer, SessionInv, TypeOK, Idle
  <2>2. /\ tab'[t].at = "back" /\ tab'[t].brings = req[t].next
        /\ tab'[t].call = tab[t].call /\ tab'[t].cookie = tab[t].cookie
    BY <2>1 DEF Tab
  <2>3. tab[t].at = "server"
    BY <2>1 DEF Served
  <2>4. tab[t].call = "refresh" =>
          tab[t].cookie # NoJti /\ token'[req[t].next].family = token'[tab[t].cookie].family
    BY <1>1, <2>1, <2>3 DEF Served
  <2> QED BY <2>1, <2>2, <2>3, <2>4 DEF Served
<1>8. CASE RefreshAccepted(t)
  <2>1. /\ tab[t].at = "sent" /\ tab[t].call = "refresh" /\ tab[t].cookie # NoJti
        /\ tab'[t] = [tab[t] EXCEPT !.at = "server"]
        /\ req'[t] = [pc |-> "revoke", jti |-> tab[t].cookie, next |-> NoJti]
    BY <1>8 DEF RefreshAccepted, Known, RefreshFind, SessionInv, TypeOK
  <2>2. /\ tab'[t].at = "server" /\ tab'[t].call = "refresh"
        /\ tab'[t].cookie = tab[t].cookie /\ tab'[t].brings = tab[t].brings
    BY <2>1 DEF Tab
  <2>3. req'[t].pc = "revoke" /\ req'[t].jti = tab[t].cookie /\ req'[t] # Idle
    BY <2>1 DEF Idle
  <2> QED BY <2>1, <2>2, <2>3 DEF Served
<1>9. CASE RefreshRefused(t) \/ LogoutOnlyClears(t) \/ LogoutServed(t)
  <2>1. /\ tab[t].at = "sent" /\ tab[t].call \in {"refresh", "logout"} /\ req' = req
        /\ \E c \in {NoJti, Clear} : tab'[t] = [tab[t] EXCEPT !.at = "back", !.brings = c]
    BY <1>9 DEF RefreshRefused, LogoutOnlyClears, LogoutServed, Logout, Answer, vars
  <2>2. /\ tab'[t].at = "back" /\ tab'[t].call = tab[t].call /\ tab'[t].brings \notin Jtis
        /\ tab[t].call # "open"
    BY <2>1 DEF Tab
  <2> QED BY <2>1, <2>2 DEF Served
<1>10. CASE RefreshServed(t)
  <2>1. tab'[t] = tab[t] /\ req[t] # Idle /\ req'[t] # Idle /\ req[t].pc # "store"
    BY <1>10 DEF RefreshServed, RefreshRevoke, RefreshUser, RefreshUserInactive, browserVars, Idle,
                 SessionInv, TypeOK, Request
  <2>2. /\ tab[t].at = "server" /\ tab[t].call = "refresh"
        /\ tab[t].cookie # NoJti /\ req[t].jti = tab[t].cookie
    BY <2>1 DEF Served
  <2>3. req'[t].jti = req[t].jti
    BY <1>10 DEF RefreshServed, RefreshRevoke, RefreshUser, RefreshUserInactive, SessionInv, TypeOK,
                 Request
  <2>4. ASSUME req'[t].pc = "store"
        PROVE  token'[req'[t].next].family = token'[tab[t].cookie].family
    <3>1. PICK k \in Jtis : RefreshUser(t, k)
      BY <1>10, <2>4 DEF RefreshServed, RefreshRevoke, RefreshUserInactive, SessionInv, TypeOK, Request
    <3>2. req'[t].next = k /\ token'[k].family = token[req[t].jti].family
      BY <3>1 DEF RefreshUser, SignTokenPair, SessionInv, TypeOK, Request
    <3> QED BY <1>1, <2>2, <3>2
  <2> QED BY <1>1, <2>1, <2>2, <2>3, <2>4 DEF Served
<1>11. CASE RefreshFailed(t)
  <2>1. /\ req[t].pc \in {"reuse", "inactive"} /\ req'[t] = Idle
        /\ tab'[t] = [tab[t] EXCEPT !.at = "back", !.brings = NoJti]
    BY <1>11 DEF RefreshFailed, RefreshReuse, RefreshInactive, Answer, SessionInv, TypeOK
  <2>2. /\ tab'[t].at = "back" /\ tab'[t].call = tab[t].call /\ tab'[t].cookie = tab[t].cookie
        /\ tab'[t].brings \notin Jtis
    BY <2>1 DEF Tab
  <2>3. tab[t].at = "server"
    BY <2>1 DEF Served, Idle
  <2> QED BY <2>1, <2>2, <2>3 DEF Served
<1>12. CASE LogoutAllServed(t)
  <2>1. /\ tab[t] = Quiet /\ req' = req
        /\ tab'[t] = [tab[t] EXCEPT !.at = "back", !.call = "logoutAll", !.brings = Clear]
    BY <1>12 DEF LogoutAllServed, LogoutAll
  <2>2. tab'[t].at = "back" /\ tab'[t].call = "logoutAll" /\ tab'[t].brings \notin Jtis
    BY <2>1 DEF Quiet
  <2>3. req[t] = Idle
    BY <2>1 DEF Served, Quiet
  <2> QED BY <2>1, <2>2, <2>3 DEF Served
<1> QED BY <1>3, <1>4, <1>5, <1>6, <1>7, <1>8, <1>9, <1>10, <1>11, <1>12 DEF TabStep

LEMMA CallsAreServedKeeps ==
  ASSUME SessionInv, BrowserInv, CallsAreServed, [BrowserNext]_allVars
  PROVE  CallsAreServed'
<1> SUFFICES ASSUME NEW s \in Requests
             PROVE  Served(s)'
  BY DEF CallsAreServed
<1>1. Served(s)
  BY DEF CallsAreServed
<1>2. ASSUME NEW t \in Requests, TabStep(t)
      PROVE  Served(s)'
  BY <1>1, <1>2, OthersStay, ServedStays, ServedKeeps DEF BrowserInv
<1>3. CASE UserDeactivated \/ TimePasses \/ UNCHANGED allVars
  BY <1>1, <1>3, WorldStays, ServedStays
<1> QED BY <1>2, <1>3 DEF BrowserNext

-----------------------------------------------------------------------------
\* OneRefreshPerFamily, LoginsAreAlone and ExcusesAreNoted.

\* A call keeps its name and its cookie until it is over.
LEMMA CallMoves ==
  ASSUME SessionInv, BrowserInv, CallsAreServed, NEW t \in Requests, TabStep(t)
  PROVE  \/ tab'[t].call = tab[t].call /\ tab'[t].cookie = tab[t].cookie
         \/ tab'[t] = Quiet
         \/ Open(t) /\ tab'[t].call = "open"
         \/ tab'[t].call = "logoutAll"
         \/ \E c \in {"refresh", "logout"} :
              Send(t, c) /\ tab'[t].call = c /\ tab'[t].cookie = Cookie
<1> USE DEF BrowserInv, BrowserTypeOK, Tab
<1>1. CASE Send(t, "refresh") \/ Send(t, "logout")
  <2>1. PICK c \in {"refresh", "logout"} : Send(t, c)
    BY <1>1
  <2>2. tab'[t] = [tab[t] EXCEPT !.at = "sent", !.call = c, !.cookie = Cookie]
    BY <2>1 DEF Send
  <2>3. tab'[t].call = c /\ tab'[t].cookie = Cookie
    BY <2>2
  <2> QED BY <2>1, <2>3
<1>2. CASE Receive(t) \/ Lose(t) \/ ServerStops(t)
  BY <1>2 DEF Receive, Lose, ServerStops
<1>3. CASE Open(t)
  BY <1>3 DEF Open
<1>4. CASE LogoutAllServed(t)
  BY <1>4 DEF LogoutAllServed
<1>5. CASE \/ Stored(t) \/ RefreshAccepted(t) \/ RefreshRefused(t) \/ RefreshServed(t)
           \/ RefreshFailed(t) \/ LogoutServed(t) \/ LogoutOnlyClears(t)
  <2>1. \/ tab' = tab
        \/ tab' = [tab EXCEPT ![t].at = "server"]
        \/ \E b : tab' = [tab EXCEPT ![t].at = "back", ![t].brings = b]
    BY <1>5 DEF Stored, IssueSession, RefreshAccepted, RefreshRefused, RefreshServed, RefreshFailed,
                LogoutServed, LogoutOnlyClears, Answer, browserVars
  <2> QED BY <2>1
<1> QED BY <1>1, <1>2, <1>3, <1>4, <1>5 DEF TabStep

\* A refresh that is there after a step was there before, or is sent now.
LEMMA RefreshesMoves ==
  ASSUME SessionInv, BrowserInv, CallsAreServed, [BrowserNext]_allVars,
         NEW s \in Requests, tab'[s].call \in {"refresh", "logout"}
  PROVE  \/ tab[s].call = tab'[s].call /\ tab'[s].cookie = tab[s].cookie
         \/ Send(s, tab'[s].call) /\ tab'[s].cookie = Cookie
<1>1. ASSUME NEW t \in Requests, TabStep(t), t # s
      PROVE  tab'[s] = tab[s]
  BY <1>1, OthersStay DEF BrowserInv
<1>2. CASE TabStep(s)
  BY <1>2, CallMoves DEF Quiet
<1>3. CASE UserDeactivated \/ TimePasses \/ UNCHANGED allVars
  BY <1>3, WorldStays
<1> QED BY <1>1, <1>2, <1>3 DEF BrowserNext

\* The cookies of calls, the jar and what is on its way keep their families.
LEMMA CookiesKeep ==
  ASSUME SessionInv, BrowserInv, [BrowserNext]_allVars
  PROVE  /\ jar # NoJti => jar \in held /\ token'[jar] = token[jar]
         /\ \A t \in Requests : tab[t].cookie # NoJti =>
              tab[t].cookie \in held /\ token'[tab[t].cookie] = token[tab[t].cookie]
         /\ \A t \in Requests : tab[t].brings \in Jtis =>
              tab[t].brings \in held /\ token'[tab[t].brings] = token[tab[t].brings]
BY UsedTokensKeep, NullsAreNoValues, ClearIsNoValue DEF BrowserInv, TokensAreHeld

\* The refresh that a step leaves for a family without an excuse.
LEMMA RefreshesBefore ==
  ASSUME SessionInv, BrowserInv, CallsAreServed, [BrowserNext]_allVars,
         NEW f \in Families, NEW s \in Requests, Refreshes(s, f)'
  PROVE  \/ Refreshes(s, f) /\ tab'[s].cookie = tab[s].cookie
         \/ /\ Send(s, "refresh") /\ jar # NoJti
            /\ tab'[s].cookie = jar /\ Cookie = jar /\ token[jar].family = f
<1>1. tab'[s].call = "refresh" /\ tab'[s].cookie # NoJti /\ token'[tab'[s].cookie].family = f
  BY DEF Refreshes
<1>2. CASE tab[s].call = "refresh" /\ tab'[s].cookie = tab[s].cookie
  BY <1>1, <1>2, CookiesKeep DEF Refreshes
<1>3. CASE Send(s, "refresh") /\ tab'[s].cookie = Cookie
  BY <1>1, <1>3, CookieOfJar, CookiesKeep
<1> QED BY <1>1, <1>2, <1>3, RefreshesMoves

\* Sending a second refresh of a family is noted as an excuse.
LEMMA SecondRefreshIsNoted ==
  ASSUME BrowserInv, OneRefreshPerFamily, NEW f \in Families, f \notin excused',
         NEW s \in Requests, Send(s, "refresh"), Cookie = jar, jar # NoJti, token[jar].family = f,
         NEW t \in Requests
  PROVE  ~ Refreshes(t, f)
<1> SUFFICES ASSUME Refreshes(t, f)
             PROVE  FALSE
  OBVIOUS
<1>1. f \notin excused
  BY DEF Send
<1>2. tab[t].cookie = jar /\ tab[t].call = "refresh"
  BY <1>1 DEF OneRefreshPerFamily, Refreshes
<1>3. excused' = excused \cup Family(Cookie)
  BY <1>2 DEF Send
<1> QED BY <1>3 DEF Family

LEMMA OneRefreshKeeps ==
  ASSUME SessionInv, BrowserInv, CallsAreServed, OneRefreshPerFamily, LoginsAreAlone,
         [BrowserNext]_allVars
  PROVE  OneRefreshPerFamily'
<1> SUFFICES ASSUME NEW f \in Families, f \notin excused'
             PROVE  /\ \A s, t \in Requests : Refreshes(s, f)' /\ Refreshes(t, f)' => s = t
                    /\ \A t \in Requests :
                         jar' # NoJti /\ token'[jar'].family = f /\ Refreshes(t, f)'
                           => tab'[t].cookie = jar'
  BY DEF OneRefreshPerFamily
<1>1. f \notin excused
  BY ExcusedGrows DEF BrowserInv
<1>2. ASSUME NEW s \in Requests, NEW t \in Requests, Refreshes(s, f)', Refreshes(t, f)', s # t
      PROVE  FALSE
  <2>1. CASE Refreshes(s, f) /\ Refreshes(t, f)
    BY <1>1, <1>2, <2>1 DEF OneRefreshPerFamily
  <2>2. ASSUME NEW x \in Requests, NEW y \in Requests, x # y, Refreshes(x, f)', Refreshes(y, f)',
               ~ Refreshes(x, f)
        PROVE  FALSE
    <3>1. Send(x, "refresh") /\ Cookie = jar /\ jar # NoJti /\ token[jar].family = f
      BY <2>2, RefreshesBefore
    <3>2. ~ Refreshes(y, f)
      BY <3>1, SecondRefreshIsNoted
    <3>3. Send(y, "refresh")
      BY <2>2, <3>2, RefreshesBefore
    <3>4. tab'[x] = tab[x]
      BY <2>2, <3>3 DEF Send, BrowserInv, BrowserTypeOK
    <3>5. tab[x] = Quiet
      BY <3>1 DEF Send
    <3> QED BY <2>2, <3>4, <3>5 DEF Refreshes, Quiet
  <2> QED BY <1>2, <2>1, <2>2
<1>3. ASSUME NEW t \in Requests, jar' # NoJti, token'[jar'].family = f, Refreshes(t, f)'
      PROVE  tab'[t].cookie = jar'
  <2>1. CASE jar' = jar
    <3>1. token[jar].family = f
      BY <1>3, <2>1, CookiesKeep
    <3> QED BY <1>1, <1>3, <2>1, <3>1, RefreshesBefore DEF OneRefreshPerFamily
  <2>2. ASSUME NEW s \in Requests, jar' = tab[s].brings, tab' = [tab EXCEPT ![s] = Quiet], jar' # jar
        PROVE  FALSE
    <3>1. jar' \in Jtis
      BY <1>3, BrowserTypeKeeps DEF BrowserInv, BrowserTypeOK
    <3>2. token[tab[s].brings].family = f
      BY <1>3, <2>2, <3>1, CookiesKeep
    <3>3. s # t
      BY <1>3, <2>2 DEF Refreshes, Quiet, BrowserInv, BrowserTypeOK
    <3>4. Refreshes(t, f)
      <4>1. tab'[t] = tab[t]
        BY <2>2, <3>3 DEF BrowserInv, BrowserTypeOK
      <4>2. ~ Send(t, "refresh")
        BY <1>3, <4>1 DEF Send, Refreshes, Quiet
      <4> QED BY <1>3, <4>2, RefreshesBefore
    <3>5. tab[s].call \in {"open", "refresh"}
      BY <2>2, <3>1 DEF CallsAreServed, Served
    <3>6. CASE tab[s].call = "refresh"
      <4>1. Refreshes(s, f)
        BY <2>2, <3>1, <3>2, <3>6 DEF CallsAreServed, Served, Refreshes
      <4> QED BY <1>1, <3>3, <3>4, <4>1 DEF OneRefreshPerFamily
    <3>7. CASE tab[s].call = "open"
      <4>1. tab[t].cookie \in held /\ token[tab[t].cookie].family = f
        BY <3>4, CookiesKeep DEF Refreshes
      <4>2. tab[t].cookie = tab[s].brings
        BY <2>2, <3>1, <3>2, <3>7, <4>1 DEF LoginsAreAlone
      <4> QED BY <2>2, <3>1, <4>2 DEF BrowserInv, BroughtIsFresh
    <3> QED BY <3>5, <3>6, <3>7
  <2> QED BY <1>3, <2>1, <2>2, BrowserMoves DEF BrowserInv
<1> QED BY <1>2, <1>3

\* A login under way is opened, stored, or waits.
LEMMA OpenMoves ==
  ASSUME SessionInv, BrowserInv, CallsAreServed, [BrowserNext]_allVars,
         NEW t \in Requests, tab'[t].call = "open"
  PROVE  \/ Open(t)
         \/ tab[t].call = "open" /\ (Stored(t) \/ (tab'[t] = tab[t] /\ req'[t] = req[t]))
<1>1. ASSUME NEW s \in Requests, TabStep(s), s # t
      PROVE  tab'[t] = tab[t] /\ req'[t] = req[t]
  BY <1>1, OthersStay DEF BrowserInv
<1>2. CASE UserDeactivated \/ TimePasses \/ UNCHANGED allVars
  BY <1>2, WorldStays
<1>3. ASSUME TabStep(t), ~ Open(t), ~ Stored(t)
      PROVE  FALSE
  <2>1. tab[t].call = "open"
    <3>1. ~ (tab'[t] = Quiet)
      BY DEF Quiet
    <3> QED BY <1>3, <3>1, CallMoves
  <2>2. /\ tab[t] # Quiet /\ tab[t].at # "idle"
        /\ tab[t].at = "server" => req[t].pc = "store"
        /\ req[t] # Idle => tab[t].at = "server"
    BY <2>1 DEF CallsAreServed, Served, Quiet
  <2>3. CASE RefreshServed(t) \/ RefreshFailed(t)
    BY <2>2, <2>3 DEF RefreshServed, RefreshRevoke, RefreshUser, RefreshUserInactive, RefreshFailed,
                      RefreshReuse, RefreshInactive, Idle
  <2>4. CASE Receive(t) \/ Lose(t) \/ ServerStops(t)
    BY <2>4 DEF Receive, Lose, ServerStops, Quiet, BrowserInv, BrowserTypeOK
  <2>5. CASE Send(t, "refresh") \/ Send(t, "logout") \/ LogoutAllServed(t)
    BY <2>2, <2>5 DEF Send, LogoutAllServed
  <2>6. CASE RefreshAccepted(t) \/ RefreshRefused(t) \/ LogoutServed(t) \/ LogoutOnlyClears(t)
    BY <2>1, <2>6 DEF RefreshAccepted, RefreshRefused, LogoutServed, LogoutOnlyClears
  <2> QED BY <1>3, <2>3, <2>4, <2>5, <2>6 DEF TabStep
<1>4. CASE TabStep(t) /\ Stored(t)
  <2>1. tab'[t].call = tab[t].call
    BY <1>4 DEF Stored, IssueSession, Answer, BrowserInv, BrowserTypeOK, Tab
  <2> QED BY <1>4, <2>1
<1> QED BY <1>1, <1>2, <1>3, <1>4 DEF BrowserNext

\* Two sessions are never stored for one family at a time.
LEMMA StoresApart ==
  ASSUME SessionInv, NEW s \in Requests, NEW t \in Requests, s # t,
         req[s].pc = "store", req[t].pc = "store"
  PROVE  token[req[s].next].family # token[req[t].next].family
BY DEF SessionInv, OneHolderPerFamily, Minting, FamilyOf

LEMMA LoginsAreAloneKeeps ==
  ASSUME SessionInv, BrowserInv, CallsAreServed, LoginsAreAlone, [BrowserNext]_allVars
  PROVE  LoginsAreAlone'
<1> USE DEF BrowserInv
<1> SUFFICES ASSUME NEW t \in Requests, tab'[t].call = "open"
             PROVE  /\ tab'[t].at = "server" =>
                         \A h \in held' : token'[h].family # token'[req'[t].next].family
                    /\ tab'[t].brings \in Jtis =>
                         \A h \in held' :
                           token'[h].family = token'[tab'[t].brings].family => h = tab'[t].brings
  BY DEF LoginsAreAlone
<1>1. \A h \in held : h \in Jtis /\ token'[h] = token[h]
  BY UsedTokensKeep
<1>2. ASSUME NEW s \in Requests, Stored(s)
      PROVE  /\ req[s].pc = "store" /\ req[s].next \in Jtis /\ token' = token
             /\ tab[s].at = "server"
    <2>1. req[s].pc = "store" /\ req[s] # Idle
      BY <1>2 DEF Stored, Store, Idle
    <2> QED BY <1>2, <2>1, StoredMoves DEF CallsAreServed, Served
<1>3. CASE Open(t)
  <2>1. /\ held' = held /\ req'[t].next \in Jtis
        /\ \A h \in Jtis : token[h].family # token'[req'[t].next].family
    <3>1. PICK u \in Users, j \in Jtis, f \in Families : OpenSession(t, u, j, f)
      BY <1>3 DEF Open, Login, Google, Register
    <3>2. req'[t].next = j /\ token'[j].family = f /\ held' = held /\ FreshFamily(f)
      BY <3>1 DEF OpenSession, SignTokenPair, SessionInv, TypeOK
    <3> QED BY <3>2 DEF FreshFamily
  <2>2. tab'[t].brings \notin Jtis
    <3>1. tab[t] = Quiet /\ tab'[t] = [tab[t] EXCEPT !.at = "server", !.call = "open"]
      BY <1>3 DEF Open, BrowserTypeOK
    <3> QED BY <3>1, NullsAreNoValues DEF Quiet
  <2> QED BY <1>1, <2>1, <2>2
<1>4. CASE tab[t].call = "open" /\ Stored(t)
  <2>1. tab'[t].at = "back" /\ tab'[t].brings = req[t].next
    BY <1>4 DEF Stored, IssueSession, Answer, BrowserTypeOK, Tab
  <2>2. held' = held \cup {req[t].next} /\ token' = token
    BY <1>4, StoredMoves
  <2>3. \A h \in held : token[h].family # token[req[t].next].family
    BY <1>2, <1>4 DEF LoginsAreAlone
  <2> QED BY <2>1, <2>2, <2>3
<1>5. CASE tab[t].call = "open" /\ tab'[t] = tab[t] /\ req'[t] = req[t]
  <2>1. ASSUME tab[t].at = "server", NEW h \in held'
        PROVE  token'[h].family # token'[req[t].next].family
    <3>1. req[t].pc = "store" /\ token'[req[t].next] = token[req[t].next]
      BY <1>5, <2>1, UsedTokensKeep DEF CallsAreServed, Served
    <3>2. CASE h \in held
      BY <1>1, <1>5, <2>1, <3>1, <3>2 DEF LoginsAreAlone
    <3>3. CASE h \notin held
      <4>1. PICK s \in Requests : Stored(s) /\ h = req[s].next
        BY <2>1, <3>3, HandedOut
      <4>2. s # t
        BY <1>5, <2>1, <4>1 DEF Stored, IssueSession, Answer, BrowserTypeOK, Tab
      <4> QED BY <1>2, <3>1, <4>1, <4>2, StoresApart
    <3> QED BY <3>2, <3>3
  <2>2. ASSUME tab[t].brings \in Jtis, NEW h \in held',
               token'[h].family = token'[tab[t].brings].family
        PROVE  h = tab[t].brings
    <3>1. tab[t].brings \in held /\ token'[tab[t].brings] = token[tab[t].brings]
      BY <2>2, CookiesKeep
    <3>2. CASE h \in held
      BY <1>1, <1>5, <2>2, <3>1, <3>2 DEF LoginsAreAlone
    <3>3. CASE h \notin held
      <4>1. PICK s \in Requests : Stored(s) /\ h = req[s].next
        BY <2>2, <3>3, HandedOut
      <4>2. /\ tab[s].at = "server" /\ req[s].pc = "store"
            /\ token[req[s].next].family = token[tab[t].brings].family
        BY <1>2, <2>2, <3>1, <4>1
      <4>3. CASE tab[s].call = "open"
        BY <3>1, <4>2, <4>3 DEF LoginsAreAlone
      <4>4. CASE tab[s].call = "refresh"
        <5>1. /\ tab[s].cookie \in held
              /\ token[tab[s].cookie].family = token[tab[t].brings].family
          BY <4>2, <4>4, CookiesKeep DEF CallsAreServed, Served
        <5>2. tab[s].cookie = tab[t].brings
          BY <1>5, <2>2, <5>1 DEF LoginsAreAlone
        <5> QED BY <2>2, <5>2 DEF BroughtIsFresh
      <4> QED BY <4>2, <4>3, <4>4 DEF CallsAreServed, Served
    <3> QED BY <3>2, <3>3
  <2> QED BY <1>5, <2>1, <2>2
<1> QED BY <1>3, <1>4, <1>5, OpenMoves

\* Only registration and administrators change the status of a user.
LEMMA StatusMoves ==
  ASSUME SessionInv, BrowserInv, [BrowserNext]_allVars, NEW u \in Users,
         status'[u] \notin {status[u], "active"}
  PROVE  excused' = Families
<1> USE DEF SessionInv, TypeOK
<1>1. ASSUME NEW t \in Requests, TabStep(t)
      PROVE  status'[u] \in {status[u], "active"}
  <2>1. CASE Open(t)
    BY <2>1 DEF Open, Login, Google, Register
  <2>2. CASE ~ Open(t)
    <3>1. CASE Send(t, "refresh") \/ Send(t, "logout") \/ Receive(t) \/ Lose(t)
               \/ RefreshRefused(t) \/ LogoutOnlyClears(t)
      BY <3>1 DEF Send, Receive, Lose, RefreshRefused, LogoutOnlyClears, vars
    <3>2. CASE Stored(t) \/ RefreshAccepted(t) \/ ServerStops(t)
      BY <3>2 DEF Stored, Store, RefreshAccepted, RefreshFind, ServerStops, Crash
    <3>3. CASE RefreshServed(t) \/ RefreshFailed(t)
      BY <3>3 DEF RefreshServed, RefreshRevoke, RefreshUser, RefreshUserInactive, RefreshFailed,
                  RefreshReuse, RefreshInactive
    <3>4. CASE LogoutServed(t) \/ LogoutAllServed(t)
      BY <3>4 DEF LogoutServed, Logout, LogoutAllServed, LogoutAll
    <3> QED BY <1>1, <2>2, <3>1, <3>2, <3>3, <3>4 DEF TabStep
  <2> QED BY <2>1, <2>2
<1>2. CASE UserDeactivated
  BY <1>2 DEF UserDeactivated
<1>3. CASE TimePasses \/ UNCHANGED allVars
  BY <1>3 DEF TimePasses, Tick, PurgeExpired, allVars, vars
<1> QED BY <1>1, <1>2, <1>3 DEF BrowserNext

LEMMA ExcusesAreNotedKeeps ==
  ASSUME SessionInv, BrowserInv, CallsAreServed, ExcusesAreNoted, [BrowserNext]_allVars
  PROVE  ExcusesAreNoted'
<1>1. excused \subseteq excused' /\ excused' \in SUBSET Families
  BY ExcusedGrows, BrowserTypeKeeps DEF BrowserInv, BrowserTypeOK
<1>2. ASSUME NEW t \in Requests, tab'[t].call = "logout", tab'[t].cookie # NoJti
      PROVE  token'[tab'[t].cookie].family \in excused'
  <2>1. CASE tab[t].call = "logout" /\ tab'[t].cookie = tab[t].cookie
    BY <1>1, <1>2, <2>1, CookiesKeep DEF ExcusesAreNoted
  <2>2. CASE Send(t, "logout") /\ tab'[t].cookie = Cookie
    <3>1. excused' = excused \cup Family(Cookie) /\ token' = token
      BY <2>2 DEF Send, vars
    <3> QED BY <1>2, <2>2, <3>1 DEF Family
  <2> QED BY <1>2, <2>1, <2>2, RefreshesMoves
<1>3. excused' = Families \/ \A u \in Users : status'[u] \in {"absent", "active"}
  <2>1. CASE excused = Families
    BY <1>1, <2>1
  <2>2. CASE \A u \in Users : status[u] \in {"absent", "active"}
    BY <2>2, StatusMoves
  <2> QED BY <2>1, <2>2 DEF ExcusesAreNoted
<1> QED BY <1>2, <1>3 DEF ExcusesAreNoted

-----------------------------------------------------------------------------
\* ReliableIsLive: how a token stops being active, and how a refresh ends.

\* The clock of the service does not go back.
LEMMA ClockForward ==
  ASSUME SessionInv, [Next]_vars
  PROVE  now \in Nat /\ now' \in Nat /\ now' >= now
<1> USE DEF SessionInv, TypeOK
<1>1. ASSUME NEW r \in Requests, ServeRequest(r) PROVE now' = now
  <2>1. CASE OpenAny(r)
    BY <2>1 DEF OpenAny, Login, Google, Register, OpenSession
  <2>2. CASE RefreshAny(r)
    BY <2>2 DEF RefreshAny, RefreshFind, RefreshRevoke, RefreshReuse, RefreshUser, RefreshUserInactive,
                RefreshInactive
  <2>3. CASE (\E delivered \in BOOLEAN : Store(r, delivered)) \/ Crash(r)
    BY <2>3 DEF Store, Crash
  <2> QED BY <1>1, <2>1, <2>2, <2>3 DEF ServeRequest
<1>2. CASE \/ \E j \in Jtis : Logout(j)
           \/ \E u \in Users : LogoutAll(u) \/ DestroyUser(u)
           \/ \E u \in Users, s \in {"active", "inactive"} : StoreUser(u, s) \/ SetStatus(u, s)
           \/ PurgeExpired \/ UNCHANGED vars
  BY <1>2 DEF Logout, LogoutAll, DestroyUser, StoreUser, SetStatus, PurgeExpired, vars
<1>3. CASE Tick
  BY <1>3 DEF Tick
<1> QED BY <1>1, <1>2, <1>3 DEF Next

\* A token the browser may rely on after a step was reliable before it.
LEMMA ReliableBefore ==
  ASSUME SessionInv, BrowserInv, [BrowserNext]_allVars, NEW j \in held, Reliable(j)'
  PROVE  /\ Reliable(j) /\ token'[j] = token[j] /\ token[j].family \in Families
         /\ token[j].family \notin excused'
<1>1. token'[j] = token[j] /\ token[j].family \in Families
  BY UsedTokensKeep DEF BrowserInv
<1>2. now' \in Nat /\ now \in Nat /\ now' >= now
  BY BrowserStep, ClockForward DEF BrowserInv
<1>3. token[j].expires \in Nat
  BY DEF SessionInv, TypeOK, Token
<1>4. excused \subseteq excused'
  BY ExcusedGrows DEF BrowserInv
<1>5. j \in Jtis /\ token'[j].family \notin excused' /\ now' < token'[j].expires
  BY DEF Reliable
<1>6. now < token[j].expires
  BY <1>1, <1>2, <1>3, <1>5
<1> QED BY <1>1, <1>4, <1>5, <1>6 DEF Reliable

\* An active session ends by its own rotation, by the end of its family, by a
\* logout, by a change of users, or by the purge.
LEMMA LiveEnds ==
  ASSUME SessionInv, BrowserInv, [BrowserNext]_allVars, NEW j \in Jtis, Live(j), ~ Live(j)'
  PROVE  \/ \E t \in Requests : RefreshServed(t) /\ RefreshRevoke(t) /\ req[t].jti = j
         \/ \E t \in Requests :
              RefreshFailed(t) /\ req[t].pc \in {"reuse", "inactive"}
                /\ token[req[t].jti].family = token[j].family
         \/ \E t \in Requests : LogoutServed(t) /\ tab[t].cookie = j
         \/ excused' = Families
         \/ token[j].expires < now /\ now' = now
<1> USE DEF SessionInv, TypeOK, Live
<1>1. ASSUME NEW t \in Requests, TabStep(t),
             ~ RefreshServed(t), ~ RefreshFailed(t), ~ LogoutServed(t), ~ LogoutAllServed(t)
      PROVE  row'[j] = "active"
  <2>1. CASE Send(t, "refresh") \/ Send(t, "logout") \/ Receive(t) \/ Lose(t)
             \/ RefreshRefused(t) \/ LogoutOnlyClears(t)
    BY <2>1 DEF Send, Receive, Lose, RefreshRefused, LogoutOnlyClears, vars
  <2>2. CASE Open(t)
    BY <2>2 DEF Open, Login, Google, Register, OpenSession
  <2>3. CASE Stored(t) \/ RefreshAccepted(t) \/ ServerStops(t)
    BY <2>3 DEF Stored, Store, RefreshAccepted, RefreshFind, ServerStops, Crash
  <2> QED BY <1>1, <2>1, <2>2, <2>3 DEF TabStep
<1>2. ASSUME NEW t \in Requests, RefreshServed(t)
      PROVE  RefreshRevoke(t) /\ req[t].jti = j
  BY <1>2 DEF RefreshServed, RefreshRevoke, RevokeByJti, RefreshUser, RefreshUserInactive
<1>3. ASSUME NEW t \in Requests, RefreshFailed(t)
      PROVE  req[t].pc \in {"reuse", "inactive"} /\ token[req[t].jti].family = token[j].family
  BY <1>3 DEF RefreshFailed, RefreshReuse, RefreshInactive, RevokeFamily
<1>4. ASSUME NEW t \in Requests, LogoutServed(t)
      PROVE  tab[t].cookie = j
  BY <1>4 DEF LogoutServed, Logout, RevokeByJti
<1>5. ASSUME NEW t \in Requests, LogoutAllServed(t)
      PROVE  excused' = Families
  BY <1>5 DEF LogoutAllServed
<1>6. CASE UserDeactivated
  BY <1>6 DEF UserDeactivated
<1>7. CASE TimePasses
  BY <1>7 DEF TimePasses, Tick, PurgeExpired
<1>8. CASE UNCHANGED allVars
  BY <1>8 DEF allVars, vars
<1> QED BY <1>1, <1>2, <1>3, <1>4, <1>5, <1>6, <1>7, <1>8 DEF BrowserNext

\* A token of the jar, of a refresh, or on its way to the jar.
InUse(j) ==
    \/ j = jar
    \/ \E t \in Requests : tab[t].call = "refresh" /\ tab[t].cookie = j
    \/ \E t \in Requests : tab[t].brings = j

\* A refresh that fails does not take another token in use with it.
LEMMA FailsAlone ==
  ASSUME SessionInv, BrowserInv, SignedInInv, NEW j \in Jtis, InUse(j), Reliable(j),
         NEW t \in Requests, req[t].pc \in {"reuse", "inactive"},
         token[req[t].jti].family = token[j].family, token[j].family \in Families
  PROVE  FALSE
<1> DEFINE f == token[j].family
<1>1. /\ tab[t].at = "server" /\ tab[t].call = "refresh"
      /\ tab[t].cookie # NoJti /\ req[t].jti = tab[t].cookie
  BY DEF SignedInInv, CallsAreServed, Served, Idle
<1>2. Refreshes(t, f) /\ f \in Families \ excused
  BY <1>1 DEF Refreshes, Reliable
<1>3. ~ Reliable(tab[t].cookie)
  BY <1>1 DEF SignedInInv, ReliableIsLive, RefreshSucceeds
<1>4. tab[t].cookie # j
  BY <1>3
<1>5. CASE j = jar
  BY <1>2, <1>4, <1>5, NullsAreNoValues DEF SignedInInv, OneRefreshPerFamily
<1>6. ASSUME NEW s \in Requests, tab[s].call = "refresh", tab[s].cookie = j
      PROVE  FALSE
  <2>1. Refreshes(s, f)
    BY <1>6, NullsAreNoValues DEF Refreshes
  <2> QED BY <1>2, <1>4, <1>6, <2>1 DEF SignedInInv, OneRefreshPerFamily
<1>7. ASSUME NEW s \in Requests, tab[s].brings = j
      PROVE  FALSE
  <2>1. /\ tab[s].at = "back" /\ tab[s].call \in {"open", "refresh"}
        /\ tab[s].call = "refresh" =>
             tab[s].cookie # NoJti /\ token[tab[s].brings].family = token[tab[s].cookie].family
    BY <1>7 DEF SignedInInv, CallsAreServed, Served
  <2>2. CASE tab[s].call = "refresh"
    <3>1. Refreshes(s, f)
      BY <1>7, <2>1, <2>2 DEF Refreshes
    <3> QED BY <1>1, <1>2, <2>1, <3>1 DEF SignedInInv, OneRefreshPerFamily
  <2>3. CASE tab[s].call = "open"
    <3>1. tab[t].cookie \in held
      BY <1>1 DEF BrowserInv, TokensAreHeld
    <3> QED BY <1>1, <1>4, <1>7, <2>3, <3>1 DEF SignedInInv, LoginsAreAlone
  <2> QED BY <2>1, <2>2, <2>3
<1> QED BY <1>5, <1>6, <1>7 DEF InUse

\* What the browser may rely on stays active until it is exchanged.
LEMMA LiveUntilExchanged ==
  ASSUME SessionInv, BrowserInv, SignedInInv, [BrowserNext]_allVars,
         NEW j \in held, InUse(j), Live(j), Reliable(j)', ~ Live(j)'
  PROVE  \E t \in Requests :
           RefreshServed(t) /\ RefreshRevoke(t) /\ tab[t].call = "refresh" /\ tab[t].cookie = j
<1>1. /\ j \in Jtis /\ Reliable(j) /\ token'[j] = token[j] /\ token[j].family \in Families
      /\ token[j].family \notin excused'
  BY ReliableBefore DEF Reliable
<1>2. ASSUME NEW t \in Requests, RefreshServed(t), RefreshRevoke(t), req[t].jti = j
      PROVE  tab[t].call = "refresh" /\ tab[t].cookie = j
  BY <1>2 DEF SignedInInv, CallsAreServed, Served, RefreshRevoke, Idle
<1>3. ASSUME NEW t \in Requests, req[t].pc \in {"reuse", "inactive"},
             token[req[t].jti].family = token[j].family
      PROVE  FALSE
  BY <1>1, <1>3, FailsAlone
<1>4. ASSUME NEW t \in Requests, LogoutServed(t), tab[t].cookie = j
      PROVE  FALSE
  <2>1. tab[t].call = "logout" /\ tab[t].cookie # NoJti
    BY <1>4 DEF LogoutServed
  <2>2. token[j].family \in excused
    BY <1>4, <2>1 DEF SignedInInv, ExcusesAreNoted
  <2> QED BY <1>1, <2>2 DEF Reliable
<1>5. excused' # Families
  BY <1>1
<1>6. ASSUME token[j].expires < now, now' = now
      PROVE  FALSE
  <2>1. token[j].expires \in Nat /\ now \in Nat
    BY <1>1 DEF SessionInv, TypeOK, Token
  <2>2. now < token[j].expires
    BY <1>1 DEF Reliable
  <2> QED BY <1>6, <2>1, <2>2
<1> QED BY <1>1, <1>2, <1>3, <1>4, <1>5, <1>6, LiveEnds

\* A refresh goes on, is answered, or its end is an excuse.
LEMMA RefreshEnds ==
  ASSUME SessionInv, BrowserInv, CallsAreServed, [BrowserNext]_allVars,
         NEW t \in Requests, tab[t].call = "refresh", tab[t].cookie # NoJti
  PROVE  \/ tab'[t].call = "refresh" /\ tab'[t].cookie = tab[t].cookie
         \/ Receive(t)
         \/ token[tab[t].cookie].family \in excused'
<1>1. ASSUME NEW s \in Requests, TabStep(s), s # t
      PROVE  tab'[t] = tab[t]
  BY <1>1, OthersStay DEF BrowserInv
<1>2. CASE UserDeactivated \/ TimePasses \/ UNCHANGED allVars
  BY <1>2, WorldStays
<1>3. CASE TabStep(t)
  <2> USE DEF BrowserInv, BrowserTypeOK, Tab
  <2>1. tab[t] # Quiet
    BY DEF Quiet
  <2>2. CASE Lose(t) \/ ServerStops(t)
    BY <2>2 DEF Lose, ServerStops, Family
  <2>3. CASE \/ Stored(t) \/ RefreshAccepted(t) \/ RefreshRefused(t) \/ RefreshServed(t)
             \/ RefreshFailed(t) \/ LogoutServed(t) \/ LogoutOnlyClears(t)
    <3>1. \/ tab' = tab
          \/ tab' = [tab EXCEPT ![t].at = "server"]
          \/ \E b : tab' = [tab EXCEPT ![t].at = "back", ![t].brings = b]
      BY <2>3 DEF Stored, IssueSession, RefreshAccepted, RefreshRefused, RefreshServed, RefreshFailed,
                  LogoutServed, LogoutOnlyClears, Answer, browserVars
    <3> QED BY <3>1
  <2>4. ~ (Send(t, "refresh") \/ Send(t, "logout") \/ Open(t) \/ LogoutAllServed(t))
    BY <2>1 DEF Send, Open, LogoutAllServed
  <2> QED BY <1>3, <2>2, <2>3, <2>4 DEF TabStep
<1> QED BY <1>1, <1>2, <1>3 DEF BrowserNext

-----------------------------------------------------------------------------
\* ReliableIsLive: its three parts.

\* The token of the jar is active or being exchanged.
LEMMA JarIsLive ==
  ASSUME SessionInv, BrowserInv, SignedInInv, [BrowserNext]_allVars, Reliable(jar)'
  PROVE  Live(jar)' \/ \E t \in Requests : tab'[t].call = "refresh" /\ tab'[t].cookie = jar'
<1> USE DEF BrowserInv
<1>0. jar' \in Jtis
  BY DEF Reliable
<1>1. CASE jar' = jar
  <2>1. jar \in held /\ jar # NoJti
    BY <1>0, <1>1, NullsAreNoValues DEF TokensAreHeld
  <2>2. Reliable(jar)' /\ Reliable(jar) /\ token[jar].family \notin excused'
    BY <1>1, <2>1, ReliableBefore DEF Reliable
  <2>3. CASE Live(jar)
    <3>1. SUFFICES ASSUME ~ Live(jar)'
                   PROVE  \E t \in Requests : tab'[t].call = "refresh" /\ tab'[t].cookie = jar'
      OBVIOUS
    <3>2. row'[jar] # "active"
      BY <1>1, <3>1 DEF Live
    <3>3. PICK t \in Requests : RefreshServed(t) /\ tab[t].call = "refresh" /\ tab[t].cookie = jar
      BY <1>1, <2>1, <2>2, <2>3, <3>2, LiveUntilExchanged DEF InUse, Reliable, Live
    <3>4. tab' = tab
      BY <3>3 DEF RefreshServed, browserVars
    <3> QED BY <1>1, <3>3, <3>4
  <2>4. ASSUME NEW t \in Requests, tab[t].call = "refresh", tab[t].cookie = jar
        PROVE  tab'[t].call = "refresh" /\ tab'[t].cookie = jar'
    <3>1. ~ Receive(t)
      <4>1. SUFFICES ASSUME Receive(t) PROVE FALSE
        OBVIOUS
      <4>2. tab[t].at = "back" /\ tab[t].brings \in Jtis
        BY <2>2, <2>4, <4>1 DEF Receive, SignedInInv, ReliableIsLive, RefreshSucceeds
      <4>3. jar' = tab[t].brings
        BY <4>1, <4>2, NullsAreNoValues, ClearIsNoValue DEF Receive
      <4> QED BY <1>1, <4>2, <4>3 DEF BroughtIsFresh
    <3> QED BY <1>1, <2>1, <2>2, <2>4, <3>1, RefreshEnds DEF SignedInInv
  <2> QED BY <2>2, <2>3, <2>4 DEF SignedInInv, ReliableIsLive
<1>2. CASE jar' # jar
  <2>1. PICK t \in Requests : Receive(t) /\ jar' = tab[t].brings
    <3>1. jar' # NoJti
      BY <1>0, NullsAreNoValues
    <3>2. \A t \in Requests : ~ Receive(t) => ~ TabStep(t) \/ jar' = jar
      BY DEF TabStep, Send, Lose, Open, Stored, RefreshAccepted, RefreshRefused, RefreshServed,
             RefreshFailed, LogoutServed, LogoutOnlyClears, LogoutAllServed, ServerStops, browserVars
    <3>3. PICK t \in Requests : Receive(t)
      BY <1>2, <3>2, WorldStays DEF BrowserNext
    <3>4. jar' = tab[t].brings
      BY <1>2, <3>1, <3>3 DEF Receive
    <3> QED BY <3>3, <3>4
  <2>2. tab[t].brings \in held
    BY <1>0, <2>1, CookiesKeep
  <2>3. Reliable(tab[t].brings)
    <3>1. row' = row /\ excused' = excused /\ token' = token /\ now' = now
      BY <2>1 DEF Receive, vars
    <3> QED BY <2>1, <3>1 DEF Reliable
  <2>4. Live(tab[t].brings) /\ row' = row
    BY <2>1, <2>3 DEF SignedInInv, ReliableIsLive, Receive, vars
  <2> QED BY <2>1, <2>4 DEF Live
<1> QED BY <1>1, <1>2

\* So is a token on its way to the jar.
LEMMA BroughtIsLive ==
  ASSUME SessionInv, BrowserInv, SignedInInv, [BrowserNext]_allVars,
         NEW t \in Requests, Reliable(tab[t].brings)'
  PROVE  Live(tab[t].brings)'
<1> USE DEF BrowserInv
<1>0. tab'[t].brings \in Jtis
  BY DEF Reliable
<1>1. CASE Stored(t) /\ tab'[t].brings = req[t].next
  BY <1>1, StoredMoves DEF Live
<1>2. CASE tab'[t].brings = tab[t].brings
  <2>1. tab[t].brings \in held
    BY <1>0, <1>2, CookiesKeep
  <2>2. PICK j \in held : j = tab[t].brings
    BY <2>1
  <2>3. Reliable(j)' /\ Reliable(j)
    BY <1>2, <2>2, ReliableBefore DEF Reliable
  <2>4. Live(j) /\ InUse(j)
    BY <2>2, <2>3 DEF SignedInInv, ReliableIsLive, InUse
  <2>5. \A s \in Requests : tab[s].cookie # j
    BY <1>0, <1>2, <2>2 DEF BroughtIsFresh
  <2>6. Live(j)'
    BY <2>3, <2>4, <2>5, LiveUntilExchanged
  <2> QED BY <1>2, <2>2, <2>6 DEF Live
<1> QED BY <1>0, <1>1, <1>2, BrowserMoves, NullsAreNoValues, ClearIsNoValue

\* A refresh that is sent presents an active token.
LEMMA SentIsLive ==
  ASSUME SessionInv, BrowserInv, SignedInInv, [BrowserNext]_allVars,
         NEW t \in Requests, Send(t, "refresh"), tab'[t].cookie = Cookie, Reliable(tab[t].cookie)'
  PROVE  RefreshSucceeds(t)'
<1> USE DEF BrowserInv
<1>1. /\ Cookie = jar /\ jar \in held /\ row' = row /\ tab'[t].at = "sent"
      /\ token' = token /\ now' = now
  BY CookieOfJar, NullsAreNoValues DEF Send, vars, Reliable, TokensAreHeld, BrowserTypeOK, Tab, Quiet
<1>2. PICK j \in held : j = jar
  BY <1>1
<1>3. Reliable(j)' /\ Reliable(j) /\ token[j].family \notin excused'
  BY <1>1, <1>2, ReliableBefore DEF Reliable
<1>4. Live(jar)
  <2>1. ASSUME NEW s \in Requests, tab[s].call = "refresh", tab[s].cookie = jar
        PROVE  FALSE
    <3>1. excused' = excused \cup Family(jar)
      BY <1>1, <2>1 DEF Send
    <3>2. j # NoJti
      BY <1>3, NullsAreNoValues DEF Reliable
    <3> QED BY <1>2, <1>3, <3>1, <3>2 DEF Family
  <2> QED BY <1>2, <1>3, <2>1 DEF SignedInInv, ReliableIsLive
<1> QED BY <1>1, <1>4 DEF RefreshSucceeds, Live

\* What the tab with the refresh does, its call staying the same.
LEMMA ServedSucceeds ==
  ASSUME SessionInv, BrowserInv, SignedInInv, NEW t \in Requests, TabStep(t),
         tab[t].call = "refresh", tab'[t].call = "refresh",
         tab'[t].cookie = tab[t].cookie, Reliable(tab[t].cookie)
  PROVE  /\ tab'[t].at # "sent"
         /\ tab'[t].at = "server" =>
              \/ req'[t].pc \in {"user", "store"}
              \/ req'[t].pc = "revoke" /\ row'[tab[t].cookie] = "active"
         /\ tab'[t].at = "back" => tab'[t].brings \in Jtis
<1> USE DEF BrowserInv, BrowserTypeOK, Tab
<1> DEFINE j == tab[t].cookie
<1>1. j \in Jtis /\ j \in held /\ token[j].family \in Families \ excused /\ now < token[j].expires
  BY UsedTokensKeep, NullsAreNoValues DEF Reliable, TokensAreHeld, SessionInv, TypeOK, Token,
     TokensWellFormed, Signed
<1>2. tab[t] # Quiet /\ tab'[t] # Quiet
  BY DEF Quiet
<1>3. RefreshSucceeds(t) /\ Served(t)
  BY DEF SignedInInv, ReliableIsLive, CallsAreServed
<1>4. CASE RefreshAccepted(t)
  <2>1. tab'[t].at = "server" /\ tab[t].at = "sent"
    BY <1>4 DEF RefreshAccepted
  <2>2. req'[t].pc = "revoke" /\ row' = row
    BY <1>4 DEF RefreshAccepted, RefreshFind, SessionInv, TypeOK
  <2> QED BY <1>3, <2>1, <2>2 DEF RefreshSucceeds, Live
<1>5. CASE RefreshRefused(t)
  <2>1. tab[t].at = "sent" /\ ~ Known(j)
    BY <1>5 DEF RefreshRefused
  <2>2. Live(j)
    BY <1>3, <2>1 DEF RefreshSucceeds
  <2> QED BY <1>1, <2>1, <2>2, NullsAreNoValues DEF Known, Verifies, Live
<1>6. CASE RefreshServed(t)
  <2>1. tab' = tab /\ tab[t].at = "server"
    BY <1>3, <1>6 DEF RefreshServed, RefreshRevoke, RefreshUser, RefreshUserInactive, browserVars,
                      Served, Idle
  <2>2. CASE RefreshRevoke(t)
    <3>1. Live(j) /\ req[t].jti = j
      BY <1>3, <2>1, <2>2 DEF RefreshSucceeds, Served, RefreshRevoke
    <3> QED BY <2>1, <2>2, <3>1 DEF RefreshRevoke, SessionInv, TypeOK, Request
  <2>3. CASE \E k \in Jtis : RefreshUser(t, k)
    BY <2>1, <2>3 DEF RefreshUser, SessionInv, TypeOK, Request
  <2>4. CASE RefreshUserInactive(t)
    <3>1. req[t].jti = j /\ status[token[j].user] # "active"
      BY <1>3, <2>1, <2>4 DEF Served, RefreshUserInactive
    <3>2. token[j].user \in Users /\ status[token[j].user] # "absent"
      BY <1>1, NullsAreNoValues DEF SessionInv, TokensWellFormed, Signed
    <3> QED BY <1>1, <3>1, <3>2 DEF SignedInInv, ExcusesAreNoted
  <2> QED BY <1>6, <2>2, <2>3, <2>4 DEF RefreshServed
<1>7. CASE RefreshFailed(t)
  <2>1. req[t].pc \in {"reuse", "inactive"} /\ tab[t].at = "server"
    BY <1>3, <1>7 DEF RefreshFailed, RefreshReuse, RefreshInactive, Served, Idle
  <2> QED BY <1>3, <2>1 DEF RefreshSucceeds
<1>8. CASE Stored(t)
  <2>1. tab'[t].at = "back" /\ tab'[t].brings = req[t].next
    BY <1>8 DEF Stored, IssueSession, Answer
  <2> QED BY <1>8, <2>1, StoredMoves
<1>9. ~ \/ Send(t, "refresh") \/ Send(t, "logout") \/ Receive(t) \/ Lose(t) \/ ServerStops(t)
        \/ Open(t) \/ LogoutAllServed(t) \/ LogoutServed(t) \/ LogoutOnlyClears(t)
  BY <1>2 DEF Send, Receive, Lose, ServerStops, Open, LogoutAllServed, LogoutServed, LogoutOnlyClears
<1> QED BY <1>4, <1>5, <1>6, <1>7, <1>8, <1>9 DEF TabStep

LEMMA RefreshSucceedsKeeps ==
  ASSUME SessionInv, BrowserInv, SignedInInv, [BrowserNext]_allVars, NEW t \in Requests
  PROVE  RefreshSucceeds(t)'
<1> USE DEF BrowserInv
<1> SUFFICES ASSUME tab'[t].call = "refresh", Reliable(tab[t].cookie)'
             PROVE  RefreshSucceeds(t)'
  BY DEF RefreshSucceeds
<1>1. CASE Send(t, tab'[t].call) /\ tab'[t].cookie = Cookie
  BY <1>1, SentIsLive
<1>2. CASE tab[t].call = tab'[t].call /\ tab'[t].cookie = tab[t].cookie
  <2>1. tab[t].cookie \in held /\ tab[t].cookie # NoJti
    BY <1>2, NullsAreNoValues DEF Reliable, TokensAreHeld
  <2>2. PICK j \in held : j = tab[t].cookie
    BY <2>1
  <2>3. Reliable(j)' /\ Reliable(j) /\ token[j].family \in Families \ excused
    BY <1>2, <2>2, ReliableBefore DEF Reliable
  <2>4. Refreshes(t, token[j].family)
    BY <1>2, <2>1, <2>2 DEF Refreshes
  <2>5. ASSUME tab'[t] = tab[t], req'[t] = req[t]
        PROVE  RefreshSucceeds(t)'
    <3>1. RefreshSucceeds(t)
      BY DEF SignedInInv, ReliableIsLive
    <3>2. ASSUME Live(j), ~ Live(j)'
          PROVE  RefreshRevoke(t) /\ req[t].pc = "revoke" /\ req'[t].pc # "revoke"
      <4>1. InUse(j)
        BY <1>2, <2>2 DEF InUse
      <4>2. PICK s \in Requests :
              RefreshServed(s) /\ RefreshRevoke(s) /\ tab[s].call = "refresh" /\ tab[s].cookie = j
        BY <2>3, <3>2, <4>1, LiveUntilExchanged
      <4>3. Refreshes(s, token[j].family)
        BY <2>1, <2>2, <4>2 DEF Refreshes
      <4>4. s = t
        BY <2>3, <2>4, <4>3 DEF SignedInInv, OneRefreshPerFamily
      <4> QED BY <4>2, <4>4 DEF RefreshRevoke, SessionInv, TypeOK, Request
    <3>3. Live(j) => Live(j)'
      BY <2>5, <3>2
    <3> QED BY <1>2, <2>2, <2>3, <2>5, <3>1, <3>3 DEF RefreshSucceeds, Live
  <2>6. ASSUME TabStep(t)
        PROVE  RefreshSucceeds(t)'
    <3>1. /\ tab'[t].at # "sent"
          /\ tab'[t].at = "server" =>
              \/ req'[t].pc \in {"user", "store"}
              \/ req'[t].pc = "revoke" /\ row'[tab[t].cookie] = "active"
          /\ tab'[t].at = "back" => tab'[t].brings \in Jtis
      BY <1>2, <2>2, <2>3, <2>6, ServedSucceeds
    <3> QED BY <1>2, <3>1 DEF RefreshSucceeds, Live
  <2>7. ASSUME NEW s \in Requests, TabStep(s), s # t
        PROVE  RefreshSucceeds(t)'
    BY <2>5, <2>7, OthersStay
  <2>8. CASE UserDeactivated \/ TimePasses \/ UNCHANGED allVars
    BY <2>5, <2>8, WorldStays
  <2> QED BY <2>6, <2>7, <2>8 DEF BrowserNext
<1> QED BY <1>1, <1>2, RefreshesMoves DEF SignedInInv

LEMMA ReliableIsLiveKeeps ==
  ASSUME SessionInv, BrowserInv, SignedInInv, [BrowserNext]_allVars
  PROVE  ReliableIsLive'
<1>1. Reliable(jar)' =>
        Live(jar)' \/ \E t \in Requests : tab'[t].call = "refresh" /\ tab'[t].cookie = jar'
  BY JarIsLive
<1>2. \A t \in Requests : Reliable(tab[t].brings)' => Live(tab[t].brings)'
  BY BroughtIsLive
<1>3. \A t \in Requests : RefreshSucceeds(t)'
  BY RefreshSucceedsKeeps
<1> QED BY <1>1, <1>2, <1>3 DEF ReliableIsLive

-----------------------------------------------------------------------------
\* Nobody is signed out for nothing.

LEMMA InitSignedInInv == BrowserInit => SignedInInv
<1> SUFFICES ASSUME BrowserInit
             PROVE  SignedInInv
  OBVIOUS
<1> USE NullsAreNoValues, ClearIsNoValue DEF BrowserInit, Init, Quiet, Idle
<1>1. CallsAreServed
  BY DEF CallsAreServed, Served
<1>2. OneRefreshPerFamily
  BY DEF OneRefreshPerFamily, Refreshes
<1>3. LoginsAreAlone
  BY DEF LoginsAreAlone
<1>4. ExcusesAreNoted
  BY DEF ExcusesAreNoted
<1>5. ReliableIsLive
  BY DEF ReliableIsLive, Reliable, RefreshSucceeds
<1> QED BY <1>1, <1>2, <1>3, <1>4, <1>5 DEF SignedInInv

LEMMA SignedInInvKeeps ==
  ASSUME SessionInv, BrowserInv, SignedInInv, [BrowserNext]_allVars
  PROVE  SignedInInv'
<1> USE DEF SignedInInv
<1>1. CallsAreServed' /\ OneRefreshPerFamily'
  BY CallsAreServedKeeps, OneRefreshKeeps
<1>2. LoginsAreAlone' /\ ExcusesAreNoted'
  BY LoginsAreAloneKeeps, ExcusesAreNotedKeeps
<1>3. ReliableIsLive'
  BY ReliableIsLiveKeeps
<1> QED BY <1>1, <1>2, <1>3

\* The inductive invariant of SignedOutForAReason holds: calls are served one by
\* one, a family nothing happened to is refreshed by one tab, and what the tabs,
\* the jar and the responses carry of it is active until it is exchanged.
THEOREM SignedInInvariant == BrowserSpec => []SignedInInv
<1>1. BrowserInit => SignedInInv
  BY InitSignedInInv
<1>2. SessionInv /\ BrowserInv /\ SignedInInv /\ [BrowserNext]_allVars => SignedInInv'
  BY SignedInInvKeeps
<1> QED BY <1>1, <1>2, BrowserInvariant, PTL DEF BrowserSpec

\* However many tabs share the cookie of AuthRefreshCookie, and whenever their
\* refreshes, logins and logouts are answered: the cookie of the jar is the key of
\* an active session, or is being exchanged, until something the module lists
\* happened to its login.
THEOREM SignedOut == BrowserSpec => []SignedOutForAReason
<1>1. BrowserInv /\ SignedInInv => SignedOutForAReason
  <2> SUFFICES ASSUME BrowserInv, SignedInInv,
                      Cookie # NoJti, token[Cookie].family \notin excused
               PROVE  Live(Cookie) \/ \E t \in Requests :
                        tab[t].call = "refresh" /\ tab[t].cookie = Cookie
    BY DEF SignedOutForAReason
  <2>1. Cookie = jar /\ jar \in Jtis /\ now < token[jar].expires
    BY DEF Cookie, BrowserInv, BrowserTypeOK
  <2> QED BY <2>1 DEF SignedInInv, ReliableIsLive, Reliable
<1> QED BY <1>1, BrowserInvariant, SignedInInvariant, PTL

-----------------------------------------------------------------------------
\* The service behind the browser.

\* Through the cookie, tabs reach only behaviours of the service, so what is proved
\* of AuthSessions for requests that present any token holds for them.
THEOREM BrowserCallsService == BrowserSpec => Spec
<1>1. BrowserInit => Init
  BY DEF BrowserInit
<1>2. BrowserInv /\ [BrowserNext]_allVars => [Next]_vars
  BY BrowserStep DEF BrowserInv
<1> QED BY <1>1, <1>2, BrowserInvariant, PTL DEF BrowserSpec, Spec

\* The tabs of a browser, with the service, keep the one line of tokens of each
\* login that SessionFamilies promises.
THEOREM BrowserImplementsFamilies == BrowserSpec => ImplementsSessionFamilies
BY BrowserCallsService, ImplementsFamilies, PTL

=============================================================================
