---------------------------- MODULE AuthSessions_proofs ----------------------------
(***************************************************************************)
(* Proofs about AuthSessions, for every number of users, tokens, families  *)
(* and concurrent requests and every token lifetime.                       *)
(*                                                                         *)
(* SessionInv is inductive by itself: one lemma per statement of the code, *)
(* one step per conjunct.  From it follows that a family that is over      *)
(* stays over (OverKeeps), which carries the last two conjuncts of IInv.   *)
(*                                                                         *)
(* For SessionFamilies: in a state of SessionInv a family is in one of     *)
(* four cases (nothing was signed for it, a row of it is active, a request *)
(* is minting for it, or it is over), and Lines says what the mapping      *)
(* makes of each; the statements then fall into those that draw a token,   *)
(* store one, take one, and those that only end families                   *)
(* (EndingImplements).                                                     *)
(***************************************************************************)
EXTENDS AuthSessionsRefinement, TLAPS

\* The invariant holds of the empty tables before any request.
LEMMA InitSessionInv == Init => SessionInv
<1> SUFFICES ASSUME Init PROVE SessionInv
  OBVIOUS
<1>1. TypeOK
  BY DEF Init, TypeOK, Token, Request, UserStatus, Unsigned, Idle
<1>2. TokensWellFormed /\ Lineage /\ LocalsWellFormed
  BY DEF Init, TokensWellFormed, Lineage, LocalsWellFormed, Signed, Unsigned, Idle
<1>3. OneHolderPerFamily /\ PendingSuccessors /\ ExchangedAtMostOnce
  BY NullsAreNoValues
     DEF Init, OneHolderPerFamily, PendingSuccessors, ExchangedAtMostOnce,
         Minting, Live, Unsigned, Idle
<1>4. DeletedMeansExpired /\ LateTokens
  BY DEF Init, DeletedMeansExpired, LateTokens
<1> QED BY <1>1, <1>2, <1>3, <1>4 DEF SessionInv

\* Login, google and register, once the user is known not to be absent.
LEMMA OpenSessionKeeps ==
  ASSUME SessionInv, NEW r \in Requests, NEW u \in Users, NEW j \in Jtis, NEW f \in Families,
         req[r] = Idle, OpenSession(r, u, j, f),
         status'[u] # "absent",
         status' = [status EXCEPT ![u] = IF @ = "absent" THEN "active" ELSE @]
  PROVE  SessionInv'
<1>1. TypeOK'
  BY ClockConstants
     DEF SessionInv, OpenSession, SignTokenPair, TypeOK, Token, Request,
         UserStatus
<1>2. TokensWellFormed'
  BY NullsAreNoValues
     DEF SessionInv, TypeOK, OpenSession, SignTokenPair, TokensWellFormed,
         Signed
<1>3. Lineage'
  BY DEF SessionInv, TypeOK, OpenSession, SignTokenPair, FreshFamily, Lineage,
         Signed
<1>4. LocalsWellFormed'
  BY NullsAreNoValues
     DEF SessionInv, OpenSession, SignTokenPair, LocalsWellFormed, TypeOK,
         TokensWellFormed, Signed
<1>5. OneHolderPerFamily'
  BY DEF SessionInv, TypeOK, OpenSession, SignTokenPair, FreshFamily,
         OneHolderPerFamily, Minting, FamilyOf, LocalsWellFormed,
         TokensWellFormed, Signed, Live
<1>6. PendingSuccessors'
  BY NullsAreNoValues
     DEF SessionInv, TypeOK, OpenSession, SignTokenPair, PendingSuccessors,
         Lineage, Signed
<1>7. ExchangedAtMostOnce'
  BY NullsAreNoValues
     DEF SessionInv, TypeOK, OpenSession, SignTokenPair, ExchangedAtMostOnce
<1>8. DeletedMeansExpired'
  BY DEF SessionInv, TypeOK, OpenSession, SignTokenPair, DeletedMeansExpired,
         TokensWellFormed
<1>9. LateTokens'
  BY NullsAreNoValues
     DEF SessionInv, TypeOK, OpenSession, SignTokenPair, FreshFamily,
         LateTokens, TokensWellFormed, Signed
<1> QED BY <1>1, <1>2, <1>3, <1>4, <1>5, <1>6, <1>7, <1>8, <1>9 DEF SessionInv

\* The row of the signed token appears; nobody else waits to store it.
LEMMA StoreKeeps ==
  ASSUME SessionInv, NEW r \in Requests, NEW d \in BOOLEAN,
         Store(r, d)
  PROVE  SessionInv'
<1>1. TypeOK'
  BY DEF SessionInv, Store, TypeOK, Token, Request, Idle, LocalsWellFormed,
         Signed
<1>2. TokensWellFormed'
  BY DEF SessionInv, TypeOK, Store, TokensWellFormed, LocalsWellFormed, Signed
<1>3. LocalsWellFormed'
  BY DEF SessionInv, Store, LocalsWellFormed, TypeOK, Idle, OneHolderPerFamily,
         Minting, FamilyOf, Signed
<1>4. OneHolderPerFamily'
  BY DEF SessionInv, Store, OneHolderPerFamily, TypeOK, Idle, Minting, FamilyOf,
         Live
<1>5. PendingSuccessors'
  BY DEF SessionInv, TypeOK, Store, PendingSuccessors, Idle, OneHolderPerFamily,
         Minting, FamilyOf
<1>6. ExchangedAtMostOnce'
  BY DEF SessionInv, TypeOK, Store, ExchangedAtMostOnce, PendingSuccessors
<1>7. DeletedMeansExpired'
  BY DEF SessionInv, Store, DeletedMeansExpired, TypeOK, LocalsWellFormed
<1>8. LateTokens'
  BY DEF SessionInv, Store, LateTokens, TypeOK, Idle, FreshFamily, Minting,
         FamilyOf, OneHolderPerFamily, LocalsWellFormed, Lineage
<1>9. Lineage'
  BY DEF SessionInv, TypeOK, Store, Lineage, Signed
<1> QED BY <1>1, <1>2, <1>3, <1>4, <1>5, <1>6, <1>7, <1>8, <1>9 DEF SessionInv

\* A request takes up a token that has a row.
LEMMA RefreshFindKeeps ==
  ASSUME SessionInv, NEW r \in Requests, NEW j \in Jtis,
         RefreshFind(r, j)
  PROVE  SessionInv'
<1>1. TypeOK'
  BY DEF SessionInv, RefreshFind, TypeOK, Request
<1>2. LocalsWellFormed'
  BY DEF SessionInv, TypeOK, RefreshFind, LocalsWellFormed, TokensWellFormed,
         Signed
<1>3. OneHolderPerFamily'
  BY DEF SessionInv, TypeOK, RefreshFind, OneHolderPerFamily, Minting, FamilyOf,
         Live
<1>4. PendingSuccessors'
  BY DEF SessionInv, TypeOK, RefreshFind, PendingSuccessors
<1>5. LateTokens'
  BY DEF SessionInv, TypeOK, RefreshFind, LateTokens, FreshFamily
<1>6. /\ TokensWellFormed' /\ Lineage' /\ ExchangedAtMostOnce'
       /\ DeletedMeansExpired'
  BY DEF SessionInv, RefreshFind, TokensWellFormed, Lineage,
         ExchangedAtMostOnce, DeletedMeansExpired, Signed
<1> QED BY <1>1, <1>2, <1>3, <1>4, <1>5, <1>6 DEF SessionInv

\* The one statement that decides a rotation: an active row is taken by the
\* request that finds it active, and every other one goes on to reuse.
LEMMA RefreshRevokeKeeps ==
  ASSUME SessionInv, NEW r \in Requests,
         RefreshRevoke(r)
  PROVE  SessionInv'
<1>1. TypeOK'
  BY DEF SessionInv, RefreshRevoke, RevokeByJti, TypeOK, Request, RevokedReason,
         LocalsWellFormed, Signed
<1>2. TokensWellFormed'
  BY DEF SessionInv, TypeOK, RefreshRevoke, RevokeByJti, TokensWellFormed,
         Signed
<1>3. LocalsWellFormed'
  BY DEF SessionInv, TypeOK, RefreshRevoke, RevokeByJti, LocalsWellFormed,
         Signed
<1>4. OneHolderPerFamily'
  BY DEF SessionInv, RefreshRevoke, RevokeByJti, OneHolderPerFamily, TypeOK,
         Minting, FamilyOf, LocalsWellFormed, Live
<1>5. PendingSuccessors'
  BY DEF SessionInv, RefreshRevoke, RevokeByJti, PendingSuccessors, TypeOK,
         Request, ExchangedAtMostOnce, LocalsWellFormed, Live
<1>6. ExchangedAtMostOnce'
  BY DEF SessionInv, TypeOK, RefreshRevoke, RevokeByJti, ExchangedAtMostOnce
<1>7. DeletedMeansExpired'
  BY DEF SessionInv, TypeOK, RefreshRevoke, RevokeByJti, DeletedMeansExpired
<1>8. LateTokens'
  BY DEF SessionInv, TypeOK, RefreshRevoke, LateTokens, FreshFamily
<1>9. Lineage'
  BY DEF SessionInv, TypeOK, RefreshRevoke, Lineage, Signed
<1> QED BY <1>1, <1>2, <1>3, <1>4, <1>5, <1>6, <1>7, <1>8, <1>9 DEF SessionInv

\* Rows of the family only leave the active state.
LEMMA RefreshReuseKeeps ==
  ASSUME SessionInv, NEW r \in Requests,
         RefreshReuse(r)
  PROVE  SessionInv'
<1>1. TypeOK'
  BY DEF SessionInv, RefreshReuse, RevokeFamily, TypeOK, Token, Request,
         RevokedReason, Idle, LocalsWellFormed, Signed
<1>2. TokensWellFormed'
  BY DEF SessionInv, TypeOK, RefreshReuse, RevokeFamily, TokensWellFormed,
         Signed, Live
<1>3. LocalsWellFormed'
  BY DEF SessionInv, TypeOK, RefreshReuse, RevokeFamily, LocalsWellFormed, Idle,
         Signed, Live
<1>4. OneHolderPerFamily'
  BY DEF SessionInv, TypeOK, RefreshReuse, RevokeFamily, OneHolderPerFamily,
         Idle, Minting, FamilyOf, Live
<1>5. PendingSuccessors'
  BY DEF SessionInv, TypeOK, RefreshReuse, RevokeFamily, PendingSuccessors,
         Idle, LocalsWellFormed, Live
<1>6. ExchangedAtMostOnce'
  BY DEF SessionInv, TypeOK, RefreshReuse, RevokeFamily, ExchangedAtMostOnce,
         Live
<1>7. DeletedMeansExpired'
  BY DEF SessionInv, RefreshReuse, RevokeFamily, DeletedMeansExpired, TypeOK
<1>8. LateTokens'
  BY DEF SessionInv, TypeOK, RefreshReuse, LateTokens, Idle, FreshFamily
<1>9. Lineage'
  BY DEF SessionInv, TypeOK, RefreshReuse, Lineage, Signed
<1> QED BY <1>1, <1>2, <1>3, <1>4, <1>5, <1>6, <1>7, <1>8, <1>9 DEF SessionInv

\* The winner of a rotation signs the successor.
LEMMA RefreshUserKeeps ==
  ASSUME SessionInv, NEW r \in Requests, NEW k \in Jtis,
         RefreshUser(r, k)
  PROVE  SessionInv'
<1>1. TypeOK'
  <2> DEFINE j == req[r].jti
  <2>1. j \in Jtis /\ token[j] \in Token
    BY DEF SessionInv, TypeOK, LocalsWellFormed, RefreshUser
  <2>2. [user |-> token[j].user, family |-> token[j].family,
         expires |-> now + RefreshTTL, parent |-> j] \in Token
    BY <2>1, ClockConstants DEF SessionInv, TypeOK, Token
  <2>3. token' \in [Jtis -> Token]
    BY <2>2 DEF SessionInv, TypeOK, RefreshUser, SignTokenPair
  <2>4. req' \in [Requests -> Request]
    BY DEF SessionInv, TypeOK, Request, RefreshUser
  <2> QED BY <2>3, <2>4 DEF SessionInv, TypeOK, RefreshUser
<1>2. TokensWellFormed'
  BY DEF SessionInv, TypeOK, RefreshUser, SignTokenPair, TokensWellFormed,
         LocalsWellFormed, Signed
<1>3. Lineage'
  BY DEF SessionInv, TypeOK, RefreshUser, SignTokenPair, Lineage,
         LocalsWellFormed, Signed
<1>4. LocalsWellFormed'
  BY DEF SessionInv, RefreshUser, SignTokenPair, LocalsWellFormed, TypeOK,
         TokensWellFormed, Signed
<1>5. OneHolderPerFamily'
  BY DEF SessionInv, RefreshUser, SignTokenPair, OneHolderPerFamily, TypeOK,
         Minting, FamilyOf, LocalsWellFormed, TokensWellFormed, Live
<1>6. PendingSuccessors'
  BY NullsAreNoValues
     DEF SessionInv, RefreshUser, SignTokenPair, PendingSuccessors, TypeOK,
         OneHolderPerFamily, Minting, FamilyOf, LocalsWellFormed, Lineage
<1>7. ExchangedAtMostOnce'
  BY DEF SessionInv, TypeOK, RefreshUser, SignTokenPair, ExchangedAtMostOnce,
         PendingSuccessors
<1>8. DeletedMeansExpired'
  BY DEF SessionInv, TypeOK, RefreshUser, SignTokenPair, DeletedMeansExpired,
         TokensWellFormed
<1>9. LateTokens'
  BY NullsAreNoValues
     DEF SessionInv, RefreshUser, SignTokenPair, LateTokens, TypeOK,
         FreshFamily, LocalsWellFormed, Signed
<1> QED BY <1>1, <1>2, <1>3, <1>4, <1>5, <1>6, <1>7, <1>8, <1>9 DEF SessionInv

\* The winner of a rotation gives it up.
LEMMA RefreshUserInactiveKeeps ==
  ASSUME SessionInv, NEW r \in Requests,
         RefreshUserInactive(r)
  PROVE  SessionInv'
<1>1. TypeOK'
  BY DEF SessionInv, RefreshUserInactive, TypeOK, Request, LocalsWellFormed
<1>2. LocalsWellFormed'
  BY DEF SessionInv, TypeOK, RefreshUserInactive, LocalsWellFormed, Signed
<1>3. OneHolderPerFamily'
  BY DEF SessionInv, TypeOK, RefreshUserInactive, OneHolderPerFamily, Minting,
         FamilyOf, Live
<1>4. PendingSuccessors'
  BY DEF SessionInv, TypeOK, RefreshUserInactive, PendingSuccessors
<1>5. LateTokens'
  BY DEF SessionInv, TypeOK, RefreshUserInactive, LateTokens, FreshFamily
<1>6. /\ TokensWellFormed' /\ Lineage' /\ ExchangedAtMostOnce'
       /\ DeletedMeansExpired'
  BY DEF SessionInv, RefreshUserInactive, TokensWellFormed, Lineage,
         ExchangedAtMostOnce, DeletedMeansExpired, Signed
<1> QED BY <1>1, <1>2, <1>3, <1>4, <1>5, <1>6 DEF SessionInv

\* Rows of the family only leave the active state.
LEMMA RefreshInactiveKeeps ==
  ASSUME SessionInv, NEW r \in Requests,
         RefreshInactive(r)
  PROVE  SessionInv'
<1>1. TypeOK'
  BY DEF SessionInv, RefreshInactive, RevokeFamily, TypeOK, Token, Request,
         RevokedReason, Idle, LocalsWellFormed, Signed
<1>2. TokensWellFormed'
  BY DEF SessionInv, TypeOK, RefreshInactive, RevokeFamily, TokensWellFormed,
         Signed, Live
<1>3. LocalsWellFormed'
  BY DEF SessionInv, TypeOK, RefreshInactive, RevokeFamily, LocalsWellFormed,
         Idle, Signed, Live
<1>4. OneHolderPerFamily'
  BY DEF SessionInv, TypeOK, RefreshInactive, RevokeFamily, OneHolderPerFamily,
         Idle, Minting, FamilyOf, Live
<1>5. PendingSuccessors'
  BY DEF SessionInv, TypeOK, RefreshInactive, RevokeFamily, PendingSuccessors,
         Idle, LocalsWellFormed, Live
<1>6. ExchangedAtMostOnce'
  BY DEF SessionInv, TypeOK, RefreshInactive, RevokeFamily, ExchangedAtMostOnce,
         Live
<1>7. DeletedMeansExpired'
  BY DEF SessionInv, RefreshInactive, RevokeFamily, DeletedMeansExpired, TypeOK
<1>8. LateTokens'
  BY DEF SessionInv, TypeOK, RefreshInactive, LateTokens, Idle, FreshFamily
<1>9. Lineage'
  BY DEF SessionInv, TypeOK, RefreshInactive, Lineage, Signed
<1> QED BY <1>1, <1>2, <1>3, <1>4, <1>5, <1>6, <1>7, <1>8, <1>9 DEF SessionInv

\* The locals of a request vanish.
LEMMA CrashKeeps ==
  ASSUME SessionInv, NEW r \in Requests,
         Crash(r)
  PROVE  SessionInv'
<1>1. TypeOK'
  BY DEF SessionInv, Crash, TypeOK, Request, Idle
<1>2. LocalsWellFormed'
  BY DEF SessionInv, TypeOK, Crash, LocalsWellFormed, Idle, Signed
<1>3. OneHolderPerFamily'
  BY DEF SessionInv, TypeOK, Crash, OneHolderPerFamily, Idle, Minting, FamilyOf,
         Live
<1>4. PendingSuccessors'
  BY DEF SessionInv, TypeOK, Crash, PendingSuccessors, Idle
<1>5. LateTokens'
  BY DEF SessionInv, TypeOK, Crash, LateTokens, Idle, FreshFamily
<1>6. /\ TokensWellFormed' /\ Lineage' /\ ExchangedAtMostOnce'
       /\ DeletedMeansExpired'
  BY DEF SessionInv, Crash, TokensWellFormed, Lineage, ExchangedAtMostOnce,
         DeletedMeansExpired, Signed
<1> QED BY <1>1, <1>2, <1>3, <1>4, <1>5, <1>6 DEF SessionInv

\* One row may leave the active state.
LEMMA LogoutKeeps ==
  ASSUME SessionInv, NEW j \in Jtis,
         Logout(j)
  PROVE  SessionInv'
<1>1. TypeOK'
  BY DEF SessionInv, Logout, RevokeByJti, TypeOK, RevokedReason
<1>2. TokensWellFormed'
  BY DEF SessionInv, TypeOK, Logout, RevokeByJti, TokensWellFormed, Signed
<1>3. LocalsWellFormed'
  BY DEF SessionInv, TypeOK, Logout, RevokeByJti, LocalsWellFormed, Signed
<1>4. OneHolderPerFamily'
  BY DEF SessionInv, TypeOK, Logout, RevokeByJti, OneHolderPerFamily, Minting,
         FamilyOf, Live
<1>5. PendingSuccessors'
  BY DEF SessionInv, TypeOK, Logout, RevokeByJti, PendingSuccessors
<1>6. ExchangedAtMostOnce'
  BY DEF SessionInv, TypeOK, Logout, RevokeByJti, ExchangedAtMostOnce
<1>7. DeletedMeansExpired'
  BY DEF SessionInv, TypeOK, Logout, RevokeByJti, DeletedMeansExpired
<1>8. Lineage' /\ LateTokens'
  BY DEF SessionInv, Logout, Lineage, LateTokens, Signed, FreshFamily
<1> QED BY <1>1, <1>2, <1>3, <1>4, <1>5, <1>6, <1>7, <1>8 DEF SessionInv

\* Rows of one user leave the active state.
LEMMA LogoutAllKeeps ==
  ASSUME SessionInv, NEW u \in Users,
         LogoutAll(u)
  PROVE  SessionInv'
<1>1. TypeOK'
  BY DEF SessionInv, LogoutAll, RevokeAllForUser, TypeOK, Token, RevokedReason,
         TokensWellFormed, Signed
<1>2. TokensWellFormed'
  BY DEF SessionInv, TypeOK, LogoutAll, RevokeAllForUser, TokensWellFormed,
         Signed, Live
<1>3. LocalsWellFormed'
  BY DEF SessionInv, TypeOK, LogoutAll, RevokeAllForUser, LocalsWellFormed,
         Signed, Live
<1>4. OneHolderPerFamily'
  BY DEF SessionInv, TypeOK, LogoutAll, RevokeAllForUser, OneHolderPerFamily,
         Minting, FamilyOf, Live
<1>5. PendingSuccessors'
  BY DEF SessionInv, TypeOK, LogoutAll, RevokeAllForUser, PendingSuccessors,
         LocalsWellFormed, Live
<1>6. ExchangedAtMostOnce'
  BY DEF SessionInv, TypeOK, LogoutAll, RevokeAllForUser, ExchangedAtMostOnce,
         Live
<1>7. DeletedMeansExpired'
  BY DEF SessionInv, LogoutAll, RevokeAllForUser, DeletedMeansExpired, TypeOK
<1>8. Lineage' /\ LateTokens'
  BY DEF SessionInv, LogoutAll, Lineage, LateTokens, Signed, FreshFamily
<1> QED BY <1>1, <1>2, <1>3, <1>4, <1>5, <1>6, <1>7, <1>8 DEF SessionInv

\* A user without tokens appears.
LEMMA StoreUserKeeps ==
  ASSUME SessionInv, NEW u \in Users, NEW s \in {"active", "inactive"},
         StoreUser(u, s)
  PROVE  SessionInv'
<1>1. TypeOK'
  BY DEF SessionInv, StoreUser, TypeOK, UserStatus
<1>2. TokensWellFormed'
  BY DEF SessionInv, TypeOK, StoreUser, TokensWellFormed, Signed
<1>3. LateTokens'
  BY NullsAreNoValues
     DEF SessionInv, TypeOK, StoreUser, LateTokens, FreshFamily,
         TokensWellFormed, Signed
<1>4. /\ Lineage' /\ LocalsWellFormed' /\ OneHolderPerFamily'
       /\ PendingSuccessors' /\ ExchangedAtMostOnce' /\ DeletedMeansExpired'
  BY DEF SessionInv, StoreUser, Lineage, LocalsWellFormed, OneHolderPerFamily,
         PendingSuccessors, ExchangedAtMostOnce, DeletedMeansExpired, Signed,
         Live, Minting, FamilyOf
<1> QED BY <1>1, <1>2, <1>3, <1>4 DEF SessionInv

\* A user's status changes; back to active the late tokens count anew.
LEMMA SetStatusKeeps ==
  ASSUME SessionInv, NEW u \in Users, NEW s \in {"active", "inactive"},
         SetStatus(u, s)
  PROVE  SessionInv'
<1>1. TypeOK'
  BY DEF SessionInv, SetStatus, TypeOK, UserStatus
<1>2. TokensWellFormed'
  BY DEF SessionInv, TypeOK, SetStatus, TokensWellFormed, Signed
<1>3. LateTokens'
  BY DEF SessionInv, TypeOK, SetStatus, LateTokens, FreshFamily
<1>4. /\ Lineage' /\ LocalsWellFormed' /\ OneHolderPerFamily'
       /\ PendingSuccessors' /\ ExchangedAtMostOnce' /\ DeletedMeansExpired'
  BY DEF SessionInv, SetStatus, Lineage, LocalsWellFormed, OneHolderPerFamily,
         PendingSuccessors, ExchangedAtMostOnce, DeletedMeansExpired, Signed,
         Live, Minting, FamilyOf
<1> QED BY <1>1, <1>2, <1>3, <1>4 DEF SessionInv

\* A user is deleted.
LEMMA DestroyUserKeeps ==
  ASSUME SessionInv, NEW u \in Users,
         DestroyUser(u)
  PROVE  SessionInv'
<1>1. TypeOK'
  BY DEF SessionInv, DestroyUser, TypeOK, UserStatus
<1>2. TokensWellFormed'
  BY DEF SessionInv, TypeOK, DestroyUser, TokensWellFormed, Signed
<1>3. LateTokens'
  BY DEF SessionInv, TypeOK, DestroyUser, LateTokens, FreshFamily
<1>4. /\ Lineage' /\ LocalsWellFormed' /\ OneHolderPerFamily'
       /\ PendingSuccessors' /\ ExchangedAtMostOnce' /\ DeletedMeansExpired'
  BY DEF SessionInv, DestroyUser, Lineage, LocalsWellFormed, OneHolderPerFamily,
         PendingSuccessors, ExchangedAtMostOnce, DeletedMeansExpired, Signed,
         Live, Minting, FamilyOf
<1> QED BY <1>1, <1>2, <1>3, <1>4 DEF SessionInv

\* Rows of expired tokens disappear.
LEMMA PurgeExpiredKeeps ==
  ASSUME SessionInv,
         PurgeExpired
  PROVE  SessionInv'
<1>1. TypeOK'
  BY DEF SessionInv, PurgeExpired, TypeOK
<1>2. TokensWellFormed'
  BY DEF SessionInv, TypeOK, PurgeExpired, TokensWellFormed, Signed
<1>3. LocalsWellFormed'
  BY DEF SessionInv, TypeOK, PurgeExpired, LocalsWellFormed, Signed
<1>4. OneHolderPerFamily'
  BY DEF SessionInv, TypeOK, PurgeExpired, OneHolderPerFamily, Minting,
         FamilyOf, Live
<1>5. PendingSuccessors'
  BY DEF SessionInv, TypeOK, PurgeExpired, PendingSuccessors, LocalsWellFormed
<1>6. ExchangedAtMostOnce'
  BY DEF SessionInv, TypeOK, PurgeExpired, ExchangedAtMostOnce
<1>7. DeletedMeansExpired'
  BY DEF SessionInv, PurgeExpired, DeletedMeansExpired, TypeOK
<1>8. Lineage' /\ LateTokens'
  BY DEF SessionInv, PurgeExpired, Lineage, LateTokens, Signed, FreshFamily
<1> QED BY <1>1, <1>2, <1>3, <1>4, <1>5, <1>6, <1>7, <1>8 DEF SessionInv

\* Tokens only get older.
LEMMA TickKeeps ==
  ASSUME SessionInv,
         Tick
  PROVE  SessionInv'
<1>1. TypeOK'
  BY DEF SessionInv, Tick, TypeOK
<1>2. DeletedMeansExpired'
  BY DEF SessionInv, Tick, DeletedMeansExpired, TypeOK, Token
<1>3. /\ TokensWellFormed' /\ Lineage' /\ LocalsWellFormed'
       /\ OneHolderPerFamily' /\ PendingSuccessors' /\ ExchangedAtMostOnce'
       /\ LateTokens'
  BY DEF SessionInv, Tick, TokensWellFormed, Lineage, LocalsWellFormed,
         OneHolderPerFamily, PendingSuccessors, ExchangedAtMostOnce, LateTokens,
         Signed, Live, Minting, FamilyOf, FreshFamily
<1> QED BY <1>1, <1>2, <1>3 DEF SessionInv

\* Nothing changes.
LEMMA StutterKeeps ==
  ASSUME SessionInv, UNCHANGED vars
  PROVE  SessionInv'
BY DEF SessionInv, vars, TypeOK, TokensWellFormed, Lineage, LocalsWellFormed,
       OneHolderPerFamily, PendingSuccessors, ExchangedAtMostOnce,
       DeletedMeansExpired, LateTokens, Signed, Live, Minting, FamilyOf, FreshFamily

\* Every step of the specification keeps SessionInv.
LEMMA NextKeeps == SessionInv /\ [Next]_vars => SessionInv'
<1> SUFFICES ASSUME SessionInv, [Next]_vars PROVE SessionInv'
  OBVIOUS
<1>1. ASSUME NEW r \in Requests, OpenAny(r) PROVE SessionInv'
  <2>1. PICK u \in Users, j \in Jtis, f \in Families :
          Login(r, u, j, f) \/ Google(r, u, j, f) \/ Register(r, u, j, f)
    BY <1>1 DEF OpenAny
  <2>2. /\ req[r] = Idle /\ OpenSession(r, u, j, f)
        /\ status'[u] # "absent"
        /\ status' = [status EXCEPT ![u] = IF @ = "absent" THEN "active" ELSE @]
    BY <2>1 DEF Login, Google, Register, SessionInv, TypeOK
  <2> QED BY <2>2, OpenSessionKeeps
<1>2. ASSUME NEW r \in Requests, RefreshAny(r) PROVE SessionInv'
  BY <1>2, RefreshFindKeeps, RefreshRevokeKeeps, RefreshReuseKeeps, RefreshUserKeeps,
     RefreshUserInactiveKeeps, RefreshInactiveKeeps DEF RefreshAny
<1>3. ASSUME NEW r \in Requests, NEW d \in BOOLEAN, Store(r, d) PROVE SessionInv'
  BY <1>3, StoreKeeps
<1>4. ASSUME NEW r \in Requests, Crash(r) PROVE SessionInv'
  BY <1>4, CrashKeeps
<1>5. ASSUME NEW j \in Jtis, Logout(j) PROVE SessionInv'
  BY <1>5, LogoutKeeps
<1>6. ASSUME NEW u \in Users, LogoutAll(u) \/ DestroyUser(u) PROVE SessionInv'
  BY <1>6, LogoutAllKeeps, DestroyUserKeeps
<1>7. ASSUME NEW u \in Users, NEW s \in {"active", "inactive"},
             StoreUser(u, s) \/ SetStatus(u, s)
      PROVE  SessionInv'
  BY <1>7, StoreUserKeeps, SetStatusKeeps
<1>8. CASE PurgeExpired
  BY <1>8, PurgeExpiredKeeps
<1>9. CASE Tick
  BY <1>9, TickKeeps
<1>10. CASE UNCHANGED vars
  BY <1>10, StutterKeeps
<1> QED
  BY <1>1, <1>2, <1>3, <1>4, <1>5, <1>6, <1>7, <1>8, <1>9, <1>10 DEF Next, ServeRequest

-----------------------------------------------------------------------------
\* Families that are over.

\* What was signed is never signed again.
LEMMA SignedIsImmutable ==
  ASSUME SessionInv, [Next]_vars, NEW j \in Jtis, Signed(j)
  PROVE  token'[j] = token[j]
<1>1. ASSUME NEW r \in Requests, NEW u \in Users, NEW k \in Jtis, NEW f \in Families,
             OpenSession(r, u, k, f)
      PROVE  token'[j] = token[j]
  BY <1>1 DEF SessionInv, TypeOK, Signed, OpenSession, SignTokenPair
<1>2. ASSUME NEW r \in Requests, NEW k \in Jtis, RefreshUser(r, k)
      PROVE  token'[j] = token[j]
  BY <1>2 DEF SessionInv, TypeOK, Signed, RefreshUser, SignTokenPair
<1>3. CASE UNCHANGED token
  BY <1>3
<1>4. \/ \E r \in Requests, u \in Users, k \in Jtis, f \in Families : OpenSession(r, u, k, f)
      \/ \E r \in Requests, k \in Jtis : RefreshUser(r, k)
      \/ UNCHANGED token
  <2>1. ASSUME NEW r \in Requests, OpenAny(r)
        PROVE  \E u \in Users, k \in Jtis, f \in Families : OpenSession(r, u, k, f)
    BY <2>1 DEF OpenAny, Login, Google, Register
  <2>2. ASSUME NEW r \in Requests, RefreshAny(r)
        PROVE  (\E k \in Jtis : RefreshUser(r, k)) \/ UNCHANGED token
    BY <2>2 DEF RefreshAny, RefreshFind, RefreshRevoke, RefreshReuse,
                RefreshUserInactive, RefreshInactive
  <2>3. ASSUME NEW r \in Requests, (\E d \in BOOLEAN : Store(r, d)) \/ Crash(r)
        PROVE  UNCHANGED token
    BY <2>3 DEF Store, Crash
  <2>4. (\E r \in Requests : ServeRequest(r)) \/ UNCHANGED token
    BY DEF Next, vars, Logout, LogoutAll, StoreUser, SetStatus, DestroyUser,
           PurgeExpired, Tick
  <2> QED BY <2>1, <2>2, <2>3, <2>4 DEF ServeRequest
<1> QED BY <1>1, <1>2, <1>3, <1>4

\* No statement of any request revives a family that is over: a row becomes
\* active, or a request comes to hold the family, only where another held it.
LEMMA OverKeeps ==
  ASSUME SessionInv, [Next]_vars, NEW f \in Families, Over(f)
  PROVE  Over(f)'
<1> USE DEF Over, Live, Minting, FamilyOf, FreshFamily
<1>1. ASSUME NEW r \in Requests, NEW u \in Users, NEW j \in Jtis, NEW g \in Families,
             Login(r, u, j, g) \/ Google(r, u, j, g) \/ Register(r, u, j, g)
      PROVE  Over(f)'
  BY <1>1, NullsAreNoValues
     DEF SessionInv, TypeOK, TokensWellFormed, LocalsWellFormed, Signed, Login, Google,
         Register, OpenSession, SignTokenPair
<1>2. ASSUME NEW r \in Requests, NEW d \in BOOLEAN, Store(r, d) PROVE Over(f)'
  BY <1>2 DEF SessionInv, TypeOK, LocalsWellFormed, Idle, Store
<1>3. ASSUME NEW r \in Requests, RefreshRevoke(r) PROVE Over(f)'
  BY <1>3 DEF SessionInv, TypeOK, Request, LocalsWellFormed, RefreshRevoke, RevokeByJti
<1>4. ASSUME NEW r \in Requests, NEW k \in Jtis, RefreshUser(r, k) PROVE Over(f)'
  BY <1>4, NullsAreNoValues
     DEF SessionInv, TypeOK, Request, TokensWellFormed, LocalsWellFormed, Signed,
         RefreshUser, SignTokenPair
<1>5. ASSUME NEW r \in Requests,
             \/ \E j \in Jtis : RefreshFind(r, j)
             \/ RefreshReuse(r) \/ RefreshUserInactive(r) \/ RefreshInactive(r) \/ Crash(r)
      PROVE  Over(f)'
  BY <1>5 DEF SessionInv, TypeOK, Request, Idle, RefreshFind, RefreshReuse,
              RefreshUserInactive, RefreshInactive, Crash, RevokeFamily
<1>6. ASSUME NEW j \in Jtis, Logout(j) PROVE Over(f)'
  BY <1>6 DEF SessionInv, TypeOK, Logout, RevokeByJti
<1>7. ASSUME NEW u \in Users,
             \/ LogoutAll(u) \/ DestroyUser(u)
             \/ \E s \in {"active", "inactive"} : StoreUser(u, s) \/ SetStatus(u, s)
      PROVE  Over(f)'
  BY <1>7 DEF SessionInv, TypeOK, LogoutAll, RevokeAllForUser, DestroyUser, StoreUser,
              SetStatus
<1>8. CASE PurgeExpired \/ Tick \/ UNCHANGED vars
  BY <1>8 DEF SessionInv, TypeOK, PurgeExpired, Tick, vars
<1> QED
  BY <1>1, <1>2, <1>3, <1>4, <1>5, <1>6, <1>7, <1>8
     DEF Next, ServeRequest, OpenAny, RefreshAny

\* A request about to revoke a family for an inactive user was so before, or has
\* just found the user inactive and was the one that held the family.
LEMMA InactiveIsOverKeeps ==
  ASSUME SessionInv, InactiveIsOver, [Next]_vars
  PROVE  InactiveIsOver'
<1> SUFFICES ASSUME NEW r \in Requests, req'[r].pc = "inactive"
             PROVE  Over(token[req[r].jti].family)'
  BY DEF InactiveIsOver
<1>1. \/ req'[r] = req[r]
      \/ RefreshUserInactive(r) /\ req'[r].jti = req[r].jti
  <2>1. CASE UNCHANGED req
    BY <2>1
  <2>2. ASSUME NEW s \in Requests, ServeRequest(s)
        PROVE  req'[r] = req[r] \/ (s = r /\ RefreshUserInactive(r) /\ req'[r].jti = req[r].jti)
    <3>1. req \in [Requests -> Request]
      BY DEF SessionInv, TypeOK
    <3>2. CASE OpenAny(s)
      BY <3>1, <3>2 DEF Request, OpenAny, Login, Google, Register, OpenSession
    <3>3. CASE RefreshAny(s)
      BY <3>1, <3>3 DEF Request, Idle, RefreshAny, RefreshFind, RefreshRevoke,
         RefreshReuse, RefreshUser, RefreshUserInactive, RefreshInactive
    <3>4. CASE (\E d \in BOOLEAN : Store(s, d)) \/ Crash(s)
      BY <3>1, <3>4 DEF Request, Idle, Store, Crash
    <3> QED BY <2>2, <3>2, <3>3, <3>4 DEF ServeRequest
  <2>3. (\E s \in Requests : ServeRequest(s)) \/ UNCHANGED req
    BY DEF Next, vars, Logout, LogoutAll, StoreUser, SetStatus, DestroyUser,
           PurgeExpired, Tick
  <2> QED BY <2>1, <2>2, <2>3
<1>2. /\ req[r].pc \in {"inactive", "user"} /\ req'[r].jti = req[r].jti
      /\ req[r].jti \in Jtis /\ Signed(req[r].jti)
  BY <1>1 DEF SessionInv, LocalsWellFormed, RefreshUserInactive
<1>3. PICK j \in Jtis : j = req[r].jti
  BY <1>2
<1>4. PICK f \in Families : f = token[j].family
  BY <1>2, <1>3, NullsAreNoValues DEF SessionInv, TypeOK, Token, Signed
<1>5. token'[j].family = f
  BY <1>2, <1>3, <1>4, SignedIsImmutable
<1>6. Over(f)'
  <2>1. CASE req'[r] = req[r]
    <3>1. Over(f)
      BY <2>1, <1>3, <1>4 DEF InactiveIsOver
    <3> QED BY <3>1, OverKeeps
  <2>2. CASE RefreshUserInactive(r)
    BY <2>2, <1>2, <1>3, <1>4 DEF SessionInv, TypeOK, Request, RefreshUserInactive, Over,
       Live, Minting, FamilyOf, FreshFamily, OneHolderPerFamily
  <2> QED BY <1>1, <2>1, <2>2
<1> QED
  BY <1>2, <1>3, <1>5, <1>6 DEF Over, Live, Minting, FamilyOf, FreshFamily

\* So the family is over when it is reported closed, and stays over.
LEMMA InactiveClosesKeeps ==
  ASSUME SessionInv, InactiveIsOver, InactiveClosesFamily, [Next]_vars
  PROVE  InactiveClosesFamily'
<1> SUFFICES ASSUME NEW f \in Families, <<f, "user_inactive">> \in closed'
             PROVE  Over(f)'
  BY DEF InactiveClosesFamily
<1>1. \/ <<f, "user_inactive">> \in closed
      \/ \E r \in Requests : RefreshInactive(r) /\ f = token[req[r].jti].family
  <2> DEFINE G == \/ <<f, "user_inactive">> \in closed
                  \/ \E r \in Requests : RefreshInactive(r) /\ f = token[req[r].jti].family
  <2>1. CASE UNCHANGED closed
    BY <2>1
  <2>2. ASSUME NEW r \in Requests, RefreshReuse(r) PROVE G
    BY <2>2 DEF RefreshReuse
  <2>3. ASSUME NEW r \in Requests, RefreshInactive(r) PROVE G
    BY <2>3 DEF RefreshInactive
  <2>4. ASSUME NEW u \in Users, LogoutAll(u) PROVE G
    BY <2>4 DEF LogoutAll
  <2>5. ASSUME NEW r \in Requests, ServeRequest(r) PROVE G
    <3>1. RefreshReuse(r) \/ RefreshInactive(r) \/ UNCHANGED closed
      BY <2>5 DEF ServeRequest, OpenAny, RefreshAny, Login, Google, Register,
         OpenSession, Store, RefreshFind, RefreshRevoke, RefreshUser,
         RefreshUserInactive, Crash
    <3> QED BY <3>1, <2>1, <2>2, <2>3
  <2>6. \/ \E r \in Requests : ServeRequest(r)
        \/ \E u \in Users : LogoutAll(u)
        \/ UNCHANGED closed
    BY DEF Next, vars, Logout, StoreUser, SetStatus, DestroyUser, PurgeExpired, Tick
  <2> QED BY <2>1, <2>4, <2>5, <2>6
<1>2. Over(f)
  BY <1>1 DEF InactiveClosesFamily, InactiveIsOver, RefreshInactive
<1> QED BY <1>2, OverKeeps

-----------------------------------------------------------------------------
\* The results.

\* IInv is an invariant: the conjunction of what the properties need.
THEOREM InductiveInvariant == Spec => []IInv
<1>1. Init => IInv
  BY InitSessionInv DEF Init, IInv, InactiveIsOver, InactiveClosesFamily, Idle
<1>2. IInv /\ [Next]_vars => IInv'
  BY NextKeeps, InactiveIsOverKeeps, InactiveClosesKeeps DEF IInv
<1> QED BY <1>1, <1>2, PTL DEF Spec

\* Tables, tokens and locals have their types.
THEOREM TypeCorrect == Spec => []TypeOK
<1>1. IInv => TypeOK
  BY DEF IInv, SessionInv
<1> QED BY <1>1, InductiveInvariant, PTL

\* A family has one holder, whatever the number of concurrent refreshes.
THEOREM OneHolder == Spec => []OneHolderPerFamily
<1>1. IInv => OneHolderPerFamily
  BY DEF IInv, SessionInv
<1> QED BY <1>1, InductiveInvariant, PTL

\* No token is exchanged twice, nor after anything else revoked it.
THEOREM SingleExchange == Spec => []ExchangedAtMostOnce
<1>1. IInv => ExchangedAtMostOnce
  BY DEF IInv, SessionInv
<1> QED BY <1>1, InductiveInvariant, PTL

\* Purging never makes a token that still verifies unknown.
THEOREM VerifiableHasRow == Spec => []VerifiableTokenHasRow
<1>1. IInv => VerifiableTokenHasRow
  BY DEF IInv, SessionInv, TypeOK, Token, DeletedMeansExpired, VerifiableTokenHasRow,
         Verifies
<1> QED BY <1>1, InductiveInvariant, PTL

\* The family revoked for an inactive user is closed for good.
THEOREM InactiveCloses == Spec => []InactiveClosesFamily
<1>1. IInv => InactiveClosesFamily
  BY DEF IInv
<1> QED BY <1>1, InductiveInvariant, PTL

\* A stale read of the user's status costs one token of each family, not two.
THEOREM OneLateToken == Spec => []AtMostOneLateToken
<1>1. IInv => AtMostOneLateToken
  BY DEF IInv, SessionInv, LateTokens, AtMostOneLateToken
<1> QED BY <1>1, InductiveInvariant, PTL

\* The end of a family is final.
THEOREM OverForGood == Spec => OverIsFinal
<1>1. IInv /\ [Next]_vars => [\A f \in Families : Over(f) => Over(f)']_vars
  BY OverKeeps DEF IInv
<1> QED BY <1>1, InductiveInvariant, PTL DEF Spec, OverIsFinal

\* A revoked row keeps its reason: every revocation and every other write of the
\* table passes revoked rows by, except the purge.
THEOREM RevocationFinal == Spec => RevocationIsFinal
<1> DEFINE Kept == \A j \in Jtis : row[j] \in RevokedReason => row'[j] \in {row[j], "none"}
<1>1. SessionInv /\ [Next]_vars => [Kept]_vars
  <2> SUFFICES ASSUME SessionInv, Next PROVE Kept
    OBVIOUS
  <2>1. ASSUME NEW r \in Requests, NEW d \in BOOLEAN, Store(r, d) PROVE Kept
    BY <2>1 DEF SessionInv, TypeOK, LocalsWellFormed, RevokedReason, Store
  <2>2. ASSUME NEW r \in Requests, RefreshRevoke(r) \/ RefreshReuse(r) \/ RefreshInactive(r)
        PROVE  Kept
    BY <2>2 DEF SessionInv, TypeOK, RevokedReason, RefreshRevoke, RefreshReuse,
       RefreshInactive, RevokeByJti, RevokeFamily, Live
  <2>3. ASSUME NEW j \in Jtis, Logout(j) PROVE Kept
    BY <2>3 DEF SessionInv, TypeOK, RevokedReason, Logout, RevokeByJti
  <2>4. ASSUME NEW u \in Users, LogoutAll(u) PROVE Kept
    BY <2>4 DEF SessionInv, TypeOK, RevokedReason, LogoutAll, RevokeAllForUser, Live
  <2>5. CASE PurgeExpired
    BY <2>5 DEF SessionInv, TypeOK, PurgeExpired
  <2>6. CASE UNCHANGED row
    BY <2>6
  <2>7. ASSUME NEW r \in Requests, ServeRequest(r)
        PROVE  \/ \E d \in BOOLEAN : Store(r, d)
               \/ RefreshRevoke(r) \/ RefreshReuse(r) \/ RefreshInactive(r)
               \/ UNCHANGED row
    BY <2>7 DEF ServeRequest, OpenAny, RefreshAny, Login, Google, Register, OpenSession,
       RefreshFind, RefreshUser, RefreshUserInactive, Crash
  <2>8. \/ \E r \in Requests : ServeRequest(r)
        \/ \E j \in Jtis : Logout(j)
        \/ \E u \in Users : LogoutAll(u)
        \/ PurgeExpired
        \/ UNCHANGED row
    BY DEF Next, StoreUser, SetStatus, DestroyUser, Tick
  <2> QED BY <2>1, <2>2, <2>3, <2>4, <2>5, <2>6, <2>7, <2>8
<1>2. IInv => SessionInv
  BY DEF IInv
<1> QED BY <1>1, <1>2, InductiveInvariant, PTL DEF Spec, RevocationIsFinal

-----------------------------------------------------------------------------
\* AuthSessions implements SessionFamilies.

\* What the mapping makes of a family, in each of the four cases.
Lines ==
    /\ familyPhase = [f \in Families |-> familyPhase[f]]
    /\ familyHolder = [f \in Families |-> familyHolder[f]]
    /\ \A f \in Families :
         /\ FreshFamily(f) => familyPhase[f] = "unused" /\ familyHolder[f] = NoJti
         /\ \A j \in Jtis : token[j].family = f /\ Live(j) =>
              familyPhase[f] = "live" /\ familyHolder[f] = j
         /\ \A r \in Requests : Minting(r) /\ FamilyOf(r) = f =>
              /\ familyPhase[f] = "minting"
              /\ familyHolder[f] = IF req[r].pc = "store" THEN req[r].next ELSE NoJti
         /\ Over(f) => familyPhase[f] = "over" /\ familyHolder[f] = NoJti

\* The token the mapping names is the only one that holds the family.
LEMMA HolderNamed ==
  ASSUME NEW f \in Families, NEW j \in HoldersOf(f), \A k \in HoldersOf(f) : k = j
  PROVE  familyHolder[f] = j
<1>1. j \in Jtis /\ HoldersOf(f) # {}
  BY DEF HoldersOf
<1>2. (CHOOSE k \in Jtis : k \in HoldersOf(f)) \in HoldersOf(f)
  BY <1>1
<1> QED BY <1>1, <1>2 DEF familyHolder

\* The session invariant gives each case its value.
LEMMA LinesHold == SessionInv => Lines
<1> SUFFICES ASSUME SessionInv PROVE Lines
  OBVIOUS
<1>1. /\ familyPhase = [f \in Families |-> familyPhase[f]]
      /\ familyHolder = [f \in Families |-> familyHolder[f]]
  BY DEF familyPhase, familyHolder
<1>2. ASSUME NEW f \in Families, FreshFamily(f)
      PROVE  familyPhase[f] = "unused" /\ familyHolder[f] = NoJti
  <2>1. HoldersOf(f) = {}
    BY <1>2 DEF HoldersOf, FreshFamily
  <2> QED BY <1>2, <2>1 DEF familyPhase, familyHolder
<1>3. ASSUME NEW f \in Families, NEW j \in Jtis, token[j].family = f, Live(j)
      PROVE  familyPhase[f] = "live" /\ familyHolder[f] = j
  <2>1. j \in HoldersOf(f) /\ ~ FreshFamily(f)
    BY <1>3 DEF HoldersOf, FreshFamily
  <2>2. \A k \in HoldersOf(f) : k = j
    BY <1>3 DEF HoldersOf, SessionInv, OneHolderPerFamily, Minting, FamilyOf
  <2>3. familyHolder[f] = j
    BY <2>1, <2>2, HolderNamed
  <2> QED BY <1>3, <2>1, <2>3 DEF familyPhase
<1>4. ASSUME NEW f \in Families, NEW r \in Requests, Minting(r), FamilyOf(r) = f
      PROVE  /\ familyPhase[f] = "minting"
             /\ familyHolder[f] = IF req[r].pc = "store" THEN req[r].next ELSE NoJti
  <2>1. \A k \in Jtis : token[k].family = f => ~ Live(k)
    BY <1>4 DEF SessionInv, OneHolderPerFamily
  <2>2. ~ FreshFamily(f)
    BY <1>4 DEF FreshFamily, Minting, FamilyOf, SessionInv, LocalsWellFormed
  <2>3. familyPhase[f] = "minting"
    BY <1>4, <2>1, <2>2 DEF familyPhase
  <2>4. \A k \in HoldersOf(f) : req[r].pc = "store" /\ k = req[r].next
    BY <1>4, <2>1 DEF HoldersOf, SessionInv, OneHolderPerFamily, Minting, FamilyOf
  <2>5. CASE req[r].pc = "store"
    <3>1. req[r].next \in HoldersOf(f)
      BY <1>4, <2>5 DEF HoldersOf, FamilyOf, SessionInv, LocalsWellFormed
    <3> QED BY <2>3, <2>4, <2>5, <3>1, HolderNamed
  <2>6. CASE req[r].pc # "store"
    <3>1. HoldersOf(f) = {}
      BY <2>4, <2>6
    <3> QED BY <2>3, <2>6, <3>1 DEF familyHolder
  <2> QED BY <2>5, <2>6
<1>5. ASSUME NEW f \in Families, Over(f)
      PROVE  familyPhase[f] = "over" /\ familyHolder[f] = NoJti
  <2>1. HoldersOf(f) = {}
    BY <1>5 DEF HoldersOf, Over, Minting, FamilyOf
  <2> QED BY <1>5, <2>1 DEF familyPhase, familyHolder, Over
<1> QED BY <1>1, <1>2, <1>3, <1>4, <1>5 DEF Lines

\* The same of the next state.
LEMMA LinesHoldNext == SessionInv' => Lines'
BY LinesHold, PTL

\* A family is in one of the four cases.
LEMMA FourCases ==
  ASSUME NEW f \in Families
  PROVE  \/ FreshFamily(f)
         \/ \E j \in Jtis : token[j].family = f /\ Live(j)
         \/ \E r \in Requests : Minting(r) /\ FamilyOf(r) = f
         \/ Over(f)
BY DEF Over

-----------------------------------------------------------------------------

\* A statement that signs nothing, stores nothing and takes nothing up for
\* minting only ends families: logout, revocations, purge, crashes, and those
\* that touch no session.
LEMMA EndingImplements ==
  ASSUME SessionInv, SessionInv', token' = token,
         \A j \in Jtis : Live(j)' => Live(j),
         \A r \in Requests : Minting(r)' => req'[r] = req[r]
  PROVE  [Promise!AbstractNext]_(Promise!abstractVars)
<1>0. Lines /\ Lines'
  BY LinesHold, LinesHoldNext
<1>1. /\ {j \in Jtis : Signed(j)}' = {j \in Jtis : Signed(j)}
      /\ \A f \in Families : FreshFamily(f)' <=> FreshFamily(f)
      /\ \A r \in Requests : Minting(r)' => Minting(r) /\ FamilyOf(r)' = FamilyOf(r)
  BY DEF Signed, FreshFamily, Minting, FamilyOf
<1>2. ASSUME NEW f \in Families
      PROVE  \/ familyPhase'[f] = familyPhase[f] /\ familyHolder'[f] = familyHolder[f]
             \/ /\ familyPhase[f] \in {"minting", "live"}
                /\ familyPhase'[f] = "over" /\ familyHolder'[f] = NoJti
  <2>1. CASE FreshFamily(f)
    BY <2>1, <1>0, <1>1 DEF Lines
  <2>2. ASSUME NEW j \in Jtis, token[j].family = f, Live(j)
        PROVE  \/ familyPhase'[f] = familyPhase[f] /\ familyHolder'[f] = familyHolder[f]
               \/ /\ familyPhase[f] \in {"minting", "live"}
                  /\ familyPhase'[f] = "over" /\ familyHolder'[f] = NoJti
    <3>1. familyPhase[f] = "live" /\ familyHolder[f] = j
      BY <2>2, <1>0 DEF Lines
    <3>2. CASE Live(j)'
      <4>1. familyPhase'[f] = "live" /\ familyHolder'[f] = j
        BY <2>2, <3>2, <1>0 DEF Lines
      <4> QED BY <3>1, <4>1
    <3>3. CASE ~ Live(j)'
      <4>1. Over(f)'
        BY <2>2, <3>3, <1>1 DEF Over, FreshFamily, SessionInv, OneHolderPerFamily
      <4>2. familyPhase'[f] = "over" /\ familyHolder'[f] = NoJti
        BY <4>1, <1>0 DEF Lines
      <4> QED BY <3>1, <4>2
    <3> QED BY <3>2, <3>3
  <2>3. ASSUME NEW r \in Requests, Minting(r), FamilyOf(r) = f
        PROVE  \/ familyPhase'[f] = familyPhase[f] /\ familyHolder'[f] = familyHolder[f]
               \/ /\ familyPhase[f] \in {"minting", "live"}
                  /\ familyPhase'[f] = "over" /\ familyHolder'[f] = NoJti
    <3>1. /\ familyPhase[f] = "minting"
          /\ familyHolder[f] = IF req[r].pc = "store" THEN req[r].next ELSE NoJti
      BY <2>3, <1>0 DEF Lines
    <3>2. CASE Minting(r)'
      <4>1. /\ familyPhase'[f] = "minting"
            /\ familyHolder'[f] = IF req'[r].pc = "store" THEN req'[r].next ELSE NoJti
        BY <2>3, <3>2, <1>0, <1>1 DEF Lines
      <4> QED BY <3>1, <3>2, <4>1
    <3>3. CASE ~ Minting(r)'
      <4>1. \A k \in Jtis : token[k].family = f => ~ Live(k)
        BY <2>3 DEF SessionInv, OneHolderPerFamily
      <4>2. \A s \in Requests : Minting(s)' => FamilyOf(s)' # f
        BY <2>3, <3>3, <1>1 DEF SessionInv, OneHolderPerFamily
      <4>3. ~ FreshFamily(f)
        BY <2>3 DEF FreshFamily, Minting, FamilyOf, SessionInv, LocalsWellFormed
      <4>4. Over(f)'
        BY <1>1, <4>1, <4>2, <4>3 DEF Over
      <4>5. familyPhase'[f] = "over" /\ familyHolder'[f] = NoJti
        BY <4>4, <1>0 DEF Lines
      <4> QED BY <3>1, <4>5
    <3> QED BY <3>2, <3>3
  <2>4. CASE Over(f)
    <3>1. Over(f)'
      BY <2>4, <1>1 DEF Over
    <3> QED BY <2>4, <3>1, <1>0 DEF Lines
  <2> QED BY <2>1, <2>2, <2>3, <2>4, FourCases
<1> DEFINE F == {f \in Families : familyPhase'[f] # familyPhase[f]}
<1>3. /\ \A f \in F : familyPhase[f] \in {"minting", "live"}
      /\ familyPhase' = [f \in Families |-> IF f \in F THEN "over" ELSE familyPhase[f]]
  BY <1>0, <1>2 DEF Lines
<1>4. familyHolder' = [f \in Families |-> IF f \in F THEN NoJti ELSE familyHolder[f]]
  <2>1. \A f \in Families :
          familyHolder'[f] = IF f \in F THEN NoJti ELSE familyHolder[f]
    BY <1>2
  <2> QED BY <1>0, <2>1 DEF Lines
<1>5. Promise!End(F)
  BY <1>1, <1>3, <1>4 DEF Promise!End
<1> QED BY <1>5 DEF Promise!AbstractNext

\* A step that leaves the tokens, the rows and the minting requests of f alone.
Untouched(f) ==
    /\ \A j \in Jtis :
         \/ token'[j].family = token[j].family /\ (Live(j)' <=> Live(j))
         \/ token'[j].family # f /\ token[j].family # f
    /\ \A r \in Requests :
         \/ /\ (Minting(r) /\ FamilyOf(r) = f) <=> (Minting(r) /\ FamilyOf(r) = f)'
            /\ req'[r] = req[r]
         \/ ~ (Minting(r) /\ FamilyOf(r) = f) /\ ~ (Minting(r) /\ FamilyOf(r) = f)'

\* A family none of whose tokens, rows and minting requests a step touches keeps
\* its place in the mapping.
LEMMA UntouchedFamily ==
  ASSUME SessionInv, SessionInv', NEW f \in Families, Untouched(f)
  PROVE  familyPhase'[f] = familyPhase[f] /\ familyHolder'[f] = familyHolder[f]
<1>0. Lines /\ Lines'
  BY LinesHold, LinesHoldNext
<1>1. FreshFamily(f)' <=> FreshFamily(f)
  BY DEF Untouched, FreshFamily
<1>2. CASE FreshFamily(f)
  BY <1>0, <1>1, <1>2 DEF Lines
<1>3. ASSUME NEW j \in Jtis, token[j].family = f, Live(j)
      PROVE  familyPhase'[f] = familyPhase[f] /\ familyHolder'[f] = familyHolder[f]
  <2>1. token'[j].family = f /\ Live(j)'
    BY <1>3 DEF Untouched
  <2>2. familyPhase[f] = "live" /\ familyHolder[f] = j
    BY <1>0, <1>3 DEF Lines
  <2>3. familyPhase'[f] = "live" /\ familyHolder'[f] = j
    BY <1>0, <2>1 DEF Lines
  <2> QED BY <2>2, <2>3
<1>4. ASSUME NEW r \in Requests, Minting(r), FamilyOf(r) = f
      PROVE  familyPhase'[f] = familyPhase[f] /\ familyHolder'[f] = familyHolder[f]
  <2>1. (Minting(r) /\ FamilyOf(r) = f)' /\ req'[r] = req[r]
    BY <1>4 DEF Untouched
  <2>2. /\ familyPhase[f] = "minting"
        /\ familyHolder[f] = IF req[r].pc = "store" THEN req[r].next ELSE NoJti
    BY <1>0, <1>4 DEF Lines
  <2>3. /\ familyPhase'[f] = "minting"
        /\ familyHolder'[f] = IF req'[r].pc = "store" THEN req'[r].next ELSE NoJti
    BY <1>0, <2>1 DEF Lines
  <2> QED BY <2>1, <2>2, <2>3
<1>5. CASE Over(f)
  <2>1. Over(f)'
    BY <1>1, <1>5 DEF Untouched, Over
  <2> QED BY <1>0, <1>5, <2>1 DEF Lines
<1> QED BY <1>2, <1>3, <1>4, <1>5, FourCases

\* Login, google and register open a family.
LEMMA OpenImplements ==
  ASSUME SessionInv, SessionInv', NEW r \in Requests, NEW u \in Users, NEW j \in Jtis,
         NEW f \in Families, req[r] = Idle, OpenSession(r, u, j, f)
  PROVE  Promise!Open(f, j)
<1>0. Lines /\ Lines'
  BY LinesHold, LinesHoldNext
<1>1. /\ FreshFamily(f) /\ ~ Signed(j)
      /\ token' = [token EXCEPT ![j] =
           [user |-> u, family |-> f, expires |-> now + RefreshTTL, parent |-> NoJti]]
      /\ req' = [req EXCEPT ![r] = [pc |-> "store", jti |-> NoJti, next |-> j]]
      /\ row' = row
  BY DEF OpenSession, SignTokenPair
<1>2. /\ \A k \in Jtis : token'[k].family = IF k = j THEN f ELSE token[k].family
      /\ \A s \in Requests \ {r} : req'[s] = req[s]
      /\ req'[r].pc = "store" /\ req'[r].next = j
  BY <1>1 DEF SessionInv, TypeOK
<1>3. familyPhase[f] = "unused"
  BY <1>0, <1>1 DEF Lines
<1>4. familyPhase'[f] = "minting" /\ familyHolder'[f] = j
  <2>1. (Minting(r) /\ FamilyOf(r) = f)'
    BY <1>2 DEF Minting, FamilyOf
  <2> QED BY <1>0, <1>2, <2>1 DEF Lines
<1>5. ASSUME NEW g \in Families, g # f
      PROVE  familyPhase'[g] = familyPhase[g] /\ familyHolder'[g] = familyHolder[g]
  <2>1. \A k \in Jtis : \/ token'[k].family = token[k].family /\ (Live(k)' <=> Live(k))
                        \/ token'[k].family # g /\ token[k].family # g
    BY <1>1, <1>2, <1>5, NullsAreNoValues DEF Signed, Live
  <2>2. ~ (Minting(r) /\ FamilyOf(r) = g) /\ ~ (Minting(r) /\ FamilyOf(r) = g)'
    BY <1>2, <1>5 DEF Minting, FamilyOf, Idle
  <2>3. ASSUME NEW s \in Requests, s # r
        PROVE  /\ (Minting(s) /\ FamilyOf(s) = g) <=> (Minting(s) /\ FamilyOf(s) = g)'
               /\ req'[s] = req[s]
    <3>1. Minting(s) => FamilyOf(s)' = FamilyOf(s)
      BY <1>1, <1>2, <2>3 DEF Minting, FamilyOf, SessionInv, LocalsWellFormed
    <3> QED BY <1>2, <2>3, <3>1 DEF Minting
  <2>4. Untouched(g)
    BY <2>1, <2>2, <2>3 DEF Untouched
  <2> QED BY <2>4, UntouchedFamily
<1>6. {k \in Jtis : Signed(k)}' = {k \in Jtis : Signed(k)} \cup {j}
  BY <1>2, NullsAreNoValues DEF Signed
<1>7. /\ familyPhase' = [familyPhase EXCEPT ![f] = "minting"]
      /\ familyHolder' = [familyHolder EXCEPT ![f] = j]
  <2>1. \A g \in Families : /\ familyPhase'[g] = IF g = f THEN "minting" ELSE familyPhase[g]
                            /\ familyHolder'[g] = IF g = f THEN j ELSE familyHolder[g]
    BY <1>4, <1>5
  <2> QED BY <1>0, <2>1 DEF Lines
<1> QED BY <1>1, <1>3, <1>6, <1>7 DEF Promise!Open

\* Storing the session hands the family over to the token signed for it.
LEMMA StoreImplements ==
  ASSUME SessionInv, SessionInv', NEW r \in Requests, NEW d \in BOOLEAN, Store(r, d)
  PROVE  \E f \in Families : Promise!HandOver(f)
<1>0. Lines /\ Lines'
  BY LinesHold, LinesHoldNext
<1>1. PICK j \in Jtis : j = req[r].next
  BY DEF Store, SessionInv, LocalsWellFormed
<1>2. PICK f \in Families : f = token[j].family
  BY <1>1, NullsAreNoValues DEF Store, SessionInv, LocalsWellFormed, TypeOK, Token, Signed
<1>3. /\ req[r].pc = "store" /\ token' = token
      /\ row' = [row EXCEPT ![j] = "active"] /\ req' = [req EXCEPT ![r] = Idle]
  BY <1>1 DEF Store
<1>4. /\ \A k \in Jtis : Live(k)' <=> (k = j \/ Live(k))
      /\ \A s \in Requests \ {r} : req'[s] = req[s]
      /\ ~ Minting(r)'
  BY <1>3 DEF SessionInv, TypeOK, Live, Minting, Idle
<1>5. familyPhase[f] = "minting" /\ familyHolder[f] = j
  BY <1>0, <1>1, <1>2, <1>3 DEF Lines, Minting, FamilyOf
<1>6. familyPhase'[f] = "live" /\ familyHolder'[f] = j
  BY <1>0, <1>2, <1>3, <1>4 DEF Lines
<1>7. ASSUME NEW g \in Families, g # f
      PROVE  familyPhase'[g] = familyPhase[g] /\ familyHolder'[g] = familyHolder[g]
  <2>1. \A k \in Jtis : \/ token'[k].family = token[k].family /\ (Live(k)' <=> Live(k))
                        \/ token'[k].family # g /\ token[k].family # g
    BY <1>2, <1>3, <1>4, <1>7
  <2>2. ~ (Minting(r) /\ FamilyOf(r) = g) /\ ~ (Minting(r) /\ FamilyOf(r) = g)'
    BY <1>1, <1>2, <1>3, <1>4, <1>7 DEF FamilyOf
  <2>3. \A s \in Requests \ {r} :
           /\ (Minting(s) /\ FamilyOf(s) = g) <=> (Minting(s) /\ FamilyOf(s) = g)'
           /\ req'[s] = req[s]
    BY <1>3, <1>4 DEF Minting, FamilyOf
  <2>4. Untouched(g)
    BY <2>1, <2>2, <2>3 DEF Untouched
  <2> QED BY <2>4, UntouchedFamily
<1>8. /\ familyPhase' = [familyPhase EXCEPT ![f] = "live"]
      /\ familyHolder' = familyHolder
  <2>1. \A g \in Families : /\ familyPhase'[g] = IF g = f THEN "live" ELSE familyPhase[g]
                            /\ familyHolder'[g] = familyHolder[g]
    BY <1>5, <1>6, <1>7
  <2> QED BY <1>0, <2>1 DEF Lines
<1>9. {k \in Jtis : Signed(k)}' = {k \in Jtis : Signed(k)}
  BY <1>3 DEF Signed
<1>10. Promise!HandOver(f)
  BY <1>5, <1>8, <1>9, NullsAreNoValues DEF Promise!HandOver
<1> QED BY <1>10

\* Winning a rotation takes the session from its holder.
LEMMA TakeImplements ==
  ASSUME SessionInv, SessionInv', NEW r \in Requests, RefreshRevoke(r), Live(req[r].jti)
  PROVE  \E f \in Families : Promise!Exchange(f)
<1>0. Lines /\ Lines'
  BY LinesHold, LinesHoldNext
<1>1. PICK j \in Jtis : j = req[r].jti /\ Signed(j)
  BY DEF RefreshRevoke, SessionInv, LocalsWellFormed
<1>2. PICK f \in Families : f = token[j].family
  BY <1>1, NullsAreNoValues DEF SessionInv, TypeOK, Token, Signed
<1>3. /\ req[r].pc = "revoke" /\ token' = token /\ Live(j)
      /\ row' = [row EXCEPT ![j] = "rotated"] /\ req' = [req EXCEPT ![r].pc = "user"]
  BY <1>1 DEF RefreshRevoke, RevokeByJti, Live
<1>4. /\ \A k \in Jtis : Live(k)' <=> (k # j /\ Live(k))
      /\ \A s \in Requests \ {r} : req'[s] = req[s]
      /\ req'[r].pc = "user" /\ req'[r].jti = j
  BY <1>1, <1>3 DEF SessionInv, TypeOK, Request, Live
<1>5. familyPhase[f] = "live" /\ familyHolder[f] = j
  BY <1>0, <1>2, <1>3 DEF Lines
<1>6. familyPhase'[f] = "minting" /\ familyHolder'[f] = NoJti
  BY <1>0, <1>2, <1>3, <1>4 DEF Lines, Minting, FamilyOf
<1>7. ASSUME NEW g \in Families, g # f
      PROVE  familyPhase'[g] = familyPhase[g] /\ familyHolder'[g] = familyHolder[g]
  <2>1. \A k \in Jtis : \/ token'[k].family = token[k].family /\ (Live(k)' <=> Live(k))
                        \/ token'[k].family # g /\ token[k].family # g
    BY <1>2, <1>3, <1>4, <1>7
  <2>2. ~ (Minting(r) /\ FamilyOf(r) = g) /\ ~ (Minting(r) /\ FamilyOf(r) = g)'
    BY <1>2, <1>3, <1>4, <1>7 DEF Minting, FamilyOf
  <2>3. \A s \in Requests \ {r} :
           /\ (Minting(s) /\ FamilyOf(s) = g) <=> (Minting(s) /\ FamilyOf(s) = g)'
           /\ req'[s] = req[s]
    BY <1>3, <1>4 DEF Minting, FamilyOf
  <2>4. Untouched(g)
    BY <2>1, <2>2, <2>3 DEF Untouched
  <2> QED BY <2>4, UntouchedFamily
<1>8. /\ familyPhase' = [familyPhase EXCEPT ![f] = "minting"]
      /\ familyHolder' = [familyHolder EXCEPT ![f] = NoJti]
  <2>1. \A g \in Families : /\ familyPhase'[g] = IF g = f THEN "minting" ELSE familyPhase[g]
                            /\ familyHolder'[g] = IF g = f THEN NoJti ELSE familyHolder[g]
    BY <1>6, <1>7
  <2> QED BY <1>0, <2>1 DEF Lines
<1>9. {k \in Jtis : Signed(k)}' = {k \in Jtis : Signed(k)}
  BY <1>3 DEF Signed
<1>10. Promise!Exchange(f)
  BY <1>5, <1>8, <1>9 DEF Promise!Exchange
<1> QED BY <1>10

\* The winner of the rotation draws the successor.
LEMMA DrawImplements ==
  ASSUME SessionInv, SessionInv', NEW r \in Requests, NEW k \in Jtis, RefreshUser(r, k)
  PROVE  \E f \in Families : Promise!Draw(f, k)
<1>0. Lines /\ Lines'
  BY LinesHold, LinesHoldNext
<1>1. PICK j \in Jtis : j = req[r].jti /\ Signed(j)
  BY DEF RefreshUser, SessionInv, LocalsWellFormed
<1>2. PICK f \in Families : f = token[j].family
  BY <1>1, NullsAreNoValues DEF SessionInv, TypeOK, Token, Signed
<1>3. /\ req[r].pc = "user" /\ ~ Signed(k) /\ row' = row
      /\ token' = [token EXCEPT ![k] = [user |-> token[j].user, family |-> f,
                                        expires |-> now + RefreshTTL, parent |-> j]]
      /\ req' = [req EXCEPT ![r].pc = "store", ![r].next = k]
  BY <1>1, <1>2 DEF RefreshUser, SignTokenPair
<1>4. /\ \A i \in Jtis : token'[i].family = IF i = k THEN f ELSE token[i].family
      /\ \A s \in Requests \ {r} : req'[s] = req[s]
      /\ req'[r].pc = "store" /\ req'[r].next = k
  BY <1>3 DEF SessionInv, TypeOK, Request
<1>5. familyPhase[f] = "minting" /\ familyHolder[f] = NoJti
  BY <1>0, <1>1, <1>2, <1>3 DEF Lines, Minting, FamilyOf
<1>6. familyPhase'[f] = "minting" /\ familyHolder'[f] = k
  <2>1. (Minting(r) /\ FamilyOf(r) = f)'
    BY <1>4 DEF Minting, FamilyOf
  <2> QED BY <1>0, <1>4, <2>1 DEF Lines
<1>7. ASSUME NEW g \in Families, g # f
      PROVE  familyPhase'[g] = familyPhase[g] /\ familyHolder'[g] = familyHolder[g]
  <2>1. \A i \in Jtis : \/ token'[i].family = token[i].family /\ (Live(i)' <=> Live(i))
                        \/ token'[i].family # g /\ token[i].family # g
    BY <1>3, <1>4, <1>7, NullsAreNoValues DEF Signed, Live
  <2>2. ~ (Minting(r) /\ FamilyOf(r) = g) /\ ~ (Minting(r) /\ FamilyOf(r) = g)'
    BY <1>1, <1>2, <1>3, <1>4, <1>7 DEF Minting, FamilyOf
  <2>3. ASSUME NEW s \in Requests, s # r
        PROVE  /\ (Minting(s) /\ FamilyOf(s) = g) <=> (Minting(s) /\ FamilyOf(s) = g)'
               /\ req'[s] = req[s]
    <3>1. Minting(s) => FamilyOf(s)' = FamilyOf(s)
      <4>1. CASE req[s].pc = "user"
        <5>1. req[s].jti \in Jtis /\ req[s].jti # k
          BY <1>3, <4>1 DEF SessionInv, LocalsWellFormed
        <5> QED BY <1>4, <2>3, <4>1, <5>1 DEF FamilyOf
      <4>2. CASE req[s].pc = "store"
        <5>1. req[s].next \in Jtis /\ req[s].next # k
          BY <1>3, <4>2 DEF SessionInv, LocalsWellFormed
        <5> QED BY <1>4, <2>3, <4>2, <5>1 DEF FamilyOf
      <4> QED BY <4>1, <4>2 DEF Minting
    <3> QED BY <1>4, <2>3, <3>1 DEF Minting
  <2>4. Untouched(g)
    BY <2>1, <2>2, <2>3 DEF Untouched
  <2> QED BY <2>4, UntouchedFamily
<1>8. /\ familyPhase' = familyPhase
      /\ familyHolder' = [familyHolder EXCEPT ![f] = k]
  <2>1. \A g \in Families : /\ familyPhase'[g] = familyPhase[g]
                            /\ familyHolder'[g] = IF g = f THEN k ELSE familyHolder[g]
    BY <1>5, <1>6, <1>7
  <2> QED BY <1>0, <2>1 DEF Lines
<1>9. {i \in Jtis : Signed(i)}' = {i \in Jtis : Signed(i)} \cup {k}
  BY <1>4, NullsAreNoValues DEF Signed
<1>10. Promise!Draw(f, k)
  BY <1>3, <1>5, <1>8, <1>9 DEF Promise!Draw
<1> QED BY <1>10

-----------------------------------------------------------------------------

\* Whatever the interleaving of requests, crashes, revocations and purges, every
\* step of the sessions is a step of the families' lines or none.
THEOREM ImplementsFamilies == Spec => ImplementsSessionFamilies
<1> DEFINE Step == [Promise!AbstractNext]_(Promise!abstractVars)
<1>1. Init => Promise!AbstractInit
  <2> SUFFICES ASSUME Init PROVE Promise!AbstractInit
    OBVIOUS
  <2>1. SessionInv /\ Lines
    BY InitSessionInv, LinesHold
  <2>2. \A f \in Families : FreshFamily(f)
    BY NullsAreNoValues DEF Init, FreshFamily, Unsigned
  <2>3. {j \in Jtis : Signed(j)} = {}
    BY DEF Init, Signed, Unsigned
  <2>4. /\ familyPhase = [f \in Families |-> "unused"]
        /\ familyHolder = [f \in Families |-> NoJti]
    BY <2>1, <2>2 DEF Lines
  <2> QED BY <2>3, <2>4 DEF Promise!AbstractInit
<1>2. SessionInv /\ SessionInv' /\ [Next]_vars => Step
  <2> SUFFICES ASSUME SessionInv, SessionInv', [Next]_vars PROVE Step
    OBVIOUS
  <2>1. ASSUME NEW r \in Requests, OpenAny(r) PROVE Step
    <3>1. PICK u \in Users, j \in Jtis, f \in Families :
             req[r] = Idle /\ OpenSession(r, u, j, f)
      BY <2>1 DEF OpenAny, Login, Google, Register
    <3> QED BY <3>1, OpenImplements DEF Promise!AbstractNext
  <2>2. ASSUME NEW r \in Requests, NEW d \in BOOLEAN, Store(r, d) PROVE Step
    BY <2>2, StoreImplements DEF Promise!AbstractNext
  <2>3. ASSUME NEW r \in Requests, NEW k \in Jtis, RefreshUser(r, k) PROVE Step
    BY <2>3, DrawImplements DEF Promise!AbstractNext
  <2>4. ASSUME NEW r \in Requests, RefreshRevoke(r) PROVE Step
    <3>1. CASE Live(req[r].jti)
      BY <2>4, <3>1, TakeImplements DEF Promise!AbstractNext
    <3>2. CASE ~ Live(req[r].jti)
      <4>1. token' = token /\ \A j \in Jtis : Live(j)' => Live(j)
        BY <2>4 DEF RefreshRevoke, RevokeByJti, Live, SessionInv, TypeOK
      <4>2. \A s \in Requests : Minting(s)' => req'[s] = req[s]
        BY <2>4, <3>2 DEF RefreshRevoke, Minting, SessionInv, TypeOK, Request
      <4> QED BY <4>1, <4>2, EndingImplements
    <3> QED BY <3>1, <3>2
  <2>5. ASSUME NEW r \in Requests,
               \/ \E j \in Jtis : RefreshFind(r, j)
               \/ RefreshReuse(r) \/ RefreshUserInactive(r) \/ RefreshInactive(r)
               \/ Crash(r)
        PROVE  Step
    <3>1. token' = token /\ \A j \in Jtis : Live(j)' => Live(j)
      BY <2>5 DEF RefreshFind, RefreshReuse, RefreshUserInactive, RefreshInactive, Crash,
                  RevokeFamily, Live
    <3>2. \A s \in Requests : Minting(s)' => req'[s] = req[s]
      BY <2>5 DEF RefreshFind, RefreshReuse, RefreshUserInactive, RefreshInactive, Crash,
                  Minting, Idle, SessionInv, TypeOK, Request
    <3> QED BY <3>1, <3>2, EndingImplements
  <2>6. ASSUME \/ \E j \in Jtis : Logout(j)
               \/ \E u \in Users : LogoutAll(u)
               \/ PurgeExpired
               \/ token' = token /\ row' = row /\ req' = req
        PROVE  Step
    <3>1. token' = token /\ req' = req /\ \A j \in Jtis : Live(j)' => Live(j)
      BY <2>6 DEF Logout, LogoutAll, PurgeExpired, RevokeByJti, RevokeAllForUser, Live,
                  SessionInv, TypeOK
    <3> QED BY <3>1, EndingImplements
  <2>7. ASSUME NEW r \in Requests, ServeRequest(r) PROVE Step
    BY <2>7, <2>1, <2>2, <2>3, <2>4, <2>5 DEF ServeRequest, RefreshAny
  <2>8. \/ \E r \in Requests : ServeRequest(r)
        \/ \E j \in Jtis : Logout(j)
        \/ \E u \in Users : LogoutAll(u)
        \/ PurgeExpired
        \/ token' = token /\ row' = row /\ req' = req
    BY DEF Next, StoreUser, SetStatus, DestroyUser, Tick, vars
  <2> HIDE DEF Step
  <2> QED BY <2>6, <2>7, <2>8
<1>3. IInv => SessionInv
  BY DEF IInv
<1> QED BY <1>1, <1>2, <1>3, InductiveInvariant, PTL
        DEF Spec, ImplementsSessionFamilies, Promise!AbstractSpec

=============================================================================
