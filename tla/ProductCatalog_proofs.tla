--------------------------- MODULE ProductCatalog_proofs ---------------------------
(***************************************************************************)
(* Proofs about ProductCatalog, for every number of users, of products and *)
(* of calls served at the same time.                                       *)
(*                                                                         *)
(* A call checks its role once, at the guards, and writes some statements  *)
(* later.  Fits says what its locals keep true meanwhile, whatever the     *)
(* other calls do to users and products.                                   *)
(***************************************************************************)
EXTENDS ProductCatalog, TLAPS

Calls == [pc : {"idle", "sign", "writeUser", "answer", "select", "ensureSku", "insert",
                "find", "updateSku", "update", "delete"},
          user : Users \cup {NoUser}, claim : UserRole]

\* A call n with the argument a may go on.
Fits(n, a) ==
    /\ n \in Calls /\ a \in Argument
    /\ n.pc = "writeUser" => n.claim = "admin"
    /\ n.pc \in {"ensureSku", "insert", "find", "updateSku", "update", "delete"} =>
         n.claim \in {"admin", "operador"}
    /\ n.pc \in {"ensureSku", "insert"} => a.body \in Row
    /\ n.pc \in {"find", "updateSku", "update", "delete"} => a.id \in Ids
    /\ \A k \in Columns : a.body[k] # Absent => k \in a.named

AccessOK ==
    /\ role \in [Users -> UserRole] /\ active \in SUBSET Users
    /\ access \in [Users -> [GivenRoles -> 0..AccessTTL]]

TableOK ==
    /\ product \in [Ids -> Row \cup {NoRow}] /\ issued \in 0..MaxId
    /\ IdsWereIssued /\ OneProductPerSku

\* The invariant call by call.
LEMMA ByCall ==
  ASSUME IInv
  PROVE  /\ AccessOK /\ TableOK
         /\ call \in [Clients -> Calls] /\ arg \in [Clients -> Argument]
         /\ \A c \in Clients : Fits(call[c], arg[c])
BY DEF IInv, TypeOK, ClaimFitsCall, ArgumentFitsCall, BodyIsNamed, AccessOK, TableOK, Calls, Fits

\* A step that moves one call on keeps the invariant if it keeps the tables' parts.
LEMMA CallKeeps ==
  ASSUME IInv, NEW c \in Clients, NEW n, NEW a, Fits(n, a),
         call' = [call EXCEPT ![c] = n], arg' = [arg EXCEPT ![c] = a], AccessOK', TableOK'
  PROVE  IInv'
<1>1. /\ call' \in [Clients -> Calls] /\ arg' \in [Clients -> Argument]
      /\ \A d \in Clients : Fits(call'[d], arg'[d])
  <2>1. n \in Calls /\ a \in Argument
    BY DEF Fits
  <2>2. \A d \in Clients : /\ call'[d] = IF d = c THEN n ELSE call[d]
                           /\ arg'[d] = IF d = c THEN a ELSE arg[d]
    BY ByCall
  <2> QED BY <2>1, <2>2, ByCall
<1>2. TypeOK'
  BY <1>1 DEF TypeOK, Calls, AccessOK, TableOK
<1>3. ClaimFitsCall' /\ ArgumentFitsCall'
  BY <1>1 DEF ClaimFitsCall, ArgumentFitsCall, Fits
<1>4. BodyIsNamed'
  BY <1>1 DEF BodyIsNamed, Fits
<1> QED BY <1>2, <1>3, <1>4 DEF IInv, TableOK

\* A step that leaves the calls and the products alone.
LEMMA CallsStay ==
  ASSUME IInv, call' = call, productVars' = productVars, AccessOK'
  PROVE  IInv'
<1>1. TypeOK'
  BY DEF IInv, TypeOK, productVars, AccessOK
<1>2. ClaimFitsCall' /\ ArgumentFitsCall' /\ BodyIsNamed'
  BY DEF IInv, ClaimFitsCall, ArgumentFitsCall, BodyIsNamed, productVars
<1>3. IdsWereIssued' /\ OneProductPerSku'
  BY DEF IInv, IdsWereIssued, OneProductPerSku, Stored, productVars
<1> QED BY <1>1, <1>2, <1>3 DEF IInv

LEMMA TableStays ==
  ASSUME IInv, product' = product, issued' = issued
  PROVE  TableOK'
BY ByCall DEF TableOK, IdsWereIssued, OneProductPerSku, Stored

\* Idle fits.
LEMMA QuietFits == Fits(Quiet, NoArgument)
<1>1. Quiet \in Calls
  BY DEF Quiet, Calls, UserRole
<1>2. NoArgument \in Argument /\ \A k \in Columns : NoArgument.body[k] = Absent
  BY DEF NoArgument, NoBody, Argument, PatchBody, Columns
<1> QED BY <1>1, <1>2 DEF Fits, Quiet

\* A call that ends fits with whatever argument it leaves behind.
LEMMA AnsweredFits ==
  ASSUME NEW n, NEW a, Fits(n, a)
  PROVE  Fits(Quiet, a)
BY QuietFits DEF Fits, Quiet

-----------------------------------------------------------------------------
\* What the guards let through.

\* @Roles on the class of users, and on the writing handlers of products.
LEMMA WritersAdmitted ==
  ASSUME NEW claim \in GivenRoles
  PROVE  /\ \A e \in UserEndpoints : Admits(e, claim) => claim = "admin"
         /\ \A h \in {"store", "update", "destroy"} :
              Admits(<<"products", h>>, claim) => claim \in {"admin", "operador"}
<1>1. \A h \in {"store", "update", "destroy"} :
        /\ Handler(<<"users", h>>) = Bare
        /\ Class(<<"users", h>>) = OnlyFor({"admin"})
  BY DEF Handler, Class, Application, UserController
<1>2. \A h \in {"store", "update", "destroy"} :
        /\ Handler(<<"products", h>>) = Editors
        /\ Class(<<"products", h>>) = Bare
  BY DEF Handler, Class, Application, ProductController
<1>3. ASSUME NEW h \in {"store", "update", "destroy"}, Admits(<<"users", h>>, claim)
      PROVE  claim = "admin"
  BY <1>1, <1>3 DEF Admits, IsPublic, AllowedRoles, Bare, OnlyFor
<1>4. ASSUME NEW h \in {"store", "update", "destroy"}, Admits(<<"products", h>>, claim)
      PROVE  claim \in {"admin", "operador"}
  BY <1>2, <1>4 DEF Admits, IsPublic, AllowedRoles, Bare, OnlyFor, Editors
<1> QED BY <1>3, <1>4 DEF UserEndpoints

-----------------------------------------------------------------------------
\* The invariant.

LEMMA InitIInv == Init => IInv
<1> SUFFICES ASSUME Init PROVE IInv
  OBVIOUS
<1>1. /\ call \in [Clients -> Calls] /\ arg \in [Clients -> Argument]
      /\ \A c \in Clients : Fits(call[c], arg[c])
  BY QuietFits DEF Init, AccessInit, Fits
<1>2. AccessOK
  BY AccessTTLPositive DEF Init, AccessInit, AccessOK, UserRole
<1>3. TypeOK
  BY <1>1, <1>2, CatalogConstants DEF TypeOK, AccessOK, Calls, Init, Ids
<1>4. ClaimFitsCall /\ ArgumentFitsCall
  BY <1>1 DEF ClaimFitsCall, ArgumentFitsCall, Fits
<1>5. BodyIsNamed
  BY <1>1 DEF BodyIsNamed, Fits
<1>6. IdsWereIssued /\ OneProductPerSku
  BY DEF Init, IdsWereIssued, OneProductPerSku, Stored
<1> QED BY <1>3, <1>4, <1>5, <1>6 DEF IInv

\* Signing puts a full TTL on one claim of one user.
LEMMA SignKeeps ==
  ASSUME IInv, NEW u, NEW claim, Sign(u, claim), UNCHANGED userVars
  PROVE  AccessOK'
<1>1. AccessTTL \in 0..AccessTTL
  BY AccessTTLPositive
<1> QED BY <1>1, ByCall DEF Sign, AccessOK, userVars

\* A call that ends keeps the invariant if what it wrote does.
LEMMA AnswerKeeps ==
  ASSUME IInv, NEW c \in Clients, Answer(c), arg' = [arg EXCEPT ![c] = NoArgument] \/ arg' = arg,
         AccessOK', TableOK'
  PROVE  IInv'
<1>1. call' = [call EXCEPT ![c] = Quiet]
  BY DEF Answer
<1>2. CASE arg' = [arg EXCEPT ![c] = NoArgument]
  BY <1>1, <1>2, QuietFits, CallKeeps
<1>3. CASE arg' = arg
  <2>1. arg' = [arg EXCEPT ![c] = arg[c]]
    BY <1>3, ByCall
  <2>2. Fits(Quiet, arg[c])
    BY ByCall, AnsweredFits
  <2> QED BY <1>1, <2>1, <2>2, CallKeeps
<1> QED BY <1>2, <1>3

\* With a password, with Google or with a refresh token: the role is the row's.
LEMMA SignInReads ==
  ASSUME NEW c, NEW u, SignIn(c, u)
  PROVE  ReadUser(c, u, role[u])
BY DEF SignIn, LoginFind, GoogleFind, RefreshFind

\* Signing in, time, and the writes of users.
LEMMA AccessKeeps ==
  ASSUME IInv, UNCHANGED productVars,
         \/ \E c \in Clients : SignPair(c) \/ WriteUser(c) \/ AnswerOther(c)
         \/ \E c \in Clients, u \in Users : SignIn(c, u)
         \/ Tick
  PROVE  IInv'
<1>1. product' = product /\ issued' = issued /\ arg' = arg
  BY DEF productVars
<1>2. TableOK'
  BY <1>1, TableStays
<1>3. ASSUME NEW c \in Clients, SignPair(c)
      PROVE  IInv'
  <2>1. AccessOK'
    BY <1>3, SignKeeps DEF SignPair
  <2> QED BY <1>1, <1>2, <1>3, <2>1, AnswerKeeps DEF SignPair
<1>4. ASSUME NEW c \in Clients, WriteUser(c)
      PROVE  IInv'
  <2>1. AccessOK'
    BY <1>4, ByCall DEF WriteUser, AccessOK, userVars
  <2> QED BY <1>1, <1>2, <1>4, <2>1, AnswerKeeps DEF WriteUser
<1>5. ASSUME NEW c \in Clients, AnswerOther(c)
      PROVE  IInv'
  <2>1. AccessOK'
    BY <1>5, ByCall DEF AnswerOther, AccessOK, userVars
  <2> QED BY <1>1, <1>2, <1>5, <2>1, AnswerKeeps DEF AnswerOther
<1>6. ASSUME NEW c \in Clients, NEW u \in Users, SignIn(c, u)
      PROVE  IInv'
  <2> DEFINE n == [pc |-> "sign", user |-> u, claim |-> role[u]]
  <2>1. ReadUser(c, u, role[u])
    BY <1>6, SignInReads
  <2>2. AccessOK'
    BY <2>1, ByCall DEF ReadUser, AccessOK, userVars
  <2>3. Fits(n, arg[c])
    <3>1. n \in Calls
      BY ByCall DEF AccessOK, Calls
    <3>2. Fits(call[c], arg[c])
      BY ByCall
    <3> QED BY <3>1, <3>2 DEF Fits
  <2>4. call' = [call EXCEPT ![c] = n] /\ arg' = [arg EXCEPT ![c] = arg[c]]
    BY <1>1, <2>1, ByCall DEF ReadUser
  <2> HIDE DEF n
  <2> QED BY <1>2, <2>2, <2>3, <2>4, CallKeeps
<1>7. CASE Tick
  <2>1. \A t \in 0..AccessTTL : (IF t = 0 THEN 0 ELSE t - 1) \in 0..AccessTTL
    BY AccessTTLPositive
  <2>2. AccessOK'
    BY <1>7, <2>1, ByCall DEF Tick, AccessOK, userVars
  <2> QED BY <1>7, <2>2, CallsStay DEF Tick
<1> QED BY <1>3, <1>4, <1>5, <1>6, <1>7

\* The guards let a call in, with its argument.
LEMMA AdmitKeeps ==
  ASSUME IInv, NEW c \in Clients, NEW u \in Users, NEW claim \in GivenRoles, AdmitAny(c, u, claim)
  PROVE  IInv'
<1>1. ASSUME NEW e, NEW first, Admit(c, e, u, claim, first), NEW a, arg' = [arg EXCEPT ![c] = a],
             product' = product, issued' = issued,
             Fits([pc |-> first, user |-> u, claim |-> claim], a)
      PROVE  IInv'
  <2>1. AccessOK'
    BY <1>1, ByCall DEF Admit, AccessOK, userVars
  <2>2. TableOK'
    BY <1>1, TableStays
  <2> QED BY <1>1, <2>1, <2>2, CallKeeps DEF Admit
<1>2. \A first \in {"writeUser", "answer", "select", "ensureSku", "find", "delete"} :
        [pc |-> first, user |-> u, claim |-> claim] \in Calls
  BY DEF Calls, UserRole
<1>3. arg' = arg => arg' = [arg EXCEPT ![c] = arg[c]]
  BY ByCall
<1>4. arg[c] \in Argument /\ \A k \in Columns : arg[c].body[k] # Absent => k \in arg[c].named
  BY ByCall DEF Fits
<1>5. \A i \in Ids \cup {0}, b \in PatchBody :
        /\ Asking(i, b) \in Argument
        /\ Asking(i, b).id = i /\ Asking(i, b).body = b
        /\ \A k \in Columns : b[k] # Absent => k \in Asking(i, b).named
  BY DEF Asking, Argument
<1>6. Row \subseteq PatchBody /\ Patches \subseteq PatchBody /\ NoBody \in PatchBody
  BY CatalogConstants DEF Row, PatchBody, NoBody
<1>7. CASE AdmitUserWrite(c, u, claim) /\ UNCHANGED productVars
  <2>1. PICK e \in UserEndpoints : Admit(c, e, u, claim, "writeUser")
    BY <1>7 DEF AdmitUserWrite
  <2>2. claim = "admin"
    BY <2>1, WritersAdmitted DEF Admit
  <2>3. Fits([pc |-> "writeUser", user |-> u, claim |-> claim], arg[c])
    BY <1>2, <1>4, <2>2 DEF Fits
  <2> QED BY <1>1, <1>3, <1>7, <2>1, <2>3 DEF productVars
<1>8. CASE AdmitOther(c, u, claim) /\ UNCHANGED productVars
  <2>1. PICK e \in OtherEndpoints : Admit(c, e, u, claim, "answer")
    BY <1>8 DEF AdmitOther
  <2>2. Fits([pc |-> "answer", user |-> u, claim |-> claim], arg[c])
    BY <1>2, <1>4 DEF Fits
  <2> QED BY <1>1, <1>3, <1>8, <2>1, <2>2 DEF productVars
<1>9. ASSUME NEW b \in Row, Begin(c, u, claim, "store", "ensureSku", Asking(0, b))
      PROVE  IInv'
  <2>1. claim \in {"admin", "operador"}
    BY <1>9, WritersAdmitted DEF Begin, Admit
  <2>2. Fits([pc |-> "ensureSku", user |-> u, claim |-> claim], Asking(0, b))
    BY <1>2, <1>5, <1>6, <2>1 DEF Fits
  <2> QED BY <1>1, <1>9, <2>2 DEF Begin
<1>10. ASSUME NEW i \in Ids, NEW b \in Patches, Begin(c, u, claim, "update", "find", Asking(i, b))
       PROVE  IInv'
  <2>1. claim \in {"admin", "operador"}
    BY <1>10, WritersAdmitted DEF Begin, Admit
  <2>2. Fits([pc |-> "find", user |-> u, claim |-> claim], Asking(i, b))
    BY <1>2, <1>5, <1>6, <2>1 DEF Fits
  <2> QED BY <1>1, <1>10, <2>2 DEF Begin
<1>11. ASSUME NEW i \in Ids, Begin(c, u, claim, "destroy", "delete", Asking(i, NoBody))
       PROVE  IInv'
  <2>1. claim \in {"admin", "operador"}
    BY <1>11, WritersAdmitted DEF Begin, Admit
  <2>2. Fits([pc |-> "delete", user |-> u, claim |-> claim], Asking(i, NoBody))
    BY <1>2, <1>5, <1>6, <2>1 DEF Fits
  <2> QED BY <1>1, <1>11, <2>2 DEF Begin
<1>12. ASSUME NEW i \in Ids, NEW h, Begin(c, u, claim, h, "select", Asking(i, NoBody))
       PROVE  IInv'
  <2>1. Fits([pc |-> "select", user |-> u, claim |-> claim], Asking(i, NoBody))
    BY <1>2, <1>5, <1>6 DEF Fits
  <2> QED BY <1>1, <1>12, <2>1 DEF Begin
<1> QED BY <1>7, <1>8, <1>9, <1>10, <1>11, <1>12 DEF AdmitAny, BeginAny

-----------------------------------------------------------------------------
\* The statements of the product service.

\* A statement that only moves the call on, or refuses it.
LEMMA MoveKeeps ==
  ASSUME IInv, NEW c \in Clients, NEW pc, arg' = arg, Go(c, pc), Fits([call[c] EXCEPT !.pc = pc], arg[c])
  PROVE  IInv'
<1>1. AccessOK'
  BY ByCall DEF Go, AccessOK, userVars
<1>2. TableOK'
  BY TableStays DEF Go
<1>3. arg' = [arg EXCEPT ![c] = arg[c]]
  BY ByCall
<1>4. call' = [call EXCEPT ![c] = [call[c] EXCEPT !.pc = pc]]
  BY DEF Go
<1> QED BY <1>1, <1>2, <1>3, <1>4, CallKeeps

LEMMA RefuseKeeps ==
  ASSUME IInv, NEW c \in Clients, Refuse(c)
  PROVE  IInv'
<1>1. AccessOK'
  BY ByCall DEF Refuse, AccessOK, userVars
<1> QED BY <1>1, TableStays, AnswerKeeps DEF Refuse

\* A statement that writes the table and ends the call.
LEMMA FinishKeeps ==
  ASSUME IInv, NEW c \in Clients, Finish(c), TableOK'
  PROVE  IInv'
<1>1. AccessOK'
  BY ByCall DEF Finish, AccessOK, userVars
<1> QED BY <1>1, AnswerKeeps DEF Finish

\* A call that reaches its next statement with the same locals still fits.
LEMMA NextStatementFits ==
  ASSUME IInv, NEW c \in Clients,
         NEW pc \in {"insert", "update", "updateSku"},
         call[c].pc \in IF pc = "insert" THEN {"ensureSku"} ELSE {"find", "updateSku"}
  PROVE  Fits([call[c] EXCEPT !.pc = pc], arg[c])
<1>1. Fits(call[c], arg[c]) /\ call[c] \in Calls
  BY ByCall
<1>2. [call[c] EXCEPT !.pc = pc] \in Calls
  BY <1>1 DEF Calls
<1> QED BY <1>1, <1>2 DEF Fits, Calls

\* INSERT: whatever happened since the sku was looked up, the index decides.
LEMMA InsertKeeps ==
  ASSUME IInv, NEW c \in Clients, Insert(c)
  PROVE  IInv'
<1> DEFINE b == arg[c].body
<1>1. b \in Row
  BY ByCall DEF Insert, Fits
<1>2. issued \in 0..MaxId /\ MaxId \in Nat
  BY CatalogConstants, ByCall DEF TableOK
<1>3. CASE product' = product
  <2>1. issued' \in 0..MaxId /\ issued <= issued'
    BY <1>2 DEF Insert
  <2>2. TableOK'
    BY <1>2, <1>3, <2>1, ByCall DEF TableOK, IdsWereIssued, OneProductPerSku, Stored, Ids
  <2> QED BY <2>2, FinishKeeps DEF Insert
<1>4. CASE /\ issued # MaxId /\ ~ SkuTaken(b.sku, 0)
           /\ product' = [product EXCEPT ![issued + 1] = b]
  <2>1. issued' = issued + 1 /\ issued' \in Ids /\ issued' \in 0..MaxId
    BY <1>2, <1>4 DEF Insert, Ids
  <2>2. product' \in [Ids -> Row \cup {NoRow}]
    BY <1>1, <1>4, ByCall DEF TableOK
  <2>3. \A i \in Ids : product'[i] = IF i = issued' THEN b ELSE product[i]
    BY <1>4, <2>1, ByCall DEF TableOK
  <2>4. IdsWereIssued'
    BY <1>2, <2>1, <2>3, ByCall DEF TableOK, IdsWereIssued, Stored, Ids
  <2>5. \A k \in Ids : Stored(k) => product[k].sku # b.sku
    BY <1>4 DEF SkuTaken, Ids
  <2>6. OneProductPerSku'
    BY <2>3, <2>5, ByCall DEF TableOK, OneProductPerSku, Stored
  <2>7. TableOK'
    BY <2>1, <2>2, <2>4, <2>6 DEF TableOK
  <2> QED BY <2>7, FinishKeeps DEF Insert
<1> QED BY <1>3, <1>4 DEF Insert

\* UPDATE: the row may have changed, or gone, since it was read.
LEMMA UpdateKeeps ==
  ASSUME IInv, NEW c \in Clients, Update(c)
  PROVE  IInv'
<1> DEFINE i == arg[c].id
           b == arg[c].body
<1>1. i \in Ids /\ b \in PatchBody
  BY ByCall DEF Update, Fits, Argument
<1>2. issued' = issued
  BY DEF Update
<1>3. CASE product' = product
  BY <1>2, <1>3, TableStays, FinishKeeps DEF Update
<1>4. CASE /\ Stored(i) /\ (b.sku = Absent \/ ~ SkuTaken(b.sku, i))
           /\ product' = [product EXCEPT ![i] = Merge(product[i], b)]
  <2> DEFINE row == Merge(product[i], b)
  <2>1. product[i] \in Row
    BY <1>1, <1>4, ByCall DEF TableOK, Stored
  <2>2. row \in Row
    BY <1>1, <2>1 DEF Merge, Row, PatchBody
  <2>3. \A k \in Ids : k # i /\ Stored(k) => product[k].sku # row.sku
    BY <1>1, <1>4, ByCall DEF Merge, SkuTaken, TableOK, OneProductPerSku
  <2> HIDE DEF row
  <2>4. \A k \in Ids : product'[k] = IF k = i THEN row ELSE product[k]
    BY <1>4, ByCall DEF TableOK, row
  <2>5. product' \in [Ids -> Row \cup {NoRow}]
    BY <1>4, <2>2, ByCall DEF TableOK, row
  <2>6. IdsWereIssued'
    BY <1>2, <1>4, <2>4, ByCall DEF TableOK, IdsWereIssued, Stored
  <2>7. OneProductPerSku'
    BY <2>3, <2>4, ByCall DEF TableOK, OneProductPerSku, Stored
  <2>8. TableOK'
    BY <1>2, <2>5, <2>6, <2>7, ByCall DEF TableOK
  <2> QED BY <2>8, FinishKeeps DEF Update
<1> QED BY <1>3, <1>4 DEF Update

\* DELETE.
LEMMA DeleteKeeps ==
  ASSUME IInv, NEW c \in Clients, Delete(c)
  PROVE  IInv'
<1>1. product' \in [Ids -> Row \cup {NoRow}] /\ issued' = issued
  BY ByCall DEF Delete, TableOK
<1>2. \A k \in Ids : product'[k] = product[k] \/ product'[k] = NoRow
  BY ByCall DEF Delete, TableOK
<1>3. IdsWereIssued' /\ OneProductPerSku'
  BY <1>1, <1>2, ByCall DEF TableOK, IdsWereIssued, OneProductPerSku, Stored
<1> QED BY <1>1, <1>3, ByCall, FinishKeeps DEF TableOK, Delete

LEMMA ServeKeeps ==
  ASSUME IInv, NEW c \in Clients, Serve(c)
  PROVE  IInv'
<1>1. CASE StoreEnsureSku(c)
  BY <1>1, RefuseKeeps, MoveKeeps, NextStatementFits DEF StoreEnsureSku
<1>2. CASE UpdateFind(c)
  <2>1. CASE Refuse(c)
    BY <2>1, RefuseKeeps
  <2>2. CASE Go(c, AfterFind(product[arg[c].id], arg[c].body)) /\ arg' = arg
    <3>1. AfterFind(product[arg[c].id], arg[c].body) \in {"update", "updateSku"}
      BY DEF AfterFind
    <3> QED BY <1>2, <2>2, <3>1, MoveKeeps, NextStatementFits DEF UpdateFind
  <2> QED BY <1>2, <2>1, <2>2 DEF UpdateFind
<1>3. CASE UpdateEnsureSku(c)
  BY <1>3, RefuseKeeps, MoveKeeps, NextStatementFits DEF UpdateEnsureSku
<1>4. CASE Select(c)
  BY <1>4, RefuseKeeps DEF Select
<1> QED BY <1>1, <1>2, <1>3, <1>4, InsertKeeps, UpdateKeeps, DeleteKeeps, AccessKeeps DEF Serve

LEMMA Inductive == IInv /\ [Next]_vars => IInv'
<1> SUFFICES ASSUME IInv, [Next]_vars PROVE IInv'
  OBVIOUS
<1>1. CASE \E c \in Clients : Serve(c)
  BY <1>1, ServeKeeps
<1>2. CASE \E c \in Clients, u \in Users, claim \in GivenRoles : AdmitAny(c, u, claim)
  BY <1>2, AdmitKeeps
<1>3. CASE \E c \in Clients, u \in Users : SignIn(c, u) /\ UNCHANGED productVars
  BY <1>3, AccessKeeps
<1>4. CASE TickStep
  BY <1>4, AccessKeeps DEF TickStep
<1>5. CASE UNCHANGED vars
  BY <1>5, ByCall, CallsStay DEF vars, accessVars, userVars, productVars, AccessOK
<1> QED BY <1>1, <1>2, <1>3, <1>4, <1>5 DEF Next

\* The inductive invariant: roles, arguments and the table fit the calls, for
\* any number of concurrent calls.
THEOREM CatalogInvariant == Spec => []IInv
BY InitIInv, Inductive, PTL DEF Spec

\* Two requests that both saw a sku free leave one product with it.
THEOREM OneProduct == Spec => []OneProductPerSku
<1>1. IInv => OneProductPerSku
  BY DEF IInv
<1> QED BY <1>1, CatalogInvariant, PTL

-----------------------------------------------------------------------------
\* The action properties.

\* The steps that change the products, or the users.
LEMMA Writers ==
  ASSUME [Next]_vars
  PROVE  /\ product' # product \/ issued' # issued =>
              \E c \in Clients : Insert(c) \/ Update(c) \/ Delete(c)
         /\ userVars' # userVars => \E c \in Clients : WriteUser(c)
<1> USE DEF productVars, vars, accessVars
<1>1. CASE \E c \in Clients : Serve(c)
  BY <1>1 DEF Serve, SignPair, AnswerOther, WriteUser, Select, StoreEnsureSku, UpdateFind,
    UpdateEnsureSku, Refuse, Go, Insert, Update, Delete, Finish
<1>2. CASE \E c \in Clients, u \in Users, claim \in GivenRoles : AdmitAny(c, u, claim)
  BY <1>2 DEF AdmitAny, AdmitUserWrite, AdmitOther, BeginAny, Begin, Admit
<1>3. CASE \E c \in Clients, u \in Users : SignIn(c, u) /\ UNCHANGED productVars
  BY <1>3, SignInReads DEF ReadUser
<1>4. CASE TickStep
  BY <1>4 DEF TickStep, Tick
<1> QED BY <1>1, <1>2, <1>3, <1>4 DEF Next

\* A column only changes by a PATCH that mentioned it, whatever other calls read
\* and wrote in between.
THEOREM PatchesWriteTheirBody == Spec => PatchWritesItsBody
<1> DEFINE OfBody ==
      \A i \in Ids, k \in Columns :
        Stored(i) /\ product'[i] # NoRow /\ product'[i][k] # product[i][k] =>
          \E c \in Clients : arg[c].id = i /\ k \in arg[c].named /\ arg'[c] = NoArgument
<1>1. IInv /\ [Next]_vars => [OfBody]_vars
  <2> SUFFICES ASSUME IInv, [Next]_vars, NEW i \in Ids, NEW k \in Columns,
                      Stored(i), product'[i] # NoRow, product'[i][k] # product[i][k]
               PROVE  \E c \in Clients :
                        arg[c].id = i /\ k \in arg[c].named /\ arg'[c] = NoArgument
    OBVIOUS
  <2>1. ASSUME NEW c \in Clients, Insert(c) PROVE FALSE
    BY <2>1, CatalogConstants, ByCall DEF Insert, TableOK, IdsWereIssued, Ids
  <2>2. ASSUME NEW c \in Clients, Delete(c) PROVE FALSE
    BY <2>2, ByCall DEF Delete, TableOK
  <2>3. ASSUME NEW c \in Clients, Update(c)
        PROVE  arg[c].id = i /\ k \in arg[c].named /\ arg'[c] = NoArgument
    <3>1. arg'[c] = NoArgument
      BY <2>3, ByCall DEF Update, Finish
    <3>2. arg[c].id = i /\ product'[i] = Merge(product[i], arg[c].body)
      BY <2>3, ByCall DEF Update, TableOK
    <3>3. arg[c].body[k] # Absent
      BY <3>2, ByCall DEF Merge, Columns
    <3>4. k \in arg[c].named
      BY <3>3, ByCall DEF Fits
    <3> QED BY <3>1, <3>2, <3>4
  <2> QED BY <2>1, <2>2, <2>3, Writers
<1> QED BY <1>1, CatalogInvariant, PTL DEF Spec, PatchWritesItsBody

\* Only admins and operadores write products and only admins write users.
THEOREM Authorized == Spec => WritesAreAuthorized
<1> DEFINE Allowed ==
      /\ product' # product =>
           \E c \in Clients : call[c].claim \in {"admin", "operador"} /\ call'[c] = Quiet
      /\ userVars' # userVars => \E c \in Clients : call[c].claim = "admin" /\ call'[c] = Quiet
<1>1. IInv /\ [Next]_vars => [Allowed]_vars
  <2> SUFFICES ASSUME IInv, [Next]_vars PROVE Allowed
    OBVIOUS
  <2>1. ASSUME NEW c \in Clients, Insert(c) \/ Update(c) \/ Delete(c)
        PROVE  call[c].claim \in {"admin", "operador"} /\ call'[c] = Quiet
    BY <2>1, ByCall DEF Insert, Update, Delete, Finish, Answer, Fits
  <2>2. ASSUME NEW c \in Clients, WriteUser(c)
        PROVE  call[c].claim = "admin" /\ call'[c] = Quiet
    BY <2>2, ByCall DEF WriteUser, Answer, Fits
  <2> QED BY <2>1, <2>2, Writers
<1> QED BY <1>1, CatalogInvariant, PTL DEF Spec, WritesAreAuthorized

-----------------------------------------------------------------------------
\* Roles that were taken away.

\* A call stays, ends, goes on, is admitted with a token, or reads a user to sign in.
LEMMA CallMoves ==
  ASSUME IInv, [Next]_vars, NEW c \in Clients
  PROVE  \/ call'[c] \in {call[c], Quiet}
         \/ /\ call'[c].pc # "sign"
            /\ call'[c].user = call[c].user /\ call'[c].claim = call[c].claim
         \/ call'[c].pc # "sign" /\ access[call'[c].user][call'[c].claim] > 0
         \/ call'[c].claim = role[call'[c].user]
<1> DEFINE Moves ==
      \/ call'[c] \in {call[c], Quiet}
      \/ /\ call'[c].pc # "sign"
         /\ call'[c].user = call[c].user /\ call'[c].claim = call[c].claim
      \/ call'[c].pc # "sign" /\ access[call'[c].user][call'[c].claim] > 0
      \/ call'[c].claim = role[call'[c].user]
<1>1. ASSUME NEW d \in Clients, Serve(d)
      PROVE  Moves
  <2>1. \/ call' = [call EXCEPT ![d] = Quiet]
        \/ \E pc \in {"insert", "update", "updateSku"} : call' = [call EXCEPT ![d].pc = pc]
    BY <1>1 DEF Serve, SignPair, WriteUser, AnswerOther, Select, StoreEnsureSku, Insert, UpdateFind,
      UpdateEnsureSku, Update, Delete, Refuse, Finish, Answer, Go, AfterFind
  <2> QED BY <2>1, ByCall DEF Calls
<1>2. ASSUME NEW d \in Clients, NEW u \in Users, NEW claim \in GivenRoles, AdmitAny(d, u, claim)
      PROVE  Moves
  <2>1. \E first \in {"writeUser", "answer", "select", "ensureSku", "find", "delete"} :
          /\ call' = [call EXCEPT ![d] = [pc |-> first, user |-> u, claim |-> claim]]
          /\ access[u][claim] > 0
    BY <1>2 DEF AdmitAny, AdmitUserWrite, AdmitOther, BeginAny, Begin, Admit
  <2> QED BY <2>1, ByCall
<1>3. ASSUME NEW d \in Clients, NEW u \in Users, SignIn(d, u)
      PROVE  Moves
  BY <1>3, SignInReads, ByCall DEF ReadUser
<1>4. TickStep \/ UNCHANGED vars => call' = call
  BY DEF TickStep, Tick, vars, accessVars
<1> QED BY <1>1, <1>2, <1>3, <1>4 DEF Next

\* A token only gets more time to live by a pair that is signed.
LEMMA TokenMoves ==
  ASSUME IInv, [Next]_vars, NEW u \in Users, NEW r \in GivenRoles
  PROVE  access'[u][r] <= access[u][r] \/ Signing(u, r)
<1>1. access \in [Users -> [GivenRoles -> Nat]]
  BY ByCall, AccessTTLPositive DEF AccessOK
<1>2. CASE access' = access
  BY <1>1, <1>2
<1>3. ASSUME NEW c \in Clients, SignPair(c)
      PROVE  access'[u][r] <= access[u][r] \/ Signing(u, r)
  BY <1>1, <1>3 DEF SignPair, Sign, Signing
<1>4. CASE TickStep
  <2>1. access'[u][r] = IF access[u][r] = 0 THEN 0 ELSE access[u][r] - 1
    BY <1>4 DEF TickStep, Tick
  <2> QED BY <1>1, <2>1
<1>5. access' = access \/ (\E c \in Clients : SignPair(c)) \/ TickStep
  <2>1. ASSUME NEW c \in Clients, Serve(c), ~ SignPair(c) PROVE access' = access
    BY <2>1 DEF Serve, WriteUser, AnswerOther, Select, StoreEnsureSku, Insert, UpdateFind,
      UpdateEnsureSku, Update, Delete, Refuse, Finish, Go
  <2>2. ASSUME NEW c \in Clients, NEW v \in Users, NEW claim \in GivenRoles, AdmitAny(c, v, claim)
        PROVE  access' = access
    BY <2>2 DEF AdmitAny, AdmitUserWrite, AdmitOther, BeginAny, Begin, Admit
  <2>3. ASSUME NEW c \in Clients, NEW v \in Users, SignIn(c, v) PROVE access' = access
    BY <2>3, SignInReads DEF ReadUser
  <2> QED BY <2>1, <2>2, <2>3 DEF Next, vars, accessVars
<1> QED BY <1>2, <1>3, <1>4, <1>5

\* A role that was taken from a user dies out with the tokens, calls and sign-ins
\* that already had it, whoever signs in, refreshes, is admitted or writes meanwhile.
THEOREM RoleDiesOut == Spec => RoleIsNotRegained
<1> DEFINE DiesOut ==
      \A u \in Users, r \in GivenRoles : role[u] # r =>
        /\ ~ Signing(u, r) => ~ Signing(u, r)' /\ access'[u][r] <= access[u][r]
        /\ ~ Wields(u, r) => ~ Wields(u, r)'
<1>1. IInv /\ [Next]_vars => [DiesOut]_vars
  <2> SUFFICES ASSUME IInv, [Next]_vars, NEW u \in Users, NEW r \in GivenRoles, role[u] # r
               PROVE  /\ ~ Signing(u, r) => ~ Signing(u, r)' /\ access'[u][r] <= access[u][r]
                      /\ ~ Wields(u, r) => ~ Wields(u, r)'
    OBVIOUS
  <2>1. \A c \in Clients : Quiet.user # u /\ Quiet.pc # "sign"
    BY NoUserIsNoUser DEF Quiet
  <2>2. Signing(u, r)' => Signing(u, r)
    BY <2>1, CallMoves DEF Signing
  <2>3. Signing(u, r) \/ access'[u][r] <= access[u][r]
    BY TokenMoves
  <2>4. Signing(u, r) => Wields(u, r)
    BY DEF Signing, Wields
  <2>5. access[u][r] \in Nat /\ access'[u][r] \in Nat
    BY ByCall, Inductive, AccessTTLPositive DEF AccessOK, IInv, TypeOK
  <2>6. ~ Wields(u, r) => ~ Wields(u, r)'
    <3> SUFFICES ASSUME ~ Wields(u, r) PROVE ~ Wields(u, r)'
      OBVIOUS
    <3>1. ~ access[u][r] > 0 /\ ~ access'[u][r] > 0
      BY <2>3, <2>4, <2>5 DEF Wields
    <3>2. \A c \in Clients : ~ (call'[c].user = u /\ call'[c].claim = r)
      BY <2>1, <3>1, CallMoves DEF Wields
    <3> QED BY <3>1, <3>2 DEF Wields
  <2> QED BY <2>2, <2>3, <2>6
<1> QED BY <1>1, CatalogInvariant, PTL DEF Spec, RoleIsNotRegained

-----------------------------------------------------------------------------
\* The abstract table.

\* What the mapping makes of a row.
SkuOf(i) == IF Stored(i) THEN product[i].sku ELSE NoRow

\* A step that changes neither rows' skus nor the sequence.
LEMMA SkusStay ==
  ASSUME issued' = issued, \A i \in Ids : (Stored(i) <=> Stored(i)') /\ SkuOf(i)' = SkuOf(i)
  PROVE  UNCHANGED SkuTable!tableVars
<1>1. {i \in Ids : Stored(i)'} = {i \in Ids : Stored(i)}
  OBVIOUS
<1>2. [i \in Ids |-> SkuOf(i)'] = [i \in Ids |-> SkuOf(i)]
  OBVIOUS
<1> QED BY <1>1, <1>2 DEF SkuTable!tableVars, SkuOf

\* INSERT adds the row, or wastes an id.
LEMMA InsertImplements ==
  ASSUME IInv, NEW c \in Clients, Insert(c)
  PROVE  [SkuTable!TableNext]_(SkuTable!tableVars)
<1> DEFINE b == arg[c].body
<1>1. b \in Row /\ b # NoRow /\ b.sku \in Skus
  BY ByCall, NoRowIsNoValue DEF Insert, Fits, Row
<1>2. issued \in 0..MaxId /\ MaxId \in Nat
  BY CatalogConstants, ByCall DEF TableOK
<1>3. CASE issued = MaxId
  BY <1>3, SkusStay DEF Insert, Stored, SkuOf
<1>4. CASE issued # MaxId /\ SkuTaken(b.sku, 0)
  <2>1. issued < MaxId /\ issued' = issued + 1 /\ product' = product
    BY <1>2, <1>4 DEF Insert
  <2>2. SkuTable!Waste
    BY <2>1 DEF SkuTable!Waste, Stored
  <2> QED BY <2>2 DEF SkuTable!TableNext
<1>5. CASE issued # MaxId /\ ~ SkuTaken(b.sku, 0)
  <2>1. /\ issued < MaxId /\ issued' = issued + 1 /\ issued + 1 \in Ids
        /\ product' = [product EXCEPT ![issued + 1] = b]
    BY <1>2, <1>5 DEF Insert, Ids
  <2>2. /\ product \in [Ids -> Row \cup {NoRow}]
        /\ \A k \in Ids : product'[k] = IF k = issued + 1 THEN b ELSE product[k]
    BY <2>1, ByCall DEF TableOK
  <2>3. {i \in Ids : Stored(i)'} = {i \in Ids : Stored(i)} \cup {issued + 1}
    BY <1>1, <2>1, <2>2 DEF Stored
  <2>4. [i \in Ids |-> SkuOf(i)'] = [[i \in Ids |-> SkuOf(i)] EXCEPT ![issued + 1] = b.sku]
    BY <1>1, <2>1, <2>2 DEF Stored, SkuOf
  <2>5. \A j \in 1..MaxId : j # issued + 1 => [i \in Ids |-> SkuOf(i)][j] # b.sku
    BY <1>1, <1>5, NoRowIsNoValue DEF SkuTaken, SkuOf, Ids
  <2>6. PICK k \in Skus : k = b.sku
    BY <1>1
  <2>7. SkuTable!Add(k)
    BY <2>1, <2>3, <2>4, <2>5, <2>6 DEF SkuTable!Add, SkuTable!Free, SkuOf
  <2> QED BY <2>7 DEF SkuTable!TableNext
<1> QED BY <1>3, <1>4, <1>5

\* UPDATE renames the row when the body has a sku.
LEMMA UpdateImplements ==
  ASSUME IInv, NEW c \in Clients, Update(c)
  PROVE  [SkuTable!TableNext]_(SkuTable!tableVars)
<1> DEFINE i == arg[c].id
           b == arg[c].body
<1>1. i \in Ids /\ b \in PatchBody /\ issued' = issued
  BY ByCall DEF Update, Fits, Argument
<1>2. CASE product' = product
  BY <1>1, <1>2, SkusStay DEF Stored, SkuOf
<1>3. CASE /\ Stored(i) /\ (b.sku = Absent \/ ~ SkuTaken(b.sku, i))
           /\ product' = [product EXCEPT ![i] = Merge(product[i], b)]
  <2>1. product[i] \in Row /\ Merge(product[i], b) \in Row
    BY <1>1, <1>3, ByCall DEF TableOK, Stored, Merge, Row, PatchBody
  <2>2. /\ product \in [Ids -> Row \cup {NoRow}]
        /\ \A k \in Ids : product'[k] = IF k = i THEN Merge(product[i], b) ELSE product[k]
    BY <1>3, ByCall DEF TableOK
  <2>3. \A k \in Ids : Stored(k) <=> Stored(k)'
    BY <1>3, <2>1, <2>2, NoRowIsNoValue DEF Stored
  <2>4. CASE b.sku = Absent
    <3>1. \A k \in Ids : SkuOf(k)' = SkuOf(k)
      BY <1>3, <2>2, <2>3, <2>4 DEF SkuOf, Merge
    <3> QED BY <1>1, <2>3, <3>1, SkusStay
  <2>5. CASE b.sku # Absent
    <3>1. b.sku \in Skus /\ ~ SkuTaken(b.sku, i)
      BY <1>1, <1>3, <2>5 DEF PatchBody
    <3>2. {k \in Ids : Stored(k)'} = {k \in Ids : Stored(k)}
      BY <2>3
    <3>3. [k \in Ids |-> SkuOf(k)'] = [[k \in Ids |-> SkuOf(k)] EXCEPT ![i] = b.sku]
      BY <1>1, <1>3, <2>2, <2>3, <2>5 DEF SkuOf, Merge
    <3>4. \A j \in 1..MaxId : j # i => [k \in Ids |-> SkuOf(k)][j] # b.sku
      BY <3>1, NoRowIsNoValue DEF SkuTaken, SkuOf, Ids
    <3>5. PICK id \in Ids, k \in Skus : id = i /\ k = b.sku
      BY <1>1, <3>1
    <3>6. SkuTable!Rename(id, k)
      BY <1>1, <1>3, <3>2, <3>3, <3>4, <3>5 DEF SkuTable!Rename, SkuTable!Free, SkuOf
    <3> QED BY <3>6 DEF SkuTable!TableNext, Ids
  <2> QED BY <2>4, <2>5
<1> QED BY <1>2, <1>3 DEF Update

\* DELETE removes the row, if it is there.
LEMMA DeleteImplements ==
  ASSUME IInv, NEW c \in Clients, Delete(c)
  PROVE  [SkuTable!TableNext]_(SkuTable!tableVars)
<1> DEFINE i == arg[c].id
<1>1. /\ i \in Ids /\ issued' = issued
      /\ \A k \in Ids : product'[k] = IF k = i THEN NoRow ELSE product[k]
  BY ByCall DEF Delete, Fits, TableOK
<1>2. CASE ~ Stored(i)
  BY <1>1, <1>2, SkusStay DEF Stored, SkuOf
<1>3. CASE Stored(i)
  <2>1. {k \in Ids : Stored(k)'} = {k \in Ids : Stored(k)} \ {i}
    BY <1>1 DEF Stored
  <2>2. [k \in Ids |-> SkuOf(k)'] = [[k \in Ids |-> SkuOf(k)] EXCEPT ![i] = NoRow]
    BY <1>1 DEF SkuOf, Stored
  <2>3. PICK id \in Ids : id = i
    BY <1>1
  <2>4. SkuTable!Remove(id)
    BY <1>1, <1>3, <2>1, <2>2, <2>3 DEF SkuTable!Remove, SkuOf
  <2> QED BY <2>4 DEF SkuTable!TableNext, Ids
<1> QED BY <1>2, <1>3

\* The chains of statements of any number of concurrent calls write the skus like
\* a table that takes one row at a time and only free skus.
THEOREM ImplementsTable == Spec => ImplementsUniqueTable
<1> DEFINE Step == [SkuTable!TableNext]_(SkuTable!tableVars)
<1>1. Init => SkuTable!TableInit
  <2> SUFFICES ASSUME Init PROVE SkuTable!TableInit
    OBVIOUS
  <2>1. {i \in Ids : Stored(i)} = {} /\ [i \in Ids |-> SkuOf(i)] = [i \in Ids |-> NoRow]
    BY DEF Init, Stored, SkuOf
  <2> QED BY <2>1 DEF Init, SkuTable!TableInit, SkuOf, Ids
<1>2. IInv /\ [Next]_vars => Step
  <2> SUFFICES ASSUME IInv, [Next]_vars PROVE Step
    OBVIOUS
  <2>1. CASE product' = product /\ issued' = issued
    BY <2>1, SkusStay DEF Stored, SkuOf
  <2> QED BY <2>1, Writers, InsertImplements, UpdateImplements, DeleteImplements
<1>3. Spec => SkuTable!TableSpec
  BY <1>1, <1>2, CatalogInvariant, PTL DEF Spec, SkuTable!TableSpec
<1> QED BY <1>3 DEF ImplementsUniqueTable

=============================================================================
