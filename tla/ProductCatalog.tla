------------------------------ MODULE ProductCatalog ------------------------------
(***************************************************************************)
(* The products of ProductApplicationService in the PostgreSQL table       *)
(* products, reached through the guards of AccessGuard.                    *)
(*                                                                         *)
(* A call is a chain of awaited SQL statements; between two of them any    *)
(* other call may run.  The columns that behave alike are one, stock.      *)
(***************************************************************************)
EXTENDS AccessGuard

CONSTANTS
    MaxId,          \* the last value of the sequence products_id_seq
    Skus, Stocks,   \* values of the columns sku and stock
    Absent,         \* a column the request does not mention
    NoRow,
    Patches         \* the bodies of PATCH /products/:id: a bound

Columns == {"sku", "stock"}

PatchBody == [sku : Skus \cup {Absent}, stock : Stocks \cup {Absent}]

ASSUME CatalogConstants ==
    /\ MaxId \in Nat
    /\ Patches \subseteq PatchBody
    /\ Absent \notin Skus \cup Stocks

VARIABLES
    product,   \* the row of each id
    issued,    \* ids drawn from the sequence
    arg        \* the request of each call

productVars == <<product, issued, arg>>
vars == <<accessVars, productVars>>

-----------------------------------------------------------------------------

Ids == 1..MaxId

Row == [sku : Skus, stock : Stocks]

ASSUME NoRowIsNoValue == NoRow \notin Row \cup Skus

\* named is a history field: the columns the client mentioned.
Argument == [id : Ids \cup {0}, body : PatchBody, named : SUBSET Columns]

NoBody == [sku |-> Absent, stock |-> Absent]

NoArgument == [id |-> 0, body |-> NoBody, named |-> {}]

Asking(i, b) == [id |-> i, body |-> b, named |-> {k \in Columns : b[k] # Absent}]

Stored(i) == product[i] # NoRow

\* findBySku; also the unique index products_sku_unique, leaving out row i.
SkuTaken(sku, i) == \E k \in Ids \ {i} : Stored(k) /\ product[k].sku = sku

\* Done with the call, which leaves the products alone.
Refuse(c) ==
    /\ Answer(c)
    /\ arg' = [arg EXCEPT ![c] = NoArgument]
    /\ UNCHANGED <<userVars, access, product, issued>>

\* Done with the call.
Finish(c) ==
    /\ Answer(c)
    /\ arg' = [arg EXCEPT ![c] = NoArgument]
    /\ UNCHANGED <<userVars, access>>

Go(c, pc) ==
    /\ call' = [call EXCEPT ![c].pc = pc]
    /\ UNCHANGED <<userVars, access, product, issued>>

-----------------------------------------------------------------------------
\* A call passes the guards.

Begin(c, u, claim, h, first, a) ==
    /\ Admit(c, <<"products", h>>, u, claim, first)
    /\ arg' = [arg EXCEPT ![c] = a]
    /\ UNCHANGED <<product, issued>>

BeginAny(c, u, claim) ==
    \/ \E b \in Row : Begin(c, u, claim, "store", "ensureSku", Asking(0, b))
    \/ \E i \in Ids, b \in Patches : Begin(c, u, claim, "update", "find", Asking(i, b))
    \/ \E i \in Ids : Begin(c, u, claim, "destroy", "delete", Asking(i, NoBody))
    \/ \E i \in Ids, h \in {"index", "show"} :
         Begin(c, u, claim, h, "select", Asking(i, NoBody))

\* index and show: one SELECT, and the products stay.
Select(c) == call[c].pc = "select" /\ Refuse(c)

-----------------------------------------------------------------------------
\* POST /products.

\* ensureSkuIsAvailable: 409 when findBySku found a product.
StoreEnsureSku(c) ==
    /\ call[c].pc = "ensureSku"
    /\ IF SkuTaken(arg[c].body.sku, 0) THEN Refuse(c) ELSE Go(c, "insert") /\ UNCHANGED arg

\* Mutant of Insert: the table has no unique index.
InsertUnchecked(c) ==
    /\ call[c].pc = "insert"
    /\ issued' = IF issued = MaxId THEN issued ELSE issued + 1
    /\ product' = IF issued = MaxId THEN product
                    ELSE [product EXCEPT ![issued + 1] = arg[c].body]
    /\ Finish(c)

\* INSERT: the sequence moves on even when the unique index refuses the row,
\* which is a 500, like a sequence at its end.
Insert(c) ==
    /\ call[c].pc = "insert"
    /\ issued' = IF issued = MaxId THEN issued ELSE issued + 1
    /\ product' = IF issued = MaxId \/ SkuTaken(arg[c].body.sku, 0)
                    THEN product
                    ELSE [product EXCEPT ![issued + 1] = arg[c].body]
    /\ Finish(c)

-----------------------------------------------------------------------------
\* PATCH /products/:id.

Merge(row, body) ==
    [sku |-> IF body.sku = Absent THEN row.sku ELSE body.sku,
     stock |-> IF body.stock = Absent THEN row.stock ELSE body.stock]

\* The statement after findById: the sku is checked when it changes.
AfterFind(row, body) == IF body.sku \in {Absent, row.sku} THEN "update" ELSE "updateSku"

\* Mutant of UpdateFind: the body is completed with the row that was read.
UpdateFindCompleting(c) ==
    LET i == arg[c].id
    IN  /\ call[c].pc = "find"
        /\ IF Stored(i)
             THEN /\ Go(c, AfterFind(product[i], arg[c].body))
                  /\ arg' = [arg EXCEPT ![c].body = Merge(product[i], @)]
             ELSE Refuse(c)

\* findById: 404 without a row.
UpdateFind(c) ==
    LET i == arg[c].id
    IN  /\ call[c].pc = "find"
        /\ IF Stored(i)
             THEN Go(c, AfterFind(product[i], arg[c].body)) /\ UNCHANGED arg
             ELSE Refuse(c)

\* ensureSkuIsAvailable of the new sku.
UpdateEnsureSku(c) ==
    /\ call[c].pc = "updateSku"
    /\ IF SkuTaken(arg[c].body.sku, 0) THEN Refuse(c) ELSE Go(c, "update") /\ UNCHANGED arg

\* UPDATE ... SET the columns of the body: 404 without a row, 500 when the
\* unique index refuses it.
Update(c) ==
    LET i == arg[c].id
        b == arg[c].body
    IN  /\ call[c].pc = "update"
        /\ product' = IF Stored(i) /\ (b.sku = Absent \/ ~ SkuTaken(b.sku, i))
                        THEN [product EXCEPT ![i] = Merge(@, b)]
                        ELSE product
        /\ Finish(c)
        /\ UNCHANGED issued

\* DELETE /products/:id: one DELETE, 404 when it matched no row.
Delete(c) ==
    /\ call[c].pc = "delete"
    /\ product' = [product EXCEPT ![arg[c].id] = NoRow]
    /\ Finish(c)
    /\ UNCHANGED issued

-----------------------------------------------------------------------------

Init ==
    /\ AccessInit
    /\ product = [i \in Ids |-> NoRow]
    /\ issued = 0
    /\ arg = [c \in Clients |-> NoArgument]

\* The next statement of a call that is being served.
Serve(c) ==
    \/ (SignPair(c) \/ WriteUser(c) \/ AnswerOther(c)) /\ UNCHANGED productVars
    \/ Select(c) \/ StoreEnsureSku(c) \/ Insert(c)
    \/ UpdateFind(c) \/ UpdateEnsureSku(c) \/ Update(c) \/ Delete(c)

AdmitAny(c, u, claim) ==
    \/ BeginAny(c, u, claim)
    \/ (AdmitUserWrite(c, u, claim) \/ AdmitOther(c, u, claim)) /\ UNCHANGED productVars

SignIn(c, u) == LoginFind(c, u) \/ GoogleFind(c, u) \/ RefreshFind(c, u)

TickStep == Tick /\ UNCHANGED productVars

Next ==
    \/ \E c \in Clients : Serve(c)
    \/ \E c \in Clients, u \in Users, claim \in GivenRoles : AdmitAny(c, u, claim)
    \/ \E c \in Clients, u \in Users : SignIn(c, u) /\ UNCHANGED productVars
    \/ TickStep

Spec == Init /\ [][Next]_vars

\* Time passes, and a call that is being served is answered.
FairSpec == Spec /\ WF_vars(TickStep) /\ \A c \in Clients : WF_vars(Serve(c))

-----------------------------------------------------------------------------
\* Properties.

\* Type invariant of the users, the tokens, the products and the calls.
TypeOK ==
    /\ role \in [Users -> UserRole] /\ active \in SUBSET Users
    /\ access \in [Users -> [GivenRoles -> 0..AccessTTL]]
    /\ call \in [Clients -> [pc : {"idle", "sign", "writeUser", "answer", "select",
                                   "ensureSku", "insert", "find", "updateSku", "update",
                                   "delete"},
                             user : Users \cup {NoUser}, claim : UserRole]]
    /\ product \in [Ids -> Row \cup {NoRow}]
    /\ issued \in 0..MaxId
    /\ arg \in [Clients -> Argument]

\* Two requests that both saw a sku free leave one product with it.
OneProductPerSku ==
    \A i, k \in Ids :
        Stored(i) /\ Stored(k) /\ product[i].sku = product[k].sku => i = k

\* Concurrent PATCHes of one product do not undo each other: a column only
\* changes by a call whose client mentioned it.
PatchWritesItsBody ==
    [][\A i \in Ids, k \in Columns :
         Stored(i) /\ product'[i] # NoRow /\ product'[i][k] # product[i][k] =>
           \E c \in Clients : arg[c].id = i /\ k \in arg[c].named /\ arg'[c] = NoArgument]_vars

\* Products are only written by calls of admins and operadores, users only by
\* calls of admins, however long the call had been waiting.
WritesAreAuthorized ==
    [][/\ product' # product =>
            \E c \in Clients : call[c].claim \in {"admin", "operador"} /\ call'[c] = Quiet
       /\ userVars' # userVars =>
            \E c \in Clients : call[c].claim = "admin" /\ call'[c] = Quiet]_vars

\* A role a user has not got, or has not got any more, dies out: but for a sign-in
\* that read the row before, its tokens only get older, and when the last token and
\* the last call of it are gone nothing brings them back, while users sign in, with
\* a password or with Google, tokens are refreshed and calls admitted.  It is the
\* role that counts: a user that was only blocked keeps its role, and google
\* signs it.
RoleIsNotRegained ==
    [][\A u \in Users, r \in GivenRoles : role[u] # r =>
         /\ ~ Signing(u, r) => ~ Signing(u, r)' /\ access'[u][r] <= access[u][r]
         /\ ~ Wields(u, r) => ~ Wields(u, r)']_vars

\* A role that was taken from a user, or went with its row, stops being of use:
\* neither refreshing nor a sign-in that was under way keeps it alive.
RoleChangeTakesEffect ==
    \A u \in Users, r \in GivenRoles : <>[](role[u] # r) => <>[](~ Wields(u, r))

-----------------------------------------------------------------------------
\* The abstract table of skus.

SkuTable == INSTANCE UniqueTable WITH
    Keys <- Skus,
    NoKey <- NoRow,
    present <- {i \in Ids : Stored(i)},
    key <- [i \in Ids |-> IF Stored(i) THEN product[i].sku ELSE NoRow]

\* The statements of concurrent calls, each of which decides on what an earlier
\* statement read, act on the skus like single writes to a table with a unique
\* column: whatever the interleaving, a call writes one row, under a new id or in
\* place, with a sku that is free at that moment, or nothing.
ImplementsUniqueTable == SkuTable!TableSpec

-----------------------------------------------------------------------------
\* The inductive invariant of the proofs.

\* The guards let no other role reach these statements.
ClaimFitsCall ==
    \A c \in Clients :
        /\ call[c].pc = "writeUser" => call[c].claim = "admin"
        /\ call[c].pc \in {"ensureSku", "insert", "find", "updateSku", "update", "delete"} =>
             call[c].claim \in {"admin", "operador"}

IdsWereIssued == \A i \in Ids : Stored(i) => i <= issued

ArgumentFitsCall ==
    \A c \in Clients :
        /\ call[c].pc \in {"ensureSku", "insert"} => arg[c].body \in Row
        /\ call[c].pc \in {"find", "updateSku", "update", "delete"} => arg[c].id \in Ids

\* What is going to be written is what the client mentioned.
BodyIsNamed ==
    \A c \in Clients, k \in Columns : arg[c].body[k] # Absent => k \in arg[c].named

IInv ==
    /\ TypeOK
    /\ ClaimFitsCall
    /\ IdsWereIssued
    /\ ArgumentFitsCall
    /\ BodyIsNamed
    /\ OneProductPerSku

=============================================================================
