# A verification project for bus-impl-v2

TLA+ models of `bus-impl-v2`, the NestJS backend under `src/`: its refresh-token
sessions and the browser that holds them, its brake on failed logins, its guards, its
tables of users and products, its SQS worker, the way its processes come by their
configuration, and the scripts that run and probe it. TLC checks
them on small instances; TLAPS proves the invariants that matter most for every
value of the constants. `PROJECT.json` maps each definition to the lines it
models and lists runs, mutants, findings, hazards and theorems.

Paths below are relative to the repository root (`src/` in `PROJECT.json`).

## The system

One image, three processes: the HTTP API (`src/main.ts`), the worker
(`src/worker.main.ts`) and the migration (`src/database/migrate.ts`); Lambda is no
longer a runtime (the handler of `src/lambda.ts` always rejects). Replicas of the API share nothing but PostgreSQL;
replicas of the worker share nothing but an SQS queue. Every request is a chain
of awaited SQL statements **without a transaction** around it, so what can go
wrong sits between two statements.

| Component | State it keeps | Operations | Talks to | What makes it correct |
| --- | --- | --- | --- | --- |
| Refresh-token sessions (`src/auth`) | `auth_sessions`: jti, family, expiry, revocation reason | login, google, register, refresh (rotation, reuse detection), logout, logout-all, purge | `users`, JWTs, the cookie | one line of tokens per login, a token is exchanged once, an ended login stays ended |
| Login throttle (`src/auth`) | `auth_login_attempts` | count, compare, record, clear, purge | scrypt, `users` | bounded overshoot under concurrency, blocks lift |
| User accounts (`src/user`, `src/auth`) | `users` | register, store, google link, update, destroy | unique indexes | unique identities, a usable credential, no lost or revived rows |
| SQS worker (`src/worker`) | none of its own: visibility and receive counts live in SQS | receive a batch, parse, dispatch, acknowledge, stop | SQS, signals | nothing deleted unhandled, every message ends, a signal ends a worker |
| Access guard (`src/shared/.../security`) | none: claims travel in the access token | JwtAuthGuard, RolesGuard | access tokens | a route runs only with a role it asks for; how stale that role may be |
| Refresh cookie (`src/auth/infrastructure/http`) | the browser's cookie | write, read, clear | sessions | cookie and session agree |
| Product catalog (`src/product`) | `products` | store, update, destroy | unique index on sku | unique sku, no lost rows |
| Configuration (`src/shared/.../config`, `main.ts`, `migrate.ts`) | the process environment | env file, SSM, Secrets Manager, schema, ConfigModule | AWS, the database | one configuration and one database per deployment, no start with a forbidden combination |
| Smoke tests (`scripts/smoke-endpoints.ts`, workflows) | an access token, ids | a list of steps, attempts | the API | a healthy deployment passes |
| Emulator scripts (`scripts/start-prod-like-local.ts`, `run-floci-tests.ts`) | a container, a child process | probe, run, wait, stop, signals | Floci, the API | a script that ends leaves no container behind, signals end scripts |
| Uploads (`src/upload`) | none | presigned URL under a rule table | S3 | type, extension and size agree with the rule |
| Google verifier, password hasher | none | verify, hash | Google JWKS | a verdict; cryptography |
| AI chat, telemetry, health, docs, HTTP plumbing | none (counters for metrics) | stateless calls | Bedrock, S3 | out of the core |
| Seeders, other scripts, generated documents | one-shot programs | | PostgreSQL | out of the core |

The hard behaviours: requests that interleave between statements, clients that
lose a response and retry, processes that stop between two statements, status
read in one statement and used in a later one, purges racing with refreshes,
messages delivered twice, receipts that are stale, responses that overtake each
other, roles that outlive their change, values that arrive after they were validated, signals in
the middle of a batch or of a script. `PROJECT.json` lists each hazard at its line with the properties about it.

## The modules

### AuthSessions (`src/auth/application/service/auth.application-service.ts`)

The grain is one SQL statement with the synchronous code up to the next await.
`req` holds, for each request being served, the statement it waits to run and
the locals it carries (the token presented, the token signed). `row` is
`auth_sessions` reduced to the one column that changes, the revocation reason;
the other columns copy the claims of the token and are kept in `token`. `held` are
the tokens a client received; a response may be lost. `closed` and `late` are
history: the families a closing call reported closed, and the tokens stored for
a user that was not active. `Crash` drops a request between any two statements.

Correspondence: `OpenSession` is the signing half of `buildTokenResponse` and
`Store` its insert and the response; `RefreshFind`, `RefreshRevoke`,
`RefreshReuse`, `RefreshUser`, `RefreshUserInactive` and `RefreshInactive` are
the statements of `refresh`, in order; `Logout`, `LogoutAll` and `PurgeExpired`
are one statement each. Reading the user and signing the pair are one step:
nothing is written between them, so a write of the user that falls between them
is one that falls just after. `StoreUser`, `SetStatus` and `DestroyUser` are
what an administrator's calls mean to the sessions. Nothing in the repository
calls `purgeExpired`; its interface says a maintenance job does, so it may run at
any time, with the present as its argument. A jti and a family id are fresh
when drawn (`randomUUID`).

The column `replaced_by_jti` is left out: its table's comment
(`src/auth/infrastructure/persistence/drizzle/schema.ts:16`) says that a rotation
points it at the new token, but no caller passes the argument and it is null in
every row.

### SessionFamilies and AuthSessionsRefinement

`SessionFamilies` is what the sessions promise, without tables or requests: a
login opens a family, a family has at most one holder, an exchange replaces it,
and a family that ended stays ended. `AuthSessionsRefinement` maps the tables and
the requests in flight to it.

### LoginThrottle (`login`, `assertNotRateLimited`, `auth_login_attempts`)

Each login counts by email, counts by address, compares, and records or clears,
in statements of its own. An attempt carries its age in ticks instead of a
timestamp, and is forgotten when it leaves the window, which no later count
includes. The two counts are two statements in the repository and two actions
here. `matches` is the verdict of the password check, of which the model only
needs both outcomes.

### UserAccounts (`src/user`, and the writes of `users` in `src/auth`)

`account` is the table, `issued` the serial column, `req` the requests between
their statements. `Insert` and `Update` check the two unique indexes with the
write, as PostgreSQL does; a refused statement is an error and changes nothing
but the sequence. `Named` and `Parsed` are the columns and values the service writes for a
PATCH body after `userUpdateSchema`. `full_name` is left out; emails are abstract
values of the column (the Google email is not lower-cased as the others are, so
two spellings are two values). index and show only read.

### UniqueTable

What the tables `users` and `products` promise of a unique column, without requests or statements: a row is
written at once under a new id, with a key nobody has or without one; a refused row wastes its id; a row
that is there may get another key; a row that has gone is not written. `UserAccounts` maps its emails and its Google subjects to
one such table each (`EmailTable`, `SubjectTable`), `ProductCatalog` its skus (`SkuTable`). The requests that look for a key in one
statement and write it in a later one are not part of it: that they make no difference is what the refinement says.

### SqsQueue, MessageWorker, AtLeastOnce (`src/worker`)

`SqsQueue` is the external queue as the worker uses it: receiving hides a
message and draws a new receipt handle, a visibility timeout brings it back, a
delete with a stale handle may or may not work, the redrive policy buries a
message received too often. `MessageWorker` adds replicas: batches handled
concurrently (`Promise.allSettled`), a message that fails at any step and stays
in the queue, signals, errors of `receive` that end the process, crashes, and
restarts by the orchestrator. `AtLeastOnce` is the promise of `README.md:19-21`;
`MessageWorkerRefinement` maps the queue to it, and the run checks its liveness too.

### BrowserSession (`src/auth/infrastructure/http`)

One browser with tabs that share a cookie jar, over `AuthSessions`. A call carries the
cookie the jar had when it was sent (`Cookie` of a tab) and its `Set-Cookie` takes effect when the
response arrives (`Receive`), so two responses may arrive in either order. A tab is
the request of the same name in `AuthSessions`; every step of the browser is a
step of the service or leaves it alone (`BrowserStep` in the proofs). `Open`, `Stored`, `RefreshAccepted`,
`RefreshRefused`, `RefreshServed`, `RefreshFailed`, `LogoutServed`, `LogoutOnlyClears` and
`LogoutAllServed` are the handlers of `AuthController`. Logout clears the cookie before it calls the
service, so a 401 or a 500 of the service comes with a cleared cookie too. `signedOut`
and `excused` are history. Tokens live in one browser here: a second one would present no token of this one.

### Routes, AccessGuard, ProductCatalog (`src/shared/infrastructure/security`, `src/product`)

`Routes` holds the metadata of each controller and handler as data and the decision of the two
guards as operators; `Admits` is what `getAllAndOverride([handler, class])` comes to.
`AccessGuard` adds access tokens: `access[u][r]` is how long the youngest token of user u
with the claim r still lives, and a call keeps the claim it was admitted with until it is answered. There are three ways to a token, each of which reads the user and signs in two steps: `LoginFind` and
`RefreshFind` want an active user, `GoogleFind` takes any row, since `google` looks at no status, neither of the row it finds by the subject nor of
the one it links. A blocked user keeps its role and can therefore have it signed again with Google; the session it gets ends at its
first refresh (`InactiveClosesFamily`), the access token lives its time. No text of the repository says otherwise, so this is no finding.
What the properties are about is the role: one that was changed, or went with its row, is not signed again (`RoleIsNotRegained`).
Whether a user has a refresh session or a Google account is left to `AuthSessions` and `UserAccounts`: here all three ways are always open.
`WriteUser` is the effect of the user routes on role and status (`active`), by callers whose claims the guards admitted.
`ProductCatalog` is the table `products` behind these guards, statement by statement; `named` in an
argument is history, the columns the client mentioned. `Merge` is `SET` of the body's columns.

### SmokeTest (`scripts/smoke-endpoints.ts`, `.github/workflows/deploy-*.yml`)

The steps of the script as data (endpoint, authentication, expected status, fields read), the API as
`Status` and `Fields`, and the loop of the workflow. `Unanswered` is a request that got no
answer; `lostLast` remembers whether the last attempt ended that way. `DocsServed` is `docsEnabled` of `main.ts`, off by default in
production, where the third step fails already. Steps the script
never reaches, because an earlier one fails, are in the list as well; `NoAttemptPasses` says so, and is proved.

### Startup and LocalStack (`src/shared/infrastructure/config`, `src/main.ts`, the scripts)

`Startup` models what each process knows of a setting by the source the value comes from. `environ` is the `process.env` of a
process: `Inherited` when it starts, and after the first validation what `validateEnvironmentAsync` made of it (`Written`).
`Merged(environ, order)` is the one merge, of `process.env` over a list of sources (`Found`), and what the schema makes of the winner (`Parse`,
`Valid`): `loadConfig` applies it with `LoaderOrder`, `ConfigModule` once more, to the environment as it is by then, with
`.env.<stage>` and `.env` (`ModuleFiles`). `given` is what each source says: `set`, `empty`, or nothing, since
an empty string counts in the merge and is undefined afterwards for some settings and invalid for others.
Seven settings stand for all: two with a default, five optional ones with a rule of their own.
`place` says which files exist: none in the image (`.dockerignore`). The migration precedes
the API in a container (the PreSync job of `README.md`).

`LocalStack` composes it with `start-prod-like-local.ts`, which runs the API against the AWS emulator, and
`run-floci-tests.ts`. Both may run at once, against one endpoint, under the container names of their own or, with
`FLOCI_CONTAINER_NAME`, under one (`oneName`). A container that `docker run` creates is there before the awaited command ends and the script sets
`startedContainer` (`RunContainer`, `RunReturned`); the command may fail after it, `rm --force` may fail, and so may `stop`, or no
runtime be found by then. `lost` is history: the runtime failed the script at run or at stop. `by` is history too: the script that
ran a container. A signal may come at any statement; only the first script installs
handlers, after it spawned the API and once for each signal. Without one a signal ends the script where it is, and what
it was running stays. `NothingIsLeftBehind` says that these are the only ways for a container to outlive the script that ran it.
`EmulatorReady` is the container's own. The two scripts have one `AWS_ENDPOINT_URL` here; with two they would meet in the name only.
A command that goes on after its script was killed is taken to have had its effect, or none, by then. That the API ends
when the signal is passed on (`Interrupt`) is taken from `enableShutdownHooks` of `main.ts`, and `SignalEndsScript` is about the script.

## The runs

| Run | Instance | Shows |
| --- | --- | --- |
| `sessions_chain` | 1 user, 1 family, 4 tokens, 2 requests, lifetime 1, clock to 2 | the chain of one login under every interleaving, with expiry, purges, crashes, status changes; it implements `SessionFamilies`; the inductive invariant of the proofs |
| `sessions_reuse`, `sessions_logout_all` | 1 family, 2 tokens, 2 requests | findings 1 and 2 |
| `throttle` | 2 emails, 1 address, 2 logins, limits 1 and 2, window 1, 4 rows | bounded overshoot, blocks that only age, and blocks that lift |
| `throttle_compare` | 1 email, limit 2, 2 logins | finding 3 |
| `accounts` | 2 emails, 2 Google subjects, 2 requests, 3 ids | unique identities, credentials, destroyed rows; emails and subjects implement `UniqueTable` |
| `accounts_patch` | 1 user, 2 roles, 2 statuses | finding 4 |
| `worker` | 2 replicas, 1 valid and 1 poison message, 2 receives, batches of 2 | at-least-once handling, signals that end workers, every message ends |
| `browser` | 1 user, 2 families, 3 tokens, 2 tabs, lifetime 1, clock to 1 | cookie and session agree, whatever the order of responses |
| `catalog` | 1 user, 2 roles, 2 calls, 2 ids, 2 skus, 2 stocks, PATCHes of one column, tokens of one tick | sign-in by password, Google or refresh: unique skus (`SkuTable` implements `UniqueTable`), PATCHes that do not undo each other, authorised writes, roles that are not regained and roles that end |
| `smoke` | 3 attempts, documentation served | finding 5 |
| `startup` | every stage and place, up to 2 unusual mentions of a setting by a source, 2 scripts, one container name or two, a container of an earlier run | one configuration and database, explicit values in production, no container left by a script that ended but for a failure of the runtime, signals that end scripts |

Bounds. Two concurrent requests are enough for every conflict on a row, since each
statement touches rows by a key and a conflict has two sides; the proofs cover
any number. Four tokens allow a login, two rotations and a token in flight; the two families of
`browser` a second login beside the first. `MaxNow` lets a token expire and be purged.
`Jtis`, `Families`, `Ids`, `MaxUsers`, `MaxReceives`, `MaxId`, `Attempts` and `MaxNow` are the only caps
on counters, and each stands in the guard of one action. The user of `catalog` has the roles
`admin` and `auditor`, one that may write everything and one that may write nothing; a wrong role
needs no second user, because a call keeps its claim while the role changes. Two unusual mentions are enough for
`startup`: a conflict of precedence has two sides, and the schema's rules relate two settings at most; under the
scripts one is enough, since `loadEnvFile` adds those of `.env`. The ids of
`LoginThrottle` suffice for `MaxPerIp - 1 + Cardinality(Logins)` rows and one more, so that
the bound could be exceeded if the code let it. The roles and statuses of `accounts`
are single because its properties do not depend on them; `accounts_patch` has two of each.

Fairness. `AuthSessions`, `BrowserSession` and `UserAccounts` need none: their properties are safety.
`ProductCatalog` assumes that time passes and that a call being served is answered (weak fairness of each call: its event
loop and PostgreSQL go on), and nothing of clients, who may refresh for ever. `LocalStack` assumes that a
script that can go on does; the API it waits for need not end by itself. `LoginThrottle`
assumes that time passes (`WF` of `Tick`) and nothing of the logins.
`MessageWorker` assumes weak fairness of what a live process does next (its event
loop), of the orchestrator's restart (a Deployment, `README.md`), of an aborted
receive ending and of the queue's own timeouts, and strong fairness of a message
being received by somebody: SQS does not withhold a message for ever from
workers that keep asking. Crashes may happen for ever; each one costs a receive, and the
redrive policy bounds those.

Every property of a passing run has a mutant, a plausible slip in the code (a
condition of an UPDATE forgotten, a result ignored, a limit off by one, a
read-modify-write), kept next to the definition it changes; TLC finds the
property violated with it.

## Findings

1. `ReuseClosesFamily`: reuse detection revokes the sessions active at that
   moment; a rotation between its two statements stores an active successor
   afterwards. The comment and a test say the whole family is closed.
2. `LogoutAllClosesSessions`: logout-all misses a refresh in flight in the same way.
3. `FullEmailIsNotCompared`: logins that counted before the limit was reached
   compare passwords after it was; a test's comment says the sixth does not get
   there. What holds instead is `EmailOvershootBounded`.
4. `PatchIsPartial`: a PATCH of a user without `role` or `status` writes the store
   schema's defaults, so an administrator becomes an operator and a blocked user
   active. (`docs/openapi/openapi.json` shows the same defaults in the PATCH body.)
5. `HealthyApiPasses`: the smoke script wants `refresh_token` in the answer of the registration, which the
   controller moves into the cookie, so no deployment passes it. Two later steps would fail as well: the
   refresh without a cookie, and `GET /users` with the token of an `operador`.

Also seen, and not a run of its own: `.env.<stage>`, and `.env` outside local, are read by `ConfigModule` only, although
the comment of `loadConfig` gives `.env` to local alone. Such a file can name a database to
the API that the migration does not see; `SameDatabase` leaves it out (`Stray`), `OneConfiguration` allows for it, and in a container there is none.

## The proofs

Every safety property of a passing run is a theorem, for every value of the constants (`PROJECT.json` lists
them by name); of `ImplementsAtLeastOnce`, which is partly liveness, the safety half is one. Each component has an inductive
invariant, stated at the end of its module (`IInv`, `BrowserInv`, `SignedInInv`, `StackInv`); TLC was used to find it before
it was proved, and `sessions_chain` still checks the one of the sessions. Each of the eight `*_proofs` modules has
one lemma per action and under it one step per conjunct the action can disturb.

**AuthSessions_proofs** assumes `NullsAreNoValues` and `ClockConstants` (a token lives at least one
tick). `OneHolderPerFamily` and `ExchangedAtMostOnce` are not inductive as they stand: they
need that a request past the conditional UPDATE is the only one to hand out
that token's successor (`PendingSuccessors`), that a successor stays in its
parent's family (`Lineage`) and that a row about to be inserted is not there yet
(`LocalsWellFormed`). `VerifiableTokenHasRow` follows from `DeletedMeansExpired`, and
`AtMostOneLateToken` from `LateTokens`. Those make `SessionInv`, which is
inductive by itself. From it `OverKeeps` proves that no step revives an ended
family; that lemma gives `OverIsFinal` and carries the last two conjuncts of `IInv`, which
say that a family refresh closes for an inactive user is over.

Its last part proves that the sessions implement `SessionFamilies` (by the mapping of `AuthSessionsRefinement`). In a state of `SessionInv` a family is in one of four cases (unused,
one active row, one request minting, over) and `Lines` says what the mapping makes of
each. A statement draws a token, stores one, takes one, or changes no token and
only ends families (`EndingImplements`, which covers logout, logout-all, reuse,
purge, crash and the rest).

**LoginThrottle_proofs** assumes `NullsAreNoValues`, `Limits` (both limits at least 1) and
`FinitelyManyLogins`. The bounds on the counts are not inductive: a login that
passed its count will add a row that is not there yet. The reserve (`EmailReserve`,
`IpReserve`) counts such logins as if their rows existed; passing a count is then
the only step that raises the sum, and it starts below the limit. `BlockIsNotProlonged`, the safety core
of the two blocks that lift, rests on the same idea: only a login its count let through adds a row (`RowsMove`), and
at the limit no count lets one through (`PassedMove`), so without such a login the rows of a block only age or go.

**UserAccounts_proofs** assumes `NullsAreNoValues`, `Defaults` and `UsersBound`. The table is
written from locals read several statements earlier, so the invariant says that
whatever a request holds may be written at any later time: rows to insert
carry the credential of their provider (`InsertsWellFormed`), columns to set clear no
identity and name a provider only with its credential (`UpdatesWellFormed`), and no
row lies beyond the sequence (`FreshIdsFree`, which is why a destroyed id is never
handed out again). `ImplementsTables` maps the three writes to steps of `UniqueTable`: `Insert` adds a row to
both tables or wastes an id of both, `Destroy` removes it from both, and `Update` renames it, where the invariant gives what
a table with one writer would need: the row still has an email and keeps a subject it had (`UpdatedHasCredential`),
and what the indexes admit is free in both columns (`AdmittedIsFree`).

**MessageWorker_proofs** assumes `BatchLimit`, `ValidMessages` and `RedrivePolicy`.
`HandledAtMostReceives` needs a count: the deliveries not yet handled and the
runs of the handler together are at most the receives (`UnhandledDeliveries`).
`DeletedOnlyAfterHandling` needs that a job at the step of acknowledging was handled (`JobsWellFormed`).
`ImplementsPromiseSafety` maps each step to a step of `AtLeastOnce` or to none (`FateOf` of `MessageWorkerRefinement`).

**ProductCatalog_proofs** assumes `NoUserIsNoUser`, `GivenRolesAreRoles`, `AccessTTLPositive`, `CatalogConstants` and `NoRowIsNoValue`.
`PatchWritesItsBody` is about a step, but its proof needs that what a call is about to write is what its
client mentioned (`BodyIsNamed`); `WritesAreAuthorized` that the guards let no other role reach the writing statements
(`ClaimFitsCall`, where the metadata of `Routes` is expanded); `OneProductPerSku` that the next id of the sequence is free. `ImplementsTable` is the refinement of `UniqueTable` by the skus, in
the same three steps as that of the users. `RoleIsNotRegained` is the safety core of `RoleChangeTakesEffect`: what a call
claims comes from a token or from the row of its user (`CallMoves`, `SignInReads`), and a token is signed by a sign-in that
read that row (`TokenMoves`), so a role nobody wields and the user has not is wielded by nobody after any step.

**BrowserSession_proofs** extends the proofs of the sessions and assumes `ClearIsNoValue` besides theirs: a step of the browser is one of the
service or none (`BrowserStep`), so `BrowserCallsService` gives `Spec` for every behaviour of `BrowserSpec`, and with it `SessionInv` and the
refinement of `SessionFamilies`. What is added says where a token is: everything in the jar and in calls was handed out
(`TokensAreHeld`), and a token on its way to the jar is in no other call, was not exchanged and has no
successor (`BroughtIsFresh`), whence `JarNeverMovesBack`. Three lemmas say once what a step may do to tokens
(`ServiceMoves`, `PresentedMoves`, `BrowserMoves`), and the invariant's parts follow from them. `LogoutOfOneIsFinal` follows from
`OneHolderPerFamily` and `OverKeeps`: a session that was active was the only thing its family had.

`SignedOutForAReason` speaks of the jar only, but a cookie is good because of what every tab is doing: `SignedInInv` says it of all
of them. A call on the server is the request of its tab, with its cookie, and brings a token of the same family (`CallsAreServed`). A
family to which nothing happened is refreshed by one tab at a time, with the cookie of the jar (`OneRefreshPerFamily`), since a second refresh
with it is noted in `excused` when it is sent; before the first response of a login nobody holds another token of it (`LoginsAreAlone`); logouts and
changes of users are excuses (`ExcusesAreNoted`). A token that is unexpired and of such a family (`Reliable`) is then active in the jar, on its
way to the jar, and on its way to be refreshed, until its own refresh exchanges it (`ReliableIsLive`). The step that needs all of them
is a session that ends: `LiveEnds` lists what can end one, and each cause is an excuse or that one refresh, which cannot
fail (`RefreshSucceeds`) and whose response carries an active token.

**LocalStack_proofs** proves the properties of `Startup` and of the scripts together, since `StackSpec` is what runs them. It assumes
`MentionsBound`; the number of odd mentions does not matter to the proof. The first source of a list that
mentions a setting is the least of a set of positions (`LeastOfTwo`). What `validateEnvironmentAsync` wrote to `process.env` wins the second merge,
so reading again changes only what was undefined, by a file the loader did not read: that is `OneConfiguration`. The second merge
cannot bring back what `Valid` refused either, which is `ProdLikeIsExplicit`. The invariant is that what a process has
read and written is what the sources say now (`ReadsWhatIsGiven`), which holds because sources change only before a process runs
(`OnlyTheApi` for the script that sets the environment). `SameDatabase` then compares two readings of the same sources, by `main.ts` and by `migrate.ts`, where
no file names a database to one of them alone. For containers `NothingIsLeftBehind` is not inductive: `ContainersAreKnown` says where a script may
be when a container it ran exists (`MayHave`), from the moment it is created, over the statement at which the script learns of it, to its stop; a script
that moves keeps that, whatever the other does to a container of the same name (`OneScriptMoves`).

**SmokeTest_proofs** is finding 5 without its bound: the fourth step reads a field that no answer of its controller has
(`RegistrationFails`), so for any number of `Attempts`, any lost answers and either `DocsServed` no attempt passes it (`NoAttemptPasses`). The API that the run `smoke` finds
healthy and failing is thus no special case.

## What is only model-checked, and what is not modelled

Liveness (`EmailBlockLifts`, `IpBlockLifts`, `EveryMessageEnds`, `SignalEndsWorker`, `RoleChangeTakesEffect`, `SignalEndsScript`, the liveness of
`AtLeastOnce`) stays with TLC: fairness and ENABLED are out of the prover's reach.
`ReuseClosesFamily`, `LogoutAllClosesSessions`, `FullEmailIsNotCompared`, `PatchIsPartial` and `HealthyApiPasses` do not hold of
the code; each has a run that shows how.

Of the sessions, TLC also checks the refinement and the inductive invariant on its instance; the other invariants were checked
there before they were proved.

Not modelled: the cryptography of tokens and passwords (a verdict); uploads and AI chat beyond their routes (one
awaited call and no state: the key of an upload is drawn by `randomUUID`, its rule is a row of a table); request
plumbing, metrics, telemetry, documentation; what migrations and seeders write; the remaining scripts (sequential, without
state). The tables of users and products are modelled apart, since no statement touches both.
`countActiveSessions` is a diagnostic read.

## What could follow

All modules planned for this code are written, every safety property a passing run checks is proved, and so is the safety core of
the liveness of blocks and roles. What remains is what the abstract specifications promise by themselves, as theorems of their
modules (`SessionFamilies`, `UniqueTable`, `AtLeastOnce`): the refinements would then carry them to the code, where most are proved
directly today.
