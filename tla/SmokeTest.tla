-------------------------------- MODULE SmokeTest --------------------------------
(***************************************************************************)
(* scripts/smoke-endpoints.ts, which the deployment workflows run until it *)
(* passes, against the API behind the guards of Routes.  The script asks   *)
(* the steps of a list one after the other and stops at the first that     *)
(* fails.  It is a plain HTTP client: it keeps no cookies.                 *)
(***************************************************************************)
EXTENDS Routes, Sequences, Naturals

CONSTANTS
    Attempts,    \* how often the workflow runs the script: a bound, 20 there
    DocsServed   \* docsEnabled of main.ts: by default, not in production

VARIABLES
    attempt,   \* the run of the script, from 1
    step,      \* the step of it, from 1
    bearer,    \* the role in state.access_token, "none" when empty
    lostLast,  \* history: the last attempt failed for want of an answer
    result     \* of the workflow: running, passed, or failed

smokeVars == <<attempt, step, bearer, lostLast, result>>

-----------------------------------------------------------------------------
\* The list of steps; reads are the values readString and readNumber insist on.

Plain(c, h) == [on |-> <<c, h>>, auth |-> FALSE, expects |-> 200, reads |-> {}]

Bearer(c, h) == [Plain(c, h) EXCEPT !.auth = TRUE]

Auth(h, expects, reads) ==
    [Plain("auth", h) EXCEPT !.expects = expects, !.reads = reads]

Store(c, reads) == [Bearer(c, "store") EXCEPT !.expects = 201, !.reads = reads]

Steps ==
    << Plain("health", "health"), Plain("health", "ready"), Plain("docs", "json"),
       Auth("register", 201, {"access_token", "refresh_token"}),
       Auth("login", 200, {"access_token"}),
       Auth("refresh", 200, {"access_token"}),
       Store("uploads", {}),
       Bearer("users", "index"), Store("users", {"user.id"}),
       Bearer("users", "show"), Bearer("users", "update"),
       Store("products", {"product.id"}), Bearer("products", "index"),
       Bearer("products", "show"), Bearer("products", "update"),
       Bearer("products", "destroy"), Bearer("users", "destroy") >>

-----------------------------------------------------------------------------
\* The API, healthy.

\* setupSwagger serves the document next to the controllers, without guards.
LetThrough(e, role) == e = <<"docs", "json">> \/ Admits(e, role)

\* The script sends the refresh token in the body, which authRefreshRequestDto
\* wants empty, and no cookie, which requireRefreshToken wants.
Refused(s) == s.on = <<"auth", "refresh">>

Created ==
    {<<"auth", "register">>, <<"users", "store">>, <<"products", "store">>,
     <<"uploads", "store">>}

Status(s) ==
    IF s.on = <<"docs", "json">> /\ ~ DocsServed THEN 404
    ELSE IF ~ LetThrough(s.on, IF s.auth THEN bearer ELSE "none") THEN 403
    ELSE IF Refused(s) THEN 401
    ELSE IF s.on \in Created THEN 201 ELSE 200

\* The fields of the answer: issueSession takes the refresh token out of
\* the body and puts it into the cookie.
Fields(s) ==
    CASE s.on[1] = "auth" -> {"access_token", "user.id"}
      [] s.on[1] = "users" -> {"user.id"}
      [] s.on[1] = "products" -> {"product.id"}
      [] OTHER -> {}

\* A new user is an operador.
Granted == "operador"

-----------------------------------------------------------------------------

\* The loop of the workflow: a failed attempt is followed by another.
Fail(lost) ==
    IF attempt < Attempts
      THEN /\ attempt' = attempt + 1 /\ step' = 1 /\ bearer' = "none"
           /\ UNCHANGED <<lostLast, result>>
      ELSE /\ result' = "failed" /\ lostLast' = lost
           /\ UNCHANGED <<attempt, step, bearer>>

\* The API answered, with the status and the fields the step expects.
Pass(s) ==
    /\ step' = IF step < Len(Steps) THEN step + 1 ELSE step
    /\ result' = IF step < Len(Steps) THEN result ELSE "passed"
    /\ bearer' = IF "access_token" \in s.reads THEN Granted ELSE bearer
    /\ UNCHANGED <<attempt, lostLast>>

Answered ==
    LET s == Steps[step]
    IN  /\ result = "running"
        /\ IF Status(s) = s.expects /\ s.reads \subseteq Fields(s) THEN Pass(s) ELSE Fail(FALSE)

\* createConnectionError, or the timeout of the request: no API, or a slow one.
Unanswered == result = "running" /\ Fail(TRUE)

SmokeInit ==
    /\ attempt = 1 /\ step = 1
    /\ bearer = "none"
    /\ lostLast = FALSE
    /\ result = "running"

SmokeSpec == SmokeInit /\ [][Answered \/ Unanswered]_smokeVars

-----------------------------------------------------------------------------

\* "Smoke passed on attempt" (deploy-development.yml:151): a deployment whose API
\* answers every request of the last attempt passes the smoke tests.
HealthyApiPasses == result = "failed" => lostLast

\* What the code does instead: no attempt gets past the registration, the fourth
\* step, however many there are and whatever answers are lost.
NoAttemptPasses == result # "passed" /\ step \in 1..4

=============================================================================
