--------------------------------- MODULE Routes ---------------------------------
(***************************************************************************)
(* The routes of the API and the two guards in front of them, JwtAuthGuard *)
(* and RolesGuard, which decide by the metadata that decorators put on     *)
(* controllers and their handlers.                                         *)
(***************************************************************************)

Roles == {"admin", "operador", "auditor", "soporte"}

-----------------------------------------------------------------------------
\* Decorators: the value of isPublic, and the roles, empty when not set.

Bare == [isPublic |-> "unset", roles |-> {}]

\* @Public() and @Protected().
Public == [isPublic |-> "true", roles |-> {}]
Protected == [isPublic |-> "false", roles |-> {}]

\* @Roles(...).
OnlyFor(R) == [isPublic |-> "unset", roles |-> R]

-----------------------------------------------------------------------------
\* Controllers: the metadata of the class and of each handler.

AuthController ==
    [class |-> Public,
     handlers |-> [register |-> Bare, login |-> Bare, google |-> Bare, refresh |-> Bare,
                   logout |-> Bare, logoutAll |-> Protected]]

UserController ==
    [class |-> OnlyFor({"admin"}),
     handlers |-> [index |-> Bare, show |-> Bare, store |-> Bare, update |-> Bare,
                   destroy |-> Bare]]

Editors == OnlyFor({"admin", "operador"})

ProductController ==
    [class |-> Bare,
     handlers |-> [index |-> Bare, show |-> Bare, store |-> Editors, update |-> Editors,
                   destroy |-> Editors]]

UploadController == [class |-> Bare, handlers |-> [store |-> Bare]]

AiChatController == [class |-> Bare, handlers |-> [store |-> Bare]]

HealthController ==
    [class |-> Public,
     handlers |-> [health |-> Bare, healthLive |-> Bare, healthStartup |-> Bare,
                   ready |-> Bare, readiness |-> Bare]]

MetricsController == [class |-> Public, handlers |-> [metrics |-> Bare]]

FrontendTelemetryController == [class |-> Public, handlers |-> [ingest |-> Bare]]

\* The modules AppModule imports.
Application ==
    [auth |-> AuthController, users |-> UserController, products |-> ProductController,
     uploads |-> UploadController, aiChat |-> AiChatController,
     health |-> HealthController, metrics |-> MetricsController,
     telemetry |-> FrontendTelemetryController]

\* An endpoint is a controller and one of its handlers.
Class(e) == Application[e[1]].class
Handler(e) == Application[e[1]].handlers[e[2]]

-----------------------------------------------------------------------------
\* The guards; both read metadata with getAllAndOverride([handler, class]).

IsPublic(e) ==
    IF Handler(e).isPublic = "unset"
      THEN Class(e).isPublic = "true"
      ELSE Handler(e).isPublic = "true"

\* Mutant of AllowedRoles: the metadata of the class is not consulted.
AllowedRolesOfHandler(e) == Handler(e).roles

AllowedRoles(e) == IF Handler(e).roles = {} THEN Class(e).roles ELSE Handler(e).roles

\* What both guards let through; role is the claim of a verified access token,
\* "none" without one.
Admits(e, role) ==
    \/ IsPublic(e)
    \/ /\ role # "none"
       /\ AllowedRoles(e) = {} \/ role \in AllowedRoles(e)

=============================================================================
