--------------------------------- MODULE Startup ---------------------------------
(***************************************************************************)
(* How the processes of the program, the migration job, the API and the    *)
(* worker, come by their configuration and their database.                 *)
(*                                                                         *)
(* Each process merges its sources (loadConfig), validates the result,     *)
(* writes it back to process.env, and goes on.  The API then loads         *)
(* AppModule, whose ConfigModule reads files and process.env once more.    *)
(* In a container the files do not exist (.dockerignore) and NODE_ENV is   *)
(* production (Dockerfile); the migration is a PreSync job (README.md).    *)
(***************************************************************************)
EXTENDS Naturals, SequencesExt, FiniteSetsExt

CONSTANT MaxMentions   \* bound on the settings given beside the usual ones

ASSUME MentionsBound == MaxMentions \in Nat

VARIABLES
    place,   \* where the processes run: a container, a workstation, or under
             \* start-prod-like-local.ts on a workstation
    stage,   \* APP_STAGE
    nodeEnv, \* NODE_ENV
    given,   \* what each source says of each setting
    proc     \* the processes

config == <<place, stage, nodeEnv, given>>
startupVars == <<config, proc>>

-----------------------------------------------------------------------------
\* Settings and sources.

Stages == {"local", "development", "staging", "production"}

\* Settings of environmentSchema with a default, and optional ones, for which
\* the empty string is undefined.
Defaulted == {"JWT_SECRET", "CORS_ALLOWED_ORIGINS"}
Optional == {"DATABASE_URL", "DATABASE_SECRET_ARN", "SQS_QUEUE_URL",
             "AWS_ACCESS_KEY_ID", "AWS_SECRET_ACCESS_KEY"}
Settings == Defaulted \cup Optional

\* .env, .env.<stage>, SSM, the JSON secret and the environment of the process.
\* A secret that is not JSON mentions nothing.
Sources == {"os", "secret", "ssm", "env", "envStage"}

SourcesAt == [container |-> {"os", "secret", "ssm"}, workstation |-> {"os", "env", "envStage"},
              prodLike |-> {"os", "env"}]

\* A validated setting is named by the source it comes from.
View == [Settings -> Sources \cup {"default", "undefined", "invalid"}]

\* process.env of a process: a value in it comes from a source or is a default
\* that was written to it.
Environs == [Settings -> Sources \cup {"default", "empty", "absent"}]

Processes == {"migration", "api", "worker"}

Unread == [k \in Settings |-> "undefined"]

Off == [pc |-> "off", environ |-> [k \in Settings |-> "absent"],
        env |-> Unread, seen |-> Unread, database |-> <<"none">>]

IsProdLike == stage \in {"staging", "production"}

-----------------------------------------------------------------------------
\* Merging and validating.

Mentioned(s, k) == IF given[s][k] = "set" THEN s ELSE given[s][k]

\* process.env as a process is started with it.
Inherited == [k \in Settings |-> Mentioned("os", k)]

\* What process.env says of a setting or else the first source of the list that
\* mentions it; an empty mention counts.
Found(environ, order, k) ==
    LET i == SelectInSeq(order, LAMBDA s : given[s][k] # "absent")
    IN  CASE environ[k] # "absent" -> environ[k]
          [] environ[k] = "absent" /\ i # 0 -> Mentioned(order[i], k)
          [] OTHER -> "absent"

Parse(k, text) ==
    CASE text = "absent" -> IF k \in Defaulted THEN "default" ELSE "undefined"
      [] text = "empty" -> IF k \in Optional THEN "undefined" ELSE "invalid"
      [] OTHER -> text

Merged(environ, order) == [k \in Settings |-> Parse(k, Found(environ, order, k))]

\* loadConfig: process.env > Secrets Manager > SSM > .env.
LoaderOrder == IF stage = "local" THEN <<"env">> ELSE <<"secret", "ssm">>

\* ConfigModule.forRoot: .env.<stage> and .env, unless production is at work.
ModuleFiles ==
    IF stage = "production" \/ nodeEnv = "production" THEN <<>> ELSE <<"envStage", "env">>

\* Mutant of Written: validateEnvironmentAsync only returns what it validated.
NotWritten(environ, v) == environ

\* What validateEnvironmentAsync leaves in process.env.
Written(environ, v) ==
    [k \in Settings |-> IF v[k] = "undefined" THEN environ[k] ELSE v[k]]

\* Mutant of Valid: staging is not held to the rules of production.
ValidLaxInStaging(v) ==
    /\ \A k \in Settings : v[k] # "invalid"
    /\ (v.AWS_ACCESS_KEY_ID = "undefined") = (v.AWS_SECRET_ACCESS_KEY = "undefined")
    /\ stage = "production" =>
         /\ v.JWT_SECRET # "default" /\ v.CORS_ALLOWED_ORIGINS # "default"
         /\ v.AWS_ACCESS_KEY_ID = "undefined"
         /\ {v.DATABASE_URL, v.DATABASE_SECRET_ARN} # {"undefined"}

\* environmentSchema; the default CORS origin is on localhost.
Valid(v) ==
    /\ \A k \in Settings : v[k] # "invalid"
    /\ (v.AWS_ACCESS_KEY_ID = "undefined") = (v.AWS_SECRET_ACCESS_KEY = "undefined")
    /\ IsProdLike =>
         /\ v.JWT_SECRET # "default" /\ v.CORS_ALLOWED_ORIGINS # "default"
         /\ v.AWS_ACCESS_KEY_ID = "undefined"
         /\ {v.DATABASE_URL, v.DATABASE_SECRET_ARN} # {"undefined"}

\* resolveDatabaseUrl.
Database(v) ==
    CASE v.DATABASE_URL # "undefined" -> <<"url", v.DATABASE_URL>>
      [] v.DATABASE_URL = "undefined" /\ v.DATABASE_SECRET_ARN # "undefined" ->
           <<"arn", v.DATABASE_SECRET_ARN>>
      [] OTHER -> IF stage = "local" THEN <<"local">> ELSE <<"none">>

-----------------------------------------------------------------------------
\* The steps of a process, from one await to the next.

Fails(p) == proc' = [proc EXCEPT ![p].pc = "failed"]

\* loadConfig up to its first await: normalizeStage refuses any other stage.
Start(p) ==
    /\ proc[p] = Off
    /\ IF stage \in Stages
         THEN proc' = [proc EXCEPT ![p].pc = "ssm", ![p].environ = Inherited] ELSE Fails(p)
    /\ UNCHANGED config

\* fetchSsmParameters, page by page; an error ends the process.
FetchSsm(p) ==
    /\ proc[p].pc = "ssm"
    /\ \/ proc' = [proc EXCEPT ![p].pc = "secret"]
       \/ stage # "local" /\ Fails(p)
    /\ UNCHANGED config

\* The worker insists on its queue; the API loads its modules; the migration
\* goes on with what it validated.
AfterLoading(p, v) ==
    CASE p = "worker" -> IF v.SQS_QUEUE_URL = "undefined" THEN "failed" ELSE "up"
      [] p = "api" -> "modules"
      [] OTHER -> "database"

\* fetchSecretsManagerJson, then the merge, validateEnvironment and the way back
\* to process.env.
FetchSecret(p) ==
    LET v == Merged(proc[p].environ, LoaderOrder)
    IN  /\ proc[p].pc = "secret"
        /\ \/ /\ Valid(v)
              /\ proc' = [proc EXCEPT ![p].pc = AfterLoading(p, v), ![p].env = v, ![p].seen = v,
                                      ![p].environ = Written(@, v)]
           \/ ~ Valid(v) /\ Fails(p)
           \/ stage # "local" /\ Fails(p)
        /\ UNCHANGED config

\* AppModule: ConfigModule merges process.env and its files, and validates.
LoadModules ==
    LET v == Merged(proc["api"].environ, ModuleFiles)
    IN  /\ proc["api"].pc = "modules"
        /\ IF Valid(v)
             THEN proc' = [proc EXCEPT !["api"].pc = "database", !["api"].seen = v]
             ELSE Fails("api")
        /\ UNCHANGED config

\* DatabaseModule of the API and runMigrations: the URL, the RDS secret behind
\* an ARN, which may be unreadable, or the local default.
Connect(p) ==
    LET d == Database(proc[p].seen)
    IN  /\ proc[p].pc = "database"
        /\ \/ /\ d # <<"none">>
              /\ proc' = [proc EXCEPT ![p].pc = "up", ![p].database = d]
           \/ d[1] \in {"none", "arn"} /\ Fails(p)
        /\ UNCHANGED config

-----------------------------------------------------------------------------
\* The environments processes are started in.

\* Settings without which nothing runs in the cloud, kept in the secret.
Usual ==
    [container |-> {<<"secret", k>> : k \in Defaulted \cup {"DATABASE_URL", "SQS_QUEUE_URL"}},
     workstation |-> {}, prodLike |-> {}]

MentionsAt == [container |-> MaxMentions, workstation |-> MaxMentions, prodLike |-> 1]

Mentions == UNION {kSubset(n, SourcesAt[place] \X Settings) : n \in 0..MentionsAt[place]}

\* The usual settings but for those in odd, which are empty, absent or added.
GivenWith(odd, how) ==
    [s \in Sources |-> [k \in Settings |->
        CASE <<s, k>> \in odd -> IF <<s, k>> \in Usual[place] /\ how[<<s, k>>] = "set"
                                   THEN "absent" ELSE how[<<s, k>>]
          [] <<s, k>> \in Usual[place] \ odd -> "set"
          [] OTHER -> "absent"]]

StartupInit ==
    /\ place \in {"container", "workstation", "prodLike"}
    /\ stage \in IF place = "prodLike" THEN {"local"} ELSE Stages \cup {"other"}
    /\ nodeEnv \in IF place = "workstation" THEN {"production", "development"} ELSE {"production"}
    /\ \E odd \in Mentions : \E how \in [odd -> {"set", "empty"}] : given = GivenWith(odd, how)
    /\ proc = [p \in Processes |-> Off]

\* Processes share nothing while they start, so one starts at a time.
NoneStarting == \A p \in Processes : proc[p].pc \in {"off", "up", "failed"}

\* Argo CD runs the migration first; the script runs the API alone.
InOrder(p) ==
    \/ place = "workstation"
    \/ place = "container" /\ (p = "migration" \/ proc["migration"].pc = "up")

Work(p) == FetchSsm(p) \/ FetchSecret(p) \/ Connect(p)

StartupNext ==
    \/ \E p \in Processes : (InOrder(p) /\ NoneStarting /\ Start(p)) \/ Work(p)
    \/ LoadModules

-----------------------------------------------------------------------------
\* Properties.

Loaded(p) == proc[p].pc \in {"database", "up"}

\* A file that ConfigModule reads and the loader does not mentions the setting.
Stray(k) == \E s \in {"env", "envStage"} \ Range(LoaderOrder) : given[s][k] # "absent"

\* main.ts takes CORS and the proxies from what bootstrap validated, the modules
\* take everything from ConfigService, which merged again: the two differ only in
\* a setting that bootstrap had no value for and a stray file has, whatever the
\* sources say and leave empty.
OneConfiguration ==
    \A p \in Processes, k \in Settings :
        Loaded(p) /\ proc[p].seen[k] # proc[p].env[k] =>
            p = "api" /\ proc[p].env[k] = "undefined" /\ Stray(k)

\* The migration and the API of one deployment work on one database, whatever
\* the sources say, unless a stray file names another.
SameDatabase ==
    proc["api"].pc = "up" /\ proc["migration"].pc = "up" /\
      ~ Stray("DATABASE_URL") /\ ~ Stray("DATABASE_SECRET_ARN") =>
        proc["api"].database = proc["migration"].database

\* No process is up in staging or production with the JWT secret or the CORS
\* origins of the repository, with AWS keys, or without a database it was told
\* of, although values arrive after the first validation.
ProdLikeIsExplicit ==
    \A p \in Processes :
        IsProdLike /\ proc[p].pc = "up" =>
            /\ \A k \in Defaulted : proc[p].seen[k] \notin {"default", "undefined"}
            /\ proc[p].seen.AWS_ACCESS_KEY_ID = "undefined"
            /\ p # "worker" => proc[p].database[1] \in {"url", "arn"}

-----------------------------------------------------------------------------
\* What holds from step to step.

Answers == Sources \cup {"default", "undefined", "invalid"}

Databases == {<<"none">>, <<"local">>} \cup ({"url", "arn"} \X Answers)

ProcessPcs == {"off", "ssm", "secret", "modules", "database", "up", "failed", "stopped"}

StartupTypeOK ==
    /\ place \in {"container", "workstation", "prodLike"}
    /\ given \in [Sources -> [Settings -> {"set", "empty", "absent"}]]
    /\ proc \in [Processes -> [pc : ProcessPcs, environ : Environs, env : View, seen : View,
                               database : Databases]]

\* What a process has read is what the sources say now, and it is valid.
ReadsWhatIsGiven ==
    \A p \in Processes :
        /\ proc[p].pc \in {"ssm", "secret"} => proc[p].environ = Inherited
        /\ proc[p].pc \in {"modules", "database", "up"} =>
             /\ proc[p].env = Merged(Inherited, LoaderOrder) /\ Valid(proc[p].env)
             /\ proc[p].environ = Written(Inherited, proc[p].env)
        /\ Loaded(p) =>
             /\ Valid(proc[p].seen)
             /\ proc[p].seen = IF p = "api" THEN Merged(proc[p].environ, ModuleFiles)
                               ELSE proc[p].env

\* A process that is up has the database that it was told of.
HasItsDatabase ==
    /\ proc["worker"].pc # "database"
    /\ \A p \in Processes \ {"worker"} :
         proc[p].pc = "up" =>
             proc[p].database = Database(proc[p].seen) /\ proc[p].database # <<"none">>

=============================================================================
