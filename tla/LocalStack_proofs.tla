---------------------------- MODULE LocalStack_proofs ----------------------------
(***************************************************************************)
(* Proofs about Startup under LocalStack, for every combination of sources *)
(* and settings, however many are odd.                                     *)
(*                                                                         *)
(* The sources only change before a process runs, so what a process read   *)
(* and wrote to its process.env stays what the sources say; a container is *)
(* known to the script that ran it, or lost for a reason.                  *)
(***************************************************************************)
EXTENDS LocalStack, SequenceTheorems, TLAPS

\* Every process has locals of this kind.
ProcessLocals ==
    [pc : ProcessPcs, environ : Environs, env : View, seen : View, database : Databases]

GivenOK == given \in [Sources -> [Settings -> {"set", "empty", "absent"}]]

\* Where the loader and ConfigModule look after process.env.
Orders == {LoaderOrder, ModuleFiles}

\* What ConfigModule sees after env was validated.
ModuleView(env) == Merged(Written(Inherited, env), ModuleFiles)

-----------------------------------------------------------------------------
\* Merging.

\* The least of at most two positions.
LEMMA LeastOfTwo ==
  ASSUME NEW I \in SUBSET (1..2), I # {}
  PROVE  Min(I) \in I /\ \A j \in I : Min(I) <= j
<1>1. \E i \in I : \A j \in I : i <= j
  <2>1. CASE 1 \in I
    BY <2>1
  <2>2. CASE 1 \notin I
    <3>1. PICK i \in I : TRUE
      OBVIOUS
    <3>2. \A j \in I : j = 2
      BY <2>2
    <3> QED BY <3>1, <3>2
  <2> QED BY <2>1, <2>2
<1> QED BY <1>1 DEF Min

\* Two sources at most, and ConfigModule only reads files.
LEMMA OrdersAre ==
  /\ \A order \in Orders : order \in Seq(Sources) /\ Len(order) \in 0..2
  /\ LoaderOrder \in {<<"env">>, <<"secret", "ssm">>}
  /\ \A i \in 1..Len(ModuleFiles) : ModuleFiles[i] \in {"envStage", "env"}
<1>1. /\ <<>> \in Seq(Sources) /\ Len(<<>>) = 0
      /\ <<"envStage", "env">> \in Seq(Sources) /\ Len(<<"envStage", "env">>) = 2
      /\ <<"env">> \in Seq(Sources) /\ Len(<<"env">>) = 1
      /\ <<"secret", "ssm">> \in Seq(Sources) /\ Len(<<"secret", "ssm">>) = 2
  BY DEF Sources
<1>2. ModuleFiles = <<>> \/ ModuleFiles = <<"envStage", "env">>
  BY DEF ModuleFiles
<1>3. LoaderOrder = <<"env">> \/ LoaderOrder = <<"secret", "ssm">>
  BY DEF LoaderOrder
<1>4. ModuleFiles \in Seq(Sources) /\ Len(ModuleFiles) \in 0..2
  <2>1. CASE ModuleFiles = <<>>
    BY <1>1, <2>1
  <2>2. CASE ModuleFiles = <<"envStage", "env">>
    BY <1>1, <2>2
  <2> QED BY <1>2, <2>1, <2>2
<1>5. LoaderOrder \in Seq(Sources) /\ Len(LoaderOrder) \in 0..2
  <2>1. CASE LoaderOrder = <<"env">>
    BY <1>1, <2>1
  <2>2. CASE LoaderOrder = <<"secret", "ssm">>
    BY <1>1, <2>2
  <2> QED BY <1>3, <2>1, <2>2
<1>6. \A i \in 1..Len(ModuleFiles) : ModuleFiles[i] \in {"envStage", "env"}
  <2>1. CASE ModuleFiles = <<>>
    BY <1>1, <2>1
  <2>2. CASE ModuleFiles = <<"envStage", "env">>
    BY <2>2
  <2> QED BY <1>2, <2>1, <2>2
<1> QED BY <1>3, <1>4, <1>5, <1>6 DEF Orders

\* What is found is in process.env, or comes from the first source of the list
\* that mentions the setting, or is nowhere.
LEMMA FoundIsFirst ==
  ASSUME NEW environ, NEW order \in Orders, NEW k \in Settings
  PROVE  \/ environ[k] # "absent" /\ Found(environ, order, k) = environ[k]
         \/ /\ environ[k] = "absent" /\ Found(environ, order, k) = "absent"
            /\ \A i \in 1..Len(order) : given[order[i]][k] = "absent"
         \/ /\ environ[k] = "absent"
            /\ \E i \in 1..Len(order) :
                 /\ Found(environ, order, k) = Mentioned(order[i], k)
                 /\ given[order[i]][k] # "absent"
                 /\ \A j \in 1..Len(order) : j < i => given[order[j]][k] = "absent"
<1> DEFINE I == {i \in 1..Len(order) : given[order[i]][k] # "absent"}
           first == SelectInSeq(order, LAMBDA s : given[s][k] # "absent")
<1>1. first = IF I # {} THEN Min(I) ELSE 0
  BY DEF SelectInSeq
<1>2. Len(order) \in 0..2
  BY OrdersAre
<1>3. I \in SUBSET (1..2) /\ 0 \notin I
  BY <1>2
<1>4. CASE environ[k] # "absent"
  BY <1>4 DEF Found
<1>5. CASE environ[k] = "absent" /\ I = {}
  <2>1. Found(environ, order, k) = "absent"
    BY <1>1, <1>5 DEF Found
  <2> QED BY <1>5, <2>1
<1>6. CASE environ[k] = "absent" /\ I # {}
  <2>1. Min(I) \in I /\ \A j \in I : Min(I) <= j
    BY <1>3, <1>6, LeastOfTwo
  <2>2. first = Min(I) /\ first # 0
    BY <1>1, <1>3, <1>6, <2>1
  <2>3. Found(environ, order, k) = Mentioned(order[Min(I)], k)
    <3> HIDE DEF I
    <3> QED BY <1>6, <2>2 DEF Found
  <2>4. \A j \in 1..Len(order) : j < Min(I) => given[order[j]][k] = "absent"
    BY <2>1
  <2> QED BY <1>6, <2>1, <2>3, <2>4
<1> QED BY <1>4, <1>5, <1>6

\* A text that is found is one that process.env may hold.
LEMMA FoundIsText ==
  ASSUME GivenOK, NEW environ \in Environs, NEW order \in Orders, NEW k \in Settings
  PROVE  Found(environ, order, k) \in Sources \cup {"default", "empty", "absent"}
<1>1. environ[k] \in Sources \cup {"default", "empty", "absent"}
  BY DEF Environs
<1>2. \A i \in 1..Len(order) : order[i] \in Sources
  BY OrdersAre
<1>3. \A i \in 1..Len(order) : Mentioned(order[i], k) \in Sources \cup {"empty", "absent"}
  BY <1>2 DEF Mentioned, GivenOK
<1> QED BY <1>1, <1>3, FoundIsFirst

\* A setting is undefined when it is optional and its text is empty or nowhere;
\* a text that is not empty is its own answer.
LEMMA Parsed ==
  ASSUME NEW k \in Settings, NEW text \in Sources \cup {"default", "empty", "absent"}
  PROVE  /\ Parse(k, text) \in Answers
         /\ Parse(k, text) = "undefined" <=> k \in Optional /\ text \in {"absent", "empty"}
         /\ text \notin {"absent", "empty"} => Parse(k, text) = text
BY DEF Parse, Answers, Sources, Settings, Defaulted, Optional

\* Every setting gets an answer, and one with a default is never undefined.
LEMMA MergedIsView ==
  ASSUME GivenOK, NEW environ \in Environs, NEW order \in Orders
  PROVE  /\ Merged(environ, order) \in View
         /\ \A k \in Defaulted : Merged(environ, order)[k] # "undefined"
<1>1. \A k \in Settings : Parse(k, Found(environ, order, k)) \in Answers
  BY FoundIsText, Parsed
<1>2. \A k \in Defaulted : k \in Settings /\ k \notin Optional
  BY DEF Settings, Defaulted, Optional
<1>3. \A k \in Defaulted : Parse(k, Found(environ, order, k)) # "undefined"
  BY <1>2, FoundIsText, Parsed
<1> QED BY <1>1, <1>2, <1>3 DEF Merged, View, Answers

\* process.env as a process is started with it, and as it is once it was written to.
LEMMA EnvironsAre ==
  ASSUME GivenOK
  PROVE  /\ Inherited \in Environs
         /\ \A v \in View : Valid(v) => Written(Inherited, v) \in Environs
<1>1. Inherited \in Environs
  BY DEF Inherited, Mentioned, GivenOK, Sources, Environs
<1>2. ASSUME NEW v \in View, Valid(v)
      PROVE  Written(Inherited, v) \in Environs
  <2>1. \A k \in Settings : v[k] \in Sources \cup {"default", "undefined"}
    BY <1>2 DEF Valid, View
  <2>2. \A k \in Settings : Inherited[k] \in Sources \cup {"default", "empty", "absent"}
    BY <1>1 DEF Environs
  <2> QED BY <2>1, <2>2 DEF Written, Environs
<1> QED BY <1>1, <1>2

\* The same after ConfigModule has read its files.
LEMMA ModuleViewIsView ==
  ASSUME GivenOK, NEW env \in View, Valid(env)
  PROVE  /\ ModuleView(env) \in View
         /\ \A k \in Defaulted : ModuleView(env)[k] # "undefined"
BY EnvironsAre, MergedIsView DEF ModuleView, Orders

\* What was validated was written, is found before any file, and is its own answer.
LEMMA ValidatedIsSeen ==
  ASSUME GivenOK, NEW env \in View, Valid(env), NEW k \in Settings, env[k] # "undefined"
  PROVE  ModuleView(env)[k] = env[k]
<1>1. env[k] \in Sources \cup {"default"}
  BY DEF View, Valid
<1>2. env[k] \notin {"absent", "empty"}
  BY <1>1 DEF Sources
<1>3. Written(Inherited, env)[k] = env[k]
  BY DEF Written
<1>4. Found(Written(Inherited, env), ModuleFiles, k) = env[k]
  BY <1>2, <1>3 DEF Found
<1>5. Parse(k, env[k]) = env[k]
  BY <1>1, <1>2, Parsed
<1> QED BY <1>4, <1>5 DEF ModuleView, Merged

\* What loadConfig left undefined, ConfigModule leaves undefined, unless a stray
\* file mentions it.
LEMMA StaysUndefined ==
  ASSUME GivenOK, NEW k \in Settings, Merged(Inherited, LoaderOrder)[k] = "undefined", ~ Stray(k)
  PROVE  ModuleView(Merged(Inherited, LoaderOrder))[k] = "undefined"
<1> DEFINE written == Written(Inherited, Merged(Inherited, LoaderOrder))
           read == Found(Inherited, LoaderOrder, k)
           again == Found(written, ModuleFiles, k)
<1>1. k \in Optional /\ read \in {"absent", "empty"}
  <2>1. Parse(k, read) = "undefined"
    BY DEF Merged
  <2>2. read \in Sources \cup {"default", "empty", "absent"}
    BY EnvironsAre, FoundIsText DEF Orders
  <2> QED BY <2>1, <2>2, Parsed
<1>2. written[k] = Inherited[k]
  BY DEF Written
<1>3. again \in {"absent", "empty"}
  <2>1. CASE Inherited[k] # "absent"
    BY <1>1, <1>2, <2>1 DEF Found
  <2>2. CASE Inherited[k] = "absent"
    <3> SUFFICES ASSUME again # "absent"
                 PROVE  again \in {"absent", "empty"}
      OBVIOUS
    <3>1. PICK i \in 1..Len(ModuleFiles) :
            again = Mentioned(ModuleFiles[i], k) /\ given[ModuleFiles[i]][k] # "absent"
      BY <1>2, <2>2, FoundIsFirst DEF Orders
    <3>2. ModuleFiles[i] \in Range(LoaderOrder) /\ ModuleFiles[i] \in {"envStage", "env"}
      BY <3>1, OrdersAre DEF Stray
    <3>3. ModuleFiles[i] = "env" /\ LoaderOrder = <<"env">>
      BY <3>2, OrdersAre DEF Range
    <3>4. read = Mentioned("env", k)
      <4>1. Len(LoaderOrder) = 1 /\ LoaderOrder[1] = "env"
        BY <3>3
      <4>2. given[LoaderOrder[1]][k] # "absent" /\ 1 \in 1..Len(LoaderOrder)
        BY <3>1, <3>3, <4>1
      <4>3. PICK j \in 1..Len(LoaderOrder) : read = Mentioned(LoaderOrder[j], k)
        BY <2>2, <4>2, FoundIsFirst DEF Orders
      <4> QED BY <4>1, <4>3
    <3> QED BY <1>1, <3>1, <3>3, <3>4
  <2> QED BY <2>1, <2>2
<1>4. Parse(k, again) = "undefined"
  BY <1>1, <1>3, Parsed
<1> QED BY <1>4 DEF ModuleView, Merged

\* So both resolve the same database.
LEMMA SameDatabaseRead ==
  ASSUME GivenOK, Valid(Merged(Inherited, LoaderOrder)),
         ~ Stray("DATABASE_URL"), ~ Stray("DATABASE_SECRET_ARN")
  PROVE  Database(ModuleView(Merged(Inherited, LoaderOrder))) = Database(Merged(Inherited, LoaderOrder))
<1> DEFINE v == Merged(Inherited, LoaderOrder)
<1>1. v \in View
  BY EnvironsAre, MergedIsView DEF Orders
<1>2. ASSUME NEW k \in {"DATABASE_URL", "DATABASE_SECRET_ARN"}
      PROVE  ModuleView(v)[k] = v[k]
  <2>1. k \in Settings /\ ~ Stray(k)
    BY DEF Settings, Optional
  <2>2. CASE v[k] = "undefined"
    BY <2>1, <2>2, StaysUndefined
  <2>3. CASE v[k] # "undefined"
    BY <1>1, <2>1, <2>3, ValidatedIsSeen
  <2> QED BY <2>2, <2>3
<1>3. /\ ModuleView(v).DATABASE_URL = v.DATABASE_URL
      /\ ModuleView(v).DATABASE_SECRET_ARN = v.DATABASE_SECRET_ARN
  BY <1>2
<1> HIDE DEF v
<1>4. Database(ModuleView(v)) = Database(v)
  BY <1>3 DEF Database
<1> QED BY <1>4 DEF v

-----------------------------------------------------------------------------
\* The steps of the processes.

\* What the sources say depends on nothing that a process does.
LEMMA ConfigKeeps ==
  ASSUME UNCHANGED config
  PROVE  /\ Inherited' = Inherited
         /\ Merged(Inherited, LoaderOrder)' = Merged(Inherited, LoaderOrder)
         /\ \A e \in Environs : Merged(e, ModuleFiles)' = Merged(e, ModuleFiles)
         /\ \A v \in View : /\ Valid(v)' = Valid(v)
                            /\ Written(Inherited, v)' = Written(Inherited, v)
                            /\ Database(v)' = Database(v)
<1>1. stage' = stage /\ nodeEnv' = nodeEnv /\ given' = given
  BY DEF config
<1>2. LoaderOrder' = LoaderOrder /\ ModuleFiles' = ModuleFiles
  BY <1>1 DEF LoaderOrder, ModuleFiles
<1>3. Inherited' = Inherited
  BY <1>1 DEF Inherited, Mentioned
<1>4. \A k \in Settings :
        /\ Found(Inherited, LoaderOrder, k)' = Found(Inherited, LoaderOrder, k)
        /\ \A e \in Environs : Found(e, ModuleFiles, k)' = Found(e, ModuleFiles, k)
  BY <1>1, <1>2, <1>3 DEF Found, SelectInSeq, Mentioned
<1>5. \A k \in Settings : \A text : Parse(k, text)' = Parse(k, text)
  BY DEF Parse
<1>6. Merged(Inherited, LoaderOrder)' = Merged(Inherited, LoaderOrder)
  BY <1>4, <1>5 DEF Merged
<1>7. \A e \in Environs : Merged(e, ModuleFiles)' = Merged(e, ModuleFiles)
  BY <1>4, <1>5 DEF Merged
<1>8. ASSUME NEW v \in View
      PROVE  /\ Valid(v)' = Valid(v)
             /\ Written(Inherited, v)' = Written(Inherited, v)
             /\ Database(v)' = Database(v)
  <2>1. Valid(v)' = Valid(v)
    BY <1>1 DEF Valid, IsProdLike
  <2>2. Written(Inherited, v)' = Written(Inherited, v)
    BY <1>3 DEF Written
  <2>3. Database(v)' = Database(v)
    BY <1>1 DEF Database
  <2> QED BY <2>1, <2>2, <2>3
<1> QED BY <1>3, <1>6, <1>7, <1>8

\* The locals r of a process q fit what the sources say.
FitsSources(q, r) ==
    /\ r.pc \in {"ssm", "secret"} => r.environ = Inherited
    /\ r.pc \in {"modules", "database", "up"} =>
         /\ r.env = Merged(Inherited, LoaderOrder) /\ Valid(r.env)
         /\ r.environ = Written(Inherited, r.env)
    /\ r.pc \in {"database", "up"} =>
         /\ Valid(r.seen)
         /\ r.seen = IF q = "api" THEN Merged(r.environ, ModuleFiles) ELSE r.env
    /\ q = "worker" => r.pc # "database"
    /\ q # "worker" /\ r.pc = "up" => r.database = Database(r.seen) /\ r.database # <<"none">>

\* The invariant process by process.
LEMMA ByProcess ==
  StartupTypeOK =>
    (ReadsWhatIsGiven /\ HasItsDatabase <=> \A p \in Processes : FitsSources(p, proc[p]))
BY DEF StartupTypeOK, ReadsWhatIsGiven, Loaded, HasItsDatabase, FitsSources, Processes

LEMMA ByProcessNext ==
  StartupTypeOK' =>
    ((ReadsWhatIsGiven /\ HasItsDatabase)' <=> \A p \in Processes : FitsSources(p, proc[p])')
BY DEF StartupTypeOK, ReadsWhatIsGiven, Loaded, HasItsDatabase, FitsSources, Processes

\* What fits goes on fitting while the sources stay.
LEMMA FitsKeeps ==
  ASSUME UNCHANGED config, NEW q \in Processes, NEW r \in ProcessLocals, FitsSources(q, r)
  PROVE  FitsSources(q, r)'
<1>1. r.environ \in Environs /\ r.env \in View /\ r.seen \in View
  BY DEF ProcessLocals
<1>2. /\ Valid(r.env)' = Valid(r.env) /\ Valid(r.seen)' = Valid(r.seen)
      /\ Written(Inherited, r.env)' = Written(Inherited, r.env)
      /\ Database(r.seen)' = Database(r.seen)
      /\ Merged(r.environ, ModuleFiles)' = Merged(r.environ, ModuleFiles)
      /\ Inherited' = Inherited
      /\ Merged(Inherited, LoaderOrder)' = Merged(Inherited, LoaderOrder)
  BY <1>1, ConfigKeeps
<1> QED BY <1>2 DEF FitsSources

\* One process moves, to a state in which it has read what the sources say.
LEMMA OneProcessMoves ==
  ASSUME StartupTypeOK, ReadsWhatIsGiven, HasItsDatabase, UNCHANGED config,
         NEW q \in Processes, NEW r \in ProcessLocals, FitsSources(q, r),
         proc' = [proc EXCEPT ![q] = r]
  PROVE  StartupTypeOK' /\ ReadsWhatIsGiven' /\ HasItsDatabase'
<1>1. /\ place' = place /\ given' = given
      /\ proc \in [Processes -> ProcessLocals] /\ proc' \in [Processes -> ProcessLocals]
      /\ \A p \in Processes : proc'[p] = IF p = q THEN r ELSE proc[p]
  BY DEF config, StartupTypeOK, ProcessLocals
<1>2. StartupTypeOK'
  BY <1>1 DEF StartupTypeOK, ProcessLocals
<1>3. ASSUME NEW p \in Processes
      PROVE  FitsSources(p, proc[p])'
  <2>1. PICK m \in ProcessLocals : m = proc'[p] /\ FitsSources(p, m)
    BY <1>1, ByProcess
  <2>2. FitsSources(p, m)'
    BY <2>1, FitsKeeps
  <2> QED BY <2>1, <2>2 DEF FitsSources
<1>4. (ReadsWhatIsGiven /\ HasItsDatabase)'
  BY <1>2, <1>3, ByProcessNext
<1> QED BY <1>2, <1>4

\* The locals of a process are what the invariant says.
LEMMA LocalsFit ==
  ASSUME StartupTypeOK, ReadsWhatIsGiven, HasItsDatabase, NEW q \in Processes
  PROVE  proc[q] \in ProcessLocals /\ FitsSources(q, proc[q])
BY ByProcess DEF StartupTypeOK, ProcessLocals

\* A process that goes on to the secret, fails or is stopped promises nothing new.
LEMMA EarlyStepsKeep ==
  ASSUME StartupTypeOK, ReadsWhatIsGiven, HasItsDatabase, UNCHANGED config,
         NEW q \in Processes, NEW pc \in {"secret", "failed", "stopped"},
         pc = "secret" => proc[q].pc = "ssm",
         proc' = [proc EXCEPT ![q].pc = pc]
  PROVE  StartupTypeOK' /\ ReadsWhatIsGiven' /\ HasItsDatabase'
<1> DEFINE r == [proc[q] EXCEPT !.pc = pc]
<1>1. proc[q] \in ProcessLocals /\ FitsSources(q, proc[q])
  BY LocalsFit
<1>2. /\ r \in ProcessLocals /\ r.pc = pc /\ r.environ = proc[q].environ
      /\ proc' = [proc EXCEPT ![q] = r]
  BY <1>1 DEF StartupTypeOK, ProcessLocals, ProcessPcs
<1> HIDE DEF r
<1>3. FitsSources(q, r)
  BY <1>1, <1>2 DEF FitsSources
<1> QED BY <1>2, <1>3, OneProcessMoves

\* A process starts with the environment it inherits.
LEMMA StartKeeps ==
  ASSUME StartupTypeOK, ReadsWhatIsGiven, HasItsDatabase, NEW q \in Processes, Start(q)
  PROVE  StartupTypeOK' /\ ReadsWhatIsGiven' /\ HasItsDatabase'
<1>1. UNCHANGED config
  BY DEF Start
<1>2. CASE Fails(q)
  BY <1>1, <1>2, EarlyStepsKeep DEF Fails
<1>3. CASE proc' = [proc EXCEPT ![q].pc = "ssm", ![q].environ = Inherited]
  <2> DEFINE r == [proc[q] EXCEPT !.pc = "ssm", !.environ = Inherited]
  <2>1. proc[q] \in ProcessLocals /\ Inherited \in Environs
    BY LocalsFit, EnvironsAre DEF StartupTypeOK, GivenOK
  <2>2. "ssm" \in ProcessPcs
    BY DEF ProcessPcs
  <2>3. r \in ProcessLocals /\ r.pc = "ssm" /\ r.environ = Inherited
    BY <2>1, <2>2 DEF ProcessLocals
  <2>4. proc' = [proc EXCEPT ![q] = r]
    BY <1>3 DEF StartupTypeOK
  <2> HIDE DEF r
  <2>5. FitsSources(q, r)
    BY <2>3 DEF FitsSources
  <2> QED BY <1>1, <2>3, <2>4, <2>5, OneProcessMoves
<1> QED BY <1>2, <1>3 DEF Start

\* What FetchSecret read is valid and what the sources say, and process.env has it.
LEMMA FetchSecretKeeps ==
  ASSUME StartupTypeOK, ReadsWhatIsGiven, HasItsDatabase, NEW q \in Processes, FetchSecret(q)
  PROVE  StartupTypeOK' /\ ReadsWhatIsGiven' /\ HasItsDatabase'
<1> DEFINE v == Merged(Inherited, LoaderOrder)
           written == Written(Inherited, v)
<1>1. UNCHANGED config /\ proc[q].pc = "secret" /\ proc[q].environ = Inherited
  BY DEF FetchSecret, ReadsWhatIsGiven
<1>2. CASE Fails(q)
  BY <1>1, <1>2, EarlyStepsKeep DEF Fails
<1>3. CASE /\ Valid(v)
           /\ proc' = [proc EXCEPT ![q].pc = AfterLoading(q, v), ![q].env = v, ![q].seen = v,
                                   ![q].environ = written]
  <2> DEFINE r == [proc[q] EXCEPT !.pc = AfterLoading(q, v), !.env = v, !.seen = v,
                                  !.environ = written]
  <2>1. v \in View /\ written \in Environs /\ proc[q] \in ProcessLocals
    BY <1>3, EnvironsAre, MergedIsView, LocalsFit DEF StartupTypeOK, GivenOK, Orders
  <2>2. /\ AfterLoading(q, v) \in {"modules", "database", "up", "failed"}
        /\ q = "worker" => AfterLoading(q, v) # "database"
        /\ q # "worker" => AfterLoading(q, v) # "up"
        /\ AfterLoading(q, v) \in {"database", "up"} => q # "api"
    BY DEF AfterLoading
  <2>3. AfterLoading(q, v) \in ProcessPcs
    BY <2>2 DEF ProcessPcs
  <2> HIDE DEF v, written
  <2>4. proc' = [proc EXCEPT ![q] = r]
    BY <1>3 DEF StartupTypeOK
  <2>5. /\ r \in ProcessLocals
        /\ r.pc = AfterLoading(q, v) /\ r.env = v /\ r.seen = v /\ r.environ = written
    BY <2>1, <2>3 DEF ProcessLocals
  <2> HIDE DEF r
  <2>6. /\ r.env = Merged(Inherited, LoaderOrder) /\ Valid(r.env) /\ Valid(r.seen)
        /\ r.seen = r.env /\ r.environ = Written(Inherited, r.env)
    BY <1>3, <2>5 DEF v, written
  <2>7. /\ r.pc \in {"modules", "database", "up", "failed"}
        /\ r.pc \in {"database", "up"} => q # "api"
        /\ q = "worker" => r.pc # "database"
        /\ q # "worker" => r.pc # "up"
    BY <2>2, <2>5
  <2>8. FitsSources(q, r)
    BY <2>6, <2>7 DEF FitsSources
  <2> QED BY <1>1, <2>4, <2>5, <2>8, OneProcessMoves
<1> QED BY <1>1, <1>2, <1>3 DEF FetchSecret

\* ConfigModule adds what the files say of what is undefined.
LEMMA LoadModulesKeeps ==
  ASSUME StartupTypeOK, ReadsWhatIsGiven, HasItsDatabase, LoadModules
  PROVE  StartupTypeOK' /\ ReadsWhatIsGiven' /\ HasItsDatabase'
<1> DEFINE v == Merged(proc["api"].environ, ModuleFiles)
<1>1. "api" \in Processes /\ UNCHANGED config /\ proc["api"].pc = "modules"
  BY DEF Processes, LoadModules
<1>2. CASE Fails("api")
  BY <1>1, <1>2, EarlyStepsKeep DEF Fails
<1>3. CASE Valid(v) /\ proc' = [proc EXCEPT !["api"].pc = "database", !["api"].seen = v]
  <2> DEFINE r == [proc["api"] EXCEPT !.pc = "database", !.seen = v]
  <2>1. proc["api"] \in ProcessLocals /\ FitsSources("api", proc["api"])
    BY <1>1, LocalsFit
  <2>2. proc["api"].environ \in Environs /\ v \in View
    BY <2>1, MergedIsView DEF StartupTypeOK, GivenOK, Orders, ProcessLocals
  <2>3. "database" \in ProcessPcs
    BY DEF ProcessPcs
  <2> HIDE DEF v
  <2>4. proc' = [proc EXCEPT !["api"] = r]
    BY <1>1, <1>3 DEF StartupTypeOK
  <2>5. /\ r \in ProcessLocals /\ r.pc = "database" /\ r.seen = v
        /\ r.env = proc["api"].env /\ r.environ = proc["api"].environ
    BY <2>1, <2>2, <2>3 DEF ProcessLocals
  <2> HIDE DEF r
  <2>6. Valid(r.seen) /\ r.seen = Merged(r.environ, ModuleFiles)
    BY <1>3, <2>5 DEF v
  <2>7. FitsSources("api", r)
    BY <1>1, <2>1, <2>5, <2>6 DEF FitsSources
  <2> QED BY <1>1, <2>4, <2>5, <2>7, OneProcessMoves
<1> QED BY <1>2, <1>3 DEF LoadModules

\* A process is up with the database that it resolved.
LEMMA ConnectKeeps ==
  ASSUME StartupTypeOK, ReadsWhatIsGiven, HasItsDatabase, NEW q \in Processes, Connect(q)
  PROVE  StartupTypeOK' /\ ReadsWhatIsGiven' /\ HasItsDatabase'
<1> DEFINE d == Database(proc[q].seen)
<1>1. UNCHANGED config /\ proc[q].pc = "database"
  BY DEF Connect
<1>2. CASE Fails(q)
  BY <1>1, <1>2, EarlyStepsKeep DEF Fails
<1>3. CASE d # <<"none">> /\ proc' = [proc EXCEPT ![q].pc = "up", ![q].database = d]
  <2> DEFINE r == [proc[q] EXCEPT !.pc = "up", !.database = d]
  <2>1. proc[q] \in ProcessLocals /\ FitsSources(q, proc[q])
    BY LocalsFit
  <2>2. d \in Databases
    <3>1. \A k \in {"DATABASE_URL", "DATABASE_SECRET_ARN"} : proc[q].seen[k] \in Answers
      BY <2>1 DEF ProcessLocals, View, Answers, Settings, Optional
    <3> QED BY <3>1 DEF Database, Databases
  <2>3. "up" \in ProcessPcs
    BY DEF ProcessPcs
  <2> HIDE DEF d
  <2>4. proc' = [proc EXCEPT ![q] = r]
    BY <1>3 DEF StartupTypeOK
  <2>5. /\ r \in ProcessLocals /\ r.pc = "up" /\ r.env = proc[q].env /\ r.seen = proc[q].seen
        /\ r.environ = proc[q].environ /\ r.database = d
    BY <2>1, <2>2, <2>3 DEF ProcessLocals
  <2> HIDE DEF r
  <2>6. r.database = Database(r.seen) /\ r.database # <<"none">>
    BY <1>3, <2>5 DEF d
  <2>7. FitsSources(q, r)
    BY <1>1, <2>1, <2>5, <2>6 DEF FitsSources
  <2> QED BY <1>1, <2>4, <2>5, <2>7, OneProcessMoves
<1> QED BY <1>2, <1>3 DEF Connect

\* Every step of a process.
LEMMA StartupKeeps ==
  ASSUME StartupTypeOK, ReadsWhatIsGiven, HasItsDatabase,
         StartupNext \/ \E p \in Processes : Start(p)
  PROVE  /\ StartupTypeOK' /\ ReadsWhatIsGiven' /\ HasItsDatabase'
         /\ UNCHANGED config
<1>1. ASSUME NEW p \in Processes, Start(p)
      PROVE  /\ StartupTypeOK' /\ ReadsWhatIsGiven' /\ HasItsDatabase'
             /\ UNCHANGED config
  BY <1>1, StartKeeps DEF Start
<1>2. ASSUME NEW p \in Processes, FetchSsm(p)
      PROVE  /\ StartupTypeOK' /\ ReadsWhatIsGiven' /\ HasItsDatabase'
             /\ UNCHANGED config
  BY <1>2, EarlyStepsKeep DEF FetchSsm, Fails
<1>3. ASSUME NEW p \in Processes, FetchSecret(p) \/ Connect(p)
      PROVE  /\ StartupTypeOK' /\ ReadsWhatIsGiven' /\ HasItsDatabase'
             /\ UNCHANGED config
  BY <1>3, FetchSecretKeeps, ConnectKeeps DEF FetchSecret, Connect
<1>4. CASE LoadModules
  BY <1>4, LoadModulesKeeps DEF LoadModules
<1> QED BY <1>1, <1>2, <1>3, <1>4 DEF StartupNext, Work

-----------------------------------------------------------------------------
\* The steps of the scripts.

ScriptLocals == [pc : ScriptPcs, started : BOOLEAN, handled : SUBSET Signals,
                 signalled : BOOLEAN, lost : BOOLEAN]

ContainerRecord == [state : {"none", "starting", "ready"}, by : Scripts \cup {"nobody"}]

\* One script moves.  It may remove containers, or run its own, and when a container
\* of its stays, it may have one afterwards.
LEMMA OneScriptMoves ==
  ASSUME ScriptsTypeOK, ContainersAreKnown, NEW s \in Scripts, NEW r \in ScriptLocals,
         script' = [script EXCEPT ![s] = r], oneName' = oneName,
         container' \in [Names -> ContainerRecord],
         \A n \in Names : \/ container'[n] \in {container[n], NoContainer}
                          \/ n = ContainerOf(s) /\ container'[n].by = s /\ MayHave(r),
         \A n \in Names :
           Exists(n) /\ container[n].by = s /\ container'[n] = container[n] => MayHave(r)
  PROVE  ScriptsTypeOK' /\ ContainersAreKnown'
<1>1. /\ script'[s] = r /\ script' \in [Scripts -> ScriptLocals]
      /\ \A t \in Scripts \ {s} : script'[t] = script[t]
  BY DEF ScriptsTypeOK, ScriptLocals
<1>2. ScriptsTypeOK'
  BY <1>1 DEF ScriptsTypeOK, ScriptLocals, ContainerRecord
<1>3. \A t \in Scripts : ContainerOf(t)' = ContainerOf(t)
  BY DEF ContainerOf
<1>4. ASSUME NEW n \in Names, NEW t \in Scripts, container'[n].state # "none", container'[n].by = t
      PROVE  n = ContainerOf(t) /\ MayHave(script'[t])
  <2>1. CASE container'[n] = container[n]
    <3>1. n = ContainerOf(t) /\ MayHave(script[t])
      BY <1>4, <2>1 DEF ContainersAreKnown, Exists
    <3>2. t = s => MayHave(r)
      BY <1>4, <2>1 DEF Exists
    <3> QED BY <1>1, <3>1, <3>2
  <2>2. CASE container'[n] = NoContainer
    BY <1>4, <2>2 DEF NoContainer
  <2>3. CASE n = ContainerOf(s) /\ container'[n].by = s /\ MayHave(r)
    BY <1>1, <1>4, <2>3
  <2> QED BY <2>1, <2>2, <2>3
<1>5. ContainersAreKnown'
  BY <1>3, <1>4 DEF ContainersAreKnown, Exists, MayHave
<1> QED BY <1>2, <1>5

\* A script that goes on and touches no container.
LEMMA OnlyScriptMoves ==
  ASSUME ScriptsTypeOK, ContainersAreKnown, NEW s \in Scripts, NEW r \in ScriptLocals,
         script' = [script EXCEPT ![s] = r], UNCHANGED <<container, oneName>>,
         MayHave(script[s]) => MayHave(r)
  PROVE  ScriptsTypeOK' /\ ContainersAreKnown'
<1>1. container' \in [Names -> ContainerRecord]
  BY DEF ScriptsTypeOK, ContainerRecord
<1>2. \A n \in Names : Exists(n) /\ container[n].by = s => MayHave(r)
  BY DEF ContainersAreKnown
<1> QED BY <1>1, <1>2, OneScriptMoves

LEMMA GotoKeeps ==
  ASSUME ScriptsTypeOK, ContainersAreKnown, NEW s \in Scripts,
         NEW pc \in ScriptPcs, Goto(s, pc), UNCHANGED <<container, oneName>>,
         \/ script[s].pc \in {"idle", "build", "probe", "remove", "run"}
         \/ script[s].pc \in {"wait", "use", "serve"} /\ pc \in {"use", "serve", "stop"}
  PROVE  ScriptsTypeOK' /\ ContainersAreKnown'
<1> DEFINE r == [script[s] EXCEPT !.pc = pc]
<1>1. /\ r \in ScriptLocals /\ r.pc = pc
      /\ r.started = script[s].started /\ r.lost = script[s].lost
      /\ script' = [script EXCEPT ![s] = r]
  BY DEF ScriptsTypeOK, ScriptLocals, Goto
<1> HIDE DEF r
<1>2. MayHave(script[s]) => MayHave(r)
  BY <1>1 DEF MayHave
<1> QED BY <1>1, <1>2, OnlyScriptMoves

\* A script that has none before it runs one removes what has its name.
LEMMA RemoveOldKeeps ==
  ASSUME ScriptsTypeOK, ContainersAreKnown, NEW s \in Scripts, RemoveOld(s)
  PROVE  ScriptsTypeOK' /\ ContainersAreKnown'
<1> DEFINE r == [script[s] EXCEPT !.pc = "run"]
<1>1. /\ r \in ScriptLocals /\ script' = [script EXCEPT ![s] = r] /\ oneName' = oneName
  BY DEF RemoveOld, Goto, ScriptsTypeOK, ScriptLocals, ScriptPcs, surroundings
<1>2. ~ MayHave(script[s])
  BY DEF RemoveOld, MayHave
<1>3. /\ container' \in [Names -> ContainerRecord]
      /\ \A n \in Names : container'[n] \in {container[n], NoContainer}
  BY DEF RemoveOld, ScriptsTypeOK, ContainerRecord, NoContainer
<1> HIDE DEF r
<1>4. \A n \in Names : ~ (Exists(n) /\ container[n].by = s)
  BY <1>2 DEF ContainersAreKnown
<1> QED BY <1>1, <1>3, <1>4, OneScriptMoves

\* The container is there before the script knows.
LEMMA RunContainerKeeps ==
  ASSUME ScriptsTypeOK, ContainersAreKnown, NEW s \in Scripts, RunContainer(s)
  PROVE  ScriptsTypeOK' /\ ContainersAreKnown'
<1> DEFINE r == [script[s] EXCEPT !.pc = "created"]
           c == [state |-> "starting", by |-> s]
<1>1. CASE GiveUp(s) /\ UNCHANGED container
  BY <1>1, GotoKeeps DEF RunContainer, GiveUp, ScriptPcs, surroundings
<1>2. CASE container' = [container EXCEPT ![ContainerOf(s)] = c] /\ Goto(s, "created")
  <2>1. /\ r \in ScriptLocals /\ r.pc = "created" /\ script' = [script EXCEPT ![s] = r]
        /\ oneName' = oneName
    BY <1>2 DEF RunContainer, Goto, ScriptsTypeOK, ScriptLocals, ScriptPcs, surroundings
  <2>2. c \in ContainerRecord /\ c.by = s
    BY DEF ContainerRecord
  <2> HIDE DEF r, c
  <2>3. /\ container' \in [Names -> ContainerRecord]
        /\ \A n \in Names : container'[n] = IF n = ContainerOf(s) THEN c ELSE container[n]
    BY <1>2, <2>2 DEF ScriptsTypeOK, ContainerRecord
  <2>4. MayHave(r)
    BY <2>1 DEF MayHave
  <2> QED BY <2>1, <2>2, <2>3, <2>4, OneScriptMoves
<1> QED BY <1>1, <1>2 DEF RunContainer

\* The script learns that it has a container, or gives up on it.
LEMMA RunReturnedKeeps ==
  ASSUME ScriptsTypeOK, ContainersAreKnown, NEW s \in Scripts, RunReturned(s)
  PROVE  ScriptsTypeOK' /\ ContainersAreKnown'
<1> DEFINE known == [script[s] EXCEPT !.pc = "wait", !.started = TRUE]
           failed == [script[s] EXCEPT !.pc = "stop", !.lost = TRUE]
<1>1. script[s] \in ScriptLocals
  BY DEF ScriptsTypeOK, ScriptLocals
<1>2. known \in ScriptLocals /\ known.pc = "wait" /\ known.started
  BY <1>1 DEF ScriptLocals, ScriptPcs
<1>3. failed \in ScriptLocals /\ failed.pc = "stop" /\ failed.lost
  BY <1>1 DEF ScriptLocals, ScriptPcs
<1>4. UNCHANGED <<container, oneName>>
  BY DEF RunReturned, surroundings
<1>5. script' = [script EXCEPT ![s] = known] \/ script' = [script EXCEPT ![s] = failed]
  BY DEF RunReturned, ScriptsTypeOK
<1> HIDE DEF known, failed
<1>6. MayHave(known) /\ MayHave(failed)
  BY <1>2, <1>3 DEF MayHave
<1> QED BY <1>2, <1>3, <1>4, <1>5, <1>6, OnlyScriptMoves

\* A script that stops has no container of its own any more, or the runtime kept it.
LEMMA StopKeeps ==
  ASSUME ScriptsTypeOK, ContainersAreKnown, NEW s \in Scripts, Stop(s)
  PROVE  ScriptsTypeOK' /\ ContainersAreKnown'
<1>1. oneName' = oneName /\ script[s].pc = "stop"
  BY DEF Stop, surroundings
<1> DEFINE r == [script[s] EXCEPT !.pc = "ended"]
<1>2. r \in ScriptLocals /\ r.pc = "ended" /\ r.lost = script[s].lost
  BY DEF ScriptsTypeOK, ScriptLocals, ScriptPcs
<1>3. CASE /\ container' = [container EXCEPT ![ContainerOf(s)] = NoContainer]
           /\ Goto(s, "ended")
  <2>1. script' = [script EXCEPT ![s] = r]
    BY <1>3 DEF Goto, ScriptsTypeOK
  <2>2. /\ container' \in [Names -> ContainerRecord]
        /\ \A n \in Names : container'[n] = IF n = ContainerOf(s) THEN NoContainer ELSE container[n]
    BY <1>3 DEF ScriptsTypeOK, ContainerRecord, NoContainer
  <2>3. \A n \in Names : ~ (Exists(n) /\ container[n].by = s /\ container'[n] = container[n])
    BY <2>2 DEF ContainersAreKnown, Exists, NoContainer
  <2> HIDE DEF r
  <2> QED BY <1>1, <1>2, <2>1, <2>2, <2>3, OneScriptMoves
<1>4. CASE UNCHANGED container /\ script' = [script EXCEPT ![s].pc = "ended", ![s].lost = TRUE]
  <2> DEFINE l == [script[s] EXCEPT !.pc = "ended", !.lost = TRUE]
  <2>1. l \in ScriptLocals /\ MayHave(l) /\ script' = [script EXCEPT ![s] = l]
    BY <1>4 DEF ScriptsTypeOK, ScriptLocals, ScriptPcs, MayHave
  <2> HIDE DEF l
  <2> QED BY <1>1, <1>4, <2>1, OnlyScriptMoves
<1>5. CASE UNCHANGED container /\ ~ script[s].started /\ Goto(s, "ended")
  <2>1. script' = [script EXCEPT ![s] = r]
    BY <1>5 DEF Goto, ScriptsTypeOK
  <2> HIDE DEF r
  <2>2. MayHave(script[s]) => MayHave(r)
    BY <1>1, <1>2, <1>5 DEF MayHave
  <2> QED BY <1>1, <1>2, <1>5, <2>1, <2>2, OnlyScriptMoves
<1> QED BY <1>3, <1>4, <1>5 DEF Stop

\* A signal kills the script, or leaves it where it is.
LEMMA InterruptKeeps ==
  ASSUME ScriptsTypeOK, ContainersAreKnown, NEW s \in Scripts, NEW signal \in Signals,
         Interrupt(s, signal)
  PROVE  ScriptsTypeOK' /\ ContainersAreKnown'
<1> DEFINE pc == IF signal \in script[s].handled THEN script[s].pc ELSE "killed"
           r == [script[s] EXCEPT !.handled = script[s].handled \ {signal}, !.signalled = TRUE, !.pc = pc]
<1>1. script[s] \in ScriptLocals /\ pc \in ScriptPcs
  BY DEF ScriptsTypeOK, ScriptLocals, ScriptPcs
<1>2. script' = [script EXCEPT ![s] = r] /\ UNCHANGED <<container, oneName>>
  BY DEF Interrupt, Signalled, surroundings, ScriptsTypeOK
<1>3. pc \in {script[s].pc, "killed"}
  OBVIOUS
<1> HIDE DEF pc
<1>4. /\ r \in ScriptLocals /\ r.pc = pc
      /\ r.started = script[s].started /\ r.lost = script[s].lost
  BY <1>1 DEF ScriptLocals
<1> HIDE DEF r
<1>5. MayHave(script[s]) => MayHave(r)
  BY <1>3, <1>4 DEF MayHave
<1> QED BY <1>2, <1>4, <1>5, OnlyScriptMoves

\* Every statement of a script.
LEMMA AdvanceKeeps ==
  ASSUME ScriptsTypeOK, ContainersAreKnown, NEW s \in Scripts, Advance(s)
  PROVE  ScriptsTypeOK' /\ ContainersAreKnown'
<1> USE DEF GiveUp, surroundings, ScriptPcs
<1>1. CASE Build(s) \/ Probe(s) \/ WaitReady(s)
  <2>1. /\ script[s].pc \in {"build", "probe", "wait"} /\ UNCHANGED <<container, oneName>>
        /\ \/ script[s].pc # "wait" /\ (Goto(s, "probe") \/ Goto(s, "use") \/ Goto(s, "remove"))
           \/ Goto(s, "stop")
           \/ script[s].pc = "wait" /\ Goto(s, "use")
    BY <1>1 DEF Build, Probe, WaitReady
  <2> QED BY <2>1, GotoKeeps
<1>2. CASE RemoveOld(s) \/ RunContainer(s) \/ RunReturned(s) \/ Stop(s)
  BY <1>2, RemoveOldKeeps, RunContainerKeeps, RunReturnedKeeps, StopKeeps
<1>3. CASE s = "tests" /\ TestsEnd
  BY <1>3, GotoKeeps DEF TestsEnd
<1>4. CASE s = "prodLike" /\ ApiEnded
  BY <1>4, GotoKeeps DEF ApiEnded
<1>5. CASE s = "prodLike" /\ SpawnApi
  <2> DEFINE r == [script[s] EXCEPT !.pc = "serve", !.handled = Signals]
  <2>1. /\ r \in ScriptLocals /\ r.pc = "serve"
        /\ r.started = script[s].started /\ r.lost = script[s].lost
        /\ script' = [script EXCEPT ![s] = r] /\ script[s].pc = "use"
    BY <1>5 DEF SpawnApi, ScriptsTypeOK, ScriptLocals
  <2> HIDE DEF r
  <2>2. MayHave(script[s]) => MayHave(r)
    BY <2>1 DEF MayHave
  <2> QED BY <1>5, <2>1, <2>2, OnlyScriptMoves DEF SpawnApi
<1> QED BY <1>1, <1>2, <1>3, <1>4, <1>5 DEF Advance

\* The rest of the workstation leaves the scripts' containers to them.
LEMMA WorkstationKeeps ==
  ASSUME ScriptsTypeOK, ContainersAreKnown,
         \/ BeginProdLike \/ BeginTests
         \/ \E n \in Names : EmulatorReady(n)
         \/ UNCHANGED <<script, container, oneName>>
  PROVE  ScriptsTypeOK' /\ ContainersAreKnown'
<1>1. CASE BeginProdLike
  <2>1. /\ script["prodLike"].pc = "idle" /\ Goto("prodLike", "build")
        /\ UNCHANGED <<container, oneName>>
    BY <1>1 DEF BeginProdLike, surroundings
  <2> QED BY <2>1, GotoKeeps DEF Scripts, ScriptPcs
<1>2. CASE BeginTests
  <2>1. /\ script["tests"].pc = "idle" /\ Goto("tests", "probe")
        /\ UNCHANGED <<container, oneName>>
    BY <1>2 DEF BeginTests, surroundings
  <2> QED BY <2>1, GotoKeeps DEF Scripts, ScriptPcs
<1>3. ASSUME NEW n \in Names, EmulatorReady(n)
      PROVE  ScriptsTypeOK' /\ ContainersAreKnown'
  <2>1. script' = script /\ oneName' = oneName
    BY <1>3 DEF EmulatorReady, surroundings
  <2>2. ScriptsTypeOK'
    BY <1>3, <2>1 DEF EmulatorReady, ScriptsTypeOK
  <2>3. \A m \in Names :
          container'[m].by = container[m].by /\ (container'[m].state # "none" => container[m].state # "none")
    BY <1>3 DEF EmulatorReady, ScriptsTypeOK
  <2>4. ContainersAreKnown'
    BY <2>1, <2>3 DEF ContainersAreKnown, Exists, ContainerOf, MayHave
  <2> QED BY <2>2, <2>4
<1>4. CASE UNCHANGED <<script, container, oneName>>
  BY <1>4 DEF ScriptsTypeOK, ContainersAreKnown, Exists, ContainerOf, MayHave
<1> QED BY <1>1, <1>2, <1>3, <1>4

-----------------------------------------------------------------------------
\* The processes under the scripts.

\* Nothing has been read when the script fills in the environment.
LEMMA BeginProdLikeKeeps ==
  ASSUME StackInv, BeginProdLike
  PROVE  StartupTypeOK' /\ ReadsWhatIsGiven' /\ HasItsDatabase'
<1>1. proc' = proc /\ \A p \in Processes : proc[p].pc = "off"
  BY DEF BeginProdLike, StackInv, OnlyTheApi, Off, Processes
<1>2. \A k \in Settings : Filled(k) \in {"set", "empty", "absent"}
  BY DEF Filled, StackInv, StartupTypeOK, Sources
<1>3. StartupTypeOK'
  <2>1. "os" \in Sources
    BY DEF Sources
  <2>2. given' \in [Sources -> [Settings -> {"set", "empty", "absent"}]]
    BY <1>2, <2>1 DEF BeginProdLike, StackInv, StartupTypeOK
  <2> QED BY <2>2 DEF BeginProdLike, StackInv, StartupTypeOK
<1>4. ReadsWhatIsGiven'
  BY <1>1 DEF ReadsWhatIsGiven, Loaded
<1>5. HasItsDatabase'
  BY <1>1 DEF HasItsDatabase, Processes
<1> QED BY <1>3, <1>4, <1>5

\* Every other step leaves what is given alone.
LEMMA ProcessesKeep ==
  ASSUME StackInv, [StackNext]_allVars
  PROVE  StartupTypeOK' /\ ReadsWhatIsGiven' /\ HasItsDatabase'
<1> USE DEF StackInv
<1>1. CASE StartupNext
  BY <1>1, StartupKeeps
<1>2. CASE BeginProdLike
  BY <1>2, BeginProdLikeKeeps
<1>3. CASE Start("api")
  BY <1>3, StartupKeeps DEF Processes
<1>4. CASE UNCHANGED startupVars
  <2>1. StartupTypeOK' /\ proc' = proc
    BY <1>4 DEF startupVars, config, StartupTypeOK
  <2>2. ASSUME NEW p \in Processes
        PROVE  FitsSources(p, proc[p])'
    <3>1. PICK m \in ProcessLocals : m = proc[p] /\ FitsSources(p, m)
      BY LocalsFit
    <3>2. FitsSources(p, m)'
      BY <1>4, <3>1, FitsKeeps DEF startupVars
    <3> QED BY <2>1, <3>1, <3>2 DEF FitsSources
  <2>3. (ReadsWhatIsGiven /\ HasItsDatabase)'
    BY <2>1, <2>2, ByProcessNext
  <2> QED BY <2>1, <2>3
<1>5. ASSUME NEW s \in Scripts, NEW signal \in Signals, Interrupt(s, signal)
      PROVE  StartupTypeOK' /\ ReadsWhatIsGiven' /\ HasItsDatabase'
  <2>1. CASE proc' = proc
    BY <1>4, <1>5, <2>1 DEF Interrupt, startupVars
  <2>2. CASE proc' = [proc EXCEPT !["api"].pc = "stopped"]
    BY <1>5, <2>2, EarlyStepsKeep DEF Interrupt, Processes
  <2> QED BY <1>5, <2>1, <2>2 DEF Interrupt
<1>6. ASSUME NEW s \in Scripts, Advance(s)
      PROVE  Start("api") \/ UNCHANGED startupVars
  BY <1>6 DEF Advance, SpawnApi
<1> QED BY <1>1, <1>2, <1>3, <1>4, <1>5, <1>6
        DEF StackNext, BeginTests, EmulatorReady, allVars, startupVars

\* Under the script, only it starts a process, and only the API.
LEMMA OnlyTheApiKeeps ==
  ASSUME StackInv, [StackNext]_allVars
  PROVE  OnlyTheApi'
<1> SUFFICES ASSUME place' = "prodLike"
             PROVE  /\ proc'["migration"] = Off /\ proc'["worker"] = Off
                    /\ script'["prodLike"].pc = "idle" => proc'["api"] = Off
  BY DEF OnlyTheApi, Off, Unread
<1>1. place = "prodLike"
  BY DEF StackNext, StartupNext, Work, Start, FetchSsm, FetchSecret, LoadModules, Connect, config,
         BeginProdLike, BeginTests, Advance, SpawnApi, Interrupt, EmulatorReady, startupVars, allVars
<1>2. /\ proc["migration"] = Off /\ proc["worker"] = Off
      /\ script["prodLike"].pc = "idle" => proc["api"] = Off
      /\ Off.pc = "off"
  BY <1>1 DEF StackInv, OnlyTheApi, Off
<1> DEFINE OthersStay == proc'["migration"] = proc["migration"] /\ proc'["worker"] = proc["worker"]
           StaysIdle == script'["prodLike"].pc = "idle" => script["prodLike"].pc = "idle"
           IdleStays == script'["prodLike"].pc = "idle" => proc'["api"] = proc["api"]
<1>3. CASE StartupNext /\ UNCHANGED stackVars
  <2>1. PICK p \in Processes : Work(p) \/ (p = "api" /\ LoadModules)
    BY <1>1, <1>3 DEF StartupNext, InOrder, Processes
  <2>2. p = "api" /\ proc["api"].pc # "off"
    BY <1>2, <2>1 DEF Processes, Work, FetchSsm, FetchSecret, Connect, LoadModules
  <2>3. OthersStay
    BY <2>1, <2>2
       DEF Work, FetchSsm, FetchSecret, Connect, LoadModules, Fails, StackInv, StartupTypeOK, Processes
  <2> QED BY <1>2, <1>3, <2>2, <2>3 DEF stackVars
<1>4. CASE BeginProdLike
  BY <1>2, <1>4 DEF BeginProdLike, Goto, StackInv, ScriptsTypeOK, Scripts
<1>5. CASE BeginTests
  BY <1>2, <1>5 DEF BeginTests, Goto, StackInv, ScriptsTypeOK, Scripts, startupVars
<1>6. ASSUME NEW s \in Scripts, Advance(s)
      PROVE  OthersStay /\ StaysIdle /\ IdleStays
  <2>1. CASE s = "prodLike" /\ SpawnApi
    BY <2>1 DEF SpawnApi, Start, Fails, StackInv, StartupTypeOK, Processes, ScriptsTypeOK
  <2>2. CASE UNCHANGED startupVars
    <3>1. OthersStay /\ IdleStays
      BY <2>2 DEF startupVars
    <3>2. \E pc \in ScriptPcs \ {"idle"} :
            \/ script' = [script EXCEPT ![s].pc = pc]
            \/ script' = [script EXCEPT ![s].pc = pc, ![s].started = TRUE]
            \/ script' = [script EXCEPT ![s].pc = pc, ![s].lost = TRUE]
            \/ script' = [script EXCEPT ![s].pc = pc, ![s].handled = Signals]
      BY <1>6 DEF Advance, Build, Probe, RemoveOld, RunContainer, RunReturned, WaitReady, Stop,
                  TestsEnd, ApiEnded, SpawnApi, Goto, GiveUp, ScriptPcs
    <3>3. ASSUME NEW pc \in ScriptPcs \ {"idle"},
                 \/ script' = [script EXCEPT ![s].pc = pc]
                 \/ script' = [script EXCEPT ![s].pc = pc, ![s].started = TRUE]
                 \/ script' = [script EXCEPT ![s].pc = pc, ![s].lost = TRUE]
                 \/ script' = [script EXCEPT ![s].pc = pc, ![s].handled = Signals]
          PROVE  StaysIdle
      <4>1. script'[s].pc = pc /\ \A n \in Scripts \ {s} : script'[n] = script[n]
        BY <3>3 DEF StackInv, ScriptsTypeOK
      <4> QED BY <4>1 DEF Scripts
    <3> QED BY <3>1, <3>2, <3>3
  <2> QED BY <1>6, <2>1, <2>2 DEF Advance
<1>7. ASSUME NEW s \in Scripts, NEW signal \in Signals, Interrupt(s, signal)
      PROVE  OthersStay /\ StaysIdle /\ (proc["api"] = Off => proc'["api"] = Off)
  <2>1. OthersStay /\ (proc["api"] = Off => proc'["api"] = Off)
    BY <1>2, <1>7 DEF Interrupt, ApiRuns, StackInv, StartupTypeOK, Processes
  <2>2. StaysIdle
    <3>1. script'[s].pc # "idle" /\ \A n \in Scripts \ {s} : script'[n] = script[n]
      BY <1>7 DEF Interrupt, Signalled, Running, StackInv, ScriptsTypeOK
    <3> QED BY <3>1 DEF Scripts
  <2> QED BY <2>1, <2>2
<1>8. CASE UNCHANGED <<proc, script>>
  BY <1>2, <1>8
<1> QED BY <1>2, <1>3, <1>4, <1>5, <1>6, <1>7, <1>8
        DEF StackNext, EmulatorReady, startupVars, allVars, stackVars

\* The invariant holds of every behaviour.
LEMMA InitStackInv == StackInit => StackInv
<1> SUFFICES ASSUME StackInit PROVE StackInv
  OBVIOUS
<1>1. \A p \in Processes : proc[p] = Off
  BY DEF StackInit, StartupInit
<1>2. StartupTypeOK
  <2>1. Off \in ProcessLocals
    BY DEF Off, ProcessLocals, ProcessPcs, Environs, View, Unread, Databases
  <2>2. given \in [Sources -> [Settings -> {"set", "empty", "absent"}]]
    <3>1. PICK odd \in Mentions : \E how \in [odd -> {"set", "empty"}] : given = GivenWith(odd, how)
      BY DEF StackInit, StartupInit
    <3>2. PICK how \in [odd -> {"set", "empty"}] : given = GivenWith(odd, how)
      BY <3>1
    <3> QED BY <3>2 DEF GivenWith
  <2> QED BY <2>1, <2>2 DEF StackInit, StartupInit, StartupTypeOK, ProcessLocals
<1>3. ScriptsTypeOK
  <2>1. Waiting \in ScriptLocals /\ NoContainer \in ContainerRecord
    BY DEF Waiting, ScriptLocals, ScriptPcs, NoContainer, ContainerRecord
  <2>2. \A left \in {"none", "starting"} : [state |-> left, by |-> "nobody"] \in ContainerRecord
    BY DEF ContainerRecord
  <2>3. script \in [Scripts -> ScriptLocals] /\ container \in [Names -> ContainerRecord]
    BY <2>1, <2>2 DEF StackInit
  <2> QED BY <2>3 DEF StackInit, ScriptsTypeOK, ScriptLocals, ContainerRecord
<1>4. ReadsWhatIsGiven /\ HasItsDatabase
  BY <1>1 DEF ReadsWhatIsGiven, Loaded, HasItsDatabase, Off, Processes
<1>5. OnlyTheApi
  BY <1>1 DEF OnlyTheApi, Processes
<1>6. ContainersAreKnown
  <2>1. \A n \in Names : container[n].by = "nobody"
    BY DEF StackInit, NoContainer
  <2> QED BY <2>1 DEF ContainersAreKnown, Scripts
<1> QED BY <1>2, <1>3, <1>4, <1>5, <1>6 DEF StackInv

\* What processes have read and written to process.env is what the sources say, and
\* every container a script ran is known to it or lost for a reason.
THEOREM StackInvariant == StackSpec => []StackInv
<1>1. StackInv /\ [StackNext]_allVars => StackInv'
  <2> SUFFICES ASSUME StackInv, [StackNext]_allVars
               PROVE  StackInv'
    OBVIOUS
  <2>1. ScriptsTypeOK' /\ ContainersAreKnown'
    BY AdvanceKeeps, InterruptKeeps, WorkstationKeeps DEF StackNext, StackInv, allVars, stackVars, surroundings
  <2> QED BY <2>1, ProcessesKeep, OnlyTheApiKeeps DEF StackInv
<1> QED BY <1>1, InitStackInv, PTL DEF StackSpec

-----------------------------------------------------------------------------
\* What the invariant is for.

\* What bootstrap validated comes back through process.env, and what it left
\* undefined only changes by a stray file.
THEOREM OneConfigurationHolds == StackSpec => []OneConfiguration
<1>1. StackInv => OneConfiguration
  <2> SUFFICES ASSUME StackInv, NEW p \in Processes, NEW k \in Settings, Loaded(p),
                      proc[p].seen[k] # proc[p].env[k]
               PROVE  p = "api" /\ proc[p].env[k] = "undefined" /\ Stray(k)
    BY DEF OneConfiguration
  <2>1. /\ proc[p].env = Merged(Inherited, LoaderOrder) /\ Valid(proc[p].env)
        /\ proc[p].seen = IF p = "api" THEN ModuleView(proc[p].env) ELSE proc[p].env
    BY DEF StackInv, ReadsWhatIsGiven, Loaded, ModuleView
  <2>2. GivenOK /\ proc[p].env \in View
    BY DEF StackInv, StartupTypeOK, GivenOK
  <2>3. p = "api"
    BY <2>1
  <2>4. proc[p].env[k] = "undefined"
    BY <2>1, <2>2, <2>3, ValidatedIsSeen
  <2>5. Stray(k)
    BY <2>1, <2>2, <2>3, <2>4, StaysUndefined
  <2> QED BY <2>3, <2>4, <2>5
<1> QED BY <1>1, StackInvariant, PTL

\* Migration and API read their database from the same sources, in two ways that
\* agree.
THEOREM SameDatabaseHolds == StackSpec => []SameDatabase
<1>1. StackInv => SameDatabase
  <2> SUFFICES ASSUME StackInv, proc["api"].pc = "up", proc["migration"].pc = "up",
                      ~ Stray("DATABASE_URL"), ~ Stray("DATABASE_SECRET_ARN")
               PROVE  proc["api"].database = proc["migration"].database
    BY DEF SameDatabase
  <2>1. /\ proc["api"].database = Database(proc["api"].seen)
        /\ proc["migration"].database = Database(proc["migration"].seen)
    BY DEF StackInv, HasItsDatabase, Processes
  <2>2. /\ proc["api"].seen = ModuleView(Merged(Inherited, LoaderOrder))
        /\ proc["migration"].seen = Merged(Inherited, LoaderOrder)
        /\ Valid(Merged(Inherited, LoaderOrder))
    BY DEF StackInv, ReadsWhatIsGiven, Loaded, Processes, ModuleView
  <2> QED BY <2>1, <2>2, SameDatabaseRead DEF StackInv, StartupTypeOK, GivenOK
<1> QED BY <1>1, StackInvariant, PTL

\* In staging and production no default is left in place of a secret.
THEOREM ProdLikeExplicit == StackSpec => []ProdLikeIsExplicit
<1>1. StackInv => ProdLikeIsExplicit
  <2> SUFFICES ASSUME StackInv, NEW p \in Processes, IsProdLike, proc[p].pc = "up"
               PROVE  /\ \A k \in Defaulted : proc[p].seen[k] \notin {"default", "undefined"}
                      /\ proc[p].seen.AWS_ACCESS_KEY_ID = "undefined"
                      /\ p # "worker" => proc[p].database[1] \in {"url", "arn"}
    BY DEF ProdLikeIsExplicit
  <2>1. Valid(proc[p].seen)
    BY DEF StackInv, ReadsWhatIsGiven, Loaded
  <2>2. ASSUME NEW k \in Defaulted
        PROVE  proc[p].seen[k] \notin {"default", "undefined"}
    <3>1. proc[p].seen[k] # "undefined"
      <4>1. /\ proc[p].env = Merged(Inherited, LoaderOrder) /\ Valid(proc[p].env)
            /\ proc[p].seen = IF p = "api" THEN ModuleView(proc[p].env) ELSE proc[p].env
        BY DEF StackInv, ReadsWhatIsGiven, Loaded, ModuleView
      <4>2. GivenOK /\ proc[p].env \in View
        BY DEF StackInv, StartupTypeOK, GivenOK
      <4>3. \A d \in Defaulted : Merged(Inherited, LoaderOrder)[d] # "undefined"
        BY <4>2, EnvironsAre, MergedIsView DEF Orders
      <4> QED BY <4>1, <4>2, <4>3, ModuleViewIsView
    <3>2. proc[p].seen[k] # "default"
      BY <2>1 DEF Valid, Defaulted
    <3> QED BY <3>1, <3>2
  <2>3. proc[p].seen.AWS_ACCESS_KEY_ID = "undefined"
    BY <2>1 DEF Valid
  <2>4. ASSUME p # "worker"
        PROVE  proc[p].database[1] \in {"url", "arn"}
    <3>1. proc[p].database = Database(proc[p].seen) /\ proc[p].database # <<"none">>
      BY <2>4 DEF StackInv, HasItsDatabase
    <3>2. stage # "local"
      BY DEF IsProdLike
    <3> QED BY <3>1, <3>2 DEF Database
  <2> QED BY <2>2, <2>3, <2>4
<1> QED BY <1>1, StackInvariant, PTL

\* Whatever fails, a script that ends has stopped what it ran, or the runtime did
\* not let it.
THEOREM NothingLeft == StackSpec => []NothingIsLeftBehind
<1>1. StackInv => NothingIsLeftBehind
  BY DEF StackInv, ContainersAreKnown, MayHave, NothingIsLeftBehind
<1> QED BY <1>1, StackInvariant, PTL

=============================================================================
