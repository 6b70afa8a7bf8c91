------------------------------- MODULE LocalStack -------------------------------
(***************************************************************************)
(* The scripts that need the AWS emulator Floci on a workstation:          *)
(* start-prod-like-local.ts, which runs the API of Startup against it, and *)
(* run-floci-tests.ts, which runs the integration tests.  Either uses the  *)
(* endpoint it finds, or runs a container and stops it in the end.         *)
(***************************************************************************)
EXTENDS Startup

VARIABLES
    script,     \* the scripts: program counter and locals
    container,  \* the container of each name
    oneName,    \* FLOCI_CONTAINER_NAME is set, for both scripts
    elsewhere   \* somebody else serves the endpoint

surroundings == <<oneName, elsewhere>>
stackVars == <<script, container, surroundings>>
allVars == <<startupVars, stackVars>>

Scripts == {"prodLike", "tests"}
Names == Scripts \cup {"given"}
Signals == {"SIGINT", "SIGTERM"}

\* handled are the signals the script still has a handler for; signalled and lost
\* are history: a signal came, and the runtime failed the script at its container.
Waiting ==
    [pc |-> "idle", started |-> FALSE, handled |-> {}, signalled |-> FALSE, lost |-> FALSE]

\* containerName: FLOCI_CONTAINER_NAME, or <project>-floci-local and
\* <project>-floci-integration.
ContainerOf(s) == IF oneName THEN "given" ELSE s

\* by is history: the script that ran the container.
NoContainer == [state |-> "none", by |-> "nobody"]

Exists(n) == container[n].state # "none"

\* What waitForTcp finds, and what makes publishing the port fail.
Reachable == elsewhere \/ \E n \in Names : container[n].state = "ready"
PortTaken == elsewhere \/ \E n \in Names : Exists(n)

Goto(s, pc) == script' = [script EXCEPT ![s].pc = pc]

\* An error on the way leads to the catch or the finally of the script.
GiveUp(s) == Goto(s, "stop")

-----------------------------------------------------------------------------
\* The statements of the scripts.

\* loadEnvFile: .env fills in, with ??=, what process.env lacks.
Filled(k) == IF given["os"][k] # "absent" THEN given["os"][k] ELSE given["env"][k]

\* The AWS keys are filled in as well; run-floci-tests.ts has its own
\* process.env and builds nothing.
BeginProdLike ==
    /\ place = "prodLike" /\ script["prodLike"].pc = "idle"
    /\ Goto("prodLike", "build")
    /\ given' = [given EXCEPT !["os"] = [k \in Settings |->
                   IF k \in {"AWS_ACCESS_KEY_ID", "AWS_SECRET_ACCESS_KEY"} /\ Filled(k) = "absent"
                     THEN "set" ELSE Filled(k)]]
    /\ UNCHANGED <<place, stage, nodeEnv, proc, container, surroundings>>

BeginTests ==
    /\ place = "prodLike" /\ script["tests"].pc = "idle"
    /\ Goto("tests", "probe")
    /\ UNCHANGED <<startupVars, container, surroundings>>

\* pnpm build.
Build(s) ==
    /\ script[s].pc = "build"
    /\ Goto(s, "probe") \/ GiveUp(s)
    /\ UNCHANGED <<container, surroundings>>

\* The endpoint exists, or it did not answer in time and is to be started, for
\* which FLOCI_AUTOSTART must not be off and a container runtime must be found.
Probe(s) ==
    /\ script[s].pc = "probe"
    /\ IF Reachable THEN Goto(s, "use") ELSE Goto(s, "remove") \/ GiveUp(s)
    /\ UNCHANGED <<container, surroundings>>

\* rm --force of what has the name, be it of an earlier run or of the other
\* script.  It may fail.
RemoveOld(s) ==
    /\ script[s].pc = "remove"
    /\ container' \in {container, [container EXCEPT ![ContainerOf(s)] = NoContainer]}
    /\ Goto(s, "run")
    /\ UNCHANGED surroundings

\* run --rm --detach creates the container, unless its name or its port is taken
\* or the runtime fails.
RunContainer(s) ==
    /\ script[s].pc = "run"
    /\ \/ /\ ~ PortTaken
          /\ container' = [container EXCEPT ![ContainerOf(s)] = [state |-> "starting", by |-> s]]
          /\ Goto(s, "created")
       \/ GiveUp(s) /\ UNCHANGED container
    /\ UNCHANGED surroundings

\* The awaited command ends, well or not, and only then the script knows.
RunReturned(s) ==
    /\ script[s].pc = "created"
    /\ \/ script' = [script EXCEPT ![s].pc = "wait", ![s].started = TRUE]
       \/ script' = [script EXCEPT ![s].pc = "stop", ![s].lost = TRUE]
    /\ UNCHANGED <<container, surroundings>>

\* Mutant of WaitReady: ensureFlociReady is called ahead of the try.
WaitReadyOutsideTry(s) ==
    /\ script[s].pc = "wait"
    /\ Goto(s, IF Reachable THEN "use" ELSE "ended")
    /\ UNCHANGED <<container, surroundings>>

\* The second waitForTcp.
WaitReady(s) ==
    /\ script[s].pc = "wait"
    /\ IF Reachable THEN Goto(s, "use") ELSE GiveUp(s)
    /\ UNCHANGED <<container, surroundings>>

\* The tests have run, well or not.
TestsEnd ==
    /\ script["tests"].pc = "use"
    /\ Goto("tests", "stop")
    /\ UNCHANGED <<container, surroundings>>

\* waitForExit of the API.
ApiEnded ==
    /\ script["prodLike"].pc = "serve" /\ proc["api"].pc \in {"failed", "stopped"}
    /\ Goto("prodLike", "stop")
    /\ UNCHANGED <<container, surroundings>>

\* stopStartedFloci, and the finally of the tests, stop what has the name.  No
\* runtime may be found any more, and stop may fail.
Stop(s) ==
    /\ script[s].pc = "stop"
    /\ \/ /\ script[s].started
          /\ container' = [container EXCEPT ![ContainerOf(s)] = NoContainer]
          /\ Goto(s, "ended")
       \/ /\ script[s].started
          /\ script' = [script EXCEPT ![s].pc = "ended", ![s].lost = TRUE]
          /\ UNCHANGED container
       \/ ~ script[s].started /\ Goto(s, "ended") /\ UNCHANGED container
    /\ UNCHANGED surroundings

\* The API is spawned; from here on each signal is handled, once.
SpawnApi ==
    /\ script["prodLike"].pc = "use"
    /\ script' = [script EXCEPT !["prodLike"].pc = "serve", !["prodLike"].handled = Signals]
    /\ Start("api")
    /\ UNCHANGED <<container, surroundings>>

Advance(s) ==
    \/ /\ \/ Build(s) \/ Probe(s) \/ RemoveOld(s) \/ RunContainer(s) \/ RunReturned(s)
          \/ WaitReady(s) \/ Stop(s)
       /\ UNCHANGED startupVars
    \/ s = "tests" /\ TestsEnd /\ UNCHANGED startupVars
    \/ s = "prodLike" /\ SpawnApi
    \/ s = "prodLike" /\ ApiEnded /\ UNCHANGED startupVars

-----------------------------------------------------------------------------
\* The rest of the workstation.

\* The emulator listens.
EmulatorReady(n) ==
    /\ container[n].state = "starting"
    /\ container' = [container EXCEPT ![n].state = "ready"]
    /\ UNCHANGED <<startupVars, script, surroundings>>

Running(s) == script[s].pc \notin {"idle", "ended", "killed"}

ApiRuns == proc["api"].pc \notin {"off", "failed", "stopped"}

\* The script gets the signal, which ends it where it is unless it has a handler.
Signalled(s, signal) ==
    /\ Running(s)
    /\ script' = [script EXCEPT ![s].handled = @ \ {signal}, ![s].signalled = TRUE,
                                ![s].pc = IF signal \in script[s].handled THEN @ ELSE "killed"]

\* Mutant of Interrupt: the handler does not pass the signal on.
InterruptSwallowed(s, signal) ==
    /\ Signalled(s, signal)
    /\ UNCHANGED <<startupVars, container, surroundings>>

\* The handler passes the signal on to the API, whose shutdown hooks end it.
Interrupt(s, signal) ==
    /\ Signalled(s, signal)
    /\ proc' = IF signal \in script[s].handled /\ ApiRuns
                 THEN [proc EXCEPT !["api"].pc = "stopped"] ELSE proc
    /\ UNCHANGED <<config, container, surroundings>>

\* A run that was killed may have left a container of either name.
StackInit ==
    /\ StartupInit
    /\ script = [s \in Scripts |-> Waiting]
    /\ oneName \in IF place = "prodLike" THEN BOOLEAN ELSE {FALSE}
    /\ elsewhere \in IF place = "prodLike" THEN BOOLEAN ELSE {FALSE}
    /\ \E left \in IF place = "prodLike" THEN {"none", "starting"} ELSE {"none"} :
         container = [n \in Names |-> IF n = ContainerOf("tests")
                                        THEN [state |-> left, by |-> "nobody"] ELSE NoContainer]

StackNext ==
    \/ StartupNext /\ UNCHANGED stackVars
    \/ BeginProdLike \/ BeginTests
    \/ \E s \in Scripts : Advance(s) \/ \E signal \in Signals : Interrupt(s, signal)
    \/ \E n \in Names : EmulatorReady(n)

\* A script that can go on does.
StackSpec ==
    /\ StackInit /\ [][StackNext]_allVars
    /\ \A s \in Scripts : WF_allVars(Advance(s))

-----------------------------------------------------------------------------
\* Properties.

\* A script that ended leaves no container it ran behind, wherever on its way it
\* failed and whatever the other script did, under its own name or under the one
\* name of both, unless the runtime itself failed it at run or at stop.  Only a
\* signal that kills the script leaves one otherwise.
NothingIsLeftBehind ==
    \A n \in Names, s \in Scripts :
        Exists(n) /\ container[n].by = s /\ script[s].pc = "ended" => script[s].lost

\* A signal ends the script that gets it, at whatever statement it is.
SignalEndsScript ==
    \A s \in Scripts : script[s].signalled ~> script[s].pc \in {"ended", "killed"}

-----------------------------------------------------------------------------
\* What holds from step to step.

ScriptPcs == {"idle", "build", "probe", "remove", "run", "created", "wait", "use", "serve",
              "stop", "ended", "killed"}

ScriptsTypeOK ==
    /\ script \in [Scripts -> [pc : ScriptPcs, started : BOOLEAN, handled : SUBSET Signals,
                               signalled : BOOLEAN, lost : BOOLEAN]]
    /\ container \in [Names -> [state : {"none", "starting", "ready"},
                                by : Scripts \cup {"nobody"}]]
    /\ oneName \in BOOLEAN

\* Under start-prod-like-local.ts there is no process before the script has set
\* the environment, and none but the API after.
OnlyTheApi ==
    place = "prodLike" =>
        /\ proc["migration"] = Off /\ proc["worker"] = Off
        /\ script["prodLike"].pc = "idle" => proc["api"] = Off

\* A script may have a container with the locals m: it is about to learn that it
\* has it, or knows and is going to stop it, or cannot any more.
MayHave(m) ==
    \/ m.pc \in {"created", "killed"}
    \/ m.pc \in {"wait", "use", "serve", "stop"} /\ m.started
    \/ m.pc \in {"stop", "ended"} /\ m.lost

ContainersAreKnown ==
    \A n \in Names, s \in Scripts :
        Exists(n) /\ container[n].by = s => n = ContainerOf(s) /\ MayHave(script[s])

StackInv ==
    /\ StartupTypeOK /\ ScriptsTypeOK
    /\ ReadsWhatIsGiven /\ HasItsDatabase
    /\ OnlyTheApi
    /\ ContainersAreKnown

=============================================================================
