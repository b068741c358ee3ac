------------------------------- MODULE LocalRun -------------------------------
(***************************************************************************)
(* A local campaign batch: the bash script that execute_local.py generates *)
(* (one docker compose stack per job, one after the other), its traps for  *)
(* SIGINT and SIGTERM, the containers of the current job, and the caller:  *)
(* a shell, or the Python process of `vast execution local run', where     *)
(* DockerBackend.run_batch waits for the script in subprocess.run.         *)
(*                                                                         *)
(* bash runs a trap between two commands, so a signal that has arrived is  *)
(* handled before the script's next step; only `wait' is interrupted by    *)
(* it.  Streaming the containers' logs is left out.                        *)
(***************************************************************************)
EXTENDS JobPacking, FiniteSets

CONSTANTS
    MaxPresses,  \* bound: Ctrl+C pressed
    MaxTerms     \* bound: SIGTERM received

ASSUME LocalRunAssumption == MaxPresses \in Nat /\ MaxTerms \in Nat

VARIABLES
    conf,       \* how the script is called
    pc,         \* the script's next step
    job,        \* the job of that step
    abortOn,    \* ABORT_ON_FAILURE
    sigints,    \* SIGINT_COUNT
    composePid, \* COMPOSE_PID is set
    tidied,     \* CLEANUP_DONE
    overall,    \* OVERALL_EXIT_CODE
    code,       \* the script's exit status
    pending,    \* signals that have arrived and are not handled
    sent,       \* signals sent so far
    python,     \* the caller
    compose,    \* the background process: docker compose up, or docker wait
    box,        \* the main container of the current job
    secondary,  \* a secondary container is running
    results,    \* test.xml of each job's runs
    links       \* <<work item, job>>: the run's link to its job's artifacts

script == <<pc, job, abortOn, sigints, composePid, tidied, overall, code>>
docker == <<compose, box, secondary, results>>
rest == <<conf, links>>
localVars == <<script, docker, rest, pending, sent, python>>

Steps == {"stage", "parse", "check", "start", "compose", "launch", "follow", "launched", "wait",
          "interrupted", "down", "link", "judge", "cleanup", "cleanupDown",
          "leave"}

LocalTypeOK ==
    /\ conf \in [caller : {"shell", "python"}, secondaries : BOOLEAN, abort : BOOLEAN,
                 networkHost : BOOLEAN, startOnly : BOOLEAN]
    /\ pc \in Steps \cup {"exited"}
    /\ job \in Jobs
    /\ abortOn \in BOOLEAN
    /\ sigints \in 0 .. MaxPresses
    /\ composePid \in BOOLEAN /\ tidied \in BOOLEAN
    /\ overall \in {"ok", "failed"}
    /\ code \in {"none", "ok", "failed", "130", "killed"}
    /\ pending \subseteq {"INT", "TERM"}
    /\ sent \in [{"INT", "TERM"} -> 0 .. MaxPresses + MaxTerms]
    /\ python \in {"none", "waiting", "interrupted", "gone"}
    /\ compose \in {"none", "up", "ended"}
    /\ box \in {"none", "running", "stopping", "exited"}
    /\ secondary \in BOOLEAN
    /\ results \in [Jobs -> {"none", "passed", "failed", "lost"}]
    /\ links \subseteq WorkItems \X Jobs

\* The script is called by the vast command, or from a shell after prepare-run.
\* --start-only replaces the Python process (os.execv); in a search it does not,
\* and reaches the script by run_batch.
LocalInit ==
    /\ conf \in [caller : {"shell", "python"}, secondaries : BOOLEAN, abort : BOOLEAN,
                 networkHost : BOOLEAN, startOnly : BOOLEAN]
    /\ conf.networkHost => conf.caller = "python"
    /\ pc = "stage" /\ job = 1
    /\ abortOn = FALSE /\ sigints = 0 /\ composePid = FALSE /\ tidied = FALSE
    /\ overall = "ok" /\ code = "none"
    /\ pending = {} /\ sent = [s \in {"INT", "TERM"} |-> 0]
    /\ python = IF conf.caller = "python" THEN "waiting" ELSE "none"
    /\ compose = "none" /\ box = "none" /\ secondary = FALSE
    /\ results = [j \in Jobs |-> "none"]
    /\ links = {}

\* One command of the script; traps that wait come first.
At(step, next) == pc = step /\ pc' = next /\ pending = {}

Exit(status) == pc' = "exited" /\ code' = status

-----------------------------------------------------------------------------
(* Before the first job.                                                   *)

\* The Python side prepares the configurations and writes the script, with
\* the steps below for each job (initialize_local_execution, stage_run_script).
StageBatch ==
    /\ At("stage", "parse")
    /\ UNCHANGED <<job, abortOn, sigints, composePid, tidied, overall, code, docker,
                   rest, pending, sent, python>>

\* No configuration matches, or one cannot be prepared: no script.
StageFails ==
    /\ pc = "stage"
    /\ Exit("failed")
    /\ python' = IF python = "none" THEN "none" ELSE "gone"
    /\ UNCHANGED <<job, abortOn, sigints, composePid, tidied, overall, docker, rest,
                   pending, sent>>

\* The options loop leaves at the first word it does not know, which
\* --network-host is; run_batch passes --abort-on-failure after it.
ParseArguments ==
    /\ At("parse", "check")
    /\ abortOn' = (conf.abort /\ ~conf.networkHost)
    /\ UNCHANGED <<job, sigints, composePid, tidied, overall, code, docker, rest,
                   pending, sent, python>>

\* The image carries another compatibility version, or none.
RefuseImage ==
    /\ pc = "check" /\ pending = {}
    /\ Exit("failed")
    /\ UNCHANGED <<job, abortOn, sigints, composePid, tidied, overall, docker, rest,
                   pending, sent, python>>

\* Pull the image, compare versions, copy out_template and write
\* execution.yaml.
AcceptImage ==
    /\ At("check", "start")
    /\ UNCHANGED <<job, abortOn, sigints, composePid, tidied, overall, code, docker,
                   rest, pending, sent, python>>

\* The job's preamble: directories of its runs, resources, command.
StartJob ==
    /\ At("start", "compose")
    /\ UNCHANGED <<job, abortOn, sigints, composePid, tidied, overall, code, docker,
                   rest, pending, sent, python>>

\* The compose file: the main container, and the secondary ones in its
\* network; its name is that of the job's index, in /tmp.
WriteComposeFile ==
    /\ At("compose", "launch")
    /\ UNCHANGED <<job, abortOn, sigints, composePid, tidied, overall, code, docker,
                   rest, pending, sent, python>>

-----------------------------------------------------------------------------
(* One job.  Containers of an earlier job that were not taken down are     *)
(* replaced: all stacks share one compose project and its names.           *)

\* docker compose up --abort-on-container-exit in the background.
ComposeUp ==
    /\ At("launch", "launched")
    /\ ~conf.secondaries /\ ~conf.startOnly
    /\ compose' = "up" /\ box' = "running"
    /\ UNCHANGED <<job, abortOn, sigints, composePid, tidied, overall, code, secondary,
                   results, rest, pending, sent, python>>

\* docker compose up -d, in the foreground.
ComposeUpDetached ==
    /\ At("launch", "follow")
    /\ conf.secondaries
    /\ box' = "running" /\ secondary' = TRUE
    /\ UNCHANGED <<job, abortOn, sigints, composePid, tidied, overall, code, compose,
                   results, rest, pending, sent, python>>

ComposeUpFails ==
    /\ At("launch", "down")
    /\ conf.secondaries
    /\ results' = [results EXCEPT ![job] = "lost"]
    /\ UNCHANGED <<job, abortOn, sigints, composePid, tidied, overall, code, compose,
                   box, secondary, rest, pending, sent, python>>

\* docker wait robovast, in the background.
WaitForMain ==
    /\ At("follow", "launched")
    /\ compose' = "up"
    /\ UNCHANGED <<job, abortOn, sigints, composePid, tidied, overall, code, box,
                   secondary, results, rest, pending, sent, python>>

\* COMPOSE_PID=$!
RecordPid ==
    /\ At("launched", "wait")
    /\ composePid' = TRUE
    /\ UNCHANGED <<job, abortOn, sigints, tidied, overall, code, docker, rest, pending,
                   sent, python>>

\* Mutant: the loop around wait does not look whether the process is gone.
WaitAgain ==
    /\ At("wait", "wait")
    /\ compose = "ended"
    /\ compose' = "none"
    /\ UNCHANGED <<job, abortOn, sigints, composePid, tidied, overall, code, box,
                   secondary, results, rest, pending, sent, python>>

\* wait returns for good when the background process is gone.
WaitReturns ==
    /\ At("wait", "interrupted")
    /\ compose = "ended"
    /\ composePid' = FALSE
    /\ compose' = "none"
    /\ UNCHANGED <<job, abortOn, sigints, tidied, overall, code, box, secondary, results,
                   rest, pending, sent, python>>

\* if [ "$SIGINT_COUNT" -gt 0 ]; then cleanup; exit 130
CheckPresses ==
    /\ At("interrupted", IF sigints > 0 THEN "cleanup" ELSE "down")
    /\ code' = IF sigints > 0 THEN "130" ELSE code
    /\ UNCHANGED <<job, abortOn, sigints, composePid, tidied, overall, docker, rest,
                   pending, sent, python>>

\* --start-only: a shell in the container, in the foreground, until its user
\* leaves it.  With secondary containers the stack is brought up all the same,
\* with a shell for a command and nobody at it.
InShell == pc = "launch" /\ conf.startOnly /\ ~conf.secondaries

RunShell(outcome) ==
    /\ At("launch", "down")
    /\ InShell
    /\ results' = [results EXCEPT ![job] = outcome]
    /\ UNCHANGED <<job, abortOn, sigints, composePid, tidied, overall, code, compose,
                   box, secondary, rest, pending, sent, python>>

\* docker compose down: a container that still runs is stopped within 5 s.
TakeDown ==
    /\ box' = "none" /\ secondary' = FALSE
    /\ results' \in IF box \in {"running", "stopping"}
                      THEN {[results EXCEPT ![job] = o] : o \in {"failed", "lost"}}
                      ELSE {results}

\* docker compose down --volumes --timeout 5
ComposeDown ==
    /\ At("down", "link")
    /\ TakeDown
    /\ UNCHANGED <<job, abortOn, sigints, composePid, tidied, overall, code, compose,
                   rest, pending, sent, python>>

LinkArtifacts ==
    /\ At("link", "judge")
    /\ links' = links \cup (ItemsOf(job) \X {job})
    /\ UNCHANGED <<job, abortOn, sigints, composePid, tidied, overall, code, docker,
                   conf, pending, sent, python>>

Failed == results[job] # "passed"

\* Mutant: only the last job's exit status counts.
JudgeLast ==
    /\ At("judge", IF job = NJobs \/ (Failed /\ abortOn) THEN "cleanup" ELSE "start")
    /\ overall' = IF Failed THEN "failed" ELSE "ok"
    /\ IF job = NJobs \/ (Failed /\ abortOn)
         THEN code' = overall' /\ UNCHANGED job
         ELSE job' = job + 1 /\ UNCHANGED code
    /\ UNCHANGED <<abortOn, sigints, composePid, tidied, docker, rest, pending, sent,
                   python>>

\* Note a failure; abort, go on with the next job, or come to the summary.
JudgeJob ==
    /\ At("judge", IF job = NJobs \/ (Failed /\ abortOn) THEN "cleanup" ELSE "start")
    /\ overall' = IF Failed THEN "failed" ELSE overall
    /\ IF job = NJobs \/ (Failed /\ abortOn)
         THEN code' = overall' /\ UNCHANGED job
         ELSE job' = job + 1 /\ UNCHANGED code
    /\ UNCHANGED <<abortOn, sigints, composePid, tidied, docker, rest, pending, sent,
                   python>>

\* cleanup, up to its docker compose down; CLEANUP_DONE makes it a no-op the
\* second time.
BeginCleanup ==
    /\ At("cleanup", "cleanupDown")
    /\ tidied' = TRUE
    /\ UNCHANGED <<job, abortOn, sigints, composePid, overall, code, docker, rest,
                   pending, sent, python>>

EndCleanup ==
    /\ At("cleanupDown", "leave")
    /\ TakeDown
    /\ UNCHANGED <<job, abortOn, sigints, composePid, tidied, overall, code, compose,
                   rest, pending, sent, python>>

\* exit, with the status noted before.
Leave ==
    /\ At("leave", "exited")
    /\ UNCHANGED <<job, abortOn, sigints, composePid, tidied, overall, code, docker,
                   rest, pending, sent, python>>

ScriptStep ==
    \/ ParseArguments \/ RefuseImage \/ AcceptImage
    \/ StageBatch \/ StageFails \/ StartJob \/ WriteComposeFile
    \/ ComposeUp \/ ComposeUpDetached \/ ComposeUpFails \/ WaitForMain
    \/ RecordPid \/ WaitReturns \/ CheckPresses
    \/ \E o \in {"passed", "failed"} : RunShell(o)
    \/ ComposeDown \/ LinkArtifacts \/ JudgeJob \/ BeginCleanup \/ EndCleanup
    \/ Leave

-----------------------------------------------------------------------------
(* The traps.  bash runs that of SIGINT first.                             *)

\* handle_sigint, first press: docker compose up is told to stop its stack;
\* with secondary containers it is docker wait that ends.  Without
\* COMPOSE_PID nothing is stopped.
HandleFirstPress ==
    /\ pc # "exited" /\ "INT" \in pending /\ sigints = 0
    /\ pending' = pending \ {"INT"}
    /\ sigints' = 1
    /\ box' = IF composePid /\ ~conf.secondaries /\ box = "running" THEN "stopping" ELSE box
    /\ compose' = IF composePid /\ conf.secondaries /\ compose = "up" THEN "ended" ELSE compose
    /\ UNCHANGED <<pc, job, abortOn, composePid, tidied, overall, code, secondary,
                   results, rest, sent, python>>

\* Mutant: docker compose kill is left out.
HandleNextPressNoKill ==
    /\ pc # "exited" /\ "INT" \in pending /\ sigints > 0
    /\ pending' = pending \ {"INT"}
    /\ sigints' = sigints + 1
    /\ compose' = IF composePid THEN "ended" ELSE compose
    /\ IF tidied THEN UNCHANGED <<box, secondary, results>> ELSE TakeDown
    /\ tidied' = TRUE
    /\ Exit("130")
    /\ UNCHANGED <<job, abortOn, composePid, overall, rest, sent, python>>

\* handle_sigint, later presses: compose and the containers are killed;
\* cleanup removes them unless it has run.
HandleNextPress ==
    /\ pc # "exited" /\ "INT" \in pending /\ sigints > 0
    /\ pending' = pending \ {"INT"}
    /\ sigints' = sigints + 1
    /\ compose' = IF composePid THEN "ended" ELSE compose
    /\ box' = IF tidied /\ box # "none" THEN "exited" ELSE "none"
    /\ secondary' = FALSE
    /\ results' = IF box \in {"running", "stopping"} THEN [results EXCEPT ![job] = "lost"]
                                                     ELSE results
    /\ tidied' = TRUE
    /\ Exit("130")
    /\ UNCHANGED <<job, abortOn, composePid, overall, rest, sent, python>>

\* trap 'cleanup; exit 130' SIGTERM
HandleTerm ==
    /\ pc # "exited" /\ pending = {"TERM"}
    /\ pending' = {}
    /\ IF tidied THEN UNCHANGED <<box, secondary, results>> ELSE TakeDown
    /\ tidied' = TRUE
    /\ Exit("130")
    /\ UNCHANGED <<job, abortOn, sigints, composePid, overall, compose, rest, sent, python>>

Trap == HandleFirstPress \/ HandleNextPress \/ HandleTerm

-----------------------------------------------------------------------------
(* Docker, external.                                                       *)

\* The scenario, or the shell in its place, ends, by itself or stopped; it may
\* be killed or crash before it has written test.xml.
ScenarioEnds(outcome) ==
    /\ box \in {"running", "stopping"}
    /\ box' = "exited"
    /\ results' = [results EXCEPT ![job] = outcome]
    /\ UNCHANGED <<script, compose, secondary, rest, pending, sent, python>>

\* docker compose up ends with its stack, docker wait with the container.
ComposeEnds ==
    /\ compose = "up" /\ box \in {"exited", "none"}
    /\ compose' = "ended"
    /\ UNCHANGED <<script, box, secondary, results, rest, pending, sent, python>>

\* The secondary's watchdog; a shell in its place has none.
SecondaryEnds ==
    /\ secondary /\ box # "running" /\ ~conf.startOnly
    /\ secondary' = FALSE
    /\ UNCHANGED <<script, compose, box, results, rest, pending, sent, python>>

DockerStep ==
    \/ \E o \in {"passed", "failed", "lost"} : ScenarioEnds(o)
    \/ ComposeEnds \/ SecondaryEnds

-----------------------------------------------------------------------------
(* Signals and the caller.                                                 *)

CanSend(s) == /\ pc \notin {"stage", "exited"}
              /\ s \notin pending
              /\ sent[s] < (IF s = "INT" THEN MaxPresses ELSE MaxTerms)

\* Ctrl+C reaches the script and the Python process; compose ignores it.
PressCtrlC ==
    /\ CanSend("INT")
    /\ pending' = pending \cup {"INT"}
    /\ sent' = [sent EXCEPT !["INT"] = @ + 1]
    /\ python' = IF python = "waiting" THEN "interrupted" ELSE python
    /\ UNCHANGED <<script, docker, rest>>

\* docker compose down runs in the foreground and does not ignore it.
InterruptDown ==
    /\ CanSend("INT") /\ pending = {}
    /\ \/ pc = "down" /\ pc' = "link"
       \/ pc = "cleanupDown" /\ pc' = "leave"
    /\ pending' = pending \cup {"INT"}
    /\ sent' = [sent EXCEPT !["INT"] = @ + 1]
    /\ python' = IF python = "waiting" THEN "interrupted" ELSE python
    /\ UNCHANGED <<job, abortOn, sigints, composePid, tidied, overall, code, docker, rest>>

\* The analyzer's local execution sends SIGTERM to the whole process group
\* of the command; a shell's kill only reaches the script.
SendTerm ==
    /\ CanSend("TERM")
    /\ pending' = pending \cup {"TERM"}
    /\ sent' = [sent EXCEPT !["TERM"] = @ + 1]
    /\ python' = IF python = "none" THEN "none" ELSE "gone"
    /\ IF python = "none"
         THEN UNCHANGED <<box, compose>>
         ELSE /\ box' = IF ~conf.secondaries /\ compose = "up" /\ box = "running"
                          THEN "stopping" ELSE box
              /\ compose' = IF conf.secondaries /\ compose = "up" THEN "ended" ELSE compose
    /\ UNCHANGED <<script, secondary, results, rest>>

\* subprocess.run, interrupted: the script gets a quarter of a second and is
\* killed then; the exception ends the command.
KillScript ==
    /\ python = "interrupted"
    /\ python' = "gone"
    /\ IF pc = "exited" THEN UNCHANGED <<pc, code>> ELSE Exit("killed")
    /\ UNCHANGED <<job, abortOn, sigints, composePid, tidied, overall, docker, rest,
                   pending, sent>>

\* subprocess.run returns; run_batch warns of a status other than 0.
ScriptReturns ==
    /\ python = "waiting" /\ pc = "exited"
    /\ python' = "gone"
    /\ UNCHANGED <<script, docker, rest, pending, sent>>

PythonStep == KillScript \/ ScriptReturns

LocalNext ==
    ScriptStep \/ Trap \/ DockerStep \/ PressCtrlC \/ InterruptDown \/ SendTerm \/ PythonStep

\* The script and docker run on; a container that was told to stop ends.  No
\* scenario need end by itself (execution.timeout is not enforced here), and
\* nobody need leave a shell.
LocalSpec ==
    /\ LocalInit /\ [][LocalNext]_localVars
    /\ WF_localVars(ScriptStep /\ ~InShell) /\ WF_localVars(Trap)
    /\ WF_localVars(DockerStep /\ box # "running") /\ WF_localVars(PythonStep)

-----------------------------------------------------------------------------
(* Properties.                                                             *)

Alive == box \in {"running", "stopping"} \/ secondary

\* A script that ended by itself leaves no running container behind, whatever
\* moment Ctrl+C was pressed at (execute_local.py:176-226, 594-653).  Killed,
\* or terminated in the middle of the cleanup of a Ctrl+C, it may.
NoContainerLeft ==
    pc = "exited" /\ code # "killed" /\ ~(sigints > 0 /\ sent["TERM"] > 0)
        => ~Alive

\* Exit status 0 means that every run of every configuration was in exactly one
\* job, whose container ended with status 0 (under --start-only: its shell), and
\* is linked to that job's artifacts, however the runs were packed, although
\* failures do not stop the script and a Ctrl+C may have come between any two
\* commands.
ZeroMeansAllPassed ==
    pc = "exited" /\ code = "ok"
        => \A w \in WorkItems :
             \E j \in Jobs : results[j] = "passed" /\ {l \in links : l[1] = w} = {<<w, j>>}

\* The main container of the job runs on, or somebody stays in its shell.
Held == (pc = "wait" /\ composePid /\ compose = "up" /\ box = "running" /\ pending = {}) \/ InShell

\* The script ends, pressed or not, and so does the command that called it,
\* unless for ever a scenario runs on or somebody stays in the shell: there is
\* no other place where it waits for good (execute_local.py:594-659).
ScriptEnds ==
    \/ <>[](pc = "exited" /\ python \in {"none", "gone"})
    \/ <>[]Held

-----------------------------------------------------------------------------
(* What the words say and the code does not do: TLC finds these violated.  *)

\* "SIGINT handler: first press triggers graceful shutdown; subsequent presses
\* force-kill" (execute_local.py:194): one press leaves no container running.
FirstPressShutsDown ==
    pc = "exited" /\ sent["INT"] = 1 /\ sent["TERM"] = 0 => ~Alive

\* "--start-only ... ignored in search mode" (cli.py:157-164): no batch of a
\* search stops at a shell.
StartOnlyIgnored == conf.caller = "python" => ~InShell

\* "--abort-on-failure: Stop execution after the first failed run config"
\* (cli.py:93), whatever other options are given.
AbortRequestedStops == conf.abort => \A j \in 1 .. job - 1 : results[j] = "passed"
=============================================================================
