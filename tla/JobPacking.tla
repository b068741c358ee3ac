------------------------------ MODULE JobPacking ------------------------------
(***************************************************************************)
(* Packing of a campaign's work items into jobs (execution/packer.py):     *)
(* every configuration at every run number, grouped by configuration, cut  *)
(* into consecutive chunks of runs_per_job items (OnePerJob is the chunk   *)
(* of one).  A job is one Kubernetes Job or one docker compose stack.      *)
(***************************************************************************)
EXTENDS Integers

CONSTANTS
    NConfigs,    \* configurations of the batch
    Runs,        \* runs of each configuration
    RunsPerJob   \* execution.runs_per_job

ASSUME PackingAssumption ==
    NConfigs \in Nat \ {0} /\ Runs \in Nat \ {0} /\ RunsPerJob \in Nat \ {0}

NItems == NConfigs * Runs

\* build_work_items, a work item by its position: configurations outside, run
\* numbers, which start at 0, inside.
Item(i) == [config |-> (i - 1) \div Runs + 1, run |-> (i - 1) % Runs]
WorkItems == [config : 1 .. NConfigs, run : 0 .. Runs - 1]

\* range(0, len(items), k): the positions jobs start at.
NJobs == (NItems + RunsPerJob - 1) \div RunsPerJob
Jobs == 1 .. NJobs

\* items[start:start + k]
Chunk(j) == {i \in 1 .. NItems : (j - 1) * RunsPerJob < i /\ i <= j * RunsPerJob}
ItemsOf(j) == {Item(i) : i \in Chunk(j)}
=============================================================================
