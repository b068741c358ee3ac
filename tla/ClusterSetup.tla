---------------------------- MODULE ClusterSetup ----------------------------
(***************************************************************************)
(* `vast execution cluster setup' and `cleanup': what the commands put on a *)
(* Kubernetes cluster, take away again, and note in a flag file             *)
(* (cluster_execution/cluster_setup.py, kubernetes_kueue.py, kubernetes.py  *)
(* and the provider configurations under cluster_config/).                  *)
(*                                                                          *)
(* Several operators work on one cluster, each command a process that makes *)
(* one API call, or runs one tool, at a time.  A slot is a flag file: one   *)
(* for each project directory and --context option, so two of them may mean *)
(* the same cluster and the same namespace.                                 *)
(***************************************************************************)
EXTENDS Naturals, SequencesExt

CONSTANTS
    Operators,   \* terminals that commands are typed into
    Slots,       \* flag files
    Namespaces,  \* values of --namespace
    DefaultNs,   \* its default
    Configs,     \* names of provider configurations that are used
    Rights,      \* kinds of the objects that let controllers work in a namespace,
                 \* in the order they are created: ServiceAccount, Role and
                 \* RoleBinding, ClusterRole and its binding
    NoFlag,      \* a flag file that is not there
    MaxCalls,    \* bound: commands started
    MaxFaults    \* bound: calls that fail, interrupts included

ASSUME DefaultNsAssumption == DefaultNs \in Namespaces
ASSUME ConfigsAssumption == Configs \subseteq {"minikube", "rke2", "azure", "gcp"}
ASSUME RightsAssumption ==
    Rights \in Seq({"serviceAccount", "role", "roleBinding", "clusterRole", "clusterRoleBinding"})
ASSUME NoFlagAssumption == NoFlag \notin Namespaces \cup Configs

VARIABLES
    there,       \* the objects on the cluster
    crds,        \* Kueue's resource definitions
    finalizers,  \* ClusterQueue or ResourceFlavor cannot be collected
    flag,        \* what each flag file says
    cmd,         \* the command each operator runs, or ran last
    spoiled,     \* history: slots whose namespace a cleanup was aimed at
    calls, faults

setupVars == <<there, crds, finalizers, flag, cmd, spoiled, calls, faults>>

\* Mutant: the cluster-wide role has one name for all namespaces.
OneClusterRole(kind, ns) == <<kind, IF kind = "clusterRole" THEN "all" ELSE ns>>

\* The objects of a namespace, and the cluster-wide ones that have it in their
\* names.
Named(kind, ns) == <<kind, ns>>

\* The manifest of the embedded MinIO server; campaigns on GCP use a bucket.
Manifest(config) ==
    CASE config = "azure" -> <<"pvc", "pod", "service">>
      [] config = "gcp"   -> <<>>
      [] OTHER            -> <<"pod", "service">>

\* The Helm release, and what is kubectl-applied once it is there.
Release == <<"release", "cluster">>
Flavor == <<"flavor", "cluster">>
ClusterQueue == <<"clusterQueue", "cluster">>
LocalQueue(ns) == <<"localQueue", ns>>
QueueObjects == {Flavor, ClusterQueue} \cup {LocalQueue(ns) : ns \in Namespaces}

RightsOf(ns) == {Named(k, ns) : k \in ToSet(Rights)}
StorageOf(config, ns) == {<<k, ns>> : k \in ToSet(Manifest(config))}

NoCommand ==
    [at |-> "idle", kind |-> "none", slot |-> NoFlag, config |-> "none",
     ns |-> DefaultNs, opts |-> FALSE, forced |-> FALSE, todo |-> <<>>,
     refused |-> {}, calm |-> FALSE, crossed |-> FALSE, end |-> "none"]

Running(o) == cmd[o].at # "idle"
At(o, step) == cmd[o].at = step

SetupInit ==
    /\ there = {}
    /\ crds = "absent"
    /\ finalizers = FALSE
    /\ flag = [s \in Slots |-> NoFlag]
    /\ cmd = [o \in Operators |-> NoCommand]
    /\ spoiled = {}
    /\ calls = 0
    /\ faults = 0

-----------------------------------------------------------------------------
(* Starting and ending a command.                                          *)

Opposed(c, d) == c.kind # d.kind /\ c.ns = d.ns

\* "calm": no fault and no other command; "crossed": a command that undoes what
\* this one does was under way at the same time.
Start(o, c) ==
    LET others == {p \in Operators \ {o} : Running(p)}
    IN  /\ ~Running(o)
        /\ calls < MaxCalls
        /\ calls' = calls + 1
        /\ cmd' = [p \in Operators |->
             CASE p = o -> [c EXCEPT !.calm = others = {},
                                     !.crossed = \E q \in others : Opposed(cmd[q], c)]
               [] p \in others -> [cmd[p] EXCEPT !.calm = FALSE,
                                                 !.crossed = @ \/ Opposed(cmd[p], c)]
               [] OTHER -> cmd[p]]
        /\ UNCHANGED <<there, crds, finalizers, flag, faults>>

Goto(o, step) == cmd' = [cmd EXCEPT ![o].at = step]
Begin(o, step, todo) == cmd' = [cmd EXCEPT ![o].at = step, ![o].todo = todo]
\* Of an ended command only a failure that nothing explains is remembered.
Ended(c, how) ==
    IF how = "failed" /\ c.calm
    THEN [NoCommand EXCEPT !.kind = c.kind, !.config = c.config, !.opts = c.opts,
                           !.forced = c.forced, !.calm = TRUE, !.end = how]
    ELSE [NoCommand EXCEPT !.end = how]
Finish(o, how) == cmd' = [cmd EXCEPT ![o] = Ended(@, how)]

\* The next object of a list is dealt with.
Head1(o) == Head(cmd[o].todo)
Shorten(o) == cmd' = [cmd EXCEPT ![o].todo = Tail(@)]

Fault == faults < MaxFaults /\ faults' = faults + 1

\* An API call or a tool raises, or the operator presses Ctrl+C: the command
\* ends where it is.
FailsAt(o) ==
    /\ Running(o)
    /\ Fault
    /\ cmd' = [cmd EXCEPT ![o] = Ended([@ EXCEPT !.calm = FALSE], "failed")]
    /\ UNCHANGED <<flag, spoiled, calls>>

Fails(o) == FailsAt(o) /\ UNCHANGED <<there, crds, finalizers>>

-----------------------------------------------------------------------------
(* setup_server.                                                           *)

\* Refused while the flag file is there, unless forced.
StartSetup(o, s) ==
    \E config \in Configs, ns \in Namespaces, opts, forced \in BOOLEAN :
      /\ flag[s] = NoFlag \/ forced
      /\ opts => config = "gcp"
      /\ Start(o, [NoCommand EXCEPT !.at = "helm", !.kind = "setup", !.slot = s,
                                    !.config = config, !.ns = ns, !.opts = opts,
                                    !.forced = forced /\ flag[s] # NoFlag])
      /\ UNCHANGED spoiled

\* install_kueue_helm: install or upgrade, whichever `helm list' suggests.
InstallKueue(o) ==
    /\ At(o, "helm")
    /\ there' = there \cup {Release}
    /\ crds' = IF crds = "absent" THEN "established" ELSE crds
    /\ Goto(o, "queues")
    /\ UNCHANGED <<finalizers, flag, spoiled, calls, faults>>

\* Helm gives up half-way: the release may be there all the same.
InstallFails(o) ==
    /\ At(o, "helm")
    /\ FailsAt(o)
    /\ there' = there \cup {Release}
    /\ crds' \in {crds, IF crds = "absent" THEN "established" ELSE crds}
    /\ UNCHANGED finalizers

\* apply_kueue_queues; Kueue puts finalizers on queue and flavor.  While the
\* definitions of an earlier release are being collected it tries again.
ApplyQueues(o) ==
    /\ At(o, "queues")
    /\ crds = "established"
    /\ there' = there \cup {Flavor, ClusterQueue, LocalQueue(cmd[o].ns)}
    /\ finalizers' = TRUE
    /\ Begin(o, "rights", Rights)
    /\ UNCHANGED <<crds, flag, spoiled, calls, faults>>

\* No definitions, or six attempts in vain.
ApplyGivesUp(o) ==
    /\ At(o, "queues")
    /\ crds # "established"
    /\ Finish(o, "failed")
    /\ UNCHANGED <<there, crds, finalizers, flag, spoiled, calls, faults>>

\* kubectl has applied a part of the file.
ApplyQueuesFails(o) ==
    /\ At(o, "queues")
    /\ crds = "established"
    /\ FailsAt(o)
    /\ \E made \in SUBSET {Flavor, ClusterQueue} :
         there' = there \cup made /\ finalizers' = (finalizers \/ made # {})
    /\ UNCHANGED crds

\* apply_controller_rbac: an object that exists is kept, or patched.
GrantRight(o) ==
    /\ At(o, "rights")
    /\ cmd[o].todo # <<>>
    /\ there' = there \cup {Named(Head1(o), cmd[o].ns)}
    /\ Shorten(o)
    /\ UNCHANGED <<crds, finalizers, flag, spoiled, calls, faults>>

\* setup_cluster of the provider.
BeginStorage(o) ==
    /\ At(o, "rights")
    /\ cmd[o].todo = <<>>
    /\ Begin(o, "storage", Manifest(cmd[o].config))
    /\ UNCHANGED <<there, crds, finalizers, flag, spoiled, calls, faults>>

\* GCP asks for a bucket and credentials before anything else; here they come
\* with -o or out of the flag file, never from the environment.
LacksOptions(o) == cmd[o].config = "gcp" /\ ~cmd[o].opts

\* apply_manifests creates object after object.
CreateObject(o) ==
    /\ At(o, "storage")
    /\ cmd[o].todo # <<>>
    /\ <<Head1(o), cmd[o].ns>> \notin there
    /\ there' = there \cup {<<Head1(o), cmd[o].ns>>}
    /\ Shorten(o)
    /\ UNCHANGED <<crds, finalizers, flag, spoiled, calls, faults>>

\* An object that exists is an error, said to be skipped and raised all the same.
StorageRefused(o) ==
    /\ At(o, "storage")
    /\ \/ LacksOptions(o)
       \/ cmd[o].todo # <<>> /\ <<Head1(o), cmd[o].ns>> \in there
    /\ Finish(o, "failed")
    /\ UNCHANGED <<there, crds, finalizers, flag, spoiled, calls, faults>>

\* save_cluster_setup_info, the last step.
SaveFlag(o) ==
    /\ At(o, "storage")
    /\ cmd[o].todo = <<>>
    /\ ~LacksOptions(o)
    /\ flag' = [flag EXCEPT ![cmd[o].slot] =
                  [config |-> cmd[o].config, ns |-> cmd[o].ns, opts |-> cmd[o].opts]]
    /\ spoiled' = IF cmd[o].crossed THEN spoiled \cup {cmd[o].slot}
                                    ELSE spoiled \ {cmd[o].slot}
    /\ Finish(o, "done")
    /\ UNCHANGED <<there, crds, finalizers, calls, faults>>

SetupStep(o) ==
    \/ \E s \in Slots : StartSetup(o, s)
    \/ InstallKueue(o) \/ InstallFails(o)
    \/ ApplyQueues(o) \/ ApplyGivesUp(o) \/ ApplyQueuesFails(o)
    \/ GrantRight(o) \/ BeginStorage(o)
    \/ CreateObject(o) \/ StorageRefused(o) \/ SaveFlag(o)

-----------------------------------------------------------------------------
(* delete_server.                                                          *)

\* With a configuration on the command line nothing is read from the flag file;
\* without one the file says where and how, unless -n says otherwise.
NamespaceFor(s, config, ns) ==
    CASE ns # NoFlag     -> ns
      [] config = NoFlag -> flag[s].ns
      [] OTHER           -> DefaultNs

\* The campaigns are cleaned up first (the module ClusterCleanup); what that
\* raises is only logged.
StartCleanup(o, s) ==
    \E config \in Configs \cup {NoFlag}, given \in Namespaces \cup {NoFlag}, opts \in BOOLEAN :
      /\ config = NoFlag => flag[s] # NoFlag
      /\ opts => config = "gcp"
      /\ LET ns == NamespaceFor(s, config, given)
         IN  /\ Start(o, [NoCommand EXCEPT
                  !.at = "revoke", !.todo = Reverse(Rights), !.kind = "cleanup",
                  !.slot = s, !.ns = ns,
                  !.config = IF config = NoFlag THEN flag[s].config ELSE config,
                  !.opts = IF config = NoFlag THEN flag[s].opts ELSE opts])
             /\ spoiled' = spoiled \cup {t \in Slots : flag[t] # NoFlag /\ flag[t].ns = ns}

\* delete_controller_rbac: what is not there is none of its business.
RevokeRight(o) ==
    /\ At(o, "revoke")
    /\ cmd[o].todo # <<>>
    /\ there' = there \ {Named(Head1(o), cmd[o].ns)}
    /\ Shorten(o)
    /\ UNCHANGED <<crds, finalizers, flag, spoiled, calls, faults>>

\* A refusal is logged, and the next object is tried.
RevokeRefused(o) ==
    /\ At(o, "revoke")
    /\ cmd[o].todo # <<>>
    /\ Fault
    /\ cmd' = [cmd EXCEPT ![o].todo = Tail(@), ![o].calm = FALSE,
                          ![o].refused = @ \cup {Named(Head1(o), cmd[o].ns)}]
    /\ UNCHANGED <<there, crds, finalizers, flag, spoiled, calls>>

\* delete_kueue_webhook_configs, cleanup_kueue_cluster_resources.
FreeQueues(o) ==
    /\ At(o, "revoke")
    /\ cmd[o].todo = <<>>
    /\ finalizers' = FALSE
    /\ Goto(o, "uninstall")
    /\ UNCHANGED <<there, crds, flag, spoiled, calls, faults>>

\* A patch is refused, which is only logged.
FreeRefused(o) ==
    /\ At(o, "revoke")
    /\ cmd[o].todo = <<>>
    /\ Fault
    /\ cmd' = [cmd EXCEPT ![o].at = "uninstall", ![o].calm = FALSE]
    /\ UNCHANGED <<there, crds, finalizers, flag, spoiled, calls>>

\* Mutant: a release that is not there is an error.
UninstallThere(o) ==
    /\ At(o, "uninstall")
    /\ there' = there \ {Release}
    /\ crds' = IF Release \in there THEN "terminating" ELSE crds
    /\ IF Release \in there
       THEN Begin(o, "delete", Reverse(Manifest(cmd[o].config)))
       ELSE Finish(o, "failed")
    /\ UNCHANGED <<finalizers, flag, spoiled, calls, faults>>

\* uninstall_kueue_helm: the definitions are templates of the release.
Uninstall(o) ==
    /\ At(o, "uninstall")
    /\ there' = there \ {Release}
    /\ crds' = IF Release \in there THEN "terminating" ELSE crds
    /\ Begin(o, "delete", Reverse(Manifest(cmd[o].config)))
    /\ UNCHANGED <<finalizers, flag, spoiled, calls, faults>>

\* Mutant: an object that is not there ends the loop.
DeleteWhatIsThere(o) ==
    /\ At(o, "delete")
    /\ cmd[o].todo # <<>>
    /\ there' = there \ {<<Head1(o), cmd[o].ns>>}
    /\ IF <<Head1(o), cmd[o].ns>> \in there THEN Shorten(o) ELSE Begin(o, "delete", <<>>)
    /\ UNCHANGED <<crds, finalizers, flag, spoiled, calls, faults>>

\* cleanup_cluster of the provider, delete_manifests.
DeleteObject(o) ==
    /\ At(o, "delete")
    /\ cmd[o].todo # <<>>
    /\ there' = there \ {<<Head1(o), cmd[o].ns>>}
    /\ Shorten(o)
    /\ UNCHANGED <<crds, finalizers, flag, spoiled, calls, faults>>

DeleteRefused(o) ==
    /\ At(o, "delete")
    /\ LacksOptions(o)
    /\ Finish(o, "failed")
    /\ UNCHANGED <<there, crds, finalizers, flag, spoiled, calls, faults>>

\* delete_cluster_config_flag.
DeleteFlag(o) ==
    /\ At(o, "delete")
    /\ cmd[o].todo = <<>>
    /\ ~LacksOptions(o)
    /\ flag' = [flag EXCEPT ![cmd[o].slot] = NoFlag]
    /\ spoiled' = spoiled \ {cmd[o].slot}
    /\ Finish(o, "done")
    /\ UNCHANGED <<there, crds, finalizers, calls, faults>>

CleanupStep(o) ==
    \/ \E s \in Slots : StartCleanup(o, s)
    \/ RevokeRight(o) \/ RevokeRefused(o)
    \/ FreeQueues(o) \/ FreeRefused(o) \/ Uninstall(o)
    \/ DeleteObject(o) \/ DeleteRefused(o) \/ DeleteFlag(o)

-----------------------------------------------------------------------------
\* The API server collects the definitions and the objects of them, once no
\* finalizer is in the way; a release installed meanwhile brings its own.
CrdsSettle ==
    /\ crds = "terminating"
    /\ ~finalizers
    /\ there' = there \ QueueObjects
    /\ crds' = IF Release \in there THEN "established" ELSE "absent"
    /\ UNCHANGED <<finalizers, flag, cmd, spoiled, calls, faults>>

SetupNext ==
    \/ \E o \in Operators : SetupStep(o) \/ CleanupStep(o) \/ Fails(o)
    \/ CrdsSettle

SetupSpec == SetupInit /\ [][SetupNext]_setupVars

-----------------------------------------------------------------------------
(* Properties.                                                             *)

Flags == [config : Configs, ns : Namespaces, opts : BOOLEAN]

TypeOK ==
    /\ there \subseteq {Release} \cup QueueObjects
         \cup UNION {RightsOf(ns) \cup StorageOf("azure", ns) : ns \in Namespaces}
    /\ crds \in {"absent", "established", "terminating"}
    /\ finalizers \in BOOLEAN
    /\ flag \in [Slots -> Flags \cup {NoFlag}]
    /\ \A o \in Operators : cmd[o].end \in {"none", "done", "failed"}
    /\ spoiled \subseteq Slots

\* What a flag file says is there: the storage server and the rights of the
\* controllers of its namespace, which no command aimed at another namespace
\* takes away, whichever calls of whose commands failed in which order
\* ("coexist without clobbering each other", cluster_setup.py:44-48; the flag
\* is saved "after successful setup", cluster_setup.py:518).
FlagMeansSetUp ==
    \A s \in Slots :
      flag[s] # NoFlag /\ s \notin spoiled
        => RightsOf(flag[s].ns) \cup StorageOf(flag[s].config, flag[s].ns) \subseteq there

\* A cleanup that reports success, and whose namespace no set-up was working in
\* at the time, has left nothing of what its flag file stands for but what it
\* was refused; on a cluster of its own Kueue is gone as well.
CleanupLeavesNothing ==
    [][\A o \in Operators :
         /\ cmd[o].kind = "cleanup" /\ At(o, "delete")
         /\ cmd'[o].end = "done"
         /\ ~cmd[o].crossed
         => LET mine == flag[cmd[o].slot]
                aim  == IF mine = NoFlag THEN cmd[o] ELSE mine
            IN  cmd[o].ns = aim.ns /\ cmd[o].config = aim.config
                  => /\ (RightsOf(aim.ns) \cup StorageOf(aim.config, aim.ns)) \cap there'
                          \subseteq cmd[o].refused
                     /\ cmd[o].calm => Release \notin there']_setupVars

\* Whatever half-finished set-ups and cleanups have left behind, a cleanup that
\* nothing disturbs goes through, provided it knows the options GCP asks for.
CleanupRecovers ==
    \A o \in Operators :
      cmd[o].kind = "cleanup" /\ cmd[o].end = "failed" /\ cmd[o].calm => LacksOptions(o)

-----------------------------------------------------------------------------
(* What the words say and the code does not do: TLC finds these violated.  *)

\* "--force: Force re-setup even if cluster is already set up" (cli.py:993): the
\* embedded storage server cannot be created a second time.
ForcedSetupWorks ==
    \A o \in Operators :
      cmd[o].forced /\ cmd[o].end = "failed" /\ cmd[o].calm => LacksOptions(o)

\* Set-ups in different namespaces do not coexist as far as the job queue goes:
\* a cleanup of one uninstalls Kueue for all.
QueuesCoexist ==
    \A s \in Slots :
      flag[s] # NoFlag /\ s \notin spoiled
        => {Release, ClusterQueue, LocalQueue(flag[s].ns)} \subseteq there

\* When every set-up has been cleaned up with success no storage server is left:
\* a forced set-up for GCP forgets the server of the configuration before it.
NoServerForgotten ==
    (\A s \in Slots : flag[s] = NoFlag)
      /\ (\A o \in Operators : ~Running(o)) /\ faults = 0
        => \A ns \in Namespaces : <<"pod", ns>> \in there
             => \E o \in Operators : cmd[o].end = "failed"
=============================================================================
