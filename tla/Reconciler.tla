----------------------------- MODULE Reconciler -----------------------------
(***************************************************************************)
(* The operator as a whole: the worker of ReconcileFrame, OLSInstall and   *)
(* OLSConfigSync in the environment of Cluster, and what it promises.      *)
(***************************************************************************)
EXTENDS OLSInstall, OLSConfigSync

CONSTANT FirstOwner   \* the instance that is Ready in the initial state

\* The OLS operator of a Ready instance came with an InstallPlan.
ASSUME FirstOwnerAssumption ==
    FirstOwner \in Owners /\ (FirstOwner # NoInstance => MaxPlans > 0)

-----------------------------------------------------------------------------
(* The state in which instance i is Ready, alone, and nothing is left to   *)
(* do.  A behavior starts there when FirstOwner is i, in an empty cluster  *)
(* when it is NoInstance.                                                  *)

SettledVersion ==
    IF GetRecommendedOLSVersion = NoVersion THEN Catalog[Len(Catalog)]
                                            ELSE GetRecommendedOLSVersion

SettledStatus(g, clusterVersion) ==
    LET s == resolveOCPVersion([NoStatus EXCEPT !.obsGen = g], Specs[g],
                               DetectOCPVersion(clusterVersion))
    IN  [s EXCEPT !.conds.ols = "True", !.conds.op = "True", !.conds.ready = "True"]

\* What another reconciliation would leave as it is.
SettledContent(g, clusterVersion, content) ==
    DesiredContent(Defaulted(Specs[g]), SettledStatus(g, clusterVersion).active,
                   content)

\* found holds what the spec of the instance does not determine: what was in
\* the OLSConfig before, and what the OLS operator has made of it.
RolledOut(g, k) ==
    [want |-> NoContent, rolled |-> SettledContent(g, OCPHistory[k], NoContent),
     overall |-> TRUE, dirty |-> FALSE]

Settled(i, g, k, found) ==
    /\ inst = [j \in Instances |->
                 IF j = i THEN [CreatedObject EXCEPT !.fin = TRUE, !.gen = g,
                                    !.status = SettledStatus(g, OCPHistory[k])]
                          ELSE NewObject]
    /\ cinst = inst
    /\ sub = [j \in Instances |->
                 IF j = i THEN [exists |-> TRUE, catalog |-> Specs[g].catalog,
                                startingCSV |-> GetRecommendedOLSVersion,
                                planRef |-> 1]
                          ELSE NoSubscription]
    /\ csub = sub
    /\ plans = [p \in Plans |->
                 IF p = 1 THEN [phase |-> "complete", approved |-> TRUE,
                                version |-> SettledVersion, via |-> i]
                          ELSE NoInstallPlan]
    /\ cplans = plans
    /\ csv = [exists |-> TRUE, version |-> SettledVersion, succeeded |-> TRUE,
              owner |-> i, via |-> i, deleting |-> FALSE]
    /\ crd = TRUE
    /\ cfg = [exists |-> TRUE, label |-> i, fins |-> Finalizers,
              deleting |-> FALSE, want |-> SettledContent(g, OCPHistory[k], found.want),
              rolled |-> found.rolled, overall |-> found.overall,
              dirty |-> found.dirty]
    /\ ocp = k
    /\ queue = {}
    /\ timers = {}

InitialCluster ==
    IF FirstOwner = NoInstance THEN ClusterInit
    ELSE /\ recommended \in Recommendations \ {""}
         /\ Settled(FirstOwner, 1, 1, RolledOut(1, 1))
         /\ userActs = 0 /\ restarts = 0 /\ faults = 0

Init == InitialCluster /\ WorkerInit

FrameStep ==
    \/ \E i \in Instances : Reconcile(i) \/ ReconcileNotFound(i)
    \/ Resolve
    \/ PatchMetadata
    \/ PatchStatus

WorkerStep == FrameStep \/ InstallStep \/ UninstallStep \/ ConfigStep \/ RemoveStep

Next ==
    \/ WorkerStep
    \/ CallFails
    \/ SubscriptionResponseLost \/ ConfigResponseLost
    \/ Restart
    \/ ClusterStep /\ UNCHANGED workerVars

Spec == Init /\ [][Next]_vars

-----------------------------------------------------------------------------
(* Safety.                                                                 *)

\* Every variable has its type.
TypeOK == ClusterTypeOK /\ WorkerTypeOK

Live(i) == inst[i].phase = "live"
Ready(i) == Live(i) /\ inst[i].status.conds.ready = "True"

\* An OLSConfig that carries an instance's label, and a CSV that has it as its
\* owner, belong to an instance that still exists and still holds its
\* finalizer: reconcileDelete gives the finalizer up only after both are gone,
\* whatever the worker's caches show and wherever it crashes.
OwnedResourcesHaveFinalizedOwner ==
    \A i \in Instances :
        cfg.label = i \/ csv.owner = i => Live(i) /\ inst[i].fin

\* An instance that reports Ready, and is not being deleted, owns the
\* cluster's only OLSConfig: the owner label lets no second instance report
\* Ready on the strength of the first one's OLSConfig.
ReadyOwnsConfig ==
    \A i \in Instances :
        Ready(i) /\ ~inst[i].deleting => cfg.exists /\ cfg.label = i

\* The worker deletes the OLS operator's CSV only after every OLSConfig an
\* instance manages is gone: without the operator nobody would remove the
\* finalizer it keeps on OLSConfig.
OperatorOutlivesConfig ==
    [][pc = "unDelete" /\ csv' # csv => cfg.label = NoInstance]_vars

\* The worker has nothing to do, and nothing it waits for is on its way.
Quiescent ==
    /\ pc = "idle" /\ queue = {} /\ timers = {}
    /\ cinst = inst /\ csub = sub /\ cplans = plans

Blocked(i) == csv.exists /\ csv.owner # i

\* Instance i needs no reconciliation: its status is that of its current spec,
\* and it is Ready for the current cluster version, or cannot be, because the
\* cluster version that it is told to detect is not known, another OLS operator
\* is in the way or no version is recommended.
Attended(i) ==
    /\ ~inst[i].deleting
    /\ inst[i].status.obsGen = inst[i].gen
    /\ \/ /\ Ready(i)
          /\ inst[i].status.active = SettledStatus(inst[i].gen, OCPHistory[ocp]).active
       \/ /\ inst[i].status.conds.rag = "DetectionFailed"
          /\ DetectOCPVersion(OCPHistory[ocp]).err
          /\ Specs[inst[i].gen].override = ""
       \/ inst[i].status.conds.op = "UserInstalled" /\ Blocked(i)
       \/ inst[i].status.conds.op = "Error" /\ RecommendationUnset

\* When the worker has run dry, every instance is attended to.  Each early
\* return of Reconcile without a requeue leaves something behind that wakes the
\* worker up.
NoLostWakeup == Quiescent => \A i \in Instances : Live(i) => Attended(i)

\* Whatever happened on the way, the state in which the worker runs dry with
\* instance i Ready is the same one: Subscription, InstallPlan, CSV, the spec of
\* the OLSConfig and the instance's status are those that the current spec and
\* the current cluster version ask for.  The one trace of the way that may stay is a CA
\* bundle of an earlier spec, since PatchOLSConfig never clears it.
SettledWhenReady ==
    \A i \in Instances :
        Quiescent /\ Ready(i) =>
            /\ Settled(i, inst[i].gen, ocp, cfg)
            /\ cfg.want.ca \in {Specs[g].ca : g \in 1..inst[i].gen}

\* The version is the one that the operator recommends, if it names any.
Recommended(version) == GetRecommendedOLSVersion \in {version, NoVersion}

\* The worker has run dry with instance i Ready, and OLM has nothing to install.
ReadyAtRest(i) ==
    /\ Quiescent /\ Ready(i)
    /\ \A p \in Plans : ~(plans[p].phase = "pending" /\ plans[p].approved)

\* An instance does not stay Ready on any version of the OLS operator but the
\* recommended one: none of the newer versions that OLM offers is approved, and
\* after an upgrade of the operator the CSV is replaced, adopted and waited
\* for.  Nor does it stay Ready on an OLS operator that has failed since.
RunsRecommendedVersion ==
    \A i \in Instances :
        ReadyAtRest(i) =>
            csv.owner = i /\ csv.succeeded /\ Recommended(csv.version)

-----------------------------------------------------------------------------
(* The contract of the module Ownership.                                   *)

StageOf(object) ==
    CASE object.phase = "new" -> "absent"
      [] object.phase = "gone" -> "gone"
      [] object.phase = "live" ->
            IF object.deleting THEN "leaving" ELSE IF object.fin THEN "held" ELSE "bare"

Contract == INSTANCE Ownership WITH
    stage <- [i \in Instances |-> StageOf(inst[i])],
    config <- cfg.label,
    operator <- csv.owner,
    ready <- {i \in Instances : Ready(i) /\ ~inst[i].deleting}

\* The operator keeps the contract: with finalizer, owner label and owner
\* reference it hands the OLSConfig from one instance to the next like a lease,
\* although it acts on old copies and its calls interleave with everybody's.
ImplementsOwnership == Contract!Spec

-----------------------------------------------------------------------------
(* Liveness.                                                               *)

Fairness ==
    /\ WF_vars(WorkerStep)
    /\ \A i \in Instances :
          /\ WF_vars(SyncInstance(i) /\ UNCHANGED workerVars)
          /\ WF_vars(SyncSubscription(i) /\ UNCHANGED workerVars)
          /\ WF_vars(TimerFires(i) /\ UNCHANGED workerVars)
          /\ WF_vars(OLMCreatesPlan(i) /\ UNCHANGED workerVars)
          /\ \A p \in Plans : WF_vars(OLMLinksPlan(i, p) /\ UNCHANGED workerVars)
    /\ WF_vars(SyncPlans /\ UNCHANGED workerVars)
    /\ \A p \in Plans : WF_vars(OLMExecutesPlan(p) /\ UNCHANGED workerVars)
    /\ WF_vars(OLMDeploysCSV /\ UNCHANGED workerVars)
    /\ WF_vars(OLMRemovesCSV /\ UNCHANGED workerVars)
    /\ WF_vars(OLSReconciles /\ UNCHANGED workerVars)
    /\ SF_vars(OLSRollsOut /\ UNCHANGED workerVars)
    /\ WF_vars(OLSFinalizes /\ UNCHANGED workerVars)

FairSpec == Spec /\ Fairness

\* An instance that nobody deletes ends up Ready for good, with pods that run its
\* spec: install, approval, adoption, configuration and the ping loop all come to
\* an end.
EventuallyReady ==
    \A i \in Instances :
        <>[](Live(i) /\ ~inst[i].deleting =>
                /\ Ready(i) /\ inst[i].status.obsGen = inst[i].gen
                /\ cfg.rolled = cfg.want)

\* An instance that is deleted when the cluster knows the OLSConfig kind is
\* removed: RemoveOLSConfig and UninstallInstanceOwnedOLSOperator end.
EventuallyGone ==
    \A i \in Instances : inst[i].deleting /\ crd ~> inst[i].phase = "gone"
=============================================================================
