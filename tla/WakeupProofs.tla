---------------------------- MODULE WakeupProofs ----------------------------
(***************************************************************************)
(* Why the worker may run dry: the proofs of NoLostWakeup and              *)
(* RunsRecommendedVersion.                                                 *)
(*                                                                         *)
(* An instance that still needs the worker is Pending - queued, waiting    *)
(* for a timer, or about to be queued because a cache the worker watches   *)
(* is behind - or the worker is busy with it and what it found out so far  *)
(* is still true, or it is Attended.  Nothing the instance depends on      *)
(* changes without making it Pending: a cache only falls behind, so that a *)
(* write always shows, and the CSV tells its owner.  The exceptions are    *)
(* what Undisturbed rules out: failed calls, users who handle the OLS      *)
(* operator or the OLSConfig, and the removal of another instance, whose   *)
(* CSV nobody but that instance watches.                                   *)
(***************************************************************************)
EXTENDS OwnershipProofs

-----------------------------------------------------------------------------
(* The inductive invariant.                                                *)

\* Nobody has interfered with what instance i depends on.
Undisturbed(i) ==
    /\ faults = 0 /\ userActs = 0
    /\ \A j \in Instances \ {i} : ~Doomed(j)

\* Instance i is going to be reconciled.
Pending(i) ==
    \/ i \in queue \cup timers
    \/ cinst[i] # inst[i]
    \/ csub[i] # sub[i]
    \/ cplans # plans

\* A cached copy is not ahead of its object, so that no write brings an object
\* back to what its copy shows.
InstancesBehind ==
    \A i \in Instances :
        /\ inst[i].phase = "new" => inst[i] = NewObject /\ cinst[i] = NewObject
        /\ inst[i].phase # "gone" => cinst[i].gen <= inst[i].gen

\* OLM only moves the reference to the InstallPlan forward.
SubscriptionsBehind ==
    \A i \in Instances :
        inst[i].phase # "gone" => csub[i].planRef <= sub[i].planRef

\* An InstallPlan is made, executed and deleted in this order.
PlansBehind ==
    \A p \in Plans :
        /\ plans[p].phase = "none" => cplans[p].phase = "none"
        /\ plans[p].phase = "pending" => cplans[p].phase \in {"none", "pending"}

\* Only an object with a finalizer is seen with a deletion timestamp.
DeletedFinalized ==
    /\ \A i \in Instances :
          /\ inst[i].deleting => inst[i].fin
          /\ cinst[i].deleting => cinst[i].fin
    /\ pc # "idle" /\ before.deleting => before.fin

\* What only users do has not happened.
UsersAway ==
    userActs = 0 =>
        /\ csv.via # User
        /\ csv.deleting => \E j \in Instances : Doomed(j)
        /\ pc = "cfgWrite" /\ cfg.exists => seenCfg.exists /\ seenCfg.want = cfg.want

\* The worker's copy is the cached one, or the instance is queued again.
CopyRead ==
    /\ pc # "idle" =>
          /\ before = cinst[cur] \/ cur \in queue
          /\ obj.gen = before.gen /\ obj.status.obsGen = obj.gen
    /\ pc \in ConfigLabels \cup ReadyLabels => obj.status.conds.op = "True"
    /\ pc = "patchStatus" =>
          (obj.status.conds.ready = "True" <=> AllSubConditionIsTrue(obj.status.conds))

\* What instance i needs to be Ready for spec g.
SubscriptionCurrent(i, g) ==
    /\ sub[i].exists /\ sub[i].catalog = Specs[g].catalog
    /\ sub[i].startingCSV = GetRecommendedOLSVersion
    /\ sub[i].planRef # NoPlan

\* An InstallPlan of the recommended version is approved.
PlanApproved ==
    \E p \in Plans : /\ PlanExists(plans[p]) /\ plans[p].approved
                     /\ HasSuffix(plans[p].version, GetRecommendedOLSVersion)

\* The OLS operator is the instance's own, and runs.
OperatorRuns(i) == csv.exists /\ csv.owner = i /\ csv.succeeded

\* PatchOLSConfig would not change the OLSConfig.
ConfigCurrent(g) == cfg.want = SettledContent(g, OCPHistory[ocp], cfg.want)

\* Instance i has all that spec g asks for.
Served(i, g) ==
    /\ SubscriptionCurrent(i, g)
    /\ PlanApproved
    /\ OperatorRuns(i)
    /\ ConfigCurrent(g)

\* The object reports the documentation that the cluster version asks for.
Resolved(object) ==
    LET s == SettledStatus(object.gen, OCPHistory[ocp])
    IN  object.status.conds.rag = s.conds.rag /\ object.status.active = s.active

\* What the worker is about to report leaves nothing to do.
Answered ==
    /\ ~obj.deleting
    /\ \/ /\ obj.status.conds.op = "True" /\ obj.status.conds.ols = "True"
          /\ Served(cur, obj.gen)
       \/ obj.status.conds.op = "UserInstalled" /\ Blocked(cur)
       \/ obj.status.conds.op = "Error" /\ RecommendationUnset

\* What the worker has found out about its instance is still true, and it will
\* not end without a reason.
Current ==
    /\ pc # "resolve" => Resolved(obj)
    /\ pc \in {"approve", "adopt", "adoptWrite", "complete"} \cup ConfigLabels \cup ReadyLabels =>
          SubscriptionCurrent(cur, obj.gen)
    /\ pc \in {"adopt", "adoptWrite", "complete"} \cup ConfigLabels \cup ReadyLabels =>
          PlanApproved
    /\ pc = "adoptWrite" => csv.exists /\ csv.version = seenCsv.version
    /\ pc \in ConfigLabels \cup ReadyLabels => OperatorRuns(cur)
    /\ pc \in ReadyLabels => ConfigCurrent(obj.gen)
    /\ pc \in PatchLabels =>
          requeue \/ (pc = "patch" /\ obj.fin # before.fin) \/ Answered

\* The worker has stopped at a cluster version that it cannot detect, although
\* the spec of instance i has an override.
OverrideIgnored(i) ==
    /\ inst[i].status.conds.rag = "DetectionFailed"
    /\ DetectOCPVersion(OCPHistory[ocp]).err
    /\ Specs[inst[i].gen].override # ""

\* Instance i has been dealt with, and nothing has changed since.
AtRest(i) ==
    /\ ~inst[i].deleting
    /\ inst[i].status.obsGen = inst[i].gen
    /\ Attended(i) \/ OverrideIgnored(i)
    /\ Ready(i) => /\ inst[i].status = SettledStatus(inst[i].gen, OCPHistory[ocp])
                   /\ Served(i, inst[i].gen)

\* Instance i is going to be reconciled, being reconciled, or needs nothing.
Kept(i) ==
    \/ Pending(i)
    \/ cur = i /\ Current
    \/ cur # i /\ AtRest(i)

\* What the caches and the worker's copy say about the objects.
ViewsSound ==
    /\ InstancesBehind
    /\ SubscriptionsBehind
    /\ PlansBehind
    /\ DeletedFinalized
    /\ UsersAway
    /\ CopyRead

\* No instance that nobody has disturbed is forgotten.
WakeupInv ==
    /\ OwnershipInv
    /\ ViewsSound
    /\ \A i \in Instances : Live(i) /\ Undisturbed(i) => Kept(i)

\* No crash has brought another recommended version.
SameRecommendation == restarts = 0 \/ \A r, s \in Recommendations : r = s

\* As long as the recommendation is the one the operator started with, it
\* approves no version with another ending.
VersionMatched ==
    SameRecommendation /\ userActs = 0 =>
        /\ \A p \in Plans : plans[p].approved =>
              HasSuffix(plans[p].version, GetRecommendedOLSVersion)
        /\ csv.exists => HasSuffix(csv.version, GetRecommendedOLSVersion)

\* It approves no other version, and no other one is installed.
VersionSound ==
    SameRecommendation /\ userActs = 0 =>
        /\ \A p \in Plans : plans[p].approved => Recommended(plans[p].version)
        /\ csv.exists => Recommended(csv.version)

\* No recommended version is the end of another version.
NoCollision == \A pair \in ProperSuffixes : pair[2] \notin Recommendations

\* Nobody has interfered with what any instance depends on.
Calm == \A i \in Instances : Undisturbed(i)

-----------------------------------------------------------------------------
(* Who changes what.                                                       *)

\* The instances and their copies change through users, an informer, the
\* deferred function of Reconcile and a restart.
LEMMA InstancesKept ==
    ASSUME OwnershipInv, [Next]_vars
    PROVE  \/ UNCHANGED instVars
           \/ PatchMetadata \/ PatchStatus \/ Restart
           \/ /\ \E i \in Instances : \/ CreateInstance(i) \/ UpdateSpec(i)
                                      \/ DeleteInstance(i) \/ SyncInstance(i)
              /\ UNCHANGED workerVars
  <1>1. CASE UNCHANGED vars
    BY <1>1 DEF vars, clusterVars
  <1>2. CASE FrameStep
    <2>1. ASSUME NEW i \in Instances, Reconcile(i) \/ ReconcileNotFound(i)
          PROVE  UNCHANGED instVars
      BY <2>1 DEF Reconcile, ReconcileNotFound
    <2>2. CASE Resolve
      BY <2>2 DEF Resolve, clusterVars
    <2> QED
      BY <1>2, <2>1, <2>2 DEF FrameStep
  <1>3. CASE InstallStep \/ UninstallStep
    BY <1>3, InstallTakesCSV, UninstallKeepsCSV
  <1>4. CASE ConfigStep \/ RemoveStep \/ SubscriptionResponseLost \/ ConfigResponseLost
    BY <1>4, ConfigTakesConfig, RemoveReleasesConfig, ResponseLostTakesConfig
  <1>5. CASE CallFails
    BY <1>5 DEF CallFails
  <1>6. CASE ClusterStep /\ UNCHANGED workerVars
    BY <1>6, EnvironmentKeepsOwnership DEF ClusterStep, UserStep, SyncStep
  <1> QED
    BY <1>1, <1>2, <1>3, <1>4, <1>5, <1>6 DEF Next, WorkerStep

\* The Subscriptions and their copies change through the worker, OLM, the
\* garbage collector, an informer and a restart.
LEMMA SubscriptionsKept ==
    ASSUME [Next]_vars
    PROVE  \/ UNCHANGED subVars
           \/ WriteSubscription \/ SubscriptionResponseLost \/ Restart
           \/ \E i \in Instances : SyncSubscription(i) \/ CollectSubscription(i)
           \/ \E i \in Instances, p \in Plans : OLMLinksPlan(i, p)
  <1>1. CASE UNCHANGED vars
    BY <1>1 DEF vars, clusterVars
  <1>2. CASE FrameStep
    <2>1. ASSUME NEW i \in Instances, Reconcile(i) \/ ReconcileNotFound(i)
          PROVE  UNCHANGED subVars
      BY <2>1 DEF Reconcile, ReconcileNotFound
    <2> QED
      BY <1>2, <2>1 DEF FrameStep, Resolve, PatchMetadata, PatchStatus, clusterVars
  <1>3. CASE InstallStep
    BY <1>3 DEF InstallStep, EnsureOLSOperatorInstalled, CheckSubscription,
                ApproveOLSOperatorInstallPlan, FindCSVToOwn, OwnCSV, CompleteInstall,
                clusterVars
  <1>4. CASE UninstallStep
    BY <1>4 DEF UninstallStep, FindCSVToUninstall, DeleteOLSOperatorInstallPlan, DeleteCSV,
                CheckUninstalled, clusterVars
  <1>5. CASE ConfigStep \/ ConfigResponseLost
    BY <1>5 DEF ConfigStep, GetOLSConfig, WriteOLSConfig, IsOLSConfigReady, OLSConfigPing,
                UpdatePingLabel, ConfigResponseLost, clusterVars
  <1>6. CASE RemoveStep
    BY <1>6 DEF RemoveStep, FindOLSConfigToRemove, CheckOLSConfigOwner, RemoveOwnFinalizer,
                DeleteOLSConfig, CheckOLSConfigRemoved, clusterVars
  <1>7. CASE CallFails
    BY <1>7 DEF CallFails
  <1>8. CASE UserStep
    BY <1>8 DEF UserStep, CreateInstance, UpdateSpec, DeleteInstance, UserInstallsOLS,
                UserUninstallsOLS, UserCreatesConfig, UserDeletesConfig, UpgradeOCP
  <1>9. CASE OLMStep \/ OLSStep
    BY <1>9 DEF OLMStep, OLMCreatesPlan, OLMCreatesUpgradePlan, OLMExecutesPlan,
                OLMDeploysCSV, OLMReportsCSVFailed, OLMRemovesCSV, OLSStep, OLSReconciles,
                OLSRollsOut, OLSFinalizes
  <1>10. CASE SyncStep
    BY <1>10 DEF SyncStep, SyncInstance, TimerFires, SyncPlans
  <1> QED
    BY <1>1, <1>2, <1>3, <1>4, <1>5, <1>6, <1>7, <1>8, <1>9, <1>10
    DEF Next, WorkerStep, ClusterStep

\* The InstallPlans and their copies change through the worker, OLM, an informer
\* and a restart.
LEMMA PlansKept ==
    ASSUME [Next]_vars
    PROVE  \/ UNCHANGED planVars
           \/ ApproveOLSOperatorInstallPlan \/ DeleteOLSOperatorInstallPlan
           \/ Restart \/ SyncPlans
           \/ \E i \in Instances : OLMCreatesPlan(i) \/ OLMCreatesUpgradePlan(i)
           \/ \E p \in Plans : OLMExecutesPlan(p)
  <1>1. CASE UNCHANGED vars
    BY <1>1 DEF vars, clusterVars
  <1>2. CASE FrameStep
    <2>1. ASSUME NEW i \in Instances, Reconcile(i) \/ ReconcileNotFound(i)
          PROVE  UNCHANGED planVars
      BY <2>1 DEF Reconcile, ReconcileNotFound
    <2> QED
      BY <1>2, <2>1 DEF FrameStep, Resolve, PatchMetadata, PatchStatus, clusterVars
  <1>3. CASE InstallStep \/ SubscriptionResponseLost
    BY <1>3 DEF InstallStep, EnsureOLSOperatorInstalled, CheckSubscription,
                WriteSubscription, FindCSVToOwn, OwnCSV, CompleteInstall,
                SubscriptionResponseLost, clusterVars
  <1>4. CASE UninstallStep
    BY <1>4 DEF UninstallStep, FindCSVToUninstall, DeleteCSV, CheckUninstalled, clusterVars
  <1>5. CASE ConfigStep \/ ConfigResponseLost
    BY <1>5 DEF ConfigStep, GetOLSConfig, WriteOLSConfig, IsOLSConfigReady, OLSConfigPing,
                UpdatePingLabel, ConfigResponseLost, clusterVars
  <1>6. CASE RemoveStep
    BY <1>6 DEF RemoveStep, FindOLSConfigToRemove, CheckOLSConfigOwner, RemoveOwnFinalizer,
                DeleteOLSConfig, CheckOLSConfigRemoved, clusterVars
  <1>7. CASE CallFails
    BY <1>7 DEF CallFails
  <1>8. CASE UserStep
    BY <1>8 DEF UserStep, CreateInstance, UpdateSpec, DeleteInstance, UserInstallsOLS,
                UserUninstallsOLS, UserCreatesConfig, UserDeletesConfig, UpgradeOCP
  <1>9. CASE OLMStep \/ OLSStep
    BY <1>9 DEF OLMStep, OLMLinksPlan, CollectSubscription,
                OLMDeploysCSV, OLMReportsCSVFailed, OLMRemovesCSV, OLSStep, OLSReconciles,
                OLSRollsOut, OLSFinalizes
  <1>10. CASE SyncStep
    BY <1>10 DEF SyncStep, SyncInstance, TimerFires, SyncSubscription
  <1> QED
    BY <1>1, <1>2, <1>3, <1>4, <1>5, <1>6, <1>7, <1>8, <1>9, <1>10
    DEF Next, WorkerStep, ClusterStep

\* A queued instance stays queued until it is reconciled, and its timer does not
\* get lost; cluster version and recommendation change through an upgrade of the
\* cluster and a restart; disturbances are counted.
LEMMA QueueKept ==
    ASSUME TypeOK, [Next]_vars, NEW i
    PROVE  /\ i \in queue => \/ i \in queue' \/ Reconcile(i) \/ ReconcileNotFound(i)
                             \/ Restart
           /\ i \in timers => i \in queue' \cup timers' \/ Restart
           /\ UNCHANGED ocp \/ UpgradeOCP
           /\ UNCHANGED recommended \/ Restart
           /\ userActs <= userActs' /\ restarts <= restarts' /\ faults <= faults'
           /\ UNCHANGED userActs \/ userActs < MaxUserActs
           /\ UNCHANGED restarts \/ restarts < MaxRestarts
           /\ UNCHANGED faults \/ faults < MaxFaults
  <1> USE DEF TypeOK, ClusterTypeOK, queueVars, boundVars
  <1> DEFINE Waits == /\ i \in queue => i \in queue'
                      /\ i \in timers => i \in queue' \cup timers'
             Same == UNCHANGED <<ocp, recommended, boundVars>>
  <1>1. CASE UNCHANGED vars
    BY <1>1 DEF vars, clusterVars
  <1>2. CASE FrameStep
    <2>1. ASSUME NEW j \in Instances, Reconcile(j) \/ ReconcileNotFound(j)
          PROVE  Same /\ queue' = queue \ {j} /\ timers' = timers
      BY <2>1 DEF Reconcile, ReconcileNotFound
    <2>2. CASE Resolve \/ PatchMetadata \/ PatchStatus
      BY <2>2 DEF Resolve, PatchMetadata, PatchStatus, Done, clusterVars
    <2> QED
      BY <1>2, <2>1, <2>2 DEF FrameStep
  <1>3. CASE InstallStep
    <2>1. Waits /\ Same
      BY <1>3 DEF InstallStep, EnsureOLSOperatorInstalled, CheckSubscription,
                  WriteSubscription, ApproveOLSOperatorInstallPlan, FindCSVToOwn, OwnCSV,
                  CompleteInstall, clusterVars
    <2> QED
      BY <2>1
  <1>4. CASE UninstallStep
    BY <1>4 DEF UninstallStep, FindCSVToUninstall, DeleteOLSOperatorInstallPlan, DeleteCSV,
                CheckUninstalled, clusterVars
  <1>5. CASE ConfigStep
    BY <1>5 DEF ConfigStep, GetOLSConfig, WriteOLSConfig, IsOLSConfigReady, OLSConfigPing,
                UpdatePingLabel, clusterVars
  <1>6. CASE RemoveStep
    BY <1>6 DEF RemoveStep, FindOLSConfigToRemove, CheckOLSConfigOwner, RemoveOwnFinalizer,
                DeleteOLSConfig, CheckOLSConfigRemoved, clusterVars
  <1>7. CASE CallFails \/ SubscriptionResponseLost \/ ConfigResponseLost
    <2>1. /\ queue' = queue /\ timers \subseteq timers'
          /\ UNCHANGED <<ocp, recommended, userActs, restarts>>
          /\ faults' = faults + 1 /\ faults < MaxFaults
      BY <1>7 DEF CallFails, SubscriptionResponseLost, ConfigResponseLost, Fault, Done
    <2> QED
      BY <2>1
  <1>8. CASE Restart
    BY <1>8 DEF Restart
  <1>9. CASE UserStep
    BY <1>9 DEF UserStep, CreateInstance, UpdateSpec, DeleteInstance, UserInstallsOLS,
                UserUninstallsOLS, UserCreatesConfig, UserDeletesConfig, UpgradeOCP
  <1>10. CASE OLMStep \/ OLSStep
    <2>1. queue \subseteq queue' /\ timers' = timers /\ Same
      BY <1>10
      DEF OLMStep, OLMCreatesPlan, OLMCreatesUpgradePlan, OLMLinksPlan, OLMExecutesPlan,
          CollectSubscription, OLMDeploysCSV, OLMReportsCSVFailed, OLMRemovesCSV, OLSStep,
          OLSReconciles, OLSRollsOut, OLSFinalizes
    <2> QED
      BY <2>1
  <1>11. CASE SyncStep
    BY <1>11 DEF SyncStep, SyncInstance, SyncSubscription, TimerFires, SyncPlans
  <1> QED
    BY <1>1, <1>2, <1>3, <1>4, <1>5, <1>6, <1>7, <1>8, <1>9, <1>10, <1>11
    DEF Next, WorkerStep, ClusterStep

-----------------------------------------------------------------------------
(* Whatever changes shows: in a cache that is behind or in the queue.      *)

\* A change of an instance shows in its cache, or it is queued.
InstanceShows(i) ==
    inst'[i].phase = "live" =>
        \/ i \in queue' \/ cinst'[i] # inst'[i]
        \/ inst'[i] = inst[i] /\ cinst'[i] = cinst[i]

\* So does one of its Subscription...
SubscriptionShows(i) ==
    inst'[i].phase = "live" =>
        \/ i \in queue' \/ csub'[i] # sub'[i]
        \/ sub'[i] = sub[i] /\ csub'[i] = csub[i]

\* ...and one of the InstallPlans, which queues all instances in the cache.
PlansShow ==
    \/ UNCHANGED planVars
    \/ cplans' # plans'
    \/ NotifyAllOpenStackLightspeeds' \subseteq queue'

\* The patch of the deferred function is computed from the cached copy, and what
\* it sends differs from that copy.
LEMMA PatchShows ==
    ASSUME OwnershipInv, CopyRead, PatchMetadata \/ PatchStatus
    PROVE  /\ cinst' = cinst /\ cur \in Instances
           /\ \A j \in Instances :
                /\ j # cur => inst'[j] = inst[j]
                /\ inst'[j].phase \in {inst[j].phase, "gone"}
                /\ inst[j].phase # "live" => inst'[j] = inst[j]
                /\ inst'[j].phase = "gone" /\ inst[j].phase # "gone" => ~inst'[j].deleting
                /\ inst'[j].phase # "gone" => /\ inst'[j].gen = inst[j].gen
                                              /\ inst'[j].deleting = inst[j].deleting
           /\ InstanceShows(cur)
           /\ inst'[cur].deleting => inst[cur].fin = inst'[cur].fin \/ inst'[cur].fin
  <1> USE DEF OwnershipInv, TypeOK, ClusterTypeOK, WorkerTypeOK
  <1>i. cinst' = cinst /\ cur \in Instances /\ (before = cinst[cur] \/ cur \in queue)
    BY DEF PatchMetadata, PatchStatus, Owners, CopyRead
  <1>t. /\ inst[cur] \in InstanceObjects /\ cinst[cur] \in InstanceObjects
        /\ inst[cur].fin \in BOOLEAN /\ cinst[cur].fin \in BOOLEAN
        /\ before.fin \in BOOLEAN /\ obj.fin \in BOOLEAN
    BY <1>i DEF InstanceObjects
  <1>1. CASE PatchMetadata
    <2>1. CASE UNCHANGED inst
      BY <1>i, <2>1 DEF InstanceShows
    <2>2. CASE ~UNCHANGED inst /\ inst[cur].deleting /\ ~obj.fin
      <3>1. inst' = [inst EXCEPT ![cur] = GoneObject] /\ inst[cur].phase = "live"
        BY <1>1, <2>2 DEF PatchMetadata
      <3>2. GoneObject.phase = "gone" /\ ~GoneObject.deleting
        BY DEF GoneObject, NewObject
      <3>3. inst'[cur] = GoneObject /\ \A j \in Instances : j # cur => inst'[j] = inst[j]
        BY <1>i, <3>1
      <3> QED
        BY <1>i, <3>1, <3>2, <3>3 DEF InstanceShows
    <2>3. CASE ~UNCHANGED inst /\ ~(inst[cur].deleting /\ ~obj.fin)
      <3>1. /\ inst' = [inst EXCEPT ![cur].fin = obj.fin]
            /\ inst[cur].phase = "live" /\ obj.fin # before.fin
        BY <1>1, <2>3 DEF PatchMetadata
      <3>2. /\ inst'[cur].fin = obj.fin /\ inst'[cur].phase = inst[cur].phase
            /\ inst'[cur].gen = inst[cur].gen /\ inst'[cur].deleting = inst[cur].deleting
            /\ \A j \in Instances : j # cur => inst'[j] = inst[j]
        BY <1>i, <3>1 DEF InstanceObjects
      <3>3. InstanceShows(cur)
        BY <1>1, <1>i, <3>1, <3>2 DEF InstanceShows, PatchMetadata, queueVars
      <3> QED
        BY <1>i, <1>t, <2>3, <3>1, <3>2, <3>3
    <2> QED
      BY <2>1, <2>2, <2>3
  <1>2. CASE PatchStatus
    <2> DEFINE s == MergePatch(before.status, obj.status, inst[cur].status)
    <2>s. /\ before.status \in Status /\ obj.status \in Status
          /\ inst[cur].status \in Status
      BY <1>i DEF InstanceObjects
    <2>1. inst' = IF inst[cur].phase # "live" THEN inst ELSE [inst EXCEPT ![cur].status = s]
      BY <1>2 DEF PatchStatus
    <2>2. s \in Status
      BY <2>s, MergeStatusType
    <2>3. s = inst[cur].status \/ s # before.status
      <3>1. CASE obj.status = before.status
        <4>1. s = inst[cur].status
          BY <2>s, <3>1 DEF MergePatch, Status
        <4> QED
          BY <4>1
      <3>2. CASE obj.status # before.status
        <4>1. \/ obj.status.conds # before.status.conds
              \/ obj.status.active # before.status.active
              \/ obj.status.obsGen # before.status.obsGen
          BY <2>s, <3>2 DEF Status
        <4>2. /\ obj.status.conds # before.status.conds => s.conds = obj.status.conds
              /\ obj.status.active # before.status.active => s.active = obj.status.active
              /\ obj.status.obsGen # before.status.obsGen => s.obsGen = obj.status.obsGen
          BY <2>s DEF MergePatch, Status
        <4> HIDE DEF s
        <4> QED
          BY <4>1, <4>2
      <3> QED
        BY <3>1, <3>2
    <2> HIDE DEF s
    <2>4. CASE inst[cur].phase = "live"
      <3>1. /\ inst'[cur].status = s /\ inst'[cur].fin = inst[cur].fin
            /\ inst'[cur].phase = inst[cur].phase
            /\ inst'[cur].gen = inst[cur].gen /\ inst'[cur].deleting = inst[cur].deleting
            /\ \A j \in Instances : j # cur => inst'[j] = inst[j]
        BY <1>i, <2>1, <2>2, <2>4 DEF InstanceObjects
      <3>2. inst'[cur] = [inst[cur] EXCEPT !.status = s]
        BY <1>i, <2>1, <2>4
      <3>3. s = inst[cur].status => inst'[cur] = inst[cur]
        BY <1>t, <3>2 DEF InstanceObjects
      <3>4. InstanceShows(cur)
        BY <1>2, <1>i, <2>3, <3>1, <3>3 DEF InstanceShows, PatchStatus
      <3> QED
        BY <1>i, <2>4, <3>1, <3>4
    <2>5. CASE inst[cur].phase # "live"
      BY <1>i, <2>1, <2>5 DEF InstanceShows
    <2> QED
      BY <2>4, <2>5
  <1> QED
    BY <1>1, <1>2

\* The worker keeps the copy it read until it is done with the instance.
LEMMA CopyKept ==
    ASSUME OwnershipInv, [Next]_vars
    PROVE  \/ pc' = "idle" /\ (PatchStatus \/ CallFails \/ Restart \/ UNCHANGED workerVars)
           \/ pc # "idle" /\ UNCHANGED <<cur, before>>
           \/ \E i \in Instances : Reconcile(i)
  <1>r. /\ \A o, r : Return(o, r) => UNCHANGED <<cur, before>>
        /\ \A l : Goto(l) => UNCHANGED <<cur, before>>
    BY DEF Return, Goto
  <1>1. CASE UNCHANGED workerVars
    BY <1>1 DEF workerVars
  <1>2. CASE FrameStep
    <2>1. ASSUME NEW i \in Instances, ReconcileNotFound(i)
          PROVE  pc' = "idle" /\ UNCHANGED workerVars
      BY <2>1 DEF ReconcileNotFound, workerVars
    <2> QED
      BY <1>2, <1>r, <2>1
      DEF FrameStep, Resolve, AfterResolve, PatchMetadata, PatchStatus, Done
  <1>3. CASE InstallStep \/ SubscriptionResponseLost
    BY <1>3, <1>r
    DEF InstallStep, EnsureOLSOperatorInstalled, CheckSubscription, WriteSubscription,
        ApproveOLSOperatorInstallPlan, FindCSVToOwn, OwnCSV, CompleteInstall,
        SubscriptionResponseLost, ReturnOperatorError, ReturnOperatorWait
  <1>4. CASE UninstallStep
    BY <1>4, <1>r DEF UninstallStep, FindCSVToUninstall, DeleteOLSOperatorInstallPlan,
                      DeleteCSV, CheckUninstalled, ReturnRetry, ReturnDeleted
  <1>5. CASE ConfigStep \/ ConfigResponseLost
    BY <1>5, <1>r DEF ConfigStep, GetOLSConfig, WriteOLSConfig, IsOLSConfigReady,
                      OLSConfigPing, UpdatePingLabel, ConfigResponseLost,
                      ReturnConfigError, ReturnRetry, ReturnReady
  <1>6. CASE RemoveStep
    BY <1>6, <1>r DEF RemoveStep, FindOLSConfigToRemove, CheckOLSConfigOwner,
                      RemoveOwnFinalizer, DeleteOLSConfig, CheckOLSConfigRemoved,
                      ReturnRetry
  <1>7. CASE CallFails
    BY <1>7, <1>r DEF CallFails, AfterResolve, ReturnOperatorError, ReturnConfigError,
                      ReturnRetry, Done, InstallLabels, ConfigLabels, ReadyLabels,
                      RemoveLabels, UninstallLabels
  <1>8. CASE Restart
    BY <1>8 DEF Restart
  <1> QED
    BY <1>1, <1>2, <1>3, <1>4, <1>5, <1>6, <1>7, <1>8 DEF Next, WorkerStep, vars

\* Nothing happens to an instance that its cached copy or the queue does not
\* show, and nothing brings it back.
LEMMA InstanceViews ==
    ASSUME OwnershipInv, ViewsSound, [Next]_vars
    PROVE  /\ \A i \in Instances : /\ InstanceShows(i)
                                   /\ inst[i].phase = "gone" => inst'[i].phase = "gone"
                                   /\ Doomed(i) => Doomed(i)'
           /\ InstancesBehind'
           /\ DeletedFinalized'
  <1> USE DEF ViewsSound, OwnershipInv, TypeOK, ClusterTypeOK
  <1> DEFINE Copies == \A i \in Instances : /\ inst'[i].deleting => inst'[i].fin
                                            /\ cinst'[i].deleting => cinst'[i].fin
             Goal == /\ \A i \in Instances :
                            /\ InstanceShows(i)
                            /\ inst[i].phase = "gone" => inst'[i].phase = "gone"
                            /\ Doomed(i) => Doomed(i)'
                     /\ InstancesBehind'
                     /\ Copies
  <1>d. /\ \A i \in Instances : /\ inst[i].deleting => inst[i].fin
                                /\ cinst[i].deleting => cinst[i].fin
                                /\ inst[i].deleting => inst[i].phase = "live"
                                /\ cinst[i].deleting => Doomed(i)
    BY DEF DeletedFinalized, ClusterSound, CopiesSound, Live
  <1>1. ASSUME UNCHANGED instVars PROVE Goal
    BY <1>1, <1>d DEF instVars, InstanceShows, InstancesBehind, Doomed, Live
  <1>2. ASSUME PatchMetadata \/ PatchStatus PROVE Goal
    <2>1. /\ cinst' = cinst /\ cur \in Instances
          /\ \A j \in Instances :
                /\ j # cur => inst'[j] = inst[j]
                /\ inst'[j].phase \in {inst[j].phase, "gone"}
                /\ inst[j].phase # "live" => inst'[j] = inst[j]
                /\ inst'[j].phase = "gone" /\ inst[j].phase # "gone" => ~inst'[j].deleting
                /\ inst'[j].phase # "gone" => /\ inst'[j].gen = inst[j].gen
                                              /\ inst'[j].deleting = inst[j].deleting
          /\ InstanceShows(cur)
          /\ inst'[cur].deleting => inst[cur].fin = inst'[cur].fin \/ inst'[cur].fin
      BY <1>2, PatchShows
    <2>2. \A j \in Instances : InstanceShows(j)
      BY <2>1 DEF InstanceShows
    <2>3. \A j \in Instances : inst'[j].deleting => inst[j].deleting
      BY <2>1
    <2>4. \A j \in Instances : inst'[j].phase = "new" => inst'[j] = inst[j]
      BY <2>1
    <2>5. InstancesBehind'
      BY <2>1, <2>4 DEF InstancesBehind
    <2>6. \A j \in Instances : Doomed(j) => Doomed(j)'
      BY <2>1 DEF Doomed, Live
    <2> QED
      BY <1>d, <2>1, <2>2, <2>3, <2>5, <2>6
  <1>3. ASSUME Restart PROVE Goal
    <2>1. inst' = inst /\ cinst' = inst /\ queue' = {i \in Instances : inst[i].phase = "live"}
      BY <1>3 DEF Restart
    <2>2. \A i \in Instances : inst[i].gen <= inst[i].gen
      BY ConstantTypes DEF InstanceObjects
    <2> QED
      BY <1>d, <2>1, <2>2 DEF InstanceShows, InstancesBehind, Doomed, Live
  <1>4. ASSUME NEW i \in Instances, SyncInstance(i) PROVE Goal
    <2>1. /\ inst' = inst /\ cinst'[i] = inst[i] /\ i \in queue'
          /\ \A j \in Instances : j # i => cinst'[j] = cinst[j]
      BY <1>4 DEF SyncInstance
    <2>2. inst[i].gen <= inst[i].gen
      BY ConstantTypes DEF InstanceObjects
    <2> QED
      BY <1>d, <2>1, <2>2 DEF InstanceShows, InstancesBehind, Doomed, Live
  <1>5. ASSUME NEW i \in Instances,
               CreateInstance(i) \/ UpdateSpec(i) \/ DeleteInstance(i)
        PROVE  Goal
    <2>1. cinst' = cinst /\ \A j \in Instances : j # i => inst'[j] = inst[j]
      BY <1>5 DEF CreateInstance, UpdateSpec, DeleteInstance
    <2>2. CASE CreateInstance(i)
      <3>1. /\ inst[i].phase = "new" /\ inst'[i].phase = "live" /\ ~inst'[i].deleting
            /\ inst'[i].gen = 1 /\ cinst[i].gen = 1 /\ cinst[i].phase = "new"
        BY <2>2 DEF CreateInstance, CreatedObject, NewObject, InstancesBehind
      <3> QED
        BY <1>d, <2>1, <3>1 DEF InstanceShows, InstancesBehind, Doomed, Live
    <2>3. CASE UpdateSpec(i)
      <3>1. /\ inst'[i].phase = "live" /\ inst[i].phase = "live"
            /\ inst'[i].deleting = inst[i].deleting /\ inst'[i].fin = inst[i].fin
            /\ inst'[i].gen = inst[i].gen + 1
            /\ inst[i].gen \in Nat /\ cinst[i].gen \in Nat
        BY <2>3 DEF UpdateSpec, InstanceObjects
      <3>2. cinst[i].gen <= inst[i].gen
        BY <3>1 DEF InstancesBehind
      <3>3. cinst[i].gen # inst'[i].gen /\ cinst[i].gen <= inst'[i].gen
        BY <3>1, <3>2
      <3> QED
        BY <1>d, <2>1, <3>1, <3>3 DEF InstanceShows, InstancesBehind, Doomed, Live
    <2>4. CASE DeleteInstance(i)
      <3>1. /\ \/ /\ inst'[i].phase = "live" /\ inst'[i].deleting /\ inst'[i].fin
                  /\ inst'[i].gen = inst[i].gen
               \/ inst'[i].phase = "gone" /\ ~inst'[i].deleting
            /\ inst[i].phase = "live" /\ ~inst[i].deleting
        BY <2>4 DEF DeleteInstance, InstanceObjects, GoneObject, NewObject
      <3>2. ~cinst[i].deleting
        BY <1>d, <3>1 DEF Doomed
      <3> QED
        BY <1>d, <2>1, <3>1, <3>2 DEF InstanceShows, InstancesBehind, Doomed, Live
    <2> QED
      BY <1>5, <2>2, <2>3, <2>4
  <1>6. Goal
    BY <1>1, <1>2, <1>3, <1>4, <1>5, InstancesKept
  <1>7. ASSUME pc' # "idle", before'.deleting PROVE before'.fin
    BY <1>7, <1>d, CopyKept DEF DeletedFinalized, Reconcile
  <1> QED
    BY <1>6, <1>7 DEF DeletedFinalized

\* Nothing happens to a Subscription that its cached copy or the queue does not
\* show.
LEMMA SubscriptionViews ==
    ASSUME OwnershipInv, ViewsSound, [Next]_vars
    PROVE  /\ \A i \in Instances : SubscriptionShows(i)
           /\ SubscriptionsBehind'
  <1> USE DEF ViewsSound, OwnershipInv, TypeOK, ClusterTypeOK
  <1>g. \A i \in Instances : inst[i].phase = "gone" => inst'[i].phase = "gone"
    BY InstanceViews
  <1>n. \A i \in Instances : sub[i].planRef \in Nat /\ csub[i].planRef \in Nat
    BY DEF Subscriptions
  <1>1. CASE UNCHANGED subVars
    BY <1>1, <1>g DEF subVars, SubscriptionShows, SubscriptionsBehind
  <1>2. ASSUME SubscriptionWritten, UNCHANGED csub, UNCHANGED inst, cur \in Instances
        PROVE  (\A i \in Instances : SubscriptionShows(i)) /\ SubscriptionsBehind'
    <2>1. /\ sub'[cur] = DesiredSubscription(sub[cur])
          /\ csub[cur] # sub'[cur]
          /\ sub'[cur].planRef = sub[cur].planRef
          /\ \A j \in Instances : j # cur => sub'[j] = sub[j]
      BY <1>2 DEF SubscriptionWritten, DesiredSubscription
    <2> QED
      BY <1>2, <2>1 DEF SubscriptionShows, SubscriptionsBehind
  <1>3. CASE WriteSubscription \/ SubscriptionResponseLost
    <2>1. UNCHANGED csub /\ UNCHANGED inst /\ cur \in Instances
      BY <1>3 DEF WriteSubscription, SubscriptionResponseLost, instVars, WorkerTypeOK, Owners
    <2>2. SubscriptionWritten \/ UNCHANGED sub
      BY <1>3 DEF WriteSubscription, SubscriptionResponseLost
    <2> QED
      BY <1>1, <1>2, <2>1, <2>2 DEF subVars
  <1>4. CASE Restart
    <2>1. /\ inst' = inst /\ sub' = sub /\ csub' = sub
          /\ queue' = {i \in Instances : inst[i].phase = "live"}
      BY <1>4 DEF Restart
    <2> QED
      BY <1>n, <2>1 DEF SubscriptionShows, SubscriptionsBehind
  <1>5. ASSUME NEW i \in Instances, SyncSubscription(i)
        PROVE  (\A j \in Instances : SubscriptionShows(j)) /\ SubscriptionsBehind'
    <2>1. /\ inst' = inst /\ sub' = sub /\ csub'[i] = sub[i] /\ i \in queue'
          /\ \A j \in Instances : j # i => csub'[j] = csub[j]
      BY <1>5 DEF SyncSubscription, instVars
    <2> QED
      BY <1>n, <2>1 DEF SubscriptionShows, SubscriptionsBehind
  <1>6. ASSUME NEW i \in Instances, CollectSubscription(i)
        PROVE  (\A j \in Instances : SubscriptionShows(j)) /\ SubscriptionsBehind'
    <2>1. /\ inst' = inst /\ csub' = csub /\ inst[i].phase = "gone"
          /\ \A j \in Instances : j # i => sub'[j] = sub[j]
      BY <1>6 DEF CollectSubscription, instVars
    <2> QED
      BY <2>1 DEF SubscriptionShows, SubscriptionsBehind
  <1>7. ASSUME NEW i \in Instances, NEW p \in Plans, OLMLinksPlan(i, p)
        PROVE  (\A j \in Instances : SubscriptionShows(j)) /\ SubscriptionsBehind'
    <2>1. /\ inst' = inst /\ csub' = csub /\ sub'[i].planRef = p /\ sub[i].planRef < p
          /\ \A j \in Instances : j # i => sub'[j] = sub[j]
      BY <1>7 DEF OLMLinksPlan, instVars, Subscriptions
    <2>2. inst[i].phase # "gone" => csub[i].planRef <= p /\ csub[i].planRef # p
      BY <1>n, <2>1 DEF SubscriptionsBehind, Plans
    <2> QED
      BY <2>1, <2>2 DEF SubscriptionShows, SubscriptionsBehind
  <1> QED
    BY <1>1, <1>3, <1>4, <1>5, <1>6, <1>7, SubscriptionsKept

\* Nothing happens to an InstallPlan that the cache or the queue does not show.
LEMMA PlanViews ==
    ASSUME OwnershipInv, ViewsSound, [Next]_vars
    PROVE  PlansShow /\ PlansBehind'
  <1> USE DEF ViewsSound, OwnershipInv, TypeOK, ClusterTypeOK
  <1>1. CASE UNCHANGED planVars
    BY <1>1 DEF planVars, PlansShow, PlansBehind
  <1>2. CASE ApproveOLSOperatorInstallPlan
    <2>1. CASE UNCHANGED plans
      BY <1>1, <1>2, <2>1 DEF ApproveOLSOperatorInstallPlan, planVars
    <2>2. CASE ~UNCHANGED plans
      <3>1. PICK p \in Plans : /\ cplans[p] = plans[p] /\ cplans' = cplans
                               /\ plans' = [plans EXCEPT ![p].approved = TRUE]
        BY <1>2, <2>2 DEF ApproveOLSOperatorInstallPlan, MatchingPlans
      <3>2. /\ \A q \in Plans : q # p => plans'[q] = plans[q]
            /\ plans'[p].phase = plans[p].phase
        BY <3>1 DEF InstallPlans
      <3>3. plans' \in [Plans -> InstallPlans]
        BY <3>1 DEF InstallPlans
      <3>4. plans'[p] # plans[p]
        BY <2>2, <3>2, <3>3
      <3> QED
        BY <3>1, <3>2, <3>4 DEF PlansShow, PlansBehind
    <2> QED
      BY <2>1, <2>2
  <1>3. CASE DeleteOLSOperatorInstallPlan
    <2>1. CASE UNCHANGED plans
      BY <1>1, <1>3, <2>1 DEF DeleteOLSOperatorInstallPlan, planVars
    <2>2. CASE ~UNCHANGED plans
      <3>1. PICK p \in Plans : /\ PlanExists(cplans[p]) /\ cplans' = cplans
                               /\ plans' = [plans EXCEPT ![p].phase = "deleted"]
        BY <1>3, <2>2 DEF DeleteOLSOperatorInstallPlan, MatchingPlans
      <3>2. /\ \A q \in Plans : q # p => plans'[q] = plans[q]
            /\ plans'[p].phase = "deleted"
        BY <3>1 DEF InstallPlans
      <3> QED
        BY <3>1, <3>2 DEF PlansShow, PlansBehind, PlanExists
    <2> QED
      BY <2>1, <2>2
  <1>4. CASE Restart
    <2>1. /\ plans' = plans /\ cplans' = plans /\ cinst' = inst
          /\ queue' = {i \in Instances : inst[i].phase = "live"}
      BY <1>4 DEF Restart
    <2> QED
      BY <2>1 DEF PlansShow, PlansBehind, NotifyAllOpenStackLightspeeds, Cached
  <1>5. CASE SyncPlans
    <2>1. /\ plans' = plans /\ cplans' = plans /\ cinst' = cinst
          /\ NotifyAllOpenStackLightspeeds \subseteq queue'
      BY <1>5 DEF SyncPlans, instVars
    <2> QED
      BY <2>1 DEF PlansShow, PlansBehind, NotifyAllOpenStackLightspeeds, Cached
  <1>6. ASSUME NEW i \in Instances, OLMCreatesPlan(i) \/ OLMCreatesUpgradePlan(i)
        PROVE  PlansShow /\ PlansBehind'
    <2>v. PICK v : AddPlan(NewPlan(i, v)) /\ cplans' = cplans
      BY <1>6 DEF OLMCreatesPlan, OLMCreatesUpgradePlan
    <2>1. PICK p \in Plans : /\ plans[p].phase = "none" /\ cplans' = cplans
                             /\ plans' = [plans EXCEPT ![p] = NewPlan(i, v)]
      BY <2>v DEF AddPlan
    <2>2. /\ \A q \in Plans : q # p => plans'[q] = plans[q]
          /\ plans'[p].phase = "pending" /\ cplans[p].phase = "none"
      BY <2>1 DEF NewPlan, PlansBehind
    <2> QED
      BY <2>1, <2>2 DEF PlansShow, PlansBehind
  <1>7. ASSUME NEW p \in Plans, OLMExecutesPlan(p) PROVE PlansShow /\ PlansBehind'
    <2>1. /\ \A q \in Plans : q # p => plans'[q] = plans[q]
          /\ plans'[p].phase = "complete" /\ plans[p].phase = "pending"
          /\ cplans' = cplans
      BY <1>7 DEF OLMExecutesPlan, InstallPlans
    <2> QED
      BY <2>1 DEF PlansShow, PlansBehind
  <1> QED
    BY <1>1, <1>2, <1>3, <1>4, <1>5, <1>6, <1>7, PlansKept

-----------------------------------------------------------------------------
(* The worker's copy.                                                      *)

\* The worker's copy keeps the generation and what was resolved for it.
SameResolution ==
    /\ obj'.gen = obj.gen /\ obj'.deleting = obj.deleting
    /\ obj'.status.obsGen = obj.status.obsGen
    /\ obj'.status.active = obj.status.active
    /\ obj'.status.conds.rag = obj.status.conds.rag

\* Every return of Reconcile goes to the deferred function and keeps what the
\* worker has resolved.
LEMMA ReturnsKeep ==
    ASSUME TypeOK,
           \/ ReturnOperatorError("UserInstalled") \/ ReturnOperatorError("Error")
           \/ ReturnOperatorWait \/ ReturnConfigError \/ ReturnRetry \/ ReturnReady
           \/ ReturnDeleted
    PROVE  pc' = "patch" /\ SameResolution
  <1>1. obj \in [phase : {"new", "live", "gone"}, deleting : BOOLEAN, fin : BOOLEAN,
                 gen : 1..Len(Specs), status : Status]
    BY DEF TypeOK, WorkerTypeOK, InstanceObjects
  <1>2. /\ obj.status \in Status
        /\ obj.status.conds \in Conds
    BY <1>1 DEF Status
  <1>a. ASSUME NEW o \in OperatorOutcomes,
               obj' = [obj EXCEPT !.status.conds.op = o]
        PROVE  SameResolution
    BY <1>1, <1>2, <1>a DEF SameResolution, Status, Conds
  <1>b. ASSUME NEW o \in OLSOutcomes,
               obj' = [obj EXCEPT !.status.conds.ols = o]
        PROVE  SameResolution
    BY <1>1, <1>2, <1>b DEF SameResolution, Status, Conds
  <1>c. ASSUME obj' \in {obj, [obj EXCEPT !.fin = FALSE]} PROVE SameResolution
    BY <1>1, <1>c DEF SameResolution
  <1>3. /\ {"UserInstalled", "Error", "Waiting"} \subseteq OperatorOutcomes
        /\ {"Error", "True"} \subseteq OLSOutcomes
    BY DEF OperatorOutcomes, OLSOutcomes
  <1> QED
    BY <1>a, <1>b, <1>c, <1>3
    DEF ReturnOperatorError, ReturnOperatorWait, ReturnConfigError, ReturnRetry,
        ReturnReady, ReturnDeleted, Return

\* What a resolution makes of the status depends on the spec and the cluster
\* version alone.
LEMMA ResolutionFields ==
    ASSUME NEW status \in Status, NEW s, NEW detected
    PROVE  LET r == resolveOCPVersion(status, s, detected)
               n == resolveOCPVersion(NoStatus, s, detected)
           IN  /\ r.obsGen = status.obsGen
               /\ r.active = n.active /\ r.conds.rag = n.conds.rag
               /\ r.conds.op = status.conds.op /\ r.conds.ols = status.conds.ols
  <1>1. NoStatus \in Status
    BY ObjectTypes
  <1>2. status.conds \in Conds /\ NoStatus.conds \in Conds
    BY <1>1 DEF Status
  <1> QED
    BY <1>1, <1>2 DEF resolveOCPVersion, Status, Conds

\* The worker's object changes through the resolution and the returns, the
\* operator's success and the summary of the deferred function.
LEMMA ObjectKept ==
    ASSUME OwnershipInv, [Next]_vars, pc # "idle", pc' # "idle"
    PROVE  /\ obj'.gen = obj.gen /\ obj'.deleting = obj.deleting
           /\ obj'.status.obsGen = obj.status.obsGen
           /\ pc # "resolve" => SameResolution
           /\ pc' \in ConfigLabels \cup ReadyLabels =>
                \/ obj'.status.conds.op = "True"
                \/ pc \in ConfigLabels \cup ReadyLabels /\ UNCHANGED obj
           /\ pc' = "patchStatus" => PatchMetadata \/ (pc = "patchStatus" /\ UNCHANGED obj)
  <1> USE DEF OwnershipInv
  <1>t. TypeOK
    OBVIOUS
  <1>o. /\ obj \in [phase : {"new", "live", "gone"}, deleting : BOOLEAN, fin : BOOLEAN,
                    gen : 1..Len(Specs), status : Status]
        /\ obj.status \in Status /\ obj.status.conds \in Conds
    BY DEF TypeOK, WorkerTypeOK, InstanceObjects, Status
  <1> DEFINE Goal ==
          /\ obj'.gen = obj.gen /\ obj'.deleting = obj.deleting
          /\ obj'.status.obsGen = obj.status.obsGen
          /\ pc # "resolve" => SameResolution
          /\ pc' \in ConfigLabels \cup ReadyLabels =>
                \/ obj'.status.conds.op = "True"
                \/ pc \in ConfigLabels \cup ReadyLabels /\ UNCHANGED obj
          /\ pc' = "patchStatus" => PatchMetadata \/ (pc = "patchStatus" /\ UNCHANGED obj)
  <1>s. UNCHANGED obj => SameResolution
    BY DEF SameResolution
  <1>r. ASSUME \/ ReturnOperatorError("UserInstalled") \/ ReturnOperatorError("Error")
               \/ ReturnOperatorWait \/ ReturnConfigError \/ ReturnRetry \/ ReturnReady
               \/ ReturnDeleted
        PROVE  Goal
    <2>1. pc' = "patch" /\ SameResolution
      BY <1>r, <1>t, ReturnsKeep
    <2> QED
      BY <2>1 DEF SameResolution, ConfigLabels, ReadyLabels
  <1>u. ASSUME UNCHANGED obj, pc' \notin {"patchStatus"} \cup ConfigLabels \cup ReadyLabels
               \/ (pc \in ConfigLabels \cup ReadyLabels /\ pc' # "patchStatus")
        PROVE  Goal
    BY <1>s, <1>u
  <1>v. ASSUME NEW d, AfterResolve([obj EXCEPT !.status = resolveOCPVersion(@, spec, d)]),
               pc = "resolve"
        PROVE  Goal
    <2> DEFINE st == resolveOCPVersion(obj.status, spec, d)
               o == [obj EXCEPT !.status = st]
    <2>1. AfterResolve(o)
      BY <1>v
    <2>2. /\ o.gen = obj.gen /\ o.deleting = obj.deleting /\ o.status = st
          /\ st.obsGen = obj.status.obsGen
      BY <1>o, ResolutionFields
    <2>3. [o EXCEPT !.fin = TRUE].gen = o.gen /\ [o EXCEPT !.fin = TRUE].deleting = o.deleting
          /\ [o EXCEPT !.fin = TRUE].status = o.status
      BY <1>o
    <2>4. pc' \in {"rmList", "patch", "mode"} /\ obj' \in {o, [o EXCEPT !.fin = TRUE]}
      BY <2>1 DEF AfterResolve, Return
    <2> HIDE DEF o, st
    <2> QED
      BY <1>v, <2>2, <2>3, <2>4 DEF ConfigLabels, ReadyLabels
  <1>1. CASE UNCHANGED workerVars
    BY <1>1, <1>s DEF workerVars, OwnershipInv, ProgressSound, ReportSound
  <1>2. CASE FrameStep
    <2>1. CASE \E i \in Instances : Reconcile(i) \/ ReconcileNotFound(i)
      BY <2>1 DEF Reconcile, ReconcileNotFound
    <2>2. CASE Resolve
      BY <1>v, <2>2 DEF Resolve
    <2>3. CASE PatchMetadata
      <3>1. /\ obj' = [obj EXCEPT !.status.conds = SummarizeReady(@)]
            /\ pc = "patch" /\ pc' = "patchStatus"
        BY <2>3 DEF PatchMetadata
      <3>2. /\ SummarizeReady(obj.status.conds).rag = obj.status.conds.rag
        BY <1>o DEF SummarizeReady, Conds
      <3>3. SameResolution
        BY <1>o, <3>1, <3>2 DEF SameResolution, Status
      <3> QED
        BY <2>3, <3>1, <3>3 DEF SameResolution, ConfigLabels, ReadyLabels
    <2>4. CASE PatchStatus
      BY <2>4 DEF PatchStatus, Done
    <2> QED
      BY <1>2, <2>1, <2>2, <2>3, <2>4 DEF FrameStep
  <1>3. CASE InstallStep \/ SubscriptionResponseLost
    <2>1. CASE CompleteInstall /\ pc' = "cfgGet"
      <3>1. obj' = [obj EXCEPT !.status.conds.op = "True"] /\ pc = "complete"
        BY <2>1 DEF CompleteInstall, ReturnOperatorWait, Return
      <3>2. SameResolution /\ obj'.status.conds.op = "True"
        BY <1>o, <3>1 DEF SameResolution, Status, Conds
      <3> QED
        BY <2>1, <3>1, <3>2 DEF SameResolution
    <2>2. CASE ~(CompleteInstall /\ pc' = "cfgGet")
      BY <1>3, <1>r, <1>u, <2>2
      DEF InstallStep, EnsureOLSOperatorInstalled, CheckSubscription, WriteSubscription,
          ApproveOLSOperatorInstallPlan, FindCSVToOwn, OwnCSV, CompleteInstall,
          SubscriptionResponseLost, Goto, ConfigLabels, ReadyLabels
    <2> QED
      BY <2>1, <2>2
  <1>4. CASE UninstallStep
    BY <1>4, <1>r, <1>u
    DEF UninstallStep, FindCSVToUninstall, DeleteOLSOperatorInstallPlan, DeleteCSV,
        CheckUninstalled, Goto, ConfigLabels, ReadyLabels
  <1>5. CASE ConfigStep \/ ConfigResponseLost
    BY <1>5, <1>r, <1>u
    DEF ConfigStep, GetOLSConfig, WriteOLSConfig, IsOLSConfigReady, OLSConfigPing,
        UpdatePingLabel, ConfigResponseLost, Goto, ConfigLabels, ReadyLabels
  <1>6. CASE RemoveStep
    BY <1>6, <1>r, <1>u
    DEF RemoveStep, FindOLSConfigToRemove, CheckOLSConfigOwner, RemoveOwnFinalizer,
        DeleteOLSConfig, CheckOLSConfigRemoved, Goto, ConfigLabels, ReadyLabels
  <1>7. CASE CallFails
    BY <1>7, <1>r, <1>v DEF CallFails, Done
  <1>8. CASE Restart
    BY <1>8 DEF Restart
  <1> QED
    BY <1>1, <1>2, <1>3, <1>4, <1>5, <1>6, <1>7, <1>8 DEF Next, WorkerStep, vars

\* The worker's copy stays the cached one, unless the instance is queued again.
LEMMA CopyReadKept ==
    ASSUME OwnershipInv, ViewsSound, [Next]_vars
    PROVE  CopyRead'
  <1> USE DEF OwnershipInv, ViewsSound
  <1>1. CASE pc' = "idle"
    BY <1>1 DEF CopyRead, ConfigLabels, ReadyLabels
  <1>2. ASSUME NEW i \in Instances, Reconcile(i) PROVE CopyRead'
    <2>1. /\ pc' = "resolve" /\ cur' = i /\ before' = cinst[i] /\ cinst' = cinst
          /\ obj' = [cinst[i] EXCEPT !.status.conds = InitConditions(@),
                                     !.status.obsGen = cinst[i].gen]
      BY <1>2 DEF Reconcile, instVars
    <2>2. cinst[i] \in InstanceObjects /\ cinst[i].status \in Status
      BY DEF TypeOK, ClusterTypeOK, InstanceObjects
    <2>3. obj'.gen = cinst[i].gen /\ obj'.status.obsGen = cinst[i].gen
      BY <2>1, <2>2 DEF InstanceObjects, Status
    <2> QED
      BY <2>1, <2>3 DEF CopyRead, ConfigLabels, ReadyLabels
  <1>3. CASE pc # "idle" /\ pc' # "idle" /\ UNCHANGED <<cur, before>>
    <2>i. cur \in Instances
      BY <1>3 DEF TypeOK, WorkerTypeOK, Owners
    <2>1. before' = cinst'[cur'] \/ cur' \in queue'
      <3>1. cur \in queue => cur \in queue'
        BY <1>3, <2>i, QueueKept DEF Reconcile, ReconcileNotFound, Restart
      <3>2. cinst'[cur] = cinst[cur] \/ cur \in queue'
        <4>1. ASSUME NEW i \in Instances, SyncInstance(i)
              PROVE  cinst'[cur] = cinst[cur] \/ cur \in queue'
          BY <2>i, <4>1 DEF SyncInstance, TypeOK, ClusterTypeOK
        <4>2. ASSUME NEW i \in Instances,
                     CreateInstance(i) \/ UpdateSpec(i) \/ DeleteInstance(i)
              PROVE  cinst' = cinst
          BY <4>2 DEF CreateInstance, UpdateSpec, DeleteInstance
        <4>3. ASSUME PatchMetadata \/ PatchStatus PROVE cinst' = cinst
          BY <4>3 DEF PatchMetadata, PatchStatus
        <4> QED
          BY <1>3, <4>1, <4>2, <4>3, InstancesKept DEF instVars, Restart
      <3> QED
        BY <1>3, <3>1, <3>2 DEF CopyRead
    <2>2. /\ obj'.gen = before'.gen /\ obj'.status.obsGen = obj'.gen
          /\ pc' \in ConfigLabels \cup ReadyLabels => obj'.status.conds.op = "True"
      BY <1>3, ObjectKept DEF CopyRead
    <2>3. ASSUME pc' = "patchStatus"
          PROVE  obj'.status.conds.ready = "True"
                    <=> AllSubConditionIsTrue(obj'.status.conds)
      <3>1. CASE PatchMetadata
        <4>1. obj.status \in Status /\ obj.status.conds \in Conds /\ obj \in InstanceObjects
          BY DEF TypeOK, WorkerTypeOK, InstanceObjects, Status
        <4> DEFINE c == SummarizeReady(obj.status.conds)
        <4>2. obj'.status.conds = c
          BY <3>1, <4>1 DEF PatchMetadata, InstanceObjects, Status
        <4>3. /\ c.ols = obj.status.conds.ols /\ c.op = obj.status.conds.op
              /\ c.rag = obj.status.conds.rag
              /\ c.ready = "True" <=> AllSubConditionIsTrue(obj.status.conds)
          BY <4>1 DEF SummarizeReady, Conds
        <4>4. AllSubConditionIsTrue(c) <=> AllSubConditionIsTrue(obj.status.conds)
          BY <4>3 DEF AllSubConditionIsTrue, SubConds
        <4> QED
          BY <4>2, <4>3, <4>4
      <3>2. CASE pc = "patchStatus" /\ UNCHANGED obj
        BY <3>2 DEF CopyRead
      <3> QED
        BY <1>3, <2>3, <3>1, <3>2, ObjectKept
    <2> QED
      BY <2>1, <2>2, <2>3 DEF CopyRead
  <1> QED
    BY <1>1, <1>2, <1>3, CopyKept

-----------------------------------------------------------------------------
(* The OLS operator and its configuration.                                 *)

\* The CSV changes through the worker, OLM and users.
LEMMA CSVKept ==
    ASSUME OwnershipInv, [Next]_vars
    PROVE  \/ UNCHANGED csv
           \/ OwnCSV \/ DeleteCSV
           \/ /\ \/ UserInstallsOLS \/ UserUninstallsOLS
                 \/ OLMDeploysCSV \/ OLMReportsCSVFailed \/ OLMRemovesCSV
                 \/ \E p \in Plans : OLMExecutesPlan(p)
              /\ UNCHANGED workerVars
  <1> USE DEF csvVars
  <1>1. CASE UNCHANGED vars
    BY <1>1 DEF vars, clusterVars
  <1>2. CASE FrameStep
    <2>1. ASSUME NEW i \in Instances, Reconcile(i) \/ ReconcileNotFound(i)
          PROVE  UNCHANGED csv
      BY <2>1 DEF Reconcile, ReconcileNotFound
    <2> QED
      BY <1>2, <2>1 DEF FrameStep, Resolve, PatchMetadata, PatchStatus, clusterVars
  <1>3. CASE InstallStep
    BY <1>3 DEF InstallStep, EnsureOLSOperatorInstalled, CheckSubscription,
                WriteSubscription, ApproveOLSOperatorInstallPlan, FindCSVToOwn,
                CompleteInstall, clusterVars
  <1>4. CASE UninstallStep
    BY <1>4 DEF UninstallStep, FindCSVToUninstall, DeleteOLSOperatorInstallPlan,
                CheckUninstalled, clusterVars
  <1>5. CASE ConfigStep \/ RemoveStep \/ SubscriptionResponseLost \/ ConfigResponseLost
    BY <1>5, ConfigTakesConfig, RemoveReleasesConfig, ResponseLostTakesConfig
  <1>6. CASE CallFails \/ Restart
    BY <1>6 DEF CallFails, Restart
  <1>7. CASE UserStep /\ UNCHANGED workerVars
    BY <1>7 DEF UserStep, CreateInstance, UpdateSpec, DeleteInstance,
                UserCreatesConfig, UserDeletesConfig, UpgradeOCP
  <1>8. CASE (OLMStep \/ OLSStep) /\ UNCHANGED workerVars
    BY <1>8 DEF OLMStep, OLMLinksPlan, CollectSubscription, OLMCreatesPlan,
                OLMCreatesUpgradePlan, OLSStep, OLSReconciles, OLSRollsOut, OLSFinalizes
  <1>9. CASE SyncStep
    BY <1>9 DEF SyncStep, SyncInstance, TimerFires, SyncSubscription, SyncPlans
  <1> QED
    BY <1>1, <1>2, <1>3, <1>4, <1>5, <1>6, <1>7, <1>8, <1>9
    DEF Next, WorkerStep, ClusterStep

\* The OLSConfig changes through the worker, OLM, the OLS operator and users.
LEMMA ConfigKept ==
    ASSUME OwnershipInv, [Next]_vars
    PROVE  \/ UNCHANGED cfg
           \/ WriteOLSConfig \/ UpdatePingLabel \/ ConfigResponseLost
           \/ RemoveOwnFinalizer \/ DeleteOLSConfig
           \/ /\ UserCreatesConfig \/ UserDeletesConfig \/ OLMDeploysCSV \/ OLSStep
              /\ UNCHANGED workerVars
  <1>1. CASE UNCHANGED vars
    BY <1>1 DEF vars, clusterVars
  <1>2. CASE FrameStep
    <2>1. ASSUME NEW i \in Instances, Reconcile(i) \/ ReconcileNotFound(i)
          PROVE  UNCHANGED cfg
      BY <2>1 DEF Reconcile, ReconcileNotFound
    <2> QED
      BY <1>2, <2>1 DEF FrameStep, Resolve, PatchMetadata, PatchStatus, clusterVars
  <1>3. CASE InstallStep \/ UninstallStep
    BY <1>3, InstallTakesCSV, UninstallKeepsCSV
  <1>4. CASE ConfigStep
    BY <1>4 DEF ConfigStep, GetOLSConfig, IsOLSConfigReady, OLSConfigPing, clusterVars
  <1>5. CASE RemoveStep
    BY <1>5 DEF RemoveStep, FindOLSConfigToRemove, CheckOLSConfigOwner,
                CheckOLSConfigRemoved, clusterVars
  <1>6. CASE CallFails \/ Restart \/ SubscriptionResponseLost
    BY <1>6 DEF CallFails, Restart, SubscriptionResponseLost
  <1>7. CASE UserStep /\ UNCHANGED workerVars
    BY <1>7 DEF UserStep, CreateInstance, UpdateSpec, DeleteInstance,
                UserInstallsOLS, UserUninstallsOLS, UpgradeOCP
  <1>8. CASE (OLMStep \/ OLSStep) /\ UNCHANGED workerVars
    BY <1>8 DEF OLMStep, OLMLinksPlan, CollectSubscription, OLMCreatesPlan,
                OLMCreatesUpgradePlan, OLMExecutesPlan, OLMReportsCSVFailed, OLMRemovesCSV
  <1>9. CASE SyncStep
    BY <1>9 DEF SyncStep, SyncInstance, TimerFires, SyncSubscription, SyncPlans
  <1> QED
    BY <1>1, <1>2, <1>3, <1>4, <1>5, <1>6, <1>7, <1>8, <1>9
    DEF Next, WorkerStep, ClusterStep

\* Nobody but users and the worker changes the spec of an OLSConfig, other than by
\* removing it.
LEMMA OthersKeepContent ==
    ASSUME TypeOK, OLMDeploysCSV \/ OLSStep
    PROVE  cfg' = NoOLSConfig \/ (cfg'.exists = cfg.exists /\ cfg'.want = cfg.want)
  <1> USE DEF TypeOK, ClusterTypeOK
  <1>1. CASE OLMDeploysCSV
    BY <1>1 DEF OLMDeploysCSV, OLSConfigs
  <1>2. CASE OLSReconciles
    BY <1>2 DEF OLSReconciles, OLSConfigs
  <1>3. CASE OLSRollsOut
    BY <1>3 DEF OLSRollsOut, OLSConfigs
  <1>4. CASE OLSFinalizes
    <2> DEFINE c == [cfg EXCEPT !.fins = @ \ {"ols"}]
    <2>1. cfg' \in {c, NoOLSConfig}
      BY <1>4 DEF OLSFinalizes, Released
    <2>2. c.exists = cfg.exists /\ c.want = cfg.want
      BY DEF OLSConfigs
    <2> HIDE DEF c
    <2> QED
      BY <2>1, <2>2
  <1> QED
    BY <1>1, <1>2, <1>3, <1>4 DEF OLSStep

\* The worker writes the OLSConfig on the basis of what it has just read.
LEMMA SeenConfigKept ==
    ASSUME OwnershipInv, [Next]_vars, pc' = "cfgWrite"
    PROVE  UNCHANGED workerVars \/ GetOLSConfig
  <1> SUFFICES ASSUME ~UNCHANGED workerVars, ~GetOLSConfig PROVE FALSE
    OBVIOUS
  <1>r. ASSUME \/ ReturnOperatorError("UserInstalled") \/ ReturnOperatorError("Error")
               \/ ReturnOperatorWait \/ ReturnConfigError \/ ReturnRetry \/ ReturnReady
               \/ ReturnDeleted
        PROVE  FALSE
    BY <1>r, ReturnsKeep DEF OwnershipInv
  <1>1. ~FrameStep /\ ~CallFails /\ ~Restart
    BY <1>r
    DEF FrameStep, Reconcile, ReconcileNotFound, Resolve, AfterResolve, PatchMetadata,
        PatchStatus, Done, Return, CallFails, Restart
  <1>2. ~InstallStep /\ ~SubscriptionResponseLost /\ ~ConfigResponseLost
    BY <1>r
    DEF InstallStep, EnsureOLSOperatorInstalled, CheckSubscription, WriteSubscription,
        ApproveOLSOperatorInstallPlan, FindCSVToOwn, OwnCSV, CompleteInstall,
        SubscriptionResponseLost, ConfigResponseLost, Goto
  <1>3. ~UninstallStep
    BY <1>r
    DEF UninstallStep, FindCSVToUninstall, DeleteOLSOperatorInstallPlan, DeleteCSV,
        CheckUninstalled, Goto
  <1>4. ~ConfigStep
    BY <1>r
    DEF ConfigStep, WriteOLSConfig, IsOLSConfigReady, OLSConfigPing, UpdatePingLabel,
        Goto
  <1>5. ~RemoveStep
    BY <1>r
    DEF RemoveStep, FindOLSConfigToRemove, CheckOLSConfigOwner, RemoveOwnFinalizer,
        DeleteOLSConfig, CheckOLSConfigRemoved, Goto
  <1> QED
    BY <1>1, <1>2, <1>3, <1>4, <1>5 DEF Next, WorkerStep, vars

\* Without users no OLS operator is theirs, one that is being deleted is the
\* work of reconcileDelete, and the OLSConfig stays as the worker read it.
LEMMA UsersAwayKept ==
    ASSUME OwnershipInv, ViewsSound, [Next]_vars
    PROVE  UsersAway'
  <1> USE DEF ViewsSound
  <1> SUFFICES ASSUME userActs' = 0
               PROVE  /\ csv'.via # User
                      /\ csv'.deleting => \E j \in Instances : Doomed(j)'
                      /\ pc' = "cfgWrite" /\ cfg'.exists =>
                            seenCfg'.exists /\ seenCfg'.want = cfg'.want
    BY DEF UsersAway
  <1>t. TypeOK
    BY DEF OwnershipInv
  <1>a. userActs = 0
    BY <1>t, QueueKept DEF TypeOK, ClusterTypeOK
  <1>d. \A j \in Instances : Doomed(j) => Doomed(j)'
    BY InstanceViews
  <1>u. ~UserInstallsOLS /\ ~UserUninstallsOLS /\ ~UserCreatesConfig /\ ~UserDeletesConfig
    BY <1>a DEF UsersAway, UserInstallsOLS, UserUninstallsOLS, UserCreatesConfig,
                UserDeletesConfig
  <1>1. csv'.via # User /\ (csv'.deleting => \E j \in Instances : Doomed(j))
    <2>1. CASE UNCHANGED csv
      BY <1>a, <2>1 DEF UsersAway
    <2>2. CASE OwnCSV
      <3>1. csv'.via = csv.via /\ csv'.deleting = csv.deleting
        BY <1>t, <2>2 DEF OwnCSV, TypeOK, ClusterTypeOK, CSVs
      <3> QED
        BY <1>a, <3>1 DEF UsersAway
    <2>3. CASE DeleteCSV
      <3>1. csv'.via = csv.via
        BY <1>t, <2>3 DEF DeleteCSV, TypeOK, ClusterTypeOK, CSVs
      <3>2. pc \in UninstallLabels
        BY <2>3 DEF DeleteCSV, UninstallLabels
      <3>3. cur \in Instances /\ Doomed(cur)
        BY <3>2, RemoverDeleting DEF OwnershipInv, ClusterSound, CopiesSound
      <3> QED
        BY <1>a, <3>1, <3>3 DEF UsersAway
    <2>4. ASSUME NEW p \in Plans, OLMExecutesPlan(p)
          PROVE  csv'.via # User /\ (csv'.deleting => \E j \in Instances : Doomed(j))
      <3>1. plans[p].via # User
        BY <1>t, InstancesAssumption DEF TypeOK, ClusterTypeOK, InstallPlans, Owners
      <3>2. csv' = csv \/ (csv'.via = plans[p].via /\ ~csv'.deleting)
        BY <2>4 DEF OLMExecutesPlan, NoCSV
      <3> QED
        BY <1>a, <3>1, <3>2 DEF UsersAway
    <2>5. CASE OLMDeploysCSV \/ OLMReportsCSVFailed
      <3>1. csv'.via = csv.via /\ csv'.deleting = csv.deleting
        BY <1>t, <2>5
        DEF OLMDeploysCSV, OLMReportsCSVFailed, TypeOK, ClusterTypeOK, CSVs
      <3> QED
        BY <1>a, <3>1 DEF UsersAway
    <2>6. CASE OLMRemovesCSV
      BY <2>6, InstancesAssumption DEF OLMRemovesCSV, NoCSV
    <2> QED
      BY <1>u, <2>1, <2>2, <2>3, <2>4, <2>5, <2>6, CSVKept
  <1>2. ASSUME pc' = "cfgWrite", cfg'.exists
        PROVE  seenCfg'.exists /\ seenCfg'.want = cfg'.want
    <2>1. CASE UNCHANGED workerVars
      <3>1. cfg.exists /\ cfg'.want = cfg.want
        <4>1. CASE UNCHANGED cfg
          BY <1>2, <4>1
        <4>2. CASE OLMDeploysCSV \/ OLSStep
          <5>1. cfg' # NoOLSConfig
            BY <1>2 DEF NoOLSConfig
          <5> QED
            BY <1>2, <1>t, <4>2, <5>1, OthersKeepContent
        <4>3. pc' = pc
          BY <2>1 DEF workerVars
        <4>4. ~(WriteOLSConfig \/ UpdatePingLabel \/ ConfigResponseLost
                  \/ RemoveOwnFinalizer \/ DeleteOLSConfig)
          BY <1>2, <4>3
          DEF WriteOLSConfig, UpdatePingLabel, ConfigResponseLost, RemoveOwnFinalizer,
              DeleteOLSConfig, Goto, ReturnConfigError, ReturnRetry, Return
        <4> QED
          BY <1>u, <4>1, <4>2, <4>4, ConfigKept
      <3> QED
        BY <1>2, <1>a, <2>1, <3>1 DEF UsersAway, workerVars
    <2>2. CASE GetOLSConfig
      <3>1. cfg' = cfg /\ seenCfg' = cfg
        BY <1>2, <2>2 DEF GetOLSConfig, ReturnConfigError, Return, clusterVars
      <3> QED
        BY <1>2, <3>1
    <2> QED
      BY <1>2, <2>1, <2>2, SeenConfigKept
  <1> QED
    BY <1>1, <1>2, <1>d

-----------------------------------------------------------------------------
(* A step after which an undisturbed instance waits for nothing.           *)

\* Such a step leaves alone what the worker knows the instance by.
Steady(i) ==
    /\ Live(i) /\ Undisturbed(i) /\ userActs' = 0 /\ faults' = 0
    /\ cinst[i] = inst[i] /\ inst'[i] = inst[i] /\ cinst'[i] = cinst[i]
    /\ csub[i] = sub[i] /\ sub'[i] = sub[i] /\ csub'[i] = csub[i]
    /\ cplans = plans /\ UNCHANGED planVars
    /\ UNCHANGED <<ocp, recommended>>
    /\ i \notin queue' \cup timers'

\* An undisturbed instance that waits for nothing after a step was left alone by
\* it, and waited for nothing before unless the step took it from the queue.
LEMMA SteadyStep ==
    ASSUME OwnershipInv, ViewsSound, [Next]_vars, NEW i \in Instances,
           Live(i)', Undisturbed(i)', ~Pending(i)'
    PROVE  Steady(i) /\ (Reconcile(i) \/ ~Pending(i))
  <1>p. /\ i \notin queue' /\ i \notin timers'
        /\ cinst'[i] = inst'[i] /\ csub'[i] = sub'[i] /\ cplans' = plans'
        /\ inst'[i].phase = "live"
    BY DEF Pending, Live
  <1>t. TypeOK
    BY DEF OwnershipInv
  <1>1. inst'[i] = inst[i] /\ cinst'[i] = cinst[i]
    BY <1>p, InstanceViews DEF InstanceShows
  <1>2. sub'[i] = sub[i] /\ csub'[i] = csub[i]
    BY <1>p, SubscriptionViews DEF SubscriptionShows
  <1>c. i \in NotifyAllOpenStackLightspeeds' /\ i \in NotifyAllOpenStackLightspeeds
    BY <1>p, <1>1 DEF NotifyAllOpenStackLightspeeds, Cached
  <1>3. UNCHANGED planVars
    BY <1>p, <1>c, PlanViews DEF PlansShow
  <1>r. ~Restart
    BY <1>p, <1>1 DEF Restart
  <1>o. ~UpgradeOCP
    BY <1>p, <1>c DEF UpgradeOCP
  <1>n. ~ReconcileNotFound(i)
    BY <1>p, <1>1 DEF ReconcileNotFound, Cached
  <1>4. UNCHANGED <<ocp, recommended>>
    BY <1>t, <1>r, <1>o, QueueKept
  <1>5. userActs = 0 /\ faults = 0 /\ userActs' = 0 /\ faults' = 0
    <2>1. userActs' = 0 /\ faults' = 0
      BY DEF Undisturbed
    <2>2. userActs <= userActs' /\ faults <= faults'
      BY <1>t, QueueKept
    <2> QED
      BY <1>t, <2>1, <2>2 DEF TypeOK, ClusterTypeOK
  <1>6. Undisturbed(i)
    BY <1>5, InstanceViews DEF Undisturbed
  <1>7. Steady(i)
    BY <1>p, <1>1, <1>2, <1>3, <1>4, <1>5, <1>6 DEF Steady, Live, planVars
  <1>8. i \in queue => Reconcile(i)
    BY <1>p, <1>t, <1>r, <1>n, QueueKept
  <1>9. i \notin timers
    BY <1>p, <1>t, <1>r, QueueKept
  <1> QED
    BY <1>7, <1>8, <1>9 DEF Pending, Steady

\* The CSV tells its owner of every change, and as long as no instance is being
\* removed it does not go away.
LEMMA SteadyCSV ==
    ASSUME OwnershipInv, ViewsSound, [Next]_vars, NEW i \in Instances, Steady(i)
    PROVE  /\ csv.owner = i => csv' = csv
           /\ csv.owner # i => csv'.owner # i \/ (OwnCSV /\ cur = i)
           /\ ~inst[i].deleting /\ csv.exists => csv'.exists /\ csv'.version = csv.version
  <1> USE DEF ViewsSound
  <1>t. csv \in CSVs /\ plans \in [Plans -> InstallPlans]
    BY DEF OwnershipInv, TypeOK, ClusterTypeOK
  <1>q. i \notin queue' /\ NoInstance # i
    BY InstancesAssumption DEF Steady
  <1>n. \A new : csv.owner = i \/ new.owner = i => i \in NotifyOwners(csv, new)
    BY DEF NotifyOwners
  <1>1. CASE UNCHANGED csv
    BY <1>1
  <1>2. CASE OwnCSV
    <2>1. CASE csv' = [csv EXCEPT !.owner = cur]
      <3>1. csv'.owner = cur /\ csv'.exists = csv.exists /\ csv'.version = csv.version
        BY <1>t, <2>1 DEF CSVs
      <3>2. csv.owner = i => cur = i
        BY <1>2, <1>n, <1>q, <2>1, <3>1 DEF OwnCSV
      <3>3. csv.owner = cur => csv' = csv
        BY <1>t, <2>1 DEF CSVs
      <3> QED
        BY <1>2, <3>1, <3>2, <3>3
    <2>2. CASE csv' # [csv EXCEPT !.owner = cur]
      BY <1>1, <1>2, <2>2 DEF OwnCSV
    <2> QED
      BY <2>1, <2>2
  <1>3. CASE DeleteCSV
    <2>1. CASE csv' = [csv EXCEPT !.deleting = TRUE]
      <3>1. /\ csv'.owner = csv.owner /\ csv'.exists = csv.exists
            /\ csv'.version = csv.version
        BY <1>t, <2>1 DEF CSVs
      <3>2. csv.deleting => csv' = csv
        BY <1>t, <2>1 DEF CSVs
      <3>3. csv.owner = i => csv' = csv
        BY <1>3, <1>n, <1>q, <3>2 DEF DeleteCSV
      <3> QED
        BY <3>1, <3>3
    <2>2. CASE csv' # [csv EXCEPT !.deleting = TRUE]
      BY <1>1, <1>3, <2>2 DEF DeleteCSV
    <2> QED
      BY <2>1, <2>2
  <1>4. ASSUME UserInstallsOLS \/ UserUninstallsOLS PROVE FALSE
    BY <1>4 DEF UserInstallsOLS, UserUninstallsOLS, Steady, Undisturbed, UsersAway
  <1>5. CASE OLMDeploysCSV \/ OLMReportsCSVFailed
    <2>1. /\ csv'.owner = csv.owner /\ csv'.exists = csv.exists
          /\ csv'.version = csv.version /\ NotifyOwners(csv, csv') \subseteq queue'
      BY <1>5, <1>t DEF OLMDeploysCSV, OLMReportsCSVFailed, CSVs
    <2> QED
      BY <1>n, <1>q, <2>1
  <1>6. CASE OLMRemovesCSV
    <2>1. csv' = NoCSV /\ csv.deleting /\ NotifyOwners(csv, csv') \subseteq queue'
      BY <1>6 DEF OLMRemovesCSV
    <2>2. Doomed(i)
      BY <2>1 DEF UsersAway, Steady, Undisturbed
    <2>3. inst[i].deleting
      BY <2>2 DEF Doomed, Steady, Live
    <2> QED
      BY <1>n, <1>q, <2>1, <2>3 DEF NoCSV
  <1>7. ASSUME NEW p \in Plans, OLMExecutesPlan(p) PROVE FALSE
    <2>1. plans' = [plans EXCEPT ![p].phase = "complete"] /\ plans[p].phase = "pending"
      BY <1>7 DEF OLMExecutesPlan
    <2>2. plans'[p].phase = "complete"
      BY <1>t, <2>1 DEF InstallPlans
    <2> QED
      BY <2>1, <2>2 DEF Steady, planVars
  <1> QED
    BY <1>1, <1>2, <1>3, <1>4, <1>5, <1>6, <1>7, CSVKept

\* The spec of an OLSConfig is safe from everybody but its owner.
LEMMA SteadyContent ==
    ASSUME OwnershipInv, ViewsSound, [Next]_vars, NEW i \in Instances, Steady(i),
           cfg.label = i, ~inst[i].deleting, ~(WriteOLSConfig /\ cur = i)
    PROVE  cfg'.want = cfg.want
  <1> USE DEF ViewsSound
  <1>t. cfg \in OLSConfigs /\ TypeOK
    BY DEF OwnershipInv, TypeOK, ClusterTypeOK
  <1>i. i # NoInstance /\ ~Doomed(i)
    BY InstancesAssumption DEF Steady, Doomed, Live
  <1>f. cfg.exists /\ OwnFinalizer \in cfg.fins
    BY <1>i DEF OwnershipInv, ClusterSound, ConfigHeld
  <1>1. CASE UNCHANGED cfg
    BY <1>1
  <1>2. ASSUME WriteOLSConfig PROVE FALSE
    <2>1. pc = "cfgWrite"
      BY <1>2 DEF WriteOLSConfig
    <2> QED
      BY <1>2, <1>i, <2>1 DEF OwnershipInv, ProgressSound, SeenConfigSound
  <1>3. CASE UpdatePingLabel
    BY <1>3, <1>t DEF UpdatePingLabel, OLSConfigs
  <1>4. ASSUME ConfigResponseLost PROVE FALSE
    BY <1>4, <1>t DEF ConfigResponseLost, Fault, Steady, Undisturbed
  <1>5. ASSUME RemoveOwnFinalizer PROVE FALSE
    <2>1. pc = "rmPatch" /\ pc \in RemoveLabels
      BY <1>5 DEF RemoveOwnFinalizer, RemoveLabels
    <2>2. cur = i
      BY <1>i, <2>1 DEF OwnershipInv, ProgressSound, SeenConfigSound
    <2> QED
      BY <1>i, <2>1, <2>2, RemoverDeleting DEF OwnershipInv, ClusterSound, CopiesSound
  <1>6. CASE DeleteOLSConfig
    <2> DEFINE c == [cfg EXCEPT !.deleting = TRUE]
    <2>1. c.fins = cfg.fins /\ c.want = cfg.want
      BY <1>t DEF OLSConfigs
    <2>2. cfg' = cfg \/ cfg' = Released(c)
      BY <1>6 DEF DeleteOLSConfig
    <2> HIDE DEF c
    <2> QED
      BY <1>f, <2>1, <2>2 DEF Released
  <1>7. ASSUME UserCreatesConfig \/ UserDeletesConfig PROVE FALSE
    BY <1>7 DEF UserCreatesConfig, UserDeletesConfig, Steady, Undisturbed
  <1>8. CASE OLMDeploysCSV \/ OLSStep
    <2>1. cfg' # NoOLSConfig
      <3>1. \/ OLMStep \/ OLSStep
        BY <1>8 DEF OLMStep
      <3>2. KeepsConfig
        BY <3>1, EnvironmentKeepsOwnership
      <3>3. OwnFinalizer \in cfg'.fins
        BY <1>f, <3>2 DEF KeepsConfig
      <3> QED
        BY <3>3 DEF NoOLSConfig
    <2> QED
      BY <1>8, <1>t, <2>1, OthersKeepContent
  <1> QED
    BY <1>1, <1>2, <1>3, <1>4, <1>5, <1>6, <1>7, <1>8, ConfigKept

\* What serves an instance goes on serving it.
LEMMA ServedKept ==
    ASSUME OwnershipInv, ViewsSound, [Next]_vars, NEW i \in Instances, Steady(i),
           ~inst[i].deleting
    PROVE  /\ \A g : SubscriptionCurrent(i, g) => SubscriptionCurrent(i, g)'
           /\ PlanApproved => PlanApproved'
           /\ OperatorRuns(i) => OperatorRuns(i)'
           /\ cfg.label = i /\ ~(WriteOLSConfig /\ cur = i) =>
                \A g : ConfigCurrent(g) => ConfigCurrent(g)'
           /\ csv.exists => csv'.exists /\ csv'.version = csv.version
           /\ Blocked(i) /\ ~(OwnCSV /\ cur = i) => Blocked(i)'
           /\ RecommendationUnset => RecommendationUnset'
  <1>1. /\ csv.owner = i => csv' = csv
        /\ csv.owner # i => csv'.owner # i \/ (OwnCSV /\ cur = i)
        /\ csv.exists => csv'.exists /\ csv'.version = csv.version
    BY SteadyCSV
  <1>2. \A g : SubscriptionCurrent(i, g) => SubscriptionCurrent(i, g)'
    BY DEF SubscriptionCurrent, GetRecommendedOLSVersion, Steady
  <1>p. PlanApproved => PlanApproved'
    BY DEF PlanApproved, GetRecommendedOLSVersion, HasSuffix, Steady, planVars
  <1>3. OperatorRuns(i) => OperatorRuns(i)'
    BY <1>1 DEF OperatorRuns
  <1>4. ASSUME cfg.label = i, ~(WriteOLSConfig /\ cur = i)
        PROVE  \A g : ConfigCurrent(g) => ConfigCurrent(g)'
    <2>1. cfg'.want = cfg.want /\ ocp' = ocp
      BY <1>4, SteadyContent DEF Steady
    <2> QED
      BY <2>1 DEF ConfigCurrent
  <1>5. Blocked(i) /\ ~(OwnCSV /\ cur = i) => Blocked(i)'
    BY <1>1 DEF Blocked
  <1>6. RecommendationUnset => RecommendationUnset'
    BY DEF RecommendationUnset, Steady
  <1> QED
    BY <1>1, <1>2, <1>p, <1>3, <1>4, <1>5, <1>6

\* An instance that was dealt with stays so.
LEMMA RestKept ==
    ASSUME OwnershipInv, ViewsSound, [Next]_vars, NEW i \in Instances, Steady(i),
           cur # i, AtRest(i)
    PROVE  AtRest(i)'
  <1>1. inst'[i] = inst[i] /\ ocp' = ocp /\ ~inst[i].deleting
    BY DEF Steady, AtRest
  <1>2. Live(i)' = Live(i) /\ Ready(i)' = Ready(i)
    BY <1>1 DEF Ready, Live
  <1>3. inst'[i].status.obsGen = inst'[i].gen /\ (Attended(i) \/ OverrideIgnored(i))'
    <2>1. Blocked(i) => Blocked(i)'
      BY <1>1, ServedKept
    <2>2. RecommendationUnset => RecommendationUnset'
      BY <1>1, ServedKept
    <2> QED
      BY <1>1, <1>2, <2>1, <2>2 DEF Attended, OverrideIgnored, AtRest
  <1>4. ASSUME Ready(i) PROVE Served(i, inst[i].gen)'
    <2>1. cfg.label = i
      BY <1>1, <1>4 DEF OwnershipInv, ClusterSound, ReadyOwnsConfig
    <2>2. PICK g : g = inst[i].gen
      OBVIOUS
    <2>3. SubscriptionCurrent(i, g) /\ PlanApproved /\ OperatorRuns(i) /\ ConfigCurrent(g)
      BY <1>4, <2>2 DEF AtRest, Served
    <2>4. (SubscriptionCurrent(i, g) /\ PlanApproved /\ OperatorRuns(i) /\ ConfigCurrent(g))'
      BY <1>1, <2>1, <2>3, ServedKept
    <2>5. inst'[i].gen = g
      BY <1>1, <2>2
    <2> QED
      BY <2>4, <2>5 DEF Served, SubscriptionCurrent, ConfigCurrent
  <1> QED
    BY <1>1, <1>2, <1>3, <1>4 DEF AtRest

\* Whatever others do while the worker is busy with the instance, what it has
\* found out stays true.
LEMMA CurrentKept ==
    ASSUME OwnershipInv, ViewsSound, [Next]_vars, NEW i \in Instances, Steady(i),
           ~Pending(i), cur = i, Current, UNCHANGED workerVars
    PROVE  Current'
  <1> USE DEF workerVars
  <1>p. pc # "idle"
    BY InstancesAssumption DEF OwnershipInv, TypeOK, WorkerTypeOK
  <1>b. before = inst[i]
    BY <1>p DEF ViewsSound, CopyRead, Pending
  <1>d. /\ pc \in InstallLabels \cup ConfigLabels \cup ReadyLabels => ~inst[i].deleting
        /\ obj.deleting = inst[i].deleting
    BY <1>b, <1>p DEF OwnershipInv, ProgressSound, WorkerSound
  <1>g. PICK g : g = obj.gen
    OBVIOUS
  <1>w. ~WriteOLSConfig /\ ~OwnCSV
    <2>1. WriteOLSConfig \/ OwnCSV => pc' # pc
      BY DEF WriteOLSConfig, OwnCSV, ReturnConfigError, ReturnOperatorError,
             ReturnOperatorWait, Return, Goto
    <2> QED
      BY <2>1
  <1>s. ASSUME ~inst[i].deleting
        PROVE  /\ SubscriptionCurrent(i, g) => SubscriptionCurrent(i, g)'
               /\ PlanApproved => PlanApproved'
               /\ OperatorRuns(i) => OperatorRuns(i)'
               /\ cfg.label = i /\ ConfigCurrent(g) => ConfigCurrent(g)'
               /\ csv.exists => csv'.exists /\ csv'.version = csv.version
               /\ Blocked(i) => Blocked(i)'
               /\ RecommendationUnset => RecommendationUnset'
    BY <1>s, <1>w, ServedKept
  <1>l. {"approve", "adopt", "adoptWrite", "complete"} \subseteq InstallLabels
    BY DEF InstallLabels
  <1>1. pc # "resolve" => Resolved(obj)'
    <2>1. ocp' = ocp
      BY DEF Steady
    <2> QED
      BY <2>1 DEF Current, Resolved
  <1>2. pc \in {"approve", "adopt", "adoptWrite", "complete"} \cup ConfigLabels \cup ReadyLabels =>
            SubscriptionCurrent(cur, obj.gen)'
    <2> SUFFICES ASSUME pc \in {"approve", "adopt", "adoptWrite", "complete"}
                                  \cup ConfigLabels \cup ReadyLabels
                 PROVE  SubscriptionCurrent(cur, obj.gen)'
      OBVIOUS
    <2>1. SubscriptionCurrent(i, g)
      BY <1>g DEF Current
    <2>2. SubscriptionCurrent(i, g)'
      BY <1>d, <1>l, <1>s, <2>1
    <2> QED
      BY <1>g, <2>2 DEF SubscriptionCurrent
  <1>a. pc \in {"adopt", "adoptWrite", "complete"} \cup ConfigLabels \cup ReadyLabels =>
            PlanApproved'
    BY <1>d, <1>l, <1>s DEF Current
  <1>3. pc = "adoptWrite" => csv'.exists /\ csv'.version = seenCsv'.version
    BY <1>d, <1>l, <1>s DEF Current
  <1>4. pc \in ConfigLabels \cup ReadyLabels => OperatorRuns(cur)'
    BY <1>d, <1>s DEF Current, OperatorRuns
  <1>5. pc \in ReadyLabels => ConfigCurrent(obj.gen)'
    <2> SUFFICES ASSUME pc \in ReadyLabels PROVE ConfigCurrent(obj.gen)'
      OBVIOUS
    <2>1. cfg.label = i /\ ConfigCurrent(g)
      BY <1>g DEF OwnershipInv, ProgressSound, SeenConfigSound, Current
    <2>2. ConfigCurrent(g)'
      BY <1>d, <1>s, <2>1
    <2> QED
      BY <1>g, <2>2 DEF ConfigCurrent
  <1>6. ASSUME pc \in PatchLabels, Answered PROVE Answered'
    <2>1. ~inst[i].deleting /\ ~obj.deleting
      BY <1>6, <1>d DEF Answered
    <2>2. CASE /\ obj.status.conds.op = "True" /\ obj.status.conds.ols = "True"
               /\ Served(cur, obj.gen)
      <3>1. cfg.label = i
        BY <1>6, <2>2 DEF OwnershipInv, ProgressSound, ReportSound
      <3>2. SubscriptionCurrent(i, g) /\ PlanApproved /\ OperatorRuns(i) /\ ConfigCurrent(g)
        BY <1>g, <2>2 DEF Served
      <3>3. (SubscriptionCurrent(i, g) /\ PlanApproved /\ OperatorRuns(i) /\ ConfigCurrent(g))'
        BY <1>s, <2>1, <3>1, <3>2
      <3>4. Served(cur, obj.gen)'
        BY <1>g, <3>3 DEF Served, SubscriptionCurrent, OperatorRuns, ConfigCurrent
      <3> QED
        BY <2>1, <2>2, <3>4 DEF Answered
    <2>3. CASE obj.status.conds.op = "UserInstalled" /\ Blocked(cur)
      <3>1. Blocked(cur)'
        BY <1>s, <2>1, <2>3 DEF Blocked
      <3> QED
        BY <2>1, <2>3, <3>1 DEF Answered
    <2>4. CASE obj.status.conds.op = "Error" /\ RecommendationUnset
      BY <1>s, <2>1, <2>4 DEF Answered
    <2> QED
      BY <1>6, <2>2, <2>3, <2>4 DEF Answered
  <1> QED
    BY <1>1, <1>2, <1>a, <1>3, <1>4, <1>5, <1>6 DEF Current

-----------------------------------------------------------------------------
(* The worker's own steps.                                                 *)

\* The worker is busy with instance i, on the basis of facts.
Busy(i) == Steady(i) /\ ~Pending(i) /\ cur = i /\ Current

\* The copy of an instance that nothing is pending for is the instance.
LEMMA BusyFacts ==
    ASSUME OwnershipInv, ViewsSound, NEW i \in Instances, Busy(i)
    PROVE  /\ pc # "idle" /\ before = inst[i] /\ obj.gen = inst[i].gen
           /\ obj.status.obsGen = obj.gen /\ obj.deleting = inst[i].deleting
           /\ inst[i] \in InstanceObjects /\ obj \in InstanceObjects
           /\ pc \in InstallLabels \cup ConfigLabels \cup ReadyLabels => ~inst[i].deleting
           /\ pc \in RemoveLabels \cup UninstallLabels => inst[i].fin
  <1>1. pc # "idle"
    BY InstancesAssumption DEF OwnershipInv, TypeOK, WorkerTypeOK, Busy
  <1>2. before = inst[i]
    BY <1>1 DEF ViewsSound, CopyRead, Pending, Busy
  <1>3. inst[i] \in InstanceObjects /\ obj \in InstanceObjects
    BY DEF OwnershipInv, TypeOK, ClusterTypeOK, WorkerTypeOK
  <1> QED
    BY <1>1, <1>2, <1>3
    DEF ViewsSound, CopyRead, DeletedFinalized, OwnershipInv, ProgressSound, WorkerSound

\* A return is safe when the instance is queued again, its finalizer changes or
\* there is nothing left to do.
LEMMA ReturnCurrent ==
    ASSUME OwnershipInv, NEW i \in Instances, Busy(i), pc # "resolve",
           \/ ReturnOperatorError("UserInstalled") \/ ReturnOperatorError("Error")
           \/ ReturnOperatorWait \/ ReturnConfigError \/ ReturnRetry \/ ReturnReady
           \/ ReturnDeleted,
           requeue' \/ obj'.fin # before'.fin \/ Answered'
    PROVE  Current'
  <1>1. pc' = "patch" /\ SameResolution
    BY ReturnsKeep DEF OwnershipInv
  <1>2. Resolved(obj)'
    BY <1>1 DEF Resolved, SameResolution, Busy, Current, Steady
  <1> QED
    BY <1>1, <1>2 DEF Current, ConfigLabels, ReadyLabels

\* Retries and waits are safe.
LEMMA RetryCurrent ==
    ASSUME OwnershipInv, NEW i \in Instances, Busy(i), pc # "resolve",
           ReturnOperatorWait \/ ReturnConfigError \/ ReturnRetry
    PROVE  Current'
  <1>1. requeue'
    BY DEF ReturnOperatorWait, ReturnConfigError, ReturnRetry, Return
  <1> QED
    BY <1>1, ReturnCurrent

\* The calls of EnsureOLSOperatorInstalled go on on the basis of facts.
LEMMA InstallCurrent ==
    ASSUME OwnershipInv, ViewsSound, [Next]_vars, NEW i \in Instances, Busy(i), InstallStep
    PROVE  Current'
  <1>f. /\ pc # "idle" /\ before = inst[i] /\ obj.gen = inst[i].gen
        /\ obj.deleting = inst[i].deleting
        /\ inst[i] \in InstanceObjects /\ obj \in InstanceObjects
    BY BusyFacts
  <1>l. pc \in InstallLabels /\ pc # "resolve"
    BY InstallTakesCSV DEF InstallLabels
  <1>d. ~inst[i].deleting
    BY <1>l, BusyFacts
  <1>b. /\ Steady(i) /\ cur = i /\ Current
        /\ csub[i] = sub[i] /\ sub'[i] = sub[i] /\ cplans = plans /\ plans' = plans
        /\ i \notin queue'
    BY DEF Busy, Steady, planVars
  <1>g. PICK g : g = obj.gen
    OBVIOUS
  <1>s. /\ SubscriptionCurrent(i, g) => SubscriptionCurrent(i, g)'
        /\ PlanApproved => PlanApproved'
    BY <1>b, <1>d, ServedKept
  <1>r. Resolved(obj)
    BY <1>l DEF Busy, Current
  <1>o. ASSUME UNCHANGED obj \/ SameResolution PROVE Resolved(obj)'
    BY <1>b, <1>o, <1>r DEF Resolved, SameResolution, Steady
  <1>w. ASSUME ReturnOperatorWait PROVE Current'
    BY <1>w, <1>l, RetryCurrent
  <1>e. ASSUME NEW outcome \in {"UserInstalled", "Error"}, ReturnOperatorError(outcome)
        PROVE  /\ obj'.status.conds.op = outcome /\ ~obj'.deleting /\ cur' = cur
               /\ Answered' => Current'
    <2>1. obj' = [obj EXCEPT !.status.conds.op = outcome] /\ cur' = cur
      BY <1>e DEF ReturnOperatorError, Return
    <2>2. obj'.status.conds.op = outcome /\ obj'.deleting = obj.deleting
      BY <1>f, <2>1 DEF InstanceObjects, Status, Conds
    <2>3. Answered' => Current'
      BY <1>e, <1>l, ReturnCurrent
    <2> QED
      BY <1>d, <1>f, <2>1, <2>2, <2>3
  <1>1. CASE EnsureOLSOperatorInstalled
    <2>1. CASE IsUserInstalledOLSOperatorMode /\ ReturnOperatorError("UserInstalled")
      <3>1. csv.exists /\ csv.owner # cur /\ csv' = csv /\ cur' = cur
        BY <1>1, <1>e, <2>1 DEF EnsureOLSOperatorInstalled, IsUserInstalledOLSOperatorMode,
                                IsOwnedBy, clusterVars, csvVars
      <3>2. Blocked(cur)'
        BY <3>1 DEF Blocked
      <3> QED
        BY <1>e, <2>1, <3>2 DEF Answered
    <2>2. CASE Goto("subscribe")
      BY <1>o, <2>2 DEF Goto, Current, ConfigLabels, ReadyLabels, PatchLabels
    <2> QED
      BY <1>1, <2>1, <2>2 DEF EnsureOLSOperatorInstalled
  <1>2. CASE WriteSubscription
    <2>1. ~SubscriptionWritten
      <3> SUFFICES ASSUME SubscriptionWritten PROVE FALSE
        OBVIOUS
      <3>1. sub'[i] = DesiredSubscription(sub[i])
        BY <1>b DEF SubscriptionWritten, OwnershipInv, TypeOK, ClusterTypeOK
      <3> QED
        BY <1>b, <3>1 DEF SubscriptionWritten
    <2> QED
      BY <1>2, <1>b, <2>1 DEF WriteSubscription
  <1>3. CASE CheckSubscription
    <2>u. UNCHANGED clusterVars
      BY <1>3 DEF CheckSubscription
    <2>1. CASE RecommendationUnset /\ ReturnOperatorError("Error")
      <3>1. RecommendationUnset'
        BY <1>b, <1>d, <2>1, ServedKept
      <3> QED
        BY <1>e, <2>1, <3>1 DEF Answered
    <2>2. CASE /\ csub[cur] = DesiredSubscription(csub[cur]) /\ csub[cur].planRef # NoPlan
               /\ Goto("approve")
      <3>1. SubscriptionCurrent(i, g)
        BY <1>b, <1>g, <2>2 DEF DesiredSubscription, SubscriptionCurrent, spec
      <3>2. SubscriptionCurrent(cur, obj.gen)'
        BY <1>b, <1>g, <1>s, <2>2, <3>1 DEF Goto, SubscriptionCurrent
      <3> QED
        BY <1>o, <2>2, <3>2 DEF Goto, Current, ConfigLabels, ReadyLabels, PatchLabels
    <2> QED
      BY <1>3, <1>w, <2>1, <2>2 DEF CheckSubscription
  <1>c. ASSUME pc \in {"approve", "adopt", "adoptWrite", "complete"}
        PROVE  UNCHANGED <<cur, obj>> \/ (UNCHANGED cur /\ SameResolution) =>
                  /\ SubscriptionCurrent(cur, obj.gen)'
                  /\ pc # "approve" => PlanApproved'
    <2>1. SubscriptionCurrent(i, g) /\ (pc # "approve" => PlanApproved)
      BY <1>b, <1>c, <1>g DEF Current
    <2>2. SubscriptionCurrent(i, g)' /\ (pc # "approve" => PlanApproved')
      BY <1>s, <2>1
    <2> QED
      BY <1>b, <1>g, <2>2 DEF SubscriptionCurrent, SameResolution
  <1>4. CASE ApproveOLSOperatorInstallPlan
    <2>1. ReturnOperatorWait \/ Goto("adopt")
      BY <1>4, <1>b DEF ApproveOLSOperatorInstallPlan
    <2>2. CASE Goto("adopt")
      <3>1. pc = "approve" /\ UNCHANGED <<cur, obj>> /\ pc' = "adopt"
        BY <1>4, <2>2 DEF ApproveOLSOperatorInstallPlan, Goto
      <3>2. PICK p \in MatchingPlans : plans' = [plans EXCEPT ![p].approved = TRUE]
        BY <1>4, <2>2 DEF ApproveOLSOperatorInstallPlan, Goto, ReturnOperatorWait,
                          ReturnOperatorError, Return
      <3>3. PlanApproved
        <4>1. /\ p \in Plans /\ PlanExists(plans[p])
              /\ HasSuffix(plans[p].version, GetRecommendedOLSVersion)
          BY <1>b, <3>2 DEF MatchingPlans
        <4>2. plans[p].approved
          BY <1>b, <3>2, <4>1 DEF OwnershipInv, TypeOK, ClusterTypeOK, InstallPlans
        <4> QED
          BY <4>1, <4>2 DEF PlanApproved
      <3> QED
        BY <1>c, <1>o, <1>s, <3>1, <3>3 DEF Current, ConfigLabels, ReadyLabels, PatchLabels
    <2> QED
      BY <1>w, <2>1, <2>2
  <1>5. CASE FindCSVToOwn
    <2>1. CASE ~ReturnOperatorWait
      <3>1. /\ pc = "adopt" /\ UNCHANGED <<cur, obj>> /\ pc' = "adoptWrite"
            /\ seenCsv' = csv /\ csv' = csv /\ csv.exists
        BY <1>5, <2>1 DEF FindCSVToOwn, clusterVars, csvVars
      <3> QED
        BY <1>c, <1>o, <3>1 DEF Current, ConfigLabels, ReadyLabels, PatchLabels
    <2> QED
      BY <1>w, <2>1
  <1>6. CASE OwnCSV
    <2>1. ~SeenCSVGone
      BY <1>6, <1>b DEF OwnCSV, Current, SeenCSVGone
    <2>2. CASE ~ReturnOperatorWait
      <3>1. pc = "adoptWrite" /\ UNCHANGED <<cur, obj>> /\ pc' = "complete"
        BY <1>6, <2>1, <2>2 DEF OwnCSV
      <3> QED
        BY <1>c, <1>o, <3>1 DEF Current, ConfigLabels, ReadyLabels, PatchLabels
    <2> QED
      BY <1>w, <2>2
  <1>7. CASE CompleteInstall
    <2>1. CASE ~ReturnOperatorWait
      <3>1. /\ pc = "complete" /\ UNCHANGED cur /\ pc' = "cfgGet" /\ csv' = csv
            /\ obj' = [obj EXCEPT !.status.conds.op = "True"]
            /\ InstanceOwnedOLSOperatorComplete
        BY <1>7, <2>1 DEF CompleteInstall, clusterVars, csvVars
      <3>2. SameResolution
        BY <1>f, <3>1 DEF SameResolution, InstanceObjects, Status, Conds
      <3>3. OperatorRuns(cur)'
        BY <3>1 DEF OperatorRuns, InstanceOwnedOLSOperatorComplete, IsOwnedBy
      <3> QED
        BY <1>c, <1>o, <3>1, <3>2, <3>3
        DEF Current, ReadyLabels, PatchLabels
    <2> QED
      BY <1>w, <2>1
  <1> QED
    BY <1>1, <1>2, <1>3, <1>4, <1>5, <1>6, <1>7 DEF InstallStep

\* The calls that remove things come back later, or give the finalizer up.
LEMMA RemoveCurrent ==
    ASSUME OwnershipInv, ViewsSound, [Next]_vars, NEW i \in Instances, Busy(i),
           RemoveStep \/ UninstallStep
    PROVE  Current'
  <1>l. pc \in RemoveLabels \cup UninstallLabels /\ pc # "resolve"
    BY RemoveReleasesConfig, UninstallKeepsCSV DEF RemoveLabels, UninstallLabels
  <1>f. obj \in InstanceObjects /\ before = inst[i] /\ inst[i].fin
    BY <1>l, BusyFacts
  <1>o. UNCHANGED obj => Resolved(obj)'
    BY <1>l DEF Resolved, Steady, Busy, Current
  <1>r. ASSUME ReturnRetry PROVE Current'
    BY <1>r, <1>l, RetryCurrent
  <1>d. ASSUME ReturnDeleted PROVE Current'
    <2>1. obj' = [obj EXCEPT !.fin = FALSE] /\ before' = before
      BY <1>d DEF ReturnDeleted, Return
    <2>2. obj'.fin # before'.fin
      BY <1>f, <2>1 DEF InstanceObjects
    <2> QED
      BY <1>d, <1>l, <2>2, ReturnCurrent
  <1>a. ASSUME pc' \in RemoveLabels \cup UninstallLabels, UNCHANGED obj PROVE Current'
    BY <1>a, <1>o DEF Current, ConfigLabels, ReadyLabels, PatchLabels, RemoveLabels,
                      UninstallLabels
  <1>1. CASE RemoveStep
    BY <1>1, <1>r, <1>a
    DEF RemoveStep, FindOLSConfigToRemove, CheckOLSConfigOwner, RemoveOwnFinalizer,
        DeleteOLSConfig, CheckOLSConfigRemoved, Goto, RemoveLabels, UninstallLabels
  <1>2. CASE UninstallStep
    BY <1>2, <1>r, <1>a, <1>d
    DEF UninstallStep, FindCSVToUninstall, DeleteOLSOperatorInstallPlan, DeleteCSV,
        CheckUninstalled, Goto, UninstallLabels
  <1> QED
    BY <1>1, <1>2

\* A spec that PatchOLSConfig has written it would write again.
LEMMA DesiredContentSettles ==
    ASSUME NEW s, NEW active, NEW content
    PROVE  DesiredContent(s, active, DesiredContent(s, active, content))
              = DesiredContent(s, active, content)
  BY DEF DesiredContent

\* A patch of what is there brings about what was asked for.
LEMMA ContentPatched ==
    ASSUME NEW old \in Content, NEW new \in Content
    PROVE  MergePatch(old, new, old) = new
  BY DEF MergePatch, Content

\* The calls that write the OLSConfig leave it as the spec asks for, and those
\* that wait for it report the truth.
LEMMA ConfigStepCurrent ==
    ASSUME OwnershipInv, ViewsSound, [Next]_vars, NEW i \in Instances, Busy(i), ConfigStep
    PROVE  Current'
  <1>f. /\ pc # "idle" /\ obj.deleting = inst[i].deleting /\ obj \in InstanceObjects
        /\ obj.gen = inst[i].gen
    BY BusyFacts
  <1>l. pc \in ConfigLabels \cup ReadyLabels /\ pc # "resolve"
    BY ConfigTakesConfig DEF ConfigLabels, ReadyLabels
  <1>d. ~inst[i].deleting
    BY <1>l, BusyFacts
  <1>b. /\ Steady(i) /\ cur = i /\ Current /\ ocp' = ocp /\ userActs = 0
    BY DEF Busy, Steady, Undisturbed
  <1>g. PICK g : g = obj.gen
    OBVIOUS
  <1>c. /\ SubscriptionCurrent(i, g) /\ PlanApproved /\ OperatorRuns(i) /\ Resolved(obj)
        /\ pc \in ReadyLabels => ConfigCurrent(g)
        /\ obj.status.conds.op = "True"
    BY <1>b, <1>g, <1>l DEF Current, ViewsSound, CopyRead
  <1>s. SubscriptionCurrent(i, g)' /\ PlanApproved' /\ OperatorRuns(i)'
    BY <1>b, <1>c, <1>d, ServedKept
  <1>r. ASSUME ReturnConfigError \/ ReturnRetry PROVE Current'
    BY <1>r, <1>l, RetryCurrent
  <1>a. ASSUME pc' \in ConfigLabels \cup ReadyLabels, UNCHANGED <<cur, obj>>,
               pc' \in ReadyLabels => ConfigCurrent(g)'
        PROVE  Current'
    <2>1. Resolved(obj)'
      BY <1>a, <1>b, <1>c DEF Resolved
    <2>2. SubscriptionCurrent(cur, obj.gen)' /\ OperatorRuns(cur)'
      BY <1>a, <1>b, <1>g, <1>s DEF SubscriptionCurrent, OperatorRuns
    <2>3. pc' \in ReadyLabels => ConfigCurrent(obj.gen)'
      BY <1>a, <1>g DEF ConfigCurrent
    <2> QED
      BY <1>a, <1>s, <2>1, <2>2, <2>3 DEF Current, ConfigLabels, ReadyLabels, PatchLabels
  <1>k. ASSUME pc \in ReadyLabels PROVE ConfigCurrent(g)'
    <2>1. ~WriteOLSConfig
      BY <1>k DEF WriteOLSConfig, ReadyLabels
    <2>2. cfg.label = i
      BY <1>b, <1>k DEF OwnershipInv, ProgressSound, SeenConfigSound
    <2> QED
      BY <1>b, <1>c, <1>d, <1>k, <2>1, <2>2, ServedKept
  <1>1. CASE GetOLSConfig
    BY <1>1, <1>a, <1>r DEF GetOLSConfig, ConfigLabels, ReadyLabels
  <1>2. CASE WriteOLSConfig
    <2> DEFINE new == PatchOLSConfig(seenCfg)
               s == Defaulted(Specs[g])
               a == obj.status.active
    <2>t. /\ new \in OLSConfigs /\ seenCfg \in OLSConfigs /\ cfg \in OLSConfigs
          /\ new.want = DesiredContent(s, a, seenCfg.want)
          /\ new.label = IF seenCfg.label = NoInstance THEN cur ELSE seenCfg.label
      <3>1. seenCfg \in OLSConfigs /\ cfg \in OLSConfigs
        BY DEF OwnershipInv, TypeOK, ClusterTypeOK, WorkerTypeOK
      <3>2. new \in OLSConfigs
        BY <1>b, PatchedConfigTypes DEF OwnershipInv
      <3> QED
        BY <1>g, <3>1, <3>2 DEF PatchOLSConfig, OLSConfigs, spec
    <2>p. pc = "cfgWrite"
      BY <1>2 DEF WriteOLSConfig
    <2>x. cfg.exists => seenCfg.exists /\ seenCfg.want = cfg.want
      BY <1>b, <2>p DEF ViewsSound, UsersAway
    <2>a. ASSUME cfg'.want = new.want, Goto("ready") PROVE Current'
      <3>1. SettledContent(g, OCPHistory[ocp], cfg'.want) = DesiredContent(s, a, cfg'.want)
        BY <1>c, <1>g DEF SettledContent, Resolved
      <3>2. DesiredContent(s, a, cfg'.want) = cfg'.want
        BY <2>a, <2>t, DesiredContentSettles
      <3>3. ConfigCurrent(g)'
        BY <1>b, <3>1, <3>2 DEF ConfigCurrent
      <3> QED
        BY <1>a, <2>a, <3>3 DEF Goto, ReadyLabels
    <2>1. CASE ConfigWritten(new) /\ Goto("ready")
      <3>1. CASE cfg' = [new EXCEPT !.dirty = TRUE]
        <4>1. cfg'.want = new.want
          BY <2>t, <3>1 DEF OLSConfigs
        <4> QED
          BY <2>1, <2>a, <4>1
      <3>2. CASE cfg.exists /\ cfg' = PatchedConfig(new)
        <4>1. cfg'.want = MergePatch(cfg.want, new.want, cfg.want)
          BY <2>t, <2>x, <3>2 DEF PatchedConfig, OLSConfigs
        <4>2. cfg'.want = new.want
          BY <2>t, <4>1, ContentPatched DEF OLSConfigs
        <4> QED
          BY <2>1, <2>a, <4>2
      <3> QED
        BY <2>1, <3>1, <3>2 DEF ConfigWritten
    <2>2. CASE new = seenCfg /\ cfg' = cfg /\ Goto("ready")
      <3>1. cfg.label = cur /\ cur # NoInstance
        BY <1>b, <2>2, <2>p, <2>t, InstancesAssumption
        DEF OwnershipInv, ProgressSound, SeenConfigSound
      <3>2. cfg.exists
        BY <3>1 DEF OwnershipInv, ClusterSound, AbsentUnowned
      <3> QED
        BY <2>2, <2>a, <2>x, <3>2
    <2> QED
      BY <1>2, <1>r, <2>1, <2>2 DEF WriteOLSConfig
  <1>3. CASE IsOLSConfigReady
    <2>p. pc = "ready" /\ pc \in ReadyLabels
      BY <1>3 DEF IsOLSConfigReady, ReadyLabels
    <2>1. CASE ReturnReady
      <3>1. obj' = [obj EXCEPT !.status.conds.ols = "True"] /\ cur' = cur
        BY <2>1 DEF ReturnReady, Return
      <3>2. /\ obj'.gen = obj.gen /\ obj'.deleting = obj.deleting
            /\ obj'.status.conds.ols = "True" /\ obj'.status.conds.op = "True"
        BY <1>c, <1>f, <3>1 DEF InstanceObjects, Status, Conds
      <3>3. Served(cur, obj.gen)'
        BY <1>b, <1>g, <1>k, <1>s, <2>p, <3>1, <3>2
        DEF Served, SubscriptionCurrent, OperatorRuns, ConfigCurrent
      <3>4. Answered'
        BY <1>d, <1>f, <3>2, <3>3 DEF Answered
      <3> QED
        BY <1>l, <2>1, <3>4, ReturnCurrent
    <2>2. CASE Goto("ping")
      BY <1>a, <1>k, <2>p, <2>2 DEF Goto, ReadyLabels
    <2> QED
      BY <1>3, <1>r, <2>1, <2>2 DEF IsOLSConfigReady
  <1>4. CASE OLSConfigPing
    BY <1>4, <1>a, <1>k, <1>r DEF OLSConfigPing, ReadyLabels
  <1>5. CASE UpdatePingLabel
    BY <1>5, <1>r DEF UpdatePingLabel
  <1> QED
    BY <1>1, <1>2, <1>3, <1>4, <1>5 DEF ConfigStep

\* What resolveOCPVersion reports is what SettledStatus has, and a cluster version
\* that was detected always leads to some documentation.
LEMMA SettledResolution ==
    ASSUME NEW g \in 1..Len(Specs), NEW k \in 1..Len(OCPHistory), NEW status \in Status
    PROVE  LET s == SettledStatus(g, OCPHistory[k])
               r == resolveOCPVersion(status, Specs[g], DetectOCPVersion(OCPHistory[k]))
           IN  /\ r.conds.rag = s.conds.rag /\ r.active = s.active
               /\ \/ s.conds.rag \in {"Disabled", "Fallback", "Resolved"}
                  \/ s.conds.rag = "DetectionFailed" /\ DetectOCPVersion(OCPHistory[k]).err
  <1> DEFINE d == DetectOCPVersion(OCPHistory[k])
             z == [NoStatus EXCEPT !.obsGen = g]
             r == resolveOCPVersion(status, Specs[g], d)
             n == resolveOCPVersion(z, Specs[g], d)
             s == SettledStatus(g, OCPHistory[k])
  <1>1. z \in Status
    BY ObjectTypes, ConstantTypes DEF Status
  <1>2. r.active = n.active /\ r.conds.rag = n.conds.rag
    BY <1>1, ResolutionFields
  <1>3. n \in Status
    BY <1>1, ConstantTypes, DetectedType, ResolvedStatusType
  <1>4. s = [n EXCEPT !.conds.ols = "True", !.conds.op = "True", !.conds.ready = "True"]
    BY DEF SettledStatus
  <1>5. s.active = n.active /\ s.conds.rag = n.conds.rag
    <2> HIDE DEF n, s
    <2> QED
      BY <1>3, <1>4 DEF Status, Conds
  <1>6. \/ n.conds.rag \in {"Disabled", "Fallback", "Resolved"}
        \/ n.conds.rag = "DetectionFailed" /\ d.err
    <2>1. z.conds \in Conds
      BY <1>1 DEF Status
    <2> DEFINE v == ResolveOCPVersion(d.version, Specs[g].override, Specs[g].enableOCPRAG)
               outcome == CASE ~Specs[g].enableOCPRAG -> "Disabled"
                            [] Specs[g].enableOCPRAG /\ d.err -> "DetectionFailed"
                            [] Specs[g].enableOCPRAG /\ ~d.err ->
                                  IF v.err THEN "OverrideInvalid"
                                  ELSE IF v.isFallback THEN "Fallback" ELSE "Resolved"
    <2>2. n.conds.rag = outcome
      BY <1>1, <2>1 DEF resolveOCPVersion, Status, Conds
    <2>3. Specs[g].enableOCPRAG \in BOOLEAN /\ d.err \in BOOLEAN
      BY ConstantTypes, DetectedType DEF InstanceSpecs
    <2>4. ~d.err => d.version # ""
      BY DEF DetectOCPVersion, ParseMajorMinorVersion
    <2>5. Specs[g].enableOCPRAG /\ ~d.err => ~v.err
      BY <2>4 DEF ResolveOCPVersion
    <2> HIDE DEF n, v, d
    <2> QED
      BY <2>2, <2>3, <2>5
  <1> QED
    BY <1>2, <1>5, <1>6

\* The worker's first call resolves the cluster version for the rest of them.
LEMMA ResolveCurrent ==
    ASSUME OwnershipInv, ViewsSound, [Next]_vars, NEW i \in Instances, Busy(i), Resolve
    PROVE  Current'
  <1>f. /\ before = inst[i] /\ obj \in InstanceObjects /\ inst[i] \in InstanceObjects
    BY BusyFacts
  <1>b. pc = "resolve" /\ ocp' = ocp /\ ocp \in 1..Len(OCPHistory)
    BY DEF Resolve, Busy, Steady, OwnershipInv, TypeOK, ClusterTypeOK
  <1>o. obj.fin = before.fin
    BY <1>b DEF OwnershipInv, ProgressSound, WorkerSound, PatchLabels
  <1>g. PICK g \in 1..Len(Specs) : g = obj.gen
    BY <1>f DEF InstanceObjects
  <1> DEFINE st == resolveOCPVersion(obj.status, Specs[g], DetectOCPVersion(OCPHistory[ocp]))
             o == [obj EXCEPT !.status = st]
  <1>1. AfterResolve(o)
    BY <1>g DEF Resolve, spec
  <1>2. st.conds.rag = SettledStatus(g, OCPHistory[ocp]).conds.rag
        /\ st.active = SettledStatus(g, OCPHistory[ocp]).active
    BY <1>b, <1>f, SettledResolution DEF InstanceObjects
  <1>3. o.gen = g /\ o.status = st /\ o.fin = obj.fin
        /\ [o EXCEPT !.fin = TRUE].gen = g /\ [o EXCEPT !.fin = TRUE].status = st
        /\ [o EXCEPT !.fin = TRUE].fin = TRUE
    BY <1>f, <1>g DEF InstanceObjects
  <1>4. /\ before' = before
        /\ \/ pc' \in {"rmList", "mode"} /\ obj' = o
           \/ pc' = "patch" /\ obj' = [o EXCEPT !.fin = TRUE] /\ ~o.fin
    BY <1>1 DEF AfterResolve, Return
  <1> HIDE DEF st, o
  <1>5. Resolved(obj)'
    BY <1>b, <1>2, <1>3, <1>4 DEF Resolved
  <1>6. pc' = "patch" => obj'.fin # before'.fin
    BY <1>f, <1>o, <1>3, <1>4 DEF InstanceObjects
  <1> QED
    BY <1>4, <1>5, <1>6 DEF Current, ConfigLabels, ReadyLabels, PatchLabels

\* What a settled status reports besides the documentation.
LEMMA SettledFields ==
    ASSUME NEW g \in 1..Len(Specs), NEW k \in 1..Len(OCPHistory)
    PROVE  LET s == SettledStatus(g, OCPHistory[k])
           IN  /\ s \in Status /\ s.conds \in Conds /\ s.obsGen = g
               /\ s.conds.ols = "True" /\ s.conds.op = "True" /\ s.conds.ready = "True"
  <1> DEFINE s == SettledStatus(g, OCPHistory[k])
             n == [NoStatus EXCEPT !.obsGen = g]
             r == resolveOCPVersion(n, Specs[g], DetectOCPVersion(OCPHistory[k]))
  <1>1. n \in Status /\ n.obsGen = g
    BY ObjectTypes, ConstantTypes DEF Status
  <1>2. s = [r EXCEPT !.conds.ols = "True", !.conds.op = "True", !.conds.ready = "True"]
    BY DEF SettledStatus
  <1> HIDE DEF n
  <1>3. r \in Status
    BY <1>1, ConstantTypes, DetectedType, ResolvedStatusType
  <1>4. r.obsGen = g
    BY <1>1, ResolutionFields
  <1> HIDE DEF r, s
  <1>5. /\ s.conds.ols = "True" /\ s.conds.op = "True" /\ s.conds.ready = "True"
        /\ s.obsGen = g /\ s.active = r.active /\ s.conds \in Conds
        /\ s = [conds |-> s.conds, active |-> s.active, obsGen |-> s.obsGen]
    BY <1>2, <1>3, <1>4 DEF Status, Conds, OLSOutcomes, OperatorOutcomes, ReadyStates
  <1> QED
    BY <1>3, <1>5, ConstantTypes DEF Status, s

\* The first half of the deferred function: a change of the finalizer would be
\* an event for the worker.
LEMMA PatchMetadataCurrent ==
    ASSUME OwnershipInv, ViewsSound, [Next]_vars, NEW i \in Instances, Busy(i),
           PatchMetadata
    PROVE  Current'
  <1>f. /\ before = inst[i] /\ obj \in InstanceObjects /\ inst[i] \in InstanceObjects
        /\ obj.deleting = inst[i].deleting /\ pc # "idle"
    BY BusyFacts
  <1>b. /\ pc = "patch" /\ pc' = "patchStatus" /\ UNCHANGED <<cur, before, requeue, cfg, csv>>
        /\ cur = i /\ Steady(i) /\ Current /\ inst'[i] = inst[i] /\ inst[i].phase = "live"
        /\ ocp' = ocp
    BY DEF PatchMetadata, Busy, Steady, Live, csvVars
  <1>k. SameResolution
    BY <1>b, <1>f, ObjectKept
  <1>1. obj.fin = before.fin
    <2> SUFFICES ASSUME obj.fin # before.fin PROVE FALSE
      OBVIOUS
    <2>1. CASE inst[cur].deleting /\ ~obj.fin
      <3>1. inst'[i] = GoneObject
        BY <1>b, <2>1 DEF PatchMetadata, OwnershipInv, TypeOK, ClusterTypeOK
      <3> QED
        BY <1>b, <3>1 DEF GoneObject, NewObject
    <2>2. CASE ~(inst[cur].deleting /\ ~obj.fin)
      <3>1. inst' = [inst EXCEPT ![i].fin = obj.fin]
        BY <1>b, <2>2 DEF PatchMetadata
      <3>2. inst'[i].fin = obj.fin
        BY <3>1 DEF OwnershipInv, TypeOK, ClusterTypeOK, InstanceObjects
      <3> QED
        BY <1>b, <1>f, <3>2
    <2> QED
      BY <2>1, <2>2
  <1>2. requeue \/ Answered
    BY <1>1, <1>b DEF Current, PatchLabels
  <1>3. Resolved(obj)'
    BY <1>b, <1>k DEF Resolved, SameResolution, Current
  <1>4. ASSUME Answered PROVE Answered'
    <2>1. obj'.status.conds.op = obj.status.conds.op
          /\ obj'.status.conds.ols = obj.status.conds.ols
      <3>1. obj' = [obj EXCEPT !.status.conds = SummarizeReady(@)]
        BY DEF PatchMetadata
      <3>2. obj'.status.conds = SummarizeReady(obj.status.conds)
        BY <1>f, <3>1 DEF InstanceObjects, Status
      <3> QED
        BY <1>f, <3>2 DEF SummarizeReady, InstanceObjects, Status, Conds
    <2>2. /\ sub'[i] = sub[i] /\ recommended' = recommended /\ plans' = plans
          /\ obj'.gen = obj.gen /\ obj'.deleting = obj.deleting
      BY <1>b, <1>k DEF Steady, SameResolution, planVars
    <2>3. Served(cur, obj.gen) => Served(cur, obj.gen)'
      BY <1>b, <2>2
      DEF Served, SubscriptionCurrent, PlanApproved, OperatorRuns, ConfigCurrent,
          GetRecommendedOLSVersion, HasSuffix
    <2>4. /\ Blocked(cur) => Blocked(cur)'
          /\ RecommendationUnset => RecommendationUnset'
      BY <1>b, <2>2 DEF Blocked, RecommendationUnset
    <2> QED
      BY <1>4, <2>1, <2>2, <2>3, <2>4 DEF Answered
  <1> QED
    BY <1>2, <1>3, <1>4, <1>b DEF Current, ConfigLabels, ReadyLabels, PatchLabels

\* The second half: with nothing to come, the instance reports that it is Ready
\* or why it cannot be.
LEMMA PatchStatusRests ==
    ASSUME OwnershipInv, ViewsSound, [Next]_vars, NEW i \in Instances, Busy(i), PatchStatus
    PROVE  cur' # i /\ AtRest(i)'
  <1>f. /\ before = inst[i] /\ obj \in InstanceObjects /\ inst[i] \in InstanceObjects
        /\ obj.deleting = inst[i].deleting /\ pc # "idle" /\ obj.gen = inst[i].gen
        /\ obj.status.obsGen = obj.gen
    BY BusyFacts
  <1>b. /\ pc = "patchStatus" /\ cur' = NoInstance /\ UNCHANGED <<cfg, csv, sub>>
        /\ cur = i /\ Steady(i) /\ Current /\ inst'[i] = inst[i] /\ inst[i].phase = "live"
        /\ ocp' = ocp /\ recommended' = recommended /\ plans' = plans
        /\ ocp \in 1..Len(OCPHistory)
    BY DEF PatchStatus, Done, Busy, Steady, Live, csvVars, subVars, planVars,
           OwnershipInv, TypeOK, ClusterTypeOK
  <1>n. cur' # i
    BY <1>b, InstancesAssumption
  <1>1. ~requeue
    BY <1>b DEF PatchStatus, Done, Steady
  <1>2. Answered /\ Resolved(obj)
    BY <1>1, <1>b DEF Current, PatchLabels
  <1>3. inst[i].status = obj.status
    <2> DEFINE s == MergePatch(before.status, obj.status, inst[i].status)
    <2>1. before.status \in Status /\ obj.status \in Status
      BY <1>f DEF InstanceObjects
    <2>2. s = obj.status
      BY <1>f, <2>1 DEF MergePatch, Status
    <2>3. inst' = [inst EXCEPT ![i].status = s]
      BY <1>b DEF PatchStatus
    <2> HIDE DEF s
    <2>4. inst'[i].status = s
      BY <2>3 DEF OwnershipInv, TypeOK, ClusterTypeOK, InstanceObjects
    <2> QED
      BY <1>b, <2>2, <2>4
  <1>4. /\ obj.status.conds \in Conds
        /\ obj.status.conds.ready = "True" <=> AllSubConditionIsTrue(obj.status.conds)
    BY <1>b, <1>f DEF ViewsSound, CopyRead, InstanceObjects, Status
  <1>g. PICK g \in 1..Len(Specs) : g = obj.gen
    BY <1>f DEF InstanceObjects
  <1> DEFINE s == SettledStatus(g, OCPHistory[ocp])
  <1>5. /\ obj.status.conds.rag = s.conds.rag /\ obj.status.active = s.active
        /\ \/ s.conds.rag \in {"Disabled", "Fallback", "Resolved"}
           \/ s.conds.rag = "DetectionFailed" /\ DetectOCPVersion(OCPHistory[ocp]).err
    BY <1>2, <1>b, <1>f, <1>g, SettledResolution DEF Resolved, InstanceObjects
  <1> HIDE DEF s
  <1>6. /\ Served(i, g) => Served(i, g)'
        /\ Blocked(i) => Blocked(i)'
        /\ RecommendationUnset => RecommendationUnset'
    BY <1>b
    DEF Served, SubscriptionCurrent, PlanApproved, OperatorRuns, ConfigCurrent,
        GetRecommendedOLSVersion, HasSuffix, Blocked, RecommendationUnset
  <1>7. ASSUME obj.status.conds.ready = "True" PROVE Served(i, g)' /\ obj.status = s
    <2>1. IsTrue(obj.status.conds.op) \/ IsAbsent(obj.status.conds.op)
      BY <1>4, <1>7 DEF AllSubConditionIsTrue, SubConds
    <2>2. CASE obj.status.conds.op = "True"
      <3>1. obj.status.conds.ols = "True" /\ Served(cur, obj.gen)
        BY <1>2, <2>2 DEF Answered
      <3>2. /\ s \in Status /\ s.conds \in Conds /\ s.obsGen = g
            /\ s.conds.ols = "True" /\ s.conds.op = "True" /\ s.conds.ready = "True"
        BY <1>b, SettledFields DEF s
      <3>3. obj.status.conds = s.conds
        BY <1>4, <1>5, <1>7, <2>2, <3>1, <3>2 DEF Conds
      <3>4. obj.status = s
        BY <1>5, <1>f, <1>g, <3>2, <3>3 DEF InstanceObjects, Status
      <3> QED
        BY <1>6, <1>b, <1>g, <3>1, <3>4
    <2>3. CASE obj.status.conds.op # "True"
      BY <1>2, <2>1, <2>3 DEF Answered, IsTrue, IsAbsent
    <2> QED
      BY <2>2, <2>3
  <1>8. Ready(i)' <=> obj.status.conds.ready = "True"
    BY <1>3, <1>b DEF Ready, Live
  <1>a. ~inst'[i].deleting /\ inst'[i].status.obsGen = inst'[i].gen
    BY <1>2, <1>3, <1>b, <1>f, <1>g DEF Answered
  <1>9. (Attended(i) \/ OverrideIgnored(i))'
    <2>1. CASE /\ obj.status.conds.op = "True" /\ obj.status.conds.ols = "True"
               /\ s.conds.rag \in {"Disabled", "Fallback", "Resolved"}
      <3>1. AllSubConditionIsTrue(obj.status.conds)
        BY <1>5, <2>1 DEF AllSubConditionIsTrue, SubConds, IsTrue
      <3>2. Ready(i)'
        BY <1>4, <1>8, <3>1
      <3>3. inst'[i].status.active = SettledStatus(inst'[i].gen, OCPHistory[ocp']).active
        BY <1>3, <1>5, <1>b, <1>f, <1>g DEF s
      <3> QED
        BY <1>a, <3>2, <3>3 DEF Attended
    <2>2. CASE s.conds.rag = "DetectionFailed" /\ DetectOCPVersion(OCPHistory[ocp]).err
      BY <1>3, <1>5, <1>a, <1>b, <2>2 DEF Attended, OverrideIgnored
    <2>3. CASE obj.status.conds.op = "UserInstalled" /\ Blocked(cur)
      BY <1>3, <1>6, <1>a, <1>b, <2>3 DEF Attended
    <2>4. CASE obj.status.conds.op = "Error" /\ RecommendationUnset
      BY <1>3, <1>6, <1>a, <1>b, <2>4 DEF Attended
    <2> QED
      BY <1>2, <1>5, <2>1, <2>2, <2>3, <2>4 DEF Answered
  <1>10. ASSUME Ready(i)'
         PROVE  /\ inst'[i].status = SettledStatus(inst'[i].gen, OCPHistory[ocp'])
                /\ Served(i, inst[i].gen)'
    <2>1. inst'[i].gen = g
      BY <1>b, <1>f, <1>g
    <2>2. Served(i, g)' /\ obj.status = s
      BY <1>7, <1>8, <1>10
    <2> QED
      BY <1>3, <1>b, <2>1, <2>2 DEF s, Served, SubscriptionCurrent, ConfigCurrent
  <1> QED
    BY <1>n, <1>a, <1>9, <1>10 DEF AtRest

-----------------------------------------------------------------------------
(* The invariant is inductive.                                             *)

\* The worker stays with an instance until it has written the status back.
LEMMA WorkerStays ==
    ASSUME OwnershipInv, [Next]_vars, NEW i \in Instances, cur = i,
           ~PatchStatus, ~CallFails, ~Restart
    PROVE  cur' = i
  <1>1. pc # "idle"
    BY InstancesAssumption DEF OwnershipInv, TypeOK, WorkerTypeOK
  <1>2. ASSUME NEW j \in Instances PROVE ~Reconcile(j)
    BY <1>1 DEF Reconcile
  <1> QED
    BY <1>1, <1>2, CopyKept DEF workerVars

\* Only the start of a reconciliation gives the worker another instance.
LEMMA WorkerStaysAway ==
    ASSUME OwnershipInv, OwnershipInv', [Next]_vars, NEW i \in Instances, cur # i,
           ~Reconcile(i)
    PROVE  cur' # i
  <1>1. pc' = "idle" => cur' # i
    BY InstancesAssumption DEF OwnershipInv, TypeOK, WorkerTypeOK
  <1>2. ASSUME NEW j \in Instances, Reconcile(j) PROVE cur' # i
    BY <1>2 DEF Reconcile
  <1> QED
    BY <1>1, <1>2, CopyKept

\* An instance the worker is busy with stays so, or has been dealt with.
LEMMA BusyKept ==
    ASSUME OwnershipInv, ViewsSound, [Next]_vars, NEW i \in Instances, Busy(i)
    PROVE  (cur' = i /\ Current') \/ (cur' # i /\ AtRest(i)')
  <1>b. pc # "idle" /\ Steady(i) /\ cur = i
    BY BusyFacts DEF Busy
  <1>f. ~CallFails /\ ~SubscriptionResponseLost /\ ~ConfigResponseLost
    <2>1. faults = 0 /\ faults' = 0
      BY <1>b DEF Steady, Undisturbed
    <2>2. ~Fault
      BY <2>1 DEF Fault
    <2> QED
      BY <2>2 DEF CallFails, SubscriptionResponseLost, ConfigResponseLost
  <1>r. ~Restart
    BY <1>b DEF Restart, Steady, Live
  <1>i. ASSUME NEW j \in Instances PROVE ~Reconcile(j) /\ ~ReconcileNotFound(j)
    BY <1>b DEF Reconcile, ReconcileNotFound
  <1>1. CASE UNCHANGED workerVars
    <2>1. Current'
      BY <1>1, CurrentKept DEF Busy
    <2>2. cur' = i
      BY <1>1, <1>b DEF workerVars
    <2> QED
      BY <2>1, <2>2
  <1>2. CASE PatchStatus
    BY <1>2, PatchStatusRests
  <1>3. ASSUME ~PatchStatus,
               \/ Resolve \/ PatchMetadata \/ InstallStep \/ UninstallStep
               \/ ConfigStep \/ RemoveStep
        PROVE  cur' = i /\ Current'
    <2>1. cur' = i
      BY <1>3, <1>b, <1>f, <1>r, WorkerStays
    <2> QED
      BY <1>3, <2>1, ResolveCurrent, PatchMetadataCurrent, InstallCurrent, RemoveCurrent,
         ConfigStepCurrent
  <1>4. UNCHANGED vars => UNCHANGED workerVars
    BY DEF vars
  <1> QED
    BY <1>f, <1>r, <1>i, <1>1, <1>2, <1>3, <1>4 DEF Next, WorkerStep, FrameStep

\* No step forgets an instance.
LEMMA KeptNext ==
    ASSUME OwnershipInv, OwnershipInv', ViewsSound, [Next]_vars,
           NEW i \in Instances, Live(i) /\ Undisturbed(i) => Kept(i),
           Live(i)', Undisturbed(i)'
    PROVE  Kept(i)'
  <1> SUFFICES ASSUME ~Pending(i)' PROVE Kept(i)'
    BY DEF Kept
  <1>1. Steady(i) /\ (Reconcile(i) \/ ~Pending(i))
    BY SteadyStep
  <1>2. CASE Reconcile(i)
    BY <1>2 DEF Reconcile, Kept, Current, ConfigLabels, ReadyLabels, PatchLabels
  <1>3. CASE ~Reconcile(i) /\ cur = i
    <2>1. Busy(i)
      BY <1>1, <1>3 DEF Busy, Kept, Steady
    <2> QED
      BY <2>1, BusyKept DEF Kept
  <1>4. CASE ~Reconcile(i) /\ cur # i
    <2>1. AtRest(i)
      BY <1>1, <1>4 DEF Kept, Steady
    <2> QED
      BY <1>1, <1>4, <2>1, RestKept, WorkerStaysAway DEF Kept
  <1> QED
    BY <1>2, <1>3, <1>4

\* Every step preserves the invariant.
LEMMA WakeupNext == WakeupInv /\ [Next]_vars => WakeupInv'
  <1> SUFFICES ASSUME WakeupInv, [Next]_vars PROVE WakeupInv'
    OBVIOUS
  <1>1. OwnershipInv /\ ViewsSound
    BY DEF WakeupInv
  <1>2. OwnershipInv'
    BY <1>1, OwnershipNext
  <1>3. ViewsSound'
    BY <1>1, InstanceViews, SubscriptionViews, PlanViews, UsersAwayKept, CopyReadKept
    DEF ViewsSound
  <1>4. ASSUME NEW i \in Instances, Live(i)', Undisturbed(i)' PROVE Kept(i)'
    <2>1. Live(i) /\ Undisturbed(i) => Kept(i)
      BY DEF WakeupInv
    <2> QED
      BY <1>1, <1>2, <1>4, <2>1, KeptNext
  <1> QED
    BY <1>2, <1>3, <1>4 DEF WakeupInv

\* The initial states have no instance that waits for the worker.
LEMMA WakeupInit == Init => WakeupInv
  <1> SUFFICES ASSUME Init PROVE WakeupInv
    OBVIOUS
  <1>o. OwnershipInv
    BY OwnershipInit
  <1>w. pc = "idle" /\ cur = NoInstance
    BY DEF Init, WorkerInit
  <1>v. ASSUME /\ cinst = inst /\ csub = sub /\ cplans = plans
               /\ csv.via # User /\ ~csv.deleting
               /\ \A i \in Instances : /\ inst[i].phase = "new" => inst[i] = NewObject
                                       /\ ~inst[i].deleting
        PROVE  ViewsSound
    <2>1. \A i \in Instances : cinst[i].gen <= inst[i].gen /\ csub[i].planRef <= sub[i].planRef
      BY <1>o, <1>v, ConstantTypes
      DEF OwnershipInv, TypeOK, ClusterTypeOK, InstanceObjects, Subscriptions
    <2> QED
      BY <1>v, <1>w, <2>1
      DEF ViewsSound, InstancesBehind, SubscriptionsBehind, PlansBehind, DeletedFinalized,
          UsersAway, CopyRead, ConfigLabels, ReadyLabels
  <1>1. CASE FirstOwner = NoInstance
    <2>1. /\ cinst = inst /\ csub = sub /\ cplans = plans /\ csv = NoCSV
          /\ \A i \in Instances : inst[i] = NewObject
      BY <1>1 DEF Init, InitialCluster, ClusterInit
    <2>2. NewObject.phase = "new" /\ ~NewObject.deleting /\ NoCSV.via # User /\ ~NoCSV.deleting
      BY InstancesAssumption DEF NewObject, NoCSV
    <2> QED
      BY <1>o, <1>v, <2>1, <2>2 DEF WakeupInv, Live
  <1>2. CASE FirstOwner # NoInstance
    <2> DEFINE s == SettledStatus(1, OCPHistory[1])
               found == RolledOut(1, 1)
    <2>1. /\ Settled(FirstOwner, 1, 1, found) /\ FirstOwner \in Instances
          /\ recommended \in Recommendations
      BY <1>2, FirstOwnerAssumption DEF Init, InitialCluster, Owners
    <2>2. /\ cinst = inst /\ csub = sub /\ cplans = plans /\ ocp = 1
          /\ inst[FirstOwner] = [CreatedObject EXCEPT !.fin = TRUE, !.gen = 1, !.status = s]
          /\ \A i \in Instances \ {FirstOwner} : inst[i] = NewObject
      BY <2>1 DEF Settled
    <2>3. /\ inst[FirstOwner].phase = "live" /\ inst[FirstOwner].gen = 1
          /\ ~inst[FirstOwner].deleting /\ inst[FirstOwner].status = s
          /\ \A i \in Instances \ {FirstOwner} : inst[i].phase = "new" /\ ~inst[i].deleting
      BY <2>2 DEF CreatedObject, NewObject
    <2>4. /\ csv.exists /\ csv.owner = FirstOwner /\ csv.via = FirstOwner /\ csv.succeeded
          /\ ~csv.deleting
          /\ cfg.want = SettledContent(1, OCPHistory[1], found.want)
      BY <2>1 DEF Settled
    <2>5. SubscriptionCurrent(FirstOwner, 1)
      BY <2>1 DEF Settled, SubscriptionCurrent, NoPlan
    <2>6. ConfigCurrent(1)
      BY <2>2, <2>4, DesiredContentSettles DEF ConfigCurrent, SettledContent
    <2>7. s.conds.ready = "True" /\ s.obsGen = 1
      BY ConstantTypes, SettledFields
    <2>8. ViewsSound
      <3>1. csv.via # User
        BY <2>1, <2>4, InstancesAssumption
      <3> QED
        BY <1>v, <2>2, <2>3, <2>4, <3>1
    <2>p. PlanApproved
      <3>1. 1 \in Plans
        BY <1>2, FirstOwnerAssumption, BoundsAssumption DEF Plans
      <3>2. plans[1] = [phase |-> "complete", approved |-> TRUE,
                        version |-> SettledVersion, via |-> FirstOwner]
        BY <2>1, <3>1 DEF Settled
      <3>3. HasSuffix(SettledVersion, GetRecommendedOLSVersion)
        BY DEF HasSuffix, SettledVersion
      <3> QED
        BY <3>1, <3>2, <3>3 DEF PlanApproved, PlanExists
    <2>9. AtRest(FirstOwner)
      <3>1. OperatorRuns(FirstOwner)
        BY <2>4 DEF OperatorRuns
      <3>2. Attended(FirstOwner)
        <4> HIDE DEF s
        <4>1. s.active = SettledStatus(1, OCPHistory[1]).active
          BY DEF s
        <4> QED
          BY <2>2, <2>3, <2>7, <4>1 DEF Attended, Ready, Live
      <3>3. /\ inst[FirstOwner].status.obsGen = inst[FirstOwner].gen
            /\ inst[FirstOwner].status = SettledStatus(inst[FirstOwner].gen, OCPHistory[ocp])
            /\ Served(FirstOwner, inst[FirstOwner].gen)
        BY <2>2, <2>3, <2>5, <2>6, <2>7, <2>p, <3>1 DEF Served
      <3> QED
        BY <2>3, <3>2, <3>3 DEF AtRest
    <2>10. ASSUME NEW i \in Instances, Live(i) PROVE Kept(i)
      <3>1. i = FirstOwner
        BY <2>3, <2>10 DEF Live
      <3> QED
        BY <1>2, <1>w, <2>9, <3>1 DEF Kept
    <2> QED
      BY <1>o, <2>8, <2>10 DEF WakeupInv
  <1> QED
    BY <1>1, <1>2

-----------------------------------------------------------------------------
(* The version of the OLS operator.                                        *)

\* A recommendation that no crash has changed has not changed.
LEMMA RecommendationKept ==
    ASSUME OwnershipInv, [Next]_vars, SameRecommendation'
    PROVE  SameRecommendation /\ recommended' = recommended
  <1> USE DEF OwnershipInv, TypeOK, ClusterTypeOK
  <1>1. restarts <= restarts' /\ (recommended' = recommended \/ Restart)
    BY QueueKept
  <1>2. CASE \A r, s \in Recommendations : r = s
    BY <1>1, <1>2 DEF SameRecommendation, Restart
  <1>3. CASE restarts' = 0
    <2>1. restarts = 0 /\ restarts' # restarts + 1
      BY <1>1, <1>3
    <2> QED
      BY <1>1, <2>1 DEF SameRecommendation, Restart
  <1> QED
    BY <1>2, <1>3 DEF SameRecommendation

\* The worker approves an InstallPlan only for the version it has read.
LEMMA VersionNext ==
    ASSUME OwnershipInv, VersionMatched, [Next]_vars
    PROVE  VersionMatched'
  <1> USE DEF OwnershipInv, TypeOK, ClusterTypeOK
  <1> SUFFICES ASSUME SameRecommendation', userActs' = 0 PROVE VersionMatched'
    BY DEF VersionMatched
  <1>0. userActs = 0 /\ ~UserInstallsOLS
    <2>1. userActs = 0
      BY QueueKept
    <2> QED
      BY <2>1 DEF UserInstallsOLS
  <1>r. SameRecommendation /\ recommended' = recommended
    BY RecommendationKept
  <1> DEFINE v == GetRecommendedOLSVersion
  <1>v. /\ v' = v
        /\ \A p \in Plans : plans[p].approved => HasSuffix(plans[p].version, v)
        /\ csv.exists => HasSuffix(csv.version, v)
    BY <1>0, <1>r DEF VersionMatched, GetRecommendedOLSVersion
  <1> HIDE DEF v
  <1>1. ASSUME NEW p \in Plans, plans'[p].approved PROVE HasSuffix(plans'[p].version, v)
    <2>1. CASE UNCHANGED planVars
      BY <1>v, <1>1, <2>1 DEF planVars
    <2>2. CASE ApproveOLSOperatorInstallPlan
      <3>1. CASE plans' = plans
        BY <1>v, <1>1, <3>1
      <3>2. CASE plans' # plans
        <4>1. PICK q \in MatchingPlans : /\ cplans[q] = plans[q]
                                         /\ plans' = [plans EXCEPT ![q].approved = TRUE]
          BY <2>2, <3>2 DEF ApproveOLSOperatorInstallPlan
        <4>2. q \in Plans /\ HasSuffix(plans[q].version, v)
          BY <4>1 DEF MatchingPlans, v
        <4>3. plans'[p].version = plans[p].version /\ (p # q => plans'[p] = plans[p])
          BY <4>1, <4>2 DEF InstallPlans
        <4> QED
          BY <1>v, <1>1, <4>2, <4>3
      <3> QED
        BY <3>1, <3>2
    <2>3. CASE DeleteOLSOperatorInstallPlan
      <3>1. CASE plans' = plans
        BY <1>v, <1>1, <3>1
      <3>2. CASE plans' # plans
        <4>1. PICK q \in MatchingPlans : plans' = [plans EXCEPT ![q].phase = "deleted"]
          BY <2>3, <3>2 DEF DeleteOLSOperatorInstallPlan
        <4>2. plans'[p].version = plans[p].version /\ plans'[p].approved = plans[p].approved
          BY <4>1 DEF InstallPlans, MatchingPlans
        <4> QED
          BY <1>v, <1>1, <4>2
      <3> QED
        BY <3>1, <3>2
    <2>4. CASE SyncPlans \/ Restart
      BY <1>v, <1>1, <2>4 DEF SyncPlans, Restart
    <2>5. ASSUME NEW i \in Instances, OLMCreatesPlan(i) \/ OLMCreatesUpgradePlan(i)
          PROVE  HasSuffix(plans'[p].version, v)
      <3>1. PICK w : AddPlan(NewPlan(i, w))
        BY <2>5 DEF OLMCreatesPlan, OLMCreatesUpgradePlan
      <3>2. PICK q \in Plans : plans' = [plans EXCEPT ![q] = NewPlan(i, w)]
        BY <3>1 DEF AddPlan
      <3>3. ~NewPlan(i, w).approved
        BY DEF NewPlan
      <3>4. plans'[p] = plans[p]
        BY <1>1, <3>2, <3>3
      <3> QED
        BY <1>v, <1>1, <3>4
    <2>6. ASSUME NEW q \in Plans, OLMExecutesPlan(q) PROVE HasSuffix(plans'[p].version, v)
      <3>1. plans'[p].version = plans[p].version /\ plans'[p].approved = plans[p].approved
        BY <2>6 DEF OLMExecutesPlan, InstallPlans
      <3> QED
        BY <1>v, <1>1, <3>1
    <2> QED
      BY <1>0, <2>1, <2>2, <2>3, <2>4, <2>5, <2>6, PlansKept
  <1>2. ASSUME csv'.exists PROVE HasSuffix(csv'.version, v)
    <2>1. CASE UNCHANGED csv
      BY <1>v, <1>2, <2>1
    <2>2. CASE OwnCSV \/ DeleteCSV \/ UserUninstallsOLS \/ OLMDeploysCSV \/ OLMReportsCSVFailed
      <3>1. csv'.version = csv.version /\ csv'.exists = csv.exists
        BY <2>2 DEF OwnCSV, DeleteCSV, UserUninstallsOLS, OLMDeploysCSV,
                    OLMReportsCSVFailed, CSVs
      <3> QED
        BY <1>v, <1>2, <3>1
    <2>3. CASE OLMRemovesCSV
      BY <1>2, <2>3 DEF OLMRemovesCSV, NoCSV
    <2>4. ASSUME NEW p \in Plans, OLMExecutesPlan(p) PROVE HasSuffix(csv'.version, v)
      <3>1. CASE csv' = csv
        BY <1>v, <1>2, <3>1
      <3>2. CASE csv' # csv
        <4>1. plans[p].approved /\ csv'.version = plans[p].version
          BY <2>4, <3>2 DEF OLMExecutesPlan, NoCSV
        <4> QED
          BY <1>v, <4>1
      <3> QED
        BY <3>1, <3>2
    <2> QED
      BY <1>0, <2>1, <2>2, <2>3, <2>4, CSVKept
  <1> QED
    BY <1>v, <1>1, <1>2 DEF VersionMatched, v, HasSuffix

\* The version a Ready instance starts with is the recommended one.
LEMMA VersionInit == Init => VersionMatched
  <1> SUFFICES ASSUME Init PROVE VersionMatched
    OBVIOUS
  <1>1. CASE FirstOwner = NoInstance
    BY <1>1 DEF Init, InitialCluster, ClusterInit, VersionMatched, NoCSV, NoInstallPlan
  <1>2. CASE FirstOwner # NoInstance
    <2>1. Settled(FirstOwner, 1, 1, RolledOut(1, 1))
      BY <1>2 DEF Init, InitialCluster
    <2>2. HasSuffix(SettledVersion, GetRecommendedOLSVersion)
      BY DEF HasSuffix, SettledVersion
    <2>3. csv.version = SettledVersion
      BY <2>1 DEF Settled
    <2>4. ASSUME NEW p \in Plans, plans[p].approved PROVE plans[p].version = SettledVersion
      <3>1. plans[p] = IF p = 1 THEN [phase |-> "complete", approved |-> TRUE,
                                      version |-> SettledVersion, via |-> FirstOwner]
                                ELSE NoInstallPlan
        BY <2>1 DEF Settled
      <3> QED
        BY <2>4, <3>1 DEF NoInstallPlan
    <2> QED
      BY <2>2, <2>3, <2>4 DEF VersionMatched
  <1> QED
    BY <1>1, <1>2

-----------------------------------------------------------------------------
(* The theorems.                                                           *)

\* The inductive invariant: whatever the caches have missed is on its way, and
\* an undisturbed instance is waiting for the worker, in its hands or dealt
\* with.
THEOREM WakeupInvariant == Spec => []WakeupInv
  BY WakeupInit, WakeupNext, PTL DEF Spec

\* Without collisions the suffix match of GetOLSOperatorInstallPlan is equality.
LEMMA SuffixRecommended ==
    ASSUME TypeOK, NoCollision, NEW v, HasSuffix(v, GetRecommendedOLSVersion)
    PROVE  Recommended(v)
  <1>1. CASE GetRecommendedOLSVersion = NoVersion
    BY <1>1 DEF Recommended
  <1>2. CASE GetRecommendedOLSVersion # NoVersion
    <2>1. GetRecommendedOLSVersion \in Recommendations
      BY <1>2 DEF GetRecommendedOLSVersion, TypeOK, ClusterTypeOK
    <2>2. <<v, GetRecommendedOLSVersion>> \notin ProperSuffixes
      BY <2>1 DEF NoCollision
    <2> QED
      BY <2>2 DEF HasSuffix, Recommended
  <1> QED
    BY <1>1, <1>2

\* The worker approves no InstallPlan but for the version it recommends, and no
\* other version is installed, as long as it has recommended no other one and no
\* version collides with it.
THEOREM VersionInvariant ==
    ASSUME NoCollision
    PROVE  Spec => []VersionSound
  <1>1. Spec => []VersionMatched
    BY OwnershipInvariant, VersionInit, VersionNext, PTL DEF Spec
  <1>2. OwnershipInv /\ VersionMatched => VersionSound
    BY SuffixRecommended DEF VersionMatched, VersionSound, OwnershipInv
  <1> QED
    BY <1>1, <1>2, OwnershipInvariant, PTL

\* In a quiescent state, nothing is pending.
LEMMA QuiescentAtRest ==
    ASSUME WakeupInv, Quiescent, NEW i \in Instances, Live(i), Undisturbed(i)
    PROVE  AtRest(i)
  <1>1. Kept(i) /\ ~Pending(i)
    BY DEF WakeupInv, Quiescent, Pending
  <1>2. cur # i
    BY InstancesAssumption DEF WakeupInv, OwnershipInv, TypeOK, WorkerTypeOK, Quiescent
  <1> QED
    BY <1>1, <1>2 DEF Kept

\* Every cluster version can be detected where a spec has an override.
OverridesDetectable ==
    \A g \in 1..Len(Specs), k \in 1..Len(OCPHistory) :
        Specs[g].override # "" => ~DetectOCPVersion(OCPHistory[k]).err

\* No return of Reconcile without a requeue leaves an instance unattended, for
\* any number of instances, specs, cluster versions, InstallPlans, failures of the
\* OLS operator and restarts with another recommended version - unless a call
\* fails, a user handles the OLS operator or the OLSConfig, or another instance is
\* removed.  Only where the cluster version cannot be detected must the spec have
\* no override: there the worker stops although it has a version to use.
THEOREM NoWakeupLost ==
    ASSUME OverridesDetectable
    PROVE  Spec => [](Calm => NoLostWakeup)
  <1>1. ASSUME WakeupInv, NEW i \in Instances PROVE ~OverrideIgnored(i)
    <2>1. inst[i].gen \in 1..Len(Specs) /\ ocp \in 1..Len(OCPHistory)
      BY <1>1 DEF WakeupInv, OwnershipInv, TypeOK, ClusterTypeOK, InstanceObjects
    <2> QED
      BY <2>1 DEF OverridesDetectable, OverrideIgnored
  <1>2. WakeupInv => (Calm => NoLostWakeup)
    BY <1>1, QuiescentAtRest DEF NoLostWakeup, Calm, AtRest
  <1> QED
    BY <1>2, WakeupInvariant, PTL

\* The worker does not run dry while an undisturbed instance is being deleted.
DeletionKept ==
    \A i \in Instances : Quiescent /\ Undisturbed(i) => ~inst[i].deleting

\* A deletion is not forgotten: reconcileDelete is tried again until the finalizer
\* is gone, whatever stops it on the way.  This is the part of EventuallyGone that
\* needs no fairness.
THEOREM DeletionNotForgotten == Spec => []DeletionKept
  <1>1. ASSUME WakeupInv, NEW i \in Instances, Quiescent, Undisturbed(i)
        PROVE  ~inst[i].deleting
    <2>1. inst[i].deleting => Live(i)
      BY <1>1 DEF WakeupInv, OwnershipInv, ClusterSound, CopiesSound
    <2>2. Live(i) => AtRest(i)
      BY <1>1, QuiescentAtRest
    <2> QED
      BY <2>1, <2>2 DEF AtRest
  <1>2. WakeupInv => DeletionKept
    BY <1>1 DEF DeletionKept
  <1> QED
    BY <1>2, WakeupInvariant, PTL

\* The worker that runs dry leaves an undisturbed instance that reports Ready with
\* the Subscription, the approved InstallPlan, the OLS operator and the OLSConfig
\* its spec and the cluster version ask for.
ReadyServed ==
    \A i \in Instances :
        Quiescent /\ Undisturbed(i) /\ Ready(i) => Served(i, inst[i].gen)

\* ReadyServed holds for every instance that nobody has disturbed, whatever the
\* others go through: Ready is no leftover of an earlier spec, an earlier cluster
\* version or an OLS operator that has failed since.
THEOREM ReadyInstanceServed == Spec => []ReadyServed
  <1>1. WakeupInv => ReadyServed
    BY QuiescentAtRest DEF ReadyServed, AtRest, Ready
  <1> QED
    BY <1>1, WakeupInvariant, PTL

\* A Ready instance runs the OLS operator in exactly the recommended version: the
\* worker approves no InstallPlan of another one, whatever OLM offers, for any
\* number of instances, specs and InstallPlans, and crashes that keep the
\* recommendation.
THEOREM RecommendedVersionRuns ==
    ASSUME NoCollision
    PROVE  Spec => [](Calm /\ SameRecommendation => RunsRecommendedVersion)
  <1>1. ASSUME WakeupInv, VersionSound, Calm, SameRecommendation,
               NEW i \in Instances, ReadyAtRest(i)
        PROVE  csv.owner = i /\ csv.succeeded /\ Recommended(csv.version)
    <2>1. Undisturbed(i) /\ userActs = 0
      BY <1>1 DEF Calm, Undisturbed
    <2>2. AtRest(i)
      BY <1>1, <2>1, QuiescentAtRest DEF ReadyAtRest, Ready
    <2>3. OperatorRuns(i)
      BY <1>1, <2>2 DEF AtRest, Served, ReadyAtRest
    <2> QED
      BY <1>1, <2>1, <2>3 DEF OperatorRuns, VersionSound
  <1>2. WakeupInv /\ VersionSound =>
            (Calm /\ SameRecommendation => RunsRecommendedVersion)
    BY <1>1 DEF RunsRecommendedVersion
  <1> QED
    BY <1>2, WakeupInvariant, VersionInvariant, PTL

\* A Ready instance has its own OLS operator, which runs, and OLM has executed an
\* InstallPlan of the recommended version.
UpgradesFollowed ==
    \A i \in Instances :
        ReadyAtRest(i) =>
            /\ csv.owner = i /\ csv.succeeded
            /\ \E p \in Plans :
                  plans[p].phase = "complete" /\ Recommended(plans[p].version)

\* After any restarts with any other recommendations the worker does not run dry
\* before the version that is recommended now has been installed: an upgrade is
\* never missed.  Whether that version is still the one that runs is what
\* EnsureOLSOperatorInstalled does not check when the recommendation goes back.
THEOREM NoUpgradeMissed ==
    ASSUME NoCollision
    PROVE  Spec => [](Calm => UpgradesFollowed)
  <1>1. ASSUME WakeupInv, Calm, NEW i \in Instances, ReadyAtRest(i)
        PROVE  /\ csv.owner = i /\ csv.succeeded
               /\ \E p \in Plans :
                     plans[p].phase = "complete" /\ Recommended(plans[p].version)
    <2>1. Undisturbed(i)
      BY <1>1 DEF Calm
    <2>2. AtRest(i)
      BY <1>1, <2>1, QuiescentAtRest DEF ReadyAtRest, Ready
    <2>3. OperatorRuns(i) /\ PlanApproved
      BY <1>1, <2>2 DEF AtRest, Served, ReadyAtRest
    <2>4. PICK p \in Plans : /\ PlanExists(plans[p]) /\ plans[p].approved
                             /\ HasSuffix(plans[p].version, GetRecommendedOLSVersion)
      BY <2>3 DEF PlanApproved
    <2>5. plans[p].phase = "complete"
      BY <1>1, <2>4 DEF ReadyAtRest, PlanExists
    <2>6. Recommended(plans[p].version)
      BY <1>1, <2>4, SuffixRecommended DEF WakeupInv, OwnershipInv
    <2> QED
      BY <2>3, <2>5, <2>6 DEF OperatorRuns
  <1>2. WakeupInv => (Calm => UpgradesFollowed)
    BY <1>1 DEF UpgradesFollowed
  <1> QED
    BY <1>2, WakeupInvariant, PTL
=============================================================================
