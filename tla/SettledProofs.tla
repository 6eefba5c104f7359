--------------------------- MODULE SettledProofs ----------------------------
(***************************************************************************)
(* The proof of SettledWhenReady: a cluster in which one instance was      *)
(* created ends up in one and the same state, whatever happened on the     *)
(* way.                                                                    *)
(*                                                                         *)
(* WakeupProofs shows that an instance the worker is done with is Served;  *)
(* what is added here is the part of the state that is not looked at       *)
(* again: who made the InstallPlan and the CSV and for which version,      *)
(* which finalizers the OLSConfig holds, and from which specs its CA       *)
(* bundle may come.                                                        *)
(***************************************************************************)
EXTENDS WakeupProofs

-----------------------------------------------------------------------------
(* The inductive invariant.                                                *)

\* What does not exist has left nothing behind, and the OLSConfig kind comes
\* with the OLS operator.
ObjectsSound ==
    /\ \A i \in Instances : inst[i].phase = "new" => sub[i] = NoSubscription
    /\ \A p \in Plans : plans[p].phase = "none" => plans[p] = NoInstallPlan
    /\ csv.exists => crd
    /\ ~cfg.exists => cfg.want = NoContent
    /\ pc = "cfgWrite" /\ ~seenCfg.exists => seenCfg.want = NoContent

\* The worker's instance was created, and its copy is not ahead of it.
CopyBehind ==
    pc # "idle" => /\ inst[cur].phase # "new"
                   /\ inst[cur].phase # "gone" => obj.gen <= inst[cur].gen

\* Nobody takes the OLSConfig away.
Uncontested == userActs = 0 /\ \A j \in Instances : ~Doomed(j)

\* The OLSConfig holds the finalizers of both operators by the time the OLS
\* operator reports it ready.
Whole(config) ==
    /\ ~config.deleting
    /\ config.exists => OwnFinalizer \in config.fins
    /\ config.overall => "ols" \in config.fins

\* So do the copies the worker decides on, and nobody reports Ready before.
FinalizersSound ==
    Uncontested =>
        /\ Whole(cfg)
        /\ pc = "cfgWrite" => Whole(seenCfg)
        /\ pc \in PatchLabels /\ obj.status.conds.ols = "True" => "ols" \in cfg.fins
        /\ \A i \in Instances : Ready(i) => "ols" \in cfg.fins

\* Instance i is the only one that was created, the first InstallPlan the only
\* one that OLM has made.
Single(i) ==
    /\ userActs = 0 /\ SameRecommendation /\ ~Doomed(i)
    /\ \A j \in Instances \ {i} : inst[j].phase = "new"
    /\ \A p \in Plans \ {1} : plans[p].phase = "none"

\* The CA bundles an instance of generation n has asked for.
CABundles(n) == {Specs[g].ca : g \in 1..n}

\* Everything there is comes from instance i and the recommended version.
MadeFor(i) ==
    /\ sub[i].exists => sub[i].startingCSV = GetRecommendedOLSVersion
    /\ sub[i].planRef \in {NoPlan, 1}
    /\ \A p \in Plans : plans[p].phase # "none" =>
          p = 1 /\ plans[p].version = SettledVersion /\ plans[p].via = i
    /\ csv.exists =>
          /\ 1 \in Plans /\ plans[1].phase = "complete" /\ plans[1].approved
          /\ csv.version = SettledVersion /\ csv.via = i
    /\ cfg.exists => cfg.want.ca \in CABundles(inst[i].gen)
    /\ pc = "cfgWrite" /\ seenCfg.exists => seenCfg.want.ca \in CABundles(inst[i].gen)

\* What WakeupInv does not say.
SettledInv ==
    /\ OwnershipInv
    /\ ViewsSound
    /\ ObjectsSound
    /\ CopyBehind
    /\ FinalizersSound
    /\ \A i \in Instances : Single(i) => MadeFor(i)

\* At most one instance was created, nobody interfered with it, and OLM has made
\* at most one InstallPlan.
SingleRun ==
    /\ faults = 0 /\ userActs = 0 /\ SameRecommendation
    /\ \A i, j \in Instances : i # j => "new" \in {inst[i].phase, inst[j].phase}
    /\ \A p \in Plans \ {1} : plans[p].phase = "none"

-----------------------------------------------------------------------------
(* What cannot be undone.                                                  *)

\* An instance that was created stays so, and its generation only grows.
LEMMA GenerationsGrow ==
    ASSUME OwnershipInv, ViewsSound, [Next]_vars, NEW i \in Instances
    PROVE  /\ inst'[i].phase = "new" => inst[i].phase = "new"
           /\ inst'[i].phase # "gone" => inst[i].gen <= inst'[i].gen
  <1> USE DEF OwnershipInv, TypeOK, ClusterTypeOK
  <1>n. inst[i].gen \in Nat /\ inst[i].gen <= inst[i].gen
    BY ConstantTypes DEF InstanceObjects
  <1>1. CASE UNCHANGED instVars \/ Restart
    BY <1>1, <1>n DEF instVars, Restart
  <1>2. CASE PatchMetadata \/ PatchStatus
    <2>1. CopyRead
      BY DEF ViewsSound
    <2> QED
      BY <1>2, <1>n, <2>1, PatchShows
  <1>3. ASSUME NEW j \in Instances,
               \/ CreateInstance(j) \/ UpdateSpec(j) \/ DeleteInstance(j) \/ SyncInstance(j)
        PROVE  /\ inst'[i].phase = "new" => inst[i].phase = "new"
               /\ inst'[i].phase # "gone" => inst[i].gen <= inst'[i].gen
    <2>1. CASE j # i \/ SyncInstance(j)
      BY <1>3, <1>n, <2>1 DEF CreateInstance, UpdateSpec, DeleteInstance, SyncInstance
    <2>2. CASE CreateInstance(i)
      <3>1. inst[i].phase = "new" /\ inst[i].gen = 1 /\ inst'[i].gen = 1
        BY <2>2 DEF CreateInstance, CreatedObject, NewObject, ViewsSound, InstancesBehind
      <3> QED
        BY <1>n, <3>1
    <2>3. CASE UpdateSpec(i)
      <3>1. inst'[i].phase = inst[i].phase /\ inst'[i].gen = inst[i].gen + 1
        BY <2>3 DEF UpdateSpec, InstanceObjects
      <3> QED
        BY <1>n, <3>1
    <2>4. CASE DeleteInstance(i)
      <3>1. inst'[i] = GoneObject \/ (inst'[i].phase = inst[i].phase /\ inst'[i].gen = inst[i].gen)
        BY <2>4 DEF DeleteInstance, InstanceObjects
      <3> QED
        BY <1>n, <3>1 DEF GoneObject, NewObject
    <2> QED
      BY <1>3, <2>1, <2>2, <2>3, <2>4
  <1> QED
    BY <1>1, <1>2, <1>3, InstancesKept

\* An InstallPlan that was made stays so.
LEMMA PlanPhases ==
    ASSUME OwnershipInv, [Next]_vars, NEW p \in Plans, plans'[p].phase = "none"
    PROVE  plans'[p] = plans[p]
  <1> USE DEF OwnershipInv, TypeOK, ClusterTypeOK
  <1>1. CASE UNCHANGED planVars \/ Restart \/ SyncPlans
    BY <1>1 DEF planVars, Restart, SyncPlans
  <1>2. CASE ApproveOLSOperatorInstallPlan
    <2>1. CASE plans' = plans
      BY <2>1
    <2>2. CASE plans' # plans
      <3>1. PICK q \in MatchingPlans : /\ cplans[q] = plans[q]
                                       /\ plans' = [plans EXCEPT ![q].approved = TRUE]
        BY <1>2, <2>2 DEF ApproveOLSOperatorInstallPlan
      <3>2. q \in Plans /\ plans[q].phase # "none"
        BY <3>1 DEF MatchingPlans, PlanExists
      <3>3. plans'[q].phase = plans[q].phase
        BY <3>1, <3>2 DEF InstallPlans
      <3> QED
        BY <3>1, <3>2, <3>3
    <2> QED
      BY <2>1, <2>2
  <1>3. CASE DeleteOLSOperatorInstallPlan
    <2>1. CASE plans' = plans
      BY <2>1
    <2>2. CASE plans' # plans
      <3>1. PICK q \in MatchingPlans : plans' = [plans EXCEPT ![q].phase = "deleted"]
        BY <1>3, <2>2 DEF DeleteOLSOperatorInstallPlan
      <3>2. q \in Plans
        BY DEF MatchingPlans
      <3>3. plans'[q].phase = "deleted"
        BY <3>1, <3>2 DEF InstallPlans
      <3> QED
        BY <3>1, <3>2, <3>3
    <2> QED
      BY <2>1, <2>2
  <1>4. ASSUME NEW i \in Instances, OLMCreatesPlan(i) \/ OLMCreatesUpgradePlan(i)
        PROVE  plans'[p] = plans[p]
    <2>1. PICK w : AddPlan(NewPlan(i, w))
      BY <1>4 DEF OLMCreatesPlan, OLMCreatesUpgradePlan
    <2>2. PICK q \in Plans : plans' = [plans EXCEPT ![q] = NewPlan(i, w)]
      BY <2>1 DEF AddPlan
    <2>3. NewPlan(i, w).phase = "pending"
      BY DEF NewPlan
    <2> QED
      BY <2>2, <2>3
  <1>5. ASSUME NEW q \in Plans, OLMExecutesPlan(q) PROVE plans'[p] = plans[p]
    <2>1. plans' = [plans EXCEPT ![q].phase = "complete"]
      BY <1>5 DEF OLMExecutesPlan
    <2>2. plans'[q].phase = "complete"
      BY <2>1 DEF InstallPlans
    <2> QED
      BY <2>1, <2>2
  <1> QED
    BY <1>1, <1>2, <1>3, <1>4, <1>5, PlansKept

\* The OLSConfig kind stays known.
LEMMA KindStays ==
    ASSUME TypeOK, [Next]_vars, crd
    PROVE  crd'
  <1>1. CASE UNCHANGED vars
    BY <1>1 DEF vars, clusterVars, csvVars
  <1>2. CASE FrameStep
    <2>1. ASSUME NEW i \in Instances, Reconcile(i) \/ ReconcileNotFound(i)
          PROVE  UNCHANGED crd
      BY <2>1 DEF Reconcile, ReconcileNotFound, csvVars
    <2> QED
      BY <1>2, <2>1
      DEF FrameStep, Resolve, PatchMetadata, PatchStatus, clusterVars, csvVars
  <1>3. CASE InstallStep \/ SubscriptionResponseLost
    BY <1>3 DEF InstallStep, EnsureOLSOperatorInstalled, CheckSubscription,
                WriteSubscription, ApproveOLSOperatorInstallPlan, FindCSVToOwn, OwnCSV,
                CompleteInstall, SubscriptionResponseLost, clusterVars, csvVars
  <1>4. CASE UninstallStep
    BY <1>4 DEF UninstallStep, FindCSVToUninstall, DeleteOLSOperatorInstallPlan, DeleteCSV,
                CheckUninstalled, clusterVars, csvVars
  <1>5. CASE ConfigStep \/ ConfigResponseLost
    BY <1>5 DEF ConfigStep, GetOLSConfig, WriteOLSConfig, IsOLSConfigReady, OLSConfigPing,
                UpdatePingLabel, ConfigResponseLost, clusterVars, csvVars
  <1>6. CASE RemoveStep
    BY <1>6 DEF RemoveStep, FindOLSConfigToRemove, CheckOLSConfigOwner, RemoveOwnFinalizer,
                DeleteOLSConfig, CheckOLSConfigRemoved, clusterVars, csvVars
  <1>7. CASE CallFails \/ Restart
    BY <1>7 DEF CallFails, Restart, csvVars
  <1>8. CASE UserStep
    BY <1>8 DEF UserStep, CreateInstance, UpdateSpec, DeleteInstance, UserInstallsOLS,
                UserUninstallsOLS, UserCreatesConfig, UserDeletesConfig, UpgradeOCP, csvVars
  <1>9. CASE OLMStep \/ OLSStep
    BY <1>9 DEF OLMStep, OLMCreatesPlan, OLMCreatesUpgradePlan, OLMLinksPlan,
                OLMExecutesPlan, CollectSubscription,
                OLMDeploysCSV, OLMReportsCSVFailed, OLMRemovesCSV, OLSStep, OLSReconciles,
                OLSRollsOut, OLSFinalizes, csvVars
  <1>10. CASE SyncStep
    BY <1>10 DEF SyncStep, SyncInstance, TimerFires, SyncSubscription, SyncPlans, csvVars
  <1> QED
    BY <1>1, <1>2, <1>3, <1>4, <1>5, <1>6, <1>7, <1>8, <1>9, <1>10
    DEF Next, WorkerStep, ClusterStep

\* The spec of the OLSConfig is what the worker or a user has written.
LEMMA ContentKept ==
    ASSUME OwnershipInv, [Next]_vars
    PROVE  \/ cfg' = NoOLSConfig
           \/ cfg'.exists = cfg.exists /\ cfg'.want = cfg.want
           \/ pc = "cfgWrite" /\ ConfigWritten(PatchOLSConfig(seenCfg))
           \/ UserCreatesConfig
  <1> USE DEF OwnershipInv, TypeOK, ClusterTypeOK
  <1>1. CASE UNCHANGED cfg
    BY <1>1
  <1>2. CASE WriteOLSConfig \/ ConfigResponseLost
    BY <1>2 DEF WriteOLSConfig, ConfigResponseLost
  <1>3. CASE UpdatePingLabel
    BY <1>3 DEF UpdatePingLabel, OLSConfigs
  <1>4. CASE RemoveOwnFinalizer
    <2> DEFINE c == [cfg EXCEPT !.fins = RemainingFinalizers, !.dirty = TRUE]
    <2>1. cfg' \in {cfg, c, NoOLSConfig}
      BY <1>4 DEF RemoveOwnFinalizer, Released
    <2>2. c.exists = cfg.exists /\ c.want = cfg.want
      BY DEF OLSConfigs
    <2> HIDE DEF c
    <2> QED
      BY <2>1, <2>2
  <1>5. CASE DeleteOLSConfig \/ UserDeletesConfig
    <2> DEFINE c == [cfg EXCEPT !.deleting = TRUE]
    <2>1. cfg' \in {cfg, c, NoOLSConfig}
      BY <1>5 DEF DeleteOLSConfig, UserDeletesConfig, Released
    <2>2. c.exists = cfg.exists /\ c.want = cfg.want
      BY DEF OLSConfigs
    <2> HIDE DEF c
    <2> QED
      BY <2>1, <2>2
  <1> QED
    BY <1>1, <1>2, <1>3, <1>4, <1>5, ConfigKept, OthersKeepContent

-----------------------------------------------------------------------------
(* The parts of the invariant that hold in any run.                        *)

\* What does not exist yet is left alone.
LEMMA ObjectsKept ==
    ASSUME SettledInv, [Next]_vars
    PROVE  ObjectsSound'
  <1> USE DEF SettledInv, OwnershipInv, TypeOK, ClusterTypeOK
  <1>1. ASSUME NEW i \in Instances, inst'[i].phase = "new" PROVE sub'[i] = NoSubscription
    <2>0. inst[i].phase = "new" /\ ~NoSubscription.exists
      BY <1>1, GenerationsGrow DEF NoSubscription
    <2>1. inst[i].phase = "new" /\ sub[i] = NoSubscription /\ ~sub[i].exists
      BY <2>0 DEF ObjectsSound
    <2>2. CASE WriteSubscription \/ SubscriptionResponseLost
      <3>1. cur # i
        <4>1. pc # "idle"
          BY <2>2 DEF WriteSubscription, SubscriptionResponseLost
        <4> QED
          BY <2>1, <4>1 DEF CopyBehind
      <3> QED
        BY <2>1, <2>2, <3>1
        DEF WriteSubscription, SubscriptionResponseLost, SubscriptionWritten
    <2>3. CASE UNCHANGED subVars \/ Restart
      BY <2>1, <2>3 DEF subVars, Restart
    <2>4. ASSUME NEW j \in Instances, SyncSubscription(j) \/ CollectSubscription(j)
          PROVE  sub'[i] = NoSubscription
      BY <2>1, <2>4 DEF SyncSubscription, CollectSubscription
    <2>5. ASSUME NEW j \in Instances, NEW p \in Plans, OLMLinksPlan(j, p)
          PROVE  sub'[i] = NoSubscription
      BY <2>1, <2>5 DEF OLMLinksPlan
    <2> QED
      BY <2>2, <2>3, <2>4, <2>5, SubscriptionsKept
  <1>2. ASSUME NEW p \in Plans, plans'[p].phase = "none" PROVE plans'[p] = NoInstallPlan
    BY <1>2, PlanPhases DEF ObjectsSound
  <1>3. ASSUME csv'.exists PROVE crd'
    <2>1. CASE csv.exists
      BY <2>1, KindStays DEF ObjectsSound
    <2>2. CASE ~csv.exists
      <3>1. ~UNCHANGED csv
        BY <1>3, <2>2
      <3>2. ~OwnCSV /\ ~DeleteCSV
        BY <2>2, <3>1 DEF OwnCSV, DeleteCSV, SeenCSVGone
      <3> QED
        BY <2>2, <3>1, <3>2, CSVKept
        DEF UserInstallsOLS, UserUninstallsOLS, OLMDeploysCSV, OLMReportsCSVFailed,
            OLMRemovesCSV, OLMExecutesPlan
    <2> QED
      BY <2>1, <2>2
  <1>4. ASSUME ~cfg'.exists PROVE cfg'.want = NoContent
    <2>1. CASE pc = "cfgWrite" /\ ConfigWritten(PatchOLSConfig(seenCfg))
      <3>1. PatchOLSConfig(seenCfg).exists /\ PatchOLSConfig(seenCfg) \in OLSConfigs
        <4>1. cur \in Instances /\ seenCfg \in OLSConfigs
          BY <2>1 DEF WorkerTypeOK, Owners
        <4> QED
          BY <4>1, PatchedConfigTypes DEF PatchOLSConfig, OLSConfigs
      <3> QED
        BY <1>4, <2>1, <3>1 DEF ConfigWritten, PatchedConfig, OLSConfigs
    <2>2. CASE UserCreatesConfig
      BY <1>4, <2>2 DEF UserCreatesConfig, NoOLSConfig
    <2> QED
      BY <1>4, <2>1, <2>2, ContentKept DEF ObjectsSound, NoOLSConfig
  <1>5. ASSUME pc' = "cfgWrite", ~seenCfg'.exists PROVE seenCfg'.want = NoContent
    <2>1. CASE UNCHANGED workerVars
      BY <1>5, <2>1 DEF workerVars, ObjectsSound
    <2>2. CASE GetOLSConfig
      <3>1. seenCfg' = cfg
        BY <1>5, <2>2 DEF GetOLSConfig, ReturnConfigError, Return
      <3> QED
        BY <1>5, <3>1 DEF ObjectsSound
    <2> QED
      BY <1>5, <2>1, <2>2, SeenConfigKept
  <1> QED
    BY <1>1, <1>2, <1>3, <1>4, <1>5 DEF ObjectsSound

\* The worker's copy does not overtake the instance.
LEMMA CopyStaysBehind ==
    ASSUME SettledInv, [Next]_vars
    PROVE  CopyBehind'
  <1> USE DEF SettledInv
  <1> SUFFICES ASSUME pc' # "idle"
               PROVE  /\ inst'[cur'].phase # "new"
                      /\ inst'[cur'].phase # "gone" => obj'.gen <= inst'[cur'].gen
    BY DEF CopyBehind
  <1>1. ASSUME NEW i \in Instances, Reconcile(i)
        PROVE  /\ inst'[cur'].phase # "new"
               /\ inst'[cur'].phase # "gone" => obj'.gen <= inst'[cur'].gen
    <2>1. cur' = i /\ inst' = inst /\ cinst[i].phase = "live"
      BY <1>1 DEF Reconcile, Cached, instVars
    <2>2. obj'.gen = cinst[i].gen
      BY <1>1 DEF Reconcile, OwnershipInv, TypeOK, ClusterTypeOK, InstanceObjects
    <2>3. NewObject.phase = "new"
      BY DEF NewObject
    <2> QED
      BY <2>1, <2>2, <2>3 DEF ViewsSound, InstancesBehind
  <1>2. CASE pc # "idle" /\ UNCHANGED <<cur, before>>
    <2>1. cur \in Instances
      BY <1>2 DEF OwnershipInv, TypeOK, WorkerTypeOK, Owners
    <2>2. /\ inst'[cur].phase = "new" => inst[cur].phase = "new"
          /\ inst'[cur].phase # "gone" => inst[cur].gen <= inst'[cur].gen
          /\ inst[cur].phase = "gone" => inst'[cur].phase = "gone"
      BY <2>1, GenerationsGrow, InstanceViews
    <2>3. obj'.gen = obj.gen
      BY <1>2, ObjectKept
    <2>4. inst[cur].phase # "new" /\ (inst[cur].phase # "gone" => obj.gen <= inst[cur].gen)
      BY <1>2 DEF CopyBehind
    <2>5. obj.gen \in Nat /\ inst[cur].gen \in Nat
      BY <2>1, ConstantTypes
      DEF OwnershipInv, TypeOK, ClusterTypeOK, WorkerTypeOK, InstanceObjects
    <2>6. inst'[cur].gen \in Nat
      <3>1. TypeOK'
        BY NextType DEF OwnershipInv
      <3> QED
        BY <2>1, <3>1, ConstantTypes DEF TypeOK, ClusterTypeOK, InstanceObjects
    <2> QED
      BY <1>2, <2>2, <2>3, <2>4, <2>5, <2>6
  <1> QED
    BY <1>1, <1>2, CopyKept

-----------------------------------------------------------------------------
(* The finalizers of the OLSConfig.                                        *)

\* The hypothesis of the invariant is one about the whole past.
LEMMA UncontestedBefore ==
    ASSUME OwnershipInv, ViewsSound, [Next]_vars, Uncontested'
    PROVE  /\ Uncontested
           /\ pc \notin RemoveLabels \cup UninstallLabels
           /\ ~UserInstallsOLS /\ ~UserCreatesConfig /\ ~UserDeletesConfig
  <1>1. userActs = 0 /\ userActs' = 0
    <2>1. userActs <= userActs' /\ userActs' = 0
      BY QueueKept DEF OwnershipInv, Uncontested
    <2> QED
      BY <2>1 DEF OwnershipInv, TypeOK, ClusterTypeOK
  <1>2. \A j \in Instances : ~Doomed(j)
    BY InstanceViews DEF Uncontested
  <1>3. ASSUME pc \in RemoveLabels \cup UninstallLabels PROVE FALSE
    <2>1. cur \in Instances /\ Doomed(cur)
      BY <1>3, RemoverDeleting DEF OwnershipInv, ClusterSound, CopiesSound
    <2> QED
      BY <1>2, <2>1
  <1> QED
    BY <1>1, <1>2, <1>3
    DEF Uncontested, UserInstallsOLS, UserCreatesConfig, UserDeletesConfig

\* The worker reports what the OLS operator has reported.
LEMMA ReportsReady ==
    ASSUME OwnershipInv, [Next]_vars, pc' \in PatchLabels, obj'.status.conds.ols = "True"
    PROVE  \/ pc \in PatchLabels /\ obj.status.conds.ols = "True"
           \/ cfg.overall /\ cfg' = cfg
  <1> USE DEF OwnershipInv
  <1>t. obj \in InstanceObjects /\ obj.status \in Status /\ obj.status.conds \in Conds
    BY DEF TypeOK, WorkerTypeOK, InstanceObjects, Status
  <1>p. pc' # "idle"
    BY DEF PatchLabels
  <1>w. pc \notin {"idle"} \cup PatchLabels => obj.status.conds.ols # "True"
    BY DEF ProgressSound, ReportSound
  <1>r. ASSUME \/ ReturnOperatorError("UserInstalled") \/ ReturnOperatorError("Error")
               \/ ReturnOperatorWait \/ ReturnConfigError \/ ReturnRetry
               \/ ReturnDeleted
        PROVE  obj.status.conds.ols = "True"
    BY <1>t, <1>r DEF ReturnOperatorError, ReturnOperatorWait, ReturnConfigError,
                      ReturnRetry, ReturnDeleted, Return, InstanceObjects, Status, Conds
  <1>a. ASSUME NEW detected, pc = "resolve",
               AfterResolve([obj EXCEPT !.status = resolveOCPVersion(@, spec, detected)])
        PROVE  FALSE
    <2> DEFINE s == resolveOCPVersion(obj.status, spec, detected)
               o == [obj EXCEPT !.status = s]
    <2>1. s.conds.ols = obj.status.conds.ols
      BY <1>t, ResolutionFields
    <2>2. o.status = s /\ [o EXCEPT !.fin = TRUE].status = s
      BY <1>t DEF InstanceObjects
    <2>3. obj' \in {o, [o EXCEPT !.fin = TRUE]}
      BY <1>a DEF AfterResolve, Return
    <2> HIDE DEF s, o
    <2> QED
      BY <1>a, <1>w, <2>1, <2>2, <2>3 DEF PatchLabels
  <1>1. CASE UNCHANGED workerVars
    BY <1>1 DEF workerVars
  <1>2. CASE FrameStep
    <2>1. CASE PatchMetadata
      <3>1. obj'.status.conds = SummarizeReady(obj.status.conds)
        BY <1>t, <2>1 DEF PatchMetadata, InstanceObjects, Status
      <3>2. obj'.status.conds.ols = obj.status.conds.ols
        BY <1>t, <3>1 DEF SummarizeReady, Conds
      <3> QED
        BY <2>1, <3>2 DEF PatchMetadata, PatchLabels
    <2>2. ASSUME NEW i \in Instances, Reconcile(i) \/ ReconcileNotFound(i) PROVE FALSE
      BY <2>2 DEF Reconcile, ReconcileNotFound, workerVars, PatchLabels
    <2>3. ~Resolve
      BY <1>a DEF Resolve
    <2>4. ~PatchStatus
      BY DEF PatchStatus, Done, PatchLabels
    <2> QED
      BY <1>2, <2>1, <2>2, <2>3, <2>4 DEF FrameStep
  <1>3. CASE InstallStep \/ SubscriptionResponseLost
    <2>1. pc \notin {"idle"} \cup PatchLabels
      BY <1>3 DEF InstallStep, EnsureOLSOperatorInstalled, CheckSubscription,
                  WriteSubscription, ApproveOLSOperatorInstallPlan, FindCSVToOwn, OwnCSV,
                  CompleteInstall, SubscriptionResponseLost, PatchLabels
    <2>2. ~(\/ ReturnOperatorError("UserInstalled") \/ ReturnOperatorError("Error")
            \/ ReturnOperatorWait)
      BY <1>r, <1>w, <2>1
    <2> QED
      BY <1>3, <2>2 DEF InstallStep, EnsureOLSOperatorInstalled, CheckSubscription,
                  WriteSubscription, ApproveOLSOperatorInstallPlan, FindCSVToOwn, OwnCSV,
                  CompleteInstall, SubscriptionResponseLost, Goto, PatchLabels
  <1>4. CASE UninstallStep \/ RemoveStep
    <2>1. pc \notin {"idle"} \cup PatchLabels
      BY <1>4 DEF UninstallStep, FindCSVToUninstall, DeleteOLSOperatorInstallPlan,
                  DeleteCSV, CheckUninstalled, RemoveStep, FindOLSConfigToRemove,
                  CheckOLSConfigOwner, RemoveOwnFinalizer, DeleteOLSConfig,
                  CheckOLSConfigRemoved, PatchLabels
    <2>2. ~ReturnRetry /\ ~ReturnDeleted
      BY <1>r, <1>w, <2>1
    <2>3. CASE UninstallStep
      BY <2>2, <2>3 DEF UninstallStep, FindCSVToUninstall, DeleteOLSOperatorInstallPlan,
                  DeleteCSV, CheckUninstalled, Goto, PatchLabels
    <2>4. CASE RemoveStep
      BY <2>2, <2>4 DEF RemoveStep, FindOLSConfigToRemove,
                  CheckOLSConfigOwner, RemoveOwnFinalizer, DeleteOLSConfig,
                  CheckOLSConfigRemoved, Goto, PatchLabels
    <2> QED
      BY <1>4, <2>3, <2>4
  <1>5. CASE ConfigStep \/ ConfigResponseLost
    <2>1. pc \notin {"idle"} \cup PatchLabels
      BY <1>5 DEF ConfigStep, GetOLSConfig, WriteOLSConfig, IsOLSConfigReady,
                  OLSConfigPing, UpdatePingLabel, ConfigResponseLost, PatchLabels
    <2>2. ~ReturnRetry /\ ~ReturnConfigError
      BY <1>r, <1>w, <2>1
    <2> QED
      BY <1>5, <2>2 DEF ConfigStep, GetOLSConfig, WriteOLSConfig, IsOLSConfigReady,
                  OLSConfigPing, UpdatePingLabel, ConfigResponseLost, Goto, PatchLabels,
                  clusterVars
  <1>6. CASE CallFails
    <2>1. pc \in InstallLabels \cup ConfigLabels \cup ReadyLabels \cup RemoveLabels
                   \cup UninstallLabels => pc \notin {"idle"} \cup PatchLabels
      BY DEF InstallLabels, ConfigLabels, ReadyLabels, RemoveLabels, UninstallLabels,
             PatchLabels
    <2>2. ~Done
      BY <1>p DEF Done
    <2> QED
      BY <1>6, <1>a, <1>r, <1>w, <2>1, <2>2 DEF CallFails
  <1>7. ~Restart
    BY <1>p DEF Restart
  <1> QED
    BY <1>1, <1>2, <1>3, <1>4, <1>5, <1>6, <1>7 DEF Next, WorkerStep, vars

\* An instance becomes Ready through the deferred function alone.
LEMMA ReadyReported ==
    ASSUME OwnershipInv, [Next]_vars, NEW i \in Instances, Ready(i)'
    PROVE  \/ Ready(i)
           \/ PatchStatus /\ cur = i /\ obj.status.conds.ready = "True"
  <1> USE DEF OwnershipInv, TypeOK, ClusterTypeOK, Ready, Live
  <1>1. CASE UNCHANGED instVars \/ Restart
    BY <1>1 DEF instVars, Restart
  <1>2. CASE PatchMetadata
    BY <1>2 DEF PatchMetadata, InstanceObjects, GoneObject, NewObject
  <1>3. CASE PatchStatus
    <2>1. CASE inst'[i] = inst[i]
      BY <2>1
    <2>2. CASE inst'[i] # inst[i]
      <3> DEFINE s == MergePatch(before.status, obj.status, inst[i].status)
      <3>1. cur = i /\ inst[i].phase = "live" /\ inst' = [inst EXCEPT ![i].status = s]
        BY <1>3, <2>2 DEF PatchStatus
      <3>2. s.conds = inst[i].status.conds \/ s.conds = obj.status.conds
        BY DEF MergePatch, InstanceObjects, Status
      <3> HIDE DEF s
      <3>3. inst'[i].status = s
        BY <3>1 DEF InstanceObjects
      <3> QED
        BY <1>3, <3>1, <3>2, <3>3
    <2> QED
      BY <2>1, <2>2
  <1>4. ASSUME NEW j \in Instances,
               \/ CreateInstance(j) \/ UpdateSpec(j) \/ DeleteInstance(j) \/ SyncInstance(j)
        PROVE  Ready(i)
    <2>1. CASE j # i \/ SyncInstance(j)
      BY <1>4, <2>1 DEF CreateInstance, UpdateSpec, DeleteInstance, SyncInstance
    <2>2. ~CreateInstance(i)
      <3>1. CreatedObject.status.conds.ready # "True"
        BY DEF CreatedObject, NewObject, NoStatus, NoConds
      <3> QED
        BY <3>1 DEF CreateInstance
    <2>3. CASE UpdateSpec(i)
      <3>1. inst'[i].status = inst[i].status /\ inst'[i].phase = inst[i].phase
        BY <2>3 DEF UpdateSpec, InstanceObjects
      <3> QED
        BY <3>1
    <2>4. CASE DeleteInstance(i)
      <3>1. GoneObject.phase = "gone"
        BY DEF GoneObject, NewObject
      <3>2. inst'[i] = [inst[i] EXCEPT !.deleting = TRUE]
        BY <2>4, <3>1 DEF DeleteInstance
      <3>3. inst'[i].status = inst[i].status /\ inst'[i].phase = inst[i].phase
        BY <3>2 DEF InstanceObjects
      <3> QED
        BY <3>3
    <2> QED
      BY <1>4, <2>1, <2>2, <2>3, <2>4
  <1> QED
    BY <1>1, <1>2, <1>3, <1>4, InstancesKept

\* Nobody takes a finalizer from an OLSConfig that nobody removes.
LEMMA FinalizersKept ==
    ASSUME SettledInv, [Next]_vars
    PROVE  FinalizersSound'
  <1> USE DEF SettledInv
  <1> SUFFICES ASSUME Uncontested'
               PROVE  /\ Whole(cfg')
                      /\ pc' = "cfgWrite" => Whole(seenCfg')
                      /\ pc' \in PatchLabels /\ obj'.status.conds.ols = "True" =>
                            "ols" \in cfg'.fins
                      /\ \A i \in Instances : Ready(i)' => "ols" \in cfg'.fins
    BY DEF FinalizersSound, Whole
  <1>u. /\ Uncontested
        /\ pc \notin RemoveLabels \cup UninstallLabels
        /\ ~UserInstallsOLS /\ ~UserCreatesConfig /\ ~UserDeletesConfig
    BY UncontestedBefore
  <1>f. /\ Whole(cfg)
        /\ pc = "cfgWrite" => Whole(seenCfg)
        /\ pc \in PatchLabels /\ obj.status.conds.ols = "True" => "ols" \in cfg.fins
        /\ \A i \in Instances : Ready(i) => "ols" \in cfg.fins
    BY <1>u DEF FinalizersSound
  <1>t. cfg \in OLSConfigs /\ seenCfg \in OLSConfigs
    BY DEF OwnershipInv, TypeOK, ClusterTypeOK, WorkerTypeOK
  <1>1. Whole(cfg') /\ (cfg.exists /\ "ols" \in cfg.fins => "ols" \in cfg'.fins)
    <2>1. CASE UNCHANGED cfg
      BY <1>f, <2>1
    <2>2. CASE pc = "cfgWrite" /\ ConfigWritten(PatchOLSConfig(seenCfg))
      <3> DEFINE new == PatchOLSConfig(seenCfg)
      <3>1. new \in OLSConfigs
        <4>1. cur \in Instances
          BY <2>2 DEF OwnershipInv, TypeOK, WorkerTypeOK, Owners
        <4> QED
          BY <4>1, PatchedConfigTypes DEF OwnershipInv
      <3>2. /\ new.deleting = seenCfg.deleting /\ new.overall = seenCfg.overall
            /\ new.fins = seenCfg.fins \cup {OwnFinalizer}
        BY <1>t DEF PatchOLSConfig, OLSConfigs
      <3>3. Whole(seenCfg)
        BY <1>f, <2>2
      <3> HIDE DEF new
      <3>4. CASE ~cfg.exists /\ cfg' = [new EXCEPT !.dirty = TRUE]
        <4>1. /\ cfg'.deleting = new.deleting /\ cfg'.overall = new.overall
              /\ cfg'.fins = new.fins
          BY <3>1, <3>4 DEF OLSConfigs
        <4> QED
          BY <3>2, <3>3, <3>4, <4>1 DEF Whole
      <3>5. CASE seenCfg.exists /\ cfg' = PatchedConfig(new)
        <4>1. new.fins = seenCfg.fins
          BY <3>2, <3>3, <3>5 DEF Whole
        <4>2. /\ cfg'.deleting = cfg.deleting /\ cfg'.overall = cfg.overall
              /\ cfg'.fins = cfg.fins /\ cfg'.exists = cfg.exists
          BY <1>t, <3>5, <4>1 DEF PatchedConfig, OLSConfigs
        <4> QED
          BY <1>f, <4>2 DEF Whole
      <3> QED
        BY <2>2, <3>4, <3>5 DEF ConfigWritten, new
    <2>3. CASE UpdatePingLabel \/ OLMDeploysCSV \/ OLSRollsOut
      <3>1. /\ cfg'.deleting = cfg.deleting /\ cfg'.overall = cfg.overall
            /\ cfg'.fins = cfg.fins /\ cfg'.exists = cfg.exists
        BY <1>t, <2>3 DEF UpdatePingLabel, OLMDeploysCSV, OLSRollsOut, OLSConfigs
      <3> QED
        BY <1>f, <3>1 DEF Whole
    <2>4. CASE OLSReconciles
      <3>1. /\ cfg'.deleting = cfg.deleting /\ cfg'.exists = cfg.exists
            /\ cfg'.fins = cfg.fins \cup {"ols"}
        BY <1>t, <2>4 DEF OLSReconciles, OLSConfigs
      <3> QED
        BY <1>f, <3>1 DEF Whole
    <2>5. ~OLSFinalizes
      BY <1>f DEF OLSFinalizes, Whole
    <2>6. ~RemoveOwnFinalizer /\ ~DeleteOLSConfig
      BY <1>u DEF RemoveOwnFinalizer, DeleteOLSConfig, RemoveLabels
    <2>7. WriteOLSConfig \/ ConfigResponseLost =>
              UNCHANGED cfg \/ (pc = "cfgWrite" /\ ConfigWritten(PatchOLSConfig(seenCfg)))
      BY DEF WriteOLSConfig, ConfigResponseLost
    <2> QED
      BY <1>u, <2>1, <2>2, <2>3, <2>4, <2>5, <2>6, <2>7, ConfigKept DEF OLSStep
  <1>2. ASSUME pc' = "cfgWrite" PROVE Whole(seenCfg')
    <2>1. CASE UNCHANGED workerVars
      BY <1>2, <1>f, <2>1 DEF workerVars
    <2>2. CASE GetOLSConfig
      <3>1. seenCfg' = cfg
        BY <1>2, <2>2 DEF GetOLSConfig, ReturnConfigError, Return
      <3> QED
        BY <1>f, <3>1
    <2> QED
      BY <1>2, <2>1, <2>2, SeenConfigKept
  <1>3. ASSUME pc \in PatchLabels, obj.status.conds.ols = "True" PROVE "ols" \in cfg'.fins
    <2>1. cur \in Instances /\ cfg.label = cur
      BY <1>3 DEF OwnershipInv, ProgressSound, ReportSound, TypeOK, WorkerTypeOK, Owners,
                  PatchLabels
    <2>2. cfg.exists
      BY <2>1, InstancesAssumption DEF OwnershipInv, ClusterSound, AbsentUnowned
    <2> QED
      BY <1>1, <1>3, <1>f, <2>2
  <1>4. ASSUME pc' \in PatchLabels, obj'.status.conds.ols = "True" PROVE "ols" \in cfg'.fins
    BY <1>3, <1>4, <1>f, ReportsReady DEF Whole
  <1>5. ASSUME NEW i \in Instances, Ready(i)' PROVE "ols" \in cfg'.fins
    <2>1. CASE Ready(i)
      <3>1. ~inst[i].deleting
        BY <1>u, <2>1 DEF Uncontested, Doomed, Ready
      <3>2. cfg.exists
        BY <2>1, <3>1 DEF OwnershipInv, ClusterSound, ReadyOwnsConfig
      <3> QED
        BY <1>1, <1>f, <2>1, <3>2
    <2>2. CASE PatchStatus /\ obj.status.conds.ready = "True"
      <3>1. pc \in PatchLabels /\ obj.status.conds.ols = "True"
        BY <2>2 DEF PatchStatus, OwnershipInv, ProgressSound, ReportSound, PatchLabels
      <3> QED
        BY <1>3, <3>1
    <2> QED
      BY <1>5, <2>1, <2>2, ReadyReported
  <1> QED
    BY <1>1, <1>2, <1>4, <1>5

-----------------------------------------------------------------------------
(* Everything there is comes from the one instance.                        *)

\* The hypothesis of the invariant is one about the whole past.
LEMMA SingleBefore ==
    ASSUME SettledInv, [Next]_vars, NEW i \in Instances, Single(i)'
    PROVE  /\ Single(i) /\ Uncontested' /\ inst'[i].phase # "gone"
           /\ recommended' = recommended
           /\ \A p \in Plans : plans'[p].phase # "none" => p = 1
           /\ \A j \in Instances : inst[j].phase # "new" => j = i
           /\ pc # "idle" => cur = i
  <1> USE DEF SettledInv
  <1>1. SameRecommendation /\ recommended' = recommended
    BY RecommendationKept DEF Single
  <1>2. \A j \in Instances : Doomed(j)' => j = i
    BY DEF Single, Doomed, Live
  <1>3. Uncontested' /\ inst'[i].phase # "gone"
    BY <1>2 DEF Uncontested, Single, Doomed
  <1>4. Uncontested
    BY <1>3, UncontestedBefore
  <1>5. \A j \in Instances \ {i} : inst[j].phase = "new"
    BY GenerationsGrow DEF Single
  <1>6. \A p \in Plans \ {1} : plans[p].phase = "none"
    BY PlanPhases DEF Single
  <1>7. Single(i)
    BY <1>1, <1>4, <1>5, <1>6 DEF Single, Uncontested
  <1>8. pc # "idle" => cur = i
    BY <1>5 DEF CopyBehind, OwnershipInv, TypeOK, WorkerTypeOK, Owners
  <1> QED
    BY <1>1, <1>3, <1>5, <1>7, <1>8 DEF Single

\* The Subscription asks for the recommended version and is linked to the first
\* InstallPlan.
LEMMA SubscriptionMade ==
    ASSUME SettledInv, [Next]_vars, NEW i \in Instances, Single(i)'
    PROVE  /\ sub'[i].exists => sub'[i].startingCSV = GetRecommendedOLSVersion'
           /\ sub'[i].planRef \in {NoPlan, 1}
  <1> USE DEF OwnershipInv, TypeOK, ClusterTypeOK
  <1>s. /\ MadeFor(i) /\ inst'[i].phase # "gone" /\ (pc # "idle" => cur = i)
        /\ \A j \in Instances : inst[j].phase # "new" => j = i
    BY SingleBefore DEF SettledInv
  <1>v. GetRecommendedOLSVersion' = GetRecommendedOLSVersion
    BY SingleBefore DEF GetRecommendedOLSVersion
  <1>m. /\ sub[i].exists => sub[i].startingCSV = GetRecommendedOLSVersion
        /\ sub[i].planRef \in {NoPlan, 1}
        /\ \A p \in Plans : plans[p].phase # "none" => p = 1
    BY <1>s DEF MadeFor
  <1>t. sub[i] \in Subscriptions /\ sub \in [Instances -> Subscriptions]
    BY DEF SettledInv
  <1>1. CASE sub'[i] = sub[i]
    BY <1>1, <1>m, <1>v
  <1>2. CASE WriteSubscription \/ SubscriptionResponseLost
    <2>1. cur = i
      BY <1>2, <1>s DEF WriteSubscription, SubscriptionResponseLost
    <2>2. sub' = sub \/ sub' = [sub EXCEPT ![i] = DesiredSubscription(@)]
      BY <1>2, <2>1 DEF WriteSubscription, SubscriptionResponseLost, SubscriptionWritten
    <2>3. /\ DesiredSubscription(sub[i]).startingCSV = GetRecommendedOLSVersion
          /\ DesiredSubscription(sub[i]).planRef = sub[i].planRef
      BY DEF DesiredSubscription
    <2> QED
      BY <1>1, <1>m, <1>t, <1>v, <2>2, <2>3
  <1>3. ASSUME NEW j \in Instances, SyncSubscription(j) \/ CollectSubscription(j)
        PROVE  sub'[i] = sub[i]
    <2>1. CASE SyncSubscription(j)
      BY <2>1 DEF SyncSubscription
    <2>2. CASE CollectSubscription(j)
      <3>1. inst[j].phase = "gone" /\ inst'[j].phase = "gone"
        BY <2>2 DEF CollectSubscription, instVars
      <3> QED
        BY <1>s, <3>1
    <2> QED
      BY <1>3, <2>1, <2>2
  <1>4. ASSUME NEW j \in Instances, NEW p \in Plans, OLMLinksPlan(j, p)
        PROVE  sub'[i] = sub[i] \/ (/\ sub'[i].planRef = 1 /\ sub'[i].exists = sub[i].exists
                                    /\ sub'[i].startingCSV = sub[i].startingCSV)
    <2>1. p = 1 /\ sub' = [sub EXCEPT ![j].planRef = p]
      BY <1>4, <1>m DEF OLMLinksPlan, PlanExists
    <2> QED
      BY <1>t, <2>1 DEF Subscriptions
  <1> QED
    BY <1>1, <1>2, <1>3, <1>4, <1>m, <1>v, SubscriptionsKept DEF subVars, Restart

\* The InstallPlan is for the recommended version, and stays executed.
LEMMA PlanMade ==
    ASSUME SettledInv, [Next]_vars, NEW i \in Instances, Single(i)'
    PROVE  /\ \A p \in Plans : plans'[p].phase # "none" =>
                  p = 1 /\ plans'[p].version = SettledVersion' /\ plans'[p].via = i
           /\ 1 \in Plans /\ plans[1].phase = "complete" /\ plans[1].approved =>
                  plans'[1].phase = "complete" /\ plans'[1].approved
  <1> USE DEF OwnershipInv, TypeOK, ClusterTypeOK, SettledInv
  <1>s. /\ MadeFor(i) /\ Uncontested' /\ Single(i)
        /\ \A p \in Plans : plans'[p].phase # "none" => p = 1
        /\ \A j \in Instances : inst[j].phase # "new" => j = i
    BY SingleBefore
  <1>v. SettledVersion' = SettledVersion
    BY SingleBefore DEF SettledVersion, GetRecommendedOLSVersion
  <1>m. \A p \in Plans : plans[p].phase # "none" =>
            p = 1 /\ plans[p].version = SettledVersion /\ plans[p].via = i
    BY <1>s DEF MadeFor
  <1>t. plans \in [Plans -> InstallPlans]
    OBVIOUS
  <1> DEFINE Kin(p) ==
                /\ plans[p].phase # "none"
                /\ plans'[p].version = plans[p].version /\ plans'[p].via = plans[p].via
                /\ plans[p].phase = "complete" => plans'[p].phase = "complete"
                /\ plans[p].approved => plans'[p].approved
             Grows == \A p \in Plans : Kin(p) \/ plans'[p] = plans[p]
             Goal == /\ \A p \in Plans : plans'[p].phase # "none" =>
                            plans'[p].version = SettledVersion /\ plans'[p].via = i
                     /\ 1 \in Plans /\ plans[1].phase = "complete" /\ plans[1].approved =>
                            plans'[1].phase = "complete" /\ plans'[1].approved
  <1> SUFFICES Goal
    BY <1>s, <1>v
  <1>g. ASSUME Grows PROVE Goal
    BY <1>g, <1>m
  <1>1. CASE UNCHANGED planVars \/ Restart \/ SyncPlans
    BY <1>1, <1>g DEF planVars, Restart, SyncPlans
  <1>2. CASE ApproveOLSOperatorInstallPlan
    <2>1. CASE plans' = plans
      BY <1>g, <2>1
    <2>2. CASE plans' # plans
      <3>1. PICK q \in MatchingPlans : /\ cplans[q] = plans[q]
                                       /\ plans' = [plans EXCEPT ![q].approved = TRUE]
        BY <1>2, <2>2 DEF ApproveOLSOperatorInstallPlan
      <3>2. q \in Plans /\ plans[q].phase # "none"
        BY <3>1 DEF MatchingPlans, PlanExists
      <3>3. /\ plans'[q].phase = plans[q].phase /\ plans'[q].version = plans[q].version
            /\ plans'[q].via = plans[q].via /\ plans'[q].approved
            /\ \A p \in Plans : p # q => plans'[p] = plans[p]
        BY <1>t, <3>1, <3>2 DEF InstallPlans
      <3>4. Grows
        BY <3>2, <3>3
      <3> QED
        BY <1>g, <3>4
    <2> QED
      BY <2>1, <2>2
  <1>3. ~DeleteOLSOperatorInstallPlan
    BY <1>s, UncontestedBefore DEF DeleteOLSOperatorInstallPlan, UninstallLabels
  <1>4. ASSUME NEW j \in Instances, OLMCreatesPlan(j) PROVE Goal
    <2> DEFINE w == IF sub[j].startingCSV = NoVersion THEN Catalog[Len(Catalog)]
                                                      ELSE sub[j].startingCSV
    <2>1. sub[j].exists /\ AddPlan(NewPlan(j, w))
      BY <1>4 DEF OLMCreatesPlan
    <2>2. j = i
      <3>1. ~NoSubscription.exists
        BY DEF NoSubscription
      <3> QED
        BY <1>s, <2>1, <3>1 DEF ObjectsSound
    <2>3. w = SettledVersion
      BY <1>s, <2>1, <2>2 DEF MadeFor, SettledVersion
    <2> HIDE DEF w
    <2>4. PICK q \in Plans : plans[q].phase = "none" /\ plans' = [plans EXCEPT ![q] = NewPlan(j, w)]
      BY <2>1 DEF AddPlan
    <2>5. NewPlan(j, w).version = SettledVersion /\ NewPlan(j, w).via = i
      BY <2>2, <2>3 DEF NewPlan
    <2> QED
      BY <1>m, <1>t, <2>4, <2>5
  <1>5. ASSUME NEW j \in Instances, OLMCreatesUpgradePlan(j) PROVE FALSE
    <2>1. csv.exists
      BY <1>5 DEF OLMCreatesUpgradePlan
    <2>2. 1 \in Plans /\ plans[1].phase = "complete"
      BY <1>s, <2>1 DEF MadeFor
    <2>3. PICK w : AddPlan(NewPlan(j, w))
      BY <1>5 DEF OLMCreatesUpgradePlan
    <2>4. PICK q \in Plans : plans[q].phase = "none" /\ plans' = [plans EXCEPT ![q] = NewPlan(j, w)]
      BY <2>3 DEF AddPlan
    <2>5. plans'[q].phase = "pending"
      BY <1>t, <2>4 DEF NewPlan
    <2> QED
      BY <1>s, <2>2, <2>4, <2>5
  <1>6. ASSUME NEW q \in Plans, OLMExecutesPlan(q) PROVE Goal
    <2>1. plans[q].phase = "pending" /\ plans' = [plans EXCEPT ![q].phase = "complete"]
      BY <1>6 DEF OLMExecutesPlan
    <2>2. /\ plans'[q].version = plans[q].version /\ plans'[q].via = plans[q].via
          /\ plans'[q].approved = plans[q].approved
          /\ \A p \in Plans : p # q => plans'[p] = plans[p]
      BY <1>t, <2>1 DEF InstallPlans
    <2>3. Grows
      BY <2>1, <2>2
    <2> QED
      BY <1>g, <2>3
  <1> QED
    BY <1>1, <1>2, <1>3, <1>4, <1>5, <1>6, PlansKept

\* The CSV is the one that the InstallPlan brought.
LEMMA CSVMade ==
    ASSUME SettledInv, [Next]_vars, NEW i \in Instances, Single(i)', csv'.exists
    PROVE  /\ 1 \in Plans /\ plans'[1].phase = "complete" /\ plans'[1].approved
           /\ csv'.version = SettledVersion' /\ csv'.via = i
  <1> USE DEF OwnershipInv, TypeOK, ClusterTypeOK, SettledInv
  <1>s. MadeFor(i) /\ Uncontested' /\ Single(i)
    BY SingleBefore
  <1>v. SettledVersion' = SettledVersion
    BY SingleBefore DEF SettledVersion, GetRecommendedOLSVersion
  <1>m. /\ \A p \in Plans : plans[p].phase # "none" =>
               p = 1 /\ plans[p].version = SettledVersion /\ plans[p].via = i
        /\ csv.exists =>
               /\ 1 \in Plans /\ plans[1].phase = "complete" /\ plans[1].approved
               /\ csv.version = SettledVersion /\ csv.via = i
    BY <1>s DEF MadeFor
  <1>k. ASSUME csv.exists, csv'.version = csv.version, csv'.via = csv.via
        PROVE  /\ 1 \in Plans /\ plans'[1].phase = "complete" /\ plans'[1].approved
               /\ csv'.version = SettledVersion /\ csv'.via = i
    BY <1>k, <1>m, PlanMade
  <1>1. CASE UNCHANGED csv
    BY <1>1, <1>k, <1>v
  <1>2. CASE OwnCSV \/ DeleteCSV
    <2>1. csv'.exists = csv.exists /\ csv'.version = csv.version /\ csv'.via = csv.via
      BY <1>2 DEF OwnCSV, DeleteCSV, CSVs
    <2> QED
      BY <1>k, <1>v, <2>1
  <1>3. CASE UserUninstallsOLS \/ OLMDeploysCSV \/ OLMReportsCSVFailed
    <2>1. csv'.exists = csv.exists /\ csv'.version = csv.version /\ csv'.via = csv.via
      BY <1>3 DEF UserUninstallsOLS, OLMDeploysCSV, OLMReportsCSVFailed, CSVs
    <2> QED
      BY <1>k, <1>v, <2>1
  <1>4. ~UserInstallsOLS /\ ~OLMRemovesCSV
    <2>1. ~NoCSV.exists
      BY DEF NoCSV
    <2> QED
      BY <1>s, <2>1, UncontestedBefore DEF OLMRemovesCSV
  <1>5. ASSUME NEW p \in Plans, OLMExecutesPlan(p)
        PROVE  /\ 1 \in Plans /\ plans'[1].phase = "complete" /\ plans'[1].approved
               /\ csv'.version = SettledVersion' /\ csv'.via = i
    <2>1. /\ plans[p].phase = "pending" /\ plans[p].approved
          /\ plans' = [plans EXCEPT ![p].phase = "complete"]
      BY <1>5 DEF OLMExecutesPlan
    <2>2. p = 1 /\ plans[p].version = SettledVersion /\ plans[p].via = i
      BY <1>m, <2>1
    <2>3. ~csv.exists
      BY <1>m, <2>1, <2>2
    <2>4. plans'[1].phase = "complete" /\ plans'[1].approved
      BY <2>1, <2>2 DEF InstallPlans
    <2>5. csv'.version = plans[p].version /\ csv'.via = plans[p].via
      BY <1>5, <2>3 DEF OLMExecutesPlan, NoCSV
    <2> QED
      BY <1>v, <2>2, <2>4, <2>5
  <1> QED
    BY <1>1, <1>2, <1>3, <1>4, <1>5, CSVKept

\* The CA bundle that the worker writes comes from a spec of its instance: the
\* one it read, or an earlier one whose bundle it found in the OLSConfig.
LEMMA BundleWritten ==
    ASSUME SettledInv, NEW i \in Instances, MadeFor(i), cur = i, inst[i].phase # "gone",
           pc = "cfgWrite", ConfigWritten(PatchOLSConfig(seenCfg))
    PROVE  cfg'.want.ca \in CABundles(inst[i].gen)
  <1>n. NoContent.ca = ""
    BY Zenon DEF NoContent
  <1> USE DEF OwnershipInv, TypeOK, ClusterTypeOK, WorkerTypeOK, SettledInv
  <1> DEFINE new == PatchOLSConfig(seenCfg)
  <1>t. cfg \in OLSConfigs /\ seenCfg \in OLSConfigs /\ new \in OLSConfigs
    BY PatchedConfigTypes
  <1>1. spec.ca \in CABundles(inst[i].gen)
    <2>1. obj.gen <= inst[i].gen
      BY DEF CopyBehind
    <2>2. obj.gen \in 1..inst[i].gen
      BY <2>1, ConstantTypes DEF InstanceObjects
    <2> QED
      BY <2>2 DEF CABundles, spec
  <1>2. new.want.ca = IF spec.ca = "" THEN seenCfg.want.ca ELSE spec.ca
    <2>1. Defaulted(spec).ca = spec.ca
      BY SpecType DEF Defaulted, InstanceSpecs
    <2>2. new.want = DesiredContent(Defaulted(spec), obj.status.active, seenCfg.want)
      BY <1>t DEF PatchOLSConfig, OLSConfigs
    <2>3. DesiredContent(Defaulted(spec), obj.status.active, seenCfg.want).ca
             = IF Defaulted(spec).ca = "" THEN seenCfg.want.ca ELSE Defaulted(spec).ca
      BY DEF DesiredContent
    <2> QED
      BY <2>1, <2>2, <2>3
  <1> HIDE DEF new
  <1>3. CASE ~seenCfg.exists
    <2>1. seenCfg.want.ca = ""
      <3>1. seenCfg.want = NoContent
        BY <1>3 DEF ObjectsSound
      <3> QED
        BY <1>n, <3>1
    <2>3. new.want.ca = spec.ca
      BY <1>2, <2>1
    <2>2. cfg'.want = new.want
      BY <1>3, <1>t DEF ConfigWritten, OLSConfigs, new
    <2> QED
      BY <1>1, <2>2, <2>3
  <1>4. CASE seenCfg.exists
    <2>1. cfg.exists /\ cfg' = PatchedConfig(new)
      BY <1>4 DEF ConfigWritten, new
    <2>2. cfg.want.ca \in CABundles(inst[i].gen) /\ seenCfg.want.ca \in CABundles(inst[i].gen)
      BY <1>4, <2>1 DEF MadeFor
    <2>3. cfg'.want = MergePatch(seenCfg.want, new.want, cfg.want)
      BY <1>t, <2>1 DEF PatchedConfig, OLSConfigs
    <2>4. cfg.want \in Content
      BY <1>t DEF OLSConfigs
    <2>5. cfg'.want.ca \in {cfg.want.ca, new.want.ca}
      BY <2>3, <2>4 DEF MergePatch, Content
    <2> QED
      BY <1>1, <1>2, <2>2, <2>5
  <1> QED
    BY <1>3, <1>4

\* Every CA bundle in the OLSConfig and in the worker's copy of it comes from a
\* spec of the instance.
LEMMA BundleMade ==
    ASSUME SettledInv, [Next]_vars, NEW i \in Instances, Single(i)'
    PROVE  /\ cfg'.exists => cfg'.want.ca \in CABundles(inst'[i].gen)
           /\ pc' = "cfgWrite" /\ seenCfg'.exists => seenCfg'.want.ca \in CABundles(inst'[i].gen)
  <1> USE DEF OwnershipInv, TypeOK, ClusterTypeOK, SettledInv
  <1>s. /\ MadeFor(i) /\ Uncontested' /\ inst'[i].phase # "gone" /\ inst[i].phase # "gone"
        /\ pc # "idle" => cur = i
    BY SingleBefore, InstanceViews
  <1>b. CABundles(inst[i].gen) \subseteq CABundles(inst'[i].gen)
    <2>1. inst[i].gen <= inst'[i].gen
      BY <1>s, GenerationsGrow
    <2>2. TypeOK'
      BY NextType
    <2>3. inst[i].gen \in Nat /\ inst'[i].gen \in Nat
      BY <2>2, ConstantTypes DEF InstanceObjects
    <2>4. 1..inst[i].gen \subseteq 1..inst'[i].gen
      BY <2>1, <2>3
    <2> QED
      BY <2>4 DEF CABundles
  <1>m. /\ cfg.exists => cfg.want.ca \in CABundles(inst[i].gen)
        /\ pc = "cfgWrite" /\ seenCfg.exists => seenCfg.want.ca \in CABundles(inst[i].gen)
    BY <1>s DEF MadeFor
  <1>1. ASSUME cfg'.exists PROVE cfg'.want.ca \in CABundles(inst[i].gen)
    <2>1. ~UserCreatesConfig
      BY <1>s, UncontestedBefore
    <2>2. cfg' # NoOLSConfig
      BY <1>1 DEF NoOLSConfig
    <2>3. CASE cfg'.exists = cfg.exists /\ cfg'.want = cfg.want
      BY <1>1, <1>m, <2>3
    <2>4. CASE pc = "cfgWrite" /\ ConfigWritten(PatchOLSConfig(seenCfg))
      BY <1>s, <2>4, BundleWritten
    <2> QED
      BY <2>1, <2>2, <2>3, <2>4, ContentKept
  <1>2. ASSUME pc' = "cfgWrite", seenCfg'.exists
        PROVE  seenCfg'.want.ca \in CABundles(inst[i].gen)
    <2>1. CASE UNCHANGED workerVars
      BY <1>2, <1>m, <2>1 DEF workerVars
    <2>2. CASE GetOLSConfig
      <3>1. seenCfg' = cfg
        BY <1>2, <2>2 DEF GetOLSConfig, ReturnConfigError, Return
      <3> QED
        BY <1>2, <1>m, <3>1
    <2> QED
      BY <1>2, <2>1, <2>2, SeenConfigKept
  <1> QED
    BY <1>1, <1>2, <1>b

\* Everything there is still comes from the one instance.
LEMMA MadeForKept ==
    ASSUME SettledInv, [Next]_vars, NEW i \in Instances, Single(i)'
    PROVE  MadeFor(i)'
  BY SubscriptionMade, PlanMade, CSVMade, BundleMade DEF MadeFor, CABundles

\* Every step preserves the invariant.
LEMMA SettledNext == SettledInv /\ [Next]_vars => SettledInv'
  <1> SUFFICES ASSUME SettledInv, [Next]_vars PROVE SettledInv'
    OBVIOUS
  <1>1. OwnershipInv'
    BY OwnershipNext DEF SettledInv
  <1>2. ViewsSound'
    BY InstanceViews, SubscriptionViews, PlanViews, UsersAwayKept, CopyReadKept
    DEF SettledInv, ViewsSound
  <1>3. ObjectsSound' /\ CopyBehind' /\ FinalizersSound'
    BY ObjectsKept, CopyStaysBehind, FinalizersKept
  <1>4. \A i \in Instances : Single(i)' => MadeFor(i)'
    BY MadeForKept
  <1> QED
    BY <1>1, <1>2, <1>3, <1>4 DEF SettledInv

\* In the initial states there is nothing, or what the first instance made.
LEMMA SettledInit == Init => SettledInv
  <1> SUFFICES ASSUME Init PROVE SettledInv
    OBVIOUS
  <1>o. OwnershipInv /\ ViewsSound
    BY WakeupInit DEF WakeupInv
  <1>w. pc = "idle" /\ pc \notin PatchLabels
    BY DEF Init, WorkerInit, PatchLabels
  <1>c. CopyBehind
    BY <1>w DEF CopyBehind
  <1>1. CASE FirstOwner = NoInstance
    <2>1. /\ \A i \in Instances : inst[i] = NewObject /\ sub[i] = NoSubscription
          /\ \A p \in Plans : plans[p] = NoInstallPlan
          /\ csv = NoCSV /\ cfg = NoOLSConfig
      BY <1>1 DEF Init, InitialCluster, ClusterInit
    <2>2. /\ NewObject.phase = "new" /\ ~NoCSV.exists
          /\ ~NoSubscription.exists /\ NoSubscription.planRef = NoPlan
          /\ NoInstallPlan.phase = "none"
      BY DEF NewObject, NoCSV, NoSubscription, NoInstallPlan
    <2>3. /\ ~NoOLSConfig.exists /\ ~NoOLSConfig.deleting /\ ~NoOLSConfig.overall
          /\ NoOLSConfig.want = NoContent
      BY DEF NoOLSConfig
    <2>4. ObjectsSound
      BY <1>w, <2>1, <2>2, <2>3 DEF ObjectsSound
    <2>5. FinalizersSound
      BY <1>w, <2>1, <2>2, <2>3 DEF FinalizersSound, Whole, Ready, Live
    <2>6. \A i \in Instances : MadeFor(i)
      BY <1>w, <2>1, <2>2, <2>3 DEF MadeFor
    <2> QED
      BY <1>o, <1>c, <2>4, <2>5, <2>6 DEF SettledInv
  <1>2. CASE FirstOwner # NoInstance
    <2> DEFINE i == FirstOwner
               w == SettledContent(1, OCPHistory[1], NoContent)
    <2>1. Settled(i, 1, 1, RolledOut(1, 1)) /\ i \in Instances
      BY <1>2, FirstOwnerAssumption DEF Init, InitialCluster, Owners
    <2>p. 1 \in Plans
      BY <1>2, FirstOwnerAssumption, BoundsAssumption DEF Plans
    <2> HIDE DEF i
    <2>2. inst[i].phase = "live" /\ inst[i].gen = 1
      BY <2>1 DEF Settled, CreatedObject, NewObject
    <2>3. /\ sub[i].planRef = 1 /\ sub[i].startingCSV = GetRecommendedOLSVersion
          /\ \A j \in Instances \ {i} : sub[j] = NoSubscription
      BY <2>1 DEF Settled
    <2>4. /\ plans[1].phase = "complete" /\ plans[1].approved
          /\ plans[1].version = SettledVersion /\ plans[1].via = i
          /\ \A p \in Plans \ {1} : plans[p] = NoInstallPlan
      BY <2>1, <2>p DEF Settled
    <2>5. csv.version = SettledVersion /\ csv.via = i /\ crd
      BY <2>1 DEF Settled
    <2>6. /\ cfg.exists /\ ~cfg.deleting /\ cfg.fins = Finalizers
          /\ cfg.want = w
      <3>1. RolledOut(1, 1).want = NoContent
        BY DEF RolledOut
      <3> QED
        BY <2>1, <3>1 DEF Settled
    <2>7. w.ca \in CABundles(1)
      <3>1. Defaulted(Specs[1]).ca = Specs[1].ca
        BY ConstantTypes DEF Defaulted, InstanceSpecs
      <3>2. NoContent.ca = ""
        BY Zenon DEF NoContent
      <3>3. w.ca = IF Defaulted(Specs[1]).ca = "" THEN NoContent.ca ELSE Defaulted(Specs[1]).ca
        BY DEF SettledContent, DesiredContent
      <3>4. w.ca = Specs[1].ca
        BY <3>1, <3>2, <3>3
      <3> QED
        BY <3>4 DEF CABundles
    <2> HIDE DEF w
    <2>8. NoInstallPlan.phase = "none"
      BY DEF NoInstallPlan
    <2>9. ObjectsSound
      BY <1>w, <2>2, <2>3, <2>4, <2>5, <2>6 DEF ObjectsSound
    <2>10. FinalizersSound
      BY <1>w, <2>6 DEF FinalizersSound, Whole, Finalizers, OwnFinalizer
    <2>11. MadeFor(i)
      BY <1>w, <2>2, <2>3, <2>4, <2>5, <2>6, <2>7, <2>8, <2>p DEF MadeFor
    <2>12. \A j \in Instances : Single(j) => j = i
      BY <2>1, <2>2 DEF Single
    <2> QED
      BY <1>o, <1>c, <2>9, <2>10, <2>11, <2>12 DEF SettledInv
  <1> QED
    BY <1>1, <1>2

-----------------------------------------------------------------------------
(* The theorems.                                                           *)

\* The inductive invariant: what exists is whole, and in a cluster with one
\* instance it was made for that instance.
THEOREM SettledInvariant == Spec => []SettledInv
  BY SettledInit, SettledNext, PTL DEF Spec

\* Instances that agree in every field are the same.
LEMMA SameObject ==
    ASSUME NEW a \in InstanceObjects, NEW b \in InstanceObjects, a.phase = b.phase,
           a.deleting = b.deleting, a.fin = b.fin, a.gen = b.gen, a.status = b.status
    PROVE  a = b
  BY DEF InstanceObjects

\* The instance at rest is in the settled state: each object, as a record, is
\* determined by what the two invariants say of its fields.
LEMMA RestSettled ==
    ASSUME SettledInv, Quiescent, NEW i \in Instances, Ready(i), AtRest(i), Single(i)
    PROVE  /\ Settled(i, inst[i].gen, ocp, cfg)
           /\ cfg.want.ca \in CABundles(inst[i].gen)
  <1> DEFINE g == inst[i].gen
  <1>t. TypeOK /\ ClusterTypeOK
    BY DEF SettledInv, OwnershipInv, TypeOK
  <1>q. /\ cinst = inst /\ csub = sub /\ cplans = plans /\ queue = {} /\ timers = {}
    BY DEF Quiescent
  <1>m. MadeFor(i) /\ Uncontested
    <2>1. \A j \in Instances : ~Doomed(j)
      BY DEF Single, Doomed, Live
    <2> QED
      BY <2>1 DEF SettledInv, Single, Uncontested
  <1>r. /\ inst[i].phase = "live" /\ ~inst[i].deleting
        /\ inst[i].status = SettledStatus(g, OCPHistory[ocp])
        /\ Served(i, g)
    BY DEF AtRest, Ready, Live
  <1>c. cfg.exists /\ cfg.label = i
    BY <1>r DEF SettledInv, OwnershipInv, ClusterSound, ReadyOwnsConfig
  <1>f. inst[i].fin
    BY <1>c DEF SettledInv, OwnershipInv, ClusterSound, OwnedResourcesHaveFinalizedOwner
  <1>1. inst = [j \in Instances |->
                  IF j = i THEN [CreatedObject EXCEPT !.fin = TRUE, !.gen = g,
                                     !.status = SettledStatus(g, OCPHistory[ocp])]
                           ELSE NewObject]
    <2> DEFINE s == SettledStatus(g, OCPHistory[ocp])
    <2> HIDE DEF s
    <2>1. inst[i] = [CreatedObject EXCEPT !.fin = TRUE, !.gen = g, !.status = s]
      <3> DEFINE e == [CreatedObject EXCEPT !.fin = TRUE, !.gen = g, !.status = s]
      <3>1. inst[i].status = s
        BY <1>r DEF s
      <3>2. inst[i] \in InstanceObjects
        BY <1>t DEF ClusterTypeOK
      <3>3. g \in 1..Len(Specs) /\ s \in Status
        BY <3>1, <3>2 DEF InstanceObjects
      <3>4. CreatedObject.phase = "live" /\ ~CreatedObject.deleting
        BY DEF CreatedObject, NewObject
      <3>5. /\ e \in InstanceObjects
            /\ e.phase = "live" /\ ~e.deleting /\ e.fin /\ e.gen = g /\ e.status = s
        BY <3>3, <3>4, ObjectTypes DEF InstanceObjects
      <3> HIDE DEF e
      <3>6. inst[i].deleting = e.deleting /\ inst[i].fin = e.fin
        BY <1>f, <1>r, <3>2, <3>5 DEF InstanceObjects
      <3>7. inst[i] = e
        BY <1>r, <3>1, <3>2, <3>5, <3>6, SameObject
      <3> QED
        BY <3>7, Zenon DEF e
    <2>2. \A j \in Instances \ {i} : inst[j] = NewObject
      BY DEF SettledInv, ViewsSound, InstancesBehind, Single
    <2> QED
      BY <1>t, <2>1, <2>2 DEF ClusterTypeOK, s
  <1>2. sub = [j \in Instances |->
                 IF j = i THEN [exists |-> TRUE, catalog |-> Specs[g].catalog,
                                startingCSV |-> GetRecommendedOLSVersion,
                                planRef |-> 1]
                          ELSE NoSubscription]
    <2>1. /\ sub[i].exists /\ sub[i].catalog = Specs[g].catalog
          /\ sub[i].startingCSV = GetRecommendedOLSVersion /\ sub[i].planRef = 1
      BY <1>m, <1>r DEF Served, SubscriptionCurrent, MadeFor
    <2>2. \A j \in Instances \ {i} : sub[j] = NoSubscription
      BY DEF SettledInv, ObjectsSound, Single
    <2>3. sub[i] \in Subscriptions /\ sub \in [Instances -> Subscriptions]
      BY <1>t DEF ClusterTypeOK
    <2>4. sub[i] = [exists |-> TRUE, catalog |-> Specs[g].catalog,
                    startingCSV |-> GetRecommendedOLSVersion, planRef |-> 1]
      BY <2>1, <2>3 DEF Subscriptions
    <2> QED
      BY <2>2, <2>3, <2>4
  <1>3. csv.exists /\ csv.succeeded /\ csv.owner = i
    BY <1>r DEF Served, OperatorRuns
  <1>4. plans = [p \in Plans |->
                   IF p = 1 THEN [phase |-> "complete", approved |-> TRUE,
                                  version |-> SettledVersion, via |-> i]
                            ELSE NoInstallPlan]
    <2>1. /\ 1 \in Plans /\ plans[1].phase = "complete" /\ plans[1].approved
          /\ plans[1].version = SettledVersion /\ plans[1].via = i
      BY <1>3, <1>m DEF MadeFor
    <2>2. \A p \in Plans \ {1} : plans[p] = NoInstallPlan
      BY DEF SettledInv, ObjectsSound, Single
    <2>3. plans[1] \in InstallPlans /\ plans \in [Plans -> InstallPlans]
      BY <1>t, <2>1 DEF ClusterTypeOK
    <2>4. plans[1] = [phase |-> "complete", approved |-> TRUE,
                      version |-> SettledVersion, via |-> i]
      BY <2>1, <2>3 DEF InstallPlans
    <2> QED
      BY <2>2, <2>3, <2>4
  <1>5. csv = [exists |-> TRUE, version |-> SettledVersion, succeeded |-> TRUE,
               owner |-> i, via |-> i, deleting |-> FALSE]
    <2>1. csv.version = SettledVersion /\ csv.via = i
      BY <1>3, <1>m DEF MadeFor
    <2>2. ~csv.deleting
      BY <1>m DEF Uncontested, SettledInv, ViewsSound, UsersAway
    <2>3. csv \in CSVs
      BY <1>t DEF ClusterTypeOK
    <2> QED
      BY <1>3, <2>1, <2>2, <2>3 DEF CSVs
  <1>6. crd = TRUE
    BY <1>3, <1>t DEF SettledInv, ObjectsSound, ClusterTypeOK
  <1>7. cfg = [exists |-> TRUE, label |-> i, fins |-> Finalizers, deleting |-> FALSE,
               want |-> SettledContent(g, OCPHistory[ocp], cfg.want),
               rolled |-> cfg.rolled, overall |-> cfg.overall, dirty |-> cfg.dirty]
    <2> DEFINE w == SettledContent(g, OCPHistory[ocp], cfg.want)
    <2>1. cfg.want = w
      BY <1>r DEF Served, ConfigCurrent
    <2>2. ~cfg.deleting /\ OwnFinalizer \in cfg.fins /\ "ols" \in cfg.fins
      BY <1>c, <1>m DEF SettledInv, FinalizersSound, Whole
    <2>3. cfg \in OLSConfigs
      BY <1>t DEF ClusterTypeOK
    <2>4. cfg.fins = Finalizers
      BY <2>2, <2>3 DEF OLSConfigs, Finalizers, OwnFinalizer
    <2> HIDE DEF w
    <2>5. cfg = [exists |-> TRUE, label |-> i, fins |-> Finalizers, deleting |-> FALSE,
                 want |-> w, rolled |-> cfg.rolled, overall |-> cfg.overall,
                 dirty |-> cfg.dirty]
      BY <1>c, <2>1, <2>2, <2>3, <2>4 DEF OLSConfigs
    <2> QED
      BY <2>5 DEF w
  <1>8. cfg.want.ca \in CABundles(g)
    BY <1>c, <1>m DEF MadeFor
  <1> QED
    BY <1>q, <1>1, <1>2, <1>4, <1>5, <1>6, <1>7, <1>8 DEF Settled

\* Whatever happened on the way - updates of the spec, cluster upgrades, an OLS
\* operator that stopped, crashes of the operator, every interleaving - the state
\* in which the worker runs dry with a Ready instance is the same one, for every
\* sequence of specs and cluster versions.
THEOREM SettledStateReached == Spec => [](SingleRun => SettledWhenReady)
  <1>1. ASSUME WakeupInv, SettledInv, SingleRun, NEW i \in Instances, Quiescent, Ready(i)
        PROVE  /\ Settled(i, inst[i].gen, ocp, cfg)
               /\ cfg.want.ca \in {Specs[k].ca : k \in 1..inst[i].gen}
    <2>1. \A j \in Instances \ {i} : inst[j].phase = "new"
      BY <1>1 DEF SingleRun, Ready, Live
    <2>2. Undisturbed(i)
      BY <1>1, <2>1 DEF Undisturbed, SingleRun, Doomed, Live
    <2>3. AtRest(i)
      BY <1>1, <2>2, QuiescentAtRest DEF Ready
    <2>4. Single(i)
      BY <1>1, <2>1, <2>3 DEF Single, SingleRun, AtRest, Doomed, Ready, Live
    <2> QED
      BY <1>1, <2>3, <2>4, RestSettled DEF CABundles
  <1>2. WakeupInv /\ SettledInv => (SingleRun => SettledWhenReady)
    BY <1>1 DEF SettledWhenReady
  <1> QED
    BY <1>2, WakeupInvariant, SettledInvariant, PTL

-----------------------------------------------------------------------------
(* Clusters in which the hypotheses of these theorems always hold.         *)

\* Nobody interferes with an instance but, by deleting it, with the only one.
PeacefulCluster ==
    /\ MaxFaults = 0 /\ MaxUserActs = 0
    /\ \A i \in Deletable, j \in Instances : i = j

\* In such a cluster there are no failed calls, and users only delete what they
\* may delete.
Peaceful ==
    /\ faults = 0 /\ userActs = 0
    /\ \A i \in Instances : Doomed(i) => i \in Deletable

\* An instance goes only if a user deletes it.
LEMMA DoomedByUser ==
    ASSUME OwnershipInv, [Next]_vars, NEW i \in Instances, Doomed(i)'
    PROVE  Doomed(i) \/ i \in Deletable
  <1> USE DEF OwnershipInv, TypeOK, ClusterTypeOK, Doomed, Live
  <1> SUFFICES ASSUME ~Doomed(i) PROVE i \in Deletable
    OBVIOUS
  <1>1. CASE inst'[i] = inst[i]
    BY <1>1
  <1>2. CASE PatchMetadata
    <2>1. CASE inst' = [inst EXCEPT ![cur].fin = obj.fin]
      <3>1. inst'[i].phase = inst[i].phase /\ inst'[i].deleting = inst[i].deleting
        BY <2>1 DEF InstanceObjects
      <3> QED
        BY <3>1
    <2> QED
      BY <1>1, <1>2, <2>1 DEF PatchMetadata
  <1>3. CASE PatchStatus
    <2> DEFINE s == MergePatch(before.status, obj.status, inst[cur].status)
    <2>1. inst' = inst \/ inst' = [inst EXCEPT ![cur].status = s]
      BY <1>3 DEF PatchStatus
    <2> HIDE DEF s
    <2>2. inst'[i].phase = inst[i].phase /\ inst'[i].deleting = inst[i].deleting
      BY <2>1 DEF InstanceObjects
    <2> QED
      BY <2>2
  <1>4. ASSUME NEW j \in Instances, CreateInstance(j) \/ UpdateSpec(j) PROVE FALSE
    <2>1. inst[i].phase # "gone" /\ (inst[i].phase = "live" => ~inst[i].deleting)
      OBVIOUS
    <2>2. CASE CreateInstance(j)
      <3>1. CreatedObject.phase = "live" /\ ~CreatedObject.deleting
        BY DEF CreatedObject, NewObject
      <3> QED
        BY <1>1, <2>2, <3>1 DEF CreateInstance
    <2>3. CASE UpdateSpec(j)
      <3>1. inst'[i].phase = inst[i].phase /\ inst'[i].deleting = inst[i].deleting
        BY <2>3 DEF UpdateSpec, InstanceObjects
      <3> QED
        BY <2>1, <3>1
    <2> QED
      BY <1>4, <2>2, <2>3
  <1>5. ASSUME NEW j \in Instances, DeleteInstance(j) PROVE i \in Deletable
    BY <1>1, <1>5 DEF DeleteInstance
  <1> QED
    BY <1>1, <1>2, <1>3, <1>4, <1>5, InstancesKept DEF instVars, Restart, SyncInstance

\* Nothing in such a cluster disturbs the peace.
LEMMA PeacefulInvariant ==
    ASSUME PeacefulCluster
    PROVE  Spec => []Peaceful
  <1>1. Init => Peaceful
    <2> SUFFICES ASSUME Init PROVE Peaceful
      OBVIOUS
    <2>1. faults = 0 /\ userActs = 0
      BY DEF Init, InitialCluster, ClusterInit
    <2>2. \A i \in Instances : inst[i].phase # "gone" /\ ~inst[i].deleting
      <3>1. CASE FirstOwner = NoInstance
        BY <3>1 DEF Init, InitialCluster, ClusterInit, NewObject
      <3>2. CASE FirstOwner # NoInstance
        <4> DEFINE s == SettledStatus(1, OCPHistory[1])
        <4> HIDE DEF s
        <4>1. \A i \in Instances :
                 inst[i] = IF i = FirstOwner
                           THEN [CreatedObject EXCEPT !.fin = TRUE, !.gen = 1, !.status = s]
                           ELSE NewObject
          BY <3>2 DEF Init, InitialCluster, Settled, s
        <4> DEFINE e == [CreatedObject EXCEPT !.fin = TRUE, !.gen = 1, !.status = s]
        <4>2. e.phase = "live" /\ ~e.deleting
          BY DEF CreatedObject, NewObject
        <4>3. NewObject.phase = "new" /\ ~NewObject.deleting
          BY DEF NewObject
        <4>4. \A i \in Instances : inst[i] \in {e, NewObject}
          BY <4>1, Zenon
        <4> HIDE DEF e
        <4> QED
          BY <4>2, <4>3, <4>4
      <3> QED
        BY <3>1, <3>2
    <2> QED
      BY <2>1, <2>2 DEF Peaceful, Doomed
  <1>2. OwnershipInv /\ Peaceful /\ [Next]_vars => Peaceful'
    <2> SUFFICES ASSUME OwnershipInv, Peaceful, [Next]_vars PROVE Peaceful'
      OBVIOUS
    <2>1. faults' = 0 /\ userActs' = 0
      BY QueueKept DEF Peaceful, PeacefulCluster, OwnershipInv
    <2> QED
      BY <2>1, DoomedByUser DEF Peaceful
  <1> QED
    BY <1>1, <1>2, OwnershipInvariant, PTL DEF Spec

\* Only the one instance may be deleted, and so nobody disturbs another one.
LEMMA PeaceIsCalm ==
    ASSUME PeacefulCluster, Peaceful
    PROVE  Calm
  BY DEF PeacefulCluster, Peaceful, Calm, Undisturbed

\* NoLostWakeup holds as it stands, for any number of instances, of which one may
\* be deleted if it is alone, any specs, cluster versions, crashes and
\* recommendations: it is failed calls, user acts and removals next to it that an
\* instance may sleep through, and an override next to a cluster version that
\* cannot be detected.
THEOREM PeacefulWakeups ==
    ASSUME PeacefulCluster, OverridesDetectable
    PROVE  Spec => []NoLostWakeup
  <1>1. Peaceful => Calm
    BY PeaceIsCalm
  <1> QED
    BY <1>1, PeacefulInvariant, NoWakeupLost, PTL

\* RunsRecommendedVersion holds as it stands when every crash brings back the
\* same recommendation, and that is the end of no other version.
THEOREM PeacefulVersions ==
    ASSUME PeacefulCluster, NoCollision, \A r, s \in Recommendations : r = s
    PROVE  Spec => []RunsRecommendedVersion
  <1>1. Peaceful => Calm /\ SameRecommendation
    BY PeaceIsCalm DEF SameRecommendation
  <1> QED
    BY <1>1, PeacefulInvariant, RecommendedVersionRuns, PTL

\* SettledWhenReady holds as it stands for one instance and one InstallPlan.
THEOREM PeacefulSettles ==
    ASSUME PeacefulCluster, \A r, s \in Recommendations : r = s, MaxPlans <= 1,
           \A i, j \in Instances : i = j
    PROVE  Spec => []SettledWhenReady
  <1>1. Plans \ {1} = {}
    BY BoundsAssumption DEF Plans
  <1>2. Peaceful => SingleRun
    BY <1>1 DEF Peaceful, SingleRun, SameRecommendation
  <1> QED
    BY <1>2, PeacefulInvariant, SettledStateReached, PTL
=============================================================================
