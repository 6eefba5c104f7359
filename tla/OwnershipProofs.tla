--------------------------- MODULE OwnershipProofs --------------------------
(***************************************************************************)
(* Who owns the OLSConfig and the CSV, and what an owner may believe: the  *)
(* proofs of OwnedResourcesHaveFinalizedOwner, ReadyOwnsConfig and         *)
(* OperatorOutlivesConfig.                                                 *)
(*                                                                         *)
(* None of them is inductive.  The worker acts on copies of an instance -  *)
(* the cache, and the object it read from the cache when it started - that *)
(* may be older than the object itself.  What carries the proofs is that   *)
(* the two facts it relies on are safe to read from an old copy: a copy    *)
(* that shows the finalizer and no deletion is right about the finalizer,  *)
(* because the worker itself is the only one to remove it, and a copy that *)
(* shows a deletion is right, because nothing takes a deletion back.       *)
(***************************************************************************)
EXTENDS ReconcilerProofs

-----------------------------------------------------------------------------
(* The inductive invariant.                                                *)

Finalized(i) == Live(i) /\ inst[i].fin

\* Instance i is gone or will be.
Doomed(i) == inst[i].phase = "gone" \/ (Live(i) /\ inst[i].deleting)

CacheTrusts(i) == cinst[i].phase = "live" /\ cinst[i].fin /\ ~cinst[i].deleting
WorkerTrusts(i) == pc # "idle" /\ cur = i /\ before.fin /\ ~before.deleting

\* A copy of instance i that the worker acts on shows the finalizer and no
\* deletion.
Trusted(i) == CacheTrusts(i) \/ WorkerTrusts(i)

\* Copies of an instance may be old, and still hold what the worker needs.
CopiesSound ==
    /\ \A i \in Instances :
          /\ inst[i].deleting => Live(i)
          /\ cinst[i].deleting => Doomed(i)
          /\ Trusted(i) => Finalized(i)
    /\ pc # "idle" /\ before.deleting => Doomed(cur) /\ ~CacheTrusts(cur)

\* The worker's own copy, and which part of Reconcile it is for.
WorkerSound ==
    /\ pc # "idle" => obj.deleting = before.deleting
    /\ pc \notin {"idle"} \cup PatchLabels => obj.fin = before.fin
    /\ pc \in InstallLabels \cup ConfigLabels \cup ReadyLabels =>
          before.fin /\ ~before.deleting
    /\ pc \in RemoveLabels \cup UninstallLabels => before.deleting

\* The finalizer is given up when nothing is owned any more.
ReleaseSound ==
    /\ pc \in UninstallLabels => cfg.label = NoInstance
    /\ pc = "patch" /\ before.fin /\ ~obj.fin =>
          before.deleting /\ cfg.label # cur /\ csv.owner # cur

AbsentUnowned ==
    /\ ~cfg.exists => cfg.label = NoInstance
    /\ ~csv.exists => csv.owner = NoInstance

\* The OLSConfig keeps the finalizer while its owner may rely on it.
ConfigHeld ==
    /\ \A i \in Instances :
          cfg.label = i /\ (~Doomed(i) \/ Trusted(i)) =>
              cfg.exists /\ OwnFinalizer \in cfg.fins
    /\ OwnFinalizer \in cfg.fins => cfg.label # NoInstance

\* What the worker read of the OLSConfig still tells who owns it.
SeenConfigSound ==
    /\ pc = "cfgWrite" =>
          /\ cfg.label \in {NoInstance, cur}
          /\ seenCfg.label \in {NoInstance, cur}
          /\ seenCfg.label = cur => cfg.label = cur
          /\ OwnFinalizer \in seenCfg.fins <=> seenCfg.label = cur
    /\ pc \in ReadyLabels => cfg.label = cur
    /\ pc = "rmPatch" => cfg.label \in {NoInstance, cur}

\* The worker reports an OLSConfig as ready only to its owner.
ReportSound ==
    /\ pc # "idle" => obj.status.conds.ols # "Absent"
    /\ pc \notin {"idle"} \cup PatchLabels => obj.status.conds.ols # "True"
    /\ pc \in PatchLabels /\ obj.status.conds.ols = "True" =>
          cfg.label = cur /\ WorkerTrusts(cur)
    /\ pc = "patchStatus" /\ obj.status.conds.ready = "True" =>
          obj.status.conds.ols = "True"

\* The parts that no step of the worker may disturb...
ClusterSound ==
    /\ CopiesSound
    /\ AbsentUnowned
    /\ OwnedResourcesHaveFinalizedOwner
    /\ ConfigHeld
    /\ ReadyOwnsConfig

\* ...and those about what it is doing.
ProgressSound ==
    /\ WorkerSound
    /\ ReleaseSound
    /\ SeenConfigSound
    /\ ReportSound

OwnershipInv == TypeOK /\ ClusterSound /\ ProgressSound

-----------------------------------------------------------------------------
(* Steps that leave the ownership of OLSConfig and CSV alone, or end it    *)
(* when nobody relies on it.                                               *)

KeepsConfig ==
    \/ /\ cfg'.exists = cfg.exists /\ cfg'.label = cfg.label
       /\ OwnFinalizer \in cfg'.fins <=> OwnFinalizer \in cfg.fins
    \/ /\ cfg'.label = NoInstance
       /\ OwnFinalizer \notin cfg.fins /\ OwnFinalizer \notin cfg'.fins

KeepsCSV ==
    /\ csv'.owner \in {csv.owner, NoInstance}
    /\ ~csv'.exists => csv'.owner = NoInstance

(* Steps of the worker that change it.                                     *)

TakesConfig ==
    /\ cfg'.exists /\ OwnFinalizer \in cfg'.fins
    /\ cfg'.label \in Instances /\ Finalized(cfg'.label)
    /\ cfg.label \in {NoInstance, cfg'.label}

ReleasesConfig ==
    /\ pc # "idle" /\ before.deleting /\ cfg.label \in {NoInstance, cur}
    /\ cfg'.label \in {cfg.label, NoInstance} /\ OwnFinalizer \notin cfg'.fins
    /\ ~cfg'.exists => cfg'.label = NoInstance

TakesCSV == csv'.exists /\ csv'.owner \in Instances /\ Finalized(csv'.owner)

KeepsWorkersCopy == UNCHANGED <<cur, before>> /\ (pc' = "idle" <=> pc = "idle")

\* All of them preserve what is independent of the worker's progress.
LEMMA KeptClusterSound ==
    ASSUME OwnershipInv, UNCHANGED instVars, KeepsWorkersCopy,
           KeepsConfig \/ TakesConfig \/ ReleasesConfig, KeepsCSV \/ TakesCSV
    PROVE  ClusterSound'
  <1> USE DEF OwnershipInv, ClusterSound, instVars, KeepsWorkersCopy
  <1>t. \A i \in Instances : /\ Trusted(i)' <=> Trusted(i)
                             /\ CacheTrusts(i)' <=> CacheTrusts(i)
                             /\ Doomed(i)' <=> Doomed(i)
                             /\ Live(i)' <=> Live(i)
                             /\ Finalized(i)' <=> Finalized(i)
                             /\ Ready(i)' <=> Ready(i)
    BY DEF Trusted, CacheTrusts, WorkerTrusts, Doomed, Finalized, Live, Ready
  <1>n. /\ NoInstance \notin Instances
        /\ pc # "idle" => cur \in Instances
    BY InstancesAssumption DEF TypeOK, WorkerTypeOK, Owners
  <1>1. CopiesSound'
    BY <1>t, <1>n DEF CopiesSound
  <1>2. AbsentUnowned'
    BY DEF AbsentUnowned, KeepsConfig, TakesConfig, ReleasesConfig, KeepsCSV, TakesCSV
  <1>3. OwnedResourcesHaveFinalizedOwner'
    BY <1>t, <1>n
    DEF OwnedResourcesHaveFinalizedOwner, KeepsConfig, TakesConfig, ReleasesConfig,
        KeepsCSV, TakesCSV, Finalized
  <1>d. ReleasesConfig => Doomed(cur) /\ ~Trusted(cur)
    BY DEF ReleasesConfig, CopiesSound, Trusted, WorkerTrusts
  <1>4. ConfigHeld'
    BY <1>t, <1>n, <1>d DEF ConfigHeld, KeepsConfig, TakesConfig, ReleasesConfig
  <1>5. ReadyOwnsConfig'
    <2>1. \A i \in Instances : Ready(i) /\ ~inst[i].deleting =>
              ~Doomed(i) /\ cfg.exists /\ cfg.label = i /\ OwnFinalizer \in cfg.fins
      BY DEF ReadyOwnsConfig, ConfigHeld, Doomed, Ready, Live
    <2> QED
      BY <1>t, <1>n, <1>d, <2>1
      DEF ReadyOwnsConfig, KeepsConfig, TakesConfig, ReleasesConfig
  <1> QED
    BY <1>1, <1>2, <1>3, <1>4, <1>5

\* Steps of others preserve what is known about the worker's progress.
LEMMA KeptProgressSound ==
    ASSUME OwnershipInv, UNCHANGED workerVars, KeepsConfig, KeepsCSV
    PROVE  ProgressSound'
  <1> USE DEF OwnershipInv, ProgressSound, workerVars
  <1>n. /\ NoInstance \notin Instances
        /\ pc # "idle" => cur \in Instances
    BY InstancesAssumption DEF TypeOK, WorkerTypeOK, Owners
  <1>h. WorkerTrusts(cur) /\ cfg.label = cur =>
            cfg'.label = cur /\ (OwnFinalizer \in cfg'.fins)
    BY <1>n DEF WorkerTrusts, Trusted, ClusterSound, ConfigHeld, KeepsConfig
  <1>w. pc \in ConfigLabels \cup ReadyLabels => WorkerTrusts(cur)
    BY DEF WorkerSound, WorkerTrusts, ConfigLabels, ReadyLabels
  <1>1. WorkerSound'
    BY DEF WorkerSound
  <1>2. ReleaseSound'
    BY <1>n DEF ReleaseSound, KeepsConfig, KeepsCSV, UninstallLabels
  <1>3. SeenConfigSound'
    BY <1>n, <1>h, <1>w DEF SeenConfigSound, KeepsConfig, ConfigLabels
  <1>4. ReportSound'
    BY <1>h DEF ReportSound, WorkerTrusts
  <1> QED
    BY <1>1, <1>2, <1>3, <1>4

-----------------------------------------------------------------------------
(* The steps of the cluster.                                               *)

\* OLM, the OLS operator and informers other than the one of the instances
\* leave ownership alone.
LEMMA EnvironmentKeepsOwnership ==
    ASSUME OwnershipInv,
           \/ OLMStep \/ OLSStep \/ SyncPlans
           \/ \E i \in Instances : SyncSubscription(i) \/ TimerFires(i)
           \/ UserInstallsOLS \/ UserUninstallsOLS \/ UpgradeOCP
           \/ UserCreatesConfig \/ UserDeletesConfig
    PROVE  UNCHANGED instVars /\ KeepsConfig /\ KeepsCSV
  <1> USE DEF OwnershipInv, ClusterSound, TypeOK, ClusterTypeOK
  <1>a. /\ NoCSV.owner = NoInstance /\ NoOLSConfig.label = NoInstance
        /\ OwnFinalizer \notin NoOLSConfig.fins
        /\ [NoOLSConfig EXCEPT !.exists = TRUE, !.want = UserContent, !.dirty = TRUE].label
              = NoInstance
        /\ OwnFinalizer \notin
              [NoOLSConfig EXCEPT !.exists = TRUE, !.want = UserContent, !.dirty = TRUE].fins
    BY DEF NoCSV, NoOLSConfig
  <1>b. UNCHANGED cfg => KeepsConfig
    BY DEF KeepsConfig
  <1>c. UNCHANGED csv => KeepsCSV
    BY DEF KeepsCSV, AbsentUnowned
  <1>d. UNCHANGED csvVars => UNCHANGED csv
    BY DEF csvVars
  <1>1. ASSUME OLMStep PROVE UNCHANGED instVars /\ KeepsConfig /\ KeepsCSV
    <2>1. ASSUME NEW i \in Instances, OLMCreatesPlan(i) \/ OLMCreatesUpgradePlan(i)
          PROVE  UNCHANGED <<instVars, csv, cfg>>
      BY <2>1, <1>d DEF OLMCreatesPlan, OLMCreatesUpgradePlan
    <2>2. ASSUME NEW i \in Instances, NEW p \in Plans, OLMLinksPlan(i, p)
          PROVE  UNCHANGED <<instVars, csv, cfg>>
      BY <2>2, <1>d DEF OLMLinksPlan
    <2>3. ASSUME NEW p \in Plans, OLMExecutesPlan(p)
          PROVE  UNCHANGED <<instVars, cfg>> /\ KeepsCSV
      <3>1. csv'.owner \in {csv.owner, NoInstance} /\ (csv'.exists \/ csv' = csv)
        BY <2>3 DEF OLMExecutesPlan, NoCSV
      <3> QED
        BY <2>3, <3>1 DEF OLMExecutesPlan, KeepsCSV, AbsentUnowned
    <2>4. ASSUME OLMDeploysCSV PROVE UNCHANGED instVars /\ KeepsConfig /\ KeepsCSV
      <3>1. csv'.owner = csv.owner /\ csv'.exists = csv.exists
        BY <2>4 DEF OLMDeploysCSV, CSVs
      <3>2. cfg'.label = cfg.label /\ cfg'.exists = cfg.exists /\ cfg'.fins = cfg.fins
        BY <2>4 DEF OLMDeploysCSV, OLSConfigs
      <3> QED
        BY <2>4, <3>1, <3>2 DEF OLMDeploysCSV, KeepsConfig, KeepsCSV, AbsentUnowned
    <2>5. ASSUME OLMRemovesCSV PROVE UNCHANGED <<instVars, cfg>> /\ KeepsCSV
      BY <2>5, <1>a DEF OLMRemovesCSV, KeepsCSV
    <2>6. ASSUME NEW i \in Instances, CollectSubscription(i)
          PROVE  UNCHANGED <<instVars, csv, cfg>>
      BY <2>6, <1>d DEF CollectSubscription
    <2>7. ASSUME OLMReportsCSVFailed PROVE UNCHANGED <<instVars, cfg>> /\ KeepsCSV
      <3>1. csv'.owner = csv.owner /\ csv'.exists
        BY <2>7 DEF OLMReportsCSVFailed, CSVs
      <3> QED
        BY <2>7, <3>1 DEF OLMReportsCSVFailed, KeepsCSV
    <2> QED
      BY <1>1, <1>b, <1>c, <2>1, <2>2, <2>3, <2>4, <2>5, <2>6, <2>7 DEF OLMStep
  <1>2. ASSUME OLSStep PROVE UNCHANGED instVars /\ KeepsConfig /\ KeepsCSV
    <2>1. CASE OLSReconciles
      <3>1. cfg'.label = cfg.label /\ cfg'.exists = cfg.exists
            /\ cfg'.fins = cfg.fins \cup {"ols"}
        BY <2>1 DEF OLSReconciles, OLSConfigs
      <3> QED
        BY <2>1, <1>c, <1>d, <3>1 DEF OLSReconciles, KeepsConfig, OwnFinalizer
    <2>2. CASE OLSRollsOut
      <3>1. cfg'.label = cfg.label /\ cfg'.exists = cfg.exists /\ cfg'.fins = cfg.fins
        BY <2>2 DEF OLSRollsOut, OLSConfigs
      <3> QED
        BY <2>2, <1>c, <1>d, <3>1 DEF OLSRollsOut, KeepsConfig
    <2>3. CASE OLSFinalizes
      <3> DEFINE c == [cfg EXCEPT !.fins = @ \ {"ols"}]
      <3>1. /\ c.label = cfg.label /\ c.exists = cfg.exists
            /\ OwnFinalizer \in c.fins <=> OwnFinalizer \in cfg.fins
        BY DEF OLSConfigs, OwnFinalizer
      <3>2. cfg' = Released(c)
        BY <2>3 DEF OLSFinalizes
      <3> HIDE DEF c
      <3>3. KeepsConfig
        BY <1>a, <3>1, <3>2 DEF Released, KeepsConfig
      <3> QED
        BY <2>3, <1>c, <1>d, <3>3 DEF OLSFinalizes
    <2> QED
      BY <1>2, <2>1, <2>2, <2>3 DEF OLSStep
  <1>3. ASSUME NEW i \in Instances, SyncSubscription(i) \/ TimerFires(i)
        PROVE  UNCHANGED instVars /\ KeepsConfig /\ KeepsCSV
    BY <1>3, <1>b, <1>c, <1>d DEF SyncSubscription, TimerFires
  <1>4. ASSUME SyncPlans \/ UpgradeOCP PROVE UNCHANGED instVars /\ KeepsConfig /\ KeepsCSV
    BY <1>4, <1>b, <1>c, <1>d DEF SyncPlans, UpgradeOCP
  <1>5. ASSUME UserInstallsOLS \/ UserUninstallsOLS
        PROVE  UNCHANGED instVars /\ KeepsConfig /\ KeepsCSV
    <2>1. csv'.owner \in {csv.owner, NoInstance} /\ csv'.exists
      BY <1>5, <1>a DEF UserInstallsOLS, UserUninstallsOLS, CSVs, NoCSV
    <2> QED
      BY <1>5, <1>b, <2>1 DEF UserInstallsOLS, UserUninstallsOLS, KeepsCSV
  <1>6. ASSUME UserCreatesConfig PROVE UNCHANGED instVars /\ KeepsConfig /\ KeepsCSV
    <2>1. OwnFinalizer \notin cfg.fins
      BY <1>6 DEF UserCreatesConfig, ConfigHeld, AbsentUnowned
    <2> QED
      BY <1>6, <1>a, <1>c, <1>d, <2>1 DEF UserCreatesConfig, KeepsConfig
  <1>7. ASSUME UserDeletesConfig PROVE UNCHANGED instVars /\ KeepsConfig /\ KeepsCSV
    <2> DEFINE c == [cfg EXCEPT !.deleting = TRUE]
    <2>1. c.label = cfg.label /\ c.exists = cfg.exists /\ c.fins = cfg.fins
      BY DEF OLSConfigs
    <2>2. cfg' = Released(c)
      BY <1>7 DEF UserDeletesConfig
    <2> HIDE DEF c
    <2>3. KeepsConfig
      BY <1>a, <2>1, <2>2 DEF Released, KeepsConfig
    <2> QED
      BY <1>7, <1>c, <1>d, <2>3 DEF UserDeletesConfig
  <1> QED
    BY <1>1, <1>2, <1>3, <1>4, <1>5, <1>6, <1>7

\* Users who create, change and delete instances, and the informer that shows
\* it to the worker, preserve the invariant.
LEMMA InstanceStepSound ==
    ASSUME OwnershipInv, NEW i \in Instances,
           CreateInstance(i) \/ UpdateSpec(i) \/ DeleteInstance(i) \/ SyncInstance(i),
           UNCHANGED workerVars
    PROVE  ClusterSound' /\ ProgressSound'
  <1> USE DEF OwnershipInv, ClusterSound, TypeOK, ClusterTypeOK
  <1>c. UNCHANGED <<cfg, csv>>
    BY DEF CreateInstance, UpdateSpec, DeleteInstance, SyncInstance, csvVars
  <1>p. ProgressSound'
    BY <1>c, KeptProgressSound DEF KeepsConfig, KeepsCSV, AbsentUnowned
  <1>n. pc # "idle" => cur \in Instances
    BY DEF WorkerTypeOK, Owners
  <1>1. ASSUME CreateInstance(i) \/ UpdateSpec(i) \/ DeleteInstance(i)
        PROVE  /\ UNCHANGED cinst
               /\ \A j \in Instances :
                    /\ Finalized(j) => Finalized(j)'
                    /\ Doomed(j) => Doomed(j)'
                    /\ inst'[j].deleting => Live(j)'
                    /\ Ready(j)' /\ ~inst'[j].deleting => Ready(j) /\ ~inst[j].deleting
    <2>1. CASE CreateInstance(i)
      <3>1. UNCHANGED cinst /\ \A j \in Instances : j # i => inst'[j] = inst[j]
        BY <2>1 DEF CreateInstance
      <3>2. /\ inst'[i].phase = "live" /\ ~inst'[i].deleting
            /\ inst'[i].status.conds.ready = "Absent"
        BY <2>1 DEF CreateInstance, CreatedObject, NewObject, NoStatus, NoConds
      <3>3. inst[i].phase = "new"
        BY <2>1 DEF CreateInstance
      <3> QED
        BY <3>1, <3>2, <3>3 DEF Finalized, Doomed, Ready, Live, CopiesSound
    <2>2. CASE UpdateSpec(i)
      <3>1. /\ UNCHANGED cinst
            /\ \A j \in Instances : /\ inst'[j].phase = inst[j].phase
                                    /\ inst'[j].deleting = inst[j].deleting
                                    /\ inst'[j].fin = inst[j].fin
                                    /\ inst'[j].status = inst[j].status
        BY <2>2 DEF UpdateSpec, InstanceObjects
      <3> QED
        BY <3>1 DEF Finalized, Doomed, Ready, Live, CopiesSound
    <2>3. CASE DeleteInstance(i)
      <3>1. UNCHANGED cinst /\ \A j \in Instances : j # i => inst'[j] = inst[j]
        BY <2>3 DEF DeleteInstance
      <3>2. CASE inst[i].fin
        <4>1. inst'[i].phase = "live" /\ inst'[i].deleting /\ inst'[i].fin
          BY <2>3, <3>2 DEF DeleteInstance, InstanceObjects
        <4> QED
          BY <3>1, <4>1 DEF Finalized, Doomed, Ready, Live, CopiesSound
      <3>3. CASE ~inst[i].fin
        <4>1. inst'[i].phase = "gone" /\ ~inst'[i].deleting
          BY <2>3, <3>3 DEF DeleteInstance, GoneObject, NewObject
        <4> QED
          BY <3>1, <3>3, <4>1 DEF Finalized, Doomed, Ready, Live, CopiesSound
      <3> QED
        BY <3>2, <3>3
    <2> QED
      BY <1>1, <2>1, <2>2, <2>3
  <1>2. CASE CreateInstance(i) \/ UpdateSpec(i) \/ DeleteInstance(i)
    <2>1. \A j \in Instances : /\ Trusted(j)' <=> Trusted(j)
                               /\ CacheTrusts(j)' <=> CacheTrusts(j)
      BY <1>1, <1>2 DEF Trusted, CacheTrusts, WorkerTrusts, workerVars
    <2>2. CopiesSound'
      BY <1>1, <1>2, <1>n, <2>1 DEF CopiesSound, workerVars
    <2>3. OwnedResourcesHaveFinalizedOwner'
      BY <1>1, <1>2, <1>c DEF OwnedResourcesHaveFinalizedOwner, Finalized
    <2>4. ConfigHeld'
      BY <1>1, <1>2, <1>c, <2>1 DEF ConfigHeld
    <2>5. ReadyOwnsConfig'
      BY <1>1, <1>2, <1>c DEF ReadyOwnsConfig
    <2>6. AbsentUnowned'
      BY <1>c DEF AbsentUnowned
    <2> QED
      BY <1>p, <2>2, <2>3, <2>4, <2>5, <2>6
  <1>3. CASE SyncInstance(i)
    <2>1. inst' = inst /\ cinst'[i] = inst[i]
          /\ \A j \in Instances : j # i => cinst'[j] = cinst[j]
      BY <1>3 DEF SyncInstance
    <2>2. /\ CacheTrusts(i)' => Finalized(i) /\ ~Doomed(i)
          /\ \A j \in Instances : j # i => (CacheTrusts(j)' <=> CacheTrusts(j))
          /\ \A j \in Instances : WorkerTrusts(j)' <=> WorkerTrusts(j)
          /\ \A j \in Instances : Doomed(j)' <=> Doomed(j)
          /\ \A j \in Instances : Finalized(j)' <=> Finalized(j)
          /\ \A j \in Instances : Live(j)' <=> Live(j)
      BY <2>1 DEF CacheTrusts, WorkerTrusts, Doomed, Finalized, Live, workerVars
    <2>3. CopiesSound'
      <3>1. \A j \in Instances : cinst'[j].deleting => Doomed(j)
        BY <2>1 DEF CopiesSound, Doomed
      <3> QED
        BY <1>n, <2>1, <2>2, <3>1 DEF CopiesSound, Trusted, workerVars
    <2>4. ConfigHeld'
      BY <1>c, <2>2 DEF ConfigHeld, Trusted
    <2>5. OwnedResourcesHaveFinalizedOwner' /\ ReadyOwnsConfig' /\ AbsentUnowned'
      BY <1>c, <2>1 DEF OwnedResourcesHaveFinalizedOwner, ReadyOwnsConfig, AbsentUnowned,
                        Live, Ready
    <2> QED
      BY <1>p, <2>3, <2>4, <2>5
  <1> QED
    BY <1>2, <1>3

\* Steps of the cluster preserve the invariant.
LEMMA ClusterStepSound ==
    ASSUME OwnershipInv, ClusterStep, UNCHANGED workerVars
    PROVE  ClusterSound' /\ ProgressSound'
  <1>1. CASE \E i \in Instances : CreateInstance(i) \/ UpdateSpec(i) \/ DeleteInstance(i)
                                    \/ SyncInstance(i)
    BY <1>1, InstanceStepSound
  <1>2. CASE ~\E i \in Instances : CreateInstance(i) \/ UpdateSpec(i) \/ DeleteInstance(i)
                                    \/ SyncInstance(i)
    <2>1. UNCHANGED instVars /\ KeepsConfig /\ KeepsCSV
      BY <1>2, EnvironmentKeepsOwnership DEF ClusterStep, UserStep, SyncStep
    <2>2. KeepsWorkersCopy
      BY DEF workerVars, KeepsWorkersCopy
    <2> QED
      BY <2>1, <2>2, KeptClusterSound, KeptProgressSound
  <1> QED
    BY <1>1, <1>2

-----------------------------------------------------------------------------
(* The steps of the worker.                                                *)

Working == pc \notin {"idle"} \cup PatchLabels

\* While the worker installs and configures, its instance has the finalizer.
LEMMA InstallerTrusted ==
    ASSUME OwnershipInv, pc \in InstallLabels \cup ConfigLabels \cup ReadyLabels
    PROVE  /\ Working /\ before.fin /\ ~before.deleting
           /\ cur \in Instances /\ Finalized(cur) /\ WorkerTrusts(cur)
  <1> USE DEF OwnershipInv
  <1>1. Working /\ pc # "idle" /\ before.fin /\ ~before.deleting
    BY DEF Working, PatchLabels, InstallLabels, ConfigLabels, ReadyLabels, ProgressSound,
           WorkerSound
  <1>2. cur \in Instances
    BY <1>1 DEF TypeOK, WorkerTypeOK, Owners
  <1> QED
    BY <1>1, <1>2 DEF ClusterSound, CopiesSound, Trusted, WorkerTrusts

\* While it removes things, its instance is being deleted.
LEMMA RemoverDeleting ==
    ASSUME OwnershipInv, pc \in RemoveLabels \cup UninstallLabels
    PROVE  Working /\ pc # "idle" /\ before.deleting /\ cur \in Instances
  <1> USE DEF OwnershipInv
  <1>1. Working /\ pc # "idle" /\ before.deleting
    BY DEF Working, PatchLabels, RemoveLabels, UninstallLabels, ProgressSound, WorkerSound
  <1> QED
    BY <1>1 DEF TypeOK, WorkerTypeOK, Owners

\* A return that does not give up the finalizer, and reports the OLSConfig as
\* ready to nobody but its owner, preserves what is known of the worker.
LEMMA ReturnSound ==
    ASSUME OwnershipInv, Working,
           NEW o \in InstanceObjects, NEW r \in BOOLEAN, Return(o, r),
           o.deleting = obj.deleting,
           \/ o.fin = obj.fin \/ o.fin
           \/ before.deleting /\ cfg'.label # cur /\ csv'.owner # cur,
           o.status.conds.ols # "Absent",
           o.status.conds.ols = "True" => cfg'.label = cur /\ WorkerTrusts(cur)
    PROVE  ProgressSound'
  <1> USE DEF OwnershipInv, ProgressSound, Working, PatchLabels
  <1>1. /\ pc' = "patch" /\ obj' = o /\ cur' = cur /\ before' = before
        /\ obj.fin = before.fin /\ obj.deleting = before.deleting
    BY DEF Return, WorkerSound
  <1>2. WorkerSound'
    BY <1>1 DEF WorkerSound, InstallLabels, ConfigLabels, ReadyLabels, RemoveLabels,
                UninstallLabels
  <1>3. ReleaseSound'
    BY <1>1 DEF ReleaseSound, UninstallLabels
  <1>4. SeenConfigSound'
    BY <1>1 DEF SeenConfigSound, ReadyLabels
  <1>5. ReportSound'
    BY <1>1 DEF ReportSound, WorkerTrusts
  <1> QED
    BY <1>2, <1>3, <1>4, <1>5

\* The returns by name.
LEMMA ReturnsSound ==
    ASSUME OwnershipInv, Working,
           \/ ReturnOperatorError("UserInstalled") \/ ReturnOperatorError("Error")
           \/ ReturnOperatorWait \/ ReturnConfigError \/ ReturnRetry
           \/ ReturnReady /\ cfg'.label = cur /\ WorkerTrusts(cur)
           \/ ReturnDeleted /\ before.deleting /\ cfg'.label # cur /\ csv'.owner # cur
    PROVE  ProgressSound'
  <1>1. /\ obj \in InstanceObjects
        /\ obj.status.conds.ols \notin {"Absent", "True"}
    BY DEF OwnershipInv, TypeOK, WorkerTypeOK, ProgressSound, ReportSound, Working
  <1>2. ASSUME NEW o \in InstanceObjects, NEW r \in BOOLEAN, Return(o, r),
               o.deleting = obj.deleting, o.fin = obj.fin,
               \/ o.status.conds.ols \in {obj.status.conds.ols, "Error"}
               \/ /\ o.status.conds.ols = "True"
                  /\ cfg'.label = cur /\ WorkerTrusts(cur)
        PROVE  ProgressSound'
    BY <1>1, <1>2, ReturnSound
  <1>3. ASSUME NEW c \in OperatorOutcomes, NEW r \in BOOLEAN,
               Return([obj EXCEPT !.status.conds.op = c], r)
        PROVE  ProgressSound'
    <2> DEFINE o == [obj EXCEPT !.status.conds.op = c]
    <2>1. o \in InstanceObjects
      BY <1>1, UpdatedObjectTypes
    <2>2. o.deleting = obj.deleting /\ o.fin = obj.fin
          /\ o.status.conds.ols = obj.status.conds.ols
      BY <1>1 DEF InstanceObjects, Status, Conds
    <2>3. Return(o, r)
      BY <1>3
    <2> HIDE DEF o
    <2> QED
      BY <1>2, <2>1, <2>2, <2>3
  <1>4. ASSUME NEW c \in OLSOutcomes, NEW r \in BOOLEAN,
               Return([obj EXCEPT !.status.conds.ols = c], r),
               \/ c = "Error"
               \/ c = "True" /\ cfg'.label = cur /\ WorkerTrusts(cur)
        PROVE  ProgressSound'
    <2> DEFINE o == [obj EXCEPT !.status.conds.ols = c]
    <2>1. o \in InstanceObjects
      BY <1>1, UpdatedObjectTypes
    <2>2. o.deleting = obj.deleting /\ o.fin = obj.fin /\ o.status.conds.ols = c
      BY <1>1 DEF InstanceObjects, Status, Conds
    <2>3. Return(o, r)
      BY <1>4
    <2> HIDE DEF o
    <2> QED
      BY <1>2, <1>4, <2>1, <2>2, <2>3
  <1>5. CASE ReturnDeleted /\ before.deleting /\ cfg'.label # cur /\ csv'.owner # cur
    <2> DEFINE o == [obj EXCEPT !.fin = FALSE]
    <2>1. o \in InstanceObjects
      BY <1>1, UpdatedObjectTypes
    <2>2. o.deleting = obj.deleting /\ o.status.conds.ols = obj.status.conds.ols
      BY <1>1 DEF InstanceObjects
    <2>3. Return(o, FALSE)
      BY <1>5 DEF ReturnDeleted
    <2> HIDE DEF o
    <2> QED
      BY <1>1, <1>5, <2>1, <2>2, <2>3, ReturnSound
  <1>6. CASE ReturnOperatorError("UserInstalled") \/ ReturnOperatorError("Error")
               \/ ReturnOperatorWait
    BY <1>3, <1>6 DEF ReturnOperatorError, ReturnOperatorWait, OperatorOutcomes
  <1>7. CASE \/ ReturnConfigError
             \/ ReturnReady /\ cfg'.label = cur /\ WorkerTrusts(cur)
    BY <1>4, <1>7 DEF ReturnConfigError, ReturnReady, OLSOutcomes
  <1>8. CASE ReturnRetry
    BY <1>1, <1>2, <1>8 DEF ReturnRetry
  <1> QED
    BY <1>5, <1>6, <1>7, <1>8

\* The worker goes on to the next call of the same part of Reconcile, or of
\* the next part.
Advances(l) ==
    /\ pc' = l
    /\ UNCHANGED <<cur, before>>
    /\ obj'.deleting = obj.deleting /\ obj'.fin = obj.fin
    /\ obj'.status.conds.ols = obj.status.conds.ols

\* Such a step preserves what is known of the worker when what the new label
\* says of the two objects holds.
LEMMA AdvanceSound ==
    ASSUME OwnershipInv, Working, NEW l, Advances(l),
           \/ /\ l \in InstallLabels \cup ConfigLabels \cup ReadyLabels
              /\ before.fin /\ ~before.deleting
           \/ l \in RemoveLabels \cup UninstallLabels /\ before.deleting,
           l \in UninstallLabels => cfg'.label = NoInstance,
           SeenConfigSound'
    PROVE  ProgressSound'
  <1> USE DEF OwnershipInv, ProgressSound, Working, Advances
  <1>l. l \notin {"idle"} \cup PatchLabels
    BY DEF PatchLabels, InstallLabels, ConfigLabels, ReadyLabels, RemoveLabels,
           UninstallLabels
  <1>1. WorkerSound'
    BY <1>l DEF WorkerSound, InstallLabels, ConfigLabels, ReadyLabels, RemoveLabels,
                UninstallLabels
  <1>2. ReleaseSound'
    BY <1>l DEF ReleaseSound, PatchLabels
  <1>3. ReportSound'
    BY <1>l DEF ReportSound, PatchLabels
  <1> QED
    BY <1>1, <1>2, <1>3

\* The calls of EnsureOLSOperatorInstalled leave the OLSConfig alone and take
\* the CSV for an instance that has the finalizer.
LEMMA InstallTakesCSV ==
    ASSUME OwnershipInv, InstallStep
    PROVE  /\ pc \in InstallLabels
           /\ UNCHANGED cfg /\ UNCHANGED instVars
           /\ KeepsCSV \/ TakesCSV
  <1> USE DEF OwnershipInv, TypeOK, ClusterTypeOK
  <1>p. pc \in InstallLabels
    BY DEF InstallStep, EnsureOLSOperatorInstalled, WriteSubscription,
           CheckSubscription, ApproveOLSOperatorInstallPlan, FindCSVToOwn, OwnCSV,
           CompleteInstall, InstallLabels
  <1>w. cur \in Instances /\ Finalized(cur)
    BY <1>p, InstallerTrusted
  <1>s. UNCHANGED cfg /\ UNCHANGED instVars
    BY DEF InstallStep, EnsureOLSOperatorInstalled, WriteSubscription,
           CheckSubscription, ApproveOLSOperatorInstallPlan, FindCSVToOwn, OwnCSV,
           CompleteInstall, clusterVars
  <1>1. CASE UNCHANGED csv
    BY <1>1, <1>p, <1>s DEF KeepsCSV, ClusterSound, AbsentUnowned
  <1>2. CASE ~UNCHANGED csv
    <2>1. /\ csv' = [csv EXCEPT !.owner = cur] /\ csv.exists
      BY <1>2 DEF InstallStep, EnsureOLSOperatorInstalled, WriteSubscription,
           CheckSubscription, ApproveOLSOperatorInstallPlan, FindCSVToOwn, OwnCSV,
           CompleteInstall, SeenCSVGone, clusterVars, csvVars
    <2>2. csv'.owner = cur /\ csv'.exists
      BY <2>1 DEF CSVs
    <2> QED
      BY <1>p, <1>s, <1>w, <2>2 DEF TakesCSV
  <1> QED
    BY <1>1, <1>2

\* The calls of EnsureOLSOperatorInstalled preserve the invariant.
LEMMA InstallStepSound ==
    ASSUME OwnershipInv, InstallStep
    PROVE  ClusterSound' /\ ProgressSound'
  <1> USE DEF OwnershipInv, TypeOK, ClusterTypeOK
  <1>c. /\ pc \in InstallLabels
        /\ UNCHANGED cfg /\ UNCHANGED instVars
        /\ KeepsCSV \/ TakesCSV
    BY InstallTakesCSV
  <1>w. Working /\ before.fin /\ ~before.deleting
    BY <1>c, InstallerTrusted
  <1>k. KeepsWorkersCopy
    BY <1>c DEF InstallStep, EnsureOLSOperatorInstalled, WriteSubscription,
           CheckSubscription, ApproveOLSOperatorInstallPlan, FindCSVToOwn, OwnCSV,
           CompleteInstall, ReturnOperatorError, ReturnOperatorWait, Return, Goto,
           KeepsWorkersCopy, InstallLabels
  <1>1. ClusterSound'
    BY <1>c, <1>k, KeptClusterSound DEF KeepsConfig
  <1>r. ASSUME ReturnOperatorError("UserInstalled") \/ ReturnOperatorError("Error")
                 \/ ReturnOperatorWait
        PROVE  ProgressSound'
    BY <1>r, <1>w, ReturnsSound
  <1>a. ASSUME NEW l \in {"subscribe", "approve", "adopt", "adoptWrite", "complete",
                          "cfgGet"}, Advances(l)
        PROVE  ProgressSound'
    <2>1. l \in InstallLabels \cup ConfigLabels /\ l \notin UninstallLabels
      BY DEF InstallLabels, ConfigLabels, UninstallLabels
    <2>2. SeenConfigSound'
      BY <1>a DEF Advances, SeenConfigSound, ReadyLabels
    <2> QED
      BY <1>a, <1>w, <2>1, <2>2, AdvanceSound
  <1>g. ASSUME NEW l \in {"subscribe", "approve", "adopt"}, Goto(l)
        PROVE  ProgressSound'
    BY <1>a, <1>g DEF Goto, Advances
  <1>2. ProgressSound'
    <2>1. CASE EnsureOLSOperatorInstalled
      BY <2>1, <1>r, <1>g DEF EnsureOLSOperatorInstalled
    <2>2. CASE WriteSubscription
      BY <2>2, <1>r DEF WriteSubscription
    <2>3. CASE CheckSubscription
      BY <2>3, <1>r, <1>g DEF CheckSubscription
    <2>4. CASE ApproveOLSOperatorInstallPlan
      BY <2>4, <1>r, <1>g DEF ApproveOLSOperatorInstallPlan
    <2>5. CASE FindCSVToOwn
      BY <2>5, <1>r, <1>a DEF FindCSVToOwn, Advances
    <2>6. CASE OwnCSV
      BY <2>6, <1>r, <1>a DEF OwnCSV, Advances
    <2>7. CASE CompleteInstall
      <3>1. CASE ReturnOperatorWait
        BY <1>r, <3>1
      <3>2. CASE ~ReturnOperatorWait
        <4>1. pc' = "cfgGet" /\ UNCHANGED <<cur, before>>
              /\ obj' = [obj EXCEPT !.status.conds.op = "True"]
          BY <2>7, <3>2 DEF CompleteInstall
        <4>2. obj'.deleting = obj.deleting /\ obj'.fin = obj.fin
              /\ obj'.status.conds.ols = obj.status.conds.ols
          BY <4>1 DEF WorkerTypeOK, InstanceObjects, Status, Conds
        <4> QED
          BY <1>a, <4>1, <4>2 DEF Advances
      <3> QED
        BY <3>1, <3>2
    <2> QED
      BY <2>1, <2>2, <2>3, <2>4, <2>5, <2>6, <2>7 DEF InstallStep
  <1> QED
    BY <1>1, <1>2

\* The calls of UninstallInstanceOwnedOLSOperator change no owner.
LEMMA UninstallKeepsCSV ==
    ASSUME OwnershipInv, UninstallStep
    PROVE  pc \in UninstallLabels /\ UNCHANGED cfg /\ UNCHANGED instVars /\ KeepsCSV
  <1> USE DEF OwnershipInv, TypeOK, ClusterTypeOK
  <1> USE DEF UninstallStep, FindCSVToUninstall, DeleteOLSOperatorInstallPlan, DeleteCSV,
              CheckUninstalled
  <1>s. pc \in UninstallLabels /\ UNCHANGED cfg /\ UNCHANGED instVars
    BY DEF UninstallLabels, clusterVars
  <1>1. CASE UNCHANGED csv
    BY <1>1, <1>s DEF KeepsCSV, ClusterSound, AbsentUnowned
  <1>2. CASE ~UNCHANGED csv
    <2>1. csv' = [csv EXCEPT !.deleting = TRUE] /\ csv.exists
      BY <1>2 DEF SeenCSVGone, clusterVars, csvVars
    <2>2. csv'.owner = csv.owner /\ csv'.exists
      BY <2>1 DEF CSVs
    <2> QED
      BY <1>s, <2>2 DEF KeepsCSV
  <1> QED
    BY <1>1, <1>2

\* The calls of UninstallInstanceOwnedOLSOperator preserve the invariant: they
\* give the finalizer up only when the CSV is not owned any more.
LEMMA UninstallStepSound ==
    ASSUME OwnershipInv, UninstallStep
    PROVE  ClusterSound' /\ ProgressSound'
  <1> USE DEF OwnershipInv, TypeOK, ClusterTypeOK
  <1> USE DEF UninstallStep, FindCSVToUninstall, DeleteOLSOperatorInstallPlan, DeleteCSV,
              CheckUninstalled
  <1>s. pc \in UninstallLabels /\ UNCHANGED cfg /\ UNCHANGED instVars /\ KeepsCSV
    BY UninstallKeepsCSV
  <1>w. /\ Working /\ before.deleting /\ cur \in Instances /\ cur # NoInstance
        /\ cfg.label = NoInstance
    BY <1>s, RemoverDeleting, InstancesAssumption DEF ProgressSound, ReleaseSound
  <1>k. KeepsWorkersCopy
    BY DEF ReturnDeleted, ReturnRetry, Return, Goto, KeepsWorkersCopy
  <1>1. ClusterSound'
    BY <1>s, <1>k, KeptClusterSound DEF KeepsConfig
  <1>r. ASSUME ReturnRetry PROVE ProgressSound'
    BY <1>r, <1>w, ReturnsSound
  <1>d. ASSUME ReturnDeleted, csv'.owner # cur PROVE ProgressSound'
    BY <1>d, <1>s, <1>w, ReturnsSound
  <1>a. ASSUME NEW l \in UninstallLabels, Advances(l) PROVE ProgressSound'
    <2>1. SeenConfigSound'
      BY <1>a DEF Advances, SeenConfigSound, ReadyLabels, UninstallLabels
    <2> QED
      BY <1>a, <1>s, <1>w, <2>1, AdvanceSound
  <1>2. ProgressSound'
    <2>1. CASE FindCSVToUninstall
      <3>1. CASE ~IsOwnedBy(csv, cur)
        BY <2>1, <1>d, <1>w, <3>1
        DEF clusterVars, csvVars, IsOwnedBy, ClusterSound, AbsentUnowned
      <3>2. CASE IsOwnedBy(csv, cur)
        BY <2>1, <1>a, <3>2 DEF Advances, UninstallLabels
      <3> QED
        BY <3>1, <3>2
    <2>2. CASE DeleteOLSOperatorInstallPlan
      BY <2>2, <1>r, <1>a DEF Goto, Advances, UninstallLabels
    <2>3. CASE DeleteCSV
      BY <2>3, <1>r, <1>a DEF Advances, UninstallLabels
    <2>4. CASE CheckUninstalled
      BY <2>4, <1>r, <1>d, <1>w DEF clusterVars, csvVars, ClusterSound, AbsentUnowned
    <2> QED
      BY <2>1, <2>2, <2>3, <2>4
  <1> QED
    BY <1>1, <1>2

\* When the worker has written the OLSConfig, or found it as it should be, the
\* OLSConfig has the instance's label and finalizer.
LEMMA WrittenConfigTaken ==
    ASSUME OwnershipInv, pc = "cfgWrite", cur \in Instances, Finalized(cur),
           WorkerTrusts(cur),
           \/ ConfigWritten(PatchOLSConfig(seenCfg))
           \/ PatchOLSConfig(seenCfg) = seenCfg /\ cfg' = cfg
    PROVE  TakesConfig /\ cfg'.label = cur
  <1> USE DEF OwnershipInv, TypeOK, ClusterTypeOK, WorkerTypeOK
  <1> DEFINE new == PatchOLSConfig(seenCfg)
  <1>1. /\ cfg.label \in {NoInstance, cur} /\ seenCfg.label \in {NoInstance, cur}
        /\ seenCfg.label = cur => cfg.label = cur
        /\ OwnFinalizer \in seenCfg.fins <=> seenCfg.label = cur
    BY DEF ProgressSound, SeenConfigSound
  <1>2. cfg.label = cur => cfg.exists /\ OwnFinalizer \in cfg.fins
    BY DEF ClusterSound, ConfigHeld, Trusted
  <1>3. new.exists /\ new.label = cur /\ new.fins = seenCfg.fins \cup {OwnFinalizer}
    BY <1>1 DEF PatchOLSConfig, OLSConfigs
  <1>n. NoInstance \notin Instances
    BY InstancesAssumption
  <1>4. \/ cfg' = [new EXCEPT !.dirty = TRUE]
        \/ cfg' = cfg /\ new = seenCfg
        \/ cfg' = PatchedConfig(new) /\ cfg.exists
    BY DEF ConfigWritten
  <1>5. new \in OLSConfigs
    BY PatchedConfigTypes
  <1> HIDE DEF new
  <1>6. CASE cfg' = [new EXCEPT !.dirty = TRUE]
    <2>1. cfg'.exists /\ cfg'.label = cur /\ cfg'.fins = new.fins
      BY <1>3, <1>5, <1>6 DEF OLSConfigs
    <2> QED
      BY <1>1, <1>3, <2>1 DEF TakesConfig
  <1>7. CASE cfg' = cfg /\ new = seenCfg
    BY <1>1, <1>2, <1>3, <1>7 DEF TakesConfig
  <1>8. CASE cfg' = PatchedConfig(new) /\ cfg.exists
    <2>1. /\ cfg'.exists
          /\ cfg'.label = (IF new.label = seenCfg.label THEN cfg.label ELSE new.label)
          /\ cfg'.fins = (IF new.fins = seenCfg.fins THEN cfg.fins ELSE new.fins)
      BY <1>5, <1>8 DEF PatchedConfig, OLSConfigs
    <2>2. cfg'.label = cur
      BY <1>1, <1>3, <2>1
    <2>3. OwnFinalizer \in cfg'.fins
      BY <1>1, <1>2, <1>3, <2>1
    <2> QED
      BY <1>1, <2>1, <2>2, <2>3 DEF TakesConfig
  <1> QED
    BY <1>4, <1>6, <1>7, <1>8

\* The calls that write the OLSConfig and wait for it leave the CSV alone and
\* take the OLSConfig for an instance that has the finalizer.
LEMMA ConfigTakesConfig ==
    ASSUME OwnershipInv, ConfigStep
    PROVE  /\ pc \in ConfigLabels \cup ReadyLabels
           /\ UNCHANGED csv /\ UNCHANGED instVars
           /\ KeepsConfig \/ TakesConfig
           /\ pc = "cfgWrite" /\ Goto("ready") => cfg'.label = cur
  <1> USE DEF OwnershipInv, TypeOK, ClusterTypeOK
  <1> USE DEF ConfigStep, GetOLSConfig, WriteOLSConfig, IsOLSConfigReady, OLSConfigPing,
              UpdatePingLabel
  <1>p. pc \in ConfigLabels \cup ReadyLabels
    BY DEF ConfigLabels, ReadyLabels
  <1>w. cur \in Instances /\ Finalized(cur) /\ WorkerTrusts(cur)
    BY <1>p, InstallerTrusted
  <1>i. UNCHANGED instVars /\ UNCHANGED csv
    BY DEF clusterVars, csvVars
  <1>1. CASE WriteOLSConfig /\ Goto("ready")
    <2>1. /\ pc = "cfgWrite"
          /\ \/ ConfigWritten(PatchOLSConfig(seenCfg))
             \/ PatchOLSConfig(seenCfg) = seenCfg /\ cfg' = cfg
      BY <1>1 DEF Goto, ReturnConfigError, Return
    <2> QED
      BY <1>i, <1>p, <1>w, <2>1, WrittenConfigTaken
  <1>2. CASE UpdatePingLabel
    <2>1. cfg'.label = cfg.label /\ cfg'.exists = cfg.exists /\ cfg'.fins = cfg.fins
      BY <1>2 DEF OLSConfigs
    <2> QED
      BY <1>2, <1>i, <1>p, <2>1 DEF KeepsConfig
  <1>3. CASE ~(WriteOLSConfig /\ Goto("ready")) /\ ~UpdatePingLabel
    <2>1. UNCHANGED cfg /\ ~(pc = "cfgWrite" /\ Goto("ready"))
      BY <1>3 DEF clusterVars
    <2> QED
      BY <1>i, <1>p, <2>1 DEF KeepsConfig
  <1> QED
    BY <1>1, <1>2, <1>3

\* The calls that write the OLSConfig and wait for it preserve the invariant.
LEMMA ConfigStepSound ==
    ASSUME OwnershipInv, ConfigStep
    PROVE  ClusterSound' /\ ProgressSound'
  <1> USE DEF OwnershipInv, TypeOK, ClusterTypeOK
  <1> USE DEF ConfigStep, GetOLSConfig, WriteOLSConfig, IsOLSConfigReady, OLSConfigPing,
              UpdatePingLabel
  <1>c. /\ pc \in ConfigLabels \cup ReadyLabels
        /\ UNCHANGED csv /\ UNCHANGED instVars
        /\ KeepsConfig \/ TakesConfig
        /\ pc = "cfgWrite" /\ Goto("ready") => cfg'.label = cur
    BY ConfigTakesConfig
  <1>w. /\ Working /\ before.fin /\ ~before.deleting
        /\ cur \in Instances /\ WorkerTrusts(cur)
        /\ cfg.label = cur => OwnFinalizer \in cfg.fins
    BY <1>c, InstallerTrusted DEF ClusterSound, ConfigHeld, Trusted
  <1>o. UNCHANGED clusterVars => UNCHANGED cfg
    BY DEF clusterVars
  <1>u. ClusterSound'
    <2>1. KeepsCSV
      BY <1>c DEF KeepsCSV, ClusterSound, AbsentUnowned
    <2>2. KeepsWorkersCopy
      BY DEF ReturnConfigError, ReturnRetry, ReturnReady, Return, Goto, KeepsWorkersCopy
    <2> QED
      BY <1>c, <2>1, <2>2, KeptClusterSound
  <1>r. ASSUME ReturnConfigError \/ ReturnRetry PROVE ProgressSound'
    BY <1>r, <1>w, ReturnsSound
  <1>a. ASSUME NEW l \in ConfigLabels \cup ReadyLabels, Advances(l), SeenConfigSound'
        PROVE  ProgressSound'
    <2>1. l \notin UninstallLabels
      BY DEF ConfigLabels, ReadyLabels, UninstallLabels
    <2> QED
      BY <1>a, <1>w, <2>1, AdvanceSound
  <1>b. ASSUME NEW l \in ReadyLabels, Advances(l), cfg'.label = cur
        PROVE  ProgressSound'
    <2>1. SeenConfigSound'
      BY <1>b DEF Advances, SeenConfigSound, ReadyLabels
    <2> QED
      BY <1>a, <1>b, <2>1
  <1>1. ASSUME GetOLSConfig PROVE ClusterSound' /\ ProgressSound'
    <2>1. CASE ReturnConfigError
      BY <1>1, <1>r, <1>o, <1>u, <2>1
    <2>2. CASE ~ReturnConfigError
      <3>1. /\ cfg.label \in {NoInstance, cur} /\ seenCfg' = cfg /\ pc' = "cfgWrite"
            /\ UNCHANGED <<cur, before, obj, cfg>>
        BY <1>1, <1>o, <2>2 DEF OwnedByOther
      <3>2. SeenConfigSound'
        BY <1>w, <3>1 DEF SeenConfigSound, ReadyLabels, ClusterSound, ConfigHeld
      <3> QED
        BY <1>a, <1>u, <3>1, <3>2 DEF Advances, ConfigLabels
    <2> QED
      BY <2>1, <2>2
  <1>2. ASSUME WriteOLSConfig PROVE ClusterSound' /\ ProgressSound'
    <2>1. CASE Goto("ready")
      BY <1>2, <1>b, <1>c, <1>u, <2>1 DEF Goto, Advances, ReadyLabels
    <2>2. CASE ~Goto("ready")
      BY <1>2, <1>r, <1>u, <2>2
    <2> QED
      BY <2>1, <2>2
  <1>3. ASSUME IsOLSConfigReady PROVE ClusterSound' /\ ProgressSound'
    <2>1. cfg'.label = cur
      BY <1>3, <1>o DEF ProgressSound, SeenConfigSound, ReadyLabels
    <2>2. ASSUME ReturnReady PROVE ProgressSound'
      BY <1>w, <2>1, <2>2, ReturnsSound
    <2> QED
      BY <1>3, <1>r, <1>b, <1>o, <1>u, <2>1, <2>2 DEF Goto, Advances, ReadyLabels
  <1>4. ASSUME OLSConfigPing PROVE ClusterSound' /\ ProgressSound'
    <2>1. cfg'.label = cur
      BY <1>4, <1>o DEF ProgressSound, SeenConfigSound, ReadyLabels
    <2> QED
      BY <1>4, <1>r, <1>b, <1>o, <1>u, <2>1 DEF Advances, ReadyLabels
  <1>5. ASSUME UpdatePingLabel PROVE ClusterSound' /\ ProgressSound'
    BY <1>5, <1>r, <1>u
  <1> QED
    BY <1>1, <1>2, <1>3, <1>4, <1>5

\* A write whose response is lost takes the OLSConfig, or nothing.
LEMMA ResponseLostTakesConfig ==
    ASSUME OwnershipInv, SubscriptionResponseLost \/ ConfigResponseLost
    PROVE  /\ pc \in InstallLabels \cup ConfigLabels
           /\ UNCHANGED csv /\ UNCHANGED instVars
           /\ KeepsConfig \/ TakesConfig
  <1>p. pc \in InstallLabels \cup ConfigLabels
    BY DEF SubscriptionResponseLost, ConfigResponseLost, InstallLabels, ConfigLabels
  <1>i. UNCHANGED instVars /\ UNCHANGED csv
    BY DEF SubscriptionResponseLost, ConfigResponseLost, csvVars
  <1>1. CASE SubscriptionResponseLost
    BY <1>1, <1>i, <1>p DEF SubscriptionResponseLost, KeepsConfig
  <1>2. CASE ConfigResponseLost
    BY <1>2, <1>i, <1>p, InstallerTrusted, WrittenConfigTaken DEF ConfigResponseLost
  <1> QED
    BY <1>1, <1>2

\* Writes whose response is lost preserve the invariant: the worker reports an
\* error and owns what it wrote.
LEMMA ResponseLostSound ==
    ASSUME OwnershipInv, SubscriptionResponseLost \/ ConfigResponseLost
    PROVE  ClusterSound' /\ ProgressSound'
  <1>c. /\ pc \in InstallLabels \cup ConfigLabels
        /\ UNCHANGED csv /\ UNCHANGED instVars
        /\ KeepsConfig \/ TakesConfig
    BY ResponseLostTakesConfig
  <1>r. ReturnOperatorError("Error") \/ ReturnConfigError
    BY DEF SubscriptionResponseLost, ConfigResponseLost
  <1>w. Working
    BY <1>c, InstallerTrusted
  <1>v. KeepsCSV
    BY <1>c DEF KeepsCSV, OwnershipInv, ClusterSound, AbsentUnowned
  <1>k. KeepsWorkersCopy
    BY <1>r, <1>w DEF ReturnOperatorError, ReturnConfigError, Return, KeepsWorkersCopy,
                      Working
  <1> QED
    BY <1>c, <1>k, <1>r, <1>v, <1>w, KeptClusterSound, ReturnsSound

\* The calls of RemoveOLSConfig take the finalizer from an OLSConfig that is the
\* deleted instance's own, and leave the owner of any other one alone.
LEMMA RemoveReleasesConfig ==
    ASSUME OwnershipInv, RemoveStep
    PROVE  /\ pc \in RemoveLabels
           /\ UNCHANGED csv /\ UNCHANGED instVars
           /\ KeepsConfig \/ ReleasesConfig
  <1> USE DEF OwnershipInv, TypeOK, ClusterTypeOK
  <1> USE DEF RemoveStep, FindOLSConfigToRemove, CheckOLSConfigOwner, RemoveOwnFinalizer,
              DeleteOLSConfig, CheckOLSConfigRemoved
  <1>i. pc \in RemoveLabels /\ UNCHANGED instVars /\ UNCHANGED csv
    BY DEF RemoveLabels, clusterVars, csvVars
  <1>w. pc # "idle" /\ before.deleting
    BY <1>i, RemoverDeleting
  <1>n. /\ NoOLSConfig.label = NoInstance /\ NoOLSConfig.fins = {}
    BY DEF NoOLSConfig
  <1>1. CASE UNCHANGED cfg
    BY <1>1, <1>i DEF KeepsConfig
  <1>2. CASE pc = "rmPatch" /\ cfg.exists
             /\ cfg' = Released([cfg EXCEPT !.fins = RemainingFinalizers, !.dirty = TRUE])
    <2> DEFINE c == [cfg EXCEPT !.fins = RemainingFinalizers, !.dirty = TRUE]
    <2>1. c.label = cfg.label /\ c.exists /\ OwnFinalizer \notin c.fins
      BY <1>2 DEF OLSConfigs, RemainingFinalizers
    <2>2. cfg' \in {c, NoOLSConfig}
      BY <1>2 DEF Released
    <2> HIDE DEF c
    <2>3. cfg.label \in {NoInstance, cur}
      BY <1>2 DEF ProgressSound, SeenConfigSound
    <2> QED
      BY <1>i, <1>n, <1>w, <2>1, <2>2, <2>3 DEF ReleasesConfig
  <1>3. CASE pc = "rmDelete" /\ cfg.exists
             /\ cfg' = Released([cfg EXCEPT !.deleting = TRUE])
    <2> DEFINE c == [cfg EXCEPT !.deleting = TRUE]
    <2>1. c.label = cfg.label /\ c.exists = cfg.exists /\ c.fins = cfg.fins
      BY DEF OLSConfigs
    <2>2. cfg' = IF c.deleting /\ c.fins = {} THEN NoOLSConfig ELSE c
      BY <1>3 DEF Released
    <2> HIDE DEF c
    <2> QED
      BY <1>i, <1>n, <2>1, <2>2 DEF KeepsConfig
  <1> QED
    BY <1>1, <1>2, <1>3 DEF clusterVars

\* The calls of RemoveOLSConfig preserve the invariant: an OLSConfig that
\* another instance relies on outlives its deletion.
LEMMA RemoveStepSound ==
    ASSUME OwnershipInv, RemoveStep
    PROVE  ClusterSound' /\ ProgressSound'
  <1> USE DEF OwnershipInv, TypeOK, ClusterTypeOK
  <1> USE DEF RemoveStep, FindOLSConfigToRemove, CheckOLSConfigOwner, RemoveOwnFinalizer,
              DeleteOLSConfig, CheckOLSConfigRemoved
  <1>c. /\ pc \in RemoveLabels
        /\ UNCHANGED csv /\ UNCHANGED instVars
        /\ KeepsConfig \/ ReleasesConfig
    BY RemoveReleasesConfig
  <1>w. Working /\ before.deleting
    BY <1>c, RemoverDeleting
  <1>v. KeepsCSV
    BY <1>c DEF KeepsCSV, ClusterSound, AbsentUnowned
  <1>k. KeepsWorkersCopy
    BY DEF ReturnRetry, Return, Goto, KeepsWorkersCopy
  <1>1. ClusterSound'
    BY <1>c, <1>v, <1>k, KeptClusterSound
  <1>r. ASSUME ReturnRetry PROVE ProgressSound'
    BY <1>r, <1>w, ReturnsSound
  <1>a. ASSUME NEW l \in RemoveLabels \cup {"unList"}, Advances(l),
               l = "rmPatch" => cfg'.label = cur,
               l = "unList" => cfg'.label = NoInstance
        PROVE  ProgressSound'
    <2>1. SeenConfigSound'
      BY <1>a DEF Advances, SeenConfigSound, ReadyLabels, RemoveLabels
    <2>2. /\ l \in RemoveLabels \cup UninstallLabels
          /\ l \in UninstallLabels => l = "unList"
      BY DEF RemoveLabels, UninstallLabels
    <2> QED
      BY <1>a, <1>w, <2>1, <2>2, AdvanceSound
  <1>g. ASSUME NEW l \in {"rmGet", "rmDelete", "rmCheck"}, Goto(l) PROVE ProgressSound'
    BY <1>a, <1>g DEF Goto, Advances, RemoveLabels
  <1>u. ASSUME Goto("unList"), ~cfg.exists, UNCHANGED cfg PROVE ProgressSound'
    BY <1>a, <1>u DEF Goto, Advances, ClusterSound, AbsentUnowned
  <1>o. UNCHANGED clusterVars => UNCHANGED cfg
    BY DEF clusterVars
  <1>2. ProgressSound'
    <2>1. CASE FindOLSConfigToRemove
      BY <2>1, <1>r, <1>g, <1>u, <1>o
    <2>2. CASE CheckOLSConfigOwner
      <3>1. CASE ReturnRetry \/ Goto("rmDelete")
        BY <1>r, <1>g, <3>1
      <3>2. CASE ~(ReturnRetry \/ Goto("rmDelete"))
        BY <2>2, <1>a, <1>o, <3>2 DEF Advances, RemoveLabels
      <3> QED
        BY <3>1, <3>2
    <2>3. CASE RemoveOwnFinalizer
      BY <2>3, <1>r, <1>a DEF Advances, RemoveLabels
    <2>4. CASE DeleteOLSConfig
      BY <2>4, <1>r, <1>g
    <2>5. CASE CheckOLSConfigRemoved
      BY <2>5, <1>r, <1>u, <1>o
    <2> QED
      BY <2>1, <2>2, <2>3, <2>4, <2>5
  <1> QED
    BY <1>1, <1>2

\* A worker that is idle has no obligations.
LEMMA IdleSound ==
    ASSUME pc' = "idle"
    PROVE  ProgressSound'
  BY DEF ProgressSound, WorkerSound, ReleaseSound, SeenConfigSound, ReportSound,
         InstallLabels, ConfigLabels, ReadyLabels, RemoveLabels, UninstallLabels,
         PatchLabels

\* A step that changes neither instances nor what they own, after which the
\* worker trusts no more copies than before, preserves ClusterSound.
LEMMA UntouchedSound ==
    ASSUME OwnershipInv, UNCHANGED <<instVars, cfg, csv>>,
           \A i \in Instances : WorkerTrusts(i)' => Trusted(i),
           pc' = "idle" \/ (cur' \in Instances /\ before' = cinst[cur'])
    PROVE  ClusterSound'
  <1> USE DEF OwnershipInv, ClusterSound, instVars
  <1>t. \A i \in Instances : /\ Trusted(i)' => Trusted(i)
                             /\ CacheTrusts(i)' <=> CacheTrusts(i)
                             /\ Doomed(i)' <=> Doomed(i)
                             /\ Live(i)' <=> Live(i)
                             /\ Finalized(i)' <=> Finalized(i)
                             /\ Ready(i)' <=> Ready(i)
    BY DEF Trusted, CacheTrusts, Doomed, Finalized, Live, Ready
  <1>1. CopiesSound'
    <2>1. \A i \in Instances : cinst[i].deleting => Doomed(i) /\ ~CacheTrusts(i)
      BY DEF CopiesSound, CacheTrusts
    <2>2. pc' # "idle" /\ before'.deleting => Doomed(cur)' /\ ~CacheTrusts(cur)'
      BY <1>t, <2>1 DEF Doomed, CacheTrusts, Live
    <2> QED
      BY <1>t, <2>2 DEF CopiesSound
  <1>2. AbsentUnowned' /\ OwnedResourcesHaveFinalizedOwner' /\ ReadyOwnsConfig'
    BY <1>t DEF AbsentUnowned, OwnedResourcesHaveFinalizedOwner, ReadyOwnsConfig
  <1>3. ConfigHeld'
    BY <1>t DEF ConfigHeld
  <1> QED
    BY <1>1, <1>2, <1>3

\* The start of a reconciliation preserves the invariant.
LEMMA ReconcileSound ==
    ASSUME OwnershipInv, NEW i \in Instances, Reconcile(i) \/ ReconcileNotFound(i)
    PROVE  ClusterSound' /\ ProgressSound'
  <1> USE DEF OwnershipInv, TypeOK, ClusterTypeOK
  <1>u. UNCHANGED <<instVars, cfg, csv>>
    BY DEF Reconcile, ReconcileNotFound, csvVars
  <1>1. CASE Reconcile(i)
    <2>1. /\ pc' = "resolve" /\ cur' = i /\ before' = cinst[i] /\ cinst[i].phase = "live"
      BY <1>1 DEF Reconcile, Cached
    <2>2. /\ obj'.deleting = before'.deleting /\ obj'.fin = before'.fin
          /\ obj'.status.conds.ols = "Unknown"
      BY <1>1, <2>1 DEF Reconcile, InstanceObjects, Status, Conds, InitConditions
    <2>3. ClusterSound'
      BY <1>u, <2>1, UntouchedSound DEF WorkerTrusts, CacheTrusts, Trusted
    <2>4. ProgressSound'
      BY <2>1, <2>2
      DEF ProgressSound, WorkerSound, ReleaseSound, SeenConfigSound, ReportSound,
          InstallLabels, ConfigLabels, ReadyLabels, RemoveLabels, UninstallLabels,
          PatchLabels
    <2> QED
      BY <2>3, <2>4
  <1>2. CASE ReconcileNotFound(i)
    <2>1. pc' = "idle"
      BY <1>2 DEF ReconcileNotFound, workerVars
    <2> QED
      BY <1>u, <2>1, UntouchedSound, IdleSound DEF WorkerTrusts
  <1> QED
    BY <1>1, <1>2

\* So do the branches of Reconcile after the OCP version is resolved.
LEMMA AfterResolveSound ==
    ASSUME OwnershipInv, pc = "resolve", NEW d \in [err : BOOLEAN, version : Text],
           AfterResolve([obj EXCEPT !.status = resolveOCPVersion(@, spec, d)]),
           UNCHANGED <<instVars, cfg, csv>>
    PROVE  ClusterSound' /\ ProgressSound'
  <1> USE DEF OwnershipInv, TypeOK, WorkerTypeOK
  <1> DEFINE s == resolveOCPVersion(obj.status, spec, d)
             o == [obj EXCEPT !.status = s]
  <1>1. s \in Status /\ s.conds.ols = obj.status.conds.ols
    <2>1. obj.status \in Status
      BY DEF InstanceObjects
    <2>2. s \in Status
      BY <2>1, SpecType, ResolvedStatusType
    <2>3. s.conds.ols = obj.status.conds.ols
      BY <2>1 DEF resolveOCPVersion, Status, Conds
    <2> QED
      BY <2>2, <2>3
  <1>2. AfterResolve(o)
    OBVIOUS
  <1> HIDE DEF s
  <1>3. /\ o \in InstanceObjects
        /\ o.deleting = obj.deleting /\ o.fin = obj.fin
        /\ o.status.conds.ols = obj.status.conds.ols
    BY <1>1 DEF InstanceObjects
  <1> HIDE DEF o
  <1>w. /\ Working /\ obj.deleting = before.deleting /\ obj.fin = before.fin
        /\ obj.status.conds.ols \notin {"Absent", "True"}
    BY DEF Working, PatchLabels, ProgressSound, WorkerSound, ReportSound
  <1>4. ClusterSound'
    <2>1. KeepsWorkersCopy
      BY <1>2 DEF AfterResolve, Return, KeepsWorkersCopy
    <2> QED
      BY <2>1, KeptClusterSound DEF KeepsConfig, KeepsCSV, ClusterSound, AbsentUnowned
  <1>5. CASE o.deleting
    <2>1. Advances("rmList")
      BY <1>2, <1>3, <1>5 DEF AfterResolve, Advances
    <2>2. SeenConfigSound'
      BY <2>1 DEF Advances, SeenConfigSound, ReadyLabels
    <2> QED
      BY <1>3, <1>4, <1>5, <1>w, <2>1, <2>2, AdvanceSound
      DEF RemoveLabels, UninstallLabels
  <1>6. CASE ~o.deleting /\ ~o.fin
    <2> DEFINE q == [o EXCEPT !.fin = TRUE]
    <2>1. /\ q \in InstanceObjects /\ q.fin
          /\ q.deleting = o.deleting /\ q.status = o.status
      BY <1>3 DEF InstanceObjects
    <2>2. Return(q, FALSE)
      BY <1>2, <1>6 DEF AfterResolve
    <2> HIDE DEF q
    <2> QED
      BY <1>3, <1>4, <1>w, <2>1, <2>2, ReturnSound
  <1>7. CASE ~o.deleting /\ o.fin
    <2>1. Advances("mode")
      BY <1>2, <1>3, <1>7 DEF AfterResolve, Advances
    <2>2. SeenConfigSound'
      BY <2>1 DEF Advances, SeenConfigSound, ReadyLabels
    <2> QED
      BY <1>3, <1>4, <1>7, <1>w, <2>1, <2>2, AdvanceSound
      DEF InstallLabels, UninstallLabels
  <1> QED
    BY <1>5, <1>6, <1>7

\* Writing the metadata of the instance preserves the invariant: the finalizer
\* goes only when the instance owns nothing and no copy is trusted any more.
LEMMA PatchMetadataSound ==
    ASSUME OwnershipInv, PatchMetadata
    PROVE  ClusterSound' /\ ProgressSound'
  <1> USE DEF OwnershipInv, TypeOK, ClusterTypeOK, WorkerTypeOK
  <1>u. /\ UNCHANGED <<cur, before, cinst, cfg, csv>>
        /\ pc = "patch" /\ pc' = "patchStatus"
    BY DEF PatchMetadata, csvVars
  <1>i. cur \in Instances
    BY <1>u DEF Owners
  <1>p. ProgressSound'
    <2>1. /\ obj'.deleting = obj.deleting /\ obj'.fin = obj.fin
          /\ obj'.status.conds.ols = obj.status.conds.ols
          /\ obj'.status.conds.ready = "True" => obj.status.conds.ols \in {"True", "Absent"}
      <3>1. obj.status.conds \in Conds
        BY DEF InstanceObjects, Status
      <3>2. obj' = [obj EXCEPT !.status.conds = SummarizeReady(obj.status.conds)]
        BY DEF PatchMetadata, InstanceObjects, Status
      <3>3. /\ SummarizeReady(obj.status.conds).ols = obj.status.conds.ols
            /\ SummarizeReady(obj.status.conds).ready = "True" =>
                  obj.status.conds.ols \in {"True", "Absent"}
        BY <3>1 DEF SummarizeReady, AllSubConditionIsTrue, SubConds, IsTrue, IsAbsent,
                    Conds, OLSOutcomes
      <3> QED
        BY <3>2, <3>3 DEF InstanceObjects, Status
    <2>2. WorkerSound'
      BY <1>u, <2>1
      DEF ProgressSound, WorkerSound, InstallLabels, ConfigLabels, ReadyLabels,
          RemoveLabels, UninstallLabels, PatchLabels
    <2>3. ReleaseSound' /\ SeenConfigSound'
      BY <1>u DEF ReleaseSound, SeenConfigSound, ReadyLabels, UninstallLabels
    <2>4. ReportSound'
      BY <1>u, <2>1 DEF ProgressSound, ReportSound, PatchLabels, WorkerTrusts
    <2> QED
      BY <2>2, <2>3, <2>4 DEF ProgressSound
  <1>1. CASE UNCHANGED inst
    <2>1. KeepsWorkersCopy /\ UNCHANGED instVars
      BY <1>1, <1>u DEF KeepsWorkersCopy, instVars
    <2> QED
      BY <1>p, <1>u, <2>1, KeptClusterSound
      DEF KeepsConfig, KeepsCSV, ClusterSound, AbsentUnowned
  <1>t. \A j \in Instances : /\ Trusted(j)' <=> Trusted(j)
                             /\ CacheTrusts(j)' <=> CacheTrusts(j)
    BY <1>u DEF Trusted, CacheTrusts, WorkerTrusts
  <1>2. CASE ~UNCHANGED inst
    <2>1. inst[cur].phase = "live" /\ obj.fin # before.fin
      BY <1>2 DEF PatchMetadata
    <2>2. CASE ~obj.fin
      <3>1. /\ before.fin /\ before.deleting /\ cfg.label # cur /\ csv.owner # cur
            /\ Doomed(cur) /\ ~Trusted(cur)
        BY <1>u, <2>1, <2>2
        DEF ProgressSound, ReleaseSound, ClusterSound, CopiesSound, Trusted, WorkerTrusts,
            InstanceObjects
      <3>2. inst' = [inst EXCEPT ![cur] = GoneObject]
        BY <2>1, <2>2, <3>1 DEF PatchMetadata, Doomed
      <3>3. /\ inst'[cur].phase = "gone" /\ ~inst'[cur].deleting
            /\ \A j \in Instances : j # cur => inst'[j] = inst[j]
        BY <1>i, <3>2 DEF GoneObject, NewObject
      <3>4. \A j \in Instances : Doomed(j) => Doomed(j)'
        BY <3>3 DEF Doomed, Live
      <3>5. CopiesSound'
        BY <1>i, <1>t, <1>u, <3>1, <3>3, <3>4
        DEF ClusterSound, CopiesSound, Finalized, Live
      <3>6. AbsentUnowned' /\ OwnedResourcesHaveFinalizedOwner' /\ ReadyOwnsConfig'
        BY <1>u, <3>1, <3>3
        DEF ClusterSound, AbsentUnowned, OwnedResourcesHaveFinalizedOwner,
            ReadyOwnsConfig, Ready, Live
      <3>7. ConfigHeld'
        BY <1>t, <1>u, <3>4 DEF ClusterSound, ConfigHeld
      <3> QED
        BY <1>p, <3>5, <3>6, <3>7 DEF ClusterSound
    <2>3. CASE obj.fin
      <3>1. inst' = [inst EXCEPT ![cur].fin = TRUE]
        BY <2>1, <2>3 DEF PatchMetadata, InstanceObjects
      <3>2. /\ \A j \in Instances : /\ inst'[j].phase = inst[j].phase
                                    /\ inst'[j].deleting = inst[j].deleting
                                    /\ inst'[j].status = inst[j].status
                                    /\ inst[j].fin => inst'[j].fin
        BY <1>i, <3>1 DEF InstanceObjects
      <3>3. \A j \in Instances : Doomed(j)' <=> Doomed(j)
        BY <3>2 DEF Doomed, Live
      <3>4. CopiesSound'
        BY <1>i, <1>t, <1>u, <3>2, <3>3
        DEF ClusterSound, CopiesSound, Finalized, Live
      <3>5. AbsentUnowned' /\ OwnedResourcesHaveFinalizedOwner' /\ ReadyOwnsConfig'
        BY <1>u, <3>2
        DEF ClusterSound, AbsentUnowned, OwnedResourcesHaveFinalizedOwner,
            ReadyOwnsConfig, Ready, Live
      <3>6. ConfigHeld'
        BY <1>t, <1>u, <3>3 DEF ClusterSound, ConfigHeld
      <3> QED
        BY <1>p, <3>4, <3>5, <3>6 DEF ClusterSound
    <2> QED
      BY <2>2, <2>3 DEF InstanceObjects
  <1> QED
    BY <1>1, <1>2

\* Writing the status preserves the invariant: Ready is reported to the owner.
LEMMA PatchStatusSound ==
    ASSUME OwnershipInv, PatchStatus
    PROVE  ClusterSound' /\ ProgressSound'
  <1> USE DEF OwnershipInv, TypeOK, ClusterTypeOK, WorkerTypeOK
  <1>u. /\ UNCHANGED <<cinst, cfg, csv>>
        /\ pc = "patchStatus" /\ pc' = "idle"
    BY DEF PatchStatus, Done, csvVars
  <1>i. cur \in Instances
    BY <1>u DEF Owners
  <1> DEFINE s == MergePatch(before.status, obj.status, inst[cur].status)
  <1>1. s \in Status /\ s.conds \in {obj.status.conds, inst[cur].status.conds}
    <2>1. /\ before.status \in Status /\ obj.status \in Status
          /\ inst[cur].status \in Status
      BY <1>i DEF InstanceObjects
    <2> QED
      BY <2>1, MergeStatusType DEF MergePatch, Status
  <1>2. inst' = IF inst[cur].phase # "live" THEN inst ELSE [inst EXCEPT ![cur].status = s]
    BY DEF PatchStatus
  <1> HIDE DEF s
  <1>3. /\ \A j \in Instances : /\ inst'[j].phase = inst[j].phase
                                /\ inst'[j].deleting = inst[j].deleting
                                /\ inst'[j].fin = inst[j].fin
                                /\ j # cur => inst'[j].status = inst[j].status
        /\ inst'[cur].status \in {inst[cur].status, s}
    BY <1>i, <1>2 DEF InstanceObjects
  <1>4. \A j \in Instances : /\ Doomed(j)' <=> Doomed(j)
                             /\ Finalized(j)' <=> Finalized(j)
                             /\ Live(j)' <=> Live(j)
                             /\ Trusted(j)' => Trusted(j)
    BY <1>3, <1>u DEF Doomed, Finalized, Live, Trusted, CacheTrusts, WorkerTrusts
  <1>5. CopiesSound'
    BY <1>3, <1>4, <1>u DEF ClusterSound, CopiesSound
  <1>6. ConfigHeld'
    BY <1>4, <1>u DEF ClusterSound, ConfigHeld
  <1>7. AbsentUnowned' /\ OwnedResourcesHaveFinalizedOwner'
    BY <1>3, <1>4, <1>u
    DEF ClusterSound, AbsentUnowned, OwnedResourcesHaveFinalizedOwner
  <1>8. ReadyOwnsConfig'
    <2>1. obj.status.conds.ready = "True" => cfg.exists /\ cfg.label = cur
      BY <1>i, <1>u DEF ProgressSound, ReportSound, PatchLabels, ClusterSound, ConfigHeld,
                        Trusted
    <2> QED
      BY <1>1, <1>3, <1>4, <1>u, <2>1 DEF ClusterSound, ReadyOwnsConfig, Ready
  <1> QED
    BY <1>5, <1>6, <1>7, <1>8, <1>u, IdleSound DEF ClusterSound

\* A failed call preserves the invariant.
LEMMA CallFailsSound ==
    ASSUME OwnershipInv, CallFails
    PROVE  ClusterSound' /\ ProgressSound'
  <1> USE DEF OwnershipInv
  <1>u. UNCHANGED <<instVars, cfg, csv>>
    BY DEF CallFails, csvVars
  <1>1. CASE pc = "resolve" /\ AfterResolve([obj EXCEPT !.status =
                resolveOCPVersion(@, spec, [err |-> TRUE, version |-> ""])])
    <2>1. [err |-> TRUE, version |-> ""] \in [err : BOOLEAN, version : Text]
      BY TextAssumption
    <2> QED
      BY <1>1, <1>u, <2>1, AfterResolveSound
  <1>2. CASE /\ pc \in InstallLabels \cup ConfigLabels \cup ReadyLabels
                          \cup RemoveLabels \cup UninstallLabels
             /\ ReturnOperatorError("Error") \/ ReturnConfigError \/ ReturnRetry
    <2>1. Working
      BY <1>2 DEF Working, PatchLabels, InstallLabels, ConfigLabels, ReadyLabels,
                  RemoveLabels, UninstallLabels
    <2>2. KeepsWorkersCopy
      BY <1>2, <2>1 DEF ReturnOperatorError, ReturnConfigError, ReturnRetry, Return,
                        KeepsWorkersCopy, Working
    <2>3. ClusterSound'
      BY <1>u, <2>2, KeptClusterSound DEF KeepsConfig, KeepsCSV, ClusterSound, AbsentUnowned
    <2> QED
      BY <1>2, <2>1, <2>3, ReturnsSound
  <1>3. CASE pc \in PatchLabels /\ Done
    BY <1>3, <1>u, UntouchedSound, IdleSound DEF Done, WorkerTrusts
  <1> QED
    BY <1>1, <1>2, <1>3 DEF CallFails

\* A crash preserves the invariant: the new process reads the present.
LEMMA RestartSound ==
    ASSUME OwnershipInv, Restart
    PROVE  ClusterSound' /\ ProgressSound'
  <1> USE DEF OwnershipInv, ClusterSound
  <1>1. UNCHANGED <<inst, cfg, csv>> /\ cinst' = inst /\ pc' = "idle"
    BY DEF Restart, csvVars
  <1>2. \A i \in Instances : /\ Trusted(i)' => Finalized(i) /\ ~Doomed(i)
                             /\ Doomed(i)' <=> Doomed(i)
                             /\ Finalized(i)' <=> Finalized(i)
                             /\ Live(i)' <=> Live(i)
    BY <1>1 DEF Trusted, CacheTrusts, WorkerTrusts, Doomed, Finalized, Live
  <1>3. CopiesSound'
    BY <1>1, <1>2 DEF CopiesSound, Doomed
  <1>4. ConfigHeld'
    BY <1>1, <1>2 DEF ConfigHeld
  <1>5. AbsentUnowned' /\ OwnedResourcesHaveFinalizedOwner' /\ ReadyOwnsConfig'
    BY <1>1, <1>2 DEF AbsentUnowned, OwnedResourcesHaveFinalizedOwner, ReadyOwnsConfig, Ready
  <1> QED
    BY <1>1, <1>3, <1>4, <1>5, IdleSound

-----------------------------------------------------------------------------
(* The theorems.                                                           *)

\* The invariant holds in an empty cluster, and in one where FirstOwner is
\* Ready.
LEMMA OwnershipInit == Init => OwnershipInv
  <1> SUFFICES ASSUME Init PROVE OwnershipInv
    OBVIOUS
  <1>t. TypeOK
    BY InitType
  <1>w. pc = "idle"
    BY DEF Init, WorkerInit
  <1>p. ProgressSound
    BY <1>w DEF ProgressSound, WorkerSound, ReleaseSound, SeenConfigSound, ReportSound,
         InstallLabels, ConfigLabels, ReadyLabels, RemoveLabels, UninstallLabels,
         PatchLabels
  <1> USE DEF ClusterSound, CopiesSound, AbsentUnowned, OwnedResourcesHaveFinalizedOwner,
              ConfigHeld, ReadyOwnsConfig
  <1> USE DEF Trusted, CacheTrusts, WorkerTrusts, Doomed, Finalized, Live, Ready
  <1>1. CASE FirstOwner = NoInstance
    <2>1. /\ cinst = inst
          /\ \A i \in Instances : inst[i].phase = "new" /\ ~inst[i].deleting
      BY <1>1 DEF Init, InitialCluster, ClusterInit, NewObject
    <2>2. /\ csv.owner = NoInstance /\ cfg.label = NoInstance
          /\ OwnFinalizer \notin cfg.fins
      BY <1>1 DEF Init, InitialCluster, ClusterInit, NoCSV, NoOLSConfig
    <2> QED
      BY <1>t, <1>p, <1>w, <2>1, <2>2, InstancesAssumption DEF OwnershipInv
  <1>2. CASE FirstOwner # NoInstance
    <2>1. Settled(FirstOwner, 1, 1, RolledOut(1, 1)) /\ FirstOwner \in Instances
      BY <1>2, FirstOwnerAssumption DEF Init, InitialCluster, Owners
    <2>2. /\ cinst = inst
          /\ inst[FirstOwner] = [CreatedObject EXCEPT !.fin = TRUE, !.gen = 1,
                                    !.status = SettledStatus(1, OCPHistory[1])]
          /\ \A i \in Instances \ {FirstOwner} : inst[i] = NewObject
      BY <2>1 DEF Settled
    <2>3. /\ inst[FirstOwner].phase = "live" /\ inst[FirstOwner].fin
          /\ ~inst[FirstOwner].deleting
          /\ \A i \in Instances \ {FirstOwner} : inst[i].phase = "new" /\ ~inst[i].deleting
      BY <2>2 DEF CreatedObject, NewObject
    <2>4. /\ csv.exists /\ csv.owner = FirstOwner
          /\ cfg.exists /\ cfg.label = FirstOwner /\ cfg.fins = Finalizers
      BY <2>1 DEF Settled
    <2>5. CopiesSound
      BY <1>w, <2>2, <2>3
    <2>6. OwnedResourcesHaveFinalizedOwner /\ AbsentUnowned
      BY <2>3, <2>4
    <2>7. ConfigHeld
      BY <2>1, <2>4, InstancesAssumption DEF Finalizers, OwnFinalizer
    <2>8. ReadyOwnsConfig
      BY <2>3, <2>4
    <2> HIDE DEF CopiesSound, AbsentUnowned, OwnedResourcesHaveFinalizedOwner,
                 ConfigHeld, ReadyOwnsConfig
    <2> QED
      BY <1>t, <1>p, <2>5, <2>6, <2>7, <2>8 DEF OwnershipInv
  <1> QED
    BY <1>1, <1>2

\* Every step preserves the invariant.
LEMMA OwnershipNext == OwnershipInv /\ [Next]_vars => OwnershipInv'
  <1> SUFFICES ASSUME OwnershipInv, [Next]_vars PROVE OwnershipInv'
    OBVIOUS
  <1>t. TypeOK'
    BY NextType DEF OwnershipInv
  <1>1. CASE UNCHANGED vars
    <2>1. /\ UNCHANGED instVars /\ UNCHANGED workerVars /\ UNCHANGED <<cfg, csv>>
      BY <1>1 DEF vars, clusterVars, csvVars
    <2>2. KeepsConfig /\ KeepsCSV /\ KeepsWorkersCopy
      BY <2>1 DEF KeepsConfig, KeepsCSV, KeepsWorkersCopy, workerVars, OwnershipInv,
                  ClusterSound, AbsentUnowned
    <2> QED
      BY <1>t, <2>1, <2>2, KeptClusterSound, KeptProgressSound DEF OwnershipInv
  <1>2. CASE FrameStep
    <2>1. CASE Resolve
      <3>1. UNCHANGED <<instVars, cfg, csv>>
        BY <2>1 DEF Resolve, clusterVars, csvVars
      <3>2. DetectOCPVersion(OCPHistory[ocp]) \in [err : BOOLEAN, version : Text]
        BY ConstantTypes, DetectedType DEF OwnershipInv, TypeOK, ClusterTypeOK
      <3> QED
        BY <1>t, <2>1, <3>1, <3>2, AfterResolveSound DEF Resolve, OwnershipInv
    <2> QED
      BY <1>2, <1>t, <2>1, ReconcileSound, PatchMetadataSound, PatchStatusSound
      DEF FrameStep, OwnershipInv
  <1>3. CASE InstallStep \/ UninstallStep \/ ConfigStep \/ RemoveStep
    BY <1>3, <1>t, InstallStepSound, UninstallStepSound, ConfigStepSound, RemoveStepSound
    DEF OwnershipInv
  <1>4. CASE CallFails \/ SubscriptionResponseLost \/ ConfigResponseLost \/ Restart
    BY <1>4, <1>t, CallFailsSound, ResponseLostSound, RestartSound DEF OwnershipInv
  <1>5. CASE ClusterStep /\ UNCHANGED workerVars
    BY <1>5, <1>t, ClusterStepSound DEF OwnershipInv
  <1> QED
    BY <1>1, <1>2, <1>3, <1>4, <1>5 DEF Next, WorkerStep

\* The inductive invariant: what the worker's old copies of an instance say,
\* who owns the OLSConfig and the CSV, and how far the worker has come.
THEOREM OwnershipInvariant == Spec => []OwnershipInv
  BY OwnershipInit, OwnershipNext, PTL DEF Spec

\* The owner of an OLSConfig or a CSV exists and holds its finalizer, for any
\* number of instances, crashes and failed calls: reconcileDelete never leaves
\* an owned object behind.
THEOREM OwnersFinalized == Spec => []OwnedResourcesHaveFinalizedOwner
  <1>1. OwnershipInv => OwnedResourcesHaveFinalizedOwner
    BY DEF OwnershipInv, ClusterSound
  <1> QED
    BY <1>1, OwnershipInvariant, PTL

\* However many instances compete for it, only the owner of the OLSConfig
\* reports Ready, unless it is being deleted.
THEOREM ReadyInstanceOwnsConfig == Spec => []ReadyOwnsConfig
  <1>1. OwnershipInv => ReadyOwnsConfig
    BY DEF OwnershipInv, ClusterSound
  <1> QED
    BY <1>1, OwnershipInvariant, PTL

\* UninstallInstanceOwnedOLSOperator deletes the CSV when no OLSConfig carries
\* an owner's label.
THEOREM OperatorDeletedLast == Spec => OperatorOutlivesConfig
  <1>1. OwnershipInv /\ [Next]_vars =>
            [pc = "unDelete" /\ csv' # csv => cfg.label = NoInstance]_vars
    BY DEF OwnershipInv, ProgressSound, ReleaseSound, UninstallLabels
  <1> QED
    BY <1>1, OwnershipInvariant, PTL DEF Spec, OperatorOutlivesConfig
=============================================================================
