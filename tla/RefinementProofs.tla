-------------------------- MODULE RefinementProofs --------------------------
(***************************************************************************)
(* The operator keeps the contract of the module Ownership: the proof of   *)
(* ImplementsOwnership.  Every step changes the stage of one instance, the *)
(* owner of the OLSConfig, the owner of the CSV or the report of one       *)
(* instance, each as the contract allows, or nothing that the contract     *)
(* speaks of.  Which steps do what is known from OwnershipProofs; that     *)
(* they are allowed follows from the inductive invariant proved there.     *)
(***************************************************************************)
EXTENDS OwnershipProofs

\* Instance i reports Ready, as the contract understands it.
Reports(i) == Ready(i) /\ ~inst[i].deleting

\* How the contract sees an instance.
LEMMA Stages ==
    ASSUME NEW o \in InstanceObjects
    PROVE  /\ o.phase = "new" => StageOf(o) = "absent"
           /\ o.phase = "gone" => StageOf(o) = "gone"
           /\ o.phase = "live" /\ o.deleting => StageOf(o) = "leaving"
           /\ o.phase = "live" /\ ~o.deleting /\ o.fin => StageOf(o) = "held"
           /\ o.phase = "live" /\ ~o.deleting /\ ~o.fin => StageOf(o) = "bare"
  BY DEF StageOf, InstanceObjects

\* A step that changes neither the stage of an instance, nor an owner, nor a
\* report, is none of the contract's business.
LEMMA Stutters ==
    ASSUME \A i \in Instances : StageOf(inst'[i]) = StageOf(inst[i]) /\ Reports(i)' = Reports(i),
           cfg'.label = cfg.label, csv'.owner = csv.owner
    PROVE  UNCHANGED Contract!vars
  BY DEF Contract!vars, Reports

\* A step that leaves the instances alone and hands over one of the two shared
\* objects does so as the contract allows.
LEMMA HandsOver ==
    ASSUME OwnershipInv, UNCHANGED inst,
           cfg'.label = cfg.label \/ csv'.owner = csv.owner,
           KeepsConfig \/ TakesConfig \/ ReleasesConfig, KeepsCSV \/ TakesCSV
    PROVE  [Contract!Next]_(Contract!vars)
  <1> USE DEF OwnershipInv, TypeOK, ClusterTypeOK
  <1>n. NoInstance \notin Instances
    BY InstancesAssumption
  <1>i. /\ \A i \in Instances : StageOf(inst'[i]) = StageOf(inst[i])
        /\ {i \in Instances : Ready(i) /\ ~inst[i].deleting}'
              = {i \in Instances : Ready(i) /\ ~inst[i].deleting}
    BY DEF Ready, Live
  <1>h. \A i \in Instances : Finalized(i) => StageOf(inst[i]) \in {"held", "leaving"}
    BY Stages DEF Finalized, Live, InstanceObjects
  <1>1. CASE cfg'.label = cfg.label /\ csv'.owner = csv.owner
    BY <1>1, <1>i, Stutters DEF Reports, Ready, Live
  <1>2. CASE cfg'.label = cfg.label /\ csv'.owner # csv.owner
    <2>1. CASE KeepsCSV
      <3>1. csv'.owner = NoInstance
        BY <1>2, <2>1 DEF KeepsCSV
      <3> QED
        BY <1>2, <1>i, <3>1 DEF Contract!Next, Contract!LoseOperator
    <2>2. CASE TakesCSV
      <3>1. csv'.owner \in Instances /\ StageOf(inst[csv'.owner]) \in {"held", "leaving"}
        BY <2>2, <1>h DEF TakesCSV
      <3>2. Contract!TakeOperator(csv'.owner)
        BY <1>2, <1>i, <3>1 DEF Contract!TakeOperator, Contract!Holder
      <3> QED
        BY <3>1, <3>2 DEF Contract!Next
    <2> QED
      BY <2>1, <2>2
  <1>3. CASE cfg'.label # cfg.label
    <2>o. csv'.owner = csv.owner
      BY <1>3
    <2>1. CASE TakesConfig
      <3>1. /\ cfg'.label \in Instances /\ cfg.label = NoInstance
            /\ StageOf(inst[cfg'.label]) \in {"held", "leaving"}
        BY <1>3, <1>h, <2>1 DEF TakesConfig
      <3>2. Contract!TakeConfig(cfg'.label)
        BY <1>i, <2>o, <3>1 DEF Contract!TakeConfig, Contract!Holder
      <3> QED
        BY <3>1, <3>2 DEF Contract!Next
    <2>2. CASE KeepsConfig \/ ReleasesConfig
      <3>1. cfg'.label = NoInstance /\ cfg.label \in Instances
        BY <1>3, <2>2 DEF KeepsConfig, ReleasesConfig, OLSConfigs, Owners
      <3>2. Doomed(cfg.label)
        <4>1. CASE KeepsConfig
          BY <1>3, <3>1, <4>1 DEF KeepsConfig, ClusterSound, ConfigHeld
        <4>2. CASE ReleasesConfig
          BY <1>n, <3>1, <4>2 DEF ReleasesConfig, ClusterSound, CopiesSound
        <4> QED
          BY <2>2, <4>1, <4>2
      <3>3. StageOf(inst[cfg.label]) = "leaving"
        BY <3>1, <3>2, Stages
        DEF Doomed, ClusterSound, OwnedResourcesHaveFinalizedOwner, Live
      <3>4. Contract!ReleaseConfig(cfg.label)
        BY <1>i, <2>o, <3>1, <3>3 DEF Contract!ReleaseConfig
      <3> QED
        BY <3>1, <3>4 DEF Contract!Next
    <2> QED
      BY <2>1, <2>2
  <1> QED
    BY <1>1, <1>2, <1>3

\* No step of the environment changes the owners of both objects.
LEMMA EnvironmentKeepsOneOwner ==
    ASSUME OwnershipInv,
           \/ OLMStep \/ OLSStep \/ SyncPlans
           \/ \E i \in Instances : SyncSubscription(i) \/ TimerFires(i)
           \/ UserInstallsOLS \/ UserUninstallsOLS \/ UpgradeOCP
           \/ UserCreatesConfig \/ UserDeletesConfig
    PROVE  cfg'.label = cfg.label \/ csv'.owner = csv.owner
  <1> USE DEF csvVars
  <1>1. ASSUME OLMStep PROVE cfg'.label = cfg.label
    <2>1. CASE OLMDeploysCSV
      BY <2>1 DEF OLMDeploysCSV, OwnershipInv, TypeOK, ClusterTypeOK, OLSConfigs
    <2>2. CASE ~OLMDeploysCSV
      BY <1>1, <2>2
      DEF OLMStep, OLMCreatesPlan, OLMCreatesUpgradePlan, OLMLinksPlan, OLMExecutesPlan,
          OLMReportsCSVFailed, OLMRemovesCSV, CollectSubscription
    <2> QED
      BY <2>1, <2>2
  <1>2. ASSUME OLSStep PROVE csv'.owner = csv.owner
    BY <1>2 DEF OLSStep, OLSReconciles, OLSRollsOut, OLSFinalizes
  <1>3. ASSUME NEW i \in Instances, SyncSubscription(i) \/ TimerFires(i)
        PROVE  csv'.owner = csv.owner
    BY <1>3 DEF SyncSubscription, TimerFires
  <1>4. ASSUME SyncPlans \/ UpgradeOCP \/ UserCreatesConfig \/ UserDeletesConfig
        PROVE  csv'.owner = csv.owner
    BY <1>4 DEF SyncPlans, UpgradeOCP, UserCreatesConfig, UserDeletesConfig
  <1>5. ASSUME UserInstallsOLS \/ UserUninstallsOLS PROVE cfg'.label = cfg.label
    BY <1>5 DEF UserInstallsOLS, UserUninstallsOLS
  <1> QED
    BY <1>1, <1>2, <1>3, <1>4, <1>5

\* Users create, change and delete instances as the contract allows.
LEMMA InstanceStepRefines ==
    ASSUME OwnershipInv, TypeOK', NEW i \in Instances,
           CreateInstance(i) \/ UpdateSpec(i) \/ DeleteInstance(i)
    PROVE  [Contract!Next]_(Contract!vars)
  <1> USE DEF OwnershipInv, TypeOK, ClusterTypeOK
  <1>c. cfg'.label = cfg.label /\ csv'.owner = csv.owner
    BY DEF CreateInstance, UpdateSpec, DeleteInstance, csvVars
  <1>o. \A j \in Instances \ {i} : inst'[j] = inst[j]
    BY DEF CreateInstance, UpdateSpec, DeleteInstance
  <1>1. CASE CreateInstance(i)
    <2>1. inst'[i] = CreatedObject /\ inst[i].phase = "new"
      BY <1>1 DEF CreateInstance
    <2>2. /\ CreatedObject.phase = "live" /\ ~CreatedObject.deleting /\ ~CreatedObject.fin
          /\ CreatedObject.status.conds.ready = "Absent"
      BY DEF CreatedObject, NewObject, NoStatus, NoConds
    <2>3. StageOf(inst[i]) = "absent" /\ StageOf(inst'[i]) = "bare"
      BY <2>1, <2>2, Stages, ObjectTypes
    <2>4. {j \in Instances : Ready(j) /\ ~inst[j].deleting}'
            = {j \in Instances : Ready(j) /\ ~inst[j].deleting}
      BY <1>o, <2>1, <2>2 DEF Ready, Live
    <2>5. Contract!Arrive(i)
      BY <1>c, <1>o, <2>3, <2>4 DEF Contract!Arrive
    <2> QED
      BY <2>5 DEF Contract!Next
  <1>2. CASE UpdateSpec(i)
    <2>1. /\ inst'[i].phase = inst[i].phase /\ inst'[i].deleting = inst[i].deleting
          /\ inst'[i].fin = inst[i].fin /\ inst'[i].status = inst[i].status
      BY <1>2 DEF UpdateSpec, InstanceObjects
    <2>2. \A j \in Instances : StageOf(inst'[j]) = StageOf(inst[j])
      BY <1>o, <2>1 DEF StageOf
    <2>3. \A j \in Instances : Reports(j)' = Reports(j)
      BY <1>o, <2>1 DEF Reports, Ready, Live
    <2> QED
      BY <1>c, <2>2, <2>3, Stutters
  <1>3. CASE DeleteInstance(i)
    <2>1. inst[i].phase = "live" /\ ~inst[i].deleting /\ inst[i].fin \in BOOLEAN
      BY <1>3 DEF DeleteInstance, InstanceObjects
    <2>2. \/ inst[i].fin /\ inst'[i].phase = "live" /\ inst'[i].deleting
          \/ ~inst[i].fin /\ inst'[i].phase = "gone"
      BY <1>3, <2>1 DEF DeleteInstance, GoneObject, NewObject, InstanceObjects
    <2>3. \/ StageOf(inst[i]) = "held" /\ StageOf(inst'[i]) = "leaving"
          \/ StageOf(inst[i]) = "bare" /\ StageOf(inst'[i]) = "gone"
      BY <2>1, <2>2, Stages
    <2>4. {j \in Instances : Ready(j) /\ ~inst[j].deleting}'
            = {j \in Instances : Ready(j) /\ ~inst[j].deleting} \ {i}
      BY <1>o, <2>2 DEF Ready, Live
    <2>5. Contract!Leave(i)
      BY <1>c, <1>o, <2>3, <2>4 DEF Contract!Leave
    <2> QED
      BY <2>5 DEF Contract!Next
  <1> QED
    BY <1>1, <1>2, <1>3

\* The finalizer comes and goes as the contract allows: it goes when the
\* instance is being deleted and has nothing left.
LEMMA PatchMetadataRefines ==
    ASSUME OwnershipInv, TypeOK', PatchMetadata
    PROVE  [Contract!Next]_(Contract!vars)
  <1> USE DEF OwnershipInv, TypeOK, ClusterTypeOK
  <1>c. /\ cfg'.label = cfg.label /\ csv'.owner = csv.owner
        /\ pc = "patch"
    BY DEF PatchMetadata, csvVars
  <1>i. cur \in Instances
    BY <1>c DEF WorkerTypeOK, Owners
  <1>1. CASE UNCHANGED inst
    BY <1>1, <1>c, Stutters DEF Reports, Ready, Live
  <1>2. CASE ~UNCHANGED inst
    <2>1. inst[cur].phase = "live" /\ obj.fin # before.fin
      BY <1>2 DEF PatchMetadata
    <2>o. \A j \in Instances \ {cur} : inst'[j] = inst[j]
      BY <1>i DEF PatchMetadata
    <2>2. CASE ~obj.fin
      <3>1. /\ before.deleting /\ cfg.label # cur /\ csv.owner # cur
            /\ inst[cur].deleting
        BY <1>c, <2>1, <2>2
        DEF ProgressSound, ReleaseSound, ClusterSound, CopiesSound, Doomed, Live,
            WorkerTypeOK, InstanceObjects
      <3>2. inst'[cur] = GoneObject
        BY <1>i, <2>1, <2>2, <3>1 DEF PatchMetadata
      <3>3. StageOf(inst[cur]) = "leaving" /\ StageOf(inst'[cur]) = "gone"
        BY <1>i, <2>1, <3>1, <3>2, Stages, ObjectTypes DEF GoneObject, NewObject
      <3>4. {j \in Instances : Ready(j) /\ ~inst[j].deleting}'
              = {j \in Instances : Ready(j) /\ ~inst[j].deleting}
        BY <1>i, <2>o, <3>1, <3>2 DEF Ready, Live, GoneObject, NewObject
      <3>5. Contract!Finish(cur)
        BY <1>c, <1>i, <2>o, <3>1, <3>3, <3>4 DEF Contract!Finish
      <3> QED
        BY <1>i, <3>5 DEF Contract!Next
    <2>3. CASE obj.fin
      <3>1. inst' = [inst EXCEPT ![cur].fin = TRUE]
        BY <2>1, <2>3 DEF PatchMetadata, WorkerTypeOK, InstanceObjects
      <3>2. /\ inst'[cur].phase = "live" /\ inst'[cur].deleting = inst[cur].deleting
            /\ inst'[cur].fin /\ inst'[cur].status = inst[cur].status
            /\ inst[cur].deleting \in BOOLEAN /\ inst[cur].fin \in BOOLEAN
        BY <1>i, <2>1, <3>1 DEF InstanceObjects
      <3>3. {j \in Instances : Ready(j) /\ ~inst[j].deleting}'
              = {j \in Instances : Ready(j) /\ ~inst[j].deleting}
        BY <1>i, <2>o, <2>1, <3>2 DEF Ready, Live
      <3>4. CASE ~inst[cur].deleting /\ ~inst[cur].fin
        <4>1. StageOf(inst[cur]) = "bare" /\ StageOf(inst'[cur]) = "held"
          BY <1>i, <2>1, <3>2, <3>4, Stages
        <4>2. Contract!Commit(cur)
          BY <1>c, <1>i, <2>o, <3>3, <4>1 DEF Contract!Commit
        <4> QED
          BY <1>i, <4>2 DEF Contract!Next
      <3>5. CASE inst[cur].deleting \/ inst[cur].fin
        <4>1. StageOf(inst'[cur]) = StageOf(inst[cur])
          BY <1>i, <2>1, <3>2, <3>5, Stages
        <4> QED
          BY <1>c, <1>i, <2>o, <3>3, <4>1 DEF Contract!vars
      <3> QED
        BY <3>2, <3>4, <3>5
    <2> QED
      BY <2>2, <2>3 DEF WorkerTypeOK, InstanceObjects
  <1> QED
    BY <1>1, <1>2

\* Ready is reported by an instance that has the OLSConfig, and by no other.
LEMMA PatchStatusRefines ==
    ASSUME OwnershipInv, PatchStatus
    PROVE  [Contract!Next]_(Contract!vars)
  <1> USE DEF OwnershipInv, TypeOK, ClusterTypeOK, WorkerTypeOK
  <1>c. /\ cfg'.label = cfg.label /\ csv'.owner = csv.owner
        /\ pc = "patchStatus"
    BY DEF PatchStatus, csvVars
  <1>i. cur \in Instances
    BY <1>c DEF Owners
  <1> DEFINE s == MergePatch(before.status, obj.status, inst[cur].status)
  <1>1. s \in Status /\ s.conds \in {obj.status.conds, inst[cur].status.conds}
    <2>1. /\ before.status \in Status /\ obj.status \in Status
          /\ inst[cur].status \in Status
      BY <1>i DEF InstanceObjects
    <2> QED
      BY <2>1, MergeStatusType DEF MergePatch, Status
  <1>2. inst' = IF inst[cur].phase # "live" THEN inst ELSE [inst EXCEPT ![cur].status = s]
    BY DEF PatchStatus
  <1> HIDE DEF s
  <1>3. /\ \A j \in Instances : /\ inst'[j].phase = inst[j].phase
                                /\ inst'[j].deleting = inst[j].deleting
                                /\ inst'[j].fin = inst[j].fin
                                /\ j # cur => inst'[j].status = inst[j].status
        /\ inst'[cur].status.conds \in {inst[cur].status.conds, obj.status.conds}
    BY <1>i, <1>1, <1>2 DEF InstanceObjects
  <1>4. \A j \in Instances : StageOf(inst'[j]) = StageOf(inst[j])
    BY <1>3 DEF StageOf
  <1>p. PICK c \in Instances : c = cur
    BY <1>i
  <1>5. \A j \in Instances \ {c} : Reports(j)' = Reports(j)
    BY <1>3, <1>p DEF Reports, Ready, Live
  <1>6. CASE Reports(c)' = Reports(c)
    BY <1>4, <1>5, <1>6, <1>c, Stutters
  <1>7. CASE Reports(c)' /\ ~Reports(c)
    <2>1. obj.status.conds.ready = "True" /\ Live(c) /\ ~inst[c].deleting
      BY <1>3, <1>7, <1>p DEF Reports, Ready, Live
    <2>2. cfg.label = c /\ Finalized(c)
      BY <1>c, <1>p, <2>1
      DEF ProgressSound, ReportSound, PatchLabels, ClusterSound, CopiesSound, Trusted
    <2>3. StageOf(inst[c]) = "held"
      BY <1>p, <2>1, <2>2, Stages DEF Finalized, Live
    <2>4. {j \in Instances : Ready(j) /\ ~inst[j].deleting}'
            = {j \in Instances : Ready(j) /\ ~inst[j].deleting} \cup {c}
      BY <1>5, <1>7, <1>p DEF Reports
    <2>5. Contract!Report(c)
      BY <1>4, <1>c, <1>p, <2>2, <2>3, <2>4 DEF Contract!Report
    <2> QED
      BY <1>p, <2>5 DEF Contract!Next
  <1>8. CASE ~Reports(c)' /\ Reports(c)
    <2>1. {j \in Instances : Ready(j) /\ ~inst[j].deleting}'
            = {j \in Instances : Ready(j) /\ ~inst[j].deleting} \ {c}
      BY <1>5, <1>8, <1>p DEF Reports
    <2>2. Contract!Retract(c)
      BY <1>4, <1>c, <2>1 DEF Contract!Retract
    <2> QED
      BY <1>p, <2>2 DEF Contract!Next
  <1>9. Reports(c)' \in BOOLEAN /\ Reports(c) \in BOOLEAN
    BY DEF Reports
  <1> QED
    BY <1>6, <1>7, <1>8, <1>9

-----------------------------------------------------------------------------
(* The theorem.                                                            *)

\* Both kinds of initial states are initial states of the contract.
LEMMA InitRefines == Init => Contract!Init
  <1> SUFFICES ASSUME Init PROVE Contract!Init
    OBVIOUS
  <1>1. CASE FirstOwner = NoInstance
    <2>1. /\ \A i \in Instances : inst[i] = NewObject
          /\ csv.owner = NoInstance /\ cfg.label = NoInstance
      BY <1>1 DEF Init, InitialCluster, ClusterInit, NoCSV, NoOLSConfig
    <2>2. NewObject.phase = "new"
      BY DEF NewObject
    <2>3. \A i \in Instances : StageOf(inst[i]) = "absent" /\ ~Ready(i)
      BY <2>1, <2>2, Stages, ObjectTypes DEF Ready, Live
    <2> QED
      BY <2>1, <2>3 DEF Contract!Init
  <1>2. CASE FirstOwner # NoInstance
    <2>1. Settled(FirstOwner, 1, 1, RolledOut(1, 1)) /\ FirstOwner \in Instances
      BY <1>2, FirstOwnerAssumption DEF Init, InitialCluster, Owners
    <2>t. TypeOK
      BY InitType
    <2> DEFINE st == SettledStatus(1, OCPHistory[1])
    <2>2. /\ inst[FirstOwner] = [CreatedObject EXCEPT !.fin = TRUE, !.gen = 1,
                                                      !.status = st]
          /\ \A i \in Instances \ {FirstOwner} : inst[i] = NewObject
          /\ csv.owner = FirstOwner /\ cfg.label = FirstOwner
      BY <2>1 DEF Settled
    <2>3. st.conds.ready = "True"
      <3> DEFINE s == resolveOCPVersion([NoStatus EXCEPT !.obsGen = 1], Specs[1],
                                        DetectOCPVersion(OCPHistory[1]))
      <3>1. s \in Status
        <4>1. [NoStatus EXCEPT !.obsGen = 1] \in Status
          BY ObjectTypes DEF Status
        <4> QED
          BY <4>1, ConstantTypes, DetectedType, ResolvedStatusType
      <3>2. st = [s EXCEPT !.conds.ols = "True", !.conds.op = "True",
                           !.conds.ready = "True"]
        BY DEF SettledStatus
      <3> HIDE DEF s, st
      <3> QED
        BY <3>1, <3>2 DEF Status, Conds
    <2> HIDE DEF st
    <2>4. /\ inst[FirstOwner].phase = "live" /\ inst[FirstOwner].fin
          /\ ~inst[FirstOwner].deleting /\ inst[FirstOwner].status = st
          /\ \A i \in Instances \ {FirstOwner} : inst[i].phase = "new"
      BY <2>2 DEF CreatedObject, NewObject
    <2>5. /\ StageOf(inst[FirstOwner]) = "held"
          /\ \A i \in Instances \ {FirstOwner} : StageOf(inst[i]) = "absent"
      BY <2>1, <2>4, <2>t, Stages DEF TypeOK, ClusterTypeOK
    <2>6. {i \in Instances : Ready(i) /\ ~inst[i].deleting} = {FirstOwner}
      BY <2>1, <2>3, <2>4 DEF Ready, Live
    <2>7. /\ [i \in Instances |-> StageOf(inst[i])] \in [Instances -> Contract!Stages]
          /\ [i \in Instances |-> StageOf(inst[i])][FirstOwner] = "held"
      BY <2>1, <2>5 DEF Contract!Stages
    <2> QED
      BY <2>1, <2>2, <2>6, <2>7 DEF Contract!Init
  <1> QED
    BY <1>1, <1>2

\* Every step of the operator or its environment is a step of the contract or
\* leaves everything the contract speaks of as it is.
LEMMA NextRefines ==
    ASSUME OwnershipInv, TypeOK', [Next]_vars
    PROVE  [Contract!Next]_(Contract!vars)
  <1>k. UNCHANGED csv => KeepsCSV
    BY DEF KeepsCSV, OwnershipInv, ClusterSound, AbsentUnowned
  <1>h. UNCHANGED cfg => KeepsConfig
    BY DEF KeepsConfig
  <1>s. ASSUME UNCHANGED <<inst, cfg, csv>> PROVE [Contract!Next]_(Contract!vars)
    BY <1>h, <1>k, <1>s, HandsOver
  <1>1. CASE UNCHANGED vars
    BY <1>1, <1>s DEF vars, clusterVars, instVars, csvVars
  <1>2. CASE FrameStep
    <2>1. ASSUME NEW i \in Instances, Reconcile(i) \/ ReconcileNotFound(i)
          PROVE  UNCHANGED <<inst, cfg, csv>>
      BY <2>1 DEF Reconcile, ReconcileNotFound, instVars, csvVars
    <2>2. CASE Resolve
      BY <1>s, <2>2 DEF Resolve, clusterVars, instVars, csvVars
    <2> QED
      BY <1>2, <1>s, <2>1, <2>2, PatchMetadataRefines, PatchStatusRefines DEF FrameStep
  <1>3. CASE InstallStep \/ UninstallStep
    BY <1>3, <1>h, InstallTakesCSV, UninstallKeepsCSV, HandsOver DEF instVars
  <1>4. CASE \/ ConfigStep \/ RemoveStep
             \/ SubscriptionResponseLost \/ ConfigResponseLost
    BY <1>4, <1>k, ConfigTakesConfig, RemoveReleasesConfig, ResponseLostTakesConfig,
       HandsOver DEF instVars
  <1>5. CASE CallFails \/ Restart
    BY <1>5, <1>s DEF CallFails, Restart, instVars, csvVars
  <1>6. CASE ClusterStep
    <2>1. ASSUME NEW i \in Instances, SyncInstance(i)
          PROVE  UNCHANGED <<inst, cfg, csv>>
      BY <2>1 DEF SyncInstance, csvVars
    <2>2. ASSUME NEW i \in Instances,
                 CreateInstance(i) \/ UpdateSpec(i) \/ DeleteInstance(i)
          PROVE  [Contract!Next]_(Contract!vars)
      BY <2>2, InstanceStepRefines
    <2>3. ASSUME \/ OLMStep \/ OLSStep \/ SyncPlans
                 \/ \E i \in Instances : SyncSubscription(i) \/ TimerFires(i)
                 \/ UserInstallsOLS \/ UserUninstallsOLS \/ UpgradeOCP
                 \/ UserCreatesConfig \/ UserDeletesConfig
          PROVE  [Contract!Next]_(Contract!vars)
      <3>1. UNCHANGED inst /\ KeepsConfig /\ KeepsCSV
        BY <2>3, EnvironmentKeepsOwnership DEF instVars
      <3>2. cfg'.label = cfg.label \/ csv'.owner = csv.owner
        BY <2>3, EnvironmentKeepsOneOwner
      <3> QED
        BY <3>1, <3>2, HandsOver
    <2> QED
      BY <1>6, <1>s, <2>1, <2>2, <2>3 DEF ClusterStep, UserStep, SyncStep
  <1> QED
    BY <1>1, <1>2, <1>3, <1>4, <1>5, <1>6 DEF Next, WorkerStep

\* The operator implements the contract, for any number of instances, crashes,
\* failed calls and lost responses.
THEOREM OwnershipRefined == Spec => ImplementsOwnership
  <1>1. Init => Contract!Init
    BY InitRefines
  <1>2. OwnershipInv /\ OwnershipInv' /\ [Next]_vars => [Contract!Next]_(Contract!vars)
    BY NextRefines DEF OwnershipInv
  <1> QED
    BY <1>1, <1>2, OwnershipInvariant, PTL DEF Spec, ImplementsOwnership, Contract!Spec
=============================================================================
