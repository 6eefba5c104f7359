-------------------------- MODULE ReconcilerProofs --------------------------
(***************************************************************************)
(* Proofs about Reconciler, for any number of instances, any specs, any    *)
(* catalog and any number of crashes and failed calls.                     *)
(***************************************************************************)
EXTENDS Reconciler, TLAPS

-----------------------------------------------------------------------------
(* Constants and events.                                                   *)

\* The sequences of the constants yield what the assumptions say they hold.
LEMMA ConstantTypes ==
    /\ Len(Specs) \in Nat /\ 1 \in 1..Len(Specs)
    /\ Len(OCPHistory) \in Nat /\ 1 \in 1..Len(OCPHistory)
    /\ \A g \in 1..Len(Specs) : g \in Nat /\ Specs[g] \in InstanceSpecs
    /\ \A k \in 1..Len(OCPHistory) : OCPHistory[k] \in ClusterVersions
    /\ Catalog[Len(Catalog)] \in Text
    /\ \A k \in 2..Len(Catalog) : Catalog[k] \in Text
    /\ \A p \in Plans : p \in Nat
  BY SequencesAssumption, BoundsAssumption DEF Plans

\* Events put instances into the work queue.
LEMMA NotifyTypes ==
    /\ NotifyAllOpenStackLightspeeds \subseteq Instances
    /\ \A old, new : NotifyOwners(old, new) \subseteq Instances
  BY DEF NotifyAllOpenStackLightspeeds, NotifyOwners

-----------------------------------------------------------------------------
(* Types of the values that objects are built from.                        *)

\* The constant objects have the types of their kinds.
LEMMA ObjectTypes ==
    /\ NoStatus \in Status
    /\ NewObject \in InstanceObjects
    /\ CreatedObject \in InstanceObjects
    /\ GoneObject \in InstanceObjects
    /\ NoSubscription \in Subscriptions
    /\ NoInstallPlan \in InstallPlans
    /\ NoCSV \in CSVs
    /\ NoContent \in Content
    /\ UserContent \in Content
    /\ NoOLSConfig \in OLSConfigs
  <1>1. NoConds \in Conds
    BY DEF NoConds, Conds, OLSOutcomes, OperatorOutcomes, RAGOutcomes, ReadyStates
  <1>2. NoStatus \in Status
    BY <1>1, TextAssumption DEF NoStatus, Status
  <1>3. NewObject \in InstanceObjects
    BY <1>2, ConstantTypes DEF NewObject, InstanceObjects
  <1>4. CreatedObject \in InstanceObjects /\ GoneObject \in InstanceObjects
    BY <1>3 DEF CreatedObject, GoneObject, InstanceObjects
  <1>5. NoSubscription \in Subscriptions
    BY TextAssumption DEF NoSubscription, Subscriptions, NoVersion, NoPlan
  <1>6. NoInstallPlan \in InstallPlans
    BY TextAssumption DEF NoInstallPlan, InstallPlans, NoVersion, Owners
  <1>7. NoCSV \in CSVs
    BY TextAssumption DEF NoCSV, CSVs, NoVersion, Owners
  <1>8. NoContent \in Content
    <2>1. <<>> \in Seq(RAGEntries)
      OBVIOUS
    <2>2. \A r \in Seq(RAGEntries) :
             [copied |-> "", maxTokens |-> 0, ca |-> "", rag |-> r] \in Content
      BY TextAssumption DEF Content
    <2> QED
      BY <2>1, <2>2 DEF NoContent
  <1>9. UserContent \in Content
    BY <1>8, TextAssumption DEF UserContent, Content
  <1>10. NoOLSConfig \in OLSConfigs
    BY <1>8 DEF NoOLSConfig, OLSConfigs, Owners, Finalizers
  <1> QED
    BY <1>2, <1>3, <1>4, <1>5, <1>6, <1>7, <1>8, <1>9, <1>10

\* What is left of an OLSConfig is one.
LEMMA ReleasedType == \A c \in OLSConfigs : Released(c) \in OLSConfigs
  BY ObjectTypes DEF Released

\* A merge patch of a status by statuses is a status.
LEMMA MergeStatusType ==
    ASSUME NEW old \in Status, NEW new \in Status, NEW live \in Status
    PROVE  MergePatch(old, new, live) \in Status
  BY DEF MergePatch, Status

\* A merge patch of an OLSConfig's spec by such specs is one.
LEMMA MergeContentType ==
    ASSUME NEW old \in Content, NEW new \in Content, NEW live \in Content
    PROVE  MergePatch(old, new, live) \in Content
  BY DEF MergePatch, Content

\* What Reconcile does to the instance in memory leaves an instance.
LEMMA UpdatedObjectTypes ==
    ASSUME NEW o \in InstanceObjects
    PROVE  /\ \A c \in OperatorOutcomes : [o EXCEPT !.status.conds.op = c] \in InstanceObjects
           /\ \A c \in OLSOutcomes : [o EXCEPT !.status.conds.ols = c] \in InstanceObjects
           /\ \A f \in BOOLEAN : [o EXCEPT !.fin = f] \in InstanceObjects
           /\ [o EXCEPT !.status.conds = SummarizeReady(@)] \in InstanceObjects
           /\ [o EXCEPT !.status.conds = InitConditions(@), !.status.obsGen = o.gen]
                    \in InstanceObjects
  <1>1. o.gen \in Nat
    BY ConstantTypes DEF InstanceObjects
  <1>2. /\ \A c \in OperatorOutcomes : [o EXCEPT !.status.conds.op = c] \in InstanceObjects
        /\ \A c \in OLSOutcomes : [o EXCEPT !.status.conds.ols = c] \in InstanceObjects
        /\ \A f \in BOOLEAN : [o EXCEPT !.fin = f] \in InstanceObjects
    BY DEF InstanceObjects, Status, Conds
  <1>3. [o EXCEPT !.status.conds = SummarizeReady(@)] \in InstanceObjects
    BY DEF InstanceObjects, Status, Conds, SummarizeReady, ReadyStates
  <1>4. [o EXCEPT !.status.conds = InitConditions(@), !.status.obsGen = o.gen]
            \in InstanceObjects
    BY <1>1 DEF InstanceObjects, Status, Conds, InitConditions, OLSOutcomes, ReadyStates
  <1> QED
    BY <1>2, <1>3, <1>4

\* resolveOCPVersion turns a status into a status.
LEMMA ResolvedStatusType ==
    ASSUME NEW s \in Status, NEW p \in InstanceSpecs,
           NEW d \in [err : BOOLEAN, version : Text]
    PROVE  resolveOCPVersion(s, p, d) \in Status
  <1>1. ResolveOCPVersion(d.version, p.override, p.enableOCPRAG).version \in Text
    BY TextAssumption DEF ResolveOCPVersion, InstanceSpecs, OCPVersionLatest
  <1> QED
    BY <1>1, TextAssumption
    DEF resolveOCPVersion, Status, Conds, RAGOutcomes, InstanceSpecs

\* The version that is detected is a string.
LEMMA DetectedType ==
    ASSUME NEW v \in ClusterVersions
    PROVE  DetectOCPVersion(v) \in [err : BOOLEAN, version : Text]
  BY TextAssumption DEF DetectOCPVersion, ParseMajorMinorVersion, ClusterVersions

\* The documentation an OLSConfig refers to is a sequence of RAG entries.
LEMMA RAGType ==
    ASSUME NEW image \in Text, NEW version \in Text
    PROVE  BuildRAGConfigs(image, version) \in Seq(RAGEntries)
  <1>1. OpenStackRAG(image) \in RAGEntries
    BY TextAssumption DEF OpenStackRAG, RAGEntries
  <1>2. OCPRAG(image, version) \in RAGEntries
    BY TextAssumption DEF OCPRAG, RAGEntries
  <1>3. \A x, y \in RAGEntries : <<x>> \in Seq(RAGEntries) /\ <<x, y>> \in Seq(RAGEntries)
    OBVIOUS
  <1>4. CASE version = ""
    BY <1>1, <1>3, <1>4 DEF BuildRAGConfigs
  <1>5. CASE version # ""
    BY <1>1, <1>2, <1>3, <1>5 DEF BuildRAGConfigs
  <1> QED
    BY <1>4, <1>5

\* The spec the worker wants for the OLSConfig is one.
LEMMA DesiredContentType ==
    ASSUME NEW p \in InstanceSpecs, NEW v \in Text, NEW c \in Content
    PROVE  DesiredContent(Defaulted(p), v, c) \in Content
  <1>1. Defaulted(p) \in InstanceSpecs
    <2>1. \A i \in Text, n \in Nat :
             [p EXCEPT !.ragImage = i, !.maxTokens = n] \in InstanceSpecs
      BY DEF InstanceSpecs
    <2>2. p.ragImage \in Text /\ p.maxTokens \in Nat
      BY DEF InstanceSpecs
    <2>3. (IF p.maxTokens = 0 THEN 2048 ELSE p.maxTokens) \in Nat
      BY <2>2
    <2>4. (IF p.ragImage = "" THEN "default-image" ELSE p.ragImage) \in Text
      BY <2>2, TextAssumption
    <2> DEFINE i == IF p.ragImage = "" THEN "default-image" ELSE p.ragImage
               n == IF p.maxTokens = 0 THEN 2048 ELSE p.maxTokens
    <2>5. i \in Text /\ n \in Nat
      BY <2>3, <2>4
    <2>6. Defaulted(p) = [p EXCEPT !.ragImage = i, !.maxTokens = n]
      BY DEF Defaulted
    <2> HIDE DEF i, n
    <2> QED
      BY <2>1, <2>5, <2>6
  <1>2. BuildRAGConfigs(Defaulted(p).ragImage, v) \in Seq(RAGEntries)
    BY <1>1, RAGType DEF InstanceSpecs
  <1> QED
    BY <1>1, <1>2 DEF DesiredContent, InstanceSpecs, Content

-----------------------------------------------------------------------------
(* The type invariant.                                                     *)

\* Every return of Reconcile preserves the types of the worker's variables.
LEMMA ReturnType ==
    ASSUME WorkerTypeOK, pc # "idle", NEW o \in InstanceObjects, NEW r \in BOOLEAN,
           Return(o, r)
    PROVE  WorkerTypeOK'
  BY ObjectTypes DEF WorkerTypeOK, Return, Labels, PatchLabels

\* So do the returns by name: each one sets a condition to one of its outcomes.
LEMMA ReturnsType ==
    ASSUME WorkerTypeOK, pc # "idle",
           \/ ReturnOperatorError("UserInstalled") \/ ReturnOperatorError("Error")
           \/ ReturnOperatorWait \/ ReturnConfigError \/ ReturnRetry
           \/ ReturnReady \/ ReturnDeleted
    PROVE  WorkerTypeOK'
  <1>1. obj \in InstanceObjects
    BY DEF WorkerTypeOK
  <1>2. /\ [obj EXCEPT !.status.conds.op = "UserInstalled"] \in InstanceObjects
        /\ [obj EXCEPT !.status.conds.op = "Error"] \in InstanceObjects
        /\ [obj EXCEPT !.status.conds.op = "Waiting"] \in InstanceObjects
    BY <1>1, UpdatedObjectTypes DEF OperatorOutcomes
  <1>3. /\ [obj EXCEPT !.status.conds.ols = "Error"] \in InstanceObjects
        /\ [obj EXCEPT !.status.conds.ols = "True"] \in InstanceObjects
    BY <1>1, UpdatedObjectTypes DEF OLSOutcomes
  <1>4. [obj EXCEPT !.fin = FALSE] \in InstanceObjects
    BY <1>1, UpdatedObjectTypes
  <1> QED
    BY <1>1, <1>2, <1>3, <1>4, ReturnType
    DEF ReturnOperatorError, ReturnOperatorWait, ReturnConfigError, ReturnRetry,
        ReturnReady, ReturnDeleted

\* Going on to the next call preserves them, too.
LEMMA GotoType ==
    ASSUME WorkerTypeOK, pc # "idle", NEW l \in Labels \ {"idle"}, Goto(l)
    PROVE  WorkerTypeOK'
  BY DEF WorkerTypeOK, Goto

\* The worker's spec is one of the specs a user gave.
LEMMA SpecType ==
    ASSUME TypeOK
    PROVE  spec \in InstanceSpecs
  BY ConstantTypes DEF TypeOK, WorkerTypeOK, InstanceObjects, spec

\* Steps of users preserve the types.
LEMMA UserStepType ==
    ASSUME TypeOK, UserStep, UNCHANGED workerVars
    PROVE  TypeOK'
  <1> USE DEF TypeOK, ClusterTypeOK
  <1>w. WorkerTypeOK'
    BY DEF WorkerTypeOK, workerVars
  <1> USE DEF instVars, subVars, planVars, csvVars, queueVars, boundVars
  <1>1. ASSUME NEW i \in Instances, CreateInstance(i)
        PROVE  ClusterTypeOK'
    BY <1>1, ObjectTypes DEF CreateInstance
  <1>2. ASSUME NEW i \in Instances, UpdateSpec(i)
        PROVE  ClusterTypeOK'
    <2>1. inst[i].gen \in 1..Len(Specs)
      BY DEF InstanceObjects
    <2>2. inst[i].gen + 1 \in 1..Len(Specs)
      BY <1>2, <2>1, ConstantTypes DEF UpdateSpec
    <2>3. [inst[i] EXCEPT !.gen = @ + 1] \in InstanceObjects
      BY <2>2 DEF InstanceObjects
    <2> QED
      BY <1>2, <2>3 DEF UpdateSpec
  <1>3. ASSUME NEW i \in Instances, DeleteInstance(i)
        PROVE  ClusterTypeOK'
    <2>1. [inst[i] EXCEPT !.deleting = TRUE] \in InstanceObjects
      BY <1>3 DEF InstanceObjects
    <2> QED
      BY <1>3, <2>1, ObjectTypes DEF DeleteInstance
  <1>4. ASSUME UserInstallsOLS PROVE ClusterTypeOK'
    <2>1. csv' \in CSVs
      BY <1>4, ObjectTypes, ConstantTypes DEF UserInstallsOLS, CSVs
    <2>2. userActs' \in Nat
      BY <1>4 DEF UserInstallsOLS
    <2> QED
      BY <1>4, <2>1, <2>2 DEF UserInstallsOLS
  <1>5. ASSUME UserUninstallsOLS PROVE ClusterTypeOK'
    <2>1. csv' \in CSVs
      BY <1>5 DEF UserUninstallsOLS, CSVs
    <2> QED
      BY <1>5, <2>1, NotifyTypes DEF UserUninstallsOLS
  <1>6. ASSUME UserCreatesConfig PROVE ClusterTypeOK'
    <2>1. cfg' \in OLSConfigs
      BY <1>6, ObjectTypes DEF UserCreatesConfig, OLSConfigs
    <2>2. userActs' \in Nat
      BY <1>6 DEF UserCreatesConfig
    <2> QED
      BY <1>6, <2>1, <2>2 DEF UserCreatesConfig
  <1>7. ASSUME UpgradeOCP PROVE ClusterTypeOK'
    <2>1. ocp' \in 1..Len(OCPHistory)
      BY <1>7, ConstantTypes DEF UpgradeOCP
    <2> QED
      BY <1>7, <2>1, NotifyTypes DEF UpgradeOCP
  <1>8. ASSUME UserDeletesConfig PROVE ClusterTypeOK'
    <2>1. [cfg EXCEPT !.deleting = TRUE] \in OLSConfigs
      BY DEF OLSConfigs
    <2>2. cfg' \in OLSConfigs
      BY <1>8, <2>1, ReleasedType DEF UserDeletesConfig
    <2>3. userActs' \in Nat
      BY <1>8 DEF UserDeletesConfig
    <2> QED
      BY <1>8, <2>2, <2>3 DEF UserDeletesConfig
  <1> QED
    BY <1>w, <1>1, <1>2, <1>3, <1>4, <1>5, <1>6, <1>7, <1>8 DEF UserStep

\* Steps of OLM and the garbage collector preserve the types.
LEMMA OLMStepType ==
    ASSUME TypeOK, OLMStep, UNCHANGED workerVars
    PROVE  TypeOK'
  <1> USE DEF TypeOK, ClusterTypeOK
  <1>w. WorkerTypeOK'
    BY DEF WorkerTypeOK, workerVars
  <1>a. ASSUME NEW plan \in InstallPlans, AddPlan(plan)
        PROVE  plans' \in [Plans -> InstallPlans]
    BY <1>a DEF AddPlan
  <1> USE DEF instVars, subVars, planVars, csvVars, queueVars, boundVars
  <1>1. ASSUME NEW i \in Instances, OLMCreatesPlan(i)
        PROVE  ClusterTypeOK'
    <2> DEFINE v == IF sub[i].startingCSV = NoVersion THEN Catalog[Len(Catalog)]
                                                     ELSE sub[i].startingCSV
    <2>1. v \in Text
      BY ConstantTypes DEF Subscriptions
    <2> HIDE DEF v
    <2>2. NewPlan(i, v) \in InstallPlans
      BY <2>1 DEF NewPlan, InstallPlans, Owners
    <2>3. plans' \in [Plans -> InstallPlans]
      BY <1>1, <1>a, <2>2 DEF OLMCreatesPlan, v
    <2> QED
      BY <1>1, <2>3 DEF OLMCreatesPlan
  <1>2. ASSUME NEW i \in Instances, OLMCreatesUpgradePlan(i)
        PROVE  ClusterTypeOK'
    <2>1. PICK k \in 2..Len(Catalog) : AddPlan(NewPlan(i, Catalog[k]))
      BY <1>2 DEF OLMCreatesUpgradePlan
    <2>2. NewPlan(i, Catalog[k]) \in InstallPlans
      BY ConstantTypes DEF NewPlan, InstallPlans, Owners
    <2>3. plans' \in [Plans -> InstallPlans]
      BY <1>a, <2>1, <2>2
    <2> QED
      BY <1>2, <2>3 DEF OLMCreatesUpgradePlan
  <1>3. ASSUME NEW i \in Instances, NEW p \in Plans, OLMLinksPlan(i, p)
        PROVE  ClusterTypeOK'
    <2>1. [sub[i] EXCEPT !.planRef = p] \in Subscriptions
      BY ConstantTypes DEF Subscriptions
    <2> QED
      BY <1>3, <2>1 DEF OLMLinksPlan
  <1>4. ASSUME NEW p \in Plans, OLMExecutesPlan(p)
        PROVE  ClusterTypeOK'
    <2>1. [plans[p] EXCEPT !.phase = "complete"] \in InstallPlans
      BY DEF InstallPlans
    <2>2. csv' \in CSVs
      BY <1>4, ObjectTypes DEF OLMExecutesPlan, CSVs, InstallPlans
    <2>3. plans' \in [Plans -> InstallPlans]
      BY <1>4, <2>1 DEF OLMExecutesPlan
    <2> QED
      BY <1>4, <2>2, <2>3, NotifyTypes DEF OLMExecutesPlan
  <1>5. ASSUME OLMDeploysCSV PROVE ClusterTypeOK'
    <2>1. csv' \in CSVs
      BY <1>5 DEF OLMDeploysCSV, CSVs
    <2>2. cfg' \in OLSConfigs
      BY <1>5 DEF OLMDeploysCSV, OLSConfigs
    <2> QED
      BY <1>5, <2>1, <2>2, NotifyTypes DEF OLMDeploysCSV
  <1>6. ASSUME OLMRemovesCSV PROVE ClusterTypeOK'
    BY <1>6, ObjectTypes, NotifyTypes DEF OLMRemovesCSV
  <1>7. ASSUME NEW i \in Instances, CollectSubscription(i)
        PROVE  ClusterTypeOK'
    BY <1>7, ObjectTypes DEF CollectSubscription
  <1>8. ASSUME OLMReportsCSVFailed PROVE ClusterTypeOK'
    <2>1. csv' \in CSVs
      BY <1>8 DEF OLMReportsCSVFailed, CSVs
    <2> QED
      BY <1>8, <2>1, NotifyTypes DEF OLMReportsCSVFailed
  <1> QED
    BY <1>w, <1>1, <1>2, <1>3, <1>4, <1>5, <1>6, <1>7, <1>8 DEF OLMStep

\* Steps of the OLS operator preserve the types.
LEMMA OLSStepType ==
    ASSUME TypeOK, OLSStep, UNCHANGED workerVars
    PROVE  TypeOK'
  <1> USE DEF TypeOK, ClusterTypeOK
  <1>w. WorkerTypeOK'
    BY DEF WorkerTypeOK, workerVars
  <1>1. cfg' \in OLSConfigs
    <2>1. CASE OLSReconciles
      BY <2>1 DEF OLSReconciles, OLSConfigs, Finalizers
    <2>2. CASE OLSRollsOut
      BY <2>2 DEF OLSRollsOut, OLSConfigs
    <2>3. CASE OLSFinalizes
      BY <2>3, ObjectTypes DEF OLSFinalizes, OLSConfigs, Released
    <2> QED
      BY <2>1, <2>2, <2>3 DEF OLSStep
  <1> QED
    BY <1>w, <1>1
    DEF OLSStep, OLSReconciles, OLSRollsOut, OLSFinalizes, instVars, subVars,
        planVars, csvVars, queueVars, boundVars

\* Deliveries to the caches and the work queue preserve the types.
LEMMA SyncStepType ==
    ASSUME TypeOK, SyncStep, UNCHANGED workerVars
    PROVE  TypeOK'
  <1> USE DEF TypeOK, ClusterTypeOK
  <1>w. WorkerTypeOK'
    BY DEF WorkerTypeOK, workerVars
  <1> USE DEF instVars, subVars, planVars, csvVars, queueVars, boundVars
  <1>1. ASSUME NEW i \in Instances, SyncInstance(i)
        PROVE  ClusterTypeOK'
    BY <1>1 DEF SyncInstance
  <1>2. ASSUME NEW i \in Instances, SyncSubscription(i)
        PROVE  ClusterTypeOK'
    BY <1>2 DEF SyncSubscription
  <1>3. ASSUME NEW i \in Instances, TimerFires(i)
        PROVE  ClusterTypeOK'
    BY <1>3 DEF TimerFires
  <1>4. ASSUME SyncPlans PROVE ClusterTypeOK'
    BY <1>4, NotifyTypes DEF SyncPlans
  <1> QED
    BY <1>w, <1>1, <1>2, <1>3, <1>4 DEF SyncStep

\* The conditions and the active version after resolveOCPVersion are typed,
\* and so is the worker, whichever way it goes on.
LEMMA AfterResolveType ==
    ASSUME TypeOK, pc = "resolve", NEW d \in [err : BOOLEAN, version : Text],
           AfterResolve([obj EXCEPT !.status = resolveOCPVersion(@, spec, d)])
    PROVE  WorkerTypeOK'
  <1> DEFINE o == [obj EXCEPT !.status = resolveOCPVersion(@, spec, d)]
  <1>1. o \in InstanceObjects
    <2>1. resolveOCPVersion(obj.status, spec, d) \in Status
      BY SpecType, ResolvedStatusType DEF TypeOK, WorkerTypeOK, InstanceObjects
    <2> QED
      BY <2>1 DEF TypeOK, WorkerTypeOK, InstanceObjects
  <1>2. [o EXCEPT !.fin = TRUE] \in InstanceObjects
    BY <1>1, UpdatedObjectTypes
  <1>3. AfterResolve(o)
    OBVIOUS
  <1> HIDE DEF o
  <1>4. ASSUME Return([o EXCEPT !.fin = TRUE], FALSE) PROVE WorkerTypeOK'
    BY <1>2, <1>4, ReturnType DEF TypeOK
  <1> QED
    BY <1>1, <1>3, <1>4
    DEF AfterResolve, TypeOK, WorkerTypeOK, Labels, InstallLabels, RemoveLabels

\* The end of a reconciliation leaves the worker typed and may set a timer.
LEMMA DoneType ==
    ASSUME TypeOK, pc # "idle", Done
    PROVE  WorkerTypeOK' /\ timers' \subseteq Instances
  <1>1. WorkerTypeOK'
    BY ObjectTypes DEF Done, WorkerTypeOK, Labels, Owners
  <1>2. cur \in Instances
    BY DEF TypeOK, WorkerTypeOK, Owners
  <1> QED
    BY <1>1, <1>2 DEF Done, TypeOK, ClusterTypeOK

\* The beginning and the end of a reconciliation preserve the types.
LEMMA FrameStepType ==
    ASSUME TypeOK, FrameStep
    PROVE  TypeOK'
  <1> USE DEF TypeOK, ClusterTypeOK
  <1> USE DEF instVars, subVars, planVars, csvVars, queueVars, boundVars
  <1>1. ASSUME NEW i \in Instances, Reconcile(i)
        PROVE  TypeOK'
    <2>1. cinst[i] \in InstanceObjects
      OBVIOUS
    <2>2. obj' \in InstanceObjects
      BY <1>1, <2>1, UpdatedObjectTypes DEF Reconcile
    <2>3. WorkerTypeOK'
      BY <1>1, <2>1, <2>2, InstancesAssumption DEF Reconcile, WorkerTypeOK, Owners, Labels
    <2> QED
      BY <1>1, <2>3 DEF Reconcile
  <1>2. ASSUME NEW i \in Instances, ReconcileNotFound(i)
        PROVE  TypeOK'
    <2>1. WorkerTypeOK'
      BY <1>2 DEF ReconcileNotFound, WorkerTypeOK, workerVars
    <2> QED
      BY <1>2, <2>1 DEF ReconcileNotFound
  <1>3. ASSUME Resolve PROVE TypeOK'
    <2>1. DetectOCPVersion(OCPHistory[ocp]) \in [err : BOOLEAN, version : Text]
      BY ConstantTypes, DetectedType
    <2>2. WorkerTypeOK'
      BY <1>3, <2>1, AfterResolveType DEF Resolve
    <2> QED
      BY <1>3, <2>2 DEF Resolve, clusterVars
  <1>4. ASSUME PatchMetadata PROVE TypeOK'
    <2>1. obj' \in InstanceObjects
      BY <1>4, UpdatedObjectTypes DEF PatchMetadata, WorkerTypeOK
    <2>2. WorkerTypeOK'
      BY <1>4, <2>1 DEF PatchMetadata, WorkerTypeOK, Labels, PatchLabels
    <2>3. cur \in Instances /\ obj.fin \in BOOLEAN
      BY <1>4 DEF PatchMetadata, WorkerTypeOK, Owners, InstanceObjects
    <2>4. [inst[cur] EXCEPT !.fin = obj.fin] \in InstanceObjects
      BY <2>3, UpdatedObjectTypes
    <2>5. inst' \in [Instances -> InstanceObjects]
      BY <1>4, <2>3, <2>4, ObjectTypes DEF PatchMetadata
    <2> QED
      BY <1>4, <2>2, <2>5 DEF PatchMetadata
  <1>5. ASSUME PatchStatus PROVE TypeOK'
    <2>1. cur \in Instances
      BY <1>5 DEF PatchStatus, WorkerTypeOK, Owners
    <2> DEFINE s == MergePatch(before.status, obj.status, inst[cur].status)
    <2>2. s \in Status
      BY <2>1, MergeStatusType DEF WorkerTypeOK, InstanceObjects
    <2>3. inst' = IF inst[cur].phase # "live" THEN inst
                  ELSE [inst EXCEPT ![cur].status = s]
      BY <1>5 DEF PatchStatus
    <2> HIDE DEF s
    <2>4. [inst[cur] EXCEPT !.status = s] \in InstanceObjects
      BY <2>1, <2>2 DEF InstanceObjects
    <2>5. inst' \in [Instances -> InstanceObjects]
      BY <2>1, <2>3, <2>4
    <2>6. WorkerTypeOK' /\ timers' \subseteq Instances
      BY <1>5, DoneType DEF PatchStatus
    <2> QED
      BY <1>5, <2>5, <2>6 DEF PatchStatus
  <1> QED
    BY <1>1, <1>2, <1>3, <1>4, <1>5 DEF FrameStep

\* A failed call preserves the types.
LEMMA CallFailsType ==
    ASSUME TypeOK, CallFails
    PROVE  TypeOK'
  <1> USE DEF TypeOK, ClusterTypeOK
  <1>1. WorkerTypeOK' /\ timers' \subseteq Instances
    <2>1. CASE pc = "resolve" /\ AfterResolve([obj EXCEPT !.status =
                resolveOCPVersion(@, spec, [err |-> TRUE, version |-> ""])])
              /\ UNCHANGED timers
      <3>1. [err |-> TRUE, version |-> ""] \in [err : BOOLEAN, version : Text]
        BY TextAssumption
      <3> QED
        BY <2>1, <3>1, AfterResolveType
    <2>2. CASE /\ pc \in InstallLabels \cup ConfigLabels \cup ReadyLabels
                            \cup RemoveLabels \cup UninstallLabels
               /\ ReturnOperatorError("Error") \/ ReturnConfigError \/ ReturnRetry
               /\ UNCHANGED timers
      <3>1. pc # "idle"
        BY <2>2 DEF InstallLabels, ConfigLabels, ReadyLabels, RemoveLabels, UninstallLabels
      <3> QED
        BY <2>2, <3>1, ReturnsType
    <2>3. CASE pc \in PatchLabels /\ Done
      BY <2>3, DoneType DEF PatchLabels
    <2> QED
      BY <2>1, <2>2, <2>3 DEF CallFails
  <1>2. faults' \in Nat
    <2>1. faults' = faults + 1
      BY DEF CallFails, Fault
    <2> QED
      BY <2>1
  <1> QED
    BY <1>1, <1>2 DEF CallFails, instVars, subVars, planVars, csvVars

\* A crash and the restart after it preserve the types.
LEMMA RestartType ==
    ASSUME TypeOK, Restart
    PROVE  TypeOK'
  <1> USE DEF TypeOK, ClusterTypeOK
  <1>1. WorkerTypeOK'
    BY ObjectTypes DEF Restart, WorkerTypeOK, Labels, Owners
  <1>2. restarts' \in Nat
    BY DEF Restart
  <1>3. queue' \subseteq Instances
    BY DEF Restart
  <1> QED
    BY <1>1, <1>2, <1>3 DEF Restart, csvVars

-----------------------------------------------------------------------------

\* A Subscription that was written is one.
LEMMA SubscriptionWrittenType ==
    ASSUME TypeOK, pc = "subscribe", SubscriptionWritten
    PROVE  sub' \in [Instances -> Subscriptions]
  <1> USE DEF TypeOK, ClusterTypeOK
  <1>1. cur \in Instances
    BY DEF WorkerTypeOK, Owners
  <1>2. GetRecommendedOLSVersion \in Text
    BY TextAssumption, RecommendationsAssumption DEF GetRecommendedOLSVersion, NoVersion
  <1>3. DesiredSubscription(sub[cur]) \in Subscriptions
    BY <1>1, <1>2, SpecType DEF DesiredSubscription, Subscriptions, InstanceSpecs
  <1> QED
    BY <1>1, <1>3 DEF SubscriptionWritten

\* The calls of EnsureOLSOperatorInstalled preserve the types.
LEMMA InstallStepType ==
    ASSUME TypeOK, InstallStep
    PROVE  TypeOK'
  <1> USE DEF TypeOK, ClusterTypeOK
  <1>l. {"subscribe", "approve", "adopt"} \subseteq Labels \ {"idle"}
    BY DEF Labels, InstallLabels
  <1>r. ASSUME pc # "idle",
               \/ ReturnOperatorError("UserInstalled") \/ ReturnOperatorError("Error")
               \/ ReturnOperatorWait \/ Goto("subscribe") \/ Goto("approve")
               \/ Goto("adopt")
        PROVE  WorkerTypeOK'
    BY <1>l, <1>r, ReturnsType, GotoType
  <1> USE DEF instVars, subVars, planVars, csvVars, queueVars, boundVars
  <1>1. ASSUME EnsureOLSOperatorInstalled PROVE TypeOK'
    <2>1. WorkerTypeOK'
      BY <1>1, <1>r DEF EnsureOLSOperatorInstalled
    <2> QED
      BY <1>1, <2>1 DEF EnsureOLSOperatorInstalled, clusterVars
  <1>2. ASSUME WriteSubscription PROVE TypeOK'
    <2>1. WorkerTypeOK'
      BY <1>2, <1>r DEF WriteSubscription
    <2>2. sub' \in [Instances -> Subscriptions]
      BY <1>2, SubscriptionWrittenType DEF WriteSubscription
    <2> QED
      BY <1>2, <2>1, <2>2 DEF WriteSubscription
  <1>3. ASSUME CheckSubscription PROVE TypeOK'
    <2>1. WorkerTypeOK'
      BY <1>3, <1>r DEF CheckSubscription
    <2> QED
      BY <1>3, <2>1 DEF CheckSubscription, clusterVars
  <1>4. ASSUME ApproveOLSOperatorInstallPlan PROVE TypeOK'
    <2>1. WorkerTypeOK'
      BY <1>4, <1>r DEF ApproveOLSOperatorInstallPlan
    <2>2. \A p \in Plans : [plans[p] EXCEPT !.approved = TRUE] \in InstallPlans
      BY DEF InstallPlans
    <2>3. plans' \in [Plans -> InstallPlans]
      BY <1>4, <2>2 DEF ApproveOLSOperatorInstallPlan
    <2> QED
      BY <1>4, <2>1, <2>3 DEF ApproveOLSOperatorInstallPlan
  <1>5. ASSUME FindCSVToOwn PROVE TypeOK'
    <2>1. WorkerTypeOK'
      BY <1>5, <1>r DEF FindCSVToOwn, WorkerTypeOK, Labels, InstallLabels
    <2> QED
      BY <1>5, <2>1 DEF FindCSVToOwn, clusterVars
  <1>6. ASSUME OwnCSV PROVE TypeOK'
    <2>1. WorkerTypeOK'
      BY <1>6, <1>r, ObjectTypes DEF OwnCSV, WorkerTypeOK, Labels, InstallLabels
    <2>2. csv' \in CSVs
      BY <1>6 DEF OwnCSV, CSVs, WorkerTypeOK
    <2>3. queue' \subseteq Instances
      BY <1>6, NotifyTypes DEF OwnCSV
    <2> QED
      BY <1>6, <2>1, <2>2, <2>3 DEF OwnCSV
  <1>7. ASSUME CompleteInstall PROVE TypeOK'
    <2>1. [obj EXCEPT !.status.conds.op = "True"] \in InstanceObjects
      BY UpdatedObjectTypes DEF WorkerTypeOK, OperatorOutcomes
    <2>2. WorkerTypeOK'
      BY <1>7, <1>r, <2>1 DEF CompleteInstall, WorkerTypeOK, Labels, ConfigLabels
    <2> QED
      BY <1>7, <2>2 DEF CompleteInstall, clusterVars
  <1> QED
    BY <1>1, <1>2, <1>3, <1>4, <1>5, <1>6, <1>7 DEF InstallStep

\* The calls of UninstallInstanceOwnedOLSOperator preserve the types.
LEMMA UninstallStepType ==
    ASSUME TypeOK, UninstallStep
    PROVE  TypeOK'
  <1> USE DEF TypeOK, ClusterTypeOK
  <1>r. ASSUME pc # "idle", ReturnDeleted \/ ReturnRetry \/ Goto("unDelete")
        PROVE  WorkerTypeOK'
    BY <1>r, ReturnsType, GotoType DEF Labels, UninstallLabels
  <1> USE DEF instVars, subVars, planVars, csvVars, queueVars, boundVars
  <1>1. ASSUME FindCSVToUninstall PROVE TypeOK'
    <2>1. WorkerTypeOK'
      BY <1>1, <1>r DEF FindCSVToUninstall, WorkerTypeOK, Labels, UninstallLabels
    <2> QED
      BY <1>1, <2>1 DEF FindCSVToUninstall, clusterVars
  <1>2. ASSUME DeleteOLSOperatorInstallPlan PROVE TypeOK'
    <2>1. WorkerTypeOK'
      BY <1>2, <1>r DEF DeleteOLSOperatorInstallPlan
    <2>2. \A p \in Plans : [plans[p] EXCEPT !.phase = "deleted"] \in InstallPlans
      BY DEF InstallPlans
    <2>3. plans' \in [Plans -> InstallPlans]
      BY <1>2, <2>2 DEF DeleteOLSOperatorInstallPlan
    <2> QED
      BY <1>2, <2>1, <2>3 DEF DeleteOLSOperatorInstallPlan
  <1>3. ASSUME DeleteCSV PROVE TypeOK'
    <2>1. WorkerTypeOK'
      BY <1>3, <1>r, ObjectTypes DEF DeleteCSV, WorkerTypeOK, Labels, UninstallLabels
    <2>2. csv' \in CSVs
      BY <1>3 DEF DeleteCSV, CSVs
    <2>3. queue' \subseteq Instances
      BY <1>3, NotifyTypes DEF DeleteCSV
    <2> QED
      BY <1>3, <2>1, <2>2, <2>3 DEF DeleteCSV
  <1>4. ASSUME CheckUninstalled PROVE TypeOK'
    <2>1. WorkerTypeOK'
      BY <1>4, <1>r DEF CheckUninstalled
    <2> QED
      BY <1>4, <2>1 DEF CheckUninstalled, clusterVars
  <1> QED
    BY <1>1, <1>2, <1>3, <1>4 DEF UninstallStep

\* The object that PatchOLSConfig asks for, and the one the API server makes
\* of it, are OLSConfigs.
LEMMA PatchedConfigTypes ==
    ASSUME TypeOK
    PROVE  /\ PatchOLSConfig(seenCfg) \in OLSConfigs
           /\ \A new \in OLSConfigs : PatchedConfig(new) \in OLSConfigs
  <1> USE DEF TypeOK, ClusterTypeOK, WorkerTypeOK
  <1>1. PatchOLSConfig(seenCfg) \in OLSConfigs
    <2> DEFINE w == DesiredContent(Defaulted(spec), obj.status.active, seenCfg.want)
    <2>1. w \in Content
      <3>1. obj.status.active \in Text
        BY DEF InstanceObjects, Status
      <3>2. seenCfg.want \in Content
        BY DEF OLSConfigs
      <3> QED
        BY <3>1, <3>2, SpecType, DesiredContentType
    <2>2. PatchOLSConfig(seenCfg) =
            [seenCfg EXCEPT !.exists = TRUE, !.want = w,
                            !.label = IF @ = NoInstance THEN cur ELSE @,
                            !.fins = @ \cup {OwnFinalizer}]
      BY DEF PatchOLSConfig
    <2> HIDE DEF w
    <2> QED
      BY <2>1, <2>2 DEF OLSConfigs, OwnFinalizer, Finalizers, Owners
  <1>2. ASSUME NEW new \in OLSConfigs
        PROVE  PatchedConfig(new) \in OLSConfigs
    <2> DEFINE w == MergePatch(seenCfg.want, new.want, cfg.want)
    <2>1. w \in Content
      BY MergeContentType DEF OLSConfigs
    <2>2. PatchedConfig(new) =
            [cfg EXCEPT !.want = w,
                        !.label = IF new.label = seenCfg.label THEN @ ELSE new.label,
                        !.fins = IF new.fins = seenCfg.fins THEN @ ELSE new.fins,
                        !.dirty = TRUE]
      BY DEF PatchedConfig
    <2> HIDE DEF w
    <2> QED
      BY <2>1, <2>2 DEF OLSConfigs
  <1> QED
    BY <1>1, <1>2

\* An OLSConfig that was written is one.
LEMMA ConfigWrittenType ==
    ASSUME TypeOK, ConfigWritten(PatchOLSConfig(seenCfg))
    PROVE  cfg' \in OLSConfigs
  <1> DEFINE new == PatchOLSConfig(seenCfg)
  <1>1. new \in OLSConfigs /\ PatchedConfig(new) \in OLSConfigs
    BY PatchedConfigTypes
  <1>2. cfg' \in {[new EXCEPT !.dirty = TRUE], PatchedConfig(new)}
    BY DEF ConfigWritten
  <1> HIDE DEF new
  <1>3. [new EXCEPT !.dirty = TRUE] \in OLSConfigs
    BY <1>1 DEF OLSConfigs
  <1> QED
    BY <1>1, <1>2, <1>3

\* The calls that write the OLSConfig and wait for it preserve the types.
LEMMA ConfigStepType ==
    ASSUME TypeOK, ConfigStep
    PROVE  TypeOK'
  <1> USE DEF TypeOK, ClusterTypeOK
  <1>l. {"ready", "ping", "cfgWrite", "pingWrite"} \subseteq Labels \ {"idle"}
    BY DEF Labels, ConfigLabels, ReadyLabels
  <1>r. ASSUME pc # "idle",
               \/ ReturnConfigError \/ ReturnRetry \/ ReturnReady
               \/ Goto("ready") \/ Goto("ping")
        PROVE  WorkerTypeOK'
    BY <1>l, <1>r, ReturnsType, GotoType
  <1> USE DEF instVars, subVars, planVars, csvVars, queueVars, boundVars
  <1>1. ASSUME GetOLSConfig PROVE TypeOK'
    <2>1. WorkerTypeOK'
      BY <1>1, <1>r, <1>l DEF GetOLSConfig, WorkerTypeOK
    <2> QED
      BY <1>1, <2>1 DEF GetOLSConfig, clusterVars
  <1>2. ASSUME WriteOLSConfig PROVE TypeOK'
    <2>1. WorkerTypeOK'
      BY <1>2, <1>r DEF WriteOLSConfig
    <2>2. cfg' \in OLSConfigs
      BY <1>2, ConfigWrittenType DEF WriteOLSConfig
    <2> QED
      BY <1>2, <2>1, <2>2 DEF WriteOLSConfig
  <1>3. ASSUME IsOLSConfigReady PROVE TypeOK'
    <2>1. WorkerTypeOK'
      BY <1>3, <1>r DEF IsOLSConfigReady
    <2> QED
      BY <1>3, <2>1 DEF IsOLSConfigReady, clusterVars
  <1>4. ASSUME OLSConfigPing PROVE TypeOK'
    <2>1. WorkerTypeOK'
      BY <1>4, <1>r, <1>l DEF OLSConfigPing, WorkerTypeOK
    <2> QED
      BY <1>4, <2>1 DEF OLSConfigPing, clusterVars
  <1>5. ASSUME UpdatePingLabel PROVE TypeOK'
    <2>1. WorkerTypeOK'
      BY <1>5, <1>r DEF UpdatePingLabel
    <2>2. cfg' \in OLSConfigs
      BY <1>5 DEF UpdatePingLabel, OLSConfigs
    <2> QED
      BY <1>5, <2>1, <2>2 DEF UpdatePingLabel
  <1> QED
    BY <1>1, <1>2, <1>3, <1>4, <1>5 DEF ConfigStep

\* The calls of RemoveOLSConfig preserve the types.
LEMMA RemoveStepType ==
    ASSUME TypeOK, RemoveStep
    PROVE  TypeOK'
  <1> USE DEF TypeOK, ClusterTypeOK
  <1>l. {"unList", "rmGet", "rmPatch", "rmDelete", "rmCheck"} \subseteq Labels \ {"idle"}
    BY DEF Labels, RemoveLabels, UninstallLabels
  <1>r. ASSUME pc # "idle",
               \/ ReturnRetry \/ Goto("unList") \/ Goto("rmGet")
               \/ Goto("rmDelete") \/ Goto("rmCheck")
        PROVE  WorkerTypeOK'
    BY <1>l, <1>r, ReturnsType, GotoType
  <1> USE DEF instVars, subVars, planVars, csvVars, queueVars, boundVars
  <1>1. ASSUME FindOLSConfigToRemove PROVE TypeOK'
    <2>1. WorkerTypeOK'
      BY <1>1, <1>r DEF FindOLSConfigToRemove
    <2> QED
      BY <1>1, <2>1 DEF FindOLSConfigToRemove, clusterVars
  <1>2. ASSUME CheckOLSConfigOwner PROVE TypeOK'
    <2>1. WorkerTypeOK'
      BY <1>2, <1>r, <1>l DEF CheckOLSConfigOwner, WorkerTypeOK
    <2> QED
      BY <1>2, <2>1 DEF CheckOLSConfigOwner, clusterVars
  <1>3. ASSUME RemoveOwnFinalizer PROVE TypeOK'
    <2>1. WorkerTypeOK'
      BY <1>3, <1>r, <1>l, ObjectTypes DEF RemoveOwnFinalizer, WorkerTypeOK
    <2>2. [cfg EXCEPT !.fins = RemainingFinalizers, !.dirty = TRUE] \in OLSConfigs
      BY DEF RemainingFinalizers, OLSConfigs, WorkerTypeOK
    <2>3. cfg' \in OLSConfigs
      BY <1>3, <2>2, ReleasedType DEF RemoveOwnFinalizer
    <2> QED
      BY <1>3, <2>1, <2>3 DEF RemoveOwnFinalizer
  <1>4. ASSUME DeleteOLSConfig PROVE TypeOK'
    <2>1. WorkerTypeOK'
      BY <1>4, <1>r DEF DeleteOLSConfig
    <2>2. [cfg EXCEPT !.deleting = TRUE] \in OLSConfigs
      BY DEF OLSConfigs
    <2>3. cfg' \in OLSConfigs
      BY <1>4, <2>2, ReleasedType DEF DeleteOLSConfig
    <2> QED
      BY <1>4, <2>1, <2>3 DEF DeleteOLSConfig
  <1>5. ASSUME CheckOLSConfigRemoved PROVE TypeOK'
    <2>1. WorkerTypeOK'
      BY <1>5, <1>r DEF CheckOLSConfigRemoved
    <2> QED
      BY <1>5, <2>1 DEF CheckOLSConfigRemoved, clusterVars
  <1> QED
    BY <1>1, <1>2, <1>3, <1>4, <1>5 DEF RemoveStep

\* Writes whose response is lost preserve the types.
LEMMA ResponseLostType ==
    ASSUME TypeOK, SubscriptionResponseLost \/ ConfigResponseLost
    PROVE  TypeOK'
  <1> USE DEF TypeOK, ClusterTypeOK
  <1> USE DEF instVars, subVars, planVars, csvVars, queueVars, boundVars
  <1>f. faults' \in Nat
    <2>1. faults' = faults + 1
      BY DEF SubscriptionResponseLost, ConfigResponseLost, Fault
    <2> QED
      BY <2>1
  <1>w. WorkerTypeOK'
    BY ReturnsType DEF SubscriptionResponseLost, ConfigResponseLost
  <1>1. CASE SubscriptionResponseLost
    <2>1. sub' \in [Instances -> Subscriptions]
      BY <1>1, SubscriptionWrittenType DEF SubscriptionResponseLost
    <2> QED
      BY <1>1, <1>f, <1>w, <2>1 DEF SubscriptionResponseLost
  <1>2. CASE ConfigResponseLost
    <2>1. cfg' \in OLSConfigs
      BY <1>2, ConfigWrittenType DEF ConfigResponseLost
    <2> QED
      BY <1>2, <1>f, <1>w, <2>1 DEF ConfigResponseLost
  <1> QED
    BY <1>1, <1>2

-----------------------------------------------------------------------------

\* The objects of a settled cluster have the types of their kinds.
LEMMA SettledTypes ==
    ASSUME recommended \in Recommendations, NEW i \in Instances,
           NEW g \in 1..Len(Specs), NEW k \in 1..Len(OCPHistory)
    PROVE  /\ SettledStatus(g, OCPHistory[k]) \in Status
           /\ SettledContent(g, OCPHistory[k], NoContent) \in Content
           /\ SettledVersion \in Text
           /\ GetRecommendedOLSVersion \in Text
  <1> DEFINE s == resolveOCPVersion([NoStatus EXCEPT !.obsGen = g], Specs[g],
                                    DetectOCPVersion(OCPHistory[k]))
  <1>1. s \in Status
    <2>1. [NoStatus EXCEPT !.obsGen = g] \in Status
      BY ObjectTypes, ConstantTypes DEF Status
    <2> QED
      BY <2>1, ConstantTypes, DetectedType, ResolvedStatusType
  <1>2. SettledStatus(g, OCPHistory[k]) =
            [s EXCEPT !.conds.ols = "True", !.conds.op = "True", !.conds.ready = "True"]
    BY DEF SettledStatus
  <1> HIDE DEF s
  <1>3. SettledStatus(g, OCPHistory[k]) \in Status
    <2> DEFINE s1 == [s EXCEPT !.conds.ols = "True"]
               s2 == [s1 EXCEPT !.conds.op = "True"]
    <2>1. SettledStatus(g, OCPHistory[k]) = [s2 EXCEPT !.conds.ready = "True"]
      BY <1>2
    <2>2. s1 \in Status
      BY <1>1 DEF Status, Conds, OLSOutcomes
    <2> HIDE DEF s1
    <2>3. s2 \in Status
      BY <2>2 DEF Status, Conds, OperatorOutcomes
    <2> HIDE DEF s2
    <2> QED
      BY <2>1, <2>3 DEF Status, Conds, ReadyStates
  <1>4. SettledContent(g, OCPHistory[k], NoContent) \in Content
    <2>1. SettledStatus(g, OCPHistory[k]).active \in Text
      BY <1>3 DEF Status
    <2> QED
      BY <2>1, ConstantTypes, ObjectTypes, DesiredContentType DEF SettledContent
  <1>5. GetRecommendedOLSVersion \in Text
    BY TextAssumption, RecommendationsAssumption DEF GetRecommendedOLSVersion, NoVersion
  <1> QED
    BY <1>3, <1>4, <1>5, ConstantTypes DEF SettledVersion

\* Both kinds of initial states are typed.
LEMMA InitType == Init => TypeOK
  <1> SUFFICES ASSUME Init PROVE TypeOK
    OBVIOUS
  <1>w. WorkerTypeOK
    BY ObjectTypes DEF Init, WorkerInit, WorkerTypeOK, Labels, Owners
  <1>1. CASE FirstOwner = NoInstance
    <2>1. ClusterInit
      BY <1>1 DEF Init, InitialCluster
    <2> QED
      BY <1>w, <2>1, ObjectTypes, ConstantTypes DEF ClusterInit, TypeOK, ClusterTypeOK
  <1>2. CASE FirstOwner # NoInstance
    <2> DEFINE i == FirstOwner
    <2>1. i \in Instances
      BY <1>2, FirstOwnerAssumption DEF Owners
    <2>2. /\ recommended \in Recommendations
          /\ Settled(i, 1, 1, RolledOut(1, 1))
          /\ userActs = 0 /\ restarts = 0 /\ faults = 0
      BY <1>2 DEF Init, InitialCluster
    <2> HIDE DEF i
    <2> DEFINE st == SettledStatus(1, OCPHistory[1])
               ct == SettledContent(1, OCPHistory[1], NoContent)
    <2>3. /\ st \in Status /\ ct \in Content
          /\ SettledVersion \in Text /\ GetRecommendedOLSVersion \in Text
      BY <2>1, <2>2, ConstantTypes, SettledTypes
    <2>4. /\ RolledOut(1, 1).rolled = ct /\ RolledOut(1, 1).want = NoContent
          /\ RolledOut(1, 1).overall \in BOOLEAN
          /\ RolledOut(1, 1).dirty \in BOOLEAN
      BY DEF RolledOut
    <2>5. inst \in [Instances -> InstanceObjects] /\ cinst = inst
      <3>1. inst = [j \in Instances |->
                      IF j = i THEN [CreatedObject EXCEPT !.fin = TRUE, !.gen = 1, !.status = st]
                               ELSE NewObject] /\ cinst = inst
        BY <2>2 DEF Settled
      <3> HIDE DEF st
      <3>2. [CreatedObject EXCEPT !.fin = TRUE, !.gen = 1, !.status = st] \in InstanceObjects
        BY <2>3, ObjectTypes, ConstantTypes DEF InstanceObjects
      <3> QED
        BY <3>1, <3>2, ObjectTypes
    <2>6. sub \in [Instances -> Subscriptions] /\ csub = sub
      <3>1. [exists |-> TRUE, catalog |-> Specs[1].catalog,
             startingCSV |-> GetRecommendedOLSVersion, planRef |-> 1] \in Subscriptions
        BY <2>3, ConstantTypes DEF Subscriptions, InstanceSpecs
      <3> QED
        BY <2>2, <3>1, ObjectTypes DEF Settled
    <2>7. plans \in [Plans -> InstallPlans] /\ cplans = plans
      <3>1. [phase |-> "complete", approved |-> TRUE, version |-> SettledVersion,
             via |-> i] \in InstallPlans
        BY <2>1, <2>3 DEF InstallPlans, Owners
      <3> QED
        BY <2>2, <3>1, ObjectTypes DEF Settled
    <2>8. csv \in CSVs /\ crd = TRUE
      BY <2>1, <2>2, <2>3 DEF Settled, CSVs, Owners
    <2>9. cfg \in OLSConfigs
      <3>1. cfg = [exists |-> TRUE, label |-> i, fins |-> Finalizers, deleting |-> FALSE,
                   want |-> ct, rolled |-> RolledOut(1, 1).rolled,
                   overall |-> RolledOut(1, 1).overall, dirty |-> RolledOut(1, 1).dirty]
        BY <2>2, <2>4 DEF Settled
      <3> HIDE DEF ct
      <3> QED
        BY <2>1, <2>3, <2>4, <3>1 DEF OLSConfigs, Owners
    <2>10. ocp = 1 /\ queue = {} /\ timers = {}
      BY <2>2 DEF Settled
    <2> QED
      BY <1>w, <2>2, <2>5, <2>6, <2>7, <2>8, <2>9, <2>10, ConstantTypes
      DEF TypeOK, ClusterTypeOK
  <1> QED
    BY <1>1, <1>2

\* Every step preserves the types.
LEMMA NextType == TypeOK /\ [Next]_vars => TypeOK'
  <1> SUFFICES ASSUME TypeOK, [Next]_vars PROVE TypeOK'
    OBVIOUS
  <1>1. CASE UNCHANGED vars
    BY <1>1
    DEF TypeOK, ClusterTypeOK, WorkerTypeOK, vars, clusterVars, workerVars, instVars,
        subVars, planVars, csvVars, queueVars, boundVars
  <1>2. CASE WorkerStep
    BY <1>2, FrameStepType, InstallStepType, UninstallStepType, ConfigStepType,
       RemoveStepType DEF WorkerStep
  <1>3. CASE CallFails \/ SubscriptionResponseLost \/ ConfigResponseLost \/ Restart
    BY <1>3, CallFailsType, ResponseLostType, RestartType
  <1>4. CASE ClusterStep /\ UNCHANGED workerVars
    BY <1>4, UserStepType, OLMStepType, OLSStepType, SyncStepType DEF ClusterStep
  <1> QED
    BY <1>1, <1>2, <1>3, <1>4 DEF Next

\* Type correctness, for any number of instances and any bounds: in particular
\* merge patches never leave an object with a field missing, and the worker
\* names an instance exactly while it reconciles one.
THEOREM TypeCorrect == Spec => []TypeOK
  <1>1. Init => TypeOK
    BY InitType
  <1>2. TypeOK /\ [Next]_vars => TypeOK'
    BY NextType
  <1> QED
    BY <1>1, <1>2, PTL DEF Spec
=============================================================================
