------------------------------ MODULE Cluster ------------------------------
(***************************************************************************)
(* What surrounds the reconciler: the objects it manages through the API   *)
(* server, the informer caches it reads some of them from, its work queue, *)
(* and everything else that changes those objects - OLM, the OpenShift     *)
(* Lightspeed (OLS) operator, the garbage collector and users.             *)
(*                                                                         *)
(* Objects read from a cache have a second variable, the cached copy; the  *)
(* reconciler reads the other ones (OLSConfig, the OLS operator's CSV and  *)
(* ClusterVersion) from the API server itself.                             *)
(***************************************************************************)
EXTENDS Naturals, Sequences, FiniteSets, Conditions

CONSTANTS
    Text,             \* strings
    Instances,        \* OpenStackLightspeed objects, named by their UID
    NoInstance,       \* no owner, no label
    User,             \* who installs an OLS operator by hand
    Specs,            \* the specs a user gives an instance, in this order
    OCPHistory,       \* the ClusterVersion objects, in the order of upgrades
    Catalog,          \* the versions of the OLS operator, oldest first
    ProperSuffixes,   \* the versions that end in another one, with that one
    Recommendations,  \* values of OPENSHIFT_LIGHTSPEED_OPERATOR_VERSION
    Deletable,        \* the instances a user may delete
    CSVMayFail,       \* may an OLS operator that runs stop running?
    MaxPlans,         \* bound on the InstallPlans OLM creates
    MaxUserActs,      \* bound on what users do to OLS operator and OLSConfig
    MaxRestarts,      \* bound on crashes of the operator
    MaxFaults,        \* bound on failed API calls
    MaxDisturbances   \* bound on the last three together

VARIABLES
    inst, cinst,      \* OpenStackLightspeed instances and their cached copies
    sub, csub,        \* the Subscription of each instance and its cached copy
    plans, cplans,    \* the InstallPlans and their cached copies
    csv,              \* the ClusterServiceVersion of the OLS operator
    crd,              \* is the OLSConfig kind known to the API server?
    cfg,              \* the OLSConfig object named "cluster"
    ocp,              \* the current entry of OCPHistory
    recommended,      \* the operator's environment variable
    queue,            \* instances waiting to be reconciled
    timers,           \* instances queued again after a delay
    userActs, restarts, faults      \* what the bounds have used up

Plans == 1..MaxPlans
NoPlan == 0

CatalogVersions == {Catalog[k] : k \in 1..Len(Catalog)}
NoVersion == ""

ASSUME TextAssumption ==
    {"", "latest", "user", "default-image", "os_product_docs", "ocp_vector_db"}
        \subseteq Text

ASSUME InstancesAssumption ==
    /\ NoInstance \notin Instances
    /\ User \notin Instances
    /\ User # NoInstance
    /\ Deletable \subseteq Instances

\* copied stands for the fields that go to the OLSConfig as they are (endpoint,
\* model, credentials...).
InstanceSpecs == [catalog : Text, ca : Text, enableOCPRAG : BOOLEAN,
                  override : Text, ragImage : Text, maxTokens : Nat,
                  copied : Text]
ClusterVersions == [found : BOOLEAN, majorMinor : Text, rest : Text]

ASSUME SequencesAssumption ==
    /\ Specs \in Seq(InstanceSpecs)
    /\ Len(Specs) > 0
    /\ OCPHistory \in Seq(ClusterVersions)
    /\ Len(OCPHistory) > 0
    /\ Catalog \in Seq(Text)
    /\ Len(Catalog) > 0
    /\ NoVersion \notin CatalogVersions

ASSUME RecommendationsAssumption ==
    /\ Recommendations \subseteq Text
    /\ ProperSuffixes \subseteq Text \X Text

ASSUME FailureAssumption == CSVMayFail \in BOOLEAN

ASSUME BoundsAssumption ==
    /\ MaxPlans \in Nat
    /\ MaxUserActs \in Nat
    /\ MaxRestarts \in Nat
    /\ MaxFaults \in Nat
    /\ MaxDisturbances \in Nat

-----------------------------------------------------------------------------
(* The objects.                                                            *)

Owners == Instances \cup {NoInstance}

\* phase says whether the object was not created yet, exists or is gone; fin
\* whether it holds the operator's finalizer; gen is the entry of Specs that
\* is its spec and stands for metadata.generation.
Status == [conds : Conds, active : Text, obsGen : Nat]
InstanceObjects ==
    [phase : {"new", "live", "gone"}, deleting : BOOLEAN, fin : BOOLEAN,
     gen : 1..Len(Specs), status : Status]

NoStatus == [conds |-> NoConds, active |-> "", obsGen |-> 0]
NewObject == [phase |-> "new", deleting |-> FALSE, fin |-> FALSE, gen |-> 1,
              status |-> NoStatus]
CreatedObject == [NewObject EXCEPT !.phase = "live"]
GoneObject == [NewObject EXCEPT !.phase = "gone"]

\* planRef is status.installPlanRef.  A Subscription's name and owner
\* reference both come from the UID of the instance, its index here.
Subscriptions == [exists : BOOLEAN, catalog : Text, startingCSV : Text,
                  planRef : Nat]
NoSubscription == [exists |-> FALSE, catalog |-> "", startingCSV |-> NoVersion,
                   planRef |-> NoPlan]

\* via is the instance whose Subscription the InstallPlan resolves.
InstallPlans == [phase : {"none", "pending", "complete", "deleted"},
                 approved : BOOLEAN, version : Text, via : Owners]
NoInstallPlan == [phase |-> "none", approved |-> FALSE, version |-> NoVersion,
                  via |-> NoInstance]

\* The one CSV of an OLS operator; where the cluster has several, the first that
\* GetOLSOperatorCSV meets.  owner is the controller owner reference; via
\* records who installed it.
CSVs == [exists : BOOLEAN, version : Text, succeeded : BOOLEAN,
         owner : Owners, via : Owners \cup {User}, deleting : BOOLEAN]
NoCSV == [exists |-> FALSE, version |-> NoVersion, succeeded |-> FALSE,
          owner |-> NoInstance, via |-> NoInstance, deleting |-> FALSE]

\* The spec of an OLSConfig.
RAGEntries == [image : Text, index : Text \X Text]
Content == [copied : Text, maxTokens : Nat, ca : Text, rag : Seq(RAGEntries)]
NoContent == [copied |-> "", maxTokens |-> 0, ca |-> "", rag |-> <<>>]
UserContent == [NoContent EXCEPT !.copied = "user"]

\* label is the owner-id label; want is the spec, rolled the spec the running
\* pods have; overall says that status.overallStatus is "Ready"; dirty that
\* the OLS operator has an event of the object to handle.
Finalizers == {"openstack", "ols"}
OLSConfigs == [exists : BOOLEAN, label : Owners, fins : SUBSET Finalizers,
               deleting : BOOLEAN, want : Content, rolled : Content,
               overall : BOOLEAN, dirty : BOOLEAN]
NoOLSConfig == [exists |-> FALSE, label |-> NoInstance, fins |-> {},
                deleting |-> FALSE, want |-> NoContent, rolled |-> NoContent,
                overall |-> FALSE, dirty |-> FALSE]

\* An object that is being deleted goes with its last finalizer.
Released(config) ==
    IF config.deleting /\ config.fins = {} THEN NoOLSConfig ELSE config

ClusterTypeOK ==
    /\ inst \in [Instances -> InstanceObjects]
    /\ cinst \in [Instances -> InstanceObjects]
    /\ sub \in [Instances -> Subscriptions]
    /\ csub \in [Instances -> Subscriptions]
    /\ plans \in [Plans -> InstallPlans]
    /\ cplans \in [Plans -> InstallPlans]
    /\ csv \in CSVs
    /\ crd \in BOOLEAN
    /\ cfg \in OLSConfigs
    /\ ocp \in 1..Len(OCPHistory)
    /\ recommended \in Recommendations
    /\ queue \subseteq Instances
    /\ timers \subseteq Instances
    /\ userActs \in Nat /\ restarts \in Nat /\ faults \in Nat

ClusterInit ==
    /\ inst = [i \in Instances |-> NewObject] /\ cinst = inst
    /\ sub = [i \in Instances |-> NoSubscription] /\ csub = sub
    /\ plans = [p \in Plans |-> NoInstallPlan] /\ cplans = plans
    /\ csv = NoCSV
    /\ crd = FALSE
    /\ cfg = NoOLSConfig
    /\ ocp = 1
    /\ recommended \in Recommendations
    /\ queue = {}
    /\ timers = {}
    /\ userActs = 0 /\ restarts = 0 /\ faults = 0

instVars == <<inst, cinst>>
subVars == <<sub, csub>>
planVars == <<plans, cplans>>
csvVars == <<csv, crd>>
queueVars == <<queue, timers>>
boundVars == <<userActs, restarts, faults>>
clusterVars == <<instVars, subVars, planVars, csvVars, cfg, ocp, recommended,
                 queueVars, boundVars>>

-----------------------------------------------------------------------------
(* Watches: what an event puts into the work queue.                        *)

Cached(i) == cinst[i].phase = "live"

\* Mutant: the CSV is not watched.
NotifyNoOwner(old, new) == {}

\* Mutant: changes of InstallPlans and ClusterVersion wake nobody up.
NotifyNobody == {}

\* NotifyAllOpenStackLightspeeds lists the instances in the cache; all of them
\* are in the namespace of the InstallPlans, so its namespace filter drops none.
NotifyAllOpenStackLightspeeds == {i \in Instances : Cached(i)}

\* Owns: the controller owner before and after the change.
NotifyOwners(old, new) == {old.owner, new.owner} \cap Instances

\* An informer delivers the latest state of an object it watches.
SyncInstance(i) ==
    /\ cinst[i] # inst[i]
    /\ cinst' = [cinst EXCEPT ![i] = inst[i]]
    /\ queue' = queue \cup {i}
    /\ UNCHANGED <<inst, subVars, planVars, csvVars, cfg, ocp, recommended,
                   timers, boundVars>>

SyncSubscription(i) ==
    /\ csub[i] # sub[i]
    /\ csub' = [csub EXCEPT ![i] = sub[i]]
    /\ queue' = queue \cup {i}
    /\ UNCHANGED <<sub, instVars, planVars, csvVars, cfg, ocp, recommended,
                   timers, boundVars>>

SyncPlans ==
    /\ cplans # plans
    /\ cplans' = plans
    /\ queue' = queue \cup NotifyAllOpenStackLightspeeds
    /\ UNCHANGED <<plans, instVars, subVars, csvVars, cfg, ocp, recommended,
                   timers, boundVars>>

\* The delay of a requeued instance is over.
TimerFires(i) ==
    /\ i \in timers
    /\ timers' = timers \ {i}
    /\ queue' = queue \cup {i}
    /\ UNCHANGED <<instVars, subVars, planVars, csvVars, cfg, ocp, recommended,
                   boundVars>>

-----------------------------------------------------------------------------
(* Users.                                                                  *)

MoreDisturbances == userActs + restarts + faults < MaxDisturbances

CreateInstance(i) ==
    /\ inst[i].phase = "new"
    /\ inst' = [inst EXCEPT ![i] = CreatedObject]
    /\ UNCHANGED <<cinst, subVars, planVars, csvVars, cfg, ocp, recommended,
                   queueVars, boundVars>>

UpdateSpec(i) ==
    /\ inst[i].phase = "live" /\ ~inst[i].deleting
    /\ inst[i].gen < Len(Specs)
    /\ inst' = [inst EXCEPT ![i].gen = @ + 1]
    /\ UNCHANGED <<cinst, subVars, planVars, csvVars, cfg, ocp, recommended,
                   queueVars, boundVars>>

\* Without a finalizer the object goes at once.
DeleteInstance(i) ==
    /\ i \in Deletable
    /\ inst[i].phase = "live" /\ ~inst[i].deleting
    /\ inst' = [inst EXCEPT ![i] = IF inst[i].fin
                                   THEN [inst[i] EXCEPT !.deleting = TRUE]
                                   ELSE GoneObject]
    /\ UNCHANGED <<cinst, subVars, planVars, csvVars, cfg, ocp, recommended,
                   queueVars, boundVars>>

UserInstallsOLS ==
    /\ userActs < MaxUserActs /\ MoreDisturbances
    /\ ~csv.exists
    /\ csv' = [NoCSV EXCEPT !.exists = TRUE, !.version = Catalog[Len(Catalog)],
                            !.via = User]
    /\ crd' = TRUE
    /\ userActs' = userActs + 1
    /\ UNCHANGED <<instVars, subVars, planVars, cfg, ocp, recommended,
                   queueVars, restarts, faults>>

UserUninstallsOLS ==
    /\ csv.exists /\ csv.via = User /\ ~csv.deleting
    /\ csv' = [csv EXCEPT !.deleting = TRUE]
    /\ queue' = queue \cup NotifyOwners(csv, csv')
    /\ UNCHANGED <<instVars, subVars, planVars, crd, cfg, ocp, recommended,
                   timers, boundVars>>

UserCreatesConfig ==
    /\ userActs < MaxUserActs /\ MoreDisturbances
    /\ crd /\ ~cfg.exists
    /\ cfg' = [NoOLSConfig EXCEPT !.exists = TRUE, !.want = UserContent,
                                  !.dirty = TRUE]
    /\ userActs' = userActs + 1
    /\ UNCHANGED <<instVars, subVars, planVars, csvVars, ocp, recommended,
                   queueVars, restarts, faults>>

\* An object with a finalizer only gets a deletion timestamp.
UserDeletesConfig ==
    /\ userActs < MaxUserActs /\ MoreDisturbances
    /\ cfg.exists /\ ~cfg.deleting
    /\ cfg' = Released([cfg EXCEPT !.deleting = TRUE])
    /\ userActs' = userActs + 1
    /\ UNCHANGED <<instVars, subVars, planVars, csvVars, ocp, recommended,
                   queueVars, restarts, faults>>

\* A cluster upgrade; the watch on ClusterVersion queues every instance.
UpgradeOCP ==
    /\ ocp < Len(OCPHistory)
    /\ ocp' = ocp + 1
    /\ queue' = queue \cup NotifyAllOpenStackLightspeeds
    /\ UNCHANGED <<instVars, subVars, planVars, csvVars, cfg, recommended,
                   timers, boundVars>>

-----------------------------------------------------------------------------
(* OLM and the garbage collector.                                          *)

PlanExists(plan) == plan.phase \in {"pending", "complete"}

NewPlan(i, v) == [phase |-> "pending", approved |-> FALSE, version |-> v, via |-> i]

AddPlan(plan) ==
    \E p \in Plans :
        /\ plans[p].phase = "none"
        /\ \A q \in Plans : q < p => plans[q].phase # "none"
        /\ plans' = [plans EXCEPT ![p] = plan]

\* A Subscription that nothing is installed for gets an InstallPlan: for
\* startingCSV when it is set, otherwise for the newest version.
OLMCreatesPlan(i) ==
    /\ sub[i].exists
    /\ ~csv.exists
    /\ \A p \in Plans : plans[p].via = i => ~PlanExists(plans[p])
    /\ AddPlan(NewPlan(i, IF sub[i].startingCSV = NoVersion
                          THEN Catalog[Len(Catalog)]
                          ELSE sub[i].startingCSV))
    /\ UNCHANGED <<cplans, instVars, subVars, csvVars, cfg, ocp, recommended,
                   queueVars, boundVars>>

\* The catalog has a newer version than the one installed.
OLMCreatesUpgradePlan(i) ==
    /\ sub[i].exists
    /\ csv.exists /\ csv.via = i /\ csv.succeeded /\ ~csv.deleting
    /\ \E k \in 2..Len(Catalog) :
          /\ Catalog[k - 1] = csv.version
          /\ \A p \in Plans : plans[p].via = i /\ PlanExists(plans[p])
                                => plans[p].version # Catalog[k]
          /\ AddPlan(NewPlan(i, Catalog[k]))
    /\ UNCHANGED <<cplans, instVars, subVars, csvVars, cfg, ocp, recommended,
                   queueVars, boundVars>>

\* The Subscription's status refers to its latest InstallPlan.
OLMLinksPlan(i, p) ==
    /\ sub[i].exists
    /\ plans[p].via = i /\ PlanExists(plans[p])
    /\ sub[i].planRef < p
    /\ sub' = [sub EXCEPT ![i].planRef = p]
    /\ UNCHANGED <<csub, instVars, planVars, csvVars, cfg, ocp, recommended,
                   queueVars, boundVars>>

\* An approved InstallPlan brings the OLSConfig kind and the CSV, or replaces
\* the CSV its own Subscription installed before.
OLMExecutesPlan(p) ==
    /\ plans[p].phase = "pending" /\ plans[p].approved
    /\ ~csv.deleting
    /\ plans' = [plans EXCEPT ![p].phase = "complete"]
    /\ csv' = IF ~csv.exists \/ (csv.via = plans[p].via
                                  /\ csv.version # plans[p].version)
              THEN [NoCSV EXCEPT !.exists = TRUE, !.version = plans[p].version,
                                 !.via = plans[p].via]
              ELSE csv
    /\ crd' = TRUE
    /\ queue' = queue \cup NotifyOwners(csv, csv')
    /\ UNCHANGED <<cplans, instVars, subVars, cfg, ocp, recommended, timers,
                   boundVars>>

\* The OLS operator starts, and finds every OLSConfig that exists.
OLMDeploysCSV ==
    /\ csv.exists /\ ~csv.succeeded /\ ~csv.deleting
    /\ csv' = [csv EXCEPT !.succeeded = TRUE]
    /\ cfg' = [cfg EXCEPT !.dirty = cfg.exists]
    /\ queue' = queue \cup NotifyOwners(csv, csv')
    /\ UNCHANGED <<crd, instVars, subVars, planVars, ocp, recommended,
                   timers, boundVars>>

\* The OLS operator's pods fail: the CSV leaves the phase Succeeded.
OLMReportsCSVFailed ==
    /\ CSVMayFail
    /\ csv.exists /\ csv.succeeded /\ ~csv.deleting
    /\ csv' = [csv EXCEPT !.succeeded = FALSE]
    /\ queue' = queue \cup NotifyOwners(csv, csv')
    /\ UNCHANGED <<crd, instVars, subVars, planVars, cfg, ocp, recommended,
                   timers, boundVars>>

OLMRemovesCSV ==
    /\ csv.exists /\ csv.deleting
    /\ csv' = NoCSV
    /\ queue' = queue \cup NotifyOwners(csv, csv')
    /\ UNCHANGED <<crd, instVars, subVars, planVars, cfg, ocp, recommended,
                   timers, boundVars>>

\* The Subscription follows the instance it refers to as its owner.
CollectSubscription(i) ==
    /\ inst[i].phase = "gone" /\ sub[i].exists
    /\ sub' = [sub EXCEPT ![i] = NoSubscription]
    /\ UNCHANGED <<csub, instVars, planVars, csvVars, cfg, ocp, recommended,
                   queueVars, boundVars>>

-----------------------------------------------------------------------------
(* The OLS operator, which runs while its CSV has succeeded.  It writes    *)
(* overallStatus only when an event of the OLSConfig reaches it.           *)

OLSRunning == csv.exists /\ csv.succeeded

OLSReconciles ==
    /\ OLSRunning
    /\ cfg.exists /\ ~cfg.deleting /\ cfg.dirty
    /\ cfg' = [cfg EXCEPT !.fins = @ \cup {"ols"}, !.dirty = FALSE,
                          !.overall = (cfg.rolled = cfg.want)]
    /\ UNCHANGED <<instVars, subVars, planVars, csvVars, ocp, recommended,
                   queueVars, boundVars>>

OLSRollsOut ==
    /\ OLSRunning
    /\ cfg.exists /\ ~cfg.deleting /\ ~cfg.dirty /\ cfg.rolled # cfg.want
    /\ cfg' = [cfg EXCEPT !.rolled = cfg.want]
    /\ UNCHANGED <<instVars, subVars, planVars, csvVars, ocp, recommended,
                   queueVars, boundVars>>

OLSFinalizes ==
    /\ OLSRunning
    /\ cfg.exists /\ cfg.deleting /\ "ols" \in cfg.fins
    /\ cfg' = Released([cfg EXCEPT !.fins = @ \ {"ols"}])
    /\ UNCHANGED <<instVars, subVars, planVars, csvVars, ocp, recommended,
                   queueVars, boundVars>>

-----------------------------------------------------------------------------
UserStep ==
    \/ \E i \in Instances : CreateInstance(i) \/ UpdateSpec(i) \/ DeleteInstance(i)
    \/ UserInstallsOLS
    \/ UserUninstallsOLS
    \/ UserCreatesConfig
    \/ UserDeletesConfig
    \/ UpgradeOCP

OLMStep ==
    \/ \E i \in Instances : OLMCreatesPlan(i) \/ OLMCreatesUpgradePlan(i)
    \/ \E i \in Instances, p \in Plans : OLMLinksPlan(i, p)
    \/ \E p \in Plans : OLMExecutesPlan(p)
    \/ OLMDeploysCSV
    \/ OLMReportsCSVFailed
    \/ OLMRemovesCSV
    \/ \E i \in Instances : CollectSubscription(i)

OLSStep == OLSReconciles \/ OLSRollsOut \/ OLSFinalizes

SyncStep ==
    \/ \E i \in Instances : SyncInstance(i) \/ SyncSubscription(i) \/ TimerFires(i)
    \/ SyncPlans

ClusterStep == UserStep \/ OLMStep \/ OLSStep \/ SyncStep
=============================================================================
