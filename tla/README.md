# The OpenStack Lightspeed operator in TLA+

The operator (`src/internal/controller`) reconciles `OpenStackLightspeed`
instances. For each of them it installs the OpenShift Lightspeed (OLS) operator
through OLM, keeps the cluster's only `OLSConfig` object equal to the instance's
spec, waits until the OLS operator reports it ready, and takes all of it down
again when the instance is deleted. The code is one sequential function, but it
runs against caches that lag behind, objects that OLM, the OLS operator, users
and other instances change between any two of its calls, failing calls and
restarts. These modules model it call by call in that environment.

## 1. The parts of the system

| part | source | state | operations | interacts with |
|---|---|---|---|---|
| Reconcile and the deferred patch | `openstacklightspeed_controller.go` | the instance's finalizer and status; in memory the copy read and the copy changed | `Reconcile`, `resolveOCPVersion`, `reconcileDelete`, the deferred `PatchInstance` | instance cache, API server, work queue |
| OLS operator installation | `ols_install.go` | Subscription, approval of the InstallPlan, owner reference of the CSV | `EnsureOLSOperatorInstalled`, `InstallInstanceOwnedOLSOperator`, `ApproveOLSOperatorInstallPlan`, `UninstallInstanceOwnedOLSOperator`, `DeleteOLSOperatorInstallPlan` | OLM; Subscription and InstallPlan caches; the CSV read live |
| OLSConfig synchronisation | `funcs.go` | spec, owner label and finalizer of OLSConfig | `PatchOLSConfig`, `IsOLSConfigReady`, `OLSConfigPing`, `RemoveOLSConfig` | the OLS operator; OLSConfig is read live and not watched |
| OCP version | `ocp_version.go` | none; the result is in the status | `DetectOCPVersion`, `ParseMajorMinorVersion`, `ResolveOCPVersion` | ClusterVersion, read live and watched |
| Watches and work queue | `SetupWithManager`, `NotifyAllOpenStackLightspeeds` | queue, delayed requeues, caches | enqueue on an event, reconcile one at a time | all of the above |
| API types and conditions | `api/v1beta1` | spec, status, conditions | `SetupDefaults` | - |
| Manager set-up | `cmd/main.go` | the environment variable with the recommended version | start | - |
| outside the repository | OLM, OLS operator, garbage collector, API server, users | | | |

What is hard here:

* **Stale copies.** The instance, its Subscription and the InstallPlans come
  from informer caches; a reconciliation acts on what may be an old copy.
* **Shared objects.** Every instance installs the same operator and wants the
  same OLSConfig; an owner label and an owner reference decide whose they are,
  and the label is written with a merge patch that has no precondition.
* **Who wakes the worker up.** Several returns neither requeue nor fail: they
  count on an event, often the one their own write causes. OLSConfig and a CSV
  somebody else owns cause none.
* **A teardown in order.** OLSConfig, InstallPlan, CSV, finalizer: over many
  reconciliations, with a crash or a failed call between any two calls.
* **Errors that are dropped**, such as that of the deferred patch.

What makes the parts correct: nothing an instance owns outlives its finalizer;
an instance reports Ready only for the OLSConfig it owns; the OLS operator goes
last; the worker does not fall asleep while there is something to do; where it
ends does not depend on the way; every instance becomes Ready, every deleted one
goes. The list of hazards in `PROJECT.json` gives the line where each of these
could go wrong and the property that would show it.

## 2. The modules

```
OCPVersion   Conditions
      \          |
       \      Cluster            objects, caches, queue, OLM, OLS operator, users
        \        |
         ReconcileFrame          Reconcile: start, returns, deferred patch, failures
          /           \
    OLSInstall     OLSConfigSync ols_install.go; funcs.go
          \           /
          Reconciler             composition, properties, fairness
          /           \
  DocumentedClaims   ReconcilerProofs     comments that do not hold; type correctness
          |              |
   MCReconciler      OwnershipProofs      constants for TLC; the ownership invariant
                      /     \
       RefinementProofs    WakeupProofs   Reconciler implements Ownership; the worker
                               |          does not fall asleep too early
                           SettledProofs  where it ends does not depend on the way

  Ownership                      the contract; instantiated by Reconciler
          |
  OwnershipContract              what the contract is good for
```

**The contract.** `Ownership` says in ten small actions what the operator promises
about OLSConfig and CSV, with no worker, caches or calls in it: an instance is
absent, bare, held (has its finalizer), leaving (being deleted) or gone; the
OLSConfig is a lease that a held or leaving instance takes when nobody has it and
that only a leaving one gives back; Ready is reported only with the lease; an
instance is gone only when it has nothing left. It is modest about the CSV, and
rightly so: any instance may take it over, and it may get lost.
`Reconciler!Contract` maps the detailed state to it: the stage from phase, deletion
timestamp and finalizer of the object in the API server, the holder of the lease
from the owner label, that of the CSV from the owner reference.

**The worker.** `pc` names the next call to the API server, `cur` the instance
being reconciled, `before` and `obj` the two copies of it (as read, and as
changed in memory), `seenCfg` and `seenCsv` what the last read of OLSConfig and
CSV returned, until the write based on it. One action is one API call together
with the code up to the next call; a read from a cache belongs to the step
before it. Every return of `Reconcile` is an operator `Return...` of
`ReconcileFrame` that sets the condition and says whether the instance is queued
again; the deferred function follows as two steps, `PatchMetadata` and
`PatchStatus`, because `PatchInstance` makes two calls.

**Writes.** A merge patch (`CreateOrPatch`, `PatchInstance`) sends only the
fields that differ from the copy read and is never refused as outdated:
`MergePatch`. An `Update` (`CreateOrUpdate`, the approval, the owner reference,
the ping) is refused when the object has changed since it was read. `Create` is
refused when the object exists. A new finalizer is refused on an object that is
being deleted.

**Queue and watches.** There is one worker (`MaxConcurrentReconciles` is not
set) and the queue holds an instance once. `Sync...` actions deliver the latest
state of an object to its cache and queue the instances that the watch maps it
to. CSV events queue the old and the new owner. `timers` holds instances queued
again after a delay, be it `RequeueAfter` or the backoff after an error.

**Objects.** An instance's `gen` is its `metadata.generation` and chooses its
spec from `Specs`. The spec fields that are copied to OLSConfig unchanged are one
field, `copied`. OLSConfig has `want` (its spec), `rolled` (the spec of the
running pods), `overall` (`overallStatus` is `Ready`), and `dirty` (the OLS
operator has an event to handle). Conditions are the outcome they report; their
messages are left out. All errors of a call are one outcome, except where the
code tells them apart (conflict, not found, no such kind).

**Environment** (external, from how the code uses it). OLM makes an InstallPlan
for a Subscription that nothing is installed for, links it in the Subscription's
status, executes it once it is approved (which also brings the OLSConfig kind),
offers upgrades, and removes a deleted CSV. The OLS operator adds its own
finalizer to OLSConfig, rolls a new spec out, writes `overallStatus` only when an
event reaches it, and removes its finalizer only while it is installed. A user
creates, changes and deletes instances, and by hand installs and uninstalls an
OLS operator or creates an OLSConfig. `Restart` kills the process at any point:
the new one has fresh caches, all instances queued, and perhaps another
recommended version. A user may also delete the OLSConfig, and an OLS operator
that has succeeded may fail (`CSVMayFail`). `CallFails` makes the next call of the
worker fail without effect; `SubscriptionResponseLost` and `ConfigResponseLost`
let a write take effect and still return an error (section 6 says why these two
are enough).

**Versions.** The code looks for the recommended version at the end of a CSV's
name. `ProperSuffixes` lists the pairs of versions where that finds another version
than the one meant; `HasSuffix` is equality or one of these pairs. Properties ask for
the recommended version itself (`Recommended`), never for a match.

## 3. What the runs check

All runs instantiate `MCReconciler`.

| run | instance of the model | shows |
|---|---|---|
| `converge` | one instance, empty cluster, a change of every spec field but the override, ClusterVersion missing, malformed, 4.18, 4.20 | `NoLostWakeup`: when queue, timers and caches have nothing left, the instance is Ready for its current spec and cluster version or cannot be. `SettledWhenReady`: and then Subscription, InstallPlan, CSV, OLSConfig and status are the ones the spec asks for, whatever happened on the way. |
| `faults` | one instance, created and deleted, and one disturbance at any call: a crash, a failed call, a write whose response is lost, or a user who installs an OLS operator or creates or deletes the OLSConfig | `TypeOK`; `OwnedResourcesHaveFinalizedOwner`: what carries an instance's label or owner reference belongs to an instance that still holds its finalizer; `ReadyOwnsConfig`: an instance that reports Ready owns the OLSConfig; `OperatorOutlivesConfig`: the worker deletes the CSV only when no managed OLSConfig is left |
| `teardown` | a Ready instance next to a second one that (1) waits to take over when the first is deleted, (2) is being deleted as well, or (3) competes with a Subscription and an InstallPlan of its own | the same three properties while two instances share the objects, and `ImplementsOwnership`: the operator implements the contract. In (1) the second instance gets as far as Ready. In (3) the owner-label check of `PatchOLSConfig` is what keeps it from reporting Ready. (The deletion of the second one does reach the OLSConfig of the first, see `v_foreign`; what keeps it there is the finalizer.) |
| `upgrade` | a Ready instance, three catalog versions, an OLS operator that may fail, one crash at any call with the same, another or no recommendation, deletion | `RunsRecommendedVersion`: of the offered upgrades only that to exactly the recommended version is approved, a newly recommended version is installed, adopted and waited for, and a failed OLS operator does not go unnoticed |
| `live` | one instance with an override, created and deleted, under fairness | `EventuallyReady` (with pods that run its spec), `EventuallyGone` |
| `v_...` | see section 5 | behaviours that contradict a comment, a message or the API documentation |

**Bounds.** One instance is enough for the properties about the worker and its
environment, two for those about shared objects: such an object knows one owner,
so a third instance can only do what the second does. The proofs remove this
bound for the safety properties. `MaxPlans` is what a scenario needs: one
InstallPlan for an installation, two in `upgrade` for the installed version and
the one installed or offered after it, and two in `teardown`, one for each instance.
From an empty cluster two instances with an InstallPlan each have more states than
a run can visit, so `teardown` begins with the second instance beside a Ready one
(`RivalsInit`). Its three initial states are states that the operator reaches from the
empty cluster: in (1) and (2) the second instance was created when the OLS operator was
already there and has reported it as the user's; in (3) both had
written their Subscriptions before the first OLS operator was installed. TLC
confirmed each of them by refuting the invariant that it is never reached. The
proofs start from the empty cluster and from one Ready instance.

`MaxUserActs`, `MaxRestarts` and `MaxFaults` say which disturbances a run has and
`MaxDisturbances` allows one of them (two in `v_rollback`): it may
come at any of the worker's calls, and a later one would meet the same states
unless it were to hit the recovery from the first; the proofs put no bound on
them. For `upgrade` this is a real restriction: with a second change of the
recommendation the property fails, as `v_rollback` shows. So is that no catalog version
ends in a recommended one, as `v_version` shows, and that in `converge` the spec that meets
an undetectable cluster version has no override, as `v_override` shows.
`TwoSpecs` changes every other field once; its second spec drops
the CA bundle of the first, its first one leaves the other defaults. `OCPDetection`
has each outcome of detection (absent, malformed, supported, fallback).

**Deadlock** is not checked: the operator stops by design when every instance is
Ready or gone, and the environment then need not do anything. `NoLostWakeup` says
in which states it may stop.

**Fairness** (`Reconciler!Fairness`). Weak fairness of the worker: the manager
runs it whenever the queue is not empty. Weak fairness of each informer and of
each timer: watch events arrive and delays end. Weak fairness of OLM's and the
OLS operator's steps: the operator can only work if they do. Strong fairness of
`OLSRollsOut`: the ping of the waiting worker interrupts it again and again, and a
rollout goes on nevertheless. Users, upgrades, crashes and failures are not fair.
`EventuallyGone` assumes that the OLSConfig kind exists, see `v_nokind.cfg`.

**Properties that are less than they may seem.** The periodic resync of the
informers (hours) is not modelled: an instance that `NoLostWakeup`, `v_blocked.cfg`
or `v_patch.cfg` calls asleep is one that only this resync or a restart would wake. `SettledWhenReady`
leaves open which spec the running pods have and what `overallStatus` says: Ready may be
reported on the strength of the status OLSConfig had before the last change.
`EventuallyReady` asks for pods of the current spec, for an instance whose spec does
not change.

## 4. What is proved

For every number of instances, specs, ClusterVersion objects, catalog versions,
recommendations, plans, user acts, crashes and failed calls, from either initial
state (an empty cluster, or one instance that is Ready):

| theorem | states |
|---|---|
| `ReconcilerProofs!TypeCorrect` | `Spec => []TypeOK` |
| `OwnershipProofs!OwnershipInvariant` | `Spec => []OwnershipInv`, the inductive invariant |
| `OwnershipProofs!OwnersFinalized` | `Spec => []OwnedResourcesHaveFinalizedOwner` |
| `OwnershipProofs!ReadyInstanceOwnsConfig` | `Spec => []ReadyOwnsConfig` |
| `OwnershipProofs!OperatorDeletedLast` | `Spec => OperatorOutlivesConfig` |
| `RefinementProofs!OwnershipRefined` | `Spec => ImplementsOwnership`: the operator implements the contract |
| `OwnershipContract!ContractExcludes` | of the contract: `Spec => [](TypeOK /\ Exclusive)` |
| `WakeupProofs!WakeupInvariant` | `Spec => []WakeupInv`, the inductive invariant of the next three |
| `WakeupProofs!NoWakeupLost` | `Spec => [](Calm => NoLostWakeup)`, if `OverridesDetectable` |
| `WakeupProofs!DeletionNotForgotten` | `Spec => []DeletionKept`: the worker does not run dry while an undisturbed instance is being deleted |
| `WakeupProofs!ReadyInstanceServed` | `Spec => []ReadyServed`: an undisturbed instance that reports Ready then has all that its spec asks for |
| `WakeupProofs!VersionInvariant` | `Spec => []VersionSound`, if `NoCollision`: only exactly the recommended version is approved and installed, while the recommendation has not changed |
| `WakeupProofs!RecommendedVersionRuns` | `Spec => [](Calm /\ SameRecommendation => RunsRecommendedVersion)`, if `NoCollision` |
| `WakeupProofs!NoUpgradeMissed` | `Spec => [](Calm => UpgradesFollowed)`, if `NoCollision`: whatever was recommended before, the version recommended now has been installed before the worker runs dry |
| `SettledProofs!SettledInvariant` | `Spec => []SettledInv` |
| `SettledProofs!SettledStateReached` | `Spec => [](SingleRun => SettledWhenReady)` |
| `SettledProofs!PeacefulWakeups`, `PeacefulVersions`, `PeacefulSettles` | `Spec => []NoLostWakeup`, `Spec => []RunsRecommendedVersion` and `Spec => []SettledWhenReady` for every choice of constants that rules the disturbances out (the first if `OverridesDetectable`, the second if `NoCollision`) |

The assumptions are those on the constants in `Cluster` and `Reconciler`: the
strings the code uses are strings (`TextAssumption`), instances differ from "no
instance" and from the user (`InstancesAssumption`), the sequences of specs,
cluster versions and catalog versions are non-empty and of their type
(`SequencesAssumption`), recommendations are strings and `ProperSuffixes` a
relation on strings (`RecommendationsAssumption`),
`CSVMayFail` is a Boolean (`FailureAssumption`), bounds are naturals
(`BoundsAssumption`), and `FirstOwner` is an instance or none, and an instance only
if there is room for the InstallPlan its OLS operator came with
(`FirstOwnerAssumption`). `ContractExcludes` needs only that "no instance" is not
an instance. Two hypotheses are stated in the theorems that need them, because the
properties are false without them: `OverridesDetectable` (a spec with an override
never meets a cluster version that cannot be detected; `v_override`) and
`NoCollision` (no recommended version is the end of another version; `v_version`).
All other theorems hold for any `ProperSuffixes`.

**The argument.** None of the properties is inductive, since the worker decides
on copies of an instance that may be old: the cached one, and the one it read
when it started. Two facts may be read from an old copy all the same. A copy that
shows the finalizer and no deletion is right about the finalizer, because only
the worker itself removes it, and only when it has seen the deletion. A copy that
shows a deletion is right, because nothing takes a deletion back. `CopiesSound`
says this; the other parts of `OwnershipInv` build on it:

* `WorkerSound`: the part of `Reconcile` the worker is in matches its copy -
  installation and configuration only with finalizer and without deletion,
  removal only with a deletion;
* `ReleaseSound`: no OLSConfig has an owner once the uninstallation has begun,
  and nothing belongs to the instance when the finalizer is about to go;
* `AbsentUnowned` and `ConfigHeld`: what does not exist has no owner, and OLSConfig
  keeps the operator's finalizer while its owner may rely on it;
* `SeenConfigSound`: what was read of OLSConfig still tells who owns it when the
  write based on it happens;
* `ReportSound`: only the owner is told that OLSConfig is ready.

Each action preserves the invariant by way of a few step predicates
(`KeepsConfig`, `TakesConfig`, `ReleasesConfig`, ...), one lemma per part of the
invariant and one case per action. TLC checked `OwnershipInv` as an
invariant of instances with one and two of the instances, with crashes, failed
calls and user acts, before it was proved.

**The refinement.** Every step of `Reconciler` changes at most one of: the stage of
an instance, the holder of OLSConfig, the holder of the CSV, a report of Ready
(a deletion timestamp ends the report along with the stage `held`).
That it does so as the contract allows is where `OwnershipInv` is needed:

* The label of OLSConfig goes away when the object is removed. `ConfigHeld` says
  that an OLSConfig somebody may rely on has the operator's finalizer, so the
  owner of one that goes is being deleted: the step is `ReleaseConfig` (`HandsOver`).
* The patch of an instance's metadata drops a finalizer only at the end
  of a teardown, and `ReleaseSound` says that nothing belongs to the instance then: `Finish`
  (`PatchMetadataRefines`).
* The patch of the status reports Ready from a copy made several calls earlier;
  `ReportSound` says that the instance still owns OLSConfig, and an instance that
  is being deleted by then does not count as reporting: `Report`, or a stutter
  (`PatchStatusRefines`).

TLC checked `ImplementsOwnership` on the instances of `teardown` and `faults`
before it was proved. `ContractExcludes` then is a statement about the contract
alone, in a dozen lines: whatever implements it never has two instances that
report Ready.

**The wake-ups.** `NoLostWakeup` speaks of states in which nothing is left to do, and
says that then nothing was left undone. What makes it inductive is a statement
about all the other states: an instance that nobody has disturbed is (`Kept`)

* *pending*: queued, waiting for a timer, or about to be queued because a cache
  that the worker watches differs from its object; or
* in the hands of a worker whose findings are still true and which will not end
  without a reason (`Current`: one conjunct for what each call has established, and
  for the deferred function that it queues the instance again, changes the
  finalizer, or has an answer that leaves nothing to do); or
* *at rest*: attended to and, if Ready, with the status of `SettledStatus` and
  everything its spec asks for (`AtRest`, `Served`).

A step after which the instance is not pending has changed nothing the instance
depends on (`SteadyStep`), since whatever changes shows. That needs three facts
about the views the worker has. A cache only falls behind, so no write can bring
an object back to what the cache shows and go unnoticed: generations and references
to InstallPlans grow, InstallPlans go through their phases in order, and the
deferred patch differs from the copy it was computed from (`InstancesBehind`,
`SubscriptionsBehind`, `PlansBehind`, `PatchShows`). The worker's copy is the cached
one, or the instance is queued again (`CopyRead`). And the CSV, which is read live,
tells its owner of every change (`SteadyCSV`). OLSConfig is watched by nobody: its
spec stays because only the worker writes it, and only for its owner
(`SteadyContent`).

An instance with an override that meets an undetectable cluster version comes to rest
without being attended to (`OverrideIgnored`); `OverridesDetectable` excludes it.

The hypothesis `Calm` (for one instance: `Undisturbed`) names what an instance may
indeed sleep through: a failed call (`v_patch.cfg`), a user who handles OLS operator
or OLSConfig (`v_blocked.cfg`), and the removal of *another* instance. The last one has
no configuration of its own: the CSV goes with the instance that owns it and tells only that
one, so an instance that waited for it as `UserInstalled`, or that found it gone
between `FindCSVToOwn` and `OwnCSV` and reported an error without a requeue, is not
woken up. (The hand-over of `teardown` therefore begins with an instance that
is due to be reconciled.) `Calm` does not restrict crashes, updates of specs, cluster upgrades,
failures of the OLS operator, or the deletion of an instance that is alone.

**The version.** What the code keeps up by itself is a suffix match: as long as the
recommendation is the one the operator started with, every approved InstallPlan and
the CSV end in it (`VersionMatched`). That is not what `ols_install.go:130-133` promises,
which is the recommended version itself; under `NoCollision` the two are the same
(`SuffixRecommended`), and `VersionSound` and `RunsRecommendedVersion` state the promise.
When a crash brings another recommendation, `VersionMatched` is lost; `PlanApproved`, a
part of `Served`, then says that an InstallPlan of the version is approved, and one that is
approved and not pending has been executed. So the version recommended now was installed
(`UpgradesFollowed`), though perhaps replaced since: after the recommendation
was raised and lowered again the InstallPlan of the lower version is found complete, is approved once more,
the newer CSV is adopted, and the instance reports Ready. `ols_install.go:45` says
that this fails; `v_rollback` shows that it does not.

**The settled state.** `Served` is about what the worker looks at in each
reconciliation. `Settled` is about the whole state, and what it adds has to be
remembered from earlier (`SettledInv`): both finalizers are on an OLSConfig that was
ever reported ready and that nobody removes (`FinalizersSound`); InstallPlan and CSV
were made through the instance's Subscription and for the recommended version
(`MadeFor`); and the CA bundle is that of some spec the instance had
(`BundleWritten`: the worker's copy is not ahead of the instance, `CopyBehind`).
`RestSettled` then puts the objects together field by field. `SingleRun` says of a
state that at most one instance was created, that calls, users and recommendations were calm, and
that OLM has made one InstallPlan at most: with a second instance or a second
InstallPlan there is no one state to end in.

`PeacefulCluster` and the theorems about it turn these hypotheses on states into
assumptions on the constants: no failed calls, no user acts, and an instance that
may be deleted is the only one. The constants of `converge` and `live` are of this
kind and have an override only where the cluster version can be detected; those of
`upgrade` are too for as long as the recommendation stays. So the theorems say of
every size what the runs say of theirs.

TLC checked the parts of `WakeupInv`, `VersionMatched` and `SettledInv` as invariants,
on one and two instances, with and without deletion, crashes, failed calls, user
acts and upgrades of both kinds, before they were proved; several conjuncts came
out of counterexamples it found.

**Only model-checked:** the two liveness properties `EventuallyReady` and
`EventuallyGone`, which are out of the prover's reach, as is anything about fairness
or `ENABLED`. `DeletionNotForgotten` and `NoWakeupLost` are the part of them that is
safety: the worker does not stop early. `NoLostWakeup`, `RunsRecommendedVersion` and
`SettledWhenReady` are proved under the hypotheses above, and are false without them. The runs of section 5 are counterexamples and have
nothing to prove.

## 5. Where code and comments disagree

Each is a definition of `DocumentedClaims` with the words of the repository, and
a run in which TLC finds a behaviour that breaks it.

| run | what happens |
|---|---|
| `v_foreign` | Deleting an instance that does not own the OLSConfig skips the removal of the finalizer, but then deletes the OLSConfig of the instance that does. |
| `v_wedged` | After a crash between the removal of OLSConfig's finalizer and its deletion, every retry fails because the finalizer is already gone; neither OLSConfig nor instance is ever removed. |
| `v_leak` | An instance deleted between approval of its InstallPlan and adoption of the CSV leaves the OLS operator behind. |
| `v_takeover` | An OLS operator that a user installs after the instance's Subscription was written is adopted by the instance, and deleted with it. |
| `v_override` | While the cluster version cannot be detected, `resolveOCPVersion` returns before it looks at the override, which the API documents as replacing the detection. |
| `v_version` | A version that ends in the recommended one is approved and installed, although only the tested version should be. |
| `v_rollback` | After the recommendation was raised and lowered again the instance stays Ready on the higher version, although a version that does not match should be an error. |

Three more claims of `DocumentedClaims` have a configuration, to be run by hand
(`tlc -config v_nokind.cfg MCReconciler`, and so on), that refutes them within
seconds:

| configuration | what happens |
|---|---|
| `v_nokind.cfg` | `DeletionEnds`: an instance deleted before OLM has brought the OLSConfig kind is never removed; the missing kind is not a "not found" (`funcs.go:84`). |
| `v_blocked.cfg` | `UninstallUnblocks`: an instance blocked by a user's OLS operator does not notice when the user removes it (`openstacklightspeed_controller.go:177`). |
| `v_patch.cfg` | `ChangesPersisted`: if the patch that adds the finalizer fails, the error is dropped and nothing brings the instance back (`openstacklightspeed_controller.go:128`). |

Read from the code and part of the model, without a run: an override is not
checked against the supported versions (`ResolveOCPVersion`); the
outcome `OverrideInvalid` is unreachable; a CA bundle, once set, is never cleared
(`DesiredContent`; `SettledWhenReady` says that nothing else of an earlier spec
stays); after a change of the spec the instance may be Ready on the strength of the
`overallStatus` OLSConfig had before (`IsOLSConfigReady`).

## 6. What is not modelled

* Flags, TLS, metrics and probes of `cmd/main.go`, generated deep copies, scheme
  registration, manifests and scripts: no decisions about the objects above.
  Leader election is what leaves a single worker; the hand-over from one process
  to the next is `Restart`. `WATCH_NAMESPACE` only chooses which instances there
  are. A process that is down for a while before it starts again does nothing
  that the environment's steps before `Restart` could not do with a worker that
  does not run, so crash and start are one step.
* Message texts, logs, and the spec fields that are only copied.
* Names: Subscription names carry five characters of the UID; the model has one
  Subscription for each instance. `GetOLSConfig` returns the first OLSConfig of the
  list; there is one.
* Namespaces. All instances are in one, which is that of the InstallPlans, so the
  namespace filter of `NotifyAllOpenStackLightspeeds` drops none of them.
* A second CSV of an OLS operator. `GetOLSOperatorCSV` returns the first of the list
  whose name has the prefix (`ols_install.go:222-226`); during an upgrade by OLM, or when a user's
  operator is installed beside, there can be two, and which one is found is open.
  Here an upgrade replaces the CSV in one step, and there is no second
  installation.
* The extra InstallPlan that OLM makes, according to the comment at
  `ols_install.go:124-126`, when one is approved before the Subscription refers to it.
* Lost responses of writes other than those of Subscription and OLSConfig. For
  each of the others the code does the same after an error as after a success whose
  next call fails (it reports or returns the error, and changes nothing in memory
  in between), which `CallFails` covers; after the ping the instance is queued
  again either way, and the result of the status patch is ignored altogether.
* A deleted instance's increment of its generation, and a user who deletes or
  edits a managed Subscription, InstallPlan or CSV, or edits the OLSConfig.

## 7. Plan

Done, in this order: `OCPVersion`, `Conditions`, `Cluster`, `ReconcileFrame`,
`OLSInstall`, `OLSConfigSync`, their composition, the runs above, type
correctness, and the ownership invariant; then the contract `Ownership` with the
refinement checked and proved, lost responses, an OLS operator that fails, a user
who deletes OLSConfig, and version matching by suffix; then the proofs of the
wake-up, version and settled-state properties; then the hand-over and competition
of two instances in `teardown`, version properties that ask for the version itself,
and the runs on overrides and versions.

To do:

1. Theorems: an instance that sleeps through the removal of another one is woken
   up by a restart, so `Calm` could speak of what happened since the last one
   instead of the whole past.
2. Lemmas about `ResolveOCPVersion` and `BuildRAGConfigs`: the resolved version is
   the override, a supported version or `latest`, and the RAG section follows it.
3. A second CSV beside the one adopted, with the choice between them open.
4. Users who edit managed objects, with the Subscription put back by the watch on
   it.
