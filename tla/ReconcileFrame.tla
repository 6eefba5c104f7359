--------------------------- MODULE ReconcileFrame ---------------------------
(***************************************************************************)
(* Reconcile of openstacklightspeed_controller.go, without the two parts   *)
(* of it that the modules OLSInstall and OLSConfigSync hold: how it starts *)
(* and reads the instance, how each kind of return reports its outcome,    *)
(* and the deferred function that writes the instance back.                *)
(*                                                                         *)
(* There is one worker.  pc names the next call to the API server; a read  *)
(* from a cache belongs to the step of the call before it.  obj is the     *)
(* instance in memory, before the copy the helper made of it on entry.     *)
(***************************************************************************)
EXTENDS Cluster, OCPVersion

VARIABLES
    pc,               \* the next call of the worker
    cur,              \* the instance it reconciles
    before, obj,      \* that instance as it was read, and as it is now
    seenCfg, seenCsv, \* the OLSConfig and the CSV it read last
    requeue           \* will the instance be queued again?

InstallLabels == {"mode", "subscribe", "approve", "adopt", "adoptWrite", "complete"}
ConfigLabels == {"cfgGet", "cfgWrite"}
ReadyLabels == {"ready", "ping", "pingWrite"}
RemoveLabels == {"rmList", "rmGet", "rmPatch", "rmDelete", "rmCheck"}
UninstallLabels == {"unList", "unPlan", "unDelete", "unCheck"}
PatchLabels == {"patch", "patchStatus"}
Labels == {"idle", "resolve"} \cup InstallLabels \cup ConfigLabels
            \cup ReadyLabels \cup RemoveLabels \cup UninstallLabels
            \cup PatchLabels

workerVars == <<pc, cur, before, obj, seenCfg, seenCsv, requeue>>
vars == <<clusterVars, workerVars>>

WorkerTypeOK ==
    /\ pc \in Labels
    /\ cur \in Owners /\ (cur = NoInstance <=> pc = "idle")
    /\ before \in InstanceObjects
    /\ obj \in InstanceObjects
    /\ seenCfg \in OLSConfigs
    /\ seenCsv \in CSVs
    /\ requeue \in BOOLEAN

WorkerInit ==
    /\ pc = "idle"
    /\ cur = NoInstance
    /\ before = NewObject /\ obj = NewObject
    /\ seenCfg = NoOLSConfig /\ seenCsv = NoCSV
    /\ requeue = FALSE

Goto(label) ==
    /\ pc' = label
    /\ UNCHANGED <<cur, before, obj, seenCfg, seenCsv, requeue>>

-----------------------------------------------------------------------------
(* The returns of Reconcile.  Each runs the deferred function next.        *)

Return(object, again) ==
    /\ pc' = "patch"
    /\ obj' = object
    /\ requeue' = again
    /\ seenCfg' = NoOLSConfig /\ seenCsv' = NoCSV
    /\ UNCHANGED <<cur, before>>

\* EnsureOLSOperatorInstalled failed: reported, but not returned as an error.
ReturnOperatorError(outcome) ==
    Return([obj EXCEPT !.status.conds.op = outcome], FALSE)

\* The OLS operator is not there yet: try again in 10 seconds.
ReturnOperatorWait ==
    Return([obj EXCEPT !.status.conds.op = "Waiting"], TRUE)

\* OLSConfig could not be written: reported, and retried with a backoff.
ReturnConfigError ==
    Return([obj EXCEPT !.status.conds.ols = "Error"], TRUE)

\* Mutant: errors and waits are not retried.
ReturnUnqueued == Return(obj, FALSE)

\* An error that only the work queue hears of, or a wait.
ReturnRetry == Return(obj, TRUE)

ReturnReady == Return([obj EXCEPT !.status.conds.ols = "True"], FALSE)

\* reconcileDelete is done.
ReturnDeleted == Return([obj EXCEPT !.fin = FALSE], FALSE)

-----------------------------------------------------------------------------
(* From the work queue to the first call.                                  *)

ReconcileNotFound(i) ==
    /\ pc = "idle"
    /\ i \in queue
    /\ ~Cached(i)
    /\ queue' = queue \ {i}
    /\ UNCHANGED <<instVars, subVars, planVars, csvVars, cfg, ocp, recommended,
                   timers, boundVars, workerVars>>

\* The conditions start over and the observed generation is set.
Reconcile(i) ==
    /\ pc = "idle"
    /\ i \in queue
    /\ Cached(i)
    /\ queue' = queue \ {i}
    /\ pc' = "resolve"
    /\ cur' = i
    /\ before' = cinst[i]
    /\ obj' = [cinst[i] EXCEPT !.status.conds = InitConditions(@),
                               !.status.obsGen = cinst[i].gen]
    /\ UNCHANGED <<seenCfg, seenCsv, requeue, instVars, subVars, planVars,
                   csvVars, cfg, ocp, recommended, timers, boundVars>>

spec == Specs[obj.gen]

\* RAGImage and MaxTokensForResponse have defaults, in memory only.
Defaulted(s) ==
    [s EXCEPT !.ragImage = IF s.ragImage = "" THEN "default-image" ELSE s.ragImage,
              !.maxTokens = IF s.maxTokens = 0 THEN 2048 ELSE s.maxTokens]

\* The OCPRAGReady condition and ActiveOCPRAGVersion.
resolveOCPVersion(status, s, detected) ==
    LET r == ResolveOCPVersion(detected.version, s.override, s.enableOCPRAG)
        outcome == CASE ~s.enableOCPRAG -> "Disabled"
                     [] s.enableOCPRAG /\ detected.err -> "DetectionFailed"
                     [] s.enableOCPRAG /\ ~detected.err ->
                            IF r.err THEN "OverrideInvalid"
                            ELSE IF r.isFallback THEN "Fallback" ELSE "Resolved"
    IN  [status EXCEPT
            !.conds.rag = outcome,
            !.active = IF outcome \in {"Fallback", "Resolved"} THEN r.version ELSE ""]

\* A deleted instance is torn down, one without the finalizer gets it, any
\* other one is reconciled.
AfterResolve(object) ==
    \/ /\ object.deleting
       /\ pc' = "rmList" /\ obj' = object
       /\ UNCHANGED <<cur, before, seenCfg, seenCsv, requeue>>
    \/ /\ ~object.deleting /\ ~object.fin
       /\ Return([object EXCEPT !.fin = TRUE], FALSE)
    \/ /\ ~object.deleting /\ object.fin
       /\ pc' = "mode" /\ obj' = object
       /\ UNCHANGED <<cur, before, seenCfg, seenCsv, requeue>>

Resolve ==
    /\ pc = "resolve"
    /\ AfterResolve([obj EXCEPT !.status =
            resolveOCPVersion(@, spec, DetectOCPVersion(OCPHistory[ocp]))])
    /\ UNCHANGED clusterVars

-----------------------------------------------------------------------------
(* The deferred function.                                                  *)

\* Mutant: the patch replaces the object by the changed fields.
ReplacePatch(old, new, live) ==
    [f \in {g \in DOMAIN live : old[g] # new[g]} |-> new[f]]

\* What a JSON merge patch from one value of an object to another makes of
\* the value the API server has: fields that did not change are not sent.
MergePatch(old, new, live) ==
    [f \in DOMAIN live |-> IF old[f] = new[f] THEN live[f] ELSE new[f]]

\* The worker is done with the instance.
Done ==
    /\ pc' = "idle"
    /\ cur' = NoInstance
    /\ before' = NewObject /\ obj' = NewObject
    /\ seenCfg' = NoOLSConfig /\ seenCsv' = NoCSV
    /\ requeue' = FALSE
    /\ timers' = IF requeue THEN timers \cup {cur} ELSE timers

\* PatchInstance, metadata: only the finalizer can have changed.  An instance
\* that is being deleted goes with its finalizer.
PatchMetadata ==
    /\ pc = "patch"
    /\ obj' = [obj EXCEPT !.status.conds = SummarizeReady(@)]
    /\ inst' = IF inst[cur].phase # "live" \/ obj.fin = before.fin THEN inst
               ELSE IF inst[cur].deleting /\ ~obj.fin
                    THEN [inst EXCEPT ![cur] = GoneObject]
                    ELSE [inst EXCEPT ![cur].fin = obj.fin]
    /\ pc' = "patchStatus"
    /\ UNCHANGED <<cur, before, seenCfg, seenCsv, requeue, cinst, subVars,
                   planVars, csvVars, cfg, ocp, recommended, queueVars,
                   boundVars>>

\* PatchInstance, status; an instance that is gone is not an error.
PatchStatus ==
    /\ pc = "patchStatus"
    /\ inst' = IF inst[cur].phase # "live" THEN inst
               ELSE [inst EXCEPT ![cur].status =
                        MergePatch(before.status, obj.status, @)]
    /\ Done
    /\ UNCHANGED <<cinst, subVars, planVars, csvVars, cfg, ocp, recommended,
                   queue, boundVars>>

-----------------------------------------------------------------------------
(* Failures.                                                               *)

Fault ==
    /\ faults < MaxFaults /\ MoreDisturbances
    /\ faults' = faults + 1

\* An API call fails.  Detection failures are reported in OCPRAGReady, a
\* failed PatchInstance is forgotten.
CallFails ==
    /\ Fault
    /\ \/ /\ pc = "resolve" /\ spec.enableOCPRAG
          /\ AfterResolve([obj EXCEPT !.status =
                resolveOCPVersion(@, spec, [err |-> TRUE, version |-> ""])])
          /\ UNCHANGED timers
       \/ pc \in InstallLabels /\ ReturnOperatorError("Error") /\ UNCHANGED timers
       \/ pc \in ConfigLabels /\ ReturnConfigError /\ UNCHANGED timers
       \/ /\ pc \in ReadyLabels \cup RemoveLabels \cup UninstallLabels
          /\ ReturnRetry
          /\ UNCHANGED timers
       \/ pc \in PatchLabels /\ Done
    /\ UNCHANGED <<instVars, subVars, planVars, csvVars, cfg, ocp, recommended,
                   queue, userActs, restarts>>

\* The process dies and another one takes over: it fills its caches, queues
\* every instance it finds and may have another recommended version.
Restart ==
    /\ restarts < MaxRestarts /\ MoreDisturbances
    /\ restarts' = restarts + 1
    /\ recommended' \in Recommendations
    /\ cinst' = inst /\ csub' = sub /\ cplans' = plans
    /\ queue' = {i \in Instances : inst[i].phase = "live"}
    /\ timers' = {}
    /\ pc' = "idle"
    /\ cur' = NoInstance
    /\ before' = NewObject /\ obj' = NewObject
    /\ seenCfg' = NoOLSConfig /\ seenCsv' = NoCSV
    /\ requeue' = FALSE
    /\ UNCHANGED <<inst, sub, plans, csvVars, cfg, ocp, userActs, faults>>
=============================================================================
