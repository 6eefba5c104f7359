----------------------------- MODULE OLSInstall -----------------------------
(***************************************************************************)
(* internal/controller/ols_install.go: the worker installs the OLS         *)
(* operator through OLM (EnsureOLSOperatorInstalled) and removes it when   *)
(* its instance is deleted (UninstallInstanceOwnedOLSOperator).            *)
(***************************************************************************)
EXTENDS ReconcileFrame

\* GetRecommendedOLSVersion: an unset variable is an error, "latest" stands
\* for whatever OLM offers.
RecommendationUnset == recommended = ""
GetRecommendedOLSVersion == IF recommended = "latest" THEN NoVersion ELSE recommended

\* Mutant: the version of an InstallPlan does not matter.
AnyPlans == {p \in Plans : PlanExists(cplans[p])}

\* The recommended version is compared with the end of the CSV's name, and the
\* empty one ends every name.
HasSuffix(version, suffix) ==
    suffix \in {version, NoVersion} \/ <<version, suffix>> \in ProperSuffixes

\* The InstallPlans in the cache GetOLSOperatorInstallPlan may return: the
\* cache lists them in no particular order, and it does not look at the
\* Subscription's reference.
MatchingPlans ==
    {p \in Plans : /\ PlanExists(cplans[p])
                   /\ HasSuffix(cplans[p].version, GetRecommendedOLSVersion)}

IsOwnedBy(object, i) == object.exists /\ object.owner = i

-----------------------------------------------------------------------------
(* EnsureOLSOperatorInstalled.                                             *)

\* Some OLS operator is there, and neither it nor a Subscription is ours.
IsUserInstalledOLSOperatorMode ==
    csv.exists /\ ~IsOwnedBy(csv, cur) /\ ~csub[cur].exists

EnsureOLSOperatorInstalled ==
    /\ pc = "mode"
    /\ \/ IsUserInstalledOLSOperatorMode /\ ReturnOperatorError("UserInstalled")
       \/ ~IsUserInstalledOLSOperatorMode /\ Goto("subscribe")
    /\ UNCHANGED clusterVars

DesiredSubscription(current) ==
    [exists |-> TRUE, catalog |-> spec.catalog,
     startingCSV |-> GetRecommendedOLSVersion, planRef |-> current.planRef]

\* The API server accepts the write.
SubscriptionWritten ==
    /\ ~RecommendationUnset
    /\ csub[cur] # DesiredSubscription(csub[cur])
    /\ csub[cur] = sub[cur]
    /\ sub' = [sub EXCEPT ![cur] = DesiredSubscription(@)]

\* CreateOrUpdate reads the cache and writes to the API server, which refuses
\* a write that was computed from an old version.
WriteSubscription ==
    /\ pc = "subscribe"
    /\ \/ SubscriptionWritten /\ ReturnOperatorWait
       \/ /\ ~RecommendationUnset
          /\ csub[cur] # DesiredSubscription(csub[cur])
          /\ csub[cur] # sub[cur]
          /\ sub' = sub
          /\ ReturnOperatorError("Error")
    /\ UNCHANGED <<csub, instVars, planVars, csvVars, cfg, ocp, recommended,
                   queueVars, boundVars>>

\* The write takes effect and the call fails all the same.
SubscriptionResponseLost ==
    /\ pc = "subscribe"
    /\ Fault
    /\ SubscriptionWritten
    /\ ReturnOperatorError("Error")
    /\ UNCHANGED <<csub, instVars, planVars, csvVars, cfg, ocp, recommended,
                   queueVars, userActs, restarts>>

CheckSubscription ==
    /\ pc = "subscribe"
    /\ \/ RecommendationUnset /\ ReturnOperatorError("Error")
       \/ /\ ~RecommendationUnset
          /\ csub[cur] = DesiredSubscription(csub[cur])
          /\ \/ csub[cur].planRef = NoPlan /\ ReturnOperatorWait
             \/ csub[cur].planRef # NoPlan /\ Goto("approve")
    /\ UNCHANGED clusterVars

ApproveOLSOperatorInstallPlan ==
    /\ pc = "approve"
    /\ \/ MatchingPlans = {} /\ ReturnOperatorWait /\ plans' = plans
       \/ \E p \in MatchingPlans :
            \/ /\ cplans[p] = plans[p]
               /\ plans' = [plans EXCEPT ![p].approved = TRUE]
               /\ Goto("adopt")
            \/ /\ cplans[p] # plans[p]
               /\ plans' = plans
               /\ ReturnOperatorError("Error")
    /\ UNCHANGED <<cplans, instVars, subVars, csvVars, cfg, ocp, recommended,
                   queueVars, boundVars>>

FindCSVToOwn ==
    /\ pc = "adopt"
    /\ \/ ~csv.exists /\ ReturnOperatorWait
       \/ /\ csv.exists
          /\ seenCsv' = csv /\ pc' = "adoptWrite"
          /\ UNCHANGED <<cur, before, obj, seenCfg, requeue>>
    /\ UNCHANGED clusterVars

\* The CSV that was read is gone: another one has another name.
SeenCSVGone == ~csv.exists \/ csv.version # seenCsv.version

\* Update sets the owner, unless the CSV was written since it was read.
OwnCSV ==
    /\ pc = "adoptWrite"
    /\ \/ /\ SeenCSVGone
          /\ ReturnOperatorError("Error")
          /\ UNCHANGED <<csv, queue>>
       \/ /\ ~SeenCSVGone /\ csv # seenCsv
          /\ ReturnOperatorWait
          /\ UNCHANGED <<csv, queue>>
       \/ /\ ~SeenCSVGone /\ csv = seenCsv
          /\ csv' = [csv EXCEPT !.owner = cur]
          /\ queue' = IF csv.owner = cur THEN queue
                      ELSE queue \cup NotifyOwners(csv, csv')
          /\ pc' = "complete" /\ seenCsv' = NoCSV
          /\ UNCHANGED <<cur, before, obj, seenCfg, requeue>>
    /\ UNCHANGED <<crd, instVars, subVars, planVars, cfg, ocp, recommended,
                   timers, boundVars>>

InstanceOwnedOLSOperatorComplete == IsOwnedBy(csv, cur) /\ csv.succeeded

CompleteInstall ==
    /\ pc = "complete"
    /\ \/ ~InstanceOwnedOLSOperatorComplete /\ ReturnOperatorWait
       \/ /\ InstanceOwnedOLSOperatorComplete
          /\ obj' = [obj EXCEPT !.status.conds.op = "True"]
          /\ pc' = "cfgGet"
          /\ UNCHANGED <<cur, before, seenCfg, seenCsv, requeue>>
    /\ UNCHANGED clusterVars

-----------------------------------------------------------------------------
(* UninstallInstanceOwnedOLSOperator.                                      *)

FindCSVToUninstall ==
    /\ pc = "unList"
    /\ \/ ~IsOwnedBy(csv, cur) /\ ReturnDeleted
       \/ /\ IsOwnedBy(csv, cur)
          /\ seenCsv' = csv /\ pc' = "unPlan"
          /\ UNCHANGED <<cur, before, obj, seenCfg, requeue>>
    /\ UNCHANGED clusterVars

DeleteOLSOperatorInstallPlan ==
    /\ pc = "unPlan"
    /\ \/ RecommendationUnset /\ ReturnRetry /\ plans' = plans
       \/ ~RecommendationUnset /\ MatchingPlans = {} /\ Goto("unDelete") /\ plans' = plans
       \/ /\ ~RecommendationUnset
          /\ \E p \in MatchingPlans : plans' = [plans EXCEPT ![p].phase = "deleted"]
          /\ Goto("unDelete")
    /\ UNCHANGED <<cplans, instVars, subVars, csvVars, cfg, ocp, recommended,
                   queueVars, boundVars>>

DeleteCSV ==
    /\ pc = "unDelete"
    /\ \/ /\ SeenCSVGone
          /\ ReturnRetry
          /\ UNCHANGED <<csv, queue>>
       \/ /\ ~SeenCSVGone
          /\ csv' = [csv EXCEPT !.deleting = TRUE]
          /\ queue' = IF csv.deleting THEN queue
                      ELSE queue \cup NotifyOwners(csv, csv')
          /\ pc' = "unCheck" /\ seenCsv' = NoCSV
          /\ UNCHANGED <<cur, before, obj, seenCfg, requeue>>
    /\ UNCHANGED <<crd, instVars, subVars, planVars, cfg, ocp, recommended,
                   timers, boundVars>>

\* Mutant: the CSV is taken to be gone once it was deleted.
CheckPlansOnly ==
    /\ pc = "unCheck"
    /\ \/ MatchingPlans # {} /\ ReturnRetry
       \/ MatchingPlans = {} /\ ReturnDeleted
    /\ UNCHANGED clusterVars

CheckUninstalled ==
    /\ pc = "unCheck"
    /\ \/ (csv.exists \/ MatchingPlans # {}) /\ ReturnRetry
       \/ ~csv.exists /\ MatchingPlans = {} /\ ReturnDeleted
    /\ UNCHANGED clusterVars

-----------------------------------------------------------------------------
InstallStep ==
    \/ EnsureOLSOperatorInstalled \/ WriteSubscription \/ CheckSubscription
    \/ ApproveOLSOperatorInstallPlan \/ FindCSVToOwn \/ OwnCSV
    \/ CompleteInstall

UninstallStep ==
    \/ FindCSVToUninstall \/ DeleteOLSOperatorInstallPlan \/ DeleteCSV
    \/ CheckUninstalled
=============================================================================
