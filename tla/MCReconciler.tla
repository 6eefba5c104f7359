---------------------------- MODULE MCReconciler ----------------------------
(* Values of the constants of Reconciler for TLC.                          *)
EXTENDS DocumentedClaims

CONSTANTS a, b

MCText == STRING

-----------------------------------------------------------------------------
(* Specs of instances.                                                     *)

BaseSpec == [catalog |-> "redhat", ca |-> "", enableOCPRAG |-> FALSE,
             override |-> "", ragImage |-> "", maxTokens |-> 0, copied |-> "gpt"]

OneSpec == <<BaseSpec>>
OneOCPSpec == <<[BaseSpec EXCEPT !.enableOCPRAG = TRUE]>>

\* Subscription and OLSConfig follow.
TwoSpecs == <<[BaseSpec EXCEPT !.enableOCPRAG = TRUE, !.ca = "bundle"],
              [catalog |-> "mirror", ca |-> "", enableOCPRAG |-> TRUE,
               override |-> "", ragImage |-> "own-image", maxTokens |-> 512,
               copied |-> "granite"]>>

OverrideSpec == <<[BaseSpec EXCEPT !.enableOCPRAG = TRUE, !.override = "4.16"]>>

-----------------------------------------------------------------------------
(* ClusterVersion objects.                                                 *)

OCP418 == [found |-> TRUE, majorMinor |-> "4.18", rest |-> ".3"]
OCP420 == [found |-> TRUE, majorMinor |-> "4.20", rest |-> ".0-0.nightly"]
OCPUnknown == [found |-> FALSE, majorMinor |-> "", rest |-> ""]
OCPMalformed == [found |-> TRUE, majorMinor |-> "", rest |-> "next"]

NoOCP == <<OCPUnknown>>
OneOCP == <<OCP418>>
OCPDetection == <<OCPUnknown, OCPMalformed, OCP418, OCP420>>

-----------------------------------------------------------------------------
(* The catalog of the OLS operator.                                        *)

OneVersion == <<"v1">>

ThreeVersions == <<"1.0.1", "1.0.2", "1.0.3">>

\* "11.0.1" ends in "1.0.1".
CollidingVersions == <<"1.0.1", "11.0.1">>
OneCollision == {<<"11.0.1", "1.0.1">>}

-----------------------------------------------------------------------------
(* Initial states with two instances.  Each is reached from the empty      *)
(* cluster; to begin there keeps the run small.                            *)

Reported(outcome) ==
    [NoStatus EXCEPT
        !.conds = SummarizeReady([InitConditions(@) EXCEPT !.op = outcome,
                                                           !.rag = "Disabled"]),
        !.obsGen = 1]

Seen(outcome) == [CreatedObject EXCEPT !.fin = TRUE, !.status = Reported(outcome)]

Leaving(object) == [object EXCEPT !.deleting = TRUE]

Subscribed(plan) ==
    [exists |-> TRUE, catalog |-> Specs[1].catalog,
     startingCSV |-> GetRecommendedOLSVersion, planRef |-> plan]

\* The instance owner is Ready.  The other one has come as far as its object,
\* its Subscription and its InstallPlan say, and is due to be reconciled.
Beside(owner, other, object, subscription, plan) ==
    /\ recommended \in Recommendations
    /\ inst = [i \in Instances |->
                 IF i = other THEN object
                 ELSE [CreatedObject EXCEPT !.fin = TRUE,
                                            !.status = SettledStatus(1, OCPHistory[1])]]
    /\ cinst = inst
    /\ sub = [i \in Instances |-> IF i = other THEN subscription ELSE Subscribed(1)]
    /\ csub = sub
    /\ plans = <<[NewPlan(owner, SettledVersion) EXCEPT !.phase = "complete",
                                                      !.approved = TRUE], plan>>
    /\ cplans = plans
    /\ csv = [exists |-> TRUE, version |-> SettledVersion, succeeded |-> TRUE,
              owner |-> owner, via |-> owner, deleting |-> FALSE]
    /\ crd = TRUE
    /\ LET content == SettledContent(1, OCPHistory[1], NoContent)
       IN  cfg = [exists |-> TRUE, label |-> owner, fins |-> Finalizers,
                  deleting |-> FALSE, want |-> content, rolled |-> content,
                  overall |-> TRUE, dirty |-> FALSE]
    /\ ocp = 1
    /\ queue = {other} /\ timers = {}
    /\ userActs = 0 /\ restarts = 0 /\ faults = 0

RivalsInit ==
    /\ WorkerInit
    /\ \* b came when the OLS operator of a was there already, and may take over.
       \/ Beside(a, b, Seen("UserInstalled"), NoSubscription, NoInstallPlan)
       \* The same, and b is being deleted again.
       \/ Beside(a, b, Leaving(Seen("UserInstalled")), NoSubscription, NoInstallPlan)
       \* Both had asked OLM for an OLS operator when that of b came first.
       \/ Beside(b, a, Seen("Waiting"), Subscribed(2), NewPlan(a, SettledVersion))

RivalsSpec == RivalsInit /\ [][Next]_vars
=============================================================================
