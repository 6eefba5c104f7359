----------------------------- MODULE Conditions -----------------------------
(***************************************************************************)
(* The status conditions of an OpenStackLightspeed instance, as the        *)
(* reconciler uses lib-common's condition package.                         *)
(*                                                                         *)
(* A condition is named by the outcome it reports, which fixes its status, *)
(* reason, severity and message:                                           *)
(*   ols   OpenStackLightspeedReady                                        *)
(*   op    OpenShiftLightspeedOperatorReady (absent until first set)       *)
(*   rag   OCPRAGReady (absent until first set)                            *)
(*   ready the overall Ready condition                                     *)
(***************************************************************************)
OLSOutcomes == {"Absent", "Unknown", "True", "Error"}
OperatorOutcomes == {"Absent", "True", "Waiting", "UserInstalled", "Error"}
RAGOutcomes == {"Absent", "Disabled", "DetectionFailed", "OverrideInvalid",
                "Fallback", "Resolved"}
ReadyStates == {"Absent", "Unknown", "True", "False"}

Conds == [ols : OLSOutcomes, op : OperatorOutcomes, rag : RAGOutcomes,
          ready : ReadyStates]

NoConds == [ols |-> "Absent", op |-> "Absent", rag |-> "Absent", ready |-> "Absent"]

IsTrue(c) == c \in {"True", "Disabled", "Fallback", "Resolved"}
IsFalse(c) == c \in {"Waiting", "UserInstalled", "Error", "DetectionFailed",
                     "OverrideInvalid"}
IsAbsent(c) == c = "Absent"

SubConds(conds) == {conds.ols, conds.op, conds.rag}

\* Conditions.Init: Ready and the listed condition start over as Unknown; the
\* other conditions keep what the previous reconciliation reported.
InitConditions(conds) == [conds EXCEPT !.ols = "Unknown", !.ready = "Unknown"]

\* AllSubConditionIsTrue looks at the conditions that are present.
AllSubConditionIsTrue(conds) ==
    \A c \in SubConds(conds) : IsTrue(c) \/ IsAbsent(c)

\* The deferred function: Ready is True when every other condition is,
\* otherwise it mirrors the most severe of them.
SummarizeReady(conds) ==
    [conds EXCEPT !.ready =
        IF AllSubConditionIsTrue(conds) THEN "True"
        ELSE IF \E c \in SubConds(conds) : IsFalse(c) THEN "False" ELSE "Unknown"]
=============================================================================
