------------------------------ MODULE Ownership ------------------------------
(***************************************************************************)
(* What the operator promises about the two objects that its instances     *)
(* share, without saying how: the cluster's only OLSConfig and the CSV of  *)
(* the OLS operator.  The OLSConfig is a lease.  An instance takes it when *)
(* nobody has it, gives it back only once it is being deleted, reports     *)
(* Ready only while it has it, and is gone only when it has nothing left.  *)
(* The CSV is less than a lease: anyone may take it over, and it may get   *)
(* lost at any time.                                                       *)
(*                                                                         *)
(* The module Reconciler implements this specification, see there.         *)
(***************************************************************************)
CONSTANTS Instances, NoInstance

VARIABLES
    stage,      \* how far each instance is in its life
    config,     \* the instance that has the OLSConfig
    operator,   \* the instance that has the CSV
    ready       \* the instances that report Ready and are not being deleted

vars == <<stage, config, operator, ready>>

\* absent: not created yet; bare: without finalizer; held: with finalizer;
\* leaving: being deleted; gone: removed.
Stages == {"absent", "bare", "held", "leaving", "gone"}

\* Instance i may have the shared objects.
Holder(i) == stage[i] \in {"held", "leaving"}

Init ==
    \/ /\ stage = [i \in Instances |-> "absent"]
       /\ config = NoInstance /\ operator = NoInstance
       /\ ready = {}
    \/ \E o \in Instances :
          /\ stage \in [Instances -> Stages] /\ stage[o] = "held"
          /\ config = o /\ operator = o
          /\ ready = {o}

Arrive(i) ==
    /\ stage[i] = "absent"
    /\ stage' = [stage EXCEPT ![i] = "bare"]
    /\ UNCHANGED <<config, operator, ready>>

Commit(i) ==
    /\ stage[i] = "bare"
    /\ stage' = [stage EXCEPT ![i] = "held"]
    /\ UNCHANGED <<config, operator, ready>>

Leave(i) ==
    /\ \/ stage[i] = "bare" /\ stage' = [stage EXCEPT ![i] = "gone"]
       \/ stage[i] = "held" /\ stage' = [stage EXCEPT ![i] = "leaving"]
    /\ ready' = ready \ {i}
    /\ UNCHANGED <<config, operator>>

\* A deletion ends when the instance has nothing any more.
Finish(i) ==
    /\ stage[i] = "leaving"
    /\ config # i /\ operator # i
    /\ stage' = [stage EXCEPT ![i] = "gone"]
    /\ UNCHANGED <<config, operator, ready>>

\* An instance that is being deleted may not know it yet.
TakeConfig(i) ==
    /\ config = NoInstance
    /\ Holder(i)
    /\ config' = i
    /\ UNCHANGED <<stage, operator, ready>>

ReleaseConfig(i) ==
    /\ config = i
    /\ stage[i] = "leaving"
    /\ config' = NoInstance
    /\ UNCHANGED <<stage, operator, ready>>

TakeOperator(i) ==
    /\ Holder(i)
    /\ operator' = i
    /\ UNCHANGED <<stage, config, ready>>

LoseOperator ==
    /\ operator' = NoInstance
    /\ UNCHANGED <<stage, config, ready>>

Report(i) ==
    /\ stage[i] = "held"
    /\ config = i
    /\ ready' = ready \cup {i}
    /\ UNCHANGED <<stage, config, operator>>

Retract(i) ==
    /\ ready' = ready \ {i}
    /\ UNCHANGED <<stage, config, operator>>

Next ==
    \/ LoseOperator
    \/ \E i \in Instances :
          \/ Arrive(i) \/ Commit(i) \/ Leave(i) \/ Finish(i)
          \/ TakeConfig(i) \/ ReleaseConfig(i) \/ TakeOperator(i)
          \/ Report(i) \/ Retract(i)

Spec == Init /\ [][Next]_vars

-----------------------------------------------------------------------------
TypeOK ==
    /\ stage \in [Instances -> Stages]
    /\ config \in Instances \cup {NoInstance}
    /\ operator \in Instances \cup {NoInstance}
    /\ ready \subseteq Instances

\* What follows from the promise: an instance that reports Ready is committed
\* and has the OLSConfig, so that no two do, and whoever has one of the shared
\* objects still has its finalizer.
Exclusive ==
    /\ \A i \in ready : stage[i] = "held" /\ config = i
    /\ \A i \in Instances : config = i \/ operator = i => Holder(i)
=============================================================================
