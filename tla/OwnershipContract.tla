------------------------- MODULE OwnershipContract --------------------------
(***************************************************************************)
(* What the contract of the module Ownership is good for: whoever keeps it *)
(* lets no two instances be Ready and leaves nothing without an owner.     *)
(***************************************************************************)
EXTENDS Ownership, TLAPS

\* Every step of the contract preserves types and exclusion.
LEMMA ExclusiveNext ==
    ASSUME NoInstance \notin Instances, TypeOK, Exclusive, [Next]_vars
    PROVE  TypeOK' /\ Exclusive'
  <1> USE DEF TypeOK, Exclusive, Holder, Stages
  <1>1. CASE UNCHANGED vars
    BY <1>1 DEF vars
  <1>2. CASE LoseOperator
    BY <1>2 DEF LoseOperator
  <1>3. ASSUME NEW i \in Instances, Arrive(i) \/ Commit(i)
        PROVE  TypeOK' /\ Exclusive'
    BY <1>3 DEF Arrive, Commit
  <1>4. ASSUME NEW i \in Instances, Leave(i)
        PROVE  TypeOK' /\ Exclusive'
    BY <1>4 DEF Leave
  <1>5. ASSUME NEW i \in Instances, Finish(i)
        PROVE  TypeOK' /\ Exclusive'
    BY <1>5 DEF Finish
  <1>6. ASSUME NEW i \in Instances, TakeConfig(i) \/ ReleaseConfig(i)
        PROVE  TypeOK' /\ Exclusive'
    BY <1>6 DEF TakeConfig, ReleaseConfig
  <1>7. ASSUME NEW i \in Instances, TakeOperator(i)
        PROVE  TypeOK' /\ Exclusive'
    BY <1>7 DEF TakeOperator
  <1>8. ASSUME NEW i \in Instances, Report(i) \/ Retract(i)
        PROVE  TypeOK' /\ Exclusive'
    BY <1>8 DEF Report, Retract
  <1> QED
    BY <1>1, <1>2, <1>3, <1>4, <1>5, <1>6, <1>7, <1>8 DEF Next

\* The contract implies exclusion: an instance that reports Ready is committed
\* and has the OLSConfig, and whoever has a shared object has its finalizer.
THEOREM ContractExcludes ==
    ASSUME NoInstance \notin Instances
    PROVE  Spec => [](TypeOK /\ Exclusive)
  <1>1. Init => TypeOK /\ Exclusive
    BY DEF Init, TypeOK, Exclusive, Holder, Stages
  <1>2. TypeOK /\ Exclusive /\ [Next]_vars => (TypeOK /\ Exclusive)'
    BY ExclusiveNext
  <1> QED
    BY <1>1, <1>2, PTL DEF Spec
=============================================================================
