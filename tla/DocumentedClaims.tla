-------------------------- MODULE DocumentedClaims --------------------------
(***************************************************************************)
(* What comments, messages and API documentation of the repository say of  *)
(* the operator, where the code does something else.  Each claim is stated *)
(* as it is written; a run of its own shows a behavior that breaks it.     *)
(***************************************************************************)
EXTENDS Reconciler

\* funcs.go: "Skipping OLSConfig deletion as it is not managed by the
\* OpenStackLightspeed instance": the worker deletes an OLSConfig only on
\* behalf of the instance in its owner label.
OnlyOwnerDeletesConfig ==
    [][pc = "rmDelete" /\ cfg' # cfg => cfg.label = cur]_vars

\* funcs.go: RemoveOLSConfig "checks whether the current OpenStackLightspeed
\* instance is the owner (via label check), and if so, removes the finalizer and
\* deletes the OLSConfig resource".
OwnedConfigRemoved ==
    \A i \in Instances : inst[i].deleting /\ cfg.label = i ~> cfg.label # i

\* funcs.go: RemoveOLSConfig "Returns (true, nil) if the OLSConfig is not found
\* (indicating it has already been deleted)": a deletion that finds nothing to
\* remove ends.
DeletionEnds ==
    \A i \in Instances : inst[i].deleting ~> inst[i].phase = "gone"

\* ols_install.go: UninstallInstanceOwnedOLSOperator "ensures that the OLS
\* Operator installed by a specific OpenStackLightspeed instance is uninstalled
\* from the cluster".
NoOperatorLeftBehind ==
    Quiescent => \A i \in Instances : inst[i].phase = "gone" => csv.via # i

\* ols_install.go: "Please uninstall OpenShift Lightspeed operator and allow the
\* OpenStack Lightspeed operator to manage its installation automatically": no
\* instance stays blocked by an OLS operator that is not there any more.
UninstallUnblocks ==
    Quiescent =>
        \A i \in Instances :
            Live(i) /\ inst[i].status.conds.op = "UserInstalled" => csv.exists

\* openstacklightspeed_controller.go: "Always patch the instance status when
\* exiting this function so we can persist any changes": when the worker has
\* nothing left to do, the finalizer it added to an instance is there.
ChangesPersisted ==
    Quiescent => \A i \in Instances : Live(i) => inst[i].fin

\* ols_install.go: owning the CSV "helps determine during deletion if the OLS
\* Operator was installed by us or pre-existed before the instance": what the
\* worker uninstalls was not installed by a user.
UserOperatorKept ==
    [][pc = "unDelete" /\ csv' # csv => csv.via # User]_vars

\* openstacklightspeed_types.go: the override "Allows forcing a specific OCP
\* version instead of auto-detection": a supported override is what an instance
\* uses, whether or not the cluster version can be detected.
OverrideUsed ==
    Quiescent =>
        \A i \in Instances :
            LET s == Specs[inst[i].gen]
            IN  /\ Live(i) /\ ~inst[i].deleting
                /\ s.enableOCPRAG /\ IsSupportedOCPVersion(s.override)
                => inst[i].status.active = s.override

\* ols_install.go: "we ensure that only the specific OLS Operator version we've
\* tested is installed", for an operator that has recommended one version only.
TestedVersionOnly ==
    restarts = 0 /\ csv.exists /\ csv.via # User => Recommended(csv.version)

\* ols_install.go: EnsureOLSOperatorInstalled, "If the operator already exists, this
\* checks that it matches the required version (otherwise it fails)": no instance
\* stays Ready on another version.
ExistingVersionChecked ==
    \A i \in Instances : ReadyAtRest(i) => Recommended(csv.version)
=============================================================================
