--------------------------- MODULE OLSConfigSync ----------------------------
(***************************************************************************)
(* The worker and the OLSConfig object (funcs.go and the middle part of    *)
(* Reconcile): it creates or takes over the object, keeps it equal to the  *)
(* instance's spec, waits for the OLS operator to report it ready, and     *)
(* removes it when the instance is deleted (RemoveOLSConfig).              *)
(***************************************************************************)
EXTENDS ReconcileFrame

OwnFinalizer == "openstack"

-----------------------------------------------------------------------------
(* CreateOrPatch of the OLSConfig.                                         *)

\* The spec PatchOLSConfig writes over the one it found: a CA bundle is set
\* but never cleared.
DesiredContent(s, active, content) ==
    [copied |-> s.copied, maxTokens |-> s.maxTokens,
     ca |-> IF s.ca = "" THEN content.ca ELSE s.ca,
     rag |-> BuildRAGConfigs(s.ragImage, active)]

\* Mutant: the OLSConfig gets the finalizer but not the owner label.
PatchUnlabelled(config) ==
    [config EXCEPT
        !.exists = TRUE,
        !.want = DesiredContent(Defaulted(spec), obj.status.active, config.want),
        !.fins = @ \cup {OwnFinalizer}]

\* The label goes to an object that has none, the finalizer is added.
PatchOLSConfig(config) ==
    [config EXCEPT
        !.exists = TRUE,
        !.want = DesiredContent(Defaulted(spec), obj.status.active, config.want),
        !.label = IF @ = NoInstance THEN cur ELSE @,
        !.fins = @ \cup {OwnFinalizer}]

\* Mutant: the owner label is not looked at.
OwnerIgnored(config) == FALSE

OwnedByOther(config) == config.label \notin {NoInstance, cur}

GetOLSConfig ==
    /\ pc = "cfgGet"
    /\ \/ OwnedByOther(cfg) /\ ReturnConfigError
       \/ /\ ~OwnedByOther(cfg)
          /\ seenCfg' = cfg /\ pc' = "cfgWrite"
          /\ UNCHANGED <<cur, before, obj, seenCsv, requeue>>
    /\ UNCHANGED clusterVars

\* The API server accepts no new finalizer on an object that is being deleted.
FinalizerRefused(fins) == cfg.deleting /\ ~(fins \subseteq cfg.fins)

\* Mutant: an OLSConfig that exists keeps its spec.
PatchedMetadata(new) ==
    [cfg EXCEPT !.label = IF new.label = seenCfg.label THEN @ ELSE new.label,
                !.fins = IF new.fins = seenCfg.fins THEN @ ELSE new.fins,
                !.dirty = TRUE]

\* The object that results from patching what is there with new.
PatchedConfig(new) ==
    [cfg EXCEPT !.want = MergePatch(seenCfg.want, new.want, @),
                !.label = IF new.label = seenCfg.label THEN @ ELSE new.label,
                !.fins = IF new.fins = seenCfg.fins THEN @ ELSE new.fins,
                !.dirty = TRUE]

\* The API server accepts the write: a create, or a patch of what differs.
ConfigWritten(new) ==
    \/ /\ ~seenCfg.exists /\ ~cfg.exists
       /\ cfg' = [new EXCEPT !.dirty = TRUE]
    \/ /\ seenCfg.exists /\ new # seenCfg
       /\ cfg.exists /\ ~(new.fins # seenCfg.fins /\ FinalizerRefused(new.fins))
       /\ cfg' = PatchedConfig(new)

WriteOLSConfig ==
    /\ pc = "cfgWrite"
    /\ LET new == PatchOLSConfig(seenCfg) IN
       \/ ConfigWritten(new) /\ Goto("ready")
       \/ /\ seenCfg.exists /\ new = seenCfg
          /\ cfg' = cfg
          /\ Goto("ready")
       \/ /\ \/ ~seenCfg.exists /\ cfg.exists
             \/ /\ seenCfg.exists /\ new # seenCfg
                /\ ~cfg.exists \/ (new.fins # seenCfg.fins /\ FinalizerRefused(new.fins))
          /\ cfg' = cfg
          /\ ReturnConfigError
    /\ UNCHANGED <<instVars, subVars, planVars, csvVars, ocp, recommended,
                   queueVars, boundVars>>

\* The write takes effect and the call fails all the same.
ConfigResponseLost ==
    /\ pc = "cfgWrite"
    /\ Fault
    /\ ConfigWritten(PatchOLSConfig(seenCfg))
    /\ ReturnConfigError
    /\ UNCHANGED <<instVars, subVars, planVars, csvVars, ocp, recommended,
                   queueVars, userActs, restarts>>

-----------------------------------------------------------------------------
(* IsOLSConfigReady and OLSConfigPing.                                     *)

IsOLSConfigReady ==
    /\ pc = "ready"
    /\ \/ ~cfg.exists /\ ReturnRetry
       \/ cfg.exists /\ cfg.overall /\ ReturnReady
       \/ cfg.exists /\ ~cfg.overall /\ Goto("ping")
    /\ UNCHANGED clusterVars

OLSConfigPing ==
    /\ pc = "ping"
    /\ \/ ~cfg.exists /\ ReturnRetry
       \/ /\ cfg.exists
          /\ seenCfg' = cfg /\ pc' = "pingWrite"
          /\ UNCHANGED <<cur, before, obj, seenCsv, requeue>>
    /\ UNCHANGED clusterVars

\* Mutant: there is no ping.
SkipPing ==
    /\ pc = "pingWrite"
    /\ ReturnRetry
    /\ UNCHANGED clusterVars

\* The new label is an event for the OLS operator.  Whether the update is
\* refused or not, the reconciliation comes back later.
UpdatePingLabel ==
    /\ pc = "pingWrite"
    /\ cfg' = IF cfg = seenCfg THEN [cfg EXCEPT !.dirty = TRUE] ELSE cfg
    /\ ReturnRetry
    /\ UNCHANGED <<instVars, subVars, planVars, csvVars, ocp, recommended,
                   queueVars, boundVars>>

-----------------------------------------------------------------------------
(* RemoveOLSConfig.                                                        *)

\* Listing a kind the API server does not know is an error, and not the
\* "not found" that RemoveOLSConfig takes for success.
FindOLSConfigToRemove ==
    /\ pc = "rmList"
    /\ \/ ~crd /\ ReturnRetry
       \/ crd /\ ~cfg.exists /\ Goto("unList")
       \/ crd /\ cfg.exists /\ Goto("rmGet")
    /\ UNCHANGED clusterVars

\* Mutant: the owner label is not looked at.
CheckOLSConfigPresent ==
    /\ pc = "rmGet"
    /\ \/ OwnFinalizer \notin cfg.fins /\ ReturnRetry
       \/ /\ OwnFinalizer \in cfg.fins
          /\ seenCfg' = cfg /\ pc' = "rmPatch"
          /\ UNCHANGED <<cur, before, obj, seenCsv, requeue>>
    /\ UNCHANGED clusterVars

\* CreateOrPatch: only the owner removes the finalizer, and it must be there.
CheckOLSConfigOwner ==
    /\ pc = "rmGet"
    /\ \/ ~cfg.exists /\ ReturnRetry
       \/ cfg.exists /\ cfg.label # cur /\ Goto("rmDelete")
       \/ cfg.exists /\ cfg.label = cur /\ OwnFinalizer \notin cfg.fins /\ ReturnRetry
       \/ /\ cfg.exists /\ cfg.label = cur /\ OwnFinalizer \in cfg.fins
          /\ seenCfg' = cfg /\ pc' = "rmPatch"
          /\ UNCHANGED <<cur, before, obj, seenCsv, requeue>>
    /\ UNCHANGED clusterVars

RemainingFinalizers == seenCfg.fins \ {OwnFinalizer}

RemoveOwnFinalizer ==
    /\ pc = "rmPatch"
    /\ \/ /\ ~cfg.exists \/ FinalizerRefused(RemainingFinalizers)
          /\ cfg' = cfg
          /\ ReturnRetry
       \/ /\ cfg.exists /\ ~FinalizerRefused(RemainingFinalizers)
          /\ cfg' = Released([cfg EXCEPT !.fins = RemainingFinalizers, !.dirty = TRUE])
          /\ pc' = "rmDelete" /\ seenCfg' = NoOLSConfig
          /\ UNCHANGED <<cur, before, obj, seenCsv, requeue>>
    /\ UNCHANGED <<instVars, subVars, planVars, csvVars, ocp, recommended,
                   queueVars, boundVars>>

\* Delete does not look at the owner.
DeleteOLSConfig ==
    /\ pc = "rmDelete"
    /\ \/ ~cfg.exists /\ cfg' = cfg /\ ReturnRetry
       \/ /\ cfg.exists
          /\ cfg' = Released([cfg EXCEPT !.deleting = TRUE])
          /\ Goto("rmCheck")
    /\ UNCHANGED <<instVars, subVars, planVars, csvVars, ocp, recommended,
                   queueVars, boundVars>>

\* Mutant: the OLSConfig is taken to be gone once it was deleted.
AssumeOLSConfigRemoved ==
    /\ pc = "rmCheck"
    /\ Goto("unList")
    /\ UNCHANGED clusterVars

CheckOLSConfigRemoved ==
    /\ pc = "rmCheck"
    /\ \/ cfg.exists /\ ReturnRetry
       \/ ~cfg.exists /\ Goto("unList")
    /\ UNCHANGED clusterVars

-----------------------------------------------------------------------------
ConfigStep ==
    \/ GetOLSConfig \/ WriteOLSConfig
    \/ IsOLSConfigReady \/ OLSConfigPing \/ UpdatePingLabel

RemoveStep ==
    \/ FindOLSConfigToRemove \/ CheckOLSConfigOwner \/ RemoveOwnFinalizer
    \/ DeleteOLSConfig \/ CheckOLSConfigRemoved
=============================================================================
