----------------------------- MODULE OCPVersion -----------------------------
(***************************************************************************)
(* internal/controller/ocp_version.go and BuildRAGConfigs of funcs.go: the *)
(* choice of the OCP documentation that OLSConfig refers to.               *)
(*                                                                         *)
(* A major.minor version is a string, "" being Go's empty string.  The     *)
(* ClusterVersion object is [found, majorMinor, rest]: found says whether  *)
(* status.desired.version is present; majorMinor is the part of it that    *)
(* the regular expression ^(\d+\.\d+) matches ("" when it does not match)  *)
(* and rest is what follows ("4.18" and ".0-0.nightly", for instance).     *)
(***************************************************************************)
EXTENDS Sequences

OCPVersionLatest == "latest"

SupportedOCPVersions == {"4.16", "4.18", OCPVersionLatest}

IsSupportedOCPVersion(version) == version \in SupportedOCPVersions

\* The leading major.minor of a version string; an error when there is none.
ParseMajorMinorVersion(full) ==
    [err |-> full.majorMinor = "", version |-> full.majorMinor]

\* A ClusterVersion without status.desired.version is an error, like one whose
\* version does not parse.  A failed read is a step of the Reconciler module.
DetectOCPVersion(clusterVersion) ==
    IF clusterVersion.found
    THEN ParseMajorMinorVersion(clusterVersion)
    ELSE [err |-> TRUE, version |-> ""]

ResolveOCPVersion(detected, override, enableOCPRAG) ==
    CASE ~enableOCPRAG ->
            [version |-> "", isFallback |-> FALSE, err |-> FALSE]
      [] enableOCPRAG /\ override # "" ->
            [version |-> override, isFallback |-> FALSE, err |-> FALSE]
      [] enableOCPRAG /\ override = "" /\ detected = "" ->
            [version |-> "", isFallback |-> FALSE, err |-> TRUE]
      [] enableOCPRAG /\ override = "" /\ detected # "" ->
            IF IsSupportedOCPVersion(detected)
            THEN [version |-> detected, isFallback |-> FALSE, err |-> FALSE]
            ELSE [version |-> OCPVersionLatest, isFallback |-> TRUE, err |-> FALSE]

-----------------------------------------------------------------------------
(* The RAG section of OLSConfig.  Paths and index names are pairs of their *)
(* fixed prefix and the version.                                           *)

OpenStackRAG(image) == [image |-> image, index |-> <<"os_product_docs", "">>]

OCPRAG(image, version) == [image |-> image, index |-> <<"ocp_vector_db", version>>]

\* OpenStack documentation first, OCP documentation when a version is active.
BuildRAGConfigs(image, ocpVersion) ==
    IF ocpVersion = ""
    THEN <<OpenStackRAG(image)>>
    ELSE <<OpenStackRAG(image), OCPRAG(image, ocpVersion)>>
=============================================================================
