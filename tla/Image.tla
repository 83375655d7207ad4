------------------------------- MODULE Image -------------------------------
(***************************************************************************)
(* What xtask reads from a PE image, and the checks it holds the image to. *)
(* An image is a record: the mitigation bits, the imported libraries and   *)
(* functions, the id of its debug information, whether the manifest asks   *)
(* for ComCtl32 v6, the time stamps of header, debug entries and resource  *)
(* directory, and whether it is signed.                                    *)
(***************************************************************************)
EXTENDS Naturals, FiniteSets

CONSTANTS Golden,            \* the libraries the program may import, all of them
          ApiSets,           \* libraries allowed by prefix
          HighRisk, Dynamic, \* functions: never imported; those that load others
          Manifests,         \* the committed capability manifests to try
          FirstCommit, Ceiling, Epoch   \* times

Required == {"ASLR_DYNAMICBASE", "HIGH_ENTROPY_VA", "DEP_NX", "CONTROL_FLOW_GUARD"}
Floor == {"ASLR_DYNAMICBASE", "DEP_NX", "HIGH_ENTROPY_VA"}

(* verify-hardening, capabilities, imports-scan, pdb-link, verify-manifest *)
HardeningOk(i) == Required \subseteq i.hard
CapabilitiesOk(i) == i.dlls \ ApiSets = Golden
ImportsOk(i) == i.functions \cap HighRisk = {}
LinkOk(i, pdb) == i.view = pdb
ManifestOk(i) == i.comctl

(* caps::propose: what is measured, for a human to commit.                 *)
Propose(i) == [allow |-> i.dlls \ ApiSets,
               prefixes |-> i.dlls \cap ApiSets # {},
               deny |-> HighRisk, dyn |-> i.functions \cap Dynamic, hardening |-> {i.hard}]

(* caps::check: exact in both directions for libraries and mitigations; a  *)
(* manifest without its hardening set, or with less denied than the        *)
(* baseline, gains nothing by it.                                          *)
CapsOk(i, m) == /\ \A d \in i.dlls : d \in m.allow \/ (m.prefixes /\ d \in ApiSets)
                /\ m.allow \subseteq i.dlls
                /\ i.functions \cap (m.deny \cup HighRisk) = {}
                /\ i.functions \cap Dynamic \subseteq m.dyn
                /\ m.hardening = {i.hard} /\ Floor \subseteq i.hard

VerifyArtifact(i, pdb, m) == /\ HardeningOk(i) /\ CapabilitiesOk(i) /\ ImportsOk(i)
                             /\ CapsOk(i, m) /\ LinkOk(i, pdb) /\ ManifestOk(i)

(* stamp-time: the header and every debug entry take the commit's date, a  *)
(* REPRO entry becomes a null one; the resource directory is not touched.  *)
Stamped(i) == [i EXCEPT !.coff = Epoch,
                 !.debug = {CASE e.type = "repro" -> [type |-> "null", ts |-> 0]
                              [] e.type = "null" -> e
                              [] OTHER -> [e EXCEPT !.ts = Epoch] : e \in @}]

(* verify-timestamp *)
VerifyTimestamp(i) == /\ i.coff # 0 /\ i.coff >= FirstCommit /\ i.coff <= Ceiling
                      /\ \A e \in i.debug : e.type # "repro" /\ (e.type # "null" => e.ts = i.coff)
                      /\ i.rsrc \in {0, i.coff}
=============================================================================
