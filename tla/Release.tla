------------------------------ MODULE Release ------------------------------
(***************************************************************************)
(* A release: the jobs of release.yml and the xtask commands they run, from*)
(* the tag to the published assets.  Between jobs the bytes pass through   *)
(* the artifact store, which may hand back others.                         *)
(***************************************************************************)
EXTENDS Image

CONSTANT Images, Pdbs      \* what a linker may produce

(* A linker signs nothing. *)
ImageRecord == [hard : SUBSET STRING, dlls : SUBSET STRING, functions : SUBSET STRING,
                view : Pdbs, comctl : BOOLEAN, coff : Nat, rsrc : Nat, signed : {FALSE},
                debug : SUBSET [type : STRING, ts : Nat]]
ASSUME ImagesAssumption == Images \subseteq ImageRecord

VARIABLES stage,           \* the step that was reached
          exe, pdb,        \* the bytes at hand
          manifest,        \* the capability manifest of the tagged commit
          signing,         \* the repository's SIGNING_ENABLED, one value for the whole run
          outputs          \* digests the jobs handed on: run metadata, not artifacts
releaseVars == <<stage, exe, pdb, manifest, signing, outputs>>

Bytes == [exe |-> exe, pdb |-> pdb]
To(from, ok, next) == stage = from /\ stage' = IF ok THEN next ELSE "failed"
Kept == UNCHANGED <<exe, pdb, manifest, signing, outputs>>

(* source-gate: the tagged commit is green and its version is the tag's.   *)
SourceGate == \E green \in BOOLEAN : To("tagged", green, "gated") /\ Kept

(* release-attest builds the image and checks it, with the policy and the  *)
(* advisory checks of both dependency trees.                               *)
Attest == \E i \in Images, p \in Pdbs, policy \in BOOLEAN :
            /\ To("gated", policy /\ VerifyArtifact(i, p, manifest), "attested")
            /\ exe' = i /\ pdb' = p /\ UNCHANGED <<manifest, signing, outputs>>
StampTime == To("attested", TRUE, "stamped") /\ exe' = Stamped(exe)
             /\ UNCHANGED <<pdb, manifest, signing, outputs>>
Seal(job) == outputs' = [outputs EXCEPT ![job] = {Bytes}]
StageDist == To("stamped", TRUE, "staged") /\ Seal("build")
             /\ UNCHANGED <<exe, pdb, manifest, signing>>
PreSign == To("staged", VerifyArtifact(exe, pdb, manifest) /\ VerifyTimestamp(exe), "uploaded")
           /\ Kept

(* The signing service is asked only where signing is switched on, and its *)
(* signature is asserted then and not otherwise.                           *)
Sealed(ok) == \E signed \in BOOLEAN :
  /\ To("uploaded", ok /\ (signing => signed), "sealed")
  /\ exe' = [exe EXCEPT !.signed = @ \/ signing]
  /\ outputs' = [outputs EXCEPT !.sign = {[exe |-> exe', pdb |-> pdb]}]
  /\ UNCHANGED <<pdb, manifest, signing>>
(* Changed form: the signing job takes what it downloads.                  *)
SignUnasked == Sealed(TRUE)
(* sign: the incoming bytes are the build's outputs; sign them and seal.   *)
SignImage == Sealed(outputs.build = {Bytes})

(* verify: on the bytes of the sign job, after its own verifier's digest.  *)
Verify == /\ \E own \in BOOLEAN :
               To("sealed", /\ own /\ outputs.sign = {Bytes}
                            /\ VerifyArtifact(exe, pdb, manifest) /\ VerifyTimestamp(exe)
                            /\ signing => exe.signed, "verified")
          /\ Kept

(* The artifact store returns other bytes than were uploaded.              *)
OtherBytes == \E i \in Images, p \in Pdbs, s \in BOOLEAN :
                exe' = [Stamped(i) EXCEPT !.signed = s] /\ pdb' = p
Swap == /\ stage \in {"uploaded", "sealed"} /\ OtherBytes
        /\ UNCHANGED <<stage, manifest, signing, outputs>>

(* publish: takes the artifact from the store once more, and compares no   *)
(* digest with the verify job's; the attestations or the release may fail. *)
Publish == /\ \E passed \in BOOLEAN : To("verified", passed, "published")
           /\ OtherBytes \/ UNCHANGED <<exe, pdb>>
           /\ UNCHANGED <<manifest, signing, outputs>>

ReleaseInit == /\ stage = "tagged" /\ manifest \in Manifests /\ signing \in BOOLEAN
               /\ exe \in Images /\ pdb \in Pdbs /\ outputs = [build |-> {}, sign |-> {}]
ReleaseIdle == /\ stage = "idle" /\ exe = "none" /\ pdb = "none"
               /\ manifest = "none" /\ signing = FALSE /\ outputs = "none"
ReleaseNext == SourceGate \/ Attest \/ StampTime \/ StageDist \/ PreSign \/ SignImage \/ Verify
               \/ Swap \/ Publish

(* release.yml, release-attest, verify-artifact, verify-timestamp: what the*)
(* verify job accepts is the image this build stamped, signed exactly when *)
(* signing is switched on, with every mitigation and import as required    *)
(* whatever the manifest says, one date throughout, and its own debug      *)
(* information.  It says nothing of what publish downloads afterwards.     *)
VerifiedIsBuilt ==
  stage = "verified" =>
    /\ exe.signed = signing
    /\ outputs.build = {[exe |-> [exe EXCEPT !.signed = FALSE], pdb |-> pdb]}
    /\ Required \subseteq exe.hard /\ exe.dlls \ ApiSets = Golden
    /\ exe.functions \cap HighRisk = {} /\ exe.view = pdb /\ exe.comctl
    /\ exe.coff = Epoch
    /\ \A e \in exe.debug : e.type # "repro" /\ (e.type = "null" \/ e.ts = Epoch)
=============================================================================
