------------------------------- MODULE Footing -------------------------------
(***************************************************************************)
(* The decisions a start of the executable makes before it does anything:  *)
(* the role its arguments name (main.rs), the process mitigations of that  *)
(* role (win_harden.rs), the trust it has in the hardware (consent.rs),    *)
(* the footing of the service (install.rs, app.rs) and the privileges left *)
(* in its token.  All are functions of what was read; nothing is kept.     *)
(***************************************************************************)
EXTENDS Naturals, FiniteSets

Locks == {"ms_signed_only", "no_child", "no_win32k", "no_dynamic_code"}

RoleOf(cmd) ==
  CASE cmd = "--service" -> "Service"
    [] cmd = "" -> "Tray"
    [] cmd \in {"--install-svc", "--update-svc"} -> "ElevatedSetup"
    [] cmd \in {"install", "stop", "start", "uninstall", "--stop-svc", "--start-svc",
                "--preview-onboarding"} -> "Launcher"
    [] OTHER -> "TextOnly"

ProfileFor == [Service |-> Locks,
               Tray |-> {"no_child"},
               ElevatedSetup |-> {"ms_signed_only"},
               Launcher |-> {},
               TextOnly |-> Locks \ {"ms_signed_only"}]

(* Changed form: the tray's no-child lock is engaged at once.              *)
HardenAtOnce(role) == ProfileFor[role]

(* harden_for_role: what is engaged before the role does any work.  The    *)
(* tray's no-child lock waits for tray::run, since the process may still   *)
(* have to start the elevated helper.                                      *)
HardenForRole(role) == IF role = "Tray" THEN ProfileFor[role] \ {"no_child"}
                       ELSE ProfileFor[role]
-----------------------------------------------------------------------------
(* A hardware fingerprint: the manufacturer, the product and board as one, *)
(* the firmware version.                                                   *)
IsHp(hw) == hw.mfg = "HP"
KnownGood(hw) == IsHp(hw) /\ hw.board = "8BE5" /\ hw.bios \in {"F.25", "F.26"}
SameMachine(a, b) == a.board = b.board

(* classify: accepted is a set with at most one fingerprint.               *)
Consent(hw, accepted) ==
  IF KnownGood(hw) \/ hw \in accepted THEN "Trusted"
  ELSE IF \E a \in accepted : SameMachine(a, hw) THEN "FirmwareChanged" ELSE "NeedsPrompt"
-----------------------------------------------------------------------------
(* image_write_restricted_at: no entry of the access list that applies to  *)
(* the file lets an unprivileged principal write.  Neither an unreadable   *)
(* list nor a null one passes.                                             *)
WriteRestricted(dacl) ==
  /\ dacl.kind = "list"
  /\ \A ace \in dacl.aces : ace.allow /\ ~ace.inheritOnly /\ ace.writes => ace.privileged

(* strip_token_privileges_except: what remains in a token of which the     *)
(* privileges in stuck resist removal, and what of that is beyond the set. *)
Stripped(held, keep, stuck) == held \cap (keep \cup stuck)
Extras(held, keep, stuck) == Stripped(held, keep, stuck) \ keep
=============================================================================
