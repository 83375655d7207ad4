----------------------------- MODULE Advisories -----------------------------
(***************************************************************************)
(* What the gate, the freeze and the monitor say of advisories: instances  *)
(* in a lock file, their difference, the refusal rule of a freeze, the     *)
(* verdicts of the three axes, and the ranges of toolchain advisories.     *)
(* A lock is the set of resident releases of the crate of Candidates; an   *)
(* instance is an advisory on a resident release.                          *)
(***************************************************************************)
EXTENDS Candidates

CONSTANTS Ids,       \* advisories
          Affects,   \* the releases each concerns
          ToolVer,   \* the pinned compiler's version
          Feeds      \* what the advisory API may answer for the compiler

VARIABLES db         \* the advisories published so far

(* cargo audit over a lock at the present state of the database: an        *)
(* unparseable answer is no answer, an auditor gone blind finds nothing.   *)
Instances(lock) == {i \in [id : Ids, version : Releases] :
                      i.id \in db /\ i.version \in lock \cap Affects[i.id]}

(* split_regressions: by advisory, not by version; genuine when the        *)
(* advisory is new or has more resident versions than before.              *)
Count(set, id) == Cardinality({i \in set : i.id = id})
Genuine(before, after) == {i \in after \ before :
  Count(before, i.id) = 0 \/ Count(after, i.id) > Count(before, i.id)}

(* Changed form: what the base already had needs no sign-off. *)
VulnCarries(base, head, acks) == (head \ base) \subseteq acks
(* vuln_verdict, with no base for a new tool: added and carried alike need *)
(* an ack; the difference decides the label only.                          *)
VulnVerdict(base, head, acks) == (head \ base) \cup (head \cap base) \subseteq acks

(* mal_verdict and caps_verdict, from the record of the digest at hand:    *)
(* "none" is one that is missing, empty, about other bytes or marked as    *)
(* not evaluated; "signed" one whose every finding has its ack; "unnamed"  *)
(* one that counts detections and lists none: no flag is left without an   *)
(* ack, so it passes with none at all.                                     *)
MalVerdict(t) == t.mal \in {"clean", "signed", "unnamed"}
CapsVerdict(t) == t.caps = "signed"

(* RustVer: a pre-release comes before the release of its number.          *)
Key(v) == 2 * v.n + IF v.pre THEN 0 ELSE 1
Holds(c, v) == LET a == Key(v) b == Key(c.bound)
               IN  CASE c.op = ">=" -> a >= b [] c.op = "<=" -> a <= b
                     [] c.op = "<" -> a < b [] c.op = ">" -> a > b [] c.op = "=" -> a = b
(* A range is a set of clauses; one clause that cannot be read, or no      *)
(* range at all, leaves the advisory unevaluated.                          *)
Readable(range) == range # {} /\ \A c \in range : c.op # "?"
InRange(range, v) == \A c \in range : Holds(c, v)

(* toolchain-advisories: an empty set is a failed fetch.                   *)
ToolchainClean(feed) == feed # {} /\ \A r \in feed : Readable(r) /\ ~InRange(r, ToolVer)
=============================================================================
