--------------------------- MODULE CampaignPromise ---------------------------
(***************************************************************************)
(* What remediation promises, without targets, workers, messages, locks or *)
(* polls: a device is changed only for a finding someone has approved, an  *)
(* approval is never forgotten, nothing but an approval makes a campaign   *)
(* approved, and a campaign is completed only when each of its findings    *)
(* has been changed and read back or is clean.                             *)
(***************************************************************************)
CONSTANTS Campaign, Finding, FindingsOf, Local

VARIABLES
  phase,    \* where each campaign is
  consent,  \* findings whose change an owner has approved
  reached,  \* findings whose commands got to the device since that approval
  changed,  \* findings whose device was read back after the change
  clean     \* findings a newer audit of the device no longer has

vars == <<phase, consent, reached, changed, clean>>

Waiting == {"absent", "pending_approval"}
Underway == {"executing", "partially_completed", "failed"}

Init ==
  /\ phase = [c \in Campaign |-> "absent"]
  /\ consent = {} /\ reached = {} /\ changed = {} /\ clean = {}

Plan(c) ==
  /\ phase[c] = "absent"
  /\ phase' = [phase EXCEPT ![c] = "pending_approval"]
  /\ UNCHANGED <<consent, reached, changed, clean>>

\* A renewed approval lets the commands be sent again.
Consent(F) ==
  /\ consent' = consent \cup F
  /\ \E R \in SUBSET F : reached' = reached \ R
  /\ UNCHANGED <<changed, clean>>

\* An approval counts whatever became of the campaign since it was asked for.
Approve(c) ==
  /\ phase[c] # "absent"
  /\ phase' = [phase EXCEPT ![c] = "approved"]
  /\ Consent(FindingsOf[c])

ApproveOne(f) == Local /\ Consent({f}) /\ UNCHANGED phase

Reach(f) ==
  /\ f \in consent
  /\ reached' = reached \cup {f}
  /\ UNCHANGED <<phase, consent, changed, clean>>

\* The change was verified and its snapshot kept.
Change(f) ==
  /\ f \in consent
  /\ changed' = changed \cup {f}
  /\ UNCHANGED <<phase, consent, reached, clean>>

Pass(f) ==
  /\ clean' = clean \cup {f}
  /\ UNCHANGED <<phase, consent, reached, changed>>

\* An approved campaign runs, is judged, and may run again.
Work(c) ==
  /\ phase[c] \notin Waiting
  /\ \E p \in Underway : phase' = [phase EXCEPT ![c] = p]
  /\ UNCHANGED <<consent, reached, changed, clean>>

Complete(c) ==
  /\ phase[c] \notin Waiting
  /\ FindingsOf[c] \subseteq changed \cup clean
  /\ phase' = [phase EXCEPT ![c] = "completed"]
  /\ UNCHANGED <<consent, reached, changed, clean>>

Next ==
  \/ \E c \in Campaign : Plan(c) \/ Approve(c) \/ Work(c) \/ Complete(c)
  \/ \E f \in Finding : ApproveOne(f) \/ Reach(f) \/ Change(f) \/ Pass(f)

Spec == Init /\ [][Next]_vars
=============================================================================
