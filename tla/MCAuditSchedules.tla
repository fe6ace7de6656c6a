------------------------- MODULE MCAuditSchedules -------------------------
(* Small instances of AuditSchedules.                                      *)
EXTENDS AuditSchedules, TLC

\* Credentials of one type replace each other.
OneType == [c \in Credential |-> "ssh"]

Plain == [interval |-> FALSE, attach |-> FALSE, credential |-> None, enabled |-> "unset"]
Edits ==
  {[Plain EXCEPT !.enabled = "on"], [Plain EXCEPT !.enabled = "off"],
   [Plain EXCEPT !.interval = TRUE], [Plain EXCEPT !.attach = TRUE]}
  \cup {[Plain EXCEPT !.attach = TRUE, !.credential = c, !.enabled = e] :
         c \in Credential, e \in {"unset", "on"}}

Symmetry == Permutations(Worker) \cup Permutations(Poller)
=============================================================================
