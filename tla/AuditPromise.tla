---------------------------- MODULE AuditPromise ----------------------------
(***************************************************************************)
(* What auditing promises, without workers, locks, messages or requests:   *)
(* an operator's approval of a syntax pattern is final, and an audit is    *)
(* complete only when every line its parser did not recognise has an       *)
(* approved field the schema can hold.                                     *)
(***************************************************************************)
CONSTANTS Config, Line, Field, Key, LinesOf, KeyOf, Assignable

VARIABLES
  phase,   \* where each audit is
  book     \* the approved field of each pattern

vars == <<phase, book>>

Open == {"queued", "normalising", "awaiting_training", "compliance_check",
         "failed"}

Init ==
  /\ phase = [c \in Config |-> "absent"]
  /\ book = [k \in Key |-> "none"]

\* The first approval of a pattern; there is no second one.
Approve(k, f) == book[k] = "none" /\ book' = [book EXCEPT ![k] = f]

Submit(c) ==
  /\ phase[c] = "absent"
  /\ phase' = [phase EXCEPT ![c] = "queued"]

\* Work on an open audit; only its upload queues it.
Progress(c) ==
  /\ phase[c] \in Open
  /\ \E p \in Open \ {"queued"} : phase' = [phase EXCEPT ![c] = p]

\* All lines of c are approved.
Complete(c) ==
  /\ phase[c] \in Open \ {"queued"}
  /\ \A l \in LinesOf[c] : book[KeyOf[c][l]] \in Assignable[c]
  /\ phase' = [phase EXCEPT ![c] = "complete"]

\* A complete audit is only run again or failed by its uploader, never paused.
Reopen(c) ==
  /\ phase[c] = "complete"
  /\ \E p \in {"normalising", "failed"} : phase' = [phase EXCEPT ![c] = p]

Next ==
  /\ \/ UNCHANGED book
     \/ \E k \in Key, f \in Field : Approve(k, f)
  /\ \/ UNCHANGED phase
     \/ \E c \in Config : Submit(c) \/ Progress(c) \/ Complete(c) \/ Reopen(c)

Spec == Init /\ [][Next]_vars
=============================================================================
