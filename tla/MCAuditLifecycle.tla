-------------------------- MODULE MCAuditLifecycle --------------------------
(* Small instances of AuditLifecycle.                                      *)
EXTENDS AuditLifecycle, TLC

CONSTANTS c1, l1, l2, k1, k2, good, custom

\* Two lines the vendor's parser does not recognise.
TwoLines == c1 :> {l1, l2}

\* They have the same pattern, or different ones.
SharedKey == c1 :> (l1 :> k1 @@ l2 :> k1)
OwnKeys == c1 :> (l1 :> k1 @@ l2 :> k2)

\* FortiOS and generic normalizers hold schema fields only; "custom" is none.
SchemaOnly == c1 :> {good}

Symmetry == Permutations(Worker) \cup Permutations(Request)
=============================================================================
