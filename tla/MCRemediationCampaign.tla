----------------------- MODULE MCRemediationCampaign -----------------------
(* Small instances of RemediationCampaign.                                 *)
EXTENDS RemediationCampaign, TLC

CONSTANTS k1, k2, c1, c2, t1, t2, f1, f2

\* Campaigns for different controls, with a target each.
Controls == (c1 :> k1 @@ c2 :> k2)
Owners == (t1 :> c1 @@ t2 :> c2)
Findings == (t1 :> f1 @@ t2 :> f2)

ControlMap == [c \in Campaign |-> Controls[c]]
OwnerMap == [t \in Target |-> Owners[t]]
FindingMap == [t \in Target |-> Findings[t]]

Symmetry == Permutations(Worker) \cup Permutations(Request)
=============================================================================
