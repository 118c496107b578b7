---------------------------- MODULE MCGroupEpoch ----------------------------
(***************************************************************************)
(* Instances of GroupEpoch: ann has one device, bob up to three; bob2 and  *)
(* bob3 are the ones that may be registered and revoked.                   *)
(***************************************************************************)
EXTENDS GroupEpoch

CONSTANTS ann, bob, ann1, bob1, bob2, bob3, m1, m2, r1, r2

MCOwner == [d \in Device |-> IF d = ann1 THEN ann ELSE bob]
MCSenderTwo == [m \in Msg |-> IF m = m1 THEN ann1 ELSE bob1]
MCSenderOne == [m \in Msg |-> ann1]
=============================================================================
