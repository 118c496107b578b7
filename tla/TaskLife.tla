------------------------------ MODULE TaskLife ------------------------------
(***************************************************************************)
(* What the workflow of a task promises, whoever asks and whatever runs at *)
(* the same time: work is closed only after its holder handed it in, what  *)
(* is void stays void, and work under review or closed changes hands only  *)
(* by starting again.                                                      *)
(***************************************************************************)
CONSTANTS Member, Nobody

VARIABLES stage, holder

life == <<stage, holder>>

Init == stage = "none" /\ holder = Nobody

\* A task is given to somebody, its holder or another, and starts again.
Give(m) ==
    /\ stage # "void"
    /\ stage' = "open" /\ holder' = m

HandIn == stage = "open" /\ stage' = "review" /\ UNCHANGED holder

Decide == stage = "review" /\ stage' \in {"open", "closed"} /\ UNCHANGED holder

Void == stage \in {"open", "review"} /\ stage' = "void" /\ UNCHANGED holder

Next == (\E m \in Member : Give(m)) \/ HandIn \/ Decide \/ Void

Spec == Init /\ [][Next]_life
=============================================================================
