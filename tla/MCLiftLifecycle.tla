-------------------------- MODULE MCLiftLifecycle --------------------------
(* LiftLifecycle for TLC: two requests and two bundles, one of which
   comes and goes. *)
EXTENDS LiftLifecycle

CONSTANTS r1, r2, m1, m2
MCRequest == {r1, r2}
MCBundle == {m1, m2}
MCDeployable == {m1}
MCStartLevel == [b \in MCBundle |-> IF b = m1 THEN 0 ELSE 1]
=============================================================================
