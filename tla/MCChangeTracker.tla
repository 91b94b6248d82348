-------------------------- MODULE MCChangeTracker --------------------------
(* Transactions with one change, and with two changes of one or two models. *)
EXTENDS ChangeTracker, Functions

MCLists == {f \in [Model -> 0..2] : FoldFunction(+, 0, f) \in 1..2}
============================================================================
