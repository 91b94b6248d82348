---------------------------- MODULE UnitOfWork ----------------------------
(***************************************************************************)
(* What a data manager promises about a unit of work, whatever its checks  *)
(* are: operations accepted in a transaction are settled one by one while  *)
(* it commits and show in the committed content when none is left.  After  *)
(* a failed commit the transaction is open, with what was settled so far   *)
(* in its content and no operation pending: it may be rolled back or used  *)
(* on.  Outside of a transaction each operation shows when it is settled.  *)
(***************************************************************************)
EXTENDS Naturals

VARIABLES
  base,      \* the committed content
  work,      \* the content the unit of work sees
  phase,     \* "none", "open", "commit", "auto"
  pending    \* the accepted operations that are not settled yet

uvars == <<base, work, phase, pending>>

Start ==
  /\ work = base
  /\ phase = "none"
  /\ pending = {}

Begin ==
  /\ phase = "none" /\ phase' = "open"
  /\ UNCHANGED <<base, work, pending>>

\* Operations are accepted by an open transaction, or start to run at once.
Accept ==
  /\ \/ phase = "open" /\ phase' = "open"
     \/ phase = "none" /\ phase' = "auto"
  /\ pending \subseteq pending'
  /\ UNCHANGED <<base, work>>

Commit ==
  /\ phase = "open" /\ phase' = "commit"
  /\ UNCHANGED <<base, work, pending>>

Running == phase \in {"commit", "auto"}

\* One operation takes effect, and is not pending any more.
Settle ==
  /\ Running
  /\ \E id \in pending : pending' = pending \ {id}
  /\ base' = IF phase = "auto" THEN work' ELSE base
  /\ UNCHANGED phase

\* One operation is replaced by operations that have its effect.
Replace ==
  /\ Running
  /\ \E id \in pending : id \notin pending' /\ pending \ {id} \subseteq pending'
  /\ UNCHANGED <<base, work, phase>>

\* Operations without effect are given up.
Discard ==
  /\ Running
  /\ pending' \subseteq pending
  /\ UNCHANGED <<base, work, phase>>

Fail ==
  /\ Running
  /\ phase' = IF phase = "commit" THEN "open" ELSE "none"
  /\ pending' = {}
  /\ UNCHANGED <<base, work>>

Finish ==
  /\ Running
  /\ pending = {}
  /\ phase' = "none"
  /\ base' = work
  /\ UNCHANGED <<work, pending>>

Rollback ==
  /\ phase = "open"
  /\ phase' = "none"
  /\ work' = base
  /\ pending' = {}
  /\ UNCHANGED base

Step == \/ Begin \/ Accept \/ Commit \/ Settle \/ Replace \/ Discard
        \/ Fail \/ Finish \/ Rollback

Spec == Start /\ [][Step]_uvars

===========================================================================
