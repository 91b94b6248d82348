-------------------------- MODULE MCPropertyInput --------------------------
(* An instance of PropertyInput for TLC.  The proposals for "ow" are a      *)
(* property and a prefix, which has a property of its own and a text that   *)
(* is neither; there are none for "own".  "spaced" is "ow" after a space.   *)
EXTENDS PropertyInput

CONSTANTS blank, ow, own, owlns, label, spaced, p1, p2

Found == [content |-> label, resource |-> p1]
Namespace == [content |-> owlns, resource |-> None]
Inside == [content |-> label, resource |-> p2]
Plain == [content |-> own, resource |-> None]

MCText == {blank, ow, own, owlns, label, spaced}
MCNormal == [t \in MCText |-> IF t = spaced THEN ow ELSE t]
MCProposals == [t \in MCText |-> CASE t \in {ow, spaced} -> {Found, Namespace}
                                    [] t = owlns -> {Inside, Plain}
                                    [] OTHER -> {}]
MCProposal == {Found, Namespace, Inside, Plain}
=============================================================================
