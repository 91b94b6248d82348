------------------------ MODULE MCSecureDataManager ------------------------
(***************************************************************************)
(* A context with one resource "mine" the user may control through the     *)
(* authorization "acl", one resource "other" without any, three blank      *)
(* nodes and one literal.                                                  *)
(***************************************************************************)
EXTENDS SecureDataManager

CONSTANTS mine, other, acl, b1, b2, b3, lit

MCNamed == {user, mine, other, acl, ModeControl, ModeWrite, ModeAppend}
MCBlank == {b1, b2, b3}

St(s, p, o) == [s |-> s, p |-> p, o |-> o]
Ins(s, p, o) == [add |-> TRUE, s |-> s, p |-> p, o |-> o]
Del(s, p, o) == [add |-> FALSE, s |-> s, p |-> p, o |-> o]

Authorization == {St(acl, "accessTo", mine), St(acl, "mode", ModeControl)}

\* A chain of somebody else's; a node that blank nodes of either refer to.  The
\* user's own chains are built by the batches.
MCStores ==
  {Authorization \cup {St(other, "link", b1), St(b1, "link", b2), St(b2, "link", lit)},
   Authorization \cup {St(other, "link", b3), St(b3, "link", b2), St(b1, "link", b2)}}

MCBatches ==
  {<<Ins(mine, "link", b1)>>,
   <<Ins(b1, "link", b2)>>,
   <<Ins(b3, "accessTo", mine), Ins(b3, "link", b2)>>,
   <<Ins(b1, "link", b1), Ins(b1, "link", other)>>,
   <<Ins(acl, "accessTo", other)>>,
   <<Ins(other, "link", lit)>>,
   <<Del(b1, "any", Null)>>,
   <<Del(b2, "link", lit)>>,
   <<Del(Null, "link", b2)>>}

\* Nothing but the authorization, and two blank nodes that refer to each other.
BareStores == {Authorization}
CycleBatches == {<<Ins(b1, "link", b2), Ins(b2, "link", b1)>>, <<Ins(mine, "link", b1)>>}

\* A new node that refers to somebody else's resource, a link to it, and a
\* change of that resource.
GrantBatches ==
  {<<Ins(b1, "link", other)>>, <<Ins(mine, "link", b1)>>, <<Ins(other, "link", lit)>>}

============================================================================
