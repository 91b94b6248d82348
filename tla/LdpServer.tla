----------------------------- MODULE LdpServer -----------------------------
(***************************************************************************)
(* LdpServer: the requests of several clients for the RDF sources of one   *)
(* container of the LDP server (LDPHelper).  An RDF source is the set of   *)
(* statements about it in the container's model; a weak entity tag, of the *)
(* time slot of the answer and the length of the representation, is all    *)
(* that tells a client's copy from a later one.                            *)
(*                                                                         *)
(* Requests run concurrently, without a lock or a transaction, and each    *)
(* may end with an exception between two steps.  A step is one access to   *)
(* the fields of LDPHelper or to the model.  The handlers allow to create, *)
(* to modify and to delete.  Left out are membership, binary bodies, PATCH *)
(* and the answers; a DELETE with a trailing slash changes no RDF source.  *)
(***************************************************************************)
EXTENDS Naturals, FiniteSets

CONSTANTS
  Client,       \* the clients, and the threads that serve their requests
  Slug,         \* the names POST may ask for
  Size,         \* the numbers of statements a body may have
  Keyed,        \* whether a body may have a dcterms:identifier
  MaxRequests,  \* bound on the requests that change something
  MaxSlot,      \* bound on the time slots
  None

\* POST makes a name of a slug and reqNr.  PUT may ask for one of these names.
Name == Slug \X (0 .. MaxRequests)

\* The body of request n, by its statements; the first gives the type.
Body(n, size, key) ==
  {[by |-> n, nr |-> i, key |-> key /\ i = size] : i \in 1 .. size}

VARIABLES
  reqNr,     \* LDPHelper.reqNr
  rdf,       \* of a name: the statements about it
  pc,        \* what a request does next
  name,      \* the resource it is about, or the slug
  count,     \* the value of reqNr it has read, or the removals left
  body,      \* the statements it still has to add
  seen,      \* what the client got last: of which resource, and its tag
  now,       \* the time slot
  requests,  \* number of requests that change something
  changed    \* (history) of a name: the time slot of its last change

server == <<reqNr, rdf, changed>>
local == <<pc, name, count, body>>
vars == <<reqNr, rdf, pc, name, count, body, seen, now, requests, changed>>

NothingSeen == [name |-> None, stmts |-> {}, read |-> 0, slot |-> 0]

Init ==
  /\ reqNr = 0
  /\ rdf = [x \in Name |-> {}]
  /\ pc = [c \in Client |-> "idle"] /\ name = [c \in Client |-> None]
  /\ count = [c \in Client |-> 0] /\ body = [c \in Client |-> {}]
  /\ seen = [c \in Client |-> NothingSeen]
  /\ now = 0 /\ requests = 0
  /\ changed = [x \in Name |-> 0]

-----------------------------------------------------------------------------
(* The parts the requests are made of *)

\* The resource has the type of an RDF source, its first statement.
Exists(x) == \E st \in rdf[x] : st.nr = 1

Length(stmts) == Cardinality(stmts)

Go(c, step) == pc' = [pc EXCEPT ![c] = step]

Begin(c, step, x, n, stmts) ==
  /\ pc[c] = "idle" /\ requests < MaxRequests
  /\ requests' = requests + 1
  /\ Go(c, step)
  /\ name' = [name EXCEPT ![c] = x]
  /\ count' = [count EXCEPT ![c] = n]
  /\ body' = [body EXCEPT ![c] = stmts]

Bodies == {Body(requests + 1, s, k) : s \in Size, k \in Keyed}

\* The request is answered, or an exception ends it, with what it has done.
End(c) ==
  /\ Go(c, "idle")
  /\ name' = [name EXCEPT ![c] = None]
  /\ count' = [count EXCEPT ![c] = 0] /\ body' = [body EXCEPT ![c] = {}]

Fail(c) ==
  /\ pc[c] # "idle"
  /\ End(c)
  /\ UNCHANGED <<server, seen, now, requests>>

Change(x, stmts) ==
  /\ rdf' = [rdf EXCEPT ![x] = stmts]
  /\ changed' = [changed EXCEPT ![x] = now]

\* Statements are added one by one, in their order.
AddStatement(c) ==
  /\ pc[c] = "add"
  /\ LET st == CHOOSE s \in body[c] : \A t \in body[c] : s.nr <= t.nr IN
     /\ Change(name[c], rdf[name[c]] \cup {st})
     /\ IF body[c] = {st} THEN End(c)
        ELSE body' = [body EXCEPT ![c] = @ \ {st}] /\ UNCHANGED <<pc, name, count>>
  /\ UNCHANGED <<reqNr, seen, now, requests>>

-----------------------------------------------------------------------------
(* Creating *)

\* createContent() starts with reqNr += 1, a read and a write.
Post(c, slug, stmts) ==
  /\ Begin(c, "count", slug, reqNr, stmts)
  /\ UNCHANGED <<server, seen, now>>

\* A PUT for a resource that does not exist.  Its name is that of the URI, or
\* what the header Slug says, which may be the name of an existing resource.
PutNew(c, x, header, stmts) ==
  /\ ~Exists(x)
  /\ Begin(c, "count", IF header = None THEN x ELSE header, reqNr, stmts)
  /\ UNCHANGED <<server, seen, now>>

WriteCount(c) ==
  /\ pc[c] = "count"
  /\ reqNr' = count[c] + 1
  /\ Go(c, "name")
  /\ UNCHANGED <<rdf, changed, name, count, body, seen, now, requests>>

\* resourceName reads reqNr again, unless the request is a PUT.
TakeName(c) ==
  /\ pc[c] = "name"
  /\ Go(c, "add")
  /\ name' = [name EXCEPT ![c] = IF @ \in Name THEN @ ELSE <<@, reqNr>>]
  /\ UNCHANGED <<server, count, body, seen, now, requests>>

-----------------------------------------------------------------------------
(* Reading and replacing *)

\* GET and HEAD: first the content is read, ...
Get(c, x) ==
  /\ pc[c] = "idle" /\ Exists(x)
  /\ Go(c, "tag")
  /\ seen' = [seen EXCEPT ![c] = [name |-> x, stmts |-> rdf[x], read |-> now, slot |-> now]]
  /\ UNCHANGED <<server, name, count, body, now, requests>>

\* ... then, with the answer, the time for its entity tag.
Tag(c) ==
  /\ pc[c] = "tag"
  /\ seen' = [seen EXCEPT ![c].slot = now]
  /\ End(c)
  /\ UNCHANGED <<server, now, requests>>

\* headerMatch(): the tag of the present content is computed; one of its parts
\* must agree with the client's, or the content have a dcterms:identifier.
Matches(c, x) ==
  /\ seen[c].name = x
  /\ \/ seen[c].slot = now
     \/ Length(seen[c].stmts) = Length(rdf[x])
     \/ \E st \in rdf[x] : st.key

\* The client sends the entity tag it got.  Without one, or with one that does
\* not match, the request fails before anything is changed.
Put(c, x, stmts) ==
  /\ Exists(x) /\ Matches(c, x)
  /\ Begin(c, "remove", x, 0, stmts)
  /\ UNCHANGED <<server, seen, now>>

\* update(): removeRecursive(), then the statements of the body are added.
RemoveOld(c) ==
  /\ pc[c] = "remove"
  /\ Change(name[c], {})
  /\ Go(c, "add")
  /\ UNCHANGED <<reqNr, name, count, body, seen, now, requests>>

-----------------------------------------------------------------------------
(* Deleting *)

\* The resource is removed from its model, from the one of its parent and from
\* the one of its container, which are the same here.  If-Match is not asked.
Delete(c, x) ==
  /\ Begin(c, "forget", x, 3, {})
  /\ UNCHANGED <<server, seen, now>>

Forget(c) ==
  /\ pc[c] = "forget"
  /\ Change(name[c], {})
  /\ IF count[c] = 1 THEN End(c)
     ELSE count' = [count EXCEPT ![c] = @ - 1] /\ UNCHANGED <<pc, name, body>>
  /\ UNCHANGED <<reqNr, seen, now, requests>>

-----------------------------------------------------------------------------

Tick ==
  /\ now < MaxSlot /\ now' = now + 1
  /\ UNCHANGED <<server, local, seen, requests>>

Next ==
  \/ Tick
  \/ \E c \in Client :
       \/ \E stmts \in Bodies :
            \/ \E slug \in Slug : Post(c, slug, stmts)
            \/ \E x \in Name, header \in Name \cup {None} : PutNew(c, x, header, stmts)
            \/ \E x \in Name : Put(c, x, stmts)
       \/ \E x \in Name : Get(c, x) \/ Delete(c, x)
       \/ WriteCount(c) \/ TakeName(c) \/ AddStatement(c) \/ Tag(c)
       \/ RemoveOld(c) \/ Forget(c) \/ Fail(c)

Spec == Init /\ [][Next]_vars

-----------------------------------------------------------------------------
(* Properties *)

\* "Avoiding mid-air collisions": what a PUT removes is what its client has
\* read, or differs from it by changes the entity tag is not meant to tell, "the
\* resource considered as modified if the time window between tow modifications
\* is greater than TIME_SLOT and result in changing it's size" (the comments of
\* update() and generateETag()).
NoMidAirCollision ==
  [][\A c \in Client : RemoveOld(c) =>
       LET x == name[c] IN
       \/ rdf[x] = seen[c].stmts
       \/ changed[x] <= seen[c].read
       \/ Length(rdf[x]) = Length(seen[c].stmts)]_vars
=============================================================================
