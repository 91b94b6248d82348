------------------------- MODULE SecureDataManager -------------------------
(***************************************************************************)
(* SecureDataManager: add and remove of RDF statements in a context where  *)
(* the user's access mode is enilink's WriteRestricted.  Whether a         *)
(* statement may be changed is decided by the mode of its subject: named   *)
(* resources have access control lists (ACLs) in the store, blank nodes    *)
(* inherit the mode of a resource that links to them.  Inside a            *)
(* transaction the operations are queued (class SecureOps) and checked     *)
(* when the transaction commits, because only then the links that make a   *)
(* blank node writable are known; outside of one each call is executed at  *)
(* once.                                                                   *)
(*                                                                         *)
(* The module follows one data manager of one user and one set of          *)
(* contexts, i.e. one SecureOps at a time.  The data manager is used by    *)
(* one thread, so the steps of execute() do not interleave with the        *)
(* user's calls; they are separate actions because each reads the store    *)
(* the previous one left.                                                  *)
(***************************************************************************)
EXTENDS Rdf, Naturals, SequencesExt

CONSTANTS
  user,         \* the user (a named resource) the operations run for
  ModeControl,  \* acl:Control, a named resource
  ModeWrite,    \* acl:Write
  ModeAppend,   \* acl:Append
  NoOp,         \* nextOp = null
  InitStores,   \* the contents a context may start with
  Batches,      \* the argument lists of the add and remove calls
  MaxOps        \* bound on the operations of one unit of work

\* What a call asks for: an added statement or a removed pattern.
Request == [add : {TRUE}, s : Ref, p : Predicate, o : Term]
             \cup [add : {FALSE}, s : Ref \cup {Null},
                   p : Predicate \cup {"any"}, o : Term \cup {Null}]

\* An operation in flight: a request with its number in the unit of work.
Op == [add : {TRUE}, s : Ref, p : Predicate, o : Term, id : Nat]
        \cup [add : {FALSE}, s : Ref \cup {Null},
              p : Predicate \cup {"any"}, o : Term \cup {Null}, id : Nat]

ASSUME UserIsNamed == user \in Named
ASSUME NoOpIsNoOp == NoOp \notin Op
ASSUME StoresAreStores == \A st \in InitStores : st \subseteq Statement /\ IsFiniteSet(st)
ASSUME BatchesAreBatches == Batches \subseteq Seq(Request)
ASSUME MaxOpsIsNat == MaxOps \in Nat

VARIABLES
  base,           \* the committed statements: what other connections read
  store,          \* the statements this connection reads
  phase,          \* "none", "open" (in a transaction), "commit", "auto"
  pc,             \* where execute() is: "ops", "chain", "granted", "refused"
  ops,            \* SecureOps.ops
  checkedOps,     \* SecureOps.checkedOps
  blockedOps,     \* SecureOps.blockedOps
  resourceModes,  \* SecureOps.resourceModes
  nextOp,         \* SecureOps.nextOp
  toUnlock,       \* objects of nextOp loadNextOp() has not passed to unlock() yet
  roots,          \* the roots execute() has not examined yet
  chain,          \* the queue of writeModeFromChain()
  seen,           \* its set of visited nodes
  goal,           \* the resource it was called for
  accepted,       \* (history) number of operations accepted in this unit of work
  done,           \* (history) those applied, replaced by others or dropped
  links,          \* (history) subject-object pairs seen by this unit of work
  ownAcls,        \* (history) blank ACLs writable because nothing refers to them
  granted,        \* (history) resources the store granted access to in this unit
  claimed         \* (history) named objects of its operations on blank nodes

ctl == <<phase, pc>>
searchVars == <<chain, seen, goal>>
hist == <<accepted, done, links, ownAcls, granted, claimed>>
vars == <<base, store, phase, pc, ops, checkedOps, blockedOps, resourceModes,
          nextOp, toUnlock, roots, chain, seen, goal, accepted, done, links, ownAcls,
          granted, claimed>>

-----------------------------------------------------------------------------
(* Reading the store *)

\* The modes some ACL among the statements grants on r.  An accessTo statement
\* stands for an authorization that applies to the user.
ModesIn(r, stmts) ==
  {m.o : m \in {st \in stmts :
                  /\ st.p = "mode"
                  /\ \E a \in stmts : a.s = st.s /\ a.p = "accessTo" /\ a.o = r}}

AclModes(r) == ModesIn(r, store)

\* What the access control lists among the statements let the user change.
Grants(stmts) ==
  {r \in Named : r = user \/ ModesIn(r, stmts) \cap {ModeControl, ModeWrite, ModeAppend} # {}}

\* Mutant of WriteMode: an unknown blank node is taken for writable.
WriteModeTrusting(r) ==
  IF resourceModes[r] # "unknown" THEN resourceModes[r]
  ELSE IF r \in Blank \cup {user} \/ AclModes(r) # {} THEN "MODIFY" ELSE "NONE"

\* writeMode(resource).  The mode ADD of the code's enumeration is never
\* computed: acl:Append yields MODIFY as well.
WriteMode(r) ==
  IF resourceModes[r] # "unknown" THEN resourceModes[r]
  ELSE IF r \in Blank THEN "NONE"
  ELSE IF \/ r = user
          \/ AclModes(r) \cap {ModeControl, ModeWrite, ModeAppend} # {}
       THEN "MODIFY" ELSE "NONE"

\* ... and the cache it leaves behind.
Remember(r) ==
  IF r \in Blank \/ r = user THEN resourceModes
  ELSE [resourceModes EXCEPT ![r] = WriteMode(r)]

NamedObjects(stmts) == {st.o : st \in {x \in stmts : x.s \in Blank /\ x.o \in Named}}
LinksOf(stmts) == {<<st.s, st.o>> : st \in {x \in stmts : x.s \in Ref /\ x.o \in Blank}}

\* Mutant of BlankObjects: unlock() without its test for blank nodes.
AnyObjects(op) ==
  IF op.o = Null THEN {st.o : st \in Matching(op, store)} ELSE {op.o}

\* The objects loadNextOp() passes to unlock(), which ignores named resources.
BlankObjects(op) ==
  (IF op.o = Null THEN {st.o : st \in Matching(op, store)} ELSE {op.o}) \cap Blank

AllBlocked == UNION {ToSet(blockedOps[b]) : b \in Blank}
Ids(s) == {op.id : op \in ToSet(s)}
Numbered(reqs, n) ==
  [i \in DOMAIN reqs |->
     [add |-> reqs[i].add, s |-> reqs[i].s, p |-> reqs[i].p, o |-> reqs[i].o, id |-> n + i]]

-----------------------------------------------------------------------------
(* The user's calls *)

Init ==
  /\ base \in InitStores
  /\ store = base
  /\ phase = "none" /\ pc = "ops"
  /\ ops = <<>> /\ checkedOps = <<>>
  /\ blockedOps = [b \in Blank |-> <<>>]
  /\ resourceModes = [r \in Ref |-> "unknown"]
  /\ nextOp = NoOp /\ toUnlock = {} /\ roots = {}
  /\ chain = <<>> /\ seen = {} /\ goal = Null
  /\ accepted = 0 /\ done = {} /\ links = {} /\ ownAcls = {}
  /\ granted = Grants(store) /\ claimed = {}

\* The SecureOps object is dropped, with everything it knows.
ForgetOps ==
  /\ pc' = "ops"
  /\ ops' = <<>> /\ checkedOps' = <<>>
  /\ blockedOps' = [b \in Blank |-> <<>>]
  /\ resourceModes' = [r \in Ref |-> "unknown"]
  /\ nextOp' = NoOp /\ toUnlock' = {} /\ roots' = {}
  /\ chain' = <<>> /\ seen' = {} /\ goal' = Null
  /\ accepted' = 0 /\ done' = {} /\ links' = {} /\ ownAcls' = {}
  /\ granted' = Grants(store') /\ claimed' = {}

Begin ==
  /\ phase = "none"
  /\ phase' = "open"
  /\ UNCHANGED <<base, store, pc, ops, checkedOps, blockedOps, resourceModes, nextOp,
                 toUnlock, roots, searchVars, hist>>

\* add(...) and remove(...): queued in a transaction, executed at once without.
Call(batch) ==
  /\ phase \in {"none", "open"}
  /\ accepted + Len(batch) <= MaxOps
  /\ phase' = IF phase = "none" THEN "auto" ELSE "open"
  /\ ops' = ops \o Numbered(batch, accepted)
  /\ accepted' = accepted + Len(batch)
  /\ links' = links \cup LinksOf(ToSet(batch))
                    \cup (IF phase = "none" THEN LinksOf(store) ELSE {})
  /\ claimed' = claimed \cup NamedObjects(ToSet(batch))
  /\ UNCHANGED <<base, store, pc, checkedOps, blockedOps, resourceModes, nextOp, toUnlock,
                 roots, searchVars, done, ownAcls, granted>>

\* SecureTransaction.commit() starts to execute what was queued.
Commit ==
  /\ phase = "open"
  /\ phase' = "commit"
  /\ links' = links \cup LinksOf(store)
  /\ UNCHANGED <<base, store, pc, ops, checkedOps, blockedOps, resourceModes, nextOp,
                 toUnlock, roots, searchVars, accepted, done, ownAcls, granted, claimed>>

\* rollback() of an open transaction, also of one with a failed commit.
Rollback ==
  /\ phase = "open"
  /\ phase' = "none"
  /\ store' = base
  /\ ForgetOps
  /\ UNCHANGED base

-----------------------------------------------------------------------------
(* SecureOps.execute() *)

Executing == phase \in {"commit", "auto"}

\* Mutant of Fail: super.commit() in the finally block of commit().
FailCommits ==
  /\ phase' = "none"
  /\ base' = store
  /\ UNCHANGED store
  /\ ForgetOps

\* An exception leaves execute().  Inside commit() the operations are cleared
\* and the delegate's transaction stays active, with what was applied so far:
\* nothing keeps the caller from going on with it.  Outside of a transaction
\* the SecureOps is garbage.
Fail ==
  /\ phase' = IF phase = "commit" THEN "open" ELSE "none"
  /\ UNCHANGED <<base, store>>
  /\ ForgetOps

\* Mutant of Unlock: what was blocked on the resource is forgotten.
UnlockForgets(r) ==
  /\ blockedOps' = [blockedOps EXCEPT ![r] = <<>>]
  /\ resourceModes' = [resourceModes EXCEPT ![r] = "MODIFY"]
  /\ UNCHANGED checkedOps

\* unlock(resource, MODIFY).  Its exception for remove operations is never
\* thrown: no caller passes a mode other than MODIFY.
Unlock(r) ==
  /\ checkedOps' = checkedOps \o blockedOps[r]
  /\ blockedOps' = [blockedOps EXCEPT ![r] = <<>>]
  /\ resourceModes' =
       [n \in Ref |-> IF n = r \/ \E op \in ToSet(blockedOps[r]) : op.o = n
                      THEN "MODIFY" ELSE resourceModes[n]]

\* writeModeFromChain(r) starts.
Search(r) ==
  /\ pc' = "chain"
  /\ goal' = r
  /\ chain' = <<r>>
  /\ seen' = {r}

\* loadNextOp() has chosen an operation: its objects are unlocked before it runs.
Load(op) ==
  /\ nextOp' = op
  /\ toUnlock' = BlankObjects(op)

Flushing == Executing /\ pc = "ops" /\ roots = {}
Idle == nextOp = NoOp /\ checkedOps = <<>>

UnlockObject ==
  /\ Flushing
  /\ \E r \in toUnlock : Unlock(r) /\ toUnlock' = toUnlock \ {r}
  /\ UNCHANGED <<base, store, ctl, ops, nextOp, roots, searchVars, hist>>

\* The delegate consumes the operation flushOperations() hands it.
StoreAfter(op) ==
  IF op.add THEN store \cup {[s |-> op.s, p |-> op.p, o |-> op.o]}
  ELSE store \ Matching(op, store)

ApplyNextOp ==
  /\ Flushing
  /\ nextOp # NoOp /\ toUnlock = {}
  /\ store' = StoreAfter(nextOp)
  /\ base' = IF phase = "auto" THEN store' ELSE base
  /\ done' = done \cup {nextOp.id}
  /\ granted' = granted \cup Grants(store')
  /\ nextOp' = NoOp
  /\ UNCHANGED <<ctl, ops, checkedOps, blockedOps, resourceModes, toUnlock, roots,
                 searchVars, accepted, links, ownAcls, claimed>>

LoadChecked ==
  /\ Flushing
  /\ nextOp = NoOp /\ checkedOps # <<>>
  /\ Load(Head(checkedOps))
  /\ checkedOps' = Tail(checkedOps)
  /\ UNCHANGED <<base, store, ctl, ops, blockedOps, resourceModes, roots, searchVars, hist>>

\* The guards of the operations that come from the user, in the code's order.
MustExpand(op) == ~op.add /\ (op.s = Null \/ (op.o = Null /\ op.p = "accessTo"))

MustSearch(op) ==
  /\ op.add /\ op.o \in Blank
  /\ resourceModes[op.o] = "unknown"
  /\ IsObject(op.o, store)

AclDenied(op) ==
  \/ op.add /\ op.p = "accessToClass"
  \/ /\ op.p = "accessTo"
     /\ ~(op.o \in Ref /\ (op.o = user \/ ModeControl \in AclModes(op.o)))

FreshAcl(op) == op.p = "accessTo" /\ op.s \in Blank /\ ~IsObject(op.s, store)

TakesOp == Flushing /\ Idle /\ ops # <<>>

\* A remove pattern without a subject is replaced by the statements it matches.
ExpandPattern ==
  /\ TakesOp
  /\ MustExpand(Head(ops))
  /\ \E found \in SetToSeqs(Matching(Head(ops), store)) :
       LET removes == [i \in DOMAIN found |->
                         [add |-> FALSE, s |-> found[i].s, p |-> found[i].p, o |-> found[i].o]]
       IN  /\ ops' = Numbered(removes, accepted) \o Tail(ops)
           /\ accepted' = accepted + Len(found)
  /\ done' = done \cup {Head(ops).id}
  /\ claimed' = claimed \cup NamedObjects(Matching(Head(ops), store))
  /\ UNCHANGED <<base, store, ctl, checkedOps, blockedOps, resourceModes, nextOp, toUnlock,
                 roots, searchVars, links, ownAcls, granted>>

\* An added reference to a stored blank node needs a chain to that node.
SearchObject ==
  /\ TakesOp
  /\ ~MustExpand(Head(ops)) /\ MustSearch(Head(ops))
  /\ Search(Head(ops).o)
  /\ UNCHANGED <<base, store, phase, ops, checkedOps, blockedOps, resourceModes, nextOp,
                 toUnlock, roots, hist>>

Checks(op) == ~MustExpand(op) /\ ~MustSearch(op)

LoadFreshAcl ==
  /\ TakesOp
  /\ LET op == Head(ops) IN
       /\ Checks(op) /\ ~AclDenied(op) /\ FreshAcl(op)
       /\ resourceModes' = [resourceModes EXCEPT ![op.s] = "MODIFY"]
       /\ ownAcls' = ownAcls \cup {op.s}
       /\ Load(op)
  /\ ops' = Tail(ops)
  /\ UNCHANGED <<base, store, ctl, checkedOps, blockedOps, roots, searchVars, accepted, done,
                 links, granted, claimed>>

LoadWritable ==
  /\ TakesOp
  /\ LET op == Head(ops) IN
       /\ Checks(op) /\ ~AclDenied(op) /\ ~FreshAcl(op)
       /\ WriteMode(op.s) = "MODIFY"
       /\ resourceModes' = Remember(op.s)
       /\ Load(op)
  /\ ops' = Tail(ops)
  /\ UNCHANGED <<base, store, ctl, checkedOps, blockedOps, roots, searchVars, hist>>

\* block(op): the mode of a blank subject is not known yet.
Block ==
  /\ TakesOp
  /\ LET op == Head(ops) IN
       /\ Checks(op) /\ ~AclDenied(op) /\ ~FreshAcl(op)
       /\ op.s \in Blank /\ WriteMode(op.s) = "NONE"
       /\ blockedOps' = [blockedOps EXCEPT ![op.s] = Append(@, op)]
  /\ ops' = Tail(ops)
  /\ UNCHANGED <<base, store, ctl, checkedOps, resourceModes, nextOp, toUnlock, roots,
                 searchVars, hist>>

DenyOp ==
  /\ TakesOp
  /\ LET op == Head(ops) IN
       /\ Checks(op)
       /\ \/ AclDenied(op)
          \/ ~FreshAcl(op) /\ op.s \in Named /\ WriteMode(op.s) = "NONE"
  /\ Fail

-----------------------------------------------------------------------------
(* execute(): the blocked operations *)

\* Mutant of Roots: a reference of a node to itself counts as well.
RootsNotSelf ==
  {b \in Blank : blockedOps[b] # <<>>} \ {op.o : op \in AllBlocked}

\* Blocked subjects that no other blocked operation refers to.
Roots ==
  {b \in Blank : blockedOps[b] # <<>>}
    \ {op.o : op \in {x \in AllBlocked : x.o # x.s}}

Drained == Idle /\ ops = <<>> /\ roots = {} /\ \A b \in Blank : blockedOps[b] = <<>>

FindRoots ==
  /\ Flushing /\ Idle /\ ops = <<>>
  /\ \E b \in Blank : blockedOps[b] # <<>>
  /\ roots' = Roots
  /\ UNCHANGED <<base, store, ctl, ops, checkedOps, blockedOps, resourceModes, nextOp,
                 toUnlock, searchVars, hist>>

ExamineRoot(r) ==
  /\ Executing /\ pc = "ops" /\ r \in roots
  /\ IF WriteMode(r) # "NONE"
     THEN /\ pc' = "granted" /\ goal' = r
          /\ UNCHANGED <<chain, seen>>
     ELSE Search(r)
  /\ UNCHANGED <<base, store, phase, ops, checkedOps, blockedOps, resourceModes, nextOp,
                 toUnlock, roots, hist>>

UnlockRoot ==
  /\ pc = "granted"
  /\ Unlock(goal)
  /\ pc' = "ops"
  /\ roots' = roots \ {goal}
  /\ UNCHANGED <<base, store, phase, ops, nextOp, toUnlock, searchVars, hist>>

\* Removing what is not there is no error, whoever asks for it.
Droppable(r) ==
  /\ \A op \in ToSet(blockedOps[r]) : ~op.add
  /\ ~IsSubject(r, store)

DropRoot ==
  /\ pc = "refused" /\ roots # {} /\ Droppable(goal)
  /\ blockedOps' = [blockedOps EXCEPT ![goal] = <<>>]
  /\ done' = done \cup Ids(blockedOps[goal])
  /\ roots' = roots \ {goal}
  /\ pc' = "ops"
  /\ UNCHANGED <<base, store, phase, ops, checkedOps, resourceModes, nextOp, toUnlock,
                 searchVars, accepted, links, ownAcls, granted, claimed>>

\* Neither the object of an added statement nor a root may be changed.
Refuse ==
  /\ pc = "refused"
  /\ roots # {} => ~Droppable(goal)
  /\ Fail

-----------------------------------------------------------------------------
(* writeModeFromChain(): breadth first, against the direction of the links *)

Preds == {st.s : st \in {x \in store : x.o = Head(chain)}}
Unknown(r) == r \in Blank /\ resourceModes[r] = "unknown"

SetModes(nodes, cache, mode) ==
  [n \in Ref |-> IF n \in nodes THEN mode ELSE cache[n]]

\* The first predecessor with a known mode, or a name, decides for every node
\* visited so far.  The store returns the predecessors in any order.
ChainEnds ==
  /\ pc = "chain"
  /\ \E s \in {x \in Preds : ~Unknown(x)}, before \in SUBSET {x \in Preds : Unknown(x)} :
       /\ resourceModes' = SetModes(seen \cup before, Remember(s), WriteMode(s))
       /\ pc' = IF WriteMode(s) = "NONE" THEN "refused"
                ELSE IF roots = {} THEN "ops" ELSE "granted"
  /\ chain' = <<>> /\ seen' = {}
  /\ UNCHANGED <<base, store, phase, ops, checkedOps, blockedOps, nextOp, toUnlock, roots,
                 goal, hist>>

ChainGrows ==
  /\ pc = "chain"
  /\ \A s \in Preds : Unknown(s)
  /\ \E more \in SetToSeqs(Preds \ seen) : chain' = Tail(chain) \o more
  /\ chain' # <<>>
  /\ seen' = seen \cup Preds
  /\ UNCHANGED <<base, store, ctl, ops, checkedOps, blockedOps, resourceModes, nextOp,
                 toUnlock, roots, goal, hist>>

ChainExhausted ==
  /\ pc = "chain"
  /\ Len(chain) = 1 /\ Preds \subseteq seen
  /\ \A s \in Preds : Unknown(s)
  /\ resourceModes' = SetModes(seen, resourceModes, "NONE")
  /\ pc' = "refused"
  /\ chain' = <<>> /\ seen' = {}
  /\ UNCHANGED <<base, store, phase, ops, checkedOps, blockedOps, nextOp, toUnlock, roots,
                 goal, hist>>

-----------------------------------------------------------------------------
(* The end of execute() *)

\* SecureTransaction.commit() reaches super.commit().
CommitDelegate ==
  /\ phase = "commit" /\ pc = "ops" /\ Drained
  /\ phase' = "none"
  /\ base' = store
  /\ UNCHANGED store
  /\ ForgetOps

Return ==
  /\ phase = "auto" /\ pc = "ops" /\ Drained
  /\ phase' = "none"
  /\ UNCHANGED <<base, store>>
  /\ ForgetOps

Execute ==
  \/ UnlockObject \/ ApplyNextOp \/ LoadChecked \/ ExpandPattern \/ SearchObject
  \/ LoadFreshAcl \/ LoadWritable \/ Block \/ DenyOp
  \/ FindRoots \/ (\E r \in Blank : ExamineRoot(r)) \/ UnlockRoot \/ DropRoot \/ Refuse
  \/ ChainEnds \/ ChainGrows \/ ChainExhausted
  \/ CommitDelegate \/ Return

Next ==
  \/ Begin
  \/ \E batch \in Batches : Call(batch)
  \/ Commit
  \/ Rollback
  \/ Execute

\* A call runs on the user's thread until it returns or throws.
Spec == Init /\ [][Next]_vars /\ WF_vars(Execute)

-----------------------------------------------------------------------------
(* Properties *)

TypeOK ==
  /\ base \subseteq Statement /\ store \subseteq Statement
  /\ phase \in {"none", "open", "commit", "auto"}
  /\ pc \in {"ops", "chain", "granted", "refused"}
  /\ ops \in Seq(Op) /\ checkedOps \in Seq(Op)
  /\ blockedOps \in [Blank -> Seq(Op)]
  /\ resourceModes \in [Ref -> {"unknown", "MODIFY", "NONE"}]
  /\ nextOp \in Op \cup {NoOp}
  /\ toUnlock \subseteq Blank /\ roots \subseteq Blank
  /\ chain \in Seq(Blank) /\ seen \subseteq Blank
  /\ goal \in Blank \cup {Null}
  /\ accepted \in Nat /\ done \subseteq Nat
  /\ links \subseteq Ref \X Blank
  /\ ownAcls \subseteq Blank
  /\ granted \subseteq Named /\ claimed \subseteq Named

NextIds == IF nextOp = NoOp THEN {} ELSE {nextOp.id}
BlockedIds == UNION {Ids(blockedOps[b]) : b \in Blank}
PendingIds == Ids(ops) \cup Ids(checkedOps) \cup BlockedIds \cup NextIds

\* No operation is lost between ops, blockedOps, checkedOps and nextOp, and
\* none is left behind in one of them after it was applied: what a call hands
\* to SecureOps is either waiting in one of the queues or done, whatever order
\* unlock(), block() and the roots of execute() move it in.
OpsConserved ==
  /\ PendingIds \cup done = 1..accepted
  /\ PendingIds \cap done = {}

\* The node sets that contain, with a node, everything linked to it: what a
\* writable resource or a fresh ACL leads to, and what leads there through
\* blank nodes only.
Closed(S) ==
  /\ ownAcls \subseteq S
  /\ \A l \in links :
       /\ (l[1] \in granted \cup claimed \/ l[1] \in S) => l[2] \in S
       /\ (l[2] \in S /\ l[1] \in Blank) => l[1] \in S
Attached(b) == \A S \in SUBSET Blank : Closed(S) => b \in S

\* A statement about a blank node is only changed when links, of the store or
\* named by an operation of the same unit of work, attach the node to a
\* resource the access control lists of the store grant to the user, or to a
\* new ACL: creating a detached one fails ("creating a detached restriction
\* should fail", SecureModelSetTest.testLocalAcls).  unlock() extends this to
\* the named objects of operations on blank nodes ("claimed").
NoDetachedChange ==
  nextOp # NoOp /\ nextOp.s \in Blank => Attached(nextOp.s)

\* A data manager keeps the promise of a unit of work: changes of a restricted
\* context become visible to others only when a commit() has executed every
\* operation that is still queued, and until then rollback() undoes them all,
\* those of a failed commit too.
Unit == INSTANCE UnitOfWork WITH work <- store, pending <- (1..accepted) \ done
ImplementsUnitOfWork == Unit!Spec

\* execute() returns or throws: the loop over the roots of the blocked
\* operations makes progress in every round.
ExecuteEnds == Executing ~> ~Executing

\* "If the given resource is a blank node then only the cached values are
\* used.  Otherwise a query is executed against the underlying data manager"
\* (the comment of writeMode()): a statement about a named resource is only
\* changed when an access control list of the store grants it.
NamedChangeIsGranted ==
  nextOp # NoOp /\ nextOp.s \in Named => nextOp.s \in granted

=============================================================================
