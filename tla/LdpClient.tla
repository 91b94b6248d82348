----------------------------- MODULE LdpClient -----------------------------
(***************************************************************************)
(* The client side of enilink's Linked Data Platform: a repository that    *)
(* answers requests for statements about a resource below an endpoint from *)
(* a local cache, after it has looked at the resource's server.            *)
(* LdpRepositoryConnection.getStatements() asks LdpClient.update(), which  *)
(* asks needsUpdate(): a HEAD request, unless there was one a moment ago,  *)
(* whose ETag is compared with the remembered one.  If they differ, a GET  *)
(* request fetches the statements, and two transactions replace them in    *)
(* LdpCache's repository.                                                  *)
(*                                                                         *)
(* The module follows the requests of several readers for one resource.    *)
(* The maps of LdpClient are static and not synchronised; a step is one    *)
(* access to one of them, one HTTP request or one transaction.             *)
(***************************************************************************)
EXTENDS Naturals, FiniteSets

CONSTANTS
  Reader,          \* the threads that read
  SendsETag,       \* the server sends ETags
  MaxVersion,      \* bound on the changes of the resource at its server
  MaxActivations,  \* bound on the activations of the component LdpCache
  MaxHttpFaults,   \* bound on requests that fail
  MaxStoreFaults,  \* bound on transactions that fail
  Null

ASSUME NullIsNoTag == Null \notin Nat
ASSUME BoundsAreNumbers == MaxVersion \in Nat \ {0} /\ {MaxActivations, MaxHttpFaults, MaxStoreFaults} \subseteq Nat

VARIABLES
  version,      \* the version of the resource at its server
  activations,  \* number of activations of LdpCache; statements belong to the last one
  instance,     \* LdpCache.INSTANCE: "none", "starting" (no endpoints yet) or "running"
  lookupCache,  \* getEndpoint() remembers: "unknown", "endpoint" or "none"
  eTagCache,    \* no key (<<>>), or the remembered ETag, which may be Null
  floodBlock,   \* the last HEAD request: "never", "recent" or "long ago"
  store,        \* the statements of the cache's repository
  pc,           \* what a reader does next
  newETag,      \* the ETag a reader got from the HEAD request
  remoteStmts,  \* the statements it got from the GET request
  conn,         \* the activation whose repository its connection belongs to
  httpFaults, storeFaults

local == <<newETag, remoteStmts, conn>>
vars == <<version, activations, instance, lookupCache, eTagCache, floodBlock, store, pc,
          newETag, remoteStmts, conn, httpFaults, storeFaults>>

Unset == 0                               \* "-UNSET-"
ETag(v) == IF SendsETag THEN v ELSE Unset

\* Statements about the resource itself, about a resource below it, and the
\* one that keeps the ETag.
Own == {"own1", "own2"}
Statement == [about : Own \cup {"sub"}, v : 1..MaxVersion] \cup [about : {"etag"}, v : 0..MaxVersion]
Representation(v) == {[about |-> a, v |-> v] : a \in Own \cup {"sub"}}
OwnOf(stmts) == {st \in stmts : st.about \in Own}

Init ==
  /\ version = 1
  /\ activations = 0 /\ instance = "none"
  /\ lookupCache = "unknown"
  /\ eTagCache = <<>> /\ floodBlock = "never"
  /\ store = {}
  /\ pc = [r \in Reader |-> "idle"]
  /\ newETag = [r \in Reader |-> Null]
  /\ remoteStmts = [r \in Reader |-> {}]
  /\ conn = [r \in Reader |-> 0]
  /\ httpFaults = 0 /\ storeFaults = 0

-----------------------------------------------------------------------------
(* The component, the server and the clock *)

\* LdpCache(), activate(): a new object, a new repository, INSTANCE is set ...
Activate ==
  /\ instance = "none" /\ activations < MaxActivations
  /\ instance' = "starting"
  /\ activations' = activations + 1
  /\ lookupCache' = "unknown"
  /\ store' = {}
  /\ UNCHANGED <<version, eTagCache, floodBlock, pc, local, httpFaults, storeFaults>>

\* ... before the endpoints of the endpoint model are added.
RegisterEndpoints ==
  /\ instance = "starting"
  /\ instance' = "running"
  /\ UNCHANGED <<version, activations, lookupCache, eTagCache, floodBlock, store, pc, local,
                 httpFaults, storeFaults>>

Deactivate ==
  /\ instance = "running"
  /\ instance' = "none"
  /\ UNCHANGED <<version, activations, lookupCache, eTagCache, floodBlock, store, pc, local,
                 httpFaults, storeFaults>>

ServerChange ==
  /\ version < MaxVersion
  /\ version' = version + 1
  /\ UNCHANGED <<activations, instance, lookupCache, eTagCache, floodBlock, store, pc, local,
                 httpFaults, storeFaults>>

\* Ten seconds pass.
Tick ==
  /\ floodBlock = "recent"
  /\ floodBlock' = "long ago"
  /\ UNCHANGED <<version, activations, instance, lookupCache, eTagCache, store, pc, local,
                 httpFaults, storeFaults>>

-----------------------------------------------------------------------------
(* needsUpdate() *)

At(r, step) == pc[r] = step
Goto(r, step) == pc' = [pc EXCEPT ![r] = step]

\* getStatements() calls getEndpoint(), which remembers what it finds.
Request(r) ==
  /\ At(r, "idle") /\ instance # "none"
  /\ LET found == IF lookupCache # "unknown" THEN lookupCache
                  ELSE IF instance = "running" THEN "endpoint" ELSE "none" IN
       /\ lookupCache' = found
       /\ Goto(r, IF found = "endpoint" THEN "flood" ELSE "answer")
  /\ UNCHANGED <<version, activations, instance, eTagCache, floodBlock, store, local,
                 httpFaults, storeFaults>>

\* Mutant of CheckFlood: an entry blocks for ever.
CheckEntry(r) ==
  /\ At(r, "flood")
  /\ Goto(r, IF floodBlock # "never" THEN "answer" ELSE "block")
  /\ UNCHANGED <<version, activations, instance, lookupCache, eTagCache, floodBlock, store,
                 local, httpFaults, storeFaults>>

CheckFlood(r) ==
  /\ At(r, "flood")
  /\ Goto(r, IF floodBlock = "recent" THEN "answer" ELSE "block")
  /\ UNCHANGED <<version, activations, instance, lookupCache, eTagCache, floodBlock, store,
                 local, httpFaults, storeFaults>>

\* Mutant of Block: no entry is made.
BlockNothing(r) ==
  /\ At(r, "block")
  /\ Goto(r, "head")
  /\ UNCHANGED <<version, activations, instance, lookupCache, eTagCache, floodBlock, store,
                 local, httpFaults, storeFaults>>

Block(r) ==
  /\ At(r, "block")
  /\ floodBlock' = "recent"
  /\ Goto(r, "head")
  /\ UNCHANGED <<version, activations, instance, lookupCache, eTagCache, store, local,
                 httpFaults, storeFaults>>

Head(r) ==
  /\ At(r, "head")
  /\ newETag' = [newETag EXCEPT ![r] = ETag(version)]
  /\ Goto(r, "compare")
  /\ UNCHANGED <<version, activations, instance, lookupCache, eTagCache, floodBlock, store,
                 remoteStmts, conn, httpFaults, storeFaults>>

\* The exception of a failed HEAD request is logged by getStatements().
HeadFails(r) ==
  /\ At(r, "head") /\ httpFaults < MaxHttpFaults
  /\ httpFaults' = httpFaults + 1
  /\ Goto(r, "answer")
  /\ UNCHANGED <<version, activations, instance, lookupCache, eTagCache, floodBlock, store,
                 local, storeFaults>>

StoredETags == {st.v : st \in {x \in store : x.about = "etag"}}

\* getETag(): the remembered ETag, or else the stored one, which is remembered.
Compare(r) ==
  /\ At(r, "compare")
  /\ \/ /\ eTagCache # <<>>
        /\ UNCHANGED eTagCache
        /\ Goto(r, IF eTagCache = <<newETag[r]>> THEN "answer" ELSE "get")
     \/ /\ eTagCache = <<>> /\ instance # "none"
        /\ \E t \in IF StoredETags = {} THEN {Null} ELSE StoredETags :
             /\ eTagCache' = <<t>>
             /\ Goto(r, IF t = newETag[r] THEN "answer" ELSE "get")
     \/ /\ eTagCache = <<>> /\ instance = "none"
        /\ UNCHANGED eTagCache
        /\ Goto(r, "answer")
  /\ UNCHANGED <<version, activations, instance, lookupCache, floodBlock, store, local,
                 httpFaults, storeFaults>>

-----------------------------------------------------------------------------
(* acquireRemoteStatements() *)

Get(r) ==
  /\ At(r, "get")
  /\ remoteStmts' = [remoteStmts EXCEPT ![r] = Representation(version)]
  /\ newETag' = [newETag EXCEPT ![r] = ETag(version)]
  /\ Goto(r, "remember")
  /\ UNCHANGED <<version, activations, instance, lookupCache, eTagCache, floodBlock, store,
                 conn, httpFaults, storeFaults>>

\* An exception is printed, and what was parsed before it is returned.
GetFails(r) ==
  /\ At(r, "get") /\ httpFaults < MaxHttpFaults
  /\ httpFaults' = httpFaults + 1
  /\ \E some \in SUBSET Representation(version) \ {Representation(version)} :
       /\ remoteStmts' = [remoteStmts EXCEPT ![r] = some]
       /\ Goto(r, IF some = {} THEN "answer" ELSE "connect")
  /\ UNCHANGED <<version, activations, instance, lookupCache, eTagCache, floodBlock, store,
                 newETag, conn, storeFaults>>

\* Mutant of Remember: the ETag comes from a request of its own after the GET.
RememberLatest(r) ==
  /\ At(r, "remember")
  /\ eTagCache' = <<ETag(version)>>
  /\ remoteStmts' = [remoteStmts EXCEPT ![r] = @ \cup {[about |-> "etag", v |-> ETag(version)]}]
  /\ Goto(r, "connect")
  /\ UNCHANGED <<version, activations, instance, lookupCache, floodBlock, store, newETag, conn,
                 httpFaults, storeFaults>>

Remember(r) ==
  /\ At(r, "remember")
  /\ eTagCache' = <<newETag[r]>>
  /\ remoteStmts' = [remoteStmts EXCEPT ![r] = @ \cup {[about |-> "etag", v |-> newETag[r]]}]
  /\ Goto(r, "connect")
  /\ UNCHANGED <<version, activations, instance, lookupCache, floodBlock, store, newETag, conn,
                 httpFaults, storeFaults>>

-----------------------------------------------------------------------------
(* update(): two transactions of one connection *)

Connect(r) ==
  /\ At(r, "connect")
  /\ \/ /\ instance # "none"
        /\ conn' = [conn EXCEPT ![r] = activations]
        /\ Goto(r, "remove")
     \/ /\ instance = "none"
        /\ Goto(r, "answer")
        /\ UNCHANGED conn
  /\ UNCHANGED <<version, activations, instance, lookupCache, eTagCache, floodBlock, store,
                 newETag, remoteStmts, httpFaults, storeFaults>>

\* A transaction on the repository of an earlier activation changes nothing
\* that anybody reads.
Transaction(r, stmts) == store' = IF conn[r] = activations THEN stmts ELSE store

\* conn.remove(uri, null, null): statements about sub-resources stay.
About(st) == st.about \in Own \cup {"etag"}

Remove(r) ==
  /\ At(r, "remove")
  /\ Transaction(r, {st \in store : ~About(st)})
  /\ Goto(r, "add")
  /\ UNCHANGED <<version, activations, instance, lookupCache, eTagCache, floodBlock, local,
                 httpFaults, storeFaults>>

Add(r) ==
  /\ At(r, "add")
  /\ Transaction(r, store \cup remoteStmts[r])
  /\ Goto(r, "answer")
  /\ UNCHANGED <<version, activations, instance, lookupCache, eTagCache, floodBlock, local,
                 httpFaults, storeFaults>>

\* The transaction is rolled back and the exception logged by getStatements().
StoreFails(r) ==
  /\ pc[r] \in {"remove", "add"} /\ storeFaults < MaxStoreFaults
  /\ storeFaults' = storeFaults + 1
  /\ Goto(r, "answer")
  /\ UNCHANGED <<version, activations, instance, lookupCache, eTagCache, floodBlock, store,
                 local, httpFaults>>

\* The statements of the cache are returned.
Answer(r) ==
  /\ At(r, "answer")
  /\ Goto(r, "idle")
  /\ newETag' = [newETag EXCEPT ![r] = Null]
  /\ remoteStmts' = [remoteStmts EXCEPT ![r] = {}]
  /\ conn' = [conn EXCEPT ![r] = 0]
  /\ UNCHANGED <<version, activations, instance, lookupCache, eTagCache, floodBlock, store,
                 httpFaults, storeFaults>>

Update(r) ==
  \/ CheckFlood(r) \/ Block(r) \/ Head(r) \/ Compare(r) \/ Get(r) \/ Remember(r)
  \/ Connect(r) \/ Remove(r) \/ Add(r) \/ Answer(r)
Fails(r) == HeadFails(r) \/ GetFails(r) \/ StoreFails(r)

Next ==
  \/ Activate \/ RegisterEndpoints \/ Deactivate \/ ServerChange \/ Tick
  \/ \E r \in Reader : Request(r) \/ Update(r) \/ Fails(r)

\* Time passes, and a request that was begun goes on on its thread.
Spec == Init /\ [][Next]_vars /\ WF_vars(Tick) /\ \A r \in Reader : WF_vars(Update(r))

-----------------------------------------------------------------------------
(* Properties *)

Steps == {"idle", "flood", "block", "head", "compare", "get", "remember", "connect", "remove",
          "add", "answer"}

\* The types; an ETag is only known after a HEAD request, and transactions
\* belong to an activation.
TypeOK ==
  /\ version \in 1..MaxVersion
  /\ activations \in 0..MaxActivations
  /\ instance \in {"none", "starting", "running"}
  /\ lookupCache \in {"unknown", "endpoint", "none"}
  /\ eTagCache \in {<<>>} \cup {<<t>> : t \in 0..MaxVersion \cup {Null}}
  /\ floodBlock \in {"never", "recent", "long ago"}
  /\ floodBlock = "never" => eTagCache = <<>>
  /\ store \subseteq Statement
  /\ pc \in [Reader -> Steps]
  /\ newETag \in [Reader -> 0..MaxVersion \cup {Null}]
  /\ remoteStmts \in [Reader -> SUBSET Statement]
  /\ conn \in [Reader -> 0..MaxActivations]
  /\ httpFaults \in 0..MaxHttpFaults /\ storeFaults \in 0..MaxStoreFaults
  /\ \A r \in Reader : pc[r] \in {"remove", "add"} => conn[r] \in 1..activations

\* No reader is between remembering an ETag and storing its statements.
Settled == \A r \in Reader : pc[r] \notin {"connect", "remove", "add"}

\* "... false if it is up-to-date" (needsUpdate): when the remembered ETag is
\* that of the server, the cache has the server's statements about the resource.
UpToDateWhenNotNeeded ==
  instance # "none" /\ Settled /\ eTagCache = <<ETag(version)>> =>
    OwnOf(store) = OwnOf(Representation(version))

\* ... which holds for the requests of one reader, whatever the server changes
\* between HEAD and GET and wherever a response breaks off, unless storing the
\* statements failed.
UpToDateUnlessStoreFails == storeFaults = 0 => UpToDateWhenNotNeeded

\* As long as it is read, the cache gets the last version of the resource,
\* after failed requests too.
Read == \E r \in Reader : At(r, "flood")
CatchesUp ==
  []<>Read =>
    <>[](storeFaults = 0 =>
           eTagCache = <<ETag(version)>> /\ OwnOf(store) = OwnOf(Representation(version)))

=============================================================================
