--------------------------- MODULE LdpClientProofs ---------------------------
(***************************************************************************)
(* Theorems about LdpClient: types for any readers, and what the cache has *)
(* of a resource when one reader at a time asks for it.                    *)
(***************************************************************************)
EXTENDS LdpClient, TLAPS

-----------------------------------------------------------------------------
(* The inductive invariants *)

\* Between the flood check and remembering, a HEAD request has been noted.
Asking == \A r \in Reader : pc[r] \in {"head", "compare", "get", "remember"} => floodBlock # "never"

\* The ETag of the GET request is known when it is remembered.
Tagged == \A r \in Reader : pc[r] = "remember" => newETag[r] # Null

\* An instance of the component has been activated.
Active == instance # "none" => activations # 0

\* The inductive invariant of the types.
TypeInv == TypeOK /\ Asking /\ Tagged /\ Active

\* There is one reader at most: the maps of LdpClient are not synchronised.
OneReader == \A r, q \in Reader : r = q

\* What was there is removed before a reader adds what it got.
Cleared == \A r \in Reader : pc[r] = "add" /\ conn[r] = activations => OwnOf(store) = {}

\* The remembered ETag is an earlier one, or none.
Behind == \E t \in 0..MaxVersion \cup {Null} : eTagCache = <<t>> /\ (t = Null \/ t < version)

\* The remembered ETag t is one that the server has had.
Holds(t) == t \in 1..version /\ eTagCache = <<t>>

\* What a reader is about to store is a whole representation, of which the ETag is
\* remembered, or the remembered ETag is not the server's.
Carries(r) == Behind \/ \E t \in 1..version : Holds(t) /\ OwnOf(remoteStmts[r]) = OwnOf(Representation(t))

\* As long as storing does not fail, the remembered ETag is the one of the
\* stored statements, or will not be the server's any more.
TagInv ==
  /\ instance # "none" => activations = 1
  /\ activations = 0 => eTagCache = <<>> /\ \A r \in Reader : pc[r] = "idle"
  /\ eTagCache = <<>> =>
       store = {} /\ \A r \in Reader : pc[r] \in {"idle", "flood", "block", "head", "compare", "answer"}
  /\ eTagCache # <<>> => Behind \/ \E t \in 1..version : Holds(t)
  /\ \A r \in Reader : pc[r] = "compare" =>
       newETag[r] \in 1..version /\ \A t \in 0..MaxVersion : eTagCache = <<t>> => t <= newETag[r]
  /\ \A r \in Reader : pc[r] = "get" => Behind
  /\ \A r \in Reader : pc[r] = "remember" => newETag[r] \in 1..version /\ remoteStmts[r] = Representation(newETag[r])
  /\ \A r \in Reader : pc[r] \in {"connect", "remove", "add"} => Carries(r)
  /\ instance # "none" /\ Settled /\ eTagCache # <<>> =>
       Behind \/ \E t \in 1..version : Holds(t) /\ OwnOf(store) = OwnOf(Representation(t))

-----------------------------------------------------------------------------
(* The operators of the model *)

\* The statements of a version, and the one that keeps its ETag.
LEMMA Statements ==
  /\ \A v \in 1..MaxVersion : Representation(v) \subseteq Statement /\ ETag(v) \in 0..MaxVersion
  /\ \A t \in 0..MaxVersion : [about |-> "etag", v |-> t] \in Statement
  /\ \A S \in SUBSET Statement : {st.v : st \in {x \in S : x.about = "etag"}} \subseteq 0..MaxVersion
<1>1. MaxVersion \in Nat \ {0}
  BY BoundsAreNumbers
<1>2. \A v \in 1..MaxVersion : Representation(v) \subseteq Statement
  BY DEF Representation, Statement, Own
<1>3. \A v \in 1..MaxVersion : ETag(v) \in 0..MaxVersion
  BY <1>1 DEF ETag, Unset
<1>4. \A t \in 0..MaxVersion : [about |-> "etag", v |-> t] \in Statement
  BY DEF Statement
<1>5. \A st \in Statement : st.about = "etag" => st.v \in 0..MaxVersion
  BY DEF Statement, Own
<1> QED
  BY <1>2, <1>3, <1>4, <1>5

\* The ETag statement is not about the resource, and a representation is about
\* it and what is below.
LEMMA OwnStatements ==
  /\ \A S, t : OwnOf(S \cup {[about |-> "etag", v |-> t]}) = OwnOf(S)
  /\ \A S, T : OwnOf(S \cup T) = OwnOf(S) \cup OwnOf(T)
  /\ \A S : OwnOf({st \in S : ~About(st)}) = {}
  /\ OwnOf({}) = {}
<1>1. \A S, t : OwnOf(S \cup {[about |-> "etag", v |-> t]}) = OwnOf(S)
  BY DEF OwnOf, Own
<1>2. \A S : OwnOf({st \in S : ~About(st)}) = {}
  BY DEF OwnOf, About
<1> QED
  BY <1>1, <1>2 DEF OwnOf

-----------------------------------------------------------------------------
(* Types *)

\* A reader goes on to its next step.
LEMMA Moves ==
  ASSUME NEW r \in Reader, NEW s, Goto(r, s), pc \in [Reader -> Steps]
  PROVE  /\ s \in Steps => pc' \in [Reader -> Steps]
         /\ pc'[r] = s /\ \A q \in Reader : q # r => pc'[q] = pc[q]
PROOF BY DEF Goto

\* The counters and their bounds are numbers.
LEMMA Counters ==
  /\ MaxVersion \in Nat \ {0} /\ MaxActivations \in Nat /\ MaxHttpFaults \in Nat /\ MaxStoreFaults \in Nat
  /\ TypeOK => /\ version \in Nat \ {0} /\ version <= MaxVersion /\ activations \in Nat /\ activations <= MaxActivations
               /\ httpFaults \in Nat /\ storeFaults \in Nat /\ \A r \in Reader : conn[r] \in Nat
<1>1. MaxVersion \in Nat \ {0} /\ MaxActivations \in Nat /\ MaxHttpFaults \in Nat /\ MaxStoreFaults \in Nat
  BY BoundsAreNumbers
<1>2. ASSUME TypeOK PROVE \A r \in Reader : conn[r] \in 0..MaxActivations
  BY <1>2 DEF TypeOK
<1>3. ASSUME TypeOK PROVE /\ version \in 1..MaxVersion /\ activations \in 0..MaxActivations
                          /\ httpFaults \in 0..MaxHttpFaults /\ storeFaults \in 0..MaxStoreFaults
  BY <1>3 DEF TypeOK
<1> QED
  BY <1>1, <1>2, <1>3

\* The types hold initially.
LEMMA TypeInit == Init => TypeInv
<1> SUFFICES ASSUME Init PROVE TypeInv
  OBVIOUS
<1>1. MaxVersion \in Nat \ {0} /\ MaxActivations \in Nat /\ MaxHttpFaults \in Nat /\ MaxStoreFaults \in Nat
  BY BoundsAreNumbers
<1>2. version \in 1..MaxVersion /\ activations \in 0..MaxActivations
  BY <1>1 DEF Init
<1>3. httpFaults \in 0..MaxHttpFaults /\ storeFaults \in 0..MaxStoreFaults /\ conn \in [Reader -> 0..MaxActivations]
  BY <1>1 DEF Init
<1> QED
  BY <1>2, <1>3 DEF Init, TypeInv, TypeOK, Asking, Tagged, Active, Steps

\* What readers do not do keeps the types.
LEMMA OutsideType ==
  ASSUME TypeInv, Activate \/ RegisterEndpoints \/ Deactivate \/ ServerChange \/ Tick \/ UNCHANGED vars
  PROVE  TypeInv'
<1> USE DEF Active
<1>1. CASE Activate
  <2>1. activations' \in 0..MaxActivations
    BY <1>1, Counters DEF Activate, TypeInv
  <2>2. \A r \in Reader : pc[r] \in {"remove", "add"} => conn[r] \in 1..activations
    BY DEF TypeInv, TypeOK
  <2>3. activations' # 0 /\ \A r \in Reader : pc[r] \in {"remove", "add"} => conn[r] \in 1..activations'
    BY <1>1, <2>2, Counters DEF Activate, TypeInv
  <2> QED
    BY <1>1, <2>1, <2>3 DEF Activate, TypeInv, TypeOK, Asking, Tagged, local
<1>2. CASE RegisterEndpoints \/ Deactivate
  BY <1>2 DEF RegisterEndpoints, Deactivate, TypeInv, TypeOK, Asking, Tagged, local
<1>3. CASE ServerChange
  <2>1. version' \in 1..MaxVersion
    BY <1>3, Counters DEF ServerChange, TypeInv
  <2> QED
    BY <1>3, <2>1 DEF ServerChange, TypeInv, TypeOK, Asking, Tagged, local
<1>4. CASE Tick
  BY <1>4 DEF Tick, TypeInv, TypeOK, Asking, Tagged, local
<1>5. CASE UNCHANGED vars
  BY <1>5 DEF vars, TypeInv, TypeOK, Asking, Tagged
<1> QED
  BY <1>1, <1>2, <1>3, <1>4, <1>5

\* The steps of a reader keep the types.
LEMMA ReaderType ==
  ASSUME TypeInv, NEW r \in Reader, Request(r) \/ Update(r) \/ Fails(r)
  PROVE  TypeInv'
<1> USE DEF TypeInv, local, At, Active
<1>1. /\ pc \in [Reader -> Steps] /\ newETag \in [Reader -> 0..MaxVersion \cup {Null}]
      /\ remoteStmts \in [Reader -> SUBSET Statement] /\ version \in 1..MaxVersion
  BY DEF TypeOK
<1>2. ASSUME NEW s, Goto(r, s)
      PROVE  /\ s \in Steps => pc' \in [Reader -> Steps]
             /\ pc'[r] = s /\ \A q \in Reader : q # r => pc'[q] = pc[q]
  BY <1>1, <1>2, Moves
<1>3. ASSUME NEW s \in Steps, Goto(r, s), s \notin {"remember", "remove", "add"} \/ (s = "add" /\ pc[r] = "remove"),
             s \in {"head", "compare", "get"} => floodBlock' # "never", (floodBlock = "never" \/ floodBlock' # "never"),
             UNCHANGED <<activations, newETag, conn>>
      PROVE  /\ pc' \in [Reader -> Steps] /\ Asking' /\ Tagged'
             /\ \A q \in Reader : pc'[q] \in {"remove", "add"} => conn'[q] \in 1..activations'
  <2>1. pc' \in [Reader -> Steps] /\ pc'[r] = s /\ \A q \in Reader : q # r => pc'[q] = pc[q]
    BY <1>2, <1>3
  <2> QED
    BY <1>3, <2>1 DEF TypeOK, Asking, Tagged
<1>4. CASE Request(r)
  <2>1. /\ UNCHANGED <<version, activations, instance, eTagCache, floodBlock, store, local, httpFaults, storeFaults>>
        /\ lookupCache' \in {"unknown", "endpoint", "none"}
    BY <1>4 DEF Request, TypeOK
  <2>2. PICK s \in {"flood", "answer"} : Goto(r, s)
    BY <1>4 DEF Request
  <2> QED
    BY <1>3, <2>1, <2>2 DEF TypeOK, Steps
<1>5. CASE CheckFlood(r)
  <2>1. PICK s \in {"block", "answer"} : Goto(r, s)
    BY <1>5 DEF CheckFlood
  <2> QED
    BY <1>3, <1>5, <2>1 DEF CheckFlood, TypeOK, Steps
<1>6. CASE Block(r)
  BY <1>3, <1>6 DEF Block, TypeOK, Steps
<1>7. CASE Head(r)
  <2>1. pc' \in [Reader -> Steps] /\ pc'[r] = "compare" /\ \A q \in Reader : q # r => pc'[q] = pc[q]
    BY <1>2, <1>7 DEF Head, Steps
  <2>2. newETag' \in [Reader -> 0..MaxVersion \cup {Null}] /\ \A q \in Reader : q # r => newETag'[q] = newETag[q]
    BY <1>1, <1>7, Statements DEF Head
  <2> QED
    BY <1>7, <2>1, <2>2 DEF Head, TypeOK, Asking, Tagged
<1>8. CASE HeadFails(r)
  <2>1. httpFaults' \in 0..MaxHttpFaults
    BY <1>8, Counters DEF HeadFails
  <2> QED
    BY <1>3, <1>8, <2>1 DEF HeadFails, TypeOK, Steps
<1>9. CASE Compare(r)
  <2>1. pc[r] = "compare" /\ UNCHANGED <<version, activations, instance, lookupCache, floodBlock, store, local, httpFaults, storeFaults>>
    BY <1>9 DEF Compare
  <2>2. floodBlock # "never"
    BY <2>1 DEF Asking
  <2>3. PICK s \in {"answer", "get"} : Goto(r, s)
    BY <1>9 DEF Compare
  <2>4. StoredETags \subseteq 0..MaxVersion
    BY Statements DEF StoredETags, TypeOK
  <2>5. eTagCache' \in {<<>>} \cup {<<t>> : t \in 0..MaxVersion \cup {Null}}
    BY <1>9, <2>4 DEF Compare, TypeOK
  <2> QED
    BY <1>3, <2>1, <2>2, <2>3, <2>5 DEF TypeOK, Steps
<1>10. CASE Get(r)
  <2>1. pc' \in [Reader -> Steps] /\ pc'[r] = "remember" /\ \A q \in Reader : q # r => pc'[q] = pc[q]
    BY <1>2, <1>10 DEF Get, Steps
  <2>2. Representation(version) \in SUBSET Statement /\ ETag(version) \in 0..MaxVersion
    BY <1>1, Statements
  <2>3. /\ newETag' \in [Reader -> 0..MaxVersion \cup {Null}] /\ \A q \in Reader : q # r => newETag'[q] = newETag[q]
        /\ newETag'[r] \in 0..MaxVersion /\ remoteStmts' \in [Reader -> SUBSET Statement]
    BY <1>1, <1>10, <2>2 DEF Get
  <2>4. newETag'[r] # Null
    BY <2>3, NullIsNoTag
  <2> QED
    BY <1>10, <2>1, <2>3, <2>4 DEF Get, TypeOK, Asking, Tagged
<1>11. CASE GetFails(r)
  <2>1. PICK some \in SUBSET Representation(version) :
          remoteStmts' = [remoteStmts EXCEPT ![r] = some] /\ Goto(r, IF some = {} THEN "answer" ELSE "connect")
    BY <1>11 DEF GetFails
  <2>2. remoteStmts' \in [Reader -> SUBSET Statement]
    BY <1>1, <2>1, Statements
  <2>3. PICK s \in {"answer", "connect"} : Goto(r, s)
    BY <2>1
  <2>4. httpFaults' \in 0..MaxHttpFaults
    BY <1>11, Counters DEF GetFails
  <2> QED
    BY <1>3, <1>11, <2>2, <2>3, <2>4 DEF GetFails, TypeOK, Steps
<1>12. CASE Remember(r)
  <2>1. newETag[r] \in 0..MaxVersion /\ floodBlock # "never"
    BY <1>1, <1>12 DEF Remember, Tagged, Asking
  <2>2. remoteStmts[r] \cup {[about |-> "etag", v |-> newETag[r]]} \in SUBSET Statement
    BY <1>1, <2>1, Statements
  <2>3. remoteStmts' \in [Reader -> SUBSET Statement] /\ eTagCache' \in {<<t>> : t \in 0..MaxVersion \cup {Null}}
    BY <1>1, <1>12, <2>1, <2>2 DEF Remember
  <2> QED
    BY <1>3, <1>12, <2>1, <2>3 DEF Remember, TypeOK, Steps
<1>13. CASE Connect(r) /\ instance # "none"
  <2>1. activations \in 1..activations
    BY <1>13, Counters
  <2>2. conn' = [conn EXCEPT ![r] = activations] /\ Goto(r, "remove")
        /\ UNCHANGED <<version, activations, instance, lookupCache, eTagCache, floodBlock, store, newETag, remoteStmts, httpFaults, storeFaults>>
    BY <1>13 DEF Connect
  <2>3. pc' \in [Reader -> Steps] /\ pc'[r] = "remove" /\ \A q \in Reader : q # r => pc'[q] = pc[q]
    BY <1>2, <2>2 DEF Steps
  <2>4. conn' \in [Reader -> 0..MaxActivations] /\ conn'[r] = activations /\ \A q \in Reader : q # r => conn'[q] = conn[q]
    BY <2>2 DEF TypeOK
  <2>5. \A q \in Reader : pc'[q] \in {"remove", "add"} => conn'[q] \in 1..activations'
    BY <2>1, <2>2, <2>3, <2>4 DEF TypeOK
  <2> QED
    BY <2>2, <2>3, <2>4, <2>5 DEF TypeOK, Asking, Tagged
<1>14. CASE Connect(r) /\ instance = "none"
  BY <1>3, <1>14 DEF Connect, TypeOK, Steps
<1>15. CASE Remove(r)
  <2>1. store' \subseteq Statement
    BY <1>15 DEF Remove, Transaction, TypeOK
  <2> QED
    BY <1>3, <1>15, <2>1 DEF Remove, TypeOK, Steps
<1>16. CASE Add(r)
  <2>1. store' \subseteq Statement
    BY <1>1, <1>16 DEF Add, Transaction, TypeOK
  <2> QED
    BY <1>3, <1>16, <2>1 DEF Add, TypeOK, Steps
<1>17. CASE StoreFails(r)
  <2>1. storeFaults' \in 0..MaxStoreFaults
    BY <1>17, Counters DEF StoreFails
  <2> QED
    BY <1>3, <1>17, <2>1 DEF StoreFails, TypeOK, Steps
<1>18. CASE Answer(r)
  <2>1. pc' \in [Reader -> Steps] /\ pc'[r] = "idle" /\ \A q \in Reader : q # r => pc'[q] = pc[q]
    BY <1>2, <1>18 DEF Answer, Steps
  <2>2. /\ newETag' = [newETag EXCEPT ![r] = Null] /\ remoteStmts' = [remoteStmts EXCEPT ![r] = {}] /\ conn' = [conn EXCEPT ![r] = 0]
        /\ UNCHANGED <<version, activations, instance, lookupCache, eTagCache, floodBlock, store, httpFaults, storeFaults>>
    BY <1>18 DEF Answer
  <2>3. conn' \in [Reader -> 0..MaxActivations] /\ remoteStmts' \in [Reader -> SUBSET Statement]
    <3>1. 0 \in 0..MaxActivations
      BY Counters
    <3> QED
      BY <1>1, <2>2, <3>1 DEF TypeOK
  <2>4. \A q \in Reader : pc'[q] \in {"remove", "add"} => conn'[q] \in 1..activations'
    BY <2>1, <2>2 DEF TypeOK
  <2> QED
    BY <2>1, <2>2, <2>3, <2>4 DEF TypeOK, Asking, Tagged
<1> QED
  BY <1>4, <1>5, <1>6, <1>7, <1>8, <1>9, <1>10, <1>11, <1>12, <1>13, <1>14, <1>15, <1>16, <1>17, <1>18 DEF Update, Fails

-----------------------------------------------------------------------------
(* The two transactions *)

\* Steps that leave the statements of the cache alone.
LEMMA ClearedFrame ==
  ASSUME Cleared, UNCHANGED <<store, activations>>,
         \A q \in Reader : pc'[q] = "add" => pc[q] = "add" /\ conn'[q] = conn[q]
  PROVE  Cleared'
PROOF BY DEF Cleared

\* With one reader, no other statements are added between its transactions.
LEMMA ClearedStep == TypeInv /\ Cleared /\ OneReader /\ [Next]_vars => Cleared'
<1> SUFFICES ASSUME TypeInv, Cleared, OneReader, [Next]_vars PROVE Cleared'
  OBVIOUS
<1> USE DEF local, At
<1>1. /\ pc \in [Reader -> Steps] /\ conn \in [Reader -> 0..MaxActivations]
      /\ activations \in Nat /\ \A r \in Reader : pc[r] \in {"remove", "add"} => conn[r] \in 1..activations
  <2>1. activations \in Nat
    BY Counters DEF TypeInv
  <2> QED
    BY <2>1 DEF TypeInv, TypeOK
<1>2. CASE Activate
  <2>1. store' = {} /\ OwnOf({}) = {}
    BY <1>2, OwnStatements DEF Activate
  <2> QED
    BY <2>1 DEF Cleared
<1>3. CASE RegisterEndpoints \/ Deactivate \/ ServerChange \/ Tick \/ UNCHANGED vars
  BY <1>3, ClearedFrame DEF RegisterEndpoints, Deactivate, ServerChange, Tick, vars
<1>4. ASSUME NEW r \in Reader, NEW s, Goto(r, s), s # "add", UNCHANGED <<store, activations>>,
             \A q \in Reader : q # r => conn'[q] = conn[q]
      PROVE  Cleared'
  <2>1. \A q \in Reader : pc'[q] = "add" => pc[q] = "add" /\ conn'[q] = conn[q]
    BY <1>1, <1>4, Moves
  <2> QED
    BY <1>4, <2>1, ClearedFrame
<1>5. ASSUME NEW r \in Reader,
             \/ Request(r) \/ CheckFlood(r) \/ Block(r) \/ Head(r) \/ Compare(r) \/ HeadFails(r)
             \/ StoreFails(r) \/ Get(r) \/ GetFails(r) \/ Remember(r)
      PROVE  Cleared'
  <2>1. PICK s : Goto(r, s) /\ s # "add"
    BY <1>5 DEF Request, CheckFlood, Block, Head, Compare, HeadFails, StoreFails, Get, GetFails, Remember
  <2>2. UNCHANGED <<store, conn, activations>>
    BY <1>5 DEF Request, CheckFlood, Block, Head, Compare, HeadFails, StoreFails, Get, GetFails, Remember
  <2> QED
    BY <1>4, <2>1, <2>2
<1>6. ASSUME NEW r \in Reader, Connect(r) \/ Answer(r) PROVE Cleared'
  <2>1. UNCHANGED <<store, activations>> /\ \A q \in Reader : q # r => conn'[q] = conn[q]
    BY <1>1, <1>6 DEF Connect, Answer
  <2>2. PICK s : Goto(r, s) /\ s # "add"
    BY <1>6 DEF Connect, Answer
  <2> QED
    BY <1>4, <2>1, <2>2
<1>7. ASSUME NEW r \in Reader, Remove(r) PROVE Cleared'
  <2>1. /\ store' = IF conn[r] = activations THEN {st \in store : ~About(st)} ELSE store
        /\ UNCHANGED <<conn, activations>>
    BY <1>7 DEF Remove, Transaction
  <2>2. conn[r] = activations => OwnOf(store') = {}
    BY <2>1, OwnStatements
  <2>3. \A q \in Reader : q = r
    BY DEF OneReader
  <2> QED
    BY <2>1, <2>2, <2>3 DEF Cleared
<1>8. ASSUME NEW r \in Reader, Add(r) PROVE Cleared'
  <2>1. \A q \in Reader : pc'[q] = "answer"
    BY <1>1, <1>8, Moves DEF Add, OneReader
  <2> QED
    BY <2>1 DEF Cleared
<1> QED
  BY <1>2, <1>3, <1>5, <1>6, <1>7, <1>8 DEF Next, Update, Fails

-----------------------------------------------------------------------------
(* The ETag of the stored statements *)

\* While the server goes on, an ETag that is behind stays behind.
LEMMA BehindStays ==
  ASSUME TypeOK, UNCHANGED eTagCache, version' \in Nat, version <= version'
  PROVE  (Behind => Behind') /\ \A t : Holds(t) => Holds(t)'
<1>1. \A v \in Nat : \A t \in 0..MaxVersion \cup {Null} :
        v <= version' /\ (t = Null \/ t < v) => t = Null \/ t < version'
  BY Counters
<1>2. version \in Nat
  BY Counters
<1> QED
  BY <1>1, <1>2 DEF Behind, Holds

\* A step that leaves the statements and the ETags alone.
LEMMA TagFrame ==
  ASSUME TypeOK, TagInv, UNCHANGED <<eTagCache, store, newETag, remoteStmts, activations>>, version' \in Nat, version <= version',
         instance' # "none" => instance # "none",
         \A r \in Reader : \/ pc'[r] = pc[r]
                           \/ /\ pc'[r] \in {"idle", "flood", "block", "head", "answer"} /\ activations # 0
                              /\ instance' = "none" \/ pc[r] \notin {"connect", "remove", "add"}
  PROVE  TagInv'
<1>1. (Behind => Behind') /\ \A t : Holds(t) => Holds(t)'
  BY BehindStays
<1>2. \A r \in Reader : Carries(r) => Carries(r)'
  <2> SUFFICES ASSUME NEW r \in Reader, Carries(r) PROVE Carries(r)'
    OBVIOUS
  <2>1. 1..version \subseteq 1..version'
    BY Counters
  <2> QED
    BY <1>1, <2>1 DEF Carries
<1>3. instance' # "none" /\ Settled' => Settled
  BY DEF Settled
<1>4. \A v : v \in 1..version => v \in 1..version'
  BY Counters
<1>5. eTagCache = <<>> => \A r \in Reader : pc'[r] \in {"idle", "flood", "block", "head", "compare", "answer"}
  BY DEF TagInv
<1>6. activations = 0 => \A r \in Reader : pc'[r] = "idle"
  BY DEF TagInv
<1>7. \A r \in Reader : pc'[r] \in {"compare", "get", "remember", "connect", "remove", "add"} => pc'[r] = pc[r]
  OBVIOUS
<1>8. \A r \in Reader : pc'[r] \in {"connect", "remove", "add"} => Carries(r)'
  BY <1>2, <1>7 DEF TagInv
<1>9. \A r \in Reader : pc'[r] = "get" => Behind'
  BY <1>1, <1>7 DEF TagInv
<1>10. \A r \in Reader : pc'[r] = "compare" => newETag[r] \in 1..version' /\ \A t \in 0..MaxVersion : eTagCache = <<t>> => t <= newETag[r]
  BY <1>4, <1>7 DEF TagInv
<1>11. \A r \in Reader : pc'[r] = "remember" => newETag[r] \in 1..version' /\ remoteStmts[r] = Representation(newETag[r])
  BY <1>4, <1>7 DEF TagInv
<1>12. eTagCache # <<>> => Behind' \/ \E t \in 1..version' : Holds(t)'
  BY <1>1, <1>4 DEF TagInv
<1>13. instance' # "none" /\ Settled' /\ eTagCache # <<>> =>
         Behind' \/ \E t \in 1..version' : Holds(t)' /\ OwnOf(store) = OwnOf(Representation(t))
  BY <1>1, <1>3, <1>4 DEF TagInv
<1>14. instance' # "none" => activations = 1
  BY DEF TagInv
<1>15. eTagCache = <<>> => store = {}
  BY DEF TagInv
<1> QED
  BY <1>5, <1>6, <1>8, <1>9, <1>10, <1>11, <1>12, <1>13, <1>14, <1>15 DEF TagInv

\* The requests of one reader, of a server with ETags and a component that is
\* activated once.
Undisputed == OneReader /\ SendsETag /\ MaxActivations <= 1

\* The remembered ETag is a tag of the server, or Null.
LEMMA TagCases ==
  ASSUME TypeInv, TagInv, eTagCache # <<>>
  PROVE  \E t \in 0..MaxVersion \cup {Null} : eTagCache = <<t>> /\ (t = Null \/ t <= version)
<1>1. version \in Nat /\ version <= MaxVersion /\ MaxVersion \in Nat
  BY Counters DEF TypeInv
<1> QED
  BY <1>1 DEF TagInv, Behind, Holds

\* What happens but for the readers keeps the remembered ETag right.
LEMMA TagOutside ==
  ASSUME Undisputed, TypeInv, TagInv, Activate \/ RegisterEndpoints \/ Deactivate \/ ServerChange \/ Tick \/ UNCHANGED vars
  PROVE  TagInv'
<1>1. version \in Nat /\ activations \in Nat /\ MaxActivations \in Nat /\ TypeOK
  BY Counters DEF TypeInv
<1>2. CASE Activate
  <2>1. activations = 0 /\ activations' = 1 /\ store' = {} /\ UNCHANGED <<version, eTagCache, pc, local>>
    BY <1>1, <1>2 DEF Activate, Undisputed
  <2>2. eTagCache = <<>> /\ \A r \in Reader : pc[r] = "idle"
    BY <2>1 DEF TagInv
  <2> QED
    BY <2>1, <2>2 DEF TagInv
<1>3. CASE RegisterEndpoints \/ Deactivate \/ Tick \/ UNCHANGED vars
  <2>1. /\ UNCHANGED <<eTagCache, store, newETag, remoteStmts, activations, version, pc>>
        /\ instance' # "none" => instance # "none"
    BY <1>3 DEF RegisterEndpoints, Deactivate, Tick, vars, local
  <2>2. version' \in Nat /\ version <= version'
    BY <1>1, <2>1
  <2> QED
    BY <1>1, <2>1, <2>2, TagFrame
<1>4. CASE ServerChange
  BY <1>1, <1>4, TagFrame DEF ServerChange, local
<1> QED
  BY <1>2, <1>3, <1>4

\* The steps of the reader keep it right, but for a transaction that fails.
LEMMA TagReader ==
  ASSUME Undisputed, TypeInv, Cleared, TagInv, NEW r \in Reader, Request(r) \/ Update(r) \/ Fails(r), storeFaults' = 0
  PROVE  TagInv'
<1> USE DEF local, At
<1>1. /\ pc \in [Reader -> Steps] /\ newETag \in [Reader -> 0..MaxVersion \cup {Null}]
      /\ remoteStmts \in [Reader -> SUBSET Statement] /\ version \in 1..MaxVersion /\ TypeOK
  BY DEF TypeInv, TypeOK
<1>2. version \in Nat /\ activations \in Nat /\ activations <= 1 /\ MaxVersion \in Nat /\ version <= MaxVersion
  BY Counters DEF TypeInv, Undisputed
<1>3. \A q \in Reader : q = r
  BY DEF Undisputed, OneReader
<1>4. pc[r] # "idle" => activations # 0
  BY DEF TagInv
<1>5. ASSUME NEW s \in {"idle", "flood", "block", "head", "answer"}, Goto(r, s), activations # 0,
             instance = "none" \/ pc[r] \notin {"connect", "remove", "add"},
             UNCHANGED <<version, activations, instance, eTagCache, store, newETag, remoteStmts>>
      PROVE  TagInv'
  <2>1. \A q \in Reader : pc'[q] = s /\ q = r
    BY <1>1, <1>3, <1>5, Moves
  <2> QED
    BY <1>2, <1>1, <1>5, <2>1, TagFrame
<1>6. CASE Request(r)
  <2>1. activations # 0
    BY <1>6 DEF Request, TagInv
  <2>2. PICK s \in {"flood", "answer"} : Goto(r, s)
    BY <1>6 DEF Request
  <2> QED
    BY <1>5, <1>6, <2>1, <2>2 DEF Request
<1>7. CASE CheckFlood(r)
  <2>1. PICK s \in {"block", "answer"} : Goto(r, s)
    BY <1>7 DEF CheckFlood
  <2> QED
    BY <1>4, <1>5, <1>7, <2>1 DEF CheckFlood
<1>8. CASE Block(r) \/ HeadFails(r)
  <2>1. PICK s \in {"head", "answer"} : Goto(r, s)
    BY <1>8 DEF Block, HeadFails
  <2> QED
    BY <1>4, <1>5, <1>8, <2>1 DEF Block, HeadFails
<1>9. ~StoreFails(r)
  BY Counters DEF StoreFails, TypeInv
<1>10. ASSUME Head(r) \/ Compare(r) \/ Get(r) \/ GetFails(r) \/ Remember(r) \/ Connect(r) \/ Remove(r) \/ Add(r) \/ Answer(r)
       PROVE  activations # 0 /\ UNCHANGED <<version, activations, instance>> /\ pc[r] # "idle"
  BY <1>4, <1>10 DEF Head, Compare, Get, GetFails, Remember, Connect, Remove, Add, Answer
<1>11. CASE Head(r)
  <2>1. pc[r] = "head" /\ newETag'[r] = version /\ UNCHANGED <<eTagCache, store, remoteStmts>>
    BY <1>1, <1>11 DEF Head, ETag, Undisputed
  <2>2. \A q \in Reader : q = r /\ pc'[q] = "compare"
    BY <1>1, <1>3, <1>11, Moves DEF Head
  <2>3. \A t \in 0..MaxVersion : eTagCache = <<t>> => t <= version
    <3> SUFFICES ASSUME NEW t \in 0..MaxVersion, eTagCache = <<t>> PROVE t <= version
      OBVIOUS
    <3>1. PICK u \in 0..MaxVersion \cup {Null} : eTagCache = <<u>> /\ (u = Null \/ u <= version)
      BY TagCases
    <3>2. u = t /\ t \in Nat
      BY <3>1, <1>2
    <3> QED
      BY <3>1, <3>2, NullIsNoTag
  <2>4. Settled
    BY <1>3, <2>1 DEF Settled
  <2>5. version \in 1..version
    BY <1>1, <1>2
  <2>6. (Behind' <=> Behind) /\ \A t : Holds(t)' <=> Holds(t)
    BY <1>10, <1>11, <2>1 DEF Behind, Holds
  <2> QED
    BY <1>10, <1>11, <2>1, <2>2, <2>3, <2>4, <2>5, <2>6 DEF TagInv
<1>12. CASE Compare(r)
  <2>1. pc[r] = "compare" /\ UNCHANGED <<store, newETag, remoteStmts>> /\ Settled
    BY <1>3, <1>12 DEF Compare, Settled
  <2>2. newETag[r] \in 1..version /\ \A t \in 0..MaxVersion : eTagCache = <<t>> => t <= newETag[r]
    BY <2>1 DEF TagInv
  <2>3. CASE Goto(r, "answer") /\ UNCHANGED eTagCache
    BY <1>5, <1>10, <1>12, <2>1, <2>3
  <2>4. CASE eTagCache # <<>> /\ eTagCache # <<newETag[r]>> /\ Goto(r, "get") /\ UNCHANGED eTagCache
    <3>1. Behind
      <4>1. PICK t \in 0..MaxVersion \cup {Null} : eTagCache = <<t>> /\ (t = Null \/ t <= version)
        BY <2>4, TagCases
      <4>2. t # Null => t <= newETag[r] /\ t # newETag[r] /\ t \in 0..MaxVersion
        BY <2>2, <2>4, <4>1
      <4>3. t # Null => t < version
        BY <1>2, <2>2, <4>2
      <4> QED
        BY <4>1, <4>3 DEF Behind
    <3>2. \A q \in Reader : q = r /\ pc'[q] = "get"
      BY <1>1, <1>3, <2>4, Moves
    <3>3. Behind' /\ \A t : Holds(t)' <=> Holds(t)
      BY <1>10, <1>12, <2>4, <3>1 DEF Behind, Holds
    <3> QED
      BY <1>10, <1>12, <2>1, <2>4, <3>2, <3>3 DEF TagInv
  <2>5. CASE eTagCache = <<>> /\ instance # "none"
    <3>1. store = {}
      BY <2>5 DEF TagInv
    <3>2. PICK t \in {Null} : eTagCache' = <<t>> /\ Goto(r, IF t = newETag[r] THEN "answer" ELSE "get")
      BY <1>12, <2>5, <3>1 DEF Compare, StoredETags
    <3>3. Null # newETag[r]
      BY <1>2, <2>2, NullIsNoTag
    <3>4. Behind'
      BY <3>2 DEF Behind
    <3>5. \A q \in Reader : q = r /\ pc'[q] = "get"
      BY <1>1, <1>3, <3>2, <3>3, Moves
    <3> QED
      BY <1>10, <1>12, <3>2, <3>4, <3>5 DEF TagInv
  <2> QED
    BY <1>12, <2>3, <2>4, <2>5 DEF Compare
<1>13. CASE Get(r)
  <2>1. pc[r] = "get" /\ newETag'[r] = version /\ remoteStmts'[r] = Representation(version) /\ UNCHANGED <<eTagCache, store>>
    BY <1>1, <1>13 DEF Get, ETag, Undisputed
  <2>2. \A q \in Reader : q = r /\ pc'[q] = "remember"
    BY <1>1, <1>3, <1>13, Moves DEF Get
  <2>3. Behind /\ Behind' /\ eTagCache # <<>>
    BY <1>10, <1>13, <2>1 DEF TagInv, Behind
  <2>4. version \in 1..version
    BY <1>1, <1>2
  <2> QED
    BY <1>10, <1>13, <2>1, <2>2, <2>3, <2>4 DEF TagInv
<1>14. CASE GetFails(r)
  <2>1. pc[r] = "get" /\ UNCHANGED <<eTagCache, store, newETag>>
    BY <1>14 DEF GetFails
  <2>2. PICK s \in {"answer", "connect"} : Goto(r, s)
    BY <1>14 DEF GetFails
  <2>3. \A q \in Reader : q = r /\ pc'[q] \in {"answer", "connect"}
    BY <1>1, <1>3, <2>2, Moves
  <2>4. Behind /\ Behind' /\ eTagCache # <<>>
    BY <1>10, <1>14, <2>1 DEF TagInv, Behind
  <2> QED
    BY <1>10, <1>14, <2>1, <2>3, <2>4 DEF TagInv, Carries
<1>15. CASE Remember(r)
  <2> DEFINE t == newETag[r]
  <2>1. /\ pc[r] = "remember" /\ eTagCache' = <<newETag[r]>> /\ UNCHANGED <<store, newETag, conn>>
        /\ remoteStmts'[r] = remoteStmts[r] \cup {[about |-> "etag", v |-> newETag[r]]}
    BY <1>1, <1>15 DEF Remember
  <2>2. \A q \in Reader : q = r /\ pc'[q] = "connect"
    BY <1>1, <1>3, <1>15, Moves DEF Remember
  <2>3. newETag[r] \in 1..version /\ remoteStmts[r] = Representation(newETag[r])
    BY <2>1 DEF TagInv
  <2>4. OwnOf(remoteStmts'[r]) = OwnOf(Representation(newETag[r]))
    <3>1. OwnOf(remoteStmts[r] \cup {[about |-> "etag", v |-> newETag[r]]}) = OwnOf(remoteStmts[r])
      BY OwnStatements
    <3> QED
      BY <2>1, <2>3, <3>1
  <2>5. PICK u \in 1..version : u = newETag[r]
    BY <2>3
  <2>6. Holds(u)' /\ u \in 1..version'
    BY <1>10, <1>15, <2>1, <2>5 DEF Holds
  <2>7. OwnOf(remoteStmts'[r]) = OwnOf(Representation(u))
    BY <2>4, <2>5
  <2>8. Carries(r)'
    BY <2>6, <2>7 DEF Carries
  <2>9. ~Settled'
    BY <2>2 DEF Settled
  <2>10. eTagCache' # <<>>
    BY <2>1
  <2> QED
    BY <1>10, <1>15, <2>2, <2>6, <2>8, <2>9, <2>10 DEF TagInv
<1>16. CASE Connect(r)
  <2>1. pc[r] = "connect" /\ UNCHANGED <<eTagCache, store, newETag, remoteStmts>> /\ Carries(r)
    BY <1>16 DEF Connect, TagInv
  <2>2. CASE instance = "none"
    BY <1>5, <1>10, <1>16, <2>1, <2>2 DEF Connect
  <2>3. CASE instance # "none"
    <3>1. Goto(r, "remove")
      BY <1>16, <2>3 DEF Connect
    <3>2. \A q \in Reader : q = r /\ pc'[q] = "remove"
      BY <1>1, <1>3, <3>1, Moves
    <3>3. (Behind' <=> Behind) /\ \A t : Holds(t)' <=> Holds(t)
      BY <1>10, <1>16, <2>1 DEF Behind, Holds
    <3>4. Carries(r)' /\ ~Settled'
      BY <1>10, <1>16, <2>1, <3>2, <3>3 DEF Carries, Settled
    <3>5. eTagCache # <<>>
      BY <2>1 DEF TagInv
    <3> QED
      BY <1>10, <1>16, <2>1, <3>2, <3>3, <3>4, <3>5 DEF TagInv
  <2> QED
    BY <2>2, <2>3
<1>17. CASE Remove(r)
  <2>1. pc[r] = "remove" /\ UNCHANGED <<eTagCache, newETag, remoteStmts>> /\ Carries(r)
    BY <1>17 DEF Remove, TagInv
  <2>2. \A q \in Reader : q = r /\ pc'[q] = "add"
    BY <1>1, <1>3, <1>17, Moves DEF Remove
  <2>3. (Behind' <=> Behind) /\ \A t : Holds(t)' <=> Holds(t)
    BY <1>10, <1>17, <2>1 DEF Behind, Holds
  <2>4. Carries(r)' /\ ~Settled'
    BY <1>10, <1>17, <2>1, <2>2, <2>3 DEF Carries, Settled
  <2>5. eTagCache # <<>>
    BY <2>1 DEF TagInv
  <2> QED
    BY <1>10, <1>17, <2>1, <2>2, <2>3, <2>4, <2>5 DEF TagInv
<1>18. CASE Add(r)
  <2>1. pc[r] = "add" /\ UNCHANGED <<eTagCache, newETag, remoteStmts>> /\ Carries(r) /\ Transaction(r, store \cup remoteStmts[r])
    BY <1>18 DEF Add, TagInv
  <2>2. conn[r] = activations
    <3>1. conn[r] \in 1..activations
      BY <2>1 DEF TypeInv, TypeOK
    <3> QED
      BY <1>2, <3>1
  <2>3. OwnOf(store) = {} /\ store' = store \cup remoteStmts[r]
    BY <2>1, <2>2 DEF Cleared, Transaction
  <2>4. OwnOf(store') = OwnOf(remoteStmts[r])
    <3>1. OwnOf(store \cup remoteStmts[r]) = OwnOf(store) \cup OwnOf(remoteStmts[r])
      BY OwnStatements
    <3> QED
      BY <2>3, <3>1
  <2>5. \A q \in Reader : q = r /\ pc'[q] = "answer"
    BY <1>1, <1>3, <1>18, Moves DEF Add
  <2>6. (Behind' <=> Behind) /\ \A t : Holds(t)' <=> Holds(t)
    BY <1>10, <1>18, <2>1 DEF Behind, Holds
  <2>7. Behind' \/ \E t \in 1..version' : Holds(t)' /\ OwnOf(store') = OwnOf(Representation(t))
    BY <1>10, <1>18, <2>1, <2>4, <2>6 DEF Carries
  <2>8. eTagCache # <<>>
    BY <2>1 DEF TagInv
  <2> QED
    BY <1>10, <1>18, <2>1, <2>5, <2>6, <2>7, <2>8 DEF TagInv
<1>19. CASE Answer(r)
  <2>1. pc[r] = "answer" /\ UNCHANGED <<eTagCache, store>> /\ Settled
    BY <1>3, <1>19 DEF Answer, Settled
  <2>2. \A q \in Reader : q = r /\ pc'[q] = "idle"
    BY <1>1, <1>3, <1>19, Moves DEF Answer
  <2>3. (Behind' <=> Behind) /\ \A t : Holds(t)' <=> Holds(t)
    BY <1>10, <1>19, <2>1 DEF Behind, Holds
  <2> QED
    BY <1>10, <1>19, <2>1, <2>2, <2>3 DEF TagInv
<1> QED
  BY <1>6, <1>7, <1>8, <1>9, <1>11, <1>12, <1>13, <1>14, <1>15, <1>16, <1>17, <1>18, <1>19 DEF Update, Fails

\* Storing that failed is not undone.
LEMMA FaultsStay == TypeInv /\ [Next]_vars /\ storeFaults' = 0 => storeFaults = 0
<1>1. TypeInv => storeFaults \in Nat
  BY Counters DEF TypeInv
<1> SUFFICES ASSUME [Next]_vars PROVE storeFaults' = storeFaults \/ storeFaults' = storeFaults + 1
  BY <1>1
<1> QED
  BY DEF Next, Update, Fails, vars, Activate, RegisterEndpoints, Deactivate, ServerChange, Tick, Request, CheckFlood, Block, Head, Compare,
    Get, Remember, Connect, Remove, Add, Answer, HeadFails, GetFails, StoreFails

-----------------------------------------------------------------------------
(* The theorems *)

\* Every variable has its type, whatever readers, faults and activations there
\* are; a transaction belongs to an activation (LdpClient, LdpCache).
THEOREM TypeCorrect == Spec => []TypeOK
<1>1. TypeInv /\ [Next]_vars => TypeInv'
  BY OutsideType, ReaderType DEF Next
<1>2. TypeInv => TypeOK
  BY DEF TypeInv
<1> QED
  BY <1>1, <1>2, TypeInit, PTL DEF Spec

\* With one reader, a server that sends ETags and one activation, a remembered
\* ETag that is the server's says that the cache has the server's statements,
\* unless storing them failed (LdpClient.needsUpdate).
THEOREM UpToDate == Undisputed => (Spec => []UpToDateUnlessStoreFails)
<1> DEFINE I == TypeInv /\ Cleared /\ (storeFaults = 0 => TagInv)
<1> SUFFICES ASSUME Undisputed PROVE Spec => []UpToDateUnlessStoreFails
  OBVIOUS
<1>1. Init => I
  <2> SUFFICES ASSUME Init PROVE Cleared /\ TagInv
    BY TypeInit
  <2>1. Cleared
    BY DEF Init, Cleared
  <2>2. TagInv
    BY DEF Init, TagInv
  <2> QED
    BY <2>1, <2>2
<1>2. I /\ [Next]_vars => I'
  <2> SUFFICES ASSUME I, [Next]_vars PROVE I'
    OBVIOUS
  <2>1. TypeInv' /\ Cleared'
    BY OutsideType, ReaderType, ClearedStep DEF Next, Undisputed
  <2>2. storeFaults' = 0 => TagInv'
    BY FaultsStay, TagOutside, TagReader DEF Next
  <2> QED
    BY <2>1, <2>2
<1>3. I => UpToDateUnlessStoreFails
  <2> SUFFICES ASSUME TypeInv, TagInv, instance # "none", Settled, eTagCache = <<ETag(version)>>
               PROVE  OwnOf(store) = OwnOf(Representation(version))
    BY DEF UpToDateUnlessStoreFails, UpToDateWhenNotNeeded
  <2>1. eTagCache = <<version>> /\ eTagCache # <<>> /\ version \in Nat
    BY Counters DEF ETag, Undisputed, TypeInv
  <2>2. ~Behind
    <3> SUFFICES ASSUME NEW t \in 0..MaxVersion \cup {Null}, eTagCache = <<t>>, t = Null \/ t < version PROVE FALSE
      BY DEF Behind
    <3>1. t = version
      BY <2>1
    <3> QED
      BY <2>1, <3>1, NullIsNoTag
  <2>3. PICK t \in 1..version : Holds(t) /\ OwnOf(store) = OwnOf(Representation(t))
    BY <2>1, <2>2 DEF TagInv
  <2>4. t = version
    BY <2>1, <2>3 DEF Holds
  <2> QED
    BY <2>3, <2>4
<1> QED
  BY <1>1, <1>2, <1>3, PTL DEF Spec
=============================================================================
