---------------------- MODULE SecureDataManagerProofs ----------------------
(***************************************************************************)
(* Theorems about SecureDataManager, for every set of resources, stores    *)
(* and calls.  They need lemmas about the sequences the queues are; what   *)
(* is shown is that types are kept, that no operation is lost, that a unit *)
(* of work is implemented, and that a detached blank node is not changed.  *)
(***************************************************************************)
EXTENDS SecureDataManager, SequenceTheorems, FiniteSetTheorems, TLAPS

-----------------------------------------------------------------------------
(* What the sequence operators the queues are built from do to the set of  *)
(* elements (ToSet) of a sequence.                                         *)

\* The empty queue has no elements.
LEMMA ToSetEmpty == ToSet(<<>>) = {}
BY DEF ToSet

\* The elements of a sequence over S, by index.
LEMMA ToSetIndex ==
  ASSUME NEW S, NEW s \in Seq(S)
  PROVE  /\ DOMAIN s = 1..Len(s) /\ Len(s) \in Nat
         /\ ToSet(s) \subseteq S
         /\ \A x \in ToSet(s) : \E i \in 1..Len(s) : x = s[i]
         /\ \A i \in 1..Len(s) : s[i] \in ToSet(s)
BY DEF ToSet

\* Joining two queues joins their elements and loses none.
LEMMA ToSetConcat ==
  ASSUME NEW S, NEW s \in Seq(S), NEW t \in Seq(S)
  PROVE  /\ s \o t \in Seq(S)
         /\ ToSet(s \o t) = ToSet(s) \cup ToSet(t)
<1>1. /\ s \o t \in Seq(S)
      /\ Len(s \o t) = Len(s) + Len(t)
      /\ \A i \in 1..(Len(s) + Len(t)) :
           (s \o t)[i] = IF i <= Len(s) THEN s[i] ELSE t[i - Len(s)]
  BY ConcatProperties
<1>2. /\ DOMAIN (s \o t) = 1..(Len(s) + Len(t))
      /\ DOMAIN s = 1..Len(s) /\ DOMAIN t = 1..Len(t)
      /\ Len(s) \in Nat /\ Len(t) \in Nat
  BY <1>1, LenProperties
<1>3. ASSUME NEW x \in ToSet(s \o t) PROVE x \in ToSet(s) \cup ToSet(t)
  <2>1. PICK i \in 1..(Len(s) + Len(t)) : x = (s \o t)[i]
    BY <1>2, <1>3 DEF ToSet
  <2>2. CASE i <= Len(s)
    BY <1>1, <1>2, <2>1, <2>2 DEF ToSet
  <2>3. CASE ~(i <= Len(s))
    <3>1. i - Len(s) \in 1..Len(t)
      BY <1>2, <2>3
    <3>2. QED BY <1>1, <1>2, <2>1, <2>3, <3>1 DEF ToSet
  <2>4. QED BY <2>2, <2>3
<1>4. ASSUME NEW x \in ToSet(s) PROVE x \in ToSet(s \o t)
  <2>1. PICK i \in 1..Len(s) : x = s[i]
    BY <1>2, <1>4 DEF ToSet
  <2>2. i \in 1..(Len(s) + Len(t)) /\ i <= Len(s)
    BY <1>2
  <2>3. QED BY <1>1, <1>2, <2>1, <2>2 DEF ToSet
<1>5. ASSUME NEW x \in ToSet(t) PROVE x \in ToSet(s \o t)
  <2>1. PICK i \in 1..Len(t) : x = t[i]
    BY <1>2, <1>5 DEF ToSet
  <2>2. /\ i + Len(s) \in 1..(Len(s) + Len(t))
        /\ ~(i + Len(s) <= Len(s)) /\ (i + Len(s)) - Len(s) = i
    BY <1>2
  <2>3. (s \o t)[i + Len(s)] = t[i]
    BY <1>1, <2>2
  <2>4. QED BY <1>2, <2>1, <2>2, <2>3 DEF ToSet
<1>6. QED BY <1>1, <1>3, <1>4, <1>5

\* Appending adds one element.
LEMMA ToSetAppend ==
  ASSUME NEW S, NEW s \in Seq(S), NEW e \in S
  PROVE  /\ Append(s, e) \in Seq(S)
         /\ ToSet(Append(s, e)) = ToSet(s) \cup {e}
<1>1. Append(s, e) = s \o <<e>> /\ <<e>> \in Seq(S) /\ Append(s, e) \in Seq(S)
  BY AppendIsConcat, AppendProperties
<1>2. ToSet(<<e>>) = {e}
  BY DEF ToSet
<1>3. ToSet(s \o <<e>>) = ToSet(s) \cup ToSet(<<e>>)
  BY <1>1, ToSetConcat
<1>4. QED BY <1>1, <1>2, <1>3

\* A queue that is not empty is its head and its tail.
LEMMA ToSetHeadTail ==
  ASSUME NEW S, NEW s \in Seq(S), s # <<>>
  PROVE  /\ Head(s) \in S /\ Tail(s) \in Seq(S)
         /\ ToSet(s) = {Head(s)} \cup ToSet(Tail(s))
<1>1. /\ Head(s) \in S /\ Tail(s) \in Seq(S)
      /\ Len(Tail(s)) = Len(s) - 1
      /\ \A i \in 1..Len(Tail(s)) : Tail(s)[i] = s[i + 1]
  BY HeadTailProperties
<1>2. Head(s) = s[1] /\ Len(s) \in Nat \ {0}
  BY EmptySeq
<1>3. DOMAIN s = 1..Len(s) /\ DOMAIN Tail(s) = 1..(Len(s) - 1)
  BY <1>1, LenProperties
<1>4. ASSUME NEW x \in ToSet(s) PROVE x \in {Head(s)} \cup ToSet(Tail(s))
  <2>1. PICK i \in 1..Len(s) : x = s[i]
    BY <1>3, <1>4 DEF ToSet
  <2>2. CASE i = 1
    BY <1>2, <2>1, <2>2
  <2>3. CASE i # 1
    <3>1. i - 1 \in 1..(Len(s) - 1) /\ (i - 1) + 1 = i
      BY <1>2, <2>3
    <3>2. Tail(s)[i - 1] = x
      BY <1>1, <2>1, <3>1
    <3>3. QED BY <1>3, <3>1, <3>2 DEF ToSet
  <2>4. QED BY <2>2, <2>3
<1>5. Head(s) \in ToSet(s)
  BY <1>2, <1>3 DEF ToSet
<1>6. ASSUME NEW x \in ToSet(Tail(s)) PROVE x \in ToSet(s)
  <2>1. PICK i \in 1..(Len(s) - 1) : x = Tail(s)[i]
    BY <1>3, <1>6 DEF ToSet
  <2>2. i + 1 \in 1..Len(s)
    BY <1>2
  <2>3. QED BY <1>1, <1>3, <2>1, <2>2 DEF ToSet
<1>7. QED BY <1>1, <1>4, <1>5, <1>6

\* An arrangement of a finite set is a sequence of all its elements.
LEMMA Arrangement ==
  ASSUME NEW T, IsFiniteSet(T), NEW q \in SetToSeqs(T)
  PROVE  /\ q \in Seq(T)
         /\ Len(q) \in Nat /\ DOMAIN q = 1..Len(q)
         /\ \A i, j \in 1..Len(q) : i # j => q[i] # q[j]
<1>1. Cardinality(T) \in Nat
  BY FS_CardinalityType
<1>2. /\ q \in [1..Cardinality(T) -> T]
      /\ \A i, j \in 1..Cardinality(T) : i # j => q[i] # q[j]
  BY DEF SetToSeqs
<1>3. q \in Seq(T) /\ Len(q) = Cardinality(T)
  BY <1>1, <1>2
<1>4. QED BY <1>1, <1>2, <1>3

-----------------------------------------------------------------------------
(* The operators of the model *)

\* A statement, as StoreAfter() builds it from an operation.
LEMMA OpFacts ==
  ASSUME NEW op \in Op
  PROVE  /\ op.add \in BOOLEAN /\ op.id \in Nat
         /\ op.s \in Ref \cup {Null}
         /\ op.o \in Term \cup {Null}
         /\ op.add => [s |-> op.s, p |-> op.p, o |-> op.o] \in Statement
BY DEF Op, Statement

\* The numbers of the operations in a queue.
LEMMA IdsFacts ==
  ASSUME NEW s \in Seq(Op)
  PROVE  Ids(s) \subseteq Nat
<1>1. ToSet(s) \subseteq Op
  BY ToSetIndex
<1>2. \A op \in Op : op.id \in Nat
  BY OpFacts
<1>3. QED BY <1>1, <1>2 DEF Ids

\* Numbering the requests of a call yields operations, in the order of the call.
LEMMA NumberedFacts ==
  ASSUME NEW reqs \in Seq(Request), NEW n \in Nat
  PROVE  /\ Numbered(reqs, n) \in Seq(Op)
         /\ DOMAIN Numbered(reqs, n) = 1..Len(reqs)
         /\ \A i \in 1..Len(reqs) :
              /\ Numbered(reqs, n)[i].id = n + i
              /\ Numbered(reqs, n)[i].s = reqs[i].s
              /\ Numbered(reqs, n)[i].o = reqs[i].o
<1>1. DOMAIN reqs = 1..Len(reqs) /\ Len(reqs) \in Nat
  BY LenProperties
<1>2. ASSUME NEW i \in 1..Len(reqs)
      PROVE  [add |-> reqs[i].add, s |-> reqs[i].s, p |-> reqs[i].p,
              o |-> reqs[i].o, id |-> n + i] \in Op
  <2>1. reqs[i] \in Request /\ n + i \in Nat
    BY <1>1, ElementOfSeq
  <2>2. QED BY <2>1 DEF Request, Op
<1>3. Numbered(reqs, n) \in [1..Len(reqs) -> Op]
  BY <1>1, <1>2 DEF Numbered
<1>4. Numbered(reqs, n) \in Seq(Op)
  BY <1>1, <1>3
<1>5. QED BY <1>1, <1>3, <1>4 DEF Numbered

\* The statements a remove pattern is expanded to are requests.
LEMMA ExpansionFacts ==
  ASSUME NEW stmts, IsFiniteSet(stmts), stmts \subseteq Statement,
         NEW found \in SetToSeqs(stmts)
  PROVE  /\ [i \in DOMAIN found |->
               [add |-> FALSE, s |-> found[i].s, p |-> found[i].p, o |-> found[i].o]]
              \in Seq(Request)
         /\ Len([i \in DOMAIN found |->
               [add |-> FALSE, s |-> found[i].s, p |-> found[i].p, o |-> found[i].o]])
              = Len(found)
         /\ Len(found) \in Nat
<1>1. found \in Seq(stmts) /\ Len(found) \in Nat /\ DOMAIN found = 1..Len(found)
  BY Arrangement
<1>2. ASSUME NEW i \in 1..Len(found)
      PROVE  [add |-> FALSE, s |-> found[i].s, p |-> found[i].p, o |-> found[i].o] \in Request
  <2>1. found[i] \in Statement
    BY <1>1, ElementOfSeq
  <2>2. QED BY <2>1 DEF Request, Statement
<1>3. QED BY <1>1, <1>2

\* The mode of a resource is decided, and so is what is remembered of it.
LEMMA WriteModeFacts ==
  ASSUME resourceModes \in [Ref -> {"unknown", "MODIFY", "NONE"}], NEW r \in Ref
  PROVE  /\ WriteMode(r) \in {"MODIFY", "NONE"}
         /\ Remember(r) \in [Ref -> {"unknown", "MODIFY", "NONE"}]
BY DEF WriteMode, Remember

-----------------------------------------------------------------------------
(* Type correctness *)

\* What the type invariant rests on: contents are finite, and a search or its
\* result is about a blank node.
TypeInv ==
  /\ TypeOK
  /\ IsFiniteSet(base) /\ IsFiniteSet(store)
  /\ pc # "ops" => goal \in Blank
  /\ pc = "chain" => chain # <<>>

LEMMA InitType == Init => TypeInv
<1>1. SUFFICES ASSUME Init PROVE TypeInv
  OBVIOUS
<1>2. base \subseteq Statement /\ IsFiniteSet(base)
  BY <1>1, StoresAreStores DEF Init
<1>3. granted \subseteq Named
  BY <1>1 DEF Init, Grants
<1>4. QED BY <1>1, <1>2, <1>3 DEF Init, TypeInv, TypeOK

\* Dropping the SecureOps leaves a typed state.
LEMMA ForgetType ==
  ASSUME TypeInv, ForgetOps,
         phase' \in {"none", "open", "commit", "auto"},
         base' \in {base, store}, store' \in {base, store}
  PROVE  TypeInv'
BY DEF TypeInv, TypeOK, ForgetOps, Grants

\* unlock() moves operations between typed queues.
LEMMA UnlockType ==
  ASSUME TypeInv, NEW r \in Blank, Unlock(r)
  PROVE  /\ checkedOps' \in Seq(Op)
         /\ blockedOps' \in [Blank -> Seq(Op)]
         /\ resourceModes' \in [Ref -> {"unknown", "MODIFY", "NONE"}]
BY ToSetConcat DEF TypeInv, TypeOK, Unlock

LEMMA NextType == TypeInv /\ [Next]_vars => TypeInv'
<1> SUFFICES ASSUME TypeInv, [Next]_vars PROVE TypeInv'
  OBVIOUS
<1> USE DEF TypeInv, TypeOK
<1>1. CASE Begin
  BY <1>1 DEF Begin, searchVars, hist
<1>2. ASSUME NEW batch \in Batches, Call(batch) PROVE TypeInv'
  <2>1. batch \in Seq(Request)
    BY BatchesAreBatches
  <2>2. Numbered(batch, accepted) \in Seq(Op) /\ Len(batch) \in Nat
    <3>1. Len(batch) \in Nat
      BY <2>1, LenProperties
    <3>2. accepted \in Nat
      OBVIOUS
    <3>3. Numbered(batch, accepted) \in Seq(Op)
      BY ONLY <2>1, <3>2, NumberedFacts
    <3>4. QED BY <3>1, <3>3
  <2>3. ops' \in Seq(Op)
    BY <1>2, <2>2, ToSetConcat DEF Call
  <2>4. links' \subseteq Ref \X Blank
    BY <1>2 DEF Call, LinksOf
  <2>5. claimed' \subseteq Named
    BY <1>2 DEF Call, NamedObjects
  <2>6. QED BY <1>2, <2>2, <2>3, <2>4, <2>5 DEF Call, searchVars
<1>3. CASE Commit
  BY <1>3 DEF Commit, searchVars, LinksOf
<1>4. CASE Rollback
  BY <1>4, ForgetType DEF Rollback
<1>5. CASE UnlockObject
  <2>1. PICK r \in toUnlock : Unlock(r) /\ toUnlock' = toUnlock \ {r}
    BY <1>5 DEF UnlockObject
  <2>2. QED BY <1>5, <2>1, UnlockType DEF UnlockObject, ctl, searchVars, hist
<1>6. CASE ApplyNextOp
  <2>1. store' \subseteq Statement /\ IsFiniteSet(store')
    <3>1. nextOp \in Op
      BY <1>6 DEF ApplyNextOp
    <3>2. CASE nextOp.add
      <4> DEFINE added == [s |-> nextOp.s, p |-> nextOp.p, o |-> nextOp.o]
      <4>1. store' = store \cup {added}
        BY <1>6, <3>2 DEF ApplyNextOp, StoreAfter
      <4>2. added \in Statement
        BY <3>1, <3>2, OpFacts
      <4>3. IsFiniteSet(store \cup {added})
        BY FS_AddElement
      <4>4. QED BY <4>1, <4>2, <4>3
    <3>3. CASE ~nextOp.add
      <4>1. store' \subseteq store
        BY <1>6, <3>3 DEF ApplyNextOp, StoreAfter
      <4>2. QED BY <4>1, FS_Subset
    <3>4. QED BY <3>2, <3>3
  <2>2. nextOp.id \in Nat
    BY <1>6, OpFacts DEF ApplyNextOp
  <2>3. granted' \subseteq Named
    BY <1>6 DEF ApplyNextOp, Grants
  <2>4. QED BY <1>6, <2>1, <2>2, <2>3 DEF ApplyNextOp, ctl, searchVars
<1>7. CASE LoadChecked
  BY <1>7, ToSetHeadTail DEF LoadChecked, Load, BlankObjects, ctl, searchVars, hist
<1>8. CASE ExpandPattern
  <2>1. Head(ops) \in Op /\ Tail(ops) \in Seq(Op) /\ Head(ops).id \in Nat
    BY <1>8, ToSetHeadTail, OpFacts DEF ExpandPattern, TakesOp
  <2>2. IsFiniteSet(Matching(Head(ops), store)) /\ Matching(Head(ops), store) \subseteq Statement
    BY FS_Subset DEF Matching
  <2>3. PICK found \in SetToSeqs(Matching(Head(ops), store)) :
          /\ ops' = Numbered([i \in DOMAIN found |->
                         [add |-> FALSE, s |-> found[i].s, p |-> found[i].p, o |-> found[i].o]],
                         accepted) \o Tail(ops)
          /\ accepted' = accepted + Len(found)
    BY <1>8 DEF ExpandPattern
  <2> DEFINE removes == [i \in DOMAIN found |->
               [add |-> FALSE, s |-> found[i].s, p |-> found[i].p, o |-> found[i].o]]
  <2>4. removes \in Seq(Request) /\ Len(found) \in Nat
    BY <2>2, ExpansionFacts
  <2>5. Numbered(removes, accepted) \in Seq(Op)
    BY <2>4, NumberedFacts
  <2>6. ops' \in Seq(Op) /\ accepted' \in Nat
    BY <2>1, <2>3, <2>4, <2>5, ToSetConcat
  <2>7. claimed' \subseteq Named
    BY <1>8 DEF ExpandPattern, NamedObjects
  <2>8. QED BY <1>8, <2>1, <2>6, <2>7 DEF ExpandPattern, ctl, searchVars
<1>9. CASE SearchObject
  <2>1. Head(ops).o \in Blank
    BY <1>9 DEF SearchObject, MustSearch
  <2>2. <<Head(ops).o>> \in Seq(Blank) /\ <<Head(ops).o>> # <<>>
    BY <2>1
  <2>3. QED BY <1>9, <2>1, <2>2 DEF SearchObject, Search, hist
<1>10. CASE LoadFreshAcl
  BY <1>10, ToSetHeadTail
  DEF LoadFreshAcl, TakesOp, FreshAcl, Load, BlankObjects, ctl, searchVars, Ref
<1>11. CASE LoadWritable
  <2>1. Head(ops) \in Op /\ Tail(ops) \in Seq(Op)
    BY <1>11, ToSetHeadTail DEF LoadWritable, TakesOp
  <2>2. Head(ops).s \in Ref
    BY <1>11, <2>1, OpFacts DEF LoadWritable, Checks, MustExpand, Op
  <2>3. QED
    BY <1>11, <2>1, <2>2, WriteModeFacts
    DEF LoadWritable, Load, BlankObjects, ctl, searchVars, hist
<1>12. CASE Block
  <2>1. Head(ops) \in Op /\ Tail(ops) \in Seq(Op)
    BY <1>12, ToSetHeadTail DEF Block, TakesOp
  <2>2. Append(blockedOps[Head(ops).s], Head(ops)) \in Seq(Op)
    BY <1>12, <2>1, ToSetAppend DEF Block
  <2>3. QED BY <1>12, <2>1, <2>2 DEF Block, ctl, searchVars, hist
<1>13. CASE DenyOp
  BY <1>13, ForgetType DEF DenyOp, Fail
<1>14. CASE FindRoots
  BY <1>14 DEF FindRoots, Roots, ctl, searchVars, hist
<1>15. ASSUME NEW r \in Blank, ExamineRoot(r) PROVE TypeInv'
  <2>1. <<r>> \in Seq(Blank) /\ <<r>> # <<>>
    OBVIOUS
  <2>2. QED BY <1>15, <2>1 DEF ExamineRoot, Search, hist
<1>16. CASE UnlockRoot
  BY <1>16, UnlockType DEF UnlockRoot, searchVars, hist
<1>17. CASE DropRoot
  <2>1. goal \in Blank /\ blockedOps[goal] \in Seq(Op)
    BY <1>17 DEF DropRoot
  <2>2. Ids(blockedOps[goal]) \subseteq Nat
    BY <2>1, IdsFacts
  <2>3. blockedOps' \in [Blank -> Seq(Op)]
    BY <1>17, <2>1, EmptySeq DEF DropRoot
  <2>4. QED BY <1>17, <2>1, <2>2, <2>3 DEF DropRoot, searchVars
<1>18. CASE Refuse
  BY <1>18, ForgetType DEF Refuse, Fail
<1>19. CASE ChainEnds
  <2>1. Preds \subseteq Ref
    BY DEF Preds, Statement
  <2>2. PICK s \in Preds, before \in SUBSET Preds :
           /\ resourceModes' = SetModes(seen \cup before, Remember(s), WriteMode(s))
           /\ pc' \in {"refused", "ops", "granted"}
    BY <1>19 DEF ChainEnds
  <2>3. resourceModes' \in [Ref -> {"unknown", "MODIFY", "NONE"}]
    BY <2>1, <2>2, WriteModeFacts DEF SetModes
  <2>4. chain' \in Seq(Blank) /\ seen' = {}
    BY <1>19 DEF ChainEnds
  <2>5. QED BY <1>19, <2>2, <2>3, <2>4 DEF ChainEnds, hist
<1>20. CASE ChainGrows
  <2>1. Preds \subseteq Blank
    BY <1>20 DEF ChainGrows, Unknown
  <2>2. IsFiniteSet(Preds \ seen)
    BY <2>1, BlankFinite, FS_Subset
  <2>3. Tail(chain) \in Seq(Blank)
    BY <1>20, ToSetHeadTail DEF ChainGrows
  <2>4. PICK more \in SetToSeqs(Preds \ seen) : chain' = Tail(chain) \o more
    BY <1>20 DEF ChainGrows
  <2>5. more \in Seq(Preds \ seen)
    BY <2>2, <2>4, Arrangement
  <2>6. more \in Seq(Blank)
    BY <2>1, <2>5, SeqMonotonic
  <2>7. chain' \in Seq(Blank)
    BY <2>3, <2>4, <2>6, ToSetConcat
  <2>8. QED BY <1>20, <2>1, <2>7 DEF ChainGrows, ctl, hist
<1>21. CASE ChainExhausted
  BY <1>21 DEF ChainExhausted, SetModes, hist
<1>22. CASE CommitDelegate
  BY <1>22, ForgetType DEF CommitDelegate
<1>23. CASE Return
  BY <1>23, ForgetType DEF Return
<1>24. CASE UNCHANGED vars
  BY <1>24 DEF vars
<1>25. QED
  BY <1>1, <1>2, <1>3, <1>4, <1>5, <1>6, <1>7, <1>8, <1>9, <1>10, <1>11, <1>12, <1>13,
     <1>14, <1>15, <1>16, <1>17, <1>18, <1>19, <1>20, <1>21, <1>22, <1>23, <1>24
  DEF Next, Execute

\* Every variable keeps its type, whatever the user calls.
THEOREM TypeCorrect == Spec => []TypeOK
<1>1. TypeInv => TypeOK
  BY DEF TypeInv
<1>2. QED BY InitType, NextType, <1>1, PTL DEF Spec

-----------------------------------------------------------------------------
(* No operation is lost *)

\* No number occurs twice in a queue.
Distinct(s) == \A i, j \in 1..Len(s) : i # j => s[i].id # s[j].id

LEMMA IdsEmpty == Ids(<<>>) = {} /\ Distinct(<<>>)
BY DEF Ids, ToSet, Distinct

LEMMA IdsIndex ==
  ASSUME NEW s \in Seq(Op)
  PROVE  /\ \A i \in 1..Len(s) : s[i].id \in Ids(s)
         /\ \A n \in Ids(s) : \E i \in 1..Len(s) : n = s[i].id
BY ToSetIndex DEF Ids

LEMMA IdsConcat ==
  ASSUME NEW s \in Seq(Op), NEW t \in Seq(Op)
  PROVE  /\ Ids(s \o t) = Ids(s) \cup Ids(t)
         /\ Distinct(s) /\ Distinct(t) /\ Ids(s) \cap Ids(t) = {} => Distinct(s \o t)
<1>1. Ids(s \o t) = Ids(s) \cup Ids(t)
  BY ToSetConcat DEF Ids
<1>2. ASSUME Distinct(s), Distinct(t), Ids(s) \cap Ids(t) = {},
             NEW i \in 1..Len(s \o t), NEW j \in 1..Len(s \o t), i # j
      PROVE  (s \o t)[i].id # (s \o t)[j].id
  <2>1. /\ Len(s \o t) = Len(s) + Len(t)
        /\ Len(s) \in Nat /\ Len(t) \in Nat
        /\ \A k \in 1..Len(s) + Len(t) :
             (s \o t)[k] = IF k <= Len(s) THEN s[k] ELSE t[k - Len(s)]
    BY ConcatProperties, LenProperties
  <2>2. \A k \in 1..Len(s \o t) :
           \/ k \in 1..Len(s) /\ (s \o t)[k] = s[k]
           \/ ~(k <= Len(s)) /\ k - Len(s) \in 1..Len(t) /\ (s \o t)[k] = t[k - Len(s)]
    BY <2>1
  <2>3. \A k \in 1..Len(s) : s[k].id \in Ids(s)
    BY IdsIndex
  <2>4. \A k \in 1..Len(t) : t[k].id \in Ids(t)
    BY IdsIndex
  <2>5. CASE i \in 1..Len(s) /\ (s \o t)[i] = s[i]
    <3>1. CASE j \in 1..Len(s) /\ (s \o t)[j] = s[j]
      BY <1>2, <2>5, <3>1 DEF Distinct
    <3>2. CASE j - Len(s) \in 1..Len(t) /\ (s \o t)[j] = t[j - Len(s)]
      BY <1>2, <2>3, <2>4, <2>5, <3>2
    <3>3. QED BY <2>2, <3>1, <3>2
  <2>6. CASE ~(i <= Len(s)) /\ i - Len(s) \in 1..Len(t) /\ (s \o t)[i] = t[i - Len(s)]
    <3>1. CASE j \in 1..Len(s) /\ (s \o t)[j] = s[j]
      BY <1>2, <2>3, <2>4, <2>6, <3>1
    <3>2. CASE j - Len(s) \in 1..Len(t) /\ (s \o t)[j] = t[j - Len(s)]
      <4>1. i - Len(s) # j - Len(s)
        BY <1>2, <2>1
      <4>2. QED BY <1>2, <2>6, <3>2, <4>1 DEF Distinct
    <3>3. QED BY <2>2, <3>1, <3>2
  <2>7. QED BY <2>2, <2>5, <2>6
<1>3. QED BY <1>1, <1>2 DEF Distinct

LEMMA IdsHeadTail ==
  ASSUME NEW s \in Seq(Op), s # <<>>, Distinct(s)
  PROVE  /\ Ids(s) = {Head(s).id} \cup Ids(Tail(s))
         /\ Head(s).id \notin Ids(Tail(s))
         /\ Distinct(Tail(s))
<1>1. Ids(s) = {Head(s).id} \cup Ids(Tail(s))
  BY ToSetHeadTail DEF Ids
<1>2. /\ Tail(s) \in Seq(Op) /\ Head(s) = s[1]
      /\ Len(Tail(s)) = Len(s) - 1 /\ Len(s) \in Nat \ {0}
      /\ \A i \in 1..Len(Tail(s)) : Tail(s)[i] = s[i + 1]
  BY HeadTailProperties, EmptySeq
<1>3. \A i \in 1..Len(Tail(s)) : i + 1 \in 1..Len(s) /\ i + 1 # 1 /\ 1 \in 1..Len(s)
  BY <1>2
<1>4. ASSUME Head(s).id \in Ids(Tail(s)) PROVE FALSE
  <2>1. PICK i \in 1..Len(Tail(s)) : Head(s).id = Tail(s)[i].id
    BY <1>2, <1>4, IdsIndex
  <2>2. s[1].id = s[i + 1].id /\ i + 1 \in 1..Len(s) /\ i + 1 # 1 /\ 1 \in 1..Len(s)
    BY <1>2, <1>3, <2>1
  <2>3. QED BY <2>2 DEF Distinct
<1>5. Distinct(Tail(s))
  BY <1>2, <1>3 DEF Distinct
<1>6. QED BY <1>1, <1>4, <1>5

LEMMA IdsAppend ==
  ASSUME NEW s \in Seq(Op), NEW op \in Op
  PROVE  /\ Ids(Append(s, op)) = Ids(s) \cup {op.id}
         /\ Distinct(s) /\ op.id \notin Ids(s) => Distinct(Append(s, op))
<1>1. Append(s, op) = s \o <<op>> /\ <<op>> \in Seq(Op)
  BY AppendIsConcat
<1>2. ToSet(<<op>>) = {op}
  BY DEF ToSet
<1>3. Ids(<<op>>) = {op.id}
  BY <1>2 DEF Ids
<1>4. Distinct(<<op>>)
  BY DEF Distinct
<1>5. /\ Ids(s \o <<op>>) = Ids(s) \cup Ids(<<op>>)
      /\ Distinct(s) /\ Distinct(<<op>>) /\ Ids(s) \cap Ids(<<op>>) = {}
           => Distinct(s \o <<op>>)
  BY <1>1, IdsConcat
<1>6. QED BY <1>1, <1>3, <1>4, <1>5

\* New operations get new numbers.
LEMMA IdsNumbered ==
  ASSUME NEW reqs \in Seq(Request), NEW n \in Nat
  PROVE  /\ Ids(Numbered(reqs, n)) = (n + 1)..(n + Len(reqs))
         /\ Distinct(Numbered(reqs, n))
<1> DEFINE s == Numbered(reqs, n)
<1>1. /\ s \in Seq(Op) /\ Len(s) = Len(reqs) /\ Len(reqs) \in Nat
      /\ \A i \in 1..Len(reqs) : s[i].id = n + i
  BY NumberedFacts, LenProperties
<1> HIDE DEF s
<1>2. ASSUME NEW k \in (n + 1)..(n + Len(reqs)) PROVE k \in Ids(s)
  <2>1. k - n \in 1..Len(reqs) /\ n + (k - n) = k
    BY <1>1
  <2>2. s[k - n].id = k
    BY <1>1, <2>1
  <2>3. QED BY <1>1, <2>1, <2>2, IdsIndex
<1>3. ASSUME NEW k \in Ids(s) PROVE k \in (n + 1)..(n + Len(reqs))
  BY <1>1, <1>3, IdsIndex
<1>4. Distinct(s)
  BY <1>1 DEF Distinct
<1>5. QED BY <1>2, <1>3, <1>4 DEF s

\* What is blocked on the other resources.
OtherIds(r) == UNION {Ids(blockedOps[b]) : b \in Blank \ {r}}

BlockedDistinct ==
  /\ \A b \in Blank : Distinct(blockedOps[b])
  /\ \A a, b \in Blank : a # b => Ids(blockedOps[a]) \cap Ids(blockedOps[b]) = {}

LEMMA BlockedSplit ==
  ASSUME BlockedDistinct, NEW r \in Blank
  PROVE  /\ BlockedIds = OtherIds(r) \cup Ids(blockedOps[r])
         /\ OtherIds(r) \cap Ids(blockedOps[r]) = {}
BY DEF BlockedIds, OtherIds, BlockedDistinct

\* Exchanging what is blocked on one resource leaves the others alone.
LEMMA BlockedChange ==
  ASSUME TypeOK, BlockedDistinct, NEW r \in Blank, NEW q \in Seq(Op),
         blockedOps' = [blockedOps EXCEPT ![r] = q],
         Distinct(q), Ids(q) \cap OtherIds(r) = {}
  PROVE  /\ BlockedDistinct'
         /\ BlockedIds' = OtherIds(r) \cup Ids(q)
<1>1. /\ blockedOps'[r] = q
      /\ \A b \in Blank \ {r} : blockedOps'[b] = blockedOps[b]
  BY DEF TypeOK
<1>2. \A b \in Blank \ {r} : Ids(blockedOps[b]) \subseteq OtherIds(r)
  BY DEF OtherIds
<1>3. BlockedDistinct'
  BY <1>1, <1>2 DEF BlockedDistinct
<1>4. BlockedIds' = UNION {Ids(blockedOps'[b]) : b \in Blank}
  BY DEF BlockedIds
<1>5. UNION {Ids(blockedOps'[b]) : b \in Blank} = OtherIds(r) \cup Ids(q)
  BY <1>1 DEF OtherIds
<1>6. QED BY <1>3, <1>4, <1>5

\* The queues share no number, and none of them holds a number twice: what
\* makes the conservation of operations inductive.
QueueInv ==
  /\ Distinct(ops) /\ Distinct(checkedOps) /\ BlockedDistinct
  /\ Ids(ops) \cap Ids(checkedOps) = {}
  /\ Ids(ops) \cap BlockedIds = {}
  /\ Ids(ops) \cap NextIds = {}
  /\ Ids(checkedOps) \cap BlockedIds = {}
  /\ Ids(checkedOps) \cap NextIds = {}
  /\ BlockedIds \cap NextIds = {}
  /\ OpsConserved

LEMMA InitQueue == Init => QueueInv
<1>1. SUFFICES ASSUME Init PROVE QueueInv
  OBVIOUS
<1>2. /\ Ids(ops) = {} /\ Ids(checkedOps) = {} /\ NextIds = {}
      /\ Distinct(ops) /\ Distinct(checkedOps)
      /\ \A b \in Blank : Ids(blockedOps[b]) = {} /\ Distinct(blockedOps[b])
  BY <1>1, IdsEmpty DEF Init, NextIds
<1>3. BlockedIds = {} /\ BlockedDistinct
  BY <1>2 DEF BlockedIds, BlockedDistinct
<1>4. 1..accepted = {} /\ done = {}
  BY <1>1 DEF Init
<1>5. QED BY <1>2, <1>3, <1>4 DEF QueueInv, OpsConserved, PendingIds

\* Dropping the SecureOps drops operations and their numbers together.
LEMMA ForgetQueue == ForgetOps => QueueInv'
<1>1. SUFFICES ASSUME ForgetOps PROVE QueueInv'
  OBVIOUS
<1>2. /\ Ids(ops') = {} /\ Ids(checkedOps') = {} /\ NextIds' = {}
      /\ Distinct(ops') /\ Distinct(checkedOps')
      /\ \A b \in Blank : Ids(blockedOps'[b]) = {} /\ Distinct(blockedOps'[b])
  BY <1>1, IdsEmpty DEF ForgetOps, NextIds
<1>3. BlockedIds' = {} /\ BlockedDistinct'
  BY <1>2 DEF BlockedIds, BlockedDistinct
<1>4. 1..accepted' = {} /\ done' = {}
  BY <1>1 DEF ForgetOps
<1>5. QED BY <1>2, <1>3, <1>4 DEF QueueInv, OpsConserved, PendingIds

\* unlock() moves what is blocked on a resource to the checked operations.
LEMMA UnlockQueue ==
  ASSUME TypeInv, QueueInv, NEW r \in Blank, Unlock(r),
         UNCHANGED <<ops, nextOp, accepted, done>>
  PROVE  QueueInv'
<1> DEFINE moved == Ids(blockedOps[r])
<1>1. blockedOps[r] \in Seq(Op) /\ checkedOps \in Seq(Op)
  BY DEF TypeInv, TypeOK
<1>2. BlockedIds = OtherIds(r) \cup moved /\ OtherIds(r) \cap moved = {}
  BY BlockedSplit DEF QueueInv
<1>3. Ids(checkedOps') = Ids(checkedOps) \cup moved /\ Distinct(checkedOps')
  BY <1>1, <1>2, IdsConcat DEF Unlock, QueueInv, BlockedDistinct
<1>4. BlockedDistinct' /\ BlockedIds' = OtherIds(r) \cup Ids(<<>>)
  <2>1. <<>> \in Seq(Op) /\ Distinct(<<>>) /\ Ids(<<>>) = {}
    BY IdsEmpty
  <2>2. QED BY <2>1, BlockedChange DEF Unlock, QueueInv, TypeInv
<1>5. BlockedIds' = OtherIds(r)
  BY <1>4, IdsEmpty
<1>6. /\ ops' = ops /\ NextIds' = NextIds
      /\ accepted' = accepted /\ done' = done
  BY DEF NextIds
<1> HIDE DEF moved
<1>7. QED BY <1>2, <1>3, <1>4, <1>5, <1>6 DEF QueueInv, OpsConserved, PendingIds

\* The user's next operation leaves its queue to run (or to be blocked).
LEMMA TakeQueue ==
  ASSUME TypeInv, QueueInv, TakesOp
  PROVE  /\ Head(ops) \in Op /\ Tail(ops) \in Seq(Op)
         /\ Ids(ops) = {Head(ops).id} \cup Ids(Tail(ops))
         /\ Head(ops).id \notin Ids(Tail(ops)) /\ Distinct(Tail(ops))
         /\ NextIds = {} /\ checkedOps = <<>> /\ Ids(checkedOps) = {}
<1>1. ops \in Seq(Op) /\ ops # <<>> /\ Distinct(ops)
  BY DEF TypeInv, TypeOK, QueueInv, TakesOp
<1>2. QED BY <1>1, ToSetHeadTail, IdsHeadTail, IdsEmpty DEF TakesOp, Idle, NextIds

LEMMA LoadQueue ==
  ASSUME TypeInv, QueueInv, TakesOp, Load(Head(ops)), ops' = Tail(ops),
         UNCHANGED <<checkedOps, blockedOps, accepted, done>>
  PROVE  QueueInv'
<1>1. NextIds' = {Head(ops).id}
  BY TakeQueue, NoOpIsNoOp DEF Load, NextIds
<1>2. BlockedIds' = BlockedIds /\ BlockedDistinct'
  BY DEF BlockedIds, BlockedDistinct, QueueInv
<1>3. QED
  BY <1>1, <1>2, TakeQueue DEF QueueInv, OpsConserved, PendingIds

\* Steps that touch no queue.
LEMMA SameQueue ==
  ASSUME QueueInv, UNCHANGED <<ops, checkedOps, blockedOps, nextOp, accepted, done>>
  PROVE  QueueInv'
BY DEF QueueInv, BlockedDistinct, BlockedIds, NextIds, OpsConserved, PendingIds

LEMMA NextQueue == TypeInv /\ QueueInv /\ [Next]_vars => QueueInv'
<1> SUFFICES ASSUME TypeInv, QueueInv, [Next]_vars PROVE QueueInv'
  OBVIOUS
<1>0. /\ ops \in Seq(Op) /\ checkedOps \in Seq(Op)
      /\ blockedOps \in [Blank -> Seq(Op)]
      /\ accepted \in Nat /\ done \subseteq Nat
  BY DEF TypeInv, TypeOK
<1>1. CASE Begin
  BY <1>1, SameQueue DEF Begin, hist
<1>2. ASSUME NEW batch \in Batches, Call(batch) PROVE QueueInv'
  <2> DEFINE new == Numbered(batch, accepted)
  <2>1. batch \in Seq(Request) /\ Len(batch) \in Nat
    BY BatchesAreBatches
  <2>2. /\ new \in Seq(Op) /\ Distinct(new)
        /\ Ids(new) = (accepted + 1)..(accepted + Len(batch))
    BY <1>0, <2>1, NumberedFacts, IdsNumbered
  <2>3. /\ 1..(accepted + Len(batch)) = (1..accepted) \cup Ids(new)
        /\ (1..accepted) \cap Ids(new) = {}
    BY <1>0, <2>1, <2>2
  <2>4. ops' = ops \o new /\ accepted' = accepted + Len(batch)
    BY <1>2 DEF Call
  <2> HIDE DEF new
  <2>5. Ids(ops) \cap Ids(new) = {}
    BY <2>3 DEF QueueInv, OpsConserved, PendingIds
  <2>6. Ids(ops') = Ids(ops) \cup Ids(new) /\ Distinct(ops')
    BY <1>0, <2>2, <2>4, <2>5, IdsConcat DEF QueueInv
  <2>7. UNCHANGED <<checkedOps, blockedOps, nextOp, done>>
    BY <1>2 DEF Call
  <2>8. BlockedDistinct' /\ BlockedIds' = BlockedIds /\ NextIds' = NextIds
    BY <2>7 DEF BlockedDistinct, BlockedIds, NextIds, QueueInv
  <2>9. QED
    BY <2>3, <2>4, <2>6, <2>7, <2>8 DEF QueueInv, OpsConserved, PendingIds
<1>3. CASE Commit
  BY <1>3, SameQueue DEF Commit
<1>4. CASE Rollback
  BY <1>4, ForgetQueue DEF Rollback
<1>5. CASE UnlockObject
  <2>1. PICK r \in toUnlock : Unlock(r)
    BY <1>5 DEF UnlockObject
  <2>2. r \in Blank
    BY DEF TypeInv, TypeOK
  <2>3. QED BY <1>5, <2>1, <2>2, UnlockQueue DEF UnlockObject, hist
<1>6. CASE ApplyNextOp
  <2>1. NextIds = {nextOp.id} /\ NextIds' = {} /\ done' = done \cup {nextOp.id}
    BY <1>6 DEF ApplyNextOp, NextIds
  <2>2. UNCHANGED <<ops, checkedOps, blockedOps, accepted>>
    BY <1>6 DEF ApplyNextOp
  <2>3. BlockedDistinct' /\ BlockedIds' = BlockedIds
    BY <2>2 DEF BlockedDistinct, BlockedIds, QueueInv
  <2>4. QED BY <2>1, <2>2, <2>3 DEF QueueInv, OpsConserved, PendingIds
<1>7. CASE LoadChecked
  <2>1. /\ checkedOps' = Tail(checkedOps) /\ nextOp' = Head(checkedOps)
        /\ checkedOps # <<>> /\ NextIds = {}
        /\ UNCHANGED <<ops, blockedOps, accepted, done>>
    BY <1>7 DEF LoadChecked, Load, hist, NextIds
  <2>2. /\ Ids(checkedOps) = {Head(checkedOps).id} \cup Ids(checkedOps')
        /\ Head(checkedOps).id \notin Ids(checkedOps') /\ Distinct(checkedOps')
        /\ Head(checkedOps) \in Op
    BY <1>0, <2>1, IdsHeadTail, ToSetHeadTail DEF QueueInv
  <2>3. NextIds' = {Head(checkedOps).id}
    BY <2>1, <2>2, NoOpIsNoOp DEF NextIds
  <2>4. BlockedDistinct' /\ BlockedIds' = BlockedIds
    BY <2>1 DEF BlockedDistinct, BlockedIds, QueueInv
  <2>5. QED BY <2>1, <2>2, <2>3, <2>4 DEF QueueInv, OpsConserved, PendingIds
<1>8. CASE ExpandPattern
  <2>1. TakesOp
    BY <1>8 DEF ExpandPattern
  <2>2. IsFiniteSet(Matching(Head(ops), store)) /\ Matching(Head(ops), store) \subseteq Statement
    BY FS_Subset DEF Matching, TypeInv, TypeOK
  <2>3. PICK found \in SetToSeqs(Matching(Head(ops), store)) :
          /\ ops' = Numbered([i \in DOMAIN found |->
                         [add |-> FALSE, s |-> found[i].s, p |-> found[i].p, o |-> found[i].o]],
                         accepted) \o Tail(ops)
          /\ accepted' = accepted + Len(found)
    BY <1>8 DEF ExpandPattern
  <2> DEFINE removes == [i \in DOMAIN found |->
               [add |-> FALSE, s |-> found[i].s, p |-> found[i].p, o |-> found[i].o]]
             new == Numbered(removes, accepted)
  <2>4. removes \in Seq(Request) /\ Len(found) \in Nat /\ Len(removes) = Len(found)
    BY <2>2, ExpansionFacts
  <2> HIDE DEF removes
  <2>5. /\ new \in Seq(Op) /\ Distinct(new)
        /\ Ids(new) = (accepted + 1)..(accepted + Len(found))
    BY <1>0, <2>4, NumberedFacts, IdsNumbered
  <2>6. /\ 1..(accepted + Len(found)) = (1..accepted) \cup Ids(new)
        /\ (1..accepted) \cap Ids(new) = {}
    BY <1>0, <2>4, <2>5
  <2>7. ops' = new \o Tail(ops)
    BY <2>3 DEF removes
  <2> HIDE DEF new
  <2>8. Ids(ops) \cap Ids(new) = {}
    BY <2>6 DEF QueueInv, OpsConserved, PendingIds
  <2>9. Ids(Tail(ops)) \subseteq Ids(ops) /\ Tail(ops) \in Seq(Op) /\ Distinct(Tail(ops))
    BY <2>1, TakeQueue
  <2>10. Ids(ops') = Ids(new) \cup Ids(Tail(ops)) /\ Distinct(ops')
    BY <2>5, <2>7, <2>8, <2>9, IdsConcat
  <2>11. done' = done \cup {Head(ops).id} /\ UNCHANGED <<checkedOps, blockedOps, nextOp>>
    BY <1>8 DEF ExpandPattern
  <2>12. BlockedDistinct' /\ BlockedIds' = BlockedIds /\ NextIds' = NextIds
    BY <2>11 DEF BlockedDistinct, BlockedIds, NextIds, QueueInv
  <2>13. QED
    BY <2>1, <2>3, <2>6, <2>10, <2>11, <2>12, TakeQueue
    DEF QueueInv, OpsConserved, PendingIds
<1>9. CASE SearchObject
  BY <1>9, SameQueue DEF SearchObject, hist
<1>10. CASE LoadFreshAcl
  BY <1>10, LoadQueue DEF LoadFreshAcl
<1>11. CASE LoadWritable
  BY <1>11, LoadQueue DEF LoadWritable, hist
<1>12. CASE Block
  <2> DEFINE op == Head(ops)
             q == Append(blockedOps[op.s], op)
  <2>1. TakesOp /\ op.s \in Blank
    BY <1>12 DEF Block
  <2>2. /\ blockedOps' = [blockedOps EXCEPT ![op.s] = q] /\ ops' = Tail(ops)
        /\ UNCHANGED <<checkedOps, nextOp, accepted, done>>
    BY <1>12 DEF Block, hist
  <2>3. /\ BlockedIds = OtherIds(op.s) \cup Ids(blockedOps[op.s])
        /\ OtherIds(op.s) \cap Ids(blockedOps[op.s]) = {}
    BY <2>1, BlockedSplit DEF QueueInv
  <2>4. op \in Op /\ op.id \in Ids(ops)
    BY <2>1, TakeQueue
  <2>5. op.id \notin BlockedIds
    BY <2>4 DEF QueueInv
  <2>6. /\ q \in Seq(Op) /\ Distinct(q)
        /\ Ids(q) = Ids(blockedOps[op.s]) \cup {op.id}
    BY <1>0, <2>1, <2>3, <2>4, <2>5, IdsAppend, ToSetAppend DEF QueueInv, BlockedDistinct
  <2>7. BlockedDistinct' /\ BlockedIds' = OtherIds(op.s) \cup Ids(q)
    <3>1. Ids(q) \cap OtherIds(op.s) = {}
      BY <2>3, <2>5, <2>6
    <3>2. QED BY <2>1, <2>2, <2>6, <3>1, BlockedChange DEF QueueInv, TypeInv
  <2>8. BlockedIds' = BlockedIds \cup {op.id}
    BY <2>3, <2>6, <2>7
  <2>9. NextIds' = NextIds
    BY <2>2 DEF NextIds
  <2>10. QED
    BY <2>1, <2>2, <2>7, <2>8, <2>9, TakeQueue DEF QueueInv, OpsConserved, PendingIds
<1>13. CASE DenyOp
  BY <1>13, ForgetQueue DEF DenyOp, Fail
<1>14. CASE FindRoots
  BY <1>14, SameQueue DEF FindRoots, hist
<1>15. ASSUME NEW r \in Blank, ExamineRoot(r) PROVE QueueInv'
  BY <1>15, SameQueue DEF ExamineRoot, hist
<1>16. CASE UnlockRoot
  <2>1. goal \in Blank
    BY <1>16 DEF UnlockRoot, TypeInv
  <2>2. QED BY <1>16, <2>1, UnlockQueue DEF UnlockRoot, hist
<1>17. CASE DropRoot
  <2>1. goal \in Blank
    BY <1>17 DEF DropRoot, TypeInv
  <2>2. /\ blockedOps' = [blockedOps EXCEPT ![goal] = <<>>]
        /\ done' = done \cup Ids(blockedOps[goal])
        /\ UNCHANGED <<ops, checkedOps, nextOp, accepted>>
    BY <1>17 DEF DropRoot
  <2>3. /\ BlockedIds = OtherIds(goal) \cup Ids(blockedOps[goal])
        /\ OtherIds(goal) \cap Ids(blockedOps[goal]) = {}
    BY <2>1, BlockedSplit DEF QueueInv
  <2>4. <<>> \in Seq(Op) /\ Distinct(<<>>) /\ Ids(<<>>) = {}
    BY IdsEmpty
  <2>5. BlockedDistinct' /\ BlockedIds' = OtherIds(goal)
    BY <2>1, <2>2, <2>4, BlockedChange DEF QueueInv, TypeInv
  <2>6. NextIds' = NextIds
    BY <2>2 DEF NextIds
  <2>7. QED BY <2>2, <2>3, <2>5, <2>6 DEF QueueInv, OpsConserved, PendingIds
<1>18. CASE Refuse
  BY <1>18, ForgetQueue DEF Refuse, Fail
<1>19. CASE ChainEnds
  BY <1>19, SameQueue DEF ChainEnds, hist
<1>20. CASE ChainGrows
  BY <1>20, SameQueue DEF ChainGrows, hist
<1>21. CASE ChainExhausted
  BY <1>21, SameQueue DEF ChainExhausted, hist
<1>22. CASE CommitDelegate
  BY <1>22, ForgetQueue DEF CommitDelegate
<1>23. CASE Return
  BY <1>23, ForgetQueue DEF Return
<1>24. CASE UNCHANGED vars
  BY <1>24, SameQueue DEF vars
<1>25. QED
  BY <1>1, <1>2, <1>3, <1>4, <1>5, <1>6, <1>7, <1>8, <1>9, <1>10, <1>11, <1>12, <1>13,
     <1>14, <1>15, <1>16, <1>17, <1>18, <1>19, <1>20, <1>21, <1>22, <1>23, <1>24
  DEF Next, Execute

\* Every operation a call handed to SecureOps is in exactly one of its queues,
\* or applied, replaced or dropped, in every reachable state.
THEOREM Conservation == Spec => []OpsConserved
<1>1. QueueInv => OpsConserved
  BY DEF QueueInv
<1>2. QED BY InitType, NextType, InitQueue, NextQueue, <1>1, PTL DEF Spec

-----------------------------------------------------------------------------
(* A data manager implements a unit of work *)

\* Outside of a transaction this connection reads what all others read, and
\* execute() is only left for good: no step of a search follows a failure.
PhaseInv ==
  /\ phase \in {"none", "auto"} => base = store
  /\ pc # "ops" => Executing

LEMMA InitPhase == Init => PhaseInv
BY DEF Init, PhaseInv

LEMMA NextPhase == PhaseInv /\ [Next]_vars => PhaseInv'
<1> SUFFICES ASSUME PhaseInv, [Next]_vars PROVE PhaseInv'
  OBVIOUS
<1> USE DEF PhaseInv, Executing
<1>1. CASE Begin \/ Commit \/ \E batch \in Batches : Call(batch)
  BY <1>1 DEF Begin, Commit, Call
<1>2. CASE Rollback \/ CommitDelegate \/ Return
  BY <1>2 DEF Rollback, CommitDelegate, Return, ForgetOps
<1>3. CASE DenyOp \/ Refuse
  BY <1>3 DEF DenyOp, Refuse, Fail, ForgetOps, TakesOp, Flushing
<1>4. CASE UnlockObject \/ LoadChecked \/ ExpandPattern \/ LoadFreshAcl
           \/ LoadWritable \/ Block \/ FindRoots
  BY <1>4 DEF UnlockObject, LoadChecked, ExpandPattern, LoadFreshAcl,
              LoadWritable, Block, FindRoots, ctl
<1>5. CASE SearchObject \/ \E r \in Blank : ExamineRoot(r)
  BY <1>5 DEF SearchObject, ExamineRoot, Search, TakesOp, Flushing
<1>6. CASE UnlockRoot \/ DropRoot \/ ChainEnds \/ ChainGrows \/ ChainExhausted
  BY <1>6 DEF UnlockRoot, DropRoot, ChainEnds, ChainGrows, ChainExhausted, ctl
<1>7. CASE UNCHANGED vars
  BY <1>7 DEF vars, ctl
<1>8. CASE ApplyNextOp
  <2>1. /\ Executing /\ phase' = phase /\ pc' = pc
        /\ base' = IF phase = "auto" THEN store' ELSE base
    BY <1>8 DEF ApplyNextOp, Flushing, ctl
  <2>2. QED BY <2>1
<1>9. QED BY <1>1, <1>2, <1>3, <1>4, <1>5, <1>6, <1>7, <1>8 DEF Next, Execute

\* The operations that wait in a queue are the pending ones of the unit of work.
Waiting == (1..accepted) \ done

LEMMA WaitingIsPending ==
  ASSUME QueueInv
  PROVE  Waiting = PendingIds
BY DEF QueueInv, OpsConserved, Waiting

\* ForgetOps empties what is pending.
LEMMA ForgetWaiting == ForgetOps => Waiting' = {}
<1>1. 1..0 = {}
  OBVIOUS
<1>2. QED BY <1>1 DEF ForgetOps, Waiting

LEMMA InitUnit == Init => Unit!Start
<1>1. 1..0 = {}
  OBVIOUS
<1>2. QED BY <1>1 DEF Init, Unit!Start

LEMMA NextUnit ==
  TypeInv /\ QueueInv /\ PhaseInv /\ [Next]_vars => [Unit!Step]_(Unit!uvars)
<1> SUFFICES ASSUME TypeInv, QueueInv, PhaseInv, [Next]_vars
             PROVE  Unit!Step \/ UNCHANGED Unit!uvars
  OBVIOUS
<1> USE DEF Waiting, Unit!uvars
<1>0. accepted \in Nat /\ done \subseteq Nat /\ ops \in Seq(Op)
  BY DEF TypeInv, TypeOK
<1>1. CASE Begin
  BY <1>1 DEF Begin, hist, Unit!Step, Unit!Begin
<1>2. ASSUME NEW batch \in Batches, Call(batch) PROVE Unit!Accept
  <2>1. Len(batch) \in Nat
    BY BatchesAreBatches
  <2>2. 1..accepted \subseteq 1..(accepted + Len(batch))
    BY <1>0, <2>1
  <2>3. Waiting \subseteq Waiting'
    BY <1>2, <2>2 DEF Call
  <2>4. QED BY <1>2, <2>3 DEF Call, Unit!Accept
<1>3. CASE Commit
  BY <1>3 DEF Commit, Unit!Step, Unit!Commit
<1>4. CASE Rollback
  BY <1>4, ForgetWaiting DEF Rollback, Unit!Step, Unit!Rollback
<1>5. CASE UnlockObject \/ LoadChecked \/ LoadWritable \/ Block \/ SearchObject
           \/ LoadFreshAcl \/ FindRoots \/ UnlockRoot
  BY <1>5 DEF UnlockObject, LoadChecked, LoadWritable, Block, SearchObject, LoadFreshAcl,
              FindRoots, UnlockRoot, ctl, hist
<1>6. CASE ApplyNextOp
  <2>1. nextOp.id \in Waiting
    BY <1>6, WaitingIsPending DEF ApplyNextOp, PendingIds, NextIds
  <2>2. Waiting' = Waiting \ {nextOp.id}
    BY <1>6 DEF ApplyNextOp
  <2>3. Unit!Settle
    BY <1>6, <2>1, <2>2
    DEF ApplyNextOp, Flushing, Executing, ctl, Unit!Settle, Unit!Running
  <2>4. QED BY <2>3 DEF Unit!Step
<1>7. CASE ExpandPattern
  <2>1. TakesOp /\ done' = done \cup {Head(ops).id} /\ UNCHANGED <<base, store, phase>>
    BY <1>7 DEF ExpandPattern, ctl
  <2>2. Head(ops).id \in Waiting
    BY <2>1, TakeQueue, WaitingIsPending DEF PendingIds
  <2>3. 1..accepted \subseteq 1..accepted'
    <3>1. PICK found \in SetToSeqs(Matching(Head(ops), store)) : accepted' = accepted + Len(found)
      BY <1>7 DEF ExpandPattern
    <3>2. IsFiniteSet(Matching(Head(ops), store))
      BY FS_Subset DEF Matching, TypeInv
    <3>3. Len(found) \in Nat
      BY <3>2, Arrangement
    <3>4. QED BY <1>0, <3>1, <3>3
  <2>4. Head(ops).id \notin Waiting' /\ Waiting \ {Head(ops).id} \subseteq Waiting'
    BY <2>1, <2>3
  <2>5. Unit!Replace
    BY <2>1, <2>2, <2>4 DEF TakesOp, Flushing, Executing, Unit!Replace, Unit!Running
  <2>6. QED BY <2>5 DEF Unit!Step
<1>8. CASE DenyOp \/ Refuse
  <2>1. Fail /\ Executing
    BY <1>8 DEF DenyOp, Refuse, TakesOp, Flushing, PhaseInv
  <2>2. QED BY <2>1, ForgetWaiting DEF Fail, Executing, Unit!Step, Unit!Fail, Unit!Running
<1>9. ASSUME NEW r \in Blank, ExamineRoot(r) PROVE UNCHANGED Unit!uvars
  BY <1>9 DEF ExamineRoot, hist
<1>10. CASE DropRoot
  <2>1. Executing /\ Waiting' \subseteq Waiting /\ UNCHANGED <<base, store, phase>>
    BY <1>10 DEF DropRoot, PhaseInv
  <2>2. QED BY <2>1 DEF Executing, Unit!Step, Unit!Discard, Unit!Running
<1>11. CASE ChainEnds \/ ChainGrows \/ ChainExhausted
  BY <1>11 DEF ChainEnds, ChainGrows, ChainExhausted, ctl, hist
<1>12. CASE CommitDelegate \/ Return
  <2>1. Drained /\ ForgetOps
    BY <1>12 DEF CommitDelegate, Return
  <2>2. PendingIds = {}
    <3>1. ops = <<>> /\ checkedOps = <<>> /\ nextOp = NoOp
      BY <2>1 DEF Drained, Idle
    <3>2. \A b \in Blank : Ids(blockedOps[b]) = {}
      BY <2>1, IdsEmpty DEF Drained
    <3>3. QED BY <3>1, <3>2, IdsEmpty DEF PendingIds, BlockedIds, NextIds
  <2>3. Waiting = {} /\ Waiting' = {}
    BY <2>1, <2>2, WaitingIsPending, ForgetWaiting
  <2>4. Unit!Finish
    BY <1>12, <2>3
    DEF CommitDelegate, Return, PhaseInv, Unit!Finish, Unit!Running
  <2>5. QED BY <2>4 DEF Unit!Step
<1>13. CASE UNCHANGED vars
  BY <1>13 DEF vars
<1>14. QED
  BY <1>1, <1>2, <1>3, <1>4, <1>5, <1>6, <1>7, <1>8, <1>9, <1>10, <1>11, <1>12, <1>13
  DEF Next, Execute, Unit!Step

\* Changes become visible when every operation still queued is settled, a
\* rollback undoes them all, those a failed commit left behind too, and no
\* operation is settled twice: the data manager implements the unit of work.
THEOREM Refinement == Spec => ImplementsUnitOfWork
<1>1. QED
  BY InitType, NextType, InitQueue, NextQueue, InitPhase, NextPhase, InitUnit, NextUnit, PTL
  DEF Spec, ImplementsUnitOfWork, Unit!Spec

-----------------------------------------------------------------------------
(* A detached blank node is never changed.  What is recorded as writable   *)
(* is attached; attachment grows with what a unit of work learns, and is   *)
(* forgotten together with the recorded modes.                             *)

\* The named resources the store grants, or an operation on a blank node names.
WritableRoot(r) == r \in granted \cup claimed

Linked(op) == op.s \in Ref /\ op.o \in Blank => <<op.s, op.o>> \in links
Allowed(r) == IF r \in Blank THEN Attached(r) ELSE r \in Named /\ WritableRoot(r)

\* A closed set contains all of the nodes or none of them.
Together(nodes) ==
  \A S \in SUBSET Blank : Closed(S) => nodes \cap S = {} \/ nodes \subseteq S

\* What this unit of work knows is a superset of what it knew.
Learns ==
  /\ links \subseteq links' /\ ownAcls \subseteq ownAcls'
  /\ granted \subseteq granted' /\ claimed \subseteq claimed'

\* The links of the store and of everything queued are known.
LinksInv ==
  /\ Executing => LinksOf(store) \subseteq links
  /\ \A op \in ToSet(ops) \cup ToSet(checkedOps) \cup AllBlocked : Linked(op)
  /\ nextOp # NoOp => Linked(nextOp)

\* What is blocked on a node is about it; what left a queue is about an
\* attached node or a writable resource.
SubjectInv ==
  /\ \A b \in Blank : \A op \in ToSet(blockedOps[b]) : op.s = b
  /\ \A op \in ToSet(checkedOps) : op.s \in Blank /\ Attached(op.s)
  /\ nextOp # NoOp => Allowed(nextOp.s)
  /\ \A b \in toUnlock : Attached(b)

\* The recorded modes and the search for a chain agree with the links.
ModesInv ==
  /\ \A b \in Blank : resourceModes[b] = "MODIFY" => Attached(b)
  /\ pc = "chain" => ToSet(chain) \subseteq seen /\ goal \in seen /\ Together(seen)
  /\ pc = "granted" => Attached(goal)

AttachInv == LinksInv /\ SubjectInv /\ ModesInv

-----------------------------------------------------------------------------
(* Attachment *)

\* Learning more closes fewer sets.
LEMMA LearnsClosed ==
  ASSUME Learns, NEW S \in SUBSET Blank, Closed(S)',
         links \subseteq Ref \X Blank
  PROVE  Closed(S)
<1>1. ownAcls \subseteq S
  BY DEF Learns, Closed
<1>2. ASSUME NEW l \in links
      PROVE  /\ (WritableRoot(l[1]) \/ l[1] \in S) => l[2] \in S
             /\ (l[2] \in S /\ l[1] \in Blank) => l[1] \in S
  <2>1. l \in links'
    BY DEF Learns
  <2>2. WritableRoot(l[1]) => WritableRoot(l[1])'
    BY DEF Learns, WritableRoot
  <2>3. QED BY <2>1, <2>2 DEF Closed, WritableRoot
<1>3. QED BY <1>1, <1>2 DEF Closed, WritableRoot

\* ... so that what is attached stays attached.
LEMMA LearnsAttached ==
  ASSUME Learns, links \subseteq Ref \X Blank
  PROVE  /\ \A b : Attached(b) => Attached(b)'
         /\ \A r : Allowed(r) => Allowed(r)'
         /\ \A nodes : Together(nodes) => Together(nodes)'
<1>1. \A b : Attached(b) => Attached(b)'
  BY LearnsClosed DEF Attached
<1>2. \A r : Allowed(r) => Allowed(r)'
  BY <1>1 DEF Allowed, Learns, WritableRoot
<1>3. \A nodes : Together(nodes) => Together(nodes)'
  BY LearnsClosed DEF Together
<1>4. QED BY <1>1, <1>2, <1>3

\* A link hands attachment on.
LEMMA LinkAttaches ==
  ASSUME NEW s \in Ref, NEW b \in Blank, <<s, b>> \in links, Allowed(s)
  PROVE  Attached(b)
<1>1. <<s, b>>[1] = s /\ <<s, b>>[2] = b
  OBVIOUS
<1>2. CASE s \in Blank
  BY <1>1, <1>2 DEF Allowed, Attached, Closed
<1>3. CASE s \notin Blank
  BY <1>1, <1>3 DEF Allowed, Attached, Closed, WritableRoot
<1>4. QED BY <1>2, <1>3

\* One attached node attaches all nodes that are together with it.
LEMMA TogetherAttaches ==
  ASSUME NEW nodes \in SUBSET Blank, Together(nodes), NEW b \in nodes, Attached(b)
  PROVE  \A n \in nodes : Attached(n)
BY DEF Together, Attached

\* Nodes that link to one of the nodes belong to them.
LEMMA TogetherGrows ==
  ASSUME NEW nodes \in SUBSET Blank, Together(nodes), NEW b \in nodes,
         NEW more \in SUBSET Blank, \A n \in more : <<n, b>> \in links
  PROVE  Together(nodes \cup more)
<1>1. SUFFICES ASSUME NEW S \in SUBSET Blank, Closed(S),
                      NEW n \in nodes \cup more, n \in S
               PROVE  nodes \cup more \subseteq S
  BY DEF Together
<1>2. \A m \in more : m \in S <=> b \in S
  <2>1. SUFFICES ASSUME NEW m \in more PROVE m \in S <=> b \in S
    OBVIOUS
  <2>2. <<m, b>> \in links /\ <<m, b>>[1] = m /\ <<m, b>>[2] = b
    OBVIOUS
  <2>3. QED BY <1>1, <2>2 DEF Closed
<1>3. b \in S
  BY <1>1, <1>2 DEF Together
<1>4. QED BY <1>1, <1>2, <1>3 DEF Together

-----------------------------------------------------------------------------
(* A named resource is recorded as writable when the store granted it, or  *)
(* when an operation on a blank node names it: that one is blocked on the  *)
(* node, and unlock() records its object whatever it is.                   *)

Claims(op) == op.s \in Blank /\ op.o \in Named => op.o \in claimed

NamesInv ==
  /\ Grants(store) \subseteq granted
  /\ \A op \in ToSet(ops) : Claims(op)
  /\ \A b \in Blank : \A op \in ToSet(blockedOps[b]) : op.o \in Named => op.o \in claimed
  /\ \A r \in Named : resourceModes[r] = "MODIFY" => WritableRoot(r)

\* Looking up the mode of a named resource asks the access control lists.
LEMMA WritableName ==
  ASSUME NamesInv, NEW r \in Named, WriteMode(r) = "MODIFY"
  PROVE  WritableRoot(r)
<1>1. CASE resourceModes[r] # "unknown"
  BY <1>1 DEF WriteMode, NamesInv
<1>2. CASE resourceModes[r] = "unknown"
  <2>1. r = user \/ AclModes(r) \cap {ModeControl, ModeWrite, ModeAppend} # {}
    BY <1>2, TermsDisjoint DEF WriteMode
  <2>2. r \in Grants(store)
    BY <2>1 DEF Grants, AclModes
  <2>3. QED BY <2>2 DEF NamesInv, WritableRoot
<1>3. QED BY <1>1, <1>2

\* What a step may do to the queues and the recorded modes of names.
LEMMA KeepNames ==
  ASSUME NamesInv, granted \subseteq granted', claimed \subseteq claimed',
         Grants(store)' \subseteq granted',
         \A op \in ToSet(ops') : op \in ToSet(ops) \/ Claims(op)',
         \A b \in Blank : \A op \in ToSet(blockedOps'[b]) :
           op \in ToSet(blockedOps[b]) \/ (op.o \in Named => op.o \in claimed'),
         \A r \in Named : resourceModes'[r] = "MODIFY"
           => resourceModes[r] = "MODIFY" \/ WritableRoot(r)'
  PROVE  NamesInv'
<1>1. \A r : WritableRoot(r) => WritableRoot(r)'
  BY DEF WritableRoot
<1>2. \A op : Claims(op) => Claims(op)'
  BY DEF Claims
<1>3. \A op \in ToSet(ops') : Claims(op)'
  BY <1>2 DEF NamesInv
<1>4. \A b \in Blank : \A op \in ToSet(blockedOps'[b]) : op.o \in Named => op.o \in claimed'
  BY DEF NamesInv
<1>5. \A r \in Named : resourceModes'[r] = "MODIFY" => WritableRoot(r)'
  BY <1>1 DEF NamesInv
<1>6. QED BY <1>3, <1>4, <1>5 DEF NamesInv

\* Steps of execute() that leave the store, the blocked operations and the
\* modes alone, and at most take one from the user's queue.
LEMMA SameNames ==
  ASSUME NamesInv, UNCHANGED <<store, blockedOps, resourceModes, granted, claimed>>,
         ToSet(ops') \subseteq ToSet(ops)
  PROVE  NamesInv'
<1>1. Grants(store)' = Grants(store)
  BY DEF Grants, ModesIn
<1>2. Grants(store)' \subseteq granted'
  BY <1>1 DEF NamesInv
<1>3. QED BY <1>2, KeepNames

LEMMA InitNames == Init => NamesInv
<1>1. SUFFICES ASSUME Init PROVE NamesInv
  OBVIOUS
<1>2. ToSet(ops) = {} /\ \A b \in Blank : ToSet(blockedOps[b]) = {}
  BY <1>1, ToSetEmpty DEF Init
<1>3. \A r \in Named : resourceModes[r] = "unknown"
  BY <1>1 DEF Init, Ref
<1>4. QED BY <1>1, <1>2, <1>3 DEF Init, NamesInv

LEMMA ForgetNames == ForgetOps => NamesInv'
<1>1. SUFFICES ASSUME ForgetOps PROVE NamesInv'
  OBVIOUS
<1>2. ToSet(ops') = {} /\ \A b \in Blank : ToSet(blockedOps'[b]) = {}
  BY <1>1, ToSetEmpty DEF ForgetOps
<1>3. \A r \in Named : resourceModes'[r] = "unknown"
  BY <1>1 DEF ForgetOps, Ref
<1>4. Grants(store)' \subseteq granted'
  BY <1>1 DEF ForgetOps, Grants, ModesIn
<1>5. QED BY <1>2, <1>3, <1>4 DEF NamesInv

\* unlock() records the objects of what was blocked.
LEMMA UnlockNames ==
  ASSUME TypeInv, NamesInv, NEW r \in Blank, Unlock(r),
         UNCHANGED <<store, ops, granted, claimed>>
  PROVE  NamesInv'
<1>1. Grants(store)' \subseteq granted'
  BY DEF NamesInv, Grants, ModesIn
<1>2. \A b \in Blank : ToSet(blockedOps'[b]) \subseteq ToSet(blockedOps[b])
  BY ToSetEmpty DEF Unlock, TypeInv, TypeOK
<1>3. ASSUME NEW n \in Named, resourceModes'[n] = "MODIFY", resourceModes[n] # "MODIFY"
      PROVE  WritableRoot(n)'
  <2>1. n # r /\ n \in Ref
    BY TermsDisjoint DEF Ref
  <2>2. PICK op \in ToSet(blockedOps[r]) : op.o = n
    BY <1>3, <2>1 DEF Unlock
  <2>3. n \in claimed
    BY <2>2 DEF NamesInv
  <2>4. QED BY <2>3 DEF WritableRoot
<1>4. QED BY <1>1, <1>2, <1>3, KeepNames

\* A call adds its own operations, whose objects it claims.
LEMMA CallNames ==
  ASSUME TypeInv, NamesInv, NEW batch \in Batches, Call(batch)
  PROVE  NamesInv'
<1> DEFINE new == Numbered(batch, accepted)
<1>1. batch \in Seq(Request) /\ ops \in Seq(Op) /\ accepted \in Nat
  BY BatchesAreBatches DEF TypeInv, TypeOK
<1>2. /\ new \in Seq(Op) /\ DOMAIN new = 1..Len(batch)
      /\ \A i \in 1..Len(batch) : new[i].s = batch[i].s /\ new[i].o = batch[i].o
  BY <1>1, NumberedFacts
<1>3. Len(new) = Len(batch)
  BY <1>1, <1>2, LenProperties
<1>4. /\ ops' = ops \o new
      /\ claimed' = claimed \cup NamedObjects(ToSet(batch))
      /\ UNCHANGED <<store, blockedOps, resourceModes, granted>>
  BY DEF Call
<1> HIDE DEF new
<1>5. ASSUME NEW op \in ToSet(new) PROVE Claims(op)'
  <2>1. PICK i \in 1..Len(batch) : op.s = batch[i].s /\ op.o = batch[i].o
    BY <1>2, <1>3, ToSetIndex
  <2>2. batch[i] \in ToSet(batch)
    BY <1>1, ToSetIndex
  <2>3. op.s \in Blank /\ op.o \in Named => op.o \in NamedObjects(ToSet(batch))
    BY <2>1, <2>2 DEF NamedObjects
  <2>4. QED BY <1>4, <2>3 DEF Claims
<1>6. \A op \in ToSet(ops') : op \in ToSet(ops) \/ Claims(op)'
  BY <1>1, <1>2, <1>4, <1>5, ToSetConcat
<1>7. Grants(store)' \subseteq granted'
  BY <1>4 DEF NamesInv, Grants, ModesIn
<1>8. QED BY <1>4, <1>6, <1>7, KeepNames

\* So do the statements a remove pattern is replaced by.
LEMMA ExpandNames ==
  ASSUME TypeInv, NamesInv, ExpandPattern
  PROVE  NamesInv'
<1>1. PICK stmts : stmts = Matching(Head(ops), store)
  OBVIOUS
<1>2. IsFiniteSet(stmts) /\ stmts \subseteq Statement /\ accepted \in Nat
  BY <1>1, FS_Subset DEF Matching, TypeInv, TypeOK
<1>3. PICK found \in SetToSeqs(stmts) :
        ops' = Numbered([i \in DOMAIN found |->
                    [add |-> FALSE, s |-> found[i].s, p |-> found[i].p, o |-> found[i].o]],
                    accepted) \o Tail(ops)
  BY <1>1 DEF ExpandPattern
<1> DEFINE removes == [i \in DOMAIN found |->
             [add |-> FALSE, s |-> found[i].s, p |-> found[i].p, o |-> found[i].o]]
           new == Numbered(removes, accepted)
<1>4. found \in Seq(stmts) /\ DOMAIN found = 1..Len(found) /\ Len(found) \in Nat
  BY <1>2, Arrangement
<1>5. /\ removes \in Seq(Request) /\ Len(removes) = Len(found)
      /\ \A i \in 1..Len(found) : removes[i].s = found[i].s /\ removes[i].o = found[i].o
  BY <1>2, <1>4, ExpansionFacts
<1> HIDE DEF removes
<1>6. /\ new \in Seq(Op) /\ DOMAIN new = 1..Len(found)
      /\ \A i \in 1..Len(found) : new[i].s = removes[i].s /\ new[i].o = removes[i].o
  BY <1>2, <1>5, NumberedFacts
<1>7. Len(new) = Len(found)
  BY <1>4, <1>6, LenProperties
<1>8. ops' = new \o Tail(ops)
  BY <1>3 DEF removes
<1> HIDE DEF new
<1>9. /\ claimed' = claimed \cup NamedObjects(stmts)
      /\ UNCHANGED <<store, blockedOps, resourceModes, granted>>
  BY <1>1 DEF ExpandPattern
<1>10. ASSUME NEW op \in ToSet(new) PROVE Claims(op)'
  <2>1. PICK i \in 1..Len(found) : op.s = found[i].s /\ op.o = found[i].o
    BY <1>5, <1>6, <1>7, ToSetIndex
  <2>2. found[i] \in stmts
    BY <1>4, ElementOfSeq
  <2>3. op.s \in Blank /\ op.o \in Named => op.o \in NamedObjects(stmts)
    BY <2>1, <2>2 DEF NamedObjects
  <2>4. QED BY <1>9, <2>3 DEF Claims
<1>11. Tail(ops) \in Seq(Op) /\ ToSet(Tail(ops)) \subseteq ToSet(ops)
  BY ToSetHeadTail DEF ExpandPattern, TakesOp, TypeInv, TypeOK
<1>12. \A op \in ToSet(ops') : op \in ToSet(ops) \/ Claims(op)'
  <2>1. new \in Seq(Op) /\ Tail(ops) \in Seq(Op)
    BY <1>6, <1>11
  <2>2. ToSet(new \o Tail(ops)) = ToSet(new) \cup ToSet(Tail(ops))
    BY ONLY <2>1, ToSetConcat
  <2>3. QED BY <1>8, <1>10, <1>11, <2>2
<1>13. Grants(store)' \subseteq granted'
  BY <1>9 DEF NamesInv, Grants, ModesIn
<1>14. QED BY <1>9, <1>12, <1>13, KeepNames

\* The modes a look-up leaves behind are those the store grants.
LEMMA RememberNames ==
  ASSUME TypeInv, NamesInv, NEW r \in Ref, NEW n \in Named, Remember(r)[n] = "MODIFY"
  PROVE  WritableRoot(n)
<1>1. n \in Ref
  BY DEF Ref
<1>2. CASE resourceModes[n] = "MODIFY"
  BY <1>2 DEF NamesInv
<1>3. CASE resourceModes[n] # "MODIFY"
  <2>1. n = r /\ WriteMode(n) = "MODIFY"
    BY <1>1, <1>3 DEF Remember, TypeInv, TypeOK
  <2>2. QED BY <2>1, WritableName
<1>4. QED BY <1>2, <1>3

LEMMA TakeNames ==
  ASSUME TypeInv, NamesInv, LoadFreshAcl \/ LoadWritable \/ Block
  PROVE  NamesInv'
<1>1. PICK op : op = Head(ops)
  OBVIOUS
<1>2. /\ TakesOp /\ ops # <<>> /\ ops' = Tail(ops) /\ Checks(op)
      /\ UNCHANGED <<store, granted, claimed>>
  BY <1>1 DEF LoadFreshAcl, LoadWritable, Block, TakesOp, hist
<1>3. op \in Op /\ op \in ToSet(ops) /\ ToSet(ops') \subseteq ToSet(ops)
  BY <1>1, <1>2, ToSetHeadTail DEF TypeInv, TypeOK
<1>4. op.s \in Ref
  BY <1>2, <1>3 DEF Checks, MustExpand, Op
<1>5. Grants(store)' \subseteq granted'
  BY <1>2 DEF NamesInv, Grants, ModesIn
<1>6. CASE LoadFreshAcl
  <2>1. /\ op.s \in Blank /\ blockedOps' = blockedOps
        /\ resourceModes' = [resourceModes EXCEPT ![op.s] = "MODIFY"]
    BY <1>1, <1>6 DEF LoadFreshAcl, FreshAcl
  <2>2. \A n \in Named : resourceModes'[n] = resourceModes[n]
    BY <2>1, TermsDisjoint DEF TypeInv, TypeOK, Ref
  <2>3. QED BY <1>2, <1>3, <1>5, <2>1, <2>2, KeepNames
<1>7. CASE LoadWritable
  <2>1. resourceModes' = Remember(op.s) /\ blockedOps' = blockedOps
    BY <1>1, <1>7 DEF LoadWritable
  <2>2. \A n \in Named : resourceModes'[n] = "MODIFY" => WritableRoot(n)'
    BY <1>2, <1>4, <2>1, RememberNames DEF WritableRoot
  <2>3. QED BY <1>2, <1>3, <1>5, <2>1, <2>2, KeepNames
<1>8. CASE Block
  <2>1. /\ op.s \in Blank /\ resourceModes' = resourceModes
        /\ blockedOps' = [blockedOps EXCEPT ![op.s] = Append(@, op)]
    BY <1>1, <1>8 DEF Block
  <2>2. op.o \in Named => op.o \in claimed'
    BY <1>2, <1>3, <2>1 DEF NamesInv, Claims
  <2>3. ToSet(Append(blockedOps[op.s], op)) = ToSet(blockedOps[op.s]) \cup {op}
    BY <1>3, <2>1, ToSetAppend DEF TypeInv, TypeOK
  <2>4. \A b \in Blank : \A o \in ToSet(blockedOps'[b]) :
          o \in ToSet(blockedOps[b]) \/ (o.o \in Named => o.o \in claimed')
    BY <2>1, <2>2, <2>3 DEF TypeInv, TypeOK
  <2>5. QED BY <1>2, <1>3, <1>5, <2>1, <2>4, KeepNames
<1>9. QED BY <1>6, <1>7, <1>8

\* A search decides for blank nodes; names keep what the look-up said.
LEMMA SearchNames ==
  ASSUME TypeInv, NamesInv, ChainEnds \/ ChainExhausted
  PROVE  NamesInv'
<1>1. UNCHANGED <<store, ops, blockedOps, granted, claimed>>
  BY DEF ChainEnds, ChainExhausted, hist
<1>2. Grants(store)' \subseteq granted'
  BY <1>1 DEF NamesInv, Grants, ModesIn
<1>3. \A n \in Named : n \in Ref /\ n \notin Blank
  BY TermsDisjoint DEF Ref
<1>4. CASE ChainEnds
  <2>1. Preds \subseteq Ref
    BY DEF Preds, Statement, TypeInv, TypeOK
  <2>2. PICK s \in Preds, before \in SUBSET {x \in Preds : Unknown(x)} :
          resourceModes' = SetModes(seen \cup before, Remember(s), WriteMode(s))
    BY <1>4 DEF ChainEnds
  <2>3. \A n \in Named : resourceModes'[n] = Remember(s)[n]
    BY <1>3, <2>2 DEF SetModes, Unknown, TypeInv, TypeOK
  <2>4. \A n \in Named : resourceModes'[n] = "MODIFY" => WritableRoot(n)'
    BY <1>1, <2>1, <2>3, RememberNames DEF WritableRoot
  <2>5. QED BY <1>1, <1>2, <2>4, KeepNames
<1>5. CASE ChainExhausted
  <2>1. \A n \in Named : resourceModes'[n] = resourceModes[n]
    BY <1>3, <1>5 DEF ChainExhausted, SetModes, TypeInv, TypeOK
  <2>2. QED BY <1>1, <1>2, <2>1, KeepNames
<1>6. QED BY <1>4, <1>5

LEMMA NextNames == TypeInv /\ NamesInv /\ [Next]_vars => NamesInv'
<1> SUFFICES ASSUME TypeInv, NamesInv, [Next]_vars PROVE NamesInv'
  OBVIOUS
<1>1. CASE Begin \/ Commit \/ SearchObject \/ FindRoots \/ ChainGrows \/ UNCHANGED vars
  BY <1>1, SameNames
  DEF Begin, Commit, SearchObject, FindRoots, ChainGrows, vars, hist
<1>2. ASSUME NEW batch \in Batches, Call(batch) PROVE NamesInv'
  BY <1>2, CallNames
<1>3. CASE Rollback \/ CommitDelegate \/ Return \/ DenyOp \/ Refuse
  BY <1>3, ForgetNames DEF Rollback, CommitDelegate, Return, DenyOp, Refuse, Fail
<1>4. CASE UnlockObject
  <2>1. PICK r \in toUnlock : Unlock(r)
    BY <1>4 DEF UnlockObject
  <2>2. r \in Blank /\ UNCHANGED <<store, ops, granted, claimed>>
    BY <1>4, <2>1 DEF UnlockObject, hist, TypeInv, TypeOK
  <2>3. QED BY <2>1, <2>2, UnlockNames
<1>5. CASE ApplyNextOp
  <2>1. /\ UNCHANGED <<ops, blockedOps, resourceModes, claimed>>
        /\ granted' = granted \cup Grants(store')
    BY <1>5 DEF ApplyNextOp
  <2>2. Grants(store)' = Grants(store')
    BY DEF Grants, ModesIn
  <2>3. QED BY <2>1, <2>2, KeepNames
<1>6. CASE LoadChecked
  BY <1>6, SameNames DEF LoadChecked, hist
<1>7. CASE ExpandPattern
  BY <1>7, ExpandNames
<1>8. CASE LoadFreshAcl \/ LoadWritable \/ Block
  BY <1>8, TakeNames
<1>9. ASSUME NEW r \in Blank, ExamineRoot(r) PROVE NamesInv'
  BY <1>9, SameNames DEF ExamineRoot, hist
<1>10. CASE UnlockRoot
  <2>1. PICK r : r = goal
    OBVIOUS
  <2>2. r \in Blank /\ Unlock(r) /\ UNCHANGED <<store, ops, granted, claimed>>
    BY <1>10, <2>1 DEF UnlockRoot, hist, TypeInv
  <2>3. QED BY <2>2, UnlockNames
<1>11. CASE DropRoot
  <2>1. /\ UNCHANGED <<store, ops, resourceModes, granted, claimed>>
        /\ blockedOps' = [blockedOps EXCEPT ![goal] = <<>>]
    BY <1>11 DEF DropRoot
  <2>2. \A b \in Blank : ToSet(blockedOps'[b]) \subseteq ToSet(blockedOps[b])
    BY <2>1, ToSetEmpty DEF TypeInv, TypeOK
  <2>3. Grants(store)' \subseteq granted'
    BY <2>1 DEF NamesInv, Grants, ModesIn
  <2>4. QED BY <2>1, <2>2, <2>3, KeepNames
<1>12. CASE ChainEnds \/ ChainExhausted
  BY <1>12, SearchNames
<1>13. QED
  BY <1>1, <1>2, <1>3, <1>4, <1>5, <1>6, <1>7, <1>8, <1>9, <1>10, <1>11, <1>12
  DEF Next, Execute

-----------------------------------------------------------------------------
(* The steps of the data manager *)

LEMMA InitAttach == Init => AttachInv
<1>1. SUFFICES ASSUME Init PROVE AttachInv
  OBVIOUS
<1>2. /\ ToSet(ops) = {} /\ ToSet(checkedOps) = {}
      /\ \A b \in Blank : ToSet(blockedOps[b]) = {}
  BY <1>1, ToSetEmpty DEF Init
<1>3. AllBlocked = {}
  BY <1>2 DEF AllBlocked
<1>4. QED
  BY <1>1, <1>2, <1>3
  DEF Init, AttachInv, LinksInv, SubjectInv, ModesInv, Executing, Ref

\* A new SecureOps knows nothing and has nothing to do.
LEMMA ForgetAttach ==
  ASSUME ForgetOps, phase' \notin {"commit", "auto"}
  PROVE  AttachInv'
<1>1. /\ ToSet(ops') = {} /\ ToSet(checkedOps') = {}
      /\ \A b \in Blank : ToSet(blockedOps'[b]) = {}
  BY ToSetEmpty DEF ForgetOps
<1>2. AllBlocked' = {}
  BY <1>1 DEF AllBlocked
<1>3. QED
  BY <1>1, <1>2
  DEF ForgetOps, AttachInv, LinksInv, SubjectInv, ModesInv, Executing, Ref

\* unlock() of an attached node.
LEMMA UnlockAttach ==
  ASSUME TypeInv, AttachInv, NEW r \in Blank, Attached(r), Unlock(r),
         UNCHANGED <<store, phase, ops, nextOp, links, ownAcls, granted, claimed>>
  PROVE  /\ Learns /\ LinksInv'
         /\ \A b \in Blank : \A op \in ToSet(blockedOps'[b]) : op.s = b
         /\ \A op \in ToSet(checkedOps') : op.s \in Blank /\ Attached(op.s)'
         /\ \A b \in Blank : resourceModes'[b] = "MODIFY" => Attached(b)'
<1> USE DEF TypeInv, TypeOK
<1>1. /\ checkedOps \in Seq(Op) /\ blockedOps[r] \in Seq(Op)
      /\ ToSet(checkedOps') = ToSet(checkedOps) \cup ToSet(blockedOps[r])
  BY ToSetConcat DEF Unlock
<1>2. /\ blockedOps'[r] = <<>> /\ ToSet(blockedOps'[r]) = {}
      /\ \A b \in Blank \ {r} : blockedOps'[b] = blockedOps[b]
  BY ToSetEmpty DEF Unlock
<1>3. AllBlocked' \subseteq AllBlocked /\ ToSet(blockedOps[r]) \subseteq AllBlocked
  <2>1. \A b \in Blank : ToSet(blockedOps'[b]) \subseteq ToSet(blockedOps[b])
    BY <1>2
  <2>2. AllBlocked' = UNION {ToSet(blockedOps'[b]) : b \in Blank}
    BY DEF AllBlocked
  <2>3. AllBlocked = UNION {ToSet(blockedOps[b]) : b \in Blank}
    BY DEF AllBlocked
  <2>4. UNION {ToSet(blockedOps'[b]) : b \in Blank}
          \subseteq UNION {ToSet(blockedOps[b]) : b \in Blank}
    BY <2>1
  <2>5. ToSet(blockedOps[r]) \subseteq UNION {ToSet(blockedOps[b]) : b \in Blank}
    OBVIOUS
  <2>6. QED BY <2>2, <2>3, <2>4, <2>5
<1>5. Learns
  BY DEF Learns
<1>6. LinksInv'
  BY <1>1, <1>3 DEF AttachInv, LinksInv, Linked, Executing
<1>7. \A b \in Blank : \A op \in ToSet(blockedOps'[b]) : op.s = b
  BY <1>2 DEF AttachInv, SubjectInv
<1>8. \A op \in ToSet(checkedOps') : op.s \in Blank /\ Attached(op.s)
  BY <1>1 DEF AttachInv, SubjectInv
<1>9. \A b \in Blank : resourceModes'[b] = "MODIFY" => Attached(b)
  <2>1. SUFFICES ASSUME NEW b \in Blank, resourceModes'[b] = "MODIFY" PROVE Attached(b)
    OBVIOUS
  <2>2. CASE b = r \/ resourceModes[b] = "MODIFY"
    BY <2>2 DEF AttachInv, ModesInv
  <2>3. CASE b # r /\ resourceModes[b] # "MODIFY"
    <3>1. PICK op \in ToSet(blockedOps[r]) : op.o = b
      BY <2>1, <2>3 DEF Unlock, Ref
    <3>2. op.s = r /\ Linked(op)
      BY <1>3, <3>1 DEF AttachInv, SubjectInv, LinksInv
    <3>3. <<r, b>> \in links
      BY <3>1, <3>2 DEF Linked, Ref
    <3>4. QED BY <3>3, LinkAttaches DEF Allowed, Ref
  <2>4. QED BY <2>2, <2>3
<1>10. QED BY <1>5, <1>6, <1>7, <1>8, <1>9, LearnsAttached

\* Loading an operation about an attached node or a writable resource: its
\* objects are attached.
LEMMA LoadAttach ==
  ASSUME TypeInv, AttachInv, Executing, NEW op \in Op, Linked(op),
         op.s \in Ref, Allowed(op.s)', Load(op), links' = links, Learns
  PROVE  /\ Linked(nextOp)' /\ Allowed(nextOp.s)'
         /\ \A b \in toUnlock' : Attached(b)'
<1>1. nextOp' = op /\ toUnlock' = BlankObjects(op)
  BY DEF Load
<1>2. ASSUME NEW b \in BlankObjects(op) PROVE Attached(b)'
  <2>1. b \in Blank
    BY DEF BlankObjects
  <2>2. <<op.s, b>> \in links
    <3>1. CASE op.o # Null
      BY <3>1, <2>1 DEF BlankObjects, Linked
    <3>2. CASE op.o = Null
      <4>1. PICK st \in Matching(op, store) : st.o = b
        BY <3>2 DEF BlankObjects
      <4>2. st \in store /\ st.s = op.s
        BY <4>1, TermsDisjoint DEF Matching, Matches, Ref
      <4>3. <<st.s, st.o>> \in LinksOf(store)
        BY <2>1, <4>1, <4>2 DEF LinksOf
      <4>4. QED BY <4>1, <4>2, <4>3 DEF AttachInv, LinksInv
    <3>3. QED BY <3>1, <3>2
  <2>3. QED
    <3>1. <<op.s, b>>[1] = op.s /\ <<op.s, b>>[2] = b
      OBVIOUS
    <3>2. SUFFICES ASSUME NEW S \in SUBSET Blank, Closed(S)' PROVE b \in S
      BY DEF Attached
    <3>3. <<op.s, b>> \in links'
      BY <2>2
    <3>4. op.s \in S \/ WritableRoot(op.s)'
      BY <3>2 DEF Allowed, Attached
    <3>5. QED BY <3>1, <3>2, <3>3, <3>4 DEF Closed, WritableRoot
<1>3. Linked(nextOp)' /\ Allowed(nextOp.s)'
  BY <1>1 DEF Linked, Allowed, Attached
<1>4. QED BY <1>1, <1>2, <1>3

\* The three parts of the invariant, for steps that disturb little of them.
LEMMA KeepLinks ==
  ASSUME LinksInv, links \subseteq links',
         Executing' => LinksOf(store') \subseteq links',
         \A op \in ToSet(ops') \cup ToSet(checkedOps') \cup AllBlocked' :
           op \in ToSet(ops) \cup ToSet(checkedOps) \cup AllBlocked \/ Linked(op)',
         nextOp' \in {NoOp, nextOp} \/ Linked(nextOp)'
  PROVE  LinksInv'
<1>1. \A op : Linked(op) => Linked(op)'
  BY DEF Linked
<1>2. nextOp' = nextOp /\ Linked(nextOp) => Linked(nextOp)'
  BY DEF Linked
<1>3. LinksOf(store)' = LinksOf(store')
  BY DEF LinksOf
<1>4. QED BY <1>1, <1>2, <1>3 DEF LinksInv

LEMMA KeepSubjects ==
  ASSUME TypeInv, SubjectInv, Learns, UNCHANGED <<checkedOps, blockedOps>>,
         \/ nextOp' = nextOp /\ toUnlock' = toUnlock
         \/ nextOp' = NoOp /\ toUnlock' = {}
  PROVE  SubjectInv'
<1>1. links \subseteq Ref \X Blank
  BY DEF TypeInv, TypeOK
<1>2. \A op \in ToSet(checkedOps') : op.s \in Blank /\ Attached(op.s)'
  BY <1>1, LearnsAttached DEF SubjectInv
<1>3. nextOp' # NoOp => Allowed(nextOp.s)'
  <2>1. SUFFICES ASSUME nextOp' # NoOp PROVE Allowed(nextOp.s)'
    OBVIOUS
  <2>2. nextOp' = nextOp /\ Allowed(nextOp.s)
    BY <2>1 DEF SubjectInv
  <2>3. \A r : Allowed(r) => Allowed(r)'
    BY <1>1, LearnsAttached
  <2>4. QED BY <2>2, <2>3 DEF Allowed, Attached
<1>4. \A b \in toUnlock' : Attached(b)'
  BY <1>1, LearnsAttached DEF SubjectInv
<1>5. \A b \in Blank : \A op \in ToSet(blockedOps'[b]) : op.s = b
  BY DEF SubjectInv
<1>6. QED BY <1>2, <1>3, <1>4, <1>5 DEF SubjectInv

LEMMA KeepModes ==
  ASSUME TypeInv, ModesInv, Learns, UNCHANGED <<chain, seen, goal>>,
         \A b \in Blank : resourceModes'[b] = "MODIFY" => resourceModes[b] = "MODIFY" \/ Attached(b)',
         pc' \in {"ops", "refused"} \/ pc' = pc
  PROVE  ModesInv'
<1>1. links \subseteq Ref \X Blank
  BY DEF TypeInv, TypeOK
<1>2. \A b \in Blank : resourceModes'[b] = "MODIFY" => Attached(b)'
  BY <1>1, LearnsAttached DEF ModesInv
<1>3. pc' = "chain" => ToSet(chain') \subseteq seen' /\ goal' \in seen'
  BY DEF ModesInv
<1>4. pc' = "chain" => Together(seen)'
  <2>1. SUFFICES ASSUME pc' = "chain" PROVE Together(seen)'
    OBVIOUS
  <2>2. Together(seen)
    BY <2>1 DEF ModesInv
  <2>3. \A nodes : Together(nodes) => Together(nodes)'
    BY <1>1, LearnsAttached
  <2>4. QED BY <2>2, <2>3 DEF Together
<1>5. pc' = "granted" => Attached(goal)'
  <2>1. SUFFICES ASSUME pc' = "granted" PROVE Attached(goal)'
    OBVIOUS
  <2>2. Attached(goal)
    BY <2>1 DEF ModesInv
  <2>3. \A b : Attached(b) => Attached(b)'
    BY <1>1, LearnsAttached
  <2>4. QED BY <2>2, <2>3 DEF Attached
<1>6. QED BY <1>2, <1>3, <1>4, <1>5 DEF ModesInv

\* Steps that change no queue, no cache and no search.
LEMMA SameAttach ==
  ASSUME TypeInv, AttachInv, links \subseteq links',
         Executing' => LinksOf(store') \subseteq links',
         UNCHANGED <<ops, checkedOps, blockedOps, resourceModes, nextOp, toUnlock, searchVars,
                     ownAcls, granted, claimed, pc>>
  PROVE  AttachInv'
<1>1. Learns
  BY DEF Learns
<1>2. UNCHANGED <<chain, seen, goal>> /\ AllBlocked' = AllBlocked
  BY DEF searchVars, AllBlocked
<1>3. LinksInv'
  BY <1>2, KeepLinks DEF AttachInv
<1>4. SubjectInv'
  <2>1. SubjectInv /\ UNCHANGED <<checkedOps, blockedOps>>
    BY DEF AttachInv
  <2>2. nextOp' = nextOp /\ toUnlock' = toUnlock
    OBVIOUS
  <2>3. QED BY <1>1, <2>1, <2>2, KeepSubjects
<1>5. ModesInv'
  BY <1>1, <1>2, KeepModes DEF AttachInv
<1>6. QED BY <1>3, <1>4, <1>5 DEF AttachInv

\* The user's calls.
LEMMA CallAttach ==
  ASSUME TypeInv, AttachInv, NEW batch \in Batches, Call(batch)
  PROVE  AttachInv'
<1> DEFINE new == Numbered(batch, accepted)
<1>1. batch \in Seq(Request) /\ Len(batch) \in Nat /\ ops \in Seq(Op) /\ accepted \in Nat
  BY BatchesAreBatches DEF TypeInv, TypeOK
<1>2. /\ new \in Seq(Op) /\ Len(new) = Len(batch)
      /\ \A i \in 1..Len(batch) : new[i].s = batch[i].s /\ new[i].o = batch[i].o
  <2>1. new \in Seq(Op) /\ DOMAIN new = 1..Len(batch)
    BY <1>1, NumberedFacts
  <2>2. DOMAIN new = 1..Len(new) /\ Len(new) \in Nat
    BY <2>1, LenProperties
  <2>3. Len(new) = Len(batch)
    BY <1>1, <2>1, <2>2
  <2>4. QED BY <1>1, <2>1, <2>3, NumberedFacts
<1>3. /\ ops' = ops \o new
      /\ links' = links \cup LinksOf(ToSet(batch))
                        \cup (IF phase = "none" THEN LinksOf(store) ELSE {})
      /\ UNCHANGED <<store, checkedOps, blockedOps, resourceModes, nextOp, toUnlock,
                      chain, seen, goal, ownAcls, granted, pc>>
      /\ claimed \subseteq claimed'
      /\ phase' = IF phase = "none" THEN "auto" ELSE "open"
  BY DEF Call, searchVars
<1> HIDE DEF new
<1>4. ASSUME NEW op \in ToSet(new) PROVE Linked(op)'
  <2>1. PICK i \in 1..Len(batch) : op.s = batch[i].s /\ op.o = batch[i].o
    BY <1>2, ToSetIndex
  <2>2. batch[i] \in ToSet(batch)
    BY <1>1, ToSetIndex
  <2>3. op.s \in Ref /\ op.o \in Blank => <<op.s, op.o>> \in LinksOf(ToSet(batch))
    BY <2>1, <2>2 DEF LinksOf
  <2>4. QED BY <1>3, <2>3 DEF Linked
<1>5. ToSet(ops') = ToSet(ops) \cup ToSet(new) /\ AllBlocked' = AllBlocked
  BY <1>1, <1>2, <1>3, ToSetConcat DEF AllBlocked
<1>6. LinksOf(store') = LinksOf(store) /\ (Executing' => LinksOf(store') \subseteq links')
  BY <1>3 DEF Executing
<1>7. Learns
  BY <1>3 DEF Learns
<1>8. LinksInv'
  BY <1>3, <1>4, <1>5, <1>6, KeepLinks DEF AttachInv
<1>9. SubjectInv'
  BY <1>3, <1>7, KeepSubjects DEF AttachInv
<1>10. ModesInv'
  BY <1>3, <1>7, KeepModes DEF AttachInv
<1>11. QED BY <1>8, <1>9, <1>10 DEF AttachInv

\* An applied operation adds a link that is known already.
LEMMA ApplyAttach ==
  ASSUME TypeInv, AttachInv, ApplyNextOp
  PROVE  AttachInv'
<1>1. /\ nextOp \in Op /\ nextOp # NoOp /\ Linked(nextOp)
      /\ LinksOf(store) \subseteq links
      /\ store' = StoreAfter(nextOp) /\ nextOp' = NoOp
      /\ toUnlock = {}
      /\ granted \subseteq granted'
      /\ UNCHANGED <<links, ownAcls, claimed, ops, checkedOps, blockedOps, resourceModes,
                      toUnlock, pc, chain, seen, goal>>
  BY DEF ApplyNextOp, Flushing, AttachInv, LinksInv, TypeInv, TypeOK, ctl, searchVars
<1>2. LinksOf(store') \subseteq links
  <2>1. SUFFICES ASSUME NEW st \in store', st.s \in Ref, st.o \in Blank
                 PROVE  <<st.s, st.o>> \in links
    BY DEF LinksOf
  <2>2. CASE st \in store
    BY <1>1, <2>1, <2>2 DEF LinksOf
  <2>3. CASE st \notin store
    <3>1. st = [s |-> nextOp.s, p |-> nextOp.p, o |-> nextOp.o]
      BY <1>1, <2>1, <2>3 DEF StoreAfter, Matching
    <3>2. st.s = nextOp.s /\ st.o = nextOp.o
      BY <3>1
    <3>3. QED BY <1>1, <2>1, <3>2 DEF Linked
  <2>4. QED BY <2>2, <2>3
<1>3. Learns /\ AllBlocked' = AllBlocked
  BY <1>1 DEF Learns, AllBlocked
<1>4. LinksInv'
  BY <1>1, <1>2, <1>3, KeepLinks DEF AttachInv
<1>5. SubjectInv'
  BY <1>1, <1>3, KeepSubjects DEF AttachInv
<1>6. ModesInv'
  BY <1>1, <1>3, KeepModes DEF AttachInv
<1>7. QED BY <1>4, <1>5, <1>6 DEF AttachInv

\* The statements a remove pattern is replaced by are in the store.
LEMMA ExpandAttach ==
  ASSUME TypeInv, AttachInv, QueueInv, ExpandPattern
  PROVE  AttachInv'
<1>1. /\ TakesOp /\ Executing
      /\ UNCHANGED <<store, phase, pc, checkedOps, blockedOps, resourceModes, nextOp,
                      toUnlock, chain, seen, goal, links, ownAcls, granted>>
      /\ claimed \subseteq claimed'
  BY DEF ExpandPattern, TakesOp, Flushing, ctl, searchVars
<1>2. /\ IsFiniteSet(Matching(Head(ops), store))
      /\ Matching(Head(ops), store) \subseteq Statement /\ accepted \in Nat
  BY FS_Subset DEF Matching, TypeInv, TypeOK
<1>3. PICK found \in SetToSeqs(Matching(Head(ops), store)) :
        ops' = Numbered([i \in DOMAIN found |->
                    [add |-> FALSE, s |-> found[i].s, p |-> found[i].p, o |-> found[i].o]],
                    accepted) \o Tail(ops)
  BY DEF ExpandPattern
<1> DEFINE removes == [i \in DOMAIN found |->
             [add |-> FALSE, s |-> found[i].s, p |-> found[i].p, o |-> found[i].o]]
           new == Numbered(removes, accepted)
<1>4. /\ found \in Seq(Matching(Head(ops), store))
      /\ DOMAIN found = 1..Len(found) /\ Len(found) \in Nat
  BY <1>2, Arrangement
<1>5. /\ removes \in Seq(Request) /\ Len(removes) = Len(found)
      /\ \A i \in 1..Len(found) : removes[i].s = found[i].s /\ removes[i].o = found[i].o
  BY <1>2, <1>4, ExpansionFacts
<1> HIDE DEF removes
<1>6. /\ new \in Seq(Op) /\ Len(new) = Len(found)
      /\ \A i \in 1..Len(found) : new[i].s = found[i].s /\ new[i].o = found[i].o
  <2>1. new \in Seq(Op) /\ DOMAIN new = 1..Len(found)
    BY <1>2, <1>5, NumberedFacts
  <2>2. DOMAIN new = 1..Len(new) /\ Len(new) \in Nat
    BY <2>1, LenProperties
  <2>3. Len(new) = Len(found)
    BY <1>4, <2>1, <2>2
  <2>4. \A i \in 1..Len(found) : new[i].s = removes[i].s /\ new[i].o = removes[i].o
    BY <1>2, <1>5, NumberedFacts
  <2>5. QED BY <1>5, <2>1, <2>3, <2>4
<1>7. ops' = new \o Tail(ops)
  BY <1>3 DEF removes
<1> HIDE DEF new
<1>8. Tail(ops) \in Seq(Op) /\ ToSet(Tail(ops)) \subseteq ToSet(ops)
  <2>1. ops \in Seq(Op) /\ ops # <<>>
    BY <1>1 DEF TypeInv, TypeOK, TakesOp
  <2>2. QED BY <2>1, ToSetHeadTail
<1>9. ASSUME NEW op \in ToSet(new) PROVE Linked(op)'
  <2>1. PICK i \in 1..Len(found) : op.s = found[i].s /\ op.o = found[i].o
    BY <1>6, ToSetIndex
  <2>2. found[i] \in store
    <3>1. found[i] \in Matching(Head(ops), store)
      BY <1>4, ElementOfSeq
    <3>2. QED BY <3>1 DEF Matching
  <2>3. op.s \in Ref /\ op.o \in Blank => <<op.s, op.o>> \in LinksOf(store)
    BY <2>1, <2>2 DEF LinksOf
  <2>4. LinksOf(store) \subseteq links'
    BY <1>1 DEF AttachInv, LinksInv
  <2>5. QED BY <2>3, <2>4 DEF Linked
<1>10. ToSet(ops') = ToSet(new) \cup ToSet(Tail(ops)) /\ AllBlocked' = AllBlocked
  <2>1. ToSet(new \o Tail(ops)) = ToSet(new) \cup ToSet(Tail(ops))
    BY <1>6, <1>8, ToSetConcat
  <2>2. QED BY <1>1, <1>7, <2>1 DEF AllBlocked
<1>11. LinksOf(store') \subseteq links'
  BY <1>1 DEF AttachInv, LinksInv
<1>12. Learns
  BY <1>1 DEF Learns
<1>13. LinksInv'
  BY <1>1, <1>8, <1>9, <1>10, <1>11, KeepLinks DEF AttachInv
<1>14. SubjectInv'
  BY <1>1, <1>12, KeepSubjects DEF AttachInv
<1>15. ModesInv'
  BY <1>1, <1>12, KeepModes DEF AttachInv
<1>16. QED BY <1>13, <1>14, <1>15 DEF AttachInv

\* unlock() of the objects of the next operation.
LEMMA UnlockObjectAttach ==
  ASSUME TypeInv, AttachInv, UnlockObject
  PROVE  AttachInv'
<1>1. PICK r \in toUnlock : Unlock(r) /\ toUnlock' = toUnlock \ {r}
  BY DEF UnlockObject
<1>2. r \in Blank /\ Attached(r)
  BY <1>1 DEF AttachInv, SubjectInv, TypeInv, TypeOK
<1>3. UNCHANGED <<store, phase, pc, ops, nextOp, chain, seen, goal, links, ownAcls, granted, claimed>>
  BY DEF UnlockObject, ctl, searchVars, hist
<1>4. /\ Learns /\ LinksInv'
      /\ \A b \in Blank : \A op \in ToSet(blockedOps'[b]) : op.s = b
      /\ \A op \in ToSet(checkedOps') : op.s \in Blank /\ Attached(op.s)'
      /\ \A b \in Blank : resourceModes'[b] = "MODIFY" => Attached(b)'
  BY <1>1, <1>2, <1>3, UnlockAttach
<1>5. ModesInv'
  BY <1>3, <1>4, KeepModes DEF AttachInv
<1>6. links \subseteq Ref \X Blank
  BY DEF TypeInv, TypeOK
<1>7. nextOp' # NoOp => Allowed(nextOp.s)'
  <2>1. SUFFICES ASSUME nextOp' # NoOp PROVE Allowed(nextOp.s)'
    OBVIOUS
  <2>2. nextOp' = nextOp /\ Allowed(nextOp.s)
    BY <1>3, <2>1 DEF AttachInv, SubjectInv
  <2>3. \A n : Allowed(n) => Allowed(n)'
    BY <1>4, <1>6, LearnsAttached
  <2>4. QED BY <2>2, <2>3 DEF Allowed, Attached
<1>8. \A b \in toUnlock' : Attached(b)'
  <2>1. \A b \in toUnlock' : Attached(b)
    BY <1>1 DEF AttachInv, SubjectInv
  <2>2. \A n : Attached(n) => Attached(n)'
    BY <1>4, <1>6, LearnsAttached
  <2>3. QED BY <2>1, <2>2
<1>9. SubjectInv'
  BY <1>4, <1>7, <1>8 DEF SubjectInv
<1>10. QED BY <1>4, <1>5, <1>9 DEF AttachInv

\* The next operation comes from a queue whose head it is.
LEMMA LoadSteps ==
  ASSUME TypeInv, AttachInv, Executing, NEW op \in Op, Linked(op), op.s \in Ref, Load(op),
         UNCHANGED <<store, phase, pc, blockedOps, chain, seen, goal, links>>,
         Learns, Allowed(op.s)',
         ToSet(ops') \subseteq ToSet(ops), ToSet(checkedOps') \subseteq ToSet(checkedOps),
         \A b \in Blank : resourceModes'[b] = "MODIFY" => resourceModes[b] = "MODIFY" \/ Attached(b)'
  PROVE  AttachInv'
<1>1. /\ Linked(nextOp)' /\ Allowed(nextOp.s)'
      /\ \A b \in toUnlock' : Attached(b)'
  BY LoadAttach
<1>2. AllBlocked' = AllBlocked
  BY DEF AllBlocked
<1>3. LinksInv'
  <2>1. LinksOf(store') \subseteq links'
    BY DEF AttachInv, LinksInv
  <2>2. QED BY <1>1, <1>2, <2>1, KeepLinks DEF AttachInv
<1>4. \A r : Attached(r) => Attached(r)'
  BY LearnsAttached DEF TypeInv, TypeOK
<1>5. \A b \in Blank : \A o \in ToSet(blockedOps'[b]) : o.s = b
  BY DEF AttachInv, SubjectInv
<1>6. \A o \in ToSet(checkedOps') : o.s \in Blank /\ Attached(o.s)'
  BY <1>4 DEF AttachInv, SubjectInv
<1>7. SubjectInv'
  BY <1>1, <1>5, <1>6 DEF SubjectInv
<1>8. ModesInv'
  BY KeepModes DEF AttachInv
<1>9. QED BY <1>3, <1>7, <1>8 DEF AttachInv

LEMMA LoadCheckedAttach ==
  ASSUME TypeInv, AttachInv, LoadChecked
  PROVE  AttachInv'
<1>1. PICK op : op = Head(checkedOps)
  OBVIOUS
<1>2. /\ Load(op) /\ Executing /\ checkedOps # <<>> /\ checkedOps' = Tail(checkedOps)
      /\ UNCHANGED <<store, phase, pc, ops, blockedOps, resourceModes, chain, seen, goal,
                      links, ownAcls, granted, claimed>>
  BY <1>1 DEF LoadChecked, Flushing, ctl, searchVars, hist
<1>3. /\ op \in Op /\ op \in ToSet(checkedOps)
      /\ ToSet(checkedOps') \subseteq ToSet(checkedOps)
  BY <1>1, <1>2, ToSetHeadTail DEF TypeInv, TypeOK
<1>4. Linked(op) /\ op.s \in Blank /\ Attached(op.s)
  BY <1>3 DEF AttachInv, LinksInv, SubjectInv
<1>5. Learns
  BY <1>2 DEF Learns
<1>6. Allowed(op.s)'
  <2>1. \A r : Allowed(r) => Allowed(r)'
    BY <1>5, LearnsAttached DEF TypeInv, TypeOK
  <2>2. QED BY <1>4, <2>1 DEF Allowed
<1>7. QED
  BY <1>2, <1>3, <1>4, <1>5, <1>6, LoadSteps DEF Ref

\* An operation the user issued passes its checks.
LEMMA LoadFreshAttach ==
  ASSUME TypeInv, AttachInv, LoadFreshAcl
  PROVE  AttachInv'
<1>1. PICK op : op = Head(ops)
  OBVIOUS
<1>2. /\ Load(op) /\ Executing /\ ops # <<>> /\ ops' = Tail(ops) /\ op.s \in Blank
      /\ resourceModes' = [resourceModes EXCEPT ![op.s] = "MODIFY"]
      /\ ownAcls' = ownAcls \cup {op.s}
      /\ UNCHANGED <<store, phase, pc, checkedOps, blockedOps, chain, seen, goal, links,
                      granted, claimed>>
  BY <1>1 DEF LoadFreshAcl, TakesOp, FreshAcl, Flushing, ctl, searchVars
<1>3. op \in Op /\ op \in ToSet(ops) /\ ToSet(ops') \subseteq ToSet(ops)
  BY <1>1, <1>2, ToSetHeadTail DEF TypeInv, TypeOK
<1>4. Linked(op)
  BY <1>3 DEF AttachInv, LinksInv
<1>5. Learns
  BY <1>2 DEF Learns
<1>6. Attached(op.s)'
  BY <1>2 DEF Attached, Closed
<1>7. Allowed(op.s)'
  BY <1>2, <1>6 DEF Allowed
<1>8. \A b \in Blank : resourceModes'[b] = "MODIFY"
        => resourceModes[b] = "MODIFY" \/ Attached(b)'
  <2>1. SUFFICES ASSUME NEW b \in Blank, resourceModes'[b] = "MODIFY",
                        resourceModes[b] # "MODIFY"
                 PROVE  Attached(b)'
    OBVIOUS
  <2>2. b = op.s
    BY <1>2, <2>1 DEF TypeInv, TypeOK, Ref
  <2>3. QED BY <1>6, <2>2
<1>9. QED
  BY <1>2, <1>3, <1>4, <1>5, <1>7, <1>8, LoadSteps DEF Ref

\* Looking up a mode leaves those of blank nodes alone.
LEMMA RememberFacts ==
  ASSUME TypeInv, NEW r \in Ref
  PROVE  /\ \A b \in Blank : Remember(r)[b] = resourceModes[b]
         /\ r \in Blank => (WriteMode(r) = "MODIFY" <=> resourceModes[r] = "MODIFY")
BY TermsDisjoint DEF Remember, WriteMode, TypeInv, TypeOK, Ref

LEMMA LoadWritableAttach ==
  ASSUME TypeInv, AttachInv, NamesInv, LoadWritable
  PROVE  AttachInv'
<1>1. PICK op : op = Head(ops)
  OBVIOUS
<1>2. /\ Load(op) /\ Executing /\ ops # <<>> /\ ops' = Tail(ops) /\ Checks(op)
      /\ WriteMode(op.s) = "MODIFY" /\ resourceModes' = Remember(op.s)
      /\ UNCHANGED <<store, phase, pc, checkedOps, blockedOps, chain, seen, goal, links,
                      ownAcls, granted, claimed>>
  BY <1>1 DEF LoadWritable, TakesOp, Flushing, ctl, searchVars, hist
<1>3. op \in Op /\ op \in ToSet(ops) /\ ToSet(ops') \subseteq ToSet(ops)
  BY <1>1, <1>2, ToSetHeadTail DEF TypeInv, TypeOK
<1>4. Linked(op)
  BY <1>3 DEF AttachInv, LinksInv
<1>5. op.s \in Ref
  BY <1>2, <1>3 DEF Checks, MustExpand, Op
<1>6. /\ \A b \in Blank : resourceModes'[b] = resourceModes[b]
      /\ op.s \in Named => WritableRoot(op.s)'
      /\ op.s \in Blank => resourceModes[op.s] = "MODIFY"
  <2>1. \A b \in Blank : resourceModes'[b] = resourceModes[b]
    BY <1>2, <1>5, RememberFacts
  <2>2. op.s \in Named => WritableRoot(op.s)'
    BY <1>2, WritableName DEF WritableRoot
  <2>3. op.s \in Blank => resourceModes[op.s] = "MODIFY"
    BY <1>2, <1>5, RememberFacts
  <2>4. QED BY <2>1, <2>2, <2>3
<1>7. Learns
  BY <1>2 DEF Learns
<1>8. Allowed(op.s)'
  <2>1. CASE op.s \in Blank
    <3>1. Allowed(op.s)
      BY <1>6, <2>1 DEF Allowed, AttachInv, ModesInv
    <3>2. \A r : Allowed(r) => Allowed(r)'
      BY <1>7, LearnsAttached DEF TypeInv, TypeOK
    <3>3. QED BY <3>1, <3>2 DEF Allowed
  <2>2. CASE op.s \notin Blank
    BY <1>5, <1>6, <2>2 DEF Allowed, Ref
  <2>3. QED BY <2>1, <2>2
<1>9. QED
  BY <1>2, <1>3, <1>4, <1>5, <1>6, <1>7, <1>8, LoadSteps

\* Blocking an operation keeps it with those about the same node.
LEMMA BlockAttach ==
  ASSUME TypeInv, AttachInv, Block
  PROVE  AttachInv'
<1>1. PICK op : op = Head(ops)
  OBVIOUS
<1>2. /\ Executing /\ ops # <<>> /\ ops' = Tail(ops) /\ op.s \in Blank
      /\ blockedOps' = [blockedOps EXCEPT ![op.s] = Append(@, op)]
      /\ UNCHANGED <<store, phase, pc, checkedOps, resourceModes, nextOp, toUnlock, chain,
                      seen, goal, links, ownAcls, granted, claimed>>
  BY <1>1 DEF Block, TakesOp, Flushing, ctl, searchVars, hist
<1>3. op \in Op /\ op \in ToSet(ops) /\ ToSet(ops') \subseteq ToSet(ops)
  BY <1>1, <1>2, ToSetHeadTail DEF TypeInv, TypeOK
<1>4. ToSet(Append(blockedOps[op.s], op)) = ToSet(blockedOps[op.s]) \cup {op}
  BY <1>2, <1>3, ToSetAppend DEF TypeInv, TypeOK
<1>5. \A b \in Blank : ToSet(blockedOps'[b]) =
        IF b = op.s THEN ToSet(blockedOps[b]) \cup {op} ELSE ToSet(blockedOps[b])
  BY <1>2, <1>4 DEF TypeInv, TypeOK
<1>6. AllBlocked' \subseteq AllBlocked \cup {op}
  <2>1. AllBlocked' = UNION {ToSet(blockedOps'[b]) : b \in Blank}
    BY DEF AllBlocked
  <2>2. UNION {ToSet(blockedOps'[b]) : b \in Blank}
          \subseteq (UNION {ToSet(blockedOps[b]) : b \in Blank}) \cup {op}
    <3>1. SUFFICES ASSUME NEW b \in Blank, NEW x \in ToSet(blockedOps'[b])
                   PROVE  x \in ToSet(blockedOps[b]) \/ x = op
      OBVIOUS
    <3>2. QED BY <1>5
  <2>3. QED BY <2>1, <2>2 DEF AllBlocked
<1>7. Learns
  BY <1>2 DEF Learns
<1>8. LinksInv'
  <2>1. LinksOf(store') \subseteq links'
    BY <1>2 DEF AttachInv, LinksInv
  <2>2. QED BY <1>2, <1>3, <1>6, <2>1, KeepLinks DEF AttachInv
<1>9. SubjectInv'
  <2>1. \A b \in Blank : \A o \in ToSet(blockedOps'[b]) : o.s = b
    BY <1>5 DEF AttachInv, SubjectInv
  <2>2. \A r : Attached(r) => Attached(r)'
    BY <1>7, LearnsAttached DEF TypeInv, TypeOK
  <2>3. \A o \in ToSet(checkedOps') : o.s \in Blank /\ Attached(o.s)'
    BY <1>2, <2>2 DEF AttachInv, SubjectInv
  <2>4. nextOp' = NoOp
    BY <1>2 DEF Block, TakesOp, Idle
  <2>5. \A b \in toUnlock' : Attached(b)'
    BY <1>2, <2>2 DEF AttachInv, SubjectInv
  <2>6. QED BY <2>1, <2>3, <2>4, <2>5 DEF SubjectInv
<1>10. ModesInv'
  BY <1>2, <1>7, KeepModes DEF AttachInv
<1>11. QED BY <1>8, <1>9, <1>10 DEF AttachInv

-----------------------------------------------------------------------------
(* The search for a chain *)

\* A search starts with one node, which is together with itself.
LEMMA SearchAttach ==
  ASSUME TypeInv, AttachInv, NEW r \in Blank, Search(r),
         UNCHANGED <<store, phase, ops, checkedOps, blockedOps, resourceModes, nextOp,
                     toUnlock, links, ownAcls, granted, claimed>>
  PROVE  AttachInv'
<1>1. Learns /\ AllBlocked' = AllBlocked
  BY DEF Learns, AllBlocked
<1>2. LinksInv'
  <2>1. Executing' => LinksOf(store') \subseteq links'
    BY DEF AttachInv, LinksInv, Executing
  <2>2. QED BY <1>1, <2>1, KeepLinks DEF AttachInv
<1>3. SubjectInv'
  BY <1>1, KeepSubjects DEF AttachInv
<1>4. \A n : Attached(n) => Attached(n)'
  BY <1>1, LearnsAttached DEF TypeInv, TypeOK
<1>5. \A b \in Blank : resourceModes'[b] = "MODIFY" => Attached(b)'
  BY <1>4 DEF AttachInv, ModesInv
<1>6. /\ pc' = "chain" /\ chain' = <<r>> /\ seen' = {r} /\ goal' = r
      /\ ToSet(chain') \subseteq seen' /\ goal' \in seen'
  BY DEF Search, ToSet
<1>7. Together(seen)'
  BY <1>6 DEF Together
<1>8. QED BY <1>2, <1>3, <1>5, <1>6, <1>7 DEF AttachInv, ModesInv

LEMMA ExamineAttach ==
  ASSUME TypeInv, AttachInv, NEW r \in Blank, ExamineRoot(r)
  PROVE  AttachInv'
<1>1. UNCHANGED <<store, phase, ops, checkedOps, blockedOps, resourceModes, nextOp,
                  toUnlock, links, ownAcls, granted, claimed>>
  BY DEF ExamineRoot, hist
<1>2. CASE WriteMode(r) = "NONE"
  BY <1>1, <1>2, SearchAttach DEF ExamineRoot
<1>3. CASE WriteMode(r) # "NONE"
  <2>1. /\ pc' = "granted" /\ goal' = r
        /\ resourceModes[r] = "MODIFY"
    BY <1>3, RememberFacts, WriteModeFacts DEF ExamineRoot, TypeInv, TypeOK, Ref
  <2>2. Learns /\ AllBlocked' = AllBlocked
    BY <1>1 DEF Learns, AllBlocked
  <2>3. LinksInv'
    <3>1. Executing' => LinksOf(store') \subseteq links'
      BY <1>1 DEF AttachInv, LinksInv, Executing
    <3>2. QED BY <1>1, <2>2, <3>1, KeepLinks DEF AttachInv
  <2>4. SubjectInv'
    BY <1>1, <2>2, KeepSubjects DEF AttachInv
  <2>5. \A n : Attached(n) => Attached(n)'
    BY <2>2, LearnsAttached DEF TypeInv, TypeOK
  <2>6. \A b \in Blank : resourceModes'[b] = "MODIFY" => Attached(b)'
    BY <1>1, <2>5 DEF AttachInv, ModesInv
  <2>7. Attached(goal)'
    <3>1. Attached(r)'
      BY <2>1, <2>5 DEF AttachInv, ModesInv
    <3>2. QED BY <2>1, <3>1 DEF Attached
  <2>8. QED BY <2>1, <2>3, <2>4, <2>6, <2>7 DEF AttachInv, ModesInv
<1>4. QED BY <1>2, <1>3

\* A link hands attachment on, also when both are learnt in this step.
LEMMA LinkAttachesNext ==
  ASSUME NEW s \in Ref, NEW b \in Blank, <<s, b>> \in links', Allowed(s)'
  PROVE  Attached(b)'
<1>1. SUFFICES ASSUME NEW S \in SUBSET Blank, Closed(S)' PROVE b \in S
  BY DEF Attached
<1>2. <<s, b>>[1] = s /\ <<s, b>>[2] = b
  OBVIOUS
<1>3. s \in S \/ WritableRoot(s)'
  BY <1>1 DEF Allowed, Attached
<1>4. QED BY <1>1, <1>2, <1>3 DEF Closed, WritableRoot

\* What a search reads next: the head of its queue is a visited node, and the
\* subjects of the statements about it are linked to it.
LEMMA PredsFacts ==
  ASSUME TypeInv, AttachInv, PhaseInv, pc = "chain", NEW h, h = Head(chain)
  PROVE  /\ h \in Blank /\ h \in seen /\ seen \in SUBSET Blank /\ goal \in seen
         /\ Together(seen)
         /\ Tail(chain) \in Seq(Blank) /\ ToSet(Tail(chain)) \subseteq seen
         /\ Preds \subseteq Ref
         /\ \A s \in Preds : <<s, h>> \in links
<1>1. /\ chain \in Seq(Blank) /\ chain # <<>> /\ h \in ToSet(chain) /\ h \in Blank
      /\ Tail(chain) \in Seq(Blank) /\ ToSet(Tail(chain)) \subseteq ToSet(chain)
  BY ToSetHeadTail DEF TypeInv, TypeOK
<1>2. h \in seen /\ ToSet(chain) \subseteq seen /\ goal \in seen /\ Together(seen)
  BY <1>1 DEF AttachInv, ModesInv
<1>3. Preds \subseteq Ref
  BY DEF Preds, Statement, TypeInv, TypeOK
<1>4. LinksOf(store) \subseteq links
  BY DEF AttachInv, LinksInv, PhaseInv
<1>5. ASSUME NEW s \in Preds PROVE <<s, h>> \in links
  <2>1. PICK st \in store : st.o = h /\ st.s = s
    BY DEF Preds
  <2>2. <<st.s, st.o>> \in LinksOf(store)
    BY <1>1, <1>3, <2>1 DEF LinksOf
  <2>3. QED BY <1>4, <2>1, <2>2
<1>6. QED BY <1>1, <1>2, <1>3, <1>5 DEF TypeInv, TypeOK

LEMMA GrowsAttach ==
  ASSUME TypeInv, AttachInv, PhaseInv, ChainGrows
  PROVE  AttachInv'
<1>1. PICK h, nodes : h = Head(chain) /\ nodes = seen \cup Preds
  OBVIOUS
<1>2. /\ pc = "chain" /\ \A s \in Preds : Unknown(s)
      /\ seen' = nodes
      /\ UNCHANGED <<store, phase, pc, ops, checkedOps, blockedOps, resourceModes, nextOp,
                      toUnlock, goal, links, ownAcls, granted, claimed>>
  BY <1>1 DEF ChainGrows, ctl, hist
<1>3. Preds \subseteq Blank
  BY <1>2 DEF Unknown
<1>4. Together(nodes)
  BY <1>1, <1>2, <1>3, PredsFacts, TogetherGrows
<1>5. ToSet(chain') \subseteq seen'
  <2>1. PICK more \in SetToSeqs(Preds \ seen) : chain' = Tail(chain) \o more
    BY DEF ChainGrows
  <2>2. IsFiniteSet(Preds \ seen)
    BY <1>3, BlankFinite, FS_Subset
  <2>3. more \in Seq(Preds \ seen)
    BY <2>1, <2>2, Arrangement
  <2>4. ToSet(more) \subseteq Preds /\ more \in Seq(Blank)
    BY <1>3, <2>3, ToSetIndex, SeqMonotonic
  <2>5. ToSet(Tail(chain) \o more) = ToSet(Tail(chain)) \cup ToSet(more)
    BY <1>1, <1>2, <2>4, PredsFacts, ToSetConcat
  <2>6. QED BY <1>1, <1>2, <2>1, <2>4, <2>5, PredsFacts
<1>6. Learns /\ AllBlocked' = AllBlocked
  BY <1>2 DEF Learns, AllBlocked
<1>7. LinksInv'
  <2>1. LinksOf(store') \subseteq links'
    BY <1>2 DEF AttachInv, LinksInv, PhaseInv
  <2>2. QED BY <1>2, <1>6, <2>1, KeepLinks DEF AttachInv
<1>8. SubjectInv'
  BY <1>2, <1>6, KeepSubjects DEF AttachInv
<1>9. ModesInv'
  <2>1. /\ \A n : Attached(n) => Attached(n)'
        /\ Together(nodes)'
    BY <1>4, <1>6, LearnsAttached DEF TypeInv, TypeOK
  <2>2. \A b \in Blank : resourceModes'[b] = "MODIFY" => Attached(b)'
    BY <1>2, <2>1 DEF AttachInv, ModesInv
  <2>3. goal' \in seen'
    BY <1>1, <1>2, PredsFacts
  <2>4. Together(seen)'
    BY <1>2, <2>1 DEF Together
  <2>5. QED BY <1>2, <1>5, <2>2, <2>3, <2>4 DEF ModesInv
<1>10. QED BY <1>7, <1>8, <1>9 DEF AttachInv

\* A known mode decides for all visited nodes: they are linked to each other,
\* and one of them to a resource that may be changed.
LEMMA EndsAttach ==
  ASSUME TypeInv, AttachInv, NamesInv, PhaseInv, ChainEnds
  PROVE  AttachInv'
<1>1. PICK h : h = Head(chain)
  OBVIOUS
<1>2. PICK s \in {x \in Preds : ~Unknown(x)}, before \in SUBSET {x \in Preds : Unknown(x)} :
        /\ resourceModes' = SetModes(seen \cup before, Remember(s), WriteMode(s))
        /\ pc' = IF WriteMode(s) = "NONE" THEN "refused"
                 ELSE IF roots = {} THEN "ops" ELSE "granted"
  BY DEF ChainEnds
<1>3. PICK nodes : nodes = seen \cup before
  OBVIOUS
<1>4. /\ pc = "chain"
      /\ UNCHANGED <<store, phase, ops, checkedOps, blockedOps, nextOp, toUnlock, goal,
                      links, ownAcls, granted, claimed>>
  BY DEF ChainEnds, hist
<1>5. /\ h \in Blank /\ h \in nodes /\ goal \in nodes
      /\ s \in Ref /\ <<s, h>> \in links
      /\ before \in SUBSET Blank /\ \A n \in before : <<n, h>> \in links
      /\ nodes \in SUBSET Blank
  BY <1>1, <1>3, <1>4, PredsFacts DEF Unknown
<1>6. Together(nodes)
  BY <1>1, <1>3, <1>4, <1>5, PredsFacts, TogetherGrows
<1>7. \A n \in Ref : resourceModes'[n] = IF n \in nodes THEN WriteMode(s) ELSE Remember(s)[n]
  BY <1>2, <1>3 DEF SetModes
<1>8. Learns
  BY <1>4 DEF Learns
<1>9. /\ \A n : Attached(n) => Attached(n)'
      /\ \A n : Allowed(n) => Allowed(n)'
      /\ Together(nodes)'
  BY <1>6, <1>8, LearnsAttached DEF TypeInv, TypeOK
<1>10. ASSUME WriteMode(s) = "MODIFY" PROVE \A n \in nodes : Attached(n)'
  <2>1. Allowed(s)'
    <3>1. CASE s \in Blank
      <4>1. Allowed(s)
        BY <1>5, <1>10, <3>1, RememberFacts DEF Allowed, AttachInv, ModesInv
      <4>2. QED BY <1>9, <4>1
    <3>2. CASE s \notin Blank
      <4>1. s \in Named /\ s \notin nodes
        BY <1>5, <3>2 DEF Ref
      <4>2. WritableRoot(s)'
        BY <1>4, <1>10, <4>1, WritableName DEF WritableRoot
      <4>3. QED BY <3>2, <4>1, <4>2 DEF Allowed
    <3>3. QED BY <3>1, <3>2
  <2>2. Attached(h)'
    BY <1>4, <1>5, <2>1, LinkAttachesNext
  <2>3. QED BY <1>5, <1>9, <2>2 DEF Together, Attached
<1>11. WriteMode(s) \in {"MODIFY", "NONE"}
  BY <1>5, WriteModeFacts DEF TypeInv, TypeOK
<1>12. AllBlocked' = AllBlocked
  BY <1>4 DEF AllBlocked
<1>13. LinksInv'
  <2>1. LinksOf(store') \subseteq links'
    BY <1>4 DEF AttachInv, LinksInv, PhaseInv
  <2>2. QED BY <1>4, <1>12, <2>1, KeepLinks DEF AttachInv
<1>14. SubjectInv'
  BY <1>4, <1>8, KeepSubjects DEF AttachInv
<1>15. \A b \in Blank : resourceModes'[b] = "MODIFY" => Attached(b)'
  <2>1. SUFFICES ASSUME NEW b \in Blank, resourceModes'[b] = "MODIFY" PROVE Attached(b)'
    OBVIOUS
  <2>2. CASE b \in nodes
    BY <1>7, <1>10, <2>1, <2>2 DEF Ref
  <2>3. CASE b \notin nodes
    BY <1>5, <1>7, <1>9, <2>1, <2>3, RememberFacts DEF AttachInv, ModesInv, Ref
  <2>4. QED BY <2>2, <2>3
<1>16. pc' = "granted" => Attached(goal)'
  <2>1. SUFFICES ASSUME pc' = "granted" PROVE Attached(goal)'
    OBVIOUS
  <2>2. WriteMode(s) = "MODIFY"
    BY <1>2, <1>11, <2>1
  <2>3. PICK g : g = goal
    OBVIOUS
  <2>4. Attached(g)'
    BY <1>5, <1>10, <2>2, <2>3
  <2>5. QED BY <1>4, <2>3, <2>4 DEF Attached
<1>17. pc' # "chain"
  BY <1>2
<1>18. QED BY <1>13, <1>14, <1>15, <1>16, <1>17 DEF AttachInv, ModesInv

\* Nothing but blank nodes of unknown mode leads to the node: all are refused.
LEMMA ExhaustedAttach ==
  ASSUME TypeInv, AttachInv, PhaseInv, ChainExhausted
  PROVE  AttachInv'
<1>1. /\ resourceModes' = SetModes(seen, resourceModes, "NONE")
      /\ pc = "chain" /\ pc' = "refused"
      /\ UNCHANGED <<store, phase, ops, checkedOps, blockedOps, nextOp, toUnlock, goal,
                      links, ownAcls, granted, claimed>>
  BY DEF ChainExhausted, hist
<1>2. Learns /\ AllBlocked' = AllBlocked
  BY <1>1 DEF Learns, AllBlocked
<1>3. LinksInv'
  <2>1. LinksOf(store') \subseteq links'
    BY <1>1 DEF AttachInv, LinksInv, PhaseInv
  <2>2. QED BY <1>1, <1>2, <2>1, KeepLinks DEF AttachInv
<1>4. SubjectInv'
  BY <1>1, <1>2, KeepSubjects DEF AttachInv
<1>5. \A n : Attached(n) => Attached(n)'
  BY <1>2, LearnsAttached DEF TypeInv, TypeOK
<1>6. \A b \in Blank : resourceModes'[b] = "MODIFY" => Attached(b)'
  BY <1>1, <1>5 DEF AttachInv, ModesInv, SetModes, Ref
<1>7. QED BY <1>1, <1>3, <1>4, <1>6 DEF AttachInv, ModesInv

-----------------------------------------------------------------------------
(* The roots *)

LEMMA UnlockRootAttach ==
  ASSUME TypeInv, AttachInv, UnlockRoot
  PROVE  AttachInv'
<1>1. PICK r : r = goal
  OBVIOUS
<1>2. /\ pc = "granted" /\ pc' = "ops" /\ Unlock(r) /\ r \in Blank
      /\ UNCHANGED <<store, phase, ops, nextOp, toUnlock, chain, seen, goal, links, ownAcls, granted, claimed>>
  BY <1>1 DEF UnlockRoot, searchVars, hist, TypeInv
<1>3. Attached(r)
  BY <1>1, <1>2 DEF AttachInv, ModesInv
<1>4. /\ Learns /\ LinksInv'
      /\ \A b \in Blank : \A op \in ToSet(blockedOps'[b]) : op.s = b
      /\ \A op \in ToSet(checkedOps') : op.s \in Blank /\ Attached(op.s)'
      /\ \A b \in Blank : resourceModes'[b] = "MODIFY" => Attached(b)'
  BY <1>2, <1>3, UnlockAttach
<1>5. /\ \A n : Attached(n) => Attached(n)'
      /\ \A n : Allowed(n) => Allowed(n)'
  BY <1>4, LearnsAttached DEF TypeInv, TypeOK
<1>6. nextOp' # NoOp => Allowed(nextOp.s)'
  <2>1. PICK op : op = nextOp
    OBVIOUS
  <2>2. op # NoOp => Allowed(op.s)'
    BY <1>5, <2>1 DEF AttachInv, SubjectInv
  <2>3. QED BY <1>2, <2>1, <2>2 DEF Allowed, Attached
<1>7. \A b \in toUnlock' : Attached(b)'
  BY <1>2, <1>5 DEF AttachInv, SubjectInv
<1>8. QED BY <1>2, <1>4, <1>6, <1>7 DEF AttachInv, SubjectInv, ModesInv

LEMMA DropRootAttach ==
  ASSUME TypeInv, AttachInv, DropRoot
  PROVE  AttachInv'
<1>1. /\ blockedOps' = [blockedOps EXCEPT ![goal] = <<>>] /\ pc' = "ops"
      /\ goal \in Blank
      /\ UNCHANGED <<store, phase, ops, checkedOps, resourceModes, nextOp, toUnlock,
                      chain, seen, goal, links, ownAcls, granted, claimed>>
  BY DEF DropRoot, searchVars, TypeInv
<1>2. \A b \in Blank : ToSet(blockedOps'[b]) \subseteq ToSet(blockedOps[b])
  BY <1>1, ToSetEmpty DEF TypeInv, TypeOK
<1>3. AllBlocked' \subseteq AllBlocked
  <2>1. AllBlocked' = UNION {ToSet(blockedOps'[b]) : b \in Blank}
    BY DEF AllBlocked
  <2>2. UNION {ToSet(blockedOps'[b]) : b \in Blank}
          \subseteq UNION {ToSet(blockedOps[b]) : b \in Blank}
    BY <1>2
  <2>3. QED BY <2>1, <2>2 DEF AllBlocked
<1>4. Learns
  BY <1>1 DEF Learns
<1>5. LinksInv'
  <2>1. Executing' => LinksOf(store') \subseteq links'
    BY <1>1 DEF AttachInv, LinksInv, Executing
  <2>2. QED BY <1>1, <1>3, <2>1, KeepLinks DEF AttachInv
<1>6. /\ \A n : Attached(n) => Attached(n)'
      /\ \A n : Allowed(n) => Allowed(n)'
  BY <1>4, LearnsAttached DEF TypeInv, TypeOK
<1>7. SubjectInv'
  <2>1. nextOp' # NoOp => Allowed(nextOp.s)'
    <3>1. PICK op : op = nextOp
      OBVIOUS
    <3>2. op # NoOp => Allowed(op.s)'
      BY <1>6, <3>1 DEF AttachInv, SubjectInv
    <3>3. QED BY <1>1, <3>1, <3>2 DEF Allowed, Attached
  <2>2. \A b \in toUnlock' : Attached(b)'
    BY <1>1, <1>6 DEF AttachInv, SubjectInv
  <2>3. \A op \in ToSet(checkedOps') : op.s \in Blank /\ Attached(op.s)'
    BY <1>1, <1>6 DEF AttachInv, SubjectInv
  <2>4. \A b \in Blank : \A op \in ToSet(blockedOps'[b]) : op.s = b
    BY <1>2 DEF AttachInv, SubjectInv
  <2>5. QED BY <2>1, <2>2, <2>3, <2>4 DEF SubjectInv
<1>8. ModesInv'
  BY <1>1, <1>4, KeepModes DEF AttachInv
<1>9. QED BY <1>5, <1>7, <1>8 DEF AttachInv

-----------------------------------------------------------------------------
(* No detached node is changed *)

LEMMA NextAttach ==
  TypeInv /\ QueueInv /\ PhaseInv /\ NamesInv /\ AttachInv /\ [Next]_vars => AttachInv'
<1> SUFFICES ASSUME TypeInv, QueueInv, PhaseInv, NamesInv, AttachInv, [Next]_vars PROVE AttachInv'
  OBVIOUS
<1>1. CASE Begin
  BY <1>1, SameAttach DEF Begin, hist, searchVars, Executing
<1>2. ASSUME NEW batch \in Batches, Call(batch) PROVE AttachInv'
  BY <1>2, CallAttach
<1>3. CASE Commit
  <2>1. LinksOf(store') \subseteq links' /\ links \subseteq links'
    BY <1>3 DEF Commit
  <2>2. QED BY <1>3, <2>1, SameAttach DEF Commit
<1>4. CASE Rollback \/ CommitDelegate \/ Return
  BY <1>4, ForgetAttach DEF Rollback, CommitDelegate, Return
<1>5. CASE DenyOp \/ Refuse
  BY <1>5, ForgetAttach DEF DenyOp, Refuse, Fail
<1>6. CASE UnlockObject \/ ApplyNextOp \/ LoadChecked \/ ExpandPattern \/ LoadFreshAcl
           \/ LoadWritable \/ Block
  BY <1>6, UnlockObjectAttach, ApplyAttach, LoadCheckedAttach, ExpandAttach, LoadFreshAttach,
     LoadWritableAttach, BlockAttach
<1>7. CASE SearchObject
  <2>1. PICK r : r = Head(ops).o
    OBVIOUS
  <2>2. r \in Blank /\ Search(r)
    BY <1>7, <2>1 DEF SearchObject, MustSearch
  <2>3. QED BY <1>7, <2>2, SearchAttach DEF SearchObject, hist
<1>8. CASE FindRoots
  <2>1. Executing' => LinksOf(store') \subseteq links'
    BY <1>8 DEF FindRoots, ctl, hist, AttachInv, LinksInv, Executing
  <2>2. QED BY <1>8, <2>1, SameAttach DEF FindRoots, ctl, hist
<1>9. ASSUME NEW r \in Blank, ExamineRoot(r) PROVE AttachInv'
  BY <1>9, ExamineAttach
<1>10. CASE UnlockRoot \/ DropRoot
  BY <1>10, UnlockRootAttach, DropRootAttach
<1>11. CASE ChainEnds \/ ChainGrows \/ ChainExhausted
  BY <1>11, EndsAttach, GrowsAttach, ExhaustedAttach
<1>12. CASE UNCHANGED vars
  <2>1. Executing' => LinksOf(store') \subseteq links'
    BY <1>12 DEF vars, ctl, hist, AttachInv, LinksInv, Executing
  <2>2. QED BY <1>12, <2>1, SameAttach DEF vars, ctl, hist, searchVars
<1>13. QED
  BY <1>1, <1>2, <1>3, <1>4, <1>5, <1>6, <1>7, <1>8, <1>9, <1>10, <1>11, <1>12
  DEF Next, Execute

\* Whatever stores and calls there are: an operation about a blank node is only
\* handed to the store when links of the store or of the same unit of work
\* attach the node to a resource the access control lists of the store grant, or
\* to one an operation on a blank node names, which unlock() takes as granted.
THEOREM NoDetached == Spec => []NoDetachedChange
<1>1. AttachInv => NoDetachedChange
  BY DEF AttachInv, SubjectInv, NoDetachedChange, Allowed
<1>2. QED
  BY InitType, NextType, InitQueue, NextQueue, InitPhase, NextPhase, InitAttach, NextAttach,
     InitNames, NextNames, <1>1, PTL DEF Spec
=============================================================================
