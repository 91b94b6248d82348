------------------------ MODULE ChangeTrackerProofs ------------------------
(***************************************************************************)
(* The safety properties of ChangeTracker, for any models, users, lists of *)
(* changes and bounds.                                                     *)
(***************************************************************************)
EXTENDS ChangeTracker, SequenceTheorems, TLAPS

\* commitChanges() holds changes only while it runs: what it takes replaces
\* nothing.
IdleHoldsNothing == ~writing => localChanges = NoChanges

\* While the field future is set, a task is due.
FutureIsDue == future => due > 0

\* The inductive invariant.
Inv ==
  /\ TypeOK
  /\ IdleHoldsNothing
  /\ FutureIsDue
  /\ AuditComplete
  /\ NoneStranded

-----------------------------------------------------------------------------
(* What is read from an audit model, and what a description adds to it *)

ReadBack(t) == [i \in 1..Len(t) |-> [stmt |-> t[i].stmt, user |-> t[i].agent]]

LEMMA ReadBackType ==
  ASSUME NEW t \in Seq(ChangeStatement)
  PROVE  /\ ReadBack(t) \in Seq(Change)
         /\ Len(ReadBack(t)) = Len(t)
         /\ \A i \in 1..Len(t) : ReadBack(t)[i] = [stmt |-> t[i].stmt, user |-> t[i].agent]
<1>1. Len(t) \in Nat
  BY LenProperties
<1>2. \A i \in 1..Len(t) : [stmt |-> t[i].stmt, user |-> t[i].agent] \in Change
  <2>1. \A i \in 1..Len(t) : t[i] \in ChangeStatement
    BY ElementOfSeq
  <2>2. QED BY <2>1 DEF Change, ChangeStatement
<1>3. QED BY <1>1, <1>2 DEF ReadBack

LEMMA DescribedType ==
  ASSUME NEW s \in Seq(Change), NEW n \in 1..Len(s)
  PROVE  /\ Described(s, n) \in Seq(ChangeStatement)
         /\ Len(Described(s, n)) = n
         /\ \A i \in 1..n : Described(s, n)[i] =
              [stmt |-> s[i].stmt, agent |-> s[1].user]
<1>1. Len(s) \in Nat /\ n \in Nat /\ n >= 1 /\ n <= Len(s)
  BY LenProperties
<1>2. \A i \in 1..n : s[i] \in Change /\ s[1] \in Change
  BY <1>1, ElementOfSeq
<1>3. \A i \in 1..n : [stmt |-> s[i].stmt, agent |-> s[1].user] \in ChangeStatement
  BY <1>2 DEF Change, ChangeStatement
<1>4. QED BY <1>1, <1>3 DEF Described

\* Joining three sequences of changes.
LEMMA JoinAssociates ==
  \A a, b, c \in Seq(Change) : a \o b \in Seq(Change) /\ (a \o b) \o c = a \o (b \o c)
<1>1. SUFFICES ASSUME NEW a \in Seq(Change), NEW b \in Seq(Change), NEW c \in Seq(Change)
               PROVE  a \o b \in Seq(Change) /\ (a \o b) \o c = a \o (b \o c)
  OBVIOUS
<1>2. a \o b \in Seq(Change)
  BY ConcatProperties
<1>3. (a \o b) \o c = a \o (b \o c)
  OBVIOUS
<1>4. QED BY <1>2, <1>3

\* What is read from two parts of an audit model.
LEMMA ReadBackConcat ==
  ASSUME NEW t \in Seq(ChangeStatement), NEW d \in Seq(ChangeStatement)
  PROVE  ReadBack(t \o d) = ReadBack(t) \o ReadBack(d)
<1>1. /\ t \o d \in Seq(ChangeStatement) /\ Len(t \o d) = Len(t) + Len(d)
      /\ \A i \in 1..(Len(t) + Len(d)) : (t \o d)[i] = IF i <= Len(t) THEN t[i] ELSE d[i - Len(t)]
  BY ConcatProperties
<1>2. /\ Len(t) \in Nat /\ Len(d) \in Nat
      /\ ReadBack(t) \in Seq(Change) /\ Len(ReadBack(t)) = Len(t)
      /\ ReadBack(d) \in Seq(Change) /\ Len(ReadBack(d)) = Len(d)
      /\ ReadBack(t \o d) \in Seq(Change) /\ Len(ReadBack(t \o d)) = Len(t) + Len(d)
  BY <1>1, LenProperties, ReadBackType
<1>3. /\ ReadBack(t) \o ReadBack(d) \in Seq(Change)
      /\ Len(ReadBack(t) \o ReadBack(d)) = Len(ReadBack(t)) + Len(ReadBack(d))
      /\ \A i \in 1..(Len(ReadBack(t)) + Len(ReadBack(d))) :
           (ReadBack(t) \o ReadBack(d))[i] =
             IF i <= Len(ReadBack(t)) THEN ReadBack(t)[i] ELSE ReadBack(d)[i - Len(ReadBack(t))]
  <2> DEFINE a == ReadBack(t)
             b == ReadBack(d)
  <2>1. a \in Seq(Change) /\ b \in Seq(Change)
    BY <1>2
  <2> HIDE DEF a, b
  <2>2. /\ a \o b \in Seq(Change)
        /\ Len(a \o b) = Len(a) + Len(b)
        /\ \A i \in 1..(Len(a) + Len(b)) :
             (a \o b)[i] = IF i <= Len(a) THEN a[i] ELSE b[i - Len(a)]
    BY <2>1, ConcatProperties
  <2>3. QED BY <2>2 DEF a, b
<1>4. ASSUME NEW i \in 1..(Len(t) + Len(d))
      PROVE  ReadBack(t \o d)[i] = (ReadBack(t) \o ReadBack(d))[i]
  <2>1. ReadBack(t \o d)[i] = [stmt |-> (t \o d)[i].stmt, user |-> (t \o d)[i].agent]
    BY <1>1, ReadBackType
  <2>2. CASE i <= Len(t)
    <3>1. i \in 1..Len(t)
      BY <1>2, <2>2
    <3>2. ReadBack(t)[i] = [stmt |-> t[i].stmt, user |-> t[i].agent]
      BY <3>1, ReadBackType
    <3>3. (ReadBack(t) \o ReadBack(d))[i] = ReadBack(t)[i]
      BY <1>2, <1>3, <2>2
    <3>4. QED BY <1>1, <2>1, <2>2, <3>2, <3>3
  <2>3. CASE ~(i <= Len(t))
    <3>1. i - Len(t) \in 1..Len(d)
      BY <1>2, <2>3
    <3>2. ReadBack(d)[i - Len(t)] = [stmt |-> d[i - Len(t)].stmt, user |-> d[i - Len(t)].agent]
      BY <3>1, ReadBackType
    <3>3. (ReadBack(t) \o ReadBack(d))[i] = ReadBack(d)[i - Len(t)]
      BY <1>2, <1>3, <2>3
    <3>4. QED BY <1>1, <2>1, <2>3, <3>2, <3>3
  <2>4. QED BY <2>2, <2>3
<1>5. Len(ReadBack(t) \o ReadBack(d)) = Len(ReadBack(t \o d))
  BY <1>2, <1>3
<1>6. QED BY <1>2, <1>3, <1>4, <1>5, SeqEqual

\* A description of changes of one user says who made which of them.
LEMMA ReadBackDescribed ==
  ASSUME NEW s \in Seq(Change), NEW n \in 1..Len(s), SameUser(s, n)
  PROVE  ReadBack(Described(s, n)) = SubSeq(s, 1, n)
<1>1. /\ Len(s) \in Nat /\ n \in Nat /\ n >= 1 /\ n <= Len(s)
      /\ \A i \in 1..n : s[i] \in Change
  BY LenProperties, ElementOfSeq
<1>2. /\ Described(s, n) \in Seq(ChangeStatement) /\ Len(Described(s, n)) = n
      /\ \A i \in 1..n : Described(s, n)[i] =
           [stmt |-> s[i].stmt, agent |-> s[1].user]
  BY DescribedType
<1>3. /\ ReadBack(Described(s, n)) \in Seq(Change) /\ Len(ReadBack(Described(s, n))) = n
      /\ \A i \in 1..n : ReadBack(Described(s, n))[i] =
           [stmt |-> Described(s, n)[i].stmt, user |-> Described(s, n)[i].agent]
  BY <1>2, ReadBackType
<1>4. \A i \in 1..n : [stmt |-> s[i].stmt, user |-> s[1].user] = s[i]
  BY <1>1 DEF SameUser, Change
<1>5. \A i \in 1..n : ReadBack(Described(s, n))[i] = s[i]
  BY <1>2, <1>3, <1>4
<1>6. /\ SubSeq(s, 1, n) \in Seq(Change) /\ Len(SubSeq(s, 1, n)) = n
      /\ \A i \in 1..n : SubSeq(s, 1, n)[i] = s[i]
  <2>1. /\ SubSeq(s, 1, n) \in Seq(Change)
        /\ Len(SubSeq(s, 1, n)) = IF 1 <= n THEN n - 1 + 1 ELSE 0
        /\ \A i \in 1..(n - 1 + 1) : SubSeq(s, 1, n)[i] = s[1 + i - 1]
    BY <1>1, SubSeqProperties
  <2>2. QED BY <1>1, <2>1
<1>7. Len(ReadBack(Described(s, n))) = Len(SubSeq(s, 1, n))
  BY <1>3, <1>6
<1>8. QED BY <1>3, <1>5, <1>6, <1>7, SeqEqual

\* Writing the description moves the changes from the ones that were taken to
\* the audit model and leaves the others where they were.
LEMMA WrittenAndTaken ==
  ASSUME NEW t \in Seq(ChangeStatement), NEW s \in Seq(Change), NEW n \in 1..Len(s),
         SameUser(s, n)
  PROVE  /\ SubSeq(s, n + 1, Len(s)) \in Seq(Change)
         /\ ReadBack(t \o Described(s, n)) \o SubSeq(s, n + 1, Len(s)) = ReadBack(t) \o s
<1> DEFINE begun == SubSeq(s, 1, n)
           rest == SubSeq(s, n + 1, Len(s))
<1>1. /\ Len(s) \in Nat /\ n \in Nat /\ n >= 1 /\ n <= Len(s)
      /\ \A i \in 1..Len(s) : s[i] \in Change
  BY LenProperties, ElementOfSeq
<1>2. begun \in Seq(Change) /\ rest \in Seq(Change)
  <2>1. /\ 1 \in Int /\ n \in Int /\ n + 1 \in Int /\ Len(s) \in Int
        /\ \A i \in 1..n : s[i] \in Change
        /\ \A i \in (n + 1)..Len(s) : s[i] \in Change
    BY <1>1
  <2>2. QED BY <2>1, SubSeqProperties
<1>3. begun \o rest = s
  <2>1. /\ 1 \in 1..(Len(s) + 1) /\ n \in (1 - 1)..Len(s) /\ Len(s) \in n..Len(s)
    BY <1>1
  <2>2. begun \o rest = SubSeq(s, 1, Len(s))
    BY <2>1, ConcatAdjacentSubSeq
  <2>3. QED BY <2>2, SubSeqFull
<1>4. ReadBack(t \o Described(s, n)) = ReadBack(t) \o begun
  BY DescribedType, ReadBackConcat, ReadBackDescribed
<1>5. (ReadBack(t) \o begun) \o rest = ReadBack(t) \o (begun \o rest)
  <2> DEFINE a == ReadBack(t)
  <2>1. a \in Seq(Change) /\ begun \in Seq(Change) /\ rest \in Seq(Change)
    BY <1>2, ReadBackType
  <2> HIDE DEF a, begun, rest
  <2>2. (a \o begun) \o rest = a \o (begun \o rest)
    BY <2>1, JoinAssociates, SMTT(30)
  <2>3. QED BY <2>2 DEF a
<1>6. QED BY <1>2, <1>3, <1>4, <1>5

-----------------------------------------------------------------------------
(* The steps *)

\* What the listener adds are changes.
LEMMA RecordedType ==
  ASSUME TypeOK, NEW u \in User, NEW list \in Lists, NEW m \in Model
  PROVE  Recorded(list, m, u) \in Seq(Change)
<1> DEFINE k == IF Cached(m) = "yes" THEN list[m] ELSE 0
<1>1. k \in Nat
  BY ListsCount
<1>2. \A i \in 1..k :
        [stmt |-> [model |-> m, transaction |-> made + 1, nth |-> i], user |-> u] \in Change
  BY <1>1 DEF TypeOK, Change, Statement
<1> HIDE DEF k
<1>3. [i \in 1..k |->
         [stmt |-> [model |-> m, transaction |-> made + 1, nth |-> i], user |-> u]] \in Seq(Change)
  BY <1>1, <1>2
<1>4. QED BY <1>3 DEF k, Recorded

LEMMA InitInv == Init => Inv
<1>1. SUFFICES ASSUME Init PROVE Inv
  OBVIOUS
<1>2. /\ <<>> \in Seq(Change) /\ <<>> \in Seq(ChangeStatement) /\ Len(<<>>) = 0
      /\ <<>> \o <<>> = <<>>
  OBVIOUS
<1>3. TypeOK
  <2>1. listening \in BOOLEAN /\ future \in BOOLEAN /\ writing \in BOOLEAN
    BY <1>1, Zenon DEF Init
  <2>2. NoChanges \in [Model -> Seq(Change)] /\ NoChanges \in [Model -> Seq(ChangeStatement)]
    BY <1>2 DEF NoChanges
  <2>3. made \in 0..MaxMade /\ toggles \in 0..MaxToggles /\ faults \in 0..MaxFaults
    BY <1>1, BoundsAreNumbers DEF Init
  <2>4. enabled \subseteq Model /\ trackChanges \in [Model -> {"unknown", "yes", "no"}]
    BY <1>1 DEF Init
  <2>5. due \in Nat /\ current \in Model \cup {Null}
    BY <1>1 DEF Init
  <2>6. QED BY <1>1, <2>1, <2>2, <2>3, <2>4, <2>5 DEF Init, TypeOK
<1>4. IdleHoldsNothing /\ FutureIsDue /\ NoneStranded
  BY <1>1 DEF Init, IdleHoldsNothing, FutureIsDue, NoneStranded, NoChanges
<1>5. \A m \in Model : audit[m] = <<>> /\ Len(audit[m]) = 0
  BY <1>1, <1>2 DEF Init, NoChanges
<1>6. AuditComplete
  <2>1. SUFFICES ASSUME NEW m \in Model
                 PROVE  Audited(m) \o localChanges[m] \o changesByModel[m] = log[m]
    BY DEF AuditComplete
  <2>2. Audited(m) = <<>>
    BY <1>5 DEF Audited
  <2>3. QED BY <1>1, <1>2, <2>2 DEF Init, NoChanges
<1>7. QED BY <1>3, <1>4, <1>6 DEF Inv

LEMMA NotifyInv ==
  ASSUME Inv, NEW u \in User, NEW list \in Lists, Notify(u, list)
  PROVE  Inv'
<1>1. \A m \in Model : Recorded(list, m, u) \in Seq(Change)
  BY RecordedType DEF Inv
<1>2. TypeOK'
  <2>1. /\ changesByModel' \in [Model -> Seq(Change)]
        /\ log' \in [Model -> Seq(Change)]
    BY <1>1, ConcatProperties DEF Inv, TypeOK, Notify
  <2>2. trackChanges' \in [Model -> {"unknown", "yes", "no"}]
    BY DEF Inv, TypeOK, Notify, Cached
  <2>3. due' \in Nat /\ future' \in BOOLEAN /\ made' \in 0..MaxMade
    BY BoundsAreNumbers DEF Inv, TypeOK, Notify, Schedule
  <2>4. QED BY <2>1, <2>2, <2>3 DEF Inv, TypeOK, Notify, task
<1>3. IdleHoldsNothing'
  BY DEF Inv, IdleHoldsNothing, Notify, task, NoChanges
<1>4. due' > 0
  BY DEF Inv, TypeOK, FutureIsDue, Notify, Schedule
<1>5. FutureIsDue' /\ NoneStranded'
  BY <1>4 DEF FutureIsDue, NoneStranded
<1>6. AuditComplete'
  <2>1. SUFFICES ASSUME faults' = 0, NEW m \in Model
                 PROVE  Audited(m)' \o localChanges'[m] \o changesByModel'[m] = log'[m]
    BY DEF AuditComplete
  <2> DEFINE a == Audited(m)
             l == localChanges[m]
             c == changesByModel[m]
             r == Recorded(list, m, u)
  <2>2. a \o l \o c = log[m]
    BY <2>1 DEF Inv, AuditComplete, Notify
  <2>3. a \in Seq(Change) /\ l \in Seq(Change) /\ c \in Seq(Change) /\ r \in Seq(Change)
    BY <1>1, ReadBackType DEF Inv, TypeOK, Audited, ReadBack
  <2>4. /\ Audited(m)' = a /\ localChanges'[m] = l
        /\ changesByModel'[m] = c \o r /\ log'[m] = log[m] \o r
    BY DEF Notify, Audited, task
  <2> HIDE DEF a, l, c, r
  <2>5. a \o l \in Seq(Change)
    BY <2>3, JoinAssociates
  <2>6. ((a \o l) \o c) \o r = (a \o l) \o (c \o r)
    BY <2>3, <2>5, JoinAssociates, SMTT(30)
  <2>7. QED BY <2>2, <2>4, <2>6
<1>7. QED BY <1>2, <1>3, <1>5, <1>6 DEF Inv

\* A step that leaves the changes and the audit models alone.
LEMMA OtherStepInv ==
  ASSUME Inv, TypeOK',
         UNCHANGED <<changesByModel, localChanges, audit, log, faults>>,
         writing' = writing \/ (~writing' /\ localChanges = NoChanges),
         due' >= due, future' => future \/ due' > due
  PROVE  Inv'
<1>1. IdleHoldsNothing'
  BY DEF Inv, IdleHoldsNothing, NoChanges
<1>2. FutureIsDue' /\ NoneStranded'
  BY DEF Inv, TypeOK, FutureIsDue, NoneStranded
<1>3. AuditComplete'
  BY DEF Inv, AuditComplete, Audited
<1>4. QED BY <1>1, <1>2, <1>3 DEF Inv

LEMMA ToggleInv ==
  ASSUME Inv, NEW m \in Model, Toggle(m)
  PROVE  Inv'
<1>1. TypeOK'
  <2>1. listening' \in BOOLEAN /\ future' \in BOOLEAN /\ writing' \in BOOLEAN
    BY Zenon DEF Inv, TypeOK, Toggle, Schedule, task
  <2>2. due' \in Nat
    BY DEF Inv, TypeOK, Toggle, Schedule
  <2>3. enabled' \subseteq Model /\ toggles' \in 0..MaxToggles
    BY BoundsAreNumbers DEF Inv, TypeOK, Toggle
  <2>4. QED BY <2>1, <2>2, <2>3 DEF Inv, TypeOK, Toggle, task
<1>2. /\ UNCHANGED <<changesByModel, localChanges, audit, log, faults, writing>>
      /\ due' >= due /\ (future' => future \/ due' > due)
  BY DEF Inv, TypeOK, Toggle, Schedule, task
<1>3. QED BY <1>1, <1>2, OtherStepInv

LEMMA DeactivateInv ==
  ASSUME Inv, Deactivate
  PROVE  Inv'
<1>1. TypeOK'
  BY DEF Inv, TypeOK, Deactivate, collected, task, counters
<1>2. UNCHANGED <<changesByModel, localChanges, audit, log, faults, writing, due, future>>
  BY DEF Deactivate, collected, task, counters
<1>3. due' >= due
  BY <1>2 DEF Inv, TypeOK
<1>4. QED BY <1>1, <1>2, <1>3, OtherStepInv

LEMMA CommitEndsInv ==
  ASSUME Inv, CommitEnds
  PROVE  Inv'
<1>1. TypeOK'
  BY DEF Inv, TypeOK, CommitEnds, collected, counters
<1>2. /\ UNCHANGED <<changesByModel, localChanges, audit, log, faults, due, future>>
      /\ ~writing' /\ localChanges = NoChanges
  BY <1>1 DEF CommitEnds, collected, counters, TypeOK
<1>3. due' >= due
  BY <1>2 DEF Inv, TypeOK
<1>4. QED BY <1>1, <1>2, <1>3, OtherStepInv

\* What was collected becomes what was taken; nothing was taken before.
LEMMA TakeChangesInv ==
  ASSUME Inv, TakeChanges
  PROVE  Inv'
<1>1. <<>> \in Seq(Change) /\ NoChanges \in [Model -> Seq(Change)]
  BY DEF NoChanges
<1>2. TypeOK'
  <2>1. listening' \in BOOLEAN /\ future' \in BOOLEAN /\ writing' \in BOOLEAN
    BY Zenon DEF Inv, TypeOK, TakeChanges
  <2>2. due' \in Nat
    BY DEF Inv, TypeOK, TakeChanges
  <2>3. QED BY <1>1, <2>1, <2>2 DEF Inv, TypeOK, TakeChanges, counters
<1>3. IdleHoldsNothing' /\ FutureIsDue' /\ NoneStranded'
  BY DEF IdleHoldsNothing, FutureIsDue, NoneStranded, TakeChanges, NoChanges
<1>4. AuditComplete'
  <2>1. SUFFICES ASSUME faults' = 0, NEW m \in Model
                 PROVE  Audited(m)' \o localChanges'[m] \o changesByModel'[m] = log'[m]
    BY DEF AuditComplete
  <2> DEFINE a == Audited(m)
             c == changesByModel[m]
  <2>2. a \o localChanges[m] \o c = log[m] /\ localChanges[m] = <<>>
    BY <2>1 DEF Inv, AuditComplete, IdleHoldsNothing, NoChanges, TakeChanges, counters
  <2>3. a \in Seq(Change) /\ c \in Seq(Change)
    BY ReadBackType DEF Inv, TypeOK, Audited, ReadBack
  <2>4. /\ Audited(m)' = a /\ localChanges'[m] = c
        /\ changesByModel'[m] = <<>> /\ log'[m] = log[m]
    BY DEF TakeChanges, Audited, NoChanges
  <2> HIDE DEF a, c
  <2>5. a \o <<>> = a /\ a \o c \in Seq(Change)
    BY <2>3, ConcatEmptySeq, JoinAssociates
  <2>6. (a \o c) \o <<>> = a \o c
    BY <2>5, ConcatEmptySeq
  <2>7. QED BY <2>2, <2>4, <2>5, <2>6
<1>5. QED BY <1>2, <1>3, <1>4 DEF Inv

LEMMA WriteFailsInv ==
  ASSUME Inv, WriteFails
  PROVE  Inv'
<1>1. <<>> \in Seq(Change) /\ NoChanges \in [Model -> Seq(Change)]
  BY DEF NoChanges
<1>2. TypeOK'
  <2>1. listening' \in BOOLEAN /\ future' \in BOOLEAN /\ writing' \in BOOLEAN
    BY Zenon DEF Inv, TypeOK, WriteFails, collected
  <2>2. faults' \in 0..MaxFaults
    BY BoundsAreNumbers DEF Inv, TypeOK, WriteFails
  <2>3. QED BY <1>1, <2>1, <2>2 DEF Inv, TypeOK, WriteFails, collected
<1>3. IdleHoldsNothing' /\ FutureIsDue' /\ NoneStranded'
  BY DEF Inv, IdleHoldsNothing, FutureIsDue, NoneStranded, WriteFails, collected, NoChanges
<1>4. faults' # 0
  BY DEF Inv, TypeOK, WriteFails
<1>5. QED BY <1>2, <1>3, <1>4 DEF Inv, AuditComplete

\* The description is appended to the audit model.
LEMMA WriteDescriptionInv ==
  ASSUME Inv, WriteDescription
  PROVE  Inv'
<1>0. PICK m \in Model : \E n \in 1..Len(localChanges[m]) :
        /\ SameUser(localChanges[m], n)
        /\ audit' = [audit EXCEPT ![m] = @ \o Described(localChanges[m], n)]
        /\ localChanges' = [localChanges EXCEPT
                              ![m] = SubSeq(localChanges[m], n + 1, Len(localChanges[m]))]
        /\ current' = IF n = Len(localChanges[m]) THEN Null ELSE m
  BY DEF WriteDescription
<1>1. PICK n \in 1..Len(localChanges[m]) :
        /\ SameUser(localChanges[m], n)
        /\ audit' = [audit EXCEPT ![m] = @ \o Described(localChanges[m], n)]
        /\ localChanges' = [localChanges EXCEPT
                              ![m] = SubSeq(localChanges[m], n + 1, Len(localChanges[m]))]
        /\ current' = IF n = Len(localChanges[m]) THEN Null ELSE m
  BY <1>0
<1> DEFINE s == localChanges[m]
           t == audit[m]
           d == Described(s, n)
           rest == SubSeq(s, n + 1, Len(s))
<1>2. /\ s \in Seq(Change) /\ t \in Seq(ChangeStatement) /\ n \in 1..Len(s)
      /\ SameUser(s, n)
  BY <1>1 DEF Inv, TypeOK
<1>3. /\ d \in Seq(ChangeStatement) /\ Len(d) = n
      /\ \A i \in 1..n : d[i] = [stmt |-> s[i].stmt, agent |-> s[1].user]
  BY <1>2, DescribedType
<1>4. rest \in Seq(Change) /\ ReadBack(t \o d) \o rest = ReadBack(t) \o s
  BY <1>2, WrittenAndTaken
<1>5. /\ t \o d \in Seq(ChangeStatement) /\ Len(t \o d) = Len(t) + n
      /\ \A i \in 1..(Len(t) + n) : (t \o d)[i] = IF i <= Len(t) THEN t[i] ELSE d[i - Len(t)]
  <2>1. t \in Seq(ChangeStatement) /\ d \in Seq(ChangeStatement)
    BY <1>2, <1>3
  <2> HIDE DEF t, d
  <2>2. /\ t \o d \in Seq(ChangeStatement) /\ Len(t \o d) = Len(t) + Len(d)
        /\ \A i \in 1..(Len(t) + Len(d)) : (t \o d)[i] = IF i <= Len(t) THEN t[i] ELSE d[i - Len(t)]
    BY <2>1, ConcatProperties
  <2>3. QED BY <1>3, <2>2
<1>6. /\ Len(t) \in Nat /\ n \in Nat /\ n >= 1
  BY <1>2, LenProperties
<1>7. /\ audit'[m] = t \o d /\ \A q \in Model \ {m} : audit'[q] = audit[q]
      /\ localChanges'[m] = rest /\ \A q \in Model \ {m} : localChanges'[q] = localChanges[q]
  BY <1>1 DEF Inv, TypeOK, WriteDescription
<1>8. TypeOK'
  <2>1. audit' \in [Model -> Seq(ChangeStatement)] /\ localChanges' \in [Model -> Seq(Change)]
    <3> HIDE DEF d, rest
    <3>1. QED BY <1>1, <1>4, <1>5 DEF Inv, TypeOK, d, rest
  <2>2. due' \in Nat
    BY DEF Inv, TypeOK, WriteDescription, Schedule
  <2>3. future' \in BOOLEAN /\ listening' \in BOOLEAN /\ writing' \in BOOLEAN
    BY Zenon DEF Inv, TypeOK, WriteDescription, Schedule
  <2>4. current' \in Model \cup {Null}
    BY <1>1, <1>2, <1>7
  <2>5. QED BY <2>1, <2>2, <2>3, <2>4 DEF Inv, TypeOK, WriteDescription, counters
<1>9. IdleHoldsNothing'
  BY DEF Inv, IdleHoldsNothing, WriteDescription
<1>10. FutureIsDue' /\ NoneStranded'
  BY DEF Inv, TypeOK, FutureIsDue, NoneStranded, WriteDescription, Schedule
<1> HIDE DEF s, t, d, rest
<1>11. AuditComplete'
  <2>1. SUFFICES ASSUME faults' = 0, NEW q \in Model
                 PROVE  Audited(q)' \o localChanges'[q] \o changesByModel'[q] = log'[q]
    BY DEF AuditComplete
  <2>2. /\ Audited(q) \o localChanges[q] \o changesByModel[q] = log[q]
        /\ changesByModel'[q] = changesByModel[q] /\ log'[q] = log[q]
    BY <2>1 DEF Inv, AuditComplete, WriteDescription, counters
  <2>3. CASE q = m
    <3>1. Audited(q) = ReadBack(t) /\ Audited(q)' = ReadBack(t \o d)
      BY <1>7, <2>3 DEF Audited, ReadBack, t
    <3>2. Audited(q)' \o localChanges'[q] = Audited(q) \o localChanges[q]
      BY <1>4, <1>7, <2>3, <3>1 DEF s
    <3>3. QED BY <2>2, <3>2
  <2>4. CASE q # m
    BY <1>7, <2>2, <2>4 DEF Audited
  <2>5. QED BY <2>3, <2>4
<1>12. QED BY <1>8, <1>9, <1>10, <1>11 DEF Inv

\* Every step keeps the invariant.
LEMMA NextInv == Inv /\ [Next]_vars => Inv'
<1>1. SUFFICES ASSUME Inv, [Next]_vars PROVE Inv'
  OBVIOUS
<1>2. ASSUME NEW u \in User, NEW list \in Lists, Notify(u, list) PROVE Inv'
  BY <1>1, <1>2, NotifyInv
<1>3. ASSUME NEW m \in Model, Toggle(m) PROVE Inv'
  BY <1>1, <1>3, ToggleInv
<1>4. CASE Deactivate
  BY <1>1, <1>4, DeactivateInv
<1>5. CASE TakeChanges
  BY <1>1, <1>5, TakeChangesInv
<1>6. CASE WriteDescription
  BY <1>1, <1>6, WriteDescriptionInv
<1>7. CASE WriteFails
  BY <1>1, <1>7, WriteFailsInv
<1>8. CASE CommitEnds
  BY <1>1, <1>8, CommitEndsInv
<1>9. CASE UNCHANGED vars
  BY <1>1, <1>9 DEF vars, Inv, TypeOK, IdleHoldsNothing, FutureIsDue, AuditComplete,
     Audited, NoneStranded, NoChanges
<1>10. QED BY <1>1, <1>2, <1>3, <1>4, <1>5, <1>6, <1>7, <1>8, <1>9 DEF Next, CommitChanges

-----------------------------------------------------------------------------
(* The theorems *)

LEMMA SpecInv == Spec => []Inv
BY InitInv, NextInv, PTL DEF Spec

\* Every state of the tracker has the right types (commitChanges() takes only
\* what was collected, and the executor never counts below zero).
THEOREM TypeCorrect == Spec => []TypeOK
<1>1. Inv => TypeOK
  BY DEF Inv
<1>2. QED BY <1>1, SpecInv, PTL

\* The audit model, what commitChanges() has taken and what was collected are
\* together the changes that were to be tracked, each with its user.
THEOREM NothingLost == Spec => []AuditComplete
<1>1. Inv => AuditComplete
  BY DEF Inv
<1>2. QED BY <1>1, SpecInv, PTL

\* A change that was collected has a task that will take it.
THEOREM TaskDue == Spec => []NoneStranded
<1>1. Inv => NoneStranded
  BY DEF Inv
<1>2. QED BY <1>1, SpecInv, PTL

=============================================================================
