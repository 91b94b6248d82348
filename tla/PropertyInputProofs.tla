------------------------ MODULE PropertyInputProofs ------------------------
(***************************************************************************)
(* Proofs about PropertyInput for any texts, properties, proposals and     *)
(* numbers of events: types, and what the menu shows.                      *)
(***************************************************************************)
EXTENDS PropertyInput, TLAPS

-----------------------------------------------------------------------------
(* The inductive invariant *)

\* What the requests ask for.
Asks(r) ==
  /\ r.id \in 1 .. sent
  /\ \/ r.kind = "propose" /\ r.what \in Long
     \/ r.kind = "render" /\ r.what \in Property

\* What the menu may hold.
Menus == [for : Text \cup {None}, items : SUBSET Proposal]

Types ==
  /\ text \in Text /\ query \in Text /\ active \in BOOLEAN
  /\ isOpen \in BOOLEAN /\ cursor \in Proposal \cup {None}
  /\ shown \in Menus
  /\ asked \in Long \cup {None} /\ canceled \in BOOLEAN /\ timer \in Long \cup {None}
  /\ events \in 0 .. MaxEvents /\ emptying \in 0 .. events /\ retype \in Seq(Prefix)
  /\ sent \in Nat /\ \A r \in requests : Asks(r)
  /\ sections \in [Property -> Nat]
  /\ lost \in SUBSET (Text \cup Property)

\* A field without the focus has an empty menu, and nothing fills it.
Resting == shown.items = {} /\ cursor = None /\ ~isOpen /\ (canceled \/ asked = None)

\* The proposals for the query are on their way.
Awaited == timer = query \/ \E r \in requests : r.kind = "propose" /\ r.what = query

\* The menu is filled for the query, or is about to be cleared.
MenuInv ==
  /\ active \/ Resting
  /\ emptying > 0 \/ canceled \/ asked \in {query, None}
  /\ shown.items # {} /\ shown.for # query => emptying > 0 \/ query \in lost \/ (Wanted(query) /\ Awaited)

-----------------------------------------------------------------------------
(* Types *)

\* The fields of a proposal.
LEMMA ProposalFields ==
  ASSUME NEW d \in Proposal
  PROVE  d.content \in Text /\ d.resource \in Property \cup {None}
PROOF BY ProposalsAreTexts

\* An event of the user is counted.
LEMMA UserEventType ==
  ASSUME Types, UserEvent
  PROVE  events' \in 0 .. MaxEvents /\ emptying \in 0 .. events' /\ emptying + 1 \in 0 .. events'
PROOF BY Bounds DEF UserEvent, Types

\* The requests stay what they are as long as none is sent.
LEMMA AsksFrame ==
  ASSUME Types, sent' = sent, requests' \subseteq requests
  PROVE  \A r \in requests' : Asks(r)'
PROOF BY DEF Types, Asks

\* Asking for a section, or clicking the one that is there, keeps the types.
LEMMA AddPropertyType ==
  ASSUME Types, NEW p \in Property, AddProperty(p)
  PROVE  /\ sent' \in Nat /\ \A r \in requests' : Asks(r)'
         /\ sections' \in [Property -> Nat]
<1>1. CASE MustRender(p)
  <2>1. sent' = sent + 1 /\ requests' = requests \cup {[id |-> sent + 1, kind |-> "render", what |-> p]} /\ UNCHANGED sections
    BY <1>1 DEF AddProperty, Request
  <2>2. \A r \in requests' : Asks(r)'
    BY <2>1 DEF Types, Asks
  <2> QED
    BY <2>1, <2>2 DEF Types
<1>2. CASE ~MustRender(p)
  BY <1>2, AsksFrame DEF AddProperty, page, Types
<1> QED
  BY <1>1, <1>2

\* So does the choice of a proposal.
LEMMA ChosenType ==
  ASSUME Types, NEW d \in Proposal, Chosen(d)
  PROVE  /\ sent' \in Nat /\ \A r \in requests' : Asks(r)'
         /\ sections' \in [Property -> Nat]
         /\ retype' \in Seq(Prefix)
<1>1. CASE d.resource # None
  BY <1>1, ProposalFields, AddPropertyType DEF Chosen, Types
<1>2. CASE d.resource = None /\ d.content \in Prefix
  <2>1. retype' = Append(retype, d.content) /\ UNCHANGED page
    BY <1>2 DEF Chosen
  <2>2. retype' \in Seq(Prefix)
    BY <1>2, <2>1 DEF Types
  <2> QED
    BY <2>1, <2>2, AsksFrame DEF page, Types
<1>3. CASE d.resource = None /\ d.content \notin Prefix
  BY <1>3, AsksFrame DEF Chosen, page, Types
<1> QED
  BY <1>1, <1>2, <1>3

\* The empty menu, and the proposals for a text.
LEMMA MenuTypes ==
  /\ Nothing \in Menus
  /\ \A t \in Text : [for |-> t, items |-> Proposals[t]] \in Menus
  /\ \A m \in Menus : m.for \in Text \cup {None} /\ m.items \subseteq Proposal
PROOF BY ProposalsOfTexts DEF Nothing, Menus

\* A changed query is asked for if it is long enough, or else clears the menu.
LEMMA QueryChangedType ==
  ASSUME Types, NEW q \in Text, QueryChanged(q)
  PROVE  /\ query' \in Text /\ isOpen' \in BOOLEAN
         /\ cursor' \in Proposal \cup {None} /\ shown' \in Menus
         /\ asked' \in Long \cup {None} /\ canceled' \in BOOLEAN /\ timer' \in Long \cup {None}
PROOF BY MenuTypes DEF QueryChanged, Update, Clear, Types

\* So is the text, unless only its white space is new.
LEMMA CheckInputType ==
  ASSUME Types, NEW t \in Text, CheckInputValue(t)
  PROVE  /\ query' \in Text /\ isOpen' \in BOOLEAN
         /\ cursor' \in Proposal \cup {None} /\ shown' \in Menus
         /\ asked' \in Long \cup {None} /\ canceled' \in BOOLEAN /\ timer' \in Long \cup {None}
<1>1. CASE Equivalent(t, query)
  <2>1. UNCHANGED <<query, shown, cursor, dataset>> /\ isOpen' \in BOOLEAN
    BY <1>1 DEF CheckInputValue, Types
  <2> QED
    BY <2>1 DEF dataset, Types
<1>2. CASE ~Equivalent(t, query)
  BY <1>2, QueryChangedType DEF CheckInputValue
<1> QED
  BY <1>1, <1>2

\* The state before the first event has the types.
LEMMA TypeInit == Init => Types
<1> SUFFICES ASSUME Init PROVE Types
  OBVIOUS
<1>1. text \in Text /\ query \in Text /\ shown \in Menus
  BY TextsAndQueries, MenuTypes DEF Init
<1>2. events \in 0 .. MaxEvents /\ emptying \in 0 .. events /\ sections \in [Property -> Nat]
  BY Bounds DEF Init
<1>3. retype \in Seq(Prefix)
  BY DEF Init
<1> QED
  BY <1>1, <1>2, <1>3 DEF Init, Types

\* Every step keeps the types.
LEMMA TypeStep == Types /\ [Next]_vars => Types'
<1> SUFFICES ASSUME Types, [Next]_vars PROVE Types'
  OBVIOUS
<1>1. CASE Focus
  BY <1>1, UserEventType, AsksFrame DEF Focus, dataset, page, Types
<1>2. CASE Blur
  BY <1>2, MenuTypes, UserEventType, AsksFrame DEF Blur, Clear, page, Types
<1>3. CASE Escape
  BY <1>3, UserEventType, AsksFrame DEF Escape, dataset, page, Types
<1>4. CASE Arrow
  <2>1. text' \in Text /\ cursor' \in Proposal \cup {None}
    <3>1. CASE UNCHANGED <<text, cursor>>
      BY <3>1 DEF Types
    <3>2. ASSUME NEW d \in shown.items \cup {None}, cursor' = d, text' = IF d = None THEN query ELSE d.content
          PROVE  text' \in Text /\ cursor' \in Proposal \cup {None}
      <4>1. d \in Proposal \cup {None}
        BY MenuTypes DEF Types
      <4> QED
        BY <3>2, <4>1, ProposalFields DEF Types
    <3> QED
      BY <1>4, <3>1, <3>2 DEF Arrow
  <2>2. asked' \in Long \cup {None} /\ canceled' \in BOOLEAN /\ timer' \in Long \cup {None}
    BY <1>4 DEF Arrow, Update, dataset, Types
  <2> QED
    BY <1>4, <2>1, <2>2, UserEventType, AsksFrame DEF Arrow, page, Types
<1>5. ASSUME NEW t \in Text, Type(t) PROVE Types'
  <2>1. /\ query' \in Text /\ isOpen' \in BOOLEAN
        /\ cursor' \in Proposal \cup {None} /\ shown' \in Menus
        /\ asked' \in Long \cup {None} /\ canceled' \in BOOLEAN /\ timer' \in Long \cup {None}
    BY <1>5, CheckInputType DEF Type
  <2> QED
    BY <1>5, <2>1, UserEventType, AsksFrame DEF Type, page, Types
<1>6. ASSUME NEW d \in Proposal, Select(d) PROVE Types'
  <2>1. d.content \in Text
    BY ProposalFields
  <2>2. events' \in 0 .. MaxEvents /\ emptying' \in 0 .. events'
    BY <1>6, UserEventType DEF Select
  <2> QED
    BY <1>6, <2>1, <2>2, ChosenType DEF Select, dataset, Types
<1>7. ASSUME NEW d \in Proposal, Autocomplete(d) PROVE Types'
  <2>1. d.content \in Text
    BY ProposalFields
  <2> QED
    BY <1>7, <2>1, ChosenType, CheckInputType, UserEventType DEF Autocomplete, Types
<1>8. ASSUME NEW p \in Listed, AddListed(p) PROVE Types'
  BY <1>8, Bounds, AddPropertyType, UserEventType DEF AddListed, field, menu, dataset, Types
<1>9. CASE Propose
  <2>1. sent' = sent + 1 /\ requests' = requests \cup {[id |-> sent + 1, kind |-> "propose", what |-> timer]} /\ timer \in Long
    BY <1>9 DEF Propose, Request, Types
  <2>2. \A r \in requests' : Asks(r)'
    BY <2>1 DEF Types, Asks
  <2>3. sent' \in Nat /\ timer' = None
    BY <1>9, <2>1 DEF Propose, Types
  <2>4. UNCHANGED <<text, query, active, isOpen, cursor, shown, asked, canceled, emptying, retype, sections, events, lost>>
    BY <1>9 DEF Propose, field, menu
  <2> QED
    BY <2>2, <2>3, <2>4 DEF Types
<1>10. CASE DeferredEmpty
  <2>1. shown' \in Menus /\ canceled' \in BOOLEAN
    BY <1>10, MenuTypes DEF DeferredEmpty, Clear
  <2> QED
    BY <1>10, <2>1, AsksFrame DEF DeferredEmpty, Clear, field, page, Types
<1>11. CASE Retype
  <2>1. Head(retype) \in Text /\ Tail(retype) \in Seq(Prefix)
    BY <1>11, PrefixesAreNotBlank DEF Retype, Types
  <2>2. /\ isOpen' \in BOOLEAN /\ cursor' \in Proposal \cup {None}
        /\ shown' \in Menus
        /\ asked' \in Long \cup {None} /\ canceled' \in BOOLEAN /\ timer' \in Long \cup {None}
    BY <1>11, <2>1, MenuTypes DEF Retype, Update, Clear, menu, dataset, Types
  <2> QED
    BY <1>11, <2>1, <2>2, TextsAndQueries, AsksFrame DEF Retype, page, Types
<1>12. ASSUME NEW r \in requests, Answer(r) PROVE Types'
  <2>1. r.kind = "propose" => [for |-> r.what, items |-> Proposals[r.what]] \in Menus
    BY TextsAndQueries, MenuTypes DEF Types, Asks
  <2>2. /\ shown' \in Menus
        /\ cursor' \in Proposal \cup {None}
    BY <1>12, <2>1 DEF Answer, AnswerProposals, AnswerRender, Types
  <2>3. sections' \in [Property -> Nat]
    BY <1>12 DEF Answer, AnswerProposals, AnswerRender, Types, Asks
  <2> QED
    BY <1>12, <2>2, <2>3, AsksFrame DEF Answer, field, dataset, Types
<1>13. ASSUME NEW r \in requests, LoseAnswer(r) PROVE Types'
  <2>1. lost' \in SUBSET (Text \cup Property)
    BY <1>13, TextsAndQueries DEF LoseAnswer, Types, Asks
  <2> QED
    BY <1>13, <2>1, AsksFrame DEF LoseAnswer, field, menu, dataset, Types
<1>14. CASE UNCHANGED vars
  BY <1>14, AsksFrame DEF vars, Types
<1>15. CASE Mouse
  <2>1. cursor' \in Proposal \cup {None}
    BY <1>15, MenuTypes DEF Mouse, Types
  <2> QED
    BY <1>15, <2>1, UserEventType, AsksFrame DEF Mouse, field, dataset, page, Types
<1> QED
  BY <1>1, <1>2, <1>3, <1>4, <1>5, <1>6, <1>7, <1>8, <1>9, <1>10, <1>11, <1>12, <1>13, <1>14, <1>15 DEF Next

\* Whatever is typed, chosen and answered, proposals are only asked for when the
\* query has minLength characters, and every variable has its type.
THEOREM TypeCorrect == Spec => []TypeOK
<1>1. Types => TypeOK
  <2> SUFFICES ASSUME Types PROVE TypeOK
    OBVIOUS
  <2>1. retype \in Seq(Text)
    <3>1. retype \in Seq(Prefix) /\ Prefix \subseteq Text
      BY PrefixesAreNotBlank DEF Types
    <3> QED
      BY <3>1
  <2> QED
    BY <2>1, TextsAndQueries, Bounds DEF Types, Menus, Asks, TypeOK
<1> QED
  BY <1>1, TypeInit, TypeStep, PTL DEF Spec

-----------------------------------------------------------------------------
(* The menu *)

\* A cleared menu is not stale, and a query that was just asked for is awaited.
LEMMA MenuCleared ==
  ASSUME shown' = Nothing, canceled', active' \/ (cursor' = None /\ ~isOpen')
  PROVE  MenuInv'
PROOF BY DEF MenuInv, Resting, Nothing

\* A query that was just asked for is awaited.
LEMMA MenuAsked ==
  ASSUME active', asked' = query', ~canceled', timer' = query'
  PROVE  MenuInv'
PROOF BY DEF MenuInv, Wanted, Awaited

\* The menu stays, and so does what it waits for.
LEMMA MenuFrame ==
  ASSUME MenuInv, UNCHANGED <<shown, asked, canceled, query>>, active' \/ (~active /\ UNCHANGED <<isOpen, cursor>>),
         emptying' = emptying, lost \subseteq lost', Awaited => Awaited' \/ query \in lost'
  PROVE  MenuInv'
PROOF BY DEF MenuInv, Resting, Wanted

\* What is awaited stays so while no answer comes.
LEMMA AwaitedFrame ==
  ASSUME UNCHANGED <<timer, query>>, requests \subseteq requests', Awaited
  PROVE  Awaited'
PROOF BY DEF Awaited

\* A changed query clears the menu or is awaited.
LEMMA MenuQueryChanged ==
  ASSUME NEW q, QueryChanged(q), active'
  PROVE  MenuInv'
<1>1. CASE q \in Long
  BY <1>1, MenuAsked DEF QueryChanged, Update
<1>2. CASE q \notin Long
  BY <1>2, MenuCleared DEF QueryChanged, Clear
<1> QED
  BY <1>1, <1>2

\* So does a changed text, unless only its white space is new.
LEMMA MenuChecked ==
  ASSUME MenuInv, NEW t, CheckInputValue(t), active', emptying' = emptying, lost' = lost, requests \subseteq requests'
  PROVE  MenuInv'
<1>1. CASE Equivalent(t, query)
  BY <1>1, MenuFrame, AwaitedFrame DEF CheckInputValue, dataset
<1>2. CASE ~Equivalent(t, query)
  BY <1>2, MenuQueryChanged DEF CheckInputValue
<1> QED
  BY <1>1, <1>2

\* A choice only adds requests.
LEMMA ChosenAsks ==
  ASSUME NEW d, Chosen(d)
  PROVE  requests \subseteq requests'
PROOF BY DEF Chosen, AddProperty, page

\* Before the first event the menu is empty.
LEMMA MenuInit == Init => MenuInv
PROOF BY DEF Init, MenuInv, Resting, Nothing

\* Every step keeps the invariant of the menu.
LEMMA MenuStep == Types /\ MenuInv /\ [Next]_vars => MenuInv'
<1> SUFFICES ASSUME Types, MenuInv, [Next]_vars PROVE MenuInv'
  OBVIOUS
<1>1. CASE Focus
  BY <1>1, MenuFrame, AwaitedFrame DEF Focus, dataset, page
<1>2. CASE Blur
  BY <1>2, MenuCleared DEF Blur, Clear
<1>3. CASE Escape
  BY <1>3, MenuFrame, AwaitedFrame DEF Escape, dataset, page
<1>4. CASE Arrow
  <2>1. CASE Update(query)
    BY <1>4, <2>1, MenuAsked DEF Arrow, Update
  <2>2. CASE UNCHANGED dataset
    BY <1>4, <2>2, MenuFrame, AwaitedFrame DEF Arrow, dataset, page
  <2> QED
    BY <1>4, <2>1, <2>2 DEF Arrow
<1>5. ASSUME NEW t \in Text, Type(t) PROVE MenuInv'
  BY <1>5, MenuChecked DEF Type, page
<1>6. ASSUME NEW d \in Proposal, Select(d) PROVE MenuInv'
  <2>1. active
    BY <1>6, NoneIsNothing DEF Select, MenuInv, Resting
  <2>2. emptying' > 0
    BY <1>6 DEF Select, Types
  <2> QED
    BY <1>6, <2>1, <2>2 DEF Select, MenuInv
<1>7. ASSUME NEW d \in Proposal, Autocomplete(d) PROVE MenuInv'
  BY <1>7, MenuChecked, ChosenAsks DEF Autocomplete
<1>8. ASSUME NEW p \in Listed, AddListed(p) PROVE MenuInv'
  <2>1. requests \subseteq requests'
    BY <1>8 DEF AddListed, AddProperty, page
  <2> QED
    BY <1>8, <2>1, MenuFrame, AwaitedFrame DEF AddListed, field, menu, dataset
<1>9. CASE Propose
  <2>1. Awaited => Awaited'
    <3>1. requests' = requests \cup {Request("propose", timer)} /\ query' = query
      BY <1>9 DEF Propose, field
    <3>2. Request("propose", timer).kind = "propose" /\ Request("propose", timer).what = timer
      BY DEF Request
    <3> QED
      BY <3>1, <3>2 DEF Awaited
  <2> QED
    BY <1>9, <2>1, MenuFrame DEF Propose, field, menu
<1>10. CASE DeferredEmpty
  <2>1. active' \/ (cursor' = None /\ ~isOpen')
    BY <1>10 DEF DeferredEmpty, field, MenuInv, Resting
  <2> QED
    BY <1>10, <2>1, MenuCleared DEF DeferredEmpty, Clear
<1>11. CASE Retype
  <2>1. CASE active
    <3>1. CASE Head(retype) \in Long
      BY <1>11, <2>1, <3>1, MenuAsked DEF Retype, Update
    <3>2. CASE Head(retype) \notin Long
      BY <1>11, <2>1, <3>2, MenuCleared DEF Retype, Clear
    <3> QED
      BY <3>1, <3>2
  <2>2. CASE ~active
    BY <1>11, <2>2 DEF Retype, menu, dataset, MenuInv, Resting
  <2> QED
    BY <2>1, <2>2
<1>12. ASSUME NEW r \in requests, Answer(r) PROVE MenuInv'
  <2>1. CASE r.kind = "propose" /\ Wanted(r.what)
    <3>1. shown'.for = asked /\ asked # None /\ ~canceled
      BY <1>12, <2>1, NoneIsNothing, TextsAndQueries DEF Answer, AnswerProposals, AnswerRender, Wanted, Types, Asks
    <3> QED
      BY <1>12, <3>1 DEF Answer, field, dataset, MenuInv, Resting
  <2>2. CASE ~(r.kind = "propose" /\ Wanted(r.what))
    <3>1. UNCHANGED <<shown, cursor>>
      BY <1>12, <2>2 DEF Answer, AnswerProposals, AnswerRender
    <3>2. Wanted(query) /\ Awaited => Awaited'
      BY <1>12, <2>2 DEF Answer, dataset, field, Awaited
    <3> QED
      BY <1>12, <3>1, <3>2 DEF Answer, field, dataset, MenuInv, Resting, Wanted
  <2> QED
    BY <2>1, <2>2
<1>13. ASSUME NEW r \in requests, LoseAnswer(r) PROVE MenuInv'
  <2>1. Awaited => Awaited' \/ query \in lost'
    BY <1>13 DEF LoseAnswer, dataset, field, Awaited
  <2> QED
    BY <1>13, <2>1, MenuFrame DEF LoseAnswer, field, menu, dataset
<1>14. CASE UNCHANGED vars
  BY <1>14, MenuFrame, AwaitedFrame DEF vars
<1>15. CASE Mouse
  <2>1. active
    BY <1>15 DEF Mouse, MenuInv, Resting
  <2> QED
    BY <1>15, <2>1, MenuFrame, AwaitedFrame DEF Mouse, field, dataset, page
<1> QED
  BY <1>1, <1>2, <1>3, <1>4, <1>5, <1>6, <1>7, <1>8, <1>9, <1>10, <1>11, <1>12, <1>13, <1>14, <1>15 DEF Next

\* In whatever order the answers come, proposals for another text than the
\* query are in the menu only while those for the query are on their way or
\* lost, or the menu is about to be cleared.
THEOREM MenuNotStale == Spec => []StaleOnlyWhileWaiting
<1>1. MenuInv => StaleOnlyWhileWaiting
  BY DEF MenuInv, Awaited, StaleOnlyWhileWaiting
<1> QED
  BY <1>1, TypeInit, TypeStep, MenuInit, MenuStep, PTL DEF Spec

=============================================================================
