--------------------------- MODULE PropertyInput ---------------------------
(***************************************************************************)
(* PropertyInput: the field in which a user looks for a property to add to *)
(* a resource (widgets/properties.js), with the library typeahead.js that  *)
(* drives it.  What is typed becomes a query; half a second after the last *)
(* one the server is asked for proposals, which the menu shows when they   *)
(* come.  A proposal that is chosen either names a property, whose section *)
(* the server then renders, or a prefix, which becomes the next query.     *)
(*                                                                         *)
(* One action is one event of the browser: a key, a click, a timer or an   *)
(* answer, with all the handlers it runs.  Answers come in any order.      *)
(***************************************************************************)
EXTENDS Naturals, Sequences

CONSTANTS
  Text,       \* what the field may hold
  Long,       \* the texts of at least minLength characters
  Normal,     \* of a text: the text without superfluous white space
  Prefix,     \* the texts that end with a colon
  Property,   \* the properties that may be added
  Listed,     \* the properties with a button of their own on the page
  Proposal,   \* what the server may propose: records of content and resource
  Proposals,  \* of a text: the proposals for it
  Blank,      \* the empty text
  MaxEvents,  \* bound on the events the user causes
  None

ASSUME TextsAndQueries == Long \subseteq Text /\ Blank \in Text \ Long
ASSUME PrefixesAreNotBlank == \A t \in Prefix : t \in Text /\ Normal[t] # Normal[Blank]
ASSUME ProposalsAreTexts == Proposal \subseteq [content : Text, resource : Property \cup {None}]
ASSUME ProposalsOfTexts == Proposals \in [Text -> SUBSET Proposal]
ASSUME NoneIsNothing == None \notin Text \cup Property \cup Proposal
ASSUME Bounds == MaxEvents \in Nat /\ Listed \subseteq Property

VARIABLES
  text,       \* the value of the input element
  query,      \* Input.query
  active,     \* Typeahead.isActivated: the field has the focus
  isOpen,     \* Dropdown.isOpen
  cursor,     \* the proposal under the cursor of the menu
  shown,      \* the proposals in the menu and the query they were rendered for
  asked,      \* Dataset.query
  canceled,   \* Dataset.canceled
  timer,      \* the query that waits for timeoutID
  emptying,   \* number of deferred calls of Dropdown.empty
  retype,     \* the contents that wait to be typed again
  requests,   \* the requests whose answers have not come
  sections,   \* of a property: number of its sections on the page
  sent,       \* number of requests
  events,     \* number of events the user caused
  lost        \* (history) texts and properties whose answers were lost

field == <<text, query, active>>
menu == <<isOpen, cursor, shown>>
dataset == <<asked, canceled, timer>>
page == <<requests, sections, sent>>
vars == <<text, query, active, isOpen, cursor, shown, asked, canceled, timer, emptying, retype,
          requests, sections, sent, events, lost>>

Nothing == [for |-> None, items |-> {}]
Request(kind, what) == [id |-> sent + 1, kind |-> kind, what |-> what]

Init ==
  /\ text = Blank /\ query = Blank /\ active = FALSE
  /\ isOpen = FALSE /\ cursor = None /\ shown = Nothing
  /\ asked = None /\ canceled = FALSE /\ timer = None
  /\ emptying = 0 /\ retype = <<>>
  /\ requests = {} /\ sections = [p \in Property |-> 0] /\ sent = 0 /\ events = 0
  /\ lost = {}

UserEvent == events < MaxEvents /\ events' = events + 1

-----------------------------------------------------------------------------
(* The parts the events are made of *)

\* Variant: the timer is not started anew while it runs.
UpdateOnce(q) == asked' = q /\ canceled' = FALSE /\ timer' = IF timer = None THEN q ELSE timer

\* Dataset.update() calls source(), which starts its timer anew.
Update(q) == asked' = q /\ canceled' = FALSE /\ timer' = q

\* Dataset.clear(): the timer goes on.
Clear == canceled' = TRUE /\ shown' = Nothing /\ UNCHANGED <<asked, timer>>

\* Variant: every text is asked for, however short.
QueryChangedAlways(q) ==
  /\ query' = q
  /\ Update(q) /\ UNCHANGED <<shown, cursor>>
  /\ isOpen' = TRUE

\* _onQueryChanged
QueryChanged(q) ==
  /\ query' = q
  /\ IF q \in Long THEN Update(q) /\ UNCHANGED <<shown, cursor>> ELSE Clear /\ cursor' = None
  /\ isOpen' = TRUE

Equivalent(s, t) == Normal[s] = Normal[t]

\* _checkInputValue(): other white space is no other query, but opens the menu.
CheckInputValue(t) ==
  IF Equivalent(t, query)
  THEN isOpen' = (isOpen \/ t # query) /\ UNCHANGED <<query, shown, cursor, dataset>>
  ELSE QueryChanged(t)

\* addProperty(): a section the page has already is clicked only.
MustRender(p) == sections[p] = 0

AddProperty(p) ==
  IF MustRender(p)
  THEN /\ sent' = sent + 1
       /\ requests' = requests \cup {Request("render", p)}
       /\ UNCHANGED sections
  ELSE UNCHANGED page

\* The handler of "typeahead:autocompleted typeahead:selected".
Chosen(d) ==
  \/ d.resource # None /\ AddProperty(d.resource) /\ UNCHANGED retype
  \/ d.resource = None /\ d.content \in Prefix /\ retype' = Append(retype, d.content) /\ UNCHANGED page
  \/ d.resource = None /\ d.content \notin Prefix /\ UNCHANGED <<retype, page>>

-----------------------------------------------------------------------------
(* The user *)

Focus ==
  /\ ~active /\ UserEvent
  /\ active' = TRUE /\ isOpen' = TRUE
  /\ UNCHANGED <<text, query, cursor, shown, dataset, emptying, retype, page, lost>>

Blur ==
  /\ active /\ UserEvent
  /\ active' = FALSE /\ text' = query
  /\ Clear /\ isOpen' = FALSE /\ cursor' = None
  /\ UNCHANGED <<query, emptying, retype, page, lost>>

\* A key changes the text.
Type(t) ==
  /\ active /\ t # text /\ UserEvent
  /\ text' = t
  /\ CheckInputValue(t)
  /\ UNCHANGED <<active, emptying, retype, page, lost>>

Escape ==
  /\ active /\ UserEvent
  /\ isOpen' = FALSE /\ cursor' = None /\ text' = query
  /\ UNCHANGED <<query, active, shown, dataset, emptying, retype, page, lost>>

\* The arrow keys ask again when the menu is empty, or move the cursor, which
\* shows the text of the proposal it comes to.
Arrow ==
  /\ active /\ UserEvent
  /\ \/ /\ shown.items = {} /\ query \in Long
        /\ Update(query) /\ UNCHANGED <<text, cursor>>
     \/ /\ shown.items # {} \/ query \notin Long
        /\ IF isOpen
           THEN \E d \in shown.items \cup {None} :
                  /\ d # cursor \/ shown.items = {}
                  /\ cursor' = d /\ text' = IF d = None THEN query ELSE d.content
           ELSE UNCHANGED <<cursor, text>>
        /\ UNCHANGED dataset
  /\ isOpen' = TRUE
  /\ UNCHANGED <<query, active, shown, emptying, retype, page, lost>>

\* The mouse enters a proposal or leaves the menu: the cursor follows, the text
\* does not.
Mouse ==
  /\ isOpen /\ UserEvent
  /\ \E d \in shown.items \cup {None} : d # cursor /\ cursor' = d
  /\ UNCHANGED <<field, isOpen, shown, dataset, emptying, retype, page, lost>>

\* A click in the menu, or enter or tab when the cursor is there.
Select(d) ==
  /\ d = cursor \/ (isOpen /\ d \in shown.items)
  /\ d # None /\ UserEvent
  /\ query' = d.content /\ text' = d.content
  /\ isOpen' = FALSE /\ cursor' = None
  /\ emptying' = emptying + 1
  /\ Chosen(d)
  /\ UNCHANGED <<active, shown, dataset, lost>>

\* Tab, or the right arrow while the mouse is in the menu too, takes the
\* proposal that the hint shows, which continues the text.
Autocomplete(d) ==
  /\ active /\ isOpen /\ d \in shown.items /\ d.content \notin {text, query}
  /\ UserEvent
  /\ text' = d.content /\ CheckInputValue(d.content)
  /\ Chosen(d)
  /\ UNCHANGED <<active, emptying, lost>>

\* The button of a property in the list of properties.
AddListed(p) ==
  /\ UserEvent
  /\ AddProperty(p)
  /\ UNCHANGED <<field, menu, dataset, emptying, retype, lost>>

-----------------------------------------------------------------------------
(* Timers and answers *)

\* The timer of source() sends the query, without a "<" at its beginning.
Propose ==
  /\ timer # None
  /\ timer' = None
  /\ sent' = sent + 1
  /\ requests' = requests \cup {Request("propose", timer)}
  /\ UNCHANGED <<field, menu, asked, canceled, emptying, retype, sections, events, lost>>

DeferredEmpty ==
  /\ emptying > 0
  /\ emptying' = emptying - 1
  /\ Clear /\ cursor' = None
  /\ UNCHANGED <<field, isOpen, retype, page, events, lost>>

\* Fifty milliseconds after a prefix was chosen: typeahead("val", ...), first
\* with the empty text, which clears the menu unless the field is empty, and
\* then with the prefix.
Retype ==
  /\ retype # <<>>
  /\ LET prefix == Head(retype) IN
       /\ text' = prefix /\ query' = prefix
       /\ \/ ~active /\ UNCHANGED <<menu, dataset>>
          \/ /\ active /\ isOpen' = TRUE
             /\ IF prefix \notin Long THEN Clear
                ELSE /\ Update(prefix)
                     /\ shown' = IF Equivalent(query, Blank) THEN shown ELSE Nothing
             /\ cursor' = IF Equivalent(query, Blank) /\ prefix \in Long THEN cursor ELSE None
  /\ retype' = Tail(retype)
  /\ UNCHANGED <<active, emptying, page, events, lost>>

\* Variant: every answer is shown, unless the menu was cleared.
WantedAny(q) == ~canceled /\ q \in Long

\* render() of Dataset.update() only takes the answer to its last query.
Wanted(q) == ~canceled /\ q = asked

AnswerProposals(r) ==
  /\ r.kind = "propose"
  /\ IF Wanted(r.what)
     THEN /\ shown' = [for |-> r.what, items |-> Proposals[r.what]]
          /\ cursor' = None
     ELSE UNCHANGED <<shown, cursor>>
  /\ UNCHANGED sections

AnswerRender(r) ==
  /\ r.kind = "render"
  /\ sections' = [sections EXCEPT ![r.what] = @ + 1]
  /\ UNCHANGED <<shown, cursor>>

Answer(r) ==
  /\ requests' = requests \ {r}
  /\ AnswerProposals(r) \/ AnswerRender(r)
  /\ UNCHANGED <<field, isOpen, dataset, emptying, retype, sent, events, lost>>

LoseAnswer(r) ==
  /\ requests' = requests \ {r}
  /\ lost' = lost \cup {r.what}
  /\ UNCHANGED <<field, menu, dataset, emptying, retype, sections, sent, events>>

-----------------------------------------------------------------------------

Next ==
  \/ Focus \/ Blur \/ Escape \/ Arrow \/ Mouse
  \/ \E t \in Text : Type(t)
  \/ \E d \in Proposal : Select(d) \/ Autocomplete(d)
  \/ \E p \in Listed : AddListed(p)
  \/ Propose \/ DeferredEmpty \/ Retype
  \/ \E r \in requests : Answer(r) \/ LoseAnswer(r)

\* Timers expire, and requests are answered or given up.
Fairness ==
  /\ WF_vars(Propose) /\ WF_vars(DeferredEmpty) /\ WF_vars(Retype)
  /\ WF_vars(\E r \in requests : Answer(r))

Spec == Init /\ [][Next]_vars /\ Fairness

-----------------------------------------------------------------------------
(* Properties *)

\* Every variable has its type: proposals are only asked for when the query has
\* minLength characters (Typeahead._onQueryChanged).
TypeOK ==
  /\ text \in Text /\ query \in Text /\ active \in BOOLEAN
  /\ isOpen \in BOOLEAN /\ cursor \in Proposal \cup {None}
  /\ shown \in [for : Text \cup {None}, items : SUBSET Proposal]
  /\ asked \in Text \cup {None} /\ canceled \in BOOLEAN /\ timer \in Long \cup {None}
  /\ emptying \in 0 .. MaxEvents /\ retype \in Seq(Text)
  /\ \A r \in requests : r.id \in 1 .. sent /\ r.kind \in {"propose", "render"} /\ r.what \in Text \cup Property
  /\ sections \in [Property -> Nat] /\ events \in 0 .. MaxEvents
  /\ lost \subseteq Text \cup Property

\* Proposals for another text than the query stay in the menu only as long as
\* its own are on their way, or the menu is about to be cleared; once its
\* answer is there a slower answer to an earlier query cannot replace it.
StaleOnlyWhileWaiting ==
  shown.items # {} /\ shown.for # query =>
    \/ emptying > 0 \/ query \in lost
    \/ Wanted(query) /\ (timer = query \/ \E r \in requests : r.kind = "propose" /\ r.what = query)

\* A query gets its proposals, whatever timers and answers of other queries
\* are under way, unless it is replaced, cleared or lost.
SuggestionsCome ==
  \A q \in Long : Wanted(q) ~> (shown.for = q \/ ~Wanted(q) \/ q \in lost)
=============================================================================
