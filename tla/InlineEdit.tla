----------------------------- MODULE InlineEdit -----------------------------
(***************************************************************************)
(* InlineEdit: editing the values of one property of one resource on a     *)
(* page.  edit.js puts the forms of the library X-editable around the      *)
(* nodes of the page, sends what the user submits to the functions         *)
(* setValue and removeValue of the snippet Edit, and replaces a node by    *)
(* the markup of the answer.                                               *)
(*                                                                         *)
(* One action is one event of the browser, which runs its handlers to the  *)
(* end, or one request handled by the server.  The requests go through the *)
(* queue of Lift, which sends one at a time but tries a failed one again   *)
(* later, after the others, and gives up in the end: the module lets       *)
(* requests and answers come in any order and lets them be lost.           *)
(***************************************************************************)
EXTENDS Naturals, Sequences, FiniteSets

CONSTANTS
  Value,       \* the values of the property: objects of its statements
  Page0,       \* the values that the nodes of the loaded page show
  AddControl,  \* the controls with an attribute data-add
  Incomplete,  \* those without a subject or a predicate
  Select,      \* the targets whose choices come from the server
  MaxCalls,    \* bound on the calls of edit and add
  MaxRequests, \* bound on the requests
  None

\* A node shows one value.  Nodes that answers bring follow those of the page.
Node == 1 .. (Len(Page0) + MaxRequests)
Target == Node \cup AddControl

\* The statements of a resource are a set: the page shows a value once.
ASSUME PageShowsValues ==
  Page0 \in Seq(Value) /\ \A i, j \in 1 .. Len(Page0) : Page0[i] = Page0[j] => i = j
ASSUME SetsOfTargets ==
  Incomplete \subseteq AddControl /\ AddControl \cap Node = {} /\ Select \subseteq Target
ASSUME NoneIsNothing == None \notin Value \cup Target
ASSUME BoundsOfCalls == MaxCalls \in Nat /\ MaxRequests \in Nat

VARIABLES
  page,        \* of a node: it is "unborn", "shown" or "removed"
  object,      \* of a node: the value it shows
  buttons,     \* the node that the visible edit and remove buttons belong to
  editable,    \* of a target: the object Editable attached to it
  form,        \* of a target: its form is "closed", "rendering", "open" or "saving"
  opener,      \* of a target: the call that opened its form
  delayedHide, \* of a target: its form is to be hidden when saving ends
  calls,       \* the calls of edit and add
  requests,    \* the requests whose answers have not come
  sent,        \* number of requests
  store,       \* the values in the model
  lost,        \* the targets of requests that got no answer
  disturbed    \* (history) see PageAgreesWithStore

forms == <<editable, form, opener, delayedHide>>
nodes == <<page, object>>
server == <<store, disturbed>>
vars == <<page, object, buttons, editable, form, opener, delayedHide, calls, requests, sent,
          store, lost, disturbed>>

\* The options of an Editable are the closures of one call: its rdfStmts and
\* its resultDeferred.
NoEditable == [call |-> 0, old |-> None]
Editables == [call : 0 .. MaxCalls, old : Value \cup {None}]
Calls == [target : Target, via : 0 .. MaxCalls, deferred : {"pending", "resolved", "rejected"},
          outcome : {"none", "html", "empty"}]
Requests == [id : 1 .. MaxRequests, kind : {"source", "set", "remove"}, target : Target,
             call : 0 .. MaxCalls, old : Value \cup {None}, new : Value \cup {None},
             result : {"none", "items", "html", "empty", "msg", "true", "false"}]

Init ==
  /\ page = [n \in Node |-> IF n <= Len(Page0) THEN "shown" ELSE "unborn"]
  /\ object = [n \in Node |-> IF n <= Len(Page0) THEN Page0[n] ELSE None]
  /\ buttons = None
  /\ editable = [t \in Target |-> NoEditable]
  /\ form = [t \in Target |-> "closed"] /\ opener = [t \in Target |-> 0]
  /\ delayedHide = [t \in Target |-> FALSE]
  /\ calls = <<>> /\ requests = {} /\ sent = 0
  /\ store = {Page0[i] : i \in 1 .. Len(Page0)}
  /\ lost = {} /\ disturbed = FALSE

-----------------------------------------------------------------------------
(* Opening a form *)

OnPage(t) == t \in AddControl \/ page[t] = "shown"

\* editable(options) on a target that has an Editable keeps the old options.
Attached(t, c, old) == IF editable[t] = NoEditable THEN [call |-> c, old |-> old] ELSE editable[t]

\* target.editable(options); target.editable("show")
Open(t, c, old) ==
  /\ editable' = [editable EXCEPT ![t] = Attached(t, c, old)]
  /\ IF OnPage(t) /\ form[t] = "closed"
     THEN form' = [form EXCEPT ![t] = "rendering"] /\ opener' = [opener EXCEPT ![t] = c]
     ELSE UNCHANGED <<form, opener>>
  /\ UNCHANGED delayedHide

Send(kind, t, c, old, new) ==
  /\ sent < MaxRequests
  /\ sent' = sent + 1
  /\ requests' = requests \cup {[id |-> sent + 1, kind |-> kind, target |-> t, call |-> c,
                                 old |-> old, new |-> new, result |-> "none"]}

NewCall(t, via) == [target |-> t, via |-> via, deferred |-> "pending", outcome |-> "none"]

\* computeSourceAndContinue() asks for the choices of a select first.
Start(t, old) ==
  LET c == Len(calls) + 1 IN
  /\ c <= MaxCalls
  /\ \/ /\ t \in Select
        /\ Send("source", t, c, old, None)
        /\ calls' = Append(calls, NewCall(t, 0))
        /\ UNCHANGED forms
     \/ /\ t \notin Select
        /\ Open(t, c, old)
        /\ calls' = Append(calls, NewCall(t, Attached(t, c, old).call))
        /\ UNCHANGED <<requests, sent>>

\* The pointer comes to a node or leaves it.  A node with a form is hidden,
\* and a node that is removed sends no event to its buttons.
Hover(n) ==
  /\ page[n] = "shown" /\ form[n] = "closed" /\ buttons # n
  /\ buttons' = n
  /\ UNCHANGED <<nodes, forms, calls, requests, sent, server, lost>>

Leave ==
  /\ buttons # None /\ page[buttons] = "shown"
  /\ buttons' = None
  /\ UNCHANGED <<nodes, forms, calls, requests, sent, server, lost>>

Edit ==
  /\ buttons # None
  /\ buttons' = None
  /\ Start(buttons, object[buttons])
  /\ UNCHANGED <<nodes, server, lost>>

\* The form of the control hides it: it cannot be clicked twice.
Add(t) ==
  /\ form[t] = "closed"
  /\ \/ t \notin Incomplete /\ Start(t, None)
     \/ /\ t \in Incomplete /\ Len(calls) < MaxCalls
        /\ calls' = Append(calls, [NewCall(t, 0) EXCEPT !.deferred = "rejected"])
        /\ UNCHANGED <<forms, requests, sent>>
  /\ UNCHANGED <<nodes, buttons, server, lost>>

\* The editor is loaded and set up.
Rendered(t) ==
  /\ form[t] = "rendering"
  /\ form' = [form EXCEPT ![t] = "open"]
  /\ UNCHANGED <<nodes, buttons, editable, opener, delayedHide, calls, requests, sent, server, lost>>

-----------------------------------------------------------------------------
(* Saving and closing a form *)

Outstanding(kinds, t) == \E r \in requests : r.kind \in kinds /\ r.target = t

\* Variant: the buttons of the form stay usable while it saves.
MaySubmitAgain(t) == form[t] \in {"open", "saving"}

\* The form waits for the answer; its controls are hidden meanwhile.
MaySubmit(t) == form[t] = "open"

\* submit() calls the option url, a closure of the call whose options the
\* Editable keeps.
Submit(t, v) ==
  /\ MaySubmit(t)
  /\ form' = [form EXCEPT ![t] = "saving"]
  /\ Send("set", t, editable[t].call, editable[t].old, v)
  /\ disturbed' = (disturbed \/ Outstanding({"remove"}, t))
  /\ UNCHANGED <<nodes, buttons, editable, opener, delayedHide, calls, store, lost>>

Cancel(t) ==
  /\ form[t] = "open"
  /\ form' = [form EXCEPT ![t] = "closed"]
  /\ UNCHANGED <<nodes, buttons, editable, opener, delayedHide, calls, requests, sent, server, lost>>

\* Variant: hide() does not look at isSaving.
EscapeAtOnce ==
  /\ \E t \in Target : form[t] # "closed"
  /\ form' = [t \in Target |-> "closed"]
  /\ delayedHide' = [t \in Target |-> FALSE]
  /\ UNCHANGED <<nodes, buttons, editable, opener, calls, requests, sent, server, lost>>

\* Escape hides every form; one that saves is hidden when its answer is there.
Escape ==
  /\ \E t \in Target : form[t] # "closed"
  /\ form' = [t \in Target |-> IF form[t] = "saving" THEN "saving" ELSE "closed"]
  /\ delayedHide' = [t \in Target |-> form[t] = "saving"]
  /\ UNCHANGED <<nodes, buttons, editable, opener, calls, requests, sent, server, lost>>

\* A node that is no longer on the page has lost its resource: no statement
\* is found for it.
Remove ==
  /\ buttons # None
  /\ buttons' = None
  /\ Send("remove", buttons, 0, IF page[buttons] = "shown" THEN object[buttons] ELSE None, None)
  /\ disturbed' = (disturbed \/ (page[buttons] = "shown" /\ Outstanding({"set", "remove"}, buttons)))
  /\ UNCHANGED <<nodes, forms, calls, store, lost>>

-----------------------------------------------------------------------------
(* The server *)

Serve(r, result, values, spoils) ==
  /\ requests' = (requests \ {r}) \cup {[r EXCEPT !.result = result]}
  /\ store' = values
  /\ disturbed' = (disturbed \/ spoils)
  /\ UNCHANGED <<nodes, buttons, forms, calls, sent, lost>>

ServeSource(r) == r.kind = "source" /\ Serve(r, "items", store, FALSE)

\* Variant: the old statement stays, even the empty one of an addition.
ReplacedNothing(r) == store \cup {r.old, r.new}

\* The helper removes the old statement and adds the new one.
Replaced(r) == (store \ {r.old}) \cup {r.new}

\* A refused change has a message, a cancelled one an empty message, which
\* edit.js takes for success.  The saved value may have no markup: there is
\* no template, or it is not found.
ServeSet(r) ==
  /\ r.kind = "set"
  /\ \/ Serve(r, "msg", store, FALSE)
     \/ Serve(r, "empty", store, FALSE)
     \/ Serve(r, "empty", Replaced(r), TRUE)
     \/ Serve(r, "html", Replaced(r), r.new \in store \ {r.old})

\* The status of the command is not looked at: a refused one is answered by
\* true as well.  An exception, as that of no statement, gives false.
ServeRemove(r) ==
  /\ r.kind = "remove"
  /\ \/ r.old # None /\ Serve(r, "true", store \ {r.old}, FALSE)
     \/ r.old # None /\ Serve(r, "true", store, TRUE)
     \/ Serve(r, "false", store, FALSE)

ServeRequest(r) == r.result = "none" /\ (ServeSource(r) \/ ServeSet(r) \/ ServeRemove(r))

-----------------------------------------------------------------------------
(* The answers *)

\* computeSourceAndContinue() calls its callback.
AnswerSource(r) ==
  /\ r.result = "items"
  /\ Open(r.target, r.call, r.old)
  /\ calls' = [calls EXCEPT ![r.call].via = Attached(r.target, r.call, r.old).call]
  /\ UNCHANGED <<nodes, lost>>

\* Variant: nothing listens to the removal of the node.
DetachNodeOnly(n) ==
  /\ editable' = [editable EXCEPT ![n] = NoEditable]
  /\ UNCHANGED <<form, delayedHide, opener>>

\* target.remove() takes the node from the page, which destroys its Editable
\* and its form, whatever they do.
Detach(n) ==
  /\ editable' = [editable EXCEPT ![n] = NoEditable]
  /\ form' = [form EXCEPT ![n] = "closed"]
  /\ delayedHide' = [delayedHide EXCEPT ![n] = FALSE]
  /\ UNCHANGED opener

\* Variant: the node goes, whatever the answer is.
RemoveAnyway(r) ==
  /\ r.kind = "remove" /\ r.result \in {"true", "false"}
  /\ IF page[r.target] = "shown"
     THEN page' = [page EXCEPT ![r.target] = "removed"] /\ Detach(r.target)
     ELSE UNCHANGED <<page, forms>>
  /\ UNCHANGED <<object, calls, lost>>

AnswerRemove(r) ==
  /\ r.kind = "remove" /\ r.result \in {"true", "false"}
  /\ IF r.result = "true" /\ page[r.target] = "shown"
     THEN page' = [page EXCEPT ![r.target] = "removed"] /\ Detach(r.target)
     ELSE UNCHANGED <<page, forms>>
  /\ UNCHANGED <<object, calls, lost>>

\* What a deferred becomes; a second resolve or reject has no effect.
Settle(d, to) == IF d = "pending" THEN to ELSE d

\* Variant: isSaving is only reset when saving succeeds.
StaysSaving(r) ==
  /\ r.result = "msg"
  /\ calls' = [calls EXCEPT ![r.call].deferred = Settle(@, "rejected")]
  /\ UNCHANGED <<forms, nodes, lost>>

\* The error is shown in the form, which then may be edited again, unless it
\* was to be hidden.
AnswerRefused(r) ==
  /\ r.result = "msg"
  /\ calls' = [calls EXCEPT ![r.call].deferred = Settle(@, "rejected")]
  /\ IF form[r.target] = "saving"
     THEN /\ form' = [form EXCEPT ![r.target] = IF delayedHide[r.target] THEN "closed" ELSE "open"]
          /\ delayedHide' = [delayedHide EXCEPT ![r.target] = FALSE]
     ELSE UNCHANGED <<form, delayedHide>>
  /\ UNCHANGED <<nodes, editable, opener, lost>>

\* The form of a removed node has lost its handlers.
Finish(r, outcome) == IF form[r.target] = "saving"
                      THEN [calls EXCEPT ![opener[r.target]].outcome = outcome] ELSE calls

\* Variant: only the new node resolves the deferred.
ResolvedByMarkup(cs, r) == IF r.result = "html" THEN [cs EXCEPT ![r.call].deferred = Settle(@, "resolved")]
                           ELSE cs

Resolved(cs, r) == [cs EXCEPT ![r.call].deferred = Settle(@, "resolved")]

\* Without markup the form is closed and the page is left as it was.  Only
\* the options of doEdit() resolve the deferred then.
AnswerEmpty(r) ==
  /\ r.result = "empty"
  /\ LET cs == Finish(r, "empty") IN
       calls' = IF r.target \in Node THEN Resolved(cs, r) ELSE cs
  /\ form' = [form EXCEPT ![r.target] = "closed"]
  /\ delayedHide' = [delayedHide EXCEPT ![r.target] = FALSE]
  /\ UNCHANGED <<nodes, editable, opener, lost>>

\* The success function shows the new node; display() puts it in the place of
\* the edited one.
AnswerHtml(r) ==
  /\ r.result = "html"
  /\ IF form[r.target] = "saving"
     THEN LET new == CHOOSE n \in Node : page[n] = "unborn" /\ \A k \in Node : k < n => page[k] # "unborn" IN
          /\ calls' = Resolved(Finish(r, "html"), r)
          /\ object' = [object EXCEPT ![new] = r.new]
          /\ IF r.target \in Node
             THEN page' = [page EXCEPT ![new] = "shown", ![r.target] = "removed"] /\ Detach(r.target)
             ELSE /\ page' = [page EXCEPT ![new] = "shown"]
                  /\ form' = [form EXCEPT ![r.target] = "closed"]
                  /\ delayedHide' = [delayedHide EXCEPT ![r.target] = FALSE]
                  /\ UNCHANGED <<editable, opener>>
     ELSE UNCHANGED <<nodes, forms, calls>>
  /\ UNCHANGED lost

Answer(r) ==
  /\ requests' = requests \ {r}
  /\ AnswerSource(r) \/ AnswerRemove(r) \/ AnswerRefused(r) \/ AnswerEmpty(r) \/ AnswerHtml(r)
  /\ UNCHANGED <<buttons, sent, server>>

\* Lift gives up: the function for a failed request is not set.
LoseAnswer(r) ==
  /\ requests' = requests \ {r}
  /\ lost' = lost \cup {r.target}
  /\ UNCHANGED <<nodes, buttons, forms, calls, sent, server>>

-----------------------------------------------------------------------------

Next ==
  \/ \E n \in Node : Hover(n)
  \/ Leave \/ Edit \/ Remove \/ Escape
  \/ \E t \in AddControl : Add(t)
  \/ \E t \in Target : Rendered(t) \/ Cancel(t) \/ \E v \in Value : Submit(t, v)
  \/ \E r \in requests : ServeRequest(r) \/ Answer(r) \/ LoseAnswer(r)

\* The queue of Lift sends the requests that are due as long as there are any,
\* and the server answers them.
Fairness == WF_vars(\E r \in requests : ServeRequest(r) \/ Answer(r))

Spec == Init /\ [][Next]_vars /\ Fairness

-----------------------------------------------------------------------------
(* Properties *)

\* Every variable has its type: no more than the values anybody submitted get
\* into the model (Edit.setValue), and no two requests have one number.
TypeOK ==
  /\ page \in [Node -> {"unborn", "shown", "removed"}]
  /\ object \in [Node -> Value \cup {None}]
  /\ buttons \in Node \cup {None}
  /\ editable \in [Target -> Editables]
  /\ form \in [Target -> {"closed", "rendering", "open", "saving"}]
  /\ opener \in [Target -> 0 .. MaxCalls]
  /\ delayedHide \in [Target -> BOOLEAN]
  /\ calls \in Seq(Calls) /\ Len(calls) <= MaxCalls
  /\ requests \subseteq Requests /\ sent \in 0 .. MaxRequests
  /\ store \subseteq Value /\ lost \subseteq Target /\ disturbed \in BOOLEAN
  /\ \A r, q \in requests : r.id = q.id => r = q

\* A form that saves waits for exactly one change of its target, if no answer
\* was lost: nothing is sent twice, and no form waits for an answer that has
\* come already, whatever is removed, hidden or reopened meanwhile.
SavingHasRequest ==
  \A t \in Target \ lost : form[t] = "saving" =>
    Cardinality({r \in requests : r.kind = "set" /\ r.target = t}) = 1

\* When every answer has come, the page shows the values in the model, however
\* edits, additions and removals of the same values overlapped.  It need not
\* after four disturbances: a removal and another change of one node at a
\* time, a removal that the server refused but reported as done, a change to a
\* value another node shows, and a saved value without markup.
PageAgreesWithStore ==
  requests = {} /\ lost = {} /\ ~disturbed =>
    store = {object[n] : n \in {k \in Node : page[k] = "shown"}}

\* The promise of a call is settled once the form it opened has been saved and
\* closed, when the form ran with the options of this call.  An addition that
\* brings no markup does not settle it.
FinishedSettles ==
  \A c \in DOMAIN calls :
    /\ calls[c].via = c
    /\ calls[c].outcome = "html" \/ (calls[c].outcome = "empty" /\ calls[c].target \in Node)
    => calls[c].deferred # "pending"

\* A node that was taken from the page leaves no form behind: a form with
\* unsaved text of a removed value would save it as a new one.
RemovedHasNoForm == \A n \in Node : page[n] = "removed" => form[n] = "closed"

\* A form that saves is closed by the answer to its change, if that was not
\* refused; any other end needs a wish of the user, to hide the form or to
\* remove the node.
ClosesOnlyWhenSaved ==
  [][\A t \in Target : form[t] = "saving" /\ form'[t] = "closed" =>
       \/ delayedHide[t]
       \/ t \in Node /\ page'[t] = "removed"
       \/ \E r \in requests \ requests' : r.kind = "set" /\ r.target = t /\ r.result \in {"html", "empty"}]_vars

\* No form stays in its saving state, if its answers are not lost: the user
\* gets the page or the form back.
SavesEnd == \A t \in Target : form[t] = "saving" ~> (form[t] # "saving" \/ t \in lost)
=============================================================================
