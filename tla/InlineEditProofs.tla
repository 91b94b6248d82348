-------------------------- MODULE InlineEditProofs --------------------------
(***************************************************************************)
(* Proofs about InlineEdit for any page, values, controls and numbers of   *)
(* calls and requests: types, what a form waits for and how it closes,     *)
(* the promises of the calls, and the page against the model.              *)
(***************************************************************************)
EXTENDS InlineEdit, FiniteSetTheorems, SequenceTheorems, TLAPS

-----------------------------------------------------------------------------
(* The inductive invariant *)

\* A request and the answers there are for its kind.
Fits(r) ==
  \/ r.kind = "source" /\ r.result \in {"none", "items"}
  \/ r.kind = "set" /\ r.new \in Value /\ r.result \in {"none", "html", "empty", "msg"}
  \/ r.kind = "remove" /\ r.target \in Node /\ r.result \in {"none", "true", "false"}

TypeInv == TypeOK /\ \A r \in requests : r.id <= sent /\ Fits(r)

\* A change is on its way for a form that saves, or for a removed node only.
FormInv ==
  /\ \A n \in Node : page[n] # "shown" => form[n] = "closed"
  /\ \A t \in Target \ lost : form[t] = "saving" => \E r \in requests : r.kind = "set" /\ r.target = t
  /\ \A r, q \in requests : r.kind = "set" /\ q.kind = "set" /\ r.target = q.target => r = q
  /\ \A r \in requests : r.kind = "set" =>
       form[r.target] = "saving" \/ (r.target \in Node /\ page[r.target] = "removed")

\* The form of a target runs with the options of its Editable, and a call that
\* waits for its choices has opened nothing yet.
CallInv ==
  /\ \A t \in Target : editable[t] # NoEditable => editable[t].call # 0
  /\ \A t \in Target : form[t] # "closed" =>
       /\ editable[t] # NoEditable /\ opener[t] \in DOMAIN calls
       /\ calls[opener[t]].target = t /\ calls[opener[t]].via = editable[t].call
  /\ \A c \in DOMAIN calls : calls[c].outcome # "none" => calls[c].via # 0
  /\ \A r \in requests : r.kind = "source" =>
       r.call \in DOMAIN calls /\ calls[r.call].via = 0 /\ calls[r.call].target = r.target
  /\ \A r, q \in requests : r.kind = "source" /\ q.kind = "source" /\ r.call = q.call => r = q
  /\ \A r \in requests : r.kind = "set" /\ form[r.target] = "saving" => r.call = editable[r.target].call

\* The value that a call at this target replaces.
Shown(t) == IF t \in Node THEN object[t] ELSE None
Born(t) == t \in Node => page[t] # "unborn"

\* Nobody knows a node before it is born, and afterwards it shows one value.
BirthInv ==
  /\ buttons # None => Born(buttons)
  /\ \A t \in Target : editable[t] # NoEditable => Born(t) /\ editable[t].old = Shown(t)
  /\ \A r \in requests : Born(r.target) /\ (r.kind # "remove" => r.old = Shown(r.target))

\* There are nodes left for all answers.
NodesLeft ==
  /\ IsFiniteSet(requests)
  /\ \E b \in 0 .. (Len(Page0) + sent) :
       /\ b + Cardinality(requests) <= Len(Page0) + sent
       /\ \A n \in Node : page[n] # "unborn" <=> n <= b

\* What a target shows when the answers that the server has given are there.
Vanishes(t) == \E r \in requests : r.target = t /\ r.result \in {"true", "html"}
Holds(t, v) ==
  \/ t \in Node /\ page[t] = "shown" /\ ~Vanishes(t) /\ v = object[t]
  \/ \E r \in requests : r.target = t /\ r.result = "html" /\ v = r.new

\* As long as nothing disturbs: no node is changed twice at a time, a removal
\* is about the value shown, and every value of the model belongs to one target.
Apart ==
  /\ \A r \in requests : r.kind = "set" => ~(r.target \in Node /\ page[r.target] = "removed")
  /\ \A r, q \in requests : r.kind = "remove" /\ q.kind \in {"set", "remove"} /\ r.target = q.target =>
       r = q \/ page[r.target] = "removed"
  /\ \A r \in requests : r.kind = "remove" =>
       /\ r.old = IF page[r.target] = "shown" THEN object[r.target] ELSE None
       /\ r.result = "true" => page[r.target] = "shown"

Values ==
  /\ \A v \in Value \cup {None} : v \in store <=> \E t \in Target : Holds(t, v)
  /\ \A t, u \in Target, v \in Value \cup {None} : Holds(t, v) /\ Holds(u, v) => t = u

Undisturbed == lost = {} /\ ~disturbed

StoreInv == Undisturbed => Apart /\ Values

-----------------------------------------------------------------------------
(* Types *)

RequestTypes ==
  /\ requests \subseteq Requests /\ sent \in 0 .. MaxRequests
  /\ \A r, q \in requests : r.id = q.id => r = q
  /\ \A r \in requests : r.id <= sent /\ Fits(r)

FormTypes ==
  /\ editable \in [Target -> Editables]
  /\ form \in [Target -> {"closed", "rendering", "open", "saving"}]
  /\ opener \in [Target -> 0 .. MaxCalls]
  /\ delayedHide \in [Target -> BOOLEAN]

CallTypes == calls \in Seq(Calls) /\ Len(calls) <= MaxCalls

PageTypes ==
  /\ page \in [Node -> {"unborn", "shown", "removed"}]
  /\ object \in [Node -> Value \cup {None}]
  /\ buttons \in Node \cup {None}
  /\ store \subseteq Value /\ lost \subseteq Target /\ disturbed \in BOOLEAN

\* The types by what they are about.
LEMMA TypeParts == TypeInv <=> PageTypes /\ FormTypes /\ CallTypes /\ RequestTypes
PROOF BY DEF TypeInv, TypeOK, PageTypes, FormTypes, CallTypes, RequestTypes

\* The fields of a request.
LEMMA RequestFields ==
  ASSUME NEW r \in Requests
  PROVE  /\ r.id \in Nat /\ r.target \in Target /\ r.call \in 0 .. MaxCalls
         /\ r.old \in Value \cup {None} /\ r.new \in Value \cup {None}
PROOF BY BoundsOfCalls DEF Requests

\* A request and its answer.
LEMMA AnswerFields ==
  ASSUME NEW r \in Requests, NEW x \in {"none", "items", "html", "empty", "msg", "true", "false"},
         NEW a, a = [r EXCEPT !.result = x]
  PROVE  /\ a \in Requests /\ a.result = x
         /\ a.id = r.id /\ a.kind = r.kind /\ a.target = r.target /\ a.call = r.call
         /\ a.old = r.old /\ a.new = r.new
PROOF BY DEF Requests

\* Answers that come or are lost leave the other requests as they are.
LEMMA RequestFrame ==
  ASSUME RequestTypes, requests' \subseteq requests, sent' = sent
  PROVE  RequestTypes'
PROOF BY DEF RequestTypes, Fits

\* A new request has the next number.
LEMMA SendType ==
  ASSUME RequestTypes, NEW kind \in {"source", "set", "remove"}, NEW t \in Target,
         NEW c \in 0 .. MaxCalls, NEW old \in Value \cup {None}, NEW new \in Value \cup {None},
         kind = "set" => new \in Value, kind = "remove" => t \in Node,
         Send(kind, t, c, old, new)
  PROVE  RequestTypes'
<1> DEFINE q == [id |-> sent + 1, kind |-> kind, target |-> t, call |-> c,
                 old |-> old, new |-> new, result |-> "none"]
<1>1. sent' = sent + 1 /\ requests' = requests \cup {q} /\ sent' \in 1 .. MaxRequests
  BY BoundsOfCalls DEF Send, RequestTypes
<1>2. q \in Requests
  BY <1>1 DEF Requests
<1>3. ASSUME NEW r \in requests PROVE r.id <= sent /\ r.id \in Nat
  <2>1. r \in Requests /\ r.id <= sent
    BY DEF RequestTypes
  <2> QED
    BY <2>1, RequestFields
<1>4. Fits(q)
  BY DEF Fits
<1>5. \A r \in requests' : Fits(r)'
  BY <1>1, <1>4 DEF RequestTypes, Fits
<1>6. sent \in Nat /\ q.id = sent + 1
  BY DEF RequestTypes
<1>7. \A r \in requests' : r.id <= sent'
  BY <1>1, <1>3, <1>6
<1>8. \A r, p \in requests' : r.id = p.id => r = p
  BY <1>1, <1>3, <1>6 DEF RequestTypes
<1> HIDE DEF q
<1> QED
  BY <1>1, <1>2, <1>5, <1>7, <1>8 DEF RequestTypes

\* The server sets the answer of a request and nothing else of it.
LEMMA ServeType ==
  ASSUME RequestTypes, NEW r \in requests, NEW x, NEW values, NEW spoils, Serve(r, x, values, spoils),
         \/ r.kind = "source" /\ x = "items"
         \/ r.kind = "set" /\ x \in {"html", "empty", "msg"}
         \/ r.kind = "remove" /\ x \in {"true", "false"}
  PROVE  RequestTypes'
<1> DEFINE a == [r EXCEPT !.result = x]
<1>1. requests' = (requests \ {r}) \cup {a} /\ sent' = sent
  BY DEF Serve
<1>2. /\ a \in Requests /\ a.result = x /\ a.id = r.id /\ a.kind = r.kind
      /\ a.target = r.target /\ a.new = r.new
  <2>1. r \in Requests /\ x \in {"none", "items", "html", "empty", "msg", "true", "false"}
    BY DEF RequestTypes
  <2> QED
    BY <2>1, AnswerFields
<1> HIDE DEF a
<1>3. Fits(a)
  BY <1>2 DEF RequestTypes, Fits
<1>4. \A q \in requests' : q.id <= sent' /\ Fits(q)'
  BY <1>1, <1>2, <1>3 DEF RequestTypes, Fits
<1>5. \A p, q \in requests' : p.id = q.id => p = q
  BY <1>1, <1>2 DEF RequestTypes
<1> QED
  BY <1>1, <1>2, <1>4, <1>5 DEF RequestTypes

\* What becomes of one of the calls.
LEMMA CallFields ==
  ASSUME NEW cs \in Seq(Calls), NEW i, NEW e, i \in 1 .. Len(cs) => e \in Calls
  PROVE  [cs EXCEPT ![i] = e] \in Seq(Calls) /\ Len([cs EXCEPT ![i] = e]) = Len(cs)
<1>1. CASE i \in 1 .. Len(cs)
  BY <1>1, ExceptSeq
<1>2. CASE i \notin 1 .. Len(cs)
  <2>1. [cs EXCEPT ![i] = e] = cs
    BY <1>2, LenProperties
  <2> QED
    BY <2>1
<1> QED
  BY <1>1, <1>2

\* Its promise is settled.
LEMMA Settled ==
  ASSUME NEW cs \in Seq(Calls), NEW i, NEW d \in {"resolved", "rejected"}
  PROVE  LET ds == [cs EXCEPT ![i].deferred = Settle(@, d)] IN ds \in Seq(Calls) /\ Len(ds) = Len(cs)
<1>1. \A e \in Calls : [e EXCEPT !.deferred = Settle(@, d)] \in Calls
  BY DEF Calls, Settle
<1>2. i \in 1 .. Len(cs) => cs[i] \in Calls
  BY ElementOfSeq
<1> QED
  BY <1>1, <1>2, CallFields

\* The form it opened is closed.
LEMMA Outcome ==
  ASSUME NEW cs \in Seq(Calls), NEW i, NEW o \in {"html", "empty"}
  PROVE  LET ds == [cs EXCEPT ![i].outcome = o] IN ds \in Seq(Calls) /\ Len(ds) = Len(cs)
<1>1. \A e \in Calls : [e EXCEPT !.outcome = o] \in Calls
  BY DEF Calls
<1>2. i \in 1 .. Len(cs) => cs[i] \in Calls
  BY ElementOfSeq
<1> QED
  BY <1>1, <1>2, CallFields

\* Its form will run with the options of another call, or its own.
LEMMA Via ==
  ASSUME NEW cs \in Seq(Calls), NEW i, NEW v \in 0 .. MaxCalls
  PROVE  LET ds == [cs EXCEPT ![i].via = v] IN ds \in Seq(Calls) /\ Len(ds) = Len(cs)
<1>1. \A e \in Calls : [e EXCEPT !.via = v] \in Calls
  BY DEF Calls
<1>2. i \in 1 .. Len(cs) => cs[i] \in Calls
  BY ElementOfSeq
<1> QED
  BY <1>1, <1>2, CallFields

\* Showing a form keeps the types, and the options are those of some call.
LEMMA OpenType ==
  ASSUME FormTypes, NEW t \in Target, NEW c \in 0 .. MaxCalls, NEW old \in Value \cup {None}
  PROVE  /\ Attached(t, c, old) \in Editables /\ Attached(t, c, old).call \in 0 .. MaxCalls
         /\ Open(t, c, old) => FormTypes'
<1>1. Attached(t, c, old) \in Editables /\ Attached(t, c, old).call \in 0 .. MaxCalls
  BY DEF FormTypes, Attached, Editables
<1>2. ASSUME Open(t, c, old) PROVE FormTypes'
  BY <1>1, <1>2 DEF FormTypes, Open
<1> QED
  BY <1>1, <1>2

\* So does a new call.
LEMMA StartType ==
  ASSUME FormTypes, CallTypes, RequestTypes, NEW t \in Target, NEW old \in Value \cup {None}, Start(t, old)
  PROVE  FormTypes' /\ CallTypes' /\ RequestTypes'
<1> DEFINE c == Len(calls) + 1
<1>1. c \in 0 .. MaxCalls /\ c \in Nat
  BY BoundsOfCalls DEF Start, CallTypes
<1>2. \A via \in 0 .. MaxCalls : NewCall(t, via) \in Calls
  BY DEF NewCall, Calls
<1>3. ASSUME NEW via \in 0 .. MaxCalls, calls' = Append(calls, NewCall(t, via)) PROVE CallTypes'
  BY <1>1, <1>2, <1>3, AppendProperties DEF CallTypes
<1>4. CASE t \in Select
  <2>1. Send("source", t, c, old, None) /\ calls' = Append(calls, NewCall(t, 0)) /\ UNCHANGED forms
    BY <1>4 DEF Start
  <2>2. RequestTypes'
    BY <1>1, <2>1, SendType
  <2>3. CallTypes'
    BY <1>3, <2>1, BoundsOfCalls
  <2> QED
    BY <2>1, <2>2, <2>3 DEF FormTypes, forms
<1>5. CASE t \notin Select
  <2>1. /\ Open(t, c, old) /\ calls' = Append(calls, NewCall(t, Attached(t, c, old).call))
        /\ requests' = requests /\ sent' = sent
    BY <1>5 DEF Start
  <2>2. FormTypes' /\ Attached(t, c, old).call \in 0 .. MaxCalls
    BY <1>1, <2>1, OpenType
  <2> QED
    BY <1>3, <2>1, <2>2, RequestFrame
<1> QED
  BY <1>4, <1>5

\* The nodes that are edited and removed are nodes.
LEMMA Buttons ==
  ASSUME PageTypes, buttons # None
  PROVE  buttons \in Node /\ buttons \in Target /\ object[buttons] \in Value \cup {None}
PROOF BY DEF PageTypes, Target

\* The state of the loaded page has the types.
LEMMA TypeInit == Init => TypeInv
<1> SUFFICES ASSUME Init PROVE PageTypes /\ FormTypes /\ CallTypes /\ RequestTypes
  BY TypeParts
<1>1. Len(Page0) \in Nat /\ \A n \in 1 .. Len(Page0) : Page0[n] \in Value
  BY PageShowsValues, LenProperties, ElementOfSeq
<1>2. PageTypes
  <2>1. object \in [Node -> Value \cup {None}]
    BY <1>1 DEF Init, Node
  <2>2. store \subseteq Value
    BY <1>1 DEF Init
  <2> QED
    BY <2>1, <2>2 DEF Init, PageTypes
<1>3. FormTypes
  BY BoundsOfCalls DEF Init, FormTypes, NoEditable, Editables
<1>4. CallTypes
  BY BoundsOfCalls DEF Init, CallTypes
<1>5. RequestTypes
  BY BoundsOfCalls DEF Init, RequestTypes
<1> QED
  BY <1>2, <1>3, <1>4, <1>5

\* Every answer of the server keeps the types.
LEMMA ServeRequestType ==
  ASSUME PageTypes, RequestTypes, NEW r \in requests, ServeRequest(r)
  PROVE  PageTypes' /\ RequestTypes'
<1>1. PICK x, values, spoils :
        /\ Serve(r, x, values, spoils)
        /\ \/ r.kind = "source" /\ x = "items"
           \/ r.kind = "set" /\ x \in {"html", "empty", "msg"}
           \/ r.kind = "remove" /\ x \in {"true", "false"}
        /\ values \in {store, store \ {r.old}} \/ (r.kind = "set" /\ values = Replaced(r))
  <2>1. CASE ServeSource(r)
    BY <2>1 DEF ServeSource
  <2>2. CASE ServeSet(r)
    BY <2>2 DEF ServeSet
  <2>3. CASE ServeRemove(r)
    BY <2>3 DEF ServeRemove
  <2> QED
    BY <2>1, <2>2, <2>3 DEF ServeRequest
<1>2. RequestTypes'
  BY <1>1, ServeType
<1>3. values \subseteq Value
  BY <1>1 DEF PageTypes, RequestTypes, Fits, Replaced
<1> QED
  BY <1>1, <1>2, <1>3 DEF Serve, PageTypes, nodes

\* So does every event that an answer is for the page.
LEMMA AnswerType ==
  ASSUME PageTypes, FormTypes, CallTypes, RequestTypes, NEW r \in requests, Answer(r)
  PROVE  PageTypes' /\ FormTypes' /\ CallTypes' /\ RequestTypes'
<1>1. RequestTypes'
  BY RequestFrame DEF Answer
<1>2. r \in Requests
  BY DEF RequestTypes
<1>3. r.target \in Target /\ r.call \in 0 .. MaxCalls /\ r.old \in Value \cup {None} /\ r.new \in Value \cup {None}
  BY <1>2, RequestFields
<1>4. UNCHANGED <<buttons, store, disturbed>>
  BY DEF Answer, server
<1>5. ASSUME NEW n \in Node, Detach(n) PROVE FormTypes'
  <2>1. NoEditable \in Editables
    BY BoundsOfCalls DEF NoEditable, Editables
  <2> QED
    BY <1>5, <2>1 DEF Detach, FormTypes
<1>6. CASE AnswerSource(r)
  <2>1. FormTypes' /\ Attached(r.target, r.call, r.old).call \in 0 .. MaxCalls
    BY <1>3, <1>6, OpenType DEF AnswerSource
  <2>2. CallTypes'
    BY <1>6, <2>1, Via DEF AnswerSource, CallTypes
  <2> QED
    BY <1>1, <1>4, <1>6, <2>1, <2>2 DEF AnswerSource, PageTypes, nodes
<1>7. CASE AnswerRemove(r)
  <2>1. r.target \in Node
    BY <1>7 DEF AnswerRemove, RequestTypes, Fits
  <2>2. FormTypes'
    BY <1>5, <1>7, <2>1 DEF AnswerRemove, FormTypes, forms
  <2> QED
    BY <1>1, <1>4, <1>7, <2>1, <2>2 DEF AnswerRemove, PageTypes, CallTypes, forms
<1>8. CASE AnswerRefused(r)
  <2>1. FormTypes'
    BY <1>8 DEF AnswerRefused, FormTypes
  <2>2. CallTypes'
    BY <1>8, Settled DEF AnswerRefused, CallTypes
  <2> QED
    BY <1>1, <1>4, <1>8, <2>1, <2>2 DEF AnswerRefused, PageTypes, nodes
<1>9. ASSUME NEW o \in {"html", "empty"}
      PROVE  /\ Finish(r, o) \in Seq(Calls) /\ Len(Finish(r, o)) = Len(calls)
             /\ Resolved(Finish(r, o), r) \in Seq(Calls) /\ Len(Resolved(Finish(r, o), r)) = Len(calls)
  <2>1. Finish(r, o) \in Seq(Calls) /\ Len(Finish(r, o)) = Len(calls)
    BY Outcome DEF CallTypes, Finish
  <2> QED
    BY <2>1, Settled DEF Resolved
<1>10. CASE AnswerEmpty(r)
  <2>1. FormTypes'
    BY <1>10 DEF AnswerEmpty, FormTypes
  <2>2. CallTypes'
    BY <1>9, <1>10 DEF AnswerEmpty, CallTypes
  <2> QED
    BY <1>1, <1>4, <1>10, <2>1, <2>2 DEF AnswerEmpty, PageTypes, nodes
<1>11. CASE AnswerHtml(r) /\ form[r.target] = "saving"
  <2> DEFINE new == CHOOSE n \in Node : page[n] = "unborn" /\ \A k \in Node : k < n => page[k] # "unborn"
  <2>1. CallTypes'
    BY <1>9, <1>11 DEF AnswerHtml, CallTypes
  <2>2. object' = [object EXCEPT ![new] = r.new] /\ lost' = lost
    BY <1>11 DEF AnswerHtml
  <2>3. CASE r.target \in Node
    <3>1. page' = [page EXCEPT ![new] = "shown", ![r.target] = "removed"] /\ Detach(r.target)
      BY <1>11, <2>3 DEF AnswerHtml
    <3> HIDE DEF new
    <3> QED
      BY <1>1, <1>3, <1>4, <1>5, <2>1, <2>2, <2>3, <3>1 DEF PageTypes
  <2>4. CASE r.target \notin Node
    <3>1. /\ page' = [page EXCEPT ![new] = "shown"]
          /\ form' = [form EXCEPT ![r.target] = "closed"]
          /\ delayedHide' = [delayedHide EXCEPT ![r.target] = FALSE]
          /\ UNCHANGED <<editable, opener>>
      BY <1>11, <2>4 DEF AnswerHtml
    <3> HIDE DEF new
    <3> QED
      BY <1>1, <1>3, <1>4, <2>1, <2>2, <3>1 DEF PageTypes, FormTypes
  <2> QED
    BY <2>3, <2>4
<1>12. CASE AnswerHtml(r) /\ form[r.target] # "saving"
  BY <1>1, <1>4, <1>12 DEF AnswerHtml, PageTypes, FormTypes, CallTypes, nodes, forms
<1> QED
  BY <1>6, <1>7, <1>8, <1>10, <1>11, <1>12 DEF Answer

\* Every step keeps the types.
LEMMA TypeStep == TypeInv /\ [Next]_vars => TypeInv'
<1> SUFFICES ASSUME PageTypes, FormTypes, CallTypes, RequestTypes, [Next]_vars
    PROVE  PageTypes' /\ FormTypes' /\ CallTypes' /\ RequestTypes'
  BY TypeParts DEF TypeInv, TypeOK, PageTypes, FormTypes, CallTypes, RequestTypes
<1>1. ASSUME NEW n \in Node, Hover(n) PROVE PageTypes' /\ FormTypes' /\ CallTypes' /\ RequestTypes'
  BY <1>1, RequestFrame DEF Hover, nodes, forms, server, PageTypes, FormTypes, CallTypes
<1>2. CASE Leave
  BY <1>2, RequestFrame DEF Leave, nodes, forms, server, PageTypes, FormTypes, CallTypes
<1>3. CASE Edit
  <2>1. FormTypes' /\ CallTypes' /\ RequestTypes'
    BY <1>3, Buttons, StartType DEF Edit
  <2> QED
    BY <1>3, <2>1 DEF Edit, nodes, server, PageTypes
<1>4. ASSUME NEW t \in AddControl, Add(t) PROVE PageTypes' /\ FormTypes' /\ CallTypes' /\ RequestTypes'
  <2>1. UNCHANGED <<nodes, buttons, server, lost>> /\ t \in Target
    BY <1>4 DEF Add, Target
  <2>2. CASE t \notin Incomplete
    <3>1. FormTypes' /\ CallTypes' /\ RequestTypes'
      BY <1>4, <2>1, <2>2, StartType DEF Add
    <3> QED
      BY <2>1, <3>1 DEF nodes, server, PageTypes
  <2>3. CASE t \in Incomplete
    <3> DEFINE e == [NewCall(t, 0) EXCEPT !.deferred = "rejected"]
    <3>1. calls' = Append(calls, e) /\ Len(calls) < MaxCalls /\ UNCHANGED <<forms, requests, sent>>
      BY <1>4, <2>3 DEF Add
    <3>2. e \in Calls
      BY <2>1, BoundsOfCalls DEF NewCall, Calls
    <3> HIDE DEF e
    <3>3. CallTypes'
      BY <3>1, <3>2, BoundsOfCalls, AppendProperties DEF CallTypes
    <3> QED
      BY <2>1, <3>1, <3>3, RequestFrame DEF nodes, server, forms, PageTypes, FormTypes
  <2> QED
    BY <2>2, <2>3
<1>5. CASE Remove
  <2>1. RequestTypes'
    <3>1. /\ Send("remove", buttons, 0, IF page[buttons] = "shown" THEN object[buttons] ELSE None, None)
          /\ buttons # None
      BY <1>5 DEF Remove
    <3>2. (IF page[buttons] = "shown" THEN object[buttons] ELSE None) \in Value \cup {None}
      BY <3>1, Buttons
    <3> QED
      BY <3>1, <3>2, Buttons, BoundsOfCalls, SendType
  <2> QED
    BY <1>5, <2>1 DEF Remove, nodes, forms, PageTypes, FormTypes, CallTypes
<1>6. CASE Escape
  BY <1>6, RequestFrame DEF Escape, nodes, server, PageTypes, FormTypes, CallTypes
<1>7. ASSUME NEW t \in Target, Rendered(t) PROVE PageTypes' /\ FormTypes' /\ CallTypes' /\ RequestTypes'
  BY <1>7, RequestFrame DEF Rendered, nodes, server, PageTypes, FormTypes, CallTypes
<1>8. ASSUME NEW t \in Target, Cancel(t) PROVE PageTypes' /\ FormTypes' /\ CallTypes' /\ RequestTypes'
  BY <1>8, RequestFrame DEF Cancel, nodes, server, PageTypes, FormTypes, CallTypes
<1>9. ASSUME NEW t \in Target, NEW v \in Value, Submit(t, v)
      PROVE  PageTypes' /\ FormTypes' /\ CallTypes' /\ RequestTypes'
  <2>1. editable[t].call \in 0 .. MaxCalls /\ editable[t].old \in Value \cup {None}
    BY DEF FormTypes, Editables
  <2>2. RequestTypes'
    BY <1>9, <2>1, SendType DEF Submit
  <2> QED
    BY <1>9, <2>2 DEF Submit, nodes, PageTypes, FormTypes, CallTypes
<1>10. ASSUME NEW r \in requests, ServeRequest(r) PROVE PageTypes' /\ FormTypes' /\ CallTypes' /\ RequestTypes'
  <2>1. UNCHANGED <<forms, calls>>
    BY <1>10 DEF ServeRequest, ServeSource, ServeSet, ServeRemove, Serve
  <2> QED
    BY <1>10, <2>1, ServeRequestType DEF FormTypes, CallTypes, forms
<1>11. ASSUME NEW r \in requests, Answer(r) PROVE PageTypes' /\ FormTypes' /\ CallTypes' /\ RequestTypes'
  BY <1>11, AnswerType
<1>12. ASSUME NEW r \in requests, LoseAnswer(r) PROVE PageTypes' /\ FormTypes' /\ CallTypes' /\ RequestTypes'
  <2>1. r.target \in Target
    BY RequestFields DEF RequestTypes
  <2> QED
    BY <1>12, <2>1, RequestFrame DEF LoseAnswer, nodes, forms, server, PageTypes, FormTypes, CallTypes
<1>13. CASE UNCHANGED vars
  BY <1>13, RequestFrame DEF vars, PageTypes, FormTypes, CallTypes
<1> QED
  BY <1>1, <1>2, <1>3, <1>4, <1>5, <1>6, <1>7, <1>8, <1>9, <1>10, <1>11, <1>12, <1>13 DEF Next

\* Every variable has its type in every state, however many nodes, controls
\* and requests there are.
THEOREM TypeCorrect == Spec => []TypeOK
<1>1. Spec => []TypeInv
  BY TypeInit, TypeStep, PTL DEF Spec
<1>2. TypeInv => TypeOK
  BY DEF TypeInv
<1> QED
  BY <1>1, <1>2, PTL

-----------------------------------------------------------------------------
(* The requests *)

\* The new request.
LEMMA Sent ==
  ASSUME TypeInv, NEW kind, NEW t, NEW c, NEW old, NEW new, Send(kind, t, c, old, new)
  PROVE  \E q : /\ requests' = requests \cup {q} /\ q \notin requests /\ sent' = sent + 1
                /\ q.kind = kind /\ q.target = t /\ q.call = c
                /\ q.old = old /\ q.new = new /\ q.result = "none"
<1> DEFINE q == [id |-> sent + 1, kind |-> kind, target |-> t, call |-> c,
                 old |-> old, new |-> new, result |-> "none"]
<1>1. requests' = requests \cup {q} /\ sent' = sent + 1
  BY DEF Send
<1>2. q \notin requests
  <2>1. \A r \in requests : r.id <= sent
    BY DEF TypeInv
  <2>2. sent \in Nat /\ q.id = sent + 1
    BY BoundsOfCalls DEF TypeInv, TypeOK
  <2> HIDE DEF q
  <2> QED
    BY <2>1, <2>2
<1>3. /\ q.kind = kind /\ q.target = t /\ q.call = c
      /\ q.old = old /\ q.new = new /\ q.result = "none"
  OBVIOUS
<1> QED
  BY <1>1, <1>2, <1>3

\* The request that the server answers.
LEMMA Served ==
  ASSUME TypeInv, NEW r \in requests, ServeRequest(r)
  PROVE  /\ UNCHANGED <<nodes, buttons, forms, calls, sent, lost>>
         /\ \E a : /\ requests' = (requests \ {r}) \cup {a} /\ a.kind = r.kind
                   /\ a.target = r.target /\ a.call = r.call /\ a.old = r.old /\ a.new = r.new
                   /\ a \notin requests
<1>1. r \in Requests /\ r.result = "none"
  BY DEF TypeInv, TypeOK, ServeRequest
<1>2. ASSUME NEW x \in {"items", "html", "empty", "msg", "true", "false"}, NEW values, NEW spoils,
             Serve(r, x, values, spoils)
      PROVE  /\ UNCHANGED <<nodes, buttons, forms, calls, sent, lost>>
             /\ \E a : /\ requests' = (requests \ {r}) \cup {a} /\ a.kind = r.kind
                       /\ a.target = r.target /\ a.call = r.call /\ a.old = r.old /\ a.new = r.new
                       /\ a \notin requests
  <2> DEFINE a == [r EXCEPT !.result = x]
  <2>1. /\ requests' = (requests \ {r}) \cup {a}
        /\ UNCHANGED <<nodes, buttons, forms, calls, sent, lost>>
    BY <1>2 DEF Serve
  <2>2. /\ a.result = x /\ a.id = r.id /\ a.kind = r.kind /\ a.target = r.target
        /\ a.call = r.call /\ a.old = r.old /\ a.new = r.new
    BY <1>1, AnswerFields
  <2> HIDE DEF a
  <2>3. a \notin requests
    BY <1>1, <2>2 DEF TypeInv, TypeOK
  <2> QED
    BY <2>1, <2>2, <2>3
<1>3. CASE ServeSource(r)
  BY <1>2, <1>3 DEF ServeSource
<1>4. CASE ServeSet(r)
  BY <1>2, <1>4 DEF ServeSet
<1>5. CASE ServeRemove(r)
  BY <1>2, <1>5 DEF ServeRemove
<1> QED
  BY <1>3, <1>4, <1>5 DEF ServeRequest

\* The kinds of the answers.
LEMMA KindOfAnswer ==
  ASSUME TypeInv, NEW r \in requests
  PROVE  /\ r.target \in Target /\ r.result \in {"msg", "empty", "html"} => r.kind = "set"
         /\ r.result = "items" => r.kind = "source"
         /\ r.kind = "remove" => r.target \in Node
PROOF BY DEF TypeInv, Fits

-----------------------------------------------------------------------------
(* Nodes for the answers *)

\* As many requests as were sent can bring a node each.
LEMMA NewNode ==
  ASSUME TypeInv, NodesLeft, requests # {}
  PROVE  LET new == CHOOSE n \in Node : page[n] = "unborn" /\ \A k \in Node : k < n => page[k] # "unborn"
         IN  /\ new \in Node /\ page[new] = "unborn"
             /\ \A k \in Node : page[k] # "unborn" <=> k < new
             /\ new + Cardinality(requests) <= Len(Page0) + sent + 1
<1>1. PICK b \in 0 .. (Len(Page0) + sent) :
        b + Cardinality(requests) <= Len(Page0) + sent /\ \A n \in Node : page[n] # "unborn" <=> n <= b
  BY DEF NodesLeft
<1>2. Cardinality(requests) \in Nat \ {0}
  BY FS_CardinalityType, FS_EmptySet DEF NodesLeft
<1>3. Len(Page0) \in Nat /\ sent \in 0 .. MaxRequests /\ MaxRequests \in Nat
  BY PageShowsValues, LenProperties, BoundsOfCalls DEF TypeInv, TypeOK
<1>4. b + 1 \in Node
  BY <1>1, <1>2, <1>3 DEF Node
<1>5. page[b + 1] = "unborn" /\ \A k \in Node : k < b + 1 => page[k] # "unborn"
  BY <1>1, <1>4 DEF Node
<1>6. \A n \in Node : page[n] = "unborn" /\ (\A k \in Node : k < n => page[k] # "unborn") => n = b + 1
  BY <1>1, <1>3, <1>4, <1>5 DEF Node
<1>7. (CHOOSE n \in Node : page[n] = "unborn" /\ \A k \in Node : k < n => page[k] # "unborn") = b + 1
  BY <1>4, <1>5, <1>6
<1>8. \A k \in Node : page[k] # "unborn" <=> k < b + 1
  BY <1>1 DEF Node
<1>9. (b + 1) + Cardinality(requests) <= Len(Page0) + sent + 1
  BY <1>1, <1>2, <1>3
<1> QED
  BY <1>4, <1>5, <1>7, <1>8, <1>9

\* How the requests and their number change in a step.
Sends == \E q : q \notin requests /\ requests' = requests \cup {q} /\ sent' = sent + 1
Keeps ==
  /\ sent' = sent
  /\ \/ requests' = requests
     \/ \E r \in requests : requests' = requests \ {r}
     \/ \E r \in requests : \E a : requests' = (requests \ {r}) \cup {a} /\ a \notin requests

\* The number of requests that are on their way.
LEMMA RequestCount ==
  ASSUME TypeInv, IsFiniteSet(requests), Sends \/ Keeps
  PROVE  /\ IsFiniteSet(requests')
         /\ Cardinality(requests') \in Nat /\ Cardinality(requests) \in Nat /\ sent \in Nat
         /\ Cardinality(requests') + sent <= Cardinality(requests) + sent'
         /\ \A r \in requests : requests' = requests \ {r} => Cardinality(requests') + 1 = Cardinality(requests)
<1>1. sent \in Nat
  BY BoundsOfCalls DEF TypeInv, TypeOK
<1>2. Cardinality(requests) \in Nat
  BY FS_CardinalityType
<1>3. ASSUME NEW r \in requests
      PROVE  /\ IsFiniteSet(requests \ {r}) /\ Cardinality(requests \ {r}) = Cardinality(requests) - 1
             /\ Cardinality(requests \ {r}) \in Nat
  BY FS_RemoveElement, FS_CardinalityType
<1>4. CASE Sends
  BY <1>1, <1>2, <1>3, <1>4, FS_AddElement DEF Sends
<1>5. CASE Keeps /\ requests' = requests
  BY <1>1, <1>2, <1>3, <1>5 DEF Keeps
<1>6. ASSUME NEW r \in requests, requests' = requests \ {r}, Keeps
      PROVE  /\ IsFiniteSet(requests') /\ Cardinality(requests') = Cardinality(requests) - 1
             /\ Cardinality(requests') \in Nat /\ sent' = sent
  BY <1>3, <1>6 DEF Keeps
<1>7. ASSUME NEW r \in requests, NEW a, requests' = (requests \ {r}) \cup {a}, a \notin requests, Keeps
      PROVE  /\ IsFiniteSet(requests') /\ Cardinality(requests') = Cardinality(requests)
             /\ sent' = sent /\ \A q \in requests : requests' # requests \ {q}
  <2>1. IsFiniteSet(requests') /\ Cardinality(requests') = Cardinality(requests \ {r}) + 1
    BY <1>3, <1>7, FS_AddElement
  <2>2. a \in requests' /\ sent' = sent
    BY <1>7 DEF Keeps
  <2> QED
    BY <1>2, <1>3, <1>7, <2>1, <2>2
<1>8. \A r \in requests : requests' = requests \ {r} => Cardinality(requests') + 1 = Cardinality(requests)
  BY <1>2, <1>3
<1> QED
  BY <1>1, <1>2, <1>4, <1>5, <1>6, <1>7, <1>8 DEF Keeps

\* No node is born.
LEMMA NodesKept ==
  ASSUME TypeInv, NodesLeft, Sends \/ Keeps, \A n \in Node : page'[n] = "unborn" <=> page[n] = "unborn"
  PROVE  NodesLeft'
<1>1. IsFiniteSet(requests)
  BY DEF NodesLeft
<1>2. PICK b \in 0 .. (Len(Page0) + sent) :
        b + Cardinality(requests) <= Len(Page0) + sent /\ \A n \in Node : page[n] # "unborn" <=> n <= b
  BY DEF NodesLeft
<1>3. Len(Page0) \in Nat
  BY PageShowsValues, LenProperties
<1>4. sent' \in Nat
  BY <1>1, RequestCount DEF Sends, Keeps
<1>5. b + Cardinality(requests') <= Len(Page0) + sent' /\ b \in 0 .. (Len(Page0) + sent')
  BY <1>1, <1>2, <1>3, <1>4, RequestCount
<1> QED
  BY <1>1, <1>2, <1>5, RequestCount DEF NodesLeft

\* The nodes of the page are the first ones.
LEMMA NodesInit == Init => NodesLeft
<1> SUFFICES ASSUME Init PROVE NodesLeft
  OBVIOUS
<1>1. Len(Page0) \in Nat /\ requests = {} /\ sent = 0
  BY PageShowsValues, LenProperties DEF Init
<1>2. IsFiniteSet(requests) /\ Cardinality(requests) = 0
  BY <1>1, FS_EmptySet
<1>3. \A n \in Node : page[n] # "unborn" <=> n <= Len(Page0)
  BY DEF Init
<1> QED
  BY <1>1, <1>2, <1>3 DEF NodesLeft

\* A call, a submitted value and a removal send one request at most.
LEMMA SendKeeps ==
  ASSUME TypeInv
  PROVE  /\ \A kind, t, c, old, new : Send(kind, t, c, old, new) => Sends
         /\ \A t, old : Start(t, old) => Sends \/ Keeps
<1>1. ASSUME NEW kind, NEW t, NEW c, NEW old, NEW new, Send(kind, t, c, old, new) PROVE Sends
  BY <1>1, Sent DEF Sends
<1>2. ASSUME NEW t, NEW old, Start(t, old) PROVE Sends \/ Keeps
  BY <1>1, <1>2 DEF Start, Keeps
<1> QED
  BY <1>1, <1>2

\* There is always a node for the next answer.
LEMMA NodesStep == TypeInv /\ BirthInv /\ NodesLeft /\ [Next]_vars => NodesLeft'
<1> SUFFICES ASSUME TypeInv, BirthInv, NodesLeft, [Next]_vars PROVE NodesLeft'
  OBVIOUS
<1>1. ASSUME NEW n \in Node, Hover(n) PROVE NodesLeft'
  BY <1>1, NodesKept DEF Hover, nodes, Keeps
<1>2. CASE Leave
  BY <1>2, NodesKept DEF Leave, nodes, Keeps
<1>3. CASE Edit
  BY <1>3, NodesKept, SendKeeps DEF Edit, nodes
<1>4. ASSUME NEW t \in AddControl, Add(t) PROVE NodesLeft'
  BY <1>4, NodesKept, SendKeeps DEF Add, nodes, Keeps
<1>5. CASE Remove
  BY <1>5, NodesKept, SendKeeps DEF Remove, nodes
<1>6. CASE Escape
  BY <1>6, NodesKept DEF Escape, nodes, Keeps
<1>7. ASSUME NEW t \in Target, Rendered(t) PROVE NodesLeft'
  BY <1>7, NodesKept DEF Rendered, nodes, Keeps
<1>8. ASSUME NEW t \in Target, Cancel(t) PROVE NodesLeft'
  BY <1>8, NodesKept DEF Cancel, nodes, Keeps
<1>9. ASSUME NEW t \in Target, NEW v \in Value, Submit(t, v) PROVE NodesLeft'
  BY <1>9, NodesKept, SendKeeps DEF Submit, nodes
<1>10. ASSUME NEW r \in requests, ServeRequest(r) PROVE NodesLeft'
  BY <1>10, NodesKept, Served DEF nodes, Keeps
<1>11. ASSUME NEW r \in requests, Answer(r) PROVE NodesLeft'
  <2>1. requests' = requests \ {r} /\ sent' = sent /\ Keeps
    BY <1>11 DEF Answer, Keeps
  <2>2. CASE AnswerSource(r) \/ AnswerRefused(r) \/ AnswerEmpty(r)
    BY <2>1, <2>2, NodesKept DEF AnswerSource, AnswerRefused, AnswerEmpty, nodes
  <2>3. CASE AnswerRemove(r)
    BY <2>1, <2>3, NodesKept DEF AnswerRemove, TypeInv, TypeOK
  <2>4. CASE AnswerHtml(r) /\ form[r.target] # "saving"
    BY <2>1, <2>4, NodesKept DEF AnswerHtml, nodes
  <2>5. CASE AnswerHtml(r) /\ form[r.target] = "saving"
    <3> DEFINE new == CHOOSE n \in Node : page[n] = "unborn" /\ \A k \in Node : k < n => page[k] # "unborn"
    <3>1. \/ page' = [page EXCEPT ![new] = "shown", ![r.target] = "removed"] /\ r.target \in Node /\ Born(r.target)
          \/ page' = [page EXCEPT ![new] = "shown"]
      BY <2>5 DEF AnswerHtml, BirthInv
    <3>2. /\ new \in Node /\ \A k \in Node : page[k] # "unborn" <=> k < new
          /\ new + Cardinality(requests) <= Len(Page0) + sent + 1
      BY NewNode
    <3> HIDE DEF new
    <3>3. \A k \in Node : page'[k] # "unborn" <=> k <= new
      <4>1. \A k \in Node : page'[k] # "unborn" <=> (k = new \/ page[k] # "unborn")
        BY <3>1, <3>2 DEF Born, TypeInv, TypeOK
      <4>2. \A k \in Node : k \in Nat
        BY DEF Node
      <4> QED
        BY <3>2, <4>1, <4>2
    <3>4. /\ Cardinality(requests') + 1 = Cardinality(requests) /\ IsFiniteSet(requests')
          /\ Cardinality(requests') \in Nat /\ Cardinality(requests) \in Nat
      BY <2>1, RequestCount DEF NodesLeft
    <3>5. Len(Page0) \in Nat /\ sent \in Nat /\ new \in Nat
      BY <3>2, PageShowsValues, LenProperties, BoundsOfCalls DEF TypeInv, TypeOK, Node
    <3>6. new + Cardinality(requests') <= Len(Page0) + sent' /\ new \in 0 .. (Len(Page0) + sent')
      BY <2>1, <3>2, <3>4, <3>5
    <3> QED
      BY <3>3, <3>4, <3>6 DEF NodesLeft
  <2> QED
    BY <1>11, <2>2, <2>3, <2>4, <2>5 DEF Answer
<1>12. ASSUME NEW r \in requests, LoseAnswer(r) PROVE NodesLeft'
  BY <1>12, NodesKept DEF LoseAnswer, nodes, Keeps
<1>13. CASE UNCHANGED vars
  BY <1>13, NodesKept DEF vars, Keeps
<1> QED
  BY <1>1, <1>2, <1>3, <1>4, <1>5, <1>6, <1>7, <1>8, <1>9, <1>10, <1>11, <1>12, <1>13 DEF Next

-----------------------------------------------------------------------------
(* What a form waits for *)

\* The changes that are asked for are the same as before.
SameSets == \A r : (r \in requests' /\ r.kind = "set") <=> (r \in requests /\ r.kind = "set")

\* Nothing changes for the forms that save.
LEMMA FormKept ==
  ASSUME TypeInv, FormInv, page' = page, lost \subseteq lost', SameSets,
         \A t \in Target : \/ form'[t] = form[t]
                           \/ /\ form[t] # "saving" /\ form'[t] # "saving"
                              /\ t \in Node /\ page[t] # "shown" => form'[t] = "closed"
  PROVE  FormInv'
<1> USE DEF FormInv
<1>1. \A n \in Node : page'[n] # "shown" => form'[n] = "closed"
  BY DEF Target
<1>2. \A t \in Target \ lost' : form'[t] = "saving" => \E r \in requests' : r.kind = "set" /\ r.target = t
  BY DEF SameSets
<1>3. \A r, q \in requests' : r.kind = "set" /\ q.kind = "set" /\ r.target = q.target => r = q
  BY DEF SameSets
<1>4. ASSUME NEW r \in requests', r.kind = "set"
      PROVE  form'[r.target] = "saving" \/ (r.target \in Node /\ page'[r.target] = "removed")
  <2>1. r \in requests
    BY <1>4 DEF SameSets
  <2>2. r.target \in Target
    BY <2>1, RequestFields DEF TypeInv, TypeOK
  <2> QED
    BY <1>4, <2>1, <2>2 DEF Target
<1> QED
  BY <1>1, <1>2, <1>3, <1>4

\* The answer to a change has come: its form does not save any more.
LEMMA FormAnswered ==
  ASSUME TypeInv, FormInv, NEW r \in requests, r.kind = "set", requests' = requests \ {r}, lost' = lost,
         form'[r.target] # "saving", \A t \in Target \ {r.target} : form'[t] = form[t],
         r.target \in Node /\ page'[r.target] # "shown" => form'[r.target] = "closed",
         \A n \in Node : page'[n] = page[n] \/ (page[n] = "unborn" /\ page'[n] = "shown") \/ n = r.target
  PROVE  FormInv'
<1> USE DEF FormInv
<1>1. r.target \in Target
  BY RequestFields DEF TypeInv, TypeOK
<1>2. \A n \in Node : page'[n] # "shown" => form'[n] = "closed"
  BY DEF Target
<1>3. \A t \in Target \ lost' : form'[t] = "saving" => \E q \in requests' : q.kind = "set" /\ q.target = t
  OBVIOUS
<1>4. ASSUME NEW q \in requests', q.kind = "set"
      PROVE  form'[q.target] = "saving" \/ (q.target \in Node /\ page'[q.target] = "removed")
  <2>1. q \in requests /\ q.target \in Target /\ q.target # r.target
    BY <1>4, RequestFields DEF TypeInv, TypeOK
  <2> QED
    BY <1>4, <2>1
<1> QED
  BY <1>2, <1>3, <1>4

\* Opening a form keeps it too.
LEMMA FormOpened ==
  ASSUME TypeInv, FormInv, NEW t \in Target, NEW c, NEW old, Open(t, c, old), page' = page, lost' = lost, SameSets
  PROVE  FormInv'
<1>1. \A u \in Target : form'[u] = form[u] \/ (u = t /\ OnPage(t) /\ form[t] = "closed" /\ form'[u] = "rendering")
  BY DEF Open, TypeInv, TypeOK
<1>2. t \in Node /\ OnPage(t) => page[t] = "shown"
  BY SetsOfTargets DEF OnPage
<1> QED
  BY <1>1, <1>2, FormKept

\* A call may open a form, but asks for no change.
LEMMA FormStarted ==
  ASSUME TypeInv, FormInv, NEW t \in Target, NEW old, Start(t, old), page' = page, lost' = lost
  PROVE  FormInv'
<1> DEFINE c == Len(calls) + 1
<1>1. CASE t \in Select
  <2>1. Send("source", t, c, old, None) /\ UNCHANGED forms
    BY <1>1 DEF Start
  <2>2. SameSets
    BY <2>1, Sent DEF SameSets
  <2> QED
    BY <2>1, <2>2, FormKept DEF forms
<1>2. CASE t \notin Select
  <2>1. Open(t, c, old) /\ requests' = requests
    BY <1>2 DEF Start
  <2> QED
    BY <2>1, FormOpened DEF SameSets
<1> QED
  BY <1>1, <1>2

\* No form saves when the page is loaded.
LEMMA FormInit == Init => FormInv
PROOF BY DEF Init, FormInv, Target

\* The answers keep what the forms wait for.
LEMMA FormAnswer ==
  ASSUME TypeInv, NodesLeft, FormInv, NEW r \in requests, Answer(r)
  PROVE  FormInv'
<1>1. requests' = requests \ {r} /\ r.target \in Target
  BY RequestFields DEF Answer, TypeInv, TypeOK
<1>2. CASE AnswerSource(r)
  <2>1. r.kind = "source"
    BY <1>2, KindOfAnswer DEF AnswerSource
  <2> QED
    BY <1>1, <1>2, <2>1, FormOpened DEF AnswerSource, SameSets, nodes
<1>3. CASE AnswerRemove(r) /\ (r.result # "true" \/ page[r.target] # "shown")
  BY <1>1, <1>3, FormKept DEF AnswerRemove, SameSets, forms
<1>4. CASE AnswerRemove(r) /\ r.result = "true" /\ page[r.target] = "shown"
  <2>1. /\ r.kind = "remove" /\ r.target \in Node /\ lost' = lost
        /\ page' = [page EXCEPT ![r.target] = "removed"] /\ form' = [form EXCEPT ![r.target] = "closed"]
    BY <1>4, KindOfAnswer DEF AnswerRemove, Detach
  <2>2. \A n \in Node : page'[n] = IF n = r.target THEN "removed" ELSE page[n]
    BY <2>1 DEF TypeInv, TypeOK
  <2>3. \A t \in Target : form'[t] = IF t = r.target THEN "closed" ELSE form[t]
    BY <2>1 DEF TypeInv, TypeOK
  <2>4. \A q \in requests : q.target \in Target
    BY RequestFields DEF TypeInv, TypeOK
  <2> QED
    BY <1>1, <2>1, <2>2, <2>3, <2>4 DEF FormInv, Target
<1>5. CASE AnswerRefused(r)
  <2>1. r.kind = "set" /\ page' = page /\ lost' = lost
    BY <1>1, <1>5, KindOfAnswer DEF AnswerRefused, nodes
  <2>2. \A t \in Target : form'[t] = IF t = r.target /\ form[t] = "saving"
                                     THEN (IF delayedHide[t] THEN "closed" ELSE "open") ELSE form[t]
    BY <1>5 DEF AnswerRefused, TypeInv, TypeOK
  <2>3. r.target \in Node /\ page[r.target] # "shown" => form[r.target] = "closed"
    BY DEF FormInv
  <2> QED
    BY <1>1, <2>1, <2>2, <2>3, FormAnswered
<1>6. CASE AnswerEmpty(r)
  <2>1. r.kind = "set" /\ page' = page /\ lost' = lost /\ form' = [form EXCEPT ![r.target] = "closed"]
    BY <1>1, <1>6, KindOfAnswer DEF AnswerEmpty, nodes
  <2>2. \A t \in Target : form'[t] = IF t = r.target THEN "closed" ELSE form[t]
    BY <2>1 DEF TypeInv, TypeOK
  <2> QED
    BY <1>1, <2>1, <2>2, FormAnswered
<1>7. CASE AnswerHtml(r) /\ form[r.target] = "saving"
  <2> DEFINE new == CHOOSE n \in Node : page[n] = "unborn" /\ \A k \in Node : k < n => page[k] # "unborn"
  <2>1. r.kind = "set" /\ lost' = lost
    BY <1>1, <1>7, KindOfAnswer DEF AnswerHtml
  <2>2. /\ form' = [form EXCEPT ![r.target] = "closed"]
        /\ \/ page' = [page EXCEPT ![new] = "shown", ![r.target] = "removed"] /\ r.target \in Node
           \/ page' = [page EXCEPT ![new] = "shown"]
    BY <1>7 DEF AnswerHtml, Detach
  <2>3. \A t \in Target : form'[t] = IF t = r.target THEN "closed" ELSE form[t]
    BY <2>2 DEF TypeInv, TypeOK
  <2>4. \A n \in Node : page'[n] = page[n] \/ (page[n] = "unborn" /\ page'[n] = "shown") \/ n = r.target
    BY <2>2, NewNode DEF TypeInv, TypeOK
  <2> QED
    BY <1>1, <2>1, <2>3, <2>4, FormAnswered
<1>8. CASE AnswerHtml(r) /\ form[r.target] # "saving"
  <2>1. r.kind = "set" /\ lost' = lost /\ UNCHANGED <<nodes, forms>>
    BY <1>1, <1>8, KindOfAnswer DEF AnswerHtml
  <2>2. r.target \in Node /\ page[r.target] # "shown" => form[r.target] = "closed"
    BY DEF FormInv
  <2> QED
    BY <1>1, <1>8, <2>1, <2>2, FormAnswered DEF nodes, forms
<1> QED
  BY <1>2, <1>3, <1>4, <1>5, <1>6, <1>7, <1>8 DEF Answer

\* Every step keeps what the forms wait for.
LEMMA FormStep == TypeInv /\ NodesLeft /\ FormInv /\ [Next]_vars => FormInv'
<1> SUFFICES ASSUME TypeInv, NodesLeft, FormInv, [Next]_vars PROVE FormInv'
  OBVIOUS
<1>1. ASSUME NEW n \in Node, Hover(n) PROVE FormInv'
  BY <1>1, FormKept DEF Hover, nodes, forms, SameSets
<1>2. CASE Leave
  BY <1>2, FormKept DEF Leave, nodes, forms, SameSets
<1>3. CASE Edit
  <2>1. buttons \in Target
    BY <1>3, TypeParts, Buttons DEF Edit
  <2> QED
    BY <1>3, <2>1, FormStarted DEF Edit, nodes
<1>4. ASSUME NEW t \in AddControl, Add(t) PROVE FormInv'
  <2>1. CASE Start(t, None)
    BY <1>4, <2>1, FormStarted DEF Add, nodes, Target
  <2>2. CASE ~Start(t, None)
    BY <1>4, <2>2, FormKept DEF Add, nodes, forms, SameSets
  <2> QED
    BY <2>1, <2>2
<1>5. CASE Remove
  <2>1. /\ Send("remove", buttons, 0, IF page[buttons] = "shown" THEN object[buttons] ELSE None, None)
        /\ UNCHANGED <<nodes, forms, lost>>
    BY <1>5 DEF Remove
  <2>2. SameSets
    BY <2>1, Sent DEF SameSets
  <2> QED
    BY <2>1, <2>2, FormKept DEF nodes, forms
<1>6. CASE Escape
  <2>1. \A t \in Target : form'[t] = IF form[t] = "saving" THEN "saving" ELSE "closed"
    BY <1>6 DEF Escape
  <2> QED
    BY <1>6, <2>1, FormKept DEF Escape, nodes, SameSets
<1>7. ASSUME NEW t \in Target, Rendered(t) PROVE FormInv'
  <2>1. \A u \in Target : form'[u] = IF u = t THEN "open" ELSE form[u]
    BY <1>7 DEF Rendered, TypeInv, TypeOK
  <2>2. t \in Node => page[t] = "shown"
    BY <1>7 DEF Rendered, FormInv
  <2> QED
    BY <1>7, <2>1, <2>2, FormKept DEF Rendered, nodes, SameSets
<1>8. ASSUME NEW t \in Target, Cancel(t) PROVE FormInv'
  <2>1. \A u \in Target : form'[u] = IF u = t THEN "closed" ELSE form[u]
    BY <1>8 DEF Cancel, TypeInv, TypeOK
  <2> QED
    BY <1>8, <2>1, FormKept DEF Cancel, nodes, SameSets
<1>9. ASSUME NEW t \in Target, NEW v \in Value, Submit(t, v) PROVE FormInv'
  <2>1. /\ form[t] = "open" /\ UNCHANGED <<page, lost>>
        /\ \A u \in Target : form'[u] = IF u = t THEN "saving" ELSE form[u]
    BY <1>9 DEF Submit, MaySubmit, nodes, TypeInv, TypeOK
  <2>2. PICK q : requests' = requests \cup {q} /\ q.kind = "set" /\ q.target = t
    BY <1>9, Sent DEF Submit
  <2>3. t \in Node => page[t] = "shown"
    BY <2>1 DEF FormInv
  <2>4. \A r \in requests : r.kind = "set" => r.target # t
    BY <2>1, <2>3 DEF FormInv
  <2>5. \A r \in requests : r.target \in Target
    BY RequestFields DEF TypeInv, TypeOK
  <2> QED
    BY <2>1, <2>2, <2>3, <2>4, <2>5 DEF FormInv, Target
<1>10. ASSUME NEW r \in requests, ServeRequest(r) PROVE FormInv'
  <2>1. PICK a : requests' = (requests \ {r}) \cup {a} /\ a.kind = r.kind /\ a.target = r.target
    BY <1>10, Served
  <2>2. UNCHANGED <<page, form, lost>>
    BY <1>10, Served DEF nodes, forms
  <2> QED
    BY <2>1, <2>2 DEF FormInv
<1>11. ASSUME NEW r \in requests, Answer(r) PROVE FormInv'
  BY <1>11, FormAnswer
<1>12. ASSUME NEW r \in requests, LoseAnswer(r) PROVE FormInv'
  BY <1>12 DEF LoseAnswer, nodes, forms, FormInv
<1>13. CASE UNCHANGED vars
  BY <1>13, FormKept DEF vars, SameSets
<1> QED
  BY <1>1, <1>2, <1>3, <1>4, <1>5, <1>6, <1>7, <1>8, <1>9, <1>10, <1>11, <1>12, <1>13 DEF Next

-----------------------------------------------------------------------------
(* The calls *)

\* The calls after the promise of one is settled, and after its form is closed.
Settling(cs, i, d) == [cs EXCEPT ![i].deferred = Settle(@, d)]
Closing(cs, i, o) == [cs EXCEPT ![i].outcome = o]

\* What the calls keep when a promise is settled.
LEMMA SettledFields ==
  ASSUME NEW cs \in Seq(Calls), NEW i, NEW d \in {"resolved", "rejected"},
         NEW ds, ds = Settling(cs, i, d)
  PROVE  /\ DOMAIN ds = DOMAIN cs
         /\ \A c \in DOMAIN cs :
              /\ ds[c].target = cs[c].target /\ ds[c].via = cs[c].via /\ ds[c].outcome = cs[c].outcome
              /\ c = i \/ cs[c].deferred # "pending" => ds[c].deferred # "pending"
<1>1. ASSUME NEW e \in Calls
      PROVE  LET f == [e EXCEPT !.deferred = Settle(@, d)] IN
             /\ f.target = e.target /\ f.via = e.via /\ f.outcome = e.outcome /\ f.deferred # "pending"
  BY DEF Calls, Settle
<1>2. \A c \in DOMAIN cs : cs[c] \in Calls
  BY ElementOfSeq, LenProperties
<1>3. DOMAIN ds = DOMAIN cs /\ \A c \in DOMAIN cs : ds[c] = IF c = i THEN [cs[c] EXCEPT !.deferred = Settle(@, d)] ELSE cs[c]
  BY DEF Settling
<1> QED
  BY <1>1, <1>2, <1>3

\* When a form is closed.
LEMMA OutcomeFields ==
  ASSUME NEW cs \in Seq(Calls), NEW i, NEW o, NEW ds, ds = Closing(cs, i, o)
  PROVE  /\ DOMAIN ds = DOMAIN cs
         /\ \A c \in DOMAIN cs :
              /\ ds[c].target = cs[c].target /\ ds[c].via = cs[c].via /\ ds[c].deferred = cs[c].deferred
              /\ ds[c].outcome = IF c = i THEN o ELSE cs[c].outcome
<1>1. ASSUME NEW e \in Calls
      PROVE  LET f == [e EXCEPT !.outcome = o] IN
             /\ f.target = e.target /\ f.via = e.via /\ f.outcome = o /\ f.deferred = e.deferred
  BY DEF Calls
<1>2. \A c \in DOMAIN cs : cs[c] \in Calls
  BY ElementOfSeq, LenProperties
<1>3. DOMAIN ds = DOMAIN cs /\ \A c \in DOMAIN cs : ds[c] = IF c = i THEN [cs[c] EXCEPT !.outcome = o] ELSE cs[c]
  BY DEF Closing
<1>4. ASSUME NEW c \in DOMAIN cs
      PROVE  /\ ds[c].target = cs[c].target /\ ds[c].via = cs[c].via /\ ds[c].deferred = cs[c].deferred
             /\ ds[c].outcome = IF c = i THEN o ELSE cs[c].outcome
  <2>1. CASE c = i
    <3>1. ds[c] = [cs[c] EXCEPT !.outcome = o] /\ cs[c] \in Calls
      BY <1>2, <1>3, <2>1
    <3> QED
      BY <1>1, <2>1, <3>1
  <2>2. CASE c # i
    BY <1>3, <2>2
  <2> QED
    BY <2>1, <2>2
<1> QED
  BY <1>3, <1>4

\* When a form is opened.
LEMMA ViaFields ==
  ASSUME NEW cs \in Seq(Calls), NEW i, NEW v, NEW ds, ds = [cs EXCEPT ![i].via = v]
  PROVE  /\ DOMAIN ds = DOMAIN cs
         /\ \A c \in DOMAIN cs :
              /\ ds[c].target = cs[c].target /\ ds[c].outcome = cs[c].outcome /\ ds[c].deferred = cs[c].deferred
              /\ ds[c].via = IF c = i THEN v ELSE cs[c].via
<1>1. ASSUME NEW e \in Calls
      PROVE  LET f == [e EXCEPT !.via = v] IN
             /\ f.target = e.target /\ f.via = v /\ f.outcome = e.outcome /\ f.deferred = e.deferred
  BY DEF Calls
<1>2. \A c \in DOMAIN cs : cs[c] \in Calls
  BY ElementOfSeq, LenProperties
<1>3. DOMAIN ds = DOMAIN cs /\ \A c \in DOMAIN cs : ds[c] = IF c = i THEN [cs[c] EXCEPT !.via = v] ELSE cs[c]
  OBVIOUS
<1> QED
  BY <1>1, <1>2, <1>3

\* No form opens, no form saves that did not, and no request comes but removals.
LEMMA CallKept ==
  ASSUME TypeInv, CallInv, FinishedSettles, UNCHANGED <<editable, opener, calls>>,
         \A t \in Target : form'[t] # "closed" => form[t] # "closed" /\ (form'[t] = "saving" => form[t] = "saving"),
         \A r \in requests' : r \in requests \/ r.kind = "remove"
  PROVE  CallInv' /\ FinishedSettles'
<1>1. \A r \in requests : r.target \in Target
  BY RequestFields DEF TypeInv, TypeOK
<1>2. FinishedSettles'
  BY DEF FinishedSettles
<1>3. CallInv'
  BY <1>1 DEF CallInv
<1> QED
  BY <1>2, <1>3

\* Forms are closed or opened again, and requests answered.
LEMMA CallsClosed ==
  ASSUME TypeInv, CallInv, opener' = opener, \A r \in requests' : r \in requests \/ r.kind = "remove",
         \A t \in Target : form'[t] # "closed" =>
           form[t] # "closed" /\ editable'[t] = editable[t] /\ (form'[t] = "saving" => form[t] = "saving"),
         \A t \in Target : editable'[t] \in {editable[t], NoEditable},
         DOMAIN calls' = DOMAIN calls,
         \A c \in DOMAIN calls :
           /\ calls'[c].target = calls[c].target /\ calls'[c].via = calls[c].via
           /\ calls'[c].outcome = calls[c].outcome \/ calls[c].via # 0
  PROVE  CallInv'
<1> USE DEF CallInv
<1>1. \A r \in requests : r.target \in Target
  BY RequestFields DEF TypeInv, TypeOK
<1>2. \A t \in Target : editable'[t] # NoEditable => editable'[t].call # 0
  OBVIOUS
<1>3. \A t \in Target : form'[t] # "closed" =>
        /\ editable'[t] # NoEditable /\ opener'[t] \in DOMAIN calls'
        /\ calls'[opener'[t]].target = t /\ calls'[opener'[t]].via = editable'[t].call
  OBVIOUS
<1>4. \A c \in DOMAIN calls' : calls'[c].outcome # "none" => calls'[c].via # 0
  OBVIOUS
<1>5. \A r \in requests' : r.kind = "source" =>
        r.call \in DOMAIN calls' /\ calls'[r.call].via = 0 /\ calls'[r.call].target = r.target
  OBVIOUS
<1>6. \A r \in requests' : r.kind = "set" /\ form'[r.target] = "saving" => r.call = editable'[r.target].call
  BY <1>1
<1> QED
  BY <1>2, <1>3, <1>4, <1>5, <1>6

\* A form opens for a call whose choices are there.
LEMMA CallOpened ==
  ASSUME TypeInv, CallInv, FinishedSettles, NEW t \in Target, NEW c \in Nat \ {0}, NEW old, Open(t, c, old),
         requests' \subseteq requests, \A r \in requests' : r.kind = "source" => r.call # c,
         c \in DOMAIN calls => calls[c].via = 0,
         DOMAIN calls' = DOMAIN calls \cup {c},
         calls'[c].target = t, calls'[c].via = Attached(t, c, old).call, calls'[c].outcome = "none",
         \A d \in DOMAIN calls \ {c} :
           /\ calls'[d].target = calls[d].target /\ calls'[d].via = calls[d].via
           /\ calls'[d].outcome = calls[d].outcome /\ calls'[d].deferred = calls[d].deferred
  PROVE  CallInv' /\ FinishedSettles'
<1> DEFINE att == Attached(t, c, old)
<1>1. \A r \in requests : r.target \in Target
  BY RequestFields DEF TypeInv, TypeOK
<1>2. \A u \in Target : editable'[u] = IF u = t THEN att ELSE editable[u]
  BY DEF Open, TypeInv, TypeOK
<1>3. att # NoEditable => att.call # 0
  BY DEF CallInv, Attached
<1>4. /\ editable[t] # NoEditable => att = editable[t]
      /\ att # NoEditable /\ att.call # 0
  BY <1>3 DEF Attached, NoEditable
<1>5. att.call = calls'[c].via
  OBVIOUS
<1> HIDE DEF att
<1>6. \A u \in Target : \/ form'[u] = form[u] /\ opener'[u] = opener[u]
                        \/ u = t /\ form[u] = "closed" /\ form'[u] = "rendering" /\ opener'[u] = c
  BY DEF Open, TypeInv, TypeOK
<1>7. ASSUME NEW u \in Target, form'[u] # "closed"
      PROVE  /\ editable'[u] # NoEditable /\ opener'[u] \in DOMAIN calls'
             /\ calls'[opener'[u]].target = u /\ calls'[opener'[u]].via = editable'[u].call
  <2>1. CASE form'[u] = form[u] /\ opener'[u] = opener[u]
    <3>1. /\ editable[u] # NoEditable /\ opener[u] \in DOMAIN calls /\ editable[u].call # 0
          /\ calls[opener[u]].target = u /\ calls[opener[u]].via = editable[u].call
      BY <1>7, <2>1 DEF CallInv
    <3>2. opener[u] # c
      BY <3>1
    <3>3. editable'[u] = editable[u]
      BY <1>2, <1>4, <3>1
    <3> QED
      BY <2>1, <3>1, <3>2, <3>3
  <2>2. CASE u = t /\ opener'[u] = c
    BY <1>2, <1>4, <1>5, <2>2
  <2> QED
    BY <1>6, <2>1, <2>2
<1>8. \A u \in Target : editable'[u] # NoEditable => editable'[u].call # 0
  BY <1>2, <1>3 DEF CallInv
<1>9. \A d \in DOMAIN calls' : calls'[d].outcome # "none" => calls'[d].via # 0
  BY DEF CallInv
<1>10. \A r \in requests' : r.kind = "source" =>
         r.call \in DOMAIN calls' /\ calls'[r.call].via = 0 /\ calls'[r.call].target = r.target
  BY DEF CallInv
<1>11. ASSUME NEW r \in requests', r.kind = "set", form'[r.target] = "saving"
       PROVE  r.call = editable'[r.target].call
  <2>1. r.target \in Target /\ r \in requests /\ form[r.target] = "saving"
    BY <1>1, <1>6, <1>11
  <2>2. editable[r.target] # NoEditable
    BY <2>1 DEF CallInv
  <2> QED
    BY <1>2, <1>4, <1>11, <2>1, <2>2 DEF CallInv
<1>12. CallInv'
  BY <1>7, <1>8, <1>9, <1>10, <1>11 DEF CallInv
<1>13. FinishedSettles'
  BY DEF FinishedSettles
<1> QED
  BY <1>12, <1>13

\* A call that opens no form yet, or never.
LEMMA CallAppended ==
  ASSUME TypeInv, CallInv, FinishedSettles, UNCHANGED forms, NEW e \in Calls, e.outcome = "none",
         calls' = Append(calls, e),
         \/ requests' = requests
         \/ \E q : /\ requests' = requests \cup {q} /\ q.kind = "source" /\ q.call = Len(calls) + 1
                   /\ e.via = 0 /\ e.target = q.target
  PROVE  CallInv' /\ FinishedSettles'
<1>1. /\ calls \in Seq(Calls) /\ Len(calls) \in Nat /\ DOMAIN calls = 1 .. Len(calls)
      /\ \A r \in requests : r.target \in Target
  BY LenProperties, RequestFields DEF TypeInv, TypeOK
<1>2. /\ DOMAIN calls' = 1 .. (Len(calls) + 1) /\ calls'[Len(calls) + 1] = e
      /\ \A c \in DOMAIN calls : calls'[c] = calls[c]
  BY <1>1, AppendProperties
<1>3. Len(calls) + 1 \notin DOMAIN calls
  BY <1>1
<1>4. CallInv'
  <2>1. \A r \in requests' : r.kind = "source" =>
          r.call \in DOMAIN calls' /\ calls'[r.call].via = 0 /\ calls'[r.call].target = r.target
    BY <1>1, <1>2 DEF CallInv
  <2>2. \A r, q \in requests' : r.kind = "source" /\ q.kind = "source" /\ r.call = q.call => r = q
    BY <1>1, <1>3 DEF CallInv
  <2>3. \A c \in DOMAIN calls' : calls'[c].outcome # "none" => calls'[c].via # 0
    BY <1>1, <1>2 DEF CallInv
  <2>4. \A t \in Target : form'[t] # "closed" =>
          /\ editable'[t] # NoEditable /\ opener'[t] \in DOMAIN calls'
          /\ calls'[opener'[t]].target = t /\ calls'[opener'[t]].via = editable'[t].call
    BY <1>1, <1>2 DEF CallInv, forms
  <2>5. \A r \in requests' : r.kind = "set" /\ form'[r.target] = "saving" => r.call = editable'[r.target].call
    BY DEF CallInv, forms
  <2> QED
    BY <2>1, <2>2, <2>3, <2>4, <2>5 DEF CallInv, forms
<1>5. FinishedSettles'
  BY <1>1, <1>2 DEF FinishedSettles
<1> QED
  BY <1>4, <1>5

\* A click on edit or add.
LEMMA CallStarted ==
  ASSUME TypeInv, CallInv, FinishedSettles, NEW t \in Target, NEW old \in Value \cup {None}, Start(t, old)
  PROVE  CallInv' /\ FinishedSettles'
<1> DEFINE c == Len(calls) + 1
<1>1. /\ calls \in Seq(Calls) /\ Len(calls) \in Nat /\ DOMAIN calls = 1 .. Len(calls)
      /\ c \in Nat \ {0} /\ c \in 0 .. MaxCalls
  BY LenProperties, BoundsOfCalls DEF TypeInv, TypeOK, Start
<1>2. \A via \in 0 .. MaxCalls :
        LET e == NewCall(t, via) IN e \in Calls /\ e.outcome = "none" /\ e.via = via /\ e.target = t
  BY DEF NewCall, Calls
<1>3. CASE t \in Select
  <2>1. Send("source", t, c, old, None) /\ calls' = Append(calls, NewCall(t, 0)) /\ UNCHANGED forms
    BY <1>3 DEF Start
  <2>2. \E q : requests' = requests \cup {q} /\ q.kind = "source" /\ q.call = c /\ q.target = t
    BY <2>1, Sent
  <2> QED
    BY <1>2, <2>1, <2>2, BoundsOfCalls, CallAppended
<1>4. CASE t \notin Select
  <2> DEFINE via == Attached(t, c, old).call
  <2>1. Open(t, c, old) /\ requests' = requests /\ calls' = Append(calls, NewCall(t, via))
    BY <1>4 DEF Start
  <2>2. via \in 0 .. MaxCalls
    BY <1>1, OpenType, TypeParts
  <2>3. /\ DOMAIN calls' = DOMAIN calls \cup {c} /\ calls'[c] = NewCall(t, via)
        /\ \A d \in DOMAIN calls : calls'[d] = calls[d]
    BY <1>1, <1>2, <2>1, <2>2, AppendProperties
  <2>4. c \notin DOMAIN calls /\ \A r \in requests' : r.kind = "source" => r.call # c
    BY <1>1, <2>1 DEF CallInv
  <2>5. calls'[c].target = t /\ calls'[c].via = via /\ calls'[c].outcome = "none"
    BY <1>2, <2>2, <2>3
  <2> HIDE DEF c
  <2> QED
    BY <1>1, <2>1, <2>3, <2>4, <2>5, CallOpened
<1> QED
  BY <1>3, <1>4

\* A request changes its answer, which no call looks at.
LEMMA CallServed ==
  ASSUME TypeInv, CallInv, FinishedSettles, NEW r \in requests, ServeRequest(r)
  PROVE  CallInv' /\ FinishedSettles'
<1>1. PICK a : requests' = (requests \ {r}) \cup {a} /\ a.kind = r.kind /\ a.target = r.target /\ a.call = r.call
  BY Served
<1>2. UNCHANGED <<editable, form, opener, calls>>
  BY Served DEF forms
<1> QED
  BY <1>1, <1>2 DEF CallInv, FinishedSettles

\* The options of a form that saves are those of the call that is resolved.
LEMMA Opener ==
  ASSUME TypeInv, CallInv, NEW r \in requests, r.kind = "set", form[r.target] = "saving"
  PROVE  /\ opener[r.target] \in DOMAIN calls /\ calls[opener[r.target]].target = r.target
         /\ calls[opener[r.target]].via = r.call /\ r.call # 0
<1>1. r.target \in Target
  BY RequestFields DEF TypeInv, TypeOK
<1> QED
  BY <1>1 DEF CallInv

\* What the end of a form leaves of the calls.
LEMMA Finished ==
  ASSUME TypeInv, CallInv, FinishedSettles, NEW r \in requests, r.kind = "set", NEW o \in {"html", "empty"},
         \/ calls' = Resolved(Finish(r, o), r)
         \/ calls' = Finish(r, o) /\ o = "empty" /\ r.target \notin Node
  PROVE  /\ FinishedSettles' /\ DOMAIN calls' = DOMAIN calls
         /\ \A c \in DOMAIN calls :
              /\ calls'[c].target = calls[c].target /\ calls'[c].via = calls[c].via
              /\ calls'[c].outcome = calls[c].outcome \/ calls[c].via # 0
<1> DEFINE fs == Finish(r, o)
<1>1. calls \in Seq(Calls)
  BY DEF TypeInv, TypeOK
<1>2. /\ fs \in Seq(Calls) /\ DOMAIN fs = DOMAIN calls
      /\ \A c \in DOMAIN calls :
           /\ fs[c].target = calls[c].target /\ fs[c].via = calls[c].via /\ fs[c].deferred = calls[c].deferred
           /\ fs[c].outcome = IF form[r.target] = "saving" /\ c = opener[r.target] THEN o ELSE calls[c].outcome
  <2>1. CASE form[r.target] = "saving"
    <3>1. fs = Closing(calls, opener[r.target], o)
      BY <2>1 DEF Finish, Closing
    <3>2. fs \in Seq(Calls)
      BY <1>1, <2>1, Outcome DEF Finish
    <3> HIDE DEF fs
    <3> QED
      BY <1>1, <2>1, <3>1, <3>2, OutcomeFields
  <2>2. CASE form[r.target] # "saving"
    BY <1>1, <2>2 DEF Finish
  <2> QED
    BY <2>1, <2>2
<1> HIDE DEF fs
<1>3. CASE calls' = Resolved(fs, r)
  <2>1. /\ DOMAIN calls' = DOMAIN fs
        /\ \A c \in DOMAIN fs :
             /\ calls'[c].target = fs[c].target /\ calls'[c].via = fs[c].via /\ calls'[c].outcome = fs[c].outcome
             /\ c = r.call \/ fs[c].deferred # "pending" => calls'[c].deferred # "pending"
    <3>1. calls' = Settling(fs, r.call, "resolved")
      BY <1>3 DEF Resolved, Settling
    <3> QED
      BY <1>2, <3>1, SettledFields
  <2>2. FinishedSettles'
    BY <1>2, <2>1, Opener DEF FinishedSettles
  <2> QED
    BY <1>2, <2>1, <2>2, Opener
<1>4. CASE calls' = fs /\ o = "empty" /\ r.target \notin Node
  <2>1. FinishedSettles'
    BY <1>2, <1>4, Opener DEF FinishedSettles
  <2> QED
    BY <1>2, <1>4, <2>1, Opener
<1> QED
  BY <1>3, <1>4 DEF fs

\* The answers keep the calls and their promises.
LEMMA CallAnswer ==
  ASSUME TypeInv, CallInv, FinishedSettles, NEW r \in requests, Answer(r)
  PROVE  CallInv' /\ FinishedSettles'
<1>1. requests' = requests \ {r} /\ r.target \in Target /\ r.old \in Value \cup {None} /\ calls \in Seq(Calls)
  BY RequestFields DEF Answer, TypeInv, TypeOK
<1>2. CASE AnswerSource(r)
  <2>1. Open(r.target, r.call, r.old) /\ r.kind = "source"
    BY <1>1, <1>2, KindOfAnswer DEF AnswerSource
  <2>2. r.call \in DOMAIN calls /\ calls[r.call].via = 0 /\ calls[r.call].target = r.target /\ calls[r.call].outcome = "none"
    BY <2>1 DEF CallInv
  <2>3. \A q \in requests' : q.kind = "source" => q.call # r.call
    BY <1>1, <2>1 DEF CallInv
  <2>4. r.call \in Nat \ {0}
    BY <1>1, <2>2, LenProperties
  <2>5. /\ DOMAIN calls' = DOMAIN calls
        /\ \A c \in DOMAIN calls :
             /\ calls'[c].target = calls[c].target /\ calls'[c].outcome = calls[c].outcome
             /\ calls'[c].deferred = calls[c].deferred
             /\ calls'[c].via = IF c = r.call THEN Attached(r.target, r.call, r.old).call ELSE calls[c].via
    BY <1>1, <1>2, ViaFields DEF AnswerSource
  <2>6. /\ requests' \subseteq requests /\ DOMAIN calls' = DOMAIN calls \cup {r.call}
        /\ calls'[r.call].target = r.target /\ calls'[r.call].outcome = "none"
        /\ calls'[r.call].via = Attached(r.target, r.call, r.old).call
    BY <1>1, <2>2, <2>5
  <2> QED
    BY <1>1, <2>1, <2>2, <2>3, <2>4, <2>5, <2>6, CallOpened
<1>3. CASE AnswerRemove(r)
  <2>1. \A t \in Target : \/ form'[t] = form[t] /\ editable'[t] = editable[t]
                          \/ form'[t] = "closed" /\ editable'[t] \in {editable[t], NoEditable}
    BY <1>3 DEF AnswerRemove, Detach, forms, TypeInv, TypeOK
  <2>2. opener' = opener /\ calls' = calls
    BY <1>3 DEF AnswerRemove, Detach, forms
  <2>3. FinishedSettles'
    BY <2>2 DEF FinishedSettles
  <2>4. CallInv'
    BY <1>1, <2>1, <2>2, CallsClosed
  <2> QED
    BY <2>3, <2>4
<1>4. CASE AnswerRefused(r)
  <2>1. /\ DOMAIN calls' = DOMAIN calls
        /\ \A c \in DOMAIN calls :
             /\ calls'[c].target = calls[c].target /\ calls'[c].via = calls[c].via /\ calls'[c].outcome = calls[c].outcome
             /\ calls[c].deferred # "pending" => calls'[c].deferred # "pending"
    <3>1. calls' = Settling(calls, r.call, "rejected")
      BY <1>4 DEF AnswerRefused, Settling
    <3> QED
      BY <1>1, <3>1, SettledFields
  <2>2. UNCHANGED <<editable, opener>>
    BY <1>4 DEF AnswerRefused
  <2>3. \A t \in Target : form'[t] = form[t] \/ (form[t] = "saving" /\ form'[t] # "saving")
    BY <1>4 DEF AnswerRefused, TypeInv, TypeOK
  <2>4. FinishedSettles'
    BY <2>1 DEF FinishedSettles
  <2>5. CallInv'
    BY <1>1, <2>1, <2>2, <2>3, CallsClosed
  <2> QED
    BY <2>4, <2>5
<1>5. CASE AnswerEmpty(r)
  <2>1. r.kind = "set" /\ UNCHANGED <<editable, opener>>
    BY <1>1, <1>5, KindOfAnswer DEF AnswerEmpty
  <2>2. \A t \in Target : form'[t] = form[t] \/ form'[t] = "closed"
    BY <1>5 DEF AnswerEmpty, TypeInv, TypeOK
  <2>3. \/ calls' = Resolved(Finish(r, "empty"), r)
        \/ calls' = Finish(r, "empty") /\ r.target \notin Node
    BY <1>5 DEF AnswerEmpty
  <2>4. /\ FinishedSettles' /\ DOMAIN calls' = DOMAIN calls
        /\ \A c \in DOMAIN calls :
             /\ calls'[c].target = calls[c].target /\ calls'[c].via = calls[c].via
             /\ calls'[c].outcome = calls[c].outcome \/ calls[c].via # 0
    BY <2>1, <2>3, Finished
  <2>5. CallInv'
    BY <1>1, <2>1, <2>2, <2>4, CallsClosed
  <2> QED
    BY <2>4, <2>5
<1>6. CASE AnswerHtml(r) /\ form[r.target] = "saving"
  <2>1. r.kind = "set" /\ opener' = opener /\ calls' = Resolved(Finish(r, "html"), r)
    BY <1>1, <1>6, KindOfAnswer DEF AnswerHtml, Detach
  <2>2. \A t \in Target : \/ form'[t] = form[t] /\ editable'[t] = editable[t]
                          \/ form'[t] = "closed" /\ editable'[t] \in {editable[t], NoEditable}
    BY <1>6 DEF AnswerHtml, Detach, TypeInv, TypeOK
  <2>3. /\ FinishedSettles' /\ DOMAIN calls' = DOMAIN calls
        /\ \A c \in DOMAIN calls :
             /\ calls'[c].target = calls[c].target /\ calls'[c].via = calls[c].via
             /\ calls'[c].outcome = calls[c].outcome \/ calls[c].via # 0
    BY <2>1, Finished
  <2>4. CallInv'
    BY <1>1, <2>1, <2>2, <2>3, CallsClosed
  <2> QED
    BY <2>3, <2>4
<1>7. CASE AnswerHtml(r) /\ form[r.target] # "saving"
  BY <1>1, <1>7, CallKept DEF AnswerHtml, nodes, forms
<1> QED
  BY <1>2, <1>3, <1>4, <1>5, <1>6, <1>7 DEF Answer

\* Every step keeps the calls and their promises.
LEMMA CallStep ==
  TypeInv /\ FormInv /\ CallInv /\ FinishedSettles /\ [Next]_vars => CallInv' /\ FinishedSettles'
<1> SUFFICES ASSUME TypeInv, FormInv, CallInv, FinishedSettles, [Next]_vars PROVE CallInv' /\ FinishedSettles'
  OBVIOUS
<1>1. ASSUME NEW n \in Node, Hover(n) PROVE CallInv' /\ FinishedSettles'
  BY <1>1, CallKept DEF Hover, forms
<1>2. CASE Leave
  BY <1>2, CallKept DEF Leave, forms
<1>3. CASE Edit
  BY <1>3, TypeParts, Buttons, CallStarted DEF Edit
<1>4. ASSUME NEW t \in AddControl, Add(t) PROVE CallInv' /\ FinishedSettles'
  <2>1. t \in Target
    BY DEF Target
  <2>2. CASE Start(t, None)
    BY <2>1, <2>2, CallStarted
  <2>3. CASE ~Start(t, None)
    <3> DEFINE e == [NewCall(t, 0) EXCEPT !.deferred = "rejected"]
    <3>1. calls' = Append(calls, e) /\ UNCHANGED <<forms, requests, sent>>
      BY <1>4, <2>3 DEF Add
    <3>2. e \in Calls /\ e.outcome = "none"
      BY <2>1, BoundsOfCalls DEF NewCall, Calls
    <3> HIDE DEF e
    <3> QED
      BY <3>1, <3>2, CallAppended
  <2> QED
    BY <2>2, <2>3
<1>5. CASE Remove
  <2>1. /\ Send("remove", buttons, 0, IF page[buttons] = "shown" THEN object[buttons] ELSE None, None)
        /\ UNCHANGED <<forms, calls>>
    BY <1>5 DEF Remove
  <2>2. \A r \in requests' : r \in requests \/ r.kind = "remove"
    BY <2>1, Sent
  <2> QED
    BY <2>1, <2>2, CallKept DEF forms
<1>6. CASE Escape
  <2>1. \A t \in Target : form'[t] = IF form[t] = "saving" THEN "saving" ELSE "closed"
    BY <1>6 DEF Escape
  <2> QED
    BY <1>6, <2>1, CallKept DEF Escape
<1>7. ASSUME NEW t \in Target, Rendered(t) PROVE CallInv' /\ FinishedSettles'
  BY <1>7, CallKept DEF Rendered, TypeInv, TypeOK
<1>8. ASSUME NEW t \in Target, Cancel(t) PROVE CallInv' /\ FinishedSettles'
  BY <1>8, CallKept DEF Cancel, TypeInv, TypeOK
<1>9. ASSUME NEW t \in Target, NEW v \in Value, Submit(t, v) PROVE CallInv' /\ FinishedSettles'
  <2>1. /\ form[t] = "open" /\ UNCHANGED <<editable, opener, calls>>
        /\ \A u \in Target : form'[u] = IF u = t THEN "saving" ELSE form[u]
    BY <1>9 DEF Submit, MaySubmit, TypeInv, TypeOK
  <2>2. PICK q : requests' = requests \cup {q} /\ q.kind = "set" /\ q.target = t /\ q.call = editable[t].call
    BY <1>9, Sent DEF Submit
  <2>3. \A r \in requests : r.kind = "set" => r.target # t
    BY <2>1 DEF FormInv
  <2>4. \A r \in requests : r.target \in Target
    BY RequestFields DEF TypeInv, TypeOK
  <2>5. FinishedSettles'
    BY <2>1 DEF FinishedSettles
  <2>6. CallInv'
    BY <2>1, <2>2, <2>3, <2>4 DEF CallInv
  <2> QED
    BY <2>5, <2>6
<1>10. ASSUME NEW r \in requests, ServeRequest(r) PROVE CallInv' /\ FinishedSettles'
  BY <1>10, CallServed
<1>11. ASSUME NEW r \in requests, Answer(r) PROVE CallInv' /\ FinishedSettles'
  BY <1>11, CallAnswer
<1>12. ASSUME NEW r \in requests, LoseAnswer(r) PROVE CallInv' /\ FinishedSettles'
  BY <1>12, CallKept DEF LoseAnswer, forms
<1>13. CASE UNCHANGED vars
  BY <1>13, CallKept DEF vars
<1> QED
  BY <1>1, <1>2, <1>3, <1>4, <1>5, <1>6, <1>7, <1>8, <1>9, <1>10, <1>11, <1>12, <1>13 DEF Next

\* No call has opened a form when the page is loaded.
LEMMA CallInit == Init => CallInv /\ FinishedSettles
PROOF BY DEF Init, CallInv, FinishedSettles

-----------------------------------------------------------------------------
(* What nodes show *)

\* A request or an Editable, new or old, is about a node that is there.
LEMMA BirthKept ==
  ASSUME TypeInv, BirthInv,
         \A n \in Node : page[n] # "unborn" => page'[n] # "unborn" /\ object'[n] = object[n],
         buttons' \in {buttons, None} \/ (buttons' \in Node /\ Born(buttons')),
         \A t \in Target : \/ editable'[t] \in {editable[t], NoEditable}
                           \/ Born(t) /\ editable'[t].old = Shown(t),
         \A r \in requests' :
           \/ \E q \in requests : r.target = q.target /\ r.kind = q.kind /\ r.old = q.old
           \/ r.target \in Target /\ Born(r.target) /\ (r.kind # "remove" => r.old = Shown(r.target))
  PROVE  BirthInv'
<1>1. ASSUME NEW t \in Target, Born(t) PROVE Born(t)' /\ (Shown(t))' = Shown(t)
  BY <1>1 DEF Born, Shown
<1>2. buttons' # None => Born(buttons)'
  <2>1. ASSUME NEW n \in Node, Born(n) PROVE Born(n)'
    BY <1>1, <2>1 DEF Target
  <2>2. buttons # None => buttons \in Node /\ Born(buttons)
    BY TypeParts, Buttons DEF BirthInv
  <2> QED
    BY <2>2 DEF Born
<1>3. ASSUME NEW t \in Target, editable'[t] # NoEditable PROVE Born(t)' /\ editable'[t].old = (Shown(t))'
  <2>1. Born(t) /\ editable'[t].old = Shown(t)
    BY <1>3 DEF BirthInv
  <2> QED
    BY <1>1, <2>1
<1>4. ASSUME NEW r \in requests' PROVE Born(r.target)' /\ (r.kind # "remove" => r.old = (Shown(r.target))')
  <2>1. \A q \in requests : q.target \in Target
    BY RequestFields DEF TypeInv, TypeOK
  <2>2. r.target \in Target /\ Born(r.target) /\ (r.kind # "remove" => r.old = Shown(r.target))
    BY <1>4, <2>1 DEF BirthInv
  <2>3. PICK t \in Target : t = r.target
    BY <2>2
  <2>4. Born(t)' /\ (Shown(t))' = Shown(t)
    BY <1>1, <2>2, <2>3
  <2> QED
    BY <2>2, <2>3, <2>4 DEF Born, Shown
<1> QED
  BY <1>2, <1>3, <1>4 DEF BirthInv

\* An Editable that is attached now knows the value shown.
LEMMA BirthOpened ==
  ASSUME TypeInv, BirthInv, NEW t \in Target, Born(t), NEW c, Open(t, c, Shown(t)), UNCHANGED <<nodes, requests>>
           \/ (nodes' = nodes /\ \E r \in requests : requests' = requests \ {r}),
         buttons' \in {buttons, None}
  PROVE  BirthInv'
<1>1. \A u \in Target : editable'[u] = editable[u] \/ (u = t /\ editable'[u].old = Shown(u))
  BY DEF Open, Attached, TypeInv, TypeOK
<1> QED
  BY <1>1, BirthKept DEF nodes

\* A call is about the value that its target shows.
LEMMA BirthStarted ==
  ASSUME TypeInv, BirthInv, NEW t \in Target, Born(t), Start(t, Shown(t)), nodes' = nodes, buttons' \in {buttons, None}
  PROVE  BirthInv'
<1>1. CASE t \in Select
  <2>1. Send("source", t, Len(calls) + 1, Shown(t), None) /\ UNCHANGED forms
    BY <1>1 DEF Start
  <2>2. PICK q : requests' = requests \cup {q} /\ q.kind = "source" /\ q.target = t /\ q.old = Shown(t)
    BY <2>1, Sent
  <2> QED
    BY <2>1, <2>2, BirthKept DEF nodes, forms
<1>2. CASE t \notin Select
  BY <1>2, BirthOpened DEF Start
<1> QED
  BY <1>1, <1>2

\* Nobody knows a node of the page yet.
LEMMA BirthInit == Init => BirthInv
PROOF BY DEF Init, BirthInv

\* The answers keep what nodes show.
LEMMA BirthAnswer ==
  ASSUME TypeInv, NodesLeft, BirthInv, NEW r \in requests, Answer(r)
  PROVE  BirthInv'
<1>1. requests' = requests \ {r} /\ buttons' = buttons /\ r.target \in Target /\ Born(r.target)
  BY RequestFields DEF Answer, TypeInv, TypeOK, BirthInv
<1>2. CASE AnswerSource(r)
  <2>1. r.kind = "source"
    BY <1>1, <1>2, KindOfAnswer DEF AnswerSource
  <2>2. Open(r.target, r.call, Shown(r.target)) /\ nodes' = nodes
    BY <1>2, <2>1 DEF AnswerSource, BirthInv
  <2> QED
    BY <1>1, <2>2, BirthOpened
<1>3. CASE AnswerRemove(r)
  <2>1. \A n \in Node : page'[n] \in {page[n], "removed"} /\ object'[n] = object[n]
    BY <1>3 DEF AnswerRemove, TypeInv, TypeOK
  <2>2. \A t \in Target : editable'[t] \in {editable[t], NoEditable}
    BY <1>3 DEF AnswerRemove, Detach, forms, TypeInv, TypeOK
  <2> QED
    BY <1>1, <2>1, <2>2, BirthKept
<1>4. CASE AnswerRefused(r) \/ AnswerEmpty(r)
  <2>1. UNCHANGED <<page, object, editable>>
    BY <1>4 DEF AnswerRefused, AnswerEmpty, nodes
  <2> QED
    BY <1>1, <2>1, BirthKept
<1>5. CASE AnswerHtml(r) /\ form[r.target] = "saving"
  <2> DEFINE new == CHOOSE n \in Node : page[n] = "unborn" /\ \A k \in Node : k < n => page[k] # "unborn"
  <2>1. /\ object' = [object EXCEPT ![new] = r.new]
        /\ \/ page' = [page EXCEPT ![new] = "shown", ![r.target] = "removed"]
           \/ page' = [page EXCEPT ![new] = "shown"]
    BY <1>5 DEF AnswerHtml
  <2>2. \A t \in Target : editable'[t] \in {editable[t], NoEditable}
    BY <1>5 DEF AnswerHtml, Detach, TypeInv, TypeOK
  <2>3. new \in Node /\ page[new] = "unborn"
    BY NewNode
  <2> HIDE DEF new
  <2>4. \A n \in Node : page[n] # "unborn" => page'[n] # "unborn" /\ object'[n] = object[n]
    BY <2>1, <2>3 DEF TypeInv, TypeOK
  <2> QED
    BY <1>1, <2>2, <2>4, BirthKept
<1>6. CASE AnswerHtml(r) /\ form[r.target] # "saving"
  BY <1>1, <1>6, BirthKept DEF AnswerHtml, nodes, forms
<1> QED
  BY <1>2, <1>3, <1>4, <1>5, <1>6 DEF Answer

\* Every step keeps what nodes show.
LEMMA BirthStep == TypeInv /\ NodesLeft /\ CallInv /\ BirthInv /\ [Next]_vars => BirthInv'
<1> SUFFICES ASSUME TypeInv, NodesLeft, CallInv, BirthInv, [Next]_vars PROVE BirthInv'
  OBVIOUS
<1>1. ASSUME NEW n \in Node, Hover(n) PROVE BirthInv'
  BY <1>1, BirthKept DEF Hover, nodes, forms, Born
<1>2. CASE Leave
  BY <1>2, BirthKept DEF Leave, nodes, forms
<1>3. CASE Edit
  <2>1. buttons \in Node /\ buttons \in Target /\ Born(buttons)
    BY <1>3, TypeParts, Buttons DEF Edit, BirthInv
  <2>2. Start(buttons, Shown(buttons)) /\ nodes' = nodes /\ buttons' = None
    BY <1>3, <2>1 DEF Edit, Shown
  <2> QED
    BY <2>1, <2>2, BirthStarted
<1>4. ASSUME NEW t \in AddControl, Add(t) PROVE BirthInv'
  <2>1. t \in Target /\ Born(t) /\ Shown(t) = None /\ nodes' = nodes /\ buttons' = buttons
    BY <1>4, SetsOfTargets DEF Add, Target, Born, Shown
  <2>2. CASE Start(t, None)
    BY <2>1, <2>2, BirthStarted
  <2>3. CASE ~Start(t, None)
    BY <1>4, <2>3, BirthKept DEF Add, nodes, forms
  <2> QED
    BY <2>2, <2>3
<1>5. CASE Remove
  <2>1. /\ Send("remove", buttons, 0, IF page[buttons] = "shown" THEN object[buttons] ELSE None, None)
        /\ UNCHANGED <<nodes, forms>> /\ buttons' = None /\ buttons # None
    BY <1>5 DEF Remove
  <2>2. PICK q : requests' = requests \cup {q} /\ q.kind = "remove" /\ q.target = buttons
    BY <2>1, Sent
  <2>3. buttons \in Target /\ Born(buttons)
    BY <2>1, TypeParts, Buttons DEF BirthInv
  <2> QED
    BY <2>1, <2>2, <2>3, BirthKept DEF nodes, forms
<1>6. CASE Escape
  BY <1>6, BirthKept DEF Escape, nodes
<1>7. ASSUME NEW t \in Target, Rendered(t) PROVE BirthInv'
  BY <1>7, BirthKept DEF Rendered, nodes
<1>8. ASSUME NEW t \in Target, Cancel(t) PROVE BirthInv'
  BY <1>8, BirthKept DEF Cancel, nodes
<1>9. ASSUME NEW t \in Target, NEW v \in Value, Submit(t, v) PROVE BirthInv'
  <2>1. form[t] = "open" /\ UNCHANGED <<nodes, buttons, editable>>
    BY <1>9 DEF Submit, MaySubmit
  <2>2. PICK q : requests' = requests \cup {q} /\ q.kind = "set" /\ q.target = t /\ q.old = editable[t].old
    BY <1>9, Sent DEF Submit
  <2>3. Born(t) /\ editable[t].old = Shown(t)
    BY <2>1 DEF CallInv, BirthInv
  <2> QED
    BY <2>1, <2>2, <2>3, BirthKept DEF nodes
<1>10. ASSUME NEW r \in requests, ServeRequest(r) PROVE BirthInv'
  <2>1. PICK a : requests' = (requests \ {r}) \cup {a} /\ a.kind = r.kind /\ a.target = r.target /\ a.old = r.old
    BY <1>10, Served
  <2>2. UNCHANGED <<nodes, buttons, forms>>
    BY <1>10, Served
  <2> QED
    BY <2>1, <2>2, BirthKept DEF nodes, forms
<1>11. ASSUME NEW r \in requests, Answer(r) PROVE BirthInv'
  BY <1>11, BirthAnswer
<1>12. ASSUME NEW r \in requests, LoseAnswer(r) PROVE BirthInv'
  BY <1>12, BirthKept DEF LoseAnswer, nodes, forms
<1>13. CASE UNCHANGED vars
  BY <1>13, BirthKept DEF vars
<1> QED
  BY <1>1, <1>2, <1>3, <1>4, <1>5, <1>6, <1>7, <1>8, <1>9, <1>10, <1>11, <1>12, <1>13 DEF Next

-----------------------------------------------------------------------------
(* The theorems about forms and calls *)

Inv == TypeInv /\ NodesLeft /\ BirthInv /\ FormInv /\ CallInv /\ FinishedSettles

\* The inductive invariant of everything but the store.
LEMMA Invariance == Spec => []Inv
<1>1. Init => Inv
  BY TypeInit, NodesInit, BirthInit, FormInit, CallInit DEF Inv
<1>2. Inv /\ [Next]_vars => Inv'
  BY TypeStep, NodesStep, BirthStep, FormStep, CallStep DEF Inv
<1> QED
  BY <1>1, <1>2, PTL DEF Spec

\* A form that saves waits for exactly one change, if none of its answers was
\* lost, however requests, answers, removals and Escape interleave.
THEOREM OneRequest == Spec => []SavingHasRequest
<1>1. Inv => SavingHasRequest
  <2> SUFFICES ASSUME Inv, NEW t \in Target \ lost, form[t] = "saving"
               PROVE  Cardinality({r \in requests : r.kind = "set" /\ r.target = t}) = 1
    BY DEF SavingHasRequest
  <2>1. PICK r \in requests : r.kind = "set" /\ r.target = t
    BY DEF Inv, FormInv
  <2>2. {q \in requests : q.kind = "set" /\ q.target = t} = {r}
    BY <2>1 DEF Inv, FormInv
  <2> QED
    BY <2>2, FS_Singleton
<1> QED
  BY <1>1, Invariance, PTL

\* No removed node leaves its form behind.
THEOREM NoFormLeft == Spec => []RemovedHasNoForm
<1>1. Inv => RemovedHasNoForm
  BY DEF Inv, FormInv, RemovedHasNoForm
<1> QED
  BY <1>1, Invariance, PTL

\* Every call whose form was saved and closed with its own options has settled
\* its promise.
THEOREM PromiseSettled == Spec => []FinishedSettles
<1>1. Inv => FinishedSettles
  BY DEF Inv
<1> QED
  BY <1>1, Invariance, PTL

\* Only the answer to its change closes a form that saves, or the user's wish.
THEOREM ClosedByAnswer == Spec => ClosesOnlyWhenSaved
<1> DEFINE Closes == \A t \in Target : form[t] = "saving" /\ form'[t] = "closed" =>
             \/ delayedHide[t]
             \/ t \in Node /\ page'[t] = "removed"
             \/ \E r \in requests \ requests' : r.kind = "set" /\ r.target = t /\ r.result \in {"html", "empty"}
<1>1. Inv /\ [Next]_vars => Closes
  <2> SUFFICES ASSUME Inv, [Next]_vars, NEW t \in Target, form[t] = "saving", form'[t] = "closed"
               PROVE  \/ delayedHide[t]
                      \/ t \in Node /\ page'[t] = "removed"
                      \/ \E r \in requests \ requests' : r.kind = "set" /\ r.target = t /\ r.result \in {"html", "empty"}
    OBVIOUS
  <2>1. /\ form \in [Target -> {"closed", "rendering", "open", "saving"}]
        /\ page \in [Node -> {"unborn", "shown", "removed"}] /\ TypeInv
    BY DEF Inv, TypeInv, TypeOK
  <2>2. ASSUME NEW u, NEW c, NEW old, Open(u, c, old) PROVE FALSE
    BY <2>1, <2>2 DEF Open
  <2>3. ASSUME NEW u, NEW old, Start(u, old) PROVE FALSE
    BY <2>2, <2>3 DEF Start, forms
  <2>4. ~(\E n \in Node : Hover(n)) /\ ~Leave /\ ~Edit /\ ~Remove /\ ~Escape
    BY <2>3 DEF Hover, Leave, Edit, Remove, Escape, forms
  <2>5. ASSUME NEW u \in AddControl, Add(u) PROVE FALSE
    BY <2>3, <2>5 DEF Add, forms
  <2>6. ASSUME NEW u \in Target, Rendered(u) \/ Cancel(u) \/ \E v \in Value : Submit(u, v) PROVE FALSE
    BY <2>1, <2>6 DEF Rendered, Cancel, Submit, MaySubmit
  <2>7. ASSUME NEW r \in requests, ServeRequest(r) \/ LoseAnswer(r) PROVE FALSE
    BY <2>1, <2>7, Served DEF LoseAnswer, forms
  <2>8. ASSUME NEW r \in requests, Answer(r)
        PROVE  \/ delayedHide[t]
               \/ t \in Node /\ page'[t] = "removed"
               \/ r.kind = "set" /\ r.target = t /\ r.result \in {"html", "empty"} /\ r \notin requests'
    <3>1. r.target \in Target /\ r \notin requests'
      BY <2>1, <2>8, RequestFields DEF Answer, TypeInv, TypeOK
    <3>2. CASE AnswerSource(r)
      BY <2>2, <3>2 DEF AnswerSource
    <3>3. CASE AnswerRemove(r)
      BY <2>1, <3>1, <3>3, KindOfAnswer DEF AnswerRemove, Detach, forms
    <3>4. CASE AnswerRefused(r)
      BY <2>1, <3>1, <3>4 DEF AnswerRefused
    <3>5. CASE AnswerEmpty(r)
      BY <2>1, <3>1, <3>5, KindOfAnswer DEF AnswerEmpty
    <3>6. CASE AnswerHtml(r)
      BY <2>1, <3>1, <3>6, KindOfAnswer DEF AnswerHtml, Detach, forms
    <3> QED
      BY <2>8, <3>2, <3>3, <3>4, <3>5, <3>6 DEF Answer
  <2>9. ~UNCHANGED vars
    BY DEF vars
  <2> QED
    BY <2>4, <2>5, <2>6, <2>7, <2>8, <2>9 DEF Next
<1>2. Spec => [][Inv /\ Inv' /\ Next]_vars
  BY Invariance, PTL DEF Spec
<1>3. [Inv /\ Inv' /\ Next]_vars => [Closes]_vars
  BY <1>1
<1> QED
  BY <1>2, <1>3, PTL DEF ClosesOnlyWhenSaved

-----------------------------------------------------------------------------
(* The page and the model *)

\* What the targets show is the same, if no change is answered.
LEMMA HoldsKept ==
  ASSUME UNCHANGED <<page, object>>,
         \A r : r.result \in {"true", "html"} => (r \in requests' <=> r \in requests)
  PROVE  \A t, v : Holds(t, v)' <=> Holds(t, v)
<1>1. \A t : Vanishes(t)' <=> Vanishes(t)
  BY DEF Vanishes
<1> QED
  BY <1>1 DEF Holds

\* So the model and the page still agree.
LEMMA ValuesKept ==
  ASSUME Values, UNCHANGED <<page, object, store>>,
         \A r : r.result \in {"true", "html"} => (r \in requests' <=> r \in requests)
  PROVE  Values'
<1>1. \A t, v : Holds(t, v)' <=> Holds(t, v)
  BY HoldsKept
<1> QED
  BY <1>1 DEF Values

\* Changes that are answered or go on leave the others apart.
LEMMA ApartKept ==
  ASSUME Apart, page' = page, object' = object,
         requests' \subseteq requests \/ \E q : requests' = requests \cup {q} /\ q.kind = "source"
  PROVE  Apart'
PROOF BY DEF Apart

\* The only target of a change shows the old value, if any.
LEMMA ShowsOld ==
  ASSUME TypeInv, FormInv, BirthInv, Apart, NEW r \in requests,
         r.result = "none", r.kind = "set" \/ (r.kind = "remove" /\ page[r.target] = "shown")
  PROVE  /\ \A v : Holds(r.target, v) <=> r.target \in Node /\ v = object[r.target]
         /\ r.target \in Node => page[r.target] = "shown" /\ r.old = object[r.target]
         /\ r.target \notin Node => r.old = None
         /\ \A q \in requests : q.target = r.target => q.result \notin {"true", "html"}
<1>1. r.target \in Target /\ Born(r.target)
  BY RequestFields DEF TypeInv, TypeOK, BirthInv
<1>2. r.target \in Node => page[r.target] = "shown"
  BY <1>1 DEF Apart, Born, TypeInv, TypeOK
<1>3. ASSUME NEW q \in requests, q.target = r.target, q.result \in {"true", "html"} PROVE FALSE
  <2>1. q.kind = IF q.result = "true" THEN "remove" ELSE "set"
    BY <1>3 DEF TypeInv, Fits
  <2>2. q.kind = "remove" => q.target \in Node
    BY KindOfAnswer
  <2>3. q # r
    BY <1>3
  <2>4. CASE q.kind = "set" /\ r.kind = "set"
    BY <1>3, <2>3, <2>4 DEF FormInv
  <2>5. CASE q.kind = "remove"
    BY <1>2, <1>3, <2>2, <2>3, <2>5 DEF Apart
  <2>6. CASE q.kind = "set" /\ r.kind = "remove"
    BY <1>3, <2>3, <2>6 DEF Apart
  <2> QED
    BY <2>1, <2>4, <2>5, <2>6
<1>4. r.kind = "set" => r.old = IF r.target \in Node THEN object[r.target] ELSE None
  BY DEF BirthInv, Shown
<1>5. r.kind = "remove" => r.target \in Node /\ r.old = object[r.target]
  BY KindOfAnswer DEF Apart
<1>6. \A v : Holds(r.target, v) <=> r.target \in Node /\ v = object[r.target]
  BY <1>2, <1>3 DEF Holds, Vanishes
<1> QED
  BY <1>2, <1>3, <1>4, <1>5, <1>6

\* The other values stay when one is taken from its target.
LEMMA OthersStay ==
  ASSUME TypeInv, Values, NEW t \in Target, NEW old,
         \A v : Holds(t, v) <=> t \in Node /\ v = old, t \notin Node => old = None
  PROVE  \A v \in Value \cup {None} : v \in store \ {old} <=> \E u \in Target \ {t} : Holds(u, v)
<1>1. ASSUME NEW v \in Value \cup {None}, v \in store, v # old PROVE \E u \in Target \ {t} : Holds(u, v)
  BY <1>1 DEF Values
<1>2. ASSUME NEW v \in Value \cup {None}, NEW u \in Target \ {t}, Holds(u, v) PROVE v \in store /\ v # old
  <2>1. v \in store
    BY <1>2 DEF Values
  <2>2. CASE t \in Node
    BY <1>2, <2>1, <2>2 DEF Values
  <2>3. CASE t \notin Node
    BY <2>1, <2>3, NoneIsNothing DEF TypeInv, TypeOK
  <2> QED
    BY <2>1, <2>2, <2>3
<1> QED
  BY <1>1, <1>2

\* Serving a request keeps page and model in step, unless it disturbs.
LEMMA StoreServed ==
  ASSUME TypeInv, FormInv, BirthInv, Apart, Values, NEW r \in requests, ServeRequest(r), Undisturbed'
  PROVE  Apart' /\ Values'
<1>1. PICK a : /\ requests' = (requests \ {r}) \cup {a} /\ a.kind = r.kind
               /\ a.target = r.target /\ a.old = r.old /\ a.new = r.new
               /\ a \notin requests /\ r.result = "none"
               /\ UNCHANGED <<nodes, buttons, forms, calls, sent, lost>>
               /\ \/ a.result \notin {"true", "html"} /\ store' = store
                  \/ /\ a.result = "html" /\ r.kind = "set" /\ store' = Replaced(r)
                     /\ r.new \notin store \ {r.old}
                  \/ a.result = "true" /\ r.kind = "remove" /\ r.old # None /\ store' = store \ {r.old}
  <2> DEFINE a(x) == [r EXCEPT !.result = x]
  <2>1. ASSUME NEW x \in {"items", "html", "empty", "msg", "true", "false"}, NEW values, NEW spoils, Serve(r, x, values, spoils)
        PROVE  /\ requests' = (requests \ {r}) \cup {a(x)} /\ a(x).kind = r.kind
               /\ a(x).target = r.target /\ a(x).old = r.old /\ a(x).new = r.new
               /\ a(x) \notin requests /\ r.result = "none" /\ a(x).result = x
               /\ UNCHANGED <<nodes, buttons, forms, calls, sent, lost>>
               /\ ~spoils /\ store' = values
    <3>1. r \in Requests /\ r.result = "none"
      BY DEF TypeInv, TypeOK, ServeRequest
    <3>2. a(x).id = r.id /\ a(x).result = x
      BY <3>1, AnswerFields
    <3>3. a(x) \notin requests
      BY <3>1, <3>2 DEF TypeInv, TypeOK
    <3>4. /\ a(x).kind = r.kind /\ a(x).target = r.target /\ a(x).old = r.old /\ a(x).new = r.new
      BY <3>1, AnswerFields
    <3>5. /\ requests' = (requests \ {r}) \cup {a(x)} /\ store' = values
          /\ UNCHANGED <<nodes, buttons, forms, calls, sent, lost>>
      BY <2>1 DEF Serve
    <3>6. ~spoils
      BY <2>1 DEF Serve, Undisturbed
    <3> HIDE DEF a
    <3> QED
      BY <3>1, <3>2, <3>3, <3>4, <3>5, <3>6
  <2> HIDE DEF a
  <2>2. CASE ServeSource(r)
    BY <2>1, <2>2 DEF ServeSource
  <2>3. CASE ServeSet(r)
    BY <2>1, <2>3 DEF ServeSet
  <2>4. CASE ServeRemove(r)
    BY <2>1, <2>4 DEF ServeRemove
  <2> QED
    BY <2>2, <2>3, <2>4 DEF ServeRequest
<1>2. UNCHANGED <<page, object>> /\ r.target \in Target
  BY <1>1, RequestFields DEF nodes, TypeInv, TypeOK
<1>3. Apart'
  BY <1>1, <1>2, KindOfAnswer DEF Apart
<1>4. CASE a.result \notin {"true", "html"} /\ store' = store
  <2>1. \A q : q.result \in {"true", "html"} => (q \in requests' <=> q \in requests)
    BY <1>1, <1>4
  <2> QED
    BY <1>2, <1>3, <1>4, <2>1, ValuesKept
<1>5. ASSUME NEW u \in Target \ {r.target}, NEW v PROVE Holds(u, v)' <=> Holds(u, v)
  <2>1. Vanishes(u)' <=> Vanishes(u)
    BY <1>1 DEF Vanishes
  <2> QED
    BY <1>1, <1>2, <2>1 DEF Holds
<1>6. CASE a.result = "html" /\ r.kind = "set" /\ store' = Replaced(r) /\ r.new \notin store \ {r.old}
  <2>1. /\ \A v : Holds(r.target, v) <=> r.target \in Node /\ v = r.old
        /\ r.target \notin Node => r.old = None
        /\ \A q \in requests : q.target = r.target => q.result \notin {"true", "html"}
    BY <1>1, <1>6, ShowsOld
  <2>2. \A v : Holds(r.target, v)' <=> v = r.new
    BY <1>1, <1>6, <2>1 DEF Holds, Vanishes
  <2>3. \A v \in Value \cup {None} : v \in store \ {r.old} <=> \E u \in Target \ {r.target} : Holds(u, v)
    BY <1>2, <2>1, OthersStay
  <2>4. \A v \in Value \cup {None} : v \in store' <=> \E u \in Target : Holds(u, v)'
    BY <1>2, <1>5, <1>6, <2>2, <2>3 DEF Replaced
  <2>5. \A t, u \in Target, v \in Value \cup {None} : Holds(t, v)' /\ Holds(u, v)' => t = u
    BY <1>5, <1>6, <2>2, <2>3 DEF Values
  <2> QED
    BY <1>3, <2>4, <2>5 DEF Values
<1>7. CASE a.result = "true" /\ r.kind = "remove" /\ r.old # None /\ store' = store \ {r.old}
  <2>1. page[r.target] = "shown"
    BY <1>7 DEF Apart
  <2>2. /\ \A v : Holds(r.target, v) <=> r.target \in Node /\ v = r.old
        /\ r.target \notin Node => r.old = None
        /\ \A q \in requests : q.target = r.target => q.result \notin {"true", "html"}
    BY <1>1, <1>7, <2>1, ShowsOld
  <2>3. \A v : ~Holds(r.target, v)'
    BY <1>1, <1>7, <2>2 DEF Holds, Vanishes
  <2>4. \A v \in Value \cup {None} : v \in store \ {r.old} <=> \E u \in Target \ {r.target} : Holds(u, v)
    BY <1>2, <2>2, OthersStay
  <2>5. \A v \in Value \cup {None} : v \in store' <=> \E u \in Target : Holds(u, v)'
    BY <1>2, <1>5, <1>7, <2>3, <2>4
  <2>6. \A t, u \in Target, v \in Value \cup {None} : Holds(t, v)' /\ Holds(u, v)' => t = u
    BY <1>5, <2>3 DEF Values
  <2> QED
    BY <1>3, <2>5, <2>6 DEF Values
<1> QED
  BY <1>1, <1>4, <1>6, <1>7

\* A new change keeps the others apart, unless it disturbs.
LEMMA ApartSent ==
  ASSUME TypeInv, FormInv, Apart, UNCHANGED <<page, object>>, NEW q, requests' = requests \cup {q},
         q.result = "none",
         \/ /\ q.kind = "set" /\ (q.target \in Node => page[q.target] = "shown")
            /\ \A r \in requests : r.target = q.target => r.kind \notin {"set", "remove"}
         \/ /\ q.kind = "remove" /\ q.target \in Node
            /\ q.old = IF page[q.target] = "shown" THEN object[q.target] ELSE None
            /\ \/ page[q.target] = "removed"
               \/ \A r \in requests : r.target = q.target => r.kind \notin {"set", "remove"}
  PROVE  Apart'
<1> USE DEF Apart
<1>1. \A r \in requests' : r.kind = "set" => ~(r.target \in Node /\ page'[r.target] = "removed")
  OBVIOUS
<1>2. \A r, p \in requests' : r.kind = "remove" /\ p.kind \in {"set", "remove"} /\ r.target = p.target =>
        r = p \/ page'[r.target] = "removed"
  OBVIOUS
<1>3. \A r \in requests' : r.kind = "remove" =>
        /\ r.old = IF page'[r.target] = "shown" THEN object'[r.target] ELSE None
        /\ r.result = "true" => page'[r.target] = "shown"
  OBVIOUS
<1> QED
  BY <1>1, <1>2, <1>3

\* The answer that a node is removed.
LEMMA StoreRemoved ==
  ASSUME TypeInv, Apart, Values, NEW r \in requests, requests' = requests \ {r},
         AnswerRemove(r), r.result = "true", store' = store
  PROVE  Apart' /\ Values'
<1> DEFINE n == r.target
<1>1. r.kind = "remove" /\ n \in Node /\ n \in Target /\ page[n] = "shown"
  BY KindOfAnswer DEF AnswerRemove, Apart, Target
<1>2. /\ object' = object /\ page'[n] = "removed"
      /\ \A k \in Node \ {n} : page'[k] = page[k]
  BY <1>1 DEF AnswerRemove, TypeInv, TypeOK
<1>3. \A q \in requests' : q.target = n => q.kind \notin {"set", "remove"}
  BY <1>1 DEF Apart
<1>4. Apart'
  <2>1. \A q \in requests' : q.kind = "remove" => q.target \in Node
    BY KindOfAnswer
  <2> QED
    BY <1>2, <1>3, <2>1 DEF Apart
<1>5. \A q \in requests : q.target \in Target /\ (q.result = "html" => q.kind = "set")
  BY RequestFields, KindOfAnswer DEF TypeInv, TypeOK
<1>6. \A v : ~Holds(n, v)'
  BY <1>2, <1>3, <1>5 DEF Holds
<1>7. \A v : ~Holds(n, v)
  <2>1. Vanishes(n)
    BY DEF Vanishes
  <2>2. \A q \in requests : q.target = n => q.result # "html"
    BY <1>1, <1>3, <1>5
  <2> QED
    BY <2>1, <2>2 DEF Holds
<1>8. ASSUME NEW u \in Target \ {n}, NEW v PROVE Holds(u, v)' <=> Holds(u, v)
  <2>1. Vanishes(u)' <=> Vanishes(u)
    BY DEF Vanishes
  <2> QED
    BY <1>2, <2>1 DEF Holds
<1>9. \A u \in Target : \A v : Holds(u, v)' <=> Holds(u, v)
  BY <1>6, <1>7, <1>8
<1> QED
  BY <1>4, <1>9 DEF Values

\* The answer with the markup of the new node.
LEMMA StoreReplaced ==
  ASSUME TypeInv, NodesLeft, BirthInv, FormInv, Apart, Values, NEW r \in requests, requests' = requests \ {r},
         AnswerHtml(r), store' = store
  PROVE  Apart' /\ Values'
<1> DEFINE next == CHOOSE n \in Node : page[n] = "unborn" /\ \A k \in Node : k < n => page[k] # "unborn"
           t == r.target
<1>1. r.kind = "set" /\ t \in Target /\ r.result = "html"
  BY RequestFields, KindOfAnswer DEF AnswerHtml, TypeInv, TypeOK
<1>2. form[t] = "saving" /\ (t \in Node => page[t] = "shown")
  BY <1>1 DEF FormInv, Apart
<1>3. next \in Node /\ page[next] = "unborn"
  BY NewNode
<1>4. /\ object' = [object EXCEPT ![next] = r.new]
      /\ \/ page' = [page EXCEPT ![next] = "shown", ![t] = "removed"] /\ t \in Node
         \/ page' = [page EXCEPT ![next] = "shown"] /\ t \notin Node
  BY <1>2 DEF AnswerHtml
<1>0. PICK new : new = next
  OBVIOUS
<1> HIDE DEF next
<1>5. new # t /\ new \in Target
  BY <1>0, <1>2, <1>3 DEF Target
<1>6. /\ object'[new] = r.new /\ page'[new] = "shown" /\ (t \in Node => page'[t] = "removed")
      /\ \A n \in Node \ {new} : object'[n] = object[n] /\ (n # t => page'[n] = page[n])
  BY <1>0, <1>3, <1>4, <1>5 DEF TypeInv, TypeOK
<1>7. /\ \A q \in requests : q.target # new /\ q.target \in Target
      /\ \A q \in requests' : q.target = t => q.kind # "set" /\ (q.kind = "remove" => t \notin Node)
  <2>1. \A q \in requests : q.target # new /\ q.target \in Target
    BY <1>0, <1>3, RequestFields DEF BirthInv, Born, TypeInv, TypeOK
  <2>2. \A q \in requests' : q.target = t => q.kind # "set"
    BY <1>1 DEF FormInv
  <2>3. \A q \in requests' : q.target = t /\ t \in Node => q.kind # "remove"
    BY <1>1, <1>2 DEF Apart
  <2> QED
    BY <2>1, <2>2, <2>3
<1>8. Apart'
  <2>1. \A q \in requests' : q.kind = "set" => ~(q.target \in Node /\ page'[q.target] = "removed")
    BY <1>6, <1>7 DEF Apart
  <2>2. \A q \in requests' : q.kind = "remove" => q.target \in Node /\ q.target # t /\ q.target # new
    BY <1>7, KindOfAnswer
  <2>3. \A q, p \in requests' : q.kind = "remove" /\ p.kind \in {"set", "remove"} /\ q.target = p.target =>
          q = p \/ page'[q.target] = "removed"
    BY <1>6, <2>2 DEF Apart
  <2>4. \A q \in requests' : q.kind = "remove" =>
          /\ q.old = IF page'[q.target] = "shown" THEN object'[q.target] ELSE None
          /\ q.result = "true" => page'[q.target] = "shown"
    BY <1>6, <2>2 DEF Apart
  <2> QED
    BY <2>1, <2>3, <2>4 DEF Apart
<1>9. /\ \A v : Holds(t, v) <=> v = r.new
      /\ \A v : ~Holds(new, v)
  <2>1. Vanishes(t)
    BY <1>1 DEF Vanishes
  <2>2. \A q \in requests : q.target = t /\ q.result = "html" => q = r
    BY <1>1, KindOfAnswer DEF FormInv
  <2> QED
    BY <1>0, <1>1, <1>3, <1>7, <2>1, <2>2 DEF Holds
<1>10. /\ \A v : ~Holds(t, v)'
       /\ \A v : Holds(new, v)' <=> v = r.new
  <2>1. \A q \in requests' : q.target = t => q.result # "html"
    BY <1>7, KindOfAnswer
  <2>2. ~Vanishes(new)'
    BY <1>7 DEF Vanishes
  <2> QED
    BY <1>0, <1>3, <1>6, <1>7, <2>1, <2>2 DEF Holds
<1>11. ASSUME NEW u \in Target \ {t, new}, NEW v PROVE Holds(u, v)' <=> Holds(u, v)
  <2>1. Vanishes(u)' <=> Vanishes(u)
    BY DEF Vanishes
  <2> QED
    BY <1>6, <2>1 DEF Holds
<1>12. \A v \in Value \cup {None} : v \in store' <=> \E u \in Target : Holds(u, v)'
  <2>1. ASSUME NEW v \in Value \cup {None}, v \in store PROVE \E u \in Target : Holds(u, v)'
    <3>1. PICK u \in Target : Holds(u, v)
      BY <2>1 DEF Values
    <3>2. CASE u = t
      BY <1>5, <1>9, <1>10, <3>1, <3>2
    <3>3. CASE u # t
      BY <1>9, <1>11, <3>1, <3>3
    <3> QED
      BY <3>2, <3>3
  <2>2. ASSUME NEW v \in Value \cup {None}, NEW u \in Target, Holds(u, v)' PROVE v \in store
    <3>1. \E w \in Target : Holds(w, v)
      BY <1>1, <1>9, <1>10, <1>11, <2>2
    <3> QED
      BY <3>1 DEF Values
  <2> QED
    BY <2>1, <2>2
<1>13. ASSUME NEW x \in Target, NEW u \in Target, NEW v \in Value \cup {None}, Holds(x, v)', Holds(u, v)'
       PROVE  x = u
  <2>1. Holds(IF x = new THEN t ELSE x, v) /\ Holds(IF u = new THEN t ELSE u, v) /\ x # t /\ u # t
    BY <1>9, <1>10, <1>11, <1>13
  <2>2. (IF x = new THEN t ELSE x) = (IF u = new THEN t ELSE u)
    BY <1>1, <2>1 DEF Values
  <2> QED
    BY <2>1, <2>2
<1> QED
  BY <1>8, <1>12, <1>13 DEF Values

\* The other answers change nothing on the page.
LEMMA StoreAnswer ==
  ASSUME TypeInv, NodesLeft, BirthInv, FormInv, Apart, Values, NEW r \in requests, Answer(r)
  PROVE  Apart' /\ Values'
<1>1. requests' = requests \ {r} /\ store' = store
  BY DEF Answer, server
<1>2. CASE UNCHANGED <<page, object>> /\ r.result \notin {"true", "html"}
  <2>1. \A q : q.result \in {"true", "html"} => (q \in requests' <=> q \in requests)
    BY <1>1, <1>2
  <2> QED
    BY <1>1, <1>2, <2>1, ValuesKept, ApartKept
<1>3. CASE AnswerRemove(r) /\ r.result = "true"
  BY <1>1, <1>3, StoreRemoved
<1>4. CASE AnswerHtml(r)
  BY <1>1, <1>4, StoreReplaced
<1>5. AnswerSource(r) \/ AnswerRefused(r) \/ AnswerEmpty(r) \/ (AnswerRemove(r) /\ r.result # "true") =>
        UNCHANGED <<page, object>> /\ r.result \notin {"true", "html"}
  BY DEF AnswerSource, AnswerRefused, AnswerEmpty, AnswerRemove, nodes
<1> QED
  BY <1>2, <1>3, <1>4, <1>5 DEF Answer

\* The loaded page shows the values of the model.
LEMMA StoreInit == Init => StoreInv
<1> SUFFICES ASSUME Init PROVE Apart /\ Values
  BY DEF StoreInv
<1>1. requests = {} /\ store = {Page0[i] : i \in 1 .. Len(Page0)}
  BY DEF Init
<1>2. Len(Page0) \in Nat /\ \A i, j \in 1 .. Len(Page0) : Page0[i] = Page0[j] => i = j
  BY PageShowsValues, LenProperties
<1>3. \A i \in 1 .. Len(Page0) : i \in Node /\ i \in Target
  BY <1>2, BoundsOfCalls DEF Node, Target
<1>4. \A t, v : Holds(t, v) <=> t \in 1 .. Len(Page0) /\ v = Page0[t]
  <2>1. \A t \in Node : (page[t] = "shown" <=> t \in 1 .. Len(Page0)) /\ (t \in 1 .. Len(Page0) => object[t] = Page0[t])
    BY <1>2 DEF Init, Node
  <2> QED
    BY <1>1, <1>3, <2>1 DEF Holds, Vanishes
<1>5. Apart
  BY <1>1 DEF Apart
<1> QED
  BY <1>1, <1>2, <1>3, <1>4, <1>5 DEF Values

\* What was disturbed stays so.
LEMMA Undisturbing == [Next]_vars /\ Undisturbed' => Undisturbed
<1> SUFFICES ASSUME [Next]_vars, Undisturbed' PROVE lost = {} /\ ~disturbed
  BY DEF Undisturbed
<1> USE DEF Undisturbed, server
<1>1. ASSUME NEW n \in Node, Hover(n) PROVE lost = {} /\ ~disturbed
  BY <1>1 DEF Hover
<1>2. CASE Leave \/ Edit \/ Escape
  BY <1>2 DEF Leave, Edit, Escape
<1>3. CASE Remove
  BY <1>3 DEF Remove, Outstanding
<1>4. ASSUME NEW t \in AddControl, Add(t) PROVE lost = {} /\ ~disturbed
  BY <1>4 DEF Add
<1>5. ASSUME NEW t \in Target, Rendered(t) \/ Cancel(t) PROVE lost = {} /\ ~disturbed
  BY <1>5 DEF Rendered, Cancel
<1>6. ASSUME NEW t \in Target, NEW v \in Value, Submit(t, v) PROVE lost = {} /\ ~disturbed
  BY <1>6 DEF Submit, Outstanding
<1>7. ASSUME NEW r \in requests, ServeRequest(r) PROVE lost = {} /\ ~disturbed
  BY <1>7 DEF ServeRequest, ServeSource, ServeSet, ServeRemove, Serve
<1>8. ASSUME NEW r \in requests, Answer(r) PROVE lost = {} /\ ~disturbed
  BY <1>8 DEF Answer, AnswerSource, AnswerRemove, AnswerRefused, AnswerEmpty, AnswerHtml
<1>9. ASSUME NEW r \in requests, LoseAnswer(r) PROVE lost = {} /\ ~disturbed
  BY <1>9 DEF LoseAnswer
<1>10. CASE UNCHANGED vars
  BY <1>10 DEF vars
<1> QED
  BY <1>1, <1>2, <1>3, <1>4, <1>5, <1>6, <1>7, <1>8, <1>9, <1>10 DEF Next

\* Every step keeps page and model in step, or disturbs.
LEMMA StoreStep == Inv /\ StoreInv /\ [Next]_vars => StoreInv'
<1> SUFFICES ASSUME Inv, Apart, Values, [Next]_vars, Undisturbed' PROVE Apart' /\ Values'
  BY Undisturbing DEF StoreInv
<1>1. TypeInv /\ NodesLeft /\ BirthInv /\ FormInv
  BY DEF Inv
<1>2. ASSUME UNCHANGED <<page, object, store, requests>> PROVE Apart' /\ Values'
  BY <1>2, ValuesKept, ApartKept
<1>3. ASSUME NEW t, NEW old, Start(t, old), UNCHANGED <<page, object, store>> PROVE Apart' /\ Values'
  <2>1. CASE t \in Select
    <3>1. Send("source", t, Len(calls) + 1, old, None)
      BY <1>3, <2>1 DEF Start
    <3>2. PICK q : requests' = requests \cup {q} /\ q.kind = "source" /\ q.result = "none"
      BY <1>1, <3>1, Sent
    <3>3. \A r : r.result \in {"true", "html"} => (r \in requests' <=> r \in requests)
      BY <3>2
    <3> QED
      BY <1>3, <3>2, <3>3, ValuesKept, ApartKept
  <2>2. CASE t \notin Select
    BY <1>2, <1>3, <2>2 DEF Start
  <2> QED
    BY <2>1, <2>2
<1>4. ASSUME NEW n \in Node, Hover(n) PROVE Apart' /\ Values'
  BY <1>2, <1>4 DEF Hover, nodes, server
<1>5. CASE Leave
  BY <1>2, <1>5 DEF Leave, nodes, server
<1>6. CASE Edit
  BY <1>3, <1>6 DEF Edit, nodes, server
<1>7. ASSUME NEW t \in AddControl, Add(t) PROVE Apart' /\ Values'
  BY <1>2, <1>3, <1>7 DEF Add, nodes, server
<1>8. CASE Remove
  <2>1. /\ Send("remove", buttons, 0, IF page[buttons] = "shown" THEN object[buttons] ELSE None, None)
        /\ buttons # None /\ UNCHANGED <<page, object, store>>
        /\ page[buttons] = "shown" => ~Outstanding({"set", "remove"}, buttons)
    BY <1>8 DEF Remove, Undisturbed, nodes
  <2>2. PICK q : /\ requests' = requests \cup {q} /\ q.kind = "remove" /\ q.target = buttons /\ q.result = "none"
                 /\ q.old = IF page[buttons] = "shown" THEN object[buttons] ELSE None
    BY <1>1, <2>1, Sent
  <2>3. buttons \in Node /\ page[buttons] \in {"shown", "removed"}
    BY <1>1, <2>1, TypeParts, Buttons DEF BirthInv, Born, PageTypes
  <2>4. \A r : r.result \in {"true", "html"} => (r \in requests' <=> r \in requests)
    BY <2>2
  <2>5. page[buttons] = "removed" \/ \A r \in requests : r.target = buttons => r.kind \notin {"set", "remove"}
    BY <2>1, <2>3 DEF Outstanding
  <2> QED
    BY <1>1, <2>1, <2>2, <2>3, <2>4, <2>5, ValuesKept, ApartSent
<1>9. CASE Escape
  BY <1>2, <1>9 DEF Escape, nodes, server
<1>10. ASSUME NEW t \in Target, Rendered(t) PROVE Apart' /\ Values'
  BY <1>2, <1>10 DEF Rendered, nodes, server
<1>11. ASSUME NEW t \in Target, Cancel(t) PROVE Apart' /\ Values'
  BY <1>2, <1>11 DEF Cancel, nodes, server
<1>12. ASSUME NEW t \in Target, NEW v \in Value, Submit(t, v) PROVE Apart' /\ Values'
  <2>1. form[t] = "open" /\ UNCHANGED <<page, object, store>> /\ ~Outstanding({"remove"}, t)
    BY <1>12 DEF Submit, MaySubmit, Undisturbed, nodes
  <2>2. PICK q : requests' = requests \cup {q} /\ q.kind = "set" /\ q.target = t /\ q.result = "none"
    BY <1>1, <1>12, Sent DEF Submit
  <2>3. t \in Node => page[t] = "shown"
    BY <1>1, <2>1 DEF FormInv
  <2>4. \A r \in requests : r.target = t => r.kind \notin {"set", "remove"}
    BY <1>1, <2>1, <2>3 DEF Outstanding, FormInv
  <2>5. \A r : r.result \in {"true", "html"} => (r \in requests' <=> r \in requests)
    BY <2>2
  <2> QED
    BY <1>1, <2>1, <2>2, <2>3, <2>4, <2>5, ValuesKept, ApartSent
<1>13. ASSUME NEW r \in requests, ServeRequest(r) PROVE Apart' /\ Values'
  BY <1>1, <1>13, StoreServed
<1>14. ASSUME NEW r \in requests, Answer(r) PROVE Apart' /\ Values'
  BY <1>1, <1>14, StoreAnswer
<1>15. ASSUME NEW r \in requests, LoseAnswer(r) PROVE FALSE
  BY <1>15 DEF LoseAnswer, Undisturbed
<1>16. CASE UNCHANGED vars
  BY <1>2, <1>16 DEF vars
<1> QED
  BY <1>4, <1>5, <1>6, <1>7, <1>8, <1>9, <1>10, <1>11, <1>12, <1>13, <1>14, <1>15, <1>16 DEF Next

\* When every answer is there the page shows the values of the model, unless
\* one of the four disturbances happened, for any page and any interleaving.
THEOREM PageAgrees == Spec => []PageAgreesWithStore
<1>1. Init => StoreInv
  BY StoreInit
<1>2. Inv /\ StoreInv /\ [Next]_vars => StoreInv'
  BY StoreStep
<1>3. Spec => []StoreInv
  BY <1>1, <1>2, Invariance, PTL DEF Spec
<1>4. Inv /\ StoreInv => PageAgreesWithStore
  <2> SUFFICES ASSUME Inv, Apart, Values, requests = {}
               PROVE  store = {object[n] : n \in {k \in Node : page[k] = "shown"}}
    BY DEF StoreInv, Undisturbed, PageAgreesWithStore
  <2>1. store \subseteq Value /\ \A n \in Node : object[n] \in Value \cup {None} /\ n \in Target
    BY DEF Inv, TypeInv, TypeOK, Target
  <2>2. \A t, v : Holds(t, v) <=> t \in Node /\ page[t] = "shown" /\ v = object[t]
    BY DEF Holds, Vanishes
  <2> QED
    BY <2>1, <2>2 DEF Values
<1> QED
  BY <1>3, <1>4, Invariance, PTL
=============================================================================
