------------------------ MODULE LiftLifecycleProofs ------------------------
(***************************************************************************)
(* Proofs about LiftLifecycle for any requests, bundles and bounds: types, *)
(* one boot for all requests, and no more shutdowns than boots.            *)
(***************************************************************************)
EXTENDS LiftLifecycle, SequenceTheorems, FiniteSetTheorems, TLAPS

-----------------------------------------------------------------------------
(* The inductive invariant *)

\* A request holds the monitor until Lift has booted.
MonitorInv ==
  /\ \A r, q \in Request : pc[r] \in BootSteps /\ pc[q] \in BootSteps => r = q
  /\ booted => doneBoot /\ ~Booting
  /\ doneBoot => booted \/ \E r \in Request : pc[r] = "booted"
  /\ \A r \in Request : pc[r] = "serve" => booted
  /\ \A r \in Request : pc[r] = "booted" => doneBoot
  /\ \A r \in Request : pc[r] = "mark" => toBoot # <<>>

\* An attempt to initialize has its tracker, but not yet its context provider.
Started == \E r \in Request : pc[r] \in BootSteps \ {"track"}
Registering == \E r \in Request : pc[r] \in {"open", "snapshot", "boot", "mark"}

\* Every attempt registers one provider at most.
ProviderInv ==
  /\ services <= trackers /\ (Registering => services < trackers)
  /\ registered => services # 0

\* As long as no attempt has failed, there is one, which boots each bundle of
\* its list once.
AttemptInv ==
  /\ trackers <= 1
  /\ ~booted /\ ~Started => trackers = 0
  /\ trackers = 0 => \A b \in Bundle : boots[b] = 0
  /\ registered => ~Registering
  /\ services = IF registered THEN 1 ELSE 0
  /\ \A b \in Bundle : boots[b] <= 1
  /\ \A i, j \in DOMAIN toBoot : toBoot[i] = toBoot[j] => i = j
  /\ \A r \in Request : pc[r] \in {"open", "snapshot"} => \A b \in Bundle : boots[b] = 0
  /\ \A r \in Request : pc[r] = "boot" => \A i \in DOMAIN toBoot : boots[toBoot[i]] = 0
  /\ \A r \in Request : pc[r] = "mark" => \A i \in DOMAIN toBoot : i > 1 => boots[toBoot[i]] = 0

\* The threads that close trackers.
Closer == {"deployer", "framework"}

\* A tracker that has not been opened yet.
Fresh(t) ==
  /\ t \notin open /\ tracked[t] = {} /\ config[t] = {}
  /\ \A p \in Closer, b \in Bundle : <<t, b>> \notin removed[p]

Opening == \E r \in Request : pc[r] = "open"

\* The last tracker is the one that is opened next, and it is empty till then.
FreshInv ==
  /\ bundleTracker \in {NoTracker, trackers}
  /\ \A t \in Tracker : t > trackers => Fresh(t)
  /\ Opening => \A t \in Tracker : t = trackers => Fresh(t)

\* A bundle of a tracker is tracked by it, or untracked next by one thread,
\* which has closed the tracker.
PlaceInv ==
  \A t \in Tracker, b \in Bundle :
    /\ \A p \in Closer : <<t, b>> \in removed[p] => t \notin open /\ b \notin tracked[t]
    /\ ~(<<t, b>> \in removed["deployer"] /\ <<t, b>> \in removed["framework"])

Placed(t, b) == b \in tracked[t] \/ \E p \in Closer : <<t, b>> \in removed[p]

\* The trackers whose LiftBundleConfig of a bundle is booted and not removed yet.
Live(b) == {t \in Tracker : b \in config[t] /\ Placed(t, b)}

\* A module is booted, but its configuration not marked yet.
Marking(b) == \E r \in Request : pc[r] = "mark" /\ b = Head(toBoot)
Marks(b) == IF Marking(b) THEN 1 ELSE 0

\* What can still be shut down has been booted.
CountInv == \A b \in Bundle : shutdowns[b] + Cardinality(Live(b)) + Marks(b) <= boots[b]

-----------------------------------------------------------------------------
(* Types *)

StateTypes ==
  /\ present \subseteq Bundle /\ system \in {"active", "stopping"} /\ phase \in Phase
  /\ booted \in BOOLEAN /\ doneBoot \in BOOLEAN /\ rebooting \in BOOLEAN
  /\ registered \in BOOLEAN /\ failed \in BOOLEAN

TrackerTypes ==
  /\ trackers \in 0 .. MaxTrackers /\ bundleTracker \in 0 .. trackers
  /\ open \subseteq 1 .. trackers
  /\ tracked \in [Tracker -> SUBSET Bundle] /\ config \in [Tracker -> SUBSET Bundle]
  /\ siteMap \subseteq Bundle /\ services \in 0 .. MaxTrackers

RequestTypes ==
  pc \in [Request -> {"idle", "lock", "serve"} \cup BootSteps] /\ toBoot \in Seq(Bundle) /\ renewed \subseteq Bundle

ThreadTypes ==
  /\ deployer \in Change \cup {NoChange} /\ notify \subseteq Tracker
  /\ removed \in [{"deployer", "framework"} -> SUBSET (Tracker \X Bundle)]

CountTypes == boots \in [Bundle -> Nat] /\ shutdowns \in [Bundle -> Nat]

Types == StateTypes /\ TrackerTypes /\ RequestTypes /\ ThreadTypes /\ CountTypes

\* The types by what they are about.
LEMMA TypeParts == TypeOK <=> Types
PROOF BY DEF TypeOK, Types, StateTypes, TrackerTypes, RequestTypes, ThreadTypes, CountTypes

\* The trackers there are have numbers up to the bound.
LEMMA TrackerNumbers ==
  ASSUME TrackerTypes
  PROVE  /\ trackers \in Nat /\ MaxTrackers \in Nat /\ open \subseteq Tracker
         /\ bundleTracker \in Tracker \cup {NoTracker} /\ (bundleTracker # NoTracker => bundleTracker \in Tracker)
         /\ (trackers # 0 => trackers \in Tracker)
PROOF BY BoundsAreNumbers DEF TrackerTypes, Tracker, NoTracker

\* The fields of a change.
LEMMA ChangeFields ==
  ASSUME ThreadTypes, deployer # NoChange
  PROVE  /\ deployer.bundle \in Bundle /\ deployer.tracker \in Tracker \cup {NoTracker}
         /\ deployer.kind \in {"add", "track", "remove"}
         /\ \A k \in {"add", "track", "remove"}, t \in Tracker \cup {NoTracker} :
              [deployer EXCEPT !.kind = k, !.tracker = t] \in Change
PROOF BY DEF ThreadTypes, Change

\* The lists that a set of bundles is booted by: every one once.
LEMMA Arrangement ==
  ASSUME NEW S \in SUBSET Bundle, NEW bs \in SetToSeqs(S)
  PROVE  /\ bs \in Seq(Bundle)
         /\ \A i \in DOMAIN bs : bs[i] \in S
         /\ \A i, j \in DOMAIN bs : bs[i] = bs[j] => i = j
<1>1. IsFiniteSet(S) /\ Cardinality(S) \in Nat
  BY BundlesAreFinite, FS_Subset, FS_CardinalityType
<1>2. bs \in [1 .. Cardinality(S) -> S] /\ \A i, j \in 1 .. Cardinality(S) : bs[i] = bs[j] => i = j
  BY DEF SetToSeqs
<1> QED
  BY <1>1, <1>2

\* A list without its head.
LEMMA Rest ==
  ASSUME RequestTypes, toBoot # <<>>
  PROVE  /\ Head(toBoot) \in Bundle /\ Tail(toBoot) \in Seq(Bundle) /\ Head(toBoot) = toBoot[1]
         /\ Len(toBoot) \in Nat \ {0} /\ DOMAIN toBoot = 1 .. Len(toBoot)
         /\ DOMAIN Tail(toBoot) = 1 .. (Len(toBoot) - 1)
         /\ \A i \in DOMAIN Tail(toBoot) : Tail(toBoot)[i] = toBoot[i + 1]
<1>1. toBoot \in Seq(Bundle)
  BY DEF RequestTypes
<1> QED
  BY <1>1, EmptySeq, HeadTailProperties, LenProperties

\* A thread that closes a tracker has its bundles to untrack.
LEMMA CloseType ==
  ASSUME TrackerTypes, ThreadTypes, NEW p \in {"deployer", "framework"}, NEW t \in Tracker,
         NEW bs \in SUBSET Bundle, Close(p, t, bs)
  PROVE  /\ open' \subseteq 1 .. trackers /\ tracked' \in [Tracker -> SUBSET Bundle]
         /\ removed' \in [{"deployer", "framework"} -> SUBSET (Tracker \X Bundle)]
<1>1. {t} \X bs \in SUBSET (Tracker \X Bundle)
  OBVIOUS
<1> QED
  BY <1>1 DEF Close, TrackerTypes, ThreadTypes

\* A configuration is shut down, if it is marked.
LEMMA ShutdownType ==
  ASSUME CountTypes, NEW t, NEW b \in Bundle, Shutdown(t, b)
  PROVE  shutdowns' \in [Bundle -> Nat]
PROOF BY DEF CountTypes, Shutdown

\* The state after the classes were loaded has the types.
LEMMA TypeInit == Init => Types
<1> SUFFICES ASSUME Init PROVE Types
  OBVIOUS
<1>1. StateTypes
  BY DEF Init, StateTypes, Phase
<1>2. TrackerTypes
  BY BoundsAreNumbers DEF Init, TrackerTypes, NoTracker
<1>3. RequestTypes /\ ThreadTypes /\ CountTypes
  BY DEF Init, RequestTypes, ThreadTypes, CountTypes
<1> QED
  BY <1>1, <1>2, <1>3 DEF Types

\* The steps of a request keep the types.
LEMMA RequestType ==
  ASSUME Types, MonitorInv, ProviderInv, NEW r \in Request,
         Arrive(r) \/ BootStep(r) \/ BootFails(r) \/ ContextFails(r) \/ Serve(r)
  PROVE  Types'
<1> USE DEF outside, lift, manager, tracking, changes, history, queue, At, Go, Types
<1>1. ASSUME NEW s \in {"idle", "lock", "serve"} \cup BootSteps, Go(r, s), toBoot' \in Seq(Bundle), renewed' \subseteq Bundle PROVE RequestTypes'
  BY <1>1 DEF RequestTypes
<1>2. toBoot \in Seq(Bundle) /\ renewed \subseteq Bundle
  BY DEF RequestTypes
<1>3. ASSUME UNCHANGED <<outside, lift, failed, registered>> PROVE StateTypes' /\ ThreadTypes'
  BY <1>3 DEF StateTypes, ThreadTypes
<1>4. ASSUME UNCHANGED <<manager, tracking, config>> PROVE TrackerTypes'
  BY <1>4 DEF TrackerTypes
<1>5. ASSUME UNCHANGED <<boots, shutdowns>> PROVE CountTypes'
  BY <1>5 DEF CountTypes
<1>6. CASE Arrive(r)
  BY <1>1, <1>2, <1>3, <1>4, <1>5, <1>6 DEF Arrive
<1>7. CASE Enter(r)
  BY <1>1, <1>2, <1>3, <1>4, <1>5, <1>7 DEF Enter, BootSteps
<1>8. CASE Serve(r)
  BY <1>1, <1>2, <1>3, <1>4, <1>5, <1>8 DEF Serve
<1>9. ASSUME Fail(r) PROVE Types'
  <2>1. StateTypes' /\ ThreadTypes' /\ CountTypes'
    BY <1>5, <1>9 DEF Fail, StateTypes, ThreadTypes
  <2>2. RequestTypes'
    BY <1>9, EmptySeq DEF Fail, RequestTypes
  <2>3. TrackerTypes'
    BY <1>4, <1>9 DEF Fail
  <2> QED
    BY <2>1, <2>2, <2>3
<1>10. CASE ContextFails(r) \/ BootFails(r)
  BY <1>9, <1>10 DEF ContextFails, BootFails
<1>11. CASE Track(r)
  <2>1. TrackerTypes'
    BY <1>11, BoundsAreNumbers DEF Track, TrackerTypes
  <2>2. StateTypes' /\ ThreadTypes'
    BY <1>11 DEF Track, StateTypes, ThreadTypes
  <2> QED
    BY <1>1, <1>2, <1>5, <1>11, <2>1, <2>2 DEF Track, BootSteps
<1>12. CASE Open(r) /\ bundleTracker # NoTracker
  <2>1. bundleTracker \in 1 .. trackers /\ bundleTracker \in Tracker /\ present \subseteq Bundle
    BY <1>12, TrackerNumbers DEF TrackerTypes, StateTypes, NoTracker
  <2>2. TrackerTypes'
    BY <1>12, <2>1 DEF Open, TrackerTypes
  <2> QED
    BY <1>1, <1>2, <1>3, <1>5, <1>12, <2>2 DEF Open, BootSteps
<1>13. CASE Open(r) /\ bundleTracker = NoTracker
  BY <1>9, <1>13 DEF Open
<1>14. CASE Snapshot(r)
  <2>1. siteMap' \subseteq Bundle
    BY <1>14, TrackerNumbers DEF Snapshot, TrackerTypes
  <2>2. PICK bs \in SetToSeqs(siteMap') : toBoot' = bs
    BY <1>14 DEF Snapshot
  <2>3. toBoot' \in Seq(Bundle)
    BY <2>1, <2>2, Arrangement
  <2>4. TrackerTypes'
    BY <1>14, <2>1 DEF Snapshot, TrackerTypes
  <2> QED
    BY <1>1, <1>2, <1>3, <1>5, <1>14, <2>3, <2>4 DEF Snapshot, BootSteps
<1>15. CASE BootBundle(r)
  <2>1. Head(toBoot) \in Bundle /\ Tail(toBoot) \in Seq(Bundle)
    BY <1>15, Rest DEF BootBundle
  <2>2. UNCHANGED <<outside, lift, manager, tracking, config, renewed, shutdowns, failed>>
    BY <1>15 DEF BootBundle
  <2>3. CASE Go(r, "mark") /\ boots' = [boots EXCEPT ![Head(toBoot)] = @ + 1] /\ UNCHANGED toBoot
    <3>1. CountTypes'
      BY <2>1, <2>2, <2>3 DEF CountTypes
    <3>2. RequestTypes'
      BY <1>1, <1>2, <2>2, <2>3 DEF BootSteps
    <3> QED
      BY <1>3, <1>4, <2>2, <3>1, <3>2
  <2>4. CASE toBoot' = Tail(toBoot) /\ UNCHANGED <<pc, boots>>
    <3>1. RequestTypes'
      BY <1>2, <2>1, <2>2, <2>4 DEF RequestTypes
    <3> QED
      BY <1>3, <1>4, <1>5, <2>2, <2>4, <3>1
  <2> QED
    BY <1>15, <2>3, <2>4 DEF BootBundle
<1>16. CASE MarkBooted(r) \/ MutatorFails(r)
  <2>1. Head(toBoot) \in Bundle /\ Tail(toBoot) \in Seq(Bundle)
    BY <1>16, Rest DEF MarkBooted, MutatorFails, MonitorInv
  <2>2. TrackerTypes'
    BY <1>4, <1>16, <2>1 DEF MarkBooted, MutatorFails, TrackerTypes
  <2> QED
    BY <1>1, <1>2, <1>3, <1>5, <1>16, <2>1, <2>2 DEF MarkBooted, MutatorFails, BootSteps
<1>17. CASE Register(r)
  <2>1. services < trackers
    BY <1>17 DEF Register, ProviderInv, Registering
  <2>2. TrackerTypes'
    BY <1>17, <2>1, BoundsAreNumbers DEF Register, TrackerTypes
  <2>3. StateTypes' /\ ThreadTypes'
    BY <1>17 DEF Register, StateTypes, ThreadTypes
  <2> QED
    BY <1>1, <1>2, <1>5, <1>17, <2>2, <2>3 DEF Register, BootSteps
<1>18. CASE BootLift(r)
  <2>1. StateTypes' /\ ThreadTypes'
    BY <1>18 DEF BootLift, StateTypes, ThreadTypes
  <2> QED
    BY <1>1, <1>2, <1>4, <1>5, <1>18, <2>1 DEF BootLift, BootSteps
<1>19. CASE SetBooted(r)
  <2>1. StateTypes' /\ ThreadTypes'
    BY <1>19 DEF SetBooted, StateTypes, ThreadTypes
  <2> QED
    BY <1>1, <1>2, <1>4, <1>5, <1>19, <2>1 DEF SetBooted, BootSteps
<1> QED
  BY <1>6, <1>7, <1>8, <1>10, <1>11, <1>12, <1>13, <1>14, <1>15, <1>16, <1>17, <1>18, <1>19 DEF BootStep

\* The steps of the deployer keep the types.
LEMMA DeployerType ==
  ASSUME Types, DeployerStep \/ Untrack("framework")
  PROVE  Types'
<1> USE DEF lift, manager, tracking, deployed, Types
<1>1. ASSUME UNCHANGED <<deployed, renewed>> PROVE RequestTypes'
  BY <1>1 DEF RequestTypes
<1>2. ASSUME UNCHANGED deployed, rebooting' \in BOOLEAN PROVE StateTypes'
  BY <1>2 DEF StateTypes
<1>3. ASSUME UNCHANGED <<deployed, open, tracked, config>> PROVE TrackerTypes'
  BY <1>3 DEF TrackerTypes
<1>4. ASSUME UNCHANGED <<deployed, shutdowns>> PROVE CountTypes'
  BY <1>4 DEF CountTypes
<1>5. ASSUME UNCHANGED <<removed, deployer>>, notify' \subseteq notify PROVE ThreadTypes'
  BY <1>5 DEF ThreadTypes
<1>6. rebooting \in BOOLEAN /\ open \subseteq Tracker /\ \A t \in Tracker : tracked[t] \subseteq Bundle
  BY TrackerNumbers DEF StateTypes, TrackerTypes
<1>7. ASSUME NEW t \in Tracker, AddingBundle(t) PROVE Types'
  <2>1. CASE ~doneBoot /\ t \in open
    <3>1. /\ deployer' = [deployer EXCEPT !.kind = "track", !.tracker = t] /\ deployer # NoChange
          /\ UNCHANGED <<notify, tracking, removed, rebooting, deployed, config, renewed, shutdowns>>
      BY <1>7, <2>1 DEF AddingBundle, Calls
    <3>2. ThreadTypes'
      BY <3>1, ChangeFields DEF ThreadTypes
    <3> QED
      BY <1>1, <1>2, <1>3, <1>4, <1>6, <3>1, <3>2
  <2>2. CASE doneBoot /\ t \in open /\ system = "active"
    <3>1. /\ Close("deployer", t, tracked[t]) /\ rebooting' = (rebooting \/ tracked[t] = {})
          /\ UNCHANGED <<deployed, config, renewed, shutdowns, deployer>> /\ notify' \subseteq notify
      BY <1>7, <2>2 DEF AddingBundle, CloseAndReboot
    <3>2. /\ open' \subseteq 1 .. trackers /\ tracked' \in [Tracker -> SUBSET Bundle]
          /\ removed' \in [{"deployer", "framework"} -> SUBSET (Tracker \X Bundle)]
      BY <1>6, <3>1, CloseType
    <3>3. TrackerTypes' /\ ThreadTypes'
      BY <3>1, <3>2 DEF TrackerTypes, ThreadTypes
    <3> QED
      BY <1>1, <1>2, <1>4, <3>1, <3>2, <3>3
  <2>3. CASE t \notin open \/ (doneBoot /\ system # "active")
    BY <1>1, <1>2, <1>3, <1>4, <1>5, <1>6, <1>7, <2>3 DEF AddingBundle
  <2> QED
    BY <1>7, <2>1, <2>2, <2>3 DEF AddingBundle
<1>8. ASSUME NEW t \in Tracker, RemovedBundle(t) PROVE Types'
  <2> DEFINE b == deployer.bundle
  <2>1. /\ b \in Bundle /\ UNCHANGED <<deployed, config, renewed, deployer>> /\ notify' \subseteq notify
    BY <1>8, ChangeFields DEF RemovedBundle, Calls
  <2>2. CASE b \in tracked[t] /\ system = "active"
    <3>1. /\ Close("deployer", t, tracked[t] \ {b}) /\ rebooting' \in BOOLEAN /\ Shutdown(t, b)
      BY <1>8, <2>2 DEF RemovedBundle, CloseAndReboot
    <3>2. /\ open' \subseteq 1 .. trackers /\ tracked' \in [Tracker -> SUBSET Bundle]
          /\ removed' \in [{"deployer", "framework"} -> SUBSET (Tracker \X Bundle)]
      BY <1>6, <3>1, CloseType
    <3>3. TrackerTypes' /\ ThreadTypes'
      BY <2>1, <3>2 DEF TrackerTypes, ThreadTypes
    <3>4. CountTypes'
      BY <2>1, <3>1, ShutdownType DEF CountTypes
    <3> QED
      BY <1>1, <1>2, <2>1, <3>1, <3>2, <3>3, <3>4
  <2>3. CASE b \in tracked[t] /\ system # "active"
    <3>1. /\ tracked' = [tracked EXCEPT ![t] = @ \ {b}] /\ Shutdown(t, b)
          /\ UNCHANGED <<open, removed, rebooting>>
      BY <1>8, <2>3 DEF RemovedBundle
    <3>2. TrackerTypes'
      BY <2>1, <3>1 DEF TrackerTypes
    <3>3. CountTypes'
      BY <2>1, <3>1, ShutdownType DEF CountTypes
    <3> QED
      BY <1>1, <1>2, <1>5, <1>6, <2>1, <3>1, <3>2, <3>3
  <2>4. CASE b \notin tracked[t]
    BY <1>1, <1>2, <1>3, <1>4, <1>5, <1>6, <1>8, <2>1, <2>4 DEF RemovedBundle
  <2> QED
    BY <2>2, <2>3, <2>4
<1>9. CASE TrackBundle
  <2>1. deployer # NoChange /\ deployer' = [deployer EXCEPT !.kind = "add", !.tracker = NoTracker]
    BY <1>9 DEF TrackBundle
  <2>2. deployer' \in Change /\ deployer.bundle \in Bundle
    BY <2>1, ChangeFields
  <2>3. ThreadTypes'
    BY <1>9, <2>2 DEF TrackBundle, ThreadTypes
  <2>4. TrackerTypes'
    BY <1>9, <2>2 DEF TrackBundle, TrackerTypes
  <2>5. rebooting' \in BOOLEAN
    BY <1>6, <1>9 DEF TrackBundle
  <2>6. RequestTypes'
    BY <1>9, <2>2 DEF TrackBundle, RequestTypes
  <2> QED
    BY <1>2, <1>4, <1>6, <1>9, <2>3, <2>4, <2>5, <2>6 DEF TrackBundle
<1>10. ASSUME NEW p \in {"deployer", "framework"}, Untrack(p) PROVE Types'
  <2>1. PICK tb \in removed[p] : Shutdown(tb[1], tb[2]) /\ removed' = [removed EXCEPT ![p] = @ \ {tb}]
    BY <1>10 DEF Untrack
  <2>2. tb[2] \in Bundle
    BY DEF ThreadTypes
  <2>3. CountTypes'
    BY <1>10, <2>1, <2>2, ShutdownType DEF Untrack, CountTypes
  <2>4. ThreadTypes'
    BY <1>10, <2>1 DEF Untrack, ThreadTypes
  <2> QED
    BY <1>1, <1>2, <1>3, <1>6, <1>10, <2>3, <2>4 DEF Untrack
<1>11. CASE Deployed
  <2>1. ThreadTypes'
    BY <1>11 DEF Deployed, ThreadTypes
  <2> QED
    BY <1>1, <1>2, <1>3, <1>4, <1>6, <1>11, <2>1 DEF Deployed
<1> QED
  BY <1>7, <1>8, <1>9, <1>10, <1>11 DEF DeployerStep

\* What changes outside, and the end of the components, keep them too.
LEMMA OutsideType ==
  ASSUME Types, ProviderInv,
         (\E b \in Bundle : Deploy("add", b) \/ Deploy("remove", b)) \/ SystemStops \/ Stop \/ Closed \/ Unregister
  PROVE  Types'
<1> USE DEF lift, manager, tracking, changes, history, queue, Types
<1>1. ASSUME NEW b \in Bundle, NEW kind \in {"add", "remove"}, Deploy(kind, b) PROVE Types'
  <2>1. StateTypes'
    BY <1>1 DEF Deploy, StateTypes
  <2>2. deployer' \in Change /\ notify' \subseteq Tracker
    BY <1>1, TrackerNumbers DEF Deploy, Change
  <2> QED
    BY <1>1, <2>1, <2>2 DEF Deploy, TrackerTypes, RequestTypes, ThreadTypes, CountTypes
<1>2. CASE SystemStops
  BY <1>2 DEF SystemStops, StateTypes, TrackerTypes, RequestTypes, ThreadTypes, CountTypes
<1>3. CASE Stop
  <2>1. UNCHANGED <<present, system, rebooting, changes, lift, manager, config, pc, queue, history>> /\ phase' \in Phase
    BY <1>3 DEF Stop, Phase
  <2>2. CASE bundleTracker \in open
    <3>1. Close("framework", bundleTracker, tracked[bundleTracker]) /\ bundleTracker \in Tracker
      BY <1>3, <2>2, TrackerNumbers DEF Stop
    <3>2. tracked[bundleTracker] \subseteq Bundle
      BY <3>1 DEF TrackerTypes, StateTypes
    <3>3. /\ open' \subseteq 1 .. trackers /\ tracked' \in [Tracker -> SUBSET Bundle]
          /\ removed' \in [{"deployer", "framework"} -> SUBSET (Tracker \X Bundle)]
      BY <3>1, <3>2, CloseType
    <3> QED
      BY <2>1, <3>3 DEF StateTypes, TrackerTypes, RequestTypes, ThreadTypes, CountTypes
  <2>3. CASE bundleTracker \notin open
    <3>1. UNCHANGED <<tracking, removed>>
      BY <1>3, <2>3 DEF Stop
    <3> QED
      BY <2>1, <3>1 DEF StateTypes, TrackerTypes, RequestTypes, ThreadTypes, CountTypes
  <2> QED
    BY <2>2, <2>3
<1>4. CASE Closed
  BY <1>4, TrackerNumbers DEF Closed, Phase, NoTracker, StateTypes, TrackerTypes, RequestTypes, ThreadTypes, CountTypes
<1>5. CASE Unregister
  <2>1. registered => services \in 1 .. MaxTrackers
    BY DEF ProviderInv, TrackerTypes
  <2>2. services' \in 0 .. MaxTrackers
    BY <1>5, <2>1, BoundsAreNumbers DEF Unregister, TrackerTypes
  <2>3. phase' \in Phase
    BY <1>5 DEF Unregister, Phase
  <2> QED
    BY <1>5, <2>2, <2>3 DEF Unregister, StateTypes, TrackerTypes, RequestTypes, ThreadTypes, CountTypes
<1> QED
  BY <1>1, <1>2, <1>3, <1>4, <1>5

\* Every step keeps the types.
LEMMA TypeStep == Types /\ MonitorInv /\ ProviderInv /\ [Next]_vars => Types'
<1>1. ASSUME Types, UNCHANGED vars PROVE Types'
  BY <1>1 DEF vars, Types, StateTypes, TrackerTypes, RequestTypes, ThreadTypes, CountTypes
<1> QED
  BY <1>1, RequestType, DeployerType, OutsideType, BundlesAreFinite DEF Next, StopStep

-----------------------------------------------------------------------------
(* The monitor and the context providers *)

\* Only the requests, the list of bundles and the two flags matter.
LEMMA MonitorFrame ==
  ASSUME MonitorInv, UNCHANGED <<lift, pc, toBoot>>
  PROVE  MonitorInv'
PROOF BY DEF MonitorInv, Booting, lift

\* One request boots, and it leaves the monitor with booted, or by failing.
LEMMA MonitorStep == Types /\ MonitorInv /\ [Next]_vars => MonitorInv'
<1> SUFFICES ASSUME Types, MonitorInv, [Next]_vars PROVE MonitorInv'
  OBVIOUS
<1> USE DEF lift, queue, At, Go
<1>1. pc \in [Request -> {"idle", "lock", "serve"} \cup BootSteps]
  BY DEF Types, RequestTypes
<1>2. ASSUME NEW r \in Request, NEW s, Go(r, s)
      PROVE  \A q \in Request : pc'[q] = IF q = r THEN s ELSE pc[q]
  BY <1>1, <1>2
<1>3. ASSUME NEW r \in Request, Arrive(r) \/ Serve(r) PROVE MonitorInv'
  <2>1. UNCHANGED <<booted, doneBoot, toBoot>>
    BY <1>3 DEF Arrive, Serve
  <2>2. PICK s \in {"idle", "lock", "serve"} : Go(r, s) /\ (s = "serve" => booted) /\ pc[r] \notin BootSteps
    BY <1>3 DEF Arrive, Serve, BootSteps
  <2> QED
    BY <1>2, <2>1, <2>2 DEF MonitorInv, Booting, BootSteps
<1>4. ASSUME NEW r \in Request, Enter(r) PROVE MonitorInv'
  <2>1. UNCHANGED <<booted, doneBoot, toBoot>> /\ ~Booting
    BY <1>4 DEF Enter
  <2>2. PICK s \in {"serve", "track"} : Go(r, s) /\ (s = "serve" <=> booted)
    BY <1>4 DEF Enter
  <2> QED
    BY <1>2, <2>1, <2>2 DEF MonitorInv, Booting, BootSteps
<1>5. ASSUME NEW r \in Request, NEW s \in BootSteps, Go(r, s), pc[r] \in BootSteps \ {"booted"},
             UNCHANGED booted, s = "mark" => toBoot' # <<>>, IF s = "booted" THEN doneBoot' ELSE UNCHANGED doneBoot
      PROVE  MonitorInv'
  <2>1. \A q \in Request : q # r => pc[q] \notin BootSteps
    BY <1>5 DEF MonitorInv
  <2>2. pc'[r] = s /\ \A q \in Request : q # r => pc'[q] = pc[q]
    BY <1>1, <1>5
  <2>3. ~booted /\ ~doneBoot /\ \A q \in Request : pc[q] # "booted" /\ pc[q] # "serve"
    BY <1>5, <2>1 DEF MonitorInv, Booting, BootSteps
  <2>4. \A q \in Request : pc'[q] \in BootSteps => q = r
    BY <2>1, <2>2
  <2>5. ~booted' /\ \A q \in Request : pc'[q] \in {"serve", "booted", "mark"} => q = r
    BY <1>5, <2>1, <2>2, <2>3 DEF BootSteps
  <2> QED
    BY <1>5, <2>2, <2>3, <2>4, <2>5 DEF MonitorInv, BootSteps
<1>6. ASSUME NEW r \in Request, Track(r) \/ Snapshot(r) \/ MarkBooted(r) \/ MutatorFails(r) \/ Register(r) \/ BootLift(r) PROVE MonitorInv'
  BY <1>5, <1>6 DEF Track, Snapshot, MarkBooted, MutatorFails, Register, BootLift, BootSteps
<1>7. ASSUME NEW r \in Request, Fail(r), pc[r] \in BootSteps \ {"booted"} PROVE MonitorInv'
  <2>1. \A q \in Request : q # r => pc[q] \notin BootSteps
    BY <1>7 DEF MonitorInv
  <2>2. ~booted /\ ~doneBoot /\ \A q \in Request : pc[q] # "serve"
    BY <1>7, <2>1 DEF MonitorInv, Booting, BootSteps
  <2>3. \A q \in Request : pc'[q] \notin BootSteps /\ pc'[q] # "serve"
    BY <1>1, <1>7, <2>1, <2>2 DEF Fail, BootSteps
  <2> QED
    BY <1>7, <2>2, <2>3 DEF Fail, MonitorInv, BootSteps
<1>8. ASSUME NEW r \in Request, BootFails(r) \/ ContextFails(r) PROVE MonitorInv'
  BY <1>7, <1>8 DEF BootFails, ContextFails, BootSteps
<1>9. ASSUME NEW r \in Request, Open(r) PROVE MonitorInv'
  BY <1>5, <1>7, <1>9 DEF Open, BootSteps
<1>10. ASSUME NEW r \in Request, BootBundle(r) PROVE MonitorInv'
  <2>1. CASE Go(r, "mark") /\ UNCHANGED toBoot
    BY <1>5, <1>10, <2>1 DEF BootBundle, BootSteps
  <2>2. CASE toBoot' = Tail(toBoot) /\ UNCHANGED pc
    <3>1. \A q \in Request : pc[q] # "mark"
      BY <1>10 DEF BootBundle, MonitorInv, BootSteps
    <3> QED
      BY <1>10, <2>2, <3>1 DEF BootBundle, MonitorInv, Booting
  <2> QED
    BY <1>10, <2>1, <2>2 DEF BootBundle
<1>11. ASSUME NEW r \in Request, SetBooted(r) PROVE MonitorInv'
  <2>1. pc[r] = "booted" /\ Go(r, "serve") /\ booted' = TRUE /\ UNCHANGED <<doneBoot, toBoot>>
    BY <1>11 DEF SetBooted
  <2>2. doneBoot /\ \A q \in Request : q # r => pc[q] \notin BootSteps
    BY <2>1 DEF MonitorInv, BootSteps
  <2>3. \A q \in Request : pc'[q] \notin BootSteps
    BY <1>1, <2>1, <2>2 DEF BootSteps
  <2> QED
    BY <2>1, <2>2, <2>3 DEF MonitorInv, Booting, BootSteps
<1>12. CASE DeployerStep \/ Untrack("framework")
  <2>1. UNCHANGED deployed
    BY <1>12 DEF DeployerStep, AddingBundle, RemovedBundle, TrackBundle, Untrack, Deployed
  <2> QED
    BY <2>1, MonitorFrame DEF deployed
<1>13. CASE (\E b \in Bundle : Deploy("add", b) \/ Deploy("remove", b)) \/ SystemStops \/ Stop \/ Closed \/ Unregister
  <2>1. UNCHANGED <<lift, pc, toBoot>>
    BY <1>13 DEF Deploy, SystemStops, Stop, Closed, Unregister, queue
  <2> QED
    BY <2>1, MonitorFrame
<1>14. CASE UNCHANGED vars
  BY <1>14, MonitorFrame DEF vars
<1> QED
  BY <1>3, <1>4, <1>6, <1>8, <1>9, <1>10, <1>11, <1>12, <1>13, <1>14, BundlesAreFinite DEF Next, BootStep, StopStep

\* What a step leaves of an attempt: its steps, its tracker and its provider.
LEMMA ProviderFrame ==
  ASSUME ProviderInv, UNCHANGED <<trackers, services, registered>>, Registering' => Registering
  PROVE  ProviderInv'
PROOF BY DEF ProviderInv

\* A provider is registered once in an attempt, and unregistered if there is one.
LEMMA ProviderStep == Types /\ MonitorInv /\ ProviderInv /\ [Next]_vars => ProviderInv'
<1> SUFFICES ASSUME Types, MonitorInv, ProviderInv, [Next]_vars PROVE ProviderInv'
  OBVIOUS
<1> USE DEF manager, queue, At, Go
<1>1. pc \in [Request -> {"idle", "lock", "serve"} \cup BootSteps]
  BY DEF Types, RequestTypes
<1>2. trackers \in Nat /\ services \in Nat /\ registered \in BOOLEAN
  BY BoundsAreNumbers DEF Types, TrackerTypes, StateTypes
<1>3. ASSUME NEW r \in Request, NEW s, Go(r, s), s \in {"open", "snapshot", "boot", "mark"} => Registering
      PROVE  Registering' => Registering
  BY <1>1, <1>3 DEF Registering
<1>4. ASSUME NEW r \in Request,
             Arrive(r) \/ Serve(r) \/ Enter(r) \/ Snapshot(r) \/ MarkBooted(r) \/ MutatorFails(r) \/ BootLift(r) \/ SetBooted(r)
      PROVE  ProviderInv'
  <2>1. UNCHANGED <<trackers, services, registered>>
    BY <1>4 DEF Arrive, Serve, Enter, Snapshot, MarkBooted, MutatorFails, BootLift, SetBooted
  <2>2. PICK s : Go(r, s) /\ (s \in {"open", "snapshot", "boot", "mark"} => Registering)
    BY <1>4 DEF Arrive, Serve, Enter, Snapshot, MarkBooted, MutatorFails, BootLift, SetBooted, Registering
  <2> QED
    BY <1>3, <2>1, <2>2, ProviderFrame
<1>5. ASSUME NEW r \in Request, Fail(r) PROVE ProviderInv'
  BY <1>3, <1>5, ProviderFrame DEF Fail
<1>6. ASSUME NEW r \in Request, BootFails(r) \/ ContextFails(r) PROVE ProviderInv'
  BY <1>5, <1>6 DEF BootFails, ContextFails
<1>7. ASSUME NEW r \in Request, Open(r) PROVE ProviderInv'
  BY <1>3, <1>5, <1>7, ProviderFrame DEF Open, Registering
<1>8. ASSUME NEW r \in Request, BootBundle(r) PROVE ProviderInv'
  <2>1. Registering
    BY <1>8 DEF BootBundle, Registering
  <2> QED
    BY <1>8, <2>1, ProviderFrame DEF BootBundle
<1>9. ASSUME NEW r \in Request, Track(r) PROVE ProviderInv'
  BY <1>2, <1>9 DEF Track, ProviderInv
<1>10. ASSUME NEW r \in Request, Register(r) PROVE ProviderInv'
  <2>1. services < trackers
    BY <1>10 DEF Register, ProviderInv, Registering
  <2>2. ~Registering'
    BY <1>1, <1>10 DEF Register, Registering, MonitorInv, BootSteps
  <2> QED
    BY <1>2, <1>10, <2>1, <2>2 DEF Register, ProviderInv
<1>11. CASE DeployerStep \/ Untrack("framework")
  <2>1. UNCHANGED deployed
    BY <1>11 DEF DeployerStep, AddingBundle, RemovedBundle, TrackBundle, Untrack, Deployed
  <2> QED
    BY <2>1, ProviderFrame DEF deployed, Registering
<1>12. CASE (\E b \in Bundle : Deploy("add", b) \/ Deploy("remove", b)) \/ SystemStops \/ Stop \/ Closed
  <2>1. UNCHANGED <<trackers, services, registered, pc>>
    BY <1>12 DEF Deploy, SystemStops, Stop, Closed, queue
  <2> QED
    BY <2>1, ProviderFrame DEF Registering
<1>13. CASE Unregister
  BY <1>2, <1>13 DEF Unregister, ProviderInv, Registering
<1>14. CASE UNCHANGED vars
  BY <1>14, ProviderFrame DEF vars, Registering
<1> QED
  BY <1>4, <1>6, <1>7, <1>8, <1>9, <1>10, <1>11, <1>12, <1>13, <1>14, BundlesAreFinite DEF Next, BootStep, StopStep

-----------------------------------------------------------------------------
(* The only attempt *)

\* A step of another thread leaves the attempt alone.
LEMMA AttemptFrame ==
  ASSUME AttemptInv, UNCHANGED <<trackers, services, registered, booted, boots, pc, toBoot>>
  PROVE  AttemptInv'
PROOF BY DEF AttemptInv, Started, Registering

\* A failed attempt is remembered.
LEMMA FailedStays == [Next]_vars /\ failed => failed'
PROOF BY DEF Next, BootStep, DeployerStep, StopStep, vars, history, queue, outside, deployed, Arrive, Enter, Serve, Fail, ContextFails, Track, Open,
  Snapshot, BootBundle, BootFails, MarkBooted, MutatorFails, Register, BootLift, SetBooted, Deploy, AddingBundle, RemovedBundle, TrackBundle, Untrack,
  Deployed, SystemStops, Stop, Closed, Unregister

\* The steps of a request that leave the attempt alone, or begin it.
LEMMA AttemptRequest ==
  ASSUME Types, MonitorInv, ProviderInv, AttemptInv, NEW r \in Request,
         Arrive(r) \/ Serve(r) \/ Enter(r) \/ Track(r) \/ SetBooted(r)
  PROVE  AttemptInv'
<1> USE DEF manager, lift, history, queue, At, Go
<1>1. pc \in [Request -> {"idle", "lock", "serve"} \cup BootSteps]
  BY DEF Types, RequestTypes
<1>2. ASSUME NEW q \in Request, pc[q] \in BootSteps PROVE \A p \in Request : p # q => pc[p] \notin BootSteps
  BY <1>2 DEF MonitorInv
<1>3. CASE Arrive(r) \/ Serve(r) \/ Enter(r)
  <2>1. UNCHANGED <<trackers, services, registered, booted, boots, toBoot>>
    BY <1>3 DEF Arrive, Serve, Enter
  <2>2. PICK s \in {"idle", "lock", "serve", "track"} : Go(r, s) /\ pc[r] \in {"idle", "lock", "serve"}
    BY <1>3 DEF Arrive, Serve, Enter
  <2>3. \A q \in Request : pc'[q] = IF q = r THEN s ELSE pc[q]
    BY <1>1, <2>2
  <2>4. \A q \in Request : \A c \in {"open", "snapshot", "boot", "mark", "init", "booted"} : pc'[q] = c <=> pc[q] = c
    BY <2>2, <2>3
  <2>5. (Started' <=> Started) /\ (Registering' <=> Registering)
    BY <2>4 DEF Started, Registering, BootSteps
  <2> QED
    BY <2>1, <2>4, <2>5 DEF AttemptInv
<1>4. CASE Track(r)
  <2>1. ~booted /\ ~Started
    BY <1>2, <1>4 DEF Track, MonitorInv, Booting, Started, BootSteps
  <2>2. /\ trackers = 0 /\ services = 0 /\ ~registered /\ \A b \in Bundle : boots[b] = 0
    BY <2>1 DEF AttemptInv, ProviderInv, Types, TrackerTypes
  <2>3. trackers' = 1 /\ UNCHANGED <<services, registered, booted, boots, toBoot>> /\ pc'[r] = "open"
    BY <1>1, <1>4, <2>2 DEF Track
  <2>4. \A q \in Request : q # r => pc'[q] \notin BootSteps
    BY <1>1, <1>2, <1>4 DEF Track, BootSteps
  <2>5. Started'
    BY <2>3 DEF Started, BootSteps
  <2>6. \A q \in Request : pc'[q] \notin {"boot", "mark"}
    BY <2>3, <2>4 DEF BootSteps
  <2> QED
    BY <2>2, <2>3, <2>5, <2>6 DEF AttemptInv
<1>5. CASE SetBooted(r)
  <2>1. UNCHANGED <<trackers, services, registered, boots, toBoot>> /\ booted' /\ pc[r] = "booted" /\ pc'[r] = "serve"
    BY <1>1, <1>5 DEF SetBooted
  <2>2. \A q \in Request : pc'[q] \notin BootSteps
    BY <1>1, <1>2, <1>5, <2>1 DEF SetBooted, BootSteps
  <2> QED
    BY <2>1, <2>2 DEF AttemptInv, Registering, BootSteps
<1> QED
  BY <1>3, <1>4, <1>5

\* The steps of the request that boots the bundles.
LEMMA AttemptBoot ==
  ASSUME Types, MonitorInv, ProviderInv, AttemptInv, NEW r \in Request,
         (Open(r) /\ bundleTracker # NoTracker) \/ Snapshot(r) \/ BootBundle(r) \/ MarkBooted(r) \/ MutatorFails(r) \/ Register(r) \/ BootLift(r)
  PROVE  AttemptInv'
<1> USE DEF manager, lift, history, queue, At, Go
<1>1. pc \in [Request -> {"idle", "lock", "serve"} \cup BootSteps] /\ pc[r] \in BootSteps \ {"track"}
  BY DEF Types, RequestTypes, Open, Snapshot, BootBundle, MarkBooted, MutatorFails, Register, BootLift, BootSteps
<1>2. \A q \in Request : q # r => pc[q] \notin BootSteps
  BY <1>1 DEF MonitorInv
<1>3. UNCHANGED <<trackers, booted>> /\ \A q \in Request : q # r => pc'[q] = pc[q]
  BY <1>1 DEF Open, Snapshot, BootBundle, MarkBooted, MutatorFails, Register, BootLift, Fail
<1>4. pc'[r] \in BootSteps \ {"track"}
  BY <1>1 DEF Open, Snapshot, BootBundle, MarkBooted, MutatorFails, Register, BootLift, BootSteps
<1>5. Started /\ Started' /\ \A q \in Request : pc'[q] \in BootSteps => q = r
  BY <1>1, <1>2, <1>3, <1>4 DEF Started
<1>6. ~Registering' <=> pc'[r] \in {"init", "booted"}
  BY <1>3, <1>4, <1>5 DEF Registering, BootSteps
<1>7. CASE Open(r) /\ bundleTracker # NoTracker
  <2>1. pc[r] = "open" /\ pc'[r] = "snapshot" /\ UNCHANGED <<services, registered, boots, toBoot>>
    BY <1>1, <1>7 DEF Open
  <2> QED
    BY <1>3, <1>5, <2>1 DEF AttemptInv, BootSteps, Registering
<1>8. CASE Snapshot(r)
  <2>1. pc[r] = "snapshot" /\ pc'[r] = "boot" /\ UNCHANGED <<services, registered, boots>>
    BY <1>1, <1>8 DEF Snapshot
  <2>2. siteMap' \in SUBSET Bundle
    BY <1>8, TrackerNumbers DEF Types, Snapshot, TrackerTypes
  <2>3. PICK bs \in SetToSeqs(siteMap') : toBoot' = bs
    BY <1>8 DEF Snapshot
  <2>4. (\A i \in DOMAIN bs : bs[i] \in Bundle) /\ \A i, j \in DOMAIN bs : bs[i] = bs[j] => i = j
    BY <2>2, Arrangement
  <2>5. \A b \in Bundle : boots[b] = 0
    BY <2>1 DEF AttemptInv
  <2>6. \A q \in Request : pc'[q] \notin {"open", "snapshot", "mark"}
    BY <1>5, <2>1 DEF BootSteps
  <2>7. Registering
    BY <2>1 DEF Registering
  <2> QED
    BY <1>3, <1>5, <2>1, <2>3, <2>4, <2>5, <2>6, <2>7 DEF AttemptInv
<1>9. CASE BootBundle(r)
  <2>1. pc[r] = "boot" /\ UNCHANGED <<services, registered>> /\ toBoot # <<>> /\ Registering
    BY <1>9 DEF BootBundle, Registering
  <2>2. \A i \in DOMAIN toBoot : boots[toBoot[i]] = 0
    BY <2>1 DEF AttemptInv
  <2>3. /\ Head(toBoot) \in Bundle /\ Head(toBoot) = toBoot[1] /\ Len(toBoot) \in Nat \ {0}
        /\ DOMAIN toBoot = 1 .. Len(toBoot) /\ DOMAIN Tail(toBoot) = 1 .. (Len(toBoot) - 1)
        /\ \A i \in DOMAIN Tail(toBoot) : Tail(toBoot)[i] = toBoot[i + 1]
    BY <2>1, Rest DEF Types
  <2>4. CASE Go(r, "mark") /\ boots' = [boots EXCEPT ![Head(toBoot)] = @ + 1] /\ UNCHANGED toBoot
    <3>1. boots \in [Bundle -> Nat] /\ pc'[r] = "mark"
      BY <1>1, <2>4 DEF Types, CountTypes
    <3>2. boots'[toBoot[1]] = 1 /\ \A b \in Bundle : b # toBoot[1] => boots'[b] = boots[b]
      BY <2>2, <2>3, <2>4, <3>1
    <3>3. \A i \in DOMAIN toBoot : i > 1 => boots'[toBoot[i]] = 0
      <4> SUFFICES ASSUME NEW i \in DOMAIN toBoot, i > 1 PROVE boots'[toBoot[i]] = 0
        OBVIOUS
      <4>1. toBoot[i] # toBoot[1] /\ toBoot[i] \in Bundle
        BY <2>3 DEF AttemptInv, Types, RequestTypes
      <4> QED
        BY <2>2, <3>2, <4>1
    <3>4. \A b \in Bundle : boots'[b] <= 1
      BY <3>2 DEF AttemptInv
    <3>5. \A q \in Request : pc'[q] \notin {"open", "snapshot", "boot"}
      BY <1>5, <3>1 DEF BootSteps
    <3>6. trackers # 0
      BY <2>1 DEF ProviderInv, Types, TrackerTypes
    <3> QED
      BY <1>3, <1>5, <2>1, <2>4, <3>3, <3>4, <3>5, <3>6 DEF AttemptInv
  <2>5. CASE toBoot' = Tail(toBoot) /\ UNCHANGED <<pc, boots>>
    <3>1. \A q \in Request : pc'[q] \notin {"open", "snapshot", "mark"}
      BY <1>5, <2>1, <2>5 DEF BootSteps
    <3>2. \A i, j \in DOMAIN toBoot' : toBoot'[i] = toBoot'[j] => i = j
      <4> SUFFICES ASSUME NEW i \in DOMAIN toBoot', NEW j \in DOMAIN toBoot', toBoot'[i] = toBoot'[j] PROVE i = j
        OBVIOUS
      <4>1. i \in Nat /\ j \in Nat /\ i + 1 \in DOMAIN toBoot /\ j + 1 \in DOMAIN toBoot /\ toBoot[i + 1] = toBoot[j + 1]
        BY <2>3, <2>5
      <4>2. i + 1 = j + 1
        BY <4>1 DEF AttemptInv
      <4> QED
        BY <4>1, <4>2
    <3>3. \A i \in DOMAIN toBoot' : boots'[toBoot'[i]] = 0
      BY <2>2, <2>3, <2>5
    <3> QED
      BY <1>3, <1>5, <2>1, <2>5, <3>1, <3>2, <3>3 DEF AttemptInv
  <2> QED
    BY <1>9, <2>4, <2>5 DEF BootBundle
<1>10. CASE MarkBooted(r) \/ MutatorFails(r)
  <2>1. pc[r] = "mark" /\ pc'[r] = "boot" /\ UNCHANGED <<services, registered, boots>> /\ toBoot' = Tail(toBoot) /\ Registering
    BY <1>1, <1>10 DEF MarkBooted, MutatorFails, Registering
  <2>2. \A i \in DOMAIN toBoot : i > 1 => boots[toBoot[i]] = 0
    BY <2>1 DEF AttemptInv
  <2>3. /\ Len(toBoot) \in Nat \ {0} /\ DOMAIN toBoot = 1 .. Len(toBoot) /\ DOMAIN Tail(toBoot) = 1 .. (Len(toBoot) - 1)
        /\ \A i \in DOMAIN Tail(toBoot) : Tail(toBoot)[i] = toBoot[i + 1]
    BY <2>1, Rest DEF Types, MonitorInv
  <2>4. \A q \in Request : pc'[q] \notin {"open", "snapshot", "mark"}
    BY <1>5, <2>1 DEF BootSteps
  <2>5. \A i, j \in DOMAIN toBoot' : toBoot'[i] = toBoot'[j] => i = j
    <3> SUFFICES ASSUME NEW i \in DOMAIN toBoot', NEW j \in DOMAIN toBoot', toBoot'[i] = toBoot'[j] PROVE i = j
      OBVIOUS
    <3>1. i \in Nat /\ j \in Nat /\ i + 1 \in DOMAIN toBoot /\ j + 1 \in DOMAIN toBoot /\ toBoot[i + 1] = toBoot[j + 1]
      BY <2>1, <2>3
    <3>2. i + 1 = j + 1
      BY <3>1 DEF AttemptInv
    <3> QED
      BY <3>1, <3>2
  <2>6. \A i \in DOMAIN toBoot' : boots'[toBoot'[i]] = 0
    BY <2>1, <2>2, <2>3
  <2> QED
    BY <1>3, <1>5, <2>1, <2>4, <2>5, <2>6 DEF AttemptInv
<1>11. CASE Register(r)
  <2>1. pc[r] = "boot" /\ pc'[r] = "init" /\ UNCHANGED <<boots, toBoot>> /\ Registering /\ services' = services + 1 /\ registered'
    BY <1>1, <1>11 DEF Register, Registering
  <2>2. services = 0
    BY <2>1 DEF AttemptInv
  <2>3. \A q \in Request : pc'[q] \notin {"open", "snapshot", "boot", "mark"}
    BY <1>5, <2>1 DEF BootSteps
  <2> QED
    BY <1>3, <1>5, <1>6, <2>1, <2>2, <2>3 DEF AttemptInv
<1>12. CASE BootLift(r)
  <2>1. pc'[r] = "booted" /\ UNCHANGED <<services, registered, boots, toBoot>>
    BY <1>1, <1>12 DEF BootLift
  <2>2. \A q \in Request : pc'[q] \notin {"open", "snapshot", "boot", "mark"}
    BY <1>5, <2>1 DEF BootSteps
  <2> QED
    BY <1>3, <1>5, <1>6, <2>1, <2>2 DEF AttemptInv
<1> QED
  BY <1>7, <1>8, <1>9, <1>10, <1>11, <1>12

\* As long as no attempt fails, there is one.
LEMMA AttemptStep ==
  Types /\ MonitorInv /\ ProviderInv /\ (~failed => AttemptInv) /\ [Next]_vars => (~failed => AttemptInv)'
<1> SUFFICES ASSUME Types, MonitorInv, ProviderInv, AttemptInv, [Next]_vars, ~failed' PROVE AttemptInv'
  BY FailedStays
<1>1. ASSUME NEW r \in Request, Fail(r) PROVE FALSE
  BY <1>1 DEF Fail
<1>2. ASSUME NEW r \in Request, BootFails(r) \/ ContextFails(r) PROVE AttemptInv'
  BY <1>1, <1>2 DEF BootFails, ContextFails
<1>3. ASSUME NEW r \in Request, Open(r) PROVE AttemptInv'
  BY <1>1, <1>3, AttemptBoot DEF Open
<1>4. ASSUME NEW r \in Request, Arrive(r) \/ BootStep(r) \/ Serve(r) PROVE AttemptInv'
  BY <1>3, <1>4, AttemptBoot, AttemptRequest DEF BootStep
<1>5. CASE DeployerStep \/ Untrack("framework")
  <2>1. UNCHANGED deployed
    BY <1>5 DEF DeployerStep, AddingBundle, RemovedBundle, TrackBundle, Untrack, Deployed
  <2> QED
    BY <2>1, AttemptFrame DEF deployed, manager, lift
<1>6. CASE (\E b \in Bundle : Deploy("add", b) \/ Deploy("remove", b)) \/ SystemStops \/ Stop \/ Closed
  <2>1. UNCHANGED <<trackers, services, registered, booted, boots, pc, toBoot>>
    BY <1>6 DEF Deploy, SystemStops, Stop, Closed, history, queue, manager, lift
  <2> QED
    BY <2>1, AttemptFrame
<1>7. CASE Unregister
  BY <1>7 DEF Unregister, AttemptInv, Started, Registering, history, lift, queue, Types, TrackerTypes
<1>8. CASE UNCHANGED vars
  BY <1>8, AttemptFrame DEF vars
<1> QED
  BY <1>2, <1>4, <1>5, <1>6, <1>7, <1>8, BundlesAreFinite DEF Next, StopStep

-----------------------------------------------------------------------------
(* The trackers *)

\* Closing a tracker, by tracker and bundle.
LEMMA CloseEffect ==
  ASSUME Types, NEW p \in Closer, NEW t \in Tracker, NEW bs \in SUBSET Bundle, Close(p, t, bs)
  PROVE  /\ open' = open \ {t}
         /\ \A u \in Tracker : tracked'[u] = IF u = t THEN {} ELSE tracked[u]
         /\ \A q \in Closer, u \in Tracker, b \in Bundle :
              <<u, b>> \in removed'[q] <=> <<u, b>> \in removed[q] \/ (q = p /\ u = t /\ b \in bs)
<1>1. /\ removed \in [Closer -> SUBSET (Tracker \X Bundle)] /\ tracked \in [Tracker -> SUBSET Bundle]
  BY DEF Types, ThreadTypes, TrackerTypes, Closer
<1>2. \A q \in Closer : removed'[q] = IF q = p THEN removed[q] \cup ({t} \X bs) ELSE removed[q]
  BY <1>1 DEF Close
<1>3. \A u, b : <<u, b>> \in {t} \X bs <=> u = t /\ b \in bs
  OBVIOUS
<1> QED
  BY <1>1, <1>2, <1>3 DEF Close

\* Untracking a bundle of a closed tracker.
LEMMA UntrackEffect ==
  ASSUME Types, NEW p \in Closer, NEW tb \in removed[p], removed' = [removed EXCEPT ![p] = @ \ {tb}]
  PROVE  /\ tb[1] \in Tracker /\ tb[2] \in Bundle /\ <<tb[1], tb[2]>> \in removed[p]
         /\ \A q \in Closer, u \in Tracker, b \in Bundle :
              <<u, b>> \in removed'[q] <=> <<u, b>> \in removed[q] /\ ~(q = p /\ u = tb[1] /\ b = tb[2])
<1>1. removed \in [Closer -> SUBSET (Tracker \X Bundle)]
  BY DEF Types, ThreadTypes, Closer
<1>2. tb \in Tracker \X Bundle
  BY <1>1
<1>3. \A q \in Closer : removed'[q] = IF q = p THEN removed[q] \ {tb} ELSE removed[q]
  BY <1>1
<1>4. tb = <<tb[1], tb[2]>> /\ tb[1] \in Tracker /\ tb[2] \in Bundle
  BY <1>2
<1>5. \A u, b : <<u, b>> = tb <=> u = tb[1] /\ b = tb[2]
  BY <1>4
<1> QED
  BY <1>3, <1>4, <1>5

\* What the counts are about: where the configurations are.
LEMMA PlaceFrame ==
  ASSUME UNCHANGED <<open, tracked, removed>>
  PROVE  /\ PlaceInv => PlaceInv'
         /\ \A b \in Bundle : UNCHANGED config => Live(b)' = Live(b)
         /\ \A t \in Tracker : UNCHANGED config /\ Fresh(t) => Fresh(t)'
PROOF BY DEF PlaceInv, Live, Placed, Fresh

\* What is closed goes from the tracker to the thread that has closed it.
LEMMA Closes ==
  ASSUME Types, PlaceInv, NEW p \in Closer, NEW t \in Tracker, NEW bs \in SUBSET tracked[t], Close(p, t, bs), UNCHANGED config
  PROVE  /\ PlaceInv' /\ \A b \in Bundle : Live(b)' \subseteq Live(b)
         /\ \A b \in tracked[t] \ bs : t \notin Live(b)'
         /\ \A u \in Tracker : Fresh(u) => Fresh(u)'
<1>1. tracked[t] \subseteq Bundle
  BY DEF Types, TrackerTypes
<1>2. /\ open' = open \ {t}
      /\ \A u \in Tracker : tracked'[u] = IF u = t THEN {} ELSE tracked[u]
      /\ \A q \in Closer, u \in Tracker, b \in Bundle :
           <<u, b>> \in removed'[q] <=> <<u, b>> \in removed[q] \/ (q = p /\ u = t /\ b \in bs)
  BY <1>1, CloseEffect
<1>3. PlaceInv'
  BY <1>1, <1>2 DEF PlaceInv, Closer
<1>4. ASSUME NEW b \in Bundle, NEW u \in Tracker, Placed(u, b)' PROVE Placed(u, b)
  BY <1>2, <1>4 DEF Placed
<1>5. \A b \in Bundle : Live(b)' \subseteq Live(b)
  BY <1>4 DEF Live
<1>6. ASSUME NEW b \in tracked[t] \ bs PROVE t \notin Live(b)'
  <2>1. \A q \in Closer : <<t, b>> \notin removed[q]
    BY <1>1 DEF PlaceInv
  <2> QED
    BY <1>1, <1>2, <2>1 DEF Live, Placed
<1>7. \A u \in Tracker : Fresh(u) => Fresh(u)'
  BY <1>1, <1>2 DEF Fresh
<1> QED
  BY <1>3, <1>5, <1>6, <1>7

\* A thread that closes trackers, or is told of a bundle, does not bring a
\* configuration back, and one that it shuts down was tracked until then.
LEMMA Untracking ==
  ASSUME Types, PlaceInv, (\E t \in Tracker : AddingBundle(t) \/ RemovedBundle(t)) \/ TrackBundle
                          \/ (\E p \in Closer : Untrack(p)) \/ Deployed \/ Stop
  PROVE  /\ PlaceInv' /\ \A t \in Tracker : Fresh(t) => Fresh(t)'
         /\ \A b \in Bundle : Live(b)' \subseteq Live(b)
         /\ \/ UNCHANGED shutdowns
            \/ \E t \in Tracker, b \in Bundle : Shutdown(t, b) /\ t \notin Live(b)' /\ (b \in config[t] => t \in Live(b))
<1> USE DEF tracking, manager
<1>1. CASE UNCHANGED <<open, tracked, removed, config, shutdowns>>
  BY <1>1, PlaceFrame
<1> DEFINE Goal == /\ PlaceInv' /\ \A t \in Tracker : Fresh(t) => Fresh(t)'
                   /\ \A b \in Bundle : Live(b)' \subseteq Live(b)
                   /\ \/ UNCHANGED shutdowns
                      \/ \E t \in Tracker, b \in Bundle : Shutdown(t, b) /\ t \notin Live(b)' /\ (b \in config[t] => t \in Live(b))
<1>2. ASSUME NEW t \in Tracker, AddingBundle(t) PROVE Goal
  <2>1. CASE Close("deployer", t, tracked[t])
    <3>1. UNCHANGED <<config, shutdowns>>
      BY <1>2 DEF AddingBundle
    <3> QED
      BY <2>1, <3>1, Closes DEF Closer
  <2>2. CASE UNCHANGED <<open, tracked, removed>>
    BY <1>1, <1>2, <2>2 DEF AddingBundle
  <2> QED
    BY <1>2, <2>1, <2>2 DEF AddingBundle, CloseAndReboot
<1>3. ASSUME NEW t \in Tracker, RemovedBundle(t) PROVE Goal
  <2>0. PICK b \in Bundle : b = deployer.bundle
    BY <1>3, ChangeFields DEF RemovedBundle, Calls, Types
  <2>1. b \in Bundle /\ UNCHANGED config
    BY <1>3 DEF RemovedBundle
  <2>2. CASE b \notin tracked[t]
    BY <1>1, <1>3, <2>0, <2>1, <2>2 DEF RemovedBundle
  <2>3. CASE b \in tracked[t]
    <3>1. Shutdown(t, b) /\ (b \in config[t] => t \in Live(b))
      BY <1>3, <2>0, <2>3 DEF RemovedBundle, Live, Placed
    <3>2. CASE Close("deployer", t, tracked[t] \ {b})
      <4>1. /\ PlaceInv' /\ \A c \in Bundle : Live(c)' \subseteq Live(c)
            /\ t \notin Live(b)' /\ \A u \in Tracker : Fresh(u) => Fresh(u)'
        BY <2>1, <2>3, <3>2, Closes DEF Closer
      <4> QED
        BY <2>1, <3>1, <4>1
    <3>3. CASE tracked' = [tracked EXCEPT ![t] = @ \ {b}] /\ UNCHANGED <<open, removed>>
      <4>1. \A u \in Tracker : tracked'[u] = IF u = t THEN tracked[t] \ {b} ELSE tracked[u]
        BY <3>3 DEF Types, TrackerTypes
      <4>2. PlaceInv' /\ \A u \in Tracker : Fresh(u) => Fresh(u)'
        BY <2>1, <3>3, <4>1 DEF PlaceInv, Fresh
      <4>3. \A c \in Bundle : Live(c)' \subseteq Live(c)
        BY <2>1, <3>3, <4>1 DEF Live, Placed
      <4>4. t \notin Live(b)'
        BY <2>1, <2>3, <3>3, <4>1 DEF Live, Placed, PlaceInv
      <4> QED
        BY <2>1, <3>1, <4>2, <4>3, <4>4
    <3> QED
      BY <1>3, <2>0, <2>3, <3>2, <3>3 DEF RemovedBundle, CloseAndReboot
  <2> QED
    BY <2>2, <2>3
<1>4. CASE TrackBundle
  <2> DEFINE t == deployer.tracker
             b == deployer.bundle
  <2>1. CASE t \notin open
    BY <1>1, <1>4, <2>1 DEF TrackBundle
  <2>2. CASE t \in open
    <3>1. /\ tracked' = [tracked EXCEPT ![t] = @ \cup {b}] /\ config' = [config EXCEPT ![t] = @ \ {b}]
          /\ UNCHANGED <<open, removed, shutdowns>>
      BY <1>4, <2>2 DEF TrackBundle
    <3>2. t \in Tracker /\ b \in Bundle
      BY <1>4, <2>2, ChangeFields, TrackerNumbers DEF TrackBundle, Types
    <3>3. \A u \in Tracker : /\ tracked'[u] = IF u = t THEN tracked[t] \cup {b} ELSE tracked[u]
                             /\ config'[u] = IF u = t THEN config[t] \ {b} ELSE config[u]
      BY <3>1 DEF Types, TrackerTypes
    <3>4. PlaceInv'
      BY <2>2, <3>1, <3>2, <3>3 DEF PlaceInv
    <3>5. \A c \in Bundle : Live(c)' \subseteq Live(c)
      BY <3>1, <3>2, <3>3 DEF Live, Placed
    <3>6. \A u \in Tracker : Fresh(u) => Fresh(u)'
      BY <2>2, <3>1, <3>3 DEF Fresh
    <3> QED
      BY <3>1, <3>4, <3>5, <3>6
  <2> QED
    BY <2>1, <2>2
<1>5. ASSUME NEW p \in Closer, Untrack(p) PROVE Goal
  <2>1. PICK tb \in removed[p] : Shutdown(tb[1], tb[2]) /\ removed' = [removed EXCEPT ![p] = @ \ {tb}]
    BY <1>5 DEF Untrack
  <2>2. UNCHANGED <<open, tracked, config>>
    BY <1>5 DEF Untrack
  <2>3. /\ tb[1] \in Tracker /\ tb[2] \in Bundle /\ <<tb[1], tb[2]>> \in removed[p]
        /\ \A q \in Closer, u \in Tracker, b \in Bundle :
             <<u, b>> \in removed'[q] <=> <<u, b>> \in removed[q] /\ ~(q = p /\ u = tb[1] /\ b = tb[2])
    BY <2>1, UntrackEffect
  <2>4. PlaceInv' /\ \A u \in Tracker : Fresh(u) => Fresh(u)'
    BY <2>2, <2>3 DEF PlaceInv, Fresh, Closer
  <2>5. \A c \in Bundle : Live(c)' \subseteq Live(c)
    BY <2>2, <2>3 DEF Live, Placed
  <2>6. tb[2] \in config[tb[1]] => tb[1] \in Live(tb[2])
    BY <2>3 DEF Live, Placed
  <2>7. tb[1] \notin Live(tb[2])'
    <3>1. tb[2] \notin tracked'[tb[1]]
      BY <2>2, <2>3 DEF PlaceInv
    <3>2. \A q \in Closer : <<tb[1], tb[2]>> \notin removed'[q]
      BY <2>3 DEF PlaceInv, Closer
    <3> QED
      BY <3>1, <3>2 DEF Live, Placed
  <2> QED
    BY <2>1, <2>3, <2>4, <2>5, <2>6, <2>7
<1>6. CASE Deployed
  BY <1>1, <1>6 DEF Deployed
<1>7. CASE Stop
  <2>1. UNCHANGED <<config, shutdowns>>
    BY <1>7 DEF Stop, history
  <2>2. CASE bundleTracker \in open
    <3>1. Close("framework", bundleTracker, tracked[bundleTracker]) /\ bundleTracker \in Tracker
      BY <1>7, <2>2, TrackerNumbers DEF Stop, Types
    <3> QED
      BY <2>1, <3>1, Closes DEF Closer
  <2>3. CASE bundleTracker \notin open
    BY <1>1, <1>7, <2>1, <2>3 DEF Stop
  <2> QED
    BY <2>2, <2>3
<1> QED
  BY <1>2, <1>3, <1>4, <1>5, <1>6, <1>7

\* Every bundle of a tracker is in one place, and a tracker that is not open yet is empty.
LEMMA TrackerStep == Types /\ MonitorInv /\ FreshInv /\ PlaceInv /\ [Next]_vars => FreshInv' /\ PlaceInv'
<1> SUFFICES ASSUME Types, MonitorInv, FreshInv, PlaceInv, [Next]_vars PROVE FreshInv' /\ PlaceInv'
  OBVIOUS
<1> USE DEF tracking, manager, lift, outside, changes, queue, history, At, Go
<1>1. pc \in [Request -> {"idle", "lock", "serve"} \cup BootSteps] /\ trackers \in Nat
  BY TrackerNumbers DEF Types, RequestTypes
<1>2. ASSUME UNCHANGED <<trackers, bundleTracker>>, \A t \in Tracker : Fresh(t) => Fresh(t)',
             \A r \in Request : pc'[r] = "open" => pc[r] = "open"
      PROVE  FreshInv'
  BY <1>2 DEF FreshInv, Opening
<1>3. ASSUME NEW r \in Request, NEW s, s # "open", Go(r, s) PROVE \A q \in Request : pc'[q] = "open" => pc[q] = "open"
  BY <1>1, <1>3
<1>4. ASSUME UNCHANGED <<open, tracked, removed, config, trackers, bundleTracker>>,
             \A r \in Request : pc'[r] = "open" => pc[r] = "open"
      PROVE  FreshInv' /\ PlaceInv'
  BY <1>2, <1>4, PlaceFrame
<1>5. ASSUME NEW r \in Request,
             \/ Arrive(r) \/ Serve(r) \/ Enter(r) \/ Snapshot(r) \/ MutatorFails(r) \/ BootLift(r) \/ SetBooted(r)
             \/ BootFails(r) \/ ContextFails(r) \/ Register(r) \/ BootBundle(r)
      PROVE  FreshInv' /\ PlaceInv'
  <2>1. UNCHANGED <<open, tracked, removed, config, trackers, bundleTracker>>
    BY <1>5 DEF Arrive, Serve, Enter, Snapshot, MutatorFails, BootLift, SetBooted, BootFails, ContextFails, Register, BootBundle, Fail
  <2>2. (\E s : s # "open" /\ Go(r, s)) \/ UNCHANGED pc
    BY <1>5 DEF Arrive, Serve, Enter, Snapshot, MutatorFails, BootLift, SetBooted, BootFails, ContextFails, Register, BootBundle, Fail
  <2> QED
    BY <1>3, <1>4, <2>1, <2>2
<1>6. ASSUME NEW r \in Request, Track(r) PROVE FreshInv' /\ PlaceInv'
  <2>1. UNCHANGED <<open, tracked, removed, config>> /\ trackers' = trackers + 1 /\ bundleTracker' = trackers'
    BY <1>6 DEF Track
  <2>2. \A t \in Tracker : t >= trackers' => Fresh(t)'
    BY <1>1, <2>1, PlaceFrame DEF FreshInv, Tracker
  <2> QED
    BY <1>1, <2>1, <2>2, PlaceFrame DEF FreshInv, Tracker
<1>7. ASSUME NEW r \in Request, Open(r) PROVE FreshInv' /\ PlaceInv'
  <2>1. CASE Fail(r)
    BY <1>3, <1>4, <2>1 DEF Fail
  <2>2. CASE bundleTracker # NoTracker
    <3>1. /\ open' = open \cup {bundleTracker} /\ tracked' = [tracked EXCEPT ![bundleTracker] = present] /\ Go(r, "snapshot")
          /\ UNCHANGED <<removed, config, trackers, bundleTracker>> /\ pc[r] = "open"
      BY <1>7, <2>2 DEF Open, Fail
    <3>2. bundleTracker = trackers /\ trackers \in Tracker /\ Fresh(trackers) /\ present \subseteq Bundle
      BY <2>2, <3>1, TrackerNumbers DEF FreshInv, Opening, Types, StateTypes
    <3>3. \A u \in Tracker : tracked'[u] = IF u = trackers THEN present ELSE tracked[u]
      BY <3>1, <3>2 DEF Types, TrackerTypes
    <3>4. PlaceInv'
      BY <3>1, <3>2, <3>3 DEF PlaceInv, Fresh
    <3>5. \A u \in Tracker : u # trackers /\ Fresh(u) => Fresh(u)'
      BY <3>1, <3>2, <3>3 DEF Fresh
    <3>6. ~Opening'
      <4>1. \A q \in Request : q # r => pc[q] # "open"
        BY <3>1 DEF MonitorInv, BootSteps
      <4> QED
        BY <1>1, <3>1, <4>1 DEF Opening
    <3> QED
      BY <1>1, <3>1, <3>2, <3>4, <3>5, <3>6 DEF FreshInv, Tracker
  <2> QED
    BY <1>7, <2>1, <2>2 DEF Open
<1>8. ASSUME NEW r \in Request, MarkBooted(r) PROVE FreshInv' /\ PlaceInv'
  <2>1. UNCHANGED <<open, tracked, removed, trackers, bundleTracker>> /\ Go(r, "boot") /\ pc[r] = "mark"
    BY <1>8 DEF MarkBooted
  <2>2. \A t \in Tracker : t # trackers => config'[t] = config[t]
    BY <1>8 DEF MarkBooted, Types, TrackerTypes
  <2>3. ~Opening'
    <3>1. \A q \in Request : q # r => pc[q] # "open"
      BY <2>1 DEF MonitorInv, BootSteps
    <3> QED
      BY <1>1, <2>1, <3>1 DEF Opening
  <2>4. \A t \in Tracker : t > trackers => Fresh(t)'
    BY <1>1, <2>1, <2>2 DEF FreshInv, Fresh, Tracker
  <2> QED
    BY <2>1, <2>3, <2>4, PlaceFrame DEF FreshInv
<1>9. CASE DeployerStep \/ Untrack("framework") \/ Stop
  <2>1. UNCHANGED <<trackers, bundleTracker, pc>>
    BY <1>9 DEF DeployerStep, AddingBundle, RemovedBundle, TrackBundle, Untrack, Deployed, Stop, deployed
  <2>2. PlaceInv' /\ \A t \in Tracker : Fresh(t) => Fresh(t)'
    BY <1>9, Untracking DEF DeployerStep, Closer
  <2> QED
    BY <1>2, <2>1, <2>2
<1>10. CASE (\E b \in Bundle : Deploy("add", b) \/ Deploy("remove", b)) \/ SystemStops
  BY <1>4, <1>10 DEF Deploy, SystemStops
<1>11. CASE Closed
  <2>1. UNCHANGED <<open, tracked, removed, config, trackers, pc>> /\ bundleTracker' = NoTracker
    BY <1>11 DEF Closed
  <2> QED
    BY <2>1, PlaceFrame DEF FreshInv, Opening
<1>12. CASE Unregister
  <2>1. UNCHANGED <<tracked, removed, config, trackers, bundleTracker, pc>> /\ open' = {}
    BY <1>12 DEF Unregister
  <2>2. PlaceInv'
    BY <2>1 DEF PlaceInv
  <2> QED
    BY <1>2, <2>1, <2>2 DEF Fresh
<1>13. CASE UNCHANGED vars
  BY <1>4, <1>13 DEF vars
<1> QED
  BY <1>5, <1>6, <1>7, <1>8, <1>9, <1>10, <1>11, <1>12, <1>13, BundlesAreFinite DEF Next, BootStep, StopStep

-----------------------------------------------------------------------------
(* The counts *)

\* Sets of trackers by their sizes.
LEMMA Sizes ==
  ASSUME NEW S \in SUBSET Tracker, NEW T \in SUBSET Tracker
  PROVE  /\ Cardinality(S) \in Nat
         /\ S \subseteq T => Cardinality(S) <= Cardinality(T)
         /\ \A t \in T : S \subseteq T \ {t} => Cardinality(S) + 1 <= Cardinality(T)
         /\ \A t \in Tracker : S \subseteq T \cup {t} => Cardinality(S) <= Cardinality(T) + 1
<1>1. IsFiniteSet(Tracker)
  BY BoundsAreNumbers, FS_Interval DEF Tracker
<1>2. IsFiniteSet(S) /\ IsFiniteSet(T) /\ Cardinality(S) \in Nat /\ Cardinality(T) \in Nat
  BY <1>1, FS_Subset, FS_CardinalityType
<1>3. S \subseteq T => Cardinality(S) <= Cardinality(T)
  BY <1>2, FS_Subset
<1>4. ASSUME NEW t \in T, S \subseteq T \ {t} PROVE Cardinality(S) + 1 <= Cardinality(T)
  <2>1. IsFiniteSet(T \ {t}) /\ Cardinality(T \ {t}) = Cardinality(T) - 1
    BY <1>2, FS_RemoveElement
  <2>2. Cardinality(S) <= Cardinality(T \ {t})
    BY <1>4, <2>1, FS_Subset
  <2> QED
    BY <1>2, <2>1, <2>2
<1>5. ASSUME NEW t \in Tracker, S \subseteq T \cup {t} PROVE Cardinality(S) <= Cardinality(T) + 1
  <2>1. /\ IsFiniteSet(T \cup {t})
        /\ Cardinality(T \cup {t}) = Cardinality(T) \/ Cardinality(T \cup {t}) = Cardinality(T) + 1
    BY <1>2, FS_AddElement
  <2>2. Cardinality(S) <= Cardinality(T \cup {t})
    BY <1>5, <2>1, FS_Subset
  <2> QED
    BY <1>2, <2>1, <2>2
<1> QED
  BY <1>2, <1>3, <1>4, <1>5

\* The counts of one bundle: nothing is booted, and nothing is brought back.
LEMMA CountFrame ==
  ASSUME NEW b \in Bundle, Types, Types', CountInv, Live(b)' \subseteq Live(b), boots'[b] >= boots[b],
         shutdowns'[b] = shutdowns[b], Marking(b)' => Marking(b)
  PROVE  (shutdowns[b] + Cardinality(Live(b)) + Marks(b) <= boots[b])'
<1>1. Live(b) \in SUBSET Tracker /\ Live(b)' \in SUBSET Tracker
  BY DEF Live
<1>2. Cardinality(Live(b)) \in Nat /\ Cardinality(Live(b)') \in Nat /\ Cardinality(Live(b)') <= Cardinality(Live(b))
  BY <1>1, Sizes
<1>3. shutdowns[b] \in Nat /\ boots[b] \in Nat /\ boots'[b] \in Nat
  BY DEF Types, CountTypes
<1>4. Marks(b) \in {0, 1} /\ Marks(b)' \in {0, 1} /\ Marks(b)' <= Marks(b)
  BY DEF Marks
<1>5. shutdowns[b] + Cardinality(Live(b)) + Marks(b) <= boots[b]
  BY DEF CountInv
<1>6. shutdowns'[b] + Cardinality(Live(b)') + Marks(b)' <= boots'[b]
  BY <1>2, <1>3, <1>4, <1>5
<1> QED
  BY <1>6

\* A module is shut down for a configuration that was booted and is removed.
LEMMA CountUntracks ==
  ASSUME Types, Types', CountInv, PlaceInv, UNCHANGED <<boots, pc, toBoot>>, \A b \in Bundle : Live(b)' \subseteq Live(b),
         \/ UNCHANGED shutdowns
         \/ \E t \in Tracker, b \in Bundle : Shutdown(t, b) /\ t \notin Live(b)' /\ (b \in config[t] => t \in Live(b))
  PROVE  CountInv'
<1>1. \A b \in Bundle : Marking(b)' <=> Marking(b)
  BY DEF Marking
<1>2. \A b \in Bundle : boots[b] \in Nat /\ shutdowns[b] \in Nat /\ boots'[b] >= boots[b]
  BY DEF Types, CountTypes
<1>3. ASSUME NEW b \in Bundle, shutdowns'[b] = shutdowns[b]
      PROVE  (shutdowns[b] + Cardinality(Live(b)) + Marks(b) <= boots[b])'
  BY <1>1, <1>2, <1>3, CountFrame
<1>4. CASE UNCHANGED shutdowns
  BY <1>3, <1>4 DEF CountInv
<1>5. ASSUME NEW t \in Tracker, NEW b \in Bundle, Shutdown(t, b), t \notin Live(b)', b \in config[t] => t \in Live(b)
      PROVE  CountInv'
  <2>1. CASE b \notin config[t]
    BY <1>4, <1>5, <2>1 DEF Shutdown
  <2>2. CASE b \in config[t]
    <3>1. shutdowns'[b] = shutdowns[b] + 1 /\ \A c \in Bundle : c # b => shutdowns'[c] = shutdowns[c]
      BY <1>5, <2>2 DEF Shutdown, Types, CountTypes
    <3>2. Live(b) \in SUBSET Tracker /\ Live(b)' \in SUBSET Tracker /\ t \in Live(b) /\ Live(b)' \subseteq Live(b) \ {t}
      BY <1>5, <2>2 DEF Live
    <3>3. Cardinality(Live(b)) \in Nat /\ Cardinality(Live(b)') \in Nat /\ Cardinality(Live(b)') + 1 <= Cardinality(Live(b))
      BY <3>2, Sizes
    <3>4. Marks(b) \in {0, 1} /\ Marks(b)' = Marks(b)
      BY <1>1 DEF Marks
    <3>5. shutdowns[b] + Cardinality(Live(b)) + Marks(b) <= boots[b]
      BY DEF CountInv
    <3>6. shutdowns'[b] + Cardinality(Live(b)') + Marks(b)' <= boots'[b]
      BY <1>2, <3>1, <3>3, <3>4, <3>5
    <3>7. (shutdowns[b] + Cardinality(Live(b)) + Marks(b) <= boots[b])'
      BY <3>6
    <3> QED
      BY <1>3, <3>1, <3>7 DEF CountInv
  <2> QED
    BY <2>1, <2>2
<1> QED
  BY <1>4, <1>5

\* A module that is booted may be marked next.
LEMMA CountBoots ==
  ASSUME Types, Types', MonitorInv, CountInv, NEW r \in Request, At(r, "boot"), toBoot # <<>>, Go(r, "mark"),
         boots' = [boots EXCEPT ![Head(toBoot)] = @ + 1],
         UNCHANGED <<open, tracked, removed, config, shutdowns, toBoot>>
  PROVE  CountInv'
<1>1. \A b \in Bundle : Live(b)' = Live(b)
  BY PlaceFrame
<1>2. Head(toBoot) \in Bundle /\ pc \in [Request -> {"idle", "lock", "serve"} \cup BootSteps]
  BY Rest DEF Types, RequestTypes
<1>3. \A q \in Request : pc[q] # "mark"
  BY DEF MonitorInv, At, BootSteps
<1>4. \A b \in Bundle : ~Marking(b) /\ (Marking(b)' <=> b = Head(toBoot))
  BY <1>2, <1>3 DEF Marking, Go
<1>5. \A b \in Bundle : /\ boots[b] \in Nat /\ shutdowns[b] \in Nat /\ shutdowns'[b] = shutdowns[b]
                        /\ boots'[b] = IF b = Head(toBoot) THEN boots[b] + 1 ELSE boots[b]
  BY <1>2 DEF Types, CountTypes
<1>6. ASSUME NEW b \in Bundle PROVE (shutdowns[b] + Cardinality(Live(b)) + Marks(b) <= boots[b])'
  <2>1. CASE b # Head(toBoot)
    <3>1. boots'[b] >= boots[b] /\ Live(b)' \subseteq Live(b)
      BY <1>1, <1>5, <2>1
    <3> QED
      BY <1>4, <1>5, <2>1, <3>1, CountFrame
  <2>2. CASE b = Head(toBoot)
    <3>1. Cardinality(Live(b)) \in Nat
      BY Sizes DEF Live
    <3>2. Marks(b) = 0 /\ Marks(b)' = 1
      BY <1>4, <2>2 DEF Marks
    <3>3. shutdowns[b] + Cardinality(Live(b)) + Marks(b) <= boots[b]
      BY DEF CountInv
    <3>4. shutdowns'[b] + Cardinality(Live(b)') + Marks(b)' <= boots'[b]
      BY <1>1, <1>5, <2>2, <3>1, <3>2, <3>3
    <3> QED
      BY <3>4
  <2> QED
    BY <2>1, <2>2
<1> QED
  BY <1>6 DEF CountInv

\* A configuration that is marked belongs to a module that has been booted.
LEMMA CountMarks ==
  ASSUME Types, Types', MonitorInv, CountInv, NEW r \in Request, trackers \in Tracker, MarkBooted(r)
  PROVE  CountInv'
<1> USE DEF tracking, history, At, Go
<1>1. toBoot # <<>> /\ pc[r] = "mark" /\ pc' = [pc EXCEPT ![r] = "boot"] /\ UNCHANGED <<open, tracked, removed, boots, shutdowns>>
  BY DEF MarkBooted, MonitorInv, outside
<1>2. Head(toBoot) \in Bundle /\ pc \in [Request -> {"idle", "lock", "serve"} \cup BootSteps]
  BY <1>1, Rest DEF Types, RequestTypes
<1>3. \A q \in Request : q # r => pc[q] # "mark"
  BY <1>1 DEF MonitorInv, BootSteps
<1>4. \A b \in Bundle : ~Marking(b)' /\ (b = Head(toBoot) => Marking(b))
  BY <1>1, <1>2, <1>3 DEF Marking
<1>5. \A t \in Tracker : /\ config'[t] \subseteq config[t] \cup {Head(toBoot)}
                         /\ t # trackers => config'[t] = config[t]
  BY DEF MarkBooted, Types, TrackerTypes
<1>6. \A b \in Bundle : boots[b] \in Nat /\ shutdowns[b] \in Nat /\ boots'[b] >= boots[b] /\ shutdowns'[b] = shutdowns[b]
  BY <1>1 DEF Types, CountTypes
<1>7. \A t \in Tracker, b \in Bundle : Placed(t, b)' <=> Placed(t, b)
  BY <1>1 DEF Placed
<1>8. ASSUME NEW b \in Bundle PROVE (shutdowns[b] + Cardinality(Live(b)) + Marks(b) <= boots[b])'
  <2>1. CASE b # Head(toBoot)
    <3>1. Live(b)' \subseteq Live(b)
      BY <1>5, <1>7, <2>1 DEF Live
    <3> QED
      BY <1>4, <1>6, <3>1, CountFrame
  <2>2. CASE b = Head(toBoot)
    <3>1. Live(b) \in SUBSET Tracker /\ Live(b)' \in SUBSET Tracker /\ Live(b)' \subseteq Live(b) \cup {trackers}
      BY <1>5, <1>7 DEF Live
    <3>2. Cardinality(Live(b)) \in Nat /\ Cardinality(Live(b)') \in Nat /\ Cardinality(Live(b)') <= Cardinality(Live(b)) + 1
      BY <3>1, Sizes
    <3>3. Marks(b) = 1 /\ Marks(b)' = 0
      BY <1>4, <2>2 DEF Marks
    <3>4. shutdowns[b] + Cardinality(Live(b)) + Marks(b) <= boots[b]
      BY DEF CountInv
    <3>5. shutdowns'[b] + Cardinality(Live(b)') + Marks(b)' <= boots'[b]
      BY <1>1, <1>6, <3>2, <3>3, <3>4
    <3> QED
      BY <3>5
  <2> QED
    BY <2>1, <2>2
<1> QED
  BY <1>8 DEF CountInv

\* Every step keeps the counts.
LEMMA CountStep ==
  Types /\ Types' /\ MonitorInv /\ ProviderInv /\ FreshInv /\ PlaceInv /\ CountInv /\ [Next]_vars => CountInv'
<1> SUFFICES ASSUME Types, Types', MonitorInv, ProviderInv, FreshInv, PlaceInv, CountInv, [Next]_vars PROVE CountInv'
  OBVIOUS
<1> USE DEF tracking, manager, lift, outside, changes, queue, history, At, Go
<1>1. pc \in [Request -> {"idle", "lock", "serve"} \cup BootSteps]
  BY DEF Types, RequestTypes
<1>2. \A b \in Bundle : boots[b] \in Nat
  BY DEF Types, CountTypes
<1>3. ASSUME UNCHANGED <<boots, shutdowns>>, \A b \in Bundle : Live(b)' \subseteq Live(b),
             \A b \in Bundle : Marking(b)' => Marking(b)
      PROVE  CountInv'
  <2>1. \A b \in Bundle : boots'[b] >= boots[b] /\ shutdowns'[b] = shutdowns[b]
    BY <1>2, <1>3
  <2> QED
    BY <1>3, <2>1, CountFrame DEF CountInv
<1>4. ASSUME UNCHANGED <<boots, shutdowns, toBoot>>, \A b \in Bundle : Live(b)' \subseteq Live(b),
             \A q \in Request : pc'[q] = "mark" => pc[q] = "mark"
      PROVE  CountInv'
  BY <1>3, <1>4 DEF Marking
<1>5. ASSUME UNCHANGED <<boots, shutdowns>>, \A b \in Bundle : Live(b)' \subseteq Live(b), \A q \in Request : pc'[q] # "mark"
      PROVE  CountInv'
  BY <1>3, <1>5 DEF Marking
<1>6. ASSUME NEW r \in Request, NEW s, s # "mark", Go(r, s) PROVE \A q \in Request : pc'[q] = "mark" => pc[q] = "mark"
  BY <1>1, <1>6
<1>7. ASSUME NEW r \in Request, pc[r] \in BootSteps, NEW s, s # "mark", Go(r, s) PROVE \A q \in Request : pc'[q] # "mark"
  BY <1>1, <1>7 DEF MonitorInv, BootSteps
<1>8. ASSUME UNCHANGED <<open, tracked, removed, config>> PROVE \A b \in Bundle : Live(b)' \subseteq Live(b)
  BY <1>8, PlaceFrame
<1>9. ASSUME NEW r \in Request, Arrive(r) \/ Serve(r) \/ Enter(r) \/ Track(r) \/ Register(r) \/ BootLift(r) \/ SetBooted(r)
      PROVE  CountInv'
  <2>1. UNCHANGED <<open, tracked, removed, config, boots, shutdowns, toBoot>>
    BY <1>9 DEF Arrive, Serve, Enter, Track, Register, BootLift, SetBooted
  <2>2. \E s : s # "mark" /\ Go(r, s)
    BY <1>9 DEF Arrive, Serve, Enter, Track, Register, BootLift, SetBooted
  <2> QED
    BY <1>4, <1>6, <1>8, <2>1, <2>2
<1>10. ASSUME NEW r \in Request, Fail(r), pc[r] \in BootSteps PROVE CountInv'
  BY <1>5, <1>7, <1>8, <1>10 DEF Fail
<1>11. ASSUME NEW r \in Request, BootFails(r) \/ ContextFails(r) PROVE CountInv'
  BY <1>10, <1>11 DEF BootFails, ContextFails, BootSteps
<1>12. ASSUME NEW r \in Request, Snapshot(r) \/ MutatorFails(r) PROVE CountInv'
  <2>1. UNCHANGED <<open, tracked, removed, config, boots, shutdowns>> /\ Go(r, "boot") /\ pc[r] \in BootSteps
    BY <1>12 DEF Snapshot, MutatorFails, BootSteps
  <2> QED
    BY <1>5, <1>7, <1>8, <2>1
<1>13. ASSUME NEW r \in Request, Open(r) PROVE CountInv'
  <2>1. CASE Fail(r)
    BY <1>10, <1>13, <2>1 DEF Open, BootSteps
  <2>2. CASE bundleTracker # NoTracker /\ ~Fail(r)
    <3>1. /\ tracked' = [tracked EXCEPT ![bundleTracker] = present] /\ Go(r, "snapshot") /\ pc[r] = "open"
          /\ UNCHANGED <<removed, config, boots, shutdowns, toBoot>>
      BY <1>13, <2>2 DEF Open
    <3>2. config[bundleTracker] = {} /\ bundleTracker \in Tracker
      BY <2>2, <3>1, TrackerNumbers DEF FreshInv, Opening, Fresh, Types
    <3>3. \A u \in Tracker : u # bundleTracker => tracked'[u] = tracked[u]
      BY <3>1 DEF Types, TrackerTypes
    <3>4. \A b \in Bundle : Live(b)' \subseteq Live(b)
      BY <3>1, <3>2, <3>3 DEF Live, Placed
    <3> QED
      BY <1>4, <1>6, <3>1, <3>4
  <2> QED
    BY <1>13, <2>1, <2>2 DEF Open
<1>14. ASSUME NEW r \in Request, BootBundle(r) PROVE CountInv'
  <2>1. CASE Go(r, "mark") /\ boots' = [boots EXCEPT ![Head(toBoot)] = @ + 1] /\ UNCHANGED toBoot
    <3>1. At(r, "boot") /\ toBoot # <<>> /\ UNCHANGED <<open, tracked, removed, config, shutdowns>>
      BY <1>14 DEF BootBundle
    <3> QED
      BY <2>1, <3>1, CountBoots
  <2>2. CASE toBoot' = Tail(toBoot) /\ UNCHANGED <<pc, boots>>
    <3>1. \A q \in Request : pc'[q] # "mark"
      BY <1>14, <2>2 DEF BootBundle, MonitorInv, BootSteps
    <3>2. UNCHANGED <<open, tracked, removed, config, boots, shutdowns>>
      BY <1>14, <2>2 DEF BootBundle
    <3> QED
      BY <1>5, <1>8, <3>1, <3>2
  <2> QED
    BY <1>14, <2>1, <2>2 DEF BootBundle
<1>15. ASSUME NEW r \in Request, MarkBooted(r) PROVE CountInv'
  <2>1. services < trackers
    BY <1>15 DEF MarkBooted, ProviderInv, Registering
  <2>2. trackers \in Tracker
    BY <2>1, TrackerNumbers DEF Types, TrackerTypes
  <2> QED
    BY <1>15, <2>2, CountMarks
<1>16. CASE DeployerStep \/ Untrack("framework") \/ Stop
  <2>1. UNCHANGED <<boots, pc, toBoot>>
    BY <1>16 DEF DeployerStep, AddingBundle, RemovedBundle, TrackBundle, Untrack, Deployed, Stop, deployed
  <2> QED
    BY <1>16, <2>1, Untracking, CountUntracks DEF DeployerStep, Closer
<1>17. CASE (\E b \in Bundle : Deploy("add", b) \/ Deploy("remove", b)) \/ SystemStops \/ Closed
  <2>1. UNCHANGED <<open, tracked, removed, config, boots, shutdowns, toBoot, pc>>
    BY <1>17 DEF Deploy, SystemStops, Closed
  <2> QED
    BY <1>4, <1>8, <2>1
<1>18. CASE Unregister
  <2>1. UNCHANGED <<tracked, removed, config, boots, shutdowns, toBoot, pc>>
    BY <1>18 DEF Unregister
  <2>2. \A b \in Bundle : Live(b)' \subseteq Live(b)
    BY <2>1 DEF Live, Placed
  <2> QED
    BY <1>4, <2>1, <2>2
<1>19. CASE UNCHANGED vars
  BY <1>4, <1>8, <1>19 DEF vars
<1> QED
  BY <1>9, <1>11, <1>12, <1>13, <1>14, <1>15, <1>16, <1>17, <1>18, <1>19, BundlesAreFinite DEF Next, BootStep, StopStep

-----------------------------------------------------------------------------
(* The theorems *)

\* The inductive invariant.
Inv == Types /\ MonitorInv /\ ProviderInv /\ FreshInv /\ PlaceInv /\ CountInv /\ (~failed => AttemptInv)

\* It holds when the classes are loaded.
LEMMA InvInit == Init => Inv
<1> SUFFICES ASSUME Init PROVE Inv
  OBVIOUS
<1>1. \A r \in Request : pc[r] = "idle"
  BY DEF Init
<1>2. MonitorInv
  BY <1>1 DEF Init, MonitorInv, Booting, BootSteps
<1>3. ProviderInv
  BY <1>1 DEF Init, ProviderInv, Registering
<1>4. AttemptInv
  BY <1>1 DEF Init, AttemptInv, Registering
<1>5. \A t \in Tracker : Fresh(t)
  BY DEF Init, Fresh, Closer
<1>6. FreshInv /\ PlaceInv
  BY <1>5 DEF Init, FreshInv, PlaceInv, Closer
<1>7. CountInv
  <2>1. \A b \in Bundle : Live(b) = {} /\ Marks(b) = 0 /\ shutdowns[b] = 0 /\ boots[b] = 0
    BY <1>1 DEF Init, Live, Marks, Marking
  <2> QED
    BY <2>1, FS_EmptySet DEF CountInv
<1> QED
  BY <1>2, <1>3, <1>4, <1>6, <1>7, TypeInit DEF Inv

\* Every step keeps it.
LEMMA InvStep == Inv /\ [Next]_vars => Inv'
<1> SUFFICES ASSUME Inv, [Next]_vars PROVE Inv'
  OBVIOUS
<1>1. Types' /\ MonitorInv' /\ ProviderInv'
  BY TypeStep, MonitorStep, ProviderStep DEF Inv
<1>2. ~failed' => AttemptInv'
  BY AttemptStep DEF Inv
<1>3. FreshInv' /\ PlaceInv' /\ CountInv'
  BY <1>1, TrackerStep, CountStep DEF Inv
<1> QED
  BY <1>1, <1>2, <1>3 DEF Inv

\* It holds of every behaviour.
LEMMA Inductive == Spec => []Inv
PROOF BY InvInit, InvStep, PTL DEF Spec

\* Every variable has its type, whatever requests boot Lift and whatever bundles
\* come and go meanwhile (LiftFilterComponent, LiftLifecycleManager).
THEOREM TypeCorrect == Spec => []TypeOK
<1>1. Inv => TypeOK
  BY TypeParts DEF Inv
<1> QED
  BY <1>1, Inductive, PTL

\* However many requests arrive at first, the module of a bundle is booted once,
\* unless an attempt to initialize fails (LiftFilterComponent.doFilter).
THEOREM BootsOnce == Spec => []BootedOnce
<1>1. Inv => BootedOnce
  BY DEF Inv, AttemptInv, BootedOnce
<1> QED
  BY <1>1, Inductive, PTL

\* A request is served only when Lift has booted and no request boots it
\* (LiftFilterComponent.doFilter).
THEOREM ServedAfterBoot == Spec => []ServesAfterBoot
<1>1. Inv => ServesAfterBoot
  BY DEF Inv, MonitorInv, ServesAfterBoot
<1> QED
  BY <1>1, Inductive, PTL

\* However trackers are opened and closed, and bundles come and go, a module is
\* shut down at most as often as it was booted (LiftBundleTracker.removedBundle,
\* LiftLifecycleManager.stop).
THEOREM ShutsDownOnce == Spec => []ShutDownOnce
<1>1. Inv => ShutDownOnce
  <2> SUFFICES ASSUME Inv, NEW b \in Bundle PROVE shutdowns[b] <= boots[b]
    BY DEF ShutDownOnce
  <2>1. shutdowns[b] \in Nat /\ boots[b] \in Nat
    BY DEF Inv, Types, CountTypes
  <2>2. Cardinality(Live(b)) \in Nat /\ Marks(b) \in {0, 1}
    BY Sizes DEF Live, Marks
  <2>3. shutdowns[b] + Cardinality(Live(b)) + Marks(b) <= boots[b]
    BY DEF Inv, CountInv
  <2> QED
    BY <2>1, <2>2, <2>3
<1> QED
  BY <1>1, Inductive, PTL
=============================================================================
