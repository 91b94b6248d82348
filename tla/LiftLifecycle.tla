--------------------------- MODULE LiftLifecycle ---------------------------
(***************************************************************************)
(* LiftLifecycle: how the web application boots and restarts.  The first   *)
(* request boots Lift (LiftFilterComponent): it opens a tracker of the     *)
(* bundles with a Lift module and boots each of them, in the order of      *)
(* their start levels (LiftLifecycleManager).  Once Lift has booted, a     *)
(* bundle that comes or goes (LiftBundleTracker) has the framework refresh *)
(* Lift (LiftBootHelper): everything stops and starts with fresh classes.  *)
(*                                                                         *)
(* The requests, the thread that deploys bundles and the framework's       *)
(* refresh thread interleave.  What follows a refresh shares nothing but   *)
(* the bundles with what was before it, and begins in an initial state, so *)
(* a behaviour is the life of one set of classes.  Every bundle has a      *)
(* module that can be loaded.  Starting the bundles does not matter: they  *)
(* are tracked from INSTALLED on.                                          *)
(***************************************************************************)
EXTENDS Naturals, Sequences, FiniteSets, SequencesExt

CONSTANTS
  Request,      \* the threads that serve requests
  Bundle,       \* the bundles with a Lift module
  Deployable,   \* those of them that come and go; the others stay
  StartLevel,   \* of a bundle: its start level
  MaxTrackers,  \* bound on the attempts to initialize before a refresh
  MaxDeploys    \* bound on the changes of the set of bundles

ASSUME BundlesAreFinite == IsFiniteSet(Bundle) /\ Deployable \subseteq Bundle
ASSUME StartLevelsAreNumbers == StartLevel \in [Bundle -> Nat]
ASSUME BoundsAreNumbers == {MaxTrackers, MaxDeploys} \subseteq Nat

Tracker == 1 .. MaxTrackers
NoTracker == 0

VARIABLES
  present,     \* the bundles that are installed and not stopping
  system,      \* the state of the system bundle
  phase,       \* of the components: "up", the two steps of stop(), "down"
  booted,      \* LiftFilterComponent.booted
  doneBoot,    \* LiftRules.doneBoot
  rebooting,   \* LiftBootHelper.rebooting
  trackers,    \* the number of trackers made
  bundleTracker, \* the one that LiftLifecycleManager refers to
  open,        \* the trackers that are open
  tracked,     \* of a tracker: the bundles it tracks
  config,      \* of a tracker: the bundles whose LiftBundleConfig is booted
  siteMap,     \* the bundles in the site map: bundlesByStartLevel
  services,    \* the number of registered context providers
  registered,  \* contextServiceReg refers to one of them
  pc,          \* what a request does next
  toBoot,      \* the bundles that are still to be booted, in this order
  renewed,     \* those that were tracked anew, with another LiftBundleConfig
  deployer,    \* the change that is notified, its bundle, a tracker that adds it
  notify,      \* the trackers to be notified
  removed,     \* of a thread that closes trackers: what is to be untracked
  deploys,     \* number of changes
  boots,       \* (history) of a bundle: how often its modules were booted
  shutdowns,   \* (history) of a bundle: how often they were shut down
  failed       \* (history) an attempt to initialize failed

lift == <<booted, doneBoot>>
manager == <<trackers, bundleTracker, siteMap, services, registered>>
tracking == <<open, tracked>>
changes == <<deployer, notify, deploys>>
outside == <<present, system, phase, rebooting, changes, removed>>
queue == <<toBoot, renewed>>
history == <<boots, shutdowns, failed>>
vars == <<present, system, phase, booted, doneBoot, rebooting, trackers, bundleTracker, open,
          tracked, config, siteMap, services, registered, pc, toBoot, renewed, deployer, notify,
          removed, deploys, boots, shutdowns, failed>>

BootSteps == {"track", "open", "snapshot", "boot", "mark", "init", "booted"}
Booting == \E r \in Request : pc[r] \in BootSteps

NoChange == [kind |-> "none"]
Change == [kind : {"add", "track", "remove"}, bundle : Bundle, tracker : Tracker \cup {NoTracker}]
Phase == {"up", "closing", "unregistering", "down"}

\* The state after the classes were loaded, at the start or by a refresh.
Init ==
  /\ present \in SUBSET Bundle /\ Bundle \ Deployable \subseteq present
  /\ booted = FALSE /\ doneBoot = FALSE /\ rebooting = FALSE
  /\ system = "active" /\ phase = "up" /\ deploys = 0
  /\ trackers = 0 /\ bundleTracker = NoTracker /\ open = {}
  /\ tracked = [t \in Tracker |-> {}] /\ config = [t \in Tracker |-> {}]
  /\ siteMap = {} /\ services = 0 /\ registered = FALSE
  /\ pc = [r \in Request |-> "idle"] /\ toBoot = <<>> /\ renewed = {}
  /\ deployer = NoChange /\ notify = {}
  /\ removed = [p \in {"deployer", "framework"} |-> {}]
  /\ boots = [b \in Bundle |-> 0] /\ shutdowns = [b \in Bundle |-> 0]
  /\ failed = FALSE

-----------------------------------------------------------------------------
(* LiftFilterComponent.doFilter *)

At(r, step) == pc[r] = step
Go(r, step) == pc' = [pc EXCEPT ![r] = step]

Arrive(r) ==
  /\ At(r, "idle") /\ phase = "up"
  /\ Go(r, IF booted THEN "serve" ELSE "lock")
  /\ UNCHANGED <<outside, lift, manager, tracking, config, queue, history>>

\* Variant for BootedOnce: booted is not checked again.
ChecksOnce(r) ==
  /\ At(r, "lock") /\ ~Booting /\ Go(r, "track")
  /\ UNCHANGED <<outside, lift, manager, tracking, config, queue, history>>

\* The monitor belongs to the request that boots.
Enter(r) ==
  /\ At(r, "lock") /\ ~Booting
  /\ Go(r, IF booted THEN "serve" ELSE "track")
  /\ UNCHANGED <<outside, lift, manager, tracking, config, queue, history>>

Serve(r) ==
  /\ At(r, "serve") /\ Go(r, "idle")
  /\ UNCHANGED <<outside, lift, manager, tracking, config, queue, history>>

\* An exception: the request fails, and booted stays as it is.
Fail(r) ==
  /\ Go(r, "idle") /\ toBoot' = <<>>
  /\ failed' = TRUE
  /\ UNCHANGED <<outside, lift, manager, tracking, config, renewed, boots, shutdowns>>

-----------------------------------------------------------------------------
(* LiftLifecycleManager.initialize *)

\* The context of a bundle that has stopped cannot be used any more.
ContextFails(r) ==
  /\ phase # "up"
  /\ pc[r] \in {"track", "open"} \/ (At(r, "boot") /\ toBoot = <<>>)
  /\ Fail(r)

\* Variant for ServesAfterBoot: booted is set before Lift is initialized.
TrackAsBooted(r) ==
  /\ At(r, "track") /\ phase # "down"
  /\ trackers < MaxTrackers
  /\ Go(r, "open")
  /\ trackers' = trackers + 1 /\ bundleTracker' = trackers + 1 /\ booted' = TRUE
  /\ UNCHANGED <<outside, doneBoot, tracking, config, siteMap, services, registered, queue, history>>

Track(r) ==
  /\ At(r, "track") /\ phase # "down"
  /\ trackers < MaxTrackers
  /\ Go(r, "open")
  /\ trackers' = trackers + 1 /\ bundleTracker' = trackers + 1
  /\ UNCHANGED <<outside, lift, tracking, config, siteMap, services, registered, queue, history>>

\* open() tracks the bundles there are, or fails if stop() has unset the field.
Open(r) ==
  /\ At(r, "open") /\ phase # "down"
  /\ \/ bundleTracker = NoTracker /\ Fail(r)
     \/ /\ bundleTracker # NoTracker
        /\ open' = open \cup {bundleTracker}
        /\ tracked' = [tracked EXCEPT ![bundleTracker] = present]
        /\ Go(r, "snapshot")
        /\ UNCHANGED <<outside, lift, manager, config, queue, history>>

\* bundlesByStartLevel is what the tracker tracks at this moment.
Snapshot(r) ==
  /\ At(r, "snapshot") /\ Go(r, "boot")
  /\ siteMap' = IF bundleTracker = NoTracker THEN {} ELSE tracked[bundleTracker]
  /\ \E bs \in SetToSeqs(siteMap') :
       /\ \A i, j \in DOMAIN bs : i < j => StartLevel[bs[i]] <= StartLevel[bs[j]]
       /\ toBoot' = bs
  /\ renewed' = {}
  /\ UNCHANGED <<outside, lift, trackers, bundleTracker, services, registered, tracking, config, history>>

\* bootBundle() of the next bundle, up to the call of its module.  A module
\* that fails to boot is only logged.
BootBundle(r) ==
  /\ At(r, "boot") /\ toBoot # <<>>
  /\ \/ /\ Go(r, "mark")
        /\ boots' = [boots EXCEPT ![Head(toBoot)] = @ + 1]
        /\ UNCHANGED toBoot
     \/ toBoot' = Tail(toBoot) /\ UNCHANGED <<pc, boots>>
  /\ UNCHANGED <<outside, lift, manager, tracking, config, renewed, shutdowns, failed>>

\* Its models fail to load.  The bound leaves an attempt to initialize again.
BootFails(r) ==
  /\ At(r, "boot") /\ toBoot # <<>>
  /\ trackers < MaxTrackers
  /\ Fail(r)

\* The module has booted.  The configuration is the one that the last tracker
\* made before bundlesByStartLevel was read.
MarkBooted(r) ==
  /\ At(r, "mark") /\ Go(r, "boot")
  /\ config' = [config EXCEPT ![trackers] = @ \cup ({Head(toBoot)} \ renewed)]
  /\ toBoot' = Tail(toBoot)
  /\ UNCHANGED <<outside, lift, manager, tracking, renewed, history>>

\* The module has booted, but its sitemapMutator throws: this is logged, and
\* the configuration is not marked.
MutatorFails(r) ==
  /\ At(r, "mark") /\ Go(r, "boot")
  /\ toBoot' = Tail(toBoot)
  /\ UNCHANGED <<outside, lift, manager, tracking, config, renewed, history>>

Register(r) ==
  /\ At(r, "boot") /\ toBoot = <<>> /\ phase # "down"
  /\ Go(r, "init")
  /\ services' = services + 1 /\ registered' = TRUE
  /\ UNCHANGED <<outside, lift, trackers, bundleTracker, siteMap, tracking, config, queue, history>>

\* super.init(config): Lift boots with the site map.
BootLift(r) ==
  /\ At(r, "init") /\ Go(r, "booted")
  /\ doneBoot' = TRUE
  /\ UNCHANGED <<outside, booted, manager, tracking, config, queue, history>>

SetBooted(r) ==
  /\ At(r, "booted") /\ Go(r, "serve")
  /\ booted' = TRUE
  /\ UNCHANGED <<outside, doneBoot, manager, tracking, config, queue, history>>

-----------------------------------------------------------------------------
(* LiftBundleTracker, called by the thread that changes a bundle *)

\* What changes when the components are down belongs to their next life.
Deploy(kind, b) ==
  /\ deployer = NoChange /\ deploys < MaxDeploys /\ phase # "down"
  /\ deploys' = deploys + 1
  /\ deployer' = [kind |-> kind, bundle |-> b, tracker |-> NoTracker]
  /\ notify' = open
  /\ \/ kind = "add" /\ b \notin present /\ present' = present \cup {b}
     \/ kind = "remove" /\ b \in present /\ present' = present \ {b}
  /\ UNCHANGED <<system, phase, rebooting, removed, lift, manager, tracking, config, pc, queue, history>>

\* close() by thread p: tracker t is closed, these bundles are untracked next.
Close(p, t, bs) ==
  /\ open' = open \ {t}
  /\ tracked' = [tracked EXCEPT ![t] = {}]
  /\ removed' = [removed EXCEPT ![p] = @ \cup ({t} \X bs)]

\* close() and rebootLift(): the first bundle that is untracked reboots Lift.
CloseAndReboot(p, t, bs) ==
  /\ Close(p, t, bs)
  /\ rebooting' = (rebooting \/ bs = {})

\* Variant for ShutDownOnce: booted is not tested.
ShutdownAnyway(t, b) == shutdowns' = [shutdowns EXCEPT ![b] = @ + 1]

\* removedBundle: only what was booted is shut down.
Shutdown(t, b) ==
  shutdowns' = IF b \in config[t] THEN [shutdowns EXCEPT ![b] = @ + 1] ELSE shutdowns

\* The deployer calls a tracker when it is done with the one before.
Calls(kind, t) == deployer # NoChange /\ deployer.kind = kind /\ t \in notify /\ removed["deployer"] = {}

deployed == <<present, system, phase, deploys, lift, manager, pc, toBoot, boots, failed>>

\* Variant for RestartsOnChange: a new bundle is ignored.
IgnoreBundle(t) ==
  /\ Calls("add", t)
  /\ notify' = notify \ {t}
  /\ UNCHANGED <<deployed, deployer, tracking, config, renewed, removed, rebooting, shutdowns>>

\* Before Lift has booted the bundle will be tracked, afterwards Lift is
\* rebooted.  A closed tracker is not called.
AddingBundle(t) ==
  /\ Calls("add", t)
  /\ \/ /\ ~doneBoot /\ t \in open
        /\ deployer' = [deployer EXCEPT !.kind = "track", !.tracker = t]
        /\ UNCHANGED <<notify, tracking, removed, rebooting>>
     \/ /\ doneBoot /\ t \in open /\ system = "active"
        /\ CloseAndReboot("deployer", t, tracked[t])
        /\ notify' = notify \ {t} /\ UNCHANGED deployer
     \/ /\ t \notin open \/ (doneBoot /\ system # "active")
        /\ notify' = notify \ {t}
        /\ UNCHANGED <<deployer, tracking, removed, rebooting>>
  /\ UNCHANGED <<deployed, config, renewed, shutdowns>>

\* The bundle gets a new LiftBundleConfig.  The tracker may have been closed
\* meanwhile: then the bundle is removed at once.
TrackBundle ==
  LET t == deployer.tracker
      b == deployer.bundle IN
  /\ deployer # NoChange /\ deployer.kind = "track"
  /\ deployer' = [deployer EXCEPT !.kind = "add", !.tracker = NoTracker]
  /\ notify' = notify \ {t}
  /\ \/ /\ t \in open
        /\ tracked' = [tracked EXCEPT ![t] = @ \cup {b}]
        /\ config' = [config EXCEPT ![t] = @ \ {b}]
        /\ renewed' = IF t = trackers THEN renewed \cup ({b} \cap ToSet(toBoot)) ELSE renewed
        /\ UNCHANGED rebooting
     \/ /\ t \notin open /\ rebooting' = (rebooting \/ system = "active")
        /\ UNCHANGED <<tracked, config, renewed>>
  /\ UNCHANGED <<deployed, open, removed, shutdowns>>

\* removedBundle: the bundle is shut down, and Lift is rebooted unless the
\* framework stops.
RemovedBundle(t) ==
  LET b == deployer.bundle IN
  /\ Calls("remove", t)
  /\ notify' = notify \ {t}
  /\ \/ /\ b \in tracked[t] /\ system = "active"
        /\ CloseAndReboot("deployer", t, tracked[t] \ {b})
        /\ Shutdown(t, b)
     \/ /\ b \in tracked[t] /\ system # "active"
        /\ tracked' = [tracked EXCEPT ![t] = @ \ {b}]
        /\ Shutdown(t, b)
        /\ UNCHANGED <<open, removed, rebooting>>
     \/ b \notin tracked[t] /\ UNCHANGED <<tracking, removed, rebooting, shutdowns>>
  /\ UNCHANGED <<deployed, config, renewed, deployer>>

\* removedBundle for a bundle of a tracker that thread p has closed.
Untrack(p) ==
  /\ \E tb \in removed[p] :
       /\ Shutdown(tb[1], tb[2])
       /\ removed' = [removed EXCEPT ![p] = @ \ {tb}]
  /\ rebooting' = (rebooting \/ system = "active")
  /\ UNCHANGED <<deployed, deployer, notify, tracking, config, renewed>>

Deployed ==
  /\ deployer # NoChange /\ notify = {} /\ removed["deployer"] = {} /\ deployer.kind # "track"
  /\ deployer' = NoChange
  /\ UNCHANGED <<deployed, notify, removed, tracking, config, renewed, rebooting, shutdowns>>

-----------------------------------------------------------------------------
(* The framework refreshes Lift, or stops *)

SystemStops ==
  /\ system = "active" /\ phase # "down" /\ system' = "stopping"
  /\ UNCHANGED <<present, phase, rebooting, changes, removed, lift, manager, tracking, config, pc, queue, history>>

\* LiftLifecycleManager.stop() begins.  A refresh for another reason, such as
\* an update, may start it too.
Stop ==
  /\ phase = "up"
  /\ IF bundleTracker \in open
     THEN phase' = "closing" /\ Close("framework", bundleTracker, tracked[bundleTracker])
     ELSE /\ phase' = IF bundleTracker # NoTracker THEN "closing" ELSE "unregistering"
          /\ UNCHANGED <<tracking, removed>>
  /\ UNCHANGED <<present, system, rebooting, changes, lift, manager, config, pc, queue, history>>

Closed ==
  /\ phase = "closing" /\ removed["framework"] = {} /\ phase' = "unregistering"
  /\ bundleTracker' = NoTracker
  /\ UNCHANGED <<present, system, rebooting, changes, removed, lift, trackers, siteMap, services, registered, tracking, config, pc, queue, history>>

\* Variant for TypeOK: contextServiceReg is not tested.
UnregisterAnyway ==
  /\ phase = "unregistering" /\ phase' = "down"
  /\ services' = services - 1 /\ registered' = FALSE
  /\ open' = {}
  /\ UNCHANGED <<present, system, rebooting, changes, removed, lift, trackers, bundleTracker, siteMap, tracked, config, pc, queue, history>>

\* The end of stop().  The listeners of a stopped bundle are gone.
Unregister ==
  /\ phase = "unregistering" /\ phase' = "down"
  /\ services' = IF registered THEN services - 1 ELSE services
  /\ registered' = FALSE
  /\ open' = {}
  /\ UNCHANGED <<present, system, rebooting, changes, removed, lift, trackers, bundleTracker, siteMap, tracked, config, pc, queue, history>>

-----------------------------------------------------------------------------

BootStep(r) ==
  \/ Enter(r) \/ Track(r) \/ Open(r) \/ Snapshot(r) \/ BootBundle(r) \/ MarkBooted(r)
  \/ MutatorFails(r) \/ Register(r) \/ BootLift(r) \/ SetBooted(r)

DeployerStep ==
  \/ \E t \in Tracker : AddingBundle(t) \/ RemovedBundle(t)
  \/ TrackBundle \/ Untrack("deployer") \/ Deployed

StopStep == Untrack("framework") \/ Closed \/ Unregister

Next ==
  \/ \E r \in Request : Arrive(r) \/ BootStep(r) \/ BootFails(r) \/ ContextFails(r) \/ Serve(r)
  \/ \E b \in Deployable : Deploy("add", b) \/ Deploy("remove", b)
  \/ DeployerStep \/ SystemStops \/ Stop \/ StopStep

\* A thread that notifies a change runs on, and the framework's refresh
\* thread, which stops the components, is started by refreshBundles().
Spec == Init /\ [][Next]_vars /\ WF_vars(DeployerStep) /\ WF_vars(rebooting /\ Stop)

-----------------------------------------------------------------------------
(* Properties *)

\* Every variable has its type: trackers are numbered, only bundles are
\* booted, and the number of registered providers does not fall below zero.
TypeOK ==
  /\ present \subseteq Bundle /\ system \in {"active", "stopping"} /\ phase \in Phase
  /\ {booted, doneBoot, rebooting, registered, failed} \subseteq BOOLEAN
  /\ trackers \in 0 .. MaxTrackers /\ bundleTracker \in 0 .. trackers
  /\ open \subseteq 1 .. trackers
  /\ tracked \in [Tracker -> SUBSET Bundle] /\ config \in [Tracker -> SUBSET Bundle]
  /\ siteMap \subseteq Bundle /\ services \in 0 .. MaxTrackers
  /\ pc \in [Request -> {"idle", "lock", "serve"} \cup BootSteps] /\ toBoot \in Seq(Bundle)
  /\ renewed \subseteq Bundle
  /\ deployer \in Change \cup {NoChange} /\ notify \subseteq Tracker
  /\ removed \in [{"deployer", "framework"} -> SUBSET (Tracker \X Bundle)]
  /\ boots \in [Bundle -> Nat] /\ shutdowns \in [Bundle -> Nat]

\* However many requests come at first, the module of a bundle is booted once
\* until the next refresh, unless an attempt to initialize Lift failed and the
\* next request began anew (LiftFilterComponent.doFilter, the double check).
BootedOnce == failed \/ \A b \in Bundle : boots[b] <= 1

\* A request is served only after Lift has booted, and not while another
\* request still boots it (LiftFilterComponent.doFilter, initialize).
ServesAfterBoot == \A r \in Request : pc[r] = "serve" => doneBoot /\ ~Booting

\* A module is shut down at most as often as it has been booted.  removedBundle
\* closes the tracker that has called it, stop() closes it on another thread,
\* a failed attempt leaves a second tracker behind, and a bundle may be tracked
\* anew while the module of its first LiftBundleConfig boots: booted is never
\* reset (LiftBundleTracker: "only shutdown bundles which where actually
\* booted").
ShutDownOnce == \A b \in Bundle : shutdowns[b] <= boots[b]

\* The bundles that came while Lift booted: they are tracked, but never booted.
Late ==
  UNION {tracked[t] : t \in open} \cup (IF deployer # NoChange /\ deployer.kind = "track" THEN {deployer.bundle} ELSE {})

\* Lift has booted with a bundle that is gone, or without one that is there.
Outdated ==
  /\ booted /\ phase = "up"
  /\ siteMap \ present # {} \/ present \ (siteMap \cup Late) # {}

\* When Lift runs with other modules than there are bundles, the components
\* are stopped to be started anew, unless the framework stops.  A bundle that
\* came while Lift booted and is tracked only is the exception.
RestartsOnChange == Outdated ~> (phase # "up" \/ system = "stopping")
=============================================================================
