# Verification of enilink

enilink is a platform for linked data applications: an OSGi application written in
Java and Scala that keeps RDF models in a *model set* (the KOMMA library over RDF4J
repositories), controls who may read and change them, and offers them through web
pages (Lift), REST services, a Linked Data Platform (LDP) server and client, and an
Eclipse RAP workbench. This directory holds TLA+ specifications of the parts of it
that are hard to test, the TLC runs that check them on small instances, and proofs,
checked by TLAPS, for every instance. `PROJECT.json` maps each definition to the
lines it models and lists the runs, the mutants that show a property can fail, the
hazards of the code, the findings and the theorems.

Checking: `tlc -config X.cfg M` for a run, `tlapm M.tla` for a module with proofs.

## 1. Inventory

Paths are relative to `src/bundles`; *hard* is what tests would hardly reach.

| Component | State | Operations | Meets others through | Hard | What makes it correct |
|---|---|---|---|---|---|
| **SecureDataManager**, SecureTransaction (`core/…core/security`) | per unit of work: deferred operations (`ops`, `blockedOps`, `checkedOps`, `nextOp`), known modes of resources | add, remove, begin, commit, rollback; `execute()` with its searches for writable chains | reads and writes the delegate's store | order in which operations are released; modes cached while the store changes; a refused operation in the middle of a commit; termination | no operation lost or doubled; no detached blank node changed; only a commit that ends shows changes; what may be changed follows from the access control lists; `execute()` ends |
| **SecureModelSetSupport**, SecureEntitySupport | cached modes per model and user | isReadableBy, writeModeFor, createModel | meta data listener | cache older than the meta data | a decision is never older than the last notification |
| **FileStore** (`core/…core/blobs`) | directories and files | store, copy, move, delete, setProperties | one instance for all requests (`Globals.fileStore`), file system | concurrent stores and deletes in the same directories; interrupted writes | no file is left unfinished, no directory empty; a store only fails for a reason |
| **ModelSetManager**, LazyModelSupport | the model set, created on first use | getModelSet, shutdown | services of OSGi | creation by several threads; shutdown while in use | one model set at a time |
| **SessionModelSetSupport** | adapter sets by session | adapters() | HTTP session | double checked creation | one adapter set per session |
| **ConfigHashGraph** | statements of the configuration | load | files, bundles | cyclic owl:imports | the closure is complete and finite |
| **PluginConfigManager** | configuration models, watcher thread | service factory, bundle listener, watcher | bundles, file system events | three threads load and clear the same model; lost events | a running bundle sees the configuration of its file |
| **EnilinkLoginModule**, AccountHelper, UserMapLoginModule, Login, Register | principals of the subject; users in the meta data | login, commit, abort, logout, createUser, linkExternalIds | JAAS, model set | find, create and link are separate steps | one user per external identity |
| **Lift boot**: LiftFilterComponent, LiftLifecycleManager, LiftBundleTracker, LiftBootHelper | booted, doneBoot, the tracker and what it tracks, configurations, the registered context provider | doFilter, initialize, bootBundle, addingBundle, removedBundle, rebootLift, stop | OSGi bundle events, requests, the framework's refresh | first requests in parallel; bundles that come and go while Lift boots; a stop while it boots; exceptions after a module's boot | one boot; a request waits for it; nothing is shut down that was not booted; a changed set of bundles restarts Lift |
| **LDP client**: LdpClient, LdpCache, LdpCacheRepository (`web/…ldp`) | `eTagCache`, `floodBlock`, `lookupCache`, the cache's repository | getStatements → update → needsUpdate, acquireRemoteStatements; activate, deactivate | HTTP, federation of repositories | concurrent updates of one resource; failures between remembering an ETag and storing statements; restarts | what counts as up to date is; the cache catches up |
| **LDP server**: LDPHelper, containers, RdfSourceSupport | resources, containers and membership in several models; `reqNr` | POST, PUT, PATCH, DELETE | model set, FileStore | several models changed without a transaction; request counter; an entity tag made after the content was read; blobs shared by content | a PUT removes nothing its client has not seen; names are not used twice; a resource has its blob, a blob its resource |
| **LD Patch** (`web/…ldp/ldpatch`) | none | parse, apply (list slices) | LDP server | index arithmetic of slices | list after = slice replaced |
| **REST services**: ModelsRest, SparqlRest, FileService | none of their own | upload, delete, query, files | model set, FileStore | upload while the model is used | – |
| **ChangeTracker** (`workbench`) | collected changes, executor task, audit models | listener, commitChanges, deactivate | data change notifications on user threads | changes that arrive during a commit; its own notifications | every change audited once, in order, with its author |
| **Inline editing**: edit.js, X-editable, Edit.scala (`web/…lift`) | nodes of the page, forms, promises, requests under way | edit, add, remove, submit, cancel, escape; setValue, removeValue | Lift's queue of requests, the model | answers in any order, refused, lost or without markup; a node removed while it is edited | the page shows the values in the model; a form closes for a reason and does not stay saving |
| **Property input**: properties.js (`web/…web`), typeahead.js | text, query, menu, cursor, timers, sections of the page | type, arrow, point, select, escape, blur, answers | propose and render requests | late answers, a debounce timer, deferred calls | proposals belong to the query, and come; one section per property |
| **Workbench views**, **RDFa templates and snippets** | user interface | – | the components above | – | – |

Left aside: vendored JavaScript (but for the parts of X-editable and typeahead.js that
decide how the two browser components behave), generated parsers, product and build definitions.

## 2. Modules

| Module | What it is |
|---|---|
| `Rdf` | terms, statements, patterns and matching: what the code uses of KOMMA (external) |
| `UnitOfWork` | abstract specification: what a data manager promises about a unit of work |
| `SecureDataManager`, `MCSecureDataManager` | the data manager of one user and one set of contexts; values for TLC |
| `SecureDataManagerProofs` | lemmas about sequences; type correctness, conservation of operations, refinement of `UnitOfWork`, no detached blank node changed |
| `FileStore`, `MCFileStore`, `FileStoreProofs` | the blob store of concurrent threads, call by call of `java.nio.file.Files` |
| `LdpClient`, `LdpClientProofs` | the LDP client cache, request by request and transaction by transaction |
| `ChangeTracker`, `MCChangeTracker`, `ChangeTrackerProofs` | listener, executor and audit models |
| `LdpServer`, `MCLdpServer` | concurrent requests for the RDF sources of one container of the LDP server |
| `LiftLifecycle`, `MCLiftLifecycle`, `LiftLifecycleProofs` | boot on the first request, bundle tracker, reboot and stop |
| `InlineEdit`, `MCInlineEdit`, `InlineEditProofs` | editing the values of a property on a page, with the commands of the server |
| `PropertyInput`, `MCPropertyInput`, `PropertyInputProofs` | the field that looks for a property, with the library that drives it |

### SecureDataManager

The variables carry the names of the fields of `SecureOps`. `pc` is where `execute()`
is: `ops` (in `flushOperations`/`loadNextOp`, or at the loop over the roots), `chain`
(in `writeModeFromChain`), `granted` and `refused` (after it). `phase` is the unit of
work: `none`, `open` (in a transaction), `commit` (in `commit()`), `auto` (a call
without a transaction). A `commit()` that throws leaves the unit of work `open`, with
what it has applied: the user may roll back, go on, or commit again, and the abstract
specification says so. `base` is what other connections read, `store` what this one
does. `accepted`, `done`, `links`, `ownAcls`, `granted` and `claimed` are history
variables; `granted` is computed from the access control lists in the store, never from
`resourceModes`, which is the cache under test. `claimed` has the named objects of
operations on blank nodes, which `unlock()` makes writable: `NoDetachedChange` allows for
them, and that they are no grant is what `NamedChangeIsGranted` is about, and refuted.

Each action is one step of the loop of `loadNextOp()`, one node of the search, or one
root of `execute()`, with the guards in the order of the code. Operations that the
delegate's `add`/`remove` take from the iterator are applied one by one
(`ApplyNextOp`); without a transaction each of them is committed at once, as the
repository does. A search that asks for the object of an added statement (`roots`
empty) differs from one for a root by where its result goes.

Abstractions: an authorization that applies to the user is an `accessTo` statement and
its `mode` statements (the query of `SecurityUtil` also knows owners, agent classes
and classes of resources); four predicates; the system user, who may do everything,
is left out. The enumeration value `ADD` is never computed by the code, so the check
`unlock()` makes for remove operations cannot fail, and is not an action.

### FileStore

One action is one call of `java.nio.file.Files`, and `createDirectories` is one action
per directory it creates. A file is absent, unfinished or complete; `opened` has the
threads that have it open, `last` the one that truncated it last: when that one is
through the file is complete, while one that opened it before may leave a gap where it
was truncated. `damaged`, `disturbed` and `failed` are history. The calls themselves are the JDK's:
`createDirectories` makes one call after the other, `move` and `copy` want a free
target, `delete` an empty directory, and `copy` removes its target when it fails.
Blobs differ by key only: equal keys mean equal content, as the class assumes of its hashes.

### LdpClient

Several readers ask for statements about one resource below an endpoint. A step is one
access to a shared map (`CheckFlood`, `Block`, `Compare`, `Remember`), one HTTP request
(`Head`, `Get`) or one transaction (`Remove`, `Add`). The server's resource has a
version, from which its ETag follows, and two statements about itself (so that a
response may break off between them) and one about a resource below it. Versions do
not come back. `Activate` creates a new repository; `conn` tells which one a reader's
connection belongs to. The maps of LdpClient are unsynchronised `HashMap`s; that they
may lose entries of other keys when they grow is not modelled.

### ChangeTracker

`future` is the field, `due` the number of tasks the executor has still to start: the
code keeps the two apart, and `NoneStranded` is about their agreement. The statements
of the change descriptions of a model are kept in the order they are written, each with
its author. The listener is called on the thread that
makes a change, also on the executor's when it writes an audit model: it then records
nothing but schedules a task. Of a transaction's changes only their number for each model
is kept: the listener sorts them by model, and what is written does not depend on the
order of changes of two models. A changed statement is known by its model, transaction
and place, so that one that is lost, doubled or filed under another model is noticed.

### LdpServer

An RDF source is the set of statements about its name in the container's model. A step
is one access of a request to `reqNr` or the model: `reqNr += 1` is a read (with the
request's arrival: `Post`, `PutNew`) and a write (`WriteCount`), and the name is made of
a third access (`TakeName`), unless a PUT brings one, by its URI or in the header
`Slug`, which may be the name of an existing resource. Statements are added one by one
(`AddStatement`), after `removeRecursive` when a PUT replaces (`RemoveOld`). GET reads
the content and then, with the answer, takes the time of the entity tag (`Get`, `Tag`).
`Matches` is `headerMatch()`: the slot or the length agrees, or the content has a
`dcterms:identifier` (`Keyed`). An exception may end a request between any two steps
(`Fail`). `changed` is history: the slot of a resource's last change.

### LiftLifecycle

`pc` follows a request through `doFilter()`: waiting for the monitor (`lock`), the
steps of `initialize()` (`track`, `open`, `snapshot`, `boot`, `mark`), `super.init`
(`init`), `booted = true` (`booted`) and the request itself (`serve`). A request that
boots holds the monitor. `Deploy` begins the notification of a change of a bundle to
the trackers that are open; `close()` inside of it untracks the bundles one by one
(`Untrack`), each a call of `removedBundle()`. `Stop`, `Closed` and `Unregister` are
the steps of `stop()`. A module that has booted is marked (`MarkBooted`) unless its
`sitemapMutator` throws (`MutatorFails`), which the code logs and forgets. A
configuration belongs to a tracker and to one tracking: a bundle that goes and comes back
while Lift boots has a new one (`renewed`), which the mark of the old one does not
reach. A behaviour is one life of the classes: a refresh discards them all and begins
with an initial state, in which any bundles may be there.

### InlineEdit

One action is one event of the browser with all the handlers it runs, or one request
handled by the server. A target is a node with a value or a control with `data-add`.
X-editable keeps the options, and with them the closures, of the first call on a
target (`Attached`): `via` names the call whose closures a later one got. A form is
`closed`, `rendering` (its editor is loaded), `open` or `saving`; `delayedHide` is
X-editable's wish to hide it when it no longer saves. The server may refuse a change,
cancel it with an empty message, or answer without markup. Lift sends one request at a
time but retries failed ones later and gives up in the end; the module lets answers
come in any order and lets them be lost.

### PropertyInput

`text` is the value of the input element, `query` what typeahead.js takes for typed,
`shown` the menu and the query it was rendered for. `asked` and `canceled` are the
fields of its Dataset, `timer` the debounce timer of `source()`, `emptying` the
deferred calls of `Dropdown.empty` after a selection, `retype` the timer of 50 ms
after a prefix was chosen. A proposal names a property, is a prefix, or is neither. The
cursor follows the arrow keys, which put its proposal into the text, and the mouse, which
does not (`Mouse`). Texts that differ in white space only are the same query
(`CheckInputValue`).

## 3. Runs

| Run | Bounds | Shows |
|---|---|---|
| `secure_ops` (pass) | 3 blank nodes, 2 stores, 9 calls, 3 operations per unit of work; 350 000 states | types, conservation, attachment, refinement, termination |
| `secure_ops_cycle` (violation) | the same nodes, a call that adds two mutually linked blank nodes | `execute()` never ends |
| `secure_ops_granted` (violation) | the same nodes, nothing but the authorization in the store, 3 calls | a named resource is changed that no list grants |
| `file_store` (pass) | 3 threads, 3 keys in 2 directories, 2 levels, 4 operations, 1 fault; 1.9 million states | what is left when all operations returned; why a store fails |
| `file_store_crash` (violation) | 1 thread, 2 operations, 1 fault | a later store takes an unfinished file for the blob |
| `ldp_client` (pass) | 1 reader, 3 versions, 2 failing requests, 1 failing transaction; 54 000 states | up to date means up to date; catching up |
| `ldp_client_readers` (violation) | 2 readers, 2 versions, no faults | an old version counts as up to date |
| `change_tracker` (pass) | 2 models, 2 users, 3 transactions of 1 or 2 changes, 1 switch of trackChanges, 1 failing write; 807 000 states | audit complete, no change stranded, rest |
| `inline_edit` (pass) | 1 node and 2 controls, 3 values, 2 calls of edit and add, 3 requests; 240 000 states | the page agrees with the model; forms close and promises settle |
| `property_input` (pass) | 6 texts, 4 proposals, 2 properties, 5 events of the user; 248 000 states | no old proposals come back, the last ones come |
| `ldp_server` (violation) | 2 clients, 1 slug, bodies of 1 or 2 statements, 3 changing requests, 2 time slots | a PUT removes what its client has not seen |
| `lift_lifecycle` (pass) | 2 requests, 2 bundles of which one comes and goes, 2 attempts to initialize, 1 change of the bundles; 1.1 million states | one boot, service after it, no shutdown without a boot, restart |

Why the bounds are enough. *secure_ops*: a chain needs a writable resource and two
blank nodes, a second chain to refuse, and a node both lead to; three operations are
needed to block one, release it by a second and have a third that follows it; the
batches include a new access control list, a reference to oneself, a pattern without a
subject and one that removes nothing. *file_store*: a store is disturbed by a delete in
the same directory, and the delete by a third thread in the sibling directory; two
levels are the least for which `createDirectories` makes a parent (the code has three,
and treats every level alike). *ldp_client*: the version must change before, between
and after HEAD and GET. What several readers do to each other is the run
`ldp_client_readers`, whose bounds are the least that show it. *change_tracker*: three
transactions give two descriptions of two users with a change arriving between them,
and a description of several statements.
*inline_edit*: two calls are the least for a target that keeps the options of the
first; three requests let the choices of a select, a change and a removal be under way
together; the node answers bring can be edited in turn. *property_input*: five events
reach a query, a proposal, its selection and another query before the first answer; one
text is another with a space, and one proposal is neither a property nor a prefix.
*ldp_server*: one client reads and replaces what the other creates. Clients are
interchangeable, and the property is about single steps, so symmetry is sound.
`Keyed` is FALSE, so that the trace does not take the short way of a resource with a
`dcterms:identifier`, which accepts any tag. *lift_lifecycle*: the second
attempt to initialize follows a failed one; two bundles are needed for an order and for
a bundle that another one's change untracks. A bundle that is tracked a second time while
its module boots (`renewed`) takes two changes; the run has one to stay within minutes.
With one bundle and three changes it passes too, and the proofs are for any number.

Deadlock is checked in the `secure_ops` runs. In the others the bounds on operations,
versions, requests, events and changes end every behaviour (in `lift_lifecycle` the
stop ends it), and threads that stay idle are no error.

The violation runs are findings (see `PROJECT.json`):

* `execute()` looks for roots among the blocked subjects that no other blocked
  operation refers to. Blank nodes in a cycle have none; the exception "Some statements
  violate the security constraints." stands behind the loop and is never reached.
* `unlock()` records every object of the operations it releases as writable, named
  resources too, and `writeMode()` asks this cache first, though its comment says that
  a query is executed for a named resource.
* The time in an entity tag is that of the answer, the content it stands for was read
  before: a PUT with such a tag removes what was added in between, though the answer of
  a PUT that does not match speaks of avoiding mid-air collisions.
* `FileStore.store` takes an existing file for identical, though it writes files in
  place: an interrupted write is never repaired.
* Two readers of one LDP resource may both update it; the one that stores last need
  not be the one whose ETag is remembered last. The same race lets the
  transactions of the two alternate, so that the cache holds statements of two versions.

## 4. Fairness

* `SecureDataManager`: weak fairness of `Execute`, the steps of a call that has begun:
  they run on the user's thread until the call returns or throws. Users are free to stop.
* `LdpClient`: weak fairness of time (`Tick`) and of each reader's request once begun.
  New requests are not assumed: `CatchesUp` is for behaviours in which the resource is
  read again and again.
* `ChangeTracker`: weak fairness of the executor's steps: its thread runs the tasks
  that are due. Users, switches and deactivation have none.
* `InlineEdit`: weak fairness of one step: some request is served or answered as long as
  there are any. Lift's queue sends what is due; no request is assumed to be answered
  rather than given up (`SavesEnd` allows for a lost answer). Users have none.
* `PropertyInput`: weak fairness of the three timers (`Propose`, `DeferredEmpty`,
  `Retype`), which the browser runs, and of the answers. Users have none.
* `LiftLifecycle`: weak fairness of the thread that notifies a change (`DeployerStep`) and
  of `Stop` once a reboot was asked for: `refreshBundles()` starts the framework's own
  refresh thread. Requests, boots and changes have none.
* `FileStore` and `LdpServer` have only safety properties and no fairness.

## 5. Proofs

Proved for every set of terms, stores, batches and number of operations, from the
assumptions of `Rdf` and `SecureDataManager` (the kinds of terms are disjoint, blank
nodes and stores are finite, batches are sequences of requests, the user is a named
resource):

* `TypeCorrect`: `Spec => []TypeOK`. The types alone are not inductive: what moves into
  `chain` and `roots` must be blank nodes, which depends on where `execute()` is
  (`TypeInv`).
* `Conservation`: `Spec => []OpsConserved`. The inductive invariant `QueueInv` adds that
  the queues hold no operation twice and are pairwise disjoint in their numbers;
  without that, taking the head of one queue would not be known to remove it from the
  pending operations.
* `Refinement`: `Spec => ImplementsUnitOfWork`, with `work <- store` and `pending` the
  operations accepted since the last commit that are not done. It says that changes are
  shown by a commit that ends only, and what a failed one leaves; it does not say that
  a transaction is all or nothing, which is not so when a user commits again after a
  failure. Every action is mapped to a step of
  `UnitOfWork` or to stuttering; `PhaseInv` says that nothing is in flight outside of
  `execute()`, and `Conservation` that the queues are empty exactly when nothing is pending.
* `NoDetached`: `Spec => []NoDetachedChange`. A node is attached when every set of blank
  nodes that is closed under the links seen so far, and contains what granted and claimed
  resources lead to, contains it. `AttachInv` says that every blank node whose recorded
  mode is MODIFY is attached, that all visited nodes of a search are attached once one
  of them is (`Together`), and that the operations about to run have attached subjects.
  `NamesInv` says what makes a named resource writable: the access control lists of the
  store, or an operation on a blank node that names it (`claimed`).

`ChangeTrackerProofs`, for all models, users, lists of changes and bounds (which are
numbers; a list counts the changes of each model):

* `TypeCorrect`, `NothingLost` (`AuditComplete`) and `TaskDue` (`NoneStranded`), all from the inductive invariant `Inv`. It adds that
  `commitChanges()` holds no changes while it does not run (without that, taking the
  collected changes could overwrite others), and that a task is due while the field
  `future` is set. The lemma `WrittenAndTaken` says that a
  description of changes of one user moves them to the audit model as they were.

`FileStoreProofs`, for all threads, keys, levels and bounds (assumed: the path of every
key has `DirLevels` names, at least one; the bounds are numbers; `Null` is no thread):

* `TypeCorrect`, from `TypeInv`. That the directories are a tree is a part of the types;
  it is inductive in the form `Tree` (with a directory of a key's path all those above it
  exist), which `TreeGrows` and `TreeShrinks` keep. `ThreadInv` says which calls an
  operation makes and at which levels.
* `FilesComplete` (`CompleteWhenQuiet`), from `FileInv`: an unfinished file is damaged or
  has a thread that truncated it last, and that thread is at its write, with this key.
* `StoresFail` (`StoreFailsOnlyIfDisturbed`), from `StoreInv`: a thread that was not
  disturbed finds every directory it has made or found. Only a removed directory could
  break it, and that disturbs whoever is busy (`DirsStay`).
* `NoEmptyDir` (`NoEmptyDirWhenQuiet`), from `EmptyInv`: an empty directory is the concern
  of some thread, which is about to put something into it or to look whether it is
  empty. Each lemma `KeptBy…` follows one kind of call: a removed directory leaves the
  one above to the same thread, and a thread gives up only where its directory is gone
  or has something in it.

`LdpClientProofs`, for all versions and bounds (numbers, `Null` is none):

* `TypeCorrect`, for any readers.
* `UpToDate` (`UpToDateUnlessStoreFails`), for one reader, a server that sends ETags and one
  activation (`Undisputed`; the configuration of the run `ldp_client`, but for the bounds).
  None of the three can be dropped: a second reader is the finding, and after a second
  activation `eTagCache`, which is static, speaks of a repository that is gone.
  `TagInv` says that the remembered ETag is older than the server's, or is the one of the
  statements that are stored or about to be stored (`Behind`, `Holds`, `Carries`); a
  response that breaks off leaves it behind.

`LiftLifecycleProofs`, for all requests, bundles, changes and bounds (bundles are finitely
many, start levels and bounds are numbers), from the inductive invariant `Inv`:

* `TypeCorrect` needs `ProviderInv`: every attempt registers one context provider at most.
* `ServedAfterBoot` (`ServesAfterBoot`), from `MonitorInv`: one request at most is in
  `initialize()`, and `booted` follows `doneBoot`.
* `BootsOnce` (`BootedOnce`), from `AttemptInv`: as long as none failed there is one attempt,
  its list has no bundle twice, and a bundle that is still on it is not booted yet.
* `ShutsDownOnce` (`ShutDownOnce`), from `CountInv` and `PlaceInv`: a configuration whose
  module has booted is in one place, tracked by one open tracker, untracked next, or about
  to be marked, so that shutdowns, configurations in place and marks to come are together
  no more than boots. `PlaceInv` says that a closed tracker has given its bundles to one of
  the two threads that close trackers, `FreshInv` that an attempt to initialize begins
  with an empty one.

`InlineEditProofs`, for all pages, values, controls and bounds (assumed: the page shows
every value of the model once; controls are not nodes; the bounds
are numbers):

* `TypeCorrect`, `OneRequest` (`SavingHasRequest`), `NoFormLeft` (`RemovedHasNoForm`) and
  `PromiseSettled` (`FinishedSettles`), from the inductive invariant `Inv`. `FormInv` pairs
  saving forms and changes on their way, `CallInv` says which call's options a form runs
  with, and that a call that waits for its choices has opened nothing. Answers bring new
  nodes: `NodesLeft` counts those that are left for them, `BirthInv` says that nobody
  knows a node before.
* `ClosedByAnswer` (`ClosesOnlyWhenSaved`, an action property), action by action.
* `PageAgrees` (`PageAgreesWithStore`), from `StoreInv`: every value of the model belongs to
  exactly one target, which shows it or will once the answers that are under way have come
  (`Holds`), as long as no node is changed twice at a time (`Apart`).

`PropertyInputProofs`, for all texts, properties, proposals and numbers of events (the
assumptions say what a proposal is, and that prefixes are long enough to be asked for):

* `TypeCorrect`; `MenuNotStale` (`StaleOnlyWhileWaiting`), from `MenuInv`: a field without
  the focus has an empty menu that nothing fills, and a Dataset that is not canceled has
  asked for the query.

Every inductive invariant was checked by TLC as an invariant of the run of its module
before it was proved.

Only model-checked: the liveness properties `ExecuteEnds`, `CatchesUp`, `ComesToRest`,
`SavesEnd`, `SuggestionsCome` and `RestartsOnChange`, since fairness and ENABLED are out of
the prover's reach. Every invariant and action property of the passing runs is proved.

## 6. Plan

Theorems to come:

1. Steps of the liveness arguments as safety theorems: a measure that every step of
   `Execute` in `SecureDataManager` and of the executor in `ChangeTracker` makes smaller.
2. An abstract specification of what `FileStore` promises (blobs by key), and the module
   shown to implement it.

Modules to come:

* `LdpServer`: binary resources and their blobs, composed with `FileStore`; membership and
  the other container types, PATCH, a restart.
* `PluginConfig`: watcher, bundle listener and service factory.
* `Accounts`: login, registration and mapping of external identities by concurrent logins.
* `SecureTransaction`: several sets of contexts and users in one transaction, composed
  of instances of the data manager's abstract specification; `AclCache` beside it.
* the access control widget of the web pages, beside `PropertyInput`; `ConfigGraph` and the
  list slices of LD Patch as pure functions against reference definitions.

## 7. Not modelled, and why

* Markup, templates, RDFa and SPARQL text: transformations whose content a model
  checker does not tell apart.
* Views of the workbench: they keep no state beyond the widgets.
* Libraries (KOMMA, RDF4J, Lift, the JDK): only as the code uses them, marked external.
* Reads inside of a transaction, which do not see the deferred operations, and several
  sets of contexts in one transaction, executed set by set.
* `LdpClient`: `getEndpoint()` remembers that a resource has no endpoint, so endpoints
  registered later are not seen. The step is modelled; neither code nor documentation
  says what should hold. The same is true of `trackChanges`, which the listener of
  `ChangeTracker` looks at once per model.

About the share of the code that is mapped. Counted by language, most lines of the
repository are JavaScript, and of its 54 868 lines about 96 % are copies of libraries
(the Orion editor, jQuery, rdfQuery, Select2, Bootstrap, the file upload): they are not
enilink's program, and a specification of them would not say anything about it. The
project's own JavaScript is about 1 350 lines. Of those the two files with
asynchronous behaviour (`edit.js`, `properties.js`) are modelled, with the parts of
X-editable and typeahead.js they rest on. The core of the system is Java and Scala, which
the other modules are about.

What the models, or the parts of the code left out, leave room for, beside the findings
above:

* Inline editing. A second `edit()` of a target keeps the first call's options, so that
  its own promise never settles; `add()` without markup in the answer never settles its
  promise either; one that was rejected stays so when the user tries again with success.
  A removal that the server refuses is answered by true, and the node goes
  (Edit.scala:199–202). The empty message of a cancelled command counts as success. A
  node removed while its re-edited value is saved leaves that value in the model,
  unseen. Escape while a form saves hides the error that comes.
* Property input. The debounce timer outlives a selection; the deferred `empty()` may cancel a
  query typed right after one; the timer of 50 ms overwrites what was typed meanwhile. An
  answer that replaces the menu while the cursor is in it leaves the text of a proposal
  nobody chose, and so does the mouse that takes the cursor from a proposal the arrows had
  put into the text. A property added twice before its section comes gets two.
* LDP server. Names are made of `reqNr`, which concurrent requests count up without
  synchronisation and which starts from 0 after a restart, and a PUT may take a name that
  POST gives later, or by its header `Slug` that of an existing resource, whose statements
  then mix ("SHOULD NOT re-use URIs", LDPHelper.scala:51, 375). Deleting or replacing one
  binary resource takes the blob of every other with the same bytes; storing the new one may
  fail after the old one is gone; a DELETE with a trailing slash deletes the blob and
  leaves the statements. If-Match is always true for a resource with a `dcterms:identifier`
  (line 541). A binary POST adds no `ldp:contains`, so that DELETE of such a resource answers 400 though
  it has removed it. The answer "not modifiable" (line 229) is built and dropped.
  `createNewFromPut` is one field for all requests, reset by a POST only: until then a PUT
  that replaces is answered by 201 and without an entity tag.
* Secure data manager. An operation whose subject's mode has become known stays blocked until
  a later round releases it, and operations that follow overtake it. A second commit after a
  failed one shows the partial changes of the first.
* LDP client. The ETag is remembered before the statements are stored: a transaction that
  fails leaves old statements that count as up to date. `eTagCache` outlives the component
  and its repository.
* Change tracker. The order of change descriptions is kept by a date in milliseconds only. An
  exception for one model loses the changes of the models that follow.
* Lift. A bundle that comes between the tracker's `open()` and the end of the boot is
  tracked but not booted until the next restart. A bundle that goes, or a stop, while
  Lift boots leaves modules that are booted later and never shut down, and so does a
  `sitemapMutator` that throws after its module has booted. A failed
  `initialize()` leaves its tracker open, and the next one boots the modules again. A plain
  `stop()` asks for a reboot as well, through `removedBundle()`.
