--------------------------- MODULE ChangeTracker ---------------------------
(***************************************************************************)
(* ChangeTracker: the component of the workbench that keeps an audit model *)
(* for every model whose changes are to be tracked.  A listener collects   *)
(* the changes on the threads of the users that make them; a task on an    *)
(* executor with one thread writes what was collected within a second,     *)
(* grouped to change descriptions of one user each.                        *)
(*                                                                         *)
(* One action is what happens under the monitor of changesByModel, or one  *)
(* description written to an audit model.  The delay of a second is any    *)
(* time.  The module follows one instance of the component from activate() *)
(* to what its executor still does after deactivate().                     *)
(***************************************************************************)
EXTENDS Naturals, Sequences

CONSTANTS
  Model,       \* the models
  User,        \* the users that change them
  Lists,       \* the lists of changes a transaction may notify
  MaxMade,     \* bound on the transactions
  MaxToggles,  \* bound on the changes of the property trackChanges
  MaxFaults,   \* bound on descriptions that cannot be written
  Null

ASSUME NullIsNoModel == Null \notin Model
\* A list is the number of changes it holds of each model: commitChanges()
\* does not see the order of changes of two models.
ASSUME ListsCount == Lists \subseteq [Model -> Nat]
ASSUME BoundsAreNumbers == MaxMade \in Nat /\ MaxToggles \in Nat /\ MaxFaults \in Nat

VARIABLES
  enabled,         \* the models with the property trackChanges in the meta data
  trackChanges,    \* the listener's cache of it: "unknown", "yes" or "no"
  listening,       \* the listener is registered
  changesByModel,  \* of a model: the collected changes
  future,          \* the field future is not null
  due,             \* number of tasks the executor has still to start
  localChanges,    \* the changes commitChanges() has taken and not written yet
  writing,         \* commitChanges() runs
  current,         \* the model whose changes it writes
  audit,           \* of a model: the statements of its change descriptions, as written
  log,             \* (history) of a model: the changes that were to be tracked
  made,            \* number of transactions
  toggles,         \* number of changes of the property trackChanges
  faults           \* number of descriptions that could not be written

collected == <<changesByModel, future, due>>
task == <<localChanges, writing, current>>
counters == <<made, toggles, faults>>
vars == <<enabled, trackChanges, listening, changesByModel, future, due, localChanges, writing,
          current, audit, log, made, toggles, faults>>

\* A changed statement: the nth one of a model in a transaction.  A collected
\* change is one with its user; a change description holds it with its agent.
Statement == [model : Model, transaction : Nat, nth : Nat]
Change == [stmt : Statement, user : User]
ChangeStatement == [stmt : Statement, agent : User]

NoChanges == [m \in Model |-> <<>>]

Init ==
  /\ enabled \in SUBSET Model
  /\ trackChanges = [m \in Model |-> "unknown"]
  /\ listening = TRUE
  /\ changesByModel = NoChanges /\ future = FALSE /\ due = 0
  /\ localChanges = NoChanges /\ writing = FALSE /\ current = Null
  /\ audit = NoChanges
  /\ log = NoChanges
  /\ made = 0 /\ toggles = 0 /\ faults = 0

-----------------------------------------------------------------------------
(* The listener *)

\* trackChanges.computeIfAbsent(ctx, ...): the first look at the meta data counts.
Cached(m) ==
  IF trackChanges[m] # "unknown" THEN trackChanges[m]
  ELSE IF m \in enabled THEN "yes" ELSE "no"

\* What a list of user u adds to the changes of model m.
Recorded(list, m, u) ==
  [i \in 1..(IF Cached(m) = "yes" THEN list[m] ELSE 0) |->
     [stmt |-> [model |-> m, transaction |-> made + 1, nth |-> i], user |-> u]]

\* if (future == null) future = executor.schedule(...)
Schedule ==
  /\ future' = TRUE
  /\ due' = IF future THEN due ELSE due + 1

\* A transaction of user u made the changes of the list.
Notify(u, list) ==
  /\ listening
  /\ made < MaxMade
  /\ made' = made + 1
  /\ trackChanges' = [m \in Model |-> IF list[m] > 0 THEN Cached(m) ELSE trackChanges[m]]
  /\ changesByModel' = [m \in Model |-> changesByModel[m] \o Recorded(list, m, u)]
  /\ log' = [m \in Model |-> log[m] \o Recorded(list, m, u)]
  /\ Schedule
  /\ UNCHANGED <<enabled, listening, task, audit, toggles, faults>>

\* A user sets or removes the property trackChanges of a model; the change is
\* one of the meta data, which is not tracked.
Toggle(m) ==
  /\ toggles < MaxToggles
  /\ toggles' = toggles + 1
  /\ enabled' = IF m \in enabled THEN enabled \ {m} ELSE enabled \cup {m}
  /\ IF listening THEN Schedule ELSE UNCHANGED <<future, due>>
  /\ UNCHANGED <<trackChanges, listening, changesByModel, task, audit, log, made, faults>>

Deactivate ==
  /\ listening
  /\ listening' = FALSE
  /\ UNCHANGED <<enabled, trackChanges, collected, task, audit, log, counters>>

-----------------------------------------------------------------------------
(* commitChanges() *)

\* Mutant of TakeChanges: the field future is not reset.
TakeKeepsFuture ==
  /\ due > 0 /\ ~writing
  /\ due' = due - 1
  /\ writing' = TRUE
  /\ localChanges' = changesByModel
  /\ changesByModel' = NoChanges
  /\ UNCHANGED <<enabled, trackChanges, listening, future, current, audit, log, counters>>

\* Under the monitor: the collected changes are taken.
TakeChanges ==
  /\ due > 0 /\ ~writing
  /\ due' = due - 1
  /\ writing' = TRUE
  /\ localChanges' = changesByModel
  /\ changesByModel' = NoChanges
  /\ future' = FALSE
  /\ UNCHANGED <<enabled, trackChanges, listening, current, audit, log, counters>>

\* Mutant of SameUser: a description takes all the changes.
AnyUser(s, n) == n \in 1..Len(s)

\* The first n changes are of one user.
SameUser(s, n) == n \in 1..Len(s) /\ \A i \in 1..n : s[i].user = s[1].user

\* The change description of the first n changes: its agent is their user.
Described(s, n) == [i \in 1..n |-> [stmt |-> s[i].stmt, agent |-> s[1].user]]

\* The longest run of changes of one user becomes a change description.  The
\* listener hears of the statements added to the audit model and ignores them,
\* but it schedules a task.
WriteDescription ==
  /\ writing
  /\ \E m \in Model : \E n \in 1..Len(localChanges[m]) :
       LET s == localChanges[m] IN
       /\ current \in {Null, m}
       /\ SameUser(s, n) /\ ~SameUser(s, n + 1)
       /\ audit' = [audit EXCEPT ![m] = @ \o Described(s, n)]
       /\ localChanges' = [localChanges EXCEPT ![m] = SubSeq(s, n + 1, Len(s))]
       /\ current' = IF n = Len(s) THEN Null ELSE m
  /\ IF listening THEN Schedule ELSE UNCHANGED <<future, due>>
  /\ UNCHANGED <<enabled, trackChanges, listening, changesByModel, writing, log, counters>>

\* An exception leaves commitChanges() with what it had taken.
WriteFails ==
  /\ writing /\ faults < MaxFaults
  /\ \E m \in Model : localChanges[m] # <<>>
  /\ faults' = faults + 1
  /\ localChanges' = NoChanges
  /\ current' = Null
  /\ writing' = FALSE
  /\ UNCHANGED <<enabled, trackChanges, listening, collected, audit, log, made, toggles>>

\* Mutant of CommitEnds: the task schedules itself again.
CommitRepeats ==
  /\ writing
  /\ localChanges = NoChanges
  /\ writing' = FALSE
  /\ due' = due + 1
  /\ UNCHANGED <<enabled, trackChanges, listening, changesByModel, future, localChanges, current,
                 audit, log, counters>>

\* Mutant of CommitEnds: the task is counted down once more.
CommitEndsTwice ==
  /\ writing
  /\ localChanges = NoChanges
  /\ writing' = FALSE
  /\ due' = due - 1
  /\ UNCHANGED <<enabled, trackChanges, listening, changesByModel, future, localChanges, current,
                 audit, log, counters>>

CommitEnds ==
  /\ writing
  /\ localChanges = NoChanges
  /\ writing' = FALSE
  /\ UNCHANGED <<enabled, trackChanges, listening, collected, localChanges, current, audit,
                 log, counters>>

CommitChanges == TakeChanges \/ WriteDescription \/ WriteFails \/ CommitEnds

Next ==
  \/ \E u \in User, list \in Lists : Notify(u, list)
  \/ \E m \in Model : Toggle(m)
  \/ Deactivate
  \/ CommitChanges

\* The executor's thread runs the tasks that are due.
Spec == Init /\ [][Next]_vars /\ WF_vars(TakeChanges \/ WriteDescription \/ CommitEnds)

-----------------------------------------------------------------------------
(* Properties *)

TypeOK ==
  /\ enabled \subseteq Model
  /\ trackChanges \in [Model -> {"unknown", "yes", "no"}]
  /\ listening \in BOOLEAN /\ future \in BOOLEAN /\ writing \in BOOLEAN
  /\ changesByModel \in [Model -> Seq(Change)]
  /\ localChanges \in [Model -> Seq(Change)]
  /\ log \in [Model -> Seq(Change)]
  /\ audit \in [Model -> Seq(ChangeStatement)]
  /\ current \in Model \cup {Null}
  /\ due \in Nat
  /\ made \in 0..MaxMade /\ toggles \in 0..MaxToggles /\ faults \in 0..MaxFaults

\* What an audit model says: who made which change.
Audited(m) == [i \in 1..Len(audit[m]) |-> [stmt |-> audit[m][i].stmt, user |-> audit[m][i].agent]]

\* The audit model, what commitChanges() has taken and what the listener has
\* collected are together the changes that were to be tracked, in their order
\* and each with the user that made it: none is lost, doubled or attributed to
\* somebody else, whatever changes arrive while others are written.
AuditComplete ==
  faults = 0 => \A m \in Model : Audited(m) \o localChanges[m] \o changesByModel[m] = log[m]

\* A change that was collected waits for a task that will take it: the listener
\* and commitChanges() agree about the field future.
NoneStranded == \A m \in Model : changesByModel[m] # <<>> => due > 0

\* When the users stop, the audit models get all of their changes, and the
\* tracker comes to rest: the tasks it schedules by writing audit models itself
\* do not go on for ever.
ComesToRest ==
  <>[](/\ due = 0 /\ ~writing
       /\ faults = 0 => \A m \in Model : Audited(m) = log[m])

=============================================================================
