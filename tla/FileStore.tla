----------------------------- MODULE FileStore -----------------------------
(***************************************************************************)
(* FileStore: blobs in a directory tree like that of git's objects, named  *)
(* by the hash of their content.  The web applications share one store     *)
(* (Globals.fileStore), so several requests store and delete at once, and  *)
(* nothing in the class synchronises them: they meet in the file system.   *)
(*                                                                         *)
(* One action is one call of java.nio.file.Files, or one system call of    *)
(* those that make several (createDirectories, copy).  Paths are sequences *)
(* of directory names; the root of the store is the empty path and always  *)
(* exists.                                                                 *)
(***************************************************************************)
EXTENDS Naturals, Sequences, FiniteSets

CONSTANTS
  Thread,     \* the threads that use the store
  Key,        \* the keys of the blobs
  DirOf,      \* pathForKey(): the directory names on the way to a key's file
  DirLevels,  \* DIR_LEVELS
  MaxOps,     \* bound on the operations that are begun
  MaxFaults,  \* bound on failed writes and crashes
  Null

Operation == {"store", "copy", "move", "delete", "setProperties"}
Job == [op : Operation, key : Key]
Name == {DirOf[k][n] : k \in Key, n \in 1..DirLevels}

ASSUME LevelsPositive == DirLevels \in Nat \ {0}
ASSUME PathsHaveLevels == \A k \in Key : DirOf[k] \in Seq(Name) /\ Len(DirOf[k]) = DirLevels
ASSUME BoundsAreNumbers == MaxOps \in Nat /\ MaxFaults \in Nat
ASSUME NullIsNoThread == Null \notin Thread \cup Job

VARIABLES
  dirs,       \* the directories that exist below the root
  content,    \* of a key's file: "none", "partial" or "full"
  opened,     \* the threads that have the file open for writing
  last,       \* the one that truncated it last, if it has it open still
  meta,       \* the keys with a .properties file
  pc,         \* the call a thread makes next, "idle" when it has returned
  job,        \* the operation of a thread: what it does, and with which key
  level,      \* the level createDirectories() or delete() has reached
  begun,      \* number of operations begun
  faults,     \* number of failed writes and crashes
  damaged,    \* (history) keys whose file a fault left unfinished
  disturbed,  \* (history) threads during whose operation a directory was removed
  failed      \* (history) the operations that threw, and whether they were disturbed

fs == <<dirs, content, opened, last, meta>>
counters == <<begun, faults>>
vars == <<dirs, content, opened, last, meta, pc, job, level, begun, faults, damaged, disturbed, failed>>

Path(k, n) == SubSeq(DirOf[k], 1, n)
Parent(d) == SubSeq(d, 1, Len(d) - 1)
AllDirs == {Path(k, n) : k \in Key, n \in 1..DirLevels}
Exists(d) == d = <<>> \/ d \in dirs

\* Mutant of NonEmpty: subdirectories do not count.
HasFiles(d) ==
  \E k \in Key : Path(k, DirLevels) = d /\ (content[k] # "none" \/ k \in meta)

\* What a directory stream on d returns.
NonEmpty(d) ==
  \/ \E e \in dirs : Parent(e) = d
  \/ \E k \in Key : Path(k, DirLevels) = d /\ (content[k] # "none" \/ k \in meta)

HasDir(k) == Path(k, DirLevels) \in dirs

Init ==
  /\ dirs = {} /\ content = [k \in Key |-> "none"]
  /\ opened = [k \in Key |-> {}] /\ last = [k \in Key |-> Null] /\ meta = {}
  /\ pc = [t \in Thread |-> "idle"]
  /\ job = [t \in Thread |-> Null]
  /\ level = [t \in Thread |-> 0]
  /\ begun = 0 /\ faults = 0
  /\ damaged = {} /\ disturbed = {} /\ failed = {}

-----------------------------------------------------------------------------
(* Calls and returns *)

FirstCall == [op \in Operation |->
  CASE op = "delete" -> "unlink"
    [] op = "setProperties" -> "props"
    [] OTHER -> "exists"]

Begin(t, op, k) ==
  /\ pc[t] = "idle" /\ begun < MaxOps
  /\ pc' = [pc EXCEPT ![t] = FirstCall[op]]
  /\ job' = [job EXCEPT ![t] = [op |-> op, key |-> k]]
  /\ level' = [level EXCEPT ![t] = DirLevels]
  /\ begun' = begun + 1
  /\ disturbed' = disturbed \ {t}
  /\ UNCHANGED <<fs, faults, damaged, failed>>

At(t, step) == pc[t] = step
Goto(t, step) == pc' = [pc EXCEPT ![t] = step] /\ UNCHANGED <<job, failed>>
Return(t) ==
  /\ pc' = [pc EXCEPT ![t] = "idle"]
  /\ job' = [job EXCEPT ![t] = Null]
  /\ UNCHANGED failed

\* An IOException leaves the operation.
Throw(t) ==
  /\ pc' = [pc EXCEPT ![t] = "idle"]
  /\ job' = [job EXCEPT ![t] = Null]
  /\ failed' = failed \cup {<<job[t].op, t \in disturbed>>}

-----------------------------------------------------------------------------
(* store(byte[]) and store(Path, boolean) *)

\* Files.exists(target): contents with the same key are taken for identical.
CheckExists(t) ==
  /\ At(t, "exists")
  /\ IF content[job[t].key] # "none" THEN Return(t) ELSE Goto(t, "mkdirs")
  /\ UNCHANGED <<fs, level, counters, damaged, disturbed>>

NextCall(t) == IF job[t].op = "store" THEN "open" ELSE job[t].op

\* Mutant of MakeDirs: Files.createDirectory() creates no parents.
MakeDirOnly(t) ==
  LET d == Path(job[t].key, DirLevels) IN
  /\ At(t, "mkdirs")
  /\ \/ /\ Exists(Parent(d))
        /\ dirs' = dirs \cup {d}
        /\ Goto(t, NextCall(t))
     \/ /\ ~Exists(Parent(d))
        /\ Throw(t)
        /\ UNCHANGED dirs
  /\ UNCHANGED <<content, opened, last, meta, level, counters, damaged, disturbed>>

\* Files.createDirectories(target.getParent()) tries the directory itself,
\* then looks for the nearest parent that exists.
MakeDirs(t) ==
  LET k == job[t].key
      d == Path(k, DirLevels) IN
  /\ At(t, "mkdirs")
  /\ \/ /\ d \in dirs \/ Exists(Parent(d))
        /\ dirs' = dirs \cup {d}
        /\ Goto(t, NextCall(t))
        /\ UNCHANGED level
     \/ /\ d \notin dirs /\ ~Exists(Parent(d))
        /\ Goto(t, "mkdir")
        /\ \E n \in 0..DirLevels :
             /\ Exists(Path(k, n)) /\ \A m \in (n + 1)..DirLevels : ~Exists(Path(k, m))
             /\ level' = [level EXCEPT ![t] = n]
        /\ UNCHANGED dirs
  /\ UNCHANGED <<content, opened, last, meta, counters, damaged, disturbed>>

\* ... and creates the missing ones below it one by one.
MakeDir(t) ==
  LET k == job[t].key
      n == level[t] + 1 IN
  /\ At(t, "mkdir")
  /\ \/ /\ Path(k, n) \in dirs \/ Exists(Path(k, n - 1))
        /\ dirs' = dirs \cup {Path(k, n)}
        /\ Goto(t, IF n = DirLevels THEN NextCall(t) ELSE "mkdir")
        /\ level' = [level EXCEPT ![t] = n]
     \/ /\ Path(k, n) \notin dirs /\ ~Exists(Path(k, n - 1))
        /\ Throw(t)
        /\ UNCHANGED <<dirs, level>>
  /\ UNCHANGED <<content, opened, last, meta, counters, damaged, disturbed>>

\* Files.newOutputStream(target) creates the file or truncates it.
Open(t) ==
  LET k == job[t].key IN
  /\ At(t, "open")
  /\ \/ /\ HasDir(k)
        /\ content' = [content EXCEPT ![k] = "partial"]
        /\ opened' = [opened EXCEPT ![k] = @ \cup {t}]
        /\ last' = [last EXCEPT ![k] = t]
        /\ Goto(t, "write")
     \/ /\ ~HasDir(k)
        /\ Throw(t)
        /\ UNCHANGED <<content, opened, last>>
  /\ UNCHANGED <<dirs, meta, level, counters, damaged, disturbed>>

\* Files.move(file, target) needs a free target; its exceptions are ignored.
Move(t) ==
  LET k == job[t].key IN
  /\ At(t, "move")
  /\ \/ /\ HasDir(k) /\ content[k] = "none"
        /\ content' = [content EXCEPT ![k] = "full"]
        /\ Return(t)
     \/ /\ ~(HasDir(k) /\ content[k] = "none")
        /\ Goto(t, "copy")
        /\ UNCHANGED content
  /\ UNCHANGED <<dirs, opened, last, meta, level, counters, damaged, disturbed>>

\* Files.copy(file, target) creates a new file, or fails.
Copy(t) ==
  LET k == job[t].key IN
  /\ At(t, "copy")
  /\ \/ /\ HasDir(k) /\ content[k] = "none"
        /\ content' = [content EXCEPT ![k] = "partial"]
        /\ opened' = [opened EXCEPT ![k] = {t}]
        /\ last' = [last EXCEPT ![k] = t]
        /\ Goto(t, "write")
     \/ /\ ~(HasDir(k) /\ content[k] = "none")
        /\ Throw(t)
        /\ UNCHANGED <<content, opened, last>>
  /\ UNCHANGED <<dirs, meta, level, counters, damaged, disturbed>>

Close(t, k) ==
  /\ opened' = [opened EXCEPT ![k] = @ \ {t}]
  /\ last' = [last EXCEPT ![k] = IF @ = t THEN Null ELSE @]

\* Mutant of Write: the stream is closed before the last buffer is written.
WriteSome(t) ==
  LET k == job[t].key IN
  /\ At(t, "write")
  /\ Close(t, k)
  /\ Return(t)
  /\ UNCHANGED <<dirs, content, meta, level, counters, damaged, disturbed>>

\* os.write(data), in pieces.  The file is complete when the last thread that
\* truncated it is through; a thread that opened it before may leave a gap
\* where it was truncated.  A deleted file takes the data with it.
Write(t) ==
  LET k == job[t].key IN
  /\ At(t, "write")
  /\ \/ last[k] = t /\ content' = [content EXCEPT ![k] = "full"]
     \/ /\ t \in opened[k] /\ last[k] # t
        /\ \E c \in {"full", content[k]} : content' = [content EXCEPT ![k] = c]
     \/ t \notin opened[k] /\ UNCHANGED content
  /\ Close(t, k)
  /\ Return(t)
  /\ UNCHANGED <<dirs, meta, level, counters, damaged, disturbed>>

-----------------------------------------------------------------------------
(* delete(String) and setProperties(String, Properties) *)

\* Who has the file open writes to one without a name.
Free(k) == opened' = [opened EXCEPT ![k] = {}] /\ last' = [last EXCEPT ![k] = Null]

\* Files.isRegularFile(path) && Files.deleteIfExists(path)
Unlink(t) ==
  LET k == job[t].key IN
  /\ At(t, "unlink")
  /\ \/ /\ content[k] # "none"
        /\ content' = [content EXCEPT ![k] = "none"]
        /\ Free(k)
        /\ damaged' = damaged \ {k}
        /\ Goto(t, "list")
     \/ /\ content[k] = "none"
        /\ Return(t)
        /\ UNCHANGED <<content, opened, last, damaged>>
  /\ UNCHANGED <<dirs, meta, level, counters, disturbed>>

\* Files.newDirectoryStream(path) on the parents, from the file upwards.
List(t) ==
  LET d == Path(job[t].key, level[t]) IN
  /\ At(t, "list")
  /\ \/ d \in dirs /\ NonEmpty(d) /\ Return(t)
     \/ d \in dirs /\ ~NonEmpty(d) /\ Goto(t, "rmdir")
     \/ d \notin dirs /\ Throw(t)
  /\ UNCHANGED <<fs, level, counters, damaged, disturbed>>

\* Mutant of LastLevel: one level too few is cleaned up.
LastButOne(t) == level[t] = 2

LastLevel(t) == level[t] = 1

\* Files.delete(path) fails when the directory is gone or not empty any more.
RemoveDir(t) ==
  LET d == Path(job[t].key, level[t]) IN
  /\ At(t, "rmdir")
  /\ \/ /\ d \in dirs /\ ~NonEmpty(d)
        /\ dirs' = dirs \ {d}
        /\ disturbed' = disturbed \cup {u \in Thread \ {t} : pc[u] # "idle"}
        /\ level' = [level EXCEPT ![t] = level[t] - 1]
        /\ IF LastLevel(t) THEN Return(t) ELSE Goto(t, "list")
     \/ /\ d \notin dirs \/ NonEmpty(d)
        /\ Throw(t)
        /\ UNCHANGED <<dirs, disturbed, level>>
  /\ UNCHANGED <<content, opened, last, meta, counters, damaged>>

\* The values of the properties do not matter here, their file does.
SetProperties(t) ==
  LET k == job[t].key IN
  /\ At(t, "props")
  /\ \/ HasDir(k) /\ meta' = meta \cup {k} /\ Return(t)
     \/ ~HasDir(k) /\ Throw(t) /\ UNCHANGED meta
  /\ UNCHANGED <<dirs, content, opened, last, level, counters, damaged, disturbed>>

-----------------------------------------------------------------------------
(* Faults *)

\* The disk is full, say.  Files.copy() removes its target then.
WriteFails(t) ==
  LET k == job[t].key IN
  /\ At(t, "write") /\ faults < MaxFaults
  /\ faults' = faults + 1
  /\ IF job[t].op = "store"
     THEN /\ damaged' = IF t \in opened[k] THEN damaged \cup {k} ELSE damaged
          /\ Close(t, k)
          /\ UNCHANGED content
     ELSE /\ content' = [content EXCEPT ![k] = "none"]
          /\ Free(k)
          /\ damaged' = damaged \ {k}
  /\ Throw(t)
  /\ UNCHANGED <<dirs, meta, level, begun, disturbed>>

\* The process ends; the file system stays as it is.
Crash ==
  /\ faults < MaxFaults
  /\ faults' = faults + 1
  /\ damaged' = damaged \cup {k \in Key : content[k] = "partial"}
  /\ opened' = [k \in Key |-> {}] /\ last' = [k \in Key |-> Null]
  /\ pc' = [t \in Thread |-> "idle"]
  /\ job' = [t \in Thread |-> Null]
  /\ UNCHANGED <<dirs, content, meta, level, begun, disturbed, failed>>

Step(t) ==
  \/ CheckExists(t) \/ MakeDirs(t) \/ MakeDir(t) \/ Open(t) \/ Move(t) \/ Copy(t) \/ Write(t)
  \/ Unlink(t) \/ List(t) \/ RemoveDir(t) \/ SetProperties(t)

Next ==
  \/ \E t \in Thread, op \in Operation, k \in Key : Begin(t, op, k)
  \/ \E t \in Thread : Step(t) \/ WriteFails(t)
  \/ Crash

Spec == Init /\ [][Next]_vars

-----------------------------------------------------------------------------
(* Properties *)

\* The types, and the directories are a tree: stores that add levels while
\* deletes remove them leave no hole in it.
TypeOK ==
  /\ dirs \subseteq AllDirs /\ \A d \in dirs : Exists(Parent(d))
  /\ content \in [Key -> {"none", "partial", "full"}]
  /\ opened \in [Key -> SUBSET Thread] /\ last \in [Key -> Thread \cup {Null}]
  /\ meta \subseteq Key
  /\ pc \in [Thread -> {"idle", "exists", "mkdirs", "mkdir", "open", "move", "copy", "write",
                        "unlink", "list", "rmdir", "props"}]
  /\ job \in [Thread -> Job \cup {Null}]
  /\ level \in [Thread -> 0..DirLevels]
  /\ begun \in 0..MaxOps /\ faults \in 0..MaxFaults
  /\ damaged \subseteq Key /\ disturbed \subseteq Thread
  /\ failed \subseteq Operation \X BOOLEAN

Quiet == \A t \in Thread : pc[t] = "idle"

\* When all operations have returned, every file is complete unless a fault
\* interrupted its write: threads that store the same content, or delete it
\* meanwhile, do not leave a piece of it behind.
CompleteWhenQuiet ==
  Quiet => \A k \in Key : content[k] = "partial" => k \in damaged

\* "Store directory should be empty" (FileStoreTest): when all operations have
\* returned and nothing failed, no empty directory is left, whatever the
\* threads stored and deleted at once.
NoEmptyDirWhenQuiet ==
  Quiet /\ faults = 0 => \A d \in dirs : NonEmpty(d)

\* store(byte[]) creates the directories it needs: without a fault it only
\* fails when a concurrent delete() removed one of them again.
StoreFailsOnlyIfDisturbed ==
  faults = 0 => <<"store", FALSE>> \notin failed

\* "assume that contents are identical" (the comment where store() finds that
\* the target exists): the file store() returns the key of is complete.
ExistingIsIdentical ==
  [][\A t \in Thread :
       At(t, "exists") /\ pc'[t] = "idle" /\ faults' = faults => content[job[t].key] = "full"]_vars

=============================================================================
