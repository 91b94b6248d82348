--------------------------- MODULE FileStoreProofs ---------------------------
(***************************************************************************)
(* Theorems about FileStore for any threads, keys and levels: the tree of  *)
(* directories, the files, and what stores and deletes leave behind.       *)
(***************************************************************************)
EXTENDS FileStore, SequenceTheorems, TLAPS

-----------------------------------------------------------------------------
(* The inductive invariant *)

\* The calls that an operation makes.
Makes(op, call) ==
  \/ op \in {"store", "copy", "move"} /\ call \in {"exists", "mkdirs", "mkdir", "write"}
  \/ op = "store" /\ call = "open"
  \/ op = "move" /\ call = "move"
  \/ op \in {"copy", "move"} /\ call = "copy"
  \/ op = "delete" /\ call \in {"unlink", "list", "rmdir"}
  \/ op = "setProperties" /\ call = "props"

\* A thread makes the calls of its operation, on a level of the key's path.
Sound(call, j, n) ==
  call # "idle" =>
    /\ j \in Job /\ Makes(j.op, call)
    /\ (call = "unlink" => n = DirLevels) /\ (call = "mkdir" => n < DirLevels) /\ (call \in {"list", "rmdir"} => n # 0)

\* The calls and levels of the threads have their types.
ThreadTypes ==
  /\ pc \in [Thread -> {"idle", "exists", "mkdirs", "mkdir", "open", "move", "copy", "write",
                        "unlink", "list", "rmdir", "props"}]
  /\ job \in [Thread -> Job \cup {Null}]
  /\ level \in [Thread -> 0..DirLevels]
  /\ failed \subseteq Operation \X BOOLEAN

ThreadInv == \A t \in Thread : Sound(pc[t], job[t], level[t])

\* The directories that exist are a tree: those above them exist, too.
Tree ==
  \A k \in Key : \A n \in 1..DirLevels : Path(k, n) \in dirs => \A m \in 1..n : Path(k, m) \in dirs

\* The inductive invariant of the types.
TypeInv == TypeOK /\ ThreadInv /\ Tree

\* The thread that truncated a key's file last is still writing it.
Writing(t, k) == t \in opened[k] /\ pc[t] = "write" /\ job[t] \in Job /\ job[t].key = k

\* An unfinished file is being written, or a fault has left it.
Attended(k) ==
  /\ content[k] = "partial" => k \in damaged \/ last[k] # Null
  /\ last[k] # Null => Writing(last[k], k)

FileInv == \A k \in Key : Attended(k)

\* The directories that the thread has made or found on its key's path are there.
Ready(t) ==
  \A n \in 1..(IF pc[t] = "open" THEN DirLevels ELSE level[t]) : Path(job[t].key, n) \in dirs

\* A thread may only miss one when a directory was removed during its operation.
StoreInv == \A t \in Thread : pc[t] \in {"mkdir", "open"} /\ t \notin disturbed => Ready(t)

\* The thread is about to put something into the directory, or to look whether
\* something is left in it.
Concern(t, d) ==
  \/ pc[t] \in {"open", "move", "copy"} /\ d = Path(job[t].key, DirLevels)
  \/ pc[t] \in {"mkdir", "list", "rmdir"} /\ d = Path(job[t].key, level[t])

\* An empty directory is a thread's concern.
Kept(d) == NonEmpty(d) \/ \E t \in Thread : Concern(t, d)
EmptyInv == \A d \in dirs : Kept(d)

\* While no fault happens, stores find what they have made, or were disturbed.
Faultless == faults = 0 => StoreInv /\ StoreFailsOnlyIfDisturbed

\* No empty directory is forgotten while no fault happens.
NoneForgotten == faults = 0 => EmptyInv

\* The inductive invariant.
Inv == TypeInv /\ FileInv /\ Faultless /\ NoneForgotten

-----------------------------------------------------------------------------
(* Paths *)

\* The directories on the way to a file, from the root to the one it is in.
LEMMA Paths ==
  ASSUME NEW k \in Key
  PROVE  /\ Path(k, 0) = <<>>
         /\ \A n \in 0..DirLevels : Path(k, n) \in Seq(Name) /\ Len(Path(k, n)) = n
         /\ \A n \in 1..DirLevels : Path(k, n) # <<>> /\ Path(k, n) \in AllDirs /\ Parent(Path(k, n)) = Path(k, n - 1)
<1>1. DirOf[k] \in Seq(Name) /\ Len(DirOf[k]) = DirLevels /\ DirLevels \in Nat \ {0}
  BY PathsHaveLevels, LevelsPositive
<1>2. \A n \in 0..DirLevels : /\ Path(k, n) \in Seq(Name) /\ Len(Path(k, n)) = n
                              /\ \A i \in 1..n : Path(k, n)[i] = DirOf[k][i]
  BY <1>1, SubSeqProperties DEF Path
<1>3. Path(k, 0) = <<>>
  <2>1. 0 \in 0..DirLevels
    BY <1>1
  <2>2. Path(k, 0) \in Seq(Name) /\ Len(Path(k, 0)) = 0
    BY <1>2, <2>1
  <2> QED
    BY <2>2, EmptySeq
<1>4. ASSUME NEW n \in 1..DirLevels PROVE Path(k, n) # <<>> /\ Path(k, n) \in AllDirs
  BY <1>1, <1>2, EmptySeq DEF AllDirs
<1>5. ASSUME NEW n \in 1..DirLevels PROVE Parent(Path(k, n)) = Path(k, n - 1)
  <2> DEFINE d == Path(k, n)
  <2>1. d \in Seq(Name) /\ Len(d) = n /\ n - 1 \in 0..DirLevels /\ n \in Nat /\ \A i \in 1..n : d[i] = DirOf[k][i]
    BY <1>1, <1>2
  <2> HIDE DEF d
  <2>2. /\ SubSeq(d, 1, n - 1) \in Seq(Name) /\ Len(SubSeq(d, 1, n - 1)) = n - 1
        /\ \A i \in 1..(n - 1) : SubSeq(d, 1, n - 1)[i] = d[i]
    BY <2>1, SubSeqProperties
  <2>3. \A i \in 1..(n - 1) : SubSeq(d, 1, n - 1)[i] = Path(k, n - 1)[i]
    BY <1>2, <2>1, <2>2
  <2>4. SubSeq(d, 1, n - 1) = Path(k, n - 1)
    BY <1>2, <2>1, <2>2, <2>3, SeqEqual
  <2> QED
    BY <2>1, <2>4 DEF d, Parent
<1> QED
  BY <1>2, <1>3, <1>4, <1>5

\* A directory has one place in the tree.
LEMMA OneLevel ==
  ASSUME NEW k \in Key, NEW q \in Key, NEW n \in 0..DirLevels, NEW m \in 0..DirLevels, Path(k, n) = Path(q, m)
  PROVE  n = m
PROOF BY Paths

\* Every directory is on the path of a key.
LEMMA Directory ==
  ASSUME TypeOK, NEW d \in dirs
  PROVE  \E k \in Key : \E n \in 1..DirLevels : d = Path(k, n)
PROOF BY DEF TypeOK, AllDirs

\* A directory whose parent exists is added to the tree.
LEMMA TreeGrows ==
  ASSUME Tree, NEW k \in Key, NEW n \in 1..DirLevels, Path(k, n) \in dirs \/ Exists(Path(k, n - 1)), dirs' = dirs \cup {Path(k, n)}
  PROVE  Tree'
<1> SUFFICES ASSUME NEW q \in Key, NEW l \in 1..DirLevels, Path(q, l) \in dirs', NEW m \in 1..l PROVE Path(q, m) \in dirs'
  BY DEF Tree, Path
<1>1. DirLevels \in Nat \ {0}
  BY LevelsPositive
<1>2. CASE Path(q, l) \in dirs
  BY <1>2 DEF Tree
<1>3. CASE Path(q, l) \notin dirs
  <2>1. Path(q, l) = Path(k, n) /\ l = n /\ Exists(Path(k, n - 1))
    BY <1>1, <1>3, OneLevel
  <2>2. CASE m = l
    BY <2>2
  <2>3. CASE m # l
    <3>1. l - 1 \in 1..DirLevels /\ m \in 1..(l - 1) /\ n - 1 \in 1..DirLevels
      BY <1>1, <2>1, <2>3
    <3>2. Path(q, l - 1) = Path(k, n - 1)
      BY <2>1, Paths
    <3>3. Path(q, l - 1) \in dirs
      BY <2>1, <3>1, <3>2, Paths DEF Exists
    <3>4. Path(q, m) \in dirs
      BY <3>1, <3>3 DEF Tree
    <3> QED
      BY <3>4
  <2> QED
    BY <2>2, <2>3
<1> QED
  BY <1>2, <1>3

\* An empty directory is a leaf of the tree.
LEMMA TreeShrinks ==
  ASSUME Tree, NEW d \in dirs, ~NonEmpty(d), dirs' = dirs \ {d}
  PROVE  Tree'
<1> SUFFICES ASSUME NEW k \in Key, NEW n \in 1..DirLevels, Path(k, n) \in dirs', NEW m \in 1..n PROVE Path(k, m) \in dirs'
  BY DEF Tree, Path
<1>1. DirLevels \in Nat \ {0}
  BY LevelsPositive
<1>2. Path(k, m) \in dirs /\ Path(k, n) # d
  BY DEF Tree
<1>3. ASSUME Path(k, m) = d PROVE FALSE
  <2>1. m # n /\ m + 1 \in 1..n /\ m + 1 \in 1..DirLevels /\ (m + 1) - 1 = m
    BY <1>1, <1>2, <1>3
  <2>2. Path(k, m + 1) \in dirs
    BY <2>1 DEF Tree
  <2>3. Parent(Path(k, m + 1)) = Path(k, (m + 1) - 1)
    BY <2>1, Paths
  <2> QED
    BY <1>3, <2>1, <2>2, <2>3 DEF NonEmpty
<1> QED
  BY <1>2, <1>3

\* Above a directory of the tree there is another one, or the root.
LEMMA TreeHasParents ==
  ASSUME Tree, dirs \subseteq AllDirs
  PROVE  \A d \in dirs : Exists(Parent(d))
<1> SUFFICES ASSUME NEW d \in dirs PROVE Exists(Parent(d))
  OBVIOUS
<1>1. PICK k \in Key, n \in 1..DirLevels : d = Path(k, n)
  BY DEF AllDirs
<1>2. Parent(d) = Path(k, n - 1) /\ DirLevels \in Nat
  BY <1>1, Paths, LevelsPositive
<1>3. CASE n = 1
  BY <1>2, <1>3, Paths DEF Exists
<1>4. CASE n # 1
  <2>1. n - 1 \in 1..n
    BY <1>2, <1>4
  <2>2. Path(k, n - 1) \in dirs
    BY <1>1, <2>1 DEF Tree
  <2> QED
    BY <1>2, <2>2 DEF Exists
<1> QED
  BY <1>3, <1>4

-----------------------------------------------------------------------------
(* The threads *)

\* Only t goes on.
Only(t) == \A u \in Thread \ {t} : pc'[u] = pc[u] /\ job'[u] = job[u] /\ level'[u] = level[u]

\* The level stays, or t reaches another one.
Reaches(t, n) ==
  \/ level' = level /\ n = level[t]
  \/ level' = [level EXCEPT ![t] = n]

\* What Goto does.
LEMMA Goes ==
  ASSUME ThreadTypes, NEW t \in Thread, NEW call, Goto(t, call), NEW n \in 0..DirLevels, Reaches(t, n)
  PROVE  Only(t) /\ pc'[t] = call /\ job'[t] = job[t] /\ level'[t] = n /\ failed' = failed
PROOF BY DEF ThreadTypes, Goto, Only, Reaches

\* What Return and Throw do.
LEMMA Leaves ==
  ASSUME ThreadTypes, NEW t \in Thread, Return(t) \/ Throw(t), NEW n \in 0..DirLevels, Reaches(t, n)
  PROVE  Only(t) /\ pc'[t] = "idle" /\ job'[t] = Null /\ level'[t] = n
PROOF BY DEF ThreadTypes, Return, Throw, Only, Reaches

\* A thread that goes to a call of its operation leaves the threads sound.
LEMMA GoesSoundly ==
  ASSUME ThreadTypes, ThreadInv, NEW t \in Thread, NEW call, Goto(t, call), NEW n \in 0..DirLevels, Reaches(t, n),
         job[t] \in Job, Makes(job[t].op, call), call # "unlink", call = "mkdir" => n < DirLevels, call \in {"list", "rmdir"} => n # 0
  PROVE  ThreadTypes' /\ ThreadInv'
<1>1. Only(t) /\ pc'[t] = call /\ job'[t] = job[t] /\ level'[t] = n /\ failed' = failed
  BY Goes
<1>2. ThreadTypes'
  BY DEF ThreadTypes, Goto, Reaches, Makes
<1>3. ThreadInv'
  BY <1>1 DEF ThreadInv, Only, Sound
<1> QED
  BY <1>2, <1>3

\* A thread that leaves its operation leaves the threads sound.
LEMMA LeavesSoundly ==
  ASSUME ThreadTypes, ThreadInv, NEW t \in Thread, job[t] \in Job, Return(t) \/ Throw(t), NEW n \in 0..DirLevels, Reaches(t, n)
  PROVE  ThreadTypes' /\ ThreadInv'
<1>1. Only(t) /\ pc'[t] = "idle" /\ job'[t] = Null /\ level'[t] = n
  BY Leaves
<1>2. job[t].op \in Operation
  BY DEF Job
<1>3. ThreadTypes'
  <2>1. <<job[t].op, t \in disturbed>> \in Operation \X BOOLEAN
    <3> DEFINE b == t \in disturbed
    <3>1. b \in BOOLEAN
      OBVIOUS
    <3> HIDE DEF b
    <3>2. <<job[t].op, b>> \in Operation \X BOOLEAN
      BY <1>2, <3>1
    <3> QED
      BY <3>2 DEF b
  <2>2. failed' = failed \/ failed' = failed \cup {<<job[t].op, t \in disturbed>>}
    BY DEF Return, Throw
  <2>3. failed' \subseteq Operation \X BOOLEAN
    BY <2>1, <2>2 DEF ThreadTypes
  <2> QED
    BY <2>3 DEF ThreadTypes, Return, Throw, Reaches
<1>4. ThreadInv'
  BY <1>1 DEF ThreadInv, Only, Sound
<1> QED
  BY <1>3, <1>4

\* Every operation makes its first call, and the one after the directories.
LEMMA CallsOfOperations ==
  ASSUME NEW op \in Operation
  PROVE  /\ Makes(op, FirstCall[op]) /\ FirstCall[op] \in {"exists", "unlink", "props"}
         /\ op \in {"store", "copy", "move"} => Makes(op, "mkdirs") /\ Makes(op, "write") /\ Makes(op, IF op = "store" THEN "open" ELSE op)
         /\ op \notin {"store", "copy", "move"} => op \in {"delete", "setProperties"}
PROOF BY DEF Operation, FirstCall, Makes

\* A busy thread has a job, with a key, and makes the calls of its operation.
LEMMA Busy ==
  ASSUME ThreadInv, NEW t \in Thread, pc[t] # "idle"
  PROVE  /\ job[t] \in Job /\ job[t].op \in Operation /\ job[t].key \in Key /\ Makes(job[t].op, pc[t])
         /\ pc[t] = "unlink" => level[t] = DirLevels
         /\ pc[t] = "mkdir" => level[t] < DirLevels
         /\ pc[t] \in {"list", "rmdir"} => level[t] # 0
PROOF BY DEF ThreadInv, Sound, Job

\* The next call after the directories.
LEMMA NextCallMade ==
  ASSUME NEW t, job[t].op \in Operation, job[t].op \in {"store", "copy", "move"}
  PROVE  Makes(job[t].op, NextCall(t)) /\ NextCall(t) \in {"open", "move", "copy"}
PROOF BY DEF NextCall, Makes, Operation

-----------------------------------------------------------------------------
(* Types *)

\* The files and the counters have their types.
FileTypes ==
  /\ dirs \subseteq AllDirs
  /\ content \in [Key -> {"none", "partial", "full"}]
  /\ opened \in [Key -> SUBSET Thread] /\ last \in [Key -> Thread \cup {Null}]
  /\ meta \subseteq Key
  /\ begun \in 0..MaxOps /\ faults \in 0..MaxFaults
  /\ damaged \subseteq Key /\ disturbed \subseteq Thread

\* The parts of the invariant of the types.
LEMMA TypeParts ==
  /\ TypeInv <=> FileTypes /\ ThreadTypes /\ ThreadInv /\ Tree
  /\ TypeInv' <=> FileTypes' /\ ThreadTypes' /\ ThreadInv' /\ Tree'
<1>1. FileTypes /\ Tree => \A d \in dirs : Exists(Parent(d))
  BY TreeHasParents DEF FileTypes
<1>2. TypeInv <=> FileTypes /\ ThreadTypes /\ ThreadInv /\ Tree
  BY <1>1, Zenon DEF TypeInv, TypeOK, FileTypes, ThreadTypes
<1>3. (TypeInv <=> FileTypes /\ ThreadTypes /\ ThreadInv /\ Tree)'
  BY <1>2, PTL
<1> QED
  BY <1>2, <1>3

\* No call spoils the types of the files.
LEMMA FilesTyped ==
  ASSUME FileTypes, ThreadTypes, ThreadInv, NEW t \in Thread, Step(t) \/ WriteFails(t)
  PROVE  FileTypes'
<1>1. pc[t] # "idle"
  BY DEF Step, WriteFails, CheckExists, MakeDirs, MakeDir, Open, Move, Copy, Write, Unlink, List, RemoveDir, SetProperties, At
<1>2. job[t].key \in Key /\ (pc[t] = "mkdir" => level[t] < DirLevels) /\ level[t] \in 0..DirLevels /\ DirLevels \in Nat \ {0}
  BY <1>1, Busy, LevelsPositive DEF ThreadTypes
<1>3. CASE CheckExists(t) \/ List(t)
  BY <1>3 DEF CheckExists, List, fs, counters, FileTypes
<1>4. CASE MakeDirs(t)
  <2>1. DirLevels \in 1..DirLevels
    BY LevelsPositive
  <2>2. Path(job[t].key, DirLevels) \in AllDirs
    BY <1>2, <2>1, Paths
  <2> QED
    BY <1>4, <2>2 DEF MakeDirs, counters, FileTypes
<1>5. CASE MakeDir(t)
  <2> DEFINE n == level[t] + 1
  <2>1. n \in 1..DirLevels
    BY <1>2, <1>5 DEF MakeDir, At
  <2>2. Path(job[t].key, n) \in AllDirs
    BY <1>2, <2>1, Paths
  <2> QED
    BY <1>5, <2>2 DEF MakeDir, counters, FileTypes
<1>6. CASE Open(t) \/ Move(t) \/ Copy(t)
  BY <1>2, <1>6 DEF Open, Move, Copy, counters, FileTypes
<1>7. CASE Write(t)
  BY <1>2, <1>7 DEF Write, Close, counters, FileTypes
<1>8. CASE Unlink(t)
  BY <1>2, <1>8 DEF Unlink, Free, counters, FileTypes
<1>9. CASE RemoveDir(t)
  BY <1>9 DEF RemoveDir, counters, FileTypes
<1>10. CASE SetProperties(t)
  BY <1>2, <1>10 DEF SetProperties, counters, FileTypes
<1>11. CASE WriteFails(t)
  BY <1>2, <1>11, BoundsAreNumbers DEF WriteFails, Close, Free, FileTypes
<1> QED
  BY <1>3, <1>4, <1>5, <1>6, <1>7, <1>8, <1>9, <1>10, <1>11 DEF Step

\* No call makes a hole in the tree of directories.
LEMMA TreeStep ==
  ASSUME FileTypes, ThreadTypes, ThreadInv, Tree, NEW t \in Thread, Step(t) \/ WriteFails(t)
  PROVE  Tree'
<1>1. pc[t] # "idle"
  BY DEF Step, WriteFails, CheckExists, MakeDirs, MakeDir, Open, Move, Copy, Write, Unlink, List, RemoveDir, SetProperties, At
<1>2. job[t].key \in Key /\ (pc[t] = "mkdir" => level[t] < DirLevels) /\ level[t] \in 0..DirLevels /\ DirLevels \in Nat \ {0}
  BY <1>1, Busy, LevelsPositive DEF ThreadTypes
<1> DEFINE k == job[t].key
<1>3. CASE dirs' = dirs
  BY <1>3 DEF Tree, Path
<1>4. CASE MakeDirs(t) /\ dirs' # dirs
  <2>1. (Path(k, DirLevels) \in dirs \/ Exists(Parent(Path(k, DirLevels)))) /\ dirs' = dirs \cup {Path(k, DirLevels)}
    BY <1>4 DEF MakeDirs
  <2>2. DirLevels \in 1..DirLevels /\ Parent(Path(k, DirLevels)) = Path(k, DirLevels - 1)
    BY <1>2, Paths
  <2> QED
    BY <1>2, <2>1, <2>2, TreeGrows
<1>5. CASE MakeDir(t) /\ dirs' # dirs
  <2> DEFINE n == level[t] + 1
  <2>1. n \in 1..DirLevels
    BY <1>2, <1>5 DEF MakeDir, At
  <2>2. (Path(k, n) \in dirs \/ Exists(Path(k, n - 1))) /\ dirs' = dirs \cup {Path(k, n)}
    BY <1>5 DEF MakeDir
  <2> QED
    BY <1>2, <2>1, <2>2, TreeGrows
<1>6. CASE RemoveDir(t) /\ dirs' # dirs
  <2> DEFINE d == Path(k, level[t])
  <2>1. d \in dirs /\ ~NonEmpty(d) /\ dirs' = dirs \ {d}
    BY <1>6 DEF RemoveDir
  <2> QED
    BY <2>1, TreeShrinks
<1>7. MakeDirs(t) \/ MakeDir(t) \/ RemoveDir(t) \/ dirs' = dirs
  BY DEF Step, WriteFails, CheckExists, Open, Move, Copy, Write, Unlink, List, SetProperties, fs
<1> QED
  BY <1>3, <1>4, <1>5, <1>6, <1>7

\* Every call leads to a call of the operation, or out of it.
LEMMA ThreadStep ==
  ASSUME ThreadTypes, ThreadInv, NEW t \in Thread, Step(t) \/ WriteFails(t)
  PROVE  ThreadTypes' /\ ThreadInv'
<1>1. pc[t] # "idle"
  BY DEF Step, WriteFails, CheckExists, MakeDirs, MakeDir, Open, Move, Copy, Write, Unlink, List, RemoveDir, SetProperties, At
<1>2. /\ job[t] \in Job /\ job[t].op \in Operation /\ job[t].key \in Key /\ Makes(job[t].op, pc[t])
      /\ level[t] \in 0..DirLevels /\ DirLevels \in Nat \ {0}
      /\ pc[t] = "unlink" => level[t] = DirLevels
      /\ pc[t] = "mkdir" => level[t] < DirLevels
      /\ pc[t] \in {"list", "rmdir"} => level[t] # 0
  BY <1>1, Busy, LevelsPositive DEF ThreadTypes
<1>3. level' = level => Reaches(t, level[t])
  BY DEF Reaches
<1>4. CASE CheckExists(t)
  <2>1. Makes(job[t].op, "mkdirs")
    BY <1>2, <1>4 DEF CheckExists, At, Makes
  <2>2. Return(t) \/ Goto(t, "mkdirs")
    BY <1>4 DEF CheckExists
  <2>3. Reaches(t, level[t])
    BY <1>3, <1>4 DEF CheckExists
  <2> QED
    BY <1>2, <2>1, <2>2, <2>3, GoesSoundly, LeavesSoundly
<1>5. CASE MakeDirs(t)
  <2>1. Makes(job[t].op, "mkdir") /\ Makes(job[t].op, NextCall(t)) /\ NextCall(t) \in {"open", "move", "copy"}
    BY <1>2, <1>5, NextCallMade DEF MakeDirs, At, Makes
  <2>2. CASE Goto(t, NextCall(t)) /\ level' = level
    BY <1>2, <1>3, <2>1, <2>2, GoesSoundly
  <2>3. CASE \E n \in 0..DirLevels : n # DirLevels /\ Goto(t, "mkdir") /\ level' = [level EXCEPT ![t] = n]
    <3>1. PICK n \in 0..DirLevels : n # DirLevels /\ Goto(t, "mkdir") /\ level' = [level EXCEPT ![t] = n]
      BY <2>3
    <3>2. n < DirLevels /\ Reaches(t, n)
      BY <1>2, <3>1 DEF Reaches
    <3> QED
      BY <1>2, <2>1, <3>1, <3>2, GoesSoundly
  <2>4. \/ Goto(t, NextCall(t)) /\ level' = level
        \/ \E n \in 0..DirLevels : n # DirLevels /\ Goto(t, "mkdir") /\ level' = [level EXCEPT ![t] = n]
    <3> DEFINE d == Path(job[t].key, DirLevels)
    <3>1. d # <<>>
      BY <1>2, Paths
    <3>2. \/ Goto(t, NextCall(t)) /\ level' = level
          \/ /\ d \notin dirs /\ Goto(t, "mkdir")
             /\ \E n \in 0..DirLevels : Exists(Path(job[t].key, n)) /\ level' = [level EXCEPT ![t] = n]
      BY <1>5 DEF MakeDirs
    <3> QED
      BY <3>1, <3>2 DEF Exists
  <2> QED
    BY <2>2, <2>3, <2>4
<1>6. CASE MakeDir(t)
  <2> DEFINE n == level[t] + 1
  <2>1. /\ Makes(job[t].op, "mkdir") /\ Makes(job[t].op, NextCall(t)) /\ NextCall(t) \in {"open", "move", "copy"}
        /\ n \in 1..DirLevels /\ n \in 0..DirLevels
    BY <1>2, <1>6, NextCallMade DEF MakeDir, At, Makes
  <2>2. CASE Goto(t, IF n = DirLevels THEN NextCall(t) ELSE "mkdir") /\ level' = [level EXCEPT ![t] = n]
    <3>1. Reaches(t, n)
      BY <2>2 DEF Reaches
    <3>2. CASE n = DirLevels
      BY <1>2, <2>1, <2>2, <3>1, <3>2, GoesSoundly
    <3>3. CASE n # DirLevels
      <4>1. n < DirLevels
        BY <1>2, <2>1, <3>3
      <4> QED
        BY <1>2, <2>1, <2>2, <3>1, <3>3, <4>1, GoesSoundly
    <3> QED
      BY <3>2, <3>3
  <2>3. CASE Throw(t) /\ level' = level
    BY <1>2, <1>3, <2>3, LeavesSoundly
  <2>4. \/ Goto(t, IF n = DirLevels THEN NextCall(t) ELSE "mkdir") /\ level' = [level EXCEPT ![t] = n]
        \/ Throw(t) /\ level' = level
    BY <1>6 DEF MakeDir
  <2> QED
    BY <2>2, <2>3, <2>4
<1>7. CASE Open(t) \/ Copy(t)
  <2>1. Makes(job[t].op, "write")
    BY <1>2, <1>7 DEF Open, Copy, At, Makes
  <2>2. (Goto(t, "write") \/ Throw(t)) /\ level' = level
    BY <1>7 DEF Open, Copy
  <2> QED
    BY <1>2, <1>3, <2>1, <2>2, GoesSoundly, LeavesSoundly
<1>8. CASE Move(t)
  <2>1. Makes(job[t].op, "copy")
    BY <1>2, <1>8 DEF Move, At, Makes
  <2>2. (Return(t) \/ Goto(t, "copy")) /\ level' = level
    BY <1>8 DEF Move
  <2> QED
    BY <1>2, <1>3, <2>1, <2>2, GoesSoundly, LeavesSoundly
<1>9. CASE Write(t) \/ SetProperties(t) \/ WriteFails(t)
  <2>1. (Return(t) \/ Throw(t)) /\ level' = level
    BY <1>9 DEF Write, SetProperties, WriteFails
  <2> QED
    BY <1>2, <1>3, <2>1, LeavesSoundly
<1>10. CASE Unlink(t)
  <2>1. Makes(job[t].op, "list")
    BY <1>2, <1>10 DEF Unlink, At, Makes
  <2>2. (Goto(t, "list") \/ Return(t)) /\ Reaches(t, level[t])
    BY <1>3, <1>10 DEF Unlink
  <2>3. CASE Goto(t, "list")
    <3>1. level[t] # 0
      BY <1>2, <1>10 DEF Unlink, At
    <3> QED
      BY <1>2, <2>1, <2>2, <2>3, <3>1, GoesSoundly
  <2> QED
    BY <1>2, <2>2, <2>3, LeavesSoundly
<1>11. CASE List(t)
  <2>1. Makes(job[t].op, "rmdir") /\ level[t] # 0
    BY <1>2, <1>11 DEF List, At, Makes
  <2>2. (Goto(t, "rmdir") \/ Return(t) \/ Throw(t)) /\ Reaches(t, level[t])
    BY <1>3, <1>11 DEF List
  <2>3. CASE Goto(t, "rmdir")
    BY <1>2, <2>1, <2>2, <2>3, GoesSoundly
  <2> QED
    BY <1>2, <2>2, <2>3, LeavesSoundly
<1>12. CASE RemoveDir(t)
  <2> DEFINE n == level[t] - 1
  <2>1. Makes(job[t].op, "list") /\ level[t] # 0 /\ n \in 0..DirLevels
    BY <1>2, <1>12 DEF RemoveDir, At, Makes
  <2>2. CASE (IF LastLevel(t) THEN Return(t) ELSE Goto(t, "list")) /\ level' = [level EXCEPT ![t] = n]
    <3>1. Reaches(t, n)
      BY <2>2 DEF Reaches
    <3>2. CASE LastLevel(t)
      BY <1>2, <2>1, <2>2, <3>1, <3>2, LeavesSoundly
    <3>3. CASE ~LastLevel(t)
      <4>1. n # 0
        BY <1>2, <3>3 DEF LastLevel
      <4> QED
        BY <1>2, <2>1, <2>2, <3>1, <3>3, <4>1, GoesSoundly
    <3> QED
      BY <3>2, <3>3
  <2>3. CASE Throw(t) /\ level' = level
    BY <1>2, <1>3, <2>3, LeavesSoundly
  <2>4. \/ (IF LastLevel(t) THEN Return(t) ELSE Goto(t, "list")) /\ level' = [level EXCEPT ![t] = n]
        \/ Throw(t) /\ level' = level
    BY <1>12 DEF RemoveDir
  <2> QED
    BY <2>2, <2>3, <2>4
<1> QED
  BY <1>4, <1>5, <1>6, <1>7, <1>8, <1>9, <1>10, <1>11, <1>12 DEF Step

\* What Begin does to the threads.
LEMMA Begins ==
  ASSUME ThreadTypes, NEW t \in Thread, NEW op \in Operation, NEW k \in Key, Begin(t, op, k)
  PROVE  /\ Only(t) /\ pc[t] = "idle" /\ pc'[t] = FirstCall[op] /\ job'[t] = [op |-> op, key |-> k] /\ level'[t] = DirLevels
         /\ pc'[t] \in {"exists", "unlink", "props"} /\ job'[t] \in Job
<1>1. Only(t) /\ pc[t] = "idle" /\ pc'[t] = FirstCall[op] /\ job'[t] = [op |-> op, key |-> k] /\ level'[t] = DirLevels
  BY DEF ThreadTypes, Begin, Only
<1> QED
  BY <1>1, CallsOfOperations DEF Job

\* An operation begins with its first call.
LEMMA BeginTyped ==
  ASSUME FileTypes, ThreadTypes, ThreadInv, Tree, NEW t \in Thread, NEW op \in Operation, NEW k \in Key, Begin(t, op, k)
  PROVE  FileTypes' /\ ThreadTypes' /\ ThreadInv' /\ Tree'
<1>1. /\ Only(t) /\ pc'[t] = FirstCall[op] /\ job'[t] = [op |-> op, key |-> k] /\ level'[t] = DirLevels
      /\ pc'[t] \in {"exists", "unlink", "props"} /\ job'[t] \in Job /\ Makes(op, FirstCall[op])
  BY Begins, CallsOfOperations
<1>2. FileTypes'
  BY BoundsAreNumbers DEF Begin, fs, FileTypes
<1>3. ThreadTypes'
  <2>1. DirLevels \in 0..DirLevels /\ [op |-> op, key |-> k] \in Job
    BY <1>1, LevelsPositive
  <2> QED
    BY <1>1, <2>1 DEF Begin, ThreadTypes
<1>4. ThreadInv'
  <2>1. Sound(pc'[t], job'[t], level'[t])
    BY <1>1 DEF Sound
  <2> QED
    BY <1>1, <2>1 DEF ThreadInv, Only
<1>5. Tree'
  BY DEF Begin, fs, Tree, Path
<1> QED
  BY <1>2, <1>3, <1>4, <1>5

\* After a crash no thread is busy.
LEMMA CrashTyped ==
  ASSUME FileTypes, ThreadTypes, Tree, Crash
  PROVE  FileTypes' /\ ThreadTypes' /\ ThreadInv' /\ Tree'
<1>1. FileTypes'
  BY BoundsAreNumbers DEF Crash, FileTypes
<1>2. ThreadTypes'
  BY DEF Crash, ThreadTypes
<1>3. ThreadInv'
  BY DEF Crash, ThreadInv, Sound
<1>4. Tree'
  BY DEF Crash, Tree, Path
<1> QED
  BY <1>1, <1>2, <1>3, <1>4

\* Every step keeps the types, the calls and the tree.
LEMMA TypeStep ==
  ASSUME TypeInv, [Next]_vars
  PROVE  TypeInv'
<1>1. FileTypes /\ ThreadTypes /\ ThreadInv /\ Tree
  BY TypeParts
<1>2. FileTypes' /\ ThreadTypes' /\ ThreadInv' /\ Tree'
  <2>1. CASE \E t \in Thread, op \in Operation, k \in Key : Begin(t, op, k)
    BY <1>1, <2>1, BeginTyped
  <2>2. CASE \E t \in Thread : Step(t) \/ WriteFails(t)
    BY <1>1, <2>2, FilesTyped, TreeStep, ThreadStep
  <2>3. CASE Crash
    BY <1>1, <2>3, CrashTyped
  <2>4. CASE UNCHANGED vars
    BY <1>1, <2>4 DEF vars, FileTypes, ThreadTypes, ThreadInv, Tree, Path
  <2> QED
    BY <2>1, <2>2, <2>3, <2>4 DEF Next
<1> QED
  BY <1>2, TypeParts

\* Initially there is no directory and no thread is busy.
LEMMA TypeInit == Init => TypeInv
<1> SUFFICES ASSUME Init PROVE TypeInv
  OBVIOUS
<1>1. FileTypes
  BY BoundsAreNumbers DEF Init, FileTypes
<1>2. ThreadTypes
  BY LevelsPositive DEF Init, ThreadTypes
<1>3. ThreadInv /\ Tree
  BY DEF Init, ThreadInv, Sound, Tree
<1> QED
  BY <1>1, <1>2, <1>3, TypeParts

\* The variables keep their types, and the directories are always a tree:
\* stores that add levels while deletes remove them leave no hole in it.
THEOREM TypeCorrect == Spec => []TypeOK
<1>1. TypeInv /\ [Next]_vars => TypeInv'
  BY TypeStep
<1>2. TypeInv => TypeOK
  BY DEF TypeInv
<1> QED
  BY TypeInit, <1>1, <1>2, PTL DEF Spec

-----------------------------------------------------------------------------
(* Files *)

\* The calls of a thread are the steps it makes.
LEMMA StepCalls ==
  ASSUME NEW t \in Thread
  PROVE  Step(t) \/ WriteFails(t) => pc[t] # "idle"
PROOF BY DEF Step, WriteFails, CheckExists, MakeDirs, MakeDir, Open, Move, Copy, Write, Unlink, List, RemoveDir, SetProperties, At

\* A step of a thread is a step of no other.
LEMMA OnlyOne ==
  ASSUME ThreadTypes, NEW t \in Thread, Step(t) \/ WriteFails(t)
  PROVE  Only(t)
<1>1. \A u \in Thread \ {t} : pc'[u] = pc[u] /\ job'[u] = job[u]
  BY DEF ThreadTypes, Step, WriteFails, CheckExists, MakeDirs, MakeDir, Open, Move, Copy, Write, Unlink, List, RemoveDir,
         SetProperties, Goto, Return, Throw
<1>2. \A u \in Thread \ {t} : level'[u] = level[u]
  BY DEF ThreadTypes, Step, WriteFails, CheckExists, MakeDirs, MakeDir, Open, Move, Copy, Write, Unlink, List, RemoveDir,
         SetProperties
<1> QED
  BY <1>1, <1>2 DEF Only

\* A file that a step does not touch stays attended.
LEMMA FileStays ==
  ASSUME FileTypes, FileInv, NEW t \in Thread, Only(t), NEW q \in Key, last[q] # t,
         content'[q] = content[q], opened'[q] = opened[q], last'[q] = last[q], q \in damaged => q \in damaged'
  PROVE  Attended(q)'
<1>1. last[q] \in Thread \cup {Null}
  BY DEF FileTypes
<1>2. CASE last[q] = Null
  BY <1>2 DEF FileInv, Attended
<1>3. CASE last[q] # Null
  <2>1. last[q] \in Thread \ {t} /\ Writing(last[q], q)
    BY <1>1, <1>3 DEF FileInv, Attended
  <2>2. pc'[last[q]] = pc[last[q]] /\ job'[last[q]] = job[last[q]]
    BY <2>1 DEF Only
  <2>3. Writing(last[q], q)'
    BY <2>1, <2>2 DEF Writing
  <2> QED
    BY <2>3 DEF FileInv, Attended
<1> QED
  BY <1>2, <1>3

\* Who does not write has truncated no file.
LEMMA NotLast ==
  ASSUME FileInv, NEW t \in Thread, NEW q \in Key, pc[t] # "write" \/ job[t].key # q
  PROVE  last[q] # t
PROOF BY NullIsNoThread DEF FileInv, Attended, Writing

\* A step that touches no file leaves them attended.
LEMMA FilesStay ==
  ASSUME FileTypes, FileInv, NEW t \in Thread, Only(t), pc[t] # "write", UNCHANGED <<content, opened, last, damaged>>
  PROVE  FileInv'
<1> SUFFICES ASSUME NEW q \in Key PROVE Attended(q)'
  BY DEF FileInv
<1> QED
  BY FileStays, NotLast

\* A thread that truncates or creates the file writes it.
LEMMA FileOpened ==
  ASSUME FileTypes, ThreadTypes, ThreadInv, FileInv, NEW t \in Thread, Open(t) \/ Copy(t)
  PROVE  FileInv'
<1> DEFINE k == job[t].key
<1>1. /\ pc[t] # "idle" /\ pc[t] # "write" /\ job[t] \in Job /\ k \in Key /\ Only(t)
      /\ t # Null /\ level[t] \in 0..DirLevels /\ level' = level
  BY StepCalls, Busy, OnlyOne, NullIsNoThread DEF Open, Copy, At, Step, ThreadTypes
<1>2. CASE Throw(t)
  <2>1. UNCHANGED <<content, opened, last, damaged>> \/ Goto(t, "write")
    BY DEF Open, Copy
  <2>2. pc'[t] = "idle" /\ (Goto(t, "write") => pc'[t] = "write")
    BY <1>2 DEF Throw, Goto, ThreadTypes
  <2> QED
    BY <1>1, <2>1, <2>2, FilesStay
<1>3. CASE ~Throw(t)
  <2>1. /\ content' = [content EXCEPT ![k] = "partial"] /\ last' = [last EXCEPT ![k] = t] /\ damaged' = damaged
        /\ opened' = [opened EXCEPT ![k] = @ \cup {t}] \/ opened' = [opened EXCEPT ![k] = {t}]
        /\ Goto(t, "write")
    BY <1>3 DEF Open, Copy
  <2>2. pc'[t] = "write" /\ job'[t] = job[t]
    BY <2>1 DEF Goto, ThreadTypes
  <2> SUFFICES ASSUME NEW q \in Key PROVE Attended(q)'
    BY DEF FileInv
  <2>3. CASE q = k
    <3>1. last'[q] = t /\ t \in opened'[q]
      BY <2>1, <2>3 DEF FileTypes
    <3> QED
      BY <1>1, <2>2, <2>3, <3>1 DEF Attended, Writing
  <2>4. CASE q # k
    <3>1. content'[q] = content[q] /\ opened'[q] = opened[q] /\ last'[q] = last[q]
      BY <2>1, <2>4 DEF FileTypes
    <3> QED
      BY <1>1, <2>1, <3>1, FileStays, NotLast
  <2> QED
    BY <2>3, <2>4
<1> QED
  BY <1>2, <1>3

\* A file that is complete or gone needs nobody.
LEMMA FileDone ==
  ASSUME FileTypes, FileInv, NEW t \in Thread, Only(t), NEW k \in Key, pc[t] # "write" \/ job[t].key = k,
         \A q \in Key \ {k} : content'[q] = content[q] /\ opened'[q] = opened[q] /\ last'[q] = last[q]
                              /\ (q \in damaged => q \in damaged'),
         content'[k] # "partial", last'[k] = Null
  PROVE  FileInv'
<1> SUFFICES ASSUME NEW q \in Key PROVE Attended(q)'
  BY DEF FileInv
<1>1. CASE q = k
  BY <1>1 DEF Attended
<1>2. CASE q # k
  BY <1>2, FileStays, NotLast
<1> QED
  BY <1>1, <1>2

\* Who writes beside the last one to truncate the file does not finish it.
LEMMA FileBeside ==
  ASSUME FileTypes, FileInv, NEW t \in Thread, Only(t), NEW k \in Key, job[t].key = k, last[k] # t,
         content' = content \/ content' = [content EXCEPT ![k] = "full"], Close(t, k), damaged \subseteq damaged'
  PROVE  FileInv'
<1> SUFFICES ASSUME NEW q \in Key PROVE Attended(q)'
  BY DEF FileInv
<1>1. CASE q # k
  <2>1. content'[q] = content[q] /\ opened'[q] = opened[q] /\ last'[q] = last[q]
    BY <1>1 DEF Close, FileTypes
  <2> QED
    BY <1>1, <2>1, FileStays, NotLast
<1>2. CASE q = k
  <2>1. last'[k] = last[k] /\ opened'[k] = opened[k] \ {t} /\ content'[k] \in {"full", content[k]}
    BY DEF Close, FileTypes
  <2>2. CASE last[k] = Null
    BY <1>2, <2>1, <2>2 DEF FileInv, Attended
  <2>3. CASE last[k] # Null
    <3>1. last[k] \in Thread \ {t} /\ Writing(last[k], k)
      BY <2>3 DEF FileTypes, FileInv, Attended
    <3>2. pc'[last[k]] = pc[last[k]] /\ job'[last[k]] = job[last[k]]
      BY <3>1 DEF Only
    <3>3. Writing(last[k], k)'
      BY <2>1, <3>1, <3>2 DEF Writing
    <3> QED
      BY <1>2, <2>1, <2>3, <3>3 DEF Attended
  <2> QED
    BY <2>2, <2>3
<1> QED
  BY <1>1, <1>2

\* Every call leaves the files attended.
LEMMA FileStep ==
  ASSUME TypeInv, FileInv, NEW t \in Thread, Step(t) \/ WriteFails(t)
  PROVE  FileInv'
<1> DEFINE k == job[t].key
<1>1. FileTypes /\ ThreadTypes /\ ThreadInv
  BY TypeParts
<1>2. pc[t] # "idle" /\ job[t] \in Job /\ k \in Key /\ Only(t) /\ t # Null
  BY <1>1, StepCalls, Busy, OnlyOne, NullIsNoThread
<1>3. CASE CheckExists(t) \/ MakeDirs(t) \/ MakeDir(t) \/ List(t) \/ RemoveDir(t) \/ SetProperties(t)
  <2>1. pc[t] # "write" /\ UNCHANGED <<content, opened, last, damaged>>
    BY <1>3 DEF CheckExists, MakeDirs, MakeDir, List, RemoveDir, SetProperties, At, fs
  <2> QED
    BY <1>1, <1>2, <2>1, FilesStay
<1>4. CASE Open(t) \/ Copy(t)
  BY <1>1, <1>4, FileOpened
<1>5. CASE Move(t)
  <2>1. CASE UNCHANGED content
    BY <1>1, <1>2, <1>5, <2>1, FilesStay DEF Move, At
  <2>2. CASE content # content'
    <3>1. content[k] = "none" /\ content' = [content EXCEPT ![k] = "full"] /\ UNCHANGED <<opened, last, damaged>> /\ pc[t] # "write"
      BY <1>5, <2>2 DEF Move, At
    <3> SUFFICES ASSUME NEW q \in Key PROVE Attended(q)'
      BY DEF FileInv
    <3>2. CASE q # k
      <4>1. content'[q] = content[q]
        BY <3>1, <3>2 DEF FileTypes
      <4> QED
        BY <1>1, <1>2, <3>1, <4>1, FileStays, NotLast
    <3>3. CASE q = k
      <4>1. content'[q] = "full" /\ last'[q] = last[q]
        BY <1>1, <3>1, <3>3 DEF FileTypes
      <4>2. last[q] # Null => Writing(last[q], q)'
        <5>1. last[q] # t /\ (last[q] # Null => last[q] \in Thread \ {t} /\ Writing(last[q], q))
          BY <1>1, <3>1, NotLast DEF FileTypes, FileInv, Attended
        <5> QED
          BY <1>2, <3>1, <5>1 DEF Only, Writing
      <4> QED
        BY <4>1, <4>2 DEF Attended
    <3> QED
      BY <3>2, <3>3
  <2> QED
    BY <2>1, <2>2
<1>6. CASE Write(t)
  <2>1. Close(t, k) /\ UNCHANGED damaged /\ pc[t] = "write"
    BY <1>6 DEF Write, At
  <2>2. CASE last[k] = t
    <3>1. t \in opened[k]
      BY <1>2, <2>2 DEF FileInv, Attended, Writing
    <3>2. content' = [content EXCEPT ![k] = "full"]
      BY <1>6, <2>2, <3>1 DEF Write
    <3>3. /\ \A q \in Key \ {k} : content'[q] = content[q] /\ opened'[q] = opened[q] /\ last'[q] = last[q]
          /\ content'[k] = "full" /\ last'[k] = Null
      BY <1>1, <1>2, <2>1, <2>2, <3>2 DEF Close, FileTypes
    <3> QED
      BY <1>1, <1>2, <2>1, <3>3, FileDone
  <2>3. CASE last[k] # t
    <3>1. \E c \in {"full", content[k]} : content' = content \/ content' = [content EXCEPT ![k] = c]
      BY <1>6, <2>3 DEF Write
    <3>2. content' = content \/ content' = [content EXCEPT ![k] = "full"]
      BY <1>1, <1>2, <3>1 DEF FileTypes
    <3> QED
      BY <1>1, <1>2, <2>1, <2>3, <3>2, FileBeside
  <2> QED
    BY <2>2, <2>3
<1>7. CASE Unlink(t)
  <2>1. CASE UNCHANGED <<content, opened, last, damaged>>
    BY <1>1, <1>2, <1>7, <2>1, FilesStay DEF Unlink, At
  <2>2. CASE ~UNCHANGED <<content, opened, last, damaged>>
    <3>1. content' = [content EXCEPT ![k] = "none"] /\ Free(k) /\ damaged' = damaged \ {k} /\ pc[t] # "write"
      BY <1>7, <2>2 DEF Unlink, At
    <3>2. /\ \A q \in Key \ {k} : content'[q] = content[q] /\ opened'[q] = opened[q] /\ last'[q] = last[q]
          /\ content'[k] = "none" /\ last'[k] = Null
      BY <1>1, <1>2, <3>1 DEF Free, FileTypes
    <3> QED
      BY <1>1, <1>2, <3>1, <3>2, FileDone
  <2> QED
    BY <2>1, <2>2
<1>8. CASE WriteFails(t)
  <2>1. CASE job[t].op = "store"
    <3>1. /\ Close(t, k) /\ content' = content /\ pc[t] = "write"
          /\ damaged' = IF t \in opened[k] THEN damaged \cup {k} ELSE damaged
      BY <1>8, <2>1 DEF WriteFails, At
    <3>2. CASE last[k] # t
      BY <1>1, <1>2, <3>1, <3>2, FileBeside
    <3>3. CASE last[k] = t
      <4>1. k \in damaged'
        BY <1>2, <3>1, <3>3 DEF FileInv, Attended, Writing
      <4>2. /\ \A q \in Key \ {k} : opened'[q] = opened[q] /\ last'[q] = last[q]
            /\ last'[k] = Null
        BY <1>1, <1>2, <3>1, <3>3 DEF Close, FileTypes
      <4> SUFFICES ASSUME NEW q \in Key PROVE Attended(q)'
        BY DEF FileInv
      <4>3. CASE q = k
        BY <4>1, <4>2, <4>3 DEF Attended
      <4>4. CASE q # k
        BY <1>1, <1>2, <3>1, <4>2, <4>4, FileStays, NotLast
      <4> QED
        BY <4>3, <4>4
    <3> QED
      BY <3>2, <3>3
  <2>2. CASE job[t].op # "store"
    <3>1. content' = [content EXCEPT ![k] = "none"] /\ Free(k) /\ damaged' = damaged \ {k} /\ pc[t] = "write"
      BY <1>8, <2>2 DEF WriteFails, At
    <3>2. /\ \A q \in Key \ {k} : content'[q] = content[q] /\ opened'[q] = opened[q] /\ last'[q] = last[q]
          /\ content'[k] = "none" /\ last'[k] = Null
      BY <1>1, <1>2, <3>1 DEF Free, FileTypes
    <3> QED
      BY <1>1, <1>2, <3>1, <3>2, FileDone
  <2> QED
    BY <2>1, <2>2
<1> QED
  BY <1>3, <1>4, <1>5, <1>6, <1>7, <1>8 DEF Step

\* Every step leaves the files attended.
LEMMA FilesAttended ==
  ASSUME TypeInv, FileInv, [Next]_vars
  PROVE  FileInv'
<1>1. FileTypes /\ ThreadTypes
  BY TypeParts
<1>2. ASSUME NEW t \in Thread, NEW op \in Operation, NEW k \in Key, Begin(t, op, k) PROVE FileInv'
  <2>1. Only(t) /\ pc[t] # "write"
    BY <1>1, <1>2, Begins
  <2> QED
    BY <1>1, <1>2, <2>1, FilesStay DEF Begin, fs
<1>3. CASE Crash
  BY <1>3 DEF Crash, FileInv, Attended
<1>4. CASE UNCHANGED vars
  BY <1>4 DEF vars, FileInv, Attended, Writing
<1> QED
  BY <1>2, <1>3, <1>4, FileStep DEF Next

\* When all operations have returned, every file is complete unless a fault
\* interrupted its write: threads that store the same content, or delete it
\* meanwhile, do not leave a piece of it behind.
THEOREM FilesComplete == Spec => []CompleteWhenQuiet
<1>1. Init => FileInv
  BY DEF Init, FileInv, Attended
<1>2. TypeInv /\ FileInv /\ [Next]_vars => FileInv'
  BY FilesAttended
<1>3. TypeInv /\ [Next]_vars => TypeInv'
  BY TypeStep
<1>4. TypeInv /\ FileInv => CompleteWhenQuiet
  <2> SUFFICES ASSUME TypeInv, FileInv, Quiet, NEW k \in Key, content[k] = "partial" PROVE k \in damaged
    BY DEF CompleteWhenQuiet
  <2>1. last[k] \in Thread \cup {Null} /\ Attended(k)
    BY TypeParts DEF FileTypes, FileInv
  <2> QED
    BY <2>1 DEF Attended, Writing, Quiet
<1> QED
  BY TypeInit, <1>1, <1>2, <1>3, <1>4, PTL DEF Spec

-----------------------------------------------------------------------------
(* Stores *)

\* Directories only go when all threads that are at something are disturbed.
LEMMA DirsStay ==
  ASSUME NEW t \in Thread, Step(t)
  PROVE  /\ disturbed \subseteq disturbed'
         /\ dirs \subseteq dirs' \/ \A u \in Thread \ {t} : pc[u] # "idle" => u \in disturbed'
PROOF BY DEF Step, CheckExists, MakeDirs, MakeDir, Open, Move, Copy, Write, Unlink, List, RemoveDir, SetProperties, fs

\* Another thread's directories stay, or it is disturbed.
LEMMA OthersReady ==
  ASSUME StoreInv, NEW t \in Thread, Only(t), NEW u \in Thread \ {t}, disturbed \subseteq disturbed',
         dirs \subseteq dirs' \/ (pc[u] # "idle" => u \in disturbed'), pc'[u] \in {"mkdir", "open"}, u \notin disturbed'
  PROVE  Ready(u)'
<1>1. pc'[u] = pc[u] /\ job'[u] = job[u] /\ level'[u] = level[u]
  BY DEF Only
<1>2. Ready(u) /\ dirs \subseteq dirs'
  BY <1>1 DEF StoreInv
<1> QED
  BY <1>1, <1>2 DEF Ready, Path

\* Who has found or made a directory finds those above it.
LEMMA FoundAll ==
  ASSUME Tree', NEW k \in Key, NEW n \in 0..DirLevels, n = 0 \/ Path(k, n) \in dirs'
  PROVE  \A m \in 1..n : Path(k, m) \in dirs'
<1>1. DirLevels \in Nat
  BY LevelsPositive
<1>2. CASE n = 0
  BY <1>2
<1>3. CASE n # 0
  <2>1. n \in 1..DirLevels /\ Path(k, n) \in dirs'
    BY <1>1, <1>3
  <2> QED
    BY <2>1 DEF Tree, Path
<1> QED
  BY <1>2, <1>3

\* A thread that goes on to a call has its directories.
LEMMA StoreStep ==
  ASSUME TypeInv, TypeInv', StoreInv, NEW t \in Thread, Step(t)
  PROVE  StoreInv'
<1> DEFINE k == job[t].key
<1>1. FileTypes /\ ThreadTypes /\ ThreadInv /\ Tree' /\ ThreadTypes'
  BY TypeParts
<1>2. /\ pc[t] # "idle" /\ job[t].key \in Key /\ Only(t) /\ DirLevels \in Nat \ {0} /\ level[t] \in 0..DirLevels
      /\ pc[t] = "mkdir" => level[t] < DirLevels
  BY <1>1, StepCalls, Busy, OnlyOne, LevelsPositive DEF ThreadTypes
<1>3. ASSUME pc'[t] \in {"mkdir", "open"} PROVE Ready(t)'
  <2>1. MakeDirs(t) \/ MakeDir(t)
    BY <1>1, <1>2, <1>3 DEF ThreadTypes, Step, CheckExists, Open, Move, Copy, Write, Unlink, List, RemoveDir, SetProperties,
         Goto, Return, Throw
  <2>2. CASE MakeDirs(t)
    <3>1. CASE Goto(t, NextCall(t)) /\ dirs' = dirs \cup {Path(k, DirLevels)}
      <4>1. NextCall(t) # "mkdir"
        BY <1>1, <1>2, Busy DEF NextCall, Operation
      <4>2. pc'[t] = "open" /\ job'[t] = job[t]
        BY <1>1, <1>3, <3>1, <4>1 DEF Goto, ThreadTypes
      <4>3. DirLevels \in 0..DirLevels
        BY <1>2
      <4>4. \A m \in 1..DirLevels : Path(k, m) \in dirs'
        BY <1>1, <1>2, <3>1, <4>3, FoundAll
      <4> QED
        BY <4>2, <4>4 DEF Ready, Path
    <3>2. CASE \E n \in 0..DirLevels : Goto(t, "mkdir") /\ Exists(Path(k, n)) /\ level' = [level EXCEPT ![t] = n] /\ dirs' = dirs
      <4>1. PICK n \in 0..DirLevels : Goto(t, "mkdir") /\ Exists(Path(k, n)) /\ level' = [level EXCEPT ![t] = n] /\ dirs' = dirs
        BY <3>2
      <4>2. pc'[t] = "mkdir" /\ job'[t] = job[t] /\ level'[t] = n
        BY <1>1, <4>1 DEF Goto, ThreadTypes
      <4>3. n = 0 \/ Path(k, n) \in dirs'
        <5>1. n # 0 => n \in 1..DirLevels
          BY <1>2
        <5> QED
          BY <1>2, <4>1, <5>1, Paths DEF Exists
      <4>4. \A m \in 1..n : Path(k, m) \in dirs'
        BY <1>1, <1>2, <4>3, FoundAll
      <4> QED
        BY <4>2, <4>4 DEF Ready, Path
    <3>3. \/ Goto(t, NextCall(t)) /\ dirs' = dirs \cup {Path(k, DirLevels)}
          \/ \E n \in 0..DirLevels : Goto(t, "mkdir") /\ Exists(Path(k, n)) /\ level' = [level EXCEPT ![t] = n] /\ dirs' = dirs
      BY <2>2 DEF MakeDirs
    <3> QED
      BY <3>1, <3>2, <3>3
  <2>3. CASE MakeDir(t)
    <3> DEFINE n == level[t] + 1
    <3>1. n \in 1..DirLevels /\ n \in 0..DirLevels
      BY <1>2, <2>3 DEF MakeDir, At
    <3>2. /\ Goto(t, IF n = DirLevels THEN NextCall(t) ELSE "mkdir")
          /\ dirs' = dirs \cup {Path(k, n)} /\ level' = [level EXCEPT ![t] = n]
      BY <1>1, <1>3, <2>3 DEF MakeDir, Throw, ThreadTypes
    <3>3. pc'[t] = (IF n = DirLevels THEN NextCall(t) ELSE "mkdir") /\ job'[t] = job[t] /\ level'[t] = n
      BY <1>1, <3>2 DEF Goto, ThreadTypes
    <3>4. pc'[t] = "open" => n = DirLevels
      BY <3>3
    <3>5. \A m \in 1..n : Path(k, m) \in dirs'
      BY <1>1, <1>2, <3>1, <3>2, FoundAll
    <3> QED
      BY <3>3, <3>4, <3>5 DEF Ready, Path
  <2> QED
    BY <2>1, <2>2, <2>3
<1>4. ASSUME NEW u \in Thread, u # t, pc'[u] \in {"mkdir", "open"}, u \notin disturbed' PROVE Ready(u)'
  <2>1. u \in Thread \ {t}
    BY <1>4
  <2> QED
    BY <1>2, <1>4, <2>1, DirsStay, OthersReady
<1> QED
  BY <1>3, <1>4 DEF StoreInv

\* A store throws when it was disturbed.
LEMMA FailStep ==
  ASSUME TypeInv, StoreInv, <<"store", FALSE>> \notin failed, NEW t \in Thread, Step(t)
  PROVE  <<"store", FALSE>> \notin failed'
<1> DEFINE k == job[t].key
<1>1. FileTypes /\ ThreadTypes /\ ThreadInv
  BY TypeParts
<1>2. /\ pc[t] # "idle" /\ job[t].key \in Key /\ Makes(job[t].op, pc[t]) /\ DirLevels \in Nat \ {0}
      /\ level[t] \in 0..DirLevels
      /\ pc[t] = "mkdir" => level[t] < DirLevels
  BY <1>1, StepCalls, Busy, LevelsPositive DEF ThreadTypes
<1>3. CASE failed' = failed
  BY <1>3
<1>4. CASE failed' # failed
  <2>1. Throw(t) /\ failed' = failed \cup {<<job[t].op, t \in disturbed>>}
    BY <1>4 DEF Step, CheckExists, MakeDirs, MakeDir, Open, Move, Copy, Write, Unlink, List, RemoveDir, SetProperties,
         Goto, Return, Throw
  <2>2. ASSUME job[t].op = "store", t \notin disturbed PROVE FALSE
    <3>1. pc[t] \in {"exists", "mkdirs", "mkdir", "write", "open"}
      BY <1>2, <2>2 DEF Makes
    <3>2. CASE MakeDir(t)
      <4> DEFINE n == level[t]
      <4>1. pc[t] = "mkdir" /\ ~Exists(Path(k, (n + 1) - 1))
        BY <1>4, <3>2 DEF MakeDir, At, Goto
      <4>2. Ready(t) /\ (n + 1) - 1 = n
        BY <1>2, <2>2, <4>1 DEF StoreInv
      <4>3. n = 0 \/ Path(k, n) \in dirs
        BY <1>2, <4>1, <4>2 DEF Ready
      <4> QED
        BY <1>2, <4>1, <4>2, <4>3, Paths DEF Exists
    <3>3. CASE Open(t)
      <4>1. pc[t] = "open" /\ ~HasDir(k)
        BY <1>4, <3>3 DEF Open, At, Goto
      <4>2. Ready(t)
        BY <2>2, <4>1 DEF StoreInv
      <4>3. DirLevels \in 1..DirLevels
        BY <1>2
      <4> QED
        BY <4>1, <4>2, <4>3 DEF Ready, HasDir
    <3>4. MakeDir(t) \/ Open(t)
      BY <1>4, <3>1 DEF Step, CheckExists, MakeDirs, Move, Copy, Write, Unlink, List, RemoveDir, SetProperties,
         At, Goto, Return
    <3> QED
      BY <3>2, <3>3, <3>4
  <2>3. ASSUME <<"store", FALSE>> = <<job[t].op, t \in disturbed>> PROVE FALSE
    <3>1. job[t].op = "store" /\ (t \in disturbed) = FALSE
      BY <2>3
    <3> QED
      BY <2>2, <3>1
  <2> QED
    BY <2>1, <2>3
<1> QED
  BY <1>3, <1>4

\* Faults are counted, and no step takes one back.
LEMMA FaultsCounted ==
  ASSUME FileTypes, [Next]_vars, faults' = 0
  PROVE  faults = 0
<1>1. faults \in Nat
  BY BoundsAreNumbers DEF FileTypes
<1>2. CASE Crash \/ \E t \in Thread : WriteFails(t)
  BY <1>1, <1>2 DEF Crash, WriteFails
<1>3. ASSUME NEW t \in Thread, Step(t) PROVE faults' = faults
  BY <1>3 DEF Step, CheckExists, MakeDirs, MakeDir, Open, Move, Copy, Write, Unlink, List, RemoveDir, SetProperties, counters
<1>4. CASE UNCHANGED vars \/ \E t \in Thread, op \in Operation, k \in Key : Begin(t, op, k)
  BY <1>4 DEF vars, Begin
<1> QED
  BY <1>2, <1>3, <1>4 DEF Next

\* Every step keeps the directories of the stores.
LEMMA FaultlessStep ==
  ASSUME TypeInv, TypeInv', Faultless, [Next]_vars
  PROVE  Faultless'
<1> SUFFICES ASSUME faults' = 0 PROVE StoreInv' /\ <<"store", FALSE>> \notin failed'
  BY DEF Faultless, StoreFailsOnlyIfDisturbed
<1>1. FileTypes /\ ThreadTypes
  BY TypeParts
<1>2. faults = 0
  BY <1>1, FaultsCounted
<1>3. StoreInv /\ <<"store", FALSE>> \notin failed
  BY <1>2 DEF Faultless, StoreFailsOnlyIfDisturbed
<1>4. ASSUME NEW t \in Thread, NEW op \in Operation, NEW k \in Key, Begin(t, op, k)
      PROVE  StoreInv' /\ <<"store", FALSE>> \notin failed'
  <2>1. Only(t) /\ pc'[t] \in {"exists", "unlink", "props"}
    BY <1>1, <1>4, Begins
  <2>2. dirs' = dirs /\ disturbed' = disturbed \ {t} /\ failed' = failed
    BY <1>4 DEF Begin, fs
  <2>3. ASSUME NEW u \in Thread, pc'[u] \in {"mkdir", "open"}, u \notin disturbed' PROVE Ready(u)'
    <3>1. u \in Thread \ {t} /\ u \notin disturbed
      BY <2>1, <2>2, <2>3
    <3>2. pc'[u] = pc[u] /\ job'[u] = job[u] /\ level'[u] = level[u]
      BY <2>1, <3>1 DEF Only
    <3>3. Ready(u)
      BY <1>3, <2>3, <3>1, <3>2 DEF StoreInv
    <3> QED
      BY <2>2, <3>2, <3>3 DEF Ready, Path
  <2> QED
    BY <1>3, <2>2, <2>3 DEF StoreInv
<1>5. ASSUME NEW t \in Thread, Step(t) PROVE StoreInv' /\ <<"store", FALSE>> \notin failed'
  BY <1>3, <1>5, StoreStep, FailStep
<1>6. ASSUME NEW t \in Thread PROVE ~WriteFails(t)
  BY <1>2 DEF WriteFails
<1>7. ~Crash
  BY <1>2 DEF Crash
<1>8. CASE UNCHANGED vars
  BY <1>3, <1>8 DEF vars, StoreInv, Ready, Path
<1> QED
  BY <1>4, <1>5, <1>6, <1>7, <1>8 DEF Next

\* store(byte[]) creates the directories it needs: without a fault it only
\* fails when a concurrent delete() removed one of them again.
THEOREM StoresFail == Spec => []StoreFailsOnlyIfDisturbed
<1>1. Init => Faultless
  BY DEF Init, Faultless, StoreInv, StoreFailsOnlyIfDisturbed
<1>2. TypeInv /\ TypeInv' /\ Faultless /\ [Next]_vars => Faultless'
  BY FaultlessStep
<1>3. TypeInv /\ [Next]_vars => TypeInv'
  BY TypeStep
<1>4. Faultless => StoreFailsOnlyIfDisturbed
  BY DEF Faultless, StoreFailsOnlyIfDisturbed
<1> QED
  BY TypeInit, <1>1, <1>2, <1>3, <1>4, PTL DEF Spec

-----------------------------------------------------------------------------
(* Empty directories *)

\* A directory keeps what is in it when files and directories are only added.
LEMMA NonEmptyStays ==
  ASSUME NEW d, NonEmpty(d), dirs \subseteq dirs', meta \subseteq meta',
         \A k \in Key : content[k] # "none" => content'[k] # "none"
  PROVE  NonEmpty(d)'
PROOF BY DEF NonEmpty, Path, Parent

\* Another thread's concern stays.
LEMMA OthersConcern ==
  ASSUME NEW t \in Thread, Only(t), NEW u \in Thread \ {t}, NEW d, Concern(u, d)
  PROVE  Concern(u, d)'
PROOF BY DEF Only, Concern, Path

\* A directory is kept when what is in it stays, or the thread that goes on
\* has it as its concern, and what was its concern has something in it now.
LEMMA KeptStays ==
  ASSUME NEW t \in Thread, Only(t), NEW d, Kept(d),
         NonEmpty(d) => NonEmpty(d)' \/ Concern(t, d)',
         Concern(t, d) => NonEmpty(d)' \/ Concern(t, d)'
  PROVE  Kept(d)'
<1>1. CASE NonEmpty(d) \/ Concern(t, d)
  BY <1>1 DEF Kept
<1>2. CASE \E u \in Thread \ {t} : Concern(u, d)
  BY <1>2, OthersConcern DEF Kept
<1> QED
  BY <1>1, <1>2 DEF Kept

\* A thread that makes a directory puts the next one into it, or the file.
LEMMA KeptByStore ==
  ASSUME TypeInv, EmptyInv, NEW t \in Thread, MakeDirs(t) \/ MakeDir(t), NEW d \in dirs'
  PROVE  Kept(d)'
<1> DEFINE k == job[t].key
<1>1. FileTypes /\ ThreadTypes /\ ThreadInv
  BY TypeParts
<1>2. /\ pc[t] # "idle" /\ k \in Key /\ job[t].op \in Operation /\ Makes(job[t].op, pc[t]) /\ Only(t)
      /\ DirLevels \in Nat \ {0} /\ level[t] \in 0..DirLevels
      /\ pc[t] = "mkdir" => level[t] < DirLevels
  BY <1>1, StepCalls, Busy, OnlyOne, LevelsPositive DEF ThreadTypes, Step
<1>3. NextCall(t) \in {"open", "move", "copy"}
  <2>1. job[t].op \in {"store", "copy", "move"}
    BY <1>2 DEF MakeDirs, MakeDir, At, Makes
  <2> QED
    BY <1>2, <2>1, NextCallMade
<1>4. dirs \subseteq dirs' /\ meta' = meta /\ content' = content
  BY DEF MakeDirs, MakeDir
<1>5. NonEmpty(d) => NonEmpty(d)'
  BY <1>4, NonEmptyStays
<1>6. CASE MakeDirs(t)
  <2>1. ~Concern(t, d)
    BY <1>6 DEF MakeDirs, At, Concern
  <2>2. CASE d \in dirs
    BY <1>2, <1>5, <2>1, <2>2, KeptStays DEF EmptyInv, Kept
  <2>3. CASE d \notin dirs
    <3>1. d = Path(k, DirLevels) /\ Goto(t, NextCall(t))
      BY <1>6, <2>3 DEF MakeDirs
    <3>2. pc'[t] = NextCall(t) /\ job'[t] = job[t]
      BY <1>1, <3>1 DEF Goto, ThreadTypes
    <3>3. Concern(t, d)'
      BY <1>3, <3>1, <3>2 DEF Concern, Path
    <3> QED
      BY <3>3 DEF Kept
  <2> QED
    BY <2>2, <2>3
<1>7. CASE MakeDir(t)
  <2> DEFINE n == level[t] + 1
  <2>1. n \in 1..DirLevels /\ n - 1 = level[t] /\ pc[t] = "mkdir"
    BY <1>2, <1>7 DEF MakeDir, At
  <2>2. CASE Throw(t) /\ ~Exists(Path(k, n - 1)) /\ dirs' = dirs
    <3>1. ~Concern(t, d)
      BY <2>1, <2>2 DEF Concern, Exists
    <3> QED
      BY <1>2, <1>5, <2>2, <3>1, KeptStays DEF EmptyInv, Kept
  <2>3. CASE /\ Goto(t, IF n = DirLevels THEN NextCall(t) ELSE "mkdir")
             /\ dirs' = dirs \cup {Path(k, n)} /\ level' = [level EXCEPT ![t] = n]
    <3>1. pc'[t] = (IF n = DirLevels THEN NextCall(t) ELSE "mkdir") /\ job'[t] = job[t] /\ level'[t] = n
      BY <1>1, <2>1, <2>3 DEF Goto, ThreadTypes
    <3>2. CASE d = Path(k, n)
      <4>1. Concern(t, d)'
        BY <1>3, <3>1, <3>2 DEF Concern, Path
      <4> QED
        BY <4>1 DEF Kept
    <3>3. CASE d # Path(k, n)
      <4>1. Concern(t, d) => NonEmpty(d)'
        <5>1. Parent(Path(k, n)) = Path(k, level[t]) /\ Path(k, n) \in dirs'
          BY <1>2, <2>1, <2>3, Paths
        <5>2. Concern(t, d) => d = Path(k, level[t])
          BY <2>1 DEF Concern
        <5> QED
          BY <5>1, <5>2 DEF NonEmpty, Parent
      <4> QED
        BY <1>2, <1>5, <2>3, <3>3, <4>1, KeptStays DEF EmptyInv, Kept
    <3> QED
      BY <3>2, <3>3
  <2> QED
    BY <1>7, <2>2, <2>3 DEF MakeDir
<1> QED
  BY <1>6, <1>7

\* A thread that opens, moves or copies fills the directory, or does not find it.
LEMMA KeptByFile ==
  ASSUME TypeInv, EmptyInv, NEW t \in Thread,
         CheckExists(t) \/ Open(t) \/ Move(t) \/ Copy(t) \/ Write(t) \/ SetProperties(t), NEW d \in dirs'
  PROVE  Kept(d)'
<1> DEFINE k == job[t].key
<1>1. FileTypes /\ ThreadTypes /\ ThreadInv
  BY TypeParts
<1>2. pc[t] # "idle" /\ k \in Key /\ Only(t)
  BY <1>1, StepCalls, Busy, OnlyOne DEF Step
<1>3. dirs' = dirs /\ meta \subseteq meta'
  BY DEF CheckExists, Open, Move, Copy, Write, SetProperties, fs
<1>4. \A q \in Key : content[q] # "none" => content'[q] # "none"
  BY <1>1, <1>2 DEF CheckExists, Open, Move, Copy, Write, SetProperties, fs, FileTypes
<1>5. NonEmpty(d) => NonEmpty(d)'
  BY <1>3, <1>4, NonEmptyStays
<1>6. Concern(t, d) => NonEmpty(d)' \/ Concern(t, d)'
  <2> SUFFICES ASSUME Concern(t, d) PROVE NonEmpty(d)' \/ Concern(t, d)'
    OBVIOUS
  <2>1. Open(t) \/ Move(t) \/ Copy(t)
    BY DEF Concern, CheckExists, Write, SetProperties, At
  <2>2. d = Path(k, DirLevels) /\ HasDir(k)
    BY <1>3, <2>1 DEF Concern, Open, Move, Copy, At, HasDir
  <2>3. CASE content'[k] # "none"
    BY <1>2, <2>2, <2>3 DEF NonEmpty, Path
  <2>4. CASE content'[k] = "none"
    <3>1. content[k] = "none"
      BY <1>2, <1>4, <2>4
    <3> QED
      BY <1>1, <1>2, <2>1, <2>2, <2>4, <3>1 DEF Open, Move, Copy, FileTypes
  <2> QED
    BY <2>3, <2>4
<1> QED
  BY <1>2, <1>3, <1>5, <1>6, KeptStays DEF EmptyInv, Kept

\* A thread that deletes the last file goes to look into the directory.
LEMMA KeptByUnlink ==
  ASSUME TypeInv, EmptyInv, NEW t \in Thread, Unlink(t), NEW d \in dirs'
  PROVE  Kept(d)'
<1> DEFINE k == job[t].key
<1>1. FileTypes /\ ThreadTypes /\ ThreadInv
  BY TypeParts
<1>2. pc[t] = "unlink" /\ k \in Key /\ Only(t) /\ level[t] = DirLevels
  BY <1>1, StepCalls, Busy, OnlyOne DEF Step, Unlink, At
<1>3. dirs' = dirs /\ meta' = meta /\ level' = level /\ ~Concern(t, d)
  BY <1>2 DEF Unlink, Concern
<1>4. NonEmpty(d) => NonEmpty(d)' \/ Concern(t, d)'
  <2>1. CASE content' = content
    BY <1>3, <2>1, NonEmptyStays
  <2>2. CASE content' # content
    <3>1. content' = [content EXCEPT ![k] = "none"] /\ Goto(t, "list")
      BY <2>2 DEF Unlink
    <3>2. pc'[t] = "list" /\ job'[t] = job[t]
      BY <1>1, <3>1 DEF Goto, ThreadTypes
    <3>3. CASE d = Path(k, DirLevels)
      BY <1>2, <1>3, <3>2, <3>3 DEF Concern, Path
    <3>4. CASE d # Path(k, DirLevels)
      <4>1. \A q \in Key : q # k => content'[q] = content[q]
        BY <1>1, <3>1 DEF FileTypes
      <4> QED
        BY <1>3, <3>4, <4>1 DEF NonEmpty, Path, Parent
    <3> QED
      BY <3>3, <3>4
  <2> QED
    BY <2>1, <2>2
<1> QED
  BY <1>2, <1>3, <1>4, KeptStays DEF EmptyInv, Kept

\* A thread that removes a directory goes on to the one above, and gives up
\* only where there is something in the directory, or none.
LEMMA KeptByRemove ==
  ASSUME TypeInv, EmptyInv, NEW t \in Thread, List(t) \/ RemoveDir(t), NEW d \in dirs'
  PROVE  Kept(d)'
<1> DEFINE k == job[t].key
<1>1. FileTypes /\ ThreadTypes /\ ThreadInv
  BY TypeParts
<1>2. /\ pc[t] \in {"list", "rmdir"} /\ k \in Key /\ Only(t)
      /\ DirLevels \in Nat \ {0} /\ level[t] \in 1..DirLevels
  <2>1. pc[t] \in {"list", "rmdir"} /\ level[t] \in 0..DirLevels /\ DirLevels \in Nat \ {0}
    BY <1>1, LevelsPositive DEF List, RemoveDir, At, ThreadTypes
  <2> QED
    BY <1>1, <2>1, Busy, OnlyOne DEF Step
<1> DEFINE e == Path(k, level[t])
<1>3. d \in dirs /\ meta' = meta /\ content' = content
  BY DEF List, RemoveDir, fs
<1>4. Concern(t, d) => d = e
  BY <1>2 DEF Concern
<1>5. CASE dirs' = dirs
  <2>1. NonEmpty(d) => NonEmpty(d)'
    BY <1>3, <1>5, NonEmptyStays
  <2>2. ASSUME Concern(t, d), ~NonEmpty(d) PROVE Concern(t, d)'
    <3>1. e \in dirs /\ ~NonEmpty(e)
      BY <1>3, <1>4, <2>2
    <3>2. List(t) /\ Goto(t, "rmdir") /\ level' = level
      BY <1>5, <3>1 DEF List, RemoveDir
    <3>3. pc'[t] = "rmdir" /\ job'[t] = job[t] /\ level'[t] = level[t]
      BY <1>1, <3>2 DEF Goto, ThreadTypes
    <3> QED
      BY <1>4, <2>2, <3>3 DEF Concern, Path
  <2> QED
    BY <1>2, <1>3, <2>1, <2>2, KeptStays DEF EmptyInv, Kept
<1>6. CASE dirs' # dirs
  <2>1. /\ e \in dirs /\ dirs' = dirs \ {e} /\ level' = [level EXCEPT ![t] = level[t] - 1]
        /\ IF LastLevel(t) THEN Return(t) ELSE Goto(t, "list")
    BY <1>6 DEF List, RemoveDir, fs
  <2>2. d # e /\ ~Concern(t, d)
    BY <1>4, <2>1
  <2>3. NonEmpty(d) => NonEmpty(d)' \/ Concern(t, d)'
    <3>1. CASE Parent(e) = d
      <4>1. d = Path(k, level[t] - 1) /\ d # <<>>
        <5>1. Parent(e) = Path(k, level[t] - 1)
          BY <1>2, Paths
        <5>2. \A q \in Key, n \in 1..DirLevels : Path(q, n) # <<>>
          BY Paths
        <5>3. d # <<>>
          BY <1>1, <1>3, <5>2 DEF FileTypes, AllDirs
        <5> QED
          BY <3>1, <5>1, <5>3
      <4>2. ~LastLevel(t)
        <5>1. LastLevel(t) => level[t] - 1 = 0
          BY DEF LastLevel
        <5> QED
          BY <1>2, <4>1, <5>1, Paths
      <4>3. pc'[t] = "list" /\ job'[t] = job[t] /\ level'[t] = level[t] - 1
        BY <1>1, <2>1, <4>2 DEF Goto, ThreadTypes
      <4> QED
        BY <4>1, <4>3 DEF Concern, Path
    <3>2. CASE Parent(e) # d
      BY <1>3, <2>1, <3>2 DEF NonEmpty, Path, Parent
    <3> QED
      BY <3>1, <3>2
  <2> QED
    BY <1>2, <1>3, <2>2, <2>3, KeptStays DEF EmptyInv, Kept
<1> QED
  BY <1>5, <1>6

\* No step forgets an empty directory.
LEMMA EmptyStep ==
  ASSUME TypeInv, NoneForgotten, [Next]_vars
  PROVE  NoneForgotten'
<1> SUFFICES ASSUME faults' = 0 PROVE EmptyInv'
  BY DEF NoneForgotten
<1>1. FileTypes /\ ThreadTypes
  BY TypeParts
<1>2. faults = 0
  BY <1>1, FaultsCounted
<1>3. EmptyInv
  BY <1>2 DEF NoneForgotten
<1> SUFFICES ASSUME NEW d \in dirs' PROVE Kept(d)'
  BY DEF EmptyInv, Kept
<1>4. ASSUME NEW t \in Thread, NEW op \in Operation, NEW k \in Key, Begin(t, op, k) PROVE Kept(d)'
  <2>1. Only(t) /\ pc[t] = "idle"
    BY <1>1, <1>4, Begins
  <2>2. dirs' = dirs /\ content' = content /\ meta' = meta /\ ~Concern(t, d)
    BY <1>4, <2>1 DEF Begin, fs, Concern
  <2> QED
    BY <1>3, <2>1, <2>2, KeptStays, NonEmptyStays DEF EmptyInv, Kept
<1>5. ASSUME NEW t \in Thread, Step(t) PROVE Kept(d)'
  BY <1>3, <1>5, KeptByStore, KeptByFile, KeptByUnlink, KeptByRemove DEF Step
<1>6. ASSUME NEW t \in Thread PROVE ~WriteFails(t)
  BY <1>2 DEF WriteFails
<1>7. ~Crash
  BY <1>2 DEF Crash
<1>8. CASE UNCHANGED vars
  BY <1>3, <1>8 DEF vars, EmptyInv, Kept, NonEmpty, Concern, Path, Parent
<1> QED
  BY <1>4, <1>5, <1>6, <1>7, <1>8 DEF Next

\* "Store directory should be empty" (FileStoreTest): when all operations have
\* returned and nothing failed, no empty directory is left, whatever the
\* threads stored and deleted at once.
THEOREM NoEmptyDir == Spec => []NoEmptyDirWhenQuiet
<1>1. Init => NoneForgotten
  BY DEF Init, NoneForgotten, EmptyInv
<1>2. TypeInv /\ NoneForgotten /\ [Next]_vars => NoneForgotten'
  BY EmptyStep
<1>3. TypeInv /\ [Next]_vars => TypeInv'
  BY TypeStep
<1>4. NoneForgotten => NoEmptyDirWhenQuiet
  BY DEF NoneForgotten, EmptyInv, Kept, NoEmptyDirWhenQuiet, Quiet, Concern
<1> QED
  BY TypeInit, <1>1, <1>2, <1>3, <1>4, PTL DEF Spec
=============================================================================
