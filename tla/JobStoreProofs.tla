--------------------------- MODULE JobStoreProofs ---------------------------
(***************************************************************************)
(* Proofs about JobStore, for every set of processes, every set of jobs    *)
(* and every bound.                                                        *)
(***************************************************************************)
EXTENDS JobStore, SublistsProofs

USE JobStoreAssumption

-----------------------------------------------------------------------------
\* Lemmas about the operators on files and tables.

\* A record is a cell, and NUL bytes are one too.
LEMMA RecIsCell == Rec \subseteq Cell /\ Zero \in Cell
  BY DEF Cell

\* ftruncate gives a file of the length asked for.
LEMMA ResizeType ==
  ASSUME NEW f \in Seq(Cell), NEW n \in Nat
  PROVE  Resize(f, n) \in Seq(Cell) /\ Len(Resize(f, n)) = n
<1>1. \A i \in 1..n : (IF i <= Len(f) THEN f[i] ELSE Zero) \in Cell
  BY RecIsCell
<1>. QED BY <1>1 DEF Resize

\* A store keeps the length of the file and every other cell.
LEMMA StoreType ==
  ASSUME NEW f \in Seq(Cell), NEW i \in Nat \ {0}, NEW c \in Cell
  PROVE  /\ Store(f, i, c) \in Seq(Cell)
         /\ Len(Store(f, i, c)) = Len(f)
         /\ i <= Len(f) => Store(f, i, c)[i] = c
         /\ \A k \in 1..Len(f) : k # i => Store(f, i, c)[k] = f[k]
  BY DEF Store

\* The shift of removeJob yields a table without entry i; entries of the result
\* are entries of the original at different places.
LEMMA WithoutType ==
  ASSUME NEW t \in Seq(Rec), NEW i \in DOMAIN t
  PROVE  Without(t, i) \in Seq(Rec)
<1>1. Len(t) \in Nat /\ DOMAIN t = 1..Len(t)
  OBVIOUS
<1>2. \A k \in 1..(Len(t) - 1) : (IF k < i THEN t[k] ELSE t[k + 1]) \in Rec
  BY <1>1
<1>3. Len(t) - 1 \in Nat
  BY <1>1
<1>. QED BY <1>2, <1>3 DEF Without

LEMMA WithoutDistinct ==
  ASSUME NEW t \in Seq(Rec), NEW i \in DOMAIN t, Distinct(t)
  PROVE  Distinct(Without(t, i))
<1> DEFINE u == Without(t, i)
<1>1. Len(t) \in Nat /\ DOMAIN t = 1..Len(t) /\ DOMAIN u = 1..(Len(t) - 1)
  BY DEF Without
<1>2. ASSUME NEW a \in DOMAIN u, NEW b \in DOMAIN u, a # b
      PROVE  u[a].name # u[b].name /\ u[a].file # u[b].file
  <2> DEFINE s(k) == IF k < i THEN k ELSE k + 1
  <2>1. s(a) \in DOMAIN t /\ s(b) \in DOMAIN t /\ s(a) # s(b)
    BY <1>1, <1>2
  <2>2. u[a] = t[s(a)] /\ u[b] = t[s(b)]
    BY <1>1 DEF Without
  <2> HIDE DEF u, s
  <2>. QED BY <2>1, <2>2 DEF Distinct
<1>. QED BY <1>2 DEF Distinct

\* createJob appends only what it checked.
LEMMA AppendDistinct ==
  ASSUME NEW t \in Seq(Rec), Distinct(t), NEW j \in Rec, ~Conflicts(t, j)
  PROVE  Append(t, j) \in Seq(Rec) /\ Distinct(Append(t, j))
  BY DEF Distinct, Conflicts

\* What the signal handler restores is a file.
LEMMA IntactType ==
  ASSUME NEW f \in Seq(Cell)
  PROVE  Intact(f) \in Seq(Cell)
<1> DEFINE D == {i \in 1..Len(f) : \A k \in 1..i : f[k] # Zero}
<1>1. IsFiniteSet(1..Len(f)) /\ Cardinality(1..Len(f)) = Len(f)
  <2> DEFINE n == Len(f)
  <2>1. n \in Nat /\ n \in Int /\ 1 \in Int
    OBVIOUS
  <2> HIDE DEF n
  <2>2. /\ IsFiniteSet(1..n)
        /\ Cardinality(1..n) = IF 1 > n THEN 0 ELSE n - 1 + 1
    BY <2>1, FS_Interval, Zenon
  <2>3. IsFiniteSet(1..n) /\ Cardinality(1..n) = n
    BY <2>1, <2>2
  <2>. QED BY <2>3 DEF n
<1>2. IsFiniteSet(D) /\ Cardinality(D) <= Len(f)
  BY <1>1, FS_Subset
<1>3. Cardinality(D) \in Nat
  BY <1>2, FS_CardinalityType
<1> HIDE DEF D
<1>4. SubSeq(f, 1, Cardinality(D)) \in Seq(Cell)
  BY <1>2, <1>3
<1>. QED BY <1>4 DEF Intact, D

-----------------------------------------------------------------------------
\* Types.  memcpy reads inside the table only because a saver has a table that
\* is not empty and next never runs past its end.

CopyInBounds ==
    \A p \in Proc :
        /\ pc[p] \in Guarded => table[p] # <<>>
        /\ pc[p] = "copy" => next[p] <= Len(table[p])

TypeInv == TypeOK /\ CopyInBounds

\* The steps of one process, and what each leaves alone.
LEMMA NextCases ==
  ASSUME Next
  PROVE  \/ \E c \in Cli :
             \/ Start(c) \/ InitBackup(c) \/ AddJobFaults(c) \/ Finish(c)
             \/ Interrupt(c)
             \/ \E j \in Job : AddJob(c, j)
             \/ \E n \in Name : RemoveJob(c, n)
             \/ \E d \in Daemon : Launch(c, d) \/ StopDaemon(c, d)
         \/ \E d \in Daemon :
             AwaitFree(d) \/ DaemonLoad(d) \/ DaemonRun(d) \/ DaemonFaults(d)
         \/ \E p \in Proc :
             \/ Erase(p) \/ SaveBackup(p) \/ Truncate(p) \/ PollLock(p)
             \/ TakeLock(p) \/ CopyCell(p) \/ Unlock(p) \/ Kill(p)
  BY DEF Next, CliStep, DaemonStep, Save, Proc

\* Each bounded counter of the environment stays in its bound.
LEMMA BudgetType ==
  ASSUME TypeOK
  PROVE  LET Budget == [starts : 0..MaxStarts, kills : 0..MaxKills,
                        signals : 0..MaxSignals]
         IN  /\ budget.starts < MaxStarts =>
                    [budget EXCEPT !.starts = @ + 1] \in Budget
             /\ budget.kills < MaxKills =>
                    [budget EXCEPT !.kills = @ + 1] \in Budget
             /\ budget.signals < MaxSignals =>
                    [budget EXCEPT !.signals = @ + 1] \in Budget
<1>1. /\ budget = [starts |-> budget.starts, kills |-> budget.kills,
                   signals |-> budget.signals]
      /\ budget.starts \in 0..MaxStarts /\ budget.kills \in 0..MaxKills
      /\ budget.signals \in 0..MaxSignals
  BY DEF TypeOK
<1>2. /\ budget.starts < MaxStarts => budget.starts + 1 \in 0..MaxStarts
      /\ budget.kills < MaxKills => budget.kills + 1 \in 0..MaxKills
      /\ budget.signals < MaxSignals => budget.signals + 1 \in 0..MaxSignals
  BY <1>1
<1>. QED BY <1>1, <1>2

LEMMA TypeInit == Init => TypeInv
<1> SUFFICES ASSUME Init PROVE TypeInv
  OBVIOUS
<1>1. \A t \in InitialTables : t \in Seq(Cell)
  BY RecIsCell DEF IsTable
<1>2. CopyInBounds
  BY DEF Init, CopyInBounds, Guarded, InSave
<1>3. budget \in [starts : 0..MaxStarts, kills : 0..MaxKills,
                  signals : 0..MaxSignals]
  BY DEF Init
<1>4. <<>> \in Seq(Cell) /\ <<>> \in Seq(Rec)
  OBVIOUS
<1>5. file \in Seq(Cell) /\ backup \in Seq(Cell) /\ prior \in Seq(Cell)
  BY <1>1, <1>4 DEF Init
<1>6. table \in [Proc -> Seq(Rec)]
  BY <1>4 DEF Init
<1>7. freed \in [Proc -> BOOLEAN] /\ next \in [Proc -> Nat \ {0}]
  BY DEF Init
<1>. QED BY <1>2, <1>3, <1>5, <1>6, <1>7 DEF Init, TypeInv, TypeOK, PC

LEMMA TypeStep == TypeInv /\ [Next]_vars => TypeInv'
<1> SUFFICES ASSUME TypeInv, [Next]_vars PROVE TypeInv'
  OBVIOUS
<1> USE DEF TypeInv, TypeOK, CopyInBounds, PC, Guarded, InSave, Goto, Proc
<1>1. ASSUME NEW c \in Cli, Start(c) PROVE TypeInv'
  <2>1. Loadable(file) => Visible(file) \in Seq(Rec)
    BY DEF Loadable, IsTable
  <2>2. budget' \in [starts : 0..MaxStarts, kills : 0..MaxKills,
                     signals : 0..MaxSignals]
    BY <1>1, BudgetType DEF Start
  <2>3. table' \in [Proc -> Seq(Rec)]
    BY <1>1, <2>1 DEF Start
  <2>4. pc' \in [Proc -> PC] /\ CopyInBounds'
    BY <1>1 DEF Start
  <2>5. /\ victim' = {}
        /\ UNCHANGED <<files, freed, next, inherited, prior, clash, orphan>>
    BY <1>1 DEF Start
  <2>. QED BY <2>2, <2>3, <2>4, <2>5 DEF files
<1>2. ASSUME NEW c \in Cli, InitBackup(c) PROVE TypeInv'
  BY <1>2 DEF InitBackup, Snapshot, local, history
<1>3. ASSUME NEW c \in Cli, AddJobFaults(c) PROVE TypeInv'
  BY <1>3 DEF AddJobFaults, Release, files
<1>4. ASSUME NEW c \in Cli, Finish(c) PROVE TypeInv'
  BY <1>4 DEF Finish, files, local, history
<1>5. ASSUME NEW c \in Cli, NEW j \in Job, AddJob(c, j) PROVE TypeInv'
  <2>1. j \in Rec /\ c \in Proc /\ table[c] \in Seq(Rec)
    BY DEF Rec
  <2>2. Append(table[c], j) \in Seq(Rec)
    BY <2>1
  <2>3. table' \in [Proc -> Seq(Rec)]
    BY <1>5, <2>2 DEF AddJob
  <2>4. /\ pc[c] = "ready" /\ pc' \in {pc, [pc EXCEPT ![c] = "save"]}
        /\ UNCHANGED <<files, freed, next, inherited, budget, prior, clash,
                       victim, orphan>>
    BY <1>5, <2>1 DEF AddJob
  <2>5. \A p \in Proc \ {c} : table'[p] = table[p] /\ pc'[p] = pc[p]
    BY <1>5 DEF AddJob
  <2>6. pc'[c] \in {"ready", "save"} /\ pc' \in [Proc -> PC]
    BY <2>1, <2>4
  <2>. QED BY <2>1, <2>3, <2>4, <2>5, <2>6 DEF files
<1>6. ASSUME NEW c \in Cli, NEW n \in Name, RemoveJob(c, n) PROVE TypeInv'
  <2>1. \A i \in DOMAIN table[c] : Without(table[c], i) \in Seq(Rec)
    BY WithoutType
  <2>4. table' \in [Proc -> Seq(Rec)]
    <3>1. CASE UNCHANGED table
      BY <3>1
    <3>2. CASE \E i \in DOMAIN table[c] :
                  table' = [table EXCEPT ![c] = Without(table[c], i)]
      BY <3>2, <2>1
    <3>. QED BY <1>6, <3>1, <3>2 DEF RemoveJob
  <2>3. freed' \in [Proc -> BOOLEAN]
    BY <1>6 DEF RemoveJob
  <2>. QED BY <1>6, <2>3, <2>4 DEF RemoveJob, files
<1>7. ASSUME NEW c \in Cli, NEW d \in Daemon, Launch(c, d) PROVE TypeInv'
  BY <1>7 DEF Launch, files, history
<1>8. ASSUME NEW c \in Cli, NEW d \in Daemon, StopDaemon(c, d) PROVE TypeInv'
  BY <1>8 DEF StopDaemon, Release, files
<1>9. ASSUME NEW d \in Daemon, AwaitFree(d) PROVE TypeInv'
  BY <1>9 DEF AwaitFree, files, local, history
<1>10. ASSUME NEW d \in Daemon, DaemonLoad(d) PROVE TypeInv'
  <2>1. Loadable(file) => Visible(file) \in Seq(Rec)
    BY DEF Loadable, IsTable
  <2>2. table' \in [Proc -> Seq(Rec)]
    BY <1>10, <2>1 DEF DaemonLoad
  <2>3. pc' \in [Proc -> PC] /\ CopyInBounds'
    BY <1>10 DEF DaemonLoad
  <2>4. /\ victim' = {}
        /\ UNCHANGED <<files, freed, next, inherited, budget, prior, clash, orphan>>
    BY <1>10 DEF DaemonLoad
  <2>. QED BY <2>2, <2>3, <2>4 DEF files
<1>11. ASSUME NEW d \in Daemon, DaemonRun(d) PROVE TypeInv'
  BY <1>11 DEF DaemonRun, files, local
<1>12. ASSUME NEW d \in Daemon, DaemonFaults(d) PROVE TypeInv'
  BY <1>12 DEF DaemonFaults, Release, files
<1>13. ASSUME NEW p \in Proc, Erase(p) PROVE TypeInv'
  <2>1. table' \in [Proc -> Seq(Rec)] /\ next' \in [Proc -> Nat \ {0}]
    BY <1>13 DEF Erase, Release
  <2>2. pc' \in [Proc -> PC] /\ freed' \in [Proc -> BOOLEAN]
    BY <1>13 DEF Erase, Release, Rest
  <2>3. CopyInBounds'
    BY <1>13 DEF Erase, Release, Rest
  <2>4. /\ file' = <<>> /\ clash' \subseteq Proc
        /\ UNCHANGED <<backup, lock, inherited, budget, prior, victim, orphan>>
    BY <1>13 DEF Erase, Release, Others
  <2>. QED BY <2>1, <2>2, <2>3, <2>4
<1>14. ASSUME NEW p \in Proc, SaveBackup(p) PROVE TypeInv'
  BY <1>14 DEF SaveBackup, Snapshot, local, history
<1>15. ASSUME NEW p \in Proc, Truncate(p) PROVE TypeInv'
  <2>1. Resize(file, Len(table[p])) \in Seq(Cell)
    BY ResizeType
  <2>. QED BY <1>15, <2>1 DEF Truncate, local, Others
<1>16. ASSUME NEW p \in Proc, PollLock(p) PROVE TypeInv'
  BY <1>16 DEF PollLock, files, local, history
<1>17. ASSUME NEW p \in Proc, TakeLock(p) PROVE TypeInv'
  BY <1>17 DEF TakeLock, history
<1>18. ASSUME NEW p \in Proc, CopyCell(p) PROVE TypeInv'
  <2>1. table[p][next[p]] \in Cell
    BY <1>18, RecIsCell DEF CopyCell
  <2>2. Store(file, next[p], table[p][next[p]]) \in Seq(Cell)
    BY <2>1, StoreType
  <2>3. pc[p] = "copy" /\ next[p] \in Nat \ {0} /\ next[p] <= Len(table[p])
    BY <1>18 DEF CopyCell
  <2>4. next' = [next EXCEPT ![p] = next[p] + 1] /\ table' = table
    BY <1>18 DEF CopyCell
  <2>5. next' \in [Proc -> Nat \ {0}]
    BY <2>3, <2>4
  <2>6. pc' \in [Proc -> PC] /\ pc'[p] \in Guarded
    BY <1>18 DEF CopyCell
  <2>7. Len(table[p]) \in Nat
    OBVIOUS
  <2>8. CopyInBounds'
    <3>1. ASSUME NEW q \in Proc \ {p} PROVE pc'[q] = pc[q] /\ next'[q] = next[q]
      BY <1>18, <2>4 DEF CopyCell
    <3>2. /\ pc'[p] = "copy" => next[p] # Len(table[p])
          /\ next'[p] = next[p] + 1
      BY <1>18, <2>3, <2>4 DEF CopyCell
    <3>3. table[p] # <<>> /\ (pc'[p] = "copy" => next'[p] <= Len(table[p]))
      BY <2>3, <2>7, <3>2
    <3>. QED BY <2>4, <3>1, <3>3
  <2>. QED BY <1>18, <2>2, <2>5, <2>6, <2>8 DEF CopyCell, history
<1>19. ASSUME NEW p \in Proc, Unlock(p) PROVE TypeInv'
  <2>1. prior' \in Seq(Cell)
    BY <1>19 DEF Unlock
  <2>2. table' \in [Proc -> Seq(Rec)]
    BY <1>19 DEF Unlock, Release
  <2>. QED BY <1>19, <2>1, <2>2 DEF Unlock, Release, Rest
<1>20. ASSUME NEW c \in Cli, Interrupt(c) PROVE TypeInv'
  <2>1. Intact(backup) \in Seq(Cell)
    BY IntactType
  <2>2. budget' \in [starts : 0..MaxStarts, kills : 0..MaxKills,
                     signals : 0..MaxSignals]
    BY <1>20, BudgetType DEF Interrupt
  <2>3. pc' \in [Proc -> PC] /\ CopyInBounds'
    BY <1>20 DEF Interrupt, local
  <2>4. file' \in Seq(Cell) /\ lock' \in {"free", "locked"} /\ orphan' \in BOOLEAN
    BY <1>20, <2>1 DEF Interrupt
  <2>5. clash' \subseteq Proc
    BY <1>20 DEF Interrupt, Others
  <2>6. UNCHANGED <<backup, local, prior, victim>>
    BY <1>20 DEF Interrupt
  <2>. QED BY <2>2, <2>3, <2>4, <2>5, <2>6 DEF local
<1>21. ASSUME NEW p \in Proc, Kill(p) PROVE TypeInv'
  <2>1. budget' \in [starts : 0..MaxStarts, kills : 0..MaxKills,
                     signals : 0..MaxSignals]
    BY <1>21, BudgetType DEF Kill
  <2>2. pc' \in [Proc -> PC] /\ CopyInBounds'
    BY <1>21 DEF Kill, Release
  <2>3. /\ freed' \in [Proc -> BOOLEAN] /\ next' \in [Proc -> Nat \ {0}]
        /\ victim' \subseteq Proc /\ orphan' \in BOOLEAN
        /\ table' \in [Proc -> Seq(Rec)]
    BY <1>21 DEF Kill, Release
  <2>4. UNCHANGED <<files, inherited, prior, clash>>
    BY <1>21 DEF Kill
  <2>. QED BY <2>1, <2>2, <2>3, <2>4 DEF files
<1>22. CASE UNCHANGED vars
  BY <1>22 DEF vars, files, local, history
<1>. QED
  BY NextCases, <1>1, <1>2, <1>3, <1>4, <1>5, <1>6, <1>7, <1>8, <1>9, <1>10,
     <1>11, <1>12, <1>13, <1>14, <1>15, <1>16, <1>17, <1>18, <1>19, <1>20,
     <1>21, <1>22

\* Type correctness of the job files and of every process that uses them.
THEOREM TypeCorrect == Spec => []TypeOK
<1>1. Spec => []TypeInv
  BY TypeInit, TypeStep, PTL DEF Spec
<1>2. TypeInv => TypeOK
  BY DEF TypeInv
<1>. QED BY <1>1, <1>2, PTL

-----------------------------------------------------------------------------
\* Tables.  Every table a process holds came through a loader, which refuses
\* duplicates, and was changed only by createJob and removeJob.

LEMMA DistinctInit == Init => TablesDistinct
  BY DEF Init, TablesDistinct, Distinct

LEMMA DistinctStep == TypeInv /\ TablesDistinct /\ [Next]_vars => TablesDistinct'
<1> SUFFICES ASSUME TypeInv, TablesDistinct, [Next]_vars PROVE TablesDistinct'
  OBVIOUS
<1>1. table \in [Proc -> Seq(Rec)] /\ pc \in [Proc -> PC]
  BY DEF TypeInv, TypeOK
<1>2. Distinct(<<>>)
  BY DEF Distinct
<1>3. ASSUME NEW p \in Proc, NEW t, Distinct(t), table' = [table EXCEPT ![p] = t]
      PROVE  TablesDistinct'
  BY <1>1, <1>3 DEF TablesDistinct
<1>4. CASE UNCHANGED table
  BY <1>4 DEF TablesDistinct
<1>5. ASSUME NEW p \in Proc, Release(p) PROVE TablesDistinct'
  BY <1>2, <1>3, <1>5 DEF Release
<1>6. ASSUME NEW p \in Proc, Loadable(file),
             table' = [table EXCEPT ![p] = Visible(file)]
      PROVE  TablesDistinct'
  BY <1>3, <1>6 DEF Loadable, IsTable
<1>7. ASSUME NEW c \in Cli, NEW j \in Job, AddJob(c, j) PROVE TablesDistinct'
  <2>1. CASE Conflicts(table[c], j)
    BY <1>4, <1>7, <2>1 DEF AddJob
  <2>2. CASE ~Conflicts(table[c], j)
    <3>1. c \in Proc /\ j \in Rec /\ Distinct(table[c])
      BY DEF Proc, Rec, TablesDistinct
    <3>2. Distinct(Append(table[c], j))
      BY <1>1, <2>2, <3>1, AppendDistinct
    <3>. QED BY <1>3, <1>7, <2>2, <3>1, <3>2 DEF AddJob
  <2>. QED BY <2>1, <2>2
<1>8. ASSUME NEW c \in Cli, NEW n \in Name, RemoveJob(c, n) PROVE TablesDistinct'
  <2>1. c \in Proc /\ table[c] \in Seq(Rec) /\ Distinct(table[c])
    BY <1>1 DEF Proc, TablesDistinct
  <2>2. ASSUME NEW i \in DOMAIN table[c],
               table' = [table EXCEPT ![c] = Without(table[c], i)]
        PROVE  TablesDistinct'
    BY <1>3, <2>1, <2>2, WithoutDistinct
  <2>. QED BY <1>4, <1>8, <2>2 DEF RemoveJob
<1>9. ASSUME NEW c \in Cli, \/ Start(c) \/ InitBackup(c) \/ AddJobFaults(c)
                            \/ Finish(c) \/ Interrupt(c)
      PROVE  TablesDistinct'
  BY <1>4, <1>5, <1>6, <1>9
     DEF Proc, Start, InitBackup, AddJobFaults, Finish, Interrupt, local
<1>10. ASSUME NEW c \in Cli, NEW d \in Daemon, Launch(c, d) \/ StopDaemon(c, d)
       PROVE  TablesDistinct'
  BY <1>4, <1>5, <1>10 DEF Proc, Launch, StopDaemon
<1>11. ASSUME NEW d \in Daemon, \/ AwaitFree(d) \/ DaemonLoad(d)
                                \/ DaemonRun(d) \/ DaemonFaults(d)
       PROVE  TablesDistinct'
  BY <1>4, <1>5, <1>6, <1>11
     DEF Proc, AwaitFree, DaemonLoad, DaemonRun, DaemonFaults, local
<1>12. ASSUME NEW p \in Proc, \/ Erase(p) \/ SaveBackup(p) \/ Truncate(p)
                              \/ PollLock(p) \/ TakeLock(p) \/ CopyCell(p)
                              \/ Unlock(p) \/ Kill(p)
       PROVE  TablesDistinct'
  BY <1>4, <1>5, <1>12 DEF Erase, SaveBackup, Truncate, PollLock, TakeLock,
                           CopyCell, Unlock, Kill, local
<1>13. CASE UNCHANGED vars
  BY <1>4, <1>13 DEF vars, local
<1>. QED
  BY NextCases, <1>7, <1>8, <1>9, <1>10, <1>11, <1>12, <1>13

\* No process ever works on a table with a duplicate name or runnable, however
\* many of them mix their writes in the jobs file.
THEOREM NeverADuplicate == Spec => []TablesDistinct
<1>1. Init => TypeInv /\ TablesDistinct
  BY TypeInit, DistinctInit
<1>2. TypeInv /\ TablesDistinct /\ [Next]_vars => (TypeInv /\ TablesDistinct)'
  BY TypeStep, DistinctStep
<1>. QED BY <1>1, <1>2, PTL DEF Spec

-----------------------------------------------------------------------------
\* The lock.  Only syncJob(true) writes "locked", and a process leaves the
\* critical section by syncJob(false) or by dying in it.

LEMMA HolderStep == TypeInv /\ LockHasHolder /\ [Next]_vars => LockHasHolder'
<1> SUFFICES ASSUME TypeInv, LockHasHolder, [Next]_vars PROVE LockHasHolder'
  OBVIOUS
<1>1. pc \in [Proc -> PC] /\ orphan \in BOOLEAN
  BY DEF TypeInv, TypeOK
<1>2. CASE lock' = "free"
  BY <1>2 DEF LockHasHolder
<1>3. ASSUME lock' = lock, orphan => orphan',
             NEW p \in Proc, NEW l \in PC, pc' = [pc EXCEPT ![p] = l],
             pc[p] \in Holding => l \in Holding \/ orphan'
      PROVE  LockHasHolder'
  BY <1>1, <1>3 DEF LockHasHolder
<1>4. CASE UNCHANGED <<lock, pc, orphan>>
  BY <1>4 DEF LockHasHolder
<1>5. ASSUME NEW c \in Cli, \/ Start(c) \/ InitBackup(c) \/ AddJobFaults(c)
                            \/ Finish(c)
      PROVE  LockHasHolder'
  BY <1>3, <1>4, <1>5 DEF Proc, PC, Holding, Goto, Start, InitBackup,
     AddJobFaults, Finish, files, history
<1>6. ASSUME NEW c \in Cli, Interrupt(c) PROVE LockHasHolder'
  BY <1>2, <1>3, <1>6 DEF Proc, PC, Holding, Goto, Interrupt
<1>7. ASSUME NEW c \in Cli, NEW j \in Job, AddJob(c, j) PROVE LockHasHolder'
  BY <1>3, <1>4, <1>7 DEF Proc, PC, Guarded, Holding, Goto, AddJob, files
<1>8. ASSUME NEW c \in Cli, NEW n \in Name, RemoveJob(c, n) PROVE LockHasHolder'
  BY <1>3, <1>4, <1>8 DEF Proc, PC, Guarded, Holding, Goto, RemoveJob, files
<1>9. ASSUME NEW c \in Cli, NEW d \in Daemon, Launch(c, d) \/ StopDaemon(c, d)
      PROVE  LockHasHolder'
  BY <1>3, <1>9 DEF Proc, PC, Holding, Goto, Launch, StopDaemon, files, history
<1>10. ASSUME NEW d \in Daemon, \/ AwaitFree(d) \/ DaemonLoad(d)
                                \/ DaemonRun(d) \/ DaemonFaults(d)
       PROVE  LockHasHolder'
  BY <1>3, <1>10 DEF Proc, PC, Holding, Goto, AwaitFree, DaemonLoad, DaemonRun,
     DaemonFaults, files, history
<1>11. ASSUME NEW p \in Proc, \/ Erase(p) \/ SaveBackup(p) \/ Truncate(p)
                              \/ PollLock(p)
       PROVE  LockHasHolder'
  BY <1>3, <1>11 DEF Proc, PC, Guarded, InSave, Holding, Goto, Rest, Erase,
     SaveBackup, Truncate, PollLock, files, history
<1>12. ASSUME NEW p \in Proc, TakeLock(p) PROVE LockHasHolder'
  BY <1>1, <1>12 DEF TakeLock, Goto, Holding, LockHasHolder
<1>13. ASSUME NEW p \in Proc, CopyCell(p) PROVE LockHasHolder'
  BY <1>3, <1>4, <1>13 DEF PC, Guarded, InSave, Holding, Goto, CopyCell, history
<1>14. ASSUME NEW p \in Proc, Unlock(p) PROVE LockHasHolder'
  BY <1>2, <1>14 DEF Unlock
<1>15. ASSUME NEW p \in Proc, Kill(p) PROVE LockHasHolder'
  BY <1>3, <1>15 DEF PC, Holding, Goto, Kill, files
<1>16. CASE UNCHANGED vars
  BY <1>4, <1>16 DEF vars, files, history
<1>. QED
  BY NextCases, <1>5, <1>6, <1>7, <1>8, <1>9, <1>10, <1>11, <1>12, <1>13, <1>14,
     <1>15, <1>16

\* A locked lock file has a process in the critical section, or had one that
\* died there.
THEOREM NoLockWithoutHolder == Spec => []LockHasHolder
<1>1. Init => TypeInv /\ LockHasHolder
  BY TypeInit DEF Init, LockHasHolder
<1>2. TypeInv /\ LockHasHolder /\ [Next]_vars => (TypeInv /\ LockHasHolder)'
  BY TypeStep, HolderStep
<1>. QED BY <1>1, <1>2, PTL DEF Spec

-----------------------------------------------------------------------------
\* A save that nothing overlaps.  The two properties are not inductive: what is
\* in the file at "unlock" depends on every cell copied before, on the length
\* ftruncate gave the file before the lock was taken, and on no other process
\* being anywhere in a save.

Alone(p) == pc[p] \in InSave /\ p \notin clash

SaveProgress ==
    \A p \in Proc : Alone(p) =>
        /\ Others(p) = {}
        /\ Len(file) = Len(table[p])
        /\ pc[p] \in Holding => lock = "locked"
        /\ pc[p] = "copy" => \A i \in 1..(next[p] - 1) : file[i] = table[p][i]
        /\ pc[p] = "unlock" => file = table[p]

\* What the steps outside a save do to the saves of others: nothing.
LEMMA Bystander ==
  ASSUME SaveProgress, file' = file, lock' = lock,
         \A p \in Proc : pc'[p] \in InSave =>
            /\ pc'[p] = pc[p] /\ table'[p] = table[p] /\ next'[p] = next[p]
            /\ p \in clash => p \in clash'
  PROVE  SaveProgress'
<1> SUFFICES ASSUME NEW p \in Proc, Alone(p)'
             PROVE  /\ Others(p)' = {}
                    /\ Len(file') = Len(table'[p])
                    /\ pc'[p] \in Holding => lock' = "locked"
                    /\ pc'[p] = "copy" =>
                          \A i \in 1..(next'[p] - 1) : file'[i] = table'[p][i]
                    /\ pc'[p] = "unlock" => file' = table'[p]
  BY DEF SaveProgress
<1>1. Alone(p) /\ pc'[p] = pc[p] /\ table'[p] = table[p] /\ next'[p] = next[p]
  BY DEF Alone
<1>2. Others(p)' \subseteq Others(p)
  BY DEF Others
<1>. QED BY <1>1, <1>2 DEF SaveProgress

\* Whoever saves alone is the only process in a save.
LEMMA OnlySaver ==
  ASSUME SaveProgress, NEW p \in Proc, NEW q \in Proc,
         Alone(p), pc[q] \in InSave
  PROVE  p = q
  BY DEF SaveProgress, Others

LEMMA SaveStep == TypeInv /\ SaveProgress /\ [Next]_vars => SaveProgress'
<1> SUFFICES ASSUME TypeInv, SaveProgress, [Next]_vars PROVE SaveProgress'
  OBVIOUS
<1>1. /\ pc \in [Proc -> PC] /\ table \in [Proc -> Seq(Rec)]
      /\ next \in [Proc -> Nat \ {0}] /\ file \in Seq(Cell)
      /\ freed \in [Proc -> BOOLEAN]
  BY DEF TypeInv, TypeOK
<1>2. Cli \subseteq Proc /\ Daemon \subseteq Proc
  BY DEF Proc
<1> USE DEF Goto, InSave
<1>3. ASSUME NEW c \in Cli, \/ Start(c) \/ InitBackup(c) \/ AddJobFaults(c)
                            \/ Finish(c)
      PROVE  SaveProgress'
  BY <1>1, <1>2, <1>3, Bystander DEF Start, InitBackup, AddJobFaults, Finish,
     Release, files, local, history
<1>4. ASSUME NEW c \in Cli, NEW j \in Job, AddJob(c, j) PROVE SaveProgress'
  BY <1>1, <1>2, <1>4, Bystander DEF AddJob, files
<1>5. ASSUME NEW c \in Cli, NEW n \in Name, RemoveJob(c, n) PROVE SaveProgress'
  BY <1>1, <1>2, <1>5, Bystander DEF RemoveJob, files
<1>6. ASSUME NEW c \in Cli, NEW d \in Daemon, Launch(c, d) \/ StopDaemon(c, d)
      PROVE  SaveProgress'
  BY <1>1, <1>2, <1>6, Bystander DEF Launch, StopDaemon, Release, files, history
<1>7. ASSUME NEW d \in Daemon, \/ AwaitFree(d) \/ DaemonLoad(d)
                               \/ DaemonRun(d) \/ DaemonFaults(d)
      PROVE  SaveProgress'
  BY <1>1, <1>2, <1>7, Bystander DEF AwaitFree, DaemonLoad, DaemonRun,
     DaemonFaults, Release, files, local, history
<1>8. ASSUME NEW p \in Proc, SaveBackup(p) \/ Kill(p) PROVE SaveProgress'
  BY <1>1, <1>8, Bystander DEF SaveBackup, Kill, Release, files, local, history
<1>9. ASSUME NEW q \in Proc, Erase(q) PROVE SaveProgress'
  <2>1. \A p \in Proc : pc'[p] \in InSave => p \in clash'
    BY <1>1, <1>9 DEF Erase, Others, Rest
  <2>. QED BY <2>1 DEF SaveProgress, Alone
<1>10. ASSUME NEW q \in Proc, Truncate(q) PROVE SaveProgress'
  <2>1. CASE Others(q) = {}
    <3>1. \A p \in Proc : pc'[p] \in InSave => p = q
      BY <1>1, <1>10, <2>1 DEF Truncate, Others
    <3>2. Others(q)' = {}
      BY <3>1 DEF Others
    <3>3. Len(file') = Len(table[q]) /\ table' = table
      BY <1>1, <1>10, ResizeType DEF Truncate, local
    <3>4. pc'[q] = "poll"
      BY <1>1, <1>10 DEF Truncate
    <3>. QED BY <3>1, <3>2, <3>3, <3>4 DEF SaveProgress, Alone, Holding
  <2>2. CASE Others(q) # {}
    <3>1. \A p \in Proc : pc'[p] \in InSave => p \in clash'
      BY <1>1, <1>10, <2>2 DEF Truncate, Others
    <3>. QED BY <3>1 DEF SaveProgress, Alone
  <2>. QED BY <2>1, <2>2
<1>11. ASSUME NEW q \in Proc, pc[q] \in InSave, NEW l \in PC,
              pc' = [pc EXCEPT ![q] = l], clash' = clash
       PROVE  \A p \in Proc : Alone(p)' => p = q /\ Alone(q) /\ Others(p)' = {}
  BY <1>1, <1>11, OnlySaver DEF Alone, Others, SaveProgress
<1>12. ASSUME NEW q \in Proc, PollLock(q) PROVE SaveProgress'
  <2>1. \A p \in Proc : Alone(p)' => p = q /\ Alone(q) /\ Others(p)' = {}
    BY <1>11, <1>12 DEF PollLock, history, PC, Guarded
  <2>. QED BY <1>1, <1>12, <2>1
           DEF PollLock, SaveProgress, files, local, Holding
<1>13. ASSUME NEW q \in Proc, TakeLock(q) PROVE SaveProgress'
  <2>1. \A p \in Proc : Alone(p)' => p = q /\ Alone(q) /\ Others(p)' = {}
    BY <1>11, <1>13 DEF TakeLock, history, PC, Guarded
  <2>2. next'[q] - 1 = 0 /\ lock' = "locked" /\ file' = file /\ table' = table
    BY <1>1, <1>13 DEF TakeLock
  <2>3. pc'[q] = "copy"
    BY <1>1, <1>13 DEF TakeLock
  <2>. QED BY <2>1, <2>2, <2>3 DEF SaveProgress
<1>14. ASSUME NEW q \in Proc, CopyCell(q) PROVE SaveProgress'
  <2>1. /\ pc[q] = "copy" /\ table' = table /\ lock' = lock /\ clash' = clash
        /\ file' = Store(file, next[q], table[q][next[q]])
        /\ next' = [next EXCEPT ![q] = next[q] + 1]
    BY <1>14 DEF CopyCell, history
  <2>2. IF next[q] = Len(table[q]) THEN pc' = [pc EXCEPT ![q] = "unlock"]
                                   ELSE pc' = pc
    BY <1>14 DEF CopyCell
  <2>3. \E l \in PC : pc' = [pc EXCEPT ![q] = l]
    BY <1>1, <2>1, <2>2 DEF PC, Guarded
  <2>4. \A p \in Proc : Alone(p)' => p = q /\ Alone(q) /\ Others(p)' = {}
    BY <1>11, <2>1, <2>3
  <2>5. SUFFICES ASSUME Alone(q)', Alone(q), Others(q)' = {}
                 PROVE  /\ Len(file') = Len(table[q])
                        /\ lock' = "locked"
                        /\ \A i \in 1..(next'[q] - 1) : file'[i] = table[q][i]
                        /\ pc'[q] = "unlock" => file' = table[q]
    BY <2>1, <2>4 DEF SaveProgress
  <2> DEFINE n == next[q]
             t == table[q]
  <2>6. /\ n \in Nat \ {0} /\ n <= Len(t) /\ t \in Seq(Rec) /\ t[n] \in Cell
        /\ Len(t) \in Nat
    BY <1>1, <2>1, RecIsCell DEF TypeInv, CopyInBounds
  <2>7. /\ Len(file) = Len(t) /\ lock = "locked"
        /\ \A i \in 1..(n - 1) : file[i] = t[i]
    BY <2>1, <2>5 DEF SaveProgress, Holding
  <2>8. next'[q] - 1 = n
    BY <1>1, <2>1, <2>6
  <2>9. /\ file' \in Seq(Cell) /\ Len(file') = Len(t)
        /\ file'[n] = t[n] /\ \A k \in 1..Len(file) : k # n => file'[k] = file[k]
    <3> HIDE DEF n, t
    <3>1. file \in Seq(Cell) /\ n \in Nat \ {0} /\ t[n] \in Cell
      BY <1>1, <2>6
    <3>2. file' = Store(file, n, t[n])
      BY <2>1 DEF n, t
    <3>3. /\ file' \in Seq(Cell) /\ Len(file') = Len(file)
          /\ n <= Len(file) => file'[n] = t[n]
          /\ \A k \in 1..Len(file) : k # n => file'[k] = file[k]
      BY <3>1, <3>2, StoreType, ZenonT(40)
    <3>. QED BY <2>6, <2>7, <3>3
  <2> HIDE DEF n, t
  <2>10. \A i \in 1..n : file'[i] = t[i]
    BY <2>6, <2>7, <2>9
  <2>11. pc'[q] = "unlock" => n = Len(t)
    BY <1>1, <2>1, <2>2 DEF n, t
  <2>12. n = Len(t) => file' = t
    BY <2>6, <2>9, <2>10
  <2>. QED BY <2>1, <2>7, <2>8, <2>9, <2>10, <2>11, <2>12 DEF t
<1>15. ASSUME NEW q \in Proc, Unlock(q) PROVE SaveProgress'
  <2>1. ASSUME NEW p \in Proc, Alone(p)' PROVE FALSE
    <3>1. p # q /\ Alone(p) /\ pc[q] \in InSave
      BY <1>1, <1>15, <2>1 DEF Unlock, Alone, Rest
    <3>. QED BY <3>1, OnlySaver
  <2>. QED BY <2>1 DEF SaveProgress
<1>16. ASSUME NEW c \in Cli, Interrupt(c) PROVE SaveProgress'
  <2>1. CASE backup[1] = Zero
    BY <1>1, <1>2, <1>16, <2>1, Bystander DEF Interrupt, local
  <2>2. CASE backup[1] # Zero
    <3>1. \A p \in Proc : pc'[p] \in InSave => p \in clash'
      BY <1>1, <1>16, <2>2 DEF Interrupt, Others
    <3>. QED BY <3>1 DEF SaveProgress, Alone
  <2>. QED BY <2>1, <2>2
<1>17. CASE UNCHANGED vars
  BY <1>17, Bystander DEF vars, files, local, history
<1>. QED
  BY NextCases, <1>3, <1>4, <1>5, <1>6, <1>7, <1>8, <1>9, <1>10, <1>12, <1>13,
     <1>14, <1>15, <1>16, <1>17

LEMMA SaveInit == Init => SaveProgress
  BY DEF Init, SaveProgress, Alone, InSave

LEMMA SaveInductive == Spec => [](TypeInv /\ SaveProgress)
  BY TypeInit, TypeStep, SaveInit, SaveStep, PTL DEF Spec

\* A save no other save and no signal handler overlaps writes its whole table
\* and nothing else.
THEOREM UndisturbedSavesAreExact == Spec => []UndisturbedSaveIsExact
<1>1. SaveProgress => UndisturbedSaveIsExact
  BY DEF SaveProgress, UndisturbedSaveIsExact, Alone, InSave
<1>. QED BY <1>1, SaveInductive, PTL

\* Such a save is visible as locked while it writes.
THEOREM UndisturbedSavesAreLocked == Spec => []UndisturbedSaveIsLocked
<1>1. SaveProgress => UndisturbedSaveIsLocked
  BY DEF SaveProgress, UndisturbedSaveIsLocked, Alone, InSave, Holding
<1>. QED BY <1>1, SaveInductive, PTL

-----------------------------------------------------------------------------
\* One process at a time.

SoleWorker == \A p, q \in AtWork : p = q

\* How a step moves the processes: the one at work moves, or one comes to rest,
\* or one starts when the rule lets it.
LEMMA Moves ==
  ASSUME TypeInv, [Next]_vars
  PROVE  \/ pc' = pc
         \/ \E p \in AtWork, l \in PC : pc' = [pc EXCEPT ![p] = l]
         \/ \E p \in Proc, l \in {"off", "wait"} : pc' = [pc EXCEPT ![p] = l]
         \/ MayStart /\ \E p \in Proc, l \in PC : pc' = [pc EXCEPT ![p] = l]
<1>1. Cli \subseteq Proc /\ Daemon \subseteq Proc
  BY DEF Proc
<1> USE DEF AtWork, PC, Guarded, InSave, Goto
<1>2. ASSUME NEW c \in Cli, \/ Start(c) \/ InitBackup(c) \/ AddJobFaults(c)
                            \/ Finish(c) \/ Interrupt(c)
                            \/ \E j \in Job : AddJob(c, j)
                            \/ \E n \in Name : RemoveJob(c, n)
                            \/ \E d \in Daemon : Launch(c, d) \/ StopDaemon(c, d)
      PROVE  \/ pc' = pc
             \/ \E p \in AtWork, l \in PC : pc' = [pc EXCEPT ![p] = l]
             \/ \E p \in Proc, l \in {"off", "wait"} : pc' = [pc EXCEPT ![p] = l]
             \/ MayStart /\ \E p \in Proc, l \in PC : pc' = [pc EXCEPT ![p] = l]
  BY <1>1, <1>2 DEF Start, InitBackup, AddJobFaults, Finish, Interrupt, AddJob,
     RemoveJob, Launch, StopDaemon
<1>3. ASSUME NEW d \in Daemon, \/ AwaitFree(d) \/ DaemonLoad(d)
                               \/ DaemonRun(d) \/ DaemonFaults(d)
      PROVE  \/ \E p \in AtWork, l \in PC : pc' = [pc EXCEPT ![p] = l]
             \/ MayStart /\ \E p \in Proc, l \in PC : pc' = [pc EXCEPT ![p] = l]
  BY <1>1, <1>3 DEF AwaitFree, DaemonLoad, DaemonRun, DaemonFaults
<1>4. ASSUME NEW p \in Proc, \/ Erase(p) \/ SaveBackup(p) \/ Truncate(p)
                             \/ PollLock(p) \/ TakeLock(p) \/ Unlock(p) \/ Kill(p)
      PROVE  \/ \E q \in AtWork, l \in PC : pc' = [pc EXCEPT ![q] = l]
             \/ \E q \in Proc, l \in {"off", "wait"} : pc' = [pc EXCEPT ![q] = l]
  BY <1>4 DEF Erase, SaveBackup, Truncate, PollLock, TakeLock, Unlock, Kill, Rest
<1>5. ASSUME NEW p \in Proc, CopyCell(p)
      PROVE  \/ pc' = pc
             \/ \E q \in AtWork, l \in PC : pc' = [pc EXCEPT ![q] = l]
  BY <1>5 DEF CopyCell
<1>6. CASE UNCHANGED vars
  BY <1>6 DEF vars
<1>. QED BY NextCases, <1>2, <1>3, <1>4, <1>5, <1>6

LEMMA SoleStep ==
  ASSUME OneAtATime
  PROVE  TypeInv /\ SoleWorker /\ [Next]_vars => SoleWorker'
<1> SUFFICES ASSUME TypeInv, SoleWorker, [Next]_vars PROVE SoleWorker'
  OBVIOUS
<1>1. pc \in [Proc -> PC]
  BY DEF TypeInv, TypeOK
<1>2. CASE \/ pc' = pc
           \/ \E p \in AtWork, l \in PC : pc' = [pc EXCEPT ![p] = l]
           \/ \E p \in Proc, l \in {"off", "wait"} : pc' = [pc EXCEPT ![p] = l]
  <2>1. AtWork' \subseteq AtWork
    BY <1>1, <1>2 DEF AtWork
  <2>. QED BY <2>1 DEF SoleWorker
<1>3. ASSUME MayStart, NEW p \in Proc, NEW l \in PC, pc' = [pc EXCEPT ![p] = l]
      PROVE  SoleWorker'
  <2>1. AtWork' \subseteq {p}
    BY <1>1, <1>3 DEF AtWork, MayStart
  <2>. QED BY <2>1 DEF SoleWorker
<1>. QED BY <1>2, <1>3, Moves

-----------------------------------------------------------------------------
\* The backup of a save, one process at a time.  What the save is about to cut
\* has just been copied, and nothing that happens before the next load writes
\* the copy again.

\* The file as a save may find it: what its backup holds, or what a handler
\* made of the backup between the backup and the truncation.
FromBackup(f) == f \in {<<>>, backup, Intact(backup)}

BackedUp ==
    /\ \A p \in Proc : pc[p] = "truncate" => FromBackup(file)
    /\ \A p \in Proc : pc[p] \in InSave => FromBackup(prior)
    /\ budget.signals = 0 =>
        /\ \A p \in Proc : pc[p] = "truncate" => file \in {<<>>, backup}
        /\ (\E p \in Proc : pc[p] \in InSave) => prior \in {<<>>, backup}
        /\ victim # {} => prior \in {<<>>, backup}
    /\ victim # {} => \A p \in AtWork : pc[p] = "load"

\* With nobody in a save and nobody killed in one, there is nothing to say.
LEMMA NobodySaves ==
  ASSUME victim' = {}, \A q \in Proc : pc'[q] \notin Guarded
  PROVE  BackedUp'
  BY DEF BackedUp, Guarded

LEMMA BackedUpStep ==
  ASSUME OneAtATime
  PROVE  TypeInv /\ SoleWorker /\ BackedUp /\ [Next]_vars => BackedUp'
<1> SUFFICES ASSUME TypeInv, SoleWorker, BackedUp, [Next]_vars PROVE BackedUp'
  OBVIOUS
<1>1. /\ Cli \subseteq Proc /\ Daemon \subseteq Proc
      /\ pc \in [Proc -> PC] /\ budget.signals \in Nat
  BY DEF Proc, TypeInv, TypeOK
<1>2. ASSUME NEW p \in AtWork, pc[p] # "load"
      PROVE  victim = {} /\ \A q \in Proc \ {p} : pc[q] \in {"off", "wait"}
  BY <1>2 DEF BackedUp, SoleWorker, AtWork
<1> USE DEF Goto, Guarded, InSave, AtWork
<1>3. ASSUME NEW c \in Cli, Start(c) PROVE BackedUp'
  <2>1. CASE OneAtATime /\ AtWork = {}
    BY <1>1, <1>3, <2>1, NobodySaves DEF Start
  <2>. QED BY <1>3, <2>1 DEF Start, MayStart
<1>4. ASSUME NEW c \in Cli, \/ InitBackup(c) \/ AddJobFaults(c) \/ Finish(c)
                            \/ \E j \in Job : AddJob(c, j)
                            \/ \E n \in Name : RemoveJob(c, n)
                            \/ \E d \in Daemon : Launch(c, d) \/ StopDaemon(c, d)
      PROVE  BackedUp'
  <2>1. c \in Proc /\ pc[c] \in {"init", "ready"} /\ victim' = victim
    BY <1>1, <1>4 DEF InitBackup, AddJobFaults, Finish, AddJob, RemoveJob, Launch,
       StopDaemon, history
  <2>2. victim = {} /\ \A q \in Proc \ {c} : pc[q] \in {"off", "wait"}
    BY <1>2, <2>1
  <2>3. \A q \in Proc : pc'[q] \notin Guarded
    BY <1>1, <1>4, <2>1, <2>2 DEF InitBackup, AddJobFaults, Finish, AddJob,
       RemoveJob, Launch, StopDaemon
  <2>. QED BY <2>1, <2>2, <2>3, NobodySaves
<1>5. ASSUME NEW d \in Daemon, AwaitFree(d) PROVE BackedUp'
  <2>1. AtWork = {} /\ d \in Proc
    BY <1>1, <1>5 DEF AwaitFree, MayStart
  <2>2. pc' = [pc EXCEPT ![d] = "load"] /\ UNCHANGED <<files, budget, history>>
    BY <1>5 DEF AwaitFree
  <2>. QED BY <1>1, <2>1, <2>2 DEF BackedUp, FromBackup, files, history
<1>6. ASSUME NEW d \in Daemon, DaemonLoad(d) PROVE BackedUp'
  <2>1. \A q \in Proc \ {d} : pc[q] \in {"off", "wait"}
    BY <1>1, <1>6 DEF DaemonLoad, SoleWorker
  <2>. QED BY <1>1, <1>6, <2>1, NobodySaves DEF DaemonLoad
<1>7. ASSUME NEW p \in Proc, \/ Erase(p) \/ Unlock(p)
                             \/ p \in Daemon /\ (DaemonRun(p) \/ DaemonFaults(p))
      PROVE  BackedUp'
  <2>1. pc[p] \in {"save", "unlock", "run"} /\ victim' = victim
    BY <1>7 DEF Erase, Unlock, DaemonRun, DaemonFaults
  <2>2. victim = {} /\ \A q \in Proc \ {p} : pc[q] \in {"off", "wait"}
    BY <1>2, <2>1
  <2>3. \A q \in Proc : pc'[q] \notin Guarded
    BY <1>1, <1>7, <2>2 DEF Erase, Unlock, DaemonRun, DaemonFaults, Rest
  <2>. QED BY <2>1, <2>2, <2>3, NobodySaves
<1>8. ASSUME NEW p \in Proc, SaveBackup(p) PROVE BackedUp'
  <2>1. /\ pc[p] = "save" /\ pc' = [pc EXCEPT ![p] = "truncate"]
        /\ file' = file /\ (file = <<>> \/ backup' = file)
        /\ UNCHANGED <<budget, history>>
    BY <1>8 DEF SaveBackup, Snapshot
  <2>2. victim = {} /\ \A q \in Proc \ {p} : pc[q] \in {"off", "wait"}
    BY <1>2, <2>1
  <2>. QED BY <1>1, <2>1, <2>2 DEF BackedUp, FromBackup, history
<1>9. ASSUME NEW p \in Proc, Truncate(p) PROVE BackedUp'
  <2>1. /\ pc[p] = "truncate" /\ pc' = [pc EXCEPT ![p] = "poll"]
        /\ prior' = file /\ backup' = backup
        /\ UNCHANGED <<budget, victim>>
    BY <1>9 DEF Truncate
  <2>2. victim = {} /\ \A q \in Proc \ {p} : pc[q] \in {"off", "wait"}
    BY <1>2, <2>1
  <2>. QED BY <1>1, <2>1, <2>2 DEF BackedUp, FromBackup
<1>10. ASSUME NEW p \in Proc, PollLock(p) \/ TakeLock(p) \/ CopyCell(p)
       PROVE  BackedUp'
  <2>1. /\ pc[p] \in InSave
        /\ \E l \in InSave : pc' = [pc EXCEPT ![p] = l]
        /\ UNCHANGED <<backup, prior, victim, budget>>
    BY <1>1, <1>10 DEF PollLock, TakeLock, CopyCell, files, history
  <2>2. victim = {} /\ \A q \in Proc \ {p} : pc[q] \in {"off", "wait"}
    BY <1>2, <2>1
  <2>. QED BY <1>1, <2>1, <2>2 DEF BackedUp, FromBackup
<1>11. ASSUME NEW c \in Cli, Interrupt(c) PROVE BackedUp'
  <2>1. /\ pc[c] \in Guarded /\ c \in Proc
        /\ UNCHANGED <<backup, prior, victim>>
        /\ budget' = [budget EXCEPT !.signals = @ + 1]
    BY <1>1, <1>11 DEF Interrupt
  <2>2. victim = {} /\ \A q \in Proc \ {c} : pc[q] \in {"off", "wait"}
    BY <1>2, <2>1
  <2>3. budget'.signals # 0
    BY <2>1 DEF TypeInv, TypeOK
  <2>4. \/ pc' = pc /\ file' = Intact(backup)
        \/ pc' = [pc EXCEPT ![c] = "off"]
    BY <1>11 DEF Interrupt
  <2>. QED BY <1>1, <2>1, <2>2, <2>3, <2>4 DEF BackedUp, FromBackup
<1>12. ASSUME NEW p \in Proc, Kill(p) PROVE BackedUp'
  <2>1. /\ pc' = [pc EXCEPT ![p] = "off"]
        /\ UNCHANGED <<file, backup, prior>>
        /\ victim' = IF pc[p] \in InSave THEN victim \union {p} ELSE victim
    BY <1>12 DEF Kill, files
  <2>2. budget'.signals = budget.signals
    BY <1>12 DEF Kill, TypeInv, TypeOK
  <2>3. CASE pc[p] \in InSave
    <3>1. AtWork' = {}
      BY <1>1, <1>2, <2>1, <2>3
    <3>. QED BY <1>1, <2>1, <2>2, <2>3, <3>1 DEF BackedUp, FromBackup
  <2>4. CASE pc[p] \notin InSave
    BY <1>1, <2>1, <2>2, <2>4 DEF BackedUp, FromBackup
  <2>. QED BY <2>3, <2>4
<1>13. CASE UNCHANGED vars
  BY <1>13 DEF vars, files, history, BackedUp, FromBackup
<1>. QED
  BY NextCases, <1>1, <1>3, <1>4, <1>5, <1>6, <1>7, <1>8, <1>9, <1>10, <1>11,
     <1>12, <1>13

LEMMA SoleInit == Init => SoleWorker /\ BackedUp
  BY DEF Init, SoleWorker, BackedUp, AtWork, InSave

LEMMA SoleInductive ==
  ASSUME OneAtATime
  PROVE  Spec => [](TypeInv /\ SoleWorker /\ BackedUp)
<1>1. Init => TypeInv /\ SoleWorker /\ BackedUp
  BY TypeInit, SoleInit
<1>2. TypeInv /\ SoleWorker /\ BackedUp /\ [Next]_vars
        => (TypeInv /\ SoleWorker /\ BackedUp)'
  BY TypeStep, SoleStep, BackedUpStep
<1>. QED BY <1>1, <1>2, PTL DEF Spec

\* One process at a time, wherever a save is killed: what the file held is whole
\* in the backup until the file is loaded again.
THEOREM CrashesKeepACopy ==
  ASSUME OneAtATime
  PROVE  Spec => []CrashKeepsACopy
<1>1. BackedUp => CrashKeepsACopy
  BY DEF BackedUp, CrashKeepsACopy
<1>. QED BY <1>1, SoleInductive, PTL

-----------------------------------------------------------------------------
\* SIGINT in a save that adds jobs.  The table being written begins with the
\* records the file held, so that whatever prefix of it is there when the handler
\* puts the old file back, the rest of memcpy either completes the new table or
\* writes the old one over itself.

Adds(p) ==
    /\ prior # <<>> /\ Len(prior) <= Len(table[p])
    /\ \A i \in 1..Len(prior) : table[p][i] = prior[i]

AddProgress ==
    \A p \in Proc : pc[p] \in InSave /\ Adds(p) =>
        \/ file = prior
        \/ /\ Len(file) = Len(table[p])
           /\ \A i \in 1..Len(prior) : file[i] = table[p][i]
           /\ pc[p] = "copy" => \A i \in 1..(next[p] - 1) : file[i] = table[p][i]
           /\ pc[p] = "unlock" => file = table[p]

\* Two files of one length with the same cells are the same.
LEMMA SameFile ==
  ASSUME NEW f \in Seq(Cell), NEW g \in Seq(Cell), Len(f) = Len(g),
         \A i \in 1..Len(f) : f[i] = g[i]
  PROVE  f = g
  OBVIOUS

\* Storing the cell that is there already, or one past the end, changes nothing.
LEMMA StoreSame ==
  ASSUME NEW f \in Seq(Cell), NEW i \in Nat \ {0}, NEW c \in Cell,
         i <= Len(f) => f[i] = c
  PROVE  Store(f, i, c) = f
<1>1. CASE i <= Len(f)
  <2>1. /\ Store(f, i, c) \in Seq(Cell) /\ Len(Store(f, i, c)) = Len(f)
        /\ Store(f, i, c)[i] = c
        /\ \A k \in 1..Len(f) : k # i => Store(f, i, c)[k] = f[k]
    BY <1>1, StoreType
  <2>2. \A k \in 1..Len(f) : Store(f, i, c)[k] = f[k]
    BY <1>1, <2>1
  <2>. QED BY <2>1, <2>2, SameFile
<1>2. CASE ~(i <= Len(f))
  BY <1>2 DEF Store
<1>. QED BY <1>1, <1>2

\* The handler restores a backup that holds no NUL bytes as it is.
LEMMA IntactWhole ==
  ASSUME NEW f \in Seq(Cell), \A i \in 1..Len(f) : f[i] # Zero
  PROVE  Intact(f) = f
<1> DEFINE n == Len(f)
<1>1. n \in Nat /\ n \in Int /\ 1 \in Int
  OBVIOUS
<1>2. {i \in 1..n : \A k \in 1..i : f[k] # Zero} = 1..n
  BY <1>1
<1>3. SubSeq(f, 1, n) \in Seq(Cell) /\ Len(SubSeq(f, 1, n)) = n
      /\ \A i \in 1..n : SubSeq(f, 1, n)[i] = f[i]
  BY <1>1
<1>4. SubSeq(f, 1, n) = f
  BY <1>3, SameFile
<1> HIDE DEF n
<1>5. Cardinality(1..n) = IF 1 > n THEN 0 ELSE n - 1 + 1
  BY <1>1, FS_Interval, Zenon
<1>6. Cardinality(1..n) = n
  BY <1>1, <1>5
<1>7. Intact(f) = SubSeq(f, 1, Cardinality(1..n))
  BY <1>2 DEF Intact, n
<1>. QED BY <1>4, <1>6, <1>7

\* A record is not made of NUL bytes only.
LEMMA RecNotZero == Zero \notin Rec
  BY DEF Rec, Zero, Unnamed

\* What a handler writes over the file of a save that adds is the old file.
LEMMA HandlerRestores ==
  ASSUME TypeInv, BackedUp, NEW p \in Proc, pc[p] \in InSave, Adds(p)
  PROVE  Intact(backup) = prior
<1>1. prior \in Seq(Cell) /\ table[p] \in Seq(Rec) /\ backup \in Seq(Cell)
  BY DEF TypeInv, TypeOK
<1>2. \A i \in 1..Len(prior) : prior[i] # Zero
  <2>1. \A i \in 1..Len(prior) : i \in 1..Len(table[p]) /\ prior[i] = table[p][i]
    BY <1>1 DEF Adds
  <2>. QED BY <1>1, <2>1, RecNotZero
<1>3. Intact(prior) = prior
  BY <1>1, <1>2, IntactWhole
<1>4. prior = backup \/ prior = Intact(backup)
  BY DEF BackedUp, FromBackup, Adds
<1>. QED BY <1>3, <1>4

LEMMA AddStep ==
  ASSUME OneAtATime
  PROVE  TypeInv /\ SoleWorker /\ BackedUp /\ AddProgress /\ [Next]_vars
           => AddProgress'
<1> SUFFICES ASSUME TypeInv, SoleWorker, BackedUp, AddProgress, [Next]_vars
             PROVE  AddProgress'
  OBVIOUS
<1>1. /\ Cli \subseteq Proc /\ Daemon \subseteq Proc
      /\ pc \in [Proc -> PC] /\ table \in [Proc -> Seq(Rec)]
      /\ next \in [Proc -> Nat \ {0}] /\ file \in Seq(Cell) /\ prior \in Seq(Cell)
  BY DEF Proc, TypeInv, TypeOK
<1>2. ASSUME NEW p \in AtWork
      PROVE  \A q \in Proc \ {p} : pc[q] \in {"off", "wait"}
  BY <1>2 DEF SoleWorker, AtWork
<1>3. ASSUME \A p \in Proc : pc'[p] \notin InSave PROVE AddProgress'
  BY <1>3 DEF AddProgress
<1> USE DEF Goto, InSave, AtWork
<1>4. ASSUME NEW c \in Cli, \/ InitBackup(c) \/ AddJobFaults(c) \/ Finish(c)
                            \/ \E j \in Job : AddJob(c, j)
                            \/ \E n \in Name : RemoveJob(c, n)
                            \/ \E d \in Daemon : Launch(c, d) \/ StopDaemon(c, d)
      PROVE  AddProgress'
  <2>1. c \in Proc /\ pc[c] \in {"init", "ready"}
    BY <1>1, <1>4 DEF InitBackup, AddJobFaults, Finish, AddJob, RemoveJob, Launch,
       StopDaemon
  <2>2. \A q \in Proc \ {c} : pc[q] \in {"off", "wait"}
    BY <1>2, <2>1
  <2>3. \A q \in Proc : pc'[q] \notin InSave
    BY <1>1, <1>4, <2>1, <2>2 DEF InitBackup, AddJobFaults, Finish, AddJob,
       RemoveJob, Launch, StopDaemon
  <2>. QED BY <1>3, <2>3
<1>5. ASSUME NEW p \in Proc, Start(p) \/ AwaitFree(p) PROVE AddProgress'
  <2>1. CASE AtWork = {}
    BY <1>1, <1>3, <1>5, <2>1 DEF Start, AwaitFree
  <2>. QED BY <1>5, <2>1 DEF Start, AwaitFree, MayStart
<1>6. ASSUME NEW p \in Proc,
             \/ Erase(p) \/ Unlock(p) \/ SaveBackup(p)
             \/ DaemonLoad(p) \/ DaemonRun(p) \/ DaemonFaults(p)
      PROVE  AddProgress'
  <2>1. pc[p] \in {"save", "unlock", "run", "load"}
    BY <1>6 DEF Erase, Unlock, SaveBackup, DaemonLoad, DaemonRun, DaemonFaults
  <2>2. \A q \in Proc \ {p} : pc[q] \in {"off", "wait"}
    BY <1>2, <2>1
  <2>3. \A q \in Proc : pc'[q] \notin InSave
    BY <1>1, <1>6, <2>2 DEF Erase, Unlock, SaveBackup, DaemonLoad, DaemonRun,
       DaemonFaults, Rest
  <2>. QED BY <1>3, <2>3
<1>7. ASSUME NEW p \in Proc, Truncate(p) PROVE AddProgress'
  <2>1. /\ pc[p] = "truncate" /\ pc' = [pc EXCEPT ![p] = "poll"]
        /\ prior' = file /\ file' = Resize(file, Len(table[p])) /\ table' = table
    BY <1>7 DEF Truncate, local
  <2>2. \A q \in Proc \ {p} : pc'[q] \notin InSave
    BY <1>1, <1>2, <2>1
  <2>3. Len(table[p]) \in Nat /\ Len(file') = Len(table[p])
    BY <1>1, <2>1, ResizeType
  <2>4. Adds(p)' => \A i \in 1..Len(file) : file'[i] = table[p][i]
    BY <1>1, <2>1, <2>3 DEF Adds, Resize
  <2>. QED BY <1>1, <2>1, <2>2, <2>3, <2>4 DEF AddProgress
<1>8. ASSUME NEW p \in Proc, PollLock(p) \/ TakeLock(p) PROVE AddProgress'
  <2>1. /\ pc[p] \in {"poll", "lock"}
        /\ \/ pc' = [pc EXCEPT ![p] = "lock"]
           \/ pc' = [pc EXCEPT ![p] = "copy"] /\ next' = [next EXCEPT ![p] = 1]
        /\ UNCHANGED <<file, prior, table>>
    BY <1>8 DEF PollLock, TakeLock, files, local, history
  <2>2. \A q \in Proc \ {p} : pc'[q] \notin InSave
    BY <1>1, <1>2, <2>1
  <2>3. pc'[p] = "copy" => next'[p] - 1 = 0
    BY <1>1, <2>1
  <2>4. pc'[p] # "unlock" /\ pc[p] \in InSave
    BY <1>1, <2>1 DEF InSave
  <2>5. Adds(p)' => Adds(p)
    BY <2>1 DEF Adds
  <2>6. Adds(p) => \/ file = prior
                   \/ /\ Len(file) = Len(table[p])
                      /\ \A i \in 1..Len(prior) : file[i] = table[p][i]
    BY <1>1, <2>4 DEF AddProgress
  <2>7. \A i \in 1..0 : FALSE
    OBVIOUS
  <2>. QED BY <2>1, <2>2, <2>3, <2>4, <2>5, <2>6, <2>7 DEF AddProgress
<1>9. ASSUME NEW p \in Proc, CopyCell(p) PROVE AddProgress'
  <2> DEFINE n == next[p]
             t == table[p]
  <2>1. /\ pc[p] = "copy" /\ UNCHANGED <<prior, table>>
        /\ file' = Store(file, n, t[n])
        /\ next' = [next EXCEPT ![p] = n + 1]
        /\ IF n = Len(t) THEN pc' = [pc EXCEPT ![p] = "unlock"] ELSE pc' = pc
    BY <1>9 DEF CopyCell, history
  <2>2. /\ n \in Nat \ {0} /\ n <= Len(t) /\ t \in Seq(Rec) /\ t[n] \in Cell
        /\ Len(t) \in Nat /\ t \in Seq(Cell)
    BY <1>1, <2>1, RecIsCell DEF TypeInv, CopyInBounds
  <2>3. \A q \in Proc \ {p} : pc'[q] \notin InSave
    BY <1>1, <1>2, <2>1
  <2>4. next'[p] - 1 = n
    BY <1>1, <2>1, <2>2
  <2> HIDE DEF n, t
  <2>5. SUFFICES ASSUME Adds(p)
                 PROVE  \/ file' = prior
                        \/ /\ Len(file') = Len(t)
                           /\ \A i \in 1..Len(prior) : file'[i] = t[i]
                           /\ \A i \in 1..n : file'[i] = t[i]
                           /\ n = Len(t) => file' = t
    BY <1>1, <2>1, <2>3, <2>4 DEF AddProgress, Adds, t
  <2>6. CASE file = prior
    <3>1. n <= Len(file) => file[n] = t[n]
      BY <1>1, <2>2, <2>5, <2>6 DEF Adds, t
    <3>. QED BY <1>1, <2>1, <2>2, <2>6, <3>1, StoreSame
  <2>7. CASE /\ Len(file) = Len(t)
             /\ \A i \in 1..Len(prior) : file[i] = t[i]
             /\ \A i \in 1..(n - 1) : file[i] = t[i]
    <3>0. file \in Seq(Cell) /\ n \in Nat \ {0} /\ t[n] \in Cell
      BY <1>1, <2>2
    <3>1. /\ file' \in Seq(Cell) /\ Len(file') = Len(file)
          /\ n <= Len(file) => file'[n] = t[n]
          /\ \A k \in 1..Len(file) : k # n => file'[k] = file[k]
      <4>1. file' = Store(file, n, t[n])
        BY <2>1
      <4>. QED BY <3>0, <4>1, StoreType, ZenonT(40)
    <3>2. \A i \in 1..n : file'[i] = t[i]
      BY <2>2, <2>7, <3>1
    <3>3. \A i \in 1..Len(prior) : file'[i] = t[i]
      <4>1. Len(prior) \in Nat /\ Len(prior) <= Len(file)
        BY <1>1, <2>5, <2>7 DEF Adds, t
      <4>. QED BY <2>2, <2>7, <3>1, <4>1
    <3>4. n = Len(t) => file' = t
      BY <2>2, <2>7, <3>1, <3>2, SameFile
    <3>. QED BY <2>7, <3>1, <3>2, <3>3, <3>4
  <2>. QED BY <2>1, <2>5, <2>6, <2>7 DEF AddProgress, n, t
<1>10. ASSUME NEW c \in Cli, Interrupt(c) PROVE AddProgress'
  <2>1. /\ c \in AtWork /\ UNCHANGED <<backup, prior, table, next>>
        /\ \/ pc' = pc /\ file' = Intact(backup)
           \/ pc' = [pc EXCEPT ![c] = "off"] /\ file' = file
    BY <1>1, <1>10 DEF Interrupt, local, Guarded
  <2>2. \A q \in Proc \ {c} : pc'[q] \notin InSave
    BY <1>1, <1>2, <2>1
  <2>3. CASE pc'[c] \notin InSave
    BY <1>3, <2>2, <2>3
  <2>4. CASE pc'[c] \in InSave
    <3>1. pc' = pc /\ file' = Intact(backup)
      BY <1>1, <2>1, <2>4
    <3>2. Adds(c) => file' = prior
      BY <2>1, <2>4, <3>1, HandlerRestores
    <3>. QED BY <2>1, <2>2, <3>1, <3>2 DEF AddProgress, Adds
  <2>. QED BY <2>3, <2>4
<1>11. ASSUME NEW p \in Proc, Kill(p) PROVE AddProgress'
  <2>1. /\ pc' = [pc EXCEPT ![p] = "off"] /\ UNCHANGED <<file, prior>>
        /\ table' = [table EXCEPT ![p] = <<>>] /\ next' = [next EXCEPT ![p] = 1]
    BY <1>11 DEF Kill, Release, files
  <2>2. \A q \in Proc \ {p} :
            pc'[q] = pc[q] /\ table'[q] = table[q] /\ next'[q] = next[q]
    BY <1>1, <2>1
  <2>3. pc'[p] \notin InSave
    BY <1>1, <2>1
  <2>. QED BY <2>1, <2>2, <2>3 DEF AddProgress, Adds
<1>12. CASE UNCHANGED vars
  BY <1>12 DEF vars, files, local, history, AddProgress, Adds
<1>. QED
  BY NextCases, <1>1, <1>4, <1>5, <1>6, <1>7, <1>8, <1>9, <1>10, <1>11, <1>12

\* One process at a time, and SIGKILLs allowed as well: a command that added jobs
\* to a table leaves the old table or the new one, however many SIGINTs met its
\* save and wherever they did.
THEOREM InterruptedAddsAreWhole ==
  ASSUME OneAtATime
  PROVE  Spec => []InterruptedAddIsWhole
<1>1. TypeInv /\ AddProgress => InterruptedAddIsWhole
  <2> SUFFICES ASSUME TypeInv, AddProgress, NEW c \in Cli, pc[c] = "unlock",
                      prior # <<>>, Len(prior) <= Len(table[c]),
                      SubSeq(table[c], 1, Len(prior)) = prior
               PROVE  file \in {prior, table[c]}
    BY DEF InterruptedAddIsWhole
  <2>1. c \in Proc /\ table[c] \in Seq(Rec) /\ prior \in Seq(Cell)
    BY DEF Proc, TypeInv, TypeOK
  <2>2. Adds(c)
    BY <2>1 DEF Adds
  <2>. QED BY <2>1, <2>2 DEF AddProgress, InSave
<1>2. Init => AddProgress
  BY DEF Init, AddProgress, InSave
<1>3. TypeInv /\ SoleWorker /\ BackedUp /\ AddProgress /\ [Next]_vars => AddProgress'
  BY AddStep
<1>. QED BY <1>1, <1>2, <1>3, SoleInductive, PTL DEF Spec

-----------------------------------------------------------------------------
\* The refinement of JobTable: commands one at a time, no daemon, and nothing
\* killed or interrupted.  A session opens when a command loads the file and is
\* closed by the store of the last record, or by the erasure of the file, or by
\* the fault of add-job on a freed array, which drops the draft.

Committed == IF Writing THEN Visible(prior) ELSE Visible(file)
Draft == IF Session = {} THEN <<>> ELSE table[CHOOSE p \in Session : TRUE]

\* A file without NUL bytes is read as it is.
LEMMA VisibleWhole ==
  ASSUME NEW f \in Seq(Rec)
  PROVE  Visible(f) = f
<1>1. Len(f) \in Nat /\ \A i \in 1..Len(f) : f[i] \in Rec /\ f[i] # Zero
  BY RecNotZero
<1> DEFINE seen == [i \in 1..Len(f) |->
                      IF f[i] # Zero /\ i > 1 /\ f[i - 1] = Zero
                      THEN Unnamed(f[i]) ELSE f[i]]
<1>2. \A i \in 1..Len(f) : i > 1 => f[i - 1] # Zero
  <2> SUFFICES ASSUME NEW i \in 1..Len(f), i > 1 PROVE f[i - 1] # Zero
    OBVIOUS
  <2>1. i - 1 \in 1..Len(f)
    BY <1>1
  <2>. QED BY <1>1, <2>1
<1>3. seen = [i \in 1..Len(f) |-> f[i]]
  BY <1>2
<1>4. seen = f
  BY <1>3
<1>5. {i \in 1..Len(f) : f[i] # Zero} = DOMAIN f
  <2>1. DOMAIN f = 1..Len(f)
    OBVIOUS
  <2>. QED BY <1>1, <2>1
<1>6. Visible(f) = Picked(seen, {i \in 1..Len(f) : f[i] # Zero})
  BY DEF Visible
<1> HIDE DEF seen
<1>7. Visible(f) = Picked(f, DOMAIN f)
  BY <1>4, <1>5, <1>6
<1>. QED BY <1>7, PickedAll

\* removeJob drops every job of the name, as there is but one.
LEMMA WithoutIsPicked ==
  ASSUME NEW t \in Seq(Rec), Distinct(t), NEW k \in DOMAIN t
  PROVE  Without(t, k) = Abstract!Picked(t, {i \in DOMAIN t : t[i].name # t[k].name})
<1>1. {i \in DOMAIN t : t[i].name # t[k].name} = DOMAIN t \ {k}
  BY DEF Distinct
<1>2. Picked(t, DOMAIN t \ {k}) =
        [i \in 1..(Len(t) - 1) |-> IF i < k THEN t[i] ELSE t[i + 1]]
  BY PickedButOne
<1>3. \A P : Abstract!Picked(t, P) = Picked(t, P)
  <2>1. \A P, i : Abstract!UpTo(P, i) = UpTo(P, i)
    BY Zenon DEF Abstract!UpTo, UpTo, Abstract!Cardinality, Cardinality
  <2>2. \A P, i : Abstract!Place(P, i) = Place(P, i)
    BY <2>1, Zenon DEF Abstract!Place, Place
  <2>3. \A P : Abstract!Cardinality(P) = Cardinality(P)
    BY Zenon DEF Abstract!Cardinality, Cardinality
  <2>. QED BY <2>2, <2>3 DEF Abstract!Picked, Picked
<1>. QED BY <1>1, <1>2, <1>3 DEF Without

\* What the abstract table sees of the process at work.
LEMMA Before ==
  ASSUME SoleWorker, NEW c \in AtWork
  PROVE  /\ AtWork = {c}
         /\ Writing <=> pc[c] \in {"poll", "lock", "copy"}
         /\ Session = IF pc[c] = "unlock" THEN {} ELSE {c}
         /\ Draft = IF pc[c] = "unlock" THEN <<>> ELSE table[c]
<1>1. AtWork = {c}
  BY DEF SoleWorker
<1>2. Writing <=> pc[c] \in {"poll", "lock", "copy"}
  BY <1>1 DEF AtWork, Writing
<1>3. Session = IF pc[c] = "unlock" THEN {} ELSE {c}
  BY <1>1 DEF Session
<1>. QED BY <1>1, <1>2, <1>3 DEF Draft

LEMMA BeforeStart ==
  ASSUME AtWork = {}
  PROVE  ~Writing /\ Session = {} /\ Draft = <<>>
  BY DEF AtWork, Writing, Session, Draft

\* ... and after its step.
LEMMA After ==
  ASSUME NEW c \in Proc, NEW l \in PC, pc \in [Proc -> PC], AtWork \subseteq {c},
         pc' = [pc EXCEPT ![c] = l]
  PROVE  /\ Writing' <=> l \in {"poll", "lock", "copy"}
         /\ Session' = IF l \in {"off", "wait", "unlock"} THEN {} ELSE {c}
         /\ Draft' = IF l \in {"off", "wait", "unlock"} THEN <<>> ELSE table'[c]
<1>1. \A q \in Proc : pc'[q] = IF q = c THEN l ELSE pc[q]
  OBVIOUS
<1>2. \A q \in Proc \ {c} : pc[q] \in {"off", "wait"}
  BY DEF AtWork
<1>3. Writing' <=> l \in {"poll", "lock", "copy"}
  BY <1>1, <1>2 DEF Writing
<1>4. Session' = IF l \in {"off", "wait", "unlock"} THEN {} ELSE {c}
  BY <1>1, <1>2 DEF Session, AtWork
<1>. QED BY <1>3, <1>4 DEF Draft

\* The steps of the abstract table, in the terms of the mapping.
LEMMA Stutters ==
  ASSUME UNCHANGED <<Committed, Draft>>, Session' = {} <=> Session = {}
  PROVE  [Abstract!Next]_Abstract!tableVars
  BY DEF Abstract!tableVars, Committed, Draft

LEMMA Closes ==
  ASSUME Session # {}, Session' = {}, Draft' = <<>>, Committed' \in {Draft, Committed}
  PROVE  Abstract!Next
<1>1. Abstract!Close(TRUE) \/ Abstract!Close(FALSE)
  BY DEF Abstract!Close, Committed, Draft
<1>. QED BY <1>1 DEF Abstract!Next

\* Commands one at a time, without a daemon, never meet one another.
NoClash == clash = {}

SerialInv == TypeInv /\ TablesDistinct /\ SaveProgress /\ SoleWorker /\ NoClash

\* A step of the session's process that leaves the files as the session sees them.
LEMMA StaysOpen ==
  ASSUME TypeInv, SoleWorker, NEW c \in AtWork, pc[c] # "unlock",
         NEW l \in PC \ {"off", "wait", "unlock"}, pc' = [pc EXCEPT ![c] = l],
         table'[c] = table[c],
         Committed' = Committed
  PROVE  [Abstract!Next]_Abstract!tableVars
<1>1. c \in Proc /\ pc \in [Proc -> PC] /\ AtWork \subseteq {c}
  BY DEF TypeInv, TypeOK, SoleWorker, AtWork
<1>2. Session = {c} /\ Draft = table[c]
  BY Before
<1>3. Session' = {c} /\ Draft' = table'[c]
  BY <1>1, After
<1>. QED BY <1>2, <1>3, Stutters

LEMMA TableStep ==
  ASSUME OneAtATime, Daemon = {}, MaxKills = 0, MaxSignals = 0
  PROVE  SerialInv /\ SaveProgress' /\ [Next]_vars
           => [Abstract!Next]_Abstract!tableVars /\ NoClash'
<1> SUFFICES ASSUME SerialInv, SaveProgress', [Next]_vars
             PROVE  [Abstract!Next]_Abstract!tableVars /\ NoClash'
  OBVIOUS
<1>1. /\ Proc = Cli /\ pc \in [Proc -> PC] /\ table \in [Proc -> Seq(Rec)]
      /\ TypeInv /\ SoleWorker /\ SaveProgress /\ clash = {}
      /\ budget.kills = 0 /\ budget.signals = 0
      /\ \A p \in Proc : Distinct(table[p])
      /\ file \in Seq(Cell) /\ next \in [Proc -> Nat \ {0}]
  BY DEF Proc, SerialInv, TypeInv, TypeOK, NoClash, TablesDistinct
<1>2. ASSUME NEW c \in AtWork
      PROVE  /\ c \in Proc /\ AtWork = {c} /\ AtWork \subseteq {c} /\ Others(c) = {}
             /\ Writing <=> pc[c] \in {"poll", "lock", "copy"}
             /\ Session = IF pc[c] = "unlock" THEN {} ELSE {c}
             /\ Draft = IF pc[c] = "unlock" THEN <<>> ELSE table[c]
  <2>1. Others(c) = {} /\ c \in Proc
    BY <1>1 DEF Others, SoleWorker, AtWork, InSave
  <2>. QED BY <1>1, <2>1, Before
<1> USE DEF PC, Guarded, InSave, Goto, NoClash
<1>3. ASSUME NEW c \in Proc, Start(c)
      PROVE  [Abstract!Next]_Abstract!tableVars /\ NoClash'
  <2>1. AtWork = {} /\ UNCHANGED <<file, prior, clash>>
    BY <1>3 DEF Start, MayStart, files
  <2>2. ~Writing /\ Session = {} /\ Draft = <<>>
    BY <2>1, BeforeStart
  <2>3. CASE Loadable(file)
    <3>1. pc' = [pc EXCEPT ![c] = "init"] /\ table' = [table EXCEPT ![c] = Visible(file)]
      BY <1>3, <2>3 DEF Start
    <3>2. ~Writing' /\ Session' = {c} /\ Draft' = table'[c]
      <4>1. AtWork \subseteq {c} /\ \E l \in {"init"} : pc' = [pc EXCEPT ![c] = l]
        BY <2>1, <3>1
      <4>. QED BY <1>1, <4>1, After
    <3>3. table'[c] = Visible(file)
      BY <1>1, <3>1
    <3>4. Abstract!Open
      BY <2>1, <2>2, <3>2, <3>3 DEF Abstract!Open, Draft
    <3>. QED BY <1>1, <2>1, <3>4 DEF Abstract!Next
  <2>4. CASE ~Loadable(file)
    <3>1. UNCHANGED <<pc, table, file, prior>>
      BY <1>3, <2>1, <2>4 DEF Start
    <3>2. UNCHANGED <<Committed, Draft>> /\ Session' = Session
      BY <3>1 DEF Committed, Draft, Session, Writing, AtWork
    <3>. QED BY <1>1, <2>1, <3>2, Stutters
  <2>. QED BY <2>3, <2>4
<1>4. ASSUME NEW c \in Proc, InitBackup(c) \/ Finish(c) \/ SaveBackup(c)
      PROVE  [Abstract!Next]_Abstract!tableVars /\ NoClash'
  <2>1. /\ c \in AtWork /\ pc[c] \in {"init", "ready", "save"}
        /\ \E l \in {"ready", "save", "truncate"} : pc' = [pc EXCEPT ![c] = l]
        /\ UNCHANGED <<table, file, prior, clash>>
    BY <1>1, <1>4 DEF InitBackup, Finish, SaveBackup, files, local, history, AtWork
  <2>2. ~Writing /\ ~Writing'
    BY <1>1, <1>2, <2>1, After
  <2>3. Committed' = Committed
    BY <2>1, <2>2 DEF Committed
  <2>. QED BY <1>1, <2>1, <2>3, StaysOpen
<1>5. ASSUME NEW c \in Proc, NEW j \in Job, AddJob(c, j)
      PROVE  [Abstract!Next]_Abstract!tableVars /\ NoClash'
  <2>1. /\ c \in AtWork /\ pc[c] = "ready" /\ UNCHANGED <<file, prior, clash>>
        /\ \E l \in {"ready", "save"} : pc' = [pc EXCEPT ![c] = l]
    BY <1>1, <1>5 DEF AddJob, files, AtWork
  <2>2. ~Writing /\ ~Writing' /\ Session = {c} /\ Session' = {c}
        /\ Draft = table[c] /\ Draft' = table'[c]
    BY <1>1, <1>2, <2>1, After
  <2>3. Committed' = Committed
    BY <2>1, <2>2 DEF Committed
  <2>4. CASE Conflicts(table[c], j)
    BY <1>1, <1>5, <2>1, <2>2, <2>3, <2>4, Stutters DEF AddJob
  <2>5. CASE ~Conflicts(table[c], j)
    <3>1. table'[c] = Append(table[c], j)
      BY <1>1, <1>5, <2>5 DEF AddJob
    <3>2. ~Abstract!Clashes(Draft, j)
      BY <2>2, <2>5 DEF Abstract!Clashes, Conflicts
    <3>3. Abstract!Add(j)
      BY <2>2, <2>3, <3>1, <3>2 DEF Abstract!Add, Draft, Committed
    <3>. QED BY <1>1, <2>1, <3>3 DEF Abstract!Next
  <2>. QED BY <2>4, <2>5
<1>6. ASSUME NEW c \in Proc, NEW n \in Name, RemoveJob(c, n)
      PROVE  [Abstract!Next]_Abstract!tableVars /\ NoClash'
  <2>1. /\ c \in AtWork /\ pc[c] = "ready" /\ UNCHANGED <<file, prior, clash>>
        /\ \E l \in {"ready", "save"} : pc' = [pc EXCEPT ![c] = l]
    BY <1>1, <1>6 DEF RemoveJob, files, AtWork
  <2>2. ~Writing /\ ~Writing' /\ Session = {c} /\ Session' = {c}
        /\ Draft = table[c] /\ Draft' = table'[c]
    BY <1>1, <1>2, <2>1, After
  <2>3. Committed' = Committed
    BY <2>1, <2>2 DEF Committed
  <2>4. CASE UNCHANGED table
    BY <1>1, <2>1, <2>2, <2>3, <2>4, Stutters
  <2>5. ASSUME NEW k \in DOMAIN table[c], table[c][k].name = n,
               table' = [table EXCEPT ![c] = Without(@, k)]
        PROVE  Abstract!Remove(n)
    <3>1. table'[c] = Without(table[c], k)
      BY <1>1, <2>5
    <3>2. Draft' = Abstract!Picked(Draft, {i \in DOMAIN Draft : Draft[i].name # n})
      <4>1. table[c] \in Seq(Rec) /\ Distinct(table[c])
        BY <1>1
      <4>2. Without(table[c], k)
              = Abstract!Picked(table[c], {i \in DOMAIN table[c] : table[c][i].name # n})
        BY <2>5, <4>1, WithoutIsPicked
      <4>. QED BY <2>2, <3>1, <4>2
    <3>3. k \in DOMAIN Draft /\ Draft[k].name = n
      BY <2>2, <2>5
    <3>. QED BY <2>2, <2>3, <3>2, <3>3 DEF Abstract!Remove, Draft, Committed
  <2>6. UNCHANGED table \/ Abstract!Remove(n)
    BY <1>6, <2>5 DEF RemoveJob
  <2>. QED BY <1>1, <2>1, <2>4, <2>6 DEF Abstract!Next
<1>7. ASSUME NEW c \in Proc, AddJobFaults(c)
      PROVE  [Abstract!Next]_Abstract!tableVars /\ NoClash'
  <2>1. /\ c \in AtWork /\ pc[c] = "ready" /\ UNCHANGED <<file, prior, clash>>
        /\ pc' = [pc EXCEPT ![c] = "off"]
    BY <1>1, <1>7 DEF AddJobFaults, files, AtWork
  <2>2. ~Writing /\ ~Writing' /\ Session = {c} /\ Session' = {} /\ Draft' = <<>>
    BY <1>1, <1>2, <2>1, After
  <2>3. Committed' = Committed
    BY <2>1, <2>2 DEF Committed
  <2>. QED BY <1>1, <2>1, <2>2, <2>3, Closes
<1>8. ASSUME NEW c \in Proc, Erase(c)
      PROVE  [Abstract!Next]_Abstract!tableVars /\ NoClash'
  <2>1. /\ c \in AtWork /\ pc[c] = "save" /\ table[c] = <<>> /\ file' = <<>>
        /\ pc' = [pc EXCEPT ![c] = "off"] /\ clash' = clash \union Others(c)
    BY <1>1, <1>8 DEF Erase, NothingToSave, Rest, AtWork
  <2>2. /\ ~Writing' /\ Session = {c} /\ Session' = {} /\ Draft' = <<>>
        /\ Draft = <<>> /\ Others(c) = {}
    BY <1>1, <1>2, <2>1, After
  <2>3. Committed' = <<>>
    <3>1. <<>> \in Seq(Rec)
      OBVIOUS
    <3>2. Visible(<<>>) = <<>>
      BY <3>1, VisibleWhole
    <3>3. Committed' = Visible(file')
      BY <2>2 DEF Committed
    <3>. QED BY <2>1, <3>2, <3>3
  <2>4. Abstract!Next
    BY <2>2, <2>3, Closes
  <2>. QED BY <1>1, <2>1, <2>2, <2>4
<1>9. ASSUME NEW c \in Proc, Truncate(c)
      PROVE  [Abstract!Next]_Abstract!tableVars /\ NoClash'
  <2>1. /\ c \in AtWork /\ pc[c] = "truncate" /\ prior' = file /\ table' = table
        /\ pc' = [pc EXCEPT ![c] = "poll"]
        /\ clash' = IF Others(c) = {} THEN clash \ {c}
                    ELSE clash \union Others(c) \union {c}
    BY <1>1, <1>9 DEF Truncate, local, AtWork
  <2>2. ~Writing /\ Writing' /\ Others(c) = {}
    BY <1>1, <1>2, <2>1, After
  <2>3. Committed' = Visible(prior')
    BY <2>2 DEF Committed
  <2>4. Committed = Visible(file)
    BY <2>2 DEF Committed
  <2>5. [Abstract!Next]_Abstract!tableVars
    BY <1>1, <2>1, <2>3, <2>4, StaysOpen
  <2>. QED BY <1>1, <2>1, <2>2, <2>5
<1>10. ASSUME NEW c \in Proc, \/ PollLock(c) \/ TakeLock(c)
                              \/ CopyCell(c) /\ next[c] # Len(table[c])
       PROVE  [Abstract!Next]_Abstract!tableVars /\ NoClash'
  <2>1. /\ c \in AtWork /\ pc[c] \in {"poll", "lock", "copy"}
        /\ UNCHANGED <<table, prior, clash>>
        /\ \E l \in {"lock", "copy"} : pc' = [pc EXCEPT ![c] = l]
    BY <1>1, <1>10 DEF PollLock, TakeLock, CopyCell, files, local, history, AtWork
  <2>2. Writing /\ Writing'
    BY <1>1, <1>2, <2>1, After
  <2>3. Committed' = Committed
    BY <2>1, <2>2 DEF Committed
  <2>. QED BY <1>1, <2>1, <2>3, StaysOpen
<1>11. ASSUME NEW c \in Proc, CopyCell(c), next[c] = Len(table[c])
       PROVE  [Abstract!Next]_Abstract!tableVars /\ NoClash'
  <2>1. /\ c \in AtWork /\ pc[c] = "copy" /\ UNCHANGED <<table, prior, clash>>
        /\ pc' = [pc EXCEPT ![c] = "unlock"]
    BY <1>1, <1>11 DEF CopyCell, history, AtWork
  <2>2. /\ ~Writing' /\ Session = {c} /\ Session' = {} /\ Draft' = <<>>
        /\ Draft = table[c]
    BY <1>1, <1>2, <2>1, After
  <2>3. Alone(c)' /\ pc'[c] = "unlock"
    BY <1>1, <2>1 DEF Alone
  <2>4. file' = table[c]
    BY <1>1, <2>1, <2>3 DEF SaveProgress
  <2>5. Committed' = Visible(file')
    BY <2>2 DEF Committed
  <2>6. Committed' = Draft
    BY <1>1, <2>2, <2>4, <2>5, VisibleWhole
  <2>. QED BY <1>1, <2>1, <2>2, <2>6, Closes
<1>12. ASSUME NEW c \in Proc, Unlock(c)
       PROVE  [Abstract!Next]_Abstract!tableVars /\ NoClash'
  <2>1. /\ c \in AtWork /\ pc[c] = "unlock" /\ UNCHANGED file
        /\ pc' = [pc EXCEPT ![c] = "off"] /\ clash' = clash \ {c}
    BY <1>1, <1>12 DEF Unlock, Rest, AtWork
  <2>2. /\ ~Writing /\ ~Writing' /\ Session = {} /\ Session' = {}
        /\ Draft = <<>> /\ Draft' = <<>>
    BY <1>1, <1>2, <2>1, After
  <2>3. Committed' = Committed
    BY <2>1, <2>2 DEF Committed
  <2>. QED BY <1>1, <2>1, <2>2, <2>3, Stutters
<1>13. CASE UNCHANGED vars
  <2>1. UNCHANGED <<pc, table, file, prior, clash>>
    BY <1>13 DEF vars, files, local, history
  <2>2. UNCHANGED <<Committed, Draft>> /\ Session' = Session
    BY <2>1 DEF Committed, Draft, Session, Writing, AtWork
  <2>. QED BY <1>1, <2>1, <2>2, Stutters
<1>14. ASSUME NEW p \in Proc PROVE ~Interrupt(p) /\ ~Kill(p)
  BY <1>1 DEF Interrupt, Kill
<1>. QED
  BY NextCases, <1>1, <1>3, <1>4, <1>5, <1>6, <1>7, <1>8, <1>9, <1>10, <1>11,
     <1>12, <1>13, <1>14

\* Commands one at a time, with nothing killed or interrupted and no daemon, use
\* the files as one table: each session edits a draft and commits it whole or
\* not at all, wherever the next one starts.
THEOREM FilesImplementTable ==
  ASSUME OneAtATime, Daemon = {}, MaxKills = 0, MaxSignals = 0
  PROVE  Spec => ImplementsJobTable
<1>1. Init => SerialInv /\ Abstract!Init
  <2> SUFFICES ASSUME Init PROVE SerialInv /\ Abstract!Init
    OBVIOUS
  <2>1. AtWork = {} /\ file \in InitialTables
    BY DEF Init, AtWork
  <2>2. ~Writing /\ Session = {} /\ Draft = <<>>
    BY <2>1, BeforeStart
  <2>3. Visible(file) = file
    BY <2>1, VisibleWhole DEF IsTable
  <2>4. SerialInv
    BY TypeInit, DistinctInit, SaveInit, SoleInit DEF SerialInv, NoClash, Init
  <2>. QED BY <2>1, <2>2, <2>3, <2>4 DEF Abstract!Init
<1>2. SerialInv /\ [Next]_vars => SerialInv' /\ [Abstract!Next]_Abstract!tableVars
  BY TypeStep, DistinctStep, SaveStep, SoleStep, TableStep DEF SerialInv
<1>. QED BY <1>1, <1>2, PTL DEF Spec, ImplementsJobTable, Abstract!Spec
=============================================================================
