------------------------- MODULE DaemonControlProofs -------------------------
(***************************************************************************)
(* Proofs about DaemonControl, for every number of commands, every set of  *)
(* pids and every bound.                                                   *)
(***************************************************************************)
EXTENDS DaemonControl, FiniteSetTheorems, TLAPS

USE DaemonControlAssumption

-----------------------------------------------------------------------------
\* What is read from the file is a pid or 0.
LEMMA NumberType ==
  ASSUME NEW f \in Content
  PROVE  Number(f) \in Pid \union {NoPid}
  BY DEF Content, Number, Whole, Empty

\* What setPid(0) leaves is a file.
LEMMA CutType ==
  ASSUME NEW f \in Content
  PROVE  CutToOne(f) \in Content /\ PutZero(f) \in Content
  BY DEF Content, CutToOne, PutZero, Whole, Empty

Budget == [commands : 0..MaxCommands, warmups : 0..MaxWarmups,
           crashes : 0..MaxCrashes, strangers : 0..MaxStrangers,
           signals : 0..MaxSignals]

\* Each bounded counter stays in its bound.
LEMMA BudgetType ==
  ASSUME budget \in Budget
  PROVE  /\ budget.commands < MaxCommands =>
                [budget EXCEPT !.commands = @ + 1] \in Budget
         /\ budget.warmups < MaxWarmups =>
                [budget EXCEPT !.warmups = @ + 1] \in Budget
         /\ budget.crashes < MaxCrashes =>
                [budget EXCEPT !.crashes = @ + 1] \in Budget
         /\ budget.strangers < MaxStrangers =>
                [budget EXCEPT !.strangers = @ + 1] \in Budget
         /\ budget.signals < MaxSignals =>
                [budget EXCEPT !.signals = @ + 1] \in Budget
  BY DEF Budget

\* A command that is about to kill has read a pid.
ReadsAPid == \A c \in Cli : pc[c] = "kill" => read[c] \in Pid

TypeInv == TypeOK /\ ReadsAPid

LEMMA TypeInit == Init => TypeInv
<1> SUFFICES ASSUME Init PROVE TypeInv
  OBVIOUS
<1>1. file \in Content /\ copy \in Content
  BY DEF Init, Content, Whole, Empty
<1>2. budget \in Budget
  BY DEF Init, Budget
<1>. QED
  BY <1>1, <1>2 DEF Init, TypeInv, TypeOK, ReadsAPid, PC, ProcState, DaemonState, Budget

LEMMA TypeStep == TypeInv /\ [Next]_vars => TypeInv'
<1> SUFFICES ASSUME TypeInv, [Next]_vars PROVE TypeInv'
  OBVIOUS
<1>1. /\ file \in Content /\ copy \in Content
      /\ proc \in [Pid -> ProcState]
      /\ pc \in [Cli -> PC] /\ read \in [Cli -> Pid \union {NoPid}]
      /\ budget \in Budget /\ victims \subseteq Pid /\ again \in Nat
      /\ command \in [Cli -> {"stop", "restart"}]
  BY DEF TypeInv, TypeOK, Budget
<1>2. Number(file) \in Pid \union {NoPid}
  BY <1>1, NumberType
<1>3. Backup => copy' \in Content
  BY <1>1 DEF Backup
<1> USE DEF TypeInv, TypeOK, ReadsAPid, PC, InSetPid, Goto, ProcState
<1>4. ASSUME NEW c \in Cli, NEW k \in {"stop", "restart"}, Begin(c, k)
      PROVE  TypeInv'
  <2>1. budget' \in Budget
    BY <1>1, <1>4, BudgetType DEF Begin
  <2>. QED BY <1>4, <2>1 DEF Begin, Budget
<1>5. ASSUME NEW c \in Cli, ReadPid(c) PROVE TypeInv'
  BY <1>2, <1>5 DEF ReadPid
<1>6. ASSUME NEW c \in Cli, KillPid(c) PROVE TypeInv'
  <2>1. read[c] \in Pid
    BY <1>6 DEF KillPid
  <2>2. again' \in Nat
    BY <1>1, <1>6 DEF KillPid
  <2>. QED BY <1>6, <2>1, <2>2 DEF KillPid, Become, DaemonState
<1>7. ASSUME NEW c \in Cli, BackupZero(c) PROVE TypeInv'
  BY <1>3, <1>7 DEF BackupZero
<1>8. ASSUME NEW c \in Cli, TruncateZero(c) PROVE TypeInv'
  BY <1>8, CutType DEF TruncateZero
<1>9. ASSUME NEW c \in Cli, WriteZero(c) PROVE TypeInv'
  BY <1>9, CutType DEF WriteZero
<1>10. ASSUME NEW c \in Cli, NEW p \in Pid, Relaunch(c, p) PROVE TypeInv'
  BY <1>10 DEF Relaunch, Become, DaemonState, Booting
<1>11. ASSUME NEW c \in Cli, End(c) PROVE TypeInv'
  BY <1>11 DEF End
<1>12. ASSUME NEW c \in Cli, Interrupt(c) PROVE TypeInv'
  <2>1. budget' \in Budget
    BY <1>1, <1>12, BudgetType DEF Interrupt
  <2>. QED BY <1>12, <2>1 DEF Interrupt, Budget
<1>13. ASSUME NEW c \in Cli, CliDies(c) PROVE TypeInv'
  <2>1. budget' \in Budget
    BY <1>1, <1>13, BudgetType DEF CliDies
  <2>. QED BY <1>13, <2>1 DEF CliDies, Budget
<1>14. ASSUME NEW p \in Pid, DaemonStep(p) PROVE TypeInv'
  <2>1. Whole(NoPid) \in Content /\ Whole(p) \in Content
    BY DEF Content, Whole
  <2>. QED BY <1>3, <1>14, <2>1 DEF DaemonStep, DaemonBackup, DaemonTruncate,
              DaemonWrite, Become, DaemonState, Booting
<1>15. ASSUME NEW p \in Pid, Warmup(p) PROVE TypeInv'
  <2>1. budget' \in Budget
    BY <1>1, <1>15, BudgetType DEF Warmup
  <2>. QED BY <1>15, <2>1 DEF Warmup, Budget, Become, DaemonState, Booting
<1>16. ASSUME NEW p \in Pid, Crash(p) PROVE TypeInv'
  <2>1. budget' \in Budget
    BY <1>1, <1>16, BudgetType DEF Crash
  <2>. QED BY <1>16, <2>1 DEF Crash, Budget, Become
<1>17. ASSUME NEW p \in Pid, Stranger(p) PROVE TypeInv'
  <2>1. budget' \in Budget
    BY <1>1, <1>17, BudgetType DEF Stranger
  <2>. QED BY <1>17, <2>1 DEF Stranger, Budget, Become
<1>18. ASSUME NEW p \in Pid, Reaped(p) PROVE TypeInv'
  BY <1>18 DEF Reaped, Become
<1>19. CASE UNCHANGED vars
  BY <1>19 DEF vars
<1>. QED
  BY <1>4, <1>5, <1>6, <1>7, <1>8, <1>9, <1>10, <1>11, <1>12, <1>13, <1>14,
     <1>15, <1>16, <1>17, <1>18, <1>19 DEF Next, CliStep

\* Types of the pid file, the processes and the commands.
THEOREM TypeCorrect == Spec => []TypeOK
<1>1. TypeInv => TypeOK
  BY DEF TypeInv
<1>. QED BY <1>1, TypeInit, TypeStep, PTL DEF Spec

-----------------------------------------------------------------------------
\* Daemons.  The right to launch travels like a token: from the daemon, when its
\* process is killed, to the command that killed it, and from there to the daemon
\* that command launches.  A SIGKILL to a dying process makes a second token.

Past(c) == pc[c] \in InSetPid \union {"launch"}
Passed == {c \in Cli : Past(c)}

Counted == Cardinality(Daemons) + Cardinality(Passed) <= 1 + again

OneToken ==
    /\ \A p, q \in Daemons : p = q
    /\ \A c \in Cli : Past(c) => Daemons = {}
    /\ \A c, e \in Cli : Past(c) /\ Past(e) => c = e

\* What a command is about to kill is no stranger's process.
NoStrangerRead == \A c \in Cli : pc[c] = "kill" => proc[read[c]] # "stranger"

NoStranger == \A p \in Pid : proc[p] # "stranger"

LEMMA Sizes ==
  /\ IsFiniteSet(Daemons) /\ Cardinality(Daemons) \in Nat
  /\ IsFiniteSet(Passed) /\ Cardinality(Passed) \in Nat
<1>1. Daemons \in SUBSET Pid /\ Passed \in SUBSET Cli
  BY DEF Daemons, Passed
<1>2. IsFiniteSet(Daemons) /\ IsFiniteSet(Passed)
  BY <1>1, FS_Subset
<1>. QED BY <1>2, FS_CardinalityType

\* A set of at most one element.
LEMMA AtMostOne ==
  ASSUME NEW S, IsFiniteSet(S), Cardinality(S) <= 1, NEW x \in S, NEW y \in S
  PROVE  x = y
<1>1. Cardinality(S) \in Nat /\ S # {}
  BY FS_CardinalityType
<1>2. Cardinality(S) # 0
  BY <1>1, FS_EmptySet
<1>3. Cardinality(S) = 1
  BY <1>1, <1>2
<1>. QED BY <1>3, FS_Singleton

\* As long as nothing was killed twice there is one token.
LEMMA TokenIsOne == Counted /\ again = 0 => OneToken
<1> SUFFICES ASSUME Counted, again = 0 PROVE OneToken
  OBVIOUS
<1>1. Cardinality(Daemons) <= 1 /\ Cardinality(Passed) <= 1
  BY Sizes DEF Counted
<1>2. Cardinality(Passed) # 0 => Cardinality(Daemons) = 0
  BY Sizes DEF Counted
<1>3. \A p, q \in Daemons : p = q
  BY <1>1, Sizes, AtMostOne
<1>4. \A c, e \in Passed : c = e
  BY <1>1, Sizes, AtMostOne
<1>5. Passed # {} => Daemons = {}
  BY <1>2, Sizes, FS_EmptySet
<1>. QED BY <1>3, <1>4, <1>5 DEF OneToken, Passed

\* A step that neither starts a process nor lets a command pass its SIGKILL.
LEMMA NothingNew ==
  ASSUME Counted, again \in Nat, again' = again,
         \A p \in Pid : proc'[p] \in DaemonState => proc[p] \in DaemonState,
         \A c \in Cli : Past(c)' => Past(c)
  PROVE  Counted'
<1>1. Daemons' \in SUBSET Daemons /\ Passed' \in SUBSET Passed
  BY DEF Daemons, Passed
<1>2. /\ IsFiniteSet(Daemons') /\ Cardinality(Daemons') <= Cardinality(Daemons)
      /\ IsFiniteSet(Passed') /\ Cardinality(Passed') <= Cardinality(Passed)
  BY <1>1, Sizes, FS_Subset
<1>3. Cardinality(Daemons') \in Nat /\ Cardinality(Passed') \in Nat
  BY <1>2, FS_CardinalityType
<1> DEFINE d == Cardinality(Daemons)
           r == Cardinality(Passed)
<1>4. d \in Nat /\ r \in Nat /\ d + r <= 1 + again
  BY Sizes DEF Counted
<1> HIDE DEF d, r
<1>5. Cardinality(Daemons') <= d /\ Cardinality(Passed') <= r
  BY <1>2 DEF d, r
<1>6. Cardinality(Daemons') + Cardinality(Passed') <= 1 + again
  BY <1>3, <1>4, <1>5
<1>. QED BY <1>6 DEF Counted

LEMMA CountStep ==
  ASSUME CarefulUser
  PROVE  TypeInv /\ Counted /\ NoStrangerRead /\ [Next]_vars => Counted'
<1> SUFFICES ASSUME TypeInv, Counted, NoStrangerRead, [Next]_vars
             PROVE  Counted'
  OBVIOUS
<1>1. /\ proc \in [Pid -> ProcState] /\ pc \in [Cli -> PC] /\ again \in Nat
  BY DEF TypeInv, TypeOK
<1> DEFINE d == Cardinality(Daemons)
           r == Cardinality(Passed)
<1>2. d \in Nat /\ r \in Nat /\ d + r <= 1 + again
  BY Sizes DEF Counted
<1> USE DEF Goto, Become, InSetPid
<1>3. ASSUME NEW c \in Cli, \/ \E k \in {"stop", "restart"} : Begin(c, k)
                            \/ ReadPid(c) \/ BackupZero(c) \/ TruncateZero(c)
                            \/ WriteZero(c) \/ End(c) \/ Interrupt(c) \/ CliDies(c)
      PROVE  Counted'
  BY <1>1, <1>3, NothingNew DEF Past, Begin, ReadPid, BackupZero,
     TruncateZero, WriteZero, End, Interrupt, CliDies
<1>4. ASSUME NEW c \in Cli, KillPid(c) PROVE Counted'
  <2>1. read[c] \in Pid /\ pc[c] = "kill"
    BY <1>4 DEF KillPid, TypeInv, ReadsAPid
  <2>2. CASE proc[read[c]] = "none"
    BY <1>1, <1>4, <2>2, NothingNew DEF KillPid, Past
  <2>3. CASE proc[read[c]] # "none"
    <3>1. /\ proc' = [proc EXCEPT ![read[c]] = "dying"]
          /\ pc' = [pc EXCEPT ![c] = "backup"]
      BY <1>4, <2>3 DEF KillPid
    <3>2. Passed' = Passed \union {c} /\ c \notin Passed
      BY <1>1, <2>1, <3>1 DEF Passed, Past
    <3>3. Cardinality(Passed') = r + 1
      BY <3>2, Sizes, FS_AddElement
    <3>4. Daemons' = Daemons \ {read[c]}
      BY <1>1, <2>1, <3>1 DEF Daemons, DaemonState, Booting
    <3>5. CASE proc[read[c]] = "dying"
      <4>1. again' = again + 1 /\ read[c] \notin Daemons
        BY <1>4, <2>3, <3>5 DEF KillPid, Daemons, DaemonState, Booting
      <4>2. Daemons' = Daemons
        BY <3>4, <4>1
      <4>. QED BY <1>1, <1>2, <3>3, <4>1, <4>2 DEF Counted
    <3>6. CASE proc[read[c]] # "dying"
      <4>1. again' = again
        BY <1>4, <2>3, <3>6 DEF KillPid
      <4>2. read[c] \in Daemons
        BY <1>1, <2>1, <2>3, <3>6 DEF NoStrangerRead, Daemons, ProcState
      <4>3. Cardinality(Daemons') = d - 1
        BY <3>4, <4>2, Sizes, FS_RemoveElement
      <4>. QED BY <1>1, <1>2, <3>3, <4>1, <4>3 DEF Counted
    <3>. QED BY <3>5, <3>6
  <2>. QED BY <2>2, <2>3
<1>5. ASSUME NEW c \in Cli, NEW p \in Pid, Relaunch(c, p) PROVE Counted'
  <2>1. /\ proc' = [proc EXCEPT ![p] = "boot"] /\ proc[p] = "none"
        /\ pc' = [pc EXCEPT ![c] = "after"] /\ pc[c] = "launch" /\ again' = again
    BY <1>5 DEF Relaunch
  <2>2. Passed' = Passed \ {c} /\ c \in Passed
    BY <1>1, <2>1 DEF Passed, Past
  <2>3. Daemons' = Daemons \union {p} /\ p \notin Daemons
    BY <1>1, <2>1 DEF Daemons, DaemonState, Booting
  <2>4. Cardinality(Passed') = r - 1 /\ Cardinality(Daemons') = d + 1
    BY <2>2, <2>3, Sizes, FS_AddElement, FS_RemoveElement
  <2>. QED BY <1>1, <1>2, <2>1, <2>4 DEF Counted
<1>6. ASSUME NEW p \in Pid, Warmup(p) PROVE Counted'
  <2>1. /\ Daemons = {} /\ \A c \in Cli : pc[c] = "off"
        /\ proc' = [proc EXCEPT ![p] = "boot"] /\ pc' = pc /\ again' = again
    BY <1>6 DEF Warmup
  <2>2. Daemons' = {p} /\ Passed' = {}
    BY <1>1, <2>1 DEF Daemons, Passed, Past, DaemonState, Booting
  <2>3. Cardinality(Daemons') = 1 /\ Cardinality(Passed') = 0
    BY <2>2, FS_EmptySet, FS_Singleton
  <2>. QED BY <1>1, <2>1, <2>3 DEF Counted
<1>7. ASSUME NEW p \in Pid, DaemonStep(p) \/ Crash(p) \/ Reaped(p) \/ Stranger(p)
      PROVE  Counted'
  BY <1>1, <1>7, NothingNew DEF Past, DaemonStep, DaemonBackup,
     DaemonTruncate, DaemonWrite, Crash, Reaped, Stranger, DaemonState, Booting
<1>8. CASE UNCHANGED vars
  BY <1>1, <1>8, NothingNew DEF vars, Past
<1>. QED
  BY <1>3, <1>4, <1>5, <1>6, <1>7, <1>8 DEF Next, CliStep

\* A machine that gives no pid to anybody else has no strangers to kill.
LEMMA NoStrangerStep ==
  ASSUME MaxStrangers = 0
  PROVE  TypeInv /\ NoStranger /\ [Next]_vars => NoStranger' /\ NoStrangerRead
<1> SUFFICES ASSUME TypeInv, NoStranger, [Next]_vars
             PROVE  NoStranger' /\ NoStrangerRead
  OBVIOUS
<1>1. /\ proc \in [Pid -> ProcState]
      /\ budget.strangers = 0
  BY DEF TypeInv, TypeOK
<1>2. NoStrangerRead
  BY DEF NoStranger, NoStrangerRead, TypeInv, ReadsAPid
<1>3. \/ proc' = proc
      \/ \E q \in Pid, s \in DaemonState \union {"none", "dying"} :
            proc' = [proc EXCEPT ![q] = s]
  BY <1>1 DEF TypeInv, ReadsAPid, Next, CliStep, DaemonStep, Begin, ReadPid,
     KillPid, BackupZero, TruncateZero, WriteZero, End, Relaunch, Interrupt,
     CliDies, DaemonBackup, DaemonTruncate, DaemonWrite, Warmup, Crash, Reaped,
     Stranger, Become, DaemonState, Booting, vars
<1>4. NoStranger'
  BY <1>1, <1>3 DEF NoStranger, DaemonState, Booting
<1>. QED BY <1>2, <1>4

LEMMA CountInit == Init => Counted /\ NoStranger
<1> SUFFICES ASSUME Init PROVE Counted /\ NoStranger
  OBVIOUS
<1>1. Daemons = Started /\ Passed = {} /\ again = 0 /\ NoStranger
  BY DEF Init, Daemons, NoStranger, Passed, Past, InSetPid, DaemonState, Booting
<1>2. Cardinality(Started) <= 1
  <2>1. CASE Started = {}
    BY <2>1, FS_EmptySet
  <2>2. CASE Started # {}
    <3>1. PICK p \in Started : TRUE
      BY <2>2
    <3>2. Started = {p}
      BY <3>1
    <3>. QED BY <3>2, FS_Singleton
  <2>. QED BY <2>1, <2>2
<1>3. Cardinality(Passed) = 0
  BY <1>1, FS_EmptySet
<1>. QED BY <1>1, <1>2, <1>3, Sizes DEF Counted

\* Any number of overlapping stop-jobs and restart-jobs, crashes and signals
\* included, leave one daemon and at most one more for each SIGKILL to a process
\* that was dying already, as long as nobody warms one up beside another and the
\* machine gives no daemon's pid away.
THEOREM DaemonsComeFromKills ==
  ASSUME CarefulUser, MaxStrangers = 0
  PROVE  Spec => []DaemonsAreCounted
<1>1. TypeInv /\ Counted => DaemonsAreCounted
  <2> SUFFICES ASSUME TypeInv, Counted PROVE DaemonsAreCounted
    OBVIOUS
  <2>1. again \in Nat
    BY DEF TypeInv, TypeOK
  <2>. QED BY <2>1, Sizes DEF Counted, DaemonsAreCounted
<1>2. Init => TypeInv /\ Counted /\ NoStranger
  BY TypeInit, CountInit
<1>3. TypeInv /\ Counted /\ NoStranger /\ [Next]_vars
        => (TypeInv /\ Counted /\ NoStranger)'
  BY TypeStep, CountStep, NoStrangerStep
<1>. QED BY <1>1, <1>2, <1>3, PTL DEF Spec

-----------------------------------------------------------------------------
\* The pid file.  While a command is in setPid(0) the file may say anything, but
\* then it has killed the daemon and nobody else writes.

FileTruth ==
    /\ file.form # "rest"
    /\ file.form = "first" => \E c \in Cli : pc[c] = "write"
    /\ \A c \in Cli : pc[c] = "write" => file.form = "first" \/ file.pid = NoPid
    /\ \A p \in Pid : proc[p] = "loop" => file = Whole(p)
    /\ (\A p \in Pid : proc[p] # "loop") /\ (\A c \in Cli : pc[c] \notin InSetPid)
            => Number(file) = NoPid

\* A step that leaves the file alone and neither enters nor leaves a place
\* FileTruth speaks of.
LEMMA FileKept ==
  ASSUME FileTruth, file' = file,
         \A p \in Pid : proc'[p] = "loop" <=> proc[p] = "loop",
         \A c \in Cli : pc'[c] = "write" <=> pc[c] = "write",
         \A c \in Cli : pc[c] \in InSetPid => pc'[c] \in InSetPid
  PROVE  FileTruth'
  BY DEF FileTruth, Number, Whole

\* What has crashed or been interrupted stays so.
LEMMA CalmBefore == TypeInv /\ [Next]_vars /\ Calm' => Calm
<1> SUFFICES ASSUME TypeInv, [Next]_vars, Calm' PROVE Calm
  OBVIOUS
<1>1. budget \in Budget /\ again \in Nat
  BY DEF TypeInv, TypeOK, Budget
<1>0. again = 0
  <2>1. again' = again \/ again' = again + 1
    BY DEF Next, CliStep, DaemonStep, Begin, ReadPid, KillPid,
       BackupZero, TruncateZero, WriteZero, End, Relaunch, Interrupt, CliDies,
       DaemonBackup, DaemonTruncate, DaemonWrite, Warmup, Crash, Reaped, Stranger,
       vars
  <2>. QED BY <1>1, <2>1 DEF Calm
<1>2. CASE \/ budget' = budget
           \/ budget' = [budget EXCEPT !.commands = @ + 1]
           \/ budget' = [budget EXCEPT !.warmups = @ + 1]
           \/ budget' = [budget EXCEPT !.strangers = @ + 1]
  BY <1>0, <1>1, <1>2 DEF Calm, Budget
<1>3. CASE \/ budget' = [budget EXCEPT !.crashes = @ + 1]
           \/ budget' = [budget EXCEPT !.signals = @ + 1]
  BY <1>1, <1>3 DEF Calm, Budget
<1>. QED
  BY <1>2, <1>3 DEF Next, CliStep, DaemonStep, Begin, ReadPid, KillPid,
     BackupZero, TruncateZero, WriteZero, End, Relaunch, Interrupt, CliDies,
     DaemonBackup, DaemonTruncate, DaemonWrite, Warmup, Crash, Reaped, Stranger, vars

LEMMA TruthStep ==
  TypeInv /\ Counted /\ (Calm => FileTruth) /\ [Next]_vars
    => (Calm => FileTruth)'
<1> SUFFICES ASSUME TypeInv, Counted, Calm => FileTruth, [Next]_vars, Calm'
             PROVE  FileTruth'
  OBVIOUS
<1>0. Calm /\ FileTruth /\ OneToken
  BY CalmBefore, TokenIsOne DEF Calm
<1>1. /\ file \in Content
      /\ proc \in [Pid -> ProcState]
      /\ pc \in [Cli -> PC] /\ budget \in Budget
      /\ budget.crashes = 0 /\ budget.signals = 0
      /\ budget'.crashes = 0 /\ budget'.signals = 0
      /\ again = 0 /\ again' = 0
  BY <1>0 DEF TypeInv, TypeOK, Calm, Budget
<1>2. \A p \in Pid : proc[p] \in DaemonState => \A c \in Cli : pc[c] \notin InSetPid
  BY <1>0 DEF OneToken, Daemons, Past
<1>3. \A p, q \in Pid : proc[p] \in DaemonState /\ proc[q] \in DaemonState => p = q
  BY <1>0 DEF OneToken, Daemons
<1>4. \A c, e \in Cli : pc[c] \in InSetPid /\ pc[e] \in InSetPid => c = e
  BY <1>0 DEF OneToken, Past
<1>5. Number(Whole(NoPid)) = NoPid /\ Number(Empty) = NoPid
  BY DEF Number, Whole, Empty
<1> USE DEF Goto, Become, InSetPid
<1>6. ASSUME NEW c \in Cli, \/ \E k \in {"stop", "restart"} : Begin(c, k)
                            \/ ReadPid(c) \/ BackupZero(c) \/ End(c)
      PROVE  FileTruth'
  BY <1>1, <1>6, FileKept, <1>0 DEF Begin, ReadPid, BackupZero, End
<1>7. ASSUME NEW c \in Cli, NEW p \in Pid, Relaunch(c, p) PROVE FileTruth'
  BY <1>1, <1>7, FileKept, <1>0 DEF Relaunch
<1>8. ASSUME NEW c \in Cli, Interrupt(c) \/ CliDies(c) PROVE FileTruth'
  BY <1>1, <1>8 DEF Interrupt, CliDies, Budget
<1>9. ASSUME NEW c \in Cli, KillPid(c) PROVE FileTruth'
  <2>1. read[c] \in Pid /\ pc[c] = "kill"
    BY <1>9 DEF KillPid, TypeInv, ReadsAPid
  <2>2. CASE proc[read[c]] = "none"
    BY <1>1, <1>9, <2>2, FileKept, <1>0 DEF KillPid
  <2>3. CASE proc[read[c]] # "none"
    <3>1. /\ file' = file /\ pc' = [pc EXCEPT ![c] = "backup"]
          /\ proc' = [proc EXCEPT ![read[c]] = "dying"]
      BY <1>9, <2>3 DEF KillPid
    <3>2. \A e \in Cli : pc'[e] = "write" <=> pc[e] = "write"
      BY <1>1, <2>1, <3>1
    <3>3. pc'[c] = "backup" /\ \A p \in Pid : proc'[p] = "loop" => proc[p] = "loop"
      BY <1>1, <2>1, <3>1
    <3>. QED BY <3>1, <3>2, <3>3, <1>0 DEF FileTruth, Whole
  <2>. QED BY <2>2, <2>3
<1>10. ASSUME NEW c \in Cli, TruncateZero(c) PROVE FileTruth'
  <2>1. /\ pc[c] = "truncate" /\ pc' = [pc EXCEPT ![c] = "write"]
        /\ file' = CutToOne(file) /\ proc' = proc
    BY <1>10 DEF TruncateZero
  <2>2. pc'[c] = "write" /\ \A p \in Pid : proc'[p] # "loop"
    BY <1>1, <1>2, <2>1 DEF DaemonState
  <2>3. file'.form # "rest" /\ (file'.form = "first" \/ file'.pid = NoPid)
    BY <1>1, <2>1 DEF CutToOne, Whole, Content, Empty
  <2>. QED BY <2>2, <2>3, <1>0 DEF FileTruth
<1>11. ASSUME NEW c \in Cli, WriteZero(c) PROVE FileTruth'
  <2>1. /\ pc[c] = "write" /\ proc' = proc /\ file' = PutZero(file)
        /\ \E l \in {"launch", "after"} : pc' = [pc EXCEPT ![c] = l]
    BY <1>11 DEF WriteZero
  <2>2. file' = Whole(NoPid)
    BY <2>1, <1>0 DEF FileTruth, PutZero
  <2>3. \A p \in Pid : proc'[p] # "loop"
    BY <1>1, <1>2, <2>1 DEF DaemonState
  <2>4. \A e \in Cli : pc'[e] \notin InSetPid
    BY <1>1, <1>4, <2>1
  <2>5. Number(file') = NoPid
    BY <1>5, <2>2
  <2>. QED BY <2>2, <2>3, <2>4, <2>5, <1>0 DEF FileTruth, Whole
<1>12. ASSUME NEW p \in Pid, DaemonBackup(p) PROVE FileTruth'
  BY <1>1, <1>12, FileKept, <1>0 DEF DaemonBackup
<1>13. ASSUME NEW p \in Pid, DaemonTruncate(p) PROVE FileTruth'
  <2>1. CASE file.form = "empty"
    <3>1. /\ file' = Whole(NoPid) /\ pc' = pc /\ proc' = [proc EXCEPT ![p] = "write"]
      BY <1>13, <2>1 DEF DaemonTruncate
    <3>2. \A q \in Pid : proc'[q] # "loop"
      BY <1>1, <1>3, <1>13, <3>1 DEF DaemonTruncate, DaemonState, Booting
    <3>3. Number(file') = NoPid
      BY <1>5, <3>1
    <3>. QED BY <3>1, <3>2, <3>3, <1>0 DEF FileTruth, Whole
  <2>2. CASE file.form # "empty"
    BY <1>1, <1>13, <2>2, FileKept, <1>0 DEF DaemonTruncate
  <2>. QED BY <2>1, <2>2
<1>14. ASSUME NEW p \in Pid, DaemonWrite(p) PROVE FileTruth'
  <2>1. /\ proc[p] = "write" /\ pc' = pc /\ file' = Whole(p)
        /\ proc' = [proc EXCEPT ![p] = "loop"]
    BY <1>14 DEF DaemonWrite
  <2>2. \A c \in Cli : pc[c] \notin InSetPid
    BY <1>2, <2>1 DEF DaemonState, Booting
  <2>3. \A q \in Pid : proc'[q] = "loop" => q = p
    BY <1>1, <1>3, <2>1 DEF DaemonState, Booting
  <2>4. proc'[p] = "loop"
    BY <1>1, <2>1
  <2>. QED BY <2>1, <2>2, <2>3, <2>4, <1>0 DEF FileTruth, Whole
<1>15. ASSUME NEW p \in Pid, Warmup(p) \/ Stranger(p) PROVE FileTruth'
  BY <1>1, <1>15, FileKept, <1>0 DEF Warmup, Stranger
<1>16. ASSUME NEW p \in Pid, Crash(p) PROVE FileTruth'
  BY <1>1, <1>16 DEF Crash, Budget
<1>17. ASSUME NEW p \in Pid, Reaped(p) PROVE FileTruth'
  BY <1>1, <1>17, FileKept, <1>0 DEF Reaped
<1>18. CASE UNCHANGED vars
  BY <1>18, FileKept, <1>0 DEF vars
<1>. QED
  BY <1>6, <1>7, <1>8, <1>9, <1>10, <1>11, <1>12, <1>13, <1>14, <1>15, <1>16,
     <1>17, <1>18 DEF Next, CliStep, DaemonStep

LEMMA TruthInit == Init => FileTruth
<1> SUFFICES ASSUME Init PROVE FileTruth
  OBVIOUS
<1>1. Number(Whole(NoPid)) = NoPid /\ Number(Empty) = NoPid
  BY DEF Number, Whole, Empty
<1>2. \A p \in Pid : proc[p] = "loop" <=> p \in Started
  BY DEF Init
<1>3. \A c \in Cli : pc[c] = "off"
  BY DEF Init
<1>4. \/ Started = {} /\ file \in {Whole(NoPid), Empty}
      \/ \E p \in Started : file = Whole(p)
  BY DEF Init
<1>5. \A p \in Started : p \in Pid /\ \A q \in Started : p = q
  OBVIOUS
<1>. QED BY <1>1, <1>2, <1>3, <1>4, <1>5 DEF FileTruth, Whole, Empty, InSetPid

\* As long as nothing crashed, no SIGINT came and nothing was killed twice, the pid
\* file names the daemon that runs, and 0 when none does, whenever no command and no daemon is at work
\* on it.
THEOREM StatusIsTrue ==
  ASSUME CarefulUser, MaxStrangers = 0
  PROVE  Spec => []StatusTellsTruth
<1>1. TypeInv /\ Counted /\ (Calm => FileTruth) => StatusTellsTruth
  <2> SUFFICES ASSUME TypeInv, Counted, FileTruth, Calm, AtRest
               PROVE  \/ Daemons = {} /\ Number(file) = NoPid
                      \/ Daemons = {Number(file)}
    BY DEF StatusTellsTruth
  <2>0. OneToken
    BY TokenIsOne DEF Calm
  <2>1. CASE Daemons = {}
    BY <2>1 DEF FileTruth, AtRest, InSetPid, Daemons, DaemonState
  <2>2. CASE Daemons # {}
    <3>1. PICK p \in Daemons : TRUE
      BY <2>2
    <3>2. p \in Pid /\ proc[p] = "loop"
      BY DEF AtRest, Daemons, DaemonState
    <3>3. file = Whole(p) /\ p # NoPid
      BY <3>2 DEF FileTruth
    <3>4. Number(file) = p
      BY <3>3 DEF Number, Whole
    <3>5. Daemons = {p}
      BY <2>0, <3>1 DEF OneToken
    <3>. QED BY <3>4, <3>5
  <2>. QED BY <2>1, <2>2
<1>2. Init => TypeInv /\ Counted /\ NoStranger /\ (Calm => FileTruth)
  BY TypeInit, CountInit, TruthInit
<1>3. TypeInv /\ Counted /\ NoStranger /\ (Calm => FileTruth) /\ [Next]_vars
        => (TypeInv /\ Counted /\ NoStranger /\ (Calm => FileTruth))'
  BY TypeStep, CountStep, NoStrangerStep, TruthStep
<1>. QED BY <1>1, <1>2, <1>3, PTL DEF Spec

-----------------------------------------------------------------------------
\* Commands one at a time, with nothing that crashes.  What a command read is
\* then the daemon in its loop, and between the reading and the SIGKILL nobody
\* else ends that process, so that its pid is not given away.

ReadsTheDaemon == \A c \in Cli : pc[c] = "kill" => proc[read[c]] = "loop"

SerialInv ==
    /\ Counted /\ FileTruth /\ ReadsTheDaemon
    /\ Calm /\ victims = {}

LEMMA ReadStep ==
  ASSUME \A c, e \in Cli : c = e, MaxCrashes = 0
  PROVE  TypeInv /\ SerialInv /\ [Next]_vars
           => ReadsTheDaemon' /\ victims' = {} /\ again' = 0
<1> SUFFICES ASSUME TypeInv, SerialInv, [Next]_vars
             PROVE  ReadsTheDaemon' /\ victims' = {} /\ again' = 0
  OBVIOUS
<1>1. /\ file \in Content /\ victims = {} /\ again = 0
      /\ proc \in [Pid -> ProcState]
      /\ pc \in [Cli -> PC] /\ budget.crashes = 0
      /\ read \in [Cli -> Pid \union {NoPid}]
  BY DEF TypeInv, TypeOK, SerialInv, Calm
<1>2. \A c \in Cli : pc[c] = "kill" => read[c] \in Pid /\ proc[read[c]] = "loop"
  BY DEF TypeInv, ReadsAPid, SerialInv, ReadsTheDaemon
<1> USE DEF Goto, Become, ReadsTheDaemon
<1>3. ASSUME NEW c \in Cli, \/ \E k \in {"stop", "restart"} : Begin(c, k)
                            \/ BackupZero(c) \/ TruncateZero(c)
                            \/ WriteZero(c) \/ End(c) \/ Interrupt(c) \/ CliDies(c)
      PROVE  ReadsTheDaemon' /\ victims' = {} /\ again' = 0
  BY <1>1, <1>2, <1>3 DEF Begin, BackupZero, TruncateZero, WriteZero, End,
     Interrupt, CliDies
<1>4. ASSUME NEW c \in Cli, ReadPid(c) PROVE ReadsTheDaemon' /\ victims' = {} /\ again' = 0
  <2>1. Number(file) # NoPid => Number(file) \in Pid
    BY <1>1, NumberType
  <2>2. pc[c] = "read" /\ \A e \in Cli : pc[e] \notin InSetPid
    BY <1>4 DEF ReadPid, InSetPid
  <2>3. Number(file) # NoPid => \E p \in Pid : proc[p] = "loop" /\ file = Whole(p)
    BY <2>2 DEF SerialInv, FileTruth
  <2>4. Number(file) # NoPid => proc[Number(file)] = "loop"
    <3>1. \A p \in Pid : Number(Whole(p)) = p
      BY DEF Number, Whole
    <3>. QED BY <2>3, <3>1
  <2>. QED BY <1>1, <1>4, <2>1, <2>4 DEF ReadPid
<1>5. ASSUME NEW c \in Cli, KillPid(c) PROVE ReadsTheDaemon' /\ victims' = {} /\ again' = 0
  <2>1. read[c] \in Pid /\ proc[read[c]] = "loop"
    BY <1>2, <1>5 DEF KillPid
  <2>2. victims' = {} /\ again' = 0 /\ pc' = [pc EXCEPT ![c] = "backup"]
    BY <1>1, <1>5, <2>1 DEF KillPid
  <2>3. \A e \in Cli : pc'[e] # "kill"
    BY <1>1, <2>2
  <2>. QED BY <2>2, <2>3
<1>6. ASSUME NEW c \in Cli, NEW p \in Pid, Relaunch(c, p)
      PROVE  ReadsTheDaemon' /\ victims' = {} /\ again' = 0
  BY <1>1, <1>2, <1>6 DEF Relaunch
<1>7. ASSUME NEW p \in Pid,
                    DaemonStep(p) \/ Warmup(p) \/ Crash(p) \/ Reaped(p) \/ Stranger(p)
      PROVE  ReadsTheDaemon' /\ victims' = {} /\ again' = 0
  <2>1. proc[p] # "loop" /\ pc' = pc /\ read' = read /\ victims' = victims
        /\ again' = again
    BY <1>1, <1>7 DEF DaemonStep, DaemonBackup, DaemonTruncate, DaemonWrite,
       Warmup, Crash, Reaped, Stranger
  <2>2. \E s \in DaemonState \union {"none", "stranger", "dying"} :
            proc' = [proc EXCEPT ![p] = s]
    BY <1>7 DEF DaemonStep, DaemonBackup, DaemonTruncate, DaemonWrite,
       Warmup, Crash, Reaped, Stranger, DaemonState, Booting
  <2>. QED BY <1>1, <1>2, <2>1, <2>2
<1>8. CASE UNCHANGED vars
  BY <1>1, <1>2, <1>8 DEF vars
<1>. QED
  BY <1>3, <1>4, <1>5, <1>6, <1>7, <1>8 DEF Next, CliStep

\* stop-jobs and restart-jobs, one at a time and with nothing that crashes, kill
\* the job runner and no other process, although the machine gives every pid
\* away as soon as it is free.
THEOREM NoStrangerIsKilled ==
  ASSUME CarefulUser, \A c, e \in Cli : c = e, MaxCrashes = 0, MaxSignals = 0
  PROVE  Spec => []OnlyDaemonsAreKilled
<1>1. Init => TypeInv /\ SerialInv
  <2>1. Init => ReadsTheDaemon /\ victims = {} /\ Calm
    BY DEF Init, ReadsTheDaemon, Calm
  <2>. QED BY <2>1, TypeInit, CountInit, TruthInit DEF SerialInv
<1>2. TypeInv /\ SerialInv /\ [Next]_vars => (TypeInv /\ SerialInv)'
  <2> SUFFICES ASSUME TypeInv, SerialInv, [Next]_vars
               PROVE  TypeInv' /\ SerialInv'
    OBVIOUS
  <2>1. TypeInv'
    BY TypeStep
  <2>2. Calm'
    BY <2>1, ReadStep DEF TypeInv, TypeOK, Calm
  <2>3. NoStrangerRead
    BY DEF SerialInv, ReadsTheDaemon, NoStrangerRead
  <2>4. Counted'
    BY <2>3, CountStep DEF SerialInv
  <2>5. FileTruth'
    BY <2>2, TruthStep DEF SerialInv
  <2>. QED BY <2>1, <2>2, <2>4, <2>5, ReadStep DEF SerialInv
<1>3. SerialInv => OnlyDaemonsAreKilled
  BY DEF SerialInv, OnlyDaemonsAreKilled
<1>. QED BY <1>1, <1>2, <1>3, PTL DEF Spec
=============================================================================
