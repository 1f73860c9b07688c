--------------------------- MODULE TimeShiftProofs ---------------------------
(***************************************************************************)
(* Proofs about TimeShift, for every set of names, repositories and limits *)
(* and any number of commands, invocations and faults: what reaches the    *)
(* disk, what a time shift leaves there, types, folders that follow their  *)
(* records, limits that the cgroups enforce, processes that are inside.    *)
(***************************************************************************)
EXTENDS TimeShift, ResourcesProofs, SublistsProofs

Destroying == {"services", "jobs", "envs", "limits"}

FlagTypes ==
    /\ pc \in PC
    /\ reformatState \in BOOLEAN /\ reformatLimits \in BOOLEAN /\ applied \in BOOLEAN
    /\ budget \in [invocations : Nat, commands : Nat, faults : Nat]
    /\ restoring \in Nat

\* Only a time shift takes reformatState away, and it stays away until the end.
ShiftHoldsSaves ==
    /\ pc = "off" => reformatState
    /\ pc # "off" => (applied <=> ~reformatState)

\* How far the destructor has come; the flag of the limits follows every change
\* of their table that is not noted as unsaved.
SavedSoFar ==
    /\ pc \in {"envs", "limits"} /\ ~applied => jobs = jobTable
    /\ pc = "limits" => env = envTable
    /\ pc # "off" /\ "unsaved" \notin happened => reformatLimits \/ limitTable = limits

\* How far the copies of a shift have come.
TakenBack == projects = CopyOver(shift.projects, projects, <<>>)
JobsTakenBack == jobs = CopyOver(shift.jobs, jobs, NoJobs)
RestoredSoFar ==
    /\ applied \/ (pc = "restore" /\ restoring >= 1) => JobsTakenBack
    /\ applied \/ (pc = "restore" /\ restoring >= 2) => TakenBack

ShiftInv == FlagTypes /\ ShiftHoldsSaves /\ SavedSoFar /\ RestoredSoFar

-----------------------------------------------------------------------------
\* The beginning.
LEMMA ShiftInvInit == ShiftInit => ShiftInv
<1> SUFFICES ASSUME ShiftInit PROVE ShiftInv
  OBVIOUS
<1>1. /\ pc = "off" /\ reformatState = TRUE /\ reformatLimits = FALSE /\ applied = FALSE
      /\ budget = [invocations |-> 0, commands |-> 0, faults |-> 0] /\ restoring = 0
  BY DEF ShiftInit, Init
<1>2. FlagTypes
  BY <1>1 DEF FlagTypes, PC
<1>3. ShiftHoldsSaves /\ SavedSoFar /\ RestoredSoFar
  BY <1>1 DEF ShiftHoldsSaves, SavedSoFar, RestoredSoFar
<1>. QED BY <1>2, <1>3 DEF ShiftInv

\* A command that leaves the files alone, and notes its limit or raises the flag.
LEMMA InMain ==
  ASSUME ShiftInv, Command, UNCHANGED <<files, reformatState, applied, shifted>>,
         pc' \in {"main", "services"}, reformatLimits' \in BOOLEAN,
         happened \subseteq happened',
         \/ reformatLimits'
         \/ limitTable' = limitTable /\ reformatLimits' = reformatLimits
         \/ "unsaved" \in happened'
  PROVE  ShiftInv'
<1>1. pc = "main" /\ budget' = [budget EXCEPT !.commands = @ + 1]
  BY DEF Command
<1>2. FlagTypes'
  BY <1>1 DEF ShiftInv, FlagTypes, PC, shifted
<1>3. ShiftHoldsSaves'
  BY <1>1 DEF ShiftInv, ShiftHoldsSaves
<1>4. SavedSoFar'
  BY <1>1 DEF ShiftInv, SavedSoFar, files
<1>5. RestoredSoFar'
  BY <1>1 DEF ShiftInv, RestoredSoFar, TakenBack, JobsTakenBack, CopyOver, files, shifted
<1>. QED BY <1>2, <1>3, <1>4, <1>5 DEF ShiftInv

\* The end of an invocation that saves nothing more.
LEMMA EndsHere ==
  ASSUME ShiftInv, Off, UNCHANGED <<files, applied, shifted>>,
         budget' \in [invocations : Nat, commands : Nat, faults : Nat]
  PROVE  ShiftInv'
<1>1. pc' = "off" /\ reformatState' = TRUE /\ reformatLimits' = FALSE
  BY DEF Off
<1>2. FlagTypes' /\ ShiftHoldsSaves' /\ SavedSoFar'
  BY <1>1 DEF ShiftInv, FlagTypes, ShiftHoldsSaves, SavedSoFar, PC, shifted
<1>3. RestoredSoFar'
  BY <1>1 DEF ShiftInv, RestoredSoFar, TakenBack, JobsTakenBack, CopyOver, files, shifted
<1>. QED BY <1>2, <1>3 DEF ShiftInv

LEMMA Crashes == ASSUME ShiftInv, Crash, UNCHANGED shifted PROVE ShiftInv'
<1>1. Off /\ UNCHANGED <<files, applied>> /\ budget' = [budget EXCEPT !.commands = @ + 1]
  BY DEF Crash
<1>2. budget' \in [invocations : Nat, commands : Nat, faults : Nat]
  BY <1>1 DEF ShiftInv, FlagTypes
<1>. QED BY <1>1, <1>2, EndsHere

LEMMA CommandSteps == ASSUME ShiftInv, CommandStep, UNCHANGED shifted PROVE ShiftInv'
<1>0. reformatLimits \in BOOLEAN /\ reformatState \in BOOLEAN
  BY DEF ShiftInv, FlagTypes
<1>1. CASE Add
  <2>1. /\ Command /\ UNCHANGED <<files, reformatState, applied, limitTable, reformatLimits>>
        /\ pc' \in {"main", "services"} /\ happened \subseteq happened'
    BY <1>1 DEF Add, Command, flags, Note
  <2>. QED BY <1>0, <2>1, InMain
<1>2. CASE Remove
  <2>1. /\ Command /\ UNCHANGED <<files, reformatState, applied>>
        /\ pc' = "main" /\ happened \subseteq happened' /\ reformatLimits' = TRUE
    BY <1>2 DEF Remove, Command, Note
  <2>. QED BY <2>1, InMain
<1>3. CASE Rename
  <2>1. /\ Command /\ UNCHANGED <<files, reformatState, applied>>
        /\ pc' = "main" /\ reformatLimits' = TRUE
    BY <1>3 DEF Rename, Command
  <2>2. happened \subseteq happened'
    BY <1>3 DEF Rename, Note
  <2>. QED BY <2>1, <2>2, InMain
<1>4. CASE NotThere
  <2>1. /\ Command /\ UNCHANGED <<files, reformatState, applied>>
        /\ pc' = "main" /\ happened \subseteq happened' /\ reformatLimits' = TRUE
    BY <1>4 DEF NotThere, Command
  <2>. QED BY <2>1, InMain
<1>5. CASE Run \/ Restart
  <2>1. /\ Command /\ UNCHANGED <<files, reformatState, applied, limitTable, reformatLimits>>
        /\ pc' \in {"main", "services"}
    BY <1>5 DEF Run, Restart, Command, flags
  <2>2. happened \subseteq happened'
    BY <1>5 DEF Run, Restart, Note
  <2>. QED BY <1>0, <2>1, <2>2, InMain
<1>6. CASE Stop
  <2>1. /\ Command /\ UNCHANGED <<files, reformatState, applied, limitTable, reformatLimits>>
        /\ pc' = "main" /\ happened' = happened
    BY <1>6 DEF Stop, Command, flags
  <2>. QED BY <1>0, <2>1, InMain
<1>7. CASE SetLimit
  <2>1. PICK i \in DOMAIN services, kind \in Kind,
             cpu \in Cpu \union {0}, mem \in Mem \union {0} :
          \E r \in IF cpu = 0 THEN SetMemoryLimit(services[i], mem, kind)
                    ELSE SetCpuResourceLimit(services[i], cpu, mem, kind) :
            /\ limitTable' = r.t
            /\ pc' = IF r.ok THEN "main" ELSE "services"
            /\ reformatLimits' = (reformatLimits \/ SavedAfter(cpu, kind, r.ok))
            /\ Note((IF r.ok THEN {} ELSE {"partial"})
                      \union (IF r.ok /\ cpu # 0 /\ kind # "standard"
                              THEN {"unsaved"} ELSE {}))
    BY <1>7 DEF SetLimit
  <2>2. PICK r \in IF cpu = 0 THEN SetMemoryLimit(services[i], mem, kind)
                    ELSE SetCpuResourceLimit(services[i], cpu, mem, kind) :
            /\ limitTable' = r.t
            /\ pc' = IF r.ok THEN "main" ELSE "services"
            /\ reformatLimits' = (reformatLimits \/ SavedAfter(cpu, kind, r.ok))
            /\ Note((IF r.ok THEN {} ELSE {"partial"})
                      \union (IF r.ok /\ cpu # 0 /\ kind # "standard"
                              THEN {"unsaved"} ELSE {}))
    BY <2>1
  <2>3. r.ok \in BOOLEAN /\ (~r.ok => r.t = limitTable)
    <3>1. CASE r \in NotRunning
      <4>1. r.ok = TRUE
        BY <3>1 DEF NotRunning
      <4>. QED BY <4>1, Zenon
    <3>2. CASE \E x \in LimitMm(cgroup, services[i].name, services[i].pid, mem, kind) :
                 r = Recorded(services[i].name, 0, mem, x)
      <4>1. PICK x \in LimitMm(cgroup, services[i].name, services[i].pid, mem, kind) :
                 r = Recorded(services[i].name, 0, mem, x)
        BY <3>2
      <4>2. x.ok \in BOOLEAN
        <5>1. \E g : x = Done(g) \/ x = Failed(g)
          BY Zenon DEF LimitMm, LimitMemory, MemoryLimit
        <5>2. x.ok = TRUE \/ x.ok = FALSE
          BY <5>1 DEF Done, Failed
        <5>. QED BY <5>2, Zenon
      <4>. QED BY <4>1, <4>2 DEF Recorded
    <3>3. CASE \E x \in LimitCpuAndMemory(cgroup, services[i].name, services[i].pid,
                                          cpu, mem, kind) :
                 r = Recorded(services[i].name, FileCpu[cpu], mem, x)
      <4>1. PICK x \in LimitCpuAndMemory(cgroup, services[i].name, services[i].pid,
                                         cpu, mem, kind) :
                 r = Recorded(services[i].name, FileCpu[cpu], mem, x)
        BY <3>3
      <4>2. x.ok \in BOOLEAN
        <5>1. \E g : x = Done(g) \/ x = Failed(g)
          BY Zenon DEF LimitCpuAndMemory, LimitMemory, MemoryLimit
        <5>2. x.ok = TRUE \/ x.ok = FALSE
          BY <5>1 DEF Done, Failed
        <5>. QED BY <5>2, Zenon
      <4>. QED BY <4>1, <4>2 DEF Recorded
    <3>. QED BY <2>2, <3>1, <3>2, <3>3, Zenon DEF SetMemoryLimit, SetCpuResourceLimit
  <2>4. /\ Command /\ UNCHANGED <<files, reformatState, applied>>
        /\ pc' \in {"main", "services"} /\ happened \subseteq happened'
    BY <1>7, <2>2 DEF SetLimit, Note
  <2>5. /\ reformatLimits' \in BOOLEAN
        /\ \/ reformatLimits'
           \/ limitTable' = limitTable /\ reformatLimits' = reformatLimits
           \/ "unsaved" \in happened'
    BY <1>0, <2>2, <2>3 DEF SavedAfter, Note
  <2>. QED BY <2>4, <2>5, InMain
<1>8. CASE SetLimitOfNobody
  <2>1. /\ Command /\ UNCHANGED <<files, reformatState, applied, limitTable, happened>>
        /\ pc' \in {"main", "services"}
        /\ \E b \in BOOLEAN : reformatLimits' = (reformatLimits \/ b)
    BY <1>8 DEF SetLimitOfNobody, SavedAfter, tables
  <2>. QED BY <1>0, <2>1, InMain
<1>9. CASE AddEnv \/ UpdateEnv \/ RemoveEnv \/ Refuse \/ EditJobs
  <2>1. /\ Command /\ UNCHANGED <<files, reformatState, applied, limitTable, reformatLimits>>
        /\ pc' \in {"main", "services"} /\ happened' = happened
    BY <1>9 DEF AddEnv, UpdateEnv, RemoveEnv, Refuse, EditJobs, Command, flags, tables
  <2>. QED BY <1>0, <2>1, InMain
<1>10. CASE AddToNothing \/ RestartCrashes \/ AddEnvToNothing
  BY <1>10, Crashes DEF AddToNothing, RestartCrashes, AddEnvToNothing
<1>. QED BY <1>1, <1>2, <1>3, <1>4, <1>5, <1>6, <1>7, <1>8, <1>9, <1>10 DEF CommandStep

LEMMA DestructorSteps == ASSUME ShiftInv, Destructor, UNCHANGED shifted PROVE ShiftInv'
<1>. USE DEF ShiftInv, FlagTypes, ShiftHoldsSaves, SavedSoFar, RestoredSoFar, TakenBack,
             JobsTakenBack, CopyOver, PC, flags, tables, shifted
<1>1. CASE Return
  BY <1>1 DEF Return, files
<1>2. CASE SaveServices
  BY <1>2 DEF SaveServices
<1>3. CASE SaveJobs
  BY <1>3 DEF SaveJobs
<1>4. CASE SaveEnvs
  BY <1>4 DEF SaveEnvs
<1>5. CASE SaveLimits
  BY <1>5 DEF SaveLimits, Off
<1>. QED BY <1>1, <1>2, <1>3, <1>4, <1>5 DEF Destructor

LEMMA ShiftSteps ==
  ASSUME ShiftInv, Create \/ Apply \/ Restore \/ Applied
  PROVE  ShiftInv'
<1>. USE DEF ShiftInv, FlagTypes, ShiftHoldsSaves, SavedSoFar, RestoredSoFar, TakenBack,
             JobsTakenBack, CopyOver, PC, flags, tables, files
<1>1. CASE Create
  BY <1>1 DEF Create, Command
<1>2. CASE Apply
  BY <1>2 DEF Apply, Command
<1>3. CASE Restore
  <2>1. /\ pc = "restore" /\ pc' = "restore" /\ restoring \in {0, 1, 2}
        /\ restoring' = restoring + 1
        /\ UNCHANGED <<limits, reformatState, reformatLimits, applied, limitTable,
                       budget, happened, shift>>
    BY <1>3 DEF Restore, Order
  <2>2. /\ restoring = 0 => jobs' = CopyOver(shift.jobs, jobs, NoJobs) /\ projects' = projects
        /\ restoring = 1 => jobs' = jobs /\ projects' = CopyOver(shift.projects, projects, <<>>)
        /\ restoring = 2 => jobs' = jobs /\ projects' = projects
    BY <1>3, <2>1 DEF Restore, Order
  <2>3. FlagTypes' /\ ShiftHoldsSaves' /\ SavedSoFar'
    BY <2>1
  <2>4. applied' \/ restoring' >= 1 => JobsTakenBack'
    BY <2>1, <2>2
  <2>5. applied' \/ restoring' >= 2 => TakenBack'
    BY <2>1, <2>2
  <2>. QED BY <2>1, <2>3, <2>4, <2>5
<1>4. CASE Applied
  <2>1. /\ pc = "restore" /\ pc' = "main" /\ restoring = 3
        /\ reformatState' = FALSE /\ applied' = TRUE
        /\ happened \subseteq happened'
        /\ UNCHANGED <<files, tables, reformatLimits, budget, shift, restoring>>
    BY <1>4 DEF Applied, Order, Note, shifted
  <2>2. FlagTypes' /\ ShiftHoldsSaves' /\ SavedSoFar'
    BY <2>1
  <2>3. RestoredSoFar'
    BY <2>1
  <2>. QED BY <2>2, <2>3
<1>. QED BY <1>1, <1>2, <1>3, <1>4

LEMMA ShiftInvStep == ShiftInv /\ [ShiftNext]_allVars => ShiftInv'
<1> SUFFICES ASSUME ShiftInv, [ShiftNext]_allVars PROVE ShiftInv'
  OBVIOUS
<1>1. CASE UNCHANGED allVars
  <2>1. UNCHANGED <<files, pc, tables, flags, budget, happened, shifted>>
    BY <1>1 DEF allVars, vars
  <2>. QED BY <2>1 DEF files, tables, flags, shifted, ShiftInv, FlagTypes,
              ShiftHoldsSaves, SavedSoFar, RestoredSoFar, TakenBack, JobsTakenBack, CopyOver
<1>2. CASE Next /\ UNCHANGED shifted
  <2>1. CASE Begin
    <3>1. /\ pc = "off" /\ pc' = "main" /\ applied' = FALSE /\ limitTable' = limits
          /\ budget' = [budget EXCEPT !.invocations = @ + 1]
          /\ UNCHANGED <<files, reformatState, reformatLimits, happened, shifted>>
      BY <1>2, <2>1 DEF Begin
    <3>2. FlagTypes'
      <4>1. budget' \in [invocations : Nat, commands : Nat, faults : Nat]
        BY <3>1 DEF ShiftInv, FlagTypes
      <4>2. pc' \in PC
        BY <3>1 DEF PC
      <4>. QED BY <3>1, <4>1, <4>2 DEF ShiftInv, FlagTypes, shifted
    <3>4. ShiftHoldsSaves'
      BY <3>1 DEF ShiftInv, FlagTypes, ShiftHoldsSaves
    <3>3. SavedSoFar' /\ RestoredSoFar'
      BY <3>1 DEF SavedSoFar, RestoredSoFar, files
    <3>. QED BY <3>2, <3>3, <3>4 DEF ShiftInv
  <2>2. CASE CommandStep
    BY <1>2, <2>2, CommandSteps
  <2>3. CASE Destructor
    BY <1>2, <2>3, DestructorSteps
  <2>4. CASE Kill
    <3>1. Off /\ UNCHANGED <<files, applied>> /\ budget' = [budget EXCEPT !.faults = @ + 1]
      BY <2>4 DEF Kill
    <3>2. budget' \in [invocations : Nat, commands : Nat, faults : Nat]
      BY <3>1 DEF ShiftInv, FlagTypes
    <3>. QED BY <1>2, <3>1, <3>2, EndsHere
  <2>5. ASSUME NEW p \in Pid, Die(p) PROVE ShiftInv'
    BY <1>2, <2>5 DEF Die, ShiftInv, FlagTypes, ShiftHoldsSaves, SavedSoFar,
         RestoredSoFar, TakenBack, JobsTakenBack, CopyOver, files, tables, flags, shifted
  <2>. QED BY <1>2, <2>1, <2>2, <2>3, <2>4, <2>5 DEF Next
<1>. QED BY <1>1, <1>2, ShiftSteps DEF ShiftNext

-----------------------------------------------------------------------------
\* Whatever commands, applied shifts and early returns a command line has, the
\* arrays of limits, variables and jobs are on disk when its destructor is done.
THEOREM EditsReachDisk == ShiftSpec => ChangesReachDisk
<1> DEFINE Reach ==
      pc = "limits" /\ AtRest' /\ budget'.faults = budget.faults =>
          /\ env' = envTable
          /\ applied \/ jobs' = jobTable
          /\ Undisturbed({"unsaved"}) => limits' = limitTable
<1>1. ShiftInv /\ [ShiftNext]_allVars => [Reach]_vars
  <2>. SUFFICES ASSUME ShiftInv, [ShiftNext]_allVars, pc = "limits", pc' = "off",
                       budget'.faults = budget.faults
                PROVE  Reach
    BY DEF AtRest
  <2>1. SaveLimits
    <3>1. ~Kill
      BY DEF Kill, ShiftInv, FlagTypes
    <3>2. /\ ~UNCHANGED allVars /\ ~Begin /\ \A p \in Pid : ~Die(p)
          /\ ~Create /\ ~Apply /\ ~Restore /\ ~Applied
      BY DEF allVars, vars, Begin, Die, Create, Apply, Restore, Applied, Command
    <3>3. ~CommandStep
      BY DEF CommandStep, Command, Add, AddToNothing, Remove, Rename, NotThere, Run, Stop,
             Restart, RestartCrashes, SetLimit, SetLimitOfNobody, AddEnv, AddEnvToNothing,
             UpdateEnv, RemoveEnv, Refuse, EditJobs
    <3>4. ~Return /\ ~SaveServices /\ ~SaveJobs /\ ~SaveEnvs
      BY DEF Return, SaveServices, SaveJobs, SaveEnvs
    <3>. QED BY <3>1, <3>2, <3>3, <3>4 DEF ShiftNext, Next, Destructor
  <2>2. env' = env /\ jobs' = jobs
        /\ limits' = IF reformatLimits THEN limitTable ELSE limits
    BY <2>1 DEF SaveLimits
  <2>. QED BY <2>2 DEF ShiftInv, SavedSoFar, Undisturbed
<1>. QED BY ShiftInvInit, ShiftInvStep, <1>1, PTL DEF ShiftSpec, ChangesReachDisk

\* After an invocation that applied a shift, jobs and services on disk are those
\* of the shift, each where its copy is not empty, whatever commands came before
\* and after it on its line, a create among them.
THEOREM AppliedShiftStays == ShiftSpec => []ShiftIsApplied
<1>1. ShiftInv => ShiftIsApplied
  BY DEF ShiftInv, RestoredSoFar, TakenBack, JobsTakenBack, ShiftIsApplied
<1>. QED BY ShiftInvInit, ShiftInvStep, <1>1, PTL DEF ShiftSpec

-----------------------------------------------------------------------------
\* The tables of Resources beside time shifts: none of the steps of one touches
\* the limits, and what one does to folders and records is noted as it ends.
LEMMA TablesShift == TablesInv /\ [ShiftNext]_allVars => TablesInv'
<1> SUFFICES ASSUME TablesInv, [ShiftNext]_allVars PROVE TablesInv'
  OBVIOUS
<1>1. CASE Next \/ UNCHANGED allVars
  BY <1>1, TablesStep DEF allVars
<1>2. CASE Create
  <2>1. pc = "main" /\ UNCHANGED <<files, machine, pc, tables, flags, happened>>
    BY <1>2 DEF Create, Command
  <2>. QED BY <2>1 DEF files, machine, tables, flags, TablesInv, Quiet, Undisturbed, Scalars,
                       OnDisk, InArrays, Saved, Sound, SoundLimits, Taken
<1>3. CASE Apply
  <2>1. /\ pc = "main" /\ pc' = "restore"
        /\ UNCHANGED <<files, machine, tables, flags, happened>>
    BY <1>3 DEF Apply, Command
  <2>. QED BY <2>1 DEF files, machine, tables, flags, TablesInv, Quiet, Undisturbed, Scalars,
                       OnDisk, InArrays, Saved, Sound, SoundLimits, Taken, PC
<1>4. CASE Restore
  <2>1. /\ pc = "restore" /\ pc' = "restore"
        /\ UNCHANGED <<limits, machine, tables, flags, happened>>
    BY <1>4 DEF Restore
  <2>. QED BY <2>1 DEF machine, tables, flags, TablesInv, Quiet, Undisturbed, Scalars,
                       OnDisk, InArrays, Saved, Sound, SoundLimits, Taken
<1>5. CASE Applied
  <2>1. "shifted" \in happened'
    BY <1>5 DEF Applied, Note
  <2>. QED BY <2>1 DEF TablesInv, Quiet, Undisturbed
<1>. QED BY <1>1, <1>2, <1>3, <1>4, <1>5 DEF ShiftNext

\* No sequence of commands, early returns and failures, in invocations that also
\* create shifts, makes two limits of one name.
THEOREM NeverTwoLimitsBesideShifts == ShiftSpec => []LimitsStayLoadable
<1>1. ShiftInit => TablesInv
  BY TablesInit DEF ShiftInit
<1>2. TablesInv => LimitsStayLoadable
  BY DEF TablesInv, Scalars, LimitsStayLoadable, Quiet
<1>. QED BY <1>1, TablesShift, <1>2, PTL DEF ShiftSpec

\* Between two invocations every limit on disk belongs to a service on disk.
THEOREM NoLimitWithoutServiceBesideShifts == ShiftSpec => []LimitsHaveServices
<1>1. ShiftInit => TablesInv
  BY TablesInit DEF ShiftInit
<1>2. TablesInv => LimitsHaveServices
  BY HasIndex DEF TablesInv, OnDisk, SoundLimits, Names, LimitsHaveServices, Quiet, AtRest
<1>. QED BY <1>1, TablesShift, <1>2, PTL DEF ShiftSpec

-----------------------------------------------------------------------------
\* The loop over the services of the file, as a chain of what each one leaves.
Chain(after, n, m, t) ==
    after[0] = m /\ \A i \in 1..n : after[i] = FollowName(after[i - 1], t[i])

LEMMA FollowNamesChain ==
  ASSUME NEW m, NEW t, Len(t) \in Nat
  PROVE  \E after : Chain(after, Len(t), m, t) /\ FollowNames(m, t) = after[Len(t)]
<1> DEFINE b == Len(t)
           T == {n \in 0..b : \E g : Chain(g, n, m, t)}
           F(x) == [i \in 0..b |-> IF i = 0 THEN m ELSE FollowName(x[i - 1], t[i])]
<1>1. 0 \in T
  <2>1. Chain([i \in {0} |-> m], 0, m, t)
    BY DEF Chain
  <2>. QED BY <2>1
<1>2. ASSUME NEW n \in 0..(b - 1), n \in T PROVE n + 1 \in T
  <2>1. PICK g : Chain(g, n, m, t)
    BY <1>2
  <2>2. PICK k : k = [i \in 0..(n + 1) |-> IF i = n + 1 THEN FollowName(g[n], t[n + 1]) ELSE g[i]]
    OBVIOUS
  <2>3. /\ n + 1 \in 0..b
        /\ k[0] = g[0] /\ k[n + 1] = FollowName(g[n], t[n + 1])
        /\ \A i \in 0..n : k[i] = g[i]
    BY <2>2
  <2>4. ASSUME NEW i \in 1..(n + 1) PROVE k[i] = FollowName(k[i - 1], t[i])
    <3>1. CASE i = n + 1
      <4>1. i - 1 = n /\ k[n] = g[n]
        BY <2>3, <3>1
      <4>. QED BY <2>3, <3>1, <4>1
    <3>2. CASE i # n + 1
      <4>1. i \in 1..n /\ i \in 0..n /\ i - 1 \in 0..n
        BY <3>2
      <4>2. g[i] = FollowName(g[i - 1], t[i])
        BY <2>1, <4>1 DEF Chain
      <4>. QED BY <2>3, <4>1, <4>2
    <3>. QED BY <3>1, <3>2
  <2>5. Chain(k, n + 1, m, t)
    BY <2>1, <2>3, <2>4 DEF Chain
  <2>. QED BY <2>3, <2>5
<1>3. b \in T
  <2>1. b \in Nat
    OBVIOUS
  <2> HIDE DEF T, b
  <2>2. 0..b \subseteq T
    BY <1>1, <1>2, <2>1, NumbersUpTo
  <2>3. b \in 0..b
    BY <2>1
  <2>. QED BY <2>2, <2>3
<1>4. PICK g : Chain(g, b, m, t)
  BY <1>3
<1>5. PICK h : h = [i \in 0..b |-> g[i]]
  OBVIOUS
<1>6. h = F(h)
  <2>1. ASSUME NEW i \in 0..b PROVE h[i] = IF i = 0 THEN m ELSE FollowName(h[i - 1], t[i])
    <3>1. CASE i = 0
      BY <1>4, <1>5, <3>1 DEF Chain
    <3>2. CASE i # 0
      <4>1. i \in 1..b /\ i - 1 \in 0..b
        BY <3>2
      <4>2. h[i] = g[i] /\ h[i - 1] = g[i - 1] /\ g[i] = FollowName(g[i - 1], t[i])
        BY <1>4, <1>5, <4>1 DEF Chain
      <4>. QED BY <3>2, <4>2
    <3>. QED BY <3>1, <3>2
  <2>. QED BY <1>5, <2>1
<1>7. PICK after : after = CHOOSE x : x = F(x)
  OBVIOUS
<1>8. after = F(after)
  BY <1>6, <1>7
<1>9. Chain(after, b, m, t)
  <2>1. after[0] = m
    BY <1>8
  <2>2. \A i \in 1..b : after[i] = FollowName(after[i - 1], t[i])
    BY <1>8
  <2>. QED BY <2>1, <2>2 DEF Chain
<1>10. FollowNames(m, t) = after[b]
  BY <1>7 DEF FollowNames
<1>. QED BY <1>9, <1>10

Places == [folder : [Name -> Repo \union {Nothing}], cgroup : Cgroups]

\* One step of the loop, and what it does to the folders.
LEMMA FollowNameFacts ==
  ASSUME services \in Seq(Record), NEW m \in Places, NEW s \in Record
  PROVE  /\ FollowName(m, s) \in Places
         /\ FollowName(m, s).folder =
              IF Renamed(s) = {} THEN m.folder
              ELSE LET old == services[CHOOSE i \in Renamed(s) : TRUE].name IN
                   IF m.folder[old] # Nothing /\ m.folder[s.name] = Nothing
                   THEN [m.folder EXCEPT ![s.name] = m.folder[old], ![old] = Nothing]
                   ELSE m.folder
<1>1. CASE Renamed(s) = {}
  BY <1>1 DEF FollowName
<1>2. CASE Renamed(s) # {}
  <2>1. PICK old : old = services[CHOOSE i \in Renamed(s) : TRUE].name
    OBVIOUS
  <2>2. old \in Name
    <3>1. (CHOOSE i \in Renamed(s) : TRUE) \in DOMAIN services
      BY <1>2 DEF Renamed
    <3>. QED BY <2>1, <3>1, EntryTypes
  <2>3. s.name \in Name /\ s.pid \in Pid \union {NoPid}
        /\ m.folder \in [Name -> Repo \union {Nothing}] /\ m.cgroup \in Cgroups
    BY DEF Record, Places
  <2>4. PICK f : f = IF m.folder[old] # Nothing /\ m.folder[s.name] = Nothing
                     THEN [m.folder EXCEPT ![s.name] = m.folder[old], ![old] = Nothing]
                     ELSE m.folder
    OBVIOUS
  <2>5. f \in [Name -> Repo \union {Nothing}]
    BY <2>2, <2>3, <2>4
  <2>6. PICK r : r = RenameCgrp(m.cgroup, old, s.name, s.pid, FALSE)
    OBVIOUS
  <2>7. r.g \in Cgroups
    BY <2>2, <2>3, <2>6, RenameCgrpFacts
  <2>8. FollowName(m, s) = [folder |-> f, cgroup |-> r.g]
    BY <1>2, <2>1, <2>4, <2>6 DEF FollowName
  <2>9. FollowName(m, s) \in Places /\ FollowName(m, s).folder = f
    BY <2>5, <2>7, <2>8 DEF Places
  <2>. QED BY <1>2, <2>1, <2>4, <2>9
<1>. QED BY <1>1, <1>2

LEMMA FollowNamesType ==
  ASSUME services \in Seq(Record), NEW m \in Places, NEW t \in Seq(Record)
  PROVE  FollowNames(m, t) \in Places
<1>1. Len(t) \in Nat /\ DOMAIN t = 1..Len(t)
  OBVIOUS
<1>2. PICK after : Chain(after, Len(t), m, t) /\ FollowNames(m, t) = after[Len(t)]
  BY <1>1, FollowNamesChain
<1> DEFINE T == {n \in 0..Len(t) : after[n] \in Places}
<1>3. 0 \in T
  BY <1>1, <1>2 DEF Chain
<1>4. ASSUME NEW n \in 0..(Len(t) - 1), n \in T PROVE n + 1 \in T
  <2>1. n + 1 \in 1..Len(t) /\ (n + 1) - 1 = n
    BY <1>1
  <2>2. after[n + 1] = FollowName(after[n], t[n + 1])
    BY <1>2, <2>1 DEF Chain
  <2>3. t[n + 1] \in Record
    BY <1>1, <2>1
  <2>4. after[n] \in Places
    BY <1>4
  <2>5. FollowName(after[n], t[n + 1]) \in Places
    BY <2>3, <2>4, FollowNameFacts
  <2>. QED BY <2>1, <2>2, <2>5
<1>5. 0..Len(t) \subseteq T
  <2> HIDE DEF T
  <2>. QED BY <1>1, <1>3, <1>4, NumbersUpTo
<1>6. Len(t) \in T
  BY <1>1, <1>5
<1>. QED BY <1>2, <1>6

-----------------------------------------------------------------------------
\* Types.

LEMMA ShiftTypesInit == ShiftInit => ShiftTypeOK
<1> SUFFICES ASSUME ShiftInit PROVE ShiftTypeOK
  OBVIOUS
<1>1. TypeOK
  BY TypesInit DEF ShiftInit
<1>2. <<>> \in Seq(Record) /\ NoEnv \in [Name -> Value \union {Nothing}]
  BY DEF NoEnv
<1>. QED BY <1>1, <1>2, TypeParts, NoJobsAssumption DEF ShiftInit, ShiftTypeOK, Disk, Order

LEMMA ShiftTypesStep == ShiftTypeOK /\ [ShiftNext]_allVars => ShiftTypeOK'
<1> SUFFICES ASSUME ShiftTypeOK, [ShiftNext]_allVars PROVE ShiftTypeOK'
  OBVIOUS
<1>0. /\ TypeOK /\ Disk /\ Memory /\ Machine /\ Flags
      /\ shift \in [jobs : Jobs, projects : Seq(Record), env : [Name -> Value \union {Nothing}]]
      /\ restoring \in 0..3 /\ Len(Order) = 3
  BY TypeParts DEF ShiftTypeOK, Order
<1>1. CASE UNCHANGED allVars
  <2>1. TypeOK' /\ UNCHANGED shifted
    BY <1>0, <1>1, TypesStep DEF allVars
  <2>. QED BY <1>0, <2>1 DEF ShiftTypeOK, shifted
<1>2. CASE Next /\ UNCHANGED shifted
  <2>1. TypeOK'
    BY <1>0, <1>2, TypesStep
  <2>. QED BY <1>0, <1>2, <2>1 DEF ShiftTypeOK, shifted
<1>3. CASE Create
  <2>1. /\ Command /\ UNCHANGED <<files, machine, pc, tables, flags, happened, restoring>>
        /\ shift' = [jobs |-> CopyOver(jobs, shift.jobs, NoJobs),
                     projects |-> CopyOver(projects, shift.projects, <<>>),
                     env |-> CopyOver(env, shift.env, NoEnv)]
    BY <1>3 DEF Create
  <2>2. shift' \in [jobs : Jobs, projects : Seq(Record), env : [Name -> Value \union {Nothing}]]
    <3>1. shift.projects \in Seq(Record) /\ shift.env \in [Name -> Value \union {Nothing}]
      BY <1>0
    <3>2. /\ CopyOver(projects, shift.projects, <<>>) \in Seq(Record)
          /\ CopyOver(env, shift.env, NoEnv) \in [Name -> Value \union {Nothing}]
          /\ CopyOver(jobs, shift.jobs, NoJobs) \in Jobs
      BY <1>0, <3>1 DEF Disk, CopyOver
    <3>. QED BY <1>0, <2>1, <3>2 DEF Disk
  <2>3. Memory' /\ Machine' /\ pc' \in PC
    BY <1>0, <2>1 DEF Memory, Machine, Flags, machine, tables
  <2>4. TypeOK'
    BY <1>0, <2>1, <2>3, CommandTypes DEF Flags, flags
  <2>. QED BY <1>0, <2>1, <2>2, <2>4 DEF ShiftTypeOK
<1>4. CASE Apply
  <2>1. /\ Command /\ pc' = "restore" /\ restoring' = 0
        /\ UNCHANGED <<files, machine, tables, flags, happened, shift>>
    BY <1>4 DEF Apply
  <2>2. Memory' /\ Machine' /\ pc' \in PC
    BY <1>0, <2>1 DEF Memory, Machine, PC, machine, tables
  <2>3. TypeOK'
    BY <1>0, <2>1, <2>2, CommandTypes DEF Flags, flags
  <2>. QED BY <1>0, <2>1, <2>3 DEF ShiftTypeOK
<1>5. CASE Restore
  <2>1. /\ restoring < 3 /\ restoring' = restoring + 1
        /\ UNCHANGED <<limits, machine, pc, tables, flags, budget, happened, shift>>
        /\ jobs' \in {CopyOver(shift.jobs, jobs, NoJobs), jobs}
        /\ projects' \in {CopyOver(shift.projects, projects, <<>>), projects}
        /\ env' \in {CopyOver(shift.env, env, NoEnv), env}
    BY <1>0, <1>5 DEF Restore
  <2>2. shift.projects \in Seq(Record) /\ shift.env \in [Name -> Value \union {Nothing}]
        /\ shift.jobs \in Jobs
    BY <1>0
  <2>3. Disk'
    BY <1>0, <2>1, <2>2 DEF Disk, CopyOver
  <2>4. Memory' /\ Machine' /\ Flags'
    BY <1>0, <2>1 DEF Memory, Machine, Flags, machine, tables, flags
  <2>5. TypeOK'
    BY <2>3, <2>4 DEF TypeOK, Disk, Memory, Machine, Flags
  <2>6. restoring' \in 0..3
    BY <1>0, <2>1
  <2>. QED BY <1>0, <2>1, <2>5, <2>6 DEF ShiftTypeOK
<1>6. CASE Applied
  <2>1. PICK m : m = FollowNames([folder |-> folder, cgroup |-> cgroup], projects)
    OBVIOUS
  <2>2. m \in Places
    <3>1. [folder |-> folder, cgroup |-> cgroup] \in Places
      BY <1>0 DEF Machine, Places
    <3>. QED BY <1>0, <2>1, <3>1, FollowNamesType DEF Disk, Memory
  <2>3. folder' = m.folder /\ cgroup' = m.cgroup
    BY <1>6, <2>1 DEF Applied
  <2>4. /\ reformatState' = FALSE /\ applied' = TRUE /\ pc' = "main"
        /\ UNCHANGED <<files, version, proc, tables, reformatLimits, budget, shifted>>
    BY <1>6 DEF Applied
  <2>5. happened' \subseteq Happenings
    BY <1>0, <1>6 DEF Applied, Note, Flags, Happenings
  <2>6. Disk' /\ Memory' /\ Machine'
    BY <1>0, <2>2, <2>3, <2>4 DEF Disk, Memory, Machine, Places, files, tables
  <2>7. Flags'
    BY <1>0, <2>4, <2>5 DEF Flags, PC
  <2>8. TypeOK'
    BY <2>6, <2>7 DEF TypeOK, Disk, Memory, Machine, Flags
  <2>. QED BY <1>0, <2>4, <2>8 DEF ShiftTypeOK, shifted
<1>. QED BY <1>1, <1>2, <1>3, <1>4, <1>5, <1>6 DEF ShiftNext

\* Every table a shift brings back, and every folder and cgroup it moves, is one
\* the next invocation can load and use.
THEOREM ShiftTypeCorrect == ShiftSpec => []ShiftTypeOK
BY ShiftTypesInit, ShiftTypesStep, PTL DEF ShiftSpec

-----------------------------------------------------------------------------
\* Folders.

Unmoved == Undisturbed({"killed", "crashed", "clash", "revived", "late"})

Distinct(t) == DistinctNames(t) /\ DistinctRepos(t)

\* Every service of a table has its clone in the folder of its name.
Follows(f, t) == \A i \in DOMAIN t : f[t[i].name] = t[i].repo

\* A name of t that has a folder is the name of a service of u: no folder is in
\* the way when t is taken back.
NoStray(f, t, u) == \A i \in DOMAIN t : f[t[i].name] # Nothing => t[i].name \in Names(u)

\* Before it applies a shift an invocation keeps the folders at the names of its
\* own table, after that at those of the file it took back.
FoldersFree ==
    /\ pc = "off" => Follows(folder, projects) /\ NoStray(folder, shift.projects, projects)
    /\ pc # "off" /\ ~applied =>
         /\ Follows(folder, services)
         /\ NoStray(folder, projects, services)
         /\ NoStray(folder, shift.projects, services)
    /\ pc # "off" /\ applied => Follows(folder, projects)
    /\ pc \in {"jobs", "envs", "limits"} /\ ~applied => projects = services
AllDistinct == Distinct(projects) /\ Distinct(services) /\ Distinct(shift.projects)

FolderInv == Unmoved => AllDistinct /\ FoldersFree

LEMMA FolderInvInit == ShiftInit => FolderInv
<1> SUFFICES ASSUME ShiftInit PROVE AllDistinct /\ FoldersFree
  BY DEF FolderInv
<1>1. projects \in Seq(Record) /\ Distinct(projects)
  BY ResourcesAssumption DEF ShiftInit, Init, Distinct
<1>2. services = <<>> /\ shift.projects = <<>> /\ pc = "off"
  BY DEF ShiftInit, Init
<1>3. AllDistinct
  BY <1>1, <1>2 DEF AllDistinct, Distinct, DistinctNames, DistinctRepos
<1>4. Follows(folder, projects)
  <2> SUFFICES ASSUME NEW i \in DOMAIN projects PROVE folder[projects[i].name] = projects[i].repo
    BY DEF Follows
  <2>1. projects[i].name \in Name /\ projects[i].name \in Names(projects)
    BY <1>1, EntryTypes DEF Names
  <2>2. folder[projects[i].name] = projects[Index(projects, projects[i].name)].repo
    BY <2>1, HasIndex DEF ShiftInit, Init
  <2>3. Index(projects, projects[i].name) = i
    BY <1>1, <2>1, HasIndex DEF Distinct, DistinctNames
  <2>. QED BY <2>2, <2>3
<1>. QED BY <1>2, <1>3, <1>4 DEF FoldersFree, NoStray

\* A command that leaves folders and files, and names and repositories, alone.
SameClones(t, u) ==
    DOMAIN t = DOMAIN u /\ \A i \in DOMAIN t : u[i].name = t[i].name /\ u[i].repo = t[i].repo

LEMMA SameFolders ==
  ASSUME AllDistinct, FoldersFree, pc # "off", pc' \in {"main", "services", "restore"},
         UNCHANGED <<folder, applied, projects, shift>>, SameClones(services, services')
  PROVE  AllDistinct' /\ FoldersFree'
<1>1. Names(services') = Names(services)
  BY DEF SameClones, Names
<1>2. Distinct(services')
  BY DEF SameClones, AllDistinct, Distinct, DistinctNames, DistinctRepos
<1>3. AllDistinct'
  BY <1>2 DEF AllDistinct
<1>4. Follows(folder, services) => Follows(folder, services')
  BY DEF SameClones, Follows
<1>5. ~applied => /\ Follows(folder', services')
                  /\ NoStray(folder', projects', services')
                  /\ NoStray(folder', shift'.projects, services')
  BY <1>1, <1>4 DEF FoldersFree, NoStray
<1>6. applied => Follows(folder', projects')
  BY DEF FoldersFree
<1>. QED BY <1>3, <1>5, <1>6 DEF FoldersFree

LEMMA SameServices ==
  ASSUME AllDistinct, FoldersFree, pc # "off", pc' \in {"main", "services", "restore"},
         UNCHANGED <<folder, applied, projects, services, shift>>
  PROVE  AllDistinct' /\ FoldersFree'
<1>1. SameClones(services, services')
  BY DEF SameClones
<1>. QED BY <1>1, SameFolders

\* A command that changes names notes that it comes after a shift.
LEMMA NotLate == ASSUME ShiftInv, pc = "main", Note(Late), Unmoved' PROVE ~applied
<1>1. reformatState
  <2>1. "late" \notin happened'
    BY DEF Unmoved, Undisturbed
  <2>. QED BY <2>1 DEF Note, Late
<1>. QED BY <1>1 DEF ShiftInv, ShiftHoldsSaves

LEMMA FolderAdd ==
  ASSUME ShiftTypeOK, ShiftInv, AllDistinct, FoldersFree, Add, UNCHANGED shifted, Unmoved'
  PROVE  AllDistinct' /\ FoldersFree'
<1>0. /\ pc = "main" /\ ~applied /\ UNCHANGED <<projects, applied, shift>>
      /\ services \in Seq(Record) /\ folder \in [Name -> Repo \union {Nothing}]
  <2>1. pc = "main" /\ Note(Late) /\ UNCHANGED <<projects, applied, shift>>
    BY DEF Add, Command, files, flags, shifted
  <2>2. services \in Seq(Record) /\ folder \in [Name -> Repo \union {Nothing}]
    BY DEF ShiftTypeOK, TypeOK
  <2>. QED BY <2>1, <2>2, NotLate
<1>1. PICK n \in Name, r \in Repo :
        \/ /\ pc' = "services"
           /\ UNCHANGED <<folder, services>>
        \/ /\ \A i \in DOMAIN services : services[i].name # n /\ services[i].repo # r
           /\ folder[n] = Nothing
           /\ folder' = [folder EXCEPT ![n] = r]
           /\ services' = Append(services, [name |-> n, repo |-> r, pid |-> NoPid])
           /\ UNCHANGED pc
  BY DEF Add
<1>2. CASE pc' = "services" /\ UNCHANGED <<folder, services>>
  BY <1>0, <1>2, SameServices
<1>3. CASE /\ \A i \in DOMAIN services : services[i].name # n /\ services[i].repo # r
           /\ folder[n] = Nothing
           /\ folder' = [folder EXCEPT ![n] = r]
           /\ services' = Append(services, [name |-> n, repo |-> r, pid |-> NoPid])
           /\ UNCHANGED pc
  <2>1. PICK e : e = [name |-> n, repo |-> r, pid |-> NoPid]
    OBVIOUS
  <2>2. e.name = n /\ e.repo = r
    BY <2>1
  <2>3. /\ Len(services) \in Nat /\ DOMAIN services = 1..Len(services)
        /\ DOMAIN services' = 1..(Len(services) + 1) /\ services'[Len(services) + 1] = e
        /\ \A k \in 1..Len(services) : services'[k] = services[k]
    BY <1>0, <1>3, <2>1
  <2>4. \A k \in DOMAIN services' :
          \/ k \in DOMAIN services /\ services'[k] = services[k]
          \/ k = Len(services) + 1 /\ services'[k] = e
    BY <2>3
  <2>5. Distinct(services')
    BY <1>3, <2>2, <2>4 DEF AllDistinct, Distinct, DistinctNames, DistinctRepos
  <2>6. \A m \in Name : folder'[m] = IF m = n THEN r ELSE folder[m]
    BY <1>0, <1>3
  <2>7. \A k \in DOMAIN services : services[k].name \in Name
    BY <1>0, EntryTypes
  <2>8. Follows(folder', services')
    <3> SUFFICES ASSUME NEW k \in DOMAIN services'
                 PROVE  folder'[services'[k].name] = services'[k].repo
      BY DEF Follows
    <3>1. CASE k \in DOMAIN services /\ services'[k] = services[k]
      BY <1>0, <1>3, <2>6, <2>7, <3>1 DEF FoldersFree, Follows
    <3>2. CASE services'[k] = e
      BY <2>2, <2>6, <3>2
    <3>. QED BY <2>4, <3>1, <3>2
  <2>9. /\ n \in Names(services')
        /\ Names(services) \subseteq Names(services')
    <3>1. Len(services) + 1 \in DOMAIN services' /\ services'[Len(services) + 1].name = n
      BY <2>2, <2>3
    <3>2. \A k \in DOMAIN services : k \in DOMAIN services' /\ services'[k] = services[k]
      BY <2>3
    <3>. QED BY <3>1, <3>2 DEF Names
  <2>10. ASSUME NEW t \in Seq(Record), NoStray(folder, t, services)
         PROVE  NoStray(folder', t, services')
    <3> SUFFICES ASSUME NEW k \in DOMAIN t, folder'[t[k].name] # Nothing
                 PROVE  t[k].name \in Names(services')
      BY DEF NoStray
    <3>1. t[k].name \in Name
      BY EntryTypes
    <3>. QED BY <2>6, <2>9, <2>10, <3>1 DEF NoStray
  <2>11. projects \in Seq(Record) /\ shift.projects \in Seq(Record)
    BY DEF ShiftTypeOK, TypeOK
  <2>12. AllDistinct'
    BY <1>0, <2>5 DEF AllDistinct
  <2>13. NoStray(folder', projects, services') /\ NoStray(folder', shift.projects, services')
    BY <1>0, <2>10, <2>11 DEF FoldersFree
  <2>. QED BY <1>0, <1>3, <2>8, <2>12, <2>13 DEF FoldersFree
<1>. QED BY <1>1, <1>2, <1>3

LEMMA FolderRemove ==
  ASSUME ShiftTypeOK, ShiftInv, AllDistinct, FoldersFree, Remove, UNCHANGED shifted, Unmoved'
  PROVE  AllDistinct' /\ FoldersFree'
<1>0. /\ pc = "main" /\ pc' = "main" /\ ~applied /\ UNCHANGED <<projects, applied, shift>>
      /\ services \in Seq(Record) /\ folder \in [Name -> Repo \union {Nothing}]
  <2>1. pc = "main" /\ Note(Late) /\ UNCHANGED <<projects, applied, shift, pc>>
    BY DEF Remove, Command, files, shifted
  <2>2. services \in Seq(Record) /\ folder \in [Name -> Repo \union {Nothing}]
    BY DEF ShiftTypeOK, TypeOK
  <2>. QED BY <2>1, <2>2, NotLate
<1>1. PICK i \in DOMAIN services :
        /\ folder' = [folder EXCEPT ![services[i].name] = Nothing]
        /\ services' = Without(services, i)
  BY DEF Remove
<1>2. /\ \A k \in DOMAIN services' :
           Before(i, k) \in DOMAIN services \ {i} /\ services'[k] = services[Before(i, k)]
      /\ \A k, l \in DOMAIN services' : k # l => Before(i, k) # Before(i, l)
  <2>1. PICK u : u = Without(services, i)
    OBVIOUS
  <2>2. /\ \A k \in DOMAIN u :
             Before(i, k) \in DOMAIN services \ {i} /\ u[k] = services[Before(i, k)]
        /\ \A k, l \in DOMAIN u : k # l => Before(i, k) # Before(i, l)
    <3>1. services \in Seq(Record)
      BY <1>0
    <3>2. /\ Without(services, i) \in Seq(Record)
          /\ \A k \in DOMAIN Without(services, i) :
               /\ Before(i, k) \in DOMAIN services \ {i}
               /\ Without(services, i)[k] = services[Before(i, k)]
          /\ \A k, l \in DOMAIN Without(services, i) : k # l => Before(i, k) # Before(i, l)
      BY <3>1, WithoutEntries
    <3>. QED BY <2>1, <3>2, Zenon
  <2>. QED BY <1>1, <2>1, <2>2
<1>3. Distinct(services) /\ DistinctNames(services) /\ DistinctRepos(services)
  BY DEF AllDistinct, Distinct
<1>4. Names(services') = Names(services) \ {services[i].name}
  BY <1>0, <1>1, <1>3, WithoutTable
<1>5. Distinct(services')
  BY <1>2, <1>3 DEF Distinct, DistinctNames, DistinctRepos
<1>6. /\ services[i].name \in Name
      /\ \A m \in Name : folder'[m] = IF m = services[i].name THEN Nothing ELSE folder[m]
  BY <1>0, <1>1, EntryTypes
<1>7. Follows(folder', services')
  <2> SUFFICES ASSUME NEW k \in DOMAIN services'
               PROVE  folder'[services'[k].name] = services'[k].repo
    BY DEF Follows
  <2>1. PICK j \in DOMAIN services \ {i} : services'[k] = services[j]
    BY <1>2
  <2>2. services[j].name \in Name /\ services[j].name # services[i].name
    BY <1>0, <1>3, EntryTypes DEF DistinctNames
  <2>3. folder[services[j].name] = services[j].repo
    BY <1>0 DEF FoldersFree, Follows
  <2>. QED BY <1>6, <2>1, <2>2, <2>3
<1>8. ASSUME NEW t \in Seq(Record), NoStray(folder, t, services)
      PROVE  NoStray(folder', t, services')
  <2> SUFFICES ASSUME NEW k \in DOMAIN t, folder'[t[k].name] # Nothing
               PROVE  t[k].name \in Names(services')
    BY DEF NoStray
  <2>1. t[k].name \in Name
    BY EntryTypes
  <2>. QED BY <1>4, <1>6, <1>8, <2>1 DEF NoStray
<1>9. projects \in Seq(Record) /\ shift.projects \in Seq(Record)
  BY DEF ShiftTypeOK, TypeOK
<1>10. AllDistinct'
  BY <1>0, <1>5 DEF AllDistinct
<1>11. NoStray(folder', projects, services') /\ NoStray(folder', shift.projects, services')
  BY <1>0, <1>8, <1>9 DEF FoldersFree
<1>. QED BY <1>0, <1>7, <1>10, <1>11 DEF FoldersFree

LEMMA FolderRename ==
  ASSUME ShiftTypeOK, ShiftInv, AllDistinct, FoldersFree, Rename, UNCHANGED shifted, Unmoved'
  PROVE  AllDistinct' /\ FoldersFree'
<1>0. /\ pc = "main" /\ pc' = "main" /\ UNCHANGED <<projects, applied, shift>>
      /\ services \in Seq(Record) /\ folder \in [Name -> Repo \union {Nothing}]
  <2>1. services \in Seq(Record) /\ folder \in [Name -> Repo \union {Nothing}]
    BY DEF ShiftTypeOK, TypeOK
  <2>. QED BY <2>1 DEF Rename, Command, files, shifted
<1>1. PICK i \in DOMAIN services, new \in Name, lost \in SUBSET {"lost"} :
        /\ MovesFolder(services[i].name, new)
        /\ \/ /\ folder' = Moved(services[i].name, new)
              /\ services' = [services EXCEPT ![i].name = new]
              /\ Note(Late \union lost)
           \/ UNCHANGED <<folder, services>>
  BY DEF Rename
<1>2. CASE UNCHANGED <<folder, services>>
  BY <1>0, <1>2, SameServices
<1>3. CASE /\ folder' = Moved(services[i].name, new)
           /\ services' = [services EXCEPT ![i].name = new]
           /\ Note(Late \union lost)
  <2>1. ~applied
    <3>1. "late" \notin Late
      <4>1. "late" \notin happened' /\ Late \subseteq happened'
        BY <1>3 DEF Unmoved, Undisturbed, Note
      <4>. QED BY <4>1
    <3>2. reformatState
      BY <3>1 DEF Late
    <3>. QED BY <1>0, <3>2 DEF ShiftInv, ShiftHoldsSaves
  <2>2. PICK old : old = services[i].name
    OBVIOUS
  <2>3. old \in Name /\ services[i].repo \in Repo
    BY <1>0, <2>2, EntryTypes
  <2>4. CASE new = old
    <3>1. folder' = folder
      BY <1>3, <2>2, <2>4 DEF Moved
    <3>2. SameClones(services, services')
      BY <1>0, <1>3, <2>2, <2>4, EntryTypes DEF SameClones
    <3>. QED BY <1>0, <3>1, <3>2, SameFolders
  <2>5. CASE new # old
    <3>1. folder[old] # Nothing /\ folder[new] = Nothing
      BY <1>1, <2>2, <2>5 DEF MovesFolder
    <3>2. \A m \in Name : folder'[m] = IF m = old THEN Nothing
                                       ELSE IF m = new THEN folder[old] ELSE folder[m]
      BY <1>0, <1>3, <2>2, <2>3, <2>5 DEF Moved
    <3>3. \A k \in DOMAIN services : services[k].name \in Name /\ services[k].repo \in Repo
      BY <1>0, EntryTypes
    <3>4. \A k \in DOMAIN services : folder[services[k].name] = services[k].repo
      BY <1>0, <2>1 DEF FoldersFree, Follows
    <3>5. /\ DOMAIN services' = DOMAIN services
          /\ services'[i].name = new /\ services'[i].repo = services[i].repo
          /\ \A k \in DOMAIN services \ {i} : services'[k] = services[k]
      <4>1. services[i] \in Record
        BY <1>0
      <4>. QED BY <1>3, <4>1 DEF Record
    <3>6. \A k \in DOMAIN services \ {i} : services[k].name # old /\ services[k].name # new
      <4>1. \A k \in DOMAIN services \ {i} : services[k].name # old
        BY <2>2 DEF AllDistinct, Distinct, DistinctNames
      <4>2. \A k \in DOMAIN services : services[k].name # new
        BY <3>1, <3>3, <3>4, ResourcesAssumption
      <4>. QED BY <4>1, <4>2
    <3>7. DistinctNames(services')
      BY <3>5, <3>6 DEF AllDistinct, Distinct, DistinctNames
    <3>8. DistinctRepos(services')
      BY <3>5 DEF AllDistinct, Distinct, DistinctRepos
    <3>9. Follows(folder', services')
      <4> SUFFICES ASSUME NEW k \in DOMAIN services
                   PROVE  folder'[services'[k].name] = services'[k].repo
        BY <3>5 DEF Follows
      <4>1. CASE k = i
        BY <2>2, <2>5, <3>2, <3>4, <3>5, <4>1
      <4>2. CASE k # i
        BY <3>2, <3>3, <3>4, <3>5, <3>6, <4>2
      <4>. QED BY <4>1, <4>2
    <3>10. ASSUME NEW x \in Names(services) \union {new}, x # old PROVE x \in Names(services')
      <4>1. CASE x = new
        BY <3>5, <4>1 DEF Names
      <4>2. CASE x \in Names(services)
        <5>1. PICK k \in DOMAIN services : services[k].name = x
          BY <4>2 DEF Names
        <5>2. k # i
          BY <2>2, <3>10, <5>1
        <5>. QED BY <3>5, <5>1, <5>2 DEF Names
      <4>. QED BY <4>1, <4>2
    <3>11. ASSUME NEW t \in Seq(Record), NoStray(folder, t, services)
           PROVE  NoStray(folder', t, services')
      <4> SUFFICES ASSUME NEW k \in DOMAIN t, folder'[t[k].name] # Nothing
                   PROVE  t[k].name \in Names(services')
        BY DEF NoStray
      <4>1. t[k].name \in Name
        BY EntryTypes
      <4>2. t[k].name # old
        BY <3>2, <4>1
      <4>3. t[k].name = new \/ folder[t[k].name] # Nothing
        BY <3>2, <4>1, <4>2
      <4>4. t[k].name \in Names(services) \union {new}
        BY <3>11, <4>3 DEF NoStray
      <4>. QED BY <3>10, <4>2, <4>4
    <3>12. projects \in Seq(Record) /\ shift.projects \in Seq(Record)
      BY DEF ShiftTypeOK, TypeOK
    <3>13. AllDistinct'
      BY <1>0, <3>7, <3>8 DEF AllDistinct, Distinct
    <3>14. NoStray(folder', projects, services') /\ NoStray(folder', shift.projects, services')
      BY <1>0, <2>1, <3>11, <3>12 DEF FoldersFree
    <3>. QED BY <1>0, <2>1, <3>9, <3>13, <3>14 DEF FoldersFree
  <2>. QED BY <2>4, <2>5
<1>. QED BY <1>1, <1>2, <1>3

LEMMA FolderCommand ==
  ASSUME ShiftTypeOK, ShiftInv, AllDistinct, FoldersFree, CommandStep, UNCHANGED shifted, Unmoved'
  PROVE  AllDistinct' /\ FoldersFree'
<1>0. services \in Seq(Record) /\ UNCHANGED shift
  BY DEF ShiftTypeOK, TypeOK, shifted
<1>1. CASE NotThere
  BY <1>0, <1>1, SameServices DEF NotThere, Command, files, machine, tables
<1>2. CASE Run \/ Stop \/ Restart
  <2>1. /\ pc = "main" /\ pc' \in {"main", "services"}
        /\ UNCHANGED <<folder, applied, projects>>
    BY <1>2 DEF Run, Stop, Restart, Command, files, flags
  <2>2. PICK i \in DOMAIN services, p \in Pid \union {NoPid} :
          services' = [services EXCEPT ![i].pid = p]
    BY <1>2 DEF Run, Spawn, Stop, Restart
  <2>3. services[i] \in Record
    BY <1>0
  <2>4. SameClones(services, services')
    BY <2>2, <2>3 DEF SameClones, Record
  <2>. QED BY <1>0, <2>1, <2>4, SameFolders
<1>3. CASE SetLimit
  <2>1. PICK i \in DOMAIN services, kind \in Kind,
             cpu \in Cpu \union {0}, mem \in Mem \union {0} :
          \E r \in IF cpu = 0 THEN SetMemoryLimit(services[i], mem, kind)
                   ELSE SetCpuResourceLimit(services[i], cpu, mem, kind) :
            pc' = IF r.ok THEN "main" ELSE "services"
    BY <1>3 DEF SetLimit
  <2>2. /\ pc = "main" /\ pc' \in {"main", "services"}
        /\ UNCHANGED <<folder, applied, projects, services>>
    BY <1>3, <2>1 DEF SetLimit, Command, files
  <2>. QED BY <1>0, <2>2, SameServices
<1>4. CASE SetLimitOfNobody
  <2>1. /\ pc = "main" /\ pc' \in {"main", "services"}
        /\ UNCHANGED <<folder, applied, projects, services>>
    BY <1>4 DEF SetLimitOfNobody, Command, files, machine, tables
  <2>. QED BY <1>0, <2>1, SameServices
<1>5. CASE AddEnv \/ UpdateEnv \/ RemoveEnv \/ Refuse \/ EditJobs
  <2>1. /\ pc = "main" /\ pc' \in {"main", "services"}
        /\ UNCHANGED <<folder, applied, projects, services>>
    BY <1>5 DEF AddEnv, UpdateEnv, RemoveEnv, Refuse, EditJobs, Command, files, machine,
                tables, flags
  <2>. QED BY <1>0, <2>1, SameServices
<1>6. CASE AddToNothing \/ RestartCrashes \/ AddEnvToNothing
  <2>1. "crashed" \in happened'
    BY <1>6 DEF AddToNothing, RestartCrashes, AddEnvToNothing, Crash, Note
  <2>. QED BY <2>1 DEF Unmoved, Undisturbed
<1>. QED BY <1>1, <1>2, <1>3, <1>4, <1>5, <1>6, FolderAdd, FolderRemove, FolderRename
         DEF CommandStep

LEMMA FolderEnds ==
  ASSUME ShiftInv, AllDistinct, FoldersFree, Destructor, UNCHANGED shifted
  PROVE  AllDistinct' /\ FoldersFree'
<1>0. UNCHANGED shift /\ (pc # "off" => (applied <=> ~reformatState))
  BY DEF shifted, ShiftInv, ShiftHoldsSaves
<1>1. CASE Return
  <2>1. pc = "main" /\ pc' = "services" /\ UNCHANGED <<folder, applied, projects, services>>
    BY <1>1 DEF Return, files, machine, tables, flags
  <2>. QED BY <1>0, <2>1, SameServices
<1>2. CASE SaveServices
  <2>1. /\ pc = "services" /\ pc' = "jobs" /\ UNCHANGED <<folder, applied, services>>
        /\ projects' = IF applied THEN projects ELSE services
    BY <1>0, <1>2 DEF SaveServices, machine, tables, flags
  <2>2. AllDistinct'
    BY <1>0, <2>1 DEF AllDistinct
  <2>3. ~applied => NoStray(folder', projects', services')
    BY <2>1 DEF NoStray, Names
  <2>. QED BY <1>0, <2>1, <2>2, <2>3 DEF FoldersFree
<1>3. CASE SaveJobs \/ SaveEnvs
  <2>1. /\ pc \in {"jobs", "envs"} /\ pc' \in {"envs", "limits"}
        /\ UNCHANGED <<folder, applied, services, projects>>
    BY <1>3 DEF SaveJobs, SaveEnvs, machine, tables, flags
  <2>. QED BY <1>0, <2>1 DEF AllDistinct, FoldersFree
<1>4. CASE SaveLimits
  <2>1. /\ pc = "limits" /\ pc' = "off" /\ UNCHANGED <<folder, applied, projects>>
        /\ services' = <<>>
    BY <1>4 DEF SaveLimits, Off
  <2>2. AllDistinct'
    BY <1>0, <2>1 DEF AllDistinct, Distinct, DistinctNames, DistinctRepos
  <2>3. ~applied => Follows(folder, projects) /\ NoStray(folder, shift.projects, projects)
    BY <2>1 DEF FoldersFree
  <2>4. applied => Follows(folder, projects) /\ NoStray(folder, shift.projects, projects)
    <3> SUFFICES ASSUME applied PROVE Follows(folder, projects)
                                      /\ NoStray(folder, shift.projects, projects)
      OBVIOUS
    <3>1. Follows(folder, projects)
      BY <2>1 DEF FoldersFree
    <3>2. projects = CopyOver(shift.projects, projects, <<>>)
      BY DEF ShiftInv, RestoredSoFar, TakenBack
    <3>3. shift.projects = <<>> \/ shift.projects = projects
      BY <3>2 DEF CopyOver
    <3>4. NoStray(folder, shift.projects, projects)
      BY <3>3 DEF NoStray, Names
    <3>. QED BY <3>1, <3>4
  <2>. QED BY <1>0, <2>1, <2>2, <2>3, <2>4 DEF FoldersFree
<1>. QED BY <1>1, <1>2, <1>3, <1>4 DEF Destructor

\* How far the loop has come: a service of the file is at its name, or is still to
\* be moved there from the name the array has for it, and nothing is in its way.
Ahead(f, n, t) ==
    \A k \in DOMAIN t :
        \/ f[t[k].name] = t[k].repo
        \/ /\ k > n
           /\ f[t[k].name] = Nothing
           /\ \E j \in DOMAIN services : services[j].repo = t[k].repo
                                           /\ f[services[j].name] = t[k].repo

LEMMA AheadStep ==
  ASSUME services \in Seq(Record), DistinctRepos(services),
         NEW t \in Seq(Record), Distinct(t), NEW m \in Places,
         NEW n \in 0..(Len(t) - 1), Ahead(m.folder, n, t)
  PROVE  Ahead(FollowName(m, t[n + 1]).folder, n + 1, t)
<1>0. /\ Len(t) \in Nat /\ DOMAIN t = 1..Len(t) /\ n + 1 \in DOMAIN t /\ n \in Nat
      /\ \A k \in DOMAIN t : k \in Nat
  OBVIOUS
<1>1. PICK s : s = t[n + 1]
  OBVIOUS
<1>2. PICK f : f = m.folder
  OBVIOUS
<1>3. PICK g : g = FollowName(m, s).folder
  OBVIOUS
<1>4. s \in Record /\ s.name \in Name /\ s.repo \in Repo
  BY <1>0, <1>1, EntryTypes
<1>5. f \in [Name -> Repo \union {Nothing}]
  BY <1>2 DEF Places
<1>6. \A j \in DOMAIN services : services[j].name \in Name /\ services[j].repo \in Repo
  BY EntryTypes
<1>7. \A k \in DOMAIN t : t[k].name \in Name /\ t[k].repo \in Repo
  BY EntryTypes
<1>8. Nothing \notin Repo
  BY ResourcesAssumption
<1>9. g = IF Renamed(s) = {} THEN f
          ELSE LET old == services[CHOOSE i \in Renamed(s) : TRUE].name IN
               IF f[old] # Nothing /\ f[s.name] = Nothing
               THEN [f EXCEPT ![s.name] = f[old], ![old] = Nothing]
               ELSE f
  BY <1>2, <1>3, <1>4, FollowNameFacts
<1>10. CASE f[s.name] = s.repo
  <2>1. f[s.name] # Nothing
    BY <1>4, <1>8, <1>10
  <2>2. g = f
    BY <1>9, <2>1
  <2>3. \A k \in DOMAIN t : k > n /\ f[t[k].name] = Nothing => k > n + 1
    <3> SUFFICES ASSUME NEW k \in DOMAIN t, k > n, f[t[k].name] = Nothing PROVE k > n + 1
      OBVIOUS
    <3>1. k # n + 1
      BY <1>1, <2>1
    <3>. QED BY <1>0, <3>1
  <2>. QED BY <1>1, <1>2, <1>3, <2>2, <2>3 DEF Ahead
<1>11. CASE f[s.name] # s.repo
  <2>1. /\ f[s.name] = Nothing
        /\ \E j \in DOMAIN services : services[j].repo = s.repo /\ f[services[j].name] = s.repo
    BY <1>0, <1>1, <1>2, <1>11 DEF Ahead
  <2>2. PICK j \in DOMAIN services : services[j].repo = s.repo /\ f[services[j].name] = s.repo
    BY <2>1
  <2>3. Renamed(s) = {j}
    <3>1. services[j].name # s.name
      BY <1>11, <2>2
    <3>. QED BY <2>2, <3>1 DEF Renamed, DistinctRepos
  <2>4. PICK old : old = services[j].name
    OBVIOUS
  <2>5. old \in Name /\ f[old] = s.repo /\ old # s.name
    BY <1>6, <1>11, <2>2, <2>4
  <2>6. g = [f EXCEPT ![s.name] = f[old], ![old] = Nothing]
    <3>1. services[CHOOSE i \in Renamed(s) : TRUE].name = old
      BY <2>3, <2>4
    <3>2. f[old] # Nothing
      BY <1>4, <1>8, <2>5
    <3>. QED BY <1>9, <2>1, <2>3, <3>1, <3>2
  <2>7. \A x \in Name : g[x] = IF x = old THEN Nothing ELSE IF x = s.name THEN s.repo ELSE f[x]
    BY <1>4, <1>5, <2>5, <2>6
  <2>8. ASSUME NEW k \in DOMAIN t
        PROVE  \/ g[t[k].name] = t[k].repo
               \/ /\ k > n + 1
                  /\ g[t[k].name] = Nothing
                  /\ \E i \in DOMAIN services : services[i].repo = t[k].repo
                                                  /\ g[services[i].name] = t[k].repo
    <3>1. CASE k = n + 1
      BY <1>1, <1>4, <2>5, <2>7, <3>1
    <3>2. CASE k # n + 1
      <4>1. t[k].name # s.name /\ t[k].repo # s.repo
        BY <1>0, <1>1, <3>2 DEF Distinct, DistinctNames, DistinctRepos
      <4>2. CASE f[t[k].name] = t[k].repo
        <5>1. t[k].name # old
          BY <2>5, <4>1, <4>2
        <5>. QED BY <1>7, <2>7, <4>1, <4>2, <5>1
      <4>3. CASE f[t[k].name] # t[k].repo
        <5>1. /\ k > n /\ f[t[k].name] = Nothing
              /\ \E i \in DOMAIN services : services[i].repo = t[k].repo
                                              /\ f[services[i].name] = t[k].repo
          BY <1>2, <4>3 DEF Ahead
        <5>2. PICK i \in DOMAIN services : services[i].repo = t[k].repo
                                             /\ f[services[i].name] = t[k].repo
          BY <5>1
        <5>3. services[i].name # old /\ services[i].name # s.name
          BY <1>7, <1>8, <2>1, <2>5, <4>1, <5>2
        <5>4. g[services[i].name] = t[k].repo
          BY <1>6, <2>7, <5>2, <5>3
        <5>5. g[t[k].name] = Nothing
          BY <1>7, <2>7, <4>1, <5>1
        <5>6. k > n + 1
          BY <1>0, <3>2, <5>1
        <5>. QED BY <5>2, <5>4, <5>5, <5>6
      <4>. QED BY <4>2, <4>3
    <3>. QED BY <3>1, <3>2
  <2>9. Ahead(g, n + 1, t)
    BY <2>8 DEF Ahead
  <2>. QED BY <1>1, <1>3, <2>9
<1>. QED BY <1>10, <1>11

LEMMA FollowNamesFollows ==
  ASSUME services \in Seq(Record), DistinctRepos(services),
         NEW t \in Seq(Record), Distinct(t), NEW m \in Places, Ahead(m.folder, 0, t)
  PROVE  Follows(FollowNames(m, t).folder, t)
<1>1. Len(t) \in Nat /\ DOMAIN t = 1..Len(t)
  OBVIOUS
<1>2. PICK after : Chain(after, Len(t), m, t) /\ FollowNames(m, t) = after[Len(t)]
  BY <1>1, FollowNamesChain
<1> DEFINE T == {n \in 0..Len(t) : after[n] \in Places /\ Ahead(after[n].folder, n, t)}
<1>3. 0 \in T
  BY <1>1, <1>2 DEF Chain
<1>4. ASSUME NEW n \in 0..(Len(t) - 1), n \in T PROVE n + 1 \in T
  <2>1. n + 1 \in 1..Len(t) /\ (n + 1) - 1 = n
    BY <1>1
  <2>2. after[n + 1] = FollowName(after[n], t[n + 1])
    BY <1>2, <2>1 DEF Chain
  <2>3. t[n + 1] \in Record
    BY <1>1, <2>1
  <2>4. after[n] \in Places /\ Ahead(after[n].folder, n, t)
    BY <1>4
  <2>5. FollowName(after[n], t[n + 1]) \in Places
    BY <2>3, <2>4, FollowNameFacts
  <2>6. Ahead(FollowName(after[n], t[n + 1]).folder, n + 1, t)
    BY <2>4, AheadStep
  <2>. QED BY <2>1, <2>2, <2>5, <2>6
<1>5. 0..Len(t) \subseteq T
  <2> HIDE DEF T
  <2>. QED BY <1>1, <1>3, <1>4, NumbersUpTo
<1>6. Len(t) \in T
  BY <1>1, <1>5
<1>7. Ahead(FollowNames(m, t).folder, Len(t), t)
  BY <1>2, <1>6
<1>. QED BY <1>1, <1>7 DEF Ahead, Follows

LEMMA FolderShift ==
  ASSUME ShiftTypeOK, ShiftInv, AllDistinct, FoldersFree,
         Create \/ Apply \/ Restore \/ Applied, Unmoved'
  PROVE  AllDistinct' /\ FoldersFree'
<1>0. /\ services \in Seq(Record) /\ projects \in Seq(Record)
      /\ folder \in [Name -> Repo \union {Nothing}] /\ cgroup \in Cgroups
  BY DEF ShiftTypeOK, TypeOK
<1>1. CASE Create
  <2>1. /\ pc = "main" /\ pc' = "main" /\ UNCHANGED <<folder, applied, projects, services>>
        /\ shift'.projects \in {projects, shift.projects}
    BY <1>1 DEF Create, Command, files, machine, tables, flags, CopyOver
  <2>2. AllDistinct'
    BY <2>1 DEF AllDistinct
  <2>. QED BY <2>1, <2>2 DEF FoldersFree
<1>2. CASE Apply
  <2>1. /\ pc = "main" /\ pc' = "restore"
        /\ UNCHANGED <<folder, applied, projects, services, shift>>
    BY <1>2 DEF Apply, Command, files, machine, tables, flags
  <2>. QED BY <2>1, SameServices
<1>3. CASE Restore
  <2>1. /\ pc = "restore" /\ pc' = "restore"
        /\ UNCHANGED <<folder, applied, services, shift>>
        /\ projects' \in {CopyOver(shift.projects, projects, <<>>), projects}
    BY <1>3 DEF Restore, machine, tables, flags
  <2>2. projects' \in {shift.projects, projects}
    BY <2>1 DEF CopyOver
  <2>3. applied => projects' = projects
    BY <2>1 DEF ShiftInv, RestoredSoFar, TakenBack
  <2>4. AllDistinct'
    BY <2>1, <2>2 DEF AllDistinct
  <2>. QED BY <2>1, <2>2, <2>3, <2>4 DEF FoldersFree
<1>4. CASE Applied
  <2>1. PICK m : m = [folder |-> folder, cgroup |-> cgroup]
    OBVIOUS
  <2>2. m \in Places /\ m.folder = folder
    BY <1>0, <2>1 DEF Places
  <2>3. /\ pc = "restore" /\ pc' = "main" /\ applied' = TRUE
        /\ folder' = FollowNames(m, projects).folder
        /\ UNCHANGED <<projects, services, shift>>
    BY <1>4, <2>1 DEF Applied, files, tables, shifted
  <2>4. /\ ~\E i \in DOMAIN projects, j \in DOMAIN services :
              /\ services[j].name = projects[i].name
              /\ services[j].repo # projects[i].repo
        /\ ~\E i \in DOMAIN projects : \A j \in DOMAIN services :
              services[j].repo # projects[i].repo
    <3>1. "clash" \notin happened' /\ "revived" \notin happened'
      BY DEF Unmoved, Undisturbed
    <3>. QED BY <1>4, <3>1 DEF Applied, Note
  <2>5. Ahead(folder, 0, projects)
    <3> SUFFICES ASSUME NEW k \in DOMAIN projects, folder[projects[k].name] # projects[k].repo
                 PROVE  /\ k > 0 /\ folder[projects[k].name] = Nothing
                        /\ \E j \in DOMAIN services :
                             /\ services[j].repo = projects[k].repo
                             /\ folder[services[j].name] = projects[k].repo
      BY DEF Ahead
    <3>1. ~applied
      BY <2>3 DEF FoldersFree, Follows
    <3>2. Follows(folder, services) /\ NoStray(folder, projects, services)
      BY <2>3, <3>1 DEF FoldersFree
    <3>3. PICK j \in DOMAIN services : services[j].repo = projects[k].repo
      BY <2>4
    <3>4. folder[services[j].name] = projects[k].repo
      BY <3>2, <3>3 DEF Follows
    <3>5. folder[projects[k].name] = Nothing
      <4>1. SUFFICES ASSUME folder[projects[k].name] # Nothing PROVE FALSE
        OBVIOUS
      <4>2. PICK i \in DOMAIN services : services[i].name = projects[k].name
        BY <3>2, <4>1 DEF NoStray, Names
      <4>3. services[i].repo = projects[k].repo
        BY <2>4, <4>2
      <4>. QED BY <3>2, <4>2, <4>3 DEF Follows
    <3>6. k > 0
      BY <1>0
    <3>. QED BY <3>3, <3>4, <3>5, <3>6
  <2>6. Follows(folder', projects)
    BY <1>0, <2>2, <2>3, <2>5, FollowNamesFollows DEF AllDistinct, Distinct
  <2>7. AllDistinct'
    BY <2>3 DEF AllDistinct
  <2>. QED BY <2>3, <2>6, <2>7 DEF FoldersFree
<1>. QED BY <1>1, <1>2, <1>3, <1>4

LEMMA ShiftHappened ==
  ASSUME [ShiftNext]_allVars PROVE happened \subseteq happened'
<1>1. CASE Next \/ UNCHANGED allVars
  BY <1>1, HappenedStays DEF allVars
<1>. QED BY <1>1 DEF ShiftNext, Create, Apply, Restore, Applied, Note

LEMMA FolderStep == ShiftTypeOK /\ ShiftInv /\ FolderInv /\ [ShiftNext]_allVars => FolderInv'
<1> SUFFICES ASSUME ShiftTypeOK, ShiftInv, FolderInv, [ShiftNext]_allVars, Unmoved'
             PROVE  AllDistinct' /\ FoldersFree'
  BY DEF FolderInv
<1>1. AllDistinct /\ FoldersFree
  BY ShiftHappened DEF FolderInv, Unmoved, Undisturbed
<1>2. CASE UNCHANGED allVars
  BY <1>1, <1>2 DEF allVars, vars, files, machine, tables, flags, shifted, AllDistinct,
                    FoldersFree
<1>3. CASE Begin /\ UNCHANGED shifted
  <2>1. /\ pc = "off" /\ pc' = "main" /\ services' = projects /\ applied' = FALSE
        /\ UNCHANGED <<projects, folder, shift>>
    BY <1>3 DEF Begin, files, machine, shifted
  <2>2. NoStray(folder, projects, projects)
    BY DEF NoStray, Names
  <2>3. AllDistinct'
    BY <1>1, <2>1 DEF AllDistinct
  <2>. QED BY <1>1, <2>1, <2>2, <2>3 DEF FoldersFree
<1>4. CASE Kill
  <2>1. "killed" \in happened'
    BY <1>4 DEF Kill, Note
  <2>. QED BY <2>1 DEF Unmoved, Undisturbed
<1>5. ASSUME NEW p \in Pid, Die(p), UNCHANGED shifted PROVE AllDistinct' /\ FoldersFree'
  <2>1. UNCHANGED <<projects, services, folder, applied, pc, shift>>
    BY <1>5 DEF Die, files, tables, flags, shifted
  <2>. QED BY <1>1, <2>1 DEF AllDistinct, FoldersFree
<1>. QED BY <1>1, <1>2, <1>3, <1>4, <1>5, FolderCommand, FolderEnds, FolderShift
         DEF ShiftNext, Next

\* Records and folders never part, through adds, removes and renames, failed
\* ones, and time shifts applied again and again, with the exceptions the
\* property names.
THEOREM FoldersStayInStep == ShiftSpec => []FoldersFollow
<1>1. FolderInv => FoldersFollow
  BY DEF FolderInv, FoldersFree, Follows, FoldersFollow, AtRest, Unmoved
<1>. QED BY ShiftTypesInit, ShiftTypesStep, ShiftInvInit, ShiftInvStep, FolderInvInit,
            FolderStep, <1>1, PTL DEF ShiftSpec

-----------------------------------------------------------------------------
\* The limits on disk are those of the cgroups.

LEMMA HoldInvInit == ShiftInit => HoldInv
<1> SUFFICES ASSUME ShiftInit PROVE Pairs(cgroup) /\ Held(limits, cgroup) /\ pc = "off"
  BY DEF HoldInv
<1>1. /\ pc = "off" /\ limits = <<>>
      /\ cgroup = [cpu |-> [n \in Name |-> Nothing], mem |-> [n \in Name |-> Nothing],
                   cpuOf |-> [p \in Who |-> Nothing], memOf |-> [p \in Who |-> Nothing]]
  BY DEF ShiftInit, Init
<1>2. Entries(limits) = {}
  BY <1>1 DEF Entries
<1>. QED BY <1>1, <1>2 DEF Pairs, Held

\* A step that changes neither the limits nor the tables of the limits.
LEMMA HoldStill ==
  ASSUME HoldInv, Holding, pc # "off", pc' # "off", limitTable' = limitTable,
         SameLimits(cgroup, cgroup')
  PROVE  HoldInv'
<1>1. Pairs(cgroup) /\ Held(limitTable, cgroup)
  BY DEF HoldInv
<1>2. Pairs(cgroup')
  BY <1>1, PairsStill
<1>3. Held(limitTable', cgroup')
  BY <1>1, HeldStill
<1>. QED BY <1>2, <1>3 DEF HoldInv

LEMMA HoldingBefore == ASSUME [ShiftNext]_allVars, Holding' PROVE Holding
  BY ShiftHappened DEF Holding, Undisturbed

LEMMA HoldCommand ==
  ASSUME TypeOK, TablesInv, HoldInv, Holding, CommandStep, Holding'
  PROVE  HoldInv'
<1>1. pc = "main"
  BY DEF CommandStep, Add, AddToNothing, Remove, Rename, NotThere, Run, Stop, Restart,
         RestartCrashes, SetLimit, SetLimitOfNobody, AddEnv, AddEnvToNothing, UpdateEnv,
         RemoveEnv, Refuse, EditJobs, Command
<1>2. Arrays /\ Pairs(cgroup) /\ Held(limitTable, cgroup)
  BY <1>1, ArraysSound DEF HoldInv
<1>3. CASE Remove \/ Rename \/ Run \/ Stop \/ Restart \/ SetLimit
  <2>1. Pairs(cgroup') /\ Held(limitTable', cgroup')
    BY <1>2, <1>3, HeldRemove, HeldRename, HeldProcess, HeldSetLimit
  <2>2. pc' # "off"
    BY <1>1, <1>3 DEF Remove, Rename, Run, Stop, Restart, SetLimit
  <2>. QED BY <2>1, <2>2 DEF HoldInv
<1>4. CASE Add \/ NotThere \/ SetLimitOfNobody \/ AddEnv \/ UpdateEnv \/ RemoveEnv
             \/ Refuse \/ EditJobs
  <2>1. pc' # "off" /\ limitTable' = limitTable /\ cgroup' = cgroup
    BY <1>1, <1>4 DEF Add, NotThere, SetLimitOfNobody, AddEnv, UpdateEnv, RemoveEnv,
                      Refuse, EditJobs, machine, tables
  <2>. QED BY <1>1, <2>1, HoldStill DEF SameLimits
<1>5. CASE AddToNothing \/ RestartCrashes \/ AddEnvToNothing
  <2>1. "crashed" \in happened'
    BY <1>5 DEF AddToNothing, RestartCrashes, AddEnvToNothing, Crash, Note
  <2>. QED BY <2>1 DEF Holding, Undisturbed
<1>. QED BY <1>3, <1>4, <1>5 DEF CommandStep

LEMMA HoldStep ==
  ShiftTypeOK /\ TablesInv /\ ShiftInv /\ HoldInv /\ [ShiftNext]_allVars => HoldInv'
<1> SUFFICES ASSUME ShiftTypeOK, TablesInv, ShiftInv, HoldInv, [ShiftNext]_allVars, Holding'
             PROVE  HoldInv'
  BY DEF HoldInv
<1>1. Holding /\ TypeOK /\ cgroup \in Cgroups
  BY HoldingBefore DEF ShiftTypeOK, TypeOK
<1>2. CASE UNCHANGED allVars
  BY <1>1, <1>2 DEF allVars, vars, files, machine, tables, HoldInv
<1>3. CASE Begin
  <2>1. /\ pc = "off" /\ pc' = "main" /\ limitTable' = limits /\ cgroup' = cgroup
    BY <1>3 DEF Begin, machine
  <2>. QED BY <1>1, <2>1 DEF HoldInv
<1>4. CASE CommandStep
  BY <1>1, <1>4, HoldCommand
<1>5. CASE Return \/ SaveServices \/ SaveJobs \/ SaveEnvs
  <2>1. pc # "off" /\ pc' # "off" /\ limitTable' = limitTable /\ cgroup' = cgroup
    BY <1>5 DEF Return, SaveServices, SaveJobs, SaveEnvs, machine, tables
  <2>. QED BY <1>1, <2>1, HoldStill DEF SameLimits
<1>6. CASE SaveLimits
  <2>1. /\ pc = "limits" /\ pc' = "off" /\ cgroup' = Leave(cgroup, Mrn)
        /\ limits' = IF reformatLimits THEN limitTable ELSE limits
    BY <1>6 DEF SaveLimits, Off
  <2>2. "unsaved" \notin happened
    BY <1>1 DEF Holding, Undisturbed
  <2>3. limits' = limitTable
    BY <2>1, <2>2 DEF ShiftInv, SavedSoFar
  <2>4. SameLimits(cgroup, cgroup')
    BY <1>1, <2>1, LeaveFacts DEF Who
  <2>5. Pairs(cgroup) /\ Held(limitTable, cgroup)
    BY <1>1, <2>1 DEF HoldInv
  <2>6. Pairs(cgroup')
    BY <2>4, <2>5, PairsStill
  <2>7. Held(limits', cgroup')
    BY <2>3, <2>4, <2>5, HeldStill
  <2>. QED BY <2>1, <2>6, <2>7 DEF HoldInv
<1>7. CASE Kill
  <2>1. "killed" \in happened'
    BY <1>7 DEF Kill, Note
  <2>. QED BY <2>1 DEF Holding, Undisturbed
<1>8. ASSUME NEW p \in Pid, Die(p) PROVE HoldInv'
  <2>1. /\ cgroup' = Leave(cgroup, p)
        /\ pc' = pc /\ limits' = limits /\ limitTable' = limitTable
    BY <1>8 DEF Die, files, tables
  <2>2. SameLimits(cgroup, cgroup')
    BY <1>1, <2>1, LeaveFacts DEF Who
  <2>3. Pairs(cgroup')
    BY <1>1, <2>2, PairsStill DEF HoldInv
  <2>4. /\ pc' = "off" => Held(limits', cgroup')
        /\ pc' # "off" => Held(limitTable', cgroup')
    BY <1>1, <2>1, <2>2, HeldStill DEF HoldInv
  <2>. QED BY <2>3, <2>4 DEF HoldInv
<1>9. CASE Create \/ Apply \/ Restore
  <2>1. pc # "off" /\ pc' # "off" /\ limitTable' = limitTable /\ cgroup' = cgroup
    BY <1>9 DEF Create, Apply, Restore, Command, machine, tables
  <2>. QED BY <1>1, <2>1, HoldStill DEF SameLimits
<1>10. CASE Applied
  <2>1. "shifted" \in happened'
    BY <1>10 DEF Applied, Note
  <2>. QED BY <2>1 DEF Holding, Undisturbed
<1>. QED BY <1>2, <1>3, <1>4, <1>5, <1>6, <1>7, <1>8, <1>9, <1>10
         DEF ShiftNext, Next, Destructor

\* What the limits file says and what the kernel enforces come from one number of
\* cores and one of bytes, through removals that leave a cgroup behind, renames
\* that copy it or find none, later limits that overwrite one of the two, and a
\* set function that fails after its writes, with the exceptions the property
\* names.
THEOREM FileLimitsAreEnforced == ShiftSpec => []LimitsAreEnforced
<1>1. HoldInv => LimitsAreEnforced
  <2> SUFFICES ASSUME HoldInv, AtRest, Holding, NEW i \in DOMAIN limits
               PROVE  /\ limits[i].cpu # 0 => OfOneAmount(limits[i].cpu, cgroup.cpu[limits[i].name])
                      /\ limits[i].mem # 0 => cgroup.mem[limits[i].name] = limits[i].mem
    BY DEF LimitsAreEnforced, Holding
  <2>1. limits[i] \in Entries(limits)
    BY DEF Entries
  <2>. QED BY <2>1 DEF HoldInv, AtRest, Held
<1>2. ShiftInit => TablesInv
  BY TablesInit DEF ShiftInit
<1>. QED BY ShiftTypesInit, ShiftTypesStep, ShiftInvInit, ShiftInvStep, <1>2, TablesShift,
            HoldInvInit, HoldStep, <1>1, PTL DEF ShiftSpec

-----------------------------------------------------------------------------
\* The processes of the services on disk are in their cgroups.

\* The services earlier invocations may have left name different processes.
OwnPids ==
  \A t \in InitialProjects : \A i, j \in DOMAIN t :
    i # j => t[i].pid # t[j].pid \/ t[i].pid = NoPid

LEMMA PlaceInvInit == OwnPids /\ ShiftInit => PlaceInv
<1> SUFFICES ASSUME OwnPids, ShiftInit PROVE InPlace(limits, projects, cgroup, proc) /\ pc = "off"
  BY DEF PlaceInv
<1>1. pc = "off" /\ limits = <<>> /\ projects \in InitialProjects
  BY DEF ShiftInit, Init
<1>2. Entries(limits) = {}
  BY <1>1 DEF Entries
<1>3. OneOwner(projects)
  BY <1>1 DEF OwnPids, OneOwner, Entries
<1>. QED BY <1>1, <1>2, <1>3 DEF InPlace

\* A step that changes nothing the arrays say, and moves nobody.
LEMMA PlaceStill ==
  ASSUME PlaceInv, Straight, pc # "off", pc' # "off",
         UNCHANGED <<limitTable, services, cgroup, proc>>
  PROVE  PlaceInv'
  BY DEF PlaceInv

LEMMA PlaceCommand ==
  ASSUME TypeOK, TablesInv, HoldInv, PlaceInv, Straight, CommandStep, Straight'
  PROVE  PlaceInv'
<1>1. pc = "main" /\ Holding /\ Holding'
  BY DEF Straight, CommandStep, Add, AddToNothing, Remove, Rename, NotThere, Run, Stop, Restart,
         RestartCrashes, SetLimit, SetLimitOfNobody, AddEnv, AddEnvToNothing, UpdateEnv,
         RemoveEnv, Refuse, EditJobs, Command
<1>2. /\ Arrays /\ Pairs(cgroup) /\ Held(limitTable, cgroup)
      /\ InPlace(limitTable, services, cgroup, proc)
  BY <1>1, ArraysSound DEF HoldInv, PlaceInv
<1>3. CASE Add \/ Remove \/ Rename \/ Run \/ Stop \/ Restart \/ SetLimit
  <2>1. InPlace(limitTable', services', cgroup', proc')
    BY <1>1, <1>2, <1>3, PlaceAdd, PlaceRemove, PlaceRename, PlaceRun, PlaceStop, PlaceRestart,
       PlaceSetLimit
  <2>2. pc' # "off"
    BY <1>1, <1>3 DEF Add, Remove, Rename, Run, Stop, Restart, SetLimit
  <2>. QED BY <2>1, <2>2 DEF PlaceInv
<1>4. CASE NotThere \/ SetLimitOfNobody \/ AddEnv \/ UpdateEnv \/ RemoveEnv \/ Refuse \/ EditJobs
  <2>1. pc' # "off" /\ UNCHANGED <<limitTable, services, cgroup, proc>>
    BY <1>1, <1>4 DEF NotThere, SetLimitOfNobody, AddEnv, UpdateEnv, RemoveEnv, Refuse,
                      EditJobs, machine, tables
  <2>. QED BY <1>1, <2>1, PlaceStill
<1>5. CASE AddToNothing \/ RestartCrashes \/ AddEnvToNothing
  <2>1. "crashed" \in happened'
    BY <1>5 DEF AddToNothing, RestartCrashes, AddEnvToNothing, Crash, Note
  <2>. QED BY <1>1, <2>1 DEF Holding, Undisturbed
<1>. QED BY <1>3, <1>4, <1>5 DEF CommandStep

LEMMA PlaceStep ==
  ShiftTypeOK /\ TablesInv /\ ShiftInv /\ HoldInv /\ PlaceInv /\ [ShiftNext]_allVars => PlaceInv'
<1> SUFFICES ASSUME ShiftTypeOK, TablesInv, ShiftInv, HoldInv, PlaceInv, [ShiftNext]_allVars,
                    Straight'
             PROVE  PlaceInv'
  BY DEF PlaceInv
<1>1. /\ Straight /\ Holding /\ Holding' /\ TypeOK /\ cgroup \in Cgroups
      /\ proc \in [Pid -> Repo \union {Nothing}]
      /\ projects \in Seq(Record) /\ services \in Seq(Record)
  BY HoldingBefore, ShiftHappened DEF Straight, Undisturbed, ShiftTypeOK, TypeOK
<1>2. Entries(projects) \subseteq Record /\ Entries(services) \subseteq Record
  BY <1>1, EntriesTyped
<1>3. CASE UNCHANGED allVars
  BY <1>1, <1>3 DEF allVars, vars, files, machine, tables, PlaceInv
<1>4. CASE Begin
  <2>1. /\ pc = "off" /\ pc' = "main" /\ limitTable' = limits /\ services' = projects
        /\ cgroup' = cgroup /\ proc' = proc
    BY <1>4 DEF Begin, machine
  <2>. QED BY <1>1, <2>1 DEF PlaceInv
<1>5. CASE CommandStep
  BY <1>1, <1>5, PlaceCommand
<1>6. CASE Return \/ SaveServices \/ SaveJobs \/ SaveEnvs
  <2>1. pc # "off" /\ pc' # "off" /\ UNCHANGED <<limitTable, services, cgroup, proc>>
    BY <1>6 DEF Return, SaveServices, SaveJobs, SaveEnvs, machine, tables
  <2>. QED BY <1>1, <2>1, PlaceStill
<1>7. CASE SaveLimits
  <2>1. /\ pc = "limits" /\ pc' = "off" /\ cgroup' = Leave(cgroup, Mrn)
        /\ limits' = IF reformatLimits THEN limitTable ELSE limits
        /\ projects' = projects /\ proc' = proc
    BY <1>7 DEF SaveLimits, Off
  <2>2. "unsaved" \notin happened /\ Quiet
    BY <1>1 DEF Holding, Quiet, Undisturbed
  <2>3. limits' = limitTable /\ projects' = services
    BY <2>1, <2>2 DEF ShiftInv, SavedSoFar, TablesInv, Saved
  <2>4. InPlace(limitTable, services, cgroup, proc)
    BY <1>1, <2>1 DEF PlaceInv
  <2>5. /\ CpuOfIs(cgroup, cgroup', Mrn, Nothing) /\ MemOfIs(cgroup, cgroup', Mrn, Nothing)
    BY <1>1, <2>1, LeaveFacts DEF Who
  <2>6. ASSUME NEW y \in Entries(projects')
        PROVE  y.pid = NoPid \/ Stays(y.pid, cgroup, cgroup', proc, proc')
    <3>1. y.pid \in Pid \union {NoPid} /\ Mrn \notin Pid
      BY <1>2, <2>3, <2>6, ResourcesAssumption DEF Record
    <3>. QED BY <2>1, <2>5, <3>1 DEF Stays, CpuOfIs, MemOfIs, Who
  <2>7. InPlace(limits', projects', cgroup', proc')
    BY <1>2, <2>3, <2>4, <2>6, PlaceFewer
  <2>. QED BY <2>1, <2>7 DEF PlaceInv
<1>8. CASE Kill
  <2>1. "killed" \in happened'
    BY <1>8 DEF Kill, Note
  <2>. QED BY <1>1, <2>1 DEF Holding, Undisturbed
<1>9. ASSUME NEW p \in Pid, Die(p) PROVE PlaceInv'
  <2>1. /\ cgroup' = Leave(cgroup, p) /\ proc' = [proc EXCEPT ![p] = Nothing]
        /\ UNCHANGED <<pc, limits, limitTable, services, projects>>
    BY <1>9 DEF Die, files, tables
  <2>2. /\ CpuOfIs(cgroup, cgroup', p, Nothing) /\ MemOfIs(cgroup, cgroup', p, Nothing)
    BY <1>1, <2>1, LeaveFacts DEF Who
  <2>3. ASSUME NEW l, NEW t, InPlace(l, t, cgroup, proc), Entries(t) \subseteq Record
        PROVE  InPlace(l, t, cgroup', proc')
    <3>1. ASSUME NEW x \in Entries(l), NEW y \in Entries(t), x.name = y.name
          PROVE  Placed(x, y, cgroup', proc')
      <4>1. Placed(x, y, cgroup, proc) /\ y.repo # Nothing /\ y.pid \in Pid \union {NoPid}
        BY <2>3, <3>1, ResourcesAssumption DEF InPlace, Record
      <4>. QED BY <1>1, <2>1, <2>2, <4>1 DEF Placed, CpuOfIs, MemOfIs, Who
    <3>. QED BY <2>3, <3>1 DEF InPlace
  <2>. QED BY <1>1, <1>2, <2>1, <2>3 DEF PlaceInv
<1>10. CASE Create \/ Apply \/ Restore
  <2>1. pc # "off" /\ pc' # "off" /\ UNCHANGED <<limitTable, services, cgroup, proc>>
    BY <1>10 DEF Create, Apply, Restore, Command, machine, tables
  <2>. QED BY <1>1, <2>1, PlaceStill
<1>11. CASE Applied
  <2>1. "shifted" \in happened'
    BY <1>11 DEF Applied, Note
  <2>. QED BY <1>1, <2>1 DEF Holding, Undisturbed
<1>. QED BY <1>3, <1>4, <1>5, <1>6, <1>7, <1>8, <1>9, <1>10, <1>11
         DEF ShiftNext, Next, Destructor

\* A service with a limit runs inside the cgroup that has it, through restarts,
\* renames of what runs, limits set one after the other and pids used again,
\* with the exceptions the property names, when the services found at the start
\* had a pid of their own.
THEOREM LimitedProcessesAreInside ==
  ASSUME OwnPids
  PROVE  ShiftSpec => []LimitedProcessIsInside
<1>1. PlaceInv => LimitedProcessIsInside
  <2> SUFFICES ASSUME PlaceInv, AtRest, Straight, NEW i \in DOMAIN limits, NEW j \in DOMAIN projects,
                      projects[j].name = limits[i].name, projects[j].pid # NoPid,
                      proc[projects[j].pid] = projects[j].repo
               PROVE  /\ limits[i].cpu # 0 => cgroup.cpuOf[projects[j].pid] = projects[j].name
                      /\ limits[i].mem # 0 => cgroup.memOf[projects[j].pid] = projects[j].name
    BY DEF LimitedProcessIsInside, Straight, Holding, Undisturbed
  <2>1. limits[i] \in Entries(limits) /\ projects[j] \in Entries(projects)
    BY DEF Entries
  <2>2. Placed(limits[i], projects[j], cgroup, proc)
    BY <2>1 DEF PlaceInv, AtRest, InPlace
  <2>. QED BY <2>2 DEF Placed
<1>2. ShiftInit => TablesInv
  BY TablesInit DEF ShiftInit
<1>3. ShiftInit => PlaceInv
  BY PlaceInvInit
<1>. QED BY ShiftTypesInit, ShiftTypesStep, ShiftInvInit, ShiftInvStep, <1>2, TablesShift,
            HoldInvInit, HoldStep, <1>3, PlaceStep, <1>1, PTL DEF ShiftSpec
=============================================================================
