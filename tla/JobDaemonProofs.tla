--------------------------- MODULE JobDaemonProofs ---------------------------
(***************************************************************************)
(* Proofs about JobDaemon, for every set of jobs, every table and every    *)
(* bound.                                                                  *)
(***************************************************************************)
EXTENDS JobDaemon, TLAPS

\* The part of the assumption that types need.
LEMMA Bounds ==
  /\ Cycle \in Nat \ {0} /\ FdLimit \in Nat \ {0}
  /\ MaxLaunches \in Nat /\ MaxKills \in Nat /\ MaxEdits \in Nat /\ MaxMishaps \in Nat
  BY JobDaemonAssumption

-----------------------------------------------------------------------------
\* The shift of removeJob drops entry i and keeps the others.
LEMMA WithoutType ==
  ASSUME NEW t \in Seq(Entry), NEW i \in DOMAIN t
  PROVE  /\ Without(t, i) \in Seq(Entry)
         /\ Recorded(Without(t, i)) \subseteq Recorded(t)
<1> DEFINE u == Without(t, i)
<1>1. Len(t) \in Nat /\ DOMAIN t = 1..Len(t) /\ Len(t) - 1 \in Nat
  OBVIOUS
<1>2. ASSUME NEW k \in 1..(Len(t) - 1)
      PROVE  \E l \in DOMAIN t : u[k] = t[l]
  <2>1. CASE k < i
    <3>1. k \in DOMAIN t /\ u[k] = t[k]
      BY <1>1, <2>1 DEF Without
    <3>. QED BY <3>1
  <2>2. CASE ~(k < i)
    <3>1. k + 1 \in DOMAIN t /\ u[k] = t[k + 1]
      BY <1>1, <2>2 DEF Without
    <3>. QED BY <3>1
  <2>. QED BY <2>1, <2>2
<1>3. \A l \in DOMAIN t : t[l] \in Entry
  BY <1>1
<1>4. u = [k \in 1..(Len(t) - 1) |-> u[k]]
  BY DEF Without
<1>5. DOMAIN u = 1..(Len(t) - 1)
  BY DEF Without
<1> HIDE DEF u
<1>6. \A k \in 1..(Len(t) - 1) : u[k] \in Entry
  BY <1>2, <1>3
<1>7. u \in Seq(Entry)
  BY <1>1, <1>4, <1>6
<1>8. Recorded(u) \subseteq Recorded(t)
  BY <1>2, <1>5 DEF Recorded
<1>. QED BY <1>7, <1>8 DEF u

\* Recording one pid adds that pid to the pids of a table and no other.
LEMMA RecordOne ==
  ASSUME NEW t \in Seq(Entry), NEW i \in DOMAIN t, NEW p \in Pid \union {NoPid}
  PROVE  LET u == [t EXCEPT ![i].pid = p]
         IN  u \in Seq(Entry) /\ Len(u) = Len(t)
             /\ Recorded(u) \subseteq Recorded(t) \union {p}
<1> DEFINE u == [t EXCEPT ![i].pid = p]
<1>1. t[i] \in Entry /\ [t[i] EXCEPT !.pid = p] \in Entry
  <2>1. t[i] \in Entry
    OBVIOUS
  <2>2. ASSUME NEW r \in Entry PROVE [r EXCEPT !.pid = p] \in Entry
    BY DEF Entry
  <2>. QED BY <2>1, <2>2
<1>2. u = [t EXCEPT ![i] = [t[i] EXCEPT !.pid = p]]
  OBVIOUS
<1>3. u \in Seq(Entry) /\ Len(u) = Len(t)
  BY <1>1, <1>2
<1>4. \A k \in DOMAIN t : u[k].pid = IF k = i THEN p ELSE t[k].pid
  BY <1>1, <1>2 DEF Entry
<1>5. DOMAIN u = DOMAIN t
  BY <1>2
<1> HIDE DEF u
<1>6. Recorded(u) \subseteq Recorded(t) \union {p}
  BY <1>4, <1>5 DEF Recorded
<1>. QED BY <1>3, <1>6 DEF u

-----------------------------------------------------------------------------
\* Types.  The daemon waits for a child exactly in phase "wait", and has the two
\* ends of its pipe open then; while it writes the table it has that file open.

Waiting ==
    /\ phase = "wait" => idx \in DOMAIN mine /\ fds >= 3 /\ child \in Pid
    /\ phase # "wait" => child = NoPid
    /\ phase \in {"poll", "copy", "unlock"} => fds >= 2

Budget == [launches : 0..MaxLaunches, kills : 0..MaxKills,
           edits : 0..MaxEdits, mishaps : 0..MaxMishaps]

TypeInv == TypeOK /\ Waiting

LEMMA BudgetType ==
  ASSUME budget \in Budget
  PROVE  /\ budget.launches < MaxLaunches =>
              [budget EXCEPT !.launches = @ + 1] \in Budget
         /\ budget.kills < MaxKills => [budget EXCEPT !.kills = @ + 1] \in Budget
         /\ budget.edits < MaxEdits => [budget EXCEPT !.edits = @ + 1] \in Budget
         /\ budget.mishaps < MaxMishaps =>
              [budget EXCEPT !.mishaps = @ + 1] \in Budget
  BY Bounds DEF Budget

LEMMA TypeInit == Init => TypeInv
<1> SUFFICES ASSUME Init PROVE TypeInv
  OBVIOUS
<1>1. file \in Seq(Entry)
  <2>1. \A i \in DOMAIN FirstTable : [job |-> FirstTable[i], pid |-> NoPid] \in Entry
    BY JobDaemonAssumption DEF Entry
  <2>2. Len(FirstTable) \in Nat /\ DOMAIN FirstTable = 1..Len(FirstTable)
    BY JobDaemonAssumption
  <2>. QED BY <2>1, <2>2 DEF Init
<1>2. budget \in Budget
  BY Bounds DEF Init, Budget
<1>3. mine \in Seq(Entry)
  BY DEF Init
<1>. QED BY Bounds, <1>1, <1>2, <1>3 DEF Init, TypeInv, TypeOK, Waiting, Phase, Budget

LEMMA TypeStep == TypeInv /\ [Next]_vars => TypeInv'
<1> SUFFICES ASSUME TypeInv, [Next]_vars PROVE TypeInv'
  OBVIOUS
<1>1. /\ file \in Seq(Entry) /\ mine \in Seq(Entry) /\ budget \in Budget
      /\ idx \in Nat \ {0} /\ fds \in 1..FdLimit /\ tick \in 0..(Cycle - 1)
      /\ proc \in [Pid -> Job \union {NoJob}] /\ orphans \subseteq Pid
      /\ lock \in {"free", "locked"} /\ removed \subseteq Job
      /\ child \in Pid \union {NoPid} /\ phase \in Phase
      /\ DOMAIN mine = 1..Len(mine) /\ Len(mine) \in Nat
      /\ phase = "wait" => idx \in DOMAIN mine /\ fds >= 3 /\ child \in Pid
      /\ phase # "wait" => child = NoPid
      /\ phase \in {"poll", "copy", "unlock"} => fds >= 2
  BY DEF TypeInv, TypeOK, Waiting, Budget
<1>2. CASE Load
  <2>1. /\ idx' \in Nat \ {0} /\ fds' \in 1..FdLimit
        /\ phase' \in {"run", "dead"} /\ mine' \in {file, mine}
    BY Bounds, <1>1, <1>2 DEF Load
  <2>2. child = NoPid
        /\ UNCHANGED <<file, lock, child, tick, proc, budget, orphans, removed>>
    BY <1>1, <1>2 DEF Load, around
  <2>. QED BY <1>1, <2>1, <2>2 DEF TypeInv, TypeOK, Waiting, Phase, Budget
<1>3. CASE PassOver
  <2>1. /\ phase = "run" /\ idx' \in Nat \ {0}
        /\ UNCHANGED <<file, lock, phase, mine, child, tick, fds>>
        /\ UNCHANGED <<proc, budget, orphans, removed>>
    BY <1>1, <1>3 DEF PassOver, AtJob, around
  <2>. QED BY <1>1, <2>1 DEF TypeInv, TypeOK, Waiting, Phase, Budget
<1>4. ASSUME NEW p \in Pid, StartJob(p) PROVE TypeInv'
  <2>1. idx \in DOMAIN mine /\ mine[idx].job \in Job
    <3>1. idx \in DOMAIN mine
      BY <1>1, <1>4 DEF StartJob, AtJob
    <3>2. mine[idx] \in Entry
      BY <1>1, <3>1
    <3>. QED BY <3>1, <3>2 DEF Entry
  <2>2. fds + 2 \in 1..FdLimit /\ fds + 2 >= 3
    BY Bounds, <1>1, <1>4 DEF StartJob, PipeFits
  <2>. QED BY Bounds, <1>1, <1>4, <2>1, <2>2
         DEF StartJob, TypeInv, TypeOK, Waiting, Phase, Budget
<1>5. CASE Reap
  <2>1. mine' \in Seq(Entry) /\ Len(mine') = Len(mine)
    BY <1>1, <1>5, RecordOne DEF Reap
  <2>2. fds' \in 1..FdLimit
    BY Bounds, <1>1, <1>5 DEF Reap
  <2>3. /\ child' = NoPid /\ idx' \in Nat \ {0} /\ phase' = "run"
        /\ UNCHANGED <<file, lock, tick, proc, budget, orphans, removed>>
    BY <1>1, <1>5 DEF Reap, around
  <2>. QED BY <1>1, <2>1, <2>2, <2>3 DEF TypeInv, TypeOK, Waiting, Phase, Budget
<1>6. CASE Mishap
  <2>1. idx \in DOMAIN mine
    BY <1>1, <1>6 DEF Mishap, AtJob
  <2>2. mine' \in Seq(Entry)
    <3>1. [mine EXCEPT ![idx].pid = NoPid] \in Seq(Entry)
      BY <1>1, <2>1, RecordOne
    <3>2. mine' \in {mine, [mine EXCEPT ![idx].pid = NoPid]}
      BY <1>6 DEF Mishap
    <3>. QED BY <1>1, <3>1, <3>2
  <2>3. fds' \in 1..FdLimit
    BY Bounds, <1>1, <1>6 DEF Mishap, PipeFits
  <2>4. budget' \in Budget
    BY <1>1, <1>6, BudgetType DEF Mishap
  <2>5. /\ phase = "run" /\ idx' \in Nat \ {0}
        /\ UNCHANGED <<file, lock, phase, child, tick, proc, orphans, removed>>
    BY <1>1, <1>6 DEF Mishap, AtJob
  <2>. QED BY <1>1, <2>2, <2>3, <2>4, <2>5
         DEF TypeInv, TypeOK, Waiting, Phase, Budget
<1>7. CASE AllLookedAt
  BY Bounds, <1>1, <1>7 
     DEF AllLookedAt, around, TypeInv, TypeOK, Waiting, Phase, Budget
<1>8. CASE Save
  BY Bounds, <1>1, <1>8
     DEF Save, around, BackupOpens, BackupLeaves,
         TypeInv, TypeOK, Waiting, Phase, Budget
<1>17. CASE TakeLock
  <2>1. /\ phase = "poll" /\ file' \in {file, mine} /\ lock' \in {"free", "locked"}
        /\ phase' \in {"copy", "stuck"}
        /\ UNCHANGED <<mine, idx, child, tick, fds, proc, budget, orphans, removed>>
    BY <1>1, <1>17 DEF TakeLock, around
  <2>. QED BY <1>1, <2>1 DEF TypeInv, TypeOK, Waiting, Phase, Budget
<1>18. CASE Copy
  BY Bounds, <1>1, <1>18 DEF Copy, around, TypeInv, TypeOK, Waiting, Phase, Budget
<1>19. CASE Unlock
  BY Bounds, <1>1, <1>19 DEF Unlock, around, TypeInv, TypeOK, Waiting, Phase, Budget
<1>9. CASE Sleep
  <2>1. tick' \in 0..(Cycle - 1)
    BY Bounds, <1>1, <1>9 DEF Sleep
  <2>. QED BY Bounds, <1>1, <1>9, <2>1
         DEF Sleep, around, TypeInv, TypeOK, Waiting, Phase, Budget
<1>10. ASSUME NEW p \in Pid, JobEnds(p) PROVE TypeInv'
  BY Bounds, <1>1, <1>10 DEF JobEnds, daemon, TypeInv, TypeOK, Waiting, Phase, Budget
<1>11. CASE Launch
  <2>1. budget' \in Budget
    BY <1>1, <1>11, BudgetType DEF Launch
  <2>2. 1 \in 1..FdLimit /\ 0 \in 0..(Cycle - 1)
    BY Bounds
  <2>3. /\ mine' \in Seq(Entry) /\ phase' = "load" /\ idx' = 1
        /\ child' = NoPid /\ tick' = 0 /\ fds' = 1
        /\ UNCHANGED <<file, lock, proc, orphans, removed>>
    BY <1>11 DEF Launch
  <2>. QED BY <1>1, <2>1, <2>2, <2>3 DEF TypeInv, TypeOK, Waiting, Phase, Budget
<1>12. CASE Killed
  <2>1. budget' \in Budget
    BY <1>1, <1>12, BudgetType DEF Killed, Dies
  <2>. QED BY Bounds, <1>1, <1>12, <2>1
         DEF Killed, Dies, TypeInv, TypeOK, Waiting, Phase, Budget
<1>13. CASE StopJobs
  <2>1. budget' \in Budget
    BY <1>1, <1>13, BudgetType DEF StopJobs, Dies
  <2>2. file' \in Seq(Entry)
    <3>0. ASSUME NEW r \in Entry PROVE [r EXCEPT !.pid = NoPid] \in Entry
      BY DEF Entry
    <3>1. \A i \in DOMAIN file : [file[i] EXCEPT !.pid = NoPid] \in Entry
      BY <1>1, <3>0
    <3>2. DOMAIN file = 1..Len(file) /\ Len(file) \in Nat
      BY <1>1
    <3>3. \/ file' = [i \in 1..Len(file) |-> [file[i] EXCEPT !.pid = NoPid]]
          \/ file' = file
      BY <1>13, <3>2 DEF StopJobs
    <3>. QED BY <1>1, <3>1, <3>2, <3>3
  <2>3. proc' \in [Pid -> Job \union {NoJob}]
    BY <1>1, <1>13 DEF StopJobs
  <2>4. /\ phase' = "dead" /\ child' = NoPid /\ orphans' \subseteq Pid
        /\ UNCHANGED <<mine, idx, tick, fds, lock, removed>>
    BY <1>1, <1>13 DEF StopJobs, Dies
  <2>. QED BY <1>1, <2>1, <2>2, <2>3, <2>4
         DEF TypeInv, TypeOK, Waiting, Phase, Budget
<1>14. ASSUME NEW j \in Job, AddJob(j) PROVE TypeInv'
  <2>1. budget' \in Budget
    BY <1>1, <1>14, BudgetType DEF AddJob
  <2>2. file' \in Seq(Entry)
    BY <1>1, <1>14 DEF AddJob, Entry
  <2>. QED BY Bounds, <1>1, <1>14, <2>1, <2>2
         DEF AddJob, daemon, TypeInv, TypeOK, Waiting, Phase, Budget
<1>15. ASSUME NEW j \in Job, RemoveJob(j) PROVE TypeInv'
  <2>1. budget' \in Budget
    BY <1>1, <1>15, BudgetType DEF RemoveJob
  <2>2. file' \in Seq(Entry)
    BY <1>1, <1>15, WithoutType DEF RemoveJob
  <2>. QED BY Bounds, <1>1, <1>15, <2>1, <2>2
         DEF RemoveJob, daemon, TypeInv, TypeOK, Waiting, Phase, Budget
<1>16. CASE UNCHANGED vars
  BY Bounds, <1>1, <1>16 DEF vars, daemon, around, TypeInv, TypeOK, Waiting, Phase, Budget
<1>. QED
  BY <1>2, <1>3, <1>4, <1>5, <1>6, <1>7, <1>8, <1>9, <1>10, <1>11, <1>12,
     <1>13, <1>14, <1>15, <1>16, <1>17, <1>18, <1>19 DEF Next, DaemonStep

\* Types of the daemon's state; in particular it never has more descriptors than
\* it may, and never looks past the table it loaded.
THEOREM TypeCorrect == Spec => []TypeOK
<1>1. TypeInv => TypeOK
  BY DEF TypeInv
<1>. QED BY <1>1, TypeInit, TypeStep, PTL DEF Spec

-----------------------------------------------------------------------------
\* Recorded pids.  The property needs its twin for the table in the daemon's
\* memory, and that every job that runs is the awaited child or an orphan.

Dead(t) == \A p \in Recorded(t) : p # NoPid => ~Live(p)

RunInv == Dead(file) /\ Dead(mine) /\ JobsRunOneAtATime

LEMMA RecordedPids ==
  ASSUME NEW t \in Seq(Entry)
  PROVE  Recorded(t) \subseteq Pid \union {NoPid}
<1>1. \A i \in DOMAIN t : t[i] \in Entry
  OBVIOUS
<1>. QED BY <1>1 DEF Recorded, Entry

LEMMA RunStep == TypeInv /\ RunInv /\ [Next]_vars => RunInv'
<1> SUFFICES ASSUME TypeInv, RunInv, [Next]_vars PROVE RunInv'
  OBVIOUS
<1>1. /\ file \in Seq(Entry) /\ mine \in Seq(Entry)
      /\ Dead(file) /\ Dead(mine) /\ JobsRunOneAtATime
      /\ Recorded(file) \subseteq Pid \union {NoPid}
      /\ Recorded(mine) \subseteq Pid \union {NoPid}
      /\ phase = "wait" => idx \in DOMAIN mine /\ child \in Pid
      /\ phase # "wait" => child = NoPid
      /\ DOMAIN mine = 1..Len(mine) /\ Len(mine) \in Nat /\ idx \in Nat \ {0}
      /\ proc \in [Pid -> Job \union {NoJob}]
      /\ NoPid \notin Pid
  BY RecordedPids, JobDaemonAssumption DEF TypeInv, TypeOK, Waiting, RunInv
<1>2. CASE UNCHANGED <<file, proc, child, orphans>> /\ mine' \in {file, mine, <<>>}
  <2>1. Dead(<<>>)
    BY DEF Dead, Recorded
  <2>. QED BY <1>1, <1>2, <2>1 DEF RunInv, Dead, Live, JobsRunOneAtATime
<1>3. CASE Load \/ PassOver \/ AllLookedAt \/ Sleep
  <2>1. UNCHANGED <<file, proc, child, orphans>> /\ mine' \in {file, mine, <<>>}
    BY <1>3 DEF Load, PassOver, AllLookedAt, Sleep, around
  <2>. QED BY <1>2, <2>1
<1>4. ASSUME NEW p \in Pid, StartJob(p) PROVE RunInv'
  <2>1. /\ proc' = [proc EXCEPT ![p] = mine[idx].job] /\ child' = p
        /\ file' = file /\ mine' = mine /\ orphans' = orphans
        /\ p \notin Recorded(file) \union Recorded(mine)
        /\ child = NoPid
    BY <1>1, <1>4 DEF StartJob, Fresh, AtJob
  <2>2. \A q \in Pid \ {p} : proc'[q] = proc[q]
    BY <1>1, <2>1
  <2>. QED BY <1>1, <2>1, <2>2 DEF RunInv, Dead, Live, JobsRunOneAtATime
<1>5. CASE Reap
  <2>1. /\ idx \in DOMAIN mine /\ child \in Pid /\ proc[child] = NoJob
        /\ mine' = [mine EXCEPT ![idx].pid = child] /\ child' = NoPid
        /\ file' = file /\ proc' = proc /\ orphans' = orphans
    BY <1>1, <1>5 DEF Reap, Live, around
  <2>2. Recorded(mine') \subseteq Recorded(mine) \union {child}
    BY <1>1, <2>1, RecordOne
  <2>. QED BY <1>1, <2>1, <2>2 DEF RunInv, Dead, Live, JobsRunOneAtATime
<1>6. CASE Mishap
  <2>1. /\ idx \in DOMAIN mine
        /\ mine' \in {mine, [mine EXCEPT ![idx].pid = NoPid]}
        /\ UNCHANGED <<file, proc, child, orphans>>
    BY <1>1, <1>6 DEF Mishap, AtJob
  <2>2. Recorded(mine') \subseteq Recorded(mine) \union {NoPid}
    BY <1>1, <2>1, RecordOne
  <2>. QED BY <1>1, <2>1, <2>2 DEF RunInv, Dead, Live, JobsRunOneAtATime
<1>7. CASE Save \/ TakeLock \/ Copy \/ Unlock
  <2>1. file' \in {file, mine} /\ UNCHANGED <<mine, proc, child, orphans>>
    BY <1>7 DEF Save, TakeLock, Copy, Unlock, around
  <2>. QED BY <1>1, <2>1 DEF RunInv, Dead, Live, JobsRunOneAtATime
<1>8. ASSUME NEW p \in Pid, JobEnds(p) PROVE RunInv'
  <2>1. /\ proc' = [proc EXCEPT ![p] = NoJob] /\ orphans' = orphans \ {p}
        /\ UNCHANGED <<file, mine, child>>
    BY <1>8 DEF JobEnds, daemon
  <2>2. \A q \in Pid : proc'[q] = IF q = p THEN NoJob ELSE proc[q]
    BY <1>1, <2>1
  <2>. QED BY <1>1, <2>1, <2>2 DEF RunInv, Dead, Live, JobsRunOneAtATime
<1>9. CASE Launch
  <2>1. UNCHANGED <<file, proc, child, orphans>> /\ mine' = <<>>
    BY <1>1, <1>9 DEF Launch
  <2>. QED BY <1>2, <2>1
<1>10. CASE Killed
  <2>1. /\ child' = NoPid /\ orphans' = orphans \union ({child} \ {NoPid})
        /\ UNCHANGED <<file, mine, proc>>
    BY <1>10 DEF Killed, Dies
  <2>. QED BY <1>1, <2>1 DEF RunInv, Dead, Live, JobsRunOneAtATime
<1>11. CASE StopJobs
  <2>1. /\ proc' = [p \in Pid |-> IF p \in Recorded(file) THEN NoJob ELSE proc[p]]
        /\ orphans' = (orphans \union ({child} \ {NoPid})) \ Recorded(file)
        /\ child' = NoPid /\ mine' = mine
        /\ \/ file' = [i \in DOMAIN file |-> [file[i] EXCEPT !.pid = NoPid]]
           \/ file' = file
    BY <1>11 DEF StopJobs, Dies
  <2>2. Recorded(file') \subseteq {NoPid} \/ file' = file
    <3>1. \A r \in Entry : [r EXCEPT !.pid = NoPid].pid = NoPid
      BY DEF Entry
    <3>2. \A i \in DOMAIN file : file[i] \in Entry
      BY <1>1
    <3>. QED BY <2>1, <3>1, <3>2 DEF Recorded
  <2>3. \A q \in Pid : proc'[q] = IF q \in Recorded(file) THEN NoJob ELSE proc[q]
    BY <2>1
  <2>. QED BY <1>1, <2>1, <2>2, <2>3 DEF RunInv, Dead, Live, JobsRunOneAtATime
<1>12. ASSUME NEW j \in Job, AddJob(j) PROVE RunInv'
  <2>1. /\ file' = Append(file, [job |-> j, pid |-> NoPid])
        /\ UNCHANGED <<mine, proc, child, orphans>>
    BY <1>12 DEF AddJob, daemon
  <2>2. Recorded(file') \subseteq Recorded(file) \union {NoPid}
    BY <1>1, <2>1 DEF Recorded
  <2>. QED BY <1>1, <2>1, <2>2 DEF RunInv, Dead, Live, JobsRunOneAtATime
<1>13. ASSUME NEW j \in Job, RemoveJob(j) PROVE RunInv'
  <2>1. UNCHANGED <<mine, proc, child, orphans>>
    BY <1>13 DEF RemoveJob, daemon
  <2>2. Recorded(file') \subseteq Recorded(file)
    BY <1>1, <1>13, WithoutType DEF RemoveJob
  <2>. QED BY <1>1, <2>1, <2>2 DEF RunInv, Dead, Live, JobsRunOneAtATime
<1>14. CASE UNCHANGED vars
  BY <1>2, <1>14 DEF vars, daemon, around
<1>. QED
  BY <1>3, <1>4, <1>5, <1>6, <1>7, <1>8, <1>9, <1>10, <1>11, <1>12, <1>13, <1>14
     DEF Next, DaemonStep

LEMMA RunInit == Init => RunInv
<1> SUFFICES ASSUME Init PROVE RunInv
  OBVIOUS
<1>1. Recorded(mine) = {}
  BY DEF Init, Recorded
<1>2. \A p \in Recorded(file) : p = NoPid
  BY DEF Init, Recorded
<1>. QED BY <1>1, <1>2 DEF Init, RunInv, Dead, Live, JobsRunOneAtATime

\* A pid in the jobs file never names a job that runs, so stop-jobs stops none:
\* whatever the jobs, the kills and the edits.
THEOREM StopJobsStopsNoJob == Spec => []RecordedPidIsDead
<1>1. RunInv => RecordedPidIsDead
  BY DEF RunInv, Dead, RecordedPidIsDead
<1>. QED BY <1>1, TypeInit, TypeStep, RunInit, RunStep, PTL DEF Spec

\* Only the job the daemon waits for runs, and those of daemons that died.
THEOREM OneJobAtATime == Spec => []JobsRunOneAtATime
<1>1. RunInv => JobsRunOneAtATime
  BY DEF RunInv
<1>. QED BY <1>1, TypeInit, TypeStep, RunInit, RunStep, PTL DEF Spec

=============================================================================
