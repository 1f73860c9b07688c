----------------------------- MODULE JobLimits -----------------------------
(***************************************************************************)
(* mrn config job: the limits of the job daemon, kept as digits in two     *)
(* files that no lock guards, and the daemon that reads them as it starts  *)
(* (main.c, job_res_man/, io_man/jobs_res_limit/, job_ops/run_jobs.c).     *)
(***************************************************************************)
EXTENDS Texts

CONSTANTS
    Config,         \* the processes that may run mrn config job
    CpuOperand,     \* operands of --max-cpu
    MemOperand,     \* operands of --max-memory
    NoOperand,      \* where the option is not given
    MaxConfigs,     \* bound: how many configurations are begun
    MaxFaults       \* bound: how many SIGINTs and kills

ASSUME JobLimitsAssumption ==
    /\ \A o \in CpuOperand \union MemOperand :
         o.halves \in 0..(Exact - 1) /\ o.letters \in Seq({"k", "m", "g", "t"})
    /\ \A o \in CpuOperand : ConvertToSeconds(o) < Exact
    /\ NoOperand \notin CpuOperand \union MemOperand
    /\ MaxConfigs \in Nat /\ MaxFaults \in Nat

Resource == {"cpu", "mem"}

VARIABLES
    file,       \* [Resource -> text]
    copy,       \* the copy of the memory file; that of the other is never made
    pc,         \* [Config -> {"idle", "backup", "cut", "write", "done"}]
    new,        \* [Config -> [Resource -> text]]
    todo,       \* [Config -> the files still to write, in order]
    handler,    \* [Config -> whose backup SIGINT restores, or "none"]
    daemon,     \* the daemon: [pc, mem, cpu]
    \* What the properties tell apart, and no code reads:
    asked,      \* [Resource -> the values written so far, the last one last]
    disturbed,  \* the processes met by another one, or by SIGINT as they wrote
    torn,       \* the files cut to a shorter text and not written undisturbed,
                \* and "copy" where that was copied
    settled,    \* the files an undisturbed process wrote last
    promised,   \* [Resource -> the value asked for as the daemon started]
    doubtful,   \* the files the daemon read torn, and "pair" if others wrote
    begun, faults

vars == <<file, copy, pc, new, todo, handler, daemon, asked, disturbed, torn, settled,
          promised, doubtful, begun, faults>>
writers == <<pc, new, todo, handler>>
history == <<asked, disturbed, torn, settled>>

Init ==
    /\ file = [r \in Resource |-> <<>>]
    /\ copy = <<>>
    /\ pc = [p \in Config |-> "idle"]
    /\ new = [p \in Config |-> [r \in Resource |-> <<>>]]
    /\ todo = [p \in Config |-> <<>>]
    /\ handler = [p \in Config |-> "none"]
    /\ daemon = [pc |-> "off", mem |-> 0, cpu |-> 0]
    /\ asked = [r \in Resource |-> <<Value(<<>>)>>]
    /\ disturbed = {} /\ torn = {} /\ settled = Resource
    /\ promised = [r \in Resource |-> 0] /\ doubtful = {}
    /\ begun = 0 /\ faults = 0

AtWork == {p \in Config : pc[p] # "idle"}
Reading == daemon.pc \in {"mem", "cpu"}

\* ftruncate: what is cut off is lost, what is added is NUL.
Cut(text, n) == [i \in 1..n |-> IF i <= Len(text) THEN text[i] ELSE "nul"]

\* write, from the first byte on.
Over(text, old) == text \o SubSeq(old, Len(text) + 1, Len(old))

\* main's loop over the operands.  One that is read as 0 ends the command there;
\* an option not given leaves 0, and configJobRes then writes the other file
\* alone, or both when neither was given.
Ask(p, cpu, mem) ==
    LET limit == [cpu |-> IF cpu = NoOperand THEN 0 ELSE ConvertToSeconds(cpu),
                  mem |-> IF mem = NoOperand THEN 0 ELSE ConvertToBytesJob(mem)]
    IN  /\ pc[p] = "idle" /\ begun < MaxConfigs
        /\ cpu # NoOperand => limit.cpu # 0
        /\ mem # NoOperand => limit.mem # 0
        /\ pc' = [pc EXCEPT ![p] = "backup"]
        /\ new' = [new EXCEPT ![p] = [r \in Resource |-> Digits(limit[r])]]
        /\ todo' = [todo EXCEPT ![p] = IF limit.mem = 0 /\ limit.cpu # 0 THEN <<"cpu">>
                                       ELSE IF limit.cpu = 0 /\ limit.mem # 0 THEN <<"mem">>
                                       ELSE <<"cpu", "mem">>]
        /\ handler' = [handler EXCEPT ![p] = "none"]
        /\ IF AtWork = {}
           THEN disturbed' = disturbed \ {p} /\ UNCHANGED torn
           ELSE disturbed' = disturbed \union AtWork \union {p} /\ torn' = torn \union Resource
        /\ doubtful' = IF Reading THEN doubtful \union {"pair"} ELSE doubtful
        /\ begun' = begun + 1
        /\ UNCHANGED <<file, copy, daemon, asked, settled, promised, faults>>

\* createJobRsLimitBackup copies the file of the cpu onto itself,
\* createJobRsMmLimitBackup that of the memory unless it is empty; sigaction.
Backup(p) ==
    /\ pc[p] = "backup"
    /\ IF Head(todo[p]) = "mem" /\ file.mem # <<>>
       THEN /\ copy' = file.mem
            /\ torn' = IF "mem" \in torn THEN torn \union {"copy"} ELSE torn \ {"copy"}
       ELSE UNCHANGED <<copy, torn>>
    /\ handler' = [handler EXCEPT ![p] = Head(todo[p])]
    /\ pc' = [pc EXCEPT ![p] = "cut"]
    /\ UNCHANGED <<file, new, todo, daemon, asked, disturbed, settled, promised, doubtful,
                   begun, faults>>

\* Mutant: the file is not cut before it is written.
TruncateNothing(p) ==
    /\ pc[p] = "cut"
    /\ pc' = [pc EXCEPT ![p] = "write"]
    /\ UNCHANGED <<file, copy, new, todo, handler, daemon, history, promised, doubtful,
                   begun, faults>>

\* ftruncate of limitCpuOnly and limitMemOnly.
Truncate(p) ==
    /\ pc[p] = "cut"
    /\ LET r == Head(todo[p])
       IN  /\ file' = [file EXCEPT ![r] = Cut(@, Len(new[p][r]))]
           /\ torn' = IF Len(new[p][r]) < Len(file[r]) THEN torn \union {r} ELSE torn
           /\ settled' = settled \ {r}
    /\ pc' = [pc EXCEPT ![p] = "write"]
    /\ UNCHANGED <<copy, new, todo, handler, daemon, asked, disturbed, promised, doubtful,
                   begun, faults>>

\* write of limitCpuOnly and limitMemOnly; the other file is next.
Write(p) ==
    /\ pc[p] = "write"
    /\ LET r == Head(todo[p])
       IN  /\ file' = [file EXCEPT ![r] = Over(new[p][r], @)]
           /\ asked' = [asked EXCEPT ![r] = Append(@, Value(new[p][r]))]
           /\ IF p \in disturbed THEN UNCHANGED <<torn, settled>>
              ELSE torn' = torn \ {r} /\ settled' = settled \union {r}
    /\ todo' = [todo EXCEPT ![p] = Tail(@)]
    /\ pc' = [pc EXCEPT ![p] = IF Len(todo[p]) = 1 THEN "done" ELSE "backup"]
    /\ UNCHANGED <<copy, new, handler, daemon, disturbed, promised, doubtful, begun, faults>>

Finish(p) ==
    /\ pc[p] = "done"
    /\ pc' = [pc EXCEPT ![p] = "idle"]
    /\ UNCHANGED <<file, copy, new, todo, handler, daemon, history, promised, doubtful,
                   begun, faults>>

\* SIGINT: hanldeRsMmbackup copies the copy back, unless it is empty, and the
\* command goes on; handleRsCpuBackup finds no copy; before them it ends here.
Interrupt(p) ==
    /\ pc[p] # "idle" /\ faults < MaxFaults
    /\ IF handler[p] = "mem"
       THEN /\ file' = [file EXCEPT !.mem = IF copy = <<>> THEN @ ELSE copy]
            /\ settled' = settled \ {"mem"}
            /\ torn' = IF "copy" \in torn THEN torn \union {"mem"} ELSE torn
       ELSE UNCHANGED <<file, settled, torn>>
    /\ pc' = IF handler[p] = "none" THEN [pc EXCEPT ![p] = "idle"] ELSE pc
    /\ disturbed' = IF pc[p] = "write" THEN disturbed \union {p} ELSE disturbed
    /\ faults' = faults + 1
    /\ UNCHANGED <<copy, new, todo, handler, daemon, asked, promised, doubtful, begun>>

Kill(p) ==
    /\ pc[p] # "idle" /\ faults < MaxFaults
    /\ pc' = [pc EXCEPT ![p] = "idle"]
    /\ faults' = faults + 1
    /\ UNCHANGED <<file, copy, new, todo, handler, daemon, history, promised, doubtful, begun>>

-----------------------------------------------------------------------------
\* runJobsDaemon: getLimit reads the file of the memory, then that of the cpu;
\* setLimit sets what is not 0.  It looks once, as it starts.

StartDaemon ==
    /\ daemon.pc = "off"
    /\ daemon' = [daemon EXCEPT !.pc = "mem"]
    /\ promised' = [r \in Resource |-> Last(asked[r])]
    /\ doubtful' = IF AtWork = {} /\ settled = Resource THEN {} ELSE {"pair"}
    /\ UNCHANGED <<file, copy, writers, history, begun, faults>>

ReadMem ==
    /\ daemon.pc = "mem"
    /\ daemon' = [daemon EXCEPT !.pc = "cpu", !.mem = Value(file.mem)]
    /\ doubtful' = doubtful \union (torn \intersect {"mem"})
    /\ UNCHANGED <<file, copy, writers, history, promised, begun, faults>>

\* Mutant: the file already open is read again.
ReadCpuAgain ==
    /\ daemon.pc = "cpu"
    /\ daemon' = [daemon EXCEPT !.pc = "limited", !.cpu = Value(file.mem)]
    /\ doubtful' = doubtful \union (torn \intersect {"cpu"})
    /\ UNCHANGED <<file, copy, writers, history, promised, begun, faults>>

ReadCpu ==
    /\ daemon.pc = "cpu"
    /\ daemon' = [daemon EXCEPT !.pc = "limited", !.cpu = Value(file.cpu)]
    /\ doubtful' = doubtful \union (torn \intersect {"cpu"})
    /\ UNCHANGED <<file, copy, writers, history, promised, begun, faults>>

Next ==
    \/ \E p \in Config :
         \/ \E cpu \in CpuOperand \union {NoOperand}, mem \in MemOperand \union {NoOperand} :
              Ask(p, cpu, mem)
         \/ Backup(p) \/ Truncate(p) \/ Write(p) \/ Finish(p)
         \/ Interrupt(p) \/ Kill(p)
    \/ StartDaemon \/ ReadMem \/ ReadCpu

Spec == Init /\ [][Next]_vars

-----------------------------------------------------------------------------
Sought(r) == {asked[r][i] : i \in DOMAIN asked[r]}

\* Though nothing locks the files and they are cut before they are written, a
\* file that was not being shortened when its writer was killed or interrupted,
\* nor written by two, nor restored by SIGINT from the copy of such a file,
\* holds a value somebody asked for (limitCpuOnly, limitMemOnly,
\* hanldeRsMmbackup).
LimitsAreAsked ==
    \A r \in Resource : r \notin torn => Value(file[r]) \in Sought(r)

\* A file written from its cut on by one process that no other and no SIGINT met
\* holds the value asked for last, whoever cut, wrote, restored or was killed
\* before (limitCpuOnly, limitMemOnly, hanldeRsMmbackup).
SettledLimitsAreLast ==
    \A r \in settled : Value(file[r]) = Last(asked[r])

\* Both limits of a daemon are those asked for last when nobody configures
\* while it starts.
QuietStartTakesBoth ==
    daemon.pc = "limited" /\ "pair" \notin doubtful =>
        daemon.mem = promised.mem /\ daemon.cpu = promised.cpu

\* A daemon takes limits somebody asked for unless it reads a file just then
\* being shortened, and those asked for last, both of them, when nobody
\* configures while it starts (getLimit, runJobsDaemon).
DaemonIsLimitedAsAsked ==
    /\ daemon.pc \in {"cpu", "limited"} /\ "mem" \notin doubtful => daemon.mem \in Sought("mem")
    /\ daemon.pc = "limited" /\ "cpu" \notin doubtful => daemon.cpu \in Sought("cpu")
    /\ QuietStartTakesBoth
=============================================================================
