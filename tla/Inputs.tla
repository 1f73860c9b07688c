------------------------------- MODULE Inputs -------------------------------
(***************************************************************************)
(* What mrn is given and what it should make of it: a table it saves and   *)
(* loads again, an operand, a command line, a script.  Each behaviour is   *)
(* given one of them.                                                      *)
(***************************************************************************)
EXTENDS Texts, CommandLine, Interpreter

CONSTANTS Input         \* what may be given

Text  == Seq(STRING)
Files == {"services", "jobs", "env", "limits"}

\* The fields that main takes from its operands; it prints the others itself.
Typed == [services |-> 1..2, jobs |-> 1..2, env |-> 1..3, limits |-> {1}]
Record(f) == {r \in Seq(Text) : /\ Len(r) = Len(Separators[f])
                                /\ \A k \in DOMAIN r \ Typed[f] : Number(r[k])}

\* A command as it is typed: its word, the operands it takes, and each of its
\* options once, a value after those that have one, the type of a memory limit
\* behind it; config is that of job.
Option(word) == {o \in Seq(STRING) : /\ o # <<>> /\ o[1] \in Options(word)
                                     /\ Len(o) = IF o[1] \in Valued THEN 2 ELSE 1
                                     /\ Kind(o[1]) = "-t" => o[2] \in MemTypes}
Reserved == Commands \union UNION {Options(word) : word \in Commands}
Part ==
    {p \in [word : Commands, operands : Text, options : Seq(Text)] :
        /\ p.word = "stop" \/ Len(p.operands) = IF p.word \in {"run", "restart"} THEN 2
                                                ELSE Required(p.word)
        /\ p.word = "config" => p.operands[1] = "job"
        /\ \A i \in DOMAIN p.operands : p.operands[i] \notin Reserved
        /\ \A i \in DOMAIN p.options :
             /\ p.options[i] \in Option(p.word)
             /\ \A j \in 2..Len(p.options[i]) : p.options[i][j] \notin Reserved
             /\ Kind(p.options[i][1]) = "-t" => \E h \in 1..(i - 1) : p.options[h][1] = "-mem"
             /\ \A j \in DOMAIN p.options :
                  Kind(p.options[i][1]) = Kind(p.options[j][1]) => i = j}

ASSUME InputAssumption ==
    \A i \in Input :
        /\ i.kind = "table" => i.file \in Files /\ i.table \in Seq(Record(i.file))
        /\ i.kind = "operand" => /\ i.operand.halves \in 0..(Exact - 1)
                                /\ i.operand.letters \in Text
        /\ i.kind = "line" => i.parts \in Seq(Part)
        /\ i.kind = "script" => i.text \in Text

VARIABLE given

InputSpec == given \in Input /\ [][UNCHANGED given]_given

-----------------------------------------------------------------------------
\* What the rules of names, repositories, paths, keys and values accept comes
\* back from its file as it was, unless a newline in the value of an environment
\* variable ends its line (services_exceptions.c, job_exceptions.c,
\* env_exceptions.c against loadServices, loadJobs, loadEnvs and initLimits).
AcceptedIsReadBack ==
    given.kind = "table" =>
        LET f == given.file
            t == given.table
        IN  (\A i \in DOMAIN t : Accepts(f, t[i]) /\ (f = "env" => Avoids(t[i][3], {NewLine})))
            => Read(f, Written(f, t)) = t

\* A number with one unit at most is read for what it says, exactly when it is
\* whole and never for more when it is not, by each conversion that knows the
\* unit, as long as it fits: an int where convertToByte reads it or there is no
\* unit (3000000000 of a custom limit is atoi's, and -mem 2g of a standard one
\* INT_MIN), 64 bits for g and for a time (format_time.c, mem_types.c,
\* job_mem_format.c).
OperandsAreExact ==
    given.kind = "operand" =>
        LET o == given.operand
            unit == IF o.letters = <<>> THEN "" ELSE o.letters[1]
            says == IF unit = "" THEN o.halves
                    ELSE o.halves * (IF unit \in DOMAIN Bytes THEN Bytes[unit] ELSE 1)
            Reads(n) == 2 * n <= says /\ (o.halves % 2 = 0 => 2 * n = says)
        IN  Len(o.letters) <= 1 =>
            /\ unit \in {"", "k", "m", "g"} /\ says <= 2 * IntMax => Reads(ConvertToByte(o))
            /\ (unit = "" /\ says <= 2 * IntMax) \/ (unit = "g" /\ says < 2 * Word64)
               => Reads(ConvertToByteLarge(o))
            /\ (unit = "" /\ says <= 2 * IntMax) \/ unit = "t"
               => Reads(ConvertToByteExtreme(o))
            /\ unit \in {"", "k", "m", "g", "t"} => Reads(ConvertToBytesJob(o))
            /\ unit \in DOMAIN Seconds /\ o.halves * Seconds[unit] < 2 * Word64 =>
                 /\ FormatTime(o) * 2 <= o.halves * Seconds[unit]
                 /\ o.halves % 2 = 0 => FormatTime(o) * 2 = o.halves * Seconds[unit]

-----------------------------------------------------------------------------
Segment(part) == <<part.word>> \o part.operands \o FlattenSeq(part.options)
Arguments(parts) == FlattenSeq([k \in DOMAIN parts |-> Segment(parts[k])])
At(parts, k) == Len(Arguments(SubSeq(parts, 1, k - 1))) + 1

\* Commands typed one after the other run in that order, each with its own
\* operands and options, up to the one at which main gives up, if no operand is
\* the word of a command, no option comes after a later command that an earlier
\* one looks for too, and stop is the last; a line cut short never runs its last
\* command (main.c).
Apart(parts) ==
    \A k \in DOMAIN parts : \A l \in (k + 1)..Len(parts) :
        /\ parts[k].word # "stop"
        /\ \A o \in DOMAIN parts[l].options :
             parts[l].options[o][1] \notin Options(parts[k].word)
Ends(parts, failing) ==
    {k \in DOMAIN parts : \/ parts[k].word \in Final
                          \/ parts[k].word \in Strict /\ k \in failing}
Asked(parts) ==
    [k \in DOMAIN parts |->
       [word |-> parts[k].word, operands |-> parts[k].operands,
        options |-> {<<Kind(o[1]), IF o[1] \in Valued THEN o[2] ELSE "">> :
                     o \in ToSet(parts[k].options)}]]
SegmentsRunInOrder ==
    given.kind = "line" /\ Apart(given.parts) =>
        LET parts   == given.parts
            argv    == Arguments(parts)
            failing == {At(parts, k) : k \in given.failing \intersect DOMAIN parts}
            ends    == Ends(parts, given.failing)
            n       == IF ends = {} THEN Len(parts) ELSE Min(ends)
        IN  /\ Dispatch(argv, failing).ran = Asked(SubSeq(parts, 1, n))
            /\ (/\ parts # <<>> /\ ends \subseteq {Len(parts)}
                /\ Last(parts).word \in {"add", "remove", "rename", "add-env", "add-job", "-m"})
               => LET cut == Dispatch(Front(argv), failing)
                  IN  cut.ran = Asked(Front(parts)) /\ cut.end \notin {"no", "returned", "failed"}

-----------------------------------------------------------------------------
\* A script of words one space apart runs every line, the last one without a
\* newline too, in its order and where all the cds before it led, up to a cd
\* that fails (runMrnFile, getParse).
Way(lines, k) ==
    Picked([i \in DOMAIN lines |-> CdPath(lines[i])], {i \in 1..k : IsCd(lines[i])})
CdFails(lines, k) ==
    IsCd(lines[k]) /\ (Len(lines[k]) < 3 \/ Way(lines, k) \notin Directories)
Run(lines, k) ==
    [directory |-> Way(lines, k - 1),
     words |-> IF lines[k] = <<>> THEN <<>> ELSE Pieces(lines[k], " ")]
Runs(lines) ==
    LET fails == {i \in DOMAIN lines : CdFails(lines, i)}
        n     == IF fails = {} THEN Len(lines) ELSE Min(fails) - 1
    IN  Picked([k \in DOMAIN lines |-> Run(lines, k)], {k \in 1..n : ~IsCd(lines[k])})
ScriptRunsEveryLine ==
    given.kind = "script" =>
        LET lines == Lines(given.text)
        IN  (\A k \in DOMAIN lines : lines[k] # <<>> => Plain(lines[k]))
            => RunMrnFile(given.text).run = Runs(lines)
=============================================================================
