---------------------------- MODULE CommandLine ----------------------------
(***************************************************************************)
(* main's loop over its arguments: every one that is the word of a command *)
(* runs it, with the arguments after it as its operands (main.c).          *)
(***************************************************************************)
EXTENDS Naturals, Sequences, SequencesExt

\* The words, by the number of operands without which they run into return 1,
\* or into a NULL pointer.
Shows      == {"list", "list-jobs", "show-job-limit", "job-status"}
None       == Shows \union {"stop", "warmup-jobs", "restart-jobs", "stop-jobs",
                            "neglect-updates", "--help", "-h", "--version", "-v"}
One        == {"-m", "--max", "remove", "run", "find", "update", "restart", "set-limit",
               "res-usage", "res-limit", "remove-job", "config", "time-shift"}
Two        == {"add", "rename", "show-env", "remove-env"}
Three      == {"add-job", "add-env", "update-env"}
Commands   == None \union One \union Two \union Three

Required(word) == IF word \in None THEN 0
                  ELSE IF word \in One THEN 1
                  ELSE IF word \in Two THEN 2 ELSE 3

\* What becomes of one with only n of them.  A NULL pointer that is not looked
\* at crashes it; add alone takes the first string of the environment for its
\* name, and remove alone compares NULL with the services there are.
Missing(word, n) ==
    IF <<word, n>> \in {<<"add", 0>>, <<"remove", 0>>} THEN "crashed or refused"
    ELSE IF word \in {"-m", "--max", "add", "config"} \/ <<word, n>> = <<"rename", 1>>
    THEN "crashed"
    ELSE "refused"

\* Those after which main returns 0, and those it may give up at, with 1 or by
\* exit: when they fail, or, before they do anything, at a new name against the
\* rules (rename), an empty name (run), and so many places as there is no memory
\* for, or none (-m).  It goes on after the failure of the others.
Final  == {"neglect-updates", "--help", "-h", "--version", "-v"}
Strict == {"-m", "--max", "add", "run", "restart", "rename", "set-limit", "res-usage",
           "res-limit", "add-job", "remove-job", "warmup-jobs", "config", "restart-jobs",
           "stop-jobs", "time-shift", "add-env", "remove-env", "update-env"}

\* What a command looks for in all that follows it, which of these have a value,
\* and which two are one.
Options(word) ==
    IF word \in {"run", "restart"} THEN {"--attach"}
    ELSE IF word = "find" THEN {"--sort"}
    ELSE IF word = "update" THEN {"--stop"}
    ELSE IF word = "set-limit" THEN {"-cpu", "-mem", "-t", "--type"}
    ELSE IF word = "config" THEN {"--max-cpu", "-mc", "--max-memory", "-mm"}
    ELSE {}
Valued == Options("set-limit") \union Options("config")
Kind(option) == IF option = "--type" THEN "-t"
                ELSE IF option = "--max-cpu" THEN "-mc"
                ELSE IF option = "--max-memory" THEN "-mm" ELSE option

MemTypes == {"standard", "custom", "extreme"}

\* Mutant: stop takes the next argument alone.
OperandsOfOne(word, rest) ==
    IF word = "stop" THEN SubSeq(rest, 1, IF rest = <<>> THEN 0 ELSE 1)
    ELSE IF word \in {"run", "restart"} THEN SubSeq(rest, 1, IF Len(rest) > 1 THEN 2 ELSE 1)
    ELSE SubSeq(rest, 1, Required(word))

\* What of the arguments after its word a command uses.  The operands, of which
\* run and restart take one more if it is there, and stop takes all.
Operands(word, rest) ==
    IF word = "stop" THEN rest
    ELSE IF word \in {"run", "restart"} THEN SubSeq(rest, 1, IF Len(rest) > 1 THEN 2 ELSE 1)
    ELSE SubSeq(rest, 1, Required(word))

\* And the options, which find does not look for in its operand, config only
\* after the operand job, and set-limit, if it is the type, only behind a -mem.
Given(word, rest) ==
    {j \in DOMAIN rest :
        /\ rest[j] \in Options(word)
        /\ word = "find" => j > 1
        /\ word = "config" => rest[1] = "job"
        /\ Kind(rest[j]) = "-t" => \E h \in 1..(j - 1) : rest[h] = "-mem"}
ValueRefused(word, rest) ==
    \E j \in Given(word, rest) :
        /\ rest[j] \in Valued
        /\ j = Len(rest) \/ (Kind(rest[j]) = "-t" /\ rest[j + 1] \notin MemTypes)

\* The last of a kind counts, with the argument after it; but extreme, the type,
\* stays.
ValueAt(rest, j) == IF rest[j] \in Valued THEN rest[j + 1] ELSE ""
Overrides(rest, h, j) ==
    /\ Kind(rest[h]) = Kind(rest[j])
    /\ IF Kind(rest[j]) = "-t" /\ "extreme" \in {ValueAt(rest, h), ValueAt(rest, j)}
       THEN ValueAt(rest, j) # "extreme"
       ELSE h > j
Chosen(word, rest) ==
    {<<Kind(rest[j]), ValueAt(rest, j)>> :
        j \in {j \in Given(word, rest) : \A h \in Given(word, rest) : ~Overrides(rest, h, j)}}

\* main at argument i; at those of failing it gives up if it may.
Argument(s, i, argv, failing) ==
    LET word == argv[i]
        rest == SubSeq(argv, i + 1, Len(argv))
    IN  IF s.end # "no" \/ word \notin Commands THEN s
        ELSE IF Len(rest) < Required(word)
        THEN [s EXCEPT !.end = Missing(word, Len(rest))]
        ELSE IF ValueRefused(word, rest)
        THEN [s EXCEPT !.end = "refused"]
        ELSE [ran |-> Append(s.ran, [word |-> word, operands |-> Operands(word, rest),
                                     options |-> Chosen(word, rest)]),
              end |-> IF word \in Final THEN "returned"
                      ELSE IF word \in Strict /\ i \in failing THEN "failed"
                      ELSE "no"]

Dispatch(argv, failing) ==
    FoldLeft(LAMBDA s, i : Argument(s, i, argv, failing),
             [ran |-> <<>>, end |-> "no"], [i \in DOMAIN argv |-> i])
=============================================================================
