------------------------------ MODULE MCTexts ------------------------------
(***************************************************************************)
(* Whether mrn takes what was typed: its command line, its operands, the   *)
(* files it writes and reads again, a script, and the limits of config job *)
(* up to the daemon that reads them.  Each behaviour is given one of them. *)
(***************************************************************************)
EXTENDS JobLimits, Inputs

CONSTANTS p1, p2
CONSTANT MaxScript      \* bound: the length of a script

\* d is in the start's directory and in itself, x in d alone.
MCDirectories == {<<<<"d">>>>, <<<<"d">>, <<"d">>>>, <<<<"d">>, <<"x">>>>}
Op(halves, letters) == [halves |-> halves, letters |-> letters]
MCCpu == {Op(1, <<>>)}
MCMem == {Op(2, <<"k">>), Op(6, <<"k">>)}
\* Around 0, and around what an int and 64 bits hold.
Halves == 0..9 \union {138, 498, 500, 3998, 4000}

\* Tables of up to two records; a field is one character, or two for one that
\* the rules refuse.
Field == {<<"x">>, <<"^">>, <<"#">>, <<"$">>, <<"tick">>, <<" ">>, <<NewLine>>, <<"x", "x">>}
Count == {Digits(0), Digits(70)}
Fields(f) ==
    CASE f = "services" -> {<<n, r, c>> : n \in Field, r \in Field, c \in Count}
      [] f = "jobs"     -> {<<n, r, c, Digits(5), Digits(1)>> : n \in Field, r \in Field, c \in Count}
      [] f = "env"      -> {<<n, k, v>> : n \in Field, k \in Field, v \in Field}
      [] f = "limits"   -> {<<n, c, Digits(4)>> : n \in Field, c \in Count}

\* A second record beside each, so that what one breaks shows in the other.
Beside(f) == [services |-> <<<<"x">>, <<"x">>, Digits(7)>>,
              jobs     |-> <<<<"x">>, <<"x">>, Digits(7), Digits(5), Digits(1)>>,
              env      |-> <<<<"x">>, <<"x">>, <<"x">>>>,
              limits   |-> <<<<"x">>, Digits(7), Digits(4)>>][f]

Cmd(word, operands, options) == [word |-> word, operands |-> operands, options |-> options]
Cmds == {Cmd("add", <<"r", "a">>, <<>>), Cmd("remove", <<"a">>, <<>>),
         Cmd("rename", <<"a", "b">>, <<>>), Cmd("list", <<>>, <<>>),
         Cmd("run", <<"a", "f">>, <<>>), Cmd("run", <<"a", "f">>, <<<<"--attach">>>>),
         Cmd("restart", <<"a", "f">>, <<>>), Cmd("stop", <<"a", "b">>, <<>>),
         Cmd("add-env", <<"a", "k", "v">>, <<>>), Cmd("add-job", <<"j", "f", "1">>, <<>>),
         Cmd("set-limit", <<"a">>, <<<<"-cpu", "1">>, <<"-mem", "5">>, <<"--type", "custom">>>>),
         Cmd("config", <<"job">>, <<<<"-mm", "5">>>>),
         Cmd("-m", <<"5">>, <<>>), Cmd("neglect-updates", <<>>, <<>>)}

MCInput ==
    {[kind |-> "config", together |-> t] : t \in BOOLEAN}
    \union UNION {{[kind |-> "table", file |-> f, table |-> t] :
                      t \in {<<r>> : r \in Fields(f)} \union {<<r, Beside(f)>> : r \in Fields(f)}} :
                    f \in Files}
    \union {[kind |-> "operand", operand |-> Op(h, l)] :
              h \in Halves, l \in BoundedSeq({"k", "m", "g", "t", "h", "d"}, 2)}
    \union {[kind |-> "line", parts |-> q, failing |-> x] :
              q \in BoundedSeq(Cmds, 3), x \in SUBSET (1..3)}
    \union {[kind |-> "script", text |-> FlattenSeq(t)] :
              t \in BoundedSeq({<<"c", "d", " ", "d", NewLine>>, <<"c", "d", " ", "x", NewLine>>,
                               <<"c", "d", " ", NewLine>>, <<"x", NewLine>>}, MaxScript - 1)}
    \union {[kind |-> "script", text |-> t] :
              t \in BoundedSeq({"c", "d", "x", " ", NewLine}, MaxScript)}

\* Bounds: two processes configure together, or one again and again, with all
\* the configurations and faults there are.
Together == 2
Bounded ==
    IF given.together THEN begun <= Together /\ faults < Together ELSE AtWork \subseteq {p1}

MCInit == Init /\ given \in Input
MCNext == given.kind = "config" /\ Next /\ UNCHANGED given /\ Bounded'
MCSpec == MCInit /\ [][MCNext]_<<vars, given>>
=============================================================================
