---------------------------- MODULE Interpreter ----------------------------
(***************************************************************************)
(* mrn-run: a script, its lines and their words, and what it executes.     *)
(***************************************************************************)
EXTENDS Naturals, Sequences, SequencesExt, Sublists

CONSTANTS Directories   \* the paths a script can change to one after the other

\* chdir fails on an empty path.
ASSUME DirectoriesAssumption == \A d \in Directories : d # <<>> => Last(d) # <<>>

Break == "nl"

\* One character of getParse: a space ends a word, and so does the end of the
\* line, unless it is a space.
Word(s, char) ==
    IF char = " " THEN [words |-> Append(s.words, s.word), word |-> <<>>]
    ELSE [s EXCEPT !.word = Append(@, char)]

GetParse(line) ==
    LET s == FoldLeft(Word, [words |-> <<>>, word |-> <<>>], line)
    IN  IF s.word = <<>> THEN s.words ELSE Append(s.words, s.word)

IsCd(line) == Len(line) >= 2 /\ line[1] = "c" /\ line[2] = "d"

\* A command of runMrnFile: cd and the path after one character more, from where
\* the cds before it led, or a process, whose status nobody asks for.  A cd that
\* fails ends the script; one of fewer than three characters crashes it.
CdPath(line) == SubSeq(line, 4, Len(line))
Executed(s, line) ==
    IF s.ended THEN s
    ELSE IF IsCd(line)
    THEN IF Len(line) >= 3 /\ Append(s.directory, CdPath(line)) \in Directories
         THEN [s EXCEPT !.directory = Append(@, CdPath(line))]
         ELSE [s EXCEPT !.ended = TRUE]
    ELSE [s EXCEPT !.run = Append(@, [directory |-> s.directory,
                                      words |-> GetParse(line)])]

Start == [run |-> <<>>, directory |-> <<>>, ended |-> FALSE]

\* Mutant: what no newline ends is not run.
RunMrnFileUpTo(text) ==
    FoldLeft(LAMBDA s, char :
                 IF char = Break THEN [line |-> <<>>, at |-> Executed(s.at, s.line)]
                 ELSE [s EXCEPT !.line = Append(@, char)],
             [line |-> <<>>, at |-> Start], text).at

\* runMrnFile: at a newline, and at the last character when it is none.
RunMrnFile(text) ==
    LET s == FoldLeft(LAMBDA s, char :
                 IF char = Break THEN [line |-> <<>>, at |-> Executed(s.at, s.line)]
                 ELSE [s EXCEPT !.line = Append(@, char)],
             [line |-> <<>>, at |-> Start], text)
    IN  IF s.line = <<>> THEN s.at ELSE Executed(s.at, s.line)

-----------------------------------------------------------------------------
\* The reference: where each line and each word begins and ends.

\* The pieces of a text between the places where it has char.
Pieces(text, char) ==
    LET ends == {i \in DOMAIN text : text[i] = char} \union {Len(text) + 1}
        before(k) == IF k = 1 THEN 0 ELSE Place(ends, k - 1)
    IN  [k \in 1..Cardinality(ends) |-> SubSeq(text, before(k) + 1, Place(ends, k) - 1)]

\* The lines of a script; what follows its last newline is one if it is there.
Lines(text) ==
    LET p == Pieces(text, Break)
    IN  IF p[Len(p)] = <<>> THEN Front(p) ELSE p

\* Words with one space between two of them.
Plain(line) ==
    line # <<>> /\ \A k \in DOMAIN Pieces(line, " ") : Pieces(line, " ")[k] # <<>>
=============================================================================
