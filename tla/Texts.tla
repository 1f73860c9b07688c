------------------------------- MODULE Texts -------------------------------
(***************************************************************************)
(* The texts of mrn: what its rules accept, what its files hold and what   *)
(* its readers make of them, and the numbers it reads from operands.       *)
(*                                                                         *)
(* A text is a sequence of characters.  1024 is the constant Kilo, so that *)
(* the widths of C can be met with small numbers.                          *)
(***************************************************************************)
EXTENDS Integers, Sequences, SequencesExt

CONSTANTS
    Kilo,           \* 1024
    Period,         \* the microseconds of a period of the cpu, 100000
    NameLength,     \* the longest name the rules accept
    PathLength      \* the longest repository or path

ASSUME TextsAssumption ==
    /\ Kilo \in Nat \ {0, 1} /\ NameLength \in Nat /\ PathLength \in Nat
    /\ Period \in Nat \ {0} /\ Period % 2 = 0

NewLine == "nl"
Digit == {"0", "1", "2", "3", "4", "5", "6", "7", "8", "9"}

-----------------------------------------------------------------------------
\* The four files: one line for a record, each field ended by its separator.

Separators == [services |-> <<"^", "#", NewLine>>,
               jobs     |-> <<"^", "#", "$", "@", NewLine>>,
               env      |-> <<"tick", "^", NewLine>>,
               limits   |-> <<"^", "#", NewLine>>]

Avoids(text, chars) == \A i \in DOMAIN text : text[i] \notin chars

ValidName(text)   == Avoids(text, {" ", "^", "#"}) /\ Len(text) <= NameLength
ValidRepo(text)   == Avoids(text, {" ", "^", "#"}) /\ Len(text) <= PathLength
ValidJobName(text) == Avoids(text, {"^", "#", "$", "@"}) /\ Len(text) <= NameLength
ValidJobPath(text) == Avoids(text, {"^", "#", "$", "@"}) /\ Len(text) <= PathLength
ValidEnv(text)    == Avoids(text, {"tick", "^"})
Number(text)      == text # <<>> /\ \A i \in DOMAIN text : text[i] \in Digit

\* Mutant: the check for # is left out.
AcceptsHash(file, fields) ==
    CASE file = "services" -> /\ Avoids(fields[1], {" ", "^"})
                              /\ Avoids(fields[2], {" ", "^"})
      [] file = "jobs"     -> ValidJobName(fields[1]) /\ ValidJobPath(fields[2])
      [] file = "env"      -> \A k \in 1..3 : ValidEnv(fields[k])
      [] file = "limits"   -> ValidName(fields[1])

\* What main lets into a table; the other fields are numbers it prints itself.
Accepts(file, fields) ==
    CASE file = "services" -> ValidName(fields[1]) /\ ValidRepo(fields[2])
      [] file = "jobs"     -> ValidJobName(fields[1]) /\ ValidJobPath(fields[2])
      [] file = "env"      -> \A k \in 1..3 : ValidEnv(fields[k])
      [] file = "limits"   -> ValidName(fields[1])

\* What save_services, save_jobs, saveEnvs and saveLimits write.
Line(file, fields) ==
    FlattenSeq([k \in DOMAIN fields |-> Append(fields[k], Separators[file][k])])

Written(file, table) == FlattenSeq([i \in DOMAIN table |-> Line(file, table[i])])

\* One character of loadServices, loadJobs, loadEnvs or initLimits, whose state
\* is the number of the field it looks for the end of.
Taken(file, s, char) ==
    IF char # Separators[file][Len(s.fields) + 1]
    THEN [s EXCEPT !.field = Append(@, char)]
    ELSE IF Len(s.fields) + 1 < Len(Separators[file])
    THEN [s EXCEPT !.fields = Append(@, s.field), !.field = <<>>]
    ELSE [table |-> Append(s.table, Append(s.fields, s.field)),
          fields |-> <<>>, field |-> <<>>]

Read(file, text) ==
    FoldLeft(LAMBDA s, char : Taken(file, s, char),
             [table |-> <<>>, fields |-> <<>>, field |-> <<>>], text).table

-----------------------------------------------------------------------------
\* Numbers, on a 64-bit x86 with the C library of GNU.

Bytes   == [k |-> Kilo, m |-> Kilo * Kilo, g |-> Kilo * Kilo * Kilo,
            t |-> Kilo * Kilo * Kilo * Kilo]
Seconds == [m |-> 60, h |-> 3600, d |-> 24 * 3600]

IntMax  == 2 * Bytes.g - 1              \* 2^31 - 1
LongMax == 8 * Bytes.g * Bytes.g - 1    \* 2^63 - 1
Word64  == 16 * Bytes.g * Bytes.g       \* 2^64
Exact   == 8 * Bytes.k * Bytes.t        \* 2^53: a double holds the numbers below

Figures == <<"0", "1", "2", "3", "4", "5", "6", "7", "8", "9">>

\* uint128_to_chars, and printf.
Digits(n) ==
    LET from[m \in 0..n] ==
          IF m < 10 THEN <<Figures[m + 1]>>
          ELSE Append(from[m \div 10], Figures[(m % 10) + 1])
    IN  from[n]

\* The number that a text of digits writes.
Numeral(text) ==
    FoldLeft(LAMBDA n, char : 10 * n + (CHOOSE d \in 0..9 : Figures[d + 1] = char),
             0, text)

\* atol, atoll: up to the first character that is no digit, and to the largest
\* long.
Saturated(n) == IF n > LongMax THEN LongMax ELSE n
Leading(text) ==
    [i \in {k \in DOMAIN text : \A j \in 1..k : text[j] \in Digit} |-> text[i]]
Value(text) == Saturated(Numeral(Leading(text)))

\* An operand is a number below Exact, in halves, and the letters after it.
Whole(o) == o.halves \div 2

\* atoi: the lower half of the long, as an int.
Atoi(o) ==
    LET low == Whole(o) % (2 * (IntMax + 1))
    IN  IF low > IntMax THEN low - 2 * (IntMax + 1) ELSE low

Letters(o) == {o.letters[i] : i \in DOMAIN o.letters}
FirstUnit(o, units) ==
    o.letters[CHOOSE i \in DOMAIN o.letters :
                /\ o.letters[i] \in units
                /\ \A j \in 1..(i - 1) : o.letters[j] \notin units]
LastUnit(o, units) ==
    o.letters[CHOOSE i \in DOMAIN o.letters :
                /\ o.letters[i] \in units
                /\ \A j \in (i + 1)..Len(o.letters) : o.letters[j] \notin units]

\* Where 0 stands for no unit, or for less than one of it.
OrElse(n, m) == IF n # 0 THEN n ELSE m

\* formatTime: the last unit; the cast is before the product, which wraps.
FormatTime(o) ==
    IF Letters(o) \intersect DOMAIN Seconds = {} THEN Whole(o)
    ELSE OrElse((Whole(o) * Seconds[LastUnit(o, DOMAIN Seconds)]) % Word64, Whole(o))

\* convertToByte: the first of k, m and g; the cast is after the product, and
\* what an int cannot hold becomes INT_MIN on x86.
ConvertToByte(o) ==
    LET n == (o.halves * Bytes[FirstUnit(o, {"k", "m", "g"})]) \div 2
    IN  IF Letters(o) \intersect {"k", "m", "g"} = {} THEN Atoi(o)
        ELSE IF n > IntMax THEN -(IntMax + 1)
        ELSE OrElse(n, Atoi(o))

\* An int as an unsigned number of a wider type.
Unsigned(n, word) == IF n < 0 THEN n + word ELSE n

\* Mutant: without a unit the number is not read.
ConvertToByteLargeUnitOnly(o) ==
    IF "g" \in Letters(o)
    THEN OrElse((Whole(o) * Bytes.g) % Word64, Unsigned(Atoi(o), Word64))
    ELSE 0

\* convertToByte_F_LRG and convertToByte_F_EXTR know one unit each; without it,
\* or where the product of 64 bits wraps to 0, they read an int.
ConvertToByteLarge(o) ==
    IF "g" \in Letters(o)
    THEN OrElse((Whole(o) * Bytes.g) % Word64, Unsigned(Atoi(o), Word64))
    ELSE Unsigned(Atoi(o), Word64)
ConvertToByteExtreme(o) ==
    IF "t" \in Letters(o)
    THEN OrElse(Whole(o) * Bytes.t, Unsigned(Atoi(o), Word64 * Word64))
    ELSE Unsigned(Atoi(o), Word64 * Word64)

\* convertToBytes_JOB: the first of the four; 128 bits hold every product.
ConvertToBytesJob(o) ==
    IF Letters(o) \intersect DOMAIN Bytes = {} THEN Whole(o)
    ELSE Whole(o) * Bytes[FirstUnit(o, DOMAIN Bytes)]

\* convertToSeconds: microseconds in a period, for so many cores.
ConvertToSeconds(o) == o.halves * (Period \div 2)
=============================================================================
