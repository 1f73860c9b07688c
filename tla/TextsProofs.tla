----------------------------- MODULE TextsProofs -----------------------------
(***************************************************************************)
(* Proofs about what mrn is given and what it keeps, for every text: the   *)
(* tables it saves and loads, the operands it converts, the numbers it     *)
(* prints and reads again, the scripts of mrn-run, and the limits of the   *)
(* job daemon with any number of processes, operands and faults.           *)
(***************************************************************************)
EXTENDS Inputs, JobLimits, SublistsProofs

-----------------------------------------------------------------------------
\* Operands.

\* A sequence of one entry.
LEMMA ShortText ==
  ASSUME NEW S, NEW l \in Seq(S), Len(l) <= 1, l # <<>>
  PROVE  DOMAIN l = {1} /\ Len(l) = 1
<1>1. Len(l) \in Nat /\ Len(l) # 0 /\ DOMAIN l = 1..Len(l)
  OBVIOUS
<1>2. Len(l) = 1
  BY <1>1
<1>. QED BY <1>1, <1>2

\* The first and the last unit of one letter are that letter.
LEMMA OneLetter ==
  ASSUME NEW o, o.letters \in Text, Len(o.letters) <= 1
  PROVE  /\ o.letters = <<>> => Letters(o) = {}
         /\ o.letters # <<>> =>
              /\ Letters(o) = {o.letters[1]}
              /\ \A units : o.letters[1] \in units =>
                   FirstUnit(o, units) = o.letters[1] /\ LastUnit(o, units) = o.letters[1]
<1> DEFINE l == o.letters
<1>1. l = <<>> => DOMAIN l = {}
  OBVIOUS
<1>2. l # <<>> => DOMAIN l = {1} /\ Len(l) = 1
  BY ShortText DEF Text
<1> HIDE DEF l
<1>3. l = <<>> => {l[i] : i \in DOMAIN l} = {}
  BY <1>1
<1>4. ASSUME l # <<>>, NEW units, l[1] \in units
      PROVE  FirstUnit(o, units) = l[1] /\ LastUnit(o, units) = l[1]
  <2>1. \A i \in DOMAIN l : i = 1
    BY <1>2, <1>4
  <2>2. 1 \in DOMAIN l /\ l[1] \in units
    BY <1>2, <1>4
  <2>3. (\A j \in 1..(1 - 1) : l[j] \notin units) /\ (\A j \in (1 + 1)..Len(l) : l[j] \notin units)
    BY <1>2, <1>4
  <2>4. (CHOOSE i \in DOMAIN l : l[i] \in units /\ \A j \in 1..(i - 1) : l[j] \notin units) = 1
    BY <2>1, <2>2, <2>3
  <2>5. (CHOOSE i \in DOMAIN l : l[i] \in units /\ \A j \in (i + 1)..Len(l) : l[j] \notin units) = 1
    BY <2>1, <2>2, <2>3
  <2>. QED BY <2>4, <2>5, Zenon DEF FirstUnit, LastUnit, l
<1>5. l # <<>> => {l[i] : i \in DOMAIN l} = {l[1]}
  BY <1>2
<1>. QED BY <1>3, <1>4, <1>5, Zenon DEF Letters, l

\* Half of a product is at most half of it, and half of it when it is even.
LEMMA Halves ==
  ASSUME NEW h \in Nat, NEW b \in Nat
  PROVE  /\ h \div 2 \in Nat /\ (h \div 2) * b \in Nat /\ h * b \in Nat
         /\ (h * b) \div 2 \in Nat
         /\ 2 * ((h \div 2) * b) <= h * b
         /\ 2 * ((h * b) \div 2) <= h * b
         /\ h % 2 = 0 => 2 * ((h \div 2) * b) = h * b /\ 2 * ((h * b) \div 2) = h * b
<1>1. PICK w \in Nat, r \in {0, 1} : h = 2 * w + r /\ h \div 2 = w /\ h % 2 = r
  <2>1. h \div 2 \in Nat /\ h % 2 \in {0, 1} /\ h = 2 * (h \div 2) + (h % 2)
    OBVIOUS
  <2>. QED BY <2>1
<1>2. w * b \in Nat /\ h * b \in Nat
  OBVIOUS
<1>3. h * b = 2 * (w * b) + r * b
  <2>1. h * b = (2 * w + r) * b
    BY <1>1
  <2>2. (2 * w + r) * b = 2 * (w * b) + r * b
    OBVIOUS
  <2>. QED BY <2>1, <2>2
<1>4. r * b \in Nat /\ (r = 0 => r * b = 0)
  OBVIOUS
<1> DEFINE x == h * b
<1>5. x \in Nat /\ x \div 2 \in Nat /\ 2 * (x \div 2) <= x
  BY <1>2
<1>6. (h % 2 = 0) => x = 2 * (w * b) /\ x \div 2 = w * b
  BY <1>1, <1>2, <1>3, <1>4
<1>. QED BY <1>1, <1>2, <1>3, <1>4, <1>5, <1>6

\* What a unit stands for, and which there are.
LEMMA Units ==
  /\ \A u \in DOMAIN Bytes : Bytes[u] \in Nat /\ Bytes[u] >= 2
  /\ \A u \in DOMAIN Seconds : Seconds[u] \in Nat /\ Seconds[u] >= 2
  /\ DOMAIN Bytes = {"k", "m", "g", "t"} /\ DOMAIN Seconds = {"m", "h", "d"}
  /\ IntMax \in Nat
<1>1. Kilo \in Nat /\ Kilo >= 2
  BY TextsAssumption
<1>2. \A a, b \in Nat : a >= 2 /\ b >= 2 => a * b \in Nat /\ a * b >= 2
  OBVIOUS
<1> DEFINE K2 == Kilo * Kilo
           K3 == K2 * Kilo
           K4 == K3 * Kilo
<1>3. K2 \in Nat /\ K2 >= 2
  BY <1>1, <1>2
<1> HIDE DEF K2
<1>4. K3 \in Nat /\ K3 >= 2
  BY <1>1, <1>2, <1>3
<1> HIDE DEF K3
<1>5. K4 \in Nat /\ K4 >= 2
  BY <1>1, <1>2, <1>4
<1> HIDE DEF K4
<1>6. Bytes = [k |-> Kilo, m |-> K2, g |-> K3, t |-> K4]
  BY DEF Bytes, K2, K3, K4
<1>7. /\ \A u \in DOMAIN Bytes : Bytes[u] \in Nat /\ Bytes[u] >= 2
      /\ DOMAIN Bytes = {"k", "m", "g", "t"}
      /\ Bytes.g = K3
  BY <1>1, <1>3, <1>4, <1>5, <1>6
<1>8. /\ \A u \in DOMAIN Seconds : Seconds[u] \in Nat /\ Seconds[u] >= 2
      /\ DOMAIN Seconds = {"m", "h", "d"}
  BY DEF Seconds
<1>9. IntMax \in Nat
  BY <1>4, <1>7 DEF IntMax
<1>. QED BY <1>7, <1>8, <1>9

\* How wide the types are: half of an operand that a double holds fits a long, and
\* so many of the largest unit fit 128 bits.
LEMMA Widths ==
  /\ IntMax \in Nat /\ LongMax \in Nat /\ Word64 \in Nat /\ Exact \in Nat
  /\ IntMax < LongMax /\ LongMax < Word64 /\ Exact <= LongMax
<1> DEFINE K3 == Kilo * Kilo * Kilo
           K5 == Kilo * (Kilo * Kilo * Kilo * Kilo)
<1>1. Kilo \in Nat /\ Kilo >= 2
  BY TextsAssumption
<1>2. \A a, b \in Nat : a >= 1 /\ b >= 1 => a * b \in Nat /\ a * b >= a /\ a * b >= 1
  <2>. SUFFICES ASSUME NEW a \in Nat, NEW b \in Nat, a >= 1, b >= 1
                PROVE  a * b \in Nat /\ a * b >= a /\ a * b >= 1
    OBVIOUS
  <2>1. PICK c \in Nat : b = c + 1
    <3>1. b - 1 \in Nat /\ b = (b - 1) + 1
      OBVIOUS
    <3>. QED BY <3>1
  <2>2. a * b = a * c + a /\ a * c \in Nat
    BY <2>1
  <2>. QED BY <2>2
<1>3. K3 \in Nat /\ K3 >= 2
  <2> DEFINE K2 == Kilo * Kilo
  <2>1. K2 \in Nat /\ K2 >= 2
    BY <1>1, <1>2
  <2> HIDE DEF K2
  <2>2. K2 * Kilo \in Nat /\ K2 * Kilo >= 2
    BY <1>1, <1>2, <2>1
  <2>. QED BY <2>2 DEF K2
<1>4. K5 \in Nat /\ K5 * Kilo = K3 * K3
  <2> DEFINE K2 == Kilo * Kilo
  <2>1. K2 \in Nat
    BY <1>1
  <2>. QED BY <1>1
<1>5. K5 >= 1
  <2> DEFINE K2 == Kilo * Kilo
             K4 == Kilo * Kilo * Kilo * Kilo
  <2>1. K3 * Kilo \in Nat /\ K3 * Kilo >= 1
    <3> HIDE DEF K3
    <3>. QED BY <1>1, <1>2, <1>3
  <2>2. K4 \in Nat /\ K4 >= 1
    BY <2>1
  <2> HIDE DEF K4
  <2>3. Kilo * K4 >= 1
    BY <1>1, <1>2, <2>2
  <2>. QED BY <2>3 DEF K4
<1>6. Bytes.g = K3 /\ Bytes.k = Kilo /\ Bytes.t = Kilo * Kilo * Kilo * Kilo
  BY DEF Bytes
<1> HIDE DEF K3
<1>7. K3 * K3 \in Nat /\ K3 * K3 >= K3
  BY <1>2, <1>3
<1>8. /\ IntMax = 2 * K3 - 1 /\ LongMax = 8 * (K3 * K3) - 1 /\ Word64 = 16 * (K3 * K3)
  BY <1>3, <1>6 DEF IntMax, LongMax, Word64
<1>9. Exact = 8 * K5
  <2>1. Exact = 8 * Kilo * (Kilo * Kilo * Kilo * Kilo)
    BY <1>6, Zenon DEF Exact
  <2>. QED BY <1>1, <2>1
<1> HIDE DEF K5
<1>10. K5 * Kilo = K5 * (Kilo - 1) + K5 /\ K5 * (Kilo - 1) >= K5
  BY <1>1, <1>2, <1>4, <1>5
<1> DEFINE K6 == K3 * K3
<1>11. K6 >= 2 * K5 /\ K6 \in Nat /\ K6 >= K3
  <2> DEFINE x == K5 * (Kilo - 1)
  <2>1. K6 = x + K5 /\ x >= K5 /\ x \in Nat
    BY <1>1, <1>2, <1>4, <1>5, <1>10
  <2> HIDE DEF x, K6
  <2>2. K6 >= 2 * K5
    BY <1>4, <2>1
  <2>. QED BY <1>7, <2>2 DEF K6
<1> HIDE DEF K6
<1>12. /\ IntMax = 2 * K3 - 1 /\ LongMax = 8 * K6 - 1 /\ Word64 = 16 * K6
  BY <1>8 DEF K6
<1>. QED BY <1>3, <1>4, <1>5, <1>9, <1>11, <1>12

\* Without one of its units a conversion reads the number; with one of them, so
\* many times as many.
LEMMA OneUnit ==
  ASSUME NEW o, o.letters \in Text, Len(o.letters) <= 1, o.letters # <<>>
  PROVE  /\ o.letters[1] \in {"k", "m", "g"} =>
              ConvertToByte(o) =
                LET n == (o.halves * Bytes[o.letters[1]]) \div 2
                IN  IF n > IntMax THEN -(IntMax + 1) ELSE OrElse(n, Atoi(o))
         /\ o.letters[1] = "g" =>
              ConvertToByteLarge(o) =
                OrElse((Whole(o) * Bytes.g) % Word64, Unsigned(Atoi(o), Word64))
         /\ o.letters[1] = "t" =>
              ConvertToByteExtreme(o) =
                OrElse(Whole(o) * Bytes.t, Unsigned(Atoi(o), Word64 * Word64))
         /\ o.letters[1] \in {"k", "m", "g", "t"} =>
              ConvertToBytesJob(o) = Whole(o) * Bytes[o.letters[1]]
         /\ o.letters[1] \in DOMAIN Seconds =>
              FormatTime(o) = OrElse((Whole(o) * Seconds[o.letters[1]]) % Word64, Whole(o))
<1> DEFINE u == o.letters[1]
<1>1. /\ Letters(o) = {u}
      /\ \A units : u \in units => FirstUnit(o, units) = u /\ LastUnit(o, units) = u
  BY OneLetter
<1> HIDE DEF u
<1>2. u \in {"k", "m", "g"} =>
        FirstUnit(o, {"k", "m", "g"}) = u /\ Letters(o) \intersect {"k", "m", "g"} # {}
  BY <1>1
<1>3. u \in {"k", "m", "g", "t"} =>
        FirstUnit(o, DOMAIN Bytes) = u /\ Letters(o) \intersect DOMAIN Bytes # {}
  BY <1>1, Units
<1>4. u \in DOMAIN Seconds =>
        LastUnit(o, DOMAIN Seconds) = u /\ Letters(o) \intersect DOMAIN Seconds # {}
  BY <1>1
<1>5. u \in {"k", "m", "g"} =>
              ConvertToByte(o) =
                LET n == (o.halves * Bytes[u]) \div 2
                IN  IF n > IntMax THEN -(IntMax + 1) ELSE OrElse(n, Atoi(o))
  BY <1>2, Zenon DEF ConvertToByte
<1>6. u = "g" => ConvertToByteLarge(o) =
                  OrElse((Whole(o) * Bytes.g) % Word64, Unsigned(Atoi(o), Word64))
  <2>1. u = "g" => "g" \in Letters(o)
    BY <1>1
  <2>. QED BY <2>1, Zenon DEF ConvertToByteLarge
<1>7. u = "t" => ConvertToByteExtreme(o) =
                  OrElse(Whole(o) * Bytes.t, Unsigned(Atoi(o), Word64 * Word64))
  <2>1. u = "t" => "t" \in Letters(o)
    BY <1>1
  <2>. QED BY <2>1, Zenon DEF ConvertToByteExtreme
<1>8. u \in {"k", "m", "g", "t"} => ConvertToBytesJob(o) = Whole(o) * Bytes[u]
  BY <1>3, Zenon DEF ConvertToBytesJob
<1>9. u \in DOMAIN Seconds =>
        FormatTime(o) = OrElse((Whole(o) * Seconds[u]) % Word64, Whole(o))
  BY <1>4, Zenon DEF FormatTime
<1>. QED BY <1>5, <1>6, <1>7, <1>8, <1>9, Zenon DEF u

\* Without a letter it knows each conversion reads the number alone, that of job
\* limits into 128 bits, the others as an int.
LEMMA NoUnit ==
  ASSUME NEW o, \/ Letters(o) = {}
                \/ \E u : Letters(o) = {u} /\ u \notin {"k", "m", "g", "t"}
  PROVE  /\ ConvertToByte(o) = Atoi(o)
         /\ ConvertToByteLarge(o) = Unsigned(Atoi(o), Word64)
         /\ ConvertToByteExtreme(o) = Unsigned(Atoi(o), Word64 * Word64)
         /\ ConvertToBytesJob(o) = Whole(o)
<1>1. /\ Letters(o) \intersect {"k", "m", "g"} = {} /\ Letters(o) \intersect DOMAIN Bytes = {}
      /\ "g" \notin Letters(o) /\ "t" \notin Letters(o)
  BY Units
<1>. QED BY <1>1, Zenon DEF ConvertToByte, ConvertToByteLarge, ConvertToByteExtreme,
                            ConvertToBytesJob

\* What fits an int is read by atoi, and is the same in a wider type.
LEMMA FitsAnInt ==
  ASSUME NEW o, Whole(o) \in Nat, Whole(o) <= IntMax
  PROVE  /\ Atoi(o) = Whole(o)
         /\ \A word : Unsigned(Atoi(o), word) = Whole(o)
<1>1. IntMax \in Nat
  BY Widths
<1>2. Whole(o) % (2 * (IntMax + 1)) = Whole(o)
  BY <1>1
<1>3. Atoi(o) = Whole(o)
  BY <1>1, <1>2 DEF Atoi
<1>. QED BY <1>3 DEF Unsigned

\* So many times a number, where it fits, is what is read, also when it is 0 and
\* the number alone is looked at.
LEMMA Scaled ==
  ASSUME NEW o, o.halves \in Nat, NEW b \in Nat, b >= 2
  PROVE  LET n == Whole(o) * b
         IN  /\ n \in Nat /\ 2 * n <= o.halves * b
             /\ o.halves % 2 = 0 => 2 * n = o.halves * b
             /\ OrElse(n, Whole(o)) = n
             /\ \A word : OrElse(n, Unsigned(Atoi(o), word)) = n
             /\ o.halves * b < 2 * Word64 => n % Word64 = n
<1> DEFINE h == o.halves
           n == Whole(o) * b
           y == h * b
<1>1. /\ Whole(o) \in Nat /\ n \in Nat /\ y \in Nat /\ 2 * n <= y
      /\ h % 2 = 0 => 2 * n = y
  BY Halves DEF Whole
<1>2. n = 0 => Whole(o) = 0
  BY <1>1
<1>3. Whole(o) = 0 => \A word : Unsigned(Atoi(o), word) = 0
  BY FitsAnInt, Widths
<1> HIDE DEF n, y
<1>4. OrElse(n, Whole(o)) = n /\ \A word : OrElse(n, Unsigned(Atoi(o), word)) = n
  BY <1>2, <1>3 DEF OrElse
<1>5. y < 2 * Word64 => n % Word64 = n
  BY <1>1, Widths
<1>. QED BY <1>1, <1>4, <1>5 DEF n, y

\* Every conversion reads an operand of at most one letter, its unit, exactly or
\* for less, where its type holds it.
LEMMA OperandExact ==
  ASSUME given.kind = "operand",
         given.operand.halves \in Nat, given.operand.letters \in Text
  PROVE  OperandsAreExact
<1> DEFINE o == given.operand
           h == o.halves
           unit == IF o.letters = <<>> THEN "" ELSE o.letters[1]
           says == IF unit = "" THEN h
                   ELSE h * (IF unit \in DOMAIN Bytes THEN Bytes[unit] ELSE 1)
           Reads(n) == 2 * n <= says /\ (h % 2 = 0 => 2 * n = says)
<1> HIDE DEF o
<1>. SUFFICES ASSUME Len(o.letters) <= 1
     PROVE  /\ unit \in {"", "k", "m", "g"} /\ says <= 2 * IntMax => Reads(ConvertToByte(o))
            /\ (unit = "" /\ says <= 2 * IntMax) \/ (unit = "g" /\ says < 2 * Word64)
               => Reads(ConvertToByteLarge(o))
            /\ (unit = "" /\ says <= 2 * IntMax) \/ unit = "t"
               => Reads(ConvertToByteExtreme(o))
            /\ unit \in {"", "k", "m", "g", "t"} => Reads(ConvertToBytesJob(o))
            /\ unit \in DOMAIN Seconds /\ h * Seconds[unit] < 2 * Word64 =>
                 /\ FormatTime(o) * 2 <= h * Seconds[unit]
                 /\ h % 2 = 0 => FormatTime(o) * 2 = h * Seconds[unit]
  BY Zenon DEF OperandsAreExact, o
<1>0. h \in Nat /\ o.letters \in Text
  BY DEF o
<1>1. Whole(o) = h \div 2 /\ Whole(o) \in Nat /\ 2 * Whole(o) <= h /\ (h % 2 = 0 => 2 * Whole(o) = h)
  BY <1>0 DEF Whole
<1>2. unit = "" => Letters(o) = {} \/ Letters(o) = {""}
  BY <1>0, OneLetter
<1>3. CASE unit = ""
  <2>1. /\ ConvertToByte(o) = Atoi(o)
        /\ ConvertToByteLarge(o) = Unsigned(Atoi(o), Word64)
        /\ ConvertToByteExtreme(o) = Unsigned(Atoi(o), Word64 * Word64)
        /\ ConvertToBytesJob(o) = Whole(o)
    BY <1>2, <1>3, NoUnit
  <2>2. Reads(Whole(o)) /\ unit \notin DOMAIN Seconds /\ unit \notin {"g", "t"} /\ says = h
    BY <1>1, <1>3, Units
  <2>3. h <= 2 * IntMax => Whole(o) <= IntMax
    BY <1>0, <1>1, Widths
  <2>4. h <= 2 * IntMax => Atoi(o) = Whole(o) /\ \A word : Unsigned(Atoi(o), word) = Whole(o)
    BY <1>1, <2>3, FitsAnInt
  <2> HIDE DEF unit, says, Reads, h
  <2>. QED BY <2>1, <2>2, <2>4, Zenon
<1>4. CASE unit # ""
  <2>1. o.letters # <<>> /\ unit = o.letters[1]
    BY <1>4
  <2> HIDE DEF unit
  <2>2. unit \in DOMAIN Seconds /\ h * Seconds[unit] < 2 * Word64 =>
                 /\ FormatTime(o) * 2 <= h * Seconds[unit]
                 /\ h % 2 = 0 => FormatTime(o) * 2 = h * Seconds[unit]
    <3>. SUFFICES ASSUME unit \in DOMAIN Seconds, h * Seconds[unit] < 2 * Word64
                  PROVE  /\ FormatTime(o) * 2 <= h * Seconds[unit]
                         /\ h % 2 = 0 => FormatTime(o) * 2 = h * Seconds[unit]
      OBVIOUS
    <3> DEFINE b == Seconds[unit]
               n == Whole(o) * b
    <3>1. FormatTime(o) = OrElse(n % Word64, Whole(o))
      BY <1>0, <2>1, OneUnit
    <3>2. b \in Nat /\ b >= 2
      BY Units
    <3> HIDE DEF b
    <3>3. /\ n \in Nat /\ 2 * n <= h * b /\ (h % 2 = 0 => 2 * n = h * b)
          /\ OrElse(n, Whole(o)) = n /\ (h * b < 2 * Word64 => n % Word64 = n)
      BY <1>0, <3>2, Scaled
    <3>4. h * b < 2 * Word64
      BY DEF b
    <3> DEFINE y == h * b
    <3> HIDE DEF n, y
    <3>5. FormatTime(o) = n
      BY <3>1, <3>3, <3>4 DEF y
    <3>6. FormatTime(o) * 2 <= y /\ (h % 2 = 0 => FormatTime(o) * 2 = y)
      <4>1. n * 2 = 2 * n
        BY <3>3
      <4>. QED BY <3>3, <3>5, <4>1 DEF y
    <3>. QED BY <3>6 DEF y, b
  <2>3. unit \in {"k", "m", "g", "t"} =>
          /\ says = h * Bytes[unit]
          /\ LET n == Whole(o) * Bytes[unit]
             IN  /\ Reads(n)
                 /\ \A word : OrElse(n, Unsigned(Atoi(o), word)) = n
                 /\ says < 2 * Word64 => n % Word64 = n
    <3>. SUFFICES ASSUME unit \in {"k", "m", "g", "t"}
                  PROVE  /\ says = h * Bytes[unit]
                         /\ LET n == Whole(o) * Bytes[unit]
                            IN  /\ Reads(n)
                                /\ \A word : OrElse(n, Unsigned(Atoi(o), word)) = n
                                /\ says < 2 * Word64 => n % Word64 = n
      OBVIOUS
    <3> DEFINE b == Bytes[unit]
               n == Whole(o) * b
    <3>1. b \in Nat /\ b >= 2 /\ says = h * b
      BY <1>4, Units
    <3> HIDE DEF b
    <3>2. /\ 2 * n <= h * b /\ (h % 2 = 0 => 2 * n = h * b)
          /\ \A word : OrElse(n, Unsigned(Atoi(o), word)) = n
          /\ h * b < 2 * Word64 => n % Word64 = n
      BY <1>0, <3>1, Scaled
    <3> HIDE DEF n, says
    <3>3. Reads(n) /\ (says < 2 * Word64 => n % Word64 = n)
      BY <3>1, <3>2
    <3> HIDE DEF Reads
    <3>. QED BY <3>1, <3>2, <3>3 DEF n, b
  <2>4. unit \in {"k", "m", "g"} /\ says <= 2 * IntMax => Reads(ConvertToByte(o))
    <3>. SUFFICES ASSUME unit \in {"k", "m", "g"}, says <= 2 * IntMax
                 PROVE  Reads(ConvertToByte(o))
      OBVIOUS
    <3> DEFINE b == Bytes[unit]
               y == h * b
               n == y \div 2
    <3>1. b \in Nat /\ b >= 2 /\ says = y
      BY <2>3, Units
    <3>2. ConvertToByte(o) = IF n > IntMax THEN -(IntMax + 1) ELSE OrElse(n, Atoi(o))
      BY <1>0, <2>1, OneUnit
    <3> HIDE DEF b, says
    <3>3. y \in Nat /\ n \in Nat /\ 2 * n <= y /\ (h % 2 = 0 => 2 * n = y)
      BY <1>0, <3>1, Halves
    <3>4. n = 0 => Atoi(o) = 0
      <4>1. h # 0 => y >= 2
        BY <1>0, <3>1
      <4>2. n = 0 => y < 2
        <5> HIDE DEF y
        <5>. QED BY <3>3
      <4>3. n = 0 => h = 0
        <5> HIDE DEF n
        <5>. QED BY <4>1, <4>2, <3>3
      <4>4. h = 0 => Whole(o) = 0
        BY <1>1, <1>0
      <4>. QED BY <4>3, <4>4, <1>1, FitsAnInt, Widths
    <3>. HIDE DEF n, y
    <3>5. n <= IntMax
      BY <3>1, <3>3, Units
    <3>6. ConvertToByte(o) = n
      BY <3>2, <3>3, <3>4, <3>5, Units DEF OrElse
    <3>. QED BY <3>1, <3>3, <3>6
  <2>5. unit = "g" /\ says < 2 * Word64 => Reads(ConvertToByteLarge(o))
    <3>1. unit = "g" => ConvertToByteLarge(o) =
                          OrElse((Whole(o) * Bytes[unit]) % Word64, Unsigned(Atoi(o), Word64))
      BY <1>0, <2>1, OneUnit
    <3> HIDE DEF Reads, says
    <3>. QED BY <2>3, <3>1
  <2>6. unit = "t" => Reads(ConvertToByteExtreme(o))
    <3>1. unit = "t" => ConvertToByteExtreme(o) =
                          OrElse(Whole(o) * Bytes[unit], Unsigned(Atoi(o), Word64 * Word64))
      BY <1>0, <2>1, OneUnit
    <3> HIDE DEF Reads, says
    <3>. QED BY <2>3, <3>1
  <2>7. unit \in {"k", "m", "g", "t"} => Reads(ConvertToBytesJob(o))
    <3>1. unit \in {"k", "m", "g", "t"} => ConvertToBytesJob(o) = Whole(o) * Bytes[unit]
      BY <1>0, <2>1, OneUnit
    <3> HIDE DEF Reads, says
    <3>. QED BY <2>3, <3>1
  <2> HIDE DEF Reads, says
  <2>. QED BY <1>4, <2>2, <2>4, <2>5, <2>6, <2>7
<1> HIDE DEF Reads, says, unit
<1>. QED BY <1>3, <1>4

\* Every number with at most one unit is read for what it says, by each conversion
\* that knows the unit and as long as its type holds it: an int, 64 or 128 bits
\* (format_time.c, mem_types.c, job_mem_format.c).
THEOREM OperandsAreRead == InputSpec => []OperandsAreExact
<1>1. ASSUME given \in Input PROVE OperandsAreExact
  <2>1. CASE given.kind = "operand"
    <3>1. given.operand.halves \in Nat /\ given.operand.letters \in Text
      BY <1>1, <2>1, InputAssumption, Widths
    <3>. QED BY <2>1, <3>1, OperandExact
  <2>2. CASE given.kind # "operand"
    BY <2>2, Zenon DEF OperandsAreExact
  <2>. QED BY <2>1, <2>2
<1>2. given \in Input /\ [UNCHANGED given]_given => (given \in Input)'
  OBVIOUS
<1>. QED BY <1>1, <1>2, PTL DEF InputSpec

-----------------------------------------------------------------------------
\* Folds.

\* A set of places that is not empty has a last one.
LEMMA LastPlace ==
  ASSUME NEW n \in Nat, NEW s \in SUBSET (1..n), s # {}
  PROVE  Max(s) \in s /\ \A i \in s : i <= Max(s)
<1> DEFINE Back == {k \in 0..n : n - k \in s}
<1>1. Back \in SUBSET Nat /\ Back # {}
  <2>1. PICK i \in s : TRUE
    OBVIOUS
  <2>2. i \in 1..n /\ n - i \in 0..n /\ n - (n - i) = i
    OBVIOUS
  <2>3. n - i \in Back
    BY <2>1, <2>2
  <2>4. Back \in SUBSET Nat
    OBVIOUS
  <2> HIDE DEF Back
  <2>. QED BY <2>3, <2>4
<1>2. PICK k \in Back : \A j \in Back : k <= j
  <2> HIDE DEF Back
  <2>. QED BY <1>1, LeastNumber
<1>3. n - k \in s /\ k \in 0..n
  BY <1>2
<1>4. \A i \in s : i <= n - k
  <2>. SUFFICES ASSUME NEW i \in s PROVE i <= n - k
    OBVIOUS
  <2>1. i \in 1..n
    OBVIOUS
  <2>2. n - i \in 0..n /\ n - (n - i) = i
    BY <2>1
  <2>3. k <= n - i
    BY <1>2, <2>2
  <2>. QED BY <1>3, <2>1, <2>3
<1>5. \A i \in s : i \in Nat
  OBVIOUS
<1>6. \E m \in s : \A i \in s : m >= i
  BY <1>3, <1>4, <1>5
<1>7. Max(s) \in s /\ \A i \in s : Max(s) >= i
  BY <1>6, Zenon DEF Max
<1>. QED BY <1>5, <1>7

\* The last of the places up to n.
LEMMA LastUpTo ==
  ASSUME NEW n \in Nat, n # 0
  PROVE  Max(1..n) = n
<1>1. 1..n # {} /\ 1..n \in SUBSET (1..n) /\ n \in 1..n
  OBVIOUS
<1>2. Max(1..n) \in 1..n /\ n <= Max(1..n)
  BY <1>1, LastPlace
<1>. QED BY <1>2

\* Applying one step for each place of a set of the places up to n, from its last
\* place down, yields a value in S for every such set.
Folded(iter, S, base, n, step) ==
    /\ iter \in [SUBSET (1..n) -> S]
    /\ \A s \in SUBSET (1..n) :
         iter[s] = IF s = {} THEN base ELSE step[Max(s)][iter[s \ {Max(s)}]]

\* There is such a function: the one for the places up to 0 is extended place by
\* place, which takes a function over sets in place of an induction over folds.
LEMMA Folding ==
  ASSUME NEW S, NEW base \in S, NEW n \in Nat, NEW step \in [1..n -> [S -> S]]
  PROVE  \E iter : Folded(iter, S, base, n, step)
<1> DEFINE Folds(iter, b) ==
             \A s \in SUBSET (1..b) :
               iter[s] = IF s = {} THEN base ELSE step[Max(s)][iter[s \ {Max(s)}]]
           T == {b \in 0..n : \E iter \in [SUBSET (1..b) -> S] : Folds(iter, b)}
<1>1. 0 \in T
  <2> DEFINE it == [s \in SUBSET (1..0) |-> base]
  <2>1. \A s \in SUBSET (1..0) : s = {}
    OBVIOUS
  <2>2. it \in [SUBSET (1..0) -> S] /\ Folds(it, 0)
    BY <2>1
  <2>3. 0 \in 0..n
    OBVIOUS
  <2> HIDE DEF it, Folds
  <2>. QED BY <2>2, <2>3
<1>2. ASSUME NEW b \in 0..(n - 1), b \in T PROVE b + 1 \in T
  <2>1. PICK it \in [SUBSET (1..b) -> S] : Folds(it, b)
    BY <1>2
  <2> DEFINE U == SUBSET (1..(b + 1))
             ti == [s \in U |-> IF b + 1 \in s THEN step[b + 1][it[s \ {b + 1}]] ELSE it[s]]
  <2>2. b \in Nat /\ b + 1 \in 1..n /\ b + 1 \in 0..n
    OBVIOUS
  <2>3. \A s \in U : s \ {b + 1} \in SUBSET (1..b) /\ (b + 1 \notin s => s \in SUBSET (1..b))
    BY <2>2
  <2>4. ti \in [U -> S]
    <3>1. \A s \in U : (IF b + 1 \in s THEN step[b + 1][it[s \ {b + 1}]] ELSE it[s]) \in S
      BY <2>2, <2>3
    <3>. QED BY <3>1
  <2>5. \A s \in SUBSET (1..b) : s \in U /\ b + 1 \notin s /\ ti[s] = it[s]
    BY <2>2
  <2>6. ASSUME NEW s \in U
        PROVE  ti[s] = IF s = {} THEN base ELSE step[Max(s)][ti[s \ {Max(s)}]]
    <3>1. CASE b + 1 \in s
      <4>1. Max(s) = b + 1
        <5>1. Max(s) \in s /\ b + 1 <= Max(s)
          <6>1. b + 1 \in Nat /\ s \in SUBSET (1..(b + 1)) /\ s # {}
            BY <2>2, <3>1
          <6>. QED BY <3>1, <6>1, LastPlace
        <5>2. Max(s) \in 1..(b + 1)
          BY <5>1
        <5>. QED BY <5>1, <5>2
      <4>2. ti[s] = step[b + 1][it[s \ {b + 1}]]
        BY <3>1
      <4>3. ti[s \ {b + 1}] = it[s \ {b + 1}]
        BY <2>3, <2>5
      <4> HIDE DEF ti
      <4>. QED BY <3>1, <4>1, <4>2, <4>3
    <3>2. CASE b + 1 \notin s
      <4>1. s \in SUBSET (1..b) /\ ti[s] = it[s]
        BY <2>3, <2>5, <3>2
      <4>2. CASE s = {}
        BY <2>1, <4>1, <4>2
      <4>3. CASE s # {}
        <5>1. s \ {Max(s)} \in SUBSET (1..b)
          BY <4>1
        <5>2. ti[s \ {Max(s)}] = it[s \ {Max(s)}]
          BY <2>5, <5>1
        <5> HIDE DEF ti
        <5>. QED BY <2>1, <4>1, <4>3, <5>2
      <4>. QED BY <4>2, <4>3
    <3>. QED BY <3>1, <3>2
  <2>7. Folds(ti, b + 1)
    BY <2>6
  <2> HIDE DEF ti, Folds
  <2>. QED BY <2>2, <2>4, <2>7
<1>3. n \in T
  <2> HIDE DEF T
  <2>1. 0..n \subseteq T
    BY <1>1, <1>2, NumbersUpTo
  <2>. QED BY <2>1
<1>4. PICK iter \in [SUBSET (1..n) -> S] : Folds(iter, n)
  BY <1>3
<1>5. Folded(iter, S, base, n, step)
  BY <1>4 DEF Folded
<1>. QED BY <1>5

\* The places up to i, and what is left of them without the last.
LEMMA UpToEachPlace ==
  ASSUME NEW n \in Nat
  PROVE  /\ \A i \in 0..n : 1..i \in SUBSET (1..n)
         /\ 1..0 = {} /\ 0 \in 0..n
         /\ \A i \in 1..n : /\ 1..i # {} /\ Max(1..i) = i
                            /\ (1..i) \ {i} = 1..(i - 1) /\ i - 1 \in 0..n /\ i \in 0..n
<1>1. ASSUME NEW i \in 1..n
      PROVE  1..i # {} /\ Max(1..i) = i /\ (1..i) \ {i} = 1..(i - 1)
  <2>1. i \in Nat /\ i # 0
    OBVIOUS
  <2>2. Max(1..i) = i
    BY <2>1, LastUpTo
  <2>. QED BY <2>1, <2>2
<1>2. \A i \in 0..n : 1..i \in SUBSET (1..n)
  OBVIOUS
<1>3. 1..0 = {} /\ 0 \in 0..n /\ \A i \in 1..n : i - 1 \in 0..n /\ i \in 0..n
  OBVIOUS
<1>. QED BY <1>1, <1>2, <1>3

-----------------------------------------------------------------------------
\* Reading a file.

\* The prover does not know that a literal is a string.
Symbol  == STRING \union {"^", "#", "$", "@", "tick", "nl"}
Symbols == Seq(Symbol)

State == [table : Seq(Seq(Symbols)), fields : Seq(Symbols), field : Symbols]
Begin == [table |-> <<>>, fields |-> <<>>, field |-> <<>>]

\* A reader starts in a state of its type ...
LEMMA BeginType == Begin \in State
<1>1. <<>> \in Seq(Seq(Symbols)) /\ <<>> \in Seq(Symbols) /\ <<>> \in Symbols
  BY DEF Symbols
<1>. QED BY <1>1 DEF Begin, State

\* ... and stays in it.
LEMMA TakenType ==
  ASSUME NEW f, NEW s \in State, NEW char \in Symbol
  PROVE  Taken(f, s, char) \in State
<1>1. s.table \in Seq(Seq(Symbols)) /\ s.fields \in Seq(Symbols) /\ s.field \in Symbols
  BY DEF State
<1>2. Append(s.field, char) \in Symbols /\ Append(s.fields, s.field) \in Seq(Symbols)
  BY <1>1 DEF Symbols
<1>3. Append(s.table, Append(s.fields, s.field)) \in Seq(Seq(Symbols)) /\ <<>> \in Symbols /\ <<>> \in Seq(Symbols)
  BY <1>1, <1>2 DEF Symbols
<1>4. /\ [s EXCEPT !.field = Append(@, char)] \in State
      /\ [s EXCEPT !.fields = Append(@, s.field), !.field = <<>>] \in State
      /\ [table |-> Append(s.table, Append(s.fields, s.field)),
          fields |-> <<>>, field |-> <<>>] \in State
  BY <1>1, <1>2, <1>3 DEF State
<1>. QED BY <1>4, Zenon DEF Taken

\* The reader f goes from s to t over a text, one character after the other.
Leads(f, s, text, t) ==
    \E g : /\ g[0] = s /\ g[Len(text)] = t
           /\ \A i \in 1..Len(text) : g[i] = Taken(f, g[i - 1], text[i])

\* What a file is read as is where its reader gets to from its beginning.
LEMMA ReadLeads ==
  ASSUME NEW f, NEW text \in Symbols, NEW t, Leads(f, Begin, text, t)
  PROVE  Read(f, text) = t.table
<1> DEFINE n == Len(text)
           P == SUBSET (1..n)
           step == [i \in 1..n |-> [s \in State |-> Taken(f, s, text[i])]]
           r == CHOOSE r : r = [s \in SUBSET (DOMAIN text) |-> 
                                  IF s = {} THEN Begin ELSE Taken(f, r[s \ {Max(s)}], text[Max(s)])]
<1>1. n \in Nat /\ DOMAIN text = 1..n /\ \A i \in 1..n : text[i] \in Symbol
  BY DEF Symbols
<1>2. step \in [1..n -> [State -> State]]
  BY <1>1, TakenType
<1>3. PICK iter : Folded(iter, State, Begin, n, step)
  BY <1>1, <1>2, BeginType, Folding
<1>14. iter \in [P -> State]
  BY <1>3 DEF Folded
<1>4. \A s \in P : iter[s] = IF s = {} THEN Begin
                             ELSE Taken(f, iter[s \ {Max(s)}], text[Max(s)])
  <2>. SUFFICES ASSUME NEW s \in P, s # {}
       PROVE  step[Max(s)][iter[s \ {Max(s)}]] = Taken(f, iter[s \ {Max(s)}], text[Max(s)])
    BY <1>3 DEF Folded
  <2>1. Max(s) \in 1..n
    BY <1>1, LastPlace
  <2>2. iter[s \ {Max(s)}] \in State
    BY <1>14
  <2>. QED BY <2>1, <2>2
<1>5. r = [s \in P |-> IF s = {} THEN Begin ELSE Taken(f, r[s \ {Max(s)}], text[Max(s)])]
  <2> DEFINE Is(x) == x = [s \in P |-> IF s = {} THEN Begin
                                        ELSE Taken(f, x[s \ {Max(s)}], text[Max(s)])]
  <2>1. Is(iter)
    BY <1>14, <1>4
  <2>2. Is(CHOOSE x : Is(x))
    <3> HIDE DEF Is
    <3>. QED BY <2>1
  <2>3. DOMAIN text = 1..n
    BY <1>1
  <2>. QED BY <2>2, <2>3, Zenon
<1>6. Read(f, text) = r[DOMAIN text].table
  BY Zenon DEF Read, FoldLeft, MapThenFoldSet, Begin
<1> HIDE DEF r
<1>7. r[1..0] = Begin /\ \A i \in 1..n : r[1..i] = Taken(f, r[1..(i - 1)], text[i])
  <2>1. \A s \in P : r[s] = IF s = {} THEN Begin ELSE Taken(f, r[s \ {Max(s)}], text[Max(s)])
    BY <1>5
  <2>2. /\ \A i \in 0..n : 1..i \in P
        /\ 1..0 = {} /\ 0 \in 0..n
        /\ \A i \in 1..n : /\ 1..i # {} /\ Max(1..i) = i
                            /\ (1..i) \ {i} = 1..(i - 1) /\ i - 1 \in 0..n /\ i \in 0..n
    BY <1>1, UpToEachPlace
  <2>3. r[1..0] = Begin
    BY <2>1, <2>2, Zenon
  <2>4. ASSUME NEW i \in 1..n
        PROVE  r[1..i] = Taken(f, r[1..(i - 1)], text[i])
    <3>1. 1..i \in P /\ 1..i # {} /\ Max(1..i) = i /\ (1..i) \ {i} = 1..(i - 1)
      BY <2>2
    <3> HIDE DEF P
    <3>. QED BY <2>1, <3>1
  <2>. QED BY <2>3, <2>4
<1>8. PICK g : /\ g[0] = Begin /\ g[n] = t
               /\ \A i \in 1..n : g[i] = Taken(f, g[i - 1], text[i])
  BY DEF Leads
<1> DEFINE T == {i \in 0..n : r[1..i] = g[i]}
<1>9. 0..n \subseteq T
  <2>1. 0 \in T
    BY <1>1, <1>7, <1>8
  <2>2. ASSUME NEW i \in 0..(n - 1), i \in T PROVE i + 1 \in T
    <3>1. i + 1 \in 1..n /\ (i + 1) - 1 = i /\ r[1..i] = g[i] /\ i + 1 \in 0..n
      BY <1>1, <2>2
    <3>2. r[1..(i + 1)] = Taken(f, r[1..i], text[i + 1])
      BY <1>7, <3>1
    <3>3. g[i + 1] = Taken(f, g[i], text[i + 1])
      BY <1>8, <3>1
    <3>. QED BY <3>1, <3>2, <3>3
  <2> HIDE DEF T
  <2>. QED BY <1>1, <2>1, <2>2, NumbersUpTo
<1>10. r[1..n] = t
  BY <1>1, <1>8, <1>9
<1>. QED BY <1>1, <1>6, <1>10

-----------------------------------------------------------------------------
\* One sequence of several.

\* The first entries of a sequence.
LEMMA FirstEntries ==
  ASSUME NEW S, NEW s \in Seq(S), NEW k \in 0..Len(s)
  PROVE  /\ SubSeq(s, 1, k) \in Seq(S) /\ Len(SubSeq(s, 1, k)) = k
         /\ \A i \in 1..k : SubSeq(s, 1, k)[i] = s[i]
<1>1. k \in Nat /\ k <= Len(s) /\ Len(s) \in Nat
  OBVIOUS
<1>. QED BY <1>1

\* Some entries of a sequence, with the next.
LEMMA OneFurther ==
  ASSUME NEW S, NEW s \in Seq(S), NEW j \in 0..(Len(s) - 1), NEW b \in 0..j
  PROVE  SubSeq(s, b + 1, j + 1) = Append(SubSeq(s, b + 1, j), s[j + 1])
<1>1. j \in Nat /\ b \in Nat /\ b <= j /\ j + 1 <= Len(s) /\ Len(s) \in Nat
  OBVIOUS
<1> DEFINE x == SubSeq(s, b + 1, j + 1)
           y == SubSeq(s, b + 1, j)
<1>2. x \in Seq(S) /\ Len(x) = j + 1 - b /\ \A i \in 1..(j + 1 - b) : x[i] = s[b + i]
  BY <1>1
<1>3. y \in Seq(S) /\ Len(y) = j - b /\ \A i \in 1..(j - b) : y[i] = s[b + i]
  BY <1>1
<1>4. s[j + 1] \in S
  BY <1>1
<1> HIDE DEF x, y
<1>5. /\ Append(y, s[j + 1]) \in Seq(S) /\ Len(Append(y, s[j + 1])) = j + 1 - b
      /\ \A i \in 1..(j - b) : Append(y, s[j + 1])[i] = y[i]
      /\ Append(y, s[j + 1])[j + 1 - b] = s[j + 1]
  BY <1>1, <1>3, <1>4
<1>6. \A i \in 1..(j + 1 - b) : x[i] = Append(y, s[j + 1])[i]
  <2>. SUFFICES ASSUME NEW i \in 1..(j + 1 - b) PROVE x[i] = Append(y, s[j + 1])[i]
    OBVIOUS
  <2>1. CASE i = j + 1 - b
    BY <1>1, <1>2, <1>5, <2>1
  <2>2. CASE i # j + 1 - b
    BY <1>1, <1>2, <1>3, <1>5, <2>2
  <2>. QED BY <2>1, <2>2
<1>7. x = Append(y, s[j + 1])
  BY <1>2, <1>5, <1>6
<1>. QED BY <1>7 DEF x, y

\* The first entries of a sequence, with the next.
LEMMA OneMore ==
  ASSUME NEW S, NEW s \in Seq(S), NEW k \in Nat, k + 1 <= Len(s)
  PROVE  /\ SubSeq(s, 1, k + 1) = Append(SubSeq(s, 1, k), s[k + 1])
         /\ SubSeq(s, 1, k) \in Seq(S) /\ s[k + 1] \in S /\ Len(SubSeq(s, 1, k)) = k
         /\ SubSeq(s, 1, 0) = <<>> /\ SubSeq(s, 1, Len(s)) = s
<1>1. Len(s) \in Nat /\ DOMAIN s = 1..Len(s)
  OBVIOUS
<1>2. SubSeq(s, 1, k) \in Seq(S) /\ Len(SubSeq(s, 1, k)) = k /\ s[k + 1] \in S
  BY <1>1
<1>3. SubSeq(s, 1, k + 1) \in Seq(S) /\ Len(SubSeq(s, 1, k + 1)) = k + 1
  BY <1>1
<1>4. \A i \in 1..(k + 1) : SubSeq(s, 1, k + 1)[i] = Append(SubSeq(s, 1, k), s[k + 1])[i]
  BY <1>1
<1>5. SubSeq(s, 1, k + 1) = Append(SubSeq(s, 1, k), s[k + 1])
  <2>1. Append(SubSeq(s, 1, k), s[k + 1]) \in Seq(S) /\ Len(Append(SubSeq(s, 1, k), s[k + 1])) = k + 1
    BY <1>2
  <2>. QED BY <1>3, <1>4, <2>1
<1>6. SubSeq(s, 1, 0) = <<>> /\ SubSeq(s, 1, Len(s)) = s
  BY <1>1
<1>. QED BY <1>2, <1>5, <1>6

\* What FlattenSeq computes, from its first sequence to its last.
Joined(g, ss) ==
    g[0] = <<>> /\ \A i \in 1..Len(ss) : g[i] = g[i - 1] \o ss[i]

\* FlattenSeq joins the sequences from the left, one after the other.
LEMMA FlattenJoins ==
  ASSUME NEW S, NEW ss \in Seq(Seq(S))
  PROVE  \E g : /\ g \in [0..Len(ss) -> Seq(S)] /\ Joined(g, ss)
                /\ FlattenSeq(ss) = g[Len(ss)]
<1> DEFINE n == Len(ss)
           step == [i \in 1..n |-> [x \in Seq(S) |-> x \o ss[i]]]
           h == CHOOSE h : h = [i \in 1..n |-> IF i = 1 THEN ss[i] ELSE h[i - 1] \o ss[i]]
<1>1. n \in Nat /\ \A i \in 1..n : ss[i] \in Seq(S)
  OBVIOUS
<1>2. step \in [1..n -> [Seq(S) -> Seq(S)]] /\ <<>> \in Seq(S)
  BY <1>1
<1>3. PICK iter : Folded(iter, Seq(S), <<>>, n, step)
  BY <1>1, <1>2, Folding
<1> DEFINE g == [i \in 0..n |-> iter[1..i]]
<1>4. /\ iter \in [SUBSET (1..n) -> Seq(S)]
      /\ \A s \in SUBSET (1..n) :
           iter[s] = IF s = {} THEN <<>> ELSE step[Max(s)][iter[s \ {Max(s)}]]
  BY <1>3 DEF Folded
<1>5. /\ \A i \in 0..n : 1..i \in SUBSET (1..n)
      /\ 1..0 = {} /\ 0 \in 0..n
      /\ \A i \in 1..n : /\ 1..i # {} /\ Max(1..i) = i
                         /\ (1..i) \ {i} = 1..(i - 1) /\ i - 1 \in 0..n /\ i \in 0..n
  BY <1>1, UpToEachPlace
<1>6. g \in [0..n -> Seq(S)] /\ g[0] = <<>>
  BY <1>4, <1>5
<1>7. ASSUME NEW i \in 1..n PROVE g[i] = g[i - 1] \o ss[i]
  <2>1. iter[1..i] = step[i][iter[1..(i - 1)]]
    <3> HIDE DEF step
    <3>. QED BY <1>4, <1>5
  <2>2. step[i][iter[1..(i - 1)]] = iter[1..(i - 1)] \o ss[i]
    BY <1>4, <1>5
  <2>. QED BY <1>5, <2>1, <2>2
<1>8. Joined(g, ss)
  BY <1>6, <1>7 DEF Joined
<1> HIDE DEF g
<1>9. CASE n = 0
  <2>1. ss = <<>> /\ FlattenSeq(ss) = ss
    BY <1>9 DEF FlattenSeq
  <2>. QED BY <1>6, <1>8, <1>9, <2>1
<1>10. CASE n # 0
  <2> DEFINE Is(x) == x = [i \in 1..n |-> IF i = 1 THEN ss[i] ELSE x[i - 1] \o ss[i]]
             k == [i \in 1..n |-> g[i]]
  <2>1. Is(k)
    <3>1. ASSUME NEW i \in 1..n
          PROVE  g[i] = IF i = 1 THEN ss[i] ELSE k[i - 1] \o ss[i]
      <4>1. CASE i = 1
        <5>1. g[1] = <<>> \o ss[1] /\ ss[1] \in Seq(S)
          <6>1. 1 \in 1..n /\ 1 - 1 = 0
            BY <1>10, <1>1
          <6>. QED BY <1>1, <1>6, <1>7, <6>1
        <5>. QED BY <4>1, <5>1
      <4>2. CASE i # 1
        <5>1. i - 1 \in 1..n
          BY <4>2
        <5>. QED BY <1>7, <4>2, <5>1
      <4>. QED BY <4>1, <4>2
    <3> HIDE DEF k
    <3>2. k = [i \in 1..n |-> g[i]]
      BY DEF k
    <3>. QED BY <3>1, <3>2
  <2>2. Is(CHOOSE x : Is(x))
    <3> HIDE DEF Is
    <3>. QED BY <2>1
  <2>3. Is(h)
    BY <2>2
  <2>4. FlattenSeq(ss) = h[n]
    BY <1>10, Zenon DEF FlattenSeq
  <2> HIDE DEF h
  <2> DEFINE T == {i \in 0..n : i # 0 => h[i] = g[i]}
  <2>5. 0..n \subseteq T
    <3>1. 0 \in T
      BY <1>1
    <3>2. ASSUME NEW i \in 0..(n - 1), i \in T PROVE i + 1 \in T
      <4>1. i + 1 \in 1..n /\ i + 1 \in 0..n /\ (i + 1) - 1 = i
        BY <1>1, <3>2
      <4>2. h[i + 1] = IF i + 1 = 1 THEN ss[i + 1] ELSE h[i] \o ss[i + 1]
        BY <2>3, <4>1
      <4>3. g[i + 1] = g[i] \o ss[i + 1]
        BY <1>7, <4>1
      <4>4. CASE i = 0
        <5>1. g[1] = <<>> \o ss[1] /\ ss[1] \in Seq(S)
          <6>1. i + 1 = 1
            BY <4>4
          <6>. QED BY <1>1, <1>6, <4>1, <4>3, <4>4, <6>1
        <5>. QED BY <4>1, <4>2, <4>4, <5>1
      <4>5. CASE i # 0
        <5>1. h[i] = g[i] /\ i + 1 # 1
          BY <1>1, <3>2, <4>5
        <5>. QED BY <4>1, <4>2, <4>3, <5>1
      <4>. QED BY <4>4, <4>5
    <3> HIDE DEF T
    <3>. QED BY <1>1, <3>1, <3>2, NumbersUpTo
  <2>6. FlattenSeq(ss) = g[n]
    BY <1>1, <1>10, <2>4, <2>5
  <2>. QED BY <1>6, <1>8, <2>6
<1>. QED BY <1>9, <1>10

\* One sequence more comes after all the others.
LEMMA FlattenGrows ==
  ASSUME NEW S, NEW ss \in Seq(Seq(S)), NEW x \in Seq(S)
  PROVE  /\ FlattenSeq(ss) \in Seq(S)
         /\ FlattenSeq(Append(ss, x)) = FlattenSeq(ss) \o x
<1> DEFINE n == Len(ss)
           tt == Append(ss, x)
<1>1. n \in Nat /\ tt \in Seq(Seq(S)) /\ Len(tt) = n + 1 /\ tt[n + 1] = x
      /\ \A i \in 1..n : tt[i] = ss[i]
  OBVIOUS
<1> HIDE DEF tt, n
<1>2. PICK g : g \in [0..n -> Seq(S)] /\ Joined(g, ss) /\ FlattenSeq(ss) = g[n]
  BY FlattenJoins DEF n
<1>3. PICK k : k \in [0..(n + 1) -> Seq(S)] /\ Joined(k, tt) /\ FlattenSeq(tt) = k[n + 1]
  BY <1>1, FlattenJoins
<1> DEFINE T == {i \in 0..n : g[i] = k[i]}
<1>4. 0..n \subseteq T
  <2>1. 0 \in T
    BY <1>1, <1>2, <1>3 DEF Joined
  <2>2. ASSUME NEW i \in 0..(n - 1), i \in T PROVE i + 1 \in T
    <3>1. i + 1 \in 1..n /\ i + 1 \in 1..(n + 1) /\ i + 1 \in 0..n /\ (i + 1) - 1 = i /\ g[i] = k[i]
      BY <1>1, <2>2
    <3>2. g[i + 1] = g[i] \o ss[i + 1]
      BY <1>2, <3>1 DEF Joined, n
    <3>3. k[i + 1] = k[i] \o tt[i + 1]
      BY <1>1, <1>3, <3>1 DEF Joined
    <3>. QED BY <1>1, <3>1, <3>2, <3>3
  <2> HIDE DEF T
  <2>. QED BY <1>1, <2>1, <2>2, NumbersUpTo
<1>5. g[n] = k[n]
  BY <1>1, <1>4
<1>6. k[n + 1] = k[n] \o x
  <2>1. n + 1 \in 1..(n + 1) /\ (n + 1) - 1 = n
    BY <1>1
  <2>. QED BY <1>1, <1>3, <2>1 DEF Joined
<1>7. n \in 0..n
  BY <1>1
<1>. QED BY <1>2, <1>3, <1>5, <1>6, <1>7 DEF tt

\* No sequences make the empty one.
LEMMA FlattenNothing == FlattenSeq(<<>>) = <<>>
BY DEF FlattenSeq

\* Where the entries of two texts are in the one they make.
LEMMA EndOfJoin ==
  ASSUME NEW a \in Symbols, NEW b \in Symbols
  PROVE  /\ a \o b \in Symbols /\ Len(a \o b) = Len(a) + Len(b)
         /\ \A i \in 1..Len(a) : (a \o b)[i] = a[i]
         /\ \A i \in 1..Len(b) : (a \o b)[Len(a) + i] = b[i]
<1>1. Len(a) \in Nat /\ Len(b) \in Nat /\ a \in Seq(Symbol) /\ b \in Seq(Symbol)
  BY DEF Symbols
<1>2. a \o b \in Seq(Symbol) /\ Len(a \o b) = Len(a) + Len(b)
  BY <1>1
<1>3. \A i \in 1..Len(a) : (a \o b)[i] = a[i]
  BY <1>1
<1>4. ASSUME NEW i \in 1..Len(b) PROVE (a \o b)[Len(a) + i] = b[i]
  <2>1. Len(a) + i \in 1..(Len(a) + Len(b)) /\ Len(a) + i > Len(a) /\ (Len(a) + i) - Len(a) = i
    BY <1>1
  <2>. QED BY <1>1, <2>1
<1>. QED BY <1>2, <1>3, <1>4 DEF Symbols

\* Over one text and then another.
LEMMA LeadsOn ==
  ASSUME NEW f, NEW s, NEW t, NEW u, NEW a \in Symbols, NEW b \in Symbols,
         Leads(f, s, a, t), Leads(f, t, b, u)
  PROVE  Leads(f, s, a \o b, u)
<1> DEFINE m == Len(a)
           n == Len(b)
           ab == a \o b
<1>1. /\ m \in Nat /\ n \in Nat /\ Len(ab) = m + n
      /\ \A i \in 1..m : ab[i] = a[i]
      /\ \A i \in 1..n : ab[m + i] = b[i]
  BY EndOfJoin DEF Symbols
<1>2. PICK g : g[0] = s /\ g[m] = t /\ \A i \in 1..m : g[i] = Taken(f, g[i - 1], a[i])
  BY DEF Leads
<1>3. PICK h : h[0] = t /\ h[n] = u /\ \A i \in 1..n : h[i] = Taken(f, h[i - 1], b[i])
  BY DEF Leads
<1> HIDE DEF m, n, ab
<1> DEFINE k == [i \in 0..(m + n) |-> IF i <= m THEN g[i] ELSE h[i - m]]
<1>4. \A i \in 0..m : k[i] = g[i]
  BY <1>1
<1>5. \A i \in 0..n : k[m + i] = h[i]
  <2>. SUFFICES ASSUME NEW i \in 0..n PROVE k[m + i] = h[i]
    OBVIOUS
  <2>1. CASE i = 0
    <3>1. k[m] = g[m] /\ m + i = m
      BY <1>1, <1>4, <2>1
    <3> HIDE DEF k
    <3>. QED BY <1>2, <1>3, <2>1, <3>1
  <2>2. CASE i # 0
    <3>1. m + i \in 0..(m + n) /\ ~(m + i <= m) /\ (m + i) - m = i
      BY <1>1, <2>2
    <3>. QED BY <3>1
  <2>. QED BY <2>1, <2>2
<1> HIDE DEF k
<1>6. ASSUME NEW i \in 1..(m + n) PROVE k[i] = Taken(f, k[i - 1], ab[i])
  <2>1. CASE i <= m
    <3>1. i \in 1..m /\ i \in 0..m /\ i - 1 \in 0..m
      BY <1>1, <2>1
    <3>. QED BY <1>1, <1>2, <1>4, <3>1
  <2>2. CASE ~(i <= m)
    <3>1. PICK j \in 1..n : i = m + j
      <4>1. i - m \in 1..n /\ i = m + (i - m)
        BY <1>1, <2>2
      <4>. QED BY <4>1
    <3>2. j \in 0..n /\ j - 1 \in 0..n /\ i - 1 = m + (j - 1)
      BY <1>1, <3>1
    <3>. QED BY <1>1, <1>3, <1>5, <3>1, <3>2
  <2>. QED BY <2>1, <2>2
<1>7. k[0] = s /\ k[m + n] = u
  <2>1. 0 \in 0..m /\ n \in 0..n
    BY <1>1
  <2>. QED BY <1>2, <1>3, <1>4, <1>5, <2>1
<1>8. Leads(f, s, ab, u)
  BY <1>1, <1>6, <1>7 DEF Leads
<1>. QED BY <1>8 DEF ab

\* Over a text without the separator that it looks for.
LEMMA LeadsOverField ==
  ASSUME NEW f, NEW r, NEW q, NEW text \in Symbols,
         \A i \in DOMAIN text : text[i] # Separators[f][Len(q) + 1]
  PROVE  Leads(f, [table |-> r, fields |-> q, field |-> <<>>], text,
               [table |-> r, fields |-> q, field |-> text])
<1> DEFINE n == Len(text)
           g == [i \in 0..n |-> [table |-> r, fields |-> q, field |-> SubSeq(text, 1, i)]]
<1>1. n \in Nat /\ DOMAIN text = 1..n /\ text \in Seq(Symbol)
  BY DEF Symbols
<1>2. ASSUME NEW i \in 1..n PROVE g[i] = Taken(f, g[i - 1], text[i])
  <2>1. i - 1 \in 0..n /\ i \in 0..n /\ i - 1 \in Nat /\ (i - 1) + 1 = i /\ i <= Len(text)
    BY <1>1
  <2>2. SubSeq(text, 1, i) = Append(SubSeq(text, 1, i - 1), text[i])
    BY <1>1, <2>1, OneMore
  <2> DEFINE s == [table |-> r, fields |-> q, field |-> SubSeq(text, 1, i - 1)]
  <2>3. g[i - 1] = s /\ s.fields = q
    BY <2>1
  <2>4. text[i] # Separators[f][Len(s.fields) + 1]
    BY <1>1, <2>3
  <2>5. Taken(f, s, text[i]) = [s EXCEPT !.field = Append(@, text[i])]
    <3> HIDE DEF s
    <3>. QED BY <2>4, Zenon DEF Taken
  <2>. QED BY <2>1, <2>2, <2>3, <2>5
<1>3. SubSeq(text, 1, 0) = <<>> /\ SubSeq(text, 1, n) = text
  BY <1>1
<1>4. g[0].field = SubSeq(text, 1, 0) /\ g[n].field = SubSeq(text, 1, n)
  BY <1>1
<1>5. /\ g[0] = [table |-> r, fields |-> q, field |-> <<>>]
      /\ g[n] = [table |-> r, fields |-> q, field |-> text]
  BY <1>1, <1>3
<1> HIDE DEF g
<1>. QED BY <1>2, <1>5 DEF Leads

\* Over the separator.
LEMMA LeadsOverSeparator ==
  ASSUME NEW f, NEW r, NEW q, NEW p, NEW c, c = Separators[f][Len(q) + 1]
  PROVE  Leads(f, [table |-> r, fields |-> q, field |-> p], <<c>>,
               IF Len(q) + 1 < Len(Separators[f])
               THEN [table |-> r, fields |-> Append(q, p), field |-> <<>>]
               ELSE [table |-> Append(r, Append(q, p)), fields |-> <<>>, field |-> <<>>])
<1> DEFINE s == [table |-> r, fields |-> q, field |-> p]
           t == IF Len(q) + 1 < Len(Separators[f])
                THEN [table |-> r, fields |-> Append(q, p), field |-> <<>>]
                ELSE [table |-> Append(r, Append(q, p)), fields |-> <<>>, field |-> <<>>]
           g == [i \in 0..1 |-> IF i = 0 THEN s ELSE t]
<1>1. Taken(f, s, c) = t
  <2>1. s.table = r /\ s.fields = q /\ s.field = p
    OBVIOUS
  <2>2. [s EXCEPT !.fields = Append(@, s.field), !.field = <<>>]
          = [table |-> r, fields |-> Append(q, p), field |-> <<>>]
    <3>1. [s EXCEPT !.fields = Append(@, s.field)]
            = [table |-> r, fields |-> Append(q, p), field |-> p]
      OBVIOUS
    <3>2. \A x, y : [[table |-> r, fields |-> x, field |-> p] EXCEPT !.field = y]
            = [table |-> r, fields |-> x, field |-> y]
      OBVIOUS
    <3>. QED BY <3>1, <3>2
  <2> HIDE DEF s
  <2>3. c = Separators[f][Len(s.fields) + 1]
    BY <2>1
  <2>4. Taken(f, s, c) =
          IF Len(s.fields) + 1 < Len(Separators[f])
          THEN [s EXCEPT !.fields = Append(@, s.field), !.field = <<>>]
          ELSE [table |-> Append(s.table, Append(s.fields, s.field)),
                fields |-> <<>>, field |-> <<>>]
    BY <2>3, Zenon DEF Taken
  <2>. QED BY <2>1, <2>2, <2>4
<1> HIDE DEF s, t
<1>2. Len(<<c>>) = 1 /\ <<c>>[1] = c
  OBVIOUS
<1>3. g[0] = s /\ g[1] = t /\ \A i \in 1..1 : i = 1 /\ i - 1 = 0
  OBVIOUS
<1> HIDE DEF g
<1>4. Leads(f, s, <<c>>, t)
  BY <1>1, <1>2, <1>3 DEF Leads
<1>. QED BY <1>4 DEF s, t

\* What the reader f does not take for the end of the k-th field.
Clear(f, r) == \A k \in DOMAIN r : \A i \in DOMAIN r[k] : r[k][i] # Separators[f][k]

\* The rules keep out of each field the separator after it, and so do digits.
LEMMA AcceptedIsClear ==
  ASSUME NEW f \in Files, NEW r \in Record(f), Accepts(f, r),
         f = "env" => Avoids(r[3], {NewLine})
  PROVE  /\ Clear(f, r)
         /\ r \in Seq(Symbols) /\ Len(r) = Len(Separators[f])
         /\ Len(r) \in Nat /\ Len(r) > 0
<1>1. /\ r \in Seq(Symbols) /\ Len(r) = Len(Separators[f])
      /\ \A k \in DOMAIN r \ Typed[f] : Number(r[k])
  <2>1. /\ r \in Seq(Text) /\ Len(r) = Len(Separators[f])
        /\ \A k \in DOMAIN r \ Typed[f] : Number(r[k])
    BY DEF Record
  <2>2. \A u \in Text : u \in Symbols
    BY DEF Text, Symbols, Symbol
  <2>. QED BY <2>1, <2>2
<1>2. \A k \in DOMAIN r : r[k] \in Symbols /\ DOMAIN r[k] = 1..Len(r[k])
  BY <1>1 DEF Symbols
<1>3. \A k \in DOMAIN r : Number(r[k]) => \A i \in DOMAIN r[k] : r[k][i] \in Digit
  BY DEF Number
<1>4. \A c \in Digit : c \notin {"^", "#", "$", "@", "tick", "nl", " "}
  BY DEF Digit
<1>5. CASE f = "services"
  <2>1. Separators[f] = <<"^", "#", "nl">> /\ Typed[f] = 1..2
    BY <1>5 DEF Separators, Typed, NewLine
  <2>2. Len(r) = 3 /\ DOMAIN r = {1, 2, 3}
    BY <1>1, <2>1
  <2>3. Avoids(r[1], {" ", "^", "#"}) /\ Avoids(r[2], {" ", "^", "#"})
    BY <1>5 DEF Accepts, ValidName, ValidRepo
  <2>0. Separators[f][1] = "^" /\ Separators[f][2] = "#" /\ Separators[f][3] = "nl"
    BY <2>1
  <2>4. Number(r[3])
    BY <1>1, <2>1, <2>2
  <2>5. \A i \in DOMAIN r[1] : r[1][i] # Separators[f][1]
    BY <2>0, <2>3 DEF Avoids
  <2>6. \A i \in DOMAIN r[2] : r[2][i] # Separators[f][2]
    BY <2>0, <2>3 DEF Avoids
  <2>7. \A i \in DOMAIN r[3] : r[3][i] # Separators[f][3]
    BY <1>3, <1>4, <2>0, <2>2, <2>4
  <2>8. Clear(f, r)
    BY <2>2, <2>5, <2>6, <2>7 DEF Clear
  <2>. QED BY <1>1, <2>2, <2>8
<1>6. CASE f = "jobs"
  <2>1. Separators[f] = <<"^", "#", "$", "@", "nl">> /\ Typed[f] = 1..2
    BY <1>6 DEF Separators, Typed, NewLine
  <2>2. Len(r) = 5 /\ DOMAIN r = {1, 2, 3, 4, 5}
    BY <1>1, <2>1
  <2>3. Avoids(r[1], {"^", "#", "$", "@"}) /\ Avoids(r[2], {"^", "#", "$", "@"})
    BY <1>6 DEF Accepts, ValidJobName, ValidJobPath
  <2>4. \A k \in {3, 4, 5} : Number(r[k])
    BY <1>1, <2>1, <2>2
  <2>5. \A i \in DOMAIN r[1] : r[1][i] # Separators[f][1]
    BY <2>1, <2>3 DEF Avoids
  <2>6. \A i \in DOMAIN r[2] : r[2][i] # Separators[f][2]
    BY <2>1, <2>3 DEF Avoids
  <2>7. \A k \in {3, 4, 5} : Separators[f][k] \in {"$", "@", "nl"}
    BY <2>1
  <2>8. \A k \in {3, 4, 5} : \A i \in DOMAIN r[k] : r[k][i] # Separators[f][k]
    BY <1>3, <1>4, <2>2, <2>4, <2>7
  <2>9. Clear(f, r)
    BY <2>2, <2>5, <2>6, <2>8 DEF Clear
  <2>. QED BY <1>1, <2>2, <2>9
<1>7. CASE f = "env"
  <2>1. Separators[f] = <<"tick", "^", "nl">>
    BY <1>7 DEF Separators, NewLine
  <2>2. Len(r) = 3 /\ DOMAIN r = {1, 2, 3}
    BY <1>1, <2>1
  <2>3. Avoids(r[1], {"tick", "^"}) /\ Avoids(r[2], {"tick", "^"}) /\ Avoids(r[3], {"nl"})
    BY <1>7 DEF Accepts, ValidEnv, NewLine
  <2>5. \A i \in DOMAIN r[1] : r[1][i] # Separators[f][1]
    BY <2>1, <2>3 DEF Avoids
  <2>6. \A i \in DOMAIN r[2] : r[2][i] # Separators[f][2]
    BY <2>1, <2>3 DEF Avoids
  <2>7. \A i \in DOMAIN r[3] : r[3][i] # Separators[f][3]
    BY <2>1, <2>3 DEF Avoids
  <2>8. Clear(f, r)
    BY <2>2, <2>5, <2>6, <2>7 DEF Clear
  <2>. QED BY <1>1, <2>2, <2>8
<1>8. CASE f = "limits"
  <2>1. Separators[f] = <<"^", "#", "nl">> /\ Typed[f] = {1}
    BY <1>8 DEF Separators, Typed, NewLine
  <2>2. Len(r) = 3 /\ DOMAIN r = {1, 2, 3}
    BY <1>1, <2>1
  <2>3. Avoids(r[1], {" ", "^", "#"})
    BY <1>8 DEF Accepts, ValidName
  <2>4. \A k \in {2, 3} : Number(r[k])
    BY <1>1, <2>1, <2>2
  <2>0. Separators[f][1] = "^"
    BY <2>1
  <2>5. \A i \in DOMAIN r[1] : r[1][i] # Separators[f][1]
    BY <2>0, <2>3 DEF Avoids
  <2>7. \A k \in {2, 3} : Separators[f][k] \in {"#", "nl"}
    BY <2>1
  <2>8. \A k \in {2, 3} : \A i \in DOMAIN r[k] : r[k][i] # Separators[f][k]
    BY <1>3, <1>4, <2>2, <2>4, <2>7
  <2>9. Clear(f, r)
    BY <2>2, <2>5, <2>8 DEF Clear
  <2>. QED BY <1>1, <2>2, <2>9
<1>. QED BY <1>5, <1>6, <1>7, <1>8 DEF Files

\* Over nothing, a reader stays where it is.
LEMMA LeadsNowhere ==
  ASSUME NEW f, NEW s
  PROVE  Leads(f, s, <<>>, s)
<1> DEFINE g == [i \in {0} |-> s]
<1>1. Len(<<>>) = 0 /\ g[0] = s /\ 1..0 = {}
  OBVIOUS
<1> HIDE DEF g
<1>. QED BY <1>1 DEF Leads

\* Over a line, a reader comes to its record.
LEMMA LeadsOverLine ==
  ASSUME NEW f, NEW t, NEW r \in Seq(Symbols), Clear(f, r), Len(r) > 0,
         Len(r) = Len(Separators[f]), \A k \in 1..Len(r) : Separators[f][k] \in Symbol
  PROVE  /\ Leads(f, [table |-> t, fields |-> <<>>, field |-> <<>>], Line(f, r),
                  [table |-> Append(t, r), fields |-> <<>>, field |-> <<>>])
         /\ Line(f, r) \in Symbols
<1> DEFINE n == Len(r)
           ss == [k \in DOMAIN r |-> Append(r[k], Separators[f][k])]
           At0 == [table |-> t, fields |-> <<>>, field |-> <<>>]
           Done(k) == [table |-> t, fields |-> SubSeq(r, 1, k), field |-> <<>>]
           part(k) == FlattenSeq(SubSeq(ss, 1, k))
           T == {k \in 0..(n - 1) : part(k) \in Symbols /\ Leads(f, At0, part(k), Done(k))}
<1>1. n \in Nat /\ n > 0 /\ DOMAIN r = 1..n /\ \A k \in 1..n : r[k] \in Symbols
  OBVIOUS
<1>2. /\ \A k \in 1..n : ss[k] = r[k] \o <<Separators[f][k]>> /\ ss[k] \in Symbols
      /\ ss \in Seq(Symbols) /\ Len(ss) = n
  <2>1. \A k \in 1..n : Append(r[k], Separators[f][k]) = r[k] \o <<Separators[f][k]>>
                        /\ Append(r[k], Separators[f][k]) \in Symbols
    <3>1. \A x \in Seq(Symbol), c \in Symbol : Append(x, c) = x \o <<c>> /\ Append(x, c) \in Seq(Symbol)
      OBVIOUS
    <3>. QED BY <1>1, <3>1 DEF Symbols
  <2>2. ss = [k \in 1..n |-> Append(r[k], Separators[f][k])]
    BY <1>1
  <2> HIDE DEF ss, n
  <2>3. \A k \in 1..n : ss[k] = r[k] \o <<Separators[f][k]>> /\ ss[k] \in Symbols
    BY <2>1, <2>2
  <2>4. ss \in [1..n -> Symbols]
    BY <2>2, <2>3
  <2>5. ss \in Seq(Symbols) /\ Len(ss) = n
    BY <1>1, <2>4
  <2>. QED BY <2>3, <2>5
<1>3. ASSUME NEW k \in 0..(n - 1), part(k) \in Symbols, Leads(f, At0, part(k), Done(k))
      PROVE  /\ part(k + 1) \in Symbols
             /\ Leads(f, At0, part(k + 1),
                      IF k + 1 < n THEN Done(k + 1)
                      ELSE [table |-> Append(t, r), fields |-> <<>>, field |-> <<>>])
  <2> DEFINE q == SubSeq(r, 1, k)
             c == Separators[f][k + 1]
  <2>1. k \in Nat /\ k + 1 \in 1..n /\ k + 1 <= n
    BY <1>1
  <2>2. /\ SubSeq(r, 1, k + 1) = Append(q, r[k + 1]) /\ Len(q) = k /\ q \in Seq(Symbols)
        /\ SubSeq(r, 1, n) = r
    BY <1>1, <2>1, OneMore
  <2>3. SubSeq(ss, 1, k + 1) = Append(SubSeq(ss, 1, k), ss[k + 1]) /\ SubSeq(ss, 1, k) \in Seq(Symbols)
    <3> HIDE DEF ss, n
    <3>. QED BY <1>1, <1>2, <2>1, OneMore
  <2>4. part(k + 1) = part(k) \o ss[k + 1]
    <3> HIDE DEF ss
    <3>1. ss[k + 1] \in Seq(Symbol) /\ SubSeq(ss, 1, k) \in Seq(Seq(Symbol))
      BY <1>2, <2>1, <2>3 DEF Symbols
    <3>. QED BY <2>3, <3>1, FlattenGrows
  <2> HIDE DEF part
  <2>5. Leads(f, Done(k), r[k + 1], [table |-> t, fields |-> q, field |-> r[k + 1]])
    <3>1. r[k + 1] \in Symbols /\ \A i \in DOMAIN r[k + 1] : r[k + 1][i] # Separators[f][Len(q) + 1]
      BY <1>1, <2>1, <2>2 DEF Clear
    <3> HIDE DEF q
    <3>2. Leads(f, [table |-> t, fields |-> q, field |-> <<>>], r[k + 1],
                [table |-> t, fields |-> q, field |-> r[k + 1]])
      BY <3>1, LeadsOverField
    <3>. QED BY <3>2 DEF q
  <2>6. Leads(f, [table |-> t, fields |-> q, field |-> r[k + 1]], <<c>>,
              IF k + 1 < n THEN Done(k + 1)
              ELSE [table |-> Append(t, r), fields |-> <<>>, field |-> <<>>])
    <3> HIDE DEF q, c
    <3>1. c = Separators[f][Len(q) + 1]
      BY <2>2 DEF c
    <3>2. Leads(f, [table |-> t, fields |-> q, field |-> r[k + 1]], <<c>>,
               IF Len(q) + 1 < Len(Separators[f])
               THEN [table |-> t, fields |-> Append(q, r[k + 1]), field |-> <<>>]
               ELSE [table |-> Append(t, Append(q, r[k + 1])), fields |-> <<>>, field |-> <<>>])
      BY <3>1, LeadsOverSeparator
    <3>3. CASE k + 1 < n
      BY <2>2, <3>2, <3>3
    <3>4. CASE ~(k + 1 < n)
      <4>1. k + 1 = n
        BY <2>1, <3>4
      <4>2. Append(q, r[k + 1]) = r
        BY <2>2, <4>1
      <4>. QED BY <2>2, <3>2, <3>4, <4>2
    <3>. QED BY <3>3, <3>4
  <2>7. <<c>> \in Symbols /\ r[k + 1] \in Symbols /\ r[k + 1] \o <<c>> \in Symbols
    BY <1>1, <2>1 DEF Symbols
  <2> HIDE DEF c, q
  <2> DEFINE z == IF k + 1 < n THEN Done(k + 1)
                  ELSE [table |-> Append(t, r), fields |-> <<>>, field |-> <<>>]
             y == [table |-> t, fields |-> q, field |-> r[k + 1]]
  <2> HIDE DEF z, y, At0, Done
  <2>8. Leads(f, Done(k), r[k + 1] \o <<c>>, z)
    BY <2>5, <2>6, <2>7, LeadsOn DEF z, y
  <2>9. Leads(f, At0, part(k) \o (r[k + 1] \o <<c>>), z)
    BY <1>3, <2>7, <2>8, LeadsOn
  <2>10. part(k) \o (r[k + 1] \o <<c>>) \in Symbols /\ ss[k + 1] = r[k + 1] \o <<c>>
    BY <1>2, <1>3, <2>1, <2>7, EndOfJoin DEF c
  <2>. QED BY <2>4, <2>9, <2>10 DEF z
<1>4. 0..(n - 1) \subseteq T
  <2>1. 0 \in T
    <3>1. SubSeq(ss, 1, 0) = <<>> /\ SubSeq(r, 1, 0) = <<>>
      <4> HIDE DEF ss
      <4>. QED BY <1>1, <1>2
    <3>2. part(0) = <<>> /\ <<>> \in Symbols
      <4>1. part(0) = FlattenSeq(<<>>)
        BY <3>1, Zenon
      <4>2. <<>> \in Symbols
        BY DEF Symbols
      <4> HIDE DEF part
      <4>. QED BY <4>1, <4>2, FlattenNothing
    <3> HIDE DEF part
    <3>3. Leads(f, At0, part(0), Done(0))
      BY <3>1, <3>2, LeadsNowhere
    <3>. QED BY <1>1, <3>2, <3>3
  <2>2. ASSUME NEW k \in 0..((n - 1) - 1), k \in T PROVE k + 1 \in T
    <3>1. k \in 0..(n - 1) /\ k + 1 < n /\ k + 1 \in 0..(n - 1)
      BY <1>1
    <3> HIDE DEF part, Done, At0
    <3>. QED BY <1>3, <2>2, <3>1
  <2>3. n - 1 \in Nat
    BY <1>1
  <2> HIDE DEF T
  <2>. QED BY <2>1, <2>2, <2>3, NumbersUpTo
<1>5. n - 1 \in 0..(n - 1) /\ (n - 1) + 1 = n
  BY <1>1
<1>6. /\ part(n) \in Symbols
      /\ Leads(f, At0, part(n), [table |-> Append(t, r), fields |-> <<>>, field |-> <<>>])
  <2> HIDE DEF part, Done, At0
  <2>1. n - 1 \in T
    BY <1>4, <1>5
  <2>2. ~((n - 1) + 1 < n)
    BY <1>1
  <2>. QED BY <1>3, <1>5, <2>1, <2>2
<1>7. part(n) = Line(f, r)
  <2>1. SubSeq(ss, 1, n) = ss
    <3> HIDE DEF ss
    <3>. QED BY <1>1, <1>2
  <2>. QED BY <2>1 DEF Line
<1>. QED BY <1>6, <1>7

\* Over what a table is written as, a reader comes to the table.
LEMMA ReadsBack ==
  ASSUME NEW f \in Files, NEW t \in Seq(Record(f)),
         \A i \in DOMAIN t : Accepts(f, t[i]) /\ (f = "env" => Avoids(t[i][3], {NewLine}))
  PROVE  Read(f, Written(f, t)) = t
<1> DEFINE n == Len(t)
           ll == [i \in DOMAIN t |-> Line(f, t[i])]
           Done(k) == [table |-> SubSeq(t, 1, k), fields |-> <<>>, field |-> <<>>]
           part(k) == FlattenSeq(SubSeq(ll, 1, k))
           T == {k \in 0..n : part(k) \in Symbols /\ Leads(f, Done(0), part(k), Done(k))}
<1>1. n \in Nat /\ DOMAIN t = 1..n /\ \A i \in 1..n : t[i] \in Record(f)
  OBVIOUS
<1>2. ASSUME NEW i \in 1..n, NEW u
      PROVE  /\ Line(f, t[i]) \in Symbols
             /\ Leads(f, [table |-> u, fields |-> <<>>, field |-> <<>>], Line(f, t[i]),
                      [table |-> Append(u, t[i]), fields |-> <<>>, field |-> <<>>])
  <2>1. t[i] \in Record(f) /\ Accepts(f, t[i]) /\ (f = "env" => Avoids(t[i][3], {NewLine}))
    BY <1>1
  <2>2. /\ Clear(f, t[i]) /\ t[i] \in Seq(Symbols) /\ Len(t[i]) = Len(Separators[f])
        /\ Len(t[i]) > 0
    BY <2>1, AcceptedIsClear
  <2>3. \A k \in 1..Len(Separators[f]) : Separators[f][k] \in Symbol
    <3>1. /\ f = "services" \/ f = "limits" => Separators[f] = <<"^", "#", "nl">>
          /\ f = "jobs" => Separators[f] = <<"^", "#", "$", "@", "nl">>
          /\ f = "env" => Separators[f] = <<"tick", "^", "nl">>
      BY DEF Separators, NewLine
    <3>2. \A k \in 1..Len(Separators[f]) :
            Separators[f][k] \in {"^", "#", "$", "@", "tick", "nl"}
      BY <3>1 DEF Files
    <3>. QED BY <3>2 DEF Symbol
  <2>. QED BY <2>2, <2>3, LeadsOverLine
<1>3. ll \in [1..n -> Symbols] /\ \A i \in 1..n : ll[i] = Line(f, t[i])
  BY <1>1, <1>2
<1>4. ll \in Seq(Symbols) /\ Len(ll) = n
  <2> HIDE DEF ll
  <2>. QED BY <1>1, <1>3
<1>5. 0..n \subseteq T
  <2>1. 0 \in T
    <3>1. SubSeq(ll, 1, 0) = <<>> /\ 0 \in 0..n
      <4> HIDE DEF ll
      <4>. QED BY <1>1, <1>4
    <3>2. part(0) = <<>> /\ <<>> \in Symbols
      <4>1. part(0) = FlattenSeq(<<>>)
        BY <3>1, Zenon
      <4>2. <<>> \in Symbols
        BY DEF Symbols
      <4> HIDE DEF part
      <4>. QED BY <4>1, <4>2, FlattenNothing
    <3> HIDE DEF part, Done
    <3>3. Leads(f, Done(0), part(0), Done(0))
      BY <3>2, LeadsNowhere
    <3>. QED BY <3>1, <3>2, <3>3
  <2>2. ASSUME NEW k \in 0..(n - 1), k \in T PROVE k + 1 \in T
    <3>1. k \in Nat /\ k + 1 \in 1..n /\ k + 1 <= n /\ k + 1 \in 0..n
      BY <1>1
    <3>2. SubSeq(t, 1, k + 1) = Append(SubSeq(t, 1, k), t[k + 1])
      BY <1>1, <3>1, OneMore
    <3>3. SubSeq(ll, 1, k + 1) = Append(SubSeq(ll, 1, k), ll[k + 1]) /\ SubSeq(ll, 1, k) \in Seq(Symbols)
      <4> HIDE DEF ll, n
      <4>. QED BY <1>4, <3>1, OneMore
    <3>4. part(k + 1) = part(k) \o ll[k + 1]
      <4> HIDE DEF ll
      <4>1. ll[k + 1] \in Seq(Symbol) /\ SubSeq(ll, 1, k) \in Seq(Seq(Symbol))
        BY <1>3, <3>1, <3>3 DEF Symbols
      <4>. QED BY <3>3, <4>1, FlattenGrows
    <3>5. Leads(f, Done(k), Line(f, t[k + 1]), Done(k + 1)) /\ Line(f, t[k + 1]) \in Symbols
      BY <1>2, <3>1, <3>2
    <3> HIDE DEF part, Done, ll
    <3>6. part(k) \in Symbols /\ Leads(f, Done(0), part(k), Done(k))
      BY <2>2
    <3>7. part(k + 1) = part(k) \o Line(f, t[k + 1])
      BY <1>3, <3>1, <3>4 DEF ll
    <3>8. Leads(f, Done(0), part(k) \o Line(f, t[k + 1]), Done(k + 1))
      BY <3>5, <3>6, LeadsOn
    <3>9. part(k + 1) \in Symbols /\ Leads(f, Done(0), part(k + 1), Done(k + 1))
      BY <3>5, <3>6, <3>7, <3>8, EndOfJoin
    <3>. QED BY <3>1, <3>9
  <2> HIDE DEF T
  <2>. QED BY <1>1, <2>1, <2>2, NumbersUpTo
<1>6. part(n) \in Symbols /\ Leads(f, Done(0), part(n), Done(n))
  <2> HIDE DEF part, Done
  <2>1. n \in 0..n
    BY <1>1
  <2>. QED BY <1>5, <2>1
<1>7. Done(0) = Begin /\ Done(n).table = t
  BY <1>1 DEF Begin
<1>8. part(n) = Written(f, t)
  <2>1. SubSeq(ll, 1, n) = ll
    <3> HIDE DEF ll
    <3>. QED BY <1>1, <1>4
  <2>. QED BY <2>1 DEF Written
<1> HIDE DEF part, Done
<1>. QED BY <1>6, <1>7, <1>8, ReadLeads

\* What the rules accept is read back as it was written, for every table of
\* every length.
THEOREM TablesAreReadBack == InputSpec => []AcceptedIsReadBack
<1>1. given \in Input => AcceptedIsReadBack
  <2>. SUFFICES ASSUME given \in Input, given.kind = "table",
                       \A i \in DOMAIN given.table :
                         /\ Accepts(given.file, given.table[i])
                         /\ given.file = "env" => Avoids(given.table[i][3], {NewLine})
       PROVE  Read(given.file, Written(given.file, given.table)) = given.table
    BY Zenon DEF AcceptedIsReadBack
  <2>1. given.file \in Files /\ given.table \in Seq(Record(given.file))
    BY InputAssumption
  <2>. QED BY <2>1, ReadsBack
<1>2. AcceptedIsReadBack /\ [UNCHANGED given]_given => AcceptedIsReadBack'
  BY DEF AcceptedIsReadBack
<1>. QED BY <1>1, <1>2, PTL DEF InputSpec

-----------------------------------------------------------------------------
\* Numbers, written and read.

Figure(char) == CHOOSE d \in 0..9 : Figures[d + 1] = char

\* A figure stands for the number it was taken for.
LEMMA FigureOf ==
  /\ \A d \in 0..9 : Figures[d + 1] \in Digit /\ Figure(Figures[d + 1]) = d
  /\ \A c \in Digit : Figure(c) \in 0..9
<1>1. \A d \in 0..9 : d \in {0, 1, 2, 3, 4, 5, 6, 7, 8, 9}
  OBVIOUS
<1>2. /\ Figures[1] = "0" /\ Figures[2] = "1" /\ Figures[3] = "2" /\ Figures[4] = "3"
      /\ Figures[5] = "4" /\ Figures[6] = "5" /\ Figures[7] = "6" /\ Figures[8] = "7"
      /\ Figures[9] = "8" /\ Figures[10] = "9"
  BY DEF Figures
<1>3. \A d \in 0..9 : Figures[d + 1] \in Digit
  BY <1>1, <1>2 DEF Digit
<1>4. \A d, e \in 0..9 : Figures[d + 1] = Figures[e + 1] => d = e
  BY <1>1, <1>2
<1>5. \A c \in Digit : \E d \in 0..9 : Figures[d + 1] = c
  <2>1. 0 + 1 = 1 /\ 1 + 1 = 2 /\ 2 + 1 = 3 /\ 3 + 1 = 4 /\ 4 + 1 = 5 /\ 5 + 1 = 6
        /\ 6 + 1 = 7 /\ 7 + 1 = 8 /\ 8 + 1 = 9 /\ 9 + 1 = 10
    OBVIOUS
  <2>. QED BY <1>2, <2>1 DEF Digit
<1>6. ASSUME NEW d \in 0..9 PROVE Figure(Figures[d + 1]) = d
  <2>1. \A e \in 0..9 : Figures[e + 1] = Figures[d + 1] => e = d
    BY <1>4
  <2>. QED BY <2>1, Zenon DEF Figure
<1>7. \A c \in Digit : Figure(c) \in 0..9
  BY <1>5, Zenon DEF Figure
<1>. QED BY <1>3, <1>6, <1>7

\* A text of digits leads to its value, one digit after the other.
Counts(g, text) ==
    g[0] = 0 /\ \A i \in 1..Len(text) : g[i] = 10 * g[i - 1] + Figure(text[i])

\* Numeral goes through the figures from the left.
LEMMA NumeralCounts ==
  ASSUME NEW text \in Seq(Digit)
  PROVE  \E g : /\ g \in [0..Len(text) -> Nat] /\ Counts(g, text)
                /\ Numeral(text) = g[Len(text)]
<1> DEFINE n == Len(text)
           P == SUBSET (1..n)
           step == [i \in 1..n |-> [x \in Nat |-> 10 * x + Figure(text[i])]]
           r == CHOOSE r : r = [s \in SUBSET (DOMAIN text) |->
                                  IF s = {} THEN 0
                                  ELSE 10 * r[s \ {Max(s)}] + Figure(text[Max(s)])]
<1>1. n \in Nat /\ DOMAIN text = 1..n /\ \A i \in 1..n : text[i] \in Digit
  OBVIOUS
<1>2. step \in [1..n -> [Nat -> Nat]]
  <2>1. \A i \in 1..n : Figure(text[i]) \in Nat
    BY <1>1, FigureOf
  <2>. QED BY <2>1
<1>3. PICK iter : Folded(iter, Nat, 0, n, step)
  BY <1>1, <1>2, Folding
<1>4. /\ iter \in [P -> Nat]
      /\ \A s \in P : iter[s] = IF s = {} THEN 0 ELSE step[Max(s)][iter[s \ {Max(s)}]]
  BY <1>3 DEF Folded
<1>5. \A s \in P : iter[s] = IF s = {} THEN 0
                             ELSE 10 * iter[s \ {Max(s)}] + Figure(text[Max(s)])
  <2>. SUFFICES ASSUME NEW s \in P, s # {}
       PROVE  step[Max(s)][iter[s \ {Max(s)}]] = 10 * iter[s \ {Max(s)}] + Figure(text[Max(s)])
    BY <1>4
  <2>1. Max(s) \in 1..n
    BY <1>1, LastPlace
  <2>2. iter[s \ {Max(s)}] \in Nat
    BY <1>4
  <2>. QED BY <2>1, <2>2
<1>6. r = [s \in P |-> IF s = {} THEN 0 ELSE 10 * r[s \ {Max(s)}] + Figure(text[Max(s)])]
  <2> DEFINE Is(x) == x = [s \in P |-> IF s = {} THEN 0
                                       ELSE 10 * x[s \ {Max(s)}] + Figure(text[Max(s)])]
  <2>1. Is(iter)
    BY <1>4, <1>5
  <2>2. Is(CHOOSE x : Is(x))
    <3> HIDE DEF Is
    <3>. QED BY <2>1
  <2>3. DOMAIN text = 1..n
    BY <1>1
  <2>. QED BY <2>2, <2>3, Zenon
<1>7. Numeral(text) = r[DOMAIN text]
  <2> DEFINE V(t) == FoldLeft(LAMBDA x, char : 10 * x + (CHOOSE d \in 0..9 : Figures[d + 1] = char),
                              0, t)
  <2>1. V(text) = r[DOMAIN text]
    BY Zenon DEF FoldLeft, MapThenFoldSet, Figure
  <2>2. Numeral(text) = V(text)
    BY Zenon DEF Numeral
  <2> HIDE DEF V
  <2>. QED BY <2>1, <2>2
<1> HIDE DEF r
<1>8. /\ \A i \in 0..n : 1..i \in P
      /\ 1..0 = {} /\ 0 \in 0..n
      /\ \A i \in 1..n : /\ 1..i # {} /\ Max(1..i) = i
                         /\ (1..i) \ {i} = 1..(i - 1) /\ i - 1 \in 0..n /\ i \in 0..n
  BY <1>1, UpToEachPlace
<1> DEFINE g == [i \in 0..n |-> r[1..i]]
<1>9. \A s \in P : r[s] = IF s = {} THEN 0 ELSE 10 * r[s \ {Max(s)}] + Figure(text[Max(s)])
  BY <1>6
<1>10. g[0] = 0
  BY <1>8, <1>9
<1>11. ASSUME NEW i \in 1..n PROVE g[i] = 10 * g[i - 1] + Figure(text[i])
  <2>1. /\ 1..i \in P /\ 1..i # {} /\ Max(1..i) = i /\ (1..i) \ {i} = 1..(i - 1)
        /\ i \in 0..n /\ i - 1 \in 0..n
    BY <1>8
  <2>2. r[1..i] = 10 * r[1..(i - 1)] + Figure(text[i])
    <3> HIDE DEF P
    <3>. QED BY <1>9, <2>1
  <2>. QED BY <2>1, <2>2
<1>12. g[n] = Numeral(text)
  BY <1>1, <1>7
<1> HIDE DEF g
<1>13. g \in [0..n -> Nat]
  <2> DEFINE T == {i \in 0..n : g[i] \in Nat}
  <2>1. 0 \in T
    BY <1>1, <1>10
  <2>2. ASSUME NEW i \in 0..(n - 1), i \in T PROVE i + 1 \in T
    <3>1. i + 1 \in 1..n /\ (i + 1) - 1 = i /\ i + 1 \in 0..n
      BY <1>1, <2>2
    <3>2. g[i + 1] = 10 * g[i] + Figure(text[i + 1])
      BY <1>11, <3>1
    <3>3. Figure(text[i + 1]) \in 0..9
      BY <1>1, <3>1, FigureOf
    <3>4. g[i] \in Nat
      BY <2>2
    <3>5. 10 * g[i] + Figure(text[i + 1]) \in Nat
      <4>1. \A a \in Nat, b \in 0..9 : 10 * a + b \in Nat
        OBVIOUS
      <4>. QED BY <3>3, <3>4, <4>1, Zenon
    <3>. QED BY <3>1, <3>2, <3>5
  <2>3. 0..n \subseteq T
    <3> HIDE DEF T
    <3>. QED BY <1>1, <2>1, <2>2, NumbersUpTo
  <2>. QED BY <2>3 DEF g
<1>. QED BY <1>10, <1>11, <1>12, <1>13 DEF Counts

\* One digit more makes ten times the value and the digit.
LEMMA NumeralGrows ==
  ASSUME NEW text \in Seq(Digit), NEW c \in Digit
  PROVE  /\ Numeral(text) \in Nat
         /\ Numeral(Append(text, c)) = 10 * Numeral(text) + Figure(c)
<1> DEFINE n == Len(text)
           tt == Append(text, c)
<1>1. /\ n \in Nat /\ tt \in Seq(Digit) /\ Len(tt) = n + 1 /\ tt[n + 1] = c
      /\ \A i \in 1..n : tt[i] = text[i]
  OBVIOUS
<1> HIDE DEF tt, n
<1>2. PICK g : g \in [0..n -> Nat] /\ Counts(g, text) /\ Numeral(text) = g[n]
  BY NumeralCounts DEF n
<1>3. PICK k : k \in [0..(n + 1) -> Nat] /\ Counts(k, tt) /\ Numeral(tt) = k[n + 1]
  BY <1>1, NumeralCounts
<1> DEFINE T == {i \in 0..n : g[i] = k[i]}
<1>4. 0..n \subseteq T
  <2>1. 0 \in T
    BY <1>1, <1>2, <1>3 DEF Counts
  <2>2. ASSUME NEW i \in 0..(n - 1), i \in T PROVE i + 1 \in T
    <3>1. i + 1 \in 1..n /\ i + 1 \in 1..(n + 1) /\ i + 1 \in 0..n /\ (i + 1) - 1 = i /\ g[i] = k[i]
      BY <1>1, <2>2
    <3>2. g[i + 1] = 10 * g[i] + Figure(text[i + 1])
      BY <1>2, <3>1 DEF Counts, n
    <3>3. k[i + 1] = 10 * k[i] + Figure(tt[i + 1])
      BY <1>1, <1>3, <3>1 DEF Counts
    <3>. QED BY <1>1, <3>1, <3>2, <3>3
  <2> HIDE DEF T
  <2>. QED BY <1>1, <2>1, <2>2, NumbersUpTo
<1>5. g[n] = k[n] /\ n \in 0..n
  BY <1>1, <1>4
<1>6. k[n + 1] = 10 * k[n] + Figure(c)
  <2>1. n + 1 \in 1..(n + 1) /\ (n + 1) - 1 = n
    BY <1>1
  <2>. QED BY <1>1, <1>3, <2>1 DEF Counts
<1>. QED BY <1>2, <1>3, <1>5, <1>6 DEF tt

\* What Digits computes, from 0 to its number.
Writes(g, n) ==
    \A m \in 0..n : g[m] = IF m < 10 THEN <<Figures[m + 1]>>
                           ELSE Append(g[m \div 10], Figures[(m % 10) + 1])

\* A number of several figures is the one without its last figure, and that.
LEMMA Tenth ==
  ASSUME NEW m \in Nat, m >= 10
  PROVE  /\ m \div 10 \in 0..(m - 1) /\ m % 10 \in 0..9
         /\ m = 10 * (m \div 10) + (m % 10)
OBVIOUS

\* Digits writes a number below 10 as its figure, and any other as the one without
\* its last figure, with that behind.
LEMMA DigitsWrites ==
  ASSUME NEW n \in Nat
  PROVE  \E g : g \in [0..n -> Seq(Digit)] /\ Writes(g, n) /\ Digits(n) = g[n]
<1> DEFINE T == {b \in 0..n : \E g \in [0..b -> Seq(Digit)] : Writes(g, b)}
<1>1. ASSUME NEW b \in 0..n, NEW g \in [0..(b - 1) -> Seq(Digit)], Writes(g, b - 1)
      PROVE  \E h \in [0..b -> Seq(Digit)] : Writes(h, b)
  <2> DEFINE last == IF b < 10 THEN <<Figures[b + 1]>>
                     ELSE Append(g[b \div 10], Figures[(b % 10) + 1])
             h == [m \in 0..b |-> IF m = b THEN last ELSE g[m]]
  <2>1. last \in Seq(Digit)
    <3>1. CASE b < 10
      <4>0. b \in 0..9
        BY <3>1
      <4>1. Figures[b + 1] \in Digit
        BY <4>0, FigureOf
      <4>. QED BY <3>1, <4>1
    <3>2. CASE ~(b < 10)
      <4>1. b \div 10 \in 0..(b - 1) /\ b % 10 \in 0..9
        BY <3>2, Tenth
      <4>2. g[b \div 10] \in Seq(Digit) /\ Figures[(b % 10) + 1] \in Digit
        BY <4>1, FigureOf
      <4>. QED BY <3>2, <4>2
    <3>. QED BY <3>1, <3>2
  <2>2. \A m \in 0..b : m # b => m \in 0..(b - 1)
    OBVIOUS
  <2>3. h \in [0..b -> Seq(Digit)]
    <3> HIDE DEF last
    <3>. QED BY <2>1, <2>2
  <2>4. ASSUME NEW m \in 0..b
        PROVE  h[m] = IF m < 10 THEN <<Figures[m + 1]>>
                      ELSE Append(h[m \div 10], Figures[(m % 10) + 1])
    <3>1. ~(m < 10) => m \div 10 \in 0..b /\ m \div 10 # b /\ h[m \div 10] = g[m \div 10]
      <4>1. ~(m < 10) => m \div 10 \in 0..(m - 1)
        BY Tenth
      <4>. QED BY <4>1
    <3>2. CASE m = b
      BY <3>1, <3>2
    <3>3. CASE m # b
      <4>1. h[m] = g[m] /\ m \in 0..(b - 1)
        BY <2>2, <3>3
      <4>2. g[m] = IF m < 10 THEN <<Figures[m + 1]>>
                   ELSE Append(g[m \div 10], Figures[(m % 10) + 1])
        BY <1>1, <4>1 DEF Writes
      <4> HIDE DEF h
      <4>. QED BY <3>1, <4>1, <4>2
    <3>. QED BY <3>2, <3>3
  <2> HIDE DEF h
  <2>. QED BY <2>3, <2>4 DEF Writes
<1>2. 0 \in T
  <2> DEFINE e == [m \in 0..(0 - 1) |-> <<>>]
  <2>1. e \in [0..(0 - 1) -> Seq(Digit)] /\ Writes(e, 0 - 1) /\ 0 \in 0..n
    BY DEF Writes
  <2> HIDE DEF e
  <2>. QED BY <1>1, <2>1
<1>3. ASSUME NEW b \in 0..(n - 1), b \in T PROVE b + 1 \in T
  <2>1. b + 1 \in 0..n /\ (b + 1) - 1 = b
    OBVIOUS
  <2>2. PICK g \in [0..b -> Seq(Digit)] : Writes(g, b)
    BY <1>3
  <2>3. g \in [0..((b + 1) - 1) -> Seq(Digit)] /\ Writes(g, (b + 1) - 1)
    BY <2>1, <2>2
  <2>4. \E h \in [0..(b + 1) -> Seq(Digit)] : Writes(h, b + 1)
    BY <1>1, <2>1, <2>3
  <2>. QED BY <2>1, <2>4
<1>4. PICK k \in [0..n -> Seq(Digit)] : Writes(k, n)
  <2> HIDE DEF T
  <2>1. 0..n \subseteq T
    BY <1>2, <1>3, NumbersUpTo
  <2>2. n \in T
    BY <2>1
  <2>. QED BY <2>2 DEF T
<1> DEFINE Is(x) == x = [m \in 0..n |-> IF m < 10 THEN <<Figures[m + 1]>>
                                        ELSE Append(x[m \div 10], Figures[(m % 10) + 1])]
           f == CHOOSE x : Is(x)
<1>5. Is(k)
  BY <1>4 DEF Writes
<1>6. Is(f)
  <2> HIDE DEF Is
  <2>. QED BY <1>5
<1>7. Digits(n) = f[n]
  BY Zenon DEF Digits
<1> HIDE DEF f
<1>8. Writes(f, n)
  BY <1>6 DEF Writes
<1> DEFINE U == {b \in 0..n : \A m \in 0..b : f[m] \in Seq(Digit)}
<1>9. ASSUME NEW b \in 0..n, \A m \in 0..(b - 1) : f[m] \in Seq(Digit)
      PROVE  f[b] \in Seq(Digit)
  <2>1. CASE b < 10
    <3>1. b \in 0..9
      BY <2>1
    <3>2. Figures[b + 1] \in Digit
      BY <3>1, FigureOf
    <3>3. f[b] = <<Figures[b + 1]>>
      BY <1>8, <2>1 DEF Writes
    <3>. QED BY <3>2, <3>3
  <2>2. CASE ~(b < 10)
    <3>1. b \div 10 \in 0..(b - 1) /\ b % 10 \in 0..9
      BY <2>2, Tenth
    <3>2. f[b \div 10] \in Seq(Digit) /\ Figures[(b % 10) + 1] \in Digit
      BY <1>9, <3>1, FigureOf
    <3>3. f[b] = Append(f[b \div 10], Figures[(b % 10) + 1])
      BY <1>8, <2>2 DEF Writes
    <3>. QED BY <3>2, <3>3
  <2>. QED BY <2>1, <2>2
<1>10. 0..n \subseteq U
  <2>1. 0 \in U
    <3>1. \A m \in 0..(0 - 1) : f[m] \in Seq(Digit)
      OBVIOUS
    <3>2. f[0] \in Seq(Digit) /\ 0 \in 0..n
      BY <1>9, <3>1
    <3>3. \A m \in 0..0 : m = 0
      OBVIOUS
    <3>. QED BY <3>2, <3>3
  <2>2. ASSUME NEW b \in 0..(n - 1), b \in U PROVE b + 1 \in U
    <3>1. b + 1 \in 0..n /\ (b + 1) - 1 = b
      OBVIOUS
    <3>2. f[b + 1] \in Seq(Digit)
      BY <1>9, <2>2, <3>1
    <3>3. \A m \in 0..(b + 1) : m = b + 1 \/ m \in 0..b
      OBVIOUS
    <3>. QED BY <2>2, <3>1, <3>2, <3>3
  <2> HIDE DEF U
  <2>. QED BY <2>1, <2>2, NumbersUpTo
<1>11. f \in [0..n -> Seq(Digit)]
  <2>0. n \in 0..n
    OBVIOUS
  <2>1. \A m \in 0..n : f[m] \in Seq(Digit)
    BY <1>10, <2>0
  <2>2. DOMAIN f = 0..n /\ f = [m \in DOMAIN f |-> f[m]]
    BY <1>6
  <2>. QED BY <2>1, <2>2
<1>. QED BY <1>7, <1>8, <1>11

\* Of nothing but digits all are read.
LEMMA ValueOfDigits ==
  ASSUME NEW text \in Seq(Digit)
  PROVE  Value(text) = Saturated(Numeral(text))
<1>1. DOMAIN text = 1..Len(text) /\ \A i \in 1..Len(text) : text[i] \in Digit
  OBVIOUS
<1>2. {k \in DOMAIN text : \A j \in 1..k : text[j] \in Digit} = DOMAIN text
  BY <1>1
<1>3. Leading(text) = [i \in DOMAIN text |-> text[i]]
  BY <1>2, Zenon DEF Leading
<1>4. Leading(text) = text
  BY <1>3
<1>. QED BY <1>4, Zenon DEF Value

\* A text without a digit is read as 0.
LEMMA NothingIsZero == <<>> \in Seq(Digit) /\ Numeral(<<>>) = 0 /\ Value(<<>>) = 0
<1>1. <<>> \in Seq(Digit) /\ Len(<<>>) = 0
  OBVIOUS
<1>2. Numeral(<<>>) = 0
  BY <1>1, NumeralCounts DEF Counts
<1>3. ~(0 > LongMax)
  BY Widths
<1>. QED BY <1>1, <1>2, <1>3, ValueOfDigits DEF Saturated

\* A number is written in digits that stand for it, and read from them as what it
\* was, up to the largest long.
THEOREM DigitsAreRead ==
  ASSUME NEW n \in Nat
  PROVE  /\ Digits(n) \in Seq(Digit) \ {<<>>} /\ Numeral(Digits(n)) = n
         /\ Value(Digits(n)) = Saturated(n)
<1>1. PICK g : g \in [0..n -> Seq(Digit)] /\ Writes(g, n) /\ Digits(n) = g[n]
  BY DigitsWrites
<1> DEFINE Good(m) == g[m] # <<>> /\ Numeral(g[m]) = m
           T == {b \in 0..n : \A m \in 0..b : Good(m)}
<1>2. Numeral(<<>>) = 0 /\ <<>> \in Seq(Digit)
  BY NothingIsZero
<1>3. ASSUME NEW b \in 0..n, \A m \in 0..(b - 1) : Good(m)
      PROVE  Good(b)
  <2>1. CASE b < 10
    <3>1. b \in 0..9 /\ Figures[b + 1] \in Digit /\ Figure(Figures[b + 1]) = b
      BY <2>1, FigureOf
    <3>2. g[b] = <<Figures[b + 1]>>
      BY <1>1, <2>1 DEF Writes
    <3>3. <<Figures[b + 1]>> = Append(<<>>, Figures[b + 1])
      OBVIOUS
    <3>4. Numeral(g[b]) = 10 * Numeral(<<>>) + Figure(Figures[b + 1])
      BY <1>2, <3>1, <3>2, <3>3, NumeralGrows
    <3>. QED BY <1>2, <3>1, <3>2, <3>4
  <2>2. CASE ~(b < 10)
    <3>1. b \div 10 \in 0..(b - 1) /\ b % 10 \in 0..9 /\ b = 10 * (b \div 10) + (b % 10)
          /\ b \div 10 \in 0..n
      BY <2>2, Tenth
    <3>2. g[b] = Append(g[b \div 10], Figures[(b % 10) + 1])
      BY <1>1, <2>2 DEF Writes
    <3>3. Numeral(g[b \div 10]) = b \div 10 /\ g[b \div 10] \in Seq(Digit)
      BY <1>1, <1>3, <3>1
    <3>4. Figures[(b % 10) + 1] \in Digit /\ Figure(Figures[(b % 10) + 1]) = b % 10
      BY <3>1, FigureOf
    <3>5. Numeral(g[b]) = 10 * (b \div 10) + (b % 10)
      BY <3>2, <3>3, <3>4, NumeralGrows
    <3>6. g[b] # <<>>
      BY <3>2, <3>3, <3>4
    <3>. QED BY <3>1, <3>5, <3>6
  <2>. QED BY <2>1, <2>2
<1> HIDE DEF Good
<1>4. 0..n \subseteq T
  <2>1. 0 \in T
    <3>1. \A m \in 0..(0 - 1) : Good(m)
      OBVIOUS
    <3>2. Good(0) /\ 0 \in 0..n
      BY <1>3, <3>1
    <3>3. \A m \in 0..0 : m = 0
      OBVIOUS
    <3>. QED BY <3>2, <3>3
  <2>2. ASSUME NEW b \in 0..(n - 1), b \in T PROVE b + 1 \in T
    <3>1. b + 1 \in 0..n /\ (b + 1) - 1 = b
      OBVIOUS
    <3>2. Good(b + 1)
      BY <1>3, <2>2, <3>1
    <3>3. \A m \in 0..(b + 1) : m = b + 1 \/ m \in 0..b
      OBVIOUS
    <3>. QED BY <2>2, <3>1, <3>2, <3>3
  <2> HIDE DEF T
  <2>. QED BY <2>1, <2>2, NumbersUpTo
<1>5. Good(n) /\ g[n] \in Seq(Digit)
  <2>1. n \in 0..n
    OBVIOUS
  <2>. QED BY <1>1, <1>4, <2>1
<1>6. Digits(n) \in Seq(Digit) \ {<<>>} /\ Numeral(Digits(n)) = n
  BY <1>1, <1>5 DEF Good
<1>. QED BY <1>6, ValueOfDigits

-----------------------------------------------------------------------------
\* The pieces of a text.

Cuts(text, c) == {i \in DOMAIN text : text[i] = c} \union {Len(text) + 1}

\* The last cut up to place i, or 0.
Behind(text, c, i) ==
    IF UpTo(Cuts(text, c), i) = 0 THEN 0 ELSE Place(Cuts(text, c), UpTo(Cuts(text, c), i))

\* There is a piece up to each cut.
LEMMA PiecesAre ==
  ASSUME NEW S, NEW text \in Seq(S), NEW c
  PROVE  LET E == Cuts(text, c)
             p == Pieces(text, c)
         IN  /\ E \in SUBSET (1..(Len(text) + 1))
             /\ p \in Seq(Seq(S)) /\ Len(p) = Cardinality(E) /\ Len(p) \in Nat /\ Len(p) >= 1
             /\ \A k \in 1..Len(p) :
                  p[k] = SubSeq(text, (IF k = 1 THEN 0 ELSE Place(E, k - 1)) + 1, Place(E, k) - 1)
<1> DEFINE n == Len(text)
           E == Cuts(text, c)
           p == Pieces(text, c)
           card == Cardinality(E)
           before(k) == IF k = 1 THEN 0 ELSE Place(E, k - 1)
<1>1. n \in Nat /\ DOMAIN text = 1..n /\ n + 1 \in Nat
  OBVIOUS
<1>2. E \in SUBSET (1..(n + 1)) /\ n + 1 \in E
  BY <1>1 DEF Cuts
<1> HIDE DEF E
<1>3. card \in Nat /\ card >= 1
  <2>1. card \in Nat
    BY <1>1, <1>2, PlacesFinite
  <2>2. UpTo(E, n + 1) \in 1..card
    BY <1>1, <1>2, PlaceIs
  <2>. QED BY <2>1, <2>2
<1>4. p = [k \in 1..card |-> SubSeq(text, before(k) + 1, Place(E, k) - 1)]
  BY Zenon DEF Pieces, E, Cuts
<1>5. \A k \in 1..card : Place(E, k) \in 1..(n + 1)
  BY <1>1, <1>2, PlaceExists
<1>6. ASSUME NEW k \in 1..card
      PROVE  SubSeq(text, before(k) + 1, Place(E, k) - 1) \in Seq(S)
  <2>1. before(k) \in Nat /\ Place(E, k) - 1 \in 0..n
    <3>1. k # 1 => k - 1 \in 1..card
      BY <1>3
    <3>. QED BY <1>1, <1>5, <3>1
  <2> HIDE DEF before
  <2>. QED BY <1>1, <2>1
<1> HIDE DEF p
<1>7. p \in [1..card -> Seq(S)] /\ \A k \in 1..card : p[k] = SubSeq(text, before(k) + 1, Place(E, k) - 1)
  BY <1>4, <1>6
<1>8. p \in Seq(Seq(S)) /\ Len(p) = card
  BY <1>3, <1>7
<1>. QED BY <1>2, <1>3, <1>7, <1>8 DEF p, E

\* From one character to the next.
LEMMA PieceByPiece ==
  ASSUME NEW S, NEW text \in Seq(S), NEW c
  PROVE  LET E == Cuts(text, c)
             p == Pieces(text, c)
             n == Len(text)
         IN  /\ UpTo(E, 0) = 0 /\ Behind(text, c, 0) = 0
             /\ UpTo(E, n) = Len(p) - 1
             /\ p[Len(p)] = SubSeq(text, Behind(text, c, n) + 1, n)
             /\ \A i \in 0..n : UpTo(E, i) \in 0..(Len(p) - 1) /\ Behind(text, c, i) \in 0..i
             /\ \A i \in 0..(n - 1) :
                  /\ text[i + 1] = c =>
                       /\ UpTo(E, i + 1) = UpTo(E, i) + 1 /\ Behind(text, c, i + 1) = i + 1
                       /\ p[UpTo(E, i) + 1] = SubSeq(text, Behind(text, c, i) + 1, i)
                  /\ text[i + 1] # c =>
                       UpTo(E, i + 1) = UpTo(E, i) /\ Behind(text, c, i + 1) = Behind(text, c, i)
<1> DEFINE n == Len(text)
           E == Cuts(text, c)
           p == Pieces(text, c)
           B(i) == Behind(text, c, i)
           N == n + 1
<1>1. n \in Nat /\ DOMAIN text = 1..n /\ N \in Nat
  OBVIOUS
<1>2. /\ E \in SUBSET (1..N)
      /\ p \in Seq(Seq(S)) /\ Len(p) = Cardinality(E) /\ Len(p) \in Nat /\ Len(p) >= 1
      /\ \A k \in 1..Len(p) :
           p[k] = SubSeq(text, (IF k = 1 THEN 0 ELSE Place(E, k - 1)) + 1, Place(E, k) - 1)
  BY PiecesAre
<1>3. n + 1 \in E /\ \A i \in 0..(n - 1) : i + 1 \in E <=> text[i + 1] = c
  BY <1>1 DEF Cuts
<1>4. \A i \in 0..n : B(i) = IF UpTo(E, i) = 0 THEN 0 ELSE Place(E, UpTo(E, i))
  BY DEF Behind
<1> HIDE DEF E, p, B
<1>0. \A j \in E : j \in Nat /\ j <= N
  BY <1>1, <1>2
<1>5. \A i \in 0..N : UpTo(E, i) \in Nat
  <2>1. \A i \in Nat : UpTo(E, i) \in Nat
    BY <1>1, <1>2, PlacesFinite
  <2>2. \A i \in 0..N : i \in Nat
    BY <1>1
  <2>. QED BY <2>1, <2>2
<1>6. UpTo(E, 0) = 0 /\ UpTo(E, n + 1) = Len(p)
  BY <1>1, <1>2, UpToEnds
<1>7. \A i \in 0..n : /\ i + 1 \in E => UpTo(E, i + 1) = UpTo(E, i) + 1
                      /\ i + 1 \notin E => UpTo(E, i + 1) = UpTo(E, i)
  <2>1. \A i \in Nat : /\ i + 1 \in E => UpTo(E, i + 1) = UpTo(E, i) + 1
                       /\ i + 1 \notin E => UpTo(E, i + 1) = UpTo(E, i)
    BY <1>1, <1>2, UpToStep
  <2>. QED BY <2>1
<1>8. UpTo(E, n) = Len(p) - 1
  <2>1. n \in 0..n
    BY <1>1
  <2>. QED BY <1>1, <1>2, <1>3, <1>5, <1>6, <1>7, <2>1
<1>9. \A i \in 0..n : UpTo(E, i) <= UpTo(E, n)
  <2>. SUFFICES ASSUME NEW i \in 0..n PROVE UpTo(E, i) <= UpTo(E, n)
    OBVIOUS
  <2> DEFINE P == {j \in E : j <= i}
             Q == {j \in E : j <= n}
  <2>1. P \in SUBSET Q
    <3>1. i \in Nat /\ i <= n
      BY <1>1
    <3>. QED BY <1>0, <1>1, <3>1
  <2>2. IsFiniteSet(Q)
    BY <1>1, <1>2, PlacesFinite
  <2> HIDE DEF P, Q
  <2>3. Cardinality(P) <= Cardinality(Q)
    BY <2>1, <2>2, FS_Subset
  <2>. QED BY <2>3 DEF UpTo, P, Q
<1>10. \A i \in 0..n : UpTo(E, i) \in 0..(Len(p) - 1)
  <2>1. \A i \in 0..n : i \in 0..N
    BY <1>1
  <2>. QED BY <1>2, <1>5, <1>8, <1>9, <2>1
<1>11. \A i \in 0..n : B(i) \in 0..i
  <2>. SUFFICES ASSUME NEW i \in 0..n, UpTo(E, i) # 0 PROVE B(i) \in 0..i
    BY <1>4
  <2>1. UpTo(E, i) \in 1..Cardinality(E)
    BY <1>2, <1>10
  <2>2. B(i) \in E /\ UpTo(E, B(i)) = UpTo(E, i)
    BY <1>1, <1>2, <1>4, <2>1, PlaceExists
  <2>3. B(i) \in Nat
    <3> HIDE DEF B
    <3>. QED BY <1>0, <2>2
  <2>4. B(i) <= i
    <3>. SUFFICES ASSUME ~(B(i) <= i) PROVE FALSE
      OBVIOUS
    <3>1. i < B(i) /\ B(i) - 1 \in 0..n /\ (B(i) - 1) + 1 = B(i) /\ i <= B(i) - 1
      BY <1>1, <1>2, <2>2, <2>3
    <3>2. UpTo(E, B(i)) = UpTo(E, B(i) - 1) + 1
      BY <1>7, <2>2, <3>1
    <3>3. UpTo(E, i) <= UpTo(E, B(i) - 1)
      <4> DEFINE m == B(i) - 1
                 P == {j \in E : j <= i}
                 Q == {j \in E : j <= m}
      <4>1. m \in Nat /\ i \in Nat /\ i <= m
        BY <3>1
      <4> HIDE DEF m
      <4>2. P \in SUBSET Q
        BY <1>0, <4>1
      <4>3. IsFiniteSet(Q)
        BY <1>1, <1>2, <4>1, PlacesFinite
      <4> HIDE DEF P, Q
      <4>4. Cardinality(P) <= Cardinality(Q)
        BY <4>2, <4>3, FS_Subset
      <4>. QED BY <4>4 DEF UpTo, P, Q, m
    <3>4. UpTo(E, B(i) - 1) \in Nat /\ UpTo(E, i) \in Nat
      BY <1>5, <3>1
    <3>. QED BY <2>2, <3>2, <3>3, <3>4
  <2>. QED BY <2>3, <2>4
<1>12. ASSUME NEW i \in 0..(n - 1), text[i + 1] = c
       PROVE  /\ UpTo(E, i + 1) = UpTo(E, i) + 1 /\ B(i + 1) = i + 1
              /\ p[UpTo(E, i) + 1] = SubSeq(text, B(i) + 1, i)
  <2>1. i \in 0..n /\ i + 1 \in 0..n /\ i + 1 \in E /\ (i + 1) - 1 = i
    BY <1>1, <1>3, <1>12
  <2>2. UpTo(E, i + 1) = UpTo(E, i) + 1
    BY <1>7, <2>1
  <2>3. Place(E, UpTo(E, i + 1)) = i + 1 /\ UpTo(E, i + 1) \in 1..Len(p)
    BY <1>1, <1>2, <2>1, PlaceIs
  <2>4. B(i + 1) = i + 1
    BY <1>4, <1>10, <2>1, <2>2, <2>3
  <2> DEFINE k == UpTo(E, i)
  <2>5. k \in Nat /\ (k + 1) - 1 = k /\ (k + 1 = 1 <=> k = 0)
    BY <1>10, <2>1
  <2>6. B(i) = IF k + 1 = 1 THEN 0 ELSE Place(E, (k + 1) - 1)
    BY <1>4, <2>1, <2>5
  <2>7. p[k + 1] = SubSeq(text, (IF k + 1 = 1 THEN 0 ELSE Place(E, (k + 1) - 1)) + 1, Place(E, k + 1) - 1)
    BY <1>2, <2>2, <2>3
  <2>. QED BY <2>1, <2>2, <2>3, <2>4, <2>6, <2>7
<1>13. ASSUME NEW i \in 0..(n - 1), text[i + 1] # c
       PROVE  UpTo(E, i + 1) = UpTo(E, i) /\ B(i + 1) = B(i)
  <2>1. i \in 0..n /\ i + 1 \in 0..n /\ i + 1 \notin E
    BY <1>1, <1>3, <1>13
  <2>. QED BY <1>4, <1>7, <2>1
<1>14. p[Len(p)] = SubSeq(text, B(n) + 1, n)
  <2> DEFINE k == UpTo(E, n)
  <2>1. n \in 0..n /\ k + 1 = Len(p) /\ k \in Nat /\ (k + 1) - 1 = k /\ (k + 1 = 1 <=> k = 0)
    BY <1>1, <1>2, <1>8, <1>10
  <2>2. Place(E, Len(p)) = n + 1
    BY <1>1, <1>2, <1>3, <1>6, PlaceIs
  <2>3. B(n) = IF k + 1 = 1 THEN 0 ELSE Place(E, (k + 1) - 1)
    BY <1>4, <2>1
  <2>4. p[k + 1] = SubSeq(text, (IF k + 1 = 1 THEN 0 ELSE Place(E, (k + 1) - 1)) + 1, Place(E, k + 1) - 1)
    BY <1>2, <2>1
  <2>. QED BY <1>1, <2>1, <2>2, <2>3, <2>4
<1>15. B(0) = 0
  BY <1>1, <1>4, <1>6
<1>. QED BY <1>6, <1>8, <1>10, <1>11, <1>12, <1>13, <1>14, <1>15, Zenon DEF E, p, B

-----------------------------------------------------------------------------
\* What a fold over a sequence comes to is where its steps lead.
Stepwise(g, base, n, step) == g[0] = base /\ \A i \in 1..n : g[i] = step[i][g[i - 1]]

\* A fold gets where the steps lead, one by one.
LEMMA FoldLeads ==
  ASSUME NEW S, NEW base, NEW n \in Nat, NEW step, NEW iter, Folded(iter, S, base, n, step),
         NEW g, Stepwise(g, base, n, step)
  PROVE  iter[1..n] = g[n]
<1>0. g[0] = base /\ \A i \in 1..n : g[i] = step[i][g[i - 1]]
  BY DEF Stepwise
<1>1. /\ \A i \in 0..n : 1..i \in SUBSET (1..n)
      /\ 1..0 = {} /\ 0 \in 0..n
      /\ \A i \in 1..n : /\ 1..i # {} /\ Max(1..i) = i
                          /\ (1..i) \ {i} = 1..(i - 1) /\ i - 1 \in 0..n /\ i \in 0..n
  BY UpToEachPlace
<1>2. \A s \in SUBSET (1..n) :
         iter[s] = IF s = {} THEN base ELSE step[Max(s)][iter[s \ {Max(s)}]]
  BY DEF Folded
<1> DEFINE T == {i \in 0..n : iter[1..i] = g[i]}
<1>3. 0 \in T
  <2>1. iter[1..0] = base
    BY <1>1, <1>2, Zenon
  <2>. QED BY <1>0, <1>1, <2>1
<1>4. ASSUME NEW i \in 0..(n - 1), i \in T PROVE i + 1 \in T
  <2>1. i + 1 \in 1..n /\ (i + 1) - 1 = i /\ iter[1..i] = g[i] /\ i + 1 \in 0..n
    BY <1>4
  <2> DEFINE j == i + 1
             P == SUBSET (1..n)
  <2>2. 1..j \in P /\ 1..j # {} /\ Max(1..j) = j /\ (1..j) \ {j} = 1..(j - 1)
    BY <1>1, <2>1
  <2> HIDE DEF P
  <2>3. \A s \in P : iter[s] = IF s = {} THEN base ELSE step[Max(s)][iter[s \ {Max(s)}]]
    BY <1>2 DEF P
  <2>4. iter[1..j] = step[j][iter[1..(j - 1)]]
    BY <2>2, <2>3
  <2>5. g[j] = step[j][g[j - 1]]
    BY <1>0, <2>1
  <2>. QED BY <2>1, <2>4, <2>5
<1> HIDE DEF T
<1>. QED
  <2>1. 0..n \subseteq T
    BY <1>3, <1>4, NumbersUpTo
  <2>2. n \in T
    BY <2>1
  <2>. QED BY <2>2 DEF T

\* A function that applies the steps wherever it is in S is in S everywhere.
LEMMA FoldsThrough ==
  ASSUME NEW S, NEW base \in S, NEW n \in Nat, NEW step \in [1..n -> [S -> S]], NEW r,
         r = [s \in SUBSET (1..n) |-> r[s]], r[{}] = base,
         \A s \in SUBSET (1..n) :
           s # {} /\ r[s \ {Max(s)}] \in S => r[s] = step[Max(s)][r[s \ {Max(s)}]]
  PROVE  Folded(r, S, base, n, step)
<1> DEFINE P == SUBSET (1..n)
           T == {i \in 0..n : \A s \in SUBSET (1..i) : r[s] \in S}
<1>1. 0 \in T
  <2>1. 0 \in 0..n /\ \A s \in SUBSET (1..0) : s = {}
    OBVIOUS
  <2>. QED BY <2>1
<1>2. ASSUME NEW i \in 0..(n - 1), i \in T PROVE i + 1 \in T
  <2>. SUFFICES ASSUME NEW s \in SUBSET (1..(i + 1)), s # {} PROVE r[s] \in S
    <3>1. i + 1 \in 0..n
      OBVIOUS
    <3>. QED BY <3>1
  <2>1. i + 1 \in Nat /\ s \in P /\ i \in Nat
    OBVIOUS
  <2> DEFINE m == Max(s)
  <2>2. m \in s /\ \A j \in s : j <= m
    BY <2>1, LastPlace
  <2>3. m \in 1..(i + 1) /\ \A j \in s : j \in 1..(i + 1) /\ j <= m
    BY <2>2
  <2> HIDE DEF m
  <2>4. s \ {m} \in SUBSET (1..i) /\ m \in 1..n
    <3>1. \A j \in s : j # m => j \in 1..i
      BY <2>1, <2>3
    <3>. QED BY <2>3, <3>1
  <2>5. r[s \ {m}] \in S
    BY <1>2, <2>4
  <2>6. r[s] = step[m][r[s \ {m}]]
    BY <2>1, <2>5 DEF m
  <2>. QED BY <2>4, <2>5, <2>6
<1>3. n \in T
  <2> HIDE DEF T
  <2>1. 0..n \subseteq T
    BY <1>1, <1>2, NumbersUpTo
  <2>. QED BY <2>1
<1>4. \A s \in P : r[s] \in S
  BY <1>3
<1>5. \A s \in P : r[s] = IF s = {} THEN base ELSE step[Max(s)][r[s \ {Max(s)}]]
  <2>. SUFFICES ASSUME NEW s \in P, s # {} PROVE r[s] = step[Max(s)][r[s \ {Max(s)}]]
    OBVIOUS
  <2>1. s \ {Max(s)} \in P
    OBVIOUS
  <2>. QED BY <1>4, <2>1
<1>. QED BY <1>4, <1>5 DEF Folded

-----------------------------------------------------------------------------
\* The words of a line.

Parsing == [words : Seq(Text), word : Text]

\* getParse stays in a state of its type.
LEMMA WordType ==
  ASSUME NEW s \in Parsing, NEW char \in STRING
  PROVE  Word(s, char) \in Parsing
<1>1. s.words \in Seq(Seq(STRING)) /\ s.word \in Seq(STRING)
  BY DEF Parsing, Text
<1>2. Append(s.words, s.word) \in Seq(Seq(STRING)) /\ Append(s.word, char) \in Seq(STRING)
      /\ <<>> \in Seq(STRING)
  BY <1>1
<1>3. s = [words |-> s.words, word |-> s.word]
  BY DEF Parsing
<1>4. [s EXCEPT !.word = Append(@, char)] = [words |-> s.words, word |-> Append(s.word, char)]
  <2>1. \A a, b, c : [[words |-> a, word |-> b] EXCEPT !.word = c] = [words |-> a, word |-> c]
    OBVIOUS
  <2>. QED BY <1>3, <2>1
<1>. QED BY <1>1, <1>2, <1>4 DEF Parsing, Word, Text

\* After a line getParse holds the pieces before its last blank, and what is behind.
LEMMA WordsAre ==
  ASSUME NEW line \in Text
  PROVE  FoldLeft(Word, [words |-> <<>>, word |-> <<>>], line)
            = [words |-> SubSeq(Pieces(line, " "), 1, Len(Pieces(line, " ")) - 1),
               word |-> Pieces(line, " ")[Len(Pieces(line, " "))]]
<1> DEFINE n == Len(line)
           E == Cuts(line, " ")
           p == Pieces(line, " ")
           B(i) == Behind(line, " ", i)
           base == [words |-> <<>>, word |-> <<>>]
           P == SUBSET (1..n)
           step == [i \in 1..n |-> [s \in Parsing |-> Word(s, line[i])]]
           r == CHOOSE r : r = [s \in SUBSET (DOMAIN line) |->
                                  IF s = {} THEN base ELSE Word(r[s \ {Max(s)}], line[Max(s)])]
           g == [i \in 0..n |-> [words |-> SubSeq(p, 1, UpTo(E, i)), word |-> SubSeq(line, B(i) + 1, i)]]
<1>1. n \in Nat /\ DOMAIN line = 1..n /\ (\A i \in 1..n : line[i] \in STRING) /\ line \in Seq(STRING)
  BY DEF Text
<1>2. step \in [1..n -> [Parsing -> Parsing]]
  BY <1>1, WordType
<1>3. base \in Parsing
  BY DEF Parsing, Text
<1>4. PICK iter : Folded(iter, Parsing, base, n, step)
  BY <1>1, <1>2, <1>3, Folding
<1>5. iter \in [P -> Parsing]
  BY <1>4 DEF Folded
<1>6. \A s \in P : iter[s] = IF s = {} THEN base ELSE Word(iter[s \ {Max(s)}], line[Max(s)])
  <2>. SUFFICES ASSUME NEW s \in P, s # {}
       PROVE  step[Max(s)][iter[s \ {Max(s)}]] = Word(iter[s \ {Max(s)}], line[Max(s)])
    BY <1>4 DEF Folded
  <2>1. Max(s) \in 1..n
    BY <1>1, LastPlace
  <2>2. iter[s \ {Max(s)}] \in Parsing
    BY <1>5
  <2>. QED BY <2>1, <2>2
<1>7. r = [s \in P |-> IF s = {} THEN base ELSE Word(r[s \ {Max(s)}], line[Max(s)])]
  <2> DEFINE Is(x) == x = [s \in P |-> IF s = {} THEN base ELSE Word(x[s \ {Max(s)}], line[Max(s)])]
  <2>1. Is(iter)
    BY <1>5, <1>6
  <2>2. Is(CHOOSE x : Is(x))
    <3> HIDE DEF Is
    <3>. QED BY <2>1
  <2>3. DOMAIN line = 1..n
    BY <1>1
  <2>. QED BY <2>2, <2>3, Zenon
<1>8. FoldLeft(Word, base, line) = r[DOMAIN line]
  BY Zenon DEF FoldLeft, MapThenFoldSet
<1> HIDE DEF r
<1>9. Folded(r, Parsing, base, n, step)
  <2>1. r = [s \in P |-> r[s]] /\ r[{}] = base
    <3>1. {} \in P
      OBVIOUS
    <3> HIDE DEF P
    <3>. QED BY <1>7, <3>1
  <2>2. ASSUME NEW s \in P, s # {}, r[s \ {Max(s)}] \in Parsing
        PROVE  r[s] = step[Max(s)][r[s \ {Max(s)}]]
    <3>1. r[s] = Word(r[s \ {Max(s)}], line[Max(s)])
      <4> HIDE DEF P
      <4>. QED BY <1>7, <2>2
    <3>2. Max(s) \in 1..n
      BY <1>1, <2>2, LastPlace
    <3>. QED BY <2>2, <3>1, <3>2
  <2> HIDE DEF base, step, n
  <2>. QED BY <1>1, <1>2, <1>3, <2>1, <2>2, FoldsThrough
<1>10. p \in Seq(Text) /\ Len(p) \in Nat /\ Len(p) >= 1
  BY <1>1, PiecesAre DEF Text
<1>11. /\ UpTo(E, 0) = 0 /\ B(0) = 0
       /\ UpTo(E, n) = Len(p) - 1 /\ p[Len(p)] = SubSeq(line, B(n) + 1, n)
       /\ \A i \in 0..n : UpTo(E, i) \in 0..(Len(p) - 1) /\ B(i) \in 0..i
       /\ \A i \in 0..(n - 1) :
            /\ line[i + 1] = " " => /\ UpTo(E, i + 1) = UpTo(E, i) + 1 /\ B(i + 1) = i + 1
                                    /\ p[UpTo(E, i) + 1] = SubSeq(line, B(i) + 1, i)
            /\ line[i + 1] # " " => UpTo(E, i + 1) = UpTo(E, i) /\ B(i + 1) = B(i)
  BY <1>1, PieceByPiece, Zenon
<1> HIDE DEF E, p, B
<1>12. g[0] = base
  <2>1. 0 \in 0..n /\ SubSeq(p, 1, 0) = <<>> /\ SubSeq(line, 1, 0) = <<>>
    BY <1>1, <1>10
  <2>2. g[0] = [words |-> SubSeq(p, 1, UpTo(E, 0)), word |-> SubSeq(line, B(0) + 1, 0)]
    BY <2>1
  <2>3. SubSeq(p, 1, UpTo(E, 0)) = <<>> /\ SubSeq(line, B(0) + 1, 0) = <<>>
    <3>1. UpTo(E, 0) = 0 /\ B(0) = 0
      BY <1>11, Zenon
    <3>. QED BY <2>1, <3>1
  <2>. QED BY <2>2, <2>3
<1>13. ASSUME NEW i \in 1..n PROVE g[i] = step[i][g[i - 1]]
  <2> DEFINE j == i - 1
  <2>1. j \in 0..(n - 1) /\ j + 1 = i /\ j \in 0..n /\ i \in 0..n
    BY <1>1
  <2> HIDE DEF j
  <2>2. /\ UpTo(E, j) \in 0..(Len(p) - 1) /\ B(j) \in 0..j /\ line[i] \in STRING
    BY <1>1, <1>11, <2>1
  <2>3. g[j] \in Parsing
    <3>1. SubSeq(p, 1, UpTo(E, j)) \in Seq(Text) /\ SubSeq(line, B(j) + 1, j) \in Text
      BY <1>1, <1>10, <2>1, <2>2 DEF Text
    <3>. QED BY <2>1, <3>1 DEF Parsing
  <2>4. step[i][g[j]] = Word(g[j], line[i])
    BY <2>3
  <2>5. CASE line[i] = " "
    <3>1. UpTo(E, i) = UpTo(E, j) + 1 /\ B(i) = i /\ p[UpTo(E, j) + 1] = SubSeq(line, B(j) + 1, j)
      BY <1>11, <2>1, <2>5
    <3>2. SubSeq(p, 1, UpTo(E, j) + 1) = Append(SubSeq(p, 1, UpTo(E, j)), p[UpTo(E, j) + 1])
      BY <1>10, <2>2
    <3>3. SubSeq(line, i + 1, i) = <<>>
      BY <1>1
    <3>4. Word(g[j], line[i]) = [words |-> Append(g[j].words, g[j].word), word |-> <<>>]
      BY <2>5 DEF Word
    <3>. QED BY <2>1, <2>4, <3>1, <3>2, <3>3, <3>4 DEF j
  <2>6. CASE line[i] # " "
    <3>1. UpTo(E, i) = UpTo(E, j) /\ B(i) = B(j)
      BY <1>11, <2>1, <2>6
    <3>2. SubSeq(line, B(j) + 1, i) = Append(SubSeq(line, B(j) + 1, j), line[i])
      <4>1. j \in 0..(Len(line) - 1) /\ B(j) \in 0..j /\ j + 1 = i
        BY <1>1, <2>1, <2>2
      <4> HIDE DEF B
      <4>2. SubSeq(line, B(j) + 1, j + 1) = Append(SubSeq(line, B(j) + 1, j), line[j + 1])
        <5>1. line \in Seq(STRING)
          BY DEF Text
        <5>. QED BY <4>1, <5>1, OneFurther
      <4>. QED BY <4>1, <4>2, Zenon
    <3>3. Word(g[j], line[i]) = [words |-> g[j].words, word |-> Append(g[j].word, line[i])]
      BY <2>3, <2>6 DEF Word, Parsing
    <3>. QED BY <2>1, <2>4, <3>1, <3>2, <3>3 DEF j
  <2>. QED BY <2>5, <2>6
<1>14. r[1..n] = g[n]
  <2>1. n \in Nat
    BY <1>1
  <2>2. \A i \in 1..n : g[i] = step[i][g[i - 1]]
    BY <1>13
  <2> HIDE DEF g, step, base, n, P
  <2>3. Stepwise(g, base, n, step)
    BY <1>12, <2>2 DEF Stepwise
  <2>. QED BY <1>9, <2>1, <2>3, FoldLeads
<1>15. g[n] = [words |-> SubSeq(p, 1, Len(p) - 1), word |-> p[Len(p)]]
  <2>1. n \in 0..n
    BY <1>1
  <2>. QED BY <1>11, <2>1
<1>. QED BY <1>1, <1>8, <1>14, <1>15, Zenon DEF p

\* A line of words one space apart parses into those words.
LEMMA PlainParses ==
  ASSUME NEW line \in Text
  PROVE  /\ Plain(line) => GetParse(line) = Pieces(line, " ")
         /\ GetParse(<<>>) = <<>>
         /\ GetParse(line) \in Seq(Text)
<1> DEFINE s(t) == FoldLeft(Word, [words |-> <<>>, word |-> <<>>], t)
           p(t) == Pieces(t, " ")
<1>1. ASSUME NEW t \in Text
      PROVE  /\ p(t) \in Seq(Text) /\ Len(p(t)) \in Nat /\ Len(p(t)) >= 1
             /\ GetParse(t) = IF p(t)[Len(p(t))] = <<>> THEN SubSeq(p(t), 1, Len(p(t)) - 1) ELSE p(t)
  <2>1. p(t) \in Seq(Text) /\ Len(p(t)) \in Nat /\ Len(p(t)) >= 1
    BY PiecesAre DEF Text
  <2>2. s(t) = [words |-> SubSeq(p(t), 1, Len(p(t)) - 1), word |-> p(t)[Len(p(t))]]
    BY WordsAre, Zenon
  <2>3. GetParse(t) = IF s(t).word = <<>> THEN s(t).words ELSE Append(s(t).words, s(t).word)
    BY Zenon DEF GetParse
  <2> DEFINE q == p(t)
             m == Len(q)
  <2>4. q \in Seq(Text) /\ m \in Nat /\ m >= 1 /\ m = Len(q)
    BY <2>1
  <2> HIDE DEF s
  <2>5. s(t).words = SubSeq(q, 1, m - 1) /\ s(t).word = q[m]
    <3> DEFINE a == SubSeq(q, 1, m - 1)
               b == q[m]
    <3>1. s(t) = [words |-> a, word |-> b]
      BY <2>2
    <3> HIDE DEF a, b
    <3>2. s(t).words = a /\ s(t).word = b
      BY <3>1
    <3>. QED BY <3>2 DEF a, b
  <2> HIDE DEF p, q, m
  <2>6. Append(SubSeq(q, 1, m - 1), q[m]) = q
    BY <2>4
  <2>7. GetParse(t) = IF q[m] = <<>> THEN SubSeq(q, 1, m - 1) ELSE q
    BY <2>3, <2>5, <2>6
  <2>. QED BY <2>1, <2>7 DEF q, m
<1>2. Plain(line) => p(line)[Len(p(line))] # <<>>
  <2>1. Plain(line) => \A k \in DOMAIN p(line) : p(line)[k] # <<>>
    BY DEF Plain
  <2>2. p(line) \in Seq(Text) /\ Len(p(line)) \in Nat /\ Len(p(line)) >= 1
    BY <1>1
  <2> HIDE DEF p
  <2>3. Len(p(line)) \in DOMAIN p(line)
    BY <2>2
  <2>. QED BY <2>1, <2>3
<1>3. <<>> \in Text /\ Len(p(<<>>)) = 1 /\ p(<<>>)[1] = <<>>
  <2>1. <<>> \in Seq(STRING) /\ <<>> \in Text
    BY DEF Text
  <2>2. Cuts(<<>>, " ") = {1}
    BY DEF Cuts
  <2>3. Len(p(<<>>)) = 1
    <3>1. Cardinality({1}) = 1
      BY FS_Singleton
    <3>2. Len(p(<<>>)) = Cardinality(Cuts(<<>>, " "))
      BY <2>1, PiecesAre
    <3>. QED BY <2>2, <3>1, <3>2
  <2>4. p(<<>>)[1] = <<>>
    <3>1. p(<<>>)[Len(p(<<>>))] = SubSeq(<<>>, Behind(<<>>, " ", 0) + 1, 0) /\ Behind(<<>>, " ", 0) = 0
      <4>1. Len(<<>>) = 0
        OBVIOUS
      <4>. QED BY <2>1, <4>1, PieceByPiece
    <3>2. SubSeq(<<>>, 0 + 1, 0) = <<>>
      OBVIOUS
    <3>. QED BY <2>3, <3>1, <3>2
  <2>. QED BY <2>1, <2>3, <2>4
<1> HIDE DEF p
<1>4. GetParse(<<>>) = <<>>
  <2>1. /\ p(<<>>) \in Seq(Text)
        /\ GetParse(<<>>) = IF p(<<>>)[Len(p(<<>>))] = <<>> THEN SubSeq(p(<<>>), 1, Len(p(<<>>)) - 1)
                           ELSE p(<<>>)
    BY <1>1, <1>3
  <2>2. GetParse(<<>>) = SubSeq(p(<<>>), 1, 0)
    BY <1>3, <2>1
  <2>. QED BY <2>1, <2>2
<1>5. GetParse(line) \in Seq(Text)
  <2>1. /\ p(line) \in Seq(Text) /\ Len(p(line)) \in Nat /\ Len(p(line)) >= 1
        /\ GetParse(line) = IF p(line)[Len(p(line))] = <<>> THEN SubSeq(p(line), 1, Len(p(line)) - 1)
                            ELSE p(line)
    BY <1>1
  <2>2. SubSeq(p(line), 1, Len(p(line)) - 1) \in Seq(Text)
    BY <2>1
  <2>. QED BY <2>1, <2>2
<1>. QED BY <1>1, <1>2, <1>4, <1>5 DEF p

-----------------------------------------------------------------------------
\* Scripts: the lines that are run, and what they lead to.

Ran == [directory : Seq(Text), words : Seq(Text)]
Shell == [run : Seq(Ran), directory : Seq(Text), ended : BOOLEAN]

\* The three fields of a shell, changed one at a time.
ShellOf(r, d, e) == [run |-> r, directory |-> d, ended |-> e]

\* The fields of a state of mrn-run.
LEMMA ShellFields ==
  ASSUME NEW r, NEW d, NEW e, NEW x
  PROVE  /\ ShellOf(r, d, e).run = r /\ ShellOf(r, d, e).directory = d /\ ShellOf(r, d, e).ended = e
         /\ [ShellOf(r, d, e) EXCEPT !.run = x] = ShellOf(x, d, e)
         /\ [ShellOf(r, d, e) EXCEPT !.directory = x] = ShellOf(r, x, e)
         /\ [ShellOf(r, d, e) EXCEPT !.ended = x] = ShellOf(r, d, x)
BY DEF ShellOf

\* The end of mrn-run.
LEMMA ShellEnds ==
  ASSUME NEW r, NEW d, NEW e
  PROVE  /\ ShellOf(r, d, TRUE).ended /\ ~ShellOf(r, d, FALSE).ended
         /\ [ShellOf(r, d, e) EXCEPT !.ended = TRUE] = ShellOf(r, d, TRUE)
<1> DEFINE yes == TRUE
           no == FALSE
<1> HIDE DEF yes, no
<1>1. ShellOf(r, d, yes).ended = yes
  BY ShellFields
<1>2. ShellOf(r, d, no).ended = no
  BY ShellFields
<1>3. [ShellOf(r, d, e) EXCEPT !.ended = yes] = ShellOf(r, d, yes)
  BY ShellFields
<1>4. ShellOf(r, d, TRUE).ended = TRUE
  BY <1>1 DEF yes
<1>5. ShellOf(r, d, FALSE).ended = FALSE
  BY <1>2 DEF no
<1>6. [ShellOf(r, d, e) EXCEPT !.ended = TRUE] = ShellOf(r, d, TRUE)
  BY <1>3 DEF yes
<1>7. ShellOf(r, d, TRUE).ended
  BY <1>4, Zenon
<1>8. ~ShellOf(r, d, FALSE).ended
  BY <1>5, Zenon
<1>. QED BY <1>6, <1>7, <1>8, Zenon

\* The lines before the first cd that fails.
Through(lines) ==
    LET fails == {i \in DOMAIN lines : CdFails(lines, i)}
    IN  IF fails = {} THEN Len(lines) ELSE Min(fails) - 1

\* Where the first k lines lead.
Done(lines, k) == IF k <= Through(lines) THEN k ELSE Through(lines)
Led(lines, k) ==
    ShellOf(Picked([i \in DOMAIN lines |-> Run(lines, i)],
                   {i \in 1..Done(lines, k) : ~IsCd(lines[i])}),
            Way(lines, Done(lines, k)),
            Done(lines, k) < k)

\* A line leaves mrn-run in a state of its type.
LEMMA ExecutedType ==
  ASSUME NEW s \in Shell, NEW line \in Text
  PROVE  Executed(s, line) \in Shell
<1>1. PICK r \in Seq(Ran), d \in Seq(Text), e \in BOOLEAN : s = ShellOf(r, d, e)
  BY DEF Shell, ShellOf
<1>2. \A x \in Seq(Ran), y \in Seq(Text), z \in BOOLEAN : ShellOf(x, y, z) \in Shell
  BY DEF Shell, ShellOf
<1>3. s.run = r /\ s.directory = d /\ s.ended = e
  BY <1>1, ShellFields
<1>4. CASE s.ended
  BY <1>4 DEF Executed
<1>5. CASE ~s.ended /\ ~IsCd(line)
  <2> DEFINE x == [directory |-> s.directory, words |-> GetParse(line)]
             y == Append(r, x)
  <2>1. x \in Ran
    BY <1>3, PlainParses DEF Ran
  <2>2. Executed(s, line) = [s EXCEPT !.run = Append(@, x)]
    BY <1>5 DEF Executed
  <2> HIDE DEF x
  <2>3. y \in Seq(Ran)
    BY <2>1
  <2>4. Executed(s, line) = [s EXCEPT !.run = y]
    BY <1>3, <2>2
  <2> HIDE DEF y
  <2>5. [ShellOf(r, d, e) EXCEPT !.run = y] = ShellOf(y, d, e)
    BY ShellFields
  <2>6. Executed(s, line) = ShellOf(y, d, e)
    BY <1>1, <2>4, <2>5
  <2>. QED BY <1>2, <2>3, <2>6
<1>6. CASE ~s.ended /\ IsCd(line)
  <2> DEFINE y == Append(s.directory, CdPath(line))
  <2>1. CASE Len(line) >= 3 /\ y \in Directories
    <3>1. y \in Seq(Text)
      <4>1. CdPath(line) \in Text
        BY <2>1 DEF Text, CdPath
      <4>. QED BY <1>3, <4>1
    <3>2. Executed(s, line) = [s EXCEPT !.directory = y]
      BY <1>6, <2>1 DEF Executed
    <3> HIDE DEF y
    <3>3. [ShellOf(r, d, e) EXCEPT !.directory = y] = ShellOf(r, y, e)
      BY ShellFields
    <3>4. Executed(s, line) = ShellOf(r, y, e)
      BY <1>1, <3>2, <3>3
    <3>. QED BY <1>2, <3>1, <3>4
  <2>2. CASE ~(Len(line) >= 3 /\ y \in Directories)
    <3>1. Executed(s, line) = [s EXCEPT !.ended = TRUE]
      BY <1>6, <2>2 DEF Executed
    <3>2. [ShellOf(r, d, e) EXCEPT !.ended = TRUE] = ShellOf(r, d, TRUE)
      BY ShellEnds
    <3>3. Executed(s, line) = ShellOf(r, d, TRUE)
      BY <1>1, <3>1, <3>2
    <3>. QED BY <1>2, <3>3
  <2>. QED BY <2>1, <2>2
<1>. QED BY <1>3, <1>4, <1>5, <1>6

\* mrn-run gets up to the first line that is a cd that fails.
LEMMA ThroughIs ==
  ASSUME NEW lines \in Seq(Text)
  PROVE  /\ Through(lines) \in 0..Len(lines)
         /\ \A i \in 1..Through(lines) : ~CdFails(lines, i)
         /\ Through(lines) < Len(lines) => CdFails(lines, Through(lines) + 1)
<1> DEFINE fails == {i \in DOMAIN lines : CdFails(lines, i)}
           n == Len(lines)
<1>1. n \in Nat /\ DOMAIN lines = 1..n
  OBVIOUS
<1>2. CASE fails = {}
  <2>1. Through(lines) = n
    BY <1>2, Zenon DEF Through
  <2>2. \A i \in 1..n : ~CdFails(lines, i)
    BY <1>1, <1>2
  <2>. QED BY <1>1, <2>1, <2>2
<1>3. CASE fails # {}
  <2>1. PICK m \in fails : \A i \in fails : m <= i
    <3>1. fails \in SUBSET Nat
      BY <1>1
    <3> HIDE DEF fails
    <3>. QED BY <1>3, <3>1, LeastNumber
  <2>2. Min(fails) \in fails /\ \A i \in fails : Min(fails) <= i
    BY <2>1, Zenon DEF Min
  <2>3. Through(lines) = Min(fails) - 1
    BY <1>3, Zenon DEF Through
  <2> DEFINE k == Min(fails)
  <2>4. k \in 1..n /\ CdFails(lines, k) /\ \A i \in 1..n : CdFails(lines, i) => k <= i
    BY <1>1, <2>2
  <2> HIDE DEF k
  <2>5. Through(lines) = k - 1 /\ (k - 1) + 1 = k
    BY <2>3, <2>4 DEF k
  <2>6. \A i \in 1..(k - 1) : ~CdFails(lines, i)
    BY <1>1, <2>4
  <2>. QED BY <1>1, <2>4, <2>5, <2>6
<1>. QED BY <1>2, <1>3

\* A script whose words are one space apart.
Spaced(lines) == \A i \in DOMAIN lines : lines[i] # <<>> => Plain(lines[i])

\* The paths of the lines.
LEMMA WayIs ==
  ASSUME NEW lines \in Seq(Text)
  PROVE  /\ [i \in DOMAIN lines |-> CdPath(lines[i])] \in Seq(Text)
         /\ Len([i \in DOMAIN lines |-> CdPath(lines[i])]) = Len(lines)
<1>1. DOMAIN lines = 1..Len(lines) /\ Len(lines) \in Nat /\ \A i \in DOMAIN lines : lines[i] \in Seq(STRING)
  BY DEF Text
<1>2. \A i \in DOMAIN lines : CdPath(lines[i]) \in Text
  <2>1. SUFFICES ASSUME NEW x \in Seq(STRING) PROVE CdPath(x) \in Seq(STRING)
    BY <1>1 DEF Text
  <2>. QED BY DEF CdPath
<1>. QED BY <1>1, <1>2

\* Before the first line nothing has run.
LEMMA NoLine ==
  ASSUME NEW lines \in Seq(Text)
  PROVE  Led(lines, 0) = Start /\ Start \in Shell
<1>1. Done(lines, 0) = 0
  BY ThroughIs DEF Done
<1>2. {i \in 1..Done(lines, 0) : ~IsCd(lines[i])} = {} /\ {i \in 1..0 : IsCd(lines[i])} = {}
  BY <1>1
<1> DEFINE runs == [i \in DOMAIN lines |-> Run(lines, i)]
           S == {Run(lines, i) : i \in DOMAIN lines}
<1>3. runs \in Seq(S)
  <2>1. DOMAIN lines = 1..Len(lines) /\ Len(lines) \in Nat
    OBVIOUS
  <2>. QED BY <2>1
<1> HIDE DEF runs, S
<1>4. Picked(runs, {}) = <<>>
  BY <1>3, PickedNothing
<1>5. Led(lines, 0) = ShellOf(<<>>, <<>>, FALSE)
  <2>1. (0 < 0) = FALSE
    OBVIOUS
  <2>2. Way(lines, 0) = <<>>
    <3>1. [i \in DOMAIN lines |-> CdPath(lines[i])] \in Seq(Text)
      BY WayIs
    <3>. QED BY <1>2, <3>1, PickedNothing DEF Way
  <2>. QED BY <1>1, <1>2, <1>4, <2>1, <2>2, Zenon DEF Led, runs
<1>6. Start \in Shell
  BY DEF Start, Shell, Text
<1>. QED BY <1>5, <1>6 DEF Start, ShellOf

\* One more line.
LEMMA NextLine ==
  ASSUME NEW lines \in Seq(Text), Spaced(lines), NEW k \in 0..(Len(lines) - 1)
  PROVE  Executed(Led(lines, k), lines[k + 1]) = Led(lines, k + 1)
<1> DEFINE n == Len(lines)
           m == Through(lines)
           line == lines[k + 1]
           runs == [i \in DOMAIN lines |-> Run(lines, i)]
           s == Led(lines, k)
           S == {Run(lines, i) : i \in DOMAIN lines}
           others(j) == {i \in 1..j : ~IsCd(lines[i])}
           cds(j) == {i \in 1..j : IsCd(lines[i])}
           paths == [i \in DOMAIN lines |-> CdPath(lines[i])]
           where(j) == Way(lines, j)
           Is(j, e) == ShellOf(Picked(runs, others(j)), where(j), e)
<1>1. n \in Nat /\ DOMAIN lines = 1..n /\ k \in Nat /\ k + 1 \in 1..n /\ line \in Text
  OBVIOUS
<1>2. m \in 0..n /\ (\A i \in 1..m : ~CdFails(lines, i)) /\ (m < n => CdFails(lines, m + 1))
  BY ThroughIs
<1>3. \A j \in 0..n : Led(lines, j) = Is(Done(lines, j), Done(lines, j) < j)
  BY Zenon DEF Led
<1>4. \A j \in 0..n : Done(lines, j) = IF j <= m THEN j ELSE m
  BY DEF Done
<1>5. runs \in Seq(S) /\ Len(runs) = n /\ runs[k + 1] = Run(lines, k + 1)
  BY <1>1
<1>8. IsCd(line) => where(k + 1) = Append(where(k), CdPath(line))
  <2>1. paths \in Seq(Text) /\ Len(paths) = n /\ paths[k + 1] = CdPath(line)
    BY <1>1, WayIs
  <2>2. IsCd(line) => cds(k + 1) = cds(k) \union {k + 1}
    BY <1>1
  <2>3. k + 1 <= Len(paths) /\ cds(k) \in SUBSET (1..k)
    BY <1>1, <2>1
  <2> HIDE DEF paths, line, cds
  <2>4. Picked(paths, cds(k) \union {k + 1}) = Append(Picked(paths, cds(k)), paths[k + 1])
    BY <1>1, <2>1, <2>3, PickedGrows
  <2>5. \A j : Way(lines, j) = Picked(paths, cds(j))
    BY Zenon DEF Way, paths, cds
  <2>. QED BY <2>1, <2>2, <2>4, <2>5
<1>6. CASE k + 1 > m
  <2>1. Done(lines, k + 1) = m /\ m < k + 1 /\ k \in 0..n /\ k + 1 \in 0..n
    BY <1>1, <1>2, <1>4, <1>6
  <2>2. Led(lines, k + 1) = Is(m, TRUE)
    <3>1. (m < k + 1) = TRUE
      BY <2>1
    <3>. QED BY <1>3, <2>1, <3>1
  <2>3. CASE k = m
    <3>1. Done(lines, k) = m /\ (m < k) = FALSE
      BY <1>1, <1>2, <1>4, <2>1, <2>3
    <3>2. s = Is(m, FALSE)
      BY <1>3, <2>1, <3>1
    <3>3. CdFails(lines, k + 1)
      BY <1>1, <1>2, <2>3
    <3>4. Executed(s, line) = [s EXCEPT !.ended = TRUE]
      <4>1. ~s.ended
        BY <3>2, ShellEnds, Zenon
      <4>2. IsCd(line) /\ ~(Len(line) >= 3 /\ Append(s.directory, CdPath(line)) \in Directories)
        <5>1. s.directory = where(k)
          <6> DEFINE a == Picked(runs, others(m))
                     b == where(m)
          <6>1. s = ShellOf(a, b, FALSE)
            BY <3>2
          <6> HIDE DEF s, a, b
          <6>2. \A e : ShellOf(a, b, e).directory = b
            BY ShellFields
          <6>. QED BY <2>3, <6>1, <6>2, Zenon DEF b
        <5>2. IsCd(line) /\ (~(Len(line) >= 3) \/ Way(lines, k + 1) \notin Directories)
          BY <1>1, <3>3 DEF CdFails, Text
        <5> HIDE DEF s, line
        <5>. QED BY <1>8, <5>1, <5>2, Zenon
      <4> HIDE DEF s, line
      <4>. QED BY <4>1, <4>2, Zenon DEF Executed
    <3> HIDE DEF others, where, runs
    <3>5. [s EXCEPT !.ended = TRUE] = Is(m, TRUE)
      <4>1. [Is(m, FALSE) EXCEPT !.ended = TRUE] = Is(m, TRUE)
        BY ShellEnds, Zenon
      <4> HIDE DEF s, Is
      <4>. QED BY <3>2, <4>1
    <3>. QED BY <2>2, <3>4, <3>5
  <2>4. CASE k # m
    <3>1. Done(lines, k) = m /\ (m < k) = TRUE
      BY <1>1, <1>2, <1>4, <2>1, <2>4
    <3>2. s = Is(m, TRUE)
      BY <1>3, <2>1, <3>1
    <3>3. s.ended
      BY <3>2, ShellEnds, Zenon
    <3>4. Executed(s, line) = s
      BY <3>3, Zenon DEF Executed
    <3>. QED BY <2>2, <3>2, <3>4
  <2>. QED BY <2>3, <2>4
<1>7. CASE k + 1 <= m
  <2>1. /\ Done(lines, k + 1) = k + 1 /\ Done(lines, k) = k /\ k \in 0..n /\ k + 1 \in 0..n
        /\ (k < k) = FALSE /\ (k + 1 < k + 1) = FALSE /\ k + 1 \in 1..m
    BY <1>1, <1>2, <1>4, <1>7
  <2>2. Led(lines, k + 1) = Is(k + 1, FALSE) /\ s = Is(k, FALSE)
    BY <1>3, <2>1
  <2>3. ~CdFails(lines, k + 1) /\ ~s.ended /\ s.run = Picked(runs, others(k)) /\ s.directory = where(k)
    <3> DEFINE a == Picked(runs, others(k))
               b == where(k)
    <3>1. s = ShellOf(a, b, FALSE)
      BY <2>2
    <3> HIDE DEF s, a, b
    <3>2. ~s.ended
      BY <3>1, ShellEnds, Zenon
    <3>3. \A e : ShellOf(a, b, e).run = a /\ ShellOf(a, b, e).directory = b
      BY ShellFields
    <3>4. s.run = a /\ s.directory = b
      BY <3>1, <3>3, Zenon
    <3>. QED BY <1>2, <2>1, <3>2, <3>4 DEF s, a, b
  <2>4. CASE IsCd(line)
    <3>1. others(k + 1) = others(k)
      BY <1>1, <2>4
    <3>2. where(k + 1) = Append(where(k), CdPath(line))
      BY <1>8, <2>4
    <3>3. Executed(s, line) = [s EXCEPT !.directory = Append(where(k), CdPath(line))]
      <4>1. Len(line) >= 3 /\ Way(lines, k + 1) \in Directories
        BY <1>1, <2>3, <2>4 DEF CdFails, Text
      <4>2. Len(line) >= 3 /\ Append(s.directory, CdPath(line)) \in Directories
        <5> HIDE DEF s, line
        <5>. QED BY <2>3, <3>2, <4>1, Zenon
      <4> HIDE DEF s, line
      <4>3. Executed(s, line) = [s EXCEPT !.directory = Append(@, CdPath(line))]
        BY <2>3, <2>4, <4>2, Zenon DEF Executed
      <4> HIDE DEF where
      <4>. QED BY <2>3, <4>3
    <3> HIDE DEF others, where, runs, line, s
    <3>4. [s EXCEPT !.directory = Append(where(k), CdPath(line))] = Is(k + 1, FALSE)
      <4> DEFINE a == Picked(runs, others(k))
                 b == where(k)
                 c == Append(where(k), CdPath(line))
      <4> HIDE DEF a, b, c
      <4>1. \A e : [ShellOf(a, b, e) EXCEPT !.directory = c] = ShellOf(a, c, e)
        BY ShellFields
      <4>2. [Is(k, FALSE) EXCEPT !.directory = c] = ShellOf(a, c, FALSE)
        BY <4>1, Zenon DEF a, b
      <4>3. [Is(k, FALSE) EXCEPT !.directory = Append(where(k), CdPath(line))] = Is(k + 1, FALSE)
        BY <3>1, <3>2, <4>2 DEF a, c
      <4> HIDE DEF Is
      <4>. QED BY <2>2, <4>3
    <3>. QED BY <2>2, <3>3, <3>4 DEF s, line
  <2>5. CASE ~IsCd(line)
    <3>1. cds(k + 1) = cds(k)
      BY <1>1, <2>5
    <3>2. where(k + 1) = where(k)
      <4> HIDE DEF cds
      <4>. QED BY <3>1, Zenon DEF Way, cds
    <3>3. others(k + 1) = others(k) \union {k + 1}
      BY <1>1, <2>5
    <3>4. Picked(runs, others(k + 1)) = Append(Picked(runs, others(k)), Run(lines, k + 1))
      <4>1. k + 1 <= Len(runs) /\ others(k) \in SUBSET (1..k)
        BY <1>1, <1>5
      <4> HIDE DEF others, runs, S
      <4>. QED BY <1>1, <1>5, <3>3, <4>1, PickedGrows
    <3>5. Executed(s, line) = [s EXCEPT !.run = Append(@, [directory |-> s.directory, words |-> GetParse(line)])]
      <4> HIDE DEF s, line
      <4>. QED BY <2>3, <2>5, Zenon DEF Executed
    <3>6. Run(lines, k + 1) = [directory |-> where(k), words |-> GetParse(line)]
      <4>1. GetParse(line) = IF line = <<>> THEN <<>> ELSE Pieces(line, " ")
        <5>1. line # <<>> => Plain(line)
          BY <1>1 DEF Spaced
        <5>2. Plain(line) => GetParse(line) = Pieces(line, " ")
          BY <1>1, PlainParses
        <5>3. GetParse(<<>>) = <<>>
          BY <1>1, PlainParses
        <5> HIDE DEF line
        <5>. QED BY <5>1, <5>2, <5>3
      <4>2. (k + 1) - 1 = k
        BY <1>1
      <4>3. Run(lines, k + 1)
              = [directory |-> where((k + 1) - 1), words |-> IF line = <<>> THEN <<>> ELSE Pieces(line, " ")]
        BY Zenon DEF Run
      <4> HIDE DEF where, line
      <4>. QED BY <4>1, <4>2, <4>3
    <3> HIDE DEF others, where, runs, line, s
    <3>7. [s EXCEPT !.run = Append(@, [directory |-> s.directory, words |-> GetParse(line)])] = Is(k + 1, FALSE)
      <4> DEFINE x == Picked(runs, others(k + 1))
      <4>1. Append(s.run, [directory |-> s.directory, words |-> GetParse(line)]) = x
        BY <2>3, <3>4, <3>6
      <4> HIDE DEF x
      <4>2. [Is(k, FALSE) EXCEPT !.run = x] = ShellOf(x, where(k), FALSE)
        <5> DEFINE a == Picked(runs, others(k))
                   b == where(k)
        <5> HIDE DEF a, b
        <5>1. \A e : [ShellOf(a, b, e) EXCEPT !.run = x] = ShellOf(x, b, e)
          BY ShellFields
        <5>. QED BY <5>1, Zenon DEF a, b
      <4>3. ShellOf(x, where(k), FALSE) = Is(k + 1, FALSE)
        BY <3>2 DEF x
      <4> HIDE DEF Is
      <4>. QED BY <2>2, <4>1, <4>2, <4>3
    <3>. QED BY <2>2, <3>5, <3>7 DEF s, line
  <2>. QED BY <2>4, <2>5
<1>. QED BY <1>1, <1>2, <1>6, <1>7

\* One character of a script.
Script == [line : Text, at : Shell]
Scripted(s, char) ==
    IF char = Break THEN [line |-> <<>>, at |-> Executed(s.at, s.line)]
    ELSE [s EXCEPT !.line = Append(@, char)]

\* One character of a script.
LEMMA ScriptedIs ==
  ASSUME NEW l \in Text, NEW a \in Shell, NEW char \in STRING
  PROVE  LET s == [line |-> l, at |-> a]
         IN  /\ s \in Script /\ s.line = l /\ s.at = a /\ Scripted(s, char) \in Script
             /\ Scripted(s, char) = IF char = Break THEN [line |-> <<>>, at |-> Executed(a, l)]
                                    ELSE [line |-> Append(l, char), at |-> a]
<1> DEFINE s == [line |-> l, at |-> a]
           x == Executed(a, l)
<1>1. x \in Shell
  BY ExecutedType
<1> HIDE DEF s, x
<1>2. <<>> \in Text /\ Append(l, char) \in Text
  <2>1. l \in Seq(STRING)
    BY DEF Text
  <2>2. \A S : \A q \in Seq(S) : \A c \in S : Append(q, c) \in Seq(S) /\ <<>> \in Seq(S)
    OBVIOUS
  <2>. QED BY <2>1, <2>2, Zenon DEF Text
<1> USE DEF s
<1>3. Scripted(s, char) = IF char = Break THEN [line |-> <<>>, at |-> x] ELSE [line |-> Append(l, char), at |-> a]
  <2>1. [s EXCEPT !.line = Append(@, char)] = [line |-> Append(l, char), at |-> a]
    OBVIOUS
  <2>2. s.line = l /\ s.at = a
    OBVIOUS
  <2> HIDE DEF s
  <2>. QED BY <2>1, <2>2 DEF Scripted, x
<1>4. Scripted(s, char) \in Script
  <2>1. [line |-> <<>>, at |-> x] \in Script /\ [line |-> Append(l, char), at |-> a] \in Script
    BY <1>1, <1>2 DEF Script
  <2> HIDE DEF s
  <2>. QED BY <1>3, <2>1
<1>. QED BY <1>3, <1>4 DEF Script, x

\* A script leads where its lines do.
LEMMA ScriptIs ==
  ASSUME NEW text \in Text, Spaced(Lines(text))
  PROVE  RunMrnFile(text) = Led(Lines(text), Len(Lines(text)))
<1> DEFINE n == Len(text)
           E == Cuts(text, Break)
           p == Pieces(text, Break)
           B(i) == Behind(text, Break, i)
           lines == Lines(text)
           base == [line |-> <<>>, at |-> Start]
           P == SUBSET (1..n)
           step == [i \in 1..n |-> [s \in Script |-> Scripted(s, text[i])]]
           r == CHOOSE r : r = [s \in SUBSET (DOMAIN text) |->
                                  IF s = {} THEN base ELSE Scripted(r[s \ {Max(s)}], text[Max(s)])]
           g == [i \in 0..n |-> [line |-> SubSeq(text, B(i) + 1, i), at |-> Led(lines, UpTo(E, i))]]
<1>1. n \in Nat /\ DOMAIN text = 1..n /\ (\A i \in 1..n : text[i] \in STRING) /\ text \in Seq(STRING)
  BY DEF Text
<1>2. step \in [1..n -> [Script -> Script]]
  <2>1. \A s \in Script, i \in 1..n : Scripted(s, text[i]) \in Script
    <3>. SUFFICES ASSUME NEW s \in Script, NEW i \in 1..n PROVE Scripted(s, text[i]) \in Script
      OBVIOUS
    <3>1. PICK l \in Text, a \in Shell : s = [line |-> l, at |-> a]
      BY DEF Script
    <3>. QED BY <1>1, <3>1, ScriptedIs
  <2>. QED BY <2>1
<1>3. p \in Seq(Text) /\ Len(p) \in Nat /\ Len(p) >= 1
  BY <1>1, PiecesAre DEF Text
<1>4. /\ lines \in Seq(Text)
      /\ p[Len(p)] = <<>> => Len(lines) = Len(p) - 1
      /\ p[Len(p)] # <<>> => Len(lines) = Len(p)
      /\ \A k \in 1..Len(lines) : lines[k] = p[k]
  <2>1. lines = IF p[Len(p)] = <<>> THEN Front(p) ELSE p
    BY Zenon DEF Lines
  <2>2. Front(p) = SubSeq(p, 1, Len(p) - 1)
    BY Zenon DEF Front
  <2> DEFINE m == Len(p) - 1
             front == SubSeq(p, 1, m)
  <2>3. m \in Nat /\ m <= Len(p)
    BY <1>3
  <2> HIDE DEF p, m
  <2>4. front \in Seq(Text) /\ Len(front) = m /\ \A k \in 1..m : front[k] = p[k]
    BY <1>3, <2>3
  <2> HIDE DEF front, lines
  <2>5. lines = IF p[Len(p)] = <<>> THEN front ELSE p
    BY <2>1, <2>2 DEF front, m
  <2>. QED BY <1>3, <2>4, <2>5 DEF m
<1>5. /\ \A k \in 0..Len(lines) : Led(lines, k) \in Shell
      /\ \A k \in 0..(Len(lines) - 1) : Led(lines, k + 1) = Executed(Led(lines, k), lines[k + 1])
  <2> DEFINE T == {k \in 0..Len(lines) : Led(lines, k) \in Shell}
  <2>1. 0 \in T
    BY <1>4, NoLine
  <2>2. \A k \in 0..(Len(lines) - 1) : Led(lines, k + 1) = Executed(Led(lines, k), lines[k + 1])
    BY <1>4, NextLine
  <2>3. ASSUME NEW k \in 0..(Len(lines) - 1), k \in T PROVE k + 1 \in T
    <3>1. lines[k + 1] \in Text /\ k + 1 \in 0..Len(lines)
      BY <1>4
    <3>. QED BY <2>2, <2>3, <3>1, ExecutedType
  <2>4. Len(lines) \in Nat
    BY <1>4
  <2> HIDE DEF T
  <2>5. 0..Len(lines) \subseteq T
    BY <2>1, <2>3, <2>4, NumbersUpTo
  <2>. QED BY <2>2, <2>5 DEF T
<1> HIDE DEF lines
<1>6. base \in Script
  BY <1>4, NoLine DEF Script, Text
<1>7. PICK iter : Folded(iter, Script, base, n, step)
  BY <1>1, <1>2, <1>6, Folding
<1>8. iter \in [P -> Script]
  BY <1>7 DEF Folded
<1>9. \A s \in P : iter[s] = IF s = {} THEN base ELSE Scripted(iter[s \ {Max(s)}], text[Max(s)])
  <2>. SUFFICES ASSUME NEW s \in P, s # {}
       PROVE  step[Max(s)][iter[s \ {Max(s)}]] = Scripted(iter[s \ {Max(s)}], text[Max(s)])
    BY <1>7 DEF Folded
  <2>1. Max(s) \in 1..n
    BY <1>1, LastPlace
  <2>2. iter[s \ {Max(s)}] \in Script
    BY <1>8
  <2>. QED BY <2>1, <2>2
<1>10. r = [s \in P |-> IF s = {} THEN base ELSE Scripted(r[s \ {Max(s)}], text[Max(s)])]
  <2> DEFINE Is(x) == x = [s \in P |-> IF s = {} THEN base ELSE Scripted(x[s \ {Max(s)}], text[Max(s)])]
  <2>1. Is(iter)
    BY <1>8, <1>9
  <2>2. Is(CHOOSE x : Is(x))
    <3> HIDE DEF Is
    <3>. QED BY <2>1
  <2>3. DOMAIN text = 1..n
    BY <1>1
  <2>. QED BY <2>2, <2>3, Zenon
<1>11. RunMrnFile(text) = IF r[DOMAIN text].line = <<>> THEN r[DOMAIN text].at
                          ELSE Executed(r[DOMAIN text].at, r[DOMAIN text].line)
  BY Zenon DEF RunMrnFile, FoldLeft, MapThenFoldSet, Scripted
<1> HIDE DEF r
<1>12. Folded(r, Script, base, n, step)
  <2>1. r = [s \in P |-> r[s]] /\ r[{}] = base
    <3>1. {} \in P
      OBVIOUS
    <3> HIDE DEF P
    <3>. QED BY <1>10, <3>1
  <2>2. ASSUME NEW s \in P, s # {}, r[s \ {Max(s)}] \in Script
        PROVE  r[s] = step[Max(s)][r[s \ {Max(s)}]]
    <3>1. r[s] = Scripted(r[s \ {Max(s)}], text[Max(s)])
      <4> HIDE DEF P
      <4>. QED BY <1>10, <2>2
    <3>2. Max(s) \in 1..n
      BY <1>1, <2>2, LastPlace
    <3>. QED BY <2>2, <3>1, <3>2
  <2> HIDE DEF base, step, n
  <2>. QED BY <1>1, <1>2, <1>6, <2>1, <2>2, FoldsThrough
<1>13. /\ UpTo(E, 0) = 0 /\ B(0) = 0
       /\ UpTo(E, n) = Len(p) - 1 /\ p[Len(p)] = SubSeq(text, B(n) + 1, n)
       /\ \A i \in 0..n : UpTo(E, i) \in 0..(Len(p) - 1) /\ B(i) \in 0..i
       /\ \A i \in 0..(n - 1) :
            /\ text[i + 1] = Break => /\ UpTo(E, i + 1) = UpTo(E, i) + 1 /\ B(i + 1) = i + 1
                                    /\ p[UpTo(E, i) + 1] = SubSeq(text, B(i) + 1, i)
            /\ text[i + 1] # Break => UpTo(E, i + 1) = UpTo(E, i) /\ B(i + 1) = B(i)
  BY <1>1, PieceByPiece, Zenon
<1> HIDE DEF E, p, B
<1>14. g[0] = base
  <2>1. 0 \in 0..n /\ SubSeq(text, 1, 0) = <<>>
    BY <1>1
  <2>2. g[0] = [line |-> SubSeq(text, B(0) + 1, 0), at |-> Led(lines, UpTo(E, 0))]
    BY <2>1
  <2>3. SubSeq(text, B(0) + 1, 0) = <<>> /\ UpTo(E, 0) = 0
    <3>1. UpTo(E, 0) = 0 /\ B(0) = 0
      BY <1>13, Zenon
    <3>. QED BY <2>1, <3>1
  <2>. QED BY <1>4, <2>2, <2>3, NoLine
<1>15. ASSUME NEW i \in 1..n PROVE g[i] = step[i][g[i - 1]]
  <2> DEFINE j == i - 1
             k == UpTo(E, j)
             l == SubSeq(text, B(j) + 1, j)
             a == Led(lines, k)
  <2>1. j \in 0..(n - 1) /\ j + 1 = i /\ j \in 0..n /\ i \in 0..n
    BY <1>1
  <2> HIDE DEF j
  <2>2. /\ k \in 0..(Len(p) - 1) /\ B(j) \in 0..j /\ text[i] \in STRING
    BY <1>1, <1>13, <2>1
  <2>3. k \in 0..Len(lines)
    BY <1>3, <1>4, <2>2
  <2>4. l \in Text /\ a \in Shell /\ g[j] = [line |-> l, at |-> a]
    BY <1>1, <1>5, <2>1, <2>2, <2>3 DEF Text
  <2>5. /\ g[j] \in Script
        /\ Scripted(g[j], text[i]) = IF text[i] = Break THEN [line |-> <<>>, at |-> Executed(a, l)]
                                     ELSE [line |-> Append(l, text[i]), at |-> a]
    <3> HIDE DEF l, a, g
    <3>. QED BY <2>2, <2>4, ScriptedIs
  <2>6. step[i][g[j]] = Scripted(g[j], text[i])
    BY <2>5
  <2>7. g[i] = [line |-> SubSeq(text, B(i) + 1, i), at |-> Led(lines, UpTo(E, i))]
    BY <2>1
  <2> HIDE DEF g
  <2>8. CASE text[i] = Break
    <3>1. UpTo(E, i) = k + 1 /\ B(i) = i /\ p[k + 1] = l
      BY <1>13, <2>1, <2>8
    <3>2. k + 1 \in 1..Len(lines)
      <4>1. UpTo(E, i) \in 0..(Len(p) - 1)
        BY <1>13, <2>1
      <4>. QED BY <1>3, <1>4, <2>2, <3>1, <4>1
    <3>3. Led(lines, k + 1) = Executed(a, l)
      <4>1. lines[k + 1] = l
        BY <1>4, <3>1, <3>2, Zenon
      <4>2. k \in 0..(Len(lines) - 1)
        <5> HIDE DEF k
        <5>1. k \in Nat /\ Len(lines) \in Nat
          BY <2>2
        <5>. QED BY <3>2, <5>1
      <4>. QED BY <1>5, <4>1, <4>2
    <3>4. SubSeq(text, i + 1, i) = <<>>
      BY <1>1
    <3>. QED BY <2>5, <2>6, <2>7, <2>8, <3>1, <3>3, <3>4 DEF j
  <2>9. CASE text[i] # Break
    <3>1. UpTo(E, i) = k /\ B(i) = B(j)
      BY <1>13, <2>1, <2>9
    <3>2. SubSeq(text, B(j) + 1, i) = Append(l, text[i])
      <4>1. j \in 0..(Len(text) - 1) /\ B(j) \in 0..j /\ j + 1 = i
        BY <1>1, <2>1, <2>2
      <4> HIDE DEF B
      <4>2. SubSeq(text, B(j) + 1, j + 1) = Append(SubSeq(text, B(j) + 1, j), text[j + 1])
        <5>1. text \in Seq(STRING)
          BY DEF Text
        <5>. QED BY <4>1, <5>1, OneFurther
      <4>. QED BY <4>1, <4>2, Zenon
    <3>. QED BY <2>5, <2>6, <2>7, <2>9, <3>1, <3>2 DEF j
  <2>. QED BY <2>8, <2>9
<1>16. r[1..n] = g[n]
  <2>1. n \in Nat
    BY <1>1
  <2>2. \A i \in 1..n : g[i] = step[i][g[i - 1]]
    BY <1>15
  <2> HIDE DEF g, step, base, n, P
  <2>3. Stepwise(g, base, n, step)
    BY <1>14, <2>2 DEF Stepwise
  <2>. QED BY <1>12, <2>1, <2>3, FoldLeads
<1>17. g[n] = [line |-> p[Len(p)], at |-> Led(lines, Len(p) - 1)]
  <2>1. n \in 0..n
    BY <1>1
  <2>. QED BY <1>13, <2>1
<1> HIDE DEF g, n
<1>18. r[DOMAIN text].line = p[Len(p)] /\ r[DOMAIN text].at = Led(lines, Len(p) - 1)
  BY <1>1, <1>16, <1>17
<1>19. CASE p[Len(p)] = <<>>
  <2>1. Len(lines) = Len(p) - 1
    BY <1>4, <1>19
  <2>. QED BY <1>11, <1>18, <1>19, <2>1 DEF lines
<1>20. CASE p[Len(p)] # <<>>
  <2> DEFINE k == Len(p) - 1
  <2>1. Len(lines) = Len(p) /\ k \in 0..(Len(lines) - 1) /\ k + 1 = Len(p) /\ lines[k + 1] = p[Len(p)]
    BY <1>3, <1>4, <1>20
  <2> HIDE DEF k
  <2>2. Led(lines, k + 1) = Executed(Led(lines, k), lines[k + 1])
    BY <1>5, <2>1
  <2>3. RunMrnFile(text) = Executed(Led(lines, k), p[Len(p)])
    BY <1>11, <1>18, <1>20 DEF k
  <2>. QED BY <2>1, <2>2, <2>3 DEF lines
<1>. QED BY <1>19, <1>20

\* Every script of words one space apart runs every line (runMrnFile, getParse).
THEOREM ScriptsRunEveryLine == InputSpec => []ScriptRunsEveryLine
<1> DEFINE Fine(i) ==
             i.kind = "script" =>
               LET lines == Lines(i.text)
               IN  (\A k \in DOMAIN lines : lines[k] # <<>> => Plain(lines[k]))
                   => RunMrnFile(i.text).run = Runs(lines)
<1>1. ASSUME NEW i \in Input PROVE Fine(i)
  <2> DEFINE lines == Lines(i.text)
             n == Len(lines)
             runs == [k \in DOMAIN lines |-> Run(lines, k)]
  <2>. SUFFICES ASSUME i.kind = "script", Spaced(lines)
       PROVE  RunMrnFile(i.text).run = Runs(lines)
    BY DEF Spaced
  <2>1. i.text \in Text
    BY InputAssumption
  <2>2. lines \in Seq(Text)
    <3> DEFINE p == Pieces(i.text, Break)
    <3>1. p \in Seq(Text) /\ Len(p) \in Nat /\ Len(p) >= 1
      BY <2>1, PiecesAre DEF Text
    <3>2. lines = IF p[Len(p)] = <<>> THEN SubSeq(p, 1, Len(p) - 1) ELSE p
      BY Zenon DEF Lines, Front
    <3> HIDE DEF p, lines
    <3>. QED BY <3>1, <3>2
  <2>3. RunMrnFile(i.text) = Led(lines, n)
    BY <2>1, ScriptIs
  <2> HIDE DEF lines
  <2>4. Through(lines) \in 0..n /\ n \in Nat
    BY <2>2, ThroughIs
  <2>5. Done(lines, n) = Through(lines)
    BY <2>4 DEF Done
  <2>6. Led(lines, n).run = Picked(runs, {k \in 1..Through(lines) : ~IsCd(lines[k])})
    <3> DEFINE others == {k \in 1..Through(lines) : ~IsCd(lines[k])}
               a == Picked(runs, others)
               b == Way(lines, Through(lines))
    <3>1. Led(lines, n) = ShellOf(a, b, Through(lines) < n)
      BY <2>5, Zenon DEF Led
    <3> HIDE DEF a, b
    <3>2. \A e : ShellOf(a, b, e).run = a
      BY ShellFields
    <3>3. Led(lines, n).run = a
      BY <3>1, <3>2, Zenon
    <3>. QED BY <3>3 DEF a
  <2>7. Runs(lines) = Picked(runs, {k \in 1..Through(lines) : ~IsCd(lines[k])})
    BY Zenon DEF Runs, Through
  <2>. QED BY <2>3, <2>6, <2>7
<1>2. given \in Input => ScriptRunsEveryLine
  BY <1>1, Zenon DEF ScriptRunsEveryLine
<1>3. given \in Input /\ [UNCHANGED given]_given => (given \in Input)'
  OBVIOUS
<1>. QED BY <1>2, <1>3, PTL DEF InputSpec

-----------------------------------------------------------------------------
\* The places of several sequences in the one they are joined to.

\* How far the first k of them reach.
Reach(ss, k) == Len(FlattenSeq(SubSeq(ss, 1, k)))

\* Each entry of the sequences is behind all of those before its own, and nothing
\* else is in the sequence they make.
LEMMA FlattenAt ==
  ASSUME NEW S, NEW ss \in Seq(Seq(S))
  PROVE  /\ FlattenSeq(ss) \in Seq(S)
         /\ Reach(ss, 0) = 0 /\ Reach(ss, Len(ss)) = Len(FlattenSeq(ss))
         /\ \A k \in 0..Len(ss) : Reach(ss, k) \in 0..Len(FlattenSeq(ss))
         /\ \A k \in 1..Len(ss) :
              /\ Reach(ss, k) = Reach(ss, k - 1) + Len(ss[k])
              /\ \A d \in 1..Len(ss[k]) : FlattenSeq(ss)[Reach(ss, k - 1) + d] = ss[k][d]
         /\ \A i \in 1..Len(FlattenSeq(ss)) :
              \E k \in 1..Len(ss) : \E d \in 1..Len(ss[k]) : i = Reach(ss, k - 1) + d
<1> DEFINE n == Len(ss)
           P(k) == FlattenSeq(SubSeq(ss, 1, k))
           R(k) == Reach(ss, k)
           Holds(K, k, d) == R(k - 1) + d <= R(K) /\ P(K)[R(k - 1) + d] = ss[k][d]
           From(K, i) == \E k \in 1..K : \E d \in 1..Len(ss[k]) : i = R(k - 1) + d
           Good(K) == /\ \A k \in 1..K : \A d \in 1..Len(ss[k]) : Holds(K, k, d)
                      /\ \A i \in 1..R(K) : From(K, i)
           T == {K \in 0..n : Good(K)}
<1>1. n \in Nat /\ (\A k \in 1..n : ss[k] \in Seq(S) /\ Len(ss[k]) \in Nat)
  OBVIOUS
<1>2. /\ P(0) = <<>> /\ P(n) = FlattenSeq(ss)
      /\ \A k \in 0..n : P(k) \in Seq(S)
      /\ \A k \in 0..(n - 1) : P(k + 1) = P(k) \o ss[k + 1]
  <2>1. SubSeq(ss, 1, 0) = <<>> /\ SubSeq(ss, 1, n) = ss /\ P(0) = <<>>
    <3>1. SubSeq(ss, 1, 0) = <<>>
      OBVIOUS
    <3>2. SubSeq(ss, 1, n) = ss
      BY <1>1
    <3>3. P(0) = <<>>
      BY <3>1, FlattenNothing
    <3>. QED BY <3>1, <3>2, <3>3
  <2>2. ASSUME NEW k \in 0..n PROVE P(k) \in Seq(S)
    <3>1. SubSeq(ss, 1, k) \in Seq(Seq(S)) /\ <<>> \in Seq(S)
      OBVIOUS
    <3>. QED BY <3>1, FlattenGrows
  <2>3. ASSUME NEW k \in 0..(n - 1) PROVE P(k + 1) = P(k) \o ss[k + 1]
    <3>1. k \in Nat /\ k + 1 <= Len(ss)
      BY <1>1
    <3>2. /\ SubSeq(ss, 1, k + 1) = Append(SubSeq(ss, 1, k), ss[k + 1])
          /\ SubSeq(ss, 1, k) \in Seq(Seq(S)) /\ ss[k + 1] \in Seq(S)
      BY <3>1, OneMore
    <3>. QED BY <3>2, FlattenGrows
  <2>. QED BY <2>1, <2>2, <2>3
<1>3. \A k \in 0..n : R(k) = Len(P(k))
  BY DEF Reach
<1> HIDE DEF P, R
<1>4. R(0) = 0 /\ R(n) = Len(FlattenSeq(ss)) /\ \A k \in 0..n : R(k) \in Nat
  <2>1. \A k \in 0..n : Len(P(k)) \in Nat
    BY <1>2
  <2>2. 0 \in 0..n /\ n \in 0..n /\ Len(<<>>) = 0
    BY <1>1
  <2>. QED BY <1>2, <1>3, <2>1, <2>2
<1>5. \A k \in 0..(n - 1) : R(k + 1) = R(k) + Len(ss[k + 1])
  <2>. SUFFICES ASSUME NEW k \in 0..(n - 1) PROVE R(k + 1) = R(k) + Len(ss[k + 1])
    OBVIOUS
  <2>1. k \in 0..n /\ k + 1 \in 0..n /\ k + 1 \in 1..n
    BY <1>1
  <2>2. Len(P(k) \o ss[k + 1]) = Len(P(k)) + Len(ss[k + 1])
    BY <1>1, <1>2, <2>1
  <2>. QED BY <1>2, <1>3, <2>1, <2>2
<1>6. 0 \in T
  <2>1. R(0) = 0 /\ 0 \in 0..n
    BY <1>1, <1>4
  <2>. QED BY <2>1
<1>7. ASSUME NEW K \in 0..(n - 1), K \in T PROVE K + 1 \in T
  <2> DEFINE L == K + 1
  <2>1. L \in 0..n /\ K \in 0..n /\ L \in 1..n /\ K \in Nat /\ L - 1 = K
    BY <1>1
  <2>2. R(L) = R(K) + Len(ss[L]) /\ P(L) = P(K) \o ss[L] /\ R(K) = Len(P(K)) /\ R(K) \in Nat
    BY <1>2, <1>3, <1>4, <1>5, <2>1
  <2>3. ss[L] \in Seq(S) /\ P(K) \in Seq(S) /\ Len(ss[L]) \in Nat
    BY <1>1, <1>2, <2>1
  <2>4. Good(K)
    BY <1>7
  <2>5. \A k \in 1..L : k = L \/ k \in 1..K
    BY <2>1
  <2> HIDE DEF L
  <2>6. ASSUME NEW k \in 1..L, NEW d \in 1..Len(ss[k]) PROVE Holds(L, k, d)
    <3>1. CASE k = L
      <4>1. (P(K) \o ss[L])[Len(P(K)) + d] = ss[L][d]
        BY <2>3, <3>1
      <4>2. R(k - 1) + d = Len(P(K)) + d /\ R(K) + d <= R(K) + Len(ss[L])
        <5>1. d \in Nat /\ d <= Len(ss[L])
          BY <2>3, <3>1
        <5>2. R(k - 1) = R(K)
          BY <2>1, <3>1
        <5>3. R(K) = Len(P(K)) /\ R(K) \in Nat
          BY <2>2
        <5>4. R(k - 1) + d = Len(P(K)) + d
          BY <5>2, <5>3
        <5>5. R(K) + d <= R(K) + Len(ss[L])
          BY <2>3, <5>1, <5>3
        <5>. QED BY <5>4, <5>5
      <4>. QED BY <2>1, <2>2, <3>1, <4>1, <4>2
    <3>2. CASE k # L
      <4>1. k \in 1..K /\ Holds(K, k, d)
        BY <2>4, <2>5, <3>2
      <4>2. R(k - 1) + d \in 1..R(K)
        <5>1. k - 1 \in 0..n
          BY <2>1, <4>1
        <5>2. R(k - 1) \in Nat
          BY <1>4, <5>1
        <5>3. d \in Nat /\ d >= 1
          OBVIOUS
        <5>4. R(k - 1) + d <= R(K)
          BY <4>1
        <5> HIDE DEF R
        <5>. QED BY <2>2, <5>2, <5>3, <5>4
      <4> DEFINE i == R(k - 1) + d
      <4>3. (P(K) \o ss[L])[i] = P(K)[i] /\ i <= R(L)
        BY <2>2, <2>3, <4>2
      <4>. QED BY <2>2, <4>1, <4>3
    <3>. QED BY <3>1, <3>2
  <2>7. ASSUME NEW i \in 1..R(L) PROVE From(L, i)
    <3>1. CASE i <= R(K)
      <4>1. i \in 1..R(K)
        BY <2>2, <3>1
      <4>2. From(K, i)
        BY <2>4, <4>1
      <4>3. \A k \in 1..K : k \in 1..L
        BY <2>1
      <4>. QED BY <4>2, <4>3
    <3>2. CASE ~(i <= R(K))
      <4>1. i - R(K) \in 1..Len(ss[L]) /\ i = R(K) + (i - R(K))
        BY <2>2, <2>3, <3>2
      <4>2. L \in 1..L
        BY <2>1
      <4>. QED BY <2>1, <4>1, <4>2
    <3>. QED BY <3>1, <3>2
  <2>8. Good(L)
    BY <2>6, <2>7
  <2>. QED BY <2>1, <2>8 DEF L
<1>8. n \in T /\ 0..n \subseteq T
  <2> HIDE DEF T
  <2>1. 0..n \subseteq T
    BY <1>1, <1>6, <1>7, NumbersUpTo
  <2>. QED BY <1>1, <2>1
<1>9. Good(n)
  BY <1>8
<1>10. \A k \in 1..n : /\ R(k) = R(k - 1) + Len(ss[k])
                       /\ \A d \in 1..Len(ss[k]) : P(n)[R(k - 1) + d] = ss[k][d]
  <2>. SUFFICES ASSUME NEW k \in 1..n
       PROVE  /\ R(k) = R(k - 1) + Len(ss[k])
              /\ \A d \in 1..Len(ss[k]) : P(n)[R(k - 1) + d] = ss[k][d]
    OBVIOUS
  <2>1. k - 1 \in 0..(n - 1) /\ (k - 1) + 1 = k
    BY <1>1
  <2>2. R(k) = R(k - 1) + Len(ss[k])
    BY <1>5, <2>1
  <2>. QED BY <1>9, <2>2
<1>11. \A k \in 0..n : R(k) <= R(n)
  <2> DEFINE U == {j \in 0..n : R(n - j) <= R(n)}
  <2>1. 0 \in U
    BY <1>1, <1>4
  <2>2. ASSUME NEW j \in 0..(n - 1), j \in U PROVE j + 1 \in U
    <3>1. n - (j + 1) \in 0..(n - 1) /\ n - (j + 1) \in 0..n /\ n - j \in 0..n /\ j + 1 \in 0..n
          /\ (n - (j + 1)) + 1 = n - j /\ n - j \in 1..n /\ n \in 0..n
      BY <1>1
    <3> DEFINE a == n - (j + 1)
               b == n - j
    <3>2. R(a + 1) = R(a) + Len(ss[a + 1]) /\ a + 1 = b
      BY <1>5, <3>1
    <3>3. R(a) \in Nat /\ R(b) \in Nat /\ R(n) \in Nat /\ Len(ss[b]) \in Nat /\ R(b) <= R(n)
      BY <1>1, <1>4, <2>2, <3>1
    <3> HIDE DEF a, b
    <3>4. R(a) <= R(n)
      BY <3>2, <3>3
    <3>. QED BY <3>1, <3>4 DEF a
  <2> HIDE DEF U
  <2>3. 0..n \subseteq U
    BY <1>1, <2>1, <2>2, NumbersUpTo
  <2>. QED
    <3>1. \A k \in 0..n : n - k \in 0..n /\ n - (n - k) = k
      BY <1>1
    <3>. QED BY <2>3, <3>1 DEF U
<1>12. FlattenSeq(ss) \in Seq(S)
  <2>1. n \in 0..n
    BY <1>1
  <2>. QED BY <1>2, <2>1
<1>13. \A k \in 0..n : R(k) \in 0..Len(FlattenSeq(ss))
  <2>1. n \in 0..n
    BY <1>1
  <2>. QED BY <1>4, <1>11, <2>1
<1>14. \A i \in 1..Len(FlattenSeq(ss)) : From(n, i)
  BY <1>4, <1>9
<1>. QED BY <1>2, <1>4, <1>10, <1>12, <1>13, <1>14, Zenon DEF R

-----------------------------------------------------------------------------
\* One command as it is typed.

Typing == STRING \union Commands

\* No word of a command is an option.
LEMMA OptionsApart ==
  /\ \A v, w \in Commands : v \notin Options(w)
  /\ \A w \in Commands : Options(w) \subseteq Reserved
  /\ Commands \subseteq Reserved
<1>1. \A v, w \in Commands : v \notin Options(w)
  BY DEF Options, Commands, None, One, Two, Three, Shows
<1>. QED BY <1>1, Zenon DEF Reserved

\* What a command as it is typed consists of.
LEMMA PartIs ==
  ASSUME NEW p \in Part
  PROVE  /\ p.word \in Commands /\ p.operands \in Seq(STRING) /\ p.options \in Seq(Seq(STRING))
         /\ p.word = "stop" \/ Len(p.operands) = IF p.word \in {"run", "restart"} THEN 2
                                                 ELSE Required(p.word)
         /\ p.word = "config" => p.operands[1] = "job"
         /\ \A i \in DOMAIN p.operands : p.operands[i] \notin Reserved
         /\ \A i \in DOMAIN p.options :
              /\ p.options[i] # <<>> /\ p.options[i][1] \in Options(p.word)
              /\ Len(p.options[i]) = IF p.options[i][1] \in Valued THEN 2 ELSE 1
              /\ \A j \in 2..Len(p.options[i]) : p.options[i][j] \notin Reserved
              /\ Kind(p.options[i][1]) = "-t" =>
                   /\ p.options[i][2] \in MemTypes
                   /\ \E h \in 1..(i - 1) : p.options[h][1] = "-mem"
              /\ \A j \in DOMAIN p.options :
                   Kind(p.options[i][1]) = Kind(p.options[j][1]) => i = j
<1>1. /\ p.word \in Commands /\ p.operands \in Text /\ p.options \in Seq(Text)
      /\ p.word = "stop" \/ Len(p.operands) = IF p.word \in {"run", "restart"} THEN 2
                                              ELSE Required(p.word)
      /\ p.word = "config" => p.operands[1] = "job"
      /\ \A i \in DOMAIN p.operands : p.operands[i] \notin Reserved
      /\ \A i \in DOMAIN p.options :
           /\ p.options[i] \in Option(p.word)
           /\ \A j \in 2..Len(p.options[i]) : p.options[i][j] \notin Reserved
           /\ Kind(p.options[i][1]) = "-t" => \E h \in 1..(i - 1) : p.options[h][1] = "-mem"
           /\ \A j \in DOMAIN p.options :
                Kind(p.options[i][1]) = Kind(p.options[j][1]) => i = j
  BY Zenon DEF Part
<1>2. \A o \in Option(p.word) : /\ o # <<>> /\ o[1] \in Options(p.word)
                                /\ Len(o) = IF o[1] \in Valued THEN 2 ELSE 1
                                /\ Kind(o[1]) = "-t" => o[2] \in MemTypes
  BY Zenon DEF Option
<1>. QED BY <1>1, <1>2, Zenon DEF Text

\* One sequence after the other.
OneThenOther(S, a, b, x) ==
    /\ x \in Seq(S) /\ Len(x) = Len(a) + Len(b)
    /\ \A i \in 1..Len(a) : x[i] = a[i]
    /\ \A i \in 1..Len(b) : x[Len(a) + i] = b[i]

\* Two sequences one after the other.
LEMMA Concatenated ==
  ASSUME NEW S, NEW a \in Seq(S), NEW b \in Seq(S)
  PROVE  OneThenOther(S, a, b, a \o b)
<1>1. /\ a \o b \in Seq(S) /\ Len(a \o b) = Len(a) + Len(b)
      /\ \A i \in 1..Len(a) : (a \o b)[i] = a[i]
      /\ \A i \in 1..Len(b) : (a \o b)[Len(a) + i] = b[i]
  OBVIOUS
<1>. QED BY <1>1, Zenon DEF OneThenOther

\* Where the entries of three sequences are in the one they make.
OneThenTwo(S, first, b, c, s) ==
    /\ s \in Seq(S) /\ Len(s) = 1 + Len(b) + Len(c) /\ s[1] = first
    /\ \A d \in 1..Len(b) : s[1 + d] = b[d]
    /\ \A d \in 1..Len(c) : s[1 + Len(b) + d] = c[d]

\* An entry with two sequences behind it.
LEMMA OneAfterOther ==
  ASSUME NEW S, NEW a \in Seq(S), NEW b \in Seq(S), NEW c \in Seq(S), Len(a) = 1
  PROVE  LET s == (a \o b) \o c
         IN  OneThenTwo(S, a[1], b, c, s)
<1> DEFINE x == a \o b
           s == x \o c
<1>1. Len(b) \in Nat /\ Len(c) \in Nat
  OBVIOUS
<1> HIDE DEF s
<1>0. OneThenOther(S, a, b, x)
  BY Concatenated, Zenon
<1> HIDE DEF x
<1>2. /\ x \in Seq(S) /\ Len(x) = Len(a) + Len(b)
      /\ \A i \in 1..Len(a) : x[i] = a[i]
      /\ \A i \in 1..Len(b) : x[Len(a) + i] = b[i]
  BY <1>0, Zenon DEF OneThenOther
<1>3. Len(x) = 1 + Len(b) /\ x[1] = a[1] /\ \A d \in 1..Len(b) : x[1 + d] = b[d]
  BY <1>1, <1>2
<1>4. /\ s \in Seq(S) /\ Len(s) = Len(x) + Len(c)
      /\ \A i \in 1..Len(x) : s[i] = x[i]
      /\ \A i \in 1..Len(c) : s[Len(x) + i] = c[i]
  <2>1. OneThenOther(S, x, c, s)
    BY <1>2, Concatenated, Zenon DEF s
  <2>. QED BY <2>1, Zenon DEF OneThenOther
<1>5. /\ Len(s) = 1 + Len(b) + Len(c) /\ s[1] = a[1]
      /\ \A d \in 1..Len(b) : s[1 + d] = b[d]
      /\ \A d \in 1..Len(c) : s[1 + Len(b) + d] = c[d]
  <2>1. 1 \in 1..Len(x) /\ \A d \in 1..Len(b) : 1 + d \in 1..Len(x)
    BY <1>1, <1>3
  <2>. QED BY <1>1, <1>3, <1>4, <2>1
<1>. QED BY <1>4, <1>5, Zenon DEF s, x, OneThenTwo

\* A command as it is typed: its word, its operands, its options, where nothing
\* behind the word is the word of a command, or an option but at its own place.
LEMMA SegmentIs ==
  ASSUME NEW p \in Part
  PROVE  LET seg == Segment(p)
             m == Len(p.operands)
             l == Len(FlattenSeq(p.options))
             R(k) == Reach(p.options, k)
         IN  /\ seg \in Seq(Typing) /\ Len(seg) = 1 + m + l /\ m \in Nat /\ l \in Nat
             /\ seg[1] = p.word
             /\ \A d \in 1..m : seg[1 + d] = p.operands[d] /\ seg[1 + d] \notin Reserved
             /\ \A o \in DOMAIN p.options : \A e \in 1..Len(p.options[o]) :
                  /\ R(o - 1) \in Nat /\ R(o - 1) + e \in 1..l
                  /\ seg[1 + m + (R(o - 1) + e)] = p.options[o][e]
             /\ \A d \in 2..Len(seg) :
                  /\ seg[d] \notin Commands
                  /\ seg[d] \in Reserved =>
                       \E o \in DOMAIN p.options : d = 1 + m + (R(o - 1) + 1)
<1> DEFINE f == FlattenSeq(p.options)
           seg == Segment(p)
           a == <<p.word>>
           m == Len(p.operands)
           l == Len(f)
           n == Len(p.options)
           R(k) == Reach(p.options, k)
<1>1. /\ p.word \in Commands /\ p.operands \in Seq(STRING) /\ p.options \in Seq(Seq(STRING))
      /\ m \in Nat /\ n \in Nat /\ DOMAIN p.options = 1..n /\ DOMAIN p.operands = 1..m
  BY PartIs
<1>2. /\ f \in Seq(STRING)
      /\ \A k \in 0..n : R(k) \in 0..l
      /\ \A k \in 1..n :
              /\ R(k) = R(k - 1) + Len(p.options[k])
              /\ \A d \in 1..Len(p.options[k]) : f[R(k - 1) + d] = p.options[k][d]
      /\ \A i \in 1..l : \E k \in 1..n : \E d \in 1..Len(p.options[k]) : i = R(k - 1) + d
  BY <1>1, FlattenAt, Zenon
<1>3. seg = (a \o p.operands) \o f
  BY Zenon DEF Segment
<1> HIDE DEF R, seg, f, l
<1>4. l \in Nat /\ l = Len(f)
  BY <1>2 DEF l
<1>5. a \in Seq(Typing) /\ p.operands \in Seq(Typing) /\ f \in Seq(Typing)
      /\ Len(a) = 1 /\ a[1] = p.word
  <2>1. a \in Seq(Typing) /\ Len(a) = 1 /\ a[1] = p.word
    BY <1>1 DEF Typing
  <2>2. \A q \in Seq(STRING) : q \in Seq(STRING \union Commands)
    <3>1. \A S, V : \A q \in Seq(S) : q \in Seq(S \union V)
      OBVIOUS
    <3>. QED BY <3>1, Zenon
  <2>. QED BY <1>1, <1>2, <2>1, <2>2, Zenon DEF Typing
<1> HIDE DEF a
<1>6. seg \in Seq(Typing) /\ Len(seg) = 1 + m + l /\ seg[1] = a[1]
      /\ (\A d \in 1..m : seg[1 + d] = p.operands[d])
      /\ (\A d \in 1..l : seg[1 + m + d] = f[d])
  <2>1. OneThenTwo(Typing, a[1], p.operands, f, seg)
    BY <1>3, <1>5, OneAfterOther, Zenon
  <2>. QED BY <1>4, <2>1, Zenon DEF OneThenTwo
<1>7. seg[1] = p.word
  BY <1>5, <1>6
<1>8. \A d \in 1..m : seg[1 + d] = p.operands[d]
  BY <1>6
<1>9. \A d \in 1..l : seg[1 + m + d] = f[d]
  BY <1>6
<1> HIDE DEF m
<1>10. \A d \in 1..m : seg[1 + d] \notin Reserved
  BY <1>1, <1>8, PartIs DEF m
<1>11. ASSUME NEW o \in DOMAIN p.options, NEW e \in 1..Len(p.options[o])
       PROVE  /\ R(o - 1) \in Nat /\ R(o - 1) + e \in 1..l
              /\ seg[1 + m + (R(o - 1) + e)] = p.options[o][e]
  <2>1. o \in 1..n /\ o - 1 \in 0..n /\ o \in 0..n
    BY <1>1
  <2>2. Len(p.options[o]) \in Nat
    BY <1>1
  <2>3. R(o - 1) \in Nat /\ R(o) <= l /\ R(o) = R(o - 1) + Len(p.options[o])
    BY <1>2, <1>4, <2>1
  <2>4. R(o - 1) + e \in 1..l
    BY <1>4, <2>2, <2>3
  <2>. QED BY <1>2, <1>9, <2>1, <2>3, <2>4
<1>12. ASSUME NEW d \in 2..Len(seg)
       PROVE  /\ seg[d] \notin Commands
              /\ seg[d] \in Reserved => \E o \in DOMAIN p.options : d = 1 + m + (R(o - 1) + 1)
  <2>0. Len(seg) \in Nat /\ m \in Nat /\ l \in Nat
    BY <1>1, <1>4, <1>6 DEF m
  <2>1. CASE d - 1 <= m
    <3>1. d - 1 \in 1..m /\ 1 + (d - 1) = d
      BY <2>0, <2>1
    <3>2. seg[d] \notin Reserved
      BY <1>10, <3>1
    <3>. QED BY <3>2, OptionsApart
  <2>2. CASE ~(d - 1 <= m)
    <3> DEFINE i == d - 1 - m
    <3>1. i \in 1..l /\ 1 + m + i = d
      <4>1. d \in Nat /\ d - 1 > m /\ d <= 1 + m + l
        BY <1>6, <2>0, <2>2
      <4> HIDE DEF l, m
      <4>. QED BY <2>0, <4>1
    <3> HIDE DEF i
    <3>2. PICK o \in 1..n : \E e \in 1..Len(p.options[o]) : i = R(o - 1) + e
      BY <1>2, <3>1
    <3>6. PICK e \in 1..Len(p.options[o]) : i = R(o - 1) + e
      BY <3>2
    <3>3. o \in DOMAIN p.options /\ seg[d] = p.options[o][e]
      BY <1>1, <1>11, <3>1, <3>6
    <3>4. CASE e = 1
      <4>1. seg[d] \in Options(p.word)
        BY <3>3, <3>4, PartIs
      <4>2. d = 1 + m + (R(o - 1) + 1)
        BY <3>1, <3>4, <3>6
      <4>. QED BY <1>1, <3>3, <4>1, <4>2, OptionsApart
    <3>5. CASE e # 1
      <4>1. e \in 2..Len(p.options[o])
        <5>1. Len(p.options[o]) \in Nat
          BY <1>1
        <5>. QED BY <3>5, <5>1
      <4>2. seg[d] \notin Reserved
        BY <3>3, <4>1, PartIs
      <4>. QED BY <4>2, OptionsApart
    <3>. QED BY <3>4, <3>5
  <2>. QED BY <2>1, <2>2
<1>13. m \in Nat
  BY <1>1 DEF m
<1>. QED BY <1>4, <1>6, <1>7, <1>8, <1>10, <1>11, <1>12, <1>13, Zenon DEF R, seg, m, l, f

-----------------------------------------------------------------------------
\* A line of several commands.

Segments(parts) == [k \in DOMAIN parts |-> Segment(parts[k])]

\* How far its first k commands reach.
Off(parts, k) == Reach(Segments(parts), k)

\* The commands of a line are in it one after the other.
LEMMA LineIs ==
  ASSUME NEW parts \in Seq(Part)
  PROVE  LET argv == Arguments(parts)
             n == Len(parts)
         IN  /\ argv \in Seq(Typing) /\ Len(argv) \in Nat
             /\ Off(parts, 0) = 0 /\ Off(parts, n) = Len(argv)
             /\ \A k \in 0..n : Off(parts, k) \in 0..Len(argv)
             /\ \A k \in 1..n :
                  /\ Off(parts, k) = Off(parts, k - 1) + Len(Segment(parts[k]))
                  /\ At(parts, k) = Off(parts, k - 1) + 1
                  /\ \A d \in 1..Len(Segment(parts[k])) :
                       argv[Off(parts, k - 1) + d] = Segment(parts[k])[d]
             /\ \A i \in 1..Len(argv) :
                  \E k \in 1..n : \E d \in 1..Len(Segment(parts[k])) : i = Off(parts, k - 1) + d
<1> DEFINE n == Len(parts)
           ss == Segments(parts)
           argv == Arguments(parts)
<1>1. n \in Nat /\ DOMAIN parts = 1..n /\ \A k \in 1..n : parts[k] \in Part
  OBVIOUS
<1>2. \A k \in 1..n : Segment(parts[k]) \in Seq(Typing)
  BY <1>1, SegmentIs
<1>3. ss \in Seq(Seq(Typing)) /\ Len(ss) = n /\ \A k \in 1..n : ss[k] = Segment(parts[k])
  BY <1>1, <1>2 DEF Segments
<1>4. argv = FlattenSeq(ss)
  BY Zenon DEF Arguments, Segments
<1> HIDE DEF ss, argv
<1>5. /\ argv \in Seq(Typing)
      /\ Reach(ss, 0) = 0 /\ Reach(ss, n) = Len(argv)
      /\ \A k \in 0..n : Reach(ss, k) \in 0..Len(argv)
      /\ \A k \in 1..n :
           /\ Reach(ss, k) = Reach(ss, k - 1) + Len(ss[k])
           /\ \A d \in 1..Len(ss[k]) : argv[Reach(ss, k - 1) + d] = ss[k][d]
      /\ \A i \in 1..Len(argv) :
           \E k \in 1..n : \E d \in 1..Len(ss[k]) : i = Reach(ss, k - 1) + d
  <2>1. ss \in Seq(Seq(Typing))
    BY <1>3
  <2> DEFINE f == FlattenSeq(ss)
             m == Len(ss)
  <2>2. /\ f \in Seq(Typing)
        /\ Reach(ss, 0) = 0 /\ Reach(ss, m) = Len(f)
        /\ \A k \in 0..m : Reach(ss, k) \in 0..Len(f)
        /\ \A k \in 1..m :
             /\ Reach(ss, k) = Reach(ss, k - 1) + Len(ss[k])
             /\ \A d \in 1..Len(ss[k]) : f[Reach(ss, k - 1) + d] = ss[k][d]
        /\ \A i \in 1..Len(f) :
             \E k \in 1..m : \E d \in 1..Len(ss[k]) : i = Reach(ss, k - 1) + d
    BY <2>1, FlattenAt, Zenon
  <2>3. f = argv /\ m = n
    BY <1>3, <1>4
  <2> HIDE DEF f, m, n
  <2>. QED BY <2>2, <2>3
<1>6. \A k \in 0..n : Off(parts, k) = Reach(ss, k)
  BY DEF Off, ss
<1>7. \A k \in 1..n : k - 1 \in 0..n /\ k \in 0..n
  BY <1>1
<1>8. ASSUME NEW k \in 1..n PROVE At(parts, k) = Off(parts, k - 1) + 1
  <2> DEFINE j == k - 1
             q == SubSeq(parts, 1, j)
  <2>1. j \in 0..n /\ j \in Nat /\ j <= n
    BY <1>1
  <2>2. q \in Seq(Part) /\ Len(q) = j /\ DOMAIN q = 1..j /\ \A i \in 1..j : q[i] = parts[i]
    BY <1>1, <2>1
  <2>3. SubSeq(ss, 1, j) = [i \in 1..j |-> Segment(parts[i])]
    <3>1. SubSeq(ss, 1, j) \in Seq(Seq(Typing)) /\ Len(SubSeq(ss, 1, j)) = j
          /\ \A i \in 1..j : SubSeq(ss, 1, j)[i] = ss[i]
      BY <1>3, <2>1
    <3>2. \A i \in 1..j : i \in 1..n
      BY <2>1
    <3>. QED BY <1>3, <3>1, <3>2
  <2> HIDE DEF q
  <2>4. [i \in DOMAIN q |-> Segment(q[i])] = [i \in 1..j |-> Segment(parts[i])]
    BY <2>2
  <2>5. Arguments(q) = FlattenSeq(SubSeq(ss, 1, j))
    BY <2>3, <2>4, Zenon DEF Arguments
  <2>6. At(parts, k) = Len(Arguments(q)) + 1
    BY Zenon DEF At, q
  <2>7. Off(parts, j) = Len(FlattenSeq(SubSeq(ss, 1, j)))
    BY <1>6, <2>1, Zenon DEF Reach
  <2>. QED BY <2>5, <2>6, <2>7
<1>9. Len(argv) \in Nat /\ 0 \in 0..n /\ n \in 0..n
  BY <1>1, <1>5
<1>10. /\ Off(parts, 0) = 0 /\ Off(parts, n) = Len(argv)
       /\ \A k \in 0..n : Off(parts, k) \in 0..Len(argv)
  BY <1>5, <1>6, <1>9
<1>11. \A k \in 1..n :
           /\ Off(parts, k) = Off(parts, k - 1) + Len(Segment(parts[k]))
           /\ \A d \in 1..Len(Segment(parts[k])) :
                argv[Off(parts, k - 1) + d] = Segment(parts[k])[d]
  BY <1>3, <1>5, <1>6, <1>7
<1>12. \A i \in 1..Len(argv) :
         \E k \in 1..n : \E d \in 1..Len(Segment(parts[k])) : i = Off(parts, k - 1) + d
  <2>. SUFFICES ASSUME NEW i \in 1..Len(argv)
       PROVE  \E k \in 1..n : \E d \in 1..Len(Segment(parts[k])) : i = Off(parts, k - 1) + d
    OBVIOUS
  <2>1. PICK k \in 1..n : \E d \in 1..Len(ss[k]) : i = Reach(ss, k - 1) + d
    BY <1>5
  <2>. QED BY <1>3, <1>6, <1>7, <2>1
<1>. QED BY <1>5, <1>8, <1>9, <1>10, <1>11, <1>12, Zenon DEF argv

\* More commands reach farther.
LEMMA OffGrows ==
  ASSUME NEW parts \in Seq(Part), NEW j \in 0..Len(parts), NEW k \in 0..Len(parts), j <= k
  PROVE  Off(parts, j) <= Off(parts, k)
<1> DEFINE n == Len(parts)
           R(i) == Off(parts, i)
           U == {i \in 0..n : j <= i => R(j) <= R(i)}
<1>1. n \in Nat /\ \A i \in 1..n : parts[i] \in Part
  OBVIOUS
<1>2. /\ \A i \in 0..n : R(i) \in Nat
      /\ \A i \in 1..n : R(i) = R(i - 1) + Len(Segment(parts[i])) /\ Len(Segment(parts[i])) \in Nat
  <2>1. \A i \in 1..n : Len(Segment(parts[i])) \in Nat
    BY <1>1, SegmentIs
  <2>2. Len(Arguments(parts)) \in Nat /\ \A i \in 0..n : R(i) \in 0..Len(Arguments(parts))
    BY LineIs
  <2>3. \A i \in 1..n : R(i) = R(i - 1) + Len(Segment(parts[i]))
    BY LineIs
  <2> HIDE DEF R
  <2>. QED BY <2>1, <2>2, <2>3
<1> HIDE DEF R
<1>3. 0 \in U
  BY <1>1, <1>2
<1>4. ASSUME NEW i \in 0..(n - 1), i \in U PROVE i + 1 \in U
  <2>1. i \in 0..n /\ i + 1 \in 0..n /\ i + 1 \in 1..n /\ (i + 1) - 1 = i /\ j \in Nat
    BY <1>1
  <2>2. R(i + 1) = R(i) + Len(Segment(parts[i + 1])) /\ Len(Segment(parts[i + 1])) \in Nat
        /\ R(i) \in Nat /\ R(j) \in Nat /\ R(i + 1) \in Nat
    BY <1>2, <2>1
  <2>3. j <= i + 1 => j <= i \/ j = i + 1
    BY <2>1
  <2>. QED BY <1>4, <2>1, <2>2, <2>3
<1> HIDE DEF U
<1>5. 0..n \subseteq U
  BY <1>1, <1>3, <1>4, NumbersUpTo
<1>. QED BY <1>5 DEF U, R

\* More of the sequences reach farther.
LEMMA ReachGrows ==
  ASSUME NEW S, NEW ss \in Seq(Seq(S)), NEW j \in 0..Len(ss), NEW k \in 0..Len(ss), j <= k
  PROVE  Reach(ss, j) <= Reach(ss, k)
<1> DEFINE n == Len(ss)
           R(i) == Reach(ss, i)
           U == {i \in 0..n : j <= i => R(j) <= R(i)}
<1>1. n \in Nat /\ \A i \in 1..n : Len(ss[i]) \in Nat
  OBVIOUS
<1>2. /\ \A i \in 0..n : R(i) \in Nat
      /\ \A i \in 1..n : R(i) = R(i - 1) + Len(ss[i])
  <2>1. Len(FlattenSeq(ss)) \in Nat
    <3>1. FlattenSeq(ss) \in Seq(S)
      BY FlattenAt
    <3>. QED BY <3>1
  <2>. QED BY <2>1, FlattenAt
<1> HIDE DEF R
<1>3. 0 \in U
  BY <1>1, <1>2
<1>4. ASSUME NEW i \in 0..(n - 1), i \in U PROVE i + 1 \in U
  <2>1. i \in 0..n /\ i + 1 \in 0..n /\ i + 1 \in 1..n /\ (i + 1) - 1 = i /\ j \in Nat
    BY <1>1
  <2>2. R(i + 1) = R(i) + Len(ss[i + 1]) /\ Len(ss[i + 1]) \in Nat
        /\ R(i) \in Nat /\ R(j) \in Nat /\ R(i + 1) \in Nat
    BY <1>1, <1>2, <2>1
  <2>3. j <= i + 1 => j <= i \/ j = i + 1
    BY <2>1
  <2>. QED BY <1>4, <2>1, <2>2, <2>3
<1> HIDE DEF U
<1>5. 0..n \subseteq U
  BY <1>1, <1>3, <1>4, NumbersUpTo
<1>. QED BY <1>5 DEF U, R

\* Where an option and its value are in a command as it is typed.
OptionIsAt(p, o, e) ==
    LET r == Reach(p.options, o - 1)
    IN  /\ r \in Nat /\ r + e \in 1..Len(FlattenSeq(p.options))
        /\ Segment(p)[1 + Len(p.operands) + (r + e)] = p.options[o][e]

\* An option is where it was typed.
LEMMA OptionAt ==
  ASSUME NEW p \in Part, NEW o \in DOMAIN p.options, NEW e \in 1..Len(p.options[o])
  PROVE  OptionIsAt(p, o, e)
BY SegmentIs, Zenon DEF OptionIsAt

\* Only its own options are options of a command among all that follows it.
LEMMA OwnOptions ==
  ASSUME NEW parts \in Seq(Part), Apart(parts), NEW k \in 1..Len(parts),
         NEW i \in (Off(parts, k - 1) + 2)..Len(Arguments(parts)),
         Arguments(parts)[i] \in Options(parts[k].word)
  PROVE  \E o \in DOMAIN parts[k].options :
           i = Off(parts, k - 1) + 1 + Len(parts[k].operands) + (Reach(parts[k].options, o - 1) + 1)
<1> DEFINE n == Len(parts)
           argv == Arguments(parts)
           word == parts[k].word
           A == Off(parts, k - 1)
<1>1. n \in Nat /\ k \in 1..n /\ k - 1 \in 0..n /\ DOMAIN parts = 1..n /\ \A l \in 1..n : parts[l] \in Part
  OBVIOUS
<1>2. Len(argv) \in Nat /\ \A l \in 0..n : Off(parts, l) \in 0..Len(argv)
  BY LineIs
<1>3. A \in Nat /\ i \in 1..Len(argv) /\ i >= A + 2
  BY <1>1, <1>2
<1>4. PICK l \in 1..n : \E d \in 1..Len(Segment(parts[l])) : i = Off(parts, l - 1) + d
  BY <1>3, LineIs
<1>5. PICK d \in 1..Len(Segment(parts[l])) : i = Off(parts, l - 1) + d
  BY <1>4
<1> DEFINE seg == Segment(parts[l])
<1>6. /\ Off(parts, l) = Off(parts, l - 1) + Len(seg) /\ argv[i] = seg[d]
  BY <1>5, LineIs
<1>7. /\ parts[l] \in Part /\ parts[k] \in Part /\ word \in Commands /\ l - 1 \in 0..n /\ l \in 0..n
  <2>1. parts[l] \in Part /\ parts[k] \in Part
    BY <1>1
  <2>2. l - 1 \in 0..n /\ l \in 0..n
    <3>1. \A a \in Nat : \A b \in 1..a : b - 1 \in 0..a /\ b \in 0..a
      OBVIOUS
    <3>. QED BY <1>1, <3>1, Zenon
  <2>. QED BY <2>1, <2>2, PartIs
<1>8. /\ Len(seg) \in Nat /\ seg[1] = parts[l].word /\ parts[l].word \in Commands
      /\ \A e \in 2..Len(seg) :
           /\ seg[e] \notin Commands
           /\ seg[e] \in Reserved =>
                \E o \in DOMAIN parts[l].options :
                  e = 1 + Len(parts[l].operands) + (Reach(parts[l].options, o - 1) + 1)
  <2>1. seg \in Seq(Typing)
    BY <1>7, SegmentIs
  <2>2. Len(seg) \in Nat
    BY <2>1
  <2>. QED BY <1>7, <2>2, SegmentIs, PartIs
<1>9. argv[i] \in Options(word) /\ argv[i] \in Reserved
  BY <1>7, OptionsApart
<1> HIDE DEF seg, argv
<1>10. d # 1
  <2>. SUFFICES ASSUME d = 1 PROVE FALSE
    OBVIOUS
  <2>1. argv[i] \in Commands
    BY <1>6, <1>8
  <2>. QED BY <1>7, <1>9, <2>1, OptionsApart
<1>11. d \in 2..Len(seg) /\ seg[d] \in Reserved
  <2>1. d \in 1..Len(seg) /\ Len(seg) \in Nat
    BY <1>5, <1>8 DEF seg
  <2>. QED BY <1>6, <1>9, <1>10, <2>1
<1>12. PICK o \in DOMAIN parts[l].options :
         d = 1 + Len(parts[l].operands) + (Reach(parts[l].options, o - 1) + 1)
  BY <1>8, <1>11
<1>13. ~(l < k)
  <2>. SUFFICES ASSUME l < k PROVE FALSE
    OBVIOUS
  <2>1. l <= k - 1
    BY <1>1, <1>7
  <2>2. Off(parts, l) <= A
    BY <1>1, <1>7, <2>1, OffGrows
  <2>3. i <= Off(parts, l)
    <3>1. Off(parts, l - 1) \in Nat /\ d <= Len(seg)
      BY <1>2, <1>7, <1>11
    <3>. QED BY <1>5, <1>6, <1>8, <1>11, <3>1
  <2>4. Off(parts, l) \in Nat
    BY <1>2, <1>7
  <2>. QED BY <1>3, <2>2, <2>3, <2>4
<1>14. ~(l > k)
  <2>. SUFFICES ASSUME l > k PROVE FALSE
    OBVIOUS
  <2>1. l \in (k + 1)..Len(parts) /\ k \in DOMAIN parts
    BY <1>1, <1>7
  <2>2. parts[l].options[o][1] \notin Options(word)
    BY <1>12, <2>1 DEF Apart
  <2>3. 1 \in 1..Len(parts[l].options[o])
    <3>1. /\ Len(parts[l].options[o]) = IF parts[l].options[o][1] \in Valued THEN 2 ELSE 1
      BY <1>7, <1>12, PartIs
    <3>. QED BY <3>1
  <2>4. seg[1 + Len(parts[l].operands) + (Reach(parts[l].options, o - 1) + 1)] = parts[l].options[o][1]
    <3>1. OptionIsAt(parts[l], o, 1)
      BY <1>7, <1>12, <2>3, OptionAt, Zenon
    <3>. QED BY <3>1, Zenon DEF OptionIsAt, seg
  <2>. QED BY <1>6, <1>9, <1>12, <2>2, <2>4
<1>15. l = k
  BY <1>1, <1>13, <1>14
<1>16. Len(parts[k].operands) \in Nat /\ Reach(parts[k].options, o - 1) \in Nat
  <2>1. 1 \in 1..Len(parts[k].options[o]) /\ o \in DOMAIN parts[k].options
    <3>1. /\ Len(parts[k].options[o]) = IF parts[k].options[o][1] \in Valued THEN 2 ELSE 1
      BY <1>7, <1>12, <1>15, PartIs
    <3>. QED BY <1>12, <1>15, <3>1
  <2>. QED BY <1>7, <2>1, SegmentIs
<1>. QED
  <2>1. i = A + d /\ d = 1 + Len(parts[k].operands) + (Reach(parts[k].options, o - 1) + 1)
    BY <1>5, <1>12, <1>15
  <2>2. i = A + 1 + Len(parts[k].operands) + (Reach(parts[k].options, o - 1) + 1)
    <3> DEFINE m == Len(parts[k].operands)
               r == Reach(parts[k].options, o - 1)
    <3>1. A \in Nat /\ m \in Nat /\ r \in Nat /\ d = 1 + m + (r + 1) /\ i = A + d
      BY <1>3, <1>16, <2>1
    <3> HIDE DEF m, r, A
    <3>2. i = A + 1 + m + (r + 1)
      BY <3>1
    <3>. QED BY <3>2 DEF m, r, A
  <2>. QED BY <1>12, <1>15, <2>2

-----------------------------------------------------------------------------
\* What main makes of the word of a command that has all it takes behind it.

AskedOf(p) == [word |-> p.word, operands |-> p.operands,
               options |-> {<<Kind(o[1]), IF o[1] \in Valued THEN o[2] ELSE "">> :
                        o \in ToSet(p.options)}]

Came(argv, i) ==
    LET rest == SubSeq(argv, i + 1, Len(argv))
    IN  [word |-> argv[i], operands |-> Operands(argv[i], rest),
         options |-> Chosen(argv[i], rest)]

\* The word at i runs with all that p has.
Finds(argv, i, p) ==
    LET rest == SubSeq(argv, i + 1, Len(argv))
    IN  /\ argv[i] = p.word /\ p.word \in Commands
        /\ ~(Len(rest) < Required(p.word)) /\ ~ValueRefused(p.word, rest)
        /\ Came(argv, i) = AskedOf(p)

\* The place of an option behind the word of its command.
BehindWord(p, o) == Len(p.operands) + (Reach(p.options, o - 1) + 1)

\* A command as it is typed has the operands it takes.
LEMMA EnoughOperands ==
  ASSUME NEW p \in Part
  PROVE  /\ Len(p.operands) \in Nat /\ Required(p.word) \in Nat
         /\ Required(p.word) <= Len(p.operands)
         /\ p.word \notin {"stop", "run", "restart"} => Len(p.operands) = Required(p.word)
         /\ p.word \in {"run", "restart"} => Len(p.operands) = 2
         /\ Options(p.word) = {} => FlattenSeq(p.options) = <<>>
<1>1. /\ p.operands \in Seq(STRING) /\ p.options \in Seq(Seq(STRING))
      /\ p.word = "stop" \/ Len(p.operands) = IF p.word \in {"run", "restart"} THEN 2
                                              ELSE Required(p.word)
      /\ \A i \in DOMAIN p.options : p.options[i][1] \in Options(p.word)
  BY PartIs, Zenon
<1>2. /\ Required(p.word) \in 0..3
      /\ p.word = "stop" => Required(p.word) = 0
      /\ p.word \in {"run", "restart"} => Required(p.word) = 1
  BY DEF Required, None, One, Two, Three, Shows
<1>3. Len(p.operands) \in Nat
  BY <1>1
<1>4. ASSUME Options(p.word) = {} PROVE FlattenSeq(p.options) = <<>>
  <2>1. DOMAIN p.options = {}
    BY <1>1, <1>4, Zenon
  <2>2. p.options = <<>>
    <3>1. \A S : \A q \in Seq(S) : DOMAIN q = {} => q = <<>>
      <4>. SUFFICES ASSUME NEW S, NEW q \in Seq(S), DOMAIN q = {} PROVE q = <<>>
        OBVIOUS
      <4>1. Len(q) \in Nat /\ DOMAIN q = 1..Len(q)
        OBVIOUS
      <4>2. Len(q) = 0
        <5>1. 1 \notin 1..Len(q)
          BY <4>1
        <5>. QED BY <4>1, <5>1
      <4>. QED BY <4>2
    <3>. QED BY <1>1, <2>1, <3>1, Zenon
  <2>. QED BY <2>2, FlattenNothing
<1>5. p.word \in {"run", "restart"} => p.word # "stop"
  OBVIOUS
<1> DEFINE n == Len(p.operands)
           r == Required(p.word)
<1>6. /\ n \in Nat /\ r \in 0..3
      /\ p.word = "stop" \/ n = IF p.word \in {"run", "restart"} THEN 2 ELSE r
      /\ p.word = "stop" => r = 0
      /\ p.word \in {"run", "restart"} => r = 1 /\ p.word # "stop"
  BY <1>1, <1>2, <1>3, <1>5, Zenon
<1> HIDE DEF n, r
<1>7. /\ n \in Nat /\ r \in Nat /\ r <= n
      /\ p.word \notin {"stop", "run", "restart"} => n = r
      /\ p.word \in {"run", "restart"} => n = 2
  BY <1>6
<1>. QED BY <1>4, <1>7, Zenon DEF n, r

\* What is behind the word of a command in a line that is there up to place N.
LEMMA RestIs ==
  ASSUME NEW parts \in Seq(Part), NEW k \in 1..Len(parts),
         NEW N \in Off(parts, k)..Len(Arguments(parts))
  PROVE  LET p == parts[k]
             x == SubSeq(Arguments(parts), 1, N)
             i == Off(parts, k - 1) + 1
             rest == SubSeq(x, i + 1, Len(x))
             m == Len(p.operands)
             l == Len(FlattenSeq(p.options))
         IN  /\ p \in Part /\ i \in 1..Len(x) /\ x[i] = p.word
             /\ m \in Nat /\ l \in Nat /\ Len(rest) \in Nat /\ rest \in Seq(Typing)
             /\ Off(parts, k) = i + m + l /\ Len(rest) = N - i /\ Len(rest) >= m + l
             /\ \A j \in 1..m : rest[j] = p.operands[j]
             /\ \A j \in 1..Len(rest) : rest[j] = Arguments(parts)[i + j]
             /\ \A o \in DOMAIN p.options : \A e \in 1..Len(p.options[o]) :
                  /\ Reach(p.options, o - 1) \in Nat /\ Reach(p.options, o - 1) + e \in 1..l
                  /\ rest[m + (Reach(p.options, o - 1) + e)] = p.options[o][e]
<1> DEFINE p == parts[k]
           argv == Arguments(parts)
           x == SubSeq(argv, 1, N)
           A == Off(parts, k - 1)
           i == A + 1
           rest == SubSeq(x, i + 1, Len(x))
           m == Len(p.operands)
           l == Len(FlattenSeq(p.options))
           seg == Segment(p)
           R(o) == Reach(p.options, o)
<1>1. p \in Part /\ k - 1 \in 0..Len(parts) /\ k \in 0..Len(parts)
  OBVIOUS
<1>2. /\ argv \in Seq(Typing) /\ Len(argv) \in Nat
      /\ A \in Nat /\ Off(parts, k) \in Nat /\ Off(parts, k) <= Len(argv)
      /\ Off(parts, k) = A + Len(seg)
      /\ \A d \in 1..Len(seg) : argv[A + d] = seg[d]
  <2>1. /\ argv \in Seq(Typing) /\ Len(argv) \in Nat
        /\ \A j \in 0..Len(parts) : Off(parts, j) \in 0..Len(argv)
        /\ Off(parts, k) = A + Len(seg)
        /\ \A d \in 1..Len(seg) : argv[A + d] = seg[d]
    BY LineIs, Zenon
  <2>. QED BY <1>1, <2>1
<1>3. /\ m \in Nat /\ l \in Nat /\ Len(seg) = 1 + m + l /\ seg[1] = p.word
      /\ \A d \in 1..m : seg[1 + d] = p.operands[d]
  BY <1>1, SegmentIs
<1>4. \A o \in DOMAIN p.options : \A e \in 1..Len(p.options[o]) :
        /\ R(o - 1) \in Nat /\ R(o - 1) + e \in 1..l
        /\ seg[1 + m + (R(o - 1) + e)] = p.options[o][e]
  BY <1>1, OptionAt, Zenon DEF OptionIsAt
<1> HIDE DEF argv, A, m, l, seg, R, p
<1>5. /\ x \in Seq(Typing) /\ Len(x) = N /\ N \in Nat
      /\ \A j \in 1..N : x[j] = argv[j]
  BY <1>2 DEF argv
<1>6. i \in 1..N /\ N >= i + m + l /\ N <= Len(argv)
  BY <1>2, <1>3, <1>5 DEF argv
<1> HIDE DEF x
<1>7. x[i] = p.word
  <2>1. x[i] = argv[A + 1] /\ 1 \in 1..Len(seg)
    BY <1>3, <1>5, <1>6
  <2>. QED BY <1>2, <1>3, <2>1
<1>8. rest \in Seq(Typing) /\ Len(rest) = N - i /\ Len(rest) \in Nat
      /\ \A j \in 1..Len(rest) : rest[j] = argv[i + j]
  <2>1. i \in Nat /\ i <= N /\ Len(x) = N
    BY <1>2, <1>5, <1>6
  <2> HIDE DEF i
  <2>2. rest \in Seq(Typing) /\ Len(rest) = N - i /\ \A j \in 1..(N - i) : rest[j] = x[i + j]
    BY <1>5, <2>1
  <2>3. \A j \in 1..(N - i) : i + j \in 1..N
    BY <1>5, <2>1
  <2>. QED BY <1>5, <2>1, <2>2, <2>3
<1>9. \A d \in 1..(m + l) : d \in 1..Len(rest) /\ rest[d] = seg[1 + d]
  <2>. SUFFICES ASSUME NEW d \in 1..(m + l) PROVE d \in 1..Len(rest) /\ rest[d] = seg[1 + d]
    OBVIOUS
  <2>1. d \in Nat /\ d >= 1 /\ d <= m + l
    BY <1>3
  <2> HIDE DEF rest
  <2>4. d <= Len(rest)
    BY <1>2, <1>3, <1>5, <1>6, <1>8, <2>1
  <2>5. d \in 1..Len(rest)
    BY <1>8, <2>1, <2>4
  <2>6. 1 + d \in 1..Len(seg) /\ i + d = A + (1 + d)
    BY <1>2, <1>3, <2>1
  <2> HIDE DEF i
  <2>. QED BY <1>2, <1>8, <2>5, <2>6
<1> HIDE DEF rest
<1>10. \A j \in 1..m : rest[j] = p.operands[j]
  <2>1. \A j \in 1..m : j \in 1..(m + l)
    BY <1>3
  <2>. QED BY <1>3, <1>9, <2>1
<1>11. ASSUME NEW o \in DOMAIN p.options, NEW e \in 1..Len(p.options[o])
       PROVE  /\ R(o - 1) \in Nat /\ R(o - 1) + e \in 1..l
              /\ rest[m + (R(o - 1) + e)] = p.options[o][e]
  <2> DEFINE q == R(o - 1) + e
  <2>1. q \in 1..l /\ seg[1 + m + q] = p.options[o][e]
    BY <1>4
  <2>2. m + q \in 1..(m + l) /\ 1 + (m + q) = 1 + m + q
    <3> HIDE DEF q
    <3>. QED BY <1>3, <2>1
  <2> HIDE DEF q
  <2>3. rest[m + q] = seg[1 + m + q]
    BY <1>9, <2>2
  <2>. QED BY <1>4, <2>1, <2>3 DEF q
<1>12. Off(parts, k) = i + m + l /\ Len(rest) >= m + l
  BY <1>2, <1>3, <1>5, <1>6, <1>8
<1>13. \A o \in DOMAIN p.options : \A e \in 1..Len(p.options[o]) :
         /\ R(o - 1) \in Nat /\ R(o - 1) + e \in 1..l
         /\ rest[m + (R(o - 1) + e)] = p.options[o][e]
  BY <1>11
<1>. QED BY <1>1, <1>3, <1>5, <1>6, <1>7, <1>8, <1>10, <1>12, <1>13, Zenon DEF p, argv, x, A, rest, m, l, R

\* What a command finds of its options behind its word are those it was typed with.
LEMMA OptionsFound ==
  ASSUME NEW parts \in Seq(Part), Apart(parts), NEW k \in 1..Len(parts),
         NEW N \in Off(parts, k)..Len(Arguments(parts))
  PROVE  LET p == parts[k]
             x == SubSeq(Arguments(parts), 1, N)
             rest == SubSeq(x, Off(parts, k - 1) + 2, Len(x))
         IN  /\ \A o \in DOMAIN p.options :
                  /\ BehindWord(p, o) \in Given(p.word, rest)
                  /\ rest[BehindWord(p, o)] = p.options[o][1]
                  /\ p.options[o][1] \in Valued =>
                       /\ BehindWord(p, o) # Len(rest)
                       /\ rest[BehindWord(p, o) + 1] = p.options[o][2]
             /\ \A j \in Given(p.word, rest) :
                  \E o \in DOMAIN p.options : j = BehindWord(p, o)
<1> DEFINE p == parts[k]
           argv == Arguments(parts)
           x == SubSeq(argv, 1, N)
           A == Off(parts, k - 1)
           i == A + 1
           rest == SubSeq(x, i + 1, Len(x))
           rest2 == SubSeq(x, A + 2, Len(x))
           m == Len(p.operands)
           l == Len(FlattenSeq(p.options))
           R(o) == Reach(p.options, o)
<1>1. /\ p \in Part /\ i \in 1..Len(x)
      /\ m \in Nat /\ l \in Nat /\ Len(rest) \in Nat /\ rest \in Seq(Typing)
      /\ Len(rest) = N - i /\ Len(rest) >= m + l
      /\ \A j \in 1..m : rest[j] = p.operands[j]
      /\ \A j \in 1..Len(rest) : rest[j] = argv[i + j]
  BY RestIs, Zenon
<1>2. \A o \in DOMAIN p.options : \A e \in 1..Len(p.options[o]) :
         /\ R(o - 1) \in Nat /\ R(o - 1) + e \in 1..l
         /\ rest[m + (R(o - 1) + e)] = p.options[o][e]
  BY RestIs, Zenon
<1>3. /\ \A o \in DOMAIN p.options : /\ p.options[o][1] \in Options(p.word)
                                    /\ Len(p.options[o]) = IF p.options[o][1] \in Valued THEN 2 ELSE 1
  BY <1>1, PartIs, Zenon
<1>31. /\ p.word = "config" => p.operands[1] = "job"
       /\ \A o \in DOMAIN p.options : Kind(p.options[o][1]) = "-t" =>
            \E h \in 1..(o - 1) : p.options[h][1] = "-mem"
  BY <1>1, PartIs, Zenon
<1>32. p.word \in {"find", "config"} => m = 1
  <2>1. p.word \in {"find", "config"} => Required(p.word) = 1
    BY DEF Required, None, One, Shows
  <2>2. p.word \in {"find", "config"} => p.word \notin {"stop", "run", "restart"}
    OBVIOUS
  <2>. QED BY <1>1, <2>1, <2>2, EnoughOperands, Zenon
<1>33. \A q, o \in DOMAIN p.options : q < o => R(q - 1) + 1 <= R(o - 1)
  <2>. SUFFICES ASSUME NEW q \in DOMAIN p.options, NEW o \in DOMAIN p.options, q < o
                PROVE  R(q - 1) + 1 <= R(o - 1)
    OBVIOUS
  <2>1. p.options \in Seq(Seq(STRING))
    BY <1>1, PartIs, Zenon
  <2>2. /\ Len(p.options) \in Nat /\ DOMAIN p.options = 1..Len(p.options)
        /\ q \in 0..Len(p.options) /\ o - 1 \in 0..Len(p.options) /\ q <= o - 1
        /\ q \in 1..Len(p.options)
    <3> HIDE DEF p
    <3>. QED BY <2>1
  <2>3. R(q) <= R(o - 1)
    BY <2>1, <2>2, ReachGrows
  <2>4. R(q) = R(q - 1) + Len(p.options[q]) /\ R(q) \in 0..l /\ R(o - 1) \in 0..l
    BY <2>1, <2>2, FlattenAt
  <2>5. Len(p.options[q]) = IF p.options[q][1] \in Valued THEN 2 ELSE 1
    BY <1>3, Zenon
  <2>6. R(q - 1) \in Nat
    <3>1. 1 \in 1..Len(p.options[q])
      BY <2>5
    <3>. QED BY <1>2, <3>1
  <2> DEFINE c == Len(p.options[q])
             u == R(q - 1)
             v == R(q)
             w == R(o - 1)
  <2>7. c \in {1, 2} /\ v = u + c /\ v <= w /\ u \in Nat /\ v \in Nat /\ w \in Nat
    BY <1>1, <2>3, <2>4, <2>5, <2>6
  <2> HIDE DEF c, u, v, w
  <2>8. u + 1 <= w
    BY <2>7
  <2>. QED BY <2>8 DEF u, w
<1>4. A \in Nat /\ i \in Nat /\ Len(argv) \in Nat /\ N <= Len(argv) /\ N \in Nat
  <2>1. k - 1 \in 0..Len(parts) /\ k \in 0..Len(parts)
    OBVIOUS
  <2>2. Len(argv) \in Nat /\ Off(parts, k) \in 0..Len(argv) /\ A \in 0..Len(argv)
    BY <2>1, LineIs, Zenon
  <2>. QED BY <2>2
<1>5. rest = rest2
  <2>1. i + 1 = A + 2
    BY <1>4
  <2> HIDE DEF x
  <2>. QED BY <2>1, Zenon
<1>6. \A o : BehindWord(p, o) = m + (R(o - 1) + 1)
  BY Zenon DEF BehindWord
<1> HIDE DEF p, argv, x, A, rest, rest2, m, l, R
<1>7. DOMAIN rest = 1..Len(rest)
  BY <1>1
<1>8. ASSUME NEW o \in DOMAIN p.options
      PROVE  /\ BehindWord(p, o) \in Given(p.word, rest)
             /\ rest[BehindWord(p, o)] = p.options[o][1]
             /\ p.options[o][1] \in Valued =>
                  /\ BehindWord(p, o) # Len(rest)
                  /\ rest[BehindWord(p, o) + 1] = p.options[o][2]
  <2> DEFINE r == R(o - 1)
             c == Len(p.options[o])
  <2>1. c = (IF p.options[o][1] \in Valued THEN 2 ELSE 1) /\ p.options[o][1] \in Options(p.word)
    BY <1>3, Zenon
  <2> HIDE DEF c
  <2>2. 1 \in 1..c
    BY <2>1
  <2>3. r \in Nat /\ r + 1 \in 1..l /\ rest[m + (r + 1)] = p.options[o][1]
    BY <1>2, <2>2 DEF c
  <2> HIDE DEF r
  <2>4. m + (r + 1) \in 1..Len(rest)
    BY <1>1, <2>3
  <2>5. BehindWord(p, o) = m + (r + 1)
    BY <1>6, Zenon DEF r
  <2>6. BehindWord(p, o) \in Given(p.word, rest) /\ rest[BehindWord(p, o)] = p.options[o][1]
    <3> DEFINE b == BehindWord(p, o)
    <3>1. b \in DOMAIN rest /\ rest[b] = p.options[o][1] /\ rest[b] \in Options(p.word)
      BY <1>7, <2>1, <2>3, <2>4, <2>5
    <3>2. p.word = "find" => b > 1
      BY <1>32, <2>3, <2>5
    <3>3. p.word = "config" => rest[1] = "job"
      BY <1>1, <1>31, <1>32
    <3>4. ASSUME Kind(rest[b]) = "-t" PROVE \E h \in 1..(b - 1) : rest[h] = "-mem"
      <4>1. PICK q \in 1..(o - 1) : p.options[q][1] = "-mem"
        BY <1>31, <3>1, <3>4
      <4>2. q \in DOMAIN p.options /\ q < o
        <5>1. p.options \in Seq(Seq(STRING))
          BY <1>1, PartIs, Zenon
        <5>. QED BY <5>1
      <4>3. 1 \in 1..Len(p.options[q])
        BY <1>3, <4>2
      <4>4. R(q - 1) \in Nat /\ rest[m + (R(q - 1) + 1)] = "-mem" /\ R(q - 1) + 1 <= r
        BY <1>2, <1>33, <4>1, <4>2, <4>3 DEF r
      <4> DEFINE u == R(q - 1)
      <4>5. m + (u + 1) \in 1..(b - 1)
        <5>1. u \in Nat /\ u + 1 <= r /\ b = m + (r + 1)
          BY <2>5, <4>4
        <5> HIDE DEF u, b
        <5>. QED BY <1>1, <2>3, <5>1
      <4>. QED BY <4>4, <4>5
    <3> HIDE DEF b
    <3>. QED BY <3>1, <3>2, <3>3, <3>4 DEF Given, b
  <2>7. ASSUME p.options[o][1] \in Valued
        PROVE  BehindWord(p, o) # Len(rest) /\ rest[BehindWord(p, o) + 1] = p.options[o][2]
    <3>1. 2 \in 1..c
      BY <2>1, <2>7
    <3>2. r + 2 \in 1..l /\ rest[m + (r + 2)] = p.options[o][2]
      BY <1>2, <3>1 DEF c, r
    <3>3. m + (r + 2) = BehindWord(p, o) + 1 /\ BehindWord(p, o) # Len(rest)
      BY <1>1, <2>3, <2>5, <3>2
    <3>. QED BY <3>2, <3>3
  <2>. QED BY <2>6, <2>7
<1>9. ASSUME NEW j \in Given(p.word, rest)
      PROVE  \E o \in DOMAIN p.options : j = BehindWord(p, o)
  <2>1. j \in 1..Len(rest) /\ rest[j] \in Options(p.word)
    BY <1>7 DEF Given
  <2>2. argv[i + j] \in Options(p.word) /\ i + j \in (A + 2)..Len(argv)
    <3>1. argv[i + j] = rest[j]
      BY <1>1, <2>1
    <3>2. j >= 1 /\ j <= N - i /\ j \in Nat
      BY <1>1, <2>1
    <3>3. i + j \in (A + 2)..Len(argv)
      BY <1>4, <3>2
    <3>. QED BY <2>1, <3>1, <3>3
  <2>3. \E o \in DOMAIN p.options : i + j = A + 1 + m + (R(o - 1) + 1)
    BY <2>2, OwnOptions, Zenon DEF argv, p, A, m, R
  <2>4. PICK o \in DOMAIN p.options : i + j = A + 1 + m + (R(o - 1) + 1)
    BY <2>3
  <2>5. R(o - 1) \in Nat
    <3>1. 1 \in 1..Len(p.options[o])
      BY <1>3
    <3>. QED BY <1>2, <3>1
  <2>6. j \in Nat /\ j = m + (R(o - 1) + 1)
    <3> DEFINE r == R(o - 1)
    <3>1. r \in Nat /\ i + j = A + 1 + m + (r + 1) /\ j \in Nat
      BY <2>1, <2>4, <2>5
    <3> HIDE DEF r
    <3>2. j = m + (r + 1)
      BY <1>1, <1>4, <3>1
    <3>. QED BY <3>1, <3>2 DEF r
  <2>. QED BY <1>6, <2>6
<1>10. /\ \A o \in DOMAIN p.options :
             /\ BehindWord(p, o) \in Given(p.word, rest2)
             /\ rest2[BehindWord(p, o)] = p.options[o][1]
             /\ p.options[o][1] \in Valued =>
                  /\ BehindWord(p, o) # Len(rest2)
                  /\ rest2[BehindWord(p, o) + 1] = p.options[o][2]
       /\ \A j \in Given(p.word, rest2) : \E o \in DOMAIN p.options : j = BehindWord(p, o)
  BY <1>5, <1>8, <1>9, Zenon
<1>. QED BY <1>10, Zenon DEF p, argv, x, A, rest2

\* Each command of a line that is there up to its end runs with all that is its own.
LEMMA CommandFinds ==
  ASSUME NEW parts \in Seq(Part), Apart(parts), NEW k \in 1..Len(parts),
         NEW N \in Off(parts, k)..Len(Arguments(parts))
  PROVE  Finds(SubSeq(Arguments(parts), 1, N), Off(parts, k - 1) + 1, parts[k])
<1> DEFINE p == parts[k]
           argv == Arguments(parts)
           x == SubSeq(argv, 1, N)
           A == Off(parts, k - 1)
           i == A + 1
           rest == SubSeq(x, i + 1, Len(x))
           m == Len(p.operands)
           l == Len(FlattenSeq(p.options))
<1>1. /\ p \in Part /\ i \in 1..Len(x) /\ x[i] = p.word
      /\ m \in Nat /\ l \in Nat /\ Len(rest) \in Nat /\ rest \in Seq(Typing)
      /\ Off(parts, k) = i + m + l
      /\ Len(rest) = N - i /\ Len(rest) >= m + l
      /\ \A j \in 1..m : rest[j] = p.operands[j]
  BY RestIs, Zenon
<1>2. /\ m \in Nat /\ Required(p.word) \in Nat /\ Required(p.word) <= m
      /\ p.word \notin {"stop", "run", "restart"} => m = Required(p.word)
      /\ p.word \in {"run", "restart"} => m = 2
      /\ Options(p.word) = {} => FlattenSeq(p.options) = <<>>
  BY <1>1, EnoughOperands, Zenon
<1>3. p.word \in Commands /\ p.operands \in Seq(STRING) /\ p.options \in Seq(Seq(STRING))
  BY <1>1, PartIs, Zenon
<1>4. A \in Nat /\ i \in Nat /\ Len(argv) \in Nat /\ N <= Len(argv) /\ N \in Nat
  <2>1. k - 1 \in 0..Len(parts) /\ k \in 0..Len(parts)
    OBVIOUS
  <2>2. Len(argv) \in Nat /\ Off(parts, k) \in 0..Len(argv) /\ A \in 0..Len(argv)
    BY <2>1, LineIs, Zenon
  <2>. QED BY <2>2
<1>5. rest = SubSeq(x, A + 2, Len(x))
  <2>1. i + 1 = A + 2
    BY <1>4
  <2> HIDE DEF x
  <2>. QED BY <2>1, Zenon
<1>6. /\ \A o \in DOMAIN p.options :
           /\ BehindWord(p, o) \in Given(p.word, rest)
           /\ rest[BehindWord(p, o)] = p.options[o][1]
           /\ p.options[o][1] \in Valued =>
                /\ BehindWord(p, o) # Len(rest)
                /\ rest[BehindWord(p, o) + 1] = p.options[o][2]
      /\ \A j \in Given(p.word, rest) : \E o \in DOMAIN p.options : j = BehindWord(p, o)
  <2> DEFINE rest2 == SubSeq(x, A + 2, Len(x))
  <2>1. /\ \A o \in DOMAIN p.options :
             /\ BehindWord(p, o) \in Given(p.word, rest2)
             /\ rest2[BehindWord(p, o)] = p.options[o][1]
             /\ p.options[o][1] \in Valued =>
                  /\ BehindWord(p, o) # Len(rest2)
                  /\ rest2[BehindWord(p, o) + 1] = p.options[o][2]
        /\ \A j \in Given(p.word, rest2) : \E o \in DOMAIN p.options : j = BehindWord(p, o)
    BY OptionsFound, Zenon
  <2>2. rest = rest2
    BY <1>5
  <2> HIDE DEF rest, rest2, p
  <2>. QED BY <2>1, <2>2, Zenon
<1>7. ASSUME p.word = "stop" PROVE N = Off(parts, k)
  <2>1. ~(k < Len(parts))
    <3>. SUFFICES ASSUME k < Len(parts) PROVE FALSE
      OBVIOUS
    <3>1. k \in DOMAIN parts /\ Len(parts) \in (k + 1)..Len(parts)
      OBVIOUS
    <3>. QED BY <1>7, <3>1 DEF Apart
  <2>2. k = Len(parts)
    BY <2>1
  <2>3. Off(parts, Len(parts)) = Len(argv)
    BY LineIs, Zenon
  <2>. QED BY <1>4, <2>2, <2>3
<1> HIDE DEF p, argv, x, A, rest, m, l
<1>8. ~(Len(rest) < Required(p.word))
  BY <1>1, <1>2
<1>9. ~ValueRefused(p.word, rest)
  <2>. SUFFICES ASSUME NEW j \in Given(p.word, rest), rest[j] \in Valued
       PROVE  ~(j = Len(rest) \/ (Kind(rest[j]) = "-t" /\ rest[j + 1] \notin MemTypes))
    BY Zenon DEF ValueRefused
  <2>1. PICK o \in DOMAIN p.options : j = BehindWord(p, o)
    BY <1>6, Zenon
  <2>2. Kind(p.options[o][1]) = "-t" => p.options[o][2] \in MemTypes
    BY <1>1, PartIs, Zenon
  <2>. QED BY <1>6, <2>1, <2>2
<1>10. \A c \in Nat : c = m => SubSeq(rest, 1, c) = p.operands
  <2>. SUFFICES SubSeq(rest, 1, m) = p.operands
    OBVIOUS
  <2>1. m <= Len(rest)
    BY <1>1
  <2>2. SubSeq(rest, 1, m) \in Seq(Typing) /\ Len(SubSeq(rest, 1, m)) = m
        /\ \A j \in 1..m : SubSeq(rest, 1, m)[j] = rest[j]
    <3> HIDE DEF rest, m
    <3>1. rest \in Seq(Typing) /\ m \in 0..Len(rest)
      BY <1>1, <2>1
    <3>. QED BY <3>1, FirstEntries
  <2>3. \A j \in 1..m : SubSeq(rest, 1, m)[j] = p.operands[j]
    BY <1>1, <2>2
  <2>. QED BY <1>1, <1>3, <2>2, <2>3 DEF m
<1>11. Operands(p.word, rest) = p.operands
  <2>1. CASE p.word = "stop"
    <3>1. Options("stop") = {}
      BY DEF Options
    <3>2. l = 0
      BY <1>2, <2>1, <3>1 DEF l
    <3>3. Len(rest) = m
      BY <1>1, <1>4, <1>7, <2>1, <3>2
    <3>4. SubSeq(rest, 1, Len(rest)) = rest
      BY <1>1
    <3>5. rest = p.operands
      BY <1>1, <1>10, <3>3, <3>4
    <3>. QED BY <2>1, <3>5 DEF Operands
  <2>2. CASE p.word \in {"run", "restart"}
    <3>1. m = 2 /\ Len(rest) > 1 /\ p.word # "stop"
      BY <1>1, <1>2, <2>2
    <3>2. SubSeq(rest, 1, 2) = p.operands
      BY <1>10, <3>1
    <3>. QED BY <2>2, <3>1, <3>2, Zenon DEF Operands
  <2>3. CASE p.word \notin {"stop", "run", "restart"}
    <3>1. SubSeq(rest, 1, Required(p.word)) = p.operands
      BY <1>2, <1>10, <2>3
    <3>2. p.word # "stop" /\ p.word \notin {"run", "restart"}
      BY <2>3
    <3>. QED BY <3>1, <3>2, Zenon DEF Operands
  <2>. QED BY <2>1, <2>2, <2>3
<1>12. Chosen(p.word, rest) = AskedOf(p).options
  <2> DEFINE last == {j \in Given(p.word, rest) :
                        \A h \in Given(p.word, rest) : ~Overrides(rest, h, j)}
             Shown(j) == <<Kind(rest[j]), ValueAt(rest, j)>>
             Had(o) == <<Kind(o[1]), IF o[1] \in Valued THEN o[2] ELSE "">>
  <2>1. last = Given(p.word, rest)
    <3>. SUFFICES ASSUME NEW j \in Given(p.word, rest), NEW h \in Given(p.word, rest),
                         Overrides(rest, h, j)
         PROVE  FALSE
      OBVIOUS
    <3>0. Kind(rest[h]) = Kind(rest[j])
      BY DEF Overrides
    <3>1. PICK o \in DOMAIN p.options : j = BehindWord(p, o)
      BY <1>6, Zenon
    <3>2. PICK q \in DOMAIN p.options : h = BehindWord(p, q)
      BY <1>6, Zenon
    <3>3. Kind(p.options[o][1]) = Kind(p.options[q][1])
      BY <1>6, <3>0, <3>1, <3>2
    <3>4. o = q
      BY <1>1, <3>3, PartIs, Zenon
    <3>5. j \in Nat /\ h = j
      BY <1>1, <3>1, <3>2, <3>4 DEF Given
    <3>6. ~(j > j)
      BY <3>5
    <3>. QED BY <3>5, <3>6, Zenon DEF Overrides
  <2>2. \A o \in DOMAIN p.options : Shown(BehindWord(p, o)) = Had(p.options[o])
    BY <1>6 DEF ValueAt
  <2>3. ToSet(p.options) = {p.options[o] : o \in DOMAIN p.options}
    BY Zenon DEF ToSet
  <2>4. Chosen(p.word, rest) = {Shown(j) : j \in last}
    BY Zenon DEF Chosen
  <2>5. AskedOf(p).options = {Had(o) : o \in ToSet(p.options)}
    BY DEF AskedOf
  <2> HIDE DEF last, Shown, Had
  <2>6. {Shown(j) : j \in last} = {Had(o) : o \in ToSet(p.options)}
    BY <1>6, <2>1, <2>2, <2>3
  <2>. QED BY <2>4, <2>5, <2>6
<1>13. Came(x, i) = AskedOf(p)
  <2>1. Came(x, i) = [word |-> p.word, operands |-> p.operands, options |-> AskedOf(p).options]
    BY <1>1, <1>11, <1>12, Zenon DEF Came, rest
  <2>2. AskedOf(p) = [word |-> p.word, operands |-> p.operands, options |-> AskedOf(p).options]
    BY DEF AskedOf
  <2>. QED BY <2>1, <2>2
<1>14. Finds(x, i, p)
  BY <1>1, <1>3, <1>8, <1>9, <1>13, Zenon DEF Finds, rest
<1>. QED BY <1>14, Zenon DEF p, argv, x, A

-----------------------------------------------------------------------------
\* main's loop, argument by argument.

StateOf(r, e) == [ran |-> r, end |-> e]
EndsSo == {"no", "returned", "failed", "refused", "crashed", "crashed or refused"}
Dispatching(argv) == [ran : Seq({Came(argv, i) : i \in 1..Len(argv)}), end : EndsSo]

EndOf(w, i, F) == IF w \in Final THEN "returned"
                  ELSE IF w \in Strict /\ i \in F THEN "failed" ELSE "no"

\* The state next is what main makes of the one with r and e at argument i.
Becomes(next, r, e, argv, i, F) ==
    LET w == argv[i]
        rest == SubSeq(argv, i + 1, Len(argv))
    IN  /\ e # "no" \/ w \notin Commands => next = StateOf(r, e)
        /\ e = "no" /\ w \in Commands =>
             /\ Len(rest) < Required(w) => next = StateOf(r, Missing(w, Len(rest)))
             /\ ~(Len(rest) < Required(w)) /\ ValueRefused(w, rest) => next = StateOf(r, "refused")
             /\ ~(Len(rest) < Required(w)) /\ ~ValueRefused(w, rest) =>
                  next = StateOf(Append(r, Came(argv, i)), EndOf(w, i, F))

\* main at one argument.
LEMMA ArgumentIs ==
  ASSUME NEW argv, NEW F, NEW i, NEW r, NEW e
  PROVE  Becomes(Argument(StateOf(r, e), i, argv, F), r, e, argv, i, F)
<1> DEFINE w == argv[i]
           rest == SubSeq(argv, i + 1, Len(argv))
           s == StateOf(r, e)
           next == Argument(s, i, argv, F)
           result == EndOf(w, i, F)
<1>1. s.ran = r /\ s.end = e /\ \A d : [s EXCEPT !.end = d] = StateOf(r, d)
  BY DEF StateOf
<1>2. Came(argv, i) = [word |-> w, operands |-> Operands(w, rest), options |-> Chosen(w, rest)]
  BY Zenon DEF Came
<1>3. next = IF s.end # "no" \/ w \notin Commands THEN s
             ELSE IF Len(rest) < Required(w) THEN [s EXCEPT !.end = Missing(w, Len(rest))]
             ELSE IF ValueRefused(w, rest) THEN [s EXCEPT !.end = "refused"]
             ELSE [ran |-> Append(s.ran, Came(argv, i)), end |-> result]
  BY <1>2, Zenon DEF Argument, EndOf
<1>4. [ran |-> Append(r, Came(argv, i)), end |-> result] = StateOf(Append(r, Came(argv, i)), result)
  BY Zenon DEF StateOf
<1> HIDE DEF s, next, w, rest, result
<1>5. next = IF e # "no" \/ w \notin Commands THEN s
             ELSE IF Len(rest) < Required(w) THEN StateOf(r, Missing(w, Len(rest)))
             ELSE IF ValueRefused(w, rest) THEN StateOf(r, "refused")
             ELSE StateOf(Append(r, Came(argv, i)), result)
  BY <1>1, <1>3, <1>4, Zenon
<1>6. /\ e # "no" \/ w \notin Commands => next = s
      /\ e = "no" /\ w \in Commands =>
           /\ Len(rest) < Required(w) => next = StateOf(r, Missing(w, Len(rest)))
           /\ ~(Len(rest) < Required(w)) /\ ValueRefused(w, rest) => next = StateOf(r, "refused")
           /\ ~(Len(rest) < Required(w)) /\ ~ValueRefused(w, rest) =>
                next = StateOf(Append(r, Came(argv, i)), result)
  BY <1>5, Zenon
<1>. QED BY <1>6, Zenon DEF next, s, w, rest, result, Becomes

\* main stays in a state of its type.
LEMMA ArgumentType ==
  ASSUME NEW argv, NEW F, NEW i \in 1..Len(argv), NEW s \in Dispatching(argv)
  PROVE  Argument(s, i, argv, F) \in Dispatching(argv)
<1> DEFINE Y == {Came(argv, j) : j \in 1..Len(argv)}
           next == Argument(s, i, argv, F)
           w == argv[i]
           rest == SubSeq(argv, i + 1, Len(argv))
<1>1. s = StateOf(s.ran, s.end) /\ s.ran \in Seq(Y) /\ s.end \in EndsSo
  BY DEF Dispatching, StateOf
<1>2. ASSUME NEW r \in Seq(Y), NEW e \in EndsSo PROVE StateOf(r, e) \in Dispatching(argv)
  BY DEF Dispatching, StateOf
<1>3. Came(argv, i) \in Y
  OBVIOUS
<1> HIDE DEF Y, next
<1>4. Append(s.ran, Came(argv, i)) \in Seq(Y)
  BY <1>1, <1>3
<1>5. \A n : Missing(w, n) \in EndsSo
  BY DEF Missing, EndsSo
<1>6. EndOf(w, i, F) \in EndsSo /\ "refused" \in EndsSo
  BY DEF EndsSo, EndOf
<1> HIDE DEF w, rest
<1>7. \/ next = s \/ next = StateOf(s.ran, Missing(w, Len(rest)))
      \/ next = StateOf(s.ran, "refused")
      \/ next = StateOf(Append(s.ran, Came(argv, i)), EndOf(w, i, F))
  <2> DEFINE r == s.ran
             e == s.end
  <2>1. s = StateOf(r, e)
    BY <1>1
  <2> HIDE DEF r, e
  <2>2. next = Argument(StateOf(r, e), i, argv, F)
    BY <2>1, Zenon DEF next
  <2>3. \/ next = StateOf(r, e) \/ next = StateOf(r, Missing(w, Len(rest)))
        \/ next = StateOf(r, "refused")
        \/ next = StateOf(Append(r, Came(argv, i)), EndOf(w, i, F))
    <3>1. Becomes(next, r, e, argv, i, F)
      BY <2>2, ArgumentIs, Zenon
    <3>. QED BY <3>1, Zenon DEF Becomes, w, rest
  <2>. QED BY <2>1, <2>3, Zenon DEF r
<1>. QED BY <1>1, <1>2, <1>4, <1>5, <1>6, <1>7, Zenon DEF next

Steps(R, argv, F) ==
    /\ R[0] = StateOf(<<>>, "no")
    /\ \A i \in 1..Len(argv) : R[i] = Argument(R[i - 1], i, argv, F)
    /\ Dispatch(argv, F) = R[Len(argv)]

\* Dispatch goes through the arguments one by one.
LEMMA DispatchSteps ==
  ASSUME NEW A, NEW argv \in Seq(A), NEW F
  PROVE  \E R : Steps(R, argv, F)
<1> DEFINE n == Len(argv)
           S == Dispatching(argv)
           base == StateOf(<<>>, "no")
           ids == [i \in DOMAIN argv |-> i]
           P == SUBSET (1..n)
           step == [i \in 1..n |-> [s \in S |-> Argument(s, i, argv, F)]]
           r == CHOOSE r : r = [s \in SUBSET (DOMAIN ids) |->
                                  IF s = {} THEN base
                                  ELSE Argument(r[s \ {Max(s)}], ids[Max(s)], argv, F)]
<1>1. n \in Nat /\ DOMAIN argv = 1..n /\ DOMAIN ids = 1..n
  OBVIOUS
<1>2. step \in [1..n -> [S -> S]]
  BY ArgumentType
<1>3. base \in S
  BY DEF StateOf, Dispatching, EndsSo
<1>4. PICK iter : Folded(iter, S, base, n, step)
  BY <1>1, <1>2, <1>3, Folding
<1>5. iter \in [P -> S]
  BY <1>4 DEF Folded
<1>6. \A s \in P : s # {} => Max(s) \in 1..n /\ ids[Max(s)] = Max(s)
  BY <1>1, LastPlace
<1>7. \A s \in P : iter[s] = IF s = {} THEN base
                             ELSE Argument(iter[s \ {Max(s)}], ids[Max(s)], argv, F)
  <2>. SUFFICES ASSUME NEW s \in P, s # {}
       PROVE  step[Max(s)][iter[s \ {Max(s)}]] = Argument(iter[s \ {Max(s)}], ids[Max(s)], argv, F)
    BY <1>4 DEF Folded
  <2>1. Max(s) \in 1..n /\ ids[Max(s)] = Max(s)
    BY <1>6
  <2>2. iter[s \ {Max(s)}] \in S
    BY <1>5
  <2> HIDE DEF S
  <2>. QED BY <2>1, <2>2
<1> HIDE DEF S, base, ids, step
<1>8. r = [s \in P |-> IF s = {} THEN base ELSE Argument(r[s \ {Max(s)}], ids[Max(s)], argv, F)]
  <2> DEFINE Is(x) == x = [s \in P |-> IF s = {} THEN base
                                        ELSE Argument(x[s \ {Max(s)}], ids[Max(s)], argv, F)]
  <2>1. Is(iter)
    BY <1>5, <1>7
  <2>2. Is(CHOOSE x : Is(x))
    <3> HIDE DEF Is
    <3>. QED BY <2>1
  <2>. QED BY <1>1, <2>2, Zenon
<1>9. Dispatch(argv, F) = r[DOMAIN ids]
  BY Zenon DEF Dispatch, FoldLeft, MapThenFoldSet, StateOf, ids, base
<1> HIDE DEF r
<1> DEFINE R == [i \in 0..n |-> r[1..i]]
<1>10. R[0] = base /\ \A i \in 1..n : R[i] = Argument(R[i - 1], i, argv, F)
  <2>1. \A s \in P : r[s] = IF s = {} THEN base ELSE Argument(r[s \ {Max(s)}], ids[Max(s)], argv, F)
    BY <1>8
  <2>2. /\ \A i \in 0..n : 1..i \in P
        /\ 1..0 = {} /\ 0 \in 0..n
        /\ \A i \in 1..n : /\ 1..i # {} /\ Max(1..i) = i
                            /\ (1..i) \ {i} = 1..(i - 1) /\ i - 1 \in 0..n /\ i \in 0..n
    BY <1>1, UpToEachPlace
  <2>3. r[1..0] = base
    BY <2>1, <2>2, Zenon
  <2>4. ASSUME NEW i \in 1..n
        PROVE  R[i] = Argument(R[i - 1], i, argv, F)
    <3>1. 1..i \in P /\ 1..i # {} /\ Max(1..i) = i /\ (1..i) \ {i} = 1..(i - 1)
      BY <2>2
    <3>2. ids[i] = i
      BY <1>1 DEF ids
    <3>3. r[1..i] = Argument(r[1..(i - 1)], i, argv, F)
      <4> HIDE DEF P, n
      <4>. QED BY <2>1, <3>1, <3>2
    <3>4. R[i] = r[1..i] /\ R[i - 1] = r[1..(i - 1)]
      BY <2>2
    <3>. QED BY <3>3, <3>4
  <2>. QED BY <2>2, <2>3, <2>4
<1>11. Dispatch(argv, F) = R[n]
  <2>1. n \in 0..n
    BY <1>1
  <2>. QED BY <1>1, <1>9, <2>1
<1> HIDE DEF R
<1>12. Steps(R, argv, F)
  BY <1>10, <1>11, Zenon DEF Steps, base
<1>. QED BY <1>12

\* Where there is no word of a command, and after the end, nothing happens.
LEMMA NothingHappens ==
  ASSUME NEW argv, NEW F, NEW R, Steps(R, argv, F), NEW a \in Nat, NEW b \in Nat,
         a <= b, b <= Len(argv), Len(argv) \in Nat, NEW r, NEW e, R[a] = StateOf(r, e),
         e = "no" => \A i \in (a + 1)..b : argv[i] \notin Commands
  PROVE  R[b] = StateOf(r, e)
<1> DEFINE n == b - a
           T == {d \in 0..n : R[a + d] = StateOf(r, e)}
<1>1. n \in Nat /\ a + 0 = a /\ a + n = b
  OBVIOUS
<1>2. 0 \in T
  <2>1. 0 \in 0..n
    BY <1>1
  <2>. QED BY <1>1, <2>1
<1>3. ASSUME NEW d \in 0..(n - 1), d \in T PROVE d + 1 \in T
  <2> DEFINE i == a + (d + 1)
  <2>1. i \in (a + 1)..b /\ i \in 1..Len(argv) /\ i - 1 = a + d /\ d + 1 \in 0..n
    OBVIOUS
  <2> HIDE DEF i
  <2>2. R[i] = Argument(StateOf(r, e), i, argv, F)
    <3>1. R[i] = Argument(R[i - 1], i, argv, F)
      BY <2>1, Zenon DEF Steps
    <3>2. R[i - 1] = StateOf(r, e)
      BY <1>3, <2>1
    <3>. QED BY <3>1, <3>2
  <2>3. e # "no" \/ argv[i] \notin Commands
    BY <2>1
  <2>4. R[i] = StateOf(r, e)
    <3>1. Becomes(R[i], r, e, argv, i, F)
      BY <2>2, ArgumentIs, Zenon
    <3>. QED BY <2>3, <3>1, Zenon DEF Becomes
  <2>. QED BY <2>1, <2>4 DEF i
<1> HIDE DEF T
<1>4. 0..n \subseteq T
  BY <1>1, <1>2, <1>3, NumbersUpTo
<1>5. n \in T
  BY <1>1, <1>4
<1>. QED BY <1>1, <1>5 DEF T

-----------------------------------------------------------------------------
\* main over the commands of a line.

\* Behind the word of a command there is none before the next command.
LEMMA OnlyTheFirstIsAWord ==
  ASSUME NEW parts \in Seq(Part), NEW k \in 1..Len(parts),
         NEW j \in (Off(parts, k - 1) + 2)..Off(parts, k)
  PROVE  Arguments(parts)[j] \notin Commands
<1> DEFINE argv == Arguments(parts)
           A == Off(parts, k - 1)
           seg == Segment(parts[k])
           d == j - A
<1>1. k - 1 \in 0..Len(parts) /\ k \in 0..Len(parts) /\ parts[k] \in Part
  OBVIOUS
<1>2. /\ Len(argv) \in Nat /\ \A i \in 0..Len(parts) : Off(parts, i) \in 0..Len(argv)
      /\ Off(parts, k) = A + Len(seg)
      /\ \A i \in 1..Len(seg) : argv[A + i] = seg[i]
  BY LineIs, Zenon
<1>3. seg \in Seq(Typing) /\ \A i \in 2..Len(seg) : seg[i] \notin Commands
  BY <1>1, SegmentIs
<1>4. Len(seg) \in Nat
  BY <1>3
<1> HIDE DEF argv, seg, A
<1>5. A \in Nat /\ Off(parts, k) \in Nat
  BY <1>1, <1>2 DEF A
<1>6. d \in 2..Len(seg) /\ d \in 1..Len(seg) /\ j = A + d
  BY <1>2, <1>4, <1>5 DEF A
<1> HIDE DEF d
<1>7. argv[j] \notin Commands
  BY <1>2, <1>3, <1>6
<1>. QED BY <1>7 DEF argv

\* A command as it is typed has at least its word.
LEMMA SegmentIsSome ==
  ASSUME NEW p \in Part
  PROVE  Len(Segment(p)) \in Nat /\ Len(Segment(p)) >= 1
<1> DEFINE c == Len(Segment(p))
           a == Len(p.operands)
           b == Len(FlattenSeq(p.options))
<1>1. c = 1 + a + b /\ a \in Nat /\ b \in Nat
  BY SegmentIs
<1> HIDE DEF a, b, c
<1>2. c \in Nat /\ c >= 1
  BY <1>1
<1>. QED BY <1>2 DEF c

\* What has come of a command once main is past it.
LEMMA CommandRuns ==
  ASSUME NEW parts \in Seq(Part), Apart(parts), NEW k \in 1..Len(parts),
         NEW N \in Off(parts, k)..Len(Arguments(parts)), NEW F, NEW R,
         Steps(R, SubSeq(Arguments(parts), 1, N), F),
         NEW r, NEW e, R[Off(parts, k - 1)] = StateOf(r, e)
  PROVE  /\ e # "no" => R[Off(parts, k)] = StateOf(r, e)
         /\ e = "no" => R[Off(parts, k)] = StateOf(Append(r, AskedOf(parts[k])),
                                                  EndOf(parts[k].word, At(parts, k), F))
<1> DEFINE argv == Arguments(parts)
           x == SubSeq(argv, 1, N)
           A == Off(parts, k - 1)
           B == Off(parts, k)
           i == A + 1
           p == parts[k]
           result == EndOf(p.word, i, F)
           q == Append(r, AskedOf(p))
<1>1. k - 1 \in 0..Len(parts) /\ k \in 0..Len(parts) /\ p \in Part
  OBVIOUS
<1>2. /\ argv \in Seq(Typing) /\ Len(argv) \in Nat
      /\ A \in 0..Len(argv) /\ B \in 0..Len(argv)
      /\ B = A + Len(Segment(p)) /\ At(parts, k) = i
  <2>1. /\ argv \in Seq(Typing) /\ Len(argv) \in Nat
        /\ \A j \in 0..Len(parts) : Off(parts, j) \in 0..Len(argv)
        /\ B = A + Len(Segment(p)) /\ At(parts, k) = i
    BY LineIs, Zenon
  <2>. QED BY <1>1, <2>1
<1>3. Len(Segment(p)) \in Nat /\ Len(Segment(p)) >= 1
  BY <1>1, SegmentIsSome, Zenon
<1>4. Finds(x, i, p)
  BY CommandFinds, Zenon
<1>5. \A j \in (A + 2)..B : argv[j] \notin Commands
  BY OnlyTheFirstIsAWord, Zenon
<1>6. N \in B..Len(argv) /\ N \in Nat
  BY <1>2
<1> HIDE DEF argv, A, B, p
<1>7. Len(x) = N /\ \A j \in 1..N : x[j] = argv[j]
  BY <1>2, <1>6
<1>8. Steps(R, x, F) /\ R[A] = StateOf(r, e)
  BY Zenon DEF argv, A
<1> HIDE DEF x
<1>9. /\ A \in Nat /\ B \in Nat /\ i \in Nat /\ A <= B /\ i <= B /\ B <= Len(x) /\ Len(x) \in Nat
      /\ i \in 1..Len(x) /\ i - 1 = A
  BY <1>2, <1>3, <1>6, <1>7
<1>10. ASSUME e # "no" PROVE R[B] = StateOf(r, e)
  <2>1. e = "no" => \A j \in (A + 1)..B : x[j] \notin Commands
    BY <1>10
  <2>2. /\ Steps(R, x, F) /\ A \in Nat /\ B \in Nat /\ A <= B /\ B <= Len(x) /\ Len(x) \in Nat
        /\ R[A] = StateOf(r, e)
    BY <1>8, <1>9
  <2>. QED BY <2>1, <2>2, NothingHappens
<1>11. ASSUME e = "no" PROVE R[B] = StateOf(q, result)
  <2>1. R[i] = Argument(StateOf(r, e), i, x, F)
    <3> HIDE DEF i
    <3>1. R[i] = Argument(R[i - 1], i, x, F)
      BY <1>8, <1>9, Zenon DEF Steps
    <3>. QED BY <1>8, <1>9, <3>1, Zenon
  <2>2. Becomes(R[i], r, e, x, i, F)
    BY <2>1, ArgumentIs, Zenon
  <2> HIDE DEF i
  <2>3. R[i] = StateOf(Append(r, Came(x, i)), EndOf(x[i], i, F))
    BY <1>4, <1>11, <2>2, Zenon DEF Becomes, Finds
  <2>4. R[i] = StateOf(q, result)
    BY <1>4, <2>3, Zenon DEF Finds
  <2> HIDE DEF q, result
  <2>5. \A j \in (i + 1)..B : x[j] \notin Commands
    <3>1. \A j \in (i + 1)..B : j \in (A + 2)..B /\ j \in 1..N
      BY <1>6, <1>9 DEF i
    <3>. QED BY <1>5, <1>7, <3>1
  <2>6. result = "no" => \A j \in (i + 1)..B : x[j] \notin Commands
    BY <2>5
  <2>7. /\ Steps(R, x, F) /\ i \in Nat /\ B \in Nat /\ i <= B /\ B <= Len(x) /\ Len(x) \in Nat
        /\ R[i] = StateOf(q, result)
    BY <1>8, <1>9, <2>4 DEF i
  <2>. QED BY <2>6, <2>7, NothingHappens
<1>. QED BY <1>2, <1>10, <1>11, Zenon DEF A, B, p

\* Where main ends.
StopsAt(parts, failing) ==
    IF Ends(parts, failing) = {} THEN Len(parts) ELSE Min(Ends(parts, failing))

\* main ends at the first command that ends it, and otherwise with the line.
LEMMA StopsAtIs ==
  ASSUME NEW parts \in Seq(Part), NEW failing
  PROVE  LET ends == Ends(parts, failing)
             n == StopsAt(parts, failing)
         IN  /\ n \in 0..Len(parts) /\ ends \subseteq 1..Len(parts)
             /\ \A j \in ends : n <= j
             /\ ends # {} => n \in ends
             /\ ends = {} => n = Len(parts)
<1> DEFINE ends == Ends(parts, failing)
           n == StopsAt(parts, failing)
<1>1. Len(parts) \in Nat /\ ends \subseteq 1..Len(parts)
  <2>1. Len(parts) \in Nat /\ DOMAIN parts = 1..Len(parts)
    OBVIOUS
  <2>. QED BY <2>1 DEF Ends
<1> HIDE DEF ends
<1>2. CASE ends = {}
  BY <1>1, <1>2 DEF StopsAt, ends
<1>3. CASE ends # {}
  <2>1. PICK m \in ends : \A i \in ends : m <= i
    <3>1. ends \in SUBSET Nat
      BY <1>1
    <3>. QED BY <1>3, <3>1, LeastNumber
  <2>2. Min(ends) \in ends /\ \A i \in ends : Min(ends) <= i
    BY <2>1, Zenon DEF Min
  <2>3. n = Min(ends)
    BY <1>3, Zenon DEF StopsAt, ends
  <2> HIDE DEF n
  <2>4. n \in ends /\ \A j \in ends : n <= j
    BY <2>2, <2>3, Zenon
  <2>5. n \in 1..Len(parts)
    BY <1>1, <2>4, Zenon
  <2>6. n \in 0..Len(parts)
    BY <1>1, <2>5
  <2>. QED BY <1>1, <1>3, <2>4, <2>6, Zenon DEF ends, n
<1>. QED BY <1>2, <1>3

AskedUpTo(parts, K) == Asked(SubSeq(parts, 1, K))

\* What was asked for, command by command.
LEMMA AskedGrows ==
  ASSUME NEW parts \in Seq(Part)
  PROVE  /\ AskedUpTo(parts, 0) = <<>> /\ AskedUpTo(parts, Len(parts)) = Asked(parts)
         /\ \A K \in 0..(Len(parts) - 1) :
              AskedUpTo(parts, K + 1) = Append(AskedUpTo(parts, K), AskedOf(parts[K + 1]))
<1>1. \A q : Asked(q) = [k \in DOMAIN q |-> AskedOf(q[k])]
  BY Zenon DEF Asked, AskedOf
<1>2. Len(parts) \in Nat
  OBVIOUS
<1>3. AskedUpTo(parts, 0) = <<>>
  <2>1. SubSeq(parts, 1, 0) = <<>>
    OBVIOUS
  <2>2. [k \in DOMAIN SubSeq(parts, 1, 0) |-> AskedOf(SubSeq(parts, 1, 0)[k])] = <<>>
    BY <2>1
  <2>. QED BY <1>1, <2>2, Zenon DEF AskedUpTo
<1>4. SubSeq(parts, 1, Len(parts)) = parts
  OBVIOUS
<1>5. ASSUME NEW K \in 0..(Len(parts) - 1)
      PROVE  AskedUpTo(parts, K + 1) = Append(AskedUpTo(parts, K), AskedOf(parts[K + 1]))
  <2> DEFINE L == K + 1
             a == SubSeq(parts, 1, K)
             b == SubSeq(parts, 1, L)
             u == [k \in DOMAIN a |-> AskedOf(a[k])]
             v == [k \in DOMAIN b |-> AskedOf(b[k])]
  <2>1. K \in Nat /\ L \in 1..Len(parts) /\ K <= Len(parts) /\ L = K + 1
    BY <1>2
  <2> HIDE DEF L
  <2>2. /\ a \in Seq(Part) /\ DOMAIN a = 1..K /\ Len(a) = K /\ \A k \in 1..K : a[k] = parts[k]
        /\ b \in Seq(Part) /\ DOMAIN b = 1..L /\ Len(b) = L /\ \A k \in 1..L : b[k] = parts[k]
    BY <1>2, <2>1
  <2> HIDE DEF a, b
  <2>3. u = [k \in 1..K |-> AskedOf(parts[k])] /\ v = [k \in 1..L |-> AskedOf(parts[k])]
    BY <2>2
  <2> HIDE DEF u, v
  <2>4. v = Append(u, AskedOf(parts[L]))
    <3> DEFINE Y == {AskedOf(parts[k]) : k \in 1..L}
    <3>0. L \in 1..L /\ \A k \in 1..K : k \in 1..L
      BY <2>1
    <3>6. AskedOf(parts[L]) \in Y /\ \A k \in 1..K : AskedOf(parts[k]) \in Y
      BY <3>0
    <3>7. u \in [1..K -> Y]
      <4> HIDE DEF Y
      <4>. QED BY <2>3, <3>6
    <3>1. u \in Seq(Y) /\ Len(u) = K /\ AskedOf(parts[L]) \in Y
      <4> HIDE DEF Y
      <4>. QED BY <2>1, <3>6, <3>7
    <3>2. v \in Seq(Y) /\ Len(v) = L
      BY <2>1, <2>3
    <3> HIDE DEF Y
    <3>3. /\ Append(u, AskedOf(parts[L])) \in Seq(Y) /\ Len(Append(u, AskedOf(parts[L]))) = L
          /\ \A k \in 1..K : Append(u, AskedOf(parts[L]))[k] = u[k]
          /\ Append(u, AskedOf(parts[L]))[L] = AskedOf(parts[L])
      BY <2>1, <3>1
    <3>4. \A k \in 1..L : v[k] = Append(u, AskedOf(parts[L]))[k]
      <4>1. \A k \in 1..L : k \in 1..K \/ k = L
        BY <2>1
      <4>2. L \in 1..L /\ \A k \in 1..K : k \in 1..L
        BY <2>1
      <4>. QED BY <2>3, <3>3, <4>1, <4>2
    <3>5. \A s, t \in Seq(Y) : Len(s) = Len(t) /\ (\A k \in 1..Len(s) : s[k] = t[k]) => s = t
      OBVIOUS
    <3>. QED BY <3>2, <3>3, <3>4, <3>5
  <2>5. AskedUpTo(parts, K) = u /\ AskedUpTo(parts, L) = v
    BY <1>1, Zenon DEF AskedUpTo, a, b, u, v
  <2>. QED BY <2>4, <2>5 DEF L
<1>. QED BY <1>3, <1>4, <1>5, Zenon DEF AskedUpTo

\* main is past m commands, of which it has run those up to where it ends.
Past(parts, failing, m, R) ==
    LET n == StopsAt(parts, failing)
    IN  \E e : /\ R[Off(parts, m)] = StateOf(AskedUpTo(parts, IF m <= n THEN m ELSE n), e)
               /\ e = "no" <=> \A j \in Ends(parts, failing) : j > m

\* What main has done after each command of a line that is all there up to place N.
LEMMA CommandsRun ==
  ASSUME NEW parts \in Seq(Part), Apart(parts), NEW failing, NEW F,
         \A k \in 1..Len(parts) : At(parts, k) \in F <=> k \in failing,
         NEW m \in 0..Len(parts), NEW N \in Off(parts, m)..Len(Arguments(parts)), NEW R,
         Steps(R, SubSeq(Arguments(parts), 1, N), F)
  PROVE  Past(parts, failing, m, R)
<1> DEFINE n == StopsAt(parts, failing)
           ends == Ends(parts, failing)
           Upto(K) == AskedUpTo(parts, IF K <= n THEN K ELSE n)
           Fine(K, e) == /\ R[Off(parts, K)] = StateOf(Upto(K), e)
                         /\ e = "no" <=> \A j \in ends : j > K
           T == {K \in 0..m : \E e : Fine(K, e)}
<1>1. /\ n \in 0..Len(parts) /\ ends \subseteq 1..Len(parts)
      /\ \A j \in ends : n <= j
      /\ ends # {} => n \in ends
      /\ ends = {} => n = Len(parts)
  BY StopsAtIs, Zenon
<1>2. Len(parts) \in Nat /\ m \in Nat /\ m <= Len(parts) /\ DOMAIN parts = 1..Len(parts)
  OBVIOUS
<1>3. \A k \in 1..Len(parts) :
        k \in ends <=> (\/ parts[k].word \in Final
                        \/ parts[k].word \in Strict /\ k \in failing)
  BY <1>2, Zenon DEF Ends
<1> HIDE DEF n, ends
<1>8. n \in Nat /\ \A j \in ends : j \in Nat /\ j > 0 /\ n <= j
  <2> DEFINE L == Len(parts)
  <2>1. L \in Nat /\ n \in 0..L /\ ends \subseteq 1..L
    BY <1>1, <1>2
  <2> HIDE DEF L
  <2>2. n \in Nat /\ \A j \in ends : j \in Nat /\ j > 0
    BY <2>1
  <2>. QED BY <1>1, <2>2, Zenon
<1>4. 0 \in T
  <2>1. Off(parts, 0) = 0
    BY LineIs, Zenon
  <2>2. R[0] = StateOf(<<>>, "no")
    BY Zenon DEF Steps
  <2>3. Upto(0) = <<>>
    <3>1. 0 <= n
      BY <1>8
    <3>. QED BY <3>1, AskedGrows, Zenon
  <2>4. \A j \in ends : j > 0
    BY <1>8, Zenon
  <2> HIDE DEF Upto
  <2>5. Fine(0, "no")
    BY <2>1, <2>2, <2>3, <2>4
  <2>6. 0 \in 0..m
    BY <1>2
  <2> HIDE DEF Fine
  <2>. QED BY <2>5, <2>6
<1>5. ASSUME NEW K \in 0..(m - 1), K \in T PROVE K + 1 \in T
  <2> DEFINE k == K + 1
             p == parts[k]
  <2>1. k \in 1..Len(parts) /\ K \in 0..(Len(parts) - 1) /\ k \in 0..m /\ k - 1 = K /\ K \in Nat
        /\ k \in 0..Len(parts) /\ m \in 0..Len(parts) /\ k <= m
    BY <1>2
  <2>2. PICK e : Fine(K, e)
    BY <1>5
  <2>3. AskedUpTo(parts, k) = Append(AskedUpTo(parts, K), AskedOf(p))
    BY <2>1, AskedGrows, Zenon
  <2> HIDE DEF k, T
  <2>4. N \in Off(parts, k)..Len(Arguments(parts))
    <3>1. Off(parts, k) <= Off(parts, m)
      BY <2>1, OffGrows
    <3>2. Len(Arguments(parts)) \in Nat /\ Off(parts, k) \in Nat /\ Off(parts, m) \in Nat
      <4>1. /\ Len(Arguments(parts)) \in Nat
            /\ \A j \in 0..Len(parts) : Off(parts, j) \in 0..Len(Arguments(parts))
        BY LineIs, Zenon
      <4>. QED BY <2>1, <4>1
    <3>. QED BY <3>1, <3>2
  <2>5. /\ e # "no" => R[Off(parts, k)] = StateOf(Upto(K), e)
        /\ e = "no" => R[Off(parts, k)] = StateOf(Append(Upto(K), AskedOf(p)),
                                                  EndOf(p.word, At(parts, k), F))
    <3> DEFINE r == Upto(K)
    <3>1. R[Off(parts, k - 1)] = StateOf(r, e)
      BY <2>1, <2>2
    <3> HIDE DEF r
    <3>2. /\ e # "no" => R[Off(parts, k)] = StateOf(r, e)
          /\ e = "no" => R[Off(parts, k)] = StateOf(Append(r, AskedOf(parts[k])),
                                                    EndOf(parts[k].word, At(parts, k), F))
      <4>1. Steps(R, SubSeq(Arguments(parts), 1, N), F) /\ k \in 1..Len(parts)
        BY <2>1
      <4>. QED BY <2>4, <3>1, <4>1, CommandRuns
    <3>. QED BY <3>2, Zenon DEF r
  <2>6. CASE e = "no"
    <3> DEFINE result == EndOf(p.word, At(parts, k), F)
    <3>1. \A j \in ends : j > K
      BY <2>2, <2>6
    <3>2. k <= n /\ K <= n
      <4>1. n \in Nat
        BY <1>8, Zenon
      <4>2. CASE ends = {}
        BY <1>1, <1>2, <2>1, <4>1, <4>2
      <4>3. CASE ends # {}
        <5>1. n > K
          BY <1>1, <3>1, <4>3
        <5>. QED BY <2>1, <4>1, <5>1 DEF k
      <4>. QED BY <4>2, <4>3
    <3>3. Upto(K) = AskedUpTo(parts, K) /\ Upto(k) = AskedUpTo(parts, k)
      BY <3>2, Zenon
    <3>4. R[Off(parts, k)] = StateOf(Upto(k), result)
      BY <2>3, <2>5, <2>6, <3>3, Zenon
    <3>5. result = "no" <=> k \notin ends
      <4>1. At(parts, k) \in F <=> k \in failing
        BY <2>1, Zenon
      <4>2. k \in ends <=> (p.word \in Final \/ (p.word \in Strict /\ k \in failing))
        BY <1>3, <2>1, Zenon
      <4>3. result = IF p.word \in Final THEN "returned"
                  ELSE IF p.word \in Strict /\ At(parts, k) \in F THEN "failed" ELSE "no"
        BY Zenon DEF EndOf
      <4> HIDE DEF result, p
      <4>. QED BY <4>1, <4>2, <4>3
    <3>6. k \notin ends <=> \A j \in ends : j > k
      <4>1. \A j \in ends : j \in Nat
        BY <1>1
      <4>2. \A j \in ends : j > K <=> j = k \/ j > k
        BY <2>1, <4>1 DEF k
      <4>3. ~(k > k)
        BY <2>1
      <4>. QED BY <3>1, <4>2, <4>3
    <3> HIDE DEF Upto, result
    <3>7. Fine(k, result)
      BY <3>4, <3>5, <3>6, Zenon
    <3> HIDE DEF Fine
    <3>. QED BY <2>1, <3>7, Zenon DEF T, k
  <2>7. CASE e # "no"
    <3>1. PICK j \in ends : ~(j > K)
      BY <2>2, <2>7
    <3>2. n \in Nat /\ n <= K /\ j \in Nat
      <4>1. j \in Nat /\ n \in Nat /\ n <= j
        BY <1>8, Zenon
      <4>. QED BY <2>1, <3>1, <4>1
    <3>3. ~(k <= n) /\ (IF K <= n THEN K ELSE n) = n
      BY <2>1, <3>2
    <3>4. Upto(k) = AskedUpTo(parts, n) /\ Upto(K) = AskedUpTo(parts, n)
      BY <3>3, Zenon
    <3>5. R[Off(parts, k)] = StateOf(Upto(k), e)
      BY <2>5, <2>7, <3>4, Zenon
    <3>6. ~(j > k)
      BY <2>1, <3>1, <3>2
    <3> HIDE DEF Upto
    <3>7. Fine(k, e)
      BY <2>7, <3>5, <3>6, Zenon
    <3> HIDE DEF Fine
    <3>. QED BY <2>1, <3>7, Zenon DEF T, k
  <2>. QED BY <2>6, <2>7
<1>6. m \in T
  <2> HIDE DEF T
  <2>1. 0..m \subseteq T
    BY <1>2, <1>4, <1>5, NumbersUpTo
  <2>. QED BY <1>2, <2>1
<1>7. \E e : Fine(m, e)
  BY <1>6
<1>. QED BY <1>7, Zenon DEF n, ends, Past

\* No two commands are at one place.
LEMMA OnePlaceEach ==
  ASSUME NEW parts \in Seq(Part), NEW k \in 1..Len(parts), NEW l \in 1..Len(parts),
         At(parts, k) = At(parts, l)
  PROVE  k = l
<1>1. ASSUME NEW a \in 1..Len(parts), NEW b \in 1..Len(parts), a < b
      PROVE  At(parts, a) < At(parts, b)
  <2>1. /\ a - 1 \in 0..Len(parts) /\ a \in 0..Len(parts) /\ b - 1 \in 0..Len(parts) /\ a <= b - 1
        /\ parts[a] \in Part
    <3>1. Len(parts) \in Nat /\ DOMAIN parts = 1..Len(parts) /\ parts[a] \in Part
      OBVIOUS
    <3> DEFINE L == Len(parts)
    <3>2. a \in 1..L /\ b \in 1..L /\ L \in Nat
      BY <3>1
    <3> HIDE DEF L
    <3>3. a - 1 \in 0..L /\ a \in 0..L /\ b - 1 \in 0..L /\ a <= b - 1
      BY <1>1, <3>2
    <3>. QED BY <3>1, <3>3 DEF L
  <2>2. Off(parts, a) <= Off(parts, b - 1)
    BY <2>1, OffGrows
  <2>3. /\ Off(parts, a) = Off(parts, a - 1) + Len(Segment(parts[a]))
        /\ At(parts, a) = Off(parts, a - 1) + 1 /\ At(parts, b) = Off(parts, b - 1) + 1
    BY LineIs, Zenon
  <2>4. \A i \in 0..Len(parts) : Off(parts, i) \in Nat
    <3>1. /\ Len(Arguments(parts)) \in Nat
          /\ \A i \in 0..Len(parts) : Off(parts, i) \in 0..Len(Arguments(parts))
      BY LineIs, Zenon
    <3>. QED BY <3>1
  <2>5. Len(Segment(parts[a])) \in Nat /\ Len(Segment(parts[a])) >= 1
    BY <2>1, SegmentIsSome, Zenon
  <2>6. Off(parts, a - 1) \in Nat /\ Off(parts, a) \in Nat /\ Off(parts, b - 1) \in Nat
    BY <2>1, <2>4, Zenon
  <2> DEFINE u == Off(parts, a - 1)
             v == Off(parts, a)
             w == Off(parts, b - 1)
             c == Len(Segment(parts[a]))
  <2>7. u \in Nat /\ v \in Nat /\ w \in Nat /\ c \in Nat /\ c >= 1 /\ v <= w /\ v = u + c
    BY <2>2, <2>3, <2>5, <2>6, Zenon
  <2> HIDE DEF u, v, w, c
  <2>8. u + 1 < w + 1
    BY <2>7
  <2>. QED BY <2>3, <2>8 DEF u, w
<1>2. At(parts, k) \in Nat /\ At(parts, l) \in Nat
  <2>1. \A j \in 1..Len(parts) : At(parts, j) = Off(parts, j - 1) + 1
    BY LineIs, Zenon
  <2>2. \A i \in 0..Len(parts) : Off(parts, i) \in Nat
    <3>1. /\ Len(Arguments(parts)) \in Nat
          /\ \A i \in 0..Len(parts) : Off(parts, i) \in 0..Len(Arguments(parts))
      BY LineIs, Zenon
    <3>. QED BY <3>1
  <2>3. \A j \in 1..Len(parts) : j - 1 \in 0..Len(parts)
    OBVIOUS
  <2>. QED BY <2>1, <2>2, <2>3
<1>. QED BY <1>1, <1>2

Places(parts, failing) == {At(parts, k) : k \in failing \intersect DOMAIN parts}

\* The places of the commands that fail are those of no others.
LEMMA PlacesAre ==
  ASSUME NEW parts \in Seq(Part), NEW failing
  PROVE  \A k \in 1..Len(parts) : At(parts, k) \in Places(parts, failing) <=> k \in failing
<1>. SUFFICES ASSUME NEW k \in 1..Len(parts)
     PROVE  At(parts, k) \in Places(parts, failing) <=> k \in failing
  OBVIOUS
<1>1. DOMAIN parts = 1..Len(parts)
  OBVIOUS
<1>2. ASSUME At(parts, k) \in Places(parts, failing) PROVE k \in failing
  <2>1. PICK l \in failing \intersect DOMAIN parts : At(parts, k) = At(parts, l)
    BY <1>2, Zenon DEF Places
  <2>2. l \in 1..Len(parts) /\ l \in failing
    BY <1>1, <2>1
  <2>3. k = l
    BY <2>1, <2>2, OnePlaceEach
  <2>. QED BY <2>2, <2>3
<1>3. ASSUME k \in failing PROVE At(parts, k) \in Places(parts, failing)
  <2>1. k \in failing \intersect DOMAIN parts
    BY <1>1, <1>3
  <2>. QED BY <2>1, Zenon DEF Places
<1>. QED BY <1>2, <1>3

\* A whole line runs its commands up to the one where main ends.
LEMMA WholeLine ==
  ASSUME NEW parts \in Seq(Part), Apart(parts), NEW failing
  PROVE  Dispatch(Arguments(parts), Places(parts, failing)).ran
           = Asked(SubSeq(parts, 1, StopsAt(parts, failing)))
<1> DEFINE argv == Arguments(parts)
           N == Len(argv)
           F == Places(parts, failing)
           m == Len(parts)
           n == StopsAt(parts, failing)
           r == AskedUpTo(parts, IF m <= n THEN m ELSE n)
<1>1. argv \in Seq(Typing) /\ N \in Nat /\ Off(parts, m) = N
  BY LineIs, Zenon
<1>2. m \in Nat /\ m \in 0..Len(parts) /\ n \in 0..m
  <2>1. m \in Nat
    OBVIOUS
  <2>2. n \in 0..Len(parts)
    BY StopsAtIs, Zenon
  <2>. QED BY <2>1, <2>2
<1>3. SubSeq(argv, 1, N) = argv
  <2> HIDE DEF argv
  <2>. QED BY <1>1
<1>4. PICK R : Steps(R, argv, F)
  BY <1>1, DispatchSteps, Zenon
<1>5. PICK e : R[Off(parts, m)] = StateOf(r, e)
  <2>1. N \in Off(parts, m)..Len(Arguments(parts))
    BY <1>1
  <2>2. Steps(R, SubSeq(Arguments(parts), 1, N), F)
    BY <1>3, <1>4
  <2>3. \A k \in 1..Len(parts) : At(parts, k) \in F <=> k \in failing
    BY PlacesAre, Zenon
  <2> HIDE DEF N, F
  <2>4. Past(parts, failing, m, R)
    BY <1>2, <2>1, <2>2, <2>3, CommandsRun
  <2>. QED BY <2>4, Zenon DEF Past, n, r
<1>6. (IF m <= n THEN m ELSE n) = n
  <2> HIDE DEF m, n
  <2>. QED BY <1>2
<1>7. r = AskedUpTo(parts, n)
  BY <1>6, Zenon
<1>8. Dispatch(argv, F) = StateOf(r, e)
  BY <1>1, <1>4, <1>5, Zenon DEF Steps
<1> HIDE DEF argv, F, r, n
<1>9. Dispatch(argv, F).ran = r
  BY <1>8 DEF StateOf
<1>. QED BY <1>7, <1>9, Zenon DEF AskedUpTo, argv, F, n

\* A line without its last argument runs all but its last command, which fails.
LEMMA CutLine ==
  ASSUME NEW parts \in Seq(Part), Apart(parts), NEW failing,
         parts # <<>>, Ends(parts, failing) \subseteq {Len(parts)},
         Last(parts).word \in {"add", "remove", "rename", "add-env", "add-job", "-m"}
  PROVE  LET cut == Dispatch(Front(Arguments(parts)), Places(parts, failing))
         IN  cut.ran = Asked(Front(parts)) /\ cut.end \notin {"no", "returned", "failed"}
<1> DEFINE argv == Arguments(parts)
           L == Len(parts)
           m == L - 1
           p == parts[L]
           N == Len(argv) - 1
           F == Places(parts, failing)
           A == Off(parts, m)
           i == A + 1
           x == SubSeq(argv, 1, N)
           w == Required(p.word)
           n == StopsAt(parts, failing)
           ends == Ends(parts, failing)
           r == Asked(Front(parts))
<1>1. /\ L \in Nat /\ L >= 1 /\ L \in 1..Len(parts) /\ m \in 0..L /\ L \in 0..Len(parts) /\ p \in Part
      /\ m + 1 = L
  OBVIOUS
<1>2. p.word \in {"add", "remove", "rename", "add-env", "add-job", "-m"}
  BY DEF Last
<1>3. /\ w \in 1..3 /\ Options(p.word) = {} /\ p.word \notin {"stop", "run", "restart"}
      /\ p.word \in Commands
  BY <1>2 DEF Required, Options, None, One, Two, Three, Shows, Commands
<1>4. Len(p.operands) = w /\ FlattenSeq(p.options) = <<>>
  BY <1>1, <1>3, EnoughOperands, Zenon
<1>5. Len(Segment(p)) = 1 + w /\ Segment(p)[1] = p.word
  <2>1. Len(FlattenSeq(p.options)) = 0
    BY <1>4
  <2>2. /\ Len(Segment(p)) = 1 + Len(p.operands) + Len(FlattenSeq(p.options))
        /\ Segment(p)[1] = p.word
    <3>1. \A s \in Part : /\ Len(Segment(s)) = 1 + Len(s.operands) + Len(FlattenSeq(s.options))
                          /\ Segment(s)[1] = s.word
      <4>. SUFFICES ASSUME NEW s \in Part
           PROVE  /\ Len(Segment(s)) = 1 + Len(s.operands) + Len(FlattenSeq(s.options))
                  /\ Segment(s)[1] = s.word
        OBVIOUS
      <4>. QED BY SegmentIs
    <3>. QED BY <1>1, <3>1, Zenon
  <2>. QED BY <1>3, <1>4, <2>1, <2>2
<1>6. /\ argv \in Seq(Typing) /\ Len(argv) \in Nat /\ A \in 0..Len(argv)
      /\ Len(argv) = A + Len(Segment(p)) /\ argv[i] = Segment(p)[1]
  <2>1. /\ argv \in Seq(Typing) /\ Len(argv) \in Nat
        /\ Off(parts, L) = Len(argv)
        /\ \A k \in 0..L : Off(parts, k) \in 0..Len(argv)
        /\ Off(parts, L) = Off(parts, L - 1) + Len(Segment(p))
        /\ \A d \in 1..Len(Segment(p)) : argv[Off(parts, L - 1) + d] = Segment(p)[d]
    <3>1. \A k \in 1..L :
            /\ Off(parts, k) = Off(parts, k - 1) + Len(Segment(parts[k]))
            /\ \A d \in 1..Len(Segment(parts[k])) :
                 argv[Off(parts, k - 1) + d] = Segment(parts[k])[d]
      BY LineIs, Zenon
    <3>2. /\ argv \in Seq(Typing) /\ Len(argv) \in Nat /\ Off(parts, L) = Len(argv)
          /\ \A k \in 0..L : Off(parts, k) \in 0..Len(argv)
      BY LineIs, Zenon
    <3>. QED BY <1>1, <3>1, <3>2, Zenon
  <2>2. 1 \in 1..Len(Segment(p))
    BY <1>3, <1>5
  <2> HIDE DEF argv, p
  <2>. QED BY <1>1, <2>1, <2>2
<1> HIDE DEF argv, w
<1>7. /\ A \in Nat /\ N \in Nat /\ N = A + w /\ i \in 1..N /\ A <= N /\ i <= N
      /\ N <= Len(argv) /\ i - 1 = A
  BY <1>3, <1>5, <1>6
<1> HIDE DEF N
<1>8. Len(x) = N /\ x[i] = p.word /\ x \in Seq(Typing) /\ Len(x) \in Nat
  <2>1. x \in Seq(Typing) /\ Len(x) = N /\ \A j \in 1..N : x[j] = argv[j]
    <3> HIDE DEF A
    <3>1. argv \in Seq(Typing) /\ N \in 0..Len(argv)
      BY <1>6, <1>7
    <3>2. /\ SubSeq(argv, 1, N) \in Seq(Typing) /\ Len(SubSeq(argv, 1, N)) = N
          /\ \A j \in 1..N : SubSeq(argv, 1, N)[j] = argv[j]
      BY <3>1, FirstEntries
    <3>. QED BY <3>2, Zenon DEF x
  <2>. QED BY <1>5, <1>6, <1>7, <2>1
<1> HIDE DEF A
<1>9. Front(argv) = x /\ AskedUpTo(parts, m) = r
  BY Zenon DEF Front, x, N, AskedUpTo
<1> HIDE DEF x
<1>10. PICK R : Steps(R, x, F)
  BY <1>8, DispatchSteps, Zenon
<1>11. PICK e : /\ R[A] = StateOf(AskedUpTo(parts, IF m <= n THEN m ELSE n), e)
                /\ e = "no" <=> \A j \in ends : j > m
  <2>1. N \in Off(parts, m)..Len(Arguments(parts))
    BY <1>7 DEF A, argv
  <2>2. Steps(R, SubSeq(Arguments(parts), 1, N), F)
    BY <1>10, Zenon DEF x, argv
  <2>3. \A k \in 1..Len(parts) : At(parts, k) \in F <=> k \in failing
    BY PlacesAre, Zenon
  <2>4. m \in 0..Len(parts)
    BY <1>1
  <2> HIDE DEF F, m
  <2>5. Past(parts, failing, m, R)
    BY <2>1, <2>2, <2>3, <2>4, CommandsRun
  <2>. QED BY <2>5, Zenon DEF Past, n, ends, A
<1>12. e = "no" /\ m <= n
  <2>1. \A j \in ends : j = L
    OBVIOUS
  <2>2. n \in ends \/ n = L
    BY StopsAtIs, Zenon
  <2> HIDE DEF n, ends, L
  <2>3. n = L
    BY <2>1, <2>2
  <2>. QED BY <1>1, <1>11, <2>1, <2>3
<1>13. R[A] = StateOf(r, "no")
  BY <1>9, <1>11, <1>12, Zenon
<1> HIDE DEF r, p, F, i
<1> DEFINE rest == SubSeq(x, i + 1, Len(x))
           end == Missing(p.word, Len(rest))
<1>14. Len(rest) < w
  <2>1. i \in Nat /\ i <= N
    BY <1>7 DEF i
  <2>2. Len(rest) = N - i
    BY <1>8, <2>1
  <2> HIDE DEF rest
  <2>. QED BY <1>3, <1>7, <2>2 DEF i
<1>15. R[i] = StateOf(r, end)
  <2>1. R[i] = Argument(StateOf(r, "no"), i, x, F)
    BY <1>7, <1>8, <1>10, <1>13, Zenon DEF Steps
  <2>2. Becomes(R[i], r, "no", x, i, F)
    BY <2>1, ArgumentIs, Zenon
  <2>. QED BY <1>3, <1>8, <1>14, <2>2, Zenon DEF Becomes, w
<1>16. end \notin {"no", "returned", "failed"}
  BY DEF Missing
<1> HIDE DEF end
<1>17. R[N] = StateOf(r, end)
  <2>1. end # "no"
    BY <1>16
  <2>2. i \in Nat /\ N \in Nat /\ i <= N /\ N <= Len(x) /\ Len(x) \in Nat /\ Steps(R, x, F)
    BY <1>7, <1>8, <1>10
  <2>. QED BY <1>15, <2>1, <2>2, NothingHappens
<1>18. Dispatch(x, F) = StateOf(r, end)
  BY <1>8, <1>10, <1>17, Zenon DEF Steps
<1>19. Dispatch(x, F).ran = r /\ Dispatch(x, F).end = end
  BY <1>18 DEF StateOf
<1>20. LET cut == Dispatch(Front(argv), F)
       IN  cut.ran = r /\ cut.end \notin {"no", "returned", "failed"}
  BY <1>9, <1>16, <1>19, Zenon
<1>. QED BY <1>20, Zenon DEF argv, F, r

\* Every line of commands typed one after the other runs them in that order, each
\* with its own operands and options, and one cut short never runs its last
\* command (main.c).
THEOREM CommandsRunInOrder == InputSpec => []SegmentsRunInOrder
<1> DEFINE InFull(i) ==
             Dispatch(Arguments(i.parts), Places(i.parts, i.failing)).ran
               = Asked(SubSeq(i.parts, 1, StopsAt(i.parts, i.failing)))
           CutShort(i) ==
             (/\ i.parts # <<>> /\ Ends(i.parts, i.failing) \subseteq {Len(i.parts)}
              /\ Last(i.parts).word \in {"add", "remove", "rename", "add-env", "add-job", "-m"})
             => LET cut == Dispatch(Front(Arguments(i.parts)), Places(i.parts, i.failing))
                IN  cut.ran = Asked(Front(i.parts)) /\ cut.end \notin {"no", "returned", "failed"}
<1>1. ASSUME NEW i \in Input, i.kind = "line", Apart(i.parts) PROVE InFull(i) /\ CutShort(i)
  <2>1. i.parts \in Seq(Part)
    BY <1>1, InputAssumption
  <2>2. InFull(i)
    BY <1>1, <2>1, WholeLine, Zenon
  <2>3. CutShort(i)
    BY <1>1, <2>1, CutLine, Zenon
  <2>. QED BY <2>2, <2>3
<1>2. given \in Input => SegmentsRunInOrder
  BY <1>1, Zenon DEF SegmentsRunInOrder, Places, StopsAt
<1>3. given \in Input /\ [UNCHANGED given]_given => (given \in Input)'
  OBVIOUS
<1>. QED BY <1>2, <1>3, PTL DEF InputSpec

Char   == Digit \union {"nul"}
Values == {Value(t) : t \in Seq(Digit)}
Orders == {<<>>, <<"cpu">>, <<"mem">>, <<"cpu", "mem">>}
Phases == {"idle", "backup", "cut", "write", "done"}

\* The types the argument needs; a process past its last file has none to do.
Types ==
    /\ file \in [Resource -> Seq(Char)] /\ copy \in Seq(Char)
    /\ pc \in [Config -> Phases]
    /\ new \in [Config -> [Resource -> Seq(Digit)]]
    /\ todo \in [Config -> Orders]
    /\ \A p \in Config : pc[p] \in {"backup", "cut", "write"} => todo[p] # <<>>
    /\ asked \in [Resource -> Seq(Values)]
    /\ \A r \in Resource : asked[r] # <<>>
    /\ disturbed \subseteq Config /\ settled \subseteq Resource

\* A process that was not met is the only one at work, and the file it is about
\* to write has just been cut to the length of what it writes.
Undisturbed(p) == p \in AtWork /\ p \notin disturbed
Alone   == \A p \in Config : Undisturbed(p) => AtWork = {p}
WasCut  == \A p \in Config : Undisturbed(p) /\ pc[p] = "write" =>
             Len(file[Head(todo[p])]) = Len(new[p][Head(todo[p])])
Open    == \A p \in Config : pc[p] = "write" => Head(todo[p]) \notin settled

LimitInv == Types /\ Alone /\ WasCut /\ Open /\ SettledLimitsAreLast

\* What the daemon has read so far, if nobody configures meanwhile.
Promised ==
    /\ Reading /\ "pair" \notin doubtful =>
         /\ AtWork = {} /\ settled = Resource
         /\ \A r \in Resource : promised[r] = Last(asked[r])
    /\ daemon.pc = "cpu" /\ "pair" \notin doubtful => daemon.mem = promised.mem
    /\ DOMAIN daemon = {"pc", "mem", "cpu"}
    /\ DOMAIN promised = Resource

-----------------------------------------------------------------------------
\* ftruncate leaves a text of the length asked for.
LEMMA CutType ==
  ASSUME NEW t \in Seq(Char), NEW n \in Nat
  PROVE  Cut(t, n) \in Seq(Char) /\ Len(Cut(t, n)) = n
<1>1. \A i \in 1..n : (IF i <= Len(t) THEN t[i] ELSE "nul") \in Char
  BY DEF Char
<1>. QED BY <1>1 DEF Cut

\* write onto a text of the same length leaves what was written.
LEMMA OverType ==
  ASSUME NEW t \in Seq(Digit), NEW old \in Seq(Char)
  PROVE  Over(t, old) \in Seq(Char) /\ (Len(old) = Len(t) => Over(t, old) = t)
<1>1. t \in Seq(Char)
  BY DEF Char
<1>2. SubSeq(old, Len(t) + 1, Len(old)) \in Seq(Char)
  OBVIOUS
<1>3. Len(old) = Len(t) => SubSeq(old, Len(t) + 1, Len(old)) = <<>>
  OBVIOUS
<1>. QED BY <1>1, <1>2, <1>3 DEF Over

\* What is left to write of limits after one file.
LEMMA NextFile ==
  ASSUME NEW o \in Orders, o # <<>>
  PROVE  /\ Head(o) \in Resource /\ Tail(o) \in Orders
         /\ Len(o) # 1 => Tail(o) # <<>>
<1>1. CASE o = <<"cpu">>
  BY <1>1 DEF Orders, Resource
<1>2. CASE o = <<"mem">>
  BY <1>2 DEF Orders, Resource
<1>3. CASE o = <<"cpu", "mem">>
  <2>1. Tail(o) = <<"mem">> /\ Tail(o) # <<>>
    BY <1>3
  <2>. QED BY <1>3, <2>1 DEF Orders, Resource
<1>. QED BY <1>1, <1>2, <1>3 DEF Orders

-----------------------------------------------------------------------------
\* The beginning.
LEMMA LimitInit == Init => LimitInv /\ Promised
<1> SUFFICES ASSUME Init PROVE LimitInv /\ Promised
  OBVIOUS
<1>1. <<>> \in Seq(Char) /\ <<>> \in Seq(Digit) /\ Value(<<>>) \in Values
  <2>1. <<>> \in Seq(Char) /\ <<>> \in Seq(Digit)
    OBVIOUS
  <2>. QED BY <2>1, Zenon DEF Values
<1>2. asked \in [Resource -> Seq(Values)] /\ \A r \in Resource : asked[r] # <<>>
  BY <1>1 DEF Init
<1>3. Types
  BY <1>1, <1>2 DEF Init, Types, Phases, Orders
<1>4. Alone /\ WasCut /\ Open
  BY DEF Init, Alone, WasCut, Open, Undisturbed, AtWork
<1>5. SettledLimitsAreLast
  BY <1>1 DEF Init, SettledLimitsAreLast, Last
<1>6. Promised
  BY DEF Init, Promised, Reading, Resource
<1>. QED BY <1>3, <1>4, <1>5, <1>6 DEF LimitInv

-----------------------------------------------------------------------------
\* What the operands come to.

\* Every operand is converted to a number (convertToSeconds, convertToBytesJob).
LEMMA OperandsConvert ==
  /\ \A o \in CpuOperand : ConvertToSeconds(o) \in Nat /\ ConvertToSeconds(o) < Exact
  /\ \A o \in MemOperand : ConvertToBytesJob(o) \in Nat
<1>1. ASSUME NEW o \in CpuOperand PROVE ConvertToSeconds(o) \in Nat /\ ConvertToSeconds(o) < Exact
  <2>1. o.halves \in Nat
    BY JobLimitsAssumption, Widths
  <2>2. Period \div 2 \in Nat
    BY TextsAssumption
  <2>3. \A a, b \in Nat : a * b \in Nat
    OBVIOUS
  <2>. QED BY <2>1, <2>2, <2>3, JobLimitsAssumption DEF ConvertToSeconds
<1>2. ASSUME NEW o \in MemOperand PROVE ConvertToBytesJob(o) \in Nat
  <2> DEFINE l == o.letters
             units == DOMAIN Bytes
             Found(i) == l[i] \in units /\ \A j \in 1..(i - 1) : l[j] \notin units
  <2>1. o.halves \in Nat /\ l \in Seq({"k", "m", "g", "t"})
    BY JobLimitsAssumption, Widths
  <2>2. Whole(o) \in Nat
    BY <2>1 DEF Whole
  <2>3. CASE Letters(o) \intersect units = {}
    BY <2>2, <2>3, Zenon DEF ConvertToBytesJob
  <2>4. CASE Letters(o) \intersect units # {}
    <3> DEFINE there == {i \in DOMAIN l : l[i] \in units}
    <3>1. there \in SUBSET Nat /\ there # {} /\ DOMAIN l = 1..Len(l) /\ Len(l) \in Nat
      <4>1. \E i \in DOMAIN l : l[i] \in units
        BY <2>4 DEF Letters
      <4> HIDE DEF units
      <4>2. DOMAIN l = 1..Len(l) /\ Len(l) \in Nat
        BY <2>1
      <4>. QED BY <4>1, <4>2
    <3>2. PICK i \in there : \A j \in there : i <= j
      <4> HIDE DEF there
      <4>. QED BY <3>1, LeastNumber
    <3>3. Found(i) /\ i \in DOMAIN l
      <4> HIDE DEF units, l
      <4>1. \A j \in 1..(i - 1) : j \in DOMAIN l /\ ~(i <= j)
        BY <3>1, <3>2
      <4>. QED BY <3>2, <4>1
    <3>4. Found(CHOOSE j \in DOMAIN l : Found(j))
      <4> HIDE DEF Found
      <4>. QED BY <3>3
    <3>5. FirstUnit(o, units) = l[CHOOSE j \in DOMAIN l : Found(j)]
      BY Zenon DEF FirstUnit
    <3>6. FirstUnit(o, units) \in units
      BY <3>4, <3>5
    <3> DEFINE b == Bytes[FirstUnit(o, units)]
    <3>7. b \in Nat
      BY <3>6, Units
    <3>8. ConvertToBytesJob(o) = Whole(o) * b
      BY <2>4, Zenon DEF ConvertToBytesJob
    <3> HIDE DEF b
    <3>. QED BY <2>2, <3>7, <3>8
  <2>. QED BY <2>3, <2>4
<1>. QED BY <1>1, <1>2

\* What a configuration asks for.
Limit(cpu, mem) == [cpu |-> IF cpu = NoOperand THEN 0 ELSE ConvertToSeconds(cpu),
                    mem |-> IF mem = NoOperand THEN 0 ELSE ConvertToBytesJob(mem)]
Amounts(r) == {0} \union IF r = "cpu" THEN {ConvertToSeconds(o) : o \in CpuOperand}
                          ELSE {Saturated(ConvertToBytesJob(o)) : o \in MemOperand}

\* A limit that is printed is read again for what it was, up to the largest long.
LEMMA LimitDigits ==
  ASSUME NEW cpu \in CpuOperand \union {NoOperand}, NEW mem \in MemOperand \union {NoOperand},
         NEW r \in Resource
  PROVE  LET n == Limit(cpu, mem)[r]
         IN  Value(Digits(n)) \in Amounts(r) /\ Digits(n) \in Seq(Digit) \ {<<>>}
<1> DEFINE n == Limit(cpu, mem)[r]
<1>1. n \in Nat /\ Saturated(n) \in Amounts(r)
  <2>1. Saturated(0) = 0
    BY Widths DEF Saturated
  <2>2. CASE r = "cpu"
    <3>1. \A o \in CpuOperand : Saturated(ConvertToSeconds(o)) = ConvertToSeconds(o)
      BY OperandsConvert, Widths DEF Saturated
    <3>. QED BY <2>1, <2>2, <3>1, OperandsConvert DEF Limit, Amounts
  <2>3. CASE r = "mem"
    BY <2>1, <2>3, OperandsConvert DEF Limit, Amounts
  <2>. QED BY <2>2, <2>3 DEF Resource
<1> HIDE DEF n
<1>2. Digits(n) \in Seq(Digit) \ {<<>>} /\ Value(Digits(n)) = Saturated(n)
  BY <1>1, DigitsAreRead
<1>. QED BY <1>1, <1>2 DEF n

-----------------------------------------------------------------------------
\* Each step of a process keeps the invariant.

\* Each action keeps the invariant of the files.
LEMMA LimitAsk ==
  ASSUME LimitInv, NEW p \in Config, NEW cpu \in CpuOperand \union {NoOperand},
         NEW mem \in MemOperand \union {NoOperand}, Ask(p, cpu, mem)
  PROVE  LimitInv'
<1> DEFINE limit == Limit(cpu, mem)
<1>1. \A r \in Resource : Digits(limit[r]) \in Seq(Digit)
  BY LimitDigits
<1>2. /\ pc[p] = "idle" /\ pc' = [pc EXCEPT ![p] = "backup"]
      /\ new' = [new EXCEPT ![p] = [r \in Resource |-> Digits(limit[r])]]
      /\ todo' \in {[todo EXCEPT ![p] = o] : o \in Orders \ {<<>>}}
      /\ UNCHANGED <<file, copy, asked, settled>>
  BY DEF Ask, Orders, Limit
<1> HIDE DEF limit
<1>3. IF AtWork = {} THEN disturbed' = disturbed \ {p}
      ELSE disturbed' = disturbed \union AtWork \union {p}
  BY DEF Ask
<1>4. AtWork' = AtWork \union {p}
  BY <1>2 DEF AtWork, LimitInv, Types, Phases
<1>5. Types'
  BY <1>1, <1>2, <1>3 DEF LimitInv, Types, Phases, Orders, AtWork
<1>6. Alone'
  BY <1>3, <1>4 DEF LimitInv, Alone, Undisturbed
<1>7. \A q \in Config : pc'[q] = "write" =>
        q # p /\ pc[q] = "write" /\ todo'[q] = todo[q] /\ new'[q] = new[q] /\ q \in AtWork
  BY <1>2 DEF LimitInv, Types, AtWork
<1>8. WasCut' /\ Open' /\ SettledLimitsAreLast'
  BY <1>2, <1>3, <1>4, <1>7
     DEF LimitInv, WasCut, Open, SettledLimitsAreLast, Undisturbed
<1>. QED BY <1>5, <1>6, <1>8 DEF LimitInv

\* Steps of a process that only take it further, or off.
LEMMA LimitMove ==
  ASSUME LimitInv, NEW p \in Config, pc[p] # "idle",
         NEW l \in Phases \ {"write"}, pc' = [pc EXCEPT ![p] = l],
         l \in {"backup", "cut"} => todo[p] # <<>>,
         copy' \in Seq(Char),
         UNCHANGED <<file, new, todo, asked, disturbed, settled>>
  PROVE  LimitInv'
<1>1. AtWork' \subseteq AtWork /\ (AtWork' = AtWork \/ AtWork' = AtWork \ {p})
  BY DEF LimitInv, Types, AtWork
<1>2. Types'
  BY DEF LimitInv, Types
<1>3. Alone'
  BY <1>1 DEF LimitInv, Alone, Undisturbed
<1>4. \A q \in Config : pc'[q] = "write" => pc[q] = "write" /\ q \in AtWork
  BY DEF LimitInv, Types, AtWork
<1>5. WasCut' /\ Open' /\ SettledLimitsAreLast'
  BY <1>4 DEF LimitInv, WasCut, Open, SettledLimitsAreLast, Undisturbed
<1>. QED BY <1>2, <1>3, <1>5 DEF LimitInv

LEMMA LimitTruncate ==
  ASSUME LimitInv, NEW p \in Config, Truncate(p)
  PROVE  LimitInv'
<1> DEFINE r == Head(todo[p])
<1>1. /\ pc[p] = "cut" /\ pc' = [pc EXCEPT ![p] = "write"]
      /\ file' = [file EXCEPT ![r] = Cut(@, Len(new[p][r]))]
      /\ settled' = settled \ {r}
      /\ UNCHANGED <<copy, new, todo, asked, disturbed>>
  BY DEF Truncate
<1>2. r \in Resource /\ new[p][r] \in Seq(Digit) /\ file[r] \in Seq(Char)
  BY <1>1, NextFile DEF LimitInv, Types
<1>3. Cut(file[r], Len(new[p][r])) \in Seq(Char)
      /\ Len(Cut(file[r], Len(new[p][r]))) = Len(new[p][r])
  <2>1. Len(new[p][r]) \in Nat
    BY <1>2
  <2>. QED BY <1>2, <2>1, CutType
<1>4. AtWork' = AtWork /\ p \in AtWork
  BY <1>1 DEF LimitInv, Types, AtWork
<1>5. Types'
  BY <1>1, <1>2, <1>3 DEF LimitInv, Types, Phases
<1>6. Alone'
  BY <1>1, <1>4 DEF LimitInv, Alone, Undisturbed
<1>7. file'[r] = Cut(file[r], Len(new[p][r]))
  BY <1>1, <1>2 DEF LimitInv, Types
<1>8. WasCut'
  <2>. SUFFICES ASSUME NEW q \in Config, Undisturbed(q)', pc'[q] = "write"
                PROVE  Len(file'[Head(todo'[q])]) = Len(new'[q][Head(todo'[q])])
    BY DEF WasCut
  <2>1. q = p
    BY <1>1, <1>4 DEF LimitInv, Alone, Undisturbed
  <2>. QED BY <1>1, <1>3, <1>7, <2>1
<1>9. Open'
  BY <1>1 DEF LimitInv, Types, Open
<1>10. SettledLimitsAreLast'
  BY <1>1 DEF LimitInv, Types, SettledLimitsAreLast
<1>. QED BY <1>5, <1>6, <1>8, <1>9, <1>10 DEF LimitInv

LEMMA LimitWrite ==
  ASSUME LimitInv, NEW p \in Config, Write(p)
  PROVE  LimitInv'
<1> DEFINE r == Head(todo[p])
<1>1. /\ pc[p] = "write"
      /\ pc' = [pc EXCEPT ![p] = IF Len(todo[p]) = 1 THEN "done" ELSE "backup"]
      /\ file' = [file EXCEPT ![r] = Over(new[p][r], @)]
      /\ asked' = [asked EXCEPT ![r] = Append(@, Value(new[p][r]))]
      /\ settled' = IF p \in disturbed THEN settled ELSE settled \union {r}
      /\ todo' = [todo EXCEPT ![p] = Tail(@)]
      /\ UNCHANGED <<copy, new, disturbed>>
  BY DEF Write
<1>2. /\ r \in Resource /\ new[p][r] \in Seq(Digit) /\ file[r] \in Seq(Char)
      /\ Tail(todo[p]) \in Orders /\ (Len(todo[p]) # 1 => Tail(todo[p]) # <<>>)
      /\ asked[r] \in Seq(Values) /\ Value(new[p][r]) \in Values
  BY <1>1, NextFile DEF LimitInv, Types, Values
<1>3. /\ file'[r] = Over(new[p][r], file[r]) /\ file'[r] \in Seq(Char)
      /\ \A q \in Resource : q # r => file'[q] = file[q] /\ asked'[q] = asked[q]
  BY <1>1, <1>2, OverType DEF LimitInv, Types
<1>4. /\ asked'[r] \in Seq(Values) /\ asked'[r] # <<>>
      /\ Last(asked'[r]) = Value(new[p][r])
  <2>1. asked'[r] = Append(asked[r], Value(new[p][r]))
    BY <1>1, <1>2 DEF LimitInv, Types
  <2>2. \A t \in Seq(Values), v \in Values :
          Append(t, v) \in Seq(Values) /\ Append(t, v) # <<>> /\ Last(Append(t, v)) = v
    BY DEF Last
  <2>. QED BY <1>2, <2>1, <2>2
<1>5. AtWork' = AtWork /\ p \in AtWork
  BY <1>1 DEF LimitInv, Types, AtWork
<1>6. Types'
  <2>1. file' \in [Resource -> Seq(Char)]
    BY <1>1, <1>3 DEF LimitInv, Types
  <2>2. asked' \in [Resource -> Seq(Values)] /\ \A q \in Resource : asked'[q] # <<>>
    BY <1>1, <1>3, <1>4 DEF LimitInv, Types
  <2>3. pc' \in [Config -> Phases] /\ todo' \in [Config -> Orders]
    BY <1>1, <1>2 DEF LimitInv, Types, Phases
  <2>4. \A q \in Config : pc'[q] \in {"backup", "cut", "write"} => todo'[q] # <<>>
    BY <1>1, <1>2 DEF LimitInv, Types
  <2>. QED BY <1>1, <1>2, <2>1, <2>2, <2>3, <2>4 DEF LimitInv, Types
<1>7. Alone'
  BY <1>1, <1>5 DEF LimitInv, Alone, Undisturbed
<1>8. \A q \in Config : pc'[q] = "write" =>
        q # p /\ pc[q] = "write" /\ todo'[q] = todo[q] /\ new'[q] = new[q] /\ q \in AtWork
  BY <1>1 DEF LimitInv, Types, AtWork
<1>9. WasCut'
  BY <1>1, <1>5, <1>8 DEF LimitInv, WasCut, Alone, Undisturbed
<1>10. Open'
  BY <1>1, <1>5, <1>8 DEF LimitInv, Open, Alone, Undisturbed
<1>11. SettledLimitsAreLast'
  <2>. SUFFICES ASSUME NEW q \in settled' PROVE Value(file'[q]) = Last(asked'[q])
    BY DEF SettledLimitsAreLast
  <2>1. CASE q = r
    <3>1. p \notin disturbed
      BY <1>1, <2>1 DEF LimitInv, Open
    <3>2. Over(new[p][r], file[r]) = new[p][r]
      BY <1>1, <1>2, <1>5, <3>1, OverType DEF LimitInv, WasCut, Undisturbed
    <3>. QED BY <1>3, <1>4, <2>1, <3>2
  <2>2. CASE q # r
    BY <1>1, <1>3, <2>2 DEF LimitInv, Types, SettledLimitsAreLast
  <2>. QED BY <2>1, <2>2
<1>. QED BY <1>6, <1>7, <1>9, <1>10, <1>11 DEF LimitInv

LEMMA LimitInterrupt ==
  ASSUME LimitInv, NEW p \in Config, Interrupt(p)
  PROVE  LimitInv'
<1>1. /\ pc[p] # "idle" /\ pc' \in {pc, [pc EXCEPT ![p] = "idle"]}
      /\ disturbed' = IF pc[p] = "write" THEN disturbed \union {p} ELSE disturbed
      /\ UNCHANGED <<copy, new, todo, asked>>
  BY DEF Interrupt
<1>2. \/ file' = file /\ settled' = settled
      \/ /\ file' = [file EXCEPT !["mem"] = IF copy = <<>> THEN @ ELSE copy]
         /\ settled' = settled \ {"mem"}
  BY DEF Interrupt
<1>3. AtWork' \in {AtWork, AtWork \ {p}} /\ p \in AtWork
  BY <1>1 DEF LimitInv, Types, AtWork
<1>4. Types'
  <2>1. file' \in [Resource -> Seq(Char)] /\ settled' \subseteq Resource
    BY <1>1, <1>2 DEF LimitInv, Types
  <2>2. /\ pc' \in [Config -> Phases]
        /\ \A q \in Config : pc'[q] \in {"backup", "cut", "write"} => pc'[q] = pc[q]
    BY <1>1 DEF LimitInv, Types, Phases
  <2>3. disturbed' \subseteq Config
    BY <1>1 DEF LimitInv, Types
  <2>. QED BY <1>1, <2>1, <2>2, <2>3 DEF LimitInv, Types
<1>5. Alone'
  BY <1>1, <1>3 DEF LimitInv, Alone, Undisturbed
<1>6. \A q \in Config : pc'[q] = "write" => pc[q] = "write" /\ q \in AtWork
  BY <1>1 DEF LimitInv, Types, AtWork
<1>7. WasCut'
  BY <1>1, <1>3, <1>6 DEF LimitInv, WasCut, Alone, Undisturbed
<1>8. Open'
  BY <1>1, <1>2, <1>6 DEF LimitInv, Open
<1>9. SettledLimitsAreLast'
  BY <1>1, <1>2 DEF LimitInv, Types, SettledLimitsAreLast
<1>. QED BY <1>4, <1>5, <1>7, <1>8, <1>9 DEF LimitInv

LEMMA LimitStep == LimitInv /\ [Next]_vars => LimitInv'
<1> SUFFICES ASSUME LimitInv, [Next]_vars PROVE LimitInv'
  OBVIOUS
<1>1. CASE UNCHANGED vars
  BY <1>1 DEF vars, LimitInv, Types, Alone, WasCut, Open, SettledLimitsAreLast,
              Undisturbed, AtWork
<1>2. ASSUME NEW p \in Config, NEW cpu \in CpuOperand \union {NoOperand},
             NEW mem \in MemOperand \union {NoOperand}, Ask(p, cpu, mem)
      PROVE  LimitInv'
  BY <1>2, LimitAsk
<1>3. ASSUME NEW p \in Config, Backup(p) PROVE LimitInv'
  <2>1. /\ pc[p] = "backup" /\ pc' = [pc EXCEPT ![p] = "cut"]
        /\ UNCHANGED <<file, new, todo, asked, disturbed, settled>>
    BY <1>3 DEF Backup
  <2>2. todo[p] # <<>> /\ copy' \in Seq(Char)
    BY <1>3, <2>1 DEF Backup, LimitInv, Types, Resource
  <2>. QED BY <2>1, <2>2, LimitMove DEF Phases
<1>4. ASSUME NEW p \in Config, Truncate(p) PROVE LimitInv'
  BY <1>4, LimitTruncate
<1>5. ASSUME NEW p \in Config, Write(p) PROVE LimitInv'
  BY <1>5, LimitWrite
<1>6. ASSUME NEW p \in Config, Finish(p) \/ Kill(p) PROVE LimitInv'
  <2>1. /\ pc[p] # "idle" /\ pc' = [pc EXCEPT ![p] = "idle"]
        /\ UNCHANGED <<file, copy, new, todo, asked, disturbed, settled>>
    BY <1>6 DEF Finish, Kill, history
  <2>2. copy' \in Seq(Char)
    BY <2>1 DEF LimitInv, Types
  <2>. QED BY <2>1, <2>2, LimitMove DEF Phases
<1>7. ASSUME NEW p \in Config, Interrupt(p) PROVE LimitInv'
  BY <1>7, LimitInterrupt
<1>8. CASE StartDaemon \/ ReadMem \/ ReadCpu
  <2>1. UNCHANGED <<file, copy, writers, history>>
    BY <1>8 DEF StartDaemon, ReadMem, ReadCpu
  <2>. QED BY <2>1 DEF writers, history, LimitInv, Types, Alone, WasCut, Open,
                       SettledLimitsAreLast, Undisturbed, AtWork
<1>. QED BY <1>1, <1>2, <1>3, <1>4, <1>5, <1>6, <1>7, <1>8 DEF Next

\* However many processes configure, are interrupted and are killed, a file that
\* one wrote undisturbed holds what was asked for last.
THEOREM SettledIsLast == Spec => []SettledLimitsAreLast
<1>1. LimitInv => SettledLimitsAreLast
  BY DEF LimitInv
<1>. QED BY LimitInit, LimitStep, <1>1, PTL DEF Spec

-----------------------------------------------------------------------------
\* The daemon: a configuration that begins while it reads is noted as "pair".
LEMMA PromisedStep ==
  LimitInv /\ Promised /\ QuietStartTakesBoth /\ [Next]_vars
    => Promised' /\ QuietStartTakesBoth'
<1> SUFFICES ASSUME LimitInv, Promised, QuietStartTakesBoth, [Next]_vars
             PROVE  Promised' /\ QuietStartTakesBoth'
  OBVIOUS
<1>1. CASE UNCHANGED vars
  BY <1>1 DEF vars, Promised, QuietStartTakesBoth, Reading, AtWork
<1>2. ASSUME NEW p \in Config, NEW cpu \in CpuOperand \union {NoOperand},
             NEW mem \in MemOperand \union {NoOperand}, Ask(p, cpu, mem)
      PROVE  Promised' /\ QuietStartTakesBoth'
  <2>1. /\ UNCHANGED <<daemon, promised>>
        /\ doubtful' = IF Reading THEN doubtful \union {"pair"} ELSE doubtful
    BY <1>2 DEF Ask
  <2>2. Reading' = Reading /\ (Reading => "pair" \in doubtful')
    BY <2>1 DEF Reading
  <2>. QED BY <2>1, <2>2 DEF Promised, QuietStartTakesBoth, Reading
<1>3. ASSUME NEW p \in Config,
             Backup(p) \/ Truncate(p) \/ Write(p) \/ Finish(p) \/ Interrupt(p) \/ Kill(p)
      PROVE  Promised' /\ QuietStartTakesBoth'
  <2>1. UNCHANGED <<daemon, promised, doubtful>>
    BY <1>3 DEF Backup, Truncate, Write, Finish, Interrupt, Kill
  <2>2. p \in AtWork
    BY <1>3 DEF Backup, Truncate, Write, Finish, Interrupt, Kill, AtWork
  <2>3. Reading => "pair" \in doubtful
    BY <2>2 DEF Promised
  <2>. QED BY <2>1, <2>3 DEF Promised, QuietStartTakesBoth, Reading
<1>4. CASE StartDaemon
  <2>1. /\ daemon'.pc = "mem" /\ DOMAIN daemon' = DOMAIN daemon
        /\ promised' = [r \in Resource |-> Last(asked[r])]
        /\ "pair" \notin doubtful' => AtWork = {} /\ settled = Resource
        /\ UNCHANGED <<pc, asked, settled>>
    BY <1>4 DEF StartDaemon, writers, history, Promised
  <2>. QED BY <2>1 DEF Promised, QuietStartTakesBoth, AtWork
<1>5. CASE ReadMem
  <2>1. /\ daemon.pc = "mem" /\ daemon'.pc = "cpu" /\ daemon'.mem = Value(file["mem"])
        /\ DOMAIN daemon' = DOMAIN daemon
        /\ doubtful \subseteq doubtful'
        /\ UNCHANGED <<pc, asked, settled, promised, file>>
    BY <1>5 DEF ReadMem, writers, history, Promised
  <2>2. "pair" \notin doubtful => Value(file["mem"]) = promised["mem"]
    BY <2>1 DEF Promised, Reading, LimitInv, SettledLimitsAreLast, Resource
  <2>. QED BY <2>1, <2>2 DEF Promised, QuietStartTakesBoth, Reading, AtWork
<1>6. CASE ReadCpu
  <2>1. /\ daemon.pc = "cpu" /\ daemon'.pc = "limited" /\ daemon'.cpu = Value(file["cpu"])
        /\ daemon'.mem = daemon.mem
        /\ DOMAIN daemon' = DOMAIN daemon
        /\ doubtful \subseteq doubtful'
        /\ UNCHANGED <<pc, asked, settled, promised, file>>
    BY <1>6 DEF ReadCpu, writers, history, Promised
  <2>2. "pair" \notin doubtful => Value(file["cpu"]) = promised["cpu"]
    BY <2>1 DEF Promised, Reading, LimitInv, SettledLimitsAreLast, Resource
  <2>. QED BY <2>1, <2>2 DEF Promised, QuietStartTakesBoth, Reading, AtWork
<1>. QED BY <1>1, <1>2, <1>3, <1>4, <1>5, <1>6 DEF Next

\* A daemon that nobody configures as it starts runs under the two limits asked
\* for last, not under one of them and an older other.
THEOREM QuietDaemonTakesBoth == Spec => []QuietStartTakesBoth
<1>1. Init => QuietStartTakesBoth
  BY DEF Init, QuietStartTakesBoth
<1>. QED BY LimitInit, LimitStep, PromisedStep, <1>1, PTL DEF Spec

-----------------------------------------------------------------------------
\* The limits somebody asked for.  Only one process is at work while a file is
\* not torn; then the copy it has is no longer than the file it is to cut, nor
\* the file, restored or not, than what it is to write over it.
OneAtWork == \A r \in Resource : r \notin torn => \A p, q \in AtWork : p = q
NotEmpty  == /\ \A p \in AtWork : \A r \in Resource : new[p][r] # <<>>
             /\ file["mem"] = <<>> => copy = <<>>
CopyAsked == "copy" \notin torn => copy = <<>> \/ Value(copy) \in Sought("mem")
Fits(p) ==
    LET r == Head(todo[p]) IN
    r \notin torn =>
        /\ pc[p] = "cut" /\ r = "mem" => Len(copy) <= Len(file[r])
        /\ pc[p] = "write" => Len(file[r]) <= Len(new[p][r])
        /\ pc[p] = "write" /\ r = "mem" => Len(copy) <= Len(new[p][r])

AskedInv ==
    /\ OneAtWork /\ NotEmpty /\ CopyAsked /\ LimitsAreAsked
    /\ \A p \in Config : Fits(p)

\* NULs after a number change nothing of what is read.
LEMMA LeadingCut ==
  ASSUME NEW t \in Seq(Char), NEW n \in Nat, Len(t) <= n
  PROVE  Leading(Cut(t, n)) = Leading(t) /\ Value(Cut(t, n)) = Value(t)
<1>1. /\ Len(t) \in Nat /\ DOMAIN t = 1..Len(t) /\ DOMAIN Cut(t, n) = 1..n
      /\ \A i \in 1..n : Cut(t, n)[i] = IF i <= Len(t) THEN t[i] ELSE "nul"
  BY DEF Cut
<1>2. PICK u : u = Cut(t, n)
  OBVIOUS
<1>3. /\ DOMAIN u = 1..n
      /\ \A i \in 1..Len(t) : u[i] = t[i]
      /\ \A i \in 1..n : i > Len(t) => u[i] \notin Digit
  BY <1>1, <1>2 DEF Digit
<1>4. ASSUME NEW k \in 1..n, \A j \in 1..k : u[j] \in Digit
      PROVE  k \in 1..Len(t)
  <2>1. k \in Nat /\ k \in 1..k
    OBVIOUS
  <2>. QED BY <1>1, <1>3, <1>4, <2>1
<1>5. \A k \in 1..Len(t) : k \in 1..n /\ ((\A j \in 1..k : u[j] \in Digit) <=> (\A j \in 1..k : t[j] \in Digit))
  BY <1>1, <1>3
<1>6. {k \in DOMAIN u : \A j \in 1..k : u[j] \in Digit} = {k \in DOMAIN t : \A j \in 1..k : t[j] \in Digit}
  BY <1>1, <1>3, <1>4, <1>5
<1>7. \A i \in {k \in DOMAIN t : \A j \in 1..k : t[j] \in Digit} : u[i] = t[i]
  BY <1>1, <1>3
<1>8. Leading(u) = Leading(t)
  BY <1>6, <1>7 DEF Leading
<1>9. Value(u) = Value(t)
  BY <1>8, Zenon DEF Value
<1>. QED BY <1>2, <1>8, <1>9

\* write leaves nothing of a text that is no longer than what it writes.
LEMMA OverAll ==
  ASSUME NEW t \in Seq(Digit), NEW old \in Seq(Char), Len(old) <= Len(t)
  PROVE  Over(t, old) = t
<1>1. SubSeq(old, Len(t) + 1, Len(old)) = <<>>
  OBVIOUS
<1>. QED BY <1>1 DEF Over

\* The files hold what was asked for, initially and after each action.
LEMMA AskedInit == Init => AskedInv
<1> SUFFICES ASSUME Init PROVE AskedInv
  OBVIOUS
<1>1. LimitsAreAsked
  BY DEF Init, LimitsAreAsked, Sought
<1>. QED BY <1>1 DEF Init, AskedInv, OneAtWork, NotEmpty, CopyAsked, Fits, AtWork, Resource

LEMMA AskedAsk ==
  ASSUME LimitInv, AskedInv, NEW p \in Config, NEW cpu \in CpuOperand \union {NoOperand},
         NEW mem \in MemOperand \union {NoOperand}, Ask(p, cpu, mem)
  PROVE  AskedInv'
<1> DEFINE limit == Limit(cpu, mem)
<1>1. \A r \in Resource : Digits(limit[r]) # <<>>
  BY LimitDigits
<1>2. /\ pc[p] = "idle" /\ pc' = [pc EXCEPT ![p] = "backup"]
      /\ new' = [new EXCEPT ![p] = [r \in Resource |-> Digits(limit[r])]]
      /\ \E o : todo' = [todo EXCEPT ![p] = o]
      /\ IF AtWork = {} THEN torn' = torn ELSE torn' = torn \union Resource
      /\ UNCHANGED <<file, copy, asked>>
  BY DEF Ask, Limit
<1> HIDE DEF limit
<1>3. AtWork' = AtWork \union {p}
  BY <1>2 DEF AtWork, LimitInv, Types, Phases
<1>4. OneAtWork'
  BY <1>2, <1>3 DEF AskedInv, OneAtWork
<1>5. NotEmpty'
  BY <1>1, <1>2, <1>3 DEF LimitInv, Types, AskedInv, NotEmpty
<1>6. CopyAsked' /\ LimitsAreAsked'
  BY <1>2 DEF AskedInv, CopyAsked, LimitsAreAsked, Sought, Resource
<1>7. \A q \in Config : Fits(q)'
  <2>1. \A q \in Config : pc'[q] \in {"cut", "write"} =>
          q # p /\ pc'[q] = pc[q] /\ todo'[q] = todo[q] /\ new'[q] = new[q]
    BY <1>2 DEF LimitInv, Types
  <2>2. torn \subseteq torn'
    BY <1>2
  <2>. QED BY <1>2, <2>1, <2>2 DEF AskedInv, Fits
<1>. QED BY <1>4, <1>5, <1>6, <1>7 DEF AskedInv

\* Two at work: what the other is writing is torn.
LEMMA OthersTear ==
  ASSUME LimitInv, AskedInv, NEW p \in AtWork, NEW q \in Config, q # p,
         pc[q] \in {"cut", "write"}
  PROVE  q \in AtWork /\ Head(todo[q]) \in Resource /\ Head(todo[q]) \in torn
<1>1. q \in AtWork /\ Head(todo[q]) \in Resource
  BY NextFile DEF LimitInv, Types, AtWork
<1>. QED BY <1>1 DEF AskedInv, OneAtWork

LEMMA AskedBackup ==
  ASSUME LimitInv, AskedInv, NEW p \in Config, Backup(p)
  PROVE  AskedInv'
<1>1. /\ pc[p] = "backup" /\ pc' = [pc EXCEPT ![p] = "cut"]
      /\ UNCHANGED <<file, new, todo, asked>>
  BY DEF Backup
<1>2. \/ /\ Head(todo[p]) = "mem" /\ copy' = file["mem"] /\ copy' # <<>>
         /\ torn' = IF "mem" \in torn THEN torn \union {"copy"} ELSE torn \ {"copy"}
      \/ /\ Head(todo[p]) # "mem" \/ file["mem"] = <<>>
         /\ UNCHANGED <<copy, torn>>
  BY DEF Backup
<1>3. AtWork' = AtWork /\ p \in AtWork
  BY <1>1 DEF LimitInv, Types, AtWork
<1>4. \A r \in Resource : r \in torn' <=> r \in torn
  BY <1>2 DEF Resource
<1>5. OneAtWork' /\ LimitsAreAsked'
  BY <1>1, <1>3, <1>4 DEF AskedInv, OneAtWork, LimitsAreAsked, Sought
<1>6. NotEmpty'
  BY <1>1, <1>2, <1>3 DEF AskedInv, NotEmpty
<1>7. CopyAsked'
  BY <1>1, <1>2 DEF AskedInv, CopyAsked, LimitsAreAsked, Sought, Resource
<1>8. ASSUME NEW q \in Config PROVE Fits(q)'
  <2>1. CASE q = p
    <3>1. pc'[q] = "cut"
      BY <1>1, <2>1 DEF LimitInv, Types
    <3>2. Head(todo[p]) = "mem" => Len(copy') <= Len(file["mem"])
      BY <1>2 DEF LimitInv, Types, AskedInv, NotEmpty, Resource
    <3>. QED BY <1>1, <2>1, <3>1, <3>2 DEF Fits
  <2>2. CASE q # p
    <3>1. pc'[q] = pc[q]
      BY <1>1, <2>2 DEF LimitInv, Types
    <3>2. pc[q] \in {"cut", "write"} => Head(todo[q]) \in torn /\ Head(todo[q]) \in Resource
      BY <1>3, <2>2, OthersTear
    <3>. QED BY <1>1, <1>4, <3>1, <3>2 DEF Fits
  <2>. QED BY <2>1, <2>2
<1>. QED BY <1>5, <1>6, <1>7, <1>8 DEF AskedInv

LEMMA AskedTruncate ==
  ASSUME LimitInv, AskedInv, NEW p \in Config, Truncate(p)
  PROVE  AskedInv'
<1> DEFINE r == Head(todo[p])
<1>1. /\ pc[p] = "cut" /\ pc' = [pc EXCEPT ![p] = "write"]
      /\ file' = [file EXCEPT ![r] = Cut(@, Len(new[p][r]))]
      /\ torn' = IF Len(new[p][r]) < Len(file[r]) THEN torn \union {r} ELSE torn
      /\ UNCHANGED <<copy, new, todo, asked>>
  BY DEF Truncate
<1>2. /\ r \in Resource /\ new[p][r] \in Seq(Digit) /\ file[r] \in Seq(Char)
      /\ Len(new[p][r]) \in Nat /\ Len(file[r]) \in Nat
  BY <1>1, NextFile DEF LimitInv, Types
<1>3. PICK cut : cut = Cut(file[r], Len(new[p][r]))
  OBVIOUS
<1>4. /\ cut \in Seq(Char) /\ Len(cut) = Len(new[p][r])
      /\ Len(file[r]) <= Len(new[p][r]) => Value(cut) = Value(file[r])
  BY <1>2, <1>3, CutType, LeadingCut
<1>5. /\ file'[r] = cut
      /\ \A q \in Resource \ {r} : file'[q] = file[q]
  BY <1>1, <1>2, <1>3 DEF LimitInv, Types
<1>6. AtWork' = AtWork /\ p \in AtWork /\ torn \subseteq torn'
  BY <1>1 DEF LimitInv, Types, AtWork
<1>7. OneAtWork'
  BY <1>6 DEF AskedInv, OneAtWork
<1>8. NotEmpty'
  <2>1. new[p][r] # <<>>
    BY <1>2, <1>6 DEF AskedInv, NotEmpty
  <2>2. Len(cut) # 0
    BY <1>2, <1>4, <2>1
  <2>3. cut # <<>>
    BY <2>2
  <2>4. "mem" \in Resource
    BY DEF Resource
  <2>. QED BY <1>1, <1>5, <1>6, <2>3, <2>4 DEF AskedInv, NotEmpty
<1>9. CopyAsked'
  BY <1>1, <1>6 DEF AskedInv, CopyAsked, Sought
<1>10. LimitsAreAsked'
  <2>. SUFFICES ASSUME NEW q \in Resource, q \notin torn' PROVE Value(file'[q]) \in Sought(q)'
    BY DEF LimitsAreAsked
  <2>1. Value(file[q]) \in Sought(q) /\ Sought(q)' = Sought(q)
    BY <1>1, <1>6 DEF AskedInv, LimitsAreAsked, Sought
  <2>2. q = r => Value(file'[q]) = Value(file[q])
    BY <1>1, <1>2, <1>4, <1>5
  <2>. QED BY <1>5, <2>1, <2>2
<1>11. ASSUME NEW q \in Config PROVE Fits(q)'
  <2>1. CASE q = p
    <3>1. pc'[q] = "write" /\ Head(todo'[q]) = r /\ new'[q] = new[p]
      BY <1>1, <2>1 DEF LimitInv, Types
    <3>2. r \notin torn' => /\ r \notin torn /\ Len(file[r]) <= Len(new[p][r])
      BY <1>1, <1>2, <1>6
    <3>3. r \notin torn' /\ r = "mem" => Len(copy) <= Len(file[r])
      BY <1>1, <3>2 DEF AskedInv, Fits
    <3>4. Len(copy) \in Nat
      BY DEF LimitInv, Types
    <3>5. r \notin torn' /\ r = "mem" => Len(copy) <= Len(new[p][r])
      BY <1>2, <3>2, <3>3, <3>4
    <3>6. Len(file'[r]) <= Len(new[p][r])
      BY <1>2, <1>4, <1>5
    <3>. QED BY <1>1, <3>1, <3>5, <3>6 DEF Fits
  <2>2. CASE q # p
    <3>1. pc'[q] = pc[q]
      BY <1>1, <2>2 DEF LimitInv, Types
    <3>2. pc[q] \in {"cut", "write"} => Head(todo[q]) \in torn'
      BY <1>6, <2>2, OthersTear
    <3>. QED BY <1>1, <3>1, <3>2 DEF Fits
  <2>. QED BY <2>1, <2>2
<1>. QED BY <1>7, <1>8, <1>9, <1>10, <1>11 DEF AskedInv

\* What was asked for stays asked for.
LEMMA SoughtStays ==
  ASSUME NEW r \in Resource, NEW v, asked[r] \in Seq(Values),
         asked'[r] = Append(asked[r], v),
         \A q \in Resource : q # r => asked'[q] = asked[q]
  PROVE  /\ \A q \in Resource : Sought(q) \subseteq Sought(q)'
         /\ v \in Sought(r)'
<1>2. /\ Len(asked[r]) \in Nat /\ DOMAIN asked[r] = 1..Len(asked[r])
      /\ DOMAIN asked'[r] = 1..(Len(asked[r]) + 1) /\ asked'[r][Len(asked[r]) + 1] = v
      /\ \A i \in 1..Len(asked[r]) : asked'[r][i] = asked[r][i]
  OBVIOUS
<1>3. \A i \in DOMAIN asked[r] : i \in DOMAIN asked'[r] /\ asked'[r][i] = asked[r][i]
  BY <1>2
<1>4. Len(asked[r]) + 1 \in DOMAIN asked'[r]
  BY <1>2
<1>5. Sought(r) \subseteq Sought(r)'
  BY <1>3 DEF Sought
<1>6. v \in Sought(r)'
  BY <1>2, <1>4 DEF Sought
<1>7. \A q \in Resource : q # r => Sought(q)' = Sought(q)
  BY DEF Sought
<1>. QED BY <1>5, <1>6, <1>7

LEMMA AskedWrite ==
  ASSUME LimitInv, AskedInv, NEW p \in Config, Write(p)
  PROVE  AskedInv'
<1>0. PICK r : r = Head(todo[p])
  OBVIOUS
<1>1. /\ pc[p] = "write"
      /\ \E l \in {"done", "backup"} : pc' = [pc EXCEPT ![p] = l]
      /\ file' = [file EXCEPT ![r] = Over(new[p][r], @)]
      /\ asked' = [asked EXCEPT ![r] = Append(@, Value(new[p][r]))]
      /\ IF p \in disturbed THEN torn' = torn ELSE torn' = torn \ {r}
      /\ todo' = [todo EXCEPT ![p] = Tail(@)]
      /\ UNCHANGED <<copy, new>>
  BY <1>0 DEF Write
<1>2. /\ r \in Resource /\ new[p][r] \in Seq(Digit) /\ file[r] \in Seq(Char)
      /\ Len(new[p][r]) \in Nat /\ Len(file[r]) \in Nat
  BY <1>0, <1>1, NextFile DEF LimitInv, Types
<1>3. AtWork' = AtWork /\ p \in AtWork
  BY <1>1 DEF LimitInv, Types, AtWork
<1>4. p \notin disturbed => AtWork = {p} /\ Len(file[r]) = Len(new[p][r])
  BY <1>0, <1>1, <1>3 DEF LimitInv, Alone, WasCut, Undisturbed
<1>5. r \notin torn' => file'[r] = new[p][r]
  <2>1. r \notin torn' => Len(file[r]) <= Len(new[p][r])
    BY <1>0, <1>1, <1>2, <1>4 DEF AskedInv, Fits
  <2>2. r \notin torn' => Over(new[p][r], file[r]) = new[p][r]
    BY <1>2, <2>1, OverAll
  <2>. QED BY <1>1, <1>2, <2>2 DEF LimitInv, Types
<1>6. \A q \in Resource \ {r} : file'[q] = file[q] /\ (q \in torn' <=> q \in torn)
  BY <1>1, <1>2 DEF LimitInv, Types
<1>7. /\ \A q \in Resource : Sought(q) \subseteq Sought(q)'
      /\ Value(new[p][r]) \in Sought(r)'
  <2>1. /\ asked[r] \in Seq(Values) /\ asked'[r] = Append(asked[r], Value(new[p][r]))
        /\ \A q \in Resource : q # r => asked'[q] = asked[q]
    BY <1>1, <1>2 DEF LimitInv, Types
  <2>2. PICK v : v = Value(new[p][r])
    OBVIOUS
  <2>3. (\A q \in Resource : Sought(q) \subseteq Sought(q)') /\ v \in Sought(r)'
    BY <1>2, <2>1, <2>2, SoughtStays
  <2>. QED BY <2>2, <2>3
<1>8. OneAtWork'
  BY <1>1, <1>3, <1>4 DEF AskedInv, OneAtWork
<1>9. NotEmpty'
  <2>1. new[p][r] # <<>>
    BY <1>2, <1>3 DEF AskedInv, NotEmpty
  <2>2. file'[r] = Over(new[p][r], file[r])
    BY <1>1, <1>2 DEF LimitInv, Types
  <2>3. Over(new[p][r], file[r]) # <<>>
    <3>1. SubSeq(file[r], Len(new[p][r]) + 1, Len(file[r])) \in Seq(Char)
      BY <1>2
    <3>2. new[p][r] \in Seq(Char)
      BY <1>2 DEF Char
    <3>3. \A t, u \in Seq(Char) : t # <<>> => t \o u # <<>>
      <4>. SUFFICES ASSUME NEW t \in Seq(Char), NEW u \in Seq(Char), t # <<>> PROVE t \o u # <<>>
        OBVIOUS
      <4>1. Len(t) \in Nat /\ Len(u) \in Nat /\ Len(t) > 0 /\ Len(t \o u) = Len(t) + Len(u)
        OBVIOUS
      <4>2. Len(t \o u) # Len(<<>>)
        BY <4>1
      <4>. QED BY <4>2
    <3>. QED BY <2>1, <3>1, <3>2, <3>3 DEF Over
  <2>4. "mem" \in Resource
    BY DEF Resource
  <2>. QED BY <1>1, <1>3, <1>6, <2>2, <2>3, <2>4 DEF AskedInv, NotEmpty
<1>10. CopyAsked'
  BY <1>1, <1>2, <1>7 DEF AskedInv, CopyAsked, Resource
<1>11. LimitsAreAsked'
  <2>. SUFFICES ASSUME NEW q \in Resource, q \notin torn' PROVE Value(file'[q]) \in Sought(q)'
    BY DEF LimitsAreAsked
  <2>1. q = r => Value(file'[q]) \in Sought(q)'
    BY <1>5, <1>7
  <2>2. q # r => Value(file[q]) \in Sought(q) /\ file'[q] = file[q]
    BY <1>6 DEF AskedInv, LimitsAreAsked
  <2>. QED BY <1>7, <2>1, <2>2
<1>12. ASSUME NEW q \in Config PROVE Fits(q)'
  <2>1. CASE q = p
    <3>1. pc'[q] \notin {"cut", "write"}
      BY <1>1, <2>1 DEF LimitInv, Types
    <3>. QED BY <3>1 DEF Fits
  <2>2. CASE q # p
    <3>1. pc'[q] = pc[q] /\ todo'[q] = todo[q]
      BY <1>1, <2>2 DEF LimitInv, Types
    <3>2. pc[q] \in {"cut", "write"} => q \in AtWork /\ Head(todo[q]) \in torn
      BY <1>3, <2>2, OthersTear
    <3>3. pc[q] \in {"cut", "write"} => Head(todo[q]) \in torn'
      BY <1>1, <1>4, <2>2, <3>2
    <3>. QED BY <3>1, <3>3 DEF Fits
  <2>. QED BY <2>1, <2>2
<1>. QED BY <1>8, <1>9, <1>10, <1>11, <1>12 DEF AskedInv

LEMMA AskedInterrupt ==
  ASSUME LimitInv, AskedInv, NEW p \in Config, Interrupt(p)
  PROVE  AskedInv'
<1>1. /\ pc[p] # "idle" /\ pc' \in {pc, [pc EXCEPT ![p] = "idle"]}
      /\ UNCHANGED <<copy, new, todo, asked>>
  BY DEF Interrupt
<1>2. \/ UNCHANGED <<file, torn>>
      \/ /\ file' = [file EXCEPT !["mem"] = IF copy = <<>> THEN @ ELSE copy]
         /\ torn' = IF "copy" \in torn THEN torn \union {"mem"} ELSE torn
  BY DEF Interrupt
<1>3. /\ \A q \in Resource \ {"mem"} : file'[q] = file[q]
      /\ \/ file'["mem"] = file["mem"]
         \/ /\ file'["mem"] = copy /\ copy # <<>>
            /\ "copy" \in torn => "mem" \in torn'
  BY <1>2 DEF LimitInv, Types, Resource
<1>4. AtWork' \subseteq AtWork /\ p \in AtWork /\ torn \subseteq torn'
      /\ \A q \in Config : pc'[q] \in {"cut", "write"} => pc'[q] = pc[q]
  BY <1>1, <1>2 DEF LimitInv, Types, AtWork
<1>5. OneAtWork'
  BY <1>4 DEF AskedInv, OneAtWork
<1>6. NotEmpty'
  BY <1>1, <1>3, <1>4 DEF AskedInv, NotEmpty
<1>7. CopyAsked'
  BY <1>1, <1>4 DEF AskedInv, CopyAsked, Sought
<1>8. LimitsAreAsked'
  BY <1>1, <1>3, <1>4 DEF AskedInv, CopyAsked, LimitsAreAsked, Sought
<1>9. ASSUME NEW q \in Config PROVE Fits(q)'
  <2>1. Len(copy) \in Nat
    BY DEF LimitInv, Types
  <2>. QED BY <1>1, <1>3, <1>4, <2>1, NextFile DEF LimitInv, Types, AskedInv, Fits
<1>. QED BY <1>5, <1>6, <1>7, <1>8, <1>9 DEF AskedInv

LEMMA AskedStep == LimitInv /\ AskedInv /\ [Next]_vars => AskedInv'
<1> SUFFICES ASSUME LimitInv, AskedInv, [Next]_vars PROVE AskedInv'
  OBVIOUS
<1>1. ASSUME UNCHANGED <<file, copy, new, todo, asked, torn>>,
             pc' = pc \/ \E p \in Config : pc' = [pc EXCEPT ![p] = "idle"]
      PROVE  AskedInv'
  <2>1. /\ AtWork' \subseteq AtWork
        /\ \A q \in Config : pc'[q] \in {"cut", "write"} => pc'[q] = pc[q]
    BY <1>1 DEF LimitInv, Types, AtWork
  <2>2. OneAtWork' /\ NotEmpty' /\ CopyAsked' /\ LimitsAreAsked'
    BY <1>1, <2>1 DEF AskedInv, OneAtWork, NotEmpty, CopyAsked, LimitsAreAsked, Sought
  <2>3. \A q \in Config : Fits(q)'
    BY <1>1, <2>1 DEF AskedInv, Fits
  <2>. QED BY <2>2, <2>3 DEF AskedInv
<1>2. CASE UNCHANGED vars
  BY <1>1, <1>2 DEF vars
<1>3. ASSUME NEW p \in Config, NEW cpu \in CpuOperand \union {NoOperand},
             NEW mem \in MemOperand \union {NoOperand}, Ask(p, cpu, mem)
      PROVE  AskedInv'
  BY <1>3, AskedAsk
<1>4. ASSUME NEW p \in Config, Backup(p) PROVE AskedInv'
  BY <1>4, AskedBackup
<1>5. ASSUME NEW p \in Config, Truncate(p) PROVE AskedInv'
  BY <1>5, AskedTruncate
<1>6. ASSUME NEW p \in Config, Write(p) PROVE AskedInv'
  BY <1>6, AskedWrite
<1>7. ASSUME NEW p \in Config, Finish(p) \/ Kill(p) PROVE AskedInv'
  BY <1>1, <1>7 DEF Finish, Kill, history
<1>8. ASSUME NEW p \in Config, Interrupt(p) PROVE AskedInv'
  BY <1>8, AskedInterrupt
<1>9. CASE StartDaemon \/ ReadMem \/ ReadCpu
  BY <1>1, <1>9 DEF StartDaemon, ReadMem, ReadCpu, writers, history
<1>. QED BY <1>2, <1>3, <1>4, <1>5, <1>6, <1>7, <1>8, <1>9 DEF Next

\* However many processes configure, are interrupted and are killed, a file that
\* was not being shortened meanwhile, nor restored from a copy of one that was,
\* holds a value somebody asked for.
THEOREM LimitsWereAsked == Spec => []LimitsAreAsked
<1>1. AskedInv => LimitsAreAsked
  BY DEF AskedInv
<1>. QED BY LimitInit, LimitStep, AskedInit, AskedStep, <1>1, PTL DEF Spec

-----------------------------------------------------------------------------
\* What the daemon has taken so far.
DaemonTook ==
    /\ DOMAIN daemon = {"pc", "mem", "cpu"}
    /\ daemon.pc \in {"off", "mem", "cpu", "limited"}
    /\ daemon.pc \in {"cpu", "limited"} /\ "mem" \notin doubtful => daemon.mem \in Sought("mem")
    /\ daemon.pc = "limited" /\ "cpu" \notin doubtful => daemon.cpu \in Sought("cpu")

\* Nothing asked for is forgotten.
LEMMA SoughtGrows ==
  ASSUME LimitInv, [Next]_vars, NEW q \in Resource
  PROVE  Sought(q) \subseteq Sought(q)'
<1>1. CASE UNCHANGED asked
  BY <1>1 DEF Sought
<1>2. ASSUME NEW p \in Config, Write(p) PROVE Sought(q) \subseteq Sought(q)'
  <2>1. PICK r : r = Head(todo[p])
    OBVIOUS
  <2>2. r \in Resource
    BY <1>2, <2>1, NextFile DEF Write, LimitInv, Types
  <2>3. asked' = [asked EXCEPT ![r] = Append(@, Value(new[p][r]))]
    BY <1>2, <2>1 DEF Write
  <2>4. /\ asked[r] \in Seq(Values) /\ asked'[r] = Append(asked[r], Value(new[p][r]))
        /\ \A s \in Resource : s # r => asked'[s] = asked[s]
    BY <2>2, <2>3 DEF LimitInv, Types
  <2>. QED BY <2>2, <2>4, SoughtStays
<1>3. UNCHANGED asked \/ \E p \in Config : Write(p)
  <2>1. ASSUME NEW p \in Config, NEW cpu \in CpuOperand \union {NoOperand},
               NEW mem \in MemOperand \union {NoOperand}, Ask(p, cpu, mem)
        PROVE  UNCHANGED asked
    BY <2>1 DEF Ask
  <2>2. ASSUME NEW p \in Config, Backup(p) \/ Truncate(p) \/ Finish(p) \/ Interrupt(p) \/ Kill(p)
        PROVE  UNCHANGED asked
    BY <2>2 DEF Backup, Truncate, Finish, Interrupt, Kill, history
  <2>3. ASSUME StartDaemon \/ ReadMem \/ ReadCpu PROVE UNCHANGED asked
    BY <2>3 DEF StartDaemon, ReadMem, ReadCpu, history
  <2>. QED BY <2>1, <2>2, <2>3 DEF Next, vars
<1>. QED BY <1>1, <1>2, <1>3

\* What the daemon has taken was asked for, after each step.
LEMMA TookStep ==
  LimitInv /\ AskedInv /\ DaemonTook /\ [Next]_vars => DaemonTook'
<1> SUFFICES ASSUME LimitInv, AskedInv, DaemonTook, [Next]_vars PROVE DaemonTook'
  OBVIOUS
<1>1. \A q \in {"cpu", "mem"} : Sought(q) \subseteq Sought(q)'
  BY SoughtGrows DEF Resource
<1>2. \A q \in {"cpu", "mem"} : q \notin torn => Value(file[q]) \in Sought(q)
  BY DEF AskedInv, LimitsAreAsked, Resource
<1>3. CASE daemon' = daemon /\ doubtful \subseteq doubtful'
  BY <1>1, <1>3 DEF DaemonTook
<1>4. CASE StartDaemon
  <2>1. daemon'.pc = "mem" /\ DOMAIN daemon' = DOMAIN daemon
    BY <1>4 DEF StartDaemon, DaemonTook
  <2>. QED BY <2>1 DEF DaemonTook
<1>5. CASE ReadMem
  <2>1. /\ daemon'.pc = "cpu" /\ daemon'.mem = Value(file["mem"])
        /\ DOMAIN daemon' = DOMAIN daemon
        /\ doubtful' = doubtful \union (torn \intersect {"mem"})
    BY <1>5 DEF ReadMem, DaemonTook
  <2>. QED BY <1>1, <1>2, <2>1 DEF DaemonTook
<1>6. CASE ReadCpu
  <2>1. /\ daemon.pc = "cpu" /\ daemon'.pc = "limited" /\ daemon'.cpu = Value(file["cpu"])
        /\ daemon'.mem = daemon.mem
        /\ DOMAIN daemon' = DOMAIN daemon
        /\ doubtful' = doubtful \union (torn \intersect {"cpu"})
    BY <1>6 DEF ReadCpu, DaemonTook
  <2>. QED BY <1>1, <1>2, <2>1 DEF DaemonTook
<1>7. \/ daemon' = daemon /\ doubtful \subseteq doubtful'
      \/ StartDaemon \/ ReadMem \/ ReadCpu
  <2>1. ASSUME NEW p \in Config, NEW cpu \in CpuOperand \union {NoOperand},
               NEW mem \in MemOperand \union {NoOperand}, Ask(p, cpu, mem)
        PROVE  daemon' = daemon /\ doubtful \subseteq doubtful'
    BY <2>1 DEF Ask
  <2>2. ASSUME NEW p \in Config,
               Backup(p) \/ Truncate(p) \/ Write(p) \/ Finish(p) \/ Interrupt(p) \/ Kill(p)
        PROVE  daemon' = daemon /\ doubtful \subseteq doubtful'
    BY <2>2 DEF Backup, Truncate, Write, Finish, Interrupt, Kill
  <2>. QED BY <2>1, <2>2 DEF Next, vars
<1>. QED BY <1>3, <1>4, <1>5, <1>6, <1>7

\* A daemon takes limits that somebody asked for unless it reads a file just
\* then being shortened, and both of those asked for last when nobody configures
\* as it starts.
THEOREM DaemonTakesWhatWasAsked == Spec => []DaemonIsLimitedAsAsked
<1>1. Init => DaemonTook /\ QuietStartTakesBoth
  BY DEF Init, DaemonTook, QuietStartTakesBoth
<1>2. DaemonTook /\ QuietStartTakesBoth => DaemonIsLimitedAsAsked
  BY DEF DaemonTook, DaemonIsLimitedAsAsked
<1>. QED BY LimitInit, LimitStep, AskedInit, AskedStep, TookStep, PromisedStep, <1>1, <1>2,
            PTL DEF Spec

-----------------------------------------------------------------------------
\* What was asked for is what an operand comes to, and so is what is to be
\* written.
Converted ==
    /\ \A r \in Resource : Sought(r) \subseteq Amounts(r)
    /\ \A p \in Config : \A r \in Resource : Value(new[p][r]) \in Amounts(r)

\* What is asked for is converted from an operand, initially and after each step.
LEMMA ConvertedInit == Init => Converted
<1> SUFFICES ASSUME Init PROVE Converted
  OBVIOUS
<1>1. Value(<<>>) = 0
  BY NothingIsZero
<1>2. \A r \in Resource : Sought(r) = {0}
  BY <1>1 DEF Init, Sought
<1>3. \A r : 0 \in Amounts(r)
  BY DEF Amounts
<1>. QED BY <1>1, <1>2, <1>3 DEF Converted, Init

LEMMA ConvertedStep == LimitInv /\ Converted /\ [Next]_vars => Converted'
<1> SUFFICES ASSUME LimitInv, Converted, [Next]_vars PROVE Converted'
  OBVIOUS
<1>1. CASE UNCHANGED <<asked, new>>
  BY <1>1 DEF Converted, Sought
<1>2. ASSUME NEW p \in Config, NEW cpu \in CpuOperand \union {NoOperand},
             NEW mem \in MemOperand \union {NoOperand}, Ask(p, cpu, mem)
      PROVE  Converted'
  <2> DEFINE limit == Limit(cpu, mem)
  <2>1. asked' = asked /\ new' = [new EXCEPT ![p] = [r \in Resource |-> Digits(limit[r])]]
    BY <1>2 DEF Ask, Limit
  <2>2. \A r \in Resource : Value(Digits(limit[r])) \in Amounts(r)
    BY LimitDigits
  <2> HIDE DEF limit
  <2>3. ASSUME NEW q \in Config, NEW r \in Resource PROVE Value(new'[q][r]) \in Amounts(r)
    <3>1. new'[q][r] = IF q = p THEN Digits(limit[r]) ELSE new[q][r]
      BY <2>1 DEF LimitInv, Types
    <3>. QED BY <2>2, <3>1 DEF Converted
  <2>. QED BY <2>1, <2>3 DEF Converted, Sought
<1>3. ASSUME NEW p \in Config, Write(p) PROVE Converted'
  <2>1. PICK r : r = Head(todo[p])
    OBVIOUS
  <2>2. r \in Resource
    BY <1>3, <2>1, NextFile DEF Write, LimitInv, Types
  <2>3. new' = new /\ asked' = [asked EXCEPT ![r] = Append(@, Value(new[p][r]))]
    BY <1>3, <2>1 DEF Write
  <2> DEFINE v == Value(new[p][r])
  <2>4. v \in Amounts(r)
    BY <2>2 DEF Converted
  <2>5. /\ asked[r] \in Seq(Values) /\ asked'[r] = Append(asked[r], v)
        /\ \A s \in Resource : s # r => asked'[s] = asked[s]
    BY <2>2, <2>3 DEF LimitInv, Types
  <2> HIDE DEF v
  <2>6. \A i \in DOMAIN asked'[r] : asked'[r][i] = v \/ asked'[r][i] \in Sought(r)
    BY <2>5 DEF Sought
  <2>7. ASSUME NEW s \in Resource PROVE Sought(s)' \subseteq Amounts(s)
    <3>1. CASE s = r
      BY <2>2, <2>4, <2>6, <3>1 DEF Converted, Sought
    <3>2. CASE s # r
      BY <2>5, <3>2 DEF Converted, Sought
    <3>. QED BY <3>1, <3>2
  <2>. QED BY <2>3, <2>7 DEF Converted
<1>4. \/ UNCHANGED <<asked, new>> \/ \E p \in Config : Write(p)
      \/ \E p \in Config : \E cpu \in CpuOperand \union {NoOperand} :
           \E mem \in MemOperand \union {NoOperand} : Ask(p, cpu, mem)
  <2>1. ASSUME NEW p \in Config, Backup(p) \/ Truncate(p) \/ Finish(p) \/ Interrupt(p) \/ Kill(p)
        PROVE  UNCHANGED <<asked, new>>
    BY <2>1 DEF Backup, Truncate, Finish, Interrupt, Kill, history
  <2>2. ASSUME StartDaemon \/ ReadMem \/ ReadCpu PROVE UNCHANGED <<asked, new>>
    BY <2>2 DEF StartDaemon, ReadMem, ReadCpu, history, writers
  <2>. QED BY <2>1, <2>2 DEF Next, vars
<1>. QED BY <1>1, <1>2, <1>3, <1>4

\* The numbers of the files and of the daemon are those of operands, or 0: every
\* number survives being printed to a file and read from it again, but for a
\* memory beyond the largest long, which comes back as that, however many
\* configure, and whoever is interrupted or killed, unless the file was being
\* shortened (strLimitCpu, strLimitMem, getLimit).
LimitsOfOperands ==
    /\ \A r \in Resource : r \notin torn => Value(file[r]) \in Amounts(r)
    /\ daemon.pc \in {"cpu", "limited"} /\ "mem" \notin doubtful => daemon.mem \in Amounts("mem")
    /\ daemon.pc = "limited" /\ "cpu" \notin doubtful => daemon.cpu \in Amounts("cpu")

\* However many processes configure, with whatever operands and faults, the limits
\* are those of operands, up to the largest long (config_res.c, get_limit.c).
THEOREM LimitsAreOperands == Spec => []LimitsOfOperands
<1>1. Init => DaemonTook
  BY DEF Init, DaemonTook
<1>2. Converted /\ AskedInv /\ DaemonTook => LimitsOfOperands
  <2>1. "mem" \in Resource /\ "cpu" \in Resource
    BY DEF Resource
  <2>. QED BY <2>1 DEF Converted, AskedInv, LimitsAreAsked, DaemonTook, LimitsOfOperands
<1>. QED BY LimitInit, LimitStep, AskedInit, AskedStep, TookStep, ConvertedInit, ConvertedStep,
            <1>1, <1>2, PTL DEF Spec
=============================================================================
