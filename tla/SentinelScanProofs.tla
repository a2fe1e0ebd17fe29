------------------------- MODULE SentinelScanProofs --------------------------
(***************************************************************************)
(* Proofs about SentinelScan, for every sentinel without a line feed or a  *)
(* carriage return, every output and every way it is cut into reads.       *)
(***************************************************************************)
EXTENDS SentinelScan, LeastNumber, SequenceTheorems

(***************************************************************************)
(* What the operators of the scan return.                                  *)
(***************************************************************************)

\* The rest of a sequence.
LEMMA FromIs ==
    ASSUME NEW s \in Seq(Bytes), NEW n \in 0 .. Len(s)
    PROVE  /\ From(s, n) \in Seq(Bytes) /\ Len(From(s, n)) = Len(s) - n
           /\ \A i \in 1 .. Len(s) - n : From(s, n)[i] = s[n + i]
<1>1. \A i \in n + 1 .. Len(s) : s[i] \in Bytes OBVIOUS
<1>2. QED BY <1>1, SubSeqProperties DEF From

\* Where a sequence ends with another, they agree byte by byte.
LEMMA EndsWithIs ==
    ASSUME NEW s \in Seq(Bytes), NEW t \in Seq(Bytes)
    PROVE  EndsWith(s, t) <=>
               Len(t) <= Len(s) /\ \A i \in 1 .. Len(t) : s[Len(s) - Len(t) + i] = t[i]
<1> SUFFICES ASSUME Len(t) <= Len(s)
             PROVE  SubSeq(s, Len(s) - Len(t) + 1, Len(s)) = t <=>
                        \A i \in 1 .. Len(t) : s[Len(s) - Len(t) + i] = t[i]
  BY DEF EndsWith
<1> DEFINE e == From(s, Len(s) - Len(t))
<1>1. /\ e \in Seq(Bytes) /\ Len(e) = Len(t)
      /\ \A i \in 1 .. Len(t) : e[i] = s[Len(s) - Len(t) + i]
  BY FromIs
<1>2. SubSeq(s, Len(s) - Len(t) + 1, Len(s)) = e BY DEF From
<1> HIDE DEF e
<1>3. (\A i \in 1 .. Len(t) : e[i] = t[i]) => e = t BY <1>1, SeqEqual
<1>4. QED BY <1>1, <1>2, <1>3

\* strings.TrimRight takes all the carriage returns at the end and nothing else.
LEMMA TrimmedIs ==
    ASSUME NEW s \in Seq(Bytes)
    PROVE  /\ Trimmed(s) \in Seq(Bytes) /\ Len(Trimmed(s)) <= Len(s)
           /\ Trimmed(s) = SubSeq(s, 1, Len(Trimmed(s)))
           /\ \A i \in 1 .. Len(Trimmed(s)) : Trimmed(s)[i] = s[i]
           /\ \A i \in Len(Trimmed(s)) + 1 .. Len(s) : s[i] = CR
           /\ Len(Trimmed(s)) > 0 => s[Len(Trimmed(s))] # CR
<1> DEFINE S == {n \in 0 .. Len(s) : \A i \in n + 1 .. Len(s) : s[i] = CR}
           P(n) == (\A i \in n + 1 .. Len(s) : s[i] = CR) /\ (n = 0 \/ s[n] # CR)
           c == CHOOSE n \in 0 .. Len(s) : P(n)
<1>1. PICK m \in S : \A k \in S : m <= k
  <2>1. S \in SUBSET Nat OBVIOUS
  <2>2. Len(s) \in S
    <3>1. Len(s) \in 0 .. Len(s) BY LenProperties
    <3>2. \A i \in Len(s) + 1 .. Len(s) : s[i] = CR BY LenProperties
    <3>3. QED BY <3>1, <3>2, Zenon
  <2>3. QED BY <2>1, <2>2, Least
<1>2. P(m)
  <2>1. ASSUME m # 0, s[m] = CR PROVE FALSE
    <3>1. m - 1 \in S BY <2>1
    <3>2. m <= m - 1
      <4> HIDE DEF S
      <4>1. QED BY <1>1, <3>1
    <3>3. m \in Nat OBVIOUS
    <3>4. QED BY <3>2, <3>3
  <2>2. QED BY <2>1
<1>3. c \in 0 .. Len(s) /\ P(c)
  <2>1. \E n \in 0 .. Len(s) : P(n) BY <1>2
  <2> HIDE DEF P
  <2>2. QED BY <2>1
<1>4. Trimmed(s) = SubSeq(s, 1, c) BY DEF Trimmed
<1> HIDE DEF c
<1>5. \A i \in 1 .. c : s[i] \in Bytes BY <1>3
<1>6. /\ Trimmed(s) \in Seq(Bytes) /\ Len(Trimmed(s)) = c
      /\ \A i \in 1 .. c : Trimmed(s)[i] = s[i]
  BY <1>3, <1>4, <1>5, SubSeqProperties
<1>7. QED BY <1>3, <1>4, <1>6

\* The beginnings of the sentinel.
LEMMA BeginIs ==
    ASSUME NEW k \in 0 .. Len(Sentinel)
    PROVE  /\ SubSeq(Sentinel, 1, k) \in Seq(Bytes) /\ Len(SubSeq(Sentinel, 1, k)) = k
           /\ \A i \in 1 .. k : SubSeq(Sentinel, 1, k)[i] = Sentinel[i]
<1>1. Sentinel \in Seq(Bytes) BY ScanAssumption, SeqMonotonic
<1>2. \A i \in 1 .. k : Sentinel[i] \in Bytes BY <1>1
<1>3. QED BY <1>1, <1>2, SubSeqProperties

\* The last k bytes of s are the first k of the sentinel.
Overlaps(s, k) ==
    k <= Len(s) /\ \A i \in 1 .. k : s[Len(s) - k + i] = Sentinel[i]

\* sentinelOverlap returns the largest overlap.
LEMMA OverlapIs ==
    ASSUME NEW s \in Seq(Bytes)
    PROVE  /\ Overlap(s) \in 0 .. Len(Sentinel) /\ Overlap(s) <= Len(s)
           /\ Overlaps(s, Overlap(s))
           /\ \A j \in 0 .. Len(Sentinel) : Overlaps(s, j) => j <= Overlap(s)
<1>1. Len(Sentinel) \in Nat BY ScanAssumption
<1>2. ASSUME NEW k \in 0 .. Len(Sentinel)
      PROVE  EndsWith(s, SubSeq(Sentinel, 1, k)) <=> Overlaps(s, k)
  <2>1. PICK b \in Seq(Bytes) :
            /\ b = SubSeq(Sentinel, 1, k) /\ Len(b) = k
            /\ \A i \in 1 .. k : b[i] = Sentinel[i]
    BY BeginIs
  <2>2. EndsWith(s, b) <=>
            Len(b) <= Len(s) /\ \A i \in 1 .. Len(b) : s[Len(s) - Len(b) + i] = b[i]
    BY EndsWithIs
  <2>3. QED BY <2>1, <2>2 DEF Overlaps
<1> DEFINE S == {k \in 0 .. Len(Sentinel) : Overlaps(s, k)}
           P(k) == /\ EndsWith(s, SubSeq(Sentinel, 1, k))
                   /\ \A j \in k + 1 .. Len(Sentinel) : ~EndsWith(s, SubSeq(Sentinel, 1, j))
<1>3. PICK m \in S : \A k \in S : k <= m
  <2>1. 0 \in S BY <1>1 DEF Overlaps
  <2>2. QED BY <1>1, <2>1, Greatest
<1>4. P(m) BY <1>1, <1>2, <1>3
<1>5. Overlap(s) = CHOOSE k \in 0 .. Len(Sentinel) : P(k) BY DEF Overlap
<1>6. Overlap(s) \in 0 .. Len(Sentinel) /\ P(Overlap(s))
  <2> HIDE DEF P
  <2>1. QED BY <1>4, <1>5
<1>7. Overlaps(s, Overlap(s)) BY <1>2, <1>6
<1>8. ASSUME NEW j \in 0 .. Len(Sentinel), Overlaps(s, j) PROVE j <= Overlap(s)
  BY <1>1, <1>2, <1>6, <1>8
<1>9. QED BY <1>6, <1>7, <1>8 DEF Overlaps

\* One byte more lets the overlap grow by one at most, so what may be emitted never
\* becomes less.
LEMMA OverlapGrows ==
    ASSUME NEW s \in Seq(Bytes), NEW b \in Bytes
    PROVE  Overlap(Append(s, b)) <= Overlap(s) + 1
<1> DEFINE a == Append(s, b)
           k == Overlap(a)
<1>1. a \in Seq(Bytes) /\ Len(a) = Len(s) + 1 /\ \A i \in 1 .. Len(s) : a[i] = s[i]
  BY AppendProperties
<1>2. k \in 0 .. Len(Sentinel) /\ Overlaps(a, k) BY <1>1, OverlapIs
<1>3. Overlap(s) \in 0 .. Len(Sentinel) BY OverlapIs
<1> HIDE DEF a, k
<1>4. CASE k = 0 BY <1>3, <1>4 DEF k, a
<1>5. CASE k > 0
  <2>1. Overlaps(s, k - 1)
    <3>1. k <= Len(s) + 1 /\ \A i \in 1 .. k : a[Len(s) + 1 - k + i] = Sentinel[i]
      BY <1>1, <1>2 DEF Overlaps
    <3>2. ASSUME NEW i \in 1 .. k - 1 PROVE s[Len(s) - (k - 1) + i] = Sentinel[i]
      <4>1. Len(s) - (k - 1) + i \in 1 .. Len(s) BY <1>2, <3>1
      <4>2. Len(s) - (k - 1) + i = Len(s) + 1 - k + i BY <1>2, <3>1
      <4>3. i \in 1 .. k BY <1>2
      <4>4. QED BY <1>1, <3>1, <4>1, <4>2, <4>3
    <3>3. QED BY <1>2, <3>1, <3>2 DEF Overlaps
  <2>2. k - 1 \in 0 .. Len(Sentinel) BY <1>2, <1>5
  <2>3. k - 1 <= Overlap(s) BY <2>1, <2>2, OverlapIs
  <2>4. QED BY <1>2, <1>3, <2>3 DEF k, a
<1>6. QED BY <1>2, <1>4, <1>5

\* A line that ends in the sentinel and in no carriage return overlaps it wholly.
LEMMA WholeOverlap ==
    ASSUME NEW s \in Seq(Bytes), Trimmed(s) = s, EndsWith(s, Sentinel)
    PROVE  Overlap(s) = Len(Sentinel)
<1>1. Sentinel \in Seq(Bytes) /\ Len(Sentinel) \in Nat BY ScanAssumption, SeqMonotonic
<1>2. Overlaps(s, Len(Sentinel)) BY <1>1, EndsWithIs DEF Overlaps
<1>3. QED BY <1>1, <1>2, OverlapIs

\* There is one way to trim a line.
LEMMA TrimmedTo ==
    ASSUME NEW s \in Seq(Bytes), NEW n \in 0 .. Len(s),
           \A i \in n + 1 .. Len(s) : s[i] = CR, n > 0 => s[n] # CR
    PROVE  Len(Trimmed(s)) = n
<1> DEFINE m == Len(Trimmed(s))
<1>1. /\ m \in Nat /\ m <= Len(s)
      /\ \A i \in m + 1 .. Len(s) : s[i] = CR
      /\ m > 0 => s[m] # CR
  BY TrimmedIs
<1> HIDE DEF m
<1>2. ASSUME m < n PROVE FALSE
  <2>1. n \in m + 1 .. Len(s) /\ n > 0 BY <1>1, <1>2
  <2>2. QED BY <1>1, <2>1
<1>3. ASSUME n < m PROVE FALSE
  <2>1. m \in n + 1 .. Len(s) /\ m > 0 BY <1>1, <1>3
  <2>2. QED BY <1>1, <2>1
<1>4. QED BY <1>1, <1>2, <1>3 DEF m

\* A carriage return after a line is trimmed off again, another byte is not.
LEMMA TrimmedAppend ==
    ASSUME NEW s \in Seq(Bytes), NEW b \in Bytes
    PROVE  IF b = CR THEN Trimmed(Append(s, b)) = Trimmed(s)
                     ELSE Trimmed(Append(s, b)) = Append(s, b)
<1>1. PICK a \in Seq(Bytes) : a = Append(s, b) BY AppendProperties
<1>2. /\ Len(a) = Len(s) + 1 /\ a[Len(s) + 1] = b
      /\ \A i \in 1 .. Len(s) : a[i] = s[i]
  BY <1>1, AppendProperties
<1>3. Trimmed(a) \in Seq(Bytes) /\ \A i \in 1 .. Len(Trimmed(a)) : Trimmed(a)[i] = a[i]
  BY TrimmedIs
<1>4. CASE b = CR
  <2>1. PICK m \in 0 .. Len(s) :
            /\ m = Len(Trimmed(s))
            /\ Trimmed(s) \in Seq(Bytes)
            /\ \A i \in 1 .. m : Trimmed(s)[i] = s[i]
            /\ \A i \in m + 1 .. Len(s) : s[i] = CR
            /\ m > 0 => s[m] # CR
    BY TrimmedIs
  <2>2. m \in 0 .. Len(a) BY <1>2
  <2>3. \A i \in m + 1 .. Len(a) : a[i] = CR BY <1>2, <1>4, <2>1
  <2>4. m > 0 => a[m] # CR BY <1>2, <2>1
  <2>5. Len(Trimmed(a)) = m BY <2>2, <2>3, <2>4, TrimmedTo
  <2>6. \A i \in 1 .. m : Trimmed(a)[i] = Trimmed(s)[i] BY <1>2, <1>3, <2>1, <2>5
  <2>7. Trimmed(a) = Trimmed(s) BY <1>3, <2>1, <2>5, <2>6, SeqEqual
  <2>8. QED BY <1>1, <1>4, <2>7
<1>5. CASE b # CR
  <2>1. Len(a) \in 0 .. Len(a) /\ Len(a) + 1 > Len(a) BY <1>2
  <2>2. Len(Trimmed(a)) = Len(a)
    <3>1. \A i \in Len(a) + 1 .. Len(a) : a[i] = CR BY <2>1
    <3>2. Len(a) > 0 => a[Len(a)] # CR BY <1>2, <1>5
    <3>3. QED BY <2>1, <3>1, <3>2, TrimmedTo
  <2>3. Trimmed(a) = a BY <1>3, <2>2, SeqEqual
  <2>4. QED BY <1>1, <1>5, <2>3
<1>6. QED BY <1>4, <1>5

-----------------------------------------------------------------------------
(***************************************************************************)
(* The inductive invariant.                                                *)
(***************************************************************************)

\* Nothing that may begin the sentinel has been emitted, and while a read is waited
\* for, all the rest has.
FlushedIsSafe ==
    at # "eof" => flushed <= Safe /\ (at = "read" => flushed = Safe)

\* Nothing of the sentinel has been emitted, unless a read has cut a carriage return
\* from the line feed after it.
NotPassed ==
    at \in {"bytes", "flush"} /\ ~cut /\ EndsWith(Trimmed(line), Sentinel) =>
        flushed <= Len(Trimmed(line)) - Len(Sentinel)

IInv == TypeOK /\ Conserved /\ FlushedIsSafe /\ NotPassed /\ FoundExactly

\* What is safe is part of the line.
LEMMA SafeIs ==
    TypeOK =>
        Safe \in 0 .. Len(line) /\ Len(Sentinel) \in Nat \ {0} /\ stream \in Seq(Bytes)
<1> SUFFICES ASSUME TypeOK
             PROVE  /\ Safe \in 0 .. Len(line) /\ Len(Sentinel) \in Nat \ {0}
                    /\ stream \in Seq(Bytes)
  OBVIOUS
<1>1. line \in Seq(Bytes) /\ stream \in Seq(Bytes) BY ScanAssumption DEF TypeOK
<1>2. Overlap(line) \in 0 .. Len(Sentinel) /\ Overlap(line) <= Len(line)
  BY <1>1, OverlapIs
<1>3. Len(line) \in Nat /\ Len(Sentinel) \in Nat \ {0}
  BY <1>1, ScanAssumption, EmptySeq, LenProperties
<1>4. QED BY <1>1, <1>2, <1>3 DEF Safe

\* What a sequence was continued from is its beginning.
LEMMA BeginningOfConcat ==
    ASSUME NEW s \in Seq(Bytes), NEW t \in Seq(Bytes)
    PROVE  SubSeq(s \o t, 1, Len(s)) = s
<1>1. CASE s = <<>>
  <2>1. Len(s) = 0 BY <1>1
  <2>2. QED BY <1>1, <2>1, SubSeqEmpty
<1>2. CASE s # <<>>
  <2>1. Len(s) \in 1 .. Len(s) /\ 1 \in 1 .. Len(s)
    <3>1. Len(s) \in Nat \ {0} BY <1>2, EmptySeq
    <3>2. QED BY <3>1
  <2>2. SubSeq(s \o t, 1, Len(s)) = SubSeq(s, 1, Len(s)) BY <2>1, SubSeqOfConcat1
  <2>3. QED BY <2>2, SubSeqFull
<1>3. QED BY <1>1, <1>2

\* A byte that has been taken is the last of what was taken.
LEMMA TakenGrows ==
    ASSUME TypeOK, TypeOK', taken < Len(stream), taken' = taken + 1, UNCHANGED stream
    PROVE  /\ Taken \in Seq(Bytes) /\ Len(Taken) = taken /\ Byte \in Bytes
           /\ Taken' = Taken \o <<Byte>> /\ Len(Taken') = taken + 1
<1>1. stream \in Seq(Bytes) /\ taken \in 0 .. Len(stream) BY SafeIs DEF TypeOK
<1>2. \A i \in 1 .. taken + 1 : stream[i] \in Bytes BY <1>1
<1>3. Taken \in Seq(Bytes) /\ Len(Taken) = taken /\ Byte \in Bytes
  BY <1>1, <1>2, SubSeqProperties DEF Taken, Byte
<1>4. Taken' = SubSeq(stream, 1, taken + 1) BY DEF Taken
<1>5. Taken' = Taken \o <<Byte>>
  <2>1. 1 \in 1 .. Len(stream) /\ taken + 1 \in 1 .. Len(stream) BY <1>1
  <2>2. SubSeq(stream, 1, taken + 1) = SubSeq(stream, 1, taken + 1 - 1) \o <<stream[taken + 1]>>
    BY <1>1, <2>1, SubSeqRecursiveSecond
  <2>3. taken + 1 - 1 = taken BY <1>1
  <2>4. QED BY <1>4, <2>2, <2>3 DEF Taken, Byte
<1>6. Len(Taken') = taken + 1 BY <1>1, <1>2, <1>4, SubSeqProperties
<1>7. QED BY <1>3, <1>5, <1>6

\* The bytes of a line from n on are those from n to m, and those from m on.
LEMMA FromSplit ==
    ASSUME NEW s \in Seq(Bytes), NEW m \in 0 .. Len(s), NEW n \in 0 .. m
    PROVE  /\ From(s, n) = SubSeq(s, n + 1, m) \o From(s, m)
           /\ SubSeq(s, n + 1, m) \in Seq(Bytes) /\ Len(SubSeq(s, n + 1, m)) = m - n
<1>1. /\ n + 1 \in 1 .. Len(s) + 1 /\ m \in (n + 1) - 1 .. Len(s) /\ Len(s) \in m .. Len(s)
  OBVIOUS
<1>2. SubSeq(s, n + 1, m) \o SubSeq(s, m + 1, Len(s)) = SubSeq(s, n + 1, Len(s))
  BY <1>1, ConcatAdjacentSubSeq
<1>3. \A i \in n + 1 .. m : s[i] \in Bytes OBVIOUS
<1>4. SubSeq(s, n + 1, m) \in Seq(Bytes) /\ Len(SubSeq(s, n + 1, m)) = m - n
  BY <1>3, SubSeqProperties
<1>5. QED BY <1>2, <1>4 DEF From

\* The bytes of a line from n on, when the line has got one byte more.
LEMMA FromAppend ==
    ASSUME NEW s \in Seq(Bytes), NEW b \in Bytes, NEW n \in 0 .. Len(s)
    PROVE  From(Append(s, b), n) = From(s, n) \o <<b>>
<1>1. PICK a \in Seq(Bytes) : a = Append(s, b) BY AppendProperties
<1>2. Len(a) = Len(s) + 1 /\ a[Len(s) + 1] = b /\ \A i \in 1 .. Len(s) : a[i] = s[i]
  BY <1>1, AppendProperties
<1>3. /\ From(a, n) \in Seq(Bytes) /\ Len(From(a, n)) = Len(s) + 1 - n
      /\ \A i \in 1 .. Len(s) + 1 - n : From(a, n)[i] = a[n + i]
  <2>1. n \in 0 .. Len(a) BY <1>2
  <2>2. /\ From(a, n) \in Seq(Bytes) /\ Len(From(a, n)) = Len(a) - n
        /\ \A i \in 1 .. Len(a) - n : From(a, n)[i] = a[n + i]
    BY <2>1, FromIs
  <2>3. QED BY <1>2, <2>2
<1>4. /\ From(s, n) \in Seq(Bytes) /\ Len(From(s, n)) = Len(s) - n
      /\ \A i \in 1 .. Len(s) - n : From(s, n)[i] = s[n + i]
  BY FromIs
<1>5. PICK f \in Seq(Bytes) : f = Append(From(s, n), b)
  BY <1>4, AppendProperties
<1>6. /\ Len(f) = Len(s) - n + 1
      /\ \A i \in 1 .. Len(s) - n : f[i] = s[n + i]
      /\ f[Len(s) - n + 1] = b
  <2>1. Len(s) - n \in Nat OBVIOUS
  <2>2. /\ Len(f) = Len(From(s, n)) + 1 /\ f[Len(From(s, n)) + 1] = b
        /\ \A i \in 1 .. Len(From(s, n)) : f[i] = From(s, n)[i]
    BY <1>4, <1>5, AppendProperties
  <2>3. QED BY <1>4, <2>1, <2>2
<1>7. ASSUME NEW i \in 1 .. Len(s) + 1 - n PROVE From(a, n)[i] = f[i]
  BY <1>2, <1>3, <1>6, SMTT(30)
<1>8. From(a, n) = f BY <1>3, <1>6, <1>7, SeqEqual
<1>9. QED BY <1>1, <1>4, <1>5, <1>8, AppendIsConcat

\* The empty line.
LEMMA EmptyLine ==
    /\ <<>> \in Seq(Bytes) /\ Len(<<>>) = 0 /\ Overlap(<<>>) = 0
    /\ From(<<>>, 0) = <<>> /\ ~EndsWith(Trimmed(<<>>), Sentinel)
<1>1. PICK e \in Seq(Bytes) : e = <<>> /\ Len(e) = 0 BY EmptySeq
<1>2. Overlap(e) = 0
  <2>1. Overlap(e) \in 0 .. Len(Sentinel) /\ Overlap(e) <= 0 BY <1>1, OverlapIs
  <2>2. QED BY <2>1
<1>3. From(e, 0) = <<>> BY <1>1, SubSeqEmpty DEF From
<1>4. ~EndsWith(Trimmed(e), Sentinel)
  <2>1. Trimmed(e) \in Seq(Bytes) /\ Len(Trimmed(e)) <= 0 BY <1>1, TrimmedIs
  <2>2. Len(Sentinel) > 0 BY ScanAssumption, EmptySeq, LenProperties
  <2>3. Len(Trimmed(e)) \in Nat /\ Len(Sentinel) \in Nat BY <2>1, ScanAssumption
  <2>4. QED BY <2>1, <2>2, <2>3 DEF EndsWith
<1>5. QED BY <1>1, <1>2, <1>3, <1>4

-----------------------------------------------------------------------------
(***************************************************************************)
(* Every step keeps it.                                                    *)
(***************************************************************************)

\* A scan begins with nothing read.
LEMMA InitHolds == Init => IInv
<1> SUFFICES ASSUME Init PROVE IInv OBVIOUS
<1>1. stream \in Seq(Bytes) BY ScanAssumption DEF Init
<1>2. TypeOK
  <2>1. Len(stream) \in Nat BY <1>1
  <2>2. 0 \in 0 .. Len(stream) /\ 0 \in 0 .. Len(stream) - 0 /\ 0 \in 0 .. 0 BY <2>1
  <2>3. QED BY <2>2, EmptyLine DEF Init, TypeOK
<1>3. Taken = <<>> BY SubSeqEmpty DEF Taken, Init
<1>4. Conserved
  <2>1. <<>> \o <<>> = <<>> BY EmptyLine, ConcatEmptySeq
  <2>2. QED BY <1>3, <2>1, EmptyLine DEF Init, Conserved
<1>5. FlushedIsSafe BY EmptyLine DEF Init, FlushedIsSafe, Safe
<1>6. NotPassed /\ FoundExactly BY DEF Init, NotPassed, FoundExactly
<1>7. QED BY <1>2, <1>4, <1>5, <1>6 DEF IInv

\* A read begins: it is cut behind a sentinel or everything of it is still held back.
LEMMA ReadHolds == ASSUME IInv, Read PROVE IInv'
<1> USE DEF IInv, Read
<1>1. TypeOK' BY DEF TypeOK
<1>2. Conserved' BY DEF Conserved, Taken
<1>3. FlushedIsSafe' BY DEF FlushedIsSafe, Safe
<1>4. NotPassed'
  <2>1. SUFFICES ASSUME EndsWith(Trimmed(line), Sentinel), ~EndsWith(line, <<CR>>)
                 PROVE  flushed <= Len(Trimmed(line)) - Len(Sentinel)
    BY DEF NotPassed
  <2>2. line \in Seq(Bytes) /\ Len(line) \in Nat BY DEF TypeOK
  <2>3. Trimmed(line) = line
    <3>1. /\ Trimmed(line) \in Seq(Bytes) /\ Len(Trimmed(line)) <= Len(line)
          /\ Trimmed(line) = SubSeq(line, 1, Len(Trimmed(line)))
          /\ \A i \in Len(Trimmed(line)) + 1 .. Len(line) : line[i] = CR
      BY <2>2, TrimmedIs
    <3>2. ASSUME Len(Trimmed(line)) < Len(line) PROVE FALSE
      <4>1. Len(line) > 0 /\ line[Len(line)] = CR BY <2>2, <3>1, <3>2
      <4>2. <<CR>> \in Seq(Bytes) /\ Len(<<CR>>) = 1 /\ <<CR>>[1] = CR BY ScanAssumption
      <4>3. \A i \in 1 .. 1 : line[Len(line) - 1 + i] = <<CR>>[i] BY <2>2, <4>1, <4>2
      <4>4. PICK c \in Seq(Bytes) : c = <<CR>> BY <4>2
      <4>5. Len(c) <= Len(line) /\ \A i \in 1 .. Len(c) : line[Len(line) - Len(c) + i] = c[i]
        BY <2>2, <4>1, <4>2, <4>3, <4>4
      <4>6. EndsWith(line, c) BY <2>2, <4>5, EndsWithIs
      <4>7. QED BY <2>1, <4>4, <4>6
    <3>3. Len(Trimmed(line)) = Len(line) BY <2>2, <3>1, <3>2
    <3>4. QED BY <2>2, <3>1, <3>3, SubSeqFull
  <2>4. Overlap(line) = Len(Sentinel) BY <2>1, <2>2, <2>3, WholeOverlap
  <2>5. flushed = Safe BY DEF FlushedIsSafe
  <2>6. QED BY <2>3, <2>4, <2>5 DEF Safe
<1>5. FoundExactly' BY DEF FoundExactly
<1>6. QED BY <1>1, <1>2, <1>3, <1>4, <1>5

\* A byte of a line: as it is held back at first, nothing that has been emitted can
\* belong to a sentinel it completes.
LEMMA CollectHolds == ASSUME IInv, Collect PROVE IInv'
<1> USE DEF IInv, Collect
<1>1. TypeOK'
  <2>1. taken < Len(stream) /\ stream \in Seq(Bytes) BY SafeIs DEF TypeOK
  <2>2. Byte \in Bytes BY <2>1 DEF TypeOK, Byte
  <2>3. Append(line, Byte) \in Seq(Bytes) /\ Len(Append(line, Byte)) = Len(line) + 1
    BY <2>2, AppendProperties DEF TypeOK
  <2>4. QED BY <2>1, <2>3 DEF TypeOK
<1>2. /\ taken < Len(stream) /\ line \in Seq(Bytes) /\ flushed \in 0 .. Len(line)
      /\ out \in Seq(Bytes)
  BY SafeIs DEF TypeOK
<1>3. Taken \in Seq(Bytes) /\ Byte \in Bytes /\ Taken' = Taken \o <<Byte>>
  BY <1>1, <1>2, TakenGrows
<1>4. Conserved'
  <2>1. From(line', flushed') = From(line, flushed) \o <<Byte>> BY <1>2, <1>3, FromAppend
  <2>2. From(line, flushed) \in Seq(Bytes) BY <1>2, FromIs
  <2>3. out \o (From(line, flushed) \o <<Byte>>) = (out \o From(line, flushed)) \o <<Byte>>
    <3>1. <<Byte>> \in Seq(Bytes) BY <1>3
    <3>2. QED BY <1>2, <2>2, <3>1, ConcatAssociative
  <2>4. QED BY <1>3, <2>1, <2>3 DEF Conserved
<1>5. Safe <= Safe'
  <2>1. Overlap(line') <= Overlap(line) + 1 BY <1>2, <1>3, OverlapGrows
  <2>2. Len(line') = Len(line) + 1 /\ line' \in Seq(Bytes) BY <1>2, <1>3, AppendProperties
  <2>3. Overlap(line) \in Nat /\ Overlap(line') \in Nat
    <3>1. Overlap(line) \in 0 .. Len(Sentinel) /\ Overlap(line') \in 0 .. Len(Sentinel)
      BY <1>2, <2>2, OverlapIs
    <3>2. QED BY <3>1
  <2>4. QED BY <1>2, <2>1, <2>2, <2>3 DEF Safe
<1>6. Safe \in Nat /\ Safe' \in Int /\ Len(Sentinel) \in Nat
  <2>1. (Safe \in 0 .. Len(line))'
    <3>1. (TypeOK => /\ Safe \in 0 .. Len(line) /\ Len(Sentinel) \in Nat \ {0}
                     /\ stream \in Seq(Bytes))'
      BY SafeIs, PTL
    <3>2. QED BY <1>1, <3>1
  <2>2. QED BY <2>1, SafeIs DEF TypeOK
<1>7. FlushedIsSafe' BY <1>2, <1>5, <1>6 DEF FlushedIsSafe
<1>8. NotPassed'
  <2>1. SUFFICES ASSUME ~cut, EndsWith(Trimmed(line'), Sentinel)
                 PROVE  flushed <= Len(Trimmed(line')) - Len(Sentinel)
    BY DEF NotPassed
  <2>2. CASE Byte = CR
    <3>1. Trimmed(line') = Trimmed(line) BY <1>2, <1>3, <2>2, TrimmedAppend
    <3>2. QED BY <2>1, <3>1 DEF NotPassed
  <2>3. CASE Byte # CR
    <3>1. Trimmed(line') = line' /\ line' \in Seq(Bytes)
      BY <1>2, <1>3, <2>3, TrimmedAppend, AppendProperties
    <3>2. Overlap(line') = Len(Sentinel) BY <2>1, <3>1, WholeOverlap
    <3>3. flushed <= Safe' BY <1>7 DEF FlushedIsSafe
    <3>4. QED BY <3>1, <3>2, <3>3 DEF Safe
  <2>4. QED BY <2>2, <2>3
<1>9. FoundExactly' BY DEF FoundExactly
<1>10. QED BY <1>1, <1>4, <1>7, <1>8, <1>9

\* The end of a line: what is left of it and the line feed are what was read last.
LEMMA EmitLineHolds == ASSUME IInv, EmitLine PROVE IInv'
<1> USE DEF IInv, EmitLine
<1>1. /\ taken < Len(stream) /\ line \in Seq(Bytes) /\ flushed \in 0 .. Len(line)
      /\ out \in Seq(Bytes) /\ stream \in Seq(Bytes)
  BY SafeIs DEF TypeOK
<1>2. From(line, flushed) \in Seq(Bytes) BY <1>1, FromIs
<1>3. <<NL>> \in Seq(Bytes) BY ScanAssumption
<1>4. out' \in Seq(Bytes) /\ out' = (out \o From(line, flushed)) \o <<NL>>
  BY <1>1, <1>2, <1>3, ConcatProperties, ConcatAssociative
<1>5. TypeOK' BY <1>1, <1>4, EmptyLine DEF TypeOK
<1>6. Taken' = Taken \o <<NL>> BY <1>1, <1>5, TakenGrows
<1>7. Conserved'
  <2>1. out' \o <<>> = out' BY <1>4, ConcatEmptySeq
  <2>2. From(line', flushed') = <<>> BY EmptyLine
  <2>3. QED BY <1>4, <1>6, <2>1, <2>2 DEF Conserved
<1>8. FlushedIsSafe' BY EmptyLine DEF FlushedIsSafe, Safe
<1>9. NotPassed' BY EmptyLine DEF NotPassed
<1>10. FoundExactly' BY DEF FoundExactly
<1>11. QED BY <1>5, <1>7, <1>8, <1>9, <1>10

\* The sentinel: what was emitted ends before it, and the rest up to it is added.
LEMMA FoundHolds == ASSUME IInv, Found PROVE IInv'
<1>1. /\ taken \in Nat /\ taken < Len(stream) /\ line \in Seq(Bytes)
      /\ flushed \in 0 .. Len(line) /\ out \in Seq(Bytes) /\ stream \in Seq(Bytes)
      /\ Len(Sentinel) \in Nat /\ Len(line) \in Nat
  BY SafeIs DEF IInv, Found, TypeOK
<1>2. PICK n \in 0 .. Len(line) : n = Len(Trimmed(line))
  <2>1. Trimmed(line) \in Seq(Bytes) /\ Len(Trimmed(line)) <= Len(line) BY <1>1, TrimmedIs
  <2>2. Len(Trimmed(line)) \in Nat BY <2>1
  <2>3. QED BY <1>1, <2>1, <2>2
<1>3. PICK m \in 0 .. n : m = n - Len(Sentinel)
  <2>1. Len(Sentinel) <= n BY <1>2 DEF Found, EndsWith
  <2>2. n - Len(Sentinel) \in 0 .. n BY <1>1, <2>1
  <2>3. QED BY <2>2, Zenon
<1>4. out' = out \o SubSeq(line, flushed + 1, m) BY <1>2, <1>3 DEF Found
<1>5. TypeOK'
  <2>1. \A i \in flushed + 1 .. m : line[i] \in Bytes BY <1>1
  <2>2. SubSeq(line, flushed + 1, m) \in Seq(Bytes) BY <1>1, <2>1, SubSeqProperties
  <2>3. out' \in Seq(Bytes) BY <1>1, <1>4, <2>2, ConcatProperties
  <2>4. QED BY <1>1, <2>3 DEF IInv, Found, TypeOK
<1>6. /\ Taken \in Seq(Bytes) /\ Len(Taken) = taken /\ Byte \in Bytes
      /\ Taken' = Taken \o <<Byte>> /\ Len(Taken') = taken + 1
  <2>1. taken' = taken + 1 /\ UNCHANGED stream BY DEF Found
  <2>2. QED BY <1>1, <1>5, <2>1, TakenGrows DEF IInv
<1>7. ASSUME ~cut PROVE out' = SubSeq(Taken', 1, taken - (Len(line) - n) - Len(Sentinel))
  <2>1. flushed \in 0 .. m
    <3>1. flushed <= m BY <1>2, <1>3, <1>7 DEF IInv, Found, NotPassed
    <3>2. QED BY <1>1, <3>1
  <2>2. PICK mid \in Seq(Bytes), rest \in Seq(Bytes) :
            /\ mid = SubSeq(line, flushed + 1, m) /\ rest = From(line, m)
            /\ From(line, flushed) = mid \o rest /\ Len(rest) = Len(line) - m
    <3>1. m \in 0 .. Len(line) OBVIOUS
    <3>2. From(line, m) \in Seq(Bytes) /\ Len(From(line, m)) = Len(line) - m
      BY <1>1, <3>1, FromIs
    <3>3. /\ From(line, flushed) = SubSeq(line, flushed + 1, m) \o From(line, m)
          /\ SubSeq(line, flushed + 1, m) \in Seq(Bytes)
      BY <1>1, <2>1, <3>1, FromSplit
    <3>4. QED BY <3>2, <3>3
  <2>3. out' = out \o mid /\ out' \in Seq(Bytes) BY <1>1, <1>4, <2>2, ConcatProperties
  <2>4. Taken = out' \o rest
    <3>1. Taken = out \o (mid \o rest) BY <2>2 DEF IInv, Found, Conserved
    <3>2. (out \o mid) \o rest = out \o (mid \o rest)
      <4>1. out \in Seq(Bytes) BY <1>1
      <4>2. QED
        BY ONLY <4>1, mid \in Seq(Bytes), rest \in Seq(Bytes), ConcatAssociative
    <3>3. QED BY <2>3, <3>1, <3>2
  <2>5. Len(out') = taken - (Len(line) - n) - Len(Sentinel)
    <3>1. Len(out') + Len(rest) = taken BY <1>6, <2>3, <2>4, ConcatProperties
    <3>2. Len(out') \in Nat BY <2>3
    <3>3. Len(out') + (Len(line) - m) = taken BY <2>2, <3>1
    <3>4. QED BY <1>1, <1>3, <3>2, <3>3
  <2>6. SubSeq(Taken', 1, Len(out')) = out'
    <3>1. <<Byte>> \in Seq(Bytes) BY <1>6
    <3>2. Taken' = out' \o (rest \o <<Byte>>)
      BY <1>6, <2>3, <2>4, <3>1, ConcatAssociative, SMTT(30)
    <3>3. rest \o <<Byte>> \in Seq(Bytes) BY <3>1, ConcatProperties
    <3>4. QED BY <2>3, <3>2, <3>3, BeginningOfConcat
  <2>7. QED BY <2>5, <2>6
<1>8. FoundExactly'
  <2>1. Len(Taken') - 1 = taken BY <1>1, <1>6
  <2>2. Len(Taken') - 1 - (Len(line) - Len(Trimmed(line))) - Len(Sentinel)
            = taken - (Len(line) - n) - Len(Sentinel)
    BY <1>2, <2>1
  <2>3. line' = line /\ cut' = cut BY DEF Found
  <2>4. QED BY <1>7, <2>2, <2>3 DEF FoundExactly
<1>9. Conserved' /\ NotPassed' BY DEF Found, Conserved, NotPassed
<1>10. FlushedIsSafe' BY DEF IInv, Found, FlushedIsSafe, Safe
<1>11. QED BY <1>5, <1>8, <1>9, <1>10 DEF IInv

\* A read has been looked at.
LEMMA ChunkDoneHolds == ASSUME IInv, ChunkDone PROVE IInv'
BY DEF IInv, ChunkDone, TypeOK, Conserved, Taken, FlushedIsSafe, Safe, NotPassed, FoundExactly

\* All that is safe is emitted.
LEMMA FlushHolds == ASSUME IInv, Flush PROVE IInv'
<1>1. /\ line \in Seq(Bytes) /\ flushed \in 0 .. Len(line) /\ out \in Seq(Bytes)
      /\ Len(line) \in Nat
  BY SafeIs DEF IInv, TypeOK
<1>2. PICK m \in 0 .. Len(line) : m = Safe BY SafeIs DEF IInv
<1>3. flushed \in 0 .. m
  <2>1. flushed <= m BY <1>2 DEF IInv, Flush, FlushedIsSafe
  <2>2. QED BY <1>1, <2>1
<1>4. PICK mid \in Seq(Bytes), rest \in Seq(Bytes) :
          /\ mid = SubSeq(line, flushed + 1, m) /\ rest = From(line, m)
          /\ From(line, flushed) = mid \o rest
  <2>1. From(line, m) \in Seq(Bytes) BY <1>1, FromIs
  <2>2. /\ From(line, flushed) = SubSeq(line, flushed + 1, m) \o From(line, m)
        /\ SubSeq(line, flushed + 1, m) \in Seq(Bytes)
    BY <1>1, <1>3, FromSplit
  <2>3. QED BY <2>1, <2>2
<1>5. out' = out \o mid /\ flushed' = m
  <2>1. CASE m > flushed
    <3>1. ~(m <= flushed) BY <1>3, <2>1
    <3>2. QED BY <1>2, <1>4, <2>1, <3>1 DEF Flush
  <2>2. CASE m <= flushed
    <3>1. mid = <<>> BY <1>3, <1>4, <2>2, SubSeqEmpty
    <3>2. out \o mid = out BY <1>1, <3>1, ConcatEmptySeq
    <3>3. m = flushed BY <1>3, <2>2
    <3>4. ~(m > flushed) BY <3>3
    <3>5. out' = out /\ flushed' = flushed BY <1>2, <3>4 DEF Flush
    <3>6. QED BY <3>2, <3>3, <3>5
  <2>3. QED BY <1>3, <2>1, <2>2
<1>6. TypeOK'
  <2>1. out' \in Seq(Bytes) BY <1>1, <1>4, <1>5, ConcatProperties
  <2>2. QED BY <1>1, <1>5, <2>1 DEF IInv, Flush, TypeOK
<1>7. Conserved'
  <2>1. out' \o rest = out \o (mid \o rest) BY <1>1, <1>5, ConcatAssociative, SMTT(30)
  <2>2. out' \o From(line, flushed') = Taken
    BY <1>4, <1>5, <2>1 DEF IInv, Flush, Conserved
  <2>3. QED BY <2>2 DEF Flush, Conserved, Taken
<1>8. FlushedIsSafe'
  <2>1. Safe' = Safe BY DEF Flush, Safe
  <2>2. QED BY <1>2, <1>5, <2>1 DEF FlushedIsSafe
<1>9. NotPassed' /\ FoundExactly' BY DEF Flush, NotPassed, FoundExactly
<1>10. QED BY <1>6, <1>7, <1>8, <1>9 DEF IInv

\* The output has ended.
LEMMA EofHolds == ASSUME IInv, Eof PROVE IInv'
<1> USE DEF IInv, Eof
<1>1. /\ line \in Seq(Bytes) /\ flushed \in 0 .. Len(line) /\ out \in Seq(Bytes)
      /\ Len(line) \in Nat /\ stream \in Seq(Bytes)
  BY SafeIs DEF TypeOK
<1>2. out' \in Seq(Bytes)
  <2>1. From(line, flushed) \in Seq(Bytes) BY <1>1, FromIs
  <2>2. QED BY <1>1, <2>1, ConcatProperties
<1>3. TypeOK' BY <1>1, <1>2 DEF TypeOK
<1>4. out' = Taken /\ Taken = stream
  <2>1. Taken = stream BY <1>1, SubSeqFull DEF Taken
  <2>2. QED BY <2>1 DEF Conserved
<1>5. Conserved'
  <2>1. From(line, Len(line)) = <<>> BY <1>1, SubSeqEmpty DEF From
  <2>2. out' \o <<>> = out' BY <1>2, ConcatEmptySeq
  <2>3. Taken' = Taken BY DEF Taken
  <2>4. QED BY <1>4, <2>1, <2>2, <2>3 DEF Conserved
<1>6. FlushedIsSafe' /\ NotPassed' /\ FoundExactly'
  BY DEF FlushedIsSafe, NotPassed, FoundExactly
<1>7. QED BY <1>3, <1>5, <1>6

\* Every step keeps the invariant.
LEMMA StepHolds == IInv /\ [Next]_vars => IInv'
<1> SUFFICES ASSUME IInv, [Next]_vars PROVE IInv'
  OBVIOUS
<1>1. CASE UNCHANGED vars
  BY <1>1
     DEF vars, IInv, TypeOK, Conserved, Taken, FlushedIsSafe, Safe, NotPassed, FoundExactly
<1>2. QED
  BY <1>1, ReadHolds, CollectHolds, EmitLineHolds, FoundHolds, ChunkDoneHolds, FlushHolds,
     EofHolds DEF Next

-----------------------------------------------------------------------------
(***************************************************************************)
(* The properties.                                                         *)
(***************************************************************************)

\* The invariant holds in every state of scanToSentinel (session.go:318).
THEOREM Invariance == Spec => []IInv
<1>1. QED BY InitHolds, StepHolds, PTL DEF Spec

\* The variables of the scan keep their types: never is more emitted of a line than it
\* has, or more taken of a read than it brought.
THEOREM TypeCorrect == Spec => []TypeOK
<1>1. IInv => TypeOK BY DEF IInv
<1>2. QED BY <1>1, Invariance, PTL

\* No byte of the output is lost, repeated or reordered before the sentinel.
THEOREM NothingIsLost == Spec => []Conserved
<1>1. IInv => Conserved BY DEF IInv
<1>2. QED BY <1>1, Invariance, PTL

\* What is held back while the next read is waited for may begin the sentinel.
THEOREM NothingIsHeldBack == Spec => []HeldBackMayBegin
<1>1. IInv => HeldBackMayBegin
  <2> SUFFICES ASSUME IInv, at = "read" PROVE HeldBackMayBegin
    BY DEF HeldBackMayBegin
  <2> DEFINE k == Overlap(line)
             held == From(line, flushed)
  <2>1. line \in Seq(Bytes) /\ flushed \in 0 .. Len(line) /\ flushed = Len(line) - k
        /\ Len(line) \in Nat
    BY SafeIs DEF IInv, TypeOK, FlushedIsSafe, Safe
  <2>2. k \in 0 .. Len(Sentinel) /\ Overlaps(line, k) BY <2>1, OverlapIs
  <2>3. k \in Nat /\ Len(line) - flushed = k BY <2>1, <2>2
  <2>4. /\ held \in Seq(Bytes) /\ Len(held) = Len(line) - flushed
        /\ \A i \in 1 .. Len(line) - flushed : held[i] = line[flushed + i]
    BY <2>1, FromIs
  <2> HIDE DEF k, held
  <2>5. /\ SubSeq(Sentinel, 1, k) \in Seq(Bytes) /\ Len(SubSeq(Sentinel, 1, k)) = k
        /\ \A i \in 1 .. k : SubSeq(Sentinel, 1, k)[i] = Sentinel[i]
    BY <2>2, BeginIs
  <2>6. ASSUME NEW i \in 1 .. k PROVE held[i] = SubSeq(Sentinel, 1, k)[i]
    <3>1. line[Len(line) - k + i] = Sentinel[i] BY <2>2 DEF Overlaps
    <3>2. held[i] = line[Len(line) - k + i] BY <2>1, <2>3, <2>4
    <3>3. QED BY <2>5, <3>1, <3>2
  <2>7. held = SubSeq(Sentinel, 1, k) BY <2>3, <2>4, <2>5, <2>6, SeqEqual
  <2>8. QED BY <2>2, <2>7 DEF HeldBackMayBegin, held
<1>2. QED BY <1>1, Invariance, PTL

\* What the client was sent when the sentinel is found is the output before it.
THEOREM OutputIsExact == Spec => []FoundExactly
<1>1. IInv => FoundExactly BY DEF IInv
<1>2. QED BY <1>1, Invariance, PTL
==============================================================================
