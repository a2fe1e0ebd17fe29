------------------------- MODULE CommandLineProofs --------------------------
(***************************************************************************)
(* Proofs about CommandLine, for lines of any length: a line that has the  *)
(* form of the usage and means one thing is taken apart into its parts,    *)
(* and the verbs and a label reach the session that an eval has created.   *)
(***************************************************************************)
EXTENDS CommandLine, LeastNumber, SequenceTheorems

\* A set of sequences that holds the empty one, and with a sequence all that are one
\* longer, holds them all.
LEMMA SeqInduction ==
    ASSUME NEW T, NEW S \in SUBSET Seq(T),
           <<>> \in S, \A s \in S, t \in T : Append(s, t) \in S
    PROVE  S = Seq(T)
<1> DEFINE L == {n \in Nat : \E s \in Seq(T) \ S : Len(s) = n}
<1>1. SUFFICES ASSUME L # {} PROVE FALSE
  <2>1. \A s \in Seq(T) : Len(s) \in Nat OBVIOUS
  <2>2. QED BY <1>1, <2>1
<1>2. PICK m \in L : \A k \in L : m <= k
  <2>1. L \in SUBSET Nat OBVIOUS
  <2> HIDE DEF L
  <2>2. QED BY <1>1, <2>1, Least
<1>3. PICK s \in Seq(T) \ S : Len(s) = m BY <1>2
<1>4. s # <<>> BY <1>3
<1>5. PICK h \in Seq(T), t \in T : s = Append(h, t)
  BY <1>3, <1>4, SequenceEmptyOrAppend
<1>6. Len(h) \in Nat /\ m = Len(h) + 1
  BY <1>3, <1>5, AppendProperties, LenProperties
<1>7. Len(h) \notin L
  <2>1. m \in Nat /\ ~(m <= Len(h)) BY <1>6
  <2> HIDE DEF L
  <2>2. QED BY <1>2, <2>1
<1>8. h \in S BY <1>5, <1>6, <1>7
<1>9. QED BY <1>3, <1>5, <1>8

-----------------------------------------------------------------------------
(***************************************************************************)
(* The loops of parseArgs and parseTarget.                                 *)
(***************************************************************************)

\* f holds what the loop has after each argument.
Reads(f, p, args) ==
    f = [n \in 0 .. Len(args) |-> IF n = 0 THEN p ELSE Step(f[n - 1], args[n])]

\* There is one way to go through the arguments.
LEMMA ReadsOnce ==
    ASSUME NEW p, NEW T, NEW s \in Seq(T), NEW f, NEW g, Reads(f, p, s), Reads(g, p, s)
    PROVE  f = g
<1> DEFINE D == {n \in 0 .. Len(s) : f[n] # g[n]}
<1>1. D = {}
  <2>1. SUFFICES ASSUME D # {} PROVE FALSE OBVIOUS
  <2>2. PICK m \in D : \A k \in D : m <= k
    <3>1. D \in SUBSET Nat OBVIOUS
    <3> HIDE DEF D
    <3>2. QED BY <2>1, <3>1, Least
  <2>3. m \in 0 .. Len(s) /\ f[m] # g[m] OBVIOUS
  <2>4. m # 0 BY <2>3 DEF Reads
  <2>5. m - 1 \in 0 .. Len(s) /\ ~(m <= m - 1) BY <2>3, <2>4
  <2>6. m - 1 \notin D
    <3> HIDE DEF D
    <3>1. QED BY <2>2, <2>5
  <2>7. f[m - 1] = g[m - 1] BY <2>5, <2>6
  <2>8. QED BY <2>3, <2>4, <2>7 DEF Reads
<1>2. QED BY <1>1 DEF Reads

\* What the loop has in the end, if there is a way to go through the arguments.
LEMMA ReadFromIs ==
    ASSUME NEW p, NEW T, NEW s \in Seq(T), NEW f, Reads(f, p, s)
    PROVE  ReadFrom(p, s) = f[Len(s)]
<1> DEFINE c == CHOOSE g : Reads(g, p, s)
<1>1. Reads(c, p, s) OBVIOUS
<1>2. c = f BY <1>1, ReadsOnce
<1>3. QED BY <1>2 DEF ReadFrom, Reads

\* One more argument.
LEMMA ReadsMore ==
    ASSUME NEW p, NEW T, NEW s \in Seq(T), NEW t \in T, NEW f, Reads(f, p, s)
    PROVE  \E g : Reads(g, p, Append(s, t)) /\ g[Len(s) + 1] = Step(f[Len(s)], t)
<1> DEFINE n == Len(s)
           g == [i \in 0 .. n + 1 |-> IF i <= n THEN f[i] ELSE Step(f[n], t)]
<1>1. n \in Nat /\ Len(Append(s, t)) = n + 1
      /\ Append(s, t)[n + 1] = t /\ \A i \in 1 .. n : Append(s, t)[i] = s[i]
  OBVIOUS
<1>2. ASSUME NEW i \in 0 .. n + 1
      PROVE  g[i] = IF i = 0 THEN p ELSE Step(g[i - 1], Append(s, t)[i])
  <2>1. CASE i = 0 BY <1>1, <2>1 DEF Reads
  <2>2. CASE i \in 1 .. n
    <3>1. g[i] = f[i] /\ g[i - 1] = f[i - 1] BY <1>1, <2>2
    <3>2. f[i] = Step(f[i - 1], s[i]) BY <1>1, <2>2 DEF Reads
    <3>3. QED BY <1>1, <2>2, <3>1, <3>2
  <2>3. CASE i = n + 1
    <3>1. g[i] = Step(f[n], t) /\ g[i - 1] = f[n] BY <1>1, <2>3
    <3>2. QED BY <1>1, <2>3, <3>1
  <2>4. QED BY <1>1, <2>1, <2>2, <2>3
<1>3. Reads(g, p, Append(s, t)) BY <1>1, <1>2 DEF Reads
<1>4. QED BY <1>1, <1>3

\* Without arguments nothing is done.
LEMMA ReadNone ==
    ASSUME NEW p
    PROVE  ReadFrom(p, <<>>) = p /\ \E f : Reads(f, p, <<>>)
<1> DEFINE R(f) == [n \in 0 .. 0 |-> IF n = 0 THEN p ELSE Step(f[n - 1], <<>>[n])]
           e == [n \in 0 .. 0 |-> p]
<1>1. \A f : R(f) = e OBVIOUS
<1>2. Len(<<>>) = 0 /\ <<>> \in Seq({}) OBVIOUS
<1>3. Reads(e, p, <<>>) BY <1>1, <1>2 DEF Reads
<1>4. QED BY <1>2, <1>3, ReadFromIs

\* The loop goes through any arguments, one after the other.
LEMMA ReadMore ==
    ASSUME NEW p, NEW T, NEW s \in Seq(T), NEW t \in T
    PROVE  ReadFrom(p, Append(s, t)) = Step(ReadFrom(p, s), t)
<1> DEFINE S == {u \in Seq(T) : \E f : Reads(f, p, u)}
<1>1. <<>> \in S
  <2>1. <<>> \in Seq(T) OBVIOUS
  <2>2. \E f : Reads(f, p, <<>>) BY ReadNone
  <2>3. QED BY <2>1, <2>2
<1>2. ASSUME NEW u \in S, NEW v \in T PROVE Append(u, v) \in S
  BY <1>2, ReadsMore
<1>3. S = Seq(T)
  <2>1. S \in SUBSET Seq(T) OBVIOUS
  <2> HIDE DEF S
  <2>2. QED BY <1>1, <1>2, <2>1, SeqInduction
<1>4. PICK f : Reads(f, p, s) BY <1>3
<1>5. PICK g : Reads(g, p, Append(s, t)) /\ g[Len(s) + 1] = Step(f[Len(s)], t)
  BY <1>4, ReadsMore
<1>6. ReadFrom(p, s) = f[Len(s)] BY <1>4, ReadFromIs
<1>7. Append(s, t) \in Seq(T) /\ Len(Append(s, t)) = Len(s) + 1 OBVIOUS
<1>8. ReadFrom(p, Append(s, t)) = g[Len(s) + 1] BY <1>5, <1>7, ReadFromIs
<1>9. QED BY <1>5, <1>6, <1>8

\* Some arguments, and then others.
LEMMA ReadOn ==
    ASSUME NEW p, NEW T, NEW s \in Seq(T), NEW u \in Seq(T)
    PROVE  ReadFrom(p, s \o u) = ReadFrom(ReadFrom(p, s), u)
<1> DEFINE S == {v \in Seq(T) : ReadFrom(p, s \o v) = ReadFrom(ReadFrom(p, s), v)}
<1>1. <<>> \in S
  <2>1. s \o <<>> = s OBVIOUS
  <2>2. ReadFrom(ReadFrom(p, s), <<>>) = ReadFrom(p, s) BY ReadNone
  <2>3. <<>> \in Seq(T) OBVIOUS
  <2>4. QED BY <2>1, <2>2, <2>3
<1>2. ASSUME NEW v \in S, NEW t \in T PROVE Append(v, t) \in S
  <2>1. v \in Seq(T) /\ ReadFrom(p, s \o v) = ReadFrom(ReadFrom(p, s), v) OBVIOUS
  <2>2. Append(v, t) \in Seq(T) /\ s \o v \in Seq(T)
        /\ s \o Append(v, t) = Append(s \o v, t)
    BY <2>1
  <2>3. ReadFrom(p, Append(s \o v, t)) = Step(ReadFrom(p, s \o v), t)
    <3>1. PICK w \in Seq(T) : w = s \o v BY <2>2
    <3>2. ReadFrom(p, Append(w, t)) = Step(ReadFrom(p, w), t) BY ReadMore
    <3>3. QED BY <3>1, <3>2
  <2>4. ReadFrom(ReadFrom(p, s), Append(v, t)) = Step(ReadFrom(ReadFrom(p, s), v), t)
    BY <2>1, ReadMore
  <2>5. QED BY <2>1, <2>2, <2>3, <2>4
<1>3. S = Seq(T)
  <2>1. S \in SUBSET Seq(T) OBVIOUS
  <2> HIDE DEF S
  <2>2. QED BY <1>1, <1>2, <2>1, SeqInduction
<1>4. QED BY <1>3

\* f holds what parseTarget's loop has after each argument.
Aims(f, p, args) ==
    f = [n \in 0 .. Len(args) |-> IF n = 0 THEN p ELSE TargetStep(f[n - 1], args[n])]

\* The same of parseTarget's loop.
LEMMA AimsOnce ==
    ASSUME NEW p, NEW T, NEW s \in Seq(T), NEW f, NEW g, Aims(f, p, s), Aims(g, p, s)
    PROVE  f = g
<1> DEFINE D == {n \in 0 .. Len(s) : f[n] # g[n]}
<1>1. D = {}
  <2>1. SUFFICES ASSUME D # {} PROVE FALSE OBVIOUS
  <2>2. PICK m \in D : \A k \in D : m <= k
    <3>1. D \in SUBSET Nat OBVIOUS
    <3> HIDE DEF D
    <3>2. QED BY <2>1, <3>1, Least
  <2>3. m \in 0 .. Len(s) /\ f[m] # g[m] OBVIOUS
  <2>4. m # 0 BY <2>3 DEF Aims
  <2>5. m - 1 \in 0 .. Len(s) /\ ~(m <= m - 1) BY <2>3, <2>4
  <2>6. m - 1 \notin D
    <3> HIDE DEF D
    <3>1. QED BY <2>2, <2>5
  <2>7. f[m - 1] = g[m - 1] BY <2>5, <2>6
  <2>8. QED BY <2>3, <2>4, <2>7 DEF Aims
<1>2. QED BY <1>1 DEF Aims

\* The same of parseTarget's loop.
LEMMA AimFromIs ==
    ASSUME NEW p, NEW T, NEW s \in Seq(T), NEW f, Aims(f, p, s)
    PROVE  AimFrom(p, s) = f[Len(s)]
<1> DEFINE c == CHOOSE g : Aims(g, p, s)
<1>1. Aims(c, p, s) OBVIOUS
<1>2. c = f BY <1>1, AimsOnce
<1>3. QED BY <1>2 DEF AimFrom, Aims

\* The same of parseTarget's loop.
LEMMA AimsMore ==
    ASSUME NEW p, NEW T, NEW s \in Seq(T), NEW t \in T, NEW f, Aims(f, p, s)
    PROVE  \E g : Aims(g, p, Append(s, t)) /\ g[Len(s) + 1] = TargetStep(f[Len(s)], t)
<1> DEFINE n == Len(s)
           g == [i \in 0 .. n + 1 |-> IF i <= n THEN f[i] ELSE TargetStep(f[n], t)]
<1>1. n \in Nat /\ Len(Append(s, t)) = n + 1
      /\ Append(s, t)[n + 1] = t /\ \A i \in 1 .. n : Append(s, t)[i] = s[i]
  OBVIOUS
<1>2. ASSUME NEW i \in 0 .. n + 1
      PROVE  g[i] = IF i = 0 THEN p ELSE TargetStep(g[i - 1], Append(s, t)[i])
  <2>1. CASE i = 0 BY <1>1, <2>1 DEF Aims
  <2>2. CASE i \in 1 .. n
    <3>1. g[i] = f[i] /\ g[i - 1] = f[i - 1] BY <1>1, <2>2
    <3>2. f[i] = TargetStep(f[i - 1], s[i]) BY <1>1, <2>2 DEF Aims
    <3>3. QED BY <1>1, <2>2, <3>1, <3>2
  <2>3. CASE i = n + 1
    <3>1. g[i] = TargetStep(f[n], t) /\ g[i - 1] = f[n] BY <1>1, <2>3
    <3>2. QED BY <1>1, <2>3, <3>1
  <2>4. QED BY <1>1, <2>1, <2>2, <2>3
<1>3. Aims(g, p, Append(s, t)) BY <1>1, <1>2 DEF Aims
<1>4. QED BY <1>1, <1>3

\* The same of parseTarget's loop.
LEMMA AimNone ==
    ASSUME NEW p
    PROVE  AimFrom(p, <<>>) = p /\ \E f : Aims(f, p, <<>>)
<1> DEFINE R(f) == [n \in 0 .. 0 |-> IF n = 0 THEN p ELSE TargetStep(f[n - 1], <<>>[n])]
           e == [n \in 0 .. 0 |-> p]
<1>1. \A f : R(f) = e OBVIOUS
<1>2. Len(<<>>) = 0 /\ <<>> \in Seq({}) OBVIOUS
<1>3. Aims(e, p, <<>>) BY <1>1, <1>2 DEF Aims
<1>4. QED BY <1>2, <1>3, AimFromIs

\* The same of parseTarget's loop.
LEMMA AimMore ==
    ASSUME NEW p, NEW T, NEW s \in Seq(T), NEW t \in T
    PROVE  AimFrom(p, Append(s, t)) = TargetStep(AimFrom(p, s), t)
<1> DEFINE S == {u \in Seq(T) : \E f : Aims(f, p, u)}
<1>1. <<>> \in S
  <2>1. <<>> \in Seq(T) OBVIOUS
  <2>2. \E f : Aims(f, p, <<>>) BY AimNone
  <2>3. QED BY <2>1, <2>2
<1>2. ASSUME NEW u \in S, NEW v \in T PROVE Append(u, v) \in S
  BY <1>2, AimsMore
<1>3. S = Seq(T)
  <2>1. S \in SUBSET Seq(T) OBVIOUS
  <2> HIDE DEF S
  <2>2. QED BY <1>1, <1>2, <2>1, SeqInduction
<1>4. PICK f : Aims(f, p, s) BY <1>3
<1>5. PICK g : Aims(g, p, Append(s, t)) /\ g[Len(s) + 1] = TargetStep(f[Len(s)], t)
  BY <1>4, AimsMore
<1>6. AimFrom(p, s) = f[Len(s)] BY <1>4, AimFromIs
<1>7. Append(s, t) \in Seq(T) /\ Len(Append(s, t)) = Len(s) + 1 OBVIOUS
<1>8. AimFrom(p, Append(s, t)) = g[Len(s) + 1] BY <1>5, <1>7, AimFromIs
<1>9. QED BY <1>5, <1>6, <1>8

\* The same of parseTarget's loop.
LEMMA AimOn ==
    ASSUME NEW p, NEW T, NEW s \in Seq(T), NEW u \in Seq(T)
    PROVE  AimFrom(p, s \o u) = AimFrom(AimFrom(p, s), u)
<1> DEFINE S == {v \in Seq(T) : AimFrom(p, s \o v) = AimFrom(AimFrom(p, s), v)}
<1>1. <<>> \in S
  <2>1. s \o <<>> = s OBVIOUS
  <2>2. AimFrom(AimFrom(p, s), <<>>) = AimFrom(p, s) BY AimNone
  <2>3. <<>> \in Seq(T) OBVIOUS
  <2>4. QED BY <2>1, <2>2, <2>3
<1>2. ASSUME NEW v \in S, NEW t \in T PROVE Append(v, t) \in S
  <2>1. v \in Seq(T) /\ AimFrom(p, s \o v) = AimFrom(AimFrom(p, s), v) OBVIOUS
  <2>2. Append(v, t) \in Seq(T) /\ s \o v \in Seq(T)
        /\ s \o Append(v, t) = Append(s \o v, t)
    BY <2>1
  <2>3. AimFrom(p, Append(s \o v, t)) = TargetStep(AimFrom(p, s \o v), t)
    <3>1. PICK w \in Seq(T) : w = s \o v BY <2>2
    <3>2. AimFrom(p, Append(w, t)) = TargetStep(AimFrom(p, w), t) BY AimMore
    <3>3. QED BY <3>1, <3>2
  <2>4. AimFrom(AimFrom(p, s), Append(v, t)) = TargetStep(AimFrom(AimFrom(p, s), v), t)
    BY <2>1, AimMore
  <2>5. QED BY <2>1, <2>2, <2>3, <2>4
<1>3. S = Seq(T)
  <2>1. S \in SUBSET Seq(T) OBVIOUS
  <2> HIDE DEF S
  <2>2. QED BY <1>1, <1>2, <2>1, SeqInduction
<1>4. QED BY <1>3

-----------------------------------------------------------------------------
(***************************************************************************)
(* The groups of a line, written one after the other.                      *)
(***************************************************************************)

Joined(s, t) == s \o t

Flats(f, o) == f = [i \in 1 .. Len(o) |-> IF i = 1 THEN o[i] ELSE Joined(f[i - 1], o[i])]

\* There is one way to write them.
LEMMA FlatsOnce ==
    ASSUME NEW T, NEW o \in Seq(T), NEW f, NEW g, Flats(f, o), Flats(g, o)
    PROVE  f = g
<1> DEFINE D == {n \in 1 .. Len(o) : f[n] # g[n]}
<1>1. D = {}
  <2>1. SUFFICES ASSUME D # {} PROVE FALSE OBVIOUS
  <2>2. PICK m \in D : \A k \in D : m <= k
    <3>1. D \in SUBSET Nat OBVIOUS
    <3> HIDE DEF D
    <3>2. QED BY <2>1, <3>1, Least
  <2>3. m \in 1 .. Len(o) /\ f[m] # g[m] OBVIOUS
  <2>4. m # 1 BY <2>3 DEF Flats
  <2>5. m - 1 \in 1 .. Len(o) /\ ~(m <= m - 1) BY <2>3, <2>4
  <2>6. m - 1 \notin D
    <3> HIDE DEF D
    <3>1. QED BY <2>2, <2>5
  <2>7. f[m - 1] = g[m - 1] BY <2>5, <2>6
  <2> HIDE DEF D
  <2>8. f[m] = Joined(f[m - 1], o[m]) BY <2>3, <2>4 DEF Flats
  <2>9. g[m] = Joined(g[m - 1], o[m]) BY <2>3, <2>4 DEF Flats
  <2>10. QED BY <2>3, <2>7, <2>8, <2>9
<1>2. \A n \in 1 .. Len(o) : f[n] = g[n] BY <1>1
<1>3. f = [n \in 1 .. Len(o) |-> f[n]] /\ g = [n \in 1 .. Len(o) |-> g[n]] BY DEF Flats
<1>4. QED BY <1>2, <1>3

\* What is written in the end, if there is a way to write it.
LEMMA FlattenIs ==
    ASSUME NEW T, NEW o \in Seq(T), o # <<>>, NEW f, Flats(f, o)
    PROVE  FlattenSeq(o) = f[Len(o)]
<1> DEFINE c == CHOOSE g : Flats(g, o)
<1>1. Flats(c, o) OBVIOUS
<1>2. c = f BY <1>1, FlatsOnce
<1>3. Len(o) # 0 OBVIOUS
<1>4. QED BY <1>2, <1>3 DEF FlattenSeq, Flats, Joined

\* One more group.
LEMMA FlatsMore ==
    ASSUME NEW T, NEW o \in Seq(T), o # <<>>, NEW t \in T, NEW f, Flats(f, o)
    PROVE  \E g : Flats(g, Append(o, t)) /\ g[Len(o) + 1] = Joined(f[Len(o)], t)
<1> DEFINE n == Len(o)
           g == [i \in 1 .. n + 1 |-> IF i <= n THEN f[i] ELSE Joined(f[n], t)]
<1>1. n \in Nat /\ n # 0 /\ Len(Append(o, t)) = n + 1
      /\ Append(o, t)[n + 1] = t /\ \A i \in 1 .. n : Append(o, t)[i] = o[i]
  OBVIOUS
<1>2. ASSUME NEW i \in 1 .. n + 1
      PROVE  g[i] = IF i = 1 THEN Append(o, t)[i] ELSE Joined(g[i - 1], Append(o, t)[i])
  <2>1. CASE i = 1 BY <1>1, <2>1 DEF Flats
  <2>2. CASE i \in 2 .. n
    <3>1. g[i] = f[i] /\ g[i - 1] = f[i - 1] BY <1>1, <2>2
    <3>2. f[i] = Joined(f[i - 1], o[i]) BY <1>1, <2>2 DEF Flats
    <3>3. QED BY <1>1, <2>2, <3>1, <3>2
  <2>3. CASE i = n + 1
    <3>1. g[i] = Joined(f[n], t) /\ g[i - 1] = f[n] BY <1>1, <2>3
    <3>2. QED BY <1>1, <2>3, <3>1
  <2>4. QED BY <1>1, <2>1, <2>2, <2>3
<1>3. Flats(g, Append(o, t)) BY <1>1, <1>2 DEF Flats
<1>4. QED BY <1>1, <1>3

\* No groups are an empty line.
LEMMA FlattenNone == FlattenSeq(<<>>) = <<>>
  BY DEF FlattenSeq

\* One group is written as it is.
LEMMA FlattenFirst ==
    ASSUME NEW T, NEW t \in T
    PROVE  FlattenSeq(<<t>>) = t /\ \E f : Flats(f, <<t>>)
<1> DEFINE e == [i \in 1 .. 1 |-> t]
<1>1. <<t>> \in Seq(T) /\ <<t>> # <<>> /\ Len(<<t>>) = 1 /\ <<t>>[1] = t OBVIOUS
<1>2. \A f : [i \in 1 .. 1 |-> IF i = 1 THEN <<t>>[i] ELSE Joined(f[i - 1], <<t>>[i])] = e
  BY <1>1
<1>3. Flats(e, <<t>>) BY <1>1, <1>2 DEF Flats
<1>4. QED BY <1>1, <1>3, FlattenIs, SMTT(30)

\* Any groups, and one more.
LEMMA FlattenMore ==
    ASSUME NEW T, NEW o \in Seq(Seq(T)), NEW g \in Seq(T)
    PROVE  /\ FlattenSeq(o) \in Seq(T)
           /\ FlattenSeq(Append(o, g)) = FlattenSeq(o) \o g
<1> DEFINE S == {u \in Seq(Seq(T)) :
                    u = <<>> \/ \E f : Flats(f, u) /\ f[Len(u)] \in Seq(T)}
<1>1. <<>> \in S OBVIOUS
<1>2. ASSUME NEW u \in S, NEW t \in Seq(T) PROVE Append(u, t) \in S
  <2>1. Append(u, t) \in Seq(Seq(T)) /\ u \in Seq(Seq(T)) OBVIOUS
  <2>2. CASE u = <<>>
    <3>1. Append(u, t) = <<t>> BY <2>2
    <3>2. PICK f : Flats(f, <<t>>) BY FlattenFirst
    <3>3. f[Len(<<t>>)] = t BY <3>2 DEF Flats
    <3>4. QED BY <2>1, <3>1, <3>2, <3>3
  <2>3. CASE u # <<>>
    <3>1. PICK f : Flats(f, u) /\ f[Len(u)] \in Seq(T) BY <2>3
    <3>2. PICK h : Flats(h, Append(u, t)) /\ h[Len(u) + 1] = Joined(f[Len(u)], t)
      BY <2>1, <2>3, <3>1, FlatsMore
    <3>3. Len(Append(u, t)) = Len(u) + 1 BY <2>1
    <3>4. Joined(f[Len(u)], t) \in Seq(T) BY <3>1 DEF Joined
    <3>5. QED BY <2>1, <3>2, <3>3, <3>4
  <2>4. QED BY <2>2, <2>3
<1>3. S = Seq(Seq(T))
  <2>1. S \in SUBSET Seq(Seq(T)) OBVIOUS
  <2> HIDE DEF S
  <2>2. QED BY <1>1, <1>2, <2>1, SeqInduction
<1>4. CASE o = <<>>
  <2>1. Append(o, g) = <<g>> /\ <<>> \o g = g /\ <<>> \in Seq(T) BY <1>4
  <2>2. FlattenSeq(<<g>>) = g BY FlattenFirst
  <2>3. QED BY <1>4, <2>1, <2>2, FlattenNone
<1>5. CASE o # <<>>
  <2>1. PICK f : Flats(f, o) /\ f[Len(o)] \in Seq(T) BY <1>3, <1>5
  <2>2. PICK h : Flats(h, Append(o, g)) /\ h[Len(o) + 1] = Joined(f[Len(o)], g)
    BY <1>5, <2>1, FlatsMore
  <2>3. Append(o, g) \in Seq(Seq(T)) /\ Len(Append(o, g)) = Len(o) + 1 /\ Len(o) \in Nat
        /\ Append(o, g) # <<>>
    <3>1. o \in Seq(Seq(T)) /\ g \in Seq(T) OBVIOUS
    <3>2. QED BY <3>1, AppendProperties, LenProperties
  <2>4. FlattenSeq(o) = f[Len(o)] BY <1>5, <2>1, FlattenIs
  <2>5. FlattenSeq(Append(o, g)) = h[Len(o) + 1] BY <2>2, <2>3, FlattenIs
  <2>6. QED BY <2>1, <2>2, <2>4, <2>5 DEF Joined
<1>6. QED BY <1>4, <1>5

-----------------------------------------------------------------------------
(***************************************************************************)
(* The own flags.                                                          *)
(***************************************************************************)

\* Arguments; the provers know of no literal that it is a string.
Arg == STRING \cup {Unset, "--session", "close"}

Fields == OwnFlags \cup {"code", "file"}

\* No file is missing; a name of its own, for the sake of the provers.
Fine == FALSE

\* What parseArgs has while no verb has been read and no file is missing.
Had(text, exe, fresh, mode, fileArgs, fwd, want) ==
    [text |-> text, exe |-> exe, fresh |-> fresh, evalMode |-> mode, fileArgs |-> fileArgs,
     fwd |-> fwd, sub |-> Unset, subArgs |-> <<>>, want |-> want, bad |-> Fine]

\* The texts that have been read, none of them the name of a file.
NoFile(text) == text \in [Fields -> Arg] /\ text["file"] = Unset

\* The value that a group gives to its flag, and the groups o to flag f.
ValueOf(g) == IF Len(g) = 2 THEN g[2] ELSE Inline[g[1]]

About(o, f) == {i \in DOMAIN o : FlagName[o[i][1]] = f}

GivenIn(o, f) == IF About(o, f) = {} THEN Unset ELSE ValueOf(o[Max(About(o, f))])

Texts(o) == [f \in Fields |-> IF f \in OwnFlags THEN GivenIn(o, f) ELSE Unset]

\* The value of a flag is that of the last group about it.
LEMMA GivenMore ==
    ASSUME NEW o \in Seq(Seq(Arg)), NEW g \in Seq(Arg), NEW f
    PROVE  GivenIn(Append(o, g), f) =
               IF FlagName[g[1]] = f THEN ValueOf(g) ELSE GivenIn(o, f)
<1> DEFINE n == Len(o)
           a == Append(o, g)
<1>1. n \in Nat /\ DOMAIN o = 1 .. n /\ DOMAIN a = 1 .. n + 1
      /\ a[n + 1] = g /\ \A i \in 1 .. n : a[i] = o[i]
  OBVIOUS
<1>2. CASE FlagName[g[1]] = f
  <2>1. n + 1 \in About(a, f) BY <1>1, <1>2 DEF About
  <2>2. About(a, f) \subseteq 1 .. n + 1 BY <1>1 DEF About
  <2>3. Max(About(a, f)) = n + 1 BY <1>1, <2>1, <2>2 DEF Max
  <2>4. QED BY <1>1, <1>2, <2>1, <2>3 DEF GivenIn
<1>3. CASE FlagName[g[1]] # f
  <2>1. About(a, f) = About(o, f) BY <1>1, <1>3 DEF About
  <2>2. CASE About(o, f) = {} BY <1>3, <2>1, <2>2 DEF GivenIn
  <2>3. CASE About(o, f) # {}
    <3>1. About(o, f) \in SUBSET (0 .. n) BY <1>1 DEF About
    <3>2. \E m \in About(o, f) : \A k \in About(o, f) : k <= m
      BY <1>1, <2>3, <3>1, Greatest
    <3>3. Max(About(o, f)) \in About(o, f) BY <3>1, <3>2 DEF Max
    <3>4. Max(About(o, f)) \in 1 .. n BY <1>1, <3>3 DEF About
    <3>5. QED BY <1>1, <1>3, <2>1, <2>3, <3>4 DEF GivenIn
  <2>4. QED BY <2>2, <2>3
<1>4. QED BY <1>2, <1>3

\* The names of the own flags are never those of an eval flag.
LEMMA ModeIsNamed ==
    ASSUME NEW lang, NEW name
    PROVE  /\ EvalMode(lang, name) \in {Unset, "eval", "print"}
           /\ EvalMode(lang, name) # Unset => name \in EvalNames
           /\ name \in OwnFlags \cup {"fresh"} => EvalMode(lang, name) = Unset
<1>1. EvalMode(lang, name) \in {Unset, "eval", "print"} BY DEF EvalMode
<1>2. EvalMode(lang, name) # Unset => name \in {"e", "eval", "c", "command", "E", "print", "code"}
  BY DEF EvalMode, evalPrintFlags, EvalFlags, PrintFlags, Langs
<1>3. {"e", "eval", "c", "command", "E", "print", "code"} \subseteq EvalNames
  BY DEF EvalNames, EvalFlags, PrintFlags, Langs
<1>4. QED BY <1>1, <1>2, <1>3 DEF OwnFlags

\* One own flag.
LEMMA OwnStep ==
    ASSUME NEW text, NoFile(text), NEW fresh, NEW t \in Switches
    PROVE  LET q == Had(text, Unset, fresh, Unset, <<>>, <<>>, Unset)
               name == FlagName[t]
           IN  /\ name = "fresh" => Step(q, t) = Had(text, Unset, TRUE, Unset, <<>>, <<>>, Unset)
               /\ name \in OwnFlags /\ t \in DOMAIN Inline =>
                      Step(q, t) = Had([text EXCEPT ![name] = Inline[t]], Unset, fresh, Unset,
                                       <<>>, <<>>, Unset)
               /\ name \in OwnFlags /\ t \notin DOMAIN Inline =>
                      Step(q, t) = Had(text, Unset, fresh, Unset, <<>>, <<>>, name)
<1> DEFINE q == Had(text, Unset, fresh, Unset, <<>>, <<>>, Unset)
           name == FlagName[t]
<1>1. ~q.bad /\ q.sub = Unset /\ q.want = Unset /\ q.text["file"] = Unset /\ q.exe = Unset BY DEF Had, NoFile, Fine
<1>2. Step(q, t) = Switch(q, t) BY <1>1 DEF Step
<1>3. ASSUME name \in OwnFlags \cup {"fresh"}
      PROVE  Switch(q, t) = IF name \in OwnFlags THEN Consume(q, name, t)
                            ELSE [q EXCEPT !.fresh = TRUE]
  <2>1. EvalMode(ResolveLang(q), name) = Unset BY <1>3, ModeIsNamed
  <2>2. QED BY <1>1, <1>3, <2>1 DEF Switch
<1>4. "fresh" \notin OwnFlags BY DEF OwnFlags
<1>5. QED BY <1>2, <1>3, <1>4, ZenonT(40) DEF Consume, Had

\* The value after an own flag.
LEMMA OwnValue ==
    ASSUME NEW text \in [Fields -> Arg], NEW fresh, NEW name \in OwnFlags, NEW t
    PROVE  Step(Had(text, Unset, fresh, Unset, <<>>, <<>>, name), t) =
               Had([text EXCEPT ![name] = t], Unset, fresh, Unset, <<>>, <<>>, Unset)
<1>1. name # Unset /\ name # "file" BY DEF OwnFlags, Unset
<1>2. QED BY <1>1 DEF Step, Value, Had, Fine

\* A sequence of two is that of its parts.
LEMMA TwoAre ==
    ASSUME NEW T, NEW g \in Seq(T), Len(g) = 2
    PROVE  g = <<g[1], g[2]>> /\ g[1] \in T /\ g[2] \in T
<1>1. g[1] \in T /\ g[2] \in T OBVIOUS
<1>2. <<g[1], g[2]>> \in Seq(T) BY <1>1
<1>3. QED BY <1>1, <1>2

\* A sequence of one, and one more.
LEMMA TwoAppended ==
    ASSUME NEW T, NEW a \in T, NEW b \in T
    PROVE  Append(<<a>>, b) = <<a, b>>
<1>1. <<a>> \in Seq(T) /\ <<a, b>> \in Seq(T) OBVIOUS
<1>2. PICK s \in Seq(T), u \in Seq(T) : s = <<a>> /\ u = <<a, b>> BY <1>1
<1>3. Append(s, b) \in Seq(T) /\ Len(Append(s, b)) = 2
      /\ Append(s, b)[1] = a /\ Append(s, b)[2] = b
  BY <1>2
<1>4. Len(u) = 2 /\ u[1] = a /\ u[2] = b BY <1>2
<1>5. Append(s, b) = u BY <1>3, <1>4, SeqEqual
<1>6. QED BY <1>2, <1>5

\* One argument.
LEMMA ReadOne ==
    ASSUME NEW p, NEW a
    PROVE  ReadFrom(p, <<a>>) = Step(p, a)
<1> DEFINE T == {a}
<1>1. a \in T OBVIOUS
<1>2. <<>> \in Seq(T) /\ Append(<<>>, a) = <<a>>
  <2> HIDE DEF T
  <2>1. QED BY <1>1
<1>3. ReadFrom(p, Append(<<>>, a)) = Step(ReadFrom(p, <<>>), a) BY <1>1, <1>2, ReadMore
<1>4. QED BY <1>2, <1>3, ReadNone

\* Two arguments.
LEMMA ReadTwo ==
    ASSUME NEW p, NEW a, NEW b
    PROVE  ReadFrom(p, <<a, b>>) = Step(Step(p, a), b)
<1> DEFINE T == {a, b}
<1>1. a \in T /\ b \in T OBVIOUS
<1>2. PICK s \in Seq(T) : s = <<a>>
  <2>1. <<a>> \in Seq(T)
    <3> HIDE DEF T
    <3>1. QED BY <1>1
  <2>2. QED BY <2>1
<1>3. ReadFrom(p, Append(s, b)) = Step(ReadFrom(p, s), b) BY <1>1, ReadMore
<1>4. Append(<<a>>, b) = <<a, b>> BY <1>1, TwoAppended
<1>5. QED BY <1>2, <1>3, <1>4, ReadOne

\* The same, by the length of the group.
LEMMA ReadGroup ==
    ASSUME NEW p, NEW T, NEW g \in Seq(T)
    PROVE  /\ Len(g) = 1 => ReadFrom(p, g) = Step(p, g[1])
           /\ Len(g) = 2 => ReadFrom(p, g) = Step(Step(p, g[1]), g[2])
<1>1. ASSUME Len(g) = 1 PROVE ReadFrom(p, g) = Step(p, g[1])
  <2>1. g = <<g[1]>> BY <1>1
  <2>2. ReadFrom(p, <<g[1]>>) = Step(p, g[1]) BY ReadOne
  <2>3. QED BY <2>1, <2>2
<1>2. ASSUME Len(g) = 2 PROVE ReadFrom(p, g) = Step(Step(p, g[1]), g[2])
  <2>1. g = <<g[1], g[2]>> BY <1>2, TwoAre
  <2>2. ReadFrom(p, <<g[1], g[2]>>) = Step(Step(p, g[1]), g[2]) BY ReadTwo
  <2>3. QED BY <2>1, <2>2
<1>3. QED BY <1>1, <1>2

\* A group is a flag, or a flag and a value.
LEMMA GroupIs ==
    ASSUME NEW g \in Seq(Arg), OwnGroup(g)
    PROVE  /\ g[1] \in Switches /\ FlagName[g[1]] \in OwnFlags \cup {"fresh"}
           /\ ValueOf(g) \in Arg \/ FlagName[g[1]] = "fresh"
           /\ \/ Len(g) = 1 /\ FlagName[g[1]] = "fresh"
              \/ /\ Len(g) = 1 /\ FlagName[g[1]] \in OwnFlags /\ g[1] \in DOMAIN Inline
                 /\ ValueOf(g) = Inline[g[1]]
              \/ /\ Len(g) = 2 /\ FlagName[g[1]] \in OwnFlags /\ g[1] \notin DOMAIN Inline
                 /\ ValueOf(g) = g[2]
<1>1. g[1] \in Switches /\ FlagName[g[1]] \in OwnFlags \cup {"fresh"} BY DEF OwnGroup
<1>2. CASE Len(g) = 1
  <2>1. FlagName[g[1]] = "fresh" \/ g[1] \in DOMAIN Inline BY <1>2 DEF OwnGroup
  <2>2. ValueOf(g) = Inline[g[1]] BY <1>2 DEF ValueOf
  <2>3. QED BY <1>1, <1>2, <2>1, <2>2, CommandLineAssumption DEF Arg
<1>3. CASE Len(g) = 2
  <2>1. g[2] \in Arg BY <1>3, TwoAre
  <2>2. FlagName[g[1]] # "fresh" /\ g[1] \notin DOMAIN Inline BY <1>3 DEF OwnGroup
  <2>3. ValueOf(g) = g[2] BY <1>3 DEF ValueOf
  <2>4. QED BY <1>1, <1>3, <2>1, <2>2, <2>3
<1>4. QED BY <1>2, <1>3 DEF OwnGroup

\* One group.
LEMMA GroupRead ==
    ASSUME NEW text, NoFile(text), NEW fresh,
           NEW g \in Seq(Arg), OwnGroup(g)
    PROVE  \E now : ReadFrom(Had(text, Unset, fresh, Unset, <<>>, <<>>, Unset), g) =
                        Had([f \in Fields |-> IF f = FlagName[g[1]] THEN ValueOf(g) ELSE text[f]],
                            Unset, now, Unset, <<>>, <<>>, Unset)
<1> DEFINE q == Had(text, Unset, fresh, Unset, <<>>, <<>>, Unset)
           name == FlagName[g[1]]
           then == [f \in Fields |-> IF f = name THEN ValueOf(g) ELSE text[f]]
<1>1. g[1] \in Switches BY GroupIs
<1>2. OwnFlags \subseteq Fields /\ "fresh" \notin Fields BY DEF Fields, OwnFlags
<1>3. CASE Len(g) = 1 /\ name = "fresh"
  <2>1. Step(q, g[1]) = Had(text, Unset, TRUE, Unset, <<>>, <<>>, Unset) BY <1>1, <1>3, OwnStep
  <2>2. then = text BY <1>2, <1>3 DEF NoFile
  <2>3. ReadFrom(q, g) = Step(q, g[1]) BY <1>3, ReadGroup
  <2>4. QED BY <2>1, <2>2, <2>3
<1>4. CASE Len(g) = 1 /\ name \in OwnFlags /\ g[1] \in DOMAIN Inline /\ ValueOf(g) = Inline[g[1]]
  <2>1. Step(q, g[1]) = Had([text EXCEPT ![name] = Inline[g[1]]], Unset, fresh, Unset, <<>>, <<>>, Unset)
    BY <1>1, <1>4, OwnStep
  <2>2. then = [text EXCEPT ![name] = Inline[g[1]]] BY <1>2, <1>4 DEF NoFile
  <2>3. ReadFrom(q, g) = Step(q, g[1]) BY <1>4, ReadGroup
  <2>4. QED BY <2>1, <2>2, <2>3
<1>5. CASE Len(g) = 2 /\ name \in OwnFlags /\ g[1] \notin DOMAIN Inline /\ ValueOf(g) = g[2]
  <2>1. Step(q, g[1]) = Had(text, Unset, fresh, Unset, <<>>, <<>>, name) BY <1>1, <1>5, OwnStep
  <2>2. Step(Had(text, Unset, fresh, Unset, <<>>, <<>>, name), g[2]) =
            Had([text EXCEPT ![name] = g[2]], Unset, fresh, Unset, <<>>, <<>>, Unset)
    <3>1. name \in OwnFlags BY <1>5
    <3>2. \A n \in OwnFlags : \A t :
              Step(Had(text, Unset, fresh, Unset, <<>>, <<>>, n), t) =
                  Had([text EXCEPT ![n] = t], Unset, fresh, Unset, <<>>, <<>>, Unset)
      BY OwnValue, ZenonT(40) DEF NoFile
    <3> HIDE DEF name
    <3>3. QED BY <3>1, <3>2, Zenon
  <2>3. then = [text EXCEPT ![name] = g[2]] BY <1>2, <1>5 DEF NoFile
  <2>4. ReadFrom(q, g) = Step(Step(q, g[1]), g[2]) BY <1>5, ReadGroup
  <2>5. QED BY <2>1, <2>2, <2>3, <2>4
<1>6. QED BY <1>3, <1>4, <1>5, GroupIs

\* Any groups of own flags.
OwnLine(o) == o \in Seq(Seq(Arg)) /\ \A i \in DOMAIN o : OwnGroup(o[i])

\* The groups of a line are those before the last one, and the last one.
LEMMA OwnLineMore ==
    ASSUME NEW o \in Seq(Seq(Arg)), NEW g \in Seq(Arg), OwnLine(Append(o, g))
    PROVE  OwnLine(o) /\ OwnGroup(g)
<1>1. Len(o) \in Nat /\ DOMAIN o = 1 .. Len(o) /\ DOMAIN Append(o, g) = 1 .. Len(o) + 1
      /\ Append(o, g)[Len(o) + 1] = g /\ \A i \in 1 .. Len(o) : Append(o, g)[i] = o[i]
  OBVIOUS
<1>2. QED BY <1>1 DEF OwnLine

\* What has been read after the groups u.
OwnIsRead(u) ==
    /\ Texts(u) \in [Fields -> Arg]
    /\ \E fresh : ReadFrom(Start, FlattenSeq(u)) = Had(Texts(u), Unset, fresh, Unset, <<>>, <<>>, Unset)

\* No own flag names the code or the file.
LEMMA TextsUnread ==
    ASSUME NEW u
    PROVE  Texts(u)["file"] = Unset /\ Texts(u)["code"] = Unset
  BY DEF Texts, Fields, OwnFlags

\* Without own flags nothing is given.
LEMMA OwnReadNone == OwnIsRead(<<>>)
<1>1. \A f : GivenIn(<<>>, f) = Unset BY DEF GivenIn, About
<1>2. Texts(<<>>) = [f \in Fields |-> Unset] BY <1>1 DEF Texts
<1>3. Start = Had(Texts(<<>>), Unset, FALSE, Unset, <<>>, <<>>, Unset) BY <1>2 DEF Start, Had, Fields, Fine
<1>4. Texts(<<>>) \in [Fields -> Arg]
  <2>1. Unset \in Arg BY DEF Arg
  <2>2. QED BY <1>2, <2>1
<1>5. ReadFrom(Start, FlattenSeq(<<>>)) = Start BY FlattenNone, ReadNone
<1>6. QED BY <1>3, <1>4, <1>5 DEF OwnIsRead

\* One group more.
LEMMA OwnReadMore ==
    ASSUME NEW u \in Seq(Seq(Arg)), NEW g \in Seq(Arg), OwnIsRead(u), OwnGroup(g)
    PROVE  OwnIsRead(Append(u, g))
<1> DEFINE text == [f \in Fields |-> IF f = FlagName[g[1]] THEN ValueOf(g) ELSE Texts(u)[f]]
<1>1. PICK fresh : ReadFrom(Start, FlattenSeq(u)) = Had(Texts(u), Unset, fresh, Unset, <<>>, <<>>, Unset)
  BY DEF OwnIsRead
<1>2. Texts(u) \in [Fields -> Arg] BY DEF OwnIsRead
<1>3. PICK now : ReadFrom(Had(Texts(u), Unset, fresh, Unset, <<>>, <<>>, Unset), g) =
                     Had(text, Unset, now, Unset, <<>>, <<>>, Unset)
  BY <1>2, TextsUnread, GroupRead DEF NoFile
<1>4. FlattenSeq(u) \in Seq(Arg) /\ FlattenSeq(Append(u, g)) = FlattenSeq(u) \o g
  BY FlattenMore
<1>5. ReadFrom(Start, FlattenSeq(u) \o g) = ReadFrom(ReadFrom(Start, FlattenSeq(u)), g)
  BY <1>4, ReadOn
<1>6. ReadFrom(Start, FlattenSeq(Append(u, g))) = Had(text, Unset, now, Unset, <<>>, <<>>, Unset)
  BY <1>1, <1>3, <1>4, <1>5
<1>7. "fresh" \notin Fields /\ OwnFlags \subseteq Fields BY DEF Fields, OwnFlags
<1>8. FlagName[g[1]] \in OwnFlags \cup {"fresh"}
      /\ (ValueOf(g) \in Arg \/ FlagName[g[1]] = "fresh")
  BY GroupIs
<1>9. text = Texts(Append(u, g))
  <2>1. \A f : GivenIn(Append(u, g), f) =
                  IF FlagName[g[1]] = f THEN ValueOf(g) ELSE GivenIn(u, f)
    BY GivenMore
  <2>2. QED BY <1>7, <1>8, <2>1 DEF Texts
<1>10. text \in [Fields -> Arg] BY <1>2, <1>7, <1>8
<1>11. QED BY <1>6, <1>9, <1>10 DEF OwnIsRead

\* After its own flags a line has their last values, and nothing else.
LEMMA OwnRead ==
    ASSUME NEW o, OwnLine(o)
    PROVE  FlattenSeq(o) \in Seq(Arg) /\ OwnIsRead(o)
<1> DEFINE S == {u \in Seq(Seq(Arg)) : OwnLine(u) => OwnIsRead(u)}
<1>1. <<>> \in S
  <2>1. <<>> \in Seq(Seq(Arg)) OBVIOUS
  <2>2. QED BY <2>1, OwnReadNone
<1>2. ASSUME NEW u \in Seq(Seq(Arg)), NEW g \in Seq(Arg), OwnLine(u) => OwnIsRead(u)
      PROVE  Append(u, g) \in Seq(Seq(Arg)) /\ (OwnLine(Append(u, g)) => OwnIsRead(Append(u, g)))
  <2>1. Append(u, g) \in Seq(Seq(Arg)) OBVIOUS
  <2>2. QED BY <1>2, <2>1, OwnLineMore, OwnReadMore
<1>3. \A u \in S, g \in Seq(Arg) : Append(u, g) \in S BY <1>2
<1>4. S = Seq(Seq(Arg))
  <2>1. S \in SUBSET Seq(Seq(Arg)) OBVIOUS
  <2> HIDE DEF S
  <2>2. QED BY <1>1, <1>3, <2>1, SeqInduction
<1>5. o \in Seq(Seq(Arg)) BY DEF OwnLine
<1>6. OwnIsRead(o) BY <1>4, <1>5
<1>7. FlattenSeq(o) \in Seq(Arg)
  <2>1. <<>> \in Seq(Arg) OBVIOUS
  <2>2. QED BY <1>5, <2>1, FlattenMore
<1>8. QED BY <1>6, <1>7

-----------------------------------------------------------------------------
(***************************************************************************)
(* The executable, the arguments of the interpreter, and the rest.         *)
(***************************************************************************)

ExeOf(x) == IF x = Unset THEN <<>> ELSE <<x>>

RestOf(flag, arg, rest) == (IF flag = Unset THEN <<>> ELSE <<flag>>) \o <<arg>> \o rest

LangIn(text, x) == Or(text["lang"], langForExe(x))

\* An argument is forwarded.
LEMMA Forwarded ==
    ASSUME NEW text, NEW x, NEW fresh, NEW mode, NEW files, NEW u, NEW want, NEW t
    PROVE  Forward(Had(text, x, fresh, mode, files, u, want), t) =
               Had(text, x, fresh, mode, files, Append(u, t), want)
<1> DEFINE q == Had(text, x, fresh, mode, files, u, want)
<1>1. ASSUME NEW v
      PROVE  [q EXCEPT !.fwd = v] = Had(text, x, fresh, mode, files, v, want)
  BY DEF Had
<1>2. PICK v : v = Append(u, t) OBVIOUS
<1>3. q.fwd = u BY DEF Had
<1>4. Forward(q, t) = [q EXCEPT !.fwd = v] BY <1>2, <1>3 DEF Forward
<1>5. QED BY <1>1, <1>2, <1>4

\* The executable.
LEMMA ExeRead ==
    ASSUME NEW text, NoFile(text), NEW fresh,
           NEW x, x \notin Switches \cup Subcommands
    PROVE  ReadFrom(Had(text, Unset, fresh, Unset, <<>>, <<>>, Unset), ExeOf(x)) =
               Had(text, x, fresh, Unset, <<>>, <<>>, Unset)
<1> DEFINE q == Had(text, Unset, fresh, Unset, <<>>, <<>>, Unset)
<1>1. CASE x = Unset BY <1>1, ReadNone DEF ExeOf
<1>2. CASE x # Unset
  <2>1. ~NamesFile(q, x) BY DEF NamesFile, Had
  <2>2. Step(q, x) = Word(q, x) BY DEF Step, Had, Fine, NoFile
  <2>3. Word(q, x) = Had(text, x, fresh, Unset, <<>>, <<>>, Unset) BY <2>1 DEF Word, Had
  <2>4. QED BY <1>2, <2>2, <2>3, ReadOne DEF ExeOf
<1>3. QED BY <1>1, <1>2

\* What Unambiguous says of the interpreter's argument t, with u before it.
Passed(lang, u, t) ==
    IF t \in Switches THEN t # "--" /\ EvalMode(lang, FlagName[t]) = Unset
    ELSE t \notin Files /\ (u = <<>> => t \in Plus \ Subcommands)

\* One argument of the interpreter.
LEMMA InterpStep ==
    ASSUME NEW text, NoFile(text), NEW fresh, NEW x, x # Unset,
           NEW u, NEW t, Passed(LangIn(text, x), u, t)
    PROVE  Step(Had(text, x, fresh, Unset, <<>>, u, Unset), t) =
               Had(text, x, fresh, Unset, <<>>, Append(u, t), Unset)
<1> DEFINE q == Had(text, x, fresh, Unset, <<>>, u, Unset)
<1>1. Forward(q, t) = Had(text, x, fresh, Unset, <<>>, Append(u, t), Unset) BY Forwarded
<1>2. CASE t \in Switches
  <2>1. Step(q, t) = Switch(q, t) BY <1>2 DEF Step, Had, Fine, NoFile
  <2>2. ResolveLang(q) = LangIn(text, x) BY DEF ResolveLang, LangIn, Had
  <2>3. t # "--" /\ EvalMode(ResolveLang(q), FlagName[t]) = Unset BY <1>2, <2>2 DEF Passed
  <2>4. Switch(q, t) = Forward(q, t) BY <2>3 DEF Switch, Had
  <2>5. QED BY <1>1, <2>1, <2>4
<1>3. CASE t \notin Switches
  <2>1. Step(q, t) = Word(q, t) BY <1>3 DEF Step, Had, Fine, NoFile
  <2>2. t \notin Files /\ (u = <<>> => t \in Plus \ Subcommands) BY <1>3 DEF Passed
  <2>3. ~NamesFile(q, t) BY <2>2 DEF NamesFile, Had
  <2>4. Word(q, t) = Forward(q, t) BY <2>2, <2>3 DEF Word, Had
  <2>5. QED BY <1>1, <2>1, <2>4
<1>4. QED BY <1>2, <1>3

\* What Unambiguous says of all of them.
InterpLine(lang, u) ==
    \A i \in DOMAIN u :
        IF u[i] \in Switches THEN u[i] # "--" /\ EvalMode(lang, FlagName[u[i]]) = Unset
        ELSE u[i] \notin Files /\ (i = 1 => u[i] \in Plus \ Subcommands)

\* It holds of those before the last one, and of the last one after those.
LEMMA InterpLineMore ==
    ASSUME NEW lang, NEW T, NEW u \in Seq(T), NEW t \in T, InterpLine(lang, Append(u, t))
    PROVE  InterpLine(lang, u) /\ Passed(lang, u, t)
<1>1. Len(u) \in Nat /\ DOMAIN u = 1 .. Len(u) /\ DOMAIN Append(u, t) = 1 .. Len(u) + 1
      /\ Append(u, t)[Len(u) + 1] = t /\ \A i \in 1 .. Len(u) : Append(u, t)[i] = u[i]
  OBVIOUS
<1>2. u = <<>> => Len(u) + 1 = 1 OBVIOUS
<1>3. InterpLine(lang, u)
  <2>1. \A i \in DOMAIN u : i \in DOMAIN Append(u, t) /\ Append(u, t)[i] = u[i] BY <1>1
  <2>2. QED BY <2>1 DEF InterpLine
<1>4. Len(u) + 1 \in DOMAIN Append(u, t) BY <1>1
<1>5. Passed(lang, u, t) BY <1>1, <1>2, <1>4 DEF InterpLine, Passed
<1>6. QED BY <1>3, <1>5

\* The arguments of the interpreter are forwarded as they are.
LEMMA InterpRead ==
    ASSUME NEW text, NoFile(text), NEW fresh, NEW x, x # Unset,
           NEW v \in Seq(Arg), InterpLine(LangIn(text, x), v)
    PROVE  ReadFrom(Had(text, x, fresh, Unset, <<>>, <<>>, Unset), v) =
               Had(text, x, fresh, Unset, <<>>, v, Unset)
<1> DEFINE q == Had(text, x, fresh, Unset, <<>>, <<>>, Unset)
           Good(u) == InterpLine(LangIn(text, x), u) =>
                          ReadFrom(q, u) = Had(text, x, fresh, Unset, <<>>, u, Unset)
           S == {u \in Seq(Arg) : Good(u)}
<1>1. <<>> \in S
  <2>1. <<>> \in Seq(Arg) OBVIOUS
  <2>2. QED BY <2>1, ReadNone
<1>2. ASSUME NEW u \in Seq(Arg), NEW t \in Arg, Good(u)
      PROVE  Append(u, t) \in Seq(Arg) /\ Good(Append(u, t))
  <2>1. Append(u, t) \in Seq(Arg) OBVIOUS
  <2>2. ReadFrom(q, Append(u, t)) = Step(ReadFrom(q, u), t) BY ReadMore
  <2>3. ASSUME InterpLine(LangIn(text, x), Append(u, t))
        PROVE  ReadFrom(q, Append(u, t)) = Had(text, x, fresh, Unset, <<>>, Append(u, t), Unset)
    <3>1. InterpLine(LangIn(text, x), u) /\ Passed(LangIn(text, x), u, t)
      BY <2>3, InterpLineMore
    <3>2. ReadFrom(q, u) = Had(text, x, fresh, Unset, <<>>, u, Unset) BY <1>2, <3>1
    <3>3. Step(Had(text, x, fresh, Unset, <<>>, u, Unset), t) =
              Had(text, x, fresh, Unset, <<>>, Append(u, t), Unset)
      BY <3>1, InterpStep
    <3>4. QED BY <2>2, <3>2, <3>3, Zenon
  <2>4. QED BY <2>1, <2>3
<1>3. \A u \in S, t \in Arg : Append(u, t) \in S
  <2> HIDE DEF Good
  <2>1. QED BY <1>2
<1>4. S = Seq(Arg)
  <2>1. S \in SUBSET Seq(Arg) OBVIOUS
  <2> HIDE DEF S
  <2>2. QED BY <1>1, <1>3, <2>1, SeqInduction
<1>5. QED BY <1>4

\* What comes after the code is forwarded too.
LEMMA ForwardRead ==
    ASSUME NEW text, NoFile(text), NEW x, NEW fresh, NEW mode, mode # Unset,
           NEW s \in Seq(Arg), NEW v \in Seq(Arg), \A i \in DOMAIN v : v[i] \notin Switches
    PROVE  ReadFrom(Had(text, x, fresh, mode, <<>>, s, Unset), v) =
               Had(text, x, fresh, mode, <<>>, s \o v, Unset)
<1> DEFINE q == Had(text, x, fresh, mode, <<>>, s, Unset)
           Good(u) == (\A i \in DOMAIN u : u[i] \notin Switches) =>
                          ReadFrom(q, u) = Had(text, x, fresh, mode, <<>>, s \o u, Unset)
           S == {u \in Seq(Arg) : Good(u)}
<1>1. <<>> \in S
  <2>1. <<>> \in Seq(Arg) /\ s \o <<>> = s OBVIOUS
  <2>2. QED BY <2>1, ReadNone
<1>2. ASSUME NEW u \in Seq(Arg), NEW t \in Arg, Good(u)
      PROVE  Append(u, t) \in Seq(Arg) /\ Good(Append(u, t))
  <2>1. Append(u, t) \in Seq(Arg) /\ s \o Append(u, t) = Append(s \o u, t) OBVIOUS
  <2>2. ReadFrom(q, Append(u, t)) = Step(ReadFrom(q, u), t) BY ReadMore
  <2>3. ASSUME \A i \in DOMAIN Append(u, t) : Append(u, t)[i] \notin Switches
        PROVE  ReadFrom(q, Append(u, t)) = Had(text, x, fresh, mode, <<>>, Append(s \o u, t), Unset)
    <3>1. Len(u) \in Nat /\ DOMAIN u = 1 .. Len(u) /\ DOMAIN Append(u, t) = 1 .. Len(u) + 1
          /\ Append(u, t)[Len(u) + 1] = t /\ \A i \in 1 .. Len(u) : Append(u, t)[i] = u[i]
      OBVIOUS
    <3>2. t \notin Switches /\ \A i \in DOMAIN u : u[i] \notin Switches BY <2>3, <3>1
    <3>3. ReadFrom(q, u) = Had(text, x, fresh, mode, <<>>, s \o u, Unset) BY <1>2, <3>2
    <3> DEFINE r == Had(text, x, fresh, mode, <<>>, s \o u, Unset)
    <3>4. ~NamesFile(r, t) BY DEF NamesFile, Had
    <3>5. Step(r, t) = Word(r, t) BY <3>2 DEF Step, Had, Fine, NoFile
    <3>6. Word(r, t) = Forward(r, t) BY <3>4 DEF Word, Had
    <3>7. Forward(r, t) = Had(text, x, fresh, mode, <<>>, Append(s \o u, t), Unset)
      BY Forwarded
    <3>8. QED BY <2>2, <3>3, <3>5, <3>6, <3>7
  <2>4. QED BY <2>1, <2>3
<1>3. \A u \in S, t \in Arg : Append(u, t) \in S
  <2> HIDE DEF Good
  <2>1. QED BY <1>2
<1>4. S = Seq(Arg)
  <2>1. S \in SUBSET Seq(Arg) OBVIOUS
  <2> HIDE DEF S
  <2>2. QED BY <1>1, <1>3, <2>1, SeqInduction
<1>5. QED BY <1>4

HasFile(text) == text["file"] # Unset

\* What comes after the file is the script's.
LEMMA ScriptRead ==
    ASSUME NEW text, HasFile(text), NEW x, NEW fresh, NEW s, NEW v \in Seq(Arg)
    PROVE  ReadFrom(Had(text, x, fresh, Unset, <<>>, s, Unset), v) = Had(text, x, fresh, Unset, v, s, Unset)
<1> DEFINE q == Had(text, x, fresh, Unset, <<>>, s, Unset)
           Good(u) == ReadFrom(q, u) = Had(text, x, fresh, Unset, u, s, Unset)
           S == {u \in Seq(Arg) : Good(u)}
<1>1. <<>> \in S
  <2>1. <<>> \in Seq(Arg) OBVIOUS
  <2>2. QED BY <2>1, ReadNone
<1>2. ASSUME NEW u \in Seq(Arg), NEW t \in Arg, Good(u)
      PROVE  Append(u, t) \in Seq(Arg) /\ Good(Append(u, t))
  <2>1. Append(u, t) \in Seq(Arg) OBVIOUS
  <2>2. ReadFrom(q, Append(u, t)) = Step(ReadFrom(q, u), t) BY ReadMore
  <2>3. Step(Had(text, x, fresh, Unset, u, s, Unset), t) = Had(text, x, fresh, Unset, Append(u, t), s, Unset)
    BY DEF Step, Had, Fine, HasFile
  <2>4. QED BY <1>2, <2>1, <2>2, <2>3
<1>3. \A u \in S, t \in Arg : Append(u, t) \in S
  <2> HIDE DEF Good
  <2>1. QED BY <1>2
<1>4. S = Seq(Arg)
  <2>1. S \in SUBSET Seq(Arg) OBVIOUS
  <2> HIDE DEF S
  <2>2. QED BY <1>1, <1>3, <2>1, SeqInduction
<1>5. QED BY <1>4

-----------------------------------------------------------------------------
(***************************************************************************)
(* The whole line.                                                         *)
(***************************************************************************)

\* The name of a file.
LEMMA FileStep ==
    ASSUME NEW text, NoFile(text), NEW fresh, NEW x, x # Unset, NEW u,
           NEW a, a \notin Switches \cup Subcommands, a \in Files \/ (u = <<>> /\ a \notin Plus)
    PROVE  Step(Had(text, x, fresh, Unset, <<>>, u, Unset), a) =
               Had([text EXCEPT !["file"] = a], x, fresh, Unset, <<>>, u, Unset)
<1> DEFINE q == Had(text, x, fresh, Unset, <<>>, u, Unset)
<1>1. Step(q, a) = Word(q, a) BY DEF Step, Had, Fine, NoFile
<1>2. NamesFile(q, a) BY DEF NamesFile, Had
<1>3. q.exe # Unset /\ a \notin Subcommands BY DEF Had
<1>4. Word(q, a) = [q EXCEPT !.text["file"] = a]
  <2> HIDE DEF q
  <2>1. QED BY <1>2, <1>3 DEF Word
<1>5. QED BY <1>1, <1>4 DEF Had

\* The code or the file that a flag asks for.
LEMMA ValueRead ==
    ASSUME NEW text, NEW x, NEW fresh, NEW mode, NEW u, NEW want, NEW a,
           want = "file" => a \in Files
    PROVE  Value(Had(text, x, fresh, mode, <<>>, u, want), a) =
               Had([text EXCEPT ![want] = a], x, fresh, mode, <<>>, u, Unset)
<1> DEFINE q == Had(text, x, fresh, mode, <<>>, u, want)
<1>1. q.want = want BY DEF Had
<1>2. (q.want = "file" /\ a \notin Files) = Fine BY <1>1 DEF Fine
<1>3. Value(q, a) = [q EXCEPT !.text[want] = a, !.want = Unset, !.bad = Fine]
  <2> HIDE DEF q
  <2>1. QED BY <1>1, <1>2 DEF Value
<1>4. QED BY <1>3, ZenonT(40) DEF Had

\* Two dashes, and the name of a file.
LEMMA DashesStep ==
    ASSUME NEW text, NoFile(text), NEW fresh, NEW x, x # Unset, NEW u, NEW a \in Files
    PROVE  Step(Step(Had(text, x, fresh, Unset, <<>>, u, Unset), "--"), a) =
               Had([text EXCEPT !["file"] = a], x, fresh, Unset, <<>>, u, Unset)
<1> DEFINE q == Had(text, x, fresh, Unset, <<>>, u, Unset)
           r == Had(text, x, fresh, Unset, <<>>, u, "file")
<1>1. "--" \in Switches BY CommandLineAssumption DEF Switches
<1>2. Step(q, "--") = Switch(q, "--") BY <1>1 DEF Step, Had, Fine, NoFile
<1>3. Switch(q, "--") = r BY DEF Switch, Had
<1>4. Step(r, a) = Value(r, a) BY DEF Step, Had, Fine, Unset
<1>5. Value(r, a) = Had([text EXCEPT !["file"] = a], x, fresh, Unset, <<>>, u, Unset)
  BY ValueRead
<1>6. QED BY <1>2, <1>3, <1>4, <1>5

\* An eval flag, and the code.
LEMMA CodeStep ==
    ASSUME NEW text, NoFile(text), NEW fresh, NEW x, NEW u, NEW a,
           NEW flag \in Switches \ DOMAIN Inline, flag # "--",
           NEW mode, mode # Unset, mode = EvalMode(LangIn(text, x), FlagName[flag])
    PROVE  Step(Step(Had(text, x, fresh, Unset, <<>>, u, Unset), flag), a) =
               Had([text EXCEPT !["code"] = a], x, fresh, mode, <<>>, u, Unset)
<1> DEFINE q == Had(text, x, fresh, Unset, <<>>, u, Unset)
           r == Had(text, x, fresh, mode, <<>>, u, "code")
<1>1. Step(q, flag) = Switch(q, flag) BY DEF Step, Had, Fine, NoFile
<1>2. ResolveLang(q) = LangIn(text, x) BY DEF ResolveLang, LangIn, Had
<1>3. Switch(q, flag) = Consume([q EXCEPT !.evalMode = mode], "code", flag)
  BY <1>2 DEF Switch
<1>4. [q EXCEPT !.evalMode = mode] = Had(text, x, fresh, mode, <<>>, u, Unset) BY DEF Had
<1>5. Consume(Had(text, x, fresh, mode, <<>>, u, Unset), "code", flag) = r BY DEF Consume, Had
<1>6. Step(r, a) = Value(r, a) BY DEF Step, Had, Fine, Unset
<1>7. Value(r, a) = Had([text EXCEPT !["code"] = a], x, fresh, mode, <<>>, u, Unset)
  BY ValueRead
<1>8. QED BY <1>1, <1>3, <1>4, <1>5, <1>6, <1>7

\* The parts of a line of the usage, with the arguments u of the interpreter.
Parts(o, x, u) ==
    /\ OwnLine(o) /\ x \in Arg \ (Switches \cup Subcommands)
    /\ u \in Seq(Arg) /\ (x = Unset => u = <<>>)

HeadOf(o, x, u) == FlattenSeq(o) \o ExeOf(x) \o u

\* What comes before the code or the file.
LEMMA HeadRead ==
    ASSUME NEW o, NEW x, NEW u, Parts(o, x, u), InterpLine(LangIn(Texts(o), x), u)
    PROVE  /\ HeadOf(o, x, u) \in Seq(Arg)
           /\ \E fresh : ReadFrom(Start, HeadOf(o, x, u)) =
                             Had(Texts(o), x, fresh, Unset, <<>>, u, Unset)
<1>1. FlattenSeq(o) \in Seq(Arg) /\ OwnIsRead(o) BY OwnRead DEF Parts
<1>2. NoFile(Texts(o)) BY <1>1, TextsUnread DEF NoFile, OwnIsRead
<1>3. ExeOf(x) \in Seq(Arg) /\ u \in Seq(Arg) BY DEF Parts, ExeOf
<1>4. PICK a \in Seq(Arg), b \in Seq(Arg) : a = FlattenSeq(o) /\ b = ExeOf(x) BY <1>1, <1>3
<1>5. a \o b \in Seq(Arg) /\ (a \o b) \o u \in Seq(Arg) BY <1>3
<1>6. PICK fresh : ReadFrom(Start, a) = Had(Texts(o), Unset, fresh, Unset, <<>>, <<>>, Unset)
  BY <1>1, <1>4 DEF OwnIsRead
<1>7. ReadFrom(Start, a \o b) = ReadFrom(ReadFrom(Start, a), b) BY ReadOn
<1>8. ReadFrom(Start, a \o b) = Had(Texts(o), x, fresh, Unset, <<>>, <<>>, Unset)
  BY <1>2, <1>4, <1>6, <1>7, ExeRead DEF Parts
<1>9. ReadFrom(Start, (a \o b) \o u) = ReadFrom(ReadFrom(Start, a \o b), u)
  <2>1. PICK c \in Seq(Arg) : c = a \o b BY <1>5
  <2>2. ReadFrom(Start, c \o u) = ReadFrom(ReadFrom(Start, c), u) BY <1>3, ReadOn
  <2>3. QED BY <2>1, <2>2
<1>10. ReadFrom(Had(Texts(o), x, fresh, Unset, <<>>, <<>>, Unset), u) =
           Had(Texts(o), x, fresh, Unset, <<>>, u, Unset)
  <2>1. CASE x = Unset BY <2>1, ReadNone DEF Parts
  <2>2. CASE x # Unset BY <1>2, <1>3, <2>2, InterpRead
  <2>3. QED BY <2>1, <2>2
<1>11. QED BY <1>4, <1>5, <1>8, <1>9, <1>10 DEF HeadOf

Opened(p, flag) == IF flag = Unset THEN p ELSE Step(p, flag)

\* What comes after it is read one part after the other.
LEMMA RestRead ==
    ASSUME NEW p, NEW flag \in Arg, NEW a \in Arg, NEW v \in Seq(Arg)
    PROVE  /\ RestOf(flag, a, v) \in Seq(Arg)
           /\ ReadFrom(p, RestOf(flag, a, v)) =
                  ReadFrom(Step(Opened(p, flag), a), v)
<1>1. \A y \in Arg : <<y>> \in Seq(Arg) OBVIOUS
<1>2. PICK f \in Seq(Arg), b \in Seq(Arg) :
          f = (IF flag = Unset THEN <<>> ELSE <<flag>>) /\ b = <<a>>
  <2>1. (IF flag = Unset THEN <<>> ELSE <<flag>>) \in Seq(Arg) /\ <<a>> \in Seq(Arg) BY <1>1
  <2>2. QED BY <2>1
<1>3. f \o b \in Seq(Arg) /\ (f \o b) \o v \in Seq(Arg) OBVIOUS
<1>4. ReadFrom(p, (f \o b) \o v) = ReadFrom(ReadFrom(p, f \o b), v)
  <2>1. PICK c \in Seq(Arg) : c = f \o b BY <1>3
  <2>2. ReadFrom(p, c \o v) = ReadFrom(ReadFrom(p, c), v) BY ReadOn
  <2>3. QED BY <2>1, <2>2
<1>5. ReadFrom(p, f \o b) = ReadFrom(ReadFrom(p, f), b) BY ReadOn
<1>6. ReadFrom(p, f) = Opened(p, flag) BY <1>2, ReadNone, ReadOne DEF Opened
<1>7. \A y : ReadFrom(y, b) = Step(y, a) BY <1>2, ReadOne
<1>8. RestOf(flag, a, v) = (f \o b) \o v BY <1>2 DEF RestOf
<1>9. QED BY <1>3, <1>4, <1>5, <1>6, <1>7, <1>8

LineOf(o, x, u, flag, a, v) == HeadOf(o, x, u) \o RestOf(flag, a, v)

\* The line is read as its head is, and the rest after it.
LEMMA LineRead ==
    ASSUME NEW o, NEW x, NEW u, HeadOf(o, x, u) \in Seq(Arg),
           NEW flag \in Arg, NEW a \in Arg, NEW v \in Seq(Arg)
    PROVE  ReadFrom(Start, LineOf(o, x, u, flag, a, v)) =
               ReadFrom(ReadFrom(Start, HeadOf(o, x, u)), RestOf(flag, a, v))
<1>1. PICK h \in Seq(Arg), s \in Seq(Arg) : h = HeadOf(o, x, u) /\ s = RestOf(flag, a, v)
  BY RestRead
<1>2. ReadFrom(Start, h \o s) = ReadFrom(ReadFrom(Start, h), s) BY ReadOn
<1>3. QED BY <1>1, <1>2 DEF LineOf

\* A line with code.
LEMMA CodeLine ==
    ASSUME NEW o, NEW x, NEW u, Parts(o, x, u), InterpLine(LangIn(Texts(o), x), u),
           NEW flag \in Arg, NEW a \in Arg, NEW v \in Seq(Arg),
           flag \in Switches \ DOMAIN Inline, flag # "--", flag # Unset,
           \A i \in DOMAIN v : v[i] \notin Switches,
           NEW mode, mode # Unset, mode = EvalMode(LangIn(Texts(o), x), FlagName[flag])
    PROVE  \E fresh : ReadFrom(Start, LineOf(o, x, u, flag, a, v)) =
                          Had([Texts(o) EXCEPT !["code"] = a], x, fresh, mode, <<>>, u \o v, Unset)
<1>1. HeadOf(o, x, u) \in Seq(Arg) BY HeadRead
<1>2. PICK fresh : ReadFrom(Start, HeadOf(o, x, u)) =
                       Had(Texts(o), x, fresh, Unset, <<>>, u, Unset)
  BY HeadRead
<1> DEFINE q == Had(Texts(o), x, fresh, Unset, <<>>, u, Unset)
           text == [Texts(o) EXCEPT !["code"] = a]
<1>3. ReadFrom(Start, LineOf(o, x, u, flag, a, v)) = ReadFrom(q, RestOf(flag, a, v))
  BY <1>1, <1>2, LineRead
<1>4. ReadFrom(q, RestOf(flag, a, v)) = ReadFrom(Step(Step(q, flag), a), v) BY RestRead DEF Opened
<1>5. NoFile(Texts(o)) BY OwnRead, TextsUnread DEF Parts, OwnIsRead, NoFile
<1>6. Step(Step(q, flag), a) = Had(text, x, fresh, mode, <<>>, u, Unset) BY <1>5, CodeStep
<1>7. NoFile(text)
  <2>1. text["file"] = Texts(o)["file"] BY <1>5 DEF NoFile
  <2>2. QED BY <1>5, <2>1 DEF NoFile
<1>8. u \in Seq(Arg) BY DEF Parts
<1>9. ReadFrom(Had(text, x, fresh, mode, <<>>, u, Unset), v) =
          Had(text, x, fresh, mode, <<>>, u \o v, Unset)
  BY <1>7, <1>8, ForwardRead
<1>10. QED BY <1>3, <1>4, <1>6, <1>9

\* A line with a file.
LEMMA FileLine ==
    ASSUME NEW o, NEW x, NEW u, Parts(o, x, u), InterpLine(LangIn(Texts(o), x), u),
           NEW flag \in Arg, NEW a \in Arg, NEW v \in Seq(Arg), x # Unset, a # Unset,
           \/ flag = "--" /\ flag # Unset /\ a \in Files
           \/ /\ flag = Unset /\ a \notin Switches \cup Subcommands
              /\ a \in Files \/ (u = <<>> /\ a \notin Plus)
    PROVE  \E fresh : ReadFrom(Start, LineOf(o, x, u, flag, a, v)) =
                          Had([Texts(o) EXCEPT !["file"] = a], x, fresh, Unset, v, u, Unset)
<1>1. HeadOf(o, x, u) \in Seq(Arg) BY HeadRead
<1>2. PICK fresh : ReadFrom(Start, HeadOf(o, x, u)) =
                       Had(Texts(o), x, fresh, Unset, <<>>, u, Unset)
  BY HeadRead
<1> DEFINE q == Had(Texts(o), x, fresh, Unset, <<>>, u, Unset)
           text == [Texts(o) EXCEPT !["file"] = a]
           r == Had(text, x, fresh, Unset, <<>>, u, Unset)
<1>3. ReadFrom(Start, LineOf(o, x, u, flag, a, v)) = ReadFrom(q, RestOf(flag, a, v))
  BY <1>1, <1>2, LineRead
<1>4. ReadFrom(q, RestOf(flag, a, v)) = ReadFrom(Step(Opened(q, flag), a), v) BY RestRead
<1>5. NoFile(Texts(o)) BY OwnRead, TextsUnread DEF Parts, OwnIsRead, NoFile
<1>6. Step(Opened(q, flag), a) = r BY <1>5, FileStep, DashesStep DEF Opened
<1>7. HasFile(text)
  <2>1. "file" \in Fields BY DEF Fields
  <2>2. QED BY <1>5, <2>1 DEF NoFile, HasFile
<1>8. ReadFrom(r, v) = Had(text, x, fresh, Unset, v, u, Unset) BY <1>7, ScriptRead
<1>9. QED BY <1>3, <1>4, <1>6, <1>8

-----------------------------------------------------------------------------
(***************************************************************************)
(* The lines of the usage.                                                 *)
(***************************************************************************)

\* A sequence over a set is one over a wider set.
LEMMA SeqWider ==
    ASSUME NEW S, NEW T, S \subseteq T, NEW s \in Seq(S)
    PROVE  s \in Seq(T)
  OBVIOUS

\* The parts are those of a line as it is read above.
LEMMA PartsAre ==
    /\ Line = LineOf(parts.own, parts.exe, Interp, parts.flag, parts.arg, parts.rest)
    /\ Own = FlattenSeq(parts.own) /\ ExeArg = ExeOf(parts.exe)
    /\ Rest = RestOf(parts.flag, parts.arg, parts.rest)
    /\ \A f : Given(f) = GivenIn(parts.own, f)
    /\ \A f \in OwnFlags : Texts(parts.own)[f] = Given(f)
    /\ Lang = LangIn(Texts(parts.own), parts.exe)
<1>1. Own = FlattenSeq(parts.own) BY DEF Own
<1>2. ExeArg = ExeOf(parts.exe) BY DEF ExeArg, ExeOf
<1>3. Rest = RestOf(parts.flag, parts.arg, parts.rest) BY DEF Rest, RestOf
<1>4. Line = LineOf(parts.own, parts.exe, Interp, parts.flag, parts.arg, parts.rest)
  BY <1>1, <1>2, <1>3 DEF Line, LineOf, HeadOf
<1>5. ASSUME NEW f PROVE Given(f) = GivenIn(parts.own, f)
  BY DEF Given, GivenIn, About, ValueOf
<1>6. ASSUME NEW f \in OwnFlags PROVE Texts(parts.own)[f] = Given(f)
  <2>1. f \in Fields BY DEF Fields
  <2>2. QED BY <1>5, <2>1 DEF Texts
<1>7. Lang = LangIn(Texts(parts.own), parts.exe)
  <2>1. "lang" \in OwnFlags BY DEF OwnFlags
  <2>2. QED BY <1>6, <2>1 DEF Lang, LangIn
<1>8. QED BY <1>1, <1>2, <1>3, <1>4, <1>5, <1>6, <1>7

\* A line of the usage has such parts.
LEMMA UsageForm ==
    ASSUME Usage
    PROVE  /\ Parts(parts.own, parts.exe, Interp)
           /\ parts.flag \in Arg /\ parts.arg \in Arg /\ parts.rest \in Seq(Arg)
<1>1. STRING \subseteq Arg BY DEF Arg
<1>2. Seq(STRING) \subseteq Seq(Arg) BY <1>1, SeqWider
<1>3. \A s \in Seq(Seq(STRING)) : s \in Seq(Seq(Arg)) BY <1>2, SeqWider
<1>4. parts.own \in Seq(Seq(Arg)) /\ parts.interp \in Seq(Seq(Arg)) BY <1>3 DEF Usage
<1>5. OwnLine(parts.own) BY <1>4 DEF OwnLine, Usage
<1>6. FlattenSeq(parts.interp) \in Seq(Arg)
  <2>1. <<>> \in Seq(Arg) OBVIOUS
  <2>2. QED BY <1>4, <2>1, FlattenMore
<1>7. parts.exe \in Arg \ (Switches \cup Subcommands) /\ parts.flag \in Arg /\ parts.arg \in Arg
  BY <1>1 DEF Usage
<1>8. parts.rest \in Seq(Arg) BY <1>2 DEF Usage
<1>9. Interp \in Seq(Arg) BY <1>6 DEF Interp
<1>10. parts.exe = Unset => Interp = <<>> BY DEF Usage
<1>11. QED BY <1>5, <1>7, <1>8, <1>9, <1>10 DEF Parts

\* What parseArgs makes of an unambiguous line.
LEMMA LineIsParsed ==
    ASSUME Usage, Unambiguous
    PROVE  \E fresh :
               parseArgs(Line) =
                   IF Mode = Unset
                   THEN Had([Texts(parts.own) EXCEPT !["file"] = parts.arg], parts.exe, fresh,
                            Unset, parts.rest, Interp, Unset)
                   ELSE Had([Texts(parts.own) EXCEPT !["code"] = parts.arg], parts.exe, fresh,
                            Mode, <<>>, Interp \o parts.rest, Unset)
<1>1. Parts(parts.own, parts.exe, Interp) /\ parts.flag \in Arg /\ parts.arg \in Arg
      /\ parts.rest \in Seq(Arg)
  BY UsageForm
<1>2. InterpLine(LangIn(Texts(parts.own), parts.exe), Interp)
  BY PartsAre DEF Unambiguous, InterpLine
<1>3. parseArgs(Line) =
          ReadFrom(Start, LineOf(parts.own, parts.exe, Interp, parts.flag, parts.arg, parts.rest))
  BY PartsAre DEF parseArgs
<1>4. CASE parts.flag \in {Unset, "--"}
  <2>1. Mode = Unset BY <1>4 DEF Mode
  <2>2. parts.exe # Unset /\ parts.arg # Unset /\ (parts.flag = Unset => parts.arg \notin Switches)
    BY <1>4 DEF Usage
  <2>3. \/ parts.flag = "--" /\ parts.flag # Unset /\ parts.arg \in Files
        \/ /\ parts.flag = Unset /\ parts.arg \notin Switches \cup Subcommands
           /\ parts.arg \in Files \/ (Interp = <<>> /\ parts.arg \notin Plus)
    BY <1>4, <2>2 DEF Unambiguous, Unset
  <2>4. QED BY <1>1, <1>2, <1>3, <2>1, <2>2, <2>3, FileLine
<1>5. CASE parts.flag \notin {Unset, "--"}
  <2>1. Mode # Unset BY <1>5 DEF Unambiguous
  <2>2. Mode = EvalMode(LangIn(Texts(parts.own), parts.exe), FlagName[parts.flag])
    BY <1>5, PartsAre DEF Mode
  <2>3. parts.flag \in Switches \ DOMAIN Inline
        /\ \A i \in DOMAIN parts.rest : parts.rest[i] \notin Switches
    BY <1>5 DEF Usage
  <2>4. QED BY <1>1, <1>2, <1>3, <1>5, <2>1, <2>2, <2>3, CodeLine
<1>6. QED BY <1>4, <1>5

\* An unambiguous line of the usage is taken apart into the parts it was made of: go/main.go's
\* parseArgs, for every line and all flags, files and executables.
THEOREM UsageParsed == UsageIsParsed
<1> SUFFICES ASSUME Usage, Unambiguous
             PROVE  LET p == parseArgs(Line) IN
                    /\ ~p.bad /\ p.want = Unset /\ p.sub = Unset /\ p.exe = parts.exe
                    /\ \A f \in OwnFlags : p.text[f] = Given(f)
                    /\ p.evalMode = Mode
                    /\ IF Mode = Unset
                       THEN /\ p.text["file"] = parts.arg /\ p.fileArgs = parts.rest
                            /\ p.fwd = Interp
                       ELSE /\ p.text["code"] = parts.arg /\ p.text["file"] = Unset
                            /\ p.fwd = Interp \o parts.rest
  BY DEF UsageIsParsed
<1>1. PICK fresh :
          parseArgs(Line) =
              IF Mode = Unset
              THEN Had([Texts(parts.own) EXCEPT !["file"] = parts.arg], parts.exe, fresh,
                       Unset, parts.rest, Interp, Unset)
              ELSE Had([Texts(parts.own) EXCEPT !["code"] = parts.arg], parts.exe, fresh,
                       Mode, <<>>, Interp \o parts.rest, Unset)
  BY LineIsParsed
<1>2. "file" \in Fields /\ "code" \in Fields /\ "file" \notin OwnFlags /\ "code" \notin OwnFlags
      /\ OwnFlags \subseteq Fields
  BY DEF Fields, OwnFlags
<1>3. Texts(parts.own)["file"] = Unset BY TextsUnread
<1>4. DOMAIN Texts(parts.own) = Fields BY DEF Texts
<1>5. CASE Mode = Unset BY <1>1, <1>2, <1>4, <1>5, PartsAre DEF Had, Fine
<1>6. CASE Mode # Unset BY <1>1, <1>2, <1>3, <1>4, <1>6, PartsAre DEF Had, Fine
<1>7. QED BY <1>5, <1>6

-----------------------------------------------------------------------------
(***************************************************************************)
(* What is asked of the daemon.                                            *)
(***************************************************************************)

\* Code for a session with a label.
LEMMA LabelRequest ==
    ASSUME NEW args, NEW text, NEW x, NEW fresh, NEW mode, mode # Unset, NEW u,
           text["session"] # Unset,
           parseArgs(args) = Had(text, x, fresh, mode, <<>>, u, Unset)
    PROVE  LET r == Request(args) IN
           /\ r.action = "eval" /\ Key(r) = <<"label", text["session"]>>
           /\ r.code = IF text["code"] = "-" THEN "stdin" ELSE text["code"]
           /\ r.printResult = (mode = "print")
           /\ Or(text["lang"], langForExe(x)) = Unset /\ x = Unset => r.requireExisting
<1> DEFINE p == Had(text, x, fresh, mode, <<>>, u, Unset)
           r == EvalRequest(p)
<1>1. ~p.bad /\ p.want = Unset /\ p.sub = Unset /\ p.text["session"] # Unset BY DEF Had, Fine
<1>2. Unset \notin Verbs BY DEF Verbs, Unset
<1>3. p.evalMode = mode /\ p.text = text /\ p.exe = x BY DEF Had
<1>4. Request(args) = r
  <2> HIDE DEF r, p
  <2>1. Request(args) = EvalRequest(p) BY <1>1, <1>2, <1>3 DEF Request, ReadsInput, p
  <2>2. QED BY <2>1 DEF r
<1>5. r.action = "eval" /\ r.id = Unset /\ r.session = text["session"]
      /\ r.code = (IF text["code"] = "-" THEN "stdin" ELSE text["code"])
      /\ r.printResult = (mode = "print") /\ r.requireExisting = RequireExisting(p)
  <2> HIDE DEF p
  <2>1. ~(p.evalMode = Unset /\ p.text["file"] # Unset) /\ p.evalMode # Unset BY <1>3
  <2>2. r.action = "eval" /\ r.id = Unset /\ r.session = text["session"] BY <1>3 DEF EvalRequest
  <2>3. r.code = (IF text["code"] = "-" THEN "stdin" ELSE text["code"])
    BY <1>3, <2>1 DEF EvalRequest
  <2>4. r.printResult = (mode = "print") BY <1>3 DEF EvalRequest
  <2>5. r.requireExisting = RequireExisting(p) BY <2>1 DEF EvalRequest, RequireExisting
  <2>6. QED BY <2>2, <2>3, <2>4, <2>5
<1>6. Key(r) = <<"label", text["session"]>>
  <2> HIDE DEF r
  <2>1. QED BY <1>5 DEF Key
<1>7. Or(text["lang"], langForExe(x)) = Unset /\ x = Unset => RequireExisting(p)
  <2> HIDE DEF p
  <2>1. QED BY <1>3 DEF RequireExisting, ResolveLang
<1>8. QED
  <2> HIDE DEF r, p
  <2>1. QED BY <1>4, <1>5, <1>6, <1>7

\* A flag that is understood with the line's language is understood the same way without
\* one, unless the language is wolfram.
LEMMA ModeWithoutLang ==
    ASSUME NEW lang, lang # "wolfram", NEW name, EvalMode(lang, name) # Unset
    PROVE  EvalMode(Unset, name) = EvalMode(lang, name)
<1>1. Langs = {"julia", "python", "r", "wolfram"} BY DEF Langs, EvalFlags
<1>2. Unset \notin Langs BY <1>1 DEF Unset
<1>3. EvalMode(Unset, name) = IF name \in {"e", "eval", "c", "command"} THEN "eval"
                            ELSE IF name \in {"E", "print"} THEN "print" ELSE Unset
  BY <1>2 DEF EvalMode, evalPrintFlags
<1>4. CASE lang \notin Langs BY <1>3, <1>4 DEF EvalMode, evalPrintFlags
<1>5. CASE lang = "python"
  <2>1. EvalMode(lang, name) = IF name \in {"c", "command"} THEN "eval" ELSE Unset
    BY <1>1, <1>5 DEF EvalMode, evalPrintFlags, EvalFlags, PrintFlags
  <2>2. QED BY <1>3, <2>1
<1>6. CASE lang \in {"julia", "r"}
  <2>1. EvalMode(lang, name) = IF name \in {"e", "eval"} THEN "eval"
                              ELSE IF lang = "julia" /\ name \in {"E", "print"} THEN "print"
                              ELSE Unset
    BY <1>1, <1>6 DEF EvalMode, evalPrintFlags, EvalFlags, PrintFlags
  <2>2. QED BY <1>3, <2>1
<1>7. QED BY <1>1, <1>4, <1>5, <1>6

\* The label alone, as an own flag.
LEMMA LabelIsOwn ==
    ASSUME Usage
    PROVE  /\ Parts(<<Label>>, Unset, <<>>) /\ HeadOf(<<Label>>, Unset, <<>>) = Label
           /\ Texts(<<Label>>)["session"] = Given("session")
           /\ LangIn(Texts(<<Label>>), Unset) = Unset
<1>1. OwnLine(parts.own) BY UsageForm DEF Parts
<1>2. Given("session") \in Arg
  <2>1. Texts(parts.own) \in [Fields -> Arg] BY <1>1, OwnRead DEF OwnIsRead
  <2>2. "session" \in OwnFlags /\ "session" \in Fields BY DEF OwnFlags, Fields
  <2>3. QED BY <2>1, <2>2, PartsAre
<1>3. Label \in Seq(Arg) /\ Len(Label) = 2 /\ Label[1] = "--session" /\ Label[2] = Given("session")
  <2>1. "--session" \in Arg BY DEF Arg
  <2>2. QED BY <1>2, <2>1 DEF Label
<1>4. FlagName[Label[1]] = "session" /\ Label[1] \in Switches \ DOMAIN Inline
  BY <1>3, CommandLineAssumption DEF Switches
<1>5. OwnGroup(Label) BY <1>3, <1>4 DEF OwnGroup, OwnFlags
<1>6. <<Label>> \in Seq(Seq(Arg)) /\ <<>> \in Seq(Seq(Arg)) /\ Append(<<>>, Label) = <<Label>>
      /\ Len(<<Label>>) = 1 /\ <<Label>>[1] = Label
  BY <1>3
<1>7. OwnLine(<<Label>>) BY <1>5, <1>6 DEF OwnLine
<1>8. Unset \in Arg \ (Switches \cup Subcommands)
  <2>1. Unset \notin Switches BY CommandLineAssumption DEF Switches
  <2>2. Unset \notin Subcommands BY DEF Subcommands, Verbs, Unset
  <2>3. QED BY <2>1, <2>2 DEF Arg
<1>9. Parts(<<Label>>, Unset, <<>>)
  <2>1. <<>> \in Seq(Arg) OBVIOUS
  <2>2. QED BY <1>7, <1>8, <2>1 DEF Parts
<1>10. HeadOf(<<Label>>, Unset, <<>>) = Label
  <2>1. FlattenSeq(<<Label>>) = Label BY <1>3, FlattenFirst
  <2>2. Label \o <<>> = Label BY <1>3
  <2>3. QED BY <2>1, <2>2 DEF HeadOf, ExeOf
<1>11. \A f : GivenIn(<<Label>>, f) = IF f = "session" THEN Given("session") ELSE Unset
  <2>1. \A f : GivenIn(Append(<<>>, Label), f) =
                  IF FlagName[Label[1]] = f THEN ValueOf(Label) ELSE GivenIn(<<>>, f)
    BY <1>3, <1>6, GivenMore
  <2>2. ValueOf(Label) = Given("session") BY <1>3 DEF ValueOf
  <2>3. \A f : GivenIn(<<>>, f) = Unset BY DEF GivenIn, About
  <2>4. QED BY <1>4, <1>6, <2>1, <2>2, <2>3
<1>12. Texts(<<Label>>)["session"] = Given("session") /\ Texts(<<Label>>)["lang"] = Unset
  BY <1>11 DEF Texts, Fields, OwnFlags
<1>13. langForExe(Unset) = Unset BY CommandLineAssumption DEF langForExe, At
<1>14. LangIn(Texts(<<Label>>), Unset) = Unset BY <1>12, <1>13 DEF LangIn, Or
<1>15. QED BY <1>9, <1>10, <1>12, <1>14

\* A session with a label is reached again by the label and the code alone (main.go:255).
THEOREM LabelReaches == LabelReuses
<1> SUFFICES ASSUME Usage, Unambiguous, Given("session") # Unset, Mode # Unset, Lang # "wolfram"
             PROVE  LET r == Request(Line)
                        again == Request(Label \o Rest)
                    IN  /\ again.action = "eval" /\ again.requireExisting
                        /\ Key(again) = Key(r)
                        /\ again.code = r.code /\ again.printResult = r.printResult
  BY DEF LabelReuses
<1> DEFINE text == [Texts(parts.own) EXCEPT !["code"] = parts.arg]
           other == [Texts(<<Label>>) EXCEPT !["code"] = parts.arg]
<1>1. PICK fresh : parseArgs(Line) =
                       Had(text, parts.exe, fresh, Mode, <<>>, Interp \o parts.rest, Unset)
  BY LineIsParsed
<1>2. parts.flag \notin {Unset, "--"} /\ Mode = EvalMode(Lang, FlagName[parts.flag]) BY DEF Mode
<1>3. Mode = EvalMode(LangIn(Texts(<<Label>>), Unset), FlagName[parts.flag])
  BY <1>2, LabelIsOwn, ModeWithoutLang
<1>4. InterpLine(LangIn(Texts(<<Label>>), Unset), <<>>) BY DEF InterpLine
<1>5. parts.flag \in Arg /\ parts.arg \in Arg /\ parts.rest \in Seq(Arg) BY UsageForm
<1>6. parts.flag \in Switches \ DOMAIN Inline
      /\ \A i \in DOMAIN parts.rest : parts.rest[i] \notin Switches
  BY <1>2 DEF Usage
<1>7. Label \o Rest = LineOf(<<Label>>, Unset, <<>>, parts.flag, parts.arg, parts.rest)
  BY PartsAre, LabelIsOwn DEF LineOf
<1>8. PICK anew : parseArgs(Label \o Rest) =
                      Had(other, Unset, anew, Mode, <<>>, <<>> \o parts.rest, Unset)
  <2>1. Parts(<<Label>>, Unset, <<>>) BY LabelIsOwn
  <2>2. \E new : ReadFrom(Start, LineOf(<<Label>>, Unset, <<>>, parts.flag, parts.arg, parts.rest)) =
                     Had(other, Unset, new, Mode, <<>>, <<>> \o parts.rest, Unset)
    <3>1. PICK o, u : o = <<Label>> /\ u = <<>> OBVIOUS
    <3>2. Parts(o, Unset, u) /\ InterpLine(LangIn(Texts(o), Unset), u)
          /\ Mode = EvalMode(LangIn(Texts(o), Unset), FlagName[parts.flag])
      BY <1>3, <1>4, <2>1, <3>1
    <3>3. parts.flag # "--" /\ parts.flag # Unset BY <1>2
    <3>4. \E new : ReadFrom(Start, LineOf(o, Unset, u, parts.flag, parts.arg, parts.rest)) =
                       Had([Texts(o) EXCEPT !["code"] = parts.arg], Unset, new, Mode, <<>>,
                           u \o parts.rest, Unset)
      BY <1>5, <1>6, <3>2, <3>3, CodeLine
    <3>5. QED BY <3>1, <3>4
  <2>3. QED BY <1>7, <2>2 DEF parseArgs
<1>9. text["session"] = Given("session") /\ text["code"] = parts.arg
  <2>1. "session" \in OwnFlags /\ "code" \in Fields BY DEF OwnFlags, Fields
  <2>2. DOMAIN Texts(parts.own) = Fields BY DEF Texts
  <2>3. QED BY <2>1, <2>2, PartsAre
<1>10. other["session"] = Given("session") /\ other["code"] = parts.arg
       /\ Or(other["lang"], langForExe(Unset)) = Unset
  <2>1. DOMAIN Texts(<<Label>>) = Fields /\ "code" \in Fields BY DEF Texts, Fields
  <2>2. QED BY <2>1, LabelIsOwn DEF LangIn
<1>11. LET r == Request(Line) IN
       /\ Key(r) = <<"label", Given("session")>>
       /\ r.code = IF parts.arg = "-" THEN "stdin" ELSE parts.arg
       /\ r.printResult = (Mode = "print")
  <2> HIDE DEF text
  <2>1. QED BY <1>1, <1>9, LabelRequest
<1>12. LET again == Request(Label \o Rest) IN
       /\ again.action = "eval" /\ again.requireExisting
       /\ Key(again) = <<"label", Given("session")>>
       /\ again.code = IF parts.arg = "-" THEN "stdin" ELSE parts.arg
       /\ again.printResult = (Mode = "print")
  <2> HIDE DEF other
  <2>1. QED BY <1>8, <1>10, LabelRequest
<1>13. QED BY <1>11, <1>12

-----------------------------------------------------------------------------
(***************************************************************************)
(* What an eval asks for, however much of its line is understood.          *)
(***************************************************************************)

\* What parseArgs has, once it is past the own flags.
States(B) ==
    [text : [Fields -> Arg], exe : Arg, fresh : B, evalMode : {Unset, "eval", "print"},
     fileArgs : Seq(Arg), fwd : Seq(Arg), sub : Subcommands \cup {Unset}, subArgs : Seq(Arg),
     want : {Unset, "code", "file"}, bad : BOOLEAN]

\* The language, the label and the executable are settled: with an executable for good,
\* without one as long as no own flag follows.
Settled(B, p, lang, label, x) ==
    /\ p \in States(B) /\ p.exe = x /\ p.text["lang"] = lang /\ p.text["session"] = label
    /\ x = Unset => /\ p.sub = Unset /\ p.text["file"] = Unset /\ p.want # "file"
                    /\ p.fwd # <<>> \/ p.evalMode # Unset

\* A sequence with an element appended is not empty.
LEMMA AppendIs ==
    ASSUME NEW T, NEW v \in Seq(T), NEW t \in T
    PROVE  Append(v, t) \in Seq(T) /\ Append(v, t) # <<>>
<1>1. Len(Append(v, t)) = Len(v) + 1 /\ Len(v) \in Nat /\ Len(<<>>) = 0 OBVIOUS
<1>2. QED BY <1>1

\* A value for the code or the file says nothing of the language or the label.
LEMMA SettledValue ==
    ASSUME NEW B, NEW p, NEW lang, NEW label, NEW x, Settled(B, p, lang, label, x),
           NEW t \in Arg, NEW want \in {"code", "file"}, x = Unset => want = "code",
           NEW bad \in BOOLEAN
    PROVE  /\ Settled(B, [p EXCEPT !.text[want] = t], lang, label, x)
           /\ Settled(B, [p EXCEPT !.text[want] = t, !.want = Unset, !.bad = bad], lang, label, x)
<1> DEFINE text == [p.text EXCEPT ![want] = t]
<1>1. p \in States(B) /\ p.text \in [Fields -> Arg] BY DEF Settled, States
<1>2. want \in Fields /\ "lang" # want /\ "session" # want
      /\ "lang" \in Fields /\ "session" \in Fields /\ "file" \in Fields
  BY DEF Fields, OwnFlags
<1>3. text \in [Fields -> Arg] /\ text["lang"] = lang /\ text["session"] = label
      /\ (x = Unset => text["file"] = Unset)
  BY <1>1, <1>2 DEF Settled
<1>4. [p EXCEPT !.text[want] = t] = [p EXCEPT !.text = text] BY <1>1
<1>5. [p EXCEPT !.text[want] = t, !.want = Unset, !.bad = bad] =
          [p EXCEPT !.text = text, !.want = Unset, !.bad = bad]
  BY <1>1
<1> HIDE DEF text
<1>6. Settled(B, [p EXCEPT !.text = text], lang, label, x)
  BY <1>1, <1>3, SMTT(30) DEF Settled, States
<1>7. Settled(B, [p EXCEPT !.text = text, !.want = Unset, !.bad = bad], lang, label, x)
  <2>1. Unset # "file" BY DEF Unset
  <2>2. QED BY <1>1, <1>3, <2>1, ZenonT(40) DEF Settled, States
<1>8. QED BY <1>4, <1>5, <1>6, <1>7

\* Every argument leaves them settled.
LEMMA SettledStep ==
    ASSUME NEW B, TRUE \in B, NEW p, NEW lang, NEW label, NEW x, Settled(B, p, lang, label, x),
           NEW t \in Arg,
           x = Unset /\ p.want = Unset /\ t \in Switches => FlagName[t] \notin OwnFlags
    PROVE  Settled(B, Step(p, t), lang, label, x)
<1>1. "lang" \in Fields /\ "session" \in Fields /\ "code" \in Fields /\ "file" \in Fields
  BY DEF Fields, OwnFlags
<1>2. p \in States(B) BY DEF Settled
<1>3. \A v \in Seq(Arg) : Append(v, t) \in Seq(Arg) /\ Append(v, t) # <<>> BY AppendIs
<1>4. Settled(B, Forward(p, t), lang, label, x) BY <1>2, <1>3 DEF Settled, States, Forward
<1>5. CASE p.bad BY <1>5 DEF Step
<1>6. CASE ~p.bad /\ p.sub # Unset
  <2>1. Step(p, t) = [p EXCEPT !.subArgs = Append(@, t)] BY <1>6 DEF Step
  <2>2. QED BY <1>2, <1>3, <2>1, ZenonT(40) DEF Settled, States
<1>7. CASE ~p.bad /\ p.sub = Unset /\ p.want # Unset
  <2>1. Step(p, t) = Value(p, t) BY <1>7 DEF Step
  <2>2. p.want \in {"code", "file"} BY <1>2, <1>7 DEF States
  <2>3. x = Unset => p.want = "code" BY <2>2 DEF Settled
  <2>4. \A bad \in BOOLEAN, want \in {"code", "file"} : (x = Unset => want = "code") =>
            Settled(B, [p EXCEPT !.text[want] = t, !.want = Unset, !.bad = bad], lang, label, x)
    BY SettledValue
  <2>5. (p.want = "file" /\ t \notin Files) \in BOOLEAN OBVIOUS
  <2>6. QED BY <2>1, <2>2, <2>3, <2>4, <2>5, Zenon DEF Value
<1>8. CASE ~p.bad /\ p.sub = Unset /\ p.want = Unset /\ p.text["file"] # Unset
  <2>1. Step(p, t) = [p EXCEPT !.fileArgs = Append(@, t)] BY <1>8 DEF Step
  <2>2. QED BY <1>2, <1>3, <1>8, <2>1, ZenonT(40) DEF Settled, States
<1>9. CASE ~p.bad /\ p.sub = Unset /\ p.want = Unset /\ p.text["file"] = Unset /\ t \in Switches
  <2>1. Step(p, t) = Switch(p, t) BY <1>9 DEF Step
  <2> DEFINE name == FlagName[t]
             mode == EvalMode(ResolveLang(p), name)
  <2>2. CASE t = "--" /\ p.exe # Unset /\ p.evalMode = Unset
    <3>1. Switch(p, t) = [p EXCEPT !.want = "file"] BY <2>2 DEF Switch
    <3>2. QED BY <1>2, <2>1, <2>2, <3>1, SMTT(30) DEF Settled, States
  <2>3. CASE ~(t = "--" /\ p.exe # Unset /\ p.evalMode = Unset) /\ mode # Unset
    <3> DEFINE q == [p EXCEPT !.evalMode = mode]
    <3>1. Switch(p, t) = Consume(q, "code", t) BY <2>3 DEF Switch
    <3>2. mode \in {"eval", "print"} BY <2>3, ModeIsNamed DEF Unset
    <3>3. Settled(B, q, lang, label, x) /\ q.evalMode # Unset
      <4> HIDE DEF mode
      <4>1. QED BY <1>2, <2>3, <3>2, SMTT(30) DEF Settled, States
    <3>4. \A y \in Arg : Settled(B, [q EXCEPT !.text["code"] = y], lang, label, x)
      <4> HIDE DEF q
      <4>1. QED BY <1>1, <3>3, ZenonT(40) DEF Settled, States
    <3>5. Settled(B, [q EXCEPT !.want = "code"], lang, label, x)
      <4> HIDE DEF q
      <4>1. QED BY <3>3, ZenonT(40) DEF Settled, States
    <3>6. t \in DOMAIN Inline => Inline[t] \in Arg BY CommandLineAssumption DEF Arg
    <3>7. Settled(B, Consume(q, "code", t), lang, label, x)
      <4> HIDE DEF q
      <4>1. QED BY <3>4, <3>5, <3>6 DEF Consume
    <3>8. QED BY <2>1, <3>1, <3>7
  <2>4. CASE ~(t = "--" /\ p.exe # Unset /\ p.evalMode = Unset) /\ mode = Unset
    <3>1. ~(name \in OwnFlags /\ p.exe = Unset) BY <1>9 DEF Settled
    <3>2. Switch(p, t) = IF name = "fresh" /\ p.exe = Unset THEN [p EXCEPT !.fresh = TRUE]
                         ELSE Forward(p, t)
      BY <2>4, <3>1 DEF Switch
    <3>3. Settled(B, [p EXCEPT !.fresh = TRUE], lang, label, x) BY <1>2, ZenonT(40) DEF Settled, States
    <3>4. QED BY <1>4, <2>1, <3>2, <3>3
  <2>5. QED BY <2>2, <2>3, <2>4
<1>10. CASE ~p.bad /\ p.sub = Unset /\ p.want = Unset /\ p.text["file"] = Unset /\ t \notin Switches
  <2>1. Step(p, t) = Word(p, t) BY <1>10 DEF Step
  <2>2. CASE NamesFile(p, t)
    <3>1. p.exe # Unset /\ t \notin Subcommands BY <2>2 DEF NamesFile
    <3>2. Word(p, t) = [p EXCEPT !.text["file"] = t] BY <2>2, <3>1 DEF Word
    <3>3. x # Unset BY <3>1 DEF Settled
    <3>4. \A bad \in BOOLEAN, want \in {"code", "file"} :
              Settled(B, [p EXCEPT !.text[want] = t], lang, label, x)
      BY <3>3, SettledValue
    <3>5. QED BY <2>1, <3>2, <3>4
  <2>3. CASE ~NamesFile(p, t) /\ p.evalMode = Unset /\ p.fwd = <<>> /\ t \in Subcommands
    <3>1. Word(p, t) = [p EXCEPT !.sub = t] BY <2>3 DEF Word
    <3>2. x # Unset BY <2>3 DEF Settled
    <3>3. QED BY <1>2, <2>1, <2>3, <3>1, <3>2, SMTT(30) DEF Settled, States
  <2>4. CASE ~NamesFile(p, t) /\ ~(p.evalMode = Unset /\ p.fwd = <<>> /\ t \in Subcommands)
    <3>1. ~(p.exe = Unset /\ p.evalMode = Unset /\ p.fwd = <<>>) BY DEF Settled
    <3>2. Word(p, t) = Forward(p, t) BY <2>4, <3>1 DEF Word
    <3>3. QED BY <1>4, <2>1, <3>2
  <2>5. QED BY <2>2, <2>3, <2>4
<1>11. p.bad \in BOOLEAN BY <1>2 DEF States
<1>12. QED BY <1>5, <1>6, <1>7, <1>8, <1>9, <1>10, <1>11

\* So do any arguments.
LEMMA SettledRead ==
    ASSUME NEW B, TRUE \in B, NEW p, NEW lang, NEW label, NEW x, Settled(B, p, lang, label, x),
           NEW v \in Seq(Arg), x = Unset => \A i \in DOMAIN v : v[i] \notin Switches
    PROVE  Settled(B, ReadFrom(p, v), lang, label, x)
<1> DEFINE Good(u) == (x = Unset => \A i \in DOMAIN u : u[i] \notin Switches) =>
                          Settled(B, ReadFrom(p, u), lang, label, x)
           S == {u \in Seq(Arg) : Good(u)}
<1>1. <<>> \in S
  <2>1. <<>> \in Seq(Arg) OBVIOUS
  <2>2. QED BY <2>1, ReadNone
<1>2. ASSUME NEW u \in Seq(Arg), NEW t \in Arg, Good(u)
      PROVE  Append(u, t) \in Seq(Arg) /\ Good(Append(u, t))
  <2>1. Append(u, t) \in Seq(Arg) OBVIOUS
  <2>2. ReadFrom(p, Append(u, t)) = Step(ReadFrom(p, u), t) BY ReadMore
  <2>3. ASSUME x = Unset => \A i \in DOMAIN Append(u, t) : Append(u, t)[i] \notin Switches
        PROVE  Settled(B, ReadFrom(p, Append(u, t)), lang, label, x)
    <3>1. Len(u) \in Nat /\ DOMAIN u = 1 .. Len(u) /\ DOMAIN Append(u, t) = 1 .. Len(u) + 1
          /\ Append(u, t)[Len(u) + 1] = t /\ \A i \in 1 .. Len(u) : Append(u, t)[i] = u[i]
      OBVIOUS
    <3>2. x = Unset => t \notin Switches /\ \A i \in DOMAIN u : u[i] \notin Switches
      BY <2>3, <3>1
    <3>3. Settled(B, ReadFrom(p, u), lang, label, x) BY <1>2, <3>2
    <3>4. QED BY <2>2, <3>2, <3>3, SettledStep
  <2>4. QED BY <2>1, <2>3
<1>3. \A u \in S, t \in Arg : Append(u, t) \in S
  <2> HIDE DEF Good
  <2>1. QED BY <1>2
<1>4. S = Seq(Arg)
  <2>1. S \in SUBSET Seq(Arg) OBVIOUS
  <2> HIDE DEF S
  <2>2. QED BY <1>1, <1>3, <2>1, SeqInduction
<1>5. QED BY <1>4

\* What a line has after its own flags and its executable, or after an eval flag.
LEMMA HadSettled ==
    ASSUME NEW B, TRUE \in B, NEW text, NoFile(text), NEW fresh \in B, NEW x \in Arg,
           NEW mode \in {Unset, "eval", "print"},
           NEW u \in Seq(Arg), NEW want \in {Unset, "code"}, x = Unset => u # <<>> \/ mode # Unset
    PROVE  Settled(B, Had(text, x, fresh, mode, <<>>, u, want), text["lang"], text["session"], x)
<1> DEFINE p == Had(text, x, fresh, mode, <<>>, u, want)
<1>1. Fine \in BOOLEAN /\ "file" # Unset BY DEF Fine, Unset
<1>2. <<>> \in Seq(Arg) OBVIOUS
<1>3. text \in [Fields -> Arg] /\ text["file"] = Unset BY DEF NoFile
<1>4. p \in States(B) BY <1>1, <1>2, <1>3 DEF States, Had
<1>5. p.exe = x /\ p.text = text /\ p.sub = Unset /\ p.want = want /\ p.fwd = u
      /\ p.evalMode = mode
  BY DEF Had
<1>6. want # "file" BY DEF Unset
<1>7. x = Unset => p.fwd # <<>> \/ p.evalMode # Unset BY <1>5
<1> HIDE DEF p
<1>8. Settled(B, p, text["lang"], text["session"], x)
  BY <1>3, <1>4, <1>5, <1>6, <1>7 DEF Settled
<1>9. QED BY <1>8 DEF p

\* The names of eval flags are not those of own flags.
LEMMA EvalNamesAreNotOwn == EvalNames \cap (OwnFlags \cup {"fresh"}) = {}
<1>1. ASSUME NEW name \in EvalNames
      PROVE  name \in {"e", "eval", "c", "command", "E", "print", "code"}
  <2>1. PICK l \in Langs : name \in EvalFlags[l] \cup PrintFlags[l] BY DEF EvalNames
  <2>2. l \in {"julia", "python", "r", "wolfram"} BY DEF Langs, EvalFlags
  <2>3. QED BY <2>1, <2>2 DEF EvalFlags, PrintFlags
<1>2. QED BY <1>1 DEF OwnFlags

\* An eval flag without an executable is followed by code, or is nothing that is known.
LEMMA FlagStep ==
    ASSUME NEW text, NoFile(text), NEW fresh,
           NEW flag \in Switches \ DOMAIN Inline, flag # "--", FlagName[flag] \in EvalNames
    PROVE  LET mode == EvalMode(LangIn(text, Unset), FlagName[flag]) IN
           Step(Had(text, Unset, fresh, Unset, <<>>, <<>>, Unset), flag) =
               IF mode # Unset THEN Had(text, Unset, fresh, mode, <<>>, <<>>, "code")
               ELSE Had(text, Unset, fresh, Unset, <<>>, Append(<<>>, flag), Unset)
<1> DEFINE q == Had(text, Unset, fresh, Unset, <<>>, <<>>, Unset)
           mode == EvalMode(LangIn(text, Unset), FlagName[flag])
<1>1. Step(q, flag) = Switch(q, flag) BY DEF Step, Had, Fine, NoFile
<1>2. ResolveLang(q) = LangIn(text, Unset) BY DEF ResolveLang, LangIn, Had
<1>3. CASE mode # Unset
  <2>1. Switch(q, flag) = Consume([q EXCEPT !.evalMode = mode], "code", flag)
    BY <1>2, <1>3 DEF Switch
  <2>2. [q EXCEPT !.evalMode = mode] = Had(text, Unset, fresh, mode, <<>>, <<>>, Unset)
    BY DEF Had
  <2>3. Consume(Had(text, Unset, fresh, mode, <<>>, <<>>, Unset), "code", flag) =
            Had(text, Unset, fresh, mode, <<>>, <<>>, "code")
    BY DEF Consume, Had
  <2>4. QED BY <1>1, <1>3, <2>1, <2>2, <2>3
<1>4. CASE mode = Unset
  <2>1. FlagName[flag] \notin OwnFlags \cup {"fresh"} BY EvalNamesAreNotOwn
  <2>2. Switch(q, flag) = Forward(q, flag) BY <1>2, <1>4, <2>1 DEF Switch
  <2>3. PICK e : e = <<>> OBVIOUS
  <2>4. Forward(Had(text, Unset, fresh, Unset, e, e, Unset), flag) =
            Had(text, Unset, fresh, Unset, e, Append(e, flag), Unset)
    BY Forwarded
  <2>5. Forward(q, flag) = Had(text, Unset, fresh, Unset, <<>>, Append(<<>>, flag), Unset)
    BY <2>3, <2>4
  <2>6. Step(q, flag) = Had(text, Unset, fresh, Unset, <<>>, Append(<<>>, flag), Unset)
    BY <1>1, <2>2, <2>5
  <2>7. QED BY <1>4, <2>6
<1>5. QED BY <1>3, <1>4

\* A line without an executable.
LEMMA BareLineSettled ==
    ASSUME Usage, parts.exe = Unset
    PROVE  \E B : Settled(B, parseArgs(Line), Given("lang"), Given("session"), Unset)
<1> DEFINE text == Texts(parts.own)
           mode == EvalMode(LangIn(text, Unset), FlagName[parts.flag])
<1>1. Parts(parts.own, Unset, <<>>) /\ Interp = <<>> BY UsageForm DEF Parts, Usage
<1>2. parts.flag \in Arg /\ parts.arg \in Arg /\ parts.rest \in Seq(Arg) BY UsageForm
<1>3. NoFile(text) BY <1>1, OwnRead, TextsUnread DEF Parts, OwnIsRead, NoFile
<1>4. InterpLine(LangIn(text, Unset), <<>>) BY DEF InterpLine
<1>5. HeadOf(parts.own, Unset, <<>>) \in Seq(Arg) BY <1>1, <1>4, HeadRead
<1>6. PICK fresh : ReadFrom(Start, HeadOf(parts.own, Unset, <<>>)) =
                       Had(text, Unset, fresh, Unset, <<>>, <<>>, Unset)
  BY <1>1, <1>4, HeadRead
<1> DEFINE q == Had(text, Unset, fresh, Unset, <<>>, <<>>, Unset)
<1>7. parseArgs(Line) = ReadFrom(q, RestOf(parts.flag, parts.arg, parts.rest))
  <2>1. Line = LineOf(parts.own, Unset, <<>>, parts.flag, parts.arg, parts.rest)
    BY <1>1, PartsAre
  <2>2. QED BY <1>2, <1>5, <1>6, <2>1, LineRead DEF parseArgs
<1>8. parts.flag \notin {Unset, "--"} /\ parts.flag \in Switches \ DOMAIN Inline
      /\ FlagName[parts.flag] \in EvalNames
      /\ (\A i \in DOMAIN parts.rest : parts.rest[i] \notin Switches)
      /\ (Mode = Unset /\ parts.arg \in Switches => FlagName[parts.arg] \notin OwnFlags)
  BY DEF Usage
<1>9. Mode = mode BY <1>8, PartsAre DEF Mode
<1>10. parseArgs(Line) = ReadFrom(Step(Step(q, parts.flag), parts.arg), parts.rest)
  <2> HIDE DEF q
  <2>1. ReadFrom(q, RestOf(parts.flag, parts.arg, parts.rest)) =
            ReadFrom(Step(Opened(q, parts.flag), parts.arg), parts.rest)
    BY <1>2, RestRead
  <2>2. Opened(q, parts.flag) = Step(q, parts.flag) BY <1>8 DEF Opened
  <2>3. QED BY <1>7, <2>1, <2>2
<1> DEFINE p == Step(q, parts.flag)
           B == {TRUE, fresh}
<1>11. Settled(B, p, text["lang"], text["session"], Unset) /\ (p.want = Unset => Mode = Unset)
  <2>1. mode \in {Unset, "eval", "print"} BY ModeIsNamed DEF Unset
  <2>2. p = IF mode # Unset THEN Had(text, Unset, fresh, mode, <<>>, <<>>, "code")
            ELSE Had(text, Unset, fresh, Unset, <<>>, Append(<<>>, parts.flag), Unset)
    BY <1>3, <1>8, FlagStep
  <2>3. Unset \in Arg BY DEF Arg
  <2>4. <<>> \in Seq(Arg) /\ Append(<<>>, parts.flag) \in Seq(Arg)
        /\ Append(<<>>, parts.flag) # <<>>
    <3>1. <<>> \in Seq(Arg) OBVIOUS
    <3>2. QED BY <1>2, <3>1, AppendIs
  <2>5. CASE mode # Unset
    <3>1. p = Had(text, Unset, fresh, mode, <<>>, <<>>, "code") BY <2>2, <2>5
    <3>2. p.want = "code" BY <3>1 DEF Had
    <3>3. "code" # Unset BY DEF Unset
    <3>4. Settled(B, Had(text, Unset, fresh, mode, <<>>, <<>>, "code"), text["lang"], text["session"], Unset)
      <4>1. TRUE \in B /\ fresh \in B OBVIOUS
      <4> HIDE DEF mode, text, p, B
      <4>2. QED BY <1>3, <2>1, <2>3, <2>4, <2>5, <4>1, HadSettled
    <3>5. QED BY <3>1, <3>2, <3>3, <3>4
  <2>6. CASE mode = Unset
    <3>1. p = Had(text, Unset, fresh, Unset, <<>>, Append(<<>>, parts.flag), Unset)
      BY <2>2, <2>6
    <3>2. Settled(B, Had(text, Unset, fresh, Unset, <<>>, Append(<<>>, parts.flag), Unset),
                  text["lang"], text["session"], Unset)
      <4>1. TRUE \in B /\ fresh \in B OBVIOUS
      <4> HIDE DEF mode, text, p, B
      <4>2. QED BY <1>3, <2>3, <2>4, <4>1, HadSettled
    <3>3. QED BY <1>9, <2>6, <3>1, <3>2
  <2>7. QED BY <2>5, <2>6
<1> HIDE DEF p, B, q, text, mode
<1>12. TRUE \in B BY DEF B
<1>13. Settled(B, Step(p, parts.arg), text["lang"], text["session"], Unset)
  BY <1>2, <1>8, <1>11, <1>12, SettledStep
<1>14. Settled(B, ReadFrom(Step(p, parts.arg), parts.rest), text["lang"], text["session"], Unset)
  BY <1>2, <1>8, <1>12, <1>13, SettledRead
<1>15. text["lang"] = Given("lang") /\ text["session"] = Given("session")
  BY PartsAre DEF OwnFlags, text
<1>16. QED BY <1>10, <1>14, <1>15 DEF p

\* A line with an executable.
LEMMA ExeLineSettled ==
    ASSUME Usage, parts.exe # Unset
    PROVE  \E B : Settled(B, parseArgs(Line), Given("lang"), Given("session"), parts.exe)
<1> DEFINE text == Texts(parts.own)
<1>1. Parts(parts.own, parts.exe, <<>>) /\ Interp \in Seq(Arg)
  <2>1. <<>> \in Seq(Arg) OBVIOUS
  <2>2. QED BY <2>1, UsageForm DEF Parts
<1>2. Rest \in Seq(Arg) BY UsageForm, RestRead, PartsAre
<1>3. NoFile(text) BY <1>1, OwnRead, TextsUnread DEF Parts, OwnIsRead, NoFile
<1>4. InterpLine(LangIn(text, parts.exe), <<>>) BY DEF InterpLine
<1>5. HeadOf(parts.own, parts.exe, <<>>) \in Seq(Arg) BY <1>1, <1>4, HeadRead
<1>6. PICK fresh : ReadFrom(Start, HeadOf(parts.own, parts.exe, <<>>)) =
                       Had(text, parts.exe, fresh, Unset, <<>>, <<>>, Unset)
  BY <1>1, <1>4, HeadRead
<1>7. HeadOf(parts.own, parts.exe, <<>>) = Own \o ExeArg
  <2>1. Own \in Seq(Arg) BY <1>1, OwnRead, PartsAre DEF Parts
  <2>2. ExeArg \in Seq(Arg) BY <1>1, PartsAre DEF Parts, ExeOf
  <2>3. (Own \o ExeArg) \o <<>> = Own \o ExeArg BY <2>1, <2>2
  <2>4. QED BY <2>3, PartsAre DEF HeadOf
<1>8. PICK h \in Seq(Arg), i \in Seq(Arg), s \in Seq(Arg) :
          h = Own \o ExeArg /\ i = Interp /\ s = Rest
  BY <1>1, <1>2, <1>5, <1>7
<1>9. parseArgs(Line) = ReadFrom(ReadFrom(ReadFrom(Start, h), i), s)
  <2>0. h \o i \in Seq(Arg) OBVIOUS
  <2>1. PICK c \in Seq(Arg) : c = h \o i BY <2>0
  <2>2. ReadFrom(Start, c \o s) = ReadFrom(ReadFrom(Start, c), s) BY ReadOn
  <2>3. ReadFrom(Start, h \o i) = ReadFrom(ReadFrom(Start, h), i) BY ReadOn
  <2>4. Line = c \o s BY <1>8, <2>1 DEF Line
  <2>5. QED BY <2>1, <2>2, <2>3, <2>4 DEF parseArgs
<1> DEFINE q == ReadFrom(Start, h)
           B == {TRUE, fresh}
<1>10. Settled(B, q, text["lang"], text["session"], parts.exe)
  <2>1. <<>> \in Seq(Arg) OBVIOUS
  <2>2. q = Had(text, parts.exe, fresh, Unset, <<>>, <<>>, Unset) BY <1>6, <1>7, <1>8
  <2>3. parts.exe \in Arg BY <1>1 DEF Parts
  <2>4. TRUE \in B /\ fresh \in B OBVIOUS
  <2> HIDE DEF q, text, B
  <2>5. QED BY <1>3, <2>1, <2>2, <2>3, <2>4, HadSettled
<1> HIDE DEF q, B, text
<1>11. TRUE \in B BY DEF B
<1>12. Settled(B, ReadFrom(q, i), text["lang"], text["session"], parts.exe)
  BY <1>10, <1>11, SettledRead
<1>13. Settled(B, ReadFrom(ReadFrom(q, i), s), text["lang"], text["session"], parts.exe)
  BY <1>11, <1>12, SettledRead
<1>14. text["lang"] = Given("lang") /\ text["session"] = Given("session")
  BY PartsAre DEF OwnFlags, text
<1>15. QED BY <1>9, <1>13, <1>14 DEF q

\* One argument after a verb.
LEMMA AimOne ==
    ASSUME NEW p, NEW a
    PROVE  AimFrom(p, <<a>>) = TargetStep(p, a)
<1> DEFINE T == {a}
<1>1. a \in T OBVIOUS
<1>2. <<>> \in Seq(T) /\ Append(<<>>, a) = <<a>>
  <2> HIDE DEF T
  <2>1. QED BY <1>1
<1>3. AimFrom(p, Append(<<>>, a)) = TargetStep(AimFrom(p, <<>>), a) BY <1>1, <1>2, AimMore
<1>4. QED BY <1>2, <1>3, AimNone

\* Two of them.
LEMMA AimTwo ==
    ASSUME NEW p, NEW a, NEW b
    PROVE  AimFrom(p, <<a, b>>) = TargetStep(TargetStep(p, a), b)
<1> DEFINE T == {a, b}
<1>1. a \in T /\ b \in T OBVIOUS
<1>2. PICK s \in Seq(T) : s = <<a>>
  <2>1. <<a>> \in Seq(T)
    <3> HIDE DEF T
    <3>1. QED BY <1>1
  <2>2. QED BY <2>1
<1>3. AimFrom(p, Append(s, b)) = TargetStep(AimFrom(p, s), b) BY <1>1, AimMore
<1>4. Append(<<a>>, b) = <<a, b>> BY <1>1, TwoAppended
<1>5. QED BY <1>2, <1>3, <1>4, AimOne

\* The same, by the length of the group.
LEMMA AimGroup ==
    ASSUME NEW p, NEW T, NEW g \in Seq(T)
    PROVE  /\ Len(g) = 1 => AimFrom(p, g) = TargetStep(p, g[1])
           /\ Len(g) = 2 => AimFrom(p, g) = TargetStep(TargetStep(p, g[1]), g[2])
<1>1. ASSUME Len(g) = 1 PROVE AimFrom(p, g) = TargetStep(p, g[1])
  <2>1. g = <<g[1]>> BY <1>1
  <2>2. AimFrom(p, <<g[1]>>) = TargetStep(p, g[1]) BY AimOne
  <2>3. QED BY <2>1, <2>2
<1>2. ASSUME Len(g) = 2 PROVE AimFrom(p, g) = TargetStep(TargetStep(p, g[1]), g[2])
  <2>1. g = <<g[1], g[2]>> BY <1>2, TwoAre
  <2>2. AimFrom(p, <<g[1], g[2]>>) = TargetStep(TargetStep(p, g[1]), g[2]) BY AimTwo
  <2>3. QED BY <2>1, <2>2
<1>3. QED BY <1>1, <1>2

-----------------------------------------------------------------------------
(***************************************************************************)
(* A verb before or after the flags that say which session is meant.       *)
(***************************************************************************)

\* The key of a request for language l, label s and executable x.
Addressed(l, s, x) ==
    LET lang == Or(l, langForExe(x))
    IN  IF s # Unset THEN <<"label", s>>
        ELSE <<"exe", lang, Or(ResolveExe(x, lang), At(DefaultExe, lang))>>

\* The key of an eval is that of its own flags and its executable.
LEMMA EvalKey ==
    ASSUME Usage, Request(Line).action = "eval"
    PROVE  Key(Request(Line)) = Addressed(Given("lang"), Given("session"), parts.exe)
<1> DEFINE p == parseArgs(Line)
<1>1. PICK B : Settled(B, p, Given("lang"), Given("session"), parts.exe)
  BY BareLineSettled, ExeLineSettled
<1>2. p.sub \in Subcommands \cup {Unset} BY <1>1, SMTT(30) DEF Settled, States
<1>3. p.text["lang"] = Given("lang") /\ p.text["session"] = Given("session") /\ p.exe = parts.exe
  BY <1>1 DEF Settled
<1>4. Request(Line) = EvalRequest(p)
  <2>1. "eval" \notin Subcommands /\ "eval" # "usage" BY DEF Subcommands, Verbs
  <2> DEFINE unsent == \/ p.bad
                       \/ p.want # Unset
                       \/ /\ p.sub = Unset
                          /\ \/ ResolveLang(p) = Unset /\ p.text["session"] = Unset
                             \/ ReadsInput(p) /\ Terminal
  <2>2. Request(Line) = IF unsent THEN [action |-> "usage"]
                        ELSE IF p.sub \in Verbs THEN TargetRequest(p)
                        ELSE IF p.sub # Unset THEN [action |-> p.sub]
                        ELSE EvalRequest(p)
    BY DEF Request
  <2>3. [action |-> "usage"].action # "eval" OBVIOUS
  <2>4. p.sub \in Verbs => TargetRequest(p).action # "eval"
    <3>1. TargetRequest(p).action = p.sub BY DEF TargetRequest
    <3>2. QED BY <2>1, <3>1 DEF Subcommands
  <2>5. p.sub # Unset => [action |-> p.sub].action # "eval" BY <1>2, <2>1
  <2> HIDE DEF p, unsent
  <2>6. ~unsent BY <2>2, <2>3
  <2>7. p.sub \notin Verbs BY <2>2, <2>4, <2>6
  <2>8. p.sub = Unset BY <2>2, <2>5, <2>6, <2>7
  <2>9. QED BY <2>2, <2>6, <2>7, <2>8
<1> DEFINE r == EvalRequest(p)
<1>5. r.id = Unset /\ r.session = Given("session")
      /\ r.lang = Or(Given("lang"), langForExe(parts.exe)) /\ r.exe = ResolveExe(parts.exe, r.lang)
  <2> HIDE DEF p
  <2>1. ResolveLang(p) = Or(Given("lang"), langForExe(parts.exe)) BY <1>3 DEF ResolveLang
  <2>2. QED BY <1>3, <2>1 DEF EvalRequest
<1> HIDE DEF r, p
<1>6. Key(r) = Addressed(Given("lang"), Given("session"), parts.exe)
  BY <1>5 DEF Key, Addressed
<1>7. QED BY <1>4, <1>6 DEF r

\* What parseArgs has once it has read close; fileArgs, fwd and the rest are not set.
Closed(text, fresh, args) ==
    [text |-> text, exe |-> Unset, fresh |-> fresh, evalMode |-> Unset, fileArgs |-> <<>>,
     fwd |-> <<>>, sub |-> "close", subArgs |-> args, want |-> Unset, bad |-> Fine]

\* close is read as a verb after own flags.
LEMMA CloseStep ==
    ASSUME NEW text, NoFile(text), NEW fresh
    PROVE  Step(Had(text, Unset, fresh, Unset, <<>>, <<>>, Unset), "close") =
               Closed(text, fresh, <<>>)
<1> DEFINE q == Had(text, Unset, fresh, Unset, <<>>, <<>>, Unset)
<1>1. "close" \notin Switches BY CommandLineAssumption DEF Switches
<1>2. "close" \in Subcommands BY DEF Subcommands, Verbs
<1>3. Step(q, "close") = Word(q, "close") BY <1>1 DEF Step, Had, Fine, NoFile
<1>4. Word(q, "close") = [q EXCEPT !.sub = "close"] BY <1>2 DEF Word, NamesFile, Had
<1>5. [q EXCEPT !.sub = "close"] = Closed(text, fresh, <<>>) BY DEF Had, Closed
<1>6. QED BY <1>3, <1>4, <1>5

\* What follows is left to parseTarget.
LEMMA CloseRead ==
    ASSUME NEW text, NEW fresh, NEW v \in Seq(Arg)
    PROVE  ReadFrom(Closed(text, fresh, <<>>), v) = Closed(text, fresh, v)
<1> DEFINE q == Closed(text, fresh, <<>>)
           Good(u) == ReadFrom(q, u) = Closed(text, fresh, u)
           S == {u \in Seq(Arg) : Good(u)}
<1>1. <<>> \in S
  <2>1. <<>> \in Seq(Arg) OBVIOUS
  <2>2. QED BY <2>1, ReadNone
<1>2. ASSUME NEW u \in Seq(Arg), NEW t \in Arg, Good(u)
      PROVE  Append(u, t) \in Seq(Arg) /\ Good(Append(u, t))
  <2>1. Append(u, t) \in Seq(Arg) OBVIOUS
  <2>2. ReadFrom(q, Append(u, t)) = Step(ReadFrom(q, u), t) BY ReadMore
  <2>3. Step(Closed(text, fresh, u), t) = Closed(text, fresh, Append(u, t))
    BY DEF Step, Closed, Fine, Unset
  <2>4. QED BY <1>2, <2>1, <2>2, <2>3
<1>3. \A u \in S, t \in Arg : Append(u, t) \in S
  <2> HIDE DEF Good
  <2>1. QED BY <1>2
<1>4. S = Seq(Arg)
  <2>1. S \in SUBSET Seq(Arg) OBVIOUS
  <2> HIDE DEF S
  <2>2. QED BY <1>1, <1>3, <2>1, SeqInduction
<1>5. QED BY <1>4

\* What parseTarget has while no short id has been read.
Aimed(text, exe, fwd, want) ==
    [text |-> text, id |-> Unset, exe |-> exe, fwd |-> fwd, want |-> want]

\* The executable is read as such after a verb too.
LEMMA AimExe ==
    ASSUME NEW text, NEW fwd, NEW x, x \notin Switches \cup IdLike
    PROVE  AimFrom(Aimed(text, Unset, fwd, Unset), ExeOf(x)) = Aimed(text, x, fwd, Unset)
<1> DEFINE q == Aimed(text, Unset, fwd, Unset)
<1>1. CASE x = Unset BY <1>1, AimNone DEF ExeOf
<1>2. CASE x # Unset
  <2>1. TargetStep(q, x) = [q EXCEPT !.exe = x]
    BY <1>2 DEF TargetStep, Aimed, looksLikeID
  <2>2. [q EXCEPT !.exe = x] = Aimed(text, x, fwd, Unset) BY DEF Aimed
  <2>3. AimFrom(q, <<x>>) = TargetStep(q, x) BY AimOne
  <2>4. QED BY <1>2, <2>1, <2>2, <2>3 DEF ExeOf
<1>3. QED BY <1>1, <1>2

\* The key of a close is that of what it aims at.
LEMMA CloseKey ==
    ASSUME NEW args, NEW text, NEW fresh, NEW v, NEW aims, NEW x, NEW fwd,
           parseArgs(args) = Closed(text, fresh, v),
           parseTarget(Closed(text, fresh, v)) = Aimed(aims, x, fwd, Unset)
    PROVE  Key(Request(args)) = Addressed(aims["lang"], aims["session"], x)
<1> DEFINE p == Closed(text, fresh, v)
           tg == Aimed(aims, x, fwd, Unset)
           r == TargetRequest(p)
<1>1. ~p.bad /\ p.want = Unset /\ p.sub = "close" BY DEF Closed, Fine
<1>2. "close" \in Verbs /\ "close" # Unset BY DEF Verbs, Unset
<1>3. Request(args) = r
  <2> HIDE DEF p
  <2>1. parseArgs(args) = p BY DEF p
  <2>2. QED BY <1>1, <1>2, <2>1 DEF Request
<1>4. tg.id = Unset /\ tg.exe = x /\ tg.text = aims BY DEF Aimed
<1>5. r.id = Unset /\ r.session = aims["session"]
      /\ r.lang = Or(aims["lang"], langForExe(x)) /\ r.exe = ResolveExe(x, r.lang)
  <2>1. parseTarget(p) = tg OBVIOUS
  <2> HIDE DEF p, tg
  <2>2. ResolveLang(tg) = Or(aims["lang"], langForExe(x)) BY <1>4 DEF ResolveLang
  <2>3. QED BY <1>4, <2>1, <2>2 DEF TargetRequest
<1> HIDE DEF r
<1>6. Key(r) = Addressed(aims["lang"], aims["session"], x) BY <1>5 DEF Key, Addressed
<1>7. QED BY <1>3, <1>6

AimFlags == {"session", "lang", "trace"}

\* Where parseTarget begins, with the texts that parseArgs has read.
Begun(text) == [f \in AimFlags |-> IF f = "trace" THEN Or(text[f], "full") ELSE text[f]]

\* What a close aims at, in the words of parseTarget's loop.
LEMMA TargetIs ==
    ASSUME NEW text, NEW fresh, NEW v
    PROVE  parseTarget(Closed(text, fresh, v)) = AimFrom(Aimed(Begun(text), Unset, <<>>, Unset), v)
<1> DEFINE p == Closed(text, fresh, v)
<1>1. p.text = text /\ p.subArgs = v BY DEF Closed
<1> HIDE DEF p
<1>2. parseTarget(p) = AimFrom(Aimed(Begun(text), Unset, <<>>, Unset), v)
  BY <1>1 DEF parseTarget, Aimed, Begun, AimFlags
<1>3. QED BY <1>2 DEF p

\* The key of an eval's own flags is that of a close with the same flags before it.
LEMMA CloseAfterFlags ==
    ASSUME Usage, parts.exe \notin IdLike
    PROVE  Key(Request(Own \o <<"close">> \o ExeArg)) =
               Addressed(Given("lang"), Given("session"), parts.exe)
<1> DEFINE text == Texts(parts.own)
           aims == Begun(text)
<1>1. Own \in Seq(Arg) /\ OwnIsRead(parts.own) BY UsageForm, OwnRead, PartsAre DEF Parts
<1>2. parts.exe \in Arg \ Switches BY UsageForm DEF Parts
<1>3. NoFile(text) BY <1>1, TextsUnread DEF OwnIsRead, NoFile
<1>4. PICK fresh : ReadFrom(Start, Own) = Had(text, Unset, fresh, Unset, <<>>, <<>>, Unset)
  BY <1>1, PartsAre DEF OwnIsRead
<1>5. "close" \in Arg BY DEF Arg
<1>6. \A y \in Arg : <<y>> \in Seq(Arg) OBVIOUS
<1>7. <<"close">> \in Seq(Arg) /\ ExeOf(parts.exe) \in Seq(Arg)
  BY <1>2, <1>5, <1>6 DEF ExeOf
<1>8. PICK h \in Seq(Arg), c \in Seq(Arg), s \in Seq(Arg) :
          h = Own /\ c = <<"close">> /\ s = ExeOf(parts.exe)
  BY <1>1, <1>7
<1>9. parseArgs((h \o c) \o s) = Closed(text, fresh, s)
  <2>1. h \o c \in Seq(Arg) OBVIOUS
  <2>2. PICK d \in Seq(Arg) : d = h \o c BY <2>1
  <2>3. ReadFrom(Start, d \o s) = ReadFrom(ReadFrom(Start, d), s) BY ReadOn
  <2>4. ReadFrom(Start, h \o c) = ReadFrom(ReadFrom(Start, h), c) BY ReadOn
  <2>5. \A y : ReadFrom(y, c) = Step(y, "close") BY <1>8, ReadOne
  <2>6. Step(Had(text, Unset, fresh, Unset, <<>>, <<>>, Unset), "close") =
            Closed(text, fresh, <<>>)
    BY <1>3, CloseStep
  <2>7. ReadFrom(Start, d) = Closed(text, fresh, <<>>) BY <1>4, <1>8, <2>2, <2>4, <2>5, <2>6
  <2>8. ReadFrom(Closed(text, fresh, <<>>), s) = Closed(text, fresh, s) BY CloseRead
  <2>9. QED BY <2>2, <2>3, <2>7, <2>8 DEF parseArgs
<1>10. parseTarget(Closed(text, fresh, s)) = Aimed(aims, parts.exe, <<>>, Unset)
  <2>1. AimFrom(Aimed(aims, Unset, <<>>, Unset), s) = Aimed(aims, parts.exe, <<>>, Unset)
    <3> HIDE DEF aims
    <3>1. QED BY <1>2, <1>8, AimExe
  <2>2. QED BY <2>1, TargetIs
<1>11. aims["lang"] = Given("lang") /\ aims["session"] = Given("session")
  BY PartsAre DEF Begun, AimFlags, OwnFlags
<1>12. Key(Request((h \o c) \o s)) = Addressed(aims["lang"], aims["session"], parts.exe)
  <2> HIDE DEF aims, text
  <2>1. QED BY <1>9, <1>10, CloseKey
<1>13. (h \o c) \o s = Own \o <<"close">> \o ExeArg BY <1>8, PartsAre
<1>14. QED BY <1>11, <1>12, <1>13

\* One own flag after a verb.
LEMMA AimSwitch ==
    ASSUME NEW text \in [AimFlags -> Arg \cup {"full"}], NEW fwd, NEW t \in Switches
    PROVE  LET q == Aimed(text, Unset, fwd, Unset)
               name == FlagName[t]
           IN  /\ name \notin AimFlags => TargetStep(q, t) = Aimed(text, Unset, Append(fwd, t), Unset)
               /\ name \in AimFlags /\ t \in DOMAIN Inline =>
                      TargetStep(q, t) = Aimed([text EXCEPT ![name] = Inline[t]], Unset, fwd, Unset)
               /\ name \in AimFlags /\ t \notin DOMAIN Inline =>
                      TargetStep(q, t) = Aimed([text EXCEPT ![name] = Unset], Unset, fwd, name)
<1> DEFINE q == Aimed(text, Unset, fwd, Unset)
           name == FlagName[t]
<1>1. q.want = Unset /\ q.text = text /\ q.fwd = fwd BY DEF Aimed
<1>2. TargetStep(q, t) = IF name \in AimFlags
                         THEN Consume([q EXCEPT !.text[name] = Unset], name, t)
                         ELSE Forward(q, t)
  <2> HIDE DEF q
  <2>1. QED BY <1>1 DEF TargetStep, AimFlags
<1>3. CASE name \notin AimFlags
  <2>1. PICK s : s = Append(fwd, t) OBVIOUS
  <2>2. Forward(q, t) = [q EXCEPT !.fwd = s] BY <1>1, <2>1 DEF Forward
  <2>3. [q EXCEPT !.fwd = s] = Aimed(text, Unset, s, Unset) BY DEF Aimed
  <2>4. QED BY <1>2, <1>3, <2>1, <2>2, <2>3
<1>4. CASE name \in AimFlags
  <2> DEFINE r == Aimed([text EXCEPT ![name] = Unset], Unset, fwd, Unset)
  <2>1. [q EXCEPT !.text[name] = Unset] = r BY DEF Aimed
  <2>2. Consume(r, name, t) =
            IF t \in DOMAIN Inline THEN [r EXCEPT !.text[name] = Inline[t]]
            ELSE [r EXCEPT !.want = name]
    BY DEF Consume
  <2>3. [r EXCEPT !.want = name] = Aimed([text EXCEPT ![name] = Unset], Unset, fwd, name)
    BY DEF Aimed
  <2>4. [r EXCEPT !.text[name] = Inline[t]] =
            Aimed([text EXCEPT ![name] = Inline[t]], Unset, fwd, Unset)
    BY <1>4 DEF Aimed
  <2>5. TargetStep(q, t) = Consume(r, name, t) BY <1>2, <1>4, <2>1
  <2> HIDE DEF r
  <2>6. QED BY <1>4, <2>2, <2>3, <2>4, <2>5
<1>5. QED BY <1>3, <1>4

\* The value after it.
LEMMA AimValue ==
    ASSUME NEW text \in [AimFlags -> Arg \cup {"full"}], NEW fwd, NEW name \in AimFlags, NEW t
    PROVE  TargetStep(Aimed([text EXCEPT ![name] = Unset], Unset, fwd, name), t) =
               Aimed([text EXCEPT ![name] = t], Unset, fwd, Unset)
<1>1. name # Unset BY DEF AimFlags, Unset
<1>2. QED BY <1>1 DEF TargetStep, Aimed

\* Only flags have been read after the verb, and what they say is aims.
AimsAt(tg, aims) == \E fwd : tg = Aimed(aims, Unset, fwd, Unset)

\* What the flags after a verb may say.
AimTexts == [AimFlags -> Arg \cup {"full"}]

\* A group that may locate a session, and any of these.
Locating(g) == OwnGroup(g) /\ FlagName[g[1]] \notin {"socket", "owner-pid"}

Locates(o) == o \in Seq(Seq(Arg)) /\ \A i \in DOMAIN o : Locating(o[i])

\* One group of flags that locate a session, after a verb.
LEMMA AimGroupRead ==
    ASSUME NEW text \in AimTexts, NEW fwd,
           NEW g \in Seq(Arg), Locating(g)
    PROVE  \E now \in AimTexts :
               /\ AimsAt(AimFrom(Aimed(text, Unset, fwd, Unset), g), now)
               /\ \A f \in {"lang", "session"} :
                      now[f] = IF FlagName[g[1]] = f THEN ValueOf(g) ELSE text[f]
<1> DEFINE q == Aimed(text, Unset, fwd, Unset)
           name == FlagName[g[1]]
           set == [text EXCEPT ![name] = ValueOf(g)]
<1>1. g[1] \in Switches /\ name \in OwnFlags \cup {"fresh"} BY GroupIs DEF Locating
<1>2. name \in AimFlags \cup {"fresh"} BY <1>1 DEF OwnFlags, AimFlags, Locating
<1>3. name \in AimFlags => ValueOf(g) \in Arg BY GroupIs DEF AimFlags, Locating
<1>4. {"lang", "session"} \subseteq AimFlags /\ "fresh" \notin AimFlags BY DEF AimFlags
<1>5. name \in AimFlags => /\ set \in AimTexts
                           /\ \A f \in {"lang", "session"} :
                                  set[f] = IF name = f THEN ValueOf(g) ELSE text[f]
  <2> HIDE DEF name
  <2>1. QED BY <1>3, <1>4 DEF AimTexts
<1>6. CASE Len(g) = 1 /\ name = "fresh"
  <2>1. TargetStep(q, g[1]) = Aimed(text, Unset, Append(fwd, g[1]), Unset)
    BY <1>1, <1>4, <1>6, AimSwitch, SMTT(30) DEF AimTexts
  <2>2. AimFrom(q, g) = TargetStep(q, g[1]) BY <1>6, AimGroup
  <2>3. \A f \in {"lang", "session"} : f # name BY <1>6
  <2>4. PICK left : left = Append(fwd, g[1]) OBVIOUS
  <2>5. AimFrom(q, g) = Aimed(text, Unset, left, Unset) BY <2>1, <2>2, <2>4
  <2>6. AimsAt(AimFrom(q, g), text) BY <2>5 DEF AimsAt
  <2> HIDE DEF name, q
  <2>7. QED BY <2>3, <2>6 DEF name, q
<1>7. CASE Len(g) = 1 /\ name \in OwnFlags /\ g[1] \in DOMAIN Inline /\ ValueOf(g) = Inline[g[1]]
  <2>1. name \in AimFlags BY <1>2, <1>7 DEF OwnFlags
  <2>2. TargetStep(q, g[1]) = Aimed([text EXCEPT ![name] = Inline[g[1]]], Unset, fwd, Unset)
    BY <1>1, <1>7, <2>1, AimSwitch, ZenonT(40) DEF AimTexts
  <2>3. set = [text EXCEPT ![name] = Inline[g[1]]] BY <1>7
  <2>4. AimFrom(q, g) = TargetStep(q, g[1]) BY <1>7, AimGroup
  <2>5. AimsAt(AimFrom(q, g), set) BY <2>2, <2>3, <2>4 DEF AimsAt
  <2> HIDE DEF set, q
  <2>6. QED BY <1>5, <2>1, <2>5 DEF q
<1>8. CASE Len(g) = 2 /\ name \in OwnFlags /\ g[1] \notin DOMAIN Inline /\ ValueOf(g) = g[2]
  <2>1. name \in AimFlags BY <1>2, <1>8 DEF OwnFlags
  <2>2. TargetStep(q, g[1]) = Aimed([text EXCEPT ![name] = Unset], Unset, fwd, name)
    BY <1>1, <1>8, <2>1, AimSwitch, ZenonT(40) DEF AimTexts
  <2>3. TargetStep(Aimed([text EXCEPT ![name] = Unset], Unset, fwd, name), g[2]) =
            Aimed([text EXCEPT ![name] = g[2]], Unset, fwd, Unset)
    <3>1. \A n \in AimFlags : \A t :
              TargetStep(Aimed([text EXCEPT ![n] = Unset], Unset, fwd, n), t) =
                  Aimed([text EXCEPT ![n] = t], Unset, fwd, Unset)
      BY AimValue DEF AimTexts
    <3> HIDE DEF name
    <3>2. QED BY <2>1, <3>1, Zenon
  <2>4. set = [text EXCEPT ![name] = g[2]] BY <1>8
  <2>5. AimFrom(q, g) = TargetStep(TargetStep(q, g[1]), g[2]) BY <1>8, AimGroup
  <2>6. AimsAt(AimFrom(q, g), set) BY <2>2, <2>3, <2>4, <2>5 DEF AimsAt
  <2> HIDE DEF set, q
  <2>7. QED BY <1>5, <2>1, <2>6 DEF q
<1>9. QED BY <1>6, <1>7, <1>8, GroupIs DEF Locating

\* The groups of such a line are those before the last one, and the last one.
LEMMA LocatesMore ==
    ASSUME NEW o \in Seq(Seq(Arg)), NEW g \in Seq(Arg), Locates(Append(o, g))
    PROVE  Locates(o) /\ Locating(g)
<1>1. Len(o) \in Nat /\ DOMAIN o = 1 .. Len(o) /\ DOMAIN Append(o, g) = 1 .. Len(o) + 1
      /\ Append(o, g)[Len(o) + 1] = g /\ \A i \in 1 .. Len(o) : Append(o, g)[i] = o[i]
  OBVIOUS
<1>2. QED BY <1>1 DEF Locates

\* What parseTarget has read after the groups u.
OwnIsAimed(u) ==
    \E aims \in AimTexts :
        /\ AimsAt(AimFrom(Aimed(Begun(Texts(<<>>)), Unset, <<>>, Unset), FlattenSeq(u)), aims)
        /\ \A f \in {"lang", "session"} : aims[f] = GivenIn(u, f)

\* Without flags nothing is aimed at.
LEMMA AimReadNone == OwnIsAimed(<<>>)
<1> DEFINE aims == Begun(Texts(<<>>))
           q == Aimed(aims, Unset, <<>>, Unset)
<1>1. \A f : GivenIn(<<>>, f) = Unset BY DEF GivenIn, About
<1>2. Texts(<<>>) = [f \in Fields |-> Unset] BY <1>1 DEF Texts
<1>3. AimFlags \subseteq Fields /\ "trace" \in AimFlags /\ {"lang", "session"} \subseteq AimFlags
  BY DEF AimFlags, Fields, OwnFlags
<1>4. aims = [f \in AimFlags |-> IF f = "trace" THEN "full" ELSE Unset]
  BY <1>2, <1>3 DEF Begun, Or
<1>5. Unset \in Arg BY DEF Arg
<1>6. aims \in AimTexts BY <1>4, <1>5 DEF AimTexts
<1>7. \A f \in {"lang", "session"} : aims[f] = Unset BY <1>3, <1>4
<1>8. AimFrom(q, FlattenSeq(<<>>)) = q BY FlattenNone, AimNone
<1>9. AimsAt(q, aims) BY DEF AimsAt
<1> HIDE DEF q, aims
<1>10. \A f \in {"lang", "session"} : aims[f] = GivenIn(<<>>, f) BY <1>1, <1>7
<1>11. QED BY <1>6, <1>8, <1>9, <1>10 DEF OwnIsAimed, q, aims

\* One group more.
LEMMA AimReadMore ==
    ASSUME NEW u \in Seq(Seq(Arg)), NEW g \in Seq(Arg), OwnIsAimed(u), Locating(g)
    PROVE  OwnIsAimed(Append(u, g))
<1> DEFINE q == Aimed(Begun(Texts(<<>>)), Unset, <<>>, Unset)
<1>1. PICK aims \in AimTexts :
          /\ AimsAt(AimFrom(q, FlattenSeq(u)), aims)
          /\ \A f \in {"lang", "session"} : aims[f] = GivenIn(u, f)
  BY DEF OwnIsAimed
<1>2. PICK fwd : AimFrom(q, FlattenSeq(u)) = Aimed(aims, Unset, fwd, Unset) BY <1>1 DEF AimsAt
<1>3. PICK now \in AimTexts :
          /\ AimsAt(AimFrom(Aimed(aims, Unset, fwd, Unset), g), now)
          /\ \A f \in {"lang", "session"} :
                 now[f] = IF FlagName[g[1]] = f THEN ValueOf(g) ELSE aims[f]
  BY AimGroupRead
<1>4. FlattenSeq(u) \in Seq(Arg) /\ FlattenSeq(Append(u, g)) = FlattenSeq(u) \o g
  BY FlattenMore
<1>5. AimFrom(q, FlattenSeq(u) \o g) = AimFrom(AimFrom(q, FlattenSeq(u)), g)
  BY <1>4, AimOn
<1>6. AimsAt(AimFrom(q, FlattenSeq(Append(u, g))), now) BY <1>2, <1>3, <1>4, <1>5
<1>7. \A f \in {"lang", "session"} : now[f] = GivenIn(Append(u, g), f)
  <2>1. \A f : GivenIn(Append(u, g), f) =
                  IF FlagName[g[1]] = f THEN ValueOf(g) ELSE GivenIn(u, f)
    BY GivenMore
  <2>2. QED BY <1>1, <1>3, <2>1
<1> HIDE DEF q
<1>8. QED BY <1>6, <1>7 DEF OwnIsAimed, q

\* After any of them parseTarget has the last language and the last label.
LEMMA AimRead ==
    ASSUME NEW o, Locates(o)
    PROVE  OwnIsAimed(o)
<1> DEFINE S == {u \in Seq(Seq(Arg)) : Locates(u) => OwnIsAimed(u)}
<1>1. <<>> \in S
  <2>1. <<>> \in Seq(Seq(Arg)) OBVIOUS
  <2>2. QED BY <2>1, AimReadNone
<1>2. ASSUME NEW u \in Seq(Seq(Arg)), NEW g \in Seq(Arg), Locates(u) => OwnIsAimed(u)
      PROVE  Append(u, g) \in Seq(Seq(Arg)) /\ (Locates(Append(u, g)) => OwnIsAimed(Append(u, g)))
  <2>1. Append(u, g) \in Seq(Seq(Arg)) OBVIOUS
  <2>2. QED BY <1>2, <2>1, LocatesMore, AimReadMore
<1>3. \A u \in S, g \in Seq(Arg) : Append(u, g) \in S BY <1>2
<1>4. S = Seq(Seq(Arg))
  <2>1. S \in SUBSET Seq(Seq(Arg)) OBVIOUS
  <2> HIDE DEF S
  <2>2. QED BY <1>1, <1>3, <2>1, SeqInduction
<1>5. o \in Seq(Seq(Arg)) BY DEF Locates
<1>6. QED BY <1>4, <1>5

\* The key of an eval's own flags is that of a close with the same flags after it.
LEMMA CloseBeforeFlags ==
    ASSUME Usage, Locate, parts.exe \notin IdLike
    PROVE  Key(Request(<<"close">> \o Own \o ExeArg)) =
               Addressed(Given("lang"), Given("session"), parts.exe)
<1> DEFINE text == Texts(<<>>)
           q == Aimed(Begun(text), Unset, <<>>, Unset)
<1>1. Own \in Seq(Arg) BY UsageForm, OwnRead, PartsAre DEF Parts
<1>2. parts.exe \in Arg \ Switches BY UsageForm DEF Parts
<1>3. OwnIsRead(<<>>) BY OwnReadNone
<1>4. NoFile(text) BY <1>3, TextsUnread DEF OwnIsRead, NoFile
<1>5. PICK fresh : Start = Had(text, Unset, fresh, Unset, <<>>, <<>>, Unset)
  BY <1>3, FlattenNone, ReadNone DEF OwnIsRead
<1>6. "close" \in Arg BY DEF Arg
<1>7. \A y \in Arg : <<y>> \in Seq(Arg) OBVIOUS
<1>8. <<"close">> \in Seq(Arg) /\ ExeOf(parts.exe) \in Seq(Arg)
  BY <1>2, <1>6, <1>7 DEF ExeOf
<1>9. PICK h \in Seq(Arg), c \in Seq(Arg), s \in Seq(Arg) :
          h = Own /\ c = <<"close">> /\ s = ExeOf(parts.exe)
  BY <1>1, <1>8
<1>10. PICK v \in Seq(Arg) : v = h \o s
  <2>1. h \o s \in Seq(Arg) OBVIOUS
  <2>2. QED BY <2>1
<1>11. parseArgs(c \o v) = Closed(text, fresh, v)
  <2>1. ReadFrom(Start, c \o v) = ReadFrom(ReadFrom(Start, c), v) BY ReadOn
  <2>2. ReadFrom(Start, c) = Step(Start, "close") BY <1>9, ReadOne
  <2>3. Step(Had(text, Unset, fresh, Unset, <<>>, <<>>, Unset), "close") =
            Closed(text, fresh, <<>>)
    BY <1>4, CloseStep
  <2>4. ReadFrom(Closed(text, fresh, <<>>), v) = Closed(text, fresh, v) BY CloseRead
  <2>5. QED BY <1>5, <2>1, <2>2, <2>3, <2>4 DEF parseArgs
<1>12. Locates(parts.own)
  <2>1. OwnLine(parts.own) BY UsageForm DEF Parts
  <2>2. QED BY <2>1 DEF Locates, Locating, OwnLine, Locate
<1>13. PICK aims \in AimTexts :
           /\ AimsAt(AimFrom(q, h), aims)
           /\ aims["lang"] = Given("lang") /\ aims["session"] = Given("session")
  <2>1. OwnIsAimed(parts.own) BY <1>12, AimRead
  <2>2. QED BY <1>9, <2>1, PartsAre DEF OwnIsAimed
<1>14. PICK fwd : AimFrom(q, h) = Aimed(aims, Unset, fwd, Unset) BY <1>13 DEF AimsAt
<1>15. parseTarget(Closed(text, fresh, v)) = Aimed(aims, parts.exe, fwd, Unset)
  <2>1. AimFrom(q, h \o s) = AimFrom(AimFrom(q, h), s) BY AimOn
  <2>2. AimFrom(Aimed(aims, Unset, fwd, Unset), s) = Aimed(aims, parts.exe, fwd, Unset)
    BY <1>2, <1>9, AimExe
  <2>3. parseTarget(Closed(text, fresh, v)) = AimFrom(q, v) BY TargetIs
  <2>4. QED BY <1>10, <1>14, <2>1, <2>2, <2>3
<1>16. Key(Request(c \o v)) = Addressed(aims["lang"], aims["session"], parts.exe)
  <2> HIDE DEF text
  <2>1. QED BY <1>11, <1>15, CloseKey
<1>17. c \o v = <<"close">> \o Own \o ExeArg
  <2>1. c \o (h \o s) = (c \o h) \o s OBVIOUS
  <2>2. (c \o h) \o s = <<"close">> \o Own \o ExeArg BY <1>9, PartsAre
  <2>3. QED BY <1>10, <2>1, <2>2
<1>18. QED BY <1>13, <1>16, <1>17

\* A verb with an eval's own flags and its executable, the flags before or after it,
\* finds the session of the eval: in every line, with every reading of the arguments.
THEOREM EvalIsFound == CommandFindsEval
<1> DEFINE r == Request(Line)
<1>1. SUFFICES ASSUME Usage, r.action = "eval", parts.exe \notin IdLike
               PROVE  /\ Key(Request(Own \o <<"close">> \o ExeArg)) = Key(r)
                      /\ Locate => Key(Request(<<"close">> \o Own \o ExeArg)) = Key(r)
  BY DEF CommandFindsEval
<1>2. Key(r) = Addressed(Given("lang"), Given("session"), parts.exe) BY <1>1, EvalKey
<1>3. Key(Request(Own \o <<"close">> \o ExeArg)) = Key(r)
  BY <1>1, <1>2, CloseAfterFlags
<1>4. ASSUME Locate PROVE Key(Request(<<"close">> \o Own \o ExeArg)) = Key(r)
  BY <1>1, <1>2, <1>4, CloseBeforeFlags
<1>5. QED BY <1>3, <1>4
=============================================================================
