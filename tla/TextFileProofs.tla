--------------------------- MODULE TextFileProofs ---------------------------
(***************************************************************************)
(* Theorems about the two parts that read a text file into lines, change     *)
(* them and write them back: the text editor and the settings, for all files, *)
(* all texts and values, and every sequence of what the user and the power    *)
(* can do.                                                                  *)
(***************************************************************************)
EXTENDS EditorInv, ConfigInv, FiniteSetTheorems, SequenceTheorems, WellFoundedInduction, TLAPS

-----------------------------------------------------------------------------
(* Induction and recursion.                                                 *)

\* Induction, without an operator parameter: a set that has 0, and with each number below N
\* the next one.
LEMMA Induction ==
  ASSUME NEW S, NEW N \in Nat, 0 \in S, \A n \in 0 .. N - 1 : n \in S => n + 1 \in S
  PROVE  \A n \in 0 .. N : n \in S
<1> DEFINE T == {n \in 0 .. N : n \notin S}
           R == OpToRel(<, Nat)
<1> SUFFICES ASSUME T # {} PROVE FALSE
  OBVIOUS
<1>1. IsWellFoundedOn(R, Nat) BY NatLessThanWellFounded
<1>2. \A m, n \in Nat : m < n => <<m, n>> \in R BY DEF OpToRel
<1>3. T \subseteq Nat OBVIOUS
<1> HIDE DEF R
<1>4. PICK n \in T : \A m \in T : <<m, n>> \notin R
  <2> HIDE DEF T
  <2> QED BY <1>1, <1>3, WFMin
<1>5. n \in Nat /\ n # 0 /\ n - 1 \in 0 .. N - 1 /\ (n - 1) + 1 = n BY <1>3
<1>6. n - 1 \in S
  <2>1. n - 1 \in 0 .. N BY <1>5
  <2>2. <<n - 1, n>> \in R BY <1>2, <1>5
  <2> QED BY <1>4, <2>1, <2>2
<1> QED BY <1>5, <1>6

\* f is the function that step defines by recursion from z.
Follows(f, S, z, N, step) ==
  /\ f \in [0 .. N -> S] /\ f[0] = z
  /\ \A n \in 1 .. N : f[n] = step[<<n, f[n - 1]>>]

\* There is one.
LEMMA Recursion ==
  ASSUME NEW S, NEW z \in S, NEW N \in Nat, NEW step \in [(1 .. N) \X S -> S]
  PROVE  \E f : Follows(f, S, z, N, step)
<1> DEFINE Good(n, f) == f[0] = z /\ \A i \in 1 .. n : f[i] = step[<<i, f[i - 1]>>]
           G == {n \in 0 .. N : \E f \in [0 .. n -> S] : Good(n, f)}
<1>1. 0 \in G
  <2> DEFINE g == [i \in 0 .. 0 |-> z]
  <2>1. g \in [0 .. 0 -> S] /\ Good(0, g) OBVIOUS
  <2> HIDE DEF g, Good
  <2> QED BY <2>1
<1>2. ASSUME NEW n \in 0 .. N - 1, n \in G PROVE n + 1 \in G
  <2>1. PICK f \in [0 .. n -> S] : Good(n, f) BY <1>2
  <2>2. n \in Nat /\ n + 1 \in 1 .. N /\ f[n] \in S OBVIOUS
  <2>3. step[<<n + 1, f[n]>>] \in S BY <2>2
  <2> DEFINE g == [i \in 0 .. n + 1 |-> IF i = n + 1 THEN step[<<n + 1, f[n]>>] ELSE f[i]]
  <2>4. \A i \in 0 .. n + 1 : i = n + 1 \/ i \in 0 .. n BY <2>2
  <2>5. g \in [0 .. n + 1 -> S] BY <2>3, <2>4
  <2>6. g[n + 1] = step[<<n + 1, f[n]>>] /\ \A i \in 0 .. n : g[i] = f[i] BY <2>2
  <2> HIDE DEF g
  <2>7. g[0] = z BY <2>1, <2>2, <2>6
  <2>8. \A i \in 1 .. n + 1 : g[i] = step[<<i, g[i - 1]>>]
    <3>1. ASSUME NEW i \in 1 .. n PROVE g[i] = step[<<i, g[i - 1]>>]
      <4>1. i \in 0 .. n /\ i - 1 \in 0 .. n BY <2>2
      <4> QED BY <2>1, <2>6, <4>1
    <3>2. (n + 1) - 1 = n /\ n \in 0 .. n BY <2>2
    <3>3. g[n + 1] = step[<<n + 1, g[(n + 1) - 1]>>] BY <2>6, <3>2
    <3>4. \A i \in 1 .. n + 1 : i = n + 1 \/ i \in 1 .. n BY <2>2
    <3> QED BY <3>1, <3>3, <3>4
  <2>9. Good(n + 1, g) BY <2>7, <2>8
  <2> QED BY <2>2, <2>5, <2>9
<1>3. N \in G
  <2> HIDE DEF G
  <2> QED BY <1>1, <1>2, Induction
<1> QED BY <1>3 DEF Follows


-----------------------------------------------------------------------------
(* FlattenSeq.                                                              *)

\* FlattenSeq step by step.
Flattens(f, S, s) ==
  /\ f \in [0 .. Len(s) -> Seq(S)] /\ f[0] = <<>> /\ f[Len(s)] = FlattenSeq(s)
  /\ \A n \in 1 .. Len(s) : f[n] = f[n - 1] \o s[n]

LEMMA Flattening ==
  ASSUME NEW S, NEW s \in Seq(Seq(S))
  PROVE  \E f : Flattens(f, S, s)
<1> DEFINE N == Len(s)
           step == [p \in (1 .. N) \X Seq(S) |-> p[2] \o s[p[1]]]
           D == 1 .. Len(s)
<1>1. N \in Nat /\ <<>> \in Seq(S) /\ \A n \in 1 .. N : s[n] \in Seq(S) OBVIOUS
<1>2. step \in [(1 .. N) \X Seq(S) -> Seq(S)] BY <1>1
<1>3. PICK f \in [0 .. N -> Seq(S)] :
        f[0] = <<>> /\ \A n \in 1 .. N : f[n] = step[<<n, f[n - 1]>>]
  <2> DEFINE Q == Seq(S)
  <2>1. <<>> \in Q /\ N \in Nat /\ step \in [(1 .. N) \X Q -> Q] BY <1>1, <1>2
  <2> HIDE DEF N, step, Q
  <2>2. \E f : Follows(f, Q, <<>>, N, step)
    BY <2>1, Recursion, Zenon
  <2> QED BY <2>2 DEF Q, Follows
<1>4. \A n \in 1 .. N : f[n] = f[n - 1] \o s[n]
  <2> SUFFICES ASSUME NEW n \in 1 .. N PROVE f[n] = f[n - 1] \o s[n]
    OBVIOUS
  <2>1. n - 1 \in 0 .. N BY <1>1
  <2>2. <<n, f[n - 1]>> \in (1 .. N) \X Seq(S) BY <2>1
  <2> QED BY <1>3, <2>2
<1>5. f[N] = FlattenSeq(s)
  <2>1. CASE N = 0
    <3>1. s = <<>> BY <2>1
    <3>2. FlattenSeq(s) = s BY <2>1 DEF FlattenSeq
    <3> QED BY <1>3, <2>1, <3>1, <3>2
  <2>2. CASE N # 0
    <3> DEFINE F(h) == [i \in D |-> IF i = 1 THEN s[i] ELSE h[i - 1] \o s[i]]
               g == [i \in D |-> f[i]]
               h == CHOOSE h : h = F(h)
    <3>0. f[1] = s[1]
      <4>1. 1 \in 1 .. N /\ 1 - 1 = 0 BY <1>1, <2>2
      <4>2. f[1] = f[1 - 1] \o s[1] BY <1>4, <4>1
      <4>3. f[1] = <<>> \o s[1] BY <1>3, <4>1, <4>2
      <4> QED BY <1>1, <4>1, <4>3
    <3>1. FlattenSeq(s) = h[Len(s)] BY <2>2 DEF FlattenSeq
    <3>2. g = F(g)
      <4> SUFFICES ASSUME NEW i \in D
                   PROVE  f[i] = IF i = 1 THEN s[i] ELSE g[i - 1] \o s[i]
        BY Zenon
      <4>1. CASE i = 1
        <5> QED BY <3>0, <4>1
      <4>2. CASE i # 1
        <5>1. i - 1 \in D BY <1>1, <4>2
        <5> QED BY <1>4, <4>2, <5>1
      <4> QED BY <4>1, <4>2
    <3> HIDE DEF F
    <3>3. h = F(h) BY <3>2, Zenon
    <3> HIDE DEF g, h
    <3>4. \A n \in 0 .. N : n \in D => h[n] = f[n]
      <4> DEFINE E == {n \in 0 .. N : n \in D => h[n] = f[n]}
      <4>1. 0 \in E BY <1>1
      <4>2. ASSUME NEW n \in 0 .. N - 1, n \in E PROVE n + 1 \in E
        <5>1. n + 1 \in D /\ n \in Nat /\ n + 1 \in 0 .. N BY <1>1
        <5>2. h[n + 1] = IF n + 1 = 1 THEN s[n + 1] ELSE h[(n + 1) - 1] \o s[n + 1]
          BY <3>3, <5>1 DEF F
        <5>3. CASE n = 0
          <6> QED BY <3>0, <5>1, <5>2, <5>3
        <5>4. CASE n # 0
          <6>1. n \in D /\ (n + 1) - 1 = n BY <1>1, <5>4
          <6>2. f[n + 1] = f[n] \o s[n + 1] BY <1>4, <5>1, <6>1
          <6>3. h[n] = f[n] BY <4>2, <6>1
          <6>4. n + 1 # 1 BY <5>1, <5>4
          <6>5. h[n + 1] = h[n] \o s[n + 1] BY <5>2, <6>1, <6>4, Zenon
          <6> QED BY <5>1, <6>2, <6>3, <6>5
        <5> QED BY <5>3, <5>4
      <4> HIDE DEF E
      <4>3. \A n \in 0 .. N : n \in E BY <1>1, <4>1, <4>2, Induction
      <4> QED BY <4>3 DEF E
    <3> QED BY <1>1, <2>2, <3>1, <3>4
  <2> QED BY <2>1, <2>2
<1> QED BY <1>3, <1>4, <1>5 DEF Flattens

LEMMA FlattenEmpty == FlattenSeq(<<>>) = <<>>
BY DEF FlattenSeq

LEMMA FlattenAppend ==
  ASSUME NEW S, NEW s \in Seq(Seq(S)), NEW x \in Seq(S)
  PROVE  FlattenSeq(Append(s, x)) = FlattenSeq(s) \o x /\ FlattenSeq(s) \in Seq(S)
<1> DEFINE N == Len(s)
           t == Append(s, x)
<1>1. /\ t \in Seq(Seq(S)) /\ Len(t) = N + 1 /\ t[N + 1] = x /\ N \in Nat
      /\ \A n \in 1 .. N : t[n] = s[n]
  OBVIOUS
<1>2. PICK f \in [0 .. N -> Seq(S)] :
        /\ f[0] = <<>> /\ f[N] = FlattenSeq(s)
        /\ \A n \in 1 .. N : f[n] = f[n - 1] \o s[n]
  BY Flattening DEF Flattens
<1> HIDE DEF t
<1>3. PICK g \in [0 .. N + 1 -> Seq(S)] :
        /\ g[0] = <<>> /\ g[N + 1] = FlattenSeq(t)
        /\ \A n \in 1 .. N + 1 : g[n] = g[n - 1] \o t[n]
  <2>1. \E g : Flattens(g, S, t) BY <1>1, Flattening, Zenon
  <2> QED BY <1>1, <2>1 DEF Flattens
<1>0. N \in Nat BY <1>1
<1> HIDE DEF N
<1>4. \A n \in 0 .. N : g[n] = f[n]
  <2> DEFINE E == {n \in 0 .. N : g[n] = f[n]}
  <2>1. 0 \in E BY <1>1, <1>2, <1>3
  <2>2. ASSUME NEW n \in 0 .. N - 1, n \in E PROVE n + 1 \in E
    <3>1. n + 1 \in 1 .. N /\ n + 1 \in 1 .. N + 1 /\ (n + 1) - 1 = n /\ n + 1 \in 0 .. N
      BY <1>0
    <3>2. g[n + 1] = g[(n + 1) - 1] \o t[n + 1] BY <1>3, <3>1
    <3>3. f[n + 1] = f[(n + 1) - 1] \o s[n + 1] BY <1>2, <3>1
    <3>4. g[n] = f[n] /\ t[n + 1] = s[n + 1] BY <1>1, <2>2, <3>1
    <3> QED BY <3>1, <3>2, <3>3, <3>4
  <2> HIDE DEF E
  <2>3. \A n \in 0 .. N : n \in E BY <1>1, <2>1, <2>2, Induction
  <2> QED BY <2>3 DEF E
<1>5. g[N + 1] = g[N] \o x
  <2>1. N + 1 \in 1 .. N + 1 /\ (N + 1) - 1 = N BY <1>1
  <2>2. g[N + 1] = g[(N + 1) - 1] \o t[N + 1] BY <1>3, <2>1
  <2> QED BY <1>1, <2>1, <2>2
<1>6. N \in 0 .. N BY <1>1
<1>7. FlattenSeq(t) = FlattenSeq(s) \o x BY <1>2, <1>3, <1>4, <1>5, <1>6
<1>8. FlattenSeq(s) \in Seq(S) BY <1>2, <1>6
<1> QED BY <1>7, <1>8 DEF t

-----------------------------------------------------------------------------
(* LoadText.                                                                *)

Acc == [lines : Seq(Seq(LineBytes)), line : Seq(LineBytes), skip : BOOLEAN]
NothingRead == [lines |-> <<>>, line |-> <<>>, skip |-> FALSE]

\* The second byte of a line end follows, in the same chunk.
PairAt(bytes, i) ==
  bytes[i] = "CR" /\ i < Len(bytes) /\ i % Chunk # 0 /\ bytes[i + 1] = "LF"

\* The three cases of the loop.
LEMMA LoadByteCases ==
  ASSUME NEW bytes \in Seq(Bytes), NEW acc \in Acc, NEW i \in 1 .. Len(bytes)
  PROVE  LET r == LoadByte(bytes, acc, i) IN
         /\ r \in Acc
         /\ acc.skip => r.lines = acc.lines /\ r.line = acc.line /\ ~r.skip
         /\ ~acc.skip /\ bytes[i] \notin Breaks =>
              r.lines = acc.lines /\ r.line = Append(acc.line, bytes[i]) /\ ~r.skip
         /\ ~acc.skip /\ bytes[i] \in Breaks =>
              /\ r.lines = Append(acc.lines, acc.line) /\ r.line = <<>>
              /\ r.skip <=> PairAt(bytes, i)
<1>1. bytes[i] \in Bytes /\ i \in Nat OBVIOUS
<1>2. /\ acc.lines \in Seq(Seq(LineBytes)) /\ acc.line \in Seq(LineBytes) /\ acc.skip \in BOOLEAN
      /\ acc = [lines |-> acc.lines, line |-> acc.line, skip |-> acc.skip]
  BY DEF Acc
<1>3. CASE acc.skip
  <2>1. LoadByte(bytes, acc, i) = [lines |-> acc.lines, line |-> acc.line, skip |-> FALSE]
    BY <1>2, <1>3 DEF LoadByte
  <2> QED BY <1>2, <1>3, <2>1 DEF Acc
<1>4. CASE ~acc.skip /\ bytes[i] \notin Breaks
  <2>1. LoadByte(bytes, acc, i) = [acc EXCEPT !.line = Append(@, bytes[i])]
    BY <1>4 DEF LoadByte
  <2>2. Append(acc.line, bytes[i]) \in Seq(LineBytes) BY <1>1, <1>2, <1>4 DEF LineBytes
  <2>3. LoadByte(bytes, acc, i) = [lines |-> acc.lines, line |-> Append(acc.line, bytes[i]),
                                   skip |-> acc.skip]
    BY <1>2, <2>1
  <2> QED BY <1>2, <1>4, <2>2, <2>3 DEF Acc
<1>5. CASE ~acc.skip /\ bytes[i] \in Breaks
  <2>1. LoadByte(bytes, acc, i) = [lines |-> Append(acc.lines, acc.line), line |-> <<>>,
                                   skip |-> PairAt(bytes, i)]
    BY <1>5 DEF LoadByte, PairAt
  <2>2. Append(acc.lines, acc.line) \in Seq(Seq(LineBytes)) /\ <<>> \in Seq(LineBytes) BY <1>2
  <2>3. PairAt(bytes, i) \in BOOLEAN BY DEF PairAt
  <2> QED BY <1>5, <2>1, <2>2, <2>3 DEF Acc
<1> QED BY <1>3, <1>4, <1>5

LEMMA ReadingSteps ==
  ASSUME NEW bytes \in Seq(Bytes)
  PROVE  /\ Reading(bytes) \in [0 .. Len(bytes) -> Acc]
         /\ Reading(bytes)[0] = NothingRead
         /\ \A n \in 1 .. Len(bytes) :
              Reading(bytes)[n] = LoadByte(bytes, Reading(bytes)[n - 1], n)
<1> DEFINE N == Len(bytes)
           step == [p \in (1 .. N) \X Acc |-> LoadByte(bytes, p[2], p[1])]
           F(h) == [n \in 0 .. Len(bytes) |->
                      IF n = 0 THEN [lines |-> <<>>, line |-> <<>>, skip |-> FALSE]
                               ELSE LoadByte(bytes, h[n - 1], n)]
           read == CHOOSE h : h = F(h)
<1>1. N \in Nat /\ NothingRead \in Acc BY DEF NothingRead, Acc
<1>2. step \in [(1 .. N) \X Acc -> Acc] BY LoadByteCases
<1>3. PICK f \in [0 .. N -> Acc] :
        f[0] = NothingRead /\ \A n \in 1 .. N : f[n] = step[<<n, f[n - 1]>>]
  <2> HIDE DEF N, step
  <2>1. \E f : Follows(f, Acc, NothingRead, N, step) BY <1>1, <1>2, Recursion, Zenon
  <2> QED BY <2>1 DEF Follows
<1>4. ASSUME NEW n \in 1 .. N
      PROVE  f[n] = LoadByte(bytes, f[n - 1], n) /\ n - 1 \in 0 .. N
  <2>1. n - 1 \in 0 .. N BY <1>1
  <2>2. <<n, f[n - 1]>> \in (1 .. N) \X Acc BY <2>1
  <2>3. step[<<n, f[n - 1]>>] = LoadByte(bytes, f[n - 1], n) BY <2>2
  <2> HIDE DEF step
  <2> QED BY <1>3, <2>1, <2>3
<1>5. f = F(f)
  <2>1. \A n \in 0 .. N : n # 0 => n \in 1 .. N BY <1>1
  <2>2. \A n \in 0 .. N : f[n] = IF n = 0 THEN [lines |-> <<>>, line |-> <<>>, skip |-> FALSE]
                                          ELSE LoadByte(bytes, f[n - 1], n)
    BY <1>3, <1>4, <2>1, Zenon DEF NothingRead
  <2> QED BY <1>3, <2>2
<1>6. Reading(bytes) = read BY DEF Reading
<1> HIDE DEF F
<1>7. read = F(read) BY <1>5, Zenon
<1> HIDE DEF read
<1>8. \A n \in 0 .. N : read[n] = IF n = 0 THEN NothingRead ELSE LoadByte(bytes, read[n - 1], n)
  <2>1. \A n \in 0 .. N : F(read)[n] = IF n = 0 THEN NothingRead ELSE LoadByte(bytes, read[n - 1], n)
    BY Zenon DEF F, NothingRead
  <2> QED BY <1>7, <2>1, Zenon
<1>9. \A n \in 0 .. N : read[n] = f[n]
  <2> DEFINE E == {n \in 0 .. N : read[n] = f[n]}
  <2>1. 0 \in E BY <1>1, <1>3, <1>8
  <2>2. ASSUME NEW n \in 0 .. N - 1, n \in E PROVE n + 1 \in E
    <3>1. n + 1 \in 1 .. N /\ (n + 1) - 1 = n /\ n + 1 \in 0 .. N /\ n + 1 # 0 BY <1>1
    <3>2. f[n + 1] = LoadByte(bytes, f[n], n + 1) BY <1>4, <3>1
    <3>3. read[n + 1] = LoadByte(bytes, read[n], n + 1) BY <1>8, <3>1
    <3> QED BY <2>2, <3>1, <3>2, <3>3
  <2> HIDE DEF E
  <2>3. \A n \in 0 .. N : n \in E BY <1>1, <2>1, <2>2, Induction
  <2> QED BY <2>3 DEF E
<1>10. read = f
  <2>1. read = [n \in 0 .. N |-> read[n]]
    <3>1. read = [n \in 0 .. N |-> F(read)[n]] BY <1>7, Zenon DEF F
    <3> QED BY <1>7, <3>1, Zenon
  <2> QED BY <1>3, <1>9, <2>1
<1> QED BY <1>3, <1>4, <1>6, <1>10

\* What has been read so far, and how many lines ended.
Count(bytes, n) == Cardinality(BrokenUpTo(bytes, n))

LEMMA CountSteps ==
  ASSUME NEW bytes \in Seq(Bytes)
  PROVE  /\ Count(bytes, 0) = 0
         /\ \A n \in 1 .. Len(bytes) :
              /\ Count(bytes, n) \in Nat /\ Count(bytes, n - 1) \in Nat
              /\ Count(bytes, n) = Count(bytes, n - 1) + IF n \in Broken(bytes) THEN 1 ELSE 0
         /\ Cardinality(Broken(bytes)) = Count(bytes, Len(bytes))
<1>1. Len(bytes) \in Nat /\ DOMAIN bytes = 1 .. Len(bytes) OBVIOUS
<1>2. Broken(bytes) \subseteq 1 .. Len(bytes) BY DEF Broken, Ends, Split
<1>3. IsFiniteSet(1 .. Len(bytes)) BY <1>1, FS_Interval
<1>4. \A n : IsFiniteSet(BrokenUpTo(bytes, n)) /\ Cardinality(BrokenUpTo(bytes, n)) \in Nat
  <2> SUFFICES ASSUME NEW n
               PROVE  IsFiniteSet(BrokenUpTo(bytes, n))
                      /\ Cardinality(BrokenUpTo(bytes, n)) \in Nat
    OBVIOUS
  <2>1. BrokenUpTo(bytes, n) \in SUBSET (1 .. Len(bytes)) BY <1>2 DEF BrokenUpTo
  <2>2. IsFiniteSet(BrokenUpTo(bytes, n)) BY <1>3, <2>1, FS_Subset
  <2> QED BY <2>2, FS_CardinalityType
<1>5. BrokenUpTo(bytes, 0) = {} BY <1>1, <1>2 DEF BrokenUpTo
<1>6. ASSUME NEW n \in 1 .. Len(bytes)
      PROVE  Count(bytes, n) = Count(bytes, n - 1) + IF n \in Broken(bytes) THEN 1 ELSE 0
  <2>1. n \notin BrokenUpTo(bytes, n - 1) BY <1>1 DEF BrokenUpTo
  <2>2. CASE n \in Broken(bytes)
    <3>1. BrokenUpTo(bytes, n) = BrokenUpTo(bytes, n - 1) \cup {n}
      BY <1>1, <1>2, <2>2 DEF BrokenUpTo
    <3> QED BY <1>4, <2>1, <2>2, <3>1, FS_AddElement DEF Count
  <2>3. CASE n \notin Broken(bytes)
    <3>1. BrokenUpTo(bytes, n) = BrokenUpTo(bytes, n - 1)
      BY <1>1, <1>2, <2>3 DEF BrokenUpTo
    <3> QED BY <1>4, <2>3, <3>1 DEF Count
  <2> QED BY <2>2, <2>3
<1>7. BrokenUpTo(bytes, Len(bytes)) = Broken(bytes) BY <1>1, <1>2 DEF BrokenUpTo
<1> QED BY <1>4, <1>5, <1>6, <1>7, FS_EmptySet DEF Count

LEMMA LettersSteps ==
  ASSUME NEW bytes \in Seq(Bytes)
  PROVE  /\ Letters(bytes, 0) = <<>>
         /\ \A n \in 1 .. Len(bytes) :
              /\ Letters(bytes, n - 1) \in Seq(LineBytes)
              /\ Letters(bytes, n) = Letters(bytes, n - 1)
                                       \o IF bytes[n] \in Breaks THEN <<>> ELSE <<bytes[n]>>
<1> DEFINE L(i) == IF bytes[i] \in Breaks THEN <<>> ELSE <<bytes[i]>>
<1>1. Len(bytes) \in Nat /\ \A n \in 1 .. Len(bytes) : L(n) \in Seq(LineBytes)
  <2> SUFFICES ASSUME NEW n \in 1 .. Len(bytes) PROVE L(n) \in Seq(LineBytes)
    OBVIOUS
  <2>1. bytes[n] \in Bytes OBVIOUS
  <2>2. CASE bytes[n] \in Breaks BY <2>2
  <2>3. CASE bytes[n] \notin Breaks
    <3>1. bytes[n] \in LineBytes BY <2>1, <2>3 DEF LineBytes
    <3>2. <<bytes[n]>> \in Seq(LineBytes) BY <3>1
    <3> QED BY <2>3, <3>2
  <2> QED BY <2>2, <2>3
<1>2. Letters(bytes, 0) = <<>>
  <2>1. [i \in 1 .. 0 |-> L(i)] = <<>> OBVIOUS
  <2> QED BY <2>1, FlattenEmpty DEF Letters
<1>3. ASSUME NEW n \in 1 .. Len(bytes)
      PROVE  /\ Letters(bytes, n - 1) \in Seq(LineBytes)
             /\ Letters(bytes, n) = Letters(bytes, n - 1) \o L(n)
  <2> DEFINE s == [i \in 1 .. n - 1 |-> L(i)]
  <2>1. n - 1 \in Nat /\ \A i \in 1 .. n - 1 : i \in 1 .. Len(bytes) BY <1>1
  <2> HIDE DEF L
  <2>2. s \in Seq(Seq(LineBytes)) /\ L(n) \in Seq(LineBytes) BY <1>1, <2>1
  <2>3. [i \in 1 .. n |-> L(i)] = Append(s, L(n)) BY <2>1
  <2>4. /\ FlattenSeq(Append(s, L(n))) = FlattenSeq(s) \o L(n)
        /\ FlattenSeq(s) \in Seq(LineBytes)
    <3> HIDE DEF s
    <3> QED BY <2>2, FlattenAppend
  <2>5. Letters(bytes, n) = FlattenSeq([i \in 1 .. n |-> L(i)])
        /\ Letters(bytes, n - 1) = FlattenSeq(s)
    BY DEF Letters, L
  <2> HIDE DEF s
  <2> QED BY <2>3, <2>4, <2>5
<1> QED BY <1>2, <1>3

\* What LoadText has done with the first n bytes.
ReadSoFar(bytes, n) ==
  LET acc == Reading(bytes)[n] IN
  /\ Len(acc.lines) = Count(bytes, n) + (IF acc.skip THEN 1 ELSE 0)
  /\ acc.skip => n # 0 /\ PairAt(bytes, n)
  /\ acc.line = <<>> <=> (n = 0 \/ bytes[n] \in Breaks)
  /\ FlattenSeq(acc.lines) \o acc.line = Letters(bytes, n)
  /\ \A e \in BrokenUpTo(bytes, n) :
       /\ Count(bytes, e) <= Len(acc.lines)
       /\ FlattenSeq(SubSeq(acc.lines, 1, Count(bytes, e))) = Letters(bytes, e)

LEMMA ReadStep ==
  ASSUME NEW bytes \in Seq(Bytes), NEW n \in 0 .. Len(bytes) - 1, ReadSoFar(bytes, n)
  PROVE  ReadSoFar(bytes, n + 1)
<1> DEFINE N == Len(bytes)
           m == n + 1
           acc == Reading(bytes)[n]
           new == Reading(bytes)[n + 1]
<1>1. N \in Nat /\ n \in Nat /\ m \in 1 .. N /\ n \in 0 .. N /\ m - 1 = n /\ m \in Nat
      /\ m # 0
  OBVIOUS
<1>2. /\ acc \in Acc /\ new = LoadByte(bytes, acc, m)
  BY <1>1, ReadingSteps
<1>3. /\ acc.lines \in Seq(Seq(LineBytes)) /\ acc.line \in Seq(LineBytes) /\ acc.skip \in BOOLEAN
      /\ Len(acc.lines) \in Nat
  BY <1>2 DEF Acc
<1>4. /\ Count(bytes, n) \in Nat /\ Count(bytes, m) \in Nat
      /\ Count(bytes, m) = Count(bytes, n) + IF m \in Broken(bytes) THEN 1 ELSE 0
  BY <1>1, CountSteps
<1>5. /\ Letters(bytes, n) \in Seq(LineBytes)
      /\ Letters(bytes, m) = Letters(bytes, n) \o IF bytes[m] \in Breaks THEN <<>>
                                                                       ELSE <<bytes[m]>>
  BY <1>1, LettersSteps
<1>6. bytes[m] \in Breaks => Letters(bytes, m) = Letters(bytes, n)
  BY <1>5, ConcatEmptySeq
<1>7. /\ Len(acc.lines) = Count(bytes, n) + (IF acc.skip THEN 1 ELSE 0)
      /\ acc.skip => n # 0 /\ PairAt(bytes, n)
      /\ acc.line = <<>> <=> (n = 0 \/ bytes[n] \in Breaks)
      /\ FlattenSeq(acc.lines) \o acc.line = Letters(bytes, n)
      /\ \A e \in BrokenUpTo(bytes, n) :
           /\ Count(bytes, e) <= Len(acc.lines)
           /\ FlattenSeq(SubSeq(acc.lines, 1, Count(bytes, e))) = Letters(bytes, e)
  BY DEF ReadSoFar
<1>8. \A e \in BrokenUpTo(bytes, m) :
        e \in BrokenUpTo(bytes, n) \/ (e = m /\ m \in Broken(bytes))
  BY <1>1 DEF BrokenUpTo, Broken, Ends, Split
<1>9. \A e \in BrokenUpTo(bytes, n) : Count(bytes, e) \in Nat
  <2> SUFFICES ASSUME NEW e \in BrokenUpTo(bytes, n) PROVE Count(bytes, e) \in Nat
    OBVIOUS
  <2>1. e \in 1 .. N BY DEF BrokenUpTo, Broken, Ends, Split
  <2> QED BY <2>1, CountSteps
<1> HIDE DEF N, m, acc, new
<1>10. CASE acc.skip
  <2>1. new.lines = acc.lines /\ new.line = acc.line /\ ~new.skip
    BY <1>1, <1>2, <1>10, LoadByteCases DEF N
  <2>2. bytes[n] = "CR" /\ bytes[m] = "LF" BY <1>7, <1>10 DEF PairAt, m
  <2>3. acc.line = <<>> BY <1>7, <2>2 DEF Breaks
  <2>4. m \in Broken(bytes) BY <1>1, <2>2 DEF Broken, Ends, N
  <2>5. bytes[m] \in Breaks BY <2>2 DEF Breaks
  <2>6. Len(new.lines) = Count(bytes, m) BY <1>3, <1>4, <1>7, <1>10, <2>1, <2>4
  <2>7. FlattenSeq(new.lines) \o new.line = Letters(bytes, m) BY <1>6, <1>7, <2>1, <2>5
  <2>8. FlattenSeq(SubSeq(new.lines, 1, Count(bytes, m))) = Letters(bytes, m)
    <3>1. SubSeq(new.lines, 1, Count(bytes, m)) = acc.lines
      BY <1>3, <2>1, <2>6, SubSeqFull
    <3>2. \E S : FlattenSeq(acc.lines) \in Seq(S) BY <1>3, FlattenAppend, EmptySeq
    <3>3. FlattenSeq(acc.lines) \o <<>> = FlattenSeq(acc.lines) BY <3>2, ConcatEmptySeq
    <3> QED BY <2>1, <2>3, <2>7, <3>1, <3>3
  <2>9. \A e \in BrokenUpTo(bytes, m) :
          /\ Count(bytes, e) <= Len(new.lines)
          /\ FlattenSeq(SubSeq(new.lines, 1, Count(bytes, e))) = Letters(bytes, e)
    BY <1>4, <1>7, <1>8, <2>1, <2>6, <2>8
  <2> QED BY <1>1, <2>1, <2>3, <2>5, <2>6, <2>7, <2>9 DEF ReadSoFar, m, new
<1>11. CASE ~acc.skip /\ bytes[m] \notin Breaks
  <2>1. new.lines = acc.lines /\ new.line = Append(acc.line, bytes[m]) /\ ~new.skip
    BY <1>1, <1>2, <1>11, LoadByteCases DEF N
  <2>2. m \notin Broken(bytes) BY <1>11 DEF Broken, Ends, Split, Breaks
  <2>3. bytes[m] \in LineBytes BY <1>1, <1>11 DEF LineBytes, N
  <2>4. new.line # <<>> BY <1>3, <2>1, <2>3, AppendProperties
  <2>t. new.line = acc.line \o <<bytes[m]>> BY <1>3, <2>1, <2>3, AppendIsConcat
  <2>5. Len(new.lines) = Count(bytes, m) BY <1>3, <1>4, <1>7, <1>11, <2>1, <2>2
  <2>6. FlattenSeq(new.lines) \o new.line = Letters(bytes, m)
    <3>1. FlattenSeq(acc.lines) \in Seq(LineBytes) BY <1>3, FlattenAppend, EmptySeq
    <3> DEFINE F == FlattenSeq(acc.lines)
               t == <<bytes[m]>>
               l == acc.line
    <3>2. t \in Seq(LineBytes) /\ F \in Seq(LineBytes) /\ l \in Seq(LineBytes) BY <1>3, <2>3, <3>1
    <3>3. F \o (l \o t) = (F \o l) \o t
      <4> HIDE DEF F, t, l
      <4> QED BY <3>2, ConcatAssociative, SMTT(30)
    <3> QED BY <1>5, <1>7, <1>11, <2>1, <2>t, <3>3
  <2>7. \A e \in BrokenUpTo(bytes, m) :
          /\ Count(bytes, e) <= Len(new.lines)
          /\ FlattenSeq(SubSeq(new.lines, 1, Count(bytes, e))) = Letters(bytes, e)
    BY <1>7, <1>8, <2>1, <2>2
  <2>8. /\ Len(new.lines) = Count(bytes, m) + (IF new.skip THEN 1 ELSE 0)
        /\ new.line = <<>> <=> (m = 0 \/ bytes[m] \in Breaks)
    BY <1>1, <1>4, <1>11, <2>1, <2>4, <2>5
  <2> QED BY <2>1, <2>6, <2>7, <2>8 DEF ReadSoFar, m, new
<1>12. CASE ~acc.skip /\ bytes[m] \in Breaks
  <2>1. /\ new.lines = Append(acc.lines, acc.line) /\ new.line = <<>>
        /\ new.skip <=> PairAt(bytes, m)
    BY <1>1, <1>2, <1>12, LoadByteCases DEF N
  <2>2. m \in Broken(bytes) <=> ~PairAt(bytes, m)
    BY <1>1, <1>12, EditorAssumption DEF Broken, Ends, Split, Breaks, PairAt, N
  <2>3. /\ new.lines \in Seq(Seq(LineBytes)) /\ Len(new.lines) = Len(acc.lines) + 1
        /\ \A i \in 1 .. Len(acc.lines) : new.lines[i] = acc.lines[i]
    BY <1>3, <2>1, AppendProperties
  <2>4. Len(new.lines) = Count(bytes, m) + (IF new.skip THEN 1 ELSE 0)
    BY <1>3, <1>4, <1>7, <1>12, <2>1, <2>2, <2>3
  <2>5. FlattenSeq(new.lines) = Letters(bytes, m)
    <3>1. FlattenSeq(new.lines) = FlattenSeq(acc.lines) \o acc.line
      BY <1>3, <2>1, FlattenAppend
    <3> QED BY <1>6, <1>7, <1>12, <3>1
  <2>6. FlattenSeq(new.lines) \o new.line = Letters(bytes, m)
    <3>1. Letters(bytes, m) \o <<>> = Letters(bytes, m)
      BY <1>5, <1>6, <1>12, ConcatEmptySeq
    <3> QED BY <2>1, <2>5, <3>1
  <2>7. ASSUME NEW e \in BrokenUpTo(bytes, n)
        PROVE  /\ Count(bytes, e) <= Len(new.lines)
               /\ FlattenSeq(SubSeq(new.lines, 1, Count(bytes, e))) = Letters(bytes, e)
    <3> DEFINE k == Count(bytes, e)
    <3>1. /\ k \in Nat /\ k <= Len(acc.lines)
          /\ FlattenSeq(SubSeq(acc.lines, 1, k)) = Letters(bytes, e)
      BY <1>7, <1>9
    <3> HIDE DEF k
    <3>2. SubSeq(new.lines, 1, k) = SubSeq(acc.lines, 1, k)
      <4> DEFINE x == acc.lines
                 y == acc.line
      <4>1. x \in Seq(Seq(LineBytes)) /\ y \in Seq(LineBytes) BY <1>3
      <4>2. new.lines = Append(x, y) /\ k \in Nat /\ k <= Len(x) BY <2>1, <3>1
      <4> HIDE DEF x, y
      <4>3. SubSeq(Append(x, y), 1, k) = SubSeq(x, 1, k) BY <4>1, <4>2
      <4> QED BY <4>2, <4>3 DEF x
    <3>3. k <= Len(new.lines) BY <1>3, <2>3, <3>1
    <3> QED BY <3>1, <3>2, <3>3 DEF k
  <2>8. m \in Broken(bytes) =>
          /\ Count(bytes, m) <= Len(new.lines)
          /\ FlattenSeq(SubSeq(new.lines, 1, Count(bytes, m))) = Letters(bytes, m)
    <3> SUFFICES ASSUME m \in Broken(bytes)
                 PROVE  /\ Count(bytes, m) <= Len(new.lines)
                        /\ FlattenSeq(SubSeq(new.lines, 1, Count(bytes, m)))
                             = Letters(bytes, m)
      OBVIOUS
    <3>1. Len(new.lines) = Count(bytes, m) BY <1>4, <2>1, <2>2, <2>4
    <3>2. SubSeq(new.lines, 1, Count(bytes, m)) = new.lines BY <2>3, <3>1, SubSeqFull
    <3>3. Count(bytes, m) <= Len(new.lines) BY <1>4, <3>1
    <3> QED BY <2>5, <3>2, <3>3
  <2>9. \A e \in BrokenUpTo(bytes, m) :
          /\ Count(bytes, e) <= Len(new.lines)
          /\ FlattenSeq(SubSeq(new.lines, 1, Count(bytes, e))) = Letters(bytes, e)
    BY <1>8, <2>7, <2>8
  <2> QED BY <1>1, <1>12, <2>1, <2>4, <2>6, <2>9 DEF ReadSoFar, m, new
<1> QED BY <1>3, <1>10, <1>11, <1>12

\* LoadText: every text is read to its lines.
THEOREM LoadTextExact ==
  ASSUME NEW bytes \in Seq(Bytes), bytes # <<>>
  PROVE  LinesOf(bytes, LoadText(bytes)) /\ LoadText(bytes) \in Seq(Seq(LineBytes)) \ {<<>>}
<1> DEFINE N == Len(bytes)
           acc == Reading(bytes)[N]
<1>1. N \in Nat /\ N # 0 /\ N \in 1 .. N /\ N \in 0 .. N
  <2>1. N \in Nat \ {0} BY EmptySeq
  <2> QED BY <2>1
<1>2. ReadSoFar(bytes, N)
  <2> DEFINE E == {n \in 0 .. N : ReadSoFar(bytes, n)}
  <2>1. 0 \in E
    <3>1. Reading(bytes)[0] = [lines |-> <<>>, line |-> <<>>, skip |-> FALSE]
      BY ReadingSteps DEF NothingRead
    <3>2. Count(bytes, 0) = 0 /\ Letters(bytes, 0) = <<>> BY CountSteps, LettersSteps
    <3>3. BrokenUpTo(bytes, 0) = {} BY DEF BrokenUpTo, Broken, Ends, Split
    <3>4. FlattenSeq(<<>>) \o <<>> = <<>> BY FlattenEmpty
    <3>5. ReadSoFar(bytes, 0) BY <3>1, <3>2, <3>3, <3>4 DEF ReadSoFar
    <3> QED BY <1>1, <3>5
  <2>2. ASSUME NEW n \in 0 .. N - 1, n \in E PROVE n + 1 \in E
    <3>1. ReadSoFar(bytes, n + 1) BY <2>2, ReadStep
    <3>2. n + 1 \in 0 .. N BY <1>1
    <3> QED BY <3>1, <3>2
  <2> HIDE DEF E
  <2>3. \A n \in 0 .. N : n \in E BY <1>1, <2>1, <2>2, Induction
  <2> QED BY <1>1, <2>3 DEF E
<1>3. acc \in Acc BY <1>1, ReadingSteps
<1>4. /\ acc.lines \in Seq(Seq(LineBytes)) /\ acc.line \in Seq(LineBytes) /\ acc.skip \in BOOLEAN
      /\ Len(acc.lines) \in Nat
  BY <1>3 DEF Acc
<1>5. ~acc.skip
  <2>1. ~PairAt(bytes, N) BY <1>1 DEF PairAt
  <2> QED BY <1>2, <2>1 DEF ReadSoFar
<1>6. /\ Len(acc.lines) = Count(bytes, N)
      /\ acc.line = <<>> <=> bytes[N] \in Breaks
      /\ FlattenSeq(acc.lines) \o acc.line = Letters(bytes, N)
      /\ \A e \in BrokenUpTo(bytes, N) :
           /\ Count(bytes, e) <= Len(acc.lines)
           /\ FlattenSeq(SubSeq(acc.lines, 1, Count(bytes, e))) = Letters(bytes, e)
  BY <1>1, <1>2, <1>4, <1>5, CountSteps DEF ReadSoFar
<1>7. /\ Cardinality(Broken(bytes)) = Count(bytes, N) /\ BrokenUpTo(bytes, N) = Broken(bytes)
      /\ Count(bytes, N) \in Nat
      /\ \A e \in Broken(bytes) : Count(bytes, e) \in Nat
  <2>1. Broken(bytes) \subseteq 1 .. N BY DEF Broken, Ends, Split
  <2>2. BrokenUpTo(bytes, N) = Broken(bytes) BY <1>1, <2>1 DEF BrokenUpTo
  <2> QED BY <1>1, <2>1, <2>2, CountSteps
<1>8. Last(bytes) = bytes[N] BY DEF Last
<1> DEFINE lines == IF acc.line = <<>> THEN acc.lines ELSE Append(acc.lines, acc.line)
<1>9. LoadText(bytes) = IF lines = <<>> THEN <<<<>>>> ELSE lines BY Zenon DEF LoadText
<1>10. /\ lines \in Seq(Seq(LineBytes)) /\ lines # <<>>
       /\ Len(lines) = Count(bytes, N) + (IF bytes[N] \in Breaks THEN 0 ELSE 1)
       /\ FlattenSeq(lines) = Letters(bytes, N)
       /\ \A i \in 1 .. Len(acc.lines) : lines[i] = acc.lines[i]
       /\ Len(lines) >= Len(acc.lines)
  <2> HIDE DEF acc, N
  <2>1. CASE acc.line = <<>>
    <3>1. lines = acc.lines BY <2>1
    <3>2. bytes[N] \in Breaks BY <1>6, <2>1
    <3>3. N \in Broken(bytes)
      BY <1>1, <3>2 DEF Broken, Ends, Breaks, N
    <3>4. Count(bytes, N) >= 1
      <4>1. /\ Count(bytes, N - 1) \in Nat
            /\ Count(bytes, N) = Count(bytes, N - 1) + IF N \in Broken(bytes) THEN 1 ELSE 0
        BY <1>1, CountSteps DEF N
      <4> QED BY <3>3, <4>1
    <3>5. acc.lines # <<>> BY <1>6, <3>4, EmptySeq
    <3>6. FlattenSeq(acc.lines) = Letters(bytes, N)
      <4>1. FlattenSeq(acc.lines) \in Seq(LineBytes) BY <1>4, FlattenAppend, EmptySeq
      <4>2. FlattenSeq(acc.lines) \o <<>> = FlattenSeq(acc.lines) BY <4>1, ConcatEmptySeq
      <4> QED BY <1>6, <2>1, <4>2
    <3> HIDE DEF lines
    <3> QED BY <1>4, <1>6, <1>7, <3>1, <3>2, <3>5, <3>6
  <2>2. CASE acc.line # <<>>
    <3>1. lines = Append(acc.lines, acc.line) BY <2>2
    <3>2. bytes[N] \notin Breaks BY <1>6, <2>2
    <3>3. /\ lines \in Seq(Seq(LineBytes)) /\ lines # <<>> /\ Len(lines) = Len(acc.lines) + 1
          /\ \A i \in 1 .. Len(acc.lines) : lines[i] = acc.lines[i]
      BY <1>4, <3>1, AppendProperties, SMTT(30)
    <3>4. FlattenSeq(lines) = Letters(bytes, N) BY <1>4, <1>6, <3>1, FlattenAppend
    <3> HIDE DEF lines
    <3> QED BY <1>4, <1>6, <1>7, <3>2, <3>3, <3>4
  <2> QED BY <2>1, <2>2
<1> HIDE DEF lines, acc, N
<1>11. \A e \in Broken(bytes) :
         FlattenSeq(SubSeq(lines, 1, Cardinality(BrokenUpTo(bytes, e)))) = Letters(bytes, e)
  <2> SUFFICES ASSUME NEW e \in Broken(bytes)
               PROVE  FlattenSeq(SubSeq(lines, 1, Count(bytes, e))) = Letters(bytes, e)
    BY DEF Count
  <2> DEFINE k == Count(bytes, e)
  <2>1. /\ k \in Nat /\ k <= Len(acc.lines)
        /\ FlattenSeq(SubSeq(acc.lines, 1, k)) = Letters(bytes, e)
    BY <1>6, <1>7
  <2> HIDE DEF k
  <2>2. SubSeq(lines, 1, k) = SubSeq(acc.lines, 1, k) BY <1>4, <1>10, <2>1
  <2> QED BY <2>1, <2>2 DEF k
<1>12. LoadText(bytes) = lines BY <1>9, <1>10
<1> QED BY <1>7, <1>8, <1>10, <1>11, <1>12 DEF LinesOf, N

LEMMA LoadTextEmpty == LoadText(<<>>) = <<<<>>>>
<1>1. <<>> \in Seq(Bytes) /\ Len(<<>>) = 0 OBVIOUS
<1>2. Reading(<<>>)[0] = [lines |-> <<>>, line |-> <<>>, skip |-> FALSE]
  BY <1>1, ReadingSteps DEF NothingRead
<1> QED BY <1>1, <1>2 DEF LoadText

-----------------------------------------------------------------------------
(* SaveText.                                                                *)

\* What SaveText has written before each line is how the file begins.
LEMMA FlattenPrefix ==
  ASSUME NEW S, NEW s \in Seq(Seq(S)), NEW f, Flattens(f, S, s)
  PROVE  \A k \in 0 .. Len(s) :
           /\ Len(f[k]) <= Len(FlattenSeq(s))
           /\ \A i \in 1 .. Len(f[k]) : FlattenSeq(s)[i] = f[k][i]
<1> DEFINE K == Len(s)
           b == FlattenSeq(s)
           P(k) == Len(f[k]) <= Len(b) /\ \A i \in 1 .. Len(f[k]) : b[i] = f[k][i]
           E == {j \in 0 .. K : P(K - j)}
<1>1. /\ K \in Nat /\ f \in [0 .. K -> Seq(S)] /\ f[K] = b
      /\ \A n \in 1 .. K : f[n] = f[n - 1] \o s[n] /\ s[n] \in Seq(S)
  BY SMTT(30) DEF Flattens
<1>2. \A k \in 0 .. K : Len(f[k]) \in Nat BY <1>1
<1> HIDE DEF K, b
<1>3. 0 \in E BY <1>1, <1>2
<1>4. ASSUME NEW j \in 0 .. K - 1, j \in E PROVE j + 1 \in E
  <2> DEFINE n == K - j
  <2>1. /\ n \in 1 .. K /\ n - 1 \in 0 .. K /\ n \in 0 .. K /\ n - 1 = K - (j + 1)
        /\ j + 1 \in 0 .. K
    BY <1>1
  <2>2. Len(f[n]) <= Len(b) /\ \A i \in 1 .. Len(f[n]) : b[i] = f[n][i] BY <1>4
  <2> HIDE DEF n
  <2>3. f[n] = f[n - 1] \o s[n] /\ f[n - 1] \in Seq(S) /\ s[n] \in Seq(S) BY <1>1, <2>1
  <2>4. /\ Len(f[n]) = Len(f[n - 1]) + Len(s[n]) /\ Len(f[n - 1]) \in Nat /\ Len(s[n]) \in Nat
        /\ \A i \in 1 .. Len(f[n - 1]) : f[n][i] = f[n - 1][i]
    <3> DEFINE F == f[n - 1]
               x == s[n]
    <3>1. f[n] = F \o x /\ F \in Seq(S) /\ x \in Seq(S) BY <2>3
    <3> HIDE DEF F, x
    <3>2. Len(F) \in Nat /\ Len(x) \in Nat BY <3>1, LenProperties
    <3>3. /\ Len(F \o x) = Len(F) + Len(x)
          /\ \A i \in 1 .. Len(F) + Len(x) :
               (F \o x)[i] = IF i <= Len(F) THEN F[i] ELSE x[i - Len(F)]
      BY <3>1, ConcatProperties
    <3>4. Len(f[n]) = Len(F) + Len(x) /\ \A i \in 1 .. Len(F) : f[n][i] = F[i]
      BY <3>1, <3>2, <3>3
    <3> QED BY <3>2, <3>4 DEF F, x
  <2>5. Len(b) \in Nat BY <1>1
  <2>6. P(n - 1)
    <3> DEFINE F == f[n - 1]
               x == s[n]
               G == f[n]
    <3>1. /\ Len(G) = Len(F) + Len(x) /\ Len(F) \in Nat /\ Len(x) \in Nat
          /\ \A i \in 1 .. Len(F) : G[i] = F[i]
      BY <2>4
    <3>2. Len(G) <= Len(b) /\ \A i \in 1 .. Len(G) : b[i] = G[i] BY <2>2
    <3> HIDE DEF F, x, G
    <3>3. Len(F) <= Len(b) /\ \A i \in 1 .. Len(F) : b[i] = F[i] BY <2>5, <3>1, <3>2
    <3> QED BY <3>3 DEF F
  <2> QED BY <2>1, <2>6
<1>5. \A j \in 0 .. K : j \in E
  <2> HIDE DEF E
  <2> QED BY <1>1, <1>3, <1>4, Induction
<1>6. \A k \in 0 .. K : K - k \in 0 .. K /\ K - (K - k) = k BY <1>1
<1>7. \A k \in 0 .. K : P(k)
  <2> SUFFICES ASSUME NEW k \in 0 .. K PROVE P(k)
    OBVIOUS
  <2>1. P(K - (K - k)) BY <1>5, <1>6
  <2> HIDE DEF P
  <2> QED BY <1>6, <2>1
<1> QED BY <1>7 DEF K, b

\* A stretch of the file that is a line and its LF is read as that line.
LEMMA ReadLine ==
  ASSUME NEW bytes \in Seq(Bytes), NEW p \in Nat, NEW l \in Seq(LineBytes),
         p + Len(l) + 1 <= Len(bytes),
         \A j \in 1 .. Len(l) : bytes[p + j] = l[j],
         bytes[p + Len(l) + 1] = "LF",
         Reading(bytes)[p].line = <<>>, ~Reading(bytes)[p].skip
  PROVE  LET r == Reading(bytes)[p + Len(l) + 1] IN
         r.lines = Append(Reading(bytes)[p].lines, l) /\ r.line = <<>> /\ ~r.skip
<1> DEFINE R == Reading(bytes)
           N == Len(bytes)
           J == Len(l)
           ls == R[p].lines
           B(j) == R[p + j].lines = ls /\ R[p + j].line = SubSeq(l, 1, j) /\ ~R[p + j].skip
           E == {j \in 0 .. J : B(j)}
<1>1. J \in Nat /\ N \in Nat OBVIOUS
<1>2. /\ R \in [0 .. N -> Acc]
      /\ \A n \in 1 .. N : R[n] = LoadByte(bytes, R[n - 1], n)
  BY ReadingSteps
<1>3. 0 \in E
  <2>1. p + 0 = p /\ SubSeq(l, 1, 0) = <<>> OBVIOUS
  <2>2. R[p].line = <<>> /\ ~R[p].skip OBVIOUS
  <2> HIDE DEF R
  <2>3. B(0) BY <2>1, <2>2
  <2> QED BY <1>1, <2>3
<1> HIDE DEF R
<1>4. ASSUME NEW j \in 0 .. J - 1, j \in E PROVE j + 1 \in E
  <2> DEFINE m == p + (j + 1)
  <2>1. /\ m \in 1 .. N /\ m - 1 = p + j /\ p + j \in 0 .. N /\ j + 1 \in 1 .. J
        /\ j + 1 \in 0 .. J /\ j \in Nat
    BY <1>1
  <2>2. bytes[m] = l[j + 1] /\ l[j + 1] \in LineBytes BY <2>1
  <2>3. R[p + j] \in Acc /\ R[m] = LoadByte(bytes, R[p + j], m) BY <1>2, <2>1
  <2>4. ~R[p + j].skip /\ bytes[m] \notin Breaks BY <1>4, <2>2 DEF LineBytes
  <2>5. /\ R[m].lines = R[p + j].lines /\ R[m].line = Append(R[p + j].line, bytes[m])
        /\ ~R[m].skip
    <3> DEFINE acc == R[p + j]
    <3>1. acc \in Acc /\ ~acc.skip /\ R[m] = LoadByte(bytes, acc, m) /\ bytes[m] \notin Breaks
      BY <2>3, <2>4
    <3> HIDE DEF acc, m
    <3>2. m \in 1 .. Len(bytes) BY <2>1
    <3>3. LET r == LoadByte(bytes, acc, m)
          IN  r.lines = acc.lines /\ r.line = Append(acc.line, bytes[m]) /\ ~r.skip
      BY <3>1, <3>2, LoadByteCases
    <3> QED BY <3>1, <3>3 DEF acc
  <2>6. Append(SubSeq(l, 1, j), l[j + 1]) = SubSeq(l, 1, j + 1) BY <2>1
  <2>7. B(j + 1) BY <1>4, <2>2, <2>5, <2>6
  <2> QED BY <2>1, <2>7
<1>5. B(J)
  <2> HIDE DEF E
  <2>1. \A j \in 0 .. J : j \in E BY <1>1, <1>3, <1>4, Induction
  <2>2. J \in E BY <1>1, <2>1
  <2> QED BY <2>2 DEF E
<1>6. SubSeq(l, 1, J) = l BY SubSeqFull
<1> DEFINE m == p + J + 1
<1>7. m \in 1 .. N /\ m - 1 = p + J /\ p + J \in 0 .. N BY <1>1
<1>8. R[p + J] \in Acc /\ R[m] = LoadByte(bytes, R[p + J], m) BY <1>2, <1>7
<1>9. bytes[m] = "LF" /\ bytes[m] \in Breaks /\ ~PairAt(bytes, m)
  BY DEF Breaks, PairAt
<1>10. /\ R[m].lines = Append(R[p + J].lines, R[p + J].line) /\ R[m].line = <<>>
       /\ ~R[m].skip
  <2> DEFINE acc == R[p + J]
  <2>1. acc \in Acc /\ ~acc.skip /\ R[m] = LoadByte(bytes, acc, m) BY <1>5, <1>8
  <2> HIDE DEF acc, m
  <2>2. m \in 1 .. Len(bytes) BY <1>7
  <2>3. LET r == LoadByte(bytes, acc, m)
        IN  r.lines = Append(acc.lines, acc.line) /\ r.line = <<>> /\ (r.skip <=> PairAt(bytes, m))
    BY <1>9, <2>1, <2>2, LoadByteCases
  <2> QED BY <1>9, <2>1, <2>3 DEF acc
<1> QED BY <1>5, <1>6, <1>10 DEF R

\* What is saved reads back.
THEOREM RoundTrip ==
  ASSUME NEW lines \in Seq(Seq(LineBytes)), lines # <<>>
  PROVE  LoadText(SaveText(lines)) = lines /\ SaveText(lines) \in Seq(Bytes)
<1> DEFINE s == [i \in DOMAIN lines |-> Append(lines[i], "LF")]
           K == Len(lines)
           bytes == FlattenSeq(s)
<1>1. "LF" \in Bytes /\ LineBytes \subseteq Bytes BY TextsAssumption DEF Breaks, LineBytes
<1>2. K \in Nat \ {0} /\ DOMAIN lines = 1 .. K BY EmptySeq
<1>3. \A i \in 1 .. K : lines[i] \in Seq(LineBytes) /\ s[i] = Append(lines[i], "LF")
                         /\ s[i] \in Seq(Bytes)
  <2> SUFFICES ASSUME NEW i \in 1 .. K
               PROVE  lines[i] \in Seq(LineBytes) /\ s[i] = Append(lines[i], "LF")
                         /\ s[i] \in Seq(Bytes)
    OBVIOUS
  <2>1. lines[i] \in Seq(LineBytes) OBVIOUS
  <2>2. lines[i] \in Seq(Bytes) BY <1>1, <2>1, SeqMonotonic
  <2>3. Append(lines[i], "LF") \in Seq(Bytes) BY <1>1, <2>2
  <2> QED BY <1>2, <2>1, <2>3
<1>4. s \in Seq(Seq(Bytes)) /\ Len(s) = K BY <1>2, <1>3
<1>5. SaveText(lines) = bytes BY DEF SaveText
<1> HIDE DEF s
<1>6. PICK f : Flattens(f, Bytes, s) BY <1>4, Flattening
<1>7. /\ f \in [0 .. K -> Seq(Bytes)] /\ f[0] = <<>> /\ f[K] = bytes
      /\ \A n \in 1 .. K : f[n] = f[n - 1] \o s[n]
  BY <1>4, <1>6 DEF Flattens
<1>8. \A k \in 0 .. K : Len(f[k]) <= Len(bytes) /\ \A i \in 1 .. Len(f[k]) : bytes[i] = f[k][i]
  <2> HIDE DEF bytes, K
  <2>1. \A k \in 0 .. Len(s) :
           /\ Len(f[k]) <= Len(FlattenSeq(s))
           /\ \A i \in 1 .. Len(f[k]) : FlattenSeq(s)[i] = f[k][i]
    BY <1>4, <1>6, FlattenPrefix
  <2> QED BY <1>4, <2>1 DEF bytes
<1> HIDE DEF bytes, K
<1>9. bytes \in Seq(Bytes) BY <1>2, <1>7
<1> DEFINE R == Reading(bytes)
           A(k) == R[Len(f[k])].lines = SubSeq(lines, 1, k) /\ R[Len(f[k])].line = <<>>
                     /\ ~R[Len(f[k])].skip
           E == {k \in 0 .. K : A(k)}
<1>10. 0 \in E
  <2>1. Len(f[0]) = 0 /\ SubSeq(lines, 1, 0) = <<>> BY <1>7
  <2>2. R[0] = [lines |-> <<>>, line |-> <<>>, skip |-> FALSE]
    BY <1>9, ReadingSteps DEF NothingRead
  <2> HIDE DEF R
  <2>3. R[Len(f[0])] = [lines |-> <<>>, line |-> <<>>, skip |-> FALSE] BY <2>1, <2>2
  <2>4. A(0) BY <2>1, <2>3
  <2> QED BY <1>2, <2>4
<1>11. ASSUME NEW k \in 0 .. K - 1, k \in E PROVE k + 1 \in E
  <2> DEFINE l == lines[k + 1]
             p == Len(f[k])
             q == Len(f[k + 1])
  <2>1. k + 1 \in 1 .. K /\ (k + 1) - 1 = k /\ k \in 0 .. K /\ k + 1 \in 0 .. K /\ k \in Nat
    BY <1>2
  <2>2. f[k + 1] = f[k] \o Append(l, "LF") /\ l \in Seq(LineBytes) BY <1>3, <1>7, <2>1
  <2>3. f[k] \in Seq(Bytes) /\ f[k + 1] \in Seq(Bytes) BY <1>7, <2>1
  <2>4. /\ p \in Nat /\ q = p + Len(l) + 1 /\ Len(l) \in Nat
        /\ \A j \in 1 .. Len(l) : f[k + 1][p + j] = l[j]
        /\ f[k + 1][p + Len(l) + 1] = "LF"
    <3> DEFINE x == Append(l, "LF")
               F == f[k]
    <3>1. x \in Seq(Bytes) /\ F \in Seq(Bytes) BY <1>3, <2>1, <2>3
    <3>2. /\ Len(x) = Len(l) + 1 /\ x[Len(l) + 1] = "LF" /\ Len(l) \in Nat
          /\ \A j \in 1 .. Len(l) : x[j] = l[j]
      BY <2>2
    <3> HIDE DEF x, F, l
    <3>3. /\ Len(F \o x) = Len(F) + Len(x) /\ Len(F) \in Nat
          /\ \A i \in 1 .. Len(F) + Len(x) :
               (F \o x)[i] = IF i <= Len(F) THEN F[i] ELSE x[i - Len(F)]
      BY <3>1, ConcatProperties, LenProperties
    <3>4. ASSUME NEW j \in 1 .. Len(l) + 1 PROVE (F \o x)[Len(F) + j] = x[j]
      <4>1. Len(F) + j \in 1 .. Len(F) + Len(x) /\ ~(Len(F) + j <= Len(F))
            /\ (Len(F) + j) - Len(F) = j
        BY <3>2, <3>3
      <4> QED BY <3>3, <4>1
    <3>5. f[k + 1] = F \o x BY <2>2 DEF F, x
    <3>6. Len(l) + 1 \in 1 .. Len(l) + 1 /\ \A j \in 1 .. Len(l) : j \in 1 .. Len(l) + 1
          /\ Len(F) + (Len(l) + 1) = Len(F) + Len(l) + 1
      BY <3>2, <3>3
    <3>7. Len(f[k]) = Len(F) BY DEF F
    <3>8. Len(F) + Len(l) + 1 = Len(F) + (Len(l) + 1) /\ Len(f[k + 1]) = Len(F) + (Len(l) + 1)
      BY <3>2, <3>3, <3>5
    <3>9. \A j \in 1 .. Len(l) : f[k + 1][Len(F) + j] = l[j] BY <3>2, <3>4, <3>5, <3>6
    <3>10. f[k + 1][Len(F) + Len(l) + 1] = "LF" BY <3>2, <3>4, <3>5, <3>6, <3>8
    <3> HIDE DEF F
    <3> QED BY <3>2, <3>3, <3>7, <3>8, <3>9, <3>10
  <2>5. q <= Len(bytes) /\ \A i \in 1 .. q : bytes[i] = f[k + 1][i] BY <1>8, <2>1
  <2> HIDE DEF p, q, l
  <2>6. \A j \in 1 .. Len(l) : bytes[p + j] = l[j]
    <3> SUFFICES ASSUME NEW j \in 1 .. Len(l) PROVE bytes[p + j] = l[j]
      OBVIOUS
    <3>1. p + j \in 1 .. q BY <2>4
    <3> QED BY <2>4, <2>5, <3>1
  <2>7. bytes[p + Len(l) + 1] = "LF"
    <3>1. p + Len(l) + 1 \in 1 .. q BY <2>4
    <3> QED BY <2>4, <2>5, <3>1
  <2>8. A(k) BY <1>11
  <2>9. R[p].lines = SubSeq(lines, 1, k) /\ R[p].line = <<>> /\ ~R[p].skip BY <2>8 DEF p
  <2>10. R[q].lines = Append(R[p].lines, l) /\ R[q].line = <<>> /\ ~R[q].skip
    BY <1>9, <2>2, <2>4, <2>5, <2>6, <2>7, <2>9, ReadLine
  <2>11. Append(SubSeq(lines, 1, k), l) = SubSeq(lines, 1, k + 1)
    BY <1>2, <2>1 DEF l, K
  <2>12. A(k + 1) BY <2>9, <2>10, <2>11 DEF q
  <2> QED BY <2>1, <2>12
<1>12. A(K)
  <2> HIDE DEF E
  <2>1. \A k \in 0 .. K : k \in E BY <1>2, <1>10, <1>11, Induction
  <2>2. K \in E BY <1>2, <2>1
  <2> QED BY <2>2 DEF E
<1>13. SubSeq(lines, 1, K) = lines BY SubSeqFull DEF K
<1>14. R[Len(bytes)].lines = lines /\ R[Len(bytes)].line = <<>> BY <1>7, <1>12, <1>13
<1>15. LoadText(bytes) = lines BY <1>14 DEF LoadText
<1> QED BY <1>5, <1>9, <1>15

LEMMA SaveTextEmpty == SaveText(<<>>) = <<>>
<1>1. [i \in DOMAIN <<>> |-> Append(<<>>[i], "LF")] = <<>> OBVIOUS
<1> QED BY <1>1, FlattenEmpty DEF SaveText

-----------------------------------------------------------------------------
(* The step of the invariant, conjunct by conjunct.                         *)

LEMMA FlagsStep == Flags /\ [Next]_vars => Flags'
<1> SUFFICES ASSUME Flags, [Next]_vars PROVE Flags'
  OBVIOUS
<1> USE DEF Flags, choice, screen, text, line, vars
<1>1. CASE PanelsCovered
  BY <1>1, Zenon DEF PanelsCovered
<1>2. CASE \E p \in Panels :
             \E f \in FilesOf(p), open \in BOOLEAN : PanelsDrawn(p, f, open)
  BY <1>2, Zenon DEF PanelsDrawn
<1>3. CASE NoEditor
  BY <1>3, Zenon DEF NoEditor
<1>4. CASE ShowEditor
  BY <1>4, Zenon DEF ShowEditor, Shown
<1>5. CASE Close
  BY <1>5, Zenon DEF Close, Closed
<1>6. CASE \E kept \in Kept : Save(kept)
  BY <1>6, Zenon DEF Save, Closed
<1>7. CASE \E j \in DOMAIN edit_buffer : PickLine(j)
  BY <1>7, Zenon DEF PickLine, Editing, Shown, Pick
<1>8. CASE \E j \in DOMAIN edit_buffer : PressKey(j)
  BY <1>8, Zenon DEF PressKey, Editing, Shown, NoPick, InsertLine, EraseLine, CopyLine, PasteLine
<1>9. CASE \E j \in DOMAIN edit_buffer : Chord(j)
  BY <1>9, Zenon DEF Chord, Editing, Shown, Pick, EraseLine, PasteLine
<1>10. CASE Idle
  BY <1>10, Zenon DEF Idle, NextFrame
<1>11. CASE \E p \in Panels : OpenRefused(p)
  BY <1>11, Zenon DEF OpenRefused, Opening, NextFrame
<1>12. CASE \E p \in Panels :
             \E bytes \in Part(files[selected[p]]) \cup {files[selected[p]]} : Open(p, bytes)
  BY <1>12, Zenon DEF Open, Opening, NextFrame
<1>13. CASE OpenUnread
  BY <1>13, Zenon DEF OpenUnread, Opening, NextFrame
<1>14. CASE \E l \in Typed : Entered(l)
  BY <1>14, Zenon DEF Entered, KeyboardDone
<1>15. CASE NotEntered
  BY <1>15, Zenon DEF NotEntered, KeyboardDone
<1>16. CASE UNCHANGED vars
  BY <1>16, Zenon DEF vars
<1> QED
  BY <1>1, <1>2, <1>3, <1>4, <1>5, <1>6, <1>7, <1>8, <1>9, <1>10,
     <1>11, <1>12, <1>13, <1>14, <1>15, <1>16,
     Zenon DEF Next, Frame, Keyboard

LEMMA ModesStep == Modes /\ [Next]_vars => Modes'
<1> SUFFICES ASSUME Modes, [Next]_vars PROVE Modes'
  OBVIOUS
<1> USE DEF Modes, choice, screen, text, line, vars
<1>1. CASE PanelsCovered
  BY <1>1 DEF PanelsCovered
<1>2. CASE \E p \in Panels :
             \E f \in FilesOf(p), open \in BOOLEAN : PanelsDrawn(p, f, open)
  BY <1>2 DEF PanelsDrawn
<1>3. CASE NoEditor
  BY <1>3 DEF NoEditor
<1>4. CASE ShowEditor
  BY <1>4 DEF ShowEditor, Shown
<1>5. CASE Close
  BY <1>5 DEF Close, Closed
<1>6. CASE \E kept \in Kept : Save(kept)
  BY <1>6 DEF Save, Closed
<1>7. CASE \E j \in DOMAIN edit_buffer : PickLine(j)
  BY <1>7 DEF PickLine, Editing, Shown, Pick
<1>8. CASE \E j \in DOMAIN edit_buffer : PressKey(j)
  BY <1>8 DEF PressKey, Editing, Shown, NoPick, InsertLine, EraseLine, CopyLine, PasteLine
<1>9. CASE \E j \in DOMAIN edit_buffer : Chord(j)
  BY <1>9 DEF Chord, Editing, Shown, Pick, EraseLine, PasteLine
<1>10. CASE Idle
  BY <1>10 DEF Idle, NextFrame
<1>11. CASE \E p \in Panels : OpenRefused(p)
  BY <1>11 DEF OpenRefused, Opening, NextFrame
<1>12. CASE \E p \in Panels :
             \E bytes \in Part(files[selected[p]]) \cup {files[selected[p]]} : Open(p, bytes)
  BY <1>12 DEF Open, Opening, NextFrame
<1>13. CASE OpenUnread
  BY <1>13 DEF OpenUnread, Opening, NextFrame
<1>14. CASE \E l \in Typed : Entered(l)
  BY <1>14 DEF Entered, KeyboardDone
<1>15. CASE NotEntered
  BY <1>15 DEF NotEntered, KeyboardDone
<1>16. CASE UNCHANGED vars
  BY <1>16 DEF vars
<1> QED
  BY <1>1, <1>2, <1>3, <1>4, <1>5, <1>6, <1>7, <1>8, <1>9, <1>10,
     <1>11, <1>12, <1>13, <1>14, <1>15, <1>16,
     Zenon DEF Next, Frame, Keyboard

LEMMA SelectionsStep == Selections /\ [Next]_vars => Selections'
<1> SUFFICES ASSUME Selections, [Next]_vars PROVE Selections'
  OBVIOUS
<1> USE DEF Selections, Panels, choice, screen, text, line, vars
<1>1. CASE PanelsCovered
  BY <1>1 DEF PanelsCovered
<1>2. CASE \E p \in Panels :
             \E f \in FilesOf(p), open \in BOOLEAN : PanelsDrawn(p, f, open)
  BY <1>2 DEF PanelsDrawn
<1>3. CASE NoEditor
  BY <1>3 DEF NoEditor
<1>4. CASE ShowEditor
  BY <1>4 DEF ShowEditor, Shown
<1>5. CASE Close
  BY <1>5 DEF Close, Closed
<1>6. CASE \E kept \in Kept : Save(kept)
  BY <1>6 DEF Save, Closed
<1>7. CASE \E j \in DOMAIN edit_buffer : PickLine(j)
  BY <1>7 DEF PickLine, Editing, Shown, Pick
<1>8. CASE \E j \in DOMAIN edit_buffer : PressKey(j)
  BY <1>8 DEF PressKey, Editing, Shown, NoPick, InsertLine, EraseLine, CopyLine, PasteLine
<1>9. CASE \E j \in DOMAIN edit_buffer : Chord(j)
  BY <1>9 DEF Chord, Editing, Shown, Pick, EraseLine, PasteLine
<1>10. CASE Idle
  BY <1>10 DEF Idle, NextFrame
<1>11. CASE \E p \in Panels : OpenRefused(p)
  BY <1>11 DEF OpenRefused, Opening, NextFrame
<1>12. CASE \E p \in Panels :
             \E bytes \in Part(files[selected[p]]) \cup {files[selected[p]]} : Open(p, bytes)
  BY <1>12 DEF Open, Opening, NextFrame
<1>13. CASE OpenUnread
  BY <1>13 DEF OpenUnread, Opening, NextFrame
<1>14. CASE \E l \in Typed : Entered(l)
  BY <1>14 DEF Entered, KeyboardDone
<1>15. CASE NotEntered
  BY <1>15 DEF NotEntered, KeyboardDone
<1>16. CASE UNCHANGED vars
  BY <1>16 DEF vars
<1> QED
  BY <1>1, <1>2, <1>3, <1>4, <1>5, <1>6, <1>7, <1>8, <1>9, <1>10,
     <1>11, <1>12, <1>13, <1>14, <1>15, <1>16,
     Zenon DEF Next, Frame, Keyboard

LEMMA UpStep == Inv /\ [Next]_vars => Up'
<1> SUFFICES ASSUME Inv, [Next]_vars PROVE Up'
  OBVIOUS
<1> USE DEF Inv, TypeOK, Flags, Up, Chosen, choice, screen, text, line, vars
<1>1. CASE PanelsCovered
  BY <1>1 DEF PanelsCovered
<1>2. CASE \E p \in Panels :
             \E f \in FilesOf(p), open \in BOOLEAN : PanelsDrawn(p, f, open)
  BY <1>2 DEF PanelsDrawn
<1>3. CASE NoEditor
  BY <1>3 DEF NoEditor
<1>4. CASE ShowEditor
  BY <1>4 DEF ShowEditor, Shown
<1>5. CASE Close
  BY <1>5 DEF Close, Closed
<1>6. CASE \E kept \in Kept : Save(kept)
  BY <1>6 DEF Save, Closed
<1>7. CASE \E j \in DOMAIN edit_buffer : PickLine(j)
  BY <1>7 DEF PickLine, Editing, Shown, Pick
<1>8. CASE \E j \in DOMAIN edit_buffer : PressKey(j)
  BY <1>8 DEF PressKey, Editing, Shown, NoPick, InsertLine, EraseLine, CopyLine, PasteLine
<1>9. CASE \E j \in DOMAIN edit_buffer : Chord(j)
  BY <1>9 DEF Chord, Editing, Shown, Pick, EraseLine, PasteLine
<1>10. CASE Idle
  BY <1>10 DEF Idle, NextFrame
<1>11. CASE \E p \in Panels : OpenRefused(p)
  BY <1>11 DEF OpenRefused, Opening, NextFrame
<1>12. CASE \E p \in Panels :
             \E bytes \in Part(files[selected[p]]) \cup {files[selected[p]]} : Open(p, bytes)
  BY <1>12 DEF Open, Opening, NextFrame
<1>13. CASE OpenUnread
  BY <1>13 DEF OpenUnread, Opening, NextFrame
<1>14. CASE \E l \in Typed : Entered(l)
  BY <1>14 DEF Entered, KeyboardDone
<1>15. CASE NotEntered
  BY <1>15 DEF NotEntered, KeyboardDone
<1>16. CASE UNCHANGED vars
  BY <1>16 DEF vars
<1> QED
  BY <1>1, <1>2, <1>3, <1>4, <1>5, <1>6, <1>7, <1>8, <1>9, <1>10,
     <1>11, <1>12, <1>13, <1>14, <1>15, <1>16,
     Zenon DEF Next, Frame, Keyboard

LEMMA ChosenStep == Inv /\ [Next]_vars => Chosen'
<1> SUFFICES ASSUME Inv, [Next]_vars PROVE Chosen'
  OBVIOUS
<1> USE DEF Inv, Up, Chosen, choice, screen, text, line, vars
<1>1. CASE PanelsCovered
  BY <1>1 DEF PanelsCovered
<1>2. CASE \E p \in Panels :
             \E f \in FilesOf(p), open \in BOOLEAN : PanelsDrawn(p, f, open)
  BY <1>2 DEF PanelsDrawn
<1>3. CASE NoEditor
  BY <1>3 DEF NoEditor
<1>4. CASE ShowEditor
  BY <1>4 DEF ShowEditor, Shown
<1>5. CASE Close
  BY <1>5 DEF Close, Closed
<1>6. CASE \E kept \in Kept : Save(kept)
  BY <1>6 DEF Save, Closed
<1>7. CASE \E j \in DOMAIN edit_buffer : PickLine(j)
  BY <1>7 DEF PickLine, Editing, Shown, Pick
<1>8. CASE \E j \in DOMAIN edit_buffer : PressKey(j)
  BY <1>8 DEF PressKey, Editing, Shown, NoPick, InsertLine, EraseLine, CopyLine, PasteLine
<1>9. CASE \E j \in DOMAIN edit_buffer : Chord(j)
  BY <1>9 DEF Chord, Editing, Shown, Pick, EraseLine, PasteLine
<1>10. CASE Idle
  BY <1>10 DEF Idle, NextFrame
<1>11. CASE \E p \in Panels : OpenRefused(p)
  BY <1>11 DEF OpenRefused, Opening, NextFrame
<1>12. CASE \E p \in Panels :
             \E bytes \in Part(files[selected[p]]) \cup {files[selected[p]]} : Open(p, bytes)
  BY <1>12 DEF Open, Opening, NextFrame
<1>13. CASE OpenUnread
  BY <1>13 DEF OpenUnread, Opening, NextFrame
<1>14. CASE \E l \in Typed : Entered(l)
  BY <1>14 DEF Entered, KeyboardDone
<1>15. CASE NotEntered
  BY <1>15 DEF NotEntered, KeyboardDone
<1>16. CASE UNCHANGED vars
  BY <1>16 DEF vars
<1> QED
  BY <1>1, <1>2, <1>3, <1>4, <1>5, <1>6, <1>7, <1>8, <1>9, <1>10,
     <1>11, <1>12, <1>13, <1>14, <1>15, <1>16,
     Zenon DEF Next, Frame, Keyboard

LEMMA OpenedHereStep == Inv /\ [Next]_vars => OpenedHere'
<1> SUFFICES ASSUME Inv, [Next]_vars PROVE OpenedHere'
  OBVIOUS
<1> USE DEF Inv, TypeOK, Modes, Up, Chosen, OpenedHere, Action, Panels, choice, screen,
          text, line, vars
<1>1. CASE PanelsCovered
  BY <1>1 DEF PanelsCovered
<1>2. CASE \E p \in Panels :
             \E f \in FilesOf(p), open \in BOOLEAN : PanelsDrawn(p, f, open)
  BY <1>2 DEF PanelsDrawn
<1>3. CASE NoEditor
  BY <1>3 DEF NoEditor
<1>4. CASE ShowEditor
  BY <1>4 DEF ShowEditor, Shown
<1>5. CASE Close
  BY <1>5 DEF Close, Closed
<1>6. CASE \E kept \in Kept : Save(kept)
  BY <1>6 DEF Save, Closed
<1>7. CASE \E j \in DOMAIN edit_buffer : PickLine(j)
  BY <1>7 DEF PickLine, Editing, Shown, Pick
<1>8. CASE \E j \in DOMAIN edit_buffer : PressKey(j)
  BY <1>8 DEF PressKey, Editing, Shown, NoPick, InsertLine, EraseLine, CopyLine, PasteLine
<1>9. CASE \E j \in DOMAIN edit_buffer : Chord(j)
  BY <1>9 DEF Chord, Editing, Shown, Pick, EraseLine, PasteLine
<1>10. CASE Idle
  BY <1>10 DEF Idle, NextFrame
<1>11. CASE \E p \in Panels : OpenRefused(p)
  BY <1>11 DEF OpenRefused, Opening, NextFrame
<1>12. CASE \E p \in Panels :
             \E bytes \in Part(files[selected[p]]) \cup {files[selected[p]]} : Open(p, bytes)
  BY <1>12 DEF Open, Opening, NextFrame
<1>13. CASE OpenUnread
  BY <1>13 DEF OpenUnread, Opening, NextFrame
<1>14. CASE \E l \in Typed : Entered(l)
  BY <1>14 DEF Entered, KeyboardDone
<1>15. CASE NotEntered
  BY <1>15 DEF NotEntered, KeyboardDone
<1>16. CASE UNCHANGED vars
  BY <1>16 DEF vars
<1> QED
  BY <1>1, <1>2, <1>3, <1>4, <1>5, <1>6, <1>7, <1>8, <1>9, <1>10,
     <1>11, <1>12, <1>13, <1>14, <1>15, <1>16,
     Zenon DEF Next, Frame, Keyboard

LEMMA ConsistentStep == Inv /\ Consistent /\ [Next]_vars => Consistent'
<1> SUFFICES ASSUME Inv, Consistent, [Next]_vars PROVE Consistent'
  OBVIOUS
<1> USE DEF Inv, TypeOK, Modes, Selections, Up, Chosen, OpenedHere, Consistent, Action,
          Target, Panels, choice, screen, text, line, vars
<1>1. CASE PanelsCovered
  BY <1>1 DEF PanelsCovered
<1>2. CASE \E p \in Panels :
             \E f \in FilesOf(p), open \in BOOLEAN : PanelsDrawn(p, f, open)
  <2> SUFFICES ASSUME NEW p \in Panels, NEW f \in FilesOf(p), NEW open \in BOOLEAN,
                      PanelsDrawn(p, f, open), editor_inprogress', ~moved',
                      ("unread" \notin odd)'
               PROVE /\ popup' => (Target = loaded.file)'
                     /\ (selected[focus] = loaded.file)' /\ (selected_browser = {focus})'
    BY <1>2, Zenon
  <2>1. /\ editor_inprogress /\ ~moved /\ "unread" \notin odd /\ p = focus /\ f = selected[p]
        /\ at = "panels" /\ ~popup /\ ~popup'
    BY Zenon DEF PanelsDrawn
  <2>2. selected[focus] = loaded.file
    BY <2>1
  <2>3. selected' = [selected EXCEPT ![p] = f] /\ focus' = p /\ loaded' = loaded
    BY DEF PanelsDrawn
  <2>4. (selected[focus] = loaded.file)'
    BY <2>1, <2>2, <2>3
  <2>5. selected_browser' = {focus'}
    BY <2>1, <2>3 DEF PanelsDrawn
  <2> QED
    BY <2>1, <2>4, <2>5, Zenon
<1>3. CASE NoEditor
  BY <1>3 DEF NoEditor
<1>4. CASE ShowEditor
  BY <1>4 DEF ShowEditor, Shown
<1>5. CASE Close
  BY <1>5 DEF Close, Closed
<1>6. CASE \E kept \in Kept : Save(kept)
  BY <1>6 DEF Save, Closed
<1>7. CASE \E j \in DOMAIN edit_buffer : PickLine(j)
  BY <1>7 DEF PickLine, Editing, Shown, Pick
<1>8. CASE \E j \in DOMAIN edit_buffer : PressKey(j)
  BY <1>8 DEF PressKey, Editing, Shown, NoPick, InsertLine, EraseLine, CopyLine, PasteLine
<1>9. CASE \E j \in DOMAIN edit_buffer : Chord(j)
  BY <1>9 DEF Chord, Editing, Shown, Pick, EraseLine, PasteLine
<1>10. CASE Idle
  BY <1>10 DEF Idle, NextFrame
<1>11. CASE \E p \in Panels : OpenRefused(p)
  BY <1>11 DEF OpenRefused, Opening, NextFrame
<1>12. CASE \E p \in Panels :
             \E bytes \in Part(files[selected[p]]) \cup {files[selected[p]]} : Open(p, bytes)
  BY <1>12 DEF Open, Opening, NextFrame
<1>13. CASE OpenUnread
  BY <1>13 DEF OpenUnread, Opening, NextFrame
<1>14. CASE \E l \in Typed : Entered(l)
  BY <1>14 DEF Entered, KeyboardDone
<1>15. CASE NotEntered
  BY <1>15 DEF NotEntered, KeyboardDone
<1>16. CASE UNCHANGED vars
  BY <1>16 DEF vars
<1> QED
  BY <1>1, <1>2, <1>3, <1>4, <1>5, <1>6, <1>7, <1>8, <1>9, <1>10,
     <1>11, <1>12, <1>13, <1>14, <1>15, <1>16,
     Zenon DEF Next, Frame, Keyboard

LEMMA OfferedLineStep == Inv /\ OfferedLine /\ [Next]_vars => OfferedLine'
<1> SUFFICES ASSUME Inv, OfferedLine, [Next]_vars PROVE OfferedLine'
  OBVIOUS
<1> USE DEF Inv, TypeOK, Modes, Up, Chosen, OfferedLine, Action, Panels, choice, screen,
          text, line, vars
<1>1. CASE PanelsCovered
  BY <1>1 DEF PanelsCovered
<1>2. CASE \E p \in Panels :
             \E f \in FilesOf(p), open \in BOOLEAN : PanelsDrawn(p, f, open)
  BY <1>2 DEF PanelsDrawn
<1>3. CASE NoEditor
  BY <1>3 DEF NoEditor
<1>4. CASE ShowEditor
  BY <1>4 DEF ShowEditor, Shown
<1>5. CASE Close
  BY <1>5 DEF Close, Closed
<1>6. CASE \E kept \in Kept : Save(kept)
  BY <1>6 DEF Save, Closed
<1>7. CASE \E j \in DOMAIN edit_buffer : PickLine(j)
  BY <1>7 DEF PickLine, Editing, Shown, Pick
<1>8. CASE \E j \in DOMAIN edit_buffer : PressKey(j)
  BY <1>8 DEF PressKey, Editing, Shown, NoPick, InsertLine, EraseLine, CopyLine, PasteLine
<1>9. CASE \E j \in DOMAIN edit_buffer : Chord(j)
  BY <1>9 DEF Chord, Editing, Shown, Pick, EraseLine, PasteLine
<1>10. CASE Idle
  BY <1>10 DEF Idle, NextFrame
<1>11. CASE \E p \in Panels : OpenRefused(p)
  BY <1>11 DEF OpenRefused, Opening, NextFrame
<1>12. CASE \E p \in Panels :
             \E bytes \in Part(files[selected[p]]) \cup {files[selected[p]]} : Open(p, bytes)
  BY <1>12 DEF Open, Opening, NextFrame
<1>13. CASE OpenUnread
  BY <1>13 DEF OpenUnread, Opening, NextFrame
<1>14. CASE \E l \in Typed : Entered(l)
  BY <1>14 DEF Entered, KeyboardDone
<1>15. CASE NotEntered
  BY <1>15 DEF NotEntered, KeyboardDone
<1>16. CASE UNCHANGED vars
  BY <1>16 DEF vars
<1> QED
  BY <1>1, <1>2, <1>3, <1>4, <1>5, <1>6, <1>7, <1>8, <1>9, <1>10,
     <1>11, <1>12, <1>13, <1>14, <1>15, <1>16,
     Zenon DEF Next, Frame, Keyboard

\* What is left of a text, or of a buffer, is one.
LEMMA PartOfSeq ==
  ASSUME NEW S, NEW s \in Seq(S), NEW m \in Int, NEW n \in Int, m >= 1, n <= Len(s)
  PROVE  SubSeq(s, m, n) \in Seq(S)
OBVIOUS

LEMMA PartContents ==
  ASSUME NEW S, NEW s \in Seq(S), NEW t \in Part(s)
  PROVE  t \in Seq(S)
<1>1. PICK n \in {0, Len(s) \div 2} : t = SubSeq(s, 1, n) BY DEF Part
<1>2. n \in Int /\ n <= Len(s)
  <2>1. Len(s) \in Nat OBVIOUS
  <2> HIDE DEF Part
  <2> QED BY <1>1, <2>1
<1> QED BY <1>1, <1>2, PartOfSeq

LEMMA KeptContents ==
  ASSUME Selections, Lined, NEW kept \in Kept
  PROVE  kept \in Seq(Bytes)
<1>1. SaveText(edit_buffer) \in Seq(Bytes)
  <2>1. CASE edit_buffer = <<>>
    <3>1. SaveText(edit_buffer) = <<>> BY <2>1, SaveTextEmpty, Zenon
    <3> QED BY <3>1
  <2>2. CASE edit_buffer # <<>> BY <2>2, RoundTrip DEF Lined
  <2> QED BY <2>1, <2>2
<1>2. files[Target] \in Seq(Bytes)
  <2>1. Target \in Files BY DEF Selections, Target, Panels, FilesOf, Files
  <2> QED BY <2>1 DEF Lined
<1> HIDE DEF Lined
<1>3. CASE kept = SaveText(edit_buffer) BY <1>1, <1>3
<1>4. CASE kept = files[Target] BY <1>2, <1>4
<1>5. CASE kept \in Part(SaveText(edit_buffer)) BY <1>1, <1>5, PartContents
<1> QED BY <1>3, <1>4, <1>5, Zenon DEF Kept

\* The keys on a line leave the buffer a buffer.
LEMMA KeyContents ==
  ASSUME Lined, NEW j \in DOMAIN edit_buffer,
         InsertLine(j) \/ EraseLine(j) \/ CopyLine(j) \/ PasteLine(j)
  PROVE  edit_buffer' \in Seq(Seq(LineBytes)) /\ copy_text' \in Seq(LineBytes)
<1>1. /\ edit_buffer \in Seq(Seq(LineBytes)) /\ copy_text \in Seq(LineBytes)
      /\ j \in 1 .. Len(edit_buffer) /\ edit_buffer[j] \in Seq(LineBytes)
      /\ <<>> \in Seq(LineBytes) /\ Len(edit_buffer) \in Nat /\ j \in Nat
  BY DEF Lined
<1>2. /\ SubSeq(edit_buffer, 1, j) \in Seq(Seq(LineBytes))
      /\ SubSeq(edit_buffer, 1, (j + 1) - 1) \in Seq(Seq(LineBytes))
      /\ SubSeq(edit_buffer, 1, j - 1) \in Seq(Seq(LineBytes))
      /\ SubSeq(edit_buffer, j + 1, Len(edit_buffer)) \in Seq(Seq(LineBytes))
  BY <1>1, PartOfSeq
<1>3. CASE InsertLine(j)
  <2>1. <<(<<>>)>> \in Seq(Seq(LineBytes)) BY <1>1
  <2>2. edit_buffer' = (SubSeq(edit_buffer, 1, (j + 1) - 1) \o <<(<<>>)>>)
                          \o SubSeq(edit_buffer, j + 1, Len(edit_buffer))
    BY <1>3 DEF InsertLine, InsertAt
  <2>3. copy_text' = copy_text BY <1>3 DEF InsertLine
  <2> QED BY <1>1, <1>2, <2>1, <2>2, <2>3, ConcatProperties
<1>4. CASE EraseLine(j)
  <2>1. edit_buffer' = SubSeq(edit_buffer, 1, j - 1) \o SubSeq(edit_buffer, j + 1, Len(edit_buffer))
    BY <1>4 DEF EraseLine, RemoveAt
  <2>2. copy_text' = copy_text BY <1>4 DEF EraseLine
  <2> QED BY <1>1, <1>2, <2>1, <2>2, ConcatProperties
<1>5. CASE CopyLine(j) BY <1>1, <1>5 DEF CopyLine
<1>6. CASE PasteLine(j) BY <1>1, <1>6, ExceptSeq DEF PasteLine
<1> QED BY <1>3, <1>4, <1>5, <1>6

LEMMA LinedStep == Inv /\ Lined /\ [Next]_vars => Lined'
<1> SUFFICES ASSUME Inv, Lined, [Next]_vars PROVE Lined'
  OBVIOUS
<1> USE DEF choice, screen, text, line, vars
<1>0. Selections /\ (UNCHANGED <<files, edit_buffer, copy_text, loaded>> => Lined')
  BY DEF Inv, TypeOK, Lined
<1>1. CASE PanelsCovered
  BY <1>0, <1>1, Zenon DEF PanelsCovered
<1>2. CASE \E p \in Panels :
             \E f \in FilesOf(p), open \in BOOLEAN : PanelsDrawn(p, f, open)
  BY <1>0, <1>2, Zenon DEF PanelsDrawn
<1>3. CASE NoEditor
  BY <1>0, <1>3, Zenon DEF NoEditor
<1>4. CASE ShowEditor
  BY <1>0, <1>4, Zenon DEF ShowEditor, Shown
<1>5. CASE Close
  BY <1>0, <1>5, Zenon DEF Close, Closed
<1>6. CASE \E kept \in Kept : Save(kept)
  <2>1. PICK kept \in Kept : Save(kept) BY <1>6
  <2>2. kept \in Seq(Bytes) BY <1>0, KeptContents
  <2>3. files' = [files EXCEPT ![Target] = kept] /\ UNCHANGED <<edit_buffer, copy_text, loaded>>
    BY <2>1, Zenon DEF Save
  <2> QED BY <2>2, <2>3 DEF Lined
<1>7. CASE \E j \in DOMAIN edit_buffer : PickLine(j)
  BY <1>0, <1>7, Zenon DEF PickLine, Editing, Shown
<1>8. CASE \E j \in DOMAIN edit_buffer : PressKey(j) \/ Chord(j)
  <2>1. PICK j \in DOMAIN edit_buffer : PressKey(j) \/ Chord(j) BY <1>8
  <2>2. edit_buffer' \in Seq(Seq(LineBytes)) /\ copy_text' \in Seq(LineBytes)
    BY <2>1, KeyContents, Zenon DEF PressKey, Chord
  <2>3. UNCHANGED <<files, loaded>> BY <2>1, Zenon DEF PressKey, Chord, Editing
  <2> QED BY <2>2, <2>3 DEF Lined
<1>9. CASE Idle
  BY <1>0, <1>9, Zenon DEF Idle
<1>10. CASE \E p \in Panels : OpenRefused(p)
  BY <1>0, <1>10, Zenon DEF OpenRefused, Opening
<1>11. CASE \E p \in Panels :
             \E bytes \in Part(files[selected[p]]) \cup {files[selected[p]]} : Open(p, bytes)
  <2>1. PICK p \in Panels :
               \E bytes \in Part(files[selected[p]]) \cup {files[selected[p]]} : Open(p, bytes)
    BY <1>11
  <2>6. PICK bytes \in Part(files[selected[p]]) \cup {files[selected[p]]} : Open(p, bytes)
    BY <2>1
  <2>2. files[selected[p]] \in Seq(Bytes)
    <3>1. selected[p] \in Files BY <1>0 DEF Selections, FilesOf, Files
    <3> QED BY <3>1 DEF Lined
  <2>3. bytes \in Seq(Bytes) BY <2>2, PartContents
  <2>4. /\ edit_buffer' = LoadText(bytes) /\ UNCHANGED <<files, copy_text>>
        /\ loaded' = [file |-> selected[p], bytes |-> bytes, lines |-> LoadText(bytes)]
    BY <2>6, Zenon DEF Open, Opening
  <2>5. LoadText(bytes) \in Seq(Seq(LineBytes))
    <3>1. CASE bytes = <<>>
      <4>1. LoadText(bytes) = <<<<>>>> BY <3>1, LoadTextEmpty, Zenon
      <4>2. <<>> \in Seq(LineBytes) OBVIOUS
      <4> QED BY <4>1, <4>2
    <3>2. CASE bytes # <<>> BY <2>3, <3>2, LoadTextExact
    <3> QED BY <3>1, <3>2
  <2> QED BY <2>3, <2>4, <2>5 DEF Lined
<1>12. CASE OpenUnread
  BY <1>0, <1>12, Zenon DEF OpenUnread, Opening
<1>13. CASE \E l \in Typed : Entered(l)
  <2>1. PICK l \in Typed : Entered(l) BY <1>13
  <2>2. l \in Seq(LineBytes) BY TextsAssumption DEF LineBytes
  <2>3. /\ \/ /\ edit_line_num \in DOMAIN edit_buffer
              /\ edit_buffer' = [edit_buffer EXCEPT ![edit_line_num] = l]
           \/ edit_buffer' = edit_buffer
        /\ UNCHANGED <<files, copy_text, loaded>>
    BY <2>1, Zenon DEF Entered, KeyboardDone
  <2>4. edit_buffer \in Seq(Seq(LineBytes)) /\ DOMAIN edit_buffer = 1 .. Len(edit_buffer)
    BY DEF Lined
  <2>5. edit_buffer' \in Seq(Seq(LineBytes))
    <3> DEFINE b == edit_buffer
               n == edit_line_num
               c == edit_buffer'
    <3>1. \/ n \in 1 .. Len(b) /\ c = [b EXCEPT ![n] = l]
          \/ c = b
      BY <2>3, <2>4
    <3>2. b \in Seq(Seq(LineBytes)) BY <2>4
    <3> HIDE DEF b, n, c
    <3>3. n \in 1 .. Len(b) => [b EXCEPT ![n] = l] \in Seq(Seq(LineBytes))
      <4> DEFINE S == Seq(LineBytes)
      <4>1. b \in Seq(S) /\ l \in S BY <2>2, <3>2
      <4> HIDE DEF S
      <4>2. n \in 1 .. Len(b) => [b EXCEPT ![n] = l] \in Seq(S) BY <4>1, ExceptSeq
      <4> QED BY <4>2 DEF S
    <3>4. c \in Seq(Seq(LineBytes)) BY <3>1, <3>2, <3>3
    <3> QED BY <3>4 DEF c
  <2> QED BY <2>3, <2>5 DEF Lined
<1>14. CASE NotEntered
  BY <1>0, <1>14, Zenon DEF NotEntered, KeyboardDone
<1>15. CASE UNCHANGED vars
  BY <1>0, <1>15, Zenon DEF vars
<1> QED
  BY <1>1, <1>2, <1>3, <1>4, <1>5, <1>6, <1>7, <1>8, <1>9, <1>10,
     <1>11, <1>12, <1>13, <1>14, <1>15,
     Zenon DEF Next, Frame, Keyboard

LEMMA LinedInit == Init => Lined
<1> SUFFICES ASSUME Init PROVE Lined
  OBVIOUS
<1>1. /\ files \in [Files -> UNION Range(Texts)] /\ \A f \in Files : files[f] \in Texts[f]
      /\ edit_buffer = <<>> /\ copy_text = <<>>
      /\ loaded = [file |-> NoFile, bytes |-> <<>>, lines |-> <<>>]
  BY Zenon DEF Init
<1>2. \A f \in Files : files[f] \in Seq(Bytes) BY <1>1, TextsAssumption
<1> QED BY <1>1, <1>2 DEF Lined

-----------------------------------------------------------------------------
(* The theorems.                                                            *)

LEMMA InitIInv == Init => IInv
<1>1. Init => Inv /\ Consistent /\ OfferedLine
  BY DEF Init, Inv, TypeOK, Modes, Flags, Selections, Up, Chosen, OpenedHere, Consistent,
       OfferedLine, Action, Panels, Files
<1> QED BY <1>1, LinedInit, Zenon DEF IInv

LEMMA InvStep == Inv /\ [Next]_vars => Inv'
BY FlagsStep, ModesStep, SelectionsStep, UpStep, ChosenStep, OpenedHereStep, Zenon
   DEF Inv, TypeOK

LEMMA IInvStep == IInv /\ [Next]_vars => IInv'
BY InvStep, ConsistentStep, OfferedLineStep, LinedStep, Zenon DEF IInv

\* The invariant holds in every state.
THEOREM Invariance == Spec => []IInv
<1>1. IInv /\ [Next]_vars => IInv'
  BY IInvStep, Zenon
<1> QED
  BY <1>1, InitIInv, PTL DEF Spec

\* The variables keep their types.
THEOREM TypeCorrect == Spec => []TypeOK
<1>1. IInv => TypeOK
  BY Zenon DEF IInv, Inv
<1> QED
  BY <1>1, Invariance, PTL

\* The keyboard, as ShowEditorDialog brings it up: what it will replace is what it offered,
\* whatever is done in the meantime.
THEOREM OfferedLineHolds == Spec => []OfferedLine
<1>1. IInv => OfferedLine
  BY Zenon DEF IInv
<1> QED
  BY <1>1, Invariance, PTL

Untouched == \A f \in Files : files'[f] # files[f] => f = loaded.file \/ moved \/ "unread" \in odd

\* Only the Save button of ShowEditorDialog writes.
LEMMA SavedStep == IInv /\ [Next]_vars => Untouched
<1> SUFFICES ASSUME IInv, [Next]_vars PROVE Untouched
  OBVIOUS
<1>1. CASE \E kept \in Kept : Save(kept)
  <2>1. PICK kept \in Kept : Save(kept)
    BY <1>1
  <2>2. editor_inprogress /\ popup /\ files' = [files EXCEPT ![Target] = kept]
    BY <2>1, Zenon DEF Save
  <2>3. \A f \in Files : f # Target => files'[f] = files[f]
    BY <2>2 DEF IInv, Inv, TypeOK, Selections
  <2>4. Target = loaded.file \/ moved \/ "unread" \in odd
    BY <2>2, Zenon DEF IInv, Consistent
  <2> QED
    BY <2>3, <2>4, Zenon DEF Untouched
<1>2. CASE UNCHANGED files
  BY <1>2, Zenon DEF Untouched
<1>3. (\E kept \in Kept : Save(kept)) \/ UNCHANGED files
  BY Zenon DEF Next, Frame, Keyboard, vars, PanelsCovered, PanelsDrawn, NoEditor, ShowEditor, Close,
     PickLine, PressKey, Chord, Editing, Idle, OpenRefused, Open, OpenUnread, Opening,
     Entered, NotEntered, KeyboardDone
<1> QED
  BY <1>1, <1>2, <1>3

\* The Save button, which does not look at edit_file, writes the file that was read as long
\* as the user has not moved and the file could be read.
THEOREM SavedToSourceHolds == Spec => SavedToSource
<1>1. IInv /\ [Next]_vars => [Untouched]_vars
  BY SavedStep, Zenon
<1> QED
  BY <1>1, Invariance, PTL DEF Spec, SavedToSource, Untouched

\* LoadText, for every file and whatever Get has brought of one: the lines are the bytes of
\* the file, ended where the line ends are and where a CR and its LF are in two chunks.
THEOREM LoadExactHolds == Spec => []LoadExact
<1>1. IInv => LoadExact
  BY LoadTextExact DEF IInv, Lined, LoadExact
<1> QED
  BY <1>1, Invariance, PTL

ReadsBack ==
  \A f \in Files : files'[f] # files[f] =>
    LoadText(files'[f]) = edit_buffer \/ "failed" \in odd' \/ edit_buffer = <<>>

LEMMA SavedTextStep == IInv /\ [Next]_vars => ReadsBack
<1> SUFFICES ASSUME IInv, [Next]_vars PROVE ReadsBack
  OBVIOUS
<1>1. CASE \E kept \in Kept : Save(kept)
  <2>1. PICK kept \in Kept : Save(kept)
    BY <1>1
  <2>2. /\ files' = [files EXCEPT ![Target] = kept]
        /\ odd' = IF kept = SaveText(edit_buffer) THEN odd ELSE odd \cup {"failed"}
    BY <2>1, Zenon DEF Save
  <2>3. \A f \in Files : files'[f] # files[f] => files'[f] = kept
    BY <2>2 DEF IInv, Inv, TypeOK, Selections
  <2>4. kept = SaveText(edit_buffer) \/ "failed" \in odd'
    BY <2>2
  <2>5. edit_buffer # <<>> => LoadText(SaveText(edit_buffer)) = edit_buffer
    BY RoundTrip, Zenon DEF IInv, Lined
  <2> QED
    BY <2>3, <2>4, <2>5, Zenon DEF ReadsBack
<1>2. CASE UNCHANGED files
  BY <1>2, Zenon DEF ReadsBack
<1>3. (\E kept \in Kept : Save(kept)) \/ UNCHANGED files
  BY Zenon DEF Next, Frame, Keyboard, vars, PanelsCovered, PanelsDrawn, NoEditor, ShowEditor, Close,
     PickLine, PressKey, Chord, Editing, Idle, OpenRefused, Open, OpenUnread, Opening,
     Entered, NotEntered, KeyboardDone
<1> QED
  BY <1>1, <1>2, <1>3

\* SaveText, which ends every line with a LF, and LoadText: what the Save button leaves in a
\* file reads back as what was on the screen.
THEOREM SavedTextHolds == Spec => SavedText
<1>1. IInv /\ [Next]_vars => [ReadsBack]_vars
  BY SavedTextStep, Zenon
<1> QED
  BY <1>1, Invariance, PTL DEF Spec, SavedText, ReadsBack

-----------------------------------------------------------------------------
(* The lines of an ini file.                                                *)

LEMMA NamesDiffer ==
  /\ {"none", "stray"} \cap Sections = {} /\ {"Global", Other} \cap Sites = {}
  /\ Sites \subseteq Sections /\ "Global" \in Sections /\ Other \in Sections
  /\ Empty \in Values /\ Empty = [text |-> "none", mark |-> "whole", enc |-> FALSE]
BY ConfigAssumption DEF Sections, Other, Empty, Plain, Values, Words, Marks

LEMMA LineKinds ==
  ASSUME NEW l \in Lines
  PROVE  \/ /\ IsHeader(l) /\ l.section \in Sections \cup {"stray"}
            /\ l = Header(l.section) /\ l.key = "none" /\ l.val = Empty /\ l.tail = FALSE
         \/ /\ ~IsHeader(l) /\ l.section = "none" /\ l.key \in Keys \cup {"none"}
            /\ l.val \in Values /\ l.tail \in BOOLEAN
            /\ l = KeyLine(l.key, l.val, l.tail)
<1>1. CASE l \in {Header(s) : s \in Sections \cup {"stray"}}
  <2>1. PICK s \in Sections \cup {"stray"} : l = Header(s) BY <1>1
  <2>2. s # "none" BY NamesDiffer
  <2> QED BY <2>1, <2>2 DEF Header, IsHeader
<1>2. CASE l \in [section : {"none"}, key : Keys \cup {"none"}, val : Values, tail : BOOLEAN]
  BY <1>2 DEF IsHeader, KeyLine
<1> QED BY <1>1, <1>2 DEF Lines

LEMMA KeyLineIsLine ==
  ASSUME NEW k \in Keys \cup {"none"}, NEW v \in Values, NEW t \in BOOLEAN
  PROVE  /\ KeyLine(k, v, t) \in Lines /\ ~IsHeader(KeyLine(k, v, t))
         /\ KeyLine(k, v, t).key = k /\ KeyLine(k, v, t).val = v
BY DEF KeyLine, Lines, IsHeader

LEMMA HeaderIsLine ==
  ASSUME NEW s \in Sections
  PROVE  /\ Header(s) \in Lines /\ IsHeader(Header(s))
         /\ Header(s).section = s /\ Header(s).key = "none"
BY NamesDiffer DEF Header, Lines, IsHeader

\* The line a value is written on.
LEMMA NewLineIsLine ==
  ASSUME NEW k \in Keys, NEW v \in Values, NEW comment \in BOOLEAN
  PROVE  LET l == NewLine(k, v, comment) IN
         /\ l \in Lines /\ ~IsHeader(l) /\ l.key = k /\ l.val.text = v.text
         /\ l.val.mark = "half" => v.mark = "half"
         /\ Shows(l.val, "brackets") => Shows(v, "brackets")
<1> DEFINE w == Replaced(v, comment)
           t == Shows(v, "semi") \/ comment
<1>1. t \in BOOLEAN OBVIOUS
<1>2. v = [text |-> v.text, mark |-> v.mark, enc |-> v.enc] /\ v.text \in Words
      /\ v.mark \in Marks /\ v.enc \in BOOLEAN
  BY DEF Values
<1>3. \/ w = v \/ w = [text |-> v.text, mark |-> "part", enc |-> v.enc]
      \/ w = [text |-> v.text, mark |-> "garbled", enc |-> v.enc]
  BY <1>2 DEF Replaced
<1>4. w \in Values /\ w.text = v.text
  BY <1>2, <1>3 DEF Values, Marks
<1>5. (w.mark = "half" => v.mark = "half") /\ (Shows(w, "brackets") => Shows(v, "brackets"))
  BY <1>2, <1>3 DEF Shows
<1>6. NewLine(k, v, comment) = KeyLine(k, w, t) BY DEF NewLine
<1> HIDE DEF w, t
<1> QED BY <1>1, <1>4, <1>5, <1>6, KeyLineIsLine

-----------------------------------------------------------------------------
(* Looking for a section and a key.                                         *)

LEMMA MinIsLeast ==
  ASSUME NEW S, NEW a \in Nat, NEW b \in Int, S \subseteq a .. b, S # {}
  PROVE  Min(S) \in S /\ \A x \in S : Min(S) <= x
<1> DEFINE R == OpToRel(<, Nat)
<1>1. IsWellFoundedOn(R, Nat) BY NatLessThanWellFounded
<1>2. \A m, n \in Nat : m < n => <<m, n>> \in R BY DEF OpToRel
<1>3. S \subseteq Nat OBVIOUS
<1> HIDE DEF R
<1>4. PICK n \in S : \A m \in S : <<m, n>> \notin R BY <1>1, <1>3, WFMin
<1>5. ASSUME NEW m \in S PROVE n <= m
  <2>1. m \in Nat /\ n \in Nat BY <1>3
  <2>2. ~ (m < n) BY <1>2, <1>4, <2>1, Zenon
  <2> QED BY <2>1, <2>2
<1> QED BY <1>5, <1>3 DEF Min

LEMMA FindSectionFinds ==
  ASSUME NEW es \in Seq(Lines), NEW s \in Sections
  PROVE  LET h == FindSection(es, s) IN
         /\ h \in 0 .. Len(es)
         /\ h # 0 => es[h].section = s /\ \A j \in 1 .. h - 1 : es[j].section # s
         /\ h = 0 => \A j \in 1 .. Len(es) : es[j].section # s
<1> DEFINE I == {i \in 1 .. Len(es) : IsHeader(es[i]) /\ es[i].section = s}
<1>1. FindSection(es, s) = IF I # {} THEN Min(I) ELSE 0
  BY DEF FindSection, SelectInSeq
<1>2. I \subseteq 1 .. Len(es) /\ Len(es) \in Nat OBVIOUS
<1>3. I # {} => Min(I) \in I /\ \A x \in I : Min(I) <= x
  <2>1. 1 \in Nat /\ Len(es) \in Int BY <1>2
  <2> HIDE DEF I
  <2> QED BY <1>2, <2>1, MinIsLeast
<1>4. s # "none" BY NamesDiffer
<1>5. \A j \in 1 .. Len(es) : es[j].section = s <=> j \in I BY <1>4 DEF IsHeader
<1> HIDE DEF I
<1>6. CASE I # {}
  <2>1. Min(I) \in I /\ \A x \in I : Min(I) <= x BY <1>3, <1>6
  <2>2. Min(I) \in 1 .. Len(es) BY <1>2, <2>1
  <2>3. ASSUME NEW j \in 1 .. Min(I) - 1 PROVE es[j].section # s
    <3>1. j \in 1 .. Len(es) /\ ~ (Min(I) <= j) BY <2>2, <1>2
    <3> QED BY <1>5, <2>1, <3>1
  <2>4. es[Min(I)].section = s BY <1>5, <2>1, <2>2
  <2>5. Min(I) # 0 /\ Min(I) \in 0 .. Len(es) BY <2>2
  <2> QED BY <1>1, <1>6, <2>3, <2>4, <2>5
<1>7. CASE I = {}
  <2> QED BY <1>1, <1>2, <1>5, <1>7
<1> QED BY <1>6, <1>7

LEMMA FindKeyFinds ==
  ASSUME NEW es \in Seq(Lines), NEW s \in Sections, NEW k
  PROVE  LET h == FindSection(es, s)
             i == FindKey(es, s, k)
         IN  /\ i \in 0 .. Len(es)
             /\ i # 0 => /\ h # 0 /\ h < i /\ es[i].key = k
                         /\ \A j \in h + 1 .. i : ~IsHeader(es[j])
                         /\ \A j \in h + 1 .. i - 1 : es[j].key # k
             /\ i = 0 /\ h # 0 =>
                  \A j \in h + 1 .. Len(es) :
                     (\A m \in h + 1 .. j : ~IsHeader(es[m])) => es[j].key # k
<1> DEFINE h == FindSection(es, s)
           N == Len(es)
           J == {j \in h + 1 .. N : IsHeader(es[j])}
           e == SectionEnd(es, h)
           K == {j \in h + 1 .. e : es[j].key = k}
           i == FindKey(es, s, k)
<1>1. h \in 0 .. N /\ N \in Nat BY FindSectionFinds
<1> HIDE DEF h, N
<1>2. e = IF (IF J # {} THEN Min(J) ELSE 0) = 0 THEN N ELSE (IF J # {} THEN Min(J) ELSE 0) - 1
  BY DEF SectionEnd, SelectInSubSeq, N
<1>3. J # {} => Min(J) \in J /\ \A x \in J : Min(J) <= x
  <2>1. J \subseteq h + 1 .. N /\ h + 1 \in Nat /\ N \in Int BY <1>1
  <2> HIDE DEF J
  <2> QED BY <2>1, MinIsLeast
<1>4. J \subseteq h + 1 .. N /\ \A j \in h + 1 .. N : IsHeader(es[j]) => j \in J OBVIOUS
<1> HIDE DEF e, J
<1>5. /\ e \in h .. N
      /\ \A j \in h + 1 .. e : ~IsHeader(es[j])
      /\ e # N => IsHeader(es[e + 1])
  <2>1. CASE J = {}
    <3>1. e = N BY <1>2, <2>1
    <3> QED BY <1>1, <1>4, <2>1, <3>1
  <2>2. CASE J # {}
    <3>1. Min(J) \in J /\ Min(J) \in h + 1 .. N /\ \A x \in J : Min(J) <= x
      BY <1>3, <1>4, <2>2
    <3>2. Min(J) # 0 /\ e = Min(J) - 1 BY <1>1, <1>2, <2>2, <3>1
    <3>3. e \in h .. N /\ e + 1 = Min(J) BY <1>1, <3>1, <3>2
    <3>4. ASSUME NEW j \in h + 1 .. e PROVE ~IsHeader(es[j])
      <4>1. j \in h + 1 .. N /\ ~ (Min(J) <= j) BY <1>1, <3>1, <3>3
      <4> QED BY <1>4, <3>1, <4>1
    <3>5. IsHeader(es[Min(J)])
      <4>1. J = {j \in h + 1 .. N : IsHeader(es[j])} BY DEF J
      <4> HIDE DEF J
      <4> QED BY <3>1, <4>1
    <3> QED BY <3>3, <3>4, <3>5
  <2> QED BY <2>1, <2>2
<1>6. i = IF h = 0 THEN 0 ELSE IF K # {} THEN Min(K) ELSE 0
  BY DEF FindKey, SelectInSubSeq, h, e
<1>7. K # {} => Min(K) \in K /\ \A x \in K : Min(K) <= x
  <2>1. K \subseteq h + 1 .. e /\ h + 1 \in Nat /\ e \in Int BY <1>1, <1>5
  <2> HIDE DEF K
  <2> QED BY <2>1, MinIsLeast
<1>8. K \subseteq h + 1 .. e /\ \A j \in h + 1 .. e : es[j].key = k <=> j \in K OBVIOUS
<1> HIDE DEF i, K
<1>9. CASE h # 0 /\ K # {}
  <2>1. i = Min(K) /\ i \in K /\ (\A x \in K : i <= x) /\ i \in h + 1 .. e
    BY <1>6, <1>7, <1>8, <1>9
  <2>2. i \in 1 .. N /\ h < i /\ i # 0 BY <1>1, <1>5, <2>1
  <2>3. \A j \in h + 1 .. i : ~IsHeader(es[j]) BY <1>1, <1>5, <2>1
  <2>4. ASSUME NEW j \in h + 1 .. i - 1 PROVE es[j].key # k
    <3>1. j \in h + 1 .. e /\ ~ (i <= j) BY <1>1, <1>5, <2>1
    <3> QED BY <1>8, <2>1, <3>1
  <2>5. es[i].key = k BY <1>8, <2>1
  <2>6. i \in 0 .. N BY <2>2
  <2> QED BY <1>9, <2>2, <2>3, <2>4, <2>5, <2>6 DEF h, i, N
<1>10. CASE h # 0 /\ K = {}
  <2>1. i = 0 BY <1>6, <1>10
  <2>2. ASSUME NEW j \in h + 1 .. N, \A m \in h + 1 .. j : ~IsHeader(es[m])
        PROVE  es[j].key # k
    <3>1. j <= e
      <4> SUFFICES ASSUME e < j PROVE FALSE BY <1>1, <1>5
      <4>1. e # N /\ e + 1 \in h + 1 .. j BY <1>1, <1>5
      <4> QED BY <1>5, <2>2, <4>1
    <3>2. j \in h + 1 .. e BY <1>1, <1>5, <3>1
    <3> QED BY <1>8, <1>10, <3>2
  <2>3. i \in 0 .. N BY <1>1, <2>1
  <2> QED BY <2>1, <2>2, <2>3 DEF h, i, N
<1>11. CASE h = 0
  <2>1. i = 0 /\ i \in 0 .. N BY <1>1, <1>6, <1>11
  <2> QED BY <1>11, <2>1 DEF h, i, N
<1> QED BY <1>9, <1>10, <1>11

-----------------------------------------------------------------------------
(* WriteString.                                                             *)

IniLists == {l \in [entries : Seq(Lines), cur : Nat] : l.cur <= Len(l.entries)}

\* What becomes of the lines es, where n is the place of CurEntry: ls and m.  The line with
\* the key is replaced, or one is put behind the section's header, or a header and a line
\* are added behind CurEntry and what stood there is gone.
ReplacesAt(es, i, ls, l) ==
  /\ Len(ls) = Len(es) /\ ls[i] = l
  /\ \A j \in 1 .. Len(es) : j # i => ls[j] = es[j]

InsertsBehind(es, h, ls, l) ==
  /\ Len(ls) = Len(es) + 1 /\ ls[h + 1] = l
  /\ \A j \in 1 .. h : ls[j] = es[j]
  /\ \A j \in h + 1 .. Len(es) : ls[j + 1] = es[j]

AddsBehind(es, n, ls, s, l) ==
  /\ Len(ls) = n + 2 /\ ls[n + 1] = Header(s) /\ ls[n + 2] = l
  /\ \A j \in 1 .. n : ls[j] = es[j]

LEMMA WriteStringCases ==
  ASSUME NEW list \in IniLists, NEW s \in Sections, NEW k \in Keys, NEW v \in Values
  PROVE  LET h  == FindSection(list.entries, s)
             i  == FindKey(list.entries, s, k)
             r  == WriteString(list, s, k, v)
         IN  /\ r \in IniLists
             /\ \/ /\ i # 0
                   /\ \E c \in BOOLEAN :
                        /\ ReplacesAt(list.entries, i, r.entries, NewLine(k, v, c))
                        /\ c => \E j \in h + 1 .. i : list.entries[j].tail
                   /\ r.cur = list.cur
                \/ /\ i = 0 /\ h # 0
                   /\ InsertsBehind(list.entries, h, r.entries, NewLine(k, v, FALSE))
                   /\ r.cur = IF list.cur > h THEN list.cur + 1 ELSE list.cur
                \/ /\ h = 0
                   /\ AddsBehind(list.entries, list.cur, r.entries, s, NewLine(k, v, FALSE))
                   /\ r.cur = list.cur + 2
<1> DEFINE es == list.entries
           n == list.cur
           N == Len(es)
           h == FindSection(es, s)
           i == FindKey(es, s, k)
           r == WriteString(list, s, k, v)
<1>1. /\ es \in Seq(Lines) /\ n \in 0 .. N /\ N \in Nat
      /\ list = [entries |-> es, cur |-> n]
  BY DEF IniLists
<1> HIDE DEF es, n
<1>2. h \in 0 .. N /\ i \in 0 .. N /\ (i # 0 => h # 0)
  BY <1>1, FindSectionFinds, FindKeyFinds
<1>3. ASSUME NEW c \in BOOLEAN PROVE NewLine(k, v, c) \in Lines
  BY NewLineIsLine
<1> HIDE DEF h, i
<1> DEFINE Goal ==
             /\ r \in IniLists
             /\ \/ /\ i # 0
                   /\ \E c \in BOOLEAN : /\ ReplacesAt(es, i, r.entries, NewLine(k, v, c))
                                         /\ c => \E j \in h + 1 .. i : es[j].tail
                   /\ r.cur = n
                \/ /\ i = 0 /\ h # 0
                   /\ InsertsBehind(es, h, r.entries, NewLine(k, v, FALSE))
                   /\ r.cur = IF n > h THEN n + 1 ELSE n
                \/ /\ h = 0
                   /\ AddsBehind(es, n, r.entries, s, NewLine(k, v, FALSE))
                   /\ r.cur = n + 2
<1> SUFFICES Goal BY DEF es, h, i, n
<1> HIDE DEF r
<1>4. CASE i # 0
  <2> DEFINE c == HasComment(es, s, i)
             l == NewLine(k, v, c)
             ls == [es EXCEPT ![i] = l]
  <2>1. c \in BOOLEAN /\ (c => \E j \in h + 1 .. i : es[j].tail) BY DEF HasComment, h
  <2>2. l \in Lines BY <1>3, <2>1
  <2>3. r = [list EXCEPT !.entries[i] = l]
    BY <1>4 DEF WriteString, es, h, i, r
  <2> HIDE DEF c
  <2>4. r = [entries |-> ls, cur |-> n] BY <1>1, <2>3
  <2> HIDE DEF l
  <2>5. i \in 1 .. N /\ es \in [1 .. N -> Lines] BY <1>1, <1>2, <1>4
  <2>6. ls \in [1 .. N -> Lines] /\ ls[i] = l /\ \A j \in 1 .. N : j # i => ls[j] = es[j]
    BY <2>2, <2>5
  <2> HIDE DEF ls
  <2>7. ls \in Seq(Lines) /\ Len(ls) = N BY <1>1, <2>6
  <2>8. r.entries = ls /\ r.cur = n /\ r \in IniLists BY <1>1, <2>4, <2>7 DEF IniLists
  <2>9. ReplacesAt(es, i, r.entries, l) BY <2>6, <2>7, <2>8 DEF ReplacesAt
  <2> QED BY <1>4, <2>1, <2>8, <2>9 DEF l
<1>5. CASE i = 0 /\ h # 0
  <2> DEFINE l == NewLine(k, v, FALSE)
             a == SubSeq(es, 1, h)
             b == SubSeq(es, h + 1, N)
             al == Append(a, l)
             ls == a \o <<l>> \o b
             m == IF n > h THEN n + 1 ELSE n
  <2>1. l \in Lines BY <1>3
  <2>2. (h + 1) - 1 = h BY <1>1, <1>2
  <2>3. r = [entries |-> ls, cur |-> m]
    BY <1>5, <2>2 DEF WriteString, AddItemAt, InsertAt, es, h, i, n, r
  <2> HIDE DEF l
  <2>4. a \in Seq(Lines) /\ Len(a) = h /\ \A j \in 1 .. h : a[j] = es[j]
    BY <1>1, <1>2, <1>5
  <2>5. b \in Seq(Lines) /\ Len(b) = N - h /\ \A j \in 1 .. N - h : b[j] = es[h + j]
    BY <1>1, <1>2, <1>5
  <2> HIDE DEF a, b
  <2>6. /\ a \o <<l>> = al /\ al \in Seq(Lines) /\ Len(al) = h + 1 /\ al[h + 1] = l
        /\ \A j \in 1 .. h : al[j] = es[j]
    BY <1>1, <1>2, <2>1, <2>4
  <2>7. ls = al \o b BY <2>6
  <2> HIDE DEF al, ls
  <2>8. /\ ls \in Seq(Lines) /\ Len(ls) = N + 1
        /\ \A j \in 1 .. h + 1 : ls[j] = al[j]
        /\ \A j \in 1 .. N - h : ls[h + 1 + j] = b[j]
    <3>1. /\ ls \in Seq(Lines) /\ Len(ls) = (h + 1) + (N - h)
          /\ \A j \in 1 .. (h + 1) + (N - h) :
               ls[j] = IF j <= h + 1 THEN al[j] ELSE b[j - (h + 1)]
      <4>0. al \in Seq(Lines) /\ b \in Seq(Lines) BY <2>5, <2>6
      <4>1. /\ al \o b \in Seq(Lines) /\ Len(al \o b) = Len(al) + Len(b)
            /\ \A j \in 1 .. Len(al) + Len(b) :
                 (al \o b)[j] = IF j <= Len(al) THEN al[j] ELSE b[j - Len(al)]
        BY <4>0, ConcatProperties
      <4> QED BY <2>5, <2>6, <2>7, <4>1, Zenon
    <3>2. (h + 1) + (N - h) = N + 1 BY <1>1, <1>2
    <3>3. ASSUME NEW j \in 1 .. N - h PROVE ls[h + 1 + j] = b[j]
      <4>1. /\ h + 1 + j \in 1 .. N + 1 /\ ~ (h + 1 + j <= h + 1)
            /\ (h + 1 + j) - (h + 1) = j
        BY <1>1, <1>2
      <4> QED BY <3>1, <3>2, <4>1
    <3>4. ASSUME NEW j \in 1 .. h + 1 PROVE ls[j] = al[j]
      <4>1. j \in 1 .. N + 1 /\ j <= h + 1 BY <1>1, <1>2
      <4> QED BY <3>1, <3>2, <4>1
    <3> QED BY <3>1, <3>2, <3>3, <3>4
  <2>9. ls[h + 1] = l /\ \A j \in 1 .. h : ls[j] = es[j] BY <1>1, <1>2, <2>6, <2>8
  <2>10. ASSUME NEW j \in h + 1 .. N PROVE ls[j + 1] = es[j]
    <3>1. j - h \in 1 .. N - h /\ h + (j - h) = j /\ h + 1 + (j - h) = j + 1
      BY <1>1, <1>2
    <3> QED BY <2>5, <2>8, <3>1
  <2>11. m \in Nat /\ m <= N + 1 BY <1>1, <1>2
  <2> HIDE DEF m
  <2>12. r.entries = ls /\ r.cur = m /\ r \in IniLists BY <2>3, <2>8, <2>11 DEF IniLists
  <2>13. InsertsBehind(es, h, r.entries, l)
    BY <2>8, <2>9, <2>10, <2>12 DEF InsertsBehind
  <2> QED BY <1>5, <2>12, <2>13 DEF l, m
<1>6. CASE h = 0
  <2> DEFINE l == NewLine(k, v, FALSE)
             a == SubSeq(es, 1, n)
             ah == Append(a, Header(s))
             ls == Append(ah, l)
  <2>1. l \in Lines /\ Header(s) \in Lines BY <1>3, HeaderIsLine
  <2>2. a \in Seq(Lines) /\ Len(a) = n /\ \A j \in 1 .. n : a[j] = es[j]
    BY <1>1
  <2>3. i = 0 BY <1>2, <1>6
  <2>4. r = AddItem(AddItem(list, Header(s)), l)
    BY <1>6, <2>3 DEF WriteString, es, h, i, r
  <2> HIDE DEF l
  <2>5. AddItem(list, Header(s)) = [entries |-> ah, cur |-> n + 1]
    BY <1>1 DEF AddItem
  <2> HIDE DEF a
  <2>6. ah \in Seq(Lines) /\ Len(ah) = n + 1 /\ ah[n + 1] = Header(s)
        /\ \A j \in 1 .. n : ah[j] = es[j]
    BY <1>1, <2>1, <2>2
  <2> HIDE DEF ah
  <2>7. SubSeq(ah, 1, n + 1) = ah BY <1>1, <2>6
  <2>8. r = [entries |-> ls, cur |-> n + 2]
    <3>1. r = [entries |-> Append(SubSeq(ah, 1, n + 1), l), cur |-> (n + 1) + 1]
      BY <2>4, <2>5 DEF AddItem
    <3>2. (n + 1) + 1 = n + 2 BY <1>1
    <3> QED BY <2>7, <3>1, <3>2
  <2>9. ls \in Seq(Lines) /\ Len(ls) = n + 2 /\ AddsBehind(es, n, ls, s, l)
    BY <1>1, <2>1, <2>6 DEF AddsBehind
  <2> HIDE DEF ls
  <2>10. r.entries = ls /\ r.cur = n + 2 /\ r \in IniLists
    BY <1>1, <2>8, <2>9 DEF IniLists
  <2>11. AddsBehind(es, n, r.entries, s, l) BY <2>9, <2>10
  <2> QED BY <1>6, <2>10, <2>11 DEF l
<1> QED BY <1>2, <1>4, <1>5, <1>6

Puts == [section : Sections, key : Keys, val : Values]

WritePut(list, w) == WriteString(list, w.section, w.key, w.val)

LEMMA WriteStringsSteps ==
  ASSUME NEW list \in IniLists, NEW writes \in Seq(Puts)
  PROVE  \E f \in [0 .. Len(writes) -> IniLists] :
           /\ f[0] = list /\ f[Len(writes)] = WriteStrings(list, writes)
           /\ \A n \in 1 .. Len(writes) : f[n] = WritePut(f[n - 1], writes[n])
<1> DEFINE N == Len(writes)
           step == [p \in (1 .. N) \X IniLists |-> WritePut(p[2], writes[p[1]])]
           F(h) == [n \in 0 .. Len(writes) |->
                      IF n = 0 THEN list
                      ELSE WriteString(h[n - 1], writes[n].section, writes[n].key, writes[n].val)]
           after == CHOOSE h : h = F(h)
<1>1. N \in Nat /\ \A n \in 1 .. N : writes[n] \in Puts OBVIOUS
<1>2. ASSUME NEW l \in IniLists, NEW w \in Puts PROVE WritePut(l, w) \in IniLists
  BY WriteStringCases DEF WritePut, Puts
<1>3. step \in [(1 .. N) \X IniLists -> IniLists] BY <1>1, <1>2
<1>4. PICK f \in [0 .. N -> IniLists] :
        f[0] = list /\ \A n \in 1 .. N : f[n] = step[<<n, f[n - 1]>>]
  <2> HIDE DEF N, step
  <2>1. \E f : Follows(f, IniLists, list, N, step) BY <1>1, <1>3, Recursion, Zenon
  <2> QED BY <2>1 DEF Follows
<1>5. ASSUME NEW n \in 1 .. N PROVE f[n] = WritePut(f[n - 1], writes[n]) /\ n - 1 \in 0 .. N
  <2>1. n - 1 \in 0 .. N BY <1>1
  <2>2. <<n, f[n - 1]>> \in (1 .. N) \X IniLists BY <2>1
  <2>3. step[<<n, f[n - 1]>>] = WritePut(f[n - 1], writes[n]) BY <2>2
  <2> HIDE DEF step
  <2> QED BY <1>4, <2>1, <2>3
<1>6. f = F(f)
  <2>1. \A n \in 0 .. N : n # 0 => n \in 1 .. N BY <1>1
  <2>2. \A n \in 0 .. N :
          f[n] = IF n = 0 THEN list
                 ELSE WriteString(f[n - 1], writes[n].section, writes[n].key, writes[n].val)
    BY <1>4, <1>5, <2>1, Zenon DEF WritePut
  <2> QED BY <1>4, <2>2
<1>7. WriteStrings(list, writes) = after[N] BY DEF WriteStrings
<1> HIDE DEF F
<1>8. after = F(after) BY <1>6, Zenon
<1> HIDE DEF after
<1>9. \A n \in 0 .. N : after[n] = IF n = 0 THEN list ELSE WritePut(after[n - 1], writes[n])
  <2>1. \A n \in 0 .. N :
          F(after)[n] = IF n = 0 THEN list ELSE WritePut(after[n - 1], writes[n])
    BY Zenon DEF F, WritePut
  <2> QED BY <1>8, <2>1, Zenon
<1>10. \A n \in 0 .. N : after[n] = f[n]
  <2> DEFINE E == {n \in 0 .. N : after[n] = f[n]}
  <2>1. 0 \in E BY <1>1, <1>4, <1>9
  <2>2. ASSUME NEW n \in 0 .. N - 1, n \in E PROVE n + 1 \in E
    <3>1. n + 1 \in 1 .. N /\ (n + 1) - 1 = n /\ n + 1 \in 0 .. N /\ n + 1 # 0 BY <1>1
    <3>2. f[n + 1] = WritePut(f[n], writes[n + 1]) BY <1>5, <3>1
    <3>3. after[n + 1] = WritePut(after[n], writes[n + 1]) BY <1>9, <3>1
    <3> QED BY <2>2, <3>1, <3>2, <3>3
  <2> HIDE DEF E
  <2>3. \A n \in 0 .. N : n \in E BY <1>1, <2>1, <2>2, Induction
  <2> QED BY <2>3 DEF E
<1>11. f[N] = WriteStrings(list, writes) BY <1>1, <1>7, <1>10
<1> QED BY <1>4, <1>5, <1>11

\* The line l is written for w.
WrittenFor(l, w) ==
  /\ l \in Lines /\ ~IsHeader(l) /\ l.key = w.key /\ l.val.text = w.val.text
  /\ l.val.mark = "half" => w.val.mark = "half"
  /\ Shows(l.val, "brackets") => Shows(w.val, "brackets")

Replacing(list, r, w, h, i, l) ==
  /\ \E c \in BOOLEAN : /\ l = NewLine(w.key, w.val, c)
                        /\ c => \E j \in h + 1 .. i : list.entries[j].tail
  /\ InSection(list.entries, h, i) /\ Found(list.entries, h, i)
  /\ list.entries[h].section = w.section /\ list.entries[i].key = w.key
  /\ ReplacesAt(list.entries, i, r.entries, l) /\ r.cur = list.cur

Inserting(list, r, w, h, l) ==
  /\ l = NewLine(w.key, w.val, FALSE)
  /\ IsHeader(list.entries[h]) /\ list.entries[h].section = w.section
  /\ \A j \in 1 .. h - 1 : list.entries[j].section # list.entries[h].section
  /\ \A j \in h + 1 .. Len(list.entries) :
        (\A m \in h + 1 .. j : ~IsHeader(list.entries[m])) => list.entries[j].key # w.key
  /\ InsertsBehind(list.entries, h, r.entries, l)
  /\ r.cur = IF list.cur > h THEN list.cur + 1 ELSE list.cur

Adding(list, r, w, l) ==
  /\ l = NewLine(w.key, w.val, FALSE)
  /\ \A j \in 1 .. Len(list.entries) : list.entries[j].section # w.section
  /\ AddsBehind(list.entries, list.cur, r.entries, w.section, l)
  /\ r.cur = list.cur + 2

LEMMA PutCases ==
  ASSUME NEW list \in IniLists, NEW w \in Puts
  PROVE  LET r == WritePut(list, w)
             N == Len(list.entries)
         IN  /\ r \in IniLists
             /\ \E l : WrittenFor(l, w)
                  /\ \/ \E h, i \in 1 .. N : Replacing(list, r, w, h, i, l)
                     \/ \E h \in 1 .. N : Inserting(list, r, w, h, l)
                     \/ Adding(list, r, w, l)
<1> DEFINE es == list.entries
           s == w.section
           k == w.key
           v == w.val
           h == FindSection(es, s)
           i == FindKey(es, s, k)
           r == WriteString(list, s, k, v)
           ls == r.entries
<1>1. s \in Sections /\ k \in Keys /\ v \in Values BY DEF Puts
<1>2. es \in Seq(Lines) /\ list.cur \in 0 .. Len(es) BY DEF IniLists
<1>3. r \in IniLists
  /\ \/ /\ i # 0
        /\ \E c \in BOOLEAN : /\ ReplacesAt(es, i, ls, NewLine(k, v, c))
                              /\ c => \E j \in h + 1 .. i : es[j].tail
        /\ r.cur = list.cur
     \/ /\ i = 0 /\ h # 0
        /\ InsertsBehind(es, h, ls, NewLine(k, v, FALSE))
        /\ r.cur = IF list.cur > h THEN list.cur + 1 ELSE list.cur
     \/ /\ h = 0
        /\ AddsBehind(es, list.cur, ls, s, NewLine(k, v, FALSE))
        /\ r.cur = list.cur + 2
  BY <1>1, WriteStringCases
<1>4. \A c \in BOOLEAN : WrittenFor(NewLine(k, v, c), w)
  BY <1>1, NewLineIsLine DEF WrittenFor
<1>5. /\ h \in 0 .. Len(es)
      /\ h # 0 => es[h].section = s /\ \A j \in 1 .. h - 1 : es[j].section # s
      /\ h = 0 => \A j \in 1 .. Len(es) : es[j].section # s
  BY <1>1, <1>2, FindSectionFinds
<1>6. /\ i \in 0 .. Len(es)
      /\ i # 0 => /\ h # 0 /\ h < i /\ es[i].key = k
                  /\ \A j \in h + 1 .. i : ~IsHeader(es[j])
                  /\ \A j \in h + 1 .. i - 1 : es[j].key # k
      /\ i = 0 /\ h # 0 =>
           \A j \in h + 1 .. Len(es) :
              (\A m \in h + 1 .. j : ~IsHeader(es[m])) => es[j].key # k
  BY <1>1, <1>2, FindKeyFinds
<1>7. WritePut(list, w) = r BY DEF WritePut
<1>8. s # "none" BY <1>1, NamesDiffer
<1> HIDE DEF h, i, r
<1>9. h # 0 => IsHeader(es[h]) /\ h \in 1 .. Len(es) BY <1>2, <1>5, <1>8 DEF IsHeader
<1>10. CASE i # 0 /\ r.cur = list.cur
            /\ \E c \in BOOLEAN : /\ ReplacesAt(es, i, ls, NewLine(k, v, c))
                                  /\ c => \E j \in h + 1 .. i : es[j].tail
  <2>1. PICK c \in BOOLEAN : /\ ReplacesAt(es, i, ls, NewLine(k, v, c))
                             /\ c => \E j \in h + 1 .. i : es[j].tail
    BY <1>10
  <2> DEFINE l == NewLine(k, v, c)
  <2>2. WrittenFor(l, w) BY <1>4
  <2>3. h \in 1 .. Len(es) /\ i \in 1 .. Len(es) BY <1>2, <1>6, <1>9, <1>10
  <2>4. InSection(es, h, i) BY <1>6, <1>9, <1>10 DEF InSection
  <2>5. Found(es, h, i) BY <1>5, <1>6, <1>10 DEF Found
  <2>6. l = NewLine(w.key, w.val, c) OBVIOUS
  <2> HIDE DEF l
  <2>7. Replacing(list, r, w, h, i, l)
    BY <1>5, <1>6, <1>10, <2>1, <2>4, <2>5, <2>6 DEF Replacing
  <2> QED BY <1>3, <1>7, <2>2, <2>3, <2>7
<1>11. CASE i = 0 /\ h # 0 /\ InsertsBehind(es, h, ls, NewLine(k, v, FALSE))
            /\ r.cur = IF list.cur > h THEN list.cur + 1 ELSE list.cur
  <2> DEFINE l == NewLine(k, v, FALSE)
  <2>1. WrittenFor(l, w) BY <1>4
  <2>2. Inserting(list, r, w, h, l) BY <1>5, <1>6, <1>9, <1>11 DEF Inserting
  <2> HIDE DEF l
  <2> QED BY <1>3, <1>7, <1>9, <1>11, <2>1, <2>2
<1>12. CASE h = 0 /\ AddsBehind(es, list.cur, ls, s, NewLine(k, v, FALSE))
            /\ r.cur = list.cur + 2
  <2> DEFINE l == NewLine(k, v, FALSE)
  <2>1. WrittenFor(l, w) BY <1>4
  <2>2. Adding(list, r, w, l) BY <1>5, <1>12 DEF Adding
  <2> HIDE DEF l
  <2> QED BY <1>3, <1>7, <2>1, <2>2
<1> QED BY <1>3, <1>10, <1>11, <1>12

-----------------------------------------------------------------------------
(* Addresses stay in the sections of their sites.                           *)

LEMMA OneSection ==
  ASSUME NEW es, NEW g \in Nat, NEW h \in Nat, NEW i \in Nat,
         InSection(es, g, i), InSection(es, h, i)
  PROVE  g = h
<1>1. ~ (g < h)
  <2> SUFFICES ASSUME g < h PROVE FALSE OBVIOUS
  <2>1. h \in g + 1 .. i BY DEF InSection
  <2> QED BY <2>1 DEF InSection
<1>2. ~ (h < g)
  <2> SUFFICES ASSUME h < g PROVE FALSE OBVIOUS
  <2>1. g \in h + 1 .. i BY DEF InSection
  <2> QED BY <2>1 DEF InSection
<1> QED BY <1>1, <1>2

\* The sites whose addresses are still to be converted when k of s has been written.
StillOpen(open, s, k) == IF k = "server" THEN open \ {s} ELSE open

LEMMA OwnReplaced ==
  ASSUME NEW es \in Seq(Lines), NEW ls \in Seq(Lines), NEW entered, NEW open,
         NEW h \in 1 .. Len(es), NEW i \in 1 .. Len(es), NEW l,
         InSection(es, h, i), Found(es, h, i), ReplacesAt(es, i, ls, l),
         ~IsHeader(l), l.key = es[i].key, Own(es, entered, open),
         es[h].section \in Sites /\ l.key = "server"
           => WasEntered(entered, es[h].section, l.val.text)
  PROVE  Own(ls, entered, StillOpen(open, es[h].section, l.key))
<1> DEFINE s == es[h].section
           left == StillOpen(open, s, l.key)
           N == Len(es)
<1> SUFFICES ASSUME NEW g \in 1 .. N, NEW j \in 1 .. N,
                    InSection(ls, g, j), ls[g].section \in Sites, ls[j].key = "server"
             PROVE  \/ WasEntered(entered, ls[g].section, ls[j].val.text)
                    \/ /\ ls[g].section \in left /\ Found(ls, g, j)
                       /\ ls[j].val.text = "http" /\ "dav" \in entered[ls[g].section]
  BY SMTT(30) DEF Own, ReplacesAt
<1>1. /\ N \in Nat /\ DOMAIN es = 1 .. N /\ ls[i] = l
      /\ \A m \in 1 .. N : m # i => ls[m] = es[m]
  BY DEF ReplacesAt
<1>2. \A m \in 1 .. N : IsHeader(ls[m]) <=> IsHeader(es[m])
  <2>1. ~IsHeader(es[i]) BY <1>1 DEF InSection
  <2> QED BY <1>1, <2>1
<1>3. g # i /\ ls[g] = es[g] BY <1>1 DEF InSection
<1>4. InSection(es, g, j)
  <2>1. \A m \in g + 1 .. j : m \in 1 .. N BY <1>1
  <2> QED BY <1>1, <1>2, <2>1 DEF InSection
<1>5. CASE j = i
  <2>1. g = h BY <1>1, <1>4, <1>5, OneSection
  <2> QED BY <1>1, <1>3, <1>5, <2>1
<1>6. CASE j # i
  <2>1. ls[j] = es[j] BY <1>1, <1>6
  <2>2. \/ WasEntered(entered, es[g].section, es[j].val.text)
        \/ /\ es[g].section \in open /\ Found(es, g, j)
           /\ es[j].val.text = "http" /\ "dav" \in entered[es[g].section]
    BY <1>1, <1>3, <1>4, <2>1 DEF Own
  <2>3. ASSUME Found(es, g, j), es[g].section \in open PROVE Found(ls, g, j)
    <3>1. ASSUME NEW m \in 1 .. g - 1 PROVE ls[m].section # ls[g].section
      <4>1. m \in 1 .. N BY <1>1
      <4>2. CASE m = i
        <5>1. ls[m].section = "none" /\ IsHeader(ls[g])
          BY <1>1, <1>2, <1>4, <4>2 DEF IsHeader, InSection
        <5> QED BY <5>1 DEF IsHeader
      <4>3. CASE m # i
        <5> QED BY <1>1, <1>3, <2>3, <4>1, <4>3 DEF Found
      <4> QED BY <4>2, <4>3
    <3>2. ASSUME NEW m \in g + 1 .. j - 1 PROVE ls[m].key # ls[j].key
      <4>1. m \in 1 .. N BY <1>1
      <4>2. ls[m].key = es[m].key BY <1>1, <4>1
      <4> QED BY <2>1, <2>3, <4>2 DEF Found
    <3> QED BY <3>1, <3>2 DEF Found
  <2>4. ASSUME Found(es, g, j), es[g].section \in open PROVE es[g].section \in left
    <3> SUFFICES ASSUME l.key = "server", es[g].section = s PROVE FALSE
      BY <2>4 DEF StillOpen
    <3>1. g = h
      <4>1. ~ (g < h)
        <5> SUFFICES ASSUME g < h PROVE FALSE OBVIOUS
        <5>1. g \in 1 .. h - 1 BY <1>1
        <5> QED BY <5>1 DEF Found
      <4>2. ~ (h < g)
        <5> SUFFICES ASSUME h < g PROVE FALSE OBVIOUS
        <5>1. h \in 1 .. g - 1 BY <1>1
        <5> QED BY <2>4, <5>1 DEF Found
      <4> QED BY <1>1, <4>1, <4>2
    <3>2. CASE i < j
      <4>1. i \in g + 1 .. j - 1 BY <1>1, <3>1, <3>2 DEF InSection
      <4> QED BY <2>1, <2>4, <4>1 DEF Found
    <3>3. CASE j < i
      <4>1. j \in h + 1 .. i - 1 BY <1>1, <1>4, <3>1, <3>3 DEF InSection
      <4> QED BY <2>1, <4>1 DEF Found
    <3> QED BY <1>1, <1>6, <3>2, <3>3
  <2> QED BY <1>3, <2>1, <2>2, <2>3, <2>4
<1> QED BY <1>5, <1>6

\* Where the lines behind a new one at h + 1 come from.
LEMMA InsertedLines ==
  ASSUME NEW es \in Seq(Lines), NEW ls \in Seq(Lines), NEW h \in 1 .. Len(es), NEW l,
         InsertsBehind(es, h, ls, l)
  PROVE  /\ \A m \in 1 .. h : ls[m] = es[m]
         /\ ls[h + 1] = l
         /\ \A m \in h + 2 .. Len(es) + 1 : ls[m] = es[m - 1] /\ m - 1 \in h + 1 .. Len(es)
<1> SUFFICES ASSUME NEW m \in h + 2 .. Len(es) + 1
             PROVE  ls[m] = es[m - 1] /\ m - 1 \in h + 1 .. Len(es)
  BY DEF InsertsBehind
<1>1. m - 1 \in h + 1 .. Len(es) /\ (m - 1) + 1 = m OBVIOUS
<1> QED BY <1>1 DEF InsertsBehind

LEMMA OwnInserted ==
  ASSUME NEW es \in Seq(Lines), NEW ls \in Seq(Lines), NEW entered, NEW open,
         NEW h \in 1 .. Len(es), NEW l, IsHeader(es[h]),
         \A j \in 1 .. h - 1 : es[j].section # es[h].section,
         \A j \in h + 1 .. Len(es) :
            (\A m \in h + 1 .. j : ~IsHeader(es[m])) => es[j].key # l.key,
         InsertsBehind(es, h, ls, l), l \in Lines, ~IsHeader(l), Own(es, entered, open),
         es[h].section \in Sites /\ l.key = "server"
           => WasEntered(entered, es[h].section, l.val.text)
  PROVE  Own(ls, entered, StillOpen(open, es[h].section, l.key))
<1> DEFINE s == es[h].section
           left == StillOpen(open, s, l.key)
           N == Len(es)
<1> SUFFICES ASSUME NEW g \in 1 .. N + 1, NEW j \in 1 .. N + 1,
                    InSection(ls, g, j), ls[g].section \in Sites, ls[j].key = "server"
             PROVE  \/ WasEntered(entered, ls[g].section, ls[j].val.text)
                    \/ /\ ls[g].section \in left /\ Found(ls, g, j)
                       /\ ls[j].val.text = "http" /\ "dav" \in entered[ls[g].section]
  BY DEF Own, InsertsBehind
<1>1. N \in Nat /\ DOMAIN es = 1 .. N OBVIOUS
<1>2. /\ \A m \in 1 .. h : ls[m] = es[m]
      /\ ls[h + 1] = l
      /\ \A m \in h + 2 .. N + 1 : ls[m] = es[m - 1] /\ m - 1 \in h + 1 .. N
  BY InsertedLines
<1>3. \A m \in 1 .. N + 1 : m \in 1 .. h \/ m = h + 1 \/ m \in h + 2 .. N + 1 BY <1>1
<1>4. g # h + 1 /\ g < j /\ IsHeader(ls[g]) BY <1>2 DEF InSection
<1>5. ~ (g < h /\ h < j)
  <2> SUFFICES ASSUME g < h, h < j PROVE FALSE OBVIOUS
  <2>1. h \in g + 1 .. j /\ h \in 1 .. h BY <1>1
  <2> QED BY <1>2, <2>1 DEF InSection
\* Own of the lines there were.
<1>6. ASSUME NEW a \in 1 .. N, NEW b \in 1 .. N, InSection(es, a, b),
             ls[g] = es[a], ls[j] = es[b]
      PROVE  \/ WasEntered(entered, ls[g].section, ls[j].val.text)
             \/ /\ ls[g].section \in open /\ Found(es, a, b)
                /\ ls[j].val.text = "http" /\ "dav" \in entered[ls[g].section]
  BY <1>1, <1>6 DEF Own
<1>7. CASE j \in 1 .. h
  <2>1. g \in 1 .. h /\ g < h BY <1>1, <1>4, <1>7
  <2>2. ls[g] = es[g] /\ ls[j] = es[j] /\ g \in 1 .. N /\ j \in 1 .. N BY <1>1, <1>2, <1>7, <2>1
  <2>3. InSection(es, g, j)
    <3>1. \A m \in g + 1 .. j : m \in 1 .. h BY <1>1, <1>7
    <3> QED BY <1>2, <2>2, <3>1 DEF InSection
  <2>4. ASSUME Found(es, g, j) PROVE Found(ls, g, j)
    <3>1. \A m \in 1 .. g - 1 : m \in 1 .. h BY <2>1
    <3>2. \A m \in g + 1 .. j - 1 : m \in 1 .. h BY <1>7, <2>1
    <3> QED BY <1>2, <2>2, <2>4, <3>1, <3>2 DEF Found
  <2>5. ls[g].section # s
    <3>1. g \in 1 .. h - 1 BY <2>1
    <3> QED BY <2>2, <3>1
  <2> QED BY <1>6, <2>2, <2>3, <2>4, <2>5 DEF StillOpen
<1>8. CASE j = h + 1
  <2>1. g = h BY <1>1, <1>4, <1>5, <1>8
  <2>2. ls[g] = es[h] /\ ls[j] = l BY <1>2, <1>8, <2>1
  <2> QED BY <2>2
<1>9. CASE j \in h + 2 .. N + 1 /\ g \in 1 .. h
  <2>1. g = h BY <1>1, <1>4, <1>5, <1>9
  <2>2. ls[g] = es[h] /\ ls[j] = es[j - 1] /\ j - 1 \in h + 1 .. N /\ j - 1 \in 1 .. N
    BY <1>1, <1>2, <1>9, <2>1
  <2>3. \A m \in h + 1 .. j - 1 : ~IsHeader(es[m])
    <3> SUFFICES ASSUME NEW m \in h + 1 .. j - 1 PROVE ~IsHeader(es[m]) OBVIOUS
    <3>1. m + 1 \in h + 2 .. N + 1 /\ (m + 1) - 1 = m /\ m + 1 \in g + 1 .. j
      BY <1>1, <1>9, <2>1
    <3>2. ls[m + 1] = es[m] BY <1>2, <3>1
    <3> QED BY <3>1, <3>2 DEF InSection
  <2>4. InSection(es, h, j - 1) BY <1>1, <1>9, <2>2, <2>3 DEF InSection
  <2>5. l.key # "server" BY <2>2, <2>3
  <2>6. ASSUME Found(es, h, j - 1) PROVE Found(ls, g, j)
    <3>1. ASSUME NEW m \in 1 .. h - 1 PROVE ls[m].section # ls[g].section
      <4>1. m \in 1 .. h OBVIOUS
      <4> QED BY <1>2, <2>2, <4>1
    <3>2. ASSUME NEW m \in h + 1 .. j - 1 PROVE ls[m].key # ls[j].key
      <4>1. CASE m = h + 1 BY <1>2, <2>5, <4>1
      <4>2. CASE m # h + 1
        <5>1. m \in h + 2 .. N + 1 /\ m - 1 \in h + 1 .. (j - 1) - 1 BY <1>1, <1>9, <4>2, SMTT(30)
        <5>2. ls[m] = es[m - 1] BY <1>2, <5>1
        <5> QED BY <2>2, <2>6, <5>1, <5>2 DEF Found
      <4> QED BY <4>1, <4>2
    <3> QED BY <2>1, <3>1, <3>2 DEF Found
  <2> QED BY <1>6, <2>2, <2>4, <2>5, <2>6 DEF StillOpen
<1>10. CASE j \in h + 2 .. N + 1 /\ g \in h + 2 .. N + 1
  <2>1. /\ ls[g] = es[g - 1] /\ ls[j] = es[j - 1]
        /\ g - 1 \in h + 1 .. N /\ j - 1 \in h + 1 .. N /\ g - 1 \in 1 .. N /\ j - 1 \in 1 .. N
    BY <1>1, <1>2, <1>10, SMTT(30)
  <2>2. InSection(es, g - 1, j - 1)
    <3>1. ASSUME NEW m \in (g - 1) + 1 .. j - 1 PROVE ~IsHeader(es[m])
      <4>1. m + 1 \in h + 2 .. N + 1 /\ (m + 1) - 1 = m /\ m + 1 \in g + 1 .. j
        BY <1>1, <1>10
      <4>2. ls[m + 1] = es[m] BY <1>2, <4>1
      <4> QED BY <4>1, <4>2 DEF InSection
    <3>2. g - 1 < j - 1 BY <1>1, <1>4, <1>10
    <3> QED BY <1>4, <2>1, <3>1, <3>2 DEF InSection
  <2>3. ASSUME Found(es, g - 1, j - 1) PROVE Found(ls, g, j) /\ ls[g].section # s
    <3>1. ls[g].section # s
      <4>1. h \in 1 .. (g - 1) - 1 BY <1>1, <1>10
      <4> QED BY <2>1, <2>3, <4>1 DEF Found
    <3>2. ASSUME NEW m \in 1 .. g - 1 PROVE ls[m].section # ls[g].section
      <4>1. CASE m \in 1 .. h
        <5>1. m \in 1 .. (g - 1) - 1 BY <1>1, <1>10, <4>1
        <5> QED BY <1>2, <2>1, <2>3, <4>1, <5>1 DEF Found
      <4>2. CASE m = h + 1
        BY <1>2, <1>4, <4>2 DEF IsHeader
      <4>3. CASE m \in h + 2 .. N + 1
        <5>1. m - 1 \in 1 .. (g - 1) - 1 BY <1>1, <1>10, <4>3
        <5> QED BY <1>2, <2>1, <2>3, <4>3, <5>1 DEF Found
      <4>4. m \in 1 .. N + 1 BY <1>1
      <4> QED BY <1>3, <4>1, <4>2, <4>3, <4>4
    <3>3. ASSUME NEW m \in g + 1 .. j - 1 PROVE ls[m].key # ls[j].key
      <4>1. m \in h + 2 .. N + 1 /\ m - 1 \in (g - 1) + 1 .. (j - 1) - 1 BY <1>1, <1>10
      <4> QED BY <1>2, <2>1, <2>3, <4>1 DEF Found
    <3> QED BY <3>1, <3>2, <3>3 DEF Found
  <2> QED BY <1>6, <2>1, <2>2, <2>3 DEF StillOpen
<1>11. ~ (j \in h + 2 .. N + 1 /\ g = h + 1) BY <1>4
<1> QED BY <1>3, <1>7, <1>8, <1>9, <1>10, <1>11

LEMMA OwnAdded ==
  ASSUME NEW es \in Seq(Lines), NEW ls \in Seq(Lines), NEW entered, NEW open,
         NEW n \in 0 .. Len(es), NEW s \in Sections, NEW l,
         \A j \in 1 .. Len(es) : es[j].section # s,
         AddsBehind(es, n, ls, s, l), ~IsHeader(l), Own(es, entered, open),
         s \in Sites /\ l.key = "server" => WasEntered(entered, s, l.val.text)
  PROVE  Own(ls, entered, StillOpen(open, s, l.key))
<1> DEFINE left == StillOpen(open, s, l.key)
           N == Len(es)
<1> SUFFICES ASSUME NEW g \in 1 .. n + 2, NEW j \in 1 .. n + 2,
                    InSection(ls, g, j), ls[g].section \in Sites, ls[j].key = "server"
             PROVE  \/ WasEntered(entered, ls[g].section, ls[j].val.text)
                    \/ /\ ls[g].section \in left /\ Found(ls, g, j)
                       /\ ls[j].val.text = "http" /\ "dav" \in entered[ls[g].section]
  BY DEF Own, AddsBehind
<1>1. N \in Nat /\ DOMAIN es = 1 .. N /\ n \in Nat /\ n <= N OBVIOUS
<1>2. /\ \A m \in 1 .. n : ls[m] = es[m]
      /\ ls[n + 1] = Header(s) /\ ls[n + 2] = l
  BY DEF AddsBehind
<1>3. IsHeader(ls[n + 1]) /\ ls[n + 1].section = s /\ ls[n + 1].key = "none"
  BY <1>2, HeaderIsLine
<1>4. CASE j \in 1 .. n
  <2>1. g < j /\ g \in 1 .. n BY <1>1, <1>4 DEF InSection
  <2>2. ls[g] = es[g] /\ ls[j] = es[j] /\ g \in 1 .. N /\ j \in 1 .. N BY <1>1, <1>2, <1>4, <2>1
  <2>3. InSection(es, g, j)
    <3>1. \A m \in g + 1 .. j : m \in 1 .. n BY <1>1, <1>4
    <3> QED BY <1>2, <2>2, <3>1 DEF InSection
  <2>4. ASSUME Found(es, g, j) PROVE Found(ls, g, j)
    <3>1. \A m \in 1 .. g - 1 : m \in 1 .. n BY <1>1, <2>1
    <3>2. \A m \in g + 1 .. j - 1 : m \in 1 .. n BY <1>1, <1>4
    <3> QED BY <1>2, <2>2, <2>4, <3>1, <3>2 DEF Found
  <2>5. es[g].section # s BY <2>2
  <2>6. \/ WasEntered(entered, es[g].section, es[j].val.text)
        \/ /\ es[g].section \in open /\ Found(es, g, j)
           /\ es[j].val.text = "http" /\ "dav" \in entered[es[g].section]
    BY <1>1, <2>2, <2>3 DEF Own
  <2> QED BY <2>2, <2>4, <2>5, <2>6 DEF StillOpen
<1>5. CASE j = n + 2
  <2>1. ~ (g < n + 1)
    <3> SUFFICES ASSUME g < n + 1 PROVE FALSE OBVIOUS
    <3>1. n + 1 \in g + 1 .. j BY <1>1, <1>5
    <3> QED BY <1>3, <3>1 DEF InSection
  <2>2. g = n + 1 BY <1>1, <1>5, <2>1 DEF InSection
  <2> QED BY <1>2, <1>3, <1>5, <2>2
<1>6. j # n + 1 BY <1>3
<1> QED BY <1>1, <1>4, <1>5, <1>6

LEMMA OwnWrite ==
  ASSUME NEW list \in IniLists, NEW w \in Puts, NEW entered, NEW open,
         Own(list.entries, entered, open),
         w.section \in Sites /\ w.key = "server" => WasEntered(entered, w.section, w.val.text)
  PROVE  Own(WritePut(list, w).entries, entered, StillOpen(open, w.section, w.key))
<1> DEFINE es == list.entries
           N == Len(es)
           r == WritePut(list, w)
           ls == r.entries
<1>1. es \in Seq(Lines) /\ list.cur \in 0 .. N BY DEF IniLists
<1>2. r \in IniLists BY PutCases
<1> HIDE DEF r
<1>3. ls \in Seq(Lines) BY <1>2 DEF IniLists
<1>4. PICK l : WrittenFor(l, w)
                 /\ \/ \E h, i \in 1 .. N : Replacing(list, r, w, h, i, l)
                    \/ \E h \in 1 .. N : Inserting(list, r, w, h, l)
                    \/ Adding(list, r, w, l)
  BY PutCases DEF r
<1>5. l \in Lines /\ ~IsHeader(l) /\ l.key = w.key /\ l.val.text = w.val.text
  BY <1>4 DEF WrittenFor
<1> HIDE DEF es, ls
<1>6. ASSUME NEW h \in 1 .. N, NEW i \in 1 .. N, Replacing(list, r, w, h, i, l)
      PROVE  Own(ls, entered, StillOpen(open, w.section, w.key))
  <2>1. /\ InSection(es, h, i) /\ Found(es, h, i)
        /\ es[h].section = w.section /\ es[i].key = w.key /\ ReplacesAt(es, i, ls, l)
    BY <1>6 DEF Replacing, es, ls
  <2>2. Own(es, entered, open) BY DEF es
  <2>3. Own(ls, entered, StillOpen(open, es[h].section, l.key))
    BY <1>1, <1>3, <1>5, <2>1, <2>2, OwnReplaced
  <2> QED BY <1>5, <2>1, <2>3
<1>7. ASSUME NEW h \in 1 .. N, Inserting(list, r, w, h, l)
      PROVE  Own(ls, entered, StillOpen(open, w.section, w.key))
  <2>1. /\ IsHeader(es[h]) /\ es[h].section = w.section
        /\ \A j \in 1 .. h - 1 : es[j].section # es[h].section
        /\ \A j \in h + 1 .. N :
              (\A m \in h + 1 .. j : ~IsHeader(es[m])) => es[j].key # l.key
        /\ InsertsBehind(es, h, ls, l)
    BY <1>5, <1>7 DEF Inserting, es, ls
  <2>2. Own(es, entered, open) BY DEF es
  <2>3. Own(ls, entered, StillOpen(open, es[h].section, l.key))
    BY <1>1, <1>3, <1>5, <2>1, <2>2, OwnInserted
  <2> QED BY <1>5, <2>1, <2>3
<1>8. ASSUME Adding(list, r, w, l)
      PROVE  Own(ls, entered, StillOpen(open, w.section, w.key))
  <2>1. /\ \A j \in 1 .. N : es[j].section # w.section
        /\ AddsBehind(es, list.cur, ls, w.section, l)
    BY <1>8 DEF Adding, es, ls
  <2>2. Own(es, entered, open) /\ w.section \in Sections BY DEF es, Puts
  <2>3. Own(ls, entered, StillOpen(open, w.section, l.key))
    BY <1>1, <1>3, <1>5, <2>1, <2>2, OwnAdded
  <2> QED BY <1>5, <2>3
<1> QED BY <1>4, <1>6, <1>7, <1>8 DEF r, ls

-----------------------------------------------------------------------------
(* The version stays in the file.                                           *)

\* A value of [Global] has no brackets, and its version is the one of this release.
Harmless(w) ==
  w.section = "Global" =>
    /\ ~Shows(w.val, "brackets")
    /\ w.key = "config_version" => w.val.text = "1" /\ w.val.mark # "half"

LEMMA VersionedWrite ==
  ASSUME NEW list \in IniLists, NEW w \in Puts, Harmless(w),
         Versioned(list.entries, list.cur)
  PROVE  Versioned(WritePut(list, w).entries, WritePut(list, w).cur)
<1> DEFINE es == list.entries
           n == list.cur
           N == Len(es)
           r == WritePut(list, w)
           ls == r.entries
<1>1. es \in Seq(Lines) /\ n \in 0 .. N /\ N \in Nat BY DEF IniLists
<1>2. r \in IniLists BY PutCases
<1>3. PICK p \in 1 .. n, q \in 1 .. n : VersionAt(es, p, q) BY DEF Versioned, VersionAt
<1> HIDE DEF r
<1>4. ls \in Seq(Lines) BY <1>2 DEF IniLists
<1>5. PICK l : WrittenFor(l, w)
                 /\ \/ \E h, i \in 1 .. N : Replacing(list, r, w, h, i, l)
                    \/ \E h \in 1 .. N : Inserting(list, r, w, h, l)
                    \/ Adding(list, r, w, l)
  BY PutCases DEF r
<1>6. /\ l \in Lines /\ ~IsHeader(l) /\ l.section = "none" /\ l.key = w.key
      /\ l.val.text = w.val.text /\ (l.val.mark = "half" => w.val.mark = "half")
      /\ (Shows(l.val, "brackets") => Shows(w.val, "brackets"))
  BY <1>5 DEF WrittenFor, IsHeader
<1> HIDE DEF es, ls, n
<1>7. /\ p \in 1 .. N /\ q \in 1 .. N /\ p < q /\ IsHeader(es[p]) /\ es[p].section = "Global"
      /\ \A j \in 1 .. p - 1 : es[j].section # "Global" /\ es[j].section \notin Sites
      /\ \A j \in p + 1 .. q : ~IsHeader(es[j]) /\ ~Shows(es[j].val, "brackets")
      /\ \A j \in p + 1 .. q - 1 : es[j].key # "config_version"
      /\ es[q].key = "config_version" /\ es[q].val.text = "1" /\ es[q].val.mark # "half"
  <2>1. /\ DatedAt(es, p, q) /\ \A j \in 1 .. p - 1 : es[j].section \notin Sites
        /\ \A j \in p + 1 .. q : ~Shows(es[j].val, "brackets")
    BY <1>3, Zenon DEF VersionAt
  <2>2. /\ InSection(es, p, q) /\ Found(es, p, q) /\ es[p].section = "Global"
        /\ es[q].key = "config_version" /\ es[q].val.text = "1" /\ es[q].val.mark # "half"
    BY <2>1, Zenon DEF DatedAt
  <2>3. p < q /\ IsHeader(es[p]) /\ \A j \in p + 1 .. q : ~IsHeader(es[j])
    BY <2>2, Zenon DEF InSection
  <2>4. /\ \A j \in 1 .. p - 1 : es[j].section # "Global"
        /\ \A j \in p + 1 .. q - 1 : es[j].key # "config_version"
    BY <2>2, Zenon DEF Found
  <2>5. p \in 1 .. N /\ q \in 1 .. N BY <1>1, <1>3
  <2> QED BY <2>1, <2>2, <2>3, <2>4, <2>5, Zenon
<1>8. "none" \notin Sites \cup {"Global"} BY NamesDiffer
\* What is to be shown, for the new places of the header and of the version.
<1>9. ASSUME NEW a \in Nat, NEW b \in Nat, 1 <= a, a < b, b <= r.cur,
             ls[a] = es[p], ls[b].key = "config_version", ls[b].val.text = "1",
             ls[b].val.mark # "half",
             \A j \in 1 .. a - 1 : ls[j].section # "Global" /\ ls[j].section \notin Sites,
             \A j \in a + 1 .. b : ~IsHeader(ls[j]) /\ ~Shows(ls[j].val, "brackets"),
             \A j \in a + 1 .. b - 1 : ls[j].key # "config_version"
      PROVE  Versioned(ls, r.cur)
  <2>1. r.cur \in Nat BY <1>2 DEF IniLists
  <2>2. a \in 1 .. r.cur /\ b \in 1 .. r.cur BY <1>9, <2>1
  <2>3. InSection(ls, a, b) /\ Found(ls, a, b) BY <1>7, <1>9 DEF InSection, Found
  <2>4. DatedAt(ls, a, b) BY <1>7, <1>9, <2>3 DEF DatedAt
  <2>5. VersionAt(ls, a, b) BY <1>9, <2>4 DEF VersionAt
  <2> QED BY <2>2, <2>5 DEF Versioned
<1>10. ASSUME NEW h \in 1 .. N, NEW i \in 1 .. N, Replacing(list, r, w, h, i, l)
       PROVE  Versioned(ls, r.cur)
  <2>1. /\ InSection(es, h, i) /\ es[h].section = w.section /\ es[i].key = w.key
        /\ ls[i] = l /\ r.cur = n
        /\ \A j \in 1 .. N : j # i => ls[j] = es[j]
    BY <1>10 DEF Replacing, ReplacesAt, es, ls, n
  <2>2. i # p
    <3>1. h < i /\ \A j \in h + 1 .. i : ~IsHeader(es[j]) BY <2>1, Zenon DEF InSection
    <3>2. h \in Nat /\ i \in Nat BY <1>1
    <3>3. i \in h + 1 .. i BY <3>1, <3>2
    <3> QED BY <1>7, <3>1, <3>3, Zenon
  <2>3. i \in p + 1 .. q => w.section = "Global"
    <3> SUFFICES ASSUME i \in p + 1 .. q PROVE w.section = "Global" OBVIOUS
    <3>1. InSection(es, p, i) BY <1>1, <1>7 DEF InSection
    <3>2. h = p BY <1>1, <2>1, <3>1, OneSection
    <3> QED BY <1>7, <2>1, <3>2
  <2>4. ls[p] = es[p] BY <1>7, <2>1, <2>2
  <2>5. ls[q].key = "config_version" /\ ls[q].val.text = "1" /\ ls[q].val.mark # "half"
    <3>1. CASE q = i
      <4>1. w.section = "Global" /\ w.key = "config_version" BY <1>1, <1>7, <2>1, <2>3, <3>1
      <4> QED BY <1>6, <2>1, <3>1, <4>1 DEF Harmless
    <3>2. CASE q # i BY <1>7, <2>1, <3>2
    <3> QED BY <3>1, <3>2
  <2>6. ASSUME NEW j \in 1 .. p - 1
        PROVE  ls[j].section # "Global" /\ ls[j].section \notin Sites
    <3>1. j \in 1 .. N BY <1>1, <1>7
    <3> QED BY <1>6, <1>7, <1>8, <2>1, <3>1
  <2>7. ASSUME NEW j \in p + 1 .. q PROVE ~IsHeader(ls[j]) /\ ~Shows(ls[j].val, "brackets")
    <3>1. j \in 1 .. N BY <1>1, <1>7
    <3>2. CASE j = i BY <1>6, <2>1, <2>3, <3>2 DEF Harmless
    <3>3. CASE j # i BY <1>7, <2>1, <3>1, <3>3
    <3> QED BY <3>2, <3>3
  <2>8. ASSUME NEW j \in p + 1 .. q - 1 PROVE ls[j].key # "config_version"
    <3>1. j \in 1 .. N BY <1>1, <1>7
    <3>2. ls[j].key = es[j].key BY <1>6, <2>1, <3>1
    <3> QED BY <1>7, <3>2
  <2> QED BY <1>1, <1>7, <1>9, <2>1, <2>4, <2>5, <2>6, <2>7, <2>8
<1>11. ASSUME NEW h \in 1 .. N, Inserting(list, r, w, h, l)
       PROVE  Versioned(ls, r.cur)
  <2>1. /\ IsHeader(es[h]) /\ es[h].section = w.section
        /\ \A j \in h + 1 .. N :
              (\A m \in h + 1 .. j : ~IsHeader(es[m])) => es[j].key # w.key
        /\ InsertsBehind(es, h, ls, l)
        /\ r.cur = IF n > h THEN n + 1 ELSE n
    BY <1>11 DEF Inserting, es, ls, n
  <2>2. /\ \A m \in 1 .. h : ls[m] = es[m]
        /\ ls[h + 1] = l
        /\ \A m \in h + 2 .. N + 1 : ls[m] = es[m - 1] /\ m - 1 \in h + 1 .. N
    BY <1>1, <1>4, <2>1, InsertedLines
  <2>3. h \notin p + 1 .. q BY <1>7, <2>1
  <2>4. CASE h = p
    <3>1. w.section = "Global" BY <1>7, <2>1, <2>4
    <3>2. w.key # "config_version"
      <4>1. q \in h + 1 .. N /\ \A m \in h + 1 .. q : ~IsHeader(es[m]) BY <1>1, <1>7, <2>4
      <4> QED BY <1>7, <2>1, <4>1
    <3>3. q + 1 \in h + 2 .. N + 1 /\ (q + 1) - 1 = q /\ q + 1 <= r.cur
      BY <1>1, <1>7, <2>1, <2>4
    <3>4. ls[q + 1] = es[q] BY <2>2, <3>3
    <3>5. ls[p] = es[p] BY <1>1, <2>2, <2>4
    <3>6. ASSUME NEW j \in 1 .. p - 1
          PROVE  ls[j].section # "Global" /\ ls[j].section \notin Sites
      <4>1. j \in 1 .. h BY <1>1, <2>4
      <4> QED BY <1>7, <2>2, <4>1
    <3>7. ASSUME NEW j \in p + 1 .. q + 1
          PROVE  /\ ~IsHeader(ls[j]) /\ ~Shows(ls[j].val, "brackets")
                 /\ j # q + 1 => ls[j].key # "config_version"
      <4>1. CASE j = h + 1 BY <1>6, <2>2, <3>1, <3>2, <4>1 DEF Harmless
      <4>2. CASE j # h + 1
        <5>1. /\ j \in h + 2 .. N + 1 /\ j - 1 \in p + 1 .. q
              /\ (j # q + 1 => j - 1 \in p + 1 .. q - 1)
          BY <1>1, <1>7, <2>4, <4>2
        <5>2. ls[j] = es[j - 1] BY <2>2, <5>1
        <5> QED BY <1>7, <5>1, <5>2
      <4> QED BY <4>1, <4>2
    <3>8. \A j \in p + 1 .. (q + 1) - 1 : j \in p + 1 .. q + 1 /\ j # q + 1 BY <1>1
    <3>9. q + 1 \in Nat /\ p \in Nat /\ 1 <= p /\ p < q + 1 BY <1>1, <1>7
    <3> QED BY <1>7, <1>9, <3>3, <3>4, <3>5, <3>6, <3>7, <3>8, <3>9
  <2>5. CASE h < p
    <3>1. /\ p + 1 \in h + 2 .. N + 1 /\ (p + 1) - 1 = p
          /\ q + 1 \in h + 2 .. N + 1 /\ (q + 1) - 1 = q /\ q + 1 <= r.cur
      BY <1>1, <1>7, <2>1, <2>5, SMTT(30)
    <3>2. ls[p + 1] = es[p] /\ ls[q + 1] = es[q] BY <2>2, <3>1
    <3>3. ASSUME NEW j \in 1 .. (p + 1) - 1
          PROVE  ls[j].section # "Global" /\ ls[j].section \notin Sites
      <4>1. CASE j <= h
        <5>1. j \in 1 .. h /\ j \in 1 .. p - 1 BY <1>1, <2>5, <4>1
        <5> QED BY <1>7, <2>2, <5>1
      <4>2. CASE j = h + 1 BY <1>6, <1>8, <2>2, <4>2
      <4>3. CASE j > h + 1
        <5>1. j \in h + 2 .. N + 1 /\ j - 1 \in 1 .. p - 1 BY <1>1, <1>7, <4>3
        <5> QED BY <1>7, <2>2, <5>1
      <4> QED BY <1>1, <4>1, <4>2, <4>3
    <3>4. ASSUME NEW j \in (p + 1) + 1 .. q + 1
          PROVE  /\ ~IsHeader(ls[j]) /\ ~Shows(ls[j].val, "brackets")
                 /\ j # q + 1 => ls[j].key # "config_version"
      <4>1. /\ j \in h + 2 .. N + 1 /\ j - 1 \in p + 1 .. q
            /\ (j # q + 1 => j - 1 \in p + 1 .. q - 1)
        BY <1>1, <1>7, <2>5, SMTT(30)
      <4>2. ls[j] = es[j - 1] BY <2>2, <4>1
      <4> QED BY <1>7, <4>1, <4>2
    <3>5. \A j \in (p + 1) + 1 .. (q + 1) - 1 : j \in (p + 1) + 1 .. q + 1 /\ j # q + 1
      BY <1>1
    <3>6. q + 1 \in Nat /\ p + 1 \in Nat /\ 1 <= p + 1 /\ p + 1 < q + 1 BY <1>1, <1>7
    <3> QED BY <1>7, <1>9, <3>1, <3>2, <3>3, <3>4, <3>5, <3>6
  <2>6. CASE h > q
    <3>1. \A j \in 1 .. q : ls[j] = es[j] BY <1>1, <2>2, <2>6
    <3>2. \A j \in 1 .. p - 1 : j \in 1 .. q BY <1>1, <1>7
    <3>3. \A j \in p + 1 .. q : j \in 1 .. q BY <1>1, <1>7
    <3>4. \A j \in p + 1 .. q - 1 : j \in 1 .. q BY <1>1, <1>7
    <3>5. q \in Nat /\ p \in Nat /\ 1 <= p /\ p < q /\ q <= r.cur /\ p \in 1 .. q /\ q \in 1 .. q
      BY <1>1, <1>7, <2>1
    <3> QED BY <1>7, <1>9, <3>1, <3>2, <3>3, <3>4, <3>5
  <2> QED BY <1>1, <1>7, <2>3, <2>4, <2>5, <2>6
<1>12. ASSUME Adding(list, r, w, l)
       PROVE  Versioned(ls, r.cur)
  <2>1. r.cur = n + 2 /\ \A j \in 1 .. n : ls[j] = es[j]
    BY <1>12 DEF Adding, AddsBehind, es, ls, n
  <2>2. \A j \in 1 .. q : ls[j] = es[j] BY <1>1, <2>1
  <2>3. \A j \in 1 .. p - 1 : j \in 1 .. q BY <1>1, <1>7
  <2>4. \A j \in p + 1 .. q : j \in 1 .. q BY <1>1, <1>7
  <2>5. \A j \in p + 1 .. q - 1 : j \in 1 .. q BY <1>1, <1>7
  <2>6. q \in Nat /\ p \in Nat /\ 1 <= p /\ p < q /\ q <= r.cur /\ p \in 1 .. q /\ q \in 1 .. q
    BY <1>1, <1>7, <2>1
  <2> QED BY <1>7, <1>9, <2>2, <2>3, <2>4, <2>5, <2>6
<1> QED BY <1>5, <1>10, <1>11, <1>12 DEF r, ls

\* No site comes before [Global], which is not the last line.
Led(es) ==
  /\ \A j \in 1 .. Len(es) : es[j].section \in Sites => \E p \in 1 .. j - 1 : es[p].section = "Global"
  /\ Len(es) # 0 => es[Len(es)].section # "Global"

IsVersion(w) ==
  /\ w.section = "Global" /\ w.key = "config_version"
  /\ w.val.text = "1" /\ w.val.mark = "whole"

LEMMA FirstWrite ==
  ASSUME NEW list \in IniLists, NEW w \in Puts, IsVersion(w),
         list.cur = Len(list.entries), Led(list.entries),
         \A j \in 1 .. Len(list.entries) : ~Shows(list.entries[j].val, "brackets")
  PROVE  Versioned(WritePut(list, w).entries, WritePut(list, w).cur)
<1> DEFINE es == list.entries
           N == Len(es)
           r == WritePut(list, w)
           ls == r.entries
<1>1. es \in Seq(Lines) /\ list.cur = N /\ N \in Nat BY DEF IniLists
<1>2. r \in IniLists BY PutCases
<1> HIDE DEF r
<1>3. ls \in Seq(Lines) /\ r.cur \in Nat BY <1>2 DEF IniLists
<1>4. PICK l : WrittenFor(l, w)
                 /\ \/ \E h, i \in 1 .. N : Replacing(list, r, w, h, i, l)
                    \/ \E h \in 1 .. N : Inserting(list, r, w, h, l)
                    \/ Adding(list, r, w, l)
  BY PutCases DEF r
<1>5. /\ ~IsHeader(l) /\ l.section = "none" /\ l.key = "config_version"
      /\ l.val.text = "1" /\ l.val.mark # "half" /\ ~Shows(l.val, "brackets")
  BY <1>4 DEF WrittenFor, IsVersion, IsHeader, Shows
<1>6. w.section = "Global" /\ w.key = "config_version" BY DEF IsVersion
<1>7. Led(es) /\ \A j \in 1 .. N : ~Shows(es[j].val, "brackets") OBVIOUS
<1> HIDE DEF es, ls
<1>8. "none" \notin Sites \cup {"Global"} /\ "Global" \notin Sites /\ "Global" # "none"
  BY NamesDiffer
<1>9. ASSUME NEW h \in 1 .. N, NEW i \in 1 .. N, Replacing(list, r, w, h, i, l)
      PROVE  Versioned(ls, r.cur)
  <2>1. /\ InSection(es, h, i) /\ Found(es, h, i)
        /\ es[h].section = "Global" /\ es[i].key = "config_version"
        /\ ls[i] = l /\ r.cur = N
        /\ \A j \in 1 .. N : j # i => ls[j] = es[j]
    BY <1>1, <1>6, <1>9 DEF Replacing, ReplacesAt, es, ls
  <2>2. h < i /\ IsHeader(es[h]) /\ ls[h] = es[h] BY <1>1, <2>1 DEF InSection
  <2>3. ASSUME NEW j \in 1 .. h - 1
        PROVE  ls[j].section # ls[h].section /\ ls[j].section \notin Sites
    <3>1. j \in 1 .. N /\ j # i BY <1>1, <2>2
    <3>2. ls[j] = es[j] /\ es[j].section # "Global" BY <2>1, <3>1 DEF Found
    <3>3. es[j].section \notin Sites
      <4> SUFFICES ASSUME es[j].section \in Sites PROVE FALSE OBVIOUS
      <4>1. PICK p \in 1 .. j - 1 : es[p].section = "Global" BY <1>7, <3>1 DEF Led
      <4>2. p \in 1 .. h - 1 BY <1>1
      <4> QED BY <2>1, <4>1, <4>2 DEF Found
    <3> QED BY <2>1, <2>2, <3>2, <3>3
  <2>4. ASSUME NEW j \in h + 1 .. i
        PROVE  ~IsHeader(ls[j]) /\ ~Shows(ls[j].val, "brackets")
    <3>1. j \in 1 .. N BY <1>1
    <3>2. CASE j = i BY <1>5, <2>1, <3>2
    <3>3. CASE j # i
      <4>1. ls[j] = es[j] BY <2>1, <3>1, <3>3
      <4> QED BY <1>7, <2>1, <3>1, <4>1 DEF InSection
    <3> QED BY <3>2, <3>3
  <2>5. ASSUME NEW j \in h + 1 .. i - 1 PROVE ls[j].key # ls[i].key
    <3>1. j \in 1 .. N /\ j # i BY <1>1
    <3> QED BY <1>5, <2>1, <3>1 DEF Found
  <2>6. InSection(ls, h, i) /\ Found(ls, h, i)
    BY <2>2, <2>3, <2>4, <2>5 DEF InSection, Found
  <2>7. VersionAt(ls, h, i) BY <1>5, <2>1, <2>2, <2>3, <2>4, <2>6 DEF VersionAt, DatedAt
  <2> QED BY <1>1, <2>1, <2>7 DEF Versioned
<1>10. ASSUME NEW h \in 1 .. N, Inserting(list, r, w, h, l)
       PROVE  Versioned(ls, r.cur)
  <2>1. /\ IsHeader(es[h]) /\ es[h].section = "Global"
        /\ \A j \in 1 .. h - 1 : es[j].section # es[h].section
        /\ InsertsBehind(es, h, ls, l)
        /\ r.cur = IF N > h THEN N + 1 ELSE N
    BY <1>1, <1>6, <1>10 DEF Inserting, es, ls
  <2>2. ls[h + 1] = l /\ \A j \in 1 .. h : ls[j] = es[j] BY <2>1 DEF InsertsBehind
  <2>3. h # N BY <1>1, <1>7, <2>1 DEF Led
  <2>4. h + 1 \in 1 .. r.cur /\ h \in 1 .. r.cur BY <1>1, <2>1, <2>3
  <2>5. ASSUME NEW j \in 1 .. h - 1
        PROVE  ls[j].section # ls[h].section /\ ls[j].section \notin Sites
    <3>1. j \in 1 .. N /\ j \in 1 .. h /\ h \in 1 .. h BY <1>1
    <3>2. ls[j] = es[j] /\ es[j].section # "Global" /\ ls[h] = es[h] BY <2>1, <2>2, <3>1
    <3>3. es[j].section \notin Sites
      <4> SUFFICES ASSUME es[j].section \in Sites PROVE FALSE OBVIOUS
      <4>1. PICK p \in 1 .. j - 1 : es[p].section = "Global" BY <1>7, <3>1 DEF Led
      <4>2. p \in 1 .. h - 1 BY <1>1
      <4> QED BY <2>1, <4>1, <4>2
    <3> QED BY <2>1, <3>2, <3>3
  <2>6. \A j \in h + 1 .. h + 1 : j = h + 1 BY <1>1
  <2>7. ls[h] = es[h] /\ h < h + 1 /\ \A j \in h + 1 .. (h + 1) - 1 : FALSE BY <1>1, <2>2
  <2>8. InSection(ls, h, h + 1) /\ Found(ls, h, h + 1)
    BY <1>5, <2>1, <2>2, <2>5, <2>6, <2>7 DEF InSection, Found
  <2>9. VersionAt(ls, h, h + 1)
    BY <1>5, <2>1, <2>2, <2>5, <2>6, <2>7, <2>8 DEF VersionAt, DatedAt
  <2> QED BY <2>4, <2>9 DEF Versioned
<1>11. ASSUME Adding(list, r, w, l)
       PROVE  Versioned(ls, r.cur)
  <2>1. /\ \A j \in 1 .. N : es[j].section # "Global" /\ ls[j] = es[j]
        /\ ls[N + 1] = Header("Global") /\ ls[N + 2] = l /\ r.cur = N + 2
    BY <1>1, <1>6, <1>11 DEF Adding, AddsBehind, es, ls
  <2>2. IsHeader(ls[N + 1]) /\ ls[N + 1].section = "Global"
    BY <1>8, <2>1 DEF Header, IsHeader
  <2>3. ASSUME NEW j \in 1 .. (N + 1) - 1
        PROVE  ls[j].section # ls[N + 1].section /\ ls[j].section \notin Sites
    <3>1. j \in 1 .. N BY <1>1
    <3>2. es[j].section \notin Sites
      <4> SUFFICES ASSUME es[j].section \in Sites PROVE FALSE OBVIOUS
      <4>1. PICK p \in 1 .. j - 1 : es[p].section = "Global" BY <1>7, <3>1 DEF Led
      <4>2. p \in 1 .. N BY <1>1
      <4> QED BY <2>1, <4>1, <4>2
    <3> QED BY <2>1, <2>2, <3>1, <3>2
  <2>4. /\ \A j \in (N + 1) + 1 .. N + 2 : j = N + 2
        /\ \A j \in (N + 1) + 1 .. (N + 2) - 1 : FALSE
        /\ N + 1 < N + 2 /\ N + 1 \in 1 .. r.cur /\ N + 2 \in 1 .. r.cur
    BY <1>1, <2>1
  <2>5. InSection(ls, N + 1, N + 2) /\ Found(ls, N + 1, N + 2)
    BY <1>5, <2>1, <2>2, <2>3, <2>4 DEF InSection, Found
  <2>6. VersionAt(ls, N + 1, N + 2)
    BY <1>5, <2>1, <2>2, <2>3, <2>4, <2>5 DEF VersionAt, DatedAt
  <2> QED BY <2>4, <2>6 DEF Versioned
<1> QED BY <1>4, <1>9, <1>10, <1>11 DEF r, ls

\* A version comes only from a write of one.
Dates(es) == \E p, q \in 1 .. Len(es) : DatedAt(es, p, q)

LEMMA DatedWrite ==
  ASSUME NEW list \in IniLists, NEW w \in Puts, Dates(WritePut(list, w).entries),
         ~ (w.section = "Global" /\ w.key = "config_version")
  PROVE  Dates(list.entries)
<1> DEFINE es == list.entries
           n == list.cur
           N == Len(es)
           r == WritePut(list, w)
           ls == r.entries
<1>1. es \in Seq(Lines) /\ n \in 0 .. N /\ N \in Nat BY DEF IniLists
<1>2. r \in IniLists BY PutCases
<1>3. PICK p \in 1 .. Len(ls), q \in 1 .. Len(ls) : DatedAt(ls, p, q) BY DEF Dates
<1> HIDE DEF r
<1>4. ls \in Seq(Lines) BY <1>2 DEF IniLists
<1>5. PICK l : WrittenFor(l, w)
                 /\ \/ \E h, i \in 1 .. N : Replacing(list, r, w, h, i, l)
                    \/ \E h \in 1 .. N : Inserting(list, r, w, h, l)
                    \/ Adding(list, r, w, l)
  BY PutCases DEF r
<1>6. ~IsHeader(l) /\ l.section = "none" /\ l.key = w.key
  BY <1>5 DEF WrittenFor, IsHeader
<1> HIDE DEF es, ls, n
<1>7. /\ p < q /\ IsHeader(ls[p]) /\ ls[p].section = "Global"
      /\ \A j \in 1 .. p - 1 : ls[j].section # "Global"
      /\ \A j \in p + 1 .. q : ~IsHeader(ls[j])
      /\ \A j \in p + 1 .. q - 1 : ls[j].key # "config_version"
      /\ ls[q].key = "config_version" /\ ls[q].val.text = "1" /\ ls[q].val.mark # "half"
  BY <1>1, <1>3 DEF DatedAt, InSection, Found
<1>8. p \in Nat /\ q \in Nat /\ 1 <= p OBVIOUS
<1>9. ASSUME NEW a \in 1 .. N, NEW b \in 1 .. N, a < b, es[a] = ls[p], es[b] = ls[q],
             \A j \in 1 .. a - 1 : es[j].section # "Global",
             \A j \in a + 1 .. b : ~IsHeader(es[j]),
             \A j \in a + 1 .. b - 1 : es[j].key # "config_version"
      PROVE  Dates(es)
  <2>1. DatedAt(es, a, b) BY <1>7, <1>9 DEF DatedAt, InSection, Found
  <2> QED BY <2>1 DEF Dates
<1>10. ASSUME NEW h \in 1 .. N, NEW i \in 1 .. N, Replacing(list, r, w, h, i, l)
       PROVE  Dates(es)
  <2>1. /\ InSection(es, h, i) /\ es[h].section = w.section /\ es[i].key = w.key
        /\ ls[i] = l /\ Len(ls) = N
        /\ \A j \in 1 .. N : j # i => ls[j] = es[j]
    BY <1>10 DEF Replacing, ReplacesAt, es, ls
  <2>2. p # i /\ p \in 1 .. N /\ q \in 1 .. N /\ ls[p] = es[p] BY <1>6, <1>7, <2>1
  <2>3. \A j \in 1 .. N : (IsHeader(es[j]) <=> IsHeader(ls[j])) /\ es[j].key = ls[j].key
    <3>1. ~IsHeader(es[i]) BY <1>1, <2>1 DEF InSection
    <3> QED BY <1>6, <2>1, <3>1
  <2>4. \A j \in p + 1 .. q : j \in 1 .. N /\ ~IsHeader(es[j]) BY <1>7, <1>8, <2>1, <2>3
  <2>5. q # i
    <3> SUFFICES ASSUME q = i PROVE FALSE OBVIOUS
    <3>1. InSection(es, p, i) BY <1>7, <2>2, <2>4 DEF InSection
    <3>2. h = p BY <1>8, <2>1, <3>1, OneSection
    <3> QED BY <1>6, <1>7, <2>1, <2>2, <3>2
  <2>6. \A j \in 1 .. p - 1 : es[j].section # "Global"
    <3> SUFFICES ASSUME NEW j \in 1 .. p - 1, es[j].section = "Global" PROVE FALSE OBVIOUS
    <3>1. j \in 1 .. N BY <1>8, <2>2
    <3>2. ls[j].section # "Global" /\ IsHeader(es[j]) BY <1>7, NamesDiffer DEF IsHeader
    <3>3. j # i BY <1>1, <2>1, <3>2 DEF InSection
    <3> QED BY <2>1, <3>1, <3>2, <3>3
  <2>7. \A j \in p + 1 .. q - 1 : es[j].key # "config_version"
    <3> SUFFICES ASSUME NEW j \in p + 1 .. q - 1 PROVE es[j].key # "config_version" OBVIOUS
    <3>1. j \in 1 .. N BY <1>8, <2>2
    <3> QED BY <1>7, <2>3, <3>1
  <2>8. es[q] = ls[q] BY <2>1, <2>2, <2>5
  <2> QED BY <1>7, <1>9, <2>2, <2>4, <2>6, <2>7, <2>8
<1>11. ASSUME NEW h \in 1 .. N, Inserting(list, r, w, h, l)
       PROVE  Dates(es)
  <2>1. /\ IsHeader(es[h]) /\ es[h].section = w.section
        /\ InsertsBehind(es, h, ls, l) /\ Len(ls) = N + 1
    BY <1>11 DEF Inserting, InsertsBehind, es, ls
  <2>2. /\ \A m \in 1 .. h : ls[m] = es[m]
        /\ ls[h + 1] = l
        /\ \A m \in h + 2 .. N + 1 : ls[m] = es[m - 1] /\ m - 1 \in h + 1 .. N
    BY <1>1, <1>4, <2>1, InsertedLines
  <2>3. \A m \in h + 1 .. N : es[m] = ls[m + 1]
    <3> SUFFICES ASSUME NEW m \in h + 1 .. N PROVE es[m] = ls[m + 1] OBVIOUS
    <3>1. m + 1 \in h + 2 .. N + 1 /\ (m + 1) - 1 = m BY <1>1
    <3> QED BY <2>2, <3>1
  <2>4. p # h + 1 BY <1>6, <1>7, <2>2
  <2>5. ~ (p < h /\ h < q)
    <3> SUFFICES ASSUME p < h, h < q PROVE FALSE OBVIOUS
    <3>1. h \in p + 1 .. q /\ h \in 1 .. h BY <1>8
    <3> QED BY <1>7, <2>1, <2>2, <3>1
  <2>6. q # h + 1
    <3> SUFFICES ASSUME q = h + 1 PROVE FALSE OBVIOUS
    <3>1. p = h BY <1>7, <1>8, <2>4, <2>5
    <3>2. ls[p] = es[h] BY <2>2, <3>1
    <3> QED BY <1>6, <1>7, <2>1, <2>2, <3>2
  <2>7. CASE q <= h
    <3>1. \A j \in 1 .. q : es[j] = ls[j] BY <1>8, <2>2, <2>7
    <3>2. p \in 1 .. q /\ q \in 1 .. q /\ p \in 1 .. N /\ q \in 1 .. N BY <1>1, <1>7, <1>8, <2>7
    <3>3. (\A j \in 1 .. p - 1 : j \in 1 .. q) /\ (\A j \in p + 1 .. q : j \in 1 .. q)
          /\ \A j \in p + 1 .. q - 1 : j \in 1 .. q
      BY <1>7, <1>8
    <3> QED BY <1>7, <1>9, <3>1, <3>2, <3>3
  <2>8. CASE q > h + 1 /\ p = h
    <3>1. q - 1 \in h + 1 .. N /\ q - 1 \in 1 .. N /\ p \in 1 .. N /\ p < q - 1 /\ (q - 1) + 1 = q
      BY <1>1, <1>8, <2>1, <2>8
    <3>2. es[p] = ls[p] /\ es[q - 1] = ls[q]
      <4>1. p \in 1 .. h BY <1>8, <2>8
      <4> QED BY <2>2, <2>3, <3>1, <4>1
    <3>3. ASSUME NEW j \in 1 .. p - 1 PROVE es[j].section # "Global"
      <4>1. j \in 1 .. h BY <2>8
      <4> QED BY <1>7, <2>2, <4>1
    <3>4. ASSUME NEW j \in p + 1 .. q - 1
          PROVE  ~IsHeader(es[j]) /\ (j # q - 1 => es[j].key # "config_version")
      <4>1. /\ j \in h + 1 .. N /\ j + 1 \in p + 1 .. q
            /\ (j # q - 1 => j + 1 \in p + 1 .. q - 1)
        BY <1>1, <1>8, <2>8, <3>1
      <4> QED BY <1>7, <2>3, <4>1
    <3>5. \A j \in p + 1 .. (q - 1) - 1 : j \in p + 1 .. q - 1 /\ j # q - 1 BY <1>8
    <3> QED BY <1>9, <3>1, <3>2, <3>3, <3>4, <3>5
  <2>9. CASE q > h + 1 /\ p > h + 1
    <3>1. /\ q - 1 \in h + 1 .. N /\ q - 1 \in 1 .. N /\ (q - 1) + 1 = q
          /\ p - 1 \in h + 1 .. N /\ p - 1 \in 1 .. N /\ (p - 1) + 1 = p /\ p - 1 < q - 1
      BY <1>1, <1>7, <1>8, <2>1, <2>9
    <3>2. es[p - 1] = ls[p] /\ es[q - 1] = ls[q] BY <2>3, <3>1
    <3>3. ASSUME NEW j \in 1 .. (p - 1) - 1 PROVE es[j].section # "Global"
      <4>1. CASE j \in 1 .. h
        <5>1. j \in 1 .. p - 1 BY <1>8
        <5> QED BY <1>7, <2>2, <4>1, <5>1
      <4>2. CASE j \notin 1 .. h
        <5>1. j \in h + 1 .. N /\ j + 1 \in 1 .. p - 1 BY <1>1, <1>8, <3>1, <4>2
        <5> QED BY <1>7, <2>3, <5>1
      <4> QED BY <4>1, <4>2
    <3>4. ASSUME NEW j \in (p - 1) + 1 .. q - 1
          PROVE  ~IsHeader(es[j]) /\ (j # q - 1 => es[j].key # "config_version")
      <4>1. /\ j \in h + 1 .. N /\ j + 1 \in p + 1 .. q
            /\ (j # q - 1 => j + 1 \in p + 1 .. q - 1)
        BY <1>1, <1>8, <2>9, <3>1
      <4> QED BY <1>7, <2>3, <4>1
    <3>5. \A j \in (p - 1) + 1 .. (q - 1) - 1 : j \in (p - 1) + 1 .. q - 1 /\ j # q - 1
      BY <1>8
    <3> QED BY <1>9, <3>1, <3>2, <3>3, <3>4, <3>5
  <2> QED BY <1>1, <1>7, <1>8, <2>4, <2>5, <2>6, <2>7, <2>8, <2>9
<1>12. ASSUME Adding(list, r, w, l)
       PROVE  Dates(es)
  <2>1. /\ Len(ls) = n + 2 /\ ls[n + 1] = Header(w.section) /\ ls[n + 2] = l
        /\ \A j \in 1 .. n : ls[j] = es[j]
    BY <1>12 DEF Adding, AddsBehind, es, ls, n
  <2>2. IsHeader(ls[n + 1]) /\ ls[n + 1].section = w.section
    BY <2>1, HeaderIsLine DEF Puts
  <2>3. q \in 1 .. n
    <3>1. q # n + 1 BY <1>7, <1>8, <2>2
    <3>2. q # n + 2
      <4> SUFFICES ASSUME q = n + 2 PROVE FALSE OBVIOUS
      <4>1. ~ (p < n + 1)
        <5> SUFFICES ASSUME p < n + 1 PROVE FALSE OBVIOUS
        <5>1. n + 1 \in p + 1 .. q BY <1>1, <1>8
        <5> QED BY <1>7, <2>2, <5>1
      <4>2. p = n + 1 BY <1>1, <1>7, <1>8, <4>1
      <4> QED BY <1>6, <1>7, <2>1, <2>2, <4>2
    <3> QED BY <1>1, <1>8, <2>1, <3>1, <3>2
  <2>4. \A j \in 1 .. q : es[j] = ls[j] BY <1>1, <1>8, <2>1, <2>3
  <2>5. p \in 1 .. q /\ q \in 1 .. q /\ p \in 1 .. N /\ q \in 1 .. N BY <1>1, <1>7, <1>8, <2>3
  <2>6. (\A j \in 1 .. p - 1 : j \in 1 .. q) /\ (\A j \in p + 1 .. q : j \in 1 .. q)
        /\ \A j \in p + 1 .. q - 1 : j \in 1 .. q
    BY <1>7, <1>8
  <2> QED BY <1>7, <1>9, <2>4, <2>5, <2>6
<1> QED BY <1>5, <1>10, <1>11, <1>12 DEF es

-----------------------------------------------------------------------------
(* What reading a file and a write that breaks off make of the lines.       *)

LEMMA ReadLines ==
  ASSUME NEW file \in Seq(Lines)
  PROVE  LET es == OpenIniFile(file).entries IN
         /\ OpenIniFile(file) \in IniLists /\ OpenIniFile(file).cur = Len(file)
         /\ es \in Seq(Lines) /\ Len(es) = Len(file)
         /\ \A j \in 1 .. Len(file) :
              /\ ~Shows(es[j].val, "brackets")
              /\ \/ es[j] = file[j]
                 \/ /\ es[j].section = "stray" /\ IsHeader(es[j]) /\ es[j].key = "none"
                    /\ ~IsHeader(file[j]) /\ Shows(file[j].val, "brackets")
<1> DEFINE N == Len(file)
           es == [j \in 1 .. N |-> AsRead(file[j])]
<1>1. N \in Nat /\ DOMAIN file = 1 .. N /\ \A j \in 1 .. N : file[j] \in Lines OBVIOUS
<1>2. Header("stray") \in Lines /\ Header("stray").section = "stray"
      /\ IsHeader(Header("stray")) /\ Header("stray").key = "none"
      /\ Header("stray").val = Empty
  BY DEF Header, Lines, IsHeader
<1>3. ~Shows(Empty, "brackets") BY DEF Shows, Empty, Plain
<1>4. ASSUME NEW l \in Lines
      PROVE  /\ AsRead(l) \in Lines /\ ~Shows(AsRead(l).val, "brackets")
             /\ \/ AsRead(l) = l
                \/ /\ AsRead(l).section = "stray" /\ IsHeader(AsRead(l)) /\ AsRead(l).key = "none"
                   /\ ~IsHeader(l) /\ Shows(l.val, "brackets")
  <2>1. CASE Shows(l.val, "brackets")
    <3>1. AsRead(l) = Header("stray") BY <2>1 DEF AsRead
    <3>2. ~IsHeader(l) BY <1>3, <2>1, LineKinds
    <3> QED BY <1>2, <1>3, <2>1, <3>1, <3>2
  <2>2. CASE ~Shows(l.val, "brackets")
    BY <2>2 DEF AsRead
  <2> QED BY <2>1, <2>2
<1>5. OpenIniFile(file) = [entries |-> es, cur |-> N]
  BY <1>1 DEF OpenIniFile
<1>6. es \in [1 .. N -> Lines] /\ \A j \in 1 .. N : es[j] = AsRead(file[j])
  BY <1>1, <1>4
<1> HIDE DEF es
<1>7. es \in Seq(Lines) /\ Len(es) = N BY <1>1, <1>6
<1>8. OpenIniFile(file) \in IniLists BY <1>1, <1>5, <1>7 DEF IniLists
<1> QED BY <1>1, <1>4, <1>5, <1>6, <1>7, <1>8

LEMMA OwnRead ==
  ASSUME NEW file \in Seq(Lines), NEW entered, NEW open, Own(file, entered, open)
  PROVE  Own(OpenIniFile(file).entries, entered, open)
<1> DEFINE es == OpenIniFile(file).entries
           N == Len(file)
<1>1. /\ es \in Seq(Lines) /\ Len(es) = N /\ N \in Nat
      /\ \A j \in 1 .. N :
           \/ es[j] = file[j]
           \/ es[j].section = "stray" /\ IsHeader(es[j]) /\ es[j].key = "none"
  BY ReadLines
<1> HIDE DEF es
<1> SUFFICES ASSUME NEW g \in 1 .. N, NEW j \in 1 .. N,
                    InSection(es, g, j), es[g].section \in Sites, es[j].key = "server"
             PROVE  \/ WasEntered(entered, es[g].section, es[j].val.text)
                    \/ /\ es[g].section \in open /\ Found(es, g, j)
                       /\ es[j].val.text = "http" /\ "dav" \in entered[es[g].section]
  BY <1>1 DEF Own, es
<1>2. "stray" \notin Sites BY NamesDiffer
<1>3. es[g] = file[g] /\ es[j] = file[j] BY <1>1, <1>2
<1>4. \A m \in g + 1 .. j : es[m] = file[m]
  <2>1. \A m \in g + 1 .. j : m \in 1 .. N BY <1>1
  <2> QED BY <1>1, <2>1 DEF InSection
<1>5. InSection(file, g, j) BY <1>3, <1>4 DEF InSection
<1>6. \/ WasEntered(entered, file[g].section, file[j].val.text)
      \/ /\ file[g].section \in open /\ Found(file, g, j)
         /\ file[j].val.text = "http" /\ "dav" \in entered[file[g].section]
  BY <1>3, <1>5 DEF Own
<1>7. ASSUME Found(file, g, j) PROVE Found(es, g, j)
  <2>1. ASSUME NEW m \in 1 .. g - 1 PROVE es[m].section # es[g].section
    <3>1. m \in 1 .. N BY <1>1
    <3>2. es[m].section = file[m].section \/ es[m].section = "stray" BY <1>1, <3>1
    <3> QED BY <1>2, <1>3, <1>7, <3>2 DEF Found
  <2>2. \A m \in g + 1 .. j - 1 : m \in g + 1 .. j BY <1>1
  <2> QED BY <1>3, <1>4, <1>7, <2>1, <2>2 DEF Found
<1> QED BY <1>3, <1>6, <1>7

LEMMA VersionedRead ==
  ASSUME NEW file \in Seq(Lines), Versioned(file, Len(file))
  PROVE  LET list == OpenIniFile(file) IN
         Versioned(list.entries, list.cur) /\ list.cur = Len(list.entries)
<1> DEFINE es == OpenIniFile(file).entries
           N == Len(file)
<1>1. /\ es \in Seq(Lines) /\ Len(es) = N /\ N \in Nat /\ OpenIniFile(file).cur = N
      /\ \A j \in 1 .. N :
           \/ es[j] = file[j]
           \/ /\ es[j].section = "stray" /\ ~IsHeader(file[j])
              /\ Shows(file[j].val, "brackets")
  BY ReadLines
<1>2. PICK p \in 1 .. N, q \in 1 .. N : VersionAt(file, p, q) BY DEF Versioned
<1> HIDE DEF es
<1>3. "stray" \notin Sites /\ "stray" # "Global" BY NamesDiffer
<1>4. InSection(file, p, q) /\ Found(file, p, q) /\ file[p].section = "Global"
  BY <1>2 DEF VersionAt, DatedAt
<1>5. es[p] = file[p] BY <1>1, <1>4 DEF InSection
<1>6. \A m \in p + 1 .. q : es[m] = file[m]
  <2>1. \A m \in p + 1 .. q : m \in 1 .. N BY <1>1
  <2> QED BY <1>1, <1>2, <2>1 DEF VersionAt
<1>7. q \in p + 1 .. q BY <1>1, <1>4 DEF InSection
<1>8. InSection(es, p, q) BY <1>4, <1>5, <1>6 DEF InSection
<1>9. ASSUME NEW m \in 1 .. p - 1
      PROVE  es[m].section # es[p].section /\ es[m].section \notin Sites
  <2>1. m \in 1 .. N BY <1>1
  <2>2. es[m].section = file[m].section \/ es[m].section = "stray" BY <1>1, <2>1
  <2> QED BY <1>2, <1>3, <1>4, <1>5, <2>2 DEF VersionAt, Found
<1>10. Found(es, p, q)
  <2>1. \A m \in p + 1 .. q - 1 : m \in p + 1 .. q BY <1>1
  <2> QED BY <1>4, <1>6, <1>7, <1>9, <2>1 DEF Found
<1>11. VersionAt(es, p, q)
  BY <1>2, <1>5, <1>6, <1>7, <1>8, <1>9, <1>10 DEF VersionAt, DatedAt
<1>12. Versioned(es, N) BY <1>11 DEF Versioned
<1> QED BY <1>1, <1>12 DEF es

LEMMA DatedRead ==
  ASSUME NEW file \in Seq(Lines), Dates(OpenIniFile(file).entries)
  PROVE  Dates(file)
<1> DEFINE es == OpenIniFile(file).entries
           N == Len(file)
<1>1. /\ es \in Seq(Lines) /\ Len(es) = N /\ N \in Nat
      /\ \A j \in 1 .. N :
           \/ es[j] = file[j]
           \/ es[j].section = "stray" /\ IsHeader(es[j]) /\ ~IsHeader(file[j])
  BY ReadLines
<1>2. PICK p \in 1 .. N, q \in 1 .. N : DatedAt(es, p, q) BY <1>1 DEF Dates
<1> HIDE DEF es
<1>3. "stray" # "Global" /\ "none" # "Global" OBVIOUS
<1>4. InSection(es, p, q) /\ Found(es, p, q) /\ es[p].section = "Global" BY <1>2 DEF DatedAt
<1>5. es[p] = file[p] BY <1>1, <1>3, <1>4
<1>6. \A m \in p + 1 .. q : es[m] = file[m]
  <2>1. \A m \in p + 1 .. q : m \in 1 .. N BY <1>1
  <2> QED BY <1>1, <1>4, <2>1 DEF InSection
<1>7. q \in p + 1 .. q BY <1>1, <1>4 DEF InSection
<1>8. InSection(file, p, q) BY <1>4, <1>5, <1>6 DEF InSection
<1>9. ASSUME NEW m \in 1 .. p - 1 PROVE file[m].section # file[p].section
  <2>1. m \in 1 .. N BY <1>1
  <2>2. file[m].section = es[m].section \/ file[m].section = "none"
    BY <1>1, <2>1 DEF IsHeader
  <2> QED BY <1>3, <1>4, <1>5, <2>2 DEF Found
<1>10. Found(file, p, q)
  <2>1. \A m \in p + 1 .. q - 1 : m \in p + 1 .. q BY <1>1
  <2> QED BY <1>4, <1>6, <1>7, <1>9, <2>1 DEF Found
<1>11. DatedAt(file, p, q) BY <1>2, <1>5, <1>6, <1>7, <1>8, <1>10 DEF DatedAt
<1> QED BY <1>11 DEF Dates

\* What is left of a line that was cut.
Halved(l, whole) ==
  /\ ~IsHeader(l) /\ ~l.tail /\ ~Shows(l.val, "brackets") /\ l.val.mark # "garbled"
  /\ l.val.enc => l.key # "none" /\ whole.val.enc
  /\ l.key # "none" => /\ ~IsHeader(whole) /\ l.key = whole.key
                       /\ l.val.text = whole.val.text /\ l.val.mark = "half"

LEMMA CutLines ==
  ASSUME NEW ls \in Seq(Lines), NEW file \in BrokenOff(ls)
  PROVE  LET n == Len(file) IN
         /\ file \in Seq(Lines) /\ n \in 0 .. Len(ls)
         /\ \A j \in 1 .. n - 1 : file[j] = ls[j]
         /\ n # 0 => file[n] = ls[n] \/ Halved(file[n], ls[n])
<1> DEFINE N == Len(ls)
<1>1. N \in Nat OBVIOUS
<1>2. ASSUME NEW n \in 0 .. N
      PROVE  /\ SubSeq(ls, 1, n) \in Seq(Lines) /\ Len(SubSeq(ls, 1, n)) = n
             /\ \A j \in 1 .. n : SubSeq(ls, 1, n)[j] = ls[j]
  BY <1>1
<1>3. ASSUME NEW n \in 0 .. N - 1, file = SubSeq(ls, 1, n)
      PROVE  /\ file \in Seq(Lines) /\ Len(file) = n /\ n \in 0 .. N
             /\ \A j \in 1 .. n : file[j] = ls[j]
  BY <1>1, <1>2, <1>3
<1>4. ASSUME NEW l \in Lines PROVE Half(l) \in Lines /\ Halved(Half(l), l)
  <2>1. "none" \in Keys \cup {"none"} /\ FALSE \in BOOLEAN /\ Empty \in Values BY NamesDiffer
  <2>2. CASE l.key # "none" /\ l.val.text # "none"
    <3> DEFINE v == [l.val EXCEPT !.mark = "half"]
    <3>1. ~IsHeader(l) /\ l.key \in Keys \cup {"none"} /\ l.val \in Values BY <2>2, LineKinds
    <3>2. v \in Values /\ v.text = l.val.text /\ v.mark = "half" /\ v.enc = l.val.enc
      BY <3>1 DEF Values, Marks
    <3>3. Half(l) = KeyLine(l.key, v, FALSE) BY <2>2 DEF Half
    <3> HIDE DEF v
    <3>4. /\ KeyLine(l.key, v, FALSE) \in Lines /\ ~IsHeader(KeyLine(l.key, v, FALSE))
          /\ KeyLine(l.key, v, FALSE).key = l.key /\ KeyLine(l.key, v, FALSE).val = v
      BY <2>1, <3>1, <3>2, KeyLineIsLine
    <3>5. KeyLine(l.key, v, FALSE).tail = FALSE BY DEF KeyLine
    <3>6. ~Shows(v, "brackets") BY <3>2 DEF Shows
    <3> QED BY <2>2, <3>1, <3>2, <3>3, <3>4, <3>5, <3>6 DEF Halved
  <2>3. CASE ~ (l.key # "none" /\ l.val.text # "none")
    <3>1. Half(l) = KeyLine("none", Empty, FALSE) BY <2>3 DEF Half, Comment
    <3> DEFINE c == KeyLine("none", Empty, FALSE)
    <3>2. c \in Lines /\ ~IsHeader(c) /\ c.key = "none" /\ c.val = Empty
      BY <2>1, KeyLineIsLine
    <3>3. c.tail = FALSE BY DEF KeyLine
    <3>4. Half(l) = c BY <3>1
    <3>5. ~Empty.enc /\ ~Shows(Empty, "brackets") /\ Empty.mark # "garbled"
      BY DEF Empty, Plain, Shows
    <3> HIDE DEF c
    <3> QED BY <3>2, <3>3, <3>4, <3>5 DEF Halved
  <2> QED BY <2>2, <2>3
<1>5. ASSUME NEW n \in 1 .. N, file = Append(SubSeq(ls, 1, n - 1), Half(ls[n]))
      PROVE  /\ file \in Seq(Lines) /\ Len(file) = n
             /\ \A j \in 1 .. n - 1 : file[j] = ls[j]
             /\ Halved(file[n], ls[n])
  <2> DEFINE a == SubSeq(ls, 1, n - 1)
  <2>1. n - 1 \in 0 .. N /\ (n - 1) + 1 = n BY <1>1
  <2>2. a \in Seq(Lines) /\ Len(a) = n - 1 /\ \A j \in 1 .. n - 1 : a[j] = ls[j]
    BY <1>2, <2>1
  <2>3. Half(ls[n]) \in Lines /\ Halved(Half(ls[n]), ls[n]) BY <1>4
  <2>4. file = Append(a, Half(ls[n])) BY <1>5
  <2> HIDE DEF a
  <2>5. /\ file \in Seq(Lines) /\ Len(file) = n /\ file[n] = Half(ls[n])
        /\ \A j \in 1 .. n - 1 : file[j] = a[j]
    BY <1>1, <2>1, <2>2, <2>3, <2>4
  <2> QED BY <2>2, <2>3, <2>5
<1>6. \/ \E n \in 0 .. N - 1 : file = SubSeq(ls, 1, n)
      \/ \E n \in 1 .. N : file = Append(SubSeq(ls, 1, n - 1), Half(ls[n]))
  BY DEF BrokenOff
<1>7. CASE \E n \in 0 .. N - 1 : file = SubSeq(ls, 1, n)
  <2>1. PICK n \in 0 .. N - 1 : file = SubSeq(ls, 1, n) BY <1>7
  <2>2. /\ file \in Seq(Lines) /\ Len(file) = n /\ n \in 0 .. N
        /\ \A j \in 1 .. n : file[j] = ls[j]
    BY <1>3, <2>1
  <2>3. (\A j \in 1 .. n - 1 : j \in 1 .. n) /\ (n # 0 => n \in 1 .. n) BY <1>1, <2>2
  <2> QED BY <2>2, <2>3
<1>8. CASE \E n \in 1 .. N : file = Append(SubSeq(ls, 1, n - 1), Half(ls[n]))
  <2>1. PICK n \in 1 .. N : file = Append(SubSeq(ls, 1, n - 1), Half(ls[n])) BY <1>8
  <2>2. /\ file \in Seq(Lines) /\ Len(file) = n /\ n \in 0 .. N
        /\ \A j \in 1 .. n - 1 : file[j] = ls[j]
        /\ Halved(file[n], ls[n])
    BY <1>1, <1>5, <2>1
  <2> QED BY <2>2
<1> QED BY <1>6, <1>7, <1>8

LEMMA OwnCut ==
  ASSUME NEW ls \in Seq(Lines), NEW file \in BrokenOff(ls), NEW entered, NEW open,
         Own(ls, entered, open)
  PROVE  Own(file, entered, open)
<1> DEFINE n == Len(file)
<1>1. /\ file \in Seq(Lines) /\ n \in 0 .. Len(ls) /\ Len(ls) \in Nat
      /\ \A j \in 1 .. n - 1 : file[j] = ls[j]
      /\ n # 0 => file[n] = ls[n] \/ Halved(file[n], ls[n])
  BY CutLines
<1> SUFFICES ASSUME NEW g \in 1 .. n, NEW j \in 1 .. n,
                    InSection(file, g, j), file[g].section \in Sites, file[j].key = "server"
             PROVE  \/ WasEntered(entered, file[g].section, file[j].val.text)
                    \/ /\ file[g].section \in open /\ Found(file, g, j)
                       /\ file[j].val.text = "http" /\ "dav" \in entered[file[g].section]
  BY <1>1 DEF Own
<1> HIDE DEF n
<1>2. g < j /\ IsHeader(file[g]) BY DEF InSection
<1>3. \A m \in 1 .. j - 1 : file[m] = ls[m] BY <1>1
<1>4. file[g] = ls[g] /\ g \in 1 .. Len(ls) /\ j \in 1 .. Len(ls) BY <1>1, <1>2, <1>3
<1>5. ~IsHeader(ls[j]) /\ ls[j].key = "server" /\ ls[j].val.text = file[j].val.text
  <2>1. ~IsHeader(file[j])
    <3>1. j \in g + 1 .. j BY <1>1, <1>2
    <3> QED BY <3>1 DEF InSection
  <2>2. CASE j = n BY <1>1, <2>1, <2>2 DEF Halved
  <2>3. CASE j # n
    <3>1. file[j] = ls[j] BY <1>1, <2>3
    <3> QED BY <2>1, <3>1
  <2> QED BY <2>2, <2>3
<1>6. InSection(ls, g, j)
  <2>1. ASSUME NEW m \in g + 1 .. j PROVE ~IsHeader(ls[m])
    <3>1. m = j \/ m \in 1 .. j - 1 BY <1>1
    <3> QED BY <1>3, <1>5, <3>1 DEF InSection
  <2> QED BY <1>2, <1>4, <2>1 DEF InSection
<1>7. ASSUME Found(ls, g, j) PROVE Found(file, g, j)
  <2>1. (\A m \in 1 .. g - 1 : m \in 1 .. j - 1) /\ \A m \in g + 1 .. j - 1 : m \in 1 .. j - 1
    BY <1>1, <1>2
  <2> QED BY <1>3, <1>4, <1>5, <1>7, <2>1 DEF Found
<1>8. \/ WasEntered(entered, ls[g].section, ls[j].val.text)
      \/ /\ ls[g].section \in open /\ Found(ls, g, j)
         /\ ls[j].val.text = "http" /\ "dav" \in entered[ls[g].section]
  BY <1>4, <1>5, <1>6 DEF Own
<1> QED BY <1>4, <1>5, <1>7, <1>8

LEMMA VersionedCut ==
  ASSUME NEW ls \in Seq(Lines), NEW file \in BrokenOff(ls), Versioned(ls, Len(ls))
  PROVE  Versioned(file, Len(file)) \/ Bare(file)
<1> DEFINE n == Len(file)
<1>1. /\ file \in Seq(Lines) /\ n \in 0 .. Len(ls) /\ Len(ls) \in Nat
      /\ \A j \in 1 .. n - 1 : file[j] = ls[j]
      /\ n # 0 => file[n] = ls[n] \/ Halved(file[n], ls[n])
  BY CutLines
<1>2. PICK p \in 1 .. Len(ls), q \in 1 .. Len(ls) : VersionAt(ls, p, q) BY DEF Versioned
<1> HIDE DEF n
<1>3. p < q /\ IsHeader(ls[p]) /\ ls[p].section = "Global"
  BY <1>2 DEF VersionAt, DatedAt, InSection
<1>4. CASE q < n \/ (q = n /\ file[n] = ls[n])
  <2>1. \A m \in 1 .. q : file[m] = ls[m] BY <1>1, <1>4
  <2>2. p \in 1 .. q /\ q \in 1 .. q /\ p \in 1 .. n /\ q \in 1 .. n BY <1>1, <1>3, <1>4
  <2>3. (\A m \in 1 .. p - 1 : m \in 1 .. q) /\ (\A m \in p + 1 .. q : m \in 1 .. q)
        /\ \A m \in p + 1 .. q - 1 : m \in 1 .. q
    BY <1>1, <1>3
  <2>4. InSection(file, p, q) /\ Found(file, p, q)
    BY <1>2, <2>1, <2>2, <2>3 DEF VersionAt, DatedAt, InSection, Found
  <2>5. VersionAt(file, p, q)
    BY <1>2, <2>1, <2>2, <2>3, <2>4 DEF VersionAt, DatedAt
  <2> QED BY <2>2, <2>5 DEF Versioned, n
<1>5. CASE q > n \/ (q = n /\ Halved(file[n], ls[n]))
  <2>1. \A m \in 1 .. q : ls[m].section \notin Sites
    <3> SUFFICES ASSUME NEW m \in 1 .. q PROVE ls[m].section \notin Sites OBVIOUS
    <3>1. m \in 1 .. p - 1 \/ m = p \/ m \in p + 1 .. q BY <1>1, <1>3
    <3>2. m \in p + 1 .. q => ls[m].section = "none"
      BY <1>2 DEF VersionAt, DatedAt, InSection, IsHeader
    <3> QED BY <1>2, <1>3, <3>1, <3>2, NamesDiffer DEF VersionAt
  <2>2. ASSUME NEW m \in 1 .. n PROVE file[m].section \notin Sites
    <3>1. CASE file[m] = ls[m]
      <4>1. m \in 1 .. q BY <1>1, <1>5
      <4> QED BY <2>1, <3>1, <4>1
    <3>2. CASE file[m] # ls[m]
      <4>1. m = n /\ Halved(file[m], ls[m]) BY <1>1, <3>2
      <4> QED BY <4>1, NamesDiffer DEF Halved, IsHeader
    <3> QED BY <3>1, <3>2
  <2>3. DOMAIN file = 1 .. n BY <1>1 DEF n
  <2> QED BY <2>2, <2>3 DEF Bare
<1> QED BY <1>1, <1>4, <1>5

LEMMA DatedCut ==
  ASSUME NEW ls \in Seq(Lines), NEW file \in BrokenOff(ls), Dates(file)
  PROVE  Dates(ls)
<1> DEFINE n == Len(file)
<1>1. /\ file \in Seq(Lines) /\ n \in 0 .. Len(ls) /\ Len(ls) \in Nat
      /\ \A j \in 1 .. n - 1 : file[j] = ls[j]
      /\ n # 0 => file[n] = ls[n] \/ Halved(file[n], ls[n])
  BY CutLines
<1>2. PICK p \in 1 .. n, q \in 1 .. n : DatedAt(file, p, q) BY DEF Dates
<1> HIDE DEF n
<1>3. p < q /\ file[q].key = "config_version" /\ file[q].val.mark # "half"
  BY <1>2 DEF DatedAt, InSection
<1>4. file[q] = ls[q]
  <2>1. CASE q = n BY <1>1, <1>3, <2>1 DEF Halved
  <2>2. CASE q # n BY <1>1, <2>2
  <2> QED BY <2>1, <2>2
<1>5. \A m \in 1 .. q : file[m] = ls[m] BY <1>1, <1>4
<1>6. p \in 1 .. q /\ q \in 1 .. q /\ p \in 1 .. Len(ls) /\ q \in 1 .. Len(ls)
  BY <1>1, <1>3
<1>7. (\A m \in 1 .. p - 1 : m \in 1 .. q) /\ (\A m \in p + 1 .. q : m \in 1 .. q)
      /\ \A m \in p + 1 .. q - 1 : m \in 1 .. q
  BY <1>1, <1>3
<1>8. InSection(ls, p, q) /\ Found(ls, p, q)
  BY <1>2, <1>5, <1>6, <1>7 DEF DatedAt, InSection, Found
<1>9. DatedAt(ls, p, q) BY <1>2, <1>5, <1>6, <1>8 DEF DatedAt
<1> QED BY <1>6, <1>9 DEF Dates

-----------------------------------------------------------------------------
(* What is read of a file.                                                  *)

\* FindKey is what Found says, both ways.
LEMMA FindIsFound ==
  ASSUME NEW es \in Seq(Lines), NEW s \in Sections, NEW k, NEW h \in 1 .. Len(es),
         NEW i \in 1 .. Len(es), InSection(es, h, i), Found(es, h, i),
         es[h].section = s, es[i].key = k
  PROVE  FindKey(es, s, k) = i
<1> DEFINE g == FindSection(es, s)
           j == FindKey(es, s, k)
<1>1. Len(es) \in Nat OBVIOUS
<1>2. /\ g \in 0 .. Len(es)
      /\ g # 0 => es[g].section = s /\ \A m \in 1 .. g - 1 : es[m].section # s
      /\ g = 0 => \A m \in 1 .. Len(es) : es[m].section # s
  BY FindSectionFinds
<1>3. /\ j \in 0 .. Len(es)
      /\ j # 0 => /\ g # 0 /\ g < j /\ es[j].key = k
                  /\ \A m \in g + 1 .. j : ~IsHeader(es[m])
                  /\ \A m \in g + 1 .. j - 1 : es[m].key # k
      /\ j = 0 /\ g # 0 =>
           \A m \in g + 1 .. Len(es) :
              (\A n \in g + 1 .. m : ~IsHeader(es[n])) => es[m].key # k
  BY FindKeyFinds
<1> HIDE DEF g, j
<1>4. g = h
  <2>1. g # 0 BY <1>2
  <2>2. ~(g < h)
    <3> SUFFICES ASSUME g < h PROVE FALSE OBVIOUS
    <3>1. g \in 1 .. h - 1 BY <1>1, <1>2, <2>1
    <3> QED BY <1>2, <2>1, <3>1 DEF Found
  <2>3. ~(h < g)
    <3> SUFFICES ASSUME h < g PROVE FALSE OBVIOUS
    <3>1. h \in 1 .. g - 1 BY <1>1, <1>2
    <3> QED BY <1>2, <2>1, <3>1
  <2> QED BY <1>1, <1>2, <2>2, <2>3
<1>5. h < i /\ \A m \in h + 1 .. i : ~IsHeader(es[m]) BY DEF InSection
<1>6. j # 0 BY <1>1, <1>2, <1>3, <1>4, <1>5
<1>7. ~(j < i)
  <2> SUFFICES ASSUME j < i PROVE FALSE OBVIOUS
  <2>1. j \in h + 1 .. i - 1 BY <1>1, <1>3, <1>4, <1>6
  <2> QED BY <1>3, <1>6, <2>1 DEF Found
<1>8. ~(i < j)
  <2> SUFFICES ASSUME i < j PROVE FALSE OBVIOUS
  <2>1. i \in g + 1 .. j - 1 BY <1>1, <1>3, <1>4, <1>5
  <2> QED BY <1>3, <1>6, <2>1
<1>9. j = i BY <1>1, <1>3, <1>7, <1>8
<1> QED BY <1>9 DEF j

\* ReadString gives the default or the value of a line that is found.
LEMMA ReadStringCases ==
  ASSUME NEW list \in IniLists, NEW s \in Sections, NEW k, NEW default
  PROVE  LET es == list.entries
             v  == ReadString(list, s, k, default)
         IN  \/ v = default /\ FindKey(es, s, k) = 0
             \/ \E h, i \in 1 .. Len(es) :
                  /\ InSection(es, h, i) /\ Found(es, h, i)
                  /\ es[h].section = s /\ es[i].key = k /\ v = es[i].val
                  /\ FindKey(es, s, k) = i
<1> DEFINE es == list.entries
           g == FindSection(es, s)
           j == FindKey(es, s, k)
           v == ReadString(list, s, k, default)
<1>1. es \in Seq(Lines) /\ Len(es) \in Nat BY DEF IniLists
<1>2. /\ g \in 0 .. Len(es)
      /\ g # 0 => es[g].section = s /\ \A m \in 1 .. g - 1 : es[m].section # s
  BY <1>1, FindSectionFinds
<1>3. /\ j \in 0 .. Len(es)
      /\ j # 0 => /\ g # 0 /\ g < j /\ es[j].key = k
                  /\ \A m \in g + 1 .. j : ~IsHeader(es[m])
                  /\ \A m \in g + 1 .. j - 1 : es[m].key # k
  BY <1>1, FindKeyFinds
<1>4. v = IF j = 0 THEN default ELSE es[j].val BY DEF ReadString
<1> HIDE DEF es, g, j, v
<1>5. CASE j = 0 BY <1>4, <1>5 DEF es, j, v
<1>6. CASE j # 0
  <2>1. g \in 1 .. Len(es) /\ j \in 1 .. Len(es) BY <1>1, <1>2, <1>3, <1>6
  <2>2. IsHeader(es[g]) BY <1>2, <1>3, <1>6, NamesDiffer DEF IsHeader
  <2>3. InSection(es, g, j) BY <1>3, <1>6, <2>2 DEF InSection
  <2>4. Found(es, g, j) BY <1>2, <1>3, <1>6 DEF Found
  <2> HIDE DEF IniLists
  <2> QED BY <1>2, <1>3, <1>4, <1>6, <2>1, <2>3, <2>4 DEF es, j, v
<1> QED BY <1>5, <1>6

LEMMA ReadStringTyped ==
  ASSUME NEW list \in IniLists, NEW s \in Sections, NEW k, NEW default \in Values
  PROVE  ReadString(list, s, k, default) \in Values
<1>1. list.entries \in Seq(Lines) BY DEF IniLists
<1>2. \A i \in 1 .. Len(list.entries) : list.entries[i].val \in Values
  <2> SUFFICES ASSUME NEW i \in 1 .. Len(list.entries) PROVE list.entries[i].val \in Values
    OBVIOUS
  <2>1. list.entries[i] \in Lines BY <1>1
  <2> QED BY <2>1, LineKinds, NamesDiffer
<1>3. \/ ReadString(list, s, k, default) = default
      \/ \E i \in 1 .. Len(list.entries) :
           ReadString(list, s, k, default) = list.entries[i].val
  BY ReadStringCases
<1> QED BY <1>2, <1>3

\* ReadInt(CONFIG_VERSION) >= CONFIG_VERSION_NUM, in the lines.
LEMMA VersionReadMeans ==
  ASSUME NEW list \in IniLists
  PROVE  VersionRead(list) <=> Dates(list.entries)
<1> DEFINE es == list.entries
           v == ReadString(list, "Global", "config_version", Empty)
<1>1. es \in Seq(Lines) /\ "Global" \in Sections /\ Empty.text = "none"
  BY NamesDiffer DEF IniLists, Empty, Plain
<1>2. VersionRead(list) <=> v.text = "1" /\ v.mark # "half" BY DEF VersionRead
<1>3. \/ v = Empty /\ FindKey(es, "Global", "config_version") = 0
      \/ \E h, i \in 1 .. Len(es) :
           /\ InSection(es, h, i) /\ Found(es, h, i)
           /\ es[h].section = "Global" /\ es[i].key = "config_version" /\ v = es[i].val
           /\ FindKey(es, "Global", "config_version") = i
  BY <1>1, ReadStringCases
<1> HIDE DEF v
<1>4. ASSUME VersionRead(list) PROVE Dates(es)
  <2>1. v # Empty BY <1>1, <1>2, <1>4
  <2>2. PICK h \in 1 .. Len(es), i \in 1 .. Len(es) :
          /\ InSection(es, h, i) /\ Found(es, h, i)
          /\ es[h].section = "Global" /\ es[i].key = "config_version" /\ v = es[i].val
    BY <1>3, <2>1
  <2>3. DatedAt(es, h, i) BY <1>2, <1>4, <2>2 DEF DatedAt
  <2> QED BY <2>3 DEF Dates
<1>5. ASSUME Dates(es) PROVE VersionRead(list)
  <2>1. PICK p \in 1 .. Len(es), q \in 1 .. Len(es) : DatedAt(es, p, q) BY <1>5 DEF Dates
  <2>2. FindKey(es, "Global", "config_version") = q
    <3> HIDE DEF es
    <3> QED BY <1>1, <2>1, FindIsFound DEF DatedAt
  <2>3. q # 0 OBVIOUS
  <2>4. v = es[q].val BY <1>3, <2>2, <2>3
  <2> QED BY <1>2, <2>1, <2>4 DEF DatedAt
<1> QED BY <1>4, <1>5

\* The address that comes up for a site was entered for it, but one that is to be converted.
LEMMA AddressRead ==
  ASSUME NEW list \in IniLists, NEW s \in Sites, NEW entered, NEW open,
         Own(list.entries, entered, open), "none" \in entered[s]
  PROVE  LET v == ReadString(list, s, "server", Empty) IN
         \/ WasEntered(entered, s, v.text)
         \/ s \in open /\ v.text = "http" /\ "dav" \in entered[s]
<1> DEFINE es == list.entries
           v == ReadString(list, s, "server", Empty)
<1>1. s \in Sections /\ Empty.text = "none" BY NamesDiffer DEF Empty, Plain
<1>2. \/ v = Empty
      \/ \E h, i \in 1 .. Len(es) :
           /\ InSection(es, h, i) /\ es[h].section = s /\ es[i].key = "server" /\ v = es[i].val
  BY <1>1, ReadStringCases
<1> HIDE DEF v
<1>3. CASE v = Empty
  <2>1. WasEntered(entered, s, v.text) BY <1>1, <1>3 DEF WasEntered
  <2> QED BY <2>1 DEF v
<1>4. CASE v # Empty
  <2>1. PICK h \in 1 .. Len(es), i \in 1 .. Len(es) :
           /\ InSection(es, h, i) /\ es[h].section = s /\ es[i].key = "server" /\ v = es[i].val
    BY <1>2, <1>4
  <2>2. es \in Seq(Lines) BY DEF IniLists
  <2>3. h \in DOMAIN es /\ i \in DOMAIN es BY <2>2
  <2>4. \/ WasEntered(entered, s, v.text)
        \/ s \in open /\ v.text = "http" /\ "dav" \in entered[s]
    BY <2>1, <2>3 DEF Own
  <2> QED BY <2>4 DEF v
<1> QED BY <1>3, <1>4

\* Where the parts of FlattenSeq(s) stand: part m behind place[m - 1].
Places(place, s) ==
  LET F == FlattenSeq(s) IN
  /\ place \in [0 .. Len(s) -> Nat] /\ place[0] = 0 /\ place[Len(s)] = Len(F)
  /\ \A m \in 1 .. Len(s) :
       /\ place[m] = place[m - 1] + Len(s[m])
       /\ \A j \in 1 .. Len(s[m]) : place[m - 1] + j \in 1 .. Len(F) /\ F[place[m - 1] + j] = s[m][j]
  /\ \A i \in 1 .. Len(F) : \E m \in 1 .. Len(s) : \E j \in 1 .. Len(s[m]) : i = place[m - 1] + j

LEMMA FlattenPlaces ==
  ASSUME NEW S, NEW s \in Seq(Seq(S))
  PROVE  FlattenSeq(s) \in Seq(S) /\ \E place : Places(place, s)
<1> DEFINE N == Len(s)
           F == FlattenSeq(s)
<1>1. PICK f : Flattens(f, S, s) BY Flattening
<1>2. /\ N \in Nat /\ f \in [0 .. N -> Seq(S)] /\ f[0] = <<>> /\ f[N] = F
      /\ \A n \in 1 .. N : f[n] = f[n - 1] \o s[n]
  BY <1>1, SMTT(30) DEF Flattens
<1>3. \A n \in 1 .. N : n - 1 \in 0 .. N /\ n \in 0 .. N /\ s[n] \in Seq(S) BY <1>2
<1>4. F \in Seq(S) /\ Len(F) \in Nat BY <1>2, SMTT(30)
<1>5. \A n \in 0 .. N : f[n] \in Seq(S) /\ Len(f[n]) \in Nat
  <2>1. \A n \in 0 .. N : f[n] \in Seq(S) BY <1>2
  <2>2. \A a \in Seq(S) : Len(a) \in Nat OBVIOUS
  <2> HIDE DEF N
  <2> QED BY <2>1, <2>2, Zenon
<1>6. \A k \in 0 .. N : Len(f[k]) <= Len(F) /\ \A i \in 1 .. Len(f[k]) : F[i] = f[k][i]
  BY <1>1, FlattenPrefix
<1> DEFINE place == [n \in 0 .. N |-> Len(f[n])]
<1>7. place \in [0 .. N -> Nat] /\ place[0] = 0 /\ place[N] = Len(F)
  <2>1. 0 \in 0 .. N /\ N \in 0 .. N BY <1>2
  <2> QED BY <1>2, <1>5, <2>1
<1>8. ASSUME NEW m \in 1 .. N
      PROVE  /\ place[m] = place[m - 1] + Len(s[m])
             /\ \A j \in 1 .. Len(s[m]) : place[m - 1] + j \in 1 .. Len(F) /\ F[place[m - 1] + j] = s[m][j]
  <2>1. m - 1 \in 0 .. N /\ m \in 0 .. N /\ s[m] \in Seq(S) BY <1>3
  <2>2. f[m] = f[m - 1] \o s[m] /\ f[m - 1] \in Seq(S) BY <1>2, <1>5, <2>1
  <2>3. \A a, b \in Seq(S) : /\ Len(a \o b) = Len(a) + Len(b) /\ Len(a) \in Nat /\ Len(b) \in Nat
                              /\ \A j \in 1 .. Len(b) : (a \o b)[Len(a) + j] = b[j]
    OBVIOUS
  <2>4. place[m] = Len(f[m]) /\ place[m - 1] = Len(f[m - 1]) BY <2>1
  <2> DEFINE a == f[m - 1]
             b == s[m]
             c == f[m]
  <2>5. /\ Len(c) = Len(a) + Len(b) /\ Len(a) \in Nat /\ Len(b) \in Nat
        /\ \A j \in 1 .. Len(b) : c[Len(a) + j] = b[j]
    <3>1. a \in Seq(S) /\ b \in Seq(S) /\ c = a \o b BY <2>1, <2>2
    <3> HIDE DEF a, b, c
    <3> QED BY <2>3, <3>1
  <2>6. Len(c) <= Len(F) /\ \A i \in 1 .. Len(c) : F[i] = c[i] BY <1>6, <2>1
  <2>7. place[m] = Len(c) /\ place[m - 1] = Len(a) BY <2>4
  <2> HIDE DEF place, F, a, b, c
  <2>8. ASSUME NEW j \in 1 .. Len(b)
        PROVE  place[m - 1] + j \in 1 .. Len(F) /\ F[place[m - 1] + j] = b[j]
    <3>1. Len(a) + j \in 1 .. Len(c) BY <2>5
    <3>2. Len(a) + j \in 1 .. Len(F) BY <1>4, <2>5, <2>6, <3>1
    <3> QED BY <2>5, <2>6, <2>7, <3>1, <3>2
  <2> QED BY <2>5, <2>7, <2>8 DEF b
<1> HIDE DEF place
<1>9. \A i \in 1 .. Len(F) : \E m \in 1 .. N : \E j \in 1 .. Len(s[m]) : i = place[m - 1] + j
  <2> DEFINE Covered(n) == \A i \in 1 .. place[n] :
                             \E m \in 1 .. N : \E j \in 1 .. Len(s[m]) : i = place[m - 1] + j
             G == {n \in 0 .. N : Covered(n)}
  <2>1. 0 \in G BY <1>2, <1>7
  <2>2. ASSUME NEW n \in 0 .. N - 1, n \in G PROVE n + 1 \in G
    <3>1. n + 1 \in 1 .. N /\ n + 1 \in 0 .. N /\ (n + 1) - 1 = n BY <1>2
    <3>2. place[n + 1] = place[n] + Len(s[n + 1]) /\ place[n] \in Nat /\ Len(s[n + 1]) \in Nat
      <4>1. place[n + 1] = place[(n + 1) - 1] + Len(s[n + 1]) BY <1>8, <3>1, Zenon
      <4>2. n \in 0 .. N BY <1>2
      <4>3. place[n] \in Nat BY <1>7, <4>2
      <4>4. s[n + 1] \in Seq(S) BY <1>3, <3>1, Zenon
      <4> QED BY <3>1, <4>1, <4>3, <4>4
    <3>3. ASSUME NEW i \in 1 .. place[n + 1]
          PROVE  \E m \in 1 .. N : \E j \in 1 .. Len(s[m]) : i = place[m - 1] + j
      <4>1. CASE i <= place[n]
        <5>1. i \in 1 .. place[n] BY <3>2, <4>1
        <5> QED BY <2>2, <5>1
      <4>2. CASE i > place[n]
        <5>1. i - place[n] \in 1 .. Len(s[n + 1]) /\ i = place[n] + (i - place[n]) BY <3>2, <4>2
        <5> QED BY <3>1, <5>1
      <4> QED BY <3>2, <4>1, <4>2
    <3> QED BY <3>1, <3>3
  <2> HIDE DEF G
  <2>3. \A n \in 0 .. N : n \in G BY <1>2, <2>1, <2>2, Induction
  <2>4. N \in G BY <1>2, <2>3
  <2> QED BY <1>7, <2>4 DEF G
<1> HIDE DEF N, F
<1>10. Places(place, s) BY <1>7, <1>8, <1>9 DEF Places, N, F
<1> QED BY <1>4, <1>10 DEF F

-----------------------------------------------------------------------------
(* The sites in their order.                                                *)

LEMMA SiteOrderLists ==
  /\ SiteOrder \in Seq(Sites) /\ Len(SiteOrder) # 0 /\ DOMAIN SiteOrder = 1 .. Len(SiteOrder)
  /\ \A i, j \in 1 .. Len(SiteOrder) : SiteOrder[i] = SiteOrder[j] => i = j
  /\ \A s \in Sites : \E i \in 1 .. Len(SiteOrder) : SiteOrder[i] = s
<1> DEFINE n == Cardinality(Sites)
<1>1. IsFiniteSet(Sites) /\ Sites # {} BY ConfigAssumption
<1>2. n \in Nat /\ ExistsBijection(1 .. n, Sites) BY <1>1, FS_CardinalityType
<1>3. n # 0 BY <1>1, FS_EmptySet
<1>4. \E f \in [1 .. n -> Sites] : IsInjective(f)
  BY <1>2 DEF ExistsBijection, Bijection, Injection
<1>5. SiteOrder \in [1 .. n -> Sites] /\ IsInjective(SiteOrder)
  BY <1>4 DEF SiteOrder, SetToSeq
<1>6. SiteOrder \in Injection(1 .. n, Sites) BY <1>5 DEF Injection
<1>7. Cardinality(1 .. n) = n /\ IsFiniteSet(1 .. n)
  <2>1. n \in Int /\ 1 \in Int BY <1>2
  <2>2. Cardinality(1 .. n) = IF 1 > n THEN 0 ELSE n - 1 + 1 BY <2>1, FS_Interval, Zenon
  <2>3. IsFiniteSet(1 .. n) BY <2>1, FS_Interval, Zenon
  <2> QED BY <1>2, <2>2, <2>3
<1>8. SiteOrder \in Surjection(1 .. n, Sites)
  BY <1>1, <1>6, <1>7, FS_Injection
<1> HIDE DEF n
<1>9. SiteOrder \in Seq(Sites) /\ Len(SiteOrder) = n /\ DOMAIN SiteOrder = 1 .. n BY <1>2, <1>5
<1> QED BY <1>3, <1>5, <1>8, <1>9 DEF IsInjective, Surjection

-----------------------------------------------------------------------------
(* The file of the release before.                                          *)

OldServer == KeyLine("server", Plain("http"), FALSE)
OldFolder == KeyLine("local_directory", Plain("/"), FALSE)

LEMMA PlainValues ==
  /\ {Plain("/"), Plain("1"), Plain("http"), Plain("dav"), Empty} \subseteq Values
  /\ \A s \in Sites \cup {Other} : Plain(s) \in Values
  /\ \A v \in Servers \cup Passwords \cup Folders \cup LocalFolders : v \in Values
<1>1. {Plain("/"), Plain("1"), Plain("http"), Plain("dav"), Empty} \subseteq Values
  BY DEF Plain, Empty, Values, Words, Marks
<1>2. \A s \in Sites \cup {Other} : Plain(s) \in Values
  BY DEF Plain, Values, Words, Marks
<1>3. ASSUME NEW v \in Passwords \cup Folders \cup LocalFolders PROVE v \in Values
  <2>1. v = [Plain(v.text) EXCEPT !.mark = v.mark] /\ v.mark \in {"whole", "semi", "brackets"}
    BY ConfigAssumption
  <2>2. v = [text |-> v.text, mark |-> v.mark, enc |-> FALSE] BY <2>1 DEF Plain
  <2>3. v.text \in Words BY DEF Words
  <2>4. v.mark \in Marks BY <2>1 DEF Marks
  <2>5. [text |-> v.text, mark |-> v.mark, enc |-> FALSE] \in Values BY <2>3, <2>4 DEF Values
  <2> QED BY <2>2, <2>5
<1>4. \A v \in Servers : v \in Values BY <1>1, ConfigAssumption
<1> QED BY <1>1, <1>2, <1>3, <1>4

LEMMA OldLines ==
  LET N == Len(SiteOrder) IN
  /\ OldFile \in Seq(Lines) /\ Len(OldFile) = 2 * N + 2 /\ N \in Nat
  /\ OldFile[1] = Header("Global") /\ OldFile[2] = OldFolder
  /\ \A j \in 1 .. N : OldFile[2 * j + 1] = Header(SiteOrder[j]) /\ OldFile[2 * j + 2] = OldServer
  /\ \A i \in 1 .. 2 * N + 2 : i = 1 \/ i = 2 \/ \E j \in 1 .. N : i = 2 * j + 1 \/ i = 2 * j + 2
<1> DEFINE N == Len(SiteOrder)
           P == [i \in DOMAIN SiteOrder |-> <<Header(SiteOrder[i]), OldServer>>]
           A == <<Header("Global"), OldFolder>>
           B == FlattenSeq(P)
<1>1. /\ SiteOrder \in Seq(Sites) /\ N \in Nat /\ DOMAIN SiteOrder = 1 .. N
      /\ \A j \in 1 .. N : SiteOrder[j] \in Sections
  BY SiteOrderLists, NamesDiffer
<1>2. OldServer \in Lines /\ OldFolder \in Lines /\ Header("Global") \in Lines
  <2>1. "server" \in Keys /\ "local_directory" \in Keys /\ FALSE \in BOOLEAN BY DEF Keys, SiteKeys
  <2> QED BY <2>1, PlainValues, KeyLineIsLine, HeaderIsLine, NamesDiffer DEF OldServer, OldFolder
<1>3. \A j \in 1 .. N : Header(SiteOrder[j]) \in Lines BY <1>1, HeaderIsLine
<1> DEFINE x == OldServer
           H(j) == Header(SiteOrder[j])
<1>4. /\ P \in Seq(Seq(Lines)) /\ Len(P) = N
      /\ \A j \in 1 .. N : P[j] = <<Header(SiteOrder[j]), OldServer>> /\ Len(P[j]) = 2
                           /\ P[j][1] = Header(SiteOrder[j]) /\ P[j][2] = OldServer
  <2> HIDE DEF x, H
  <2>1. P = [i \in 1 .. N |-> <<Header(SiteOrder[i]), OldServer>>] BY <1>1
  <2>2. \A j \in 1 .. N : <<Header(SiteOrder[j]), OldServer>> \in Seq(Lines) BY <1>2, <1>3
  <2> HIDE DEF N, P
  <2> QED BY <1>1, <2>1, <2>2
<1>5. A \in Seq(Lines) /\ Len(A) = 2 /\ A[1] = Header("Global") /\ A[2] = OldFolder BY <1>2
<1>6. OldFile = A \o B BY DEF OldFile, OldFolder, OldServer
<1> HIDE DEF P, N, A
<1>7. B \in Seq(Lines) /\ \E place : Places(place, P) BY <1>4, FlattenPlaces
<1>8. PICK place : Places(place, P) BY <1>7
<1>9. /\ place \in [0 .. N -> Nat] /\ place[0] = 0 /\ place[N] = Len(B)
      /\ \A m \in 1 .. N : place[m] = place[m - 1] + 2
      /\ \A m \in 1 .. N : place[m - 1] + 1 \in 1 .. Len(B) /\ B[place[m - 1] + 1] = Header(SiteOrder[m])
      /\ \A m \in 1 .. N : place[m - 1] + 2 \in 1 .. Len(B) /\ B[place[m - 1] + 2] = OldServer
      /\ \A i \in 1 .. Len(B) : \E m \in 1 .. N : \E j \in 1 .. 2 : i = place[m - 1] + j
  <2>1. /\ place \in [0 .. N -> Nat] /\ place[0] = 0 /\ place[N] = Len(B)
        /\ \A m \in 1 .. N :
             /\ place[m] = place[m - 1] + Len(P[m])
             /\ \A j \in 1 .. Len(P[m]) :
                  place[m - 1] + j \in 1 .. Len(B) /\ B[place[m - 1] + j] = P[m][j]
        /\ \A i \in 1 .. Len(B) : \E m \in 1 .. N : \E j \in 1 .. Len(P[m]) : i = place[m - 1] + j
    BY <1>4, <1>8, Zenon DEF Places
  <2> HIDE DEF B
  <2>2. 1 \in 1 .. 2 /\ 2 \in 1 .. 2 OBVIOUS
  <2>3. ASSUME NEW m \in 1 .. N
        PROVE  /\ place[m] = place[m - 1] + 2
               /\ place[m - 1] + 1 \in 1 .. Len(B) /\ B[place[m - 1] + 1] = Header(SiteOrder[m])
               /\ place[m - 1] + 2 \in 1 .. Len(B) /\ B[place[m - 1] + 2] = OldServer
    <3>1. /\ Len(P[m]) = 2 /\ P[m][1] = Header(SiteOrder[m]) /\ P[m][2] = OldServer
          /\ place[m] = place[m - 1] + Len(P[m])
          /\ \A j \in 1 .. Len(P[m]) :
               place[m - 1] + j \in 1 .. Len(B) /\ B[place[m - 1] + j] = P[m][j]
      BY <1>4, <2>1, Zenon
    <3> QED BY <2>2, <3>1, Zenon
  <2>4. \A m \in 1 .. N : Len(P[m]) = 2 BY <1>4, Zenon
  <2>5. \A i \in 1 .. Len(B) : \E m \in 1 .. N : \E j \in 1 .. 2 : i = place[m - 1] + j
    <3> SUFFICES ASSUME NEW i \in 1 .. Len(B)
                 PROVE  \E m \in 1 .. N : \E j \in 1 .. 2 : i = place[m - 1] + j
      OBVIOUS
    <3>1. PICK m \in 1 .. N : \E j \in 1 .. Len(P[m]) : i = place[m - 1] + j BY <2>1, Zenon
    <3>2. Len(P[m]) = 2 BY <2>4, Zenon
    <3>3. \E j \in 1 .. 2 : i = place[m - 1] + j BY <3>1, <3>2, Zenon
    <3> QED BY <3>3, Zenon
  <2> QED BY <2>1, <2>3, <2>5, Zenon
<1> HIDE DEF B
<1>10. \A n \in 0 .. N : place[n] = 2 * n
  <2> DEFINE G == {n \in 0 .. N : place[n] = 2 * n}
  <2>1. 0 \in G BY <1>1, <1>9
  <2>2. ASSUME NEW n \in 0 .. N - 1, n \in G PROVE n + 1 \in G
    <3>1. n + 1 \in 1 .. N /\ n + 1 \in 0 .. N /\ (n + 1) - 1 = n BY <1>1
    <3>2. place[n + 1] = place[n] + 2 BY <1>9, <3>1
    <3> QED BY <2>2, <3>1, <3>2
  <2> HIDE DEF G
  <2>3. \A n \in 0 .. N : n \in G BY <1>1, <2>1, <2>2, Induction
  <2> QED BY <2>3 DEF G
<1>11. /\ Len(B) = 2 * N
       /\ \A m \in 1 .. N : /\ 2 * m - 1 \in 1 .. Len(B) /\ B[2 * m - 1] = Header(SiteOrder[m])
                            /\ 2 * m \in 1 .. Len(B) /\ B[2 * m] = OldServer
       /\ \A i \in 1 .. Len(B) : \E m \in 1 .. N : i = 2 * m - 1 \/ i = 2 * m
  <2>1. N \in 0 .. N BY <1>1
  <2>2. \A m \in 1 .. N : m - 1 \in 0 .. N /\ place[m - 1] = 2 * m - 2
    BY <1>1, <1>10
  <2>3. \A m \in 1 .. N : place[m - 1] + 1 = 2 * m - 1 /\ place[m - 1] + 2 = 2 * m BY <1>1, <2>2
  <2>4. ASSUME NEW i \in 1 .. Len(B) PROVE \E m \in 1 .. N : i = 2 * m - 1 \/ i = 2 * m
    <3>1. PICK m \in 1 .. N : \E j \in 1 .. 2 : i = place[m - 1] + j BY <1>9
    <3>2. i = place[m - 1] + 1 \/ i = place[m - 1] + 2 BY <3>1
    <3> QED BY <2>3, <3>2
  <2> QED BY <1>9, <1>10, <2>1, <2>3, <2>4
<1>12. /\ OldFile \in Seq(Lines) /\ Len(OldFile) = 2 + Len(B) /\ Len(B) \in Nat
       /\ \A i \in 1 .. 2 : OldFile[i] = A[i]
       /\ \A i \in 1 .. Len(B) : OldFile[2 + i] = B[i]
  <2> DEFINE b == B
  <2>1. b \in Seq(Lines) /\ OldFile = A \o b BY <1>6, <1>7
  <2> HIDE DEF b
  <2>2. /\ OldFile \in Seq(Lines) /\ Len(OldFile) = 2 + Len(b) /\ Len(b) \in Nat
        /\ \A i \in 1 .. 2 : OldFile[i] = A[i]
        /\ \A i \in 1 .. Len(b) : OldFile[2 + i] = b[i]
    <3>1. \A x1, x2 \in Seq(Lines) :
            /\ x1 \o x2 \in Seq(Lines) /\ Len(x1 \o x2) = Len(x1) + Len(x2) /\ Len(x2) \in Nat
            /\ \A i \in 1 .. Len(x1) : (x1 \o x2)[i] = x1[i]
            /\ \A i \in 1 .. Len(x2) : (x1 \o x2)[Len(x1) + i] = x2[i]
      OBVIOUS
    <3>2. A \in Seq(Lines) /\ Len(A) = 2 BY <1>5
    <3>3. /\ A \o b \in Seq(Lines) /\ Len(A \o b) = Len(A) + Len(b) /\ Len(b) \in Nat
          /\ \A i \in 1 .. Len(A) : (A \o b)[i] = A[i]
          /\ \A i \in 1 .. Len(b) : (A \o b)[Len(A) + i] = b[i]
      BY <2>1, <3>1, <3>2, Zenon
    <3> QED BY <2>1, <3>2, <3>3, Zenon
  <2> QED BY <2>2 DEF b
<1>13. ASSUME NEW j \in 1 .. N
       PROVE  OldFile[2 * j + 1] = Header(SiteOrder[j]) /\ OldFile[2 * j + 2] = OldServer
  <2>1. 2 + (2 * j - 1) = 2 * j + 1 /\ 2 + 2 * j = 2 * j + 2 BY <1>1
  <2> QED BY <1>11, <1>12, <2>1
<1>14. ASSUME NEW i \in 1 .. 2 * N + 2
       PROVE  i = 1 \/ i = 2 \/ \E j \in 1 .. N : i = 2 * j + 1 \/ i = 2 * j + 2
  <2>1. CASE i > 2
    <3>1. i - 2 \in 1 .. Len(B) BY <1>1, <1>11, <2>1
    <3>2. PICK m \in 1 .. N : i - 2 = 2 * m - 1 \/ i - 2 = 2 * m BY <1>11, <3>1
    <3>3. i = 2 * m + 1 \/ i = 2 * m + 2 BY <1>1, <3>2
    <3> QED BY <3>3
  <2> QED BY <1>1, <2>1
<1>15. OldFile[1] = Header("Global") /\ OldFile[2] = OldFolder /\ Len(OldFile) = 2 * N + 2
  BY <1>1, <1>5, <1>11, <1>12
<1> QED BY <1>1, <1>12, <1>13, <1>14, <1>15 DEF N

\* What the lines of OldFile are, one by one.
LEMMA OldLine ==
  ASSUME NEW i \in 1 .. Len(OldFile)
  PROVE  /\ \/ i = 1 /\ OldFile[i].section = "Global"
            \/ i # 1 /\ OldFile[i].section \in Sites \cup {"none"}
         /\ OldFile[i].key \in {"none", "local_directory", "server"}
         /\ OldFile[i].key = "server" => OldFile[i].val.text = "http"
         /\ ~Shows(OldFile[i].val, "brackets")
<1> DEFINE N == Len(SiteOrder)
           l == OldFile[i]
<1>1. i = 1 \/ i = 2 \/ \E j \in 1 .. N : i = 2 * j + 1 \/ i = 2 * j + 2 BY OldLines
<1>2. N \in Nat /\ \A j \in 1 .. N : SiteOrder[j] \in Sites BY SiteOrderLists
<1>3. CASE i = 1
  <2>1. l = Header("Global") BY <1>3, OldLines
  <2> QED BY <1>3, <2>1 DEF Header, Shows, Empty, Plain
<1>4. CASE i = 2
  <2>1. l = OldFolder BY <1>4, OldLines
  <2> QED BY <1>4, <2>1 DEF OldFolder, KeyLine, Shows, Plain
<1>5. CASE \E j \in 1 .. N : i = 2 * j + 1
  <2>1. PICK j \in 1 .. N : i = 2 * j + 1 BY <1>5
  <2>2. l = Header(SiteOrder[j]) /\ i # 1 BY <1>2, <2>1, OldLines
  <2> HIDE DEF l, N
  <2> QED BY <1>2, <2>2 DEF Header, Shows, Empty, Plain, l
<1>6. CASE \E j \in 1 .. N : i = 2 * j + 2
  <2>1. PICK j \in 1 .. N : i = 2 * j + 2 BY <1>6
  <2>2. l = OldServer /\ i # 1 BY <1>2, <2>1, OldLines
  <2> HIDE DEF l, N
  <2> QED BY <2>2 DEF OldServer, KeyLine, Shows, Plain, l
<1> QED BY <1>1, <1>3, <1>4, <1>5, <1>6

\* Every address there is to be converted.
LEMMA OldOwn ==
  ASSUME NEW entered, \A s \in Sites : "dav" \in entered[s]
  PROVE  Own(OldFile, entered, Sites)
<1> DEFINE N == Len(SiteOrder)
           M == Len(OldFile)
<1>1. N \in Nat /\ M = 2 * N + 2 /\ OldFile \in Seq(Lines) /\ DOMAIN OldFile = 1 .. M BY OldLines
<1>2. SUFFICES ASSUME NEW h \in 1 .. M, NEW i \in 1 .. M, InSection(OldFile, h, i),
                      OldFile[h].section \in Sites, OldFile[i].key = "server"
               PROVE  Found(OldFile, h, i) /\ OldFile[i].val.text = "http"
  BY <1>1 DEF Own
<1>3. OldFile[i].val.text = "http" BY <1>2, OldLine
<1>4. PICK j \in 1 .. N : h = 2 * j + 1
  <2>1. OldFile[h].section # "Global" /\ OldFile[h].section # "none" BY <1>2, NamesDiffer
  <2>2. h = 1 \/ h = 2 \/ \E j \in 1 .. N : h = 2 * j + 1 \/ h = 2 * j + 2 BY <1>1, OldLines
  <2>3. h # 1 /\ h # 2
    BY <2>1, OldLines DEF Header, OldFolder, KeyLine
  <2>4. ASSUME NEW j \in 1 .. N, h = 2 * j + 2 PROVE FALSE
    <3>1. OldFile[h] = OldServer BY <2>4, OldLines
    <3> QED BY <2>1, <3>1 DEF OldServer, KeyLine
  <2> QED BY <2>2, <2>3, <2>4
<1>5. i = h + 1
  <2>1. h < i /\ \A m \in h + 1 .. i : ~IsHeader(OldFile[m]) BY <1>2 DEF InSection
  <2> SUFFICES ASSUME i # h + 1 PROVE FALSE OBVIOUS
  <2>2. j + 1 \in 1 .. N /\ 2 * (j + 1) + 1 = h + 2 /\ h + 2 \in h + 1 .. i BY <1>1, <1>4, <2>1
  <2>3. OldFile[h + 2] = Header(SiteOrder[j + 1]) BY <2>2, OldLines
  <2>4. SiteOrder[j + 1] \in Sites BY <2>2, SiteOrderLists
  <2>5. IsHeader(OldFile[h + 2]) BY <2>3, <2>4, NamesDiffer DEF Header, IsHeader
  <2> QED BY <2>1, <2>2, <2>5
<1>6. OldFile[h].section = SiteOrder[j]
  <2>1. OldFile[h] = Header(SiteOrder[j]) BY <1>4, OldLines
  <2> QED BY <2>1 DEF Header
<1>7. ASSUME NEW m \in 1 .. h - 1 PROVE OldFile[m].section # OldFile[h].section
  <2>1. OldFile[h].section # "Global" /\ OldFile[h].section # "none" BY <1>2, NamesDiffer
  <2>2. m \in 1 .. 2 * N + 2 BY <1>1
  <2>3. m = 1 \/ m = 2 \/ \E k \in 1 .. N : m = 2 * k + 1 \/ m = 2 * k + 2 BY <2>2, OldLines
  <2>4. CASE m = 1 \/ m = 2 BY <2>1, <2>4, OldLines DEF Header, OldFolder, KeyLine
  <2>5. CASE \E k \in 1 .. N : m = 2 * k + 2
    <3>1. OldFile[m] = OldServer BY <2>5, OldLines
    <3> QED BY <2>1, <3>1 DEF OldServer, KeyLine
  <2>6. CASE \E k \in 1 .. N : m = 2 * k + 1
    <3>1. PICK k \in 1 .. N : m = 2 * k + 1 BY <2>6
    <3>2. k # j BY <1>1, <1>4, <3>1
    <3>3. SiteOrder[k] # SiteOrder[j] BY <3>2, SiteOrderLists
    <3>4. OldFile[m] = Header(SiteOrder[k]) BY <3>1, OldLines
    <3>5. OldFile[m].section = SiteOrder[k] BY <3>4 DEF Header
    <3> QED BY <1>6, <3>3, <3>5
  <2> QED BY <2>3, <2>4, <2>5, <2>6
<1>8. h + 1 .. i - 1 = {} BY <1>1, <1>5
<1>9. Found(OldFile, h, i) BY <1>7, <1>8 DEF Found
<1> QED BY <1>3, <1>9

LEMMA OldUndated == ~Dates(OldFile)
<1> SUFFICES ASSUME Dates(OldFile) PROVE FALSE OBVIOUS
<1>1. PICK p \in 1 .. Len(OldFile), q \in 1 .. Len(OldFile) : DatedAt(OldFile, p, q) BY DEF Dates
<1>2. OldFile[q].key = "config_version" BY <1>1 DEF DatedAt
<1> QED BY <1>2, OldLine

-----------------------------------------------------------------------------
(* Files without a version.                                                 *)

\* The first write of LoadConfig finds such lines.
LEMMA LedRead ==
  ASSUME NEW file \in Seq(Lines), ~EndsInGlobal(file), Bare(file) \/ file = OldFile
  PROVE  Led(OpenIniFile(file).entries)
<1> DEFINE es == OpenIniFile(file).entries
           n == Len(file)
<1>1. /\ n \in Nat /\ es \in Seq(Lines) /\ Len(es) = n /\ DOMAIN file = 1 .. n
      /\ \A j \in 1 .. n : es[j] = file[j] \/ es[j].section = "stray"
  BY ReadLines
<1>2. "stray" \notin Sites /\ "stray" # "Global" /\ "Global" \notin Sites /\ "none" # "Global"
  BY NamesDiffer
<1> HIDE DEF es
<1>3. n # 0 => es[n].section # "Global"
  <2> SUFFICES ASSUME n # 0, es[n].section = "Global" PROVE FALSE OBVIOUS
  <2>1. n \in 1 .. n BY <1>1
  <2>2. es[n] = file[n] /\ file[n] \in Lines BY <1>1, <1>2, <2>1
  <2>3. file[n] = Header("Global") BY <1>2, <2>2, LineKinds
  <2>4. Last(file) = file[n] /\ file # <<>> BY <1>1 DEF Last
  <2> QED BY <2>3, <2>4 DEF EndsInGlobal
<1>4. ASSUME NEW j \in 1 .. n, es[j].section \in Sites
      PROVE  \E p \in 1 .. j - 1 : es[p].section = "Global"
  <2>1. es[j] = file[j] BY <1>1, <1>2, <1>4
  <2>2. file = OldFile BY <1>1, <1>4, <2>1 DEF Bare
  <2>3. j # 1 /\ 1 \in 1 .. n
    <3>1. 1 \in 1 .. n BY <1>1
    <3>2. OldFile[1].section = "Global" BY OldLines DEF Header
    <3> QED BY <1>2, <1>4, <2>1, <2>2, <3>1, <3>2
  <2>4. file[1].section = "Global" /\ ~Shows(file[1].val, "brackets")
    BY <2>2, OldLines DEF Header, Empty, Plain, Shows
  <2>5. es[1] = file[1]
    <3>1. IsHeader(file[1]) BY <1>2, <2>4 DEF IsHeader
    <3> QED BY <2>3, <2>4, <3>1, ReadLines DEF es
  <2>6. 1 \in 1 .. j - 1 BY <1>1, <2>3
  <2> QED BY <2>4, <2>5, <2>6
<1> QED BY <1>1, <1>3, <1>4 DEF Led, es

LEMMA BareUnread ==
  ASSUME NEW file \in Seq(Lines), Bare(file), NEW s \in Sites
  PROVE  ReadString(OpenIniFile(file), s, "server", Empty) = Empty
<1> DEFINE es == OpenIniFile(file).entries
<1>1. /\ es \in Seq(Lines) /\ Len(es) = Len(file) /\ DOMAIN file = 1 .. Len(file)
      /\ \A j \in 1 .. Len(file) : es[j] = file[j] \/ es[j].section = "stray"
  BY ReadLines
<1>2. \A j \in 1 .. Len(es) : es[j].section # s
  BY <1>1, NamesDiffer DEF Bare
<1> HIDE DEF es
<1>3. s \in Sections /\ OpenIniFile(file) \in IniLists BY NamesDiffer, ReadLines
<1> QED BY <1>2, <1>3, ReadStringCases DEF es

LEMMA OldEnds == ~EndsInGlobal(OldFile)
<1> DEFINE n == Len(OldFile)
<1>1. OldFile \in Seq(Lines) /\ n \in Nat /\ n >= 2
  <2>1. OldFile \in Seq(Lines) /\ n = 2 * Len(SiteOrder) + 2 /\ Len(SiteOrder) \in Nat BY OldLines
  <2> QED BY <2>1
<1>2. OldFile[n].section # "Global"
  <2>1. n \in 1 .. n /\ n # 1 BY <1>1
  <2> QED BY <2>1, OldLine, NamesDiffer
<1>3. Last(OldFile) = OldFile[n] BY DEF Last
<1> QED BY <1>2, <1>3 DEF EndsInGlobal, Header

-----------------------------------------------------------------------------
(* The writes of LoadConfig.                                                *)

LEMMA PutIsPut ==
  ASSUME NEW s \in Sections, NEW k \in Keys, NEW v \in Values
  PROVE  /\ Put(s, k, v) \in Puts /\ Put(s, k, v).section = s
         /\ Put(s, k, v).key = k /\ Put(s, k, v).val = v
BY DEF Put, Puts

LEMMA ChangedValues ==
  ASSUME NEW v \in Values
  PROVE  Encrypt(v) \in Values /\ Decrypt(v) \in Values /\ Converted(v) \in Values
<1>1. "dav" \in Words BY DEF Words
<1>2. Encrypt(v) \in Values BY DEF Encrypt, Values
<1>3. Decrypt(v) \in Values BY DEF Decrypt, Values
<1>4. Converted(v) \in Values BY <1>1 DEF Converted, Values
<1> QED BY <1>2, <1>3, <1>4

LEMMA LoadedTyped ==
  ASSUME NEW list \in IniLists, NEW s \in Sites, NEW k \in SiteKeys
  PROVE  Loaded(list, s, k) \in Values
<1> DEFINE default == IF k = "directory" THEN Plain("/") ELSE Empty
           v == ReadString(list, s, k, default)
<1>1. s \in Sections /\ default \in Values BY PlainValues, NamesDiffer
<1>2. v \in Values BY <1>1, ReadStringTyped
<1>3. Loaded(list, s, k) \in {v, Converted(v), Decrypt(v)} BY Zenon DEF Loaded
<1> HIDE DEF v
<1>4. Converted(v) \in Values /\ Decrypt(v) \in Values BY <1>2, ChangedValues
<1> QED BY <1>2, <1>3, <1>4

\* An address as it is read was entered, or is the conversion of one that was.
LEMMA LoadedAddress ==
  ASSUME NEW list \in IniLists, NEW s \in Sites, NEW entered,
         "none" \in entered[s],
         Own(list.entries, entered, IF VersionRead(list) THEN {} ELSE Sites)
  PROVE  WasEntered(entered, s, Loaded(list, s, "server").text)
<1> DEFINE open == IF VersionRead(list) THEN {} ELSE Sites
           v == ReadString(list, s, "server", Empty)
<1>1. \/ WasEntered(entered, s, v.text)
      \/ s \in open /\ v.text = "http" /\ "dav" \in entered[s]
  BY AddressRead
<1>2. Loaded(list, s, "server") = IF VersionRead(list) THEN v ELSE Converted(v)
  BY DEF Loaded
<1>3. v \in Values BY PlainValues, NamesDiffer, ReadStringTyped
<1> HIDE DEF v
<1>4. CASE VersionRead(list) BY <1>1, <1>2, <1>4
<1>5. CASE ~VersionRead(list)
  <2>1. Loaded(list, s, "server") = Converted(v) BY <1>2, <1>5
  <2>2. CASE v.text = "http"
    <3>1. Converted(v).text = "dav" BY <1>3, <2>2 DEF Converted, Values
    <3>2. "http" \in entered[s] \/ "dav" \in entered[s] BY <1>1, <2>2 DEF WasEntered
    <3> QED BY <2>1, <3>1, <3>2 DEF WasEntered
  <2>3. CASE v.text # "http"
    <3>1. Converted(v) = v BY <2>3 DEF Converted
    <3> QED BY <1>1, <2>1, <2>3, <3>1
  <2> QED BY <2>2, <2>3
<1> QED BY <1>4, <1>5

\* What LoadConfig writes for a site.
SitePut(list, w) ==
  /\ w \in Puts /\ w.section \in Sites /\ w.key \in SiteKeys
  /\ w.val = IF w.key = "password" THEN Encrypt(Loaded(list, w.section, "password"))
             ELSE Loaded(list, w.section, w.key)

LEMMA SiteWritesPut ==
  ASSUME NEW list \in IniLists
  PROVE  LET B == SiteWrites(list) IN
         /\ B \in Seq(Puts) /\ \A n \in 1 .. Len(B) : SitePut(list, B[n])
         /\ \A s \in Sites : \E n \in 1 .. Len(B) : B[n].section = s /\ B[n].key = "server"
<1> DEFINE N == Len(SiteOrder)
           B == SiteWrites(list)
           a(s) == Put(s, "server", Loaded(list, s, "server"))
           b(s) == Put(s, "password", Encrypt(Loaded(list, s, "password")))
           c(s) == Put(s, "directory", Loaded(list, s, "directory"))
           T(s) == <<a(s), b(s), c(s)>>
           P == [i \in DOMAIN SiteOrder |-> T(SiteOrder[i])]
<1>1. /\ N \in Nat /\ DOMAIN SiteOrder = 1 .. N
      /\ \A j \in 1 .. N : SiteOrder[j] \in Sites
  BY SiteOrderLists
<1>2. B = FlattenSeq(P) BY DEF SiteWrites
<1>3. ASSUME NEW s \in Sites
      PROVE  /\ SitePut(list, a(s)) /\ SitePut(list, b(s)) /\ SitePut(list, c(s))
             /\ a(s).section = s /\ a(s).key = "server"
  <2>1. s \in Sections BY NamesDiffer
  <2>2. {"server", "password", "directory"} \subseteq Keys
        /\ {"server", "password", "directory"} \subseteq SiteKeys
    BY DEF Keys, SiteKeys
  <2>3. a(s) \in Puts /\ a(s).section = s /\ a(s).key = "server"
        /\ a(s).val = Loaded(list, s, "server")
    BY <2>1, <2>2, LoadedTyped, PutIsPut
  <2>4. b(s) \in Puts /\ b(s).section = s /\ b(s).key = "password"
        /\ b(s).val = Encrypt(Loaded(list, s, "password"))
    <3>1. Encrypt(Loaded(list, s, "password")) \in Values BY <2>2, LoadedTyped, ChangedValues
    <3> QED BY <2>1, <2>2, <3>1, PutIsPut
  <2>5. c(s) \in Puts /\ c(s).section = s /\ c(s).key = "directory"
        /\ c(s).val = Loaded(list, s, "directory")
    BY <2>1, <2>2, LoadedTyped, PutIsPut
  <2> HIDE DEF a, b, c
  <2> QED BY <2>2, <2>3, <2>4, <2>5 DEF SitePut
<1> HIDE DEF a, b, c
<1>4. ASSUME NEW j \in 1 .. N
      PROVE  LET s == SiteOrder[j] IN
             /\ P[j] \in Seq(Puts) /\ Len(P[j]) = 3
             /\ P[j][1] = a(s) /\ P[j][2] = b(s) /\ P[j][3] = c(s)
  <2> DEFINE s == SiteOrder[j]
  <2>1. P[j] = <<a(s), b(s), c(s)>> /\ s \in Sites BY <1>1
  <2>2. a(s) \in Puts /\ b(s) \in Puts /\ c(s) \in Puts BY <1>3, <2>1 DEF SitePut
  <2> HIDE DEF s, P
  <2>3. P[j] \in Seq(Puts) /\ Len(P[j]) = 3 /\ P[j][1] = a(s) /\ P[j][2] = b(s) /\ P[j][3] = c(s)
    BY <2>1, <2>2
  <2> QED BY <2>3 DEF s
<1>5. P \in Seq(Seq(Puts)) /\ Len(P) = N
  <2> DEFINE Q == Seq(Puts)
  <2>1. \A j \in 1 .. N : P[j] \in Q BY <1>4, Zenon
  <2>2. P = [j \in 1 .. N |-> P[j]] BY <1>1
  <2> HIDE DEF Q, P, N
  <2>3. P \in Seq(Q) /\ Len(P) = N BY <1>1, <2>1, <2>2
  <2> QED BY <2>3 DEF Q
<1> HIDE DEF P, N, B
<1>6. B \in Seq(Puts) /\ \E place : Places(place, P) BY <1>2, <1>5, FlattenPlaces
<1>7. PICK place : Places(place, P) BY <1>6
<1>8. /\ \A m \in 1 .. N : \A j \in 1 .. Len(P[m]) :
           place[m - 1] + j \in 1 .. Len(B) /\ B[place[m - 1] + j] = P[m][j]
      /\ \A i \in 1 .. Len(B) : \E m \in 1 .. N : \E j \in 1 .. Len(P[m]) : i = place[m - 1] + j
  BY <1>2, <1>5, <1>7, Zenon DEF Places
<1>9. ASSUME NEW i \in 1 .. Len(B) PROVE SitePut(list, B[i])
  <2>1. PICK m \in 1 .. N : \E j \in 1 .. Len(P[m]) : i = place[m - 1] + j BY <1>8, Zenon
  <2>2. PICK j \in 1 .. Len(P[m]) : i = place[m - 1] + j BY <2>1
  <2>3. B[i] = P[m][j] BY <1>8, <2>2, Zenon
  <2> DEFINE s == SiteOrder[m]
  <2>4. /\ Len(P[m]) = 3 /\ s \in Sites
        /\ P[m][1] = a(s) /\ P[m][2] = b(s) /\ P[m][3] = c(s)
    BY <1>1, <1>4
  <2> HIDE DEF s
  <2>5. j = 1 \/ j = 2 \/ j = 3 BY <2>4
  <2>6. B[i] = a(s) \/ B[i] = b(s) \/ B[i] = c(s) BY <2>3, <2>4, <2>5, Zenon
  <2> QED BY <1>3, <2>4, <2>6, Zenon
<1>10. ASSUME NEW s \in Sites
       PROVE  \E n \in 1 .. Len(B) : B[n].section = s /\ B[n].key = "server"
  <2>1. PICK m \in 1 .. N : SiteOrder[m] = s BY SiteOrderLists DEF N
  <2>2. Len(P[m]) = 3 /\ P[m][1] = a(s) BY <1>4, <2>1
  <2>3. 1 \in 1 .. Len(P[m]) BY <2>2
  <2>4. place[m - 1] + 1 \in 1 .. Len(B) /\ B[place[m - 1] + 1] = a(s)
    BY <1>8, <2>2, <2>3, Zenon
  <2> QED BY <1>3, <2>4, Zenon
<1> QED BY <1>6, <1>9, <1>10 DEF B

LEMMA LoadWritesPut ==
  ASSUME NEW list \in IniLists
  PROVE  LET W == LoadWrites(list) IN
         /\ W \in Seq(Puts) /\ Len(W) \in Nat /\ Len(W) # 0
         /\ W[1] = Put("Global", "config_version", Plain("1"))
         /\ \A n \in 1 .. Len(W) :
              \/ W[n] = Put("Global", "config_version", Plain("1"))
              \/ /\ W[n].section = "Global" /\ W[n].key # "config_version" /\ W[n] \in Puts
                 /\ W[n] \in {FolderWrite(list), Put("Global", "last_site", LoadedSite(list))}
              \/ SitePut(list, W[n])
         /\ \A s \in Sites : \E n \in 1 .. Len(W) : W[n].section = s /\ W[n].key = "server"
<1> DEFINE W == LoadWrites(list)
           B == SiteWrites(list)
           a == Put("Global", "config_version", Plain("1"))
           b == FolderWrite(list)
           c == Put("Global", "last_site", LoadedSite(list))
<1>1. "Global" \in Sections /\ {"config_version", "local_directory", "last_site"} \subseteq Keys
  BY NamesDiffer DEF Keys
<1>2. a \in Puts BY <1>1, PlainValues, PutIsPut
<1>3. b \in Puts /\ b.section = "Global" /\ b.key = "local_directory"
  <2>1. ReadString(list, "Global", "local_directory", Plain("/")) \in Values
    BY <1>1, PlainValues, ReadStringTyped
  <2> QED BY <1>1, <2>1, PutIsPut DEF FolderWrite
<1>4. c \in Puts /\ c.section = "Global" /\ c.key = "last_site"
  <2>1. SiteOrder[1] \in Sites
    <3>1. 1 \in 1 .. Len(SiteOrder) BY SiteOrderLists
    <3> QED BY <3>1, SiteOrderLists
  <2>2. LoadedSite(list) \in Values BY <1>1, <2>1, PlainValues, ReadStringTyped DEF LoadedSite
  <2> QED BY <1>1, <2>2, PutIsPut
<1>5. /\ B \in Seq(Puts) /\ \A n \in 1 .. Len(B) : SitePut(list, B[n])
      /\ \A s \in Sites : \E n \in 1 .. Len(B) : B[n].section = s /\ B[n].key = "server"
  BY SiteWritesPut
<1>6. W = <<a, b>> \o B \o <<c>> BY DEF LoadWrites
<1> HIDE DEF W, B, a, b, c
<1> DEFINE A == <<a, b>>
           C == <<c>>
<1>7. A \in Seq(Puts) /\ Len(A) = 2 /\ A[1] = a /\ A[2] = b BY <1>2, <1>3
<1>8. C \in Seq(Puts) /\ Len(C) = 1 /\ C[1] = c BY <1>4
<1>9. W = (A \o B) \o C BY <1>6
<1> HIDE DEF A, C
<1>10. \A x, y \in Seq(Puts) :
         /\ x \o y \in Seq(Puts) /\ Len(x \o y) = Len(x) + Len(y) /\ Len(x) \in Nat /\ Len(y) \in Nat
         /\ \A i \in 1 .. Len(x) : (x \o y)[i] = x[i]
         /\ \A i \in 1 .. Len(y) : (x \o y)[Len(x) + i] = y[i]
  OBVIOUS
<1> DEFINE D == A \o B
<1>11. /\ D \in Seq(Puts) /\ Len(D) = Len(A) + Len(B) /\ Len(B) \in Nat
       /\ \A i \in 1 .. Len(A) : D[i] = A[i]
       /\ \A i \in 1 .. Len(B) : D[Len(A) + i] = B[i]
  BY <1>5, <1>7, <1>10, Zenon
<1>12. W = D \o C BY <1>9
<1> HIDE DEF D
<1>13. /\ W \in Seq(Puts) /\ Len(W) = Len(D) + Len(C) /\ Len(D) \in Nat
       /\ \A i \in 1 .. Len(D) : W[i] = D[i]
       /\ \A i \in 1 .. Len(C) : W[Len(D) + i] = C[i]
  BY <1>8, <1>10, <1>11, <1>12, Zenon
<1>14. Len(D) = Len(B) + 2 /\ Len(W) = Len(B) + 3 /\ Len(W) \in Nat /\ Len(W) # 0
  BY <1>7, <1>8, <1>11, <1>13
<1>15. W[1] = a /\ W[2] = b /\ W[Len(B) + 3] = c
  <2>1. 1 \in 1 .. Len(D) /\ 2 \in 1 .. Len(D) /\ 1 \in 1 .. Len(A) /\ 2 \in 1 .. Len(A)
        /\ 1 \in 1 .. Len(C) /\ Len(D) + 1 = Len(B) + 3
    BY <1>7, <1>8, <1>11, <1>14
  <2>2. W[1] = D[1] /\ W[2] = D[2] /\ D[1] = A[1] /\ D[2] = A[2] BY <1>11, <1>13, <2>1, Zenon
  <2>3. W[Len(D) + 1] = C[1] BY <1>13, <2>1, Zenon
  <2> QED BY <1>7, <1>8, <2>1, <2>2, <2>3
<1>16. \A i \in 1 .. Len(B) : W[2 + i] = B[i] /\ 2 + i \in 1 .. Len(W)
  BY <1>7, <1>11, <1>13, <1>14
<1>17. ASSUME NEW n \in 1 .. Len(W)
       PROVE  \/ W[n] = a
              \/ /\ W[n].section = "Global" /\ W[n].key # "config_version" /\ W[n] \in Puts
                 /\ W[n] \in {b, c}
              \/ SitePut(list, W[n])
  <2>1. n = 1 \/ n = 2 \/ n = Len(B) + 3 \/ n - 2 \in 1 .. Len(B) BY <1>11, <1>14
  <2>2. CASE n = 1 BY <1>15, <2>2
  <2>3. CASE n = 2 BY <1>3, <1>15, <2>3
  <2>4. CASE n = Len(B) + 3 BY <1>4, <1>15, <2>4
  <2>5. CASE n - 2 \in 1 .. Len(B)
    <3>1. 2 + (n - 2) = n BY <1>14
    <3>2. W[n] = B[n - 2] BY <1>16, <2>5, <3>1
    <3> QED BY <1>5, <2>5, <3>2
  <2> QED BY <2>1, <2>2, <2>3, <2>4, <2>5
<1>18. ASSUME NEW s \in Sites
       PROVE  \E n \in 1 .. Len(W) : W[n].section = s /\ W[n].key = "server"
  <2>1. PICK n \in 1 .. Len(B) : B[n].section = s /\ B[n].key = "server" BY <1>5
  <2> QED BY <1>16, <2>1
<1> QED BY <1>13, <1>14, <1>15, <1>17, <1>18 DEF W, a, b, c

-----------------------------------------------------------------------------
(* One write after the other.                                               *)

\* The sites whose address is among the first n writes.
Addressed(writes, n) ==
  {writes[m].section : m \in {j \in 1 .. n : writes[j].key = "server"}}

LEMMA OwnWrites ==
  ASSUME NEW list \in IniLists, NEW writes \in Seq(Puts), NEW entered, NEW open,
         Own(list.entries, entered, open),
         \A n \in 1 .. Len(writes) : writes[n].section \in Sites /\ writes[n].key = "server"
            => WasEntered(entered, writes[n].section, writes[n].val.text)
  PROVE  Own(WriteStrings(list, writes).entries, entered, open \ Addressed(writes, Len(writes)))
<1> DEFINE N == Len(writes)
           L == IniLists
<1>1. PICK f \in [0 .. N -> IniLists] :
        /\ f[0] = list /\ f[N] = WriteStrings(list, writes)
        /\ \A n \in 1 .. N : f[n] = WritePut(f[n - 1], writes[n])
  BY WriteStringsSteps
<1>2. N \in Nat /\ \A n \in 1 .. N : writes[n] \in Puts OBVIOUS
<1>3. \A n \in 0 .. N : f[n] \in L OBVIOUS
<1> HIDE DEF N, L
<1> DEFINE G == {n \in 0 .. N : Own(f[n].entries, entered, open \ Addressed(writes, n))}
<1>4. 0 \in G
  <2>1. Addressed(writes, 0) = {} BY DEF Addressed
  <2>2. open \ {} = open OBVIOUS
  <2>3. 0 \in 0 .. N BY <1>2
  <2> QED BY <1>1, <2>1, <2>2, <2>3
<1>5. ASSUME NEW n \in 0 .. N - 1, n \in G PROVE n + 1 \in G
  <2> DEFINE w == writes[n + 1]
             now == open \ Addressed(writes, n)
  <2>1. n + 1 \in 1 .. N /\ n + 1 \in 0 .. N /\ n \in 0 .. N /\ (n + 1) - 1 = n BY <1>2
  <2>2. f[n + 1] = WritePut(f[n], w) /\ w \in Puts /\ f[n] \in IniLists
    BY <1>1, <1>2, <1>3, <2>1 DEF L
  <2>3. w.section \in Sites /\ w.key = "server" => WasEntered(entered, w.section, w.val.text)
    BY <2>1 DEF N
  <2>4. Own(f[n].entries, entered, now) BY <1>5
  <2>5. StillOpen(now, w.section, w.key) = open \ Addressed(writes, n + 1)
    <3>1. \A j : j \in 1 .. n + 1 <=> j \in 1 .. n \/ j = n + 1 BY <1>2
    <3>2. CASE w.key = "server"
      <4>1. Addressed(writes, n + 1) = Addressed(writes, n) \cup {w.section} BY <3>1, <3>2 DEF Addressed
      <4>2. StillOpen(now, w.section, w.key) = now \ {w.section} BY <3>2 DEF StillOpen
      <4> QED BY <4>1, <4>2
    <3>3. CASE w.key # "server"
      <4>1. Addressed(writes, n + 1) = Addressed(writes, n) BY <3>1, <3>3 DEF Addressed
      <4>2. StillOpen(now, w.section, w.key) = now BY <3>3 DEF StillOpen
      <4> QED BY <4>1, <4>2
    <3> QED BY <3>2, <3>3
  <2> HIDE DEF w, now
  <2>6. Own(f[n + 1].entries, entered, StillOpen(now, w.section, w.key))
    BY <2>2, <2>3, <2>4, OwnWrite
  <2> QED BY <2>1, <2>5, <2>6
<1> HIDE DEF G
<1>6. \A n \in 0 .. N : n \in G BY <1>2, <1>4, <1>5, Induction
<1>7. N \in G BY <1>2, <1>6
<1> QED BY <1>1, <1>7 DEF G, N

LEMMA VersionedWrites ==
  ASSUME NEW list \in IniLists, NEW writes \in Seq(Puts),
         \A n \in 1 .. Len(writes) : Harmless(writes[n]),
         \/ Versioned(list.entries, list.cur)
         \/ /\ Len(writes) # 0 /\ IsVersion(writes[1])
            /\ list.cur = Len(list.entries) /\ Led(list.entries)
            /\ \A j \in 1 .. Len(list.entries) : ~Shows(list.entries[j].val, "brackets")
  PROVE  LET r == WriteStrings(list, writes) IN Versioned(r.entries, r.cur)
<1> DEFINE N == Len(writes)
           L == IniLists
           Good(l) == Versioned(l.entries, l.cur)
<1>1. PICK f \in [0 .. N -> IniLists] :
        /\ f[0] = list /\ f[N] = WriteStrings(list, writes)
        /\ \A n \in 1 .. N : f[n] = WritePut(f[n - 1], writes[n])
  BY WriteStringsSteps
<1>2. N \in Nat /\ \A n \in 1 .. N : writes[n] \in Puts OBVIOUS
<1>3. \A n \in 0 .. N : f[n] \in L OBVIOUS
<1> HIDE DEF N, L
<1> DEFINE G == {n \in 0 .. N : (n = 0 => Good(list)) => Good(f[n])}
<1>4. 0 \in G BY <1>1, <1>2
<1>5. ASSUME NEW n \in 0 .. N - 1, n \in G PROVE n + 1 \in G
  <2> DEFINE w == writes[n + 1]
  <2>1. n + 1 \in 1 .. N /\ n + 1 \in 0 .. N /\ n \in 0 .. N /\ (n + 1) - 1 = n BY <1>2
  <2>2. f[n + 1] = WritePut(f[n], w) /\ w \in Puts /\ f[n] \in IniLists /\ Harmless(w)
    BY <1>1, <1>2, <1>3, <2>1 DEF L, N
  <2>3. CASE Good(f[n])
    <3>1. Good(WritePut(f[n], w))
      <4> HIDE DEF w
      <4> QED BY <2>2, <2>3, VersionedWrite
    <3> QED BY <2>1, <2>2, <3>1
  <2>4. CASE ~Good(f[n])
    <3>1. n = 0 /\ ~Good(list) BY <1>5, <2>4
    <3>2. /\ IsVersion(w) /\ list.cur = Len(list.entries) /\ Led(list.entries)
          /\ \A j \in 1 .. Len(list.entries) : ~Shows(list.entries[j].val, "brackets")
          /\ f[n] = list
      BY <1>1, <3>1
    <3>3. Good(WritePut(list, w))
      <4> HIDE DEF w
      <4> QED BY <2>2, <3>2, FirstWrite
    <3> QED BY <2>1, <2>2, <3>2, <3>3
  <2> QED BY <2>3, <2>4
<1> HIDE DEF G
<1>6. \A n \in 0 .. N : n \in G BY <1>2, <1>4, <1>5, Induction
<1>7. N \in G BY <1>2, <1>6
<1>8. N = 0 => Good(list) BY DEF N
<1>9. Good(f[N]) BY <1>7, <1>8 DEF G
<1> QED BY <1>1, <1>9

LEMMA DatedWrites ==
  ASSUME NEW list \in IniLists, NEW writes \in Seq(Puts),
         Dates(WriteStrings(list, writes).entries),
         \A n \in 1 .. Len(writes) :
            ~ (writes[n].section = "Global" /\ writes[n].key = "config_version")
  PROVE  Dates(list.entries)
<1> DEFINE N == Len(writes)
           L == IniLists
           Good(l) == Dates(l.entries)
<1>1. PICK f \in [0 .. N -> IniLists] :
        /\ f[0] = list /\ f[N] = WriteStrings(list, writes)
        /\ \A n \in 1 .. N : f[n] = WritePut(f[n - 1], writes[n])
  BY WriteStringsSteps
<1>2. N \in Nat /\ \A n \in 1 .. N : writes[n] \in Puts OBVIOUS
<1>3. \A n \in 0 .. N : f[n] \in L OBVIOUS
<1> HIDE DEF N, L
<1> DEFINE G == {n \in 0 .. N : Good(f[n]) => Good(list)}
<1>4. 0 \in G BY <1>1, <1>2
<1>5. ASSUME NEW n \in 0 .. N - 1, n \in G PROVE n + 1 \in G
  <2> DEFINE w == writes[n + 1]
  <2>1. n + 1 \in 1 .. N /\ n + 1 \in 0 .. N /\ n \in 0 .. N /\ (n + 1) - 1 = n BY <1>2
  <2>2. /\ f[n + 1] = WritePut(f[n], w) /\ w \in Puts /\ f[n] \in IniLists
        /\ ~ (w.section = "Global" /\ w.key = "config_version")
    BY <1>1, <1>2, <1>3, <2>1 DEF L, N
  <2>3. Good(WritePut(f[n], w)) => Good(f[n])
    <3> HIDE DEF w
    <3> QED BY <2>2, DatedWrite
  <2>4. Good(f[n]) => Good(list) BY <1>5
  <2> QED BY <2>1, <2>2, <2>3, <2>4
<1> HIDE DEF G
<1>6. \A n \in 0 .. N : n \in G BY <1>2, <1>4, <1>5, Induction
<1>7. N \in G BY <1>2, <1>6
<1> QED BY <1>1, <1>7 DEF G

LEMMA WrittenLists ==
  ASSUME NEW list \in IniLists, NEW writes \in Seq(Puts)
  PROVE  WriteStrings(list, writes) \in IniLists
<1>1. PICK f \in [0 .. Len(writes) -> IniLists] : f[Len(writes)] = WriteStrings(list, writes)
  BY WriteStringsSteps
<1>2. Len(writes) \in 0 .. Len(writes)
  <2>1. Len(writes) \in Nat OBVIOUS
  <2> QED BY <2>1
<1> HIDE DEF IniLists
<1> QED BY <1>1, <1>2

-----------------------------------------------------------------------------
(* WriteIniFile.                                                            *)

LEMMA VersionedEnough ==
  ASSUME NEW list \in IniLists, Versioned(list.entries, list.cur)
  PROVE  Versioned(list.entries, Len(list.entries))
<1> DEFINE c == list.cur
           n == Len(list.entries)
<1>1. c \in Nat /\ n \in Nat /\ c <= n BY DEF IniLists
<1>2. PICK p \in 1 .. c, q \in 1 .. c : VersionAt(list.entries, p, q) BY DEF Versioned
<1> HIDE DEF c, n
<1>3. p \in 1 .. n /\ q \in 1 .. n BY <1>1
<1> QED BY <1>2, <1>3 DEF Versioned, n

LEMMA VersionedDates ==
  ASSUME NEW es, Versioned(es, Len(es))
  PROVE  Dates(es)
BY DEF Versioned, Dates, VersionAt

LEMMA OwnMore ==
  ASSUME NEW es, NEW entered, NEW open, NEW more, Own(es, entered, open), open \subseteq more
  PROVE  Own(es, entered, more)
BY DEF Own

\* The list the settings are written from.
LEMMA ListRead ==
  ASSUME ConfigInvariant
  PROVE  LET list == OpenIniFile(disk) IN
         /\ disk \in Seq(Lines) /\ list \in IniLists /\ list.cur = Len(list.entries)
         /\ \A j \in 1 .. Len(list.entries) : ~Shows(list.entries[j].val, "brackets")
         /\ Own(list.entries, ever, Unconverted)
<1>1. disk \in Seq(Lines) /\ Own(disk, ever, Unconverted) BY DEF ConfigInvariant, ConfigTypes
<1>2. Own(OpenIniFile(disk).entries, ever, Unconverted) BY <1>1, OwnRead
<1> QED BY <1>1, <1>2, ReadLines

\* No value in [Global] has brackets, or the section is tricky.
LEMMA HarmlessWrites ==
  ASSUME NEW list, NEW writes \in Seq(Puts), WriteIniFile(list, writes), "Global" \notin tricky',
         \A n \in 1 .. Len(writes) :
            writes[n].section = "Global" /\ writes[n].key = "config_version"
              => writes[n].val = Plain("1")
  PROVE  \A n \in 1 .. Len(writes) : Harmless(writes[n])
<1> SUFFICES ASSUME NEW n \in 1 .. Len(writes), writes[n].section = "Global"
             PROVE  /\ ~Shows(writes[n].val, "brackets")
                    /\ writes[n].key = "config_version" =>
                         writes[n].val.text = "1" /\ writes[n].val.mark # "half"
  BY DEF Harmless
<1>1. tricky' = tricky \cup {w.section : w \in {u \in Range(writes) : IsOdd(u.val)}}
  BY DEF WriteIniFile
<1>2. writes[n] \in Range(writes) BY DEF Range
<1>3. ~IsOdd(writes[n].val) BY <1>1, <1>2
<1> QED BY <1>3 DEF IsOdd, Plain

\* Where the lines to be written keep what there was, what is on the disk then does.
LEMMA WriteStep ==
  ASSUME ConfigInvariant, NEW writes \in Seq(Puts), ever' = ever,
         WriteIniFile(OpenIniFile(disk), writes),
         LET list  == OpenIniFile(disk)
             lines == WriteStrings(list, writes).entries
         IN  /\ Own(lines, ever, Unconverted)
             /\ Own(lines, ever, {}) \/ (Dates(lines) => Dates(list.entries))
             /\ unsure \/ "Global" \in tricky' \/ Versioned(lines, Len(lines))
  PROVE  /\ disk' \in Seq(Lines) /\ broken' \in Nat /\ old' \in BOOLEAN
         /\ running' \in BOOLEAN /\ unsure' \in BOOLEAN /\ tricky' \subseteq Sections
         /\ Own(disk, ever, Unconverted)'
         /\ Dated'
<1> DEFINE list  == OpenIniFile(disk)
           r     == WriteStrings(list, writes)
           lines == r.entries
<1>1. /\ ConfigTypes /\ Dated /\ disk \in Seq(Lines) /\ list \in IniLists
      /\ Own(disk, ever, Unconverted)
  BY ListRead DEF ConfigInvariant
<1>2. r \in IniLists /\ lines \in Seq(Lines)
  <2>1. r \in IniLists BY <1>1, WrittenLists
  <2> HIDE DEF r
  <2> QED BY <2>1 DEF IniLists
<1>3. /\ tricky' = tricky \cup {w.section : w \in {u \in Range(writes) : IsOdd(u.val)}}
      /\ \/ disk' = lines /\ broken' = broken /\ running' = TRUE /\ unsure' = unsure
         \/ /\ broken' = broken + 1 /\ disk' \in {disk} \cup BrokenOff(lines)
            /\ running' \in BOOLEAN
            /\ unsure' = (unsure \/ running' \/ EndsInGlobal(disk'))
      /\ old' = (old /\ disk' = disk)
  BY Zenon DEF WriteIniFile
<1>4. /\ Own(lines, ever, Unconverted)
      /\ Own(lines, ever, {}) \/ (Dates(lines) => Dates(list.entries))
      /\ unsure \/ "Global" \in tricky' \/ Versioned(lines, Len(lines))
  OBVIOUS
<1> HIDE DEF list, r, lines
<1>5. disk' = disk \/ disk' = lines \/ disk' \in BrokenOff(lines) BY <1>3
<1>6. disk' \in Seq(Lines)
  <2>1. CASE disk' \in BrokenOff(lines) BY <1>2, <2>1, CutLines
  <2> QED BY <1>1, <1>2, <1>5, <2>1
<1>7. broken' \in Nat /\ old' \in BOOLEAN /\ running' \in BOOLEAN /\ unsure' \in BOOLEAN
  <2>1. broken' \in Nat BY <1>1, <1>3 DEF ConfigTypes
  <2>2. old' \in BOOLEAN BY <1>3
  <2>3. running' \in BOOLEAN BY <1>3
  <2>4. unsure' \in BOOLEAN BY <1>1, <1>3 DEF ConfigTypes
  <2> QED BY <2>1, <2>2, <2>3, <2>4
<1>8. tricky' \subseteq Sections
  <2>1. ASSUME NEW u \in Range(writes) PROVE u.section \in Sections
    <3>1. PICK i \in DOMAIN writes : u = writes[i] BY DEF Range
    <3>2. u \in Puts BY <3>1
    <3> QED BY <3>2 DEF Puts
  <2> QED BY <1>1, <1>3, <2>1 DEF ConfigTypes
<1>9. Own(disk, ever, Unconverted)'
  <2> DEFINE now == IF VersionRead(OpenIniFile(disk')) THEN {} ELSE Sites
  <2>1. Unconverted' = now BY DEF Unconverted
  <2>2. SUFFICES Own(disk', ever, now) BY <2>1
  <2>3. CASE disk' = disk BY <1>1, <2>3 DEF Unconverted
  <2>4. CASE disk' # disk
    <3>1. ASSUME VersionRead(OpenIniFile(disk')) PROVE Own(lines, ever, {})
      <4>1. Dates(disk')
        <5> DEFINE file == disk'
        <5>1. file \in Seq(Lines) /\ VersionRead(OpenIniFile(file)) BY <1>6, <3>1
        <5> HIDE DEF file
        <5>2. Dates(OpenIniFile(file).entries) BY <5>1, ReadLines, VersionReadMeans
        <5>3. Dates(file) BY <5>1, <5>2, DatedRead
        <5> QED BY <5>3 DEF file
      <4>2. Dates(lines)
        <5>1. CASE disk' = lines BY <4>1, <5>1
        <5>2. CASE disk' \in BrokenOff(lines) BY <1>2, <4>1, <5>2, DatedCut
        <5> QED BY <1>5, <2>4, <5>1, <5>2
      <4>3. CASE ~Own(lines, ever, {})
        <5>1. VersionRead(list) BY <1>1, <1>4, <4>2, <4>3, VersionReadMeans
        <5>2. Unconverted = {} BY <5>1 DEF Unconverted, list
        <5> QED BY <1>4, <5>2
      <4> QED BY <4>3
    <3>2. Own(lines, ever, now)
      <4>1. CASE VersionRead(OpenIniFile(disk')) BY <3>1, <4>1
      <4>2. CASE ~VersionRead(OpenIniFile(disk'))
        <5>1. Unconverted \subseteq Sites BY DEF Unconverted
        <5>2. Own(lines, ever, Sites) BY <1>4, <5>1, OwnMore
        <5> QED BY <4>2, <5>2
      <4> QED BY <4>1, <4>2
    <3> HIDE DEF now
    <3>3. CASE disk' = lines BY <3>2, <3>3
    <3>4. CASE disk' \in BrokenOff(lines) BY <1>2, <3>2, <3>4, OwnCut
    <3> QED BY <1>5, <2>4, <3>3, <3>4
  <2> QED BY <2>3, <2>4
<1>10. Dated'
  <2>1. SUFFICES ASSUME ~unsure', "Global" \notin tricky'
                 PROVE  \/ Versioned(disk', Len(disk'))
                        \/ ~running' /\ ~EndsInGlobal(disk')
                           /\ (Bare(disk') \/ (old' /\ disk' = OldFile))
    BY DEF Dated
  <2>2. ~unsure /\ "Global" \notin tricky
    <3>1. "Global" \notin tricky BY <1>3, <2>1
    <3>2. unsure \in BOOLEAN BY <1>1 DEF ConfigTypes
    <3>3. unsure' = unsure \/ unsure' = (unsure \/ running' \/ EndsInGlobal(disk')) BY <1>3
    <3>4. unsure => unsure' BY <3>2, <3>3
    <3> QED BY <2>1, <3>1, <3>4
  <2>3. Versioned(lines, Len(lines)) BY <1>4, <2>1, <2>2
  <2>4. CASE disk' = lines BY <2>3, <2>4
  <2>5. CASE disk' # lines
    <3>1. ~running' /\ ~EndsInGlobal(disk') /\ (disk' = disk \/ disk' \in BrokenOff(lines))
      BY <1>3, <2>1, <2>5
    <3>2. CASE disk' \in BrokenOff(lines)
      <4>1. Versioned(disk', Len(disk')) \/ Bare(disk') BY <1>2, <2>3, <3>2, VersionedCut
      <4> QED BY <3>1, <4>1
    <3>3. CASE disk' = disk
      <4>1. \/ Versioned(disk, Len(disk)) \/ Bare(disk) \/ (old /\ disk = OldFile)
        BY <1>1, <2>2 DEF Dated
      <4>2. old' = old BY <1>1, <1>3, <3>3 DEF ConfigTypes
      <4> QED BY <3>1, <3>3, <4>1, <4>2
    <3> QED BY <3>1, <3>2, <3>3
  <2> QED BY <2>4, <2>5
<1> QED BY <1>6, <1>7, <1>8, <1>9, <1>10

-----------------------------------------------------------------------------
(* The steps.                                                               *)

LEMMA LoadConfigStep ==
  ASSUME ConfigInvariant, LoadConfig
  PROVE  ConfigInvariant'
<1> DEFINE list  == OpenIniFile(disk)
           W     == LoadWrites(list)
           r     == WriteStrings(list, W)
           lines == r.entries
<1>1. /\ disk \in Seq(Lines) /\ list \in IniLists /\ list.cur = Len(list.entries)
      /\ \A j \in 1 .. Len(list.entries) : ~Shows(list.entries[j].val, "brackets")
      /\ Own(list.entries, ever, Unconverted)
  BY ListRead
<1>2. Unconverted = IF VersionRead(list) THEN {} ELSE Sites BY DEF Unconverted
<1>3. ConfigTypes /\ Dated BY DEF ConfigInvariant
<1>4. /\ ~running /\ starts' = starts + 1 /\ WriteIniFile(list, W)
      /\ (running' /\ Remembered(list)) \/ (~running' /\ Forgotten)
      /\ edits' = edits /\ ever' = ever
  BY DEF LoadConfig
<1> HIDE DEF list
<1>5. /\ W \in Seq(Puts) /\ Len(W) \in Nat /\ Len(W) # 0
      /\ W[1] = Put("Global", "config_version", Plain("1"))
      /\ \A n \in 1 .. Len(W) :
           \/ W[n] = Put("Global", "config_version", Plain("1"))
           \/ /\ W[n].section = "Global" /\ W[n].key # "config_version" /\ W[n] \in Puts
              /\ W[n] \in {FolderWrite(list), Put("Global", "last_site", LoadedSite(list))}
           \/ SitePut(list, W[n])
      /\ \A s \in Sites : \E n \in 1 .. Len(W) : W[n].section = s /\ W[n].key = "server"
  BY <1>1, LoadWritesPut
<1> HIDE DEF W
<1>6. \A s \in Sites : WasEntered(ever, s, Loaded(list, s, "server").text)
  BY <1>1, <1>2, <1>3, LoadedAddress DEF ConfigTypes
<1>7. ASSUME NEW n \in 1 .. Len(W), W[n].section \in Sites, W[n].key = "server"
      PROVE  WasEntered(ever, W[n].section, W[n].val.text)
  <2>1. W[n].section # "Global" BY <1>7, NamesDiffer
  <2>2. SitePut(list, W[n]) BY <1>5, <2>1 DEF Put
  <2> QED BY <1>6, <1>7, <2>2 DEF SitePut
<1>8. Own(lines, ever, {})
  <2>1. Own(lines, ever, Unconverted \ Addressed(W, Len(W))) BY <1>1, <1>5, <1>7, OwnWrites
  <2>2. Sites \subseteq Addressed(W, Len(W)) BY <1>5 DEF Addressed
  <2>3. Unconverted \ Addressed(W, Len(W)) = {} BY <1>2, <2>2
  <2> QED BY <2>1, <2>3
<1>9. ASSUME ~unsure, "Global" \notin tricky' PROVE Versioned(lines, Len(lines))
  <2>1. "Global" \notin tricky BY <1>4, <1>9 DEF WriteIniFile
  <2>2. \A n \in 1 .. Len(W) :
           W[n].section = "Global" /\ W[n].key = "config_version" => W[n].val = Plain("1")
    BY <1>5, NamesDiffer DEF SitePut, Put
  <2>3. \A n \in 1 .. Len(W) : Harmless(W[n]) BY <1>4, <1>5, <1>9, <2>2, HarmlessWrites
  <2>4. IsVersion(W[1]) BY <1>5 DEF IsVersion, Put, Plain
  <2>5. Versioned(list.entries, list.cur) \/ Led(list.entries)
    <3>1. CASE Versioned(disk, Len(disk)) BY <1>1, <3>1, VersionedRead DEF list
    <3>2. CASE ~Versioned(disk, Len(disk))
      <4>1. ~EndsInGlobal(disk) /\ (Bare(disk) \/ disk = OldFile)
        BY <1>3, <1>9, <2>1, <3>2 DEF Dated
      <4> QED BY <1>1, <4>1, LedRead DEF list
    <3> QED BY <3>1, <3>2
  <2>6. Versioned(r.entries, r.cur) BY <1>1, <1>5, <2>3, <2>4, <2>5, VersionedWrites
  <2>7. r \in IniLists BY <1>1, <1>5, WrittenLists
  <2> HIDE DEF r
  <2> QED BY <2>6, <2>7, VersionedEnough
<1>10. Own(lines, ever, Unconverted) BY <1>8, OwnMore
<1>11. /\ disk' \in Seq(Lines) /\ broken' \in Nat /\ old' \in BOOLEAN
       /\ running' \in BOOLEAN /\ unsure' \in BOOLEAN /\ tricky' \subseteq Sections
       /\ Own(disk, ever, Unconverted)' /\ Dated'
  BY <1>4, <1>5, <1>8, <1>9, <1>10, WriteStep DEF list
<1>12. "Global" \in Sections /\ Plain("/") \in Values /\ NoSettings \in [SiteKeys -> Values]
  BY NamesDiffer, PlainValues DEF NoSettings
<1>13. ConfigTypes'
  <2>1. starts' \in Nat /\ edits' \in Nat BY <1>3, <1>4 DEF ConfigTypes
  <2>2. CASE running' /\ Remembered(list)
    <3>1. local_directory' \in Values
      BY <1>1, <1>12, <2>2, ReadStringTyped DEF Remembered
    <3>2. last_site' \in Sites \cup {Other} BY <2>2 DEF Remembered, SiteOf
    <3>3. site_settings' \in [Sites \cup {Other} -> [SiteKeys -> Values]]
      <4>1. \A s \in Sites : [k \in SiteKeys |-> Loaded(list, s, k)] \in [SiteKeys -> Values]
        BY <1>1, LoadedTyped
      <4> QED BY <1>12, <2>2, <4>1 DEF Remembered
    <3> QED BY <1>3, <1>4, <1>11, <2>1, <3>1, <3>2, <3>3 DEF ConfigTypes
  <2>3. CASE ~running' /\ Forgotten
    <3>1. Empty \in Values BY NamesDiffer
    <3>2. site_settings' \in [Sites \cup {Other} -> [SiteKeys -> Values]]
      BY <1>12, <2>3 DEF Forgotten
    <3> QED BY <1>3, <1>4, <1>11, <2>1, <2>3, <3>1, <3>2 DEF ConfigTypes, Forgotten
  <2> QED BY <1>4, <2>2, <2>3
<1>14. AddressesEntered'
  <2> SUFFICES ASSUME running', NEW s \in Sites
               PROVE  WasEntered(ever, s, site_settings'[s]["server"].text)
    BY <1>4 DEF AddressesEntered, WasEntered
  <2>1. s # Other /\ "server" \in SiteKeys BY NamesDiffer DEF SiteKeys
  <2>2. site_settings'[s]["server"] = Loaded(list, s, "server")
    BY <1>4, <2>1 DEF Remembered
  <2> QED BY <1>6, <2>2
<1> QED BY <1>11, <1>13, <1>14 DEF ConfigInvariant

\* The saves of the running program.
LEMMA SavingStep ==
  ASSUME ConfigInvariant, NEW writes \in Seq(Puts), Saving(writes), ever' = ever,
         \A n \in 1 .. Len(writes) :
            /\ ~ (writes[n].section = "Global" /\ writes[n].key = "config_version")
            /\ writes[n].section \in Sites /\ writes[n].key = "server"
                 => WasEntered(ever, writes[n].section, writes[n].val.text)
  PROVE  /\ disk' \in Seq(Lines) /\ {broken', starts', edits'} \subseteq Nat /\ old' \in BOOLEAN
         /\ running' \in BOOLEAN /\ unsure' \in BOOLEAN /\ tricky' \subseteq Sections
         /\ Own(disk, ever, Unconverted)' /\ Dated'
<1> DEFINE list  == OpenIniFile(disk)
           r     == WriteStrings(list, writes)
           lines == r.entries
<1>1. /\ disk \in Seq(Lines) /\ list \in IniLists /\ list.cur = Len(list.entries)
      /\ Own(list.entries, ever, Unconverted)
  BY ListRead
<1>2. ConfigTypes /\ Dated BY DEF ConfigInvariant
<1>3. /\ running /\ edits' = edits + 1 /\ starts' = starts
      /\ WriteIniFile(list, writes)
  BY DEF Saving, InUse
<1> HIDE DEF list
<1>4. Own(lines, ever, Unconverted)
  <2>1. Own(lines, ever, Unconverted \ Addressed(writes, Len(writes))) BY <1>1, OwnWrites
  <2> QED BY <2>1, OwnMore
<1>5. Dates(lines) => Dates(list.entries) BY <1>1, DatedWrites
<1>6. ASSUME ~unsure, "Global" \notin tricky' PROVE Versioned(lines, Len(lines))
  <2>1. "Global" \notin tricky BY <1>3, <1>6 DEF WriteIniFile
  <2>2. Versioned(disk, Len(disk)) BY <1>2, <1>3, <1>6, <2>1 DEF Dated
  <2>3. Versioned(list.entries, list.cur) BY <1>1, <2>2, VersionedRead DEF list
  <2>4. \A n \in 1 .. Len(writes) : Harmless(writes[n]) BY <1>3, <1>6, HarmlessWrites
  <2>5. Versioned(r.entries, r.cur) BY <1>1, <2>3, <2>4, VersionedWrites
  <2>6. r \in IniLists BY <1>1, WrittenLists
  <2> HIDE DEF r
  <2> QED BY <2>5, <2>6, VersionedEnough
<1>7. /\ disk' \in Seq(Lines) /\ broken' \in Nat /\ old' \in BOOLEAN
      /\ running' \in BOOLEAN /\ unsure' \in BOOLEAN /\ tricky' \subseteq Sections
      /\ Own(disk, ever, Unconverted)' /\ Dated'
  BY <1>3, <1>4, <1>5, <1>6, WriteStep DEF list
<1>8. starts' \in Nat /\ edits' \in Nat BY <1>2, <1>3 DEF ConfigTypes
<1> QED BY <1>7, <1>8

LEMMA ForgottenTyped ==
  Forgotten => /\ local_directory' \in Values /\ last_site' \in Sites \cup {Other}
               /\ site_settings' \in [Sites \cup {Other} -> [SiteKeys -> Values]]
<1>1. Empty \in Values /\ NoSettings \in [SiteKeys -> Values] BY NamesDiffer DEF NoSettings
<1> QED BY <1>1 DEF Forgotten

LEMMA SaveConfigStep ==
  ASSUME ConfigInvariant, SaveConfig
  PROVE  ConfigInvariant'
<1> DEFINE a == Put(last_site, "server", site_settings[last_site].server)
           b == Put(last_site, "password", site_settings[last_site].password)
           c == Put(last_site, "directory", site_settings[last_site].directory)
           d == Put("Global", "last_site", Plain(last_site))
           W == <<a, b, c, d>>
<1>1. ConfigTypes /\ AddressesEntered BY DEF ConfigInvariant
<1>2. /\ Saving(W) /\ ever' = ever
      /\ \/ running' /\ UNCHANGED <<local_directory, last_site, site_settings>>
         \/ ~running' /\ Forgotten
  BY DEF SaveConfig
<1>3. running BY <1>2 DEF Saving, InUse
<1>4. /\ last_site \in Sections /\ last_site \in Sites \cup {Other}
      /\ {"server", "password", "directory"} \subseteq SiteKeys
      /\ {"server", "password", "directory", "last_site"} \subseteq Keys
      /\ "Global" \in Sections
  BY <1>1, NamesDiffer DEF ConfigTypes, Keys, SiteKeys
<1>5. /\ site_settings[last_site].server \in Values
      /\ site_settings[last_site].password \in Values
      /\ site_settings[last_site].directory \in Values
  BY <1>1, <1>4 DEF ConfigTypes
<1>6. Plain(last_site) \in Values BY <1>4, PlainValues
<1>7. /\ a \in Puts /\ a.section = last_site /\ a.key = "server"
      /\ a.val = site_settings[last_site].server
  BY <1>4, <1>5, PutIsPut
<1>8. b \in Puts /\ b.key = "password" BY <1>4, <1>5, PutIsPut
<1>9. c \in Puts /\ c.key = "directory" BY <1>4, <1>5, PutIsPut
<1>10. d \in Puts /\ d.key = "last_site" BY <1>4, <1>6, PutIsPut
<1>11. last_site \in Sites => WasEntered(ever, last_site, a.val.text)
  BY <1>1, <1>3, <1>7 DEF AddressesEntered, WasEntered
<1> HIDE DEF a, b, c, d
<1>12. /\ W \in Seq(Puts) /\ Len(W) = 4
       /\ \A n \in 1 .. Len(W) : W[n] = a \/ W[n] = b \/ W[n] = c \/ W[n] = d
  BY <1>7, <1>8, <1>9, <1>10
<1> HIDE DEF W
<1>13. \A n \in 1 .. Len(W) :
          /\ ~ (W[n].section = "Global" /\ W[n].key = "config_version")
          /\ W[n].section \in Sites /\ W[n].key = "server"
               => WasEntered(ever, W[n].section, W[n].val.text)
  BY <1>7, <1>8, <1>9, <1>10, <1>11, <1>12
<1>14. /\ disk' \in Seq(Lines) /\ {broken', starts', edits'} \subseteq Nat /\ old' \in BOOLEAN
       /\ running' \in BOOLEAN /\ unsure' \in BOOLEAN /\ tricky' \subseteq Sections
       /\ Own(disk, ever, Unconverted)' /\ Dated'
  BY <1>2, <1>12, <1>13, SavingStep
<1>15. ConfigTypes'
  BY <1>1, <1>2, <1>14, ForgottenTyped DEF ConfigTypes
<1>16. AddressesEntered' BY <1>1, <1>2, <1>3 DEF AddressesEntered
<1> QED BY <1>14, <1>15, <1>16 DEF ConfigInvariant

LEMMA SaveLocalDirectoryStep ==
  ASSUME ConfigInvariant, NEW v \in LocalFolders, SaveLocalDirectory(v)
  PROVE  ConfigInvariant'
<1> DEFINE a == Put("Global", "local_directory", v)
           W == <<a>>
<1>1. ConfigTypes /\ AddressesEntered BY DEF ConfigInvariant
<1>2. /\ Saving(W) /\ ever' = ever
      /\ \/ running' /\ local_directory' = v /\ UNCHANGED <<last_site, site_settings>>
         \/ ~running' /\ Forgotten
  BY DEF SaveLocalDirectory
<1>3. running BY <1>2 DEF Saving, InUse
<1>4. v \in Values BY PlainValues
<1>5. a \in Puts /\ a.key = "local_directory"
  <2>1. "Global" \in Sections /\ "local_directory" \in Keys BY NamesDiffer DEF Keys
  <2> QED BY <1>4, <2>1, PutIsPut
<1> HIDE DEF a
<1>6. W \in Seq(Puts) /\ Len(W) = 1 /\ W[1] = a BY <1>5
<1> HIDE DEF W
<1>7. \A n \in 1 .. Len(W) :
          /\ ~ (W[n].section = "Global" /\ W[n].key = "config_version")
          /\ W[n].section \in Sites /\ W[n].key = "server"
               => WasEntered(ever, W[n].section, W[n].val.text)
  BY <1>5, <1>6
<1>8. /\ disk' \in Seq(Lines) /\ {broken', starts', edits'} \subseteq Nat /\ old' \in BOOLEAN
      /\ running' \in BOOLEAN /\ unsure' \in BOOLEAN /\ tricky' \subseteq Sections
      /\ Own(disk, ever, Unconverted)' /\ Dated'
  BY <1>2, <1>6, <1>7, SavingStep
<1>9. ConfigTypes'
  BY <1>1, <1>2, <1>4, <1>8, ForgottenTyped DEF ConfigTypes
<1>10. AddressesEntered' BY <1>1, <1>2, <1>3 DEF AddressesEntered
<1> QED BY <1>8, <1>9, <1>10 DEF ConfigInvariant

LEMMA EditStep ==
  ASSUME ConfigInvariant, NEW k \in SiteKeys, NEW v \in Values,
         k = "server" => v.text \in Words, Edit(k, v)
  PROVE  ConfigInvariant'
<1>1. ConfigTypes /\ AddressesEntered /\ Own(disk, ever, Unconverted) /\ Dated BY DEF ConfigInvariant
<1>2. /\ running /\ edits' = edits + 1
      /\ site_settings' = [site_settings EXCEPT ![last_site][k] = v]
      /\ ever' = [s \in Sites |-> IF k = "server" /\ s = last_site THEN ever[s] \cup {v.text}
                                  ELSE ever[s]]
      /\ disk' = disk /\ broken' = broken /\ running' = running
      /\ local_directory' = local_directory /\ last_site' = last_site /\ starts' = starts
      /\ tricky' = tricky /\ old' = old /\ unsure' = unsure
  BY DEF Edit, InUse, store
<1>3. last_site \in Sites \cup {Other} /\ "server" \in SiteKeys
      /\ site_settings \in [Sites \cup {Other} -> [SiteKeys -> Values]]
  BY <1>1 DEF ConfigTypes, SiteKeys
<1>4. /\ ever' \in [Sites -> SUBSET Words]
      /\ \A s \in Sites : ever[s] \subseteq ever'[s] /\ "none" \in ever'[s]
  BY <1>1, <1>2 DEF ConfigTypes
<1>5. site_settings' \in [Sites \cup {Other} -> [SiteKeys -> Values]] BY <1>2, <1>3
<1>6. ConfigTypes' BY <1>1, <1>2, <1>4, <1>5 DEF ConfigTypes
<1>7. Own(disk, ever, Unconverted)'
  <2>1. Unconverted' = Unconverted /\ Unconverted \subseteq Sites BY <1>2 DEF Unconverted
  <2>2. Own(disk, ever', Unconverted) BY <1>1, <1>4 DEF Own, WasEntered
  <2> QED BY <1>2, <2>1, <2>2
<1>8. Dated' BY <1>1, <1>2 DEF Dated
<1>9. AddressesEntered'
  <2> SUFFICES ASSUME NEW s \in Sites
               PROVE  \/ site_settings'[s].server.text \in ever'[s]
                      \/ site_settings'[s].server.text = "dav" /\ "http" \in ever'[s]
    BY DEF AddressesEntered, WasEntered
  <2>1. CASE k = "server" /\ s = last_site
    <3>1. site_settings'[s].server = v BY <1>2, <1>3, <2>1
    <3>2. v.text \in ever'[s] BY <1>2, <2>1
    <3> QED BY <3>1, <3>2
  <2>2. CASE ~ (k = "server" /\ s = last_site)
    <3>1. site_settings'[s].server = site_settings[s].server BY <1>2, <1>3, <2>2
    <3> QED BY <1>1, <1>2, <1>4, <3>1 DEF AddressesEntered, WasEntered
  <2> QED BY <2>1, <2>2
<1> QED BY <1>6, <1>7, <1>8, <1>9 DEF ConfigInvariant

LEMMA SelectSiteStep ==
  ASSUME ConfigInvariant, NEW s \in Sites, SelectSite(s)
  PROVE  ConfigInvariant'
<1>1. /\ last_site' = s /\ disk' = disk /\ broken' = broken /\ running' = running
      /\ local_directory' = local_directory /\ site_settings' = site_settings
      /\ starts' = starts /\ edits' = edits
      /\ tricky' = tricky /\ ever' = ever /\ old' = old /\ unsure' = unsure
  BY DEF SelectSite, store, counts, ghosts
<1>2. ConfigTypes' BY <1>1 DEF ConfigInvariant, ConfigTypes
<1>3. Own(disk, ever, Unconverted)' BY <1>1 DEF ConfigInvariant, Unconverted
<1>4. AddressesEntered' /\ Dated' BY <1>1 DEF ConfigInvariant, AddressesEntered, Dated
<1> QED BY <1>2, <1>3, <1>4 DEF ConfigInvariant

LEMMA QuitStep ==
  ASSUME ConfigInvariant, Quit
  PROVE  ConfigInvariant'
<1>1. /\ running /\ running' = FALSE /\ disk' = disk /\ broken' = broken
      /\ starts' = starts /\ edits' = edits
      /\ tricky' = tricky /\ ever' = ever /\ old' = old /\ unsure' = unsure /\ Forgotten
  BY DEF Quit, InUse, store, counts, ghosts
<1>2. ConfigTypes' BY <1>1, ForgottenTyped DEF ConfigInvariant, ConfigTypes
<1>3. Own(disk, ever, Unconverted)' BY <1>1 DEF ConfigInvariant, Unconverted
<1>4. AddressesEntered' /\ Dated' BY <1>1 DEF ConfigInvariant, AddressesEntered, Dated
<1> QED BY <1>2, <1>3, <1>4 DEF ConfigInvariant

LEMMA ConfigStutter ==
  ASSUME ConfigInvariant, UNCHANGED configVars
  PROVE  ConfigInvariant'
<1>1. /\ last_site' = last_site /\ disk' = disk /\ broken' = broken /\ running' = running
      /\ local_directory' = local_directory /\ site_settings' = site_settings
      /\ starts' = starts /\ edits' = edits
      /\ tricky' = tricky /\ ever' = ever /\ old' = old /\ unsure' = unsure
  BY DEF configVars, store, memory, counts, ghosts
<1>2. ConfigTypes' BY <1>1 DEF ConfigInvariant, ConfigTypes
<1>3. Own(disk, ever, Unconverted)' BY <1>1 DEF ConfigInvariant, Unconverted
<1>4. AddressesEntered' /\ Dated' BY <1>1 DEF ConfigInvariant, AddressesEntered, Dated
<1> QED BY <1>2, <1>3, <1>4 DEF ConfigInvariant

LEMMA ConfigInitial == ConfigInit => ConfigInvariant
<1> SUFFICES ASSUME ConfigInit PROVE ConfigInvariant OBVIOUS
<1>1. /\ disk \in {<<>>, OldFile} /\ running = FALSE
      /\ local_directory = Empty /\ last_site = Other
      /\ site_settings = [s \in Sites \cup {Other} |-> NoSettings]
      /\ starts = 0 /\ edits = 0 /\ broken = 0 /\ tricky = {}
      /\ ever = [s \in Sites |-> IF disk = <<>> THEN {"none"} ELSE {"none", "dav"}]
      /\ old = (disk # <<>>) /\ unsure = FALSE
  BY DEF ConfigInit
<1>2. Empty \in Values /\ NoSettings \in [SiteKeys -> Values] BY NamesDiffer DEF NoSettings
<1>3. {"none", "dav"} \subseteq Words BY DEF Words
<1>4. OldFile \in Seq(Lines) /\ OldFile # <<>> /\ <<>> \in Seq(Lines)
  <2>1. OldFile \in Seq(Lines) /\ Len(OldFile) = 2 * Len(SiteOrder) + 2 /\ Len(SiteOrder) \in Nat
    BY OldLines
  <2>2. OldFile # <<>> BY <2>1
  <2> QED BY <2>1, <2>2
<1>5. ConfigTypes
  <2>1. /\ ever \in [Sites -> SUBSET Words] /\ \A s \in Sites : "none" \in ever[s]
    BY <1>1, <1>3
  <2>2. site_settings \in [Sites \cup {Other} -> [SiteKeys -> Values]] BY <1>1, <1>2
  <2>3. disk \in Seq(Lines) BY <1>1, <1>4
  <2>4. old \in BOOLEAN /\ unsure \in BOOLEAN /\ running \in BOOLEAN BY <1>1
  <2> QED BY <1>1, <1>2, <2>1, <2>2, <2>3, <2>4 DEF ConfigTypes
<1>6. AddressesEntered BY <1>1 DEF AddressesEntered
<1>7. CASE disk = <<>>
  <2>1. DOMAIN disk = {} BY <1>7
  <2>2. Own(disk, ever, Unconverted) BY <2>1 DEF Own
  <2>3. Dated BY <1>1, <1>7, <2>1 DEF Dated, Bare, EndsInGlobal
  <2> QED BY <1>5, <1>6, <2>2, <2>3 DEF ConfigInvariant
<1>8. CASE disk = OldFile
  <2>1. ~Dates(OldFile) BY OldUndated
  <2>2. ~VersionRead(OpenIniFile(disk))
    <3>1. VersionRead(OpenIniFile(OldFile)) => Dates(OpenIniFile(OldFile).entries)
      BY <1>4, ReadLines, VersionReadMeans
    <3>2. Dates(OpenIniFile(OldFile).entries) => Dates(OldFile) BY <1>4, DatedRead
    <3> QED BY <1>8, <2>1, <3>1, <3>2
  <2>3. Unconverted = Sites BY <2>2 DEF Unconverted
  <2>4. \A s \in Sites : "dav" \in ever[s] BY <1>1, <1>4, <1>8
  <2>5. Own(OldFile, ever, Sites) BY <2>4, OldOwn
  <2>6. Dated BY <1>1, <1>4, <1>8, OldEnds DEF Dated
  <2> QED BY <1>5, <1>6, <1>8, <2>3, <2>5, <2>6 DEF ConfigInvariant
<1> QED BY <1>1, <1>7, <1>8

LEMMA ConfigStep == ConfigInvariant /\ [ConfigNext]_configVars => ConfigInvariant'
<1> SUFFICES ASSUME ConfigInvariant, [ConfigNext]_configVars PROVE ConfigInvariant'
  OBVIOUS
<1>1. {"server", "password", "directory"} \subseteq SiteKeys BY DEF SiteKeys
<1>2. \A v \in Servers \cup Passwords \cup Folders : v \in Values /\ v.text \in Words
  BY PlainValues DEF Values
<1>3. CASE LoadConfig BY <1>3, LoadConfigStep
<1>4. CASE \E s \in Sites : SelectSite(s) BY <1>4, SelectSiteStep
<1>5. CASE \E v \in Servers : Edit("server", v) BY <1>1, <1>2, <1>5, EditStep
<1>6. CASE \E v \in Passwords : Edit("password", v) BY <1>1, <1>2, <1>6, EditStep
<1>7. CASE \E v \in Folders : Edit("directory", v) BY <1>1, <1>2, <1>7, EditStep
<1>8. CASE SaveConfig BY <1>8, SaveConfigStep
<1>9. CASE \E v \in LocalFolders : SaveLocalDirectory(v) BY <1>9, SaveLocalDirectoryStep
<1>10. CASE Quit BY <1>10, QuitStep
<1>11. CASE UNCHANGED configVars BY <1>11, ConfigStutter
<1> QED BY <1>3, <1>4, <1>5, <1>6, <1>7, <1>8, <1>9, <1>10, <1>11 DEF ConfigNext

\* The invariant holds in every state.
THEOREM ConfigInvariance == ConfigSpec => []ConfigInvariant
<1>1. ConfigInit => ConfigInvariant BY ConfigInitial
<1>2. ConfigInvariant /\ [ConfigNext]_configVars => ConfigInvariant' BY ConfigStep
<1> QED BY <1>1, <1>2, PTL DEF ConfigSpec

\* LoadConfig: no address stands in the file without the version that says how to read it,
\* but where VersionKept says.
THEOREM VersionKeptHolds == ConfigSpec => []VersionKept
<1>1. ConfigInvariant => VersionKept
  <2> SUFFICES ASSUME ConfigInvariant, ~old, ~unsure, "Global" \notin tricky,
                      NEW s \in Sites, Address(s).text # "none"
               PROVE  VersionRead(OpenIniFile(disk))
    BY DEF VersionKept
  <2>1. disk \in Seq(Lines) /\ Dated BY DEF ConfigInvariant, ConfigTypes
  <2>2. CASE Versioned(disk, Len(disk))
    <3>1. /\ OpenIniFile(disk) \in IniLists
          /\ Versioned(OpenIniFile(disk).entries, OpenIniFile(disk).cur)
      BY <2>1, <2>2, ReadLines, VersionedRead
    <3>2. Dates(OpenIniFile(disk).entries) BY <3>1, VersionedEnough, VersionedDates
    <3> QED BY <3>1, <3>2, VersionReadMeans
  <2>3. CASE Bare(disk)
    <3>1. Address(s) = Empty BY <2>1, <2>3, BareUnread DEF Address
    <3> QED BY <3>1 DEF Empty, Plain
  <2> QED BY <2>1, <2>2, <2>3 DEF Dated
<1> QED BY <1>1, ConfigInvariance, PTL

-----------------------------------------------------------------------------
(* What a write leaves of the sections.                                     *)

\* Sections and keys at the same places.
LEMMA SameShape ==
  ASSUME NEW es, NEW ls, NEW N \in Nat, NEW g \in 1 .. N, NEW j \in 1 .. N,
         \A m \in 1 .. N : ls[m].section = es[m].section /\ ls[m].key = es[m].key
  PROVE  /\ InSection(es, g, j) <=> InSection(ls, g, j)
         /\ Found(es, g, j) <=> Found(ls, g, j)
<1>1. \A m \in 1 .. N : IsHeader(es[m]) <=> IsHeader(ls[m]) BY DEF IsHeader
<1>2. /\ \A m \in g + 1 .. j : m \in 1 .. N
      /\ \A m \in g + 1 .. j - 1 : m \in 1 .. N
      /\ \A m \in 1 .. g - 1 : m \in 1 .. N
  OBVIOUS
<1>3. InSection(es, g, j) <=> InSection(ls, g, j) BY <1>1, <1>2 DEF InSection
<1>4. Found(es, g, j) <=> Found(ls, g, j) BY <1>2 DEF Found
<1> QED BY <1>3, <1>4

\* Where the line at j stands when one has been put behind h.
Moved(j, h) == IF j > h THEN j + 1 ELSE j

LEMMA InsertedShape ==
  ASSUME NEW es \in Seq(Lines), NEW ls \in Seq(Lines), NEW h \in 1 .. Len(es), NEW l,
         InsertsBehind(es, h, ls, l), IsHeader(es[h]), ~IsHeader(l)
  PROVE  LET N == Len(es) IN
         /\ \A j \in 1 .. N : Moved(j, h) \in 1 .. N + 1 /\ ls[Moved(j, h)] = es[j]
         /\ \A j \in 1 .. N + 1 : j = h + 1 \/ \E m \in 1 .. N : j = Moved(m, h)
         /\ \A g, j \in 1 .. N : InSection(es, g, j) <=> InSection(ls, Moved(g, h), Moved(j, h))
         /\ \A g \in 1 .. N + 1 : InSection(ls, g, h + 1) => g = h
<1> DEFINE N == Len(es)
<1>1. N \in Nat OBVIOUS
<1>2. /\ ls[h + 1] = l /\ \A j \in 1 .. h : ls[j] = es[j]
      /\ \A j \in h + 1 .. N : ls[j + 1] = es[j]
  BY DEF InsertsBehind
<1> HIDE DEF N
<1>3. ASSUME NEW j \in 1 .. N PROVE Moved(j, h) \in 1 .. N + 1 /\ ls[Moved(j, h)] = es[j]
  <2>1. CASE j > h
    <3>1. j \in h + 1 .. N BY <1>1, <2>1 DEF N
    <3> QED BY <1>1, <1>2, <2>1, <3>1 DEF Moved
  <2>2. CASE ~ (j > h)
    <3>1. j \in 1 .. h BY <1>1, <2>2 DEF N
    <3> QED BY <1>1, <1>2, <2>2, <3>1 DEF Moved
  <2> QED BY <2>1, <2>2
<1>4. ASSUME NEW j \in 1 .. N + 1, j # h + 1 PROVE \E m \in 1 .. N : j = Moved(m, h)
  <2>1. CASE j <= h
    <3>1. j \in 1 .. N /\ j = Moved(j, h) BY <1>1, <2>1 DEF Moved, N
    <3> QED BY <3>1
  <2>2. CASE j > h
    <3>1. j - 1 \in 1 .. N /\ j = Moved(j - 1, h) BY <1>1, <1>4, <2>2 DEF Moved, N
    <3> QED BY <3>1
  <2> QED BY <1>1, <2>1, <2>2 DEF N
<1>5. h + 1 \in 1 .. N + 1 /\ \A j \in 1 .. N : Moved(j, h) # h + 1 /\ Moved(j, h) \in Nat
  BY <1>1 DEF Moved, N
<1>6. ASSUME NEW g \in 1 .. N, NEW j \in 1 .. N
      PROVE  g < j <=> Moved(g, h) < Moved(j, h)
  BY <1>1 DEF Moved, N
<1>7. ASSUME NEW g \in 1 .. N, NEW j \in 1 .. N, InSection(es, g, j)
      PROVE  InSection(ls, Moved(g, h), Moved(j, h))
  <2>1. g < j /\ IsHeader(es[g]) /\ \A m \in g + 1 .. j : ~IsHeader(es[m])
    BY <1>7 DEF InSection
  <2>2. ASSUME NEW m \in Moved(g, h) + 1 .. Moved(j, h) PROVE ~IsHeader(ls[m])
    <3>1. CASE m = h + 1 BY <1>2, <3>1
    <3>2. CASE m # h + 1
      <4>1. m \in 1 .. N + 1 BY <1>1, <1>3, <1>5
      <4>2. PICK n \in 1 .. N : m = Moved(n, h) BY <1>4, <3>2, <4>1
      <4>3. Moved(g, h) < Moved(n, h) /\ Moved(n, h) <= Moved(j, h) BY <1>5, <4>2
      <4>4. g < n /\ ~(j < n) BY <1>5, <1>6, <4>3
      <4>5. n \in g + 1 .. j BY <1>1, <4>4
      <4> QED BY <1>3, <2>1, <4>2, <4>5
    <3> QED BY <3>1, <3>2
  <2> QED BY <1>3, <1>6, <2>1, <2>2 DEF InSection
<1>8. ASSUME NEW g \in 1 .. N, NEW j \in 1 .. N, InSection(ls, Moved(g, h), Moved(j, h))
      PROVE  InSection(es, g, j)
  <2>1. /\ Moved(g, h) < Moved(j, h) /\ IsHeader(ls[Moved(g, h)])
        /\ \A m \in Moved(g, h) + 1 .. Moved(j, h) : ~IsHeader(ls[m])
    BY <1>8 DEF InSection
  <2>2. ASSUME NEW m \in g + 1 .. j PROVE ~IsHeader(es[m])
    <3>1. m \in 1 .. N /\ Moved(m, h) \in Moved(g, h) + 1 .. Moved(j, h)
      BY <1>1 DEF Moved, N
    <3> QED BY <1>3, <2>1, <3>1
  <2> QED BY <1>3, <1>6, <2>1, <2>2 DEF InSection
<1>9. ASSUME NEW g \in 1 .. N + 1, InSection(ls, g, h + 1) PROVE g = h
  <2>1. h \in 1 .. h /\ h \in Nat OBVIOUS
  <2>2. IsHeader(ls[h]) BY <1>2, <2>1
  <2>3. InSection(ls, h, h + 1)
    <3>1. \A m \in h + 1 .. h + 1 : m = h + 1 BY <2>1
    <3> QED BY <1>2, <2>1, <2>2, <3>1 DEF InSection
  <2>4. g \in Nat /\ h + 1 \in Nat BY <1>1, <2>1
  <2> QED BY <1>9, <2>1, <2>3, <2>4, OneSection
<1> QED BY <1>3, <1>4, <1>7, <1>8, <1>9 DEF N

\* Where a section has been added behind n lines.
LEMMA AddedShape ==
  ASSUME NEW es \in Seq(Lines), NEW ls \in Seq(Lines), NEW n \in 0 .. Len(es),
         NEW s \in Sections, NEW l, AddsBehind(es, n, ls, s, l), ~IsHeader(l)
  PROVE  /\ \A j \in 1 .. n + 2 : j \in 1 .. n \/ j = n + 1 \/ j = n + 2
         /\ \A g, j \in 1 .. n : InSection(es, g, j) <=> InSection(ls, g, j)
         /\ \A g \in 1 .. n + 2 : ~InSection(ls, g, n + 1)
         /\ InSection(ls, n + 1, n + 2)
         /\ \A g \in 1 .. n + 2 : InSection(ls, g, n + 2) => g = n + 1
         /\ \A g, j \in 1 .. n + 2 : InSection(ls, g, j) /\ j \in 1 .. n => g \in 1 .. n
<1>1. n \in Nat OBVIOUS
<1>2. ls[n + 1] = Header(s) /\ ls[n + 2] = l /\ \A j \in 1 .. n : ls[j] = es[j]
  BY DEF AddsBehind
<1>3. IsHeader(ls[n + 1]) BY <1>2, HeaderIsLine
<1>4. ASSUME NEW g \in 1 .. n, NEW j \in 1 .. n
      PROVE  InSection(es, g, j) <=> InSection(ls, g, j)
  <2>1. \A m \in g + 1 .. j : m \in 1 .. n BY <1>1
  <2> QED BY <1>2, <2>1 DEF InSection
<1>5. ASSUME NEW g \in 1 .. n + 2 PROVE ~InSection(ls, g, n + 1)
  <2> SUFFICES ASSUME InSection(ls, g, n + 1) PROVE FALSE OBVIOUS
  <2>1. n + 1 \in g + 1 .. n + 1 BY <1>1 DEF InSection
  <2> QED BY <1>3, <2>1 DEF InSection
<1>6. InSection(ls, n + 1, n + 2)
  <2>1. \A m \in (n + 1) + 1 .. n + 2 : m = n + 2 BY <1>1
  <2>2. n + 1 < n + 2 BY <1>1
  <2> QED BY <1>2, <1>3, <2>1, <2>2 DEF InSection
<1>7. ASSUME NEW g \in 1 .. n + 2, InSection(ls, g, n + 2) PROVE g = n + 1
  <2>1. g \in Nat /\ n + 1 \in Nat /\ n + 2 \in Nat BY <1>1
  <2> QED BY <1>6, <1>7, <2>1, OneSection
<1>8. ASSUME NEW g \in 1 .. n + 2, NEW j \in 1 .. n, InSection(ls, g, j) PROVE g \in 1 .. n
  <2>1. g < j BY <1>8 DEF InSection
  <2> QED BY <1>1, <2>1
<1>9. \A j \in 1 .. n + 2 : j \in 1 .. n \/ j = n + 1 \/ j = n + 2 BY <1>1
<1> QED BY <1>4, <1>5, <1>6, <1>7, <1>8, <1>9

-----------------------------------------------------------------------------
(* What the lines of a section are.                                         *)

\* A line for the section s of a file in which the sections risky are the tricky ones.
Fits(l, s, risky, cuts) ==
  /\ s \notin risky => Spotless(l)
  /\ Natural(l.key, l.val, cuts)

\* A value that only a tricky section has is written to one.
Fitting(w, risky, cuts) ==
  /\ IsOdd(w.val) \/ w.val.mark = "garbled" => w.section \in risky
  /\ Natural(w.key, w.val, cuts)

LEMMA NewLineFits ==
  ASSUME NEW w \in Puts, NEW risky, NEW cuts, Fitting(w, risky, cuts),
         NEW c \in BOOLEAN, c => w.section \in risky
  PROVE  LET l == NewLine(w.key, w.val, c) IN
         /\ Fits(l, w.section, risky, cuts)
         /\ w.section \notin risky => l.val = w.val
<1> DEFINE v == w.val
           x == Replaced(v, c)
           l == NewLine(w.key, v, c)
<1>1. /\ l.val = x /\ l.key = w.key /\ l.tail = (Shows(v, "semi") \/ c)
  BY DEF NewLine, KeyLine
<1>2. v \in Values BY DEF Puts
<1>3. Natural(w.key, x, cuts)
  <2>1. \/ x = v \/ x = [v EXCEPT !.mark = "garbled"]
        \/ x = [v EXCEPT !.mark = "part"] /\ Shows(v, "semi")
    BY DEF Replaced
  <2>2. Natural(w.key, v, cuts) BY DEF Fitting
  <2> HIDE DEF x, v
  <2>3. CASE x = v BY <2>2, <2>3
  <2>4. CASE x = [v EXCEPT !.mark = "garbled"]
    <3>1. x.mark = "garbled" /\ x.enc = v.enc BY <1>2, <2>4 DEF Values
    <3> QED BY <2>2, <3>1 DEF Natural
  <2>5. CASE x = [v EXCEPT !.mark = "part"] /\ Shows(v, "semi")
    <3>1. x.mark = "part" /\ x.enc = v.enc /\ v.mark = "semi" BY <1>2, <2>5 DEF Values, Shows
    <3> QED BY <2>2, <3>1 DEF Natural
  <2> QED BY <2>1, <2>3, <2>4, <2>5
<1>4. CASE w.section \in risky BY <1>1, <1>3, <1>4 DEF Fits
<1>5. CASE w.section \notin risky
  <2>1. ~c /\ ~Shows(v, "semi") /\ ~Shows(v, "brackets") /\ v.mark # "garbled"
    BY <1>5 DEF Fitting, IsOdd
  <2>2. x = v BY <2>1 DEF Replaced
  <2> QED BY <1>1, <1>3, <2>1, <2>2 DEF Fits, Spotless
<1> QED BY <1>4, <1>5

LEMMA WholeReplaced ==
  ASSUME NEW es \in Seq(Lines), NEW ls \in Seq(Lines), NEW risky, NEW cuts,
         NEW h \in 1 .. Len(es), NEW i \in 1 .. Len(es), NEW l,
         InSection(es, h, i), ReplacesAt(es, i, ls, l),
         l.section = "none", l.key = es[i].key, Whole(es, risky, cuts), Fits(l, es[h].section, risky, cuts)
  PROVE  Whole(ls, risky, cuts)
<1> DEFINE N == Len(es)
<1>1. /\ N \in Nat /\ DOMAIN es = 1 .. N /\ DOMAIN ls = 1 .. N /\ ls[i] = l
      /\ \A j \in 1 .. N : j # i => ls[j] = es[j]
  BY DEF ReplacesAt
<1>2. es[i].section = "none"
  <2>1. i \in h + 1 .. i BY DEF InSection
  <2> QED BY <2>1 DEF InSection, IsHeader
<1> HIDE DEF N
<1>3. \A m \in 1 .. N : ls[m].section = es[m].section /\ ls[m].key = es[m].key
  BY <1>1, <1>2
<1>4. \A g, j \in 1 .. N : InSection(es, g, j) <=> InSection(ls, g, j)
  BY <1>1, <1>3, SameShape
<1>5. Distinct(ls) BY <1>1, <1>3 DEF Distinct, Whole
<1>6. Clean(ls, risky)
  <2> SUFFICES ASSUME NEW g \in 1 .. N, NEW j \in 1 .. N, InSection(ls, g, j),
                      ls[g].section \in Sections \ risky
               PROVE  Spotless(ls[j])
    BY <1>1 DEF Clean
  <2>1. InSection(es, g, j) /\ es[g].section \in Sections \ risky BY <1>3, <1>4
  <2>2. CASE j = i
    <3>1. g = h BY <2>1, <2>2, OneSection
    <3> QED BY <1>1, <2>1, <2>2, <3>1 DEF Fits
  <2>3. CASE j # i BY <1>1, <2>1, <2>3 DEF Whole, Clean
  <2> QED BY <2>2, <2>3
<1>7. Each(ls, cuts) BY <1>1 DEF Each, Whole, Fits
<1> QED BY <1>5, <1>6, <1>7 DEF Whole

LEMMA WholeInserted ==
  ASSUME NEW es \in Seq(Lines), NEW ls \in Seq(Lines), NEW risky, NEW cuts, NEW h \in 1 .. Len(es), NEW l,
         IsHeader(es[h]), InsertsBehind(es, h, ls, l),
         l.section = "none", Whole(es, risky, cuts), Fits(l, es[h].section, risky, cuts)
  PROVE  Whole(ls, risky, cuts)
<1> DEFINE N == Len(es)
<1>1. N \in Nat /\ DOMAIN es = 1 .. N /\ DOMAIN ls = 1 .. N + 1 /\ ls[h + 1] = l
  BY DEF InsertsBehind
<1>2. ~IsHeader(l) BY DEF IsHeader
<1>3. /\ \A j \in 1 .. N : Moved(j, h) \in 1 .. N + 1 /\ ls[Moved(j, h)] = es[j]
      /\ \A j \in 1 .. N + 1 : j = h + 1 \/ \E m \in 1 .. N : j = Moved(m, h)
      /\ \A g, j \in 1 .. N : InSection(es, g, j) <=> InSection(ls, Moved(g, h), Moved(j, h))
      /\ \A g \in 1 .. N + 1 : InSection(ls, g, h + 1) => g = h
  BY <1>2, InsertedShape
<1>4. ls[h] = es[h]
  <2>1. h \in 1 .. h OBVIOUS
  <2> QED BY <2>1 DEF InsertsBehind
<1> HIDE DEF N
<1>5. ASSUME NEW j \in 1 .. N + 1, ls[j].section \in Sections
      PROVE  \E m \in 1 .. N : j = Moved(m, h)
  BY <1>1, <1>3, <1>5, NamesDiffer
<1>6. Distinct(ls)
  <2> SUFFICES ASSUME NEW g \in 1 .. N + 1, NEW j \in 1 .. N + 1,
                      ls[g].section = ls[j].section, ls[g].section \in Sections
               PROVE  g = j
    BY <1>1 DEF Distinct
  <2>1. PICK m \in 1 .. N : g = Moved(m, h) BY <1>5
  <2>2. PICK n \in 1 .. N : j = Moved(n, h) BY <1>5
  <2>3. es[m].section = es[n].section /\ es[m].section \in Sections BY <1>3, <2>1, <2>2
  <2>4. m = n BY <1>1, <2>3 DEF Distinct, Whole
  <2> QED BY <2>1, <2>2, <2>4
<1>7. Clean(ls, risky)
  <2> SUFFICES ASSUME NEW g \in 1 .. N + 1, NEW j \in 1 .. N + 1, InSection(ls, g, j),
                      ls[g].section \in Sections \ risky
               PROVE  Spotless(ls[j])
    BY <1>1 DEF Clean
  <2>1. CASE j = h + 1
    <3>1. g = h BY <1>3, <2>1
    <3> QED BY <1>1, <1>4, <2>1, <3>1 DEF Fits
  <2>2. CASE j # h + 1
    <3>1. PICK m \in 1 .. N : g = Moved(m, h) BY <1>5
    <3>2. PICK n \in 1 .. N : j = Moved(n, h) BY <1>3, <2>2
    <3>3. InSection(es, m, n) /\ es[m] = ls[g] /\ es[n] = ls[j] BY <1>3, <3>1, <3>2
    <3>4. Spotless(es[n]) BY <1>1, <3>3 DEF Clean, Whole
    <3> QED BY <3>3, <3>4
  <2> QED BY <2>1, <2>2
<1>8. Each(ls, cuts)
  <2> SUFFICES ASSUME NEW j \in 1 .. N + 1 PROVE Natural(ls[j].key, ls[j].val, cuts)
    BY <1>1 DEF Each
  <2>1. CASE j = h + 1 BY <1>1, <2>1 DEF Fits
  <2>2. CASE j # h + 1
    <3>1. PICK n \in 1 .. N : j = Moved(n, h) BY <1>3, <2>2
    <3>2. es[n] = ls[j] BY <1>3, <3>1
    <3> QED BY <1>1, <3>2 DEF Each, Whole
  <2> QED BY <2>1, <2>2
<1> QED BY <1>6, <1>7, <1>8 DEF Whole

LEMMA WholeAdded ==
  ASSUME NEW es \in Seq(Lines), NEW ls \in Seq(Lines), NEW risky, NEW cuts, NEW n \in 0 .. Len(es),
         NEW s \in Sections, NEW l, AddsBehind(es, n, ls, s, l),
         \A j \in 1 .. Len(es) : es[j].section # s,
         l.section = "none", Whole(es, risky, cuts), Fits(l, s, risky, cuts)
  PROVE  Whole(ls, risky, cuts)
<1> DEFINE N == Len(es)
           M == n + 2
<1>1. /\ n \in Nat /\ DOMAIN es = 1 .. N /\ DOMAIN ls = 1 .. M
      /\ ls[n + 1] = Header(s) /\ ls[n + 2] = l /\ \A j \in 1 .. n : ls[j] = es[j]
      /\ \A j \in 1 .. n : j \in 1 .. N
  BY DEF AddsBehind
<1>2. ~IsHeader(l) BY DEF IsHeader
<1>3. /\ \A j \in 1 .. n + 2 : j \in 1 .. n \/ j = n + 1 \/ j = n + 2
      /\ \A g, j \in 1 .. n : InSection(es, g, j) <=> InSection(ls, g, j)
      /\ \A g \in 1 .. n + 2 : ~InSection(ls, g, n + 1)
      /\ \A g \in 1 .. n + 2 : InSection(ls, g, n + 2) => g = n + 1
      /\ \A g, j \in 1 .. n + 2 : InSection(ls, g, j) /\ j \in 1 .. n => g \in 1 .. n
  BY <1>2, AddedShape
<1>4. Header(s).section = s /\ Natural(Header(s).key, Header(s).val, cuts)
  BY DEF Header, Empty, Plain, Natural
<1> HIDE DEF N
<1>5. ASSUME NEW j \in 1 .. M, ls[j].section \in Sections
      PROVE  \/ j \in 1 .. n /\ ls[j] = es[j] /\ j \in 1 .. N /\ ls[j].section # s
             \/ j = n + 1 /\ ls[j].section = s
  <2>1. j # n + 2 BY <1>1, <1>5, NamesDiffer
  <2>2. CASE j \in 1 .. n BY <1>1, <2>2 DEF N
  <2>3. CASE j = n + 1 BY <1>1, <1>4, <2>3
  <2> QED BY <1>3, <2>1, <2>2, <2>3
<1>6. Distinct(ls)
  <2> SUFFICES ASSUME NEW g \in 1 .. M, NEW j \in 1 .. M,
                      ls[g].section = ls[j].section, ls[g].section \in Sections
               PROVE  g = j
    BY <1>1 DEF Distinct
  <2>1. CASE g = n + 1 BY <1>5, <2>1
  <2>2. CASE g # n + 1
    <3>1. /\ g \in 1 .. N /\ ls[g] = es[g] /\ j \in 1 .. N /\ ls[j] = es[j] BY <1>5, <2>2
    <3> QED BY <1>1, <3>1 DEF Distinct, Whole
  <2> QED BY <2>1, <2>2
<1>7. Clean(ls, risky)
  <2> SUFFICES ASSUME NEW g \in 1 .. M, NEW j \in 1 .. M, InSection(ls, g, j),
                      ls[g].section \in Sections \ risky
               PROVE  Spotless(ls[j])
    BY <1>1 DEF Clean
  <2>1. CASE j = n + 2
    <3>1. g = n + 1 BY <1>3, <2>1
    <3> QED BY <1>1, <1>4, <2>1, <3>1 DEF Fits
  <2>2. CASE j \in 1 .. n
    <3>1. g \in 1 .. n BY <1>3, <2>2
    <3>2. InSection(es, g, j) /\ es[g] = ls[g] /\ es[j] = ls[j] /\ g \in 1 .. N /\ j \in 1 .. N
      BY <1>1, <1>3, <2>2, <3>1
    <3>3. Spotless(es[j]) BY <1>1, <3>2 DEF Clean, Whole
    <3> QED BY <3>2, <3>3
  <2> QED BY <1>3, <2>1, <2>2
<1>8. Each(ls, cuts)
  <2> SUFFICES ASSUME NEW j \in 1 .. M PROVE Natural(ls[j].key, ls[j].val, cuts)
    BY <1>1 DEF Each
  <2>1. CASE j = n + 1 BY <1>1, <1>4, <2>1
  <2>2. CASE j = n + 2 BY <1>1, <2>2 DEF Fits
  <2>3. CASE j \in 1 .. n BY <1>1, <2>3 DEF Each, Whole
  <2> QED BY <1>3, <2>1, <2>2, <2>3
<1> QED BY <1>6, <1>7, <1>8 DEF Whole

\* One of the three outcomes of a write, and the line that is written.
LEMMA PutFits ==
  ASSUME NEW list \in IniLists, NEW w \in Puts, NEW risky, NEW cuts, Clean(list.entries, risky),
         Fitting(w, risky, cuts)
  PROVE  LET r == WritePut(list, w)
             N == Len(list.entries)
         IN  \E l :
               /\ l.section = "none" /\ l.key = w.key /\ ~IsHeader(l)
               /\ Fits(l, w.section, risky, cuts)
               /\ w.section \notin risky => l.val = w.val
               /\ \/ \E h, i \in 1 .. N : Replacing(list, r, w, h, i, l)
                  \/ \E h \in 1 .. N : Inserting(list, r, w, h, l)
                  \/ Adding(list, r, w, l)
<1> DEFINE es == list.entries
           r == WritePut(list, w)
           N == Len(es)
<1>1. es \in Seq(Lines) /\ DOMAIN es = 1 .. N /\ N \in Nat BY DEF IniLists
<1>2. PICK l : WrittenFor(l, w)
                 /\ \/ \E h, i \in 1 .. N : Replacing(list, r, w, h, i, l)
                    \/ \E h \in 1 .. N : Inserting(list, r, w, h, l)
                    \/ Adding(list, r, w, l)
  BY PutCases
<1> HIDE DEF es, r
<1>3. l.section = "none" /\ l.key = w.key /\ ~IsHeader(l)
  BY <1>2, LineKinds DEF WrittenFor
<1>4. w.section \in Sections BY DEF Puts
<1>5. \E c \in BOOLEAN : l = NewLine(w.key, w.val, c) /\ (c => w.section \in risky)
  <2>1. ASSUME NEW h \in 1 .. N, NEW i \in 1 .. N, Replacing(list, r, w, h, i, l)
        PROVE  \E c \in BOOLEAN : l = NewLine(w.key, w.val, c) /\ (c => w.section \in risky)
    <3>1. /\ \E c \in BOOLEAN : /\ l = NewLine(w.key, w.val, c)
                                /\ c => \E j \in h + 1 .. i : es[j].tail
          /\ InSection(es, h, i) /\ es[h].section = w.section
      BY <2>1 DEF Replacing, es
    <3>2. PICK c \in BOOLEAN : /\ l = NewLine(w.key, w.val, c)
                               /\ c => \E j \in h + 1 .. i : es[j].tail
      BY <3>1
    <3>3. ASSUME c PROVE w.section \in risky
      <4>1. PICK j \in h + 1 .. i : es[j].tail BY <3>2, <3>3
      <4>2. j \in 1 .. N BY <1>1
      <4>3. InSection(es, h, j) BY <1>1, <3>1 DEF InSection
      <4> QED BY <1>1, <1>4, <3>1, <4>1, <4>2, <4>3 DEF Clean, Spotless, es
    <3> QED BY <3>2, <3>3
  <2>2. ASSUME NEW h \in 1 .. N, Inserting(list, r, w, h, l)
        PROVE  l = NewLine(w.key, w.val, FALSE)
    BY <2>2 DEF Inserting
  <2>3. ASSUME Adding(list, r, w, l) PROVE l = NewLine(w.key, w.val, FALSE)
    BY <2>3 DEF Adding
  <2> QED BY <1>2, <2>1, <2>2, <2>3
<1>6. Fits(l, w.section, risky, cuts) /\ (w.section \notin risky => l.val = w.val)
  BY <1>5, NewLineFits
<1> QED BY <1>2, <1>3, <1>6 DEF es, r

LEMMA WholeWrite ==
  ASSUME NEW list \in IniLists, NEW w \in Puts, NEW risky, NEW cuts, Whole(list.entries, risky, cuts),
         Fitting(w, risky, cuts)
  PROVE  Whole(WritePut(list, w).entries, risky, cuts)
<1> DEFINE es == list.entries
           r == WritePut(list, w)
           ls == r.entries
           N == Len(es)
<1>1. es \in Seq(Lines) /\ list.cur \in 0 .. N /\ Whole(es, risky, cuts) BY DEF IniLists
<1>2. r \in IniLists BY PutCases
<1>3. PICK l :
        /\ l.section = "none" /\ l.key = w.key /\ ~IsHeader(l)
        /\ Fits(l, w.section, risky, cuts)
        /\ \/ \E h, i \in 1 .. N : Replacing(list, r, w, h, i, l)
           \/ \E h \in 1 .. N : Inserting(list, r, w, h, l)
           \/ Adding(list, r, w, l)
  BY PutFits DEF Whole
<1> HIDE DEF r
<1>4. ls \in Seq(Lines) BY <1>2 DEF IniLists
<1> HIDE DEF es, ls
<1>5. ASSUME NEW h \in 1 .. N, NEW i \in 1 .. N, Replacing(list, r, w, h, i, l)
      PROVE  Whole(ls, risky, cuts)
  <2>1. /\ InSection(es, h, i) /\ ReplacesAt(es, i, ls, l)
        /\ es[h].section = w.section /\ es[i].key = w.key
    BY <1>5 DEF Replacing, es, ls
  <2> QED BY <1>1, <1>3, <1>4, <2>1, WholeReplaced
<1>6. ASSUME NEW h \in 1 .. N, Inserting(list, r, w, h, l)
      PROVE  Whole(ls, risky, cuts)
  <2>1. /\ IsHeader(es[h]) /\ InsertsBehind(es, h, ls, l) /\ es[h].section = w.section
    BY <1>6 DEF Inserting, es, ls
  <2> QED BY <1>1, <1>3, <1>4, <2>1, WholeInserted
<1>7. ASSUME Adding(list, r, w, l) PROVE Whole(ls, risky, cuts)
  <2>1. /\ AddsBehind(es, list.cur, ls, w.section, l)
        /\ \A j \in 1 .. N : es[j].section # w.section
    BY <1>7 DEF Adding, es, ls
  <2>2. w.section \in Sections BY DEF Puts
  <2> QED BY <1>1, <1>3, <1>4, <2>1, <2>2, WholeAdded
<1> QED BY <1>3, <1>5, <1>6, <1>7 DEF r, ls

-----------------------------------------------------------------------------
(* Settings that are not written stand where they stood.                    *)

LEMMA StandsReplaced ==
  ASSUME NEW es \in Seq(Lines), NEW ls \in Seq(Lines),
         NEW h \in 1 .. Len(es), NEW i \in 1 .. Len(es), NEW l,
         InSection(es, h, i), ReplacesAt(es, i, ls, l),
         l.section = "none", l.key = es[i].key,
         NEW n \in 0 .. Len(es), NEW x, NEW v, Stands(es, n, x, v),
         ~ (es[h].section = x[1] /\ l.key = x[2])
  PROVE  Stands(ls, n, x, v)
<1> DEFINE N == Len(es)
<1>1. /\ N \in Nat /\ n \in 0 .. N /\ ls[i] = l
      /\ \A j \in 1 .. N : j # i => ls[j] = es[j]
  BY DEF ReplacesAt
<1>2. es[i].section = "none"
  <2>1. i \in h + 1 .. i BY DEF InSection
  <2> QED BY <2>1 DEF InSection, IsHeader
<1> HIDE DEF N
<1>3. \A m \in 1 .. N : ls[m].section = es[m].section /\ ls[m].key = es[m].key
  BY <1>1, <1>2
<1>4. PICK g, j \in 1 .. n :
        /\ InSection(es, g, j) /\ Found(es, g, j)
        /\ es[g].section = x[1] /\ es[j].key = x[2]
        /\ [es[j].val EXCEPT !.enc = FALSE] = v
  BY DEF Stands
<1>5. g \in 1 .. N /\ j \in 1 .. N BY <1>1
<1>6. j # i
  <2> SUFFICES ASSUME j = i PROVE FALSE OBVIOUS
  <2>1. g = h BY <1>4, OneSection
  <2> QED BY <1>4, <2>1
<1>7. InSection(ls, g, j) /\ Found(ls, g, j) BY <1>1, <1>3, <1>4, <1>5, SameShape
<1>8. ls[g].section = x[1] /\ ls[j] = es[j] BY <1>1, <1>3, <1>4, <1>5, <1>6
<1> QED BY <1>4, <1>7, <1>8 DEF Stands

LEMMA StandsInserted ==
  ASSUME NEW es \in Seq(Lines), NEW ls \in Seq(Lines), NEW h \in 1 .. Len(es), NEW l,
         IsHeader(es[h]), InsertsBehind(es, h, ls, l), l.section = "none",
         NEW n \in 0 .. Len(es), NEW x, NEW v, Stands(es, n, x, v), x[1] \in Sections,
         ~ (es[h].section = x[1] /\ l.key = x[2])
  PROVE  Stands(ls, IF n > h THEN n + 1 ELSE n, x, v)
<1> DEFINE N == Len(es)
           m == IF n > h THEN n + 1 ELSE n
<1>1. N \in Nat /\ n \in 0 .. N /\ h \in 1 .. N /\ ls[h + 1] = l BY DEF InsertsBehind
<1>2. ~IsHeader(l) BY DEF IsHeader
<1>3. /\ \A j \in 1 .. N : Moved(j, h) \in 1 .. N + 1 /\ ls[Moved(j, h)] = es[j]
      /\ \A j \in 1 .. N + 1 : j = h + 1 \/ \E q \in 1 .. N : j = Moved(q, h)
      /\ \A g, j \in 1 .. N : InSection(es, g, j) <=> InSection(ls, Moved(g, h), Moved(j, h))
  BY <1>2, InsertedShape
<1> HIDE DEF N
<1>4. PICK g, j \in 1 .. n :
        /\ InSection(es, g, j) /\ Found(es, g, j)
        /\ es[g].section = x[1] /\ es[j].key = x[2]
        /\ [es[j].val EXCEPT !.enc = FALSE] = v
  BY DEF Stands
<1>5. g \in 1 .. N /\ j \in 1 .. N /\ g < j /\ n \in Nat /\ h \in Nat
  <2>1. \A a, b \in Nat : \A y \in 1 .. a : a \in 0 .. b => y \in 1 .. b OBVIOUS
  <2>2. n \in Nat /\ h \in Nat BY <1>1
  <2>3. g \in 1 .. N /\ j \in 1 .. N BY <1>1, <2>1, <2>2, Zenon
  <2>4. g < j BY <1>4 DEF InSection
  <2> QED BY <2>2, <2>3, <2>4
<1>6. Moved(g, h) \in 1 .. m /\ Moved(j, h) \in 1 .. m
  <2>1. \A a, b \in Nat : \A y \in 1 .. a :
          Moved(y, b) \in 1 .. (IF a > b THEN a + 1 ELSE a)
    BY DEF Moved
  <2> QED BY <1>5, <2>1, Zenon
<1>7. /\ ls[Moved(g, h)] = es[g] /\ ls[Moved(j, h)] = es[j]
      /\ InSection(ls, Moved(g, h), Moved(j, h))
  BY <1>3, <1>4, <1>5
<1>8. \A a, b \in 1 .. N : a < b <=> Moved(a, h) < Moved(b, h) BY <1>1 DEF Moved
<1>9. ASSUME NEW k \in 1 .. Moved(g, h) - 1 PROVE ls[k].section # x[1]
  <2>1. k \in 1 .. N + 1 BY <1>1, <1>3, <1>5
  <2>2. CASE k = h + 1 BY <1>1, <2>2, NamesDiffer
  <2>3. CASE k # h + 1
    <3>1. PICK q \in 1 .. N : k = Moved(q, h) BY <1>3, <2>1, <2>3
    <3>2. k < Moved(g, h) BY <1>3, <1>5
    <3>3. q < g BY <1>5, <1>8, <3>1, <3>2
    <3>4. q \in 1 .. g - 1 BY <1>1, <1>5, <3>3
    <3> QED BY <1>3, <1>4, <3>1, <3>4 DEF Found
  <2> QED BY <2>2, <2>3
<1>10. ASSUME NEW k \in Moved(g, h) + 1 .. Moved(j, h) - 1 PROVE ls[k].key # x[2]
  <2>1. k \in 1 .. N + 1 /\ Moved(g, h) < k /\ k < Moved(j, h)
    <3>1. Moved(g, h) \in 1 .. N + 1 /\ Moved(j, h) \in 1 .. N + 1 BY <1>3, <1>5
    <3>2. \A a, b \in 1 .. N + 1 : \A y \in a + 1 .. b - 1 : y \in 1 .. N + 1 /\ a < y /\ y < b
      BY <1>1
    <3> QED BY <3>1, <3>2, Zenon
  <2>2. CASE k = h + 1
    <3>1. g <= h /\ h < j
      <4>1. \A a, b, c \in Nat : Moved(a, c) < c + 1 /\ c + 1 < Moved(b, c) => a <= c /\ c < b
        BY DEF Moved
      <4>2. Moved(g, h) < h + 1 /\ h + 1 < Moved(j, h) BY <2>1, <2>2
      <4>3. \A y \in 1 .. N : y \in Nat BY <1>1
      <4>4. g \in Nat /\ j \in Nat /\ h \in Nat BY <1>5, <4>3
      <4> QED BY <4>1, <4>2, <4>4, Zenon
    <3>2. g = h
      <4> SUFFICES ASSUME g # h PROVE FALSE OBVIOUS
      <4>1. h \in g + 1 .. j BY <1>1, <1>5, <3>1
      <4> QED BY <1>4, <4>1 DEF InSection
    <3> QED BY <1>1, <1>4, <2>2, <3>2
  <2>3. CASE k # h + 1
    <3>1. PICK q \in 1 .. N : k = Moved(q, h) BY <1>3, <2>1, <2>3
    <3>2. g < q /\ q < j BY <1>5, <1>8, <2>1, <3>1
    <3>3. q \in g + 1 .. j - 1 BY <1>1, <1>5, <3>2
    <3> QED BY <1>3, <1>4, <3>1, <3>3 DEF Found
  <2> QED BY <2>2, <2>3
<1>11. Found(ls, Moved(g, h), Moved(j, h)) BY <1>4, <1>7, <1>9, <1>10 DEF Found
<1> HIDE DEF m
<1>12. Stands(ls, m, x, v) BY <1>4, <1>6, <1>7, <1>11, SMTT(30) DEF Stands
<1> QED BY <1>12 DEF m

LEMMA StandsAdded ==
  ASSUME NEW es \in Seq(Lines), NEW ls \in Seq(Lines), NEW n \in 0 .. Len(es), NEW s, NEW l,
         AddsBehind(es, n, ls, s, l), NEW x, NEW v, Stands(es, n, x, v)
  PROVE  Stands(ls, n + 2, x, v)
<1>1. n \in Nat /\ \A j \in 1 .. n : ls[j] = es[j] /\ j \in 1 .. n + 2 BY DEF AddsBehind
<1>2. PICK g, j \in 1 .. n :
        /\ InSection(es, g, j) /\ Found(es, g, j)
        /\ es[g].section = x[1] /\ es[j].key = x[2]
        /\ [es[j].val EXCEPT !.enc = FALSE] = v
  BY DEF Stands
<1>3. \A m \in 1 .. n : ls[m].section = es[m].section /\ ls[m].key = es[m].key BY <1>1
<1>4. InSection(ls, g, j) /\ Found(ls, g, j) BY <1>1, <1>2, <1>3, SameShape
<1>5. ls[g] = es[g] /\ ls[j] = es[j] /\ g \in 1 .. n + 2 /\ j \in 1 .. n + 2 BY <1>1
<1> QED BY <1>2, <1>4, <1>5 DEF Stands

LEMMA StandsWrite ==
  ASSUME NEW list \in IniLists, NEW w \in Puts, NEW x, NEW v,
         Stands(list.entries, list.cur, x, v), x[1] \in Sections,
         ~ (w.section = x[1] /\ w.key = x[2])
  PROVE  Stands(WritePut(list, w).entries, WritePut(list, w).cur, x, v)
<1> DEFINE es == list.entries
           n == list.cur
           r == WritePut(list, w)
           ls == r.entries
           N == Len(es)
<1>1. es \in Seq(Lines) /\ n \in 0 .. N BY DEF IniLists
<1>2. r \in IniLists BY PutCases
<1>3. PICK l : WrittenFor(l, w)
                 /\ \/ \E h, i \in 1 .. N : Replacing(list, r, w, h, i, l)
                    \/ \E h \in 1 .. N : Inserting(list, r, w, h, l)
                    \/ Adding(list, r, w, l)
  BY PutCases
<1> HIDE DEF r
<1>4. ls \in Seq(Lines) BY <1>2 DEF IniLists
<1>5. l.section = "none" /\ l.key = w.key BY <1>3, LineKinds DEF WrittenFor
<1>6. Stands(es, n, x, v) OBVIOUS
<1> HIDE DEF es, ls, n
<1>7. ASSUME NEW h \in 1 .. N, NEW i \in 1 .. N, Replacing(list, r, w, h, i, l)
      PROVE  Stands(ls, r.cur, x, v)
  <2>1. /\ InSection(es, h, i) /\ ReplacesAt(es, i, ls, l) /\ r.cur = n
        /\ es[h].section = w.section /\ es[i].key = w.key
    BY <1>7 DEF Replacing, es, ls, n
  <2>2. l.key = es[i].key /\ ~ (es[h].section = x[1] /\ l.key = x[2]) BY <1>5, <2>1
  <2>3. Stands(ls, n, x, v) BY <1>1, <1>4, <1>5, <1>6, <2>1, <2>2, StandsReplaced
  <2> QED BY <2>1, <2>3
<1>8. ASSUME NEW h \in 1 .. N, Inserting(list, r, w, h, l)
      PROVE  Stands(ls, r.cur, x, v)
  <2>1. /\ IsHeader(es[h]) /\ InsertsBehind(es, h, ls, l) /\ es[h].section = w.section
        /\ r.cur = IF n > h THEN n + 1 ELSE n
    BY <1>8 DEF Inserting, es, ls, n
  <2>2. ~ (es[h].section = x[1] /\ l.key = x[2]) BY <1>5, <2>1
  <2>3. Stands(ls, IF n > h THEN n + 1 ELSE n, x, v)
    BY <1>1, <1>4, <1>5, <1>6, <2>1, <2>2, StandsInserted
  <2> QED BY <2>1, <2>3
<1>9. ASSUME Adding(list, r, w, l) PROVE Stands(ls, r.cur, x, v)
  <2>1. AddsBehind(es, n, ls, w.section, l) /\ r.cur = n + 2
    BY <1>9 DEF Adding, es, ls, n
  <2>2. Stands(ls, n + 2, x, v) BY <1>1, <1>4, <1>6, <2>1, StandsAdded
  <2> QED BY <2>1, <2>2
<1> QED BY <1>3, <1>7, <1>8, <1>9 DEF r, ls

-----------------------------------------------------------------------------
(* What is written stands where it is found.                                *)

\* Between two writes CurEntry is the last line, or the header that was the last when the
\* file was read, with the lines behind it that were put there since.
Linked(first, list) ==
  LET es == list.entries
      n  == list.cur
  IN  /\ \A j \in n + 1 .. Len(es) : ~IsHeader(es[j])
      /\ n = Len(es) \/ (n > 0 /\ IsHeader(es[n]))
      /\ n > 0 /\ IsHeader(es[n]) => EndsAtHeader(first, es[n].section)

LEMMA LinkedWrite ==
  ASSUME NEW first, NEW list \in IniLists, NEW w \in Puts, Linked(first, list)
  PROVE  Linked(first, WritePut(list, w))
<1> DEFINE es == list.entries
           n == list.cur
           r == WritePut(list, w)
           ls == r.entries
           N == Len(es)
<1>1. es \in Seq(Lines) /\ n \in 0 .. N /\ N \in Nat BY DEF IniLists
<1>2. r \in IniLists BY PutCases
<1>3. PICK l : WrittenFor(l, w)
                 /\ \/ \E h, i \in 1 .. N : Replacing(list, r, w, h, i, l)
                    \/ \E h \in 1 .. N : Inserting(list, r, w, h, l)
                    \/ Adding(list, r, w, l)
  BY PutCases
<1>4. /\ \A j \in n + 1 .. N : ~IsHeader(es[j])
      /\ n = N \/ (n > 0 /\ IsHeader(es[n]))
      /\ n > 0 /\ IsHeader(es[n]) => EndsAtHeader(first, es[n].section)
  BY DEF Linked
<1> HIDE DEF r
<1>5. ls \in Seq(Lines) BY <1>2 DEF IniLists
<1>6. ~IsHeader(l) /\ l.section = "none" BY <1>3, LineKinds DEF WrittenFor
<1> HIDE DEF es, ls, n, N
<1> SUFFICES /\ \A j \in r.cur + 1 .. Len(ls) : ~IsHeader(ls[j])
             /\ r.cur = Len(ls) \/ (r.cur > 0 /\ IsHeader(ls[r.cur]))
             /\ r.cur > 0 /\ IsHeader(ls[r.cur]) => EndsAtHeader(first, ls[r.cur].section)
  BY DEF Linked, ls, r
<1>7. ASSUME NEW h \in 1 .. N, NEW i \in 1 .. N, Replacing(list, r, w, h, i, l)
      PROVE  /\ \A j \in r.cur + 1 .. Len(ls) : ~IsHeader(ls[j])
             /\ r.cur = Len(ls) \/ (r.cur > 0 /\ IsHeader(ls[r.cur]))
             /\ r.cur > 0 /\ IsHeader(ls[r.cur]) => EndsAtHeader(first, ls[r.cur].section)
  <2>1. InSection(es, h, i) /\ ReplacesAt(es, i, ls, l) /\ r.cur = n
    BY <1>7 DEF Replacing, es, ls, n
  <2>2. es[i].section = "none"
    <3>1. i \in h + 1 .. i BY <1>1, <2>1 DEF InSection
    <3> QED BY <2>1, <3>1 DEF InSection, IsHeader
  <2>3. Len(ls) = N /\ \A j \in 1 .. N : ls[j].section = es[j].section
    BY <1>6, <2>1, <2>2 DEF ReplacesAt, N
  <2>4. \A j \in n + 1 .. N : j \in 1 .. N BY <1>1
  <2>5. n > 0 => n \in 1 .. N BY <1>1
  <2> QED BY <1>4, <2>1, <2>3, <2>4, <2>5 DEF IsHeader
<1>8. ASSUME NEW h \in 1 .. N, Inserting(list, r, w, h, l)
      PROVE  /\ \A j \in r.cur + 1 .. Len(ls) : ~IsHeader(ls[j])
             /\ r.cur = Len(ls) \/ (r.cur > 0 /\ IsHeader(ls[r.cur]))
             /\ r.cur > 0 /\ IsHeader(ls[r.cur]) => EndsAtHeader(first, ls[r.cur].section)
  <2>1. /\ IsHeader(es[h]) /\ InsertsBehind(es, h, ls, l)
        /\ r.cur = IF n > h THEN n + 1 ELSE n
    BY <1>8 DEF Inserting, es, ls, n
  <2>2. /\ \A m \in 1 .. h : ls[m] = es[m]
        /\ ls[h + 1] = l
        /\ \A m \in h + 2 .. N + 1 : ls[m] = es[m - 1] /\ m - 1 \in h + 1 .. N
    BY <1>1, <1>5, <2>1, InsertedLines DEF N
  <2>3. Len(ls) = N + 1 BY <2>1 DEF InsertsBehind, N
  <2>4. h <= n
    <3> SUFFICES ASSUME ~ (h <= n) PROVE FALSE OBVIOUS
    <3>1. h \in n + 1 .. N BY <1>1
    <3> QED BY <1>4, <2>1, <3>1
  <2>5. CASE n > h
    <3>1. r.cur = n + 1 /\ n + 1 \in h + 2 .. N + 1 /\ (n + 1) - 1 = n BY <1>1, <2>1, <2>5
    <3>2. ls[r.cur] = es[n] BY <2>2, <3>1
    <3>3. ASSUME NEW j \in r.cur + 1 .. Len(ls) PROVE ~IsHeader(ls[j])
      <4>1. j \in h + 2 .. N + 1 /\ j - 1 \in n + 1 .. N BY <1>1, <2>3, <2>5, <3>1
      <4> QED BY <1>4, <2>2, <4>1
    <3> QED BY <1>1, <1>4, <2>3, <3>1, <3>2, <3>3
  <2>6. CASE n = h
    <3>1. r.cur = h /\ h \in 1 .. h /\ h > 0 BY <1>1, <2>1, <2>6
    <3>2. ls[r.cur] = es[n] BY <2>2, <2>6, <3>1
    <3>3. ASSUME NEW j \in r.cur + 1 .. Len(ls) PROVE ~IsHeader(ls[j])
      <4>1. CASE j = h + 1 BY <1>6, <2>2, <4>1
      <4>2. CASE j # h + 1
        <5>1. j \in h + 2 .. N + 1 /\ j - 1 \in n + 1 .. N BY <1>1, <2>3, <2>6, <3>1, <4>2
        <5> QED BY <1>4, <2>2, <5>1
      <4> QED BY <4>1, <4>2
    <3> QED BY <1>1, <1>4, <2>1, <2>6, <3>1, <3>2, <3>3
  <2> QED BY <1>1, <2>4, <2>5, <2>6
<1>9. ASSUME Adding(list, r, w, l)
      PROVE  /\ \A j \in r.cur + 1 .. Len(ls) : ~IsHeader(ls[j])
             /\ r.cur = Len(ls) \/ (r.cur > 0 /\ IsHeader(ls[r.cur]))
             /\ r.cur > 0 /\ IsHeader(ls[r.cur]) => EndsAtHeader(first, ls[r.cur].section)
  <2>1. r.cur = n + 2 /\ Len(ls) = n + 2 /\ ls[n + 2] = l
    BY <1>9 DEF Adding, AddsBehind, es, ls, n
  <2>2. \A j \in r.cur + 1 .. Len(ls) : FALSE BY <1>1, <2>1
  <2> QED BY <1>6, <2>1, <2>2
<1> QED BY <1>3, <1>7, <1>8, <1>9

LEMMA StandsWritten ==
  ASSUME NEW first, NEW list \in IniLists, NEW w \in Puts, NEW risky, NEW cuts,
         Linked(first, list), Clean(list.entries, risky), Fitting(w, risky, cuts),
         w.section \notin risky, ~EndsAtHeader(first, w.section)
  PROVE  LET r == WritePut(list, w) IN
         Stands(r.entries, r.cur, <<w.section, w.key>>, [w.val EXCEPT !.enc = FALSE])
<1> DEFINE es == list.entries
           n == list.cur
           r == WritePut(list, w)
           ls == r.entries
           N == Len(es)
           x == <<w.section, w.key>>
           v == [w.val EXCEPT !.enc = FALSE]
<1>1. es \in Seq(Lines) /\ n \in 0 .. N /\ N \in Nat BY DEF IniLists
<1>2. r \in IniLists BY PutCases
<1>3. PICK l :
        /\ l.section = "none" /\ l.key = w.key /\ ~IsHeader(l)
        /\ l.val = w.val
        /\ \/ \E h, i \in 1 .. N : Replacing(list, r, w, h, i, l)
           \/ \E h \in 1 .. N : Inserting(list, r, w, h, l)
           \/ Adding(list, r, w, l)
  BY PutFits
<1>4. /\ \A j \in n + 1 .. N : ~IsHeader(es[j])
      /\ n = N \/ (n > 0 /\ IsHeader(es[n]))
      /\ n > 0 /\ IsHeader(es[n]) => EndsAtHeader(first, es[n].section)
  BY DEF Linked
<1> HIDE DEF r
<1>5. ls \in Seq(Lines) BY <1>2 DEF IniLists
<1>6. x[1] = w.section /\ x[2] = w.key /\ w.section \in Sections BY DEF Puts
<1> HIDE DEF es, ls, n, N, x, v
\* The section is not the one at whose header CurEntry stands.
<1>7. ASSUME NEW h \in 1 .. N, IsHeader(es[h]), es[h].section = w.section
      PROVE  h < n
  <2>1. h <= n
    <3> SUFFICES ASSUME ~ (h <= n) PROVE FALSE OBVIOUS
    <3>1. h \in n + 1 .. N BY <1>1
    <3> QED BY <1>4, <1>7, <3>1
  <2>2. h # n BY <1>1, <1>4, <1>7
  <2> QED BY <1>1, <2>1, <2>2
<1>8. ASSUME NEW h \in 1 .. N, NEW i \in 1 .. N, Replacing(list, r, w, h, i, l)
      PROVE  Stands(ls, r.cur, x, v)
  <2>1. /\ InSection(es, h, i) /\ Found(es, h, i) /\ ReplacesAt(es, i, ls, l) /\ r.cur = n
        /\ es[h].section = w.section /\ es[i].key = w.key
    BY <1>8 DEF Replacing, es, ls, n
  <2>2. es[i].section = "none"
    <3>1. i \in h + 1 .. i BY <1>1, <2>1 DEF InSection
    <3> QED BY <2>1, <3>1 DEF InSection, IsHeader
  <2>3. ls[i] = l /\ \A m \in 1 .. N : ls[m].section = es[m].section /\ ls[m].key = es[m].key
    BY <1>3, <2>1, <2>2 DEF ReplacesAt, N
  <2>4. InSection(ls, h, i) /\ Found(ls, h, i) BY <1>1, <2>1, <2>3, SameShape
  <2>5. h < n BY <1>7, <2>1 DEF InSection
  <2>6. i <= n
    <3> SUFFICES ASSUME ~ (i <= n) PROVE FALSE OBVIOUS
    <3>1. n # N /\ n \in h + 1 .. i BY <1>1, <2>5
    <3> QED BY <1>4, <2>1, <3>1 DEF InSection
  <2>7. h \in 1 .. n /\ i \in 1 .. n BY <1>1, <2>5, <2>6
  <2>8. ls[h].section = x[1] /\ ls[i].key = x[2] /\ [ls[i].val EXCEPT !.enc = FALSE] = v
    BY <1>3, <1>6, <2>1, <2>3 DEF v
  <2>9. Stands(ls, n, x, v) BY <2>4, <2>7, <2>8 DEF Stands
  <2> QED BY <2>1, <2>9
<1>9. ASSUME NEW h \in 1 .. N, Inserting(list, r, w, h, l)
      PROVE  Stands(ls, r.cur, x, v)
  <2>1. /\ IsHeader(es[h]) /\ InsertsBehind(es, h, ls, l) /\ es[h].section = w.section
        /\ \A j \in 1 .. h - 1 : es[j].section # es[h].section
        /\ r.cur = IF n > h THEN n + 1 ELSE n
    BY <1>9 DEF Inserting, es, ls, n
  <2>2. h < n BY <1>7, <2>1
  <2>3. r.cur = n + 1 /\ h \in 1 .. n + 1 /\ h + 1 \in 1 .. n + 1 /\ h \in 1 .. h
    BY <1>1, <2>1, <2>2
  <2>4. ls[h + 1] = l /\ \A j \in 1 .. h : ls[j] = es[j] BY <2>1 DEF InsertsBehind
  <2>5. InSection(ls, h, h + 1)
    <3>1. \A m \in h + 1 .. h + 1 : m = h + 1 BY <1>1
    <3>2. h < h + 1 BY <1>1
    <3> QED BY <1>3, <2>1, <2>3, <2>4, <3>1, <3>2 DEF InSection
  <2>6. Found(ls, h, h + 1)
    <3>1. \A j \in 1 .. h - 1 : j \in 1 .. h BY <1>1
    <3>2. \A j \in h + 1 .. (h + 1) - 1 : FALSE BY <1>1
    <3> QED BY <2>1, <2>3, <2>4, <3>1, <3>2 DEF Found
  <2>7. /\ ls[h].section = x[1] /\ ls[h + 1].key = x[2]
        /\ [ls[h + 1].val EXCEPT !.enc = FALSE] = v
    BY <1>3, <1>6, <2>1, <2>3, <2>4 DEF v
  <2>8. Stands(ls, n + 1, x, v) BY <2>3, <2>5, <2>6, <2>7 DEF Stands
  <2> QED BY <2>3, <2>8
<1>10. ASSUME Adding(list, r, w, l) PROVE Stands(ls, r.cur, x, v)
  <2>1. /\ \A j \in 1 .. N : es[j].section # w.section
        /\ AddsBehind(es, n, ls, w.section, l) /\ r.cur = n + 2
    BY <1>10 DEF Adding, es, ls, n, N
  <2>2. ls[n + 1] = Header(w.section) /\ ls[n + 2] = l /\ \A j \in 1 .. n : ls[j] = es[j]
    BY <2>1 DEF AddsBehind
  <2>3. InSection(ls, n + 1, n + 2) BY <1>1, <1>3, <1>5, <1>6, <2>1, AddedShape DEF N
  <2>4. ls[n + 1].section = w.section BY <1>6, <2>2, HeaderIsLine
  <2>5. Found(ls, n + 1, n + 2)
    <3>1. \A j \in 1 .. (n + 1) - 1 : j \in 1 .. n /\ j \in 1 .. N BY <1>1
    <3>2. \A j \in (n + 1) + 1 .. (n + 2) - 1 : FALSE BY <1>1
    <3> QED BY <2>1, <2>2, <2>4, <3>1, <3>2 DEF Found
  <2>6. n + 1 \in 1 .. n + 2 /\ n + 2 \in 1 .. n + 2 BY <1>1
  <2>7. ls[n + 2].key = x[2] /\ [ls[n + 2].val EXCEPT !.enc = FALSE] = v
    BY <1>3, <1>6, <2>2 DEF v
  <2>8. Stands(ls, n + 2, x, v) BY <1>6, <2>3, <2>4, <2>5, <2>6, <2>7 DEF Stands
  <2> QED BY <2>1, <2>8
<1> QED BY <1>3, <1>8, <1>9, <1>10 DEF r, ls, x, v

\* One write after the other, from what was read.
LEMMA WholeSteps ==
  ASSUME NEW list \in IniLists, NEW writes \in Seq(Puts), NEW risky, NEW cuts,
         list.cur = Len(list.entries), Whole(list.entries, risky, cuts),
         \A n \in 1 .. Len(writes) : Fitting(writes[n], risky, cuts)
  PROVE  \E f \in [0 .. Len(writes) -> IniLists] :
           /\ f[0] = list /\ f[Len(writes)] = WriteStrings(list, writes)
           /\ \A n \in 1 .. Len(writes) : f[n] = WritePut(f[n - 1], writes[n])
           /\ \A n \in 0 .. Len(writes) : Whole(f[n].entries, risky, cuts) /\ Linked(list, f[n])
<1> DEFINE N == Len(writes)
           L == IniLists
<1>1. PICK f \in [0 .. N -> IniLists] :
        /\ f[0] = list /\ f[N] = WriteStrings(list, writes)
        /\ \A n \in 1 .. N : f[n] = WritePut(f[n - 1], writes[n])
  BY WriteStringsSteps
<1>2. N \in Nat /\ \A n \in 1 .. N : writes[n] \in Puts OBVIOUS
<1>3. \A n \in 0 .. N : f[n] \in L OBVIOUS
<1>4. Linked(list, list)
  <2>1. list.cur \in Nat /\ Len(list.entries) \in Nat BY DEF IniLists
  <2>2. \A j \in list.cur + 1 .. Len(list.entries) : FALSE BY <2>1
  <2> QED BY <2>2 DEF Linked, EndsAtHeader
<1> HIDE DEF N, L
<1> DEFINE G == {n \in 0 .. N : Whole(f[n].entries, risky, cuts) /\ Linked(list, f[n])}
<1>5. 0 \in G BY <1>1, <1>2, <1>4
<1>6. ASSUME NEW n \in 0 .. N - 1, n \in G PROVE n + 1 \in G
  <2> DEFINE w == writes[n + 1]
  <2>1. n + 1 \in 1 .. N /\ n + 1 \in 0 .. N /\ n \in 0 .. N /\ (n + 1) - 1 = n BY <1>2
  <2>2. f[n + 1] = WritePut(f[n], w) /\ w \in Puts /\ f[n] \in IniLists /\ Fitting(w, risky, cuts)
    BY <1>1, <1>2, <1>3, <2>1 DEF L, N
  <2>3. Whole(f[n].entries, risky, cuts) /\ Linked(list, f[n]) BY <1>6
  <2> HIDE DEF w
  <2>4. Whole(WritePut(f[n], w).entries, risky, cuts) BY <2>2, <2>3, WholeWrite
  <2>5. Linked(list, WritePut(f[n], w)) BY <2>2, <2>3, LinkedWrite
  <2> QED BY <2>1, <2>2, <2>4, <2>5
<1> HIDE DEF G
<1>7. \A n \in 0 .. N : n \in G BY <1>2, <1>5, <1>6, Induction
<1>8. \A n \in 0 .. N : Whole(f[n].entries, risky, cuts) /\ Linked(list, f[n]) BY <1>7 DEF G
<1> QED BY <1>1, <1>8 DEF N

\* A setting that is not written.
LEMMA StandsWrites ==
  ASSUME NEW list \in IniLists, NEW writes \in Seq(Puts), NEW x, NEW v,
         Stands(list.entries, list.cur, x, v), x[1] \in Sections,
         \A n \in 1 .. Len(writes) : ~ (writes[n].section = x[1] /\ writes[n].key = x[2])
  PROVE  LET r == WriteStrings(list, writes) IN Stands(r.entries, r.cur, x, v)
<1> DEFINE N == Len(writes)
           L == IniLists
<1>1. PICK f \in [0 .. N -> IniLists] :
        /\ f[0] = list /\ f[N] = WriteStrings(list, writes)
        /\ \A n \in 1 .. N : f[n] = WritePut(f[n - 1], writes[n])
  BY WriteStringsSteps
<1>2. N \in Nat /\ \A n \in 1 .. N : writes[n] \in Puts OBVIOUS
<1>3. \A n \in 0 .. N : f[n] \in L OBVIOUS
<1> HIDE DEF N, L
<1> DEFINE G == {n \in 0 .. N : Stands(f[n].entries, f[n].cur, x, v)}
<1>4. 0 \in G BY <1>1, <1>2
<1>5. ASSUME NEW n \in 0 .. N - 1, n \in G PROVE n + 1 \in G
  <2> DEFINE w == writes[n + 1]
  <2>1. n + 1 \in 1 .. N /\ n + 1 \in 0 .. N /\ n \in 0 .. N /\ (n + 1) - 1 = n BY <1>2
  <2>2. /\ f[n + 1] = WritePut(f[n], w) /\ w \in Puts /\ f[n] \in IniLists
        /\ ~ (w.section = x[1] /\ w.key = x[2])
    BY <1>1, <1>2, <1>3, <2>1 DEF L, N
  <2>3. Stands(f[n].entries, f[n].cur, x, v) BY <1>5
  <2> HIDE DEF w
  <2>4. Stands(WritePut(f[n], w).entries, WritePut(f[n], w).cur, x, v)
    BY <2>2, <2>3, StandsWrite
  <2> QED BY <2>1, <2>2, <2>4
<1> HIDE DEF G
<1>6. \A n \in 0 .. N : n \in G BY <1>2, <1>4, <1>5, Induction
<1>7. N \in G BY <1>2, <1>6
<1> QED BY <1>1, <1>7 DEF G

\* Writes of the same setting write the same.
Agreeing(writes) ==
  \A m, n \in 1 .. Len(writes) :
     writes[m].section = writes[n].section /\ writes[m].key = writes[n].key
       => writes[m].val = writes[n].val

\* A setting that is written.
LEMMA WrittenStands ==
  ASSUME NEW list \in IniLists, NEW writes \in Seq(Puts), NEW risky, NEW cuts,
         list.cur = Len(list.entries), Whole(list.entries, risky, cuts),
         \A n \in 1 .. Len(writes) : Fitting(writes[n], risky, cuts),
         Agreeing(writes), NEW m \in 1 .. Len(writes),
         writes[m].section \notin risky, ~EndsAtHeader(list, writes[m].section)
  PROVE  LET r == WriteStrings(list, writes)
             w == writes[m]
         IN  Stands(r.entries, r.cur, <<w.section, w.key>>, [w.val EXCEPT !.enc = FALSE])
<1> DEFINE N == Len(writes)
           L == IniLists
           s == writes[m].section
           k == writes[m].key
           x == <<s, k>>
           v == [writes[m].val EXCEPT !.enc = FALSE]
<1>1. PICK f \in [0 .. N -> IniLists] :
        /\ f[0] = list /\ f[N] = WriteStrings(list, writes)
        /\ \A n \in 1 .. N : f[n] = WritePut(f[n - 1], writes[n])
        /\ \A n \in 0 .. N : Whole(f[n].entries, risky, cuts) /\ Linked(list, f[n])
  BY WholeSteps
<1>2. N \in Nat /\ m \in 1 .. N /\ \A n \in 1 .. N : writes[n] \in Puts OBVIOUS
<1>3. \A n \in 0 .. N : f[n] \in L OBVIOUS
<1>4. s \in Sections /\ x[1] = s /\ x[2] = k /\ s \notin risky /\ ~EndsAtHeader(list, s)
  BY <1>2 DEF Puts
<1> HIDE DEF N, L
<1> DEFINE G == {n \in 0 .. N : m <= n => Stands(f[n].entries, f[n].cur, x, v)}
<1>5. 0 \in G BY <1>2
<1>6. ASSUME NEW n \in 0 .. N - 1, n \in G PROVE n + 1 \in G
  <2> DEFINE w == writes[n + 1]
             r == WritePut(f[n], w)
  <2>1. n + 1 \in 1 .. N /\ n + 1 \in 0 .. N /\ n \in 0 .. N /\ (n + 1) - 1 = n
        /\ (m <= n + 1 => m <= n \/ n + 1 = m)
    BY <1>2
  <2>2. f[n + 1] = r /\ w \in Puts /\ f[n] \in IniLists /\ Fitting(w, risky, cuts)
    BY <1>1, <1>2, <1>3, <2>1 DEF L, N
  <2>3. Whole(f[n].entries, risky, cuts) /\ Linked(list, f[n]) BY <1>1, <2>1
  <2>4. CASE w.section = s /\ w.key = k
    <3>1. w.val = writes[m].val BY <1>2, <2>1, <2>4 DEF Agreeing, N
    <3> HIDE DEF w, s, k
    <3>2. Stands(r.entries, r.cur, <<w.section, w.key>>, [w.val EXCEPT !.enc = FALSE])
      <4> HIDE DEF r, x, v
      <4> QED BY <1>4, <2>2, <2>3, <2>4, StandsWritten DEF Whole, r
    <3>3. Stands(r.entries, r.cur, x, v) BY <2>4, <3>1, <3>2
    <3> HIDE DEF x, v, r
    <3> QED BY <2>1, <2>2, <3>3
  <2>5. CASE ~ (w.section = s /\ w.key = k) /\ m <= n
    <3>1. Stands(f[n].entries, f[n].cur, x, v) BY <1>6, <2>5
    <3> HIDE DEF w, s, k, x, v
    <3>2. Stands(r.entries, r.cur, x, v) BY <1>4, <2>2, <2>5, <3>1, StandsWrite
    <3> HIDE DEF r
    <3> QED BY <2>1, <2>2, <3>2
  <2>6. CASE ~ (w.section = s /\ w.key = k) /\ ~ (m <= n)
    <3>1. n + 1 # m BY <2>6
    <3> HIDE DEF x, v, r
    <3> QED BY <2>1, <2>6, <3>1
  <2> QED BY <2>4, <2>5, <2>6
<1> HIDE DEF G
<1>7. \A n \in 0 .. N : n \in G BY <1>2, <1>5, <1>6, Induction
<1>8. N \in G /\ m <= N BY <1>2, <1>7
<1>9. Stands(f[N].entries, f[N].cur, x, v) BY <1>8 DEF G
<1> QED BY <1>1, <1>9 DEF x, v

-----------------------------------------------------------------------------
(* What is read, and what is left when a write breaks off.                  *)

\* A section that is asked for is read as it stands in the file.
LEMMA SectionRead ==
  ASSUME NEW file \in Seq(Lines), NEW h \in 1 .. Len(file), NEW i \in 1 .. Len(file)
  PROVE  LET es == OpenIniFile(file).entries IN
         InSection(es, h, i) /\ es[h].section \in Sections
           => es[h] = file[h] /\ es[i] = file[i] /\ InSection(file, h, i)
<1> DEFINE es == OpenIniFile(file).entries
           N == Len(file)
<1>1. /\ N \in Nat
      /\ \A j \in 1 .. N :
           \/ es[j] = file[j]
           \/ es[j].section = "stray" /\ IsHeader(es[j]) /\ es[j].key = "none"
  BY ReadLines
<1> HIDE DEF es, N
<1> SUFFICES ASSUME InSection(es, h, i), es[h].section \in Sections
             PROVE  es[h] = file[h] /\ es[i] = file[i] /\ InSection(file, h, i)
  BY DEF es
<1>2. es[h] = file[h] BY <1>1, NamesDiffer DEF N
<1>3. h < i /\ \A m \in h + 1 .. i : m \in 1 .. N BY <1>1 DEF InSection, N
<1>4. \A m \in h + 1 .. i : es[m] = file[m] BY <1>1, <1>3 DEF InSection
<1>5. i \in h + 1 .. i BY <1>3
<1>6. InSection(file, h, i) BY <1>2, <1>4 DEF InSection
<1> QED BY <1>2, <1>4, <1>5, <1>6

LEMMA WholeRead ==
  ASSUME NEW file \in Seq(Lines), NEW risky, NEW cuts, Whole(file, risky, cuts)
  PROVE  Whole(OpenIniFile(file).entries, risky, cuts)
<1> DEFINE es == OpenIniFile(file).entries
           N == Len(file)
<1>1. /\ es \in Seq(Lines) /\ Len(es) = N /\ N \in Nat /\ DOMAIN es = 1 .. N
      /\ DOMAIN file = 1 .. N
      /\ \A j \in 1 .. N :
           \/ es[j] = file[j]
           \/ es[j].section = "stray" /\ IsHeader(es[j]) /\ es[j].key = "none"
  BY ReadLines
<1>2. ASSUME NEW h \in 1 .. N, NEW i \in 1 .. N, InSection(es, h, i), es[h].section \in Sections
      PROVE  es[h] = file[h] /\ es[i] = file[i] /\ InSection(file, h, i)
  BY <1>2, SectionRead
<1> HIDE DEF es, N
<1>3. Distinct(es)
  <2> SUFFICES ASSUME NEW g \in 1 .. N, NEW h \in 1 .. N, es[g].section = es[h].section,
                      es[g].section \in Sections
               PROVE  g = h
    BY <1>1 DEF Distinct
  <2>1. es[g] = file[g] /\ es[h] = file[h] BY <1>1, NamesDiffer
  <2> QED BY <1>1, <2>1 DEF Distinct, Whole
<1>4. Clean(es, risky)
  <2> SUFFICES ASSUME NEW h \in 1 .. N, NEW i \in 1 .. N, InSection(es, h, i),
                      es[h].section \in Sections \ risky
               PROVE  Spotless(es[i])
    BY <1>1 DEF Clean
  <2>1. es[h] = file[h] /\ es[i] = file[i] /\ InSection(file, h, i) BY <1>2
  <2> QED BY <1>1, <2>1 DEF Clean, Whole
<1>5. Each(es, cuts)
  <2> SUFFICES ASSUME NEW j \in 1 .. N PROVE Natural(es[j].key, es[j].val, cuts)
    BY <1>1 DEF Each
  <2>1. CASE es[j] = file[j] BY <1>1, <2>1 DEF Each, Whole
  <2>2. CASE IsHeader(es[j])
    <3>1. es[j] \in Lines BY <1>1
    <3>2. es[j].key = "none" /\ es[j].val = Empty BY <2>2, <3>1, LineKinds
    <3> QED BY <3>2 DEF Empty, Plain, Natural
  <2> QED BY <1>1, <2>1, <2>2
<1> QED BY <1>3, <1>4, <1>5 DEF Whole, es

LEMMA StandsRead ==
  ASSUME NEW file \in Seq(Lines), NEW risky, Clean(file, risky), NEW x, x[1] \in Sections \ risky,
         NEW v, Stands(file, Len(file), x, v)
  PROVE  Stands(OpenIniFile(file).entries, Len(file), x, v)
<1> DEFINE es == OpenIniFile(file).entries
           N == Len(file)
<1>1. /\ N \in Nat /\ DOMAIN file = 1 .. N
      /\ \A j \in 1 .. N :
           \/ es[j] = file[j]
           \/ /\ es[j].section = "stray" /\ ~IsHeader(file[j])
              /\ Shows(file[j].val, "brackets")
  BY ReadLines
<1>2. PICK h, i \in 1 .. N :
        /\ InSection(file, h, i) /\ Found(file, h, i)
        /\ file[h].section = x[1] /\ file[i].key = x[2]
        /\ [file[i].val EXCEPT !.enc = FALSE] = v
  BY DEF Stands
<1> HIDE DEF es, N
<1>3. h < i /\ \A m \in h + 1 .. i : m \in 1 .. N BY <1>1, <1>2 DEF InSection
<1>4. ASSUME NEW m \in h + 1 .. i PROVE es[m] = file[m]
  <2>1. InSection(file, h, m) /\ m \in 1 .. N BY <1>1, <1>2, <1>3 DEF InSection
  <2>2. ~Shows(file[m].val, "brackets") BY <1>1, <1>2, <2>1 DEF Clean, Spotless
  <2> QED BY <1>1, <2>1, <2>2
<1>5. es[h] = file[h] BY <1>1, <1>2 DEF InSection
<1>6. i \in h + 1 .. i /\ \A m \in h + 1 .. i - 1 : m \in h + 1 .. i BY <1>3
<1>7. InSection(es, h, i) BY <1>2, <1>4, <1>5 DEF InSection
<1>8. ASSUME NEW m \in 1 .. h - 1 PROVE es[m].section # x[1]
  <2>1. m \in 1 .. N BY <1>1
  <2>2. es[m].section = file[m].section \/ es[m].section = "stray" BY <1>1, <2>1
  <2> QED BY <1>2, <2>2, NamesDiffer DEF Found
<1>9. Found(es, h, i) BY <1>2, <1>4, <1>5, <1>6, <1>8 DEF Found
<1> QED BY <1>2, <1>4, <1>5, <1>6, <1>7, <1>9 DEF Stands, es, N

LEMMA WholeCut ==
  ASSUME NEW ls \in Seq(Lines), NEW file \in BrokenOff(ls), NEW risky,
         NEW cuts, cuts > 0, Whole(ls, risky, cuts)
  PROVE  Whole(file, risky, cuts)
<1> DEFINE N == Len(ls)
           n == Len(file)
<1>1. /\ file \in Seq(Lines) /\ n \in 0 .. N /\ n \in Nat /\ N \in Nat
      /\ DOMAIN file = 1 .. n /\ DOMAIN ls = 1 .. N
      /\ \A j \in 1 .. n - 1 : file[j] = ls[j]
      /\ n # 0 => file[n] = ls[n] \/ Halved(file[n], ls[n])
  BY CutLines
<1> HIDE DEF N, n
<1>2. ASSUME NEW j \in 1 .. n PROVE j \in 1 .. N /\ (file[j] = ls[j] \/ Halved(file[j], ls[j]))
  BY <1>1
<1>3. ASSUME NEW j \in 1 .. n, IsHeader(file[j]) PROVE file[j] = ls[j]
  BY <1>2, <1>3 DEF Halved
<1>4. Distinct(file)
  <2> SUFFICES ASSUME NEW g \in 1 .. n, NEW h \in 1 .. n, file[g].section = file[h].section,
                      file[g].section \in Sections
               PROVE  g = h
    BY <1>1 DEF Distinct
  <2>1. IsHeader(file[g]) /\ IsHeader(file[h]) BY NamesDiffer DEF IsHeader
  <2>2. file[g] = ls[g] /\ file[h] = ls[h] BY <1>3, <2>1
  <2> QED BY <1>1, <1>2, <2>2 DEF Distinct, Whole
<1>5. Clean(file, risky)
  <2> SUFFICES ASSUME NEW h \in 1 .. n, NEW i \in 1 .. n, InSection(file, h, i),
                      file[h].section \in Sections \ risky
               PROVE  Spotless(file[i])
    BY <1>1 DEF Clean
  <2>1. CASE Halved(file[i], ls[i]) BY <2>1 DEF Halved, Spotless
  <2>2. CASE file[i] = ls[i]
    <3>1. file[h] = ls[h] BY <1>3 DEF InSection
    <3>2. h < i /\ \A m \in h + 1 .. i - 1 : m \in 1 .. n - 1 /\ m \in h + 1 .. i
      BY <1>1 DEF InSection
    <3>3. ASSUME NEW m \in h + 1 .. i PROVE ~IsHeader(ls[m])
      <4>1. m = i \/ m \in h + 1 .. i - 1 BY <1>1
      <4>2. file[m] = ls[m] BY <1>1, <2>2, <3>2, <4>1
      <4> QED BY <4>2 DEF InSection
    <3>4. InSection(ls, h, i) BY <3>1, <3>2, <3>3 DEF InSection
    <3> QED BY <1>1, <1>2, <2>2, <3>1, <3>4 DEF Clean, Whole
  <2> QED BY <1>2, <2>1, <2>2
<1>6. Each(file, cuts)
  <2> SUFFICES ASSUME NEW j \in 1 .. n PROVE Natural(file[j].key, file[j].val, cuts)
    BY <1>1 DEF Each
  <2>1. j \in 1 .. N /\ Natural(ls[j].key, ls[j].val, cuts) BY <1>1, <1>2 DEF Each, Whole
  <2>2. CASE file[j] = ls[j] BY <2>1, <2>2
  <2>3. CASE Halved(file[j], ls[j]) BY <2>1, <2>3 DEF Halved, Natural
  <2> QED BY <1>2, <2>2, <2>3
<1> QED BY <1>4, <1>5, <1>6 DEF Whole

-----------------------------------------------------------------------------
(* WriteIniFile.                                                            *)

LEMMA WholeMore ==
  ASSUME NEW es, NEW risky, NEW cuts \in Nat, NEW more, NEW later \in Nat,
         Whole(es, risky, cuts), risky \subseteq more, cuts <= later
  PROVE  Whole(es, more, later)
<1>1. Distinct(es) /\ Clean(es, more) BY DEF Whole, Clean
<1>2. Each(es, later) BY DEF Whole, Each, Natural
<1> QED BY <1>1, <1>2 DEF Whole

LEMMA StandsMore ==
  ASSUME NEW es, NEW n \in Nat, NEW m \in Nat, n <= m, NEW x, NEW v, Stands(es, n, x, v)
  PROVE  Stands(es, m, x, v)
<1>1. \A j \in 1 .. n : j \in 1 .. m OBVIOUS
<1> QED BY <1>1, Zenon DEF Stands

\* A setting is a pair.
LEMMA SettingPairs ==
  ASSUME NEW x \in Settings
  PROVE  x = <<x[1], x[2]>> /\ x[1] \in Sections /\ x[2] \in Keys
BY NamesDiffer DEF Settings, Keys

LEMMA AskedByMeans ==
  ASSUME NEW writes \in Seq(Puts), Agreeing(writes), NEW n \in 1 .. Len(writes),
         <<writes[n].section, writes[n].key>> \in Settings
  PROVE  LET x == <<writes[n].section, writes[n].key>> IN
         /\ x \in DOMAIN AskedBy(writes)
         /\ AskedBy(writes)[x] = [writes[n].val EXCEPT !.enc = FALSE]
<1> DEFINE x == <<writes[n].section, writes[n].key>>
           N == Len(writes)
           D == {<<writes[i].section, writes[i].key>> : i \in DOMAIN writes} \cap Settings
           c(y) == CHOOSE w \in Range(writes) : <<w.section, w.key>> = y
<1>1. DOMAIN writes = 1 .. N /\ n \in 1 .. N OBVIOUS
<1>2. AskedBy(writes) = [y \in D |-> [c(y).val EXCEPT !.enc = FALSE]] BY DEF AskedBy
<1>3. x \in D BY <1>1
<1>4. c(x).val = writes[n].val
  <2>1. Range(writes) = {writes[i] : i \in 1 .. N} BY <1>1 DEF Range
  <2>2. writes[n] \in Range(writes) BY <1>1, <2>1
  <2>3. \E w \in Range(writes) : <<w.section, w.key>> = x BY <2>2
  <2>4. c(x) \in Range(writes) /\ <<c(x).section, c(x).key>> = x BY <2>3
  <2> HIDE DEF c
  <2>5. PICK m \in 1 .. N : c(x) = writes[m] BY <2>1, <2>4
  <2>6. writes[m].section = writes[n].section /\ writes[m].key = writes[n].key BY <2>4, <2>5
  <2>7. writes[m].val = writes[n].val BY <1>1, <2>6 DEF Agreeing
  <2> QED BY <2>5, <2>7
<1> HIDE DEF c, x, D
<1> QED BY <1>2, <1>3, <1>4 DEF x

\* The settings that AskedBy has.
LEMMA AskedByWrites ==
  ASSUME NEW writes \in Seq(Puts), NEW x \in DOMAIN AskedBy(writes)
  PROVE  /\ x \in Settings
         /\ \E n \in 1 .. Len(writes) : x = <<writes[n].section, writes[n].key>>
BY DEF AskedBy

\* What the program writes is damaged no more than what it has read or been given.
Usual(w) ==
  Natural(w.key, w.val, broken) /\ (w.val.mark = "garbled" => w.section \in tricky)

LEMMA SettingsWrite ==
  ASSUME ConfigInvariant, SettingsInvariant, NEW writes \in Seq(Puts),
         WriteIniFile(OpenIniFile(disk), writes), disk' \in Seq(Lines),
         \A n \in 1 .. Len(writes) : Usual(writes[n]),
         Agreeing(writes)
  PROVE  /\ Whole(disk', tricky', broken')
         /\ \A x \in DOMAIN asked' : x \in Settings /\ x[1] \notin tricky'
                                      /\ Stands(disk', Len(disk'), x, asked'[x])
<1> DEFINE list  == OpenIniFile(disk)
           es    == list.entries
           r     == WriteStrings(list, writes)
           lines == r.entries
           mine  == AskedBy(writes)
           kept  == {x \in DOMAIN mine : ~EndsAtHeader(list, x[1])}
           N     == Len(writes)
<1>1. disk \in Seq(Lines) /\ list \in IniLists /\ list.cur = Len(es) /\ Len(es) = Len(disk)
  BY ListRead, ReadLines
<1>2. /\ Whole(disk, tricky, broken)
      /\ \A x \in DOMAIN asked :
           x \in Settings /\ x[1] \notin tricky /\ Stands(disk, Len(disk), x, asked[x])
  BY DEF SettingsInvariant
<1>3. /\ tricky' = tricky \cup {w.section : w \in {u \in Range(writes) : IsOdd(u.val)}}
      /\ \/ /\ disk' = lines
            /\ asked' = [x \in {y \in kept \cup DOMAIN asked : y[1] \notin tricky'} |->
                          IF x \in kept THEN mine[x] ELSE asked[x]]
         \/ /\ disk' \in {disk} \cup BrokenOff(lines) /\ asked' = NoneAsked
            /\ broken' = broken + 1
  BY DEF WriteIniFile
<1>12. broken \in Nat /\ broken' \in Nat /\ broken <= broken'
  BY DEF ConfigInvariant, ConfigTypes, WriteIniFile
<1>4. Whole(disk, tricky', broken') /\ tricky \subseteq tricky'
  BY <1>2, <1>3, <1>12, WholeMore
<1>5. Whole(es, tricky', broken') BY <1>1, <1>4, WholeRead
<1>6. ASSUME NEW n \in 1 .. N PROVE Fitting(writes[n], tricky', broken')
  <2>1. writes[n] \in Range(writes) BY DEF Range
  <2>2. IsOdd(writes[n].val) => writes[n].section \in tricky' BY <1>3, <2>1
  <2>3. Usual(writes[n]) OBVIOUS
  <2>4. Natural(writes[n].key, writes[n].val, broken')
    <3> DEFINE w == writes[n]
    <3>1. Natural(w.key, w.val, broken) BY <2>3 DEF Usual
    <3> HIDE DEF w
    <3>2. Natural(w.key, w.val, broken') BY <1>12, <3>1 DEF Natural
    <3> QED BY <3>2 DEF w
  <2> QED BY <1>4, <2>2, <2>3, <2>4 DEF Fitting, Usual
<1>7. r \in IniLists BY <1>1, WrittenLists
<1>8. lines \in Seq(Lines) /\ r.cur \in Nat /\ Len(lines) \in Nat /\ r.cur <= Len(lines)
  <2> HIDE DEF r
  <2> QED BY <1>7 DEF IniLists
<1>9. Whole(lines, tricky', broken')
  <2>1. PICK f \in [0 .. N -> IniLists] :
          /\ f[N] = r
          /\ \A n \in 0 .. N : Whole(f[n].entries, tricky', broken') /\ Linked(list, f[n])
    <3> HIDE DEF list
    <3> QED BY <1>1, <1>5, <1>6, WholeSteps DEF list
  <2>2. N \in 0 .. N OBVIOUS
  <2> QED BY <2>1, <2>2
<1>10. CASE disk' \in {disk} \cup BrokenOff(lines) /\ asked' = NoneAsked /\ broken' = broken + 1
  <2>1. Whole(disk', tricky', broken')
    <3> HIDE DEF lines
    <3>1. broken' > 0 BY <1>10, <1>12
    <3> QED BY <1>4, <1>8, <1>9, <1>10, <3>1, WholeCut
  <2>2. DOMAIN asked' = {} BY <1>10 DEF NoneAsked
  <2> QED BY <2>1, <2>2
<1> HIDE DEF kept
<1>11. CASE /\ disk' = lines
            /\ asked' = [x \in {y \in kept \cup DOMAIN asked : y[1] \notin tricky'} |->
                          IF x \in kept THEN mine[x] ELSE asked[x]]
  <2> DEFINE S == {y \in kept \cup DOMAIN asked : y[1] \notin tricky'}
  <2>1. /\ DOMAIN asked' = S
        /\ \A x \in S : asked'[x] = IF x \in kept THEN mine[x] ELSE asked[x]
    <3> HIDE DEF mine, lines
    <3> QED BY <1>11
  <2> SUFFICES ASSUME NEW x \in S
               PROVE  x \in Settings /\ Stands(lines, Len(lines), x, asked'[x])
    BY <1>9, <1>11, <2>1
  <2>2. CASE x \in kept
    <3>1. x \in DOMAIN mine /\ ~EndsAtHeader(list, x[1]) BY <2>2 DEF kept
    <3>2. x \in Settings /\ \E n \in 1 .. N : x = <<writes[n].section, writes[n].key>>
      BY <3>1, AskedByWrites
    <3>3. PICK n \in 1 .. N : x = <<writes[n].section, writes[n].key>> BY <3>2
    <3> DEFINE w == writes[n]
               v == [w.val EXCEPT !.enc = FALSE]
    <3>4. mine[x] = v BY <3>2, <3>3, AskedByMeans
    <3>5. asked'[x] = v BY <2>1, <2>2, <3>4
    <3>6. w.section = x[1] /\ x[1] \notin tricky' BY <3>3
    <3>7. Stands(lines, r.cur, x, v)
      <4>1. w.section \notin tricky' /\ ~EndsAtHeader(list, w.section) BY <3>1, <3>6
      <4>2. Stands(lines, r.cur, <<w.section, w.key>>, v)
        <5> HIDE DEF list
        <5> QED BY <1>1, <1>5, <1>6, <4>1, WrittenStands DEF list
      <4> QED BY <3>3, <4>2
    <3> HIDE DEF r, w, v
    <3>8. Stands(lines, Len(lines), x, v) BY <1>8, <3>7, StandsMore
    <3> QED BY <3>2, <3>5, <3>8
  <2>3. CASE x \notin kept
    <3>1. x \in DOMAIN asked /\ x[1] \notin tricky' /\ asked'[x] = asked[x] BY <2>1, <2>3
    <3>2. x \in Settings /\ Stands(disk, Len(disk), x, asked[x]) BY <1>2, <3>1
    <3>3. x = <<x[1], x[2]>> /\ x[1] \in Sections BY <3>2, SettingPairs
    <3>4. Clean(disk, tricky') BY <1>4 DEF Whole
    <3>5. Stands(es, Len(disk), x, asked[x]) BY <1>1, <3>1, <3>2, <3>3, <3>4, StandsRead
    <3>6. \A n \in 1 .. N : ~ (writes[n].section = x[1] /\ writes[n].key = x[2])
      <4> SUFFICES ASSUME NEW n \in 1 .. N, writes[n].section = x[1], writes[n].key = x[2]
                   PROVE  FALSE
        OBVIOUS
      <4>1. x = <<writes[n].section, writes[n].key>> BY <3>3
      <4>2. x \in DOMAIN mine BY <3>2, <4>1, AskedByMeans
      <4>3. EndsAtHeader(list, x[1]) BY <2>3, <4>2 DEF kept
      <4> HIDE DEF list
      <4>4. PICK h, i \in 1 .. Len(disk) : InSection(es, h, i) /\ es[h].section = x[1]
        BY <3>5 DEF Stands
      <4>5. es \in Seq(Lines) BY <1>1 DEF IniLists
      <4>6. /\ Len(es) \in DOMAIN es /\ h \in DOMAIN es /\ h # Len(es)
            /\ es[Len(es)].section = x[1]
        BY <1>1, <4>3, <4>4, <4>5 DEF EndsAtHeader, InSection
      <4> QED BY <1>5, <3>3, <4>4, <4>6 DEF Whole, Distinct
    <3>7. Stands(lines, r.cur, x, asked[x])
      <4> HIDE DEF list
      <4> QED BY <1>1, <3>3, <3>5, <3>6, StandsWrites
    <3> HIDE DEF r
    <3>8. Stands(lines, Len(lines), x, asked[x]) BY <1>8, <3>7, StandsMore
    <3> QED BY <3>1, <3>2, <3>8
  <2> QED BY <2>2, <2>3
<1> QED BY <1>3, <1>10, <1>11 DEF kept

-----------------------------------------------------------------------------
(* What the steps write and keep in memory.                                 *)

\* What is read for a key is damaged no more than the file is.
LEMMA ReadNatural ==
  ASSUME NEW list \in IniLists, NEW risky, NEW cuts, Whole(list.entries, risky, cuts),
         NEW s \in Sections, NEW k, NEW default, Natural(k, default, cuts),
         default.mark # "garbled"
  PROVE  LET v == ReadString(list, s, k, default) IN
         Natural(k, v, cuts) /\ (v.mark = "garbled" => s \in risky)
<1> DEFINE es == list.entries
           v  == ReadString(list, s, k, default)
<1>1. es \in Seq(Lines) BY DEF IniLists
<1>2. \/ v = default
      \/ \E h, i \in 1 .. Len(es) :
           InSection(es, h, i) /\ es[h].section = s /\ es[i].key = k /\ v = es[i].val
  BY ReadStringCases
<1> HIDE DEF v
<1>3. CASE v = default BY <1>3 DEF v
<1>4. CASE v # default
  <2>1. PICK h \in 1 .. Len(es), i \in 1 .. Len(es) :
           InSection(es, h, i) /\ es[h].section = s /\ es[i].key = k /\ v = es[i].val
    BY <1>2, <1>4
  <2>2. h \in DOMAIN es /\ i \in DOMAIN es BY <1>1
  <2>3. Natural(k, v, cuts) BY <2>1, <2>2 DEF Whole, Each
  <2>4. s \notin risky => Spotless(es[i]) BY <2>1, <2>2 DEF Whole, Clean
  <2> QED BY <2>1, <2>3, <2>4 DEF Spotless, v
<1> QED BY <1>3, <1>4

\* Nothing is wrong with a plain text.
LEMMA PlainFamiliar ==
  ASSUME NEW t, NEW s, NEW k, NEW risky, NEW cuts
  PROVE  Familiar(s, k, Plain(t), risky, cuts) /\ Plain(t).mark # "garbled"
BY DEF Familiar, Natural, Plain

LEMMA ReadPlain ==
  ASSUME NEW list \in IniLists, NEW risky, NEW cuts, Whole(list.entries, risky, cuts),
         NEW s \in Sections, NEW k, k # "password", NEW t
  PROVE  Familiar(s, k, ReadString(list, s, k, Plain(t)), risky, cuts)
<1>1. Natural(k, Plain(t), cuts) /\ Plain(t).mark # "garbled" BY PlainFamiliar DEF Familiar
<1> DEFINE v == ReadString(list, s, k, Plain(t))
<1>2. Natural(k, v, cuts) /\ (v.mark = "garbled" => s \in risky)
  BY <1>1, ReadNatural
<1> HIDE DEF v
<1>3. Familiar(s, k, v, risky, cuts) BY <1>2 DEF Familiar, Natural
<1> QED BY <1>3 DEF v

LEMMA LoadedPlain ==
  ASSUME NEW list \in IniLists, NEW risky, NEW cuts, Whole(list.entries, risky, cuts),
         NEW s \in Sites, NEW k \in SiteKeys
  PROVE  Familiar(s, k, Loaded(list, s, k), risky, cuts)
<1> DEFINE default == IF k = "directory" THEN Plain("/") ELSE Empty
           v == ReadString(list, s, k, default)
<1>1. s \in Sections /\ default \in Values BY PlainValues, NamesDiffer
<1>2. Natural(k, default, cuts) /\ default.mark # "garbled"
  BY PlainFamiliar DEF Familiar, Empty
<1>3. v \in Values BY <1>1, ReadStringTyped
<1>4. Natural(k, v, cuts) /\ (v.mark = "garbled" => s \in risky)
  <2> HIDE DEF default
  <2> QED BY <1>1, <1>2, ReadNatural
<1>5. Loaded(list, s, k) = CASE k = "server" /\ ~VersionRead(list) -> Converted(v)
                             [] k = "password" -> Decrypt(v)
                             [] OTHER -> v
  BY Zenon DEF Loaded
<1> HIDE DEF v, default
<1>6. Decrypt(v).enc = FALSE /\ Decrypt(v).mark = v.mark BY <1>3 DEF Decrypt, Values
<1>7. Converted(v).enc = v.enc /\ Converted(v).mark = v.mark BY <1>3 DEF Converted, Values
<1>8. CASE k = "password"
  <2>1. Loaded(list, s, k) = Decrypt(v) BY <1>5, <1>8
  <2> QED BY <1>4, <1>6, <2>1 DEF Familiar, Natural
<1>9. CASE k # "password"
  <2>1. Loaded(list, s, k) \in {v, Converted(v)} BY <1>5, <1>9
  <2> QED BY <1>4, <1>7, <1>9, <2>1 DEF Familiar, Natural
<1> QED BY <1>8, <1>9

\* LoadConfig writes every setting once, as it has read it.
LEMMA LoadWritesAgree ==
  ASSUME NEW list \in IniLists, Whole(list.entries, tricky, broken)
  PROVE  LET W == LoadWrites(list) IN
         /\ W \in Seq(Puts) /\ Agreeing(W)
         /\ \A n \in 1 .. Len(W) : Usual(W[n])
<1> DEFINE W == LoadWrites(list)
           a == Put("Global", "config_version", Plain("1"))
           b == FolderWrite(list)
           c == Put("Global", "last_site", LoadedSite(list))
<1>1. /\ W \in Seq(Puts)
      /\ \A n \in 1 .. Len(W) : W[n] \in {a, b, c} \/ SitePut(list, W[n])
  BY LoadWritesPut
<1>2. /\ a.section = "Global" /\ b.section = "Global" /\ c.section = "Global"
      /\ a.key = "config_version" /\ b.key = "local_directory" /\ c.key = "last_site"
  BY DEF Put, FolderWrite
<1>3. Usual(a) /\ Usual(b) /\ Usual(c)
  <2>1. "Global" \in Sections BY NamesDiffer
  <2>2. Familiar("Global", "config_version", Plain("1"), tricky, broken) BY PlainFamiliar
  <2>3. Familiar("Global", "local_directory",
                 ReadString(list, "Global", "local_directory", Plain("/")), tricky, broken)
    BY <2>1, ReadPlain
  <2>4. Familiar("Global", "last_site", LoadedSite(list), tricky, broken)
    BY <2>1, ReadPlain DEF LoadedSite
  <2> QED BY <2>2, <2>3, <2>4 DEF Put, FolderWrite, Usual, Familiar
<1> HIDE DEF W, a, b, c
<1>4. ASSUME NEW n \in 1 .. Len(W) PROVE Usual(W[n])
  <2>1. CASE W[n] \in {a, b, c} BY <1>3, <2>1
  <2>2. CASE SitePut(list, W[n])
    <3> DEFINE w == W[n]
               x == Loaded(list, w.section, w.key)
    <3>1. w.section \in Sites /\ w.key \in SiteKeys
          /\ w.val = IF w.key = "password" THEN Encrypt(Loaded(list, w.section, "password")) ELSE x
      BY <2>2 DEF SitePut
    <3>2. Familiar(w.section, w.key, x, tricky, broken) BY <3>1, LoadedPlain
    <3>3. x \in Values BY <3>1, LoadedTyped
    <3>4. w.val = IF w.key = "password" THEN Encrypt(x) ELSE x BY <3>1
    <3> HIDE DEF x, w
    <3>5. Encrypt(x).mark = x.mark BY <3>3 DEF Encrypt, Values
    <3>6. Usual(w) BY <3>2, <3>4, <3>5 DEF Usual, Familiar, Natural
    <3> QED BY <3>6 DEF w
  <2> QED BY <1>1, <2>1, <2>2
<1>5. ASSUME NEW m \in 1 .. Len(W), NEW n \in 1 .. Len(W),
             W[m].section = W[n].section, W[m].key = W[n].key
      PROVE  W[m].val = W[n].val
  <2>1. CASE W[m].section = "Global"
    <3>1. W[m] \in {a, b, c} /\ W[n] \in {a, b, c} BY <1>1, <1>5, <2>1, NamesDiffer DEF SitePut
    <3> QED BY <1>2, <1>5, <3>1
  <2>2. CASE W[m].section # "Global"
    <3>1. SitePut(list, W[m]) /\ SitePut(list, W[n]) BY <1>1, <1>2, <1>5, <2>2
    <3> QED BY <1>5, <3>1 DEF SitePut
  <2> QED BY <2>1, <2>2
<1> QED BY <1>1, <1>4, <1>5 DEF Agreeing, W

LEMMA FamiliarMore ==
  ASSUME NEW s, NEW k, NEW v, NEW risky, NEW cuts \in Nat, NEW more, NEW later \in Nat,
         Familiar(s, k, v, risky, cuts), risky \subseteq more, cuts <= later
  PROVE  Familiar(s, k, v, more, later)
BY DEF Familiar, Natural

LEMMA ForgottenPlain == Forgotten => Deciphered'
<1> SUFFICES ASSUME Forgotten PROVE Deciphered' OBVIOUS
<1>1. local_directory' = Empty
      /\ site_settings' = [s \in Sites \cup {Other} |-> NoSettings]
  BY DEF Forgotten
<1>2. ~Empty.enc /\ \A k \in SiteKeys : NoSettings[k] = Empty BY NamesDiffer DEF NoSettings
<1>3. \A s, k : Familiar(s, k, Empty, tricky', broken') BY PlainFamiliar DEF Empty
<1> QED BY <1>1, <1>2, <1>3 DEF Deciphered

\* What a save leaves of the settings in memory.
LEMMA KeptPlain ==
  ASSUME Deciphered, UNCHANGED site_settings, ~local_directory'.enc, broken \in Nat,
         broken' \in Nat, tricky \subseteq tricky', broken <= broken'
  PROVE  Deciphered'
<1> SUFFICES ASSUME NEW s \in Sites \cup {Other}, NEW k \in SiteKeys
             PROVE  Familiar(s, k, site_settings[s][k], tricky', broken')
  BY DEF Deciphered
<1>1. Familiar(s, k, site_settings[s][k], tricky, broken) BY DEF Deciphered
<1> QED BY <1>1, FamiliarMore

LEMMA WriteGrows ==
  ASSUME ConfigInvariant, NEW list, NEW writes, WriteIniFile(list, writes)
  PROVE  /\ tricky \subseteq tricky' /\ broken \in Nat /\ broken' \in Nat
         /\ broken <= broken'
BY DEF ConfigInvariant, ConfigTypes, WriteIniFile

\* What the values entered are.
LEMMA EnteredPlain ==
  \A v \in Servers \cup Passwords \cup Folders \cup LocalFolders :
     /\ v \in Values /\ ~v.enc /\ v.mark \in {"whole", "semi", "brackets"}
     /\ v \in Servers => v.mark = "whole"
<1> SUFFICES ASSUME NEW v \in Servers \cup Passwords \cup Folders \cup LocalFolders
             PROVE  /\ v \in Values /\ ~v.enc /\ v.mark \in {"whole", "semi", "brackets"}
                    /\ v \in Servers => v.mark = "whole"
  OBVIOUS
<1>1. v \in Values BY PlainValues
<1>2. CASE v \in Servers BY <1>1, <1>2, ConfigAssumption DEF Plain
<1>3. CASE v \notin Servers
  <2>1. v = [Plain(v.text) EXCEPT !.mark = v.mark] /\ v.mark \in {"whole", "semi", "brackets"}
    BY <1>3, ConfigAssumption
  <2>2. v = [text |-> v.text, mark |-> v.mark, enc |-> FALSE] BY <2>1 DEF Plain
  <2> QED BY <1>1, <1>3, <2>1, <2>2
<1> QED BY <1>2, <1>3

LEMMA LoadConfigSettings ==
  ASSUME ConfigInvariant, SettingsInvariant, LoadConfig, disk' \in Seq(Lines)
  PROVE  SettingsInvariant'
<1> DEFINE list == OpenIniFile(disk)
           W    == LoadWrites(list)
<1>1. disk \in Seq(Lines) /\ list \in IniLists BY ListRead
<1>2. Whole(list.entries, tricky, broken)
  <2>1. Whole(disk, tricky, broken) BY DEF SettingsInvariant
  <2> QED BY <1>1, <2>1, WholeRead
<1>3. /\ WriteIniFile(list, W)
      /\ (running' /\ Remembered(list)) \/ (~running' /\ Forgotten)
  BY DEF LoadConfig
<1> HIDE DEF list
<1>4. W \in Seq(Puts) /\ Agreeing(W) /\ \A n \in 1 .. Len(W) : Usual(W[n])
  BY <1>1, <1>2, LoadWritesAgree
<1> HIDE DEF W
<1>5. /\ Whole(disk', tricky', broken')
      /\ \A x \in DOMAIN asked' : x \in Settings /\ x[1] \notin tricky'
                                   /\ Stands(disk', Len(disk'), x, asked'[x])
  BY <1>3, <1>4, SettingsWrite DEF list
<1>6. Deciphered'
  <2>1. CASE Remembered(list)
    <3>1. ~local_directory'.enc
      <4>1. "Global" \in Sections BY NamesDiffer
      <4>2. Familiar("Global", "local_directory",
                     ReadString(list, "Global", "local_directory", Plain("/")), tricky, broken)
        BY <1>1, <1>2, <4>1, ReadPlain
      <4> QED BY <2>1, <4>2 DEF Remembered, Familiar
    <3>2. ASSUME NEW s \in Sites \cup {Other}, NEW k \in SiteKeys
          PROVE  Familiar(s, k, site_settings'[s][k], tricky', broken')
      <4>1. CASE s = Other
        <5>1. site_settings'[s][k] = Empty BY <2>1, <4>1 DEF Remembered, NoSettings
        <5> QED BY <5>1, PlainFamiliar DEF Empty
      <4>2. CASE s # Other
        <5>1. site_settings'[s][k] = Loaded(list, s, k) BY <2>1, <4>2 DEF Remembered
        <5>2. Familiar(s, k, Loaded(list, s, k), tricky, broken)
          BY <1>1, <1>2, <4>2, LoadedPlain
        <5>3. /\ tricky \subseteq tricky' /\ broken \in Nat /\ broken' \in Nat
              /\ broken <= broken'
          BY <1>3, WriteGrows
        <5> QED BY <5>1, <5>2, <5>3, FamiliarMore
      <4> QED BY <4>1, <4>2
    <3> QED BY <3>1, <3>2 DEF Deciphered
  <2> QED BY <1>3, <2>1, ForgottenPlain
<1> QED BY <1>5, <1>6 DEF SettingsInvariant

LEMMA SaveConfigSettings ==
  ASSUME ConfigInvariant, SettingsInvariant, SaveConfig, disk' \in Seq(Lines)
  PROVE  SettingsInvariant'
<1> DEFINE a == Put(last_site, "server", site_settings[last_site].server)
           b == Put(last_site, "password", site_settings[last_site].password)
           c == Put(last_site, "directory", site_settings[last_site].directory)
           d == Put("Global", "last_site", Plain(last_site))
           W == <<a, b, c, d>>
<1>1. ConfigTypes /\ Deciphered BY DEF ConfigInvariant, SettingsInvariant
<1>2. /\ Saving(W)
      /\ \/ running' /\ UNCHANGED <<local_directory, last_site, site_settings>>
         \/ ~running' /\ Forgotten
  BY DEF SaveConfig
<1>3. /\ last_site \in Sections /\ last_site \in Sites \cup {Other}
      /\ {"server", "password", "directory"} \subseteq SiteKeys
      /\ {"server", "password", "directory", "last_site"} \subseteq Keys
      /\ "Global" \in Sections
  BY <1>1, NamesDiffer DEF ConfigTypes, Keys, SiteKeys
<1>4. /\ site_settings[last_site].server \in Values
      /\ site_settings[last_site].password \in Values
      /\ site_settings[last_site].directory \in Values
  BY <1>1, <1>3 DEF ConfigTypes
<1>5. Plain(last_site) \in Values BY <1>3, PlainValues
<1>6. /\ Familiar(last_site, "server", site_settings[last_site].server, tricky, broken)
      /\ Familiar(last_site, "password", site_settings[last_site].password, tricky, broken)
      /\ Familiar(last_site, "directory", site_settings[last_site].directory, tricky, broken)
      /\ Familiar("Global", "last_site", Plain(last_site), tricky, broken)
  <2>1. \A k \in SiteKeys : Familiar(last_site, k, site_settings[last_site][k], tricky, broken)
    BY <1>1, <1>3 DEF Deciphered
  <2>2. {"server", "password", "directory"} \subseteq SiteKeys BY <1>3
  <2> QED BY <2>1, <2>2, PlainFamiliar
<1>7. a \in Puts /\ a.key = "server" /\ Usual(a)
  BY <1>3, <1>4, <1>6, PutIsPut DEF Usual, Familiar
<1>8. b \in Puts /\ b.key = "password" /\ Usual(b)
  BY <1>3, <1>4, <1>6, PutIsPut DEF Usual, Familiar
<1>9. c \in Puts /\ c.key = "directory" /\ Usual(c)
  BY <1>3, <1>4, <1>6, PutIsPut DEF Usual, Familiar
<1>10. d \in Puts /\ d.key = "last_site" /\ Usual(d)
  BY <1>3, <1>5, <1>6, PutIsPut DEF Usual, Familiar
<1> HIDE DEF a, b, c, d
<1>11. /\ W \in Seq(Puts) /\ Len(W) = 4
       /\ \A n \in 1 .. Len(W) : W[n] = a \/ W[n] = b \/ W[n] = c \/ W[n] = d
  BY <1>7, <1>8, <1>9, <1>10
<1> HIDE DEF W
<1>12. Agreeing(W) /\ \A n \in 1 .. Len(W) : Usual(W[n])
  BY <1>7, <1>8, <1>9, <1>10, <1>11 DEF Agreeing
<1>13. WriteIniFile(OpenIniFile(disk), W) BY <1>2 DEF Saving
<1>14. /\ Whole(disk', tricky', broken')
       /\ \A x \in DOMAIN asked' : x \in Settings /\ x[1] \notin tricky'
                                    /\ Stands(disk', Len(disk'), x, asked'[x])
  BY <1>11, <1>12, <1>13, SettingsWrite
<1>15. Deciphered'
  <2>1. CASE UNCHANGED <<local_directory, last_site, site_settings>>
    <3>1. ~local_directory'.enc BY <1>1, <2>1 DEF Deciphered
    <3> HIDE DEF W
    <3>2. /\ tricky \subseteq tricky' /\ broken \in Nat /\ broken' \in Nat
          /\ broken <= broken'
      BY <1>13, WriteGrows
    <3> QED BY <1>1, <2>1, <3>1, <3>2, KeptPlain
  <2> QED BY <1>2, <2>1, ForgottenPlain
<1> QED BY <1>14, <1>15 DEF SettingsInvariant

LEMMA SaveLocalDirectorySettings ==
  ASSUME ConfigInvariant, SettingsInvariant, NEW v \in LocalFolders, SaveLocalDirectory(v),
         disk' \in Seq(Lines)
  PROVE  SettingsInvariant'
<1> DEFINE a == Put("Global", "local_directory", v)
           W == <<a>>
<1>1. Deciphered BY DEF SettingsInvariant
<1>2. /\ Saving(W)
      /\ \/ running' /\ local_directory' = v /\ UNCHANGED <<last_site, site_settings>>
         \/ ~running' /\ Forgotten
  BY DEF SaveLocalDirectory
<1>3. v \in Values /\ ~v.enc BY EnteredPlain
<1>4. a \in Puts /\ Usual(a)
  <2>1. "Global" \in Sections /\ "local_directory" \in Keys BY NamesDiffer DEF Keys
  <2>2. v.mark \in {"whole", "semi", "brackets"} BY EnteredPlain
  <2> QED BY <1>3, <2>1, <2>2, PutIsPut DEF Usual, Natural
<1> HIDE DEF a
<1>5. W \in Seq(Puts) /\ Len(W) = 1 /\ W[1] = a BY <1>4
<1> HIDE DEF W
<1>6. Agreeing(W) /\ \A n \in 1 .. Len(W) : Usual(W[n]) BY <1>4, <1>5 DEF Agreeing
<1>7. WriteIniFile(OpenIniFile(disk), W) BY <1>2 DEF Saving
<1>8. /\ Whole(disk', tricky', broken')
      /\ \A x \in DOMAIN asked' : x \in Settings /\ x[1] \notin tricky'
                                   /\ Stands(disk', Len(disk'), x, asked'[x])
  BY <1>5, <1>6, <1>7, SettingsWrite
<1>9. Deciphered'
  <2>1. CASE local_directory' = v /\ UNCHANGED <<last_site, site_settings>>
    <3>1. ~local_directory'.enc BY <1>3, <2>1
    <3>2. /\ tricky \subseteq tricky' /\ broken \in Nat /\ broken' \in Nat
          /\ broken <= broken'
      BY <1>7, WriteGrows
    <3> QED BY <1>1, <2>1, <3>1, <3>2, KeptPlain
  <2> QED BY <1>2, <2>1, ForgottenPlain
<1> QED BY <1>8, <1>9 DEF SettingsInvariant

LEMMA EditSettings ==
  ASSUME ConfigInvariant, SettingsInvariant, NEW k \in SiteKeys, NEW v \in Values, ~v.enc,
         v.mark \in {"whole", "semi", "brackets"}, k = "server" => v.mark = "whole", Edit(k, v)
  PROVE  SettingsInvariant'
<1>1. /\ site_settings' = [site_settings EXCEPT ![last_site][k] = v]
      /\ disk' = disk /\ local_directory' = local_directory
      /\ tricky' = tricky /\ asked' = asked /\ broken' = broken
  BY DEF Edit, store
<1>2. site_settings \in [Sites \cup {Other} -> [SiteKeys -> Values]] /\ Deciphered
  BY DEF ConfigInvariant, ConfigTypes, SettingsInvariant
<1>3. Deciphered'
  <2> SUFFICES ASSUME NEW s \in Sites \cup {Other}, NEW j \in SiteKeys
               PROVE  Familiar(s, j, site_settings'[s][j], tricky, broken)
    BY <1>1, <1>2 DEF Deciphered
  <2>1. \/ j = k /\ site_settings'[s][j] = v
        \/ site_settings'[s][j] = site_settings[s][j]
    BY <1>1, <1>2
  <2>2. Familiar(s, k, v, tricky, broken) BY DEF Familiar, Natural
  <2> QED BY <1>2, <2>1, <2>2 DEF Deciphered
<1> QED BY <1>1, <1>3 DEF SettingsInvariant

LEMMA SettingsStay ==
  ASSUME SettingsInvariant, disk' = disk, tricky' = tricky, asked' = asked, broken' = broken,
         UNCHANGED <<local_directory, site_settings>> \/ Forgotten
  PROVE  SettingsInvariant'
<1>1. Deciphered' BY ForgottenPlain DEF SettingsInvariant, Deciphered
<1> QED BY <1>1 DEF SettingsInvariant

LEMMA OldWhole == Whole(OldFile, {}, 0)
<1> DEFINE N == Len(SiteOrder)
           M == Len(OldFile)
<1>1. /\ N \in Nat /\ M = 2 * N + 2 /\ OldFile \in Seq(Lines) /\ DOMAIN OldFile = 1 .. M
      /\ OldFile[1] = Header("Global") /\ OldFile[2] = OldFolder
      /\ \A j \in 1 .. N : OldFile[2 * j + 1] = Header(SiteOrder[j]) /\ OldFile[2 * j + 2] = OldServer
      /\ \A i \in 1 .. M : i = 1 \/ i = 2 \/ \E j \in 1 .. N : i = 2 * j + 1 \/ i = 2 * j + 2
  BY OldLines
<1>2. /\ \A j \in 1 .. N : SiteOrder[j] \in Sites
      /\ \A i, j \in 1 .. N : SiteOrder[i] = SiteOrder[j] => i = j
  BY SiteOrderLists
<1> HIDE DEF N, M
<1>3. \A s \in Sections : s # "none" BY NamesDiffer
<1>4. /\ \A s : Header(s).section = s /\ ~Header(s).tail /\ Header(s).val = Empty
      /\ OldServer.section = "none" /\ OldFolder.section = "none"
      /\ Spotless(OldServer) /\ Natural(OldServer.key, OldServer.val, 0)
      /\ Spotless(OldFolder) /\ Natural(OldFolder.key, OldFolder.val, 0)
      /\ \A s : Spotless(Header(s)) /\ Natural(Header(s).key, Header(s).val, 0)
  BY DEF Header, OldServer, OldFolder, KeyLine, Plain, Empty, Shows, Spotless, Natural
<1>5. ASSUME NEW i \in 1 .. M
      PROVE  /\ Spotless(OldFile[i]) /\ Natural(OldFile[i].key, OldFile[i].val, 0)
             /\ OldFile[i].section \in Sections =>
                  \/ i = 1 /\ OldFile[i].section = "Global"
                  \/ \E j \in 1 .. N : i = 2 * j + 1 /\ OldFile[i].section = SiteOrder[j]
  <2>1. CASE i = 1 BY <1>1, <1>4, <2>1
  <2>2. CASE i = 2 BY <1>1, <1>3, <1>4, <2>2
  <2>3. CASE \E j \in 1 .. N : i = 2 * j + 1
    <3>1. PICK j \in 1 .. N : i = 2 * j + 1 BY <2>3
    <3>2. OldFile[i] = Header(SiteOrder[j]) BY <1>1, <3>1
    <3> QED BY <1>4, <3>1, <3>2
  <2>4. CASE \E j \in 1 .. N : i = 2 * j + 2
    <3>1. OldFile[i] = OldServer BY <1>1, <2>4
    <3> QED BY <1>3, <1>4, <3>1
  <2> QED BY <1>1, <2>1, <2>2, <2>3, <2>4
<1>6. Distinct(OldFile)
  <2> SUFFICES ASSUME NEW g \in 1 .. M, NEW h \in 1 .. M,
                      OldFile[g].section = OldFile[h].section, OldFile[g].section \in Sections
               PROVE  g = h
    BY <1>1 DEF Distinct
  <2>1. \/ g = 1 /\ OldFile[g].section = "Global"
        \/ \E j \in 1 .. N : g = 2 * j + 1 /\ OldFile[g].section = SiteOrder[j]
    BY <1>5
  <2>2. \/ h = 1 /\ OldFile[h].section = "Global"
        \/ \E j \in 1 .. N : h = 2 * j + 1 /\ OldFile[h].section = SiteOrder[j]
    BY <1>5
  <2> QED BY <1>2, <2>1, <2>2, NamesDiffer
<1>7. Clean(OldFile, {}) BY <1>1, <1>5 DEF Clean
<1>8. Each(OldFile, 0) BY <1>1, <1>5 DEF Each
<1> QED BY <1>6, <1>7, <1>8 DEF Whole

LEMMA SettingsInitial == ConfigInit => SettingsInvariant
<1> SUFFICES ASSUME ConfigInit PROVE SettingsInvariant OBVIOUS
<1>1. /\ disk \in {<<>>, OldFile} /\ tricky = {} /\ asked = NoneAsked
      /\ local_directory = Empty /\ broken = 0
      /\ site_settings = [s \in Sites \cup {Other} |-> NoSettings]
  BY DEF ConfigInit
<1>2. Whole(<<>>, {}, 0)
  <2>1. DOMAIN <<>> = {} OBVIOUS
  <2> QED BY <2>1 DEF Whole, Distinct, Clean, Each
<1>3. Whole(disk, tricky, broken) BY <1>1, <1>2, OldWhole
<1>4. Deciphered
  <2>1. ~Empty.enc /\ \A k \in SiteKeys : NoSettings[k] = Empty BY NamesDiffer DEF NoSettings
  <2>2. \A s, k : Familiar(s, k, Empty, tricky, broken) BY PlainFamiliar DEF Empty
  <2> QED BY <1>1, <2>1, <2>2 DEF Deciphered
<1>5. DOMAIN asked = {} BY <1>1 DEF NoneAsked
<1> QED BY <1>3, <1>4, <1>5 DEF SettingsInvariant

LEMMA SettingsStep ==
  ConfigInvariant /\ SettingsInvariant /\ [ConfigNext]_configVars => SettingsInvariant'
<1> SUFFICES ASSUME ConfigInvariant, SettingsInvariant, [ConfigNext]_configVars
             PROVE  SettingsInvariant'
  OBVIOUS
<1>1. disk' \in Seq(Lines) BY ConfigStep DEF ConfigInvariant, ConfigTypes
<1>2. {"server", "password", "directory"} \subseteq SiteKeys BY DEF SiteKeys
<1>3. CASE LoadConfig BY <1>1, <1>3, LoadConfigSettings
<1>4. CASE \E s \in Sites : SelectSite(s)
  <2>1. /\ disk' = disk /\ tricky' = tricky /\ asked' = asked /\ broken' = broken
        /\ UNCHANGED <<local_directory, site_settings>>
    BY <1>4 DEF SelectSite, store, ghosts
  <2> QED BY <2>1, SettingsStay
<1>5. CASE \E v \in Servers : Edit("server", v) BY <1>2, <1>5, EnteredPlain, EditSettings
<1>6. CASE \E v \in Passwords : Edit("password", v) BY <1>2, <1>6, EnteredPlain, EditSettings
<1>7. CASE \E v \in Folders : Edit("directory", v) BY <1>2, <1>7, EnteredPlain, EditSettings
<1>8. CASE SaveConfig BY <1>1, <1>8, SaveConfigSettings
<1>9. CASE \E v \in LocalFolders : SaveLocalDirectory(v)
  BY <1>1, <1>9, SaveLocalDirectorySettings
<1>10. CASE Quit
  <2>1. disk' = disk /\ tricky' = tricky /\ asked' = asked /\ broken' = broken
        /\ Forgotten
    BY <1>10 DEF Quit, store, ghosts
  <2> QED BY <2>1, SettingsStay
<1>11. CASE UNCHANGED configVars
  <2>1. /\ disk' = disk /\ tricky' = tricky /\ asked' = asked /\ broken' = broken
        /\ UNCHANGED <<local_directory, site_settings>>
    BY <1>11 DEF configVars, store, memory, ghosts
  <2> QED BY <2>1, SettingsStay
<1> QED BY <1>3, <1>4, <1>5, <1>6, <1>7, <1>8, <1>9, <1>10, <1>11 DEF ConfigNext

\* Every setting that was written whole and lost to no later write stands in the file.
THEOREM SettingsInvariance == ConfigSpec => [](ConfigInvariant /\ SettingsInvariant)
<1>1. ConfigInit => ConfigInvariant /\ SettingsInvariant BY ConfigInitial, SettingsInitial
<1>2. ConfigInvariant /\ SettingsInvariant /\ [ConfigNext]_configVars
        => ConfigInvariant' /\ SettingsInvariant'
  BY ConfigStep, SettingsStep
<1> QED BY <1>1, <1>2, PTL DEF ConfigSpec

\* FindpKey, AddItem, AddItemAt: whatever was damaged, the address that comes up for a site
\* was once entered for that site, or converted from one that was; it is the whole of it,
\* unless a write has broken off or a value of that very site had a ';' or brackets.
THEOREM ContainedHolds == ConfigSpec => []Contained
<1>1. ASSUME ConfigInvariant, SettingsInvariant PROVE Contained
  <2> SUFFICES ASSUME running, NEW s \in Sites
               PROVE  LET v == site_settings[s].server IN
                      /\ v.text \in ever[s] \/ (v.text = "dav" /\ "http" \in ever[s])
                      /\ \/ v.mark = "whole"
                         \/ v.mark = "half" /\ broken > 0
                         \/ v.mark = "garbled" /\ s \in tricky
    BY DEF Contained
  <2>1. WasEntered(ever, s, site_settings[s].server.text)
    BY <1>1 DEF ConfigInvariant, AddressesEntered
  <2>2. Familiar(s, "server", site_settings[s]["server"], tricky, broken)
    BY <1>1 DEF SettingsInvariant, Deciphered, SiteKeys
  <2> QED BY <2>1, <2>2 DEF WasEntered, Familiar, Natural
<1> QED BY <1>1, SettingsInvariance, PTL

\* A setting that stands in the file is read as it was written.
LEMMA SettingRead ==
  ASSUME ConfigInvariant, SettingsInvariant, NEW x \in DOMAIN asked, NEW default
  PROVE  LET v == ReadString(OpenIniFile(disk), x[1], x[2], default) IN
         /\ v \in Values /\ [v EXCEPT !.enc = FALSE] = asked[x]
         /\ x[2] # "password" => v = asked[x]
<1> DEFINE list == OpenIniFile(disk)
           es == list.entries
           v == ReadString(list, x[1], x[2], default)
<1>1. /\ disk \in Seq(Lines) /\ list \in IniLists /\ es \in Seq(Lines) /\ Len(es) = Len(disk)
  BY ListRead, ReadLines
<1>2. Whole(disk, tricky, broken) /\ x \in Settings /\ x[1] \notin tricky
      /\ Stands(disk, Len(disk), x, asked[x])
  BY DEF SettingsInvariant
<1>3. x[1] \in Sections \ tricky BY <1>2, SettingPairs
<1>4. Whole(es, tricky, broken) /\ Clean(disk, tricky) BY <1>1, <1>2, WholeRead DEF Whole
<1>5. Stands(es, Len(es), x, asked[x]) BY <1>1, <1>2, <1>3, <1>4, StandsRead
<1>6. PICK h \in 1 .. Len(es), i \in 1 .. Len(es) :
         /\ InSection(es, h, i) /\ Found(es, h, i)
         /\ es[h].section = x[1] /\ es[i].key = x[2]
         /\ [es[i].val EXCEPT !.enc = FALSE] = asked[x]
  BY <1>5 DEF Stands
<1>7. FindKey(es, x[1], x[2]) = i
  <2> HIDE DEF es
  <2> QED BY <1>1, <1>3, <1>6, FindIsFound
<1>8. v = es[i].val
  <2>1. i # 0 OBVIOUS
  <2> QED BY <1>7, <2>1 DEF ReadString
<1> HIDE DEF es, v
<1>9. v \in Values
  <2>1. es[i] \in Lines BY <1>1
  <2> QED BY <1>8, <2>1, LineKinds, NamesDiffer
<1>10. [v EXCEPT !.enc = FALSE] = asked[x] BY <1>6, <1>8
<1>11. ASSUME x[2] # "password" PROVE v = asked[x]
  <2>1. i \in DOMAIN es BY <1>1
  <2>2. ~v.enc BY <1>4, <1>6, <1>8, <1>11, <2>1 DEF Whole, Each, Natural
  <2>3. [v EXCEPT !.enc = FALSE] = v BY <1>9, <2>2 DEF Values
  <2> QED BY <1>10, <2>3
<1> QED BY <1>9, <1>10, <1>11 DEF v

\* LoadConfig, WriteIniFile: a start finds every setting as it was last saved, when the
\* write went through and its section was never given a ';' or brackets.
THEOREM ReadBackHolds == ConfigSpec => ReadBack
<1> DEFINE Back == LoadConfig /\ running' => \A x \in DOMAIN asked :
             LET v == IF x[1] = "Global" THEN local_directory' ELSE site_settings'[x[1]][x[2]]
             IN  v = asked[x] \/ (x[2] = "server" /\ ~VersionRead(OpenIniFile(disk))
                                                  /\ v = Converted(asked[x]))
<1>1. ASSUME ConfigInvariant, SettingsInvariant PROVE Back
  <2> DEFINE list == OpenIniFile(disk)
  <2> SUFFICES ASSUME LoadConfig, running', NEW x \in DOMAIN asked
               PROVE  LET v == IF x[1] = "Global" THEN local_directory'
                               ELSE site_settings'[x[1]][x[2]]
                      IN  v = asked[x] \/ (x[2] = "server" /\ ~VersionRead(list)
                                                           /\ v = Converted(asked[x]))
    OBVIOUS
  <2>1. Remembered(list)
    <3>1. (running' /\ Remembered(list)) \/ (~running' /\ Forgotten) BY DEF LoadConfig
    <3> QED BY <3>1
  <2>2. x \in Settings BY <1>1 DEF SettingsInvariant
  <2>3. CASE x[1] = "Global"
    <3>1. x[2] = "local_directory" BY <2>2, <2>3, NamesDiffer DEF Settings
    <3>2. local_directory' = asked[x]
      <4>1. ReadString(list, x[1], x[2], Plain("/")) = asked[x] BY <1>1, <3>1, SettingRead
      <4> HIDE DEF list
      <4>2. local_directory' = ReadString(list, "Global", "local_directory", Plain("/"))
        BY <2>1 DEF Remembered
      <4> QED BY <2>3, <3>1, <4>1, <4>2
    <3> QED BY <2>3, <3>2
  <2>4. CASE x[1] # "Global"
    <3> DEFINE s == x[1]
               k == x[2]
               default == IF k = "directory" THEN Plain("/") ELSE Empty
               r == ReadString(list, s, k, default)
    <3>1. s \in Sites /\ k \in SiteKeys BY <2>2, <2>4 DEF Settings
    <3>2. site_settings'[s][k] = Loaded(list, s, k)
      BY <2>1, <3>1, NamesDiffer DEF Remembered
    <3>3. r \in Values /\ [r EXCEPT !.enc = FALSE] = asked[x] /\ (k # "password" => r = asked[x])
      <4> HIDE DEF default
      <4> QED BY <1>1, SettingRead
    <3>4. Loaded(list, s, k) = CASE k = "server" /\ ~VersionRead(list) -> Converted(r)
                                 [] k = "password" -> Decrypt(r)
                                 [] OTHER -> r
      BY Zenon DEF Loaded
    <3> HIDE DEF r, s, k, list
    <3>5. \/ Loaded(list, s, k) = asked[x]
          \/ k = "server" /\ ~VersionRead(list) /\ Loaded(list, s, k) = Converted(asked[x])
      <4>1. CASE k = "password" BY <3>3, <3>4, <4>1 DEF Decrypt
      <4>2. CASE k # "password" BY <3>3, <3>4, <4>2
      <4> QED BY <4>1, <4>2
    <3> QED BY <2>4, <3>2, <3>5 DEF s, k
  <2> QED BY <2>3, <2>4
<1> QED BY <1>1, SettingsInvariance, PTL DEF ReadBack
=============================================================================
