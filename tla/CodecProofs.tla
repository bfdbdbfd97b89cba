---------------------------- MODULE CodecProofs -----------------------------
(***************************************************************************)
(* Theorems about sequence numbers, for any even modulus, and what the     *)
(* operators of Bytes and Codec compute, for every content, every cursor   *)
(* and every scale of the integers.  A loop is a function of the number of *)
(* its turns: what it does is proved by induction on that number, with the *)
(* set of the numbers for which the claim holds (SetInduction).            *)
(***************************************************************************)
EXTENDS Codec, SequenceTheorems, WellFoundedInduction, TLAPS

----------------------------------------------------------------------------
(* Sequence numbers *)

\* Division with remainder, once around.
LEMMA ModOnce ==
    ASSUME NEW M \in Nat, M > 0, NEW x \in Int, -M <= x, x < 2 * M
    PROVE  x % M = IF x < 0 THEN x + M ELSE IF x < M THEN x ELSE x - M
OBVIOUS

\* The number k places after a, and the gap between the two.
LEMMA Places ==
    ASSUME NEW a \in SeqNums, NEW k \in SeqNums
    PROVE  /\ (a + k) % Modulus = IF a + k < Modulus THEN a + k ELSE a + k - Modulus
           /\ (a + k) % Modulus \in SeqNums
           /\ Gap(a, (a + k) % Modulus) = k
           /\ Gap((a + k) % Modulus, a) = IF k = 0 THEN 0 ELSE Modulus - k
<1>1. Modulus \in Nat /\ Modulus > 0
  BY SeqNumAssumption DEF Modulus
<1>2. PICK M \in Nat : M = Modulus /\ M > 0
  BY <1>1
<1>3. a \in Int /\ 0 <= a /\ a < M /\ k \in Int /\ 0 <= k /\ k < M
  BY <1>2 DEF SeqNums
<1>4. PICK b \in Int : b = IF a + k < M THEN a + k ELSE a + k - M
  BY <1>2, <1>3
<1>5. (a + k) % M = b
  BY <1>2, <1>3, <1>4, ModOnce
<1>6. 0 <= b /\ b < M
  BY <1>2, <1>3, <1>4
<1>7. (b - a) % M = IF b - a < 0 THEN b - a + M ELSE b - a
  BY <1>2, <1>3, <1>6, ModOnce
<1>8. (a - b) % M = IF a - b < 0 THEN a - b + M ELSE a - b
  BY <1>2, <1>3, <1>6, ModOnce
<1>9. (b - a) % M = k
  BY <1>2, <1>3, <1>4, <1>6, <1>7
<1>10. (a - b) % M = IF k = 0 THEN 0 ELSE M - k
  BY <1>2, <1>3, <1>4, <1>6, <1>8
<1> QED
  BY <1>2, <1>4, <1>5, <1>6, <1>9, <1>10 DEF Gap, SeqNums

\* Every number is some places after any other.
LEMMA EveryPlace ==
    ASSUME NEW a \in SeqNums, NEW b \in SeqNums
    PROVE  \E k \in SeqNums : b = (a + k) % Modulus /\ (a = b <=> k = 0)
<1>1. PICK M \in Nat : M = Modulus /\ M > 0
  BY SeqNumAssumption DEF Modulus
<1>2. a \in Int /\ 0 <= a /\ a < M /\ b \in Int /\ 0 <= b /\ b < M
  BY <1>1 DEF SeqNums
<1>3. PICK k \in Int : 0 <= k /\ k < M /\ (a = b <=> k = 0) /\ (a + k = b \/ a + k = b + M)
  <2>1. CASE a <= b
    <3>1. b - a \in Int /\ 0 <= b - a /\ b - a < M /\ a + (b - a) = b
      BY <1>1, <1>2, <2>1
    <3>2. a = b <=> b - a = 0
      BY <1>2
    <3> QED
      BY <3>1, <3>2, Zenon
  <2>2. CASE b < a
    <3>1. b - a + M \in Int /\ 0 < b - a + M /\ b - a + M < M /\ a + (b - a + M) = b + M
      BY <1>1, <1>2, <2>2
    <3> QED
      BY <2>2, <3>1, <1>2
  <2> QED
    BY <1>2, <2>1, <2>2
<1>4. 0 <= a + k /\ a + k < 2 * M
  BY <1>1, <1>2, <1>3
<1>5. (a + k) % M = b
  BY <1>1, <1>2, <1>3, <1>4, ModOnce
<1> QED
  BY <1>1, <1>3, <1>5 DEF SeqNums

\* A number is earlier than those less than half the range ahead of it, across the wrap
\* as well, and they are later than it (Ord for SeqNum).
THEOREM AheadIsLater ==
    ASSUME NEW a \in SeqNums, NEW k \in 1..(Half - 1)
    PROVE  LET b == (a + k) % Modulus IN Cmp(a, b) = "less" /\ Cmp(b, a) = "greater"
<1> DEFINE b == (a + k) % Modulus
<1>1. Half \in Nat /\ Half > 0 /\ Modulus = 2 * Half
  BY SeqNumAssumption DEF Modulus
<1>2. k \in SeqNums /\ k > 0 /\ k < Half /\ Modulus - k > Half
  BY <1>1 DEF SeqNums
<1>3. Gap(a, b) = k /\ Gap(b, a) = Modulus - k
  BY <1>2, Places
<1>4. a # b
  <2>1. Gap(a, a) = 0
    <3>1. 0 \in SeqNums /\ a \in Int /\ a + 0 < Modulus
      BY <1>1 DEF SeqNums
    <3>2. (a + 0) % Modulus = (IF a + 0 < Modulus THEN a + 0 ELSE a + 0 - Modulus)
          /\ Gap(a, (a + 0) % Modulus) = 0
      BY <3>1, Places
    <3>3. a + 0 = a
      BY <3>1
    <3>4. (a + 0) % Modulus = a
      BY <3>1, <3>2, <3>3
    <3> QED
      BY <3>2, <3>4
  <2> QED
    BY <1>2, <1>3, <2>1
<1> HIDE DEF b
<1>5. Cmp(a, b) = "less"
  BY <1>2, <1>3, <1>4 DEF Cmp
<1>6. ~(Gap(b, a) < Half)
  BY <1>1, <1>2, <1>3
<1>7. Cmp(b, a) = "greater"
  BY <1>4, <1>6 DEF Cmp
<1> QED
  BY <1>5, <1>7 DEF b

\* next returns a sequence number that is later than the one it starts from, also where
\* it wraps, if there are more than two numbers (SeqNum::next).
THEOREM NextIsLater ==
    ASSUME NEW sn \in SeqNums
    PROVE  /\ Next_Sn(sn) \in SeqNums
           /\ Half > 1 => Cmp(sn, Next_Sn(sn)) = "less"
<1>1. Half \in Nat /\ Half > 0 /\ 1 \in SeqNums
  BY SeqNumAssumption DEF SeqNums, Modulus
<1>2. Next_Sn(sn) \in SeqNums
  BY <1>1, Places DEF Next_Sn
<1>3. Half > 1 => 1 \in 1..(Half - 1)
  BY <1>1
<1> QED
  BY <1>2, <1>3, AheadIsLater DEF Next_Sn

\* The comparison is antisymmetric but for two numbers half the range apart: each of
\* those is later than the other (Ord for SeqNum).
THEOREM OrderIsOneWay ==
    ASSUME NEW a \in SeqNums, NEW b \in SeqNums, a # b
    PROVE  IF Gap(a, b) = Half THEN Cmp(a, b) = "greater" /\ Cmp(b, a) = "greater"
           ELSE Cmp(a, b) = "less" <=> Cmp(b, a) = "greater"
<1>1. Half \in Nat /\ Half > 0 /\ Modulus = 2 * Half
  BY SeqNumAssumption DEF Modulus
<1>2. PICK k \in SeqNums : b = (a + k) % Modulus /\ k # 0
  BY EveryPlace
<1>3. Gap(a, b) = k /\ Gap(b, a) = Modulus - k
  BY <1>2, Places
<1>4. k \in Int /\ 0 < k /\ k < Modulus
  BY <1>1, <1>2 DEF SeqNums
<1>5. /\ Cmp(a, b) = IF k < Half THEN "less" ELSE "greater"
      /\ Cmp(b, a) = IF Modulus - k < Half THEN "less" ELSE "greater"
  BY <1>3 DEF Cmp
<1>6. Modulus - k < Half <=> k > Half
  BY <1>1, <1>4
<1>7. CASE k = Half
  BY <1>1, <1>3, <1>5, <1>6, <1>7
<1>8. CASE k < Half
  <2>1. Cmp(a, b) = "less"
    BY <1>5, <1>8
  <2>2. ~(Modulus - k < Half)
    BY <1>1, <1>4, <1>6, <1>8
  <2> QED
    BY <1>1, <1>3, <1>4, <1>5, <1>8, <2>1, <2>2
<1>9. CASE k > Half
  <2>1. ~(k < Half) /\ Modulus - k < Half
    BY <1>1, <1>4, <1>6, <1>9
  <2> QED
    BY <1>1, <1>3, <1>4, <1>5, <1>9, <2>1
<1> QED
  BY <1>1, <1>4, <1>7, <1>8, <1>9

----------------------------------------------------------------------------
(* Induction and loops *)

\* A set that has 0, and with a number the next one, has every number.
LEMMA SetInduction ==
    ASSUME NEW T, 0 \in T, \A n \in Nat : n \in T => n + 1 \in T
    PROVE  Nat \subseteq T
<1> SUFFICES ASSUME ~(Nat \subseteq T) PROVE FALSE
  OBVIOUS
<1> DEFINE U == {n \in Nat : n \notin T}
<1>1. U # {} /\ U \subseteq Nat
  OBVIOUS
<1>2. PICK m \in U : \A y \in U : ~(<<y, m>> \in OpToRel(<, Nat))
  BY <1>1, WFMin, NatLessThanWellFounded
<1>3. \A y \in U : ~(y < m)
  BY <1>2 DEF OpToRel
<1>4. m \in Nat /\ m # 0
  OBVIOUS
<1>5. m - 1 \in Nat /\ m - 1 < m
  BY <1>4
<1>6. m - 1 \in T
  BY <1>3, <1>5
<1> QED
  BY <1>4, <1>5, <1>6

\* Steps G[0], G[1], ... of a set into itself, taken one after the other from a.
Chain(f, S, a, G) ==
    f \in [Nat -> S] /\ f[0] = a /\ \A k \in Nat : f[k + 1] = G[k][f[k]]

LEMMA ChainExists ==
    ASSUME NEW S, NEW a \in S, NEW G \in [Nat -> [S -> S]]
    PROVE  \E f : Chain(f, S, a, G)
<1> DEFINE Good(f, n) == /\ f \in [0..n -> S] /\ f[0] = a
                         /\ \A k \in 0..(n - 1) : f[k + 1] = G[k][f[k]]
           T == {n \in Nat : \E f : Good(f, n)}
<1>1. 0 \in T
  <2>1. Good([k \in 0..0 |-> a], 0)
    OBVIOUS
  <2> QED
    BY <2>1
<1>2. ASSUME NEW n \in Nat, n \in T PROVE n + 1 \in T
  <2>1. PICK f : Good(f, n)
    BY <1>2
  <2> DEFINE g == [k \in 0..(n + 1) |-> IF k = n + 1 THEN G[n][f[n]] ELSE f[k]]
  <2>2. n \in 0..n /\ f[n] \in S /\ G[n][f[n]] \in S
    BY <2>1
  <2>3. g \in [0..(n + 1) -> S]
    <3>1. \A k \in 0..(n + 1) : k # n + 1 => k \in 0..n
      OBVIOUS
    <3> QED
      BY <2>1, <2>2, <3>1
  <2>4. g[0] = a
    <3>1. 0 \in 0..(n + 1) /\ 0 # n + 1
      OBVIOUS
    <3> QED
      BY <2>1, <3>1
  <2>5. ASSUME NEW k \in 0..n PROVE g[k + 1] = G[k][g[k]]
    <3>1. k \in 0..(n + 1) /\ k + 1 \in 0..(n + 1) /\ k # n + 1
          /\ (k # n => k \in 0..(n - 1) /\ k + 1 # n + 1)
      OBVIOUS
    <3>2. g[k] = f[k] /\ g[k + 1] = IF k = n THEN G[n][f[n]] ELSE f[k + 1]
      BY <3>1
    <3> QED
      BY <2>1, <3>1, <3>2
  <2> HIDE DEF g
  <2>6. \A k \in 0..((n + 1) - 1) : k \in 0..n
    OBVIOUS
  <2>7. Good(g, n + 1)
    BY <2>3, <2>4, <2>5, <2>6
  <2>8. \E h : Good(h, n + 1)
    BY <2>7
  <2> HIDE DEF Good
  <2> QED
    BY <2>8
<1> HIDE DEF T
<1>3. Nat \subseteq T
  BY <1>1, <1>2, SetInduction
<1> USE DEF T
<1> DEFINE F == [n \in Nat |-> CHOOSE f : Good(f, n)]
<1>4. \A n \in Nat : Good(F[n], n)
  BY <1>3
<1> HIDE DEF F
<1>5. ASSUME NEW n \in Nat PROVE F[n + 1][n] = F[n][n]
  <2> DEFINE V == {k \in Nat : k <= n => F[n + 1][k] = F[n][k]}
  <2>1. Good(F[n], n) /\ Good(F[n + 1], n + 1)
    BY <1>4
  <2>2. 0 \in V
    BY <2>1
  <2>3. ASSUME NEW k \in Nat, k \in V PROVE k + 1 \in V
    <3>1. CASE k + 1 <= n
      BY <2>1, <2>3, <3>1
    <3>2. CASE ~(k + 1 <= n)
      BY <3>2
    <3> QED
      BY <3>1, <3>2
  <2> HIDE DEF V
  <2>4. n \in V
    BY <2>2, <2>3, SetInduction
  <2> QED
    BY <2>4 DEF V
<1> DEFINE h == [n \in Nat |-> F[n][n]]
<1>6. h \in [Nat -> S] /\ h[0] = a
  <2>1. \A n \in Nat : n \in 0..n /\ F[n] \in [0..n -> S]
    BY <1>4
  <2>2. F[0][0] = a
    BY <1>4
  <2> QED
    BY <2>1, <2>2
<1>7. ASSUME NEW k \in Nat PROVE h[k + 1] = G[k][h[k]]
  <2>1. Good(F[k + 1], k + 1)
    BY <1>4
  <2>2. k \in 0..((k + 1) - 1) /\ k + 1 \in Nat
    OBVIOUS
  <2>3. F[k + 1][k + 1] = G[k][F[k + 1][k]]
    BY <2>1, <2>2
  <2> QED
    BY <1>5, <2>2, <2>3
<1> HIDE DEF h
<1> QED
  BY <1>6, <1>7 DEF Chain

----------------------------------------------------------------------------
(* Contents: the chunks of a sequence joined *)

\* Joining is associative.
Assoc(a, b, c) == (a \o b) \o c = a \o (b \o c)
LEMMA Associative ==
    ASSUME NEW S, NEW a, NEW b, NEW c, a \in Seq(S), b \in Seq(S), c \in Seq(S)
    PROVE  Assoc(a, b, c)
  BY ConcatAssociative DEF Assoc

\* The k elements of a sequence after the first m.
LEMMA Slice ==
    ASSUME NEW S, NEW c \in Seq(S), NEW m \in Nat, NEW k \in Nat, m + k <= Len(c)
    PROVE  /\ SubSeq(c, m + 1, m + k) \in Seq(S) /\ Len(SubSeq(c, m + 1, m + k)) = k
           /\ \A i \in 1..k : SubSeq(c, m + 1, m + k)[i] = c[m + i]
<1> DEFINE a == m + 1
           b == m + k
           z == SubSeq(c, a, b)
<1>1. Len(c) \in Nat
  BY LenProperties
<1>2. a \in Int /\ b \in Int /\ \A i \in a..b : i \in 1..Len(c)
  BY <1>1
<1>3. \A i \in a..b : c[i] \in S
  BY <1>2, ElementOfSeq
<1> HIDE DEF a, b
<1>4. /\ z \in Seq(S) /\ Len(z) = (IF a <= b THEN b - a + 1 ELSE 0)
      /\ \A i \in 1..(b - a + 1) : z[i] = c[a + i - 1]
  BY <1>2, <1>3, SubSeqProperties
<1> HIDE DEF z
<1>5. b - a + 1 = k /\ (a <= b <=> k > 0) /\ \A i \in 1..k : a + i - 1 = m + i
  BY DEF a, b
<1>6. Len(z) = k
  BY <1>4, <1>5
<1>7. \A i \in 1..k : z[i] = c[m + i]
  BY <1>4, <1>5
<1> QED
  BY <1>4, <1>6, <1>7 DEF z, a, b

\* The content of the first k chunks.
Pre(s, k) == FlattenSeq(SubSeq(s, 1, k))

\* There is a function that joins the chunks one by one.
LEMMA JoinExists ==
    ASSUME NEW S, NEW s \in Seq(Seq(S))
    PROVE  \E f \in [Nat -> Seq(S)] :
               f[0] = <<>> /\ \A i \in 1..Len(s) : f[i] = f[i - 1] \o s[i]
<1> DEFINE Longer(k, c) == IF k + 1 \in 1..Len(s) THEN c \o s[k + 1] ELSE c
           G == [k \in Nat |-> [c \in Seq(S) |-> Longer(k, c)]]
<1>1. ASSUME NEW k \in Nat, NEW c \in Seq(S) PROVE Longer(k, c) \in Seq(S)
  BY ElementOfSeq, ConcatProperties
<1>2. G \in [Nat -> [Seq(S) -> Seq(S)]] /\ <<>> \in Seq(S)
  <2> HIDE DEF Longer
  <2> QED
    BY <1>1, EmptySeq
<1>3. PICK f : Chain(f, Seq(S), <<>>, G)
  <2> HIDE DEF G
  <2> QED
    BY <1>2, ChainExists, Zenon
<1>4. f \in [Nat -> Seq(S)] /\ f[0] = <<>> /\ \A k \in Nat : f[k + 1] = Longer(k, f[k])
  <2> HIDE DEF Longer
  <2> QED
    BY <1>3 DEF Chain
<1>5. ASSUME NEW i \in 1..Len(s) PROVE f[i] = f[i - 1] \o s[i]
  <2>1. i - 1 \in Nat /\ (i - 1) + 1 = i
    BY LenProperties
  <2> QED
    BY <1>4, <2>1
<1> QED
  BY <1>4, <1>5

\* FlattenSeq is what such a function gives for the last chunk.
LEMMA FlattenIs ==
    ASSUME NEW S, NEW s \in Seq(Seq(S)), NEW f \in [Nat -> Seq(S)], f[0] = <<>>,
           \A i \in 1..Len(s) : f[i] = f[i - 1] \o s[i]
    PROVE  FlattenSeq(s) = f[Len(s)]
<1> DEFINE flatten[i \in 1..Len(s)] == IF i = 1 THEN s[i] ELSE flatten[i - 1] \o s[i]
<1>1. CASE Len(s) = 0
  <2>1. s = <<>>
    BY <1>1
  <2> QED
    BY <1>1, <2>1 DEF FlattenSeq
<1>2. CASE Len(s) # 0
  <2> DEFINE g == [i \in 1..Len(s) |-> f[i]]
  <2>1. ASSUME NEW i \in 1..Len(s)
        PROVE  g[i] = IF i = 1 THEN s[i] ELSE g[i - 1] \o s[i]
    <3>1. i = 1 => f[i] = s[i]
      <4>1. s[i] \in Seq(S) /\ f[i] = f[i - 1] \o s[i]
        BY ElementOfSeq
      <4>2. i = 1 => f[i - 1] = <<>>
        OBVIOUS
      <4> QED
        BY <4>1, <4>2, ConcatEmptySeq
    <3>2. i # 1 => i - 1 \in 1..Len(s)
      BY LenProperties
    <3> QED
      BY <3>1, <3>2
  <2>2. g = [i \in 1..Len(s) |-> IF i = 1 THEN s[i] ELSE g[i - 1] \o s[i]]
    BY <2>1
  <2> HIDE DEF g
  <2>3. flatten = [i \in 1..Len(s) |-> IF i = 1 THEN s[i] ELSE flatten[i - 1] \o s[i]]
    BY <2>2
  <2>4. FlattenSeq(s) = flatten[Len(s)]
    BY <1>2 DEF FlattenSeq
  <2> HIDE DEF flatten
  <2> DEFINE T == {i \in Nat : i + 1 \in 1..Len(s) => flatten[i + 1] = f[i + 1]}
  <2>5. 0 \in T
    <3>1. 1 \in 1..Len(s)
      BY <1>2, LenProperties
    <3>2. flatten[1] = s[1]
      BY <2>3, <3>1
    <3>3. f[1] = f[1 - 1] \o s[1] /\ s[1] \in Seq(S)
      BY <3>1, ElementOfSeq
    <3>4. 1 - 1 = 0 /\ 0 + 1 = 1
      OBVIOUS
    <3> QED
      BY <3>2, <3>3, <3>4, ConcatEmptySeq
  <2>6. ASSUME NEW i \in Nat, i \in T PROVE i + 1 \in T
    <3>0. i + 1 \in Nat
      OBVIOUS
    <3> SUFFICES ASSUME (i + 1) + 1 \in 1..Len(s)
                 PROVE  flatten[(i + 1) + 1] = f[(i + 1) + 1]
      BY <3>0, Zenon
    <3>1. i + 1 \in 1..Len(s) /\ (i + 1) + 1 # 1 /\ ((i + 1) + 1) - 1 = i + 1
      BY LenProperties
    <3>2. flatten[i + 1] = f[i + 1]
      BY <2>6, <3>1
    <3>3. flatten[(i + 1) + 1] = flatten[i + 1] \o s[(i + 1) + 1]
      BY <2>3, <3>1
    <3> QED
      BY <3>1, <3>2, <3>3
  <2> HIDE DEF T
  <2>7. Len(s) - 1 \in Nat /\ (Len(s) - 1) + 1 \in 1..Len(s) /\ (Len(s) - 1) + 1 = Len(s)
    BY <1>2, LenProperties
  <2>8. Len(s) - 1 \in T
    BY <2>5, <2>6, <2>7, SetInduction
  <2> QED
    BY <2>4, <2>7, <2>8 DEF T
<1> QED
  BY <1>1, <1>2

\* The content of a first part of the chunks grows by one chunk at a time.
LEMMA PreSteps ==
    ASSUME NEW S, NEW s \in Seq(Seq(S))
    PROVE  /\ FlattenSeq(s) \in Seq(S) /\ FlattenSeq(s) = Pre(s, Len(s))
           /\ Pre(s, 0) = <<>>
           /\ \A k \in 0..Len(s) : Pre(s, k) \in Seq(S)
           /\ \A k \in 1..Len(s) : Pre(s, k) = Pre(s, k - 1) \o s[k]
<1>1. PICK f \in [Nat -> Seq(S)] :
          f[0] = <<>> /\ \A i \in 1..Len(s) : f[i] = f[i - 1] \o s[i]
  BY JoinExists
<1>2. ASSUME NEW k \in 0..Len(s) PROVE Pre(s, k) = f[k]
  <2> DEFINE t == SubSeq(s, 1, k)
  <2>1. k \in Nat /\ \A i \in 1..k : i \in 1..Len(s) /\ s[i] \in Seq(S)
    BY SMTT(30), LenProperties, ElementOfSeq
  <2>2. t \in Seq(Seq(S)) /\ Len(t) = k /\ \A i \in 1..k : t[i] = s[i]
    BY <2>1, SubSeqProperties
  <2> HIDE DEF t
  <2>3. \A i \in 1..Len(t) : f[i] = f[i - 1] \o t[i]
    BY <1>1, <2>1, <2>2
  <2>4. FlattenSeq(t) = f[Len(t)]
    BY <1>1, <2>2, <2>3, FlattenIs
  <2> QED
    BY <2>2, <2>4 DEF Pre, t
<1>3. SubSeq(s, 1, Len(s)) = s /\ Len(s) \in Nat
  BY SubSeqFull, LenProperties
<1>4. \A k \in 0..Len(s) : k \in Nat
  BY <1>3
<1>5. \A k \in 1..Len(s) : k - 1 \in 0..Len(s) /\ k \in 0..Len(s)
  BY <1>3
<1>6. 0 \in 0..Len(s) /\ Len(s) \in 0..Len(s)
  BY <1>3
<1>7. FlattenSeq(s) = Pre(s, Len(s))
  BY <1>3 DEF Pre
<1> QED
  BY <1>1, <1>2, <1>4, <1>5, <1>6, <1>7

\* Joining two sequences of chunks joins their contents.
LEMMA FlattenConcat ==
    ASSUME NEW S, NEW s \in Seq(Seq(S)), NEW t \in Seq(Seq(S))
    PROVE  FlattenSeq(s \o t) = FlattenSeq(s) \o FlattenSeq(t)
<1> DEFINE u == s \o t
           T == {k \in Nat : k <= Len(t) => Pre(u, Len(s) + k) = FlattenSeq(s) \o Pre(t, k)}
<1>1. /\ u \in Seq(Seq(S)) /\ Len(u) = Len(s) + Len(t)
      /\ \A i \in 1..Len(s) : u[i] = s[i]
      /\ \A k \in 1..Len(t) : u[Len(s) + k] = t[k]
      /\ Len(s) \in Nat /\ Len(t) \in Nat
  <2>1. Len(s) \in Nat /\ Len(t) \in Nat
    BY LenProperties
  <2>2. /\ u \in Seq(Seq(S)) /\ Len(u) = Len(s) + Len(t)
        /\ \A i \in 1..(Len(s) + Len(t)) : u[i] = IF i <= Len(s) THEN s[i] ELSE t[i - Len(s)]
    BY ConcatProperties
  <2> HIDE DEF u
  <2>3. ASSUME NEW i \in 1..Len(s) PROVE u[i] = s[i]
    BY <2>1, <2>2
  <2>4. ASSUME NEW k \in 1..Len(t) PROVE u[Len(s) + k] = t[k]
    <3>1. /\ Len(s) + k \in 1..(Len(s) + Len(t)) /\ ~(Len(s) + k <= Len(s))
          /\ (Len(s) + k) - Len(s) = k
      BY <2>1
    <3> QED
      BY <2>2, <3>1
  <2> QED
    BY <2>1, <2>2, <2>3, <2>4
<1>2. SubSeq(u, 1, Len(s)) = s
  <2> HIDE DEF u
  <2>1. \A i \in 1..Len(s) : s[i] \in Seq(S)
    BY ElementOfSeq
  <2>2. /\ SubSeq(u, 1, Len(s)) \in Seq(Seq(S)) /\ Len(SubSeq(u, 1, Len(s))) = Len(s)
        /\ \A i \in 1..Len(s) : SubSeq(u, 1, Len(s))[i] = s[i]
    BY <1>1, <2>1, SubSeqProperties
  <2> QED
    BY <2>2, SeqEqual
<1> HIDE DEF u
<1>3. 0 \in T
  <2>1. Pre(u, Len(s) + 0) = FlattenSeq(s) /\ 0 <= Len(t)
    <3>1. Len(s) + 0 = Len(s)
      BY <1>1
    <3>2. Pre(u, Len(s)) = FlattenSeq(s)
      BY <1>2, Zenon DEF Pre
    <3> QED
      BY <1>1, <3>1, <3>2
  <2>2. Pre(t, 0) = <<>> /\ FlattenSeq(s) \in Seq(S)
    BY PreSteps
  <2> QED
    BY <2>1, <2>2, ConcatEmptySeq
<1>4. ASSUME NEW k \in Nat, k \in T PROVE k + 1 \in T
  <2> SUFFICES ASSUME k + 1 <= Len(t)
               PROVE  Pre(u, Len(s) + (k + 1)) = FlattenSeq(s) \o Pre(t, k + 1)
    OBVIOUS
  <2>1. /\ Len(s) + (k + 1) \in 1..Len(u) /\ (Len(s) + (k + 1)) - 1 = Len(s) + k
        /\ k + 1 \in 1..Len(t) /\ (k + 1) - 1 = k /\ k \in 0..Len(t)
    BY <1>1
  <2>2. Pre(u, Len(s) + (k + 1)) = Pre(u, Len(s) + k) \o t[k + 1]
    BY ZenonT(60), <1>1, <2>1, PreSteps
  <2>3. Pre(t, k + 1) = Pre(t, k) \o t[k + 1] /\ Pre(t, k) \in Seq(S)
    BY <2>1, PreSteps
  <2>4. t[k + 1] \in Seq(S) /\ FlattenSeq(s) \in Seq(S)
    BY <2>1, ElementOfSeq, PreSteps
  <2>5. Pre(u, Len(s) + k) = FlattenSeq(s) \o Pre(t, k)
    BY <1>4, <2>1
  <2>6. (FlattenSeq(s) \o Pre(t, k)) \o t[k + 1] = FlattenSeq(s) \o (Pre(t, k) \o t[k + 1])
    <3>1. Assoc(FlattenSeq(s), Pre(t, k), t[k + 1])
      BY <2>3, <2>4, Associative
    <3> QED
      BY <3>1 DEF Assoc
  <2> QED
    BY <2>2, <2>3, <2>5, <2>6, Zenon
<1> HIDE DEF T
<1>5. Len(t) \in T
  BY <1>1, <1>3, <1>4, SetInduction
<1> QED
  <2>1. Pre(u, Len(s) + Len(t)) = FlattenSeq(s) \o Pre(t, Len(t))
    BY <1>1, <1>5 DEF T
  <2>2. Pre(u, Len(u)) = FlattenSeq(u) /\ Pre(t, Len(t)) = FlattenSeq(t)
    BY <1>1, PreSteps
  <2> QED
    BY <1>1, <2>1, <2>2 DEF u

----------------------------------------------------------------------------
(* Where the chunks are in the content *)

\* The bytes of a chunk; Bytes and their readers have no empty chunk.
Chunk == Seq(Nat) \ {<<>>}

LEMMA ChunkSeqs ==
    ASSUME NEW s \in Seq(Chunk)
    PROVE  /\ s \in Seq(Seq(Nat)) /\ Len(s) \in Nat
           /\ \A k \in 1..Len(s) : s[k] \in Seq(Nat) /\ Len(s[k]) \in Nat /\ Len(s[k]) > 0
<1>1. s \in Seq(Seq(Nat)) /\ Len(s) \in Nat
  <2>1. Chunk \subseteq Seq(Nat)
    BY DEF Chunk
  <2> QED
    BY <2>1, SeqMonotonic, LenProperties
<1>2. ASSUME NEW k \in 1..Len(s) PROVE s[k] \in Seq(Nat) /\ Len(s[k]) \in Nat /\ Len(s[k]) > 0
  <2>1. s[k] \in Seq(Nat) /\ s[k] # <<>>
    BY ElementOfSeq DEF Chunk
  <2> QED
    BY <2>1, EmptySeq
<1> QED
  BY <1>1, <1>2

\* The first k chunks, then the rest; chunk k + 1 begins the rest.
LEMMA SplitAt ==
    ASSUME NEW s \in Seq(Seq(Nat)), NEW k \in 0..Len(s)
    PROVE  /\ FlattenSeq(s) = Pre(s, k) \o FlattenSeq(SubSeq(s, k + 1, Len(s)))
           /\ FlattenSeq(s) \in Seq(Nat) /\ Pre(s, k) \in Seq(Nat)
           /\ FlattenSeq(SubSeq(s, k + 1, Len(s))) \in Seq(Nat)
           /\ Len(Pre(s, k)) \in Nat /\ Len(Pre(s, k)) <= Len(FlattenSeq(s))
           /\ Len(FlattenSeq(SubSeq(s, k + 1, Len(s)))) = Len(FlattenSeq(s)) - Len(Pre(s, k))
<1> DEFINE a == SubSeq(s, 1, k)
           b == SubSeq(s, k + 1, Len(s))
<1>1. a \in Seq(Seq(Nat)) /\ b \in Seq(Seq(Nat)) /\ s = a \o b
  <2>1. Len(s) \in Nat /\ k \in Nat /\ \A i \in 1..Len(s) : s[i] \in Seq(Nat)
    BY LenProperties, ElementOfSeq
  <2>2. a \in Seq(Seq(Nat)) /\ b \in Seq(Seq(Nat))
    BY <2>1, SubSeqProperties
  <2>3. a \o b = SubSeq(s, 1, Len(s))
    <3>1. 1 \in 1..(Len(s) + 1) /\ k \in (1 - 1)..Len(s) /\ Len(s) \in k..Len(s)
      BY <2>1
    <3> QED
      BY <3>1, ConcatAdjacentSubSeq
  <2> QED
    BY <2>2, <2>3, SubSeqFull
<1> HIDE DEF a, b
<1>2. FlattenSeq(s) = FlattenSeq(a) \o FlattenSeq(b)
  BY <1>1, FlattenConcat
<1>3. /\ FlattenSeq(a) \in Seq(Nat) /\ FlattenSeq(b) \in Seq(Nat) /\ FlattenSeq(s) \in Seq(Nat)
  BY <1>1, PreSteps
<1>4. /\ Len(FlattenSeq(a)) \in Nat /\ Len(FlattenSeq(b)) \in Nat
      /\ Len(FlattenSeq(s)) = Len(FlattenSeq(a)) + Len(FlattenSeq(b))
  BY <1>2, <1>3, LenProperties, ConcatProperties
<1>5. FlattenSeq(a) = Pre(s, k)
  BY DEF Pre, a
<1>6. /\ Len(FlattenSeq(a)) <= Len(FlattenSeq(s))
      /\ Len(FlattenSeq(b)) = Len(FlattenSeq(s)) - Len(FlattenSeq(a))
  BY <1>4
<1> QED
  BY <1>2, <1>3, <1>4, <1>5, <1>6 DEF b

\* The bytes of chunk k + 1 follow the first k chunks.
LEMMA ChunkPlace ==
    ASSUME NEW s \in Seq(Seq(Nat)), NEW k \in 0..(Len(s) - 1)
    PROVE  /\ Len(Pre(s, k + 1)) = Len(Pre(s, k)) + Len(s[k + 1])
           /\ Len(Pre(s, k)) \in Nat /\ Len(s[k + 1]) \in Nat
           /\ Len(Pre(s, k + 1)) <= Len(FlattenSeq(s))
           /\ \A i \in 1..Len(s[k + 1]) : FlattenSeq(s)[Len(Pre(s, k)) + i] = s[k + 1][i]
<1> DEFINE c == s[k + 1]
           d == FlattenSeq(SubSeq(s, (k + 1) + 1, Len(s)))
<1>1. k \in 0..Len(s) /\ k + 1 \in 0..Len(s) /\ k + 1 \in 1..Len(s) /\ (k + 1) - 1 = k
  BY LenProperties
<1>2. /\ FlattenSeq(s) = Pre(s, k + 1) \o d /\ Pre(s, k) \in Seq(Nat)
      /\ Pre(s, k + 1) \in Seq(Nat) /\ d \in Seq(Nat)
      /\ Len(Pre(s, k)) \in Nat /\ Len(Pre(s, k + 1)) <= Len(FlattenSeq(s))
  BY <1>1, SplitAt
<1>3. Pre(s, k + 1) = Pre(s, k) \o c /\ c \in Seq(Nat) /\ Len(c) \in Nat
  BY <1>1, PreSteps, ElementOfSeq, LenProperties
<1> HIDE DEF c, d
<1>4. /\ Len(Pre(s, k + 1)) = Len(Pre(s, k)) + Len(c)
      /\ \A i \in 1..(Len(Pre(s, k)) + Len(c)) :
             Pre(s, k + 1)[i] = IF i <= Len(Pre(s, k)) THEN Pre(s, k)[i] ELSE c[i - Len(Pre(s, k))]
  BY SMTT(30), <1>2, <1>3, ConcatProperties
<1>5. /\ Len(d) \in Nat
      /\ \A i \in 1..(Len(Pre(s, k + 1)) + Len(d)) :
             FlattenSeq(s)[i] = IF i <= Len(Pre(s, k + 1)) THEN Pre(s, k + 1)[i]
                                ELSE d[i - Len(Pre(s, k + 1))]
  BY <1>2, ConcatProperties, LenProperties
<1>6. ASSUME NEW i \in 1..Len(c) PROVE FlattenSeq(s)[Len(Pre(s, k)) + i] = c[i]
  <2> DEFINE j == Len(Pre(s, k)) + i
  <2>1. /\ j \in 1..(Len(Pre(s, k)) + Len(c)) /\ ~(j <= Len(Pre(s, k)))
        /\ j - Len(Pre(s, k)) = i
        /\ j <= Len(Pre(s, k + 1)) /\ j \in 1..(Len(Pre(s, k + 1)) + Len(d))
    <3>1. Len(Pre(s, k)) \in Nat /\ Len(c) \in Nat /\ Len(d) \in Nat
          /\ Len(Pre(s, k + 1)) = Len(Pre(s, k)) + Len(c)
      BY <1>2, <1>3, <1>4, <1>5
    <3> QED
      BY <3>1
  <2> HIDE DEF j
  <2>2. FlattenSeq(s)[j] = Pre(s, k + 1)[j] /\ Pre(s, k + 1)[j] = c[i]
    BY <1>4, <1>5, <2>1
  <2> QED
    BY <2>2 DEF j
<1> QED
  BY <1>2, <1>3, <1>4, <1>6 DEF c

\* Where the chunks are not empty, more of them are longer.
LEMMA PreGrows ==
    ASSUME NEW s \in Seq(Chunk), NEW j \in 0..Len(s), NEW k \in 0..Len(s), j < k
    PROVE  Len(Pre(s, j)) < Len(Pre(s, k))
<1> DEFINE T == {n \in Nat : j + n + 1 <= Len(s) => Len(Pre(s, j)) < Len(Pre(s, j + n + 1))}
<1>1. s \in Seq(Seq(Nat)) /\ Len(s) \in Nat /\ \A i \in 1..Len(s) : Len(s[i]) > 0
  BY ChunkSeqs
<1>2. ASSUME NEW i \in 0..(Len(s) - 1) PROVE Len(Pre(s, i)) < Len(Pre(s, i + 1))
  <2>1. i + 1 \in 1..Len(s)
    BY <1>1
  <2> QED
    <3>1. /\ Len(Pre(s, i + 1)) = Len(Pre(s, i)) + Len(s[i + 1])
          /\ Len(Pre(s, i)) \in Nat /\ Len(s[i + 1]) \in Nat
      BY <1>1, ChunkPlace
    <3> QED
      BY <1>1, <2>1, <3>1
<1>3. \A i \in 0..Len(s) : Len(Pre(s, i)) \in Nat
  BY <1>1, SplitAt
<1>4. 0 \in T
  BY <1>1, <1>2
<1>5. ASSUME NEW n \in Nat, n \in T PROVE n + 1 \in T
  <2> SUFFICES ASSUME j + (n + 1) + 1 <= Len(s)
               PROVE  Len(Pre(s, j)) < Len(Pre(s, j + (n + 1) + 1))
    OBVIOUS
  <2>1. /\ j + n + 1 <= Len(s) /\ j + n + 1 \in 0..(Len(s) - 1)
        /\ j + (n + 1) + 1 = (j + n + 1) + 1 /\ (j + n + 1) + 1 \in 0..Len(s)
    BY <1>1
  <2>2. Len(Pre(s, j)) < Len(Pre(s, j + n + 1))
    BY <1>5, <2>1
  <2>3. Len(Pre(s, j + n + 1)) < Len(Pre(s, (j + n + 1) + 1))
    BY <1>2, <2>1
  <2> QED
    BY <1>3, <2>1, <2>2, <2>3
<1> HIDE DEF T
<1>6. (k - j) - 1 \in Nat /\ j + ((k - j) - 1) + 1 = k
  BY <1>1
<1>7. (k - j) - 1 \in T
  BY <1>4, <1>5, <1>6, SetInduction
<1> QED
  BY <1>1, <1>6, <1>7 DEF T

----------------------------------------------------------------------------
(* The cursor of a reader *)

Readers == {r \in [chunks : Seq(Chunk), slice : Nat, byte : Nat] :
    /\ r.slice <= Len(r.chunks)
    /\ r.slice < Len(r.chunks) => r.byte <= Len(r.chunks[r.slice + 1])
    /\ r.slice = Len(r.chunks) => r.byte = 0}

DataOf(r) == FlattenSeq(r.chunks)

\* k bytes of d, after the first o.
Part(d, o, k) == SubSeq(d, o + 1, o + k)
Ahead(r, n) == Part(DataOf(r), Offset(r), n)

\* The cursor is not at the end of a chunk: only backtrack leaves it there.
Firm(r) == AtChunk(r) => r.byte < Len(ChunkOf(r))

LEMMA OffsetArithmetic ==
    ASSUME NEW k \in Nat, NEW b \in Nat, NEW n \in Nat, NEW p \in Nat, NEW x \in Nat, NEW c \in Nat,
           k <= n, k < n => b <= c, k = n => b = 0, p <= x, k < n => p + c <= x, k = n => p = x
    PROVE  /\ p + b \in Nat /\ p + b <= x /\ (x - p) - b = x - (p + b)
           /\ ~(k < n) => p + b = x
OBVIOUS

\* An offset is within the content, and what remains is the rest of it.
LEMMA OffsetIn ==
    ASSUME NEW r \in Readers
    PROVE  /\ DataOf(r) \in Seq(Nat) /\ Len(DataOf(r)) \in Nat
           /\ Offset(r) \in Nat /\ Offset(r) <= Len(DataOf(r))
           /\ Remaining(r) = Len(DataOf(r)) - Offset(r)
           /\ ~AtChunk(r) => Offset(r) = Len(DataOf(r))
<1> DEFINE s == r.chunks
           k == r.slice
           b == r.byte
           c == IF k < Len(s) THEN Len(s[k + 1]) ELSE 0
<1>1. /\ s \in Seq(Chunk) /\ k \in Nat /\ b \in Nat /\ k <= Len(s)
      /\ k < Len(s) => b <= Len(s[k + 1])
      /\ k = Len(s) => b = 0
  BY DEF Readers
<1> HIDE DEF s, k, b
<1>2. s \in Seq(Seq(Nat)) /\ Len(s) \in Nat /\ k \in 0..Len(s)
  BY <1>1, ChunkSeqs
<1>3. /\ FlattenSeq(s) \in Seq(Nat) /\ Len(Pre(s, k)) \in Nat
      /\ Len(Pre(s, k)) <= Len(FlattenSeq(s)) /\ Len(FlattenSeq(s)) \in Nat
      /\ Len(FlattenSeq(SubSeq(s, k + 1, Len(s)))) = Len(FlattenSeq(s)) - Len(Pre(s, k))
  BY <1>2, SplitAt, LenProperties
<1>4. k < Len(s) => Len(Pre(s, k)) + Len(s[k + 1]) <= Len(FlattenSeq(s)) /\ Len(s[k + 1]) \in Nat
  <2> SUFFICES ASSUME k < Len(s)
               PROVE  Len(Pre(s, k)) + Len(s[k + 1]) <= Len(FlattenSeq(s)) /\ Len(s[k + 1]) \in Nat
    OBVIOUS
  <2>1. k \in 0..(Len(s) - 1)
    BY <1>2
  <2>2. /\ Len(Pre(s, k + 1)) = Len(Pre(s, k)) + Len(s[k + 1])
        /\ Len(Pre(s, k + 1)) <= Len(FlattenSeq(s)) /\ Len(s[k + 1]) \in Nat
    BY <1>2, <2>1, ChunkPlace
  <2> QED
    BY <2>2
<1>5. k = Len(s) => Len(Pre(s, k)) = Len(FlattenSeq(s))
  BY <1>2, PreSteps
<1>6. DataOf(r) = FlattenSeq(s) /\ Offset(r) = Len(Pre(s, k)) + b
      /\ Remaining(r) = Len(FlattenSeq(SubSeq(s, k + 1, Len(s)))) - b
      /\ (AtChunk(r) <=> k < Len(s))
  BY DEF DataOf, Offset, Remaining, AtChunk, Pre, s, k, b
<1>7. c \in Nat /\ (k < Len(s) => b <= c /\ Len(Pre(s, k)) + c <= Len(FlattenSeq(s)))
  BY <1>1, <1>4
<1> HIDE DEF c
<1>8. k \in Nat /\ b \in Nat /\ k <= Len(s) /\ (k = Len(s) => b = 0)
  BY <1>1
<1>9. /\ Len(Pre(s, k)) + b \in Nat /\ Len(Pre(s, k)) + b <= Len(FlattenSeq(s))
      /\ (Len(FlattenSeq(s)) - Len(Pre(s, k))) - b = Len(FlattenSeq(s)) - (Len(Pre(s, k)) + b)
      /\ ~(k < Len(s)) => Len(Pre(s, k)) + b = Len(FlattenSeq(s))
  BY <1>2, <1>3, <1>5, <1>7, <1>8, OffsetArithmetic
<1> QED
  BY <1>3, <1>6, <1>9

LEMMA PartIs ==
    ASSUME NEW d \in Seq(Nat), NEW o \in Nat, NEW k \in Nat, o + k <= Len(d)
    PROVE  /\ Part(d, o, k) \in Seq(Nat) /\ Len(Part(d, o, k)) = k
           /\ \A i \in 1..k : Part(d, o, k)[i] = d[o + i]
BY Slice DEF Part

\* d shows c after p bytes.
Shows(d, p, c) == p + Len(c) <= Len(d) /\ \A i \in 1..Len(c) : d[p + i] = c[i]

\* A part of d shows in d.
LEMMA PartShows ==
    ASSUME NEW d \in Seq(Nat), NEW o \in Nat, NEW k \in Nat, o + k <= Len(d)
    PROVE  Shows(d, o, Part(d, o, k))
BY PartIs DEF Shows

\* Where d shows c, a part of c is a part of d.
LEMMA Window ==
    ASSUME NEW d \in Seq(Nat), NEW c \in Seq(Nat), NEW p \in Nat, Shows(d, p, c),
           NEW b \in Nat, NEW k \in Nat, b + k <= Len(c), NEW o \in Nat, o = p + b
    PROVE  Part(c, b, k) = Part(d, o, k) /\ o + k <= Len(d)
<1>1. /\ Len(c) \in Nat /\ Len(d) \in Nat /\ p + Len(c) <= Len(d)
      /\ \A i \in 1..Len(c) : d[p + i] = c[i]
  BY LenProperties DEF Shows
<1>2. Len(c) \in Nat /\ b + k <= Len(c) /\ o + k <= Len(d)
  BY <1>1
<1> DEFINE y == Part(c, b, k)
           z == Part(d, o, k)
<1>3. y \in Seq(Nat) /\ Len(y) = k /\ \A i \in 1..k : y[i] = c[b + i]
  BY <1>2, PartIs
<1>4. z \in Seq(Nat) /\ Len(z) = k /\ \A i \in 1..k : z[i] = d[o + i]
  BY <1>2, PartIs
<1> HIDE DEF y, z
<1>5. ASSUME NEW i \in 1..k PROVE y[i] = z[i]
  <2>1. b + i \in 1..Len(c) /\ p + (b + i) = o + i
    BY <1>2
  <2>2. y[i] = c[b + i] /\ z[i] = d[o + i]
    BY <1>3, <1>4
  <2> DEFINE j == b + i
  <2>3. d[p + j] = c[j]
    <3>1. j \in 1..Len(c)
      BY <2>1
    <3> HIDE DEF j
    <3> QED
      BY <1>1, <3>1
  <2> QED
    BY <2>1, <2>2, <2>3
<1>6. y = z
  BY <1>3, <1>4, <1>5, SeqEqual
<1> QED
  BY <1>2, <1>6 DEF y, z

\* What is left of the chunk at the cursor are the bytes ahead.
LEMMA ChunkAhead ==
    ASSUME NEW r \in Readers, AtChunk(r)
    PROVE  /\ ChunkOf(r) \in Seq(Nat) /\ Len(ChunkOf(r)) \in Nat /\ Len(ChunkOf(r)) > 0
           /\ r.byte \in Nat /\ r.byte <= Len(ChunkOf(r))
           /\ RestOf(r) \in Seq(Nat) /\ Len(RestOf(r)) = Len(ChunkOf(r)) - r.byte
           /\ Offset(r) + Len(RestOf(r)) <= Len(DataOf(r))
           /\ \A k \in 0..Len(RestOf(r)) :
                  /\ SubSeq(RestOf(r), 1, k) = Ahead(r, k)
                  /\ ChunkView(ChunkOf(r), r.byte, r.byte + k) = Ahead(r, k)
                  /\ Ahead(r, k) \in Seq(Nat) /\ Len(Ahead(r, k)) = k
<1> DEFINE s == r.chunks
           sl == r.slice
           b == r.byte
           c == ChunkOf(r)
           d == DataOf(r)
           p == Len(Pre(s, sl))
           o == Offset(r)
           e == RestOf(r)
<1>1. /\ s \in Seq(Chunk) /\ sl \in Nat /\ b \in Nat /\ sl < Len(s)
      /\ b <= Len(c) /\ c = s[sl + 1]
  BY DEF Readers, AtChunk, ChunkOf
<1>2. o = p + b /\ d = FlattenSeq(s)
  BY DEF Offset, Pre, DataOf
<1>3. d \in Seq(Nat) /\ Len(d) \in Nat /\ o \in Nat
  BY OffsetIn
<1>4. e = SubSeq(c, b + 1, Len(c))
  BY DEF RestOf
<1>5. \A k : Ahead(r, k) = Part(d, o, k) /\ ChunkView(c, b, b + k) = Part(c, b, k)
  BY DEF Ahead, ChunkView, Part
<1> SUFFICES
      /\ c \in Seq(Nat) /\ Len(c) \in Nat /\ Len(c) > 0 /\ b \in Nat /\ b <= Len(c)
      /\ e \in Seq(Nat) /\ Len(e) = Len(c) - b /\ o + Len(e) <= Len(d)
      /\ \A k \in 0..Len(e) :
             /\ SubSeq(e, 1, k) = Part(d, o, k) /\ Part(c, b, k) = Part(d, o, k)
             /\ Part(d, o, k) \in Seq(Nat) /\ Len(Part(d, o, k)) = k
  BY <1>5
<1> HIDE DEF s, sl, b, c, d, o, e
<1>6. /\ s \in Seq(Seq(Nat)) /\ Len(s) \in Nat /\ c \in Seq(Nat)
      /\ Len(c) \in Nat /\ Len(c) > 0 /\ sl \in 0..(Len(s) - 1)
  <2>1. Len(s) \in Nat
    BY <1>1, ChunkSeqs
  <2>2. sl + 1 \in 1..Len(s) /\ sl \in 0..(Len(s) - 1)
    BY <1>1, <2>1
  <2> QED
    BY <1>1, <2>1, <2>2, ChunkSeqs
<1>7. c \in Seq(Nat) /\ Len(c) \in Nat /\ b \in Nat /\ b <= Len(c)
  BY <1>1, <1>6
<1>8. p \in Nat /\ Shows(d, p, c)
  <2>1. /\ Len(Pre(s, sl + 1)) = p + Len(c) /\ p \in Nat
        /\ Len(Pre(s, sl + 1)) <= Len(d)
        /\ \A i \in 1..Len(c) : d[p + i] = c[i]
    BY <1>1, <1>2, <1>6, ChunkPlace
  <2> QED
    BY <2>1 DEF Shows
<1> HIDE DEF p
<1> DEFINE n == Len(c) - b
<1>9. n \in Nat /\ b + n = Len(c)
  BY <1>7
<1>10. e = Part(c, b, n)
  BY <1>4, <1>9 DEF Part
<1> HIDE DEF n
<1>11. e \in Seq(Nat) /\ Len(e) = n /\ Shows(c, b, e) /\ e = Part(d, o, n) /\ o + n <= Len(d)
  <2>1. b + n <= Len(c)
    BY <1>7, <1>9
  <2>2. Part(c, b, n) \in Seq(Nat) /\ Len(Part(c, b, n)) = n /\ Shows(c, b, Part(c, b, n))
    BY <1>7, <1>9, <2>1, PartIs, PartShows
  <2>3. Part(c, b, n) = Part(d, o, n) /\ o + n <= Len(d)
    BY <1>2, <1>3, <1>7, <1>8, <1>9, <2>1, Window
  <2> QED
    BY <1>10, <2>2, <2>3
<1>12. ASSUME NEW k \in 0..n
       PROVE  /\ SubSeq(e, 1, k) = Part(d, o, k) /\ Part(c, b, k) = Part(d, o, k)
              /\ Part(d, o, k) \in Seq(Nat) /\ Len(Part(d, o, k)) = k
  <2>1. /\ k \in Nat /\ 0 + k <= Len(e) /\ b + k <= Len(c) /\ 0 \in Nat /\ b = b + 0
        /\ SubSeq(e, 1, k) = SubSeq(e, 0 + 1, 0 + k)
    BY <1>7, <1>9, <1>11
  <2>2. Part(c, b, k) = Part(d, o, k) /\ o + k <= Len(d)
    BY <1>2, <1>3, <1>7, <1>8, <2>1, Window
  <2>3. Part(e, 0, k) = Part(c, b, k)
    BY <1>7, <1>11, <2>1, Window
  <2>4. SubSeq(e, 1, k) = Part(e, 0, k)
    BY <2>1 DEF Part
  <2>5. Part(d, o, k) \in Seq(Nat) /\ Len(Part(d, o, k)) = k
    BY <1>3, <2>1, <2>2, PartIs
  <2> QED
    BY <2>2, <2>3, <2>4, <2>5
<1>13. \A k \in 0..Len(e) :
             /\ SubSeq(e, 1, k) = Part(d, o, k) /\ Part(c, b, k) = Part(d, o, k)
             /\ Part(d, o, k) \in Seq(Nat) /\ Len(Part(d, o, k)) = k
  BY <1>11, <1>12
<1>14. Len(e) = Len(c) - b /\ o + Len(e) <= Len(d)
  BY <1>11 DEF n
<1> QED
  BY <1>6, <1>7, <1>11, <1>13, <1>14

\* Forward within the chunk at the cursor, and never left at its end.
LEMMA Advances ==
    ASSUME NEW r \in Readers, AtChunk(r), NEW k \in 0..Len(RestOf(r))
    PROVE  /\ Advance(r, k) \in Readers /\ Advance(r, k).chunks = r.chunks
           /\ Offset(Advance(r, k)) = Offset(r) + k
           /\ Firm(Advance(r, k))
           /\ IF k = Len(RestOf(r)) THEN Advance(r, k).slice = r.slice + 1
              ELSE Advance(r, k).slice = r.slice
<1> DEFINE s == r.chunks
           sl == r.slice
           b == r.byte
           c == ChunkOf(r)
           a == Advance(r, k)
<1>1. /\ s \in Seq(Chunk) /\ sl \in Nat /\ b \in Nat /\ sl < Len(s) /\ c = s[sl + 1]
  BY DEF Readers, AtChunk, ChunkOf
<1>2. /\ Len(c) \in Nat /\ b <= Len(c) /\ Len(RestOf(r)) = Len(c) - b
  BY ChunkAhead
<1>3. a = IF b + k = Len(c) THEN [r EXCEPT !.slice = @ + 1, !.byte = 0]
          ELSE [r EXCEPT !.byte = @ + k]
  BY DEF Advance
<1>4. r \in [chunks : Seq(Chunk), slice : Nat, byte : Nat]
  BY DEF Readers
<1>5. Offset(r) = Len(Pre(s, sl)) + b /\ Offset(a) = Len(Pre(a.chunks, a.slice)) + a.byte
  BY DEF Offset, Pre
<1>6. /\ a \in [chunks : Seq(Chunk), slice : Nat, byte : Nat] /\ a.chunks = s
      /\ b + k = Len(c) => a.slice = sl + 1 /\ a.byte = 0
      /\ b + k # Len(c) => a.slice = sl /\ a.byte = b + k
  <2>1. CASE b + k = Len(c)
    <3>1. a = [r EXCEPT !.slice = sl + 1, !.byte = 0] /\ sl + 1 \in Nat
      BY <1>1, <1>3, <2>1
    <3> HIDE DEF a, sl, b, c
    <3> QED
      BY <1>4, <2>1, <3>1 DEF s
  <2>2. CASE b + k # Len(c)
    <3>1. a = [r EXCEPT !.byte = b + k] /\ b + k \in Nat
      BY <1>1, <1>3, <2>2
    <3> HIDE DEF a, b, c
    <3> QED
      BY <1>4, <2>2, <3>1 DEF s, sl
  <2> QED
    BY <2>1, <2>2
<1>7. /\ a \in Readers <=> /\ a.slice <= Len(s)
                           /\ a.slice < Len(s) => a.byte <= Len(s[a.slice + 1])
                           /\ a.slice = Len(s) => a.byte = 0
      /\ Firm(a) <=> (a.slice < Len(s) => a.byte < Len(s[a.slice + 1]))
  BY <1>6 DEF Readers, Firm, AtChunk, ChunkOf
<1> SUFFICES /\ a \in Readers /\ a.chunks = s /\ Offset(a) = Offset(r) + k /\ Firm(a)
             /\ (k = Len(RestOf(r)) => a.slice = sl + 1)
             /\ (k # Len(RestOf(r)) => a.slice = sl)
  OBVIOUS
<1> HIDE DEF s, sl, b, c, a
<1>8. Len(s) \in Nat /\ s \in Seq(Seq(Nat)) /\ \A i \in 1..Len(s) : Len(s[i]) \in Nat /\ Len(s[i]) > 0
  BY <1>1, ChunkSeqs
<1>9. Len(s) \in Nat /\ sl \in 0..(Len(s) - 1) /\ sl \in Nat /\ sl < Len(s) /\ sl # Len(s)
  BY <1>1, <1>8
<1>10. k \in Nat /\ b \in Nat /\ b + k <= Len(c) /\ (k = Len(RestOf(r)) <=> b + k = Len(c))
  BY <1>1, <1>2
<1>11. Len(Pre(s, sl + 1)) = Len(Pre(s, sl)) + Len(c) /\ Len(Pre(s, sl)) \in Nat
  BY <1>1, <1>8, <1>9, ChunkPlace
<1>12. CASE b + k = Len(c)
  <2>1. a.slice = sl + 1 /\ a.byte = 0
    BY <1>6, <1>12
  <2>2. a.slice < Len(s) => a.slice + 1 \in 1..Len(s)
    BY <1>9, <2>1
  <2>3. a.slice < Len(s) => 0 < Len(s[a.slice + 1]) /\ 0 <= Len(s[a.slice + 1])
    BY <1>8, <2>2
  <2>4. a \in Readers /\ Firm(a)
    BY <1>7, <1>9, <2>1, <2>3
  <2>5. Offset(a) = Len(Pre(s, sl + 1)) + 0
    BY <1>5, <1>6, <2>1
  <2>6. Offset(a) = Offset(r) + k
    <3>1. Offset(r) = Len(Pre(s, sl)) + b
      BY <1>5
    <3> QED
      BY <1>10, <1>11, <1>12, <2>5, <3>1
  <2> QED
    BY <1>6, <1>10, <1>12, <2>1, <2>4, <2>6
<1>13. CASE b + k # Len(c)
  <2>1. a.slice = sl /\ a.byte = b + k
    BY <1>6, <1>13
  <2>2. b + k <= Len(c) /\ b + k < Len(c)
    BY <1>2, <1>10, <1>13
  <2>3. a \in Readers /\ Firm(a)
    BY <1>1, <1>7, <1>9, <2>1, <2>2
  <2>4. Offset(a) = Len(Pre(s, sl)) + (b + k)
    BY <1>5, <1>6, <2>1
  <2>5. Offset(a) = Offset(r) + k
    <3>1. Offset(r) = Len(Pre(s, sl)) + b
      BY <1>5
    <3> QED
      BY <1>10, <1>11, <2>4, <3>1
  <2> QED
    BY <1>6, <1>10, <1>13, <2>1, <2>3, <2>5
<1> QED
  BY <1>12, <1>13

\* Adjacent parts make one.
Joins(d, o, j, p, k, l) ==
    /\ d \in Seq(Nat) /\ o \in Nat /\ j \in Nat /\ p \in Nat /\ k \in Nat /\ l \in Nat
    /\ p = o + j /\ l = j + k /\ p + k <= Len(d)
    => Part(d, o, j) \o Part(d, p, k) = Part(d, o, l)
LEMMA PartsJoin ==
    ASSUME NEW d, NEW o, NEW j, NEW p, NEW k, NEW l
    PROVE  Joins(d, o, j, p, k, l)
<1> SUFFICES ASSUME d \in Seq(Nat), o \in Nat, j \in Nat, p \in Nat, k \in Nat, l \in Nat,
                    p = o + j, l = j + k, p + k <= Len(d)
             PROVE  Part(d, o, j) \o Part(d, p, k) = Part(d, o, l)
  BY DEF Joins
<1> DEFINE m == o + 1
           n == p + k
<1>1. m \in 1..(Len(d) + 1) /\ p \in (m - 1)..Len(d) /\ n \in p..Len(d) /\ o + l = n
  BY LenProperties
<1>2. Part(d, o, j) = SubSeq(d, m, p) /\ Part(d, p, k) = SubSeq(d, p + 1, n)
  BY DEF Part
<1>3. Part(d, o, l) = SubSeq(d, m, n)
  BY <1>1 DEF Part
<1> HIDE DEF m, n
<1>4. SubSeq(d, m, p) \o SubSeq(d, p + 1, n) = SubSeq(d, m, n)
  BY <1>1, ConcatAdjacentSubSeq
<1> QED
  BY <1>2, <1>3, <1>4

LEMMA PartZero ==
    ASSUME NEW d, NEW o \in Nat
    PROVE  Part(d, o, 0) = <<>>
<1>1. o + 1 > o + 0
  OBVIOUS
<1> QED
  BY <1>1, SubSeqEmpty DEF Part

----------------------------------------------------------------------------
(* What a loop over the chunks has done: n of the m bytes asked for are to go *)

Gone(r, m, q, n) ==
    /\ q \in Readers /\ q.chunks = r.chunks
    /\ n \in 0..m /\ Offset(q) = Offset(r) + (m - n)

LEMMA GoneStarts ==
    ASSUME NEW r \in Readers, NEW m \in Nat
    PROVE  Gone(r, m, r, m) /\ Ahead(r, m - m) = <<>>
<1>1. Offset(r) \in Nat
  BY OffsetIn
<1>2. m - m = 0 /\ m \in 0..m /\ Offset(r) = Offset(r) + (m - m)
  BY <1>1
<1>3. Part(DataOf(r), Offset(r), 0) = <<>>
  BY <1>1, PartZero
<1> QED
  BY <1>2, <1>3 DEF Gone, Ahead

\* A turn of the loop, which takes what it can, k bytes of the chunk at the cursor.
Takes(r, m, q, n, k) ==
    /\ Gone(r, m, Advance(q, k), n - k)
    /\ k \in 0..Len(RestOf(q)) /\ k \in 0..n
    /\ Ahead(r, m - n) \o Ahead(q, k) = Ahead(r, m - (n - k))
    /\ Firm(Advance(q, k))
    /\ n = k \/ Advance(q, k).slice = q.slice + 1
    /\ SubSeq(RestOf(q), 1, k) = Ahead(q, k)
    /\ ChunkView(ChunkOf(q), q.byte, q.byte + k) = Ahead(q, k)
    /\ Ahead(q, k) \in Seq(Nat) /\ Len(Ahead(q, k)) = k
    /\ k = 0 => n = 0 \/ ~Firm(q)

LEMMA GoneTurn ==
    ASSUME NEW r \in Readers, NEW m \in Nat, NEW q, NEW n, Gone(r, m, q, n), AtChunk(q),
           NEW k, k = Least(n, Len(RestOf(q)))
    PROVE  Takes(r, m, q, n, k)
<1>1. /\ q \in Readers /\ q.chunks = r.chunks /\ n \in Nat /\ n <= m
      /\ Offset(q) = Offset(r) + (m - n)
  BY DEF Gone
<1>2. /\ Len(RestOf(q)) = Len(ChunkOf(q)) - q.byte /\ Offset(q) + Len(RestOf(q)) <= Len(DataOf(q))
      /\ Len(ChunkOf(q)) \in Nat /\ q.byte \in Nat /\ q.byte <= Len(ChunkOf(q))
  BY <1>1, ChunkAhead
<1>3. k \in Nat /\ k <= n /\ k <= Len(RestOf(q)) /\ (k = n \/ k = Len(RestOf(q)))
      /\ Len(RestOf(q)) \in Nat
  BY <1>1, <1>2 DEF Least
<1>4. k \in 0..Len(RestOf(q)) /\ k \in 0..n
  BY <1>1, <1>3
<1>5. /\ Advance(q, k) \in Readers /\ Advance(q, k).chunks = q.chunks
      /\ Offset(Advance(q, k)) = Offset(q) + k /\ Firm(Advance(q, k))
      /\ k = Len(RestOf(q)) => Advance(q, k).slice = q.slice + 1
  BY <1>1, <1>4, Advances
<1>6. /\ SubSeq(RestOf(q), 1, k) = Ahead(q, k)
      /\ ChunkView(ChunkOf(q), q.byte, q.byte + k) = Ahead(q, k)
      /\ Ahead(q, k) \in Seq(Nat) /\ Len(Ahead(q, k)) = k
  BY <1>1, <1>4, ChunkAhead
<1>7. DataOf(r) \in Seq(Nat) /\ Len(DataOf(r)) \in Nat /\ Offset(r) \in Nat /\ DataOf(q) = DataOf(r)
  BY <1>1, OffsetIn DEF DataOf
<1>8. /\ m - n \in Nat /\ Offset(r) + (m - n) + k <= Len(DataOf(r))
      /\ Offset(q) \in Nat /\ (m - n) + k = m - (n - k) /\ n - k \in 0..m
      /\ Offset(q) + k = Offset(r) + (m - (n - k))
  <2>1. n \in Nat /\ n <= m /\ k \in Nat /\ k <= n
    BY <1>1, <1>3
  <2>2. m - n \in Nat /\ (m - n) + k = m - (n - k) /\ n - k \in 0..m
    BY <2>1
  <2>3. Offset(q) = Offset(r) + (m - n) /\ Offset(r) \in Nat
    BY <1>1, <1>7
  <2>4. Offset(q) \in Nat /\ Offset(q) + k = Offset(r) + ((m - n) + k)
    BY SMTT(30), <2>1, <2>2, <2>3
  <2>5. Offset(q) + k <= Len(DataOf(r))
    <3>1. Offset(q) + Len(RestOf(q)) <= Len(DataOf(r)) /\ k <= Len(RestOf(q))
          /\ Len(RestOf(q)) \in Nat /\ Len(DataOf(r)) \in Nat
      BY <1>2, <1>3, <1>7
    <3> QED
      BY <2>1, <2>4, <3>1
  <2> QED
    BY <2>1, <2>2, <2>3, <2>4, <2>5
<1>9. Ahead(r, m - n) \o Ahead(q, k) = Ahead(r, m - (n - k))
  <2>1. Part(DataOf(r), Offset(r), m - n) \o Part(DataOf(r), Offset(q), k)
        = Part(DataOf(r), Offset(r), (m - n) + k)
    <3>1. /\ DataOf(r) \in Seq(Nat) /\ Offset(r) \in Nat /\ m - n \in Nat /\ k \in Nat
          /\ Offset(q) \in Nat /\ Offset(q) = Offset(r) + (m - n)
          /\ Offset(r) + (m - n) + k <= Len(DataOf(r))
      BY <1>1, <1>3, <1>7, <1>8
    <3> DEFINE j == m - n
               o == Offset(r)
               p == Offset(q)
               d == DataOf(r)
               l == j + k
    <3>2. /\ d \in Seq(Nat) /\ o \in Nat /\ j \in Nat /\ k \in Nat
          /\ p \in Nat /\ p = o + j /\ p + k <= Len(d) /\ l \in Nat /\ l = j + k
      BY <3>1
    <3> HIDE DEF j, o, p, d, l
    <3>3. Joins(d, o, j, p, k, l)
      BY PartsJoin
    <3>4. Part(d, o, j) \o Part(d, p, k) = Part(d, o, l)
      BY <3>2, <3>3 DEF Joins
    <3> QED
      BY <3>4 DEF j, o, p, d, l
  <2> QED
    BY <1>7, <1>8, <2>1 DEF Ahead
<1>10. Gone(r, m, Advance(q, k), n - k)
  BY <1>1, <1>5, <1>8 DEF Gone
<1>11. k = 0 => n = 0 \/ ~Firm(q)
  <2> SUFFICES ASSUME k = 0, n # 0 PROVE ~Firm(q)
    OBVIOUS
  <2>1. ~(q.byte < Len(ChunkOf(q)))
    BY <1>2, <1>3
  <2> QED
    BY <2>1 DEF Firm
<1> QED
  BY <1>3, <1>4, <1>5, <1>6, <1>9, <1>10, <1>11 DEF Takes

\* At the end of the loop: the bytes asked for, or what there was.
LEMMA GoneEnds ==
    ASSUME NEW r \in Readers, NEW m \in Nat, NEW q, NEW n, Gone(r, m, q, n),
           n = 0 \/ ~AtChunk(q)
    PROVE  /\ m - n = Least(m, Remaining(r)) /\ m - n \in Nat
           /\ n = 0 <=> m <= Remaining(r)
           /\ Offset(q) = Offset(r) + Least(m, Remaining(r))
           /\ n # 0 => Offset(q) = Len(DataOf(r))
<1>1. /\ q \in Readers /\ q.chunks = r.chunks /\ n \in Nat /\ n <= m
      /\ Offset(q) = Offset(r) + (m - n)
  BY DEF Gone
<1>2. /\ DataOf(q) = DataOf(r) /\ Len(DataOf(r)) \in Nat /\ Offset(r) \in Nat
      /\ Remaining(r) = Len(DataOf(r)) - Offset(r) /\ Offset(r) <= Len(DataOf(r))
      /\ Offset(q) <= Len(DataOf(r))
      /\ ~AtChunk(q) => Offset(q) = Len(DataOf(r))
  <2>1. DataOf(q) = DataOf(r)
    BY <1>1 DEF DataOf
  <2> QED
    BY <1>1, <2>1, OffsetIn
<1>3. CASE n = 0
  BY <1>1, <1>2, <1>3 DEF Least
<1>4. CASE n # 0
  <2>1. Offset(q) = Len(DataOf(r))
    BY <1>2, <1>4
  <2>2. m - n = Remaining(r) /\ ~(m <= Remaining(r))
    BY <1>1, <1>2, <1>4, <2>1
  <2> QED
    BY <1>1, <1>2, <1>4, <2>1, <2>2 DEF Least
<1> QED
  BY <1>3, <1>4

----------------------------------------------------------------------------
(* Loops *)

\* What a loop that starts in a makes of a set that its turns do not leave.
Turns(f, S, a, G) == f \in [Nat -> S] /\ f = [k \in Nat |-> IF k = 0 THEN a ELSE G[f[k - 1]]]

LEMMA TurnsExist ==
    ASSUME NEW S, NEW a \in S, NEW G \in [S -> S]
    PROVE  \E f : Turns(f, S, a, G)
<1> DEFINE H == [k \in Nat |-> G]
<1>1. H \in [Nat -> [S -> S]]
  OBVIOUS
<1>2. \A k \in Nat : H[k] = G
  OBVIOUS
<1> HIDE DEF H
<1>3. PICK f : Chain(f, S, a, H)
  BY <1>1, ChainExists, Zenon
<1>4. f \in [Nat -> S] /\ f[0] = a /\ \A k \in Nat : f[k + 1] = G[f[k]]
  BY <1>2, <1>3 DEF Chain
<1>5. ASSUME NEW k \in Nat PROVE f[k] = IF k = 0 THEN a ELSE G[f[k - 1]]
  <2>1. k # 0 => k - 1 \in Nat /\ (k - 1) + 1 = k
    OBVIOUS
  <2> QED
    BY <1>4, <2>1
<1>6. f = [k \in Nat |-> IF k = 0 THEN a ELSE G[f[k - 1]]]
  BY <1>4, <1>5
<1>7. Turns(f, S, a, G)
  BY <1>4, <1>6 DEF Turns
<1> QED
  BY <1>7

ReadStates(r, m) ==
    {s \in [r : Readers, n : Nat, on : BOOLEAN, data : Seq(Nat)] :
        /\ Gone(r, m, s.r, s.n) /\ s.data = Ahead(r, m - s.n)
        /\ ~s.on => s.n = 0 /\ Firm(s.r)}

ReadDone(s) == ~s.on \/ ~AtChunk(s.r)

LEMMA ReadTurns ==
    ASSUME NEW r \in Readers, NEW m \in Nat, NEW s \in ReadStates(r, m)
    PROVE  /\ ReadTurn(s) \in ReadStates(r, m)
           /\ ReadDone(s) => ReadTurn(s) = s
           /\ ~ReadDone(s) => ReadDone(ReadTurn(s)) \/ ReadTurn(s).r.slice = s.r.slice + 1
<1> DEFINE q == s.r
           n == s.n
           k == Least(n, Len(RestOf(q)))
           t == [r |-> Advance(q, k), n |-> n - k, on |-> n # k,
                 data |-> s.data \o SubSeq(RestOf(q), 1, k)]
<1>1. /\ q \in Readers /\ n \in Nat /\ s.data \in Seq(Nat) /\ Gone(r, m, q, n)
      /\ s.data = Ahead(r, m - n)
  BY DEF ReadStates
<1>2. ReadTurn(s) = IF ~s.on \/ ~AtChunk(q) THEN s ELSE t
  BY DEF ReadTurn
<1> HIDE DEF q, n
<1>3. CASE s.on /\ AtChunk(q)
  <2>0. k = Least(n, Len(RestOf(q)))
    OBVIOUS
  <2> HIDE DEF k
  <2>1. Takes(r, m, q, n, k)
    BY <1>1, <1>3, <2>0, GoneTurn
  <2>2. Advance(q, k) \in Readers /\ n - k \in Nat /\ (n # k) \in BOOLEAN /\ (n = k => n - k = 0)
    BY <1>1, <2>1 DEF Gone, Takes
  <2> DEFINE e == s.data \o SubSeq(RestOf(q), 1, k)
             l == n - k
             a == Advance(q, k)
             on == n # k
  <2>3. e \in Seq(Nat) /\ e = Ahead(r, m - l)
    BY <1>1, <2>1, ConcatProperties DEF Takes
  <2>4. t = [r |-> a, n |-> l, on |-> on, data |-> e]
    OBVIOUS
  <2>5. a \in Readers /\ l \in Nat /\ on \in BOOLEAN /\ Gone(r, m, a, l) /\ (~on => l = 0) /\ Firm(a)
    BY <2>1, <2>2 DEF Takes
  <2>6. ~on \/ a.slice = q.slice + 1
    BY <2>1 DEF Takes
  <2> HIDE DEF e, l, a, on, t
  <2>7. t \in ReadStates(r, m) /\ t.on = on /\ t.r = a
    BY <2>3, <2>4, <2>5 DEF ReadStates
  <2>8. ReadTurn(s) = t
    BY <1>2, <1>3
  <2> QED
    <3>1. ReadTurn(s) \in ReadStates(r, m) /\ ReadTurn(s).on = on /\ ReadTurn(s).r = a
      BY <2>7, <2>8
    <3>2. ~ReadTurn(s).on \/ ReadTurn(s).r.slice = q.slice + 1
      BY <2>6, <3>1
    <3> QED
      BY <1>3, <3>1, <3>2 DEF q, ReadDone
<1>4. CASE ~(s.on /\ AtChunk(q))
  BY <1>2, <1>4 DEF q, ReadDone
<1> QED
  BY <1>3, <1>4 DEF q

\* What an operation that reads gives: k bytes, and a cursor behind them.
Gives(r, a, k) ==
    /\ a.r \in Readers /\ a.r.chunks = r.chunks /\ Firm(a.r)
    /\ Offset(a.r) = Offset(r) + k
    /\ a.data = Ahead(r, k) /\ a.data \in Seq(Nat) /\ Len(a.data) = k

\* The bytes ahead, as many as there are.
LEMMA AheadIs ==
    ASSUME NEW r \in Readers, NEW k \in Nat, k <= Remaining(r)
    PROVE  /\ Ahead(r, k) \in Seq(Nat) /\ Len(Ahead(r, k)) = k
           /\ k = 0 <=> Ahead(r, k) = <<>>
<1>1. /\ DataOf(r) \in Seq(Nat) /\ Offset(r) \in Nat /\ Len(DataOf(r)) \in Nat
      /\ Remaining(r) = Len(DataOf(r)) - Offset(r)
  BY OffsetIn
<1>2. Offset(r) + k <= Len(DataOf(r))
  BY <1>1
<1>3. Ahead(r, k) \in Seq(Nat) /\ Len(Ahead(r, k)) = k
  BY <1>1, <1>2, PartIs DEF Ahead
<1> QED
  BY <1>3, EmptySeq

LEMMA LeastIs ==
    ASSUME NEW r \in Readers, NEW m \in Nat
    PROVE  /\ Least(m, Remaining(r)) \in Nat /\ Least(m, Remaining(r)) <= Remaining(r)
           /\ Least(m, Remaining(r)) <= m /\ Remaining(r) \in Nat
           /\ m <= Remaining(r) => Least(m, Remaining(r)) = m
           /\ ~(m <= Remaining(r)) => /\ Least(m, Remaining(r)) = Remaining(r)
                                      /\ Offset(r) + Remaining(r) = Len(DataOf(r))
<1>1. /\ Offset(r) \in Nat /\ Len(DataOf(r)) \in Nat /\ Offset(r) <= Len(DataOf(r))
      /\ Remaining(r) = Len(DataOf(r)) - Offset(r)
  BY OffsetIn
<1> QED
  BY <1>1 DEF Least

\* read: as many bytes as there are, at most m.
LEMMA ReadIs ==
    ASSUME NEW r \in Readers, NEW m \in Nat
    PROVE  /\ Gives(r, Read(r, m), Least(m, Remaining(r)))
           /\ Read(r, m).ok <=> Least(m, Remaining(r)) # 0
<1> DEFINE S == ReadStates(r, m)
           start == [r |-> r, n |-> m, on |-> TRUE, data |-> <<>>]
           after[k \in Nat] == IF k = 0 THEN start ELSE ReadTurn(after[k - 1])
           turns == Len(r.chunks)
           G == [s \in S |-> ReadTurn(s)]
<1>1. start \in S
  <2>1. Gone(r, m, r, m) /\ Ahead(r, m - m) = <<>>
    BY GoneStarts
  <2> QED
    BY <2>1 DEF ReadStates
<1>2. G \in [S -> S] /\ \A s \in S : G[s] = ReadTurn(s)
  BY ReadTurns
<1> HIDE DEF S, start, G
<1>3. PICK f : Turns(f, S, start, G)
  BY <1>1, <1>2, TurnsExist, Zenon
<1>4. f \in [Nat -> S] /\ f = [k \in Nat |-> IF k = 0 THEN start ELSE G[f[k - 1]]]
  BY <1>3 DEF Turns
<1>5. \A k \in Nat : k # 0 => k - 1 \in Nat /\ G[f[k - 1]] = ReadTurn(f[k - 1])
  BY <1>2, <1>4
<1>6. f = [k \in Nat |-> IF k = 0 THEN start ELSE ReadTurn(f[k - 1])]
  BY <1>4, <1>5
<1>7. after = [k \in Nat |-> IF k = 0 THEN start ELSE ReadTurn(after[k - 1])]
  BY <1>6
<1> HIDE DEF after
<1> DEFINE Far(k) == ReadDone(after[k]) \/ after[k].r.slice >= k
           T == {k \in Nat : after[k] \in S /\ Far(k)}
<1>8. \A s \in S : s.r \in Readers /\ s.r.slice \in Nat
  BY DEF S, ReadStates, Readers
<1>9. 0 \in T
  <2>1. after[0] = start
    BY <1>7
  <2>2. start.r.slice >= 0
    BY <1>1, <1>8
  <2> QED
    BY <1>1, <2>1, <2>2
<1>10. ASSUME NEW k \in Nat, k \in T PROVE k + 1 \in T
  <2> DEFINE s == after[k]
  <2>1. s \in S /\ Far(k)
    BY <1>10
  <2>2. after[k + 1] = ReadTurn(s)
    <3>1. k + 1 \in Nat /\ k + 1 # 0 /\ (k + 1) - 1 = k
      OBVIOUS
    <3> QED
      BY <1>7, <3>1
  <2>3. /\ ReadTurn(s) \in S
        /\ ReadDone(s) => ReadTurn(s) = s
        /\ ~ReadDone(s) => ReadDone(ReadTurn(s)) \/ ReadTurn(s).r.slice = s.r.slice + 1
    BY <2>1, ReadTurns DEF S
  <2>4. CASE ReadDone(s)
    BY <2>1, <2>2, <2>3, <2>4
  <2>5. CASE ~ReadDone(s)
    <3>1. s.r.slice >= k /\ s.r.slice \in Nat
      BY <1>8, <2>1, <2>5
    <3>2. ReadDone(ReadTurn(s)) \/ ReadTurn(s).r.slice >= k + 1
      BY <2>3, <2>5, <3>1
    <3> QED
      BY <2>2, <2>3, <3>2
  <2> QED
    BY <2>4, <2>5
<1> HIDE DEF T
<1>11. turns \in Nat
  BY LenProperties DEF Readers
<1>12. turns \in T
  BY <1>9, <1>10, <1>11, SetInduction
<1> DEFINE end == after[turns]
<1>13. end \in S /\ (ReadDone(end) \/ end.r.slice >= turns)
  BY <1>12 DEF T
<1>14. Read(r, m) = IF end.data = <<>> THEN Fail(end.r) ELSE Ok(end.data, end.r)
  BY DEF Read, Loop, after, start
<1> HIDE DEF end
<1>15. /\ end.r \in Readers /\ end.r.slice \in Nat /\ end.n \in Nat /\ end.data \in Seq(Nat)
       /\ Gone(r, m, end.r, end.n) /\ end.data = Ahead(r, m - end.n)
       /\ ~end.on => end.n = 0 /\ Firm(end.r)
  BY <1>8, <1>13 DEF S, ReadStates
<1>16. ~end.on \/ ~AtChunk(end.r)
  <2> SUFFICES ASSUME end.r.slice >= turns PROVE ~AtChunk(end.r)
    BY <1>13 DEF ReadDone
  <2>1. end.r.chunks = r.chunks
    BY <1>15 DEF Gone
  <2>2. ~(end.r.slice < turns)
    BY <1>11, <1>15
  <2> QED
    BY <2>1, <2>2 DEF AtChunk
<1>17. Firm(end.r) /\ (end.n = 0 \/ ~AtChunk(end.r))
  BY <1>15, <1>16 DEF Firm
<1>18. m - end.n = Least(m, Remaining(r)) /\ Offset(end.r) = Offset(r) + Least(m, Remaining(r))
  BY <1>15, <1>17, GoneEnds
<1> DEFINE k == Least(m, Remaining(r))
<1>19. k \in Nat /\ k <= Remaining(r) /\ m - end.n = k /\ Offset(end.r) = Offset(r) + k
  BY <1>18, LeastIs
<1> HIDE DEF k
<1>20. end.data = Ahead(r, k) /\ Len(end.data) = k /\ (k = 0 <=> end.data = <<>>)
  BY <1>15, <1>19, AheadIs
<1>21. Read(r, m).data = end.data /\ Read(r, m).r = end.r /\ (Read(r, m).ok <=> end.data # <<>>)
  BY <1>14 DEF Ok, Fail
<1> QED
  <2>1. end.r.chunks = r.chunks
    BY <1>15 DEF Gone
  <2>2. Gives(r, Read(r, m), k) /\ (Read(r, m).ok <=> k # 0)
    BY <1>15, <1>17, <1>19, <1>20, <1>21, <2>1 DEF Gives
  <2> QED
    BY <2>2 DEF k

----------------------------------------------------------------------------
(* Siphon and skip *)

SiphonStates(r, m) ==
    {s \in [r : Readers, n : Nat, data : Seq(Nat)] :
        /\ Gone(r, m, s.r, s.n) /\ s.data = Ahead(r, m - s.n)
        /\ Firm(s.r) \/ s = [r |-> r, n |-> m, data |-> <<>>]}
SiphonDone(s) == ~AtChunk(s.r) \/ Least(s.n, Len(RestOf(s.r))) = 0

LEMMA SiphonTurns ==
    ASSUME NEW r \in Readers, NEW m \in Nat, NEW s \in SiphonStates(r, m)
    PROVE  /\ SiphonTurn(s) \in SiphonStates(r, m)
           /\ SiphonDone(s) => SiphonTurn(s) = s
           /\ ~SiphonDone(s) => SiphonDone(SiphonTurn(s)) \/ SiphonTurn(s).r.slice = s.r.slice + 1
<1> DEFINE q == s.r
           n == s.n
           k == Least(n, Len(RestOf(q)))
           t == [r |-> Advance(q, k), n |-> n - k, data |-> s.data \o SubSeq(RestOf(q), 1, k)]
<1>1. /\ q \in Readers /\ n \in Nat /\ s.data \in Seq(Nat) /\ Gone(r, m, q, n)
      /\ s.data = Ahead(r, m - n)
  BY DEF SiphonStates
<1>2. SiphonTurn(s) = (IF SiphonDone(s) THEN s ELSE t) /\ (SiphonDone(s) <=> ~AtChunk(q) \/ k = 0)
  BY DEF SiphonTurn, SiphonDone
<1> HIDE DEF q, n
<1>3. CASE ~SiphonDone(s)
  <2>0. k = Least(n, Len(RestOf(q)))
    OBVIOUS
  <2> HIDE DEF k
  <2>1. Takes(r, m, q, n, k)
    BY <1>1, <1>2, <1>3, <2>0, GoneTurn
  <2>2. Advance(q, k) \in Readers /\ n - k \in Nat /\ (n = k => n - k = 0)
    BY <1>1, <2>1 DEF Gone, Takes
  <2> DEFINE e == s.data \o SubSeq(RestOf(q), 1, k)
             l == n - k
             a == Advance(q, k)
  <2>3. e \in Seq(Nat) /\ e = Ahead(r, m - l)
    BY <1>1, <2>1, ConcatProperties DEF Takes
  <2>4. t = [r |-> a, n |-> l, data |-> e]
    OBVIOUS
  <2>5. a \in Readers /\ l \in Nat /\ Gone(r, m, a, l) /\ Firm(a)
    BY <2>1, <2>2 DEF Takes
  <2>6. l = 0 \/ a.slice = q.slice + 1
    BY <2>1, <2>2 DEF Takes
  <2> HIDE DEF e, l, a, t
  <2>7. t \in SiphonStates(r, m) /\ t.n = l /\ t.r = a
    BY <2>3, <2>4, <2>5 DEF SiphonStates
  <2>8. SiphonTurn(s) = t
    BY <1>2, <1>3
  <2>9. l = 0 => SiphonDone(t)
    <3> SUFFICES ASSUME l = 0, AtChunk(a) PROVE Least(0, Len(RestOf(a))) = 0
      BY <2>7 DEF SiphonDone
    <3>1. Len(RestOf(a)) = Len(ChunkOf(a)) - a.byte /\ Len(ChunkOf(a)) \in Nat
          /\ a.byte \in Nat /\ a.byte <= Len(ChunkOf(a))
      BY <2>5, ChunkAhead
    <3> QED
      BY <3>1 DEF Least
  <2> QED
    BY <1>3, <2>6, <2>7, <2>8, <2>9 DEF q
<1>4. CASE SiphonDone(s)
  BY <1>2, <1>4
<1> QED
  BY <1>3, <1>4

\* siphon: as read, or nothing where the cursor is left at the end of a chunk.
LEMMA SiphonIs ==
    ASSUME NEW r \in Readers, NEW m \in Nat \ {0}
    PROVE  \/ /\ Gives(r, Siphon(r, m), Least(m, Remaining(r)))
              /\ Siphon(r, m).ok <=> Least(m, Remaining(r)) # 0
           \/ ~Firm(r) /\ Siphon(r, m) = Fail(r)
<1> DEFINE S == SiphonStates(r, m)
           start == [r |-> r, n |-> m, data |-> <<>>]
           after[k \in Nat] == IF k = 0 THEN start ELSE SiphonTurn(after[k - 1])
           turns == Len(r.chunks)
           G == [s \in S |-> SiphonTurn(s)]
<1>1. start \in S
  <2>1. Gone(r, m, r, m) /\ Ahead(r, m - m) = <<>>
    BY GoneStarts
  <2> QED
    BY <2>1 DEF SiphonStates
<1>2. G \in [S -> S] /\ \A s \in S : G[s] = SiphonTurn(s)
  BY SiphonTurns
<1> HIDE DEF S, start, G
<1>3. PICK f : Turns(f, S, start, G)
  BY <1>1, <1>2, TurnsExist, Zenon
<1>4. f \in [Nat -> S] /\ f = [k \in Nat |-> IF k = 0 THEN start ELSE G[f[k - 1]]]
  BY <1>3 DEF Turns
<1>5. \A k \in Nat : k # 0 => k - 1 \in Nat /\ G[f[k - 1]] = SiphonTurn(f[k - 1])
  BY <1>2, <1>4
<1>6. f = [k \in Nat |-> IF k = 0 THEN start ELSE SiphonTurn(f[k - 1])]
  BY <1>4, <1>5
<1>7. after = [k \in Nat |-> IF k = 0 THEN start ELSE SiphonTurn(after[k - 1])]
  BY <1>6
<1> HIDE DEF after
<1> DEFINE Far(k) == SiphonDone(after[k]) \/ after[k].r.slice >= k
           T == {k \in Nat : after[k] \in S /\ Far(k)}
<1>8. \A s \in S : s.r \in Readers /\ s.r.slice \in Nat
  BY DEF S, SiphonStates, Readers
<1>9. 0 \in T
  <2>1. after[0] = start
    BY <1>7
  <2>2. start.r.slice >= 0
    BY <1>1, <1>8
  <2> QED
    BY <1>1, <2>1, <2>2
<1>10. ASSUME NEW k \in Nat, k \in T PROVE k + 1 \in T
  <2> DEFINE s == after[k]
  <2>1. s \in S /\ Far(k)
    BY <1>10
  <2>2. after[k + 1] = SiphonTurn(s)
    <3>1. k + 1 \in Nat /\ k + 1 # 0 /\ (k + 1) - 1 = k
      OBVIOUS
    <3> QED
      BY <1>7, <3>1
  <2>3. /\ SiphonTurn(s) \in S
        /\ SiphonDone(s) => SiphonTurn(s) = s
        /\ ~SiphonDone(s) => SiphonDone(SiphonTurn(s)) \/ SiphonTurn(s).r.slice = s.r.slice + 1
    BY <2>1, SiphonTurns DEF S
  <2>4. CASE SiphonDone(s)
    BY <2>1, <2>2, <2>3, <2>4
  <2>5. CASE ~SiphonDone(s)
    <3>1. s.r.slice >= k /\ s.r.slice \in Nat
      BY <1>8, <2>1, <2>5
    <3>2. SiphonDone(SiphonTurn(s)) \/ SiphonTurn(s).r.slice >= k + 1
      BY <2>3, <2>5, <3>1
    <3> QED
      BY <2>2, <2>3, <3>2
  <2> QED
    BY <2>4, <2>5
<1> HIDE DEF T
<1>11. turns \in Nat
  BY LenProperties DEF Readers
<1>12. turns \in T
  BY <1>9, <1>10, <1>11, SetInduction
<1> DEFINE end == after[turns]
<1>13. end \in S /\ (SiphonDone(end) \/ end.r.slice >= turns)
  BY <1>12 DEF T
<1>14. Siphon(r, m) = IF end.data = <<>> THEN Fail(end.r) ELSE Ok(end.data, end.r)
  BY DEF Siphon, Loop, after, start
<1> HIDE DEF end
<1>16. SiphonDone(end)
  <2> SUFFICES ASSUME end.r.slice >= turns PROVE ~AtChunk(end.r)
    BY <1>13 DEF SiphonDone
  <2>1. end.r.chunks = r.chunks
    BY <1>13 DEF S, SiphonStates, Gone
  <2>2. end.r.slice \in Nat /\ ~(end.r.slice < turns)
    BY <1>8, <1>11, <1>13
  <2> QED
    BY <2>1, <2>2 DEF AtChunk
<1>17. /\ end.r \in Readers /\ end.n \in Nat /\ end.data \in Seq(Nat)
       /\ Gone(r, m, end.r, end.n) /\ end.data = Ahead(r, m - end.n)
       /\ Firm(end.r) \/ end = start
  BY <1>13 DEF S, SiphonStates, start
<1>18. CASE ~Firm(end.r)
  <2>1. end.r = r /\ end.data = <<>>
    BY <1>17, <1>18 DEF start
  <2> QED
    BY <1>14, <1>18, <2>1
<1>19. CASE Firm(end.r)
  <2>1. end.n = 0 \/ ~AtChunk(end.r)
    <3> SUFFICES ASSUME AtChunk(end.r) PROVE end.n = 0
      OBVIOUS
    <3>1. Least(end.n, Len(RestOf(end.r))) = 0
      BY <1>16 DEF SiphonDone
    <3>2. /\ Len(RestOf(end.r)) = Len(ChunkOf(end.r)) - end.r.byte /\ Len(ChunkOf(end.r)) \in Nat
          /\ end.r.byte \in Nat
      BY <1>17, ChunkAhead
    <3>3. end.r.byte < Len(ChunkOf(end.r))
      BY <1>19 DEF Firm
    <3> QED
      BY <1>17, <3>1, <3>2, <3>3 DEF Least
  <2>2. m - end.n = Least(m, Remaining(r)) /\ Offset(end.r) = Offset(r) + Least(m, Remaining(r))
    BY <1>17, <2>1, GoneEnds
  <2> DEFINE k == Least(m, Remaining(r))
  <2>3. k \in Nat /\ k <= Remaining(r) /\ m - end.n = k /\ Offset(end.r) = Offset(r) + k
    BY <2>2, LeastIs
  <2> HIDE DEF k
  <2>4. end.data = Ahead(r, k) /\ Len(end.data) = k /\ (k = 0 <=> end.data = <<>>)
    BY <1>17, <2>3, AheadIs
  <2>5. Siphon(r, m).data = end.data /\ Siphon(r, m).r = end.r /\ (Siphon(r, m).ok <=> end.data # <<>>)
    BY <1>14 DEF Ok, Fail
  <2>6. end.r.chunks = r.chunks
    BY <1>17 DEF Gone
  <2>7. Gives(r, Siphon(r, m), k) /\ (Siphon(r, m).ok <=> k # 0)
    BY <1>17, <1>19, <2>3, <2>4, <2>5, <2>6 DEF Gives
  <2> QED
    BY <2>7 DEF k
<1> QED
  BY <1>18, <1>19

SkipStates(r, m) ==
    {s \in [r : Readers, n : Nat] : Gone(r, m, s.r, s.n) /\ (Firm(s.r) \/ s = [r |-> r, n |-> m])}
SkipDone(s) == s.n = 0 \/ ~AtChunk(s.r)

LEMMA SkipTurns ==
    ASSUME NEW r \in Readers, NEW m \in Nat, NEW s \in SkipStates(r, m)
    PROVE  /\ SkipTurn(s) \in SkipStates(r, m)
           /\ SkipDone(s) => SkipTurn(s) = s
           /\ ~SkipDone(s) => SkipDone(SkipTurn(s)) \/ SkipTurn(s).r.slice = s.r.slice + 1
<1> DEFINE q == s.r
           n == s.n
           k == Least(n, Len(RestOf(q)))
           t == [r |-> Advance(q, k), n |-> n - k]
<1>1. q \in Readers /\ n \in Nat /\ Gone(r, m, q, n)
  BY DEF SkipStates
<1>2. SkipTurn(s) = (IF SkipDone(s) THEN s ELSE t) /\ (SkipDone(s) <=> n = 0 \/ ~AtChunk(q))
  BY DEF SkipTurn, SkipDone
<1> HIDE DEF q, n
<1>3. CASE ~SkipDone(s)
  <2>0. k = Least(n, Len(RestOf(q)))
    OBVIOUS
  <2> HIDE DEF k
  <2>1. Takes(r, m, q, n, k)
    BY <1>1, <1>2, <1>3, <2>0, GoneTurn
  <2>2. Advance(q, k) \in Readers /\ n - k \in Nat /\ (n = k => n - k = 0)
    BY <1>1, <2>1 DEF Gone, Takes
  <2> DEFINE l == n - k
             a == Advance(q, k)
  <2>4. t = [r |-> a, n |-> l]
    OBVIOUS
  <2>5. a \in Readers /\ l \in Nat /\ Gone(r, m, a, l) /\ Firm(a)
    BY <2>1, <2>2 DEF Takes
  <2>6. l = 0 \/ a.slice = q.slice + 1
    BY <2>1, <2>2 DEF Takes
  <2> HIDE DEF l, a, t
  <2>7. t \in SkipStates(r, m) /\ t.n = l /\ t.r = a
    BY <2>4, <2>5 DEF SkipStates
  <2>8. SkipTurn(s) = t
    BY <1>2, <1>3
  <2>9. l = 0 => SkipDone(t)
    BY <2>7 DEF SkipDone
  <2> QED
    BY <1>3, <2>6, <2>7, <2>8, <2>9 DEF q
<1>4. CASE SkipDone(s)
  BY <1>2, <1>4
<1> QED
  BY <1>3, <1>4

\* skip: m bytes, or to the end if there are not so many.
LEMMA SkipIs ==
    ASSUME NEW r \in Readers, NEW m \in Nat, m # 0 \/ Firm(r)
    PROVE  /\ Skip(r, m).r \in Readers /\ Skip(r, m).r.chunks = r.chunks /\ Firm(Skip(r, m).r)
           /\ Offset(Skip(r, m).r) = Offset(r) + Least(m, Remaining(r))
           /\ Skip(r, m).ok <=> m <= Remaining(r)
           /\ Skip(r, m).ok \in BOOLEAN /\ Skip(r, m).data = <<>>
<1> DEFINE S == SkipStates(r, m)
           start == [r |-> r, n |-> m]
           after[k \in Nat] == IF k = 0 THEN start ELSE SkipTurn(after[k - 1])
           turns == Len(r.chunks)
           G == [s \in S |-> SkipTurn(s)]
<1>1. start \in S
  BY GoneStarts DEF SkipStates
<1>2. G \in [S -> S] /\ \A s \in S : G[s] = SkipTurn(s)
  BY SkipTurns
<1> HIDE DEF S, start, G
<1>3. PICK f : Turns(f, S, start, G)
  BY <1>1, <1>2, TurnsExist, Zenon
<1>4. f \in [Nat -> S] /\ f = [k \in Nat |-> IF k = 0 THEN start ELSE G[f[k - 1]]]
  BY <1>3 DEF Turns
<1>5. \A k \in Nat : k # 0 => k - 1 \in Nat /\ G[f[k - 1]] = SkipTurn(f[k - 1])
  BY <1>2, <1>4
<1>6. f = [k \in Nat |-> IF k = 0 THEN start ELSE SkipTurn(f[k - 1])]
  BY <1>4, <1>5
<1>7. after = [k \in Nat |-> IF k = 0 THEN start ELSE SkipTurn(after[k - 1])]
  BY <1>6
<1> HIDE DEF after
<1> DEFINE Far(k) == SkipDone(after[k]) \/ after[k].r.slice >= k
           T == {k \in Nat : after[k] \in S /\ Far(k)}
<1>8. \A s \in S : s.r \in Readers /\ s.r.slice \in Nat
  BY DEF S, SkipStates, Readers
<1>9. 0 \in T
  <2>1. after[0] = start
    BY <1>7
  <2>2. start.r.slice >= 0
    BY <1>1, <1>8
  <2> QED
    BY <1>1, <2>1, <2>2
<1>10. ASSUME NEW k \in Nat, k \in T PROVE k + 1 \in T
  <2> DEFINE s == after[k]
  <2>1. s \in S /\ Far(k)
    BY <1>10
  <2>2. after[k + 1] = SkipTurn(s)
    <3>1. k + 1 \in Nat /\ k + 1 # 0 /\ (k + 1) - 1 = k
      OBVIOUS
    <3> QED
      BY <1>7, <3>1
  <2>3. /\ SkipTurn(s) \in S
        /\ SkipDone(s) => SkipTurn(s) = s
        /\ ~SkipDone(s) => SkipDone(SkipTurn(s)) \/ SkipTurn(s).r.slice = s.r.slice + 1
    BY <2>1, SkipTurns DEF S
  <2>4. CASE SkipDone(s)
    BY <2>1, <2>2, <2>3, <2>4
  <2>5. CASE ~SkipDone(s)
    <3>1. s.r.slice >= k /\ s.r.slice \in Nat
      BY <1>8, <2>1, <2>5
    <3>2. SkipDone(SkipTurn(s)) \/ SkipTurn(s).r.slice >= k + 1
      BY <2>3, <2>5, <3>1
    <3> QED
      BY <2>2, <2>3, <3>2
  <2> QED
    BY <2>4, <2>5
<1> HIDE DEF T
<1>11. turns \in Nat
  BY LenProperties DEF Readers
<1>12. turns \in T
  BY <1>9, <1>10, <1>11, SetInduction
<1> DEFINE end == after[turns]
<1>13. end \in S /\ (SkipDone(end) \/ end.r.slice >= turns)
  BY <1>12 DEF T
<1>14. Skip(r, m) = IF end.n = 0 THEN Ok(<<>>, end.r) ELSE Fail(end.r)
  BY DEF Skip, Moved, Loop, after, start
<1> HIDE DEF end
<1>16. SkipDone(end)
  <2> SUFFICES ASSUME end.r.slice >= turns PROVE ~AtChunk(end.r)
    BY <1>13 DEF SkipDone
  <2>1. end.r.chunks = r.chunks
    BY <1>13 DEF S, SkipStates, Gone
  <2>2. end.r.slice \in Nat /\ ~(end.r.slice < turns)
    BY <1>8, <1>11, <1>13
  <2> QED
    BY <2>1, <2>2 DEF AtChunk
<1>17. /\ end.r \in Readers /\ end.n \in Nat /\ Gone(r, m, end.r, end.n)
       /\ Firm(end.r) \/ end = start
  BY <1>13 DEF S, SkipStates, start
<1>18. Firm(end.r)
  <2> SUFFICES ASSUME end = start, m # 0 PROVE Firm(end.r)
    BY <1>17 DEF start
  <2>1. end.n = m /\ end.r = r
    BY DEF start
  <2>2. ~AtChunk(end.r)
    BY <1>16, <2>1 DEF SkipDone
  <2> QED
    BY <2>2 DEF Firm
<1>19. /\ Offset(end.r) = Offset(r) + Least(m, Remaining(r))
       /\ end.n = 0 <=> m <= Remaining(r)
  BY <1>16, <1>17, GoneEnds DEF SkipDone
<1>20. end.r.chunks = r.chunks
  BY <1>17 DEF Gone
<1>21. /\ Skip(r, m).data = <<>> /\ Skip(r, m).r = end.r /\ Skip(r, m).ok \in BOOLEAN
       /\ Skip(r, m).ok <=> end.n = 0
  BY <1>14 DEF Ok, Fail
<1> QED
  BY <1>17, <1>18, <1>19, <1>20, <1>21

----------------------------------------------------------------------------
(* Bytes: a SingleOrVec of chunks, none of them empty *)

Vecs == {v \in [kind : {"vec", "single"}, items : Seq(Chunk), grown : BOOLEAN] :
    /\ v.kind = "single" => Len(v.items) = 1
    /\ v.kind = "vec" /\ ~v.grown => v.items = <<>>}

\* What follows from the kind of a container is as well true of the reader of its items.
LEMMA ReaderIs ==
    ASSUME NEW v \in Vecs
    PROVE  /\ Reader(v) \in Readers /\ Firm(Reader(v)) /\ Offset(Reader(v)) = 0
           /\ DataOf(Reader(v)) = Content(v) /\ Reader(v).chunks = v.items
           /\ Content(v) \in Seq(Nat) /\ LenOf(v) \in Nat /\ Remaining(Reader(v)) = LenOf(v)
           /\ v.items \in Seq(Chunk)
<1> DEFINE r == Reader(v)
           s == v.items
<1>1. s \in Seq(Chunk) /\ r = [chunks |-> s, slice |-> 0, byte |-> 0]
  BY DEF Vecs, Reader
<1> HIDE DEF s, r
<1>2. Len(s) \in Nat /\ s \in Seq(Seq(Nat)) /\ \A k \in 1..Len(s) : Len(s[k]) \in Nat /\ Len(s[k]) > 0
  BY <1>1, ChunkSeqs
<1>3. 0 < Len(s) => Len(s[0 + 1]) \in Nat /\ 0 < Len(s[0 + 1])
  <2>1. 0 < Len(s) => 0 + 1 \in 1..Len(s)
    BY <1>2
  <2> QED
    BY <1>2, <2>1
<1>4. r.chunks = s /\ r.slice = 0 /\ r.byte = 0
  BY <1>1
<1>5. Len(s) \in Nat
  BY <1>2
<1>6. r \in Readers /\ Firm(r)
  BY <1>1, <1>3, <1>4, <1>5 DEF Readers, Firm, AtChunk, ChunkOf
<1>7. Offset(r) = 0
  <2>1. Offset(r) = Len(Pre(s, 0)) + 0
    BY <1>4 DEF Offset, Pre
  <2>2. Pre(s, 0) = <<>> /\ Len(<<>>) = 0
    BY <1>2, PreSteps
  <2> QED
    BY <2>1, <2>2
<1>8. DataOf(r) = FlattenSeq(s) /\ Content(v) = FlattenSeq(s) /\ LenOf(v) = Len(FlattenSeq(s))
  BY <1>4 DEF DataOf, Content, LenOf, s
<1>9. FlattenSeq(s) \in Seq(Nat) /\ Len(FlattenSeq(s)) \in Nat
  BY <1>6, <1>8, OffsetIn
<1>10. Remaining(r) = Len(FlattenSeq(s)) - 0
  BY <1>6, <1>7, <1>8, OffsetIn
<1> QED
  BY <1>1, <1>4, <1>6, <1>7, <1>8, <1>9, <1>10 DEF r, s

\* The content of one chunk more is longer by that chunk.
LEMMA FlattenAppend ==
    ASSUME NEW s \in Seq(Seq(Nat)), NEW c \in Seq(Nat)
    PROVE  FlattenSeq(Append(s, c)) = FlattenSeq(s) \o c /\ FlattenSeq(<<c>>) = c
<1> DEFINE t == <<c>>
<1>1. t \in Seq(Seq(Nat)) /\ Len(t) = 1 /\ t[1] = c
  OBVIOUS
<1>2. FlattenSeq(t) = c
  <2> HIDE DEF t
  <2>1. 1 \in 1..Len(t) /\ 1 - 1 = 0
    BY <1>1
  <2>2. FlattenSeq(t) = Pre(t, 1) /\ Pre(t, 0) = <<>> /\ Pre(t, 1) = Pre(t, 1 - 1) \o t[1]
    BY <1>1, <2>1, PreSteps
  <2>3. Pre(t, 1) = <<>> \o c
    BY <1>1, <2>1, <2>2
  <2> QED
    BY <2>2, <2>3, ConcatEmptySeq
<1>3. Append(s, c) = s \o t
  BY AppendIsConcat
<1> HIDE DEF t
<1>4. FlattenSeq(s \o t) = FlattenSeq(s) \o FlattenSeq(t)
  BY <1>1, FlattenConcat
<1> QED
  BY <1>2, <1>3, <1>4 DEF t

LEMMA NoBytesIs == NoBytes \in Vecs /\ Content(NoBytes) = <<>> /\ NoBytes.items = <<>>
<1>1. NoBytes = [kind |-> "vec", items |-> <<>>, grown |-> FALSE]
  BY DEF NoBytes, EmptyVec
<1>2. NoBytes \in Vecs
  BY <1>1 DEF Vecs
<1>3. <<>> \in Seq(Seq(Nat)) /\ Len(<<>>) = 0
  OBVIOUS
<1>4. FlattenSeq(<<>>) = Pre(<<>>, Len(<<>>)) /\ Pre(<<>>, 0) = <<>>
  BY <1>3, PreSteps
<1> QED
  BY <1>1, <1>2, <1>3, <1>4 DEF Content

LEMMA SingleIs ==
    ASSUME NEW c \in Chunk
    PROVE  Single(c) \in Vecs /\ Content(Single(c)) = c /\ Single(c).items = <<c>>
<1>1. c \in Seq(Nat) /\ <<>> \in Seq(Seq(Nat))
  BY DEF Chunk
<1>2. FlattenSeq(<<c>>) = c
  BY <1>1, FlattenAppend
<1>3. <<c>> \in Seq(Chunk) /\ Len(<<c>>) = 1
  OBVIOUS
<1> QED
  BY <1>2, <1>3 DEF Single, Vecs, Content

\* A chunk that is pushed is the last; an empty one is left out.
LEMMA PushIs ==
    ASSUME NEW v \in Vecs, NEW c \in Seq(Nat)
    PROVE  PushChunk(v, c) \in Vecs /\ Content(PushChunk(v, c)) = Content(v) \o c
<1>1. /\ v.kind \in {"vec", "single"} /\ v.items \in Seq(Chunk) /\ v.grown \in BOOLEAN
      /\ v.kind = "vec" /\ ~v.grown => v.items = <<>>
  BY DEF Vecs
<1>2. v.items \in Seq(Seq(Nat)) /\ Content(v) = FlattenSeq(v.items) /\ Content(v) \in Seq(Nat)
  BY <1>1, ChunkSeqs, ReaderIs DEF Content
<1>3. CASE c = <<>>
  BY <1>2, <1>3, ConcatEmptySeq DEF PushChunk
<1>4. CASE c # <<>> /\ v.kind = "vec" /\ ~v.grown
  <2>1. c \in Chunk /\ PushChunk(v, c) = Single(c)
    BY <1>4 DEF PushChunk, PushItem, Chunk
  <2>2. Content(v) = <<>>
    BY <1>1, <1>4, NoBytesIs DEF Content
  <2> QED
    BY <2>1, <2>2, SingleIs, ConcatEmptySeq DEF Chunk
<1>5. CASE c # <<>> /\ ~(v.kind = "vec" /\ ~v.grown)
  <2>1. c \in Chunk /\ PushChunk(v, c) = [kind |-> "vec", items |-> Append(v.items, c), grown |-> TRUE]
    BY <1>5 DEF PushChunk, PushItem, Chunk
  <2>2. Append(v.items, c) \in Seq(Chunk)
    BY <1>1, <2>1, AppendProperties
  <2>3. PushChunk(v, c) \in Vecs /\ PushChunk(v, c).items = Append(v.items, c)
    BY <2>1, <2>2 DEF Vecs
  <2>4. FlattenSeq(Append(v.items, c)) = FlattenSeq(v.items) \o c
    BY <1>2, FlattenAppend
  <2> QED
    BY <1>2, <2>3, <2>4 DEF Content
<1> QED
  BY <1>3, <1>4, <1>5

----------------------------------------------------------------------------
(* read_chunks and the other reading operations *)

ViewsStates(r, m) ==
    {s \in [r : Readers, n : Nat, data : Vecs] :
        /\ Gone(r, m, s.r, s.n) /\ Content(s.data) = Ahead(r, m - s.n)
        /\ Firm(s.r) \/ s = [r |-> r, n |-> m, data |-> NoBytes]}
ViewsDone(s) == s.n = 0

LEMMA ViewsTurns ==
    ASSUME NEW r \in Readers, NEW m \in Nat, m <= Remaining(r), NEW s \in ViewsStates(r, m)
    PROVE  /\ ViewsTurn(s) \in ViewsStates(r, m)
           /\ ViewsDone(s) => ViewsTurn(s) = s
           /\ ~ViewsDone(s) => ViewsDone(ViewsTurn(s)) \/ ViewsTurn(s).r.slice = s.r.slice + 1
           /\ ~ViewsDone(s) => AtChunk(s.r)
<1> DEFINE q == s.r
           n == s.n
           k == Least(n, Len(RestOf(q)))
           c == ChunkView(ChunkOf(q), q.byte, q.byte + k)
           t == [r |-> Advance(q, k), n |-> n - k, data |-> PushChunk(s.data, c)]
<1>1. /\ q \in Readers /\ n \in Nat /\ s.data \in Vecs /\ Gone(r, m, q, n)
      /\ Content(s.data) = Ahead(r, m - n)
  BY DEF ViewsStates
<1>2. ViewsTurn(s) = (IF ViewsDone(s) THEN s ELSE t) /\ (ViewsDone(s) <=> n = 0)
  BY DEF ViewsTurn, ViewsDone
<1> HIDE DEF q, n
<1>3. CASE ~ViewsDone(s)
  <2>a. AtChunk(q)
    <3> SUFFICES ASSUME ~AtChunk(q) PROVE FALSE
      OBVIOUS
    <3>1. n = 0 <=> m <= Remaining(r)
      BY <1>1, GoneEnds
    <3> QED
      BY <1>2, <1>3, <3>1
  <2>0. k = Least(n, Len(RestOf(q)))
    OBVIOUS
  <2> HIDE DEF k
  <2>1. Takes(r, m, q, n, k)
    BY <1>1, <2>a, <2>0, GoneTurn
  <2>2. Advance(q, k) \in Readers /\ n - k \in Nat /\ (n = k => n - k = 0)
    BY <1>1, <2>1 DEF Gone, Takes
  <2> DEFINE e == PushChunk(s.data, c)
             l == n - k
             a == Advance(q, k)
  <2>3. e \in Vecs /\ Content(e) = Ahead(r, m - l)
    <3>1. c = Ahead(q, k) /\ c \in Seq(Nat)
      BY <2>1 DEF Takes
    <3> HIDE DEF c
    <3>2. e \in Vecs /\ Content(e) = Content(s.data) \o c
      BY <1>1, <3>1, PushIs
    <3> QED
      BY <1>1, <2>1, <3>1, <3>2 DEF Takes
  <2>4. t = [r |-> a, n |-> l, data |-> e]
    OBVIOUS
  <2>5. a \in Readers /\ l \in Nat /\ Gone(r, m, a, l) /\ Firm(a)
    BY <2>1, <2>2 DEF Takes
  <2>6. l = 0 \/ a.slice = q.slice + 1
    BY <2>1, <2>2 DEF Takes
  <2> HIDE DEF e, l, a, t
  <2>7. t \in ViewsStates(r, m) /\ t.n = l /\ t.r = a
    BY <2>3, <2>4, <2>5 DEF ViewsStates
  <2>8. ViewsTurn(s) = t
    BY <1>2, <1>3
  <2>9. l = 0 => ViewsDone(t)
    BY <2>7 DEF ViewsDone
  <2> QED
    BY <1>3, <2>a, <2>6, <2>7, <2>8, <2>9 DEF q
<1>4. CASE ViewsDone(s)
  BY <1>2, <1>4
<1> QED
  BY <1>3, <1>4

LEMMA ViewsAre ==
    ASSUME NEW r \in Readers, NEW m \in Nat, m # 0 \/ Firm(r), m <= Remaining(r)
    PROVE  /\ ReadChunks(r, m).ok = TRUE /\ ReadChunks(r, m).data \in Vecs
           /\ Gives(r, Ok(Content(ReadChunks(r, m).data), ReadChunks(r, m).r), m)
<1> DEFINE S == ViewsStates(r, m)
           start == [r |-> r, n |-> m, data |-> NoBytes]
           after[k \in Nat] == IF k = 0 THEN start ELSE ViewsTurn(after[k - 1])
           turns == Len(r.chunks)
           G == [s \in S |-> ViewsTurn(s)]
<1>1. start \in S
  <2>1. Gone(r, m, r, m) /\ Ahead(r, m - m) = <<>>
    BY GoneStarts
  <2> QED
    BY <2>1, NoBytesIs DEF ViewsStates
<1>2. G \in [S -> S] /\ \A s \in S : G[s] = ViewsTurn(s)
  BY ViewsTurns
<1> HIDE DEF S, start, G
<1>3. PICK f : Turns(f, S, start, G)
  BY <1>1, <1>2, TurnsExist, Zenon
<1>4. f \in [Nat -> S] /\ f = [k \in Nat |-> IF k = 0 THEN start ELSE G[f[k - 1]]]
  BY <1>3 DEF Turns
<1>5. \A k \in Nat : k # 0 => k - 1 \in Nat /\ G[f[k - 1]] = ViewsTurn(f[k - 1])
  BY <1>2, <1>4
<1>6. f = [k \in Nat |-> IF k = 0 THEN start ELSE ViewsTurn(f[k - 1])]
  BY <1>4, <1>5
<1>7. after = [k \in Nat |-> IF k = 0 THEN start ELSE ViewsTurn(after[k - 1])]
  BY <1>6
<1> HIDE DEF after
<1> DEFINE Far(k) == ViewsDone(after[k]) \/ after[k].r.slice >= k
           T == {k \in Nat : after[k] \in S /\ Far(k)}
<1>8. \A s \in S : s.r \in Readers /\ s.r.slice \in Nat
  BY DEF S, ViewsStates, Readers
<1>9. 0 \in T
  <2>1. after[0] = start
    BY <1>7
  <2>2. start.r.slice >= 0
    BY <1>1, <1>8
  <2> QED
    BY <1>1, <2>1, <2>2
<1>10. ASSUME NEW k \in Nat, k \in T PROVE k + 1 \in T
  <2> DEFINE s == after[k]
  <2>1. s \in S /\ Far(k)
    BY <1>10
  <2>2. after[k + 1] = ViewsTurn(s)
    <3>1. k + 1 \in Nat /\ k + 1 # 0 /\ (k + 1) - 1 = k
      OBVIOUS
    <3> QED
      BY <1>7, <3>1
  <2>3. /\ ViewsTurn(s) \in S
        /\ ViewsDone(s) => ViewsTurn(s) = s
        /\ ~ViewsDone(s) => ViewsDone(ViewsTurn(s)) \/ ViewsTurn(s).r.slice = s.r.slice + 1
    BY <2>1, ViewsTurns DEF S
  <2>4. CASE ViewsDone(s)
    BY <2>1, <2>2, <2>3, <2>4
  <2>5. CASE ~ViewsDone(s)
    <3>1. s.r.slice >= k /\ s.r.slice \in Nat
      BY <1>8, <2>1, <2>5
    <3>2. ViewsDone(ViewsTurn(s)) \/ ViewsTurn(s).r.slice >= k + 1
      BY <2>3, <2>5, <3>1
    <3> QED
      BY <2>2, <2>3, <3>2
  <2> QED
    BY <2>4, <2>5
<1> HIDE DEF T
<1>11. turns \in Nat
  BY LenProperties DEF Readers
<1>12. turns \in T
  BY <1>9, <1>10, <1>11, SetInduction
<1> DEFINE end == after[turns]
<1>13. end \in S /\ (ViewsDone(end) \/ end.r.slice >= turns)
  BY <1>12 DEF T
<1>14. ReadChunks(r, m) = Ok(end.data, end.r)
  <2>1. ~(Remaining(r) < m)
    BY LeastIs
  <2> QED
    BY <2>1 DEF ReadChunks, Loop, after, start
<1> HIDE DEF end
<1>15. /\ end.r \in Readers /\ end.n \in Nat /\ Gone(r, m, end.r, end.n)
       /\ end.data \in Vecs /\ Content(end.data) = Ahead(r, m - end.n)
       /\ Firm(end.r) \/ end = start
  BY <1>13 DEF S, ViewsStates, start
<1>16. end.n = 0
  <2> SUFFICES ASSUME end.r.slice >= turns, end.n # 0 PROVE FALSE
    BY <1>13 DEF ViewsDone
  <2>1. end.r.chunks = r.chunks /\ AtChunk(end.r)
    BY <1>13, <1>15, ViewsTurns DEF S, ViewsDone, Gone
  <2>2. end.r.slice \in Nat /\ ~(end.r.slice < turns)
    BY <1>8, <1>11, <1>13
  <2> QED
    BY <2>1, <2>2 DEF AtChunk
<1>17. Firm(end.r)
  BY <1>15, <1>16 DEF start
<1>18. m - end.n = m /\ Offset(end.r) = Offset(r) + m
  BY <1>15, <1>16 DEF Gone
<1>19. Content(end.data) = Ahead(r, m) /\ Ahead(r, m) \in Seq(Nat) /\ Len(Ahead(r, m)) = m
  BY <1>15, <1>18, AheadIs
<1>20. ReadChunks(r, m) = [ok |-> TRUE, data |-> end.data, r |-> end.r]
  BY <1>14 DEF Ok
<1>21. Gives(r, Ok(Content(end.data), end.r), m)
  <2>1. end.r.chunks = r.chunks
    BY <1>15 DEF Gone
  <2> QED
    BY <1>15, <1>17, <1>18, <1>19, <2>1 DEF Gives, Ok
<1>22. ReadChunks(r, m).ok = TRUE /\ ReadChunks(r, m).data = end.data /\ ReadChunks(r, m).r = end.r
  BY <1>20
<1> QED
  BY <1>15, <1>21, <1>22

\* read_chunks: m bytes in views, or nothing moves.
LEMMA ReadChunksIs ==
    ASSUME NEW r \in Readers, NEW m \in Nat, m # 0 \/ Firm(r)
    PROVE  /\ ReadChunks(r, m).ok <=> m <= Remaining(r)
           /\ ReadChunks(r, m).ok \in BOOLEAN /\ ReadChunks(r, m).data \in Vecs
           /\ m <= Remaining(r) => Gives(r, Ok(Content(ReadChunks(r, m).data), ReadChunks(r, m).r), m)
           /\ ~(m <= Remaining(r)) => ReadChunks(r, m).r = r
<1>1. Remaining(r) \in Nat
  BY LeastIs
<1>2. CASE ~(m <= Remaining(r))
  <2>0. Remaining(r) < m
    BY <1>1, <1>2
  <2>a. ReadChunks(r, m) = [Fail(r) EXCEPT !.data = NoBytes]
    BY <2>0 DEF ReadChunks
  <2>1. ReadChunks(r, m) = [ok |-> FALSE, data |-> NoBytes, r |-> r]
    BY <2>a DEF Fail
  <2>2. /\ ReadChunks(r, m).ok = FALSE /\ ReadChunks(r, m).data = NoBytes
        /\ ReadChunks(r, m).r = r
    BY <2>1
  <2> QED
    BY <1>2, <2>2, NoBytesIs
<1>3. CASE m <= Remaining(r)
  BY <1>3, ViewsAre
<1> QED
  BY <1>2, <1>3

----------------------------------------------------------------------------
(* backtrack *)

\* The cursor with another slice and byte.
At(r, sl, b) == [r EXCEPT !.slice = sl, !.byte = b]

Placed(r, sl, b) ==
    sl \in Nat /\ b \in Nat /\ sl < Len(r.chunks) /\ b <= Len(r.chunks[sl + 1]) =>
        /\ At(r, sl, b) \in Readers /\ At(r, sl, b).chunks = r.chunks
        /\ At(r, sl, b).slice = sl /\ At(r, sl, b).byte = b
        /\ Offset(At(r, sl, b)) = Len(Pre(r.chunks, sl)) + b

LEMMA AtIs ==
    ASSUME NEW r \in Readers, NEW sl, NEW b
    PROVE  Placed(r, sl, b)
<1> SUFFICES ASSUME sl \in Nat, b \in Nat, sl < Len(r.chunks), b <= Len(r.chunks[sl + 1])
             PROVE  /\ At(r, sl, b) \in Readers /\ At(r, sl, b).chunks = r.chunks
                    /\ At(r, sl, b).slice = sl /\ At(r, sl, b).byte = b
                    /\ Offset(At(r, sl, b)) = Len(Pre(r.chunks, sl)) + b
  BY DEF Placed
<1> DEFINE a == At(r, sl, b)
<1>1. r \in [chunks : Seq(Chunk), slice : Nat, byte : Nat]
  BY DEF Readers
<1>2. /\ a \in [chunks : Seq(Chunk), slice : Nat, byte : Nat] /\ a.chunks = r.chunks
      /\ a.slice = sl /\ a.byte = b
  BY <1>1 DEF At
<1> HIDE DEF a
<1>3. Len(a.chunks) \in Nat
  BY <1>2, LenProperties
<1>4. a.slice <= Len(a.chunks) /\ a.slice # Len(a.chunks)
  BY <1>2, <1>3
<1>5. a \in Readers
  BY <1>2, <1>4 DEF Readers
<1>6. Offset(a) = Len(Pre(a.chunks, a.slice)) + a.byte
  BY DEF Offset, Pre
<1> QED
  BY <1>2, <1>5, <1>6 DEF a

\* Within the chunk, or to the end of the chunk before.
LEMMA Retreats ==
    ASSUME NEW r \in Readers
    PROVE  /\ Offset(r) \in Nat /\ r.byte \in Nat /\ r.byte <= Offset(r) /\ r.slice \in Nat
           /\ r.slice = 0 => Offset(r) = r.byte
           /\ \A k \in Nat : k < r.byte =>
                  /\ At(r, r.slice, r.byte - k) \in Readers
                  /\ At(r, r.slice, r.byte - k).chunks = r.chunks
                  /\ Offset(At(r, r.slice, r.byte - k)) = Offset(r) - k
           /\ r.slice = 0 =>
                  /\ At(r, 0, 0) \in Readers /\ At(r, 0, 0).chunks = r.chunks
                  /\ Offset(At(r, 0, 0)) = Offset(r) - r.byte
                  /\ At(r, 0, 0).slice = 0 /\ At(r, 0, 0).byte = 0
           /\ r.slice > 0 =>
                  LET a == At(r, r.slice - 1, Len(r.chunks[r.slice])) IN
                  /\ a \in Readers /\ a.chunks = r.chunks /\ a.slice = r.slice - 1
                  /\ Offset(a) = Offset(r) - r.byte
<1> DEFINE s == r.chunks
           sl == r.slice
           b == r.byte
<1>1. /\ s \in Seq(Chunk) /\ sl \in Nat /\ b \in Nat /\ sl <= Len(s)
      /\ sl < Len(s) => b <= Len(s[sl + 1])
      /\ sl = Len(s) => b = 0
      /\ r \in [chunks : Seq(Chunk), slice : Nat, byte : Nat]
  BY DEF Readers
<1>2. Len(s) \in Nat /\ s \in Seq(Seq(Nat)) /\ \A i \in 1..Len(s) : Len(s[i]) \in Nat
  BY <1>1, ChunkSeqs
<1>3. Len(s) \in Nat /\ sl \in Nat /\ b \in Nat /\ sl <= Len(s) /\ (sl = Len(s) => b = 0)
  BY <1>1, <1>2
<1>4. Offset(r) = Len(Pre(s, sl)) + b
  BY DEF Offset, Pre
<1>5. Offset(r) \in Nat
  BY OffsetIn
<1>6. \A k \in 0..Len(s) : Len(Pre(s, k)) \in Nat
  BY <1>2, SplitAt
<1>7. Len(Pre(s, sl)) \in Nat
  BY <1>3, <1>6
<1>8. sl = 0 => Len(Pre(s, sl)) = 0
  <2>1. Pre(s, 0) = <<>> /\ Len(<<>>) = 0
    BY <1>2, PreSteps
  <2> QED
    BY <2>1
<1>9. r.chunks = s /\ r.slice = sl /\ r.byte = b
  OBVIOUS
<1> HIDE DEF s, sl, b
<1>10. b <= Offset(r) /\ (sl = 0 => Offset(r) = b)
  BY <1>3, <1>4, <1>7, <1>8
<1>11. ASSUME NEW k \in Nat, k < b
       PROVE  /\ At(r, sl, b - k) \in Readers /\ At(r, sl, b - k).chunks = s
              /\ Offset(At(r, sl, b - k)) = Offset(r) - k
  <2> DEFINE c == b - k
  <2>1. sl < Len(s) /\ c \in Nat /\ c <= b
    BY <1>3, <1>11
  <2>2. sl + 1 \in 1..Len(s)
    BY <1>3, <2>1
  <2>3. b <= Len(s[sl + 1]) /\ Len(s[sl + 1]) \in Nat
    BY <1>1, <1>2, <2>1, <2>2
  <2>4. c <= Len(s[sl + 1])
    BY <1>3, <2>1, <2>3
  <2>5. Offset(r) - k = Len(Pre(s, sl)) + c
    BY <1>3, <1>4, <1>7, <1>11
  <2> HIDE DEF c
  <2>6. At(r, sl, c) \in Readers /\ At(r, sl, c).chunks = s /\ Offset(At(r, sl, c)) = Len(Pre(s, sl)) + c
    BY SMTT(60), <1>3, <1>9, <2>1, <2>4, AtIs DEF Placed
  <2> QED
    BY <2>5, <2>6 DEF c
<1>12. ASSUME sl = 0
       PROVE  /\ At(r, 0, 0) \in Readers /\ At(r, 0, 0).chunks = s
              /\ Offset(At(r, 0, 0)) = Offset(r) - b
              /\ At(r, 0, 0).slice = 0 /\ At(r, 0, 0).byte = 0
  <2>0. Offset(r) - b = 0
    BY <1>3, <1>10, <1>12
  <2>1. /\ At(r, 0, 0) \in [chunks : Seq(Chunk), slice : Nat, byte : Nat] /\ At(r, 0, 0).chunks = s
        /\ At(r, 0, 0).slice = 0 /\ At(r, 0, 0).byte = 0
    BY <1>1 DEF At, s
  <2>2. 0 < Len(s) => 0 + 1 \in 1..Len(s)
    BY <1>3
  <2>3. 0 < Len(s) => 0 <= Len(s[0 + 1])
    BY <1>2, <2>2
  <2>4. At(r, 0, 0) \in Readers
    BY <1>3, <2>1, <2>3 DEF Readers
  <2>5. Offset(At(r, 0, 0)) = Len(Pre(s, 0)) + 0
    BY <2>1 DEF Offset, Pre
  <2>6. Len(Pre(s, 0)) = 0
    BY <1>8, <1>12
  <2> QED
    BY <2>0, <2>1, <2>4, <2>5, <2>6
<1>13. ASSUME sl > 0
       PROVE  LET a == At(r, sl - 1, Len(s[sl])) IN
              /\ a \in Readers /\ a.chunks = s /\ a.slice = sl - 1
              /\ Offset(a) = Offset(r) - b
  <2> DEFINE x == sl - 1
             c == Len(s[sl])
  <2>1. x \in Nat /\ x < Len(s) /\ x + 1 = sl /\ x \in 0..(Len(s) - 1) /\ sl \in 1..Len(s)
    BY <1>3, <1>13
  <2>2. c \in Nat
    BY <1>2, <2>1
  <2>3. /\ Len(Pre(s, x + 1)) = Len(Pre(s, x)) + Len(s[x + 1]) /\ Len(Pre(s, x)) \in Nat
    BY <1>2, <2>1, ChunkPlace
  <2>4. Len(Pre(s, sl)) = Len(Pre(s, x)) + c
    BY <2>1, <2>3
  <2>5. c <= Len(s[x + 1])
    BY <2>1, <2>2
  <2>6. Offset(r) - b = Len(Pre(s, x)) + c
    BY <1>3, <1>4, <2>2, <2>3, <2>4
  <2> HIDE DEF x, c
  <2>7. /\ At(r, x, c) \in Readers /\ At(r, x, c).chunks = s /\ At(r, x, c).slice = x
        /\ Offset(At(r, x, c)) = Len(Pre(s, x)) + c
    <3>1. x < Len(r.chunks) /\ c <= Len(r.chunks[x + 1]) /\ r.chunks = s
      BY <1>9, <2>1, <2>5
    <3>2. x \in Nat /\ c \in Nat
      BY <2>1, <2>2
    <3>3. Placed(r, x, c)
      BY AtIs
    <3> QED
      BY <3>1, <3>2, <3>3 DEF Placed
  <2> QED
    BY <2>6, <2>7 DEF x, c
<1> QED
  BY <1>3, <1>5, <1>9, <1>10, <1>11, <1>12, <1>13

BackStates(r, m) ==
    {s \in [r : Readers, n : Nat] :
        s.r.chunks = r.chunks /\ s.n \in 0..m /\ Offset(s.r) + (m - s.n) = Offset(r)}
BackDone(s) == s.n = 0 \/ (s.r.slice = 0 /\ s.r.byte = 0)

LEMMA BackTurns ==
    ASSUME NEW r \in Readers, NEW m \in Nat, NEW s \in BackStates(r, m)
    PROVE  /\ BacktrackTurn(s) \in BackStates(r, m)
           /\ BackDone(s) => BacktrackTurn(s) = s
           /\ ~BackDone(s) => BackDone(BacktrackTurn(s)) \/ s.r.slice = BacktrackTurn(s).r.slice + 1
<1> DEFINE q == s.r
           n == s.n
           k == Least(n, q.byte)
           sl == q.slice
           b == q.byte
<1>1. /\ s = [r |-> q, n |-> n] /\ q \in Readers /\ n \in Nat /\ n <= m
      /\ q.chunks = r.chunks /\ Offset(q) + (m - n) = Offset(r)
  BY DEF BackStates
<1>2. q \in [chunks : Seq(Chunk), slice : Nat, byte : Nat] /\ sl \in Nat /\ b \in Nat
  BY <1>1 DEF Readers
<1>3. BackDone(s) <=> n = 0 \/ (sl = 0 /\ b = 0)
  BY DEF BackDone
<1>4. BacktrackTurn(s) =
        IF n = 0 THEN s
        ELSE [n |-> n - k,
              r |-> IF b > k THEN At(q, sl, b - k)
                    ELSE IF sl = 0 THEN At(q, 0, 0) ELSE At(q, sl - 1, Len(q.chunks[sl]))]
  <2>1. At(q, sl, b - k) = [q EXCEPT !.byte = @ - k]
    BY <1>2 DEF At
  <2>2. sl = 0 => At(q, 0, 0) = [q EXCEPT !.byte = 0]
    BY <1>2 DEF At
  <2>3. At(q, sl - 1, Len(q.chunks[sl])) = [q EXCEPT !.slice = @ - 1, !.byte = Len(q.chunks[q.slice])]
    BY <1>2 DEF At
  <2> QED
    BY <2>1, <2>2, <2>3 DEF BacktrackTurn
<1>5. /\ Offset(q) \in Nat /\ b <= Offset(q)
      /\ sl = 0 => Offset(q) = b
      /\ \A j \in Nat : j < b =>
             /\ At(q, sl, b - j) \in Readers /\ At(q, sl, b - j).chunks = q.chunks
             /\ Offset(At(q, sl, b - j)) = Offset(q) - j
      /\ sl = 0 => /\ At(q, 0, 0) \in Readers /\ At(q, 0, 0).chunks = q.chunks
                   /\ Offset(At(q, 0, 0)) = Offset(q) - b
                   /\ At(q, 0, 0).slice = 0 /\ At(q, 0, 0).byte = 0
      /\ sl > 0 => LET a == At(q, sl - 1, Len(q.chunks[sl])) IN
                   /\ a \in Readers /\ a.chunks = q.chunks /\ a.slice = sl - 1
                   /\ Offset(a) = Offset(q) - b
  BY <1>1, Retreats
<1>6. k \in Nat /\ k <= n /\ k <= b /\ (k = n \/ k = b) /\ (~(b > k) => k = b) /\ (b > k => k = n)
  BY <1>1, <1>2 DEF Least
<1>7. q = s.r /\ sl = s.r.slice
  OBVIOUS
<1> HIDE DEF q, n, k, sl, b
<1>8. n - k \in 0..m /\ Offset(r) \in Nat /\ (k = n => n - k = 0)
  <2>1. Offset(r) \in Nat
    BY OffsetIn
  <2> QED
    BY <1>1, <1>6, <2>1
\* What is left to show of where the turn puts the cursor.
<1>9. ASSUME NEW a \in Readers, a.chunks = q.chunks, Offset(a) = Offset(q) - k,
             BacktrackTurn(s) = [n |-> n - k, r |-> a]
      PROVE  BacktrackTurn(s) \in BackStates(r, m)
  <2>1. Offset(a) + (m - (n - k)) = Offset(r)
    BY <1>1, <1>5, <1>6, <1>9
  <2> DEFINE l == n - k
  <2>2. l \in 0..m /\ l \in Nat
    BY <1>8
  <2>3. BacktrackTurn(s) = [n |-> l, r |-> a] /\ a.chunks = r.chunks /\ Offset(a) + (m - l) = Offset(r)
    BY <1>1, <1>9, <2>1
  <2> HIDE DEF l
  <2> QED
    BY <2>2, <2>3 DEF BackStates
<1>10. CASE BackDone(s)
  <2>1. CASE n = 0
    BY <1>4, <1>10, <2>1
  <2>2. CASE n # 0
    <3>1. sl = 0 /\ b = 0 /\ k = 0 /\ n - k = n
      BY <1>1, <1>2, <1>3, <1>6, <1>10, <2>2
    <3>2. BacktrackTurn(s) = [n |-> n, r |-> At(q, 0, 0)]
      BY <1>4, <2>2, <3>1
    <3>3. At(q, 0, 0) = q
      BY <1>2, <3>1 DEF At, sl, b
    <3> QED
      BY <1>1, <1>10, <3>2, <3>3
  <2> QED
    BY <2>1, <2>2
<1>11. CASE ~BackDone(s) /\ b > k
  <2> DEFINE a == At(q, sl, b - k)
  <2>1. BacktrackTurn(s) = [n |-> n - k, r |-> a]
    BY <1>3, <1>4, <1>11
  <2>2. a \in Readers /\ a.chunks = q.chunks /\ Offset(a) = Offset(q) - k
    BY <1>2, <1>5, <1>6, <1>11
  <2> HIDE DEF a
  <2>3. n - k = 0
    BY <1>6, <1>8, <1>11
  <2>4. BackDone(BacktrackTurn(s))
    BY <2>1, <2>3 DEF BackDone
  <2> QED
    BY <1>9, <1>11, <2>1, <2>2, <2>4
<1>12. CASE ~BackDone(s) /\ ~(b > k) /\ sl = 0
  <2> DEFINE a == At(q, 0, 0)
  <2>1. BacktrackTurn(s) = [n |-> n - k, r |-> a]
    BY <1>3, <1>4, <1>12
  <2>2. a \in Readers /\ a.chunks = q.chunks /\ Offset(a) = Offset(q) - k /\ a.slice = 0 /\ a.byte = 0
    BY <1>5, <1>6, <1>12
  <2> HIDE DEF a
  <2>3. BackDone(BacktrackTurn(s))
    BY <2>1, <2>2 DEF BackDone
  <2> QED
    BY <1>9, <1>12, <2>1, <2>2, <2>3
<1>13. CASE ~BackDone(s) /\ ~(b > k) /\ sl # 0
  <2> DEFINE a == At(q, sl - 1, Len(q.chunks[sl]))
  <2>1. BacktrackTurn(s) = [n |-> n - k, r |-> a]
    BY <1>3, <1>4, <1>13
  <2>0. sl > 0
    BY <1>2, <1>13
  <2>2. a \in Readers /\ a.chunks = q.chunks /\ a.slice = sl - 1 /\ Offset(a) = Offset(q) - b
    BY <1>5, <2>0
  <2> HIDE DEF a
  <2>3. Offset(a) = Offset(q) - k /\ sl = a.slice + 1
    BY <1>2, <1>6, <1>13, <2>2
  <2>4. BacktrackTurn(s).r = a
    BY <2>1
  <2> QED
    BY <1>7, <1>9, <1>13, <2>1, <2>2, <2>3, <2>4
<1> QED
  BY <1>10, <1>11, <1>12, <1>13, <1>1

\* backtrack: m bytes, or to the start if there are not so many.
LEMMA BacktrackIs ==
    ASSUME NEW r \in Readers, NEW m \in Nat
    PROVE  /\ Backtrack(r, m).r \in Readers /\ Backtrack(r, m).r.chunks = r.chunks
           /\ Offset(Backtrack(r, m).r) = IF m <= Offset(r) THEN Offset(r) - m ELSE 0
           /\ Backtrack(r, m).ok <=> m <= Offset(r)
           /\ Backtrack(r, m).ok \in BOOLEAN /\ Backtrack(r, m).data = <<>>
<1> DEFINE S == BackStates(r, m)
           start == [r |-> r, n |-> m]
           after[k \in Nat] == IF k = 0 THEN start ELSE BacktrackTurn(after[k - 1])
           turns == r.slice + 1
           G == [s \in S |-> BacktrackTurn(s)]
<1>0. Offset(r) \in Nat /\ r.slice \in Nat
  BY Retreats
<1>1. start \in S
  <2>1. m \in 0..m /\ Offset(r) + (m - m) = Offset(r)
    BY <1>0
  <2> QED
    BY <2>1 DEF BackStates
<1>2. G \in [S -> S] /\ \A s \in S : G[s] = BacktrackTurn(s)
  BY BackTurns
<1> HIDE DEF S, start, G
<1>3. PICK f : Turns(f, S, start, G)
  BY <1>1, <1>2, TurnsExist, Zenon
<1>4. f \in [Nat -> S] /\ f = [k \in Nat |-> IF k = 0 THEN start ELSE G[f[k - 1]]]
  BY <1>3 DEF Turns
<1>5. \A k \in Nat : k # 0 => k - 1 \in Nat /\ G[f[k - 1]] = BacktrackTurn(f[k - 1])
  BY <1>2, <1>4
<1>6. f = [k \in Nat |-> IF k = 0 THEN start ELSE BacktrackTurn(f[k - 1])]
  BY <1>4, <1>5
<1>7. after = [k \in Nat |-> IF k = 0 THEN start ELSE BacktrackTurn(after[k - 1])]
  BY <1>6
<1> HIDE DEF after
<1> DEFINE Far(k) == BackDone(after[k]) \/ after[k].r.slice + k <= r.slice
           T == {k \in Nat : after[k] \in S /\ Far(k)}
<1>8. \A s \in S : s.r \in Readers /\ s.r.slice \in Nat
  BY DEF S, BackStates, Readers
<1>9. 0 \in T
  <2>1. after[0] = start
    BY <1>7
  <2>2. start.r.slice + 0 <= r.slice
    <3>1. start.r.slice = r.slice /\ start.r.slice \in Nat
      BY <1>1, <1>8 DEF start
    <3> QED
      BY <3>1
  <2> QED
    BY <1>1, <2>1, <2>2
<1>10. ASSUME NEW k \in Nat, k \in T PROVE k + 1 \in T
  <2> DEFINE s == after[k]
  <2>1. s \in S /\ Far(k)
    BY <1>10
  <2>2. after[k + 1] = BacktrackTurn(s)
    <3>1. k + 1 \in Nat /\ k + 1 # 0 /\ (k + 1) - 1 = k
      OBVIOUS
    <3> QED
      BY <1>7, <3>1
  <2>3. /\ BacktrackTurn(s) \in S
        /\ BackDone(s) => BacktrackTurn(s) = s
        /\ ~BackDone(s) => BackDone(BacktrackTurn(s)) \/ s.r.slice = BacktrackTurn(s).r.slice + 1
    BY <2>1, BackTurns DEF S
  <2>4. CASE BackDone(s)
    BY <2>1, <2>2, <2>3, <2>4
  <2>5. CASE ~BackDone(s)
    <3>1. s.r.slice + k <= r.slice /\ s.r.slice \in Nat /\ BacktrackTurn(s).r.slice \in Nat
      BY <1>8, <2>1, <2>3, <2>5
    <3>2. BackDone(BacktrackTurn(s)) \/ BacktrackTurn(s).r.slice + (k + 1) <= r.slice
      BY <2>3, <2>5, <3>1
    <3> QED
      BY <2>2, <2>3, <3>2
  <2> QED
    BY <2>4, <2>5
<1> HIDE DEF T
<1>11. turns \in Nat
  BY DEF Readers
<1>12. turns \in T
  BY <1>9, <1>10, <1>11, SetInduction
<1> DEFINE end == after[turns]
<1>13. end \in S /\ (BackDone(end) \/ end.r.slice + turns <= r.slice)
  BY <1>12 DEF T
<1>14. Backtrack(r, m) = IF end.n = 0 THEN Ok(<<>>, end.r) ELSE Fail(end.r)
  BY DEF Backtrack, Moved, Loop, after, start
<1>15. end.r.slice \in Nat /\ r.slice \in Nat /\ turns = r.slice + 1
  BY <1>0, <1>8, <1>13
<1> HIDE DEF end, turns
<1>16. BackDone(end)
  BY <1>13, <1>15
<1>17. /\ end.r \in Readers /\ end.n \in 0..m /\ end.r.chunks = r.chunks
       /\ Offset(end.r) + (m - end.n) = Offset(r)
  BY <1>13 DEF S, BackStates
<1>18. end.r.slice = 0 /\ end.r.byte = 0 => Offset(end.r) = 0
  BY <1>17, Retreats
<1>19. Offset(end.r) \in Nat
  BY <1>17, OffsetIn
<1>20. /\ Offset(end.r) = IF m <= Offset(r) THEN Offset(r) - m ELSE 0
       /\ end.n = 0 <=> m <= Offset(r)
  <2>1. end.n \in Nat /\ end.n <= m /\ Offset(end.r) + (m - end.n) = Offset(r)
    BY <1>17
  <2>2. end.n = 0 \/ Offset(end.r) = 0
    BY <1>16, <1>18 DEF BackDone
  <2> QED
    BY <1>0, <1>19, <2>1, <2>2
<1>21. /\ Backtrack(r, m).data = <<>> /\ Backtrack(r, m).r = end.r /\ Backtrack(r, m).ok \in BOOLEAN
       /\ Backtrack(r, m).ok <=> end.n = 0
  BY <1>14 DEF Ok, Fail
<1> QED
  BY <1>17, <1>20, <1>21

----------------------------------------------------------------------------
(* The answers of the reading operations *)

\* k bytes; or all that there is, in vain; or nothing.
Gets(r, a, k) == a.ok = TRUE /\ Gives(r, a, k) /\ k <= Remaining(r)
Wastes(r, a) ==
    /\ a.ok = FALSE /\ a.data = <<>> /\ a.r \in Readers /\ a.r.chunks = r.chunks
    /\ Firm(a.r) /\ Offset(a.r) = Len(DataOf(r))
Refuses(r, a) == a.ok = FALSE /\ a.data = <<>> /\ a.r = r

LEMMA ReadExactIs ==
    ASSUME NEW r \in Readers, NEW m \in Nat \ {0}
    PROVE  IF m <= Remaining(r) THEN Gets(r, ReadExact(r, m), m) ELSE Wastes(r, ReadExact(r, m))
<1> DEFINE a == Read(r, m)
           k == Least(m, Remaining(r))
<1>1. Gives(r, a, k) /\ (a.ok <=> k # 0)
  BY ReadIs
<1>2. /\ k \in Nat /\ (m <= Remaining(r) => k = m)
      /\ ~(m <= Remaining(r)) => k # m /\ Offset(r) + k = Len(DataOf(r))
  BY LeastIs
<1>3. ReadExact(r, m) = IF a.ok /\ Len(a.data) = m THEN a ELSE Fail(a.r)
  BY DEF ReadExact
<1>4. Len(a.data) = k
  BY <1>1 DEF Gives
<1>5. a.ok = TRUE \/ a.ok = FALSE
  BY DEF Read, Ok, Fail
<1> HIDE DEF a, k
<1>6. CASE m <= Remaining(r)
  <2>1. k # 0 /\ k = m
    BY <1>2, <1>6
  <2>2. ReadExact(r, m) = a /\ a.ok = TRUE
    BY <1>1, <1>3, <1>4, <1>5, <2>1
  <2> QED
    BY <1>1, <1>6, <2>1, <2>2 DEF Gets
<1>7. CASE ~(m <= Remaining(r))
  <2>1. ReadExact(r, m) = Fail(a.r)
    BY <1>2, <1>3, <1>4, <1>7
  <2>2. a.r \in Readers /\ a.r.chunks = r.chunks /\ Firm(a.r) /\ Offset(a.r) = Len(DataOf(r))
    BY <1>1, <1>2, <1>7 DEF Gives
  <2>3. Wastes(r, Fail(a.r))
    BY <2>2 DEF Wastes, Fail
  <2> QED
    BY <1>7, <2>1, <2>3
<1> QED
  BY <1>6, <1>7

\* Bytes taken from the chunk at the cursor.
LEMMA Within ==
    ASSUME NEW r \in Readers, AtChunk(r), NEW k, k \in 0..Len(RestOf(r))
    PROVE  /\ Gets(r, Ok(SubSeq(RestOf(r), 1, k), Advance(r, k)), k)
           /\ Gets(r, Ok(ChunkView(ChunkOf(r), r.byte, r.byte + k), Advance(r, k)), k)
<1>1. /\ Advance(r, k) \in Readers /\ Advance(r, k).chunks = r.chunks
      /\ Offset(Advance(r, k)) = Offset(r) + k /\ Firm(Advance(r, k))
  BY Advances
<1>2. /\ SubSeq(RestOf(r), 1, k) = Ahead(r, k)
      /\ ChunkView(ChunkOf(r), r.byte, r.byte + k) = Ahead(r, k)
      /\ Ahead(r, k) \in Seq(Nat) /\ Len(Ahead(r, k)) = k
      /\ Offset(r) + Len(RestOf(r)) <= Len(DataOf(r)) /\ Len(RestOf(r)) = Len(ChunkOf(r)) - r.byte
      /\ Len(ChunkOf(r)) \in Nat /\ r.byte \in Nat
  BY ChunkAhead
<1>3. /\ Remaining(r) = Len(DataOf(r)) - Offset(r) /\ Len(DataOf(r)) \in Nat /\ Offset(r) \in Nat
  BY OffsetIn
<1>4. k <= Remaining(r)
  <2>1. Len(RestOf(r)) \in Int /\ k \in Nat /\ k <= Len(RestOf(r))
        /\ Offset(r) + Len(RestOf(r)) <= Len(DataOf(r))
    BY <1>2
  <2> QED
    BY <1>3, <2>1
<1>5. Gives(r, Ok(Ahead(r, k), Advance(r, k)), k)
  BY <1>1, <1>2 DEF Gives, Ok
<1>6. Gets(r, Ok(Ahead(r, k), Advance(r, k)), k)
  BY <1>4, <1>5 DEF Gets, Ok
<1> QED
  BY <1>2, <1>6

LEMMA ReadU8Is ==
    ASSUME NEW r \in Readers
    PROVE  \/ /\ Gets(r, ReadU8(r), 1) /\ ReadU8(r).data = <<ReadU8(r).data[1]>>
              /\ ReadU8(r).data[1] \in Nat /\ ReadU8(r).data[1] = DataOf(r)[Offset(r) + 1]
              /\ AtChunk(r) /\ Firm(r)
           \/ Refuses(r, ReadU8(r)) /\ (Remaining(r) = 0 \/ ~Firm(r))
<1>1. CASE AtChunk(r) /\ r.byte < Len(ChunkOf(r))
  <2>1. ReadU8(r) = Ok(<<RestOf(r)[1]>>, Advance(r, 1))
    BY <1>1 DEF ReadU8
  <2>2. /\ RestOf(r) \in Seq(Nat) /\ Len(RestOf(r)) = Len(ChunkOf(r)) - r.byte
        /\ Len(ChunkOf(r)) \in Nat /\ r.byte \in Nat
    BY <1>1, ChunkAhead
  <2>3. 1 \in 0..Len(RestOf(r)) /\ Len(RestOf(r)) \in Nat /\ 1 <= Len(RestOf(r))
    BY <1>1, <2>2
  <2>4. SubSeq(RestOf(r), 1, 1) = <<RestOf(r)[1]>>
    <3> DEFINE e == RestOf(r)
    <3>1. e \in Seq(Nat) /\ 1 \in 1..Len(e)
      BY <2>2, <2>3
    <3> HIDE DEF e
    <3>2. SubSeq(e, 1, 1) \in Seq(Nat) /\ Len(SubSeq(e, 1, 1)) = 1 /\ SubSeq(e, 1, 1)[1] = e[1]
      <4>1. \A i \in 1..1 : e[i] \in Nat
        BY <3>1, ElementOfSeq
      <4> QED
        BY <4>1, SubSeqProperties
    <3>3. <<e[1]>> \in Seq(Nat) /\ Len(<<e[1]>>) = 1 /\ <<e[1]>>[1] = e[1]
      BY <3>1, ElementOfSeq
    <3>4. \A i \in 1..1 : SubSeq(e, 1, 1)[i] = <<e[1]>>[i]
      BY <3>2, <3>3
    <3>5. SubSeq(e, 1, 1) = <<e[1]>>
      BY <3>2, <3>3, <3>4, SeqEqual
    <3> QED
      BY <3>5 DEF e
  <2>5. Gets(r, ReadU8(r), 1)
    BY <1>1, <2>1, <2>3, <2>4, Within
  <2>6. ReadU8(r).data = <<RestOf(r)[1]>> /\ ReadU8(r).data[1] = RestOf(r)[1]
    BY <2>1 DEF Ok
  <2>7. ReadU8(r).data[1] \in Nat
    BY <2>2, <2>3, <2>6, ElementOfSeq
  <2>8. ReadU8(r).data[1] = DataOf(r)[Offset(r) + 1]
    <3>1. ReadU8(r).data = Part(DataOf(r), Offset(r), 1) /\ 1 <= Remaining(r)
      BY <2>5 DEF Gets, Gives, Ahead
    <3>2. /\ DataOf(r) \in Seq(Nat) /\ Offset(r) \in Nat /\ Len(DataOf(r)) \in Nat
          /\ Remaining(r) = Len(DataOf(r)) - Offset(r)
      BY OffsetIn
    <3>3. Offset(r) + 1 <= Len(DataOf(r))
      BY <3>1, <3>2
    <3> DEFINE d == DataOf(r)
               o == Offset(r)
    <3>a. d \in Seq(Nat) /\ o \in Nat /\ o + 1 <= Len(d) /\ 1 \in Nat /\ 1 \in 1..1
      BY <3>2, <3>3
    <3> HIDE DEF d, o
    <3>b. \A i \in 1..1 : Part(d, o, 1)[i] = d[o + i]
      BY <3>a, PartIs
    <3>4. Part(DataOf(r), Offset(r), 1)[1] = DataOf(r)[Offset(r) + 1]
      BY <3>b, <3>a DEF d, o
    <3> QED
      BY <3>1, <3>4
  <2>9. Firm(r)
    BY <1>1 DEF Firm
  <2> QED
    BY <1>1, <2>5, <2>6, <2>7, <2>8, <2>9
<1>2. CASE ~(AtChunk(r) /\ r.byte < Len(ChunkOf(r)))
  <2>1. ReadU8(r) = Fail(r)
    BY <1>2 DEF ReadU8
  <2>2. Refuses(r, Fail(r))
    BY DEF Refuses, Fail
  <2>3. CASE AtChunk(r)
    BY <1>2, <2>1, <2>2, <2>3 DEF Firm
  <2>4. CASE ~AtChunk(r)
    <3>1. Remaining(r) = Len(DataOf(r)) - Offset(r) /\ Offset(r) = Len(DataOf(r)) /\ Offset(r) \in Nat
      BY <2>4, OffsetIn
    <3>2. Remaining(r) = 0
      BY <3>1
    <3> QED
      BY <2>1, <2>2, <3>2
  <2> QED
    BY <2>3, <2>4
<1> QED
  BY <1>1, <1>2

\* The view that a chunk has.
LEMMA HasViewIs ==
    ASSUME NEW r \in Readers, AtChunk(r), NEW m \in Nat, HasView(ChunkOf(r), r.byte, r.byte + m)
    PROVE  m \in 0..Len(RestOf(r))
<1>1. Len(RestOf(r)) = Len(ChunkOf(r)) - r.byte /\ Len(ChunkOf(r)) \in Nat /\ r.byte \in Nat
  BY ChunkAhead
<1>2. r.byte + m <= Len(ChunkOf(r))
  BY DEF HasView
<1> QED
  BY <1>1, <1>2

LEMMA ReadContiguousIs ==
    ASSUME NEW r \in Readers, NEW m \in Nat
    PROVE  Gets(r, ReadContiguous(r, m), m) \/ Refuses(r, ReadContiguous(r, m))
<1>1. CASE AtChunk(r) /\ HasView(ChunkOf(r), r.byte, r.byte + m)
  <2>1. m \in 0..Len(RestOf(r))
    BY <1>1, HasViewIs
  <2>2. ReadContiguous(r, m) = Ok(ChunkView(ChunkOf(r), r.byte, r.byte + m), Advance(r, m))
    BY <1>1 DEF ReadContiguous
  <2> QED
    BY <1>1, <2>1, <2>2, Within
<1>2. CASE ~(AtChunk(r) /\ HasView(ChunkOf(r), r.byte, r.byte + m))
  <2>1. ReadContiguous(r, m) = Fail(r)
    BY <1>2 DEF ReadContiguous
  <2> QED
    BY <2>1 DEF Refuses, Fail
<1> QED
  BY <1>1, <1>2

LEMMA ReadChunkIs ==
    ASSUME NEW r \in Readers, NEW m \in Nat \ {0}
    PROVE  IF m <= Remaining(r) THEN Gets(r, ReadChunk(r, m), m) ELSE Wastes(r, ReadChunk(r, m))
<1>1. CASE ~AtChunk(r)
  <2>1. Remaining(r) = Len(DataOf(r)) - Offset(r) /\ Offset(r) = Len(DataOf(r)) /\ Offset(r) \in Nat
    BY <1>1, OffsetIn
  <2>2. ~(m <= Remaining(r))
    BY <2>1
  <2>3. ReadChunk(r, m) = Fail(r)
    BY <1>1 DEF ReadChunk
  <2>4. Wastes(r, Fail(r))
    BY <1>1, <2>1 DEF Wastes, Fail, Firm
  <2> QED
    BY <2>2, <2>3, <2>4
<1>2. CASE AtChunk(r) /\ ~HasView(ChunkOf(r), r.byte, r.byte + m)
  <2>1. ReadChunk(r, m) = ReadExact(r, m)
    BY <1>2 DEF ReadChunk
  <2> QED
    BY <2>1, ReadExactIs
<1>3. CASE AtChunk(r) /\ HasView(ChunkOf(r), r.byte, r.byte + m)
  <2>1. m \in 0..Len(RestOf(r))
    BY <1>3, HasViewIs
  <2>2. ReadChunk(r, m) = Ok(ChunkView(ChunkOf(r), r.byte, r.byte + m), Advance(r, m))
    BY <1>3 DEF ReadChunk
  <2>3. Gets(r, ReadChunk(r, m), m)
    BY <1>3, <2>1, <2>2, Within
  <2> QED
    BY <2>3 DEF Gets
<1> QED
  BY <1>1, <1>2, <1>3

\* mark and seek: to a place within a chunk.
LEMMA SeekMarkIs ==
    ASSUME NEW r \in Readers, NEW mark, mark.slice \in Nat, mark.byte \in Nat
    PROVE  /\ SeekMark(r, mark).ok \in BOOLEAN /\ SeekMark(r, mark).r \in Readers
           /\ SeekMark(r, mark).r.chunks = r.chunks
           /\ SeekMark(r, mark).ok => /\ SeekMark(r, mark).r.slice = mark.slice
                                      /\ SeekMark(r, mark).r.byte = mark.byte
<1>1. CASE mark.slice < Len(r.chunks) /\ mark.byte <= Len(r.chunks[mark.slice + 1])
  <2>1. SeekMark(r, mark) = Ok(<<>>, At(r, mark.slice, mark.byte))
    BY <1>1 DEF SeekMark, At
  <2>2. Placed(r, mark.slice, mark.byte)
    BY AtIs
  <2>3. /\ At(r, mark.slice, mark.byte) \in Readers /\ At(r, mark.slice, mark.byte).chunks = r.chunks
        /\ At(r, mark.slice, mark.byte).slice = mark.slice
        /\ At(r, mark.slice, mark.byte).byte = mark.byte
    BY <1>1, <2>2 DEF Placed
  <2> QED
    BY <2>1, <2>3 DEF Ok
<1>2. CASE ~(mark.slice < Len(r.chunks) /\ mark.byte <= Len(r.chunks[mark.slice + 1]))
  <2>1. SeekMark(r, mark) = Fail(r)
    BY <1>2 DEF SeekMark
  <2> QED
    BY <2>1 DEF Fail
<1> QED
  BY <1>1, <1>2

LEMMA SeekToIs ==
    ASSUME NEW r \in Readers, NEW pos \in Nat
    PROVE  /\ SeekTo(r, pos).r \in Readers /\ SeekTo(r, pos).r.chunks = r.chunks
           /\ SeekTo(r, pos).ok \in BOOLEAN /\ SeekTo(r, pos).data = <<>>
           /\ IF pos <= Len(DataOf(r))
              THEN SeekTo(r, pos).ok = TRUE /\ Offset(SeekTo(r, pos).r) = pos
              ELSE SeekTo(r, pos).ok = FALSE /\ Offset(SeekTo(r, pos).r) = Len(DataOf(r))
           /\ pos > Offset(r) => Firm(SeekTo(r, pos).r)
<1> DEFINE a == SeekTo(r, pos)
           o == Offset(r)
           e == Len(DataOf(r))
<1>1. o \in Nat /\ e \in Nat /\ o <= e /\ Remaining(r) = e - o
  BY OffsetIn
<1>2. CASE pos > o
  <2> DEFINE m == pos - o
  <2>1. m \in Nat /\ m # 0
    BY <1>1, <1>2
  <2>2. a = Skip(r, m)
    BY <1>2 DEF SeekTo
  <2> HIDE DEF m, a, o, e
  <2>3. /\ a.r \in Readers /\ a.r.chunks = r.chunks /\ Firm(a.r)
        /\ Offset(a.r) = Offset(r) + Least(m, Remaining(r))
        /\ a.ok <=> m <= Remaining(r)
        /\ a.ok \in BOOLEAN /\ a.data = <<>>
    BY <2>1, <2>2, SkipIs
  <2>4. /\ (pos <= e <=> m <= Remaining(r))
        /\ (m <= Remaining(r) => Offset(r) + Least(m, Remaining(r)) = pos)
        /\ (~(m <= Remaining(r)) => Offset(r) + Least(m, Remaining(r)) = e)
    BY <1>1, <1>2 DEF Least, m, o, e
  <2> QED
    BY <2>3, <2>4 DEF a, o, e
<1>3. CASE ~(pos > o)
  <2> DEFINE m == o - pos
  <2>1. m \in Nat /\ m <= o /\ o - m = pos /\ pos <= e
    BY <1>1, <1>3
  <2>2. a = Backtrack(r, m)
    BY <1>3 DEF SeekTo
  <2> HIDE DEF m, a, e
  <2>3. /\ a.r \in Readers /\ a.r.chunks = r.chunks
        /\ Offset(a.r) = IF m <= Offset(r) THEN Offset(r) - m ELSE 0
        /\ a.ok <=> m <= Offset(r)
        /\ a.ok \in BOOLEAN /\ a.data = <<>>
    BY <2>1, <2>2, BacktrackIs
  <2> QED
    BY <1>3, <2>1, <2>3 DEF a, e
<1> QED
  BY <1>2, <1>3

----------------------------------------------------------------------------
(* Views and extensions *)

\* The bytes of v from the start-th on.
From(v, start) == SubSeq(Content(v), start + 1, LenOf(v))

LEMMA ViewFromIs ==
    ASSUME NEW v \in Vecs, NEW start \in Nat, start <= LenOf(v)
    PROVE  ViewFrom(v, start).data \in Vecs /\ Content(ViewFrom(v, start).data) = From(v, start)
<1> DEFINE r == Reader(v)
           s == Skip(r, start)
           n == LenOf(v) - start
<1>1. /\ r \in Readers /\ Firm(r) /\ Offset(r) = 0 /\ DataOf(r) = Content(v)
      /\ LenOf(v) \in Nat /\ Remaining(r) = LenOf(v) /\ r.chunks = v.items
  BY ReaderIs
<1> HIDE DEF r
<1>2. /\ s.r \in Readers /\ s.r.chunks = r.chunks /\ Firm(s.r)
      /\ Offset(s.r) = Offset(r) + Least(start, Remaining(r))
      /\ s.ok <=> start <= Remaining(r)
  BY <1>1, SkipIs
<1>3. Offset(s.r) = start /\ s.ok
  BY <1>1, <1>2 DEF Least
<1>4. n \in Nat /\ start + n = LenOf(v)
  BY <1>1
<1>5. ViewFrom(v, start) = ReadChunks(s.r, n)
  BY <1>3 DEF ViewFrom, r
<1> HIDE DEF s, n
<1>6. DataOf(s.r) = Content(v) /\ LenOf(v) = Len(Content(v))
  BY <1>1, <1>2 DEF DataOf, LenOf
<1>7. n <= Remaining(s.r)
  <2>1. Remaining(s.r) = Len(DataOf(s.r)) - Offset(s.r)
    BY <1>2, OffsetIn
  <2> QED
    BY <1>1, <1>3, <1>4, <1>6, <2>1
<1>8. /\ ReadChunks(s.r, n).data \in Vecs
      /\ Gives(s.r, Ok(Content(ReadChunks(s.r, n).data), ReadChunks(s.r, n).r), n)
  BY <1>2, <1>4, <1>7, ViewsAre
<1>9. Content(ReadChunks(s.r, n).data) = Ahead(s.r, n)
  BY <1>8 DEF Gives, Ok
<1>10. Ahead(s.r, n) = From(v, start)
  BY <1>3, <1>4, <1>6 DEF Ahead, Part, From
<1> QED
  BY <1>5, <1>8, <1>9, <1>10

LEMMA ItemsIs ==
    ASSUME NEW v \in Vecs
    PROVE  Items(v) = v.items
<1> DEFINE s == v.items
<1>1. s \in Seq(Chunk) /\ (v.kind = "single" => Len(s) = 1) /\ Len(s) \in Nat
  BY LenProperties DEF Vecs
<1>2. CASE v.kind = "single" \/ s = <<>>
  <2>1. Items(v) = <<>> \o s
    BY <1>2 DEF Items, IntoIter
  <2> QED
    BY <1>1, <2>1, ConcatEmptySeq
<1>3. CASE ~(v.kind = "single" \/ s = <<>>)
  <2>1. Items(v) = Front(s) \o <<Last(s)>>
    BY <1>3 DEF Items, IntoIter
  <2> HIDE DEF s
  <2> DEFINE n == Len(s)
             a == Front(s)
             x == s[n]
  <2>2. n \in Nat /\ n # 0 /\ n - 1 \in Nat /\ n \in 1..n /\ x \in Chunk
    BY <1>1, <1>3, EmptySeq, ElementOfSeq
  <2>3. a = SubSeq(s, 1, n - 1) /\ Last(s) = x
    BY DEF Front, Last
  <2>4. a \in Seq(Chunk) /\ Len(a) = n - 1 /\ \A i \in 1..(n - 1) : a[i] = s[i]
    <3>1. \A i \in 1..(n - 1) : s[i] \in Chunk
      BY <1>1, <2>2, ElementOfSeq
    <3> HIDE DEF a, n
    <3> QED
      BY <2>2, <2>3, <3>1, SubSeqProperties
  <2>5. Append(a, x) \in Seq(Chunk) /\ Len(Append(a, x)) = n
        /\ \A i \in 1..n : Append(a, x)[i] = s[i]
    <3> HIDE DEF a, x
    <3>1. /\ Append(a, x) \in Seq(Chunk) /\ Len(Append(a, x)) = Len(a) + 1
          /\ \A i \in 1..Len(a) : Append(a, x)[i] = a[i]
          /\ Append(a, x)[Len(a) + 1] = x
      BY <2>2, <2>4, AppendProperties
    <3>2. Len(a) + 1 = n /\ \A i \in 1..n : i = n \/ i \in 1..(n - 1)
      BY <2>2, <2>4
    <3> QED
      BY <2>2, <2>4, <3>1, <3>2 DEF x
  <2>6. Append(a, x) = s
    BY <1>1, <2>5, SeqEqual
  <2>7. Append(a, x) = a \o <<x>>
    BY <2>2, <2>4, AppendIsConcat
  <2> QED
    BY <2>1, <2>3, <2>6, <2>7 DEF s
<1> QED
  BY <1>2, <1>3

\* extend: the chunks of more are pushed one after the other.
LEMMA ExtendIs ==
    ASSUME NEW b \in Vecs, NEW more \in Vecs
    PROVE  Extend(b, more) \in Vecs /\ Content(Extend(b, more)) = Content(b) \o Content(more)
<1> DEFINE cs == Items(more)
           after[k \in Nat] == IF k = 0 THEN b ELSE PushChunk(after[k - 1], cs[k])
           X == {cs[k] : k \in Nat} \cup {b.items[k] : k \in 1..Len(b.items)}
           S == [kind : {"vec", "single"}, items : Seq(X), grown : BOOLEAN]
           G == [k \in Nat |-> [v \in S |-> PushChunk(v, cs[k + 1])]]
<1>1. /\ cs \in Seq(Chunk) /\ Len(cs) \in Nat /\ Content(more) = FlattenSeq(cs)
      /\ cs \in Seq(Seq(Nat))
  <2>1. cs = more.items /\ more.items \in Seq(Chunk)
    BY ItemsIs, ReaderIs
  <2> QED
    BY <2>1, ChunkSeqs DEF Content
<1>2. b \in S
  <2>1. /\ b \in [kind : {"vec", "single"}, items : Seq(Chunk), grown : BOOLEAN]
        /\ b.items \in Seq(Chunk)
    BY DEF Vecs
  <2>2. b.items \in Seq(X)
    <3>1. \A k \in 1..Len(b.items) : b.items[k] \in X
      OBVIOUS
    <3> HIDE DEF X
    <3>2. Len(b.items) \in Nat
      BY <2>1, LenProperties
    <3>3. b.items = [k \in 1..Len(b.items) |-> b.items[k]]
      BY <2>1
    <3> QED
      BY <3>1, <3>2, <3>3
  <2> HIDE DEF X
  <2> QED
    BY <2>1, <2>2
<1>3. ASSUME NEW k \in Nat, NEW v \in S PROVE PushChunk(v, cs[k + 1]) \in S
  <2> DEFINE c == cs[k + 1]
  <2>1. c \in X
    OBVIOUS
  <2> HIDE DEF X, c
  <2>2. Append(v.items, c) \in Seq(X) /\ <<c>> \in Seq(X)
    BY <2>1, AppendProperties
  <2> QED
    BY <2>2 DEF PushChunk, PushItem, Single, c
<1> HIDE DEF S, X, cs
<1>4. G \in [Nat -> [S -> S]] /\ \A k \in Nat : \A v \in S : G[k][v] = PushChunk(v, cs[k + 1])
  BY <1>3
<1> HIDE DEF G
<1>5. PICK f : Chain(f, S, b, G)
  BY <1>2, <1>4, ChainExists, Zenon
<1>6. f \in [Nat -> S] /\ f[0] = b /\ \A k \in Nat : f[k + 1] = PushChunk(f[k], cs[k + 1])
  BY <1>4, <1>5 DEF Chain
<1>7. ASSUME NEW k \in Nat PROVE f[k] = IF k = 0 THEN b ELSE PushChunk(f[k - 1], cs[k])
  <2>1. k # 0 => k - 1 \in Nat /\ (k - 1) + 1 = k
    OBVIOUS
  <2> QED
    BY <1>6, <2>1
<1>8. f = [k \in Nat |-> IF k = 0 THEN b ELSE PushChunk(f[k - 1], cs[k])]
  BY <1>6, <1>7
<1>9. after = [k \in Nat |-> IF k = 0 THEN b ELSE PushChunk(after[k - 1], cs[k])]
  BY <1>8
<1>10. Extend(b, more) = after[Len(cs)]
  BY DEF Extend, cs
<1> HIDE DEF after
<1> DEFINE T == {k \in Nat : k <= Len(cs) =>
                 after[k] \in Vecs /\ Content(after[k]) = Content(b) \o Pre(cs, k)}
<1>11. Content(b) \in Seq(Nat) /\ Content(b) \o <<>> = Content(b)
  BY ReaderIs, ConcatEmptySeq
<1>12. 0 \in T
  <2>1. after[0] = b /\ Pre(cs, 0) = <<>>
    BY <1>1, <1>9, PreSteps
  <2> QED
    BY <1>11, <2>1
<1>13. ASSUME NEW k \in Nat, k \in T PROVE k + 1 \in T
  <2> SUFFICES ASSUME k + 1 <= Len(cs)
               PROVE  after[k + 1] \in Vecs /\ Content(after[k + 1]) = Content(b) \o Pre(cs, k + 1)
    OBVIOUS
  <2>1. k <= Len(cs) /\ k \in 0..Len(cs) /\ k + 1 \in 1..Len(cs) /\ (k + 1) - 1 = k /\ k + 1 # 0
        /\ k + 1 \in Nat
    BY <1>1
  <2>2. after[k] \in Vecs /\ Content(after[k]) = Content(b) \o Pre(cs, k)
    BY <1>13, <2>1
  <2>3. after[k + 1] = PushChunk(after[k], cs[k + 1])
    BY <1>9, <2>1
  <2>4. Pre(cs, k + 1) = Pre(cs, k) \o cs[k + 1] /\ Pre(cs, k) \in Seq(Nat)
    BY <1>1, <2>1, PreSteps
  <2>5. cs[k + 1] \in Seq(Nat)
    BY <1>1, <2>1, ElementOfSeq
  <2> DEFINE c == cs[k + 1]
             v == after[k]
  <2>6. v \in Vecs /\ c \in Seq(Nat)
    BY <2>2, <2>5
  <2> HIDE DEF c, v
  <2>7. PushChunk(v, c) \in Vecs /\ Content(PushChunk(v, c)) = Content(v) \o c
    BY <2>6, PushIs
  <2>8. Assoc(Content(b), Pre(cs, k), c)
    BY <1>11, <2>4, <2>6, Associative
  <2> QED
    BY <2>2, <2>3, <2>4, <2>7, <2>8 DEF Assoc, c, v
<1> HIDE DEF T
<1>14. Len(cs) \in T
  BY <1>1, <1>12, <1>13, SetInduction
<1>15. Pre(cs, Len(cs)) = FlattenSeq(cs)
  BY <1>1, PreSteps
<1> QED
  BY <1>1, <1>10, <1>14, <1>15 DEF T

----------------------------------------------------------------------------
(* Variable-length integers *)

LEMMA WeightIs ==
    /\ Weight \in [Nat -> Nat] /\ Weight[0] = 1
    /\ \A i \in Nat : Weight[i + 1] = Group * Weight[i]
<1> DEFINE G == [k \in Nat |-> [v \in Nat |-> Group * v]]
<1>1. Group \in Nat
  BY CodecAssumption
<1>2. ASSUME NEW v \in Nat PROVE Group * v \in Nat
  BY <1>1
<1>3. G \in [Nat -> [Nat -> Nat]] /\ \A k \in Nat : \A v \in Nat : G[k][v] = Group * v
  BY <1>2
<1> HIDE DEF G
<1>4. PICK f : Chain(f, Nat, 1, G)
  <2>1. 1 \in Nat
    OBVIOUS
  <2> QED
    BY <1>3, <2>1, ChainExists, Zenon
<1>5. f \in [Nat -> Nat] /\ f[0] = 1 /\ \A k \in Nat : f[k + 1] = Group * f[k]
  BY <1>3, <1>4 DEF Chain
<1>6. ASSUME NEW i \in Nat PROVE f[i] = IF i = 0 THEN 1 ELSE Group * f[i - 1]
  <2>1. i # 0 => i - 1 \in Nat /\ (i - 1) + 1 = i
    OBVIOUS
  <2> QED
    BY <1>5, <2>1
<1>7. f = [i \in Nat |-> IF i = 0 THEN 1 ELSE Group * f[i - 1]]
  BY <1>5, <1>6
<1>8. Weight = [i \in Nat |-> IF i = 0 THEN 1 ELSE Group * Weight[i - 1]]
  BY <1>7 DEF Weight
<1> HIDE DEF Weight
<1>9. Weight[0] = 1
  BY <1>8
<1>10. ASSUME NEW i \in Nat PROVE Weight[i + 1] = Group * Weight[i]
  <2>1. i + 1 \in Nat /\ i + 1 # 0 /\ (i + 1) - 1 = i
    OBVIOUS
  <2> QED
    BY <1>8, <2>1
<1> DEFINE T == {i \in Nat : Weight[i] \in Nat}
<1>11. 0 \in T
  BY <1>9
<1>12. ASSUME NEW i \in Nat, i \in T PROVE i + 1 \in T
  BY <1>2, <1>10, <1>12
<1> HIDE DEF T
<1>13. Nat \subseteq T
  BY <1>11, <1>12, SetInduction
<1>14. \A i \in Nat : Weight[i] \in Nat
  BY <1>13 DEF T
<1>15. Weight \in [Nat -> Nat]
  BY <1>8, <1>14
<1> QED
  BY <1>9, <1>10, <1>15

LEMMA WeightPositive ==
    ASSUME NEW i \in Nat
    PROVE  Weight[i] \in Nat /\ Weight[i] > 0
<1> DEFINE T == {k \in Nat : Weight[k] > 0}
<1>1. Group \in Nat /\ Group > 0
  BY CodecAssumption
<1>2. 0 \in T
  BY WeightIs
<1>3. ASSUME NEW k \in Nat, k \in T PROVE k + 1 \in T
  <2> DEFINE w == Weight[k]
  <2>1. w \in Nat /\ w > 0 /\ Weight[k + 1] = Group * w
    BY <1>3, WeightIs
  <2> HIDE DEF w
  <2>2. Group * w > 0
    BY <1>1, <2>1
  <2> QED
    BY <2>1, <2>2
<1> HIDE DEF T
<1>4. i \in T
  BY <1>2, <1>3, SetInduction
<1> QED
  BY <1>4, WeightIs DEF T

\* The least element of a set of numbers.
LEMMA LeastElement ==
    ASSUME NEW U, U \subseteq Nat, U # {}
    PROVE  \E n \in U : n = 0 \/ n - 1 \notin U
<1>1. PICK m \in U : \A y \in U : ~(<<y, m>> \in OpToRel(<, Nat))
  BY WFMin, NatLessThanWellFounded
<1>2. \A y \in U : ~(y < m)
  BY <1>1 DEF OpToRel
<1>3. m \in Nat /\ (m # 0 => m - 1 < m)
  OBVIOUS
<1>4. m = 0 \/ m - 1 \notin U
  BY <1>2, <1>3
<1> QED
  BY <1>4

\* Length of an integer.
LEMMA VleLenIs ==
    ASSUME NEW x \in Nat
    PROVE  /\ VleLen(x) \in 1..VleMax /\ VleLen(x) \in Nat
           /\ VleLen(x) = VleMax \/ x < Weight[VleLen(x)]
           /\ VleLen(x) > 1 => x >= Weight[VleLen(x) - 1]
<1> DEFINE P(n) == /\ n = VleMax \/ x < Weight[n]
                   /\ n > 1 => x >= Weight[n - 1]
           U == {n \in Nat : n + 1 \in 1..VleMax /\ (n + 1 = VleMax \/ x < Weight[n + 1])}
<1>1. VleMax \in Nat /\ VleMax # 0
  BY CodecAssumption
<1>2. \A n \in Nat : Weight[n] \in Nat
  BY WeightIs
<1>3. PICK n \in U : n = 0 \/ n - 1 \notin U
  <2>1. VleMax - 1 \in Nat /\ (VleMax - 1) + 1 = VleMax /\ VleMax \in 1..VleMax
    BY <1>1
  <2>2. VleMax - 1 \in U
    BY <2>1
  <2>3. U \subseteq Nat /\ U # {}
    BY <2>2
  <2> HIDE DEF U
  <2> QED
    BY <2>3, LeastElement, Zenon
<1>4. n + 1 \in 1..VleMax /\ n \in Nat /\ (n + 1 = VleMax \/ x < Weight[n + 1])
  OBVIOUS
<1>5. n + 1 > 1 => x >= Weight[(n + 1) - 1]
  <2> SUFFICES ASSUME n # 0 PROVE x >= Weight[n]
    BY <1>4
  <2>1. n - 1 \in Nat /\ (n - 1) + 1 = n /\ n \in 1..VleMax /\ n # VleMax
    BY <1>1, <1>4
  <2>2. ~(x < Weight[n])
    BY <1>3, <2>1
  <2> QED
    BY <1>2, <1>4, <2>2
<1>6. \E l \in 1..VleMax : P(l)
  BY <1>4, <1>5
<1>7. VleLen(x) = CHOOSE l \in 1..VleMax : P(l)
  BY DEF VleLen
<1> HIDE DEF P
<1>8. VleLen(x) \in 1..VleMax /\ P(VleLen(x))
  BY <1>6, <1>7
<1> QED
  BY <1>1, <1>8 DEF P

LEMMA VleBytesAre ==
    ASSUME NEW x \in Nat
    PROVE  VleBytes(x) \in Chunk /\ VleBytes(x) \in Seq(Nat) /\ Len(VleBytes(x)) = VleLen(x)
<1> DEFINE n == VleLen(x)
           Byte(i) == LET rest == x \div Weight[i - 1] IN
                      IF rest >= Group THEN Group + (rest % Group) ELSE rest
<1>1. n \in Nat /\ n >= 1
  <2>1. VleMax \in Nat
    BY CodecAssumption
  <2> QED
    BY <2>1, VleLenIs
<1>2. ASSUME NEW i \in 1..n PROVE Byte(i) \in Nat
  <2> DEFINE w == Weight[i - 1]
             rest == x \div w
  <2>1. i - 1 \in Nat
    BY <1>1
  <2>2. w \in Nat /\ w > 0
    BY <2>1, WeightPositive
  <2> HIDE DEF w
  <2>3. rest \in Nat
    BY <2>2
  <2> HIDE DEF rest
  <2>4. Group \in Nat /\ Group > 0
    BY CodecAssumption
  <2>5. rest % Group \in Nat
    BY <2>3, <2>4
  <2> QED
    BY <2>3, <2>4, <2>5 DEF rest, w
<1>3. VleBytes(x) = [i \in 1..n |-> Byte(i)]
  BY DEF VleBytes
<1> HIDE DEF n, Byte
<1>4. VleBytes(x) \in Seq(Nat) /\ Len(VleBytes(x)) = n
  BY <1>1, <1>2, <1>3
<1>5. VleBytes(x) # <<>>
  BY <1>1, <1>4, EmptySeq
<1> QED
  BY <1>4, <1>5 DEF n, Chunk

\* Quotients.
LEMMA DivIs ==
    ASSUME NEW n \in Nat, n > 0, NEW p \in Nat, NEW d \in Nat, d < n, NEW x \in Nat, x = n * p + d
    PROVE  x \div n = p
<1> DEFINE q == x \div n
           e == x % n
<1>1. q \in Nat /\ e \in Nat /\ e < n /\ x = n * q + e
  OBVIOUS
<1> HIDE DEF q, e
<1>2. CASE q < p
  <2>1. n * (q + 1) <= n * p
    BY <1>1, <1>2
  <2>2. n * (q + 1) = n * q + n
    BY <1>1
  <2> QED
    BY <1>1, <2>1, <2>2
<1>3. CASE p < q
  <2>1. n * (p + 1) <= n * q
    BY <1>1, <1>3
  <2>2. n * (p + 1) = n * p + n
    OBVIOUS
  <2> QED
    BY <1>1, <2>1, <2>2
<1>4. q = p
  BY <1>1, <1>2, <1>3
<1> QED
  BY <1>4 DEF q

LEMMA DivDiv ==
    ASSUME NEW w \in Nat, w > 0, NEW g \in Nat, g > 0, NEW x \in Nat
    PROVE  x \div (g * w) = (x \div w) \div g
<1> DEFINE q == x \div w
           a == x % w
           p == q \div g
           c == q % g
           d == w * c + a
<1>1. q \in Nat /\ a \in Nat /\ a < w /\ x = w * q + a
  OBVIOUS
<1> HIDE DEF q, a
<1>2. p \in Nat /\ c \in Nat /\ c < g /\ q = g * p + c
  BY <1>1
<1> HIDE DEF p, c
<1>3. w * (g * p + c) = (g * w) * p + w * c
  BY <1>2
<1>4. w * c \in Nat /\ d \in Nat
  BY <1>1, <1>2
<1>5. d < g * w
  <2>1. w * (c + 1) <= w * g
    BY <1>2
  <2>2. w * (c + 1) = w * c + w
    BY <1>2
  <2>3. w * g = g * w
    OBVIOUS
  <2> QED
    BY <1>1, <1>4, <2>1, <2>2, <2>3
<1>6. g * w \in Nat /\ g * w > 0
  OBVIOUS
<1>7. x = (g * w) * p + d
  <2>1. x = w * (g * p + c) + a
    BY <1>1, <1>2, Zenon
  <2> DEFINE u == w * (g * p + c)
             v == (g * w) * p
             t == w * c
  <2>2. u \in Int /\ v \in Int /\ t \in Int /\ u = v + t /\ x = u + a /\ d = t + a
    BY <1>2, <1>3, <2>1
  <2> HIDE DEF u, v, t, d
  <2>3. x = v + d
    BY <1>1, <2>2
  <2> QED
    BY <2>3 DEF v
<1> DEFINE n == g * w
<1>8. n \in Nat /\ n > 0 /\ d < n /\ x = n * p + d
  BY <1>5, <1>6, <1>7
<1> HIDE DEF n, d
<1>9. x \div n = p
  BY <1>2, <1>4, <1>8, DivIs
<1> QED
  BY <1>9 DEF n, p, q

LEMMA DivBound ==
    ASSUME NEW w \in Nat, w > 0, NEW x \in Nat, NEW n \in Nat
    PROVE  x \div w \in Nat /\ (x \div w >= n <=> x >= w * n)
<1> DEFINE q == x \div w
           a == x % w
<1>1. q \in Nat /\ a \in Nat /\ a < w /\ x = w * q + a
  OBVIOUS
<1> HIDE DEF q, a
<1>2. CASE q >= n
  <2>1. w * q >= w * n
    BY <1>1, <1>2
  <2> QED
    BY <1>1, <1>2, <2>1 DEF q
<1>3. CASE q < n
  <2>1. w * n >= w * (q + 1)
    BY <1>1, <1>3
  <2>2. w * (q + 1) = w * q + w
    BY <1>1
  <2>3. w * n \in Nat /\ w * q \in Nat
    BY <1>1
  <2>4. x < w * n
    BY <1>1, <2>1, <2>2, <2>3
  <2>5. ~(q >= n) /\ ~(x >= w * n)
    BY <1>1, <1>3, <2>3, <2>4
  <2> QED
    BY <1>1, <2>5 DEF q
<1>4. q >= n \/ q < n
  BY <1>1
<1> QED
  BY <1>2, <1>3, <1>4

\* Of two weights the later one counts more.
LEMMA WeightGrows ==
    ASSUME NEW i \in Nat, NEW j \in Nat, i <= j
    PROVE  Weight[i] <= Weight[j]
<1> DEFINE T == {k \in Nat : Weight[i] <= Weight[i + k]}
<1>1. 0 \in T
  <2>1. Weight[i] \in Nat /\ i + 0 = i
    BY WeightIs
  <2> QED
    BY <2>1
<1>2. ASSUME NEW k \in Nat, k \in T PROVE k + 1 \in T
  <2> DEFINE v == Weight[i]
             w == Weight[i + k]
  <2>1. i + k \in Nat /\ i + (k + 1) = (i + k) + 1
    OBVIOUS
  <2>2. v \in Nat /\ w \in Nat /\ Weight[i + (k + 1)] = Group * w /\ v <= w
    BY <1>2, <2>1, WeightIs
  <2>3. Group \in Nat /\ Group >= 1
    BY CodecAssumption
  <2> HIDE DEF v, w
  <2>4. Group * w >= w
    BY <2>2, <2>3
  <2>5. v <= Group * w
    BY <2>2, <2>3, <2>4
  <2> QED
    BY <2>2, <2>5 DEF v
<1> HIDE DEF T
<1>3. j - i \in Nat /\ i + (j - i) = j
  OBVIOUS
<1>4. j - i \in T
  BY <1>1, <1>2, <1>3, SetInduction
<1> QED
  BY <1>3, <1>4 DEF T

\* The k-th byte of an integer x, from 0: it is marked if it is not the last one, and
\* what it counts makes the value read so far that of the groups read so far.
Marked(b, k) == b >= Group /\ k # VleMax - 1
Count(b, k) == IF Marked(b, k) THEN b % Group ELSE b
Low(x, k) == x - Weight[k] * (x \div Weight[k])

LEMMA VleByteIs ==
    ASSUME NEW x \in Nat, x <= MaxVle, NEW k \in Nat, k < VleLen(x)
    PROVE  /\ Marked(VleBytes(x)[k + 1], k) <=> k + 1 # VleLen(x)
           /\ Low(x, k) + Count(VleBytes(x)[k + 1], k) * Weight[k]
                = IF k + 1 = VleLen(x) THEN x ELSE Low(x, k + 1)
<1> DEFINE n == VleLen(x)
           w == Weight[k]
           q == x \div w
           c == q % Group
           b == VleBytes(x)[k + 1]
<1>1. n \in 1..VleMax /\ n \in Nat /\ VleMax \in Nat /\ k + 1 <= n /\ k + 1 <= VleMax
  BY VleLenIs, CodecAssumption
<1>2. Group \in Nat /\ Group > 1
  BY CodecAssumption
<1>3. w \in Nat /\ w > 0 /\ Weight[k + 1] = Group * w
  BY WeightIs, WeightPositive
<1>4. b = IF q >= Group THEN Group + c ELSE q
  <2>1. k + 1 \in 1..n /\ (k + 1) - 1 = k
    BY <1>1
  <2> HIDE DEF n
  <2> QED
    BY <2>1 DEF VleBytes, n
<1>5. q >= Group <=> x >= w * Group
  BY <1>2, <1>3, DivBound
<1>6. /\ q \in Nat /\ x - w * q \in Nat /\ w * q \in Nat
      /\ c \in Nat /\ c < Group /\ q = Group * (q \div Group) + c /\ q \div Group \in Nat
  <2> HIDE DEF w
  <2>1. q \in Nat /\ x % w \in Nat /\ x = w * q + (x % w)
    BY <1>3
  <2> HIDE DEF q
  <2>2. w * q \in Nat /\ x - w * q \in Nat
    BY <1>3, <2>1
  <2>3. /\ q % Group \in Nat /\ q % Group < Group /\ q \div Group \in Nat
        /\ q = Group * (q \div Group) + (q % Group)
    BY <1>2, <2>1
  <2> QED
    BY <2>1, <2>2, <2>3
<1>7. Low(x, k) = x - w * q
  BY DEF Low
<1>8. CASE k + 1 # n
  <2>1. k + 1 <= n - 1 /\ n - 1 \in Nat /\ n > 1 /\ k # VleMax - 1
    BY <1>1, <1>8
  <2>2. x >= Weight[n - 1] /\ Weight[n - 1] >= Weight[k + 1] /\ Weight[n - 1] \in Nat
    BY <2>1, VleLenIs, WeightGrows, WeightIs
  <2>3. x >= w * Group
    <3>1. Weight[k + 1] = w * Group /\ w * Group \in Nat
      BY <1>2, <1>3
    <3> QED
      BY <2>2, <3>1
  <2>4. b = Group + c /\ b >= Group
    BY <1>2, <1>4, <1>5, <1>6, <2>3
  <2>5. Marked(b, k)
    BY <2>1, <2>4 DEF Marked
  <2>6. Count(b, k) = c
    <3> HIDE DEF b, c
    <3>1. c \in Nat /\ c < Group
      BY <1>6
    <3>2. (Group + c) % Group = c
      BY <1>2, <3>1
    <3> QED
      BY <2>4, <2>5, <3>2 DEF Count
  <2> DEFINE p == q \div Group
  <2>7. Low(x, k + 1) = x - (Group * w) * p
    <3>1. x \div (Group * w) = p
      BY <1>2, <1>3, DivDiv
    <3> QED
      BY <1>3, <3>1 DEF Low
  <2>8. (x - w * q) + c * w = x - (Group * w) * p
    <3> HIDE DEF w, q, c, p
    <3>1. p \in Nat /\ q = Group * p + c
      BY <1>6 DEF p
    <3>2. w * (Group * p + c) = (Group * w) * p + c * w
      BY <1>2, <1>3, <1>6, <3>1
    <3> DEFINE u == w * q
               v == (Group * w) * p
               t == c * w
    <3>3. u \in Int /\ v \in Int /\ t \in Int
      BY <1>2, <1>3, <1>6, <3>1
    <3>4. u = v + t
      BY <3>1, <3>2, Zenon
    <3> HIDE DEF u, v, t
    <3>5. (x - u) + t = x - v
      BY <3>3, <3>4
    <3> QED
      BY <3>5 DEF u, v, t
  <2>9. Low(x, k) + Count(b, k) * w = Low(x, k + 1)
    <3> HIDE DEF w, q, c, p, b
    <3> QED
      BY <1>7, <2>6, <2>7, <2>8, Zenon
  <2> QED
    BY <1>8, <2>5, <2>9
<1>9. CASE k + 1 = n
  <2>1. b = q /\ ~Marked(b, k)
    <3>1. CASE n # VleMax
      <4>1. x < Group * w
        BY <1>3, <1>9, <3>1, VleLenIs
      <4>2. ~(x >= w * Group)
        <5> HIDE DEF w
        <5>1. w * Group = Group * w /\ w * Group \in Nat
          BY <1>2, <1>3
        <5> QED
          BY <4>1, <5>1
      <4>3. ~(q >= Group)
        BY <1>5, <4>2
      <4> QED
        BY <1>4, <4>3 DEF Marked
    <3>2. CASE n = VleMax
      <4>1. k = VleMax - 1
        BY <1>1, <1>9, <3>2
      <4>2. x < w * (2 * Group)
        <5>1. x <= w * 2 * Group - 1
          BY <4>1 DEF MaxVle
        <5> HIDE DEF w
        <5>2. w * 2 * Group = w * (2 * Group) /\ w * (2 * Group) \in Nat
          BY <1>2, <1>3
        <5> QED
          BY <5>1, <5>2
      <4>3. q < 2 * Group
        <5>1. 2 * Group \in Nat
          BY <1>2
        <5>2. q >= 2 * Group <=> x >= w * (2 * Group)
          BY <1>3, <5>1, DivBound
        <5>3. w * (2 * Group) \in Nat
          BY <1>3, <5>1
        <5> HIDE DEF w, q
        <5>4. ~(x >= w * (2 * Group))
          BY <4>2, <5>3
        <5> QED
          BY <1>6, <5>1, <5>2, <5>4
      <4>4. q >= Group => c = q - Group
        <5> HIDE DEF q
        <5> QED
          BY <1>2, <1>6, <4>3
      <4>5. b = q
        <5> HIDE DEF b, q, c
        <5> QED
          BY <1>2, <1>4, <1>6, <4>4
      <4> QED
        BY <4>1, <4>5 DEF Marked
    <3> QED
      BY <3>1, <3>2
  <2>2. Count(b, k) = q
    BY <2>1 DEF Count
  <2>3. Low(x, k) + q * w = x
    <3> HIDE DEF w, q
    <3>1. q * w = w * q
      BY <1>3, <1>6
    <3> QED
      BY <1>6, <1>7, <3>1
  <2>4. Low(x, k) + Count(b, k) * w = x
    <3> HIDE DEF w, q, b
    <3> QED
      BY <2>2, <2>3, Zenon
  <2> QED
    BY <1>9, <2>1, <2>4
<1> QED
  BY <1>8, <1>9

----------------------------------------------------------------------------
(* Reading an integer *)

VleStates(r) ==
    {v \in [r : Readers, i : Nat, on : BOOLEAN, ok : BOOLEAN, value : Nat] :
        v.r.chunks = r.chunks /\ (Firm(r) => Firm(v.r))}

LEMMA VleTurns ==
    ASSUME NEW r \in Readers, NEW v \in VleStates(r)
    PROVE  VleTurn(v) \in VleStates(r)
<1> DEFINE b == ReadU8(v.r)
           x == b.data[1]
           marked == x >= Group /\ v.i # VleMax - 1
           y == IF marked THEN x % Group ELSE x
           value == v.value + y * Weight[v.i]
<1>1. /\ v \in [r : Readers, i : Nat, on : BOOLEAN, ok : BOOLEAN, value : Nat]
      /\ v.r \in Readers /\ v.i \in Nat /\ v.value \in Nat
      /\ v.r.chunks = r.chunks /\ (Firm(r) => Firm(v.r))
  BY DEF VleStates
<1>2. VleTurn(v) = IF ~v.on THEN v
                   ELSE IF ~b.ok THEN [v EXCEPT !.on = FALSE, !.ok = FALSE]
                   ELSE [r |-> b.r, i |-> v.i + 1, on |-> marked, ok |-> TRUE, value |-> value]
  BY DEF VleTurn, Taken
<1>3. CASE ~v.on
  BY <1>2, <1>3
<1>4. CASE v.on /\ ~b.ok
  <2>1. VleTurn(v) = [v EXCEPT !.on = FALSE, !.ok = FALSE]
    BY <1>2, <1>4
  <2> HIDE DEF b, x, marked, y, value
  <2> QED
    BY <1>1, <2>1 DEF VleStates
<1>5. CASE v.on /\ b.ok
  <2>1. Gets(v.r, b, 1) /\ x \in Nat
    BY <1>1, <1>5, ReadU8Is DEF Refuses
  <2>2. b.r \in Readers /\ b.r.chunks = r.chunks /\ Firm(b.r)
    BY <1>1, <2>1 DEF Gets, Gives
  <2>3. VleTurn(v) = [r |-> b.r, i |-> v.i + 1, on |-> marked, ok |-> TRUE, value |-> value]
    BY <1>2, <1>5
  <2> HIDE DEF b, x
  <2>4. y \in Nat
    <3>1. Group \in Nat /\ Group > 0
      BY CodecAssumption
    <3>2. x % Group \in Nat
      BY <2>1, <3>1
    <3> QED
      BY <2>1, <3>2
  <2>5. marked \in BOOLEAN
    OBVIOUS
  <2> HIDE DEF y, marked
  <2> DEFINE w == Weight[v.i]
  <2>6. w \in Nat
    BY <1>1, WeightIs
  <2> HIDE DEF w
  <2>7. y * w \in Nat
    BY <2>4, <2>6
  <2>8. v.value + y * w \in Nat
    BY <1>1, <2>7
  <2>9. value \in Nat
    BY <2>8 DEF w
  <2> HIDE DEF value
  <2>10. v.i + 1 \in Nat
    BY <1>1
  <2> QED
    BY <2>2, <2>3, <2>5, <2>9, <2>10 DEF VleStates
<1> QED
  BY <1>3, <1>4, <1>5

VleStart(r) == [r |-> r, i |-> 0, on |-> TRUE, ok |-> TRUE, value |-> 0]

\* The turns of ReadVle.
LEMMA VleRun ==
    ASSUME NEW r \in Readers
    PROVE  \E f \in [Nat -> VleStates(r)] :
               /\ f[0] = VleStart(r) /\ \A k \in Nat : f[k + 1] = VleTurn(f[k])
               /\ ReadVle(r) = Whole(f[VleMax])
<1> DEFINE S == VleStates(r)
           start == VleStart(r)
           after[k \in Nat] == IF k = 0 THEN start ELSE VleTurn(after[k - 1])
           G == [v \in S |-> VleTurn(v)]
<1>1. start \in S
  BY DEF VleStates, VleStart
<1>2. G \in [S -> S] /\ \A v \in S : G[v] = VleTurn(v)
  BY VleTurns
<1>3. ReadVle(r) = Whole(after[VleMax])
  BY DEF ReadVle, Loop, VleStart
<1> HIDE DEF S, start, G
<1>4. PICK f : Turns(f, S, start, G)
  BY <1>1, <1>2, TurnsExist, Zenon
<1>5. f \in [Nat -> S] /\ f = [k \in Nat |-> IF k = 0 THEN start ELSE G[f[k - 1]]]
  BY <1>4 DEF Turns
<1>6. \A k \in Nat : k # 0 => k - 1 \in Nat /\ G[f[k - 1]] = VleTurn(f[k - 1])
  BY <1>2, <1>5
<1>7. f = [k \in Nat |-> IF k = 0 THEN start ELSE VleTurn(f[k - 1])]
  BY <1>5, <1>6
<1>8. after = [k \in Nat |-> IF k = 0 THEN start ELSE VleTurn(after[k - 1])]
  BY <1>7
<1> HIDE DEF after
<1>9. after[0] = start
  BY <1>8
<1>10. ASSUME NEW k \in Nat PROVE after[k + 1] = VleTurn(after[k])
  <2>1. k + 1 \in Nat /\ k + 1 # 0 /\ (k + 1) - 1 = k
    OBVIOUS
  <2> QED
    BY <1>8, <2>1
<1> DEFINE T == {k \in Nat : after[k] \in S}
<1>11. 0 \in T
  BY <1>1, <1>9
<1>12. ASSUME NEW k \in Nat, k \in T PROVE k + 1 \in T
  BY <1>10, <1>12, VleTurns DEF S
<1> HIDE DEF T
<1>13. Nat \subseteq T
  BY <1>11, <1>12, SetInduction
<1>14. after \in [Nat -> S]
  BY <1>8, <1>13 DEF T
<1> QED
  BY <1>3, <1>9, <1>10, <1>14, Zenon DEF S, start

\* What a decoder leaves: a reader of the same bytes, never at the end of a chunk.
Follows(r, q) == q \in Readers /\ q.chunks = r.chunks /\ (Firm(r) => Firm(q))

LEMMA ReadVleIs ==
    ASSUME NEW r \in Readers
    PROVE  /\ ReadVle(r).ok \in BOOLEAN /\ Follows(r, ReadVle(r).r)
           /\ ReadVle(r).ok => ReadVle(r).data \in Nat
           /\ ~ReadVle(r).ok => ReadVle(r) = Fail(ReadVle(r).r)
<1>1. PICK f \in [Nat -> VleStates(r)] : ReadVle(r) = Whole(f[VleMax])
  BY VleRun
<1> DEFINE end == f[VleMax]
<1>2. end \in VleStates(r)
  BY CodecAssumption
<1> HIDE DEF end
<1>3. /\ end.r \in Readers /\ end.ok \in BOOLEAN /\ end.value \in Nat
      /\ end.r.chunks = r.chunks /\ (Firm(r) => Firm(end.r))
  BY <1>2 DEF VleStates
<1>4. ReadVle(r) = IF end.ok THEN Ok(end.value, end.r) ELSE Fail(end.r)
  BY <1>1 DEF end, Whole
<1> QED
  BY <1>3, <1>4 DEF Ok, Fail, Follows

LEMMA NewSnIs ==
    ASSUME NEW x \in Nat
    PROVE  NewSn(x) \in SeqNums /\ SeqNums \subseteq Nat /\ Next_Sn(x) \in SeqNums
<1>1. Half \in Nat /\ Half # 0
  BY SeqNumAssumption
<1>2. Modulus \in Nat /\ Modulus > 0
  BY <1>1 DEF Modulus
<1>3. \A y \in Nat : y % Modulus \in 0..(Modulus - 1)
  BY <1>2
<1>4. x + 1 \in Nat
  OBVIOUS
<1> QED
  BY <1>2, <1>3, <1>4 DEF NewSn, SeqNums, Next_Sn

LEMMA ReadSnIs ==
    ASSUME NEW r \in Readers
    PROVE  /\ ReadSn(r).ok \in BOOLEAN /\ Follows(r, ReadSn(r).r)
           /\ ReadSn(r).ok => ReadSn(r).data \in SeqNums
<1> DEFINE v == ReadVle(r)
<1>1. /\ v.ok \in BOOLEAN /\ Follows(r, v.r)
      /\ v.ok => v.data \in Nat
  BY ReadVleIs
<1>2. ReadSn(r) = IF v.ok THEN Ok(NewSn(v.data), v.r) ELSE v
  BY DEF ReadSn, AsSn
<1> HIDE DEF v
<1>3. CASE v.ok
  <2>1. ReadSn(r) = [ok |-> TRUE, data |-> NewSn(v.data), r |-> v.r]
    BY <1>2, <1>3 DEF Ok
  <2>2. NewSn(v.data) \in SeqNums
    BY <1>1, <1>3, NewSnIs
  <2> QED
    BY <1>1, <2>1, <2>2
<1>4. CASE ~v.ok
  BY <1>1, <1>2, <1>4
<1> QED
  BY <1>1, <1>3, <1>4

LEMMA ReadU8Follows ==
    ASSUME NEW r \in Readers
    PROVE  /\ ReadU8(r).ok \in BOOLEAN /\ Follows(r, ReadU8(r).r)
           /\ ReadU8(r).ok => ReadU8(r).data[1] \in Nat
<1>1. CASE Gets(r, ReadU8(r), 1) /\ ReadU8(r).data[1] \in Nat
  BY <1>1 DEF Gets, Gives, Follows
<1>2. CASE Refuses(r, ReadU8(r))
  BY <1>2 DEF Refuses, Follows
<1> QED
  BY <1>1, <1>2, ReadU8Is

----------------------------------------------------------------------------
(* Headers *)

LEMMA FollowsOn ==
    ASSUME NEW r, NEW q, NEW p, Follows(r, q), Follows(q, p)
    PROVE  Follows(r, p)
BY DEF Follows

\* A fragment kind of the two bits that no kind has is what the transmute of
\* FragmentHeader::kind makes of it: nothing is said of the body.
LEMMA ReadBodyIs ==
    ASSUME NEW r \in Readers
    PROVE  /\ ReadBody(r).ok \in BOOLEAN
           /\ ReadBody(r).ok => Follows(r, ReadBody(r).r) /\ ReadBody(r).fid \in SeqNums
<1> DEFINE byte == ReadU8(r)
           body == BodyOf(byte.data[1])
           fid == ReadSn(byte.r)
<1>1. byte.ok \in BOOLEAN /\ Follows(r, byte.r)
  BY ReadU8Follows
<1>2. byte.r \in Readers
  BY <1>1 DEF Follows
<1>3. fid.ok \in BOOLEAN /\ Follows(byte.r, fid.r) /\ (fid.ok => fid.data \in SeqNums)
  BY <1>2, ReadSnIs
<1>4. ReadBody(r) =
        IF ~byte.ok \/ body = "unknown" THEN Undecoded
        ELSE IF body = "frame" THEN [ok |-> TRUE, body |-> "frame", fid |-> 0, r |-> byte.r]
        ELSE IF fid.ok THEN [ok |-> TRUE, body |-> body, fid |-> fid.data, r |-> fid.r]
        ELSE Undecoded
  BY DEF ReadBody, ReadFragmentHeader
<1>5. 0 \in SeqNums
  BY SeqNumAssumption DEF SeqNums, Modulus
<1> HIDE DEF byte, body, fid
<1>6. Follows(r, byte.r) /\ Follows(r, fid.r)
  BY <1>1, <1>3, FollowsOn
<1>7. CASE ~byte.ok \/ body = "unknown"
  BY <1>4, <1>7 DEF Undecoded
<1>8. CASE byte.ok /\ body # "unknown" /\ body = "frame"
  <2>1. ReadBody(r) = [ok |-> TRUE, body |-> "frame", fid |-> 0, r |-> byte.r]
    BY <1>4, <1>8
  <2> QED
    BY <1>5, <1>6, <2>1
<1>9. CASE byte.ok /\ body # "unknown" /\ body # "frame" /\ fid.ok
  <2>1. ReadBody(r) = [ok |-> TRUE, body |-> body, fid |-> fid.data, r |-> fid.r]
    BY <1>4, <1>9
  <2> QED
    BY <1>3, <1>6, <1>9, <2>1
<1>10. CASE byte.ok /\ body # "unknown" /\ body # "frame" /\ ~fid.ok
  BY <1>4, <1>10 DEF Undecoded
<1> QED
  BY <1>1, <1>3, <1>7, <1>8, <1>9, <1>10

LEMMA ReadHeaderIs ==
    ASSUME NEW r \in Readers
    PROVE  /\ ReadHeader(r).ok \in BOOLEAN
           /\ ReadHeader(r).ok =>
                  /\ Follows(r, ReadHeader(r).r) /\ ReadHeader(r).qos.cc \in {"block", "drop"}
                  /\ ReadHeader(r).sn \in SeqNums /\ ReadHeader(r).fid \in SeqNums
<1> DEFINE qos == ReadU8(r)
           sn == ReadSn(qos.r)
           rest == ReadBody(sn.r)
<1>1. qos.ok \in BOOLEAN /\ Follows(r, qos.r)
  BY ReadU8Follows
<1>2. qos.r \in Readers
  BY <1>1 DEF Follows
<1>3. sn.ok \in BOOLEAN /\ Follows(qos.r, sn.r) /\ (sn.ok => sn.data \in SeqNums)
  BY <1>2, ReadSnIs
<1>4. sn.r \in Readers
  BY <1>3 DEF Follows
<1>5. rest.ok \in BOOLEAN /\ (rest.ok => Follows(sn.r, rest.r) /\ rest.fid \in SeqNums)
  BY <1>4, ReadBodyIs
<1>6. ReadHeader(r) =
        IF ~qos.ok \/ ~sn.ok \/ ~rest.ok THEN Undecoded
        ELSE [ok |-> TRUE, qos |-> QosOf(qos.data[1]), sn |-> sn.data,
              body |-> rest.body, fid |-> rest.fid, r |-> rest.r]
  BY DEF ReadHeader, Header
<1>7. QosOf(qos.data[1]).cc \in {"block", "drop"}
  BY DEF QosOf
<1> HIDE DEF qos, sn, rest
<1>8. CASE ~qos.ok \/ ~sn.ok \/ ~rest.ok
  BY <1>6, <1>8 DEF Undecoded
<1>9. CASE qos.ok /\ sn.ok /\ rest.ok
  <2>1. ReadHeader(r) =
            [ok |-> TRUE, qos |-> QosOf(qos.data[1]), sn |-> sn.data,
             body |-> rest.body, fid |-> rest.fid, r |-> rest.r]
    BY <1>6, <1>9
  <2>2. Follows(r, rest.r)
    BY <1>1, <1>3, <1>5, <1>9, FollowsOn
  <2> QED
    BY <1>3, <1>5, <1>7, <1>9, <2>1, <2>2
<1> QED
  BY <1>1, <1>3, <1>5, <1>8, <1>9

----------------------------------------------------------------------------
(* Payloads *)

\* What ReadBytes gives: some Bytes, and a reader that follows.
LEMMA ReadBytesIs ==
    ASSUME NEW r \in Readers, Firm(r)
    PROVE  /\ ReadBytes(r).ok \in BOOLEAN /\ ReadBytes(r).data \in Vecs
           /\ Follows(r, ReadBytes(r).r)
<1> DEFINE len == ReadVle(r)
           n == len.data
           one == ReadContiguous(len.r, n)
           views == ReadChunks(one.r, n)
<1>1. ReadBytes(r) = IF ~len.ok THEN [Fail(len.r) EXCEPT !.data = NoBytes]
                     ELSE IF n = 0 THEN Ok(NoBytes, len.r)
                     ELSE IF one.ok THEN Ok(Single(one.data), one.r)
                     ELSE views
  BY DEF ReadBytes
<1>2. len.ok \in BOOLEAN /\ Follows(r, len.r) /\ (len.ok => n \in Nat)
  BY ReadVleIs
<1>3. len.r \in Readers /\ Firm(len.r)
  BY <1>2 DEF Follows
<1> HIDE DEF len, n
<1>4. NoBytes \in Vecs
  BY NoBytesIs
<1>5. CASE ~len.ok
  <2>1. ReadBytes(r) = [ok |-> FALSE, data |-> NoBytes, r |-> len.r]
    BY <1>1, <1>5 DEF Fail
  <2> QED
    BY <1>2, <1>4, <2>1
<1>6. CASE len.ok /\ n = 0
  <2>1. ReadBytes(r) = [ok |-> TRUE, data |-> NoBytes, r |-> len.r]
    BY <1>1, <1>6 DEF Ok
  <2> QED
    BY <1>2, <1>4, <2>1
<1>7. CASE len.ok /\ n # 0
  <2>1. n \in Nat /\ n # 0
    BY <1>2, <1>7
  <2>2. Gets(len.r, one, n) \/ Refuses(len.r, one)
    BY <1>3, <2>1, ReadContiguousIs
  <2> HIDE DEF one
  <2>3. CASE Gets(len.r, one, n)
    <3>1. one.data \in Seq(Nat) /\ Len(one.data) = n /\ one.ok
          /\ one.r \in Readers /\ one.r.chunks = len.r.chunks /\ Firm(one.r)
      BY <2>3 DEF Gets, Gives
    <3>2. one.data \in Chunk
      BY <2>1, <3>1, EmptySeq DEF Chunk
    <3>3. ReadBytes(r) = [ok |-> TRUE, data |-> Single(one.data), r |-> one.r]
      BY <1>1, <1>7, <3>1 DEF Ok
    <3>4. Follows(len.r, one.r)
      BY <3>1 DEF Follows
    <3>5. Follows(r, one.r)
      BY <1>2, <3>4, FollowsOn
    <3>6. Single(one.data) \in Vecs
      BY <3>2, SingleIs
    <3> QED
      BY <3>3, <3>5, <3>6
  <2>4. CASE Refuses(len.r, one)
    <3>1. ~one.ok /\ one.r = len.r
      BY <2>4 DEF Refuses
    <3>2. ReadBytes(r) = views
      BY <1>1, <1>7, <3>1
    <3>3. /\ views.ok \in BOOLEAN /\ views.data \in Vecs
          /\ n <= Remaining(len.r) => Gives(len.r, Ok(Content(views.data), views.r), n)
          /\ ~(n <= Remaining(len.r)) => views.r = len.r
      BY <1>3, <2>1, <3>1, ReadChunksIs
    <3> HIDE DEF views
    <3>4. Gives(len.r, Ok(Content(views.data), views.r), n) => Follows(len.r, views.r)
      BY DEF Gives, Follows, Ok
    <3>5. views.r = len.r => Follows(len.r, views.r)
      BY <1>3 DEF Follows
    <3>6. Follows(r, views.r)
      BY <1>2, <3>3, <3>4, <3>5, FollowsOn
    <3> QED
      BY <3>2, <3>3, <3>6
  <2> QED
    BY <2>2, <2>3, <2>4
<1> QED
  BY <1>2, <1>5, <1>6, <1>7

----------------------------------------------------------------------------
(* Writing *)

\* A box with its bytes.
Bufs == {b \in [cap : Nat, data : Seq(Nat)] : Len(b.data) <= b.cap}

\* What a write of pieces makes of a box: n of them were written, and all of them if
\* they fit.
Wrote(buf, pieces, w, n) ==
    /\ n \in 0..Len(pieces)
    /\ w.ok = (n = Len(pieces))
    /\ w.buf \in Bufs /\ w.buf.cap = buf.cap /\ w.buf.data = buf.data \o Pre(pieces, n)
    /\ n # Len(pieces) => Len(buf.data) + Len(Pre(pieces, n + 1)) > buf.cap

LEMMA WriteAllIs ==
    ASSUME NEW buf \in Bufs, NEW pieces \in Seq(Seq(Nat))
    PROVE  \E n : Wrote(buf, pieces, WriteAll(buf, pieces), n)
<1> DEFINE size == Len(pieces)
           Fits(n) == Len(Written(buf, pieces, n).data) <= buf.cap
           U == {n \in Nat : n \in 0..size /\ (n = size \/ ~Fits(n + 1))}
           P(n) == Fits(n) /\ (n = size \/ ~Fits(n + 1))
           m == CHOOSE n \in 0..size : P(n)
<1>1. size \in Nat
  OBVIOUS
<1>2. buf = [cap |-> buf.cap, data |-> buf.data] /\ buf.cap \in Nat /\ buf.data \in Seq(Nat)
      /\ Len(buf.data) <= buf.cap
  BY DEF Bufs
<1>3. ASSUME NEW n \in 0..size
      PROVE  /\ Written(buf, pieces, n) = [cap |-> buf.cap, data |-> buf.data \o Pre(pieces, n)]
             /\ buf.data \o Pre(pieces, n) \in Seq(Nat)
             /\ Len(buf.data \o Pre(pieces, n)) = Len(buf.data) + Len(Pre(pieces, n))
  <2>1. Pre(pieces, n) \in Seq(Nat)
    BY PreSteps
  <2>2. Written(buf, pieces, n) = [cap |-> buf.cap, data |-> buf.data \o Pre(pieces, n)]
    BY DEF Written, Pre
  <2> QED
    BY <1>2, <2>1, <2>2
<1>14. ASSUME NEW n PROVE Written(buf, pieces, n).data = buf.data \o Pre(pieces, n)
  <2> DEFINE c == buf.data \o Pre(pieces, n)
  <2>1. Written(buf, pieces, n) = [cap |-> buf.cap, data |-> c]
    BY DEF Written, Pre
  <2> HIDE DEF c
  <2>2. Written(buf, pieces, n).data = c
    BY <2>1
  <2> QED
    BY <2>2 DEF c
<1>4. Fits(0)
  <2>1. Pre(pieces, 0) = <<>>
    BY PreSteps
  <2>2. Written(buf, pieces, 0).data = buf.data \o Pre(pieces, 0)
    BY <1>14
  <2>3. Written(buf, pieces, 0).data = buf.data \o <<>>
    BY <2>1, <2>2, Zenon
  <2> QED
    BY <1>2, <2>3
<1>5. PICK k \in U : k = 0 \/ k - 1 \notin U
  <2>1. size \in U /\ U \subseteq Nat
    BY <1>1
  <2> HIDE DEF U
  <2> QED
    BY <2>1, LeastElement, Zenon
<1>6. k \in 0..size /\ k \in Nat /\ (k = size \/ ~Fits(k + 1))
  OBVIOUS
<1>7. Fits(k)
  <2>1. CASE k = 0
    BY <1>4, <2>1
  <2>2. CASE k # 0
    <3>1. k - 1 \in Nat /\ k - 1 \in 0..size /\ k - 1 # size /\ (k - 1) + 1 = k
      BY <1>1, <1>6, <2>2
    <3>2. k - 1 \notin U
      BY <1>5, <2>2
    <3> QED
      BY <3>1, <3>2
  <2> QED
    BY <2>1, <2>2
<1>8. WriteAll(buf, pieces) = [ok |-> m = size, buf |-> Written(buf, pieces, m)]
  BY DEF WriteAll
<1> HIDE DEF U, Fits
<1>9. m \in 0..size /\ P(m)
  BY <1>6, <1>7
<1> HIDE DEF m
<1> SUFFICES Wrote(buf, pieces, WriteAll(buf, pieces), m)
  OBVIOUS
<1>10. /\ Written(buf, pieces, m) = [cap |-> buf.cap, data |-> buf.data \o Pre(pieces, m)]
       /\ buf.data \o Pre(pieces, m) \in Seq(Nat)
  BY <1>3, <1>9
<1>11. Len(buf.data \o Pre(pieces, m)) <= buf.cap
  BY <1>9, <1>10 DEF Fits
<1>12. Written(buf, pieces, m) \in Bufs
  BY <1>2, <1>10, <1>11 DEF Bufs
<1>13. m # size => Len(buf.data) + Len(Pre(pieces, m + 1)) > buf.cap
  <2> SUFFICES ASSUME m # size PROVE Len(buf.data) + Len(Pre(pieces, m + 1)) > buf.cap
    OBVIOUS
  <2>1. m + 1 \in 0..size
    BY <1>1, <1>9
  <2> DEFINE x == Len(buf.data) + Len(Pre(pieces, m + 1))
  <2>2. Written(buf, pieces, m + 1).data = buf.data \o Pre(pieces, m + 1)
    BY <1>14
  <2>7. Len(buf.data \o Pre(pieces, m + 1)) = x
    BY <1>3, <2>1
  <2>8. ~(Len(Written(buf, pieces, m + 1).data) <= buf.cap)
    BY <1>9 DEF Fits
  <2>3. ~(x <= buf.cap)
    BY <2>2, <2>7, <2>8, Zenon
  <2>4. Pre(pieces, m + 1) \in Seq(Nat)
    BY <2>1, PreSteps
  <2>5. x \in Nat
    BY <1>2, <2>4
  <2> HIDE DEF x
  <2>6. x > buf.cap
    BY <1>2, <2>3, <2>5
  <2> QED
    BY <2>6 DEF x
<1> QED
  <2> DEFINE c == buf.data \o Pre(pieces, m)
             w == WriteAll(buf, pieces)
  <2>1. w = [ok |-> m = size, buf |-> [cap |-> buf.cap, data |-> c]]
    BY <1>8, <1>10
  <2>2. [cap |-> buf.cap, data |-> c] \in Bufs
    BY <1>10, <1>12
  <2> HIDE DEF c, w
  <2>3. /\ w.ok = (m = size) /\ w.buf \in Bufs /\ w.buf.cap = buf.cap /\ w.buf.data = c
    BY <2>1, <2>2
  <2> QED
    BY <1>9, <1>13, <2>3, Zenon DEF Wrote, c, w

\* A write that is taken back leaves the box as it was.
LEMMA RewindIs ==
    ASSUME NEW buf \in Bufs, NEW pieces \in Seq(Seq(Nat)), NEW w, NEW n,
           Wrote(buf, pieces, w, n)
    PROVE  RewindTo(w.buf, Len(buf.data)) = buf
<1> DEFINE d == buf.data
           e == Pre(pieces, n)
<1>1. buf = [cap |-> buf.cap, data |-> d] /\ d \in Seq(Nat) /\ w.buf \in Bufs
  BY DEF Bufs, Wrote
<1>2. e \in Seq(Nat)
  BY PreSteps DEF Wrote
<1>3. w.buf.cap = buf.cap /\ w.buf.data = d \o e
  BY DEF Wrote
<1>4. RewindTo(w.buf, Len(d)) = [cap |-> buf.cap, data |-> SubSeq(d \o e, 1, Len(d))]
  BY <1>3 DEF RewindTo
<1>5. SubSeq(d \o e, 1, Len(d)) = d
  <2> HIDE DEF d, e
  <2> QED
    BY <1>1, <1>2
<1> HIDE DEF e
<1>6. RewindTo(w.buf, Len(d)) = [cap |-> buf.cap, data |-> d]
  BY <1>3, <1>4, <1>5
<1> QED
  BY <1>1, <1>6

----------------------------------------------------------------------------
(* The pieces of headers and of payloads *)

LEMMA QosByteIs ==
    ASSUME NEW prio \in Nat, NEW cc, NEW express
    PROVE  QosByte(prio, cc, express) \in Nat
BY DEF QosByte

Bodies == {"frame", "first", "more", "last"}

LEMMA BodyByteIs ==
    ASSUME NEW body \in Bodies
    PROVE  BodyByte(body) \in Nat
BY DEF Bodies, BodyByte, Frame_Id, Fragment_Id, KindCode

Tuples(a, b, c, d) ==
    /\ <<a>> \o <<b>> = <<a, b>>
    /\ <<a, b>> \o <<c>> = <<a, b, c>>
    /\ <<a, b>> \o <<c, d>> = <<a, b, c, d>>

LEMMA TuplesJoin ==
    ASSUME NEW S, NEW a \in S, NEW b \in S, NEW c \in S, NEW d \in S
    PROVE  Tuples(a, b, c, d)
<1>1. <<a>> \in Seq(S) /\ <<b>> \in Seq(S) /\ <<c>> \in Seq(S) /\ <<a, b>> \in Seq(S)
      /\ <<c, d>> \in Seq(S) /\ <<a, b, c>> \in Seq(S) /\ <<a, b, c, d>> \in Seq(S)
  OBVIOUS
<1>2. <<a>> \o <<b>> = <<a, b>>
  <2>1. Len(<<a>> \o <<b>>) = 2
    BY <1>1
  <2>2. \A i \in 1..2 : (<<a>> \o <<b>>)[i] = <<a, b>>[i]
    BY <1>1
  <2> QED
    BY <1>1, <2>1, <2>2, ConcatProperties, SeqEqual
<1>3. <<a, b>> \o <<c>> = <<a, b, c>>
  <2>1. Len(<<a, b>> \o <<c>>) = 3
    BY <1>1
  <2>2. \A i \in 1..3 : (<<a, b>> \o <<c>>)[i] = <<a, b, c>>[i]
    BY <1>1
  <2> QED
    BY <1>1, <2>1, <2>2, ConcatProperties, SeqEqual
<1>4. <<a, b>> \o <<c, d>> = <<a, b, c, d>>
  <2>1. Len(<<a, b>> \o <<c, d>>) = 4
    BY <1>1
  <2>2. \A i \in 1..4 : (<<a, b>> \o <<c, d>>)[i] = <<a, b, c, d>>[i]
    BY <1>1
  <2> QED
    BY <1>1, <2>1, <2>2, ConcatProperties, SeqEqual
<1> QED
  BY <1>2, <1>3, <1>4, Zenon DEF Tuples

LEMMA HeaderPiecesAre ==
    ASSUME NEW qos \in Nat, NEW sn \in Nat, NEW body \in Bodies, NEW fid \in Nat
    PROVE  /\ HeaderPieces(qos, sn, body, fid) =
                IF body = "frame" THEN <<<<qos>>, VleBytes(sn), <<BodyByte(body)>>>>
                ELSE <<<<qos>>, VleBytes(sn), <<BodyByte(body)>>, VleBytes(fid)>>
           /\ HeaderPieces(qos, sn, body, fid) \in Seq(Seq(Nat))
<1> DEFINE a == <<qos>>
           b == VleBytes(sn)
           c == <<BodyByte(body)>>
           d == VleBytes(fid)
<1>1. a \in Seq(Nat) /\ b \in Seq(Nat) /\ c \in Seq(Nat) /\ d \in Seq(Nat)
  BY BodyByteIs, VleBytesAre
<1>2. HeaderPieces(qos, sn, body, fid) =
        (<<a>> \o <<b>>) \o (IF body = "frame" THEN <<c>> ELSE <<c>> \o <<d>>)
  BY DEF HeaderPieces, SnPieces, BodyPieces, FramePieces, FragmentPieces
<1> HIDE DEF a, b, c, d
<1>3. HeaderPieces(qos, sn, body, fid) =
        IF body = "frame" THEN <<a, b, c>> ELSE <<a, b, c, d>>
  <2>1. Tuples(a, b, c, d) /\ Tuples(c, d, c, d)
    BY <1>1, TuplesJoin
  <2> QED
    BY <1>2, <2>1, Zenon DEF Tuples
<1>4. <<a, b, c>> \in Seq(Seq(Nat)) /\ <<a, b, c, d>> \in Seq(Seq(Nat))
  BY <1>1
<1> QED
  BY <1>3, <1>4 DEF a, b, c, d

LEMMA BytesPiecesAre ==
    ASSUME NEW v \in Vecs
    PROVE  BytesPieces(v) \in Seq(Seq(Nat)) /\ BytesPieces(v) = <<VleBytes(LenOf(v))>> \o v.items
<1>1. LenOf(v) \in Nat /\ v.items \in Seq(Seq(Nat))
  BY ReaderIs, ChunkSeqs
<1> DEFINE a == VleBytes(LenOf(v))
<1>2. a \in Seq(Nat)
  BY <1>1, VleBytesAre
<1>3. BytesPieces(v) = <<a>> \o v.items
  BY DEF BytesPieces
<1> HIDE DEF a
<1>4. <<a>> \in Seq(Seq(Nat))
  BY <1>2
<1>5. <<a>> \o v.items \in Seq(Seq(Nat))
  BY <1>1, <1>4, ConcatProperties
<1> QED
  BY <1>3, <1>5 DEF a

\* Pieces joined.
LEMMA JoinedPieces ==
    ASSUME NEW s \in Seq(Seq(Nat)), NEW t \in Seq(Seq(Nat))
    PROVE  s \o t \in Seq(Seq(Nat))
BY ConcatProperties

----------------------------------------------------------------------------
(* One content, in one chunk or in several *)

\* What is left of a sequence after p of its elements.
Suffix(d, p) == SubSeq(d, p + 1, Len(d))

LEMMA SuffixIs ==
    ASSUME NEW d \in Seq(Nat), NEW p \in Nat, p <= Len(d)
    PROVE  /\ Suffix(d, p) \in Seq(Nat) /\ Len(Suffix(d, p)) = Len(d) - p
           /\ Suffix(d, p) = Part(d, p, Len(d) - p) /\ Shows(d, p, Suffix(d, p))
<1> DEFINE l == Len(d)
<1>1. l \in Nat
  BY LenProperties
<1> HIDE DEF l
<1>2. l - p \in Nat /\ p + (l - p) = l /\ p <= l
  BY <1>1 DEF l
<1>3. Suffix(d, p) = Part(d, p, l - p)
  BY <1>2 DEF Suffix, Part, l
<1>4. p + (l - p) <= Len(d)
  BY <1>1, <1>2 DEF l
<1>5. /\ Part(d, p, l - p) \in Seq(Nat) /\ Len(Part(d, p, l - p)) = l - p
      /\ Shows(d, p, Part(d, p, l - p))
  BY <1>2, <1>4, PartIs, PartShows
<1> QED
  BY <1>3, <1>5 DEF l

\* Of what d shows, its beginning.
LEMMA Beginning ==
    ASSUME NEW d \in Seq(Nat), NEW c \in Seq(Nat), NEW p \in Nat, Shows(d, p, c),
           NEW k \in Nat, k <= Len(c)
    PROVE  SubSeq(c, 1, k) = Part(d, p, k)
<1>1. 0 + k <= Len(c) /\ p = p + 0 /\ 0 \in Nat
  BY LenProperties
<1>2. Part(c, 0, k) = Part(d, p, k)
  BY <1>1, Window
<1>3. Part(c, 0, k) = SubSeq(c, 1, k)
  BY DEF Part
<1> QED
  BY <1>2, <1>3

\* Of what d shows, its end.
LEMMA Ending ==
    ASSUME NEW d \in Seq(Nat), NEW p \in Nat, p <= Len(d), NEW k \in Nat, k <= Len(d) - p
    PROVE  Suffix(Suffix(d, p), k) = Suffix(d, p + k)
<1> DEFINE l == Len(d)
           c == Suffix(d, p)
           n == l - p
           m == n - k
<1>1. l \in Nat /\ p <= l /\ k <= l - p
  BY LenProperties
<1>2. c \in Seq(Nat) /\ Len(c) = n /\ Shows(d, p, c)
  BY SuffixIs
<1> HIDE DEF c
<1>3. k + m <= n /\ m \in Nat /\ k <= n /\ l - (p + k) = m /\ p + k \in Nat /\ p + k <= l
  <2> HIDE DEF l
  <2> QED
    BY <1>1
<1>4. Suffix(c, k) = Part(c, k, m)
  BY <1>2, <1>3, SuffixIs
<1>5. Part(c, k, m) = Part(d, p + k, m)
  BY <1>2, <1>3, Window
<1>6. Suffix(d, p + k) = Part(d, p + k, m)
  BY <1>3, SuffixIs
<1> QED
  BY <1>4, <1>5, <1>6 DEF c

\* What is left of a sequence of chunks after k of them, and after one more.
LEMMA ChunksLeft ==
    ASSUME NEW items \in Seq(Chunk), NEW k \in 0..(Len(items) - 1),
           NEW t, t = SubSeq(items, k + 1, Len(items)),
           NEW u, u = SubSeq(items, (k + 1) + 1, Len(items))
    PROVE  /\ t \in Seq(Chunk) /\ t # <<>> /\ t[1] = items[k + 1] /\ Tail(t) = u
           /\ u \in Seq(Chunk)
<1> DEFINE n == Len(items)
<1>1. n \in Nat
  BY LenProperties
<1>2. k \in Nat /\ k + 1 \in 1..n
  <2> HIDE DEF n
  <2>1. k \in 0..(n - 1)
    BY DEF n
  <2> QED
    BY <1>1, <2>1
<1>3. k + 1 \in Int /\ n \in Int /\ k + 1 <= n /\ n - (k + 1) + 1 = n - k
      /\ \A i \in 1..(n - k) : (k + 1) + i - 1 = k + i
  BY <1>1, <1>2
<1>4. \A i \in (k + 1)..n : items[i] \in Chunk
  <2>1. \A i \in (k + 1)..n : i \in 1..n
    BY <1>1, <1>2
  <2> QED
    BY <2>1, ElementOfSeq
<1>5. /\ t \in Seq(Chunk) /\ Len(t) = n - k
      /\ \A i \in 1..(n - k) : t[i] = items[k + i]
  <2> HIDE DEF n
  <2>1. t = SubSeq(items, k + 1, n)
    BY DEF n
  <2> QED
    BY <1>3, <1>4, <2>1, SubSeqProperties
<1>6. n - k \in Nat /\ n - k >= 1 /\ 1 \in 1..(n - k) /\ n - k # 0
  <2> HIDE DEF n
  <2> QED
    BY <1>1, <1>2
<1> HIDE DEF n
<1>7. t # <<>> /\ t[1] = items[k + 1]
  <2>1. Len(t) # 0
    BY <1>5, <1>6
  <2> QED
    BY <1>5, <1>6, <2>1, EmptySeq
<1>8. /\ u \in Seq(Chunk) /\ Len(u) = (n - k) - 1
      /\ \A i \in 1..((n - k) - 1) : u[i] = items[k + (i + 1)]
  <2>1. /\ (k + 1) + 1 \in Int /\ n \in Int
        /\ (IF (k + 1) + 1 <= n THEN n - ((k + 1) + 1) + 1 ELSE 0) = (n - k) - 1
        /\ \A i \in 1..((n - k) - 1) : ((k + 1) + 1) + i - 1 = k + (i + 1)
    BY <1>1, <1>2
  <2>2. \A i \in (k + 1 + 1)..n : items[i] \in Chunk
    BY <1>1, <1>2, <1>4
  <2>3. u = SubSeq(items, (k + 1) + 1, n)
    BY DEF n
  <2> QED
    BY <2>1, <2>2, <2>3, SubSeqProperties
<1>9. /\ Tail(t) \in Seq(Chunk) /\ Len(Tail(t)) = (n - k) - 1
      /\ \A i \in 1..((n - k) - 1) : Tail(t)[i] = t[i + 1]
  BY SMTT(30), <1>5, <1>6, <1>7, HeadTailProperties
<1>10. \A i \in 1..((n - k) - 1) : i + 1 \in 1..(n - k)
  BY <1>6
<1>11. \A i \in 1..((n - k) - 1) : Tail(t)[i] = u[i]
  BY <1>5, <1>8, <1>9, <1>10
<1>12. Tail(t) = u
  BY <1>8, <1>9, <1>11, SeqEqual
<1> QED
  BY <1>5, <1>7, <1>8, <1>12

\* One chunk c of what d shows from p on is compared and left behind.
LeftBehind(d, p, c) ==
    /\ Least(Len(Suffix(d, p)), Len(c)) = Len(c)
    /\ SubSeq(Suffix(d, p), 1, Len(c)) = SubSeq(c, 1, Len(c))
    /\ After(<<Suffix(d, p)>>, Len(c)) =
        IF p + Len(c) = Len(d) THEN <<>> ELSE <<Suffix(d, p + Len(c))>>

LEMMA OneChunk ==
    ASSUME NEW d \in Seq(Nat), NEW p \in Nat, NEW c \in Seq(Nat), c # <<>>, Shows(d, p, c)
    PROVE  LeftBehind(d, p, c)
<1> DEFINE rest == Suffix(d, p)
           x == Len(c)
           l == Len(d)
<1>1. l \in Nat /\ x \in Nat
  BY LenProperties
<1>2. p + x <= l
  BY DEF Shows
<1> HIDE DEF l
<1>3. p <= l /\ x <= l - p /\ Least(l - p, x) = x
  <2> HIDE DEF x
  <2> QED
    BY <1>1, <1>2 DEF Least
<1>4. rest \in Seq(Nat) /\ Len(rest) = l - p /\ Shows(d, p, rest)
  BY <1>3, SuffixIs DEF l
<1> HIDE DEF rest
<1>a. x <= Len(rest)
  BY <1>3, <1>4
<1>5. SubSeq(rest, 1, x) = Part(d, p, x)
  BY <1>a, <1>1, <1>4, Beginning
<1>6. x <= Len(c)
  BY <1>1
<1>7. SubSeq(c, 1, x) = Part(d, p, x)
  BY <1>1, <1>6, Beginning
<1>8. x = Len(rest) <=> p + x = l
  BY <1>1, <1>3, <1>4
<1>9. After(<<rest>>, x) = IF p + x = l THEN <<>> ELSE <<Suffix(d, p + x)>>
  <2>1. Len(<<rest>>[1]) = Len(rest) /\ Tail(<<rest>>) = <<>>
    OBVIOUS
  <2>2. CASE p + x = l
    <3>1. x = Len(<<rest>>[1])
      BY <1>8, <2>1, <2>2
    <3> QED
      BY <2>1, <2>2, <3>1 DEF After
  <2>3. CASE p + x # l
    <3>1. x # Len(<<rest>>[1])
      BY <1>8, <2>1, <2>3
    <3>2. After(<<rest>>, x) = [<<rest>> EXCEPT ![1] = SubSeq(@, x + 1, Len(@))]
      BY <3>1 DEF After
    <3>3. [<<rest>> EXCEPT ![1] = SubSeq(@, x + 1, Len(@))] = <<SubSeq(rest, x + 1, Len(rest))>>
      OBVIOUS
    <3>4. SubSeq(rest, x + 1, Len(rest)) = Suffix(rest, x)
      BY DEF Suffix
    <3>5. Suffix(rest, x) = Suffix(d, p + x)
      BY <1>1, <1>3, Ending DEF l, rest
    <3> QED
      BY <2>3, <3>2, <3>3, <3>4, <3>5
  <2> QED
    BY <2>2, <2>3
<1> QED
  BY <1>3, <1>4, <1>5, <1>7, <1>9 DEF l, rest, LeftBehind

\* The comparison of all bytes in one chunk with the chunks of v, after k of those.
EqualState(v, k) ==
    [s |-> IF k = Len(v.items) THEN <<>> ELSE <<Suffix(Content(v), Len(Pre(v.items, k)))>>,
     t |-> SubSeq(v.items, k + 1, Len(v.items)), same |-> TRUE]

LEMMA EqualStep ==
    ASSUME NEW v \in Vecs, NEW k \in 0..(Len(v.items) - 1)
    PROVE  EqualTurn(EqualState(v, k)) = EqualState(v, k + 1)
<1> DEFINE items == v.items
           d == Content(v)
           n == Len(items)
           p == Len(Pre(items, k))
           c == items[k + 1]
           x == Len(c)
           rest == Suffix(d, p)
           s == <<rest>>
           t == SubSeq(items, k + 1, n)
           u == SubSeq(items, (k + 1) + 1, n)
           e == EqualState(v, k)
           q == EqualState(v, k + 1)
<1>1. /\ items \in Seq(Chunk) /\ items \in Seq(Seq(Nat)) /\ n \in Nat /\ d \in Seq(Nat)
      /\ d = FlattenSeq(items)
  BY ReaderIs, ChunkSeqs DEF Content
<1>2. k \in Nat /\ k + 1 \in 1..n /\ k # n /\ k + 1 \in 0..n /\ n \in 0..n
  BY <1>1
<1>3. /\ Len(Pre(items, k + 1)) = p + x /\ p \in Nat /\ x \in Nat
      /\ Len(Pre(items, k + 1)) <= Len(d)
      /\ \A i \in 1..x : d[p + i] = c[i]
  BY <1>1, ChunkPlace
<1>4. c \in Chunk /\ c \in Seq(Nat) /\ c # <<>>
  BY <1>1, <1>2, ElementOfSeq DEF Chunk
<1>5. Shows(d, p, c)
  BY <1>3 DEF Shows
<1>6. t # <<>> /\ t[1] = c /\ Tail(t) = u
  BY <1>1, ChunksLeft
<1>7. p + x = Len(d) <=> k + 1 = n
  <2>1. Len(Pre(items, n)) = Len(d)
    BY <1>1, PreSteps
  <2>2. CASE k + 1 = n
    BY <1>3, <2>1, <2>2
  <2>3. CASE k + 1 # n
    <3>1. k + 1 < n
      <4> HIDE DEF n
      <4> QED
        BY <1>1, <1>2, <2>3
    <3>2. Len(Pre(items, k + 1)) < Len(Pre(items, n))
      BY <1>1, <1>2, <3>1, PreGrows
    <3> HIDE DEF p, x, d, items, n
    <3>3. Len(d) \in Nat
      BY <1>1, LenProperties
    <3>4. p + x < Len(d)
      BY <1>3, <2>1, <3>2
    <3> QED
      BY <1>3, <2>3, <3>3, <3>4
  <2> QED
    BY <2>2, <2>3
<1>8. /\ e.s = s /\ e.t = t /\ e.same = TRUE
      /\ q.s = IF k + 1 = n THEN <<>> ELSE <<Suffix(d, Len(Pre(items, k + 1)))>>
      /\ q.t = u /\ q = [s |-> q.s, t |-> q.t, same |-> TRUE]
  BY <1>2 DEF EqualState
<1>9. s # <<>> /\ s[1] = rest /\ s = <<rest>> /\ rest = Suffix(d, p) /\ x = Len(c)
  OBVIOUS
<1> HIDE DEF e, q, t, u, c, x, p, n, d, items, s, rest
<1>10. /\ Least(Len(rest), x) = x /\ SubSeq(rest, 1, x) = SubSeq(c, 1, x)
       /\ After(s, x) = IF p + x = Len(d) THEN <<>> ELSE <<Suffix(d, p + x)>>
  <2>1. LeftBehind(d, p, c)
    BY <1>1, <1>3, <1>4, <1>5, OneChunk
  <2> QED
    BY <1>9, <2>1 DEF LeftBehind
<1>11. After(t, x) = u
  BY <1>6 DEF After, x
<1>12. After(s, x) = q.s
  BY <1>3, <1>7, <1>8, <1>10
<1>13. EqualTurn(e) =
          LET m == Least(Len(e.s[1]), Len(e.t[1])) IN
          [s |-> After(e.s, m), t |-> After(e.t, m),
           same |-> SubSeq(e.s[1], 1, m) = SubSeq(e.t[1], 1, m)]
  BY <1>6, <1>8, <1>9 DEF EqualTurn
<1>14. Least(Len(e.s[1]), Len(e.t[1])) = x
  BY <1>6, <1>8, <1>9, <1>10 DEF x
<1>15. EqualTurn(e) = [s |-> After(s, x), t |-> After(t, x),
                       same |-> SubSeq(rest, 1, x) = SubSeq(c, 1, x)]
  BY <1>6, <1>8, <1>9, <1>13, <1>14
<1>16. EqualTurn(e) = [s |-> q.s, t |-> q.t, same |-> TRUE]
  BY <1>8, <1>10, <1>11, <1>12, <1>15
<1> QED
  BY <1>8, <1>16 DEF e, q

\* All of a sequence is what is left of it at first.
LEMMA WholeIs ==
    ASSUME NEW S, NEW s \in Seq(S)
    PROVE  SubSeq(s, 1, Len(s)) = s
<1> DEFINE t == SubSeq(s, 1, Len(s))
           n == Len(s)
<1>1. n \in Nat /\ \A i \in 1..n : s[i] \in S
  BY LenProperties, ElementOfSeq
<1>2. 1 \in Int /\ n \in Int /\ (IF 1 <= n THEN n - 1 + 1 ELSE 0) = n
      /\ \A i \in 1..n : 1 + i - 1 = i
  <2> HIDE DEF n
  <2> QED
    BY <1>1
<1> HIDE DEF n
<1>3. t = SubSeq(s, 1, n)
  BY DEF n
<1> HIDE DEF t
<1>4. t \in Seq(S) /\ Len(t) = n /\ \A i \in 1..n : t[i] = s[1 + i - 1]
  BY <1>1, <1>2, <1>3, SubSeqProperties
<1>5. \A i \in 1..n : t[i] = s[i]
  BY <1>2, <1>4
<1>6. t = s
  BY <1>4, <1>5, SeqEqual DEF n
<1> QED
  BY <1>6 DEF t

\* Some Bytes are equal to their content in one chunk.
LEMMA EqualIs ==
    ASSUME NEW v \in Vecs, Content(v) # <<>>
    PROVE  EqualBytes(Single(Content(v)), v)
<1> DEFINE items == v.items
           d == Content(v)
           n == Len(items)
           S == {EqualState(v, k) : k \in 0..n}
           start == [s |-> <<d>>, t |-> items, same |-> TRUE]
           after[k \in Nat] == IF k = 0 THEN start ELSE EqualTurn(after[k - 1])
           G == [e \in S |-> EqualTurn(e)]
<1>1. /\ items \in Seq(Chunk) /\ items \in Seq(Seq(Nat)) /\ n \in Nat /\ d \in Seq(Nat)
      /\ d = FlattenSeq(items)
  BY ReaderIs, ChunkSeqs DEF Content
<1>2. Pre(items, 0) = <<>> /\ Len(Pre(items, 0)) = 0 /\ Pre(items, n) = d
  <2> HIDE DEF items, d
  <2>1. Pre(items, 0) = <<>> /\ FlattenSeq(items) = Pre(items, Len(items))
    BY <1>1, PreSteps
  <2> QED
    BY <1>1, <2>1
<1>3. n # 0 /\ n \in 0..n /\ 0 \in 0..n
  BY <1>1, <1>2
<1>4. start = EqualState(v, 0)
  <2>1. Suffix(d, 0) = d
    BY <1>1, WholeIs DEF Suffix
  <2>2. SubSeq(items, 0 + 1, n) = items
    BY <1>1, WholeIs
  <2>3. EqualState(v, 0) = [s |-> <<Suffix(d, 0)>>, t |-> SubSeq(items, 0 + 1, n), same |-> TRUE]
    BY <1>2, <1>3 DEF EqualState
  <2> HIDE DEF items, d, n
  <2> QED
    BY <2>1, <2>2, <2>3
<1>5. /\ EqualState(v, n).s = <<>> /\ EqualState(v, n).t = <<>> /\ EqualState(v, n).same = TRUE
      /\ EqualTurn(EqualState(v, n)) = EqualState(v, n)
  <2>1. EqualState(v, n) = [s |-> <<>>, t |-> SubSeq(items, n + 1, n), same |-> TRUE]
    BY DEF EqualState
  <2>2. SubSeq(items, n + 1, n) = <<>>
    <3>1. n + 1 \in Int /\ n \in Int /\ ~(n + 1 <= n)
          /\ (IF n + 1 <= n THEN n - (n + 1) + 1 ELSE 0) = 0
          /\ \A i \in (n + 1)..n : items[i] \in Chunk
      BY <1>1
    <3> HIDE DEF n
    <3>2. Len(SubSeq(items, n + 1, n)) = 0 /\ SubSeq(items, n + 1, n) \in Seq(Chunk)
      BY <3>1, SubSeqProperties
    <3> QED
      BY <3>2, EmptySeq
  <2> HIDE DEF n, items
  <2>3. EqualState(v, n) = [s |-> <<>>, t |-> <<>>, same |-> TRUE]
    BY <2>1, <2>2
  <2> QED
    BY <2>3 DEF EqualTurn
<1>6. \A k \in 0..n : k # n => EqualTurn(EqualState(v, k)) = EqualState(v, k + 1)
  <2> SUFFICES ASSUME NEW k \in 0..n, k # n
               PROVE  EqualTurn(EqualState(v, k)) = EqualState(v, k + 1)
    OBVIOUS
  <2>1. k \in 0..(n - 1)
    BY <1>1
  <2> QED
    BY <2>1, EqualStep
<1> HIDE DEF items, d, n
<1>7. \A k \in 0..n : k # n => k + 1 \in 0..n
  BY <1>1
<1>8. start \in S /\ G \in [S -> S] /\ \A e \in S : G[e] = EqualTurn(e)
  BY <1>3, <1>4, <1>5, <1>6, <1>7
<1> HIDE DEF S, start, G
<1>9. PICK f : Turns(f, S, start, G)
  BY <1>8, TurnsExist, Zenon
<1>10. f \in [Nat -> S] /\ f = [k \in Nat |-> IF k = 0 THEN start ELSE G[f[k - 1]]]
  BY <1>9 DEF Turns
<1>11. \A k \in Nat : k # 0 => k - 1 \in Nat /\ G[f[k - 1]] = EqualTurn(f[k - 1])
  <2> HIDE DEF after
  <2>1. \A k \in Nat : k # 0 => k - 1 \in Nat
    OBVIOUS
  <2>2. \A k \in Nat : f[k] \in S
    BY <1>10
  <2> QED
    BY <1>8, <2>1, <2>2
<1>12. f = [k \in Nat |-> IF k = 0 THEN start ELSE EqualTurn(f[k - 1])]
  BY <1>10, <1>11
<1>13. after = [k \in Nat |-> IF k = 0 THEN start ELSE EqualTurn(after[k - 1])]
  BY <1>12
<1> DEFINE one == Single(d)
<1>14. EqualBytes(one, v) =
        LET end == after[1 + n] IN end.same /\ end.s = <<>> /\ end.t = <<>>
  <2>1. one.items = <<d>> /\ Len(<<d>>) = 1
    BY DEF Single
  <2>2. EqualBytes(one, v) = EqualSlices(<<d>>, items)
    BY <2>1 DEF EqualBytes, items
  <2> QED
    BY <2>1, <2>2 DEF EqualSlices, Loop, start, n
<1> HIDE DEF after, one
<1> DEFINE T == {k \in Nat : k <= n => after[k] = EqualState(v, k)}
<1>15. 0 \in T
  BY <1>4, <1>13
<1>16. ASSUME NEW k \in Nat, k \in T PROVE k + 1 \in T
  <2> SUFFICES ASSUME k + 1 <= n PROVE after[k + 1] = EqualState(v, k + 1)
    OBVIOUS
  <2>1. k + 1 \in Nat /\ k + 1 # 0 /\ (k + 1) - 1 = k
    OBVIOUS
  <2>2. k \in 0..n /\ k # n /\ k <= n
    BY <1>1
  <2>3. after[k + 1] = EqualTurn(after[k]) /\ after[k] = EqualState(v, k)
    BY <1>13, <1>16, <2>1, <2>2
  <2> QED
    BY <1>6, <2>2, <2>3
<1> HIDE DEF T
<1>17. n \in T
  BY <1>1, <1>15, <1>16, SetInduction
<1>18. after[n] = EqualState(v, n)
  BY <1>1, <1>17 DEF T
<1>19. after[1 + n] = EqualState(v, n)
  <2>1. 1 + n \in Nat /\ 1 + n # 0 /\ (1 + n) - 1 = n
    BY <1>1
  <2>2. after[1 + n] = EqualTurn(after[n])
    BY <1>13, <2>1
  <2> QED
    BY <1>5, <1>18, <2>2
<1> QED
  BY <1>5, <1>14, <1>19 DEF one, d

----------------------------------------------------------------------------
(* The ways to decode a payload *)

\* A cursor that is not at the end of a chunk is where its offset says.
LEMMA FirmUnique ==
    ASSUME NEW r \in Readers, NEW q \in Readers, r.chunks = q.chunks, Firm(r), Firm(q),
           Offset(r) = Offset(q)
    PROVE  r = q
<1> DEFINE s == r.chunks
           l == Len(s)
           P(k) == Len(Pre(s, k))
<1>1. /\ s \in Seq(Chunk) /\ s \in Seq(Seq(Nat)) /\ l \in Nat
      /\ r \in [chunks : Seq(Chunk), slice : Nat, byte : Nat]
      /\ q \in [chunks : Seq(Chunk), slice : Nat, byte : Nat]
      /\ q.chunks = s /\ r.slice \in 0..l /\ q.slice \in 0..l
  BY ChunkSeqs DEF Readers
<1>2. \A k \in 0..l : P(k) \in Nat
  BY <1>1, SplitAt
<1>3. \A j, k \in 0..l : j < k => P(j) < P(k)
  BY <1>1, PreGrows
<1>4. ASSUME NEW a \in Readers, a.chunks = s, Firm(a)
      PROVE  /\ Offset(a) = P(a.slice) + a.byte /\ a.byte \in Nat
             /\ a.slice < l => a.slice + 1 \in 0..l /\ Offset(a) < P(a.slice + 1)
  <2>1. Offset(a) = P(a.slice) + a.byte /\ a.byte \in Nat /\ a.slice \in Nat
    BY <1>4 DEF Offset, Pre, Readers
  <2>2. ASSUME a.slice < l PROVE a.slice + 1 \in 0..l /\ Offset(a) < P(a.slice + 1)
    <3>1. a.slice \in 0..(l - 1) /\ a.slice + 1 \in 0..l /\ a.slice \in 0..l
      <4> HIDE DEF l
      <4> QED
        BY <1>1, <2>1, <2>2
    <3>2. a.byte < Len(s[a.slice + 1])
      BY <1>4, <2>2 DEF Firm, AtChunk, ChunkOf
    <3>3. P(a.slice + 1) = P(a.slice) + Len(s[a.slice + 1]) /\ Len(s[a.slice + 1]) \in Nat
      BY <1>1, <3>1, ChunkPlace
    <3>4. P(a.slice) \in Nat
      BY <1>2, <3>1
    <3> HIDE DEF P
    <3> QED
      BY <2>1, <3>1, <3>2, <3>3, <3>4
  <2> QED
    BY <2>1, <2>2
<1>5. ASSUME NEW a \in Readers, a.chunks = s, Firm(a), NEW b \in Readers, b.chunks = s, Firm(b),
             a.slice \in 0..l, b.slice \in 0..l, Offset(a) = Offset(b)
      PROVE  ~(a.slice < b.slice)
  <2> SUFFICES ASSUME a.slice < b.slice PROVE FALSE
    OBVIOUS
  <2>1. a.slice < l /\ a.slice + 1 \in 0..l /\ (a.slice + 1 = b.slice \/ a.slice + 1 < b.slice)
    <3> HIDE DEF l
    <3> QED
      BY <1>1, <1>5
  <2>2. Offset(a) < P(a.slice + 1)
    BY <1>4, <1>5, <2>1
  <2>3. P(a.slice + 1) <= P(b.slice)
    <3>1. P(a.slice + 1) = P(b.slice) \/ P(a.slice + 1) < P(b.slice)
      BY <1>3, <1>5, <2>1
    <3>2. P(a.slice + 1) \in Nat /\ P(b.slice) \in Nat
      BY <1>2, <1>5, <2>1
    <3> HIDE DEF P
    <3> QED
      BY <3>1, <3>2
  <2>4. Offset(b) = P(b.slice) + b.byte /\ b.byte \in Nat
    BY <1>4, <1>5
  <2>5. P(b.slice) \in Nat /\ P(a.slice + 1) \in Nat
    BY <1>2, <1>5, <2>1
  <2>6. Offset(a) = Offset(b)
    BY <1>5
  <2> HIDE DEF P
  <2> QED
    BY <2>2, <2>3, <2>4, <2>5, <2>6
<1>6. r.slice = q.slice
  <2>1. ~(r.slice < q.slice) /\ ~(q.slice < r.slice)
    BY <1>1, <1>5
  <2> HIDE DEF l
  <2> QED
    BY <1>1, <2>1
<1>7. r.byte = q.byte
  <2>1. Offset(r) = P(r.slice) + r.byte /\ Offset(q) = P(q.slice) + q.byte /\ P(r.slice) \in Nat
        /\ r.byte \in Nat /\ q.byte \in Nat
    BY <1>1, <1>2, <1>4
  <2>2. P(q.slice) = P(r.slice)
    BY <1>6
  <2> DEFINE o == P(r.slice)
  <2>3. Offset(r) = o + r.byte /\ Offset(r) = o + q.byte /\ o \in Nat /\ r.byte \in Nat /\ q.byte \in Nat
    BY <2>1, <2>2
  <2> HIDE DEF o
  <2> QED
    BY <2>3
<1> QED
  BY SMTT(30), <1>1, <1>6, <1>7

\* Two operations that give as many bytes give the same ones and the same reader.
LEMMA GivesSame ==
    ASSUME NEW r \in Readers, NEW k, NEW a, NEW b, Gives(r, a, k), Gives(r, b, k)
    PROVE  a.data = b.data /\ a.r = b.r
<1>1. a.data = b.data
  BY DEF Gives
<1>2. /\ a.r \in Readers /\ b.r \in Readers /\ a.r.chunks = b.r.chunks /\ Firm(a.r) /\ Firm(b.r)
      /\ Offset(a.r) = Offset(b.r)
  BY DEF Gives
<1> QED
  BY <1>1, <1>2, FirmUnique

\* An answer a has the content of some bytes, and leaves the reader where they do.
SameAs(a, bytes) ==
    /\ a.ok /\ a.data = Content(bytes.data) /\ a.r = bytes.r
    /\ a.data # <<>> => EqualBytes(Single(a.data), bytes.data)

LEMMA SameIs ==
    ASSUME NEW r \in Readers, NEW n \in Nat \ {0}, NEW a, Gets(r, a, n),
           NEW bytes, bytes.data \in Vecs, Gives(r, Ok(Content(bytes.data), bytes.r), n)
    PROVE  SameAs(a, bytes)
<1>1. a.ok /\ Gives(r, a, n)
  BY DEF Gets
<1>2. a.data = Ok(Content(bytes.data), bytes.r).data /\ a.r = Ok(Content(bytes.data), bytes.r).r
  BY <1>1, GivesSame
<1>3. a.data = Content(bytes.data) /\ a.r = bytes.r
  BY <1>2 DEF Ok
<1>4. a.data # <<>> => EqualBytes(Single(a.data), bytes.data)
  BY <1>3, EqualIs
<1> QED
  BY <1>1, <1>3, <1>4 DEF SameAs

\* The decoders of a payload agree.
LEMMA DecodersSame ==
    ASSUME NEW r \in Readers, Firm(r)
    PROVE  IF ReadBytes(r).ok
           THEN /\ SameAs(ReadVec(r), ReadBytes(r))
                /\ ReadBytes(r).data = NoBytes \/ SameAs(ReadChunkField(r), ReadBytes(r))
           ELSE ~ReadVec(r).ok
<1> DEFINE len == ReadVle(r)
           n == len.data
           one == ReadContiguous(len.r, n)
           views == ReadChunks(one.r, n)
           bytes == ReadBytes(r)
<1>1. bytes = IF ~len.ok THEN [Fail(len.r) EXCEPT !.data = NoBytes]
              ELSE IF n = 0 THEN Ok(NoBytes, len.r)
              ELSE IF one.ok THEN Ok(Single(one.data), one.r)
              ELSE views
  BY DEF ReadBytes
<1>2. len.ok \in BOOLEAN /\ Follows(r, len.r) /\ (len.ok => n \in Nat)
  BY ReadVleIs
<1>3. len.r \in Readers /\ Firm(len.r)
  BY <1>2 DEF Follows
<1>4. /\ ReadVec(r) = IF ~len.ok THEN Fail(len.r)
                      ELSE IF n = 0 THEN Ok(<<>>, len.r) ELSE ReadExact(len.r, n)
      /\ ReadChunkField(r) = IF len.ok THEN ReadChunk(len.r, n) ELSE Fail(len.r)
  BY DEF ReadVec, ReadChunkField
<1> HIDE DEF len, n, bytes
<1>5. CASE ~len.ok
  <2>1. bytes = [ok |-> FALSE, data |-> NoBytes, r |-> len.r]
    BY <1>1, <1>5 DEF Fail
  <2>2. ReadVec(r) = [ok |-> FALSE, data |-> <<>>, r |-> len.r]
    BY <1>4, <1>5 DEF Fail
  <2> QED
    BY <2>1, <2>2 DEF bytes
<1>6. CASE len.ok /\ n = 0
  <2>1. bytes = [ok |-> TRUE, data |-> NoBytes, r |-> len.r]
    BY <1>1, <1>6 DEF Ok
  <2>2. ReadVec(r) = [ok |-> TRUE, data |-> <<>>, r |-> len.r]
    BY <1>4, <1>6 DEF Ok
  <2>3. SameAs(ReadVec(r), bytes)
    BY <2>1, <2>2, NoBytesIs DEF SameAs
  <2> QED
    BY <2>1, <2>3 DEF bytes
<1>7. CASE len.ok /\ n # 0
  <2>1. n \in Nat \ {0} /\ n \in Nat /\ n # 0
    BY <1>2, <1>7
  <2>2. Gets(len.r, one, n) \/ Refuses(len.r, one)
    BY <1>3, <2>1, ReadContiguousIs
  <2>3. ReadVec(r) = ReadExact(len.r, n) /\ ReadChunkField(r) = ReadChunk(len.r, n)
    BY <1>4, <1>7
  <2>4. IF n <= Remaining(len.r) THEN Gets(len.r, ReadVec(r), n) ELSE Wastes(len.r, ReadVec(r))
    BY <1>3, <2>1, <2>3, ReadExactIs
  <2>5. IF n <= Remaining(len.r)
        THEN Gets(len.r, ReadChunkField(r), n) ELSE Wastes(len.r, ReadChunkField(r))
    BY <1>3, <2>1, <2>3, ReadChunkIs
  <2> DEFINE Good == /\ bytes.ok /\ bytes.data \in Vecs /\ n <= Remaining(len.r)
                     /\ Gives(len.r, Ok(Content(bytes.data), bytes.r), n)
  <2>6. Good \/ (~bytes.ok /\ ~(n <= Remaining(len.r)))
    <3> HIDE DEF one
    <3>1. CASE Gets(len.r, one, n)
      <4>1. one.ok /\ Gives(len.r, one, n) /\ n <= Remaining(len.r)
        BY <3>1 DEF Gets
      <4>2. one.data \in Seq(Nat) /\ Len(one.data) = n
        BY <4>1 DEF Gives
      <4>3. one.data \in Chunk
        BY <2>1, <4>2, EmptySeq DEF Chunk
      <4>4. bytes = [ok |-> TRUE, data |-> Single(one.data), r |-> one.r]
        BY <1>1, <1>7, <4>1 DEF Ok
      <4>5. Single(one.data) \in Vecs /\ Content(Single(one.data)) = one.data
        BY <4>3, SingleIs
      <4>6. bytes.ok /\ bytes.data = Single(one.data) /\ bytes.r = one.r
        BY <4>4
      <4>7. Gives(len.r, Ok(Content(bytes.data), bytes.r), n)
        BY <4>1, <4>5, <4>6 DEF Gives, Ok
      <4> QED
        BY <4>1, <4>5, <4>6, <4>7
    <3>2. CASE Refuses(len.r, one)
      <4>1. ~one.ok /\ one.r = len.r
        BY <3>2 DEF Refuses
      <4>2. bytes = ReadChunks(len.r, n)
        BY <1>1, <1>7, <4>1
      <4>3. /\ bytes.ok <=> n <= Remaining(len.r)
            /\ bytes.data \in Vecs
            /\ n <= Remaining(len.r) => Gives(len.r, Ok(Content(bytes.data), bytes.r), n)
        BY <1>3, <2>1, <4>2, ReadChunksIs
      <4> QED
        BY <4>3
    <3> QED
      BY <2>2, <3>1, <3>2
  <2>7. CASE Good
    <3>1. SameAs(ReadVec(r), bytes) /\ SameAs(ReadChunkField(r), bytes)
      BY <1>3, <2>1, <2>4, <2>5, <2>7, SameIs
    <3> QED
      BY <2>7, <3>1 DEF bytes
  <2>8. CASE ~bytes.ok /\ ~(n <= Remaining(len.r))
    <3>1. ReadVec(r).ok = FALSE
      BY <2>4, <2>8 DEF Wastes
    <3> QED
      BY <2>8, <3>1 DEF bytes
  <2> QED
    BY <2>6, <2>7, <2>8
<1> QED
  BY <1>2, <1>5, <1>6, <1>7

----------------------------------------------------------------------------
(* What is written is read *)

\* The cursor moved within its chunk.
LEMMA AdvanceIn ==
    ASSUME NEW r \in Readers, AtChunk(r), NEW k \in Nat, r.byte + k < Len(ChunkOf(r))
    PROVE  /\ Advance(r, k) \in Readers /\ Firm(Advance(r, k)) /\ AtChunk(Advance(r, k))
           /\ Advance(r, k).chunks = r.chunks /\ Advance(r, k).slice = r.slice
           /\ Advance(r, k).byte = r.byte + k /\ ChunkOf(Advance(r, k)) = ChunkOf(r)
           /\ Len(ChunkOf(r)) \in Nat /\ r.byte \in Nat
<1> DEFINE c == ChunkOf(r)
           s == [r EXCEPT !.byte = @ + k]
<1>1. Len(c) \in Nat /\ r.byte \in Nat
  BY ChunkAhead
<1> HIDE DEF c
<1>2. r.byte + k \in Nat /\ r.byte + k # Len(c) /\ r.byte + k <= Len(c)
  BY <1>1 DEF c
<1>3. Advance(r, k) = s
  BY <1>2 DEF Advance, c
<1>4. /\ r \in [chunks : Seq(Chunk), slice : Nat, byte : Nat]
      /\ r.slice <= Len(r.chunks) /\ r.slice < Len(r.chunks)
  BY DEF Readers, AtChunk
<1>5. /\ s \in [chunks : Seq(Chunk), slice : Nat, byte : Nat]
      /\ s.chunks = r.chunks /\ s.slice = r.slice /\ s.byte = r.byte + k
  BY <1>2, <1>4
<1> HIDE DEF s
<1>6. AtChunk(s) /\ ChunkOf(s) = c
  BY <1>4, <1>5 DEF AtChunk, ChunkOf, c
<1>7. s \in Readers
  <2>1. r.slice \in Nat /\ Len(r.chunks) \in Nat
    BY <1>4, LenProperties
  <2>2. s.slice # Len(s.chunks)
    BY <1>4, <1>5, <2>1
  <2>3. s.byte <= Len(s.chunks[s.slice + 1])
    BY <1>2, <1>5 DEF c, ChunkOf
  <2> QED
    BY <1>4, <1>5, <2>2, <2>3 DEF Readers
<1>8. Firm(s)
  BY <1>5, <1>6 DEF Firm, c
<1> QED
  BY <1>1, <1>3, <1>5, <1>6, <1>7, <1>8 DEF c

\* The next byte, k bytes further on in the same chunk.
LEMMA ReadU8In ==
    ASSUME NEW r \in Readers, AtChunk(r), NEW k \in Nat, r.byte + k < Len(ChunkOf(r))
    PROVE  ReadU8(Advance(r, k)) = Ok(<<ChunkOf(r)[r.byte + k + 1]>>, Advance(r, k + 1))
<1> DEFINE s == Advance(r, k)
           c == ChunkOf(r)
<1>1. /\ s \in Readers /\ AtChunk(s) /\ s.byte = r.byte + k /\ ChunkOf(s) = c
      /\ s.chunks = r.chunks /\ s.slice = r.slice /\ Len(c) \in Nat /\ r.byte \in Nat
  BY AdvanceIn
<1>2. c \in Seq(Nat)
  BY ChunkAhead, ChunkSeqs DEF Readers, AtChunk, ChunkOf, Chunk
<1> HIDE DEF s
<1>3. RestOf(s)[1] = c[r.byte + k + 1]
  <2> DEFINE p == r.byte + k + 1
  <2>1. RestOf(s) = SubSeq(c, p, Len(c)) /\ p \in 1..Len(c)
    BY <1>1 DEF RestOf
  <2>2. p \in Nat /\ p + 1 - 1 = p
    BY <1>1
  <2> HIDE DEF c, p
  <2>3. SubSeq(c, p, Len(c))[1] = c[p]
    BY <1>1, <1>2, <2>1, <2>2
  <2> QED
    BY <2>1, <2>3 DEF p, c
<1>4. Advance(s, 1) = Advance(r, k + 1)
  <2>1. /\ r \in [chunks : Seq(Chunk), slice : Nat, byte : Nat]
        /\ s \in [chunks : Seq(Chunk), slice : Nat, byte : Nat]
    BY <1>1 DEF Readers
  <2>2. s.byte + 1 = r.byte + (k + 1)
    BY <1>1
  <2>3. [s EXCEPT !.slice = @ + 1, !.byte = 0] = [r EXCEPT !.slice = @ + 1, !.byte = 0]
    BY <1>1, <2>1
  <2>4. [s EXCEPT !.byte = @ + 1] = [r EXCEPT !.byte = @ + (k + 1)]
    BY <1>1, <2>1, <2>2
  <2> QED
    BY <1>1, <2>2, <2>3, <2>4 DEF Advance
<1>5. s.byte < Len(ChunkOf(s))
  BY <1>1
<1> QED
  BY <1>1, <1>3, <1>4, <1>5 DEF ReadU8, s

\* The bytes c come next, in the chunk of the cursor.
Holds(r, c) ==
    /\ AtChunk(r) /\ r.byte + Len(c) <= Len(ChunkOf(r))
    /\ \A i \in 1..Len(c) : ChunkOf(r)[r.byte + i] = c[i]

\* After k bytes of an integer x.
Midway(r, x, k) ==
    [r |-> Advance(r, k), i |-> k, on |-> k # VleLen(x), ok |-> TRUE,
     value |-> IF k = VleLen(x) THEN x ELSE Low(x, k)]

LEMMA VleMoves ==
    ASSUME NEW r \in Readers, NEW x \in Nat, x <= MaxVle, Holds(r, VleBytes(x)),
           NEW k \in Nat, k < VleLen(x)
    PROVE  VleTurn(Midway(r, x, k)) = Midway(r, x, k + 1)
<1> DEFINE n == VleLen(x)
           v == Midway(r, x, k)
           c == ChunkOf(r)
           b == VleBytes(x)[k + 1]
<1>1. n \in Nat /\ k # n /\ k < n /\ Len(VleBytes(x)) = n /\ k + 1 \in 1..n /\ k + 1 \in Nat
  <2>1. n \in Nat /\ Len(VleBytes(x)) = n
    BY VleLenIs, VleBytesAre
  <2>2. k < n
    OBVIOUS
  <2> HIDE DEF n
  <2> QED
    BY <2>1, <2>2
<1>2. AtChunk(r) /\ r.byte + n <= Len(c) /\ c[r.byte + (k + 1)] = b
  BY <1>1 DEF Holds
<1>3. Len(c) \in Nat /\ r.byte \in Nat
  BY <1>2, ChunkAhead
<1>4. r.byte + k < Len(c) /\ r.byte + (k + 1) = r.byte + k + 1
  <2>1. r.byte + n <= Len(c)
    BY <1>2
  <2> HIDE DEF n, c
  <2> QED
    BY <1>1, <1>3, <2>1
<1>5. ReadU8(Advance(r, k)) = Ok(<<b>>, Advance(r, k + 1))
  BY <1>2, <1>4, ReadU8In
<1>6. /\ v.r = Advance(r, k) /\ v.i = k /\ v.on = TRUE /\ v.value = Low(x, k)
  BY <1>1 DEF Midway
<1> DEFINE u == ReadU8(v.r)
<1>7. u.ok = TRUE /\ u.data[1] = b /\ u.r = Advance(r, k + 1)
  BY <1>5, <1>6 DEF Ok
<1>8. VleTurn(v) = Taken(v, u)
  BY <1>6 DEF VleTurn
<1> HIDE DEF u, v, b
<1>9. Taken(v, u) = [r |-> Advance(r, k + 1), i |-> k + 1, on |-> Marked(b, k), ok |-> TRUE,
                     value |-> Low(x, k) + Count(b, k) * Weight[k]]
  BY <1>6, <1>7 DEF Taken, Marked, Count
<1>10. /\ Marked(b, k) = (k + 1 # n)
       /\ Low(x, k) + Count(b, k) * Weight[k] = IF k + 1 = n THEN x ELSE Low(x, k + 1)
  <2>1. Marked(b, k) \in BOOLEAN /\ (k + 1 # n) \in BOOLEAN
    BY DEF Marked
  <2> QED
    BY <2>1, VleByteIs DEF b
<1>11. Midway(r, x, k + 1) = [r |-> Advance(r, k + 1), i |-> k + 1, on |-> k + 1 # n, ok |-> TRUE,
                     value |-> IF k + 1 = n THEN x ELSE Low(x, k + 1)]
  BY DEF Midway
<1> HIDE DEF n
<1>12. VleTurn(v) = Midway(r, x, k + 1)
  BY <1>8, <1>9, <1>10, <1>11, Zenon
<1> QED
  BY <1>12 DEF v

\* What VleBytes writes, ReadVle reads, for every integer that has a representation.
THEOREM IntegersReadBack ==
    ASSUME NEW r \in Readers, Firm(r), NEW x \in Nat, x <= MaxVle, Holds(r, VleBytes(x))
    PROVE  ReadVle(r) = Ok(x, Advance(r, VleLen(x)))
<1> DEFINE n == VleLen(x)
<1>1. PICK f \in [Nat -> VleStates(r)] :
          /\ f[0] = VleStart(r) /\ \A k \in Nat : f[k + 1] = VleTurn(f[k])
          /\ ReadVle(r) = Whole(f[VleMax])
  BY VleRun
<1>2. n \in Nat /\ n >= 1 /\ n <= VleMax /\ VleMax \in Nat
  BY VleLenIs, CodecAssumption
<1> DEFINE T == {k \in Nat : k <= n => f[k] = Midway(r, x, k)}
           U == {k \in Nat : f[n + k] = f[n]}
<1>3. 0 \in T
  <2>1. Advance(r, 0) = r
    <3>1. /\ r \in [chunks : Seq(Chunk), slice : Nat, byte : Nat] /\ AtChunk(r)
          /\ r.byte \in Nat /\ r.byte + 0 = r.byte /\ r.byte # Len(ChunkOf(r))
      BY ChunkAhead DEF Readers, Holds, Firm
    <3> QED
      BY <3>1 DEF Advance
  <2>2. Low(x, 0) = 0
    <3>1. Weight[0] = 1 /\ x \div 1 = x
      BY WeightIs
    <3> QED
      BY <3>1 DEF Low
  <2>3. n # 0
    BY <1>2
  <2>4. Midway(r, x, 0) = VleStart(r)
    BY <2>1, <2>2, <2>3 DEF Midway, VleStart
  <2> QED
    BY <1>1, <2>4
<1>4. ASSUME NEW k \in Nat, k \in T PROVE k + 1 \in T
  <2>1. SUFFICES ASSUME k + 1 <= n PROVE f[k + 1] = Midway(r, x, k + 1)
    OBVIOUS
  <2>2. k < n /\ k <= n
    BY <1>2, <2>1
  <2> QED
    BY <1>1, <1>4, <2>2, VleMoves
<1>5. f[n] = Midway(r, x, n)
  <2> HIDE DEF T
  <2>1. n \in T
    BY <1>2, <1>3, <1>4, SetInduction
  <2> QED
    BY <1>2, <2>1 DEF T
<1>6. f[n].on = FALSE /\ f[n].ok = TRUE /\ f[n].value = x /\ f[n].r = Advance(r, n)
  <2>1. Midway(r, x, n) = [r |-> Advance(r, n), i |-> n, on |-> FALSE, ok |-> TRUE, value |-> x]
    BY Zenon DEF Midway
  <2> HIDE DEF n
  <2> QED
    BY <1>5, <2>1
<1> HIDE DEF n, T
<1>7. 0 \in U
  BY <1>2
<1>8. ASSUME NEW k \in Nat, k \in U PROVE k + 1 \in U
  <2>1. n + k \in Nat /\ n + (k + 1) = (n + k) + 1
    BY <1>2
  <2>2. f[n + (k + 1)] = VleTurn(f[n])
    BY <1>1, <1>8, <2>1
  <2>3. VleTurn(f[n]) = f[n]
    BY <1>6 DEF VleTurn
  <2> QED
    BY <2>2, <2>3
<1>9. f[VleMax] = f[n]
  <2> HIDE DEF U
  <2>1. VleMax - n \in Nat /\ n + (VleMax - n) = VleMax
    BY <1>2
  <2>2. VleMax - n \in U
    BY <1>7, <1>8, <2>1, SetInduction
  <2> QED
    BY <2>1, <2>2 DEF U
<1>10. Whole(f[VleMax]) = Ok(x, Advance(r, n))
  BY <1>6, <1>9 DEF Whole
<1> QED
  BY <1>1, <1>10 DEF n

\* Two moves within the chunk are one.
LEMMA AdvanceTwice ==
    ASSUME NEW r \in Readers, AtChunk(r), NEW k \in Nat, r.byte + k < Len(ChunkOf(r)), NEW m \in Nat
    PROVE  Advance(Advance(r, k), m) = Advance(r, k + m)
<1> DEFINE s == Advance(r, k)
           c == ChunkOf(r)
<1>1. /\ s \in Readers /\ s.byte = r.byte + k /\ ChunkOf(s) = c
      /\ s.chunks = r.chunks /\ s.slice = r.slice /\ Len(c) \in Nat /\ r.byte \in Nat
  BY AdvanceIn
<1> HIDE DEF s
<1>2. /\ r \in [chunks : Seq(Chunk), slice : Nat, byte : Nat]
      /\ s \in [chunks : Seq(Chunk), slice : Nat, byte : Nat]
  BY <1>1 DEF Readers
<1>3. s.byte + m = r.byte + (k + m)
  BY <1>1
<1>4. [s EXCEPT !.slice = @ + 1, !.byte = 0] = [r EXCEPT !.slice = @ + 1, !.byte = 0]
  BY <1>1, <1>2
<1>5. [s EXCEPT !.byte = @ + m] = [r EXCEPT !.byte = @ + (k + m)]
  BY <1>1, <1>2, <1>3
<1>6. Advance(s, m) = Advance(r, k + m)
  BY <1>1, <1>3, <1>4, <1>5 DEF Advance
<1> QED
  BY <1>6 DEF s

\* Behind a the reader is where b comes next.
LEMMA HoldsRest ==
    ASSUME NEW r \in Readers, NEW a \in Seq(Nat), NEW b \in Seq(Nat), b # <<>>, Holds(r, a \o b)
    PROVE  /\ Holds(r, a) /\ Advance(r, Len(a)) \in Readers /\ Firm(Advance(r, Len(a)))
           /\ Holds(Advance(r, Len(a)), b)
           /\ \A m \in Nat : Advance(Advance(r, Len(a)), m) = Advance(r, Len(a) + m)
<1> DEFINE c == ChunkOf(r)
           k == Len(a)
           s == Advance(r, k)
<1>1. /\ AtChunk(r) /\ r.byte + Len(a \o b) <= Len(c)
      /\ \A i \in 1..Len(a \o b) : c[r.byte + i] = (a \o b)[i]
  BY DEF Holds
<1>2. /\ k \in Nat /\ Len(b) \in Nat /\ Len(b) > 0 /\ Len(a \o b) = k + Len(b)
      /\ \A i \in 1..k : (a \o b)[i] = a[i]
      /\ \A i \in 1..Len(b) : (a \o b)[k + i] = b[i]
  BY ConcatProperties, LenProperties, EmptySeq
<1>3. Len(c) \in Nat /\ r.byte \in Nat
  BY <1>1, ChunkAhead
<1> HIDE DEF c, k
<1>4. r.byte + k < Len(c) /\ r.byte + k <= Len(c)
  <2> DEFINE l == Len(b)
             t == Len(a \o b)
  <2>1. l \in Nat /\ l > 0 /\ t = k + l /\ r.byte + t <= Len(c)
    BY <1>1, <1>2
  <2> HIDE DEF l, t
  <2> QED
    BY <1>2, <1>3, <2>1
<1>5. /\ s \in Readers /\ Firm(s) /\ AtChunk(s) /\ s.byte = r.byte + k /\ ChunkOf(s) = c
  BY <1>1, <1>2, <1>4, AdvanceIn DEF c
<1>6. Holds(r, a)
  <2>1. \A i \in 1..k : i \in 1..Len(a \o b)
    BY <1>2
  <2>2. \A i \in 1..k : c[r.byte + i] = a[i]
    BY <1>1, <1>2, <2>1
  <2> QED
    BY <1>1, <1>4, <2>2 DEF Holds, c, k
<1>7. Holds(s, b)
  <2>1. ASSUME NEW i \in 1..Len(b) PROVE c[(r.byte + k) + i] = b[i]
    <3> DEFINE l == Len(b)
    <3>0. i \in 1..l
      OBVIOUS
    <3>1. l \in Nat /\ Len(a \o b) = k + l /\ k \in Nat
      BY <1>2
    <3> HIDE DEF l
    <3>2. k + i \in 1..(k + l) /\ r.byte + (k + i) = (r.byte + k) + i
      BY <1>3, <3>0, <3>1
    <3> QED
      BY <1>1, <1>2, <3>0, <3>1, <3>2 DEF l
  <2>2. (r.byte + k) + Len(b) <= Len(c)
    <3> DEFINE l == Len(b)
               t == Len(a \o b)
    <3>1. l \in Nat /\ t = k + l /\ r.byte + t <= Len(c)
      BY <1>1, <1>2
    <3> HIDE DEF l, t
    <3>2. (r.byte + k) + l <= Len(c)
      BY <1>2, <1>3, <3>1
    <3> QED
      BY <3>2 DEF l
  <2> HIDE DEF s
  <2> QED
    BY <1>5, <2>1, <2>2 DEF Holds
<1>8. ASSUME NEW m \in Nat PROVE Advance(s, m) = Advance(r, k + m)
  BY <1>1, <1>2, <1>4, AdvanceTwice DEF c
<1> QED
  BY <1>5, <1>6, <1>7, <1>8 DEF k

\* What is read of a byte that comes next.
LEMMA ByteReadsBack ==
    ASSUME NEW r \in Readers, Firm(r), NEW x \in Nat, Holds(r, <<x>>)
    PROVE  ReadU8(r) = Ok(<<x>>, Advance(r, 1))
<1>1. AtChunk(r) /\ ChunkOf(r)[r.byte + 1] = x /\ r.byte < Len(ChunkOf(r))
  BY DEF Holds, Firm
<1>2. r.byte \in Nat /\ r.byte + 0 = r.byte /\ r.byte + 0 + 1 = r.byte + 1 /\ 0 + 1 = 1
  BY DEF Readers
<1>3. Advance(r, 0) = r
  <2>1. /\ r \in [chunks : Seq(Chunk), slice : Nat, byte : Nat]
        /\ r.byte # Len(ChunkOf(r))
    BY <1>1, ChunkAhead DEF Readers
  <2> QED
    BY <1>2, <2>1 DEF Advance
<1> QED
  BY <1>1, <1>2, <1>3, ReadU8In

\* Sequence numbers are integers that have a representation: numbers of 32 bits in
\* up to nine bytes.
SnsFit == Modulus <= MaxVle + 1

LEMMA MaxVleIs == MaxVle \in Nat
<1>1. VleMax - 1 \in Nat /\ Group \in Nat /\ Group > 1
  BY CodecAssumption
<1> DEFINE w == Weight[VleMax - 1]
<1>2. w \in Nat /\ w > 0
  BY <1>1, WeightPositive
<1>3. MaxVle = w * 2 * Group - 1
  BY DEF MaxVle
<1> HIDE DEF w
<1>4. w * 2 * Group \in Nat /\ w * 2 * Group > 0
  BY <1>1, <1>2
<1> QED
  BY <1>3, <1>4

LEMMA SnReadsBack ==
    ASSUME SnsFit, NEW r \in Readers, Firm(r), NEW sn \in SeqNums, Holds(r, VleBytes(sn))
    PROVE  ReadSn(r) = Ok(sn, Advance(r, VleLen(sn)))
<1>1. Modulus \in Nat /\ Modulus > 0
  BY SeqNumAssumption DEF Modulus
<1>2. sn \in Nat /\ sn < Modulus
  BY <1>1 DEF SeqNums
<1>3. sn <= MaxVle /\ sn % Modulus = sn
  BY <1>1, <1>2, MaxVleIs DEF SnsFit
<1>4. ReadVle(r) = Ok(sn, Advance(r, VleLen(sn)))
  BY <1>2, <1>3, IntegersReadBack
<1> DEFINE v == ReadVle(r)
<1>5. v.ok = TRUE /\ v.data = sn /\ v.r = Advance(r, VleLen(sn))
  BY <1>4 DEF Ok
<1>6. ReadSn(r) = AsSn(v) /\ NewSn(sn) = sn
  BY <1>3 DEF ReadSn, NewSn
<1> HIDE DEF v
<1>7. AsSn(v) = Ok(sn, Advance(r, VleLen(sn)))
  BY <1>5, <1>6 DEF AsSn
<1> QED
  BY <1>6, <1>7

Qualities == [prio : 0..3, cc : {"block", "drop"}, express : BOOLEAN]

LEMMA QosReadsBack ==
    ASSUME NEW q \in Qualities
    PROVE  QosOf(QosByte(q.prio, q.cc, q.express)) = q
<1> DEFINE c == IF q.cc = "drop" THEN 1 ELSE 0
           e == IF q.express THEN 1 ELSE 0
           p == q.prio
           b == p + 4 * c + 8 * e
<1>1. p \in 0..3 /\ q.cc \in {"block", "drop"} /\ q.express \in BOOLEAN
  BY DEF Qualities
<1>2. c \in {0, 1} /\ e \in {0, 1} /\ (c = 1 <=> q.cc = "drop") /\ (e = 1 <=> q.express = TRUE)
  BY <1>1
<1>3. QosByte(q.prio, q.cc, q.express) = b
  BY <1>1 DEF QosByte
<1> HIDE DEF c, e, p
<1>4. b % 4 = p /\ (b \div 4) % 2 = c /\ (b \div 8) % 2 = e
  BY <1>1, <1>2
<1> HIDE DEF b
<1>5. QosOf(b) = [prio |-> p, cc |-> IF c = 1 THEN "drop" ELSE "block", express |-> e = 1]
  BY <1>4 DEF QosOf
<1>6. (IF c = 1 THEN "drop" ELSE "block") = q.cc /\ (e = 1) = q.express
  BY <1>1, <1>2
<1>7. q = [prio |-> q.prio, cc |-> q.cc, express |-> q.express]
  BY DEF Qualities
<1> QED
  BY <1>3, <1>5, <1>6, <1>7 DEF p

LEMMA BodyOfByte ==
    ASSUME NEW body \in Bodies
    PROVE  BodyOf(BodyByte(body)) = body
<1>1. /\ KindCode["first"] = 0 /\ KindCode["more"] = 1 /\ KindCode["last"] = 2
      /\ DOMAIN KindCode = {"first", "more", "last"}
  BY DEF KindCode
<1>2. CASE body = "frame"
  <2>1. BodyByte(body) = 0 /\ 0 % 32 = 0
    BY <1>2 DEF BodyByte, Frame_Id
  <2> QED
    BY <1>2, <2>1 DEF BodyOf, Frame_Id, Fragment_Id
<1>3. ASSUME body # "frame" PROVE BodyOf(BodyByte(body)) = body
  <2> DEFINE k == KindCode[body]
             b == 1 + 32 * k
  <2>1. body \in DOMAIN KindCode /\ k \in {0, 1, 2}
    BY <1>1, <1>3 DEF Bodies
  <2>2. BodyByte(body) = b
    BY <1>3 DEF BodyByte, Fragment_Id
  <2> HIDE DEF k
  <2>3. b % 32 = 1 /\ (b \div 32) % 4 = k
    BY <2>1
  <2>4. \A j \in DOMAIN KindCode : KindCode[j] = k <=> j = body
    BY <1>1, <2>1 DEF k
  <2> HIDE DEF b
  <2>5. BodyOf(b) = CHOOSE j \in DOMAIN KindCode : KindCode[j] = (b \div 32) % 4
    BY <2>3 DEF BodyOf, Frame_Id, Fragment_Id
  <2>6. BodyOf(b) = CHOOSE j \in DOMAIN KindCode : KindCode[j] = k
    BY <2>3, <2>5
  <2>7. \E j \in DOMAIN KindCode : KindCode[j] = k
    BY <2>1, <2>4
  <2> QED
    BY <2>2, <2>4, <2>6, <2>7
<1> QED
  BY <1>2, <1>3

\* The bytes of a header.
BodyBytes(body, fid) ==
    IF body = "frame" THEN <<BodyByte(body)>> ELSE <<BodyByte(body)>> \o VleBytes(fid)
HeaderBytes(q, sn, body, fid) == <<q>> \o (VleBytes(sn) \o BodyBytes(body, fid))

LEMMA BodyBytesAre ==
    ASSUME NEW body \in Bodies, NEW fid \in Nat
    PROVE  /\ BodyBytes(body, fid) \in Seq(Nat) /\ BodyBytes(body, fid) # <<>>
           /\ Len(BodyBytes(body, fid)) = IF body = "frame" THEN 1 ELSE 1 + VleLen(fid)
<1> DEFINE b == <<BodyByte(body)>>
           c == VleBytes(fid)
<1>1. b \in Seq(Nat) /\ Len(b) = 1
  BY BodyByteIs
<1>2. c \in Seq(Nat) /\ Len(c) = VleLen(fid) /\ VleLen(fid) \in Nat
  BY VleBytesAre, VleLenIs
<1>3. BodyBytes(body, fid) = IF body = "frame" THEN b ELSE b \o c
  BY DEF BodyBytes
<1> HIDE DEF b, c
<1>4. b \o c \in Seq(Nat) /\ Len(b \o c) = 1 + VleLen(fid)
  <2>1. b \o c \in Seq(Nat) /\ Len(b \o c) = Len(b) + Len(c)
    BY <1>1, <1>2, ConcatProperties
  <2> QED
    BY <1>1, <1>2, <2>1
<1>5. \A s \in Seq(Nat) : Len(s) > 0 => s # <<>>
  BY EmptySeq
<1>6. 1 + VleLen(fid) > 0
  BY <1>2
<1>7. b # <<>> /\ b \o c # <<>>
  <2>1. b # <<>>
    BY <1>1, EmptySeq
  <2> DEFINE u == b \o c
  <2>2. u \in Seq(Nat) /\ Len(u) > 0
    BY <1>4, <1>6
  <2> HIDE DEF u
  <2>3. u # <<>>
    BY <1>5, <2>2
  <2> QED
    BY <2>1, <2>3 DEF u
<1> QED
  BY <1>1, <1>3, <1>4, <1>7

LEMMA HeaderBytesAre ==
    ASSUME NEW q \in Nat, NEW sn \in Nat, NEW body \in Bodies, NEW fid \in Nat
    PROVE  /\ FlattenSeq(HeaderPieces(q, sn, body, fid)) = HeaderBytes(q, sn, body, fid)
           /\ HeaderBytes(q, sn, body, fid) \in Seq(Nat)
           /\ Len(HeaderBytes(q, sn, body, fid)) = HeaderLen(sn, body, fid)
           /\ HeaderLen(sn, body, fid) \in Nat
<1> DEFINE a == <<q>>
           b == VleBytes(sn)
           c == <<BodyByte(body)>>
           d == VleBytes(fid)
           e == BodyBytes(body, fid)
<1>1. a \in Seq(Nat) /\ b \in Seq(Nat) /\ c \in Seq(Nat) /\ d \in Seq(Nat)
  BY BodyByteIs, VleBytesAre
<1>2. e \in Seq(Nat) /\ e = (IF body = "frame" THEN c ELSE c \o d)
  BY BodyBytesAre DEF BodyBytes
<1>3. HeaderPieces(q, sn, body, fid) =
        (<<a>> \o <<b>>) \o (IF body = "frame" THEN <<c>> ELSE <<c>> \o <<d>>)
  BY DEF HeaderPieces, SnPieces, BodyPieces, FramePieces, FragmentPieces
<1>4. Len(a) = 1 /\ Len(b) = VleLen(sn) /\ VleLen(sn) \in Nat /\ VleLen(fid) \in Nat
      /\ Len(e) = IF body = "frame" THEN 1 ELSE 1 + VleLen(fid)
  BY VleBytesAre, VleLenIs, BodyBytesAre
<1>5. HeaderBytes(q, sn, body, fid) = a \o (b \o e)
  BY DEF HeaderBytes
<1> HIDE DEF a, b, c, d, e
<1>6. /\ FlattenSeq(<<a>>) = a /\ FlattenSeq(<<b>>) = b /\ FlattenSeq(<<c>>) = c /\ FlattenSeq(<<d>>) = d
      /\ <<a>> \in Seq(Seq(Nat)) /\ <<b>> \in Seq(Seq(Nat)) /\ <<c>> \in Seq(Seq(Nat)) /\ <<d>> \in Seq(Seq(Nat))
  <2>1. \A s \in Seq(Nat) : FlattenSeq(<<s>>) = s /\ <<s>> \in Seq(Seq(Nat))
    <3> TAKE s \in Seq(Nat)
    <3>1. <<>> \in Seq(Seq(Nat))
      OBVIOUS
    <3>2. FlattenSeq(<<s>>) = s
      BY <3>1, FlattenAppend
    <3> QED
      BY <3>2
  <2> QED
    BY <1>1, <2>1
<1> DEFINE t == IF body = "frame" THEN <<c>> ELSE <<c>> \o <<d>>
<1>7. t \in Seq(Seq(Nat)) /\ FlattenSeq(t) = e
  <2>1. <<c>> \o <<d>> \in Seq(Seq(Nat))
    BY <1>6, ConcatProperties
  <2>2. FlattenSeq(<<c>> \o <<d>>) = c \o d
    BY ZenonT(60), <1>6, FlattenConcat
  <2> QED
    BY <1>2, <1>6, <2>1, <2>2
<1>8. <<a>> \o <<b>> \in Seq(Seq(Nat))
  BY <1>6, ConcatProperties
<1>9. FlattenSeq(<<a>> \o <<b>>) = a \o b
  BY ZenonT(60), <1>6, FlattenConcat
<1>10. HeaderPieces(q, sn, body, fid) = (<<a>> \o <<b>>) \o t
  BY <1>3
<1> HIDE DEF t
<1>11. FlattenSeq((<<a>> \o <<b>>) \o t) = (a \o b) \o e
  BY <1>7, <1>8, <1>9, FlattenConcat
<1>12. (a \o b) \o e = a \o (b \o e)
  <2>1. Assoc(a, b, e)
    BY <1>1, <1>2, Associative
  <2> QED
    BY <2>1 DEF Assoc
<1>13. b \o e \in Seq(Nat) /\ Len(b \o e) = Len(b) + Len(e)
  BY <1>1, <1>2, ConcatProperties
<1>14. a \o (b \o e) \in Seq(Nat) /\ Len(a \o (b \o e)) = Len(a) + (Len(b) + Len(e))
  BY <1>1, <1>13, ConcatProperties
<1>15. /\ HeaderLen(sn, body, fid) = 1 + VleLen(sn) + (IF body = "frame" THEN 1 ELSE 1 + VleLen(fid))
  BY DEF HeaderLen, FragmentLen, SnLen
<1>16. HeaderLen(sn, body, fid) = Len(a) + (Len(b) + Len(e)) /\ HeaderLen(sn, body, fid) \in Nat
  BY SMTT(30), <1>4, <1>15
<1> QED
  BY <1>5, <1>10, <1>11, <1>12, <1>14, <1>16, Zenon

LEMMA BodyReadsBack ==
    ASSUME SnsFit, NEW r \in Readers, Firm(r), NEW body \in Bodies, NEW fid \in SeqNums,
           Holds(r, BodyBytes(body, fid))
    PROVE  ReadBody(r) = [ok |-> TRUE, body |-> body, fid |-> IF body = "frame" THEN 0 ELSE fid,
                          r |-> Advance(r, Len(BodyBytes(body, fid)))]
<1> DEFINE x == BodyByte(body)
           b == ReadU8(r)
<1>1. x \in Nat /\ BodyOf(x) = body /\ body # "unknown"
  BY BodyByteIs, BodyOfByte DEF Bodies
<1>2. fid \in Nat
  BY SeqNumAssumption DEF SeqNums, Modulus
<1>3. CASE body = "frame"
  <2>1. BodyBytes(body, fid) = <<x>> /\ Len(<<x>>) = 1
    BY <1>3 DEF BodyBytes
  <2>2. b = Ok(<<x>>, Advance(r, 1))
    BY <1>1, <2>1, ByteReadsBack
  <2>3. b.ok = TRUE /\ b.data[1] = x /\ b.r = Advance(r, 1)
    BY <2>2 DEF Ok
  <2>4. ReadBody(r) = [ok |-> TRUE, body |-> "frame", fid |-> 0, r |-> b.r]
    BY <1>1, <1>3, <2>3 DEF ReadBody
  <2> QED
    BY <1>3, <2>1, <2>3, <2>4
<1>4. CASE body # "frame"
  <2> DEFINE c == VleBytes(fid)
             s == Advance(r, 1)
             f == ReadSn(s)
             n == VleLen(fid)
  <2>1. BodyBytes(body, fid) = <<x>> \o c
    BY <1>4 DEF BodyBytes
  <2>2. <<x>> \in Seq(Nat) /\ Len(<<x>>) = 1 /\ c \in Seq(Nat) /\ c # <<>> /\ n \in Nat
    BY <1>1, <1>2, VleBytesAre, VleLenIs DEF Chunk
  <2>3. /\ Holds(r, <<x>>) /\ s \in Readers /\ Firm(s) /\ Holds(s, c)
        /\ \A m \in Nat : Advance(s, m) = Advance(r, 1 + m)
    BY <2>1, <2>2, HoldsRest
  <2>4. b = Ok(<<x>>, s)
    BY <1>1, <2>3, ByteReadsBack
  <2>5. b.ok = TRUE /\ b.data[1] = x /\ b.r = s
    BY <2>4 DEF Ok
  <2>6. f = Ok(fid, Advance(s, n))
    BY <2>3, SnReadsBack
  <2>7. f.ok = TRUE /\ f.data = fid /\ f.r = Advance(r, 1 + n)
    <3> HIDE DEF f, s, n
    <3>1. Advance(s, n) = Advance(r, 1 + n)
      BY <2>2, <2>3
    <3> QED
      BY <2>6, <3>1 DEF Ok
  <2>8. ReadBody(r) = ReadFragmentHeader(body, s)
    BY <1>1, <1>4, <2>5 DEF ReadBody
  <2>9. ReadFragmentHeader(body, s) = [ok |-> TRUE, body |-> body, fid |-> fid, r |-> Advance(r, 1 + n)]
    <3>1. ReadFragmentHeader(body, s) =
            IF f.ok THEN [ok |-> TRUE, body |-> body, fid |-> f.data, r |-> f.r] ELSE Undecoded
      BY DEF ReadFragmentHeader
    <3> HIDE DEF f, s, n
    <3> QED
      BY <2>7, <3>1
  <2>10. Len(BodyBytes(body, fid)) = 1 + n
    BY <1>2, <1>4, BodyBytesAre
  <2> QED
    BY <1>4, <2>8, <2>9, <2>10
<1> QED
  BY <1>3, <1>4

\* What a message header is written as, ReadHeader reads, and the reader is behind it.
THEOREM HeadersReadBack ==
    ASSUME SnsFit, NEW r \in Readers, Firm(r), NEW q \in Qualities, NEW sn \in SeqNums,
           NEW body \in Bodies, NEW fid \in SeqNums,
           Holds(r, FlattenSeq(HeaderPieces(QosByte(q.prio, q.cc, q.express), sn, body, fid)))
    PROVE  ReadHeader(r) = [ok |-> TRUE, qos |-> q, sn |-> sn, body |-> body,
                            fid |-> IF body = "frame" THEN 0 ELSE fid,
                            r |-> Advance(r, HeaderLen(sn, body, fid))]
<1> DEFINE x == QosByte(q.prio, q.cc, q.express)
           b == VleBytes(sn)
           e == BodyBytes(body, fid)
           k == VleLen(sn)
           s == Advance(r, 1)
           t == Advance(s, k)
           u == ReadU8(r)
           v == ReadSn(s)
           w == ReadBody(t)
<1>1. x \in Nat /\ QosOf(x) = q
  <2>1. q.prio \in Nat
    BY DEF Qualities
  <2> QED
    BY <2>1, QosByteIs, QosReadsBack
<1>2. sn \in Nat /\ fid \in Nat
  BY SeqNumAssumption DEF SeqNums, Modulus
<1>3. /\ b \in Seq(Nat) /\ Len(b) = k /\ k \in Nat /\ e \in Seq(Nat) /\ e # <<>>
      /\ <<x>> \in Seq(Nat) /\ Len(<<x>>) = 1
  BY <1>1, <1>2, VleBytesAre, VleLenIs, BodyBytesAre
<1>4. b \o e \in Seq(Nat) /\ b \o e # <<>> /\ Len(<<x>> \o (b \o e)) = HeaderLen(sn, body, fid)
      /\ Len(e) \in Nat /\ HeaderLen(sn, body, fid) = 1 + (k + Len(e))
  <2>1. Len(HeaderBytes(x, sn, body, fid)) = HeaderLen(sn, body, fid)
    BY <1>1, <1>2, HeaderBytesAre
  <2>2. HeaderBytes(x, sn, body, fid) = <<x>> \o (b \o e)
    BY DEF HeaderBytes
  <2> HIDE DEF b, e, k, x
  <2>3. b \o e \in Seq(Nat) /\ Len(b \o e) = k + Len(e) /\ Len(e) \in Nat
    BY <1>3, ConcatProperties, LenProperties
  <2>4. Len(<<x>> \o (b \o e)) = 1 + Len(b \o e)
    BY <1>3, <2>3, ConcatProperties
  <2>5. Len(e) # 0
    BY <1>3, EmptySeq
  <2>6. Len(b \o e) # 0
    BY <1>3, <2>3, <2>5
  <2>7. b \o e # <<>>
    BY <2>6, EmptySeq
  <2> QED
    BY <2>1, <2>2, <2>3, <2>4, <2>7
<1>5. Holds(r, <<x>> \o (b \o e))
  BY <1>1, <1>2, HeaderBytesAre DEF HeaderBytes
<1> HIDE DEF b, e
<1>6. /\ Holds(r, <<x>>) /\ s \in Readers /\ Firm(s) /\ Holds(s, b \o e)
      /\ \A m \in Nat : Advance(s, m) = Advance(r, 1 + m)
  BY <1>3, <1>4, <1>5, HoldsRest
<1>7. /\ Holds(s, b) /\ t \in Readers /\ Firm(t) /\ Holds(t, e)
      /\ \A m \in Nat : Advance(t, m) = Advance(s, k + m)
  <2> HIDE DEF s, k
  <2>1. t = Advance(s, Len(b))
    BY <1>3
  <2> HIDE DEF t
  <2> QED
    BY <1>3, <1>6, <2>1, HoldsRest
<1>8. u = Ok(<<x>>, s)
  BY <1>1, <1>6, ByteReadsBack
<1>9. v = Ok(sn, t)
  BY <1>6, <1>7, SnReadsBack DEF b
<1>10. w = [ok |-> TRUE, body |-> body, fid |-> IF body = "frame" THEN 0 ELSE fid,
            r |-> Advance(t, Len(e))]
  <2> HIDE DEF t
  <2> QED
    BY <1>7, BodyReadsBack DEF e
<1>11. Advance(t, Len(e)) = Advance(r, HeaderLen(sn, body, fid))
  BY <1>3, <1>4, <1>6, <1>7
<1>12. /\ u.ok = TRUE /\ u.data[1] = x /\ u.r = s /\ v.ok = TRUE /\ v.data = sn /\ v.r = t
  BY <1>8, <1>9 DEF Ok
<1>13. ReadHeader(r) = Header(u, v, w)
  BY <1>12 DEF ReadHeader
<1> HIDE DEF u, v, w, s, t, x
<1>14. Header(u, v, w) = [ok |-> TRUE, qos |-> q, sn |-> sn, body |-> body,
                          fid |-> IF body = "frame" THEN 0 ELSE fid, r |-> Advance(t, Len(e))]
  BY <1>1, <1>10, <1>12 DEF Header
<1> QED
  BY <1>11, <1>13, <1>14

----------------------------------------------------------------------------
(* Integers whose bytes lie across chunks *)

\* After k bytes of an integer x that may lie across chunks.
Partway(r, x, k, v) ==
    /\ v.r \in Readers /\ v.r.chunks = r.chunks /\ Firm(v.r)
    /\ Offset(v.r) = Offset(r) + k /\ v.i = k /\ v.on = (k # VleLen(x)) /\ v.ok = TRUE
    /\ v.value = IF k = VleLen(x) THEN x ELSE Low(x, k)

LEMMA VleMovesOn ==
    ASSUME NEW r \in Readers, NEW x \in Nat, x <= MaxVle,
           Shows(DataOf(r), Offset(r), VleBytes(x)),
           NEW k \in Nat, k < VleLen(x), NEW v, Partway(r, x, k, v)
    PROVE  Partway(r, x, k + 1, VleTurn(v))
<1> DEFINE n == VleLen(x)
           c == VleBytes(x)
           b == c[k + 1]
           u == ReadU8(v.r)
           d == DataOf(r)
           o == Offset(r)
<1>1. n \in Nat /\ k # n /\ k + 1 \in 1..n /\ k + 1 \in Nat /\ Len(c) = n
  <2>1. n \in Nat /\ Len(c) = n
    BY VleLenIs, VleBytesAre
  <2>2. k < n
    OBVIOUS
  <2> HIDE DEF n
  <2> QED
    BY <2>1, <2>2
<1>2. o + n <= Len(d) /\ d[o + (k + 1)] = b
  <2>1. o + Len(c) <= Len(d) /\ \A i \in 1..Len(c) : d[o + i] = c[i]
    BY Zenon DEF Shows
  <2> HIDE DEF n, c, d, o
  <2> QED
    BY <1>1, <2>1 DEF b
<1>3. /\ v.r \in Readers /\ v.r.chunks = r.chunks /\ Firm(v.r) /\ Offset(v.r) = o + k
      /\ v.i = k /\ v.on = TRUE /\ v.ok = TRUE /\ v.value = Low(x, k)
  <2>1. k # VleLen(x)
    BY <1>1
  <2> QED
    BY <2>1, Zenon DEF Partway
<1>4. d \in Seq(Nat) /\ Len(d) \in Nat /\ o \in Nat /\ DataOf(v.r) = d
  BY <1>3, OffsetIn DEF DataOf
<1>5. Remaining(v.r) = Len(d) - (o + k)
  BY <1>3, <1>4, OffsetIn
<1>6. Remaining(v.r) # 0
  <2> HIDE DEF n, d, o
  <2>1. k < n
    BY DEF n
  <2> QED
    BY <1>1, <1>2, <1>4, <1>5, <2>1
<1>7. Gets(v.r, u, 1) /\ u.data[1] = d[(o + k) + 1]
  BY <1>3, <1>4, <1>6, ReadU8Is
<1>8. u.data[1] = b /\ u.ok = TRUE
  <2>1. (o + k) + 1 = o + (k + 1)
    BY <1>4
  <2> HIDE DEF d, b, o
  <2> QED
    BY <1>2, <1>7, <2>1 DEF Gets
<1>9. u.r \in Readers /\ u.r.chunks = r.chunks /\ Firm(u.r) /\ Offset(u.r) = o + (k + 1)
  <2>1. /\ u.r \in Readers /\ u.r.chunks = v.r.chunks /\ Firm(u.r)
        /\ Offset(u.r) = Offset(v.r) + 1
    BY <1>7 DEF Gets, Gives
  <2>2. (o + k) + 1 = o + (k + 1)
    BY <1>4
  <2> HIDE DEF u, o
  <2> QED
    BY <1>3, <2>1, <2>2
<1>10. VleTurn(v) = Taken(v, u)
  BY <1>3 DEF VleTurn
<1> HIDE DEF u, b
<1>11. Taken(v, u) = [r |-> u.r, i |-> k + 1, on |-> Marked(b, k), ok |-> TRUE,
                      value |-> Low(x, k) + Count(b, k) * Weight[k]]
  BY <1>3, <1>8 DEF Taken, Marked, Count
<1>12. /\ Marked(b, k) = (k + 1 # n)
       /\ Low(x, k) + Count(b, k) * Weight[k] = IF k + 1 = n THEN x ELSE Low(x, k + 1)
  <2>1. Marked(b, k) \in BOOLEAN /\ (k + 1 # n) \in BOOLEAN
    BY DEF Marked
  <2> QED
    BY <2>1, VleByteIs DEF b
<1> DEFINE t == VleTurn(v)
<1> HIDE DEF n
<1>13. t = [r |-> u.r, i |-> k + 1, on |-> k + 1 # n, ok |-> TRUE,
            value |-> IF k + 1 = n THEN x ELSE Low(x, k + 1)]
  BY <1>10, <1>11, <1>12, Zenon
<1> HIDE DEF t, o
<1>14. /\ t.r = u.r /\ t.i = k + 1 /\ t.ok = TRUE
       /\ t.value = IF k + 1 = n THEN x ELSE Low(x, k + 1)
  BY <1>13
<1>15. t.on = (k + 1 # n)
  BY <1>13, Zenon
<1>16. Partway(r, x, k + 1, t)
  BY <1>9, <1>14, <1>15, Zenon DEF Partway, n, o
<1> QED
  BY <1>16 DEF t

\* What VleBytes writes, ReadVle reads, also where the bytes lie across chunks.
THEOREM IntegersReadAcross ==
    ASSUME NEW r \in Readers, Firm(r), NEW x \in Nat, x <= MaxVle,
           Shows(DataOf(r), Offset(r), VleBytes(x))
    PROVE  /\ ReadVle(r) = Ok(x, ReadVle(r).r)
           /\ ReadVle(r).r \in Readers /\ ReadVle(r).r.chunks = r.chunks /\ Firm(ReadVle(r).r)
           /\ Offset(ReadVle(r).r) = Offset(r) + VleLen(x)
<1> DEFINE n == VleLen(x)
<1>1. PICK f \in [Nat -> VleStates(r)] :
          /\ f[0] = VleStart(r) /\ \A k \in Nat : f[k + 1] = VleTurn(f[k])
          /\ ReadVle(r) = Whole(f[VleMax])
  BY VleRun
<1>2. n \in Nat /\ n >= 1 /\ n <= VleMax /\ VleMax \in Nat
  BY VleLenIs, CodecAssumption
<1> DEFINE T == {k \in Nat : k <= n => Partway(r, x, k, f[k])}
           U == {k \in Nat : f[n + k] = f[n]}
<1>3. 0 \in T
  <2>1. Low(x, 0) = 0
    <3>1. Weight[0] = 1 /\ x \div 1 = x
      BY WeightIs
    <3> QED
      BY <3>1 DEF Low
  <2>2. 0 # VleLen(x)
    BY <1>2
  <2>3. Offset(r) = Offset(r) + 0
    BY OffsetIn
  <2>4. /\ f[0].r = r /\ f[0].i = 0 /\ f[0].on = TRUE /\ f[0].ok = TRUE /\ f[0].value = 0
    BY <1>1 DEF VleStart
  <2>5. Partway(r, x, 0, f[0])
    BY <2>1, <2>2, <2>3, <2>4, Zenon DEF Partway
  <2> QED
    BY <2>5
<1>4. ASSUME NEW k \in Nat, k \in T PROVE k + 1 \in T
  <2>1. SUFFICES ASSUME k + 1 <= n PROVE Partway(r, x, k + 1, f[k + 1])
    OBVIOUS
  <2>2. k < n /\ k <= n
    BY <1>2, <2>1
  <2>3. Partway(r, x, k, f[k])
    BY <1>4, <2>2
  <2>4. Partway(r, x, k + 1, VleTurn(f[k]))
    BY <2>2, <2>3, VleMovesOn
  <2> QED
    BY <1>1, <2>4
<1>5. Partway(r, x, n, f[n])
  <2> HIDE DEF T
  <2>1. n \in T
    BY <1>2, <1>3, <1>4, SetInduction
  <2> QED
    BY <1>2, <2>1 DEF T
<1> HIDE DEF T
<1>6. /\ f[n].on = FALSE /\ f[n].ok = TRUE /\ f[n].value = x
      /\ f[n].r \in Readers /\ f[n].r.chunks = r.chunks /\ Firm(f[n].r)
      /\ Offset(f[n].r) = Offset(r) + n
  <2>1. (n # VleLen(x)) = FALSE
    OBVIOUS
  <2> QED
    BY <1>5, <2>1, Zenon DEF Partway
<1> HIDE DEF n
<1>7. 0 \in U
  BY <1>2
<1>8. ASSUME NEW k \in Nat, k \in U PROVE k + 1 \in U
  <2>1. n + k \in Nat /\ n + (k + 1) = (n + k) + 1
    BY <1>2
  <2>2. f[n + (k + 1)] = VleTurn(f[n])
    BY <1>1, <1>8, <2>1
  <2>3. VleTurn(f[n]) = f[n]
    BY <1>6 DEF VleTurn
  <2> QED
    BY <2>2, <2>3
<1>9. f[VleMax] = f[n]
  <2> HIDE DEF U
  <2>1. VleMax - n \in Nat /\ n + (VleMax - n) = VleMax
    BY <1>2
  <2>2. VleMax - n \in U
    BY <1>7, <1>8, <2>1, SetInduction
  <2> QED
    BY <2>1, <2>2 DEF U
<1>10. ReadVle(r) = Ok(x, f[n].r)
  BY <1>1, <1>6, <1>9 DEF Whole
<1>11. ReadVle(r).r = f[n].r
  BY <1>10 DEF Ok
<1> QED
  BY <1>6, <1>10, <1>11, Zenon DEF n
=============================================================================
