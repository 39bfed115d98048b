---------------------------- MODULE Secrets_proofs ----------------------------
(* Proofs about Secrets, for every keyring, every text and every way the      *)
(* files are cut into blocks: what is reported has its type, each occurrence  *)
(* is counted once, and no label whose needle was searched over is missed.    *)
EXTENDS Secrets, SequenceTheorems, FiniteSetTheorems, WellFoundedInduction, TLAPS

-----------------------------------------------------------------------------
(* Numbers and recursion on a number.                                         *)

(* A set that has 0, and with each number the next, has every number.         *)
LEMMA EveryNumber ==
  ASSUME NEW S, 0 \in S, \A k \in Nat : k \in S => k + 1 \in S
  PROVE  Nat \subseteq S
<1> DEFINE missing == Nat \ S
           less == {pair \in Nat \X Nat : pair[1] < pair[2]}
<1>1. SUFFICES ASSUME missing # {} PROVE FALSE
  OBVIOUS
<1>2. IsWellFoundedOn(less, Nat) BY NatLessThanWellFounded DEF OpToRel
<1>3. PICK m \in missing : \A k \in missing : ~(<<k, m>> \in less)
  <2>1. missing \subseteq Nat OBVIOUS
  <2> HIDE DEF less, missing
  <2>2. QED BY <1>1, <1>2, <2>1, WFMin
<1>4. m \in Nat /\ m # 0 /\ m \notin S OBVIOUS
<1>5. m - 1 \in Nat /\ m - 1 < m /\ (m - 1) + 1 = m BY <1>4
<1>6. m - 1 \notin S BY <1>4, <1>5
<1>7. <<m - 1, m>> \in less BY <1>4, <1>5
<1>8. m - 1 \in missing BY <1>5, <1>6
<1> HIDE DEF less, missing
<1>9. QED BY <1>3, <1>7, <1>8

Maps(g, n, D) == \A k \in 1..n : g[k] \in [D -> D]
Follows(f, z, g, n) == \A k \in 0..n : f[k] = IF k = 0 THEN z ELSE g[k][f[k - 1]]

LEMMA RecursionExists ==
  ASSUME NEW n \in Nat, NEW D, NEW z \in D, NEW g, Maps(g, n, D)
  PROVE  \E f \in [0..n -> D] : Follows(f, z, g, n)
<1> DEFINE Is(f, m) == f \in [0..m -> D]
                       /\ \A k \in 0..m : f[k] = IF k = 0 THEN z ELSE g[k][f[k - 1]]
           S == {m \in Nat : m <= n => \E f : Is(f, m)}
<1>1. 0 \in S
  <2>1. Is([k \in {0} |-> z], 0)
    <3>1. 0..0 = {0} OBVIOUS
    <3>2. QED BY <3>1
  <2>2. QED BY <2>1
<1>2. ASSUME NEW m \in Nat, m \in S PROVE m + 1 \in S
  <2>1. SUFFICES ASSUME m + 1 <= n PROVE \E f : Is(f, m + 1)
    OBVIOUS
  <2>2. PICK f : Is(f, m)
    <3>1. m <= n BY <2>1
    <3>2. QED BY <1>2, <3>1
  <2> DEFINE h == [k \in 0..m + 1 |-> IF k <= m THEN f[k] ELSE g[m + 1][f[m]]]
  <2>3. g[m + 1] \in [D -> D] /\ f[m] \in D
    <3>1. m + 1 \in 1..n /\ m \in 0..m BY <2>1
    <3>2. QED BY <2>2, <3>1 DEF Maps
  <2>4. g[m + 1][f[m]] \in D BY <2>3
  <2>5. h \in [0..m + 1 -> D]
    <3>1. \A k \in 0..m + 1 : h[k] \in D
      <4>1. SUFFICES ASSUME NEW k \in 0..m + 1 PROVE h[k] \in D
        OBVIOUS
      <4>2. CASE k <= m
        <5>1. k \in 0..m BY <4>2
        <5>2. QED BY <2>2, <4>2, <5>1
      <4>3. CASE ~(k <= m) BY <2>4, <4>3
      <4>4. QED BY <4>2, <4>3
    <3>2. QED BY <3>1
  <2>6. ASSUME NEW k \in 0..m + 1 PROVE h[k] = IF k = 0 THEN z ELSE g[k][h[k - 1]]
    <3>1. CASE k = 0
      <4>1. h[k] = f[0] /\ 0 \in 0..m BY <3>1
      <4>2. QED BY <2>2, <3>1, <4>1
    <3>2. CASE k \in 1..m
      <4>1. h[k] = f[k] /\ k \in 0..m /\ k # 0 BY <3>2
      <4>2. k - 1 \in 0..m + 1 /\ k - 1 <= m BY <3>2
      <4>3. h[k - 1] = f[k - 1] BY <4>2
      <4>4. QED BY <2>2, <4>1, <4>3
    <3>3. CASE k = m + 1
      <4>1. k - 1 = m /\ m \in 0..m + 1 /\ k # 0 /\ ~(k <= m) BY <3>3
      <4>2. h[k - 1] = f[m] BY <4>1
      <4>3. h[k] = g[k][f[m]] BY <3>3, <4>1
      <4>4. QED BY <4>1, <4>2, <4>3
    <3>4. QED BY <3>1, <3>2, <3>3
  <2> HIDE DEF h
  <2>7. QED BY <2>5, <2>6
<1> HIDE DEF S
<1>3. n \in S BY <1>1, <1>2, EveryNumber
<1>4. PICK f : Is(f, n) BY <1>3 DEF S
<1>5. QED BY <1>4 DEF Follows

(* A set of numbers has a least one, and a greatest if it is bounded.         *)
LEMMA LeastNumber ==
  ASSUME NEW S, S \subseteq Nat, S # {}
  PROVE  \E m \in S : \A k \in S : m <= k
<1> DEFINE N == {k \in Nat : \A j \in S : k <= j}
<1>1. SUFFICES ASSUME ~(\E m \in S : \A k \in S : m <= k) PROVE FALSE
  OBVIOUS
<1>2. 0 \in N OBVIOUS
<1>3. ASSUME NEW k \in Nat, k \in N PROVE k + 1 \in N
  <2>1. k \notin S BY <1>1, <1>3
  <2>2. \A j \in S : k <= j /\ k # j /\ j \in Nat BY <1>3, <2>1
  <2>3. QED BY <2>2
<1> HIDE DEF N
<1>4. Nat \subseteq N BY <1>2, <1>3, EveryNumber
<1>5. PICK j \in S : TRUE OBVIOUS
<1>6. j + 1 \in N BY <1>4, <1>5
<1>7. QED BY <1>5, <1>6 DEF N

LEMMA GreatestNumber ==
  ASSUME NEW S, S \subseteq Nat, S # {}, NEW b \in Nat, \A k \in S : k <= b
  PROVE  \E m \in S : \A k \in S : k <= m
<1> DEFINE R == {b - k : k \in S}
<1>1. R \subseteq Nat /\ R # {}
  <2>1. \A k \in S : b - k \in Nat OBVIOUS
  <2>2. QED BY <2>1
<1>2. PICK r \in R : \A k \in R : r <= k
  <2> HIDE DEF R
  <2>1. QED BY <1>1, LeastNumber
<1>3. PICK m \in S : r = b - m BY <1>2
<1>4. ASSUME NEW k \in S PROVE k <= m
  <2>1. b - k \in R OBVIOUS
  <2>2. b - m <= b - k BY <1>2, <1>3, <2>1
  <2>3. k \in Nat /\ m \in Nat BY <1>3
  <2>4. QED BY <2>2, <2>3
<1>5. QED BY <1>3, <1>4

-----------------------------------------------------------------------------
(* Decoding.  A text reads bytes when each of its characters is at a byte,    *)
(* in their order, and the bytes between are the second ones of a character.  *)

StartsTo(f, b, n) ==
  \A i \in 0..n : f[i] = IF i = 0 THEN <<>>
                         ELSE IF Continues(b, i) THEN f[i - 1] ELSE Append(f[i - 1], i)

LEMMA StartsIs ==
  ASSUME NEW n \in Nat, NEW b, Len(b) = n
  PROVE  \E f \in [0..n -> Seq(Nat)] : StartsTo(f, b, n) /\ Starts(b) = f[n]
<1> DEFINE D == Seq(Nat)
           g == [k \in 1..n |-> [x \in D |-> IF Continues(b, k) THEN x ELSE Append(x, k)]]
           Rec(f) == f = [i \in 0..n |->
                       IF i = 0 THEN <<>>
                       ELSE IF Continues(b, i) THEN f[i - 1] ELSE Append(f[i - 1], i)]
<1>1. \A k \in 1..n : g[k] \in [D -> D]
  <2>1. SUFFICES ASSUME NEW k \in 1..n, NEW x \in Seq(Nat)
                 PROVE  (IF Continues(b, k) THEN x ELSE Append(x, k)) \in Seq(Nat)
    OBVIOUS
  <2>2. k \in Nat OBVIOUS
  <2>3. QED BY <2>2
<1>2. <<>> \in D OBVIOUS
<1>3. PICK f \in [0..n -> D] : Follows(f, <<>>, g, n)
  <2>1. Maps(g, n, D) BY <1>1 DEF Maps
  <2> HIDE DEF D, g
  <2>2. QED BY <1>2, <2>1, RecursionExists
<1>4. ASSUME NEW i \in 0..n
      PROVE  f[i] = IF i = 0 THEN <<>>
                    ELSE IF Continues(b, i) THEN f[i - 1] ELSE Append(f[i - 1], i)
  <2>1. CASE i = 0 BY <1>3, <2>1 DEF Follows
  <2>2. CASE i # 0
    <3>1. i \in 1..n /\ i - 1 \in 0..n BY <2>2
    <3>2. f[i] = g[i][f[i - 1]] BY <1>3, <2>2 DEF Follows
    <3>3. f[i - 1] \in D BY <1>3, <3>1
    <3>4. QED BY <2>2, <3>1, <3>2, <3>3
  <2>3. QED BY <2>1, <2>2
<1> HIDE DEF g
<1>5. Rec(f) BY <1>3, <1>4
<1>6. Starts(b) = (CHOOSE c : Rec(c))[n] BY DEF Starts
<1>7. Rec(CHOOSE c : Rec(c)) BY <1>5
<1>8. ASSUME NEW c, Rec(c) PROVE c \in [0..n -> D] /\ StartsTo(c, b, n)
  <2>1. StartsTo(c, b, n) BY <1>8 DEF StartsTo
  <2> DEFINE N == {k \in Nat : k <= n => c[k] \in D}
  <2>2. 0 \in N BY <1>8
  <2>3. ASSUME NEW k \in Nat, k \in N PROVE k + 1 \in N
    <3>1. SUFFICES ASSUME k + 1 <= n PROVE c[k + 1] \in D
      OBVIOUS
    <3>2. c[k] \in D BY <2>3, <3>1
    <3>3. k + 1 \in 0..n /\ k + 1 # 0 /\ (k + 1) - 1 = k /\ k + 1 \in Nat BY <3>1
    <3>4. c[k + 1] = IF Continues(b, k + 1) THEN c[k] ELSE Append(c[k], k + 1)
      BY <2>1, <3>3 DEF StartsTo
    <3>5. QED BY <3>2, <3>3, <3>4
  <2> HIDE DEF N
  <2>4. Nat \subseteq N BY <2>2, <2>3, EveryNumber
  <2>5. \A k \in 0..n : c[k] \in D BY <2>4 DEF N
  <2>6. DOMAIN c = 0..n /\ c = [k \in DOMAIN c |-> c[k]] BY <1>8
  <2>7. QED BY <2>1, <2>5, <2>6
<1> HIDE DEF Rec
<1>9. QED BY <1>6, <1>7, <1>8

(* The starts up to n: in order, and all of them.                             *)
Ascends(at, b, n) ==
  /\ at \in Seq(1..n)
  /\ \A c, d \in 1..Len(at) : c < d => at[c] < at[d]
  /\ \A i \in 1..n : Continues(b, i) \/ \E c \in 1..Len(at) : at[c] = i

LEMMA AscendsOne ==
  ASSUME NEW b, NEW n \in Nat, NEW at, Ascends(at, b, n)
  PROVE  Ascends(Append(at, n + 1), b, n + 1)
<1> DEFINE m == Append(at, n + 1)
<1>1. at \in Seq(1..n) /\ Len(at) \in Nat /\ \A c \in 1..Len(at) : at[c] \in 1..n BY DEF Ascends
<1>2. /\ Len(m) = Len(at) + 1 /\ m[Len(at) + 1] = n + 1
      /\ \A c \in 1..Len(at) : m[c] = at[c]
  BY <1>1
<1>3. at \in Seq(1..n + 1) /\ n + 1 \in 1..n + 1
  <2>1. 1..n \subseteq 1..n + 1 OBVIOUS
  <2>2. QED BY <1>1, <2>1, SeqMonotonic
<1>4. m \in Seq(1..n + 1) BY <1>3
<1>5. ASSUME NEW c \in 1..Len(m), NEW d \in 1..Len(m), c < d PROVE m[c] < m[d]
  <2>1. c \in 1..Len(at) BY <1>1, <1>2, <1>5
  <2>2. CASE d \in 1..Len(at) BY <1>2, <1>5, <2>1, <2>2 DEF Ascends
  <2>3. CASE d = Len(at) + 1
    <3>1. m[c] = at[c] /\ at[c] \in 1..n /\ m[d] = n + 1 BY <1>1, <1>2, <2>1, <2>3
    <3>2. QED BY <3>1
  <2>4. QED BY <1>1, <1>2, <2>2, <2>3
<1>6. ASSUME NEW i \in 1..n + 1
      PROVE  Continues(b, i) \/ \E c \in 1..Len(m) : m[c] = i
  <2>1. CASE i = n + 1
    <3>1. Len(at) + 1 \in 1..Len(m) BY <1>1, <1>2
    <3>2. QED BY <1>2, <2>1, <3>1
  <2>2. CASE i \in 1..n /\ ~Continues(b, i)
    <3>1. PICK c \in 1..Len(at) : at[c] = i BY <2>2 DEF Ascends
    <3>2. c \in 1..Len(m) /\ m[c] = i BY <1>1, <1>2, <3>1
    <3>3. QED BY <3>2
  <2>3. QED BY <2>1, <2>2
<1> HIDE DEF m
<1>7. Ascends(m, b, n + 1) BY <1>4, <1>5, <1>6 DEF Ascends
<1>8. QED BY <1>7 DEF m

LEMMA StartsFacts ==
  ASSUME NEW n \in Nat, NEW b, Len(b) = n
  PROVE  Ascends(Starts(b), b, n)
<1>1. PICK f \in [0..n -> Seq(Nat)] : StartsTo(f, b, n) /\ Starts(b) = f[n]
  BY StartsIs
<1> DEFINE N == {k \in Nat : k <= n => Ascends(f[k], b, k)}
<1>2. 0 \in N
  <2>1. f[0] = <<>> BY <1>1 DEF StartsTo
  <2>2. <<>> \in Seq(1..0) /\ Len(<<>>) = 0 /\ 1..0 = {} OBVIOUS
  <2>3. Ascends(<<>>, b, 0) BY <2>2 DEF Ascends
  <2>4. QED BY <2>1, <2>3
<1>3. ASSUME NEW k \in Nat, k \in N PROVE k + 1 \in N
  <2>1. SUFFICES ASSUME k + 1 <= n PROVE Ascends(f[k + 1], b, k + 1)
    OBVIOUS
  <2>2. Ascends(f[k], b, k) BY <1>3, <2>1
  <2>3. f[k + 1] = IF Continues(b, k + 1) THEN f[k] ELSE Append(f[k], k + 1)
    <3>1. k + 1 \in 0..n /\ k + 1 # 0 /\ (k + 1) - 1 = k BY <2>1
    <3>2. QED BY <1>1, <3>1 DEF StartsTo
  <2>4. CASE Continues(b, k + 1)
    <3>1. 1..k \subseteq 1..k + 1 /\ \A i \in 1..k + 1 : i \in 1..k \/ i = k + 1 OBVIOUS
    <3>2. f[k] \in Seq(1..k + 1) BY <2>2, <3>1, SeqMonotonic DEF Ascends
    <3>3. \A i \in 1..k + 1 : Continues(b, i) \/ \E c \in 1..Len(f[k]) : f[k][c] = i
      BY <2>2, <2>4, <3>1 DEF Ascends
    <3>4. Ascends(f[k], b, k + 1) BY <2>2, <3>2, <3>3 DEF Ascends
    <3>5. QED BY <2>3, <2>4, <3>4
  <2>5. CASE ~Continues(b, k + 1) BY <2>2, <2>3, <2>5, AscendsOne
  <2>6. QED BY <2>4, <2>5
<1> HIDE DEF N
<1>4. Nat \subseteq N BY <1>2, <1>3, EveryNumber
<1>5. n \in N BY <1>4
<1>6. QED BY <1>1, <1>5 DEF N

Reads(text, b, h) ==
  /\ h \in [1..Len(text) -> 1..Len(b)]
  /\ \A c, d \in 1..Len(text) : c < d => h[c] < h[d]
  /\ \A i \in 1..Len(b) : Continues(b, i) \/ \E c \in 1..Len(text) : h[c] = i
  /\ \A c \in 1..Len(text) :
       IF b[h[c]] \in {"hi", "lo"} THEN text[c] \in {"wide", "?"} ELSE text[c] = b[h[c]]

LEMMA DecodeReads ==
  ASSUME NEW b \in Seq(Bytes)
  PROVE  /\ Decode(b) \in Seq(Chars) /\ Len(Decode(b)) = Len(Starts(b))
         /\ Reads(Decode(b), b, Starts(b))
<1> DEFINE at == Starts(b)
           t == Decode(b)
<1>1. Len(b) \in Nat OBVIOUS
<1>2. Ascends(at, b, Len(b)) BY <1>1, StartsFacts
<1>3. /\ at \in Seq(1..Len(b)) /\ Len(at) \in Nat /\ at \in [1..Len(at) -> 1..Len(b)]
      /\ \A c \in 1..Len(at) : at[c] \in 1..Len(b)
  <2>1. at \in Seq(1..Len(b)) BY <1>2 DEF Ascends
  <2> HIDE DEF at
  <2>2. QED BY <2>1, LenProperties
<1>4. t = [c \in 1..Len(at) |-> CharAt(b, at[c])] BY DEF Decode
<1>5. \A c \in 1..Len(at) : CharAt(b, at[c]) \in Chars
  <2>1. \A i \in 1..Len(b) : CharAt(b, i) \in Chars
    <3>1. SUFFICES ASSUME NEW i \in 1..Len(b) PROVE CharAt(b, i) \in Chars
      OBVIOUS
    <3>2. b[i] \in Bytes OBVIOUS
    <3>3. QED BY <3>2 DEF CharAt, Bytes, Chars
  <2> HIDE DEF at
  <2>2. QED BY <1>3, <2>1
<1>6. t \in Seq(Chars) /\ Len(t) = Len(at) /\ \A c \in 1..Len(at) : t[c] = CharAt(b, at[c])
  <2> HIDE DEF at, t
  <2>1. QED BY <1>3, <1>4, <1>5
<1>7. \A c \in 1..Len(t) :
        IF b[at[c]] \in {"hi", "lo"} THEN t[c] \in {"wide", "?"} ELSE t[c] = b[at[c]]
  <2> HIDE DEF at, t
  <2>1. QED BY <1>6 DEF CharAt
<1> HIDE DEF at, t
<1>8. Reads(t, b, at) BY <1>2, <1>3, <1>6, <1>7 DEF Reads, Ascends
<1>9. QED BY <1>6, <1>8 DEF at, t

-----------------------------------------------------------------------------
(* What is found in a text: places that do not overlap, and one over each     *)
(* place of a needle.                                                         *)

Words(S) == \A n \in S : Len(n) \in Nat \ {0}

LEMMA LongestIs ==
  ASSUME NEW S, Words(S), S # {}, NEW b \in Nat, \A n \in S : Len(n) <= b
  PROVE  Longest(S) \in S /\ \A o \in S : Len(o) <= Len(Longest(S))
<1> DEFINE L == {Len(n) : n \in S}
<1>1. L \subseteq Nat /\ L # {} /\ \A k \in L : k <= b BY DEF Words
<1>2. PICK k \in L : \A j \in L : j <= k
  <2> HIDE DEF L
  <2>1. QED BY <1>1, GreatestNumber
<1>3. PICK n \in S : Len(n) = k BY <1>2
<1>4. \A o \in S : Len(o) <= Len(n) BY <1>2, <1>3
<1>5. QED BY <1>4, Zenon DEF Longest

Tiles(O, text, needles, skipped, n) ==
  /\ O \subseteq [at : 1..n, needle : needles] /\ IsFiniteSet(O)
  /\ \A o \in O : o.at > skipped /\ IsAt(text, o.needle, o.at)
  /\ \A o, p \in O :
       o = p \/ o.at + Len(o.needle) <= p.at \/ p.at + Len(p.needle) <= o.at
  /\ \A j \in skipped + 1..n : \A m \in needles :
       IsAt(text, m, j) => \E o \in O : o.at <= j /\ j < o.at + Len(o.needle)

Here(text, needles, i) == {n \in needles : IsAt(text, n, i)}
Take(text, needles, skipped, i, before) ==
  IF i <= skipped THEN {}
  ELSE IF Here(text, needles, i) = {} \/ \E o \in before : o.at + Len(o.needle) > i THEN before
       ELSE before \cup {[at |-> i, needle |-> Longest(Here(text, needles, i))]}

LEMMA TakeTiles ==
  ASSUME NEW text, NEW needles, NEW skipped \in Nat, NEW k \in Nat, NEW B,
         Len(text) \in Nat, Words(needles), Tiles(B, text, needles, skipped, k)
  PROVE  Tiles(Take(text, needles, skipped, k + 1, B), text, needles, skipped, k + 1)
<1> DEFINE H == Here(text, needles, k + 1)
           n == Longest(H)
           new == [at |-> k + 1, needle |-> n]
           T == Take(text, needles, skipped, k + 1, B)
<1>1. \A o \in B : /\ o.at \in 1..k /\ o.needle \in needles
                   /\ Len(o.needle) \in Nat \ {0} /\ o = [at |-> o.at, needle |-> o.needle]
  BY DEF Tiles, Words
<1>2. [at : 1..k, needle : needles] \subseteq [at : 1..k + 1, needle : needles]
  <2>1. 1..k \subseteq 1..k + 1 OBVIOUS
  <2>2. QED BY <2>1
<1>3. CASE k + 1 <= skipped
  <2>1. T = {} BY <1>3 DEF Take
  <2>2. skipped + 1..k + 1 = {} BY <1>3
  <2>3. Tiles({}, text, needles, skipped, k + 1) BY <2>2, FS_EmptySet DEF Tiles
  <2>4. QED BY <2>1, <2>3
<1>4. CASE ~(k + 1 <= skipped) /\ (H = {} \/ \E o \in B : o.at + Len(o.needle) > k + 1)
  <2>1. T = B BY <1>4 DEF Take
  <2>2. ASSUME NEW j \in skipped + 1..k + 1, NEW m \in needles, IsAt(text, m, j)
        PROVE  \E o \in B : o.at <= j /\ j < o.at + Len(o.needle)
    <3>1. CASE j = k + 1
      <4>1. m \in H BY <2>2, <3>1 DEF Here
      <4>2. PICK o \in B : o.at + Len(o.needle) > k + 1 BY <1>4, <4>1
      <4>3. QED BY <1>1, <3>1, <4>2
    <3>2. CASE j # k + 1
      <4>1. j \in skipped + 1..k BY <3>2
      <4>2. QED BY <2>2, <4>1 DEF Tiles
    <3>3. QED BY <3>1, <3>2
  <2>3. Tiles(B, text, needles, skipped, k + 1) BY <1>2, <2>2 DEF Tiles
  <2>4. QED BY <2>1, <2>3
<1>5. CASE ~(k + 1 <= skipped) /\ ~(H = {} \/ \E o \in B : o.at + Len(o.needle) > k + 1)
  <2>1. T = B \cup {new} BY <1>5 DEF Take
  <2>2. n \in needles /\ IsAt(text, n, k + 1) /\ Len(n) \in Nat \ {0}
    <3>1. Words(H) /\ H # {} /\ \A m \in H : Len(m) <= Len(text)
      BY <1>5 DEF Here, Words, IsAt
    <3>2. n \in H
      <4> HIDE DEF H
      <4>1. QED BY <3>1, LongestIs
    <3>3. QED BY <3>2 DEF Here, Words
  <2> HIDE DEF n
  <2>3. new.at = k + 1 /\ new.needle = n /\ new \in [at : 1..k + 1, needle : needles]
    BY <2>2
  <2>4. \A o \in B : o.at + Len(o.needle) <= k + 1 BY <1>1, <1>5
  <2> HIDE DEF new
  <2>5. IsFiniteSet(B \cup {new}) BY FS_AddElement DEF Tiles
  <2>6. B \cup {new} \subseteq [at : 1..k + 1, needle : needles] BY <1>2, <2>3 DEF Tiles
  <2>7. \A o \in B \cup {new} : o.at > skipped /\ IsAt(text, o.needle, o.at)
    BY <1>5, <2>2, <2>3 DEF Tiles
  <2>8. \A o, p \in B \cup {new} :
          o = p \/ o.at + Len(o.needle) <= p.at \/ p.at + Len(p.needle) <= o.at
    BY <2>3, <2>4 DEF Tiles
  <2>9. ASSUME NEW j \in skipped + 1..k + 1, NEW m \in needles, IsAt(text, m, j)
        PROVE  \E o \in B \cup {new} : o.at <= j /\ j < o.at + Len(o.needle)
    <3>1. CASE j = k + 1 BY <2>2, <2>3, <3>1
    <3>2. CASE j # k + 1
      <4>1. j \in skipped + 1..k BY <3>2
      <4>2. QED BY <2>9, <4>1 DEF Tiles
    <3>3. QED BY <3>1, <3>2
  <2>10. Tiles(B \cup {new}, text, needles, skipped, k + 1) BY <2>5, <2>6, <2>7, <2>8, <2>9 DEF Tiles
  <2>11. QED BY <2>1, <2>10
<1>6. QED BY <1>3, <1>4, <1>5

TakenTo(f, text, needles, skipped, n) ==
  \A i \in 0..n : f[i] = Take(text, needles, skipped, i, f[i - 1])

LEMMA OccurrencesIs ==
  ASSUME NEW text, NEW needles, NEW skipped \in Nat, NEW n \in Nat,
         Len(text) = n, Words(needles)
  PROVE  \E f : /\ f \in [0..n -> SUBSET [at : Nat, needle : needles]]
                /\ TakenTo(f, text, needles, skipped, n)
                /\ Occurrences(text, needles, skipped) = f[n]
<1> DEFINE D == SUBSET [at : Nat, needle : needles]
           g == [k \in 1..n |-> [x \in D |-> Take(text, needles, skipped, k, x)]]
           Rec(f) == f = [i \in 0..n |->
             IF i <= skipped THEN {}
             ELSE IF Here(text, needles, i) = {} \/ \E o \in f[i - 1] : o.at + Len(o.needle) > i
                  THEN f[i - 1]
                  ELSE f[i - 1] \cup {[at |-> i, needle |-> Longest(Here(text, needles, i))]}]
<1>1. ASSUME NEW k \in 1..n, NEW x \in D PROVE Take(text, needles, skipped, k, x) \in D
  <2> DEFINE H == Here(text, needles, k)
  <2>1. CASE H = {} BY <2>1 DEF Take
  <2>2. CASE H # {}
    <3>1. Words(H) /\ \A m \in H : Len(m) <= n BY DEF Here, Words, IsAt
    <3>2. Longest(H) \in H
      <4> HIDE DEF H
      <4>1. QED BY <2>2, <3>1, LongestIs
    <3>3. Longest(H) \in needles /\ k \in Nat BY <3>2 DEF Here
    <3> HIDE DEF H
    <3>4. [at |-> k, needle |-> Longest(H)] \in [at : Nat, needle : needles] BY <3>3
    <3>5. QED BY <3>4 DEF Take, H
  <2>3. QED BY <2>1, <2>2
<1>2. {} \in D OBVIOUS
<1>3. PICK f \in [0..n -> D] : Follows(f, {}, g, n)
  <2>1. Maps(g, n, D) BY <1>1 DEF Maps
  <2> HIDE DEF D, g
  <2>2. QED BY <1>2, <2>1, RecursionExists
<1>4. TakenTo(f, text, needles, skipped, n)
  <2>1. SUFFICES ASSUME NEW i \in 0..n PROVE f[i] = Take(text, needles, skipped, i, f[i - 1])
    BY DEF TakenTo
  <2>2. CASE i = 0
    <3> HIDE DEF D, g
    <3>1. f[i] = {} BY <1>3, <2>2 DEF Follows
    <3>2. i <= skipped BY <2>2
    <3>3. QED BY <3>1, <3>2 DEF Take
  <2>3. CASE i # 0
    <3>1. i \in 1..n /\ i - 1 \in 0..n BY <2>3
    <3>2. f[i] = g[i][f[i - 1]] BY <1>3, <2>3 DEF Follows
    <3>3. f[i - 1] \in D BY <1>3, <3>1
    <3> HIDE DEF D
    <3>4. QED BY <3>1, <3>2, <3>3
  <2>4. QED BY <2>2, <2>3
<1> HIDE DEF g
<1>5. Rec(f)
  <2>1. DOMAIN f = 0..n /\ f = [i \in DOMAIN f |-> f[i]] BY <1>3
  <2>2. \A i \in 0..n : f[i] =
             IF i <= skipped THEN {}
             ELSE IF Here(text, needles, i) = {} \/ \E o \in f[i - 1] : o.at + Len(o.needle) > i
                  THEN f[i - 1]
                  ELSE f[i - 1] \cup {[at |-> i, needle |-> Longest(Here(text, needles, i))]}
    BY <1>4 DEF TakenTo, Take
  <2>3. QED BY <2>1, <2>2
<1>6. Occurrences(text, needles, skipped) = (CHOOSE c : Rec(c))[n]
  BY DEF Occurrences, Here
<1>7. Rec(CHOOSE c : Rec(c)) BY <1>5
<1>8. ASSUME NEW c, Rec(c) PROVE c \in [0..n -> D] /\ TakenTo(c, text, needles, skipped, n)
  <2>1. TakenTo(c, text, needles, skipped, n) BY <1>8 DEF TakenTo, Take
  <2> DEFINE N == {k \in Nat : k <= n => c[k] \in D}
  <2>2. 0 \in N
    <3>1. c[0] = {} BY <1>8
    <3>2. QED BY <3>1, <1>2
  <2>3. ASSUME NEW k \in Nat, k \in N PROVE k + 1 \in N
    <3>1. SUFFICES ASSUME k + 1 <= n PROVE c[k + 1] \in D
      OBVIOUS
    <3>2. c[k] \in D BY <2>3, <3>1
    <3>3. k + 1 \in 0..n /\ (k + 1) - 1 = k /\ k + 1 \in 1..n BY <3>1
    <3>4. c[k + 1] = Take(text, needles, skipped, k + 1, c[k]) BY <2>1, <3>3 DEF TakenTo
    <3> HIDE DEF D
    <3>5. QED BY <3>2, <3>3, <3>4, <1>1
  <2> HIDE DEF N
  <2>4. Nat \subseteq N BY <2>2, <2>3, EveryNumber
  <2>5. \A k \in 0..n : c[k] \in D BY <2>4 DEF N
  <2>6. DOMAIN c = 0..n /\ c = [k \in DOMAIN c |-> c[k]] BY <1>8
  <2>7. QED BY <2>1, <2>5, <2>6
<1> HIDE DEF Rec
<1>9. QED BY <1>6, <1>7, <1>8

LEMMA OccurrencesTile ==
  ASSUME NEW text, NEW needles, NEW skipped \in Nat, Len(text) \in Nat, Words(needles)
  PROVE  Tiles(Occurrences(text, needles, skipped), text, needles, skipped, Len(text))
<1> DEFINE n == Len(text)
<1>1. PICK f : /\ f \in [0..n -> SUBSET [at : Nat, needle : needles]]
               /\ TakenTo(f, text, needles, skipped, n)
               /\ Occurrences(text, needles, skipped) = f[n]
  BY OccurrencesIs, Zenon
<1> DEFINE N == {k \in Nat : k <= n => Tiles(f[k], text, needles, skipped, k)}
<1>2. 0 \in N
  <2>1. f[0] = {} BY <1>1 DEF TakenTo, Take
  <2>2. skipped + 1..0 = {} OBVIOUS
  <2>3. Tiles({}, text, needles, skipped, 0) BY <2>2, FS_EmptySet DEF Tiles
  <2>4. QED BY <2>1, <2>3
<1>3. ASSUME NEW k \in Nat, k \in N PROVE k + 1 \in N
  <2>1. SUFFICES ASSUME k + 1 <= n PROVE Tiles(f[k + 1], text, needles, skipped, k + 1)
    OBVIOUS
  <2>2. Tiles(f[k], text, needles, skipped, k) BY <1>3, <2>1
  <2>3. k + 1 \in 0..n /\ (k + 1) - 1 = k BY <2>1
  <2>4. f[k + 1] = Take(text, needles, skipped, k + 1, f[k]) BY <1>1, <2>3 DEF TakenTo
  <2>5. QED BY <2>2, <2>4, TakeTiles
<1> HIDE DEF N
<1>4. Nat \subseteq N BY <1>2, <1>3, EveryNumber
<1>5. n \in N BY <1>4
<1>6. QED BY <1>1, <1>5 DEF N

(* What Count is: a number, positive when the needle is there, and that of    *)
(* the places when they are apart.                                            *)
After(text, needle, skipped) == {i \in Places(text, needle) : i > skipped}

LEMMA CountFacts ==
  ASSUME NEW text, NEW needle, NEW skipped \in Nat, Len(text) \in Nat, Len(needle) \in Nat \ {0}
  PROVE  /\ Count(text, needle, skipped) \in Nat
         /\ Count(text, needle, skipped) > 0 <=> After(text, needle, skipped) # {}
         /\ (\A i, j \in After(text, needle, skipped) : i < j => i + Len(needle) <= j) =>
              Count(text, needle, skipped) = Cardinality(After(text, needle, skipped))
<1> DEFINE O == Occurrences(text, {needle}, skipped)
           A == After(text, needle, skipped)
<1>1. Tiles(O, text, {needle}, skipped, Len(text))
  <2>1. Words({needle}) BY DEF Words
  <2>2. QED BY <2>1, OccurrencesTile
<1>2. Count(text, needle, skipped) = Cardinality(O) /\ IsFiniteSet(O) BY <1>1 DEF Count, Tiles
<1>3. \A o \in O : /\ o.needle = needle /\ o.at \in A /\ o.at \in 1..Len(text)
                   /\ o = [at |-> o.at, needle |-> needle]
  <2> HIDE DEF O
  <2>1. \A o \in O : o.needle = needle /\ o.at \in 1..Len(text)
                     /\ o = [at |-> o.at, needle |-> needle]
    BY <1>1 DEF Tiles
  <2>2. \A o \in O : o.at > skipped /\ IsAt(text, o.needle, o.at) BY <1>1 DEF Tiles
  <2>3. QED BY <2>1, <2>2 DEF After, Places
<1>4. \A j \in A : j \in Nat /\ \E o \in O : o.at <= j /\ j < o.at + Len(needle)
  <2>1. SUFFICES ASSUME NEW j \in A
                 PROVE  j \in Nat /\ \E o \in O : o.at <= j /\ j < o.at + Len(needle)
    OBVIOUS
  <2>2. j \in skipped + 1..Len(text) /\ IsAt(text, needle, j) BY DEF After, Places
  <2> HIDE DEF O, A
  <2>3. PICK o \in O : o.at <= j /\ j < o.at + Len(o.needle) BY <1>1, <2>2 DEF Tiles
  <2>4. QED BY <1>3, <2>2, <2>3
<1> HIDE DEF O, A
<1>5. O = {} <=> A = {} BY <1>3, <1>4
<1>6. Cardinality(O) \in Nat /\ (Cardinality(O) = 0 <=> O = {})
  BY <1>2, FS_CardinalityType, FS_EmptySet
<1>7. ASSUME \A i, j \in A : i < j => i + Len(needle) <= j PROVE Cardinality(O) = Cardinality(A)
  <2> DEFINE h == [o \in O |-> o.at]
  <2>1. h \in Bijection(O, A)
    <3>1. h \in [O -> A] BY <1>3
    <3>2. \A o, p \in O : h[o] = h[p] => o = p BY <1>3
    <3>3. \A j \in A : \E o \in O : h[o] = j
      <4>1. SUFFICES ASSUME NEW j \in A PROVE \E o \in O : o.at = j
        OBVIOUS
      <4>2. PICK o \in O : o.at <= j /\ j < o.at + Len(needle) BY <1>4
      <4>3. o.at \in A /\ o.at \in Nat /\ j \in Nat BY <1>3, <1>4
      <4>4. QED BY <1>7, <4>2, <4>3
    <3> HIDE DEF h
    <3>4. DOMAIN h = O BY <3>1
    <3>5. h \in Injection(O, A) BY <3>1, <3>2, <3>4 DEF Injection, IsInjective
    <3>6. h \in Surjection(O, A) BY <3>1, <3>3 DEF Surjection
    <3>7. QED BY <3>5, <3>6 DEF Bijection
  <2> HIDE DEF h
  <2>2. ExistsBijection(O, A) BY <2>1 DEF ExistsBijection
  <2>3. QED BY <1>2, <2>2, FS_Bijection
<1>8. Count(text, needle, skipped) \in Nat /\ (Count(text, needle, skipped) > 0 <=> A # {})
  BY <1>2, <1>5, <1>6
<1>9. (\A i, j \in A : i < j => i + Len(needle) <= j) =>
        Count(text, needle, skipped) = Cardinality(A)
  BY <1>2, <1>7
<1>10. QED BY <1>8, <1>9 DEF A

(* A needle that no other one overlaps is found, whatever is searched for.    *)
LEMMA PlainIsFound ==
  ASSUME NEW text, NEW needles, NEW n \in needles, NEW i \in Places(text, n),
         Len(text) \in Nat, Words(needles),
         \A m \in needles : \A j \in Places(text, m) :
           (m = n /\ j = i) \/ j + Len(m) <= i \/ i + Len(n) <= j
  PROVE  [at |-> i, needle |-> n] \in Occurrences(text, needles, 0)
<1> DEFINE O == Occurrences(text, needles, 0)
<1>1. Tiles(O, text, needles, 0, Len(text)) BY OccurrencesTile
<1> HIDE DEF O
<1>2. i \in 0 + 1..Len(text) /\ IsAt(text, n, i) BY DEF Places
<1>3. PICK o \in O : o.at <= i /\ i < o.at + Len(o.needle) BY <1>1, <1>2 DEF Tiles
<1>4. /\ o.needle \in needles /\ o.at \in 1..Len(text) /\ IsAt(text, o.needle, o.at)
      /\ o = [at |-> o.at, needle |-> o.needle] /\ Len(n) \in Nat \ {0}
  BY <1>1 DEF Tiles, Words
<1>5. o.at \in Places(text, o.needle) BY <1>4 DEF Places
<1>6. o.needle = n /\ o.at = i BY <1>2, <1>3, <1>4, <1>5
<1>7. QED BY <1>4, <1>6 DEF O

(* Whatever is found, and any part of it, is finite.                          *)
Sized(P) == Cardinality(P) \in Nat /\ (Cardinality(P) > 0 <=> P # {})

LEMMA PrintedIsFinite ==
  ASSUME NEW text, NEW needles, Len(text) \in Nat, Words(needles),
         NEW P, P \subseteq Occurrences(text, needles, 0)
  PROVE  Sized(P)
<1> DEFINE O == Occurrences(text, needles, 0)
<1>1. IsFiniteSet(O)
  <2>1. Tiles(O, text, needles, 0, Len(text)) BY OccurrencesTile
  <2>2. QED BY <2>1 DEF Tiles
<1>2. P \subseteq O OBVIOUS
<1> HIDE DEF O
<1>3. IsFiniteSet(P) BY <1>1, <1>2, FS_Subset
<1>4. Cardinality(P) \in Nat /\ (Cardinality(P) = 0 <=> P = {})
  BY <1>3, FS_CardinalityType, FS_EmptySet
<1>5. Cardinality(P) > 0 <=> P # {} BY <1>4
<1>6. QED BY <1>4, <1>5 DEF Sized

-----------------------------------------------------------------------------
(* Encoding and joining.                                                      *)

Encoded(c) == IF c = "wide" THEN <<"hi", "lo">> ELSE <<c>>

LEMMA EncodedOne ==
  ASSUME NEW X, NEW c \in X
  PROVE  Encoded(c) \in Seq(X \cup {"hi", "lo"}) /\ Len(Encoded(c)) >= 1
<1>1. CASE c = "wide"
  <2>1. Encoded(c) = <<"hi", "lo">> BY <1>1 DEF Encoded
  <2>2. QED BY <2>1
<1>2. CASE c # "wide"
  <2>1. Encoded(c) = <<c>> BY <1>2 DEF Encoded
  <2>2. QED BY <2>1
<1>3. QED BY <1>1, <1>2

EncodedTo(f, text, n) ==
  \A i \in 0..n : f[i] = IF i = 0 THEN <<>> ELSE f[i - 1] \o Encoded(text[i])

LEMMA EncodeIs ==
  ASSUME NEW n \in Nat, NEW X, NEW text \in Seq(X), Len(text) = n
  PROVE  \E f : /\ f \in [0..n -> Seq(X \cup {"hi", "lo"})]
                /\ EncodedTo(f, text, n) /\ Encode(text) = f[n]
<1> DEFINE D == Seq(X \cup {"hi", "lo"})
           g == [k \in 1..n |-> [x \in D |-> x \o Encoded(text[k])]]
           Rec(f) == f = [i \in 0..n |->
             IF i = 0 THEN <<>>
             ELSE f[i - 1] \o (IF text[i] = "wide" THEN <<"hi", "lo">> ELSE <<text[i]>>)]
<1>1. \A k \in 1..n, x \in D : x \o Encoded(text[k]) \in D
  <2>1. \A k \in 1..n : text[k] \in X OBVIOUS
  <2>2. \A k \in 1..n : Encoded(text[k]) \in D BY <2>1, EncodedOne
  <2>3. QED BY <2>2
<1>2. <<>> \in D OBVIOUS
<1>3. PICK f \in [0..n -> D] : Follows(f, <<>>, g, n)
  <2>1. Maps(g, n, D) BY <1>1 DEF Maps
  <2> HIDE DEF D, g
  <2>2. QED BY <1>2, <2>1, RecursionExists
<1>4. EncodedTo(f, text, n)
  <2>1. SUFFICES ASSUME NEW i \in 0..n
                 PROVE  f[i] = IF i = 0 THEN <<>> ELSE f[i - 1] \o Encoded(text[i])
    BY DEF EncodedTo
  <2>2. CASE i = 0
    <3> HIDE DEF D, g
    <3>1. QED BY <1>3, <2>2 DEF Follows
  <2>3. CASE i # 0
    <3>1. i \in 1..n /\ i - 1 \in 0..n BY <2>3
    <3>2. f[i] = g[i][f[i - 1]] BY <1>3, <2>3 DEF Follows
    <3>3. f[i - 1] \in D BY <1>3, <3>1
    <3> HIDE DEF D
    <3>4. QED BY <2>3, <3>1, <3>2, <3>3
  <2>4. QED BY <2>2, <2>3
<1> HIDE DEF g, D
<1>5. Rec(f)
  <2>1. DOMAIN f = 0..n /\ f = [i \in DOMAIN f |-> f[i]] BY <1>3
  <2>2. QED BY <1>4, <2>1 DEF EncodedTo, Encoded
<1>6. Encode(text) = (CHOOSE c : Rec(c))[n] BY DEF Encode
<1>7. Rec(CHOOSE c : Rec(c)) BY <1>5
<1>8. ASSUME NEW c, Rec(c) PROVE c \in [0..n -> D] /\ EncodedTo(c, text, n)
  <2>1. EncodedTo(c, text, n) BY <1>8 DEF EncodedTo, Encoded
  <2> DEFINE N == {k \in Nat : k <= n => c[k] \in D}
  <2>2. 0 \in N BY <1>2, <1>8
  <2>3. ASSUME NEW k \in Nat, k \in N PROVE k + 1 \in N
    <3>1. SUFFICES ASSUME k + 1 <= n PROVE c[k + 1] \in D
      OBVIOUS
    <3>2. c[k] \in D BY <2>3, <3>1
    <3>3. k + 1 \in 0..n /\ (k + 1) - 1 = k /\ k + 1 \in 1..n /\ k + 1 # 0 BY <3>1
    <3>4. c[k + 1] = c[k] \o Encoded(text[k + 1]) BY <2>1, <3>3 DEF EncodedTo
    <3>5. QED BY <3>2, <3>3, <3>4, <1>1
  <2> HIDE DEF N
  <2>4. Nat \subseteq N BY <2>2, <2>3, EveryNumber
  <2>5. \A k \in 0..n : c[k] \in D BY <2>4 DEF N
  <2>6. DOMAIN c = 0..n /\ c = [k \in DOMAIN c |-> c[k]] BY <1>8
  <2>7. QED BY <2>1, <2>5, <2>6
<1> HIDE DEF Rec
<1>9. QED BY <1>6, <1>7, <1>8 DEF D

(* An encoded text is no shorter, and a text of one-byte characters itself.   *)
LEMMA EncodeFacts ==
  ASSUME NEW X, NEW text \in Seq(X)
  PROVE  /\ Encode(text) \in Seq(X \cup {"hi", "lo"}) /\ Len(Encode(text)) >= Len(text)
         /\ OneByte(text) => Encode(text) = text
<1> DEFINE n == Len(text)
           D == Seq(X \cup {"hi", "lo"})
           OK(s, k) == /\ s \in D /\ Len(s) >= k
                       /\ OneByte(text) => Len(s) = k /\ \A j \in 1..k : s[j] = text[j]
<1>1. n \in Nat OBVIOUS
<1>2. PICK f : f \in [0..n -> D] /\ EncodedTo(f, text, n) /\ Encode(text) = f[n]
  BY <1>1, EncodeIs
<1> DEFINE N == {k \in Nat : k <= n => OK(f[k], k)}
<1>3. 0 \in N
  <2>1. f[0] = <<>> BY <1>2 DEF EncodedTo
  <2>2. <<>> \in D /\ Len(<<>>) = 0 /\ 1..0 = {} OBVIOUS
  <2>3. OK(<<>>, 0) BY <2>2
  <2>4. QED BY <2>1, <2>3
<1>4. ASSUME NEW k \in Nat, k \in N PROVE k + 1 \in N
  <2>1. SUFFICES ASSUME k + 1 <= n PROVE OK(f[k + 1], k + 1)
    OBVIOUS
  <2>2. OK(f[k], k) BY <1>4, <2>1
  <2>3. k + 1 \in 0..n /\ (k + 1) - 1 = k /\ k + 1 \in 1..n /\ k + 1 # 0 BY <2>1
  <2>4. f[k + 1] = f[k] \o Encoded(text[k + 1]) BY <1>2, <2>3 DEF EncodedTo
  <2>5. text[k + 1] \in X BY <2>3
  <2>6. Encoded(text[k + 1]) \in D /\ Len(Encoded(text[k + 1])) >= 1 BY <2>5, EncodedOne
  <2>7. ASSUME OneByte(text) PROVE Encoded(text[k + 1]) = <<text[k + 1]>>
    BY <2>3, <2>7 DEF OneByte, Encoded, Range
  <2> DEFINE a == f[k]
             e == Encoded(text[k + 1])
  <2>8. a \in D /\ e \in D /\ Len(e) >= 1 /\ Len(a) >= k BY <2>2, <2>6
  <2>9. a \o e \in D /\ Len(a \o e) >= k + 1
    <3> HIDE DEF a, e
    <3>1. QED BY <2>8
  <2>10. ASSUME OneByte(text)
         PROVE  Len(a \o e) = k + 1 /\ \A j \in 1..k + 1 : (a \o e)[j] = text[j]
    <3>1. e = <<text[k + 1]>> /\ Len(a) = k /\ \A j \in 1..k : a[j] = text[j]
      BY <2>2, <2>7, <2>10
    <3> HIDE DEF a, e
    <3>2. QED BY <2>8, <3>1
  <2>11. QED BY <2>4, <2>9, <2>10
<1> HIDE DEF N
<1>5. Nat \subseteq N BY <1>3, <1>4, EveryNumber
<1>6. OK(f[n], n) BY <1>1, <1>5 DEF N
<1>7. ASSUME OneByte(text) PROVE f[n] = text BY <1>1, <1>6, <1>7
<1>8. QED BY <1>2, <1>6, <1>7

(* What is written, line after line: each sequence of lines ends in a newline,*)
(* and is longer by a line than the one before.                               *)
Written(X) == \A x \in X : x.bytes \in Seq(Bytes)
WithNewline(x) == Append(x.bytes, "newline")
JoinedTo(f, lines, n) ==
  \A i \in 0..n : f[i] = IF i = 0 THEN <<>> ELSE f[i - 1] \o WithNewline(lines[i])

LEMMA NewlineFacts ==
  ASSUME NEW X, NEW x \in X, Written(X)
  PROVE  /\ WithNewline(x) \in Seq(Bytes) /\ Len(WithNewline(x)) \in Nat \ {0}
         /\ WithNewline(x)[Len(WithNewline(x))] = "newline"
<1>1. x.bytes \in Seq(Bytes) /\ "newline" \in Bytes BY DEF Written, Bytes
<1> HIDE DEF Bytes
<1>2. QED BY <1>1 DEF WithNewline

LEMMA JoinedIs ==
  ASSUME NEW n \in Nat, NEW X, Written(X), NEW lines \in Seq(X), Len(lines) = n
  PROVE  \E f : f \in [0..n -> Seq(Bytes)] /\ JoinedTo(f, lines, n) /\ Joined(lines) = f[n]
<1> DEFINE D == Seq(Bytes)
           g == [k \in 1..n |-> [x \in D |-> x \o WithNewline(lines[k])]]
           Rec(f) == f = [i \in 0..n |->
             IF i = 0 THEN <<>> ELSE f[i - 1] \o Append(lines[i].bytes, "newline")]
<1>1. \A k \in 1..n, x \in D : x \o WithNewline(lines[k]) \in D
  <2>1. \A k \in 1..n : lines[k] \in X OBVIOUS
  <2>2. \A k \in 1..n : WithNewline(lines[k]) \in D BY <2>1, NewlineFacts
  <2>3. QED BY <2>2
<1>2. <<>> \in D OBVIOUS
<1>3. PICK f \in [0..n -> D] : Follows(f, <<>>, g, n)
  <2>1. Maps(g, n, D) BY <1>1 DEF Maps
  <2> HIDE DEF D, g
  <2>2. QED BY <1>2, <2>1, RecursionExists
<1>4. JoinedTo(f, lines, n)
  <2>1. SUFFICES ASSUME NEW i \in 0..n
                 PROVE  f[i] = IF i = 0 THEN <<>> ELSE f[i - 1] \o WithNewline(lines[i])
    BY DEF JoinedTo
  <2>2. CASE i = 0
    <3> HIDE DEF D, g
    <3>1. QED BY <1>3, <2>2 DEF Follows
  <2>3. CASE i # 0
    <3>1. i \in 1..n /\ i - 1 \in 0..n BY <2>3
    <3>2. f[i] = g[i][f[i - 1]] BY <1>3, <2>3 DEF Follows
    <3>3. f[i - 1] \in D BY <1>3, <3>1
    <3> HIDE DEF D
    <3>4. QED BY <2>3, <3>1, <3>2, <3>3
  <2>4. QED BY <2>2, <2>3
<1> HIDE DEF g, D
<1>5. Rec(f)
  <2>1. DOMAIN f = 0..n /\ f = [i \in DOMAIN f |-> f[i]] BY <1>3
  <2>2. QED BY <1>4, <2>1 DEF JoinedTo, WithNewline
<1>6. Joined(lines) = (CHOOSE c : Rec(c))[n] BY DEF Joined
<1>7. Rec(CHOOSE c : Rec(c)) BY <1>5
<1>8. ASSUME NEW c, Rec(c) PROVE c \in [0..n -> D] /\ JoinedTo(c, lines, n)
  <2>1. JoinedTo(c, lines, n) BY <1>8 DEF JoinedTo, WithNewline
  <2> DEFINE N == {k \in Nat : k <= n => c[k] \in D}
  <2>2. 0 \in N BY <1>2, <1>8
  <2>3. ASSUME NEW k \in Nat, k \in N PROVE k + 1 \in N
    <3>1. SUFFICES ASSUME k + 1 <= n PROVE c[k + 1] \in D
      OBVIOUS
    <3>2. c[k] \in D BY <2>3, <3>1
    <3>3. k + 1 \in 0..n /\ (k + 1) - 1 = k /\ k + 1 \in 1..n /\ k + 1 # 0 BY <3>1
    <3>4. c[k + 1] = c[k] \o WithNewline(lines[k + 1]) BY <2>1, <3>3 DEF JoinedTo
    <3>5. QED BY <3>2, <3>3, <3>4, <1>1
  <2> HIDE DEF N
  <2>4. Nat \subseteq N BY <2>2, <2>3, EveryNumber
  <2>5. \A k \in 0..n : c[k] \in D BY <2>4 DEF N
  <2>6. DOMAIN c = 0..n /\ c = [k \in DOMAIN c |-> c[k]] BY <1>8
  <2>7. QED BY <2>1, <2>5, <2>6
<1> HIDE DEF Rec
<1>9. QED BY <1>6, <1>7, <1>8 DEF D

LEMMA JoinedNone == ASSUME NEW X, Written(X) PROVE Joined(<<>>) = <<>>
<1>1. <<>> \in Seq(X) /\ Len(<<>>) = 0 OBVIOUS
<1>2. PICK f : JoinedTo(f, <<>>, 0) /\ Joined(<<>>) = f[0] BY <1>1, JoinedIs
<1>3. QED BY <1>2 DEF JoinedTo

LEMMA JoinedOne ==
  ASSUME NEW X, Written(X), NEW lines \in Seq(X), NEW x \in X
  PROVE  Joined(Append(lines, x)) = Joined(lines) \o WithNewline(x)
<1> DEFINE n == Len(lines)
           more == Append(lines, x)
<1>1. /\ n \in Nat /\ more \in Seq(X) /\ Len(more) = n + 1
      /\ more[n + 1] = x /\ \A i \in 1..n : more[i] = lines[i]
  OBVIOUS
<1> HIDE DEF n, more
<1>2. PICK f : JoinedTo(f, lines, n) /\ Joined(lines) = f[n] BY <1>1, JoinedIs DEF n
<1>3. PICK h : JoinedTo(h, more, n + 1) /\ Joined(more) = h[n + 1]
  <2>1. n + 1 \in Nat BY <1>1
  <2>2. QED BY <1>1, <2>1, JoinedIs
<1> DEFINE N == {k \in Nat : k <= n => f[k] = h[k]}
<1>4. 0 \in N
  <2>1. 0 \in 0..n /\ 0 \in 0..n + 1 BY <1>1
  <2>2. QED BY <1>2, <1>3, <2>1 DEF JoinedTo
<1>5. ASSUME NEW k \in Nat, k \in N PROVE k + 1 \in N
  <2>1. SUFFICES ASSUME k + 1 <= n PROVE f[k + 1] = h[k + 1]
    OBVIOUS
  <2>2. /\ k + 1 \in 0..n /\ k + 1 \in 0..n + 1 /\ (k + 1) - 1 = k /\ k + 1 \in 1..n
        /\ k + 1 # 0 /\ k <= n
    BY <1>1, <2>1
  <2>3. f[k + 1] = f[k] \o WithNewline(lines[k + 1]) BY <1>2, <2>2 DEF JoinedTo
  <2>4. h[k + 1] = h[k] \o WithNewline(more[k + 1]) BY <1>3, <2>2 DEF JoinedTo
  <2>5. more[k + 1] = lines[k + 1] BY <1>1, <2>2
  <2>6. QED BY <1>5, <2>2, <2>3, <2>4, <2>5
<1> HIDE DEF N
<1>6. n \in N BY <1>1, <1>4, <1>5, EveryNumber
<1>7. n + 1 \in 0..n + 1 /\ (n + 1) - 1 = n /\ n + 1 # 0 BY <1>1
<1>8. h[n + 1] = h[n] \o WithNewline(x) BY <1>1, <1>3, <1>7 DEF JoinedTo
<1>9. f[n] = h[n] BY <1>1, <1>6 DEF N
<1>10. Joined(more) = Joined(lines) \o WithNewline(x) BY <1>2, <1>3, <1>8, <1>9
<1>11. QED BY <1>10 DEF more

LEMMA JoinedFacts ==
  ASSUME NEW X, Written(X), NEW lines \in Seq(X)
  PROVE  /\ Joined(lines) \in Seq(Bytes) /\ Len(Joined(lines)) \in Nat
         /\ lines # <<>> => /\ Len(Joined(lines)) > 0
                            /\ Joined(lines)[Len(Joined(lines))] = "newline"
<1>1. CASE lines = <<>>
  <2>1. Joined(lines) = <<>> BY <1>1, JoinedNone
  <2>2. <<>> \in Seq(Bytes) /\ Len(<<>>) = 0 OBVIOUS
  <2>3. QED BY <1>1, <2>1, <2>2
<1>2. CASE lines # <<>>
  <2> DEFINE x == lines[Len(lines)]
             init == SubSeq(lines, 1, Len(lines) - 1)
  <2>1. x \in X /\ init \in Seq(X) /\ lines = Append(init, x) BY <1>2
  <2> HIDE DEF x, init
  <2> DEFINE a == Joined(init)
             e == WithNewline(x)
  <2>2. Joined(lines) = a \o e BY <2>1, JoinedOne
  <2>3. a \in Seq(Bytes)
    <3>1. Len(init) \in Nat BY <2>1
    <3>2. PICK f : f \in [0..Len(init) -> Seq(Bytes)] /\ Joined(init) = f[Len(init)]
      BY <2>1, <3>1, JoinedIs
    <3>3. QED BY <3>1, <3>2
  <2>4. e \in Seq(Bytes) /\ Len(e) \in Nat \ {0} /\ e[Len(e)] = "newline" BY <2>1, NewlineFacts
  <2> HIDE DEF a, e
  <2>5. /\ a \o e \in Seq(Bytes) /\ Len(a \o e) = Len(a) + Len(e) /\ Len(a) \in Nat
        /\ (a \o e)[Len(a) + Len(e)] = e[Len(e)]
    BY <2>3, <2>4
  <2>6. QED BY <2>2, <2>4, <2>5
<1>3. QED BY <1>1, <1>2

-----------------------------------------------------------------------------
(* What is searched for.                                                      *)

LEMMA NeedleIs ==
  ASSUME NEW value, IsValue(value)
  PROVE  /\ Needle(value) \in Seq(Chars \ {"newline"})
         /\ Len(Needle(value)) \in Nat /\ Len(Needle(value)) <= ReadChunk
<1>1. /\ value \in Seq(Seq(Chars \ {"newline"})) /\ DOMAIN value = 1..Len(value)
      /\ 1 \in DOMAIN value /\ Len(value) \in Nat
      /\ \A i \in DOMAIN value : Len(value[i]) <= ReadChunk
  BY DEF IsValue, Range
<1>2. \A i \in DOMAIN value : value[i] \in Seq(Chars \ {"newline"}) /\ Len(value[i]) \in Nat
  BY <1>1
<1> DEFINE L == {Len(value[i]) : i \in DOMAIN value}
<1>3. PICK k \in L : \A j \in L : j <= k
  <2>1. L \subseteq Nat /\ L # {} /\ \A j \in L : j <= ReadChunk BY <1>1, <1>2
  <2>2. ReadChunk \in Nat BY NumbersAssumption
  <2> HIDE DEF L
  <2>3. QED BY <2>1, <2>2, GreatestNumber
<1> DEFINE I == {i \in DOMAIN value : Len(value[i]) = k}
<1>4. PICK i \in I : \A j \in I : i <= j
  <2>1. I \subseteq Nat /\ I # {} BY <1>1, <1>3
  <2> HIDE DEF I
  <2>2. QED BY <2>1, LeastNumber
<1> DEFINE First(c) == \A j \in DOMAIN value :
                         Len(value[j]) < Len(value[c]) \/ (Len(value[j]) = Len(value[c]) /\ c <= j)
<1>5. i \in DOMAIN value /\ First(i)
  <2>1. ASSUME NEW j \in DOMAIN value
        PROVE  Len(value[j]) < Len(value[i]) \/ (Len(value[j]) = Len(value[i]) /\ i <= j)
    <3>1. Len(value[j]) <= k /\ Len(value[i]) = k BY <1>3, <1>4
    <3>2. Len(value[j]) = k => i <= j BY <1>4
    <3>3. QED BY <1>2, <1>3, <3>1, <3>2
  <2>2. QED BY <2>1
<1>6. Needle(value) = value[CHOOSE c \in DOMAIN value : First(c)] BY DEF Needle
<1> HIDE DEF First
<1>7. (CHOOSE c \in DOMAIN value : First(c)) \in DOMAIN value BY <1>5
<1>8. QED BY <1>1, <1>2, <1>6, <1>7

(* The keyring is one that the assumption is about.                           *)
KeyringOK == \A l \in DOMAIN scan.keyring : IsValue(scan.keyring[l])

LEMMA NeedlesAre ==
  ASSUME KeyringOK
  PROVE  /\ Words(Needles) /\ Needles \subseteq Seq(Chars \ {"newline"})
         /\ Needles # {} => Overlap \in Nat /\ Overlap <= ReadChunk
         /\ \A n \in Needles : Len(n) <= Overlap /\ Len(n) <= ReadChunk
<1>1. MinLength \in Nat \ {0} /\ ReadChunk \in Nat BY NumbersAssumption
<1>2. \A n \in Needles : /\ n \in Seq(Chars \ {"newline"}) /\ Len(n) \in Nat \ {0}
                         /\ Len(n) <= ReadChunk
  <2>1. SUFFICES ASSUME NEW l \in Usable
                 PROVE  LET n == Needle(scan.keyring[l])
                        IN n \in Seq(Chars \ {"newline"}) /\ Len(n) \in Nat \ {0} /\ Len(n) <= ReadChunk
    BY DEF Needles
  <2>2. IsValue(scan.keyring[l]) /\ Len(Needle(scan.keyring[l])) >= MinLength
    BY DEF Usable, KeyringOK
  <2>3. QED BY <1>1, <2>2, NeedleIs
<1>3. ASSUME Needles # {}
      PROVE  Overlap \in Nat /\ Overlap <= ReadChunk /\ \A n \in Needles : Len(n) <= Overlap
  <2> DEFINE L == {Len(n) : n \in Needles}
  <2>1. L \subseteq Nat /\ L # {} /\ \A k \in L : k <= ReadChunk BY <1>2, <1>3
  <2> HIDE DEF L
  <2>2. PICK k \in L : \A j \in L : j <= k BY <1>1, <2>1, GreatestNumber
  <2>3. \A x \in Needles : Len(x) <= k BY <2>2 DEF L
  <2>4. Overlap = CHOOSE n \in L : \A x \in Needles : Len(x) <= n BY DEF Overlap, L
  <2>5. Overlap \in L /\ \A x \in Needles : Len(x) <= Overlap BY <2>2, <2>3, <2>4
  <2>6. QED BY <2>1, <2>5
<1>4. QED BY <1>2, <1>3 DEF Words

(* The total of a session is a number, positive if a row of it has the needle.*)
RowsOK == \E X : cells \in Seq(X) /\ \A x \in X : IsCell(x)
Times(needle, s, i) ==
  IF i \in rows /\ SessionOf(cells[i]) = s THEN Count(Decode(cells[i].bytes), needle, 0) ELSE 0
TotalTo(f, needle, s, n) ==
  \A i \in 0..n : f[i] = IF i = 0 THEN 0 ELSE f[i - 1] + Times(needle, s, i)

LEMMA HoldsCount ==
  ASSUME NEW text, NEW needle, Len(text) \in Nat, Len(needle) \in Nat \ {0}
  PROVE  /\ Count(text, needle, 0) \in Nat
         /\ Holds(text, needle) <=> Count(text, needle, 0) > 0
<1>1. After(text, needle, 0) = Places(text, needle) BY DEF After, Places
<1>2. QED BY <1>1, CountFacts DEF Holds

LEMMA TimesFacts ==
  ASSUME RowsOK, NEW needle, Len(needle) \in Nat \ {0}, NEW s, NEW i \in 1..Len(cells)
  PROVE  /\ Times(needle, s, i) \in Nat
         /\ i \in rows /\ SessionOf(cells[i]) = s /\ Holds(Decode(cells[i].bytes), needle)
              => Times(needle, s, i) > 0
<1>1. cells[i].bytes \in Seq(Bytes)
  <2>1. PICK X : cells \in Seq(X) /\ \A x \in X : IsCell(x) BY DEF RowsOK
  <2>2. QED BY <2>1 DEF IsCell
<1>2. Len(Decode(cells[i].bytes)) \in Nat
  <2>1. Decode(cells[i].bytes) \in Seq(Chars) BY <1>1, DecodeReads
  <2>2. QED BY <2>1
<1>3. QED BY <1>2, HoldsCount DEF Times

LEMMA TotalIs ==
  ASSUME RowsOK, NEW needle, Len(needle) \in Nat \ {0}, NEW s, NEW n \in Nat, Len(cells) = n
  PROVE  \E f : f \in [0..n -> Nat] /\ TotalTo(f, needle, s, n) /\ Total(needle, s) = f[n]
<1> DEFINE g == [k \in 1..n |-> [x \in Nat |-> x + Times(needle, s, k)]]
           Rec(f) == f = [i \in 0..n |->
             IF i = 0 THEN 0
             ELSE f[i - 1] + (IF i \in rows /\ SessionOf(cells[i]) = s
                              THEN Count(Decode(cells[i].bytes), needle, 0) ELSE 0)]
<1>1. \A k \in 1..n : Times(needle, s, k) \in Nat BY TimesFacts
<1>2. PICK f \in [0..n -> Nat] : Follows(f, 0, g, n)
  <2>1. Maps(g, n, Nat) BY <1>1 DEF Maps
  <2> HIDE DEF g
  <2>2. QED BY <2>1, RecursionExists
<1>3. TotalTo(f, needle, s, n)
  <2>1. SUFFICES ASSUME NEW i \in 0..n
                 PROVE  f[i] = IF i = 0 THEN 0 ELSE f[i - 1] + Times(needle, s, i)
    BY DEF TotalTo
  <2>2. CASE i = 0
    <3> HIDE DEF g
    <3>1. QED BY <1>2, <2>2 DEF Follows
  <2>3. CASE i # 0
    <3>1. i \in 1..n /\ i - 1 \in 0..n BY <2>3
    <3>2. f[i] = g[i][f[i - 1]] BY <1>2, <2>3 DEF Follows
    <3>3. f[i - 1] \in Nat BY <1>2, <3>1
    <3>4. QED BY <2>3, <3>1, <3>2, <3>3
  <2>4. QED BY <2>2, <2>3
<1> HIDE DEF g
<1>4. Rec(f)
  <2>1. DOMAIN f = 0..n /\ f = [i \in DOMAIN f |-> f[i]] BY <1>2
  <2>2. QED BY <1>3, <2>1 DEF TotalTo, Times
<1>5. Total(needle, s) = (CHOOSE c : Rec(c))[n] BY DEF Total
<1>6. Rec(CHOOSE c : Rec(c)) BY <1>4
<1>7. ASSUME NEW c, Rec(c) PROVE c \in [0..n -> Nat] /\ TotalTo(c, needle, s, n)
  <2>1. TotalTo(c, needle, s, n) BY <1>7 DEF TotalTo, Times
  <2> DEFINE N == {k \in Nat : k <= n => c[k] \in Nat}
  <2>2. 0 \in N BY <1>7
  <2>3. ASSUME NEW k \in Nat, k \in N PROVE k + 1 \in N
    <3>1. SUFFICES ASSUME k + 1 <= n PROVE c[k + 1] \in Nat
      OBVIOUS
    <3>2. c[k] \in Nat BY <2>3, <3>1
    <3>3. k + 1 \in 0..n /\ (k + 1) - 1 = k /\ k + 1 \in 1..n /\ k + 1 # 0 BY <3>1
    <3>4. c[k + 1] = c[k] + Times(needle, s, k + 1) BY <2>1, <3>3 DEF TotalTo
    <3>5. QED BY <3>2, <3>3, <3>4, <1>1
  <2> HIDE DEF N
  <2>4. Nat \subseteq N BY <2>2, <2>3, EveryNumber
  <2>5. \A k \in 0..n : c[k] \in Nat BY <2>4 DEF N
  <2>6. DOMAIN c = 0..n /\ c = [k \in DOMAIN c |-> c[k]] BY <1>7
  <2>7. QED BY <2>1, <2>5, <2>6
<1> HIDE DEF Rec
<1>8. QED BY <1>5, <1>6, <1>7

LEMMA TotalFacts ==
  ASSUME RowsOK, NEW needle, Len(needle) \in Nat \ {0}, NEW s
  PROVE  /\ Total(needle, s) \in Nat
         /\ \A i \in 1..Len(cells) :
              i \in rows /\ SessionOf(cells[i]) = s /\ Holds(Decode(cells[i].bytes), needle)
                => Total(needle, s) > 0
<1> DEFINE n == Len(cells)
<1>1. n \in Nat
  <2>1. PICK X : cells \in Seq(X) BY DEF RowsOK
  <2>2. QED BY <2>1
<1>2. PICK f : f \in [0..n -> Nat] /\ TotalTo(f, needle, s, n) /\ Total(needle, s) = f[n]
  BY <1>1, TotalIs
<1>3. f[n] \in Nat BY <1>1, <1>2
<1>4. ASSUME NEW i \in 1..n, Times(needle, s, i) > 0 PROVE f[n] > 0
  <2> DEFINE N == {k \in Nat : i <= k /\ k <= n => f[k] > 0}
  <2>1. 0 \in N OBVIOUS
  <2>2. ASSUME NEW k \in Nat, k \in N PROVE k + 1 \in N
    <3>1. SUFFICES ASSUME i <= k + 1, k + 1 <= n PROVE f[k + 1] > 0
      OBVIOUS
    <3>2. k + 1 \in 0..n /\ k \in 0..n /\ (k + 1) - 1 = k /\ k + 1 \in 1..n /\ k + 1 # 0
      BY <1>1, <3>1
    <3>3. f[k + 1] = f[k] + Times(needle, s, k + 1) BY <1>2, <3>2 DEF TotalTo
    <3>4. f[k] \in Nat /\ Times(needle, s, k + 1) \in Nat BY <1>2, <3>2, TimesFacts
    <3>5. CASE i <= k
      <4>1. f[k] > 0 BY <2>2, <3>1, <3>2, <3>5
      <4>2. QED BY <3>3, <3>4, <4>1
    <3>6. CASE ~(i <= k)
      <4>1. i = k + 1 BY <3>1, <3>6
      <4>2. QED BY <1>4, <3>3, <3>4, <4>1
    <3>7. QED BY <3>5, <3>6
  <2> HIDE DEF N
  <2>3. n \in N BY <1>1, <2>1, <2>2, EveryNumber
  <2>4. QED BY <1>1, <2>3 DEF N
<1>5. QED BY <1>2, <1>3, <1>4, TimesFacts

-----------------------------------------------------------------------------
(* The types, with what they rest on: what is written has its form, nothing   *)
(* of a file still to be searched was counted, and every path is of a session *)
(* of the period.                                                             *)

AllCells == Cells \cup UNION {Range(s.cells) : s \in Scans}

Typed ==
  /\ \E s \in Scans, g \in BOOLEAN :
       scan = [keyring |-> s.keyring, useGrep |-> g, maxFiles |-> s.maxFiles,
               period |-> s.period, inPeriod |-> s.inPeriod]
  /\ file \in [Files -> Seq(LinesOf)] /\ cells \in Seq(AllCells)

Phases ==
  /\ pc \in {"match", "block", "report", "tables"} => Needles # {}
  /\ pc \in {"start", "match", "block"} => hits = {}
  /\ pc = "start" => matches = {}
  /\ pc = "block" => reader.path \notin todo
  /\ \A m \in matches : m.path \notin todo

OfPeriod ==
  \A p \in todo \cup {reader.path} \cup {m.path : m \in matches} :
    p # Database => Owner[p] \in scan.inPeriod

TInv == TypeOK /\ Typed /\ Phases /\ OfPeriod

LEMMA AllWritten == Written(LinesOf) /\ Written(AllCells) /\ \A x \in AllCells : IsCell(x)
<1>1. \A x \in LinesOf : x.bytes \in Seq(Bytes) BY DEF LinesOf
<1>2. \A x \in AllCells : IsCell(x)
  BY WritesAssumption, ScansAssumption DEF AllCells
<1>3. QED BY <1>1, <1>2 DEF Written, IsCell

LEMMA TypedFacts ==
  ASSUME Typed
  PROVE  /\ KeyringOK /\ RowsOK /\ scan.useGrep \in BOOLEAN
         /\ scan = [keyring |-> scan.keyring, useGrep |-> scan.useGrep,
                    maxFiles |-> scan.maxFiles, period |-> scan.period,
                    inPeriod |-> scan.inPeriod]
<1>1. PICK s \in Scans, g \in BOOLEAN :
        scan = [keyring |-> s.keyring, useGrep |-> g, maxFiles |-> s.maxFiles,
                period |-> s.period, inPeriod |-> s.inPeriod]
  BY DEF Typed
<1>2. KeyringOK
  <2>1. scan.keyring = s.keyring BY <1>1
  <2>2. QED BY <2>1, ScansAssumption DEF KeyringOK
<1>3. RowsOK BY AllWritten DEF Typed, RowsOK
<1>4. scan.useGrep \in BOOLEAN BY <1>1
<1>5. scan = [keyring |-> scan.keyring, useGrep |-> scan.useGrep, maxFiles |-> scan.maxFiles,
              period |-> scan.period, inPeriod |-> scan.inPeriod]
  BY <1>1
<1>6. QED BY <1>2, <1>3, <1>4, <1>5

LEMMA RawIs ==
  ASSUME TypeOK, Typed, NEW p \in Paths
  PROVE  RawBytes(p) \in Seq(Bytes) /\ Len(RawBytes(p)) \in Nat
<1>1. CASE p = Database
  <2> DEFINE kept == SubSeq(cells, 1, synced)
  <2>1. kept \in Seq(AllCells) BY DEF Typed, TypeOK
  <2> HIDE DEF kept
  <2>2. Joined(kept) \in Seq(Bytes) BY <2>1, AllWritten, JoinedFacts
  <2>3. QED BY <1>1, <2>2 DEF RawBytes, kept
<1>2. CASE p # Database
  <2>1. file[p] \in Seq(LinesOf) BY <1>2 DEF Typed, Paths
  <2>2. Joined(file[p]) \in Seq(Bytes) BY <2>1, AllWritten, JoinedFacts
  <2>3. QED BY <1>2, <2>2 DEF RawBytes
<1>3. QED BY <1>1, <1>2

LEMMA DecodeIs ==
  ASSUME NEW b \in Seq(Bytes)
  PROVE  Decode(b) \in Seq(Chars) /\ Len(Decode(b)) \in Nat
<1>1. Decode(b) \in Seq(Chars) BY DecodeReads
<1>2. QED BY <1>1

(* What the matches of a file become, chunk after chunk.                      *)
Before(p, n) == {m \in matches : m.needle = n /\ m.path = p}
Earlier(p, n) == IF Before(p, n) = {} THEN 0 ELSE (CHOOSE m \in Before(p, n) : TRUE).count
CountedFor(p, text, skip, n) ==
  [needle |-> n, path |-> p, count |-> Count(text, n, Skipped(skip, n)) + Earlier(p, n)]

LEMMA CountedIs ==
  ASSUME NEW p, NEW text, NEW skip
  PROVE  Counted(p, text, skip) =
           {m \in matches : m.path # p}
           \cup {m \in {CountedFor(p, text, skip, n) : n \in Needles} : m.count > 0}
BY DEF Counted, NonZero, CountedFor, Earlier, Before

LEMMA SkippedIs ==
  ASSUME NEW skip \in Nat, NEW n, Len(n) \in Nat
  PROVE  Skipped(skip, n) \in Nat
BY DEF Skipped

LEMMA EarlierIs ==
  ASSUME TypeOK, NEW p, NEW n
  PROVE  /\ Earlier(p, n) \in Nat
         /\ \A m \in Before(p, n) : Earlier(p, n) = m.count
<1>1. \A m \in Before(p, n) : m \in matches /\ m.needle = n /\ m.path = p /\ m.count \in Nat
  BY DEF Before, TypeOK
<1>2. \A m, k \in Before(p, n) : m = k BY <1>1 DEF TypeOK
<1>3. QED BY <1>1, <1>2 DEF Earlier

MatchesOK(M) ==
  /\ \A m \in M : m.needle \in Needles /\ m.path \in Paths /\ m.count \in Nat \ {0}
  /\ \A m, n \in M : m.needle = n.needle /\ m.path = n.path => m = n

LEMMA CountedOK ==
  ASSUME TypeOK, Typed, NEW p \in Paths, NEW text, Len(text) \in Nat, NEW skip \in Nat
  PROVE  /\ MatchesOK(Counted(p, text, skip))
         /\ \A m \in Counted(p, text, skip) : m.path = p \/ m \in matches
<1> DEFINE new == {m \in {CountedFor(p, text, skip, n) : n \in Needles} : m.count > 0}
<1>1. Words(Needles) BY TypedFacts, NeedlesAre
<1>2. \A n \in Needles : /\ CountedFor(p, text, skip, n).needle = n
                         /\ CountedFor(p, text, skip, n).path = p
                         /\ CountedFor(p, text, skip, n).count \in Nat
  <2>1. SUFFICES ASSUME NEW n \in Needles
                 PROVE  Count(text, n, Skipped(skip, n)) + Earlier(p, n) \in Nat
    BY DEF CountedFor
  <2>2. Len(n) \in Nat \ {0} BY <1>1 DEF Words
  <2>3. Skipped(skip, n) \in Nat BY <2>2, SkippedIs
  <2>4. Count(text, n, Skipped(skip, n)) \in Nat BY <2>2, <2>3, CountFacts
  <2>5. Earlier(p, n) \in Nat BY EarlierIs
  <2>6. QED BY <2>4, <2>5
<1>3. \A m \in new : /\ m.needle \in Needles /\ m.path = p /\ m.count \in Nat \ {0}
                     /\ m = CountedFor(p, text, skip, m.needle)
  BY <1>2
<1>4. Counted(p, text, skip) = {m \in matches : m.path # p} \cup new BY CountedIs
<1> HIDE DEF new
<1>5. \A m \in Counted(p, text, skip) : m.path = p \/ m \in matches BY <1>3, <1>4
<1>6. \A m \in Counted(p, text, skip) :
        m.needle \in Needles /\ m.path \in Paths /\ m.count \in Nat \ {0}
  BY <1>3, <1>4 DEF TypeOK
<1>7. \A m, n \in Counted(p, text, skip) : m.needle = n.needle /\ m.path = n.path => m = n
  BY <1>3, <1>4 DEF TypeOK
<1>8. QED BY <1>5, <1>6, <1>7 DEF MatchesOK

Printed(p, n) == {o \in Occurrences(RawBytes(p), {Encode(x) : x \in Needles}, 0) : o.needle = Encode(n)}
GrepFor(p, n) == [needle |-> n, path |-> p, count |-> Cardinality(Printed(p, n))]
Grepped(p) == {m \in {GrepFor(p, n) : n \in Needles} : m.count > 0}

LEMMA EncodedWords ==
  ASSUME Typed
  PROVE  /\ Words({Encode(n) : n \in Needles})
         /\ \A n \in Needles : OneByte(n) => Encode(n) = n
<1>1. Words(Needles) /\ Needles \subseteq Seq(Chars \ {"newline"}) BY TypedFacts, NeedlesAre
<1>2. SUFFICES ASSUME NEW n \in Needles
               PROVE  Len(Encode(n)) \in Nat \ {0} /\ (OneByte(n) => Encode(n) = n)
  BY DEF Words
<1> DEFINE X == Chars \ {"newline"}
           e == Encode(n)
<1>3. n \in Seq(X) /\ Len(n) \in Nat \ {0} BY <1>1 DEF Words
<1> HIDE DEF X
<1>4. e \in Seq(X \cup {"hi", "lo"}) /\ Len(e) >= Len(n) /\ (OneByte(n) => e = n)
  BY <1>3, EncodeFacts
<1> HIDE DEF e
<1>5. Len(e) \in Nat BY <1>4
<1>6. QED BY <1>3, <1>4, <1>5 DEF e

LEMMA GreppedOK ==
  ASSUME TypeOK, Typed, NEW p \in Paths, \A m \in matches : m.path # p
  PROVE  /\ MatchesOK(matches \cup Grepped(p))
         /\ \A m \in matches \cup Grepped(p) : m.path = p \/ m \in matches
<1>1. \A n \in Needles : /\ GrepFor(p, n).needle = n /\ GrepFor(p, n).path = p
                         /\ GrepFor(p, n).count \in Nat
  <2>1. SUFFICES ASSUME NEW n \in Needles PROVE Cardinality(Printed(p, n)) \in Nat
    BY DEF GrepFor
  <2> DEFINE W == {Encode(x) : x \in Needles}
  <2>2. Words(W) /\ Len(RawBytes(p)) \in Nat BY EncodedWords, RawIs
  <2> HIDE DEF W
  <2>3. Printed(p, n) \subseteq Occurrences(RawBytes(p), W, 0)
    BY DEF Printed, W
  <2>4. Sized(Printed(p, n)) BY <2>2, <2>3, PrintedIsFinite
  <2>5. QED BY <2>4 DEF Sized
<1>2. \A m \in Grepped(p) : /\ m.needle \in Needles /\ m.path = p /\ m.count \in Nat \ {0}
                            /\ m = GrepFor(p, m.needle)
  BY <1>1 DEF Grepped
<1>3. \A m \in matches \cup Grepped(p) :
        m.needle \in Needles /\ m.path \in Paths /\ m.count \in Nat \ {0}
  BY <1>2 DEF TypeOK
<1>4. \A m, n \in matches \cup Grepped(p) : m.needle = n.needle /\ m.path = n.path => m = n
  BY <1>2 DEF TypeOK
<1>5. QED BY <1>2, <1>3, <1>4 DEF MatchesOK

Basics ==
  /\ pc \in {"start", "match", "block", "report", "tables", "done", "failed"}
  /\ todo \subseteq Paths /\ synced \in 0..Len(cells) /\ writes \in 0..MaxWrites
  /\ reader \in Spots /\ seen \in [Paths -> Seq(Bytes)]
  /\ tables \subseteq Tables /\ rows \subseteq 1..Len(cells)
LeakOK(k) ==
  /\ k.needle \in Needles /\ k.path \in Paths /\ k.labels \subseteq Usable
  /\ k.labels # {} /\ k.count \in Nat \ {0}
  /\ scan.period => k.record \in scan.inPeriod
Reporting == hits \subseteq matches /\ common \subseteq Needles /\ \A k \in leaks : LeakOK(k)

LEMMA TypeParts == TypeOK <=> Basics /\ MatchesOK(matches) /\ Reporting
BY DEF TypeOK, Basics, MatchesOK, LeakOK, Reporting

LEMMA SameKeyring ==
  ASSUME scan'.keyring = scan.keyring
  PROVE  /\ Usable' = Usable /\ Needles' = Needles /\ Overlap' = Overlap
         /\ \A n : LabelsOf(n)' = LabelsOf(n)
<1>1. Usable' = Usable BY DEF Usable
<1>2. QED BY <1>1 DEF Needles, Overlap, LabelsOf

(* Nothing that is reported changes its type while the scan stays.            *)
LEMMA ReportingStays ==
  ASSUME Reporting, UNCHANGED <<scan, matches, hits, common, leaks>>
  PROVE  Reporting' /\ (MatchesOK(matches) => MatchesOK(matches)')
<1>1. scan'.keyring = scan.keyring OBVIOUS
<1>2. Usable' = Usable /\ Needles' = Needles BY <1>1, SameKeyring
<1>3. QED BY <1>2 DEF Reporting, LeakOK, MatchesOK

LEMMA TypesInit == Init => TInv
<1>1. SUFFICES ASSUME Init PROVE TInv
  OBVIOUS
<1>2. PICK s \in Scans :
        /\ scan = [keyring |-> s.keyring, useGrep |-> s.useGrep, maxFiles |-> s.maxFiles,
                   period |-> s.period, inPeriod |-> s.inPeriod]
        /\ file = s.file /\ cells = s.cells /\ synced = Len(s.cells)
  BY <1>1 DEF Init
<1>3. /\ s.useGrep \in BOOLEAN /\ s.file \in [Files -> Seq(LinesOf)]
      /\ s.cells \in Seq(Range(s.cells))
  BY ScansAssumption
<1>4. cells \in Seq(AllCells)
  <2>1. Range(s.cells) \subseteq AllCells BY DEF AllCells
  <2>2. s.cells \in Seq(AllCells) BY <1>3, <2>1, SeqMonotonic
  <2>3. QED BY <1>2, <2>2
<1>5. file \in [Files -> Seq(LinesOf)] BY <1>2, <1>3
<1>6. Typed BY <1>2, <1>3, <1>4, <1>5 DEF Typed
<1>7. Basics
  <2>1. synced \in 0..Len(cells) BY <1>2, <1>4
  <2>2. writes \in 0..MaxWrites BY <1>1, NumbersAssumption DEF Init
  <2>3. reader \in Spots /\ seen \in [Paths -> Seq(Bytes)] BY <1>1 DEF Init, Spots, Paths
  <2>4. QED BY <1>1, <2>1, <2>2, <2>3 DEF Init, Basics
<1>8. MatchesOK(matches) /\ Reporting BY <1>1 DEF Init, MatchesOK, Reporting
<1>9. Phases /\ OfPeriod
  <2>1. reader.path = Database /\ todo = {} /\ matches = {} /\ hits = {} /\ pc = "start"
    BY <1>1 DEF Init
  <2>2. Phases BY <2>1 DEF Phases
  <2>3. OfPeriod BY <2>1 DEF OfPeriod
  <2>4. QED BY <2>2, <2>3
<1>10. QED BY <1>6, <1>7, <1>8, <1>9, TypeParts DEF TInv

LEMMA TypesStart == TInv /\ Start => TInv'
<1>1. SUFFICES ASSUME TInv, Start PROVE TInv'
  OBVIOUS
<1>2. /\ pc = "start" /\ UNCHANGED <<scan, file, cells, synced, writes, tables, rows, reader, matches,
                                     leaks, common, hits, seen>>
      /\ IF Usable = {} THEN pc' = "done" /\ todo' = {} ELSE pc' = "match" /\ todo' = Targets
  BY <1>1 DEF Start, stores, found, inspected
<1>3. Typed' BY <1>1, <1>2 DEF TInv, Typed
<1>4. Basics' BY <1>1, <1>2 DEF TInv, TypeOK, Basics, Targets, Paths
<1>5. Reporting' /\ MatchesOK(matches)' BY <1>1, <1>2, ReportingStays, TypeParts DEF TInv
<1>6. Phases'
  <2>1. matches = {} /\ hits = {} BY <1>1, <1>2 DEF TInv, Phases
  <2>2. Usable # {} => Needles # {} BY DEF Needles
  <2>3. scan'.keyring = scan.keyring BY <1>2
  <2>4. Needles' = Needles BY <2>3, SameKeyring
  <2>5. QED BY <1>2, <2>1, <2>2, <2>4 DEF Phases
<1>7. OfPeriod' BY <1>1, <1>2 DEF TInv, OfPeriod, Targets
<1>8. TypeOK'
  <2>1. TypeOK' <=> Basics' /\ MatchesOK(matches)' /\ Reporting'
    BY DEF TypeOK, Basics, MatchesOK, LeakOK, Reporting
  <2>2. QED BY <1>4, <1>5, <2>1
<1>9. QED BY <1>3, <1>6, <1>7, <1>8 DEF TInv

(* The pieces of TInv after a step, put together.                             *)
LEMMA TypesTogether ==
  ASSUME Typed', Basics', MatchesOK(matches)', Reporting', Phases', OfPeriod'
  PROVE  TInv'
<1>1. TypeOK' BY DEF TypeOK, Basics, MatchesOK, LeakOK, Reporting
<1>2. QED BY <1>1 DEF TInv

LEMMA TypesStartFails == TInv /\ StartFails => TInv'
<1>1. SUFFICES ASSUME TInv, StartFails PROVE TInv'
  OBVIOUS
<1>2. /\ pc' = "failed" /\ writes < MaxWrites /\ writes' = writes + 1
      /\ UNCHANGED <<scan, cells, synced, tables, rows, todo, reader, matches, leaks, common,
                     hits, seen>>
      /\ \E f \in Files : file' = [file EXCEPT ![f] = <<>>]
  BY <1>1 DEF StartFails, found, inspected, Targets
<1>3. Typed /\ Basics /\ MatchesOK(matches) /\ Reporting /\ Phases /\ OfPeriod
  BY <1>1, TypeParts DEF TInv
<1>4. file' \in [Files -> Seq(LinesOf)]
  <2>1. <<>> \in Seq(LinesOf) OBVIOUS
  <2>2. QED BY <1>2, <1>3, <2>1 DEF Typed
<1>5. Typed' BY <1>2, <1>3, <1>4 DEF Typed
<1>6. Basics'
  <2>1. writes' \in 0..MaxWrites BY <1>2, <1>3, NumbersAssumption DEF Basics
  <2>2. QED BY <1>2, <1>3, <2>1 DEF Basics
<1>7. MatchesOK(matches)' /\ Reporting' BY <1>2, <1>3, ReportingStays
<1>8. Phases' BY <1>2, <1>3 DEF Phases
<1>9. OfPeriod' BY <1>2, <1>3 DEF OfPeriod
<1>10. QED BY <1>5, <1>6, <1>7, <1>8, <1>9, TypesTogether

LEMMA TypesGrep == ASSUME NEW p \in Paths PROVE TInv /\ Grep(p) => TInv'
<1>1. SUFFICES ASSUME TInv, Grep(p) PROVE TInv'
  OBVIOUS
<1>2. /\ pc = "match" /\ p \in todo /\ matches' = matches \cup Grepped(p)
      /\ seen' = [seen EXCEPT ![p] = RawBytes(p)] /\ todo' = todo \ {p}
      /\ UNCHANGED <<scan, file, cells, synced, writes, tables, rows, pc, reader, leaks, common, hits>>
  BY <1>1 DEF Grep, Grepped, GrepFor, Printed, NonZero, stores, found, inspected
<1>3. Typed /\ TypeOK /\ Basics /\ Reporting /\ Phases /\ OfPeriod BY <1>1, TypeParts DEF TInv
<1>4. Typed' BY <1>2, <1>3 DEF Typed
<1>5. Basics'
  <2>1. RawBytes(p) \in Seq(Bytes) BY <1>3, RawIs
  <2>2. QED BY <1>2, <1>3, <2>1 DEF Basics
<1>6. scan'.keyring = scan.keyring BY <1>2
<1>7. Usable' = Usable /\ Needles' = Needles BY <1>6, SameKeyring
<1>8. /\ MatchesOK(matches \cup Grepped(p))
      /\ \A m \in matches' : m.path = p \/ m \in matches
  <2>1. \A m \in matches : m.path # p BY <1>2, <1>3 DEF Phases
  <2>2. QED BY <1>2, <1>3, <2>1, GreppedOK
<1>9. MatchesOK(matches)' BY <1>2, <1>7, <1>8 DEF MatchesOK
<1>10. Reporting'
  <2>1. hits' = {} BY <1>2, <1>3 DEF Phases
  <2>2. common' \subseteq Needles' /\ \A k \in leaks' : LeakOK(k)'
    BY <1>2, <1>3, <1>7 DEF Reporting, LeakOK
  <2>3. QED BY <2>1, <2>2 DEF Reporting
<1>11. Phases' BY <1>2, <1>3, <1>7, <1>8 DEF Phases
<1>12. OfPeriod' BY <1>2, <1>3, <1>8 DEF OfPeriod
<1>13. QED BY <1>4, <1>5, <1>9, <1>10, <1>11, <1>12, TypesTogether

LEMMA TypesGrepFails == TInv /\ GrepFails => TInv'
<1>1. SUFFICES ASSUME TInv, GrepFails PROVE TInv'
  OBVIOUS
<1>2. /\ pc = "match" /\ scan' = [scan EXCEPT !.useGrep = FALSE] /\ matches' = {}
      /\ todo' = Targets /\ seen' = [q \in Paths |-> <<>>]
      /\ UNCHANGED <<file, cells, synced, writes, tables, rows, pc, reader, leaks, common, hits>>
  BY <1>1 DEF GrepFails, stores, found, inspected
<1>3. Typed /\ TypeOK /\ Basics /\ Reporting /\ Phases /\ OfPeriod BY <1>1, TypeParts DEF TInv
<1>4. PICK s \in Scans, g \in BOOLEAN :
        scan = [keyring |-> s.keyring, useGrep |-> g, maxFiles |-> s.maxFiles,
                period |-> s.period, inPeriod |-> s.inPeriod]
  BY <1>3 DEF Typed
<1>5. scan' = [keyring |-> s.keyring, useGrep |-> FALSE, maxFiles |-> s.maxFiles,
               period |-> s.period, inPeriod |-> s.inPeriod]
  BY <1>2, <1>4
<1>6. /\ scan'.keyring = scan.keyring /\ scan'.inPeriod = scan.inPeriod
      /\ scan'.period = scan.period
  BY <1>4, <1>5
<1>7. Usable' = Usable /\ Needles' = Needles BY <1>6, SameKeyring
<1>8. Typed' BY <1>2, <1>3, <1>5 DEF Typed
<1>9. Basics' BY <1>2, <1>3 DEF Basics, Targets, Paths
<1>10. MatchesOK(matches)' BY <1>2 DEF MatchesOK
<1>11. Reporting'
  <2>1. hits' = {} BY <1>2, <1>3 DEF Phases
  <2>2. common' \subseteq Needles' /\ \A k \in leaks' : LeakOK(k)'
    BY <1>2, <1>3, <1>6, <1>7 DEF Reporting, LeakOK
  <2>3. QED BY <2>1, <2>2 DEF Reporting
<1>12. Phases' BY <1>2, <1>3, <1>7 DEF Phases
<1>13. OfPeriod' BY <1>2, <1>3, <1>6 DEF OfPeriod, Targets
<1>14. QED BY <1>8, <1>9, <1>10, <1>11, <1>12, <1>13, TypesTogether

LEMMA TypesReadFile == ASSUME NEW p \in Paths PROVE TInv /\ ReadFile(p) => TInv'
<1>1. SUFFICES ASSUME TInv, ReadFile(p) PROVE TInv'
  OBVIOUS
<1>2. /\ pc = "match" /\ p \in todo /\ todo' = todo \ {p}
      /\ UNCHANGED <<scan, file, cells, synced, writes, tables, rows, leaks, common, hits>>
  BY <1>1 DEF ReadFile, stores, found, inspected
<1>3. Typed /\ TypeOK /\ Basics /\ MatchesOK(matches) /\ Reporting /\ Phases /\ OfPeriod
  BY <1>1, TypeParts DEF TInv
<1>4. Typed' BY <1>2, <1>3 DEF Typed
<1>5. scan'.keyring = scan.keyring BY <1>2
<1>6. Usable' = Usable /\ Needles' = Needles BY <1>5, SameKeyring
<1>7. RawBytes(p) \in Seq(Bytes) BY <1>3, RawIs
<1>8. Reporting'
  <2>1. hits' = {} BY <1>2, <1>3 DEF Phases
  <2>2. common' \subseteq Needles' /\ \A k \in leaks' : LeakOK(k)'
    BY <1>2, <1>3, <1>6 DEF Reporting, LeakOK
  <2>3. QED BY <2>1, <2>2 DEF Reporting
<1>9. CASE Len(RawBytes(p)) <= ReadChunk
  <2>1. /\ matches' = Counted(p, Decode(RawBytes(p)), 0) /\ UNCHANGED <<pc, reader>>
        /\ seen' = [seen EXCEPT ![p] = RawBytes(p)]
    BY <1>1, <1>9 DEF ReadFile
  <2>2. /\ MatchesOK(Counted(p, Decode(RawBytes(p)), 0))
        /\ \A m \in matches' : m.path = p \/ m \in matches
    <3>1. Len(Decode(RawBytes(p))) \in Nat BY <1>7, DecodeIs
    <3>2. QED BY <1>3, <2>1, <3>1, CountedOK
  <2>3. MatchesOK(matches)' BY <1>6, <2>1, <2>2 DEF MatchesOK
  <2>4. Basics' BY <1>2, <1>3, <1>7, <2>1 DEF Basics
  <2>5. Phases' BY <1>2, <1>3, <1>6, <2>1, <2>2 DEF Phases
  <2>6. OfPeriod' BY <1>2, <1>3, <2>1, <2>2 DEF OfPeriod
  <2>7. QED BY <1>4, <1>8, <2>3, <2>4, <2>5, <2>6, TypesTogether
<1>10. CASE ~(Len(RawBytes(p)) <= ReadChunk)
  <2>1. /\ reader' = [path |-> p, pos |-> 0, tail |-> <<>>] /\ pc' = "block"
        /\ UNCHANGED <<matches, seen>>
    BY <1>1, <1>10 DEF ReadFile
  <2>2. Basics' BY <1>2, <1>3, <2>1 DEF Basics, Spots
  <2>3. MatchesOK(matches)' BY <1>3, <1>6, <2>1 DEF MatchesOK
  <2>4. reader'.path = p BY <2>1
  <2>5. Phases' BY <1>2, <1>3, <1>6, <2>1, <2>4 DEF Phases
  <2>6. OfPeriod' BY <1>2, <1>3, <2>1, <2>4 DEF OfPeriod
  <2>7. QED BY <1>4, <1>8, <2>2, <2>3, <2>5, <2>6, TypesTogether
<1>11. QED BY <1>9, <1>10

(* The next block, and what is kept of it for the one after.                  *)
Left == Len(RawBytes(reader.path)) - reader.pos
Block ==
  SubSeq(RawBytes(reader.path), reader.pos + 1,
         reader.pos + (IF Left < ReadChunk THEN Left ELSE ReadChunk))
TailOf(block) ==
  SubSeq(block, (IF Len(block) < Overlap THEN 0 ELSE Len(block) - Overlap) + 1, Len(block))

LEMMA BlockIs ==
  ASSUME TypeOK, Typed, Left > 0
  PROVE  /\ Block \in Seq(Bytes) /\ reader.path \in Paths /\ reader.tail \in Seq(Bytes)
         /\ Left \in Nat /\ reader.pos \in Nat
         /\ Len(Block) = IF Left < ReadChunk THEN Left ELSE ReadChunk
         /\ \A i \in 1..Len(Block) : Block[i] = RawBytes(reader.path)[reader.pos + i]
<1>1. reader.path \in Paths /\ reader.pos \in Nat /\ reader.tail \in Seq(Bytes)
  BY DEF TypeOK, Spots
<1> DEFINE raw == RawBytes(reader.path)
           pos == reader.pos
           m == IF Left < ReadChunk THEN Left ELSE ReadChunk
<1>2. raw \in Seq(Bytes) /\ Len(raw) \in Nat BY <1>1, RawIs
<1>3. Left = Len(raw) - pos BY DEF Left
<1>4. Block = SubSeq(raw, pos + 1, pos + m) BY DEF Block
<1>5. Left \in Nat /\ m \in Nat /\ m <= Left
  <2> HIDE DEF raw
  <2>1. Left \in Nat BY <1>1, <1>2, <1>3
  <2>2. QED BY <2>1, NumbersAssumption
<1> HIDE DEF raw, pos, m
<1>6. pos \in Nat BY <1>1 DEF pos
<1>7. pos + m <= Len(raw) /\ pos + 1 \in 1..Len(raw) + 1 /\ pos + m \in pos..Len(raw)
  BY <1>2, <1>3, <1>5, <1>6
<1>8. /\ SubSeq(raw, pos + 1, pos + m) \in Seq(Bytes) /\ Len(SubSeq(raw, pos + 1, pos + m)) = m
      /\ \A i \in 1..m : SubSeq(raw, pos + 1, pos + m)[i] = raw[pos + i]
  BY <1>2, <1>5, <1>6, <1>7
<1>9. QED BY <1>1, <1>4, <1>5, <1>8 DEF raw, pos, m

LEMMA TailIs ==
  ASSUME NEW block \in Seq(Bytes), Overlap \in Nat
  PROVE  /\ TailOf(block) \in Seq(Bytes)
         /\ Len(TailOf(block)) = IF Len(block) < Overlap THEN Len(block) ELSE Overlap
         /\ \A i \in 1..Len(TailOf(block)) :
              TailOf(block)[i] = block[Len(block) - Len(TailOf(block)) + i]
<1> DEFINE n == Len(block)
           t == IF n < Overlap THEN n ELSE Overlap
           cut == IF n < Overlap THEN 0 ELSE n - Overlap
<1>1. n \in Nat /\ cut \in 0..n /\ n - cut = t /\ t \in 0..n OBVIOUS
<1>2. TailOf(block) = SubSeq(block, cut + 1, n) BY DEF TailOf
<1> HIDE DEF t, cut
<1>3. /\ SubSeq(block, cut + 1, n) \in Seq(Bytes) /\ Len(SubSeq(block, cut + 1, n)) = n - cut
      /\ \A i \in 1..n - cut : SubSeq(block, cut + 1, n)[i] = block[cut + i]
  BY <1>1
<1>4. cut = n - t BY <1>1
<1>5. QED BY <1>1, <1>2, <1>3, <1>4 DEF t

LEMMA ReadBlockIs ==
  ASSUME ReadBlock
  PROVE  /\ pc = "block"
         /\ UNCHANGED <<scan, file, cells, synced, writes, tables, rows, todo, leaks, common, hits>>
         /\ IF Left <= 0
            THEN pc' = "match" /\ UNCHANGED <<reader, matches, seen>>
            ELSE /\ matches' = Counted(reader.path, Decode(reader.tail) \o Decode(Block),
                                       Len(Decode(reader.tail)))
                 /\ reader' = [reader EXCEPT !.pos = reader.pos + Len(Block),
                                             !.tail = TailOf(Block)]
                 /\ seen' = [seen EXCEPT ![reader.path] = seen[reader.path] \o Block]
                 /\ UNCHANGED pc
BY DEF ReadBlock, Left, Block, TailOf, stores, found, inspected

LEMMA TypesReadBlock == TInv /\ ReadBlock => TInv'
<1>1. SUFFICES ASSUME TInv, ReadBlock PROVE TInv'
  OBVIOUS
<1>2. /\ pc = "block"
      /\ UNCHANGED <<scan, file, cells, synced, writes, tables, rows, todo, leaks, common, hits>>
  BY <1>1, ReadBlockIs
<1>3. Typed /\ TypeOK /\ Basics /\ MatchesOK(matches) /\ Reporting /\ Phases /\ OfPeriod
  BY <1>1, TypeParts DEF TInv
<1>4. Typed' BY <1>2, <1>3 DEF Typed
<1>5. scan'.keyring = scan.keyring BY <1>2
<1>6. Usable' = Usable /\ Needles' = Needles BY <1>5, SameKeyring
<1>7. Reporting'
  <2>1. hits' = {} BY <1>2, <1>3 DEF Phases
  <2>2. common' \subseteq Needles' /\ \A k \in leaks' : LeakOK(k)'
    BY <1>2, <1>3, <1>6 DEF Reporting, LeakOK
  <2>3. QED BY <2>1, <2>2 DEF Reporting
<1>8. CASE Left <= 0
  <2>1. pc' = "match" /\ UNCHANGED <<reader, matches, seen>> BY <1>1, <1>8, ReadBlockIs
  <2>2. Basics' /\ MatchesOK(matches)' BY <1>2, <1>3, <1>6, <2>1 DEF Basics, MatchesOK
  <2>3. Phases' BY <1>2, <1>3, <1>6, <2>1 DEF Phases
  <2>4. OfPeriod' BY <1>2, <1>3, <2>1 DEF OfPeriod
  <2>5. QED BY <1>4, <1>7, <2>2, <2>3, <2>4, TypesTogether
<1>9. CASE ~(Left <= 0)
  <2> DEFINE p == reader.path
             prefix == Decode(reader.tail)
             text == prefix \o Decode(Block)
  <2>1. /\ matches' = Counted(p, text, Len(prefix)) /\ pc' = pc
        /\ reader' = [reader EXCEPT !.pos = reader.pos + Len(Block), !.tail = TailOf(Block)]
        /\ seen' = [seen EXCEPT ![p] = seen[p] \o Block]
    BY <1>1, <1>9, ReadBlockIs
  <2>2. Left > 0
    <3>1. reader.path \in Paths /\ reader.pos \in Nat BY <1>3 DEF TypeOK, Spots
    <3>2. Len(RawBytes(reader.path)) \in Nat BY <1>3, <3>1, RawIs
    <3>3. Left \in Int BY <3>1, <3>2 DEF Left
    <3>4. QED BY <1>9, <3>3
  <2>3. /\ Block \in Seq(Bytes) /\ p \in Paths /\ reader.tail \in Seq(Bytes)
        /\ reader.pos \in Nat
    BY <1>3, <2>2, BlockIs
  <2>4. prefix \in Seq(Chars) /\ Decode(Block) \in Seq(Chars) BY <2>3, DecodeIs
  <2>5. Len(text) \in Nat /\ Len(prefix) \in Nat
    <3> DEFINE d == Decode(Block)
    <3> HIDE DEF prefix, d
    <3>1. Len(prefix \o d) \in Nat /\ Len(prefix) \in Nat BY <2>4 DEF d
    <3>2. QED BY <3>1 DEF prefix, d
  <2> HIDE DEF text, prefix
  <2>6. MatchesOK(Counted(p, text, Len(prefix))) /\ \A m \in matches' : m.path = p \/ m \in matches
    BY <1>3, <2>1, <2>3, <2>5, CountedOK
  <2>7. MatchesOK(matches)' BY <1>6, <2>1, <2>6 DEF MatchesOK
  <2>8. TailOf(Block) \in Seq(Bytes)
    <3>1. Overlap \in Nat BY <1>2, <1>3, TypedFacts, NeedlesAre DEF Phases
    <3>2. QED BY <2>3, <3>1, TailIs
  <2>9. reader' \in Spots /\ reader'.path = p
    <3> DEFINE n == reader.pos + Len(Block)
               t == TailOf(Block)
    <3>1. n \in Nat BY <2>3
    <3>2. reader \in [path : Paths, pos : Nat, tail : Seq(Bytes)] BY <1>3 DEF Basics, Spots
    <3>3. reader' = [reader EXCEPT !.pos = n, !.tail = t] /\ t \in Seq(Bytes) BY <2>1, <2>8
    <3> HIDE DEF n, t
    <3>4. reader' = [path |-> reader.path, pos |-> n, tail |-> t] BY <3>2, <3>3
    <3>5. QED BY <3>1, <3>2, <3>3, <3>4 DEF Spots
  <2>10. seen' \in [Paths -> Seq(Bytes)]
    <3>1. seen[p] \in Seq(Bytes) BY <1>3, <2>3 DEF Basics
    <3>2. seen[p] \o Block \in Seq(Bytes) BY <2>3, <3>1
    <3>3. QED BY <1>3, <2>1, <3>2 DEF Basics
  <2>11. Basics' BY <1>2, <1>3, <2>1, <2>9, <2>10 DEF Basics
  <2>12. Phases' BY <1>2, <1>3, <1>6, <2>1, <2>6, <2>9 DEF Phases
  <2>13. OfPeriod' BY <1>2, <1>3, <2>6, <2>9 DEF OfPeriod
  <2>14. QED BY <1>4, <1>7, <2>7, <2>11, <2>12, <2>13, TypesTogether
<1>10. QED BY <1>8, <1>9

LEMMA TypesLocated == TInv /\ Located => TInv'
<1>1. SUFFICES ASSUME TInv, Located PROVE TInv'
  OBVIOUS
<1>2. /\ pc = "match" /\ todo = {} /\ pc' = "report" /\ hits' = matches
      /\ UNCHANGED <<scan, file, cells, synced, writes, tables, rows, todo, reader, matches, leaks,
                     common, seen>>
  BY <1>1 DEF Located, stores, inspected
<1>3. Typed /\ Basics /\ MatchesOK(matches) /\ Reporting /\ Phases /\ OfPeriod
  BY <1>1, TypeParts DEF TInv
<1>4. scan'.keyring = scan.keyring BY <1>2
<1>5. Usable' = Usable /\ Needles' = Needles BY <1>4, SameKeyring
<1>6. Typed' /\ Basics' BY <1>2, <1>3 DEF Typed, Basics
<1>7. MatchesOK(matches)' /\ Reporting' BY <1>2, <1>3, <1>5 DEF MatchesOK, Reporting, LeakOK
<1>8. Phases' BY <1>2, <1>3, <1>5 DEF Phases
<1>9. OfPeriod' BY <1>2, <1>3 DEF OfPeriod
<1>10. QED BY <1>6, <1>7, <1>8, <1>9, TypesTogether

LEMMA TypesFinish == TInv /\ Finish => TInv'
<1>1. SUFFICES ASSUME TInv, Finish PROVE TInv'
  OBVIOUS
<1>2. /\ pc' = "done"
      /\ UNCHANGED <<scan, file, cells, synced, writes, tables, rows, todo, reader, matches, leaks,
                     common, hits, seen>>
  BY <1>1 DEF Finish, stores, found, inspected
<1>3. Typed /\ Basics /\ MatchesOK(matches) /\ Reporting /\ Phases /\ OfPeriod
  BY <1>1, TypeParts DEF TInv
<1>4. Typed' /\ Basics' BY <1>2, <1>3 DEF Typed, Basics
<1>5. MatchesOK(matches)' /\ Reporting' BY <1>2, <1>3, ReportingStays
<1>6. Phases' BY <1>2, <1>3 DEF Phases
<1>7. OfPeriod' BY <1>2, <1>3 DEF OfPeriod
<1>8. QED BY <1>4, <1>5, <1>6, <1>7, TypesTogether

(* Both reports leave leaks that are of the right form.                       *)
LEMMA LeakFacts ==
  ASSUME NEW m, m.needle \in Needles, m.path \in Paths, NEW record, NEW step,
         NEW count \in Nat \ {0}, scan.period => record \in scan.inPeriod
  PROVE  LeakOK(Leak(m, record, step, count))
<1>1. LabelsOf(m.needle) \subseteq Usable /\ LabelsOf(m.needle) # {} BY DEF LabelsOf, Needles
<1>2. QED BY <1>1 DEF LeakOK, Leak

LEMMA FileLeaks ==
  ASSUME TypeOK, Typed, NEW m \in matches, m.path # Database, Owner[m.path] \in scan.inPeriod
  PROVE  \A k \in LeaksForFile(m) : LeakOK(k)
<1> DEFINE record == Owner[m.path]
           log == IF record \in Files THEN file[record] ELSE <<>>
           text(i) == Decode(log[i].bytes)
           steps == {i \in DOMAIN log : log[i].step /\ Holds(text(i), m.needle)}
<1>1. m.needle \in Needles /\ m.path \in Paths /\ m.count \in Nat \ {0} BY DEF TypeOK
<1>2. Len(m.needle) \in Nat \ {0}
  <2>1. Words(Needles) BY TypedFacts, NeedlesAre
  <2>2. QED BY <1>1, <2>1 DEF Words
<1>3. log \in Seq(LinesOf) BY DEF Typed
<1>4. ASSUME NEW i \in steps PROVE Count(text(i), m.needle, 0) \in Nat \ {0}
  <2>1. log[i] \in LinesOf /\ Holds(text(i), m.needle) BY <1>3
  <2>2. log[i].bytes \in Seq(Bytes) BY <2>1 DEF LinesOf
  <2> HIDE DEF log
  <2>3. Len(text(i)) \in Nat BY <2>2, DecodeIs
  <2> HIDE DEF text
  <2>4. Count(text(i), m.needle, 0) \in Nat /\ Count(text(i), m.needle, 0) > 0
    BY <1>2, <2>1, <2>3, HoldsCount
  <2>5. QED BY <2>4
<1>5. LeaksForFile(m) = IF steps = {} THEN {Leak(m, record, 0, m.count)}
                        ELSE {Leak(m, record, i, Count(text(i), m.needle, 0)) : i \in steps}
  BY DEF LeaksForFile
<1> HIDE DEF steps, text, log
<1>6. LeakOK(Leak(m, record, 0, m.count)) BY <1>1, LeakFacts
<1>7. ASSUME NEW i \in steps PROVE LeakOK(Leak(m, record, i, Count(text(i), m.needle, 0)))
  <2> DEFINE c == Count(text(i), m.needle, 0)
  <2>1. c \in Nat \ {0} BY <1>4
  <2> HIDE DEF c
  <2>2. LeakOK(Leak(m, record, i, c)) BY <1>1, <2>1, LeakFacts
  <2>3. QED BY <2>2 DEF c
<1>8. QED BY <1>5, <1>6, <1>7

LEMMA StoreLeaks ==
  ASSUME TypeOK, Typed, NEW m \in matches, NEW k \in LeaksForStore(m),
         scan.period => k.record \in scan.inPeriod
  PROVE  LeakOK(k)
<1>1. m.needle \in Needles /\ m.path \in Paths BY DEF TypeOK
<1>2. Len(m.needle) \in Nat \ {0}
  <2>1. Words(Needles) BY TypedFacts, NeedlesAre
  <2>2. QED BY <1>1, <2>1 DEF Words
<1>3. PICK i \in rows : /\ Holds(Decode(cells[i].bytes), m.needle)
                        /\ k = Leak(m, SessionOf(cells[i]), 0,
                                    Total(m.needle, SessionOf(cells[i])))
  BY DEF LeaksForStore
<1> DEFINE s == SessionOf(cells[i])
           t == Total(m.needle, s)
<1>4. t \in Nat \ {0}
  <2>1. i \in 1..Len(cells) BY DEF TypeOK
  <2>2. t \in Nat /\ t > 0 BY <1>2, <1>3, <2>1, TypedFacts, TotalFacts
  <2>3. QED BY <2>2
<1> HIDE DEF t, s
<1>5. k = Leak(m, s, 0, t) BY <1>3 DEF s, t
<1>6. k.record = s BY <1>5 DEF Leak
<1>7. QED BY <1>1, <1>4, <1>5, <1>6, LeakFacts

LEMMA TypesReport == ASSUME NEW m \in hits PROVE TInv /\ Report(m) => TInv'
<1>1. SUFFICES ASSUME TInv, Report(m) PROVE TInv'
  OBVIOUS
<1>2. /\ pc = "report" /\ m.path # Database /\ hits' = hits \ {m}
      /\ IF TooCommon(m.needle) THEN common' = common \cup {m.needle} /\ leaks' = leaks
         ELSE leaks' = leaks \cup LeaksForFile(m) /\ common' = common
      /\ UNCHANGED <<scan, file, cells, synced, writes, tables, rows, pc, todo, reader, matches, seen>>
  BY <1>1 DEF Report, stores, inspected
<1>3. Typed /\ TypeOK /\ Basics /\ MatchesOK(matches) /\ Reporting /\ Phases /\ OfPeriod
  BY <1>1, TypeParts DEF TInv
<1>4. scan'.keyring = scan.keyring BY <1>2
<1>5. Usable' = Usable /\ Needles' = Needles BY <1>4, SameKeyring
<1>6. Typed' /\ Basics' BY <1>2, <1>3 DEF Typed, Basics
<1>7. m \in matches /\ m.needle \in Needles /\ Owner[m.path] \in scan.inPeriod
  BY <1>2, <1>3 DEF Reporting, MatchesOK, OfPeriod
<1>8. \A k \in LeaksForFile(m) : LeakOK(k) BY <1>2, <1>3, <1>7, FileLeaks
<1>9. \A k \in leaks' : LeakOK(k) BY <1>2, <1>3, <1>8 DEF Reporting
<1>10. Reporting'
  <2>1. \A k \in leaks' : LeakOK(k)' BY <1>2, <1>5, <1>9 DEF LeakOK
  <2>2. hits' \subseteq matches' /\ common' \subseteq Needles'
    BY <1>2, <1>3, <1>5, <1>7 DEF Reporting
  <2>3. QED BY <2>1, <2>2 DEF Reporting
<1>11. MatchesOK(matches)' BY <1>2, <1>3, <1>5 DEF MatchesOK
<1>12. Phases' BY <1>2, <1>3, <1>5 DEF Phases
<1>13. OfPeriod' BY <1>2, <1>3 DEF OfPeriod
<1>14. QED BY <1>6, <1>10, <1>11, <1>12, <1>13, TypesTogether

LEMMA TypesOpenStore == TInv /\ OpenStore => TInv'
<1>1. SUFFICES ASSUME TInv, OpenStore PROVE TInv'
  OBVIOUS
<1>2. /\ pc = "report" /\ pc' \in {"tables", "failed"} /\ tables' \in {tables, Tables, {}}
      /\ UNCHANGED <<scan, file, cells, synced, writes, rows, todo, reader, matches, leaks,
                     common, hits, seen>>
  BY <1>1 DEF OpenStore, stores, found
<1>3. Typed /\ Basics /\ MatchesOK(matches) /\ Reporting /\ Phases /\ OfPeriod
  BY <1>1, TypeParts DEF TInv
<1>4. scan'.keyring = scan.keyring BY <1>2
<1>5. Needles' = Needles BY <1>4, SameKeyring
<1>6. Typed' /\ Basics' BY <1>2, <1>3 DEF Typed, Basics
<1>7. MatchesOK(matches)' /\ Reporting' BY <1>2, <1>3, ReportingStays
<1>8. Phases' BY <1>2, <1>3, <1>5 DEF Phases
<1>9. OfPeriod' BY <1>2, <1>3 DEF OfPeriod
<1>10. QED BY <1>6, <1>7, <1>8, <1>9, TypesTogether

LEMMA TypesReadTable == ASSUME NEW table \in Tables PROVE TInv /\ ReadTable(table) => TInv'
<1>1. SUFFICES ASSUME TInv, ReadTable(table) PROVE TInv'
  OBVIOUS
<1>2. /\ tables' = tables \ {table} /\ \E n \in 0..Len(cells) : rows' = rows \cup Fetched(table, n)
      /\ UNCHANGED <<scan, file, cells, synced, writes, pc, todo, reader, matches, leaks,
                     common, hits, seen>>
  BY <1>1 DEF ReadTable, stores, found
<1>3. Typed /\ Basics /\ MatchesOK(matches) /\ Reporting /\ Phases /\ OfPeriod
  BY <1>1, TypeParts DEF TInv
<1>4. scan'.keyring = scan.keyring BY <1>2
<1>5. Needles' = Needles BY <1>4, SameKeyring
<1>6. Typed' BY <1>2, <1>3 DEF Typed
<1>7. Basics'
  <2>1. DOMAIN cells = 1..Len(cells) BY <1>3 DEF Typed
  <2>2. \A n : Fetched(table, n) \subseteq 1..Len(cells) BY <2>1 DEF Fetched
  <2>3. rows' \subseteq 1..Len(cells') /\ tables' \subseteq Tables BY <1>2, <1>3, <2>2 DEF Basics
  <2>4. QED BY <1>2, <1>3, <2>3 DEF Basics
<1>8. MatchesOK(matches)' /\ Reporting' BY <1>2, <1>3, ReportingStays
<1>9. Phases' BY <1>2, <1>3, <1>5 DEF Phases
<1>10. OfPeriod' BY <1>2, <1>3 DEF OfPeriod
<1>11. QED BY <1>6, <1>7, <1>8, <1>9, <1>10, TypesTogether

LEMMA TypesReportStore == TInv /\ ReportStore => TInv'
<1>1. SUFFICES ASSUME TInv, ReportStore PROVE TInv'
  OBVIOUS
<1>2. /\ pc = "tables" /\ pc' = "report" /\ hits' = {}
      /\ common' = common \cup {m.needle : m \in hits \ Present}
      /\ leaks' = leaks \cup {k \in UNION {LeaksForStore(m) : m \in Present} :
                                scan.period => k.record \in scan.inPeriod}
      /\ UNCHANGED <<scan, file, cells, synced, writes, tables, rows, todo, reader, matches, seen>>
  BY <1>1 DEF ReportStore, stores, inspected
<1>3. Typed /\ TypeOK /\ Basics /\ MatchesOK(matches) /\ Reporting /\ Phases /\ OfPeriod
  BY <1>1, TypeParts DEF TInv
<1>4. scan'.keyring = scan.keyring BY <1>2
<1>5. Usable' = Usable /\ Needles' = Needles BY <1>4, SameKeyring
<1>6. Typed' /\ Basics' BY <1>2, <1>3 DEF Typed, Basics
<1>7. \A m \in hits : m \in matches /\ m.needle \in Needles BY <1>3 DEF Reporting, MatchesOK
<1>8. \A k \in leaks' : LeakOK(k)
  <2>1. SUFFICES ASSUME NEW k \in leaks', k \notin leaks PROVE LeakOK(k)
    BY <1>3 DEF Reporting
  <2>2. PICK m \in Present : k \in LeaksForStore(m) /\ (scan.period => k.record \in scan.inPeriod)
    BY <1>2, <2>1
  <2>3. m \in matches BY <1>7, <2>2 DEF Present
  <2>4. QED BY <1>3, <2>2, <2>3, StoreLeaks
<1>9. Reporting'
  <2>1. \A k \in leaks' : LeakOK(k)' BY <1>2, <1>5, <1>8 DEF LeakOK
  <2>2. hits' \subseteq matches' /\ common' \subseteq Needles'
    BY <1>2, <1>3, <1>5, <1>7 DEF Reporting
  <2>3. QED BY <2>1, <2>2 DEF Reporting
<1>10. MatchesOK(matches)' BY <1>2, <1>3, <1>5 DEF MatchesOK
<1>11. Phases' BY <1>2, <1>3, <1>5 DEF Phases
<1>12. OfPeriod' BY <1>2, <1>3 DEF OfPeriod
<1>13. QED BY <1>6, <1>9, <1>10, <1>11, <1>12, TypesTogether

(* What the agents write.                                                     *)
Stored ==
  /\ Typed /\ synced \in 0..Len(cells) /\ writes \in 0..MaxWrites
  /\ rows \subseteq 1..Len(cells)

LEMMA StoredAfter ==
  ASSUME Stored, Agents, UNCHANGED <<scan, rows>>
  PROVE  Stored'
<1>1. /\ writes \in Nat /\ MaxWrites \in Nat /\ cells \in Seq(AllCells)
      /\ file \in [Files -> Seq(LinesOf)] /\ Len(cells) \in Nat
  BY NumbersAssumption DEF Stored, Typed
<1>2. ASSUME NEW f \in Files, Delete(f) PROVE Stored'
  <2>1. /\ file' = [file EXCEPT ![f] = <<>>] /\ writes < MaxWrites /\ writes' = writes + 1
        /\ UNCHANGED <<cells, synced>>
    BY <1>2 DEF Delete, Writing
  <2>2. file' \in [Files -> Seq(LinesOf)]
    <3>1. <<>> \in Seq(LinesOf) OBVIOUS
    <3>2. QED BY <1>1, <2>1, <3>1
  <2>3. QED BY <1>1, <2>1, <2>2 DEF Stored, Typed
<1>3. ASSUME NEW f \in Files, NEW line \in Lines, AppendLine(f, line) PROVE Stored'
  <2>1. /\ file' = [file EXCEPT ![f] = Append(file[f], line)] /\ writes < MaxWrites
        /\ writes' = writes + 1 /\ UNCHANGED <<cells, synced>>
    BY <1>3 DEF AppendLine, Writing
  <2>2. file' \in [Files -> Seq(LinesOf)]
    <3>1. line \in LinesOf /\ file[f] \in Seq(LinesOf) BY <1>1, WritesAssumption
    <3>2. Append(file[f], line) \in Seq(LinesOf) BY <3>1
    <3>3. QED BY <1>1, <2>1, <3>2
  <2>3. QED BY <1>1, <2>1, <2>2 DEF Stored, Typed
<1>4. ASSUME NEW cell \in Cells, InsertCell(cell) PROVE Stored'
  <2>1. /\ cells' = Append(cells, cell) /\ writes < MaxWrites /\ writes' = writes + 1
        /\ UNCHANGED <<file, synced>>
    BY <1>4 DEF InsertCell, Writing
  <2>2. cell \in AllCells BY DEF AllCells
  <2>3. cells' \in Seq(AllCells) /\ Len(cells') = Len(cells) + 1 BY <1>1, <2>1, <2>2
  <2>4. QED BY <1>1, <2>1, <2>3 DEF Stored, Typed
<1>5. ASSUME Checkpoint PROVE Stored'
  <2>1. synced' = Len(cells) /\ UNCHANGED <<file, cells, writes>> BY <1>5 DEF Checkpoint
  <2>2. QED BY <1>1, <2>1 DEF Stored, Typed
<1>6. QED BY <1>2, <1>3, <1>4, <1>5 DEF Agents

LEMMA AgentsElsewhere ==
  Agents => /\ UNCHANGED <<scan, pc, todo, reader, matches, leaks, common, hits, tables, rows, seen>>
            /\ pc # "done"
BY DEF Agents, Delete, AppendLine, InsertCell, Checkpoint, Elsewhere, Writing, Over, found, inspected

LEMMA TypesAgents == TInv /\ Agents => TInv'
<1>1. SUFFICES ASSUME TInv, Agents PROVE TInv'
  OBVIOUS
<1>2. UNCHANGED <<scan, pc, todo, reader, matches, leaks, common, hits, tables, rows, seen>>
  BY <1>1, AgentsElsewhere
<1>3. Typed /\ Basics /\ MatchesOK(matches) /\ Reporting /\ Phases /\ OfPeriod
  BY <1>1, TypeParts DEF TInv
<1>4. Stored' BY <1>1, <1>2, <1>3, StoredAfter DEF Stored, Basics
<1>5. Typed' /\ Basics' BY <1>2, <1>3, <1>4 DEF Stored, Basics
<1>6. MatchesOK(matches)' /\ Reporting' BY <1>2, <1>3, ReportingStays
<1>7. Phases' BY <1>2, <1>3, <1>6 DEF Phases, Needles, Usable
<1>8. OfPeriod' BY <1>2, <1>3 DEF OfPeriod
<1>9. QED BY <1>5, <1>6, <1>7, <1>8, TypesTogether

LEMMA TypesStutter == TInv /\ UNCHANGED vars => TInv'
<1>1. SUFFICES ASSUME TInv, UNCHANGED vars PROVE TInv'
  OBVIOUS
<1>2. UNCHANGED <<scan, file, cells, synced, pc, todo, reader, matches, hits, tables, rows,
                  leaks, common, seen, writes>>
  BY <1>1 DEF vars
<1>3. Typed /\ Basics /\ MatchesOK(matches) /\ Reporting /\ Phases /\ OfPeriod
  BY <1>1, TypeParts DEF TInv
<1>4. Typed' /\ Basics' BY <1>2, <1>3 DEF Typed, Basics
<1>5. MatchesOK(matches)' /\ Reporting' BY <1>2, <1>3, ReportingStays
<1>6. Phases' BY <1>2, <1>3 DEF Phases, Needles, Usable
<1>7. OfPeriod' BY <1>2, <1>3 DEF OfPeriod
<1>8. QED BY <1>4, <1>5, <1>6, <1>7, TypesTogether

LEMMA TypesNext == TInv /\ [Next]_vars => TInv'
<1>1. SUFFICES ASSUME TInv, [Next]_vars PROVE TInv'
  OBVIOUS
<1>2. CASE Start BY <1>1, <1>2, TypesStart
<1>3. CASE GrepFails BY <1>1, <1>3, TypesGrepFails
<1>4. CASE ReadBlock BY <1>1, <1>4, TypesReadBlock
<1>5. CASE Located BY <1>1, <1>5, TypesLocated
<1>6. CASE Finish BY <1>1, <1>6, TypesFinish
<1>7. CASE \E p \in Paths : Grep(p) \/ ReadFile(p) BY <1>1, <1>7, TypesGrep, TypesReadFile
<1>8. CASE ReportStore BY <1>1, <1>8, TypesReportStore
<1>9. CASE \E m \in hits : Report(m) BY <1>1, <1>9, TypesReport
<1>10. CASE Agents BY <1>1, <1>10, TypesAgents
<1>11. CASE UNCHANGED vars BY <1>1, <1>11, TypesStutter
<1>12. CASE StartFails BY <1>1, <1>12, TypesStartFails
<1>13. CASE OpenStore BY <1>1, <1>13, TypesOpenStore
<1>14. CASE \E table \in Tables : ReadTable(table) BY <1>1, <1>14, TypesReadTable
<1>15. QED
  BY <1>1, <1>2, <1>3, <1>4, <1>5, <1>6, <1>7, <1>8, <1>9, <1>10, <1>11, <1>12, <1>13, <1>14
     DEF Next, Scan

(* The variables have their types: each count is positive, each leak has a    *)
(* label, and with a period it is of a session of the period.                 *)
THEOREM TypeCorrect == Spec => []TypeOK
<1>1. TInv => TypeOK BY DEF TInv
<1>2. QED BY <1>1, TypesInit, TypesNext, PTL DEF Spec

-----------------------------------------------------------------------------
(* A needle of one-byte characters is at the same places in a text and in the *)
(* bytes it is read from.                                                     *)

LEMMA ReadsConcat ==
  ASSUME NEW t1 \in Seq(Chars), NEW t2 \in Seq(Chars), NEW b1 \in Seq(Bytes),
         NEW b2 \in Seq(Bytes), NEW h1, NEW h2, Reads(t1, b1, h1), Reads(t2, b2, h2)
  PROVE  \E h : /\ Reads(t1 \o t2, b1 \o b2, h)
                /\ \A c \in 1..Len(t1 \o t2) : c <= Len(t1) <=> h[c] <= Len(b1)
<1> DEFINE k == Len(t1)
           m == Len(b1)
           text == t1 \o t2
           b == b1 \o b2
           h == [c \in 1..Len(text) |-> IF c <= k THEN h1[c] ELSE m + h2[c - k]]
<1>1. /\ k \in Nat /\ m \in Nat /\ Len(t2) \in Nat /\ Len(b2) \in Nat
      /\ Len(text) = k + Len(t2) /\ Len(b) = m + Len(b2)
      /\ \A c \in 1..k : text[c] = t1[c]
      /\ \A c \in 1..Len(t2) : text[k + c] = t2[c]
      /\ \A i \in 1..m : b[i] = b1[i]
      /\ \A i \in 1..Len(b2) : b[m + i] = b2[i]
  OBVIOUS
<1>2. /\ \A c \in 1..k : h1[c] \in 1..m
      /\ \A c \in 1..Len(t2) : h2[c] \in 1..Len(b2)
  BY DEF Reads
<1> HIDE DEF k, m, text, b
<1>2a. /\ k \in Nat /\ m \in Nat /\ Len(t2) \in Nat /\ Len(b2) \in Nat
       /\ Len(text) = k + Len(t2) /\ Len(b) = m + Len(b2)
  BY <1>1
<1>3. \A c \in 1..Len(text) :
        IF c <= k THEN c \in 1..k /\ h[c] = h1[c] /\ h[c] \in 1..m
        ELSE c - k \in 1..Len(t2) /\ h[c] = m + h2[c - k] /\ h[c] \in m + 1..m + Len(b2)
  <2>1. SUFFICES ASSUME NEW c \in 1..Len(text)
                 PROVE  IF c <= k THEN c \in 1..k /\ h[c] = h1[c] /\ h[c] \in 1..m
                        ELSE /\ c - k \in 1..Len(t2) /\ h[c] = m + h2[c - k]
                             /\ h[c] \in m + 1..m + Len(b2)
    BY Zenon
  <2>2. h[c] = IF c <= k THEN h1[c] ELSE m + h2[c - k] OBVIOUS
  <2> HIDE DEF h
  <2>3. CASE c <= k BY <1>1, <1>2, <2>2, <2>3
  <2>4. CASE ~(c <= k)
    <3>1. c - k \in 1..Len(t2) BY <1>2a, <2>4
    <3>2. h2[c - k] \in 1..Len(b2) BY <1>2, <3>1
    <3>3. h[c] = m + h2[c - k] BY <2>2, <2>4
    <3>4. QED BY <1>2a, <2>4, <3>1, <3>2, <3>3
  <2>5. QED BY <2>3, <2>4
<1>4. h \in [1..Len(text) -> 1..Len(b)] BY <1>1, <1>3
<1>5. ASSUME NEW c \in 1..Len(text), NEW d \in 1..Len(text), c < d PROVE h[c] < h[d]
  <2>1. CASE d <= k
    <3>1. c <= k BY <1>1, <1>5, <2>1
    <3> HIDE DEF h
    <3>2. c \in 1..k /\ d \in 1..k /\ h[c] = h1[c] /\ h[d] = h1[d] BY <1>3, <2>1, <3>1
    <3>3. h1[c] < h1[d] BY <1>5, <3>2 DEF Reads, k
    <3>4. QED BY <3>2, <3>3
  <2>2. CASE ~(d <= k) /\ c <= k
    <3> HIDE DEF h
    <3>1. h[c] \in 1..m /\ h[d] \in m + 1..m + Len(b2) BY <1>3, <2>2
    <3>2. QED BY <1>2a, <3>1
  <2>3. CASE ~(c <= k)
    <3> HIDE DEF h
    <3>1. ~(d <= k) /\ c - k < d - k BY <1>2a, <1>5, <2>3
    <3>2. h2[c - k] < h2[d - k] BY <1>3, <2>3, <3>1 DEF Reads
    <3>3. h2[c - k] \in Nat /\ h2[d - k] \in Nat BY <1>2, <1>3, <2>3, <3>1
    <3>4. h[c] = m + h2[c - k] /\ h[d] = m + h2[d - k] BY <1>3, <2>3, <3>1
    <3>5. \A x, y \in Nat : x < y => m + x < m + y BY <1>2a
    <3>6. QED BY <3>2, <3>3, <3>4, <3>5
  <2>4. QED BY <2>1, <2>2, <2>3
<1>6. ASSUME NEW i \in 1..Len(b)
      PROVE  Continues(b, i) \/ \E c \in 1..Len(text) : h[c] = i
  <2>1. CASE i \in 1..m
    <3>1. CASE Continues(b1, i)
      <4>1. i > 1 /\ i - 1 \in 1..m BY <1>1, <2>1, <3>1 DEF Continues
      <4>2. QED BY <1>1, <2>1, <3>1, <4>1 DEF Continues
    <3>2. CASE \E c \in 1..k : h1[c] = i
      <4>1. PICK c \in 1..k : h1[c] = i BY <3>2
      <4>2. c \in 1..Len(text) /\ c <= k BY <1>1
      <4>3. QED BY <1>3, <4>1, <4>2
    <3>3. QED BY <2>1, <3>1, <3>2 DEF Reads, k, m
  <2>2. CASE i \notin 1..m
    <3> DEFINE j == i - m
    <3>1. j \in 1..Len(b2) /\ i = m + j BY <1>1, <2>2
    <3>2. CASE Continues(b2, j)
      <4>1. j > 1 /\ j - 1 \in 1..Len(b2) /\ i - 1 = m + (j - 1) /\ i > 1
        BY <1>1, <3>1, <3>2 DEF Continues
      <4> HIDE DEF j
      <4>2. b[i] = b2[j] /\ b[i - 1] = b2[j - 1] BY <1>1, <3>1, <4>1
      <4>3. QED BY <3>2, <4>1, <4>2 DEF Continues
    <3>3. CASE \E c \in 1..Len(t2) : h2[c] = j
      <4>1. PICK c \in 1..Len(t2) : h2[c] = j BY <3>3
      <4>2. k + c \in 1..Len(text) /\ ~(k + c <= k) /\ (k + c) - k = c BY <1>1
      <4>3. h[k + c] = m + h2[c] BY <1>3, <4>2
      <4>4. QED BY <3>1, <4>1, <4>2, <4>3
    <3>4. QED BY <3>1, <3>2, <3>3 DEF Reads
  <2>3. QED BY <2>1, <2>2
<1>7. ASSUME NEW c \in 1..Len(text)
      PROVE  IF b[h[c]] \in {"hi", "lo"} THEN text[c] \in {"wide", "?"} ELSE text[c] = b[h[c]]
  <2>1. CASE c <= k
    <3>1. c \in 1..k /\ h[c] = h1[c] /\ h[c] \in 1..m BY <1>3, <2>1
    <3>2. text[c] = t1[c] /\ b[h[c]] = b1[h1[c]] BY <1>1, <3>1
    <3>3. QED BY <3>1, <3>2 DEF Reads, k
  <2>2. CASE ~(c <= k)
    <3> DEFINE d == c - k
    <3>1. d \in 1..Len(t2) /\ h[c] = m + h2[d] /\ c = k + d BY <1>1, <1>3, <2>2
    <3> HIDE DEF d, h
    <3>2. text[c] = t2[d] BY <1>1, <3>1
    <3>3. b[h[c]] = b2[h2[d]] BY <1>1, <1>2, <3>1
    <3>4. QED BY <3>1, <3>2, <3>3 DEF Reads
  <2>3. QED BY <2>1, <2>2
<1>8. \A c \in 1..Len(text) : c <= k <=> h[c] <= m BY <1>1, <1>3
<1> HIDE DEF h
<1>9. Reads(text, b, h) BY <1>4, <1>5, <1>6, <1>7 DEF Reads
<1>10. QED BY <1>8, <1>9 DEF text, b, k, m

(* From a one-byte character on, the next character is at the next byte.      *)
LEMMA ReadsNext ==
  ASSUME NEW text, NEW b, NEW h, Reads(text, b, h), Len(text) \in Nat, Len(b) \in Nat,
         NEW c \in 1..Len(text), b[h[c]] \notin {"hi", "lo"}
  PROVE  /\ c + 1 <= Len(text) => h[c + 1] = h[c] + 1
         /\ h[c] + 1 <= Len(b) => c + 1 <= Len(text)
<1>1. h[c] \in 1..Len(b) BY DEF Reads
<1>2. ASSUME h[c] + 1 <= Len(b) PROVE c + 1 <= Len(text) /\ h[c + 1] = h[c] + 1
  <2> DEFINE j == h[c] + 1
  <2>1. j \in 1..Len(b) /\ j - 1 = h[c] BY <1>1, <1>2
  <2>2. ~Continues(b, j) BY <2>1 DEF Continues
  <2>3. PICK e \in 1..Len(text) : h[e] = j BY <2>1, <2>2 DEF Reads
  <2>4. \A d \in 1..Len(text) : h[d] \in Nat BY DEF Reads
  <2>5. c < e
    <3>1. SUFFICES ASSUME ~(c < e) PROVE FALSE
      OBVIOUS
    <3>2. e = c \/ e < c BY <3>1
    <3>3. h[e] <= h[c] BY <2>4, <3>2 DEF Reads
    <3>4. QED BY <1>1, <2>3, <3>3
  <2>6. c + 1 \in 1..Len(text) /\ c < c + 1 BY <2>5
  <2>7. h[c] < h[c + 1] BY <2>6 DEF Reads
  <2>8. c + 1 = e
    <3>1. SUFFICES ASSUME c + 1 < e PROVE FALSE
      BY <2>5
    <3>2. h[c + 1] < h[e] BY <2>6, <3>1 DEF Reads
    <3>3. h[c + 1] \in Nat BY <2>4, <2>6
    <3>4. QED BY <1>1, <2>3, <2>7, <3>2, <3>3
  <2>9. QED BY <2>3, <2>6, <2>8
<1>3. ASSUME c + 1 <= Len(text) PROVE h[c] + 1 <= Len(b)
  <2>1. c + 1 \in 1..Len(text) /\ c < c + 1 BY <1>3
  <2>2. h[c] < h[c + 1] /\ h[c + 1] \in 1..Len(b) BY <2>1 DEF Reads
  <2>3. QED BY <1>1, <2>2
<1>4. QED BY <1>2, <1>3

LEMMA IsAtMeans ==
  ASSUME NEW X, NEW Y, NEW text \in Seq(X), NEW n \in Seq(Y), Len(n) \in Nat \ {0},
         NEW i \in Nat \ {0}
  PROVE  IsAt(text, n, i) <=> /\ i + Len(n) - 1 <= Len(text)
                              /\ \A d \in 1..Len(n) : text[i + d - 1] = n[d]
<1> DEFINE k == Len(n)
           e == i + k - 1
           s == SubSeq(text, i, e)
<1>1. k \in Nat \ {0} /\ e \in Nat /\ i <= e /\ Len(text) \in Nat /\ e - i + 1 = k OBVIOUS
<1>2. IsAt(text, n, i) <=> e <= Len(text) /\ s = n BY DEF IsAt
<1>3. ASSUME e <= Len(text)
      PROVE  s = n <=> \A d \in 1..k : text[i + d - 1] = n[d]
  <2>1. s \in Seq(X) /\ Len(s) = k /\ \A d \in 1..k : s[d] = text[i + d - 1]
    <3> HIDE DEF k, e
    <3>1. \A d \in 1..k : i + d - 1 \in 1..Len(text) BY <1>1, <1>3
    <3>2. /\ s \in Seq(X) /\ Len(s) = e - i + 1
          /\ \A d \in 1..e - i + 1 : s[d] = text[i + d - 1]
      BY <1>1, <1>3
    <3>3. QED BY <1>1, <3>2
  <2> HIDE DEF s
  <2>2. ASSUME \A d \in 1..k : text[i + d - 1] = n[d] PROVE s = n
    <3>1. \A d \in 1..k : s[d] = n[d] BY <2>1, <2>2
    <3>2. s = [d \in 1..k |-> s[d]] /\ n = [d \in 1..k |-> n[d]] BY <2>1
    <3>3. QED BY <3>1, <3>2
  <2>3. QED BY <2>1, <2>2
<1> HIDE DEF s
<1>4. QED BY <1>2, <1>3

LEMMA LettersAre ==
  \A x \in Letters : x \in Bytes /\ x \in Chars /\ x \notin {"newline", "hi", "lo", "wide", "?"}
BY LettersAssumption DEF Bytes, Chars

LEMMA OneByteIs ==
  ASSUME NEW n \in Seq(Chars \ {"newline"}), OneByte(n)
  PROVE  n \in Seq(Letters)
<1>1. \A d \in 1..Len(n) : n[d] \in Chars \ {"newline"} /\ n[d] \notin {"wide", "?"}
  BY DEF OneByte, Range
<1>2. \A d \in 1..Len(n) : n[d] \in Letters BY <1>1 DEF Chars
<1>3. n = [d \in 1..Len(n) |-> n[d]] /\ Len(n) \in Nat OBVIOUS
<1>4. QED BY <1>2, <1>3

SamePlaces(text, b, h, n) ==
  /\ \A c \in Places(text, n) : /\ h[c] \in Places(b, n)
                                /\ \A d \in 1..Len(n) : h[c + d - 1] = h[c] + d - 1
  /\ \A q \in Places(b, n) : \E c \in Places(text, n) : h[c] = q

LEMMA PlacesRead ==
  ASSUME NEW text \in Seq(Chars), NEW b \in Seq(Bytes), NEW h, Reads(text, b, h),
         NEW n \in Seq(Letters), Len(n) \in Nat \ {0}
  PROVE  SamePlaces(text, b, h, n)
<1> DEFINE k == Len(n)
<1>1. /\ k \in Nat \ {0} /\ Len(text) \in Nat /\ Len(b) \in Nat
      /\ \A d \in 1..k : n[d] \in Letters
      /\ \A c \in 1..Len(text) : h[c] \in 1..Len(b)
  <2>1. Len(n) \in Nat \ {0} /\ Len(text) \in Nat /\ Len(b) \in Nat OBVIOUS
  <2>2. \A d \in 1..Len(n) : n[d] \in Letters OBVIOUS
  <2>3. \A c \in 1..Len(text) : h[c] \in 1..Len(b) BY DEF Reads
  <2>4. QED BY <2>1, <2>2, <2>3
<1>2. \A d \in 1..k : n[d] \notin {"hi", "lo", "wide", "?"} BY <1>1, LettersAre
<1>3. \A i \in Nat \ {0} : IsAt(text, n, i) <=>
        i + k - 1 <= Len(text) /\ \A d \in 1..k : text[i + d - 1] = n[d]
  BY IsAtMeans
<1>4. \A i \in Nat \ {0} : IsAt(b, n, i) <=>
        i + k - 1 <= Len(b) /\ \A d \in 1..k : b[i + d - 1] = n[d]
  BY IsAtMeans
<1> HIDE DEF k
<1>5. ASSUME NEW c \in Places(text, n)
      PROVE  h[c] \in Places(b, n) /\ \A d \in 1..k : h[c + d - 1] = h[c] + d - 1
  <2>1. /\ c \in 1..Len(text) /\ c + k - 1 <= Len(text)
        /\ \A d \in 1..k : text[c + d - 1] = n[d]
    BY <1>3 DEF Places
  <2>2. ASSUME NEW d \in 1..k
        PROVE  c + d - 1 \in 1..Len(text) /\ b[h[c + d - 1]] = n[d]
    <3>1. c + d - 1 \in 1..Len(text) BY <1>1, <2>1
    <3>2. text[c + d - 1] = n[d] BY <2>1
    <3>3. QED BY <1>2, <3>1, <3>2 DEF Reads
  <2> DEFINE N == {d \in Nat : d + 1 <= k => h[c + d] = h[c] + d}
  <2>3. 0 \in N
    <3>1. h[c + 0] = h[c] + 0 BY <1>1, <2>1
    <3>2. QED BY <3>1
  <2>4. ASSUME NEW d \in Nat, d \in N PROVE d + 1 \in N
    <3>1. SUFFICES ASSUME d + 1 + 1 <= k PROVE h[c + (d + 1)] = h[c] + (d + 1)
      OBVIOUS
    <3>2. h[c + d] = h[c] + d BY <1>1, <2>4, <3>1
    <3>3. /\ d + 1 \in 1..k /\ c + (d + 1) - 1 = c + d /\ c + d \in 1..Len(text)
          /\ (c + d) + 1 <= Len(text) /\ (c + d) + 1 = c + (d + 1)
      BY <1>1, <2>1, <3>1
    <3>4. b[h[c + d]] = n[d + 1] BY <2>2, <3>3
    <3>5. b[h[c + d]] \notin {"hi", "lo"} BY <1>2, <3>3, <3>4
    <3> DEFINE e == c + d
    <3>6. e \in 1..Len(text) /\ e + 1 <= Len(text) /\ b[h[e]] \notin {"hi", "lo"} BY <3>3, <3>5
    <3> HIDE DEF e
    <3>7. h[e + 1] = h[e] + 1 BY <1>1, <3>6, ReadsNext
    <3>8. h[c + (d + 1)] = (h[c] + d) + 1 BY <3>2, <3>3, <3>7 DEF e
    <3>9. h[c] \in Nat BY <1>1, <2>1
    <3>10. \A x \in Nat : (x + d) + 1 = x + (d + 1) OBVIOUS
    <3>11. QED BY <3>8, <3>9, <3>10
  <2> HIDE DEF N
  <2>5. Nat \subseteq N BY <2>3, <2>4, EveryNumber
  <2>6. ASSUME NEW d \in 1..k PROVE h[c + d - 1] = h[c] + d - 1
    <3>1. d - 1 \in N /\ (d - 1) + 1 <= k BY <1>1, <2>5
    <3>2. h[c + (d - 1)] = h[c] + (d - 1) BY <3>1 DEF N
    <3>3. c + (d - 1) = c + d - 1 /\ h[c] + (d - 1) = h[c] + d - 1 BY <1>1, <2>1
    <3>4. QED BY <3>2, <3>3
  <2>7. h[c] \in Places(b, n)
    <3>1. h[c] \in 1..Len(b) BY <1>1, <2>1
    <3>2. \A d \in 1..k : b[h[c] + d - 1] = n[d] BY <2>2, <2>6
    <3>3. h[c] + k - 1 <= Len(b)
      <4>1. k \in 1..k BY <1>1
      <4>2. h[c + k - 1] = h[c] + k - 1 /\ c + k - 1 \in 1..Len(text) BY <2>2, <2>6, <4>1
      <4>3. h[c + k - 1] \in 1..Len(b) BY <1>1, <4>2
      <4>4. QED BY <4>2, <4>3
    <3>4. IsAt(b, n, h[c]) BY <1>4, <3>1, <3>2, <3>3
    <3>5. QED BY <3>1, <3>4 DEF Places
  <2>8. QED BY <2>6, <2>7
<1>6. ASSUME NEW q \in Places(b, n) PROVE \E c \in Places(text, n) : h[c] = q
  <2>1. /\ q \in 1..Len(b) /\ q + k - 1 <= Len(b)
        /\ \A d \in 1..k : b[q + d - 1] = n[d]
    BY <1>4 DEF Places
  <2>2. PICK c \in 1..Len(text) : h[c] = q
    <3>1. 1 \in 1..k /\ q + 1 - 1 = q BY <1>1, <2>1
    <3>2. b[q] = n[1] BY <2>1, <3>1
    <3>3. b[q] # "lo" BY <1>2, <3>1, <3>2
    <3>4. QED BY <2>1, <3>3 DEF Reads, Continues
  <2> DEFINE N == {d \in Nat : d + 1 <= k => c + d <= Len(text) /\ h[c + d] = q + d}
  <2>3. 0 \in N
    <3>1. h[c + 0] = q + 0 /\ c + 0 <= Len(text) BY <1>1, <2>1, <2>2
    <3>2. QED BY <3>1
  <2>4. ASSUME NEW d \in Nat, d \in N PROVE d + 1 \in N
    <3>1. SUFFICES ASSUME d + 1 + 1 <= k
                   PROVE  c + (d + 1) <= Len(text) /\ h[c + (d + 1)] = q + (d + 1)
      OBVIOUS
    <3>2. c + d <= Len(text) /\ h[c + d] = q + d BY <1>1, <2>4, <3>1
    <3>3. /\ d + 1 \in 1..k /\ q + (d + 1) - 1 = q + d /\ c + d \in 1..Len(text)
          /\ (q + d) + 1 <= Len(b) /\ (c + d) + 1 = c + (d + 1) /\ (q + d) + 1 = q + (d + 1)
      BY <1>1, <2>1, <3>1, <3>2
    <3>4. b[h[c + d]] = n[d + 1] BY <2>1, <3>2, <3>3
    <3>5. b[h[c + d]] \notin {"hi", "lo"} BY <1>2, <3>3, <3>4
    <3>6. /\ (c + d) + 1 <= Len(text) => h[(c + d) + 1] = h[c + d] + 1
          /\ h[c + d] + 1 <= Len(b) => (c + d) + 1 <= Len(text)
      BY <1>1, <3>3, <3>5, ReadsNext
    <3>7. QED BY <3>2, <3>3, <3>6
  <2> HIDE DEF N
  <2>5. Nat \subseteq N BY <2>3, <2>4, EveryNumber
  <2>6. ASSUME NEW d \in 1..k
        PROVE  c + d - 1 \in 1..Len(text) /\ text[c + d - 1] = n[d]
    <3>1. d - 1 \in N /\ (d - 1) + 1 <= k BY <1>1, <2>5
    <3>2. c + (d - 1) <= Len(text) /\ h[c + (d - 1)] = q + (d - 1) BY <3>1 DEF N
    <3>3. c + (d - 1) = c + d - 1 /\ q + (d - 1) = q + d - 1 BY <1>1, <2>1
    <3>4. c + d - 1 \in 1..Len(text) /\ h[c + d - 1] = q + d - 1 BY <1>1, <3>2, <3>3
    <3>5. b[h[c + d - 1]] = n[d] BY <2>1, <3>4
    <3>6. QED BY <1>2, <3>4, <3>5 DEF Reads
  <2>7. c + k - 1 <= Len(text)
    <3>1. k \in 1..k BY <1>1
    <3>2. QED BY <2>6, <3>1
  <2>8. IsAt(text, n, c) BY <1>3, <2>6, <2>7
  <2>9. QED BY <2>2, <2>8 DEF Places
<1>7. QED BY <1>5, <1>6 DEF k, SamePlaces

-----------------------------------------------------------------------------
(* A block of a file, after the bytes s, with T, the end of s, replayed: what *)
(* is counted of a needle is at the places that end in the block.             *)

EndsWith(s, T) ==
  Len(T) <= Len(s) /\ \A i \in 1..Len(T) : T[i] = s[Len(s) - Len(T) + i]
(* T is as long as any needle but a byte, or what is before it is in no needle.*)
LongEnough(s, T, k) ==
  Len(T) + 1 >= k \/ Len(T) = Len(s) \/ s[Len(s)] = "newline"
EndingIn(s, B, n) == {q \in Places(s \o B, n) : q + Len(n) - 1 > Len(s)}

LEMMA Shifted ==
  ASSUME NEW s \in Seq(Bytes), NEW T \in Seq(Bytes), NEW B \in Seq(Bytes),
         NEW n \in Seq(Letters), Len(n) \in Nat \ {0},
         EndsWith(s, T), LongEnough(s, T, Len(n)),
         NEW e, e = Len(s) - Len(T)
  PROVE  /\ e \in Nat
         /\ \A q \in EndingIn(s, B, n) : q - e \in EndingIn(T, B, n)
         /\ \A i \in EndingIn(T, B, n) : i + e \in EndingIn(s, B, n)
<1> DEFINE k == Len(n)
           a == Len(s)
           t == Len(T)
           u == T \o B
           v == s \o B
<1>1. /\ k \in Nat \ {0} /\ a \in Nat /\ t \in Nat /\ t <= a /\ e = a - t /\ e \in Nat
      /\ Len(B) \in Nat
      /\ u \in Seq(Bytes) /\ v \in Seq(Bytes) /\ Len(u) = t + Len(B) /\ Len(v) = a + Len(B)
      /\ \A d \in 1..k : n[d] \in Letters
  BY DEF EndsWith
<1>2. \A i \in 1..Len(u) : u[i] = v[i + e]
  <2>1. SUFFICES ASSUME NEW i \in 1..Len(u) PROVE u[i] = v[i + e]
    OBVIOUS
  <2>2. CASE i <= t
    <3>1. u[i] = T[i] /\ i \in 1..t BY <1>1, <2>2
    <3>2. T[i] = s[e + i] BY <3>1 DEF EndsWith
    <3>3. i + e \in 1..a /\ i + e = e + i BY <1>1, <3>1
    <3>4. v[i + e] = s[i + e] BY <3>3
    <3>5. QED BY <3>1, <3>2, <3>3, <3>4
  <2>3. CASE ~(i <= t)
    <3>1. i - t \in 1..Len(B) /\ i = t + (i - t) BY <1>1, <2>3
    <3>2. u[t + (i - t)] = B[i - t] BY <3>1
    <3>3. i + e = a + (i - t) BY <1>1, <2>3
    <3>4. v[a + (i - t)] = B[i - t] BY <3>1
    <3>5. QED BY <3>1, <3>2, <3>3, <3>4
  <2>4. QED BY <2>2, <2>3
<1>3. \A i \in Nat \ {0} : IsAt(u, n, i) <=>
        i + k - 1 <= Len(u) /\ \A d \in 1..k : u[i + d - 1] = n[d]
  <2>1. u \in Seq(Bytes) BY <1>1
  <2> HIDE DEF u
  <2>2. QED BY <2>1, IsAtMeans
<1>4. \A i \in Nat \ {0} : IsAt(v, n, i) <=>
        i + k - 1 <= Len(v) /\ \A d \in 1..k : v[i + d - 1] = n[d]
  <2>1. v \in Seq(Bytes) BY <1>1
  <2> HIDE DEF v
  <2>2. QED BY <2>1, IsAtMeans
<1>5. /\ \A q : q \in EndingIn(s, B, n) <=> q \in 1..Len(v) /\ IsAt(v, n, q) /\ q + k - 1 > a
      /\ \A q : q \in EndingIn(T, B, n) <=> q \in 1..Len(u) /\ IsAt(u, n, q) /\ q + k - 1 > t
  BY DEF EndingIn, Places
<1>6. LongEnough(s, T, k) OBVIOUS
<1>7. s[a] = "newline" /\ a \in Nat \ {0} => v[a] = "newline"
  <2>1. a \in Nat \ {0} => v[a] = s[a] OBVIOUS
  <2>2. QED BY <2>1
<1> HIDE DEF k, a, t, u, v
<1>8. /\ k \in Nat \ {0} /\ a \in Nat /\ t \in Nat /\ t <= a /\ e = a - t /\ e \in Nat
       /\ Len(B) \in Nat /\ Len(u) = t + Len(B) /\ Len(v) = a + Len(B)
  BY <1>1
<1>9. ASSUME NEW q \in EndingIn(s, B, n) PROVE q - e \in EndingIn(T, B, n)
  <2>1. /\ q \in 1..Len(v) /\ q + k - 1 > a /\ q + k - 1 <= Len(v)
        /\ \A d \in 1..k : v[q + d - 1] = n[d]
    BY <1>4, <1>5
  <2>1a. q \in Nat /\ q >= 1 /\ q <= Len(v) /\ q + k - 1 > a /\ q + k - 1 <= Len(v)
    BY <1>8, <2>1
  <2>2. q > e
    <3>1. CASE t + 1 >= k BY <1>8, <2>1a, <3>1
    <3>2. CASE t = a BY <1>8, <2>1a, <3>2
    <3>3. CASE s[a] = "newline"
      <4>1. SUFFICES ASSUME q <= a PROVE FALSE
        <5>1. ~(q <= a) => q > e BY <1>8, <2>1a
        <5>2. QED BY <5>1
      <4>2. a \in Nat \ {0} /\ a - q + 1 \in 1..k /\ q + (a - q + 1) - 1 = a
        BY <1>8, <2>1a, <4>1
      <4>3. n[a - q + 1] = "newline" BY <1>7, <2>1, <3>3, <4>2
      <4>4. QED BY <1>1, <4>2, <4>3, LettersAre
    <3>4. QED BY <1>6, <3>1, <3>2, <3>3 DEF LongEnough, t, a
  <2>3. q - e \in 1..Len(u) /\ (q - e) + k - 1 > t /\ (q - e) + k - 1 <= Len(u)
    BY <1>8, <2>1a, <2>2
  <2>4. \A d \in 1..k : u[(q - e) + d - 1] = n[d]
    <3>1. SUFFICES ASSUME NEW d \in 1..k PROVE u[(q - e) + d - 1] = n[d]
      OBVIOUS
    <3>2. (q - e) + d - 1 \in 1..Len(u) /\ ((q - e) + d - 1) + e = q + d - 1
      <4>1. d \in Nat /\ 1 <= d /\ d <= k BY <1>8
      <4>2. q - e \in Nat /\ 1 <= q - e BY <1>8, <2>1a, <2>2
      <4> DEFINE w == q - e
      <4>3. w \in Nat /\ 1 <= w /\ w + k - 1 <= Len(u) /\ w + e = q BY <1>8, <2>1a, <2>3, <4>2
      <4> HIDE DEF w
      <4>4. w + d - 1 \in 1..Len(u) /\ (w + d - 1) + e = q + d - 1
        BY <1>8, <4>1, <4>3
      <4>5. QED BY <4>4 DEF w
    <3>3. u[(q - e) + d - 1] = v[q + d - 1] BY <1>2, <3>2
    <3>4. QED BY <2>1, <3>3
  <2>5. IsAt(u, n, q - e) BY <1>3, <2>3, <2>4
  <2>6. QED BY <1>5, <2>3, <2>5
<1>10. ASSUME NEW i \in EndingIn(T, B, n) PROVE i + e \in EndingIn(s, B, n)
  <2>1. /\ i \in 1..Len(u) /\ i + k - 1 > t /\ i + k - 1 <= Len(u)
        /\ \A d \in 1..k : u[i + d - 1] = n[d]
    BY <1>3, <1>5
  <2>1a. i \in Nat /\ i >= 1 /\ i <= Len(u) /\ i + k - 1 > t /\ i + k - 1 <= Len(u)
    BY <1>8, <2>1
  <2>2. i + e \in 1..Len(v) /\ (i + e) + k - 1 > a /\ (i + e) + k - 1 <= Len(v)
    BY <1>8, <2>1a
  <2>3. \A d \in 1..k : v[(i + e) + d - 1] = n[d]
    <3>1. SUFFICES ASSUME NEW d \in 1..k PROVE v[(i + e) + d - 1] = n[d]
      OBVIOUS
    <3>2. i + d - 1 \in 1..Len(u) /\ (i + d - 1) + e = (i + e) + d - 1
      BY <1>8, <2>1a
    <3>3. u[i + d - 1] = v[(i + e) + d - 1] BY <1>2, <3>2
    <3>4. QED BY <2>1, <3>3
  <2>4. IsAt(v, n, i + e) BY <1>4, <2>2, <2>3
  <2>5. QED BY <1>5, <2>2, <2>4
<1>11. QED BY <1>1, <1>9, <1>10

LEMMA AfterSkipped ==
  ASSUME NEW text, NEW n, NEW skip \in Nat, Len(n) \in Nat \ {0}, Len(text) \in Nat
  PROVE  \A c : c \in After(text, n, Skipped(skip, n)) <=>
                  c \in Places(text, n) /\ c + Len(n) - 1 > skip
<1>1. \A c : c \in Places(text, n) => c \in Nat \ {0} BY DEF Places
<1>2. \A c \in Nat \ {0} : c > Skipped(skip, n) <=> c + Len(n) - 1 > skip BY DEF Skipped
<1>3. QED BY <1>1, <1>2 DEF After

Matching(C, Q, g, k) ==
  /\ g \in [C -> Q] /\ \A q \in Q : \E c \in C : g[c] = q
  /\ \A c, d \in C : c < d => g[c] < g[d] /\ (d < c + k => g[d] < g[c] + k)

LEMMA ChunkPlaces ==
  ASSUME NEW s \in Seq(Bytes), NEW T \in Seq(Bytes), NEW B \in Seq(Bytes),
         NEW n \in Seq(Letters), Len(n) \in Nat \ {0},
         EndsWith(s, T), LongEnough(s, T, Len(n)),
         NEW text, text = Decode(T) \o Decode(B),
         NEW C, C = After(text, n, Skipped(Len(Decode(T)), n)),
         NEW Q, Q = EndingIn(s, B, n)
  PROVE  \E g : Matching(C, Q, g, Len(n))
<1> DEFINE p == Decode(T)
           t == Decode(B)
           k == Len(n)
           e == Len(s) - Len(T)
           u == T \o B
<1>1. /\ p \in Seq(Chars) /\ Reads(p, T, Starts(T)) /\ Len(p) \in Nat
      /\ t \in Seq(Chars) /\ Reads(t, B, Starts(B))
  BY DecodeReads, DecodeIs
<1> HIDE DEF p, t, u
<1>2. /\ text \in Seq(Chars) /\ u \in Seq(Bytes) /\ Len(text) \in Nat /\ Len(u) \in Nat
      /\ k \in Nat \ {0} /\ Len(T) \in Nat
  BY <1>1 DEF p, t, u
<1>3. PICK h : Reads(text, u, h) /\ \A c \in 1..Len(text) : c <= Len(p) <=> h[c] <= Len(T)
  <2>1. PICK h : Reads(p \o t, T \o B, h)
                 /\ \A c \in 1..Len(p \o t) : c <= Len(p) <=> h[c] <= Len(T)
    BY <1>1, ReadsConcat
  <2>2. text = p \o t BY DEF p, t
  <2>3. QED BY <2>1, <2>2 DEF u
<1>4. /\ \A c \in Places(text, n) : /\ h[c] \in Places(u, n)
                                    /\ \A d \in 1..k : h[c + d - 1] = h[c] + d - 1
      /\ \A q \in Places(u, n) : \E c \in Places(text, n) : h[c] = q
  <2>1. text \in Seq(Chars) /\ u \in Seq(Bytes) /\ Reads(text, u, h) BY <1>2, <1>3
  <2>2. SamePlaces(text, u, h, n) BY <2>1, PlacesRead
  <2>3. QED BY <2>2 DEF SamePlaces
<1>5. \A c : c \in C <=> c \in Places(text, n) /\ c + k - 1 > Len(p)
  BY <1>1, <1>2, AfterSkipped DEF p
<1>6. /\ e \in Nat
      /\ \A q \in Q : q - e \in EndingIn(T, B, n)
      /\ \A i \in EndingIn(T, B, n) : i + e \in Q
  BY Shifted
<1>7. \A i : i \in EndingIn(T, B, n) <=> i \in Places(u, n) /\ i + k - 1 > Len(T)
  BY DEF EndingIn, u
<1>8. \A c \in Places(text, n) : /\ c \in 1..Len(text) /\ c + k - 1 \in 1..Len(text)
                                 /\ h[c] \in Nat /\ h[c + k - 1] = h[c] + k - 1
  <2>1. SUFFICES ASSUME NEW c \in Places(text, n)
                 PROVE  /\ c \in 1..Len(text) /\ c + k - 1 \in 1..Len(text)
                        /\ h[c] \in Nat /\ h[c + k - 1] = h[c] + k - 1
    OBVIOUS
  <2>2. c \in 1..Len(text) /\ c + k - 1 <= Len(text) BY DEF Places, IsAt
  <2> HIDE DEF k
  <2>3. h[c] \in 1..Len(u)
    <3>1. h \in [1..Len(text) -> 1..Len(u)] BY <1>3 DEF Reads
    <3>2. QED BY <2>2, <3>1
  <2>4. h[c + k - 1] = h[c] + k - 1
    <3>1. k \in 1..k BY <1>2
    <3>2. QED BY <1>4, <3>1
  <2>5. QED BY <1>2, <2>2, <2>3, <2>4
<1> HIDE DEF k, e
<1>9. ASSUME NEW c \in C PROVE h[c] + e \in Q
  <2>1. c \in Places(text, n) /\ c + k - 1 > Len(p) BY <1>5
  <2>2. ~(h[c + k - 1] <= Len(T)) BY <1>1, <1>3, <1>8, <2>1
  <2>3. h[c] \in Places(u, n) BY <1>4, <2>1
  <2>4. h[c] \in Nat /\ ~(h[c] + k - 1 <= Len(T)) BY <1>8, <2>1, <2>2
  <2>5. h[c] + k - 1 > Len(T) BY <1>2, <2>4
  <2>6. QED BY <1>6, <1>7, <2>3, <2>5
<1>10. ASSUME NEW q \in Q PROVE \E c \in C : h[c] + e = q
  <2>1. q - e \in Places(u, n) /\ (q - e) + k - 1 > Len(T) BY <1>6, <1>7
  <2>2. PICK c \in Places(text, n) : h[c] = q - e BY <1>4, <2>1
  <2>3. c + k - 1 > Len(p)
    <3>1. ~(h[c + k - 1] <= Len(T)) BY <1>2, <1>8, <2>1, <2>2
    <3>2. QED BY <1>1, <1>3, <1>8, <3>1
  <2>4. q \in Nat BY DEF EndingIn, Places
  <2>5. h[c] + e = q BY <1>6, <2>2, <2>4
  <2>6. QED BY <1>5, <2>3, <2>5
<1>11. ASSUME NEW c \in C, NEW d \in C, c < d
       PROVE  h[c] < h[d] /\ (d < c + k => h[d] < h[c] + k)
  <2>1. c \in Places(text, n) /\ d \in Places(text, n) BY <1>5
  <2>2. c \in 1..Len(text) /\ d \in 1..Len(text) /\ h[c] \in Nat /\ h[d] \in Nat BY <1>8, <2>1
  <2>3. h[c] < h[d] BY <1>3, <1>11, <2>2 DEF Reads
  <2>4. ASSUME d < c + k PROVE h[d] < h[c] + k
    <3>1. d - c + 1 \in 1..k /\ c + (d - c + 1) - 1 = d BY <1>2, <1>11, <2>2, <2>4
    <3>2. h[d] = h[c] + (d - c + 1) - 1 BY <1>4, <2>1, <3>1
    <3> DEFINE x == h[c]
    <3>3. /\ x \in Nat /\ c \in Nat /\ d \in Nat /\ k \in Nat
          /\ h[d] = x + (d - c + 1) - 1
      BY <1>2, <2>2, <3>2
    <3> HIDE DEF x
    <3>4. h[d] < x + k BY <2>4, <3>3
    <3>5. QED BY <3>4 DEF x
  <2>5. QED BY <2>3, <2>4
<1> DEFINE g == [c \in C |-> h[c] + e]
<1>12. g \in [C -> Q] BY <1>9
<1>13. \A q \in Q : \E c \in C : g[c] = q BY <1>10
<1>14. ASSUME NEW c \in C, NEW d \in C, c < d
       PROVE  g[c] < g[d] /\ (d < c + k => g[d] < g[c] + k)
  <2>1. h[c] < h[d] /\ (d < c + k => h[d] < h[c] + k) BY <1>11, <1>14
  <2>2. h[c] \in Nat /\ h[d] \in Nat BY <1>5, <1>8
  <2>3. g[c] = h[c] + e /\ g[d] = h[d] + e OBVIOUS
  <2> HIDE DEF g
  <2>4. k \in Nat /\ e \in Nat BY <1>2, <1>6
  <2>5. g[c] < g[d] BY <2>1, <2>2, <2>3, <2>4
  <2>6. ASSUME d < c + k PROVE g[d] < g[c] + k
    <3>1. h[d] < h[c] + k BY <2>1, <2>6
    <3>2. h[d] + e < (h[c] + e) + k BY <2>2, <2>4, <3>1
    <3>3. QED BY <2>3, <3>2
  <2>7. QED BY <2>5, <2>6
<1> HIDE DEF g
<1>15. QED BY <1>12, <1>13, <1>14 DEF k, Matching

Counts(count, Q, v, n) ==
  count \in Nat /\ (count > 0 <=> Q # {}) /\ (Apart(v, n) => count = Cardinality(Q))

(* A chunk counts what ends in the block: whether there is any, and, of a     *)
(* needle that does not overlap itself, how many.                             *)
LEMMA ChunkCount ==
  ASSUME NEW s \in Seq(Bytes), NEW T \in Seq(Bytes), NEW B \in Seq(Bytes),
         NEW n \in Seq(Letters), Len(n) \in Nat \ {0},
         EndsWith(s, T), LongEnough(s, T, Len(n)),
         NEW text, text = Decode(T) \o Decode(B),
         NEW Q, Q = EndingIn(s, B, n),
         NEW count, count = Count(text, n, Skipped(Len(Decode(T)), n))
  PROVE  Counts(count, Q, s \o B, n)
<1> DEFINE C == After(text, n, Skipped(Len(Decode(T)), n))
           k == Len(n)
<1>1. PICK g : /\ g \in [C -> Q] /\ \A q \in Q : \E c \in C : g[c] = q
               /\ \A c, d \in C : c < d => g[c] < g[d] /\ (d < c + k => g[d] < g[c] + k)
  <2>1. C = After(text, n, Skipped(Len(Decode(T)), n)) OBVIOUS
  <2> HIDE DEF C
  <2>2. \E g : Matching(C, Q, g, k) BY <2>1, ChunkPlaces
  <2>3. QED BY <2>2 DEF Matching
<1>2. Len(text) \in Nat /\ Skipped(Len(Decode(T)), n) \in Nat
  <2> DEFINE p == Decode(T)
             t == Decode(B)
  <2>1. p \in Seq(Chars) /\ t \in Seq(Chars) /\ Len(p) \in Nat BY DecodeIs
  <2>2. text = p \o t OBVIOUS
  <2>3. Skipped(Len(p), n) \in Nat BY <2>1, SkippedIs
  <2> HIDE DEF p, t
  <2>4. Len(text) \in Nat BY <2>1, <2>2
  <2>5. QED BY <2>3, <2>4 DEF p
<1>3. /\ count \in Nat /\ (count > 0 <=> C # {})
      /\ (\A i, j \in C : i < j => i + k <= j) => count = Cardinality(C)
  <2> DEFINE skipped == Skipped(Len(Decode(T)), n)
  <2>1. skipped \in Nat /\ count = Count(text, n, skipped) /\ C = After(text, n, skipped) BY <1>2
  <2> HIDE DEF skipped, C
  <2>2. QED BY <1>2, <2>1, CountFacts
<1>4. C \subseteq Nat BY DEF After, Places
<1>5. Q \subseteq Nat /\ \A q \in Q : q \in Places(s \o B, n) BY DEF EndingIn, Places
<1> HIDE DEF C
<1>6. ASSUME Apart(s \o B, n) PROVE count = Cardinality(Q)
  <2>1. \A i, j \in C : i < j => i + k <= j
    <3>1. SUFFICES ASSUME NEW i \in C, NEW j \in C, i < j, j < i + k PROVE FALSE
      BY <1>4
    <3>2. g[i] < g[j] /\ g[j] < g[i] + k /\ g[i] \in Q /\ g[j] \in Q BY <1>1, <3>1
    <3>3. g[i] + k <= g[j] BY <1>5, <1>6, <3>2 DEF Apart
    <3>4. g[i] \in Nat /\ g[j] \in Nat BY <1>5, <3>2
    <3>5. QED BY <3>2, <3>3, <3>4
  <2>2. g \in Bijection(C, Q)
    <3>1. DOMAIN g = C /\ g \in [C -> Q] BY <1>1
    <3>2. \A i, j \in C : g[i] = g[j] => i = j
      <4>1. SUFFICES ASSUME NEW i \in C, NEW j \in C, g[i] = g[j], i # j PROVE FALSE
        OBVIOUS
      <4>2. i < j \/ j < i BY <1>4, <4>1
      <4>3. g[i] < g[j] \/ g[j] < g[i] BY <1>1, <4>2
      <4>4. g[i] \in Nat BY <1>5, <3>1
      <4>5. QED BY <4>1, <4>3, <4>4
    <3>3. g \in Injection(C, Q) BY <3>1, <3>2 DEF Injection, IsInjective
    <3>4. g \in Surjection(C, Q) BY <1>1, <3>1 DEF Surjection
    <3>5. QED BY <3>3, <3>4 DEF Bijection
  <2>3. ExistsBijection(C, Q) BY <2>2 DEF ExistsBijection
  <2>4. IsFiniteSet(C)
    <3>1. C \subseteq 1..Len(text) BY DEF C, After, Places
    <3>2. IsFiniteSet(1..Len(text)) BY <1>2, FS_Interval
    <3>3. QED BY <3>1, <3>2, FS_Subset
  <2>5. Cardinality(C) = Cardinality(Q) BY <2>3, <2>4, FS_Bijection
  <2>6. QED BY <1>3, <2>1, <2>5
<1>7. C # {} <=> Q # {} BY <1>1
<1>8. QED BY <1>3, <1>6, <1>7 DEF Counts

-----------------------------------------------------------------------------
(* What was searched and what was counted: of a file being read the end is at *)
(* hand; a needle that was in what was read of a file is among the matches,   *)
(* as often as it is there.                                                   *)

Reading ==
  pc = "block" =>
    LET s == seen[reader.path] IN
    /\ ~scan.useGrep /\ Len(s) = reader.pos
    /\ EndsWith(s, reader.tail) /\ LongEnough(s, reader.tail, Overlap)

Unread == \A p \in Paths : p \in todo \/ pc = "start" => seen[p] = <<>>

Matched(n, p) == \E m \in matches : m.needle = n /\ m.path = p
Searched == \A n \in Needles, p \in Paths : Found(seen[p], n) => Matched(n, p)

SInv == Reading /\ Unread /\ Searched /\ EachIsCountedOnce

(* What was reported: a match that is no hit any more is in a leak, with all  *)
(* the labels of its needle, or too common; in the database one of a row that *)
(* was searched, and read, in a leak of its session.  While rows are read,    *)
(* no match in the database has been reported.                                *)
InLeak(m, record) ==
  \E k \in leaks : /\ k.needle = m.needle /\ k.path = m.path /\ k.record = record
                   /\ k.labels = LabelsOf(m.needle)
RowSaid(m, i, h) == RowHolds(i, h, m.needle) => InLeak(m, cells[i].hints[h])
RowsSaid(m) == \A i \in rows : \A h \in DOMAIN cells[i].hints : RowSaid(m, i, h)
Reported(m) ==
  \/ m.needle \in common
  \/ IF m.path # Database THEN InLeak(m, Owner[m.path]) ELSE RowsSaid(m)

RInv ==
  /\ pc \in {"report", "tables", "done"} => \A m \in matches \ hits : Reported(m)
  /\ pc = "done" => hits = {}
  /\ pc = "tables" => \A m \in hits : m.path = Database
  /\ pc = "tables" \/ (pc = "report" /\ hits # {})
       => \A m \in matches : m.path = Database => m \in hits

LEMMA EmptyTexts ==
  /\ <<>> \in Seq(Bytes) /\ Decode(<<>>) = <<>> /\ Len(Decode(<<>>)) = 0
  /\ \A n : Places(<<>>, n) = {}
  /\ \A B \in Seq(Bytes) : <<>> \o B = B /\ Decode(<<>>) \o Decode(B) = Decode(B)
<1>1. <<>> \in Seq(Bytes) /\ Len(<<>>) = 0 OBVIOUS
<1>2. Decode(<<>>) = <<>>
  <2> DEFINE d == Decode(<<>>)
  <2>1. d \in Seq(Chars) /\ Len(d) \in Nat BY <1>1, DecodeIs
  <2>2. Reads(d, <<>>, Starts(<<>>)) BY <1>1, DecodeReads
  <2> HIDE DEF d
  <2>3. 1 \notin 1..Len(d)
    <3>1. 1 \in 1..Len(d) => Starts(<<>>)[1] \in 1..Len(<<>>) BY <2>2 DEF Reads
    <3>2. 1..Len(<<>>) = {} BY <1>1
    <3>3. QED BY <3>1, <3>2
  <2>4. Len(d) = 0 BY <2>1, <2>3
  <2>5. QED BY <2>1, <2>4 DEF d
<1>3. \A n : Places(<<>>, n) = {} BY <1>1 DEF Places
<1>4. ASSUME NEW B \in Seq(Bytes) PROVE <<>> \o B = B /\ <<>> \o Decode(B) = Decode(B)
  <2> DEFINE d == Decode(B)
  <2>1. d \in Seq(Chars) BY DecodeIs
  <2> HIDE DEF d
  <2>2. <<>> \o d = d BY <2>1
  <2>3. <<>> \o B = B OBVIOUS
  <2>4. QED BY <2>2, <2>3 DEF d
<1>5. QED BY <1>1, <1>2, <1>3, <1>4

Split(A, P, Q) ==
  /\ A = P \cup Q /\ P \cap Q = {} /\ Cardinality(A) = Cardinality(P) + Cardinality(Q)
  /\ Cardinality(P) \in Nat /\ Cardinality(Q) \in Nat

LEMMA SplitPlaces ==
  ASSUME NEW s \in Seq(Bytes), NEW B \in Seq(Bytes), NEW n \in Seq(Letters), Len(n) \in Nat \ {0},
         NEW P, P = Places(s, n), NEW Q, Q = EndingIn(s, B, n), NEW A, A = Places(s \o B, n)
  PROVE  Split(A, P, Q)
<1> DEFINE v == s \o B
           k == Len(n)
<1>1. /\ v \in Seq(Bytes) /\ Len(v) = Len(s) + Len(B) /\ Len(s) \in Nat /\ Len(B) \in Nat
      /\ k \in Nat \ {0} /\ \A i \in 1..Len(s) : v[i] = s[i]
  OBVIOUS
<1>2. \A i \in Nat \ {0} : IsAt(s, n, i) <=>
        i + k - 1 <= Len(s) /\ \A d \in 1..k : s[i + d - 1] = n[d]
  BY IsAtMeans
<1>3. \A i \in Nat \ {0} : IsAt(v, n, i) <=>
        i + k - 1 <= Len(v) /\ \A d \in 1..k : v[i + d - 1] = n[d]
  <2>1. v \in Seq(Bytes) BY <1>1
  <2> HIDE DEF v
  <2>2. \A i \in Nat \ {0} : IsAt(v, n, i) <=>
          i + Len(n) - 1 <= Len(v) /\ \A d \in 1..Len(n) : v[i + d - 1] = n[d]
    BY <2>1, IsAtMeans
  <2>3. QED BY <2>2
<1>4. /\ \A q : q \in A <=> q \in 1..Len(v) /\ IsAt(v, n, q)
      /\ \A q : q \in P <=> q \in 1..Len(s) /\ IsAt(s, n, q)
      /\ \A q : q \in Q <=> q \in A /\ q + k - 1 > Len(s)
  BY DEF EndingIn, Places
<1> HIDE DEF v, k
<1>5. ASSUME NEW q \in Nat \ {0}, q + k - 1 <= Len(s)
      PROVE  \A d \in 1..k : v[q + d - 1] = s[q + d - 1]
  <2>1. \A d \in 1..k : q + d - 1 \in 1..Len(s) BY <1>1, <1>5
  <2>2. QED BY <1>1, <2>1
<1>6. \A q \in P : q \in A /\ q + k - 1 <= Len(s)
  <2>1. SUFFICES ASSUME NEW q \in P PROVE q \in A /\ q + k - 1 <= Len(s)
    OBVIOUS
  <2>2. q \in 1..Len(s) /\ q \in Nat \ {0} /\ q + k - 1 <= Len(s) BY <1>2, <1>4
  <2>3. \A d \in 1..k : v[q + d - 1] = n[d] BY <1>2, <1>4, <1>5, <2>2
  <2>4. q \in 1..Len(v) /\ q + k - 1 <= Len(v) BY <1>1, <2>2
  <2>5. QED BY <1>3, <1>4, <2>2, <2>3, <2>4
<1>7. \A q \in A : q + k - 1 > Len(s) \/ q \in P
  <2>1. SUFFICES ASSUME NEW q \in A, ~(q + k - 1 > Len(s)) PROVE q \in P
    OBVIOUS
  <2>2. q \in Nat \ {0} BY <1>4
  <2>3. q + k - 1 <= Len(s) /\ q \in 1..Len(s) BY <1>1, <2>1, <2>2
  <2>4. \A d \in 1..k : s[q + d - 1] = n[d] BY <1>3, <1>4, <1>5, <2>2, <2>3
  <2>5. QED BY <1>2, <1>4, <2>2, <2>3, <2>4
<1>8. A = P \cup Q BY <1>4, <1>6, <1>7
<1>9. P \cap Q = {}
  <2>1. \A q \in Q : q \in Nat /\ q + k - 1 > Len(s) BY <1>4
  <2>2. \A q \in P : q + k - 1 <= Len(s) BY <1>6
  <2>3. QED BY <1>1, <2>1, <2>2
<1>10. IsFiniteSet(P) /\ IsFiniteSet(Q)
  <2>1. P \subseteq 1..Len(v) /\ Q \subseteq 1..Len(v) BY <1>4, <1>6
  <2>2. IsFiniteSet(1..Len(v)) BY <1>1, FS_Interval
  <2>3. QED BY <2>1, <2>2, FS_Subset
<1>11. Cardinality(P) \in Nat /\ Cardinality(Q) \in Nat BY <1>10, FS_CardinalityType
<1>12. Cardinality(P \cap Q) = 0 BY <1>9, FS_EmptySet
<1>13. Cardinality(P \cup Q) = Cardinality(P) + Cardinality(Q) - Cardinality(P \cap Q)
  BY <1>10, FS_Union
<1>14. QED BY <1>8, <1>9, <1>11, <1>12, <1>13 DEF Split

(* The count of a file after a block.                                         *)
CountIs(count, v, n) ==
  /\ count \in Nat /\ (Places(v, n) # {} => count > 0)
  /\ Apart(v, n) => count = Cardinality(Places(v, n))

LEMMA CountAfter ==
  ASSUME TInv, SInv, ~scan.useGrep, NEW p \in Paths, NEW T \in Seq(Bytes), NEW B \in Seq(Bytes),
         EndsWith(seen[p], T), LongEnough(seen[p], T, Overlap),
         NEW n \in Needles, OneByte(n),
         NEW v, v = seen[p] \o B,
         NEW count,
         count = CountedFor(p, Decode(T) \o Decode(B), Len(Decode(T)), n).count
  PROVE  CountIs(count, v, n)
<1> DEFINE s == seen[p]
           text == Decode(T) \o Decode(B)
           c == Count(text, n, Skipped(Len(Decode(T)), n))
           P == Places(s, n)
           Q == EndingIn(s, B, n)
           A == Places(v, n)
<1>1. TypeOK /\ Typed /\ Searched /\ EachIsCountedOnce BY DEF TInv, SInv
<1>2. s \in Seq(Bytes) BY <1>1 DEF TypeOK
<1>3. /\ n \in Seq(Letters) /\ Len(n) \in Nat \ {0} /\ Len(n) <= Overlap /\ Overlap \in Nat
  <2>1. /\ Words(Needles) /\ Needles \subseteq Seq(Chars \ {"newline"}) /\ Overlap \in Nat
        /\ Len(n) <= Overlap
    BY <1>1, TypedFacts, NeedlesAre
  <2>2. n \in Seq(Letters) BY <2>1, OneByteIs
  <2>3. QED BY <2>1, <2>2 DEF Words
<1>4. LongEnough(s, T, Len(n))
  <2>1. Len(T) \in Nat OBVIOUS
  <2>2. QED BY <1>3, <2>1 DEF LongEnough
<1>5. count = c + Earlier(p, n) BY DEF CountedFor
<1>6. Earlier(p, n) \in Nat /\ \A m \in Before(p, n) : Earlier(p, n) = m.count BY <1>1, EarlierIs
<1> HIDE DEF s, text, c, P, Q, A
<1>7. c \in Nat /\ (c > 0 <=> Q # {}) /\ (Apart(s \o B, n) => c = Cardinality(Q))
  <2>1. /\ text = Decode(T) \o Decode(B) /\ Q = EndingIn(s, B, n)
        /\ c = Count(text, n, Skipped(Len(Decode(T)), n)) /\ EndsWith(s, T)
    BY DEF text, Q, c, s
  <2>2. n \in Seq(Letters) /\ Len(n) \in Nat \ {0} BY <1>3
  <2>3. Counts(c, Q, s \o B, n) BY <1>2, <1>4, <2>1, <2>2, ChunkCount
  <2>4. QED BY <2>3 DEF Counts
<1>8. /\ A = P \cup Q /\ P \cap Q = {} /\ Cardinality(A) = Cardinality(P) + Cardinality(Q)
      /\ Cardinality(P) \in Nat /\ Cardinality(Q) \in Nat
  <2>1. P = Places(s, n) /\ Q = EndingIn(s, B, n) /\ A = Places(s \o B, n)
    BY DEF P, Q, A, s
  <2>2. n \in Seq(Letters) /\ Len(n) \in Nat \ {0} BY <1>3
  <2>3. Split(A, P, Q)
    <3>1. A = Places(v, n) /\ v = s \o B BY DEF A, s
    <3>2. QED BY <1>2, <2>1, <2>2, <3>1, SplitPlaces
  <2>4. QED BY <2>3 DEF Split
<1>9. ASSUME A # {} PROVE count > 0
  <2>1. CASE Q # {}
    <3>1. c > 0 BY <1>7, <2>1
    <3>2. QED BY <1>5, <1>6, <1>7, <3>1
  <2>2. CASE P # {}
    <3>1. Found(s, n) BY <2>2 DEF Found, P
    <3>2. PICK m \in matches : m.needle = n /\ m.path = p
      BY <1>1, <3>1 DEF Searched, Matched, s
    <3>3. m \in Before(p, n) /\ m.count \in Nat \ {0} BY <1>1, <3>2 DEF Before, TypeOK
    <3>4. Earlier(p, n) = m.count BY <1>6, <3>3
    <3>5. QED BY <1>5, <1>7, <3>3, <3>4
  <2>3. QED BY <1>8, <1>9, <2>1, <2>2
<1>10. ASSUME Apart(v, n) PROVE count = Cardinality(A)
  <2>1. v = s \o B BY DEF s
  <2>2. Apart(s, n) BY <1>8, <1>10 DEF Apart, A, P
  <2>3. {m.count : m \in {x \in matches : x.needle = n /\ x.path = p}} = {Cardinality(P)} \ {0}
    BY <1>1, <2>2 DEF EachIsCountedOnce, s, P
  <2>4. {m.count : m \in Before(p, n)} = {Cardinality(P)} \ {0} BY <2>3 DEF Before
  <2>5. Earlier(p, n) = Cardinality(P)
    <3>1. CASE Before(p, n) = {}
      <4>1. {Cardinality(P)} \ {0} = {} BY <2>4, <3>1
      <4>2. Earlier(p, n) = 0 BY <3>1 DEF Earlier
      <4>3. QED BY <4>1, <4>2
    <3>2. CASE Before(p, n) # {}
      <4>1. PICK m \in Before(p, n) : TRUE BY <3>2
      <4>2. m.count \in {Cardinality(P)} \ {0} BY <2>4
      <4>3. QED BY <1>6, <4>2
    <3>3. QED BY <3>1, <3>2
  <2>6. c = Cardinality(Q) BY <1>7, <1>10, <2>1
  <2>7. QED BY <1>5, <1>8, <2>5, <2>6
<1>11. count \in Nat BY <1>5, <1>6, <1>7
<1>12. QED BY <1>9, <1>10, <1>11 DEF A, CountIs

MatchesOf(M, n, p) == {m \in M : m.needle = n /\ m.path = p}

Replaced(M, n, p, new) ==
  /\ \A q : q # p => MatchesOf(M, n, q) = MatchesOf(matches, n, q)
  /\ MatchesOf(M, n, p) = {m \in {new} : m.count > 0}

LEMMA CountedMatches ==
  ASSUME NEW p, NEW text, NEW skip, NEW n \in Needles, NEW M, M = Counted(p, text, skip)
  PROVE  Replaced(M, n, p, CountedFor(p, text, skip, n))
<1> DEFINE new == {m \in {CountedFor(p, text, skip, x) : x \in Needles} : m.count > 0}
<1>1. M = {m \in matches : m.path # p} \cup new BY CountedIs
<1>2. \A x : CountedFor(p, text, skip, x).needle = x /\ CountedFor(p, text, skip, x).path = p
  BY DEF CountedFor
<1>3. \A m \in new : m.path = p /\ m = CountedFor(p, text, skip, m.needle) /\ m.count > 0
  BY <1>2
<1>4. \A m \in M : m \in new <=> m.path = p BY <1>1, <1>3
<1>5. \A q : q # p => MatchesOf(M, n, q) = MatchesOf(matches, n, q)
  BY <1>1, <1>3 DEF MatchesOf
<1>6. CountedFor(p, text, skip, n).count > 0 => CountedFor(p, text, skip, n) \in new OBVIOUS
<1> HIDE DEF new
<1>7. MatchesOf(M, n, p) \subseteq {m \in {CountedFor(p, text, skip, n)} : m.count > 0}
  BY <1>3, <1>4 DEF MatchesOf
<1>8. {m \in {CountedFor(p, text, skip, n)} : m.count > 0} \subseteq MatchesOf(M, n, p)
  BY <1>1, <1>2, <1>6 DEF MatchesOf
<1>9. QED BY <1>5, <1>7, <1>8 DEF Replaced

LEMMA CountedKeeps ==
  ASSUME TInv, SInv, ~scan.useGrep, NEW p \in Paths, NEW T \in Seq(Bytes), NEW B \in Seq(Bytes),
         EndsWith(seen[p], T), LongEnough(seen[p], T, Overlap),
         matches' = Counted(p, Decode(T) \o Decode(B), Len(Decode(T))),
         seen' = [seen EXCEPT ![p] = seen[p] \o B], scan' = scan
  PROVE  Searched' /\ EachIsCountedOnce'
<1> DEFINE text == Decode(T) \o Decode(B)
           skip == Len(Decode(T))
           v == seen[p] \o B
           new(n) == CountedFor(p, text, skip, n)
<1>1. TypeOK /\ Searched /\ EachIsCountedOnce BY DEF TInv, SInv
<1>2. scan'.keyring = scan.keyring OBVIOUS
<1>3. Needles' = Needles BY <1>2, SameKeyring
<1>4. seen'[p] = v /\ \A q \in Paths : q # p => seen'[q] = seen[q] BY <1>1 DEF TypeOK
<1>5. \A n \in Needles : /\ \A q : q # p => MatchesOf(matches', n, q) = MatchesOf(matches, n, q)
                         /\ MatchesOf(matches', n, p) = {m \in {new(n)} : m.count > 0}
  <2>1. matches' = Counted(p, text, skip) OBVIOUS
  <2> HIDE DEF text, skip
  <2>2. \A n \in Needles : Replaced(matches', n, p, new(n)) BY <2>1, CountedMatches
  <2>3. QED BY <2>2 DEF Replaced
<1>6. ASSUME NEW n \in Needles, OneByte(n)
      PROVE  /\ new(n).count \in Nat /\ (Places(v, n) # {} => new(n).count > 0)
             /\ Apart(v, n) => new(n).count = Cardinality(Places(v, n))
  <2> DEFINE count == new(n).count
  <2>1. count = CountedFor(p, Decode(T) \o Decode(B), Len(Decode(T)), n).count OBVIOUS
  <2> HIDE DEF count
  <2>2. CountIs(count, v, n) BY <1>6, <2>1, CountAfter
  <2>3. QED BY <2>2 DEF CountIs, count
<1> HIDE DEF text, skip, v, new
<1>7. Searched'
  <2>1. SUFFICES ASSUME NEW n \in Needles, NEW q \in Paths, Found(seen[q], n)'
                 PROVE  MatchesOf(matches', n, q) # {}
    BY <1>3 DEF Searched, Matched, MatchesOf
  <2>2. OneByte(n) /\ Places(seen'[q], n) # {} BY <2>1 DEF Found
  <2>3. CASE q = p
    <3>1. new(n).count > 0 BY <1>4, <1>6, <2>2, <2>3
    <3>2. QED BY <1>5, <2>3, <3>1
  <2>4. CASE q # p
    <3>1. Found(seen[q], n) BY <1>4, <2>2, <2>4 DEF Found
    <3>2. MatchesOf(matches, n, q) # {} BY <1>1, <3>1 DEF Searched, Matched, MatchesOf
    <3>3. QED BY <1>5, <2>4, <3>2
  <2>5. QED BY <2>3, <2>4
<1>8. EachIsCountedOnce'
  <2>1. SUFFICES ASSUME NEW n \in Needles, NEW q \in Paths, OneByte(n), Apart(seen'[q], n)
                 PROVE  {m.count : m \in MatchesOf(matches', n, q)}
                          = {Cardinality(Places(seen'[q], n))} \ {0}
    BY <1>3, Zenon DEF EachIsCountedOnce, MatchesOf
  <2>2. CASE q = p
    <3>1. new(n).count \in Nat /\ new(n).count = Cardinality(Places(seen'[q], n))
      BY <1>4, <1>6, <2>1, <2>2
    <3>2. MatchesOf(matches', n, q) = {m \in {new(n)} : m.count > 0} BY <1>5, <2>2
    <3>3. QED BY <3>1, <3>2
  <2>3. CASE q # p
    <3>1. MatchesOf(matches', n, q) = MatchesOf(matches, n, q) BY <1>5, <2>3
    <3>2. seen'[q] = seen[q] BY <1>4, <2>3
    <3>3. {m.count : m \in MatchesOf(matches, n, q)} = {Cardinality(Places(seen[q], n))} \ {0}
      BY <1>1, <2>1, <3>2 DEF EachIsCountedOnce, MatchesOf
    <3>4. QED BY <3>1, <3>2, <3>3
  <2>4. QED BY <2>2, <2>3
<1>9. QED BY <1>7, <1>8

Blank == matches = {} /\ \A p \in Paths : seen[p] = <<>>

LEMMA BlankSearched == Blank => Searched /\ EachIsCountedOnce
<1>1. SUFFICES ASSUME Blank PROVE Searched /\ EachIsCountedOnce
  OBVIOUS
<1>2. \A n, p : p \in Paths => Places(seen[p], n) = {} BY <1>1, EmptyTexts DEF Blank
<1>3. Searched BY <1>2 DEF Searched, Found
<1>4. EachIsCountedOnce
  <2>1. SUFFICES ASSUME NEW n \in Needles, NEW p \in Paths
                 PROVE  {m.count : m \in {x \in matches : x.needle = n /\ x.path = p}}
                          = {Cardinality(Places(seen[p], n))} \ {0}
    BY DEF EachIsCountedOnce
  <2>2. Cardinality(Places(seen[p], n)) = 0 BY <1>2, FS_EmptySet
  <2>3. QED BY <1>1, <2>2 DEF Blank
<1>5. QED BY <1>3, <1>4

LEMMA RowsPrefix ==
  ASSUME Typed, NEW x \in AllCells, NEW i \in 0..Len(cells)
  PROVE  SubSeq(Append(cells, x), 1, i) = SubSeq(cells, 1, i)
<1> DEFINE a == SubSeq(Append(cells, x), 1, i)
           b == SubSeq(cells, 1, i)
<1>1. cells \in Seq(AllCells) BY DEF Typed
<1>2. Append(cells, x) \in Seq(AllCells) /\ Len(Append(cells, x)) = Len(cells) + 1 BY <1>1
<1>3. a \in Seq(AllCells) /\ b \in Seq(AllCells) /\ Len(a) = i /\ Len(b) = i
      /\ \A j \in 1..i : a[j] = Append(cells, x)[j] /\ b[j] = cells[j]
  BY <1>1, <1>2
<1>4. \A j \in 1..i : Append(cells, x)[j] = cells[j] BY <1>1
<1> HIDE DEF a, b
<1>5. a = [j \in 1..i |-> a[j]] /\ b = [j \in 1..i |-> b[j]] BY <1>3
<1>6. a = b BY <1>3, <1>4, <1>5
<1>7. QED BY <1>6 DEF a, b

LEMMA SearchedInit == Init => SInv
<1>1. SUFFICES ASSUME Init PROVE SInv
  OBVIOUS
<1>2. /\ pc = "start" /\ matches = {} /\ seen = [p \in Paths |-> <<>>] BY <1>1 DEF Init
<1>3. Blank /\ Unread /\ Reading BY <1>2 DEF Blank, Unread, Reading
<1>4. QED BY <1>3, BlankSearched DEF SInv

(* A step that searches nothing.                                              *)
LEMMA NotSearching ==
  ASSUME SInv, UNCHANGED <<scan, seen, matches>>,
         \A p \in todo' : seen[p] = <<>>,
         \/ pc' \notin {"start", "block"}
         \/ UNCHANGED <<pc, reader>>
  PROVE  SInv'
<1>1. scan'.keyring = scan.keyring OBVIOUS
<1>2. Needles' = Needles /\ Overlap' = Overlap BY <1>1, SameKeyring
<1>3. Searched' BY <1>2 DEF SInv, Searched, Found, Plain, Matched
<1>4. EachIsCountedOnce' BY <1>2 DEF SInv, EachIsCountedOnce
<1>5. Unread' BY DEF SInv, Unread
<1>6. Reading' BY <1>2 DEF SInv, Reading
<1>7. QED BY <1>3, <1>4, <1>5, <1>6 DEF SInv

LEMMA SearchedStart == TInv /\ SInv /\ Start => SInv'
<1>1. SUFFICES ASSUME TInv, SInv, Start PROVE SInv'
  OBVIOUS
<1>2. pc = "start" /\ pc' \notin {"start", "block"} /\ UNCHANGED <<scan, seen, matches>>
  BY <1>1 DEF Start
<1>3. \A p \in todo' : seen[p] = <<>>
  <2>1. todo' \subseteq Paths BY <1>1 DEF Start, Targets, Paths
  <2>2. QED BY <1>1, <1>2, <2>1 DEF SInv, Unread
<1>4. QED BY <1>1, <1>2, <1>3, NotSearching

Reports ==
  \/ StartFails \/ Located \/ Finish \/ OpenStore \/ ReportStore \/ UNCHANGED vars
  \/ \E table \in Tables : ReadTable(table)
  \/ \E m \in hits : Report(m)

LEMMA SearchedElse == TInv /\ SInv /\ (Reports \/ Agents) => SInv'
<1>1. SUFFICES ASSUME TInv, SInv, Reports \/ Agents PROVE SInv'
  OBVIOUS
<1>2. /\ UNCHANGED <<scan, seen, matches, todo>>
      /\ pc' \notin {"start", "block"} \/ UNCHANGED <<pc, reader>>
  <2>1. CASE Reports
    BY <2>1 DEF Reports, StartFails, Located, Finish, OpenStore, ReportStore, ReadTable, Report, vars
  <2>2. CASE Agents BY <2>2, AgentsElsewhere
  <2>3. QED BY <1>1, <2>1, <2>2
<1>3. \A p \in todo' : seen[p] = <<>> BY <1>1, <1>2 DEF SInv, Unread, TInv, TypeOK
<1>4. QED BY <1>1, <1>2, <1>3, NotSearching

(* A needle that no other one overlaps is printed by grep.                    *)
LEMMA GrepFinds ==
  ASSUME TypeOK, Typed, NEW p \in Paths, NEW n \in Needles, scan.useGrep, Found(RawBytes(p), n)
  PROVE  GrepFor(p, n) \in Grepped(p)
<1> DEFINE W == {Encode(x) : x \in Needles}
           raw == RawBytes(p)
<1>1. PICK i \in Places(raw, n) : Plain(raw, n, i) BY DEF Found
<1>2. Words(W) /\ Encode(n) = n /\ n \in W /\ Len(raw) \in Nat
  <2>1. Encode(n) = n BY EncodedWords DEF Found
  <2>2. QED BY <2>1, EncodedWords, RawIs
<1>3. \A m \in W : \A j \in Places(raw, m) :
        (m = n /\ j = i) \/ j + Len(m) <= i \/ i + Len(n) <= j
  <2>1. SUFFICES ASSUME NEW x \in Needles, NEW j \in Places(raw, Encode(x))
                 PROVE  (Encode(x) = n /\ j = i) \/ j + Len(Encode(x)) <= i \/ i + Len(n) <= j
    OBVIOUS
  <2>2. (x = n /\ j = i) \/ j + Len(Encode(x)) <= i \/ i + Len(n) <= j BY <1>1 DEF Plain
  <2>3. QED BY <1>2, <2>2
<1> HIDE DEF W, raw
<1>4. [at |-> i, needle |-> n] \in Occurrences(raw, W, 0) BY <1>2, <1>3, PlainIsFound
<1>5. Printed(p, n) = {o \in Occurrences(raw, W, 0) : o.needle = n}
  BY <1>2 DEF Printed, W, raw
<1>6. Printed(p, n) # {} BY <1>4, <1>5
<1>7. Cardinality(Printed(p, n)) > 0
  <2> DEFINE P == Printed(p, n)
  <2>1. P \subseteq Occurrences(raw, W, 0) /\ P # {} BY <1>5, <1>6
  <2> HIDE DEF P
  <2>2. Sized(P) BY <1>2, <2>1, PrintedIsFinite
  <2>3. QED BY <2>1, <2>2 DEF P, Sized
<1>8. GrepFor(p, n).count > 0 BY <1>7 DEF GrepFor
<1>9. QED BY <1>8 DEF Grepped

LEMMA SearchedGrep == ASSUME NEW p \in Paths PROVE TInv /\ SInv /\ Grep(p) => SInv'
<1>1. SUFFICES ASSUME TInv, SInv, Grep(p) PROVE SInv'
  OBVIOUS
<1>2. /\ pc = "match" /\ p \in todo /\ scan.useGrep /\ matches' = matches \cup Grepped(p)
      /\ seen' = [seen EXCEPT ![p] = RawBytes(p)] /\ todo' = todo \ {p}
      /\ UNCHANGED <<scan, pc, reader>>
  BY <1>1 DEF Grep, Grepped, GrepFor, Printed, NonZero
<1>3. TypeOK /\ Typed /\ Searched /\ Unread BY <1>1 DEF TInv, SInv
<1>4. /\ seen'[p] = RawBytes(p) /\ \A q \in Paths : q # p => seen'[q] = seen[q]
  BY <1>2, <1>3 DEF TypeOK
<1>5. scan'.keyring = scan.keyring /\ scan'.useGrep = scan.useGrep BY <1>2
<1>6. Needles' = Needles BY <1>5, SameKeyring
<1>7. Searched'
  <2>1. SUFFICES ASSUME NEW n \in Needles, NEW q \in Paths, Found(seen'[q], n)
                 PROVE  \E m \in matches' : m.needle = n /\ m.path = q
    BY <1>5, <1>6, <2>1 DEF Searched, Matched, Found, Plain
  <2>2. CASE q = p
    <3>1. GrepFor(p, n) \in Grepped(p) BY <1>2, <1>3, <1>4, <2>1, <2>2, GrepFinds
    <3>2. GrepFor(p, n).needle = n /\ GrepFor(p, n).path = p BY DEF GrepFor
    <3>3. QED BY <1>2, <2>2, <3>1, <3>2
  <2>3. CASE q # p BY <1>2, <1>3, <1>4, <2>1, <2>3 DEF Searched, Matched
  <2>4. QED BY <2>2, <2>3
<1>8. EachIsCountedOnce' BY <1>2, <1>5 DEF EachIsCountedOnce
<1>9. Unread' BY <1>2, <1>3, <1>4 DEF Unread
<1>10. Reading' BY <1>2 DEF Reading
<1>11. QED BY <1>7, <1>8, <1>9, <1>10 DEF SInv

LEMMA SearchedGrepFails == GrepFails => SInv'
<1>1. SUFFICES ASSUME GrepFails PROVE SInv'
  OBVIOUS
<1>2. pc' = "match" /\ matches' = {} /\ seen' = [q \in Paths |-> <<>>] BY <1>1 DEF GrepFails
<1>3. Blank' /\ Unread' /\ Reading' BY <1>2 DEF Blank, Unread, Reading
<1>4. (Searched /\ EachIsCountedOnce)' BY <1>3, BlankSearched, PTL
<1>5. QED BY <1>3, <1>4 DEF SInv

(* What is read of a file ends with a line.                                   *)
LEMMA RawEnds ==
  ASSUME TypeOK, Typed, NEW p \in Paths, Len(RawBytes(p)) > 0
  PROVE  RawBytes(p)[Len(RawBytes(p))] = "newline"
<1> DEFINE Ends(X, lines) == /\ Written(X) /\ lines \in Seq(X) /\ RawBytes(p) = Joined(lines)
<1>1. PICK X, lines : Ends(X, lines)
  <2>1. CASE p = Database
    <3>1. RawBytes(p) = Joined(SubSeq(cells, 1, synced)) BY <2>1 DEF RawBytes
    <3>2. SubSeq(cells, 1, synced) \in Seq(AllCells) BY DEF Typed, TypeOK
    <3>3. QED BY <3>1, <3>2, AllWritten, Zenon
  <2>2. CASE p # Database
    <3>1. RawBytes(p) = Joined(file[p]) BY <2>2 DEF RawBytes
    <3>2. file[p] \in Seq(LinesOf) BY <2>2 DEF Typed, Paths
    <3>3. QED BY <3>1, <3>2, AllWritten, Zenon
  <2>3. QED BY <2>1, <2>2
<1>2. CASE lines = <<>>
  <2>1. RawBytes(p) = <<>> BY <1>1, <1>2, JoinedNone
  <2>2. Len(<<>>) = 0 OBVIOUS
  <2>3. QED BY <2>1, <2>2
<1>3. CASE lines # <<>> BY <1>1, <1>3, JoinedFacts
<1>4. QED BY <1>2, <1>3

LEMMA TailEnds ==
  ASSUME NEW s \in Seq(Bytes), NEW b \in Seq(Bytes), Overlap \in Nat
  PROVE  EndsWith(s \o b, TailOf(b))
<1> DEFINE t == TailOf(b)
           v == s \o b
<1>1. /\ t \in Seq(Bytes) /\ Len(t) \in Nat /\ Len(t) <= Len(b)
      /\ \A i \in 1..Len(t) : t[i] = b[Len(b) - Len(t) + i]
  <2>1. /\ t \in Seq(Bytes) /\ Len(t) = IF Len(b) < Overlap THEN Len(b) ELSE Overlap
        /\ \A i \in 1..Len(t) : t[i] = b[Len(b) - Len(t) + i]
    BY TailIs
  <2> HIDE DEF t
  <2>2. Len(b) \in Nat OBVIOUS
  <2>3. Len(t) \in Nat /\ Len(t) <= Len(b) BY <2>1, <2>2
  <2>4. QED BY <2>1, <2>3, Zenon
<1> HIDE DEF t
<1>2. /\ Len(v) = Len(s) + Len(b) /\ Len(s) \in Nat /\ Len(b) \in Nat
      /\ \A i \in 1..Len(b) : v[Len(s) + i] = b[i]
  OBVIOUS
<1> HIDE DEF v
<1>3. ASSUME NEW i \in 1..Len(t) PROVE t[i] = v[Len(v) - Len(t) + i]
  <2> DEFINE j == Len(b) - Len(t) + i
  <2>1. j \in 1..Len(b) /\ Len(v) - Len(t) + i = Len(s) + j BY <1>1, <1>2
  <2> HIDE DEF j
  <2>2. v[Len(s) + j] = b[j] BY <1>2, <2>1
  <2>3. t[i] = b[j] BY <1>1 DEF j
  <2>4. QED BY <2>1, <2>2, <2>3
<1>4. Len(t) <= Len(v) BY <1>1, <1>2
<1>5. EndsWith(v, t) BY <1>3, <1>4 DEF EndsWith
<1>6. QED BY <1>5 DEF v, t

LEMMA SearchedReadFile == ASSUME NEW p \in Paths PROVE TInv /\ SInv /\ ReadFile(p) => SInv'
<1>1. SUFFICES ASSUME TInv, SInv, ReadFile(p) PROVE SInv'
  OBVIOUS
<1>2. /\ pc = "match" /\ p \in todo /\ ~scan.useGrep /\ todo' = todo \ {p}
      /\ UNCHANGED scan
  BY <1>1 DEF ReadFile
<1>3. TypeOK /\ Typed /\ Searched /\ EachIsCountedOnce /\ Unread BY <1>1 DEF TInv, SInv
<1>4. seen[p] = <<>> BY <1>2, <1>3 DEF Unread
<1>5. /\ EndsWith(seen[p], <<>>) /\ LongEnough(seen[p], <<>>, Overlap)
      /\ Len(seen[p]) = 0 /\ Len(<<>>) = 0
  <2>1. Len(<<>>) = 0 /\ 1..0 = {} OBVIOUS
  <2>2. QED BY <1>4, <2>1 DEF EndsWith, LongEnough
<1>6. CASE Len(RawBytes(p)) <= ReadChunk
  <2>1. /\ matches' = Counted(p, Decode(RawBytes(p)), 0) /\ UNCHANGED <<pc, reader>>
        /\ seen' = [seen EXCEPT ![p] = RawBytes(p)]
    BY <1>1, <1>6 DEF ReadFile
  <2>2. RawBytes(p) \in Seq(Bytes) BY <1>3, RawIs
  <2>3. /\ matches' = Counted(p, Decode(<<>>) \o Decode(RawBytes(p)), Len(Decode(<<>>)))
        /\ seen' = [seen EXCEPT ![p] = seen[p] \o RawBytes(p)]
        /\ <<>> \in Seq(Bytes)
    BY <1>4, <2>1, <2>2, EmptyTexts
  <2>4. Searched' /\ EachIsCountedOnce'
    BY <1>1, <1>2, <1>5, <2>2, <2>3, CountedKeeps
  <2>5. /\ seen'[p] = RawBytes(p) /\ \A q \in Paths : q # p => seen'[q] = seen[q]
    BY <1>3, <2>1 DEF TypeOK
  <2>6. Unread' BY <1>2, <1>3, <2>1, <2>5 DEF Unread
  <2>7. Reading' BY <1>2, <2>1 DEF Reading
  <2>8. QED BY <2>4, <2>6, <2>7 DEF SInv
<1>7. CASE ~(Len(RawBytes(p)) <= ReadChunk)
  <2>1. /\ reader' = [path |-> p, pos |-> 0, tail |-> <<>>] /\ pc' = "block"
        /\ UNCHANGED <<matches, seen>>
    BY <1>1, <1>7 DEF ReadFile
  <2>2. scan'.keyring = scan.keyring BY <1>2
  <2>3. Needles' = Needles /\ Overlap' = Overlap BY <2>2, SameKeyring
  <2>4. Searched' /\ EachIsCountedOnce' /\ Unread'
    <3>1. Searched' BY <1>2, <1>3, <2>1, <2>3 DEF Searched, Found, Plain, Matched
    <3>2. EachIsCountedOnce' BY <1>2, <1>3, <2>1, <2>3 DEF EachIsCountedOnce
    <3>3. Unread' BY <1>2, <1>3, <2>1 DEF Unread
    <3>4. QED BY <3>1, <3>2, <3>3
  <2>5. Reading'
    <3>1. reader'.path = p /\ reader'.pos = 0 /\ reader'.tail = <<>> BY <2>1
    <3>2. seen'[reader'.path] = seen[p] BY <2>1, <3>1
    <3>3. QED BY <1>2, <1>5, <2>3, <3>1, <3>2 DEF Reading
  <2>6. QED BY <2>4, <2>5 DEF SInv
<1>8. QED BY <1>6, <1>7

LEMMA SearchedReadBlock == TInv /\ SInv /\ ReadBlock => SInv'
<1>1. SUFFICES ASSUME TInv, SInv, ReadBlock PROVE SInv'
  OBVIOUS
<1>2. /\ pc = "block" /\ UNCHANGED <<scan, todo>>
  BY <1>1, ReadBlockIs
<1>3. /\ TypeOK /\ Typed /\ Phases /\ Reading /\ Unread BY <1>1 DEF TInv, SInv
<1>4. CASE Left <= 0
  <2>1. pc' = "match" /\ UNCHANGED <<matches, seen>> BY <1>1, <1>4, ReadBlockIs
  <2>2. \A q \in todo' : seen[q] = <<>> BY <1>2, <1>3 DEF TypeOK, Unread
  <2>3. QED BY <1>1, <1>2, <2>1, <2>2, NotSearching
<1>5. CASE ~(Left <= 0)
  <2> DEFINE p == reader.path
             s == seen[p]
             raw == RawBytes(p)
  <2>1. /\ matches' = Counted(p, Decode(reader.tail) \o Decode(Block), Len(Decode(reader.tail)))
        /\ reader' = [reader EXCEPT !.pos = reader.pos + Len(Block), !.tail = TailOf(Block)]
        /\ seen' = [seen EXCEPT ![p] = s \o Block] /\ pc' = pc
    BY <1>1, <1>5, ReadBlockIs
  <2>2. Left > 0 /\ p \in Paths /\ raw \in Seq(Bytes) /\ Len(raw) \in Nat
    <3>1. p \in Paths /\ reader.pos \in Nat BY <1>3 DEF TypeOK, Spots
    <3>2. raw \in Seq(Bytes) /\ Len(raw) \in Nat BY <1>3, <3>1, RawIs
    <3>3. Left \in Int BY <3>1, <3>2 DEF Left
    <3>4. QED BY <1>5, <3>1, <3>2, <3>3
  <2>3. /\ Block \in Seq(Bytes) /\ reader.tail \in Seq(Bytes)
        /\ Left \in Nat /\ reader.pos \in Nat
        /\ Len(Block) = IF Left < ReadChunk THEN Left ELSE ReadChunk
        /\ \A i \in 1..Len(Block) : Block[i] = raw[reader.pos + i]
    BY <1>3, <2>2, BlockIs
  <2>4. /\ ~scan.useGrep /\ Len(s) = reader.pos /\ s \in Seq(Bytes)
        /\ EndsWith(s, reader.tail) /\ LongEnough(s, reader.tail, Overlap)
    BY <1>2, <1>3, <2>2 DEF Reading, TypeOK
  <2>5. Searched' /\ EachIsCountedOnce'
    BY <1>1, <1>2, <2>1, <2>2, <2>3, <2>4, CountedKeeps
  <2>6. seen'[p] = s \o Block /\ \A q \in Paths : q # p => seen'[q] = seen[q]
    BY <1>3, <2>1, <2>2 DEF TypeOK
  <2>7. Overlap \in Nat /\ Overlap <= ReadChunk /\ ReadChunk \in Nat
    BY <1>2, <1>3, TypedFacts, NeedlesAre, NumbersAssumption DEF Phases
  <2>8. /\ Len(Block) \in Nat /\ Len(s) \in Nat /\ Len(s \o Block) = Len(s) + Len(Block)
        /\ Len(Block) > 0 => (s \o Block)[Len(s) + Len(Block)] = Block[Len(Block)]
    <3>1. s \in Seq(Bytes) /\ Block \in Seq(Bytes) BY <2>3, <2>4
    <3> HIDE DEF s
    <3>2. QED BY <3>1
  <2>9. Left = Len(raw) - reader.pos BY DEF Left
  <2> HIDE DEF raw, s
  <2>10. LongEnough(s \o Block, TailOf(Block), Overlap)
    <3>1. Len(TailOf(Block)) = IF Len(Block) < Overlap THEN Len(Block) ELSE Overlap
      BY <2>3, <2>7, TailIs
    <3>2. CASE ~(Len(Block) < Overlap) BY <2>7, <3>1, <3>2 DEF LongEnough
    <3>3. CASE Len(Block) < Overlap
      <4>1. Len(Block) = Left BY <2>3, <2>7, <3>3
      <4>2. Len(Block) > 0 /\ Len(raw) > 0 /\ Len(raw) = reader.pos + Len(Block)
        BY <2>2, <2>3, <2>9, <4>1
      <4>3. raw[Len(raw)] = "newline" BY <1>3, <2>2, <4>2, RawEnds DEF raw
      <4>4. Block[Len(Block)] = raw[Len(raw)]
        <5>1. Len(Block) \in 1..Len(Block) BY <2>8, <4>2
        <5>2. Block[Len(Block)] = raw[reader.pos + Len(Block)] BY <2>3, <5>1, Zenon
        <5>3. QED BY <4>2, <5>2
      <4>5. (s \o Block)[Len(s \o Block)] = "newline" BY <2>8, <4>2, <4>3, <4>4
      <4>6. QED BY <4>5 DEF LongEnough
    <3>4. QED BY <3>2, <3>3
  <2>11. EndsWith(s \o Block, TailOf(Block)) BY <2>3, <2>4, <2>7, TailEnds DEF s
  <2>12. /\ reader'.path = p /\ reader'.pos = Len(s) + Len(Block) /\ reader'.tail = TailOf(Block)
    <3> DEFINE n == reader.pos + Len(Block)
               t == TailOf(Block)
    <3>1. reader \in [path : Paths, pos : Nat, tail : Seq(Bytes)] BY <1>3 DEF TypeOK, Spots
    <3>2. reader' = [reader EXCEPT !.pos = n, !.tail = t] BY <2>1
    <3> HIDE DEF n, t
    <3>3. reader' = [path |-> reader.path, pos |-> n, tail |-> t] BY <3>1, <3>2
    <3>4. QED BY <2>4, <3>3 DEF n, t
  <2>13. scan'.keyring = scan.keyring /\ scan'.useGrep = scan.useGrep BY <1>2
  <2>14. Overlap' = Overlap BY <2>13, SameKeyring
  <2>15. Reading'
    <3>1. seen'[reader'.path] = s \o Block BY <2>6, <2>12
    <3>2. QED BY <2>4, <2>8, <2>10, <2>11, <2>12, <2>13, <2>14, <3>1 DEF Reading
  <2>16. Unread'
    <3>1. p \notin todo /\ pc' # "start" BY <1>2, <1>3, <2>1 DEF Phases
    <3>2. \A q \in Paths : q \in todo' => q # p /\ seen[q] = <<>> BY <1>2, <1>3, <3>1 DEF Unread
    <3>3. QED BY <2>6, <3>1, <3>2 DEF Unread
  <2>17. QED BY <2>5, <2>15, <2>16 DEF SInv
<1>6. QED BY <1>4, <1>5

LEMMA SearchedNext == TInv /\ SInv /\ [Next]_vars => SInv'
<1>1. SUFFICES ASSUME TInv, SInv, [Next]_vars PROVE SInv'
  OBVIOUS
<1>2. CASE Start BY <1>1, <1>2, SearchedStart
<1>3. CASE GrepFails BY <1>3, SearchedGrepFails
<1>4. CASE ReadBlock BY <1>1, <1>4, SearchedReadBlock
<1>5. ASSUME NEW p \in Paths, Grep(p) PROVE SInv' BY <1>1, <1>5, SearchedGrep
<1>6. ASSUME NEW p \in Paths, ReadFile(p) PROVE SInv' BY <1>1, <1>6, SearchedReadFile
<1>7. CASE Reports \/ Agents BY <1>1, <1>7, SearchedElse
<1>8. QED BY <1>1, <1>2, <1>3, <1>4, <1>5, <1>6, <1>7 DEF Next, Scan, Reports

(* Whatever is read of a file in blocks while it grows, each occurrence of a  *)
(* needle in what was read is counted, once: none that straddles two blocks   *)
(* is missed, and none in a replayed tail is counted again                    *)
(* (_iter_file_text, _count_needles).                                         *)
THEOREM CountedOnce == Spec => []EachIsCountedOnce
<1>1. Init => TInv /\ SInv BY TypesInit, SearchedInit
<1>2. TInv /\ SInv /\ [Next]_vars => TInv' /\ SInv' BY TypesNext, SearchedNext
<1>3. SInv => EachIsCountedOnce BY DEF SInv
<1>4. QED BY <1>1, <1>2, <1>3, PTL DEF Spec

-----------------------------------------------------------------------------
(* What is reported.                                                          *)

LEMMA SessionIs ==
  ASSUME NEW cell, IsCell(cell), NEW h \in DOMAIN cell.hints, FirstKnown(cell.hints, h)
  PROVE  SessionOf(cell) = cell.hints[h]
<1> DEFINE known == {i \in DOMAIN cell.hints : FirstKnown(cell.hints, i)}
<1>1. DOMAIN cell.hints = 1..Len(cell.hints) /\ Len(cell.hints) \in Nat BY DEF IsCell
<1>2. h \in Nat /\ h \in 1..Len(cell.hints) /\ h \in known BY <1>1
<1>3. cell.hints # <<>> BY <1>2
<1>4. ASSUME NEW i \in known PROVE i = h
  <2>1. i \in Nat /\ i >= 1 /\ h >= 1 BY <1>1, <1>2
  <2>2. ~(i < h)
    <3>1. i < h => i \in 1..h - 1 BY <1>2, <2>1
    <3>2. QED BY <3>1 DEF FirstKnown
  <2>3. ~(h < i)
    <3>1. h < i => h \in 1..i - 1 BY <1>2, <2>1
    <3>2. QED BY <3>1 DEF FirstKnown
  <2>4. QED BY <1>2, <2>1, <2>2, <2>3
<1>5. SessionOf(cell) = cell.hints[IF known = {} THEN 1 ELSE CHOOSE i \in known : TRUE]
  BY <1>3 DEF SessionOf
<1> HIDE DEF known
<1>6. known # {} /\ (CHOOSE i \in known : TRUE) = h BY <1>2, <1>4
<1>7. QED BY <1>5, <1>6

(* The rows that were read stay what they are.                                *)
RowsStay ==
  /\ rows' = rows
  /\ \A i \in rows : cells'[i] = cells[i] /\ SubSeq(cells', 1, i) = SubSeq(cells, 1, i)

LEMMA ReportedStays ==
  ASSUME NEW m, Reported(m), scan' = scan, seen' = seen, RowsStay \/ m.path # Database,
         leaks \subseteq leaks', common \subseteq common'
  PROVE  Reported(m)'
<1>1. LabelsOf(m.needle)' = LabelsOf(m.needle) BY DEF LabelsOf, Usable
<1>2. \A r : InLeak(m, r) => InLeak(m, r)' BY <1>1 DEF InLeak
<1>3. CASE m.needle \in common BY <1>3 DEF Reported
<1>4. CASE m.path # Database /\ InLeak(m, Owner[m.path]) BY <1>2, <1>4 DEF Reported
<1>5. CASE m.path = Database /\ RowsSaid(m)
  <2>1. ASSUME NEW i \in rows, NEW h \in DOMAIN cells[i].hints, RowSaid(m, i, h)
        PROVE  RowSaid(m, i, h)'
    <3>1. cells'[i] = cells[i] /\ SubSeq(cells', 1, i) = SubSeq(cells, 1, i) BY <1>5 DEF RowsStay
    <3>2. RowHolds(i, h, m.needle)' => RowHolds(i, h, m.needle) BY <3>1 DEF RowHolds
    <3>3. QED BY <1>2, <2>1, <3>1, <3>2 DEF RowSaid
  <2>2. RowsSaid(m)' BY <1>5, <2>1 DEF RowsSaid, RowsStay
  <2>3. QED BY <1>5, <2>2 DEF Reported
<1>6. QED BY <1>3, <1>4, <1>5 DEF Reported

LEMMA ReportedStart == TInv /\ (Start \/ StartFails) => RInv'
<1>1. SUFFICES ASSUME TInv, Start PROVE RInv'
  BY DEF StartFails, RInv
<1>2. /\ pc = "start" /\ pc' \in {"match", "done"} /\ UNCHANGED <<matches, hits>>
  BY <1>1 DEF Start, found
<1>3. matches = {} /\ hits = {} BY <1>1, <1>2 DEF TInv, Phases
<1>4. QED BY <1>2, <1>3 DEF RInv

LEMMA ReportedSearch ==
  ASSUME NEW p \in Paths
  PROVE  GrepFails \/ Grep(p) \/ ReadFile(p) \/ ReadBlock => RInv'
<1>1. SUFFICES ASSUME GrepFails \/ Grep(p) \/ ReadFile(p) \/ ReadBlock
               PROVE  pc' \in {"match", "block"}
  BY DEF RInv
<1>2. QED BY <1>1 DEF GrepFails, Grep, ReadFile, ReadBlock

LEMMA ReportedLocated == Located => RInv'
BY DEF Located, RInv

LEMMA ReportedFinish == TInv /\ RInv /\ Finish => RInv'
<1>1. SUFFICES ASSUME RInv, Finish PROVE RInv'
  OBVIOUS
<1>2. /\ pc = "report" /\ hits = {} /\ pc' = "done" /\ RowsStay
      /\ UNCHANGED <<scan, seen, matches, leaks, common, hits>>
  BY <1>1 DEF Finish, stores, found, inspected, RowsStay
<1>3. \A m \in matches' \ hits' : Reported(m)'
  <2>1. SUFFICES ASSUME NEW m \in matches' \ hits' PROVE Reported(m)'
    OBVIOUS
  <2>2. Reported(m) BY <1>1, <1>2 DEF RInv
  <2>3. QED BY <1>2, <2>2, ReportedStays
<1>4. QED BY <1>2, <1>3 DEF RInv

LEMMA FileSaid ==
  ASSUME NEW m PROVE \E k \in LeaksForFile(m) : /\ k.needle = m.needle /\ k.path = m.path
                                                /\ k.record = Owner[m.path]
                                                /\ k.labels = LabelsOf(m.needle)
<1> DEFINE record == Owner[m.path]
           log == IF record \in Files THEN file[record] ELSE <<>>
           text(i) == Decode(log[i].bytes)
           steps == {i \in DOMAIN log : log[i].step /\ Holds(text(i), m.needle)}
<1>1. LeaksForFile(m) = IF steps = {} THEN {Leak(m, record, 0, m.count)}
                        ELSE {Leak(m, record, i, Count(text(i), m.needle, 0)) : i \in steps}
  BY DEF LeaksForFile
<1> HIDE DEF steps, text, log
<1>2. PICK k \in LeaksForFile(m) : \E i, c : k = Leak(m, record, i, c)
  <2>1. CASE steps = {} BY <1>1, <2>1
  <2>2. CASE steps # {}
    <3>1. PICK i \in steps : TRUE BY <2>2
    <3>2. Leak(m, record, i, Count(text(i), m.needle, 0)) \in LeaksForFile(m) BY <1>1, <2>2, <3>1
    <3>3. QED BY <3>2
  <2>3. QED BY <2>1, <2>2
<1>3. QED BY <1>2 DEF Leak

LEMMA ReportedReport == ASSUME NEW x \in hits PROVE TInv /\ RInv /\ Report(x) => RInv'
<1>1. SUFFICES ASSUME RInv, Report(x) PROVE RInv'
  OBVIOUS
<1>2. /\ pc = "report" /\ pc' = pc /\ x.path # Database /\ hits' = hits \ {x}
      /\ IF TooCommon(x.needle) THEN common' = common \cup {x.needle} /\ leaks' = leaks
         ELSE leaks' = leaks \cup LeaksForFile(x) /\ common' = common
      /\ RowsStay /\ UNCHANGED <<scan, matches, seen>>
  BY <1>1 DEF Report, stores, inspected, RowsStay
<1>3. leaks \subseteq leaks' /\ common \subseteq common' BY <1>2
<1>4. \A m \in matches' \ hits' : Reported(m)'
  <2>1. SUFFICES ASSUME NEW m \in matches' \ hits' PROVE Reported(m)'
    OBVIOUS
  <2>2. CASE m # x
    <3>1. Reported(m) BY <1>1, <1>2, <2>2 DEF RInv
    <3>2. QED BY <1>2, <1>3, <3>1, ReportedStays
  <2>3. CASE m = x /\ TooCommon(x.needle) BY <1>2, <2>3 DEF Reported
  <2>4. CASE m = x /\ ~TooCommon(x.needle)
    <3>1. PICK k \in LeaksForFile(x) : /\ k.needle = x.needle /\ k.path = x.path
                                       /\ k.record = Owner[x.path]
                                       /\ k.labels = LabelsOf(x.needle)
      BY FileSaid
    <3>2. k \in leaks' BY <1>2, <2>4
    <3>3. LabelsOf(x.needle)' = LabelsOf(x.needle) BY <1>2 DEF LabelsOf, Usable
    <3>4. InLeak(x, Owner[x.path])' BY <3>1, <3>2, <3>3 DEF InLeak
    <3>5. QED BY <1>2, <2>4, <3>4 DEF Reported
  <2>5. QED BY <2>2, <2>3, <2>4
<1>5. QED BY <1>1, <1>2, <1>4 DEF RInv

LEMMA ReportedOpen == RInv /\ OpenStore => RInv'
<1>1. SUFFICES ASSUME RInv, OpenStore, pc' = "tables" PROVE RInv'
  BY DEF OpenStore, RInv
<1>2. /\ pc = "report" /\ hits # {} /\ (\A m \in hits : m.path = Database) /\ RowsStay
      /\ UNCHANGED <<scan, seen, matches, leaks, common, hits>>
  BY <1>1 DEF OpenStore, stores, found, RowsStay
<1>3. ASSUME NEW m \in matches \ hits PROVE Reported(m)'
  <2>1. Reported(m) BY <1>1, <1>2 DEF RInv
  <2>2. QED BY <1>2, <2>1, ReportedStays
<1>4. QED BY <1>1, <1>2, <1>3 DEF RInv

(* The database is read before anything of it is reported.                    *)
LEMMA ReportedReadTable == ASSUME NEW table PROVE RInv /\ ReadTable(table) => RInv'
<1>1. SUFFICES ASSUME RInv, ReadTable(table) PROVE RInv'
  OBVIOUS
<1>2. pc = "tables" /\ UNCHANGED <<scan, seen, pc, matches, leaks, common, hits>>
  BY <1>1 DEF ReadTable, found
<1>3. ASSUME NEW m \in matches \ hits PROVE Reported(m)'
  <2>1. Reported(m) /\ m.path # Database BY <1>1, <1>2 DEF RInv
  <2>2. QED BY <1>2, <2>1, ReportedStays
<1>4. QED BY <1>1, <1>2, <1>3 DEF RInv

LEMMA ReportedStore == TInv /\ RInv /\ ReportStore => RInv'
<1>1. SUFFICES ASSUME TInv, RInv, ReportStore PROVE RInv'
  OBVIOUS
<1>2. /\ pc = "tables" /\ pc' = "report" /\ hits' = {}
      /\ common' = common \cup {m.needle : m \in hits \ Present}
      /\ leaks' = leaks \cup {k \in UNION {LeaksForStore(m) : m \in Present} :
                                scan.period => k.record \in scan.inPeriod}
      /\ UNCHANGED <<scan, cells, matches, rows, seen>>
  BY <1>1 DEF ReportStore, stores, inspected
<1>3. leaks \subseteq leaks' /\ common \subseteq common' /\ RowsStay BY <1>2 DEF RowsStay
<1>4. \A m \in matches' \ hits' : Reported(m)'
  <2>1. SUFFICES ASSUME NEW m \in matches PROVE Reported(m)'
    BY <1>2
  <2>2. CASE m \notin hits
    <3>1. Reported(m) BY <1>1, <1>2, <2>2 DEF RInv
    <3>2. QED BY <1>2, <1>3, <3>1, ReportedStays
  <2>3. CASE m \in hits \ Present
    <3>1. m.needle \in common' BY <1>2, <2>3
    <3>2. QED BY <3>1 DEF Reported
  <2>4. CASE m \in Present
    <3>1. ASSUME NEW i \in rows, NEW h \in DOMAIN cells[i].hints, RowHolds(i, h, m.needle)
          PROVE  InLeak(m, cells[i].hints[h])'
      <4> DEFINE s == SessionOf(cells[i])
                 k == Leak(m, s, 0, Total(m.needle, s))
      <4>1. /\ cells[i] \in AllCells /\ FirstKnown(cells[i].hints, h)
            /\ cells[i].hints[h] \in scan.inPeriod /\ Holds(Decode(cells[i].bytes), m.needle)
        BY <1>1, <3>1 DEF TInv, TypeOK, Typed, RowHolds
      <4>2. s = cells[i].hints[h] BY <4>1, AllWritten, SessionIs
      <4>3. k \in LeaksForStore(m) BY <4>1 DEF LeaksForStore
      <4>4. k.record = s /\ k.needle = m.needle /\ k.path = m.path /\ k.labels = LabelsOf(m.needle)
        BY DEF Leak
      <4> HIDE DEF k, s
      <4>5. k \in leaks' BY <1>2, <2>4, <4>1, <4>2, <4>3, <4>4
      <4>6. LabelsOf(m.needle)' = LabelsOf(m.needle) BY <1>2 DEF LabelsOf, Usable
      <4>7. PICK r : r = cells[i].hints[h] OBVIOUS
      <4>8. InLeak(m, r)' BY <4>2, <4>4, <4>5, <4>6, <4>7 DEF InLeak
      <4>9. QED BY <1>2, <4>7, <4>8
    <3>2. m.path = Database BY <1>1, <1>2, <2>4 DEF RInv, Present
    <3>3. \A i, h : RowHolds(i, h, m.needle)' => RowHolds(i, h, m.needle) BY <1>2 DEF RowHolds
    <3>4. RowsSaid(m)' BY <1>2, <3>1, <3>3 DEF RowsSaid, RowSaid
    <3>5. QED BY <3>2, <3>4 DEF Reported
  <2>5. QED BY <2>2, <2>3, <2>4
<1>5. QED BY <1>2, <1>4 DEF RInv

LEMMA ReportedAgents == TInv /\ RInv /\ (Agents \/ UNCHANGED vars) => RInv'
<1>1. SUFFICES ASSUME TInv, RInv, Agents \/ UNCHANGED vars PROVE RInv'
  OBVIOUS
<1>2. UNCHANGED <<scan, pc, matches, leaks, common, hits, rows, seen>>
  BY <1>1, AgentsElsewhere DEF vars
<1>3. RowsStay
  <2>1. CASE cells' = cells BY <1>2, <2>1 DEF RowsStay
  <2>2. ASSUME NEW cell \in Cells, InsertCell(cell) PROVE RowsStay
    <3>1. cells' = Append(cells, cell) /\ cell \in AllCells BY <2>2 DEF InsertCell, AllCells
    <3>2. Typed /\ cells \in Seq(AllCells) /\ rows \subseteq 1..Len(cells)
      BY <1>1 DEF TInv, TypeOK, Typed
    <3>3. ASSUME NEW i \in 1..Len(cells)
          PROVE  cells'[i] = cells[i] /\ SubSeq(cells', 1, i) = SubSeq(cells, 1, i)
      <4>1. cells'[i] = cells[i] BY <3>1, <3>2
      <4>2. i \in 0..Len(cells) OBVIOUS
      <4>3. SubSeq(Append(cells, cell), 1, i) = SubSeq(cells, 1, i)
        BY <3>1, <3>2, <4>2, RowsPrefix
      <4>4. QED BY <3>1, <4>1, <4>3
    <3>4. QED BY <1>2, <3>2, <3>3 DEF RowsStay
  <2>3. QED BY <1>1, <2>1, <2>2 DEF Agents, Delete, AppendLine, Checkpoint, vars
<1>4. ASSUME NEW m, Reported(m) PROVE Reported(m)' BY <1>2, <1>3, <1>4, ReportedStays
<1>5. QED BY <1>1, <1>2, <1>4 DEF RInv

LEMMA ReportedNext == TInv /\ RInv /\ [Next]_vars => RInv'
<1>1. SUFFICES ASSUME TInv, RInv, [Next]_vars PROVE RInv'
  OBVIOUS
<1>2. CASE Start \/ StartFails BY <1>1, <1>2, ReportedStart
<1>3. CASE GrepFails \/ ReadBlock \/ \E p \in Paths : Grep(p) \/ ReadFile(p)
  <2>1. Database \in Paths BY DEF Paths
  <2>2. QED BY <1>3, <2>1, ReportedSearch
<1>4. CASE Located BY <1>4, ReportedLocated
<1>5. CASE Finish BY <1>1, <1>5, ReportedFinish
<1>6. ASSUME NEW m \in hits, Report(m) PROVE RInv' BY <1>1, <1>6, ReportedReport
<1>7. CASE OpenStore BY <1>1, <1>7, ReportedOpen
<1>8. ASSUME NEW table \in Tables, ReadTable(table) PROVE RInv' BY <1>1, <1>8, ReportedReadTable
<1>9. CASE ReportStore BY <1>1, <1>9, ReportedStore
<1>10. CASE Agents \/ UNCHANGED vars BY <1>1, <1>10, ReportedAgents
<1>11. QED
  BY <1>1, <1>2, <1>3, <1>4, <1>5, <1>6, <1>7, <1>8, <1>9, <1>10 DEF Next, Scan

LEMMA AllSaid == SInv /\ RInv => EveryHitIsReported
<1>1. SUFFICES ASSUME SInv, RInv, pc = "done", NEW l \in Usable,
                      NEW n, n = Needle(scan.keyring[l])
               PROVE  n \in common \/
                      /\ \A f \in Files : Found(seen[f], n) => Said(l, f, Owner[f])
                      /\ Found(seen[Database], n) =>
                           \A i \in rows : \A h \in DOMAIN cells[i].hints :
                             RowHolds(i, h, n) => Said(l, Database, cells[i].hints[h])
  BY DEF EveryHitIsReported
<1>2. n \in Needles /\ l \in LabelsOf(n) BY <1>1 DEF Needles, LabelsOf
<1>3. ASSUME NEW m, NEW r, m.needle = n, InLeak(m, r) PROVE Said(l, m.path, r)
  BY <1>1, <1>2, <1>3 DEF InLeak, Said
<1>4. ASSUME NEW p \in Paths, Found(seen[p], n)
      PROVE  \E m \in matches : m.needle = n /\ m.path = p /\ Reported(m)
  <2>1. PICK m \in matches : m.needle = n /\ m.path = p
    BY <1>1, <1>2, <1>4 DEF SInv, Searched, Matched
  <2>2. Reported(m) BY <1>1, <2>1 DEF RInv
  <2>3. QED BY <2>1, <2>2
<1>5. ASSUME n \notin common, NEW f \in Files, Found(seen[f], n) PROVE Said(l, f, Owner[f])
  <2>1. f \in Paths /\ f # Database BY PathsAssumption DEF Paths
  <2>2. PICK m \in matches : m.needle = n /\ m.path = f /\ Reported(m) BY <1>4, <1>5, <2>1
  <2>3. InLeak(m, Owner[f]) BY <1>5, <2>1, <2>2 DEF Reported
  <2>4. QED BY <1>3, <2>2, <2>3
<1>6. ASSUME n \notin common, Found(seen[Database], n),
             NEW i \in rows, NEW h \in DOMAIN cells[i].hints, RowHolds(i, h, n)
      PROVE  Said(l, Database, cells[i].hints[h])
  <2>1. Database \in Paths BY DEF Paths
  <2>2. PICK m \in matches : m.needle = n /\ m.path = Database /\ Reported(m) BY <1>4, <1>6, <2>1
  <2>3. RowSaid(m, i, h) BY <1>6, <2>2 DEF Reported, RowsSaid
  <2>4. InLeak(m, cells[i].hints[h]) BY <1>6, <2>2, <2>3 DEF RowSaid
  <2>5. QED BY <1>3, <2>2, <2>4
<1>7. QED BY <1>5, <1>6

(* When the scan ends, each label whose needle was in what was searched of a  *)
(* file is in a leak of the record of that file, and each one in a searched   *)
(* row, that sqlite gave, of a session of the period in a leak of that        *)
(* session, or its needle is reported as too common: if grep was stopped or   *)
(* not, whatever rows were lost, and whatever the agents wrote and deleted    *)
(* meanwhile (scan, _leaks_for_file, _leaks_for_store).  It is about needles  *)
(* of one-byte characters and, with grep, about those no other one overlaps.  *)
THEOREM AllReported == Spec => []EveryHitIsReported
<1>1. Init => TInv /\ SInv /\ RInv
  <2>1. Init => RInv BY DEF Init, RInv
  <2>2. QED BY <2>1, TypesInit, SearchedInit
<1>2. TInv /\ SInv /\ RInv /\ [Next]_vars => TInv' /\ SInv' /\ RInv'
  BY TypesNext, SearchedNext, ReportedNext
<1>3. QED BY <1>1, <1>2, AllSaid, PTL DEF Spec
=============================================================================
