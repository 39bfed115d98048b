-------------------------- MODULE PayloadCache_proofs --------------------------
(* Proofs about PayloadCache, for every set of clients and sessions and any *)
(* size of the cache.                                                       *)
EXTENDS PayloadCache, SequenceTheorems, FiniteSetTheorems, WellFoundedInduction, TLAPS

-----------------------------------------------------------------------------
(* The inductive invariant.                                                 *)

Labels == {"idle", "size", "contentsize", "memo", "mtime", "lookup", "parse", "insert", "done"}
Tags == 0..MaxVersion + 1
Cached == [name : Names, tag : Tags, data : Payloads]
Tasks == [op : {"none", "open", "getattr", "read"}, name : Names, first : BOOLEAN, tag : Tags,
          memoTag : Tags, data : Payloads, began : 0..MaxVersion, quiet : BOOLEAN]
Opens == [path : Names, fh : 1..MaxOpens]

Sources == version \in [Names -> 0..MaxVersion] /\ first \in [Names -> BOOLEAN]

(* A payload of a file is tagged with no later mtime than it was read at.   *)
Tagged(e) == e.name \in FileNames => e.tag <= e.data.version + 1
CacheTagged == content \in Seq(Cached) /\ \A i \in DOMAIN content : Tagged(content[i])

SizesTyped == sizes \in [FileNames -> SUBSET [tag : Nat, size : Nat]]

(* What a call has of a file's payload is no older than where it began.     *)
CallFresh(label, t, v) ==
  t.name \in FileNames =>
    /\ label # "idle" => t.began <= v[t.name]
    /\ label \in {"lookup", "parse", "insert"} => t.began < t.tag
    /\ label \in {"lookup", "parse"} => t.tag <= v[t.name] + 1
    /\ label = "insert" => t.tag <= t.data.version + 1
    /\ label = "done" => t.began <= t.data.version
CallsFresh ==
  /\ pc \in [Clients -> Labels] /\ task \in [Clients -> Tasks]
  /\ \A c \in Clients : CallFresh(pc[c], task[c], version)

(* An open file has a handle of its own, and shows what is there.           *)
HandlesKept ==
  /\ nextFh \in Nat \ {0}
  /\ \A h \in DOMAIN handles : h \in 1..MaxOpens /\ h < nextFh /\ handles[h] \in Payloads
  /\ opened \in [Clients -> SUBSET Opens] /\ got \in [Clients -> SUBSET Payloads]
  /\ \A c \in Clients : \A o \in opened[c] : o.fh \in DOMAIN handles /\ opened[c] = {o}
  /\ \A c, d \in Clients : \A o \in opened[c], e \in opened[d] : o.fh = e.fh => c = d
  /\ \A c \in Clients : got[c] \subseteq {handles[o.fh] : o \in opened[c]}

(* A handle is left for each open under way.                                *)
HandlesLeft == nextFh + Cardinality(Opening) <= MaxOpens + 1

IInv == Sources /\ CacheTagged /\ SizesTyped /\ CallsFresh /\ HandlesKept /\ HandlesLeft

-----------------------------------------------------------------------------
(* Values *)

LEMMA Numbers ==
  /\ MaxVersion \in Nat /\ MaxOpens \in Nat /\ CacheBytes \in Nat
  /\ 0 \in Tags /\ Tags \subseteq Nat /\ 0 \in 0..MaxVersion
BY NumbersAssumption DEF Tags

LEMMA NoTaskIsTask ==
  NoTask \in Tasks /\ NoTask.op = "none" /\ NoTask.quiet = TRUE
<1>1. (CHOOSE n \in Names : TRUE) \in Names BY NamesAssumption
<1>2. [version |-> 0, first |-> FALSE] \in Payloads BY Numbers DEF Payloads
<1>3. QED BY <1>1, <1>2, Numbers DEF NoTask, Tasks

LEMMA CallFacts ==
  ASSUME IInv, NEW c \in Clients
  PROVE  /\ task[c] \in Tasks /\ task[c].name \in Names /\ task[c].data \in Payloads
         /\ task[c].tag \in Tags /\ task[c].began \in 0..MaxVersion /\ task[c].first \in BOOLEAN
         /\ pc[c] \in Labels /\ version[task[c].name] \in 0..MaxVersion
         /\ first[task[c].name] \in BOOLEAN /\ CallFresh(pc[c], task[c], version)
BY DEF IInv, Sources, CallsFresh, Tasks

LEMMA MtimeFacts ==
  ASSUME IInv, NEW n \in Names
  PROVE  SourceMtime(n) \in Tags /\ (n \in FileNames => SourceMtime(n) = version[n] + 1)
BY Numbers DEF IInv, Sources, SourceMtime, Tags

LEMMA CallNumbers ==
  ASSUME NEW t \in Tasks
  PROVE  t.tag \in Nat /\ t.memoTag \in Nat /\ t.began \in Nat /\ t.data.version \in Nat
<1>1. t.tag \in Tags /\ t.memoTag \in Tags /\ t.began \in 0..MaxVersion /\ t.data \in Payloads
  BY DEF Tasks
<1>2. t.data.version \in 0..MaxVersion BY <1>1 DEF Payloads
<1>3. t.tag \in Nat /\ t.memoTag \in Nat BY <1>1, Numbers
<1>4. t.began \in Nat /\ t.data.version \in Nat BY <1>1, <1>2, Numbers
<1>5. QED BY <1>3, <1>4

LEMMA LengthIsNat == ASSUME NEW p \in Payloads PROVE Length(p) \in Nat
BY Numbers DEF Payloads, Length

(* A set of numbers has a least one.                                        *)
LEMMA LeastOf ==
  ASSUME NEW S, S \subseteq Nat, S # {}
  PROVE  Min(S) \in S /\ \A k \in S : Min(S) <= k
<1> DEFINE less == {pair \in Nat \X Nat : pair[1] < pair[2]}
<1>1. IsWellFoundedOn(less, Nat) BY NatLessThanWellFounded DEF OpToRel
<1>2. PICK m \in S : \A k \in S : ~(<<k, m>> \in less)
  <2> HIDE DEF less
  <2>1. QED BY <1>1, WFMin
<1>3. \A k \in S : m <= k
  <2>1. SUFFICES ASSUME NEW k \in S PROVE m <= k
    OBVIOUS
  <2>2. k \in Nat /\ m \in Nat /\ <<k, m>> \notin less BY <1>2
  <2>3. QED BY <2>2
<1>4. QED BY <1>3 DEF Min

-----------------------------------------------------------------------------
(* The cache *)

LEMMA WithoutFacts ==
  ASSUME NEW c \in Seq(Cached), NEW n
  PROVE  /\ Without(c, n) \in Seq(Cached)
         /\ \A i \in DOMAIN Without(c, n) : \E j \in DOMAIN c : Without(c, n)[i] = c[j]
<1> DEFINE places == {i \in DOMAIN c : c[i].name = n}
<1>1. CASE places = {} BY <1>1 DEF Without
<1>2. CASE places # {}
  <2> DEFINE k == CHOOSE i \in places : TRUE
             head == SubSeq(c, 1, k - 1)
             tail == SubSeq(c, k + 1, Len(c))
  <2>1. k \in 1..Len(c) BY <1>2
  <2>2. Without(c, n) = head \o tail BY <1>2 DEF Without, RemoveAt
  <2> HIDE DEF k
  <2>3. /\ head \in Seq(Cached) /\ Len(head) = k - 1
        /\ \A i \in 1..k - 1 : head[i] = c[i]
    BY <2>1
  <2>4. /\ tail \in Seq(Cached) /\ Len(tail) = Len(c) - k
        /\ \A i \in 1..Len(c) - k : tail[i] = c[k + i]
    BY <2>1
  <2> HIDE DEF head, tail
  <2>5. head \o tail \in Seq(Cached) /\ Len(head \o tail) = Len(c) - 1 BY <2>1, <2>3, <2>4
  <2>6. ASSUME NEW i \in 1..Len(c) - 1
        PROVE  \E j \in 1..Len(c) : (head \o tail)[i] = c[j]
    <3>1. CASE i <= k - 1
      <4>1. (head \o tail)[i] = c[i] BY <2>1, <2>3, <2>4, <3>1
      <4>2. QED BY <4>1
    <3>2. CASE i > k - 1
      <4>1. i - (k - 1) \in 1..Len(c) - k BY <2>1, <3>2
      <4>2. (head \o tail)[i] = tail[i - (k - 1)] BY <2>1, <2>3, <2>4, <3>2
      <4>3. (head \o tail)[i] = c[k + (i - (k - 1))] BY <2>4, <4>1, <4>2
      <4>4. k + (i - (k - 1)) \in 1..Len(c) BY <2>1, <4>1
      <4>5. QED BY <4>3, <4>4
    <3>3. i \in Int /\ k - 1 \in Int BY <2>1
    <3>4. i <= k - 1 \/ i > k - 1 BY <3>3
    <3>5. QED BY <3>1, <3>2, <3>4
  <2>7. QED BY <2>2, <2>5, <2>6
<1>3. QED BY <1>1, <1>2

(* One entry goes to the end, those of its name go.                         *)
LEMMA ReplacedFacts ==
  ASSUME IInv, NEW n, NEW e \in Cached
  PROVE  LET full == Append(Without(content, n), e) IN
         /\ full \in Seq(Cached) /\ Len(full) > 0 /\ full[Len(full)] = e
         /\ Tagged(e) => \A i \in DOMAIN full : Tagged(full[i])
<1> DEFINE rest == Without(content, n)
<1>1. rest \in Seq(Cached) /\ \A i \in DOMAIN rest : \E j \in DOMAIN content : rest[i] = content[j]
  BY WithoutFacts DEF IInv, CacheTagged
<1>2. \A i \in DOMAIN rest : Tagged(rest[i]) BY <1>1 DEF IInv, CacheTagged
<1> HIDE DEF rest
<1>3. /\ Append(rest, e) \in Seq(Cached) /\ Len(Append(rest, e)) = Len(rest) + 1
      /\ Append(rest, e)[Len(rest) + 1] = e
      /\ \A i \in 1..Len(rest) : Append(rest, e)[i] = rest[i]
  BY <1>1
<1>4. ASSUME Tagged(e), NEW i \in 1..Len(rest) + 1 PROVE Tagged(Append(rest, e)[i])
  BY <1>1, <1>2, <1>3, <1>4
<1>5. QED BY <1>1, <1>3, <1>4 DEF rest

LEMMA EvictedIs ==
  ASSUME NEW c \in Seq(Cached), Len(c) > 0, NEW total
  PROVE  /\ Evicted(c, total) \in 0..Len(c) - 1
         /\ \/ total - Bytes(SubSeq(c, 1, Evicted(c, total))) <= CacheBytes
            \/ Evicted(c, total) = Len(c) - 1
<1> DEFINE S == {k \in 0..Len(c) - 1 :
                   total - Bytes(SubSeq(c, 1, k)) <= CacheBytes \/ k = Len(c) - 1}
<1>1. Len(c) - 1 \in S OBVIOUS
<1>2. S \subseteq Nat OBVIOUS
<1>3. Evicted(c, total) = Min(S) BY DEF Evicted
<1> HIDE DEF S
<1>4. Evicted(c, total) \in S BY <1>1, <1>2, <1>3, LeastOf
<1>5. QED BY <1>4 DEF S

(* What an eviction leaves is the end of what was there.                    *)
LEMMA KeptFacts ==
  ASSUME NEW c \in Seq(Cached), Len(c) > 0, NEW k \in 0..Len(c) - 1
  PROVE  LET kept == SubSeq(c, k + 1, Len(c)) IN
         /\ kept \in Seq(Cached) /\ Len(kept) > 0 /\ Last(kept) = c[Len(c)]
         /\ (\A i \in DOMAIN c : Tagged(c[i])) => \A i \in DOMAIN kept : Tagged(kept[i])
<1> DEFINE kept == SubSeq(c, k + 1, Len(c))
<1>1. /\ kept \in Seq(Cached) /\ Len(kept) = Len(c) - k
      /\ \A i \in 1..Len(c) - k : kept[i] = c[k + i]
  OBVIOUS
<1> HIDE DEF kept
<1>2. Last(kept) = c[Len(c)] BY <1>1 DEF Last
<1>3. ASSUME \A i \in DOMAIN c : Tagged(c[i]), NEW i \in 1..Len(c) - k PROVE Tagged(kept[i])
  <2>1. k + i \in DOMAIN c /\ kept[i] = c[k + i] BY <1>1
  <2>2. QED BY <1>3, <2>1
<1>4. QED BY <1>1, <1>2, <1>3 DEF kept

-----------------------------------------------------------------------------
(* What cached payloads add up to.                                          *)

(* A set that has 0, and with each number the next, has every number.       *)
LEMMA EveryNumber ==
  ASSUME NEW S, 0 \in S, \A k \in Nat : k \in S => k + 1 \in S
  PROVE  Nat \subseteq S
<1> DEFINE missing == {k \in Nat : k \notin S}
<1>1. SUFFICES ASSUME missing # {} PROVE FALSE
  OBVIOUS
<1>2. missing \subseteq Nat OBVIOUS
<1> DEFINE m == Min(missing)
<1> HIDE DEF missing
<1>3. m \in missing /\ \A k \in missing : m <= k BY <1>1, <1>2, LeastOf
<1> HIDE DEF m
<1>4. m \in Nat /\ m \notin S BY <1>3 DEF missing
<1>5. m # 0 BY <1>4
<1>6. m - 1 \in Nat /\ m - 1 < m BY <1>4, <1>5
<1>7. m - 1 \in missing
  <2>1. (m - 1) + 1 = m BY <1>4
  <2>2. m - 1 \notin S BY <1>4, <1>6, <2>1
  <2>3. QED BY <1>6, <2>2 DEF missing
<1>8. m <= m - 1 BY <1>3, <1>7
<1>9. QED BY <1>4, <1>6, <1>8

(* The sums of the first 0..n payloads of c, as Bytes takes them.           *)
SumsTo(f, c, n) ==
  f = [k \in 0..n |-> IF k = 0 THEN 0 ELSE f[k - 1] + Length(c[k].data)]

LEMMA SumsExist ==
  ASSUME NEW c \in Seq(Cached)
  PROVE  \E f : SumsTo(f, c, Len(c))
<1> DEFINE S == {n \in Nat : n <= Len(c) => \E f : SumsTo(f, c, n)}
<1>1. 0 \in S
  <2>1. SumsTo([k \in {0} |-> 0], c, 0)
    <3>1. 0..0 = {0} OBVIOUS
    <3>2. QED BY <3>1 DEF SumsTo
  <2>2. QED BY <2>1
<1>2. ASSUME NEW n \in Nat, n \in S PROVE n + 1 \in S
  <2>1. SUFFICES ASSUME n + 1 <= Len(c) PROVE \E f : SumsTo(f, c, n + 1)
    OBVIOUS
  <2>2. n <= Len(c) BY <2>1
  <2>3. PICK f : SumsTo(f, c, n) BY <1>2, <2>2
  <2> DEFINE g == [k \in 0..n + 1 |-> IF k <= n THEN f[k] ELSE f[n] + Length(c[n + 1].data)]
             h == [k \in 0..n + 1 |-> IF k = 0 THEN 0 ELSE g[k - 1] + Length(c[k].data)]
  <2>4. ASSUME NEW k \in 0..n + 1 PROVE g[k] = h[k]
    <3>1. CASE k = 0
      <4>1. f[0] = 0 BY <2>3 DEF SumsTo
      <4>2. QED BY <3>1, <4>1
    <3>2. CASE k \in 1..n
      <4>1. f[k] = f[k - 1] + Length(c[k].data) BY <2>3, <3>2 DEF SumsTo
      <4>2. k - 1 \in 0..n + 1 /\ k - 1 <= n /\ k <= n /\ k # 0 BY <3>2
      <4>3. g[k] = f[k] /\ g[k - 1] = f[k - 1] BY <4>2
      <4>4. QED BY <4>1, <4>2, <4>3
    <3>3. CASE k = n + 1
      <4>1. k - 1 = n /\ ~(k <= n) /\ k # 0 /\ n \in 0..n + 1 BY <3>3
      <4>2. g[k] = f[n] + Length(c[k].data) /\ g[k - 1] = f[n] BY <3>3, <4>1
      <4>3. QED BY <4>1, <4>2
    <3>4. QED BY <3>1, <3>2, <3>3
  <2>5. g = h
    <3>1. DOMAIN g = 0..n + 1 /\ DOMAIN h = 0..n + 1 OBVIOUS
    <3> HIDE DEF Length
    <3>2. QED BY <2>4
  <2>6. SumsTo(g, c, n + 1) BY <2>5 DEF SumsTo
  <2>7. QED BY <2>6
<1> HIDE DEF S
<1>3. Nat \subseteq S BY <1>1, <1>2, EveryNumber
<1>4. Len(c) \in S BY <1>3
<1>5. QED BY <1>4 DEF S

LEMMA BytesIsSum ==
  ASSUME NEW c \in Seq(Cached)
  PROVE  \E f : SumsTo(f, c, Len(c)) /\ Bytes(c) = f[Len(c)]
<1> DEFINE f == CHOOSE g : g = [k \in 0..Len(c) |->
                                  IF k = 0 THEN 0 ELSE g[k - 1] + Length(c[k].data)]
<1>1. Bytes(c) = f[Len(c)] BY DEF Bytes
<1>2. SumsTo(f, c, Len(c)) BY SumsExist DEF SumsTo
<1>3. QED BY <1>1, <1>2

(* The sums are numbers, and depend on the payloads they add up only.       *)
StartAlike(c, d, k) == \A i \in 1..k : c[i] = d[i] /\ c[i] \in Cached

LEMMA SumsAgree ==
  ASSUME NEW f, NEW g, NEW c, NEW d, NEW m \in Nat, NEW n \in Nat, NEW k \in Nat,
         SumsTo(f, c, m), SumsTo(g, d, n), k <= m, k <= n, StartAlike(c, d, k)
  PROVE  f[k] = g[k] /\ f[k] \in Nat
<1> DEFINE S == {j \in Nat : j <= k => f[j] = g[j] /\ f[j] \in Nat}
<1>1. 0 \in S BY DEF SumsTo
<1>2. ASSUME NEW j \in Nat, j \in S PROVE j + 1 \in S
  <2>1. SUFFICES ASSUME j + 1 <= k PROVE f[j + 1] = g[j + 1] /\ f[j + 1] \in Nat
    OBVIOUS
  <2>2. f[j] = g[j] /\ f[j] \in Nat BY <1>2, <2>1
  <2>3. j + 1 \in 0..m /\ j + 1 \in 0..n /\ j + 1 # 0 /\ (j + 1) - 1 = j BY <2>1
  <2>4. f[j + 1] = f[j] + Length(c[j + 1].data) BY <2>3 DEF SumsTo
  <2>5. g[j + 1] = g[j] + Length(d[j + 1].data) BY <2>3 DEF SumsTo
  <2>6. c[j + 1] = d[j + 1] /\ c[j + 1] \in Cached BY <2>1 DEF StartAlike
  <2>7. Length(c[j + 1].data) \in Nat BY <2>6, LengthIsNat DEF Cached
  <2>8. QED BY <2>2, <2>4, <2>5, <2>6, <2>7
<1> HIDE DEF S
<1>3. k \in S BY <1>1, <1>2, EveryNumber
<1>4. QED BY <1>3 DEF S

LEMMA BytesIsNat ==
  ASSUME NEW c \in Seq(Cached)
  PROVE  Bytes(c) \in Nat
<1>1. PICK f : SumsTo(f, c, Len(c)) /\ Bytes(c) = f[Len(c)] BY BytesIsSum
<1>2. Len(c) \in Nat /\ StartAlike(c, c, Len(c)) BY DEF StartAlike
<1>3. QED BY <1>1, <1>2, SumsAgree

LEMMA BytesOfNone == Bytes(<<>>) = 0
<1>1. <<>> \in Seq(Cached) /\ Len(<<>>) = 0 OBVIOUS
<1>2. PICK f : SumsTo(f, <<>>, 0) /\ Bytes(<<>>) = f[0] BY <1>1, BytesIsSum
<1>3. QED BY <1>2 DEF SumsTo

LEMMA BytesOfConcat ==
  ASSUME NEW a \in Seq(Cached), NEW b \in Seq(Cached)
  PROVE  Bytes(a \o b) = Bytes(a) + Bytes(b)
<1> DEFINE ab == a \o b
<1>1. /\ ab \in Seq(Cached) /\ Len(ab) = Len(a) + Len(b)
      /\ \A i \in 1..Len(a) : ab[i] = a[i] /\ a[i] \in Cached
      /\ \A i \in 1..Len(b) : ab[Len(a) + i] = b[i] /\ b[i] \in Cached
  OBVIOUS
<1> HIDE DEF ab
<1>2. PICK f : SumsTo(f, ab, Len(ab)) /\ Bytes(ab) = f[Len(ab)] BY <1>1, BytesIsSum
<1>3. PICK g : SumsTo(g, a, Len(a)) /\ Bytes(a) = g[Len(a)] BY BytesIsSum
<1>4. PICK h : SumsTo(h, b, Len(b)) /\ Bytes(b) = h[Len(b)] BY BytesIsSum
<1>5. Len(a) \in Nat /\ Len(b) \in Nat /\ Len(ab) \in Nat BY <1>1
<1>6. f[Len(a)] = Bytes(a)
  <2>1. PICK k \in Nat : k = Len(a) BY <1>5
  <2>2. k <= k /\ k <= Len(ab) BY <1>1, <1>5, <2>1
  <2>3. StartAlike(a, ab, k) BY <1>1, <2>1 DEF StartAlike
  <2>4. SumsTo(g, a, k) /\ SumsTo(f, ab, Len(ab)) BY <1>2, <1>3, <2>1
  <2>5. g[k] = f[k] BY <1>5, <2>2, <2>3, <2>4, SumsAgree
  <2>6. QED BY <1>3, <2>1, <2>5
<1> DEFINE S == {j \in Nat : j <= Len(b) => f[Len(a) + j] = Bytes(a) + h[j]}
<1>7. 0 \in S
  <2>1. h[0] = 0 BY <1>4, <1>5 DEF SumsTo
  <2>2. QED BY <1>5, <1>6, <2>1, BytesIsNat
<1>8. ASSUME NEW j \in Nat, j \in S PROVE j + 1 \in S
  <2>1. SUFFICES ASSUME j + 1 <= Len(b) PROVE f[Len(a) + (j + 1)] = Bytes(a) + h[j + 1]
    OBVIOUS
  <2>2. f[Len(a) + j] = Bytes(a) + h[j] BY <1>5, <1>8, <2>1
  <2>3. j + 1 \in 0..Len(b) /\ j + 1 # 0 /\ (j + 1) - 1 = j /\ j + 1 \in 1..Len(b)
    BY <1>5, <2>1
  <2>4. h[j + 1] = h[j] + Length(b[j + 1].data) BY <1>4, <2>3 DEF SumsTo
  <2> DEFINE i == Len(a) + (j + 1)
  <2>5. i \in 0..Len(ab) /\ i # 0 /\ i - 1 = Len(a) + j BY <1>1, <1>5, <2>1
  <2>6. f[i] = f[i - 1] + Length(ab[i].data) BY <1>2, <2>5 DEF SumsTo
  <2>7. ab[i] = b[j + 1] /\ b[j + 1] \in Cached BY <1>1, <2>3
  <2>8. Length(b[j + 1].data) \in Nat BY <2>7, LengthIsNat DEF Cached
  <2>9. h[j] \in Nat
    <3>1. j <= Len(b) BY <1>5, <2>1
    <3>2. StartAlike(b, b, j) BY <1>5, <3>1 DEF StartAlike
    <3>3. QED BY <1>4, <1>5, <3>1, <3>2, SumsAgree
  <2>10. Bytes(a) \in Nat BY BytesIsNat
  <2>11. f[i] = (Bytes(a) + h[j]) + Length(b[j + 1].data) BY <2>2, <2>5, <2>6, <2>7
  <2> HIDE DEF i
  <2>12. f[i] = Bytes(a) + h[j + 1] BY <2>4, <2>8, <2>9, <2>10, <2>11
  <2>13. QED BY <2>12 DEF i
<1> HIDE DEF S
<1>9. Len(b) \in S BY <1>5, <1>7, <1>8, EveryNumber
<1>10. f[Len(a) + Len(b)] = Bytes(a) + h[Len(b)] BY <1>5, <1>9 DEF S
<1>11. QED BY <1>1, <1>2, <1>4, <1>10 DEF ab

LEMMA BytesOfOne ==
  ASSUME NEW e \in Cached
  PROVE  Bytes(<<e>>) = Length(e.data)
<1>1. <<e>> \in Seq(Cached) /\ Len(<<e>>) = 1 /\ <<e>>[1] = e OBVIOUS
<1>2. PICK f : SumsTo(f, <<e>>, 1) /\ Bytes(<<e>>) = f[1] BY <1>1, BytesIsSum
<1>3. f[0] = 0 BY <1>2 DEF SumsTo
<1>4. 1 \in 0..1 /\ 1 # 0 /\ 1 - 1 = 0 OBVIOUS
<1>5. f[1] = f[1 - 1] + Length(<<e>>[1].data) BY <1>2, <1>4 DEF SumsTo
<1>6. Length(e.data) \in Nat BY LengthIsNat DEF Cached
<1>7. QED BY <1>1, <1>2, <1>3, <1>4, <1>5, <1>6

LEMMA BytesOfAppend ==
  ASSUME NEW c \in Seq(Cached), NEW e \in Cached
  PROVE  Bytes(Append(c, e)) = Bytes(c) + Length(e.data)
<1>1. Append(c, e) = c \o <<e>> BY AppendIsConcat
<1>2. <<e>> \in Seq(Cached) OBVIOUS
<1>3. QED BY <1>1, <1>2, BytesOfConcat, BytesOfOne

LEMMA BytesOfEnd ==
  ASSUME NEW c \in Seq(Cached), NEW k \in 0..Len(c)
  PROVE  Bytes(SubSeq(c, k + 1, Len(c))) = Bytes(c) - Bytes(SubSeq(c, 1, k))
<1> DEFINE head == SubSeq(c, 1, k)
           tail == SubSeq(c, k + 1, Len(c))
<1>1. head \in Seq(Cached) /\ tail \in Seq(Cached) OBVIOUS
<1>2. head \o tail = c
  <2>1. 1 \in 1..Len(c) + 1 /\ k \in 1 - 1..Len(c) /\ Len(c) \in k..Len(c) OBVIOUS
  <2>2. head \o tail = SubSeq(c, 1, Len(c)) BY <2>1, ConcatAdjacentSubSeq
  <2>3. QED BY <2>2, SubSeqFull
<1> HIDE DEF head, tail
<1>3. Bytes(c) = Bytes(head) + Bytes(tail) BY <1>1, <1>2, BytesOfConcat
<1>4. Bytes(head) \in Nat /\ Bytes(tail) \in Nat BY <1>1, BytesIsNat
<1>5. Bytes(tail) = Bytes(c) - Bytes(head) BY <1>3, <1>4
<1>6. QED BY <1>5 DEF head, tail

-----------------------------------------------------------------------------
(* A call goes on *)

LEMMA OpeningIsFinite ==
  ASSUME NEW S, S \subseteq Clients
  PROVE  IsFiniteSet(S) /\ Cardinality(S) \in Nat
BY ClientsAssumption, FS_Subset, FS_CardinalityType

LEMMA MoveCalls ==
  ASSUME IInv, NEW c \in Clients, NEW label \in Labels, NEW t \in Tasks,
         pc' = [pc EXCEPT ![c] = label], task' = [task EXCEPT ![c] = t], version' = version,
         CallFresh(label, t, version)
  PROVE  CallsFresh'
<1>1. pc' \in [Clients -> Labels] /\ task' \in [Clients -> Tasks] BY DEF IInv, CallsFresh
<1>2. ASSUME NEW d \in Clients PROVE CallFresh(pc'[d], task'[d], version)
  <2>1. CASE d = c
    <3>1. pc'[d] = label /\ task'[d] = t BY <2>1 DEF IInv, CallsFresh
    <3>2. QED BY <3>1
  <2>2. CASE d # c
    <3>1. pc'[d] = pc[d] /\ task'[d] = task[d] BY <2>2 DEF IInv, CallsFresh
    <3>2. QED BY <3>1, CallFacts
  <2>3. QED BY <2>1, <2>2
<1>3. QED BY <1>1, <1>2 DEF CallsFresh

LEMMA MoveLeft ==
  ASSUME IInv, NEW c \in Clients, NEW t, task' = [task EXCEPT ![c] = t], nextFh' = nextFh,
         t.op = "open" => task[c].op = "open"
  PROVE  HandlesLeft'
<1>1. Opening' \subseteq Opening
  <2>1. \A d \in Clients : task'[d].op = "open" => task[d].op = "open"
    BY DEF IInv, CallsFresh
  <2>2. QED BY <2>1 DEF Opening
<1>2. Opening \subseteq Clients /\ Opening' \subseteq Clients BY DEF Opening
<1>3. Cardinality(Opening') <= Cardinality(Opening)
  BY <1>1, <1>2, OpeningIsFinite, FS_Subset
<1>4. Cardinality(Opening') \in Nat /\ Cardinality(Opening) \in Nat
  BY <1>2, OpeningIsFinite
<1>5. nextFh \in Nat BY DEF IInv, HandlesKept
<1>6. QED BY <1>3, <1>4, <1>5, Numbers DEF IInv, HandlesLeft

LEMMA MoveInv ==
  ASSUME IInv, NEW c \in Clients, NEW label \in Labels, NEW t \in Tasks,
         pc' = [pc EXCEPT ![c] = label], task' = [task EXCEPT ![c] = t],
         CallFresh(label, t, version), t.op = "open" => task[c].op = "open",
         UNCHANGED <<version, first, handleVars>>, CacheTagged', SizesTyped'
  PROVE  IInv'
<1>1. version' = version /\ first' = first /\ handles' = handles /\ nextFh' = nextFh
      /\ opened' = opened /\ got' = got
  BY DEF handleVars
<1>2. CallsFresh' /\ HandlesLeft' BY <1>1, MoveCalls, MoveLeft
<1>3. Sources' BY <1>1 DEF IInv, Sources
<1>4. HandlesKept' BY <1>1 DEF IInv, HandlesKept
<1>5. QED BY <1>2, <1>3, <1>4 DEF IInv

LEMMA SameCache == ASSUME IInv, content' = content PROVE CacheTagged'
BY DEF IInv, CacheTagged

LEMMA SameSizes == ASSUME IInv, sizes' = sizes PROVE SizesTyped'
BY DEF IInv, SizesTyped

LEMMA ReturnInv ==
  ASSUME IInv, NEW c \in Clients, NEW reply, Return(c, reply),
         UNCHANGED <<version, first, handleVars, content>>, SizesTyped'
  PROVE  IInv'
<1>1. pc' = [pc EXCEPT ![c] = "idle"] /\ task' = [task EXCEPT ![c] = NoTask] BY DEF Return
<1>2. NoTask \in Tasks /\ NoTask.op # "open" BY NoTaskIsTask
<1>3. "idle" \in Labels /\ CallFresh("idle", NoTask, version) BY DEF Labels, CallFresh
<1>4. CacheTagged' BY SameCache
<1>5. QED BY <1>1, <1>2, <1>3, <1>4, MoveInv

-----------------------------------------------------------------------------
(* One lemma for each action *)

LEMMA BeginInv ==
  ASSUME IInv, NEW c \in Clients, NEW op \in {"open", "getattr", "read"}, NEW n \in Names,
         Begin(c, op, n)
  PROVE  IInv'
<1> DEFINE t == [NoTask EXCEPT !.op = op, !.name = n, !.first = first[n], !.began = version[n]]
           label == IF op = "getattr" /\ n \in FileNames THEN "size" ELSE "mtime"
<1>1. t \in Tasks /\ t.op = op /\ t.name = n /\ t.began = version[n]
  <2>1. version[n] \in 0..MaxVersion /\ first[n] \in BOOLEAN BY DEF IInv, Sources
  <2>2. QED BY <2>1, NoTaskIsTask DEF Tasks
<1>2. pc' = [pc EXCEPT ![c] = label] /\ task' = [task EXCEPT ![c] = t] BY DEF Begin
<1>3. label \in {"size", "mtime"} OBVIOUS
<1> HIDE DEF t, label
<1>4. version' = version /\ first' = first /\ handles' = handles /\ nextFh' = nextFh
      /\ opened' = opened /\ got' = got /\ content' = content /\ sizes' = sizes
  BY DEF Begin, cacheVars, handleVars
<1>5. version[n] \in Nat BY Numbers DEF IInv, Sources
<1>6. CallFresh(label, t, version) BY <1>1, <1>3, <1>5 DEF CallFresh
<1>7. CallsFresh' BY <1>1, <1>2, <1>3, <1>4, <1>6, MoveCalls DEF Labels
<1>8. HandlesLeft'
  <2>1. CASE op # "open" BY <1>1, <1>2, <1>4, <2>1, MoveLeft
  <2>2. CASE op = "open"
    <3>1. Opening' \subseteq Opening \cup {c}
      BY <1>2 DEF Opening, IInv, CallsFresh
    <3>2. Opening \subseteq Clients /\ Opening' \subseteq Clients BY DEF Opening
    <3>3. IsFiniteSet(Opening) /\ IsFiniteSet(Opening \cup {c})
      BY <3>2, OpeningIsFinite, FS_AddElement
    <3>4. Cardinality(Opening \cup {c}) <= Cardinality(Opening) + 1
      <4>1. Cardinality(Opening) \in Nat BY <3>2, OpeningIsFinite
      <4>2. QED BY <3>3, <4>1, FS_AddElement
    <3>5. Cardinality(Opening') <= Cardinality(Opening \cup {c})
      BY <3>1, <3>3, FS_Subset
    <3>6. Cardinality(Opening) \in Nat /\ Cardinality(Opening') \in Nat
          /\ Cardinality(Opening \cup {c}) \in Nat
      BY <3>2, OpeningIsFinite, FS_CardinalityType, <3>3
    <3>7. nextFh + Cardinality(Opening) <= MaxOpens BY <2>2 DEF Begin
    <3>8. nextFh \in Nat BY DEF IInv, HandlesKept
    <3>9. QED BY <1>4, <3>4, <3>5, <3>6, <3>7, <3>8, Numbers DEF HandlesLeft
  <2>3. QED BY <2>1, <2>2
<1>9. Sources' /\ HandlesKept' BY <1>4 DEF IInv, Sources, HandlesKept
<1>10. CacheTagged' /\ SizesTyped' BY <1>4, SameCache, SameSizes
<1>11. QED BY <1>7, <1>8, <1>9, <1>10 DEF IInv

LEMMA SizeMtimeInv ==
  ASSUME IInv, NEW c \in Clients, SizeMtime(c)
  PROVE  IInv'
<1> DEFINE t == [task[c] EXCEPT !.tag = SourceMtime(task[c].name)]
<1>1. t \in Tasks /\ t.op = task[c].op /\ t.name = task[c].name /\ t.began = task[c].began
  BY CallFacts, MtimeFacts DEF Tasks
<1>2. task' = [task EXCEPT ![c] = t] /\ pc[c] = "size" BY DEF SizeMtime
<1> HIDE DEF t
<1>3. "contentsize" \in Labels /\ CallFresh("contentsize", t, version)
  BY <1>1, <1>2, CallFacts DEF Labels, CallFresh
<1>4. CacheTagged' /\ SizesTyped' BY SameCache, SameSizes DEF SizeMtime, cacheVars
<1>5. QED BY <1>1, <1>2, <1>3, <1>4, MoveInv DEF SizeMtime

LEMMA ContentSizeInv ==
  ASSUME IInv, NEW c \in Clients, ContentSize(c)
  PROVE  IInv'
<1>1. CacheTagged' /\ SizesTyped' BY SameCache, SameSizes DEF ContentSize, cacheVars
<1>2. ASSUME NEW reply, Return(c, reply) PROVE IInv'
  BY <1>1, <1>2, ReturnInv DEF ContentSize, cacheVars
<1>3. CASE pc' = [pc EXCEPT ![c] = "memo"] /\ UNCHANGED task
  <2>1. task' = [task EXCEPT ![c] = task[c]] BY <1>3 DEF IInv, CallsFresh
  <2>2. "memo" \in Labels /\ CallFresh("memo", task[c], version)
    BY CallFacts DEF Labels, CallFresh, ContentSize
  <2>3. QED BY <1>1, <1>3, <2>1, <2>2, CallFacts, MoveInv DEF ContentSize
<1>4. QED BY <1>2, <1>3 DEF ContentSize

LEMMA SizeMemoInv ==
  ASSUME IInv, NEW c \in Clients, SizeMemo(c)
  PROVE  IInv'
<1> DEFINE t == [task[c] EXCEPT !.memoTag = SourceMtime(task[c].name)]
<1>1. CacheTagged' /\ SizesTyped' BY SameCache, SameSizes DEF SizeMemo, cacheVars
<1>2. ASSUME NEW reply, Return(c, reply) PROVE IInv'
  BY <1>1, <1>2, ReturnInv DEF SizeMemo, cacheVars
<1>3. CASE pc' = [pc EXCEPT ![c] = "mtime"] /\ task' = [task EXCEPT ![c] = t]
  <2>1. t \in Tasks /\ t.op = task[c].op /\ t.name = task[c].name /\ t.began = task[c].began
    BY CallFacts, MtimeFacts DEF Tasks
  <2> HIDE DEF t
  <2>2. "mtime" \in Labels /\ CallFresh("mtime", t, version)
    BY <2>1, CallFacts DEF Labels, CallFresh, SizeMemo
  <2>3. QED BY <1>1, <1>3, <2>1, <2>2, MoveInv DEF SizeMemo
<1>4. QED BY <1>2, <1>3 DEF SizeMemo

(* The mtime is read first: it is later than where the call began, and no   *)
(* later than what will be parsed.                                          *)
LEMMA ContentMtimeInv ==
  ASSUME IInv, NEW c \in Clients, ContentMtime(c)
  PROVE  IInv'
<1> DEFINE t == [task[c] EXCEPT !.tag = SourceMtime(task[c].name)]
<1>1. t \in Tasks /\ t.op = task[c].op /\ t.name = task[c].name /\ t.began = task[c].began
      /\ t.tag = SourceMtime(task[c].name)
  BY CallFacts, MtimeFacts DEF Tasks
<1>2. task' = [task EXCEPT ![c] = t] /\ pc[c] = "mtime" BY DEF ContentMtime
<1> HIDE DEF t
<1>3. CallFresh("lookup", t, version)
  <2>1. SUFFICES ASSUME task[c].name \in FileNames PROVE CallFresh("lookup", t, version)
    BY <1>1 DEF CallFresh
  <2>2. t.tag = version[t.name] + 1 /\ t.began <= version[t.name]
    BY <1>1, <1>2, <2>1, CallFacts, MtimeFacts DEF CallFresh
  <2>3. version[t.name] \in Nat /\ t.began \in Nat BY <1>1, CallFacts, Numbers
  <2>4. QED BY <2>2, <2>3 DEF CallFresh
<1>4. "lookup" \in Labels BY DEF Labels
<1>5. CacheTagged' /\ SizesTyped' BY SameCache, SameSizes DEF ContentMtime, cacheVars
<1>6. QED BY <1>1, <1>2, <1>3, <1>4, <1>5, MoveInv DEF ContentMtime

LEMMA HitFacts ==
  ASSUME IInv, NEW c \in Clients, NEW i \in Hits(task[c].name, task[c].tag)
  PROVE  /\ i \in DOMAIN content /\ content[i] \in Cached /\ Tagged(content[i])
         /\ content[i].name = task[c].name /\ content[i].tag = task[c].tag
BY DEF IInv, CacheTagged, Hits, Entries

LEMMA ContentHitInv ==
  ASSUME IInv, NEW c \in Clients, ContentHit(c)
  PROVE  IInv'
<1>1. PICK i \in Hits(task[c].name, task[c].tag) :
        /\ content' = Append(Without(content, task[c].name), content[i])
        /\ task' = [task EXCEPT ![c] = [task[c] EXCEPT !.data = content[i].data]]
  BY DEF ContentHit
<1> DEFINE t == [task[c] EXCEPT !.data = content[i].data]
<1>2. /\ content[i] \in Cached /\ Tagged(content[i])
      /\ content[i].name = task[c].name /\ content[i].tag = task[c].tag
  BY HitFacts
<1>3. t \in Tasks /\ t.op = task[c].op /\ t.name = task[c].name /\ t.began = task[c].began
      /\ t.data = content[i].data
  BY <1>2, CallFacts DEF Tasks, Cached
<1> HIDE DEF t
<1>4. CallFresh("done", t, version)
  <2>1. SUFFICES ASSUME task[c].name \in FileNames PROVE CallFresh("done", t, version)
    BY <1>3 DEF CallFresh
  <2>2. task[c].tag <= t.data.version + 1 BY <1>2, <1>3, <2>1 DEF Tagged
  <2>3. task[c].began < task[c].tag /\ task[c].began <= version[task[c].name]
    BY <2>1, CallFacts DEF CallFresh, ContentHit
  <2>4. t.data.version \in Nat /\ task[c].began \in Nat /\ task[c].tag \in Nat
    BY <1>3, CallFacts, CallNumbers
  <2>5. QED BY <1>3, <2>2, <2>3, <2>4 DEF CallFresh
<1>5. CacheTagged' BY <1>1, <1>2, ReplacedFacts DEF CacheTagged
<1>6. SizesTyped' BY SameSizes DEF ContentHit
<1>7. "done" \in Labels BY DEF Labels
<1>8. QED BY <1>1, <1>3, <1>4, <1>5, <1>6, <1>7, MoveInv DEF ContentHit, t

LEMMA ContentMissInv ==
  ASSUME IInv, NEW c \in Clients, ContentMiss(c)
  PROVE  IInv'
<1>1. CacheTagged' /\ SizesTyped' BY SameCache, SameSizes DEF ContentMiss, cacheVars
<1>2. task' = [task EXCEPT ![c] = task[c]] BY DEF IInv, CallsFresh, ContentMiss
<1>3. "parse" \in Labels /\ CallFresh("parse", task[c], version)
  BY CallFacts DEF Labels, CallFresh, ContentMiss
<1>4. QED BY <1>1, <1>2, <1>3, CallFacts, MoveInv DEF ContentMiss

LEMMA RenderPayloadInv ==
  ASSUME IInv, NEW c \in Clients, RenderPayload(c)
  PROVE  IInv'
<1> DEFINE t == [task[c] EXCEPT !.data = Render(task[c].name, task[c].first)]
<1>1. Render(task[c].name, task[c].first) \in Payloads
  BY CallFacts DEF Render, Payloads
<1>2. t \in Tasks /\ t.op = task[c].op /\ t.name = task[c].name /\ t.began = task[c].began
      /\ t.tag = task[c].tag /\ t.data.version = version[task[c].name]
  BY <1>1, CallFacts DEF Tasks, Render
<1>3. task' = [task EXCEPT ![c] = t] BY DEF RenderPayload
<1> HIDE DEF t
<1>4. "insert" \in Labels /\ CallFresh("insert", t, version)
  BY <1>2, CallFacts DEF Labels, CallFresh, RenderPayload
<1>5. CacheTagged' /\ SizesTyped' BY SameCache, SameSizes DEF RenderPayload, cacheVars
<1>6. QED BY <1>2, <1>3, <1>4, <1>5, MoveInv DEF RenderPayload

(* What is inserted has the tag of before the parse.                        *)
LEMMA EntryFacts ==
  ASSUME IInv, NEW c \in Clients, pc[c] = "insert"
  PROVE  Entry(c) \in Cached /\ Entry(c).name = task[c].name /\ Tagged(Entry(c))
<1>1. Entry(c) \in Cached /\ Entry(c).name = task[c].name BY CallFacts DEF Entry, Cached
<1>2. Tagged(Entry(c)) BY CallFacts DEF Entry, Tagged, CallFresh
<1>3. QED BY <1>1, <1>2

LEMMA InsertFacts ==
  ASSUME IInv, NEW c \in Clients, Insert(c)
  PROVE  CacheTagged' /\ Last(content').name = task[c].name
<1> DEFINE full == Append(Without(content, task[c].name), Entry(c))
           total == bytes - StaleBytes(task[c].name) + Length(task[c].data)
           k == Evicted(full, total)
<1>1. content' = SubSeq(full, k + 1, Len(full)) BY DEF Insert, Replaced
<1>2. /\ full \in Seq(Cached) /\ Len(full) > 0 /\ full[Len(full)] = Entry(c)
      /\ \A i \in DOMAIN full : Tagged(full[i])
  BY EntryFacts, ReplacedFacts DEF Insert
<1> HIDE DEF full, total
<1>3. k \in 0..Len(full) - 1 BY <1>2, EvictedIs
<1> HIDE DEF k
<1>4. /\ content' \in Seq(Cached) /\ Last(content') = Entry(c)
      /\ \A i \in DOMAIN content' : Tagged(content'[i])
  BY <1>1, <1>2, <1>3, KeptFacts
<1>5. QED BY <1>4, EntryFacts DEF CacheTagged, Insert

LEMMA InsertInv ==
  ASSUME IInv, NEW c \in Clients, Insert(c)
  PROVE  IInv'
<1>1. CacheTagged' BY InsertFacts
<1>2. SizesTyped' BY SameSizes DEF Insert
<1>3. task' = [task EXCEPT ![c] = task[c]] BY DEF IInv, CallsFresh, Insert
<1>4. CallFresh("done", task[c], version)
  <2>1. task[c].name \in FileNames =>
          task[c].began < task[c].tag /\ task[c].tag <= task[c].data.version + 1
          /\ task[c].began <= version[task[c].name]
    BY CallFacts DEF CallFresh, Insert
  <2>2. task[c].data.version \in Nat /\ task[c].began \in Nat /\ task[c].tag \in Nat
    BY CallFacts, CallNumbers
  <2>3. QED BY <2>1, <2>2 DEF CallFresh
<1>5. "done" \in Labels BY DEF Labels
<1>6. QED BY <1>1, <1>2, <1>3, <1>4, <1>5, CallFacts, MoveInv DEF Insert

LEMMA FinishReturns ==
  ASSUME IInv, NEW c \in Clients, NEW reply, Return(c, reply),
         UNCHANGED <<version, first, cacheVars, handleVars>>, SizesTyped'
  PROVE  IInv'
BY ReturnInv DEF cacheVars

LEMMA RenderFailInv ==
  ASSUME IInv, NEW c \in Clients, RenderFail(c)
  PROVE  IInv'
BY FinishReturns, SameSizes DEF RenderFail

LEMMA FinishReadInv ==
  ASSUME IInv, NEW c \in Clients, FinishRead(c)
  PROVE  IInv'
BY FinishReturns, SameSizes DEF FinishRead

LEMMA FinishGetattrInv ==
  ASSUME IInv, NEW c \in Clients, FinishGetattr(c)
  PROVE  IInv'
<1> DEFINE n == task[c].name
           entry == [tag |-> MemoTag(c), size |-> Length(task[c].data)]
<1>1. Return(c, {Length(task[c].data)}) BY DEF FinishGetattr
<1>2. entry \in [tag : Nat, size : Nat]
  <2>1. task[c].memoTag \in Nat BY CallFacts, Numbers DEF Tasks
  <2>2. QED BY <2>1, CallFacts, LengthIsNat DEF MemoTag
<1> HIDE DEF entry
<1>3. sizes' = IF n \in FileNames THEN [sizes EXCEPT ![n] = {entry}] ELSE sizes
  BY DEF FinishGetattr, entry
<1>4. SizesTyped' BY <1>2, <1>3 DEF IInv, SizesTyped
<1>5. QED BY <1>1, <1>4, FinishReturns DEF FinishGetattr

(* The open file gets a handle nobody has had.                              *)
LEMMA FinishOpenInv ==
  ASSUME IInv, NEW c \in Clients, FinishOpen(c)
  PROVE  IInv'
<1> DEFINE o == [path |-> task[c].name, fh |-> nextFh]
<1>1. pc' = [pc EXCEPT ![c] = "idle"] /\ task' = [task EXCEPT ![c] = NoTask]
      /\ version' = version /\ first' = first /\ content' = content /\ sizes' = sizes
      /\ nextFh' = nextFh + 1 /\ opened' = [opened EXCEPT ![c] = {o}]
      /\ got' = [got EXCEPT ![c] = {}] /\ task[c].op = "open"
  BY DEF FinishOpen, Return, cacheVars
<1>2. "idle" \in Labels /\ CallFresh("idle", NoTask, version) BY DEF Labels, CallFresh
<1>3. CallsFresh' BY <1>1, <1>2, MoveCalls, NoTaskIsTask
<1>4. nextFh \in Nat \ {0} BY DEF IInv, HandlesKept
<1>5. Opening \subseteq Clients /\ c \in Opening BY <1>1 DEF Opening
<1>6. IsFiniteSet(Opening) /\ Cardinality(Opening) \in Nat BY <1>5, OpeningIsFinite
<1>7. Opening' = Opening \ {c}
  BY <1>1, NoTaskIsTask DEF Opening, IInv, CallsFresh
<1>8. Cardinality(Opening') = Cardinality(Opening) - 1
  BY <1>5, <1>6, <1>7, FS_RemoveElement
<1>9. HandlesLeft' BY <1>1, <1>4, <1>6, <1>8, Numbers DEF IInv, HandlesLeft
<1>10. nextFh <= MaxOpens
  <2>1. Cardinality(Opening) # 0 BY <1>5, <1>6, FS_EmptySet
  <2>2. QED BY <1>4, <1>6, <2>1, Numbers DEF IInv, HandlesLeft
<1>11. /\ DOMAIN handles' = DOMAIN handles \cup {nextFh}
       /\ handles'[nextFh] = task[c].data
       /\ \A h \in DOMAIN handles : handles'[h] = handles[h]
  <2>1. \A h \in DOMAIN handles : h # nextFh BY <1>4 DEF IInv, HandlesKept
  <2>2. handles' = NewHandles(c) BY DEF FinishOpen
  <2>3. QED BY <2>1, <2>2 DEF NewHandles
<1>12. HandlesKept'
  <2>1. o \in Opens /\ o.fh = nextFh BY <1>4, <1>10, CallFacts DEF Opens
  <2> HIDE DEF o
  <2>2. \A h \in DOMAIN handles' : h \in 1..MaxOpens /\ h < nextFh' /\ handles'[h] \in Payloads
    BY <1>1, <1>4, <1>10, <1>11, CallFacts, Numbers DEF IInv, HandlesKept
  <2>3. opened' \in [Clients -> SUBSET Opens] /\ got' \in [Clients -> SUBSET Payloads]
    BY <1>1, <2>1 DEF IInv, HandlesKept
  <2>4. \A d \in Clients : /\ d = c => opened'[d] = {o} /\ got'[d] = {}
                           /\ d # c => opened'[d] = opened[d] /\ got'[d] = got[d]
    BY <1>1 DEF IInv, HandlesKept
  <2>5. \A d \in Clients : \A e \in opened[d] : e.fh \in DOMAIN handles /\ e.fh # nextFh
    BY <1>4 DEF IInv, HandlesKept
  <2>6. \A d \in Clients : \A e \in opened'[d] : e.fh \in DOMAIN handles' /\ opened'[d] = {e}
    BY <1>11, <2>1, <2>4 DEF IInv, HandlesKept
  <2>7. \A d, b \in Clients : \A e \in opened'[d], x \in opened'[b] : e.fh = x.fh => d = b
    BY <2>1, <2>4, <2>5 DEF IInv, HandlesKept
  <2>8. \A d \in Clients : got'[d] \subseteq {handles'[e.fh] : e \in opened'[d]}
    BY <1>11, <2>4, <2>5 DEF IInv, HandlesKept
  <2>9. nextFh' \in Nat \ {0} BY <1>1, <1>4
  <2>10. QED BY <2>2, <2>3, <2>6, <2>7, <2>8, <2>9 DEF HandlesKept
<1>13. Sources' BY <1>1 DEF IInv, Sources
<1>14. CacheTagged' /\ SizesTyped' BY <1>1, SameCache, SameSizes
<1>15. QED BY <1>3, <1>9, <1>12, <1>13, <1>14 DEF IInv

(* A step that is of the kernel's open files only.                          *)
LEMMA KernelInv ==
  ASSUME IInv, UNCHANGED <<version, first, cacheVars, nextFh, sizes, pc, task>>, HandlesKept'
  PROVE  IInv'
<1>1. Sources' /\ CallsFresh' BY DEF IInv, Sources, CallsFresh
<1>2. CacheTagged' /\ SizesTyped' BY SameCache, SameSizes DEF cacheVars
<1>3. HandlesLeft'
  <2>1. Opening' = Opening BY DEF Opening
  <2>2. QED BY <2>1 DEF IInv, HandlesLeft
<1>4. QED BY <1>1, <1>2, <1>3 DEF IInv

LEMMA ReadHandleInv ==
  ASSUME IInv, NEW c \in Clients, ReadHandle(c)
  PROVE  IInv'
<1>1. PICK o \in opened[c] :
        o.fh \in DOMAIN handles /\ got' = [got EXCEPT ![c] = got[c] \cup {handles[o.fh]}]
  BY DEF ReadHandle, HandleData
<1>2. handles' = handles /\ nextFh' = nextFh /\ opened' = opened BY DEF ReadHandle
<1>3. got' \in [Clients -> SUBSET Payloads] BY <1>1 DEF IInv, HandlesKept
<1>4. \A d \in Clients : got'[d] \subseteq {handles[e.fh] : e \in opened[d]}
  BY <1>1 DEF IInv, HandlesKept
<1>5. HandlesKept' BY <1>2, <1>3, <1>4 DEF IInv, HandlesKept
<1>6. QED BY <1>5, KernelInv DEF ReadHandle

LEMMA ReleaseInv ==
  ASSUME IInv, NEW c \in Clients, Release(c)
  PROVE  IInv'
<1>1. PICK o \in opened[c] : handles' = Restrict(handles, DOMAIN handles \ {o.fh})
  BY DEF Release
<1>2. nextFh' = nextFh /\ opened' = [opened EXCEPT ![c] = {}] /\ got' = [got EXCEPT ![c] = {}]
  BY DEF Release
<1>3. /\ DOMAIN handles' = DOMAIN handles \ {o.fh}
      /\ \A h \in DOMAIN handles' : handles'[h] = handles[h]
  BY <1>1 DEF Restrict
<1>4. \A d \in Clients : /\ d = c => opened'[d] = {} /\ got'[d] = {}
                         /\ d # c => opened'[d] = opened[d] /\ got'[d] = got[d]
  BY <1>2 DEF IInv, HandlesKept
<1>5. ASSUME NEW d \in Clients, NEW e \in opened'[d]
      PROVE  d # c /\ e \in opened[d] /\ e.fh \in DOMAIN handles'
  <2>1. d # c /\ e \in opened[d] BY <1>4
  <2>2. e.fh \in DOMAIN handles /\ e.fh # o.fh BY <2>1 DEF IInv, HandlesKept
  <2>3. QED BY <1>3, <2>1, <2>2
<1>6. HandlesKept'
  <2>1. nextFh' \in Nat \ {0}
        /\ \A h \in DOMAIN handles' : h \in 1..MaxOpens /\ h < nextFh' /\ handles'[h] \in Payloads
    BY <1>2, <1>3 DEF IInv, HandlesKept
  <2>2. opened' \in [Clients -> SUBSET Opens] /\ got' \in [Clients -> SUBSET Payloads]
    BY <1>2 DEF IInv, HandlesKept
  <2>3. \A d \in Clients : \A e \in opened'[d] : e.fh \in DOMAIN handles' /\ opened'[d] = {e}
    BY <1>4, <1>5 DEF IInv, HandlesKept
  <2>4. \A d, b \in Clients : \A e \in opened'[d], x \in opened'[b] : e.fh = x.fh => d = b
    BY <1>4, <1>5 DEF IInv, HandlesKept
  <2>5. \A d \in Clients : got'[d] \subseteq {handles'[e.fh] : e \in opened'[d]}
    BY <1>3, <1>4, <1>5 DEF IInv, HandlesKept
  <2>6. QED BY <2>1, <2>2, <2>3, <2>4, <2>5 DEF HandlesKept
<1>7. QED BY <1>6, KernelInv DEF Release

(* The world moves under the calls.                                         *)
LEMMA DisturbInv ==
  ASSUME IInv, NEW n, task' = Disturb(n), UNCHANGED <<cacheVars, handleVars, sizes, pc>>,
         Sources', \A k \in Names : version[k] <= version'[k]
  PROVE  IInv'
<1>1. ASSUME NEW c \in Clients
      PROVE  /\ task'[c] \in Tasks /\ task'[c].op = task[c].op /\ task'[c].name = task[c].name
             /\ task'[c].tag = task[c].tag /\ task'[c].data = task[c].data
             /\ task'[c].began = task[c].began
  <2>1. task'[c] \in {task[c], [task[c] EXCEPT !.quiet = FALSE]} BY DEF Disturb
  <2>2. QED BY <2>1, CallFacts DEF Tasks
<1>2. CallsFresh'
  <2>1. task' \in [Clients -> Tasks] BY <1>1 DEF Disturb
  <2>2. ASSUME NEW c \in Clients PROVE CallFresh(pc[c], task'[c], version')
    <3>1. SUFFICES ASSUME task[c].name \in FileNames
                   PROVE  CallFresh(pc[c], task'[c], version')
      BY <1>1 DEF CallFresh
    <3>2. CallFresh(pc[c], task[c], version) BY CallFacts
    <3>3. version[task[c].name] <= version'[task[c].name]
          /\ version[task[c].name] \in Nat /\ version'[task[c].name] \in Nat
      BY CallFacts, Numbers DEF IInv, Sources
    <3>4. task[c].began \in Nat /\ task[c].tag \in Nat BY CallFacts, CallNumbers
    <3>5. QED BY <1>1, <3>1, <3>2, <3>3, <3>4 DEF CallFresh
  <2>3. QED BY <2>1, <2>2 DEF IInv, CallsFresh
<1>3. HandlesLeft'
  <2>1. Opening' = Opening BY <1>1 DEF Opening
  <2>2. QED BY <2>1 DEF IInv, HandlesLeft, handleVars
<1>4. HandlesKept' BY DEF IInv, HandlesKept, handleVars
<1>5. CacheTagged' /\ SizesTyped' BY SameCache, SameSizes DEF cacheVars
<1>6. QED BY <1>2, <1>3, <1>4, <1>5 DEF IInv

LEMMA AppendToSourceInv ==
  ASSUME IInv, NEW n \in Names, AppendToSource(n)
  PROVE  IInv'
<1>1. \A k \in Names : version[k] \in Nat BY Numbers DEF IInv, Sources
<1>2. version[n] + 1 \in 0..MaxVersion BY <1>1, Numbers DEF AppendToSource
<1>3. version' = [version EXCEPT ![n] = version[n] + 1] /\ first' = first BY DEF AppendToSource
<1>4. Sources' BY <1>2, <1>3 DEF IInv, Sources
<1>5. \A k \in Names : version[k] <= version'[k] BY <1>1, <1>3 DEF IInv, Sources
<1>6. QED BY <1>4, <1>5, DisturbInv DEF AppendToSource

LEMMA RelistInv ==
  ASSUME IInv, NEW n \in Names, Relist(n)
  PROVE  IInv'
<1>1. HasFirst(n, version[n]) \in BOOLEAN BY DEF HasFirst
<1>2. Sources' BY <1>1 DEF IInv, Sources, Relist
<1>3. \A k \in Names : version[k] <= version'[k] BY Numbers DEF IInv, Sources, Relist
<1>4. QED BY <1>2, <1>3, DisturbInv DEF Relist

(* A new mount: no calls, no open files, nothing cached.                    *)
LEMMA FreshInv ==
  ASSUME Sources, content = <<>>, SizesTyped, pc = [c \in Clients |-> "idle"],
         task = [c \in Clients |-> NoTask], handles = <<>>, nextFh = 1,
         opened = [c \in Clients |-> {}], got = [c \in Clients |-> {}]
  PROVE  IInv
<1>1. CacheTagged BY DEF CacheTagged
<1>2. CallsFresh BY NoTaskIsTask DEF CallsFresh, CallFresh, Labels
<1>3. HandlesKept BY DEF HandlesKept
<1>4. HandlesLeft
  <2>1. Opening = {} BY NoTaskIsTask DEF Opening
  <2>2. QED BY <2>1, FS_EmptySet, Numbers DEF HandlesLeft
<1>5. QED BY <1>1, <1>2, <1>3, <1>4 DEF IInv

LEMMA InitInv == Init => IInv
<1> SUFFICES ASSUME Init PROVE IInv
  OBVIOUS
<1>1. Sources BY Numbers DEF Init, Sources, HasFirst
<1>2. SizesTyped BY DEF Init, SizesTyped
<1>3. QED BY <1>1, <1>2, FreshInv DEF Init

LEMMA RemountInv ==
  ASSUME IInv, Remount
  PROVE  IInv'
<1>1. Sources' BY DEF IInv, Sources, Remount, HasFirst
<1>2. SizesTyped' BY DEF IInv, SizesTyped, Remount
<1>3. CacheTagged' BY DEF CacheTagged, Remount
<1>4. CallsFresh' BY NoTaskIsTask DEF CallsFresh, CallFresh, Labels, Remount
<1>5. HandlesKept' BY DEF HandlesKept, Remount
<1>6. HandlesLeft'
  <2>1. Opening' = {} BY NoTaskIsTask DEF Opening, Remount
  <2>2. nextFh' = 1 BY DEF Remount
  <2>3. QED BY <2>1, <2>2, FS_EmptySet, Numbers DEF HandlesLeft
<1>7. QED BY <1>1, <1>2, <1>3, <1>4, <1>5, <1>6 DEF IInv

LEMMA NextInv ==
  ASSUME IInv, [Next]_vars
  PROVE  IInv'
<1>1. ASSUME NEW c \in Clients, Handler(c) PROVE IInv'
  BY <1>1, BeginInv, SizeMtimeInv, ContentSizeInv, SizeMemoInv, ContentMtimeInv, ContentHitInv,
     ContentMissInv, RenderPayloadInv, RenderFailInv, InsertInv, FinishOpenInv, FinishReadInv,
     FinishGetattrInv, ReadHandleInv, ReleaseInv
     DEF Handler
<1>2. ASSUME NEW n \in Names, AppendToSource(n) \/ Relist(n) PROVE IInv'
  BY <1>2, AppendToSourceInv, RelistInv
<1>3. CASE Remount BY <1>3, RemountInv
<1>4. CASE UNCHANGED vars
  <2>1. Opening' = Opening BY <1>4 DEF vars, Opening
  <2>2. QED BY <1>4, <2>1 DEF vars, IInv, Sources, CacheTagged, SizesTyped, CallsFresh,
     HandlesKept, HandlesLeft
<1>5. QED BY <1>1, <1>2, <1>3, <1>4 DEF Next

-----------------------------------------------------------------------------
(* The theorems *)

LEMMA MisledAreFiles ==
  ASSUME misled \subseteq FileNames, [Next]_vars
  PROVE  misled' \subseteq FileNames
<1>1. ASSUME NEW c \in Clients, Handler(c) PROVE misled' \subseteq FileNames
  BY <1>1 DEF Handler, Begin, SizeMtime, ContentSize, SizeMemo, ContentMtime, ContentHit, ContentMiss,
     RenderPayload, RenderFail, Insert, FinishOpen, FinishRead, FinishGetattr, ReadHandle, Release
<1>2. ASSUME NEW n \in Names, AppendToSource(n) \/ Relist(n) PROVE misled' \subseteq FileNames
  BY <1>2 DEF AppendToSource, Relist
<1>3. QED BY <1>1, <1>2 DEF Next, Remount, vars

(* Every variable has its type, and an open file has its handle until it is *)
(* released (_memoryfs.py, open, read and release).                         *)
THEOREM TypeCorrect == Spec => []TypeOK
<1>1. IInv /\ misled \subseteq FileNames => TypeOK
  <2> SUFFICES ASSUME IInv, misled \subseteq FileNames PROVE TypeOK
    OBVIOUS
  <2>1. version \in [Names -> 0..MaxVersion] /\ first \in [Names -> BOOLEAN]
    BY DEF IInv, Sources
  <2>2. \A i \in DOMAIN content :
          content[i] \in [name : Names, tag : 0..MaxVersion + 1, data : Payloads]
    <3>1. \A i \in DOMAIN content : content[i] \in Cached BY DEF IInv, CacheTagged
    <3>2. QED BY <3>1 DEF Cached, Tags
  <2>3. nextFh \in 1..MaxOpens + 1
    <3>1. Opening \subseteq Clients BY DEF Opening
    <3>2. Cardinality(Opening) \in Nat BY <3>1, OpeningIsFinite
    <3>3. QED BY <3>2, Numbers DEF IInv, HandlesLeft, HandlesKept
  <2>4. DOMAIN handles \subseteq 1..MaxOpens /\ \A h \in DOMAIN handles : handles[h] \in Payloads
    BY DEF IInv, HandlesKept
  <2>5. \A n \in FileNames : \A m \in sizes[n] : m \in [tag : Nat, size : Nat]
    BY DEF IInv, SizesTyped
  <2>6. \A c \in Clients :
          task[c].data \in Payloads /\ \A o \in opened[c] : o.fh \in DOMAIN handles
    BY CallFacts DEF IInv, HandlesKept
  <2>7. QED BY <2>1, <2>2, <2>3, <2>4, <2>5, <2>6 DEF TypeOK
<1>2. Init => misled \subseteq FileNames BY DEF Init
<1>3. misled \subseteq FileNames /\ [Next]_vars => (misled \subseteq FileNames)'
  BY MisledAreFiles
<1>4. QED BY <1>1, <1>2, <1>3, InitInv, NextInv, PTL DEF Spec

(* All the reads of an open file show one payload, whatever is rendered,    *)
(* evicted, opened or released meanwhile (open, read).                      *)
THEOREM OpenFilesAreOnePayload == Spec => []OneOpenOnePayload
<1>1. IInv => OneOpenOnePayload
  <2> SUFFICES ASSUME IInv, NEW c \in Clients PROVE Cardinality(got[c]) <= 1
    BY DEF OneOpenOnePayload
  <2>1. got[c] \subseteq {handles[o.fh] : o \in opened[c]} BY DEF IInv, HandlesKept
  <2>2. CASE opened[c] = {}
    <3>1. got[c] = {} BY <2>1, <2>2
    <3>2. QED BY <3>1, FS_EmptySet
  <2>3. CASE opened[c] # {}
    <3>1. PICK o \in opened[c] : opened[c] = {o} BY <2>3 DEF IInv, HandlesKept
    <3>2. got[c] \subseteq {handles[o.fh]} BY <2>1, <3>1
    <3>3. IsFiniteSet({handles[o.fh]}) /\ Cardinality({handles[o.fh]}) = 1 BY FS_Singleton
    <3>4. QED BY <3>2, <3>3, FS_Subset
  <2>4. QED BY <2>2, <2>3
<1>2. QED BY <1>1, InitInv, NextInv, PTL DEF Spec

(* What a call renders or finds of a session in a file is no older than the *)
(* session was when the call began (_content_for).                          *)
THEOREM FilePayloadsAreCurrent == Spec => []FilePayloadIsCurrent
<1>1. IInv => FilePayloadIsCurrent
  <2> SUFFICES ASSUME IInv, NEW c \in Clients, pc[c] = "done", task[c].name \in FileNames
               PROVE  task[c].data.version >= task[c].began
    BY DEF FilePayloadIsCurrent, CurrentFor
  <2>1. task[c].began <= task[c].data.version BY CallFacts DEF CallFresh
  <2>2. QED BY <2>1, CallFacts, CallNumbers
<1>2. QED BY <1>1, InitInv, NextInv, PTL DEF Spec

(* What a call has just rendered or found is the last that will be evicted, *)
(* and is not evicted by its own insertion (_content_for).                  *)
THEOREM LastUsedStays == Spec => LastUsedIsKept
<1> DEFINE Used == \A c \in Clients :
             pc'[c] = "done" /\ pc[c] # "done" => Last(content').name = task[c].name
<1>1. ASSUME IInv, [Next]_vars PROVE Used
  <2> SUFFICES ASSUME NEW c \in Clients, pc'[c] = "done", pc[c] # "done"
               PROVE  Last(content').name = task[c].name
    OBVIOUS
  <2>1. CASE ContentHit(c)
    <3>1. PICK i \in Hits(task[c].name, task[c].tag) :
            content' = Append(Without(content, task[c].name), content[i])
      BY <2>1 DEF ContentHit
    <3>2. content[i] \in Cached /\ content[i].name = task[c].name BY <1>1, HitFacts
    <3>3. Last(content') = content[i] BY <1>1, <3>1, <3>2, ReplacedFacts DEF Last
    <3>4. QED BY <3>2, <3>3
  <2>2. CASE Insert(c) BY <1>1, <2>2, InsertFacts
  <2>3. ContentHit(c) \/ Insert(c)
    <3>1. pc \in [Clients -> Labels] BY <1>1 DEF IInv, CallsFresh
    <3>2. ASSUME NEW d \in Clients, Handler(d) PROVE ContentHit(c) \/ Insert(c)
      <4>1. ASSUME NEW label, pc' = [pc EXCEPT ![d] = label], label # "done" PROVE FALSE
        BY <3>1, <4>1
      <4>2. ASSUME NEW op, NEW n, Begin(d, op, n) PROVE FALSE
        BY <4>1, <4>2 DEF Begin
      <4>3. ~Return(d, {}) /\ \A x : ~Return(d, x) BY <4>1 DEF Return
      <4>4. CASE ContentHit(d) \/ Insert(d)
        <5>1. pc' = [pc EXCEPT ![d] = "done"] BY <4>4 DEF ContentHit, Insert
        <5>2. d = c BY <3>1, <5>1
        <5>3. QED BY <4>4, <5>2
      <4>5. ~SizeMtime(d) /\ ~ContentMtime(d) /\ ~ContentMiss(d) /\ ~RenderPayload(d)
        BY <4>1 DEF SizeMtime, ContentMtime, ContentMiss, RenderPayload
      <4>6. ~ContentSize(d) /\ ~SizeMemo(d) BY <4>1, <4>3 DEF ContentSize, SizeMemo
      <4>7. ~RenderFail(d) /\ ~FinishOpen(d) /\ ~FinishRead(d) /\ ~FinishGetattr(d)
        BY <4>3 DEF RenderFail, FinishOpen, FinishRead, FinishGetattr
      <4>8. ~ReadHandle(d) /\ ~Release(d) BY DEF ReadHandle, Release
      <4>9. QED BY <3>2, <4>2, <4>4, <4>5, <4>6, <4>7, <4>8 DEF Handler
    <3>3. ASSUME NEW n \in Names, AppendToSource(n) \/ Relist(n) PROVE FALSE
      BY <3>3 DEF AppendToSource, Relist
    <3>4. ~Remount BY DEF Remount
    <3>5. ~UNCHANGED vars BY DEF vars
    <3>6. QED BY <1>1, <3>2, <3>3, <3>4, <3>5 DEF Next
  <2>4. QED BY <2>1, <2>2, <2>3
<1>2. IInv /\ [Next]_vars => [Used]_vars BY <1>1
<1> HIDE DEF Used
<1>3. Spec => [][Used]_vars BY <1>2, InitInv, NextInv, PTL DEF Spec
<1>4. QED BY <1>3 DEF LastUsedIsKept, Used

-----------------------------------------------------------------------------
(* One payload of each name, and its bytes counted.                         *)

OnePerName(c) == \A i, j \in DOMAIN c : c[i].name = c[j].name => i = j
Places(c, n) == {i \in DOMAIN c : c[i].name = n}
Accounts(b, c) == b = Bytes(c) /\ OnePerName(c) /\ (b <= CacheBytes \/ Len(c) = 1)
CacheCounted == Accounts(bytes, content)

(* Without a name: all of it is gone, and the bytes of its one payload.     *)
LEMMA WithoutOne ==
  ASSUME NEW c \in Seq(Cached), NEW n, NEW k, OnePerName(c), k \in Places(c, n)
  PROVE  /\ Bytes(Without(c, n)) = Bytes(c) - Length(c[k].data)
         /\ Len(Without(c, n)) = Len(c) - 1
         /\ OnePerName(Without(c, n)) /\ Places(Without(c, n), n) = {}
<1> DEFINE head == SubSeq(c, 1, k - 1)
           tail == SubSeq(c, k + 1, Len(c))
           rest == Without(c, n)
<1>1. k \in 1..Len(c) BY DEF Places
<1>2. Places(c, n) = {k} BY DEF Places, OnePerName
<1>3. rest = head \o tail
  <2>1. (CHOOSE i \in Places(c, n) : TRUE) = k BY <1>2
  <2>2. rest = RemoveAt(c, k) BY <1>2, <2>1 DEF Without, Places
  <2>3. QED BY <2>2 DEF RemoveAt
<1>4. /\ head \in Seq(Cached) /\ Len(head) = k - 1
      /\ \A i \in 1..k - 1 : head[i] = c[i]
  BY <1>1
<1>5. /\ tail \in Seq(Cached) /\ Len(tail) = Len(c) - k
      /\ \A i \in 1..Len(c) - k : tail[i] = c[k + i]
  BY <1>1
<1>6. Bytes(rest) = Bytes(c) - Length(c[k].data)
  <2>1. SubSeq(c, 1, k) = head \o <<c[k]>>
    <3>1. 1 \in 1..Len(c) /\ k \in 1..Len(c) BY <1>1
    <3>2. QED BY <1>1, <3>1, SubSeqRecursiveSecond
  <2>2. c[k] \in Cached /\ <<c[k]>> \in Seq(Cached) BY <1>1
  <2>3. Bytes(tail) = Bytes(c) - Bytes(SubSeq(c, 1, k)) BY <1>1, BytesOfEnd
  <2> HIDE DEF head, tail, rest
  <2>4. Bytes(SubSeq(c, 1, k)) = Bytes(head) + Length(c[k].data)
    BY <1>4, <2>1, <2>2, BytesOfConcat, BytesOfOne
  <2>5. Bytes(rest) = Bytes(head) + Bytes(tail) BY <1>3, <1>4, <1>5, BytesOfConcat
  <2>6. Bytes(head) \in Nat /\ Bytes(tail) \in Nat /\ Bytes(c) \in Nat BY <1>4, <1>5, BytesIsNat
  <2>7. Length(c[k].data) \in Nat BY <2>2, LengthIsNat DEF Cached
  <2>8. QED BY <2>3, <2>4, <2>5, <2>6, <2>7
<1> HIDE DEF head, tail, rest
<1>7. rest \in Seq(Cached) /\ Len(rest) = Len(c) - 1 BY <1>1, <1>3, <1>4, <1>5
<1> DEFINE from(i) == IF i < k THEN i ELSE i + 1
<1>8. ASSUME NEW i \in 1..Len(c) - 1
      PROVE  rest[i] = c[from(i)] /\ from(i) \in 1..Len(c) /\ from(i) # k
  <2>1. CASE i < k
    <3>1. rest[i] = head[i] /\ i \in 1..k - 1 BY <1>1, <1>3, <1>4, <1>5, <2>1
    <3>2. QED BY <1>1, <1>4, <2>1, <3>1
  <2>2. CASE ~(i < k)
    <3>1. i - (k - 1) \in 1..Len(c) - k BY <1>1, <2>2
    <3>2. rest[i] = tail[i - (k - 1)] BY <1>1, <1>3, <1>4, <1>5, <2>2
    <3>3. rest[i] = c[k + (i - (k - 1))] BY <1>5, <3>1, <3>2
    <3>4. k + (i - (k - 1)) = i + 1 BY <1>1
    <3>5. QED BY <1>1, <2>2, <3>3, <3>4
  <2>3. QED BY <2>1, <2>2
<1>9. OnePerName(rest)
  <2>1. SUFFICES ASSUME NEW i \in 1..Len(c) - 1, NEW j \in 1..Len(c) - 1,
                        rest[i].name = rest[j].name
                 PROVE  i = j
    BY <1>7 DEF OnePerName
  <2>2. from(i) = from(j) BY <1>8, <2>1 DEF OnePerName
  <2>3. QED BY <1>1, <2>2
<1>10. Places(rest, n) = {}
  <2>1. SUFFICES ASSUME NEW i \in 1..Len(c) - 1, rest[i].name = n PROVE FALSE
    BY <1>7 DEF Places
  <2>2. from(i) \in Places(c, n) BY <1>8, <2>1 DEF Places
  <2>3. QED BY <1>2, <1>8, <2>2
<1>11. QED BY <1>6, <1>7, <1>9, <1>10 DEF rest

LEMMA WithoutNone ==
  ASSUME NEW c, NEW n, Places(c, n) = {}
  PROVE  Without(c, n) = c
BY DEF Without, Places

LEMMA AppendOne ==
  ASSUME NEW c \in Seq(Cached), NEW e \in Cached, OnePerName(c), Places(c, e.name) = {}
  PROVE  OnePerName(Append(c, e))
<1>1. /\ Append(c, e) \in Seq(Cached) /\ Len(Append(c, e)) = Len(c) + 1
      /\ Append(c, e)[Len(c) + 1] = e
      /\ \A i \in 1..Len(c) : Append(c, e)[i] = c[i]
  BY AppendProperties
<1>2. \A i \in 1..Len(c) : c[i].name # e.name BY DEF Places
<1>3. SUFFICES ASSUME NEW i \in 1..Len(c) + 1, NEW j \in 1..Len(c) + 1,
                      Append(c, e)[i].name = Append(c, e)[j].name
               PROVE  i = j
  BY <1>1 DEF OnePerName
<1>4. (i \in 1..Len(c) \/ i = Len(c) + 1) /\ (j \in 1..Len(c) \/ j = Len(c) + 1) OBVIOUS
<1>5. QED BY <1>1, <1>2, <1>3, <1>4 DEF OnePerName

LEMMA EndOne ==
  ASSUME NEW c \in Seq(Cached), NEW k \in 0..Len(c) - 1, OnePerName(c)
  PROVE  OnePerName(SubSeq(c, k + 1, Len(c)))
<1> DEFINE kept == SubSeq(c, k + 1, Len(c))
<1>1. /\ kept \in Seq(Cached) /\ Len(kept) = Len(c) - k
      /\ \A i \in 1..Len(c) - k : kept[i] = c[k + i]
  OBVIOUS
<1> HIDE DEF kept
<1>2. SUFFICES ASSUME NEW i \in 1..Len(c) - k, NEW j \in 1..Len(c) - k,
                      kept[i].name = kept[j].name
               PROVE  i = j
  BY <1>1 DEF OnePerName, kept
<1>3. k + i \in DOMAIN c /\ k + j \in DOMAIN c /\ c[k + i].name = c[k + j].name
  BY <1>1, <1>2
<1>4. k + i = k + j BY <1>3 DEF OnePerName
<1>5. QED BY <1>4

(* The payload found moves to the end, and nothing else changes.            *)
LEMMA HitCounted ==
  ASSUME IInv, CacheCounted, NEW c \in Clients, ContentHit(c)
  PROVE  CacheCounted'
<1>1. PICK i \in Hits(task[c].name, task[c].tag) :
        content' = Append(Without(content, task[c].name), content[i])
  BY DEF ContentHit
<1> DEFINE n == task[c].name
           rest == Without(content, n)
<1>2. content[i] \in Cached /\ content[i].name = n /\ i \in Places(content, n)
  BY HitFacts DEF Places
<1>3. content \in Seq(Cached) /\ OnePerName(content)
  BY DEF IInv, CacheTagged, CacheCounted, Accounts
<1>4. /\ Bytes(rest) = Bytes(content) - Length(content[i].data)
      /\ Len(rest) = Len(content) - 1
      /\ OnePerName(rest) /\ Places(rest, n) = {}
  BY <1>2, <1>3, WithoutOne
<1>5. rest \in Seq(Cached) BY <1>3, WithoutFacts
<1>6. content' = Append(rest, content[i]) BY <1>1
<1> HIDE DEF n, rest
<1>7. OnePerName(content') BY <1>2, <1>4, <1>5, <1>6, AppendOne
<1>8. Bytes(content') = Bytes(content)
  <2>1. Bytes(content') = Bytes(rest) + Length(content[i].data)
    BY <1>2, <1>5, <1>6, BytesOfAppend
  <2>2. Bytes(content) \in Nat /\ Length(content[i].data) \in Nat
    BY <1>2, <1>3, BytesIsNat, LengthIsNat DEF Cached
  <2>3. QED BY <1>4, <2>1, <2>2
<1>9. Len(content') = Len(content) BY <1>2, <1>3, <1>4, <1>5, <1>6
<1>10. bytes' = bytes BY DEF ContentHit
<1>11. QED BY <1>7, <1>8, <1>9, <1>10 DEF CacheCounted, Accounts

(* The bytes of the payload replaced are given back, those of the new one   *)
(* counted, and those of each payload evicted given back.                   *)
LEMMA ReplacedCounted ==
  ASSUME IInv, CacheCounted, NEW e \in Cached
  PROVE  /\ OnePerName(Replaced(e.name, e))
         /\ Bytes(Replaced(e.name, e)) = bytes - StaleBytes(e.name) + Length(e.data)
<1> DEFINE n == e.name
           rest == Without(content, n)
<1>1. content \in Seq(Cached) /\ OnePerName(content) /\ bytes = Bytes(content)
  BY DEF IInv, CacheTagged, CacheCounted, Accounts
<1>2. rest \in Seq(Cached) BY <1>1, WithoutFacts
<1>3. Entries(n) = Places(content, n) BY DEF Entries, Places
<1>4. OnePerName(rest) /\ Places(rest, n) = {} /\ Bytes(rest) = bytes - StaleBytes(n)
  <2>1. CASE Places(content, n) = {}
    <3>1. rest = content BY <2>1, WithoutNone
    <3>2. StaleBytes(n) = 0 BY <1>3, <2>1 DEF StaleBytes
    <3>3. Bytes(content) \in Nat BY <1>1, BytesIsNat
    <3> HIDE DEF rest
    <3>4. QED BY <1>1, <2>1, <3>1, <3>2, <3>3
  <2>2. CASE Places(content, n) # {}
    <3>1. Places(content, n) \subseteq Nat BY <1>1 DEF Places
    <3>2. PICK k : k = Min(Places(content, n)) OBVIOUS
    <3>3. k \in Places(content, n) BY <2>2, <3>1, <3>2, LeastOf
    <3>4. StaleBytes(n) = Length(content[k].data) BY <1>3, <2>2, <3>2 DEF StaleBytes
    <3>5. QED BY <1>1, <3>3, <3>4, WithoutOne
  <2>3. QED BY <2>1, <2>2
<1>5. Replaced(n, e) = Append(rest, e) BY DEF Replaced
<1> HIDE DEF rest
<1>6. OnePerName(Replaced(n, e)) BY <1>2, <1>4, <1>5, AppendOne
<1>7. Bytes(Replaced(n, e)) = bytes - StaleBytes(n) + Length(e.data)
  BY <1>2, <1>4, <1>5, BytesOfAppend
<1>8. QED BY <1>6, <1>7

LEMMA InsertCounted ==
  ASSUME IInv, CacheCounted, NEW c \in Clients, Insert(c)
  PROVE  CacheCounted'
<1> DEFINE full == Replaced(task[c].name, Entry(c))
           total == bytes - StaleBytes(task[c].name) + Length(task[c].data)
           k == Evicted(full, total)
<1>1. content' = SubSeq(full, k + 1, Len(full)) /\ bytes' = total - Bytes(SubSeq(full, 1, k))
  BY DEF Insert
<1>2. Entry(c) \in Cached /\ Entry(c).name = task[c].name BY EntryFacts DEF Insert
<1>3. Entry(c).data = task[c].data BY DEF Entry
<1>4. full \in Seq(Cached) /\ Len(full) > 0 BY <1>2, ReplacedFacts DEF Replaced
<1>5. OnePerName(full) /\ Bytes(full) = total BY <1>2, <1>3, ReplacedCounted
<1> HIDE DEF full, total
<1>6. k \in 0..Len(full) - 1
      /\ (total - Bytes(SubSeq(full, 1, k)) <= CacheBytes \/ k = Len(full) - 1)
  BY <1>4, EvictedIs
<1> HIDE DEF k
<1>7. OnePerName(content') BY <1>1, <1>4, <1>5, <1>6, EndOne
<1>8. bytes' = Bytes(content')
  <2>1. k \in 0..Len(full) BY <1>4, <1>6
  <2>2. QED BY <1>1, <1>4, <1>5, <2>1, BytesOfEnd
<1>9. Len(content') = Len(full) - k BY <1>1, <1>4, <1>6
<1>10. bytes' <= CacheBytes \/ Len(content') = 1
  <2>1. CASE k = Len(full) - 1
    <3>1. Len(full) \in Nat BY <1>4
    <3>2. QED BY <1>9, <2>1, <3>1
  <2>2. CASE total - Bytes(SubSeq(full, 1, k)) <= CacheBytes BY <1>1, <2>2, Zenon
  <2>3. QED BY <1>6, <2>1, <2>2, Zenon
<1>11. QED BY <1>7, <1>8, <1>10 DEF CacheCounted, Accounts

LEMMA EmptyCounted ==
  ASSUME bytes = 0, content = <<>>
  PROVE  CacheCounted
BY BytesOfNone, Numbers DEF CacheCounted, Accounts, OnePerName

LEMMA NextCounted ==
  ASSUME IInv, CacheCounted, [Next]_vars
  PROVE  CacheCounted'
<1>1. ASSUME UNCHANGED cacheVars PROVE CacheCounted'
  BY <1>1 DEF cacheVars, CacheCounted
<1>2. ASSUME NEW c \in Clients, Handler(c) PROVE CacheCounted'
  <2>1. CASE ContentHit(c) BY <2>1, HitCounted
  <2>2. CASE Insert(c) BY <2>2, InsertCounted
  <2>3. ASSUME NEW op, NEW n, Begin(c, op, n) PROVE CacheCounted' BY <1>1, <2>3 DEF Begin
  <2>4. CASE SizeMtime(c) \/ ContentSize(c) \/ SizeMemo(c) \/ ContentMtime(c)
    BY <1>1, <2>4 DEF SizeMtime, ContentSize, SizeMemo, ContentMtime
  <2>5. CASE ContentMiss(c) \/ RenderPayload(c) \/ RenderFail(c)
    BY <1>1, <2>5 DEF ContentMiss, RenderPayload, RenderFail
  <2>6. CASE FinishOpen(c) \/ FinishRead(c) \/ FinishGetattr(c)
    BY <1>1, <2>6 DEF FinishOpen, FinishRead, FinishGetattr
  <2>7. CASE ReadHandle(c) \/ Release(c) BY <1>1, <2>7 DEF ReadHandle, Release
  <2>8. QED BY <1>2, <2>1, <2>2, <2>3, <2>4, <2>5, <2>6, <2>7 DEF Handler
<1>3. ASSUME NEW n \in Names, AppendToSource(n) \/ Relist(n) PROVE CacheCounted'
  BY <1>1, <1>3 DEF AppendToSource, Relist
<1>4. CASE Remount
  <2>1. bytes' = 0 /\ content' = <<>> BY <1>4 DEF Remount
  <2>2. QED BY <2>1, BytesOfNone, Numbers DEF CacheCounted, Accounts, OnePerName
<1>5. CASE UNCHANGED vars BY <1>1, <1>5 DEF vars, cacheVars
<1>6. QED BY <1>2, <1>3, <1>4, <1>5 DEF Next

(* The byte counter is what the cached payloads add up to, there is one of  *)
(* each name, and the bound is exceeded by a single payload only, whichever *)
(* handlers render and insert at once (_content_for).                       *)
THEOREM CacheIsCounted == Spec => []CacheAccounts
<1>1. CacheCounted /\ IInv => CacheAccounts
  <2> SUFFICES ASSUME CacheCounted, IInv PROVE CacheAccounts
    OBVIOUS
  <2>1. ASSUME NEW n \in Names PROVE Cardinality(Entries(n)) <= 1
    <3>1. CASE Entries(n) = {} BY <3>1, FS_EmptySet
    <3>2. CASE Entries(n) # {}
      <4>1. PICK i : i \in Entries(n) BY <3>2
      <4>2. Entries(n) = {i} BY <4>1 DEF Entries, CacheCounted, Accounts, OnePerName
      <4>3. Cardinality(Entries(n)) = 1 BY <4>2, FS_Singleton
      <4>4. QED BY <4>3
    <3>3. QED BY <3>1, <3>2
  <2>2. QED BY <2>1 DEF CacheAccounts, CacheCounted, Accounts
<1>2. Init => CacheCounted BY EmptyCounted DEF Init
<1>3. QED BY <1>1, <1>2, InitInv, NextInv, NextCounted, PTL DEF Spec

-----------------------------------------------------------------------------
(* The size a session in a file is said to have, as long as no call was on   *)
(* it with a record older than its first message.                           *)

Owed == FileNames \ misled
LengthAt(n, k) == 1 + k + IF HasFirst(n, k) THEN 1 ELSE 0

(* A payload of such a file is no newer than the file, and has the first    *)
(* message if the version it was rendered from has.                         *)
SizedEntries(v, S) ==
  {e \in Cached : e.name \in S => /\ e.data.version <= v[e.name]
                                 /\ e.data.first = HasFirst(e.name, e.data.version)}
SizedMemos(n, v) ==
  {m \in [tag : Nat, size : Nat] :
     \E k \in 0..v[n] : m.tag <= k + 1 /\ m.size = LengthAt(n, k)}

(* A call has the record of now, and where nothing has disturbed it that is *)
(* the listed one and its payload is the one of now; what it will store was *)
(* rendered no earlier than at the mtime it stores it by.                   *)
CallSized(label, t, v, listed, S) ==
  t.name \in S /\ label # "idle" =>
    /\ t.first = HasFirst(t.name, v[t.name])
    /\ t.quiet => t.first = listed[t.name]
    /\ label \in {"mtime", "parse"} => t.memoTag <= v[t.name] + 1
    /\ label = "lookup" => t.memoTag <= t.tag
    /\ label \in {"contentsize", "lookup"} /\ t.quiet => t.tag = v[t.name] + 1
    /\ label \in {"insert", "done"} =>
         /\ t.data.first = HasFirst(t.name, t.data.version)
         /\ t.memoTag <= t.data.version + 1 /\ t.data.version <= v[t.name]
         /\ t.quiet => t.data.version = v[t.name]

CacheSized == content \in Seq(SizedEntries(version, Owed))
MemoSized == sizes \in [FileNames -> SUBSET [tag : Nat, size : Nat]]
             /\ \A n \in Owed : sizes[n] \subseteq SizedMemos(n, version)
CallsSized == \A c \in Clients : CallSized(pc[c], task[c], version, first, Owed)

Sized == CacheSized /\ MemoSized /\ CallsSized

LEMMA OwedAreFiles ==
  ASSUME NEW n \in Owed PROVE n \in FileNames /\ n \in Names /\ n \notin misled
BY NamesAssumption DEF Owed

LEMMA MovedSized ==
  ASSUME IInv, CallsSized, NEW c \in Clients, NEW label \in Labels, NEW t \in Tasks,
         pc' = [pc EXCEPT ![c] = label], task' = [task EXCEPT ![c] = t],
         version' = version, first' = first, Owed' \subseteq Owed,
         CallSized(label, t, version, first, Owed')
  PROVE  CallsSized'
<1>1. ASSUME NEW d \in Clients PROVE CallSized(pc'[d], task'[d], version, first, Owed')
  <2>1. CASE d = c
    <3>1. pc'[d] = label /\ task'[d] = t BY <2>1 DEF IInv, CallsFresh
    <3>2. QED BY <3>1
  <2>2. CASE d # c
    <3>1. pc'[d] = pc[d] /\ task'[d] = task[d] BY <2>2 DEF IInv, CallsFresh
    <3>2. CallSized(pc[d], task[d], version, first, Owed) BY DEF CallsSized
    <3>3. CallSized(pc[d], task[d], version, first, Owed') BY <3>2 DEF CallSized
    <3>4. QED BY <3>1, <3>3
  <2>3. QED BY <2>1, <2>2
<1>2. QED BY <1>1 DEF CallsSized

LEMMA KeptSized ==
  ASSUME Sized, UNCHANGED <<version, content, sizes>>, Owed' \subseteq Owed
  PROVE  CacheSized' /\ MemoSized'
<1>1. SizedEntries(version, Owed) \subseteq SizedEntries(version, Owed') BY DEF SizedEntries
<1>2. content \in Seq(SizedEntries(version, Owed')) BY <1>1, SeqMonotonic DEF Sized, CacheSized
<1>3. CacheSized' BY <1>2 DEF CacheSized
<1>4. MemoSized' BY DEF Sized, MemoSized
<1>5. QED BY <1>3, <1>4

LEMMA MoveSized ==
  ASSUME IInv, CallsSized, NEW c \in Clients, NEW label \in Labels, NEW t \in Tasks,
         pc' = [pc EXCEPT ![c] = label], task' = [task EXCEPT ![c] = t],
         UNCHANGED <<version, first, misled>>, CallSized(label, t, version, first, Owed)
  PROVE  CallsSized'
<1>1. Owed' = Owed BY DEF Owed
<1>2. QED BY <1>1, MovedSized

LEMMA SameSized ==
  ASSUME Sized, UNCHANGED <<version, content, sizes, misled>>
  PROVE  CacheSized' /\ MemoSized'
<1>1. Owed' = Owed BY DEF Owed
<1>2. QED BY <1>1, KeptSized

LEMMA IdleSized == ASSUME NEW t, NEW v, NEW l, NEW S PROVE CallSized("idle", t, v, l, S)
BY DEF CallSized

LEMMA ReturnSized ==
  ASSUME IInv, CallsSized, NEW c \in Clients, NEW reply, Return(c, reply),
         UNCHANGED <<version, first, misled>>
  PROVE  CallsSized'
<1>1. pc' = [pc EXCEPT ![c] = "idle"] /\ task' = [task EXCEPT ![c] = NoTask] BY DEF Return
<1>2. "idle" \in Labels /\ NoTask \in Tasks BY NoTaskIsTask DEF Labels
<1>3. QED BY <1>1, <1>2, IdleSized, MoveSized

LEMMA BeginSized ==
  ASSUME IInv, Sized, NEW c \in Clients, NEW op \in {"open", "getattr", "read"}, NEW n \in Names,
         Begin(c, op, n)
  PROVE  Sized'
<1> DEFINE t == [NoTask EXCEPT !.op = op, !.name = n, !.first = first[n], !.began = version[n]]
           label == IF op = "getattr" /\ n \in FileNames THEN "size" ELSE "mtime"
<1>1. t \in Tasks /\ t.name = n /\ t.first = first[n]
  <2>1. version[n] \in 0..MaxVersion /\ first[n] \in BOOLEAN BY DEF IInv, Sources
  <2>2. QED BY <2>1, NoTaskIsTask DEF Tasks
<1>2. t.memoTag = 0 BY DEF NoTask
<1>3. pc' = [pc EXCEPT ![c] = label] /\ task' = [task EXCEPT ![c] = t] BY DEF Begin
<1>4. label \in {"size", "mtime"} OBVIOUS
<1> HIDE DEF t, label
<1>5. version[n] \in Nat BY Numbers DEF IInv, Sources
<1>6. version' = version /\ first' = first
      /\ misled' = misled \cup {k \in {n} \cap FileNames : first[k] # HasFirst(k, version[k])}
  BY DEF Begin
<1>7. Owed' \subseteq Owed /\ (n \in Owed' => first[n] = HasFirst(n, version[n]))
  BY <1>6 DEF Owed
<1>8. CallSized(label, t, version, first, Owed') BY <1>1, <1>2, <1>4, <1>5, <1>7 DEF CallSized
<1>9. label \in Labels BY <1>4 DEF Labels
<1>10. CallsSized' BY <1>1, <1>3, <1>6, <1>7, <1>8, <1>9, MovedSized DEF Sized
<1>11. QED BY <1>7, <1>10, KeptSized DEF Sized, Begin, cacheVars

LEMMA SizeMtimeSized ==
  ASSUME IInv, Sized, NEW c \in Clients, SizeMtime(c)
  PROVE  Sized'
<1> DEFINE t == [task[c] EXCEPT !.tag = SourceMtime(task[c].name)]
<1>1. t \in Tasks /\ t.name = task[c].name /\ t.tag = SourceMtime(t.name) /\ t.first = task[c].first
      /\ t.quiet = task[c].quiet
  BY CallFacts, MtimeFacts DEF Tasks
<1>2. task' = [task EXCEPT ![c] = t] /\ pc' = [pc EXCEPT ![c] = "contentsize"] /\ pc[c] = "size"
      /\ UNCHANGED <<version, first, misled>>
  BY DEF SizeMtime
<1> HIDE DEF t
<1>3. CallSized("contentsize", t, version, first, Owed)
  <2>1. CallSized("size", task[c], version, first, Owed) BY <1>2 DEF Sized, CallsSized
  <2>2. t.name \in Owed => t.tag = version[t.name] + 1
    BY <1>1, CallFacts, MtimeFacts, OwedAreFiles
  <2>3. QED BY <1>1, <2>1, <2>2 DEF CallSized
<1>4. "contentsize" \in Labels BY DEF Labels
<1>5. CallsSized' BY <1>1, <1>2, <1>3, <1>4, MoveSized DEF Sized
<1>6. QED BY <1>5, SameSized DEF Sized, SizeMtime, cacheVars

LEMMA ContentSizeSized ==
  ASSUME IInv, Sized, NEW c \in Clients, ContentSize(c)
  PROVE  Sized'
<1>1. UNCHANGED <<version, first, misled>> BY DEF ContentSize
<1>2. ASSUME NEW reply, Return(c, reply) PROVE CallsSized'
  BY <1>1, <1>2, ReturnSized DEF Sized
<1>3. ASSUME pc' = [pc EXCEPT ![c] = "memo"] /\ UNCHANGED task PROVE CallsSized'
  <2>1. task' = [task EXCEPT ![c] = task[c]] BY <1>3 DEF IInv, CallsFresh
  <2>2. CallSized("contentsize", task[c], version, first, Owed) BY DEF Sized, CallsSized, ContentSize
  <2>3. "memo" \in Labels /\ CallSized("memo", task[c], version, first, Owed)
    BY <2>2 DEF Labels, CallSized
  <2>4. QED BY <1>1, <1>3, <2>1, <2>3, CallFacts, MoveSized DEF Sized
<1>4. (\E reply : Return(c, reply)) \/ (pc' = [pc EXCEPT ![c] = "memo"] /\ UNCHANGED task)
  BY DEF ContentSize
<1>5. CallsSized' BY <1>2, <1>3, <1>4
<1>6. UNCHANGED <<version, first, misled, content, sizes>> BY DEF ContentSize, cacheVars
<1>7. QED BY <1>5, <1>6, SameSized DEF Sized

LEMMA SizeMemoSized ==
  ASSUME IInv, Sized, NEW c \in Clients, SizeMemo(c)
  PROVE  Sized'
<1> DEFINE t == [task[c] EXCEPT !.memoTag = SourceMtime(task[c].name)]
<1>1. UNCHANGED <<version, first, misled>> BY DEF SizeMemo
<1>2. ASSUME NEW reply, Return(c, reply) PROVE CallsSized'
  BY <1>1, <1>2, ReturnSized DEF Sized
<1>3. ASSUME pc' = [pc EXCEPT ![c] = "mtime"] /\ task' = [task EXCEPT ![c] = t] PROVE CallsSized'
  <2>1. t \in Tasks /\ t.name = task[c].name /\ t.memoTag = SourceMtime(t.name)
        /\ t.first = task[c].first /\ t.quiet = task[c].quiet
    BY CallFacts, MtimeFacts DEF Tasks
  <2> HIDE DEF t
  <2>2. CallSized("memo", task[c], version, first, Owed) BY DEF Sized, CallsSized, SizeMemo
  <2>3. t.name \in Owed => t.memoTag = version[t.name] + 1 /\ version[t.name] \in Nat
    BY <2>1, CallFacts, MtimeFacts, Numbers, OwedAreFiles
  <2>4. "mtime" \in Labels /\ CallSized("mtime", t, version, first, Owed)
    BY <2>1, <2>2, <2>3 DEF Labels, CallSized
  <2>5. QED BY <1>1, <1>3, <2>1, <2>4, MoveSized DEF Sized
<1>4. \/ \E reply : Return(c, reply)
      \/ pc' = [pc EXCEPT ![c] = "mtime"] /\ task' = [task EXCEPT ![c] = t]
  BY DEF SizeMemo
<1>5. CallsSized' BY <1>2, <1>3, <1>4
<1>6. UNCHANGED <<version, first, misled, content, sizes>> BY DEF SizeMemo, cacheVars
<1>7. QED BY <1>5, <1>6, SameSized DEF Sized

LEMMA ContentMtimeSized ==
  ASSUME IInv, Sized, NEW c \in Clients, ContentMtime(c)
  PROVE  Sized'
<1> DEFINE t == [task[c] EXCEPT !.tag = SourceMtime(task[c].name)]
<1>1. t \in Tasks /\ t.name = task[c].name /\ t.tag = SourceMtime(t.name) /\ t.first = task[c].first
      /\ t.memoTag = task[c].memoTag /\ t.quiet = task[c].quiet
  BY CallFacts, MtimeFacts DEF Tasks
<1>2. task' = [task EXCEPT ![c] = t] /\ pc' = [pc EXCEPT ![c] = "lookup"] /\ pc[c] = "mtime"
      /\ UNCHANGED <<version, first, misled>>
  BY DEF ContentMtime
<1> HIDE DEF t
<1>3. CallSized("lookup", t, version, first, Owed)
  <2>1. CallSized("mtime", task[c], version, first, Owed) BY <1>2 DEF Sized, CallsSized
  <2>2. t.name \in Owed => t.tag = version[t.name] + 1
    BY <1>1, CallFacts, MtimeFacts, OwedAreFiles
  <2>3. QED BY <1>1, <2>1, <2>2 DEF CallSized
<1>4. "lookup" \in Labels BY DEF Labels
<1>5. CallsSized' BY <1>1, <1>2, <1>3, <1>4, MoveSized DEF Sized
<1>6. QED BY <1>5, SameSized DEF Sized, ContentMtime, cacheVars

(* Taking an entry out leaves entries that were there.                      *)
LEMMA WithoutKeeps ==
  ASSUME NEW S, NEW c \in Seq(S), NEW n
  PROVE  Without(c, n) \in Seq(S)
<1> DEFINE places == {i \in DOMAIN c : c[i].name = n}
<1>1. CASE places = {} BY <1>1 DEF Without
<1>2. CASE places # {}
  <2> DEFINE k == CHOOSE i \in places : TRUE
             head == SubSeq(c, 1, k - 1)
             tail == SubSeq(c, k + 1, Len(c))
  <2>1. k \in 1..Len(c) BY <1>2
  <2>2. Without(c, n) = head \o tail BY <1>2 DEF Without, RemoveAt
  <2> HIDE DEF k
  <2>3. head \in Seq(S) /\ tail \in Seq(S) BY <2>1
  <2> HIDE DEF head, tail
  <2>4. QED BY <2>2, <2>3
<1>3. QED BY <1>1, <1>2

LEMMA HitSized ==
  ASSUME IInv, Sized, NEW c \in Clients, ContentHit(c)
  PROVE  Sized'
<1>1. PICK i \in Hits(task[c].name, task[c].tag) :
        /\ content' = Append(Without(content, task[c].name), content[i])
        /\ task' = [task EXCEPT ![c] = [task[c] EXCEPT !.data = content[i].data]]
  BY DEF ContentHit
<1> DEFINE t == [task[c] EXCEPT !.data = content[i].data]
           rest == Without(content, task[c].name)
<1>2. /\ i \in DOMAIN content /\ content[i] \in Cached /\ Tagged(content[i])
      /\ content[i].name = task[c].name /\ content[i].tag = task[c].tag
  BY HitFacts
<1>3. content[i] \in SizedEntries(version, Owed) BY <1>2 DEF Sized, CacheSized
<1>4. t \in Tasks /\ t.name = task[c].name /\ t.tag = task[c].tag /\ t.quiet = task[c].quiet
      /\ t.memoTag = task[c].memoTag /\ t.first = task[c].first /\ t.data = content[i].data
  BY <1>2, CallFacts DEF Tasks, Cached
<1>5. content' \in Seq(SizedEntries(version, Owed))
  <2>1. rest \in Seq(SizedEntries(version, Owed)) BY WithoutKeeps DEF Sized, CacheSized
  <2> HIDE DEF rest
  <2>2. Append(rest, content[i]) \in Seq(SizedEntries(version, Owed)) BY <1>3, <2>1
  <2>3. QED BY <1>1, <2>2 DEF rest
<1>6. UNCHANGED <<version, first, misled>> /\ sizes' = sizes BY DEF ContentHit
<1>7. pc' = [pc EXCEPT ![c] = "done"] /\ task' = [task EXCEPT ![c] = t] BY <1>1 DEF ContentHit
<1> HIDE DEF t, rest
<1>8. CallSized("done", t, version, first, Owed)
  <2>1. SUFFICES ASSUME t.name \in Owed PROVE CallSized("done", t, version, first, Owed)
    BY DEF CallSized
  <2>2. /\ task[c].first = HasFirst(t.name, version[t.name]) /\ task[c].memoTag <= task[c].tag
        /\ task[c].quiet => task[c].first = first[t.name]
        /\ task[c].quiet => task[c].tag = version[t.name] + 1
    BY <1>4, <2>1 DEF Sized, CallsSized, CallSized, ContentHit
  <2>3. t.data.version <= version[t.name] /\ t.data.first = HasFirst(t.name, t.data.version)
    BY <1>2, <1>3, <1>4, <2>1 DEF SizedEntries
  <2>4. t.tag <= t.data.version + 1 BY <1>2, <1>4, <2>1, OwedAreFiles DEF Tagged
  <2>5. t.tag \in Nat /\ t.data.version \in Nat /\ t.memoTag \in Nat
    BY <1>4, CallNumbers
  <2>6. version[t.name] \in Nat BY <1>4, CallFacts, Numbers
  <2>7. t.memoTag <= t.data.version + 1 BY <1>4, <2>2, <2>4, <2>5
  <2>8. t.quiet => t.data.version = version[t.name] BY <1>4, <2>2, <2>3, <2>4, <2>5, <2>6
  <2>9. QED BY <1>4, <2>2, <2>3, <2>7, <2>8 DEF CallSized
<1>9. "done" \in Labels BY DEF Labels
<1>10. CallsSized' BY <1>4, <1>6, <1>7, <1>8, <1>9, MoveSized DEF Sized
<1>11. CacheSized' BY <1>5, <1>6 DEF CacheSized, Owed
<1>12. MemoSized' BY <1>6 DEF Sized, MemoSized, Owed
<1>13. QED BY <1>10, <1>11, <1>12 DEF Sized

LEMMA ContentMissSized ==
  ASSUME IInv, Sized, NEW c \in Clients, ContentMiss(c)
  PROVE  Sized'
<1>1. task' = [task EXCEPT ![c] = task[c]] BY DEF IInv, CallsFresh, ContentMiss
<1>2. pc' = [pc EXCEPT ![c] = "parse"] /\ pc[c] = "lookup" /\ UNCHANGED <<version, first, misled>>
  BY DEF ContentMiss
<1>3. CallSized("parse", task[c], version, first, Owed)
  <2>1. SUFFICES ASSUME task[c].name \in Owed PROVE CallSized("parse", task[c], version, first, Owed)
    BY DEF CallSized
  <2>2. /\ task[c].first = HasFirst(task[c].name, version[task[c].name])
        /\ task[c].quiet => task[c].first = first[task[c].name]
        /\ task[c].memoTag <= task[c].tag
    BY <1>2, <2>1 DEF Sized, CallsSized, CallSized
  <2>3. task[c].tag <= version[task[c].name] + 1 BY <1>2, <2>1, CallFacts, OwedAreFiles DEF CallFresh
  <2>4. task[c].tag \in Nat /\ task[c].memoTag \in Nat /\ version[task[c].name] \in Nat
    BY CallFacts, CallNumbers, Numbers
  <2>5. QED BY <2>2, <2>3, <2>4 DEF CallSized
<1>4. "parse" \in Labels BY DEF Labels
<1>5. CallsSized' BY <1>1, <1>2, <1>3, <1>4, CallFacts, MoveSized DEF Sized
<1>6. UNCHANGED <<version, first, misled, content, sizes>> BY DEF ContentMiss, cacheVars
<1>7. QED BY <1>5, <1>6, SameSized DEF Sized

LEMMA RenderPayloadSized ==
  ASSUME IInv, Sized, NEW c \in Clients, RenderPayload(c)
  PROVE  Sized'
<1> DEFINE t == [task[c] EXCEPT !.data = Render(task[c].name, task[c].first)]
<1>1. Render(task[c].name, task[c].first) \in Payloads
  BY CallFacts DEF Render, Payloads
<1>2. t \in Tasks /\ t.name = task[c].name /\ t.quiet = task[c].quiet
      /\ t.memoTag = task[c].memoTag /\ t.first = task[c].first
      /\ t.data.version = version[task[c].name] /\ t.data.first = task[c].first
  BY <1>1, CallFacts DEF Tasks, Render
<1>3. task' = [task EXCEPT ![c] = t] /\ pc' = [pc EXCEPT ![c] = "insert"] /\ pc[c] = "parse"
      /\ UNCHANGED <<version, first, misled>>
  BY DEF RenderPayload
<1> HIDE DEF t
<1>4. CallSized("insert", t, version, first, Owed)
  <2>1. CallSized("parse", task[c], version, first, Owed) BY <1>3 DEF Sized, CallsSized
  <2>2. version[task[c].name] \in Nat BY CallFacts, Numbers
  <2>3. QED BY <1>2, <2>1, <2>2 DEF CallSized
<1>5. "insert" \in Labels BY DEF Labels
<1>6. CallsSized' BY <1>2, <1>3, <1>4, <1>5, MoveSized DEF Sized
<1>7. UNCHANGED <<version, first, misled, content, sizes>> BY DEF RenderPayload, cacheVars
<1>8. QED BY <1>6, <1>7, SameSized DEF Sized

LEMMA InsertSized ==
  ASSUME IInv, Sized, NEW c \in Clients, Insert(c)
  PROVE  Sized'
<1> DEFINE full == Append(Without(content, task[c].name), Entry(c))
           total == bytes - StaleBytes(task[c].name) + Length(task[c].data)
           k == Evicted(full, total)
<1>1. content' = SubSeq(full, k + 1, Len(full)) BY DEF Insert, Replaced
<1>2. CallSized("insert", task[c], version, first, Owed) BY DEF Sized, CallsSized, Insert
<1>3. Entry(c) \in SizedEntries(version, Owed)
  <2>1. Entry(c) \in Cached /\ Entry(c).name = task[c].name BY EntryFacts DEF Insert
  <2>2. Entry(c).data = task[c].data BY DEF Entry
  <2>3. QED BY <1>2, <2>1, <2>2 DEF SizedEntries, CallSized
<1>4. full \in Seq(SizedEntries(version, Owed))
  <2>1. Without(content, task[c].name) \in Seq(SizedEntries(version, Owed))
    BY WithoutKeeps DEF Sized, CacheSized
  <2>2. QED BY <1>3, <2>1
<1>5. full \in Seq(Cached) /\ Len(full) > 0 BY EntryFacts, ReplacedFacts DEF Insert
<1> HIDE DEF full, total
<1>6. k \in 0..Len(full) - 1 BY <1>5, EvictedIs
<1> HIDE DEF k
<1>7. content' \in Seq(SizedEntries(version, Owed)) BY <1>1, <1>4, <1>6
<1>8. UNCHANGED <<version, first, misled>> /\ sizes' = sizes /\ task' = task
      /\ pc' = [pc EXCEPT ![c] = "done"]
  BY DEF Insert
<1>9. task' = [task EXCEPT ![c] = task[c]] BY <1>8 DEF IInv, CallsFresh
<1>10. "done" \in Labels /\ CallSized("done", task[c], version, first, Owed)
  BY <1>2 DEF Labels, CallSized
<1>11. CallsSized' BY <1>8, <1>9, <1>10, CallFacts, MoveSized DEF Sized
<1>12. CacheSized' BY <1>7, <1>8 DEF CacheSized, Owed
<1>13. MemoSized' BY <1>8 DEF Sized, MemoSized, Owed
<1>14. QED BY <1>11, <1>12, <1>13 DEF Sized

(* The memo keeps a size that was rendered no earlier than at its mtime.    *)
LEMMA FinishGetattrSized ==
  ASSUME IInv, Sized, NEW c \in Clients, FinishGetattr(c)
  PROVE  Sized'
<1> DEFINE n == task[c].name
           m == [tag |-> task[c].memoTag, size |-> Length(task[c].data)]
<1>1. /\ Return(c, {Length(task[c].data)}) /\ pc[c] = "done"
      /\ UNCHANGED <<version, first, misled>> /\ content' = content
      /\ sizes' = IF n \in FileNames THEN [sizes EXCEPT ![n] = {m}] ELSE sizes
  BY DEF FinishGetattr, MemoTag, cacheVars
<1>2. CallsSized' BY <1>1, ReturnSized DEF Sized
<1>3. m \in [tag : Nat, size : Nat] BY CallFacts, LengthIsNat, Numbers DEF Tasks
<1>4. ASSUME n \in Owed PROVE m \in SizedMemos(n, version)
  <2>1. PICK k : k = task[c].data.version OBVIOUS
  <2>2. task[c].data.first = HasFirst(n, k) /\ task[c].memoTag <= k + 1 /\ k <= version[n]
    BY <1>1, <1>4, <2>1 DEF Sized, CallsSized, CallSized
  <2>3. k \in Nat /\ version[n] \in Nat BY <2>1, CallFacts, CallNumbers, Numbers
  <2>4. k \in 0..version[n] BY <2>2, <2>3
  <2>5. m.tag = task[c].memoTag /\ m.size = LengthAt(n, k)
    BY <2>1, <2>2 DEF Length, LengthAt
  <2> HIDE DEF m, n
  <2>6. m.tag <= k + 1 BY <2>2, <2>5
  <2>7. QED BY <1>3, <2>4, <2>5, <2>6 DEF SizedMemos
<1> HIDE DEF m, n
<1>5. MemoSized'
  <2>1. CASE n \notin FileNames BY <1>1, <2>1 DEF Sized, MemoSized, Owed
  <2>2. CASE n \in FileNames
    <3>1. sizes' \in [FileNames -> SUBSET [tag : Nat, size : Nat]]
      BY <1>1, <1>3, <2>2 DEF Sized, MemoSized
    <3>2. ASSUME NEW k \in Owed PROVE sizes'[k] \subseteq SizedMemos(k, version)
      <4>0. k \in FileNames BY OwedAreFiles
      <4>1. CASE k = n BY <1>1, <1>4, <2>2, <4>0, <4>1 DEF Sized, MemoSized
      <4>2. CASE k # n BY <1>1, <2>2, <4>0, <4>2 DEF Sized, MemoSized
      <4>3. QED BY <4>1, <4>2
    <3>3. Owed' = Owed BY <1>1 DEF Owed
    <3>4. QED BY <1>1, <3>1, <3>2, <3>3 DEF MemoSized
  <2>3. QED BY <2>1, <2>2
<1>6. CacheSized' BY <1>1 DEF Sized, CacheSized, Owed
<1>7. QED BY <1>2, <1>5, <1>6 DEF Sized

LEMMA OtherSized ==
  ASSUME IInv, Sized, NEW c \in Clients,
         RenderFail(c) \/ FinishOpen(c) \/ FinishRead(c) \/ ReadHandle(c) \/ Release(c)
  PROVE  Sized'
<1>1. UNCHANGED <<version, first, misled, content, sizes>>
  BY DEF RenderFail, FinishOpen, FinishRead, ReadHandle, Release, cacheVars
<1>2. Return(c, {}) \/ (pc' = pc /\ task' = task)
  BY DEF RenderFail, FinishOpen, FinishRead, ReadHandle, Release
<1>3. CallsSized'
  <2>1. ASSUME Return(c, {}) PROVE CallsSized' BY <1>1, <2>1, ReturnSized DEF Sized
  <2>2. ASSUME pc' = pc /\ task' = task PROVE CallsSized'
    BY <1>1, <2>2 DEF Sized, CallsSized, Owed
  <2>3. QED BY <1>2, <2>1, <2>2
<1>4. QED BY <1>1, <1>3, SameSized DEF Sized

(* A file grows: no call about it is undisturbed.                           *)
LEMMA AppendToSourceSized ==
  ASSUME IInv, Sized, NEW n \in Names, AppendToSource(n)
  PROVE  Sized'
<1>1. version' = [version EXCEPT ![n] = version[n] + 1] /\ task' = Disturb(n)
      /\ first' = first /\ content' = content /\ sizes' = sizes /\ pc' = pc
      /\ misled \subseteq misled'
      /\ \A c \in Clients : n \in FileNames \ misled' /\ pc[c] # "idle" /\ task[c].name = n
                           => task[c].first = HasFirst(n, version'[n])
  BY DEF AppendToSource, cacheVars
<1>0. Owed' \subseteq Owed BY <1>1 DEF Owed
<1>2. \A k \in Names : version[k] \in Nat BY Numbers DEF IInv, Sources
<1>3. \A k \in Names : /\ k = n => version'[k] = version[k] + 1
                       /\ k # n => version'[k] = version[k]
                       /\ version[k] <= version'[k] /\ version'[k] \in Nat
  BY <1>1, <1>2 DEF IInv, Sources
<1>4. CacheSized'
  <2>1. SizedEntries(version, Owed) \subseteq SizedEntries(version', Owed')
    <3>1. ASSUME NEW e \in SizedEntries(version, Owed), e.name \in Owed'
          PROVE  /\ e.data.version <= version'[e.name]
                 /\ e.data.first = HasFirst(e.name, e.data.version)
      <4>1. e \in Cached /\ e.data.version <= version[e.name]
            /\ e.data.first = HasFirst(e.name, e.data.version)
        BY <1>0, <3>1 DEF SizedEntries
      <4>2. e.name \in Names /\ e.data.version \in Nat
        <5>1. e.name \in Names /\ e.data \in Payloads BY <4>1 DEF Cached
        <5>2. e.data.version \in 0..MaxVersion BY <5>1 DEF Payloads
        <5>3. QED BY <5>1, <5>2, Numbers
      <4>3. QED BY <1>2, <1>3, <4>1, <4>2
    <3>2. PICK T : T = Owed' OBVIOUS
    <3>3. PICK w : w = version' OBVIOUS
    <3>4. SizedEntries(version, Owed) \subseteq SizedEntries(w, T)
      BY <3>1, <3>2, <3>3 DEF SizedEntries
    <3>5. QED BY <3>2, <3>3, <3>4
  <2>2. content \in Seq(SizedEntries(version', Owed'))
    BY <2>1, SeqMonotonic DEF Sized, CacheSized
  <2>3. QED BY <1>1, <2>2 DEF CacheSized
<1>5. MemoSized'
  <2>1. ASSUME NEW k \in Owed PROVE SizedMemos(k, version) \subseteq SizedMemos(k, version')
    <3>1. k \in Names BY OwedAreFiles
    <3>2. 0..version[k] \subseteq 0..version'[k] BY <1>2, <1>3, <3>1
    <3>3. QED BY <3>2 DEF SizedMemos
  <2>2. QED BY <1>0, <1>1, <2>1 DEF Sized, MemoSized
<1>6. ASSUME NEW c \in Clients PROVE CallSized(pc[c], task'[c], version', first, Owed')
  <2>1. CASE pc[c] = "idle" BY <2>1 DEF CallSized
  <2>2. CASE pc[c] # "idle" /\ task[c].name = n
    <3>1. task'[c] = [task[c] EXCEPT !.quiet = FALSE] BY <1>1, <2>2 DEF Disturb
    <3>2. PICK t : t = task'[c] OBVIOUS
    <3>3. /\ t.name = n /\ t.first = task[c].first /\ t.memoTag = task[c].memoTag
          /\ t.tag = task[c].tag /\ t.data = task[c].data /\ ~t.quiet
      BY <2>2, <3>1, <3>2, CallFacts DEF Tasks
    <3>4. t.memoTag \in Nat /\ t.data.version \in Nat
      <4>1. task[c].memoTag \in Nat /\ task[c].data.version \in Nat
        BY CallFacts, CallNumbers
      <4>2. QED BY <3>3, <4>1
    <3>5. CallSized(pc[c], task[c], version, first, Owed) BY DEF Sized, CallsSized
    <3>6. CallSized(pc[c], t, version', first, Owed')
      BY <1>0, <1>1, <1>2, <1>3, <2>2, <3>3, <3>4, <3>5 DEF CallSized, Owed
    <3>7. QED BY <3>2, <3>6
  <2>3. CASE task[c].name # n
    <3>1. task'[c] = task[c] BY <1>1, <2>3 DEF Disturb
    <3>2. version'[task[c].name] = version[task[c].name] BY <1>3, <2>3, CallFacts
    <3>3. CallSized(pc[c], task[c], version, first, Owed) BY DEF Sized, CallsSized
    <3>4. CallSized(pc[c], task[c], version', first, Owed') BY <1>0, <3>2, <3>3 DEF CallSized
    <3>5. QED BY <3>1, <3>4
  <2>4. QED BY <2>1, <2>2, <2>3
<1>7. CallsSized' BY <1>1, <1>6 DEF CallsSized
<1>8. QED BY <1>4, <1>5, <1>7 DEF Sized

(* A session is listed anew: no call about it is undisturbed.               *)
LEMMA RelistSized ==
  ASSUME IInv, Sized, NEW n \in Names, Relist(n)
  PROVE  Sized'
<1>1. UNCHANGED <<version, misled, content, sizes, pc>> /\ task' = Disturb(n)
      /\ first' = [first EXCEPT ![n] = HasFirst(n, version[n])]
  BY DEF Relist, cacheVars
<1>2. Owed' = Owed BY <1>1 DEF Owed
<1>3. ASSUME NEW c \in Clients PROVE CallSized(pc[c], task'[c], version, first', Owed)
  <2>1. CallSized(pc[c], task[c], version, first, Owed) BY DEF Sized, CallsSized
  <2>2. CASE pc[c] = "idle" BY <2>2 DEF CallSized
  <2>3. CASE pc[c] # "idle" /\ task[c].name = n
    <3>1. task'[c] = [task[c] EXCEPT !.quiet = FALSE] BY <1>1, <2>3 DEF Disturb
    <3>2. PICK t : t = task'[c] OBVIOUS
    <3>3. /\ t.name = n /\ t.first = task[c].first /\ t.memoTag = task[c].memoTag
          /\ t.tag = task[c].tag /\ t.data = task[c].data /\ ~t.quiet
      BY <2>3, <3>1, <3>2, CallFacts DEF Tasks
    <3>4. CallSized(pc[c], t, version, first', Owed) BY <2>1, <2>3, <3>3 DEF CallSized
    <3>5. QED BY <3>2, <3>4
  <2>4. CASE task[c].name # n
    <3>1. task'[c] = task[c] BY <1>1, <2>4 DEF Disturb
    <3>2. first'[task[c].name] = first[task[c].name]
      BY <1>1, <2>4, CallFacts DEF IInv, Sources
    <3>3. QED BY <2>1, <3>1, <3>2 DEF CallSized
  <2>5. QED BY <2>2, <2>3, <2>4
<1>4. CallsSized' BY <1>1, <1>2, <1>3 DEF CallsSized
<1>5. CacheSized' /\ MemoSized' BY <1>1, SameSized
<1>6. QED BY <1>4, <1>5 DEF Sized

LEMMA InitSized == Init => Sized
<1> SUFFICES ASSUME Init PROVE Sized
  OBVIOUS
<1>1. CacheSized /\ MemoSized BY OwedAreFiles DEF Init, CacheSized, MemoSized
<1>2. CallsSized BY IdleSized DEF Init, CallsSized
<1>3. QED BY <1>1, <1>2 DEF Sized

LEMMA RemountSized ==
  ASSUME Sized, Remount
  PROVE  Sized'
<1>1. UNCHANGED <<version, misled>> /\ Owed' = Owed BY DEF Remount, Owed
<1>2. CacheSized' BY DEF Remount, CacheSized
<1>3. MemoSized' BY <1>1, OwedAreFiles DEF Remount, Sized, MemoSized
<1>4. CallsSized' BY IdleSized DEF Remount, CallsSized
<1>5. QED BY <1>2, <1>3, <1>4 DEF Sized

LEMMA NextSized ==
  ASSUME IInv, Sized, [Next]_vars
  PROVE  Sized'
<1>1. ASSUME NEW c \in Clients, Handler(c) PROVE Sized'
  BY <1>1, BeginSized, SizeMtimeSized, ContentSizeSized, SizeMemoSized, ContentMtimeSized,
     HitSized, ContentMissSized, RenderPayloadSized, InsertSized, FinishGetattrSized, OtherSized
     DEF Handler
<1>2. ASSUME NEW n \in Names, AppendToSource(n) \/ Relist(n) PROVE Sized'
  BY <1>2, AppendToSourceSized, RelistSized
<1>3. CASE Remount BY <1>3, RemountSized
<1>4. CASE UNCHANGED vars
  BY <1>4 DEF vars, cacheVars, Sized, CacheSized, MemoSized, CallsSized, Owed
<1>5. QED BY <1>1, <1>2, <1>3, <1>4 DEF Next

(* How long a payload is that is rendered or found now.                     *)
LEMMA ShownLength ==
  ASSUME IInv, Sized, NEW n \in Owed, first[n] = HasFirst(n, version[n])
  PROVE  Length(WouldShow(n)) = LengthAt(n, version[n])
<1> DEFINE hits == Hits(n, SourceMtime(n))
<1>1. n \in Names /\ n \in FileNames /\ version[n] \in Nat
  BY OwedAreFiles, Numbers DEF IInv, Sources
<1>2. SourceMtime(n) = version[n] + 1 BY <1>1, MtimeFacts
<1>3. CASE hits = {}
  <2>1. WouldShow(n) = [version |-> version[n], first |-> first[n]]
    BY <1>3 DEF WouldShow, Render
  <2>2. QED BY <2>1 DEF Length, LengthAt
<1>4. CASE hits # {}
  <2>1. PICK i : i = Min(hits) OBVIOUS
  <2>2. hits \subseteq Nat BY DEF Hits, Entries, IInv, CacheTagged
  <2>3. i \in hits BY <1>4, <2>1, <2>2, LeastOf
  <2>4. /\ i \in DOMAIN content /\ content[i].name = n /\ content[i].tag = version[n] + 1
        /\ content[i] \in Cached /\ Tagged(content[i])
    BY <1>2, <2>3 DEF Hits, Entries, IInv, CacheTagged
  <2>5. content[i] \in SizedEntries(version, Owed) BY <2>4 DEF Sized, CacheSized
  <2>6. PICK p : p = content[i].data OBVIOUS
  <2>7. p.version <= version[n] /\ p.first = HasFirst(n, p.version)
    BY <2>4, <2>5, <2>6 DEF SizedEntries
  <2>8. version[n] + 1 <= p.version + 1 BY <1>1, <2>4, <2>6 DEF Tagged
  <2>9. p.version \in Nat
    <3>1. p \in Payloads BY <2>4, <2>6 DEF Cached
    <3>2. p.version \in 0..MaxVersion BY <3>1 DEF Payloads
    <3>3. QED BY <3>2, Numbers
  <2>10. p.version = version[n] BY <1>1, <2>7, <2>8, <2>9
  <2>11. WouldShow(n) = p BY <1>4, <2>1, <2>6 DEF WouldShow
  <2>12. QED BY <2>7, <2>10, <2>11 DEF Length, LengthAt
<1>5. QED BY <1>3, <1>4

LEMMA AnswerIsShown ==
  ASSUME IInv, Sized, NEW c \in Clients, NEW reply, Return(c, reply), reply # {},
         ContentSize(c) \/ SizeMemo(c) \/ FinishGetattr(c),
         task[c].quiet, task[c].name \in Owed
  PROVE  reply = {Length(WouldShow(task[c].name))}
<1> DEFINE n == task[c].name
<1>1. statSize' = [NoSize EXCEPT ![c] = reply] BY DEF Return
<1>2. statSize'[c] = reply /\ statSize' # NoSize BY <1>1 DEF NoSize
<1>3. n \in Names /\ n \in FileNames BY CallFacts, OwedAreFiles
<1>9. first[n] = HasFirst(n, version[n])
  <2>1. pc[c] # "idle" BY DEF ContentSize, SizeMemo, FinishGetattr
  <2>2. QED BY <2>1 DEF Sized, CallsSized, CallSized
<1>4. SourceMtime(n) = version[n] + 1 BY <1>3, MtimeFacts
<1>5. CASE ContentSize(c)
  <2>1. PICK hits : hits = Hits(n, task[c].tag) OBVIOUS
  <2>2. Hits(n, task[c].tag) = Hits(n, SourceMtime(n))
    <3>1. task[c].tag = version[n] + 1 BY <1>5 DEF ContentSize, Sized, CallsSized, CallSized
    <3>2. QED BY <1>4, <3>1
  <2>3. hits # {} /\ Return(c, {Length(content[Min(hits)].data)})
    <3>1. statSize' # NoSize BY <1>2
    <3>2. QED BY <1>5, <2>1, <3>1 DEF ContentSize, NoReply
  <2>4. statSize'[c] = {Length(content[Min(hits)].data)} BY <2>3 DEF Return, NoSize
  <2>5. WouldShow(n) = content[Min(hits)].data BY <2>1, <2>2, <2>3 DEF WouldShow
  <2>6. QED BY <1>2, <2>4, <2>5
<1>6. CASE SizeMemo(c)
  <2>1. PICK m \in sizes[n] : m.tag = SourceMtime(n) /\ Return(c, {m.size})
    BY <1>2, <1>6 DEF SizeMemo, NoReply
  <2>2. statSize'[c] = {m.size} BY <2>1 DEF Return, NoSize
  <2>3. m \in SizedMemos(n, version) BY <2>1 DEF Sized, MemoSized
  <2>4. PICK k \in 0..version[n] : m.tag <= k + 1 /\ m.size = LengthAt(n, k)
    BY <2>3 DEF SizedMemos
  <2>5. version[n] \in Nat BY <1>3, Numbers DEF IInv, Sources
  <2>6. k = version[n] BY <1>4, <2>1, <2>4, <2>5
  <2>7. m.size = LengthAt(n, version[n]) BY <2>4, <2>6
  <2>8. QED BY <1>2, <1>9, <2>2, <2>7, ShownLength
<1>7. CASE FinishGetattr(c)
  <2>1. Return(c, {Length(task[c].data)}) /\ pc[c] = "done" BY <1>7 DEF FinishGetattr
  <2>2. statSize'[c] = {Length(task[c].data)} BY <2>1 DEF Return, NoSize
  <2>3. /\ task[c].data.version = version[n]
        /\ task[c].data.first = HasFirst(n, task[c].data.version)
    BY <2>1 DEF Sized, CallsSized, CallSized
  <2>4. Length(task[c].data) = LengthAt(n, version[n]) BY <2>3 DEF Length, LengthAt
  <2>5. QED BY <1>2, <1>9, <2>2, <2>4, ShownLength
<1>8. QED BY <1>5, <1>6, <1>7

(* The size a session in a file is said to have is the length of what an    *)
(* open would show, when nothing disturbs the call - unless a call was ever *)
(* on the session with a record older than its first message (getattr,      *)
(* _size_of).                                                               *)
THEOREM SizesAreOfWhatIsShown == Spec => StatSizeIsPayloadSize
<1> DEFINE Shown == \A c \in Clients :
             (statSize'[c] # {} /\ pc[c] # "idle" /\ task[c].quiet /\ task[c].name \in Owed)
               => statSize'[c] = {Length(WouldShow(task[c].name))}
<1>1. ASSUME IInv, Sized, Next PROVE Shown
  <2> SUFFICES ASSUME NEW c \in Clients, statSize'[c] # {}, task[c].quiet, pc[c] # "idle",
                      task[c].name \in Owed
               PROVE  statSize'[c] = {Length(WouldShow(task[c].name))}
    OBVIOUS
  <2>1. statSize' # NoSize BY DEF NoSize
  <2>2. ~NoReply BY <2>1 DEF NoReply
  <2>3. ASSUME NEW d \in Clients, NEW reply, Return(d, reply)
        PROVE  d = c /\ reply = statSize'[c] /\ reply # {}
    BY <2>3 DEF Return, NoSize
  <2>4. ASSUME NEW d \in Clients, Handler(d)
        PROVE  statSize'[c] = {Length(WouldShow(task[c].name))}
    <3>1. ~SizeMtime(d) /\ ~ContentMtime(d) /\ ~ContentHit(d) /\ ~ContentMiss(d)
          /\ ~RenderPayload(d) /\ ~Insert(d) /\ ~ReadHandle(d) /\ ~Release(d)
      BY <2>2 DEF SizeMtime, ContentMtime, ContentHit, ContentMiss, RenderPayload, Insert,
         ReadHandle, Release
    <3>2. \A op, n : ~Begin(d, op, n) BY <2>2 DEF Begin
    <3>3. ~Return(d, {}) BY <2>3
    <3>4. ~RenderFail(d) /\ ~FinishOpen(d) /\ ~FinishRead(d)
      BY <3>3 DEF RenderFail, FinishOpen, FinishRead
    <3>5. ContentSize(d) \/ SizeMemo(d) \/ FinishGetattr(d)
      BY <2>4, <3>1, <3>2, <3>4 DEF Handler
    <3>6. \E reply : Return(d, reply)
      BY <2>2, <3>5 DEF ContentSize, SizeMemo, FinishGetattr
    <3>7. PICK reply : Return(d, reply) BY <3>6
    <3>8. d = c /\ reply = statSize'[c] /\ reply # {} BY <2>3, <3>7
    <3>9. QED BY <1>1, <3>5, <3>7, <3>8, AnswerIsShown
  <2>5. ASSUME NEW n \in Names, AppendToSource(n) \/ Relist(n) PROVE FALSE
    BY <2>2, <2>5 DEF AppendToSource, Relist
  <2>6. ~Remount BY <2>2 DEF Remount
  <2>7. QED BY <1>1, <2>4, <2>5, <2>6 DEF Next
<1>2. IInv /\ Sized /\ [Next]_vars => [Shown]_vars BY <1>1
<1>3. Init => Sized BY InitSized
<1>4. IInv /\ Sized /\ [Next]_vars => Sized' BY NextSized
<1> HIDE DEF Shown
<1>5. Spec => [][Shown]_vars BY <1>2, <1>3, <1>4, InitInv, NextInv, PTL DEF Spec
<1>6. QED BY <1>5 DEF StatSizeIsPayloadSize, SizesRightFor, Owed, Shown
=============================================================================
