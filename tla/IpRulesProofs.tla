--------------------------- MODULE IpRulesProofs ---------------------------
(* Theorems about IpRules, for every set of programs, texts and address    *)
(* spaces, every meaning of the texts and every size of a netsh rule.      *)
EXTENDS IpRules, IntervalProofs

-----------------------------------------------------------------------------
(* What is left of a handler leads from one content of the list, or of     *)
(* Windows, to another: of every element, the last instruction that makes  *)
(* it what it ends as is followed by none that undoes this.                *)

Kind == {"list", "single", "white"}

Puts(k, i, x) ==
  \/ k = "list" /\ i.op = "edit" /\ x \in i.list
  \/ k = "single" /\ i.op = "add" /\ x \in i.single
  \/ k = "white" /\ i.op = "add" /\ x \in i.white

Drops(k, i, x) ==
  \/ k = "list" /\ i.op = "edit" /\ x \notin i.list
  \/ k = "single" /\ i.op = "delete" /\ x \in i.single
  \/ k = "white" /\ i.op = "delete" /\ (x \in i.white \/ x.exe \in i.exes)

Makes(k, i, x, T) == IF x \in T THEN Puts(k, i, x) ELSE Drops(k, i, x)
Undoes(k, i, x, T) == IF x \in T THEN Drops(k, i, x) ELSE Puts(k, i, x)

Settles(k, p, x, S, T) ==
  \E j \in 0..Len(p) :
    /\ j = 0 => (x \in S <=> x \in T)
    /\ j # 0 => Makes(k, p[j], x, T)
    /\ \A m \in 1..Len(p) : m > j => ~Undoes(k, p[m], x, T)

Leads(k, p, S, T) == \A x : Settles(k, p, x, S, T)

(* One instruction takes S to T. *)
Turns(k, i, S, T) ==
  \A x : x \in T <=> (Puts(k, i, x) \/ (x \in S /\ ~Drops(k, i, x)))

LEMMA PutsOrDrops ==
  ASSUME NEW k, NEW i, NEW x
  PROVE  ~(Puts(k, i, x) /\ Drops(k, i, x))
BY DEF Puts, Drops

LEMMA LeadsNowhere ==
  ASSUME NEW k, NEW S, NEW T
  PROVE  Leads(k, <<>>, S, T) <=> S = T
<1>1. Len(<<>>) = 0 /\ 0..0 = {0} /\ 1..0 = {}
  BY NoIndex
<1>2. ASSUME NEW x
      PROVE  Settles(k, <<>>, x, S, T) <=> (x \in S <=> x \in T)
  BY <1>1 DEF Settles
<1>3. QED
  BY <1>2 DEF Leads

LEMMA LeadsOne ==
  ASSUME NEW k, NEW i, NEW S, NEW T, Turns(k, i, S, T)
  PROVE  Leads(k, <<i>>, S, T)
<1> SUFFICES ASSUME NEW x
             PROVE  Settles(k, <<i>>, x, S, T)
  BY DEF Leads
<1> DEFINE p == <<i>>
<1>1. Len(p) = 1 /\ p[1] = i /\ 0 \in 0..1 /\ 1 \in 0..1
      /\ \A m \in 1..1 : m = 1 /\ m > 0 /\ ~(m > 1)
  OBVIOUS
<1> HIDE DEF p
<1>2. CASE Puts(k, i, x) \/ Drops(k, i, x)
  <2>1. Makes(k, i, x, T)
    BY <1>2, PutsOrDrops DEF Turns, Makes
  <2>2. QED
    BY <1>1, <2>1 DEF Settles, p
<1>3. CASE ~(Puts(k, i, x) \/ Drops(k, i, x))
  <2>1. (x \in S <=> x \in T) /\ ~Undoes(k, i, x, T)
    BY <1>3 DEF Turns, Undoes
  <2>2. QED
    BY <1>1, <2>1 DEF Settles, p
<1>4. QED
  BY <1>2, <1>3

LEMMA LeadsOn ==
  ASSUME NEW k, NEW S, NEW T, NEW U, NEW I, NEW p \in Seq(I), NEW q \in Seq(I),
         Leads(k, p, S, T), Leads(k, q, T, U)
  PROVE  Leads(k, p \o q, S, U)
<1> SUFFICES ASSUME NEW x
             PROVE  Settles(k, p \o q, x, S, U)
  BY DEF Leads
<1> DEFINE c == p \o q
<1>1. /\ Len(p) \in Nat /\ Len(q) \in Nat /\ Len(c) = Len(p) + Len(q)
      /\ \A j \in 1..Len(p) : c[j] = p[j]
      /\ \A j \in 1..Len(q) : c[Len(p) + j] = q[j]
  OBVIOUS
<1> HIDE DEF c
<1>2. \A m \in 1..Len(c) : \/ m \in 1..Len(p) /\ c[m] = p[m]
                           \/ m > Len(p) /\ m - Len(p) \in 1..Len(q) /\ c[m] = q[m - Len(p)]
  <2> SUFFICES ASSUME NEW m \in 1..Len(c), m \notin 1..Len(p)
               PROVE  m > Len(p) /\ m - Len(p) \in 1..Len(q) /\ c[m] = q[m - Len(p)]
    BY <1>1
  <2>1. m > Len(p) /\ m - Len(p) \in 1..Len(q) /\ m = Len(p) + (m - Len(p))
    BY <1>1
  <2>2. QED
    BY <1>1, <2>1
<1>3. PICK j \in 0..Len(q) :
        /\ j = 0 => (x \in T <=> x \in U)
        /\ j # 0 => Makes(k, q[j], x, U)
        /\ \A m \in 1..Len(q) : m > j => ~Undoes(k, q[m], x, U)
  BY DEF Leads, Settles
<1>4. CASE j # 0
  <2>1. j \in 1..Len(q) /\ Len(p) + j \in 0..Len(c) /\ Len(p) + j # 0
    BY <1>1, <1>4
  <2>2. Makes(k, c[Len(p) + j], x, U)
    BY <1>1, <1>3, <1>4, <2>1
  <2>3. ASSUME NEW m \in 1..Len(c), m > Len(p) + j
        PROVE  ~Undoes(k, c[m], x, U)
    <3>1. m \notin 1..Len(p) /\ m - Len(p) > j
      BY <1>1, <2>1, <2>3
    <3>2. QED
      BY <1>2, <1>3, <3>1
  <2>4. QED
    BY <2>1, <2>2, <2>3 DEF Settles, c
<1>5. CASE j = 0
  <2>1. PICK l \in 0..Len(p) :
          /\ l = 0 => (x \in S <=> x \in T)
          /\ l # 0 => Makes(k, p[l], x, T)
          /\ \A m \in 1..Len(p) : m > l => ~Undoes(k, p[m], x, T)
    BY DEF Leads, Settles
  <2>2. /\ l \in 0..Len(c) /\ (l # 0 => l \in 1..Len(p))
        /\ \A m \in 1..Len(q) : m > j
    BY <1>1, <1>5
  <2>3. l = 0 => (x \in S <=> x \in U)
    BY <1>3, <1>5, <2>1
  <2>4. l # 0 => Makes(k, c[l], x, U)
    BY <1>1, <1>3, <1>5, <2>1, <2>2 DEF Makes
  <2>5. ASSUME NEW m \in 1..Len(c), m > l
        PROVE  ~Undoes(k, c[m], x, U)
    BY <1>2, <1>3, <1>5, <2>1, <2>2, <2>5 DEF Undoes
  <2>6. QED
    BY <2>2, <2>3, <2>4, <2>5 DEF Settles, c
<1>6. QED
  BY <1>4, <1>5

LEMMA LeadsRest ==
  ASSUME NEW k, NEW S, NEW T, NEW U, NEW I, NEW p \in Seq(I), p # <<>>,
         Leads(k, p, S, U), Turns(k, Head(p), S, T)
  PROVE  Leads(k, Tail(p), T, U)
<1> SUFFICES ASSUME NEW x
             PROVE  Settles(k, Tail(p), x, T, U)
  BY DEF Leads
<1> DEFINE q == Tail(p)
<1>1. /\ Len(p) \in Nat /\ Len(p) > 0 /\ Len(q) = Len(p) - 1 /\ Head(p) = p[1]
      /\ \A j \in 1..Len(q) : q[j] = p[j + 1]
  OBVIOUS
<1> HIDE DEF q
<1>2. PICK j \in 0..Len(p) :
        /\ j = 0 => (x \in S <=> x \in U)
        /\ j # 0 => Makes(k, p[j], x, U)
        /\ \A m \in 1..Len(p) : m > j => ~Undoes(k, p[m], x, U)
  BY DEF Leads, Settles
<1>3. ASSUME NEW m \in 1..Len(q)
      PROVE  m + 1 \in 1..Len(p) /\ m + 1 > 1 /\ q[m] = p[m + 1]
  BY <1>1
<1>4. CASE j \in {0, 1}
  <2>1. x \in T <=> x \in U
    <3>1. CASE j = 0
      <4>1. 1 \in 1..Len(p) /\ 1 > j
        BY <1>1, <3>1
      <4>2. ~Undoes(k, Head(p), x, U)
        BY <1>1, <1>2, <4>1
      <4>3. QED
        BY <1>2, <3>1, <4>2 DEF Turns, Undoes
    <3>2. CASE j = 1
      <4>1. Makes(k, Head(p), x, U)
        BY <1>1, <1>2, <3>2
      <4>2. QED
        BY <4>1, PutsOrDrops DEF Turns, Makes
    <3>3. QED
      BY <1>4, <3>1, <3>2
  <2>2. \A m \in 1..Len(q) : ~Undoes(k, q[m], x, U)
    BY <1>2, <1>3, <1>4
  <2>3. 0 \in 0..Len(q)
    BY <1>1
  <2>4. QED
    BY <2>1, <2>2, <2>3 DEF Settles, q
<1>5. CASE j \notin {0, 1}
  <2>1. j - 1 \in 0..Len(q) /\ j - 1 # 0 /\ j - 1 \in 1..Len(q) /\ (j - 1) + 1 = j
    BY <1>1, <1>5
  <2>2. Makes(k, q[j - 1], x, U)
    BY <1>1, <1>2, <1>5, <2>1
  <2>3. ASSUME NEW m \in 1..Len(q), m > j - 1
        PROVE  ~Undoes(k, q[m], x, U)
    <3>1. m + 1 > j
      BY <2>3
    <3>2. QED
      BY <1>2, <1>3, <3>1
  <2>4. QED
    BY <2>1, <2>2, <2>3 DEF Settles, q
<1>6. QED
  BY <1>4, <1>5

-----------------------------------------------------------------------------
(* What set_whitelist makes of the entries of one direction.               *)

PortPair == (1..PortMax) \X (1..PortMax)

FilterType ==
  [dir : Direction, ips : SUBSET Range46, ports : SUBSET PortPair,
   proto : Protocol \cup {"any"}]

LEMMA ChunkFacts ==
  ASSUME NEW T, NEW seq \in Seq(T)
  PROVE  /\ Chunk(seq) \in Seq(SUBSET T)
         /\ \A k \in 1..Len(Chunk(seq)) : \A x \in Chunk(seq)[k] : x \in Elements(seq)
         /\ \A x \in Elements(seq) : \E k \in 1..Len(Chunk(seq)) : x \in Chunk(seq)[k]
<1> DEFINE c == Chunk(seq)
           n == (Len(seq) + ChunkSize - 1) \div ChunkSize
           Part(k) == {seq[i] : i \in {j \in DOMAIN seq : (j - 1) \div ChunkSize = k - 1}}
<1>1. ChunkSize \in Nat /\ ChunkSize > 0 /\ Len(seq) \in Nat /\ DOMAIN seq = 1..Len(seq)
  BY IpRulesAssumption
<1>2. n \in Nat
  BY <1>1
<1>3. c = [k \in 1..n |-> Part(k)]
  BY DEF Chunk
<1>4. \A k \in 1..n : Part(k) \in SUBSET T /\ \A x \in Part(k) : x \in Elements(seq)
  BY <1>1 DEF Elements
<1> HIDE DEF c
<1>5. c \in Seq(SUBSET T) /\ Len(c) = n
  <2> HIDE DEF n, Part
  <2>1. c \in [1..n -> SUBSET T]
    BY <1>3, <1>4
  <2>2. QED
    BY <1>2, <2>1
<1>6. ASSUME NEW j \in 1..Len(seq)
      PROVE  \E k \in 1..n : seq[j] \in Part(k)
  <2> DEFINE k == ((j - 1) \div ChunkSize) + 1
  <2>1. k \in 1..n
    BY <1>1
  <2>2. (j - 1) \div ChunkSize = k - 1
    BY <1>1
  <2>3. seq[j] \in Part(k)
    BY <1>1, <2>2
  <2>4. QED
    BY <2>1, <2>3
<1> HIDE DEF n, Part
<1>7. \A k \in 1..n : c[k] = Part(k)
  BY <1>3
<1>8. \A x \in Elements(seq) : \E k \in 1..n : x \in Part(k)
  BY <1>6 DEF Elements
<1>9. QED
  BY <1>4, <1>5, <1>7, <1>8 DEF c

LEMMA Meanings ==
  ASSUME NEW f \in {4, 6}
  PROVE  /\ Top(f) \in Nat
         /\ \A t \in Text : Family(f)[t] \in SUBSET Ascending(Top(f))
BY IpRulesAssumption DEF Top, Family, Text

LEMMA PairsFinite ==
  ASSUME NEW n \in Nat, NEW S \in SUBSET ((0..n) \X (0..n))
  PROVE  IsFiniteSet(S) /\ S \in SUBSET Pair
<1>1. IsFiniteSet(0..n)
  BY FS_Interval
<1>2. IsFiniteSet((0..n) \X (0..n))
  BY <1>1, FS_Product
<1>3. QED
  BY <1>2, FS_Subset DEF Pair

LEMMA BlockRangesFacts ==
  ASSUME NEW f \in {4, 6}, NEW texts \in SUBSET Text
  PROVE  /\ BlockRangesExcept(f, texts) \in Seq(Ascending(Top(f)))
         /\ \A n \in 0..Top(f) :
              CoveredBy(BlockRangesExcept(f, texts), n)
                <=> ~\E t \in texts : \E i \in Family(f)[t] : Covers(i, n)
<1> DEFINE S == UNION {Family(f)[t] : t \in texts}
           c == Complement(S, 0, Top(f))
<1>1. Top(f) \in Nat /\ S \in SUBSET Ascending(Top(f))
  BY Meanings
<1>2. IsFiniteSet(S) /\ S \in SUBSET Pair
  <2>1. S \in SUBSET ((0..Top(f)) \X (0..Top(f)))
    BY <1>1 DEF Ascending
  <2> HIDE DEF S
  <2>2. QED
    BY <1>1, <2>1, PairsFinite
<1>3. 0 \in Int /\ Top(f) \in Int /\ 0 <= Top(f)
  BY <1>1
<1> HIDE DEF S, c
<1>4. /\ c \in PairSeq
      /\ \A j \in 1..Len(c) : c[j] \in (0..Top(f)) \X (0..Top(f)) /\ c[j][1] <= c[j][2]
      /\ \A n \in 0..Top(f) : CoveredBy(c, n) <=> ~\E i \in S : Covers(i, n)
  BY <1>2, <1>3, ComplementCovers DEF c
<1>5. c \in Seq(Ascending(Top(f)))
  <2>1. Len(c) \in Nat /\ c \in [1..Len(c) -> Pair]
    BY <1>4 DEF PairSeq
  <2>2. \A j \in 1..Len(c) : c[j] \in Ascending(Top(f))
    BY <1>4 DEF Ascending
  <2>3. c \in [1..Len(c) -> Ascending(Top(f))]
    BY <2>1, <2>2
  <2>4. QED
    BY <2>1, <2>3
<1>6. BlockRangesExcept(f, texts) = c
  BY DEF BlockRangesExcept, c, S
<1>7. QED
  BY <1>4, <1>5, <1>6 DEF S

LEMMA OtherPortsFacts ==
  ASSUME NEW entries \in SUBSET Rule, NEW t
  PROVE  /\ OtherPorts(t, entries) \in SUBSET PortPair
         /\ \A n \in 1..PortMax :
              (\E i \in OtherPorts(t, entries) : Covers(i, n))
                <=> ~\E e \in entries : e.ip = t /\ \E i \in e.ports : Covers(i, n)
<1> DEFINE S == UNION {e.ports : e \in {x \in entries : x.ip = t}}
           c == Complement(S, 1, PortMax)
<1>1. PortMax \in Nat /\ 1 \in Int /\ PortMax \in Int /\ 1 <= PortMax
  BY IpRulesAssumption
<1>2. S \in SUBSET PortPair
  BY DEF Rule, PortPair
<1>3. IsFiniteSet(S) /\ S \in SUBSET Pair
  <2>1. S \in SUBSET ((0..PortMax) \X (0..PortMax))
    BY <1>1, <1>2 DEF PortPair
  <2> HIDE DEF S
  <2>2. QED
    BY <1>1, <2>1, PairsFinite
<1> HIDE DEF S, c
<1>4. /\ c \in PairSeq
      /\ \A j \in 1..Len(c) : c[j] \in PortPair
      /\ \A n \in 1..PortMax : CoveredBy(c, n) <=> ~\E i \in S : Covers(i, n)
  BY <1>1, <1>3, ComplementCovers DEF c, PortPair
<1>5. DOMAIN c = 1..Len(c)
  BY <1>4 DEF PairSeq
<1>6. OtherPorts(t, entries) = {c[i] : i \in 1..Len(c)}
  BY <1>5 DEF OtherPorts, c, S
<1>7. QED
  BY <1>4, <1>6 DEF S, CoveredBy


LEMMA SeqElements ==
  ASSUME NEW T, NEW s \in Seq(T)
  PROVE  /\ Elements(s) \in SUBSET T /\ DOMAIN s = 1..Len(s) /\ Len(s) \in Nat
         /\ s \in [1..Len(s) -> T]
BY DEF Elements

Admits(b, f, n) == \E i \in b.ips : i[1] = f /\ Covers(<<i[2], i[3]>>, n)

LEMMA RangesFacts ==
  ASSUME NEW d \in Direction, NEW f \in {4, 6}, NEW entries \in SUBSET Rule
  PROVE  /\ Ranges(d, f, entries) \in Seq(FilterType)
         /\ \A b \in Elements(Ranges(d, f, entries)) :
              /\ b.dir = d /\ b.ports = {} /\ b.proto = "any"
              /\ \A i \in b.ips : i[1] = f
              /\ \A n \in 0..Top(f) :
                   Admits(b, f, n) =>
                     ~\E e \in entries : \E i \in Family(f)[e.ip] : Covers(i, n)
         /\ \A n \in 0..Top(f) :
              \/ \E e \in entries : \E i \in Family(f)[e.ip] : Covers(i, n)
              \/ \E b \in Elements(Ranges(d, f, entries)) : Admits(b, f, n)
<1> DEFINE texts == {e.ip : e \in entries}
           c == BlockRangesExcept(f, texts)
           groups == Chunk(c)
           Filter(k) == [dir |-> d, ips |-> {<<f, i[1], i[2]>> : i \in groups[k]},
                         ports |-> {}, proto |-> "any"]
           s == Ranges(d, f, entries)
<1>1. texts \in SUBSET Text
  BY DEF Rule
<1>2. /\ c \in Seq(Ascending(Top(f)))
      /\ \A n \in 0..Top(f) :
           CoveredBy(c, n) <=> ~\E t \in texts : \E i \in Family(f)[t] : Covers(i, n)
  <2> HIDE DEF texts
  <2>1. QED
    BY <1>1, BlockRangesFacts
<1>3. \A n \in 0..Top(f) :
        CoveredBy(c, n) <=> ~\E e \in entries : \E i \in Family(f)[e.ip] : Covers(i, n)
  <2> HIDE DEF c
  <2>1. QED
    BY <1>2
<1> HIDE DEF texts, c
<1>4. /\ groups \in Seq(SUBSET Ascending(Top(f)))
      /\ \A k \in 1..Len(groups) : \A x \in groups[k] : x \in Elements(c)
      /\ \A x \in Elements(c) : \E k \in 1..Len(groups) : x \in groups[k]
  BY <1>2, ChunkFacts
<1> HIDE DEF groups
<1>5. DOMAIN groups = 1..Len(groups) /\ Len(groups) \in Nat
      /\ \A k \in 1..Len(groups) : groups[k] \in SUBSET Ascending(Top(f))
  BY <1>4, SeqElements
<1>6. s = [k \in 1..Len(groups) |-> Filter(k)]
  BY <1>5 DEF Ranges, groups, c, texts
<1>7. \A k \in 1..Len(groups) : Filter(k) \in FilterType
  <2> SUFFICES ASSUME NEW k \in 1..Len(groups)
               PROVE  Filter(k) \in FilterType
    OBVIOUS
  <2>1. \A i \in groups[k] : <<f, i[1], i[2]>> \in Range46
    BY <1>5 DEF Range46, Top
  <2>2. QED
    BY <2>1 DEF FilterType
<1> HIDE DEF s
<1>8. s \in Seq(FilterType) /\ Len(s) = Len(groups)
  <2> HIDE DEF Filter
  <2>1. s \in [1..Len(groups) -> FilterType]
    BY <1>6, <1>7
  <2>2. QED
    BY <1>5, <2>1
<1>9. Elements(s) = {Filter(k) : k \in 1..Len(groups)}
  <2> HIDE DEF Filter
  <2>1. QED
    BY <1>6, <1>8 DEF Elements
<1>10. ASSUME NEW k \in 1..Len(groups), NEW n \in 0..Top(f)
       PROVE  Admits(Filter(k), f, n) <=> \E i \in groups[k] : Covers(i, n)
  <2>1. Filter(k).ips = {<<f, i[1], i[2]>> : i \in groups[k]}
    OBVIOUS
  <2> HIDE DEF Filter
  <2>2. ASSUME NEW i \in groups[k]
        PROVE  Covers(<<<<f, i[1], i[2]>>[2], <<f, i[1], i[2]>>[3]>>, n) <=> Covers(i, n)
    BY DEF Covers
  <2>3. ASSUME NEW i \in groups[k], Covers(i, n)
        PROVE  Admits(Filter(k), f, n)
    <3> DEFINE r == <<f, i[1], i[2]>>
    <3>1. r \in Filter(k).ips /\ r[1] = f /\ Covers(<<r[2], r[3]>>, n)
      BY <2>1, <2>2, <2>3
    <3>2. QED
      BY <3>1 DEF Admits
  <2>4. ASSUME NEW r \in Filter(k).ips, Covers(<<r[2], r[3]>>, n)
        PROVE  \E i \in groups[k] : Covers(i, n)
    <3>1. PICK i \in groups[k] : r = <<f, i[1], i[2]>>
      BY <2>1
    <3>2. QED
      BY <2>2, <2>4, <3>1
  <2>5. QED
    BY <2>3, <2>4 DEF Admits
<1>11. ASSUME NEW n \in 0..Top(f)
       PROVE  CoveredBy(c, n) <=> \E k \in 1..Len(groups) : \E i \in groups[k] : Covers(i, n)
  BY <1>4 DEF CoveredBy, Elements
<1>12. \A k \in 1..Len(groups) :
         /\ Filter(k).dir = d /\ Filter(k).ports = {} /\ Filter(k).proto = "any"
         /\ \A i \in Filter(k).ips : i[1] = f
  OBVIOUS
<1> HIDE DEF Filter
<1>13. QED
  BY <1>3, <1>8, <1>9, <1>10, <1>11, <1>12 DEF s

PortFilter(d, entries, t, p) ==
  [dir |-> d, ips |-> Intervals46(t), ports |-> OtherPorts(t, entries), proto |-> p]

PortTexts(entries) == {t \in PortsOnly(entries) : OtherPorts(t, entries) # {}}

LEMMA PairElements ==
  ASSUME NEW T, NEW x \in T, NEW y \in T
  PROVE  <<x, y>> \in Seq(T) /\ Elements(<<x, y>>) = {x, y}
<1>1. Len(<<x, y>>) = 2 /\ 1..2 = {1, 2} /\ <<x, y>>[1] = x /\ <<x, y>>[2] = y
  OBVIOUS
<1>2. QED
  BY <1>1 DEF Elements

LEMMA PortTextsFinite ==
  ASSUME NEW entries \in SUBSET Rule, IsFiniteSet(entries)
  PROVE  IsFiniteSet(PortTexts(entries)) /\ PortTexts(entries) \in SUBSET Text
<1> DEFINE ips == {e.ip : e \in entries}
<1>1. IsFiniteSet(ips)
  <2> DEFINE f == [e \in entries |-> e.ip]
  <2>1. f \in Surjection(entries, ips)
    BY DEF Surjection
  <2> HIDE DEF f, ips
  <2>2. QED
    BY <2>1, FS_Surjection
<1>2. PortTexts(entries) \in SUBSET ips
  BY DEF PortTexts, PortsOnly
<1>3. QED
  BY <1>1, <1>2, FS_Subset DEF PortTexts, PortsOnly

LEMMA PortFilterType ==
  ASSUME NEW d \in Direction, NEW entries \in SUBSET Rule, NEW t \in Text, NEW p \in Protocol
  PROVE  PortFilter(d, entries, t, p) \in FilterType
<1>1. Spec4[t] \in SUBSET Ascending(V4Max) /\ Spec6[t] \in SUBSET Ascending(V6Max)
  BY IpRulesAssumption
<1>2. Intervals46(t) \in SUBSET Range46
  BY <1>1 DEF Intervals46, Range46
<1>3. OtherPorts(t, entries) \in SUBSET PortPair
  BY OtherPortsFacts
<1>4. QED
  BY <1>2, <1>3 DEF PortFilter, FilterType

LEMMA PortBlocksFacts ==
  ASSUME NEW d \in Direction, NEW entries \in SUBSET Rule, IsFiniteSet(entries)
  PROVE  /\ PortBlocks(d, entries) \in Seq(FilterType)
         /\ \A b : b \in Elements(PortBlocks(d, entries))
                    <=> \E t \in PortTexts(entries) : \E p \in Protocol :
                          b = PortFilter(d, entries, t, p)
<1> DEFINE texts == PortTexts(entries)
           n == Cardinality(texts)
           q == SetToSeq(texts)
           Two(t) == <<PortFilter(d, entries, t, "tcp"), PortFilter(d, entries, t, "udp")>>
           s == [i \in 1..n |-> Two(q[i])]
<1>1. IsFiniteSet(texts) /\ texts \in SUBSET Text
  BY PortTextsFinite
<1> HIDE DEF texts
<1>2. /\ n \in Nat /\ q \in [1..n -> texts]
      /\ \A t \in texts : \E i \in 1..n : q[i] = t
  BY <1>1, SetToSeqFacts
<1> HIDE DEF n, q
<1>3. ASSUME NEW t \in texts
      PROVE  /\ Two(t) \in Seq(FilterType)
             /\ Elements(Two(t)) = {PortFilter(d, entries, t, p) : p \in Protocol}
  <2>1. t \in Text /\ "tcp" \in Protocol /\ "udp" \in Protocol
    BY <1>1 DEF Protocol
  <2>2. PortFilter(d, entries, t, "tcp") \in FilterType
        /\ PortFilter(d, entries, t, "udp") \in FilterType
    BY <2>1, PortFilterType
  <2>3. QED
    BY <2>2, PairElements DEF Protocol
<1>4. PortBlocks(d, entries) = FlattenSeq(s)
  BY DEF PortBlocks, PortTexts, PortFilter, n, q, texts
<1>5. s \in [1..n -> Seq(FilterType)] /\ \A i \in 1..n : s[i] = Two(q[i])
  <2> HIDE DEF Two
  <2>1. QED
    BY <1>2, <1>3
<1> HIDE DEF s, Two
<1>6. /\ FlattenSeq(s) \in Seq(FilterType)
      /\ Elements(FlattenSeq(s)) = UNION {Elements(s[k]) : k \in 1..n}
  BY <1>2, <1>5, FlattenElements
<1>7. ASSUME NEW k \in 1..n
      PROVE  /\ q[k] \in texts
             /\ \A b : b \in Elements(s[k])
                        <=> \E p \in Protocol : b = PortFilter(d, entries, q[k], p)
  <2>1. q[k] \in texts /\ Elements(s[k]) = {PortFilter(d, entries, q[k], p) : p \in Protocol}
    BY <1>2, <1>3, <1>5
  <2>2. QED
    BY <2>1
<1>8. \A b : b \in UNION {Elements(s[k]) : k \in 1..n}
             <=> \E t \in texts : \E p \in Protocol : b = PortFilter(d, entries, t, p)
  <2>1. ASSUME NEW k \in 1..n, NEW b \in Elements(s[k])
        PROVE  \E t \in texts : \E p \in Protocol : b = PortFilter(d, entries, t, p)
    BY <1>7
  <2>2. ASSUME NEW t \in texts, NEW p \in Protocol
        PROVE  \E k \in 1..n : PortFilter(d, entries, t, p) \in Elements(s[k])
    <3>1. PICK k \in 1..n : q[k] = t
      BY <1>2
    <3>2. QED
      BY <1>7, <3>1
  <2>3. QED
    BY <2>1, <2>2
<1>9. QED
  BY <1>4, <1>6, <1>8 DEF texts

(* A filter stops the packets of an endpoint. *)
Stops(b, x) ==
  /\ b.dir = x.dir /\ b.proto \in {"any", x.proto}
  /\ Admits(b, x.fam, x.addr)
  /\ b.ports = {} \/ \E i \in b.ports : Covers(i, x.port)

LEMMA FiltersType ==
  ASSUME NEW d \in Direction, NEW entries \in SUBSET Rule, IsFiniteSet(entries)
  PROVE  /\ Filters(d, entries) \in Seq(FilterType)
         /\ LET ents == {e \in entries : d \in ConcreteDirs(e.dir)}
            IN  /\ ents = {} => Elements(Filters(d, entries)) = {}
                /\ ents # {} =>
                     Elements(Filters(d, entries))
                       = (Elements(Ranges(d, 4, ents)) \cup Elements(Ranges(d, 6, ents)))
                           \cup Elements(PortBlocks(d, ents))
<1> DEFINE ents == {e \in entries : d \in ConcreteDirs(e.dir)}
           r4 == Ranges(d, 4, ents)
           r6 == Ranges(d, 6, ents)
           pb == PortBlocks(d, ents)
<1>1. ents \in SUBSET Rule /\ IsFiniteSet(ents)
  BY FS_Subset
<1>2. CASE ents = {}
  <2>1. Filters(d, entries) = <<>>
    BY <1>2 DEF Filters
  <2>2. Elements(<<>>) = {}
    BY NoIndex DEF Elements
  <2>3. QED
    BY <1>2, <2>1, <2>2
<1>3. CASE ents # {}
  <2>1. Filters(d, entries) = r4 \o r6 \o pb
    BY <1>3 DEF Filters
  <2> HIDE DEF ents
  <2>2. r4 \in Seq(FilterType) /\ r6 \in Seq(FilterType)
    BY <1>1, RangesFacts
  <2>3. pb \in Seq(FilterType)
    BY <1>1, PortBlocksFacts
  <2> HIDE DEF r4, r6, pb
  <2>4. r4 \o r6 \in Seq(FilterType) /\ Elements(r4 \o r6) = Elements(r4) \cup Elements(r6)
    BY <2>2, ElementsCat
  <2> DEFINE r46 == r4 \o r6
  <2>5. r46 \in Seq(FilterType) /\ Elements(r46) = Elements(r4) \cup Elements(r6)
    BY <2>4
  <2>6. Filters(d, entries) = r46 \o pb
    BY <2>1
  <2> HIDE DEF r46
  <2>7. r46 \o pb \in Seq(FilterType) /\ Elements(r46 \o pb) = Elements(r46) \cup Elements(pb)
    BY <2>3, <2>5, ElementsCat
  <2>8. QED
    BY <1>3, <2>5, <2>6, <2>7 DEF r4, r6, pb, ents
<1>4. QED
  BY <1>2, <1>3


LEMMA EndpointFacts ==
  ASSUME NEW x \in Endpoint
  PROVE  /\ x.fam \in {4, 6} /\ x.addr \in 0..Top(x.fam) /\ x.port \in 1..PortMax
         /\ x.proto \in Protocol /\ x.dir \in Direction
<1>1. /\ x \in [fam : {4, 6}, addr : 0..Larger(V4Max, V6Max), port : 1..PortMax,
                proto : Protocol, dir : Direction]
      /\ x.addr <= Top(x.fam)
  BY DEF Endpoint
<1>2. /\ x.fam \in {4, 6} /\ x.addr \in 0..Larger(V4Max, V6Max) /\ x.port \in 1..PortMax
      /\ x.proto \in Protocol /\ x.dir \in Direction
  BY <1>1
<1>3. Larger(V4Max, V6Max) \in Nat /\ Top(x.fam) \in Nat
  BY <1>2, Meanings, IpRulesAssumption DEF Larger
<1>4. QED
  BY <1>1, <1>2, <1>3

LEMMA AboutDir ==
  ASSUME NEW r \in Rule, NEW x \in Endpoint
  PROVE  /\ x.dir \in ConcreteDirs(r.dir) <=> (x.dir = r.dir \/ r.dir = "both")
         /\ ConcreteDirs(r.dir) \subseteq Direction
BY EndpointFacts DEF ConcreteDirs, Rule, Direction

LEMMA PortFilterAdmits ==
  ASSUME NEW d, NEW entries, NEW t, NEW p, NEW f \in {4, 6}, NEW n
  PROVE  Admits(PortFilter(d, entries, t, p), f, n) <=> \E i \in Family(f)[t] : Covers(i, n)
<1> DEFINE b == PortFilter(d, entries, t, p)
<1>1. b.ips = {<<4, i[1], i[2]>> : i \in Spec4[t]} \cup {<<6, i[1], i[2]>> : i \in Spec6[t]}
  BY DEF PortFilter, Intervals46
<1> HIDE DEF b
<1>2. \A g, lo, hi, i : i = <<g, lo, hi>> => i[1] = g /\ i[2] = lo /\ i[3] = hi
  OBVIOUS
<1>3. \A i : Covers(<<i[1], i[2]>>, n) <=> Covers(i, n)
  BY DEF Covers
<1>4. ASSUME NEW i \in Family(f)[t], Covers(i, n)
      PROVE  Admits(b, f, n)
  <2> DEFINE r == <<f, i[1], i[2]>>
  <2>1. r \in b.ips
    BY <1>1, <1>4 DEF Family
  <2>2. r[1] = f /\ Covers(<<r[2], r[3]>>, n)
    BY <1>3, <1>4
  <2>3. QED
    BY <2>1, <2>2 DEF Admits
<1>5. ASSUME NEW r \in b.ips, r[1] = f, Covers(<<r[2], r[3]>>, n)
      PROVE  \E i \in Family(f)[t] : Covers(i, n)
  <2>1. \E i \in Family(f)[t] : r = <<f, i[1], i[2]>>
    BY <1>1, <1>2, <1>5 DEF Family
  <2>2. PICK i \in Family(f)[t] : r = <<f, i[1], i[2]>>
    BY <2>1
  <2>3. Covers(<<i[1], i[2]>>, n)
    BY <1>5, <2>2
  <2>4. QED
    BY <1>3, <2>3
<1>6. QED
  BY <1>4, <1>5 DEF Admits, b

(* The whitelist of a direction stops what no entry is about, ...          *)
LEMMA FiltersStop ==
  ASSUME NEW entries \in SUBSET Rule, IsFiniteSet(entries), NEW x \in Endpoint,
         \E r \in entries : x.dir \in ConcreteDirs(r.dir),
         ~\E r \in entries : About(r, x)
  PROVE  \E b \in Elements(Filters(x.dir, entries)) : Stops(b, x)
<1> DEFINE d == x.dir
           f == x.fam
           ents == {e \in entries : d \in ConcreteDirs(e.dir)}
<1>1. /\ f \in {4, 6} /\ x.addr \in 0..Top(f) /\ x.port \in 1..PortMax
      /\ x.proto \in Protocol /\ d \in Direction
  BY EndpointFacts
<1>2. ents \in SUBSET Rule /\ IsFiniteSet(ents) /\ ents # {}
  BY FS_Subset
<1>3. Elements(Filters(d, entries))
        = (Elements(Ranges(d, 4, ents)) \cup Elements(Ranges(d, 6, ents)))
            \cup Elements(PortBlocks(d, ents))
  BY <1>1, <1>2, FiltersType
<1>4. \A r \in ents : r \in entries /\ (x.dir = r.dir \/ r.dir = "both")
  BY AboutDir
<1>5. \A r \in ents : Means(r.ip, x) => r.ports # {} /\ ~\E i \in r.ports : Covers(i, x.port)
  BY <1>4 DEF About
<1> HIDE DEF ents
<1>6. CASE \E e \in ents : \E i \in Family(f)[e.ip] : Covers(i, x.addr)
  <2>1. PICK e \in ents : \E i \in Family(f)[e.ip] : Covers(i, x.addr)
    BY <1>6
  <2> DEFINE t == e.ip
             b == PortFilter(d, ents, t, x.proto)
  <2>2. t \in Text /\ t # AnyIp
    BY <1>1, <1>2, <2>1, IpRulesAssumption DEF Rule, Family
  <2>3. \A r \in ents : r.ip = t => Means(r.ip, x)
    BY <2>1 DEF Means
  <2>4. t \in PortsOnly(ents)
    BY <1>5, <2>2, <2>3 DEF PortsOnly
  <2>5. \E i \in OtherPorts(t, ents) : Covers(i, x.port)
    BY <1>1, <1>2, <1>5, <2>3, OtherPortsFacts
  <2>6. t \in PortTexts(ents)
    BY <2>4, <2>5 DEF PortTexts
  <2>7. b \in Elements(PortBlocks(d, ents))
    BY <1>1, <1>2, <2>6, PortBlocksFacts
  <2>8. Admits(b, f, x.addr)
    BY <1>1, <2>1, PortFilterAdmits
  <2>9. b.dir = d /\ b.proto = x.proto /\ b.ports = OtherPorts(t, ents)
    BY DEF PortFilter
  <2>10. Stops(b, x)
    BY <2>5, <2>8, <2>9 DEF Stops
  <2>11. QED
    BY <1>3, <2>7, <2>10
<1>7. CASE ~\E e \in ents : \E i \in Family(f)[e.ip] : Covers(i, x.addr)
  <2>1. PICK b \in Elements(Ranges(d, f, ents)) : Admits(b, f, x.addr)
    BY <1>1, <1>2, <1>7, RangesFacts
  <2>2. b.dir = d /\ b.ports = {} /\ b.proto = "any"
    BY <1>1, <1>2, <2>1, RangesFacts
  <2>3. Stops(b, x)
    BY <2>1, <2>2 DEF Stops
  <2>4. b \in Elements(Filters(d, entries))
    BY <1>1, <1>3, <2>1
  <2>5. QED
    BY <2>3, <2>4
<1>8. QED
  BY <1>6, <1>7

(* ... and nothing else, if the entries can be kept apart.                 *)
LEMMA FiltersSpare ==
  ASSUME NEW entries \in SUBSET Rule, IsFiniteSet(entries), NEW x \in Endpoint,
         \A r, s \in entries :
           /\ r.ip # AnyIp
           /\ r.ip = s.ip \/ ~(Means(r.ip, x) /\ Means(s.ip, x)),
         NEW d \in Direction, NEW b \in Elements(Filters(d, entries)), Stops(b, x)
  PROVE  /\ x.dir = d
         /\ \E r \in entries : d \in ConcreteDirs(r.dir)
         /\ ~\E r \in entries : About(r, x)
<1> DEFINE f == x.fam
           ents == {e \in entries : d \in ConcreteDirs(e.dir)}
<1>1. /\ f \in {4, 6} /\ x.addr \in 0..Top(f) /\ x.port \in 1..PortMax
      /\ x.proto \in Protocol
  BY EndpointFacts
<1>2. ents \in SUBSET Rule /\ IsFiniteSet(ents)
  BY FS_Subset
<1>3. /\ ents # {}
      /\ \/ b \in Elements(Ranges(d, 4, ents))
         \/ b \in Elements(Ranges(d, 6, ents))
         \/ b \in Elements(PortBlocks(d, ents))
  <2>1. Elements(Filters(d, entries)) # {}
    OBVIOUS
  <2>2. ents # {}
    BY <2>1, FiltersType
  <2>3. b \in (Elements(Ranges(d, 4, ents)) \cup Elements(Ranges(d, 6, ents)))
                 \cup Elements(PortBlocks(d, ents))
    BY <2>2, FiltersType
  <2>4. QED
    BY <2>2, <2>3
<1>4. \E r \in entries : d \in ConcreteDirs(r.dir)
  BY <1>3
<1>5. \A r \in entries : r \in ents <=> d \in ConcreteDirs(r.dir)
  OBVIOUS
<1>6. \A r \in ents : r \in entries
  OBVIOUS
<1> HIDE DEF ents
<1>7. b.dir = x.dir /\ Admits(b, f, x.addr)
  BY DEF Stops
<1>8. b.dir = d
  <2>1. ASSUME b \in Elements(PortBlocks(d, ents))
        PROVE  b.dir = d
    <3>1. PICK t \in PortTexts(ents) : \E p \in Protocol : b = PortFilter(d, ents, t, p)
      BY <1>2, <2>1, PortBlocksFacts
    <3>2. QED
      BY <3>1 DEF PortFilter
  <2>2. QED
    BY <1>2, <1>3, <2>1, RangesFacts
<1>9. \A r \in entries : About(r, x) => r \in ents /\ Means(r.ip, x)
  BY <1>5, <1>7, <1>8, AboutDir DEF About
<1>10. CASE b \in Elements(PortBlocks(d, ents))
  <2>1. PICK t \in PortTexts(ents) : \E p \in Protocol : b = PortFilter(d, ents, t, p)
    BY <1>2, <1>10, PortBlocksFacts
  <2>2. b.ports = OtherPorts(t, ents) /\ b.ports # {}
    BY <2>1 DEF PortFilter, PortTexts
  <2>3. \E i \in Family(f)[t] : Covers(i, x.addr)
    BY <1>1, <1>7, <2>1, PortFilterAdmits
  <2>4. PICK e \in ents : e.ip = t
    BY DEF PortTexts, PortsOnly
  <2>5. \A r \in ents : r.ip = t => r.ports # {}
    BY DEF PortTexts, PortsOnly
  <2>6. ~\E r \in ents : r.ip = t /\ \E i \in r.ports : Covers(i, x.port)
    BY <1>1, <1>2, <2>2, OtherPortsFacts DEF Stops
  <2>7. \A r \in ents : Means(r.ip, x) => r.ip = t
    BY <1>6, <2>3, <2>4 DEF Means
  <2>8. ~\E r \in entries : About(r, x)
    BY <1>9, <2>5, <2>6, <2>7 DEF About
  <2>9. QED
    BY <1>4, <1>7, <1>8, <2>8
<1>11. ASSUME NEW g \in {4, 6}, b \in Elements(Ranges(d, g, ents))
      PROVE  ~\E r \in entries : About(r, x)
  <2>1. \A i \in b.ips : i[1] = g
    BY <1>2, <1>11, RangesFacts
  <2>2. f = g
    BY <1>7, <2>1 DEF Admits
  <2>3. ~\E e \in ents : \E i \in Family(f)[e.ip] : Covers(i, x.addr)
    BY <1>1, <1>2, <1>7, <1>11, <2>2, RangesFacts
  <2>4. \A r \in ents : ~Means(r.ip, x)
    BY <1>6, <2>3 DEF Means
  <2>5. QED
    BY <1>9, <2>4
<1>12. QED
  BY <1>3, <1>4, <1>7, <1>8, <1>10, <1>11


LEMMA WhiteFacts ==
  ASSUME NEW e \in ValidExe, NEW R \in SUBSET Rule, IsFiniteSet(R)
  PROVE  /\ WhiteOf(e, R) \in SUBSET WhiteRule
         /\ \A w \in WhiteOf(e, R) : w.exe = e
         /\ \A x : (\E w \in WhiteOf(e, R) : Stops(w, x))
                     <=> \E d \in Direction :
                           \E b \in Elements(Filters(d, AllowOf(e, R))) : Stops(b, x)
<1> DEFINE entries == AllowOf(e, R)
           fi == Filters("in", entries)
           fo == Filters("out", entries)
           all == fi \o fo
<1>1. entries \in SUBSET Rule /\ IsFiniteSet(entries)
  BY FS_Subset DEF AllowOf
<1> HIDE DEF entries
<1>2. fi \in Seq(FilterType) /\ fo \in Seq(FilterType)
  BY <1>1, FiltersType DEF Direction
<1> HIDE DEF fi, fo
<1>3. all \in Seq(FilterType) /\ Elements(all) = Elements(fi) \cup Elements(fo)
  BY <1>2, ElementsCat
<1>4. WhiteOf(e, R) = {White(e, i - 1, all[i]) : i \in DOMAIN all}
  BY DEF WhiteOf, fi, fo, entries
<1> HIDE DEF all
<1>5. DOMAIN all = 1..Len(all) /\ Len(all) \in Nat /\ \A i \in 1..Len(all) : all[i] \in FilterType
  BY <1>3
<1>6. ASSUME NEW i \in 1..Len(all)
      PROVE  White(e, i - 1, all[i]) \in WhiteRule /\ White(e, i - 1, all[i]).exe = e
  <2>1. i - 1 \in Nat /\ all[i] \in FilterType
    BY <1>5
  <2>2. QED
    BY <2>1 DEF White, WhiteRule, FilterType, PortPair
<1>7. \A f, n, x : Stops(White(e, n, f), x) <=> Stops(f, x)
  BY DEF Stops, Admits, White
<1>8. \A x : (\E w \in WhiteOf(e, R) : Stops(w, x)) <=> \E b \in Elements(all) : Stops(b, x)
  <2> TAKE x
  <2>1. (\E w \in WhiteOf(e, R) : Stops(w, x))
          <=> \E i \in 1..Len(all) : Stops(White(e, i - 1, all[i]), x)
    BY <1>4, <1>5
  <2>2. \A i \in 1..Len(all) : Stops(White(e, i - 1, all[i]), x) <=> Stops(all[i], x)
    BY <1>7
  <2>3. QED
    BY <2>1, <2>2 DEF Elements
<1>9. \A x : (\E b \in Elements(all) : Stops(b, x))
               <=> \E d \in Direction : \E b \in Elements(Filters(d, entries)) : Stops(b, x)
  BY <1>3 DEF Direction, fi, fo
<1>10. QED
  BY <1>4, <1>5, <1>6, <1>8, <1>9 DEF entries

LEMMA SinglesFacts ==
  ASSUME NEW r \in Rule
  PROVE  /\ SinglesOf(r) \in SUBSET SingleRule
         /\ \A s \in SinglesOf(r) : s.rule = r
<1> SUFFICES ASSUME NEW d \in ConcreteDirs(r.dir), NEW p \in ConcreteProtos(r.proto, r.ports)
             PROVE  Single(r, d, p) \in SingleRule /\ Single(r, d, p).rule = r
  BY DEF SinglesOf
<1>1. d \in Direction /\ p \in Protocol \cup {"any"}
  BY DEF ConcreteDirs, ConcreteProtos, Rule, Direction, Protocol
<1>2. QED
  BY <1>1 DEF Single, SingleRule

-----------------------------------------------------------------------------
(* What Windows holds when it follows a list.                              *)

SinglesFor(R) == {s \in SingleRule :
                    /\ s.rule \in R /\ s.rule.action = "block" /\ s.rule.exe \in ValidExe
                    /\ s \in SinglesOf(s.rule)}

WhitesFor(R) == {w \in WhiteRule : w \in WhiteOf(w.exe, R)}

LEMMA WhitesForFacts ==
  ASSUME NEW R \in SUBSET Rule, IsFiniteSet(R), NEW w
  PROVE  w \in WhitesFor(R) <=> \E e \in ValidExe : w \in WhiteOf(e, R)
<1>1. w \in WhiteRule => w.exe \in ValidExe
  BY DEF WhiteRule
<1>2. ASSUME NEW e \in ValidExe, w \in WhiteOf(e, R)
      PROVE  w \in WhiteRule /\ w.exe = e
  BY <1>2, WhiteFacts
<1>3. QED
  BY <1>1, <1>2 DEF WhitesFor

LEMMA SameAllowed ==
  ASSUME NEW e, NEW Q, NEW R, AllowOf(e, Q) = AllowOf(e, R)
  PROVE  WhiteOf(e, Q) = WhiteOf(e, R)
BY DEF WhiteOf

(* The programs whose whitelist does not depend on a rule.                 *)
LEMMA OtherAllowed ==
  ASSUME NEW r, NEW R, NEW e, r.action # "allow" \/ r.exe # e
  PROVE  /\ WhiteOf(e, R \cup {r}) = WhiteOf(e, R)
         /\ WhiteOf(e, R \ {r}) = WhiteOf(e, R)
<1>1. AllowOf(e, R \cup {r}) = AllowOf(e, R) /\ AllowOf(e, R \ {r}) = AllowOf(e, R)
  BY DEF AllowOf
<1>2. QED
  BY <1>1, SameAllowed

LEMMA NoWhitelist ==
  ASSUME NEW e, NEW R, AllowOf(e, R) = {}
  PROVE  WhiteOf(e, R) = {}
<1>1. \A d : Filters(d, {}) = <<>>
  BY DEF Filters
<1>2. WhiteOf(e, R) = LET all == <<>> \o <<>> IN {White(e, i - 1, all[i]) : i \in DOMAIN all}
  BY <1>1 DEF WhiteOf
<1>3. <<>> \o <<>> = <<>> /\ DOMAIN <<>> = {}
  OBVIOUS
<1>4. QED
  BY <1>2, <1>3


(* The instructions of handlers.                                           *)
Proper ==
  {i \in InstructionType :
     /\ IsFiniteSet(i.list)
     /\ i.op = "add" => \A s \in i.single : s.rule.exe \in ValidExe}

(* The list and Windows together.                                          *)
Both(R, s, w) == [list |-> R, single |-> s, white |-> w]
Mirror(R) == Both(R, SinglesFor(R), WhitesFor(R))

LeadsAll(p, A, B) ==
  /\ Leads("list", p, A.list, B.list)
  /\ Leads("single", p, A.single, B.single)
  /\ Leads("white", p, A.white, B.white)

TurnsAll(i, A, B) ==
  /\ Turns("list", i, A.list, B.list)
  /\ Turns("single", i, A.single, B.single)
  /\ Turns("white", i, A.white, B.white)

LEMMA AllNowhere ==
  ASSUME NEW A
  PROVE  LeadsAll(<<>>, A, A)
BY LeadsNowhere DEF LeadsAll

LEMMA AllOne ==
  ASSUME NEW i, NEW A, NEW B, TurnsAll(i, A, B)
  PROVE  LeadsAll(<<i>>, A, B)
BY LeadsOne DEF LeadsAll, TurnsAll

LEMMA AllOn ==
  ASSUME NEW A, NEW B, NEW C, NEW p \in Seq(Proper), NEW q \in Seq(Proper),
         LeadsAll(p, A, B), LeadsAll(q, B, C)
  PROVE  p \o q \in Seq(Proper) /\ LeadsAll(p \o q, A, C)
<1>1. p \o q \in Seq(Proper)
  OBVIOUS
<1>2. Leads("list", p \o q, A.list, C.list)
  BY LeadsOn DEF LeadsAll
<1>3. Leads("single", p \o q, A.single, C.single)
  BY LeadsOn DEF LeadsAll
<1>4. Leads("white", p \o q, A.white, C.white)
  BY LeadsOn DEF LeadsAll
<1>5. QED
  BY <1>1, <1>2, <1>3, <1>4 DEF LeadsAll

LEMMA EditTurns ==
  ASSUME NEW L, NEW R, NEW s, NEW w
  PROVE  TurnsAll(Edit(L), Both(R, s, w), Both(L, s, w))
BY DEF TurnsAll, Turns, Puts, Drops, Edit, Instruction, Both

LEMMA SaveTurns ==
  ASSUME NEW R, NEW s, NEW w
  PROVE  TurnsAll(Save, Both(R, s, w), Both(R, s, w))
BY DEF TurnsAll, Turns, Puts, Drops, Save, Instruction, Both

LEMMA AddTurns ==
  ASSUME NEW S, NEW W, NEW R, NEW s, NEW w
  PROVE  TurnsAll(Add(S, W), Both(R, s, w), Both(R, s \cup S, w \cup W))
BY DEF TurnsAll, Turns, Puts, Drops, Add, Instruction, Both

LEMMA DeleteTurns ==
  ASSUME NEW S, NEW E, NEW R, NEW s, NEW w
  PROVE  TurnsAll(Delete(S, E), Both(R, s, w), Both(R, s \ S, {x \in w : x.exe \notin E}))
BY DEF TurnsAll, Turns, Puts, Drops, Delete, Instruction, Both

LEMMA OneThenOne ==
  ASSUME NEW T, NEW x \in T, NEW y \in T
  PROVE  <<x>> \in Seq(T) /\ <<y>> \in Seq(T) /\ <<x, y>> = <<x>> \o <<y>>
<1> DEFINE c == <<x>> \o <<y>>
           p == <<x, y>>
<1>1. <<x>> \in Seq(T) /\ <<y>> \in Seq(T)
  OBVIOUS
<1>2. Len(c) = 2 /\ c[1] = x /\ c[2] = y
  OBVIOUS
<1>3. c \in Seq(T)
  BY <1>1
<1>4. p \in Seq(T) /\ Len(p) = 2 /\ p[1] = x /\ p[2] = y
  OBVIOUS
<1> HIDE DEF c, p
<1>5. c \in [1..2 -> T] /\ p \in [1..2 -> T] /\ \A i \in 1..2 : c[i] = p[i]
  BY <1>2, <1>3, <1>4
<1>6. c = p
  BY <1>5
<1>7. QED
  BY <1>1, <1>6 DEF c, p

LEMMA InstructionTypes ==
  /\ \A R \in SUBSET Rule : IsFiniteSet(R) => Edit(R) \in Proper
  /\ Save \in Proper
  /\ \A s \in SUBSET SingleRule, w \in SUBSET WhiteRule :
       (\A x \in s : x.rule.exe \in ValidExe) => Add(s, w) \in Proper
  /\ \A s \in SUBSET SingleRule, E \in SUBSET Exe : Delete(s, E) \in Proper
<1>1. IsFiniteSet({})
  BY FS_EmptySet
<1>2. QED
  BY <1>1 DEF Edit, Save, Add, Delete, Instruction, InstructionType, Proper

LEMMA WhitelistLeads ==
  ASSUME NEW e \in ValidExe, NEW L \in SUBSET Rule, IsFiniteSet(L),
         NEW R, NEW s, NEW w
  PROVE  /\ WhitelistSteps(e, L) \in Seq(Proper)
         /\ LeadsAll(WhitelistSteps(e, L), Both(R, s, w),
                     Both(R, s, {x \in w : x.exe # e} \cup WhiteOf(e, L)))
<1> DEFINE d == Delete({}, {e})
           a == Add({}, WhiteOf(e, L))
           w1 == {x \in w : x.exe \notin {e}}
<1>1. e \in Exe /\ WhiteOf(e, L) \in SUBSET WhiteRule
  BY WhiteFacts, IpRulesAssumption
<1>2. d \in Proper /\ a \in Proper
  BY <1>1, InstructionTypes
<1>3. TurnsAll(d, Both(R, s, w), Both(R, s \ {}, w1))
  BY DeleteTurns
<1>4. TurnsAll(a, Both(R, s, w1), Both(R, s \cup {}, w1 \cup WhiteOf(e, L)))
  BY AddTurns
<1>5. WhitelistSteps(e, L) = <<d, a>>
  BY DEF WhitelistSteps
<1>6. s \ {} = s /\ s \cup {} = s /\ w1 = {x \in w : x.exe # e}
  OBVIOUS
<1> HIDE DEF d, a, w1
<1>7. <<d>> \in Seq(Proper) /\ <<a>> \in Seq(Proper) /\ <<d, a>> = <<d>> \o <<a>>
  BY <1>2, OneThenOne
<1>8. LeadsAll(<<d>>, Both(R, s, w), Both(R, s, w1))
  BY <1>3, <1>6, AllOne
<1>9. LeadsAll(<<a>>, Both(R, s, w1), Both(R, s, w1 \cup WhiteOf(e, L)))
  BY <1>4, <1>6, AllOne
<1>10. QED
  <2>1. /\ <<d>> \o <<a>> \in Seq(Proper)
        /\ LeadsAll(<<d>> \o <<a>>, Both(R, s, w), Both(R, s, w1 \cup WhiteOf(e, L)))
    BY <1>7, <1>8, <1>9, AllOn
  <2>2. QED
    BY <1>5, <1>6, <1>7, <2>1

(* The frame of Adding and Removing.                                       *)
LEMMA FrameLeads ==
  ASSUME NEW L \in SUBSET Rule, IsFiniteSet(L), NEW R, NEW p \in Seq(Proper),
         LeadsAll(p, Both(L, SinglesFor(R), WhitesFor(R)), Mirror(L))
  PROVE  /\ <<Edit(L)>> \o p \o <<Save>> \in Seq(Proper)
         /\ LeadsAll(<<Edit(L)>> \o p \o <<Save>>, Mirror(R), Mirror(L))
<1> DEFINE M == Both(L, SinglesFor(R), WhitesFor(R))
<1>1. <<Edit(L)>> \in Seq(Proper) /\ <<Save>> \in Seq(Proper)
  BY InstructionTypes, OneThenOne
<1>2. LeadsAll(<<Edit(L)>>, Mirror(R), M)
  BY EditTurns, AllOne DEF Mirror
<1>3. LeadsAll(<<Save>>, Mirror(L), Mirror(L))
  BY SaveTurns, AllOne DEF Mirror
<1> HIDE DEF M
<1>4. LeadsAll(p, M, Mirror(L))
  BY DEF M
<1>5. <<Edit(L)>> \o p \in Seq(Proper) /\ LeadsAll(<<Edit(L)>> \o p, Mirror(R), Mirror(L))
  BY <1>1, <1>2, <1>4, AllOn
<1>6. QED
  BY <1>1, <1>3, <1>5, AllOn


LEMMA WhitesOneChanged ==
  ASSUME NEW L \in SUBSET Rule, NEW R \in SUBSET Rule, IsFiniteSet(L), IsFiniteSet(R), NEW e,
         \A f \in ValidExe : f # e => WhiteOf(f, L) = WhiteOf(f, R)
  PROVE  /\ e \in ValidExe =>
              {w \in WhitesFor(R) : w.exe # e} \cup WhiteOf(e, L) = WhitesFor(L)
         /\ e \notin ValidExe => WhitesFor(L) = WhitesFor(R)
<1>1. \A w : /\ w \in WhitesFor(R) <=> \E f \in ValidExe : w \in WhiteOf(f, R)
             /\ w \in WhitesFor(L) <=> \E f \in ValidExe : w \in WhiteOf(f, L)
  BY WhitesForFacts
<1>2. \A f \in ValidExe : /\ \A w \in WhiteOf(f, R) : w.exe = f
                          /\ \A w \in WhiteOf(f, L) : w.exe = f
  BY WhiteFacts
<1>3. QED
  BY <1>1, <1>2

LEMMA SinglesAllow ==
  ASSUME NEW r, NEW R, r.action # "block" \/ r.exe \notin ValidExe
  PROVE  SinglesFor(R \cup {r}) = SinglesFor(R) /\ SinglesFor(R \ {r}) = SinglesFor(R)
BY DEF SinglesFor

LEMMA SinglesBlock ==
  ASSUME NEW r \in Rule, NEW R
  PROVE  /\ r.action = "block" /\ r.exe \in ValidExe =>
              SinglesFor(R \cup {r}) = SinglesFor(R) \cup SinglesOf(r)
         /\ SinglesFor(R \ {r}) = SinglesFor(R) \ SinglesOf(r)
BY SinglesFacts DEF SinglesFor

(* What add_ip_rule and remove_ip_rule do about the whitelist of the rule's *)
(* program.                                                                *)
LEMMA ApplyLeads ==
  ASSUME NEW L \in SUBSET Rule, NEW R \in SUBSET Rule, IsFiniteSet(L), IsFiniteSet(R), NEW e,
         \A f \in ValidExe : f # e => WhiteOf(f, L) = WhiteOf(f, R),
         SinglesFor(L) = SinglesFor(R)
  PROVE  /\ WhitelistSteps(e, L) \in Seq(Proper)
         /\ LeadsAll(WhitelistSteps(e, L), Both(L, SinglesFor(R), WhitesFor(R)), Mirror(L))
<1>1. CASE e \in ValidExe
  <2>1. /\ WhitelistSteps(e, L) \in Seq(Proper)
        /\ LeadsAll(WhitelistSteps(e, L), Both(L, SinglesFor(R), WhitesFor(R)),
                    Both(L, SinglesFor(R),
                         {x \in WhitesFor(R) : x.exe # e} \cup WhiteOf(e, L)))
    BY <1>1, WhitelistLeads
  <2>2. {x \in WhitesFor(R) : x.exe # e} \cup WhiteOf(e, L) = WhitesFor(L)
    BY <1>1, WhitesOneChanged
  <2>3. QED
    BY <2>1, <2>2 DEF Mirror
<1>2. CASE e \notin ValidExe
  <2>1. WhitelistSteps(e, L) = <<>>
    BY <1>2 DEF WhitelistSteps
  <2>2. WhitesFor(L) = WhitesFor(R)
    BY <1>2, WhitesOneChanged
  <2>3. Both(L, SinglesFor(R), WhitesFor(R)) = Mirror(L)
    BY <2>2 DEF Mirror
  <2>4. <<>> \in Seq(Proper)
    OBVIOUS
  <2>5. QED
    BY <2>1, <2>3, <2>4, AllNowhere
<1>3. QED
  BY <1>1, <1>2

LEMMA AddingLeads ==
  ASSUME NEW R \in SUBSET Rule, IsFiniteSet(R), NEW r \in Rule, on
  PROVE  /\ Adding(r, R) \in Seq(Proper)
         /\ LeadsAll(Adding(r, R), Mirror(R), Mirror(R \cup {r}))
<1> DEFINE L == R \cup {r}
           M == Both(L, SinglesFor(R), WhitesFor(R))
           p == IF r.action = "allow" THEN ApplyWhitelist(r.exe, L)
                ELSE IF on THEN AddIpRuleSteps(r) ELSE <<>>
<1>1. L \in SUBSET Rule /\ IsFiniteSet(L)
  BY FS_AddElement
<1>2. \A f : f # r.exe \/ r.action # "allow" => WhiteOf(f, L) = WhiteOf(f, R)
  BY OtherAllowed
<1>3. Adding(r, R) = <<Edit(L)>> \o p \o <<Save>>
  BY DEF Adding
<1>4. r.action \in {"allow", "block"}
  BY DEF Rule
<1>5. p \in Seq(Proper) /\ LeadsAll(p, M, Mirror(L))
  <2>1. CASE r.action = "allow"
    <3>1. p = WhitelistSteps(r.exe, L)
      BY <2>1 DEF ApplyWhitelist
    <3>2. SinglesFor(L) = SinglesFor(R)
      BY <2>1, SinglesAllow
    <3> HIDE DEF L, p
    <3>3. QED
      BY <1>1, <1>2, <3>1, <3>2, ApplyLeads
  <2>2. CASE r.action = "block" /\ r.exe \in ValidExe
    <3> DEFINE a == Add(SinglesOf(r), {})
    <3>1. p = <<a>>
      BY <2>2 DEF AddIpRuleSteps
    <3>2. SinglesFor(L) = SinglesFor(R) \cup SinglesOf(r)
      BY <2>2, SinglesBlock
    <3>3. WhitesFor(L) = WhitesFor(R)
      BY <1>2, <2>2 DEF WhitesFor
    <3> HIDE DEF L
    <3>4. TurnsAll(a, M, Both(L, SinglesFor(R) \cup SinglesOf(r), WhitesFor(R) \cup {}))
      BY AddTurns
    <3>5. Both(L, SinglesFor(R) \cup SinglesOf(r), WhitesFor(R) \cup {}) = Mirror(L)
      BY <3>2, <3>3 DEF Mirror
    <3>6. a \in Proper
      BY <2>2, InstructionTypes, SinglesFacts
    <3> HIDE DEF a, M, p
    <3>7. <<a>> \in Seq(Proper)
      BY <3>6, OneThenOne
    <3>8. QED
      BY <3>1, <3>4, <3>5, <3>7, AllOne
  <2>3. CASE r.action = "block" /\ r.exe \notin ValidExe
    <3>1. p = <<>>
      BY <2>3 DEF AddIpRuleSteps
    <3>2. SinglesFor(L) = SinglesFor(R)
      BY <2>3, SinglesAllow
    <3>3. WhitesFor(L) = WhitesFor(R)
      BY <1>2, <2>3 DEF WhitesFor
    <3>4. M = Mirror(L)
      BY <3>2, <3>3 DEF Mirror
    <3>5. <<>> \in Seq(Proper)
      OBVIOUS
    <3> HIDE DEF M, L, p
    <3>6. QED
      BY <3>1, <3>4, <3>5, AllNowhere
  <2>4. QED
    BY <1>4, <2>1, <2>2, <2>3
<1> HIDE DEF p
<1>6. QED
  BY <1>1, <1>3, <1>5, FrameLeads

LEMMA RemovingLeads ==
  ASSUME NEW R \in SUBSET Rule, IsFiniteSet(R), NEW r \in Rule, on
  PROVE  /\ Removing(r, R) \in Seq(Proper)
         /\ LeadsAll(Removing(r, R), Mirror(R), Mirror(R \ {r}))
<1> DEFINE L == R \ {r}
           M == Both(L, SinglesFor(R), WhitesFor(R))
           p == IF r.action = "allow" THEN ApplyWhitelist(r.exe, L)
                ELSE <<Delete(SinglesOf(r), {})>>
<1>1. L \in SUBSET Rule /\ IsFiniteSet(L)
  BY FS_Subset
<1>2. \A f : f # r.exe \/ r.action # "allow" => WhiteOf(f, L) = WhiteOf(f, R)
  BY OtherAllowed
<1>3. Removing(r, R) = <<Edit(L)>> \o p \o <<Save>>
  BY DEF Removing
<1>4. p \in Seq(Proper) /\ LeadsAll(p, M, Mirror(L))
  <2>1. CASE r.action = "allow"
    <3>1. p = WhitelistSteps(r.exe, L)
      BY <2>1 DEF ApplyWhitelist
    <3>2. SinglesFor(L) = SinglesFor(R)
      BY <2>1, SinglesAllow
    <3> HIDE DEF L, p
    <3>3. QED
      BY <1>1, <1>2, <3>1, <3>2, ApplyLeads
  <2>2. CASE r.action # "allow"
    <3> DEFINE a == Delete(SinglesOf(r), {})
    <3>1. p = <<a>>
      BY <2>2
    <3>2. SinglesFor(L) = SinglesFor(R) \ SinglesOf(r)
      BY SinglesBlock
    <3>3. WhitesFor(L) = WhitesFor(R) /\ {x \in WhitesFor(R) : x.exe \notin {}} = WhitesFor(R)
      BY <1>2, <2>2 DEF WhitesFor
    <3> HIDE DEF L
    <3>4. TurnsAll(a, M, Both(L, SinglesFor(R) \ SinglesOf(r),
                              {x \in WhitesFor(R) : x.exe \notin {}}))
      BY DeleteTurns
    <3>5. Both(L, SinglesFor(R) \ SinglesOf(r), {x \in WhitesFor(R) : x.exe \notin {}})
            = Mirror(L)
      BY <3>2, <3>3 DEF Mirror
    <3>6. a \in Proper
      BY InstructionTypes, SinglesFacts
    <3> HIDE DEF a, M, p
    <3>7. <<a>> \in Seq(Proper)
      BY <3>6, OneThenOne
    <3>8. QED
      BY <3>1, <3>4, <3>5, <3>7, AllOne
  <2>3. QED
    BY <2>1, <2>2
<1> HIDE DEF p
<1>5. QED
  BY <1>1, <1>3, <1>4, FrameLeads


(* A loop of handlers.                                                     *)
LEMMA LoopLeads ==
  ASSUME NEW n \in Nat, NEW s \in [1..n -> Seq(Proper)], NEW f,
         \A k \in 1..n : LeadsAll(s[k], f[k - 1], f[k])
  PROVE  FlattenSeq(s) \in Seq(Proper) /\ LeadsAll(FlattenSeq(s), f[0], f[n])
<1>1. PICK a \in [0..n -> Seq(Proper)] :
        /\ a[0] = <<>>
        /\ \A k \in 1..n : a[k] = a[k - 1] \o s[k]
        /\ a[n] = FlattenSeq(s)
  BY FlattenSteps
<1> DEFINE G == {k \in 0..n : LeadsAll(a[k], f[0], f[k])}
<1>2. 0 \in G
  BY <1>1, AllNowhere
<1>3. ASSUME NEW k \in 0..n, k \in G, k < n
      PROVE  k + 1 \in G
  <2>1. k + 1 \in 1..n /\ (k + 1) - 1 = k /\ k + 1 \in 0..n
    BY <1>3
  <2>2. /\ a[k] \in Seq(Proper) /\ s[k + 1] \in Seq(Proper)
        /\ a[k + 1] = a[k] \o s[k + 1]
        /\ LeadsAll(s[k + 1], f[k], f[k + 1])
    BY <1>1, <2>1
  <2>3. LeadsAll(a[k], f[0], f[k])
    BY <1>3
  <2> HIDE DEF G
  <2>4. LeadsAll(a[k + 1], f[0], f[k + 1])
    BY <2>2, <2>3, AllOn
  <2>5. QED
    BY <2>1, <2>4 DEF G
<1>4. n \in G
  <2>1. n \in 0..n
    OBVIOUS
  <2> HIDE DEF G
  <2>2. \A k \in 0..n : k \in G
    BY <1>2, <1>3, CountAll
  <2>3. QED
    BY <2>1, <2>2
<1>5. n \in 0..n /\ a[n] \in Seq(Proper)
  BY <1>1
<1>6. QED
  BY <1>1, <1>4, <1>5

LEMMA ReinstallBlocks ==
  ASSUME NEW R \in SUBSET Rule, IsFiniteSet(R)
  PROVE  LET blocks == {r \in R : r.action = "block"}
             s == [i \in 1..Cardinality(blocks) |-> AddIpRuleSteps(SetToSeq(blocks)[i])]
         IN  /\ FlattenSeq(s) \in Seq(Proper)
             /\ LeadsAll(FlattenSeq(s), Both(R, {}, {}), Both(R, SinglesFor(R), {}))
<1> DEFINE blocks == {r \in R : r.action = "block"}
           n == Cardinality(blocks)
           q == SetToSeq(blocks)
           s == [i \in 1..n |-> AddIpRuleSteps(q[i])]
           First(k) == {q[j] : j \in 1..k}
           f == [k \in 0..n |-> Both(R, SinglesFor(First(k)), {})]
<1>1. IsFiniteSet(blocks) /\ blocks \in SUBSET Rule
      /\ \A r \in blocks : r.action = "block"
  BY FS_Subset
<1>2. SinglesFor(blocks) = SinglesFor(R) /\ SinglesFor({}) = {}
  BY DEF SinglesFor
<1> HIDE DEF blocks
<1>3. /\ n \in Nat /\ q \in [1..n -> blocks]
      /\ \A r \in blocks : \E i \in 1..n : q[i] = r
  BY <1>1, SetToSeqFacts
<1> HIDE DEF n, q
<1>4. ASSUME NEW r \in blocks
      PROVE  /\ AddIpRuleSteps(r) \in Seq(Proper)
             /\ \A Q : LeadsAll(AddIpRuleSteps(r), Both(R, SinglesFor(Q), {}),
                                Both(R, SinglesFor(Q \cup {r}), {}))
  <2> DEFINE a == Add(SinglesOf(r), {})
  <2>1. r \in Rule /\ r.action = "block"
    BY <1>1
  <2>2. CASE r.exe \in ValidExe
    <3>1. AddIpRuleSteps(r) = <<a>>
      BY <2>2 DEF AddIpRuleSteps
    <3>2. a \in Proper
      BY <2>1, <2>2, InstructionTypes, SinglesFacts
    <3>3. \A Q : TurnsAll(a, Both(R, SinglesFor(Q), {}),
                          Both(R, SinglesFor(Q) \cup SinglesOf(r), {} \cup {}))
      BY AddTurns
    <3>4. \A Q : SinglesFor(Q) \cup SinglesOf(r) = SinglesFor(Q \cup {r})
      BY <2>1, <2>2, SinglesBlock
    <3>5. {} \cup {} = {}
      OBVIOUS
    <3> HIDE DEF a
    <3>6. \A Q : TurnsAll(a, Both(R, SinglesFor(Q), {}), Both(R, SinglesFor(Q \cup {r}), {}))
      BY <3>3, <3>4, <3>5
    <3>7. QED
      BY <3>1, <3>2, <3>6, AllOne, OneThenOne
  <2>3. CASE r.exe \notin ValidExe
    <3>1. AddIpRuleSteps(r) = <<>> /\ <<>> \in Seq(Proper)
      BY <2>3 DEF AddIpRuleSteps
    <3>2. \A Q : SinglesFor(Q \cup {r}) = SinglesFor(Q)
      BY <2>3, SinglesAllow
    <3>3. QED
      BY <3>1, <3>2, AllNowhere
  <2>4. QED
    BY <2>2, <2>3
<1>5. s \in [1..n -> Seq(Proper)] /\ \A k \in 1..n : s[k] = AddIpRuleSteps(q[k])
  BY <1>3, <1>4
<1>6. ASSUME NEW k \in 1..n
      PROVE  LeadsAll(s[k], f[k - 1], f[k])
  <2>1. k \in 0..n /\ k - 1 \in 0..n
        /\ (\A j \in 1..k : j \in 1..(k - 1) \/ j = k)
        /\ (\A j \in 1..(k - 1) : j \in 1..k) /\ k \in 1..k
    BY <1>3
  <2>2. First(k) = First(k - 1) \cup {q[k]}
    BY <2>1
  <2>3. f[k - 1] = Both(R, SinglesFor(First(k - 1)), {}) /\ f[k] = Both(R, SinglesFor(First(k)), {})
    BY <2>1
  <2>4. q[k] \in blocks
    BY <1>3
  <2> HIDE DEF f, First, s
  <2>5. QED
    BY <1>4, <1>5, <2>2, <2>3, <2>4
<1>7. f[0] = Both(R, {}, {})
  <2>1. First(0) = {} /\ 0 \in 0..n
    BY <1>3, NoIndex
  <2>2. QED
    BY <1>2, <2>1
<1>8. f[n] = Both(R, SinglesFor(R), {})
  <2>1. First(n) = blocks /\ n \in 0..n
    BY <1>3
  <2>2. QED
    BY <1>2, <2>1
<1> HIDE DEF f, s
<1>9. FlattenSeq(s) \in Seq(Proper) /\ LeadsAll(FlattenSeq(s), f[0], f[n])
  BY <1>3, <1>5, <1>6, LoopLeads
<1>10. QED
  BY <1>7, <1>8, <1>9 DEF s, n, q, blocks

LEMMA ReinstallWhitelists ==
  ASSUME NEW R \in SUBSET Rule, IsFiniteSet(R), NEW v
  PROVE  LET exes == {e \in Exe : AllowOf(e, R) # {}}
             s == [i \in 1..Cardinality(exes) |-> WhitelistSteps(SetToSeq(exes)[i], R)]
         IN  /\ FlattenSeq(s) \in Seq(Proper)
             /\ LeadsAll(FlattenSeq(s), Both(R, v, {}), Both(R, v, WhitesFor(R)))
<1> DEFINE exes == {e \in Exe : AllowOf(e, R) # {}}
           n == Cardinality(exes)
           q == SetToSeq(exes)
           s == [i \in 1..n |-> WhitelistSteps(q[i], R)]
           First(k) == {q[j] : j \in 1..k}
           Part(E) == {w \in WhitesFor(R) : w.exe \in E}
           f == [k \in 0..n |-> Both(R, v, Part(First(k)))]
<1>1. IsFiniteSet(exes)
  <2> DEFINE g == [r \in R |-> r.exe]
             all == {r.exe : r \in R}
  <2>1. g \in Surjection(R, all)
    BY DEF Surjection
  <2>2. exes \in SUBSET all
    BY DEF AllowOf
  <2> HIDE DEF g, all, exes
  <2>3. QED
    BY <2>1, <2>2, FS_Surjection, FS_Subset
<1>2. Part({}) = {} /\ Part(exes) = WhitesFor(R)
  <2>1. ASSUME NEW w \in WhitesFor(R)
        PROVE  w.exe \in exes
    <3>1. w.exe \in ValidExe /\ w \in WhiteOf(w.exe, R)
      BY DEF WhitesFor, WhiteRule
    <3>2. AllowOf(w.exe, R) # {}
      BY <3>1, NoWhitelist
    <3>3. QED
      BY <3>1, <3>2, IpRulesAssumption
  <2>2. QED
    BY <2>1
<1>3. ASSUME NEW e
      PROVE  /\ WhitelistSteps(e, R) \in Seq(Proper)
             /\ \A E : LeadsAll(WhitelistSteps(e, R), Both(R, v, Part(E)),
                                Both(R, v, Part(E \cup {e})))
  <2>1. CASE e \in ValidExe
    <3>1. ASSUME NEW E
          PROVE  {x \in Part(E) : x.exe # e} \cup WhiteOf(e, R) = Part(E \cup {e})
      <4>1. \A w : w \in WhitesFor(R) <=> \E g \in ValidExe : w \in WhiteOf(g, R)
        BY WhitesForFacts
      <4>2. \A g \in ValidExe : \A w \in WhiteOf(g, R) : w.exe = g
        BY WhiteFacts
      <4>3. QED
        BY <2>1, <4>1, <4>2
    <3> HIDE DEF Part
    <3>2. /\ WhitelistSteps(e, R) \in Seq(Proper)
          /\ \A E : LeadsAll(WhitelistSteps(e, R), Both(R, v, Part(E)),
                             Both(R, v, {x \in Part(E) : x.exe # e} \cup WhiteOf(e, R)))
      BY <2>1, WhitelistLeads
    <3>3. QED
      BY <3>1, <3>2
  <2>2. CASE e \notin ValidExe
    <3>1. WhitelistSteps(e, R) = <<>> /\ <<>> \in Seq(Proper)
      BY <2>2 DEF WhitelistSteps
    <3>2. \A E : Part(E \cup {e}) = Part(E)
      BY <2>2 DEF WhitesFor, WhiteRule
    <3> HIDE DEF Part
    <3>3. QED
      BY <3>1, <3>2, AllNowhere
  <2>3. QED
    BY <2>1, <2>2
<1> HIDE DEF exes, Part
<1>4. /\ n \in Nat /\ q \in [1..n -> exes]
      /\ \A r \in exes : \E i \in 1..n : q[i] = r
  BY <1>1, SetToSeqFacts
<1> HIDE DEF n, q
<1>5. s \in [1..n -> Seq(Proper)] /\ \A k \in 1..n : s[k] = WhitelistSteps(q[k], R)
  BY <1>3
<1>6. ASSUME NEW k \in 1..n
      PROVE  LeadsAll(s[k], f[k - 1], f[k])
  <2>1. k \in 0..n /\ k - 1 \in 0..n
        /\ (\A j \in 1..k : j \in 1..(k - 1) \/ j = k)
        /\ (\A j \in 1..(k - 1) : j \in 1..k) /\ k \in 1..k
    BY <1>4
  <2>2. First(k) = First(k - 1) \cup {q[k]}
    BY <2>1
  <2>3. f[k - 1] = Both(R, v, Part(First(k - 1))) /\ f[k] = Both(R, v, Part(First(k)))
    BY <2>1
  <2> HIDE DEF f, First, s
  <2>4. QED
    BY <1>3, <1>5, <2>2, <2>3
<1>7. f[0] = Both(R, v, {})
  <2>1. First(0) = {} /\ 0 \in 0..n
    BY <1>4, NoIndex
  <2>2. QED
    BY <1>2, <2>1
<1>8. f[n] = Both(R, v, WhitesFor(R))
  <2>1. First(n) = exes /\ n \in 0..n
    BY <1>4
  <2>2. QED
    BY <1>2, <2>1
<1> HIDE DEF f, s
<1>9. FlattenSeq(s) \in Seq(Proper) /\ LeadsAll(FlattenSeq(s), f[0], f[n])
  BY <1>4, <1>5, <1>6, LoopLeads
<1>10. QED
  BY <1>7, <1>8, <1>9 DEF s, n, q, exes


LEMMA ReinstallLeads ==
  ASSUME NEW R \in SUBSET Rule, IsFiniteSet(R)
  PROVE  Reinstall(R) \in Seq(Proper) /\ LeadsAll(Reinstall(R), Both(R, {}, {}), Mirror(R))
<1> DEFINE blocks == {r \in R : r.action = "block"}
           exes == {e \in Exe : AllowOf(e, R) # {}}
           p == FlattenSeq([i \in 1..Cardinality(blocks) |->
                              AddIpRuleSteps(SetToSeq(blocks)[i])])
           q == FlattenSeq([i \in 1..Cardinality(exes) |->
                              WhitelistSteps(SetToSeq(exes)[i], R)])
<1>1. p \in Seq(Proper) /\ LeadsAll(p, Both(R, {}, {}), Both(R, SinglesFor(R), {}))
  BY ReinstallBlocks
<1>2. q \in Seq(Proper)
      /\ LeadsAll(q, Both(R, SinglesFor(R), {}), Both(R, SinglesFor(R), WhitesFor(R)))
  BY ReinstallWhitelists
<1>3. Reinstall(R) = p \o q
  BY DEF Reinstall
<1> HIDE DEF p, q
<1>4. QED
  BY <1>1, <1>2, <1>3, AllOn DEF Mirror

-----------------------------------------------------------------------------
(* The inductive invariant.  With the switch on and nothing lapsed, what   *)
(* is left of the handler makes Windows follow the list it ends with.      *)

Follows ==
  \E R \in SUBSET Rule :
    IsFiniteSet(R) /\ LeadsAll(prog, Both(rules, single, white), Mirror(R))

Inv ==
  /\ TypeOK
  /\ prog \in Seq(Proper)
  /\ up /\ ~lapsed => Follows

LEMMA AtRestFollows ==
  ASSUME Inv, AtRest, ~lapsed
  PROVE  /\ single = SinglesFor(rules) /\ white = WhitesFor(rules)
         /\ Both(rules, single, white) = Mirror(rules)
<1>1. PICK R \in SUBSET Rule :
        LeadsAll(<<>>, Both(rules, single, white), Mirror(R))
  BY DEF Inv, AtRest, Follows
<1>2. rules = R /\ single = SinglesFor(R) /\ white = WhitesFor(R)
  BY <1>1, LeadsNowhere DEF LeadsAll, Mirror, Both
<1>3. QED
  BY <1>2 DEF Mirror

(* With the switch off the handlers are shorter. *)
LEMMA HandlerTypes ==
  ASSUME NEW R \in SUBSET Rule, IsFiniteSet(R), NEW r \in Rule
  PROVE  Adding(r, R) \in Seq(Proper) /\ Removing(r, R) \in Seq(Proper)
<1>1. CASE on
  BY <1>1, AddingLeads, RemovingLeads
<1>2. CASE ~on
  <2> DEFINE L == R \cup {r}
             K == R \ {r}
  <2>1. /\ L \in SUBSET Rule /\ IsFiniteSet(L)
        /\ K \in SUBSET Rule /\ IsFiniteSet(K)
    BY FS_AddElement, FS_Subset
  <2>2. Adding(r, R) = <<Edit(L)>> \o <<>> \o <<Save>>
    BY <1>2 DEF Adding, ApplyWhitelist
  <2> DEFINE p == IF r.action = "allow" THEN <<>> ELSE <<Delete(SinglesOf(r), {})>>
  <2>3. Removing(r, R) = <<Edit(K)>> \o p \o <<Save>>
    BY <1>2 DEF Removing, ApplyWhitelist
  <2>4. Delete(SinglesOf(r), {}) \in Proper
    BY InstructionTypes, SinglesFacts
  <2>5. p \in Seq(Proper) /\ <<>> \in Seq(Proper)
    BY <2>4, OneThenOne
  <2> HIDE DEF L, K, p
  <2>6. <<Edit(L)>> \in Seq(Proper) /\ <<Edit(K)>> \in Seq(Proper) /\ <<Save>> \in Seq(Proper)
    BY <2>1, InstructionTypes, OneThenOne
  <2>7. \A u, v, w \in Seq(Proper) : u \o v \o w \in Seq(Proper)
    OBVIOUS
  <2>8. QED
    BY <2>2, <2>3, <2>5, <2>6, <2>7
<1>3. QED
  BY <1>1, <1>2

LEMMA InitInv == Init => Inv
<1> SUFFICES ASSUME Init
             PROVE  Inv
  OBVIOUS
<1>1. IsFiniteSet({})
  BY FS_EmptySet
<1>2. <<>> \in Seq(Proper) /\ <<>> \in Seq(InstructionType)
  OBVIOUS
<1>3. TypeOK
  <2>1. offer \in Offers /\ offer.refusals \in Nat
    BY IpRulesAssumption DEF Init
  <2>2. offer.rules = offer.rules /\ offer.refusals \in 0..offer.refusals
    BY <2>1
  <2>3. QED
    BY <1>1, <1>2, <2>1, <2>2 DEF Init, TypeOK
<1>4. SinglesFor({}) = {}
  BY DEF SinglesFor
<1>5. WhitesFor({}) = {}
  <2>1. \A e : AllowOf(e, {}) = {}
    BY DEF AllowOf
  <2>2. QED
    BY <2>1, NoWhitelist DEF WhitesFor
<1>6. Both(rules, single, white) = Mirror({})
  BY <1>4, <1>5 DEF Init, Mirror
<1>7. LeadsAll(prog, Both(rules, single, white), Mirror({}))
  BY <1>6, AllNowhere DEF Init
<1>8. QED
  BY <1>1, <1>2, <1>3, <1>7 DEF Init, Inv, Follows

(* A handler begins.                                                       *)
LEMMA HandleInv ==
  ASSUME Inv, NEW steps \in Seq(Proper), Handle(steps), lapsed' = (lapsed \/ ~on), AtRest,
         NEW R \in SUBSET Rule, IsFiniteSet(R),
         on /\ ~lapsed => LeadsAll(steps, Mirror(rules), Mirror(R))
  PROVE  Inv'
<1>1. \A i \in Proper : i \in InstructionType
  BY DEF Proper
<1>2. steps \in Seq(InstructionType)
  BY <1>1
<1>3. TypeOK'
  BY <1>2 DEF Inv, TypeOK, Handle
<1>4. ASSUME up', ~lapsed'
      PROVE  Follows'
  <2>1. on /\ ~lapsed
    BY <1>4 DEF Inv, TypeOK
  <2>2. Both(rules', single', white') = Mirror(rules)
    BY <2>1, AtRestFollows DEF Handle
  <2>3. LeadsAll(prog', Both(rules', single', white'), Mirror(R))
    BY <2>1, <2>2 DEF Handle
  <2>4. QED
    BY <2>3 DEF Follows
<1>5. QED
  BY <1>3, <1>4 DEF Inv, Handle

LEMMA AddInv ==
  ASSUME Inv, NEW r \in offer.rules, AddIpRule(r)
  PROVE  Inv'
<1>1. r \in Rule /\ rules \in SUBSET Rule /\ IsFiniteSet(rules)
  BY IpRulesAssumption DEF Inv, TypeOK
<1>2. Adding(r, rules) \in Seq(Proper)
  BY <1>1, HandlerTypes
<1>3. rules \cup {r} \in SUBSET Rule /\ IsFiniteSet(rules \cup {r})
  BY <1>1, FS_AddElement
<1>4. on => LeadsAll(Adding(r, rules), Mirror(rules), Mirror(rules \cup {r}))
  BY <1>1, AddingLeads
<1>5. QED
  BY <1>2, <1>3, <1>4, HandleInv DEF AddIpRule

LEMMA RemoveInv ==
  ASSUME Inv, NEW r \in rules, RemoveIpRule(r)
  PROVE  Inv'
<1>1. r \in Rule /\ rules \in SUBSET Rule /\ IsFiniteSet(rules)
  BY DEF Inv, TypeOK
<1>2. Removing(r, rules) \in Seq(Proper)
  BY <1>1, HandlerTypes
<1>3. rules \ {r} \in SUBSET Rule /\ IsFiniteSet(rules \ {r})
  BY <1>1, FS_Subset
<1>4. on => LeadsAll(Removing(r, rules), Mirror(rules), Mirror(rules \ {r}))
  BY <1>1, RemovingLeads
<1>5. QED
  BY <1>2, <1>3, <1>4, HandleInv DEF RemoveIpRule

LEMMA EditInv ==
  ASSUME Inv, NEW r \in rules, NEW n \in offer.rules, EditIpRule(r, n)
  PROVE  Inv'
<1> DEFINE K == rules \ {r}
           L == K \cup {n}
           p == Removing(r, rules)
           q == Adding(n, K)
<1>1. r \in Rule /\ n \in Rule /\ rules \in SUBSET Rule /\ IsFiniteSet(rules)
  BY IpRulesAssumption DEF Inv, TypeOK
<1>2. K \in SUBSET Rule /\ IsFiniteSet(K)
  BY <1>1, FS_Subset
<1> HIDE DEF K
<1>3. L \in SUBSET Rule /\ IsFiniteSet(L)
  BY <1>1, <1>2, FS_AddElement
<1>4. p \in Seq(Proper) /\ q \in Seq(Proper)
  BY <1>1, <1>2, HandlerTypes
<1>5. on => LeadsAll(p, Mirror(rules), Mirror(K)) /\ LeadsAll(q, Mirror(K), Mirror(L))
  BY <1>1, <1>2, AddingLeads, RemovingLeads DEF K
<1> HIDE DEF L, p, q
<1>6. p \o q \in Seq(Proper)
  BY <1>4
<1>7. on => LeadsAll(p \o q, Mirror(rules), Mirror(L))
  BY <1>4, <1>5, AllOn
<1>8. AtRest /\ Handle(p \o q) /\ lapsed' = (lapsed \/ ~on)
  BY DEF EditIpRule, p, q, K
<1>9. QED
  BY <1>3, <1>6, <1>7, <1>8, HandleInv


LEMMA SwitchInv ==
  ASSUME Inv, SetFirewallEnabled
  PROVE  Inv'
<1>1. TypeOK'
  BY DEF Inv, TypeOK, SetFirewallEnabled
<1>2. Follows' <=> Follows
  BY DEF Follows, SetFirewallEnabled
<1>3. QED
  BY <1>1, <1>2 DEF Inv, SetFirewallEnabled

(* What netsh may do of an instruction keeps to the types.                 *)
LEMMA EffectTypes ==
  ASSUME Inv, NEW i \in Proper, NEW s \in SUBSET i.single,
         NEW w \in SUBSET (i.white \cup OfWhitelists(i.exes)),
         Effect(i.op, s, w)
  PROVE  /\ \A x \in single' : x \in SingleRule /\ x.rule.exe \in ValidExe
         /\ white' \subseteq WhiteRule
<1>1. i.single \in SUBSET SingleRule /\ i.white \in SUBSET WhiteRule
      /\ (i.op = "add" => \A x \in i.single : x.rule.exe \in ValidExe)
  BY DEF Proper, InstructionType
<1>2. /\ \A x \in single : x \in SingleRule /\ x.rule.exe \in ValidExe
      /\ white \subseteq WhiteRule
  BY DEF Inv, TypeOK
<1>3. single' = IF i.op = "add" THEN single \cup s ELSE single \ s
  BY DEF Effect
<1>4. white' = IF i.op = "add" THEN white \cup w ELSE white \ w
  BY DEF Effect
<1>5. QED
  BY <1>1, <1>2, <1>3, <1>4 DEF OfWhitelists

LEMMA HeadProper ==
  ASSUME Inv, prog # <<>>
  PROVE  /\ Head(prog) \in Proper /\ Tail(prog) \in Seq(Proper)
         /\ Tail(prog) \in Seq(InstructionType)
<1>1. prog \in Seq(Proper) /\ prog \in Seq(InstructionType)
  BY DEF Inv, TypeOK
<1>2. QED
  BY <1>1

LEMMA KillInv ==
  ASSUME Inv, Kill
  PROVE  Inv'
<1>1. /\ \A x \in single' : x \in SingleRule /\ x.rule.exe \in ValidExe
      /\ white' \subseteq WhiteRule
  <2>1. CASE prog # <<>> /\ Head(prog).op \in {"add", "delete"}
    <3> DEFINE i == Head(prog)
    <3>1. i \in Proper
      BY <2>1, HeadProper
    <3>2. Cut(i)
      BY <2>1 DEF Kill
    <3> HIDE DEF i
    <3>3. CASE i.exes # {}
      <4>1. PICK s \in SUBSET i.single, v \in SUBSET (i.white \cup OfWhitelists(i.exes)) :
              Effect(i.op, s, v)
        BY <3>2, <3>3 DEF Cut
      <4>2. QED
        BY <3>1, <4>1, EffectTypes
    <3>4. CASE i.exes = {}
      <4> DEFINE w == i.white \cup OfWhitelists(i.exes)
      <4>1. PICK n \in 0..Cardinality(i.single \cup w) + 4 :
              Effect(i.op, {x \in i.single : SinglePlace(x) < n}, {x \in w : x.idx < n})
        BY <3>2, <3>4 DEF Cut
      <4>2. {x \in i.single : SinglePlace(x) < n} \in SUBSET i.single
            /\ {x \in w : x.idx < n} \in SUBSET w
        OBVIOUS
      <4>3. QED
        BY <3>1, <4>1, <4>2, EffectTypes
    <3>5. QED
      BY <3>3, <3>4
  <2>2. CASE ~(prog # <<>> /\ Head(prog).op \in {"add", "delete"})
    BY <2>2 DEF Kill, Inv, TypeOK
  <2>3. QED
    BY <2>1, <2>2
<1>2. IsFiniteSet({}) /\ <<>> \in Seq(InstructionType) /\ <<>> \in Seq(Proper)
  BY FS_EmptySet
<1>3. TypeOK'
  BY <1>1, <1>2 DEF Kill, Inv, TypeOK
<1>4. QED
  BY <1>2, <1>3 DEF Kill, Inv

LEMMA StartInv ==
  ASSUME Inv, Start
  PROVE  Inv'
<1> DEFINE d == Delete(single, Exe)
           p == IF on THEN Reinstall(saved) ELSE <<>>
           w0 == {x \in white : x.exe \notin Exe}
<1>1. saved \in SUBSET Rule /\ IsFiniteSet(saved)
  BY DEF Inv, TypeOK
<1>2. prog' = <<d>> \o p \o <<Save>>
  BY DEF Start
<1>3. d \in Proper /\ Save \in Proper
  <2>1. single \in SUBSET SingleRule
    BY DEF Inv, TypeOK
  <2>2. QED
    BY <2>1, InstructionTypes
<1>4. p \in Seq(Proper)
  BY <1>1, ReinstallLeads
<1>5. <<d>> \in Seq(Proper) /\ <<Save>> \in Seq(Proper)
  BY <1>3, OneThenOne
<1>6. prog' \in Seq(Proper)
  <2> HIDE DEF d, p
  <2>1. QED
    BY <1>2, <1>4, <1>5
<1>7. prog' \in Seq(InstructionType)
  <2>1. \A i \in Proper : i \in InstructionType
    BY DEF Proper
  <2>2. QED
    BY <1>6, <2>1
<1>8. TypeOK'
  BY <1>1, <1>7 DEF Start, Inv, TypeOK
<1>9. ASSUME ~lapsed'
      PROVE  Follows'
  <2>1. on
    BY <1>9 DEF Start
  <2>2. p \in Seq(Proper) /\ LeadsAll(p, Both(saved, {}, {}), Mirror(saved))
    BY <1>1, <2>1, ReinstallLeads
  <2>3. TurnsAll(d, Both(saved, single, white), Both(saved, single \ single, w0))
    BY DeleteTurns
  <2>4. single \ single = {} /\ w0 = {}
    <3>1. \A x \in white : x.exe \in Exe
      BY IpRulesAssumption DEF Inv, TypeOK, WhiteRule
    <3>2. QED
      BY <3>1
  <2>5. TurnsAll(Save, Mirror(saved), Mirror(saved))
    BY SaveTurns DEF Mirror
  <2> HIDE DEF d, p, w0
  <2>6. LeadsAll(<<d>>, Both(saved, single, white), Both(saved, {}, {}))
    BY <2>3, <2>4, AllOne
  <2>7. <<d>> \o p \in Seq(Proper)
        /\ LeadsAll(<<d>> \o p, Both(saved, single, white), Mirror(saved))
    BY <1>5, <2>2, <2>6, AllOn
  <2>8. LeadsAll(<<Save>>, Mirror(saved), Mirror(saved))
    BY <2>5, AllOne
  <2> DEFINE c == <<d>> \o p
  <2> HIDE DEF c
  <2>9. LeadsAll(c \o <<Save>>, Both(saved, single, white), Mirror(saved))
    BY <1>5, <2>7, <2>8, AllOn DEF c
  <2>10. prog' = c \o <<Save>> /\ rules' = saved /\ single' = single /\ white' = white
    BY <1>2 DEF Start, c
  <2>11. LeadsAll(prog', Both(rules', single', white'), Mirror(saved))
    BY <2>9, <2>10
  <2>12. QED
    BY <1>1, <2>11 DEF Follows
<1>10. QED
  BY <1>6, <1>8, <1>9 DEF Inv

LEMMA RefusedInv ==
  ASSUME Inv, Refused
  PROVE  Inv'
<1> DEFINE i == Head(prog)
<1>1. i \in Proper /\ Tail(prog) \in Seq(Proper) /\ Tail(prog) \in Seq(InstructionType)
  BY HeadProper DEF Refused
<1>2. PICK s \in SUBSET i.single, w \in SUBSET (i.white \cup OfWhitelists(i.exes)) :
        Effect(i.op, s, w)
  BY DEF Refused
<1> HIDE DEF i
<1>3. /\ \A x \in single' : x \in SingleRule /\ x.rule.exe \in ValidExe
      /\ white' \subseteq WhiteRule
  BY <1>1, <1>2, EffectTypes
<1>4. \E o \in Offers : offer'.rules = o.rules /\ offer'.refusals \in 0..o.refusals
  <2>1. PICK o \in Offers : offer.rules = o.rules /\ offer.refusals \in 0..o.refusals
    BY DEF Inv, TypeOK
  <2>2. o.refusals \in Nat
    BY <2>1, IpRulesAssumption
  <2>3. offer' = [offer EXCEPT !.refusals = offer.refusals - 1] /\ offer.refusals > 0
    BY DEF Refused
  <2>4. offer.refusals - 1 \in 0..o.refusals
    BY <2>1, <2>2, <2>3
  <2>5. offer'.rules = offer.rules
    BY <2>3
  <2>6. offer'.refusals \in 0..o.refusals
    BY <2>3, <2>4
  <2>7. QED
    BY <2>1, <2>5, <2>6
<1>5. TypeOK'
  BY <1>1, <1>3, <1>4 DEF Refused, Inv, TypeOK
<1>6. QED
  BY <1>1, <1>5 DEF Refused, Inv

LEMMA StepInv ==
  ASSUME Inv, Step
  PROVE  Inv'
<1> DEFINE i == Head(prog)
<1>1. /\ prog # <<>> /\ prog \in Seq(Proper) /\ prog' = Tail(prog)
      /\ i \in Proper /\ Tail(prog) \in Seq(Proper) /\ Tail(prog) \in Seq(InstructionType)
  BY HeadProper DEF Step, Inv
<1>2. \/ /\ i.op = "edit"
         /\ rules' = i.list /\ saved' = saved /\ single' = single /\ white' = white
      \/ /\ i.op = "save"
         /\ rules' = rules /\ saved' = rules /\ single' = single /\ white' = white
      \/ /\ i.op \in {"add", "delete"}
         /\ Effect(i.op, i.single, i.white \cup OfWhitelists(i.exes))
         /\ rules' = rules /\ saved' = saved
  BY DEF Step
<1> HIDE DEF i
<1>3. /\ \A x \in single' : x \in SingleRule /\ x.rule.exe \in ValidExe
      /\ white' \subseteq WhiteRule
  <2>1. CASE i.op \in {"add", "delete"}
    <3>1. Effect(i.op, i.single, i.white \cup OfWhitelists(i.exes))
      BY <1>2, <2>1
    <3>2. QED
      BY <1>1, <3>1, EffectTypes
  <2>2. CASE i.op \notin {"add", "delete"}
    BY <1>2, <2>2 DEF Inv, TypeOK
  <2>3. QED
    BY <2>1, <2>2
<1>4. rules' \subseteq Rule /\ IsFiniteSet(rules') /\ saved' \subseteq Rule /\ IsFiniteSet(saved')
  BY <1>1, <1>2 DEF Inv, TypeOK, Proper, InstructionType
<1>5. TypeOK'
  BY <1>1, <1>3, <1>4 DEF Step, Inv, TypeOK
<1>6. ASSUME Follows
      PROVE  Follows'
  <2>1. PICK R \in SUBSET Rule :
          IsFiniteSet(R) /\ LeadsAll(prog, Both(rules, single, white), Mirror(R))
    BY <1>6 DEF Follows
  <2>2. Turns("list", i, rules, rules')
    BY <1>2 DEF Turns, Puts, Drops, Effect
  <2>3. Turns("single", i, single, single')
    BY <1>2 DEF Turns, Puts, Drops, Effect
  <2>4. Turns("white", i, white, white')
    BY <1>2 DEF Turns, Puts, Drops, Effect, OfWhitelists
  <2> DEFINE M == Mirror(R)
  <2> HIDE DEF M
  <2>5. /\ Leads("list", prog, rules, M.list)
        /\ Leads("single", prog, single, M.single)
        /\ Leads("white", prog, white, M.white)
    BY <2>1 DEF LeadsAll, Both, M
  <2>6. Leads("list", Tail(prog), rules', M.list)
    BY <1>1, <2>2, <2>5, LeadsRest DEF i
  <2>7. Leads("single", Tail(prog), single', M.single)
    BY <1>1, <2>3, <2>5, LeadsRest DEF i
  <2>8. Leads("white", Tail(prog), white', M.white)
    BY <1>1, <2>4, <2>5, LeadsRest DEF i
  <2>9. LeadsAll(prog', Both(rules', single', white'), Mirror(R))
    BY <1>1, <2>6, <2>7, <2>8 DEF LeadsAll, Both, M
  <2>10. QED
    BY <2>1, <2>9 DEF Follows
<1>7. up' = up /\ lapsed' = lapsed
  BY DEF Step
<1>8. QED
  BY <1>1, <1>5, <1>6, <1>7 DEF Inv

LEMMA NextInv == Inv /\ [Next]_vars => Inv'
<1> SUFFICES ASSUME Inv, [Next]_vars
             PROVE  Inv'
  OBVIOUS
<1>1. ASSUME NEW r \in offer.rules, AddIpRule(r)
      PROVE  Inv'
  BY <1>1, AddInv
<1>2. ASSUME NEW r \in rules, RemoveIpRule(r)
      PROVE  Inv'
  BY <1>2, RemoveInv
<1>3. ASSUME NEW r \in rules, NEW n \in offer.rules, EditIpRule(r, n)
      PROVE  Inv'
  BY <1>3, EditInv
<1>4. CASE UNCHANGED vars
  <2>1. TypeOK'
    BY <1>4 DEF Inv, TypeOK, vars
  <2>2. Follows' <=> Follows
    BY <1>4 DEF Follows, vars
  <2>3. QED
    BY <1>4, <2>1, <2>2 DEF Inv, vars
<1>5. QED
  BY <1>1, <1>2, <1>3, <1>4, SwitchInv, KillInv, StartInv, RefusedInv, StepInv DEF Next

LEMMA AlwaysInv == Spec => []Inv
BY InitInv, NextInv, PTL DEF Spec

(* Every netsh rule of ours is one that Windows can hold: a range lies     *)
(* within its family and does not run backwards, whatever the entries of   *)
(* the whitelist.                                                          *)
THEOREM IpRulesTyped == Spec => []TypeOK
<1>1. Inv => TypeOK
  BY DEF Inv
<1>2. QED
  BY <1>1, AlwaysInv, PTL


-----------------------------------------------------------------------------
(* What the rules in Windows do to a packet.                               *)

LEMMA SingleBlocks ==
  ASSUME NEW r \in Rule, NEW x \in Endpoint
  PROVE  AboutProto(r, x)
           <=> \E s \in SinglesOf(r) :
                 /\ s.dir = x.dir /\ s.proto \in {"any", x.proto}
                 /\ Means(r.ip, x)
                 /\ r.ports = {} \/ /\ s.proto # "any"
                                    /\ \E i \in r.ports : Covers(i, x.port)
<1>1. /\ x.proto \in Protocol /\ x.dir \in Direction
      /\ x.dir \in ConcreteDirs(r.dir) <=> (x.dir = r.dir \/ r.dir = "both")
  BY EndpointFacts, AboutDir
<1>2. \A d, p : Single(r, d, p).dir = d /\ Single(r, d, p).proto = p
  BY DEF Single
<1>3. ASSUME AboutProto(r, x)
      PROVE  \E s \in SinglesOf(r) :
               /\ s.dir = x.dir /\ s.proto \in {"any", x.proto}
               /\ Means(r.ip, x)
               /\ r.ports = {} \/ /\ s.proto # "any"
                                  /\ \E i \in r.ports : Covers(i, x.port)
  <2> DEFINE p == IF r.proto = "any" /\ r.ports # {} THEN x.proto ELSE r.proto
             s == Single(r, x.dir, p)
  <2>1. /\ About(r, x) /\ r.proto \in {"any", x.proto}
        /\ x.dir \in ConcreteDirs(r.dir) /\ Means(r.ip, x)
        /\ r.ports = {} \/ \E i \in r.ports : Covers(i, x.port)
    BY <1>1, <1>3 DEF AboutProto, About
  <2>2. p \in ConcreteProtos(r.proto, r.ports)
    BY <1>1 DEF ConcreteProtos
  <2>3. s \in SinglesOf(r)
    BY <2>1, <2>2 DEF SinglesOf
  <2>4. p \in {"any", x.proto} /\ (r.ports # {} => p # "any")
    BY <1>1, <2>1 DEF Protocol
  <2>5. QED
    BY <1>2, <2>1, <2>3, <2>4
<1>4. ASSUME NEW s \in SinglesOf(r),
             s.dir = x.dir, s.proto \in {"any", x.proto}, Means(r.ip, x),
             r.ports = {} \/ \E i \in r.ports : Covers(i, x.port)
      PROVE  AboutProto(r, x)
  <2>1. s.dir \in ConcreteDirs(r.dir) /\ s.proto \in ConcreteProtos(r.proto, r.ports)
    BY <1>2 DEF SinglesOf
  <2>2. r.proto \in {"any", x.proto}
    BY <1>4, <2>1 DEF ConcreteProtos, Protocol
  <2>3. QED
    BY <1>1, <1>4, <2>1, <2>2 DEF AboutProto, About
<1>5. QED
  BY <1>3, <1>4

LEMMA BlockedMeans ==
  ASSUME NEW e, NEW x \in Endpoint,
         rules \in SUBSET Rule, IsFiniteSet(rules),
         single = SinglesFor(rules), white = WhitesFor(rules)
  PROVE  Blocked(e, x)
           <=> /\ e \in ValidExe
               /\ \/ \E r \in BlockOf(e) : AboutProto(r, x)
                  \/ \E d \in Direction :
                       \E b \in Elements(Filters(d, AllowOf(e, rules))) : Stops(b, x)
<1> DEFINE BySingle ==
             \E s \in single : /\ s.rule.exe = e /\ s.rule.action = "block"
                               /\ s.dir = x.dir /\ s.proto \in {"any", x.proto}
                               /\ Means(s.rule.ip, x)
                               /\ s.rule.ports = {}
                                    \/ /\ s.proto # "any"
                                       /\ \E i \in s.rule.ports : Covers(i, x.port)
           ByWhite == \E w \in white : w.exe = e /\ Stops(w, x)
<1>1. Blocked(e, x) <=> BySingle \/ ByWhite
  BY DEF Blocked, Stops, Admits
<1>2. BySingle <=> e \in ValidExe /\ \E r \in BlockOf(e) : AboutProto(r, x)
  <2>1. ASSUME BySingle
        PROVE  e \in ValidExe /\ \E r \in BlockOf(e) : AboutProto(r, x)
    <3>1. PICK s \in single :
            /\ s.rule.exe = e /\ s.rule.action = "block"
            /\ s.dir = x.dir /\ s.proto \in {"any", x.proto}
            /\ Means(s.rule.ip, x)
            /\ s.rule.ports = {} \/ /\ s.proto # "any"
                                    /\ \E i \in s.rule.ports : Covers(i, x.port)
      BY <2>1
    <3>2. s.rule \in rules /\ s.rule \in Rule /\ s.rule.exe \in ValidExe /\ s \in SinglesOf(s.rule)
      BY DEF SinglesFor
    <3>3. AboutProto(s.rule, x)
      BY <3>1, <3>2, SingleBlocks
    <3>4. QED
      BY <3>1, <3>2, <3>3 DEF BlockOf
  <2>2. ASSUME e \in ValidExe, NEW r \in BlockOf(e), AboutProto(r, x)
        PROVE  BySingle
    <3>1. r \in rules /\ r \in Rule /\ r.exe = e /\ r.action = "block"
      BY DEF BlockOf
    <3>2. PICK s \in SinglesOf(r) :
            /\ s.dir = x.dir /\ s.proto \in {"any", x.proto}
            /\ Means(r.ip, x)
            /\ r.ports = {} \/ /\ s.proto # "any"
                               /\ \E i \in r.ports : Covers(i, x.port)
      BY <2>2, <3>1, SingleBlocks
    <3>3. s \in SingleRule /\ s.rule = r
      BY <3>1, SinglesFacts
    <3>4. s \in single
      BY <2>2, <3>1, <3>3 DEF SinglesFor
    <3>5. QED
      BY <3>1, <3>2, <3>3, <3>4
  <2>3. QED
    BY <2>1, <2>2
<1>3. ByWhite
        <=> /\ e \in ValidExe
            /\ \E d \in Direction :
                 \E b \in Elements(Filters(d, AllowOf(e, rules))) : Stops(b, x)
  <2>1. \A w : w \in white <=> \E g \in ValidExe : w \in WhiteOf(g, rules)
    BY WhitesForFacts
  <2>2. \A g \in ValidExe : \A w \in WhiteOf(g, rules) : w.exe = g
    BY WhiteFacts
  <2>3. ByWhite <=> e \in ValidExe /\ \E w \in WhiteOf(e, rules) : Stops(w, x)
    BY <2>1, <2>2
  <2>4. e \in ValidExe =>
          ((\E w \in WhiteOf(e, rules) : Stops(w, x))
             <=> \E d \in Direction :
                   \E b \in Elements(Filters(d, AllowOf(e, rules))) : Stops(b, x))
    BY WhiteFacts
  <2> HIDE DEF ByWhite
  <2>5. QED
    BY <2>3, <2>4
<1> HIDE DEF BySingle, ByWhite
<1>4. QED
  BY <1>1, <1>2, <1>3

LEMMA InForceFacts ==
  ASSUME Inv, InForce
  PROVE  /\ rules \in SUBSET Rule /\ IsFiniteSet(rules)
         /\ single = SinglesFor(rules) /\ white = WhitesFor(rules)
BY AtRestFollows DEF InForce, Inv, TypeOK

LEMMA AllowOfFacts ==
  ASSUME NEW e, NEW R \in SUBSET Rule, IsFiniteSet(R)
  PROVE  AllowOf(e, R) \in SUBSET Rule /\ IsFiniteSet(AllowOf(e, R))
BY FS_Subset DEF AllowOf

(* Between handlers a program with allow rules reaches nothing else, and   *)
(* what a block rule names is blocked: for every list of rules, every      *)
(* meaning of the texts, and every history of edits, kills and restarts    *)
(* (add_ip_rule, remove_ip_rule, set_whitelist, apply_settings).           *)
THEOREM NothingLeaks == Spec => []NoLeak
<1>1. Inv => NoLeak
  <2> SUFFICES ASSUME Inv, InForce, NEW e \in ValidExe, NEW x \in Endpoint,
                      \/ \E r \in BlockOf(e) : AboutProto(r, x)
                      \/ Restricted(e, x.dir) /\ ~\E r \in AllowOf(e, rules) : About(r, x)
               PROVE  Blocked(e, x)
    BY DEF NoLeak
  <2> DEFINE entries == AllowOf(e, rules)
  <2>1. /\ rules \in SUBSET Rule /\ IsFiniteSet(rules)
        /\ single = SinglesFor(rules) /\ white = WhitesFor(rules)
    BY InForceFacts
  <2>2. entries \in SUBSET Rule /\ IsFiniteSet(entries)
    BY <2>1, AllowOfFacts
  <2>3. CASE \E r \in BlockOf(e) : AboutProto(r, x)
    BY <2>1, <2>3, BlockedMeans
  <2>4. CASE Restricted(e, x.dir) /\ ~\E r \in entries : About(r, x)
    <3>1. \E r \in entries : x.dir \in ConcreteDirs(r.dir)
      BY <2>4 DEF Restricted
    <3> HIDE DEF entries
    <3>2. \E b \in Elements(Filters(x.dir, entries)) : Stops(b, x)
      BY <2>2, <2>4, <3>1, FiltersStop
    <3>3. x.dir \in Direction
      BY EndpointFacts
    <3>4. QED
      BY <2>1, <3>2, <3>3, BlockedMeans DEF entries
  <2>5. QED
    BY <2>3, <2>4
<1>2. QED
  BY <1>1, AlwaysInv, PTL

(* ... and what it is allowed, and every other program, stays open.        *)
THEOREM NothingElseIsBlocked == Spec => []NoOverblock
<1>1. Inv => NoOverblock
  <2> SUFFICES ASSUME Inv, InForce, NEW e \in Exe, NEW x \in Endpoint, Apart(e), Blocked(e, x)
               PROVE  \/ \E r \in BlockOf(e) : AboutProto(r, x)
                      \/ Restricted(e, x.dir) /\ ~\E r \in AllowOf(e, rules) : About(r, x)
    BY DEF NoOverblock
  <2> DEFINE entries == AllowOf(e, rules)
  <2>1. /\ rules \in SUBSET Rule /\ IsFiniteSet(rules)
        /\ single = SinglesFor(rules) /\ white = WhitesFor(rules)
    BY InForceFacts
  <2>2. entries \in SUBSET Rule /\ IsFiniteSet(entries)
    BY <2>1, AllowOfFacts
  <2>3. \/ \E r \in BlockOf(e) : AboutProto(r, x)
        \/ \E d \in Direction : \E b \in Elements(Filters(d, entries)) : Stops(b, x)
    BY <2>1, BlockedMeans
  <2>4. \A r, s \in entries :
          /\ r.ip # AnyIp
          /\ r.ip = s.ip \/ ~(Means(r.ip, x) /\ Means(s.ip, x))
    BY DEF Apart
  <2>5. ASSUME NEW d \in Direction, NEW b \in Elements(Filters(d, entries)), Stops(b, x)
        PROVE  Restricted(e, x.dir) /\ ~\E r \in entries : About(r, x)
    <3> HIDE DEF entries
    <3>1. /\ x.dir = d
          /\ \E r \in entries : d \in ConcreteDirs(r.dir)
          /\ ~\E r \in entries : About(r, x)
      BY <2>2, <2>4, <2>5, FiltersSpare
    <3>2. QED
      BY <3>1 DEF Restricted, entries
  <2>6. QED
    BY <2>3, <2>5
<1>2. QED
  BY <1>1, AlwaysInv, PTL
=============================================================================
