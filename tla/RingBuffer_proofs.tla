------------------------- MODULE RingBuffer_proofs -------------------------
(***************************************************************************)
(* Proofs about the ring buffer of a CPU: for every size of the buffer,    *)
(* every width of an int that holds two buffers, all call-chains and all   *)
(* that the kernel writes, Behind, Framed, LatencyOwn and Delivered hold.  *)
(***************************************************************************)
EXTENDS RingBuffer, SequenceTheorems, TLAPS

LEMMA Consts ==
  /\ Size \in Nat \ {0} /\ IpNum \in Nat \ {0} /\ NEvents \in Nat \ {0}
  /\ HalfInt \in Nat \ {0} /\ HalfInt >= 2 * Size
  /\ 2 * HalfInt \in Nat \ {0}
  /\ Bases \subseteq Nat /\ Chains \subseteq Seq({"user", "kernel"})
  /\ MaxWords \in Nat
BY RingBufferAssumption

USE Consts

-----------------------------------------------------------------------------
(* Positions, their places in the buffer, and what an int keeps of them.   *)

LEMMA DivMod ==
  ASSUME NEW a \in Int, NEW h \in Nat \ {0}
  PROVE  /\ a \div h \in Int /\ a % h \in Int
         /\ a = h * (a \div h) + (a % h)
         /\ 0 <= a % h /\ a % h < h
OBVIOUS

\* A multiple of h that is nearer to 0 than h is 0.
LEMMA NoMultiple ==
  ASSUME NEW h \in Nat \ {0}, NEW z \in Int, h * z < h, h * z > -h
  PROVE  z = 0
<1>1. CASE z >= 1
  <2>1. h * z >= h
    BY <1>1
  <2>2. QED
    BY <2>1
<1>2. CASE z <= -1
  <2>1. h * z <= -h
    BY <1>2
  <2>2. QED
    BY <2>1
<1>3. QED
  BY <1>1, <1>2

\* The remainder is known by what it leaves.
LEMMA ModUnique ==
  ASSUME NEW a \in Int, NEW h \in Nat \ {0}, NEW q \in Int, NEW r \in Int,
         a = h * q + r, 0 <= r, r < h
  PROVE  a % h = r
<1>1. PICK p \in Int : p = a \div h
  BY DivMod
<1>2. PICK s \in Int : s = a % h
  BY DivMod
<1>3. a = h * p + s /\ 0 <= s /\ s < h
  BY <1>1, <1>2, DivMod
<1>4. h * (q - p) = h * q - h * p /\ h * q \in Int /\ h * p \in Int
  OBVIOUS
<1>5. h * (q - p) < h /\ h * (q - p) > -h
  BY <1>3, <1>4
<1>6. q - p = 0
  BY <1>5, NoMultiple
<1>7. QED
  BY <1>2, <1>3, <1>6

\* Two positions at the same place are a buffer apart.
LEMMA SamePlace ==
  ASSUME NEW a \in Int, NEW b \in Int, NEW h \in Nat \ {0},
         a % h = b % h, b < a
  PROVE  a - b >= h
<1>1. PICK p \in Int : p = a \div h
  BY DivMod
<1>2. PICK q \in Int : q = b \div h
  BY DivMod
<1>3. PICK s \in Int : s = a % h
  BY DivMod
<1>4. a = h * p + s /\ b = h * q + s
  BY <1>1, <1>2, <1>3, DivMod
<1>5. h * (p - q) = h * p - h * q /\ h * p \in Int /\ h * q \in Int
  OBVIOUS
<1>6. a - b = h * (p - q)
  BY <1>4, <1>5
<1>7. p - q # 0
  BY <1>6
<1>8. ~(h * (p - q) < h /\ h * (p - q) > -h)
  BY <1>7, NoMultiple
<1>9. QED
  BY <1>6, <1>8

\* Reading: an int has x less a multiple of its range.
LEMMA ToIntOf ==
  ASSUME NEW x \in Int
  PROVE  /\ ToInt(x) \in Int /\ -HalfInt <= ToInt(x) /\ ToInt(x) < HalfInt
         /\ \E k \in Int : x = (2 * HalfInt) * k + ToInt(x)
<1>1. 2 * HalfInt \in Nat \ {0} /\ x + HalfInt \in Int /\ HalfInt \in Nat
  OBVIOUS
<1>2. PICK k \in Int : k = (x + HalfInt) \div (2 * HalfInt)
  BY <1>1, DivMod
<1>3. PICK r \in Int : r = (x + HalfInt) % (2 * HalfInt)
  BY <1>1, DivMod
<1>4. x + HalfInt = (2 * HalfInt) * k + r /\ 0 <= r /\ r < 2 * HalfInt
  BY <1>1, <1>2, <1>3, DivMod
<1>5. ToInt(x) = r - HalfInt
  BY <1>3 DEF ToInt
<1>6. PICK y \in Int : y = (2 * HalfInt) * k
  BY <1>1
<1>7. x = y + ToInt(x)
  BY <1>1, <1>4, <1>5, <1>6
<1>8. x = (2 * HalfInt) * k + ToInt(x)
  BY <1>6, <1>7
<1>9. QED
  BY <1>1, <1>4, <1>5, <1>8

\* And it is the only such number in that range.
LEMMA ToIntUnique ==
  ASSUME NEW x \in Int, NEW k \in Int, NEW y \in Int,
         x = (2 * HalfInt) * k + y, -HalfInt <= y, y < HalfInt
  PROVE  ToInt(x) = y
<1>1. 2 * HalfInt \in Nat \ {0} /\ HalfInt \in Nat
  OBVIOUS
<1>2. PICK z \in Int : z = (2 * HalfInt) * k
  BY <1>1
<1>3. /\ x + HalfInt \in Int /\ y + HalfInt \in Int
      /\ 0 <= y + HalfInt /\ y + HalfInt < 2 * HalfInt
  BY <1>1
<1>4. x + HalfInt = (2 * HalfInt) * k + (y + HalfInt)
  BY <1>1, <1>2
<1>5. PICK m \in Nat \ {0} : m = 2 * HalfInt
  BY <1>1
<1>6. (x + HalfInt) % m = y + HalfInt
  <2>1. PICK a \in Int : a = x + HalfInt
    BY <1>3
  <2>2. PICK r \in Int : r = y + HalfInt
    BY <1>3
  <2>3. a = m * k + r /\ 0 <= r /\ r < m
    BY <1>3, <1>4, <1>5, <2>1, <2>2
  <2>4. a % m = r
    BY <2>3, ModUnique
  <2>5. QED
    BY <2>1, <2>2, <2>4
<1>7. (x + HalfInt) % (2 * HalfInt) = y + HalfInt
  BY <1>5, <1>6
<1>8. QED
  BY <1>1, <1>7 DEF ToInt

\* A step of less than the range adds to the int, or wraps it once.
LEMMA ToIntStep ==
  ASSUME NEW x \in Int, NEW e \in Nat, e < 2 * HalfInt
  PROVE  \/ ToInt(x + e) = ToInt(x) + e
         \/ ToInt(x + e) = ToInt(x) + e - 2 * HalfInt
<1>0. 2 * HalfInt \in Nat \ {0} /\ HalfInt \in Nat
  OBVIOUS
<1>1. PICK d \in Int : d = ToInt(x) /\ -HalfInt <= d /\ d < HalfInt
  BY ToIntOf
<1>2. PICK k \in Int : x = (2 * HalfInt) * k + d
  BY <1>1, ToIntOf
<1>3. PICK z \in Int : z = (2 * HalfInt) * k
  BY <1>0
<1>4. CASE d + e < HalfInt
  <2>1. x + e = (2 * HalfInt) * k + (d + e)
    BY <1>2, <1>3
  <2>2. /\ x + e \in Int /\ d + e \in Int /\ -HalfInt <= d + e
    BY <1>0, <1>1
  <2>3. ToInt(x + e) = d + e
    BY <1>4, <2>1, <2>2, ToIntUnique
  <2>4. QED
    BY <1>1, <2>3
<1>5. CASE d + e >= HalfInt
  <2>0. PICK y \in Int : y = d + e - 2 * HalfInt
    BY <1>0
  <2>1. (2 * HalfInt) * (k + 1) = (2 * HalfInt) * k + 2 * HalfInt
    BY <1>0
  <2>2. x + e = (2 * HalfInt) * (k + 1) + y
    BY <1>0, <1>2, <1>3, <2>0, <2>1
  <2>3. x + e \in Int /\ k + 1 \in Int /\ -HalfInt <= y /\ y < HalfInt
    BY <1>0, <1>1, <1>5, <2>0
  <2>4. ToInt(x + e) = y
    BY <2>2, <2>3, ToIntUnique
  <2>5. QED
    BY <1>1, <2>0, <2>4
<1>6. QED
  BY <1>0, <1>1, <1>4, <1>5

\* The distance of two positions survives the int, if it is in its range.
LEMMA ToIntDistance ==
  ASSUME NEW t \in Int, NEW d \in Int, d - t < HalfInt, t - d <= HalfInt
  PROVE  ToInt(ToInt(d) - t) = d - t
<1>0. 2 * HalfInt \in Nat \ {0} /\ HalfInt \in Nat
  OBVIOUS
<1>1. PICK i \in Int : i = ToInt(d)
  BY ToIntOf
<1>2. PICK k \in Int : d = (2 * HalfInt) * k + i
  BY <1>1, ToIntOf
<1>3. PICK z \in Int : z = (2 * HalfInt) * k
  BY <1>0
<1>4. (2 * HalfInt) * (-k) = -z
  BY <1>0, <1>3
<1>5. PICK y \in Int : y = d - t
  OBVIOUS
<1>6. i - t = (2 * HalfInt) * (-k) + y
  BY <1>2, <1>3, <1>4, <1>5
<1>7. i - t \in Int /\ -k \in Int /\ -HalfInt <= y /\ y < HalfInt
  BY <1>0, <1>5
<1>8. ToInt(i - t) = y
  BY <1>6, <1>7, ToIntUnique
<1>9. QED
  BY <1>1, <1>5, <1>8

-----------------------------------------------------------------------------
(* Reading and skipping.                                                   *)

\* Where a skip of at most a buffer may end: at the end of what is skipped or
\* at the head, and past the head only where an int becomes negative.
SkipEnds(t, n, s) ==
  /\ s \in Int
  /\ s = t + n \/ s = DataHead
  /\ t <= s /\ DataHead - s < Size
  /\ t + n <= DataHead => s <= DataHead
  /\ \/ s <= DataHead
     \/ s = t + n /\ s - DataHead <= Size /\ ToInt(s) < Size - HalfInt

LEMMA SkipTo ==
  ASSUME NEW t \in Int, NEW n \in Nat, DataHead \in Int,
         t <= DataHead, DataHead - t < Size, n <= Size
  PROVE  SkipEnds(t, n, Skipped(t, n))
<1>0. Size \in Nat \ {0} /\ HalfInt \in Nat /\ HalfInt >= 2 * Size
  OBVIOUS
<1>1. PICK d \in Int : d = DataHead
  OBVIOUS
<1>2. PICK u \in Int : u = t + n
  OBVIOUS
<1>3. ToInt(d) \in Int /\ ToInt(u) \in Int
  BY ToIntOf
<1>4. Skipped(t, n) = IF ToInt(u) > ToInt(d) THEN t + ToInt(ToInt(d) - t) ELSE u
  BY <1>1, <1>2 DEF Skipped
<1>5. CASE ToInt(u) > ToInt(d)
  <2>1. ToInt(ToInt(d) - t) = d - t
    BY <1>0, <1>1, ToIntDistance
  <2>2. Skipped(t, n) = d
    BY <1>1, <1>4, <1>5, <2>1
  <2>3. QED
    BY <1>0, <1>1, <2>2 DEF SkipEnds
<1>6. CASE ~(ToInt(u) > ToInt(d))
  <2>1. Skipped(t, n) = u
    BY <1>4, <1>6
  <2>2. CASE u <= d
    BY <1>0, <1>1, <1>2, <2>1, <2>2 DEF SkipEnds
  <2>3. CASE u > d
    <3>1. PICK e \in Nat : e = u - d
      BY <2>3
    <3>2. e <= Size /\ e < 2 * HalfInt /\ e > 0
      BY <1>0, <1>1, <1>2, <2>3, <3>1
    <3>3. u = d + e
      BY <3>1
    <3>4. ToInt(d + e) = ToInt(d) + e \/ ToInt(d + e) = ToInt(d) + e - 2 * HalfInt
      BY <3>2, ToIntStep
    <3>5. ToInt(d) < HalfInt
      BY ToIntOf
    <3>6. ToInt(u) = ToInt(d) + e - 2 * HalfInt
      BY <1>0, <1>3, <1>6, <3>2, <3>3, <3>4
    <3>7. ToInt(u) < Size - HalfInt
      BY <1>0, <1>3, <3>2, <3>5, <3>6
    <3>8. QED
      BY <1>0, <1>1, <1>2, <2>1, <2>3, <3>1, <3>2, <3>7 DEF SkipEnds
  <2>4. QED
    BY <2>2, <2>3
<1>7. QED
  BY <1>3, <1>5, <1>6

\* What is read at a position that has not been overwritten is its word.
LEMMA AtOf ==
  ASSUME NEW t \in Int, base \in Int, DataHead \in Int,
         base <= t, t < DataHead, DataHead - t < Size
  PROVE  At(t) = log[t + 1 - base]
<1> DEFINE P == {p \in (base + 1)..DataHead : (p - 1) % Size = t % Size}
<1>0. Size \in Nat \ {0}
  OBVIOUS
<1>1. t + 1 \in P
  <2>1. (t + 1) - 1 = t /\ t + 1 \in (base + 1)..DataHead
    OBVIOUS
  <2>2. QED
    BY <2>1
<1>2. \A q \in P : q <= t + 1
  <2>1. SUFFICES ASSUME NEW q \in P, q > t + 1 PROVE FALSE
    OBVIOUS
  <2>2. q \in Int /\ q <= DataHead
    OBVIOUS
  <2>3. PICK r \in Int : r = q - 1
    BY <2>2
  <2>4. r % Size = t % Size /\ t < r
    BY <2>1, <2>2, <2>3
  <2>5. r - t >= Size
    BY <1>0, <2>4, SamePlace
  <2>6. QED
    BY <1>0, <2>2, <2>3, <2>5
<1>3. \A p \in P : (\A q \in P : q <= p) => p = t + 1
  <2>1. SUFFICES ASSUME NEW p \in P, \A q \in P : q <= p PROVE p = t + 1
    OBVIOUS
  <2>2. p \in Int
    OBVIOUS
  <2> HIDE DEF P
  <2>3. p <= t + 1 /\ t + 1 <= p
    BY <1>1, <1>2, <2>1
  <2>4. QED
    BY <2>2, <2>3
<1> HIDE DEF P
<1>4. P # {} /\ (CHOOSE p \in P : \A q \in P : q <= p) = t + 1
  BY <1>1, <1>2, <1>3
<1>5. At(t) = AtPos(t + 1)
  BY <1>4 DEF At, P
<1>6. QED
  BY <1>5 DEF AtPos

-----------------------------------------------------------------------------
(* What the kernel writes.                                                 *)

Modes == {"profiling", "ll"}
BodyField == {"id", "nr", "enabled", "running", "value", "nips", "user",
              "kernel", "addr", "cpu", "weight", "src", "body"}
WhoType == {"user", "idle", "gone"}
WordType == [field: BodyField \union {"sample", "other"}, n: Nat,
             who: WhoType, rec: Nat]
IsHead(w) == w.field \in {"sample", "other"}

\* The field that says how long the call-chain is, and what follows that.
NipsAt == IF mode = "ll" THEN 4 ELSE NEvents + 5
AfterLen == IF mode = "ll" THEN 2 ELSE 0

\* The sample whose header is the h-th word of s has a call-chain of l.
Laid(s, h, l) ==
  /\ s[h].n = NipsAt + l + AfterLen
  /\ s[h + NipsAt].field = "nips" /\ s[h + NipsAt].n = l
  /\ mode = "profiling" => s[h + 2].n = NEvents
  /\ mode = "ll" => s[h + l + 5].field = "weight" /\ s[h + l + 6].field = "src"

\* What is a record for the reader: whole, of one process, another after it.
Record(s, h) ==
  /\ s[h].n \in 1..(Size - 1) /\ h + s[h].n <= Len(s)
  /\ \A q \in (h + 1)..(h + s[h].n) :
       ~IsHead(s[q]) /\ s[q].rec = s[h].rec /\ s[q].who = s[h].who
  /\ h + s[h].n < Len(s) => IsHead(s[h + s[h].n + 1])
  /\ s[h].field = "sample" => \E l \in Nat : Laid(s, h, l)

Records(s) ==
  /\ s # <<>> => IsHead(s[1])
  /\ \A h \in 1..Len(s) : IsHead(s[h]) => Record(s, h)

\* Records are numbered as they are written.
Numbered(s) ==
  \A p, q \in 1..Len(s) :
    p <= q => /\ s[p].rec <= s[q].rec
              /\ p < q /\ IsHead(s[q]) => s[p].rec < s[q].rec

\* The words of one record, alone.
NewRecord(s, i) ==
  /\ s \in Seq(WordType) /\ Len(s) >= 2 /\ Len(s) <= Size
  /\ IsHead(s[1]) /\ s[1].n = Len(s) - 1 /\ s[1].rec = i
  /\ \A q \in 2..Len(s) : ~IsHead(s[q]) /\ s[q].rec = i /\ s[q].who = s[1].who
  /\ s[1].field = "sample" => \E l \in Nat : Laid(s, 1, l)

\* One sequence after another.
JoinOf(S, c, a, b) ==
  /\ c \in Seq(S) /\ Len(c) = Len(a) + Len(b)
  /\ \A i \in 1..Len(a) : c[i] = a[i]
  /\ \A i \in 1..Len(b) : c[Len(a) + i] = b[i]

LEMMA Joined ==
  ASSUME NEW S, NEW a \in Seq(S), NEW b \in Seq(S), NEW c, c = a \o b
  PROVE  JoinOf(S, c, a, b)
<1>1. Len(a) \in Nat /\ Len(b) \in Nat
  BY LenProperties
<1>2. a \o b \in Seq(S) /\ Len(a \o b) = Len(a) + Len(b)
  BY ConcatProperties
<1>3. \A i \in 1..Len(a) + Len(b) :
        (a \o b)[i] = IF i <= Len(a) THEN a[i] ELSE b[i - Len(a)]
  BY ConcatProperties
<1>4. \A i \in 1..Len(a) : c[i] = a[i]
  BY <1>1, <1>3
<1>5. ASSUME NEW i \in 1..Len(b) PROVE c[Len(a) + i] = b[i]
  <2>1. Len(a) + i \in 1..Len(a) + Len(b) /\ ~(Len(a) + i <= Len(a))
        /\ (Len(a) + i) - Len(a) = i
    BY <1>1
  <2>2. QED
    BY <1>3, <2>1
<1>6. QED
  BY <1>2, <1>4, <1>5 DEF JoinOf

\* The fields of a sample: how many, and where those are that say how many.
LEMMA FieldsOf ==
  ASSUME mode \in Modes, NEW c \in Seq({"user", "kernel"}),
         NEW fs, fs = Fields(mode, c)
  PROVE  /\ fs \in Seq(BodyField)
         /\ Len(fs) = NipsAt + Len(c) + AfterLen
         /\ fs[NipsAt] = "nips"
         /\ mode = "profiling" => fs[2] = "nr"
         /\ mode = "ll" => fs[Len(c) + 5] = "weight" /\ fs[Len(c) + 6] = "src"
<1>0. c \in Seq(BodyField) /\ Len(c) \in Nat
  <2>1. {"user", "kernel"} \subseteq BodyField
    BY DEF BodyField
  <2>2. QED
    BY <2>1, SeqMonotonic, LenProperties
<1>1. CASE mode = "profiling"
  <2> DEFINE a == <<"id", "nr", "enabled", "running">>
             v == [i \in 1..NEvents |-> "value"]
             n == <<"nips">>
  <2>1. a \in Seq(BodyField) /\ Len(a) = 4 /\ a[2] = "nr"
    BY DEF BodyField
  <2>2. v \in Seq(BodyField) /\ Len(v) = NEvents
    BY DEF BodyField
  <2>3. n \in Seq(BodyField) /\ Len(n) = 1 /\ n[1] = "nips"
    BY DEF BodyField
  <2>4. fs = a \o v \o n \o c
    BY <1>1 DEF Fields
  <2> HIDE DEF a, v, n
  <2>5. PICK av : av = a \o v
    OBVIOUS
  <2>6. av \in Seq(BodyField) /\ Len(av) = NEvents + 4 /\ av[2] = "nr"
    <3>1. JoinOf(BodyField, av, a, v)
      BY <2>1, <2>2, <2>5, Joined, Zenon
    <3>2. 2 \in 1..Len(a)
      BY <2>1
    <3>3. QED
      BY <2>1, <2>2, <3>1, <3>2 DEF JoinOf
  <2>7. PICK avn : avn = av \o n
    OBVIOUS
  <2>8. /\ avn \in Seq(BodyField) /\ Len(avn) = NEvents + 5
        /\ avn[2] = "nr" /\ avn[NEvents + 5] = "nips"
    <3>1. JoinOf(BodyField, avn, av, n)
      BY <2>3, <2>6, <2>7, Joined, Zenon
    <3>2. 1 \in 1..Len(n) /\ 2 \in 1..Len(av)
      BY <2>3, <2>6
    <3>3. QED
      BY <2>3, <2>6, <3>1, <3>2 DEF JoinOf
  <2>9. JoinOf(BodyField, fs, avn, c)
    BY <1>0, <2>4, <2>5, <2>7, <2>8, Joined, Zenon
  <2>10. fs[2] = avn[2] /\ fs[NEvents + 5] = avn[NEvents + 5]
    BY <2>8, <2>9 DEF JoinOf
  <2>11. QED
    BY <1>0, <1>1, <2>8, <2>9, <2>10 DEF NipsAt, AfterLen, JoinOf
<1>2. CASE mode = "ll"
  <2> DEFINE a == <<"id", "addr", "cpu", "nips">>
             z == <<"weight", "src">>
  <2>1. a \in Seq(BodyField) /\ Len(a) = 4 /\ a[4] = "nips"
    BY DEF BodyField
  <2>2. z \in Seq(BodyField) /\ Len(z) = 2 /\ z[1] = "weight" /\ z[2] = "src"
    BY DEF BodyField
  <2>3. fs = a \o c \o z
    BY <1>2 DEF Fields
  <2> HIDE DEF a, z
  <2>4. PICK ac : ac = a \o c
    OBVIOUS
  <2>5. ac \in Seq(BodyField) /\ Len(ac) = 4 + Len(c) /\ ac[4] = "nips"
    <3>1. JoinOf(BodyField, ac, a, c)
      BY <1>0, <2>1, <2>4, Joined, Zenon
    <3>2. 4 \in 1..Len(a)
      BY <2>1
    <3>3. QED
      BY <1>0, <2>1, <3>1, <3>2 DEF JoinOf
  <2>6. JoinOf(BodyField, fs, ac, z)
    BY <2>2, <2>3, <2>4, <2>5, Joined, Zenon
  <2>7. fs[4] = "nips" /\ fs[Len(c) + 5] = "weight" /\ fs[Len(c) + 6] = "src"
    <3>1. 4 \in 1..Len(ac) /\ 1 \in 1..Len(z) /\ 2 \in 1..Len(z)
      BY <1>0, <2>2, <2>5
    <3>2. Len(ac) + 1 = Len(c) + 5 /\ Len(ac) + 2 = Len(c) + 6
      BY <1>0, <2>5
    <3>3. QED
      BY <2>2, <2>5, <2>6, <3>1, <3>2 DEF JoinOf
  <2>8. QED
    BY <1>0, <1>2, <2>2, <2>5, <2>6, <2>7 DEF NipsAt, AfterLen, JoinOf
<1>3. QED
  BY <1>1, <1>2 DEF Modes

LEMMA SampleWritten ==
  ASSUME mode \in Modes, NEW i \in Nat, NEW w \in WhoType, NEW c \in Chains,
         NEW s, s = Sample(i, w, c), Len(s) <= Size
  PROVE  NewRecord(s, i)
<1>0. c \in Seq({"user", "kernel"}) /\ Len(c) \in Nat
  BY LenProperties
<1>1. PICK fs : fs = Fields(mode, c)
  OBVIOUS
<1>2. /\ fs \in Seq(BodyField)
      /\ Len(fs) = NipsAt + Len(c) + AfterLen
      /\ fs[NipsAt] = "nips"
      /\ mode = "profiling" => fs[2] = "nr"
      /\ mode = "ll" => fs[Len(c) + 5] = "weight" /\ fs[Len(c) + 6] = "src"
  BY <1>0, <1>1, FieldsOf
<1> DEFINE len(k) == CASE fs[k] = "nr" -> NEvents
                       [] fs[k] = "nips" -> Len(c)
                       [] OTHER -> 0
           b == [k \in 1..Len(fs) |-> Word(fs[k], len(k), w, i)]
           h == <<Word("sample", Len(fs), w, i)>>
<1>3. s = h \o b
  BY <1>1 DEF Sample
<1>4. Len(fs) \in Nat
  BY <1>2, LenProperties
<1>5. \A k \in 1..Len(fs) : fs[k] \in BodyField /\ fs[k] \notin {"sample", "other"}
  <2>1. \A k \in 1..Len(fs) : fs[k] \in BodyField
    BY <1>2, ElementOfSeq
  <2>2. QED
    BY <2>1 DEF BodyField
<1>6. \A k \in 1..Len(fs) : len(k) \in Nat
  BY <1>0
<1>7. \A k \in 1..Len(fs) : b[k] \in WordType
  BY <1>5, <1>6 DEF Word, WordType
<1>8. b \in Seq(WordType) /\ Len(b) = Len(fs)
  BY <1>4, <1>7
<1>9. h \in Seq(WordType) /\ Len(h) = 1 /\ h[1] = Word("sample", Len(fs), w, i)
  <2>1. Word("sample", Len(fs), w, i) \in WordType
    BY <1>4 DEF Word, WordType
  <2>2. QED
    BY <2>1
<1>10. \A k \in 1..Len(fs) : b[k] = Word(fs[k], len(k), w, i)
  OBVIOUS
<1>11. fs[NipsAt] = "nips" => len(NipsAt) = Len(c)
  OBVIOUS
<1>12. mode = "profiling" => len(2) = NEvents
  BY <1>2
<1> HIDE DEF b, h, len
<1>13. JoinOf(WordType, s, h, b)
  BY <1>3, <1>8, <1>9, Joined, Zenon
<1>14. s \in Seq(WordType) /\ s[1] = Word("sample", Len(fs), w, i) /\ Len(s) = Len(fs) + 1
  BY <1>4, <1>8, <1>9, <1>13 DEF JoinOf
<1>15. \A k \in 1..Len(fs) : s[k + 1] = Word(fs[k], len(k), w, i)
  <2>1. TAKE k \in 1..Len(fs)
  <2>2. Len(h) + k = k + 1
    BY <1>4, <1>9
  <2>3. s[k + 1] = b[k]
    BY <1>8, <1>13, <2>2 DEF JoinOf
  <2>4. QED
    BY <1>10, <2>3
<1>16. NipsAt \in 1..Len(fs) /\ (mode = "profiling" => 2 \in 1..Len(fs))
  BY <1>0, <1>2 DEF NipsAt, AfterLen, Modes
<1>17. Laid(s, 1, Len(c))
  <2>1. s[1].n = NipsAt + Len(c) + AfterLen
    BY <1>2, <1>14 DEF Word
  <2>2. s[1 + NipsAt].field = "nips" /\ s[1 + NipsAt].n = Len(c)
    <3>1. s[NipsAt + 1] = Word("nips", Len(c), w, i)
      BY <1>2, <1>11, <1>15, <1>16
    <3>2. NipsAt + 1 = 1 + NipsAt
      BY <1>16
    <3>3. QED
      BY <3>1, <3>2 DEF Word
  <2>3. mode = "profiling" => s[1 + 2].n = NEvents
    <3>1. ASSUME mode = "profiling" PROVE s[2 + 1] = Word(fs[2], NEvents, w, i)
      BY <1>12, <1>15, <1>16, <3>1
    <3>2. QED
      BY <3>1 DEF Word
  <2>4. ASSUME mode = "ll"
        PROVE  s[1 + Len(c) + 5].field = "weight" /\ s[1 + Len(c) + 6].field = "src"
    <3>1. Len(c) + 5 \in 1..Len(fs) /\ Len(c) + 6 \in 1..Len(fs)
      BY <1>0, <1>2, <2>4 DEF NipsAt, AfterLen
    <3>2. /\ s[(Len(c) + 5) + 1] = Word("weight", len(Len(c) + 5), w, i)
          /\ s[(Len(c) + 6) + 1] = Word("src", len(Len(c) + 6), w, i)
      BY <1>2, <1>15, <2>4, <3>1
    <3>3. (Len(c) + 5) + 1 = 1 + Len(c) + 5 /\ (Len(c) + 6) + 1 = 1 + Len(c) + 6
      BY <1>0
    <3>4. QED
      BY <3>2, <3>3 DEF Word
  <2>5. QED
    BY <2>1, <2>2, <2>3, <2>4 DEF Laid
<1>18. \A q \in 2..Len(s) : ~IsHead(s[q]) /\ s[q].rec = i /\ s[q].who = s[1].who
  <2>1. TAKE q \in 2..Len(s)
  <2>2. PICK k \in 1..Len(fs) : q = k + 1
    <3>1. q - 1 \in 1..Len(fs) /\ q = (q - 1) + 1
      BY <1>4, <1>14
    <3>2. QED
      BY <3>1
  <2>3. s[q] = Word(fs[k], len(k), w, i)
    BY <1>15, <2>2
  <2>4. QED
    BY <1>5, <1>14, <2>3 DEF Word, IsHead
<1>19. Len(s) >= 2 /\ IsHead(s[1]) /\ s[1].n = Len(s) - 1 /\ s[1].rec = i
  BY <1>4, <1>14, <1>16 DEF Word, IsHead
<1>20. QED
  BY <1>0, <1>14, <1>17, <1>18, <1>19 DEF NewRecord

LEMMA OtherWritten ==
  ASSUME NEW i \in Nat, NEW s, s = Other(i), Len(s) <= Size
  PROVE  NewRecord(s, i)
<1>1. s = <<Word("other", 1, "idle", i), Word("body", 0, "idle", i)>>
  BY DEF Other
<1>2. Word("other", 1, "idle", i) \in WordType /\ Word("body", 0, "idle", i) \in WordType
  BY DEF Word, WordType, BodyField, WhoType
<1>3. s \in Seq(WordType) /\ Len(s) = 2
  BY <1>1, <1>2
<1>4. s[1] = Word("other", 1, "idle", i) /\ s[2] = Word("body", 0, "idle", i)
  BY <1>1
<1>5. IsHead(s[1]) /\ s[1].n = 1 /\ s[1].rec = i /\ s[1].field # "sample"
  BY <1>4 DEF Word, IsHead
<1>6. ~IsHead(s[2]) /\ s[2].rec = i /\ s[2].who = s[1].who
  BY <1>4 DEF Word, IsHead
<1>7. QED
  BY <1>3, <1>5, <1>6 DEF NewRecord

\* A sample is laid out alike wherever it is.
LEMMA LaidMoved ==
  ASSUME mode \in Modes, NEW s, NEW t, NEW h \in Int, NEW g \in Int, NEW l \in Nat,
         s[h].n \in Nat, Laid(s, h, l),
         \A x \in 0..s[h].n : t[g + x] = s[h + x]
  PROVE  Laid(t, g, l)
<1>0. s[h].n = NipsAt + l + AfterLen
  BY DEF Laid
<1>1. t[g] = s[h]
  <2>1. 0 \in 0..s[h].n /\ g + 0 = g /\ h + 0 = h
    OBVIOUS
  <2>2. QED
    BY <2>1
<1>2. t[g + NipsAt] = s[h + NipsAt]
  <2>1. NipsAt \in 0..s[h].n
    BY <1>0 DEF NipsAt, AfterLen, Modes
  <2>2. QED
    BY <2>1
<1>3. mode = "profiling" => t[g + 2] = s[h + 2]
  <2>1. mode = "profiling" => 2 \in 0..s[h].n
    BY <1>0 DEF NipsAt, AfterLen
  <2>2. QED
    BY <2>1
<1>4. ASSUME mode = "ll"
      PROVE  t[g + l + 5] = s[h + l + 5] /\ t[g + l + 6] = s[h + l + 6]
  <2>1. l + 5 \in 0..s[h].n /\ l + 6 \in 0..s[h].n
    BY <1>0, <1>4 DEF NipsAt, AfterLen
  <2>2. /\ g + (l + 5) = g + l + 5 /\ h + (l + 5) = h + l + 5
        /\ g + (l + 6) = g + l + 6 /\ h + (l + 6) = h + l + 6
    OBVIOUS
  <2>3. t[g + (l + 5)] = s[h + (l + 5)] /\ t[g + (l + 6)] = s[h + (l + 6)]
    BY <2>1
  <2>4. QED
    BY <2>2, <2>3
<1>5. QED
  BY <1>1, <1>2, <1>3, <1>4 DEF Laid

\* What a log is after the kernel has added w to s.
Longer(s, w, t) ==
  /\ t \in Seq(WordType) /\ Len(t) = Len(s) + Len(w)
  /\ \A p \in 1..Len(s) : t[p] = s[p]
  /\ IsHead(t[Len(s) + 1])
  /\ Records(t) /\ Numbered(t)

Following(s) == IF s = <<>> THEN 1 ELSE s[Len(s)].rec + 1

LEMMA Grown ==
  ASSUME mode \in Modes, NEW s \in Seq(WordType), Records(s), Numbered(s),
         NEW i \in Nat, i = Following(s),
         NEW w, NewRecord(w, i), NEW t, t = s \o w
  PROVE  Longer(s, w, t)
<1>0. /\ w \in Seq(WordType) /\ Len(w) >= 2 /\ Len(w) <= Size
      /\ IsHead(w[1]) /\ w[1].n = Len(w) - 1 /\ w[1].rec = i
      /\ \A q \in 2..Len(w) : ~IsHead(w[q]) /\ w[q].rec = i /\ w[q].who = w[1].who
      /\ w[1].field = "sample" => \E l \in Nat : Laid(w, 1, l)
  BY DEF NewRecord
<1>1. PICK m \in Nat : m = Len(s)
  BY LenProperties
<1>2. PICK n \in Nat : n = Len(w)
  BY <1>0, LenProperties
<1>3. JoinOf(WordType, t, s, w)
  BY <1>0, Joined, Zenon
<1>4. /\ t \in Seq(WordType) /\ Len(t) = m + n
      /\ \A p \in 1..m : t[p] = s[p]
      /\ \A p \in 1..n : t[m + p] = w[p]
  BY <1>1, <1>2, <1>3 DEF JoinOf
<1>5. n >= 2 /\ n <= Size
  BY <1>0, <1>2
<1>6. t[m + 1] = w[1]
  <2>1. 1 \in 1..n
    BY <1>5
  <2>2. QED
    BY <1>4, <2>1
<1>7. IsHead(t[m + 1])
  BY <1>0, <1>6
<1>8. \A p \in 1..m : s[p].n \in Nat /\ s[p].rec \in Nat
  <2>1. \A p \in 1..m : s[p] \in WordType
    BY <1>1, ElementOfSeq
  <2>2. QED
    BY <2>1 DEF WordType
<1>9. ASSUME NEW h \in 1..m + n, IsHead(t[h])
      PROVE  Record(t, h)
  <2>1. CASE h \in 1..m
    <3>1. t[h] = s[h]
      BY <1>4, <2>1
    <3>2. Record(s, h)
      BY <1>1, <1>9, <2>1, <3>1 DEF Records
    <3>3. PICK k \in Nat : k = s[h].n
      BY <1>8, <2>1
    <3>4. /\ k \in 1..(Size - 1) /\ h + k <= m
          /\ \A q \in (h + 1)..(h + k) :
               ~IsHead(s[q]) /\ s[q].rec = s[h].rec /\ s[q].who = s[h].who
          /\ h + k < m => IsHead(s[h + k + 1])
          /\ s[h].field = "sample" => \E l \in Nat : Laid(s, h, l)
      BY <1>1, <3>2, <3>3 DEF Record
    <3>5. \A q \in (h + 1)..(h + k) :
            ~IsHead(t[q]) /\ t[q].rec = t[h].rec /\ t[q].who = t[h].who
      <4>1. \A q \in (h + 1)..(h + k) : t[q] = s[q]
        BY <1>4, <2>1, <3>4
      <4>2. QED
        BY <3>1, <3>4, <4>1
    <3>6. IsHead(t[h + k + 1])
      <4>1. CASE h + k < m
        <5>1. h + k + 1 \in 1..m
          BY <2>1, <4>1
        <5>2. t[h + k + 1] = s[h + k + 1]
          BY <1>4, <5>1
        <5>3. IsHead(s[h + k + 1])
          BY <3>4, <4>1
        <5>4. QED
          BY <5>2, <5>3 DEF IsHead
      <4>2. CASE h + k = m
        <5>1. h + k + 1 = m + 1
          BY <4>2
        <5>2. QED
          BY <1>7, <5>1
      <4>3. h + k < m \/ h + k = m
        BY <3>4
      <4>4. QED
        BY <4>1, <4>2, <4>3
    <3>7. ASSUME t[h].field = "sample" PROVE \E l \in Nat : Laid(t, h, l)
      <4>1. PICK l \in Nat : Laid(s, h, l)
        BY <3>1, <3>4, <3>7
      <4>2. \A x \in 0..s[h].n : t[h + x] = s[h + x]
        <5>1. TAKE x \in 0..s[h].n
        <5>2. h + x \in 1..m
          BY <2>1, <3>3, <3>4
        <5>3. QED
          BY <1>4, <5>2
      <4>3. s[h].n \in Nat /\ h \in Int
        BY <2>1, <3>3
      <4>4. Laid(t, h, l)
        BY <4>1, <4>2, <4>3, LaidMoved
      <4>5. QED
        BY <4>4
    <3>8. h + k <= m + n
      BY <3>4, <1>5
    <3>9. QED
      BY <1>4, <3>1, <3>3, <3>4, <3>5, <3>6, <3>7, <3>8 DEF Record
  <2>2. CASE h = m + 1
    <3>1. t[h] = w[1] /\ w[1].n = n - 1
      BY <1>0, <1>2, <1>6, <2>2
    <3>2. n - 1 \in 1..(Size - 1) /\ h + (n - 1) = m + n
      BY <1>5, <2>2
    <3>3. ASSUME NEW q \in (h + 1)..(h + (n - 1))
          PROVE  ~IsHead(t[q]) /\ t[q].rec = t[h].rec /\ t[q].who = t[h].who
      <4>1. PICK p \in 2..n : q = m + p
        <5>1. q - m \in 2..n /\ q = m + (q - m)
          BY <2>2
        <5>2. QED
          BY <5>1
      <4>2. t[q] = w[p]
        BY <1>4, <4>1
      <4>3. QED
        BY <1>0, <1>2, <3>1, <4>2
    <3>4. ASSUME t[h].field = "sample" PROVE \E l \in Nat : Laid(t, h, l)
      <4>1. PICK l \in Nat : Laid(w, 1, l)
        BY <1>0, <3>1, <3>4
      <4>2. \A x \in 0..w[1].n : t[h + x] = w[1 + x]
        <5>1. TAKE x \in 0..w[1].n
        <5>2. 1 + x \in 1..n /\ h + x = m + (1 + x)
          BY <1>5, <2>2, <3>1
        <5>3. QED
          BY <1>4, <5>2
      <4>3. w[1].n \in Nat /\ h \in Int /\ 1 \in Int
        BY <1>5, <3>1
      <4>4. Laid(t, h, l)
        BY <4>1, <4>2, <4>3, LaidMoved
      <4>5. QED
        BY <4>4
    <3>5. QED
      BY <1>4, <3>1, <3>2, <3>3, <3>4 DEF Record
  <2>3. CASE h > m + 1
    <3>1. h - m \in 2..n /\ h - m \in 1..n /\ m + (h - m) = h
      BY <1>9, <2>3
    <3>2. t[h] = w[h - m]
      BY <1>4, <3>1
    <3>3. QED
      BY <1>0, <1>2, <1>9, <3>1, <3>2
  <2>4. QED
    BY <2>1, <2>2, <2>3
<1>10. IsHead(t[1])
  <2>1. CASE m = 0
    <3>1. m + 1 = 1
      BY <2>1
    <3>2. QED
      BY <1>7, <3>1
  <2>2. CASE m # 0
    <3>1. 1 \in 1..m /\ s # <<>>
      BY <1>1, <2>2, EmptySeq
    <3>2. QED
      BY <1>4, <3>1 DEF Records
  <2>3. QED
    BY <2>1, <2>2
<1>11. Records(t)
  BY <1>4, <1>9, <1>10 DEF Records
<1>12. \A p \in 1..m : s[p].rec < i
  <2>1. TAKE p \in 1..m
  <2>2. s # <<>> /\ m \in 1..m
    BY <1>1, EmptySeq
  <2>3. s[p].rec <= s[m].rec
    BY <1>1, <2>2 DEF Numbered
  <2>4. i = s[m].rec + 1
    BY <1>1, <2>2 DEF Following
  <2>5. QED
    BY <1>8, <2>2, <2>3, <2>4
<1>13. \A p \in m + 1..m + n : t[p].rec = i /\ (IsHead(t[p]) => p = m + 1)
  <2>1. TAKE p \in m + 1..m + n
  <2>2. p - m \in 1..n /\ m + (p - m) = p
    OBVIOUS
  <2>3. t[p] = w[p - m]
    BY <1>4, <2>2
  <2>4. CASE p = m + 1
    BY <1>0, <1>6, <2>4
  <2>5. CASE p # m + 1
    <3>1. p - m \in 2..n
      BY <2>5
    <3>2. QED
      BY <1>0, <1>2, <2>3, <3>1
  <2>6. QED
    BY <2>4, <2>5
<1>14. ASSUME NEW p \in 1..m + n, NEW q \in 1..m + n, p <= q
       PROVE  t[p].rec <= t[q].rec /\ (p < q /\ IsHead(t[q]) => t[p].rec < t[q].rec)
  <2>1. CASE q \in 1..m
    <3>0. p \in 1..m
      BY <1>14, <2>1
    <3>1. p \in 1..m /\ t[p] = s[p] /\ t[q] = s[q]
      BY <1>4, <2>1, <3>0
    <3>2. QED
      BY <1>1, <1>14, <2>1, <3>1 DEF Numbered
  <2>2. CASE q \notin 1..m /\ p \in 1..m
    <3>1. t[p] = s[p] /\ t[q].rec = i
      BY <1>4, <1>13, <2>2
    <3>2. t[p].rec < t[q].rec
      BY <1>12, <2>2, <3>1
    <3>3. QED
      BY <1>8, <2>2, <3>1, <3>2
  <2>3. CASE q \notin 1..m /\ p \notin 1..m
    <3>1. p \in m + 1..m + n /\ q \in m + 1..m + n
      BY <2>3
    <3>2. t[p].rec = i /\ t[q].rec = i /\ (IsHead(t[q]) => q = m + 1)
      BY <1>13, <3>1
    <3>3. t[p].rec <= t[q].rec
      BY <3>2
    <3>4. ~(p < q /\ q = m + 1)
      BY <3>1
    <3>5. QED
      BY <3>2, <3>3, <3>4
  <2>4. QED
    BY <2>1, <2>2, <2>3
<1>15. Numbered(t)
  BY <1>4, <1>14 DEF Numbered
<1>16. QED
  BY <1>1, <1>2, <1>4, <1>7, <1>11, <1>15 DEF Longer

-----------------------------------------------------------------------------
(* The fields of a record that are to come.                                *)

TodoField == {"id", "nr", "enabled", "running", "value", "nips", "ip", "addr",
              "cpu", "weight", "src"}

\* The x-th field of a sample with a call-chain of c.
ExpectedProfiling(x) ==
  IF x = 1 THEN "id" ELSE IF x = 2 THEN "nr"
  ELSE IF x = 3 THEN "enabled" ELSE IF x = 4 THEN "running"
  ELSE IF x < NipsAt THEN "value" ELSE IF x = NipsAt THEN "nips" ELSE "ip"
ExpectedLl(x, c) ==
  IF x = 1 THEN "id" ELSE IF x = 2 THEN "addr"
  ELSE IF x = 3 THEN "cpu" ELSE IF x = 4 THEN "nips"
  ELSE IF x <= 4 + c THEN "ip" ELSE IF x = 5 + c THEN "weight" ELSE "src"
Expected(x, c) ==
  IF mode = "profiling" THEN ExpectedProfiling(x) ELSE ExpectedLl(x, c)

\* td are the fields after the x-th up to the y-th.
Suffix(td, x, y, c) ==
  /\ Len(td) = y - x
  /\ \A i \in 1..(y - x) : td[i] = Expected(x + i, c)

\* What may be to come after k fields of a sample with a chain of l, of which
\* n words are left.  The length of the chain is not known before nips.
Expecting(td, k, l, n) ==
  \/ mode = "profiling" /\ k < 2 /\ Suffix(td, k, 2, l)
  \/ mode = "profiling" /\ 2 <= k /\ k < NipsAt /\ Suffix(td, k, NipsAt, l)
  \/ mode = "profiling" /\ NipsAt <= k /\ Suffix(td, k, NipsAt + l, l)
  \/ mode = "ll" /\ k < 4 /\ Suffix(td, k, 6, 0)
  \/ mode = "ll" /\ 4 <= k /\ Suffix(td, k, 6 + l, l)
  \/ /\ mode = "ll" /\ l > IpNum /\ 5 <= k
     /\ \/ n >= 2 /\ Suffix(td, 4, 6, 0)
        \/ Suffix(td, 5, 6, 0)

\* One field less.
TailOf(td, x, y, c) ==
  /\ td # <<>> /\ td[1] = Expected(x + 1, c)
  /\ Tail(td) \in Seq(TodoField) /\ Suffix(Tail(td), x + 1, y, c)
  /\ Tail(td) = <<>> <=> y = x + 1

LEMMA EmptyIff ==
  ASSUME NEW td \in Seq(TodoField)
  PROVE  td = <<>> <=> Len(td) = 0
BY EmptySeq

LEMMA SuffixTail ==
  ASSUME NEW td \in Seq(TodoField), NEW x \in Int, NEW y \in Int, NEW c \in Nat,
         x < y, Suffix(td, x, y, c)
  PROVE  TailOf(td, x, y, c)
<1>1. td # <<>> /\ 1 \in 1..(y - x)
  BY EmptySeq DEF Suffix
<1>2. td[1] = Expected(x + 1, c)
  BY <1>1 DEF Suffix
<1>3. /\ Tail(td) \in Seq(TodoField) /\ Len(Tail(td)) = Len(td) - 1
      /\ \A i \in 1..Len(Tail(td)) : Tail(td)[i] = td[i + 1]
  BY <1>1, HeadTailProperties
<1>4. Len(Tail(td)) = y - (x + 1)
  BY <1>3 DEF Suffix
<1>5. ASSUME NEW i \in 1..(y - (x + 1))
      PROVE  Tail(td)[i] = Expected((x + 1) + i, c)
  <2>1. Tail(td)[i] = td[i + 1]
    BY <1>3, <1>4
  <2>2. i + 1 \in 1..(y - x) /\ x + (i + 1) = (x + 1) + i
    OBVIOUS
  <2>3. td[i + 1] = Expected(x + (i + 1), c)
    BY <2>2 DEF Suffix
  <2>4. QED
    BY <2>1, <2>2, <2>3
<1>6. Tail(td) = <<>> <=> y = x + 1
  <2>1. Tail(td) = <<>> <=> Len(Tail(td)) = 0
    BY <1>3, EmptyIff
  <2>2. Len(Tail(td)) = 0 <=> y = x + 1
    <3>1. PICK m \in Int : m = Len(Tail(td))
      BY <1>4
    <3>2. m = y - (x + 1)
      BY <1>4, <3>1
    <3>3. CASE m = 0
      BY <3>1, <3>2, <3>3
    <3>4. CASE m # 0
      <4>1. y # x + 1
        BY <3>2, <3>4
      <4>2. Len(Tail(td)) # 0
        BY <3>1, <3>4
      <4>3. QED
        BY <4>1, <4>2
    <3>5. QED
      BY <3>3, <3>4
  <2>3. QED
    BY <2>1, <2>2
<1>7. QED
  BY <1>1, <1>2, <1>3, <1>4, <1>5, <1>6 DEF TailOf, Suffix

\* The addresses of a chain and what was to come after it.
TimesThen(td, n, f, r) ==
  /\ td \in Seq(TodoField) /\ Len(td) = n + Len(r)
  /\ \A i \in 1..n : td[i] = f
  /\ \A i \in 1..Len(r) : td[n + i] = r[i]

LEMMA TimesJoined ==
  ASSUME NEW n \in Nat, NEW f \in TodoField, NEW r \in Seq(TodoField),
         NEW td, td = Times(n, f) \o r
  PROVE  TimesThen(td, n, f, r)
<1>1. PICK a : a = Times(n, f)
  OBVIOUS
<1>2. a \in Seq(TodoField) /\ Len(a) = n /\ \A i \in 1..n : a[i] = f
  BY <1>1 DEF Times
<1>3. JoinOf(TodoField, td, a, r)
  BY <1>1, <1>2, Joined, Zenon
<1>4. QED
  BY <1>2, <1>3 DEF JoinOf, TimesThen

\* What a read field does to the fields to come: the record is read to its
\* end, or at least one word and one field more are.
ReadOn(td, k, l, n) ==
  /\ td \in Seq(TodoField)
  /\ td = <<>> => mode = "profiling" \/ l > IpNum \/ k = 6 + l
  /\ td # <<>> => n > 0 /\ Expecting(td, k, l, n)

LEMMA AfterField ==
  ASSUME mode \in Modes, todo \in Seq(TodoField),
         NEW k \in Nat, NEW l \in Nat, NEW n \in Nat \ {0},
         k + n = NipsAt + l + AfterLen, Expecting(todo, k, l, n),
         NEW w \in WordType,
         mode = "profiling" /\ k = 1 => w.n = NEvents,
         k + 1 = NipsAt => w.n = l,
         NEW j \in Nat, j = 0 \/ j <= k + 1 - NipsAt
  PROVE  todo # <<>> /\ ReadOn(After(w, j), k + 1, l, n - 1)
<1>0. NipsAt \in Nat /\ NEvents \in Nat \ {0} /\ IpNum \in Nat \ {0}
  BY DEF NipsAt
<1>1. CASE mode = "profiling" /\ k < 2 /\ Suffix(todo, k, 2, l)
  <2>0. NipsAt = NEvents + 5 /\ AfterLen = 0
    BY <1>1 DEF NipsAt, AfterLen
  <2>1. TailOf(todo, k, 2, l)
    BY <1>1, SuffixTail
  <2>2. CASE k = 0
    <3>1. todo[1] = "id"
      BY <1>1, <2>0, <2>1, <2>2 DEF TailOf, Expected, ExpectedProfiling, ExpectedLl
    <3>2. After(w, j) = Tail(todo)
      BY <3>1 DEF After
    <3>3. n > 1
      BY <1>0, <2>0, <2>2
    <3>4. QED
      BY <1>1, <2>1, <2>2, <3>2, <3>3 DEF TailOf, ReadOn, Expecting
  <2>3. CASE k = 1
    <3>1. todo[1] = "nr"
      BY <1>1, <2>0, <2>1, <2>3 DEF TailOf, Expected, ExpectedProfiling, ExpectedLl
    <3> DEFINE a == <<"enabled", "running">>
               z == <<"nips">>
    <3>2. a \in Seq(TodoField) /\ Len(a) = 2 /\ a[1] = "enabled" /\ a[2] = "running"
      BY DEF TodoField
    <3>3. z \in Seq(TodoField) /\ Len(z) = 1 /\ z[1] = "nips"
      BY DEF TodoField
    <3>4. After(w, j) = a \o Times(NEvents, "value") \o z
      BY <1>1, <2>3, <3>1 DEF After
    <3> HIDE DEF a, z
    <3>5. PICK v : v = Times(NEvents, "value")
      OBVIOUS
    <3>6. v \in Seq(TodoField) /\ Len(v) = NEvents /\ \A i \in 1..NEvents : v[i] = "value"
      BY <1>0, <3>5 DEF Times, TodoField
    <3>7. PICK av : av = a \o v
      OBVIOUS
    <3>8. JoinOf(TodoField, av, a, v)
      BY <3>2, <3>6, <3>7, Joined, Zenon
    <3>9. /\ av \in Seq(TodoField) /\ Len(av) = NEvents + 2
          /\ av[1] = "enabled" /\ av[2] = "running"
          /\ \A i \in 1..NEvents : av[2 + i] = "value"
      <4>1. 1 \in 1..Len(a) /\ 2 \in 1..Len(a)
        BY <3>2
      <4>2. av[1] = a[1] /\ av[2] = a[2]
        BY <3>8, <4>1 DEF JoinOf
      <4>3. \A i \in 1..NEvents : av[2 + i] = "value"
        BY <3>2, <3>6, <3>8 DEF JoinOf
      <4>4. av \in Seq(TodoField) /\ Len(av) = NEvents + 2
        BY <3>2, <3>6, <3>8 DEF JoinOf
      <4>5. QED
        BY <3>2, <4>2, <4>3, <4>4
    <3>10. PICK td : td = After(w, j)
      OBVIOUS
    <3>11. JoinOf(TodoField, td, av, z)
      BY <3>3, <3>4, <3>5, <3>7, <3>9, <3>10, Joined, Zenon
    <3>12. /\ td \in Seq(TodoField) /\ Len(td) = NEvents + 3
           /\ td[1] = "enabled" /\ td[2] = "running" /\ td[NEvents + 3] = "nips"
      <4>1. 1 \in 1..Len(av) /\ 2 \in 1..Len(av) /\ 1 \in 1..Len(z)
            /\ Len(av) + 1 = NEvents + 3
        BY <1>0, <3>3, <3>9
      <4>2. QED
        BY <3>3, <3>9, <3>11, <4>1 DEF JoinOf
    <3>13. \A i \in 3..NEvents + 2 : td[i] = "value"
      <4>1. TAKE i \in 3..NEvents + 2
      <4>2. i \in 1..Len(av) /\ i - 2 \in 1..NEvents /\ 2 + (i - 2) = i
        BY <1>0, <3>9
      <4>3. td[i] = av[i]
        BY <3>11, <4>2 DEF JoinOf
      <4>4. QED
        BY <3>9, <4>2, <4>3
    <3>14. Suffix(td, 2, NipsAt, l)
      <4>1. Len(td) = NipsAt - 2
        BY <1>0, <2>0, <3>12
      <4>2. ASSUME NEW i \in 1..(NipsAt - 2) PROVE td[i] = Expected(2 + i, l)
        <5>1. CASE i = 1
          BY <1>1, <3>12, <5>1 DEF Expected, ExpectedProfiling, ExpectedLl
        <5>2. CASE i = 2
          BY <1>1, <3>12, <5>2 DEF Expected, ExpectedProfiling, ExpectedLl
        <5>3. CASE i \in 3..NEvents + 2
          <6>1. 2 + i > 4 /\ 2 + i < NipsAt
            BY <1>0, <2>0, <5>3
          <6>2. QED
            BY <1>1, <3>13, <5>3, <6>1 DEF Expected, ExpectedProfiling, ExpectedLl
        <5>4. CASE i = NEvents + 3
          <6>1. 2 + i = NipsAt /\ 2 + i > 4 /\ ~(2 + i < NipsAt)
            BY <1>0, <2>0, <5>4
          <6>2. QED
            BY <1>1, <3>12, <5>4, <6>1 DEF Expected, ExpectedProfiling, ExpectedLl
        <5>5. QED
          BY <1>0, <2>0, <5>1, <5>2, <5>3, <5>4
      <4>3. QED
        BY <4>1, <4>2 DEF Suffix
    <3>15. td # <<>> /\ n - 1 > 0 /\ k + 1 = 2 /\ 2 < NipsAt
      BY <1>0, <2>0, <2>3, <3>12, EmptyIff
    <3>16. Expecting(td, k + 1, l, n - 1)
      BY <1>1, <3>14, <3>15 DEF Expecting
    <3>17. QED
      BY <1>1, <2>1, <3>10, <3>12, <3>15, <3>16 DEF ReadOn, TailOf
  <2>4. QED
    BY <1>1, <2>2, <2>3
<1>2. CASE mode = "profiling" /\ 2 <= k /\ k < NipsAt /\ Suffix(todo, k, NipsAt, l)
  <2>0. NipsAt = NEvents + 5 /\ AfterLen = 0
    BY <1>2 DEF NipsAt, AfterLen
  <2>1. TailOf(todo, k, NipsAt, l)
    BY <1>0, <1>2, SuffixTail
  <2>2. CASE k + 1 < NipsAt
    <3>1. todo[1] \in {"enabled", "running", "value"}
      BY <1>0, <1>2, <2>1, <2>2 DEF TailOf, Expected, ExpectedProfiling, ExpectedLl
    <3>2. After(w, j) = Tail(todo)
      BY <3>1 DEF After
    <3>3. n > 1
      BY <1>0, <2>0, <2>2
    <3>4. QED
      BY <1>2, <2>1, <2>2, <3>2, <3>3 DEF TailOf, ReadOn, Expecting
  <2>3. CASE k + 1 = NipsAt
    <3>1. todo[1] = "nips"
      BY <1>0, <1>2, <2>0, <2>1, <2>3 DEF TailOf, Expected, ExpectedProfiling, ExpectedLl
    <3>2. PICK td : td = After(w, j)
      OBVIOUS
    <3>3. td = Times(l, "ip") \o Tail(todo) /\ Tail(todo) \in Seq(TodoField)
      BY <2>1, <2>3, <3>1, <3>2 DEF After, TailOf
    <3>4. Len(Tail(todo)) = 0
      BY <1>0, <2>1, <2>3 DEF TailOf, Suffix
    <3>5. "ip" \in TodoField
      BY DEF TodoField
    <3>6. td \in Seq(TodoField) /\ Len(td) = l /\ \A i \in 1..l : td[i] = "ip"
      <4>1. PICK r \in Seq(TodoField) : r = Tail(todo)
        BY <3>3
      <4>2. td = Times(l, "ip") \o r
        BY <3>3, <4>1
      <4>3. TimesThen(td, l, "ip", r)
        BY <3>5, <4>2, TimesJoined, Zenon
      <4>4. Len(r) = 0 /\ l + 0 = l
        BY <3>4, <4>1
      <4>5. Len(td) = l
        BY <4>3, <4>4 DEF TimesThen
      <4>6. QED
        BY <4>3, <4>5 DEF TimesThen
    <3>7. ASSUME NEW i \in 1..l PROVE td[i] = Expected(NipsAt + i, l)
      <4>1. PICK x \in Int : x = NipsAt + i
        BY <1>0
      <4>2. /\ x # 1 /\ x # 2 /\ x # 3 /\ x # 4
            /\ ~(x < NipsAt) /\ x # NipsAt
        BY <1>0, <2>0, <4>1
      <4>3. Expected(x, l) = "ip"
        BY <1>2, <4>2 DEF Expected, ExpectedProfiling
      <4>4. td[i] = "ip"
        BY <3>6
      <4>5. QED
        BY <4>1, <4>3, <4>4
    <3>8. Suffix(td, NipsAt, NipsAt + l, l)
      <4>1. (NipsAt + l) - NipsAt = l
        BY <1>0
      <4>2. QED
        BY <3>6, <3>7, <4>1 DEF Suffix
    <3>9. td # <<>> => n - 1 > 0
      <4>1. td # <<>> => l # 0
        BY <3>6, EmptyIff
      <4>2. QED
        BY <1>0, <2>0, <2>3, <4>1
    <3>10. Expecting(td, k + 1, l, n - 1)
      BY <1>0, <1>2, <2>3, <3>8 DEF Expecting
    <3>11. QED
      BY <1>2, <2>1, <3>2, <3>6, <3>9, <3>10 DEF ReadOn, TailOf
  <2>4. QED
    BY <1>0, <1>2, <2>2, <2>3
<1>3. CASE mode = "profiling" /\ NipsAt <= k /\ Suffix(todo, k, NipsAt + l, l)
  <2>0. NipsAt = NEvents + 5 /\ AfterLen = 0
    BY <1>3 DEF NipsAt, AfterLen
  <2>1. k < NipsAt + l
    BY <1>0, <2>0
  <2>2. TailOf(todo, k, NipsAt + l, l)
    BY <1>0, <1>3, <2>1, SuffixTail
  <2>3. todo[1] = "ip"
    BY <1>0, <1>3, <2>0, <2>2 DEF TailOf, Expected, ExpectedProfiling, ExpectedLl
  <2>4. After(w, j) = IF j >= IpNum THEN <<>> ELSE Tail(todo)
    BY <1>3, <2>3 DEF After, AfterChain
  <2>5. <<>> \in Seq(TodoField)
    BY EmptySeq
  <2>6. Tail(todo) # <<>> => n - 1 > 0
    BY <1>0, <2>0, <2>1, <2>2 DEF TailOf
  <2>7. QED
    BY <1>0, <1>3, <2>2, <2>4, <2>5, <2>6 DEF TailOf, ReadOn, Expecting
<1>4. CASE mode = "ll" /\ k < 4 /\ Suffix(todo, k, 6, 0)
  <2>0. NipsAt = 4 /\ AfterLen = 2
    BY <1>4 DEF NipsAt, AfterLen
  <2>1. TailOf(todo, k, 6, 0)
    BY <1>4, SuffixTail
  <2>2. n - 1 > 0
    BY <1>4, <2>0
  <2>3. CASE k < 3
    <3>1. todo[1] \in {"id", "addr", "cpu"}
      BY <1>4, <2>1, <2>3 DEF TailOf, Expected, ExpectedProfiling, ExpectedLl
    <3>2. After(w, j) = Tail(todo)
      BY <3>1 DEF After
    <3>3. QED
      BY <1>4, <2>1, <2>2, <2>3, <3>2 DEF TailOf, ReadOn, Expecting
  <2>4. CASE k = 3
    <3>1. todo[1] = "nips"
      BY <1>4, <2>1, <2>4 DEF TailOf, Expected, ExpectedProfiling, ExpectedLl
    <3>2. PICK td : td = After(w, j)
      OBVIOUS
    <3>3. PICK r : r = Tail(todo)
      OBVIOUS
    <3>4. td = Times(l, "ip") \o r /\ r \in Seq(TodoField)
      <4>1. k + 1 = NipsAt
        BY <2>0, <2>4
      <4>2. After(w, j) = Times(w.n, "ip") \o r
        BY <3>1, <3>3 DEF After
      <4>3. QED
        BY <2>1, <3>2, <3>3, <4>1, <4>2 DEF TailOf
    <3>5. Len(r) = 2 /\ r[1] = Expected(5, 0) /\ r[2] = Expected(6, 0)
      <4>1. Suffix(r, 4, 6, 0)
        BY <2>1, <2>4, <3>3 DEF TailOf
      <4>2. Len(r) = 2 /\ \A i \in 1..2 : r[i] = Expected(4 + i, 0)
        BY <4>1 DEF Suffix
      <4>3. r[1] = Expected(4 + 1, 0) /\ r[2] = Expected(4 + 2, 0)
        BY <4>2
      <4>4. QED
        BY <4>2, <4>3
    <3>6. r[1] = "weight" /\ r[2] = "src"
      BY <1>4, <3>5 DEF Expected, ExpectedProfiling, ExpectedLl
    <3>7. "ip" \in TodoField
      BY DEF TodoField
    <3>8. /\ td \in Seq(TodoField) /\ Len(td) = l + 2
          /\ \A i \in 1..l : td[i] = "ip"
          /\ \A i \in 1..2 : td[l + i] = r[i]
      <4>1. TimesThen(td, l, "ip", r)
        BY <3>4, <3>7, TimesJoined, Zenon
      <4>2. QED
        BY <3>5, <4>1 DEF TimesThen
    <3>9. ASSUME NEW i \in 1..(l + 2) PROVE td[i] = Expected(4 + i, l)
      <4>1. CASE i \in 1..l
        <5>1. 4 + i > 4 /\ 4 + i <= 4 + l
          BY <4>1
        <5>2. QED
          BY <1>4, <3>8, <4>1, <5>1 DEF Expected, ExpectedProfiling, ExpectedLl
      <4>2. CASE i = l + 1
        <5>1. 4 + i = 5 + l /\ 4 + i > 4 /\ ~(4 + i <= 4 + l)
          BY <4>2
        <5>2. Expected(4 + i, l) = "weight"
          BY <1>4, <5>1 DEF Expected, ExpectedProfiling, ExpectedLl
        <5>3. QED
          BY <3>6, <3>8, <4>2, <5>2
      <4>3. CASE i = l + 2
        <5>1. 4 + i # 5 + l /\ 4 + i > 4 /\ ~(4 + i <= 4 + l)
          BY <4>3
        <5>2. Expected(4 + i, l) = "src"
          BY <1>4, <5>1 DEF Expected, ExpectedProfiling, ExpectedLl
        <5>3. QED
          BY <3>6, <3>8, <4>3, <5>2
      <4>4. QED
        BY <4>1, <4>2, <4>3
    <3>10. Suffix(td, 4, 6 + l, l)
      <4>1. (6 + l) - 4 = l + 2
        OBVIOUS
      <4>2. QED
        BY <3>8, <3>9, <4>1 DEF Suffix
    <3>11. td # <<>> /\ k + 1 = 4
      BY <2>4, <3>8, EmptyIff
    <3>12. QED
      BY <1>4, <2>1, <2>2, <3>2, <3>8, <3>10, <3>11 DEF ReadOn, TailOf, Expecting
  <2>5. QED
    BY <1>4, <2>3, <2>4
<1>5. CASE mode = "ll" /\ 4 <= k /\ Suffix(todo, k, 6 + l, l)
  <2>0. NipsAt = 4 /\ AfterLen = 2 /\ k + n = 6 + l
    BY <1>5 DEF NipsAt, AfterLen
  <2>1. TailOf(todo, k, 6 + l, l)
    BY <1>5, <2>0, SuffixTail
  <2>2. CASE todo[1] = "ip" /\ j >= IpNum
    <3>1. k + 1 <= 4 + l
      <4>1. k + 1 # 5 + l
        BY <1>5, <2>1, <2>2 DEF TailOf, Expected, ExpectedProfiling, ExpectedLl
      <4>2. k + 1 > 4 + l => Expected(k + 1, l) = "src"
        BY <1>5, <4>1 DEF Expected, ExpectedProfiling, ExpectedLl
      <4>3. QED
        BY <2>1, <2>2, <4>2 DEF TailOf
    <3>2. PICK td : td = After(w, j)
      OBVIOUS
    <3>3. td = <<"weight", "src">>
      BY <1>5, <2>2, <3>2 DEF After, AfterChain
    <3>4. td \in Seq(TodoField) /\ Len(td) = 2 /\ td[1] = "weight" /\ td[2] = "src"
      BY <3>3 DEF TodoField
    <3>5. IpNum <= k + 1 - 4 /\ n - 1 >= 2
      BY <1>0, <2>0, <2>2, <3>1
    <3>6. td # <<>>
      BY <3>3
    <3>7. CASE k + 1 = 4 + l
      <4>1. Expected((k + 1) + 1, l) = "weight" /\ Expected((k + 1) + 2, l) = "src"
        BY <1>5, <3>7 DEF Expected, ExpectedProfiling, ExpectedLl
      <4>2. (6 + l) - (k + 1) = 2
        BY <3>7
      <4>3. Suffix(td, k + 1, 6 + l, l)
        BY <3>4, <4>1, <4>2 DEF Suffix
      <4>4. QED
        BY <1>5, <2>1, <3>2, <3>4, <3>5, <3>6, <4>3 DEF ReadOn, TailOf, Expecting
    <3>8. CASE k + 1 < 4 + l
      <4>1. Expected(4 + 1, 0) = "weight" /\ Expected(4 + 2, 0) = "src"
        BY <1>5 DEF Expected, ExpectedProfiling, ExpectedLl
      <4>2. Suffix(td, 4, 6, 0)
        BY <3>4, <4>1 DEF Suffix
      <4>3. l > IpNum /\ 5 <= k + 1
        BY <1>0, <1>5, <3>5, <3>8
      <4>4. QED
        BY <1>5, <2>1, <3>2, <3>4, <3>5, <3>6, <4>2, <4>3 DEF ReadOn, TailOf, Expecting
    <3>9. QED
      BY <3>1, <3>7, <3>8
  <2>3. CASE ~(todo[1] = "ip" /\ j >= IpNum)
    <3>1. todo[1] \in {"ip", "weight", "src"}
      BY <1>5, <2>1 DEF TailOf, Expected, ExpectedProfiling, ExpectedLl
    <3>2. After(w, j) = Tail(todo)
      BY <2>3, <3>1 DEF After
    <3>3. Tail(todo) # <<>> => n - 1 > 0
      BY <2>0, <2>1 DEF TailOf
    <3>4. Tail(todo) = <<>> => k + 1 = 6 + l
      BY <2>0, <2>1 DEF TailOf
    <3>5. QED
      BY <1>5, <2>1, <3>2, <3>3, <3>4 DEF TailOf, ReadOn, Expecting
  <2>4. QED
    BY <2>2, <2>3
<1>6. CASE /\ mode = "ll" /\ l > IpNum /\ 5 <= k
           /\ n >= 2 /\ Suffix(todo, 4, 6, 0)
  <2>1. TailOf(todo, 4, 6, 0)
    BY <1>6, SuffixTail
  <2>2. todo[1] = "weight"
    BY <1>6, <2>1 DEF TailOf, Expected, ExpectedProfiling, ExpectedLl
  <2>3. After(w, j) = Tail(todo)
    BY <2>2 DEF After
  <2>4. n - 1 > 0 /\ 5 <= k + 1 /\ Suffix(Tail(todo), 5, 6, 0)
    BY <1>6, <2>1 DEF TailOf
  <2>5. QED
    BY <1>6, <2>1, <2>3, <2>4 DEF TailOf, ReadOn, Expecting
<1>7. CASE /\ mode = "ll" /\ l > IpNum /\ 5 <= k
           /\ Suffix(todo, 5, 6, 0)
  <2>1. TailOf(todo, 5, 6, 0)
    BY <1>7, SuffixTail
  <2>2. todo[1] = "src"
    BY <1>7, <2>1 DEF TailOf, Expected, ExpectedProfiling, ExpectedLl
  <2>3. After(w, j) = Tail(todo)
    BY <2>2 DEF After
  <2>4. Tail(todo) = <<>>
    BY <2>1 DEF TailOf
  <2>5. QED
    BY <1>7, <2>1, <2>3, <2>4 DEF TailOf, ReadOn
<1>8. QED
  BY <1>1, <1>2, <1>3, <1>4, <1>5, <1>6, <1>7 DEF Expecting

-----------------------------------------------------------------------------
(* The invariant: the log is made of records, the reader stays behind it,  *)
(* and is either at the header of a record or within one, unless it is     *)
(* among those that have strayed.                                          *)

RecType == [rec: Nat, who: WhoType,
            weight: BodyField \union {"sample", "other", "none", "junk"}]

Types ==
  /\ mode \in Modes /\ base \in Nat /\ log \in Seq(WordType) /\ tail \in Int
  /\ pc \in {"idle", "header", "fields", "stray"} /\ keep \in BOOLEAN
  /\ left \in Int /\ todo \in Seq(TodoField) /\ nips \in Nat
  /\ rec \in RecType /\ out \in Seq(RecType)
  /\ strayed \in BOOLEAN /\ jumped \in BOOLEAN

\* The reader is within the record at h, which has a call-chain of l.
Reading(h, l) ==
  /\ log[h].field = "sample" /\ Laid(log, h, l)
  /\ left \in 1..log[h].n
  /\ tail - base = h + (log[h].n - left)
  /\ Expecting(todo, log[h].n - left, l, left)
  /\ nips = 0 \/ nips <= (log[h].n - left) - NipsAt
  /\ log[h].n - left >= 1 => rec.rec = log[h].rec /\ rec.who = log[h].who
  /\ rec.weight \in {"none", "weight"} \/ (mode = "ll" /\ l > IpNum)

Framing ==
  /\ pc # "fields" /\ ~strayed => Boundary(tail)
  /\ pc \in {"header", "fields"} => ~strayed
  /\ pc = "stray" => strayed
  /\ pc = "fields" => \E h \in 1..Len(log), l \in Nat : Reading(h, l)

Core == Types /\ Records(log) /\ Numbered(log) /\ Behind /\ Framing

LEMMA LogFacts ==
  ASSUME Types
  PROVE  /\ Len(log) \in Nat /\ DataHead \in Int /\ DataHead = base + Len(log)
         /\ \A p \in 1..Len(log) : /\ log[p] \in WordType
                                   /\ log[p].n \in Nat /\ log[p].rec \in Nat
                                   /\ log[p].who \in WhoType
                                   /\ log[p].field \in BodyField \union {"sample", "other"}
<1>1. Len(log) \in Nat
  BY LenProperties DEF Types
<1>2. \A p \in 1..Len(log) : log[p] \in WordType
  BY ElementOfSeq DEF Types
<1>3. \A w \in WordType : /\ w.n \in Nat /\ w.rec \in Nat /\ w.who \in WhoType
                          /\ w.field \in BodyField \union {"sample", "other"}
  BY DEF WordType
<1>4. QED
  BY <1>1, <1>2, <1>3 DEF DataHead, Types

\* The word that is read, if one can be.
LEMMA Here ==
  ASSUME Types, Behind, CanRead
  PROVE  /\ tail < DataHead /\ (tail - base) + 1 \in 1..Len(log)
         /\ At(tail) = log[(tail - base) + 1] /\ At(tail) \in WordType
<1>1. /\ DataHead \in Int /\ DataHead = base + Len(log) /\ tail \in Int /\ base \in Int
      /\ Len(log) \in Nat
  BY LogFacts DEF Types
<1>2. tail < DataHead /\ base <= tail /\ DataHead - tail < Size
  BY <1>1 DEF CanRead, Behind
<1>3. At(tail) = log[tail + 1 - base]
  BY <1>1, <1>2, AtOf
<1>4. tail + 1 - base = (tail - base) + 1 /\ (tail - base) + 1 \in 1..Len(log)
  BY <1>1, <1>2
<1>5. QED
  BY <1>2, <1>3, <1>4, LogFacts

\* A record as seen from its header.
LEMMA RecordAt ==
  ASSUME Types, Records(log), NEW h \in 1..Len(log), IsHead(log[h])
  PROVE  /\ log[h].n \in 1..(Size - 1) /\ h + log[h].n <= Len(log)
         /\ \A q \in (h + 1)..(h + log[h].n) :
              ~IsHead(log[q]) /\ log[q].rec = log[h].rec /\ log[q].who = log[h].who
         /\ h + log[h].n < Len(log) => IsHead(log[h + log[h].n + 1])
         /\ log[h].field = "sample" => \E l \in Nat : Laid(log, h, l)
BY DEF Records, Record

\* What is taken for a length is the record's, and less than the buffer.
LEMMA BodyLenOf ==
  ASSUME Types, Records(log), NEW p \in 1..Len(log), NEW w, w = log[p], IsHead(w)
  PROVE  w.n \in Nat /\ w.n <= Size /\ w.n = log[p].n /\ w.n >= 1
<1>1. log[p].n \in 1..(Size - 1)
  BY RecordAt
<1>2. QED
  BY <1>1

\* The end of a record is a place where a reader may be between two.
LEMMA EndOfRecord ==
  ASSUME Types, Records(log), NEW h \in 1..Len(log), IsHead(log[h]),
         NEW t \in Int, t = DataHead \/ t - base = h + log[h].n
  PROVE  Boundary(t) /\ (t - base = h + log[h].n => t <= DataHead)
<1>1. CASE t = DataHead
  BY <1>1, LogFacts DEF Boundary
<1>2. CASE t - base = h + log[h].n /\ t # DataHead
  <2>1. PICK n \in Nat : n = log[h].n
    BY LogFacts
  <2>2. h + n <= Len(log) /\ (h + n < Len(log) => IsHead(log[h + n + 1]))
    BY <2>1, RecordAt
  <2>3. base \in Int /\ Len(log) \in Nat /\ DataHead = base + Len(log)
    BY LogFacts DEF Types
  <2>4. t <= DataHead /\ h + n < Len(log) /\ (t + 1) - base = h + n + 1
    <3>1. t - base = h + n /\ t # DataHead /\ h \in Int
      BY <1>2, <2>1
    <3>2. t = base + (h + n)
      BY <2>3, <3>1
    <3>3. h + n # Len(log)
      BY <2>3, <3>1, <3>2
    <3>4. QED
      BY <2>2, <2>3, <3>1, <3>2, <3>3
  <2>5. IsHead(log[(t + 1) - base])
    BY <2>2, <2>4
  <2>6. QED
    BY <2>4, <2>5 DEF Boundary, AtPos, IsHead
<1>3. QED
  BY <1>1, <1>2

\* Where the reader is between two records there is a header, if anything.
LEMMA AtHeader ==
  ASSUME Types, Behind, CanRead, Boundary(tail)
  PROVE  IsHead(At(tail)) /\ IsHead(log[(tail - base) + 1])
<1>1. tail < DataHead /\ At(tail) = log[(tail - base) + 1]
  BY Here
<1>2. DataHead \in Int /\ tail \in Int /\ base \in Int
  BY LogFacts DEF Types
<1>3. AtPos(tail + 1).field \in {"sample", "other"}
  BY <1>1, <1>2 DEF Boundary
<1>4. (tail + 1) - base = (tail - base) + 1
  BY <1>2
<1>5. QED
  BY <1>1, <1>3, <1>4 DEF AtPos, IsHead

-----------------------------------------------------------------------------
(* Each action keeps it.                                                   *)

\* What is sampled does not change, so neither does the layout.
LEMMA SameMode ==
  ASSUME mode' = mode
  PROVE  /\ NipsAt' = NipsAt /\ AfterLen' = AfterLen
         /\ \A s, h, l : Laid(s, h, l)' <=> Laid(s, h, l)
         /\ \A s : Records(s)' <=> Records(s)
         /\ \A td, k, l, n : Expecting(td, k, l, n)' <=> Expecting(td, k, l, n)
<1>1. NipsAt' = NipsAt /\ AfterLen' = AfterLen
  BY DEF NipsAt, AfterLen
<1>2. \A s, h, l : Laid(s, h, l)' <=> Laid(s, h, l)
  BY <1>1 DEF Laid
<1>3. \A s, h : Record(s, h)' <=> Record(s, h)
  BY <1>2 DEF Record
<1>4. \A s : Records(s)' <=> Records(s)
  BY <1>3 DEF Records
<1>5. \A x, c : Expected(x, c)' = Expected(x, c)
  BY <1>1 DEF Expected, ExpectedProfiling, ExpectedLl
<1>6. \A td, x, y, c : Suffix(td, x, y, c)' <=> Suffix(td, x, y, c)
  BY <1>5 DEF Suffix
<1>7. \A td, k, l, n : Expecting(td, k, l, n)' <=> Expecting(td, k, l, n)
  BY <1>1, <1>6 DEF Expecting
<1>8. QED
  BY <1>1, <1>2, <1>4, <1>7

\* Nor does the place of the reader in its record, if nothing of it changes.
LEMMA ReadingNow ==
  ASSUME UNCHANGED <<mode, base, log, tail, left, todo, nips, rec>>
  PROVE  \A h, l : Reading(h, l)' <=> Reading(h, l)
<1>1. NipsAt' = NipsAt /\ \A h, l : Laid(log, h, l)' <=> Laid(log, h, l)
  BY SameMode
<1>2. \A h, l : Expecting(todo, log[h].n - left, l, left)'
                <=> Expecting(todo, log[h].n - left, l, left)
  BY SameMode
<1> SUFFICES ASSUME NEW h, NEW l PROVE Reading(h, l)' <=> Reading(h, l)
  OBVIOUS
<1>3. Laid(log, h, l)' <=> Laid(log, h, l)
  BY <1>1
<1>4. Expecting(todo, log[h].n - left, l, left)'
      <=> Expecting(todo, log[h].n - left, l, left)
  BY <1>2
<1>5. QED
  BY <1>1, <1>3, <1>4 DEF Reading

\* The kernel's room is what the reader has left.
LEMMA Room ==
  ASSUME Types, Behind, NEW n \in Nat, n >= 1,
         ((DataHead - tail) % Size) + n < Size,
         base' = base, tail' = tail, strayed' = strayed,
         DataHead' = DataHead + n
  PROVE  Behind'
<1>0. /\ DataHead \in Int /\ tail \in Int /\ Size \in Nat \ {0} /\ base \in Int
      /\ DataHead - tail < Size /\ base <= tail
  BY LogFacts DEF Types, Behind
<1>1. PICK a \in Int : a = DataHead - tail
  BY <1>0
<1>2. (a % Size) + n < Size /\ a < Size
  BY <1>0, <1>1
<1>3. CASE tail <= DataHead
  <2>1. a = Size * 0 + a /\ 0 <= a
    BY <1>0, <1>1, <1>3
  <2>2. a % Size = a
    BY <1>0, <1>2, <2>1, ModUnique
  <2>3. DataHead + n - tail < Size /\ tail <= DataHead + n
    BY <1>0, <1>1, <1>2, <1>3, <2>2
  <2>4. QED
    BY <1>0, <2>3 DEF Behind
<1>4. CASE ~(tail <= DataHead)
  <2>1. strayed /\ tail - DataHead <= Size /\ ToInt(tail) < Size - HalfInt
    BY <1>4 DEF Behind
  <2>2. a >= -Size /\ a < 0
    BY <1>0, <1>1, <1>4, <2>1
  <2>3. DataHead + n < tail
    <3>1. CASE a = -Size
      <4>1. a = Size * (-1) + 0 /\ 0 < Size
        BY <1>0, <3>1
      <4>2. a % Size = 0
        BY <1>0, <4>1, ModUnique
      <4>3. n < Size
        BY <1>2, <4>2
      <4>4. QED
        BY <1>0, <1>1, <3>1, <4>3
    <3>2. CASE a > -Size
      <4>1. PICK r \in Int : r = Size + a
        BY <1>0
      <4>2. a = Size * (-1) + r /\ 0 <= r /\ r < Size
        BY <1>0, <2>2, <3>2, <4>1
      <4>3. a % Size = r
        BY <1>0, <4>2, ModUnique
      <4>4. QED
        BY <1>0, <1>1, <1>2, <4>1, <4>3
    <3>3. QED
      BY <1>0, <2>2, <3>1, <3>2
  <2>4. /\ DataHead + n - tail < Size /\ tail - (DataHead + n) <= Size
    BY <1>0, <2>1, <2>3
  <2>5. base' <= tail' /\ ToInt(tail') < Size - HalfInt /\ strayed'
    BY <1>0, <2>1
  <2>6. DataHead' - tail' < Size /\ tail' - DataHead' <= Size
    BY <1>0, <2>4
  <2>7. QED
    BY <2>5, <2>6 DEF Behind
<1>5. QED
  BY <1>3, <1>4

\* What is read is still there when the kernel has written on.
LEMMA ReadingKept ==
  ASSUME Types, Records(log), NEW h \in 1..Len(log), NEW l \in Nat, Reading(h, l),
         \A p \in 1..Len(log) : log'[p] = log[p],
         UNCHANGED <<mode, base, tail, left, todo, nips, rec>>
  PROVE  Reading(h, l)'
<1>1. IsHead(log[h]) /\ log[h].n \in Nat /\ mode \in Modes
  BY LogFacts DEF Reading, IsHead, Types
<1>2. h + log[h].n <= Len(log) /\ Len(log) \in Nat
  BY <1>1, RecordAt, LogFacts
<1>3. \A x \in 0..log[h].n : log'[h + x] = log[h + x]
  <2>1. TAKE x \in 0..log[h].n
  <2>2. h + x \in 1..Len(log)
    BY <1>1, <1>2
  <2>3. QED
    BY <2>2
<1>4. Laid(log, h, l) /\ h \in Int
  BY DEF Reading
<1>5. Laid(log', h, l)
  BY <1>1, <1>3, <1>4, LaidMoved
<1>6. Laid(log, h, l)'
  BY <1>5, SameMode
<1>7. log'[h] = log[h]
  OBVIOUS
<1>8. Expecting(todo, log[h].n - left, l, left)'
  BY <1>7, SameMode DEF Reading
<1>9. NipsAt' = NipsAt
  BY SameMode
<1>10. QED
  BY <1>6, <1>7, <1>8, <1>9 DEF Reading

\* The kernel adds a record to those that there are.
LEMMA Written ==
  ASSUME Core, Write
  PROVE  /\ \E w : Longer(log, w, log') /\ NewRecord(w, NextRecord)
                   /\ ((DataHead - tail) % Size) + Len(w) < Size
<1>0. mode \in Modes /\ log \in Seq(WordType)
  BY DEF Core, Types
<1>1. PICK w : /\ \/ w = Other(NextRecord)
                  \/ \E v \in Whos[mode], c \in Chains : w = Sample(NextRecord, v, c)
               /\ ((DataHead - tail) % Size) + Len(w) < Size
               /\ log' = log \o w
  <2> DEFINE Fresh == {Sample(NextRecord, v, c) : v \in Whos[mode], c \in Chains}
             Fits(w) == ((DataHead - tail) % Size) + Len(w) < Size
  <2>1. PICK w \in {Other(NextRecord)} \union Fresh : Fits(w) /\ log' = log \o w
    BY ONLY Write DEF Write
  <2>2. ASSUME w \in Fresh
        PROVE  \E v \in Whos[mode], c \in Chains : w = Sample(NextRecord, v, c)
    BY ONLY <2>2
  <2> HIDE DEF Fresh, Fits
  <2>3. w = Other(NextRecord) \/ w \in Fresh
    BY ONLY <2>1
  <2>4. Fits(w) /\ log' = log \o w
    BY ONLY <2>1
  <2>5. QED
    BY ONLY <2>2, <2>3, <2>4, Zenon DEF Fits
<1>2. NextRecord \in Nat
  <2>1. CASE log = <<>>
    BY <2>1 DEF NextRecord
  <2>2. CASE log # <<>>
    <3>1. Len(log) \in 1..Len(log)
      BY <1>0, <2>2, EmptySeq
    <3>2. log[Len(log)].rec \in Nat
      BY <3>1, LogFacts DEF Core
    <3>3. QED
      BY <2>2, <3>2 DEF NextRecord
  <2>3. QED
    BY <2>1, <2>2
<1>3. (DataHead - tail) % Size \in Nat
  <2>1. DataHead - tail \in Int
    BY LogFacts DEF Core, Types
  <2>2. PICK a \in Int : a = DataHead - tail
    BY <2>1
  <2>3. a % Size \in Nat
    BY DivMod
  <2>4. QED
    BY <2>2, <2>3
<1>6. ASSUME NEW x, NewRecord(x, NextRecord), log' = log \o x
      PROVE  Longer(log, x, log')
  <2>1. NextRecord = Following(log)
    BY DEF NextRecord, Following
  <2>2. Records(log) /\ Numbered(log)
    BY DEF Core
  <2>3. QED
    BY <1>0, <1>2, <1>6, <2>1, <2>2, Grown, Zenon
<1>4. CASE w = Other(NextRecord)
  <2>1. w = <<Word("other", 1, "idle", NextRecord), Word("body", 0, "idle", NextRecord)>>
    BY <1>4 DEF Other
  <2>2. Len(w) = 2
    BY <2>1
  <2>3. Len(w) <= Size
    BY <1>1, <1>3, <2>2
  <2>4. NewRecord(w, NextRecord)
    BY <1>2, <1>4, <2>3, OtherWritten
  <2>5. Longer(log, w, log')
    BY <1>0, <1>1, <1>2, <1>6, <2>4
  <2>6. QED
    BY <1>1, <2>4, <2>5
<1>5. ASSUME NEW v \in Whos[mode], NEW c \in Chains, w = Sample(NextRecord, v, c)
      PROVE  \E x : Longer(log, x, log') /\ NewRecord(x, NextRecord)
                    /\ ((DataHead - tail) % Size) + Len(x) < Size
  <2>1. v \in WhoType
    BY <1>0 DEF Whos, WhoType, Modes
  <2>2. Len(w) \in Nat
    <3>1. c \in Seq({"user", "kernel"})
      OBVIOUS
    <3>2. PICK fs : fs = Fields(mode, c)
      OBVIOUS
    <3>3. fs \in Seq(BodyField)
      BY <1>0, <3>1, <3>2, FieldsOf
    <3>4. Len(fs) \in Nat
      BY <3>3, LenProperties
    <3> DEFINE b == [k \in 1..Len(fs) |->
                       Word(fs[k], CASE fs[k] = "nr" -> NEvents
                                     [] fs[k] = "nips" -> Len(c)
                                     [] OTHER -> 0, v, NextRecord)]
               h == <<Word("sample", Len(fs), v, NextRecord)>>
               T == {b[k] : k \in 1..Len(fs)} \union {Word("sample", Len(fs), v, NextRecord)}
    <3>5. \A k \in 1..Len(fs) : b[k] \in T
      OBVIOUS
    <3>6. h \in Seq(T)
      OBVIOUS
    <3>7. b \in [1..Len(fs) -> T]
      BY <3>5
    <3>8. w = h \o b
      BY <1>5, <3>2 DEF Sample
    <3> HIDE DEF T, b, h
    <3>9. b \in Seq(T)
      BY <3>4, <3>7, SeqDef
    <3>10. w \in Seq(T)
      BY <3>6, <3>8, <3>9, ConcatProperties
    <3>11. QED
      BY <3>10, LenProperties
  <2>3. Len(w) <= Size
    BY <1>1, <1>3, <2>2
  <2>4. NewRecord(w, NextRecord)
    BY <1>0, <1>2, <1>5, <2>1, <2>3, SampleWritten
  <2>5. Longer(log, w, log')
    BY <1>0, <1>1, <1>2, <1>6, <2>4
  <2>6. QED
    BY <1>1, <2>4, <2>5
<1>7. QED
  BY <1>1, <1>4, <1>5

\* The invariant is kept by the kernel.
LEMMA WriteCore ==
  ASSUME Core, Write
  PROVE  Core'
<1>0. /\ UNCHANGED <<mode, base, tail, pc, keep, left, todo, nips, rec, out,
                    strayed, jumped>>
  BY DEF Write
<1>1. Types
  BY DEF Core
<1>2. PICK w : Longer(log, w, log') /\ NewRecord(w, NextRecord)
               /\ ((DataHead - tail) % Size) + Len(w) < Size
  BY Written
<1>3. Len(w) \in Nat /\ Len(w) >= 2
  BY <1>2, LenProperties DEF NewRecord
<1>4. /\ log' \in Seq(WordType) /\ Len(log') = Len(log) + Len(w)
      /\ \A p \in 1..Len(log) : log'[p] = log[p]
      /\ IsHead(log'[Len(log) + 1]) /\ Records(log') /\ Numbered(log')
  BY <1>2 DEF Longer
<1>5. DataHead' = DataHead + Len(w) /\ Len(log) \in Nat /\ DataHead = base + Len(log)
  <2>1. Len(log) \in Nat /\ base \in Int /\ DataHead = base + Len(log)
    BY <1>1, LogFacts DEF Types
  <2>2. DataHead' = base + Len(log')
    BY <1>0 DEF DataHead
  <2>3. QED
    BY <1>3, <1>4, <2>1, <2>2
<1>6. Types'
  BY <1>0, <1>1, <1>4 DEF Types
<1>7. Records(log)' /\ Numbered(log)'
  <2>1. Records(log)'
    BY <1>0, <1>4, SameMode
  <2>2. Numbered(log)'
    BY <1>4 DEF Numbered
  <2>3. QED
    BY <2>1, <2>2
<1>8. Behind'
  BY <1>0, <1>1, <1>2, <1>3, <1>5, Room DEF Core
<1>9. ASSUME pc # "fields", ~strayed PROVE Boundary(tail)'
  <2>1. Boundary(tail) /\ tail <= DataHead /\ base <= tail
    BY <1>9 DEF Core, Framing, Behind
  <2>2. tail \in Int /\ base \in Int
    BY <1>1 DEF Types
  <2>3. PICK i \in Int : i = (tail + 1) - base
    BY <2>2
  <2>4. CASE tail = DataHead
    <3>1. i = Len(log) + 1
      BY <1>5, <2>2, <2>3, <2>4
    <3>2. IsHead(log'[(tail + 1) - base])
      BY <1>4, <2>3, <3>1
    <3>3. QED
      BY <1>0, <3>2 DEF Boundary, AtPos, IsHead
  <2>5. CASE tail # DataHead
    <3>1. i \in 1..Len(log)
      BY <1>5, <2>1, <2>2, <2>3, <2>5
    <3>2. log[i].field \in {"sample", "other"}
      BY <2>1, <2>3, <2>5 DEF Boundary, AtPos
    <3>3. log'[(tail + 1) - base].field \in {"sample", "other"}
      BY <1>4, <2>3, <3>1, <3>2
    <3>4. QED
      BY <1>0, <3>3 DEF Boundary, AtPos
  <2>6. QED
    BY <2>4, <2>5
<1>10. ASSUME pc = "fields"
       PROVE  \E h \in 1..Len(log'), l \in Nat : Reading(h, l)'
  <2>1. PICK h \in 1..Len(log), l \in Nat : Reading(h, l)
    BY <1>10 DEF Core, Framing
  <2>2. Reading(h, l)'
    BY <1>0, <1>1, <1>4, <1>5, <2>1, ReadingKept DEF Core
  <2>3. h \in 1..Len(log')
    BY <1>3, <1>4, <1>5
  <2>4. QED
    BY <2>2, <2>3
<1>11. Framing'
  BY <1>0, <1>9, <1>10 DEF Framing, Core
<1>12. QED
  BY <1>6, <1>7, <1>8, <1>11 DEF Core

\* What the field to come says of the place in the record.
NextIs(td, k, l) ==
  /\ td[1] = "ip" => k >= NipsAt
  /\ td[1] = "id" <=> k = 0
  /\ td[1] = "weight" => mode = "ll" /\ (k = 4 + l \/ l > IpNum)

LEMMA NextField ==
  ASSUME mode \in Modes, NEW td \in Seq(TodoField),
         NEW k \in Nat, NEW l \in Nat, NEW n \in Nat \ {0},
         k + n = NipsAt + l + AfterLen, Expecting(td, k, l, n)
  PROVE  NextIs(td, k, l)
<1>0. NipsAt \in Nat /\ NEvents \in Nat \ {0} /\ NipsAt >= 4
  BY DEF NipsAt
<1> USE DEF Expected, ExpectedProfiling, ExpectedLl
<1>1. CASE mode = "profiling" /\ k < 2 /\ Suffix(td, k, 2, l)
  <2>1. TailOf(td, k, 2, l)
    BY <1>1, SuffixTail
  <2>2. td[1] = Expected(k + 1, l)
    BY <2>1 DEF TailOf
  <2>3. CASE k = 0
    BY <1>1, <2>2, <2>3 DEF NextIs
  <2>4. CASE k = 1
    BY <1>1, <2>2, <2>4 DEF NextIs
  <2>5. QED
    BY <1>1, <2>3, <2>4
<1>2. CASE mode = "profiling" /\ 2 <= k /\ k < NipsAt /\ Suffix(td, k, NipsAt, l)
  <2>1. TailOf(td, k, NipsAt, l)
    BY <1>0, <1>2, SuffixTail
  <2>2. td[1] = Expected(k + 1, l)
    BY <2>1 DEF TailOf
  <2>3. td[1] \in {"enabled", "running", "value", "nips"}
    BY <1>0, <1>2, <2>2
  <2>4. QED
    BY <1>2, <2>3 DEF NextIs
<1>3. CASE mode = "profiling" /\ NipsAt <= k /\ Suffix(td, k, NipsAt + l, l)
  <2>0. AfterLen = 0 /\ k < NipsAt + l
    BY <1>0, <1>3 DEF AfterLen
  <2>1. TailOf(td, k, NipsAt + l, l)
    BY <1>0, <1>3, <2>0, SuffixTail
  <2>2. td[1] = Expected(k + 1, l)
    BY <2>1 DEF TailOf
  <2>3. td[1] = "ip"
    BY <1>0, <1>3, <2>2
  <2>4. QED
    BY <1>0, <1>3, <2>3 DEF NextIs
<1>4. CASE mode = "ll" /\ k < 4 /\ Suffix(td, k, 6, 0)
  <2>1. TailOf(td, k, 6, 0)
    BY <1>4, SuffixTail
  <2>2. td[1] = Expected(k + 1, 0)
    BY <2>1 DEF TailOf
  <2>3. td[1] \in {"id", "addr", "cpu", "nips"} /\ (td[1] = "id" <=> k = 0)
    <3>1. CASE k = 0
      BY <1>4, <2>2, <3>1
    <3>2. CASE k = 1
      BY <1>4, <2>2, <3>2
    <3>3. CASE k = 2
      BY <1>4, <2>2, <3>3
    <3>4. CASE k = 3
      BY <1>4, <2>2, <3>4
    <3>5. QED
      BY <1>4, <3>1, <3>2, <3>3, <3>4
  <2>4. QED
    BY <2>3 DEF NextIs
<1>5. CASE mode = "ll" /\ 4 <= k /\ Suffix(td, k, 6 + l, l)
  <2>0. NipsAt = 4 /\ AfterLen = 2 /\ k < 6 + l
    BY <1>5 DEF NipsAt, AfterLen
  <2>1. TailOf(td, k, 6 + l, l)
    BY <1>5, <2>0, SuffixTail
  <2>2. td[1] = Expected(k + 1, l)
    BY <2>1 DEF TailOf
  <2>3. td[1] # "id" /\ (td[1] = "weight" => k = 4 + l)
    BY <1>5, <2>2
  <2>4. QED
    BY <1>5, <2>0, <2>3 DEF NextIs
<1>6. CASE /\ mode = "ll" /\ l > IpNum /\ 5 <= k
           /\ \/ n >= 2 /\ Suffix(td, 4, 6, 0)
              \/ Suffix(td, 5, 6, 0)
  <2>0. NipsAt = 4
    BY <1>6 DEF NipsAt
  <2>1. td[1] = Expected(5, 0) \/ td[1] = Expected(6, 0)
    <3>1. CASE Suffix(td, 4, 6, 0)
      <4>1. TailOf(td, 4, 6, 0)
        BY <3>1, SuffixTail
      <4>2. QED
        BY <4>1 DEF TailOf
    <3>2. CASE Suffix(td, 5, 6, 0)
      <4>1. TailOf(td, 5, 6, 0)
        BY <3>2, SuffixTail
      <4>2. QED
        BY <4>1 DEF TailOf
    <3>3. QED
      BY <1>6, <3>1, <3>2
  <2>2. td[1] \in {"weight", "src"}
    BY <1>6, <2>1
  <2>3. QED
    BY <1>6, <2>0, <2>2 DEF NextIs
<1>7. QED
  BY <1>1, <1>2, <1>3, <1>4, <1>5, <1>6 DEF Expecting

\* The word that comes next within a record.
WordIs(h, l, k, w) ==
  /\ k \in Nat /\ k = log[h].n - left /\ k + left = NipsAt + l + AfterLen
  /\ left \in Nat \ {0} /\ k + 1 <= log[h].n /\ h + log[h].n <= Len(log)
  /\ tail < DataHead /\ (tail - base) + 1 = h + (k + 1)
  /\ At(tail) = w /\ w = log[h + (k + 1)] /\ w \in WordType
  /\ w.rec = log[h].rec /\ w.who = log[h].who
  /\ mode = "profiling" /\ k = 1 => w.n = NEvents
  /\ k + 1 = NipsAt => w.n = l
  /\ mode = "ll" /\ k = 4 + l => w.field = "weight"
  /\ mode = "ll" /\ k + 1 = 6 + l => w.field = "src"
  /\ todo # <<>> /\ NextIs(todo, k, l)

LEMMA InRecord ==
  ASSUME Core, NEW h \in 1..Len(log), NEW l \in Nat, Reading(h, l)
  PROVE  \E k, w : WordIs(h, l, k, w)
<1>0. /\ Types /\ Records(log) /\ Behind /\ mode \in Modes
      /\ todo \in Seq(TodoField) /\ tail \in Int /\ base \in Int /\ left \in Int
  BY DEF Core, Types
<1>1. IsHead(log[h])
  BY DEF Reading, IsHead
<1>2. PICK n \in Nat : n = log[h].n
  BY <1>0, LogFacts
<1>3. /\ n \in 1..(Size - 1) /\ h + n <= Len(log)
      /\ \A q \in (h + 1)..(h + n) :
           ~IsHead(log[q]) /\ log[q].rec = log[h].rec /\ log[q].who = log[h].who
  BY <1>0, <1>1, <1>2, RecordAt
<1>4. /\ left \in 1..n /\ tail - base = h + (n - left)
      /\ Laid(log, h, l) /\ Expecting(todo, n - left, l, left)
  BY <1>2 DEF Reading
<1>5. PICK k \in Nat : k = n - left
  BY <1>0, <1>4
<1>6. n = NipsAt + l + AfterLen /\ NipsAt \in Nat /\ AfterLen \in Nat
  BY <1>2, <1>4 DEF Laid, NipsAt, AfterLen
<1>7. /\ k + left = NipsAt + l + AfterLen /\ left \in Nat \ {0} /\ k + 1 <= n
      /\ (tail - base) + 1 = h + (k + 1) /\ h + (k + 1) \in (h + 1)..(h + n)
  BY <1>0, <1>4, <1>5, <1>6
<1>8. CanRead /\ DataHead \in Int
  <2>1. DataHead = base + Len(log) /\ Len(log) \in Nat
    BY <1>0, LogFacts
  <2>2. DataHead - tail >= 1
    BY <1>0, <1>3, <1>7, <2>1
  <2>3. QED
    BY <1>0, <2>1, <2>2 DEF CanRead
<1>9. PICK w : w = log[h + (k + 1)]
  OBVIOUS
<1>10. tail < DataHead /\ At(tail) = w /\ w \in WordType
  BY <1>0, <1>7, <1>8, <1>9, Here
<1>11. w.rec = log[h].rec /\ w.who = log[h].who
  BY <1>3, <1>7, <1>9
<1>12. mode = "profiling" /\ k = 1 => w.n = NEvents
  <2>1. k = 1 => h + (k + 1) = h + 2
    OBVIOUS
  <2>2. QED
    BY <1>4, <1>9, <2>1 DEF Laid
<1>13. k + 1 = NipsAt => w.n = l
  BY <1>4, <1>9 DEF Laid
<1>14. ASSUME mode = "ll", k = 4 + l PROVE w.field = "weight"
  <2>1. h + (k + 1) = h + l + 5
    BY <1>14
  <2>2. QED
    BY <1>4, <1>9, <1>14, <2>1 DEF Laid
<1>15. ASSUME mode = "ll", k + 1 = 6 + l PROVE w.field = "src"
  <2>1. h + (k + 1) = h + l + 6
    BY <1>15
  <2>2. QED
    BY <1>4, <1>9, <1>15, <2>1 DEF Laid
<1>16. Expecting(todo, k, l, left)
  BY <1>4, <1>5
<1>17. NextIs(todo, k, l)
  BY <1>0, <1>7, <1>16, NextField
<1>18. todo # <<>>
  <2>1. 0 \in Nat /\ (0 = 0 \/ 0 <= k + 1 - NipsAt)
    OBVIOUS
  <2>2. todo # <<>> /\ ReadOn(After(w, 0), k + 1, l, left - 1)
    BY <1>0, <1>7, <1>10, <1>12, <1>13, <1>16, <2>1, AfterField
  <2>3. QED
    BY <2>2
<1>19. QED
  BY <1>2, <1>3, <1>5, <1>7, <1>9, <1>10, <1>11, <1>12, <1>13, <1>14, <1>15,
     <1>17, <1>18 DEF WordIs

\* What a read field leaves.
NextNips(w) == IF todo[1] = "ip" /\ w.field = "user" THEN nips + 1 ELSE nips

RecRead(h, l) ==
  /\ rec' \in RecType
  /\ rec'.rec = log[h].rec /\ rec'.who = log[h].who
  /\ rec'.weight \in {"none", "weight"} \/ (mode = "ll" /\ l > IpNum)

FieldRead(h, l, k) ==
  /\ UNCHANGED <<mode, base, log, keep, strayed>>
  /\ todo' \in Seq(TodoField) /\ left' = left - 1
  /\ nips' \in Nat /\ (nips' = 0 \/ nips' <= (k + 1) - NipsAt)
  /\ RecRead(h, l)
  /\ \/ /\ left' > 0 /\ Expecting(todo', k + 1, l, left')
        /\ tail' = tail + 1
        /\ UNCHANGED <<pc, out, jumped>>
     \/ /\ pc' = "header"
        /\ tail' = Finished(tail + 1, left')
        /\ jumped' = (jumped \/ (left' > 0 /\ Jumps(tail + 1, left')))
        /\ \/ out' = Append(out, rec') /\ log[h].who = "user"
           \/ out' = out /\ (log[h].who # "user" \/ (mode = "ll" /\ l > IpNum))

LEMMA ReadOne ==
  ASSUME Core, ReadField, NEW h \in 1..Len(log), NEW l \in Nat, Reading(h, l),
         NEW k, NEW w, WordIs(h, l, k, w)
  PROVE  FieldRead(h, l, k)
<1>0. /\ Types /\ mode \in Modes /\ todo \in Seq(TodoField) /\ nips \in Nat
      /\ rec \in RecType
  BY DEF Core, Types
<1>1. /\ k \in Nat /\ k = log[h].n - left /\ k + left = NipsAt + l + AfterLen
      /\ left \in Nat \ {0}
      /\ At(tail) = w /\ w \in WordType
      /\ w.rec = log[h].rec /\ w.who = log[h].who
      /\ (mode = "profiling" /\ k = 1 => w.n = NEvents)
      /\ (k + 1 = NipsAt => w.n = l)
      /\ (mode = "ll" /\ k = 4 + l => w.field = "weight")
      /\ (mode = "ll" /\ k + 1 = 6 + l => w.field = "src")
      /\ NextIs(todo, k, l)
  BY DEF WordIs
<1>2. PICK j : j = NextNips(w)
  OBVIOUS
<1>3. j \in Nat /\ (j = 0 \/ j <= k + 1 - NipsAt)
  <2>0. NipsAt \in Nat
    BY DEF NipsAt
  <2>1. nips = 0 \/ nips <= k - NipsAt
    BY <1>1 DEF Reading
  <2>2. CASE todo[1] = "ip" /\ w.field = "user"
    <3>1. k >= NipsAt
      BY <1>1, <2>2 DEF NextIs
    <3>2. j = nips + 1
      BY <1>2, <2>2 DEF NextNips
    <3>3. k \in Int /\ nips \in Nat
      BY <1>0, <1>1
    <3>4. nips + 1 <= k + 1 - NipsAt
      BY <2>0, <2>1, <3>1, <3>3
    <3>5. QED
      BY <3>2, <3>3, <3>4
  <2>3. CASE ~(todo[1] = "ip" /\ w.field = "user")
    <3>1. j = nips
      BY <1>2, <2>3 DEF NextNips
    <3>2. QED
      BY <1>0, <1>1, <2>0, <2>1, <3>1
  <2>4. QED
    BY <2>2, <2>3
<1>4. Expecting(todo, k, l, left)
  BY <1>1 DEF Reading
<1>5. ReadOn(After(w, j), k + 1, l, left - 1)
  BY <1>0, <1>1, <1>3, <1>4, AfterField
<1>6. /\ UNCHANGED <<mode, base, log, keep, strayed>>
      /\ todo' = After(w, j) /\ left' = left - 1 /\ nips' = j
      /\ rec' = CASE todo[1] = "id" -> [rec EXCEPT !.rec = w.rec, !.who = w.who]
                  [] todo[1] = "weight" -> [rec EXCEPT !.weight = w.field]
                  [] OTHER -> rec
  BY <1>1, <1>2 DEF ReadField, NextNips
<1>7. RecRead(h, l)
  <2>1. /\ w.rec \in Nat /\ w.who \in WhoType
        /\ w.field \in BodyField \union {"sample", "other", "none"}
    BY <1>1 DEF WordType
  <2>2. /\ k >= 1 => rec.rec = log[h].rec /\ rec.who = log[h].who
        /\ rec.weight \in {"none", "weight"} \/ (mode = "ll" /\ l > IpNum)
    BY <1>1 DEF Reading
  <2>3. CASE todo[1] = "id"
    <3>1. rec' = [rec EXCEPT !.rec = w.rec, !.who = w.who]
      BY <1>6, <2>3
    <3>2. /\ rec' \in RecType /\ rec'.rec = w.rec /\ rec'.who = w.who
          /\ rec'.weight = rec.weight
      BY <1>0, <2>1, <3>1 DEF RecType
    <3>3. QED
      BY <1>1, <2>2, <3>2 DEF RecRead
  <2>4. CASE todo[1] = "weight"
    <3>1. rec' = [rec EXCEPT !.weight = w.field]
      BY <1>6, <2>4
    <3>2. /\ rec' \in RecType /\ rec'.rec = rec.rec /\ rec'.who = rec.who
          /\ rec'.weight = w.field
      BY <1>0, <2>1, <3>1 DEF RecType
    <3>3. k >= 1 /\ mode = "ll" /\ (k = 4 + l \/ l > IpNum)
      BY <1>1, <2>4 DEF NextIs
    <3>4. w.field = "weight" \/ (mode = "ll" /\ l > IpNum)
      BY <1>1, <3>3
    <3>5. QED
      BY <2>2, <3>2, <3>3, <3>4 DEF RecRead
  <2>5. CASE todo[1] # "id" /\ todo[1] # "weight"
    <3>1. rec' = rec
      BY <1>6, <2>5
    <3>2. k >= 1
      BY <1>1, <2>5 DEF NextIs
    <3>3. QED
      BY <1>0, <2>2, <3>1, <3>2 DEF RecRead
  <2>6. QED
    BY <2>3, <2>4, <2>5
<1>8. todo' \in Seq(TodoField) /\ nips' \in Nat /\ (nips' = 0 \/ nips' <= (k + 1) - NipsAt)
  <2>1. todo' = After(w, j) /\ nips' = j
    BY <1>6
  <2>2. todo' \in Seq(TodoField)
    BY <1>5, <2>1 DEF ReadOn
  <2>3. nips' = j
    BY <1>6
  <2>4. nips' \in Nat /\ (nips' = 0 \/ nips' <= (k + 1) - NipsAt)
    <3>1. k \in Nat /\ NipsAt \in Nat
      BY <1>1 DEF NipsAt
    <3>2. QED
      BY <1>3, <2>3, <3>1
  <2>5. QED
    BY <2>2, <2>4
<1>9. CASE todo' # <<>>
  <2>1. tail' = tail + 1 /\ UNCHANGED <<pc, out, jumped>>
    BY <1>9 DEF ReadField
  <2>2. left' > 0 /\ Expecting(todo', k + 1, l, left')
    BY <1>5, <1>6, <1>9 DEF ReadOn
  <2>3. QED
    BY <1>6, <1>7, <1>8, <2>1, <2>2 DEF FieldRead
<1>10. CASE todo' = <<>>
  <2>1. /\ pc' = "header" /\ tail' = Finished(tail + 1, left')
        /\ jumped' = (jumped \/ (left' > 0 /\ Jumps(tail + 1, left')))
        /\ \E addr \in HasAddr(w) : Update(rec', addr)
    BY <1>1, <1>6, <1>10 DEF ReadField
  <2>2. PICK addr \in HasAddr(w) : Update(rec', addr)
    BY <2>1
  <2>3. mode = "profiling" \/ l > IpNum \/ k + 1 = 6 + l
    BY <1>5, <1>6, <1>10 DEF ReadOn
  <2>4. addr \in BOOLEAN /\ (~addr => mode = "ll" /\ l > IpNum)
    <3>1. CASE mode = "ll" /\ w.field # "src"
      BY <1>1, <2>3, <3>1 DEF HasAddr, Modes
    <3>2. CASE ~(mode = "ll" /\ w.field # "src")
      BY <3>2 DEF HasAddr
    <3>3. QED
      BY <3>1, <3>2
  <2>5. rec'.who = log[h].who
    BY <1>7 DEF RecRead
  <2>6. \/ out' = Append(out, rec') /\ log[h].who = "user"
        \/ out' = out /\ (log[h].who # "user" \/ (mode = "ll" /\ l > IpNum))
    <3>1. CASE rec'.who = "user" /\ addr
      BY <2>2, <2>5, <3>1 DEF Update
    <3>2. CASE ~(rec'.who = "user" /\ addr)
      BY <2>2, <2>4, <2>5, <3>2 DEF Update
    <3>3. QED
      BY <3>1, <3>2
  <2>7. QED
    BY <1>6, <1>7, <1>8, <2>1, <2>6 DEF FieldRead
<1>11. QED
  BY <1>9, <1>10

\* Where a record that is read leaves the reader.
LEMMA ReadToEnd ==
  ASSUME Core, NEW h \in 1..Len(log), NEW l \in Nat, Reading(h, l),
         NEW k, NEW w, WordIs(h, l, k, w),
         tail' = Finished(tail + 1, left - 1)
  PROVE  /\ SkipEnds(tail + 1, left - 1, tail') /\ tail' <= DataHead
         /\ base <= tail + 1 /\ tail + 1 <= DataHead
         /\ ((tail + 1) + (left - 1)) - base = h + log[h].n
<1>0. /\ Types /\ Behind /\ tail \in Int /\ base \in Int /\ DataHead \in Int
      /\ DataHead = base + Len(log) /\ Len(log) \in Nat /\ h \in Int
  BY LogFacts DEF Core, Types
<1>1. PICK n \in Nat : n = log[h].n
  BY <1>0, LogFacts
<1>2. PICK m \in Nat \ {0} : m = left
  BY DEF WordIs
<1>3. k \in Int /\ k = n - m /\ h + n <= Len(log) /\ tail < DataHead
  BY <1>1, <1>2 DEF WordIs
<1>4. (tail - base) + 1 = h + (k + 1)
  BY DEF WordIs
<1>5. tail = base + h + k
  BY <1>0, <1>3, <1>4
<1>6. base <= tail /\ DataHead - tail < Size
  BY <1>0 DEF Behind
<1>7. n <= Size
  <2>1. IsHead(log[h]) /\ Records(log)
    BY DEF Core, Reading, IsHead
  <2>2. log[h].n \in 1..(Size - 1)
    BY <1>0, <2>1, RecordAt
  <2>3. QED
    BY <1>1, <2>2
<1>8. ((tail + 1) + (m - 1)) - base = h + n
  BY <1>0, <1>3, <1>5
<1>9. /\ (tail + 1) + (m - 1) <= DataHead /\ m <= Size
      /\ base <= tail + 1 /\ tail + 1 <= DataHead
      /\ DataHead - (tail + 1) < Size
  <2>1. (tail + 1) + (m - 1) <= DataHead
    BY <1>0, <1>3, <1>5
  <2>2. base <= tail + 1 /\ tail + 1 <= DataHead /\ DataHead - (tail + 1) < Size
    BY <1>0, <1>3, <1>6
  <2>3. m <= Size
    <3>1. k >= 0
      BY DEF WordIs
    <3>2. QED
      BY <1>3, <1>7, <3>1
  <2>4. QED
    BY <2>1, <2>2, <2>3
<1>10. CASE m - 1 > 0
  <2>1. tail' = Skipped(tail + 1, m - 1)
    BY <1>2, <1>10 DEF Finished
  <2>2. tail + 1 \in Int /\ m - 1 \in Nat /\ m - 1 <= Size
    BY <1>0, <1>9, <1>10
  <2>3. SkipEnds(tail + 1, m - 1, Skipped(tail + 1, m - 1))
    BY <1>0, <1>9, <2>2, SkipTo
  <2>4. SkipEnds(tail + 1, m - 1, tail')
    BY <2>1, <2>3
  <2>5. tail' <= DataHead
    BY <1>9, <2>4 DEF SkipEnds
  <2>6. QED
    BY <1>1, <1>2, <1>8, <1>9, <2>4, <2>5
<1>11. CASE m = 1
  <2>1. tail' = tail + 1 /\ m - 1 = 0
    BY <1>2, <1>11 DEF Finished
  <2>2. SkipEnds(tail + 1, 0, tail + 1)
    BY <1>0, <1>9 DEF SkipEnds
  <2>3. SkipEnds(tail + 1, m - 1, tail') /\ tail' <= DataHead
    BY <1>9, <2>1, <2>2
  <2>4. QED
    BY <1>1, <1>2, <1>8, <1>9, <2>3
<1>12. QED
  BY <1>10, <1>11

\* The reader moves; what the kernel has written stays.
LEMMA LogKept ==
  ASSUME Core, UNCHANGED <<mode, base, log>>
  PROVE  /\ Records(log)' /\ Numbered(log)' /\ DataHead' = DataHead
         /\ \A t : t = tail' /\ Boundary(t) => Boundary(tail)'
<1>1. Records(log) /\ Numbered(log)
  BY DEF Core
<1>2. Records(log)'
  BY <1>1, SameMode
<1>3. Numbered(log)' /\ DataHead' = DataHead
  BY <1>1 DEF Numbered, DataHead
<1>4. \A t : t = tail' /\ Boundary(t) => Boundary(tail)'
  BY <1>3 DEF Boundary, AtPos
<1>5. QED
  BY <1>2, <1>3, <1>4

\* A skip keeps the reader behind the kernel, or nearly.
LEMMA SkipBehind ==
  ASSUME Types, UNCHANGED <<base, log>>, NEW t \in Int, NEW n \in Nat,
         base <= t, SkipEnds(t, n, tail'), tail' <= DataHead \/ strayed'
  PROVE  tail' \in Int /\ Behind'
<1>1. base \in Int /\ DataHead \in Int /\ Size \in Nat /\ base' = base
  BY LogFacts DEF Types
<1>2. DataHead' = DataHead
  BY DEF DataHead
<1>3. ToInt(tail)' = ToInt(tail')
  BY DEF ToInt
<1>4. PICK s \in Int : s = tail'
  BY DEF SkipEnds
<1>5. /\ t <= s /\ DataHead - s < Size
      /\ \/ s <= DataHead
         \/ s - DataHead <= Size /\ ToInt(s) < Size - HalfInt
  BY <1>4 DEF SkipEnds
<1>6. base <= s
  BY <1>1, <1>4, <1>5
<1>7. \/ s <= DataHead
      \/ strayed' /\ s - DataHead <= Size /\ ToInt(s) < Size - HalfInt
  <2>1. s <= DataHead \/ strayed'
    BY <1>4
  <2>2. QED
    BY <1>5, <2>1
<1>8. QED
  BY <1>1, <1>2, <1>3, <1>4, <1>5, <1>6, <1>7 DEF Behind

LEMMA PassCore ==
  ASSUME Core, Start \/ End \/ StrayEnd
  PROVE  Core'
<1>1. /\ UNCHANGED <<mode, base, log, tail, left, todo, nips, rec, out,
                     strayed, jumped>>
      /\ pc # "fields" /\ pc' \in {"idle", "header", "stray"} /\ keep' \in BOOLEAN
      /\ pc' = "header" => ~strayed
      /\ pc' = "stray" => strayed
  BY DEF Start, End, StrayEnd, Core, Types
<1>2. Types' /\ Behind'
  BY <1>1 DEF Core, Types, Behind, DataHead, ToInt
<1>3. Framing'
  <2>1. ~strayed => Boundary(tail)
    BY <1>1 DEF Core, Framing
  <2>2. ~strayed' => Boundary(tail)'
    BY <1>1, <2>1, LogKept
  <2>3. QED
    BY <1>1, <2>2 DEF Framing
<1>4. QED
  BY <1>1, <1>2, <1>3, LogKept DEF Core

\* A reader that has strayed stays behind the kernel when it reads a word.
LEMMA StrayReadCore ==
  ASSUME Core, StrayRead
  PROVE  Core'
<1>1. /\ UNCHANGED <<mode, base, log, pc, keep, left, todo, nips, rec, strayed,
                     jumped>>
      /\ pc = "stray" /\ CanRead /\ tail' = tail + 1 /\ out' \in {out, WithJunk}
  BY DEF StrayRead
<1>2. Types /\ Behind /\ Framing
  BY DEF Core
<1>3. /\ tail \in Int /\ base \in Int /\ DataHead \in Int /\ Size \in Int
      /\ base <= tail /\ DataHead - tail < Size
  BY <1>2, LogFacts DEF Types, Behind
<1>4. tail + 1 <= DataHead
  BY <1>1, <1>3 DEF CanRead
<1>5. Behind'
  <2>1. base' = base /\ DataHead' = DataHead
    BY <1>1 DEF DataHead
  <2>2. base' <= tail' /\ DataHead' - tail' < Size /\ tail' <= DataHead'
    BY <1>1, <1>3, <1>4, <2>1
  <2>3. QED
    BY <2>2 DEF Behind
<1>6. out' \in Seq(RecType)
  <2>1. out \in Seq(RecType) /\ Junk \in RecType
    BY <1>2 DEF Types, Junk, RecType, WhoType
  <2>2. Append(out, Junk) \in Seq(RecType)
    BY <2>1, AppendProperties
  <2>3. QED
    BY <1>1, <2>1, <2>2 DEF WithJunk
<1>7. Types'
  BY <1>1, <1>2, <1>3, <1>6 DEF Types
<1>8. Framing'
  BY <1>1, <1>2 DEF Framing
<1>9. QED
  BY <1>1, <1>5, <1>7, <1>8, LogKept DEF Core

\* No length that it may find takes it further than a skip goes.
LEMMA StraySkipCore ==
  ASSUME Core, StraySkip
  PROVE  Core'
<1>1. /\ UNCHANGED <<mode, base, log, pc, keep, left, todo, nips, rec, out,
                     strayed, jumped>>
      /\ pc = "stray" /\ tail <= DataHead
  BY DEF StraySkip
<1>2. Types /\ Behind /\ Framing
  BY DEF Core
<1>3. PICK n \in 0..LenMax : tail' = Skipped(tail, n)
  BY DEF StraySkip
<1>4. n \in Nat /\ n <= Size
  BY RingBufferAssumption
<1>5. /\ tail \in Int /\ DataHead \in Int /\ base <= tail
      /\ DataHead - tail < Size
  BY <1>2, LogFacts DEF Types, Behind
<1>6. SkipEnds(tail, n, tail')
  <2>1. SkipEnds(tail, n, Skipped(tail, n))
    BY <1>1, <1>4, <1>5, SkipTo
  <2>2. QED
    BY <1>3, <2>1
<1>7. strayed /\ strayed'
  BY <1>1, <1>2 DEF Framing
<1>8. tail' \in Int /\ Behind'
  BY <1>1, <1>2, <1>4, <1>5, <1>6, <1>7, SkipBehind
<1>9. Types'
  BY <1>1, <1>2, <1>8 DEF Types
<1>10. Framing'
  BY <1>1, <1>2 DEF Framing
<1>11. QED
  BY <1>1, <1>8, <1>9, <1>10, LogKept DEF Core

\* A word that is skipped was a header; its record ends where the skip does, if
\* that did not end at the head.
LEMMA SkipCore ==
  ASSUME Core, SkipRecord
  PROVE  Core'
<1>1. /\ UNCHANGED <<mode, base, log, pc, keep, left, todo, nips, rec, strayed>>
      /\ pc = "header" /\ CanRead
  BY DEF SkipRecord
<1>2. Types /\ Records(log) /\ Behind /\ Framing
  BY DEF Core
<1>3. PICK w : w = At(tail)
  OBVIOUS
<1>4. /\ tail' = Skipped(tail + 1, w.n)
      /\ jumped' = (jumped \/ Jumps(tail + 1, w.n))
      /\ out' = IF w.field = "sample" /\ w.who = "user"
                THEN Append(out, [NoRec EXCEPT !.rec = w.rec]) ELSE out
  BY <1>3 DEF SkipRecord
<1>5. /\ tail < DataHead /\ (tail - base) + 1 \in 1..Len(log)
      /\ w = log[(tail - base) + 1] /\ w \in WordType
  BY <1>1, <1>2, <1>3, Here
<1>6. PICK h \in 1..Len(log) : h = (tail - base) + 1
  BY <1>5
<1>7. ~strayed /\ IsHead(w)
  <2>1. ~strayed /\ Boundary(tail)
    BY <1>1, <1>2 DEF Framing
  <2>2. QED
    BY <1>1, <1>2, <1>3, <2>1, AtHeader
<1>8. PICK n \in Nat : n = w.n /\ n <= Size /\ n = log[h].n
  BY <1>2, <1>5, <1>6, <1>7, BodyLenOf
<1>9. /\ tail \in Int /\ base \in Int /\ DataHead \in Int
      /\ Len(log) \in Nat /\ DataHead = base + Len(log)
      /\ base <= tail /\ DataHead - tail < Size /\ Size \in Nat
  BY <1>2, LogFacts DEF Types, Behind
<1>10. /\ tail + 1 \in Int /\ tail + 1 <= DataHead /\ DataHead - (tail + 1) < Size
       /\ base <= tail + 1
  BY <1>5, <1>9
<1>11. SkipEnds(tail + 1, n, tail')
  <2>1. SkipEnds(tail + 1, n, Skipped(tail + 1, n))
    BY <1>8, <1>9, <1>10, SkipTo
  <2>2. QED
    BY <1>4, <1>8, <2>1
<1>12. tail' <= DataHead /\ Boundary(tail)'
  <2>1. IsHead(log[h])
    BY <1>5, <1>6, <1>7
  <2>2. h + n <= Len(log)
    BY <1>2, <1>8, <2>1, RecordAt
  <2>3. ((tail + 1) + n) - base = h + n /\ (tail + 1) + n <= DataHead
    BY <1>6, <1>9, <2>2
  <2>4. PICK s \in Int : s = tail'
    BY <1>11 DEF SkipEnds
  <2>5. s <= DataHead /\ (s = (tail + 1) + n \/ s = DataHead)
    BY <1>11, <2>3, <2>4 DEF SkipEnds
  <2>6. s = DataHead \/ s - base = h + log[h].n
    BY <1>8, <2>3, <2>5
  <2>7. Boundary(s)
    BY <1>2, <2>1, <2>6, EndOfRecord
  <2>8. QED
    BY <1>1, <2>4, <2>5, <2>7, LogKept
<1>13. tail' \in Int /\ Behind'
  BY <1>1, <1>2, <1>10, <1>11, <1>12, SkipBehind
<1>14. jumped' \in BOOLEAN
  <2>1. (jumped \/ Jumps(tail + 1, w.n)) \in BOOLEAN
    BY <1>2, Zenon DEF Types, Jumps
  <2>2. QED
    BY <1>4, <2>1
<1>15. out' \in Seq(RecType)
  <2>1. out \in Seq(RecType)
    BY <1>2 DEF Types
  <2>2. [NoRec EXCEPT !.rec = w.rec] \in RecType
    <3>1. w.rec \in Nat
      BY <1>5 DEF WordType
    <3>2. QED
      BY <3>1 DEF NoRec, RecType, WhoType
  <2>3. QED
    BY <1>4, <2>1, <2>2, AppendProperties
<1>16. Types'
  BY <1>1, <1>2, <1>13, <1>14, <1>15 DEF Types
<1>17. Framing'
  BY <1>1, <1>7, <1>12 DEF Framing
<1>18. QED
  BY <1>1, <1>13, <1>16, <1>17, LogKept DEF Core
LEMMA TwoOrSix ==
  ASSUME NEW S, NEW a \in S, NEW b \in S, NEW c \in S, NEW d \in S, NEW e \in S,
         NEW f \in S
  PROVE  <<a, b>> \in Seq(S) /\ <<a, b, c, d, e, f>> \in Seq(S)
OBVIOUS

\* The fields that a reader sets out with are those of the sample.
LEMMA SetOut ==
  ASSUME mode \in Modes, NEW td, NEW l \in Nat, NEW n,
         td = IF mode = "profiling" THEN <<"id", "nr">>
              ELSE <<"id", "addr", "cpu", "nips", "weight", "src">>
  PROVE  td \in Seq(TodoField) /\ Expecting(td, 0, l, n)
<1>0. /\ "id" \in TodoField /\ "nr" \in TodoField /\ "addr" \in TodoField
      /\ "cpu" \in TodoField /\ "nips" \in TodoField /\ "weight" \in TodoField
      /\ "src" \in TodoField
  BY DEF TodoField
<1>1. CASE mode = "profiling"
  <2>1. td = <<"id", "nr">>
    BY <1>1
  <2>2. td \in Seq(TodoField) /\ Len(td) = 2 /\ td[1] = "id" /\ td[2] = "nr"
    BY <1>0, <2>1, TwoOrSix
  <2>3. \A i \in 1..2 : td[i] = Expected(0 + i, l)
    <3>1. \A i \in 1..2 : i = 1 \/ i = 2
      OBVIOUS
    <3>2. Expected(0 + 1, l) = "id" /\ Expected(0 + 2, l) = "nr"
      BY <1>1 DEF Expected, ExpectedProfiling
    <3>3. QED
      BY <2>2, <3>1, <3>2
  <2>4. Suffix(td, 0, 2, l)
    BY <2>2, <2>3 DEF Suffix
  <2>5. QED
    BY <1>1, <2>2, <2>4 DEF Expecting
<1>2. CASE mode = "ll"
  <2>1. td = <<"id", "addr", "cpu", "nips", "weight", "src">>
    BY <1>2
  <2>2. /\ td \in Seq(TodoField) /\ Len(td) = 6
        /\ td[1] = "id" /\ td[2] = "addr" /\ td[3] = "cpu" /\ td[4] = "nips"
        /\ td[5] = "weight" /\ td[6] = "src"
    BY <1>0, <2>1, TwoOrSix
  <2>3. \A i \in 1..6 : td[i] = Expected(0 + i, 0)
    <3>1. \A i \in 1..6 : i = 1 \/ i = 2 \/ i = 3 \/ i = 4 \/ i = 5 \/ i = 6
      OBVIOUS
    <3>2. /\ Expected(0 + 1, 0) = "id" /\ Expected(0 + 2, 0) = "addr"
          /\ Expected(0 + 3, 0) = "cpu" /\ Expected(0 + 4, 0) = "nips"
          /\ Expected(0 + 5, 0) = "weight" /\ Expected(0 + 6, 0) = "src"
      BY <1>2 DEF Expected, ExpectedLl
    <3>3. QED
      BY <2>2, <3>1, <3>2
  <2>4. Suffix(td, 0, 6, 0)
    BY <2>2, <2>3 DEF Suffix
  <2>5. QED
    BY <1>2, <2>2, <2>4 DEF Expecting
<1>3. QED
  BY <1>1, <1>2 DEF Modes

LEMMA BeginRead ==
  ASSUME Core, BeginSample
  PROVE  \E h \in 1..Len(log), l \in Nat :
           /\ Reading(h, l)' /\ h = (tail - base) + 1 /\ left' = log[h].n
<1>1. /\ UNCHANGED <<mode, base, log>>
      /\ pc = "header" /\ CanRead /\ At(tail).field = "sample"
      /\ tail' = tail + 1 /\ left' = At(tail).n /\ nips' = 0 /\ rec' = NoRec
      /\ todo' = IF mode = "profiling" THEN <<"id", "nr">>
                 ELSE <<"id", "addr", "cpu", "nips", "weight", "src">>
  BY DEF BeginSample
<1>2. Types /\ Records(log) /\ Behind /\ mode \in Modes
  BY DEF Core, Types
<1>3. PICK w : w = At(tail)
  OBVIOUS
<1>4. /\ tail < DataHead /\ (tail - base) + 1 \in 1..Len(log)
      /\ w = log[(tail - base) + 1]
  BY <1>1, <1>2, <1>3, Here
<1>5. PICK h \in 1..Len(log) : h = (tail - base) + 1
  BY <1>4
<1>6. log[h].field = "sample" /\ IsHead(log[h]) /\ IsHead(w)
  BY <1>1, <1>3, <1>4, <1>5 DEF IsHead
<1>7. left' = log[h].n
  BY <1>1, <1>2, <1>3, <1>4, <1>5, <1>6, BodyLenOf
<1>8. PICK n \in Nat : n = log[h].n
  BY <1>2, LogFacts
<1>9. n \in 1..(Size - 1) /\ \E l \in Nat : Laid(log, h, l)
  BY <1>2, <1>6, <1>8, RecordAt
<1>10. PICK l \in Nat : Laid(log, h, l)
  BY <1>9
<1>11. n - n = 0 /\ n \in 1..n
  BY <1>9
<1>12. Expecting(todo', 0, l, n)
  BY <1>1, <1>2, SetOut
<1>13. tail' - base = h + (n - n)
  <2>1. tail \in Int /\ base \in Int
    BY <1>2 DEF Types
  <2>2. QED
    BY <1>1, <1>5, <1>11, <2>1
<1>14. Laid(log, h, l)'
  BY <1>1, <1>10, SameMode
<1>15. Expecting(todo, log[h].n - left, l, left)'
  <2>1. PICK td : td = todo'
    OBVIOUS
  <2>2. Expecting(td, 0, l, n)
    BY <1>12, <2>1
  <2>3. Expecting(td, 0, l, n)'
    BY <1>1, <2>2, SameMode
  <2>4. log'[h].n - left' = 0 /\ left' = n
    BY <1>1, <1>7, <1>8, <1>11
  <2>5. QED
    BY <2>1, <2>3, <2>4
<1>16. rec'.weight = "none"
  BY <1>1 DEF NoRec
<1>17. Reading(h, l)'
  <2>1. log'[h].field = "sample" /\ log'[h].n = n /\ left' = n /\ base' = base
    BY <1>1, <1>6, <1>7, <1>8
  <2>2. left' \in 1..log'[h].n /\ tail' - base' = h + (log'[h].n - left')
    BY <1>11, <1>13, <2>1
  <2>3. ~(log'[h].n - left' >= 1)
    BY <1>11, <2>1
  <2>4. QED
    BY <1>1, <1>14, <1>15, <1>16, <2>1, <2>2, <2>3 DEF Reading
<1>18. QED
  BY <1>5, <1>7, <1>17

LEMMA BeginCore ==
  ASSUME Core, BeginSample
  PROVE  Core'
<1>1. /\ UNCHANGED <<mode, base, log, keep, out, strayed, jumped>>
      /\ pc' = "fields" /\ CanRead
      /\ tail' = tail + 1 /\ nips' = 0 /\ rec' = NoRec
      /\ todo' = IF mode = "profiling" THEN <<"id", "nr">>
                 ELSE <<"id", "addr", "cpu", "nips", "weight", "src">>
  BY DEF BeginSample
<1>2. Types /\ Behind /\ mode \in Modes
  BY DEF Core, Types
<1>3. PICK h \in 1..Len(log), l \in Nat : Reading(h, l)' /\ left' = log[h].n
  BY BeginRead
<1>4. todo' \in Seq(TodoField)
  BY <1>1, <1>2, <1>3, SetOut
<1>5. /\ tail \in Int /\ base \in Int /\ DataHead \in Int /\ tail < DataHead
      /\ base <= tail /\ DataHead - tail < Size
  BY <1>1, <1>2, LogFacts, Here DEF Types, Behind
<1>6. left' \in Int
  BY <1>2, <1>3, LogFacts
<1>7. rec' \in RecType
  BY <1>1 DEF NoRec, RecType, WhoType
<1>8. Types'
  BY <1>1, <1>2, <1>4, <1>5, <1>6, <1>7 DEF Types
<1>9. Behind'
  <2>1. base' = base /\ DataHead' = DataHead
    BY <1>1 DEF DataHead
  <2>2. base' <= tail' /\ DataHead' - tail' < Size /\ tail' <= DataHead'
    BY <1>1, <1>5, <2>1
  <2>3. QED
    BY <2>2 DEF Behind
<1>10. Framing'
  <2>1. ~strayed
    BY <1>1 DEF BeginSample, Core, Framing
  <2>2. QED
    BY <1>1, <1>3, <2>1 DEF Framing
<1>11. QED
  BY <1>1, <1>8, <1>9, <1>10, LogKept DEF Core
LEMMA ReadFurther ==
  ASSUME Core, NEW h \in 1..Len(log), NEW l \in Nat, Reading(h, l),
         NEW k, NEW w, WordIs(h, l, k, w), FieldRead(h, l, k),
         left' > 0, Expecting(todo', k + 1, l, left'), tail' = tail + 1
  PROVE  Reading(h, l)' /\ tail' \in Int /\ left' \in Int /\ Behind'
<1>0. /\ UNCHANGED <<mode, base, log>> /\ left' = left - 1
      /\ (nips' = 0 \/ nips' <= (k + 1) - NipsAt)
      /\ rec'.rec = log[h].rec /\ rec'.who = log[h].who
      /\ rec'.weight \in {"none", "weight"} \/ (mode = "ll" /\ l > IpNum)
  BY DEF FieldRead, RecRead
<1>1. /\ Types /\ Behind /\ tail \in Int /\ base \in Int /\ DataHead \in Int
      /\ h \in Int
  BY LogFacts DEF Core, Types
<1>2. PICK n \in Nat : n = log[h].n
  BY <1>1, LogFacts
<1>3. PICK m \in Nat \ {0} : m = left
  BY DEF WordIs
<1>4. k \in Nat /\ k = n - m /\ (tail - base) + 1 = h + (k + 1) /\ tail < DataHead
  BY <1>2, <1>3 DEF WordIs
<1>5. /\ log'[h].n = n /\ log'[h].field = "sample" /\ left' = m - 1
      /\ base' = base /\ tail' = tail + 1 /\ NipsAt' = NipsAt
  BY <1>0, <1>2, <1>3, SameMode DEF Reading
<1>6. n - (m - 1) = k + 1 /\ m - 1 \in 1..n
  BY <1>0, <1>3, <1>4
<1>7. (tail + 1) - base = h + (k + 1)
  BY <1>1, <1>4
<1>8. Laid(log, h, l)'
  <2>1. Laid(log, h, l)
    BY DEF Reading
  <2>2. QED
    BY <1>0, <2>1, SameMode
<1>9. Expecting(todo, log[h].n - left, l, left)'
  <2>1. PICK td : td = todo'
    OBVIOUS
  <2>2. Expecting(td, k + 1, l, m - 1)
    BY <1>5, <2>1
  <2>3. PICK x : x = k + 1
    OBVIOUS
  <2>4. PICK y : y = m - 1
    OBVIOUS
  <2>5. Expecting(td, x, l, y)
    BY <2>2, <2>3, <2>4
  <2>6. Expecting(td, x, l, y)'
    BY <1>0, <2>5, SameMode
  <2>7. log'[h].n - left' = x /\ left' = y
    BY <1>5, <1>6, <2>3, <2>4
  <2>8. QED
    BY <2>1, <2>6, <2>7
<1>10. Reading(h, l)'
  <2>1. left' \in 1..log'[h].n /\ tail' - base' = h + (log'[h].n - left')
    BY <1>5, <1>6, <1>7
  <2>2. nips' = 0 \/ nips' <= (log'[h].n - left') - NipsAt'
    BY <1>0, <1>5, <1>6
  <2>3. /\ rec'.rec = log'[h].rec /\ rec'.who = log'[h].who
        /\ rec'.weight \in {"none", "weight"} \/ (mode' = "ll" /\ l > IpNum)
    BY <1>0
  <2>4. QED
    BY <1>5, <1>8, <1>9, <2>1, <2>2, <2>3 DEF Reading
<1>11. Behind'
  <2>1. base' = base /\ DataHead' = DataHead
    BY <1>0 DEF DataHead
  <2>2. base <= tail /\ DataHead - tail < Size
    BY <1>1 DEF Behind
  <2>3. base' <= tail' /\ DataHead' - tail' < Size /\ tail' <= DataHead'
    BY <1>1, <1>4, <1>5, <2>1, <2>2
  <2>4. QED
    BY <2>3 DEF Behind
<1>12. QED
  BY <1>1, <1>3, <1>5, <1>10, <1>11

LEMMA ReadDone ==
  ASSUME Core, NEW h \in 1..Len(log), NEW l \in Nat, Reading(h, l),
         NEW k, NEW w, WordIs(h, l, k, w), UNCHANGED <<mode, base, log>>,
         left' = left - 1, tail' = Finished(tail + 1, left')
  PROVE  tail' \in Int /\ left' \in Int /\ Behind' /\ Boundary(tail)'
<1>1. Types /\ Records(log) /\ IsHead(log[h])
  BY DEF Core, Reading, IsHead
<1>2. /\ SkipEnds(tail + 1, left - 1, tail') /\ tail' <= DataHead
      /\ base <= tail + 1
      /\ ((tail + 1) + (left - 1)) - base = h + log[h].n
  BY ReadToEnd
<1>3. PICK m \in Nat : m = left - 1
  BY DEF WordIs
<1>4. PICK t \in Int : t = tail + 1
  BY <1>1 DEF Types
<1>5. SkipEnds(t, m, tail') /\ base <= t /\ (t + m) - base = h + log[h].n
  BY <1>2, <1>3, <1>4
<1>6. tail' \in Int /\ Behind'
  BY <1>1, <1>2, <1>5, SkipBehind
<1>7. PICK s \in Int : s = tail'
  BY <1>6
<1>8. s = t + m \/ s = DataHead
  BY <1>5, <1>7 DEF SkipEnds
<1>9. s = DataHead \/ s - base = h + log[h].n
  BY <1>5, <1>8
<1>10. Boundary(s)
  BY <1>1, <1>9, EndOfRecord
<1>11. QED
  BY <1>3, <1>6, <1>7, <1>10, LogKept

LEMMA ReadCore ==
  ASSUME Core, ReadField
  PROVE  Core'
<1>1. PICK h \in 1..Len(log), l \in Nat : Reading(h, l)
  BY DEF ReadField, Core, Framing
<1>2. PICK k, w : WordIs(h, l, k, w)
  BY <1>1, InRecord
<1>3. FieldRead(h, l, k)
  BY <1>1, <1>2, ReadOne
<1>4. /\ UNCHANGED <<mode, base, log, keep, strayed>>
      /\ todo' \in Seq(TodoField) /\ left' = left - 1 /\ nips' \in Nat
      /\ rec' \in RecType
  BY <1>3 DEF FieldRead, RecRead
<1>5. Types /\ ~strayed' /\ pc = "fields"
  BY <1>4 DEF Core, Framing, ReadField
<1>6. CASE /\ left' > 0 /\ Expecting(todo', k + 1, l, left')
           /\ tail' = tail + 1
           /\ UNCHANGED <<pc, out, jumped>>
  <2>1. Reading(h, l)' /\ tail' \in Int /\ left' \in Int /\ Behind'
    BY <1>1, <1>2, <1>3, <1>6, ReadFurther
  <2>2. Types'
    BY <1>4, <1>5, <1>6, <2>1 DEF Types
  <2>3. Framing'
    BY <1>4, <1>5, <1>6, <2>1 DEF Framing
  <2>4. QED
    BY <1>4, <2>1, <2>2, <2>3, LogKept DEF Core
<1>7. CASE /\ pc' = "header"
           /\ tail' = Finished(tail + 1, left')
           /\ jumped' = (jumped \/ (left' > 0 /\ Jumps(tail + 1, left')))
           /\ \/ out' = Append(out, rec') /\ log[h].who = "user"
              \/ out' = out /\ (log[h].who # "user" \/ (mode = "ll" /\ l > IpNum))
  <2>1. tail' \in Int /\ left' \in Int /\ Behind' /\ Boundary(tail)'
    BY <1>1, <1>2, <1>4, <1>7, ReadDone
  <2>2. jumped' \in BOOLEAN
    <3>1. (jumped \/ (left' > 0 /\ Jumps(tail + 1, left'))) \in BOOLEAN
      BY Zenon
    <3>2. QED
      BY <1>7, <3>1
  <2>3. out' \in Seq(RecType)
    <3>1. out \in Seq(RecType)
      BY <1>5 DEF Types
    <3>2. out' = out \/ out' = Append(out, rec')
      BY <1>7
    <3>3. QED
      BY <1>4, <3>1, <3>2, AppendProperties
  <2>4. Types'
    BY <1>4, <1>5, <1>7, <2>1, <2>2, <2>3 DEF Types
  <2>5. Framing'
    BY <1>5, <1>7, <2>1 DEF Framing
  <2>6. QED
    BY <1>4, <2>1, <2>4, <2>5, LogKept DEF Core
<1>8. QED
  BY <1>3, <1>6, <1>7 DEF FieldRead
\* The skip of a process that is gone ends at the head, or it has strayed.
LEMMA GoneCore ==
  ASSUME Core, GoneProcess
  PROVE  Core'
<1>1. /\ UNCHANGED <<mode, base, log, keep, left, todo, nips, rec, out>>
      /\ pc = "fields" /\ pc' = "idle" /\ CanRead /\ mode = "ll"
      /\ tail' = Skipped(tail + 1, left)
      /\ jumped' = (jumped \/ Jumps(tail + 1, left))
      /\ strayed' = (strayed \/ Skipped(tail + 1, left) > tail + left)
  BY DEF GoneProcess
<1>2. Types /\ Records(log) /\ Behind /\ Framing
  BY DEF Core
<1>3. PICK h \in 1..Len(log), l \in Nat : Reading(h, l)
  BY <1>1, <1>2 DEF Framing
<1>4. /\ tail \in Int /\ base \in Int /\ DataHead \in Int
      /\ base <= tail /\ tail < DataHead /\ DataHead - tail < Size /\ Size \in Nat
  BY <1>1, <1>2, Here, LogFacts DEF Types, Behind
<1>5. PICK m \in Nat : m = left /\ m <= Size
  <2>1. IsHead(log[h]) /\ left \in 1..log[h].n /\ left \in Int
    BY <1>2, <1>3 DEF Reading, IsHead, Types
  <2>2. log[h].n \in 1..(Size - 1)
    BY <1>2, <2>1, RecordAt
  <2>3. PICK n \in Nat : n = log[h].n
    BY <2>2
  <2>4. n <= Size - 1
    BY <2>2, <2>3
  <2>5. QED
    BY <1>4, <2>1, <2>3, <2>4
<1>6. PICK t \in Int : t = tail + 1
  BY <1>4
<1>7. t <= DataHead /\ DataHead - t < Size /\ base <= t
  BY <1>4, <1>6
<1>8. SkipEnds(t, m, tail')
  <2>1. SkipEnds(t, m, Skipped(t, m))
    BY <1>4, <1>5, <1>7, SkipTo
  <2>2. QED
    BY <1>1, <1>5, <1>6, <2>1
<1>9. PICK s \in Int : s = tail'
  BY <1>8 DEF SkipEnds
<1>10. strayed' = (strayed \/ s > tail + m)
  BY <1>1, <1>5, <1>9
<1>11. ASSUME ~strayed' PROVE s = DataHead
  <2>1. s = t + m \/ s = DataHead
    BY <1>8, <1>9 DEF SkipEnds
  <2>2. ~(s > tail + m)
    BY <1>10, <1>11, Zenon
  <2>3. QED
    BY <1>4, <1>6, <2>1, <2>2
<1>12. tail' \in Int /\ Behind'
  <2>1. tail' <= DataHead \/ strayed'
    BY <1>4, <1>9, <1>11
  <2>2. QED
    BY <1>1, <1>2, <1>7, <1>8, <2>1, SkipBehind
<1>13. strayed' \in BOOLEAN /\ jumped' \in BOOLEAN
  <2>1. (strayed \/ s > tail + m) \in BOOLEAN
    BY Zenon
  <2>2. (jumped \/ Jumps(tail + 1, left)) \in BOOLEAN
    BY Zenon
  <2>3. QED
    BY <1>1, <1>10, <2>1, <2>2
<1>14. Types'
  BY <1>1, <1>2, <1>12, <1>13 DEF Types
<1>15. Framing'
  <2>1. ~strayed' => Boundary(s)
    BY <1>11 DEF Boundary
  <2>2. ~strayed' => Boundary(tail)'
    BY <1>1, <1>9, <2>1, LogKept
  <2>3. QED
    BY <1>1, <2>2 DEF Framing
<1>16. QED
  BY <1>1, <1>12, <1>14, <1>15, LogKept DEF Core

-----------------------------------------------------------------------------
(* The results.                                                            *)

LEMMA InitCore ==
  ASSUME Init
  PROVE  Core
<1>1. /\ mode \in Modes /\ base \in Nat /\ tail = base /\ log = <<>>
      /\ pc = "idle" /\ keep = TRUE /\ left = 0 /\ todo = <<>> /\ nips = 0
      /\ rec = NoRec /\ out = <<>> /\ strayed = FALSE /\ jumped = FALSE
  BY DEF Init, Modes
<1>2. rec \in RecType
  BY <1>1 DEF NoRec, RecType, WhoType
<1>3. /\ log \in Seq(WordType) /\ todo \in Seq(TodoField) /\ out \in Seq(RecType)
      /\ Len(log) = 0
  BY <1>1
<1>4. Types
  <2>1. mode \in Modes /\ base \in Nat /\ log \in Seq(WordType) /\ tail \in Int
    BY <1>1, <1>3
  <2>2. /\ pc \in {"idle", "header", "fields", "stray"} /\ keep \in BOOLEAN
        /\ left \in Int /\ todo \in Seq(TodoField) /\ nips \in Nat
    BY <1>1, <1>3
  <2>3. /\ rec \in RecType /\ out \in Seq(RecType)
        /\ strayed \in BOOLEAN /\ jumped \in BOOLEAN
    BY <1>1, <1>2, <1>3
  <2>4. QED
    BY <2>1, <2>2, <2>3 DEF Types
<1>5. DataHead = base
  BY <1>1, <1>3 DEF DataHead
<1>6. 1..Len(log) = {}
  BY <1>3
<1>7. Records(log) /\ Numbered(log)
  BY <1>1, <1>6 DEF Records, Numbered
<1>8. Behind
  BY <1>1, <1>5 DEF Behind
<1>9. Framing
  BY <1>1, <1>5 DEF Framing, Boundary
<1>10. QED
  BY <1>4, <1>7, <1>8, <1>9 DEF Core

LEMMA StepCore ==
  ASSUME Core, [Next]_vars
  PROVE  Core'
<1>1. CASE Write
  BY <1>1, WriteCore
<1>2. CASE Start \/ End \/ StrayEnd
  BY <1>2, PassCore
<1>3. CASE StrayRead \/ StraySkip
  BY <1>3, StrayReadCore, StraySkipCore
<1>4. CASE SkipRecord
  BY <1>4, SkipCore
<1>5. CASE BeginSample
  BY <1>5, BeginCore
<1>6. CASE ReadField
  BY <1>6, ReadCore
<1>7. CASE GoneProcess
  BY <1>7, GoneCore
<1>8. CASE UNCHANGED vars
  <2>1. UNCHANGED <<mode, base, log, tail, pc, keep, left, todo, nips, rec, out,
                    strayed, jumped>>
    BY <1>8 DEF vars
  <2>2. Types' /\ Behind'
    BY <2>1 DEF Core, Types, Behind, DataHead, ToInt
  <2>3. NipsAt' = NipsAt
    BY <2>1, SameMode
  <2>4. \A h, l : Reading(h, l)' <=> Reading(h, l)
    BY <2>1, ReadingNow
  <2>5. Framing'
    <3>1. ASSUME pc = "fields"
          PROVE  \E h \in 1..Len(log'), l \in Nat : Reading(h, l)'
      BY <2>1, <2>4, <3>1 DEF Core, Framing
    <3>2. pc # "fields" /\ ~strayed => Boundary(tail)'
      BY <2>1 DEF Core, Framing, Boundary, DataHead, AtPos
    <3>3. QED
      BY <2>1, <3>1, <3>2 DEF Core, Framing
  <2>6. QED
    BY <2>1, <2>2, <2>5, LogKept DEF Core
<1>9. QED
  BY <1>1, <1>2, <1>3, <1>4, <1>5, <1>6, <1>7, <1>8 DEF Next

LEMMA Invariant == Spec => []Core
<1>1. Init => Core
  BY InitCore
<1>2. Core /\ [Next]_vars => Core'
  BY StepCore
<1>3. QED
  BY <1>1, <1>2, PTL DEF Spec

\* Whatever the lengths of the records and of their call-chains and wherever
\* the positions of an int wrap, mmap_buffer_read and mmap_buffer_skip keep the
\* reader within a buffer behind the kernel, or, when it has strayed after the
\* sample of a process that is gone, at most a buffer ahead of it.
THEOREM StaysBehind == Spec => []Behind
<1>1. Core => Behind
  BY DEF Core
<1>2. QED
  BY <1>1, Invariant, PTL

LEMMA CoreFramed ==
  ASSUME Core
  PROVE  Framed
<1>1. pc # "fields" /\ ~strayed => Boundary(tail)
  BY DEF Core, Framing
<1>2. ASSUME pc = "fields"
      PROVE  /\ todo # <<>> /\ left > 0 /\ tail < DataHead
             /\ AtPos(tail).rec = AtPos(tail + 1).rec
             /\ AtPos(tail + left).rec = AtPos(tail).rec
  <2>1. PICK h \in 1..Len(log), l \in Nat : Reading(h, l)
    BY <1>2 DEF Core, Framing
  <2>2. PICK k, w : WordIs(h, l, k, w)
    BY <2>1, InRecord
  <2>3. PICK n \in Nat : n = log[h].n
    BY LogFacts DEF Core
  <2>4. PICK m \in Nat \ {0} : m = left
    BY <2>2 DEF WordIs
  <2>5. k \in Nat /\ k = n - m /\ (tail - base) + 1 = h + (k + 1) /\ tail < DataHead
        /\ todo # <<>>
    BY <2>2, <2>3, <2>4 DEF WordIs
  <2>6. \A q \in (h + 1)..(h + n) : log[q].rec = log[h].rec
    <3>1. IsHead(log[h])
      BY <2>1 DEF Reading, IsHead
    <3>2. QED
      BY <2>3, <3>1, RecordAt DEF Core
  <2>7. tail \in Int /\ base \in Int
    BY DEF Core, Types
  <2>8. /\ tail - base = h + k /\ (tail + 1) - base = h + (k + 1)
        /\ (tail + m) - base = h + n
    BY <2>5, <2>7
  <2>9. \A i \in 0..n : log[h + i].rec = log[h].rec
    <3>1. \A i \in 0..n : i = 0 \/ h + i \in (h + 1)..(h + n)
      OBVIOUS
    <3>2. h + 0 = h
      OBVIOUS
    <3>3. QED
      BY <2>6, <3>1, <3>2
  <2>10. k \in 0..n /\ k + 1 \in 0..n /\ n \in 0..n
    BY <2>5
  <2>11. /\ log[tail - base].rec = log[h].rec
         /\ log[(tail + 1) - base].rec = log[h].rec
         /\ log[(tail + m) - base].rec = log[h].rec
    BY <2>8, <2>9, <2>10
  <2>12. QED
    BY <2>4, <2>5, <2>11 DEF AtPos
<1>3. QED
  BY <1>1, <1>2 DEF Framed

\* Whatever the reader of pf_profiling_record or pf_ll_record skips, and however
\* long the call-chains are, it is at a header between two records and reads
\* all fields of a record from that record, until it meets a sample of a
\* process that is gone and strays.
THEOREM ReadsFramed == Spec => []Framed
<1>1. Core => Framed
  BY CoreFramed
<1>2. QED
  BY <1>1, Invariant, PTL
-----------------------------------------------------------------------------
(* What is recorded.                                                       *)

\* The words of a record say how long its call-chain is.
LEMMA LongOf ==
  ASSUME Types, Records(log), NEW h \in 1..Len(log), NEW l \in Nat,
         IsHead(log[h]), Laid(log, h, l), l > IpNum
  PROVE  Long(log[h].rec)
<1>1. PICK n \in Nat : n = log[h].n
  BY LogFacts
<1>2. NipsAt \in Nat \ {0} /\ AfterLen \in Nat
  BY DEF NipsAt, AfterLen
<1>3. n = NipsAt + l + AfterLen
  BY <1>1 DEF Laid
<1>4. PICK p : p = h + NipsAt
  OBVIOUS
<1>5. p \in (h + 1)..(h + n) /\ p \in Int /\ p >= 1
  BY <1>2, <1>3, <1>4
<1>6. log[p].rec = log[h].rec /\ h + n <= Len(log)
  BY <1>1, <1>5, RecordAt
<1>7. p \in 1..Len(log)
  <2>1. Len(log) \in Nat
    BY LogFacts
  <2>2. QED
    BY <1>5, <1>6, <2>1
<1>8. log[p].field = "nips" /\ log[p].n > IpNum
  BY <1>4 DEF Laid
<1>9. DOMAIN log = 1..Len(log)
  BY LenProperties DEF Types
<1>10. QED
  BY <1>6, <1>7, <1>8, <1>9 DEF Long

\* What is written stays.
Extended(s, t) ==
  /\ t \in Seq(WordType) /\ Len(s) <= Len(t)
  /\ \A p \in 1..Len(s) : t[p] = s[p]

LEMMA WriteExtends ==
  ASSUME Core, Write
  PROVE  Extended(log, log')
<1>1. PICK w : Longer(log, w, log') /\ NewRecord(w, NextRecord)
  BY Written
<1>2. Len(w) \in Nat /\ Len(log) \in Nat
  BY <1>1, LogFacts, LenProperties DEF NewRecord, Core
<1>3. QED
  BY <1>1, <1>2 DEF Longer, Extended

LEMMA LongKept ==
  ASSUME Types, NEW i, Long(i), Extended(log, log')
  PROVE  Long(i)'
<1>1. PICK p \in DOMAIN log : log[p].rec = i /\ log[p].field = "nips" /\ log[p].n > IpNum
  BY DEF Long
<1>2. DOMAIN log = 1..Len(log) /\ Len(log) \in Nat
  BY LenProperties DEF Types
<1>3. DOMAIN log' = 1..Len(log') /\ Len(log') \in Nat /\ Len(log) <= Len(log')
  BY LenProperties DEF Extended
<1>4. p \in DOMAIN log' /\ log'[p] = log[p]
  BY <1>2, <1>3 DEF Extended
<1>5. QED
  BY <1>1, <1>4 DEF Long

\* The weights of the samples that are recorded.
Weighed(r) ==
  \/ r.weight \in {"weight", "none"}
  \/ mode = "ll" /\ Long(r.rec)
  \/ strayed /\ r = Junk

Weights == \A k \in 1..Len(out) : Weighed(out[k])

\* One record more.
LEMMA Recorded ==
  ASSUME NEW o \in Seq(RecType), NEW r \in RecType, NEW q, q = Append(o, r)
  PROVE  /\ q \in Seq(RecType) /\ Len(q) = Len(o) + 1 /\ q[Len(o) + 1] = r
         /\ \A k \in 1..Len(o) : q[k] = o[k]
         /\ \A k \in 1..Len(q) : k \in 1..Len(o) \/ k = Len(o) + 1
<1>1. Len(o) \in Nat
  BY LenProperties
<1>2. /\ q \in Seq(RecType) /\ Len(q) = Len(o) + 1 /\ q[Len(o) + 1] = r
      /\ \A k \in 1..Len(o) : q[k] = o[k]
  BY AppendProperties
<1>3. \A k \in 1..Len(q) : k \in 1..Len(o) \/ k = Len(o) + 1
  BY <1>1, <1>2
<1>4. QED
  BY <1>2, <1>3

LEMMA WeightsKept ==
  ASSUME Types, Weights, Extended(log, log'), mode' = mode, strayed => strayed',
         out' = out \/ \E r \in RecType : out' = Append(out, r) /\ Weighed(r)
  PROVE  Weights'
<1>1. \A r : Weighed(r) => Weighed(r)'
  <2>1. \A i : Long(i) => Long(i)'
    BY LongKept
  <2>2. QED
    BY <2>1 DEF Weighed
<1>2. CASE out' = out
  BY <1>1, <1>2 DEF Weights
<1>3. ASSUME NEW r \in RecType, out' = Append(out, r), Weighed(r)
      PROVE  Weights'
  <2>1. out \in Seq(RecType)
    BY DEF Types
  <2>2. /\ out'[Len(out) + 1] = r
        /\ \A k \in 1..Len(out) : out'[k] = out[k]
        /\ \A k \in 1..Len(out') : k \in 1..Len(out) \/ k = Len(out) + 1
    BY <1>3, <2>1, Recorded
  <2>3. QED
    BY <1>1, <1>3, <2>2 DEF Weights
<1>4. QED
  BY <1>2, <1>3

LEMMA StepWeights ==
  ASSUME Core, Weights, [Next]_vars
  PROVE  Weights'
<1>1. Types /\ log \in Seq(WordType)
  BY DEF Core, Types
<1>2. log' = log => Extended(log, log')
  BY <1>1, LenProperties DEF Extended
<1>3. CASE Write
  <2>1. Extended(log, log') /\ mode' = mode /\ out' = out /\ strayed' = strayed
    BY <1>3, WriteExtends DEF Write
  <2>2. QED
    BY <1>1, <2>1, WeightsKept
<1>4. CASE Start \/ End \/ BeginSample \/ GoneProcess \/ StraySkip \/ StrayEnd
  <2>1. log' = log /\ mode' = mode /\ out' = out
    BY <1>4 DEF Start, End, BeginSample, GoneProcess, StraySkip, StrayEnd
  <2>2. ASSUME strayed PROVE strayed'
    <3>1. ~GoneProcess
      BY <2>2 DEF GoneProcess, Core, Framing
    <3>2. QED
      BY <1>4, <2>2, <3>1 DEF Start, End, BeginSample, StraySkip, StrayEnd
  <2>3. QED
    BY <1>1, <1>2, <2>1, <2>2, WeightsKept
<1>5. CASE SkipRecord
  <2>1. PICK w : w = At(tail)
    OBVIOUS
  <2>2. /\ log' = log /\ mode' = mode /\ strayed' = strayed
        /\ out' = out \/ out' = Append(out, [NoRec EXCEPT !.rec = w.rec])
    BY <1>5, <2>1 DEF SkipRecord
  <2>3. w.rec \in Nat
    <3>1. w \in WordType
      BY <1>5, <2>1, Here DEF SkipRecord, Core
    <3>2. QED
      BY <3>1 DEF WordType
  <2>4. PICK r : r = [NoRec EXCEPT !.rec = w.rec]
    OBVIOUS
  <2>5. r \in RecType /\ Weighed(r)
    BY <2>3, <2>4 DEF NoRec, RecType, WhoType, Weighed
  <2>6. out' = out \/ out' = Append(out, r)
    BY <2>2, <2>4
  <2>7. QED
    BY <1>1, <1>2, <2>2, <2>5, <2>6, WeightsKept
<1>6. CASE ReadField
  <2>1. PICK h \in 1..Len(log), l \in Nat : Reading(h, l)
    BY <1>6 DEF ReadField, Core, Framing
  <2>2. PICK k, w : WordIs(h, l, k, w)
    BY <2>1, InRecord
  <2>3. FieldRead(h, l, k)
    BY <1>6, <2>1, <2>2, ReadOne
  <2>4. /\ log' = log /\ mode' = mode /\ strayed' = strayed
        /\ out' = out \/ out' = Append(out, rec')
        /\ rec' \in RecType /\ rec'.rec = log[h].rec
        /\ rec'.weight \in {"none", "weight"} \/ (mode = "ll" /\ l > IpNum)
    BY <1>6, <2>3 DEF FieldRead, RecRead, ReadField
  <2>5. IsHead(log[h]) /\ Laid(log, h, l)
    BY <2>1 DEF Reading, IsHead
  <2>6. l > IpNum => Long(log[h].rec)
    BY <2>5, LongOf DEF Core
  <2>7. PICK r : r = rec'
    OBVIOUS
  <2>8. Weighed(r)
    BY <2>4, <2>6, <2>7 DEF Weighed
  <2>9. QED
    BY <1>1, <1>2, <2>4, <2>7, <2>8, WeightsKept
<1>7. CASE StrayRead
  <2>1. /\ log' = log /\ mode' = mode /\ strayed' = strayed
        /\ out' = out \/ out' = Append(out, Junk)
    BY <1>7 DEF StrayRead, WithJunk
  <2>2. strayed
    BY <1>7 DEF StrayRead, Core, Framing
  <2>3. Junk \in RecType /\ Weighed(Junk)
    BY <2>2 DEF Junk, RecType, WhoType, Weighed
  <2>4. QED
    BY <1>1, <1>2, <2>1, <2>3, WeightsKept
<1>8. CASE UNCHANGED vars
  <2>1. log' = log /\ mode' = mode /\ out' = out /\ strayed' = strayed
    BY <1>8 DEF vars
  <2>2. QED
    BY <1>1, <1>2, <2>1, WeightsKept
<1>9. QED
  BY <1>3, <1>4, <1>5, <1>6, <1>7, <1>8 DEF Next

\* However long the call-chains of the samples of the load latency are, the
\* latency that ll_recbuf_update records is the one of the sample, unless the
\* chain is longer than the addresses that are kept of it, or the reader had
\* strayed when it took the sample for one.
THEOREM LatencyIsOwn == Spec => []LatencyOwn
<1>1. Init => Core /\ Weights
  <2>1. SUFFICES ASSUME Init PROVE Weights
    BY InitCore
  <2>2. Len(out) = 0
    BY <2>1 DEF Init
  <2>3. QED
    BY <2>2 DEF Weights
<1>2. (Core /\ Weights) /\ [Next]_vars => (Core /\ Weights)'
  BY StepCore, StepWeights
<1>3. Core /\ Weights => LatencyOwn
  <2>1. SUFFICES ASSUME Core, Weights PROVE LatencyOwn
    OBVIOUS
  <2>2. DOMAIN out = 1..Len(out)
    BY <2>1, LenProperties DEF Core, Types
  <2>3. QED
    BY <2>1, <2>2 DEF Weights, Weighed, LatencyOwn
<1>4. QED
  BY <1>1, <1>2, <1>3, PTL DEF Spec
-----------------------------------------------------------------------------
(* What is handed over.                                                    *)

\* A sample that is to be recorded, and a record that the chain may cost.
Asked(w) == w.field = "sample" /\ w.who = "user"
Spared(i) == mode = "ll" /\ Long(i)

\* The samples up to the u-th word are in o, each once, and no others.
Done(o, u) ==
  /\ \A k \in 1..Len(o) : \E p \in 1..Len(log) :
       p <= u /\ Asked(log[p]) /\ o[k].rec = log[p].rec
  /\ \A p \in 1..Len(log) :
       p <= u /\ Asked(log[p]) =>
         Spared(log[p].rec) \/ \E k \in 1..Len(o) : o[k].rec = log[p].rec
  /\ \A j, k \in 1..Len(o) : j < k => o[j].rec < o[k].rec

\* All that is passed is done; within a record, all before it.
Delivery ==
  ~strayed /\ ~jumped =>
    /\ pc # "fields" => Done(out, tail - base)
    /\ pc = "fields" => \E h \in 1..Len(log), l \in Nat :
                          Reading(h, l) /\ Done(out, h - 1)

\* A record is done with when it is recorded or may be left out.
LEMMA DoneRecord ==
  ASSUME Types, Records(log), Numbered(log), NEW h \in 1..Len(log),
         IsHead(log[h]), NEW n \in Nat, n = log[h].n, Done(out, h - 1), NEW o,
         \/ o = out /\ (~Asked(log[h]) \/ Spared(log[h].rec))
         \/ Asked(log[h]) /\ \E r \in RecType : r.rec = log[h].rec /\ o = Append(out, r)
  PROVE  Done(o, h + n)
<1>0. Len(log) \in Nat /\ out \in Seq(RecType)
  BY LogFacts DEF Types
<1>1. /\ \A k \in 1..Len(out) : \E p \in 1..Len(log) :
           p <= h - 1 /\ Asked(log[p]) /\ out[k].rec = log[p].rec
      /\ \A p \in 1..Len(log) :
           p <= h - 1 /\ Asked(log[p]) =>
             Spared(log[p].rec) \/ \E k \in 1..Len(out) : out[k].rec = log[p].rec
      /\ \A j, k \in 1..Len(out) : j < k => out[j].rec < out[k].rec
  BY DEF Done
<1>2. \A p \in 1..Len(log) : p <= h - 1 => p <= h + n
  BY <1>0
<1>3. \A p \in 1..Len(log) : p <= h + n /\ Asked(log[p]) => p <= h - 1 \/ p = h
  <2>1. SUFFICES ASSUME NEW p \in 1..Len(log), p <= h + n, Asked(log[p]),
                        ~(p <= h - 1), p # h
                 PROVE  FALSE
    OBVIOUS
  <2>2. p \in (h + 1)..(h + n)
    BY <1>0, <2>1
  <2>3. ~IsHead(log[p])
    BY <2>2, RecordAt
  <2>4. QED
    BY <2>1, <2>3 DEF Asked, IsHead
<1>4. h <= h + n
  OBVIOUS
<1>5. CASE o = out /\ (~Asked(log[h]) \/ Spared(log[h].rec))
  <2>1. \A k \in 1..Len(o) : \E p \in 1..Len(log) :
          p <= h + n /\ Asked(log[p]) /\ o[k].rec = log[p].rec
    BY <1>1, <1>2, <1>5
  <2>2. \A p \in 1..Len(log) :
          p <= h + n /\ Asked(log[p]) =>
            Spared(log[p].rec) \/ \E k \in 1..Len(o) : o[k].rec = log[p].rec
    BY <1>1, <1>3, <1>5
  <2>3. QED
    BY <1>1, <1>5, <2>1, <2>2 DEF Done
<1>6. ASSUME Asked(log[h]), NEW r \in RecType, r.rec = log[h].rec, o = Append(out, r)
      PROVE  Done(o, h + n)
  <2>1. /\ Len(o) = Len(out) + 1 /\ o[Len(out) + 1] = r /\ Len(out) \in Nat
        /\ \A k \in 1..Len(out) : o[k] = out[k]
        /\ \A k \in 1..Len(o) : k \in 1..Len(out) \/ k = Len(out) + 1
    BY <1>0, <1>6, Recorded, LenProperties
  <2>2. \A k \in 1..Len(o) : \E p \in 1..Len(log) :
          p <= h + n /\ Asked(log[p]) /\ o[k].rec = log[p].rec
    <3>1. TAKE k \in 1..Len(o)
    <3>2. CASE k \in 1..Len(out)
      <4>1. PICK p \in 1..Len(log) :
              p <= h - 1 /\ Asked(log[p]) /\ out[k].rec = log[p].rec
        BY <1>1, <3>2
      <4>2. p <= h + n
        BY <1>2, <4>1
      <4>3. o[k].rec = log[p].rec
        BY <2>1, <3>2, <4>1
      <4>4. QED
        BY <4>1, <4>2, <4>3
    <3>3. CASE k = Len(out) + 1
      BY <1>4, <1>6, <2>1, <3>3
    <3>4. QED
      BY <2>1, <3>2, <3>3
  <2>3. \A k \in 1..Len(out) : k \in 1..Len(o)
    BY <2>1
  <2>4. Len(out) + 1 \in 1..Len(o)
    BY <2>1
  <2>5. \A p \in 1..Len(log) :
          p <= h + n /\ Asked(log[p]) =>
            Spared(log[p].rec) \/ \E k \in 1..Len(o) : o[k].rec = log[p].rec
    <3>1. TAKE p \in 1..Len(log)
    <3>2. CASE p = h
      BY <1>6, <2>1, <2>4, <3>2
    <3>3. ASSUME p <= h - 1, Asked(log[p]), ~Spared(log[p].rec)
          PROVE  \E k \in 1..Len(o) : o[k].rec = log[p].rec
      <4>1. PICK k \in 1..Len(out) : out[k].rec = log[p].rec
        BY <1>1, <3>3
      <4>2. QED
        BY <2>1, <2>3, <4>1
    <3>4. QED
      BY <1>3, <3>2, <3>3
  <2>6. \A k \in 1..Len(out) : out[k].rec < r.rec
    <3>1. TAKE k \in 1..Len(out)
    <3>2. PICK p \in 1..Len(log) : p <= h - 1 /\ out[k].rec = log[p].rec
      BY <1>1
    <3>3. p < h /\ p <= h
      BY <3>2
    <3>4. log[p].rec < log[h].rec
      BY <3>3 DEF Numbered
    <3>5. QED
      BY <1>6, <3>2, <3>4
  <2>7. \A j, k \in 1..Len(o) : j < k => o[j].rec < o[k].rec
    <3>1. SUFFICES ASSUME NEW j \in 1..Len(o), NEW k \in 1..Len(o), j < k
                   PROVE  o[j].rec < o[k].rec
      OBVIOUS
    <3>2. j \in 1..Len(out)
      BY <2>1, <3>1
    <3>3. CASE k \in 1..Len(out)
      BY <1>1, <2>1, <3>1, <3>2, <3>3
    <3>4. CASE k = Len(out) + 1
      BY <2>1, <2>6, <3>2, <3>4
    <3>5. QED
      BY <2>1, <3>3, <3>4
  <2>8. QED
    BY <2>2, <2>5, <2>7 DEF Done
<1>7. QED
  BY <1>5, <1>6

\* What is done stays done.
LEMMA DoneKept ==
  ASSUME Types, Extended(log, log'), mode' = mode, NEW o, NEW u \in Int,
         u <= Len(log), Done(o, u)
  PROVE  Done(o, u)'
<1>1. /\ Len(log) \in Nat /\ Len(log') \in Nat /\ Len(log) <= Len(log')
      /\ \A p \in 1..Len(log) : p \in 1..Len(log') /\ log'[p] = log[p]
  <2>1. Len(log) \in Nat /\ Len(log') \in Nat
    BY LenProperties DEF Types, Extended
  <2>2. Len(log) <= Len(log') /\ \A p \in 1..Len(log) : log'[p] = log[p]
    BY DEF Extended
  <2>3. QED
    BY <2>1, <2>2
<1>2. \A p \in 1..Len(log') : p <= u => p \in 1..Len(log)
  BY <1>1
<1>3. \A i : Spared(i) => Spared(i)'
  BY LongKept DEF Spared
<1>4. \A k \in 1..Len(o) : \E p \in 1..Len(log') :
        p <= u /\ Asked(log'[p]) /\ o[k].rec = log'[p].rec
  <2>1. TAKE k \in 1..Len(o)
  <2>2. PICK p \in 1..Len(log) : p <= u /\ Asked(log[p]) /\ o[k].rec = log[p].rec
    BY DEF Done
  <2>3. QED
    BY <1>1, <2>2
<1>5. \A p \in 1..Len(log') :
        p <= u /\ Asked(log'[p]) =>
          Spared(log[p].rec)' \/ \E k \in 1..Len(o) : o[k].rec = log'[p].rec
  <2>1. SUFFICES ASSUME NEW p \in 1..Len(log'), p <= u, Asked(log'[p]),
                        ~\E k \in 1..Len(o) : o[k].rec = log'[p].rec
                 PROVE  Spared(log[p].rec)'
    OBVIOUS
  <2>2. p \in 1..Len(log) /\ log'[p] = log[p]
    BY <1>1, <1>2, <2>1
  <2>3. Spared(log[p].rec)
    BY <2>1, <2>2 DEF Done
  <2>4. PICK i : i = log[p].rec
    OBVIOUS
  <2>5. Spared(i)'
    BY <1>3, <2>3, <2>4
  <2>6. QED
    BY <2>2, <2>4, <2>5
<1>6. \A j, k \in 1..Len(o) : j < k => o[j].rec < o[k].rec
  BY DEF Done
<1>7. QED
  BY <1>4, <1>5, <1>6 DEF Done
LEMMA DoneNow ==
  ASSUME UNCHANGED <<mode, log>>
  PROVE  \A o, u : Done(o, u)' <=> Done(o, u)
<1>1. \A i : Spared(i)' <=> Spared(i)
  BY DEF Spared, Long
<1>2. \A o, u : Done(o, u)' <=> Done(o, u)
  BY <1>1 DEF Done
<1>3. QED
  BY <1>2

\* A record that the reader has come to the end of, or rather has not jumped.
LEMMA WholeRecord ==
  ASSUME Types, Records(log), Numbered(log), UNCHANGED <<mode, base, log>>,
         NEW h \in 1..Len(log), IsHead(log[h]), Done(out, h - 1),
         tail' - base = h + log[h].n,
         \/ out' = out /\ (~Asked(log[h]) \/ Spared(log[h].rec))
         \/ /\ Asked(log[h])
            /\ \E r \in RecType : r.rec = log[h].rec /\ out' = Append(out, r)
  PROVE  Done(out, tail - base)'
<1>1. PICK n \in Nat : n = log[h].n
  BY LogFacts
<1>2. PICK o : o = out'
  OBVIOUS
<1>3. Done(o, h + n)
  BY <1>1, <1>2, DoneRecord
<1>4. PICK u : u = h + n
  OBVIOUS
<1>5. Done(o, u)'
  BY <1>3, <1>4, DoneNow
<1>6. u = tail' - base'
  BY <1>1, <1>4
<1>7. QED
  BY <1>2, <1>5, <1>6

\* A skip that does not jump ends where the record does, or past the head.
LEMMA NotJumped ==
  ASSUME NEW t \in Int, NEW n \in Nat, NEW s \in Int, DataHead \in Int,
         s = Skipped(t, n), SkipEnds(t, n, s), ~Jumps(t, n)
  PROVE  s = t + n \/ (s = DataHead /\ t + n > DataHead)
<1>1. s = t + n \/ s = DataHead
  BY DEF SkipEnds
<1>2. ~(t + n < DataHead /\ s # t + n)
  BY DEF Jumps
<1>3. QED
  BY <1>1, <1>2

LEMMA WriteDelivery ==
  ASSUME Core, Delivery, Write
  PROVE  Delivery'
<1>1. UNCHANGED <<mode, base, tail, pc, keep, left, todo, nips, rec, out,
                  strayed, jumped>>
  BY DEF Write
<1>2. Types /\ Records(log) /\ Behind
  BY DEF Core
<1>3. Extended(log, log') /\ Len(log) \in Nat
  BY <1>2, WriteExtends, LogFacts
<1>4. SUFFICES ASSUME ~strayed, ~jumped
               PROVE  /\ pc # "fields" => Done(out, tail - base)'
                      /\ pc = "fields" => \E h \in 1..Len(log'), l \in Nat :
                                            Reading(h, l)' /\ Done(out, h - 1)'
  BY <1>1 DEF Delivery
<1>5. PICK o : o = out
  OBVIOUS
<1>6. ASSUME pc # "fields" PROVE Done(out, tail - base)'
  <2>1. PICK u \in Int : u = tail - base
    BY <1>2 DEF Types
  <2>2. u <= Len(log)
    BY <1>2, <1>4, <2>1, LogFacts DEF Behind, Types
  <2>3. Done(o, u)
    BY <1>4, <1>5, <1>6, <2>1 DEF Delivery
  <2>4. Done(o, u)'
    BY <1>1, <1>2, <1>3, <2>2, <2>3, DoneKept
  <2>5. QED
    BY <1>1, <1>5, <2>1, <2>4
<1>7. ASSUME pc = "fields"
      PROVE  \E h \in 1..Len(log'), l \in Nat : Reading(h, l)' /\ Done(out, h - 1)'
  <2>1. PICK h \in 1..Len(log), l \in Nat : Reading(h, l) /\ Done(out, h - 1)
    BY <1>4, <1>7 DEF Delivery
  <2>2. \A p \in 1..Len(log) : log'[p] = log[p]
    BY <1>3 DEF Extended
  <2>3. Reading(h, l)'
    BY <1>1, <1>2, <2>1, <2>2, ReadingKept
  <2>4. PICK u \in Int : u = h - 1 /\ u <= Len(log)
    BY <1>3
  <2>5. Done(o, u)'
    BY <1>1, <1>2, <1>3, <1>5, <2>1, <2>4, DoneKept
  <2>6. Done(out, h - 1)'
    BY <1>1, <1>5, <2>4, <2>5
  <2>7. h \in 1..Len(log')
    <3>1. Len(log') \in Nat /\ Len(log) <= Len(log')
      BY <1>3, LenProperties DEF Extended
    <3>2. QED
      BY <1>3, <3>1
  <2>8. QED
    BY <2>3, <2>6, <2>7
<1>8. QED
  BY <1>6, <1>7

LEMMA PassDelivery ==
  ASSUME Core, Delivery, Start \/ End
  PROVE  Delivery'
<1>1. /\ UNCHANGED <<mode, base, log, tail, out, strayed, jumped>>
      /\ pc # "fields" /\ pc' # "fields"
  BY DEF Start, End
<1>2. SUFFICES ASSUME ~strayed, ~jumped
               PROVE  Done(out, tail - base)'
  BY <1>1 DEF Delivery
<1>3. PICK o : o = out
  OBVIOUS
<1>4. PICK u : u = tail - base
  OBVIOUS
<1>5. Done(o, u)
  BY <1>1, <1>2, <1>3, <1>4 DEF Delivery
<1>6. Done(o, u)'
  BY <1>1, <1>5, DoneNow
<1>7. QED
  BY <1>1, <1>3, <1>4, <1>6

\* What a reader that has strayed hands over is not asked for.
LEMMA StrayDelivery ==
  ASSUME Core, StrayRead \/ StraySkip \/ StrayEnd
  PROVE  Delivery'
<1>1. pc = "stray" /\ strayed' = strayed
  BY DEF StrayRead, StraySkip, StrayEnd
<1>2. QED
  BY <1>1 DEF Core, Framing, Delivery

LEMMA SkipDelivery ==
  ASSUME Core, Delivery, SkipRecord
  PROVE  Delivery'
<1>1. /\ UNCHANGED <<mode, base, log, pc, strayed>>
      /\ pc = "header" /\ CanRead
  BY DEF SkipRecord
<1>2. PICK w : w = At(tail)
  OBVIOUS
<1>3. /\ tail' = Skipped(tail + 1, w.n)
      /\ jumped' = (jumped \/ Jumps(tail + 1, w.n))
      /\ out' = IF w.field = "sample" /\ w.who = "user"
                THEN Append(out, [NoRec EXCEPT !.rec = w.rec]) ELSE out
  BY <1>2 DEF SkipRecord
<1>4. SUFFICES ASSUME ~strayed, ~jumped'
               PROVE  Done(out, tail - base)'
  BY <1>1 DEF Delivery
<1>5. ~jumped /\ ~Jumps(tail + 1, w.n)
  BY <1>3, <1>4, Zenon
<1>6. Types /\ Records(log) /\ Numbered(log) /\ Behind
  BY DEF Core
<1>7. /\ tail < DataHead /\ (tail - base) + 1 \in 1..Len(log)
      /\ w = log[(tail - base) + 1] /\ w \in WordType
  BY <1>1, <1>2, <1>6, Here
<1>8. PICK h \in 1..Len(log) : h = (tail - base) + 1
  BY <1>7
<1>9. IsHead(log[h])
  <2>1. Boundary(tail)
    BY <1>1, <1>4 DEF Core, Framing
  <2>2. QED
    BY <1>1, <1>6, <1>8, <2>1, AtHeader
<1>10. PICK n \in Nat : n = log[h].n
  BY <1>6, LogFacts
<1>11. w.n = n /\ n \in 1..(Size - 1) /\ h + n <= Len(log)
  <2>1. IsHead(w) /\ w = log[h]
    BY <1>7, <1>8, <1>9
  <2>2. w.n = log[h].n
    BY <1>6, <2>1, BodyLenOf
  <2>3. QED
    BY <1>6, <1>9, <1>10, <2>2, RecordAt
<1>12. /\ tail \in Int /\ base \in Int /\ DataHead \in Int
       /\ Len(log) \in Nat /\ DataHead = base + Len(log)
       /\ base <= tail /\ DataHead - tail < Size /\ Size \in Nat
  BY <1>6, LogFacts DEF Types, Behind
<1>13. PICK t \in Int : t = tail + 1
  BY <1>12
<1>14. t <= DataHead /\ DataHead - t < Size /\ n <= Size
       /\ (t + n) - base = h + n /\ t + n <= DataHead
  <2>1. n \in 1..(Size - 1) /\ h + n <= Len(log) /\ tail < DataHead
    BY <1>7, <1>11
  <2>2. QED
    BY <1>8, <1>12, <1>13, <2>1
<1>15. SkipEnds(t, n, Skipped(t, n))
  BY <1>12, <1>14, SkipTo
<1>16. PICK s \in Int : s = tail'
  BY <1>3, <1>11, <1>13, <1>15 DEF SkipEnds
<1>17. s = t + n
  <2>1. s = Skipped(t, n) /\ SkipEnds(t, n, s) /\ ~Jumps(t, n)
    BY <1>3, <1>5, <1>11, <1>13, <1>15, <1>16
  <2>2. s = t + n \/ (s = DataHead /\ t + n > DataHead)
    BY <1>12, <2>1, NotJumped
  <2>3. QED
    BY <1>12, <1>14, <2>2
<1>18. tail' - base = h + log[h].n
  BY <1>10, <1>14, <1>16, <1>17
<1>19. Done(out, h - 1)
  <2>1. Done(out, tail - base)
    BY <1>1, <1>4, <1>5 DEF Delivery
  <2>2. h - 1 = tail - base
    BY <1>8, <1>12
  <2>3. QED
    BY <2>1, <2>2
<1>20. \/ out' = out /\ ~Asked(log[h])
       \/ /\ Asked(log[h])
          /\ \E r \in RecType : r.rec = log[h].rec /\ out' = Append(out, r)
  <2>1. w = log[h] /\ w.rec \in Nat
    BY <1>7, <1>8 DEF WordType
  <2>2. PICK r : r = [NoRec EXCEPT !.rec = w.rec]
    OBVIOUS
  <2>3. r \in RecType /\ r.rec = w.rec
    BY <2>1, <2>2 DEF NoRec, RecType, WhoType
  <2>4. QED
    BY <1>3, <2>1, <2>2, <2>3 DEF Asked
<1>21. QED
  BY <1>1, <1>6, <1>9, <1>18, <1>19, <1>20, WholeRecord
LEMMA BeginDelivery ==
  ASSUME Core, Delivery, BeginSample
  PROVE  Delivery'
<1>1. /\ UNCHANGED <<mode, base, log, out, strayed, jumped>>
      /\ pc = "header" /\ pc' = "fields"
  BY DEF BeginSample
<1>2. SUFFICES ASSUME ~strayed, ~jumped
               PROVE  \E h \in 1..Len(log), l \in Nat :
                        Reading(h, l)' /\ Done(out, h - 1)'
  BY <1>1 DEF Delivery
<1>3. PICK h \in 1..Len(log), l \in Nat : Reading(h, l)' /\ h = (tail - base) + 1
  BY BeginRead
<1>4. Done(out, h - 1)
  <2>1. Done(out, tail - base)
    BY <1>1, <1>2 DEF Delivery
  <2>2. tail \in Int /\ base \in Int
    BY DEF Core, Types
  <2>3. h - 1 = tail - base
    BY <1>3, <2>2
  <2>4. QED
    BY <2>1, <2>3
<1>5. PICK o : o = out
  OBVIOUS
<1>6. PICK u : u = h - 1
  OBVIOUS
<1>7. Done(o, u)'
  BY <1>1, <1>4, <1>5, <1>6, DoneNow
<1>8. Done(out, h - 1)'
  BY <1>1, <1>5, <1>6, <1>7
<1>9. QED
  BY <1>3, <1>8

LEMMA ReadDelivery ==
  ASSUME Core, Delivery, ReadField
  PROVE  Delivery'
<1>1. UNCHANGED <<mode, base, log, strayed>> /\ pc = "fields"
  BY DEF ReadField
<1>2. Types /\ Records(log) /\ Numbered(log)
  BY DEF Core
<1>3. SUFFICES ASSUME ~strayed, ~jumped' PROVE Delivery'
  BY <1>1 DEF Delivery
<1>4. ~jumped
  <2>1. PICK h \in 1..Len(log), l \in Nat : Reading(h, l)
    BY <1>1 DEF Core, Framing
  <2>2. PICK k, w : WordIs(h, l, k, w)
    BY <2>1, InRecord
  <2>3. FieldRead(h, l, k)
    BY <2>1, <2>2, ReadOne
  <2>4. jumped' = jumped \/ jumped' = (jumped \/ (left' > 0 /\ Jumps(tail + 1, left')))
    BY <2>3 DEF FieldRead
  <2>5. QED
    BY <1>3, <2>4, Zenon
<1>5. PICK h \in 1..Len(log), l \in Nat : Reading(h, l) /\ Done(out, h - 1)
  BY <1>1, <1>3, <1>4 DEF Delivery
<1>6. PICK k, w : WordIs(h, l, k, w)
  BY <1>5, InRecord
<1>7. FieldRead(h, l, k)
  BY <1>5, <1>6, ReadOne
<1>8. CASE /\ left' > 0 /\ Expecting(todo', k + 1, l, left')
           /\ tail' = tail + 1
           /\ UNCHANGED <<pc, out, jumped>>
  <2>1. Reading(h, l)'
    BY <1>5, <1>6, <1>7, <1>8, ReadFurther
  <2>2. PICK o : o = out
    OBVIOUS
  <2>3. PICK u : u = h - 1
    OBVIOUS
  <2>4. Done(o, u)'
    BY <1>1, <1>5, <2>2, <2>3, DoneNow
  <2>5. Done(out, h - 1)'
    BY <1>8, <2>2, <2>3, <2>4
  <2>6. h \in 1..Len(log') /\ pc' = "fields"
    BY <1>1, <1>8
  <2>7. QED
    BY <2>1, <2>5, <2>6 DEF Delivery
<1>9. CASE /\ pc' = "header"
           /\ tail' = Finished(tail + 1, left')
           /\ jumped' = (jumped \/ (left' > 0 /\ Jumps(tail + 1, left')))
           /\ \/ out' = Append(out, rec') /\ log[h].who = "user"
              \/ out' = out /\ (log[h].who # "user" \/ (mode = "ll" /\ l > IpNum))
  <2>1. left' = left - 1 /\ rec' \in RecType /\ rec'.rec = log[h].rec
    BY <1>7 DEF FieldRead, RecRead
  <2>2. log[h].field = "sample" /\ IsHead(log[h]) /\ Laid(log, h, l)
    BY <1>5 DEF Reading, IsHead
  <2>3. PICK m \in Nat : m = left - 1
    BY <1>6 DEF WordIs
  <2>4. PICK t \in Int : t = tail + 1
    BY <1>2 DEF Types
  <2>5. ~(left' > 0 /\ Jumps(tail + 1, left'))
    BY <1>3, <1>9, Zenon
  <2>6. ~(m > 0 /\ Jumps(t, m)) /\ tail' = Finished(t, m)
    BY <1>9, <2>1, <2>3, <2>4, <2>5
  <2>7. /\ SkipEnds(tail + 1, left - 1, tail')
        /\ ((tail + 1) + (left - 1)) - base = h + log[h].n
    <3>1. tail' = Finished(tail + 1, left - 1)
      BY <1>9, <2>1
    <3>2. QED
      BY <1>5, <1>6, <3>1, ReadToEnd
  <2>8. SkipEnds(t, m, tail') /\ (t + m) - base = h + log[h].n
    BY <2>3, <2>4, <2>7
  <2>9. PICK s \in Int : s = tail'
    BY <2>8 DEF SkipEnds
  <2>10. s = t + m
    <3>1. CASE m > 0
      <4>1. s = Skipped(t, m) /\ ~Jumps(t, m) /\ SkipEnds(t, m, s)
        BY <2>6, <2>8, <2>9, <3>1 DEF Finished
      <4>2. s = t + m \/ (s = DataHead /\ t + m > DataHead)
        BY <1>2, <4>1, NotJumped, LogFacts
      <4>3. t + m <= DataHead
        BY <1>2, <2>2, <2>8, EndOfRecord
      <4>4. QED
        BY <1>2, <4>2, <4>3, LogFacts
    <3>2. CASE m = 0
      BY <2>6, <2>9, <3>2 DEF Finished
    <3>3. QED
      BY <3>1, <3>2
  <2>11. tail' - base = h + log[h].n
    BY <2>8, <2>9, <2>10
  <2>12. \/ out' = out /\ (~Asked(log[h]) \/ Spared(log[h].rec))
         \/ /\ Asked(log[h])
            /\ \E r \in RecType : r.rec = log[h].rec /\ out' = Append(out, r)
    <3>1. CASE out' = Append(out, rec') /\ log[h].who = "user"
      BY <2>1, <2>2, <3>1 DEF Asked
    <3>2. CASE out' = out /\ log[h].who # "user"
      BY <3>2 DEF Asked
    <3>3. CASE out' = out /\ mode = "ll" /\ l > IpNum
      <4>1. Long(log[h].rec)
        BY <1>2, <2>2, <3>3, LongOf
      <4>2. QED
        BY <3>3, <4>1 DEF Spared
    <3>4. QED
      BY <1>9, <3>1, <3>2, <3>3
  <2>13. Done(out, tail - base)'
    BY <1>1, <1>2, <1>5, <2>2, <2>11, <2>12, WholeRecord
  <2>14. QED
    BY <1>9, <2>13 DEF Delivery
<1>10. QED
  BY <1>7, <1>8, <1>9 DEF FieldRead

LEMMA GoneDelivery ==
  ASSUME Core, Delivery, GoneProcess
  PROVE  Delivery'
<1>1. /\ UNCHANGED <<mode, base, log, left, out>>
      /\ pc = "fields" /\ pc' = "idle" /\ CanRead /\ mode = "ll"
      /\ todo[1] = "id" /\ At(tail).who = "gone"
      /\ tail' = Skipped(tail + 1, left)
      /\ jumped' = (jumped \/ Jumps(tail + 1, left))
      /\ strayed' = (strayed \/ Skipped(tail + 1, left) > tail + left)
  BY DEF GoneProcess
<1>2. Types /\ Records(log) /\ Numbered(log) /\ Behind
  BY DEF Core
<1>3. SUFFICES ASSUME ~strayed', ~jumped' PROVE Done(out, tail - base)'
  BY <1>1 DEF Delivery
<1>4. ~strayed /\ ~jumped /\ ~Jumps(tail + 1, left)
      /\ ~(Skipped(tail + 1, left) > tail + left)
  BY <1>1, <1>3, Zenon
<1>5. PICK h \in 1..Len(log), l \in Nat : Reading(h, l) /\ Done(out, h - 1)
  BY <1>1, <1>4 DEF Delivery
<1>6. PICK k, w : WordIs(h, l, k, w)
  BY <1>5, InRecord
<1>7. IsHead(log[h])
  BY <1>5 DEF Reading, IsHead
<1>8. PICK n \in Nat : n = log[h].n
  BY <1>2, LogFacts
<1>9. n \in 1..(Size - 1) /\ h + n <= Len(log)
  BY <1>2, <1>7, <1>8, RecordAt
<1>10. PICK m \in Nat : m = left
  BY <1>6 DEF WordIs
<1>11. /\ k \in Nat /\ k = n - m /\ (tail - base) + 1 = h + (k + 1)
       /\ At(tail) = w /\ w.who = log[h].who /\ NextIs(todo, k, l)
  BY <1>6, <1>8, <1>10 DEF WordIs
<1>12. k = 0 /\ log[h].who = "gone"
  BY <1>1, <1>11 DEF NextIs
<1>13. /\ tail \in Int /\ base \in Int /\ DataHead \in Int /\ Size \in Nat
       /\ Len(log) \in Nat /\ DataHead = base + Len(log)
       /\ base <= tail /\ tail < DataHead /\ DataHead - tail < Size
  BY <1>1, <1>2, LogFacts, Here DEF Types, Behind
<1>14. PICK t \in Int : t = tail + 1
  BY <1>13
<1>15. /\ m = n /\ tail + m = base + (h + n) /\ m <= Size
       /\ t <= DataHead /\ DataHead - t < Size /\ tail + m <= DataHead
       /\ t + m = (tail + m) + 1
  <2>1. m = n
    BY <1>11, <1>12
  <2>2. (tail - base) + 1 = h + 1
    BY <1>11, <1>12
  <2>3. tail = base + h
    BY <1>13, <2>2
  <2>4. tail + m = base + (h + n) /\ tail + m <= DataHead
    BY <1>9, <1>13, <2>1, <2>3
  <2>5. t <= DataHead /\ DataHead - t < Size /\ t + m = (tail + m) + 1
    BY <1>13, <1>14
  <2>6. m <= Size
    BY <1>9, <1>13, <2>1
  <2>7. QED
    BY <2>1, <2>4, <2>5, <2>6
<1>16. SkipEnds(t, m, Skipped(t, m))
  BY <1>13, <1>15, SkipTo
<1>17. PICK s \in Int : s = tail'
  BY <1>1, <1>10, <1>14, <1>16 DEF SkipEnds
<1>18. s = Skipped(t, m) /\ SkipEnds(t, m, s) /\ ~Jumps(t, m) /\ s <= tail + m
  BY <1>1, <1>4, <1>10, <1>13, <1>14, <1>16, <1>17
<1>19. s = DataHead /\ t + m > DataHead
  <2>1. s = t + m \/ (s = DataHead /\ t + m > DataHead)
    BY <1>13, <1>18, NotJumped
  <2>2. QED
    BY <1>13, <1>15, <1>18, <2>1
<1>20. tail' - base = h + log[h].n
  <2>1. s = base + (h + n)
    BY <1>13, <1>14, <1>15, <1>19
  <2>2. s - base = h + n
    BY <1>13, <2>1
  <2>3. QED
    BY <1>8, <1>17, <2>2
<1>21. out' = out /\ ~Asked(log[h])
  BY <1>1, <1>12 DEF Asked
<1>22. QED
  BY <1>1, <1>2, <1>5, <1>7, <1>20, <1>21, WholeRecord

LEMMA StepDelivery ==
  ASSUME Core, Delivery, [Next]_vars
  PROVE  Delivery'
<1>1. CASE UNCHANGED vars
  <2>1. UNCHANGED <<mode, base, log, tail, pc, keep, left, todo, nips, rec, out,
                    strayed, jumped>>
    BY <1>1 DEF vars
  <2>2. \A o, u : Done(o, u)' <=> Done(o, u)
    BY <2>1, DoneNow
  <2>3. \A h, l : Reading(h, l)' <=> Reading(h, l)
    BY <2>1, ReadingNow
  <2>4. PICK o : o = out
    OBVIOUS
  <2>5. PICK u : u = tail - base
    OBVIOUS
  <2>6. Done(out, tail - base) => Done(out, tail - base)'
    <3>1. Done(o, u)' <=> Done(o, u)
      BY <2>2
    <3>2. o = out' /\ u = tail' - base'
      BY <2>1, <2>4, <2>5
    <3>3. QED
      BY <2>4, <2>5, <3>1, <3>2
  <2>7. \A h \in 1..Len(log) : Done(out, h - 1) => Done(out, h - 1)'
    <3>1. \A h \in 1..Len(log) : Done(o, h - 1)' <=> Done(o, h - 1)
      BY <2>2
    <3>2. o = out'
      BY <2>1, <2>4
    <3>3. QED
      BY <2>4, <3>1, <3>2
  <2>8. QED
    BY <2>1, <2>3, <2>6, <2>7 DEF Delivery
<1>2. QED
  BY <1>1, WriteDelivery, PassDelivery, SkipDelivery, BeginDelivery,
     ReadDelivery, GoneDelivery, StrayDelivery DEF Next

LEMMA DeliveredOf ==
  ASSUME Core, Delivery
  PROVE  Delivered
<1>1. SUFFICES ASSUME pc # "fields", ~strayed, ~jumped
               PROVE  LET passed == {AtPos(p).rec : p \in {q \in (base + 1)..tail : Wanted(q)}}
                          handed == {out[k].rec : k \in DOMAIN out}
                      IN /\ handed \subseteq passed
                         /\ \A i \in passed \ handed : mode = "ll" /\ Long(i)
                         /\ \A k, l \in DOMAIN out : k < l => out[k].rec < out[l].rec
  BY DEF Delivered
<1> DEFINE passed == {AtPos(p).rec : p \in {q \in (base + 1)..tail : Wanted(q)}}
<1> DEFINE handed == {out[k].rec : k \in DOMAIN out}
<1>2. Done(out, tail - base)
  BY <1>1 DEF Delivery
<1>3. DOMAIN out = 1..Len(out)
  BY LenProperties DEF Core, Types
<1>4. /\ tail \in Int /\ base \in Int /\ Len(log) \in Nat /\ base <= tail
      /\ tail <= base + Len(log)
  BY <1>1, LogFacts DEF Core, Types, Behind
<1>5. \A q \in (base + 1)..tail : q - base \in 1..Len(log) /\ q - base <= tail - base
  BY <1>4
<1>6. \A p \in 1..Len(log) : p <= tail - base =>
        base + p \in (base + 1)..tail /\ (base + p) - base = p
  BY <1>4
<1>7. \A q : Wanted(q) <=> Asked(log[q - base])
  BY DEF Wanted, Asked, AtPos
<1>8. handed \subseteq passed
  <2>1. SUFFICES ASSUME NEW k \in DOMAIN out PROVE out[k].rec \in passed
    OBVIOUS
  <2>2. PICK p \in 1..Len(log) :
          p <= tail - base /\ Asked(log[p]) /\ out[k].rec = log[p].rec
    BY <1>2, <1>3, <2>1 DEF Done
  <2>3. base + p \in (base + 1)..tail /\ (base + p) - base = p
    BY <1>6, <2>2
  <2>4. Wanted(base + p) /\ AtPos(base + p).rec = out[k].rec
    BY <1>7, <2>2, <2>3 DEF AtPos
  <2>5. QED
    BY <2>3, <2>4
<1>9. \A i \in passed \ handed : mode = "ll" /\ Long(i)
  <2>1. SUFFICES ASSUME NEW i \in passed, i \notin handed
                 PROVE  mode = "ll" /\ Long(i)
    OBVIOUS
  <2>2. PICK q \in (base + 1)..tail : Wanted(q) /\ i = AtPos(q).rec
    OBVIOUS
  <2>3. PICK p \in 1..Len(log) : p = q - base /\ p <= tail - base
    BY <1>5, <2>2
  <2>4. Asked(log[p]) /\ i = log[p].rec
    BY <1>7, <2>2, <2>3 DEF AtPos
  <2>5. Spared(i) \/ \E k \in 1..Len(out) : out[k].rec = i
    BY <1>2, <2>3, <2>4 DEF Done
  <2>6. ~\E k \in 1..Len(out) : out[k].rec = i
    BY <1>3, <2>1
  <2>7. QED
    BY <2>5, <2>6 DEF Spared
<1>10. \A k, l \in DOMAIN out : k < l => out[k].rec < out[l].rec
  BY <1>2, <1>3 DEF Done
<1>11. QED
  BY <1>8, <1>9, <1>10

\* However records and chains lie in the buffer and wherever an int wraps, the
\* samples of the processes that pf_profiling_record and pf_ll_record pass are
\* handed over, each once and in the order in which the kernel wrote them, as
\* long as no skip went astray or jumped.
THEOREM HandsOver == Spec => []Delivered
<1>1. Init => Core /\ Delivery
  <2>1. SUFFICES ASSUME Init PROVE Delivery
    BY InitCore
  <2>2. Len(out) = 0 /\ Len(log) = 0 /\ pc # "fields"
    BY <2>1 DEF Init
  <2>3. 1..Len(out) = {} /\ 1..Len(log) = {}
    BY <2>2
  <2>4. Done(out, tail - base)
    BY <2>3 DEF Done
  <2>5. QED
    BY <2>2, <2>4 DEF Delivery
<1>2. (Core /\ Delivery) /\ [Next]_vars => (Core /\ Delivery)'
  BY StepCore, StepDelivery
<1>3. Core /\ Delivery => Delivered
  BY DeliveredOf
<1>4. QED
  BY <1>1, <1>2, <1>3, PTL DEF Spec
=============================================================================
