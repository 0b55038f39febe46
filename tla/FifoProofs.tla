------------------------------ MODULE FifoProofs ------------------------------
(***************************************************************************)
(* The ring of bytes is a queue of messages, for any size of the buffer and  *)
(* any messages: whatever wraps around the end, and however many of the      *)
(* oldest messages a new one drops, the others keep their bytes and their    *)
(* order, and the loop that drops them always ends.                          *)
(*                                                                         *)
(* The invariant is that reading all the messages leads from the read offset *)
(* to the write offset and leaves the whole buffer free (FifoInv).  The      *)
(* messages then lie one after the other, in less than a turn of the ring    *)
(* (LeftLies), so that a message written behind the last one reaches none of *)
(* those that were not dropped (OthersKept).                                 *)
(***************************************************************************)
EXTENDS FifoCtrl, SequenceTheorems, WellFoundedInduction, TLAPS

Offsets == 0 .. Size - 1

FifoTypes ==
    /\ buffer \in [Offsets -> Nat]
    /\ readOffset \in Offsets /\ writeOffset \in Offsets
    /\ freeSpace \in 0 .. Size /\ nbElement \in Nat

\* The inductive invariant.
FifoInv ==
    /\ FifoTypes
    /\ Left[nbElement] = [read |-> writeOffset, free |-> Size]

-----------------------------------------------------------------------------
(* Arithmetic. *)

\* The quotient and the remainder of a number.
LEMMA Division ==
    ASSUME NEW a \in Int, NEW c \in Nat \ {0}
    PROVE  a \div c \in Int /\ a % c \in 0 .. c - 1 /\ a = c * (a \div c) + (a % c)
OBVIOUS

\* The remainder is the only one.
LEMMA Remainder ==
    ASSUME NEW a \in Int, NEW c \in Nat \ {0}, NEW q \in Int, NEW r \in 0 .. c - 1,
           a = c * q + r
    PROVE  a % c = r
<1> DEFINE p == a \div c  s == a % c
<1>1. p \in Int /\ s \in 0 .. c - 1 /\ a = c * p + s BY Division
<1> HIDE DEF p, s
<1>2. CASE p > q
  <2>1. p - q - 1 \in Nat BY <1>1, <1>2
  <2>2. c * (p - q - 1) \in Nat BY <2>1
  <2>3. c * (p - q - 1) = c * p - c * q - c BY <1>1
  <2>4. c * p \in Int /\ c * q \in Int BY <1>1
  <2> QED BY <1>1, <2>2, <2>3, <2>4
<1>3. CASE q > p
  <2>1. q - p - 1 \in Nat BY <1>1, <1>3
  <2>2. c * (q - p - 1) \in Nat BY <2>1
  <2>3. c * (q - p - 1) = c * q - c * p - c BY <1>1
  <2>4. c * p \in Int /\ c * q \in Int BY <1>1
  <2> QED BY <1>1, <2>2, <2>3, <2>4
<1>4. p = q => s = r
  <2>1. c * q \in Int OBVIOUS
  <2> QED BY <1>1, <2>1
<1>5. p = q BY <1>1, <1>2, <1>3
<1> QED BY <1>4, <1>5 DEF s

\* Offsets may wrap early.
LEMMA WrapEarly ==
    ASSUME NEW a \in Nat, NEW b \in Nat, NEW c \in Nat \ {0}
    PROVE  a % c \in 0 .. c - 1 /\ ((a % c) + b) % c = (a + b) % c
<1> DEFINE q == a \div c  r == a % c
<1>1. q \in Nat /\ r \in 0 .. c - 1 /\ a = c * q + r OBVIOUS
<1> HIDE DEF q, r
<1> DEFINE v == r + b
<1>2. v \in Int BY <1>1
<1> HIDE DEF v
<1> DEFINE p == v \div c  s == v % c
<1>3. p \in Int /\ s \in 0 .. c - 1 /\ v = c * p + s BY <1>2, Division
<1> HIDE DEF p, s
<1>4. q + p \in Int /\ a + b \in Int BY <1>1, <1>3
<1>5. c * (q + p) = c * q + c * p BY <1>1, <1>3
<1>6. c * q \in Int /\ c * p \in Int BY <1>1, <1>3
<1>7. a + b = c * (q + p) + s BY <1>1, <1>3, <1>5, <1>6 DEF v
<1> DEFINE z == q + p  ab == a + b
<1>8. z \in Int /\ ab \in Int /\ ab = c * z + s BY <1>4, <1>7
<1> HIDE DEF z, ab
<1>9. ab % c = s BY <1>3, <1>8, Remainder
<1> QED BY <1>1, <1>9 DEF r, s, v, ab

\* Offsets less than a turn apart are the same if they wrap to the same.
LEMMA SameOffset ==
    ASSUME NEW a \in Nat, NEW b \in Nat, NEW c \in Nat \ {0}, a <= b, b - a < c,
           a % c = b % c
    PROVE  a = b
<1> DEFINE q == a \div c  r == a % c
<1>1. q \in Nat /\ r \in 0 .. c - 1 /\ a = c * q + r OBVIOUS
<1> HIDE DEF q, r
<1> DEFINE t == r + (b - a)
<1>2. t \in Nat /\ t < 2 * c BY <1>1
<1>3. b = c * q + t
  <2>1. c * q \in Nat BY <1>1
  <2> QED BY <1>1, <2>1
<1>4. b % c = a % c => b % c = r BY DEF r
<1>5. t = r => a = b BY <1>1
<1>6. t = r + c => FALSE BY <1>1
<1> HIDE DEF t
<1>7. CASE t < c
  <2>1. q \in Int /\ t \in 0 .. c - 1 BY <1>1, <1>2, <1>7
  <2>2. b % c = t BY <1>3, <2>1, Remainder
  <2> QED BY <1>4, <1>5, <2>2
<1>8. CASE t >= c
  <2> DEFINE u == t - c  z == q + 1
  <2>1. b = c * z + u
    <3>1. c * q \in Nat /\ c * (q + 1) = c * q + c BY <1>1
    <3> QED BY <1>2, <1>3, <3>1
  <2>2. u \in 0 .. c - 1 /\ z \in Int BY <1>1, <1>2, <1>8
  <2> HIDE DEF u, z
  <2>3. b % c = u BY <2>1, <2>2, Remainder
  <2>4. t = r + c BY <1>1, <1>2, <1>4, <2>3 DEF u
  <2> QED BY <1>6, <2>4
<1> QED BY <1>2, <1>7, <1>8

\* How far an offset is behind another one.
LEMMA Distance ==
    ASSUME NEW c \in Nat \ {0}, NEW w \in 0 .. c - 1, NEW i \in 0 .. c - 1
    PROVE  /\ (i - w) % c \in 0 .. c - 1 /\ (w + ((i - w) % c)) % c = i
           /\ \A e \in 0 .. c - 1 : (w + e) % c = i => (i - w) % c = e
<1>1. (i - w) % c \in 0 .. c - 1 /\ (w + ((i - w) % c)) % c = i
  <2>1. i % c = i
    <3>1. i = c * 0 + i OBVIOUS
    <3> QED BY <3>1, Remainder
  <2>2. CASE i >= w
    <3>1. i - w = c * 0 + (i - w) /\ i - w \in 0 .. c - 1 BY <2>2
    <3>2. (i - w) % c = i - w BY <3>1, Remainder
    <3> QED BY <2>1, <3>1, <3>2
  <2>3. CASE i < w
    <3> DEFINE d == i - w + c
    <3>1. i - w = c * (-1) + d /\ d \in 0 .. c - 1 /\ i - w \in Int BY <2>3
    <3>2. w + d = c * 1 + i /\ w + d \in Int OBVIOUS
    <3> HIDE DEF d
    <3>3. (i - w) % c = d BY <3>1, Remainder
    <3>4. (w + d) % c = i BY <3>2, Remainder
    <3> QED BY <3>1, <3>3, <3>4
  <2> QED BY <2>2, <2>3
<1>2. ASSUME NEW e \in 0 .. c - 1, (w + e) % c = i PROVE (i - w) % c = e
  <2> DEFINE d == (i - w) % c
  <2>1. d \in 0 .. c - 1 /\ (w + d) % c = i BY <1>1
  <2> HIDE DEF d
  <2>2. w + d \in Nat /\ w + e \in Nat BY <2>1
  <2>3. CASE d <= e
    <3>1. w + d <= w + e /\ (w + e) - (w + d) < c BY <2>1, <2>3
    <3>2. w + d = w + e BY <1>2, <2>1, <2>2, <3>1, SameOffset
    <3> QED BY <2>1, <3>2 DEF d
  <2>4. CASE e <= d
    <3>1. w + e <= w + d /\ (w + d) - (w + e) < c BY <2>1, <2>4
    <3>2. w + e = w + d BY <1>2, <2>1, <2>2, <3>1, SameOffset
    <3> QED BY <2>1, <3>2 DEF d
  <2> QED BY <2>1, <2>3, <2>4
<1> QED BY <1>1, <1>2

\* What holds at first and is passed on holds up to any number.
LEMMA UpTo ==
    ASSUME NEW n \in Nat, NEW S, 0 \in S, \A k \in 1 .. n : k - 1 \in S => k \in S
    PROVE  0 .. n \subseteq S
<1> SUFFICES ASSUME (0 .. n) \ S # {} PROVE FALSE OBVIOUS
<1> DEFINE T == (0 .. n) \ S
           Lt == {ss \in Nat \X Nat : ss[1] < ss[2]}
<1>1. IsWellFoundedOn(Lt, Nat) BY NatLessThanWellFounded DEF OpToRel
<1>2. T \subseteq Nat /\ T # {} OBVIOUS
<1>3. PICK m \in T : \A k \in T : <<k, m>> \notin Lt
  <2> HIDE DEF Lt, T
  <2> QED BY <1>1, <1>2, WFMin, Zenon
<1>4. m \in 1 .. n /\ m - 1 \in 0 .. n BY <1>3
<1>5. ASSUME NEW k \in T, k < m PROVE FALSE
  <2>1. k \in Nat /\ m \in Nat BY <1>3
  <2>2. <<k, m>> \in Lt BY <1>5, <2>1
  <2> HIDE DEF Lt, T
  <2> QED BY <1>3, <2>2
<1>6. m - 1 \notin T
  <2>1. m - 1 < m BY <1>4
  <2> HIDE DEF T
  <2> QED BY <1>5, <2>1
<1> QED BY <1>3, <1>4, <1>6

\* A recursive function on the first numbers exists.
Solution(f, n, V, b, next) ==
    /\ f \in [0 .. n -> V]
    /\ \A k \in 0 .. n : f[k] = IF k = 0 THEN b ELSE next[f[k - 1]]
LEMMA Recursion ==
    ASSUME NEW n \in Nat, NEW V, NEW b \in V, NEW next \in [V -> V]
    PROVE  \E f : Solution(f, n, V, b, next)
<1> USE DEF Solution
<1> DEFINE Is(f, m) == Solution(f, m, V, b, next)
           S == {m \in 0 .. n : \E f : Is(f, m)}
<1>1. 0 \in S
  <2>1. Is([k \in 0 .. 0 |-> b], 0) OBVIOUS
  <2> HIDE DEF Is, Solution
  <2> QED BY <2>1
<1>2. ASSUME NEW m \in 1 .. n, m - 1 \in S PROVE m \in S
  <2>1. PICK f : Is(f, m - 1) BY <1>2
  <2> DEFINE g == [k \in 0 .. m |-> IF k = m THEN next[f[m - 1]] ELSE f[k]]
  <2>2. Is(g, m)
    <3>1. m - 1 \in 0 .. m - 1 /\ f[m - 1] \in V BY <2>1
    <3>2. \A k \in 0 .. m : k # m => k \in 0 .. m - 1 OBVIOUS
    <3>3. g \in [0 .. m -> V] BY <2>1, <3>1, <3>2
    <3>4. \A k \in 0 .. m - 1 : k # 0 => k - 1 \in 0 .. m - 1 OBVIOUS
    <3>5. \A k \in 0 .. m - 1 : g[k] = IF k = 0 THEN b ELSE next[g[k - 1]]
      BY <2>1, <3>4
    <3>6. g[m] = next[g[m - 1]] /\ m # 0 OBVIOUS
    <3> HIDE DEF g
    <3> QED BY <3>2, <3>3, <3>5, <3>6
  <2> HIDE DEF Is, Solution
  <2> QED BY <2>2
<1> HIDE DEF Is, Solution
<1>3. 0 .. n \subseteq S
  <2> HIDE DEF S
  <2> QED BY <1>1, <1>2, UpTo
<1>4. n \in S BY <1>3
<1> QED BY <1>4 DEF Is

-----------------------------------------------------------------------------
(* The messages in a ring of bytes, one after the other. *)

Rings == [Offsets -> Nat]
Places == [read : Offsets, free : Nat]

\* The bytes at an offset of the ring b, and the message that they are.
Byte(b, o) == b[o % Size]
DataAt(b, o) == Byte(b, o) * 256 + Byte(b, o + 1)
MetaAt(b, o) == Byte(b, o + 2)
LengthAt(b, o) == Header + MetaAt(b, o) + DataAt(b, o)
MessageAt(b, o) ==
    [data |-> [i \in 1 .. DataAt(b, o) |-> Byte(b, o + Header + MetaAt(b, o) + i - 1)],
     meta |-> [i \in 1 .. MetaAt(b, o) |-> Byte(b, o + Header + i - 1)]]

\* The place behind the message at l, and the places that n messages lead to.
Behind(b, l) == [read |-> (l.read + LengthAt(b, l.read)) % Size,
                 free |-> l.free + LengthAt(b, l.read)]
Chain(b, L, n) ==
    /\ n \in Nat /\ L \in [0 .. n -> Places]
    /\ \A k \in 1 .. n : L[k] = Behind(b, L[k - 1])

\* The bytes of the ring are numbers, and so are the lengths they tell.
LEMMA LengthsAreNat ==
    ASSUME FifoAssumption, NEW b \in Rings, NEW o \in Nat
    PROVE  /\ Byte(b, o) \in Nat /\ DataAt(b, o) \in Nat /\ MetaAt(b, o) \in Nat
           /\ LengthAt(b, o) \in Nat /\ LengthAt(b, o) >= Header
<1>1. \A p \in Nat : Byte(b, p) \in Nat
  <2> TAKE p \in Nat
  <2>1. p % Size \in Offsets BY DEF FifoAssumption, Offsets
  <2> QED BY <2>1 DEF Byte, Rings
<1>2. Byte(b, o) \in Nat /\ Byte(b, o + 1) \in Nat /\ Byte(b, o + 2) \in Nat BY <1>1
<1> QED BY <1>2 DEF DataAt, MetaAt, LengthAt, Header

LEMMA PlaceBehind ==
    ASSUME FifoAssumption, NEW b \in Rings, NEW l \in Places
    PROVE  /\ Behind(b, l) \in Places /\ l.read \in Nat /\ l.free \in Nat
           /\ LengthAt(b, l.read) \in Nat /\ LengthAt(b, l.read) >= Header
           /\ Behind(b, l).free = l.free + LengthAt(b, l.read)
           /\ Behind(b, l).read = (l.read + LengthAt(b, l.read)) % Size
<1>1. l.read \in Nat /\ l.read \in Offsets /\ l.free \in Nat
  BY DEF Places, Offsets, FifoAssumption
<1> DEFINE n == LengthAt(b, l.read)
<1>2. n \in Nat /\ n >= Header BY <1>1, LengthsAreNat
<1> HIDE DEF n
<1>3. (l.read + n) % Size \in Offsets BY <1>1, <1>2 DEF Offsets, FifoAssumption
<1>4. Behind(b, l) = [read |-> (l.read + n) % Size, free |-> l.free + n] BY DEF Behind, n
<1> QED BY <1>1, <1>2, <1>3, <1>4 DEF Places, n

\* Messages free more and more of the ring, at least their own bytes.
LEMMA ChainGrows ==
    ASSUME FifoAssumption, NEW b \in Rings, NEW L, NEW n, Chain(b, L, n),
           NEW j \in 0 .. n, NEW k \in 0 .. n, j <= k
    PROVE  /\ L[j] \in Places /\ L[k] \in Places /\ L[k].free >= L[j].free
           /\ j < k => L[k].free >= L[j].free + LengthAt(b, L[j].read)
<1>1. n \in Nat /\ \A i \in 0 .. n : L[i] \in Places BY DEF Chain
<1>2. ASSUME NEW m \in 0 .. n PROVE \A i \in m .. n : L[i].free >= L[m].free
  <2> DEFINE S == {i \in 0 .. n : i >= m => L[i].free >= L[m].free}
  <2>1. L[m].free \in Nat BY <1>1 DEF Places
  <2>2. 0 \in S
    <3>1. 0 >= m => m = 0 OBVIOUS
    <3> QED BY <1>1, <2>1, <3>1
  <2>3. ASSUME NEW i \in 1 .. n, i - 1 \in S PROVE i \in S
    <3>1. i - 1 \in 0 .. n /\ i \in 0 .. n BY <1>1
    <3>2. L[i] = Behind(b, L[i - 1]) BY DEF Chain
    <3>3. L[i - 1].free \in Nat /\ L[i].free >= L[i - 1].free
      BY <1>1, <3>1, <3>2, PlaceBehind DEF Header
    <3>4. CASE i = m BY <2>1, <3>1, <3>4
    <3>5. CASE i > m
      <4>1. i - 1 >= m BY <3>5
      <4>2. L[i - 1].free >= L[m].free BY <2>3, <4>1
      <4>3. L[i].free \in Nat BY <1>1, <3>1 DEF Places
      <4> QED BY <2>1, <3>1, <3>3, <4>2, <4>3
    <3>6. CASE i < m BY <3>1, <3>6
    <3> QED BY <3>4, <3>5, <3>6
  <2> HIDE DEF S
  <2>4. 0 .. n \subseteq S BY <1>1, <2>2, <2>3, UpTo
  <2>5. \A i \in m .. n : i \in 0 .. n /\ i >= m OBVIOUS
  <2> QED BY <2>4, <2>5 DEF S
<1>3. k \in j .. n OBVIOUS
<1>4. ASSUME j < k PROVE L[k].free >= L[j].free + LengthAt(b, L[j].read)
  <2>1. j + 1 \in 1 .. n /\ j + 1 \in 0 .. n /\ k \in j + 1 .. n /\ (j + 1) - 1 = j
    BY <1>1, <1>4
  <2>2. L[j + 1] = Behind(b, L[j]) BY <2>1 DEF Chain
  <2>3. L[j + 1].free = L[j].free + LengthAt(b, L[j].read) BY <1>1, <2>2, PlaceBehind
  <2> QED BY <1>2, <2>1, <2>3
<1> QED BY <1>1, <1>2, <1>3, <1>4

\* Each message lies as far behind another as the ring is freer.
LEMMA ChainLies ==
    ASSUME FifoAssumption, NEW b \in Rings, NEW L, NEW n, Chain(b, L, n),
           NEW j \in 0 .. n, NEW k \in j .. n
    PROVE  L[k].read = (L[j].read + (L[k].free - L[j].free)) % Size
<1> DEFINE At1(i) == (L[j].read + (L[i].free - L[j].free)) % Size
           S == {i \in 0 .. n : i >= j => L[i].read = At1(i)}
<1>1. n \in Nat /\ \A i \in 0 .. n : L[i] \in Places BY DEF Chain
<1>2. L[j].read \in Nat /\ L[j].free \in Nat /\ L[j].read \in 0 .. Size - 1
  BY <1>1, PlaceBehind DEF Places, Offsets
<1>3. At1(j) = L[j].read
  <2> DEFINE r == L[j].read
  <2>1. r = Size * 0 + r /\ 0 \in Int /\ r \in Int /\ Size \in Nat \ {0}
    BY <1>2 DEF FifoAssumption
  <2>2. r \in 0 .. Size - 1 BY <1>2
  <2>3. r + (L[j].free - L[j].free) = r BY <1>2
  <2> HIDE DEF r
  <2>4. r % Size = r BY <2>1, <2>2, Remainder
  <2> QED BY <2>3, <2>4 DEF r
<1>4. 0 \in S
  <2>1. 0 >= j => j = 0 OBVIOUS
  <2> HIDE DEF At1
  <2> QED BY <1>1, <1>3, <2>1
<1>5. ASSUME NEW i \in 1 .. n, i - 1 \in S PROVE i \in S
  <2>1. i - 1 \in 0 .. n /\ i \in 0 .. n BY <1>1
  <2>2. CASE i <= j
    <3>1. i >= j => i = j BY <2>2
    <3> HIDE DEF At1
    <3> QED BY <1>3, <2>1, <3>1
  <2>3. CASE i > j
    <3>1. i - 1 >= j BY <2>3
    <3>2. L[i - 1].read = At1(i - 1) BY <1>5, <3>1
    <3>3. L[i] = Behind(b, L[i - 1]) BY DEF Chain
    <3> DEFINE x == L[i - 1].free - L[j].free
               y == LengthAt(b, L[i - 1].read)
               a == L[j].read + x
    <3>4. x \in Nat /\ a \in Nat
      <4>1. L[i - 1].free >= L[j].free BY <2>1, <3>1, ChainGrows
      <4>2. L[i - 1].free \in Nat BY <1>1, <2>1, PlaceBehind
      <4> QED BY <1>2, <4>1, <4>2
    <3>5. y \in Nat /\ L[i].free = L[i - 1].free + y
          /\ L[i].read = (L[i - 1].read + y) % Size
      BY <1>1, <2>1, <3>3, PlaceBehind
    <3>6. L[i - 1].read = a % Size BY <3>2
    <3>7. L[j].read + (L[i].free - L[j].free) = a + y
      <4>1. L[i - 1].free \in Nat BY <1>1, <2>1, PlaceBehind
      <4> HIDE DEF y
      <4> QED BY <1>2, <3>5, <4>1
    <3>8. At1(i) = (a + y) % Size BY <3>7
    <3> HIDE DEF a, y, At1
    <3>9. ((a % Size) + y) % Size = (a + y) % Size
      BY <3>4, <3>5, WrapEarly DEF FifoAssumption
    <3> QED BY <2>1, <3>5, <3>6, <3>8, <3>9
  <2> QED BY <2>2, <2>3
<1> HIDE DEF S, At1
<1>6. 0 .. n \subseteq S BY <1>1, <1>4, <1>5, UpTo
<1>7. k \in 0 .. n /\ k >= j OBVIOUS
<1> QED BY <1>6, <1>7 DEF S, At1

\* Rings that hold the same messages from a place on lead to the same places, up to what
\* is free.
LEMMA ChainShifted ==
    ASSUME FifoAssumption, NEW b \in Rings, NEW c \in Rings, NEW L, NEW n, Chain(b, L, n),
           NEW M, NEW p, Chain(c, M, p), NEW k \in 0 .. n, NEW s \in Int, n - k <= p,
           M[0].read = L[k].read, M[0].free = L[k].free + s,
           \A j \in k .. n - 1 : LengthAt(c, L[j].read) = LengthAt(b, L[j].read)
    PROVE  \A j \in 0 .. n - k : M[j].read = L[k + j].read /\ M[j].free = L[k + j].free + s
<1> DEFINE Same(j) == M[j].read = L[k + j].read /\ M[j].free = L[k + j].free + s
           S == {j \in 0 .. n - k : Same(j)}
<1>1. n \in Nat /\ p \in Nat /\ n - k \in Nat BY DEF Chain
<1>2. k + 0 = k OBVIOUS
<1>3. 0 \in S BY <1>1, <1>2
<1>4. ASSUME NEW j \in 1 .. n - k, j - 1 \in S PROVE j \in S
  <2>1. j \in 1 .. p /\ k + j \in 1 .. n /\ k + j - 1 \in k .. n - 1 /\ k + j - 1 \in 0 .. n
        /\ j - 1 \in 0 .. p /\ k + (j - 1) = k + j - 1
    BY <1>1
  <2>2. M[j] = Behind(c, M[j - 1]) /\ L[k + j] = Behind(b, L[k + j - 1]) BY <2>1 DEF Chain
  <2>3. M[j - 1].read = L[k + j - 1].read /\ M[j - 1].free = L[k + j - 1].free + s
    BY <1>4, <2>1
  <2>4. M[j - 1] \in Places /\ L[k + j - 1] \in Places BY <2>1 DEF Chain
  <2> DEFINE y == LengthAt(b, L[k + j - 1].read)
  <2>5. LengthAt(c, M[j - 1].read) = y BY <2>1, <2>3
  <2>6. /\ M[j].read = (M[j - 1].read + y) % Size /\ M[j].free = M[j - 1].free + y
        /\ L[k + j].read = (L[k + j - 1].read + y) % Size
        /\ L[k + j].free = L[k + j - 1].free + y /\ y \in Nat /\ L[k + j - 1].free \in Nat
    BY <2>2, <2>4, <2>5, PlaceBehind
  <2> HIDE DEF y
  <2>7. Same(j) BY <2>3, <2>6
  <2> QED BY <2>7
<1> HIDE DEF S
<1>5. 0 .. n - k \subseteq S BY <1>1, <1>3, <1>4, UpTo
<1> QED BY <1>5 DEF S

-----------------------------------------------------------------------------
(* The places that Left computes. *)

LeftIs ==
    /\ Chain(buffer, Left, nbElement)
    /\ Left[0] = [read |-> readOffset, free |-> freeSpace]

\* The lengths read with At are those of the ring.
LEMMA LengthIs == \A o : Length(o) = LengthAt(buffer, o)
BY DEF Length, LengthAt, MetaLen, MetaAt, DataLen, DataAt, At, Byte

LEMMA LeftSolved == ASSUME FifoAssumption PROVE FifoTypes => LeftIs
<1> SUFFICES ASSUME FifoTypes PROVE LeftIs OBVIOUS
<1> DEFINE first == [read |-> readOffset, free |-> freeSpace]
           next == [l \in Places |-> Behind(buffer, l)]
           After(l) == [read |-> (l.read + Length(l.read)) % Size,
                        free |-> l.free + Length(l.read)]
           Value(g, k) == IF k = 0 THEN first ELSE After(g[k - 1])
           Solves(g) == g = [k \in 0 .. nbElement |-> Value(g, k)]
<1>1. /\ FifoAssumption /\ buffer \in Rings /\ nbElement \in Nat
      /\ first \in Places
  BY DEF FifoTypes, Rings, Places
<1>2. next \in [Places -> Places] /\ \A l \in Places : next[l] = Behind(buffer, l)
  BY <1>1, PlaceBehind
<1>3. Left = CHOOSE g : Solves(g) BY DEF Left
<1>4. \A l : After(l) = Behind(buffer, l) BY LengthIs DEF Behind
<1> HIDE DEF first, next, After
<1>5. PICK f : Solution(f, nbElement, Places, first, next) BY <1>1, <1>2, Recursion
<1>6. Solves(f)
  <2>1. f \in [0 .. nbElement -> Places] BY <1>5 DEF Solution
  <2>2. ASSUME NEW k \in 0 .. nbElement PROVE f[k] = Value(f, k)
    <3>1. CASE k = 0 BY <1>5, <3>1 DEF Solution
    <3>2. CASE k # 0
      <4>1. f[k - 1] \in Places BY <1>1, <2>1, <3>2
      <4>2. f[k] = next[f[k - 1]] BY <1>5, <3>2 DEF Solution
      <4> QED BY <1>2, <1>4, <3>2, <4>1, <4>2
    <3> QED BY <3>1, <3>2
  <2> HIDE DEF Value
  <2> QED BY <2>1, <2>2
<1>7. Solves(Left)
  <2> HIDE DEF Solves
  <2> QED BY <1>3, <1>6
<1>8. \A k \in 0 .. nbElement : Left[k] = Value(Left, k)
  <2> HIDE DEF Value
  <2> QED BY <1>7
<1>9. /\ Left[0] = first
      /\ \A k \in 1 .. nbElement : Left[k] = Behind(buffer, Left[k - 1])
  <2>1. \A k \in 1 .. nbElement : k \in 0 .. nbElement /\ k # 0 BY <1>1
  <2> QED BY <1>1, <1>4, <1>8, <2>1
<1>10. Left \in [0 .. nbElement -> Places]
  <2> DEFINE S == {k \in 0 .. nbElement : Left[k] \in Places}
  <2>1. 0 \in S BY <1>1, <1>9
  <2>2. ASSUME NEW k \in 1 .. nbElement, k - 1 \in S PROVE k \in S
    <3>1. k \in 0 .. nbElement BY <1>1
    <3>2. Left[k - 1] \in Places BY <2>2
    <3> QED BY <1>1, <1>9, <3>1, <3>2, PlaceBehind
  <2> HIDE DEF S
  <2>3. 0 .. nbElement \subseteq S BY <1>1, <2>1, <2>2, UpTo
  <2>4. \A k \in 0 .. nbElement : Left[k] \in Places BY <2>3 DEF S
  <2> DEFINE L == Left
  <2>5. L = [k \in 0 .. nbElement |-> Value(L, k)] BY <1>7
  <2>6. \A k \in 0 .. nbElement : Value(L, k) \in Places BY <1>8, <2>4
  <2> HIDE DEF L, Value
  <2>7. L \in [0 .. nbElement -> Places] BY <2>5, <2>6
  <2> QED BY <2>7 DEF L
<1> QED BY <1>1, <1>9, <1>10 DEF LeftIs, Chain, first

LEMMA LeftSolvedNext == ASSUME FifoAssumption PROVE FifoTypes' => LeftIs'
BY LeftSolved, PTL
-----------------------------------------------------------------------------
(* The messages stored. *)

MessagesOf(b, L, n) == [k \in 1 .. n |-> MessageAt(b, L[k - 1].read)]

StoredAre == Stored = MessagesOf(buffer, Left, nbElement)

LEMMA StoredIs == StoredAre
BY DEF StoredAre, Stored, MessagesOf, MessageAt, Slice, DataLen, DataAt, MetaLen, MetaAt, At, Byte

LEMMA StoredIsNext == StoredAre'
BY StoredIs, PTL

\* A function on the first numbers is a sequence.
LEMMA FunctionIsSeq ==
    ASSUME NEW S, NEW n \in Nat, NEW s \in [1 .. n -> S]
    PROVE  s \in Seq(S) /\ Len(s) = n
OBVIOUS

LEMMA LargerSeq ==
    ASSUME NEW S, NEW T, S \subseteq T, NEW s \in Seq(S)
    PROVE  s \in Seq(T)
<1>1. Len(s) \in Nat /\ s \in [1 .. Len(s) -> S] BY LenProperties
<1>2. s \in [1 .. Len(s) -> T] BY <1>1
<1> QED BY <1>1, <1>2, FunctionIsSeq

\* The elements of two sequences in a row.
InARow(u, S, s, t, a, b) ==
    /\ u \in Seq(S) /\ Len(u) = a + b
    /\ \A i \in 1 .. a : u[i] = s[i]
    /\ \A i \in 1 .. b : u[a + i] = t[i]
LEMMA Concatenated ==
    ASSUME NEW S, NEW s \in Seq(S), NEW t \in Seq(S), NEW a \in Nat, NEW b \in Nat,
           Len(s) = a, Len(t) = b
    PROVE  InARow(s \o t, S, s, t, a, b)
<1> DEFINE u == s \o t
<1>1. /\ u \in Seq(S) /\ Len(u) = Len(s) + Len(t)
      /\ \A i \in 1 .. Len(s) + Len(t) : u[i] = IF i <= Len(s) THEN s[i] ELSE t[i - Len(s)]
  BY ConcatProperties
<1> HIDE DEF u
<1>2. \A i \in 1 .. a : u[i] = s[i]
  <2> TAKE i \in 1 .. a
  <2>1. i \in 1 .. a + b /\ i <= a OBVIOUS
  <2> QED BY <1>1, <2>1
<1>3. \A i \in 1 .. b : u[a + i] = t[i]
  <2> TAKE i \in 1 .. b
  <2> DEFINE j == a + i
  <2>1. j \in 1 .. a + b /\ ~(j <= a) /\ j - a = i OBVIOUS
  <2> HIDE DEF j
  <2>2. u[j] = t[j - a] BY <1>1, <2>1
  <2> QED BY <2>1, <2>2 DEF j
<1> QED BY <1>1, <1>2, <1>3 DEF u, InARow

\* What is left of a sequence without its first elements.
IsEnd(u, S, s, k, n) ==
    u \in Seq(S) /\ Len(u) = n - k /\ \A j \in 1 .. n - k : u[j] = s[k + j]
LEMMA EndIs ==
    ASSUME NEW S, NEW s \in Seq(S), NEW n \in Nat, Len(s) = n, NEW k \in 0 .. n
    PROVE  IsEnd(SubSeq(s, k + 1, n), S, s, k, n)
<1> DEFINE f == k + 1  u == SubSeq(s, f, n)
<1>1. f \in Int /\ n \in Int /\ n - f + 1 = n - k /\ (~(f <= n) => n - k = 0) OBVIOUS
<1>2. \A i \in f .. n : s[i] \in S
  <2>1. \A i \in f .. n : i \in 1 .. Len(s) OBVIOUS
  <2> QED BY <2>1, ElementOfSeq
<1> HIDE DEF f
<1>3. /\ u \in Seq(S) /\ Len(u) = IF f <= n THEN n - f + 1 ELSE 0
      /\ \A i \in 1 .. n - f + 1 : u[i] = s[f + i - 1]
  BY <1>1, <1>2, SubSeqProperties
<1> HIDE DEF u
<1>4. Len(u) = n - k BY <1>1, <1>3
<1>5. \A j \in 1 .. n - k : u[j] = s[k + j]
  <2> TAKE j \in 1 .. n - k
  <2>1. f + j - 1 = k + j BY DEF f
  <2> QED BY <1>1, <1>3, <2>1
<1> QED BY <1>3, <1>4, <1>5 DEF u, f, IsEnd

LEMMA EndOf ==
    ASSUME NEW S, NEW s \in Seq(S), NEW n \in Nat, Len(s) = n, NEW k \in 0 .. n,
           NEW t \in Seq(S), Len(t) = n - k, \A j \in 1 .. n - k : t[j] = s[k + j]
    PROVE  t = SubSeq(s, k + 1, n)
<1> DEFINE u == SubSeq(s, k + 1, n)
<1>1. u \in Seq(S) /\ Len(u) = n - k /\ \A j \in 1 .. n - k : u[j] = s[k + j]
  BY EndIs DEF IsEnd
<1> HIDE DEF u
<1>2. u = t BY <1>1, SeqEqual
<1> QED BY <1>2 DEF u

AnyMessage == [data : Seq(Nat), meta : Seq(Nat)]

LEMMA MessageRead ==
    ASSUME FifoAssumption, NEW b \in Rings, NEW o \in Nat
    PROVE  /\ MessageAt(b, o) \in AnyMessage
           /\ Len(MessageAt(b, o).data) = DataAt(b, o)
           /\ Len(MessageAt(b, o).meta) = MetaAt(b, o)
<1>1. DataAt(b, o) \in Nat /\ MetaAt(b, o) \in Nat /\ Header \in Nat
  BY LengthsAreNat DEF Header
<1> DEFINE data == [i \in 1 .. DataAt(b, o) |-> Byte(b, o + Header + MetaAt(b, o) + i - 1)]
           meta == [i \in 1 .. MetaAt(b, o) |-> Byte(b, o + Header + i - 1)]
<1>2. \A i \in 1 .. DataAt(b, o) : Byte(b, o + Header + MetaAt(b, o) + i - 1) \in Nat
  <2> TAKE i \in 1 .. DataAt(b, o)
  <2>1. o + Header + MetaAt(b, o) + i - 1 \in Nat BY <1>1
  <2> QED BY <2>1, LengthsAreNat
<1>3. \A i \in 1 .. MetaAt(b, o) : Byte(b, o + Header + i - 1) \in Nat
  <2> TAKE i \in 1 .. MetaAt(b, o)
  <2>1. o + Header + i - 1 \in Nat BY <1>1
  <2> QED BY <2>1, LengthsAreNat
<1>4. data \in [1 .. DataAt(b, o) -> Nat] /\ meta \in [1 .. MetaAt(b, o) -> Nat]
  BY <1>2, <1>3
<1>5. MessageAt(b, o) = [data |-> data, meta |-> meta] BY DEF MessageAt
<1> HIDE DEF data, meta
<1>6. /\ data \in Seq(Nat) /\ Len(data) = DataAt(b, o)
      /\ meta \in Seq(Nat) /\ Len(meta) = MetaAt(b, o)
  BY <1>1, <1>4, FunctionIsSeq
<1> QED BY <1>5, <1>6 DEF AnyMessage

LEMMA MessagesRead ==
    ASSUME FifoAssumption, NEW b \in Rings, NEW L, NEW n, Chain(b, L, n)
    PROVE  /\ MessagesOf(b, L, n) \in Seq(AnyMessage) /\ Len(MessagesOf(b, L, n)) = n
           /\ n \in Nat
           /\ \A k \in 1 .. n : MessagesOf(b, L, n)[k] = MessageAt(b, L[k - 1].read)
<1> DEFINE s == MessagesOf(b, L, n)
<1>1. n \in Nat BY DEF Chain
<1>2. \A k \in 1 .. n : s[k] = MessageAt(b, L[k - 1].read) BY DEF MessagesOf
<1>3. \A k \in 1 .. n : MessageAt(b, L[k - 1].read) \in AnyMessage
  <2> TAKE k \in 1 .. n
  <2>1. k - 1 \in 0 .. n BY <1>1
  <2>2. L[k - 1] \in Places BY <2>1 DEF Chain
  <2> QED BY <2>2, PlaceBehind, MessageRead
<1>4. s \in [1 .. n -> AnyMessage] BY <1>3 DEF MessagesOf
<1> HIDE DEF s
<1>5. s \in Seq(AnyMessage) /\ Len(s) = n BY <1>1, <1>4, FunctionIsSeq
<1> QED BY <1>1, <1>2, <1>5 DEF s

LEMMA MessageIs ==
    ASSUME FifoAssumption, NEW m \in Messages
    PROVE  /\ m = [data |-> m.data, meta |-> m.meta] /\ m \in AnyMessage
           /\ m.data \in Seq(Octets) /\ m.meta \in Seq(Octets)
           /\ Len(m.data) \in Nat /\ Len(m.meta) \in Nat
           /\ Len(m.meta) < 256 /\ Len(m.data) < 256 * 256
<1>1. m \in [data : Seq(Octets), meta : Seq(Octets)] BY DEF FifoAssumption
<1>2. m = [data |-> m.data, meta |-> m.meta] BY <1>1
<1>3. m.data \in Seq(Octets) /\ m.meta \in Seq(Octets) BY <1>1
<1>4. Countable(m) BY DEF FifoAssumption
<1>5. /\ Len(m.data) \in Nat /\ Len(m.meta) \in Nat
      /\ Len(m.meta) < 256 /\ Len(m.data) < 256 * 256
  <2> DEFINE d == Len(m.data)  t == Len(m.meta)
  <2>1. d \in Nat /\ t \in Nat BY <1>3, LenProperties
  <2>2. t < 256 /\ 3 + t + d < 256 * 256 BY <1>4 DEF Countable
  <2> HIDE DEF d, t
  <2>3. d < 256 * 256 BY <2>1, <2>2
  <2> QED BY <2>1, <2>2, <2>3 DEF d, t
<1>6. m.data \in Seq(Nat) /\ m.meta \in Seq(Nat)
  <2>1. Octets \subseteq Nat BY DEF Octets
  <2> QED BY <1>3, <2>1, LargerSeq
<1> QED BY <1>2, <1>3, <1>5, <1>6 DEF AnyMessage

\* A message is read from its own bytes only.
LEMMA SameMessage ==
    ASSUME FifoAssumption, NEW b \in Rings, NEW c \in Rings, NEW o \in Nat,
           \A e \in 0 .. LengthAt(b, o) - 1 : Byte(c, o + e) = Byte(b, o + e)
    PROVE  LengthAt(c, o) = LengthAt(b, o) /\ MessageAt(c, o) = MessageAt(b, o)
<1>1. /\ LengthAt(b, o) \in Nat /\ LengthAt(b, o) >= 3
      /\ MetaAt(b, o) \in Nat /\ DataAt(b, o) \in Nat
      /\ LengthAt(b, o) = 3 + MetaAt(b, o) + DataAt(b, o)
  BY LengthsAreNat DEF Header, LengthAt
<1>2. Byte(c, o) = Byte(b, o) /\ Byte(c, o + 1) = Byte(b, o + 1)
      /\ Byte(c, o + 2) = Byte(b, o + 2)
  <2>1. 0 \in 0 .. LengthAt(b, o) - 1 /\ 1 \in 0 .. LengthAt(b, o) - 1
        /\ 2 \in 0 .. LengthAt(b, o) - 1 /\ o + 0 = o
    BY <1>1
  <2> QED BY <2>1
<1>3. MetaAt(c, o) = MetaAt(b, o) /\ DataAt(c, o) = DataAt(b, o)
  BY <1>2 DEF MetaAt, DataAt
<1>4. \A i \in 1 .. DataAt(b, o) :
        Byte(c, o + Header + MetaAt(b, o) + i - 1) = Byte(b, o + Header + MetaAt(b, o) + i - 1)
  <2> TAKE i \in 1 .. DataAt(b, o)
  <2> DEFINE e == 3 + MetaAt(b, o) + i - 1
  <2>1. e \in 0 .. LengthAt(b, o) - 1 BY <1>1
  <2>2. o + Header + MetaAt(b, o) + i - 1 = o + e BY <1>1 DEF Header
  <2> HIDE DEF e
  <2> QED BY <2>1, <2>2
<1>5. \A i \in 1 .. MetaAt(b, o) :
        Byte(c, o + Header + i - 1) = Byte(b, o + Header + i - 1)
  <2> TAKE i \in 1 .. MetaAt(b, o)
  <2> DEFINE e == 3 + i - 1
  <2>1. e \in 0 .. LengthAt(b, o) - 1 BY <1>1
  <2>2. o + Header + i - 1 = o + e BY <1>1 DEF Header
  <2> HIDE DEF e
  <2> QED BY <2>1, <2>2
<1> QED BY <1>3, <1>4, <1>5 DEF LengthAt, MessageAt

\* The bytes of an encoded message.
Encoding(E, m) ==
    /\ E \in Seq(Octets) /\ Len(E) = 3 + Len(m.meta) + Len(m.data)
    /\ E[1] = Len(m.data) \div 256 /\ E[2] = Len(m.data) % 256
    /\ E[3] = Len(m.meta)
    /\ \A i \in 1 .. Len(m.meta) : E[3 + i] = m.meta[i]
    /\ \A i \in 1 .. Len(m.data) : E[3 + Len(m.meta) + i] = m.data[i]

LEMMA EncodedBytes ==
    ASSUME FifoAssumption, NEW m \in Messages
    PROVE  Encoding(Encode(m), m)
<1> DEFINE data == m.data  meta == m.meta  d == Len(data)  t == Len(meta)
           h == <<d \div 256, d % 256, t>>  g == h \o meta  E == g \o data
<1>1. /\ data \in Seq(Octets) /\ meta \in Seq(Octets)
      /\ t \in Nat /\ t < 256 /\ d \in Nat /\ d < 256 * 256
  BY MessageIs
<1>2. Encode(m) = E BY DEF Encode
<1> HIDE DEF data, meta
<1>3. h \in Seq(Octets) /\ Len(h) = 3
  <2> HIDE DEF d, t
  <2>1. d \div 256 \in 0 .. 255 /\ d % 256 \in 0 .. 255 /\ t \in 0 .. 255 BY <1>1
  <2> QED BY <2>1 DEF Octets
<1>4. h[1] = d \div 256 /\ h[2] = d % 256 /\ h[3] = t OBVIOUS
<1> HIDE DEF h
<1>5. /\ g \in Seq(Octets) /\ Len(g) = 3 + t
      /\ \A i \in 1 .. 3 : g[i] = h[i]
      /\ \A i \in 1 .. t : g[3 + i] = meta[i]
  <2> HIDE DEF g
  <2> DEFINE x == 3
  <2>1. x \in Nat /\ Len(h) = x BY <1>3
  <2> HIDE DEF x, t
  <2>2. t \in Nat /\ Len(meta) = t BY <1>1 DEF t
  <2>3. InARow(g, Octets, h, meta, x, t)
    BY <1>1, <1>3, <2>1, <2>2, Concatenated, Zenon DEF g
  <2> QED BY <2>3 DEF x, InARow
<1> HIDE DEF g
<1> DEFINE v == 3 + t
<1>6. v \in Nat /\ Len(g) = v BY <1>1, <1>5
<1>7. /\ \A i \in 1 .. 3 : i \in 1 .. v
      /\ \A i \in 1 .. t : 3 + i \in 1 .. v
  BY <1>1
<1> HIDE DEF v
<1>8. /\ E \in Seq(Octets) /\ Len(E) = v + d
      /\ \A i \in 1 .. v : E[i] = g[i]
      /\ \A i \in 1 .. d : E[v + i] = data[i]
  <2>1. InARow(E, Octets, g, data, v, d)
    <3> HIDE DEF d
    <3>1. d \in Nat /\ Len(data) = d BY <1>1 DEF d
    <3> QED BY <1>1, <1>5, <1>6, <3>1, Concatenated, Zenon
  <2> HIDE DEF E
  <2> QED BY <2>1 DEF InARow
<1> HIDE DEF E, d, t
<1>9. /\ E \in Seq(Octets) /\ Len(E) = 3 + t + d
      /\ E[1] = d \div 256 /\ E[2] = d % 256 /\ E[3] = t
      /\ \A i \in 1 .. t : E[3 + i] = meta[i]
      /\ \A i \in 1 .. d : E[3 + t + i] = data[i]
  <2>1. 1 \in 1 .. 3 /\ 2 \in 1 .. 3 /\ 3 \in 1 .. 3 OBVIOUS
  <2>2. E[1] = h[1] /\ E[2] = h[2] /\ E[3] = h[3] BY <1>5, <1>7, <1>8, <2>1
  <2>3. \A i \in 1 .. t : E[3 + i] = meta[i] BY <1>5, <1>7, <1>8
  <2>4. \A i \in 1 .. d : E[3 + t + i] = data[i] BY <1>8 DEF v
  <2>5. Len(E) = 3 + t + d BY <1>8 DEF v
  <2> QED BY <1>4, <1>8, <2>2, <2>3, <2>4, <2>5
<1>10. Encoding(E, m) BY <1>9, Zenon DEF Encoding, data, meta, d, t
<1> QED BY <1>2, <1>10

\* A message whose bytes were written at an offset is read there.
LEMMA Decoded ==
    ASSUME FifoAssumption, NEW c \in Rings, NEW w \in Nat, NEW m \in Messages,
           \A e \in 0 .. Len(Encode(m)) - 1 : Byte(c, w + e) = Encode(m)[e + 1]
    PROVE  LengthAt(c, w) = Len(Encode(m)) /\ MessageAt(c, w) = m
<1> DEFINE data == m.data  meta == m.meta  E == Encode(m)
<1>1. /\ data \in Seq(Octets) /\ meta \in Seq(Octets)
      /\ m = [data |-> data, meta |-> meta] /\ Len(data) \in Nat /\ Len(meta) \in Nat
  BY MessageIs
<1>2. /\ E \in Seq(Octets)
      /\ Len(data) \in Nat /\ Len(meta) \in Nat
      /\ Len(E) = 3 + Len(meta) + Len(data)
      /\ E[1] = Len(data) \div 256 /\ E[2] = Len(data) % 256
      /\ E[3] = Len(meta)
      /\ \A i \in 1 .. Len(meta) : E[3 + i] = meta[i]
      /\ \A i \in 1 .. Len(data) : E[3 + Len(meta) + i] = data[i]
  <2>1. Encoding(E, m) BY EncodedBytes DEF E
  <2> QED BY <1>1, <2>1 DEF Encoding, data, meta
<1>3. \A e \in 0 .. Len(E) - 1 : Byte(c, w + e) = E[e + 1] OBVIOUS
<1> HIDE DEF data, meta, E
<1>4. Byte(c, w) = E[1] /\ Byte(c, w + 1) = E[2] /\ Byte(c, w + 2) = E[3]
  <2>1. 0 \in 0 .. Len(E) - 1 /\ 1 \in 0 .. Len(E) - 1 /\ 2 \in 0 .. Len(E) - 1 /\ w + 0 = w
        /\ 0 + 1 = 1 /\ 1 + 1 = 2 /\ 2 + 1 = 3
    BY <1>2
  <2> QED BY <1>3, <2>1
<1>5. DataAt(c, w) = Len(data) /\ MetaAt(c, w) = Len(meta)
  <2>1. (Len(data) \div 256) * 256 + (Len(data) % 256) = Len(data) BY <1>2
  <2> QED BY <1>2, <1>4, <2>1 DEF DataAt, MetaAt
<1>6. \A i \in 1 .. Len(data) : Byte(c, w + Header + Len(meta) + i - 1) = data[i]
  <2> TAKE i \in 1 .. Len(data)
  <2> DEFINE e == 3 + Len(meta) + i - 1
  <2>1. e \in 0 .. Len(E) - 1 /\ e + 1 = 3 + Len(meta) + i BY <1>2
  <2>2. w + Header + Len(meta) + i - 1 = w + e BY <1>2 DEF Header
  <2> HIDE DEF e
  <2> QED BY <1>2, <1>3, <2>1, <2>2
<1>7. \A i \in 1 .. Len(meta) : Byte(c, w + Header + i - 1) = meta[i]
  <2> TAKE i \in 1 .. Len(meta)
  <2> DEFINE e == 3 + i - 1
  <2>1. e \in 0 .. Len(E) - 1 /\ e + 1 = 3 + i BY <1>2
  <2>2. w + Header + i - 1 = w + e BY <1>2 DEF Header
  <2> HIDE DEF e
  <2> QED BY <1>2, <1>3, <2>1, <2>2
<1>8. data = [i \in 1 .. Len(data) |-> data[i]] /\ meta = [i \in 1 .. Len(meta) |-> meta[i]]
  BY <1>1
<1>9. MessageAt(c, w).data = data /\ MessageAt(c, w).meta = meta
  BY <1>5, <1>6, <1>7, <1>8 DEF MessageAt
<1>10. MessageAt(c, w) = [data |-> MessageAt(c, w).data, meta |-> MessageAt(c, w).meta]
  BY DEF MessageAt
<1> QED BY <1>1, <1>2, <1>5, <1>9, <1>10 DEF LengthAt, Header, E

\* The bytes that the messages of a queue use are those that reading them frees.
LEMMA UsedIsFreed ==
    ASSUME FifoAssumption, NEW b \in Rings, NEW L, NEW n, Chain(b, L, n), NEW k \in 0 .. n
    PROVE  Fifo!Used(SubSeq(MessagesOf(b, L, n), k + 1, n)) = L[n].free - L[k].free
<1> DEFINE q == SubSeq(MessagesOf(b, L, n), k + 1, n)
           Sum(g, i) == IF i = 0 THEN 0 ELSE g[i - 1] + Fifo!Bytes(q[i])
           Sums(g) == g = [i \in 0 .. Len(q) |-> Sum(g, i)]
           f == [i \in 0 .. Len(q) |-> L[k + i].free - L[k].free]
           first == CHOOSE g : Sums(g)
<1>1. n \in Nat /\ \A i \in 0 .. n : L[i] \in Places BY DEF Chain
<1>2. \A i \in 0 .. n : L[i].free \in Nat /\ L[i].read \in Nat BY <1>1, PlaceBehind
<1>3. Len(q) = n - k /\ \A i \in 1 .. n - k : q[i] = MessageAt(b, L[k + i - 1].read)
  <2> DEFINE s == MessagesOf(b, L, n)
  <2>1. s \in Seq(AnyMessage) /\ Len(s) = n /\ \A i \in 1 .. n : s[i] = MessageAt(b, L[i - 1].read)
    BY MessagesRead
  <2> HIDE DEF s
  <2>2. \A i \in k + 1 .. n : s[i] \in AnyMessage
    <3>1. \A i \in k + 1 .. n : i \in 1 .. Len(s) BY <1>1, <2>1
    <3> QED BY <2>1, <3>1, ElementOfSeq
  <2> DEFINE j == k + 1
  <2>3. j \in Int /\ n \in Int BY <1>1
  <2>4. /\ Len(SubSeq(s, j, n)) = IF j <= n THEN n - j + 1 ELSE 0
        /\ \A i \in 1 .. n - j + 1 : SubSeq(s, j, n)[i] = s[j + i - 1]
    <3> HIDE DEF j
    <3>1. \A i \in j .. n : s[i] \in AnyMessage BY <2>2 DEF j
    <3> QED BY <2>3, <3>1, SubSeqProperties
  <2>5. n - j + 1 = n - k /\ (~(j <= n) => n - k = 0) BY <1>1
  <2>6. \A i \in 1 .. n - k : j + i - 1 \in 1 .. n /\ (j + i - 1) - 1 = k + i - 1 BY <1>1
  <2>7. Len(SubSeq(s, j, n)) = n - k BY <2>4, <2>5
  <2>8. \A i \in 1 .. n - k : SubSeq(s, j, n)[i] = MessageAt(b, L[k + i - 1].read)
    <3> HIDE DEF j
    <3> QED BY <2>1, <2>4, <2>5, <2>6
  <2> QED BY <2>7, <2>8 DEF s
<1>4. Fifo!Used(q) = first[Len(q)] BY DEF Fifo!Used
<1> HIDE DEF q
<1>5. \A i \in 1 .. n - k : Fifo!Bytes(q[i]) = LengthAt(b, L[k + i - 1].read)
  <2> TAKE i \in 1 .. n - k
  <2> DEFINE o == L[k + i - 1].read
  <2>1. o \in Nat
    <3>1. k + i - 1 \in 0 .. n BY <1>1
    <3> QED BY <1>2, <3>1
  <2> HIDE DEF o
  <2>2. DataAt(b, o) \in Nat /\ MetaAt(b, o) \in Nat BY <2>1, LengthsAreNat
  <2>3. Len(MessageAt(b, o).data) = DataAt(b, o) /\ Len(MessageAt(b, o).meta) = MetaAt(b, o)
    BY <2>1, MessageRead
  <2>4. q[i] = MessageAt(b, o) BY <1>3 DEF o
  <2>5. Fifo!Bytes(q[i]) = Header + DataAt(b, o) + MetaAt(b, o) BY <2>3, <2>4 DEF Fifo!Bytes
  <2>6. Header + DataAt(b, o) + MetaAt(b, o) = LengthAt(b, o) BY <2>2 DEF LengthAt, Header
  <2> QED BY <2>5, <2>6 DEF o
<1>6. \A i \in 1 .. n - k : L[k + i].free = L[k + i - 1].free + Fifo!Bytes(q[i])
  <2> TAKE i \in 1 .. n - k
  <2>1. k + i \in 1 .. n /\ k + i - 1 \in 0 .. n BY <1>1
  <2>2. L[k + i] = Behind(b, L[k + i - 1]) BY <2>1 DEF Chain
  <2> QED BY <1>1, <1>5, <2>1, <2>2, PlaceBehind
<1>7. Sums(f)
  <2>1. ASSUME NEW i \in 0 .. n - k PROVE L[k + i].free - L[k].free = Sum(f, i)
    <3>1. CASE i = 0
      <4>1. k + 0 = k /\ k \in 0 .. n BY <1>1
      <4>2. L[k].free - L[k].free = 0 BY <1>2, <4>1
      <4> QED BY <3>1, <4>1, <4>2
    <3>2. CASE i # 0
      <4>1. i \in 1 .. n - k /\ i - 1 \in 0 .. n - k /\ k + (i - 1) = k + i - 1
            /\ k + i - 1 \in 0 .. n
        BY <1>1, <3>2
      <4>2. f[i - 1] = L[k + i - 1].free - L[k].free BY <1>3, <4>1
      <4> DEFINE y == Fifo!Bytes(q[i])
      <4>3. y \in Nat
        BY <1>5, <4>1, <1>1, PlaceBehind
      <4>4. L[k + i].free = L[k + i - 1].free + y BY <1>6, <4>1
      <4> HIDE DEF y, f
      <4>5. L[k + i].free - L[k].free = f[i - 1] + y
        BY <1>2, <4>1, <4>2, <4>3, <4>4
      <4> QED BY <3>2, <4>5 DEF y
    <3> QED BY <3>1, <3>2
  <2> HIDE DEF Sum
  <2> QED BY <1>3, <2>1
<1>8. Sums(first)
  <2> HIDE DEF Sums, f
  <2> QED BY <1>7
<1> HIDE DEF first
<1>9. \A i \in 0 .. n - k : first[i] = Sum(first, i) /\ f[i] = Sum(f, i)
  <2> HIDE DEF Sum, f
  <2> QED BY <1>3, <1>7, <1>8
<1> DEFINE S == {i \in 0 .. n - k : first[i] = f[i]}
<1>10. 0 .. n - k \subseteq S
  <2> HIDE DEF f
  <2>1. 0 \in S BY <1>1, <1>9
  <2>2. ASSUME NEW i \in 1 .. n - k, i - 1 \in S PROVE i \in S
    <3>1. i \in 0 .. n - k /\ i # 0 BY <1>1
    <3> QED BY <1>9, <2>2, <3>1
  <2>3. n - k \in Nat BY <1>1
  <2> HIDE DEF S
  <2> QED BY <2>1, <2>2, <2>3, UpTo
<1>11. first[n - k] = f[n - k]
  <2> HIDE DEF f
  <2>1. n - k \in 0 .. n - k BY <1>1
  <2> QED BY <1>10, <2>1
<1>12. f[n - k] = L[n].free - L[k].free
  <2>1. n - k \in 0 .. n - k /\ k + (n - k) = n BY <1>1
  <2> QED BY <1>3, <2>1
<1> QED BY <1>3, <1>4, <1>11, <1>12 DEF q
-----------------------------------------------------------------------------
(* What a message that is written leaves of the others. *)

Written(b, w, bytes) ==
    [i \in Offsets |-> LET d == (i - w) % Size
                       IN  IF d < Len(bytes) THEN bytes[d + 1] ELSE b[i]]

\* How far an offset of the ring is behind another one.
LEMMA DistanceInRing ==
    ASSUME FifoAssumption, NEW w \in Offsets, NEW i \in Offsets
    PROVE  /\ (i - w) % Size \in Offsets /\ (w + ((i - w) % Size)) % Size = i
           /\ \A e \in Offsets : (w + e) % Size = i => (i - w) % Size = e
<1> DEFINE c == Size
<1>1. c \in Nat \ {0} /\ w \in 0 .. c - 1 /\ i \in 0 .. c - 1 BY DEF FifoAssumption, Offsets
<1> HIDE DEF c
<1>2. /\ (i - w) % c \in 0 .. c - 1 /\ (w + ((i - w) % c)) % c = i
      /\ \A e \in 0 .. c - 1 : (w + e) % c = i => (i - w) % c = e
  BY <1>1, Distance, Zenon
<1> QED BY <1>2 DEF c, Offsets

\* The bytes written are read where they were written, and the rest of the ring is kept.
LEMMA WrittenBytes ==
    ASSUME FifoAssumption, NEW b \in Rings, NEW w \in Offsets, NEW bytes \in Seq(Octets),
           Len(bytes) <= Size
    PROVE  /\ Written(b, w, bytes) \in Rings
           /\ \A e \in 0 .. Len(bytes) - 1 : Byte(Written(b, w, bytes), w + e) = bytes[e + 1]
           /\ \A i \in Offsets : (i - w) % Size >= Len(bytes) => Written(b, w, bytes)[i] = b[i]
<1> DEFINE c == Written(b, w, bytes)  n == Len(bytes)  D(i) == (i - w) % Size
<1>1. Size \in Nat \ {0} /\ w \in 0 .. Size - 1 /\ w \in Nat /\ n \in Nat /\ n <= Size
  BY LenProperties DEF FifoAssumption, Offsets
<1>2. \A i \in Offsets : D(i) \in 0 .. Size - 1 BY <1>1, Distance DEF Offsets
<1>3. c = [i \in Offsets |-> IF D(i) < n THEN bytes[D(i) + 1] ELSE b[i]] BY DEF Written
<1> HIDE DEF c, n, D
<1>4. \A i \in Offsets : c[i] = IF D(i) < n THEN bytes[D(i) + 1] ELSE b[i] BY <1>3
<1>5. \A i \in 1 .. n : bytes[i] \in Nat
  <2>1. \A i \in 1 .. Len(bytes) : bytes[i] \in Octets BY ElementOfSeq
  <2>2. Octets \subseteq Nat BY DEF Octets
  <2> HIDE DEF n
  <2> QED BY <2>1, <2>2 DEF n
<1>6. \A i \in Offsets : (IF D(i) < n THEN bytes[D(i) + 1] ELSE b[i]) \in Nat
  <2> TAKE i \in Offsets
  <2>1. D(i) < n => D(i) + 1 \in 1 .. n BY <1>1, <1>2
  <2>2. b[i] \in Nat BY DEF Rings
  <2> QED BY <1>5, <2>1, <2>2
<1>7. c \in Rings BY <1>3, <1>6 DEF Rings
<1>8. \A e \in 0 .. n - 1 : Byte(c, w + e) = bytes[e + 1]
  <2> TAKE e \in 0 .. n - 1
  <2> DEFINE i == (w + e) % Size
  <2>1. i \in 0 .. Size - 1 /\ e \in 0 .. Size - 1 BY <1>1
  <2>2. D(i) = e
    <3>1. (w + e) % Size = i OBVIOUS
    <3> HIDE DEF i
    <3>2. i \in Offsets /\ e \in Offsets BY <2>1 DEF Offsets
    <3>3. (i - w) % Size = e BY <3>1, <3>2, DistanceInRing
    <3> QED BY <3>3 DEF D
  <2>3. Byte(c, w + e) = c[i] BY DEF Byte
  <2> HIDE DEF i
  <2> QED BY <1>1, <1>4, <2>1, <2>2, <2>3 DEF Offsets
<1>9. \A i \in Offsets : D(i) >= n => c[i] = b[i] BY <1>1, <1>2, <1>4
<1> QED BY <1>7, <1>8, <1>9 DEF c, n, D

\* A message written behind the last one reaches none of those that left room for it.
LEMMA OthersKept ==
    ASSUME FifoAssumption, NEW b \in Rings, NEW L, NEW n, Chain(b, L, n),
           NEW w \in Offsets, L[n] = [read |-> w, free |-> Size],
           NEW bytes \in Seq(Octets), NEW k \in 0 .. n, L[k].free >= Len(bytes),
           NEW j \in k .. n - 1
    PROVE  LET c == Written(b, w, bytes)
               o == L[j].read
           IN  LengthAt(c, o) = LengthAt(b, o) /\ MessageAt(c, o) = MessageAt(b, o)
<1> DEFINE c == Written(b, w, bytes)  o == L[j].read  free == L[j].free  size == Len(bytes)
           len == LengthAt(b, o)  D == Size - free  room == L[k].free
<1>1. n \in Nat /\ j \in 0 .. n /\ k \in 0 .. n /\ n \in 0 .. n /\ j < n /\ k <= j /\ j <= n
      /\ n \in j .. n
  BY DEF Chain
<1>2. L[j] \in Places /\ L[k] \in Places BY <1>1 DEF Chain
<1>3. o \in Nat /\ free \in Nat /\ len \in Nat /\ room \in Nat BY <1>2, PlaceBehind
<1>4. Size \in Nat \ {0} /\ w \in 0 .. Size - 1 /\ w \in Nat /\ size \in Nat
  BY LenProperties DEF FifoAssumption, Offsets
<1>5. free >= room /\ room >= size BY <1>1, ChainGrows
<1>6. Size >= free + len
  <2>1. L[n].free >= free + len BY <1>1, ChainGrows
  <2> QED BY <2>1
<1>7. w = (o + D) % Size
  <2>1. L[n].read = (o + (L[n].free - free)) % Size BY <1>1, ChainLies
  <2> QED BY <2>1
<1>8. D \in Nat /\ len <= D /\ D + size <= Size /\ size <= Size
  <2> HIDE DEF free, size, len, room
  <2>1. free \in Nat /\ len \in Nat /\ room \in Nat /\ size \in Nat /\ Size \in Nat
    BY <1>3, <1>4
  <2> QED BY <1>5, <1>6, <2>1
<1>9. /\ c \in Rings
      /\ \A i \in Offsets : (i - w) % Size >= size => c[i] = b[i]
  BY <1>8, WrittenBytes
<1> HIDE DEF c, o, free, size, len, D
<1>10. ASSUME NEW e \in 0 .. len - 1 PROVE Byte(c, o + e) = Byte(b, o + e)
  <2> DEFINE i == (o + e) % Size  d == (i - w) % Size
  <2>1. o + e \in Nat /\ e < D BY <1>3, <1>8
  <2>2. i \in 0 .. Size - 1 BY <1>4, <2>1
  <2>3. Byte(c, o + e) = c[i] /\ Byte(b, o + e) = b[i] BY DEF Byte
  <2>4. i = (o + e) % Size OBVIOUS
  <2> HIDE DEF i
  <2>5. d \in 0 .. Size - 1 /\ (w + d) % Size = i
    <3>1. i \in Offsets BY <2>2 DEF Offsets
    <3>2. (i - w) % Size \in Offsets /\ (w + ((i - w) % Size)) % Size = i
      BY <3>1, DistanceInRing
    <3> QED BY <3>2, Zenon DEF Offsets
  <2> HIDE DEF d
  <2>6. CASE d < size
    <3> DEFINE x == o + D  y == x + d  z == o + e
    <3>1. x \in Nat /\ y \in Nat /\ z \in Nat /\ z <= y /\ y - z < Size /\ z # y
      BY <1>3, <1>4, <1>8, <2>1, <2>5, <2>6
    <3> HIDE DEF x
    <3>2. ((x % Size) + d) % Size = (x + d) % Size
      <4>1. x \in Nat /\ d \in Nat /\ Size \in Nat \ {0} BY <1>4, <2>5, <3>1
      <4> QED BY <4>1, WrapEarly, Zenon
    <3>3. w = x % Size BY <1>7 DEF x
    <3>4. (x + d) % Size = i BY <2>5, <3>2, <3>3
    <3>5. y % Size = z % Size BY <2>4, <3>4
    <3> HIDE DEF y, z
    <3> QED BY <1>4, <3>1, <3>5, SameOffset
  <2>7. CASE d >= size
    <3>1. c[i] = b[i] BY <1>9, <2>2, <2>7 DEF d, Offsets
    <3> QED BY <2>3, <3>1
  <2> QED BY <1>4, <2>5, <2>6, <2>7
<1>11. LengthAt(c, o) = LengthAt(b, o) /\ MessageAt(c, o) = MessageAt(b, o)
  BY <1>3, <1>9, <1>10, SameMessage DEF len
<1> QED BY <1>11 DEF c, o

\* The messages read from another ring that holds the same messages from a place on.
LEMMA MessagesShifted ==
    ASSUME FifoAssumption, NEW b \in Rings, NEW c \in Rings, NEW L, NEW n, Chain(b, L, n),
           NEW M, NEW p, Chain(c, M, p), NEW k \in 0 .. n, NEW s \in Int, n - k <= p,
           M[0].read = L[k].read, M[0].free = L[k].free + s,
           \A j \in k .. n - 1 : /\ LengthAt(c, L[j].read) = LengthAt(b, L[j].read)
                                /\ MessageAt(c, L[j].read) = MessageAt(b, L[j].read)
    PROVE  /\ M[n - k].read = L[n].read /\ M[n - k].free = L[n].free + s
           /\ \A j \in 1 .. n - k : MessagesOf(c, M, p)[j] = MessagesOf(b, L, n)[k + j]
<1>1. n \in Nat /\ p \in Nat /\ n - k \in Nat BY DEF Chain
<1>2. \A j \in 0 .. n - k : M[j].read = L[k + j].read /\ M[j].free = L[k + j].free + s
  BY ChainShifted
<1>3. M[n - k].read = L[n].read /\ M[n - k].free = L[n].free + s
  <2>1. n - k \in 0 .. n - k /\ k + (n - k) = n BY <1>1
  <2> QED BY <1>2, <2>1
<1>4. ASSUME NEW j \in 1 .. n - k PROVE MessagesOf(c, M, p)[j] = MessagesOf(b, L, n)[k + j]
  <2>1. j \in 1 .. p /\ k + j \in 1 .. n /\ j - 1 \in 0 .. n - k
        /\ k + (j - 1) = (k + j) - 1 /\ (k + j) - 1 \in k .. n - 1
    BY <1>1
  <2>2. MessagesOf(c, M, p)[j] = MessageAt(c, M[j - 1].read) BY <2>1 DEF MessagesOf
  <2>3. MessagesOf(b, L, n)[k + j] = MessageAt(b, L[(k + j) - 1].read)
    BY <2>1 DEF MessagesOf
  <2>4. M[j - 1].read = L[(k + j) - 1].read BY <1>2, <2>1
  <2> QED BY <2>1, <2>2, <2>3, <2>4
<1> QED BY <1>3, <1>4
-----------------------------------------------------------------------------
(* The steps. *)

\* What the invariant says of the messages in the ring.
Readable ==
    /\ buffer \in Rings /\ Chain(buffer, Left, nbElement)
    /\ Left[0] = [read |-> readOffset, free |-> freeSpace]
    /\ Left[nbElement] = [read |-> writeOffset, free |-> Size]
    /\ Stored = MessagesOf(buffer, Left, nbElement)
    /\ nbElement \in Nat /\ writeOffset \in Offsets /\ readOffset \in Offsets
LEMMA InvReadable == ASSUME FifoAssumption, FifoInv PROVE Readable
BY LeftSolved, StoredIs DEF FifoInv, FifoTypes, LeftIs, StoredAre, Readable, Rings

\* The types and the place that the messages lead to make the invariant.
LEMMA NextReadable ==
    ASSUME FifoAssumption, FifoTypes'
    PROVE  /\ Chain(buffer', Left', nbElement') /\ buffer' \in Rings
           /\ Left'[0] = [read |-> readOffset', free |-> freeSpace']
           /\ Stored' = MessagesOf(buffer', Left', nbElement')
BY LeftSolvedNext, StoredIsNext DEF LeftIs, StoredAre, FifoTypes, Rings

\* The place behind some of the messages.
LEMMA LeftAt ==
    ASSUME FifoAssumption, FifoInv, NEW k \in 0 .. nbElement
    PROVE  Left[k].read \in Offsets /\ Left[k].free \in 0 .. Size
<1>1. Readable BY InvReadable
<1>2. nbElement \in 0 .. nbElement /\ k <= nbElement BY <1>1 DEF Readable
<1>3. Left[nbElement].free >= Left[k].free /\ Left[k] \in Places
  BY <1>1, <1>2, ChainGrows DEF Readable
<1>4. Left[nbElement].free = Size BY <1>1 DEF Readable
<1> QED BY <1>3, <1>4 DEF Places, FifoAssumption

\* A step that only reads keeps all but the messages it drops.
LEMMA Reads ==
    ASSUME FifoAssumption, FifoInv, NEW k \in 0 .. nbElement, buffer' = buffer,
           writeOffset' = writeOffset, readOffset' = Left[k].read,
           freeSpace' = Left[k].free, nbElement' = nbElement - k
    PROVE  FifoInv' /\ Stored' = SubSeq(Stored, k + 1, nbElement)
<1>1. Readable BY InvReadable
<1>2. FifoTypes'
  <2>1. nbElement' \in Nat BY <1>1 DEF Readable
  <2> QED BY <1>1, <2>1, LeftAt DEF FifoTypes, Readable, Rings
<1>3. /\ Chain(buffer, Left', nbElement') /\ buffer \in Rings
      /\ Left'[0] = [read |-> readOffset', free |-> freeSpace']
      /\ Stored' = MessagesOf(buffer, Left', nbElement')
  BY <1>2, NextReadable
<1> DEFINE b == buffer  L == Left  M == Left'  n == nbElement  p == nbElement'
<1>4. /\ b \in Rings /\ Chain(b, L, n) /\ Chain(b, M, p) /\ k \in 0 .. n
      /\ p = n - k /\ n \in Nat
  BY <1>1, <1>3 DEF Readable
<1>5. M[0].read = L[k].read /\ M[0].free = L[k].free + 0
  <2>1. L[k].free \in Nat BY LeftAt DEF FifoAssumption
  <2> QED BY <1>3, <2>1
<1>6. Stored = MessagesOf(b, L, n) /\ Stored' = MessagesOf(b, M, p) BY <1>1, <1>3 DEF Readable
<1>7. L[n] = [read |-> writeOffset, free |-> Size] BY <1>1 DEF Readable
<1> HIDE DEF b, L, M, n, p
<1>8. /\ M[n - k].read = L[n].read /\ M[n - k].free = L[n].free + 0
      /\ \A j \in 1 .. n - k : MessagesOf(b, M, p)[j] = MessagesOf(b, L, n)[k + j]
  <2>1. n - k <= p /\ 0 \in Int BY <1>4
  <2> QED BY <1>4, <1>5, <2>1, MessagesShifted
<1>9. M[p] \in Places
  <2>1. p \in 0 .. p BY <1>4
  <2> QED BY <1>4, <2>1 DEF Chain
<1>10. M[p] = [read |-> writeOffset', free |-> Size]
  <2>1. M[p].read = writeOffset /\ M[p].free = Size BY <1>4, <1>7, <1>8 DEF FifoAssumption
  <2> QED BY <1>9, <2>1 DEF Places
<1>11. MessagesOf(b, M, p) = SubSeq(MessagesOf(b, L, n), k + 1, n)
  <2> DEFINE s == MessagesOf(b, L, n)  t == MessagesOf(b, M, p)
  <2>1. s \in Seq(AnyMessage) /\ Len(s) = n /\ t \in Seq(AnyMessage) /\ Len(t) = p
    BY <1>4, MessagesRead
  <2>2. \A j \in 1 .. n - k : t[j] = s[k + j] BY <1>8
  <2> HIDE DEF s, t
  <2> QED BY <1>4, <2>1, <2>2, EndOf DEF s, t
<1> QED BY <1>2, <1>6, <1>10, <1>11 DEF FifoInv, M, p, n
\* A message that is stored comes behind those that were not dropped.
LEMMA Stores ==
    ASSUME FifoAssumption, FifoInv, NEW m \in Messages, NEW k \in 0 .. nbElement,
           Left[k].free >= Len(Encode(m)),
           buffer' = Written(buffer, writeOffset, Encode(m)),
           writeOffset' = (writeOffset + Len(Encode(m))) % Size,
           readOffset' = Left[k].read, freeSpace' = Left[k].free - Len(Encode(m)),
           nbElement' = nbElement - k + 1
    PROVE  FifoInv' /\ Stored' = Append(SubSeq(Stored, k + 1, nbElement), m)
<1> DEFINE b == buffer  L == Left  n == nbElement  w == writeOffset  E == Encode(m)
           c == buffer'  M == Left'  p == nbElement'  size == Len(E)
<1>1. Readable BY InvReadable
<1>2. L[k].read \in Offsets /\ L[k].free \in 0 .. Size BY LeftAt
<1>3. E \in Seq(Octets) /\ size \in Nat /\ Size \in Nat \ {0} /\ m \in AnyMessage
  <2>1. E \in Seq(Octets) BY EncodedBytes DEF Encoding
  <2>2. size \in Nat BY <2>1, LenProperties
  <2>3. m \in AnyMessage BY MessageIs
  <2> QED BY <2>1, <2>2, <2>3 DEF FifoAssumption
<1>4. size \in Nat /\ Size \in Nat \ {0} BY <1>3
<1>5. size <= Size /\ L[k].free - size \in 0 .. Size /\ 0 - size \in Int
  <2> DEFINE room == L[k].free
  <2>1. room \in 0 .. Size /\ room >= size BY <1>2
  <2> HIDE DEF size, room
  <2>2. size <= Size /\ room - size \in 0 .. Size /\ 0 - size \in Int BY <1>4, <2>1
  <2> QED BY <2>2 DEF room, size
<1>6. /\ c \in Rings
      /\ \A e \in 0 .. size - 1 : Byte(c, w + e) = E[e + 1]
  BY <1>1, <1>3, <1>5, WrittenBytes DEF Readable
<1>7. p \in Nat /\ p = n - k + 1 /\ n - k \in Nat /\ n \in Nat BY <1>1 DEF Readable
<1>8. writeOffset' \in Offsets /\ w \in Nat
  <2> DEFINE x == w + size
  <2>1. w \in Nat /\ w \in Offsets BY <1>1, <1>4 DEF Readable, Offsets
  <2>2. x \in Nat
    <3> HIDE DEF size
    <3> QED BY <1>4, <2>1
  <2> HIDE DEF x
  <2>3. x % Size \in Offsets BY <1>4, <2>2 DEF Offsets
  <2> QED BY <2>1, <2>3 DEF x
<1>9. FifoTypes' BY <1>2, <1>5, <1>6, <1>7, <1>8 DEF FifoTypes, Rings
<1>10. /\ Chain(c, M, p)
       /\ M[0] = [read |-> readOffset', free |-> freeSpace']
       /\ Stored' = MessagesOf(c, M, p)
  BY <1>9, NextReadable
<1>11. /\ b \in Rings /\ Chain(b, L, n) /\ L[n] = [read |-> w, free |-> Size]
       /\ Stored = MessagesOf(b, L, n) /\ w \in Offsets
  BY <1>1 DEF Readable
<1>12. M[0].read = L[k].read /\ M[0].free = L[k].free + (0 - size)
  <2> DEFINE room == L[k].free
  <2>1. room \in Nat BY <1>2, <1>4
  <2>2. M[0].read = L[k].read /\ M[0].free = room - size BY <1>10
  <2> HIDE DEF size, room, M
  <2> QED BY <1>4, <2>1, <2>2 DEF room
<1>13. \A j \in k .. n - 1 : /\ LengthAt(c, L[j].read) = LengthAt(b, L[j].read)
                            /\ MessageAt(c, L[j].read) = MessageAt(b, L[j].read)
  BY <1>3, <1>11, OthersKept
<1>14. LengthAt(c, w) = size /\ MessageAt(c, w) = m BY <1>6, <1>8, Decoded
<1>15. k \in 0 .. n OBVIOUS
<1> HIDE DEF b, L, w, E, c, M, p, size, n
<1>16. /\ M[n - k].read = w /\ M[n - k].free = Size + (0 - size)
       /\ \A j \in 1 .. n - k : MessagesOf(c, M, p)[j] = MessagesOf(b, L, n)[k + j]
  <2>1. n - k <= p BY <1>7, <1>15
  <2>2. L[n].read = w /\ L[n].free = Size BY <1>11
  <2> DEFINE shift == 0 - size
  <2>3. shift \in Int /\ M[0].free = L[k].free + shift BY <1>5, <1>12
  <2> HIDE DEF shift
  <2>4. c \in Rings /\ Chain(c, M, p) /\ b \in Rings /\ Chain(b, L, n) /\ M[0].read = L[k].read
    BY <1>6, <1>10, <1>11, <1>12
  <2>5. /\ M[n - k].read = L[n].read /\ M[n - k].free = L[n].free + shift
        /\ \A j \in 1 .. n - k : MessagesOf(c, M, p)[j] = MessagesOf(b, L, n)[k + j]
    BY <1>13, <1>15, <2>1, <2>3, <2>4, MessagesShifted
  <2> QED BY <2>2, <2>5 DEF shift
<1>17. p \in 1 .. p /\ p - 1 = n - k /\ p - 1 \in 0 .. p /\ p \in 0 .. p BY <1>7, <1>15
<1>18. M[p] = [read |-> writeOffset', free |-> Size]
  <2>1. M[p] = Behind(c, M[p - 1]) BY <1>10, <1>17 DEF Chain
  <2>2. M[p] = [read |-> (w + size) % Size, free |-> Size + (0 - size) + size]
    BY <1>14, <1>16, <1>17, <2>1 DEF Behind
  <2>3. Size + (0 - size) + size = Size BY <1>4
  <2> QED BY <2>2, <2>3 DEF w, size, E
<1>19. MessagesOf(c, M, p) = Append(SubSeq(MessagesOf(b, L, n), k + 1, n), m)
  <2> DEFINE s == MessagesOf(b, L, n)  t == MessagesOf(c, M, p)
             u == SubSeq(s, k + 1, n)  v == n - k
  <2>1. s \in Seq(AnyMessage) /\ Len(s) = n /\ t \in Seq(AnyMessage) /\ Len(t) = p
        /\ t[p] = MessageAt(c, M[p - 1].read)
    BY <1>6, <1>10, <1>11, <1>17, MessagesRead
  <2>2. \A j \in 1 .. v : t[j] = s[k + j] BY <1>16
  <2>3. t[p] = m BY <1>14, <1>16, <1>17, <2>1
  <2> HIDE DEF s, t
  <2>4. u \in Seq(AnyMessage) /\ Len(u) = v /\ \A j \in 1 .. v : u[j] = s[k + j]
    <3>1. n \in Nat BY <1>7
    <3>2. s \in Seq(AnyMessage) BY <2>1
    <3>3. Len(s) = n BY <2>1
    <3>4. IsEnd(u, AnyMessage, s, k, n) BY <1>15, <3>1, <3>2, <3>3, EndIs, Zenon
    <3> QED BY <3>4 DEF IsEnd
  <2> HIDE DEF u
  <2>5. v \in Nat /\ p = v + 1 BY <1>7, <1>15
  <2> HIDE DEF v
  <2>6. /\ Append(u, m) \in Seq(AnyMessage) /\ Len(Append(u, m)) = v + 1
        /\ \A j \in 1 .. v : Append(u, m)[j] = u[j]
        /\ Append(u, m)[v + 1] = m
    BY <1>3, <2>4, AppendProperties
  <2>7. \A j \in 1 .. v + 1 : Append(u, m)[j] = t[j]
    <3> TAKE j \in 1 .. v + 1
    <3>1. j \in 1 .. v \/ j = v + 1 BY <2>5
    <3>2. CASE j \in 1 .. v BY <2>2, <2>4, <2>6, <3>2
    <3>3. CASE j = v + 1 BY <2>3, <2>5, <2>6, <3>3
    <3> QED BY <3>1, <3>2, <3>3
  <2>8. t = Append(u, m) BY <2>1, <2>5, <2>6, <2>7, SeqEqual
  <2> QED BY <2>8 DEF s, t, u
<1> QED BY <1>9, <1>10, <1>11, <1>18, <1>19 DEF FifoInv, M, p, n
\* No message is stored where none can be read.
LEMMA NoMessages ==
    ASSUME FifoAssumption, NEW b \in Rings, NEW L, Chain(b, L, 0)
    PROVE  MessagesOf(b, L, 0) = <<>>
<1>1. MessagesOf(b, L, 0) \in Seq(AnyMessage) /\ Len(MessagesOf(b, L, 0)) = 0 BY MessagesRead
<1> QED BY <1>1, EmptySeq

\* A step that touches neither the ring nor the offsets keeps the messages.
LEMMA Keeps ==
    ASSUME FifoAssumption, FifoInv,
           UNCHANGED <<buffer, readOffset, writeOffset, freeSpace, nbElement>>
    PROVE  FifoInv' /\ Stored' = Stored
<1>1. Readable BY InvReadable
<1>2. 0 \in 0 .. nbElement /\ nbElement - 0 = nbElement /\ nbElement \in Nat BY <1>1 DEF Readable
<1>3. readOffset' = Left[0].read /\ freeSpace' = Left[0].free BY <1>1 DEF Readable
<1>4. FifoInv' /\ Stored' = SubSeq(Stored, 0 + 1, nbElement) BY <1>2, <1>3, Reads
<1> DEFINE s == Stored
<1>5. s \in Seq(AnyMessage) /\ Len(s) = nbElement BY <1>1, MessagesRead DEF Readable
<1> HIDE DEF s
<1>6. \A j \in 1 .. nbElement - 0 : s[j] = s[0 + j] OBVIOUS
<1>7. s = SubSeq(s, 0 + 1, nbElement) BY <1>2, <1>5, <1>6, EndOf
<1> QED BY <1>4, <1>7 DEF s

\* The bytes that the queue uses without its oldest messages.
LEMMA Freed ==
    ASSUME FifoAssumption, FifoInv, NEW k \in 0 .. nbElement
    PROVE  /\ Len(Stored) = nbElement /\ Fifo!From(k) = SubSeq(Stored, k + 1, nbElement)
           /\ Fifo!Used(Fifo!From(k)) = Size - Left[k].free
<1>1. Readable BY InvReadable
<1>2. Len(Stored) = nbElement BY <1>1, MessagesRead DEF Readable
<1>3. Fifo!From(k) = SubSeq(Stored, k + 1, nbElement) BY <1>2 DEF Fifo!From
<1>4. Fifo!Used(SubSeq(MessagesOf(buffer, Left, nbElement), k + 1, nbElement))
        = Left[nbElement].free - Left[k].free
  BY <1>1, UsedIsFreed DEF Readable
<1>5. Left[nbElement].free = Size BY <1>1 DEF Readable
<1> QED BY <1>1, <1>2, <1>3, <1>4, <1>5 DEF Readable

\* fifo_ctrl_set.
LEMMA SetStep ==
    ASSUME FifoAssumption, FifoInv, NEW m \in Messages, Set(m)
    PROVE  FifoInv' /\ Fifo!Put(m)
<1> DEFINE n == Len(Encode(m))
<1>1. n \in Nat /\ Size \in Nat BY EncodedBytes, LenProperties DEF Encoding, FifoAssumption
<1>2. Fifo!Bytes(m) = n
  <2> DEFINE d == Len(m.data)  t == Len(m.meta)
  <2>1. d \in Nat /\ t \in Nat BY MessageIs
  <2>2. n = 3 + t + d BY EncodedBytes DEF Encoding
  <2>3. Fifo!Bytes(m) = 3 + d + t BY DEF Fifo!Bytes, Header
  <2> HIDE DEF n, d, t
  <2> QED BY <2>1, <2>2, <2>3
<1>3. CASE n > Size
  <2>1. /\ UNCHANGED <<buffer, readOffset, writeOffset, freeSpace, nbElement>>
        /\ Return("BUFFER_TOO_SMALL")
    <3> HIDE DEF n
    <3>1. ~(n <= Size) BY <1>1, <1>3
    <3> QED BY <3>1 DEF Set, n
  <2>2. FifoInv' /\ Stored' = Stored BY <2>1, Keeps
  <2>3. answer' = Fifo!Answer("BUFFER_TOO_SMALL", Fifo!Nothing)
    BY <2>1 DEF Return, Answer, Fifo!Answer, Fifo!Nothing
  <2> HIDE DEF n
  <2> QED BY <1>2, <1>3, <2>2, <2>3 DEF Fifo!Put
<1>4. CASE n <= Size
  <2>1. PICK k \in 0 .. nbElement :
           /\ Room(k, n) /\ \A j \in 0 .. k - 1 : ~Room(j, n)
           /\ readOffset' = Left[k].read
           /\ freeSpace' = Left[k].free - n
           /\ nbElement' = nbElement - k + 1
    <3> HIDE DEF n
    <3>1. ~(n > Size) BY <1>1, <1>4
    <3> QED BY <3>1 DEF Set, n
  <2>2. /\ buffer' = Written(buffer, writeOffset, Encode(m))
        /\ writeOffset' = (writeOffset + n) % Size /\ Return("OK")
    <3> HIDE DEF n
    <3>1. ~(n > Size) BY <1>1, <1>4
    <3> QED BY <3>1 DEF Set, n, Written, Offsets
  <2>3. FifoInv' /\ Stored' = Append(SubSeq(Stored, k + 1, nbElement), m)
    BY <2>1, <2>2, Stores DEF Room
  <2>4. answer' = Fifo!Answer("OK", Fifo!Nothing)
    BY <2>2 DEF Return, Answer, Fifo!Answer, Fifo!Nothing
  <2>5. nbElement \in Nat /\ Len(Stored) = nbElement
    BY Freed, <2>1 DEF FifoInv, FifoTypes
  <2> HIDE DEF n
  <2>6. Fifo!Used(Fifo!From(k)) + Fifo!Bytes(m) <= Size
    <3>1. Left[k].free >= n BY <2>1 DEF Room
    <3>2. Left[k].free \in 0 .. Size /\ Fifo!Used(Fifo!From(k)) = Size - Left[k].free
      BY LeftAt, Freed
    <3> DEFINE room == Left[k].free
    <3> HIDE DEF room
    <3>3. room >= n /\ room \in 0 .. Size /\ Fifo!Used(Fifo!From(k)) = Size - room
      BY <3>1, <3>2 DEF room
    <3>4. Size - room + n <= Size BY <1>1, <3>3
    <3> QED BY <1>2, <3>3, <3>4
  <2>7. ASSUME NEW j \in 0 .. k - 1 PROVE Fifo!Used(Fifo!From(j)) + Fifo!Bytes(m) > Size
    <3>1. j \in 0 .. nbElement BY <2>5
    <3>2. ~(Left[j].free >= n) BY <2>1 DEF Room
    <3>3. Left[j].free \in 0 .. Size /\ Fifo!Used(Fifo!From(j)) = Size - Left[j].free
      BY <3>1, LeftAt, Freed
    <3> DEFINE room == Left[j].free
    <3> HIDE DEF room
    <3>4. ~(room >= n) /\ room \in 0 .. Size /\ Fifo!Used(Fifo!From(j)) = Size - room
      BY <3>2, <3>3 DEF room
    <3>5. Size - room + n > Size BY <1>1, <3>4
    <3> QED BY <1>2, <3>4, <3>5
  <2>8. Stored' = Append(Fifo!From(k), m) BY <2>3, Freed
  <2>9. k \in 0 .. Len(Stored) /\ Fifo!Bytes(m) <= Size BY <1>2, <1>4, <2>5
  <2> QED BY <2>3, <2>4, <2>6, <2>7, <2>8, <2>9 DEF Fifo!Put
<1> HIDE DEF n
<1> QED BY <1>1, <1>3, <1>4

\* fifo_ctrl_get.
LEMMA GetStep ==
    ASSUME FifoAssumption, FifoInv, NEW cap \in Capacities, Get(cap)
    PROVE  FifoInv' /\ Fifo!Get(cap)
<1> DEFINE data == DataLen(readOffset)  meta == MetaLen(readOffset)
           old == MessageAt(buffer, readOffset)
<1>1. Readable BY InvReadable
<1>2. readOffset \in Nat /\ nbElement \in Nat /\ Left[0].read = readOffset
  BY <1>1 DEF Readable, Offsets
<1>3. data = DataAt(buffer, readOffset) /\ meta = MetaAt(buffer, readOffset)
  BY DEF DataLen, DataAt, MetaLen, MetaAt, At, Byte
<1>4. Len(old.data) = data /\ Len(old.meta) = meta BY <1>1, <1>2, <1>3, MessageRead DEF Readable
<1>5. /\ Stored \in Seq(AnyMessage) /\ Len(Stored) = nbElement
      /\ nbElement > 0 => Stored[1] = old
  <2>1. /\ Stored \in Seq(AnyMessage) /\ Len(Stored) = nbElement
        /\ \A k \in 1 .. nbElement : Stored[k] = MessageAt(buffer, Left[k - 1].read)
    BY <1>1, MessagesRead DEF Readable
  <2>2. nbElement > 0 => 1 \in 1 .. nbElement /\ 1 - 1 = 0 BY <1>2
  <2> QED BY <1>2, <2>1, <2>2
<1>6. nbElement > 0 => Stored # <<>> /\ Head(Stored) = old
  BY <1>2, <1>5, EmptySeq
<1>7. CASE nbElement = 0
  <2>1. /\ UNCHANGED <<buffer, readOffset, writeOffset, freeSpace, nbElement>>
        /\ Return("BUFFER_EMPTY")
    BY <1>7 DEF Get
  <2>2. FifoInv' /\ Stored' = Stored BY <2>1, Keeps
  <2>3. answer' = Fifo!Answer("BUFFER_EMPTY", Fifo!Nothing)
    BY <2>1 DEF Return, Answer, Fifo!Answer, Fifo!Nothing
  <2>4. Stored = <<>> BY <1>5, <1>7, EmptySeq
  <2> QED BY <2>2, <2>3, <2>4 DEF Fifo!Get
<1>8. CASE nbElement > 0 /\ (data > cap.data \/ meta > cap.meta)
           /\ Return("BUFFER_TOO_SMALL")
           /\ UNCHANGED <<buffer, readOffset, writeOffset, freeSpace, nbElement>>
  <2>1. FifoInv' /\ Stored' = Stored BY <1>8, Keeps
  <2>2. answer' = Fifo!Answer("BUFFER_TOO_SMALL", Fifo!Nothing)
    BY <1>8 DEF Return, Answer, Fifo!Answer, Fifo!Nothing
  <2>3. Len(Head(Stored).data) > cap.data \/ Len(Head(Stored).meta) > cap.meta
    BY <1>4, <1>6, <1>8
  <2> QED BY <1>6, <1>8, <2>1, <2>2, <2>3 DEF Fifo!Get
<1>9. CASE /\ nbElement > 0 /\ data <= cap.data /\ meta <= cap.meta
           /\ answer' = Answer("OK", Slice(readOffset + Header + meta, data),
                               Slice(readOffset + Header, meta))
           /\ readOffset' = Left[1].read /\ freeSpace' = Left[1].free
           /\ nbElement' = nbElement - 1
           /\ UNCHANGED <<buffer, writeOffset>>
  <2>1. 1 \in 0 .. nbElement BY <1>2, <1>9
  <2>2. FifoInv' /\ Stored' = SubSeq(Stored, 1 + 1, nbElement) BY <1>9, <2>1, Reads
  <2>3. Stored' = Tail(Stored)
    <3>1. Tail(Stored) = SubSeq(Stored, 2, Len(Stored)) BY <1>5, <1>6, <1>9, TailIsSubSeq
    <3> QED BY <1>5, <2>2, <3>1
  <2>4. /\ Slice(readOffset + Header + meta, data) = old.data
        /\ Slice(readOffset + Header, meta) = old.meta
    BY <1>3 DEF Slice, At, MessageAt, Byte
  <2>5. answer' = Fifo!Answer("OK", Head(Stored))
    BY <1>6, <1>9, <2>4 DEF Answer, Fifo!Answer
  <2>6. Len(Head(Stored).data) <= cap.data /\ Len(Head(Stored).meta) <= cap.meta
    BY <1>4, <1>6, <1>9
  <2> QED BY <1>6, <1>9, <2>2, <2>3, <2>5, <2>6 DEF Fifo!Get
<1> QED BY <1>7, <1>8, <1>9 DEF Get

\* fifo_ctrl_clear.
LEMMA ClearStep ==
    ASSUME FifoAssumption, FifoInv, Clear
    PROVE  FifoInv' /\ Fifo!Clear
<1>1. Readable BY InvReadable
<1>2. FifoTypes' BY <1>1 DEF Clear, FifoTypes, Readable, Rings, Offsets, FifoAssumption
<1>3. /\ Chain(buffer', Left', nbElement') /\ buffer' \in Rings
      /\ Left'[0] = [read |-> readOffset', free |-> freeSpace']
      /\ Stored' = MessagesOf(buffer', Left', nbElement')
  BY <1>2, NextReadable
<1>4. nbElement' = 0 /\ readOffset' = 0 /\ writeOffset' = 0 /\ freeSpace' = Size
      /\ answer' = Answer("OK", <<>>, <<>>)
  BY DEF Clear, Return
<1>5. FifoInv' BY <1>2, <1>3, <1>4 DEF FifoInv
<1>6. Stored' = <<>> BY <1>3, <1>4, NoMessages
<1>7. answer' = Fifo!Answer("OK", Fifo!Nothing) BY <1>4 DEF Answer, Fifo!Answer, Fifo!Nothing
<1> QED BY <1>5, <1>6, <1>7 DEF Fifo!Clear

-----------------------------------------------------------------------------
\* The ring is empty at first, and so is the queue.
LEMMA InitFifo == ASSUME FifoAssumption, Init PROVE FifoInv /\ QueueInit
<1>1. FifoTypes BY DEF Init, FifoTypes, Offsets, FifoAssumption
<1>2. LeftIs BY <1>1, LeftSolved
<1>3. Stored = MessagesOf(buffer, Left, nbElement) BY StoredIs DEF StoredAre
<1>4. /\ nbElement = 0 /\ readOffset = 0 /\ writeOffset = 0 /\ freeSpace = Size
      /\ answer = Answer("OK", <<>>, <<>>) /\ buffer \in Rings
  BY <1>1 DEF Init, FifoTypes, Rings
<1>5. FifoInv BY <1>1, <1>2, <1>4 DEF FifoInv, LeftIs
<1>6. Stored = <<>> BY <1>2, <1>3, <1>4, NoMessages DEF LeftIs
<1>7. answer = Fifo!Answer("OK", Fifo!Nothing) BY <1>4 DEF Answer, Fifo!Answer, Fifo!Nothing
<1> QED BY <1>5, <1>6, <1>7 DEF QueueInit, Fifo!Init

\* Every step keeps the invariant and is a step of the queue.
LEMMA NextFifo == ASSUME FifoAssumption, FifoInv, [Next]_vars PROVE FifoInv' /\ QueueStep
<1>1. ASSUME NEW m \in Messages, Set(m) PROVE FifoInv' /\ QueueStep
  BY <1>1, SetStep DEF QueueStep, Fifo!Next
<1>2. ASSUME NEW c \in Capacities, Get(c) PROVE FifoInv' /\ QueueStep
  BY <1>2, GetStep DEF QueueStep, Fifo!Next
<1>3. CASE Clear BY <1>3, ClearStep DEF QueueStep, Fifo!Next
<1>4. CASE UNCHANGED vars BY <1>4, Keeps DEF vars, QueueStep
<1> QED BY <1>1, <1>2, <1>3, <1>4 DEF Next

\* The inductive invariant: reading all messages leads to the write offset and leaves the
\* whole buffer free.
THEOREM FifoInvariant == ASSUME FifoAssumption PROVE Spec => []FifoInv
<1>1. Init => FifoInv BY InitFifo
<1>2. FifoInv /\ [Next]_vars => FifoInv' BY NextFifo
<1> QED BY <1>1, <1>2, PTL DEF Spec

\* fifo_ctrl.c implements the queue that fifo_ctrl.h promises: what is read is what was
\* written, in order, whatever wraps, and as few messages as possible are dropped.
THEOREM FifoImplementsQueue == ASSUME FifoAssumption PROVE Spec => ImplementsQueue
<1>1. Init => QueueInit BY InitFifo
<1>2. FifoInv /\ [Next]_vars => QueueStep BY NextFifo
<1> QED BY <1>1, <1>2, FifoInvariant, PTL
     DEF Spec, ImplementsQueue, Fifo!Spec, QueueInit, QueueStep

\* The loop of fifo_ctrl_set that drops the oldest messages ends for every message that the
\* buffer can hold: after the last one there is room.
RoomIsMade == \A n \in 0 .. Size : \E k \in 0 .. nbElement : Room(k, n)
THEOREM FifoRoomIsMade == ASSUME FifoAssumption PROVE Spec => []RoomIsMade
<1>1. FifoInv => RoomIsMade
  <2> SUFFICES ASSUME FifoInv, NEW n \in 0 .. Size PROVE \E k \in 0 .. nbElement : Room(k, n)
    BY DEF RoomIsMade
  <2>1. nbElement \in 0 .. nbElement /\ Left[nbElement].free = Size
    BY InvReadable DEF Readable
  <2> QED BY <2>1 DEF Room, FifoAssumption
<1> QED BY <1>1, FifoInvariant, PTL
=============================================================================
