-------------------------- MODULE ContainersProofs --------------------------
(***************************************************************************)
(* The private mailbox of Agate, the dictionary and the priority queue,    *)
(* each a data structure that one thread at a time uses, and the           *)
(* components side by side.                                                *)
(***************************************************************************)
EXTENDS MCComponents, LifetimeProofs, Integers, FiniteSetTheorems,
        FunctionTheorems, WellFoundedInduction, TLAPS

----------------------------------------------------------------------------
(* Induction, without an operator for what is proved: a set stands for it. *)

Below == {pair \in Nat \X Nat : pair[1] < pair[2]}

LEMMA LeastNat ==
  ASSUME NEW S \in SUBSET Nat, S # {}
  PROVE  \E n \in S : \A m \in S : n <= m
<1>1. IsWellFoundedOn(Below, Nat)
  <2>1. OpToRel(<, Nat) = Below
    BY DEF OpToRel, Below
  <2> QED BY <2>1, NatLessThanWellFounded
<1>2. \A x, y \in Nat : x < y => <<x, y>> \in Below
  BY DEF Below
<1>3. PICK n \in S : \A m \in S : ~ (<<m, n>> \in Below)
  BY <1>1, WFMin
<1>4. ASSUME NEW m \in S PROVE n <= m
  <2>1. m \in Nat /\ n \in Nat
    OBVIOUS
  <2>2. ~ (m < n)
    BY <1>2, <1>3, <2>1, Zenon
  <2> QED BY <2>1, <2>2
<1> QED BY <1>4

LEMMA Induct ==
  ASSUME NEW S, 0 \in S, \A n \in Nat : n \in S => n + 1 \in S
  PROVE  \A n \in Nat : n \in S
<1> SUFFICES ASSUME NEW k \in Nat, k \notin S PROVE FALSE
  OBVIOUS
<1> DEFINE T == {n \in Nat : n \notin S}
<1>1. PICK n \in T : \A m \in T : n <= m
  <2> T \in SUBSET Nat /\ T # {} OBVIOUS
  <2> QED BY LeastNat
<1>2. n - 1 \in Nat /\ n - 1 \in S
  BY <1>1
<1> QED BY <1>2
----------------------------------------------------------------------------
(* Powers of two and triangular numbers                                    *)

LEMMA DivMod ==
  ASSUME NEW a \in Nat, NEW n \in Nat \ {0}
  PROVE  /\ a % n \in 0 .. n - 1 /\ a \div n \in Nat
         /\ a = n * (a \div n) + (a % n)
<1>1. a % n \in 0 .. n - 1 OBVIOUS
<1>2. a \div n \in Int /\ a = n * (a \div n) + (a % n) OBVIOUS
<1>3. ASSUME NEW q \in Int, q < 0 PROVE n * q <= 0 - n
  <2>1. n * (q + 1) <= 0 BY <1>3
  <2>2. n * (q + 1) = n * q + n OBVIOUS
  <2>3. n * q \in Int OBVIOUS
  <2> QED BY <2>1, <2>2, <2>3
<1>4. a \div n >= 0
  <2> SUFFICES ASSUME a \div n < 0 PROVE FALSE BY <1>2
  <2>1. n * (a \div n) <= 0 - n BY <1>2, <1>3
  <2> HIDE DEF PowerOfTwo
  <2> QED BY <1>1, <1>2, <2>1
<1> QED BY <1>1, <1>2, <1>4

LEMMA ModUnique ==
  ASSUME NEW n \in Nat \ {0}, NEW q \in Nat, NEW r \in 0 .. n - 1
  PROVE  (n * q + r) % n = r /\ (n * q + r) \div n = q
OBVIOUS

LEMMA Mul0 ==
  ASSUME NEW n \in Nat \ {0}, NEW q \in Nat
  PROVE  (n * q) % n = 0
OBVIOUS

LEMMA Parity ==
  ASSUME NEW a \in Nat
  PROVE  \E m \in Nat : a = 2 * m \/ a = 2 * m + 1
<1>1. a \div 2 \in Nat /\ (a = 2 * (a \div 2) \/ a = 2 * (a \div 2) + 1)
  OBVIOUS
<1> QED BY <1>1

LEMMA OddOdd ==
  ASSUME NEW x \in Nat, NEW y \in Nat, NEW z \in Nat,
         (2 * x + 1) * (2 * y + 1) = 2 * z
  PROVE  FALSE
<1>1. (2 * x + 1) * (2 * y + 1) = 2 * (2 * (x * y) + x + y) + 1 OBVIOUS
<1> QED BY <1>1

LEMMA TriangleIs ==
  ASSUME NEW i \in Nat
  PROVE  Triangle(i) \in Nat /\ 2 * Triangle(i) = i * (i + 1)
<1>1. PICK m \in Nat : i = 2 * m \/ i = 2 * m + 1 BY Parity
<1>2. PICK z \in Nat : i * (i + 1) = 2 * z
  <2>1. CASE i = 2 * m
    <3>1. i * (i + 1) = 2 * (m * (i + 1)) BY <2>1
    <3>2. m * (i + 1) \in Nat OBVIOUS
    <3> QED BY <3>1, <3>2
  <2>2. CASE i = 2 * m + 1
    <3>1. i * (i + 1) = 2 * (i * (m + 1)) BY <2>2
    <3>2. i * (m + 1) \in Nat OBVIOUS
    <3> QED BY <3>1, <3>2
  <2> QED BY <1>1, <2>1, <2>2
<1>3. (2 * z) \div 2 = z OBVIOUS
<1> QED BY <1>2, <1>3 DEF Triangle

LEMMA TwoDivides ==
  ASSUME NEW n \in Nat \ {0}, PowerOfTwo(n), NEW d \in Nat, NEW e \in Nat, d * e = n, d > 1
  PROVE  \E c \in Nat : d = 2 * c
<1>1. e # 0 /\ d <= n
  <2>1. e # 0 OBVIOUS
  <2>2. d * (e - 1) >= 0 BY <2>1
  <2>3. d * (e - 1) = d * e - d OBVIOUS
  <2> QED BY <2>1, <2>2, <2>3
<1>2. n % d = 0
  <2>1. d \in Nat \ {0} OBVIOUS
  <2>2. (d * e) % d = 0 BY <2>1, Mul0, Zenon
  <2> QED BY <2>2
<1>3. d % 2 = 0
  BY <1>1, <1>2 DEF PowerOfTwo
<1> QED BY <1>3, Parity

LEMMA PowerFrom ==
  ASSUME NEW n \in Nat \ {0},
         \A d, e \in Nat : d * e = n /\ d > 1 => \E c \in Nat : d = 2 * c
  PROVE  PowerOfTwo(n)
<1> SUFFICES ASSUME NEW d \in 2 .. n, n % d = 0 PROVE d % 2 = 0 BY DEF PowerOfTwo
<1>1. n = d * (n \div d) /\ n \div d \in Nat BY DivMod
<1>2. d > 1 /\ d \in Nat OBVIOUS
<1>3. PICK c \in Nat : d = 2 * c BY <1>1, <1>2
<1>4. (2 * c) % 2 = 0 OBVIOUS
<1> QED BY <1>3, <1>4

LEMMA PowerDoubles ==
  ASSUME NEW n \in Nat \ {0}, PowerOfTwo(n)
  PROVE  PowerOfTwo(2 * n)
<1> SUFFICES ASSUME NEW d \in Nat, NEW e \in Nat, d * e = 2 * n, d > 1
             PROVE  \E c \in Nat : d = 2 * c
  <2>1. 2 * n \in Nat \ {0} OBVIOUS
  <2> QED BY <2>1, PowerFrom, ZenonT(60)
<1>1. PICK x \in Nat : d = 2 * x \/ d = 2 * x + 1 BY Parity
<1>2. PICK y \in Nat : e = 2 * y \/ e = 2 * y + 1 BY Parity
<1>3. CASE d = 2 * x + 1 /\ e = 2 * y
  <2>1. d * e = 2 * (d * y) BY <1>3
  <2>2. d * y = n BY <2>1
  <2> QED BY <2>2, TwoDivides
<1>4. CASE d = 2 * x + 1 /\ e = 2 * y + 1
  BY <1>4, OddOdd
<1> QED BY <1>1, <1>2, <1>3, <1>4

LEMMA PowerHalves ==
  ASSUME NEW n \in Nat \ {0}, PowerOfTwo(2 * n)
  PROVE  PowerOfTwo(n)
<1> SUFFICES ASSUME NEW d \in Nat, NEW e \in Nat, d * e = n, d > 1
             PROVE  \E c \in Nat : d = 2 * c
  BY PowerFrom
<1>1. d * (2 * e) = 2 * (d * e) OBVIOUS
<1>2. 2 * n \in Nat \ {0} /\ 2 * e \in Nat OBVIOUS
<1>3. d * (2 * e) = 2 * n BY <1>1
<1>4. PICK k \in Nat \ {0}, f \in Nat : k = 2 * n /\ f = 2 * e BY <1>2
<1>5. d * f = k /\ PowerOfTwo(k) BY <1>3, <1>4
<1> HIDE DEF PowerOfTwo
<1> QED BY <1>5, TwoDivides

\* A power of two that divides an odd multiple of a number divides the number.
Odd == {o \in Nat : \E m \in Nat : o = 2 * m + 1}

Divided ==
  {m \in Nat \ {0} : PowerOfTwo(m) =>
     \A o \in Odd, b, q \in Nat : o * b = m * q => \E r \in Nat : b = m * r}

LEMMA Divides ==
  ASSUME NEW n \in Nat \ {0}, \A m \in 1 .. n - 1 : m \in Divided
  PROVE  n \in Divided
<1> SUFFICES ASSUME PowerOfTwo(n), NEW o \in Odd, NEW b \in Nat, NEW q \in Nat,
                    o * b = n * q
             PROVE  \E r \in Nat : b = n * r
  BY DEF Divided
<1>0. PICK a \in Nat : o = 2 * a + 1
  BY DEF Odd
<1>1. CASE n = 1
  <2>1. b = n * b BY <1>1
  <2> QED BY <2>1
<1>2. CASE n > 1
  <2>1. PICK m \in Nat : n = 2 * m
    BY <1>2, TwoDivides
  <2>2. m \in 1 .. n - 1 /\ PowerOfTwo(m)
    BY <1>2, <2>1, PowerHalves
  <2>3. PICK c \in Nat : b = 2 * c
    <3>1. PICK y \in Nat : b = 2 * y \/ b = 2 * y + 1 BY Parity
    <3>2. n * q = 2 * (m * q) /\ m * q \in Nat BY <2>1
    <3> QED BY <1>0, <3>1, <3>2, OddOdd, ZenonT(60)
  <2>4. o * c = m * q
    <3>1. 2 * (o * c) = o * b BY <1>0, <2>3
    <3>2. 2 * (m * q) = n * q BY <2>1
    <3>3. PICK u \in Nat, v \in Nat : u = o * c /\ v = m * q BY <1>0
    <3>4. 2 * u = 2 * v BY <3>1, <3>2, <3>3
    <3>5. u = v BY <3>4
    <3> QED BY <3>3, <3>5
  <2>5. PICK r \in Nat : c = m * r
    <3>1. m \in Divided
      BY <2>2
    <3>2. \A x \in Odd, y, z \in Nat : x * y = m * z => \E r \in Nat : y = m * r
      BY <2>2, <3>1 DEF Divided
    <3> QED BY <2>4, <3>2, Zenon
  <2>6. b = n * r
    BY <2>1, <2>3, <2>5
  <2> QED BY <2>6
<1> QED BY <1>1, <1>2

LEMMA AllDivided == \A n \in Nat \ {0} : n \in Divided
<1> DEFINE Undivided == {m \in Nat \ {0} : m \notin Divided}
<1> SUFFICES ASSUME Undivided # {} PROVE FALSE
  OBVIOUS
<1>1. PICK m \in Undivided : \A k \in Undivided : m <= k
  BY LeastNat
<1>2. \A k \in 1 .. m - 1 : k \in Divided
  BY <1>1
<1> QED BY <1>2, Divides

\* Twice the distance is (i - j) * (i + j + 1), of which one is odd and
\* neither is as great as 2 * n.
LEMMA Apart ==
  ASSUME NEW n \in Nat \ {0}, PowerOfTwo(n),
         NEW i \in 0 .. n - 1, NEW j \in 0 .. n - 1, i > j,
         NEW q \in Nat, Triangle(i) - Triangle(j) = n * q
  PROVE  FALSE
<1>1. PICK u \in Nat, v \in Nat, k \in Nat \ {0} : u = i - j /\ v = i + j + 1 /\ k = 2 * n
  OBVIOUS
<1>2. u * v = k * q
  <2>1. u * v = i * (i + 1) - j * (j + 1)
    BY <1>1
  <2>2. i * (i + 1) - j * (j + 1) = 2 * (Triangle(i) - Triangle(j))
    <3>1. Triangle(i) \in Nat /\ 2 * Triangle(i) = i * (i + 1)
      BY TriangleIs
    <3>2. Triangle(j) \in Nat /\ 2 * Triangle(j) = j * (j + 1)
      BY TriangleIs
    <3> QED BY <3>1, <3>2
  <2>3. 2 * (n * q) = k * q
    BY <1>1
  <2>4. 2 * (Triangle(i) - Triangle(j)) = 2 * (n * q)
    OBVIOUS
  <2> QED BY <2>1, <2>2, <2>3, <2>4
<1>3. PowerOfTwo(k) /\ k \in Divided
  <2>1. PowerOfTwo(2 * n)
    BY PowerDoubles
  <2> QED BY <1>1, <2>1, AllDivided
<1>4. \A o \in Odd, b \in Nat : o * b = k * q => \E r \in Nat : b = k * r
  <2>1. \A o \in Odd, b, z \in Nat : o * b = k * z => \E r \in Nat : b = k * r
    BY <1>3 DEF Divided
  <2> QED BY <2>1, SMTT(30)
<1>5. 0 < u /\ u < k /\ 0 < v /\ v < k
  BY <1>1
<1>6. ASSUME NEW b \in Nat, NEW r \in Nat, 0 < b, b < k, b = k * r PROVE FALSE
  <2>1. r # 0 BY <1>6
  <2>2. k * (r - 1) >= 0 BY <2>1
  <2>3. k * (r - 1) = k * r - k OBVIOUS
  <2> QED BY <1>6, <2>2, <2>3
<1>7. CASE u \in Odd
  <2>1. PICK r \in Nat : v = k * r
    BY <1>2, <1>4, <1>7
  <2> QED BY <1>5, <1>6, <2>1
<1>8. CASE v \in Odd
  <2>1. v * u = k * q
    BY <1>2
  <2>2. PICK r \in Nat : u = k * r
    BY <1>4, <1>8, <2>1
  <2> QED BY <1>5, <1>6, <2>2
<1>9. u \in Odd \/ v \in Odd
  <2>1. PICK m \in Nat : u = 2 * m \/ u = 2 * m + 1
    BY Parity
  <2>2. v = u + 2 * j + 1
    BY <1>1, SMTT(30)
  <2>3. u = 2 * m => v = 2 * (m + j) + 1 /\ m + j \in Nat
    BY <2>2
  <2> QED BY <2>1, <2>3 DEF Odd
<1> QED BY <1>7, <1>8, <1>9

\* Within one turn of the table no bucket is looked at twice.
LEMMA ProbesApart ==
  ASSUME NEW n \in Nat \ {0}, PowerOfTwo(n), NEW h \in Nat,
         NEW i \in 0 .. n - 1, NEW j \in 0 .. n - 1,
         (h + Triangle(i)) % n = (h + Triangle(j)) % n
  PROVE  i = j
<1>1. ASSUME NEW a \in 0 .. n - 1, NEW b \in 0 .. n - 1, a > b,
             (h + Triangle(a)) % n = (h + Triangle(b)) % n
      PROVE  FALSE
  <2>1. PICK x \in Nat, y \in Nat : x = h + Triangle(a) /\ y = h + Triangle(b)
    <3>1. a \in Nat /\ b \in Nat
      OBVIOUS
    <3>2. Triangle(a) \in Nat /\ Triangle(b) \in Nat
      BY <3>1, TriangleIs
    <3>3. h + Triangle(a) \in Nat /\ h + Triangle(b) \in Nat
      BY <3>2
    <3> QED
      BY <3>3, Zenon
  <2>2. PICK c \in Nat, d \in Nat, r \in 0 .. n - 1 : x = n * c + r /\ y = n * d + r
    <3>1. x = n * (x \div n) + (x % n) /\ x \div n \in Nat
      BY DivMod
    <3>2. y = n * (y \div n) + (y % n) /\ y \div n \in Nat /\ y % n \in 0 .. n - 1
      BY DivMod
    <3>3. x % n = y % n
      BY <1>1, <2>1
    <3> QED BY <3>1, <3>2, <3>3
  <2>3. Triangle(a) - Triangle(b) = n * (c - d)
    <3>1. Triangle(a) \in Nat /\ Triangle(b) \in Nat
      BY TriangleIs, SMTT(30)
    <3>2. Triangle(a) - Triangle(b) = x - y
      BY <2>1, <3>1
    <3>3. x - y = n * c - n * d
      BY <2>2
    <3>4. n * c - n * d = n * (c - d)
      OBVIOUS
    <3> QED BY <3>2, <3>3, <3>4
  <2>4. Triangle(a) > Triangle(b)
    <3>1. a * (a + 1) > b * (b + 1)
      <4>1. a * (a + 1) - b * (b + 1) = (a - b) * (a + b + 1)
        OBVIOUS
      <4>2. a - b > 0 /\ a + b + 1 > 0
        BY <1>1
      <4>3. (a - b) * (a + b + 1) > 0
        BY <4>2
      <4> QED BY <4>1, <4>3
    <3> QED BY <3>1, TriangleIs
  <2>5. c - d \in Nat
    <3> SUFFICES ASSUME c < d PROVE FALSE
      OBVIOUS
    <3>1. n * (c - d) <= 0
      OBVIOUS
    <3>2. Triangle(a) \in Nat /\ Triangle(b) \in Nat
      BY TriangleIs, SMTT(30)
    <3>3. n * (c - d) > 0
      BY <2>3, <2>4, <3>2
    <3> QED BY <3>1, <3>3
  <2> QED BY <1>1, <2>3, <2>5, Apart
<1> QED BY <1>1
----------------------------------------------------------------------------
(* The private mailbox                                                     *)

\* The message received last, and behind it those that wait.
Received(i) == IF i = 0 THEN box.received ELSE waiting[i]
Unused      == Messages \ (Busy \cup {LastOne})

(* The slots that nobody has are those on the free list, each once, but    *)
(* for the constructor's, which never comes back.                          *)
FreeLinked(free) ==
  /\ free \in [1 .. box.available -> Unused]
  /\ \A i, j \in 1 .. box.available : free[i] = free[j] => i = j
  /\ \A s \in Unused : \E i \in 1 .. box.available : free[i] = s
  /\ box.available > 0 => free[1] = box.nextFree
  /\ \A i \in 1 .. box.available - 1 : free[i + 1] = link[free[i]]
FreeShape == \E free : FreeLinked(free)

(* The links from the message received last lead through those that wait.  *)
WaitingShape ==
  /\ box.received \in Messages
  /\ \A i, j \in 0 .. Len(waiting) : Received(i) = Received(j) => i = j
  /\ \A i \in 1 .. Len(waiting) : waiting[i] = link[Received(i - 1)]
  /\ box.lastQueued = Received(Len(waiting))

(* A slot has one use; it is held while it waits or was received last.     *)
UseShape ==
  /\ staged \cap wanted = {} /\ staged \cap doomed = {} /\ wanted \cap doomed = {}
  /\ LastOne \notin Busy
  /\ held = {Received(i) : i \in 0 .. Len(waiting)} \ {LastOne}
  /\ doomed \subseteq held /\ held \subseteq wanted \cup doomed

PrivateInv == PrivateTypeOK /\ FreeShape /\ WaitingShape /\ UseShape /\ ~misread

LEMMA PrivateConst ==
  /\ SlotCount \in Nat \ {0} /\ MaxSends \in Nat
  /\ Messages \subseteq Nat /\ LastOne \in Messages /\ Messages \subseteq 0 .. SlotCount
BY PrivateAssumption DEF Messages, LastOne

LEMMA PrivateStarts == PrivateInit => PrivateInv
<1> SUFFICES ASSUME PrivateInit PROVE PrivateInv OBVIOUS
<1> USE PrivateConst DEF PrivateInit
<1>1. PrivateTypeOK
  <2>1. link \in [Messages -> 0 .. SlotCount]
    BY DEF Messages
  <2>2. SlotCount - 1 \in Nat /\ LastOne \in 0 .. SlotCount /\ 0 \in 0 .. SlotCount
    OBVIOUS
  <2>3. box \in [available : Nat, queued : 0 .. MaxSends, nextFree : 0 .. SlotCount,
                 received : 0 .. SlotCount, lastQueued : Messages,
                 claimed : SUBSET {"sender", "receiver"}]
    BY <2>2
  <2>4. waiting \in Seq(Messages)
    OBVIOUS
  <2> QED BY <2>1, <2>3, <2>4 DEF PrivateTypeOK
<1>2. FreeShape
  <2> DEFINE free == [i \in 1 .. SlotCount - 1 |-> i - 1]
  <2>1. box.available = SlotCount - 1 /\ Unused = 0 .. SlotCount - 2
    BY DEF Unused, Busy, Messages, LastOne
  <2>2. FreeLinked(free)
    BY <2>1, SMTT(30) DEF FreeLinked, Messages
  <2> QED BY <2>2 DEF FreeShape
<1>3. WaitingShape
  BY DEF WaitingShape, Received
<1>4. UseShape
  BY DEF UseShape, Received, Busy
<1> QED BY <1>1, <1>2, <1>3, <1>4 DEF PrivateInv

LEMMA AttachKeeps ==
  ASSUME PrivateInv, \E role \in {"sender", "receiver"} : Attach(role) \/ Detach(role)
  PROVE  PrivateInv'
<1>1. PICK role \in {"sender", "receiver"} : Attach(role) \/ Detach(role)
  OBVIOUS
<1>2. /\ UNCHANGED <<link, staged, held, wanted, doomed, waiting, misread, polled>>
      /\ box' = [box EXCEPT !.claimed = box'.claimed]
      /\ box'.claimed \in SUBSET {"sender", "receiver"}
  BY <1>1 DEF Attach, Detach, PrivateInv, PrivateTypeOK
<1>3. UNCHANGED <<box.available, box.queued, box.nextFree, box.received, box.lastQueued>>
  BY <1>2 DEF PrivateInv, PrivateTypeOK
<1>4. PrivateTypeOK'
  BY <1>2, <1>3 DEF PrivateInv, PrivateTypeOK
<1>5. FreeShape'
  <2>1. PICK free : FreeLinked(free)
    BY DEF PrivateInv, FreeShape
  <2>2. FreeLinked(free)'
    BY <1>2, <1>3, <2>1 DEF FreeLinked, Unused, Busy
  <2> QED BY <2>2 DEF FreeShape
<1>6. WaitingShape' /\ UseShape'
  BY <1>2, <1>3 DEF PrivateInv, WaitingShape, UseShape, Received, Busy
<1> QED BY <1>2, <1>4, <1>5, <1>6 DEF PrivateInv

LEMMA AcquireKeeps ==
  ASSUME PrivateInv, AcquirePrivate PROVE PrivateInv'
<1> USE PrivateConst
<1> DEFINE s == box.nextFree  n == box.available
<1>1. PICK free : FreeLinked(free)
  BY DEF PrivateInv, FreeShape
<1>2. /\ n \in Nat /\ n > 0 /\ s = free[1] /\ s \in Unused /\ s \in Messages
  <2>1. n \in Nat /\ n > 0
    BY DEF AcquirePrivate, PrivateInv, PrivateTypeOK
  <2>2. 1 \in 1 .. n /\ s = free[1]
    BY <1>1, <2>1 DEF FreeLinked
  <2> QED BY <1>1, <2>1, <2>2 DEF FreeLinked, Unused
<1>3. /\ UNCHANGED <<link, held, wanted, doomed, waiting, misread, polled>>
      /\ staged' = staged \cup {s}
      /\ UNCHANGED <<box.queued, box.received, box.lastQueued, box.claimed>>
      /\ box'.available = n - 1 /\ box'.nextFree = link[s]
  BY DEF AcquirePrivate, PrivateInv, PrivateTypeOK
<1>4. PrivateTypeOK'
  <2>1. link[s] \in 0 .. SlotCount /\ n - 1 \in Nat
    BY <1>2, SMTT(30) DEF PrivateInv, PrivateTypeOK
  <2>2. box' \in [available : Nat, queued : 0 .. MaxSends, nextFree : 0 .. SlotCount,
                  received : 0 .. SlotCount, lastQueued : Messages,
                  claimed : SUBSET {"sender", "receiver"}]
    BY <2>1 DEF AcquirePrivate, PrivateInv, PrivateTypeOK
  <2> QED BY <1>2, <1>3, <2>2 DEF PrivateInv, PrivateTypeOK
<1>5. FreeShape'
  <2>0. PICK rest : rest = [i \in 1 .. n - 1 |-> free[i + 1]]
    OBVIOUS
  <2>1. Unused' = Unused \ {s}
    BY <1>3 DEF Unused, Busy
  <2>2. rest \in [1 .. n - 1 -> Unused \ {s}]
    BY <1>1, <1>2, <2>0 DEF FreeLinked
  <2>3. \A t \in Unused \ {s} : \E i \in 1 .. n - 1 : rest[i] = t
    <3> SUFFICES ASSUME NEW t \in Unused \ {s} PROVE \E i \in 1 .. n - 1 : rest[i] = t
      OBVIOUS
    <3>1. PICK j \in 1 .. n : free[j] = t
      BY <1>1 DEF FreeLinked
    <3>2. j # 1 /\ j - 1 \in 1 .. n - 1
      BY <1>2, <3>1
    <3>3. rest[j - 1] = t
      BY <3>1, <3>2, <1>2, <2>0
    <3> QED BY <3>2, <3>3
  <2>4. \A i, j \in 1 .. n - 1 : rest[i] = rest[j] => i = j
    BY <1>1, <1>2, <2>0 DEF FreeLinked
  <2>5. n - 1 > 0 => rest[1] = link[s]
    BY <1>1, <1>2, <2>0 DEF FreeLinked
  <2>6. \A i \in 1 .. n - 1 - 1 : rest[i + 1] = link[rest[i]]
    BY <1>1, <1>2, <2>0 DEF FreeLinked
  <2>7. FreeLinked(rest)'
    BY <1>3, <2>1, <2>2, <2>3, <2>4, <2>5, <2>6 DEF FreeLinked
  <2> QED BY <2>7 DEF FreeShape
<1>6. WaitingShape'
  BY <1>3 DEF PrivateInv, WaitingShape, Received
<1>7. UseShape'
  BY <1>2, <1>3 DEF PrivateInv, UseShape, Received, Busy, Unused
<1> QED BY <1>3, <1>4, <1>5, <1>6, <1>7 DEF PrivateInv

LEMMA SendKeeps ==
  ASSUME PrivateInv, NEW s \in Messages, SendPrivate(s) PROVE PrivateInv'
<1> USE PrivateConst
<1>0. PICK k : k = Len(waiting)
  OBVIOUS
<1>1. PICK free : FreeLinked(free)
  BY DEF PrivateInv, FreeShape
<1>2. /\ waiting \in Seq(Messages) /\ k \in Nat
      /\ waiting' = Append(waiting, s) /\ waiting' \in Seq(Messages) /\ Len(waiting') = k + 1
      /\ \A i \in 1 .. k : waiting'[i] = waiting[i]
      /\ waiting'[k + 1] = s
  BY <1>0, SMTT(30) DEF SendPrivate, PrivateInv, PrivateTypeOK
<1>3. /\ UNCHANGED <<doomed, misread, polled>>
      /\ staged' = staged \ {s} /\ held' = held \cup {s} /\ wanted' = wanted \cup {s}
      /\ UNCHANGED <<box.available, box.nextFree, box.received, box.claimed>>
      /\ box'.lastQueued = s
      /\ link' = [link EXCEPT ![box.lastQueued] = s] /\ s \in staged
  BY DEF SendPrivate, LinkQueued, PrivateInv, PrivateTypeOK
<1>4. PrivateTypeOK'
  <2>1. box.queued + 1 \in 0 .. MaxSends
    BY SMTT(30) DEF SendPrivate, PrivateInv, PrivateTypeOK
  <2>2. box' \in [available : Nat, queued : 0 .. MaxSends, nextFree : 0 .. SlotCount,
                  received : 0 .. SlotCount, lastQueued : Messages,
                  claimed : SUBSET {"sender", "receiver"}]
    BY <2>1 DEF SendPrivate, PrivateInv, PrivateTypeOK
  <2>3. link' \in [Messages -> 0 .. SlotCount]
    BY <1>3 DEF PrivateInv, PrivateTypeOK
  <2> QED BY <1>0, <1>2, <1>3, <2>2, <2>3, SMTT(30) DEF PrivateInv, PrivateTypeOK
<1>5. /\ Busy' = Busy /\ Unused' = Unused
      /\ Received(0)' = Received(0) /\ Received(k + 1)' = s
      /\ \A i \in 0 .. k : Received(i)' = Received(i)
      /\ \A i \in 0 .. k : Received(i) \in Messages /\ Received(i) \notin Unused /\ Received(i) # s
  <2>1. Busy' = Busy /\ Unused' = Unused
    BY <1>3 DEF Busy, Unused
  <2>2. Received(0)' = Received(0) /\ Received(k + 1)' = s
    BY <1>0, <1>2, <1>3 DEF Received
  <2>3. ASSUME NEW i \in 0 .. k
        PROVE  /\ Received(i)' = Received(i)
               /\ Received(i) \in Messages /\ Received(i) \notin Unused /\ Received(i) # s
    <3>1. Received(i)' = Received(i) /\ Received(i) \in Messages
      BY <1>0, <1>2, <1>3 DEF Received, PrivateInv, WaitingShape
    <3>2. Received(i) \in held \cup {LastOne}
      BY <1>0 DEF PrivateInv, UseShape
    <3>3. Received(i) \notin Unused /\ Received(i) # s
      BY <3>2, <1>3 DEF PrivateInv, UseShape, Unused, Busy
    <3> QED BY <3>1, <3>3
  <2> QED BY <2>1, <2>2, <2>3
<1>6. box.lastQueued = Received(k)
  BY <1>0 DEF PrivateInv, WaitingShape
<1>7. FreeShape'
  <2>1. \A t \in Unused : link'[t] = link[t]
    BY <1>0, <1>2, <1>3, <1>5, <1>6, SMTT(30) DEF PrivateInv, PrivateTypeOK, Unused
  <2>2. ASSUME NEW i \in 1 .. box.available - 1 PROVE free[i + 1] = link'[free[i]]
    <3>1. i \in 1 .. box.available
      BY DEF PrivateInv, PrivateTypeOK
    <3>2. free[i] \in Unused
      BY <1>1, <3>1 DEF FreeLinked
    <3> QED BY <1>1, <2>1, <3>2 DEF FreeLinked
  <2>3. FreeLinked(free)'
    BY <1>1, <1>3, <1>5, <2>2 DEF FreeLinked
  <2> QED BY <2>3 DEF FreeShape
<1>8. WaitingShape'
  <2>1. ASSUME NEW i \in 0 .. k + 1, NEW j \in 0 .. k + 1, Received(i)' = Received(j)'
        PROVE  i = j
    <3>1. CASE i = k + 1
      BY <1>0, <1>2, <1>5, <2>1, <3>1
    <3>2. CASE j = k + 1
      BY <1>0, <1>2, <1>5, <2>1, <3>2
    <3>3. CASE i \in 0 .. k /\ j \in 0 .. k
      BY <1>0, <1>5, <2>1, <3>3 DEF PrivateInv, WaitingShape
    <3> QED BY <1>0, <1>2, <3>1, <3>2, <3>3
  <2>2. ASSUME NEW i \in 1 .. k + 1 PROVE waiting'[i] = link'[Received(i - 1)']
    <3>1. CASE i = k + 1
      <4>1. Received(i - 1)' = box.lastQueued
        BY <1>0, <1>2, <1>5, <1>6, <3>1
      <4> QED BY <1>0, <1>2, <1>3, <3>1, <4>1 DEF PrivateInv, PrivateTypeOK
    <3>2. CASE i \in 1 .. k
      <4>1. i - 1 \in 0 .. k /\ i - 1 # k
        BY <1>0, <1>2, <3>2
      <4>2. Received(i - 1)' = Received(i - 1) /\ Received(i - 1) # Received(k)
        BY <1>0, <1>2, <1>5, <4>1 DEF PrivateInv, WaitingShape
      <4>3. link'[Received(i - 1)] = link[Received(i - 1)]
        BY <1>3, <1>5, <1>6, <4>1, <4>2 DEF PrivateInv, PrivateTypeOK
      <4> QED BY <1>0, <1>2, <3>2, <4>2, <4>3 DEF PrivateInv, WaitingShape
    <3> QED BY <1>0, <1>2, <3>1, <3>2
  <2>3. box'.received \in Messages
    BY <1>3 DEF PrivateInv, WaitingShape
  <2>4. box'.lastQueued = Received(k + 1)'
    BY <1>3, <1>5
  <2> QED BY <1>0, <1>2, <2>1, <2>2, <2>3, <2>4 DEF WaitingShape, Received
<1>9. UseShape'
  <2>1. {Received(i)' : i \in 0 .. k + 1} = {Received(i) : i \in 0 .. k} \cup {s}
    <3>1. 0 .. k + 1 = (0 .. k) \cup {k + 1}
      BY <1>2
    <3> QED BY <1>5, <3>1
  <2>2. held' = {Received(i)' : i \in 0 .. k + 1} \ {LastOne}
    BY <1>0, <1>3, <2>1 DEF PrivateInv, UseShape, Busy
  <2>3. held' = {Received(i) : i \in 0 .. Len(waiting)}' \ {LastOne}
    BY <1>0, <1>2, <2>2
  <2>4. s \notin wanted \cup doomed \cup {LastOne}
    BY <1>3 DEF PrivateInv, UseShape, Busy
  <2>5. /\ staged' \cap wanted' = {} /\ staged' \cap doomed' = {} /\ wanted' \cap doomed' = {}
        /\ doomed' \subseteq held' /\ held' \subseteq wanted' \cup doomed'
    BY <1>3, <2>4 DEF PrivateInv, UseShape
  <2>6. LastOne \notin Busy'
    BY <1>5 DEF PrivateInv, UseShape
  <2> QED BY <2>3, <2>5, <2>6 DEF UseShape
<1> QED BY <1>3, <1>4, <1>7, <1>8, <1>9 DEF PrivateInv

(* Giving a slot back: it becomes the first of the free list.              *)
LEMMA GivenBackLinked ==
  ASSUME PrivateInv, NEW s \in Messages, s \in Busy, UNCHANGED staged,
         (wanted \cup doomed)' = (wanted \cup doomed) \ {s}, s \notin staged,
         box'.available = box.available + 1, box'.nextFree = s,
         link' = LinkFree(s)
  PROVE  FreeShape'
<1> USE PrivateConst
<1>1. PICK free : FreeLinked(free)
  BY DEF PrivateInv, FreeShape
<1>2. PICK n : n = box.available
  OBVIOUS
<1>3. n \in Nat /\ box.nextFree \in Nat /\ link \in [Messages -> 0 .. SlotCount]
  BY <1>2 DEF PrivateInv, PrivateTypeOK
<1>4. PICK more : more = [i \in 1 .. n + 1 |-> IF i = 1 THEN s ELSE free[i - 1]]
  OBVIOUS
<1>5. Busy' = Busy \ {s} /\ Unused' = Unused \cup {s} /\ s \notin Unused
  BY DEF Busy, Unused, PrivateInv, UseShape
<1>6. more[1] = s /\ \A i \in 2 .. n + 1 : more[i] = free[i - 1] /\ i - 1 \in 1 .. n
  BY <1>3, <1>4
<1>7. \A i \in 1 .. n : free[i] \in Unused
  BY <1>1, <1>2 DEF FreeLinked
<1>8. \A i \in 1 .. n + 1 : i = 1 \/ i \in 2 .. n + 1
  BY <1>3
<1>9. more \in [1 .. n + 1 -> Unused']
  <2>1. \A i \in 1 .. n + 1 : more[i] \in Unused'
    BY <1>5, <1>6, <1>7, <1>8
  <2> QED BY <1>4, <2>1
<1>10. \A i, j \in 1 .. n + 1 : more[i] = more[j] => i = j
  <2> SUFFICES ASSUME NEW i \in 1 .. n + 1, NEW j \in 1 .. n + 1, more[i] = more[j]
               PROVE  i = j
    OBVIOUS
  <2>1. CASE i = 1 \/ j = 1
    BY <1>5, <1>6, <1>7, <1>8, <2>1
  <2>2. CASE i \in 2 .. n + 1 /\ j \in 2 .. n + 1
    <3>1. free[i - 1] = free[j - 1] /\ i - 1 \in 1 .. n /\ j - 1 \in 1 .. n
      BY <1>6, <2>2
    <3>2. i - 1 = j - 1
      BY <1>1, <1>2, <3>1 DEF FreeLinked
    <3> QED BY <3>2, <1>3
  <2> QED BY <1>8, <2>1, <2>2
<1>11. \A t \in Unused' : \E i \in 1 .. n + 1 : more[i] = t
  <2> SUFFICES ASSUME NEW t \in Unused' PROVE \E i \in 1 .. n + 1 : more[i] = t
    OBVIOUS
  <2>1. CASE t = s
    BY <1>3, <1>6, <2>1
  <2>2. CASE t \in Unused
    <3>1. PICK j \in 1 .. n : free[j] = t
      BY <1>1, <1>2, <2>2 DEF FreeLinked
    <3>2. j + 1 \in 2 .. n + 1 /\ j + 1 \in 1 .. n + 1 /\ j + 1 - 1 = j
      BY <1>3
    <3>3. more[j + 1] = t
      BY <1>6, <3>1, <3>2
    <3> QED BY <3>2, <3>3
  <2> QED BY <1>5, <2>1, <2>2
<1>12. ASSUME NEW i \in 1 .. n PROVE more[i + 1] = link'[more[i]]
  <2>1. i + 1 \in 2 .. n + 1 /\ i + 1 - 1 = i
    BY <1>3
  <2>2. more[i + 1] = free[i]
    BY <1>6, <2>1
  <2>3. CASE i = 1
    <3>1. link'[s] = box.nextFree
      BY <1>3 DEF LinkFree
    <3>2. free[1] = box.nextFree
      BY <1>1, <1>2, <1>3 DEF FreeLinked
    <3> QED BY <1>6, <2>2, <2>3, <3>1, <3>2
  <2>4. CASE i \in 2 .. n
    <3>1. more[i] = free[i - 1] /\ i - 1 \in 1 .. n - 1 /\ i - 1 \in 1 .. n /\ i - 1 + 1 = i
      BY <1>3, <1>6, <2>4
    <3>2. free[i] = link[free[i - 1]]
      BY <1>1, <1>2, <3>1 DEF FreeLinked
    <3>3. free[i - 1] \in Unused /\ free[i - 1] # s /\ free[i - 1] \in Messages
      BY <1>5, <1>7, <3>1 DEF Unused
    <3>4. link'[free[i - 1]] = link[free[i - 1]]
      BY <1>3, <3>3 DEF LinkFree
    <3> QED BY <2>2, <3>1, <3>2, <3>4
  <2> QED BY <1>3, <2>3, <2>4
<1>13. box'.available = n + 1 /\ box'.available - 1 = n
  BY <1>2, <1>3
<1>14. FreeLinked(more)'
  <2>1. more \in [1 .. box'.available -> Unused']
    BY <1>9, <1>13
  <2>2. \A i, j \in 1 .. box'.available : more[i] = more[j] => i = j
    BY <1>10, <1>13
  <2>3. \A t \in Unused' : \E i \in 1 .. box'.available : more[i] = t
    BY <1>11, <1>13
  <2>4. more[1] = box'.nextFree
    BY <1>6
  <2>5. \A i \in 1 .. box'.available - 1 : more[i + 1] = link'[more[i]]
    BY <1>12, <1>13
  <2>6. box'.available > 0 => more[1] = box'.nextFree
    BY <2>4
  <2> QED BY <2>1, <2>2, <2>3, <2>5, <2>6, Zenon DEF FreeLinked
<1> QED BY <1>14 DEF FreeShape

LEMMA CondemnKeeps ==
  ASSUME PrivateInv, NEW s \in Messages, CondemnPrivate(s) PROVE PrivateInv'
<1> USE PrivateConst
<1>1. /\ UNCHANGED <<staged, held, waiting, misread, polled>>
      /\ s \in wanted /\ wanted' = wanted \ {s} /\ s \in Busy /\ s \notin doomed
      /\ s \notin staged /\ s # LastOne
  BY DEF CondemnPrivate, PrivateInv, UseShape, Busy
<1>2. CASE s \in held
  <2>1. UNCHANGED <<box, link>> /\ doomed' = doomed \cup {s}
    BY <1>2 DEF CondemnPrivate, StillHeld
  <2>2. PrivateTypeOK'
    BY <1>1, <2>1 DEF PrivateInv, PrivateTypeOK
  <2>3. Busy' = Busy /\ Unused' = Unused
    BY <1>1, <2>1 DEF Busy, Unused
  <2>4. FreeShape'
    <3>1. PICK free : FreeLinked(free)
      BY DEF PrivateInv, FreeShape
    <3>2. FreeLinked(free)'
      BY <2>1, <2>3, <3>1 DEF FreeLinked
    <3> QED BY <3>2 DEF FreeShape
  <2>5. WaitingShape' /\ UseShape'
    BY <1>1, <1>2, <2>1, <2>3 DEF PrivateInv, WaitingShape, UseShape, Received
  <2> QED BY <1>1, <2>2, <2>4, <2>5 DEF PrivateInv
<1>3. CASE s \notin held
  <2>1. /\ UNCHANGED doomed /\ link' = LinkFree(s) /\ box' = GivenBack(box, s)
    BY <1>3 DEF CondemnPrivate, StillHeld
  <2>2. /\ box'.available = box.available + 1 /\ box'.nextFree = s
        /\ UNCHANGED <<box.queued, box.received, box.lastQueued, box.claimed>>
    BY <2>1 DEF GivenBack, PrivateInv, PrivateTypeOK
  <2>3. PrivateTypeOK'
    <3>1. box.available + 1 \in Nat /\ box.nextFree \in 0 .. SlotCount
      BY DEF PrivateInv, PrivateTypeOK
    <3> QED BY <1>1, <2>1, <3>1 DEF PrivateInv, PrivateTypeOK, GivenBack, LinkFree
  <2>4. FreeShape'
    BY <1>1, <2>1, <2>2, GivenBackLinked DEF PrivateInv, UseShape, Busy
  <2>5. WaitingShape'
    <3>1. \A i \in 0 .. Len(waiting) :
            Received(i)' = Received(i) /\ Received(i) # s /\ Received(i) \in Messages
      BY <1>1, <1>3, <2>2, SMTT(30) DEF PrivateInv, PrivateTypeOK, WaitingShape, UseShape, Received
    <3>2. \A i \in 1 .. Len(waiting) : link'[Received(i - 1)] = link[Received(i - 1)]
      BY <2>1, <3>1 DEF LinkFree, PrivateInv, PrivateTypeOK
    <3>3. \A i \in 1 .. Len(waiting) : Received(i - 1)' = Received(i - 1)
      BY <3>1
    <3> QED BY <1>1, <2>2, <3>1, <3>2, <3>3 DEF PrivateInv, WaitingShape
  <2>6. UseShape'
    BY <1>1, <1>3, <2>1, <2>2 DEF PrivateInv, UseShape, Received, Busy
  <2> QED BY <1>1, <2>3, <2>4, <2>5, <2>6 DEF PrivateInv
<1> QED BY <1>2, <1>3

LEMMA ReceiveKeeps ==
  ASSUME PrivateInv, ReceivePrivate PROVE PrivateInv'
<1> USE PrivateConst
<1>0. PICK k, last : k = Len(waiting) /\ last = box.received
  OBVIOUS
<1>1. /\ waiting \in Seq(Messages) /\ waiting # <<>> /\ k \in Nat \ {0}
      /\ waiting' = Tail(waiting) /\ waiting' \in Seq(Messages) /\ Len(waiting') = k - 1
      /\ \A i \in 1 .. k - 1 : waiting'[i] = waiting[i + 1]
  BY <1>0 DEF ReceivePrivate, PrivateInv, PrivateTypeOK
<1>2. link[last] = waiting[1] /\ waiting[1] \in Messages /\ last \in Messages
  BY <1>0, <1>1 DEF PrivateInv, WaitingShape, Received
<1>3. /\ UNCHANGED <<staged, wanted, polled>>
      /\ held' = held \ {last} /\ doomed' = doomed \ {last}
      /\ misread' = FALSE
  <2>1. Head(waiting) = waiting[1]
    BY <1>1
  <2>2. link[box.received] = waiting[1] /\ ~misread
    BY <1>0, <1>2 DEF PrivateInv
  <2>3. misread' = (misread \/ link[box.received] # Head(waiting))
    BY DEF ReceivePrivate
  <2>4. misread' = FALSE
    BY <2>1, <2>2, <2>3
  <2> QED BY <1>0, <2>4 DEF ReceivePrivate
<1>4. /\ box'.received = waiting[1]
      /\ UNCHANGED <<box.queued, box.lastQueued, box.claimed>>
  BY <1>0, <1>2 DEF ReceivePrivate, GivenBack, PrivateInv, PrivateTypeOK
<1>5. \A i \in 0 .. k - 1 : /\ Received(i)' = Received(i + 1) /\ Received(i + 1) # last
                            /\ Received(i + 1) = waiting[i + 1] /\ Received(i + 1) \in Messages
  <2> SUFFICES ASSUME NEW i \in 0 .. k - 1
               PROVE  /\ Received(i)' = Received(i + 1) /\ Received(i + 1) # last
                      /\ Received(i + 1) = waiting[i + 1] /\ Received(i + 1) \in Messages
    OBVIOUS
  <2>1. Received(i + 1) = waiting[i + 1] /\ i + 1 \in 1 .. k /\ Received(i + 1) \in Messages
    BY <1>0, <1>1 DEF Received
  <2>2. Received(i)' = Received(i + 1)
    BY <1>1, <1>4, <2>1 DEF Received
  <2>3. Received(0) = last
    BY <1>0 DEF Received
  <2>4. 0 \in 0 .. Len(waiting) /\ i + 1 \in 0 .. Len(waiting) /\ i + 1 # 0
    BY <1>0, <1>1
  <2>5. Received(i + 1) # Received(0)
    BY <2>4 DEF PrivateInv, WaitingShape
  <2> QED BY <2>1, <2>2, <2>3, <2>5
<1>6. /\ box' \in [available : Nat, queued : 0 .. MaxSends, nextFree : 0 .. SlotCount,
                   received : 0 .. SlotCount, lastQueued : Messages,
                   claimed : SUBSET {"sender", "receiver"}]
      /\ link' \in [Messages -> 0 .. SlotCount]
      /\ \A s \in Messages \ {last} : link'[s] = link[s]
      /\ last \notin doomed => UNCHANGED <<link, box.available, box.nextFree>>
      /\ last \in doomed => /\ box'.available = box.available + 1
                            /\ box'.nextFree = last /\ link' = LinkFree(last)
  <2>1. CASE last \in doomed
    <3>1. box' = GivenBack([box EXCEPT !.received = waiting[1]], last) /\ link' = LinkFree(last)
      BY <1>0, <1>2, <2>1 DEF ReceivePrivate
    <3>2. box.available + 1 \in Nat /\ box.nextFree \in 0 .. SlotCount
      BY DEF PrivateInv, PrivateTypeOK
    <3> QED BY <1>2, <2>1, <3>1, <3>2 DEF GivenBack, LinkFree, PrivateInv, PrivateTypeOK
  <2>2. CASE last \notin doomed
    <3>1. box' = [box EXCEPT !.received = waiting[1]] /\ UNCHANGED link
      BY <1>0, <1>2, <2>2 DEF ReceivePrivate
    <3> QED BY <1>2, <2>2, <3>1 DEF PrivateInv, PrivateTypeOK
  <2> QED BY <2>1, <2>2
<1>7. PrivateTypeOK'
  BY <1>1, <1>3, <1>6 DEF PrivateInv, PrivateTypeOK
<1>8. /\ last \in held \cup {LastOne}
      /\ last \in doomed => last \in Busy /\ last \notin staged \cup wanted
  <2>1. last = Received(0) /\ 0 \in 0 .. Len(waiting)
    BY <1>0, <1>1 DEF Received
  <2> QED BY <2>1 DEF PrivateInv, UseShape, Busy
<1>9. FreeShape'
  <2>1. CASE last \in doomed
    <3>1. (wanted \cup doomed)' = (wanted \cup doomed) \ {last} /\ UNCHANGED staged
      BY <1>3, <1>8, <2>1
    <3>2. /\ box'.available = box.available + 1 /\ box'.nextFree = last
          /\ link' = LinkFree(last)
      BY <1>6, <2>1
    <3> QED BY <1>2, <1>8, <2>1, <3>1, <3>2, GivenBackLinked
  <2>2. CASE last \notin doomed
    <3>1. PICK free : FreeLinked(free)
      BY DEF PrivateInv, FreeShape
    <3>2. UNCHANGED <<staged, wanted, doomed, link, box.available, box.nextFree>>
      BY <1>3, <1>6, <2>2
    <3>3. UNCHANGED Unused
      BY <3>2 DEF Unused, Busy
    <3>4. FreeLinked(free)'
      BY <3>1, <3>2, <3>3 DEF FreeLinked
    <3> QED BY <3>4 DEF FreeShape
  <2> QED BY <2>1, <2>2
<1>10. WaitingShape'
  <2>1. ASSUME NEW i \in 0 .. k - 1, NEW j \in 0 .. k - 1, Received(i)' = Received(j)'
        PROVE  i = j
    <3>1. Received(i + 1) = Received(j + 1)
      BY <1>5, <2>1
    <3>2. i + 1 \in 0 .. Len(waiting) /\ j + 1 \in 0 .. Len(waiting)
      BY <1>0, <1>1
    <3>3. i + 1 = j + 1
      BY <3>1, <3>2 DEF PrivateInv, WaitingShape
    <3> QED BY <3>3, <1>1
  <2>2. ASSUME NEW i \in 1 .. k - 1 PROVE waiting'[i] = link'[Received(i - 1)']
    <3>1. i - 1 \in 0 .. k - 1 /\ i + 1 \in 1 .. Len(waiting) /\ i - 1 + 1 = i /\ i + 1 - 1 = i
      BY <1>0, <1>1
    <3>2. Received(i - 1)' = Received(i) /\ Received(i) # last /\ Received(i) \in Messages
      BY <1>5, <3>1
    <3>3. waiting[i + 1] = link[Received(i)]
      BY <3>1 DEF PrivateInv, WaitingShape
    <3> QED BY <1>1, <1>6, <3>2, <3>3
  <2>3. box'.received \in Messages
    BY <1>2, <1>4
  <2>4. box'.lastQueued = Received(k - 1)'
    <3>1. k - 1 \in 0 .. k - 1 /\ k - 1 + 1 = k
      BY <1>1
    <3>2. Received(k - 1)' = Received(k) /\ box.lastQueued = Received(k)
      BY <1>0, <1>5, <3>1 DEF PrivateInv, WaitingShape
    <3> QED BY <1>4, <3>2
  <2> QED BY <1>1, <2>1, <2>2, <2>3, <2>4 DEF WaitingShape
<1>11. UseShape'
  <2>1. {Received(i)' : i \in 0 .. k - 1} = {Received(i) : i \in 0 .. k} \ {last}
    <3>1. Received(0) = last
      BY <1>0 DEF Received
    <3>2. \A i \in 0 .. k : i = 0 \/ (i - 1 \in 0 .. k - 1 /\ i - 1 + 1 = i)
      BY <1>1
    <3>3. \A i \in 0 .. k - 1 : i + 1 \in 0 .. k
      BY <1>1
    <3> QED BY <1>5, <3>1, <3>2, <3>3
  <2>2. held' = {Received(i)' : i \in 0 .. k - 1} \ {LastOne}
    BY <1>0, <1>3, <2>1 DEF PrivateInv, UseShape
  <2>3. held' = {Received(i) : i \in 0 .. Len(waiting)}' \ {LastOne}
    BY <1>1, <2>2
  <2>4. /\ LastOne \notin Busy'
        /\ staged' \cap wanted' = {} /\ staged' \cap doomed' = {} /\ wanted' \cap doomed' = {}
        /\ doomed' \subseteq held' /\ held' \subseteq wanted' \cup doomed'
    BY <1>3 DEF PrivateInv, UseShape, Busy
  <2> QED BY <2>3, <2>4 DEF UseShape
<1> QED BY <1>3, <1>7, <1>9, <1>10, <1>11 DEF PrivateInv

LEMMA PrivateStep == PrivateInv /\ [PrivateNext]_privateVars => PrivateInv'
<1> SUFFICES ASSUME PrivateInv, [PrivateNext]_privateVars PROVE PrivateInv'
  OBVIOUS
<1>1. CASE \E role \in {"sender", "receiver"} : Attach(role) \/ Detach(role)
  BY <1>1, AttachKeeps
<1>2. CASE AcquirePrivate
  BY <1>2, AcquireKeeps
<1>3. CASE ReceivePrivate
  BY <1>3, ReceiveKeeps
<1>4. CASE UNCHANGED <<box, link, staged, held, wanted, doomed, waiting, misread>>
           /\ polled' \in BOOLEAN
  <2>1. PrivateTypeOK' /\ WaitingShape' /\ UseShape' /\ misread' = misread
    BY <1>4 DEF PrivateInv, PrivateTypeOK, WaitingShape, UseShape, Received, Busy
  <2>2. PICK free : FreeLinked(free)
    BY DEF PrivateInv, FreeShape
  <2>3. FreeLinked(free)'
    BY <1>4, <2>2 DEF FreeLinked, Unused, Busy
  <2> QED BY <2>1, <2>3 DEF PrivateInv, FreeShape
<1>5. CASE \E s \in Messages : SendPrivate(s) \/ CondemnPrivate(s)
  BY <1>5, SendKeeps, CondemnKeeps
<1>6. CASE PollPrivate
  BY <1>4, <1>6 DEF PollPrivate
<1>7. CASE UNCHANGED privateVars
  BY <1>4, <1>7 DEF privateVars, PrivateInv, PrivateTypeOK
<1> QED BY <1>1, <1>2, <1>3, <1>5, <1>6, <1>7 DEF PrivateNext

\* The free list is as long as the slots that nobody has are many.
LEMMA UnusedCounted ==
  ASSUME PrivateInv
  PROVE  box.available + Cardinality(Busy) = SlotCount - 1
<1> USE PrivateConst
<1>1. PICK free : FreeLinked(free)
  BY DEF PrivateInv, FreeShape
<1>2. PICK n \in Nat : n = box.available
  BY DEF PrivateInv, PrivateTypeOK
<1>3. IsFiniteSet(Messages) /\ Cardinality(Messages) = SlotCount
  BY FS_Interval DEF Messages
<1>4. Cardinality(Unused) = n
  <2>1. free \in Bijection(1 .. n, Unused)
    <3>1. free \in [1 .. n -> Unused]
      BY <1>1, <1>2 DEF FreeLinked
    <3>2. \A i, j \in 1 .. n : free[i] = free[j] => i = j
      BY <1>1, <1>2 DEF FreeLinked
    <3>3. \A s \in Unused : \E i \in 1 .. n : free[i] = s
      BY <1>1, <1>2 DEF FreeLinked
    <3> QED BY <3>1, <3>2, <3>3 DEF Bijection, Injection, Surjection, IsInjective
  <2>2. IsFiniteSet(1 .. n) /\ Cardinality(1 .. n) = n
    BY FS_Interval
  <2> QED BY <2>1, <2>2, FS_Bijection DEF ExistsBijection
<1>5. /\ Busy \subseteq Messages /\ IsFiniteSet(Busy) /\ Cardinality(Busy) \in Nat
  <2>1. Busy \in SUBSET Messages
    BY DEF Busy, PrivateInv, PrivateTypeOK
  <2> QED BY <1>3, <2>1, FS_Subset, FS_CardinalityType
<1>6. Cardinality(Busy \cup {LastOne}) = Cardinality(Busy) + 1
  BY <1>5, FS_AddElement DEF PrivateInv, UseShape
<1>7. Cardinality(Unused) = SlotCount - Cardinality(Busy \cup {LastOne})
  <2>1. Messages \cap (Busy \cup {LastOne}) = Busy \cup {LastOne}
    BY <1>5
  <2> QED BY <1>3, <2>1, FS_Difference DEF Unused
<1> QED BY <1>2, <1>4, <1>5, <1>6, <1>7

(* The private mailbox returns messages in the order in which they were    *)
(* sent and keeps its free list, for every number of slots and of sends.   *)
THEOREM PrivateInOrderCorrect == PrivateSpec => []PrivateInOrder
<1>1. PrivateInv => PrivateInOrder
  <2> SUFFICES ASSUME PrivateInv PROVE PrivateInOrder OBVIOUS
  <2>1. PICK free : FreeLinked(free)
    BY DEF PrivateInv, FreeShape
  <2>2. /\ free \in [1 .. box.available -> Messages \ Busy]
        /\ \A i, j \in DOMAIN free : free[i] = free[j] => i = j
        /\ box.available > 0 => free[1] = box.nextFree
        /\ \A i \in 1 .. box.available - 1 : free[i + 1] = link[free[i]]
    BY <2>1 DEF FreeLinked, Unused
  <2>3. ~misread
    BY DEF PrivateInv
  <2> QED BY <2>2, <2>3, UnusedCounted DEF PrivateInOrder
<1> QED BY <1>1, PrivateStarts, PrivateStep, PTL DEF PrivateSpec

(* The fields of the private mailbox keep their types.                     *)
THEOREM PrivateTypeCorrect == PrivateSpec => []PrivateTypeOK
<1>1. PrivateInv => PrivateTypeOK
  BY DEF PrivateInv
<1> QED BY <1>1, PrivateStarts, PrivateStep, PTL DEF PrivateSpec
----------------------------------------------------------------------------
(* The dictionary                                                          *)

Tables(n) == [0 .. n - 1 -> Keys \cup {Hole, Tombstone}]
Full(t)   == {b \in Buckets(t) : t[b] \in Keys}
Tombs(t)  == {b \in Buckets(t) : t[b] = Tombstone}
InTable(t, key) == \E b \in Buckets(t) : t[b] = key

\* No hole comes before the bucket on the way of the key to it.
OnTheWay(t, key, b) ==
  \E i \in Buckets(t) : /\ Probed(t, key, i) = b
                        /\ \A j \in 0 .. i - 1 : t[Probed(t, key, j)] # Hole

(* A table in which every search ends as it should, if there is a hole.    *)
Sound(t, n) ==
  /\ n \in Nat \ {0} /\ PowerOfTwo(n) /\ t \in Tables(n)
  /\ \A b \in Full(t) : OnTheWay(t, t[b], b)
  /\ \A b, c \in Full(t) : t[b] = t[c] => b = c

HasHole(t) == InTable(t, Hole)

LEMMA DictConst ==
  /\ IsFiniteSet(Keys) /\ Hole \notin Keys /\ Tombstone \notin Keys /\ Hole # Tombstone
  /\ Hash \in [Keys -> Nat]
BY KeyAssumption DEF Hole, Tombstone

LEMMA TableIs ==
  ASSUME NEW n \in Nat \ {0}, NEW t \in Tables(n), NEW key \in Keys
  PROVE  /\ Buckets(t) = 0 .. n - 1 /\ Size(t) = n
         /\ \A i \in Nat : /\ Probed(t, key, i) = (Hash[key] + Triangle(i)) % n
                           /\ Probed(t, key, i) \in 0 .. n - 1
<1>1. Buckets(t) = 0 .. n - 1
  BY DEF Buckets, Tables
<1>2. Size(t) = n
  BY <1>1, FS_Interval DEF Size
<1>3. ASSUME NEW i \in Nat
      PROVE  /\ Probed(t, key, i) = (Hash[key] + Triangle(i)) % n
             /\ Probed(t, key, i) \in 0 .. n - 1
  <2>1. Probed(t, key, i) = (Hash[key] + Triangle(i)) % n
    BY <1>2 DEF Probed
  <2>2. Hash[key] + Triangle(i) \in Nat
    BY DictConst, TriangleIs
  <2>3. \A a \in Nat : a % n \in 0 .. n - 1
    OBVIOUS
  <2> QED BY <2>1, <2>2, <2>3
<1> QED BY <1>1, <1>2, <1>3

\* The buckets probed are distinct, so all of them are probed.
LEMMA AllProbed ==
  ASSUME NEW n \in Nat \ {0}, PowerOfTwo(n), NEW t \in Tables(n), NEW key \in Keys
  PROVE  /\ \A i, j \in 0 .. n - 1 : Probed(t, key, i) = Probed(t, key, j) => i = j
         /\ \A b \in 0 .. n - 1 : \E i \in 0 .. n - 1 : Probed(t, key, i) = b
<1>1. PICK h \in Nat : h = Hash[key]
  BY DictConst
<1>2. \A i \in 0 .. n - 1 : /\ Probed(t, key, i) = (h + Triangle(i)) % n
                            /\ Probed(t, key, i) \in 0 .. n - 1
  BY <1>1, TableIs
<1>3. \A i, j \in 0 .. n - 1 : Probed(t, key, i) = Probed(t, key, j) => i = j
  BY <1>2, ProbesApart
<1>4. PICK f : f = [i \in 0 .. n - 1 |-> Probed(t, key, i)]
  OBVIOUS
<1>5. f \in Injection(0 .. n - 1, 0 .. n - 1)
  BY <1>2, <1>3, <1>4 DEF Injection, IsInjective
<1>6. IsFiniteSet(0 .. n - 1)
  BY FS_Interval
<1>7. f \in Surjection(0 .. n - 1, 0 .. n - 1)
  BY <1>5, <1>6, FS_Injection
<1>8. \A b \in 0 .. n - 1 : \E i \in 0 .. n - 1 : f[i] = b
  BY <1>7 DEF Surjection
<1> QED BY <1>3, <1>4, <1>8

LEMMA LeastIs ==
  ASSUME NEW S \in SUBSET Nat, S # {}
  PROVE  Least(S) \in S /\ \A j \in S : Least(S) <= j
BY LeastNat DEF Least

\* A search stops at the key or at the first hole, and nothing before it is either.
LEMMA SearchStops ==
  ASSUME NEW n, NEW t, Sound(t, n), HasHole(t), NEW key \in Keys,
         NEW stop, stop = Least(Stops(t, key))
  PROVE  /\ stop \in Stops(t, key) /\ stop \in 0 .. n - 1
         /\ t[Probed(t, key, stop)] = IF InTable(t, key) THEN key ELSE Hole
         /\ \A j \in 0 .. stop - 1 : t[Probed(t, key, j)] \notin {Hole, key}
<1>1. /\ n \in Nat \ {0} /\ PowerOfTwo(n) /\ t \in Tables(n)
      /\ Buckets(t) = 0 .. n - 1
  BY TableIs DEF Sound
<1>2. Stops(t, key) # {} /\ Stops(t, key) \in SUBSET Nat
  <2>1. PICK b \in 0 .. n - 1 : t[b] = Hole
    BY <1>1 DEF HasHole, InTable
  <2>2. PICK i \in 0 .. n - 1 : Probed(t, key, i) = b
    BY <1>1, AllProbed
  <2>3. i \in Stops(t, key)
    BY <1>1, <2>1, <2>2 DEF Stops
  <2>4. Stops(t, key) \subseteq 0 .. n - 1
    BY <1>1 DEF Stops
  <2> QED BY <2>3, <2>4
<1>3. stop \in Stops(t, key) /\ \A j \in Stops(t, key) : stop <= j
  BY <1>2, LeastIs
<1>4. stop \in 0 .. n - 1 /\ t[Probed(t, key, stop)] \in {Hole, key}
  BY <1>1, <1>3 DEF Stops
<1>5. ASSUME NEW j \in 0 .. stop - 1 PROVE t[Probed(t, key, j)] \notin {Hole, key}
  <2>1. j \in 0 .. n - 1 /\ ~(stop <= j)
    BY <1>1, <1>4
  <2>2. j \notin Stops(t, key)
    BY <1>3, <2>1
  <2> QED BY <1>1, <2>1, <2>2 DEF Stops
<1>6. CASE InTable(t, key)
  <2>1. PICK b \in 0 .. n - 1 : t[b] = key
    BY <1>1, <1>6 DEF InTable
  <2>2. PICK i \in 0 .. n - 1 : /\ Probed(t, key, i) = b
                                /\ \A j \in 0 .. i - 1 : t[Probed(t, key, j)] # Hole
    BY <1>1, <2>1 DEF Sound, Full, OnTheWay
  <2>3. i \in Stops(t, key)
    BY <1>1, <2>1, <2>2 DEF Stops
  <2>4. stop <= i
    BY <1>3, <2>3
  <2>5. CASE stop = i
    BY <1>3, <1>4, <1>5, <1>6, <2>1, <2>2, <2>5
  <2>6. CASE stop < i
    <3>1. stop \in 0 .. i - 1
      BY <1>1, <1>4, <2>6
    <3>2. t[Probed(t, key, stop)] = key
      BY <1>4, <2>2, <3>1
    <3> QED BY <1>3, <1>4, <1>5, <1>6, <3>2
  <2> QED BY <1>1, <1>4, <2>4, <2>5, <2>6
<1>7. CASE ~InTable(t, key)
  <2>1. Probed(t, key, stop) \in Buckets(t)
    BY <1>1, <1>4, TableIs
  <2>2. t[Probed(t, key, stop)] # key
    BY <1>7, <2>1 DEF InTable
  <2> QED BY <1>3, <1>4, <1>5, <1>7, <2>2
<1> QED BY <1>6, <1>7

\* find_key finds the key if it is there, and only then.
LEMMA FindKeyIs ==
  ASSUME NEW n, NEW t, Sound(t, n), HasHole(t), NEW key \in Keys
  PROVE  /\ InTable(t, key) <=> FindKey(t, key) # {}
         /\ \A b \in FindKey(t, key) : b \in Buckets(t) /\ t[b] = key
<1>1. PICK stop : stop = Least(Stops(t, key))
  OBVIOUS
<1>2. /\ stop \in Stops(t, key) /\ stop \in 0 .. n - 1
      /\ t[Probed(t, key, stop)] = IF InTable(t, key) THEN key ELSE Hole
  BY <1>1, SearchStops
<1>3. n \in Nat \ {0} /\ t \in Tables(n)
  BY DEF Sound
<1>4. Probed(t, key, stop) \in Buckets(t)
  BY <1>2, <1>3, TableIs
<1>5. key # Hole
  BY DictConst
<1>6. FindKey(t, key) = IF InTable(t, key) THEN {Probed(t, key, stop)} ELSE {}
  BY <1>1, <1>2, <1>5 DEF FindKey
<1> QED BY <1>2, <1>4, <1>6

\* lookup_bucket_for finds the key, or else a bucket to put it in.
LEMMA LookupIs ==
  ASSUME NEW n, NEW t, Sound(t, n), HasHole(t), NEW key \in Keys,
         NEW b, b = LookupBucketFor(t, key)
  PROVE  /\ b \in Buckets(t)
         /\ InTable(t, key) => t[b] = key
         /\ ~InTable(t, key) => t[b] \in {Hole, Tombstone} /\ OnTheWay(t, key, b)
<1>1. PICK stop : stop = Least(Stops(t, key))
  OBVIOUS
<1>2. /\ stop \in 0 .. n - 1
      /\ t[Probed(t, key, stop)] = IF InTable(t, key) THEN key ELSE Hole
      /\ \A j \in 0 .. stop - 1 : t[Probed(t, key, j)] \notin {Hole, key}
  BY <1>1, SearchStops
<1>3. n \in Nat \ {0} /\ t \in Tables(n) /\ Buckets(t) = 0 .. n - 1
  BY TableIs DEF Sound
<1>4. PICK tombs : tombs = {i \in 0 .. stop : t[Probed(t, key, i)] = Tombstone}
  OBVIOUS
<1>5. b = IF t[Probed(t, key, stop)] = Hole /\ tombs # {}
          THEN Probed(t, key, Least(tombs)) ELSE Probed(t, key, stop)
  BY <1>1, <1>4 DEF LookupBucketFor
<1>6. CASE InTable(t, key)
  BY <1>2, <1>3, <1>5, <1>6, TableIs, DictConst, SMTT(30)
<1>7. CASE ~InTable(t, key) /\ tombs = {}
  <2>1. b = Probed(t, key, stop) /\ t[b] = Hole
    BY <1>2, <1>5, <1>7
  <2>2. b \in Buckets(t)
    BY <1>2, <1>3, <2>1, TableIs
  <2>3. OnTheWay(t, key, b)
    BY <1>2, <1>3, <2>1 DEF OnTheWay
  <2> QED BY <1>7, <2>1, <2>2, <2>3
<1>8. CASE ~InTable(t, key) /\ tombs # {}
  <2>1. PICK i : i = Least(tombs)
    OBVIOUS
  <2>2. i \in tombs
    <3>1. tombs \in SUBSET Nat
      BY <1>4
    <3> QED BY <1>8, <2>1, <3>1, LeastIs
  <2>3. i \in 0 .. stop /\ i \in Buckets(t) /\ t[Probed(t, key, i)] = Tombstone
    BY <1>2, <1>3, <1>4, <2>2
  <2>4. b = Probed(t, key, i) /\ t[b] = Tombstone
    BY <1>2, <1>5, <1>8, <2>1, <2>3
  <2>5. b \in Buckets(t)
    BY <1>3, <2>3, <2>4, TableIs
  <2>6. \A j \in 0 .. i - 1 : t[Probed(t, key, j)] # Hole
    BY <1>2, <1>3, <2>3
  <2>7. OnTheWay(t, key, b)
    BY <2>3, <2>4, <2>6 DEF OnTheWay
  <2> QED BY <1>8, <2>4, <2>5, <2>7
<1> QED BY <1>6, <1>7, <1>8

\* Filling the bucket found for a key that is not in the table.
Filled(t, b, key) == [t EXCEPT ![b] = key]

LEMMA FillKeeps ==
  ASSUME NEW n, NEW t, Sound(t, n), HasHole(t), NEW key \in Keys, ~InTable(t, key),
         NEW b, b = LookupBucketFor(t, key),
         NEW u, u = Filled(t, b, key)
  PROVE  /\ Sound(u, n) /\ b \in Buckets(t)
         /\ Full(u) = Full(t) \cup {b} /\ b \notin Full(t)
         /\ Tombs(u) = Tombs(t) \ {b} /\ t[b] \in {Hole, Tombstone}
         /\ \A k \in Keys : InTable(u, k) <=> InTable(t, k) \/ k = key
<1>1. /\ n \in Nat \ {0} /\ PowerOfTwo(n) /\ t \in Tables(n) /\ Buckets(t) = 0 .. n - 1
  BY TableIs DEF Sound
<1>2. /\ b \in Buckets(t) /\ t[b] \in {Hole, Tombstone} /\ OnTheWay(t, key, b)
  BY LookupIs
<1>3. u \in Tables(n) /\ Buckets(u) = Buckets(t) /\ u[b] = key
      /\ \A c \in Buckets(t) \ {b} : u[c] = t[c]
  BY <1>1, <1>2 DEF Tables, Buckets, Filled
<1>4. key # Hole /\ key # Tombstone /\ t[b] \notin Keys
  BY <1>2, DictConst
<1>5. Full(u) = Full(t) \cup {b} /\ b \notin Full(t)
  BY <1>2, <1>3, <1>4 DEF Full
<1>6. Tombs(u) = Tombs(t) \ {b}
  BY <1>2, <1>3, <1>4 DEF Tombs
<1>7. \A k \in Keys : InTable(u, k) <=> InTable(t, k) \/ k = key
  <2> SUFFICES ASSUME NEW k \in Keys PROVE InTable(u, k) <=> InTable(t, k) \/ k = key
    OBVIOUS
  <2>1. t[b] # k
    BY <1>4
  <2> QED BY <1>2, <1>3, <2>1 DEF InTable
<1>8. ASSUME NEW k \in Keys, NEW c, OnTheWay(t, k, c) PROVE OnTheWay(u, k, c)
  <2>1. PICK i \in 0 .. n - 1 : /\ Probed(t, k, i) = c
                                /\ \A j \in 0 .. i - 1 : t[Probed(t, k, j)] # Hole
    BY <1>1, <1>8 DEF OnTheWay
  <2>2. \A j \in Nat : Probed(u, k, j) = Probed(t, k, j) /\ Probed(t, k, j) \in Buckets(t)
    <3>1. \A j \in Nat : /\ Probed(t, k, j) = (Hash[k] + Triangle(j)) % n
                         /\ Probed(t, k, j) \in 0 .. n - 1
      BY <1>1, TableIs
    <3>2. u \in Tables(n)
      BY <1>3
    <3>3. \A j \in Nat : Probed(u, k, j) = (Hash[k] + Triangle(j)) % n
      BY <1>1, <3>2, TableIs
    <3> QED BY <1>1, <3>1, <3>3
  <2>3. \A c2 \in Buckets(t) : t[c2] # Hole => u[c2] # Hole
    BY <1>3, <1>4
  <2>4. \A j \in 0 .. i - 1 : u[Probed(u, k, j)] # Hole
    <3>1. \A j \in 0 .. i - 1 : j \in Nat
      OBVIOUS
    <3> QED BY <2>1, <2>2, <2>3, <3>1
  <2>5. i \in Buckets(u) /\ Probed(u, k, i) = c
    <3>1. i \in Nat
      OBVIOUS
    <3> QED BY <1>1, <1>3, <2>1, <2>2, <3>1
  <2> QED BY <2>4, <2>5 DEF OnTheWay
<1>9. ASSUME NEW c \in Full(u) PROVE OnTheWay(u, u[c], c)
  <2>1. CASE c = b
    BY <1>2, <1>3, <1>8, <2>1
  <2>2. CASE c # b
    <3>1. c \in Full(t) /\ u[c] = t[c] /\ t[c] \in Keys
      BY <1>3, <1>5, <2>2 DEF Full
    <3> QED BY <1>8, <3>1 DEF Sound
  <2> QED BY <2>1, <2>2
<1>10. ASSUME NEW c \in Full(u), NEW d \in Full(u), u[c] = u[d] PROVE c = d
  <2>1. \A e \in Full(t) : e \in Buckets(t) /\ u[e] = t[e] /\ t[e] # key
    <3>1. \A e \in Full(t) : e \in Buckets(t) /\ e # b
      BY <1>5 DEF Full
    <3> QED BY <1>3, <3>1 DEF InTable
  <2> QED BY <1>3, <1>5, <1>10, <2>1 DEF Sound
<1> QED BY <1>1, <1>2, <1>3, <1>5, <1>6, <1>7, <1>9, <1>10 DEF Sound

\* A key's bucket becomes a tombstone, which stops no search.
Buried(t, b) == [t EXCEPT ![b] = Tombstone]

LEMMA BuryKeeps ==
  ASSUME NEW n, NEW t, Sound(t, n), NEW b \in Full(t),
         NEW u, u = Buried(t, b)
  PROVE  /\ Sound(u, n)
         /\ Full(u) = Full(t) \ {b} /\ Tombs(u) = Tombs(t) \cup {b} /\ b \notin Tombs(t)
         /\ \A k \in Keys : InTable(u, k) <=> InTable(t, k) /\ k # t[b]
<1>1. /\ n \in Nat \ {0} /\ PowerOfTwo(n) /\ t \in Tables(n) /\ Buckets(t) = 0 .. n - 1
  <2>1. PICK key : key \in Keys
    BY DEF Full
  <2> QED BY <2>1, TableIs DEF Sound
<1>2. b \in Buckets(t) /\ t[b] \in Keys
  BY DEF Full
<1>3. u \in Tables(n) /\ Buckets(u) = Buckets(t) /\ u[b] = Tombstone
      /\ \A c \in Buckets(t) \ {b} : u[c] = t[c]
  BY <1>1, <1>2 DEF Tables, Buckets, Buried
<1>4. Full(u) = Full(t) \ {b} /\ Tombs(u) = Tombs(t) \cup {b} /\ b \notin Tombs(t)
  BY <1>2, <1>3, DictConst DEF Full, Tombs
<1>5. \A k \in Keys : InTable(u, k) <=> InTable(t, k) /\ k # t[b]
  <2> SUFFICES ASSUME NEW k \in Keys PROVE InTable(u, k) <=> InTable(t, k) /\ k # t[b]
    OBVIOUS
  <2>1. k # Tombstone
    BY DictConst
  <2>2. \A c \in Buckets(t) : t[c] = k => c \in Full(t)
    BY DEF Full
  <2>3. \A c \in Buckets(t) : t[c] = k /\ k = t[b] => c = b
    BY <2>2 DEF Sound
  <2> QED BY <1>2, <1>3, <2>1, <2>3 DEF InTable
<1>6. ASSUME NEW c \in Full(u) PROVE OnTheWay(u, u[c], c)
  <2>1. c \in Full(t) /\ u[c] = t[c] /\ t[c] \in Keys
    BY <1>3, <1>4 DEF Full
  <2>2. PICK i \in 0 .. n - 1 : /\ Probed(t, t[c], i) = c
                                /\ \A j \in 0 .. i - 1 : t[Probed(t, t[c], j)] # Hole
    BY <1>1, <2>1 DEF Sound, OnTheWay
  <2>3. \A j \in Nat : /\ Probed(u, t[c], j) = Probed(t, t[c], j)
                       /\ Probed(t, t[c], j) \in Buckets(t)
    BY <1>1, <1>3, <2>1, TableIs
  <2>4. \A c2 \in Buckets(t) : t[c2] # Hole => u[c2] # Hole
    BY <1>3, DictConst
  <2>5. \A j \in 0 .. i - 1 : u[Probed(u, t[c], j)] # Hole
    <3>1. \A j \in 0 .. i - 1 : j \in Nat
      OBVIOUS
    <3> QED BY <2>2, <2>3, <2>4, <3>1
  <2>6. i \in Buckets(u) /\ Probed(u, t[c], i) = c
    <3>1. i \in Nat
      OBVIOUS
    <3> QED BY <1>1, <1>3, <2>2, <2>3, <3>1
  <2> QED BY <2>1, <2>5, <2>6 DEF OnTheWay
<1>7. ASSUME NEW c \in Full(u), NEW d \in Full(u), u[c] = u[d] PROVE c = d
  <2>1. \A e \in Full(u) : e \in Full(t) /\ u[e] = t[e]
    BY <1>3, <1>4 DEF Full
  <2> QED BY <1>7, <2>1 DEF Sound
<1> QED BY <1>1, <1>3, <1>4, <1>5, <1>6, <1>7 DEF Sound

LEMMA EmptySound ==
  ASSUME NEW n \in Nat \ {0}, PowerOfTwo(n), NEW t, t = EmptyTable(n)
  PROVE  /\ Sound(t, n) /\ Full(t) = {} /\ Tombs(t) = {} /\ HasHole(t)
         /\ Buckets(t) = 0 .. n - 1
         /\ \A k \in Keys : ~InTable(t, k)
<1>1. t \in Tables(n) /\ Buckets(t) = 0 .. n - 1 /\ \A b \in 0 .. n - 1 : t[b] = Hole
  BY DEF EmptyTable, Tables, Buckets
<1>2. Full(t) = {} /\ Tombs(t) = {}
  BY <1>1, DictConst DEF Full, Tombs
<1>3. HasHole(t)
  BY <1>1 DEF HasHole, InTable
<1>4. \A k \in Keys : ~InTable(t, k)
  BY <1>1, DictConst DEF InTable
<1> QED BY <1>1, <1>2, <1>3, <1>4 DEF Sound

\* Buckets, filled or buried, can be counted; where there are more, there is a hole.
LEMMA Counted ==
  ASSUME NEW n, NEW t, Sound(t, n), NEW S \in SUBSET Buckets(t)
  PROVE  IsFiniteSet(S) /\ Cardinality(S) \in Nat /\ Cardinality(S) <= n
<1>1. n \in Nat /\ Buckets(t) = 0 .. n - 1
  BY DEF Sound, Tables, Buckets
<1>2. IsFiniteSet(Buckets(t)) /\ Cardinality(Buckets(t)) <= n
  <2>1. 0 \in Int /\ n - 1 \in Int
    BY <1>1
  <2>2. /\ IsFiniteSet(0 .. n - 1)
        /\ Cardinality(0 .. n - 1) = IF 0 > n - 1 THEN 0 ELSE (n - 1) - 0 + 1
    BY <2>1, FS_Interval
  <2>3. (IF 0 > n - 1 THEN 0 ELSE (n - 1) - 0 + 1) <= n
    BY <1>1
  <2> QED
    BY <1>1, <2>2, <2>3
<1> QED BY <1>1, <1>2, FS_Subset, FS_CardinalityType

LEMMA RoomLeft ==
  ASSUME NEW n, NEW t, Sound(t, n), Cardinality(Full(t)) + Cardinality(Tombs(t)) < n
  PROVE  HasHole(t)
<1> SUFFICES ASSUME ~HasHole(t) PROVE FALSE
  OBVIOUS
<1>1. n \in Nat \ {0} /\ t \in Tables(n) /\ Buckets(t) = 0 .. n - 1
  BY DEF Sound, Tables, Buckets
<1>2. Buckets(t) = Full(t) \cup Tombs(t) /\ Full(t) \cap Tombs(t) = {}
  BY <1>1, DictConst DEF HasHole, InTable, Full, Tombs, Tables
<1>3. /\ IsFiniteSet(Full(t)) /\ IsFiniteSet(Tombs(t))
      /\ Cardinality(Full(t)) \in Nat /\ Cardinality(Tombs(t)) \in Nat
  BY Counted DEF Full, Tombs
<1>4. Cardinality(Buckets(t)) = Cardinality(Full(t)) + Cardinality(Tombs(t))
  <2>1. Cardinality(Full(t) \cup Tombs(t)) =
          Cardinality(Full(t)) + Cardinality(Tombs(t)) - Cardinality(Full(t) \cap Tombs(t))
    BY <1>3, FS_Union
  <2>2. Cardinality(Full(t) \cap Tombs(t)) = 0
    BY <1>2, FS_EmptySet
  <2> QED BY <1>2, <1>3, <2>1, <2>2
<1>5. Cardinality(Buckets(t)) = n
  BY <1>1, FS_Interval
<1> QED BY <1>1, <1>3, <1>4, <1>5

Iterates(f, e, step, m) == f[0] = e /\ \A i \in 1 .. m : f[i] = step[i][f[i - 1]]

LEMMA Iteration ==
  ASSUME NEW S, NEW e \in S, NEW step \in [Nat -> [S -> S]], NEW m \in Nat
  PROVE  \E f \in [0 .. m -> S] : Iterates(f, e, step, m)
<1> DEFINE Good == {k \in Nat : \E f \in [0 .. k -> S] :
                      f[0] = e /\ \A i \in 1 .. k : f[i] = step[i][f[i - 1]]}
<1>1. 0 \in Good
  <2>1. PICK f : f = [i \in 0 .. 0 |-> e]
    OBVIOUS
  <2>2. f \in [0 .. 0 -> S] /\ f[0] = e
    BY <2>1
  <2>3. \A i \in 1 .. 0 : f[i] = step[i][f[i - 1]]
    OBVIOUS
  <2> QED BY <2>2, <2>3
<1>2. ASSUME NEW k \in Nat, k \in Good PROVE k + 1 \in Good
  <2>1. PICK f \in [0 .. k -> S] :
          f[0] = e /\ \A i \in 1 .. k : f[i] = step[i][f[i - 1]]
    BY <1>2
  <2>2. PICK g : g = [i \in 0 .. k + 1 |-> IF i = k + 1 THEN step[k + 1][f[k]] ELSE f[i]]
    OBVIOUS
  <2>3. f[k] \in S /\ step[k + 1][f[k]] \in S
    OBVIOUS
  <2>4. g \in [0 .. k + 1 -> S]
    <3>1. \A i \in 0 .. k + 1 : i # k + 1 => f[i] \in S
      OBVIOUS
    <3> QED BY <2>2, <2>3, <3>1
  <2>5. g[0] = e
    BY <2>1, <2>2
  <2>6. ASSUME NEW i \in 1 .. k + 1 PROVE g[i] = step[i][g[i - 1]]
    <3>1. i - 1 \in 0 .. k /\ g[i - 1] = f[i - 1]
      BY <2>2
    <3>2. CASE i = k + 1
      <4>1. g[i] = step[k + 1][f[k]] /\ i - 1 = k
        BY <2>2, <3>2
      <4> QED BY <3>1, <3>2, <4>1
    <3>3. CASE i \in 1 .. k
      BY <2>1, <2>2, <3>1, <3>3
    <3> QED BY <3>2, <3>3
  <2> QED BY <2>4, <2>5, <2>6
<1> HIDE DEF Good
<1>3. m \in Good
  BY <1>1, <1>2, Induct
<1> QED BY <1>3 DEF Good, Iterates

\* The table after i of t's buckets were looked at, for each i.
LEMMA MovedSteps ==
  ASSUME NEW m, NEW t, Sound(t, m), NEW n \in Nat \ {0}
  PROVE  \E moved : /\ moved[0] = EmptyTable(n)
                    /\ \A i \in 1 .. m : moved[i] = Placed(moved[i - 1], t[i - 1])
                    /\ Moved(t, n) = moved[m]
<1> DEFINE Stepped(f) == [i \in 0 .. m |-> IF i = 0 THEN EmptyTable(n)
                                          ELSE Placed(f[i - 1], t[i - 1])]
<1>1. m \in Nat \ {0} /\ Size(t) = m
  <2>1. m \in Nat \ {0} /\ Buckets(t) = 0 .. m - 1
    BY DEF Sound, Tables, Buckets
  <2> QED BY <2>1, FS_Interval DEF Size
<1>2. PICK step : step = [i \in Nat |-> [new \in Tables(n) |-> Placed(new, t[i - 1])]]
  OBVIOUS
<1>3. \A new \in Tables(n) : \A x : Placed(new, x) \in Tables(n)
  BY DEF Tables, Placed
<1>4. step \in [Nat -> [Tables(n) -> Tables(n)]]
  BY <1>2, <1>3
<1>5. EmptyTable(n) \in Tables(n)
  BY DEF EmptyTable, Tables
<1>6. PICK f \in [0 .. m -> Tables(n)] :
        f[0] = EmptyTable(n) /\ \A i \in 1 .. m : f[i] = step[i][f[i - 1]]
  <2>1. m \in Nat
    BY <1>1
  <2>2. PICK S : S = Tables(n)
    OBVIOUS
  <2>3. PICK e : e = EmptyTable(n)
    OBVIOUS
  <2>4. e \in S /\ step \in [Nat -> [S -> S]]
    BY <1>4, <1>5, <2>2, <2>3
  <2>5. \E f \in [0 .. m -> S] : Iterates(f, e, step, m)
    BY <2>1, <2>4, Iteration
  <2> QED BY <2>2, <2>3, <2>5 DEF Iterates
<1>7. \A i \in 1 .. m : f[i] = Placed(f[i - 1], t[i - 1])
  <2> SUFFICES ASSUME NEW i \in 1 .. m PROVE f[i] = Placed(f[i - 1], t[i - 1])
    OBVIOUS
  <2>1. f[i - 1] \in Tables(n) /\ i \in Nat
    BY <1>1
  <2> QED BY <1>2, <1>6, <2>1
<1>8. f = Stepped(f)
  <2>1. \A i \in 0 .. m : f[i] = Stepped(f)[i]
    BY <1>1, <1>6, <1>7
  <2> QED BY <2>1
<1>9. PICK moved : moved = CHOOSE g : g = Stepped(g)
  OBVIOUS
<1>10. moved = Stepped(moved)
  <2> HIDE DEF Stepped
  <2> QED BY <1>8, <1>9
<1>11. Moved(t, n) = moved[m]
  BY <1>1, <1>9 DEF Moved
<1>12. moved[0] = EmptyTable(n) /\ \A i \in 1 .. m : moved[i] = Placed(moved[i - 1], t[i - 1])
  BY <1>1, <1>10
<1> QED BY <1>11, <1>12

\* Rehashing keeps the keys and leaves the tombstones behind.
LEMMA MovedIs ==
  ASSUME NEW m, NEW t, Sound(t, m), NEW n \in Nat \ {0}, PowerOfTwo(n),
         Cardinality(Full(t)) < n, NEW u, u = Moved(t, n)
  PROVE  /\ Sound(u, n) /\ Tombs(u) = {} /\ Cardinality(Full(u)) = Cardinality(Full(t))
         /\ \A k \in Keys : InTable(u, k) <=> InTable(t, k)
<1>1. PICK moved : /\ moved[0] = EmptyTable(n)
                   /\ \A i \in 1 .. m : moved[i] = Placed(moved[i - 1], t[i - 1])
                   /\ u = moved[m]
  BY MovedSteps
<1> DEFINE Before(i) == {b \in Full(t) : b < i}
           Good == {i \in Nat : i <= m =>
                      /\ Sound(moved[i], n) /\ Tombs(moved[i]) = {}
                      /\ Cardinality(Full(moved[i])) = Cardinality(Before(i))
                      /\ \A k \in Keys : InTable(moved[i], k) <=> \E b \in Before(i) : t[b] = k}
<1>2. m \in Nat \ {0} /\ Buckets(t) = 0 .. m - 1 /\ Full(t) \subseteq 0 .. m - 1
  BY DEF Sound, Tables, Buckets, Full
<1>3. 0 \in Good
  <2>1. Before(0) = {}
    BY <1>2
  <2>2. Sound(moved[0], n) /\ Tombs(moved[0]) = {} /\ Full(moved[0]) = {}
        /\ \A k \in Keys : ~InTable(moved[0], k)
    BY <1>1, EmptySound
  <2> HIDE DEF Before
  <2> QED BY <2>1, <2>2
<1>4. ASSUME NEW i \in Nat, i \in Good PROVE i + 1 \in Good
  <2> SUFFICES ASSUME i + 1 <= m
               PROVE  /\ Sound(moved[i + 1], n) /\ Tombs(moved[i + 1]) = {}
                      /\ Cardinality(Full(moved[i + 1])) = Cardinality(Before(i + 1))
                      /\ \A k \in Keys : InTable(moved[i + 1], k) <=>
                                           \E b \in Before(i + 1) : t[b] = k
    OBVIOUS
  <2>1. PICK old : old = moved[i]
    OBVIOUS
  <2>2. /\ Sound(old, n) /\ Tombs(old) = {} /\ Cardinality(Full(old)) = Cardinality(Before(i))
        /\ \A k \in Keys : InTable(old, k) <=> \E b \in Before(i) : t[b] = k
    BY <1>2, <1>4, <2>1
  <2>3. moved[i + 1] = Placed(old, t[i])
    BY <1>1, <1>2, <2>1
  <2>4. IsFiniteSet(Before(i)) /\ Cardinality(Before(i)) \in Nat
        /\ Cardinality(Before(i)) <= Cardinality(Full(t)) /\ Cardinality(Full(t)) \in Nat
    <3>1. IsFiniteSet(Full(t)) /\ Cardinality(Full(t)) \in Nat
      BY Counted DEF Full
    <3>2. Before(i) \in SUBSET Full(t)
      OBVIOUS
    <3> HIDE DEF Before
    <3> QED BY <3>1, <3>2, FS_Subset, FS_CardinalityType
  <2>5. CASE t[i] \in Keys
    <3>1. i \in Full(t) /\ i \notin Before(i) /\ Before(i + 1) = Before(i) \cup {i}
      <4>1. i \in Full(t)
        BY <1>2, <2>5 DEF Full
      <4>2. \A b \in 0 .. m - 1 : b < i + 1 <=> b < i \/ b = i
        OBVIOUS
      <4> QED BY <1>2, <4>1, <4>2
    <3>2. ~InTable(old, t[i])
      <4>1. \A b \in Before(i) : t[b] # t[i]
        BY <3>1 DEF Sound
      <4> QED BY <2>2, <2>5, <4>1
    <3>3. Cardinality(Full(old)) + Cardinality(Tombs(old)) < n
      BY <2>2, <2>4, FS_EmptySet
    <3>4. HasHole(old)
      BY <2>2, <3>3, RoomLeft
    <3>5. PICK b : b = LookupBucketFor(old, t[i])
      OBVIOUS
    <3>6. moved[i + 1] = [old EXCEPT ![b] = t[i]]
      BY <2>3, <2>5, <3>5 DEF Placed
    <3>7. /\ Sound(moved[i + 1], n) /\ Tombs(moved[i + 1]) = Tombs(old) \ {b}
          /\ Full(moved[i + 1]) = Full(old) \cup {b} /\ b \notin Full(old)
          /\ \A k \in Keys : InTable(moved[i + 1], k) <=> InTable(old, k) \/ k = t[i]
      <4>1. Sound(old, n)
        BY <2>2
      <4>2. PICK key : key = t[i]
        OBVIOUS
      <4>3. PICK new : new = moved[i + 1]
        OBVIOUS
      <4>4. key \in Keys /\ ~InTable(old, key) /\ b = LookupBucketFor(old, key)
            /\ new = Filled(old, b, key)
        BY <2>5, <3>2, <3>5, <3>6, <4>2, <4>3 DEF Filled
      <4> HIDE DEF Good, Before
      <4>5. /\ Sound(new, n) /\ Tombs(new) = Tombs(old) \ {b}
            /\ Full(new) = Full(old) \cup {b} /\ b \notin Full(old)
            /\ \A k \in Keys : InTable(new, k) <=> InTable(old, k) \/ k = key
        BY <3>4, <4>1, <4>4, FillKeeps
      <4> QED BY <4>2, <4>3, <4>5
    <3>8. Cardinality(Full(moved[i + 1])) = Cardinality(Full(old)) + 1
      <4>1. IsFiniteSet(Full(old))
        BY <2>2, Counted DEF Full
      <4> QED BY <3>7, <4>1, FS_AddElement
    <3>9. Cardinality(Before(i + 1)) = Cardinality(Before(i)) + 1
      <4> HIDE DEF Before
      <4> QED BY <2>4, <3>1, FS_AddElement
    <3>10. \A k \in Keys : (\E c \in Before(i + 1) : t[c] = k)
                            <=> (\E c \in Before(i) : t[c] = k) \/ k = t[i]
      BY <3>1
    <3> HIDE DEF Before
    <3> QED BY <2>2, <3>7, <3>8, <3>9, <3>10
  <2>6. CASE t[i] \notin Keys
    <3>1. Before(i + 1) = Before(i)
      <4>1. i \notin Full(t)
        BY <2>6 DEF Full
      <4>2. \A b \in 0 .. m - 1 : b < i + 1 <=> b < i \/ b = i
        OBVIOUS
      <4> QED BY <1>2, <4>1, <4>2
    <3>2. moved[i + 1] = old
      BY <2>3, <2>6 DEF Placed
    <3> HIDE DEF Before
    <3> QED BY <2>2, <3>1, <3>2
  <2> QED BY <2>5, <2>6
<1>5. m \in Good
  <2> HIDE DEF Good
  <2> QED BY <1>2, <1>3, <1>4, Induct
<1>6. Before(m) = Full(t)
  BY <1>2
<1>7. \A k \in Keys : InTable(t, k) <=> \E b \in Full(t) : t[b] = k
  BY DEF InTable, Full
<1> HIDE DEF Before
<1> QED BY <1>1, <1>2, <1>5, <1>6, <1>7

(* What every reachable table is.  It holds whatever the memory was, since *)
(* the program stops at a table made of recycled memory: with Sound, the   *)
(* counts are those of the table, not every bucket is taken, and the       *)
(* table holds the keys of the history.                                    *)
Table(n) ==
  /\ Sound(table, n)
  /\ numItems = Cardinality(Full(table)) /\ numTombstones = Cardinality(Tombs(table))
  /\ numItems + numTombstones < n
  /\ stored \subseteq Keys /\ numItems = Cardinality(stored)
  /\ \A k \in Keys : InTable(table, k) <=> k \in stored
  /\ garbage \in BOOLEAN

DictInv == \E n \in Nat : Table(n)

LEMMA StoredFinite == ASSUME NEW S \in SUBSET Keys
                      PROVE  IsFiniteSet(S) /\ Cardinality(S) \in Nat
BY DictConst, FS_Subset, FS_CardinalityType

LEMMA DictInitInv == DictInit => DictInv
<1> SUFFICES ASSUME DictInit PROVE DictInv
  OBVIOUS
<1>1. PICK n \in FirstSizes : table = EmptyTable(n)
  BY DEF DictInit
<1>2. n \in Nat \ {0} /\ PowerOfTwo(n)
  BY TableAssumption
<1>3. /\ Sound(table, n) /\ Full(table) = {} /\ Tombs(table) = {}
      /\ \A k \in Keys : ~InTable(table, k)
  BY <1>1, <1>2, EmptySound
<1>4. numItems = 0 /\ numTombstones = 0 /\ stored = {} /\ garbage \in BOOLEAN
  BY DEF DictInit
<1> QED BY <1>2, <1>3, <1>4, FS_EmptySet DEF DictInv, Table

\* The sizes to which a table is rehashed leave room for its entries.
LEMMA NewSizes ==
  ASSUME NEW n \in Nat \ {0}, PowerOfTwo(n), NEW items \in Nat, items <= n, NEW tombs \in Nat
  PROVE  /\ NewSize(n, items, tombs) = {} => items + tombs < n
         /\ \A m \in NewSize(n, items, tombs) :
              m \in Nat \ {0} /\ PowerOfTwo(m) /\ items < m
<1>1. CASE items * 4 > n * 3
  <2>1. NewSize(n, items, tombs) = {2 * n}
    BY <1>1 DEF NewSize
  <2>2. 2 * n \in Nat \ {0} /\ items < 2 * n
    OBVIOUS
  <2> QED BY <2>1, <2>2, PowerDoubles
<1>2. CASE ~(items * 4 > n * 3)
  <2>1. items < n
    BY <1>2
  <2>2. n \div 8 >= 0
    OBVIOUS
  <2>3. NewSize(n, items, tombs) = IF n - (items + tombs) <= n \div 8 THEN {n} ELSE {}
    BY <1>2 DEF NewSize
  <2>4. CASE n - (items + tombs) <= n \div 8
    BY <2>1, <2>3, <2>4
  <2>5. CASE ~(n - (items + tombs) <= n \div 8)
    <3>1. items + tombs < n
      <4>1. PICK q : q = n \div 8 /\ q \in Int
        OBVIOUS
      <4> QED BY <2>2, <2>5, <4>1
    <3> QED BY <2>3, <2>5, <3>1
  <2> QED BY <2>4, <2>5
<1> QED BY <1>1, <1>2

LEMMA TryEmplaceKeeps ==
  ASSUME NEW n \in Nat, Table(n), NEW key \in Keys, TryEmplace(key) PROVE DictInv'
<1>1. PICK bucket : bucket = LookupBucketFor(table, key)
  OBVIOUS
<1>2. PICK filled : filled = Filled(table, bucket, key)
  OBVIOUS
<1>3. PICK tombs : tombs = IF table[bucket] = Tombstone THEN numTombstones - 1 ELSE numTombstones
  OBVIOUS
<1>4. /\ Sound(table, n) /\ n \in Nat \ {0} /\ PowerOfTwo(n) /\ table \in Tables(n)
      /\ Size(table) = n
  BY TableIs DEF Table, Sound
<1>5. PICK sizes : sizes = NewSize(n, numItems + 1, tombs)
  OBVIOUS
<1>6. /\ table[bucket] # key /\ numItems' = numItems + 1 /\ stored' = stored \cup {key}
      /\ IF sizes = {}
         THEN table' = filled /\ numTombstones' = tombs /\ UNCHANGED garbage
         ELSE \E m \in sizes, memory \in FreshMemory :
                /\ table' = Moved(filled, m) /\ numTombstones' = 0
                /\ garbage' = (memory = "recycled")
  BY <1>1, <1>2, <1>3, <1>4, <1>5, ZenonT(60) DEF TryEmplace, Filled
<1>7. HasHole(table)
  BY <1>4, RoomLeft DEF Table
<1>8. ~InTable(table, key)
  BY <1>1, <1>4, <1>6, <1>7, LookupIs
<1>9. /\ Sound(filled, n) /\ bucket \in Buckets(table)
      /\ Full(filled) = Full(table) \cup {bucket} /\ bucket \notin Full(table)
      /\ Tombs(filled) = Tombs(table) \ {bucket}
      /\ \A k \in Keys : InTable(filled, k) <=> InTable(table, k) \/ k = key
  BY <1>1, <1>2, <1>4, <1>7, <1>8, FillKeeps
<1>10. /\ IsFiniteSet(Full(table)) /\ IsFiniteSet(Tombs(table))
       /\ Cardinality(Full(table)) \in Nat /\ Cardinality(Tombs(table)) \in Nat
  BY <1>4, Counted DEF Full, Tombs
<1>11. Cardinality(Full(filled)) = numItems + 1 /\ numItems \in Nat
  <2>1. numItems = Cardinality(Full(table))
    BY DEF Table
  <2>2. Cardinality(Full(table) \cup {bucket}) = Cardinality(Full(table)) + 1
    BY <1>9, <1>10, FS_AddElement
  <2> QED BY <1>9, <1>10, <2>1, <2>2
<1>12. Cardinality(Tombs(filled)) = tombs /\ tombs \in Nat
  <2>1. CASE table[bucket] = Tombstone
    <3>1. bucket \in Tombs(table)
      BY <1>9, <2>1 DEF Tombs
    <3>2. Cardinality(Tombs(filled)) = Cardinality(Tombs(table)) - 1
      BY <1>9, <1>10, <3>1, FS_RemoveElement, ZenonT(60)
    <3>3. IsFiniteSet(Tombs(filled)) /\ Cardinality(Tombs(filled)) \in Nat
      BY <1>9, Counted DEF Tombs
    <3> QED BY <1>3, <2>1, <3>2, <3>3 DEF Table
  <2>2. CASE table[bucket] # Tombstone
    <3>1. Tombs(filled) = Tombs(table)
      BY <1>9, <2>2 DEF Tombs
    <3> QED BY <1>3, <1>10, <2>2, <3>1 DEF Table
  <2> QED BY <2>1, <2>2
<1>13. numItems + 1 <= n
  BY <1>4, <1>10, <1>11 DEF Table
<1>14. /\ stored' \subseteq Keys /\ numItems' = Cardinality(stored')
       /\ \A k \in Keys : InTable(filled, k) <=> k \in stored'
  <2>1. key \notin stored /\ IsFiniteSet(stored)
    BY <1>8, StoredFinite DEF Table
  <2>2. Cardinality(stored \cup {key}) = Cardinality(stored) + 1
    BY <2>1, FS_AddElement
  <2> QED BY <1>6, <1>9, <2>2 DEF Table
<1>15. /\ sizes = {} => numItems + 1 + tombs < n
       /\ \A m \in sizes : m \in Nat \ {0} /\ PowerOfTwo(m) /\ numItems + 1 < m
  BY <1>4, <1>5, <1>11, <1>12, <1>13, NewSizes
<1>16. CASE sizes = {}
  <2>1. table' = filled /\ numTombstones' = tombs /\ garbage' \in BOOLEAN
    BY <1>6, <1>16 DEF Table
  <2>2. Table(n)'
    BY <1>6, <1>9, <1>11, <1>12, <1>14, <1>15, <1>16, <2>1 DEF Table
  <2> QED BY <2>2 DEF DictInv
<1>17. CASE sizes # {}
  <2>1. PICK m \in sizes : /\ table' = Moved(filled, m) /\ numTombstones' = 0
                           /\ garbage' \in BOOLEAN
    BY <1>6, <1>17
  <2>2. m \in Nat \ {0} /\ PowerOfTwo(m) /\ numItems + 1 < m
    BY <1>15
  <2>3. PICK moved : moved = Moved(filled, m)
    OBVIOUS
  <2>4. /\ Sound(moved, m) /\ Tombs(moved) = {}
        /\ Cardinality(Full(moved)) = Cardinality(Full(filled))
        /\ \A k \in Keys : InTable(moved, k) <=> InTable(filled, k)
    BY <1>9, <1>11, <2>2, <2>3, MovedIs
  <2>5. Table(m)'
    BY <1>6, <1>11, <1>14, <2>1, <2>2, <2>3, <2>4, FS_EmptySet DEF Table
  <2> QED BY <2>2, <2>5 DEF DictInv
<1> QED BY <1>16, <1>17

LEMMA RemoveKeyKeeps ==
  ASSUME NEW n \in Nat, Table(n), NEW key \in Keys, RemoveKey(key) PROVE DictInv'
<1>1. PICK bucket \in FindKey(table, key) :
        /\ table' = [table EXCEPT ![bucket] = Tombstone]
        /\ numItems' = numItems - 1 /\ numTombstones' = numTombstones + 1
  BY DEF RemoveKey
<1>2. stored' = stored \ {key} /\ garbage' = garbage
  BY DEF RemoveKey
<1>3. Sound(table, n)
  BY DEF Table
<1>4. HasHole(table)
  BY <1>3, RoomLeft DEF Table
<1>5. bucket \in Buckets(table) /\ table[bucket] = key /\ InTable(table, key)
  BY <1>1, <1>3, <1>4, FindKeyIs DEF InTable
<1>6. bucket \in Full(table)
  BY <1>5 DEF Full
<1>7. PICK buried : buried = table'
  OBVIOUS
<1>8. /\ Sound(buried, n)
      /\ Full(buried) = Full(table) \ {bucket} /\ Tombs(buried) = Tombs(table) \cup {bucket}
      /\ bucket \notin Tombs(table)
      /\ \A k \in Keys : InTable(buried, k) <=> InTable(table, k) /\ k # key
  <2>1. buried = Buried(table, bucket)
    BY <1>1, <1>7 DEF Buried
  <2> QED BY <1>3, <1>5, <1>6, <2>1, BuryKeeps
<1>9. /\ IsFiniteSet(Full(table)) /\ IsFiniteSet(Tombs(table))
      /\ Cardinality(Full(table)) \in Nat /\ Cardinality(Tombs(table)) \in Nat
  BY <1>3, Counted DEF Full, Tombs
<1>10. Cardinality(Full(buried)) = numItems - 1
  BY <1>6, <1>8, <1>9, FS_RemoveElement, ZenonT(60) DEF Table
<1>11. Cardinality(Tombs(buried)) = numTombstones + 1
  BY <1>8, <1>9, FS_AddElement, ZenonT(60) DEF Table
<1>12. stored' \subseteq Keys /\ numItems - 1 = Cardinality(stored')
  <2>1. key \in stored /\ IsFiniteSet(stored)
    BY <1>5, StoredFinite DEF Table
  <2>2. Cardinality(stored \ {key}) = Cardinality(stored) - 1
    BY <2>1, FS_RemoveElement, ZenonT(60)
  <2> QED BY <1>2, <2>2 DEF Table
<1>13. \A k \in Keys : InTable(buried, k) <=> k \in stored'
  BY <1>2, <1>8 DEF Table
<1>14. numItems - 1 + (numTombstones + 1) < n
  BY <1>9 DEF Table
<1>15. Table(n)'
  BY <1>1, <1>2, <1>7, <1>8, <1>10, <1>11, <1>12, <1>13, <1>14 DEF Table
<1> QED BY <1>15 DEF DictInv

LEMMA ClearKeeps == ASSUME NEW n \in Nat, Table(n), Clear PROVE DictInv'
<1>1. Sound(table, n) /\ n \in Nat \ {0} /\ PowerOfTwo(n) /\ table \in Tables(n)
  BY DEF Table, Sound
<1>2. Size(table) = n
  BY <1>1, FS_Interval DEF Size, Buckets, Tables
<1>3. table' = EmptyTable(n) /\ numItems' = 0 /\ numTombstones' = 0 /\ stored' = {}
      /\ garbage' = garbage
  BY <1>2 DEF Clear
<1>4. PICK empty : empty = EmptyTable(n)
  OBVIOUS
<1>5. /\ Sound(empty, n) /\ Full(empty) = {} /\ Tombs(empty) = {}
      /\ \A k \in Keys : ~InTable(empty, k)
  BY <1>1, <1>4, EmptySound
<1>6. Table(n)'
  BY <1>1, <1>3, <1>4, <1>5, FS_EmptySet DEF Table
<1> QED BY <1>6 DEF DictInv

LEMMA DictStep == DictInv /\ [DictNext]_dictVars => DictInv'
<1> SUFFICES ASSUME DictInv, [DictNext]_dictVars PROVE DictInv'
  OBVIOUS
<1>1. PICK n \in Nat : Table(n)
  BY DEF DictInv
<1>2. ASSUME NEW key \in Keys, TryEmplace(key) PROVE DictInv'
  BY <1>1, <1>2, TryEmplaceKeeps
<1>3. ASSUME NEW key \in Keys, RemoveKey(key) PROVE DictInv'
  BY <1>1, <1>3, RemoveKeyKeeps
<1>4. CASE Clear
  BY <1>1, <1>4, ClearKeeps
<1>5. CASE UNCHANGED dictVars
  <2>1. Table(n)'
    BY <1>1, <1>5 DEF Table, dictVars
  <2> QED BY <2>1 DEF DictInv
<1> QED BY <1>2, <1>3, <1>4, <1>5 DEF DictNext

LEMMA DictInvMeans == DictInv => FindsExactly /\ DictTypeOK
<1> SUFFICES ASSUME DictInv PROVE FindsExactly /\ DictTypeOK
  OBVIOUS
<1>1. PICK n \in Nat : Table(n)
  BY DEF DictInv
<1>2. Sound(table, n) /\ n \in Nat \ {0} /\ table \in Tables(n)
  BY <1>1 DEF Table, Sound
<1>3. HasHole(table)
  BY <1>1, <1>2, RoomLeft DEF Table
<1>4. \A key \in Keys : FindKey(table, key) # {} <=> key \in stored
  BY <1>1, <1>2, <1>3, FindKeyIs DEF Table
<1>5. FindsExactly
  BY <1>1, <1>3, <1>4 DEF FindsExactly, Table, HasHole, InTable
<1>6. Size(table) = n
  BY <1>2, FS_Interval DEF Size, Buckets, Tables
<1>7. numItems \in Nat /\ numTombstones \in Nat
  BY <1>1, <1>2, Counted DEF Full, Tombs, Table
<1>8. DictTypeOK
  BY <1>1, <1>2, <1>6, <1>7 DEF DictTypeOK, Table, Tables
<1> QED BY <1>5, <1>8

(* The fields of the dictionary keep their types, and its size is never 0. *)
THEOREM DictTypeCorrect == DictSpec => []DictTypeOK
<1>1. DictInit => DictInv
  BY DictInitInv
<1>2. DictInv /\ [DictNext]_dictVars => DictInv'
  BY DictStep
<1>3. DictInv => DictTypeOK
  BY DictInvMeans
<1> QED BY <1>1, <1>2, <1>3, PTL DEF DictSpec

(* A search of the dictionary ends, and it finds exactly the keys that     *)
(* were inserted and not removed since, for every set of keys, every hash  *)
(* function and every first size that is a power of two.                   *)
THEOREM FindsExactlyCorrect == DictSpec => []FindsExactly
<1>1. DictInit => DictInv
  BY DictInitInv
<1>2. DictInv /\ [DictNext]_dictVars => DictInv'
  BY DictStep
<1>3. DictInv => FindsExactly
  BY DictInvMeans
<1> QED BY <1>1, <1>2, <1>3, PTL DEF DictSpec
----------------------------------------------------------------------------
(* The request queue                                                       *)

LEMMA QueueConst == ArraySize \in Nat \ {0} /\ Priorities \subseteq Nat
BY ArrayAssumption

\* Loops: their states, and what holds of the last one.
Runs(run, body, start, n) ==
  run[0] = start /\ \A k \in 1 .. n : run[k] = body[run[k - 1]]

LEMMA RepeatRuns ==
  ASSUME NEW body, NEW start, NEW n \in Nat
  PROVE  \E run : Runs(run, body, start, n) /\ Repeat(body, start, n) = run[n]
<1> DEFINE Next(f, m) == [k \in 0 .. m |-> IF k = 0 THEN start ELSE body[f[k - 1]]]
           Good == {m \in Nat : \E f : f = Next(f, m)}
<1>1. 0 \in Good
  <2>1. PICK f : f = [k \in 0 .. 0 |-> start]
    OBVIOUS
  <2>2. f = Next(f, 0)
    BY <2>1
  <2> QED BY <2>2
<1>2. ASSUME NEW m \in Nat, m \in Good PROVE m + 1 \in Good
  <2>1. PICK f : f = Next(f, m)
    BY <1>2
  <2>2. PICK g : g = [k \in 0 .. m + 1 |-> IF k = m + 1 THEN body[f[m]] ELSE f[k]]
    OBVIOUS
  <2>3. ASSUME NEW k \in 0 .. m + 1
        PROVE  g[k] = IF k = 0 THEN start ELSE body[g[k - 1]]
    <3>1. CASE k = m + 1
      <4>1. g[k] = body[f[m]] /\ g[k - 1] = f[m] /\ k # 0
        BY <2>2, <3>1
      <4> QED BY <4>1
    <3>2. CASE k \in 0 .. m
      <4>1. g[k] = f[k] /\ (k # 0 => g[k - 1] = f[k - 1])
        BY <2>2, <3>2
      <4>2. f[k] = IF k = 0 THEN start ELSE body[f[k - 1]]
        BY <2>1, <3>2
      <4> QED BY <4>1, <4>2
    <3> QED BY <3>1, <3>2
  <2>4. DOMAIN g = 0 .. m + 1 /\ g = [k \in 0 .. m + 1 |-> g[k]]
    BY <2>2
  <2>5. g = Next(g, m + 1)
    BY <2>3, <2>4
  <2> QED BY <2>5
<1>3. n \in Good
  <2> HIDE DEF Good
  <2> QED BY <1>1, <1>2, Induct
<1>4. PICK run : run = CHOOSE f : f = Next(f, n)
  OBVIOUS
<1>5. run = Next(run, n)
  <2>1. \E f : f = Next(f, n)
    BY <1>3
  <2> HIDE DEF Next
  <2> QED BY <1>4, <2>1
<1>6. Repeat(body, start, n) = run[n]
  BY <1>4 DEF Repeat
<1>7. run[0] = start /\ \A k \in 1 .. n : run[k] = body[run[k - 1]]
  BY <1>5
<1> QED BY <1>6, <1>7 DEF Runs

\* P[k] holds after k rounds.
LEMMA RepeatKeeps ==
  ASSUME NEW body, NEW start, NEW n \in Nat, NEW P, start \in P[0],
         \A k \in 0 .. n - 1 : \A s \in P[k] : body[s] \in P[k + 1]
  PROVE  Repeat(body, start, n) \in P[n]
<1>1. PICK run : Runs(run, body, start, n) /\ Repeat(body, start, n) = run[n]
  BY RepeatRuns
<1> DEFINE Good == {k \in Nat : k <= n => run[k] \in P[k]}
<1>2. 0 \in Good
  BY <1>1 DEF Runs
<1>3. ASSUME NEW k \in Nat, k \in Good PROVE k + 1 \in Good
  <2> SUFFICES ASSUME k + 1 <= n PROVE run[k + 1] \in P[k + 1]
    OBVIOUS
  <2>1. k + 1 \in 1 .. n /\ k \in 0 .. n - 1 /\ (k + 1) - 1 = k
    OBVIOUS
  <2>2. run[k + 1] = body[run[k]]
    BY <1>1, <2>1 DEF Runs
  <2>3. run[k] \in P[k]
    BY <1>3
  <2> QED BY <2>1, <2>2, <2>3
<1>4. n \in Good
  <2> HIDE DEF Good
  <2> QED BY <1>2, <1>3, Induct
<1> QED BY <1>1, <1>4

\* A loop that ends after one round, and after two.
LEMMA RepeatOnce ==
  ASSUME NEW body, NEW x, NEW y, body[x] = y, body[y] = y, NEW n \in Nat, n >= 1
  PROVE  Repeat(body, x, n) = y
<1>1. PICK P : P = [k \in Nat |-> IF k = 0 THEN {x} ELSE {y}]
  OBVIOUS
<1>2. x \in P[0] /\ P[n] = {y}
  BY <1>1
<1>3. \A k \in 0 .. n - 1 : \A s \in P[k] : body[s] \in P[k + 1]
  BY <1>1
<1> QED BY <1>2, <1>3, RepeatKeeps

LEMMA RepeatTwice ==
  ASSUME NEW body, NEW x, NEW y, NEW z, body[x] = y, body[y] = z, body[z] = z,
         NEW n \in Nat, n >= 2
  PROVE  Repeat(body, x, n) = z
<1>1. PICK P : P = [k \in Nat |-> IF k = 0 THEN {x} ELSE IF k = 1 THEN {y} ELSE {z}]
  OBVIOUS
<1>2. x \in P[0] /\ P[n] = {z}
  BY <1>1
<1>3. \A k \in 0 .. n - 1 : \A s \in P[k] : body[s] \in P[k + 1]
  BY <1>1
<1> QED BY <1>2, <1>3, RepeatKeeps
----------------------------------------------------------------------------
\* How many entries of h up to size are q.
PlacesOf(h, size, q) == {i \in 1 .. size : h[i] = q}
Copies(h, size, q) == Cardinality(PlacesOf(h, size, q))
SameEntries(h, g, size) == \A q \in Nat : Copies(g, size, q) = Copies(h, size, q)

LEMMA PlacesFinite ==
  ASSUME NEW h, NEW size \in Nat, NEW q
  PROVE  IsFiniteSet(PlacesOf(h, size, q)) /\ Copies(h, size, q) \in Nat
<1>1. IsFiniteSet(1 .. size) /\ PlacesOf(h, size, q) \in SUBSET (1 .. size)
  BY FS_Interval DEF PlacesOf
<1> QED BY <1>1, FS_Subset, FS_CardinalityType DEF Copies

LEMMA SwapIs ==
  ASSUME NEW h \in Arrays, NEW size \in 0 .. ArraySize, NEW i \in 1 .. size, NEW j \in 1 .. size,
         NEW g, g = Swapped(h, i, j)
  PROVE  /\ g \in Arrays /\ g[i] = h[j] /\ g[j] = h[i]
         /\ \A k \in 1 .. ArraySize : k # i /\ k # j => g[k] = h[k]
         /\ SameEntries(h, g, size)
<1>1. ArraySize \in Nat /\ size \in Nat /\ i \in 1 .. ArraySize /\ j \in 1 .. ArraySize
  BY QueueConst
<1>2. g \in Arrays /\ g[i] = h[j] /\ g[j] = h[i]
      /\ \A k \in 1 .. ArraySize : k # i /\ k # j => g[k] = h[k]
  BY <1>1 DEF Swapped, Arrays
<1>3. ASSUME NEW q \in Nat PROVE Copies(g, size, q) = Copies(h, size, q)
  <2>1. PICK f : f = [k \in PlacesOf(h, size, q) |-> IF k = i THEN j ELSE IF k = j THEN i ELSE k]
    OBVIOUS
  <2>2. \A k \in 1 .. size : k \in 1 .. ArraySize
    BY <1>1
  <2>3. ASSUME NEW k \in PlacesOf(h, size, q)
        PROVE  f[k] \in PlacesOf(g, size, q)
    BY <1>2, <2>1, <2>2 DEF PlacesOf
  <2>4. f \in [PlacesOf(h, size, q) -> PlacesOf(g, size, q)]
    BY <2>1, <2>3
  <2>5. \A k, l \in PlacesOf(h, size, q) : f[k] = f[l] => k = l
    BY <2>1
  <2>6. ASSUME NEW m \in PlacesOf(g, size, q)
        PROVE  \E k \in PlacesOf(h, size, q) : f[k] = m
    <3>1. PICK k : k = IF m = i THEN j ELSE IF m = j THEN i ELSE m
      OBVIOUS
    <3>2. k \in PlacesOf(h, size, q)
      BY <1>2, <2>2, <3>1 DEF PlacesOf
    <3>3. f[k] = m
      BY <2>1, <3>1, <3>2
    <3> QED BY <3>2, <3>3
  <2>7. f \in Bijection(PlacesOf(h, size, q), PlacesOf(g, size, q))
    BY <2>4, <2>5, <2>6 DEF Bijection, Injection, Surjection, IsInjective
  <2> QED BY <1>1, <2>7, PlacesFinite, FS_Bijection DEF ExistsBijection, Copies
<1> QED BY <1>2, <1>3 DEF SameEntries

LEMMA ParentIs ==
  ASSUME NEW j \in Nat
  PROVE  /\ Parent(j) \in Nat /\ (j = 2 * Parent(j) \/ j = 2 * Parent(j) + 1)
BY DEF Parent

(* The entries up to size are in order but for those below and above node. *)
OrderedBut(h, size, node) ==
  \A j \in 2 .. size :
    /\ j # node => h[Parent(j)] <= h[j]
    /\ Parent(j) = node /\ node >= 2 => h[Parent(node)] <= h[j]
Ordered(h, size) == \A j \in 2 .. size : h[Parent(j)] <= h[j]

\* One round, which moves the entry out of order to its parent's place.
LEMMA RaiseSwap ==
  ASSUME NEW a \in Arrays, NEW size \in 0 .. ArraySize, NEW node \in 1 .. size,
         NEW i \in 1 .. size, i = Parent(node), node >= 2, a[node] < a[i],
         NEW b, b = Swapped(a, i, node)
  PROVE  /\ b \in Arrays /\ SameEntries(a, b, size)
         /\ OrderedBut(a, size, node) => OrderedBut(b, size, i)
<1>1. ArraySize \in Nat /\ size \in Nat /\ \A l \in 1 .. ArraySize : a[l] \in Nat
  BY QueueConst DEF Arrays
<1>2. node = 2 * i \/ node = 2 * i + 1
  BY ParentIs
<1>3. i \in 1 .. size /\ i < node
  BY <1>1, <1>2
<1>4. /\ b \in Arrays /\ b[i] = a[node] /\ b[node] = a[i]
      /\ \A l \in 1 .. ArraySize : l # i /\ l # node => b[l] = a[l]
      /\ SameEntries(a, b, size)
  BY SwapIs, SMTT(30)
<1>5. ASSUME OrderedBut(a, size, node) PROVE OrderedBut(b, size, i)
  <2>1. ASSUME NEW j \in 2 .. size PROVE j # i => b[Parent(j)] <= b[j]
    <3> SUFFICES ASSUME j # i PROVE b[Parent(j)] <= b[j]
      OBVIOUS
    <3>1. PICK p : p = Parent(j)
      OBVIOUS
    <3>2. /\ p \in 1 .. size /\ p < j /\ j \in 1 .. ArraySize /\ p \in 1 .. ArraySize
          /\ a[p] \in Nat /\ a[j] \in Nat /\ a[i] \in Nat /\ a[node] \in Nat
      <4>1. j \in Nat /\ (j = 2 * p \/ j = 2 * p + 1) /\ p \in Nat
        BY <3>1, ParentIs
      <4>2. p \in 1 .. ArraySize /\ j \in 1 .. ArraySize /\ i \in 1 .. ArraySize
            /\ node \in 1 .. ArraySize
        BY <1>1, <1>3, <4>1
      <4>3. p \in 1 .. size /\ p < j
        BY <1>1, <4>1
      <4> QED BY <1>1, <4>2, <4>3
    <3>3. CASE j = node
      BY <1>4, <3>1, <3>2, <3>3
    <3>4. CASE j # node
      <4>1. a[p] <= a[j] /\ b[j] = a[j] /\ (p = node => a[i] <= a[j])
        BY <1>3, <1>4, <1>5, <3>1, <3>2, <3>4 DEF OrderedBut
      <4>2. b[p] = IF p = i THEN a[node] ELSE IF p = node THEN a[i] ELSE a[p]
        BY <1>4, <3>2
      <4> QED BY <3>1, <3>2, <4>1, <4>2
    <3> QED BY <3>3, <3>4
  <2>2. ASSUME NEW j \in 2 .. size, Parent(j) = i, i >= 2 PROVE b[Parent(i)] <= b[j]
    <3>1. PICK p : p = Parent(i)
      OBVIOUS
    <3>2. /\ p \in 1 .. ArraySize /\ p < i /\ j \in 1 .. ArraySize /\ i < j
          /\ a[p] \in Nat /\ a[j] \in Nat /\ a[i] \in Nat /\ a[node] \in Nat
      <4>1. i = 2 * p \/ i = 2 * p + 1
        BY <1>2, <3>1, ParentIs
      <4>2. j = 2 * i \/ j = 2 * i + 1
        BY <2>2, ParentIs
      <4>3. p \in Nat
        BY <1>2, <3>1, ParentIs
      <4>4. p \in 1 .. ArraySize /\ j \in 1 .. ArraySize /\ i \in 1 .. ArraySize
            /\ node \in 1 .. ArraySize
        BY <1>1, <1>3, <2>2, <4>1, <4>3
      <4>5. p < i /\ i < j
        BY <1>2, <2>2, <4>1, <4>2, <4>3
      <4> QED BY <1>1, <4>4, <4>5
    <3>3. a[p] <= a[i] /\ (j # node => a[i] <= a[j])
      BY <1>3, <1>5, <2>2, <3>1 DEF OrderedBut
    <3>4. b[p] = a[p] /\ b[j] = IF j = node THEN a[i] ELSE a[j]
      BY <1>3, <1>4, <3>2
    <3> QED BY <3>1, <3>2, <3>3, <3>4
  <2> QED BY <2>1, <2>2 DEF OrderedBut
<1> QED BY <1>4, <1>5

\* rebalance_after_insert swaps entries, and makes a heap of one but for its
\* last entry.
LEMMA RaiseKeeps ==
  ASSUME NEW h \in Arrays, NEW size \in 1 .. ArraySize, NEW g, g = Raise(h, size)
  PROVE  /\ g \in Arrays /\ SameEntries(h, g, size)
         /\ OrderedBut(h, size, size) => Ordered(g, size)
<1>1. ArraySize \in Nat \ {0} /\ size \in Nat
  BY QueueConst
<1> DEFINE Good(s, k) ==
             /\ s[1] \in Arrays /\ s[2] \in 1 .. size /\ SameEntries(h, s[1], size)
             /\ OrderedBut(h, size, size) =>
                  \/ OrderedBut(s[1], size, s[2]) /\ s[2] + k <= size
                  \/ Ordered(s[1], size)
<1>2. PICK P : P = [k \in Nat |-> {s \in Arrays \X Indices : Good(s, k)}]
  OBVIOUS
<1>3. <<h, size>> \in P[0]
  <2>1. size \in Indices /\ SameEntries(h, h, size)
    BY <1>1 DEF Indices, SameEntries
  <2> QED BY <1>1, <1>2, <2>1
<1>4. ASSUME NEW k \in 0 .. ArraySize - 1, NEW s \in P[k] PROVE RaiseBody[s] \in P[k + 1]
  <2>1. k \in Nat /\ s \in Arrays \X Indices /\ Good(s, k)
    BY <1>1, <1>2
  <2>2. PICK a, node, i : a = s[1] /\ node = s[2] /\ i = Parent(node)
    OBVIOUS
  <2>3. a \in Arrays /\ node \in 1 .. size /\ s = <<a, node>>
    BY <2>1, <2>2
  <2>8. \A l \in 1 .. ArraySize : a[l] \in Nat
    BY <2>3 DEF Arrays
  <2>4. i \in Nat /\ (node = 2 * i \/ node = 2 * i + 1)
    BY <2>2, <2>3, ParentIs
  <2>5. RaiseBody[s] = IF i = 0 \/ a[node] >= a[i] THEN s ELSE <<Swapped(a, i, node), i>>
    BY <2>1, <2>2 DEF RaiseBody
  <2>6. CASE i = 0 \/ a[node] >= a[i]
    <3>1. OrderedBut(a, size, node) => Ordered(a, size)
      <4> SUFFICES ASSUME OrderedBut(a, size, node), NEW j \in 2 .. size PROVE a[Parent(j)] <= a[j]
        BY DEF Ordered
      <4>1. CASE j # node
        BY <4>1 DEF OrderedBut
      <4>2. CASE j = node
        <5>1. i # 0 /\ Parent(j) = i
          <6>1. node >= 2
            BY <4>2
          <6> QED BY <2>2, <2>4, <4>2, <6>1
        <5>2. a[i] \in Nat /\ a[node] \in Nat
          <6>1. node \in 1 .. ArraySize /\ i \in 1 .. ArraySize
            BY <1>1, <2>3, <2>4, <5>1
          <6> QED BY <2>8, <6>1
        <5> QED BY <2>6, <4>2, <5>1, <5>2
      <4> QED BY <4>1, <4>2
    <3>2. Good(s, k + 1)
      BY <2>1, <2>2, <3>1
    <3> QED BY <1>2, <2>1, <2>5, <2>6, <3>2
  <2>7. CASE ~(i = 0 \/ a[node] >= a[i])
    <3>1. PICK b : b = Swapped(a, i, node)
      OBVIOUS
    <3>2. i \in 1 .. size /\ i < node /\ node >= 2
      BY <2>3, <2>4, <2>7
    <3>3. a[node] < a[i]
      <4>1. node \in 1 .. ArraySize /\ i \in 1 .. ArraySize
        BY <1>1, <2>3, <3>2
      <4> QED BY <2>7, <2>8, <4>1
    <3>4. ~Ordered(a, size)
      <4>1. node \in 2 .. size /\ node \in 1 .. ArraySize /\ i \in 1 .. ArraySize
        BY <1>1, <2>3, <3>2
      <4> QED BY <2>2, <2>8, <3>3, <4>1 DEF Ordered
    <3>5. /\ b \in Arrays /\ SameEntries(a, b, size)
          /\ OrderedBut(a, size, node) => OrderedBut(b, size, i)
      BY <1>1, <2>2, <2>3, <3>1, <3>2, <3>3, RaiseSwap
    <3>6. SameEntries(h, b, size)
      BY <2>1, <2>2, <3>5 DEF SameEntries
    <3>7. RaiseBody[s] = <<b, i>> /\ <<b, i>> \in Arrays \X Indices
      BY <1>1, <2>5, <2>7, <3>1, <3>2, <3>5 DEF Indices
    <3>8. Good(<<b, i>>, k + 1)
      BY <1>1, <2>1, <2>2, <3>2, <3>4, <3>5, <3>6
    <3> HIDE DEF Good
    <3> QED BY <1>2, <2>1, <3>7, <3>8
  <2> QED BY <2>6, <2>7
<1>5. Repeat(RaiseBody, <<h, size>>, ArraySize) \in P[ArraySize]
  BY <1>1, <1>3, <1>4, RepeatKeeps
<1>6. PICK s : s = Repeat(RaiseBody, <<h, size>>, ArraySize)
  OBVIOUS
<1>7. g = s[1] /\ Good(s, ArraySize)
  <2> HIDE DEF Good
  <2> QED BY <1>1, <1>2, <1>5, <1>6 DEF Raise, Loop
<1> QED BY <1>1, <1>7

\* The entries up to size are in order from those of place i on.
OrderedFrom(h, size, i) == \A j \in 2 .. size : Parent(j) >= i => h[Parent(j)] <= h[j]

(* ... but for the children of place c, which are in order with its parent. *)
OrderedFromBut(h, size, i, c) ==
  /\ \A j \in 2 .. size : Parent(j) >= i /\ Parent(j) # c => h[Parent(j)] <= h[j]
  /\ c # i => /\ Parent(c) >= i
              /\ \A j \in 2 .. size : Parent(j) = c => h[Parent(c)] <= h[j]

\* One round, which moves the entry out of order to the place of its smaller child.
LEMMA HeapifySwap ==
  ASSUME NEW a \in Arrays, NEW size \in 0 .. ArraySize, NEW i \in 1 .. size,
         NEW n \in 1 .. size, n >= i, NEW c \in 2 .. size, Parent(c) = n, a[c] < a[n],
         \A j \in 2 .. size : Parent(j) = n => a[c] <= a[j],
         NEW b, b = Swapped(a, c, n)
  PROVE  /\ b \in Arrays /\ SameEntries(a, b, size)
         /\ OrderedFromBut(a, size, i, n) => OrderedFromBut(b, size, i, c)
<1>1. ArraySize \in Nat /\ size \in Nat /\ \A l \in 1 .. ArraySize : a[l] \in Nat
  BY QueueConst DEF Arrays
<1>2. c \in 1 .. size /\ n < c
  <2>1. c = 2 * n \/ c = 2 * n + 1
    BY ParentIs
  <2> QED BY <1>1, <2>1
<1>3. /\ b \in Arrays /\ b[c] = a[n] /\ b[n] = a[c]
      /\ \A l \in 1 .. ArraySize : l # c /\ l # n => b[l] = a[l]
      /\ SameEntries(a, b, size)
  BY <1>2, SwapIs
<1>4. ASSUME OrderedFromBut(a, size, i, n) PROVE OrderedFromBut(b, size, i, c)
  <2>1. ASSUME NEW j \in 2 .. size, Parent(j) >= i, Parent(j) # c PROVE b[Parent(j)] <= b[j]
    <3>1. PICK p : p = Parent(j)
      OBVIOUS
    <3>2. /\ p < j /\ j \in 1 .. ArraySize /\ p \in 1 .. ArraySize
          /\ a[p] \in Nat /\ a[j] \in Nat /\ a[c] \in Nat /\ a[n] \in Nat
      <4>1. j \in Nat /\ (j = 2 * p \/ j = 2 * p + 1) /\ p \in Nat
        BY <3>1, ParentIs
      <4>2. p \in 1 .. ArraySize /\ j \in 1 .. ArraySize /\ c \in 1 .. ArraySize
            /\ n \in 1 .. ArraySize /\ p < j
        BY <1>1, <4>1
      <4> QED BY <1>1, <4>2
    <3>3. CASE p = n
      <4>1. a[c] <= a[j] /\ j # n /\ b[p] = a[c] /\ b[j] = IF j = c THEN a[n] ELSE a[j]
        <5>1. a[c] <= a[j]
          BY <3>1, <3>3
        <5>2. j # n /\ b[p] = a[c]
          BY <1>3, <3>2, <3>3
        <5>3. b[j] = IF j = c THEN a[n] ELSE a[j]
          BY <1>3, <3>2, <5>2
        <5> QED BY <5>1, <5>2, <5>3
      <4>2. CASE j = c
        BY <3>1, <3>2, <4>1, <4>2
      <4>3. CASE j # c
        BY <3>1, <3>2, <4>1, <4>3
      <4> QED BY <4>2, <4>3
    <3>4. CASE p # n
      <4>1. a[p] <= a[j] /\ j # c /\ p # c /\ b[p] = a[p]
        BY <1>3, <1>4, <2>1, <3>1, <3>2, <3>4 DEF OrderedFromBut
      <4>2. CASE j = n
        <5>1. n # i
          BY <2>1, <3>1, <3>2, <4>2
        <5>2. a[p] <= a[c]
          BY <1>4, <3>1, <4>2, <5>1 DEF OrderedFromBut
        <5> QED BY <1>3, <3>1, <4>1, <4>2, <5>2
      <4>3. CASE j # n
        BY <1>3, <3>1, <3>2, <4>1, <4>3
      <4> QED BY <4>2, <4>3
    <3> QED BY <3>3, <3>4
  <2>2. Parent(c) >= i
    OBVIOUS
  <2>3. ASSUME NEW j \in 2 .. size, Parent(j) = c PROVE b[Parent(c)] <= b[j]
    <3>1. j \in 1 .. ArraySize /\ j > c
      <4>1. j = 2 * c \/ j = 2 * c + 1
        BY <2>3, ParentIs
      <4> QED BY <1>1, <1>2, <4>1
    <3>2. a[c] <= a[j]
      BY <1>2, <1>4, <2>3 DEF OrderedFromBut
    <3>3. b[n] = a[c] /\ b[j] = a[j]
      BY <1>2, <1>3, <3>1
    <3> QED BY <3>2, <3>3
  <2> QED BY <2>1, <2>2, <2>3 DEF OrderedFromBut
<1> QED BY <1>3, <1>4

\* heapify swaps entries, and puts in order those from place i on, if those
\* behind it are.
LEMMA HeapifyKeeps ==
  ASSUME NEW h \in Arrays, NEW size \in 1 .. ArraySize, NEW i \in 1 .. size,
         NEW g, g = Heapify(h, size, i)
  PROVE  /\ g \in Arrays /\ SameEntries(h, g, size)
         /\ OrderedFrom(h, size, i + 1) => OrderedFrom(g, size, i)
<1>1. ArraySize \in Nat \ {0} /\ size \in Nat /\ i \in Nat
  BY QueueConst
<1> DEFINE Good(s, k) ==
             /\ s[1] \in Arrays /\ s[2] \in i .. size /\ SameEntries(h, s[1], size)
             /\ OrderedFrom(h, size, i + 1) =>
                  \/ OrderedFromBut(s[1], size, i, s[2]) /\ s[2] >= i + k
                  \/ OrderedFrom(s[1], size, i)
<1>2. PICK P : P = [k \in Nat |-> {s \in Arrays \X Indices : Good(s, k)}]
  OBVIOUS
<1>3. <<h, i>> \in P[0]
  <2>1. i \in Indices /\ SameEntries(h, h, size)
    BY <1>1 DEF Indices, SameEntries
  <2>2. OrderedFrom(h, size, i + 1) => OrderedFromBut(h, size, i, i)
    <3>1. ASSUME OrderedFrom(h, size, i + 1), NEW j \in 2 .. size, Parent(j) >= i, Parent(j) # i
          PROVE  h[Parent(j)] <= h[j]
      <4>1. Parent(j) \in Nat
        BY ParentIs
      <4>2. Parent(j) >= i + 1
        BY <1>1, <3>1, <4>1
      <4> QED BY <3>1, <4>2 DEF OrderedFrom
    <3> QED BY <3>1 DEF OrderedFromBut
  <2> QED BY <1>1, <1>2, <2>1, <2>2
<1>4. PICK body : body = HeapifyBody(size)
  OBVIOUS
<1>5. ASSUME NEW k \in 0 .. ArraySize - 1, NEW s \in P[k] PROVE body[s] \in P[k + 1]
  <2>1. k \in Nat /\ s \in Arrays \X Indices /\ Good(s, k)
    BY <1>1, <1>2
  <2>2. PICK a, n, l : a = s[1] /\ n = s[2] /\ l = 2 * n
    OBVIOUS
  <2>3. a \in Arrays /\ n \in i .. size /\ s = <<a, n>> /\ n \in 1 .. size /\ n \in Nat
    BY <1>1, <2>1, <2>2
  <2>4. \A m \in 1 .. ArraySize : a[m] \in Nat
    BY <2>3 DEF Arrays
  <2>5. PICK c : c = IF l + 1 > size \/ a[l] < a[l + 1] THEN l ELSE l + 1
    OBVIOUS
  <2>6. body[s] = IF l > size \/ a[c] >= a[n] THEN s ELSE <<Swapped(a, c, n), c>>
    BY <1>4, <2>1, <2>2, <2>5 DEF HeapifyBody
  <2>7. ASSUME NEW j \in 2 .. size, Parent(j) = n
        PROVE  /\ l <= size /\ (j = l \/ j = l + 1) /\ a[c] <= a[j]
               /\ j \in 1 .. ArraySize /\ c \in 1 .. ArraySize
    <3>1. j = l \/ j = l + 1
      BY <2>2, <2>7, ParentIs
    <3>2. l \in 1 .. ArraySize /\ l <= size /\ j \in 1 .. ArraySize /\ l \in Nat
      BY <1>1, <2>2, <2>3, <3>1
    <3>3. CASE l + 1 > size
      <4>1. j = l /\ c = l
        BY <1>1, <2>5, <3>1, <3>2, <3>3
      <4> QED BY <2>4, <3>2, <4>1
    <3>4. CASE ~(l + 1 > size)
      <4>1. l + 1 \in 1 .. ArraySize
        BY <1>1, <3>2, <3>4
      <4>2. a[l] \in Nat /\ a[l + 1] \in Nat
        BY <2>4, <3>2, <4>1
      <4> QED BY <2>5, <3>1, <3>2, <3>4, <4>1, <4>2
    <3> QED BY <3>3, <3>4
  <2>8. CASE l > size \/ a[c] >= a[n]
    <3>1. OrderedFromBut(a, size, i, n) => OrderedFrom(a, size, i)
      <4> SUFFICES ASSUME OrderedFromBut(a, size, i, n), NEW j \in 2 .. size, Parent(j) >= i
                   PROVE  a[Parent(j)] <= a[j]
        BY DEF OrderedFrom
      <4>1. CASE Parent(j) # n
        BY <4>1 DEF OrderedFromBut
      <4>2. CASE Parent(j) = n
        <5>1. a[c] <= a[j] /\ l <= size /\ j \in 1 .. ArraySize /\ c \in 1 .. ArraySize
          BY <2>7, <4>2
        <5>2. a[c] >= a[n] /\ n \in 1 .. ArraySize
          BY <1>1, <2>2, <2>3, <2>8, <5>1
        <5>3. a[c] \in Nat /\ a[n] \in Nat /\ a[j] \in Nat
          BY <2>4, <5>1, <5>2
        <5> QED BY <4>2, <5>1, <5>2, <5>3
      <4> QED BY <4>1, <4>2
    <3>2. Good(s, k + 1)
      BY <2>1, <2>2, <3>1
    <3> QED BY <1>2, <2>1, <2>6, <2>8, <3>2
  <2>9. CASE ~(l > size \/ a[c] >= a[n])
    <3>1. PICK b : b = Swapped(a, c, n)
      OBVIOUS
    <3>2. /\ l \in Nat /\ l <= size /\ c \in Nat /\ (c = l \/ c = l + 1) /\ c \in 2 .. size
          /\ c > n
      BY <1>1, <2>2, <2>3, <2>5, <2>9
    <3>3. Parent(c) = n
      <4>1. (2 * n) \div 2 = n /\ (2 * n + 1) \div 2 = n
        BY <2>3
      <4> QED BY <2>2, <3>2, <4>1 DEF Parent
    <3>4. a[c] < a[n]
      <4>1. n \in 1 .. ArraySize /\ c \in 1 .. ArraySize
        BY <1>1, <2>3, <3>2
      <4> QED BY <2>4, <2>9, <4>1
    <3>5. ~OrderedFrom(a, size, i)
      <4>1. n \in 1 .. ArraySize /\ c \in 1 .. ArraySize /\ n >= i
        BY <1>1, <2>3, <3>2
      <4> QED BY <2>4, <3>2, <3>3, <3>4, <4>1 DEF OrderedFrom
    <3>6. /\ b \in Arrays /\ SameEntries(a, b, size)
          /\ OrderedFromBut(a, size, i, n) => OrderedFromBut(b, size, i, c)
      <4>1. size \in 0 .. ArraySize /\ n >= i
        BY <1>1, <2>3
      <4>2. \A j \in 2 .. size : Parent(j) = n => a[c] <= a[j]
        BY <2>7
      <4> HIDE DEF Good
      <4> QED BY <2>3, <3>1, <3>2, <3>3, <3>4, <4>1, <4>2, HeapifySwap
    <3>7. SameEntries(h, b, size)
      BY <2>1, <2>2, <3>6 DEF SameEntries
    <3>8. body[s] = <<b, c>> /\ <<b, c>> \in Arrays \X Indices
      BY <1>1, <2>6, <2>9, <3>1, <3>2, <3>6 DEF Indices
    <3>9. Good(<<b, c>>, k + 1)
      BY <1>1, <2>1, <2>2, <2>3, <3>2, <3>5, <3>6, <3>7
    <3> HIDE DEF Good
    <3> QED BY <1>2, <2>1, <3>8, <3>9
  <2> QED BY <2>8, <2>9
<1>6. Repeat(body, <<h, i>>, ArraySize) \in P[ArraySize]
  BY <1>1, <1>3, <1>5, RepeatKeeps
<1>7. PICK s : s = Repeat(body, <<h, i>>, ArraySize)
  OBVIOUS
<1>8. g = s[1] /\ Good(s, ArraySize)
  <2> HIDE DEF Good
  <2> QED BY <1>1, <1>2, <1>4, <1>6, <1>7 DEF Heapify, Loop
<1> QED BY <1>1, <1>8

\* build_heap swaps entries and makes a heap.
LEMMA BuildKeeps ==
  ASSUME NEW h \in Arrays, NEW size \in 1 .. ArraySize, NEW g, g = BuildHeap(h, size)
  PROVE  g \in Arrays /\ SameEntries(h, g, size) /\ Ordered(g, size)
<1>1. ArraySize \in Nat \ {0} /\ size \in Nat
  BY QueueConst
<1>2. PICK last : last = LastParent(size)
  OBVIOUS
<1>3. last \in Nat /\ (size = 2 * last \/ size = 2 * last + 1) /\ last < size
  BY <1>1, <1>2, ParentIs DEF LastParent
<1> DEFINE Good(s, k) ==
             /\ s[1] \in Arrays /\ s[2] \in 0 .. last /\ SameEntries(h, s[1], size)
             /\ OrderedFrom(s[1], size, s[2] + 1) /\ (s[2] + k <= last \/ s[2] = 0)
<1>4. PICK P : P = [k \in Nat |-> {s \in Arrays \X Indices : Good(s, k)}]
  OBVIOUS
<1>5. <<h, last>> \in P[0]
  <2>1. last \in Indices /\ SameEntries(h, h, size)
    BY <1>1, <1>3 DEF Indices, SameEntries
  <2>2. OrderedFrom(h, size, last + 1)
    <3>1. ASSUME NEW j \in 2 .. size PROVE ~(Parent(j) >= last + 1)
      <4>1. Parent(j) \in Nat /\ (j = 2 * Parent(j) \/ j = 2 * Parent(j) + 1)
        BY ParentIs
      <4> QED BY <1>1, <1>3, <4>1
    <3> QED BY <3>1 DEF OrderedFrom
  <2> QED BY <1>1, <1>3, <1>4, <2>1, <2>2
<1>6. PICK body : body = BuildBody(size)
  OBVIOUS
<1>7. ASSUME NEW k \in 0 .. ArraySize - 1, NEW s \in P[k] PROVE body[s] \in P[k + 1]
  <2>1. k \in Nat /\ s \in Arrays \X Indices /\ Good(s, k)
    BY <1>1, <1>4
  <2>2. PICK a, i : a = s[1] /\ i = s[2]
    OBVIOUS
  <2>3. body[s] = IF i = 0 THEN s ELSE <<Heapify(a, size, i), i - 1>>
    BY <1>6, <2>1, <2>2 DEF BuildBody
  <2>4. CASE i = 0
    <3>1. Good(s, k + 1)
      BY <2>1, <2>2, <2>4
    <3> QED BY <1>4, <2>1, <2>3, <2>4, <3>1
  <2>5. CASE i # 0
    <3>1. PICK b : b = Heapify(a, size, i)
      OBVIOUS
    <3>2. i \in 1 .. size /\ a \in Arrays /\ i - 1 \in Indices /\ i - 1 \in 0 .. last
      BY <1>1, <1>3, <2>1, <2>2, <2>5 DEF Indices
    <3>3. OrderedFrom(a, size, i + 1)
      BY <2>1, <2>2
    <3>4. b \in Arrays /\ SameEntries(a, b, size) /\ OrderedFrom(b, size, i)
      <4> HIDE DEF Good
      <4> QED BY <3>1, <3>2, <3>3, HeapifyKeeps
    <3>5. SameEntries(h, b, size)
      BY <2>1, <2>2, <3>4 DEF SameEntries
    <3>6. body[s] = <<b, i - 1>> /\ <<b, i - 1>> \in Arrays \X Indices
      BY <2>3, <2>5, <3>1, <3>2, <3>4
    <3>7. (i - 1) + 1 = i
      BY <1>1, <3>2
    <3>8. Good(<<b, i - 1>>, k + 1)
      BY <1>1, <1>3, <2>1, <2>2, <2>5, <3>2, <3>4, <3>5, <3>7
    <3> HIDE DEF Good
    <3> QED BY <1>4, <2>1, <3>6, <3>8
  <2> QED BY <2>4, <2>5
<1>8. Repeat(body, <<h, last>>, ArraySize) \in P[ArraySize]
  BY <1>1, <1>5, <1>7, RepeatKeeps
<1>9. PICK s : s = Repeat(body, <<h, last>>, ArraySize)
  OBVIOUS
<1>10. g = s[1] /\ Good(s, ArraySize)
  <2> HIDE DEF Good
  <2> QED BY <1>1, <1>2, <1>4, <1>6, <1>8, <1>9 DEF BuildHeap, Loop
<1>11. OrderedFrom(g, size, 1)
  BY <1>1, <1>3, <1>10
<1>12. Ordered(g, size)
  <2>1. ASSUME NEW j \in 2 .. size PROVE Parent(j) >= 1
    BY ParentIs
  <2> QED BY <1>11, <2>1 DEF Ordered, OrderedFrom
<1> QED BY <1>10, <1>12

\* The loops of rebalance_after_pop only swap entries.
LEMMA SinkKeeps ==
  ASSUME NEW h \in Arrays, NEW size \in 1 .. ArraySize, NEW i \in 1 .. size,
         NEW p \in 1 .. size, NEW node \in 1 .. size, NEW g, g = SinkLeft(h, p, node, i)
  PROVE  g \in Arrays /\ SameEntries(h, g, size)
<1>1. ArraySize \in Nat \ {0} /\ size \in Nat
  BY QueueConst
<1> DEFINE Good(s) ==
             /\ s[1] \in Arrays /\ s[2] \in 1 .. size /\ s[3] \in 1 .. 2 * ArraySize
             /\ SameEntries(h, s[1], size)
<1>2. PICK P : P = [k \in Nat |-> {s \in Arrays \X Indices \X Indices : Good(s)}]
  OBVIOUS
<1>3. <<h, p, node>> \in P[0]
  <2>1. p \in Indices /\ node \in Indices /\ SameEntries(h, h, size)
    BY <1>1 DEF Indices, SameEntries
  <2>2. node \in 1 .. 2 * ArraySize
    BY <1>1
  <2> QED BY <1>2, <2>1, <2>2
<1>4. PICK body : body = SinkBody(i)
  OBVIOUS
<1>5. ASSUME NEW k \in 0 .. ArraySize - 1, NEW s \in P[k] PROVE body[s] \in P[k + 1]
  <2>1. k \in Nat /\ s \in Arrays \X Indices \X Indices /\ Good(s)
    BY <1>1, <1>2
  <2>2. PICK a, m, n : a = s[1] /\ m = s[2] /\ n = s[3]
    OBVIOUS
  <2>3. body[s] = IF n > i \/ a[m] < a[n] THEN s ELSE <<Swapped(a, m, n), n, 2 * n>>
    BY <1>4, <2>1, <2>2 DEF SinkBody
  <2>4. CASE n > i \/ a[m] < a[n]
    BY <1>2, <2>1, <2>3, <2>4
  <2>5. CASE ~(n > i \/ a[m] < a[n])
    <3>1. PICK b : b = Swapped(a, m, n)
      OBVIOUS
    <3>2. /\ n \in 1 .. size /\ m \in 1 .. size /\ a \in Arrays /\ n \in Indices
          /\ 2 * n \in Indices /\ 2 * n \in 1 .. 2 * ArraySize /\ size \in 0 .. ArraySize
      BY <1>1, <2>1, <2>2, <2>5 DEF Indices
    <3>3. b \in Arrays /\ SameEntries(a, b, size)
      <4> HIDE DEF Good
      <4> QED BY <3>1, <3>2, SwapIs
    <3>4. SameEntries(h, b, size)
      BY <2>1, <2>2, <3>3 DEF SameEntries
    <3>5. body[s] = <<b, n, 2 * n>>
      BY <2>3, <2>5, <3>1
    <3> QED BY <1>2, <2>1, <3>2, <3>3, <3>4, <3>5
  <2> QED BY <2>4, <2>5
<1>6. Repeat(body, <<h, p, node>>, ArraySize) \in P[ArraySize]
  BY <1>1, <1>3, <1>5, RepeatKeeps
<1> QED BY <1>1, <1>2, <1>4, <1>6 DEF SinkLeft, Loop

LEMMA ClimbKeeps ==
  ASSUME NEW h \in Arrays, NEW size \in 1 .. ArraySize, NEW i \in 1 .. size,
         NEW g, g = ClimbLeft(h, i)
  PROVE  g \in Arrays /\ SameEntries(h, g, size)
<1>1. ArraySize \in Nat \ {0} /\ size \in Nat
  BY QueueConst
<1> DEFINE Good(s) == s[1] \in Arrays /\ s[2] \in 1 .. size /\ SameEntries(h, s[1], size)
<1>2. PICK P : P = [k \in Nat |-> {s \in Arrays \X Indices : Good(s)}]
  OBVIOUS
<1>3. <<h, i>> \in P[0]
  <2>1. i \in Indices /\ SameEntries(h, h, size)
    BY <1>1 DEF Indices, SameEntries
  <2> QED BY <1>2, <2>1
<1>4. PICK body : body = ClimbBody(i)
  OBVIOUS
<1>5. ASSUME NEW k \in 0 .. ArraySize - 1, NEW s \in P[k] PROVE body[s] \in P[k + 1]
  <2>1. k \in Nat /\ s \in Arrays \X Indices /\ Good(s)
    BY <1>1, <1>2
  <2>2. PICK a, j, p : a = s[1] /\ j = s[2] /\ p = Parent(j)
    OBVIOUS
  <2>3. body[s] = IF j % 2 = 1 THEN s ELSE <<SinkLeft(a, p, j, i), p>>
    BY <1>4, <2>1, <2>2 DEF ClimbBody
  <2>4. CASE j % 2 = 1
    BY <1>2, <2>1, <2>3, <2>4
  <2>5. CASE j % 2 # 1
    <3>1. PICK b : b = SinkLeft(a, p, j, i)
      OBVIOUS
    <3>2. j \in 1 .. size /\ a \in Arrays /\ j \in Nat
      BY <1>1, <2>1, <2>2
    <3>3. p \in 1 .. size /\ p \in Indices
      <4>1. p \in Nat /\ (j = 2 * p \/ j = 2 * p + 1)
        BY <2>2, <3>2, ParentIs
      <4>2. j # 1
        BY <2>5
      <4> QED BY <1>1, <3>2, <4>1, <4>2 DEF Indices
    <3>4. b \in Arrays /\ SameEntries(a, b, size)
      <4> HIDE DEF Good
      <4> QED BY <3>1, <3>2, <3>3, SinkKeeps
    <3>5. SameEntries(h, b, size)
      BY <2>1, <2>2, <3>4 DEF SameEntries
    <3>6. body[s] = <<b, p>>
      BY <2>3, <2>5, <3>1
    <3> QED BY <1>2, <2>1, <3>3, <3>4, <3>5, <3>6
  <2> QED BY <2>4, <2>5
<1>6. Repeat(body, <<h, i>>, ArraySize) \in P[ArraySize]
  BY <1>1, <1>3, <1>5, RepeatKeeps
<1> QED BY <1>1, <1>2, <1>4, <1>6 DEF ClimbLeft, Loop

LEMMA FirstLeaf ==
  ASSUME NEW size \in Nat
  PROVE  FirstLeftLeaf(size) \in 1 .. size + 2
<1>1. PICK i : i = Parent(size)
  OBVIOUS
<1>2. i \in Nat /\ i <= size
  BY <1>1, ParentIs
<1> QED BY <1>1, <1>2 DEF FirstLeftLeaf

LEMMA RebalanceKeeps ==
  ASSUME NEW h \in Arrays, NEW size \in 0 .. ArraySize - 1, NEW g, g = Rebalance(h, size)
  PROVE  g \in Arrays /\ SameEntries(h, g, size)
<1>1. ArraySize \in Nat \ {0} /\ size \in Nat
  BY QueueConst
<1> DEFINE Good(s) ==
             s[1] \in Arrays /\ s[2] \in 1 .. size + 2 /\ SameEntries(h, s[1], size)
<1>2. PICK P : P = [k \in Nat |-> {s \in Arrays \X Indices : Good(s)}]
  OBVIOUS
<1>3. PICK i : i = FirstLeftLeaf(size)
  OBVIOUS
<1>4. \A j \in 1 .. size + 2 : j \in Indices
  BY <1>1 DEF Indices
<1>5. <<h, i>> \in P[0]
  <2>1. i \in 1 .. size + 2 /\ i \in Indices /\ SameEntries(h, h, size)
    BY <1>1, <1>3, <1>4, FirstLeaf DEF SameEntries
  <2> QED BY <1>2, <2>1
<1>6. PICK body : body = RebalanceBody(size)
  OBVIOUS
<1>7. ASSUME NEW k \in 0 .. ArraySize - 1, NEW s \in P[k] PROVE body[s] \in P[k + 1]
  <2>1. k \in Nat /\ s \in Arrays \X Indices /\ Good(s)
    BY <1>1, <1>2
  <2>2. PICK a, j : a = s[1] /\ j = s[2]
    OBVIOUS
  <2>3. body[s] = IF j > size THEN s ELSE <<ClimbLeft(a, j), j + 2>>
    BY <1>6, <2>1, <2>2 DEF RebalanceBody
  <2>4. CASE j > size
    BY <1>2, <2>1, <2>3, <2>4
  <2>5. CASE ~(j > size)
    <3>1. PICK b : b = ClimbLeft(a, j)
      OBVIOUS
    <3>2. j \in 1 .. size /\ a \in Arrays /\ j + 2 \in 1 .. size + 2 /\ size \in 1 .. ArraySize
      BY <1>1, <2>1, <2>2, <2>5
    <3>3. b \in Arrays /\ SameEntries(a, b, size)
      <4> HIDE DEF Good
      <4> QED BY <3>1, <3>2, ClimbKeeps
    <3>4. SameEntries(h, b, size)
      BY <2>1, <2>2, <3>3 DEF SameEntries
    <3>5. body[s] = <<b, j + 2>> /\ j + 2 \in Indices
      BY <1>4, <2>3, <2>5, <3>1, <3>2
    <3> QED BY <1>2, <2>1, <3>2, <3>3, <3>4, <3>5
  <2> QED BY <2>4, <2>5
<1>8. Repeat(body, <<h, i>>, ArraySize) \in P[ArraySize]
  BY <1>1, <1>5, <1>7, RepeatKeeps
<1> QED BY <1>1, <1>2, <1>3, <1>6, <1>8 DEF Rebalance, Loop

\* rebalance_after_pop makes a heap of at most four entries, all but the first
\* children of those of a heap: it compares the second with the first.
LEMMA SinkOnce ==
  ASSUME NEW h \in Arrays, NEW i \in Nat, NEW p \in Nat, NEW n \in Nat, p >= 1, p < n,
         n <= i, i < ArraySize, 2 * n > i, NEW g, g = SinkLeft(h, p, n, i)
  PROVE  g = IF h[p] < h[n] THEN h ELSE Swapped(h, p, n)
<1>1. ArraySize \in Nat \ {0} /\ p \in Indices /\ n \in Indices /\ 2 * n \in Indices
      /\ p \in 1 .. ArraySize - 1 /\ n \in 1 .. ArraySize - 1
  BY QueueConst DEF Indices
<1>2. PICK body, s, b : body = SinkBody(i) /\ s = <<h, p, n>> /\ b = Swapped(h, p, n)
  OBVIOUS
<1>3. g = Repeat(body, s, ArraySize)[1]
  BY <1>2 DEF SinkLeft, Loop
<1>4. b \in Arrays
  <2>1. ArraySize \in 0 .. ArraySize /\ p \in 1 .. ArraySize /\ n \in 1 .. ArraySize
    BY <1>1
  <2> QED BY <1>2, <2>1, SwapIs
<1>5. s \in Arrays \X Indices \X Indices /\ <<b, n, 2 * n>> \in Arrays \X Indices \X Indices
  BY <1>1, <1>2, <1>4
<1>6. body[s] = IF h[p] < h[n] THEN s ELSE <<b, n, 2 * n>>
  BY <1>2, <1>5 DEF SinkBody
<1>7. body[<<b, n, 2 * n>>] = <<b, n, 2 * n>>
  BY <1>2, <1>5 DEF SinkBody
<1>8. CASE h[p] < h[n]
  <2>1. body[s] = s /\ ArraySize \in Nat /\ ArraySize >= 1
    BY <1>1, <1>6, <1>8
  <2>2. Repeat(body, s, ArraySize) = s
    BY <2>1, RepeatOnce
  <2> QED BY <1>2, <1>3, <1>8, <2>2
<1>9. CASE ~(h[p] < h[n])
  <2>1. PICK e : e = <<b, n, 2 * n>>
    OBVIOUS
  <2>2. body[s] = e /\ body[e] = e /\ ArraySize \in Nat /\ ArraySize >= 1
    BY <1>1, <1>6, <1>7, <1>9, <2>1
  <2>3. Repeat(body, s, ArraySize) = e
    BY <2>2, RepeatOnce
  <2> QED BY <1>2, <1>3, <1>9, <2>1, <2>3
<1> QED BY <1>8, <1>9

\* The chain of entries 1, 2 and 4.
LEMMA SinkTwice ==
  ASSUME NEW h \in Arrays, ArraySize > 4, NEW g, g = SinkLeft(h, 1, 2, 4)
  PROVE  g = IF h[1] < h[2] THEN h
             ELSE IF Swapped(h, 1, 2)[2] < Swapped(h, 1, 2)[4] THEN Swapped(h, 1, 2)
                  ELSE Swapped(Swapped(h, 1, 2), 2, 4)
<1>1. /\ ArraySize \in Nat \ {0} /\ 1 \in Indices /\ 2 \in Indices /\ 4 \in Indices /\ 8 \in Indices
      /\ ArraySize \in 0 .. ArraySize
      /\ 1 \in 1 .. ArraySize /\ 2 \in 1 .. ArraySize /\ 4 \in 1 .. ArraySize
  BY QueueConst DEF Indices
<1>2. PICK body, b, c : body = SinkBody(4) /\ b = Swapped(h, 1, 2) /\ c = Swapped(b, 2, 4)
  OBVIOUS
<1>3. PICK x, y, z : x = <<h, 1, 2>> /\ y = <<b, 2, 4>> /\ z = <<c, 4, 8>>
  OBVIOUS
<1>4. g = Repeat(body, x, ArraySize)[1]
  BY <1>2, <1>3 DEF SinkLeft, Loop
<1>5. b \in Arrays
  BY <1>1, <1>2, SwapIs
<1>6. c \in Arrays
  BY <1>1, <1>2, <1>5, SwapIs
<1>7. /\ x \in Arrays \X Indices \X Indices /\ y \in Arrays \X Indices \X Indices
      /\ z \in Arrays \X Indices \X Indices
  BY <1>1, <1>3, <1>5, <1>6
<1>8. body[x] = IF h[1] < h[2] THEN x ELSE y
  BY <1>2, <1>3, <1>7 DEF SinkBody
<1>9. body[y] = IF b[2] < b[4] THEN y ELSE z
  BY <1>2, <1>3, <1>7 DEF SinkBody
<1>10. body[z] = z
  BY <1>2, <1>3, <1>7 DEF SinkBody
<1>11. CASE h[1] < h[2]
  <2>1. Repeat(body, x, ArraySize) = x
    BY <1>1, <1>8, <1>11, RepeatOnce
  <2> QED BY <1>3, <1>4, <1>11, <2>1
<1>12. CASE ~(h[1] < h[2]) /\ b[2] < b[4]
  <2>1. Repeat(body, x, ArraySize) = y
    BY <1>1, <1>8, <1>9, <1>12, RepeatOnce
  <2> QED BY <1>2, <1>3, <1>4, <1>12, <2>1
<1>13. CASE ~(h[1] < h[2]) /\ ~(b[2] < b[4])
  <2>1. Repeat(body, x, ArraySize) = z
    BY <1>1, <1>8, <1>9, <1>10, <1>13, RepeatTwice
  <2> QED BY <1>2, <1>3, <1>4, <1>13, <2>1
<1> QED BY <1>11, <1>12, <1>13

LEMMA ClimbIs ==
  ASSUME NEW h \in Arrays, NEW g
  PROVE  /\ ArraySize > 2 /\ g = ClimbLeft(h, 2) => g = SinkLeft(h, 1, 2, 2)
         /\ ArraySize > 4 /\ g = ClimbLeft(h, 4) => g = SinkLeft(SinkLeft(h, 2, 4, 4), 1, 2, 4)
<1>1. ArraySize \in Nat \ {0} /\ Parent(2) = 1 /\ Parent(4) = 2
  BY QueueConst DEF Parent
<1>2. ASSUME ArraySize > 2, g = ClimbLeft(h, 2) PROVE g = SinkLeft(h, 1, 2, 2)
  <2>1. 1 \in Indices /\ 2 \in Indices /\ 2 \in 1 .. ArraySize /\ 1 \in 1 .. 2 /\ 2 \in 1 .. 2
    BY <1>1, <1>2 DEF Indices
  <2>2. PICK body, b, x, y : /\ body = ClimbBody(2) /\ b = SinkLeft(h, 1, 2, 2)
                             /\ x = <<h, 2>> /\ y = <<b, 1>>
    OBVIOUS
  <2>3. b \in Arrays
    BY <2>1, <2>2, SinkKeeps
  <2>4. x \in Arrays \X Indices /\ y \in Arrays \X Indices
    BY <2>1, <2>2, <2>3
  <2>5. body[x] = y /\ body[y] = y
    BY <1>1, <2>2, <2>4 DEF ClimbBody
  <2>6. Repeat(body, x, ArraySize) = y
    BY <1>1, <2>5, RepeatOnce
  <2> QED BY <1>2, <2>2, <2>6 DEF ClimbLeft, Loop
<1>3. ASSUME ArraySize > 4, g = ClimbLeft(h, 4)
      PROVE  g = SinkLeft(SinkLeft(h, 2, 4, 4), 1, 2, 4)
  <2>1. /\ 1 \in Indices /\ 2 \in Indices /\ 4 \in Indices /\ 4 \in 1 .. ArraySize
        /\ 1 \in 1 .. 4 /\ 2 \in 1 .. 4 /\ 4 \in 1 .. 4
    BY <1>1, <1>3 DEF Indices
  <2>2. PICK body, b, c : /\ body = ClimbBody(4) /\ b = SinkLeft(h, 2, 4, 4)
                          /\ c = SinkLeft(b, 1, 2, 4)
    OBVIOUS
  <2>3. PICK x, y, z : x = <<h, 4>> /\ y = <<b, 2>> /\ z = <<c, 1>>
    OBVIOUS
  <2>4. b \in Arrays
    BY <2>1, <2>2, SinkKeeps
  <2>5. c \in Arrays
    BY <2>1, <2>2, <2>4, SinkKeeps
  <2>6. x \in Arrays \X Indices /\ y \in Arrays \X Indices /\ z \in Arrays \X Indices
    BY <2>1, <2>3, <2>4, <2>5
  <2>7. body[x] = y /\ body[y] = z /\ body[z] = z
    BY <1>1, <2>2, <2>3, <2>6 DEF ClimbBody
  <2>8. Repeat(body, x, ArraySize) = z
    BY <1>1, <1>3, <2>7, RepeatTwice
  <2> QED BY <1>3, <2>2, <2>3, <2>8 DEF ClimbLeft, Loop
<1> QED BY <1>2, <1>3

LEMMA RebalanceIs ==
  ASSUME NEW h \in Arrays, NEW size \in 0 .. 4, size < ArraySize, NEW g, g = Rebalance(h, size)
  PROVE  g = IF size = 4 THEN ClimbLeft(h, 4)
             ELSE IF size >= 2 THEN ClimbLeft(h, 2) ELSE h
<1>1. PICK i : i = IF size = 4 THEN 4 ELSE 2
  OBVIOUS
<1>2. FirstLeftLeaf(size) = i
  <2>1. size \in {0, 1, 2, 3, 4}
    OBVIOUS
  <2>2. 0 \div 2 = 0 /\ 1 \div 2 = 0 /\ 2 \div 2 = 1 /\ 3 \div 2 = 1 /\ 4 \div 2 = 2
        /\ 0 % 2 = 0 /\ 1 % 2 = 1 /\ 2 % 2 = 0
    OBVIOUS
  <2> QED BY <1>1, <2>1, <2>2 DEF FirstLeftLeaf, Parent
<1>3. ArraySize \in Nat \ {0} /\ i \in Indices /\ size \in Nat /\ (size >= 2 => i + 2 \in Indices)
      /\ (size >= 2 => i \in 1 .. size /\ size \in 1 .. ArraySize)
      /\ i + 2 > size /\ (size < 2 => i > size)
  <2>1. size \in {0, 1, 2, 3, 4} /\ ArraySize \in Nat \ {0} /\ i \in Nat
    BY <1>1, QueueConst
  <2>2. i + 2 > size /\ (size < 2 => i > size) /\ (size >= 2 => i <= size)
        /\ i <= 2 * ArraySize + 1
    BY <1>1, <2>1
  <2>3. size >= 2 => i + 2 <= 2 * ArraySize + 1
    BY <1>1, <2>1
  <2> QED BY <1>1, <2>1, <2>2, <2>3 DEF Indices
<1>9. PICK body : body = RebalanceBody(size)
  OBVIOUS
<1>4. PICK b, x, y : b = ClimbLeft(h, i) /\ x = <<h, i>> /\ y = <<b, i + 2>>
  OBVIOUS
<1>5. g = Repeat(body, x, ArraySize)[1]
  BY <1>2, <1>4, <1>9 DEF Rebalance, Loop
<1>6. x \in Arrays \X Indices
  BY <1>3, <1>4
<1>7. CASE size < 2
  <2>1. body[x] = x
    BY <1>3, <1>4, <1>6, <1>7, <1>9 DEF RebalanceBody
  <2>2. Repeat(body, x, ArraySize) = x
    BY <1>3, <2>1, RepeatOnce
  <2> QED BY <1>3, <1>4, <1>5, <1>7, <2>2
<1>8. CASE size >= 2
  <2>1. b \in Arrays
    BY <1>3, <1>4, <1>8, ClimbKeeps
  <2>2. y \in Arrays \X Indices
    BY <1>3, <1>4, <1>8, <2>1
  <2>3. i <= size
    BY <1>3, <1>8
  <2>4. body[x] = y
    <3>1. x[1] = h /\ x[2] = i /\ ~(x[2] > size)
      <4>1. i \in Nat
        BY <1>1
      <4> QED BY <1>3, <1>4, <2>3, <4>1
    <3>2. body[x] = IF x[2] > size THEN x ELSE <<ClimbLeft(x[1], x[2]), x[2] + 2>>
      BY <1>6, <1>9 DEF RebalanceBody
    <3>3. body[x] = <<ClimbLeft(h, i), i + 2>>
      BY <3>1, <3>2
    <3> QED BY <1>4, <3>3
  <2>6. body[y] = y
    <3>1. y[2] = i + 2 /\ y[2] > size
      BY <1>3, <1>4
    <3> QED BY <1>9, <2>2, <3>1 DEF RebalanceBody
  <2>5. Repeat(body, x, ArraySize) = y
    <3>1. ArraySize \in Nat /\ ArraySize >= 1
      BY <1>3
    <3> QED BY <2>4, <2>6, <3>1, RepeatOnce
  <2> QED BY <1>1, <1>3, <1>4, <1>5, <1>8, <2>5
<1> QED BY <1>3, <1>7, <1>8

LEMMA PopOrders ==
  ASSUME NEW h \in Arrays, NEW size \in 0 .. 4, size < ArraySize, NEW g, g = Rebalance(h, size),
         size >= 3 => h[1] <= h[3], size >= 4 => h[1] <= h[4]
  PROVE  Ordered(g, size)
<1>1. /\ ArraySize \in Nat \ {0} /\ size \in {0, 1, 2, 3, 4}
      /\ \A l \in 1 .. size : l \in 1 .. ArraySize
      /\ \A l \in 1 .. ArraySize : h[l] \in Nat
  BY QueueConst DEF Arrays
<1>2. Parent(2) = 1 /\ Parent(3) = 1 /\ Parent(4) = 2
  BY DEF Parent
<1>3. CASE size < 2
  BY <1>1, <1>3 DEF Ordered
<1>4. CASE size = 2 \/ size = 3
  <2>1. PICK b : b = Swapped(h, 1, 2)
    OBVIOUS
  <2>2. g = IF h[1] < h[2] THEN h ELSE b
    <3>1. g = ClimbLeft(h, 2) /\ ArraySize > 2
      BY <1>1, <1>4, RebalanceIs
    <3>2. g = SinkLeft(h, 1, 2, 2)
      BY <1>1, <3>1, ClimbIs
    <3> QED BY <2>1, <3>1, <3>2, SinkOnce
  <2>3. 1 \in 1 .. ArraySize /\ 2 \in 1 .. ArraySize /\ (size = 3 => 3 \in 1 .. ArraySize)
        /\ ArraySize \in 0 .. ArraySize
    BY <1>1, <1>4
  <2>4. /\ b[1] = h[2] /\ b[2] = h[1]
        /\ \A l \in 1 .. ArraySize : l # 1 /\ l # 2 => b[l] = h[l]
    BY <2>1, <2>3 DEF Swapped, Arrays
  <2>5. g[1] <= g[2] /\ (size = 3 => g[1] <= g[3])
    BY <1>1, <1>4, <2>2, <2>3, <2>4
  <2>6. \A j \in 2 .. size : j = 2 \/ (j = 3 /\ size = 3)
    BY <1>4
  <2> QED BY <1>2, <2>5, <2>6 DEF Ordered
<1>5. CASE size = 4
  <2>1. /\ ArraySize > 4 /\ 1 \in 1 .. ArraySize /\ 2 \in 1 .. ArraySize /\ 3 \in 1 .. ArraySize
        /\ 4 \in 1 .. ArraySize /\ ArraySize \in 0 .. ArraySize
    BY <1>1, <1>5
  <2>2. PICK a : a = SinkLeft(h, 2, 4, 4)
    OBVIOUS
  <2>3. g = SinkLeft(a, 1, 2, 4)
    <3>1. g = ClimbLeft(h, 4)
      BY <1>5, RebalanceIs
    <3> QED BY <2>1, <2>2, <3>1, ClimbIs
  <2>4. a \in Arrays /\ a[1] = h[1] /\ a[3] = h[3] /\ a[2] <= a[4]
        /\ {a[2], a[4]} = {h[2], h[4]}
    <3>1. PICK b : b = Swapped(h, 2, 4)
      OBVIOUS
    <3>2. a = IF h[2] < h[4] THEN h ELSE b
      BY <2>1, <2>2, <3>1, SinkOnce
    <3>3. /\ b \in Arrays /\ b[2] = h[4] /\ b[4] = h[2]
          /\ \A l \in 1 .. ArraySize : l # 2 /\ l # 4 => b[l] = h[l]
      BY <2>1, <3>1 DEF Swapped, Arrays
    <3>4. b[1] = h[1] /\ b[3] = h[3]
      BY <2>1, <3>3
    <3>5. h[2] \in Nat /\ h[4] \in Nat
      BY <1>1, <2>1
    <3> QED BY <3>2, <3>3, <3>4, <3>5
  <2>5. PICK b, c : b = Swapped(a, 1, 2) /\ c = Swapped(b, 2, 4)
    OBVIOUS
  <2>6. g = IF a[1] < a[2] THEN a ELSE IF b[2] < b[4] THEN b ELSE c
    BY <2>1, <2>3, <2>4, <2>5, SinkTwice
  <2>7. b \in Arrays /\ b[1] = a[2] /\ b[2] = a[1] /\ b[3] = a[3] /\ b[4] = a[4]
    <3>1. /\ b \in Arrays /\ b[1] = a[2] /\ b[2] = a[1]
          /\ \A l \in 1 .. ArraySize : l # 1 /\ l # 2 => b[l] = a[l]
      BY <2>1, <2>4, <2>5 DEF Swapped, Arrays
    <3> QED BY <2>1, <3>1
  <2>8. c[1] = b[1] /\ c[2] = b[4] /\ c[3] = b[3] /\ c[4] = b[2]
    <3>1. /\ c[2] = b[4] /\ c[4] = b[2]
          /\ \A l \in 1 .. ArraySize : l # 2 /\ l # 4 => c[l] = b[l]
      BY <2>1, <2>5, <2>7 DEF Swapped, Arrays
    <3> QED BY <2>1, <3>1
  <2>9. /\ a[1] \in Nat /\ a[2] \in Nat /\ a[3] \in Nat /\ a[4] \in Nat
        /\ a[1] <= a[3] /\ (a[1] <= a[2] \/ a[1] <= a[4]) /\ a[2] <= a[4]
    <3>1. a[1] \in Nat /\ a[2] \in Nat /\ a[3] \in Nat /\ a[4] \in Nat
      BY <2>1, <2>4 DEF Arrays
    <3>2. h[1] <= h[3] /\ h[1] <= h[4]
      BY <1>5
    <3> QED BY <2>4, <3>1, <3>2
  <2>10. g[1] <= g[2] /\ g[1] <= g[3] /\ g[2] <= g[4]
    <3>1. CASE a[1] < a[2]
      BY <2>6, <2>9, <3>1
    <3>2. CASE ~(a[1] < a[2]) /\ b[2] < b[4]
      BY <2>6, <2>7, <2>9, <3>2
    <3>3. CASE ~(a[1] < a[2]) /\ ~(b[2] < b[4])
      BY <2>6, <2>7, <2>8, <2>9, <3>3
    <3> QED BY <3>1, <3>2, <3>3
  <2>11. \A j \in 2 .. size : j = 2 \/ j = 3 \/ j = 4
    BY <1>5
  <2> QED BY <1>2, <2>10, <2>11 DEF Ordered
<1> QED BY <1>1, <1>3, <1>4, <1>5

\* The places of the circular array, seen from its head.
LEMMA Around ==
  ASSUME NEW n \in Nat \ {0}, NEW x \in Nat, x < 2 * n
  PROVE  x % n = IF x < n THEN x ELSE x - n
<1>1. CASE x < n
  <2>1. (n * 0 + x) % n = x
    BY <1>1, ModUnique
  <2> QED BY <1>1, <2>1
<1>2. CASE ~(x < n)
  <2>1. PICK r : r = x - n
    OBVIOUS
  <2>2. r \in 0 .. n - 1 /\ n * 1 + r = x
    BY <1>2, <2>1
  <2>3. (n * 1 + r) % n = r
    BY <2>2, ModUnique
  <2> QED BY <1>2, <2>1, <2>2, <2>3
<1> QED BY <1>1, <1>2

Heads == 0 .. ArraySize - 1

WrappedAround(x) == IF x < ArraySize THEN x ELSE x - ArraySize

LEMMA AtIs ==
  ASSUME NEW head \in Heads
  PROVE  /\ \A i \in 1 .. ArraySize :
              At(head, i) \in Heads
              /\ At(head, i) = WrappedAround(head + i)
         /\ \A i, j \in 1 .. ArraySize : At(head, i) = At(head, j) => i = j
         /\ \A j \in Heads : \E i \in 1 .. ArraySize : At(head, i) = j
<1>1. ArraySize \in Nat \ {0} /\ head \in Nat /\ head < ArraySize
  BY QueueConst DEF Heads
<1>2. ASSUME NEW i \in 1 .. ArraySize
      PROVE  At(head, i) \in Heads
              /\ At(head, i) = WrappedAround(head + i)
  <2>1. head + i \in Nat /\ head + i < 2 * ArraySize /\ i \in Nat /\ i <= ArraySize
    BY <1>1
  <2>2. PICK x : x = head + i
    OBVIOUS
  <2>3. x \in Nat /\ x < 2 * ArraySize
    BY <2>1, <2>2
  <2>4. x % ArraySize = WrappedAround(x)
    BY <1>1, <2>3, Around DEF WrappedAround
  <2>5. At(head, i) = x % ArraySize
    BY <2>2 DEF At
  <2>6. WrappedAround(x) \in Heads
    BY <1>1, <2>1, <2>2, <2>3 DEF Heads, WrappedAround
  <2> QED BY <2>2, <2>4, <2>5, <2>6
<1>3. ASSUME NEW i \in 1 .. ArraySize, NEW j \in 1 .. ArraySize, At(head, i) = At(head, j)
      PROVE  i = j
  <2>1. /\ At(head, i) = WrappedAround(head + i)
        /\ At(head, j) = WrappedAround(head + j)
    BY <1>2
  <2>2. i \in Nat /\ j \in Nat /\ i >= 1 /\ j >= 1 /\ i <= ArraySize /\ j <= ArraySize
    BY <1>1
  <2>3. PICK x, y : x = head + i /\ y = head + j
    OBVIOUS
  <2>4. x \in Nat /\ y \in Nat /\ x - y = i - j
    BY <1>1, <2>2, <2>3
  <2>5. WrappedAround(x) = WrappedAround(y)
    BY <1>3, <2>1, <2>3
  <2>6. x = y \/ x = y + ArraySize \/ y = x + ArraySize
    BY <1>1, <2>4, <2>5 DEF WrappedAround
  <2>7. x > head /\ y > head /\ x <= head + ArraySize /\ y <= head + ArraySize
    BY <1>1, <2>2, <2>3
  <2>8. x = y
    BY <1>1, <2>4, <2>6, <2>7
  <2> QED BY <2>2, <2>4, <2>8
<1>4. ASSUME NEW j \in Heads PROVE \E i \in 1 .. ArraySize : At(head, i) = j
  <2>1. PICK i : i = IF j > head THEN j - head ELSE j + ArraySize - head
    OBVIOUS
  <2>2. i \in 1 .. ArraySize /\ j \in Nat /\ j < ArraySize
    BY <1>1, <2>1 DEF Heads
  <2>3. At(head, i) = WrappedAround(head + i)
    BY <1>2, <2>2
  <2>4. At(head, i) = j
    BY <1>1, <2>1, <2>2, <2>3 DEF WrappedAround
  <2> QED BY <2>2, <2>4
<1> QED BY <1>2, <1>3, <1>4

LEMMA WrittenIs ==
  ASSUME NEW head \in Heads, NEW h \in Arrays, NEW w, w = Written(head, h)
  PROVE  /\ w \in [Heads -> Nat]
         /\ \A i \in 1 .. ArraySize : w[At(head, i)] = h[i]
<1>1. ASSUME NEW j \in Heads
      PROVE  \E i \in 1 .. ArraySize : At(head, i) = j /\ w[j] = h[i]
  <2>1. PICK i : i = CHOOSE e \in 1 .. ArraySize : At(head, e) = j
    OBVIOUS
  <2>2. i \in 1 .. ArraySize /\ At(head, i) = j
    BY <2>1, AtIs
  <2>3. w[j] = h[i]
    BY <2>1 DEF Written, Heads
  <2> QED BY <2>2, <2>3
<1>2. w = [j \in Heads |-> w[j]]
  BY DEF Written, Heads
<1>3. \A j \in Heads : w[j] \in Nat
  BY <1>1 DEF Arrays
<1>4. w \in [Heads -> Nat]
  BY <1>2, <1>3
<1>5. ASSUME NEW i \in 1 .. ArraySize PROVE w[At(head, i)] = h[i]
  <2>1. At(head, i) \in Heads
    BY AtIs
  <2>2. PICK k \in 1 .. ArraySize : At(head, k) = At(head, i) /\ w[At(head, i)] = h[k]
    BY <1>1, <2>1
  <2>3. k = i
    BY <2>2, AtIs
  <2> QED BY <2>2, <2>3
<1> QED BY <1>4, <1>5

\* A step that writes the array g, seen from head, back.
LEMMA LookupAfter ==
  ASSUME NEW g \in Arrays, headIndex' \in Heads, entryArray' = Written(headIndex', g)
  PROVE  /\ entryArray' \in [Heads -> Nat]
         /\ \A i \in 1 .. ArraySize : Lookup(i)' = g[i]
<1>1. PICK head : head = headIndex'
  OBVIOUS
<1>2. PICK w : w = entryArray'
  OBVIOUS
<1>3. w \in [Heads -> Nat] /\ \A i \in 1 .. ArraySize : w[At(head, i)] = g[i]
  BY <1>1, <1>2, WrittenIs
<1>4. \A i : Lookup(i)' = w[At(head, i)]
  BY <1>1, <1>2 DEF Lookup, At
<1> QED BY <1>2, <1>3, <1>4
----------------------------------------------------------------------------
QueueTypeOK ==
  /\ entryArray \in [Heads -> Nat] /\ headIndex \in Heads
  /\ queueSize \in 0 .. ArraySize /\ longest \in Nat /\ queueSize <= longest
  /\ queued \in [Priorities -> Nat]

Seen == [i \in 1 .. ArraySize |-> Lookup(i)]

(* EntriesKept and the heap, of the array seen from its head; it holds     *)
(* until append_n copies past the end of the array.                        *)
HeapInv ==
  /\ QueueTypeOK
  /\ \A p \in Priorities : queued[p] = Copies(Seen, queueSize, p)
  /\ longest <= 5 => Ordered(Seen, queueSize)

LEMMA SeenIs == QueueTypeOK => /\ Seen \in Arrays /\ View(headIndex) = Seen
                               /\ \A i \in 1 .. ArraySize : Seen[i] = Lookup(i)
<1> SUFFICES ASSUME QueueTypeOK PROVE /\ Seen \in Arrays /\ View(headIndex) = Seen
                               /\ \A i \in 1 .. ArraySize : Seen[i] = Lookup(i)
  OBVIOUS
<1>1. \A i \in 1 .. ArraySize : Lookup(i) \in Nat
  BY AtIs DEF QueueTypeOK, Lookup
<1> QED BY <1>1 DEF Seen, Arrays, View, Lookup

LEMMA QueueInvMeans == (queueOverrun = "none" => HeapInv) => ShortQueueOrdered
<1> SUFFICES ASSUME queueOverrun = "none", HeapInv
             PROVE  EntriesKept /\ (longest <= 5 => IsValidHeap)
  BY DEF ShortQueueOrdered
<1>1. /\ ArraySize \in Nat \ {0} /\ queueSize \in 0 .. ArraySize
      /\ \A i \in 1 .. queueSize : i \in 1 .. ArraySize
  BY QueueConst DEF HeapInv, QueueTypeOK
<1>2. \A i \in 1 .. queueSize : Seen[i] = Lookup(i)
  BY <1>1, SeenIs DEF HeapInv
<1>3. \A p : {i \in 1 .. queueSize : Lookup(i) = p} = PlacesOf(Seen, queueSize, p)
  BY <1>2 DEF PlacesOf
<1>4. EntriesKept
  BY <1>3 DEF EntriesKept, HeapInv, Copies
<1>5. ASSUME longest <= 5 PROVE IsValidHeap
  <2>1. \A i \in 2 .. queueSize : i \in 1 .. queueSize /\ Parent(i) \in 1 .. queueSize
    <3>1. ASSUME NEW i \in 2 .. queueSize
          PROVE  i \in 1 .. queueSize /\ Parent(i) \in 1 .. queueSize
      <4>1. i \in Nat /\ Parent(i) \in Nat /\ (i = 2 * Parent(i) \/ i = 2 * Parent(i) + 1)
        BY <1>1, ParentIs
      <4> QED BY <1>1, <4>1
    <3> QED BY <3>1
  <2> QED BY <1>2, <1>5, <2>1 DEF IsValidHeap, HeapInv, Ordered
<1> QED BY <1>4, <1>5

One(x, q) == IF x = q THEN 1 ELSE 0

LEMMA CopiesAdded ==
  ASSUME NEW h, NEW size \in Nat, NEW g, \A i \in 1 .. size : g[i] = h[i], NEW q,
         NEW more, more = size + 1
  PROVE  Copies(g, more, q) = Copies(h, size, q) + One(g[more], q)
<1>1. PICK S, T : S = PlacesOf(h, size, q) /\ T = PlacesOf(g, more, q)
  OBVIOUS
<1>2. IsFiniteSet(S) /\ Cardinality(S) = Copies(h, size, q) /\ Cardinality(S) \in Nat
  BY <1>1, PlacesFinite DEF Copies
<1>3. size + 1 \notin S /\ 1 .. size + 1 = (1 .. size) \cup {size + 1}
  BY <1>1 DEF PlacesOf
<1>4. CASE g[size + 1] = q
  <2>1. T = S \cup {size + 1}
    BY <1>1, <1>3, <1>4 DEF PlacesOf
  <2>2. PICK x : x = size + 1
    OBVIOUS
  <2>3. Cardinality(S \cup {x}) = Cardinality(S) + 1
    BY <1>2, <1>3, <2>2, FS_AddElement
  <2> QED BY <1>1, <1>2, <1>4, <2>1, <2>2, <2>3 DEF Copies, One
<1>5. CASE g[size + 1] # q
  <2>1. T = S
    BY <1>1, <1>3, <1>5 DEF PlacesOf
  <2> QED BY <1>1, <1>2, <1>5, <2>1 DEF Copies, One
<1> QED BY <1>4, <1>5

\* The array that pop leaves, seen from the next head, lacks the first entry.
LEMMA CopiesPopped ==
  ASSUME NEW h, NEW size \in Nat, NEW g, \A i \in 1 .. size : g[i] = h[i + 1], NEW q,
         NEW more, more = size + 1
  PROVE  Copies(h, more, q) = Copies(g, size, q) + One(h[1], q)
<1>1. PICK S, T, U : /\ S = PlacesOf(g, size, q) /\ T = PlacesOf(h, more, q)
                     /\ U = {i \in 2 .. size + 1 : h[i] = q}
  OBVIOUS
<1>2. IsFiniteSet(S) /\ Cardinality(S) = Copies(g, size, q) /\ Cardinality(S) \in Nat
  BY <1>1, PlacesFinite DEF Copies
<1>3. IsFiniteSet(U) /\ Cardinality(U) = Cardinality(S)
  <2>1. PICK f : f = [i \in S |-> i + 1]
    OBVIOUS
  <2>2. ASSUME NEW i \in S PROVE i + 1 \in U
    BY <1>1 DEF PlacesOf
  <2>3. f \in [S -> U]
    BY <2>1, <2>2
  <2>4. \A i \in S : i \in Nat
    BY <1>1 DEF PlacesOf
  <2>5. \A i, j \in S : f[i] = f[j] => i = j
    BY <2>1, <2>4
  <2>6. ASSUME NEW u \in U PROVE \E i \in S : f[i] = u
    <3>1. PICK i : i = u - 1
      OBVIOUS
    <3>2. i \in 1 .. size /\ i + 1 = u /\ h[u] = q
      BY <1>1, <3>1
    <3>3. i \in S
      BY <1>1, <3>2 DEF PlacesOf
    <3> QED BY <2>1, <3>2, <3>3
  <2>7. f \in Bijection(S, U)
    BY <2>3, <2>5, <2>6 DEF Bijection, Injection, Surjection, IsInjective
  <2> QED BY <1>2, <2>7, FS_Bijection DEF ExistsBijection
<1>4. 1 \notin U /\ 1 .. size + 1 = (2 .. size + 1) \cup {1}
  BY <1>1
<1>5. CASE h[1] = q
  <2>1. T = U \cup {1}
    BY <1>1, <1>4, <1>5 DEF PlacesOf
  <2>2. Cardinality(U \cup {1}) = Cardinality(U) + 1
    BY <1>3, <1>4, FS_AddElement
  <2> QED BY <1>1, <1>2, <1>3, <1>5, <2>1, <2>2 DEF Copies, One
<1>6. CASE h[1] # q
  <2>1. T = U
    BY <1>1, <1>4, <1>6 DEF PlacesOf
  <2> QED BY <1>1, <1>2, <1>3, <1>6, <2>1 DEF Copies, One
<1> QED BY <1>5, <1>6

\* What follows of the next state, from the array that it sees from its head.
LEMMA QueueAfter ==
  ASSUME NEW g \in Arrays, headIndex' \in Heads, entryArray' = Written(headIndex', g),
         queueSize' \in 0 .. ArraySize, longest' \in Nat, queueSize' <= longest',
         queued' \in [Priorities -> Nat],
         \A p \in Priorities : queued'[p] = Copies(g, queueSize', p),
         longest' <= 5 => Ordered(g, queueSize')
  PROVE  HeapInv'
<1>1. entryArray' \in [Heads -> Nat] /\ \A i \in 1 .. ArraySize : Lookup(i)' = g[i]
  BY LookupAfter
<1>2. Seen' = [i \in 1 .. ArraySize |-> g[i]]
  BY <1>1 DEF Seen
<1>3. Seen' = g
  BY <1>2 DEF Arrays
<1>4. QueueTypeOK'
  BY <1>1 DEF QueueTypeOK
<1> QED BY <1>3, <1>4 DEF HeapInv

LEMMA InsertKeeps == ASSUME HeapInv, NEW p \in Priorities, Insert(p) PROVE HeapInv'
<1>1. /\ ArraySize \in Nat \ {0} /\ p \in Nat /\ queueSize \in Nat /\ queueSize < ArraySize
      /\ headIndex \in Heads /\ longest \in Nat /\ queueSize <= longest
      /\ queued \in [Priorities -> Nat] /\ queued' = [queued EXCEPT ![p] = @ + 1]
  BY QueueConst DEF HeapInv, QueueTypeOK, Insert
<1>2. PICK h, size : h = [Seen EXCEPT ![queueSize + 1] = p] /\ size = queueSize + 1
  OBVIOUS
<1>3. PICK g : g = Raise(h, size)
  OBVIOUS
<1>4. /\ headIndex' = headIndex /\ queueSize' = size /\ entryArray' = Written(headIndex', g)
      /\ longest' = IF longest > size THEN longest ELSE size
  BY <1>2, <1>3, SeenIs DEF Insert, HeapInv
<1>5. /\ size \in 1 .. ArraySize /\ h \in Arrays /\ h[size] = p
      /\ \A i \in 1 .. ArraySize : i # size => h[i] = Seen[i]
  BY <1>1, <1>2, SeenIs DEF Arrays, HeapInv
<1>6. /\ g \in Arrays /\ SameEntries(h, g, size)
      /\ OrderedBut(h, size, size) => Ordered(g, size)
  BY <1>3, <1>5, RaiseKeeps
<1>7. ASSUME NEW q \in Priorities PROVE queued'[q] = Copies(g, size, q)
  <2>1. \A i \in 1 .. queueSize : h[i] = Seen[i]
    BY <1>1, <1>2, <1>5
  <2>2. Copies(h, size, q) = Copies(Seen, queueSize, q) + One(p, q)
    <3>1. queueSize \in Nat /\ size = queueSize + 1
      BY <1>1, <1>2
    <3>2. Copies(h, size, q) = Copies(Seen, queueSize, q) + One(h[size], q)
      <4>1. PICK seen, old : seen = Seen /\ old = queueSize
        OBVIOUS
      <4>2. old \in Nat /\ size = old + 1 /\ \A i \in 1 .. old : h[i] = seen[i]
        BY <2>1, <3>1, <4>1
      <4>3. Copies(h, size, q) = Copies(seen, old, q) + One(h[size], q)
        BY <4>2, CopiesAdded
      <4> QED BY <4>1, <4>3
    <3> QED BY <1>5, <3>2
  <2>3. queued[q] = Copies(Seen, queueSize, q) /\ queued[q] \in Nat
    BY <1>1 DEF HeapInv
  <2>4. queued'[q] = queued[q] + One(p, q)
    BY <1>1, <2>3 DEF One
  <2>5. Copies(g, size, q) = Copies(h, size, q)
    BY <1>6, QueueConst DEF SameEntries
  <2> QED BY <2>2, <2>3, <2>4, <2>5
<1>8. ASSUME longest' <= 5 PROVE Ordered(g, size)
  <2>1. Ordered(Seen, queueSize)
    BY <1>1, <1>2, <1>4, <1>8 DEF HeapInv
  <2>2. ASSUME NEW j \in 2 .. size
        PROVE  (j # size => h[Parent(j)] <= h[j]) /\ Parent(j) # size
    <3>1. j \in Nat /\ Parent(j) \in Nat /\ (j = 2 * Parent(j) \/ j = 2 * Parent(j) + 1)
      BY <1>5, ParentIs
    <3>2. /\ Parent(j) # size /\ j \in 1 .. ArraySize /\ Parent(j) \in 1 .. ArraySize
          /\ (j # size => j \in 2 .. queueSize)
      BY <1>1, <1>2, <1>5, <3>1
    <3> QED BY <1>5, <2>1, <3>2 DEF Ordered
  <2>3. OrderedBut(h, size, size)
    BY <2>2 DEF OrderedBut
  <2> QED BY <1>6, <2>3
<1>9. queued' \in [Priorities -> Nat]
  BY <1>1
<1>10. longest' \in Nat /\ queueSize' <= longest' /\ queueSize' \in 0 .. ArraySize
  BY <1>1, <1>2, <1>4, <1>5
<1> QED BY <1>1, <1>4, <1>6, <1>7, <1>8, <1>9, <1>10, QueueAfter

LEMMA InsertTwoKeeps ==
  ASSUME HeapInv, NEW p \in Priorities, NEW q \in Priorities, InsertTwo(p, q),
         queueOverrun' = "none"
  PROVE  HeapInv'
<1>1. /\ ArraySize \in Nat \ {0} /\ p \in Nat /\ q \in Nat /\ queueSize \in Nat
      /\ queueSize + 2 <= ArraySize
      /\ headIndex \in Heads /\ longest \in Nat /\ queueSize <= longest
      /\ queued \in [Priorities -> Nat]
  <2>1. queueSize + 2 <= ArraySize
    BY DEF InsertTwo
  <2> QED BY <2>1, QueueConst DEF HeapInv, QueueTypeOK, Heads
<1>2. PICK e, h, size : /\ size = queueSize + 2 /\ e = [Seen EXCEPT ![size - 1] = p]
                        /\ h = [e EXCEPT ![size] = q]
  OBVIOUS
<1>3. PICK g, one : g = BuildHeap(h, size) /\ one = [queued EXCEPT ![p] = @ + 1]
  OBVIOUS
<1>4. /\ headIndex' = headIndex /\ queueSize' = size /\ entryArray' = Written(headIndex', g)
      /\ longest' = (IF longest > size THEN longest ELSE size)
      /\ queued' = [one EXCEPT ![q] = @ + 1]
  <2>1. View(headIndex) = Seen
    BY SeenIs DEF HeapInv
  <2>2. headIndex + (queueSize + 2) < ArraySize
    BY DEF InsertTwo
  <2>3. e = [View(headIndex) EXCEPT ![(queueSize + 2) - 1] = p] /\ h = [e EXCEPT ![queueSize + 2] = q]
    BY <1>2, <2>1
  <2>4. entryArray' = Written(headIndex, BuildHeap(h, queueSize + 2))
    BY <2>2, <2>3 DEF InsertTwo
  <2>5. /\ queueSize' = queueSize + 2 /\ headIndex' = headIndex
        /\ longest' = (IF longest > queueSize + 2 THEN longest ELSE queueSize + 2)
    BY DEF InsertTwo
  <2>6. queued' = [one EXCEPT ![q] = @ + 1]
    BY <1>3 DEF InsertTwo
  <2> QED BY <1>2, <1>3, <2>4, <2>5, <2>6
<1>5. /\ size \in 1 .. ArraySize /\ size - 1 \in 1 .. ArraySize /\ size - 1 = queueSize + 1
      /\ size = queueSize + 1 + 1
  BY <1>1, <1>2
<1>6. e \in Arrays /\ e[size - 1] = p /\ \A i \in 1 .. ArraySize : i # size - 1 => e[i] = Seen[i]
  BY <1>1, <1>2, <1>5, SeenIs DEF Arrays, HeapInv
<1>7. h \in Arrays /\ h[size] = q /\ \A i \in 1 .. ArraySize : i # size => h[i] = e[i]
  BY <1>1, <1>2, <1>5, <1>6 DEF Arrays
<1>8. g \in Arrays /\ SameEntries(h, g, size) /\ Ordered(g, size)
  BY <1>3, <1>5, <1>7, BuildKeeps
<1>9. one \in [Priorities -> Nat] /\ queued' \in [Priorities -> Nat]
  BY <1>1, <1>3, <1>4
<1>10. ASSUME NEW r \in Priorities PROVE queued'[r] = Copies(g, size, r)
  <2>1. \A i \in 1 .. queueSize : e[i] = Seen[i]
    BY <1>1, <1>5, <1>6
  <2>2. Copies(e, queueSize + 1, r) = Copies(Seen, queueSize, r) + One(p, r)
    BY <1>1, <1>5, <1>6, <2>1, CopiesAdded
  <2>3. PICK m : m = queueSize + 1
    OBVIOUS
  <2>4. m \in Nat /\ size = m + 1 /\ \A i \in 1 .. m : h[i] = e[i]
    BY <1>1, <1>5, <1>7, <2>3
  <2>5. Copies(h, size, r) = Copies(e, m, r) + One(h[size], r)
    BY <2>4, CopiesAdded
  <2>6. Copies(h, size, r) = Copies(e, queueSize + 1, r) + One(q, r)
    BY <1>7, <2>3, <2>4, <2>5
  <2>7. queued[r] = Copies(Seen, queueSize, r) /\ queued[r] \in Nat
    BY <1>1 DEF HeapInv
  <2>8. one[r] = queued[r] + One(p, r)
    BY <1>1, <1>3, <2>7 DEF One
  <2>9. queued'[r] = one[r] + One(q, r)
    BY <1>4, <1>9 DEF One
  <2>10. Copies(g, size, r) = Copies(h, size, r)
    BY <1>8, QueueConst DEF SameEntries
  <2> QED BY <2>2, <2>6, <2>7, <2>8, <2>9, <2>10
<1>11. longest' \in Nat /\ queueSize' <= longest' /\ queueSize' \in 0 .. ArraySize
  BY <1>1, <1>2, <1>4, <1>5
<1> QED BY <1>1, <1>4, <1>8, <1>9, <1>10, <1>11, QueueAfter

LEMMA PopKeeps == ASSUME HeapInv, Pop PROVE HeapInv'
<1>1. PICK head, size, h : /\ head = At(headIndex, 1) /\ size = queueSize - 1 /\ h = View(head)
  OBVIOUS
<1>2. PICK g : g = Rebalance(h, size)
  OBVIOUS
<1>3. /\ queueSize > 0 /\ headIndex' = head /\ queueSize' = size
      /\ entryArray' = Written(headIndex', g)
      /\ queued' = [queued EXCEPT ![Lookup(1)] = @ - 1]
      /\ longest' = IF size = 0 THEN 0 ELSE longest
  BY <1>1, <1>2 DEF Pop
<1>4. /\ ArraySize \in Nat \ {0} /\ queueSize \in Nat /\ size \in Nat /\ queueSize = size + 1
      /\ size \in 0 .. ArraySize - 1 /\ 1 \in 1 .. ArraySize
      /\ headIndex \in Heads /\ longest \in Nat /\ queueSize <= longest
      /\ queued \in [Priorities -> Nat]
  BY <1>1, <1>3, QueueConst DEF HeapInv, QueueTypeOK
<1>5. head \in Heads
  BY <1>1, <1>4, AtIs
<1>6. h \in Arrays
  <2>1. \A i \in 1 .. ArraySize : At(head, i) \in Heads
    BY <1>5, AtIs
  <2> QED BY <1>1, <2>1 DEF View, Arrays, HeapInv, QueueTypeOK
<1>7. ASSUME NEW i \in 1 .. size PROVE h[i] = Seen[i + 1]
  <2>1. i \in 1 .. ArraySize /\ i + 1 \in 1 .. ArraySize /\ i \in Nat
    BY <1>4
  <2>2. /\ head = WrappedAround(headIndex + 1)
        /\ headIndex \in Nat /\ headIndex < ArraySize
    BY <1>1, <1>4, AtIs DEF Heads
  <2>3. At(head, i) = WrappedAround(head + i)
    BY <1>5, <2>1, AtIs
  <2>4. PICK k : k = i + 1
    OBVIOUS
  <2>5. At(headIndex, k) = WrappedAround(headIndex + k)
    BY <1>4, <2>1, <2>4, AtIs
  <2>6. At(head, i) = At(headIndex, k)
    BY <1>4, <2>1, <2>2, <2>3, <2>4, <2>5 DEF WrappedAround
  <2>7. h[i] = entryArray[At(head, i)] /\ Seen[k] = entryArray[At(headIndex, k)]
    BY <1>1, <2>1, <2>4 DEF View, Seen, Lookup
  <2> QED BY <2>4, <2>6, <2>7
<1>8. g \in Arrays /\ SameEntries(h, g, size)
  BY <1>2, <1>4, <1>6, RebalanceKeeps
<1>9. ASSUME NEW q \in Priorities
      PROVE  queued'[q] = Copies(g, size, q) /\ queued'[q] \in Nat
  <2>1. Copies(Seen, size + 1, q) = Copies(h, size, q) + One(Seen[1], q)
    BY <1>4, <1>7, CopiesPopped
  <2>2. queued[q] = Copies(Seen, size + 1, q) /\ queued[q] \in Nat
    BY <1>4 DEF HeapInv
  <2>3. Seen[1] = Lookup(1)
    BY <1>4 DEF Seen
  <2>4. queued'[q] = IF Lookup(1) = q THEN queued[q] - 1 ELSE queued[q]
    BY <1>3, <1>4
  <2>5. Copies(g, size, q) = Copies(h, size, q) /\ Copies(h, size, q) \in Nat
    BY <1>4, <1>8, QueueConst, PlacesFinite DEF SameEntries
  <2> QED BY <2>1, <2>2, <2>3, <2>4, <2>5 DEF One
<1>10. queued' \in [Priorities -> Nat]
  <2>1. queued' = [q \in Priorities |-> queued'[q]]
    BY <1>3, <1>4
  <2> QED BY <1>9, <2>1
<1>11. ASSUME longest' <= 5 PROVE Ordered(g, size)
  <2>1. CASE size = 0
    BY <2>1 DEF Ordered
  <2>2. CASE size # 0
    <3>1. longest <= 5 /\ size \in 0 .. 4 /\ size < ArraySize
      BY <1>3, <1>4, <1>11, <2>2
    <3>2. Ordered(Seen, queueSize)
      BY <3>1 DEF HeapInv
    <3>3. Parent(4) = 2 /\ Parent(5) = 2
      BY DEF Parent
    <3>4. size >= 3 => h[1] <= h[3]
      <4>1. ASSUME size >= 3 PROVE h[1] <= h[3]
        <5>1. 4 \in 2 .. queueSize /\ 1 \in 1 .. size /\ 3 \in 1 .. size
          BY <1>4, <4>1
        <5>2. h[1] = Seen[2] /\ h[3] = Seen[4]
          BY <1>7, <5>1
        <5> QED BY <3>2, <3>3, <5>1, <5>2 DEF Ordered
      <4> QED BY <4>1
    <3>5. size >= 4 => h[1] <= h[4]
      <4>1. ASSUME size >= 4 PROVE h[1] <= h[4]
        <5>1. 5 \in 2 .. queueSize /\ 1 \in 1 .. size /\ 4 \in 1 .. size
          BY <1>4, <4>1
        <5>2. h[1] = Seen[2] /\ h[4] = Seen[5]
          BY <1>7, <5>1
        <5> QED BY <3>2, <3>3, <5>1, <5>2 DEF Ordered
      <4> QED BY <4>1
    <3> QED BY <1>2, <1>6, <3>1, <3>4, <3>5, PopOrders
  <2> QED BY <2>1, <2>2
<1>12. longest' \in Nat /\ queueSize' <= longest' /\ queueSize' \in 0 .. ArraySize
  BY <1>3, <1>4
<1> QED BY <1>3, <1>5, <1>8, <1>9, <1>10, <1>11, <1>12, QueueAfter

LEMMA QueueInitInv == QueueInit => HeapInv
<1> SUFFICES ASSUME QueueInit PROVE HeapInv
  OBVIOUS
<1>1. QueueTypeOK
  BY QueueConst DEF QueueInit, QueueTypeOK, Heads
<1>2. queueSize = 0 /\ \A p \in Priorities : queued[p] = 0
  BY DEF QueueInit
<1>3. \A q : PlacesOf(Seen, 0, q) = {}
  BY DEF PlacesOf
<1>4. Ordered(Seen, 0)
  BY DEF Ordered
<1> QED BY <1>1, <1>2, <1>3, <1>4, FS_EmptySet DEF HeapInv, Copies

LEMMA HeapStep ==
  (queueOverrun = "none" => HeapInv) /\ [QueueNext]_queueVars
    => (queueOverrun = "none" => HeapInv)'
<1> SUFFICES ASSUME queueOverrun = "none" => HeapInv, [QueueNext]_queueVars,
                    queueOverrun' = "none"
             PROVE  HeapInv'
  OBVIOUS
<1>1. CASE UNCHANGED queueVars
  BY <1>1 DEF HeapInv, QueueTypeOK, Seen, Lookup, At, queueVars
<1>2. CASE QueueNext
  <2>1. HeapInv
    BY <1>2 DEF QueueNext, Insert, InsertTwo, Pop
  <2> QED BY <1>2, <2>1, InsertKeeps, InsertTwoKeeps, PopKeeps DEF QueueNext
<1> QED BY <1>1, <1>2

(* Until insert_n copies past the end of the array, no request of the      *)
(* priority queue is lost or doubled, whatever its length, and a queue     *)
(* that has held at most five since it was empty is a heap.                *)
THEOREM ShortQueueOrderedCorrect == QueueSpec => []ShortQueueOrdered
<1>1. QueueInit => (queueOverrun = "none" => HeapInv)
  BY QueueInitInv
<1>2. (queueOverrun = "none" => HeapInv) /\ [QueueNext]_queueVars
        => (queueOverrun = "none" => HeapInv)'
  BY HeapStep
<1>3. (queueOverrun = "none" => HeapInv) => ShortQueueOrdered
  BY QueueInvMeans
<1> QED BY <1>1, <1>2, <1>3, PTL DEF QueueSpec
----------------------------------------------------------------------------
(* The components side by side                                             *)

LEMMA AsyncAlone == [ComponentsNext]_componentsVars => [AsyncNext]_asyncVars
<1>1. OthersStay /\ subject # "async" => UNCHANGED asyncVars
  BY DEF OthersStay, Rest
<1>2. UNCHANGED componentsVars => UNCHANGED asyncVars
  BY DEF componentsVars
<1> QED BY <1>1, <1>2 DEF ComponentsNext

LEMMA CounterAlone == [ComponentsNext]_componentsVars => [CounterNext]_counterVars
<1>1. OthersStay /\ subject # "counter" => UNCHANGED counterVars
  BY DEF OthersStay, Rest
<1>2. UNCHANGED componentsVars => UNCHANGED counterVars
  BY DEF componentsVars
<1> QED BY <1>1, <1>2 DEF ComponentsNext

LEMMA QueueAlone == [ComponentsNext]_componentsVars => [QueueNext]_queueVars
<1>1. OthersStay /\ subject # "queue" => UNCHANGED queueVars
  BY DEF OthersStay, Rest
<1>2. UNCHANGED componentsVars => UNCHANGED queueVars
  BY DEF componentsVars
<1> QED BY <1>1, <1>2 DEF ComponentsNext

LEMMA LogAlone == [ComponentsNext]_componentsVars => [LogNext]_logVars
<1>1. OthersStay /\ subject # "log" => UNCHANGED logVars
  BY DEF OthersStay, Rest
<1>2. UNCHANGED componentsVars => UNCHANGED logVars
  BY DEF componentsVars
<1> QED BY <1>1, <1>2 DEF ComponentsNext

LEMMA RingAlone == [ComponentsNext]_componentsVars => [RingNext]_ringVars
<1>1. OthersStay /\ subject # "ring" => UNCHANGED ringVars
  BY DEF OthersStay, Rest
<1>2. UNCHANGED componentsVars => UNCHANGED ringVars
  BY DEF componentsVars
<1> QED BY <1>1, <1>2 DEF ComponentsNext

LEMMA StartAlone == [ComponentsNext]_componentsVars => [StartNext]_initVars
<1>1. OthersStay /\ subject # "init" => UNCHANGED initVars
  BY DEF OthersStay, Rest
<1>2. UNCHANGED componentsVars => UNCHANGED initVars
  BY DEF componentsVars
<1> QED BY <1>1, <1>2 DEF ComponentsNext

LEMMA FactoryAlone == [ComponentsNext]_componentsVars => [FactoryNext]_factoryVars
<1>1. OthersStay /\ subject # "factory" => UNCHANGED factoryVars
  BY DEF OthersStay, Rest
<1>2. UNCHANGED componentsVars => UNCHANGED factoryVars
  BY DEF componentsVars
<1> QED BY <1>1, <1>2 DEF ComponentsNext

LEMMA DictAlone == [ComponentsNext]_componentsVars => [DictNext]_dictVars
<1>1. OthersStay /\ subject # "dictionary" => UNCHANGED dictVars
  BY DEF OthersStay, Rest
<1>2. UNCHANGED componentsVars => UNCHANGED dictVars
  BY DEF componentsVars
<1> QED BY <1>1, <1>2 DEF ComponentsNext

LEMMA PrivateAlone == [ComponentsNext]_componentsVars => [PrivateNext]_privateVars
<1>1. OthersStay /\ subject # "private" => UNCHANGED privateVars
  BY DEF OthersStay, Rest
<1>2. UNCHANGED componentsVars => UNCHANGED privateVars
  BY DEF componentsVars
<1> QED BY <1>1, <1>2 DEF ComponentsNext

(* A run of the components side by side is a run of each of them: what is  *)
(* proved of one component holds there.                                    *)
THEOREM ComponentsRun ==
  ComponentsSpec => /\ AsyncSpec /\ CounterSpec /\ QueueSpec
                    /\ LogSpec /\ RingSpec /\ StartSpec
                    /\ FactorySpec /\ DictSpec /\ PrivateSpec
<1>1. ComponentsInit => /\ AsyncInit /\ CounterInit /\ QueueInit
                        /\ LogInit /\ RingInit /\ StartInit
                        /\ FactoryInit /\ DictInit /\ PrivateInit
  BY DEF ComponentsInit
<1> QED
  BY <1>1, AsyncAlone, CounterAlone, QueueAlone, LogAlone, RingAlone, StartAlone,
     FactoryAlone, DictAlone, PrivateAlone, PTL
  DEF ComponentsSpec, AsyncSpec, CounterSpec, QueueSpec, LogSpec, RingSpec,
      StartSpec, FactorySpec, DictSpec, PrivateSpec

(* The fields of the components keep their types, each whatever the other  *)
(* ones do.                                                                *)
THEOREM ComponentsTypeOKCorrect == ComponentsSpec => []ComponentsTypeOK
<1>1. StartSpec => []InitTypeOK
  <2>1. InitInv => InitTypeOK
    BY DEF InitInv
  <2> QED BY <2>1, InitInvariant, PTL
<1>2. AsyncTypeOK /\ CounterTypeOK /\ InitTypeOK /\ DictTypeOK /\ PrivateTypeOK
      => ComponentsTypeOK
  BY DEF ComponentsTypeOK
<1> QED
  BY <1>1, <1>2, ComponentsRun, AsyncTypeCorrect, CounterTypeCorrect,
     DictTypeCorrect, PrivateTypeCorrect, PTL
=============================================================================
