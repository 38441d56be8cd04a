--------------------------- MODULE AuditCoreProofs ---------------------------
(***************************************************************************)
(* The audit log for every buffer size, every size of header and MAC and   *)
(* all payload sizes.  The invariant unrolls the circular buffer: record i *)
(* is at a[i] of a buffer without end, the next one follows it there, and  *)
(* the word at x of it is the word at x % LogSize of log_buffer.           *)
(***************************************************************************)
EXTENDS AuditCore, TLAPS, WellFoundedInduction
-----------------------------------------------------------------------------
(* The inductive invariant *)

\* The words from x on, up to y, are those of one record in their order, and
\* the size field among them says that y is the end.
Holds(b, x, y) ==
  /\ b[(x + FixedSize - 1) % LogSize].val \in Nat
  /\ y = x + COMPUTE_LOG_ENTRY_SIZE(b[(x + FixedSize - 1) % LogSize].val)
  /\ \A k \in 0..(y - x - 1) :
       /\ b[(x + k) % LogSize].stamp = b[x % LogSize].stamp
       /\ b[(x + k) % LogSize].off = k

\* a lays the records out one after the other, from first_el_idx to the end of
\* the newest one, and stored_size is the distance, no more than there is room.
Placed(a) ==
  /\ num \in Nat
  /\ a \in [0..num -> Nat]
  /\ \A i, j \in 0..num : i <= j => a[i] <= a[j]
  /\ \A i \in 0..(num - 1) : Holds(buf, a[i], a[i + 1])
  /\ first = a[0] % LogSize
  /\ num > 0 => last = a[num - 1] % LogSize
  /\ num = 0 => first = 0
  /\ stored = a[num] - a[0] /\ stored <= LogSize

\* log_buffer and its counters are those of some layout.
AuditInv ==
  /\ DOMAIN buf = 0..(LogSize - 1)
  /\ \E a : Placed(a)
-----------------------------------------------------------------------------
(* Arithmetic modulo the size of the buffer *)

\* Division with remainder.
LEMMA DivMod ==
  ASSUME NEW n \in Nat \ {0}, NEW x \in Int
  PROVE  \E q \in Int, r \in 0..(n - 1) : x = n * q + r /\ x % n = r
<1>1. x % n \in 0..(n - 1) /\ x \div n \in Int
  OBVIOUS
<1>2. x % n = x - n * (x \div n)
  OBVIOUS
<1>3. n * (x \div n) \in Int
  BY <1>1
<1>4. x = n * (x \div n) + (x % n)
  BY <1>1, <1>2, <1>3
<1> QED
  BY <1>1, <1>4

\* The remainder is unique.
LEMMA ModIs ==
  ASSUME NEW n \in Nat \ {0}, NEW q \in Int, NEW r \in 0..(n - 1)
  PROVE  (n * q + r) % n = r
<1> DEFINE x == n * q + r
<1>1. x \in Int /\ n * q \in Int
  OBVIOUS
<1>2. PICK p \in Int, s \in 0..(n - 1) : x = n * p + s /\ x % n = s
  BY <1>1, DivMod
<1>3. PICK d \in Int : d = q - p
  OBVIOUS
<1>4. n * d = n * q - n * p /\ n * p \in Int
  BY <1>3
<1>5. n * d = s - r
  BY <1>1, <1>2, <1>4
<1>6. (d >= 1 => n * d >= n) /\ (d <= -1 => n * d <= -n)
  OBVIOUS
<1>7. d = 0
  BY <1>5, <1>6
<1>8. q = p
  BY <1>3, <1>7
<1> QED
  BY <1>1, <1>2, <1>8

\* Numbers that differ by a multiple have one remainder.
LEMMA ModShift ==
  ASSUME NEW n \in Nat \ {0}, NEW x \in Int, NEW q \in Int
  PROVE  (n * q + x) % n = x % n
<1>1. PICK p \in Int, r \in 0..(n - 1) : x = n * p + r /\ x % n = r
  BY DivMod
<1>2. n * q + x = n * (q + p) + r
  BY <1>1
<1>3. (n * (q + p) + r) % n = r
  BY <1>1, ModIs
<1> QED
  BY <1>1, <1>2, <1>3

\* A remainder stands for its number in a sum.
LEMMA ModAdd ==
  ASSUME NEW n \in Nat \ {0}, NEW x \in Int, NEW k \in Int
  PROVE  ((x % n) + k) % n = (x + k) % n /\ x % n \in 0..(n - 1)
<1>1. PICK q \in Int, r \in 0..(n - 1) : x = n * q + r /\ x % n = r
  BY DivMod
<1>2. PICK z \in Int : z = r + k
  BY <1>1
<1>3. (n * q + z) % n = z % n
  BY ModShift
<1>4. n * q + z = x + k
  BY <1>1, <1>2
<1> QED
  BY <1>1, <1>2, <1>3, <1>4

\* The same for differences.
LEMMA ModSub ==
  ASSUME NEW n \in Nat \ {0}, NEW x \in Int, NEW y \in Int
  PROVE  ((x % n) - (y % n)) % n = (x - y) % n
<1>1. PICK q \in Int, r \in 0..(n - 1) : x = n * q + r /\ x % n = r
  BY DivMod
<1>2. PICK p \in Int, s \in 0..(n - 1) : y = n * p + s /\ y % n = s
  BY DivMod
<1>3. PICK d \in Int, z \in Int : d = q - p /\ z = r - s
  BY <1>1, <1>2
<1>4. n * d = n * q - n * p /\ n * q \in Int /\ n * p \in Int
  BY <1>3
<1>5. x - y = n * d + z
  BY <1>1, <1>2, <1>3, <1>4
<1>6. (n * d + z) % n = z % n
  BY ModShift
<1>7. (x % n) - (y % n) = z
  BY <1>1, <1>2, <1>3, Zenon
<1> QED
  BY <1>5, <1>6, <1>7

\* The remainders of the numbers from -n to n - 1.
LEMMA ModNear ==
  ASSUME NEW n \in Nat \ {0}, NEW k \in Int
  PROVE  /\ k \in 0..(n - 1) => k % n = k
         /\ k \in (-n)..(-1) => k % n = k + n
<1>1. ASSUME k \in 0..(n - 1) PROVE k % n = k
  <2>1. (n * 0 + k) % n = k
    BY <1>1, ModIs
  <2> QED
    BY <2>1
<1>2. ASSUME k \in (-n)..(-1) PROVE k % n = k + n
  <2>1. k + n \in 0..(n - 1)
    BY <1>2
  <2>2. (n * (-1) + (k + n)) % n = k + n
    BY <2>1, ModIs
  <2>3. n * (-1) + (k + n) = k
    OBVIOUS
  <2> QED
    BY <2>2, <2>3
<1> QED
  BY <1>1, <1>2

\* A non-empty set of naturals has a least element.
LEMMA LeastOf ==
  ASSUME NEW S \in SUBSET Nat, S # {}
  PROVE  \E i \in S : \A j \in S : i <= j
<1> DEFINE R == {ss \in Nat \X Nat : ss[1] < ss[2]}
<1>1. OpToRel(<, Nat) = R
  BY DEF OpToRel
<1>2. IsWellFoundedOn(R, Nat)
  BY <1>1, NatLessThanWellFounded
<1> HIDE DEF R
<1>3. \E x \in S : \A y \in S : ~ (<<y, x>> \in R)
  BY <1>2, WFMin
<1>4. \A x, y \in Nat : ~ (<<y, x>> \in R) => x <= y
  BY DEF R
<1> QED
  BY <1>3, <1>4
-----------------------------------------------------------------------------
(* Walking the records and copying one *)

\* Walking along the size fields follows the unrolled records.
LEMMA NthIs ==
  ASSUME NEW b, NEW idx, NEW n \in Nat, NEW p, p[0] = idx,
         \A k \in 0..(n - 1) : GET_NEXT_LOG_INDEX(b, p[k]) = p[k + 1]
  PROVE  Nth(b, idx, n) = p[n]
<1> DEFINE F(f) == [k \in 0..n |-> IF k = 0 THEN idx
                                   ELSE GET_NEXT_LOG_INDEX(b, f[k - 1])]
           g == [k \in 0..n |-> p[k]]
           at == CHOOSE f : f = F(f)
<1>1. Nth(b, idx, n) = at[n]
  BY DEF Nth
<1>2. g = F(g)
  <2>1. ASSUME NEW k \in 0..n
        PROVE  g[k] = IF k = 0 THEN idx ELSE GET_NEXT_LOG_INDEX(b, g[k - 1])
    <3>1. CASE k = 0
      BY <3>1
    <3>2. CASE k # 0
      <4>1. k - 1 \in 0..n /\ k - 1 \in 0..(n - 1) /\ (k - 1) + 1 = k
        BY <3>2
      <4>2. GET_NEXT_LOG_INDEX(b, p[k - 1]) = p[(k - 1) + 1]
        BY <4>1
      <4> QED
        BY <3>2, <4>1, <4>2
    <3> QED
      BY <3>1, <3>2
  <2> QED
    BY <2>1
<1>3. PICK f : f = at
  OBVIOUS
<1>4. f = F(f)
  BY <1>2, <1>3
<1>5. \A k \in 0..n : f[k] = IF k = 0 THEN idx
                             ELSE GET_NEXT_LOG_INDEX(b, f[k - 1])
  BY <1>4
<1> DEFINE B == {k \in 0..n : f[k] # p[k]}
<1>6. ASSUME B # {} PROVE FALSE
  <2>0. B \in SUBSET Nat
    OBVIOUS
  <2>1. PICK m \in B : \A j \in B : m <= j
    BY <1>6, <2>0, LeastOf
  <2>2. m \in 0..n /\ f[m] # p[m] /\ m # 0
    BY <1>5, <2>1
  <2>3. m - 1 \in 0..n /\ m - 1 \in 0..(n - 1) /\ (m - 1) + 1 = m /\ ~(m <= m - 1)
    BY <2>2
  <2>4. f[m - 1] = p[m - 1]
    BY <2>1, <2>3
  <2>5. GET_NEXT_LOG_INDEX(b, p[m - 1]) = p[(m - 1) + 1]
    BY <2>3
  <2> QED
    BY <1>5, <2>2, <2>3, <2>4, <2>5
<1>7. n \in 0..n
  OBVIOUS
<1> QED
  BY <1>1, <1>3, <1>6, <1>7

\* The words of the first k records.
LEMMA RemovedIs ==
  ASSUME NEW n \in Nat, NEW p, p[0] = 0,
         \A k \in 0..(n - 1) :
           p[k + 1] = p[k] + COMPUTE_LOG_ENTRY_SIZE(SizeAt(buf, Nth(buf, first, k)))
  PROVE  Removed(n) = p[n]
<1> DEFINE E(k) == COMPUTE_LOG_ENTRY_SIZE(SizeAt(buf, Nth(buf, first, k)))
           F(f) == [k \in 0..n |-> IF k = 0 THEN 0 ELSE f[k - 1] + E(k - 1)]
           g == [k \in 0..n |-> p[k]]
           sum == CHOOSE f : f = F(f)
<1>1. Removed(n) = sum[n]
  BY DEF Removed
<1>0. \A k \in 0..(n - 1) : p[k + 1] = p[k] + E(k)
  OBVIOUS
<1> HIDE DEF E
<1>2. g = F(g)
  <2>1. ASSUME NEW k \in 0..n
        PROVE  g[k] = IF k = 0 THEN 0 ELSE g[k - 1] + E(k - 1)
    <3>1. CASE k = 0
      BY <3>1
    <3>2. CASE k # 0
      <4>1. k - 1 \in 0..n /\ k - 1 \in 0..(n - 1) /\ (k - 1) + 1 = k
        BY <3>2
      <4>2. p[(k - 1) + 1] = p[k - 1] + E(k - 1)
        BY <1>0, <4>1
      <4> QED
        BY <3>2, <4>1, <4>2
    <3> QED
      BY <3>1, <3>2
  <2> QED
    BY <2>1
<1>3. PICK f : f = sum
  OBVIOUS
<1>4. f = F(f)
  BY <1>2, <1>3
<1>5. \A k \in 0..n : f[k] = IF k = 0 THEN 0 ELSE f[k - 1] + E(k - 1)
  BY <1>4
<1> DEFINE B == {k \in 0..n : f[k] # p[k]}
<1>6. ASSUME B # {} PROVE FALSE
  <2>0. B \in SUBSET Nat
    OBVIOUS
  <2>1. PICK m \in B : \A j \in B : m <= j
    BY <1>6, <2>0, LeastOf
  <2>2. m \in 0..n /\ f[m] # p[m] /\ m # 0
    BY <1>5, <2>1
  <2>3. m - 1 \in 0..n /\ m - 1 \in 0..(n - 1) /\ (m - 1) + 1 = m /\ ~(m <= m - 1)
    BY <2>2
  <2>4. f[m - 1] = p[m - 1]
    BY <2>1, <2>3
  <2>5. p[(m - 1) + 1] = p[m - 1] + E(m - 1)
    BY <1>0, <2>3
  <2> QED
    BY <1>5, <2>2, <2>3, <2>4, <2>5
<1>7. n \in 0..n
  OBVIOUS
<1> QED
  BY <1>1, <1>3, <1>6, <1>7

\* The record after record i is where the size field of record i says.
LEMMA NextIs ==
  ASSUME NEW a, Placed(a), NEW i \in 0..(num - 1)
  PROVE  /\ a[i] \in Nat /\ a[i + 1] \in Nat
         /\ SizeAt(buf, a[i] % LogSize) \in Nat
         /\ a[i + 1] = a[i] + COMPUTE_LOG_ENTRY_SIZE(SizeAt(buf, a[i] % LogSize))
         /\ GET_NEXT_LOG_INDEX(buf, a[i] % LogSize) = a[i + 1] % LogSize
<1>1. LogSize \in Nat \ {0} /\ FixedSize \in Nat \ {0} /\ MacSize \in Nat
  BY AuditAssumption
<1>2. /\ num \in Nat /\ a \in [0..num -> Nat]
       /\ \A j \in 0..(num - 1) : Holds(buf, a[j], a[j + 1])
  BY DEF Placed
<1>3. i \in 0..num /\ i + 1 \in 0..num /\ a[i] \in Nat /\ a[i + 1] \in Nat
  BY <1>2
<1>4. PICK x \in Nat : x = a[i]
  BY <1>3
<1>5. PICK v : v = buf[(x + FixedSize - 1) % LogSize].val
  OBVIOUS
<1>6. v \in Nat /\ a[i + 1] = x + COMPUTE_LOG_ENTRY_SIZE(v)
  BY <1>2, <1>4, <1>5 DEF Holds
<1>7. x \in Int /\ FixedSize - 1 \in Int
  BY <1>1
<1>8. /\ ((x % LogSize) + (FixedSize - 1)) % LogSize = (x + (FixedSize - 1)) % LogSize
      /\ x % LogSize \in 0..(LogSize - 1)
  BY <1>1, <1>7, ModAdd, Zenon
<1>9. /\ (x % LogSize) + (FixedSize - 1) = (x % LogSize) + FixedSize - 1
      /\ x + (FixedSize - 1) = x + FixedSize - 1
  BY <1>1, <1>8
<1>10. SizeAt(buf, x % LogSize) = v
  BY <1>5, <1>8, <1>9 DEF SizeAt
<1>11. PICK e \in Nat : e = COMPUTE_LOG_ENTRY_SIZE(v)
  BY <1>1, <1>6 DEF COMPUTE_LOG_ENTRY_SIZE
<1>12. ((x % LogSize) + e) % LogSize = (x + e) % LogSize
  <2>1. e \in Int
    OBVIOUS
  <2> QED
    BY <1>1, <1>7, <2>1, ModAdd, Zenon
<1>13. GET_NEXT_LOG_INDEX(buf, x % LogSize) = a[i + 1] % LogSize
  BY <1>6, <1>10, <1>11, <1>12 DEF GET_NEXT_LOG_INDEX
<1> QED
  BY <1>3, <1>4, <1>6, <1>10, <1>13

\* In a buffer as the invariant describes it, the walk reaches the records and
\* counts their words.
LEMMA Walk ==
  ASSUME NEW a, Placed(a), NEW n \in 0..num
  PROVE  /\ Nth(buf, first, n) = a[n] % LogSize
         /\ Removed(n) = a[n] - a[0]
<1>1. LogSize \in Nat \ {0} /\ FixedSize \in Nat \ {0} /\ MacSize \in Nat
  BY AuditAssumption
<1>2. /\ num \in Nat /\ a \in [0..num -> Nat] /\ first = a[0] % LogSize
      /\ \A i \in 0..(num - 1) : Holds(buf, a[i], a[i + 1])
  BY DEF Placed
<1>3. ASSUME NEW i \in 0..(num - 1)
      PROVE  /\ a[i] \in Nat /\ a[i + 1] \in Nat
             /\ SizeAt(buf, a[i] % LogSize) \in Nat
             /\ a[i + 1] = a[i] + COMPUTE_LOG_ENTRY_SIZE(SizeAt(buf, a[i] % LogSize))
             /\ GET_NEXT_LOG_INDEX(buf, a[i] % LogSize) = a[i + 1] % LogSize
  BY NextIs
<1> DEFINE p == [k \in 0..num |-> a[k] % LogSize]
<1>4. ASSUME NEW m \in 0..num PROVE Nth(buf, first, m) = a[m] % LogSize
  <2>1. m \in Nat /\ p[0] = first /\ p[m] = a[m] % LogSize
    BY <1>2
  <2>2. ASSUME NEW k \in 0..(m - 1)
        PROVE  GET_NEXT_LOG_INDEX(buf, p[k]) = p[k + 1]
    <3>1. k \in 0..(num - 1) /\ k \in 0..num /\ k + 1 \in 0..num
      BY <1>2
    <3> QED
      BY <1>3, <3>1
  <2> HIDE DEF p
  <2> QED
    BY <2>1, <2>2, NthIs
<1>5. Removed(n) = a[n] - a[0]
  <2> DEFINE s == [k \in 0..num |-> a[k] - a[0]]
  <2>1. n \in Nat /\ s[0] = 0 /\ s[n] = a[n] - a[0] /\ a[0] \in Nat
    BY <1>2
  <2>2. ASSUME NEW k \in 0..(n - 1)
        PROVE  s[k + 1] = s[k] + COMPUTE_LOG_ENTRY_SIZE(
                                    SizeAt(buf, Nth(buf, first, k)))
    <3>1. k \in 0..(num - 1) /\ k \in 0..num /\ k + 1 \in 0..num
      BY <1>2
    <3>2. Nth(buf, first, k) = a[k] % LogSize
      BY <1>4, <3>1
    <3>3. PICK z \in Nat : z = SizeAt(buf, a[k] % LogSize)
      BY <1>3, <3>1, Zenon
    <3>4. PICK e \in Nat : e = COMPUTE_LOG_ENTRY_SIZE(z)
      BY ONLY <1>1, z \in Nat DEF COMPUTE_LOG_ENTRY_SIZE
    <3>5. a[k + 1] = a[k] + e /\ a[k] \in Nat /\ a[k + 1] \in Nat
      BY <1>3, <3>1, <3>3, <3>4, Zenon
    <3>6. s[k + 1] = s[k] + e
      BY <2>1, <3>1, <3>5
    <3> QED
      BY <3>2, <3>3, <3>4, <3>6
  <2> HIDE DEF s
  <2> QED
    BY <2>1, <2>2, RemovedIs
<1> QED
  BY <1>4, <1>5

\* audit_buffer_copy() of n words to y writes the words from y to y + n and
\* leaves those that lie up to LogSize - n words before y.
LEMMA CopyIs ==
  ASSUME DOMAIN buf = 0..(LogSize - 1), NEW y \in Nat, NEW n \in 0..LogSize,
         NEW e, DOMAIN e = 0..(n - 1),
         NEW c, c = Copied(e, y % LogSize)
  PROVE  /\ DOMAIN c = 0..(LogSize - 1)
         /\ \A m \in 0..(n - 1) : c[(y + m) % LogSize] = e[m]
         /\ \A x \in Nat : x < y /\ y - x <= LogSize - n =>
              c[x % LogSize] = buf[x % LogSize]
<1>1. LogSize \in Nat \ {0}
  BY AuditAssumption
<1>2. c = [i \in 0..(LogSize - 1) |->
             IF (i - (y % LogSize)) % LogSize \in 0..(n - 1)
             THEN e[(i - (y % LogSize)) % LogSize] ELSE buf[i]]
  BY DEF Copied
<1>3. ASSUME NEW x \in Int
      PROVE  c[x % LogSize] = IF (x - y) % LogSize \in 0..(n - 1)
                              THEN e[(x - y) % LogSize] ELSE buf[x % LogSize]
  <2>1. PICK i : i = x % LogSize
    OBVIOUS
  <2>2. 0 \in Int /\ y \in Int
    OBVIOUS
  <2>3. i \in 0..(LogSize - 1)
    BY <1>1, <1>3, <2>1, <2>2, ModAdd, Zenon
  <2>4. (i - (y % LogSize)) % LogSize = (x - y) % LogSize
    BY <1>1, <1>3, <2>1, <2>2, ModSub, Zenon
  <2> QED
    BY <1>2, <2>1, <2>3, <2>4, Zenon
<1>4. ASSUME NEW m \in 0..(n - 1) PROVE c[(y + m) % LogSize] = e[m]
  <2>1. /\ y + m \in Int /\ (y + m) - y = m
        /\ m \in Int /\ m \in 0..(LogSize - 1)
    BY <1>1
  <2>2. m % LogSize = m
    BY <1>1, <2>1, ModNear, Zenon
  <2>3. ((y + m) - y) % LogSize = m
    BY <2>1, <2>2, Zenon
  <2> QED
    BY <1>3, <1>4, <2>1, <2>3, Zenon
<1>5. ASSUME NEW x \in Nat, x < y, y - x <= LogSize - n
      PROVE  c[x % LogSize] = buf[x % LogSize]
  <2>1. PICK k \in Int : k = x - y
    OBVIOUS
  <2>2. k \in (-LogSize)..(-1) /\ k + LogSize >= n /\ x \in Int
    BY <1>1, <1>5, <2>1
  <2>3. k % LogSize = k + LogSize
    BY <1>1, <2>2, ModNear, Zenon
  <2>4. k + LogSize \notin 0..(n - 1)
    BY <2>2
  <2>5. (x - y) % LogSize \notin 0..(n - 1)
    BY <2>1, <2>3, <2>4, Zenon
  <2> QED
    BY <1>3, <2>2, <2>5, Zenon
<1> QED
  BY <1>2, <1>4, <1>5
-----------------------------------------------------------------------------
(* The steps *)

\* What audit_replace_record() removes leaves room for the entry, and one record
\* less would not.
LEMMA EvictedIs ==
  ASSUME NEW a, Placed(a), NEW n \in 0..LogSize
  PROVE  /\ Evicted(n) \in 0..num
         /\ a[num] - a[Evicted(n)] <= LogSize - n
         /\ \A j \in 0..(Evicted(n) - 1) : ~(a[num] - a[j] <= LogSize - n)
<1>1. /\ num \in Nat /\ a \in [0..num -> Nat] /\ LogSize \in Nat
      /\ stored = a[num] - a[0]
  BY AuditAssumption DEF Placed
<1>2. ASSUME NEW k \in 0..num
      PROVE  Enough(k, n) <=> n <= LogSize - (a[num] - a[k])
  <2>1. Removed(k) = a[k] - a[0]
    BY Walk
  <2>2. a[k] \in Nat /\ a[0] \in Nat /\ a[num] \in Nat
    BY <1>1
  <2>3. stored - Removed(k) = a[num] - a[k]
    BY <1>1, <2>1, <2>2
  <2> QED
    BY <2>3 DEF Enough
<1> DEFINE S == {k \in 0..num : Enough(k, n)}
<1>3. num \in S
  <2>1. num \in 0..num /\ a[num] \in Nat
    BY <1>1
  <2>2. n <= LogSize - (a[num] - a[num])
    BY <1>1, <2>1
  <2> QED
    BY <1>2, <2>1, <2>2
<1>4. S \in SUBSET Nat
  BY <1>1
<1>5. PICK k \in S : \A j \in S : k <= j
  BY <1>3, <1>4, LeastOf
<1>6. k \in 0..num /\ Enough(k, n) /\ \A j \in 0..(k - 1) : ~Enough(j, n)
  <2>1. ASSUME NEW j \in 0..(k - 1), Enough(j, n) PROVE FALSE
    <3>1. j \in S /\ ~(k <= j)
      BY <1>1, <1>5, <2>1
    <3> QED
      BY <1>5, <3>1
  <2> QED
    BY <1>5, <2>1
<1>7. /\ Evicted(n) \in 0..num
      /\ Enough(Evicted(n), n)
      /\ \A j \in 0..(Evicted(n) - 1) : ~Enough(j, n)
  BY <1>6, Zenon DEF Evicted
<1>8. PICK m \in 0..num : m = Evicted(n)
  BY <1>7
<1>9. n <= LogSize - (a[num] - a[m]) /\ a[num] \in Nat /\ a[m] \in Nat
  BY <1>1, <1>2, <1>7, <1>8
<1>10. ASSUME NEW j \in 0..(m - 1) PROVE ~(a[num] - a[j] <= LogSize - n)
  <2>1. j \in 0..num /\ a[j] \in Nat
    BY <1>1
  <2>2. ~(n <= LogSize - (a[num] - a[j]))
    BY <1>2, <1>7, <1>8, <2>1
  <2> QED
    BY <1>1, <1>9, <2>1, <2>2
<1> QED
  BY <1>1, <1>8, <1>9, <1>10

\* The new record goes to the end of the newest one.
LEMMA StartIs ==
  ASSUME NEW a, Placed(a), NEW k \in 0..num
  PROVE  StartPos(k) = a[num] % LogSize
<1>1. /\ num \in Nat /\ a \in [0..num -> Nat] /\ first = a[0] % LogSize
      /\ num > 0 => last = a[num - 1] % LogSize
      /\ num = 0 => first = 0
  BY DEF Placed
<1>2. CASE num = 0
  BY <1>1, <1>2 DEF StartPos
<1>3. CASE num # 0 /\ num - k = 0
  <2>1. k = num
    BY <1>1, <1>3
  <2>2. Nth(buf, first, k) = a[num] % LogSize
    BY <2>1, Walk
  <2> QED
    BY <1>3, <2>2 DEF StartPos
<1>4. CASE num # 0 /\ num - k # 0
  <2>1. num - 1 \in 0..(num - 1) /\ num - 1 \in 0..num /\ (num - 1) + 1 = num /\ num > 0
    BY <1>1, <1>4
  <2>2. GET_NEXT_LOG_INDEX(buf, a[num - 1] % LogSize) = a[(num - 1) + 1] % LogSize
    BY <2>1, NextIs
  <2> QED
    BY <1>1, <1>4, <2>1, <2>2 DEF StartPos
<1> QED
  BY <1>2, <1>3, <1>4

\* A record stays whole when its words do not change.
LEMMA HoldsFrame ==
  ASSUME NEW b, NEW c, NEW x \in Nat, NEW y \in Nat, Holds(b, x, y),
         \A z \in Nat : x <= z /\ z < y => c[z % LogSize] = b[z % LogSize]
  PROVE  Holds(c, x, y)
<1>1. FixedSize \in Nat \ {0} /\ MacSize \in Nat
  BY AuditAssumption
<1>2. PICK v \in Nat : v = b[(x + FixedSize - 1) % LogSize].val
  BY DEF Holds
<1>3. y = x + FixedSize + v + MacSize
  BY <1>1, <1>2 DEF Holds, COMPUTE_LOG_ENTRY_SIZE
<1>4. ASSUME NEW k \in 0..(y - x - 1)
      PROVE  c[(x + k) % LogSize] = b[(x + k) % LogSize]
  <2>1. x + k \in Nat /\ x <= x + k /\ x + k < y
    OBVIOUS
  <2> QED
    BY <2>1
<1>5. c[(x + FixedSize - 1) % LogSize] = b[(x + FixedSize - 1) % LogSize]
  <2>1. /\ x + FixedSize - 1 \in Nat /\ x <= x + FixedSize - 1
        /\ x + FixedSize - 1 < y
    BY <1>1, <1>3
  <2> QED
    BY <2>1
<1>6. c[x % LogSize] = b[x % LogSize]
  <2>1. x <= x /\ x < y
    BY <1>1, <1>3
  <2> QED
    BY <2>1
<1> QED
  BY <1>4, <1>5, <1>6 DEF Holds

\* audit_format_buffer() and audit_buffer_copy() make a whole record.
LEMMA HoldsNew ==
  ASSUME NEW size \in Nat, NEW c, NEW y \in Nat,
         NEW n, n = COMPUTE_LOG_ENTRY_SIZE(size),
         \A m \in 0..(n - 1) : c[(y + m) % LogSize] = Entry(size)[m]
  PROVE  Holds(c, y, y + n)
<1>1. /\ FixedSize \in Nat \ {0} /\ MacSize \in Nat
      /\ n \in Nat /\ n = FixedSize + size + MacSize
  BY AuditAssumption DEF COMPUTE_LOG_ENTRY_SIZE
<1>2. ASSUME NEW m \in 0..(n - 1)
      PROVE  /\ c[(y + m) % LogSize].stamp = stamp
             /\ c[(y + m) % LogSize].off = m
             /\ m = FixedSize - 1 => c[(y + m) % LogSize].val = size
  <2>1. Entry(size)[m] = Word(stamp, m, IF m = FixedSize - 1 THEN size ELSE 0)
    BY DEF Entry
  <2> QED
    BY <2>1 DEF Word
<1>3. FixedSize - 1 \in 0..(n - 1) /\ y + (FixedSize - 1) = y + FixedSize - 1
  BY <1>1
<1>4. c[(y + FixedSize - 1) % LogSize].val = size
  BY <1>2, <1>3
<1>5. 0 \in 0..(n - 1) /\ y + 0 = y
  BY <1>1
<1>6. c[y % LogSize].stamp = stamp
  BY <1>2, <1>5
<1>7. (y + n) - y - 1 = n - 1
  BY <1>1
<1>8. \A k \in 0..((y + n) - y - 1) :
        /\ c[(y + k) % LogSize].stamp = c[y % LogSize].stamp
        /\ c[(y + k) % LogSize].off = k
  BY <1>2, <1>6, <1>7
<1> QED
  BY <1>4, <1>8 DEF Holds

\* What audit_core_add_record() does to the layout: the k oldest records are
\* gone, as few as leave room, the others stay where they were and the entry is
\* behind them.
AddLayout(a, b, k, size) ==
  LET n == COMPUTE_LOG_ENTRY_SIZE(size)
  IN  /\ k \in 0..num
      /\ a[num] - a[k] <= LogSize - n
      /\ \A j \in 0..(k - 1) : ~(a[num] - a[j] <= LogSize - n)
      /\ num' = num - k + 1
      /\ \A i \in 0..(num - k) : b[i] = a[i + k]
      /\ b[num - k + 1] = a[num] + n
      /\ \A x \in Nat : a[k] <= x /\ x < a[num] => buf'[x % LogSize] = buf[x % LogSize]
      /\ \A m \in 0..(n - 1) : buf'[(a[num] + m) % LogSize] = Entry(size)[m]
      /\ Placed(b)'

\* audit_core_add_record() keeps the records it does not displace and adds the
\* new one behind them.
LEMMA AddIs ==
  ASSUME AuditInv, NEW a, Placed(a), NEW size \in Sizes, AddRecord(size)
  PROVE  /\ DOMAIN buf' = 0..(LogSize - 1)
         /\ \E b, k : AddLayout(a, b, k, size)
<1>1. Placed(a)
  OBVIOUS
<1>2. PICK n : n = COMPUTE_LOG_ENTRY_SIZE(size)
  OBVIOUS
<1>3. /\ LogSize \in Nat \ {0} /\ FixedSize \in Nat \ {0} /\ MacSize \in Nat
      /\ size \in Nat /\ n \in Nat /\ n >= 1 /\ n <= LogSize
      /\ n = FixedSize + size + MacSize
  BY <1>2, AuditAssumption DEF AddRecord, COMPUTE_LOG_ENTRY_SIZE
<1>4. /\ num \in Nat /\ a \in [0..num -> Nat]
      /\ \A i, j \in 0..num : i <= j => a[i] <= a[j]
      /\ \A i \in 0..(num - 1) : Holds(buf, a[i], a[i + 1])
      /\ stored = a[num] - a[0]
  BY <1>1 DEF Placed
<1>5. PICK k : k = IF num = 0 THEN 0 ELSE Evicted(n)
  OBVIOUS
<1>6. PICK y \in Nat : y = a[num]
  BY <1>4
<1>7. /\ k \in 0..num /\ y - a[k] <= LogSize - n
      /\ \A j \in 0..(k - 1) : ~(y - a[j] <= LogSize - n)
  <2>1. CASE num = 0
    BY <1>3, <1>4, <1>5, <1>6, <2>1
  <2>2. CASE num # 0
    <3>1. n \in 0..LogSize
      BY <1>3
    <3> QED
      BY <1>1, <1>5, <1>6, <2>2, <3>1, EvictedIs
  <2> QED
    BY <2>1, <2>2
<1>8. /\ Nth(buf, first, k) = a[k] % LogSize
      /\ Removed(k) = a[k] - a[0]
      /\ StartPos(k) = y % LogSize
  BY <1>1, <1>6, <1>7, Walk, StartIs
<1>9. /\ buf' = Copied(Entry(size), y % LogSize)
      /\ first' = a[k] % LogSize
      /\ last' = y % LogSize
      /\ num' = num - k + 1
      /\ stored' = stored - (a[k] - a[0]) + n
  BY <1>2, <1>5, <1>8 DEF AddRecord
<1>10. /\ DOMAIN buf' = 0..(LogSize - 1)
       /\ \A m \in 0..(n - 1) : buf'[(y + m) % LogSize] = Entry(size)[m]
       /\ \A x \in Nat : x < y /\ y - x <= LogSize - n =>
            buf'[x % LogSize] = buf[x % LogSize]
  <2>1. n \in 0..LogSize /\ DOMAIN Entry(size) = 0..(n - 1)
    BY <1>2, <1>3 DEF Entry
  <2>2. DOMAIN buf = 0..(LogSize - 1)
    BY DEF AuditInv
  <2>3. PICK e : e = Entry(size)
    OBVIOUS
  <2>4. DOMAIN e = 0..(n - 1) /\ buf' = Copied(e, y % LogSize)
    BY <1>9, <2>1, <2>3
  <2>5. PICK c : c = Copied(e, y % LogSize)
    OBVIOUS
  <2>6. /\ DOMAIN c = 0..(LogSize - 1)
        /\ \A m \in 0..(n - 1) : c[(y + m) % LogSize] = e[m]
        /\ \A x \in Nat : x < y /\ y - x <= LogSize - n =>
             c[x % LogSize] = buf[x % LogSize]
    BY <2>1, <2>2, <2>4, <2>5, CopyIs
  <2>7. c = buf'
    BY <2>4, <2>5
  <2> QED
    BY <2>3, <2>6, <2>7, Zenon
<1>11. PICK d \in Nat : d = num - k
  BY <1>4, <1>7
<1> DEFINE b == [i \in 0..(d + 1) |-> IF i <= d THEN a[i + k] ELSE y + n]
<1>12. ASSUME NEW i \in 0..d
       PROVE  /\ b[i] = a[i + k] /\ i + k \in 0..num /\ a[i + k] \in Nat
              /\ a[k] <= a[i + k] /\ a[i + k] <= y /\ k \in 0..num
  <2>1. i + k \in 0..num /\ k \in 0..num /\ k <= i + k /\ i + k <= num
        /\ num \in 0..num
    BY <1>4, <1>7, <1>11
  <2> QED
    BY <1>4, <1>6, <2>1
<1>13. b[d + 1] = y + n /\ b[d] = y /\ b[0] = a[k] /\ a[k] \in Nat
  <2>1. d + k = num /\ 0 + k = k /\ d \in 0..d /\ 0 \in 0..d
    BY <1>4, <1>7, <1>11
  <2>2. b[d + 1] = y + n
    OBVIOUS
  <2>3. b[d] = a[d + k] /\ b[0] = a[0 + k]
    BY <1>12, <2>1
  <2> QED
    BY <1>4, <1>6, <1>7, <2>1, <2>2, <2>3
<1> HIDE DEF b
<1>14. num' = d + 1 /\ num' \in Nat /\ 0..num' = 0..(d + 1)
  BY <1>4, <1>7, <1>9, <1>11
<1>15. b \in [0..num' -> Nat]
  <2>1. \A i \in 0..(d + 1) : b[i] \in Nat
    BY <1>3, <1>12, <1>13
  <2>2. DOMAIN b = 0..(d + 1) /\ b = [i \in 0..(d + 1) |-> b[i]]
    BY DEF b
  <2> QED
    BY <1>14, <2>1, <2>2
<1>16. ASSUME NEW i \in 0..num', NEW j \in 0..num', i <= j PROVE b[i] <= b[j]
  <2>1. i \in 0..(d + 1) /\ j \in 0..(d + 1)
    BY <1>14
  <2>2. CASE j \in 0..d
    <3>1. i \in 0..d /\ i + k <= j + k
      BY <1>4, <1>7, <1>16, <2>1, <2>2
    <3> QED
      BY <1>4, <1>12, <2>2, <3>1
  <2>3. CASE j = d + 1 /\ i \in 0..d
    BY <1>3, <1>12, <1>13, <2>3
  <2>4. CASE j = d + 1 /\ i = d + 1
    BY <1>3, <1>13, <2>4
  <2> QED
    BY <1>16, <2>1, <2>2, <2>3, <2>4
<1>17. ASSUME NEW i \in 0..(num' - 1) PROVE Holds(buf', b[i], b[i + 1])
  <2>1. i \in 0..d
    BY <1>14
  <2>2. CASE i = d
    <3>1. Holds(buf', y, y + n)
      BY <1>2, <1>3, <1>10, HoldsNew
    <3> QED
      BY <1>13, <2>2, <3>1
  <2>3. CASE i # d
    <3>1. /\ i + 1 \in 0..d /\ i + k \in 0..(num - 1) /\ (i + k) + 1 = (i + 1) + k
      BY <1>4, <1>7, <1>11, <2>1, <2>3
    <3>2. PICK p \in Nat, q \in Nat : p = a[i + k] /\ q = a[(i + 1) + k]
      BY <1>12, <2>1, <3>1
    <3>3. a[k] <= p /\ q <= y /\ b[i] = p /\ b[i + 1] = q
      BY <1>12, <2>1, <3>1, <3>2
    <3>4. Holds(buf, p, q)
      BY <1>4, <3>1, <3>2
    <3>5. ASSUME NEW z \in Nat, p <= z, z < q
          PROVE  buf'[z % LogSize] = buf[z % LogSize]
      <4>1. z < y /\ y - z <= LogSize - n
        BY <1>3, <1>7, <1>13, <3>3, <3>5
      <4> QED
        BY <1>10, <4>1
    <3>6. Holds(buf', p, q)
      BY <3>4, <3>5, HoldsFrame
    <3> QED
      BY <3>3, <3>6
  <2> QED
    BY <2>2, <2>3
<1>18. /\ first' = b[0] % LogSize
       /\ last' = b[num' - 1] % LogSize
       /\ num' # 0
  <2>1. num' - 1 = d
    BY <1>14
  <2> QED
    BY <1>9, <1>13, <1>14, <2>1
<1>19. stored' = b[num'] - b[0] /\ stored' <= LogSize
  <2>1. PICK u \in Nat, w \in Nat : u = a[0] /\ w = a[k]
    BY <1>4, <1>13
  <2>2. stored' = (y - u) - (w - u) + n
    BY <1>4, <1>6, <1>9, <2>1
  <2>3. stored' = (y + n) - a[k]
    BY <1>3, <2>1, <2>2
  <2> QED
    BY <1>3, <1>7, <1>13, <1>14, <2>3
<1>20. Placed(b)'
  BY <1>14, <1>15, <1>16, <1>17, <1>18, <1>19 DEF Placed
<1>21. ASSUME NEW x \in Nat, a[k] <= x, x < y
       PROVE  buf'[x % LogSize] = buf[x % LogSize]
  <2>1. x < y /\ y - x <= LogSize - n
    BY <1>3, <1>7, <1>13, <1>21
  <2> QED
    BY <1>10, <2>1
<1>22. /\ num' = num - k + 1
       /\ \A i \in 0..(num - k) : b[i] = a[i + k]
       /\ b[num - k + 1] = a[num] + n
  BY <1>6, <1>9, <1>11, <1>12, <1>13
<1>23. AddLayout(a, b, k, size)
  BY <1>2, <1>6, <1>7, <1>10, <1>20, <1>21, <1>22 DEF AddLayout
<1> QED
  BY <1>10, <1>23

\* audit_core_add_record() keeps the invariant.
LEMMA AddStep ==
  ASSUME AuditInv, NEW size \in Sizes, AddRecord(size)
  PROVE  AuditInv'
<1>1. PICK a : Placed(a)
  BY DEF AuditInv
<1>2. DOMAIN buf' = 0..(LogSize - 1) /\ \E b, k : AddLayout(a, b, k, size)
  BY <1>1, AddIs
<1> QED
  BY <1>2 DEF AuditInv, AddLayout

\* audit_core_delete_record() drops the oldest record.
LEMMA DeleteStep ==
  ASSUME AuditInv, DeleteRecord
  PROVE  AuditInv'
<1>1. PICK a : Placed(a)
  BY DEF AuditInv
<1>2. /\ num \in Nat /\ num > 0 /\ a \in [0..num -> Nat] /\ LogSize \in Nat \ {0}
      /\ \A i, j \in 0..num : i <= j => a[i] <= a[j]
      /\ \A i \in 0..(num - 1) : Holds(buf, a[i], a[i + 1])
      /\ first = a[0] % LogSize
      /\ last = a[num - 1] % LogSize
      /\ stored = a[num] - a[0] /\ stored <= LogSize
      /\ buf' = buf
  BY <1>1, AuditAssumption DEF Placed, DeleteRecord
<1>3. CASE num = 1
  <2> DEFINE b == [i \in 0..0 |-> 0]
  <2>1. num' = 0 /\ first' = 0 /\ last' = 0 /\ stored' = 0
    BY <1>3 DEF DeleteRecord
  <2>2. 0 % LogSize = 0
    BY <1>2
  <2>3. b \in [0..0 -> Nat] /\ b[0] = 0
    OBVIOUS
  <2> HIDE DEF b
  <2>4. Placed(b)'
    BY <1>2, <2>1, <2>2, <2>3 DEF Placed
  <2> QED
    BY <1>2, <2>4 DEF AuditInv
<1>4. CASE num # 1
  <2>0. PICK m \in Nat : m = num - 1
    BY <1>2
  <2> DEFINE b == [i \in 0..m |-> a[i + 1]]
  <2>1. 0 \in 0..(num - 1) /\ 0 + 1 = 1
    BY <1>2
  <2>2. /\ a[1] = a[0] + COMPUTE_LOG_ENTRY_SIZE(SizeAt(buf, a[0] % LogSize))
        /\ GET_NEXT_LOG_INDEX(buf, a[0] % LogSize) = a[1] % LogSize
    BY <1>1, <2>1, NextIs
  <2>3. PICK e : e = COMPUTE_LOG_ENTRY_SIZE(SizeAt(buf, a[0] % LogSize))
    OBVIOUS
  <2>4. /\ num' = num - 1 /\ first' = a[1] % LogSize /\ last' = last
        /\ stored' = stored - e
    BY <1>2, <1>4, <2>2, <2>3 DEF DeleteRecord
  <2>5. \A i \in 0..(num - 1) : b[i] = a[i + 1] /\ i + 1 \in 0..num
    BY <1>2, <2>0
  <2>6. b \in [0..(num - 1) -> Nat]
    BY <1>2, <2>0
  <2>7. /\ num - 1 \in 0..(num - 1) /\ (num - 1) + 1 = num
        /\ num - 2 \in 0..(num - 1) /\ (num - 2) + 1 = num - 1
        /\ (num - 1) - 1 = num - 2 /\ num - 1 # 0
    BY <1>2, <1>4
  <2>8. b[0] = a[1] /\ b[num - 1] = a[num] /\ b[(num - 1) - 1] = a[num - 1]
    BY <2>1, <2>5, <2>7
  <2>9. ASSUME NEW i \in 0..(num - 1), NEW j \in 0..(num - 1), i <= j
        PROVE  b[i] <= b[j]
    <3>1. i + 1 <= j + 1
      BY <2>9
    <3> QED
      BY <1>2, <2>5, <3>1
  <2>10. ASSUME NEW i \in 0..((num - 1) - 1) PROVE Holds(buf, b[i], b[i + 1])
    <3>1. i \in 0..(num - 1) /\ i + 1 \in 0..(num - 1)
      BY <1>2
    <3> QED
      BY <1>2, <2>5, <3>1
  <2>11. stored - e = a[num] - a[1] /\ stored - e <= LogSize
    <3>1. 0 \in 0..num /\ 1 \in 0..num /\ num \in 0..num /\ 0 <= 1
      BY <1>2
    <3>2. a[0] \in Nat /\ a[1] \in Nat /\ a[num] \in Nat /\ a[0] <= a[1]
      BY <1>2, <3>1
    <3>3. e = a[1] - a[0]
      <4>1. SizeAt(buf, a[0] % LogSize) \in Nat
        BY <1>1, <2>1, NextIs
      <4>2. e \in Nat
        BY <2>3, <4>1, AuditAssumption DEF COMPUTE_LOG_ENTRY_SIZE
      <4> QED
        BY <2>2, <2>3, <3>2, <4>2
    <3>4. PICK u \in Nat, w \in Nat, v \in Nat :
            u = a[0] /\ w = a[1] /\ v = a[num]
      BY <3>2
    <3>5. stored = v - u /\ e = w - u /\ u <= w /\ v - u <= LogSize
      BY <1>2, <3>2, <3>3, <3>4
    <3>6. LogSize \in Nat
      BY <1>2
    <3>7. stored - e = v - w /\ v - w <= LogSize
      BY <3>5, <3>6
    <3> QED
      BY <3>4, <3>7, Zenon
  <2> HIDE DEF b
  <2>12. Placed(b)'
    <3>1. /\ num' = m /\ m # 0 /\ b \in [0..m -> Nat]
          /\ first' = b[0] % LogSize /\ last' = b[m - 1] % LogSize
          /\ stored' = b[m] - b[0] /\ stored' <= LogSize
      BY <1>2, <2>4, <2>6, <2>7, <2>8, <2>11, <2>0
    <3>2. \A i, j \in 0..m : i <= j => b[i] <= b[j]
      BY <2>9, <2>0
    <3>3. \A i \in 0..(m - 1) : Holds(buf', b[i], b[i + 1])
      BY <1>2, <2>10, <2>0
    <3>4. num' \in Nat /\ num' # 0 /\ b \in [0..num' -> Nat]
      BY <3>1, Zenon
    <3>5. /\ first' = b[0] % LogSize /\ last' = b[num' - 1] % LogSize
          /\ stored' = b[num'] - b[0] /\ stored' <= LogSize
      BY <3>1, Zenon
    <3>6. \A i, j \in 0..num' : i <= j => b[i] <= b[j]
      BY <3>1, <3>2, Zenon
    <3>7. \A i \in 0..(num' - 1) : Holds(buf', b[i], b[i + 1])
      BY <3>1, <3>3, Zenon
    <3> QED
      BY <3>4, <3>5, <3>6, <3>7, Zenon DEF Placed
  <2> QED
    BY <1>2, <2>12 DEF AuditInv
<1> QED
  BY <1>3, <1>4
-----------------------------------------------------------------------------
(* The log as its clients see it *)

\* The record that starts at x of the unrolled buffer.
Rec(b, x) == [stamp |-> b[x % LogSize].stamp, size |-> SizeAt(b, x % LogSize)]

\* The log is the records of any layout.
RecordsLaid == \A a : Placed(a) => Records = [i \in 1..num |-> Rec(buf, a[i - 1])]

\* The walk finds the record at each place of the layout.
LEMMA RecordsAre == RecordsLaid
<1> SUFFICES ASSUME NEW a, Placed(a)
             PROVE  Records = [i \in 1..num |-> Rec(buf, a[i - 1])]
  BY DEF RecordsLaid
<1>1. ASSUME NEW i \in 1..num PROVE Nth(buf, first, i - 1) = a[i - 1] % LogSize
  <2>1. i - 1 \in 0..num
    BY DEF Placed
  <2> QED
    BY <2>1, Walk
<1> QED
  BY <1>1, Zenon DEF Records, Rec

\* The items of a sequence behind the first k of them.
LEMMA SuffixIs ==
  ASSUME NEW m \in Nat, NEW s, s = [i \in 1..m |-> s[i]], NEW k \in 0..m
  PROVE  /\ Len(s) = m
         /\ SubSeq(s, k + 1, m) = [i \in 1..(m - k) |-> s[k + i]]
<1> DEFINE T == {s[i] : i \in 1..m}
<1>1. s \in Seq(T) /\ Len(s) = m
  OBVIOUS
<1> HIDE DEF T
<1>2. PICK d \in Nat : d = m - k
  OBVIOUS
<1>3. PICK t : t = SubSeq(s, k + 1, m)
  OBVIOUS
<1>4. t \in Seq(T) /\ Len(t) = d /\ \A i \in 1..d : t[i] = s[k + i]
  BY ONLY <1>1, <1>2, <1>3, m \in Nat, k \in 0..m
<1>5. t = [i \in 1..d |-> s[k + i]]
  <2>1. t \in [1..Len(t) -> T]
    BY ONLY <1>4
  <2>2. t = [i \in 1..d |-> t[i]]
    BY ONLY <1>4, <2>1
  <2> QED
    BY <1>4, <2>2, Zenon
<1> QED
  BY <1>1, <1>2, <1>3, <1>5

\* The words of a sequence of records that a lays out.
LEMMA WordsAre ==
  ASSUME NEW s, NEW n \in Nat, Len(s) = n, NEW a \in [0..n -> Nat],
         \A k \in 1..n : /\ s[k].size \in Nat
                         /\ a[k] = a[k - 1] + COMPUTE_LOG_ENTRY_SIZE(s[k].size)
  PROVE  Abstract!Words(s) = a[n] - a[0]
<1> DEFINE E(k) == FixedSize + MacSize + s[k].size
           F(f) == [k \in 0..n |-> IF k = 0 THEN 0 ELSE f[k - 1] + E(k)]
           p == [k \in 0..n |-> a[k] - a[0]]
           sum == CHOOSE f : f = F(f)
<1>1. Abstract!Words(s) = sum[n]
  BY DEF Abstract!Words
<1>2. ASSUME NEW k \in 0..n
      PROVE  p[k] = IF k = 0 THEN 0 ELSE p[k - 1] + E(k)
  <2>1. CASE k = 0
    BY <2>1
  <2>2. CASE k # 0
    <3>1. k - 1 \in 0..n /\ k \in 1..n /\ 0 \in 0..n
      BY <2>2
    <3>2. PICK v \in Nat : v = s[k].size
      BY <3>1
    <3>3. a[k] = a[k - 1] + (FixedSize + v + MacSize)
      BY <3>1, <3>2 DEF COMPUTE_LOG_ENTRY_SIZE
    <3>4. a[k] \in Nat /\ a[k - 1] \in Nat /\ a[0] \in Nat
      BY <3>1
    <3>5. a[k] - a[0] = (a[k - 1] - a[0]) + (FixedSize + MacSize + v)
      BY <3>3, <3>4, AuditAssumption
    <3> QED
      BY <2>2, <3>1, <3>2, <3>5
  <2> QED
    BY <2>1, <2>2
<1>3. p[n] = a[n] - a[0]
  OBVIOUS
<1>4. DOMAIN p = 0..n
  OBVIOUS
<1>5. p = [k \in 0..n |-> p[k]]
  OBVIOUS
<1> HIDE DEF p, E
<1>6. p = F(p)
  BY <1>2, <1>5
<1>7. PICK f : f = sum
  OBVIOUS
<1>8. f = F(f)
  BY <1>6, <1>7
<1>9. \A k \in 0..n : f[k] = IF k = 0 THEN 0 ELSE f[k - 1] + E(k)
  BY <1>8
<1> DEFINE B == {k \in 0..n : f[k] # p[k]}
<1>10. ASSUME B # {} PROVE FALSE
  <2>1. B \in SUBSET Nat
    OBVIOUS
  <2>2. PICK m \in B : \A j \in B : m <= j
    BY <1>10, <2>1, LeastOf
  <2>3. m \in 0..n /\ f[m] # p[m] /\ m # 0
    BY <1>2, <1>9, <2>2
  <2>4. m - 1 \in 0..n /\ ~(m <= m - 1)
    BY <2>3
  <2>5. f[m - 1] = p[m - 1]
    BY <2>2, <2>4
  <2> QED
    BY <1>2, <1>9, <2>3, <2>5
<1>11. n \in 0..n
  OBVIOUS
<1> QED
  BY <1>1, <1>3, <1>7, <1>10, <1>11

\* The words of the records behind the k oldest ones.
LEMMA SuffixWords ==
  ASSUME NEW a, Placed(a), NEW k \in 0..num
  PROVE  Abstract!Words(SubSeq(Records, k + 1, Len(Records))) = a[num] - a[k]
<1>1. num \in Nat /\ a \in [0..num -> Nat]
  BY DEF Placed
<1>2. Records = [i \in 1..num |-> Rec(buf, a[i - 1])]
  BY RecordsAre DEF RecordsLaid
<1>3. Len(Records) = num
  BY <1>1, <1>2
<1>4. PICK n \in Nat : n = num - k
  BY <1>1
<1>5. PICK s : s = SubSeq(Records, k + 1, Len(Records))
  OBVIOUS
<1>6. s = [i \in 1..n |-> Records[k + i]]
  <2>1. Records = [i \in 1..num |-> Records[i]]
    BY <1>2
  <2> QED
    BY <1>1, <1>3, <1>4, <1>5, <2>1, SuffixIs
<1>7. Len(s) = n
  BY <1>6
<1> DEFINE c == [i \in 0..n |-> a[k + i]]
<1>8. c \in [0..n -> Nat] /\ c[0] = a[k] /\ c[n] = a[num]
  <2>1. \A i \in 0..n : k + i \in 0..num
    BY <1>1, <1>4
  <2>2. k + 0 = k /\ k + n = num
    BY <1>1, <1>4
  <2> QED
    BY <1>1, <2>1, <2>2
<1>9. ASSUME NEW i \in 1..n
      PROVE  /\ s[i].size \in Nat
             /\ c[i] = c[i - 1] + COMPUTE_LOG_ENTRY_SIZE(s[i].size)
  <2>1. PICK j \in 0..(num - 1) : j = k + i - 1
    BY <1>1, <1>4
  <2>2. j + 1 \in 1..num /\ (j + 1) - 1 = j
        /\ i \in 0..n /\ i - 1 \in 0..n /\ k + i = j + 1 /\ k + (i - 1) = j
    BY <1>1, <1>4, <2>1
  <2>3. s[i] = Records[j + 1]
    BY <1>6, <2>2
  <2>4. Records[j + 1] = Rec(buf, a[j])
    BY <1>2, <2>2
  <2>5. s[i].size = SizeAt(buf, a[j] % LogSize)
    BY <2>3, <2>4 DEF Rec
  <2>6. c[i] = a[j + 1] /\ c[i - 1] = a[j]
    BY <2>2
  <2> QED
    BY <2>5, <2>6, NextIs
<1> HIDE DEF c
<1>10. Abstract!Words(s) = c[n] - c[0]
  BY <1>7, <1>8, <1>9, WordsAre
<1> QED
  BY <1>5, <1>8, <1>10

\* stored_size is what the records take.
LEMMA TotalIs == AuditInv => stored = Abstract!Words(Records)
<1> SUFFICES ASSUME AuditInv PROVE stored = Abstract!Words(Records)
  OBVIOUS
<1>1. PICK a : Placed(a)
  BY DEF AuditInv
<1>2. num \in Nat /\ 0 \in 0..num /\ stored = a[num] - a[0]
  BY <1>1 DEF Placed
<1>3. Abstract!Words(SubSeq(Records, 0 + 1, Len(Records))) = stored
  BY <1>1, <1>2, SuffixWords
<1>4. Records = [i \in 1..num |-> Rec(buf, a[i - 1])]
  BY <1>1, RecordsAre DEF RecordsLaid
<1>5. SubSeq(Records, 0 + 1, Len(Records)) = Records
  <2>1. Records = [i \in 1..num |-> Records[i]]
    BY <1>4
  <2>2. /\ Len(Records) = num
        /\ SubSeq(Records, 0 + 1, num) = [i \in 1..(num - 0) |-> Records[0 + i]]
    BY <1>2, <2>1, SuffixIs
  <2>3. num - 0 = num /\ \A i \in 1..num : 0 + i = i
    BY <1>2
  <2> QED
    BY <2>1, <2>2, <2>3
<1> QED
  BY <1>3, <1>5

\* A suffix leaves room in the log exactly when it does in the buffer.
LEMMA FitsIs ==
  ASSUME NEW a, Placed(a), NEW k \in 0..num, NEW size \in Nat
  PROVE  Abstract!Fits(k, FixedSize + MacSize + size)
           <=> a[num] - a[k] <= LogSize - COMPUTE_LOG_ENTRY_SIZE(size)
<1>1. PICK w : w = Abstract!Words(SubSeq(Records, k + 1, Len(Records)))
  OBVIOUS
<1>2. w = a[num] - a[k]
  BY <1>1, SuffixWords
<1>3. a[num] \in Nat /\ a[k] \in Nat
  BY DEF Placed
<1>4. Abstract!Fits(k, FixedSize + MacSize + size)
        <=> w + (FixedSize + MacSize + size) <= LogSize
  BY <1>1, Zenon DEF Abstract!Fits
<1>5. w \in Int
  BY <1>2, <1>3
<1> QED
  BY <1>2, <1>4, <1>5, AuditAssumption DEF COMPUTE_LOG_ENTRY_SIZE

\* A record is the same when its words do not change.
LEMMA RecFrame ==
  ASSUME NEW b, NEW c, NEW x \in Nat, NEW y \in Nat, Holds(b, x, y),
         \A z \in Nat : x <= z /\ z < y => c[z % LogSize] = b[z % LogSize]
  PROVE  Rec(c, x) = Rec(b, x)
<1>1. FixedSize \in Nat \ {0} /\ MacSize \in Nat /\ LogSize \in Nat \ {0}
  BY AuditAssumption
<1>2. PICK v \in Nat : v = b[(x + FixedSize - 1) % LogSize].val
  BY DEF Holds
<1>3. y = x + FixedSize + v + MacSize
  BY <1>1, <1>2 DEF Holds, COMPUTE_LOG_ENTRY_SIZE
<1>4. PICK z \in Nat : z = x + (FixedSize - 1)
  BY <1>1
<1>5. c[z % LogSize] = b[z % LogSize]
  BY <1>1, <1>3, <1>4
<1>6. c[x % LogSize] = b[x % LogSize]
  BY <1>1, <1>3
<1>7. ((x % LogSize) + FixedSize - 1) % LogSize = z % LogSize
  <2>1. x \in Int /\ FixedSize - 1 \in Int
    BY <1>1
  <2>2. /\ ((x % LogSize) + (FixedSize - 1)) % LogSize = z % LogSize
        /\ x % LogSize \in 0..(LogSize - 1)
    BY <1>1, <1>4, <2>1, ModAdd, Zenon
  <2>3. (x % LogSize) + (FixedSize - 1) = (x % LogSize) + FixedSize - 1
    BY <1>1, <2>2
  <2> QED
    BY <2>2, <2>3
<1> QED
  BY <1>5, <1>6, <1>7, Zenon DEF Rec, SizeAt

\* The record that audit_format_buffer() and audit_buffer_copy() made.
LEMMA RecNew ==
  ASSUME NEW size \in Nat, NEW c, NEW y \in Nat,
         \A m \in 0..(COMPUTE_LOG_ENTRY_SIZE(size) - 1) :
           c[(y + m) % LogSize] = Entry(size)[m]
  PROVE  Rec(c, y) = [stamp |-> stamp, size |-> size]
<1>1. FixedSize \in Nat \ {0} /\ MacSize \in Nat /\ LogSize \in Nat \ {0}
  BY AuditAssumption
<1>2. PICK n \in Nat : n = COMPUTE_LOG_ENTRY_SIZE(size)
  BY <1>1 DEF COMPUTE_LOG_ENTRY_SIZE
<1>3. /\ 0 \in 0..(n - 1) /\ FixedSize - 1 \in 0..(n - 1) /\ y + 0 = y
      /\ y \in Int /\ FixedSize - 1 \in Int
  BY <1>1, <1>2 DEF COMPUTE_LOG_ENTRY_SIZE
<1>4. ASSUME NEW m \in 0..(n - 1)
      PROVE  /\ c[(y + m) % LogSize].stamp = stamp
             /\ m = FixedSize - 1 => c[(y + m) % LogSize].val = size
  <2>1. c[(y + m) % LogSize] = Word(stamp, m, IF m = FixedSize - 1 THEN size ELSE 0)
    BY <1>2 DEF Entry
  <2> QED
    BY <2>1 DEF Word
<1>5. c[y % LogSize].stamp = stamp
  BY <1>3, <1>4
<1>6. c[(y + (FixedSize - 1)) % LogSize].val = size
  BY <1>3, <1>4
<1>7. ((y % LogSize) + FixedSize - 1) % LogSize = (y + (FixedSize - 1)) % LogSize
  <2>1. /\ ((y % LogSize) + (FixedSize - 1)) % LogSize = (y + (FixedSize - 1)) % LogSize
        /\ y % LogSize \in 0..(LogSize - 1)
    BY <1>1, <1>3, ModAdd, Zenon
  <2>2. (y % LogSize) + (FixedSize - 1) = (y % LogSize) + FixedSize - 1
    BY <1>1, <2>1
  <2> QED
    BY <2>1, <2>2
<1> QED
  BY <1>5, <1>6, <1>7, Zenon DEF Rec, SizeAt

\* What audit_core_add_record() does to the log: the oldest records give way and
\* the new one is the last.
LEMMA AddedRecords ==
  ASSUME NEW a, NEW b, NEW k, NEW size \in Nat, Placed(a), AddLayout(a, b, k, size)
  PROVE  Records' = Append(SubSeq(Records, k + 1, Len(Records)),
                           [stamp |-> stamp, size |-> size])
<1>1. /\ num \in Nat /\ a \in [0..num -> Nat]
      /\ \A i, j \in 0..num : i <= j => a[i] <= a[j]
      /\ \A i \in 0..(num - 1) : Holds(buf, a[i], a[i + 1])
  BY DEF Placed
<1>2. /\ k \in 0..num /\ num' = num - k + 1
      /\ \A i \in 0..(num - k) : b[i] = a[i + k]
      /\ \A x \in Nat : a[k] <= x /\ x < a[num] => buf'[x % LogSize] = buf[x % LogSize]
      /\ \A m \in 0..(COMPUTE_LOG_ENTRY_SIZE(size) - 1) :
           buf'[(a[num] + m) % LogSize] = Entry(size)[m]
      /\ Placed(b)'
  BY DEF AddLayout
<1>3. PICK d \in Nat : d = num - k
  BY <1>1, <1>2
<1>4. Records = [i \in 1..num |-> Rec(buf, a[i - 1])]
  BY RecordsAre DEF RecordsLaid
<1>5. Records' = [i \in 1..num' |-> Rec(buf', b[i - 1])]
  <2>1. RecordsLaid'
    BY RecordsAre, PTL
  <2> QED
    BY <1>2, <2>1 DEF RecordsLaid
<1>6. ASSUME NEW i \in 1..d PROVE Rec(buf', b[i - 1]) = Records[k + i]
  <2>1. PICK j \in 0..(num - 1) : j = (i - 1) + k
    BY <1>1, <1>2, <1>3
  <2>2. /\ k + i \in 1..num /\ (k + i) - 1 = j /\ i - 1 \in 0..(num - k)
        /\ j \in 0..num /\ j + 1 \in 0..num /\ num \in 0..num /\ k <= j /\ j + 1 <= num
    BY <1>1, <1>2, <1>3, <2>1
  <2>3. b[i - 1] = a[j]
    BY <1>2, <2>1, <2>2
  <2>4. PICK x \in Nat, y \in Nat : x = a[j] /\ y = a[j + 1]
    BY <1>1, <2>2
  <2>5. a[k] <= x /\ y <= a[num] /\ a[k] \in Nat /\ a[num] \in Nat /\ Holds(buf, x, y)
    BY <1>1, <1>2, <2>1, <2>2, <2>4
  <2>6. ASSUME NEW z \in Nat, x <= z, z < y
        PROVE  buf'[z % LogSize] = buf[z % LogSize]
    <3>1. a[k] <= z /\ z < a[num]
      BY <2>5, <2>6
    <3> QED
      BY <1>2, <3>1
  <2>7. Rec(buf', x) = Rec(buf, x)
    BY <2>5, <2>6, RecFrame
  <2> QED
    BY <1>4, <2>2, <2>3, <2>4, <2>7
<1>7. Rec(buf', b[(d + 1) - 1]) = [stamp |-> stamp, size |-> size]
  <2>1. (d + 1) - 1 = d /\ d \in 0..(num - k) /\ d + k = num
    BY <1>1, <1>2, <1>3
  <2>2. PICK y \in Nat : y = a[num]
    BY <1>1
  <2>3. b[(d + 1) - 1] = y
    BY <1>2, <2>1, <2>2
  <2>4. Rec(buf', y) = [stamp |-> stamp, size |-> size]
    BY <1>2, <2>2, RecNew
  <2> QED
    BY <2>3, <2>4
<1>8. PICK s, r : /\ s = SubSeq(Records, k + 1, Len(Records))
                  /\ r = [stamp |-> stamp, size |-> size]
  OBVIOUS
<1>9. s = [i \in 1..d |-> Records[k + i]]
  <2>1. Records = [i \in 1..num |-> Records[i]]
    BY <1>4
  <2> QED
    BY <1>1, <1>2, <1>3, <1>8, <2>1, SuffixIs
<1>10. Records' = [i \in 1..(d + 1) |-> IF i = d + 1 THEN r ELSE s[i]]
  <2>1. num' = d + 1
    BY <1>1, <1>2, <1>3
  <2>2. ASSUME NEW i \in 1..(d + 1)
        PROVE  Rec(buf', b[i - 1]) = IF i = d + 1 THEN r ELSE s[i]
    <3>1. CASE i = d + 1
      BY <1>7, <1>8, <3>1
    <3>2. CASE i # d + 1
      <4>1. i \in 1..d
        BY <3>2
      <4> QED
        BY <1>6, <1>9, <3>2, <4>1
    <3> QED
      BY <3>1, <3>2
  <2> QED
    BY <1>5, <2>1, <2>2, Zenon
<1>11. Append(s, r) = [i \in 1..(d + 1) |-> IF i = d + 1 THEN r ELSE s[i]]
  <2> DEFINE T == {s[i] : i \in 1..d} \cup {r}
  <2>1. s \in Seq(T) /\ Len(s) = d
    BY ONLY <1>9, d \in Nat
  <2>2. r \in T
    OBVIOUS
  <2> HIDE DEF T
  <2>3. PICK t : t = Append(s, r)
    OBVIOUS
  <2>4. t \in Seq(T) /\ Len(t) = d + 1 /\ t[d + 1] = r /\ \A i \in 1..d : t[i] = s[i]
    BY ONLY <2>1, <2>2, <2>3, d \in Nat
  <2>5. t \in [1..Len(t) -> T]
    BY ONLY <2>4
  <2>6. t = [i \in 1..(d + 1) |-> t[i]]
    BY ONLY <2>4, <2>5
  <2>7. \A i \in 1..(d + 1) : t[i] = IF i = d + 1 THEN r ELSE s[i]
    BY ONLY <2>4, d \in Nat
  <2> QED
    BY <2>3, <2>6, <2>7, Zenon
<1> QED
  BY <1>8, <1>10, <1>11

\* audit_core_add_record() adds a record to the log.
LEMMA AddRefined ==
  ASSUME AuditInv, AuditInv', NEW size \in Sizes, AddRecord(size)
  PROVE  Abstract!LogAdd(size)
<1>1. PICK a : Placed(a)
  BY DEF AuditInv
<1>2. PICK b, k : AddLayout(a, b, k, size)
  BY <1>1, AddIs
<1>3. size \in Nat
  BY AuditAssumption
<1>4. Records' = Append(SubSeq(Records, k + 1, Len(Records)),
                        [stamp |-> stamp, size |-> size])
  BY <1>1, <1>2, <1>3, AddedRecords
<1>5. k \in 0..num /\ num \in Nat
  BY <1>1, <1>2 DEF AddLayout, Placed
<1>6. Len(Records) = num
  <2>1. Records = [i \in 1..num |-> Rec(buf, a[i - 1])]
    BY <1>1, RecordsAre DEF RecordsLaid
  <2> QED
    BY <1>5, <2>1
<1>7. Abstract!Fits(k, FixedSize + MacSize + size)
  BY <1>1, <1>2, <1>3, <1>5, FitsIs DEF AddLayout
<1>8. ASSUME NEW j \in 0..(k - 1)
      PROVE  ~Abstract!Fits(j, FixedSize + MacSize + size)
  <2>1. j \in 0..num
    BY <1>5
  <2>2. ~(a[num] - a[j] <= LogSize - COMPUTE_LOG_ENTRY_SIZE(size))
    BY <1>2 DEF AddLayout
  <2> QED
    BY <1>1, <1>3, <2>1, <2>2, FitsIs
<1>9. stored' = Abstract!Words(Records')
  <2>1. (AuditInv => stored = Abstract!Words(Records))'
    BY TotalIs, PTL
  <2> QED
    BY <2>1
<1>10. stamp' = (stamp + 1) % StampMod
  BY DEF AddRecord
<1> QED
  BY <1>4, <1>5, <1>6, <1>7, <1>8, <1>9, <1>10 DEF Abstract!LogAdd

\* audit_core_delete_record() deletes the oldest record of the log.
LEMMA DeleteRefined ==
  ASSUME AuditInv, AuditInv', DeleteRecord
  PROVE  Abstract!LogDelete
<1>1. PICK a : Placed(a)
  BY DEF AuditInv
<1>2. /\ num \in Nat /\ num > 0 /\ a \in [0..num -> Nat]
      /\ first = a[0] % LogSize
      /\ buf' = buf /\ stamp' = stamp
  BY <1>1 DEF Placed, DeleteRecord
<1>3. Records = [i \in 1..num |-> Rec(buf, a[i - 1])]
  BY <1>1, RecordsAre DEF RecordsLaid
<1>4. PICK m \in Nat : m = num - 1
  BY <1>2
<1>5. Records' = [i \in 1..m |-> Records[i + 1]]
  <2>1. CASE num = 1
    <3>1. num' = 0 /\ m = 0
      BY <1>4, <2>1 DEF DeleteRecord
    <3>2. \A i \in 1..0 : FALSE
      OBVIOUS
    <3>3. Records' = [i \in 1..0 |-> LET idx == Nth(buf', first', i - 1)
                                     IN  [stamp |-> buf'[idx].stamp,
                                          size |-> SizeAt(buf', idx)]]
      BY <3>1, Zenon DEF Records
    <3> QED
      BY <3>1, <3>2, <3>3, Zenon
  <2>2. CASE num # 1
    <3>1. 0 \in 0..(num - 1) /\ 0 + 1 = 1
      BY <1>2
    <3>2. first' = a[1] % LogSize /\ num' = m
      BY <1>1, <1>2, <1>4, <2>2, <3>1, NextIs DEF DeleteRecord
    <3> DEFINE p == [k \in 0..m |-> a[k + 1] % LogSize]
    <3>3. ASSUME NEW k \in 0..(m - 1) PROVE GET_NEXT_LOG_INDEX(buf, p[k]) = p[k + 1]
      <4>1. k + 1 \in 0..(num - 1) /\ k \in 0..m /\ k + 1 \in 0..m
        BY <1>2, <1>4
      <4>2. GET_NEXT_LOG_INDEX(buf, a[k + 1] % LogSize) = a[(k + 1) + 1] % LogSize
        BY <1>1, <4>1, NextIs
      <4> QED
        BY <4>1, <4>2
    <3>4. p[0] = first'
      BY <3>1, <3>2
    <3>5. ASSUME NEW i \in 1..m
          PROVE  Nth(buf, first', i - 1) = a[i] % LogSize
      <4>1. i - 1 \in 0..m /\ (i - 1) + 1 = i /\ i - 1 \in Nat
        BY <1>4
      <4>2. p[i - 1] = a[i] % LogSize
        BY <4>1
      <4>3. \A k \in 0..((i - 1) - 1) : k \in 0..(m - 1)
        BY <1>4
      <4>4. \A k \in 0..((i - 1) - 1) : GET_NEXT_LOG_INDEX(buf, p[k]) = p[k + 1]
        BY <3>3, <4>3
      <4> HIDE DEF p
      <4> QED
        BY <3>4, <4>1, <4>2, <4>4, NthIs
    <3>6. ASSUME NEW i \in 1..m
          PROVE  Records[i + 1] = Rec(buf, a[i])
      <4>1. i + 1 \in 1..num /\ (i + 1) - 1 = i
        BY <1>2, <1>4
      <4> QED
        BY <1>3, <4>1
    <3>7. Records' = [i \in 1..m |-> Rec(buf, a[i])]
      BY <1>2, <3>2, <3>5, Zenon DEF Records, Rec
    <3> QED
      BY <3>6, <3>7, Zenon
  <2> QED
    BY <2>1, <2>2
<1>6. Records # <<>> /\ Records' = Tail(Records)
  <2> DEFINE T == {Records[i] : i \in 1..num}
  <2>1. Records = [i \in 1..num |-> Records[i]]
    BY <1>3
  <2>2. Records \in Seq(T) /\ Len(Records) = num
    BY ONLY <2>1, <1>2
  <2> HIDE DEF T
  <2>3. PICK s, t : s = Records /\ t = Tail(s)
    OBVIOUS
  <2>4. s # <<>> /\ t \in Seq(T) /\ Len(t) = m /\ \A i \in 1..m : t[i] = s[i + 1]
    BY ONLY <1>2, <1>4, <2>2, <2>3
  <2>5. t \in [1..Len(t) -> T]
    BY ONLY <2>4
  <2>6. t = [i \in 1..m |-> t[i]]
    BY ONLY <2>4, <2>5
  <2> QED
    BY <1>5, <2>3, <2>4, <2>6, Zenon
<1>7. stored' = Abstract!Words(Records')
  <2>1. (AuditInv => stored = Abstract!Words(Records))'
    BY TotalIs, PTL
  <2> QED
    BY <2>1
<1> QED
  BY <1>2, <1>6, <1>7 DEF Abstract!LogDelete
-----------------------------------------------------------------------------
(* The theorems *)

\* For every size of the buffer and of the records, log_buffer holds num_records
\* whole records one after the other from first_el_idx on, the newest one at
\* last_el_idx, and stored_size is what they take.
THEOREM AuditInvariant == AuditSpec => []AuditInv
<1>1. AuditInit => AuditInv
  <2> SUFFICES ASSUME AuditInit PROVE AuditInv
    OBVIOUS
  <2> DEFINE b == [i \in 0..0 |-> 0]
  <2>1. LogSize \in Nat \ {0}
    BY AuditAssumption
  <2>2. 0 % LogSize = 0
    BY <2>1
  <2>3. b \in [0..0 -> Nat] /\ b[0] = 0
    OBVIOUS
  <2>4. DOMAIN buf = 0..(LogSize - 1)
    BY DEF AuditInit
  <2> HIDE DEF b
  <2>5. Placed(b)
    BY <2>1, <2>2, <2>3 DEF AuditInit, Placed
  <2> QED
    BY <2>4, <2>5 DEF AuditInv
<1>2. AuditInv /\ [AuditNext]_auditVars => AuditInv'
  <2> SUFFICES ASSUME AuditInv, [AuditNext]_auditVars PROVE AuditInv'
    OBVIOUS
  <2>1. CASE UNCHANGED auditVars
    BY <2>1 DEF auditVars, AuditInv, Placed
  <2> QED
    BY <2>1, AddStep, DeleteStep DEF AuditNext
<1> QED
  BY <1>1, <1>2, PTL DEF AuditSpec

\* audit_core_retrieve_record() returns whole records, however they wrap around
\* the end of the buffer and whatever was added and deleted since.
THEOREM AuditRetrievedIntact == AuditSpec => []RetrievedIntact
<1>1. AuditInv => RetrievedIntact
  <2> SUFFICES ASSUME AuditInv, NEW i \in 0..(num - 1),
                      NEW k \in DOMAIN Retrieved(i)
               PROVE  /\ Retrieved(i)[k].stamp = Retrieved(i)[0].stamp
                      /\ Retrieved(i)[k].off = k
    BY DEF RetrievedIntact
  <2>1. PICK a : Placed(a)
    BY DEF AuditInv
  <2>2. LogSize \in Nat \ {0} /\ FixedSize \in Nat \ {0} /\ MacSize \in Nat
    BY AuditAssumption
  <2>3. num \in Nat /\ i \in 0..num /\ Holds(buf, a[i], a[i + 1])
    BY <2>1 DEF Placed
  <2>4. PICK x \in Nat : x = a[i]
    BY <2>1, NextIs
  <2>5. PICK e : e = COMPUTE_LOG_ENTRY_SIZE(SizeAt(buf, x % LogSize))
    OBVIOUS
  <2>6. /\ e \in Nat /\ e >= 1 /\ a[i + 1] = x + e
        /\ Nth(buf, first, i) = x % LogSize
    <3>1. SizeAt(buf, x % LogSize) \in Nat /\ a[i + 1] = x + e
      BY <2>1, <2>4, <2>5, NextIs
    <3>2. Nth(buf, first, i) = x % LogSize
      BY <2>1, <2>3, <2>4, Walk
    <3> QED
      BY <2>2, <2>5, <3>1, <3>2 DEF COMPUTE_LOG_ENTRY_SIZE
  <2>7. Retrieved(i) = [j \in 0..(e - 1) |-> buf[((x % LogSize) + j) % LogSize]]
    BY <2>5, <2>6 DEF Retrieved
  <2>8. \A j \in 0..(e - 1) : ((x % LogSize) + j) % LogSize = (x + j) % LogSize
    <3>1. \A j \in 0..(e - 1) : j \in Int
      BY <2>6
    <3>2. x \in Int
      OBVIOUS
    <3> QED
      BY <2>2, <3>1, <3>2, ModAdd, Zenon
  <2>9. \A j \in 0..(e - 1) : Retrieved(i)[j] = buf[(x + j) % LogSize]
    BY <2>7, <2>8, Zenon
  <2>10. k \in 0..(e - 1) /\ 0 \in 0..(e - 1) /\ x + 0 = x
    BY <2>6, <2>7
  <2>11. /\ buf[(x + k) % LogSize].stamp = buf[x % LogSize].stamp
         /\ buf[(x + k) % LogSize].off = k
    <3>1. (x + e) - x - 1 = e - 1
      BY <2>6
    <3> QED
      BY <2>3, <2>4, <2>6, <2>10, <3>1 DEF Holds
  <2>12. Retrieved(i)[0] = buf[x % LogSize]
    BY <2>9, <2>10
  <2>13. Retrieved(i)[k] = buf[(x + k) % LogSize]
    BY <2>9, <2>10
  <2> QED
    BY <2>11, <2>12, <2>13
<1> QED
  BY <1>1, AuditInvariant, PTL

\* The circular buffer implements the log: its records are the ones added, oldest
\* first, a new one displaces the oldest and no more of them than it needs room
\* for, only the oldest is deleted, and stored_size is what the records take.
THEOREM AuditLogRefined == AuditSpec => LogRefined
<1>1. AuditInit => Abstract!LogInit
  <2> SUFFICES ASSUME AuditInit PROVE Records = <<>> /\ stored = 0 /\ stamp = 0
    BY DEF Abstract!LogInit
  <2>1. num = 0 /\ stored = 0 /\ stamp = 0
    BY DEF AuditInit
  <2>2. DOMAIN Records = 1..0
    BY <2>1 DEF Records
  <2> QED
    BY <2>1, <2>2 DEF Records
<1>2. AuditInv /\ AuditInv' /\ [AuditNext]_auditVars
        => [Abstract!LogNext]_(Abstract!logVars)
  <2> SUFFICES ASSUME AuditInv, AuditInv', [AuditNext]_auditVars
               PROVE  Abstract!LogNext \/ UNCHANGED Abstract!logVars
    OBVIOUS
  <2>1. CASE UNCHANGED auditVars
    BY <2>1 DEF auditVars, Abstract!logVars, Records
  <2>2. ASSUME NEW size \in Sizes, AddRecord(size) PROVE Abstract!LogNext
    BY <2>2, AddRefined DEF Abstract!LogNext
  <2>3. CASE DeleteRecord
    BY <2>3, DeleteRefined DEF Abstract!LogNext
  <2> QED
    BY <2>1, <2>2, <2>3 DEF AuditNext
<1> QED
  BY <1>1, <1>2, AuditInvariant, PTL DEF AuditSpec, LogRefined, Abstract!LogSpec
=============================================================================
