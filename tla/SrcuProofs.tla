------------------------------ MODULE SrcuProofs ------------------------------
(***************************************************************************)
(* Machine-checked proofs about Srcu, for every finite set of readers, any *)
(* set of updaters, any number of CPUs, and counters of any width that the *)
(* readers fit in: the counters are exact, a grace period outlasts every   *)
(* section that was there before it, and cleanup frees nothing in use.     *)
(***************************************************************************)
EXTENDS Srcu, FiniteSetTheorems, WellFoundedInduction, TLAPS

\* t[p] is the sum of the counters of bank i in f over the CPUs up to p.
PrefixSums(t, f, i) == /\ t \in [0 .. NCpus -> Int] /\ t[0] = 0
                       /\ \A p \in Cpus : t[p] = t[p - 1] + f[p][i]

Counters == [Cpus -> [0 .. 1 -> 0 .. CountMod - 1]]

\* How often completed was advanced since u read it, modulo FlipMod.
Flips(u) == (completed - uidx[u]) % FlipMod

\* The phases of the holder of the mutex; after the flip it waits for the bank uidx.
Holding == {"sched1", "sched2", "sum", "sched3"}
Flipped == {"sched2", "sum", "sched3"}

-----------------------------------------------------------------------------
(* The parts of the inductive invariant. *)

\* The mutex excludes, and what an updater has between calls and between phases.
HolderInv(u) ==
    /\ mutex = u <=> upc[u] \in Holding
    /\ IF upc[u] = "idle" THEN before[u] = NULL
                          ELSE before[u] \in SUBSET Readers /\ before[u] \subseteq Inside
    /\ upc[u] \in Flipped => uidx[u] = 1 - (completed % 2)
    /\ upc[u] # "sum" => cpu[u] = 1 /\ sum[u] = 0

\* The bank that new readers do not use is empty, except while somebody drains it; and
\* once the second synchronize_sched() is over nobody is about to join it.
StaleInv(r) ==
    rpc[r] \in {"fetched", "in"} /\ ridx[r] # completed % 2 =>
        \E u \in Updaters : \/ upc[u] = "sched2" /\ (rpc[r] = "fetched" => r \in quiet[u])
                            \/ upc[u] = "sum" /\ rpc[r] = "in"

\* The grace period of v began after the call of u: u is v, or u waits for the mutex and
\* completed was advanced since by somebody before v, and by v if it got there.
Covers(v, u) == \/ v = u
                \/ upc[u] = "lock" /\ Flips(u) >= IF upc[v] = "sched1" THEN 1 ELSE 2

\* What is left, in each phase of a grace period, of the sections that it must outlast.
CoverInv(v, u) ==
    upc[v] \in Holding /\ Covers(v, u) => \A r \in before[u] :
        /\ upc[v] = "sched1" => (rpc[r] \in {"early", "fetched"} => r \in quiet[v])
        /\ upc[v] \in {"sched2", "sum"} => rpc[r] = "late" \/ (rpc[r] = "in" /\ ridx[r] = uidx[v])
        /\ upc[v] = "sched3" => rpc[r] = "late" /\ r \in quiet[v]

\* A whole grace period since the call of u has nothing left for u to wait for.
SkipInv(u) ==
    upc[u] = "lock" /\ Flips(u) >= 2 /\ (\A v \in Updaters : upc[v] \notin Flipped)
        => before[u] = {}

\* The counters of a bank count its readers.
BankInv(i) ==
    \E t : PrefixSums(t, c, i) /\ t[NCpus] % CountMod = Cardinality(InBank(i))

\* What was read and what is still to be read, taken together, never counts less than the
\* readers that are left: a reader that leaves in between may be counted all the same.
ScanInv(u) ==
    upc[u] = "sum" => \E t :
        /\ PrefixSums(t, c, uidx[u])
        /\ (sum[u] + (t[NCpus] - t[cpu[u] - 1])) % CountMod >= Cardinality(InBank(uidx[u]))

\* The same of cleanup_srcu_struct(), over both banks.
Unread(s, t, k) == IF k < NCpus THEN (s[NCpus] - s[k]) + t[NCpus] ELSE t[NCpus] - t[k - NCpus]

CleanInv ==
    /\ clean.at # "sum" => clean.cpu = 1 /\ clean.sum = 0
    /\ ~Live => /\ \A u \in Updaters : upc[u] = "idle"
                /\ \A r \in Readers : rpc[r] \notin {"early", "fetched"}
    /\ clean.at = "sum" => \E s, t :
          /\ PrefixSums(s, c, 0) /\ PrefixSums(t, c, 1)
          /\ (clean.sum + Unread(s, t, clean.cpu - 1)) % CountMod
                >= Cardinality(InBank(0)) + Cardinality(InBank(1))
    /\ IF clean.at = "freed" THEN c = NULL /\ \A r \in Readers : rpc[r] # "in"
                             ELSE c \in Counters

IInv == /\ TypeOK /\ CleanInv
        /\ \A u \in Updaters : HolderInv(u) /\ SkipInv(u) /\ ScanInv(u)
        /\ \A u, v \in Updaters : CoverInv(v, u)
        /\ \A r \in Readers : StaleInv(r)
        /\ clean.at # "freed" => \A i \in 0 .. 1 : BankInv(i)

-----------------------------------------------------------------------------
(* Arithmetic of remainders. *)

\* What the remainder is.
LEMMA ModDef ==
    ASSUME NEW x \in Int, NEW m \in Nat \ {0}
    PROVE  x % m \in 0..m-1 /\ x \div m \in Int /\ x = m * (x \div m) + (x % m)
  OBVIOUS

\* The only multiple of m strictly between -m and m is 0.
LEMMA SmallMultiple ==
    ASSUME NEW m \in Nat \ {0}, NEW q \in Int, -m < m * q, m * q < m
    PROVE  q = 0
  <1>1. CASE q >= 1
    <2>1. m * q >= m
      BY <1>1, SMT
    <2> QED
      BY <2>1
  <1>2. CASE q <= -1
    <2>1. m * q <= -m
      BY <1>2, SMT
    <2> QED
      BY <2>1
  <1> QED
    BY <1>1, <1>2

\* A remainder is determined by its range.
LEMMA ModUnique ==
    ASSUME NEW m \in Nat \ {0}, NEW q \in Int, NEW r \in 0..m-1
    PROVE  (m * q + r) % m = r
  <1> DEFINE x == m * q + r
  <1>1. x \in Int
    OBVIOUS
  <1>2. x % m \in 0..m-1 /\ x \div m \in Int /\ x = m * (x \div m) + (x % m)
    BY <1>1, ModDef
  <1> HIDE DEF x
  <1>3. PICK p \in Int, e \in 0..m-1 : x = m * p + e /\ e = x % m
    BY <1>2
  <1>4. m * (p - q) = r - e
    <2>1. m * (p - q) = m * p - m * q
      BY SMT
    <2> QED
      BY <2>1, <1>3 DEF x
  <1>5. p - q = 0
    <2>1. -m < m * (p - q) /\ m * (p - q) < m
      BY <1>4
    <2> QED
      BY <2>1, SmallMultiple
  <1>6. p = q
    BY <1>5
  <1>7. r = e
    BY <1>3, <1>6 DEF x
  <1> QED
    BY <1>3, <1>7 DEF x

\* A number that is at most once out of range.
LEMMA ModWrap ==
    ASSUME NEW m \in Nat \ {0}, NEW x \in Int
    PROVE  /\ 0 <= x /\ x < m => x % m = x
           /\ m <= x /\ x < 2 * m => x % m = x - m
           /\ -m <= x /\ x < 0 => x % m = x + m
  <1>1. ASSUME 0 <= x, x < m PROVE x % m = x
    <2>1. (m * 0 + x) % m = x
      BY <1>1, ModUnique
    <2> QED
      BY <2>1
  <1>2. ASSUME m <= x, x < 2 * m PROVE x % m = x - m
    <2>1. (m * 1 + (x - m)) % m = x - m
      BY <1>2, ModUnique
    <2> QED
      BY <2>1
  <1>3. ASSUME -m <= x, x < 0 PROVE x % m = x + m
    <2>1. (m * (-1) + (x + m)) % m = x + m
      BY <1>3, ModUnique
    <2> QED
      BY <2>1
  <1> QED
    BY <1>1, <1>2, <1>3

\* A summand may be reduced first.
LEMMA ModAdd ==
    ASSUME NEW m \in Nat \ {0}, NEW x \in Int, NEW y \in Int
    PROVE  ((x % m) + y) % m = (x + y) % m
  <1>1. PICK p \in Int, e \in 0..m-1 : x = m * p + e /\ e = x % m
    BY ModDef
  <1>2. PICK q \in Int, r \in 0..m-1 : e + y = m * q + r /\ r = (e + y) % m
    <2>1. e + y \in Int
      OBVIOUS
    <2> QED
      BY <2>1, ModDef
  <1>3. x + y = m * (p + q) + r
    <2>1. m * (p + q) = m * p + m * q
      BY SMT
    <2> QED
      BY <2>1, <1>1, <1>2
  <1>4. (m * (p + q) + r) % m = r
    BY ModUnique
  <1> QED
    BY <1>1, <1>2, <1>3, <1>4

\* Two rows of m places, one after the other.
LEMMA DivTwice ==
    ASSUME NEW m \in Nat \ {0}, NEW k \in 0 .. 2 * m - 1
    PROVE  /\ k < m => k % m = k /\ k \div m = 0
           /\ ~(k < m) => k % m = k - m /\ k \div m = 1
  <1>1. k \in Int /\ m \in Int
    OBVIOUS
  <1>2. k \div m \in Int /\ k = m * (k \div m) + (k % m)
    BY <1>1, ModDef
  <1>3. ASSUME k < m PROVE k % m = k /\ k \div m = 0
    <2>1. k % m = k
      BY <1>1, <1>3, ModWrap
    <2>2. m * (k \div m) = 0 /\ -m < 0 /\ 0 < m
      BY <1>2, <2>1
    <2> QED
      BY <1>2, <2>1, <2>2, SmallMultiple
  <1>4. ASSUME ~(k < m) PROVE k % m = k - m /\ k \div m = 1
    <2>1. k % m = k - m
      <3>1. m <= k /\ k < 2 * m
        BY <1>4
      <3> QED
        BY <1>1, <3>1, ModWrap
    <2> DEFINE d == k \div m
    <2>2. m * d = m /\ d \in Int /\ d - 1 \in Int
      BY <1>2, <2>1
    <2> HIDE DEF d
    <2>3. m * (d - 1) = m * d - m
      BY <2>2, SMT
    <2>4. m * (d - 1) = 0 /\ -m < 0 /\ 0 < m
      BY <2>2, <2>3
    <2>5. d - 1 = 0
      BY <2>2, <2>4, SmallMultiple
    <2> QED
      BY <2>1, <2>2, <2>5 DEF d
  <1> QED
    BY <1>3, <1>4

\* One up or one down.
LEMMA ModStep ==
    ASSUME NEW m \in Nat \ {0}, NEW x \in Int
    PROVE  /\ x % m \in 0..m-1
           /\ (x + 1) % m = IF x % m = m - 1 THEN 0 ELSE (x % m) + 1
           /\ (x - 1) % m = IF x % m = 0 THEN m - 1 ELSE (x % m) - 1
  <1> DEFINE e == x % m
  <1>1. e \in 0..m-1
    BY ModDef
  <1>2. \A y \in Int : (x + y) % m = (e + y) % m
    BY ModAdd
  <1>a. x - 1 = x + (-1)
    OBVIOUS
  <1> HIDE DEF e
  <1>3. (e + 1) % m = IF e = m - 1 THEN 0 ELSE e + 1
    <2>1. e + 1 \in Int /\ 0 <= e + 1 /\ e + 1 < 2 * m
      BY <1>1
    <2>2. (e + 1 < m => (e + 1) % m = e + 1) /\ (m <= e + 1 => (e + 1) % m = (e + 1) - m)
      BY <2>1, ModWrap
    <2> QED
      BY <2>2, <1>1
  <1>4. (e + (-1)) % m = IF e = 0 THEN m - 1 ELSE e - 1
    <2>1. e + (-1) \in Int /\ -m <= e + (-1) /\ e + (-1) < m
      BY <1>1
    <2>2. /\ 0 <= e + (-1) => (e + (-1)) % m = e + (-1)
          /\ e + (-1) < 0 => (e + (-1)) % m = (e + (-1)) + m
      BY <2>1, ModWrap
    <2> QED
      BY <2>2, <1>1
  <1>5. (x + 1) % m = (e + 1) % m /\ (x + (-1)) % m = (e + (-1)) % m
    BY <1>2
  <1> QED
    BY <1>1, <1>a, <1>3, <1>4, <1>5 DEF e

-----------------------------------------------------------------------------
(* Sums over the CPUs. *)

\* A set of natural numbers has a smallest element: induction, without an operator.
LEMMA SmallestNat ==
    ASSUME NEW S \in SUBSET Nat, S # {}
    PROVE  \E n \in S : \A m \in S : n <= m
  <1> DEFINE R == OpToRel(<, Nat)
  <1>1. IsWellFoundedOn(R, Nat)
    BY NatLessThanWellFounded
  <1>2. \A x, y \in Nat : y < x => <<y, x>> \in R
    BY DEF OpToRel
  <1> HIDE DEF R
  <1>3. PICK n \in S : \A m \in S : ~ (<<m, n>> \in R)
    BY <1>1, WFMin
  <1>4. ASSUME NEW m \in S PROVE n <= m
    <2>1. m \in Nat /\ n \in Nat
      OBVIOUS
    <2>2. ~(m < n)
      BY <2>1, <1>2, <1>3
    <2> QED
      BY <2>1, <2>2
  <1> QED
    BY <1>4

\* What the constants are.
LEMMA ConstantFacts ==
    /\ NCpus \in Nat \ {0} /\ CountMod \in Nat \ {0} /\ Cardinality(Readers) \in Nat
    /\ IsFiniteSet(Readers) /\ Cardinality(Readers) < CountMod
    /\ NULL \notin Updaters /\ \A S \in SUBSET Readers : S # NULL
    /\ FlipMod \in Nat /\ FlipMod % 2 = 0 /\ MaxCalls \in Nat
    /\ \A x \in Starts : x \in 0 .. FlipMod - 1
  <1>1. Cardinality(Readers) \in Nat
    BY SrcuAssumption, FS_CardinalityType
  <1> QED
    BY <1>1, SrcuAssumption

\* A counter and a sum are taken modulo CountMod.
LEMMA CounterRange ==
    ASSUME NEW x \in Int
    PROVE  x % CountMod \in 0 .. CountMod - 1
  <1>1. CountMod \in Nat \ {0}
    BY ConstantFacts
  <1> QED
    BY <1>1, ModDef

\* The recursive sum is the last of any prefix sums.
LEMMA TotalIsLast ==
    ASSUME NEW i, NEW t, PrefixSums(t, c, i)
    PROVE  Total(i) = t[NCpus]
  <1> DEFINE IsSum(s) == s = [p \in 0 .. NCpus |-> IF p = 0 THEN 0 ELSE s[p - 1] + c[p][i]]
  <1>0. NCpus \in Nat \ {0}
    BY ConstantFacts
  <1>1. IsSum(t)
    <2>1. ASSUME NEW p \in 0 .. NCpus
          PROVE  t[p] = IF p = 0 THEN 0 ELSE t[p - 1] + c[p][i]
      BY <1>0 DEF PrefixSums, Cpus
    <2>2. t = [p \in 0 .. NCpus |-> t[p]]
      BY DEF PrefixSums
    <2> QED
      BY <2>1, <2>2
  <1>2. PICK s : IsSum(s) /\ Total(i) = s[NCpus]
    BY <1>1 DEF Total
  <1> DEFINE D == {p \in 0 .. NCpus : s[p] # t[p]}
  <1>3. D = {}
    <2> SUFFICES ASSUME D # {} PROVE FALSE
      OBVIOUS
    <2>0. D \in SUBSET Nat
      BY <1>0
    <2>1. PICK n \in D : \A m \in D : n <= m
      BY <2>0, SmallestNat
    <2>2. n \in 0 .. NCpus /\ s[n] # t[n]
      OBVIOUS
    <2>3. n # 0
      BY <1>1, <1>2, <2>2
    <2>4. n - 1 \in 0 .. NCpus /\ n - 1 \notin D
      BY <2>1, <2>2, <2>3, <1>0
    <2>5. s[n - 1] = t[n - 1]
      BY <2>4
    <2>6. s[n] = s[n - 1] + c[n][i] /\ t[n] = t[n - 1] + c[n][i]
      BY <1>1, <1>2, <2>2, <2>3
    <2> QED
      BY <2>2, <2>5, <2>6
  <1>4. NCpus \in 0 .. NCpus /\ NCpus \notin D
    BY <1>0, <1>3
  <1> QED
    BY <1>2, <1>4

\* A counter that changes shifts the sums from its CPU on, and those of the other bank
\* not at all.
LEMMA BankChange ==
    ASSUME NEW f \in Counters, NEW p \in Cpus, NEW i \in 0 .. 1, NEW x \in 0 .. CountMod - 1,
           NEW j \in 0 .. 1, NEW t, PrefixSums(t, f, j)
    PROVE  /\ [f EXCEPT ![p][i] = x] \in Counters
           /\ j # i => PrefixSums(t, [f EXCEPT ![p][i] = x], j)
           /\ j = i => PrefixSums([q \in 0 .. NCpus |-> IF q < p THEN t[q] ELSE t[q] + (x - f[p][i])],
                                  [f EXCEPT ![p][i] = x], j)
  <1> DEFINE g == [f EXCEPT ![p][i] = x]
             d == x - f[p][i]
             s == [q \in 0 .. NCpus |-> IF q < p THEN t[q] ELSE t[q] + d]
  <1>0. NCpus \in Nat \ {0} /\ CountMod \in Nat \ {0}
    BY ConstantFacts
  <1>1. g \in Counters
    BY DEF Counters
  <1>2. /\ \A q \in Cpus : g[q][j] = IF q = p /\ j = i THEN x ELSE f[q][j]
        /\ \A q \in Cpus : f[q][j] \in Int
    BY <1>0 DEF Counters
  <1>3. d \in Int
    BY <1>0 DEF Counters
  <1>4. /\ t \in [0 .. NCpus -> Int] /\ t[0] = 0
        /\ \A q \in Cpus : t[q] = t[q - 1] + f[q][j]
    BY DEF PrefixSums
  <1>5. ASSUME j # i PROVE PrefixSums(t, g, j)
    <2> HIDE DEF g
    <2> QED
      BY <1>2, <1>4, <1>5 DEF PrefixSums
  <1>6. ASSUME j = i PROVE PrefixSums(s, g, j)
    <2>a. f[p][j] + d = x
      BY <1>2, <1>6, <1>0
    <2> HIDE DEF g, d
    <2>1. s \in [0 .. NCpus -> Int]
      BY <1>3, <1>4
    <2>2. s[0] = 0
      BY <1>0, <1>4 DEF Cpus
    <2>3. ASSUME NEW q \in Cpus PROVE s[q] = s[q - 1] + g[q][j]
      <3>1. q \in 0 .. NCpus /\ q - 1 \in 0 .. NCpus
        BY <1>0 DEF Cpus
      <3>2. t[q] = t[q - 1] + f[q][j] /\ t[q] \in Int /\ t[q - 1] \in Int /\ f[q][j] \in Int
        BY <3>1, <1>2, <1>4
      <3>3. CASE q < p
        BY <3>1, <3>2, <3>3, <1>2 DEF Cpus
      <3>4. CASE q = p
        BY <3>1, <3>2, <1>2, <1>3, <1>6, <2>a
      <3>5. CASE q > p
        BY <3>1, <3>2, <3>5, <1>2, <1>3 DEF Cpus
      <3> QED
        BY <3>3, <3>4, <3>5 DEF Cpus
    <2> HIDE DEF s
    <2> QED
      BY <2>1, <2>2, <2>3 DEF PrefixSums
  <1> QED
    BY <1>1, <1>5, <1>6

-----------------------------------------------------------------------------
(* Facts that several steps use. *)

\* An index is 0 or 1, and a flip takes one into the other, also when completed wraps.
LEMMA FlipFacts ==
    ASSUME TypeOK
    PROVE  /\ completed % 2 \in 0 .. 1 /\ FlipMod \in Nat \ {0}
           /\ (completed + 1) % FlipMod \in 0 .. FlipMod - 1
           /\ ((completed + 1) % FlipMod) % 2 = 1 - (completed % 2)
  <1>1. FlipMod \in Nat \ {0} /\ FlipMod % 2 = 0 /\ completed \in 0 .. FlipMod - 1
    BY ConstantFacts DEF TypeOK
  <1>2. (completed + 1) % FlipMod = IF completed = FlipMod - 1 THEN 0 ELSE completed + 1
    <2>1. completed % FlipMod = completed
      BY <1>1, ModWrap
    <2>2. (completed + 1) % FlipMod = IF completed % FlipMod = FlipMod - 1 THEN 0
                                      ELSE (completed % FlipMod) + 1
      <3>1. FlipMod \in Nat \ {0} /\ completed \in Int
        BY <1>1
      <3> QED
        BY <3>1, ModStep
    <2> QED
      BY <2>1, <2>2
  <1>3. completed % 2 \in 0 .. 1
    BY <1>1
  <1>4. completed = FlipMod - 1 => completed % 2 = 1
    BY <1>1
  <1>5. (completed + 1) % 2 = 1 - (completed % 2)
    BY <1>1
  <1> QED
    BY <1>1, <1>2, <1>3, <1>4, <1>5

\* A flip is one more, or all of them together look like none.
LEMMA FlipsStep ==
    ASSUME TypeOK, NEW w \in Updaters, completed' = (completed + 1) % FlipMod,
           uidx'[w] = uidx[w]
    PROVE  Flips(w) \in Nat /\ (Flips(w)' = Flips(w) + 1 \/ Flips(w)' = 0)
  <1> DEFINE y == -uidx[w]
  <1>1. FlipMod \in Nat \ {0} /\ completed + 1 \in Int /\ completed \in Int /\ y \in Int
    BY FlipFacts DEF TypeOK
  <1>2. Flips(w) = (completed + y) % FlipMod /\ Flips(w)' = (((completed + 1) % FlipMod) + y) % FlipMod
    <2>1. uidx[w] \in Int /\ completed' \in Int
      BY <1>1, FlipFacts DEF TypeOK
    <2>2. completed - uidx[w] = completed + y /\ completed' - uidx[w] = completed' + y
      BY <2>1, <1>1
    <2> QED
      BY <2>2 DEF Flips
  <1> HIDE DEF y
  <1>3. (((completed + 1) % FlipMod) + y) % FlipMod = ((completed + 1) + y) % FlipMod
    BY <1>1, ModAdd
  <1>4. (completed + 1) + y = (completed + y) + 1 /\ completed + y \in Int
    BY <1>1
  <1>5. /\ (completed + y) % FlipMod \in 0 .. FlipMod - 1
        /\ \/ ((completed + y) + 1) % FlipMod = ((completed + y) % FlipMod) + 1
           \/ ((completed + y) + 1) % FlipMod = 0
    BY <1>1, <1>4, ModStep
  <1> QED
    BY <1>1, <1>2, <1>3, <1>4, <1>5

\* The bank that is summed up is one of the two, and the counters are there.
LEMMA SummedBank ==
    ASSUME IInv, NEW w \in Updaters, upc[w] = "sum"
    PROVE  uidx[w] \in 0 .. 1 /\ c \in Counters /\ Live
           /\ uidx[w] = 1 - (completed % 2)
  <1>1. completed % 2 \in 0 .. 1
    BY FlipFacts DEF IInv
  <1> QED
    BY <1>1 DEF IInv, HolderInv, Flipped, CleanInv, Live

\* Who sums up is the only one that has flipped.
LEMMA OneHolder ==
    ASSUME IInv, NEW v \in Updaters, NEW w \in Updaters, upc[v] \in Holding, upc[w] \in Holding
    PROVE  v = w
  BY DEF IInv, HolderInv

\* A step that neither counts nor sums up leaves the invariant of a sum alone.
LEMMA ScanFrame ==
    ASSUME IInv, NEW w \in Updaters, \A i \in 0 .. 1 : InBank(i)' = InBank(i),
           upc'[w] = "sum" => /\ upc[w] = "sum" /\ c' = c /\ cpu'[w] = cpu[w]
                              /\ sum'[w] = sum[w] /\ uidx'[w] = uidx[w]
    PROVE  ScanInv(w)'
  <1> SUFFICES ASSUME upc'[w] = "sum" PROVE ScanInv(w)'
    BY DEF ScanInv
  <1>1. uidx[w] \in 0 .. 1 /\ uidx'[w] = uidx[w]
    BY SummedBank
  <1>2. InBank(uidx[w])' = InBank(uidx[w])
    BY <1>1 DEF InBank
  <1>3. ScanInv(w)
    BY DEF IInv
  <1> QED
    BY <1>2, <1>3 DEF ScanInv

\* The banks are finite, and so small that their counts do not wrap.
LEMMA BankSizes ==
    /\ \A i \in 0 .. 1 : IsFiniteSet(InBank(i)) /\ Cardinality(InBank(i)) \in Nat
    /\ Cardinality(InBank(0)) + Cardinality(InBank(1)) < CountMod
  <1>1. \A i \in 0 .. 1 : IsFiniteSet(InBank(i)) /\ Cardinality(InBank(i)) \in Nat
    <2> SUFFICES ASSUME NEW i \in 0 .. 1
                 PROVE  IsFiniteSet(InBank(i)) /\ Cardinality(InBank(i)) \in Nat
      OBVIOUS
    <2>1. InBank(i) \in SUBSET Readers
      BY DEF InBank
    <2> QED
      BY <2>1, ConstantFacts, FS_Subset, FS_CardinalityType
  <1>2. InBank(0) \cap InBank(1) = {} /\ InBank(0) \cup InBank(1) \in SUBSET Readers
    BY DEF InBank
  <1>3. Cardinality(InBank(0) \cup InBank(1)) = Cardinality(InBank(0)) + Cardinality(InBank(1))
    <2>1. IsFiniteSet(InBank(0)) /\ IsFiniteSet(InBank(1))
      BY <1>1
    <2>2. Cardinality(InBank(0) \cup InBank(1))
            = Cardinality(InBank(0)) + Cardinality(InBank(1)) - Cardinality(InBank(0) \cap InBank(1))
      BY <2>1, FS_Union
    <2>3. Cardinality(InBank(0) \cap InBank(1)) = 0
      BY <1>2, FS_EmptySet
    <2> QED
      BY <2>2, <2>3, <1>1
  <1>4. Cardinality(InBank(0) \cup InBank(1)) <= Cardinality(Readers)
    BY <1>2, ConstantFacts, FS_Subset
  <1> QED
    BY <1>1, <1>3, <1>4, ConstantFacts

\* A counter that wraps changes a sum as one that does not, up to the modulus.
LEMMA CountShift ==
    ASSUME NEW m \in Nat \ {0}, NEW a \in Int, NEW y \in Int, NEW e \in Int
    PROVE  (y + (((a + e) % m) - a)) % m = (y + e) % m
  <1>1. (a + e) % m \in Int /\ a + e \in Int /\ y - a \in Int
    BY ModDef
  <1>2. (((a + e) % m) + (y - a)) % m = ((a + e) + (y - a)) % m
    BY <1>1, ModAdd
  <1>3. y + (((a + e) % m) - a) = ((a + e) % m) + (y - a) /\ (a + e) + (y - a) = y + e
    BY <1>1
  <1> QED
    BY <1>2, <1>3

\* The counter of bank i on CPU p has changed by e.
Counted(f, g, p, i, e) == g = [f EXCEPT ![p][i] = (f[p][i] + e) % CountMod]

\* The counters stay in range, and the other bank has the same sums.
LEMMA OtherBank ==
    ASSUME NEW f \in Counters, NEW p \in Cpus, NEW i \in 0 .. 1, NEW e \in Int,
           NEW g, Counted(f, g, p, i, e)
    PROVE  /\ g \in Counters
           /\ \A j \in 0 .. 1 : \A t : j # i /\ PrefixSums(t, f, j) => PrefixSums(t, g, j)
  <1>1. (f[p][i] + e) % CountMod \in 0 .. CountMod - 1
    <2>1. f[p][i] + e \in Int /\ CountMod \in Nat \ {0}
      BY ConstantFacts DEF Counters
    <2> QED
      BY <2>1, ModDef
  <1> DEFINE x == (f[p][i] + e) % CountMod
  <1>2. g = [f EXCEPT ![p][i] = x]
    BY DEF Counted
  <1> HIDE DEF x
  <1>3. x \in 0 .. CountMod - 1
    BY <1>1 DEF x
  <1>4. g \in Counters
    BY <1>2, <1>3 DEF Counters
  <1> QED
    BY <1>2, <1>3, <1>4, BankChange

\* The prefix sums after a reader was counted in (e = 1) or out (e = -1) on CPU p.
LEMMA CountStep ==
    ASSUME NEW f \in Counters, NEW p \in Cpus, NEW i \in 0 .. 1, NEW e \in Int,
           NEW g, Counted(f, g, p, i, e), NEW t, PrefixSums(t, f, i)
    PROVE  \E s : /\ PrefixSums(s, g, i)
                  /\ \A y \in Int : (y + s[NCpus]) % CountMod = (y + t[NCpus] + e) % CountMod
                  /\ \A k \in 0 .. NCpus : IF k < p THEN s[k] = t[k]
                                                    ELSE s[NCpus] - s[k] = t[NCpus] - t[k]
  <1> DEFINE a == f[p][i]
             x == (a + e) % CountMod
             s == [q \in 0 .. NCpus |-> IF q < p THEN t[q] ELSE t[q] + (x - a)]
  <1>0. /\ NCpus \in Nat \ {0} /\ CountMod \in Nat \ {0}
        /\ a \in Int /\ e \in Int /\ p \in 1 .. NCpus
    BY ConstantFacts DEF Counters, Cpus
  <1>1. x \in 0 .. CountMod - 1
    <2>1. a + e \in Int
      BY <1>0
    <2> QED
      BY <2>1, <1>0, ModDef
  <1>2. PrefixSums(s, g, i)
    <2>1. g = [f EXCEPT ![p][i] = x]
      BY DEF Counted
    <2> HIDE DEF x
    <2> QED
      BY <1>1, <2>1, BankChange
  <1>3. t \in [0 .. NCpus -> Int]
    BY DEF PrefixSums
  <1>4. ASSUME NEW y \in Int
        PROVE  (y + s[NCpus]) % CountMod = (y + t[NCpus] + e) % CountMod
    <2>1. ((y + t[NCpus]) + (x - a)) % CountMod = ((y + t[NCpus]) + e) % CountMod
      <3>1. y + t[NCpus] \in Int
        BY <1>0, <1>3
      <3> HIDE DEF a
      <3> QED
        BY <3>1, <1>0, CountShift
    <2>2. s[NCpus] = t[NCpus] + (x - a) /\ t[NCpus] \in Int
      BY <1>0, <1>3
    <2>3. y + s[NCpus] = (y + t[NCpus]) + (x - a)
      <3> HIDE DEF x, a, s
      <3> QED
        BY <2>2, <1>0, <1>1
    <2> QED
      BY <2>1, <2>3
  <1>5. ASSUME NEW k \in 0 .. NCpus
        PROVE  IF k < p THEN s[k] = t[k] ELSE s[NCpus] - s[k] = t[NCpus] - t[k]
    <2>1. t[k] \in Int /\ t[NCpus] \in Int /\ x - a \in Int
      BY <1>0, <1>1, <1>3
    <2> HIDE DEF x, a
    <2> QED
      BY <2>1, <1>0
  <1> HIDE DEF s, x
  <1> QED
    BY <1>2, <1>4, <1>5

\* One less stays above one less.
LEMMA OneDown ==
    ASSUME NEW x \in Int, NEW n \in Nat \ {0}, x % CountMod >= n
    PROVE  (x - 1) % CountMod >= n - 1
  <1>1. CountMod \in Nat \ {0}
    BY ConstantFacts
  <1>2. /\ x % CountMod \in 0 .. CountMod - 1
        /\ (x - 1) % CountMod = IF x % CountMod = 0 THEN CountMod - 1 ELSE (x % CountMod) - 1
    BY <1>1, ModStep
  <1> QED
    BY <1>1, <1>2

\* A reader is counted out of a bank on CPU p while the CPUs from k on are still to be read.
LEMMA TailStep ==
    ASSUME NEW f \in Counters, NEW p \in Cpus, NEW i \in 0 .. 1,
           NEW g, Counted(f, g, p, i, -1), NEW t, PrefixSums(t, f, i),
           NEW k \in 0 .. NCpus, NEW x \in Int, NEW n \in Nat \ {0},
           (x + (t[NCpus] - t[k])) % CountMod >= n
    PROVE  \E s : /\ PrefixSums(s, g, i)
                  /\ (x + (s[NCpus] - s[k])) % CountMod >= n - 1
  <1>0. CountMod \in Nat \ {0} /\ NCpus \in Nat \ {0} /\ NCpus \in 0 .. NCpus
    BY ConstantFacts
  <1>1. PICK s : /\ PrefixSums(s, g, i)
                 /\ \A y \in Int : (y + s[NCpus]) % CountMod = (y + t[NCpus] + (-1)) % CountMod
                 /\ \A q \in 0 .. NCpus : IF q < p THEN s[q] = t[q]
                                                   ELSE s[NCpus] - s[q] = t[NCpus] - t[q]
    <2>1. -1 \in Int
      OBVIOUS
    <2> QED
      BY <2>1, CountStep
  <1>2. s[NCpus] \in Int /\ s[k] \in Int /\ t[NCpus] \in Int /\ t[k] \in Int
    BY <1>0, <1>1 DEF PrefixSums
  <1>3. CASE k < p
    <2>1. s[k] = t[k] /\ x - t[k] \in Int
      BY <1>1, <1>2, <1>3
    <2>2. ((x - t[k]) + s[NCpus]) % CountMod = ((x - t[k]) + t[NCpus] + (-1)) % CountMod
      BY <1>1, <2>1
    <2>3. /\ (x - t[k]) + s[NCpus] = x + (s[NCpus] - s[k])
          /\ (x - t[k]) + t[NCpus] + (-1) = (x + (t[NCpus] - t[k])) - 1
          /\ x + (t[NCpus] - t[k]) \in Int
      BY <1>2, <2>1
    <2>4. ((x + (t[NCpus] - t[k])) - 1) % CountMod >= n - 1
      BY <2>3, OneDown
    <2> QED
      BY <1>1, <2>2, <2>3, <2>4
  <1>4. CASE ~(k < p)
    <2>1. s[NCpus] - s[k] = t[NCpus] - t[k]
      BY <1>1, <1>4
    <2>2. (x + (t[NCpus] - t[k])) % CountMod \in Int /\ x + (t[NCpus] - t[k]) \in Int
      <3>1. x + (t[NCpus] - t[k]) \in Int
        BY <1>2
      <3> QED
        BY <3>1, <1>0, ModDef
    <2>3. (x + (t[NCpus] - t[k])) % CountMod >= n - 1
      BY <2>2
    <2> QED
      BY <1>1, <2>1, <2>3
  <1> QED
    BY <1>3, <1>4

\* The same while cleanup_srcu_struct() still has to read from the place k on.
LEMMA UnreadStep ==
    ASSUME NEW f \in Counters, NEW p \in Cpus, NEW i \in 0 .. 1,
           NEW g, Counted(f, g, p, i, -1),
           NEW s, PrefixSums(s, f, 0), NEW t, PrefixSums(t, f, 1),
           NEW k \in 0 .. 2 * NCpus, NEW x \in Int, NEW n \in Nat \ {0},
           (x + Unread(s, t, k)) % CountMod >= n
    PROVE  \E a, b : /\ PrefixSums(a, g, 0) /\ PrefixSums(b, g, 1)
                     /\ (x + Unread(a, b, k)) % CountMod >= n - 1
  <1>0. /\ CountMod \in Nat \ {0} /\ NCpus \in Nat \ {0} /\ NCpus \in 0 .. NCpus
        /\ 0 \in 0 .. NCpus /\ 0 \in 0 .. 1 /\ 1 \in 0 .. 1
    BY ConstantFacts
  <1>1. s[NCpus] \in Int /\ t[NCpus] \in Int /\ t[0] = 0
    BY <1>0 DEF PrefixSums
  <1>3. (i # 0 => PrefixSums(s, g, 0)) /\ (i # 1 => PrefixSums(t, g, 1))
    <2>1. -1 \in Int
      OBVIOUS
    <2> QED
      BY <2>1, <1>0, OtherBank
  <1>4. CASE k < NCpus
    <2>1. k \in 0 .. NCpus /\ s[k] \in Int
      BY <1>0, <1>4 DEF PrefixSums
    <2>2. Unread(s, t, k) = (s[NCpus] - s[k]) + t[NCpus]
      BY <1>4 DEF Unread
    <2>3. CASE i = 0
      <3>1. /\ x + ((s[NCpus] - s[k]) + t[NCpus]) = (x + t[NCpus]) + (s[NCpus] - s[k])
            /\ x + t[NCpus] \in Int
        BY <1>1, <2>1
      <3>2. ((x + t[NCpus]) + (s[NCpus] - s[k])) % CountMod >= n
        BY <2>2, <3>1
      <3>3. PICK a : /\ PrefixSums(a, g, 0)
                     /\ ((x + t[NCpus]) + (a[NCpus] - a[k])) % CountMod >= n - 1
        BY <2>1, <2>3, <3>1, <3>2, TailStep
      <3>4. a[NCpus] \in Int /\ a[k] \in Int
        BY <1>0, <2>1, <3>3 DEF PrefixSums
      <3>5. (x + t[NCpus]) + (a[NCpus] - a[k]) = x + ((a[NCpus] - a[k]) + t[NCpus])
        BY <1>1, <3>4
      <3>6. Unread(a, t, k) = (a[NCpus] - a[k]) + t[NCpus]
        BY <1>4 DEF Unread
      <3> QED
        BY <1>3, <2>3, <3>3, <3>5, <3>6
    <2>4. CASE i = 1
      <3>1. /\ x + ((s[NCpus] - s[k]) + t[NCpus]) = (x + (s[NCpus] - s[k])) + (t[NCpus] - t[0])
            /\ x + (s[NCpus] - s[k]) \in Int
        BY <1>1, <2>1
      <3>2. ((x + (s[NCpus] - s[k])) + (t[NCpus] - t[0])) % CountMod >= n
        BY <2>2, <3>1
      <3>3. PICK b : /\ PrefixSums(b, g, 1)
                     /\ ((x + (s[NCpus] - s[k])) + (b[NCpus] - b[0])) % CountMod >= n - 1
        BY <1>0, <2>4, <3>1, <3>2, TailStep
      <3>4. b[NCpus] \in Int /\ b[0] = 0
        BY <1>0, <3>3 DEF PrefixSums
      <3>5. (x + (s[NCpus] - s[k])) + (b[NCpus] - b[0]) = x + ((s[NCpus] - s[k]) + b[NCpus])
        BY <1>1, <2>1, <3>4
      <3>6. Unread(s, b, k) = (s[NCpus] - s[k]) + b[NCpus]
        BY <1>4 DEF Unread
      <3> QED
        BY <1>3, <2>4, <3>3, <3>5, <3>6
    <2> QED
      BY <1>0, <2>3, <2>4
  <1>5. CASE ~(k < NCpus)
    <2>1. k - NCpus \in 0 .. NCpus
      BY <1>0, <1>5
    <2>2. \A a, b : Unread(a, b, k) = b[NCpus] - b[k - NCpus]
      BY <1>5 DEF Unread
    <2>3. CASE i = 0
      <3>1. PICK a : PrefixSums(a, g, 0)
        <4>1. -1 \in Int
          OBVIOUS
        <4> QED
          BY <2>3, <4>1, CountStep
      <3>2. (x + Unread(a, t, k)) % CountMod >= n
        BY <2>2
      <3>3. (x + Unread(a, t, k)) % CountMod \in Int
        <4>1. t[k - NCpus] \in Int
          BY <2>1 DEF PrefixSums
        <4>2. x + (t[NCpus] - t[k - NCpus]) \in Int
          BY <4>1, <1>1
        <4>3. x + Unread(a, t, k) \in Int
          BY <2>2, <4>2
        <4> DEFINE y == x + Unread(a, t, k)
        <4>4. y \in Int
          BY <4>3
        <4> HIDE DEF y
        <4>5. y % CountMod \in Int
          BY <1>0, <4>4
        <4> QED
          BY <4>5 DEF y
      <3>4. (x + Unread(a, t, k)) % CountMod >= n - 1
        BY <3>2, <3>3
      <3> QED
        BY <1>3, <2>3, <3>1, <3>4
    <2>4. CASE i = 1
      <3>1. (x + (t[NCpus] - t[k - NCpus])) % CountMod >= n
        BY <2>2
      <3>2. PICK b : /\ PrefixSums(b, g, 1)
                     /\ (x + (b[NCpus] - b[k - NCpus])) % CountMod >= n - 1
        BY <2>1, <2>4, <3>1, TailStep
      <3> QED
        BY <1>3, <2>2, <2>4, <3>2
    <2> QED
      BY <1>0, <2>3, <2>4
  <1> QED
    BY <1>4, <1>5

-----------------------------------------------------------------------------
(* Every step of a reader preserves the invariant. *)

\* An access is made ahead of its section: nobody waits for it yet.
LEMMA ReadEarlyKeeps ==
    ASSUME IInv, NEW r \in Readers, ReadEarly(r)
    PROVE  IInv'
  <1> USE ConstantFacts DEF ReadEarly, Live
  <1>0. TypeOK /\ (Live => c \in Counters)
    BY DEF IInv, CleanInv, Live
  <1>1. TypeOK'
    BY <1>0 DEF TypeOK, Counters, InFlight, Inside
  <1>2. ASSUME NEW w \in Updaters PROVE HolderInv(w)'
    BY DEF IInv, HolderInv, Inside
  <1>3. ASSUME NEW w \in Updaters PROVE SkipInv(w)'
    BY DEF IInv, SkipInv, Flips
  <1>4. ASSUME NEW v \in Updaters, NEW w \in Updaters PROVE CoverInv(v, w)'
    BY DEF IInv, CoverInv, Covers, Flips, HolderInv, Inside
  <1>5. ASSUME NEW q \in Readers PROVE StaleInv(q)'
    BY <1>0 DEF IInv, TypeOK, StaleInv, HolderInv, Holding
  <1>6. ASSUME NEW i \in 0 .. 1 PROVE InBank(i)' = InBank(i)
    BY <1>0 DEF TypeOK, InBank
  <1>7. ASSUME clean'.at # "freed", NEW i \in 0 .. 1 PROVE BankInv(i)'
    BY <1>0, <1>6, <1>7 DEF IInv, BankInv
  <1>8. ASSUME NEW w \in Updaters PROVE ScanInv(w)'
    BY <1>0, <1>6, ScanFrame DEF TypeOK
  <1>9. CleanInv'
    BY <1>0, <1>6 DEF IInv, CleanInv, Live
  <1> QED
    BY <1>1, <1>2, <1>3, <1>4, <1>5, <1>7, <1>8, <1>9 DEF IInv

\* A reader reads the index that is in use.
LEMMA FetchIdxKeeps ==
    ASSUME IInv, NEW r \in Readers, FetchIdx(r)
    PROVE  IInv'
  <1> USE ConstantFacts DEF FetchIdx
  <1>0. TypeOK /\ (Live => c \in Counters)
    BY DEF IInv, CleanInv, Live
  <1>1. TypeOK'
    BY <1>0 DEF TypeOK, Counters, InFlight, Inside
  <1>2. ASSUME NEW w \in Updaters PROVE HolderInv(w)'
    BY DEF IInv, HolderInv, Inside
  <1>3. ASSUME NEW w \in Updaters PROVE SkipInv(w)'
    BY DEF IInv, SkipInv, Flips
  <1>4. ASSUME NEW v \in Updaters, NEW w \in Updaters PROVE CoverInv(v, w)'
    BY DEF IInv, CoverInv, Covers, Flips
  <1>5. ASSUME NEW q \in Readers PROVE StaleInv(q)'
    BY <1>0 DEF IInv, TypeOK, StaleInv, HolderInv, Holding
  <1>6. ASSUME NEW i \in 0 .. 1 PROVE InBank(i)' = InBank(i)
    BY <1>0 DEF TypeOK, InBank
  <1>7. ASSUME clean'.at # "freed", NEW i \in 0 .. 1 PROVE BankInv(i)'
    BY <1>0, <1>6, <1>7 DEF IInv, BankInv
  <1>8. ASSUME NEW w \in Updaters PROVE ScanInv(w)'
    BY <1>0, <1>6, ScanFrame DEF TypeOK
  <1>9. CleanInv'
    BY <1>0, <1>6 DEF IInv, CleanInv, Live
  <1> QED
    BY <1>1, <1>2, <1>3, <1>4, <1>5, <1>7, <1>8, <1>9 DEF IInv

\* A reader is counted: in the bank in use, or in the old one during the second
\* synchronize_sched() only.
LEMMA ReadLockKeeps ==
    ASSUME IInv, NEW r \in Readers, NEW p \in Cpus, ReadLock(r, p)
    PROVE  IInv'
  <1> USE ConstantFacts DEF ReadLock, Passed
  <1>0. TypeOK /\ (Live => c \in Counters)
    BY DEF IInv, CleanInv, Live
  <1>a. c \in Counters /\ ridx[r] \in 0 .. 1 /\ Live
    BY <1>0 DEF IInv, CleanInv, TypeOK, Live
  <1>b. c' \in Counters /\ Counted(c, c', p, ridx[r], 1)
    <2>1. Counted(c, c', p, ridx[r], 1)
      BY <1>a DEF Counted, Counters
    <2>2. 1 \in Int
      OBVIOUS
    <2> QED
      BY <2>1, <2>2, <1>a, OtherBank
  <1>1. TypeOK'
    <2>1. quiet' \in [Updaters -> SUBSET Readers]
      BY <1>0 DEF TypeOK
    <2> QED
      BY <1>0, <1>b, <2>1 DEF TypeOK, Counters
  <1>2. ASSUME NEW w \in Updaters PROVE HolderInv(w)'
    BY DEF IInv, HolderInv, Inside
  <1>3. ASSUME NEW w \in Updaters PROVE SkipInv(w)'
    BY DEF IInv, SkipInv, Flips
  <1>4. ASSUME NEW v \in Updaters, NEW w \in Updaters PROVE CoverInv(v, w)'
    BY DEF IInv, TypeOK, CoverInv, Covers, Flips
  <1>5. ASSUME NEW q \in Readers PROVE StaleInv(q)'
    BY DEF IInv, TypeOK, StaleInv
  <1>6. /\ InBank(ridx[r])' = InBank(ridx[r]) \cup {r} /\ r \notin InBank(ridx[r])
        /\ \A i \in 0 .. 1 : i # ridx[r] => InBank(i)' = InBank(i)
    BY <1>0 DEF TypeOK, InBank
  <1>7. ASSUME clean'.at # "freed", NEW i \in 0 .. 1 PROVE BankInv(i)'
    <2>1. PICK t : PrefixSums(t, c, i) /\ t[NCpus] % CountMod = Cardinality(InBank(i))
      BY <1>a DEF IInv, BankInv, Live
    <2>2. CASE i # ridx[r]
      <3>1. PrefixSums(t, c', i)
        <4>1. 1 \in Int
          OBVIOUS
        <4> HIDE DEF ReadLock, Passed
        <4> QED
          BY <2>1, <2>2, <4>1, <1>a, <1>b, OtherBank
      <3> QED
        BY <2>1, <2>2, <3>1, <1>6 DEF BankInv
    <2>3. CASE i = ridx[r]
      <3>1. PICK s : /\ PrefixSums(s, c', i)
                     /\ \A y \in Int : (y + s[NCpus]) % CountMod = (y + t[NCpus] + 1) % CountMod
        <4>1. 1 \in Int
          OBVIOUS
        <4> HIDE DEF ReadLock, Passed
        <4> QED
          BY <2>1, <2>3, <4>1, <1>a, <1>b, CountStep
      <3>2. s[NCpus] \in Int /\ t[NCpus] \in Int
        BY <2>1, <3>1 DEF PrefixSums
      <3>3. s[NCpus] % CountMod = (t[NCpus] + 1) % CountMod
        <4>1. (0 + s[NCpus]) % CountMod = (0 + t[NCpus] + 1) % CountMod
          BY <3>1
        <4>2. 0 + s[NCpus] = s[NCpus] /\ 0 + t[NCpus] + 1 = t[NCpus] + 1
          BY <3>2
        <4> QED
          BY <4>1, <4>2
      <3>4. IsFiniteSet(InBank(i)) /\ Cardinality(InBank(i)) \in Nat /\ r \notin InBank(i)
        BY <1>6, <2>3, BankSizes
      <3>5. Cardinality(InBank(i))' = Cardinality(InBank(i)) + 1
        <4>1. InBank(i)' = InBank(i) \cup {r}
          BY <1>6, <2>3 DEF InBank
        <4> QED
          BY <3>4, <4>1, FS_AddElement
      <3>6. Cardinality(InBank(i)) + 1 < CountMod
        <4>1. InBank(i) \cup {r} \in SUBSET Readers
          BY DEF InBank
        <4>2. Cardinality(InBank(i) \cup {r}) <= Cardinality(Readers)
          BY <4>1, FS_Subset
        <4>3. Cardinality(InBank(i) \cup {r}) = Cardinality(InBank(i)) + 1
          BY <3>4, FS_AddElement
        <4> QED
          BY <4>2, <4>3, <3>4
      <3>7. (t[NCpus] + 1) % CountMod = Cardinality(InBank(i)) + 1
        <4>1. (t[NCpus] + 1) % CountMod = IF t[NCpus] % CountMod = CountMod - 1 THEN 0
                                          ELSE (t[NCpus] % CountMod) + 1
          BY <3>2, ModStep
        <4> QED
          BY <4>1, <2>1, <3>4, <3>6
      <3> QED
        BY <3>1, <3>3, <3>5, <3>7 DEF BankInv
    <2> QED
      BY <2>2, <2>3
  <1>8. ASSUME NEW w \in Updaters PROVE ScanInv(w)'
    <2> SUFFICES ASSUME upc[w] = "sum" PROVE ScanInv(w)'
      BY DEF ScanInv
    <2>1. uidx[w] \in 0 .. 1 /\ uidx[w] = 1 - (completed % 2) /\ completed % 2 \in 0 .. 1
      BY SummedBank, FlipFacts, <1>0
    <2>2. ridx[r] # uidx[w]
      BY <2>1, <1>0, OneHolder DEF IInv, StaleInv, Holding
    <2>3. PICK t : /\ PrefixSums(t, c, uidx[w])
                   /\ (sum[w] + (t[NCpus] - t[cpu[w] - 1])) % CountMod >= Cardinality(InBank(uidx[w]))
      BY DEF IInv, ScanInv
    <2>4. PrefixSums(t, c', uidx[w])
      <3>1. 1 \in Int
        OBVIOUS
      <3> HIDE DEF ReadLock, Passed
      <3> QED
        BY <2>1, <2>2, <2>3, <1>a, <1>b, OtherBank
    <2>5. InBank(uidx[w])' = InBank(uidx[w])
      BY <2>1, <2>2, <1>6 DEF InBank
    <2> QED
      BY <2>3, <2>4, <2>5 DEF ScanInv
  <1>9. CleanInv'
    BY <1>b DEF IInv, CleanInv, Live
  <1> QED
    BY <1>1, <1>2, <1>3, <1>4, <1>5, <1>7, <1>8, <1>9 DEF IInv

\* A reader is counted out, possibly on another CPU and behind the back of a sum.
LEMMA ReadUnlockKeeps ==
    ASSUME IInv, NEW r \in Readers, NEW p \in Cpus, ReadUnlock(r, p)
    PROVE  IInv'
  <1> USE ConstantFacts DEF ReadUnlock, CountOut
  <1>0. TypeOK /\ (Live => c \in Counters)
    BY DEF IInv, CleanInv, Live
  <1>a. c \in Counters /\ ridx[r] \in 0 .. 1
    BY <1>0 DEF IInv, CleanInv, TypeOK, Live
  <1>b. c' \in Counters /\ Counted(c, c', p, ridx[r], -1)
    <2>1. Counted(c, c', p, ridx[r], -1)
      BY <1>a DEF Counted, Counters
    <2>2. -1 \in Int
      OBVIOUS
    <2> QED
      BY <2>1, <2>2, <1>a, OtherBank
  <1>1. TypeOK'
    BY <1>0, <1>b DEF TypeOK, Counters
  <1>c. ASSUME NEW i \in 0 .. 1
        PROVE  /\ IsFiniteSet(InBank(i)) /\ Cardinality(InBank(i)) \in Nat
               /\ i = ridx[r] => /\ Cardinality(InBank(i))' = Cardinality(InBank(i)) - 1
                                /\ Cardinality(InBank(i)) \in Nat \ {0}
               /\ i # ridx[r] => Cardinality(InBank(i))' = Cardinality(InBank(i))
    <2>1. IsFiniteSet(InBank(i)) /\ Cardinality(InBank(i)) \in Nat
      BY BankSizes
    <2>2. CASE i = ridx[r]
      <3>1. r \in InBank(i) /\ InBank(i)' = InBank(i) \ {r}
        BY <1>0, <2>2 DEF TypeOK, InBank
      <3>2. Cardinality(InBank(i) \ {r}) = Cardinality(InBank(i)) - 1 /\ IsFiniteSet(InBank(i) \ {r})
        BY <2>1, <3>1, FS_RemoveElement
      <3>3. Cardinality(InBank(i) \ {r}) \in Nat
        BY <3>2, FS_CardinalityType
      <3> QED
        BY <2>1, <2>2, <3>1, <3>2, <3>3
    <2>3. CASE i # ridx[r]
      <3>1. InBank(i)' = InBank(i)
        BY <1>0, <2>3 DEF TypeOK, InBank
      <3> QED
        BY <2>1, <2>3, <3>1
    <2> QED
      BY <2>2, <2>3
  <1>2. ASSUME NEW w \in Updaters PROVE HolderInv(w)'
    BY DEF IInv, HolderInv, Inside
  <1>3. ASSUME NEW w \in Updaters PROVE SkipInv(w)'
    BY DEF IInv, SkipInv, Flips
  <1>4. ASSUME NEW v \in Updaters, NEW w \in Updaters PROVE CoverInv(v, w)'
    BY DEF IInv, TypeOK, CoverInv, Covers, Flips
  <1>5. ASSUME NEW q \in Readers PROVE StaleInv(q)'
    BY <1>0 DEF IInv, TypeOK, StaleInv, HolderInv, Holding
  <1>7. ASSUME clean'.at # "freed", NEW i \in 0 .. 1 PROVE BankInv(i)'
    <2>1. PICK t : PrefixSums(t, c, i) /\ t[NCpus] % CountMod = Cardinality(InBank(i))
      BY <1>7 DEF IInv, BankInv
    <2>2. CASE i # ridx[r]
      <3>1. -1 \in Int
        OBVIOUS
      <3>2. PrefixSums(t, c', i)
        <4> HIDE DEF ReadUnlock, CountOut
        <4> QED
          BY <2>1, <2>2, <3>1, <1>a, <1>b, OtherBank
      <3> QED
        BY <2>1, <2>2, <3>2, <1>c DEF BankInv
    <2>3. CASE i = ridx[r]
      <3>1. PICK s : /\ PrefixSums(s, c', i)
                     /\ \A y \in Int : (y + s[NCpus]) % CountMod = (y + t[NCpus] + (-1)) % CountMod
        <4>1. -1 \in Int
          OBVIOUS
        <4> HIDE DEF ReadUnlock, CountOut
        <4> QED
          BY <2>1, <2>3, <4>1, <1>a, <1>b, CountStep
      <3>2. s[NCpus] \in Int /\ t[NCpus] \in Int
        BY <2>1, <3>1 DEF PrefixSums
      <3>3. s[NCpus] % CountMod = (t[NCpus] - 1) % CountMod
        <4>1. (0 + s[NCpus]) % CountMod = (0 + t[NCpus] + (-1)) % CountMod
          BY <3>1
        <4>2. 0 + s[NCpus] = s[NCpus] /\ 0 + t[NCpus] + (-1) = t[NCpus] - 1
          BY <3>2
        <4> QED
          BY <4>1, <4>2
      <3>4. (t[NCpus] - 1) % CountMod = Cardinality(InBank(i)) - 1
        <4>1. (t[NCpus] - 1) % CountMod = IF t[NCpus] % CountMod = 0 THEN CountMod - 1
                                          ELSE (t[NCpus] % CountMod) - 1
          BY <3>2, ModStep
        <4> QED
          BY <4>1, <2>1, <2>3, <1>c
      <3> QED
        BY <2>3, <3>1, <3>3, <3>4, <1>c DEF BankInv
    <2> QED
      BY <2>2, <2>3
  <1>8. ASSUME NEW w \in Updaters PROVE ScanInv(w)'
    <2> SUFFICES ASSUME upc[w] = "sum" PROVE ScanInv(w)'
      BY DEF ScanInv
    <2>1. uidx[w] \in 0 .. 1
      BY SummedBank
    <2>2. PICK t : /\ PrefixSums(t, c, uidx[w])
                   /\ (sum[w] + (t[NCpus] - t[cpu[w] - 1])) % CountMod >= Cardinality(InBank(uidx[w]))
      BY DEF IInv, ScanInv
    <2>3. uidx' = uidx /\ sum' = sum /\ cpu' = cpu
      OBVIOUS
    <2>4. CASE uidx[w] # ridx[r]
      <3>1. -1 \in Int
        OBVIOUS
      <3>2. PrefixSums(t, c', uidx[w])
        <4> HIDE DEF ReadUnlock, CountOut
        <4> QED
          BY <2>1, <2>2, <2>4, <1>a, <1>b, OtherBank
      <3>3. Cardinality(InBank(uidx[w]))' = Cardinality(InBank(uidx[w]))
        BY <2>1, <2>3, <2>4, <1>0 DEF TypeOK, InBank
      <3> QED
        BY <2>2, <3>2, <3>3 DEF ScanInv
    <2>5. CASE uidx[w] = ridx[r]
      <3>1. /\ Cardinality(InBank(uidx[w]))' = Cardinality(InBank(uidx[w])) - 1
            /\ Cardinality(InBank(uidx[w])) \in Nat \ {0}
        <4>1. InBank(uidx[w])' = InBank(uidx[w]) \ {r} /\ r \in InBank(uidx[w])
          BY <2>5, <1>0 DEF TypeOK, InBank
        <4>2. IsFiniteSet(InBank(uidx[w]))
          BY <2>1, <1>c
        <4>3. Cardinality(InBank(uidx[w]) \ {r}) = Cardinality(InBank(uidx[w])) - 1
          BY <4>1, <4>2, FS_RemoveElement
        <4> QED
          BY <4>1, <4>3, <2>1, <2>5, <1>c
      <3>2. cpu[w] - 1 \in 0 .. NCpus /\ sum[w] \in Int
        BY <1>0 DEF TypeOK
      <3>3. PICK s : /\ PrefixSums(s, c', uidx[w])
                     /\ (sum[w] + (s[NCpus] - s[cpu[w] - 1])) % CountMod
                           >= Cardinality(InBank(uidx[w])) - 1
        BY <2>2, <2>5, <3>1, <3>2, <1>a, <1>b, TailStep
      <3> QED
        BY <3>1, <3>3 DEF ScanInv
    <2> QED
      BY <2>4, <2>5
  <1>9. CleanInv'
    <2>1. c' \in Counters /\ clean' = clean /\ clean.at # "freed"
      BY <1>0, <1>b DEF IInv, CleanInv
    <2>2. clean.at # "sum" => clean.cpu = 1 /\ clean.sum = 0
      BY DEF IInv, CleanInv
    <2>3. ~Live' => /\ \A u \in Updaters : upc'[u] = "idle"
                    /\ \A q \in Readers : rpc'[q] \notin {"early", "fetched"}
      BY <1>0 DEF IInv, CleanInv, Live, TypeOK
    <2> DEFINE n == Cardinality(InBank(0)) + Cardinality(InBank(1))
    <2>4. Cardinality(InBank(0))' + Cardinality(InBank(1))' = n - 1 /\ n \in Nat \ {0}
      <3>1. 0 \in 0 .. 1 /\ 1 \in 0 .. 1 /\ (ridx[r] = 0 \/ ridx[r] = 1)
        BY <1>a
      <3> QED
        BY <3>1, <1>c
    <2>5. ASSUME clean.at = "sum"
          PROVE  \E s, t : /\ PrefixSums(s, c', 0) /\ PrefixSums(t, c', 1)
                           /\ (clean.sum + Unread(s, t, clean.cpu - 1)) % CountMod >= n - 1
      <3>1. PICK s, t : /\ PrefixSums(s, c, 0) /\ PrefixSums(t, c, 1)
                        /\ (clean.sum + Unread(s, t, clean.cpu - 1)) % CountMod >= n
        BY <2>5 DEF IInv, CleanInv
      <3>2. clean.cpu - 1 \in 0 .. 2 * NCpus /\ clean.sum \in Int
        BY <1>0 DEF TypeOK
      <3> HIDE DEF n
      <3> QED
        BY <2>4, <3>1, <3>2, <1>a, <1>b, UnreadStep
    <2> HIDE DEF n, ReadUnlock, CountOut
    <2> QED
      BY <2>1, <2>2, <2>3, <2>4, <2>5 DEF CleanInv
  <1> QED
    BY <1>1, <1>2, <1>3, <1>4, <1>5, <1>7, <1>8, <1>9 DEF IInv

\* A section is over.
LEMMA ReadOutKeeps ==
    ASSUME IInv, NEW r \in Readers, ReadOut(r)
    PROVE  IInv'
  <1> USE ConstantFacts DEF ReadOut, Passed
  <1>0. TypeOK /\ (Live => c \in Counters)
    BY DEF IInv, CleanInv, Live
  <1>1. TypeOK'
    BY <1>0 DEF TypeOK, Counters, InFlight, Inside
  <1>2. ASSUME NEW w \in Updaters PROVE HolderInv(w)'
    BY DEF IInv, HolderInv, Inside
  <1>3. ASSUME NEW w \in Updaters PROVE SkipInv(w)'
    BY DEF IInv, SkipInv, Flips
  <1>4. ASSUME NEW v \in Updaters, NEW w \in Updaters PROVE CoverInv(v, w)'
    BY DEF IInv, CoverInv, Covers, Flips, HolderInv
  <1>5. ASSUME NEW q \in Readers PROVE StaleInv(q)'
    BY <1>0 DEF IInv, TypeOK, StaleInv, HolderInv, Holding
  <1>6. ASSUME NEW i \in 0 .. 1 PROVE InBank(i)' = InBank(i)
    BY <1>0 DEF TypeOK, InBank
  <1>7. ASSUME clean'.at # "freed", NEW i \in 0 .. 1 PROVE BankInv(i)'
    BY <1>0, <1>6, <1>7 DEF IInv, BankInv
  <1>8. ASSUME NEW w \in Updaters PROVE ScanInv(w)'
    BY <1>0, <1>6, ScanFrame DEF TypeOK
  <1>9. CleanInv'
    BY <1>0, <1>6 DEF IInv, CleanInv, Live
  <1> QED
    BY <1>1, <1>2, <1>3, <1>4, <1>5, <1>7, <1>8, <1>9 DEF IInv

-----------------------------------------------------------------------------
(* So does every step of synchronize_srcu(). *)

\* A call of synchronize_srcu() begins.
LEMMA SyncCallKeeps ==
    ASSUME IInv, NEW u \in Updaters, SyncCall(u)
    PROVE  IInv'
  <1> USE ConstantFacts DEF SyncCall, Live, At
  <1>0. TypeOK /\ (Live => c \in Counters)
    BY DEF IInv, CleanInv, Live
  <1>1. TypeOK'
    BY <1>0 DEF TypeOK, Counters, InFlight, Inside
  <1>2. ASSUME NEW w \in Updaters PROVE HolderInv(w)'
    BY DEF IInv, TypeOK, HolderInv, Holding, Flipped, Inside
  <1>3. ASSUME NEW w \in Updaters PROVE SkipInv(w)'
    BY DEF IInv, TypeOK, SkipInv, Flipped, Flips
  <1>4. ASSUME NEW v \in Updaters, NEW w \in Updaters PROVE CoverInv(v, w)'
    BY DEF IInv, TypeOK, CoverInv, Covers, Flips, HolderInv, Inside
  <1>5. ASSUME NEW q \in Readers PROVE StaleInv(q)'
    BY <1>0 DEF IInv, TypeOK, StaleInv, HolderInv, Holding
  <1>6. ASSUME NEW i \in 0 .. 1 PROVE InBank(i)' = InBank(i)
    BY <1>0 DEF TypeOK, InBank
  <1>7. ASSUME clean'.at # "freed", NEW i \in 0 .. 1 PROVE BankInv(i)'
    BY <1>0, <1>6, <1>7 DEF IInv, BankInv
  <1>8. ASSUME NEW w \in Updaters PROVE ScanInv(w)'
    BY <1>0, <1>6, ScanFrame DEF TypeOK
  <1>9. CleanInv'
    BY <1>0, <1>6 DEF IInv, CleanInv, Live
  <1> QED
    BY <1>1, <1>2, <1>3, <1>4, <1>5, <1>7, <1>8, <1>9 DEF IInv

\* The early exit leaves nothing behind.
LEMMA SyncEarlyExitKeeps ==
    ASSUME IInv, NEW u \in Updaters, SyncEarlyExit(u)
    PROVE  IInv'
  <1> USE ConstantFacts DEF SyncEarlyExit, EarlyExit, Release, At
  <1>0. TypeOK /\ (Live => c \in Counters)
    BY DEF IInv, CleanInv, Live
  <1>1. TypeOK'
    <2>1. FlipMod \in Nat \ {0}
      BY <1>0, FlipFacts
    <2>2. before' \in [Updaters -> (SUBSET Readers) \cup {NULL}]
      BY <1>0 DEF TypeOK
    <2>3. uidx' \in [Updaters -> 0 .. FlipMod - 1]
      BY <1>0, <2>1 DEF TypeOK
    <2>4. upc' \in [Updaters -> {"idle", "lock", "sched1", "sched2", "sum", "sched3"}]
      BY <1>0 DEF TypeOK
    <2> QED
      BY <2>2, <2>3, <2>4, <1>0 DEF TypeOK
  <1>2. ASSUME NEW w \in Updaters PROVE HolderInv(w)'
    BY DEF IInv, TypeOK, HolderInv, Holding, Flipped, Inside
  <1>3. ASSUME NEW w \in Updaters PROVE SkipInv(w)'
    BY DEF IInv, TypeOK, SkipInv, Flips
  <1>4. ASSUME NEW v \in Updaters, NEW w \in Updaters PROVE CoverInv(v, w)'
    BY DEF IInv, CoverInv, HolderInv
  <1>5. ASSUME NEW q \in Readers PROVE StaleInv(q)'
    BY <1>0 DEF IInv, TypeOK, StaleInv, HolderInv, Holding
  <1>6. ASSUME NEW i \in 0 .. 1 PROVE InBank(i)' = InBank(i)
    BY <1>0 DEF TypeOK, InBank
  <1>7. ASSUME clean'.at # "freed", NEW i \in 0 .. 1 PROVE BankInv(i)'
    BY <1>0, <1>6, <1>7 DEF IInv, BankInv
  <1>8. ASSUME NEW w \in Updaters PROVE ScanInv(w)'
    BY <1>0, <1>6, ScanFrame DEF TypeOK
  <1>9. CleanInv'
    BY <1>0, <1>6 DEF IInv, CleanInv, Live
  <1> QED
    BY <1>1, <1>2, <1>3, <1>4, <1>5, <1>7, <1>8, <1>9 DEF IInv

\* The first synchronize_sched() waits for every reader that is counted too late.
LEMMA SyncLockKeeps ==
    ASSUME IInv, NEW u \in Updaters, SyncLock(u)
    PROVE  IInv'
  <1> USE ConstantFacts DEF SyncLock, SchedBegin, At
  <1>0. TypeOK /\ (Live => c \in Counters)
    BY DEF IInv, CleanInv, Live
  <1>1. TypeOK'
    BY <1>0 DEF TypeOK, Counters, InFlight, Inside
  <1>2. ASSUME NEW w \in Updaters PROVE HolderInv(w)'
    BY DEF IInv, TypeOK, HolderInv, Holding, Flipped, Inside
  <1>3. ASSUME NEW w \in Updaters PROVE SkipInv(w)'
    BY DEF IInv, SkipInv, Flips
  <1>4. ASSUME NEW v \in Updaters, NEW w \in Updaters PROVE CoverInv(v, w)'
    BY DEF IInv, TypeOK, CoverInv, Covers, HolderInv, InFlight
  <1>5. ASSUME NEW q \in Readers PROVE StaleInv(q)'
    BY <1>0 DEF IInv, TypeOK, StaleInv, HolderInv, Holding
  <1>6. ASSUME NEW i \in 0 .. 1 PROVE InBank(i)' = InBank(i)
    BY <1>0 DEF TypeOK, InBank
  <1>7. ASSUME clean'.at # "freed", NEW i \in 0 .. 1 PROVE BankInv(i)'
    BY <1>0, <1>6, <1>7 DEF IInv, BankInv
  <1>8. ASSUME NEW w \in Updaters PROVE ScanInv(w)'
    BY <1>0, <1>6, ScanFrame DEF TypeOK
  <1>9. CleanInv'
    BY <1>0, <1>6 DEF IInv, CleanInv, Live
  <1> QED
    BY <1>1, <1>2, <1>3, <1>4, <1>5, <1>7, <1>8, <1>9 DEF IInv

\* At the flip whoever is in a section that must be outlasted is counted in the bank
\* that is given up, or about to leave.
LEMMA SyncFlipKeeps ==
    ASSUME IInv, NEW u \in Updaters, SyncFlip(u)
    PROVE  IInv'
  <1> USE ConstantFacts DEF SyncFlip, SchedBegin, SchedDone, At
  <1>0. TypeOK /\ (Live => c \in Counters)
    BY DEF IInv, CleanInv, Live
  <1>1. TypeOK'
    BY <1>0, FlipFacts DEF TypeOK, InFlight
  <1>2. ASSUME NEW w \in Updaters PROVE HolderInv(w)'
    BY FlipFacts DEF IInv, TypeOK, HolderInv, Holding, Flipped, Inside
  <1>3. ASSUME NEW w \in Updaters PROVE SkipInv(w)'
    BY <1>0 DEF TypeOK, SkipInv, Flipped
  <1>4. ASSUME NEW v \in Updaters, NEW w \in Updaters PROVE CoverInv(v, w)'
    <2>1. CASE v = u
      <3> SUFFICES ASSUME Covers(u, w)', NEW q \in before[w]
                   PROVE  rpc[q] = "late" \/ (rpc[q] = "in" /\ ridx[q] = completed % 2)
        BY <2>1, <1>0 DEF CoverInv, TypeOK
      <3>1. upc[u] = "sched1" /\ quiet[u] = {} /\ upc'[u] = "sched2"
        BY <1>0 DEF TypeOK
      <3>2. Covers(u, w)
        <4>1. CASE w = u
          BY <4>1 DEF Covers
        <4>2. CASE w # u
          <5>1. upc[w] = "lock" /\ Flips(w)' >= 2 /\ uidx'[w] = uidx[w]
            BY <4>2, <3>1, <1>0 DEF Covers, TypeOK
          <5>2. Flips(w) >= 1
            BY <5>1, <1>0, FlipsStep
          <5> QED
            BY <5>1, <5>2, <3>1 DEF Covers
        <4> QED
          BY <4>1, <4>2
      <3>3. rpc[q] \notin {"early", "fetched"}
        BY <3>1, <3>2 DEF IInv, CoverInv, Holding
      <3>4. upc[w] # "idle"
        BY <3>1, <3>2 DEF Covers
      <3>5. q \in Readers /\ rpc[q] # "out"
        BY <3>4 DEF IInv, HolderInv, Inside
      <3>6. rpc[q] = "in" => ridx[q] = completed % 2
        BY <3>1, <3>5, OneHolder DEF IInv, StaleInv, Holding
      <3> QED
        BY <3>3, <3>5, <3>6, <1>0 DEF TypeOK
    <2>2. CASE v # u
      BY <2>2 DEF IInv, CoverInv, HolderInv, Holding
    <2> QED
      BY <2>1, <2>2
  <1>5. ASSUME NEW q \in Readers PROVE StaleInv(q)'
    BY <1>0 DEF TypeOK, StaleInv, InFlight
  <1>6. ASSUME NEW i \in 0 .. 1 PROVE InBank(i)' = InBank(i)
    BY <1>0 DEF TypeOK, InBank
  <1>7. ASSUME clean'.at # "freed", NEW i \in 0 .. 1 PROVE BankInv(i)'
    BY <1>0, <1>6, <1>7 DEF IInv, BankInv
  <1>8. ASSUME NEW w \in Updaters PROVE ScanInv(w)'
    BY <1>0, <1>6, ScanFrame DEF TypeOK
  <1>9. CleanInv'
    BY <1>0, <1>6 DEF IInv, CleanInv, Live
  <1> QED
    BY <1>1, <1>2, <1>3, <1>4, <1>5, <1>7, <1>8, <1>9 DEF IInv

\* After the second synchronize_sched() nobody joins the bank that was given up.
LEMMA SyncScanKeeps ==
    ASSUME IInv, NEW u \in Updaters, SyncScan(u)
    PROVE  IInv'
  <1> USE ConstantFacts DEF SyncScan, SchedDone, At
  <1>0. TypeOK /\ (Live => c \in Counters)
    BY DEF IInv, CleanInv, Live
  <1>a. Live
    BY DEF IInv, CleanInv
  <1>1. TypeOK'
    BY <1>0 DEF TypeOK, Counters, InFlight, Inside
  <1>2. ASSUME NEW w \in Updaters PROVE HolderInv(w)'
    BY DEF IInv, HolderInv, Holding, Flipped, Inside
  <1>3. ASSUME NEW w \in Updaters PROVE SkipInv(w)'
    BY DEF SkipInv, Flipped
  <1>4. ASSUME NEW v \in Updaters, NEW w \in Updaters PROVE CoverInv(v, w)'
    BY DEF IInv, CoverInv, Covers, Flips, Holding
  <1>5. ASSUME NEW q \in Readers PROVE StaleInv(q)'
    BY <1>0 DEF IInv, TypeOK, StaleInv, HolderInv, Holding
  <1>6. ASSUME NEW i \in 0 .. 1 PROVE InBank(i)' = InBank(i)
    BY <1>0 DEF TypeOK, InBank
  <1>7. ASSUME clean'.at # "freed", NEW i \in 0 .. 1 PROVE BankInv(i)'
    BY <1>0, <1>6, <1>7 DEF IInv, BankInv
  <1>8. ASSUME NEW w \in Updaters PROVE ScanInv(w)'
    <2>1. CASE w = u
      <3>1. uidx'[u] = uidx[u] /\ uidx[u] = 1 - (completed % 2) /\ uidx[u] \in 0 .. 1
        BY <1>0, FlipFacts DEF IInv, HolderInv, Flipped
      <3>2. PICK t : PrefixSums(t, c, uidx[u]) /\ t[NCpus] % CountMod = Cardinality(InBank(uidx[u]))
        BY <3>1, <1>a DEF IInv, BankInv, Live
      <3>3. t[0] = 0 /\ t[NCpus] \in Int
        BY <3>2 DEF PrefixSums
      <3>4. cpu'[u] = 1 /\ sum'[u] = 0 /\ c' = c
        BY <1>0 DEF IInv, TypeOK, HolderInv
      <3>5. 0 + (t[NCpus] - t[1 - 1]) = t[NCpus]
        BY <3>3
      <3>6. Cardinality(InBank(uidx[u])) \in Nat
        BY <3>1, BankSizes
      <3>7. InBank(uidx[u])' = InBank(uidx[u])
        BY <3>1 DEF InBank
      <3> HIDE DEF SyncScan, SchedDone, At
      <3> QED
        BY <3>1, <3>2, <3>4, <3>5, <3>6, <3>7, <2>1 DEF ScanInv
    <2>2. CASE w # u
      BY <2>2, <1>0, <1>6, ScanFrame DEF TypeOK
    <2> QED
      BY <2>1, <2>2
  <1>9. CleanInv'
    BY <1>0, <1>6 DEF IInv, CleanInv, Live
  <1> QED
    BY <1>1, <1>2, <1>3, <1>4, <1>5, <1>7, <1>8, <1>9 DEF IInv

\* One more counter is read.
LEMMA SyncReadKeeps ==
    ASSUME IInv, NEW u \in Updaters, SyncRead(u)
    PROVE  IInv'
  <1> USE ConstantFacts DEF SyncRead
  <1>0. TypeOK /\ (Live => c \in Counters)
    BY DEF IInv, CleanInv, Live
  <1>1. TypeOK'
    <2>a. c \in Counters /\ uidx[u] \in 0 .. 1
      BY SummedBank
    <2>b. cpu[u] \in Cpus /\ sum[u] \in Int /\ cpu[u] + 1 \in 1 .. NCpus + 1
      <3>1. cpu[u] \in 1 .. NCpus + 1 /\ sum[u] \in 0 .. CountMod - 1 /\ cpu[u] <= NCpus
        BY <1>0 DEF TypeOK
      <3> QED
        BY <3>1 DEF Cpus
    <2>1. c[cpu[u]][uidx[u]] \in Int
      BY <2>a, <2>b DEF Counters
    <2>2. (sum[u] + c[cpu[u]][uidx[u]]) % CountMod \in 0 .. CountMod - 1
      <3> HIDE DEF SyncRead
      <3>1. sum[u] + c[cpu[u]][uidx[u]] \in Int
        BY <2>b, <2>1
      <3> QED
        BY <3>1, CounterRange
    <2> QED
      BY <1>0, <2>b, <2>2 DEF TypeOK
  <1>2. ASSUME NEW w \in Updaters PROVE HolderInv(w)'
    BY DEF IInv, HolderInv, Inside
  <1>3. ASSUME NEW w \in Updaters PROVE SkipInv(w)'
    BY DEF SkipInv, Flipped
  <1>4. ASSUME NEW v \in Updaters, NEW w \in Updaters PROVE CoverInv(v, w)'
    BY DEF IInv, CoverInv, Covers, Flips
  <1>5. ASSUME NEW q \in Readers PROVE StaleInv(q)'
    BY <1>0 DEF IInv, TypeOK, StaleInv, HolderInv, Holding
  <1>6. ASSUME NEW i \in 0 .. 1 PROVE InBank(i)' = InBank(i)
    BY <1>0 DEF TypeOK, InBank
  <1>7. ASSUME clean'.at # "freed", NEW i \in 0 .. 1 PROVE BankInv(i)'
    BY <1>0, <1>6, <1>7 DEF IInv, BankInv
  <1>8. ASSUME NEW w \in Updaters PROVE ScanInv(w)'
    <2>1. CASE w = u
      <3>1. uidx[u] \in 0 .. 1 /\ c \in Counters
        BY SummedBank
      <3> DEFINE x == c[cpu[u]][uidx[u]]
                 n == Cardinality(InBank(uidx[u]))
      <3>2. PICK t : PrefixSums(t, c, uidx[u])
                     /\ (sum[u] + (t[NCpus] - t[cpu[u] - 1])) % CountMod >= n
        BY DEF IInv, ScanInv
      <3>3. cpu[u] \in Cpus /\ cpu[u] \in Nat /\ x \in Int /\ sum[u] \in Int
        <4>1. cpu[u] \in Cpus /\ cpu[u] \in Nat /\ sum[u] \in Int
          BY <1>0 DEF TypeOK, Cpus
        <4> QED
          BY <3>1, <4>1 DEF Counters
      <3>4. /\ t[NCpus] \in Int /\ t[cpu[u]] \in Int /\ t[cpu[u] - 1] \in Int
            /\ t[cpu[u]] = t[cpu[u] - 1] + x
        <4> HIDE DEF SyncRead, x, n
        <4>1. NCpus \in 0 .. NCpus /\ cpu[u] \in 0 .. NCpus /\ cpu[u] - 1 \in 0 .. NCpus
          BY <3>3 DEF Cpus
        <4>2. t[cpu[u]] = t[cpu[u] - 1] + x
          BY <3>2, <3>3 DEF PrefixSums, x
        <4> QED
          BY <3>2, <4>1, <4>2 DEF PrefixSums
      <3>5. /\ sum'[u] = (sum[u] + x) % CountMod /\ cpu'[u] = cpu[u] + 1
            /\ uidx'[u] = uidx[u] /\ c' = c
        BY <1>0 DEF TypeOK
      <3>6. InBank(uidx[u])' = InBank(uidx[u])
        BY <3>5 DEF InBank
      <3> HIDE DEF SyncRead, x, n
      <3>7. (((sum[u] + x) % CountMod) + (t[NCpus] - t[cpu[u]])) % CountMod
              = ((sum[u] + x) + (t[NCpus] - t[cpu[u]])) % CountMod
        <4>1. sum[u] + x \in Int /\ t[NCpus] - t[cpu[u]] \in Int
          BY <3>3, <3>4
        <4> QED
          BY <4>1, ModAdd
      <3>8. (sum[u] + x) + (t[NCpus] - t[cpu[u]]) = sum[u] + (t[NCpus] - t[cpu[u] - 1])
        BY <3>3, <3>4
      <3>9. (cpu[u] + 1) - 1 = cpu[u]
        BY <3>3
      <3>10. (sum'[u] + (t[NCpus] - t[cpu'[u] - 1])) % CountMod >= n
        BY <3>2, <3>5, <3>7, <3>8, <3>9
      <3> QED
        BY <2>1, <3>2, <3>5, <3>6, <3>10 DEF ScanInv, n
    <2>2. CASE w # u
      BY <2>2, <1>0, <1>6, ScanFrame DEF TypeOK
    <2> QED
      BY <2>1, <2>2
  <1>9. CleanInv'
    BY <1>0, <1>6 DEF IInv, CleanInv, Live
  <1> QED
    BY <1>1, <1>2, <1>3, <1>4, <1>5, <1>7, <1>8, <1>9 DEF IInv

\* The sum starts afresh.
LEMMA SyncAgainKeeps ==
    ASSUME IInv, NEW u \in Updaters, SyncAgain(u)
    PROVE  IInv'
  <1> USE ConstantFacts DEF SyncAgain
  <1>0. TypeOK /\ (Live => c \in Counters)
    BY DEF IInv, CleanInv, Live
  <1>a. Live
    BY DEF IInv, CleanInv
  <1>1. TypeOK'
    BY <1>0 DEF TypeOK, Counters, InFlight, Inside
  <1>2. ASSUME NEW w \in Updaters PROVE HolderInv(w)'
    BY DEF IInv, HolderInv, Inside
  <1>3. ASSUME NEW w \in Updaters PROVE SkipInv(w)'
    BY DEF SkipInv, Flipped
  <1>4. ASSUME NEW v \in Updaters, NEW w \in Updaters PROVE CoverInv(v, w)'
    BY DEF IInv, CoverInv, Covers, Flips
  <1>5. ASSUME NEW q \in Readers PROVE StaleInv(q)'
    BY <1>0 DEF IInv, TypeOK, StaleInv, HolderInv, Holding
  <1>6. ASSUME NEW i \in 0 .. 1 PROVE InBank(i)' = InBank(i)
    BY <1>0 DEF TypeOK, InBank
  <1>7. ASSUME clean'.at # "freed", NEW i \in 0 .. 1 PROVE BankInv(i)'
    BY <1>0, <1>6, <1>7 DEF IInv, BankInv
  <1>8. ASSUME NEW w \in Updaters PROVE ScanInv(w)'
    <2>1. CASE w = u
      <3>1. uidx'[u] = uidx[u] /\ uidx[u] = 1 - (completed % 2) /\ uidx[u] \in 0 .. 1
        BY <1>0, FlipFacts DEF IInv, HolderInv, Flipped
      <3>2. PICK t : PrefixSums(t, c, uidx[u]) /\ t[NCpus] % CountMod = Cardinality(InBank(uidx[u]))
        BY <3>1, <1>a DEF IInv, BankInv, Live
      <3>3. t[0] = 0 /\ t[NCpus] \in Int
        BY <3>2 DEF PrefixSums
      <3>4. cpu'[u] = 1 /\ sum'[u] = 0 /\ c' = c
        BY <1>0 DEF IInv, TypeOK, HolderInv
      <3>5. 0 + (t[NCpus] - t[1 - 1]) = t[NCpus]
        BY <3>3
      <3>6. Cardinality(InBank(uidx[u])) \in Nat
        BY <3>1, BankSizes
      <3>7. InBank(uidx[u])' = InBank(uidx[u])
        BY <3>1 DEF InBank
      <3> HIDE DEF SyncAgain
      <3> QED
        BY <3>1, <3>2, <3>4, <3>5, <3>6, <3>7, <2>1 DEF ScanInv
    <2>2. CASE w # u
      BY <2>2, <1>0, <1>6, ScanFrame DEF TypeOK
    <2> QED
      BY <2>1, <2>2
  <1>9. CleanInv'
    BY <1>0, <1>6 DEF IInv, CleanInv, Live
  <1> QED
    BY <1>1, <1>2, <1>3, <1>4, <1>5, <1>7, <1>8, <1>9 DEF IInv

\* A sum of zero means that the bank is empty.
LEMMA SyncDrainedKeeps ==
    ASSUME IInv, NEW u \in Updaters, SyncDrained(u)
    PROVE  IInv'
  <1> USE ConstantFacts DEF SyncDrained, SchedBegin, At
  <1>0. TypeOK /\ (Live => c \in Counters)
    BY DEF IInv, CleanInv, Live
  <1>a. uidx[u] \in 0 .. 1 /\ InBank(uidx[u]) = {}
    <2>1. uidx[u] \in 0 .. 1
      BY SummedBank
    <2>2. PICK t : /\ PrefixSums(t, c, uidx[u])
                   /\ (sum[u] + (t[NCpus] - t[cpu[u] - 1])) % CountMod >= Cardinality(InBank(uidx[u]))
      BY DEF IInv, ScanInv
    <2>3. cpu[u] - 1 = NCpus /\ sum[u] = 0 /\ t[NCpus] \in Int
      <3>1. cpu[u] - 1 = NCpus /\ sum[u] = 0
        BY <1>0 DEF TypeOK
      <3>2. NCpus \in 0 .. NCpus
        OBVIOUS
      <3> QED
        BY <2>2, <3>1, <3>2 DEF PrefixSums
    <2>4. sum[u] + (t[NCpus] - t[cpu[u] - 1]) = 0
      BY <2>3
    <2>5. 0 % CountMod = 0
      BY ModWrap
    <2>6. Cardinality(InBank(uidx[u])) = 0 /\ IsFiniteSet(InBank(uidx[u]))
      BY <2>1, <2>2, <2>4, <2>5, BankSizes
    <2> QED
      BY <2>1, <2>6, FS_EmptySet
  <1>1. TypeOK'
    BY <1>0 DEF TypeOK, Counters, InFlight, Inside
  <1>2. ASSUME NEW w \in Updaters PROVE HolderInv(w)'
    BY DEF IInv, TypeOK, HolderInv, Holding, Flipped, Inside
  <1>3. ASSUME NEW w \in Updaters PROVE SkipInv(w)'
    BY DEF SkipInv, Flipped
  <1>4. ASSUME NEW v \in Updaters, NEW w \in Updaters PROVE CoverInv(v, w)'
    <2>1. CASE v = u
      <3> SUFFICES ASSUME Covers(u, w)', NEW q \in before[w]
                   PROVE  rpc[q] = "late" /\ q \in Readers
        BY <2>1, <1>0 DEF TypeOK, CoverInv, InFlight
      <3>1. Covers(u, w) /\ upc[w] # "idle"
        BY <1>0 DEF TypeOK, Covers, Flips
      <3>2. rpc[q] = "late" \/ (rpc[q] = "in" /\ ridx[q] = uidx[u])
        BY <3>1 DEF IInv, CoverInv, Holding
      <3>3. q \in Readers
        BY <3>1 DEF IInv, HolderInv
      <3> QED
        BY <3>2, <3>3, <1>a DEF InBank
    <2>2. CASE v # u
      BY <2>2 DEF IInv, CoverInv, HolderInv, Holding
    <2> QED
      BY <2>1, <2>2
  <1>5. ASSUME NEW q \in Readers PROVE StaleInv(q)'
    <2>1. completed % 2 \in 0 .. 1 /\ uidx[u] = 1 - (completed % 2)
      BY <1>0, FlipFacts, SummedBank
    <2>2. rpc[q] \in {"fetched", "in"} => ridx[q] = completed % 2
      BY <2>1, <1>a, OneHolder DEF IInv, TypeOK, StaleInv, Holding, InBank
    <2> QED
      BY <2>2, <1>0 DEF StaleInv
  <1>6. ASSUME NEW i \in 0 .. 1 PROVE InBank(i)' = InBank(i)
    BY <1>0 DEF TypeOK, InBank
  <1>7. ASSUME clean'.at # "freed", NEW i \in 0 .. 1 PROVE BankInv(i)'
    BY <1>0, <1>6, <1>7 DEF IInv, BankInv
  <1>8. ASSUME NEW w \in Updaters PROVE ScanInv(w)'
    BY <1>0, <1>6, ScanFrame DEF TypeOK
  <1>9. CleanInv'
    BY <1>0, <1>6 DEF IInv, CleanInv, Live
  <1> QED
    BY <1>1, <1>2, <1>3, <1>4, <1>5, <1>7, <1>8, <1>9 DEF IInv

\* The last synchronize_sched() has waited for who was leaving.
LEMMA SyncReturnKeeps ==
    ASSUME IInv, NEW u \in Updaters, SyncReturn(u)
    PROVE  IInv'
  <1> USE ConstantFacts DEF SyncReturn, SchedDone, Release, At
  <1>0. TypeOK /\ (Live => c \in Counters)
    BY DEF IInv, CleanInv, Live
  <1>1. TypeOK'
    <2>1. FlipMod \in Nat \ {0}
      BY <1>0, FlipFacts
    <2>2. before' \in [Updaters -> (SUBSET Readers) \cup {NULL}]
      BY <1>0 DEF TypeOK
    <2>3. uidx' \in [Updaters -> 0 .. FlipMod - 1]
      BY <1>0, <2>1 DEF TypeOK
    <2>4. upc' \in [Updaters -> {"idle", "lock", "sched1", "sched2", "sum", "sched3"}]
      BY <1>0 DEF TypeOK
    <2> QED
      BY <2>2, <2>3, <2>4, <1>0 DEF TypeOK
  <1>2. ASSUME NEW w \in Updaters PROVE HolderInv(w)'
    BY DEF IInv, TypeOK, HolderInv, Holding, Flipped, Inside
  <1>3. ASSUME NEW w \in Updaters PROVE SkipInv(w)'
    <2> SUFFICES ASSUME upc'[w] = "lock", Flips(w)' >= 2 PROVE before[w] = {}
      BY <1>0 DEF TypeOK, SkipInv
    <2>1. w # u /\ upc[w] = "lock" /\ Flips(w) >= 2
      BY <1>0 DEF TypeOK, Flips
    <2>2. \A q \in before[w] : q \in quiet[u]
      BY <2>1 DEF IInv, CoverInv, Covers, Holding
    <2>3. before[w] \in SUBSET Readers
      BY <2>1 DEF IInv, HolderInv
    <2> QED
      BY <2>2, <2>3
  <1>4. ASSUME NEW v \in Updaters, NEW w \in Updaters PROVE CoverInv(v, w)'
    BY DEF IInv, TypeOK, CoverInv, HolderInv, Holding
  <1>5. ASSUME NEW q \in Readers PROVE StaleInv(q)'
    BY <1>0 DEF IInv, TypeOK, StaleInv, HolderInv, Holding
  <1>6. ASSUME NEW i \in 0 .. 1 PROVE InBank(i)' = InBank(i)
    BY <1>0 DEF TypeOK, InBank
  <1>7. ASSUME clean'.at # "freed", NEW i \in 0 .. 1 PROVE BankInv(i)'
    BY <1>0, <1>6, <1>7 DEF IInv, BankInv
  <1>8. ASSUME NEW w \in Updaters PROVE ScanInv(w)'
    BY <1>0, <1>6, ScanFrame DEF TypeOK
  <1>9. CleanInv'
    BY <1>0, <1>6 DEF IInv, CleanInv, Live
  <1> QED
    BY <1>1, <1>2, <1>3, <1>4, <1>5, <1>7, <1>8, <1>9 DEF IInv

-----------------------------------------------------------------------------
(* So does cleanup_srcu_struct(). *)

\* cleanup_srcu_struct() begins when nobody starts a section any more.
LEMMA CleanCallKeeps ==
    ASSUME IInv, CleanCall
    PROVE  IInv'
  <1> USE ConstantFacts DEF CleanCall, Live, uvars
  <1>0. TypeOK /\ (Live => c \in Counters)
    BY DEF IInv, CleanInv, Live
  <1>1. TypeOK'
    BY <1>0 DEF TypeOK, Counters, InFlight, Inside
  <1>2. ASSUME NEW w \in Updaters PROVE HolderInv(w)'
    BY DEF IInv, HolderInv
  <1>3. ASSUME NEW w \in Updaters PROVE SkipInv(w)'
    BY DEF SkipInv
  <1>4. ASSUME NEW v \in Updaters, NEW w \in Updaters PROVE CoverInv(v, w)'
    BY DEF CoverInv
  <1>5. ASSUME NEW q \in Readers PROVE StaleInv(q)'
    BY <1>0 DEF IInv, TypeOK, StaleInv, HolderInv, Holding
  <1>6. ASSUME NEW i \in 0 .. 1 PROVE InBank(i)' = InBank(i)
    BY <1>0 DEF TypeOK, InBank
  <1>7. ASSUME clean'.at # "freed", NEW i \in 0 .. 1 PROVE BankInv(i)'
    BY <1>0, <1>6, <1>7 DEF IInv, BankInv
  <1>8. ASSUME NEW w \in Updaters PROVE ScanInv(w)'
    BY <1>0, <1>6, ScanFrame DEF TypeOK
  <1>9. CleanInv'
    <2>1. 0 \in 0 .. 1 /\ 1 \in 0 .. 1 /\ clean.at # "freed"
      BY DEF Live
    <2>2. PICK s : PrefixSums(s, c, 0) /\ s[NCpus] % CountMod = Cardinality(InBank(0))
      BY <2>1 DEF IInv, BankInv
    <2>3. PICK t : PrefixSums(t, c, 1) /\ t[NCpus] % CountMod = Cardinality(InBank(1))
      BY <2>1 DEF IInv, BankInv
    <2>4. s[NCpus] \in Int /\ s[0] = 0 /\ t[NCpus] \in Int
      BY <2>2, <2>3 DEF PrefixSums
    <2> DEFINE n == Cardinality(InBank(0)) + Cardinality(InBank(1))
               k == s[NCpus] % CountMod
               m == t[NCpus] % CountMod
    <2>5. n \in Nat /\ n < CountMod /\ k + m = n
      BY <2>1, <2>2, <2>3, BankSizes
    <2>6. (s[NCpus] + t[NCpus]) % CountMod = n
      <3> HIDE DEF CleanCall, k, n, m
      <3>1. k \in Int /\ m \in Int
        BY <2>4, CounterRange DEF k, m
      <3>2. (k + t[NCpus]) % CountMod = (s[NCpus] + t[NCpus]) % CountMod
        BY <2>4, ModAdd DEF k
      <3>3. (m + k) % CountMod = (t[NCpus] + k) % CountMod
        BY <2>4, <3>1, ModAdd DEF m
      <3>4. t[NCpus] + k = k + t[NCpus] /\ m + k = n
        BY <2>4, <2>5, <3>1
      <3>5. n % CountMod = n
        BY <2>5, ModWrap
      <3> QED
        BY <3>2, <3>3, <3>4, <3>5
    <2>7. clean' = [clean EXCEPT !.at = "sum"] /\ clean.cpu = 1 /\ clean.sum = 0
      BY DEF IInv, CleanInv, Live
    <2>8. clean'.at = "sum" /\ clean'.cpu = 1 /\ clean'.sum = 0
      BY <2>7, <1>0 DEF TypeOK
    <2>9. 0 + Unread(s, t, 1 - 1) = s[NCpus] + t[NCpus]
      <3>1. 0 < NCpus /\ 1 - 1 = 0
        OBVIOUS
      <3>2. Unread(s, t, 0) = (s[NCpus] - s[0]) + t[NCpus]
        BY <3>1 DEF Unread
      <3> QED
        BY <2>4, <3>1, <3>2
    <2>10. n' = n /\ c' = c
      BY <1>6, <2>1
    <2>11. \A u \in Updaters : upc'[u] = "idle"
      OBVIOUS
    <2>12. \A r \in Readers : rpc'[r] \notin {"early", "fetched"}
      OBVIOUS
    <2>13. (clean'.sum + Unread(s, t, clean'.cpu - 1)) % CountMod >= n'
      BY <2>5, <2>6, <2>8, <2>9, <2>10
    <2>14. c \in Counters
      BY <1>0
    <2> HIDE DEF CleanCall
    <2> QED
      BY <2>2, <2>3, <2>8, <2>10, <2>11, <2>12, <2>13, <2>14 DEF CleanInv, Live
  <1> QED
    BY <1>1, <1>2, <1>3, <1>4, <1>5, <1>7, <1>8, <1>9 DEF IInv

\* cleanup_srcu_struct() reads one more counter.
LEMMA CleanReadKeeps ==
    ASSUME IInv, CleanRead
    PROVE  IInv'
  <1> USE ConstantFacts DEF CleanRead, uvars
  <1>0. TypeOK /\ (Live => c \in Counters)
    BY DEF IInv, CleanInv, Live
  <1> DEFINE k == clean.cpu - 1
             q == (k % NCpus) + 1
             i == k \div NCpus
             x == c[q][i]
  <1>a. c \in Counters /\ k \in 0 .. 2 * NCpus - 1 /\ clean.sum \in Int /\ clean.cpu \in Nat
    BY <1>0 DEF TypeOK, IInv, CleanInv
  <1>b. /\ k < NCpus => q = k + 1 /\ i = 0
        /\ ~(k < NCpus) => q = (k - NCpus) + 1 /\ i = 1
    <2> HIDE DEF CleanRead, k
    <2>1. NCpus \in Nat \ {0} /\ k \in 0 .. 2 * NCpus - 1
      BY <1>a
    <2> QED
      BY <2>1, DivTwice
  <1>c. q \in Cpus /\ i \in 0 .. 1
    <2> HIDE DEF CleanRead, k, q, i
    <2> QED
      BY <1>a, <1>b DEF Cpus
  <1>d. x \in Int
    <2> HIDE DEF CleanRead, k, q, i
    <2> QED
      BY <1>a, <1>c DEF Counters
  <1>e. clean' = [at |-> "sum", cpu |-> clean.cpu + 1, sum |-> (clean.sum + x) % CountMod]
    OBVIOUS
  <1>f. (clean.sum + x) % CountMod \in 0 .. CountMod - 1
    <2> HIDE DEF CleanRead, k, q, i, x
    <2>1. clean.sum + x \in Int
      BY <1>a, <1>d
    <2> QED
      BY <2>1, CounterRange
  <1> HIDE DEF x, i, q
  <1>g. /\ UNCHANGED <<completed, c, rpc, ridx, upc, uidx, quiet, cpu, sum, mutex, before, calls>>
        /\ clean.at = "sum" /\ clean.cpu + 1 \in 1 .. 2 * NCpus + 1
    BY <1>0 DEF TypeOK
  <1> HIDE DEF CleanRead
  <1>1. TypeOK'
    BY <1>0, <1>e, <1>f, <1>g DEF TypeOK
  <1>2. ASSUME NEW w \in Updaters PROVE HolderInv(w)'
    BY <1>g DEF IInv, HolderInv, Inside
  <1>3. ASSUME NEW w \in Updaters PROVE SkipInv(w)'
    BY <1>g DEF IInv, SkipInv, Flips
  <1>4. ASSUME NEW v \in Updaters, NEW w \in Updaters PROVE CoverInv(v, w)'
    BY <1>g DEF IInv, CoverInv, Covers, Flips
  <1>5. ASSUME NEW r \in Readers PROVE StaleInv(r)'
    BY <1>g DEF IInv, StaleInv
  <1>6. ASSUME NEW j \in 0 .. 1 PROVE InBank(j)' = InBank(j)
    BY <1>0, <1>g DEF TypeOK, InBank
  <1>7. ASSUME clean'.at # "freed", NEW j \in 0 .. 1 PROVE BankInv(j)'
    BY <1>0, <1>6, <1>7, <1>g DEF IInv, BankInv
  <1>8. ASSUME NEW w \in Updaters PROVE ScanInv(w)'
    BY <1>0, <1>6, <1>g, ScanFrame DEF TypeOK
  <1>9. CleanInv'
    <2> DEFINE n == Cardinality(InBank(0)) + Cardinality(InBank(1))
    <2>1. PICK s, t : /\ PrefixSums(s, c, 0) /\ PrefixSums(t, c, 1)
                      /\ (clean.sum + Unread(s, t, k)) % CountMod >= n
      BY <1>g DEF IInv, CleanInv
    <2>2. Unread(s, t, k) \in Int /\ Unread(s, t, k + 1) \in Int
           /\ Unread(s, t, k) = x + Unread(s, t, k + 1)
      <3>1. s[NCpus] \in Int /\ t[NCpus] \in Int /\ t[0] = 0 /\ NCpus \in Nat \ {0}
        BY <2>1 DEF PrefixSums
      <3> HIDE DEF k
      <3>2. CASE k < NCpus
        <4>1. k + 1 \in Cpus /\ (k + 1) - 1 = k /\ k \in 0 .. NCpus /\ k + 1 \in 0 .. NCpus
          BY <3>2, <1>a DEF Cpus
        <4>2. x = c[k + 1][0]
          BY <3>2, <1>b DEF x
        <4>3. s[k + 1] = s[k] + x /\ s[k] \in Int /\ s[k + 1] \in Int
          BY <2>1, <4>1, <4>2 DEF PrefixSums
        <4>4. Unread(s, t, k) = (s[NCpus] - s[k]) + t[NCpus]
          BY <3>2 DEF Unread
        <4>5. Unread(s, t, k + 1) = (s[NCpus] - s[k + 1]) + t[NCpus]
          <5>1. CASE k + 1 < NCpus
            BY <5>1 DEF Unread
          <5>2. CASE ~(k + 1 < NCpus)
            <6>1. k + 1 = NCpus /\ (k + 1) - NCpus = 0
              BY <4>1, <5>2, <3>1
            <6>2. Unread(s, t, k + 1) = t[NCpus] - t[0]
              BY <5>2, <6>1 DEF Unread
            <6> QED
              BY <3>1, <6>1, <6>2
          <5> QED
            BY <5>1, <5>2
        <4> QED
          BY <3>1, <4>3, <4>4, <4>5, <1>d
      <3>3. CASE ~(k < NCpus)
        <4> DEFINE j == k - NCpus
        <4>1. j + 1 \in Cpus /\ (j + 1) - 1 = j /\ j \in 0 .. NCpus /\ j + 1 \in 0 .. NCpus
              /\ (k + 1) - NCpus = j + 1 /\ ~(k + 1 < NCpus)
          BY <3>1, <3>3, <1>a DEF Cpus
        <4>2. x = c[j + 1][1]
          BY <3>3, <1>b DEF x
        <4>3. t[j + 1] = t[j] + x /\ t[j] \in Int /\ t[j + 1] \in Int
          <5> HIDE DEF j
          <5> QED
            BY <2>1, <4>1, <4>2 DEF PrefixSums
        <4>4. Unread(s, t, k) = t[NCpus] - t[j]
          BY <3>3 DEF Unread
        <4>5. Unread(s, t, k + 1) = t[NCpus] - t[j + 1]
          BY <4>1 DEF Unread
        <4> HIDE DEF j
        <4> QED
          BY <3>1, <4>3, <4>4, <4>5, <1>d
      <3> QED
        BY <3>2, <3>3
    <2> DEFINE y == Unread(s, t, k + 1)
    <2>3. y \in Int /\ clean.sum + Unread(s, t, k) = (clean.sum + x) + y /\ clean.sum + x \in Int
      <3> HIDE DEF k
      <3> QED
        BY <2>2, <1>a, <1>d
    <2> HIDE DEF y
    <2>4. (((clean.sum + x) % CountMod) + y) % CountMod = ((clean.sum + x) + y) % CountMod
      BY <2>3, ModAdd
    <2>5. /\ clean'.at = "sum" /\ clean'.sum = (clean.sum + x) % CountMod
          /\ clean'.cpu - 1 = k + 1
      BY <1>a, <1>e
    <2>6. n' = n /\ c' = c
      <3>1. InBank(0)' = InBank(0) /\ InBank(1)' = InBank(1)
        BY <1>6
      <3> QED
        BY <3>1, <1>g
    <2>7. (clean'.sum + Unread(s, t, clean'.cpu - 1)) % CountMod >= n'
      BY <2>1, <2>3, <2>4, <2>5, <2>6 DEF y
    <2>8. /\ \A u \in Updaters : upc'[u] = "idle"
          /\ \A r \in Readers : rpc'[r] \notin {"early", "fetched"}
      BY <1>g DEF IInv, CleanInv, Live
    <2> QED
      BY <2>1, <2>5, <2>6, <2>7, <2>8, <1>a DEF CleanInv
  <1> QED
    BY <1>1, <1>2, <1>3, <1>4, <1>5, <1>7, <1>8, <1>9 DEF IInv

\* A sum of zero means that both banks are empty.
LEMMA CleanFreeKeeps ==
    ASSUME IInv, CleanFree
    PROVE  IInv'
  <1> USE ConstantFacts DEF CleanFree, uvars
  <1>0. TypeOK /\ (Live => c \in Counters)
    BY DEF IInv, CleanInv, Live
  <1>1. TypeOK'
    BY <1>0 DEF TypeOK, Counters, InFlight, Inside
  <1>2. ASSUME NEW w \in Updaters PROVE HolderInv(w)'
    BY DEF IInv, HolderInv, Inside
  <1>3. ASSUME NEW w \in Updaters PROVE SkipInv(w)'
    BY DEF IInv, SkipInv, Flips
  <1>4. ASSUME NEW v \in Updaters, NEW w \in Updaters PROVE CoverInv(v, w)'
    BY DEF IInv, CoverInv, Covers, Flips
  <1>5. ASSUME NEW q \in Readers PROVE StaleInv(q)'
    BY <1>0 DEF IInv, TypeOK, StaleInv, HolderInv, Holding
  <1>6. ASSUME NEW i \in 0 .. 1 PROVE InBank(i)' = InBank(i)
    BY <1>0 DEF TypeOK, InBank
  <1>7. ASSUME clean'.at # "freed", NEW i \in 0 .. 1 PROVE BankInv(i)'
    BY <1>0, <1>6, <1>7 DEF IInv, BankInv
  <1>8. ASSUME NEW w \in Updaters PROVE ScanInv(w)'
    BY <1>0 DEF IInv, CleanInv, ScanInv, Live
  <1>9. CleanInv'
    <2> DEFINE n == Cardinality(InBank(0)) + Cardinality(InBank(1))
    <2>1. PICK s, t : /\ PrefixSums(s, c, 0) /\ PrefixSums(t, c, 1)
                      /\ (clean.sum + Unread(s, t, clean.cpu - 1)) % CountMod >= n
      BY DEF IInv, CleanInv
    <2>2. /\ \A u \in Updaters : upc'[u] = "idle"
          /\ \A r \in Readers : rpc'[r] \notin {"early", "fetched"}
      BY DEF IInv, CleanInv, Live
    <2>3. c \in Counters
      BY DEF IInv, CleanInv
    <2>4. CASE clean.sum # 0
      BY <2>2, <2>3, <2>4 DEF CleanInv, Live
    <2>5. CASE clean.sum = 0
      <3>1. clean.cpu - 1 = 2 * NCpus
        BY <1>0 DEF TypeOK
      <3>2. ~(2 * NCpus < NCpus) /\ 2 * NCpus - NCpus = NCpus
        OBVIOUS
      <3>3. t[NCpus] \in Int
        BY <2>1 DEF PrefixSums
      <3>4. clean.sum + Unread(s, t, clean.cpu - 1) = 0
        <4>1. Unread(s, t, 2 * NCpus) = t[NCpus] - t[NCpus]
          BY <3>2 DEF Unread
        <4> QED
          BY <2>5, <3>1, <3>3, <4>1
      <3>5. 0 % CountMod = 0
        BY ModWrap
      <3>6. /\ Cardinality(InBank(0)) = 0 /\ IsFiniteSet(InBank(0))
            /\ Cardinality(InBank(1)) = 0 /\ IsFiniteSet(InBank(1))
        <4>1. 0 \in 0 .. 1 /\ 1 \in 0 .. 1
          OBVIOUS
        <4>2. 0 >= n
          BY <2>1, <3>4, <3>5
        <4> QED
          BY <4>1, <4>2, BankSizes
      <3>7. InBank(0) = {} /\ InBank(1) = {}
        BY <3>6, FS_EmptySet
      <3>8. \A r \in Readers : rpc[r] # "in"
        BY <3>7, <1>0 DEF InBank, TypeOK
      <3> QED
        BY <2>2, <2>5, <3>8 DEF CleanInv, Live
    <2> QED
      BY <2>4, <2>5
  <1> QED
    BY <1>1, <1>2, <1>3, <1>4, <1>5, <1>7, <1>8, <1>9 DEF IInv

-----------------------------------------------------------------------------
(* The theorems. *)

\* Nobody is counted at first.
LEMMA InitIInv == Init => IInv
  <1> SUFFICES ASSUME Init PROVE IInv
    OBVIOUS
  <1> USE ConstantFacts DEF Init
  <1>1. c \in Counters /\ 1 \in 1 .. NCpus + 1 /\ 1 \in 1 .. 2 * NCpus + 1 /\ 0 \in 0 .. CountMod - 1
    BY DEF Counters
  <1>2. completed \in 0 .. FlipMod - 1 /\ 0 \in 0 .. FlipMod - 1
    OBVIOUS
  <1>3. TypeOK
    <2>1. clean \in [at : {"live", "sum", "freed", "leaked"}, cpu : 1 .. 2 * NCpus + 1,
                     sum : 0 .. CountMod - 1]
      BY <1>1
    <2> QED
      BY <1>1, <1>2, <2>1 DEF TypeOK, Counters
  <1>4. CleanInv
    BY <1>1 DEF CleanInv, Live
  <1>5. ASSUME NEW u \in Updaters
        PROVE  /\ HolderInv(u) /\ SkipInv(u) /\ ScanInv(u)
               /\ \A v \in Updaters : CoverInv(v, u)
    BY DEF HolderInv, SkipInv, ScanInv, CoverInv, Holding, Flipped
  <1>6. ASSUME NEW r \in Readers PROVE StaleInv(r)
    BY DEF StaleInv
  <1>7. ASSUME NEW i \in 0 .. 1 PROVE BankInv(i)
    <2> DEFINE t == [p \in 0 .. NCpus |-> 0]
    <2>1. \A p \in Cpus : c[p][i] = 0 /\ p - 1 \in 0 .. NCpus /\ p \in 0 .. NCpus
      BY DEF Cpus
    <2>2. PrefixSums(t, c, i) /\ t[NCpus] = 0
      BY <2>1 DEF PrefixSums
    <2>3. 0 % CountMod = 0
      BY ModWrap
    <2>4. Cardinality(InBank(i)) = 0
      <3>1. InBank(i) = {}
        BY DEF InBank
      <3> QED
        BY <3>1, FS_EmptySet
    <2> QED
      BY <2>2, <2>3, <2>4 DEF BankInv
  <1> QED
    BY <1>3, <1>4, <1>5, <1>6, <1>7 DEF IInv

\* A step that changes nothing changes no part of the invariant.
LEMMA StutterIInv == IInv /\ UNCHANGED vars => IInv'
  <1> SUFFICES ASSUME IInv, UNCHANGED vars PROVE IInv'
    OBVIOUS
  <1>1. \A i \in 0 .. 1 : InBank(i)' = InBank(i)
    BY DEF vars, InBank
  <1>2. TypeOK' /\ \A u \in Updaters : HolderInv(u)' /\ SkipInv(u)'
    BY DEF IInv, vars, TypeOK, HolderInv, SkipInv, Flips, Inside
  <1>3. /\ \A u, v \in Updaters : CoverInv(v, u)'
        /\ \A r \in Readers : StaleInv(r)'
    BY DEF IInv, vars, CoverInv, Covers, Flips, StaleInv
  <1>4. \A u \in Updaters : ScanInv(u)'
    BY <1>1, ScanFrame DEF vars
  <1>5. CleanInv'
    BY <1>1 DEF IInv, vars, CleanInv, Live
  <1>6. clean'.at # "freed" => \A i \in 0 .. 1 : BankInv(i)'
    BY <1>1 DEF IInv, vars, BankInv
  <1> QED
    BY <1>2, <1>3, <1>4, <1>5, <1>6 DEF IInv

\* Every step preserves the invariant.
LEMMA NextIInv == IInv /\ [Next]_vars => IInv'
  <1> SUFFICES ASSUME IInv, [Next]_vars PROVE IInv'
    OBVIOUS
  <1>1. ASSUME NEW r \in Readers, Reader(r) PROVE IInv'
    BY <1>1, ReadEarlyKeeps, FetchIdxKeeps, ReadLockKeeps, ReadUnlockKeeps, ReadOutKeeps DEF Reader
  <1>2. ASSUME NEW u \in Updaters, Updater(u) PROVE IInv'
    BY <1>2, SyncCallKeeps, SyncEarlyExitKeeps, SyncLockKeeps, SyncFlipKeeps, SyncScanKeeps,
       SyncReadKeeps, SyncAgainKeeps, SyncDrainedKeeps, SyncReturnKeeps DEF Updater
  <1>3. ASSUME Cleanup PROVE IInv'
    BY <1>3, CleanCallKeeps, CleanReadKeeps, CleanFreeKeeps DEF Cleanup
  <1> QED
    BY <1>1, <1>2, <1>3, StutterIInv DEF Next

\* The inductive invariant holds in every state of every behaviour.
THEOREM IInvCorrect == Spec => []IInv
  BY InitIInv, NextIInv, PTL DEF Spec

\* The counters of a bank, summed over the CPUs, count exactly the readers in it, although
\* a reader may be counted in and out on different CPUs, the counters wrap, and nobody
\* locks (srcu_read_lock, srcu_read_unlock); and cleanup_srcu_struct() frees the counters
\* only when no reader is left that would decrement them, although it reads them one by
\* one while readers leave.
THEOREM ConsistentCorrect == Spec => []Consistent
  <1>1. IInv => Consistent
    <2> SUFFICES ASSUME IInv PROVE Consistent
      OBVIOUS
    <2>1. CountersExact
      <3> SUFFICES ASSUME c # NULL, NEW i \in 0 .. 1
                   PROVE  Total(i) % CountMod = Cardinality(InBank(i))
        BY DEF CountersExact
      <3>1. clean.at # "freed"
        BY DEF IInv, CleanInv
      <3>2. PICK t : PrefixSums(t, c, i) /\ t[NCpus] % CountMod = Cardinality(InBank(i))
        BY <3>1 DEF IInv, BankInv
      <3>3. Total(i) = t[NCpus]
        BY <3>2, TotalIsLast
      <3> QED
        BY <3>2, <3>3
    <2> QED
      BY <2>1 DEF Consistent, IInv, CleanInv, CleanupSafe
  <1> QED
    BY <1>1, IInvCorrect, PTL

\* Once the second synchronize_sched() of synchronize_srcu() is over no reader is counted
\* in the bank that it waits for, however long ago that reader read the index.
THEOREM OldBankOnlyDrainsCorrect == Spec => OldBankOnlyDrains
  <1> DEFINE Drains == \A u \in Updaters, r \in Readers :
        upc[u] \in {"sum", "sched3"} /\ rpc[r] # "in" /\ rpc'[r] = "in" => ridx[r] # uidx[u]
  <1>1. IInv /\ [Next]_vars => [Drains]_vars
    <2> SUFFICES ASSUME IInv, Next, NEW u \in Updaters, NEW r \in Readers,
                        upc[u] \in {"sum", "sched3"}, rpc[r] # "in", rpc'[r] = "in"
                 PROVE  ridx[r] # uidx[u]
      OBVIOUS
    <2>1. rpc[r] = "fetched"
      <3>0. rpc \in [Readers -> {"out", "early", "fetched", "in", "late"}]
        BY DEF IInv, TypeOK
      <3>1. ASSUME NEW v \in Updaters, Updater(v) PROVE rpc' = rpc
        BY <3>1 DEF Updater, SyncCall, SyncEarlyExit, EarlyExit, SyncLock, SyncFlip, SyncScan,
                    SyncRead, SyncAgain, SyncDrained, SyncReturn
      <3>2. ASSUME Cleanup PROVE rpc' = rpc
        BY <3>2 DEF Cleanup, CleanCall, CleanRead, CleanFree
      <3>3. ASSUME NEW q \in Readers, Reader(q) PROVE rpc[r] = "fetched"
        BY <3>0, <3>3 DEF Reader, ReadEarly, FetchIdx, ReadLock, ReadUnlock, CountOut, ReadOut
      <3> QED
        BY <3>1, <3>2, <3>3 DEF Next
    <2>2. uidx[u] = 1 - (completed % 2) /\ completed % 2 \in 0 .. 1
      BY FlipFacts DEF IInv, HolderInv, Flipped
    <2>3. ASSUME ridx[r] # completed % 2 PROVE FALSE
      <3>1. PICK v \in Updaters : upc[v] = "sched2" \/ (upc[v] = "sum" /\ rpc[r] = "in")
        BY <2>1, <2>3 DEF IInv, StaleInv
      <3>2. v = u
        BY <2>1, <3>1, OneHolder DEF Holding
      <3> QED
        BY <2>1, <3>1, <3>2
    <2> QED
      BY <2>2, <2>3
  <1> QED
    BY <1>1, IInvCorrect, PTL DEF Spec, OldBankOnlyDrains

-----------------------------------------------------------------------------
(* Srcu implements GracePeriod. *)

\* A call that returns has nothing left to wait for: by the early exit, because two
\* advances of completed since the call include a whole grace period, ...
LEMMA EarlyExitIsReturn ==
    ASSUME IInv, NEW u \in Updaters, SyncEarlyExit(u)
    PROVE  GP!Return(u)
  <1>1. upc[u] = "lock" /\ mutex = NULL /\ before' = [before EXCEPT ![u] = NULL] /\ rpc' = rpc
    BY DEF SyncEarlyExit, EarlyExit, At, Release
  <1>2. Flips(u) >= 2
    <2> DEFINE d == (completed - uidx[u]) % FlipMod
    <2>1. d \in Int /\ FlipMod \in Nat \ {0}
      <3>1. FlipMod \in Nat \ {0} /\ completed - uidx[u] \in Int
        BY FlipFacts DEF IInv, TypeOK
      <3> QED
        BY <3>1, ModDef
    <2>2. (IF d < FlipMod \div 2 THEN d ELSE d - FlipMod) >= 2
      BY DEF SyncEarlyExit, EarlyExit, Advances
    <2> HIDE DEF d
    <2>3. d >= 2
      BY <2>1, <2>2
    <2> QED
      BY <2>3 DEF d, Flips
  <1>3. \A v \in Updaters : upc[v] \notin Flipped
    BY <1>1, ConstantFacts DEF IInv, HolderInv, Holding, Flipped
  <1>4. before[u] = {}
    BY <1>1, <1>2, <1>3 DEF IInv, SkipInv
  <1> QED
    BY <1>1, <1>4 DEF GP!Return, Inside

\* ... or by its own grace period, whose last synchronize_sched() has waited for who was
\* about to leave.
LEMMA ReturnIsReturn ==
    ASSUME IInv, NEW u \in Updaters, SyncReturn(u)
    PROVE  GP!Return(u)
  <1>1. /\ upc[u] = "sched3" /\ quiet[u] = {} /\ before' = [before EXCEPT ![u] = NULL]
        /\ rpc' = rpc
    BY DEF SyncReturn, SchedDone, At, Release
  <1>2. \A r \in before[u] : r \in quiet[u]
    BY <1>1 DEF IInv, CoverInv, Covers, Holding
  <1>3. before[u] \in SUBSET Readers
    BY <1>1 DEF IInv, HolderInv
  <1>4. before[u] = {}
    BY <1>1, <1>2, <1>3
  <1> QED
    BY <1>1, <1>4 DEF GP!Return, Inside

\* Every step is a step of GracePeriod or changes nothing that it sees.
LEMMA StepRefines == IInv /\ [Next]_vars => [GP!GNext]_GP!gvars
  <1> SUFFICES ASSUME IInv, [Next]_vars
               PROVE  \/ \E r \in Readers : GP!Enter(r) \/ GP!Leave(r)
                      \/ \E u \in Updaters : GP!Call(u) \/ GP!Return(u)
                      \/ Inside' = Inside /\ before' = before
    BY DEF GP!GNext, GP!gvars
  <1>0. TypeOK
    BY DEF IInv
  <1>1. ASSUME NEW r \in Readers, ReadEarly(r) PROVE GP!Enter(r)
    BY <1>0, <1>1 DEF TypeOK, ReadEarly, GP!Enter, Inside
  <1>2. ASSUME NEW r \in Readers, ReadOut(r) PROVE GP!Leave(r)
    BY <1>0, <1>2 DEF TypeOK, ReadOut, GP!Leave, Inside
  <1>3. ASSUME NEW r \in Readers, NEW p \in Cpus,
               FetchIdx(r) \/ ReadLock(r, p) \/ ReadUnlock(r, p)
        PROVE  Inside' = Inside /\ before' = before
    BY <1>0, <1>3 DEF TypeOK, FetchIdx, ReadLock, ReadUnlock, CountOut, Inside
  <1>4. ASSUME NEW u \in Updaters, SyncCall(u) PROVE GP!Call(u)
    BY <1>4 DEF IInv, HolderInv, SyncCall, At, GP!Call, Inside
  <1>5. ASSUME NEW u \in Updaters,
               \/ SyncLock(u) \/ SyncFlip(u) \/ SyncScan(u)
               \/ SyncRead(u) \/ SyncAgain(u) \/ SyncDrained(u)
        PROVE  Inside' = Inside /\ before' = before
    BY <1>5 DEF SyncLock, SyncFlip, SyncScan, SyncRead, SyncAgain, SyncDrained, Inside
  <1>6. ASSUME Cleanup PROVE Inside' = Inside /\ before' = before
    BY <1>6 DEF Cleanup, CleanCall, CleanRead, CleanFree, Inside
  <1>7. ASSUME UNCHANGED vars PROVE Inside' = Inside /\ before' = before
    BY <1>7 DEF vars, Inside
  <1>8. ASSUME NEW r \in Readers, Reader(r)
        PROVE  GP!Enter(r) \/ GP!Leave(r) \/ (Inside' = Inside /\ before' = before)
    <2>1. 1 \in Cpus
      BY ConstantFacts DEF Cpus
    <2> QED
      BY <1>1, <1>2, <1>3, <1>8, <2>1 DEF Reader
  <1>9. ASSUME NEW u \in Updaters, Updater(u)
        PROVE  GP!Call(u) \/ GP!Return(u) \/ (Inside' = Inside /\ before' = before)
    BY <1>4, <1>5, <1>9, EarlyExitIsReturn, ReturnIsReturn DEF Updater
  <1> QED
    BY <1>6, <1>7, <1>8, <1>9 DEF Next

\* synchronize_srcu() returns only when every section that had begun before it was called
\* has ended, for any number of readers, updaters and CPUs, although accesses move out of
\* the sections at both ends, completed wraps, and a call that finds two advances returns
\* without waiting.
THEOREM RefinesGracePeriodCorrect == Spec => RefinesGracePeriod
  <1>1. Init => GP!GInit
    BY DEF Init, GP!GInit, Inside
  <1> QED
    BY <1>1, IInvCorrect, StepRefines, PTL DEF Spec, RefinesGracePeriod, GP!GSpec
=============================================================================
