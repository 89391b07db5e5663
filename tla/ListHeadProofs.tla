--------------------------- MODULE ListHeadProofs ---------------------------
(***************************************************************************)
(* What the list operations keep and change, for lists of any length.      *)
(***************************************************************************)
EXTENDS ListHead, TLAPS

\* list_add_tail() adds exactly one entry and never links one twice.
LEMMA ListAddTailFacts ==
    ASSUME NEW S, NEW l \in Seq(S), NEW x \in S
    PROVE  /\ ListAddTail(x, l) \in Seq(S)
           /\ Entries(ListAddTail(x, l)) = Entries(l) \cup {x}
           /\ ListAddTail(x, l) # <<>>
           /\ NoDuplicates(l) /\ x \notin Entries(l) => NoDuplicates(ListAddTail(x, l))
  <1> DEFINE m == Append(l, x)
  <1>1. /\ m \in Seq(S) /\ Len(m) = Len(l) + 1
        /\ \A i \in 1..Len(l) : m[i] = l[i]
        /\ m[Len(l) + 1] = x /\ m # <<>>
    OBVIOUS
  <1>2. Len(l) \in Nat
    OBVIOUS
  <1> HIDE DEF m
  <1>3. Entries(m) = Entries(l) \cup {x}
    <2>1. ASSUME NEW y \in Entries(m) PROVE y \in Entries(l) \cup {x}
      <3>1. PICK i \in 1..(Len(l) + 1) : y = m[i]
        BY <1>1 DEF Entries
      <3>2. i \in 1..Len(l) \/ i = Len(l) + 1
        BY <1>2
      <3> QED
        BY <3>1, <3>2, <1>1 DEF Entries
    <2>2. ASSUME NEW i \in 1..Len(l) PROVE l[i] \in Entries(m)
      <3>1. i \in 1..Len(m) /\ m[i] = l[i]
        BY <1>1, <1>2
      <3> QED
        BY <3>1 DEF Entries
    <2>3. x \in Entries(m)
      BY <1>1, <1>2 DEF Entries
    <2> QED
      BY <2>1, <2>2, <2>3 DEF Entries
  <1>4. ASSUME NoDuplicates(l), x \notin Entries(l)
        PROVE  NoDuplicates(m)
    <2> SUFFICES ASSUME NEW i \in 1..(Len(l) + 1), NEW j \in 1..(Len(l) + 1), m[i] = m[j]
                 PROVE  i = j
      BY <1>1 DEF NoDuplicates
    <2>1. \A k \in 1..Len(l) : l[k] # x
      BY <1>4 DEF Entries
    <2> QED
      BY <2>1, <1>1, <1>2, <1>4 DEF NoDuplicates
  <1> QED
    BY <1>1, <1>3, <1>4 DEF m, ListAddTail

\* list_add_tail() links one entry more.
LEMMA EntriesAddTail ==
    ASSUME NEW S, NEW l \in Seq(S), NEW x \in S
    PROVE  Entries(ListAddTail(x, l)) = Entries(l) \cup {x}
  BY ListAddTailFacts

\* Unlinking the first entry of a list that links no entry twice.
LEMMA TailFacts ==
    ASSUME NEW S, NEW l \in Seq(S), l # <<>>, NoDuplicates(l)
    PROVE  /\ Head(l) \in Entries(l) /\ Head(l) \in S
           /\ Tail(l) \in Seq(S)
           /\ Entries(Tail(l)) = Entries(l) \ {Head(l)}
           /\ NoDuplicates(Tail(l))
  <1> DEFINE m == Tail(l)
  <1>1. /\ m \in Seq(S) /\ Len(m) = Len(l) - 1 /\ Len(l) \in Nat \ {0}
        /\ \A i \in 1..(Len(l) - 1) : m[i] = l[i + 1]
        /\ Head(l) = l[1] /\ Head(l) \in S
    OBVIOUS
  <1> HIDE DEF m
  <1>2. Head(l) \in Entries(l)
    BY <1>1 DEF Entries
  <1>3. \A k \in 2..Len(l) : l[k] # l[1]
    BY <1>1 DEF NoDuplicates
  <1>4. Entries(m) = Entries(l) \ {Head(l)}
    <2>1. ASSUME NEW i \in 1..(Len(l) - 1) PROVE m[i] \in Entries(l) \ {l[1]}
      <3>1. i + 1 \in 2..Len(l) /\ m[i] = l[i + 1]
        BY <1>1
      <3>2. i + 1 \in 1..Len(l)
        BY <1>1
      <3> QED
        BY <3>1, <3>2, <1>3 DEF Entries
    <2>2. ASSUME NEW k \in 1..Len(l), l[k] # l[1] PROVE l[k] \in Entries(m)
      <3>1. k - 1 \in 1..Len(m) /\ m[k - 1] = l[k]
        BY <1>1, <2>2
      <3> QED
        BY <3>1 DEF Entries
    <2> QED
      BY SMTT(20), <2>1, <2>2, <1>1 DEF Entries
  <1>5. NoDuplicates(m)
    <2> SUFFICES ASSUME NEW i \in 1..(Len(l) - 1), NEW j \in 1..(Len(l) - 1), m[i] = m[j]
                 PROVE  i = j
      BY <1>1 DEF NoDuplicates
    <2>1. /\ i + 1 \in 1..Len(l) /\ j + 1 \in 1..Len(l)
          /\ l[i + 1] = l[j + 1]
      BY <1>1
    <2>2. i + 1 = j + 1
      BY <2>1 DEF NoDuplicates
    <2> QED
      BY <2>2
  <1> QED
    BY <1>1, <1>2, <1>4, <1>5 DEF m

\* list_del() removes exactly the entry it is given.
LEMMA ListDelFacts ==
    ASSUME NEW S, NEW l \in Seq(S), NEW x \in Entries(l), NoDuplicates(l)
    PROVE  /\ ListDel(x, l) \in Seq(S)
           /\ Entries(ListDel(x, l)) = Entries(l) \ {x}
           /\ NoDuplicates(ListDel(x, l))
  <1> DEFINE p == Position(l, x)
             n == Len(l)
             m == [i \in 1..(n - 1) |-> IF i < p THEN l[i] ELSE l[i + 1]]
  <1>1. n \in Nat
    OBVIOUS
  <1>2. p \in 1..n /\ l[p] = x
    BY DEF Entries, Position
  <1>3. \A i \in 1..n : l[i] \in S
    OBVIOUS
  <1>4. \A i, j \in 1..n : l[i] = l[j] => i = j
    BY DEF NoDuplicates
  <1>5. Entries(l) = {l[i] : i \in 1..n}
    BY DEF Entries
  <1>6. ListDel(x, l) = m
    BY DEF ListDel
  <1> HIDE DEF p, n
  <1>7. \A i \in 1..(n - 1) : m[i] \in S
    BY <1>1, <1>2, <1>3
  <1>8. m \in Seq(S) /\ Len(m) = n - 1
    BY <1>1, <1>2, <1>7
  <1>9. /\ \A i \in 1..(n - 1) : i < p => m[i] = l[i]
        /\ \A i \in 1..(n - 1) : i >= p => m[i] = l[i + 1]
    BY <1>1, <1>2
  <1> HIDE DEF m
  <1>10. Entries(m) = Entries(l) \ {x}
    <2>1. ASSUME NEW i \in 1..(n - 1) PROVE m[i] \in Entries(l) \ {x}
      <3>1. CASE i < p
        BY <3>1, <1>1, <1>2, <1>4, <1>5, <1>9
      <3>2. CASE i >= p
        <4>1. i + 1 \in 1..n /\ i + 1 # p /\ m[i] = l[i + 1]
          BY <3>2, <1>1, <1>2, <1>9
        <4> QED
          BY <4>1, <1>2, <1>4, <1>5
      <3> QED
        BY <3>1, <3>2, <1>1, <1>2
    <2>2. ASSUME NEW k \in 1..n, l[k] # x PROVE l[k] \in Entries(m)
      <3>1. CASE k < p
        <4>1. k \in 1..Len(m) /\ m[k] = l[k]
          BY <3>1, <1>1, <1>2, <1>8, <1>9
        <4> QED
          BY <4>1 DEF Entries
      <3>2. CASE k > p
        <4>1. k - 1 \in 1..Len(m) /\ m[k - 1] = l[k]
          BY <3>2, <1>1, <1>2, <1>8, <1>9
        <4> QED
          BY <4>1 DEF Entries
      <3> QED
        BY <3>1, <3>2, <2>2, <1>1, <1>2
    <2> QED
      BY <2>1, <2>2, <1>5, <1>8 DEF Entries
  <1>11. NoDuplicates(m)
    <2> SUFFICES ASSUME NEW i \in 1..(n - 1), NEW j \in 1..(n - 1), m[i] = m[j]
                 PROVE  i = j
      BY <1>8 DEF NoDuplicates
    <2> DEFINE src(k) == IF k < p THEN k ELSE k + 1
    <2>1. /\ src(i) \in 1..n /\ m[i] = l[src(i)]
          /\ src(j) \in 1..n /\ m[j] = l[src(j)]
      BY <1>1, <1>2, <1>9
    <2>2. src(i) = src(j)
      BY <2>1, <1>4
    <2> QED
      BY <2>2, <1>1, <1>2
  <1> QED
    BY <1>6, <1>8, <1>10, <1>11

\* list_add() adds exactly one entry, in front.
LEMMA ListAddFacts ==
    ASSUME NEW S, NEW l \in Seq(S), NEW x \in S
    PROVE  /\ ListAdd(x, l) \in Seq(S) /\ ListAdd(x, l) # <<>>
           /\ Head(ListAdd(x, l)) = x /\ Tail(ListAdd(x, l)) = l
           /\ Entries(ListAdd(x, l)) = Entries(l) \cup {x}
           /\ NoDuplicates(l) /\ x \notin Entries(l) => NoDuplicates(ListAdd(x, l))
  <1> DEFINE m == <<x>> \o l
  <1>1. /\ m \in Seq(S) /\ Len(m) = Len(l) + 1
        /\ m[1] = x /\ \A i \in 1..Len(l) : m[i + 1] = l[i]
    OBVIOUS
  <1>2. Len(l) \in Nat
    OBVIOUS
  <1>3. Head(m) = x /\ Tail(m) = l /\ m # <<>>
    OBVIOUS
  <1> HIDE DEF m
  <1>4. \A j \in 1..Len(m) : j = 1 \/ (j - 1 \in 1..Len(l) /\ m[j] = l[j - 1])
    <2> SUFFICES ASSUME NEW j \in 1..Len(m), j # 1
                 PROVE  j - 1 \in 1..Len(l) /\ m[j] = l[j - 1]
      OBVIOUS
    <2>1. j - 1 \in 1..Len(l) /\ (j - 1) + 1 = j
      BY <1>1, <1>2
    <2>2. m[(j - 1) + 1] = l[j - 1]
      BY <1>1, <2>1
    <2> QED
      BY <2>1, <2>2
  <1>5. Entries(m) = Entries(l) \cup {x}
    <2>1. ASSUME NEW j \in 1..Len(m) PROVE m[j] \in Entries(l) \cup {x}
      BY <1>1, <1>4 DEF Entries
    <2>2. ASSUME NEW i \in 1..Len(l) PROVE l[i] \in Entries(m)
      <3>1. i + 1 \in 1..Len(m) /\ m[i + 1] = l[i]
        BY <1>1, <1>2
      <3> QED
        BY <3>1 DEF Entries
    <2>3. x \in Entries(m)
      BY <1>1, <1>2 DEF Entries
    <2> QED
      BY <2>1, <2>2, <2>3 DEF Entries
  <1>6. ASSUME NoDuplicates(l), x \notin Entries(l)
        PROVE  NoDuplicates(m)
    <2> SUFFICES ASSUME NEW i \in 1..Len(m), NEW j \in 1..Len(m), m[i] = m[j]
                 PROVE  i = j
      BY DEF NoDuplicates
    <2>1. \A k \in 1..Len(l) : l[k] # x
      BY <1>6 DEF Entries
    <2>2. CASE i = 1 \/ j = 1
      BY <2>1, <2>2, <1>1, <1>4
    <2>3. CASE i # 1 /\ j # 1
      <3>1. i - 1 \in 1..Len(l) /\ j - 1 \in 1..Len(l) /\ l[i - 1] = l[j - 1]
        BY <2>3, <1>4
      <3>2. i - 1 = j - 1
        BY <3>1, <1>6 DEF NoDuplicates
      <3> QED
        BY <3>2
    <2> QED
      BY <2>2, <2>3
  <1> QED
    BY <1>1, <1>3, <1>5, <1>6 DEF m, ListAdd

-----------------------------------------------------------------------------
(* The order of a list. *)

\* y is linked before x.
Ahead(l, y, x) == \E i, j \in 1..Len(l) : i < j /\ l[i] = y /\ l[j] = x

\* Both are on the list then, and x is not the first.
LEMMA AheadLinked ==
    ASSUME NEW S, NEW l \in Seq(S), NEW y, NEW x, Ahead(l, y, x)
    PROVE  /\ y \in Entries(l) /\ x \in Entries(l) /\ l # <<>>
           /\ NoDuplicates(l) => x # Head(l)
  <1>1. PICK i, j \in 1..Len(l) : i < j /\ l[i] = y /\ l[j] = x
    BY DEF Ahead
  <1>2. Len(l) \in Nat /\ 1 \in 1..Len(l) /\ j # 1 /\ Head(l) = l[1]
    BY <1>1
  <1> QED
    BY <1>1, <1>2 DEF Entries, NoDuplicates

\* Whoever is linked is ahead of what is added at the tail; the others keep their order.
LEMMA AheadAddTail ==
    ASSUME NEW S, NEW l \in Seq(S), NEW z \in S, NEW y, NEW x
    PROVE  /\ Ahead(l, y, x) => Ahead(ListAddTail(z, l), y, x)
           /\ y \in Entries(l) => Ahead(ListAddTail(z, l), y, z)
  <1> DEFINE m == Append(l, z)
  <1>1. /\ Len(m) = Len(l) + 1 /\ Len(l) \in Nat
        /\ \A i \in 1..Len(l) : m[i] = l[i]
        /\ m[Len(l) + 1] = z
    OBVIOUS
  <1> HIDE DEF m
  <1>2. /\ \A i \in 1..Len(l) : i \in 1..Len(m) /\ i < Len(l) + 1
        /\ Len(l) + 1 \in 1..Len(m)
    BY <1>1
  <1>3. Ahead(l, y, x) => Ahead(m, y, x)
    BY <1>1, <1>2 DEF Ahead
  <1>4. y \in Entries(l) => Ahead(m, y, z)
    BY <1>1, <1>2 DEF Ahead, Entries
  <1> QED
    BY <1>3, <1>4 DEF m, ListAddTail

\* So they do when something is added in front, ...
LEMMA AheadAdd ==
    ASSUME NEW S, NEW l \in Seq(S), NEW z \in S, NEW y, NEW x, Ahead(l, y, x)
    PROVE  Ahead(ListAdd(z, l), y, x)
  <1> DEFINE m == <<z>> \o l
  <1>1. /\ Len(m) = Len(l) + 1 /\ Len(l) \in Nat
        /\ \A i \in 1..Len(l) : m[i + 1] = l[i]
    OBVIOUS
  <1> HIDE DEF m
  <1>2. PICK i, j \in 1..Len(l) : i < j /\ l[i] = y /\ l[j] = x
    BY DEF Ahead
  <1>3. /\ i + 1 \in 1..Len(m) /\ j + 1 \in 1..Len(m) /\ i + 1 < j + 1
        /\ m[i + 1] = y /\ m[j + 1] = x
    BY <1>1, <1>2
  <1>4. Ahead(m, y, x)
    BY <1>3 DEF Ahead
  <1> QED
    BY <1>4 DEF m, ListAdd

\* ... when the first is taken, unless it is y, ...
LEMMA AheadTail ==
    ASSUME NEW S, NEW l \in Seq(S), NEW y, NEW x, Ahead(l, y, x), y # Head(l)
    PROVE  Ahead(Tail(l), y, x)
  <1>1. PICK i, j \in 1..Len(l) : i < j /\ l[i] = y /\ l[j] = x
    BY DEF Ahead
  <1> DEFINE m == Tail(l)
  <1>2. /\ Len(l) \in Nat \ {0} /\ Len(m) = Len(l) - 1 /\ Head(l) = l[1]
        /\ \A k \in 1..(Len(l) - 1) : m[k] = l[k + 1]
    BY <1>1
  <1> HIDE DEF m
  <1>3. i # 1
    BY <1>1, <1>2
  <1>4. i - 1 \in 1..Len(m) /\ j - 1 \in 1..Len(m) /\ i - 1 < j - 1
    BY <1>1, <1>2, <1>3
  <1>5. m[i - 1] = y /\ m[j - 1] = x
    <2>1. m[i - 1] = l[(i - 1) + 1] /\ m[j - 1] = l[(j - 1) + 1]
      BY <1>2, <1>4
    <2>2. (i - 1) + 1 = i /\ (j - 1) + 1 = j
      OBVIOUS
    <2> QED
      BY <1>1, <2>1, <2>2
  <1>6. Ahead(m, y, x)
    BY <1>4, <1>5 DEF Ahead
  <1> QED
    BY <1>6 DEF m

\* ... and when another entry is unlinked.
LEMMA AheadDel ==
    ASSUME NEW S, NEW l \in Seq(S), NEW z \in Entries(l), NEW y, NEW x,
           Ahead(l, y, x), y # z, x # z
    PROVE  Ahead(ListDel(z, l), y, x)
  <1>1. PICK i, j \in 1..Len(l) : i < j /\ l[i] = y /\ l[j] = x
    BY DEF Ahead
  <1> DEFINE p == Position(l, z)
             n == Len(l)
             m == [k \in 1..(n - 1) |-> IF k < p THEN l[k] ELSE l[k + 1]]
             to(k) == IF k < p THEN k ELSE k - 1
  <1>2. n \in Nat /\ p \in 1..n /\ l[p] = z
    BY DEF Entries, Position
  <1>3. i # p /\ j # p
    BY <1>1, <1>2
  <1>4. Len(m) = n - 1
    BY <1>2
  <1>5. ListDel(z, l) = m
    BY DEF ListDel
  <1> HIDE DEF p, n
  <1>6. i \in 1..n /\ j \in 1..n
    BY DEF n
  <1>7. to(i) \in 1..(n - 1) /\ to(j) \in 1..(n - 1) /\ to(i) < to(j)
    BY <1>1, <1>2, <1>3, <1>6
  <1>8. m[to(i)] = l[i] /\ m[to(j)] = l[j]
    BY <1>2, <1>3, <1>6, <1>7
  <1> HIDE DEF m, to
  <1>9. Ahead(m, y, x)
    BY <1>1, <1>4, <1>7, <1>8 DEF Ahead
  <1> QED
    BY <1>5, <1>9
=============================================================================
