----------------------------- MODULE SequenceFacts -----------------------------
(***************************************************************************)
(* Facts about sets of numbers and about sequences, selected from, put     *)
(* into, removed from, folded and put one after another, that the proofs   *)
(* of several components share.                                            *)
(***************************************************************************)
EXTENDS Selections, SequencesExt, FiniteSetTheorems, WellFoundedInduction, TLAPS

\* What a fold makes of what it has and of the next element. A module that needs the facts on
\* a fold takes an instance of this one with the step of that fold.
CONSTANT FoldStep(_, _)

\* Every set of numbers has a least one.
LEMMA LeastExists ==
  ASSUME NEW T \in SUBSET Nat, T # {}
  PROVE  \E x \in T : \A y \in T : x <= y
<1> DEFINE R == OpToRel(<, Nat)
<1>1. R = {ss \in Nat \X Nat : ss[1] < ss[2]}
  BY DEF OpToRel
<1>2. IsWellFoundedOn(R, Nat)
  BY NatLessThanWellFounded
<1> HIDE DEF R
<1>3. PICK x \in T : \A y \in T : ~(<<y, x>> \in R)
  BY <1>2, WFMin
<1>4. ASSUME NEW y \in T PROVE x <= y
  <2>1. x \in Nat /\ y \in Nat
    OBVIOUS
  <2>2. y < x => <<y, x>> \in R
    BY <1>1, <2>1
  <2>3. QED
    BY <1>3, <2>1, <2>2
<1>5. QED
  BY <1>4

\* Every bounded set of numbers has a greatest one.
LEMMA GreatestExists ==
  ASSUME NEW S \in SUBSET Nat, S # {}, NEW n \in Nat, \A x \in S : x <= n
  PROVE  \E x \in S : \A y \in S : y <= x
<1> DEFINE T == {n - x : x \in S}
<1>1. T \in SUBSET Nat /\ T # {}
  OBVIOUS
<1>2. PICK t \in T : \A y \in T : t <= y
  BY <1>1, LeastExists
<1>3. PICK x \in S : t = n - x
  OBVIOUS
<1>4. ASSUME NEW y \in S PROVE y <= x
  <2>1. n - y \in T
    OBVIOUS
  <2>2. QED
    BY <1>2, <1>3, <2>1
<1>5. QED
  BY <1>4

\* What holds of 0 and passes from each number to the next holds up to n.
LEMMA CountingUp ==
  ASSUME NEW n \in Nat, NEW G, 0 \in G, \A k \in 0..(n - 1) : k \in G => k + 1 \in G
  PROVE  0..n \subseteq G
<1>1. SUFFICES ASSUME (0..n) \ G # {} PROVE FALSE
  OBVIOUS
<1>2. PICK m \in (0..n) \ G : \A k \in (0..n) \ G : m <= k
  <2>1. (0..n) \ G \in SUBSET Nat
    OBVIOUS
  <2>2. QED
    BY <1>1, <2>1, LeastExists
<1>3. m # 0 /\ m \in 0..n
  BY <1>2
<1>4. m - 1 \in 0..(n - 1) /\ m - 1 \in 0..n /\ m - 1 + 1 = m
  BY <1>3
<1>5. m - 1 \in G
  BY <1>2, <1>4
<1>6. QED
  BY <1>2, <1>4, <1>5

\* Numbers ranked by how many of them are no greater: every rank is taken once, in order.
LEMMA Ranks ==
  ASSUME NEW n \in Nat, NEW kept \in SUBSET (1..n)
  PROVE  /\ IsFiniteSet(kept) /\ Cardinality(kept) \in Nat
         /\ \A i \in kept : Cardinality({j \in kept : j <= i}) \in 1..Cardinality(kept)
         /\ \A i, k \in kept :
              i < k => Cardinality({j \in kept : j <= i}) < Cardinality({j \in kept : j <= k})
         /\ \A r \in 1..Cardinality(kept) : \E i \in kept : Cardinality({j \in kept : j <= i}) = r
<1> DEFINE upTo(i) == {j \in kept : j <= i}
           rank == [i \in kept |-> Cardinality(upTo(i))]
<1>1. IsFiniteSet(kept) /\ Cardinality(kept) \in Nat
  <2>1. IsFiniteSet(1..n)
    BY FS_Interval
  <2>2. IsFiniteSet(kept)
    BY <2>1, FS_Subset
  <2>3. QED
    BY <2>2, FS_CardinalityType
<1>2. \A i \in kept : IsFiniteSet(upTo(i)) /\ Cardinality(upTo(i)) \in Nat
  BY <1>1, FS_Subset, FS_CardinalityType
<1>3. ASSUME NEW i \in kept PROVE Cardinality(upTo(i)) \in 1..Cardinality(kept)
  <2>1. Cardinality(upTo(i)) <= Cardinality(kept)
    BY <1>1, FS_Subset
  <2>2. upTo(i) # {}
    OBVIOUS
  <2>3. Cardinality(upTo(i)) # 0
    BY <1>2, <2>2, FS_EmptySet
  <2>4. QED
    BY <1>1, <1>2, <2>1, <2>3
<1>4. ASSUME NEW i \in kept, NEW k \in kept, i < k PROVE Cardinality(upTo(i)) < Cardinality(upTo(k))
  <2>1. upTo(i) \in SUBSET upTo(k) /\ k \in upTo(k) /\ k \notin upTo(i)
    <3>1. i \in Int /\ k \in Int /\ kept \subseteq Int
      OBVIOUS
    <3>2. \A j \in upTo(i) : j \in upTo(k)
      BY <1>4, <3>1
    <3>3. k \in upTo(k) /\ k \notin upTo(i)
      BY <1>4, <3>1
    <3>4. QED
      BY <3>2, <3>3
  <2>2. Cardinality(upTo(i)) <= Cardinality(upTo(k)) /\ Cardinality(upTo(i)) # Cardinality(upTo(k))
    BY <1>2, <2>1, FS_Subset
  <2>3. QED
    BY <1>2, <2>2
<1>5. rank \in Injection(kept, 1..Cardinality(kept))
  <2>1. rank \in [kept -> 1..Cardinality(kept)]
    BY <1>3
  <2>2. ASSUME NEW i \in kept, NEW k \in kept, rank[i] = rank[k] PROVE i = k
    <3>1. i \in Int /\ k \in Int /\ rank[i] \in Int /\ rank[k] \in Int
      BY <2>1
    <3>2. i < k => rank[i] < rank[k]
      BY <1>4
    <3>3. k < i => rank[k] < rank[i]
      BY <1>4
    <3>4. QED
      BY <2>2, <3>1, <3>2, <3>3
  <2>3. QED
    BY <2>1, <2>2 DEF Injection, IsInjective
<1>6. rank \in Surjection(kept, 1..Cardinality(kept))
  <2>1. IsFiniteSet(1..Cardinality(kept)) /\ Cardinality(1..Cardinality(kept)) = Cardinality(kept)
    BY <1>1, FS_Interval
  <2>2. QED
    BY <1>5, <2>1, FS_Injection
<1>7. ASSUME NEW r \in 1..Cardinality(kept) PROVE \E i \in kept : Cardinality(upTo(i)) = r
  BY <1>6, <1>7 DEF Surjection
<1>8. QED
  BY <1>1, <1>3, <1>4, <1>7

\* A selection is the selected positions, in order: all of them and no other.
SelectedAt(at, s, T) ==
  /\ at \in [1..Len(OnlyIn(s, T)) -> 1..Len(s)]
  /\ \A n \in 1..Len(OnlyIn(s, T)) : s[at[n]] \in T /\ OnlyIn(s, T)[n] = s[at[n]]
  /\ \A m, n \in 1..Len(OnlyIn(s, T)) : m < n => at[m] < at[n]
  /\ \A i \in 1..Len(s) : s[i] \in T => \E n \in 1..Len(OnlyIn(s, T)) : at[n] = i

LEMMA OnlyInPlaces ==
  ASSUME NEW S, NEW s \in Seq(S), NEW T
  PROVE  OnlyIn(s, T) \in Seq(S \cap T) /\ \E at : SelectedAt(at, s, T)
<1> DEFINE kept == {i \in DOMAIN s : s[i] \in T}
           upTo(i) == {j \in kept : j <= i}
           c == Cardinality(kept)
           at == [n \in 1..c |-> CHOOSE i \in kept : Cardinality(upTo(i)) = n]
<1>1. Len(s) \in Nat /\ DOMAIN s = 1..Len(s) /\ kept \in SUBSET (1..Len(s))
  OBVIOUS
<1>2. /\ c \in Nat
      /\ \A i \in kept : Cardinality(upTo(i)) \in 1..c
      /\ \A i, k \in kept : i < k => Cardinality(upTo(i)) < Cardinality(upTo(k))
      /\ \A n \in 1..c : \E i \in kept : Cardinality(upTo(i)) = n
  BY <1>1, Ranks
<1>3. \A n \in 1..c : at[n] \in kept /\ Cardinality(upTo(at[n])) = n
  BY <1>2
<1>4. OnlyIn(s, T) = [n \in 1..c |-> s[at[n]]]
  BY DEF OnlyIn
<1> HIDE DEF c, at, upTo
<1>5. \A n \in 1..c : s[at[n]] \in S \cap T
  BY <1>1, <1>3
<1>6. OnlyIn(s, T) \in Seq(S \cap T) /\ Len(OnlyIn(s, T)) = c
  BY <1>2, <1>4, <1>5
<1>7. \A m, n \in 1..c : m < n => at[m] < at[n]
  <2> SUFFICES ASSUME NEW m \in 1..c, NEW n \in 1..c, m < n PROVE at[m] < at[n]
    OBVIOUS
  <2>1. at[m] \in Int /\ at[n] \in Int
    BY <1>1, <1>3
  <2>2. at[n] < at[m] => n < m
    BY <1>2, <1>3
  <2>3. at[n] # at[m]
    BY <1>2, <1>3
  <2>4. QED
    BY <1>2, <2>1, <2>2, <2>3
<1>8. ASSUME NEW i \in 1..Len(s), s[i] \in T PROVE \E n \in 1..c : at[n] = i
  <2>1. i \in kept /\ Cardinality(upTo(i)) \in 1..c
    BY <1>1, <1>2, <1>8
  <2>2. PICK n \in 1..c : n = Cardinality(upTo(i))
    BY <2>1
  <2>3. at[n] \in kept /\ Cardinality(upTo(at[n])) = Cardinality(upTo(i))
    BY <1>3, <2>2
  <2>4. at[n] \in Int /\ i \in Int
    BY <1>1, <2>3
  <2>5. ~(at[n] < i) /\ ~(i < at[n])
    BY <1>2, <2>1, <2>2, <2>3
  <2>6. QED
    BY <2>4, <2>5
<1>9. at \in [1..c -> 1..Len(s)]
  <2>1. at = [n \in 1..c |-> at[n]]
    BY DEF at
  <2>2. QED
    BY <1>1, <1>3, <2>1
<1>10. SelectedAt(at, s, T)
  BY <1>1, <1>3, <1>4, <1>6, <1>7, <1>8, <1>9 DEF SelectedAt
<1>11. QED
  BY <1>6, <1>10

\* a goes through K, n numbers, in order.
Enumerates(a, n, K) ==
  /\ n \in Nat /\ K \in SUBSET Nat
  /\ \A i \in 1..n : a[i] \in K
  /\ \A i, j \in 1..n : i < j => a[i] < a[j]
  /\ \A x \in K : \E i \in 1..n : a[i] = x

\* There is one way to go through a set of numbers in order.
LEMMA EnumerationsStart ==
  ASSUME NEW a, NEW n, NEW b, NEW m, NEW K, Enumerates(a, n, K), Enumerates(b, m, K)
  PROVE  \A i \in 1..n : i <= m /\ a[i] = b[i]
<1> DEFINE D == {i \in 1..n : ~(i <= m /\ a[i] = b[i])}
<1>1. SUFFICES ASSUME D # {} PROVE FALSE
  OBVIOUS
<1>2. n \in Nat /\ m \in Nat /\ K \in SUBSET Nat /\ D \in SUBSET Nat
  BY DEF Enumerates
<1>3. PICK d \in D : \A x \in D : d <= x
  BY <1>1, <1>2, LeastExists
<1>4. d \in 1..n /\ a[d] \in K
  BY <1>3 DEF Enumerates
<1>5. ASSUME NEW j \in 1..n, j < d PROVE j \in 1..m /\ a[j] = b[j]
  <2>1. j \notin D
    BY <1>2, <1>3, <1>4, <1>5
  <2>2. QED
    BY <1>2, <2>1
<1> HIDE DEF D
<1>6. PICK e \in 1..m : b[e] = a[d]
  BY <1>4 DEF Enumerates
<1>7. ~(e < d)
  <2>1. SUFFICES ASSUME e < d PROVE FALSE
    OBVIOUS
  <2>2. e \in 1..n
    BY <1>2, <1>4, <1>6, <2>1
  <2>3. a[e] = b[e] /\ a[e] < a[d] /\ a[e] \in Nat /\ a[d] \in Nat
    BY <1>2, <1>4, <1>5, <2>1, <2>2 DEF Enumerates
  <2>4. QED
    BY <1>6, <2>3
<1>8. d \in 1..m /\ b[d] \in K
  <2>1. d \in 1..m
    BY <1>2, <1>4, <1>6, <1>7
  <2>2. QED
    BY <2>1 DEF Enumerates
<1>9. b[d] \in Nat /\ a[d] \in Nat /\ b[d] <= a[d]
  <2>1. d < e \/ d = e
    BY <1>2, <1>4, <1>6, <1>7
  <2>2. d < e => b[d] < b[e]
    BY <1>6, <1>8 DEF Enumerates
  <2>3. b[d] \in Nat /\ a[d] \in Nat
    BY <1>2, <1>4, <1>8
  <2>4. QED
    BY <1>6, <2>1, <2>2, <2>3
<1>10. PICK f \in 1..n : a[f] = b[d]
  BY <1>8 DEF Enumerates
<1>11. ~(f < d)
  <2>1. SUFFICES ASSUME f < d PROVE FALSE
    OBVIOUS
  <2>2. f \in 1..m /\ a[f] = b[f]
    BY <1>5, <1>10, <2>1
  <2>3. b[f] < b[d]
    BY <1>8, <2>1, <2>2 DEF Enumerates
  <2>4. QED
    BY <1>9, <1>10, <2>2, <2>3
<1>12. a[d] <= b[d]
  <2>1. d < f \/ d = f
    BY <1>2, <1>4, <1>10, <1>11
  <2>2. d < f => a[d] < a[f]
    BY <1>4, <1>10 DEF Enumerates
  <2>3. QED
    BY <1>9, <1>10, <2>1, <2>2
<1>13. d <= m /\ a[d] = b[d]
  BY <1>2, <1>8, <1>9, <1>12
<1>14. QED
  BY <1>3, <1>13 DEF D

LEMMA EnumerationsAgree ==
  ASSUME NEW a, NEW n, NEW b, NEW m, NEW K, Enumerates(a, n, K), Enumerates(b, m, K)
  PROVE  n = m /\ \A i \in 1..n : a[i] = b[i]
<1>1. n \in Nat /\ m \in Nat
  BY DEF Enumerates
<1>2. \A i \in 1..n : i <= m /\ a[i] = b[i]
  BY EnumerationsStart
<1>3. \A i \in 1..m : i <= n
  BY EnumerationsStart
<1>4. n # 0 => n <= m
  BY <1>1, <1>2
<1>5. m # 0 => m <= n
  BY <1>1, <1>3
<1>6. QED
  BY <1>1, <1>2, <1>4, <1>5

KeptAt(s, T) == {i \in 1..Len(s) : s[i] \in T}

\* What goes through the selected positions in order is the selection.
LEMMA SelectionIsUnique ==
  ASSUME NEW S, NEW s \in Seq(S), NEW T, NEW Q, NEW r \in Seq(Q), NEW a,
         Enumerates(a, Len(r), KeptAt(s, T)), \A i \in 1..Len(r) : r[i] = s[a[i]]
  PROVE  OnlyIn(s, T) = r
<1> DEFINE sel == OnlyIn(s, T)
           K == KeptAt(s, T)
<1>1. sel \in Seq(S \cap T) /\ \E at : SelectedAt(at, s, T)
  BY OnlyInPlaces
<1>2. PICK at : SelectedAt(at, s, T)
  BY <1>1
<1>3. /\ at \in [1..Len(sel) -> 1..Len(s)]
      /\ \A n \in 1..Len(sel) : s[at[n]] \in T /\ sel[n] = s[at[n]]
      /\ \A m, n \in 1..Len(sel) : m < n => at[m] < at[n]
      /\ \A i \in 1..Len(s) : s[i] \in T => \E n \in 1..Len(sel) : at[n] = i
  BY <1>2 DEF SelectedAt
<1> HIDE DEF sel
<1>4. Len(sel) \in Nat /\ Len(s) \in Nat
  BY <1>1
<1>5. K \in SUBSET Nat /\ \A i : i \in K <=> i \in 1..Len(s) /\ s[i] \in T
  BY <1>4 DEF KeptAt
<1> HIDE DEF K
<1>6. Enumerates(at, Len(sel), K)
  BY <1>3, <1>4, <1>5 DEF Enumerates
<1>7. Len(sel) = Len(r) /\ \A i \in 1..Len(r) : at[i] = a[i]
  <2>1. Enumerates(a, Len(r), K)
    BY DEF K
  <2>2. QED
    BY <1>6, <2>1, EnumerationsAgree
<1>8. \A i \in 1..Len(sel) : sel[i] = r[i]
  BY <1>3, <1>7
<1>9. sel \in Seq(S \cap T) /\ r \in Seq(Q) /\ Len(sel) = Len(r)
  BY <1>1, <1>7
<1>10. sel = [i \in 1..Len(sel) |-> sel[i]] /\ r = [i \in 1..Len(r) |-> r[i]]
  BY <1>9
<1>11. sel = r
  BY <1>8, <1>9, <1>10
<1>12. QED
  BY <1>11 DEF sel

\* A selection has its places.
LEMMA SelectionEnumerates ==
  ASSUME NEW S, NEW s \in Seq(S), NEW T
  PROVE  /\ OnlyIn(s, T) \in Seq(S \cap T) /\ Len(OnlyIn(s, T)) \in Nat
         /\ \E a : /\ Enumerates(a, Len(OnlyIn(s, T)), KeptAt(s, T))
                   /\ \A i \in 1..Len(OnlyIn(s, T)) :
                        a[i] \in 1..Len(s) /\ OnlyIn(s, T)[i] = s[a[i]] /\ s[a[i]] \in T
<1> DEFINE sel == OnlyIn(s, T)
           K == KeptAt(s, T)
<1>1. sel \in Seq(S \cap T) /\ \E at : SelectedAt(at, s, T)
  BY OnlyInPlaces
<1>2. PICK at : SelectedAt(at, s, T)
  BY <1>1
<1>3. /\ at \in [1..Len(sel) -> 1..Len(s)]
      /\ \A n \in 1..Len(sel) : s[at[n]] \in T /\ sel[n] = s[at[n]]
      /\ \A m, n \in 1..Len(sel) : m < n => at[m] < at[n]
      /\ \A i \in 1..Len(s) : s[i] \in T => \E n \in 1..Len(sel) : at[n] = i
  BY <1>2 DEF SelectedAt
<1> HIDE DEF sel
<1>4. Len(sel) \in Nat /\ Len(s) \in Nat
  BY <1>1
<1>5. K \in SUBSET Nat /\ \A i : i \in K <=> i \in 1..Len(s) /\ s[i] \in T
  BY <1>4 DEF KeptAt
<1> HIDE DEF K
<1>6. Enumerates(at, Len(sel), K)
  BY <1>3, <1>4, <1>5 DEF Enumerates
<1>7. QED
  BY <1>1, <1>3, <1>4, <1>6 DEF sel, K

\* What is put after and not selected makes no difference.
LEMMA SelectionOfFront ==
  ASSUME NEW S, NEW p \in Seq(S), NEW q \in Seq(S), NEW T, \A i \in 1..Len(q) : q[i] \notin T
  PROVE  OnlyIn(p \o q, T) = OnlyIn(p, T)
<1> DEFINE w == p \o q
           sel == OnlyIn(p, T)
<1>1. /\ w \in Seq(S) /\ Len(p) \in Nat /\ Len(q) \in Nat /\ Len(w) = Len(p) + Len(q)
      /\ \A i \in 1..Len(p) : w[i] = p[i] /\ i \in 1..Len(w)
      /\ \A i \in 1..Len(w) : i \in 1..Len(p) \/ (w[i] = q[i - Len(p)] /\ i - Len(p) \in 1..Len(q))
  OBVIOUS
<1>2. sel \in Seq(S \cap T)
  BY SelectionEnumerates
<1>3. PICK a : /\ Enumerates(a, Len(sel), KeptAt(p, T))
               /\ \A i \in 1..Len(sel) : a[i] \in 1..Len(p) /\ sel[i] = p[a[i]] /\ p[a[i]] \in T
  BY SelectionEnumerates
<1> HIDE DEF w, sel
<1>4. KeptAt(w, T) = KeptAt(p, T)
  BY <1>1 DEF KeptAt
<1>5. \A i \in 1..Len(sel) : sel[i] = w[a[i]]
  BY <1>1, <1>3
<1>6. OnlyIn(w, T) = sel
  BY <1>1, <1>2, <1>3, <1>4, <1>5, SelectionIsUnique
<1>7. QED
  BY <1>6 DEF w, sel

\* All of what is put after, when nothing before is selected.
LEMMA SelectionOfBack ==
  ASSUME NEW S, NEW p \in Seq(S), NEW q \in Seq(S), NEW T,
         \A i \in 1..Len(p) : p[i] \notin T, \A i \in 1..Len(q) : q[i] \in T
  PROVE  OnlyIn(p \o q, T) = q
<1> DEFINE w == p \o q
           b == [i \in 1..Len(q) |-> Len(p) + i]
<1>1. /\ w \in Seq(S) /\ Len(p) \in Nat /\ Len(q) \in Nat /\ Len(w) = Len(p) + Len(q)
      /\ \A i \in 1..Len(p) : w[i] = p[i]
      /\ \A i \in 1..Len(q) : w[Len(p) + i] = q[i] /\ Len(p) + i \in 1..Len(w)
      /\ \A i \in 1..Len(w) : i \in 1..Len(p) \/ i - Len(p) \in 1..Len(q)
  OBVIOUS
<1>2. \A i \in 1..Len(q) : b[i] = Len(p) + i
  OBVIOUS
<1> HIDE DEF w, b
<1>3. Enumerates(b, Len(q), KeptAt(w, T))
  <2>1. KeptAt(w, T) \in SUBSET Nat
    BY <1>1 DEF KeptAt
  <2>2. \A i \in 1..Len(q) : b[i] \in KeptAt(w, T)
    BY <1>1, <1>2 DEF KeptAt
  <2>3. \A i, j \in 1..Len(q) : i < j => b[i] < b[j]
    BY <1>1, <1>2
  <2>4. ASSUME NEW x \in KeptAt(w, T) PROVE \E i \in 1..Len(q) : b[i] = x
    <3>1. x \in 1..Len(w) /\ w[x] \in T
      BY DEF KeptAt
    <3>2. x - Len(p) \in 1..Len(q)
      BY <1>1, <3>1
    <3>3. x = Len(p) + (x - Len(p))
      BY <1>1, <3>1
    <3>4. b[x - Len(p)] = x
      BY <1>2, <3>2, <3>3
    <3>5. QED
      BY <3>2, <3>4
  <2>5. QED
    BY <1>1, <2>1, <2>2, <2>3, <2>4 DEF Enumerates
<1>4. \A i \in 1..Len(q) : q[i] = w[b[i]]
  BY <1>1, <1>2
<1>5. OnlyIn(w, T) = q
  BY <1>1, <1>3, <1>4, SelectionIsUnique
<1>6. QED
  BY <1>5 DEF w

\* An element is put last.
LEMMA AppendPlaces ==
  ASSUME NEW S, NEW s \in Seq(S), NEW e \in S
  PROVE  /\ Append(s, e) \in Seq(S) /\ Len(s) \in Nat /\ Len(Append(s, e)) = Len(s) + 1
         /\ \A n \in 1..Len(s) : n \in DOMAIN Append(s, e) /\ Append(s, e)[n] = s[n]
         /\ Len(s) + 1 \in DOMAIN Append(s, e) /\ Append(s, e)[Len(s) + 1] = e
         /\ \A n \in DOMAIN Append(s, e) : n \in Nat /\ (n \in 1..Len(s) \/ n = Len(s) + 1)
  OBVIOUS

\* An element is put before those from position i on.
LEMMA InsertAtPlaces ==
  ASSUME NEW S, NEW s \in Seq(S), NEW e \in S, NEW i \in 1..(Len(s) + 1)
  PROVE  /\ InsertAt(s, i, e) \in Seq(S) /\ Len(InsertAt(s, i, e)) = Len(s) + 1
         /\ \A k \in 1..(Len(s) + 1) :
              InsertAt(s, i, e)[k] = IF k < i THEN s[k] ELSE IF k = i THEN e ELSE s[k - 1]
<1> DEFINE before == SubSeq(s, 1, i - 1)
           after == SubSeq(s, i, Len(s))
<1>1. before \in Seq(S) /\ Len(before) = i - 1 /\ \A k \in 1..(i - 1) : before[k] = s[k]
  OBVIOUS
<1>2. after \in Seq(S) /\ Len(after) = Len(s) - i + 1 /\ \A k \in 1..(Len(s) - i + 1) : after[k] = s[i + k - 1]
  OBVIOUS
<1>3. InsertAt(s, i, e) = before \o <<e>> \o after
  BY DEF InsertAt
<1> HIDE DEF before, after
<1>4. Len(s) \in Nat /\ i \in Nat
  OBVIOUS
<1> DEFINE upTo == before \o <<e>>
<1>5. upTo \in Seq(S) /\ Len(upTo) = i /\ \A k \in 1..i : upTo[k] = IF k < i THEN s[k] ELSE e
  <2>1. before \in Seq(S) /\ <<e>> \in Seq(S)
    BY <1>1
  <2>2. upTo \in Seq(S) /\ Len(upTo) = Len(before) + 1
    BY <2>1
  <2>3. \A k \in 1..i : upTo[k] = IF k <= Len(before) THEN before[k] ELSE <<e>>[k - Len(before)]
    BY <1>1, <1>4, <2>1
  <2>4. QED
    BY <1>1, <1>4, <2>2, <2>3
<1>6. InsertAt(s, i, e) = upTo \o after
  BY <1>3
<1> HIDE DEF upTo
<1>7. InsertAt(s, i, e) \in Seq(S) /\ Len(InsertAt(s, i, e)) = Len(s) + 1
  <2>1. upTo \in Seq(S) /\ after \in Seq(S)
    BY <1>2, <1>5
  <2>2. upTo \o after \in Seq(S) /\ Len(upTo \o after) = Len(upTo) + Len(after)
    BY <2>1
  <2>3. QED
    BY <1>2, <1>4, <1>5, <1>6, <2>2
<1>8. ASSUME NEW k \in 1..(Len(s) + 1)
      PROVE  InsertAt(s, i, e)[k] = IF k < i THEN s[k] ELSE IF k = i THEN e ELSE s[k - 1]
  <2>1. upTo \in Seq(S) /\ after \in Seq(S)
    BY <1>2, <1>5
  <2>2. CASE k <= i
    <3>1. (upTo \o after)[k] = upTo[k]
      BY <1>4, <1>5, <2>1, <2>2
    <3>2. QED
      BY <1>4, <1>5, <1>6, <2>2, <3>1
  <2>3. CASE i < k
    <3>1. (upTo \o after)[k] = after[k - i] /\ k - i \in 1..(Len(s) - i + 1)
      BY <1>2, <1>4, <1>5, <2>1, <2>3
    <3>2. QED
      BY <1>2, <1>4, <1>6, <2>3, <3>1
  <2>4. QED
    BY <1>4, <2>2, <2>3
<1>9. QED
  BY <1>7, <1>8

\* The element at position i is taken out, and those after it move up.
LEMMA RemoveAtPlaces ==
  ASSUME NEW S, NEW s \in Seq(S), NEW i \in 1..Len(s)
  PROVE  /\ RemoveAt(s, i) \in Seq(S) /\ Len(RemoveAt(s, i)) = Len(s) - 1
         /\ \A k \in 1..(Len(s) - 1) : RemoveAt(s, i)[k] = IF k < i THEN s[k] ELSE s[k + 1]
<1> DEFINE before == SubSeq(s, 1, i - 1)
           after == SubSeq(s, i + 1, Len(s))
<1>1. before \in Seq(S) /\ Len(before) = i - 1 /\ \A k \in 1..(i - 1) : before[k] = s[k]
  OBVIOUS
<1>2. after \in Seq(S) /\ Len(after) = Len(s) - i /\ \A k \in 1..(Len(s) - i) : after[k] = s[i + k]
  OBVIOUS
<1>3. RemoveAt(s, i) = before \o after
  BY DEF RemoveAt
<1> HIDE DEF before, after
<1>4. Len(s) \in Nat /\ i \in Nat
  OBVIOUS
<1>5. before \o after \in Seq(S) /\ Len(before \o after) = Len(s) - 1
  <2>1. before \in Seq(S) /\ after \in Seq(S)
    BY <1>1, <1>2
  <2>2. before \o after \in Seq(S) /\ Len(before \o after) = Len(before) + Len(after)
    BY <2>1
  <2>3. QED
    BY <1>1, <1>2, <1>4, <2>2
<1>6. ASSUME NEW k \in 1..(Len(s) - 1) PROVE (before \o after)[k] = IF k < i THEN s[k] ELSE s[k + 1]
  <2>1. CASE k < i
    BY <1>1, <1>2, <1>4, <2>1
  <2>2. CASE ~(k < i)
    <3>1. (before \o after)[k] = after[k - (i - 1)] /\ k - (i - 1) \in 1..(Len(s) - i)
      BY <1>1, <1>2, <1>4, <2>2
    <3>2. QED
      BY <1>2, <1>4, <2>2, <3>1
  <2>3. QED
    BY <2>1, <2>2
<1>7. QED
  BY <1>3, <1>5, <1>6

\* A finite set, put in a sequence, is there once.
LEMMA SetToSeqPlaces ==
  ASSUME NEW S, IsFiniteSet(S)
  PROVE  /\ SetToSeq(S) \in Seq(S) /\ Len(SetToSeq(S)) = Cardinality(S)
         /\ \A i, j \in 1..Len(SetToSeq(S)) : SetToSeq(S)[i] = SetToSeq(S)[j] => i = j
<1>1. Cardinality(S) \in Nat /\ \E f \in [1..Cardinality(S) -> S] : IsInjective(f)
  BY FS_CardinalityType DEF ExistsBijection, Bijection, Injection
<1>2. SetToSeq(S) \in [1..Cardinality(S) -> S] /\ IsInjective(SetToSeq(S))
  BY <1>1 DEF SetToSeq
<1>3. QED
  BY <1>1, <1>2 DEF IsInjective

-----------------------------------------------------------------------------
(* Folds from the left.                                                      *)

Folded(base, s) == FoldLeft(FoldStep, base, s)

\* The function on sets of positions by which a fold is defined.
IsFold(f, base, s, k) ==
  f = [p \in SUBSET (1..k) |-> IF p = {} THEN base ELSE FoldStep(f[p \ {Max(p)}], s[Max(p)])]

LEMMA MaxOfPositions ==
  ASSUME NEW k \in Nat, NEW p \in SUBSET (1..k), p # {}
  PROVE  Max(p) \in p /\ \A x \in p : x <= Max(p)
<1>1. p \in SUBSET Nat /\ \A x \in p : x <= k
  OBVIOUS
<1>2. \E x \in p : \A y \in p : y <= x
  BY <1>1, GreatestExists
<1>3. \E x \in p : \A y \in p : x >= y
  <2>1. PICK x \in p : \A y \in p : y <= x
    BY <1>2
  <2>2. \A y \in p : x >= y
    BY <1>1, <2>1
  <2>3. QED
    BY <2>2
<1>4. Max(p) \in p /\ \A y \in p : Max(p) >= y
  BY <1>3 DEF Max
<1>5. QED
  BY <1>1, <1>4

\* There is one such function.
LEMMA FoldExists ==
  ASSUME NEW base, NEW s, NEW n \in Nat
  PROVE  \E f : IsFold(f, base, s, n)
<1> DEFINE G == {k \in 0..n : \E f : IsFold(f, base, s, k)}
<1>1. 0 \in G
  <2> DEFINE f == [p \in SUBSET (1..0) |-> base]
  <2>1. \A p \in SUBSET (1..0) : p = {}
    OBVIOUS
  <2>2. f = [p \in SUBSET (1..0) |-> IF p = {} THEN base ELSE FoldStep(f[p \ {Max(p)}], s[Max(p)])]
    BY <2>1
  <2>3. IsFold(f, base, s, 0)
    BY <2>2 DEF IsFold
  <2>4. QED
    BY <2>3
<1>2. ASSUME NEW k \in 0..(n - 1), k \in G PROVE k + 1 \in G
  <2>1. PICK f : IsFold(f, base, s, k)
    BY <1>2
  <2> DEFINE g == [p \in SUBSET (1..(k + 1)) |->
                     IF k + 1 \in p THEN FoldStep(f[p \ {k + 1}], s[k + 1]) ELSE f[p]]
             h == [p \in SUBSET (1..(k + 1)) |->
                     IF p = {} THEN base ELSE FoldStep(g[p \ {Max(p)}], s[Max(p)])]
  <2>2. ASSUME NEW p \in SUBSET (1..(k + 1)) PROVE g[p] = h[p]
    <3>1. CASE k + 1 \in p
      <4>1. Max(p) = k + 1
        <5>1. k + 1 \in Nat /\ p # {}
          BY <3>1
        <5>2. Max(p) \in p /\ \A x \in p : x <= Max(p)
          BY <5>1, MaxOfPositions
        <5>3. Max(p) \in 1..(k + 1) /\ k + 1 <= Max(p)
          BY <3>1, <5>2
        <5>4. QED
          BY <5>1, <5>3
      <4>2. p \ {k + 1} \in SUBSET (1..(k + 1)) /\ k + 1 \notin p \ {k + 1} /\ p # {}
        BY <3>1
      <4>3. g[p \ {k + 1}] = f[p \ {k + 1}]
        BY <4>2
      <4>4. g[p] = FoldStep(f[p \ {k + 1}], s[k + 1])
        BY <3>1
      <4>5. h[p] = FoldStep(g[p \ {Max(p)}], s[Max(p)])
        BY <4>2
      <4> HIDE DEF g, h
      <4>6. QED
        BY <4>1, <4>3, <4>4, <4>5
    <3>2. CASE k + 1 \notin p
      <4>1. p \in SUBSET (1..k)
        BY <3>2
      <4>2. g[p] = f[p]
        BY <3>2
      <4>3. f[p] = IF p = {} THEN base ELSE FoldStep(f[p \ {Max(p)}], s[Max(p)])
        BY <2>1, <4>1 DEF IsFold
      <4>4. p \ {Max(p)} \in SUBSET (1..(k + 1)) /\ k + 1 \notin p \ {Max(p)}
        BY <3>2
      <4>5. g[p \ {Max(p)}] = f[p \ {Max(p)}]
        BY <4>4
      <4>6. h[p] = IF p = {} THEN base ELSE FoldStep(g[p \ {Max(p)}], s[Max(p)])
        OBVIOUS
      <4> HIDE DEF g, h
      <4>7. QED
        BY <4>2, <4>3, <4>5, <4>6
    <3>3. QED
      BY <3>1, <3>2
  <2>3. g = h
    BY <2>2
  <2>4. IsFold(g, base, s, k + 1)
    BY <2>3 DEF IsFold
  <2> HIDE DEF g, h
  <2>5. \E e : IsFold(e, base, s, k + 1)
    BY <2>4
  <2>6. QED
    BY <2>5
<1>3. 0..n \subseteq G
  <2> HIDE DEF G
  <2>1. QED
    BY <1>1, <1>2, CountingUp
<1>4. QED
  BY <1>3

LEMMA FoldIsOfPositions ==
  ASSUME NEW S, NEW s \in Seq(S), NEW base
  PROVE  \E f : IsFold(f, base, s, Len(s)) /\ Folded(base, s) = f[1..Len(s)]
<1> DEFINE It == CHOOSE f : IsFold(f, base, s, Len(s))
<1>1. Len(s) \in Nat /\ DOMAIN s = 1..Len(s)
  OBVIOUS
<1>2. IsFold(It, base, s, Len(s))
  BY <1>1, FoldExists
<1>3. Folded(base, s) = It[1..Len(s)]
  BY <1>1 DEF Folded, FoldLeft, MapThenFoldSet, IsFold
<1>4. QED
  BY <1>2, <1>3

\* A fold goes through what it has after each of the elements.
Runs(t, base, s) ==
  /\ DOMAIN t = 0..Len(s) /\ t[0] = base
  /\ \A k \in 1..Len(s) : t[k] = FoldStep(t[k - 1], s[k])

LEMMA FoldRuns ==
  ASSUME NEW S, NEW s \in Seq(S), NEW base
  PROVE  \E t : Runs(t, base, s) /\ t[Len(s)] = Folded(base, s)
<1>1. PICK f : IsFold(f, base, s, Len(s)) /\ Folded(base, s) = f[1..Len(s)]
  BY FoldIsOfPositions
<1>2. Len(s) \in Nat
  OBVIOUS
<1> DEFINE t == [k \in 0..Len(s) |-> f[1..k]]
<1>3. \A p \in SUBSET (1..Len(s)) :
        f[p] = IF p = {} THEN base ELSE FoldStep(f[p \ {Max(p)}], s[Max(p)])
  BY <1>1 DEF IsFold
<1>4. t[0] = base
  <2>1. 1..0 = {} /\ 0 \in 0..Len(s)
    BY <1>2
  <2>2. {} \in SUBSET (1..Len(s))
    OBVIOUS
  <2>3. QED
    BY <1>3, <2>1, <2>2
<1>5. ASSUME NEW k \in 1..Len(s) PROVE t[k] = FoldStep(t[k - 1], s[k])
  <2>1. k \in 0..Len(s) /\ k - 1 \in 0..Len(s) /\ k \in Nat
    BY <1>2
  <2>2. 1..k \in SUBSET (1..Len(s)) /\ 1..k # {} /\ (1..k) \ {k} = 1..(k - 1)
    <3>1. k \in Nat /\ 1 <= k /\ k <= Len(s)
      BY <1>2
    <3>2. \A x \in 1..k : x \in 1..Len(s)
      BY <1>2, <3>1
    <3>3. k \in 1..k
      BY <3>1
    <3>4. \A x : x \in (1..k) \ {k} <=> x \in 1..(k - 1)
      BY <3>1
    <3>5. QED
      BY <3>2, <3>3, <3>4
  <2>3. Max(1..k) = k
    <3>1. Max(1..k) \in 1..k /\ \A x \in 1..k : x <= Max(1..k)
      BY <2>1, <2>2, MaxOfPositions
    <3>2. k <= Max(1..k)
      BY <3>1
    <3>3. QED
      BY <2>1, <3>1, <3>2
  <2>4. f[1..k] = FoldStep(f[(1..k) \ {Max(1..k)}], s[Max(1..k)])
    BY <1>3, <2>2
  <2>5. f[1..k] = FoldStep(f[1..(k - 1)], s[k])
    BY <2>2, <2>3, <2>4
  <2>6. QED
    BY <2>1, <2>5
<1>6. t[Len(s)] = Folded(base, s)
  BY <1>1, <1>2
<1>7. DOMAIN t = 0..Len(s)
  OBVIOUS
<1> HIDE DEF t
<1>8. Runs(t, base, s) /\ t[Len(s)] = Folded(base, s)
  BY <1>4, <1>5, <1>6, <1>7 DEF Runs
<1>9. QED
  BY <1>8

\* What it has after k elements depends on those alone.
LEMMA RunsAgree ==
  ASSUME NEW S, NEW s \in Seq(S), NEW r \in Seq(S), NEW base, NEW t, NEW u,
         Runs(t, base, s), Runs(u, base, r), NEW n \in Nat, n <= Len(s), n <= Len(r),
         \A k \in 1..n : s[k] = r[k]
  PROVE  t[n] = u[n]
<1> DEFINE G == {k \in 0..n : t[k] = u[k]}
<1>1. 0 \in G
  BY DEF Runs
<1>2. ASSUME NEW k \in 0..(n - 1), k \in G PROVE k + 1 \in G
  <2>1. k + 1 \in 1..n /\ k + 1 \in 1..Len(s) /\ k + 1 \in 1..Len(r) /\ (k + 1) - 1 = k /\ k + 1 \in 0..n
    OBVIOUS
  <2>2. t[k + 1] = FoldStep(t[k], s[k + 1]) /\ u[k + 1] = FoldStep(u[k], r[k + 1])
    BY <2>1 DEF Runs
  <2>3. t[k] = u[k] /\ s[k + 1] = r[k + 1]
    BY <1>2, <2>1
  <2>4. t[k + 1] = u[k + 1]
    BY <2>2, <2>3
  <2>5. QED
    BY <2>1, <2>4
<1>3. 0..n \subseteq G
  <2> HIDE DEF G
  <2>1. QED
    BY <1>1, <1>2, CountingUp
<1>4. n \in 0..n
  OBVIOUS
<1>5. QED
  BY <1>3, <1>4

LEMMA FoldOfNone ==
  ASSUME NEW base
  PROVE  Folded(base, <<>>) = base
<1>1. <<>> \in Seq({}) /\ Len(<<>>) = 0
  OBVIOUS
<1>2. PICK t : Runs(t, base, <<>>) /\ t[Len(<<>>)] = Folded(base, <<>>)
  BY <1>1, FoldRuns
<1>3. QED
  BY <1>1, <1>2 DEF Runs

LEMMA FoldOfOneMore ==
  ASSUME NEW S, NEW s \in Seq(S), NEW e \in S, NEW base
  PROVE  Folded(base, Append(s, e)) = FoldStep(Folded(base, s), e)
<1> DEFINE r == Append(s, e)
<1>1. /\ r \in Seq(S) /\ Len(s) \in Nat /\ Len(r) = Len(s) + 1
      /\ r[Len(s) + 1] = e /\ \A k \in 1..Len(s) : r[k] = s[k]
  BY AppendPlaces
<1> HIDE DEF r
<1>2. PICK t : Runs(t, base, s) /\ t[Len(s)] = Folded(base, s)
  BY FoldRuns
<1>3. PICK u : Runs(u, base, r) /\ u[Len(r)] = Folded(base, r)
  BY <1>1, FoldRuns
<1>4. t[Len(s)] = u[Len(s)]
  BY <1>1, <1>2, <1>3, RunsAgree
<1>5. u[Len(s) + 1] = FoldStep(u[Len(s)], e)
  <2>1. Len(s) + 1 \in 1..Len(r) /\ (Len(s) + 1) - 1 = Len(s)
    BY <1>1
  <2>2. u[Len(s) + 1] = FoldStep(u[(Len(s) + 1) - 1], r[Len(s) + 1])
    BY <1>3, <2>1 DEF Runs
  <2>3. QED
    BY <1>1, <2>1, <2>2
<1>6. QED
  BY <1>1, <1>2, <1>3, <1>4, <1>5 DEF r

\* What holds at first and is kept by every step holds of the result.
LEMMA FoldKeeps ==
  ASSUME NEW S, NEW s \in Seq(S), NEW base, NEW I, base \in I,
         \A x \in I : \A k \in 1..Len(s) : FoldStep(x, s[k]) \in I
  PROVE  Folded(base, s) \in I
<1>1. PICK t : Runs(t, base, s) /\ t[Len(s)] = Folded(base, s)
  BY FoldRuns
<1> DEFINE G == {k \in 0..Len(s) : t[k] \in I}
<1>2. Len(s) \in Nat
  OBVIOUS
<1>3. 0 \in G
  BY <1>1, <1>2 DEF Runs
<1>4. ASSUME NEW k \in 0..(Len(s) - 1), k \in G PROVE k + 1 \in G
  <2>1. k + 1 \in 1..Len(s) /\ (k + 1) - 1 = k /\ k + 1 \in 0..Len(s)
    BY <1>2
  <2>2. t[k + 1] = FoldStep(t[k], s[k + 1])
    BY <1>1, <2>1 DEF Runs
  <2>3. QED
    BY <1>4, <2>1, <2>2
<1>5. 0..Len(s) \subseteq G
  <2> HIDE DEF G
  <2>1. QED
    BY <1>2, <1>3, <1>4, CountingUp
<1>6. Len(s) \in 0..Len(s)
  BY <1>2
<1>7. QED
  BY <1>1, <1>5, <1>6

-----------------------------------------------------------------------------
(* Sequences put one after another.                                          *)

\* What there is after each of the sequences.
Flattens(t, q) ==
  /\ DOMAIN t = 1..Len(q)
  /\ \A i \in 1..Len(q) : t[i] = IF i = 1 THEN q[1] ELSE t[i - 1] \o q[i]

LEMMA FlattenRuns ==
  ASSUME NEW S, NEW q \in Seq(S), Len(q) # 0
  PROVE  \E t : Flattens(t, q) /\ FlattenSeq(q) = t[Len(q)]
<1> DEFINE n == Len(q)
           Is(f, k) == f = [i \in 1..k |-> IF i = 1 THEN q[i] ELSE f[i - 1] \o q[i]]
           G == {k \in 0..n : \E f : Is(f, k)}
<1>1. n \in Nat /\ n \in 0..n
  OBVIOUS
<1>2. 0 \in G
  <2> DEFINE f == [i \in 1..0 |-> q[i]]
  <2>1. Is(f, 0)
    OBVIOUS
  <2> HIDE DEF f, Is
  <2>2. QED
    BY <1>1, <2>1
<1>3. ASSUME NEW k \in 0..(n - 1), k \in G PROVE k + 1 \in G
  <2>1. PICK f : Is(f, k)
    BY <1>3
  <2>2. k \in Nat /\ k + 1 \in 0..n
    BY <1>1
  <2> DEFINE g == [i \in 1..(k + 1) |-> IF i = 1 THEN q[i] ELSE f[i - 1] \o q[i]]
             h == [i \in 1..(k + 1) |-> IF i = 1 THEN q[i] ELSE g[i - 1] \o q[i]]
  <2>3. ASSUME NEW i \in 1..k PROVE f[i] = g[i]
    <3>1. f[i] = IF i = 1 THEN q[i] ELSE f[i - 1] \o q[i]
      BY <2>1
    <3>2. i \in 1..(k + 1)
      BY <2>2
    <3>3. g[i] = IF i = 1 THEN q[i] ELSE f[i - 1] \o q[i]
      BY <3>2
    <3> HIDE DEF g, Is
    <3>4. QED
      BY <3>1, <3>3
  <2>4. ASSUME NEW i \in 1..(k + 1), i # 1 PROVE f[i - 1] = g[i - 1]
    <3>1. i - 1 \in 1..k
      BY <2>2, <2>4
    <3> HIDE DEF g
    <3>2. QED
      BY <2>3, <3>1
  <2>5. \A i \in 1..(k + 1) : g[i] = h[i]
    <3> SUFFICES ASSUME NEW i \in 1..(k + 1) PROVE g[i] = h[i]
      OBVIOUS
    <3>1. g[i] = IF i = 1 THEN q[i] ELSE f[i - 1] \o q[i]
      OBVIOUS
    <3>2. h[i] = IF i = 1 THEN q[i] ELSE g[i - 1] \o q[i]
      OBVIOUS
    <3> HIDE DEF g, h
    <3>3. QED
      BY <2>4, <3>1, <3>2
  <2>6. Is(g, k + 1)
    BY <2>5
  <2> HIDE DEF g, h, Is
  <2>7. \E e : Is(e, k + 1)
    BY <2>6
  <2>8. QED
    BY <2>2, <2>7
<1>4. 0..n \subseteq G
  <2> HIDE DEF G, n
  <2>1. QED
    BY <1>1, <1>2, <1>3, CountingUp
<1>5. \E f : Is(f, n)
  BY <1>1, <1>4
<1> DEFINE It == CHOOSE f : Is(f, n)
<1>6. Is(It, n)
  <2> HIDE DEF Is
  <2>1. QED
    BY <1>5
<1>7. FlattenSeq(q) = It[n]
  BY DEF FlattenSeq
<1>8. Flattens(It, q)
  <2> HIDE DEF It
  <2>1. QED
    BY <1>6 DEF Flattens
<1>9. QED
  BY <1>7, <1>8

\* Sequences of one set make a sequence of that set.
LEMMA FlattenIsSeq ==
  ASSUME NEW S, NEW q \in Seq(Seq(S))
  PROVE  FlattenSeq(q) \in Seq(S)
<1>1. CASE Len(q) = 0
  <2>1. FlattenSeq(q) = q /\ q = <<>>
    BY <1>1 DEF FlattenSeq
  <2>2. QED
    BY <2>1
<1>2. CASE Len(q) # 0
  <2>1. PICK t : Flattens(t, q) /\ FlattenSeq(q) = t[Len(q)]
    BY <1>2, FlattenRuns
  <2> DEFINE G == {k \in 0..Len(q) : k = 0 \/ t[k] \in Seq(S)}
  <2>2. Len(q) \in Nat /\ \A i \in 1..Len(q) : q[i] \in Seq(S)
    OBVIOUS
  <2>3. 0 \in G
    BY <2>2
  <2>4. ASSUME NEW k \in 0..(Len(q) - 1), k \in G PROVE k + 1 \in G
    <3>1. k + 1 \in 1..Len(q) /\ k + 1 \in 0..Len(q) /\ (k + 1) - 1 = k /\ (k + 1 = 1 <=> k = 0)
      BY <2>2
    <3>2. t[k + 1] = IF k = 0 THEN q[1] ELSE t[k] \o q[k + 1]
      BY <2>1, <3>1 DEF Flattens
    <3>3. q[k + 1] \in Seq(S) /\ (k # 0 => t[k] \in Seq(S))
      BY <2>2, <2>4, <3>1
    <3>4. CASE k = 0
      BY <3>1, <3>2, <3>3, <3>4
    <3>5. CASE k # 0
      <4>1. t[k] \o q[k + 1] \in Seq(S)
        BY <3>3, <3>5
      <4>2. QED
        BY <3>1, <3>2, <3>5, <4>1
    <3>6. QED
      BY <3>4, <3>5
  <2>5. 0..Len(q) \subseteq G
    <3> HIDE DEF G
    <3>1. QED
      BY <2>2, <2>3, <2>4, CountingUp
  <2>6. Len(q) \in 0..Len(q)
    BY <2>2
  <2>7. QED
    BY <1>2, <2>1, <2>5, <2>6
<1>3. QED
  BY <1>1, <1>2
-----------------------------------------------------------------------------
(* Folds of what is put one after another, and over the numbers of a set.   *)

\* One sequence after another, folded one after the other.
LEMMA FoldOfConcat ==
  ASSUME NEW P, NEW Q, NEW p \in Seq(P), NEW q \in Seq(Q), NEW base
  PROVE  Folded(base, p \o q) = Folded(Folded(base, p), q)
<1> DEFINE S == P \cup Q
           n == Len(p)
           r == p \o q
<1>1. p \in Seq(S) /\ q \in Seq(S)
  OBVIOUS
<1>2. /\ r \in Seq(S) /\ n \in Nat /\ Len(q) \in Nat /\ Len(r) = n + Len(q)
      /\ \A i \in 1..n : r[i] = p[i]
      /\ \A i \in 1..Len(q) : r[n + i] = q[i]
  BY <1>1
<1> HIDE DEF S, r
<1>3. PICK t : Runs(t, base, p) /\ t[n] = Folded(base, p)
  BY <1>1, FoldRuns
<1>4. PICK u : Runs(u, t[n], q) /\ u[Len(q)] = Folded(t[n], q)
  BY <1>1, FoldRuns
<1>5. PICK w : Runs(w, base, r) /\ w[Len(r)] = Folded(base, r)
  BY <1>2, FoldRuns
<1> HIDE DEF n
<1>6. n <= Len(r) /\ n <= Len(p) /\ \A k \in 1..n : r[k] = p[k]
  BY <1>2 DEF n
<1>7. w[n] = t[n]
  BY <1>1, <1>2, <1>3, <1>5, <1>6, RunsAgree
<1>8. ASSUME NEW i \in 1..Len(q) PROVE w[n + i] = FoldStep(w[n + (i - 1)], q[i])
  <2>1. n + i \in 1..Len(r) /\ (n + i) - 1 = n + (i - 1) /\ r[n + i] = q[i]
    BY <1>2
  <2>2. QED
    BY <1>5, <2>1 DEF Runs
<1> DEFINE G == {k \in 0..Len(q) : w[n + k] = u[k]}
<1>9. 0 \in G
  <2>1. n + 0 = n /\ 0 \in 0..Len(q) /\ u[0] = t[n]
    BY <1>2, <1>4 DEF Runs
  <2>2. QED
    BY <1>7, <2>1
<1>10. ASSUME NEW k \in 0..(Len(q) - 1), k \in G PROVE k + 1 \in G
  <2>1. k + 1 \in 1..Len(q) /\ k + 1 \in 0..Len(q) /\ (k + 1) - 1 = k
    BY <1>2
  <2>2. u[k + 1] = FoldStep(u[k], q[k + 1])
    BY <1>4, <2>1 DEF Runs
  <2>3. w[n + (k + 1)] = FoldStep(w[n + ((k + 1) - 1)], q[k + 1])
    BY <1>8, <2>1
  <2>4. w[n + k] = u[k]
    BY <1>10
  <2>5. QED
    BY <2>1, <2>2, <2>3, <2>4
<1>11. Len(q) \in G
  <2> HIDE DEF G
  <2>1. 0..Len(q) \subseteq G
    BY <1>2, <1>9, <1>10, CountingUp
  <2>2. QED
    BY <1>2, <2>1
<1>12. w[Len(r)] = u[Len(q)]
  BY <1>2, <1>11
<1>13. QED
  BY <1>3, <1>4, <1>5, <1>12 DEF r

-----------------------------------------------------------------------------
(* Folds over the numbers of a set, from the least on.                       *)

Ascends(q, S) ==
  /\ q \in Seq(S) /\ ToSet(q) = S
  /\ \A i, j \in DOMAIN q : i < j => q[i] < q[j]

PlacesBelow(S, x) == {y \in S : y < x}
UpTo(S, x) == {y \in S : y <= x}
FirstOf(q, k) == {q[i] : i \in 1..k}

\* What comes before an element of an ascending sequence is what is below it.
LEMMA AscendsFacts ==
  ASSUME NEW S \in SUBSET Nat, NEW q, Ascends(q, S)
  PROVE  /\ Len(q) \in Nat /\ DOMAIN q = 1..Len(q) /\ \A k \in 1..Len(q) : q[k] \in S
         /\ FirstOf(q, 0) = {} /\ FirstOf(q, Len(q)) = S
         /\ \A k \in 0..(Len(q) - 1) :
              /\ PlacesBelow(S, q[k + 1]) = FirstOf(q, k)
              /\ UpTo(S, q[k + 1]) = FirstOf(q, k + 1)
<1>1. Len(q) \in Nat /\ DOMAIN q = 1..Len(q) /\ \A k \in 1..Len(q) : q[k] \in S
  BY DEF Ascends
<1>2. {q[i] : i \in 1..Len(q)} = S
  BY <1>1 DEF Ascends, ToSet
<1>3. \A i, j \in 1..Len(q) : i < j => q[i] < q[j]
  BY <1>1 DEF Ascends
<1>4. ASSUME NEW k \in 0..(Len(q) - 1)
      PROVE  PlacesBelow(S, q[k + 1]) = FirstOf(q, k) /\ UpTo(S, q[k + 1]) = FirstOf(q, k + 1)
  <2>1. k + 1 \in 1..Len(q) /\ 1..k \subseteq 1..Len(q) /\ 1..(k + 1) \subseteq 1..Len(q)
    BY <1>1
  <2>2. \A i \in 1..Len(q) : q[i] \in Nat
    BY <1>1
  <2>3. \A i \in 1..Len(q) : q[i] < q[k + 1] <=> i \in 1..k
    <3> SUFFICES ASSUME NEW i \in 1..Len(q) PROVE q[i] < q[k + 1] <=> i \in 1..k
      OBVIOUS
    <3>1. CASE i < k + 1
      BY <1>1, <1>3, <2>1, <3>1
    <3>2. CASE i = k + 1
      BY <2>1, <2>2, <3>2
    <3>3. CASE i > k + 1
      BY <1>1, <1>3, <2>1, <2>2, <3>3
    <3>4. QED
      BY <1>1, <2>1, <3>1, <3>2, <3>3
  <2>4. \A i \in 1..Len(q) : q[i] <= q[k + 1] <=> i \in 1..(k + 1)
    <3> SUFFICES ASSUME NEW i \in 1..Len(q) PROVE q[i] <= q[k + 1] <=> i \in 1..(k + 1)
      OBVIOUS
    <3>1. CASE i = k + 1
      BY <2>1, <2>2, <3>1
    <3>2. CASE i # k + 1
      <4>1. q[i] # q[k + 1]
        BY <1>1, <1>3, <2>1, <2>2, <3>2
      <4>2. QED
        BY <1>1, <2>1, <2>2, <2>3, <3>2, <4>1
    <3>3. QED
      BY <3>1, <3>2
  <2>5. \A y \in S : \E i \in 1..Len(q) : y = q[i]
    BY <1>2
  <2>6. PlacesBelow(S, q[k + 1]) = FirstOf(q, k)
    BY <1>1, <2>1, <2>3, <2>5 DEF PlacesBelow, FirstOf
  <2>7. UpTo(S, q[k + 1]) = FirstOf(q, k + 1)
    BY <1>1, <2>1, <2>4, <2>5 DEF UpTo, FirstOf
  <2>8. QED
    BY <2>6, <2>7
<1>5. FirstOf(q, 0) = {} /\ FirstOf(q, Len(q)) = S
  BY <1>2 DEF FirstOf
<1>6. QED
  BY <1>1, <1>2, <1>4, <1>5

\* X is what there is when a set of the numbers is through: by one element for each number, or by
\* a sequence for each.
StepByStep(S, q, Q, s, X) ==
  /\ S \in SUBSET Nat /\ Ascends(q, S)
  /\ s \in Seq(Q) /\ Len(s) = Len(q)
  /\ \A k \in 1..Len(q) : FoldStep(X[PlacesBelow(S, q[k])], s[k]) = X[UpTo(S, q[k])]
RunByRun(S, q, Q, s, X) ==
  /\ S \in SUBSET Nat /\ Ascends(q, S)
  /\ s \in Seq(Seq(Q)) /\ Len(s) = Len(q)
  /\ \A k \in 1..Len(q) : Folded(X[PlacesBelow(S, q[k])], s[k]) = X[UpTo(S, q[k])]

LEMMA FoldAscending ==
  ASSUME NEW S, NEW q, NEW Q, NEW s, NEW X, StepByStep(S, q, Q, s, X)
  PROVE  Folded(X[{}], s) = X[S]
<1>1. /\ Len(q) \in Nat /\ \A k \in 1..Len(q) : q[k] \in S
      /\ FirstOf(q, 0) = {} /\ FirstOf(q, Len(q)) = S
      /\ \A k \in 0..(Len(q) - 1) :
           PlacesBelow(S, q[k + 1]) = FirstOf(q, k) /\ UpTo(S, q[k + 1]) = FirstOf(q, k + 1)
  BY AscendsFacts DEF StepByStep
<1>2. s \in Seq(Q) /\ Len(s) = Len(q)
  BY DEF StepByStep
<1>3. PICK t : Runs(t, X[{}], s) /\ t[Len(s)] = Folded(X[{}], s)
  BY <1>2, FoldRuns
<1> DEFINE G == {k \in 0..Len(q) : t[k] = X[FirstOf(q, k)]}
<1>4. 0 \in G
  <2>1. FirstOf(q, 0) = {} /\ t[0] = X[{}] /\ 0 \in 0..Len(q)
    BY <1>1, <1>3 DEF Runs
  <2>2. t[0] = X[FirstOf(q, 0)]
    BY <2>1
  <2>3. QED
    BY <2>1, <2>2
<1>5. ASSUME NEW k \in 0..(Len(q) - 1), k \in G PROVE k + 1 \in G
  <2>1. k + 1 \in 1..Len(q) /\ k + 1 \in 0..Len(q) /\ (k + 1) - 1 = k
    BY <1>1
  <2>2. t[k + 1] = FoldStep(t[k], s[k + 1])
    BY <1>2, <1>3, <2>1 DEF Runs
  <2>3. FoldStep(X[PlacesBelow(S, q[k + 1])], s[k + 1]) = X[UpTo(S, q[k + 1])]
    BY <2>1 DEF StepByStep
  <2>4. t[k] = X[PlacesBelow(S, q[k + 1])]
    BY <1>1, <1>5
  <2>5. t[k + 1] = X[UpTo(S, q[k + 1])]
    BY <2>2, <2>3, <2>4
  <2>6. t[k + 1] = X[FirstOf(q, k + 1)]
    BY <1>1, <2>5
  <2>7. QED
    BY <2>1, <2>6
<1>6. Len(q) \in G
  <2> HIDE DEF G
  <2>1. 0..Len(q) \subseteq G
    BY <1>1, <1>4, <1>5, CountingUp
  <2>2. QED
    BY <1>1, <2>1
<1>7. QED
  BY <1>1, <1>2, <1>3, <1>6

\* The same where every number stands for a sequence of its own.
LEMMA FoldFlattened ==
  ASSUME NEW S, NEW q, NEW Q, NEW s, NEW X, RunByRun(S, q, Q, s, X)
  PROVE  Folded(X[{}], FlattenSeq(s)) = X[S]
<1>1. /\ Len(q) \in Nat /\ \A k \in 1..Len(q) : q[k] \in S
      /\ FirstOf(q, 0) = {} /\ FirstOf(q, Len(q)) = S
      /\ \A k \in 0..(Len(q) - 1) :
           PlacesBelow(S, q[k + 1]) = FirstOf(q, k) /\ UpTo(S, q[k + 1]) = FirstOf(q, k + 1)
  BY AscendsFacts DEF RunByRun
<1>2. /\ s \in Seq(Seq(Q)) /\ Len(s) = Len(q) /\ \A k \in 1..Len(q) : s[k] \in Seq(Q)
      /\ \A k \in 1..Len(q) : Folded(X[PlacesBelow(S, q[k])], s[k]) = X[UpTo(S, q[k])]
  BY DEF RunByRun
<1>3. CASE Len(q) = 0
  <2>1. FlattenSeq(s) = <<>>
    BY <1>2, <1>3 DEF FlattenSeq
  <2>2. Folded(X[{}], FlattenSeq(s)) = X[{}]
    BY <2>1, FoldOfNone
  <2>3. S = {}
    BY <1>1, <1>3
  <2>4. QED
    BY <2>2, <2>3
<1>4. CASE Len(q) # 0
  <2>1. PICK t : Flattens(t, s) /\ FlattenSeq(s) = t[Len(s)]
    BY <1>2, <1>4, FlattenRuns
  <2> DEFINE G == {k \in 0..Len(q) : k = 0 \/ (t[k] \in Seq(Q) /\ Folded(X[{}], t[k]) = X[FirstOf(q, k)])}
  <2>2. 0 \in G
    BY <1>1
  <2>3. ASSUME NEW k \in 0..(Len(q) - 1), k \in G PROVE k + 1 \in G
    <3>1. /\ k + 1 \in 1..Len(q) /\ k + 1 \in 0..Len(q) /\ (k + 1) - 1 = k
          /\ (k + 1 = 1 <=> k = 0)
      BY <1>1
    <3>2. s[k + 1] \in Seq(Q)
      BY <1>1, <1>2, <3>1
    <3>3. Folded(X[FirstOf(q, k)], s[k + 1]) = X[FirstOf(q, k + 1)]
      <4>1. /\ Folded(X[PlacesBelow(S, q[k + 1])], s[k + 1]) = X[UpTo(S, q[k + 1])]
            /\ PlacesBelow(S, q[k + 1]) = FirstOf(q, k) /\ UpTo(S, q[k + 1]) = FirstOf(q, k + 1)
        BY <1>1, <1>2, <3>1
      <4>2. QED
        BY <4>1
    <3>4. t[k + 1] = IF k = 0 THEN s[k + 1] ELSE t[k] \o s[k + 1]
      BY <1>2, <2>1, <3>1 DEF Flattens
    <3>5. CASE k = 0
      BY <1>1, <3>1, <3>2, <3>3, <3>4, <3>5
    <3>6. CASE k # 0
      <4>1. t[k] \in Seq(Q) /\ Folded(X[{}], t[k]) = X[FirstOf(q, k)]
        BY <2>3, <3>6
      <4>2. t[k + 1] \in Seq(Q)
        BY <3>2, <3>4, <3>6, <4>1
      <4>3. Folded(X[{}], t[k] \o s[k + 1]) = Folded(Folded(X[{}], t[k]), s[k + 1])
        BY <3>2, <4>1, FoldOfConcat
      <4>4. Folded(X[{}], t[k + 1]) = X[FirstOf(q, k + 1)]
        BY <3>3, <3>4, <3>6, <4>1, <4>3
      <4>5. QED
        BY <3>1, <4>2, <4>4
    <3>7. QED
      BY <3>5, <3>6
  <2>4. Len(q) \in G
    <3> HIDE DEF G
    <3>1. 0..Len(q) \subseteq G
      BY <1>1, <2>2, <2>3, CountingUp
    <3>2. QED
      BY <1>1, <3>1
  <2>5. QED
    BY <1>1, <1>2, <1>4, <2>1, <2>4
<1>5. QED
  BY <1>3, <1>4
===============================================================================
