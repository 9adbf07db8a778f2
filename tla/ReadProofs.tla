------------------------------- MODULE ReadProofs -------------------------------
(***************************************************************************)
(* Theorems about what is read from GoCD.                                  *)
(*                                                                         *)
(* Reading, for any log, any refusal and any limits: the tail of a log,    *)
(* the fields that a refusal names, and the texts that are kept of it.     *)
(* FlattenSeq and ValidationDetails are recursive functions; that they     *)
(* exist, and what they give, is shown each time by looking at the least   *)
(* number for which it would be otherwise.                                 *)
(*                                                                         *)
(* HistoryPaging, for any number of runs, any page size and any number of  *)
(* failed calls.  The invariant IInv adds to what the caller holds where   *)
(* the walk stands: the cursor lies within the runs of the first page's    *)
(* time, and an answer on its way is the page just below it.               *)
(***************************************************************************)
EXTENDS HistoryPaging, Reading, FiniteSetTheorems, SequenceTheorems,
        WellFoundedInduction, TLAPS

(* A set of natural numbers that is not empty has a least one.             *)
LEMMA Least ==
    ASSUME NEW T \in SUBSET Nat, T # {}
    PROVE  \E x \in T : \A y \in T : x <= y
  <1>1. IsWellFoundedOn(OpToRel(<, Nat), Nat)
    BY NatLessThanWellFounded
  <1>2. PICK x \in T : \A y \in T : ~(<<y, x>> \in OpToRel(<, Nat))
    BY <1>1, WFMin
  <1>3. \A y \in T : ~(y < x)
    BY <1>2 DEF OpToRel
  <1>. QED BY <1>3

(* Max gives the greatest member of a set that is bounded.                 *)
LEMMA Greatest ==
    ASSUME NEW m \in Nat, NEW S \in SUBSET (0 .. m), S # {}
    PROVE  Max(S) \in S /\ \A y \in S : y <= Max(S)
  <1>. DEFINE T == {k \in Nat : m - k \in S}
  <1>1. T # {}
    <2>1. PICK y \in S : TRUE
      OBVIOUS
    <2>2. m - y \in Nat /\ m - (m - y) = y
      OBVIOUS
    <2>. QED BY <2>1, <2>2
  <1>2. PICK t \in T : \A y \in T : t <= y
    <2>. HIDE DEF T
    <2>1. T \in SUBSET Nat
      BY DEF T
    <2>. QED BY <2>1, <1>1, Least
  <1>3. m - t \in S /\ t \in Nat
    BY <1>2
  <1>4. \A y \in S : m - t >= y
    <2>. TAKE y \in S
    <2>1. m - y \in Nat /\ m - (m - y) = y
      OBVIOUS
    <2>2. m - y \in T
      BY <2>1
    <2>. QED BY <1>2, <1>3, <2>1, <2>2
  <1>. QED BY <1>3, <1>4 DEF Max

(* Counted from its greatest, a set has a member at every place.           *)
LEMMA FromTheEnd ==
    ASSUME NEW m \in Nat, NEW B \in SUBSET (0 .. m), NEW n \in 1 .. Cardinality(B)
    PROVE  \E x \in B : Cardinality({j \in B : j >= x}) = n
  <1>. DEFINE From(i) == {j \in B : j >= i}
              T == {i \in 0 .. m : Cardinality(From(i)) >= n}
  <1>0. IsFiniteSet(B) /\ Cardinality(B) \in Nat
    <2>1. IsFiniteSet(0 .. m)
      BY FS_Interval
    <2>. QED BY <2>1, FS_Subset, FS_CardinalityType
  <1>1. \A i \in Int : IsFiniteSet(From(i)) /\ Cardinality(From(i)) \in Nat
    <2>. TAKE i \in Int
    <2>1. From(i) \in SUBSET B
      OBVIOUS
    <2>. HIDE DEF From
    <2>. QED BY <1>0, <2>1, FS_Subset, FS_CardinalityType
  <1>n. n \in Nat /\ n >= 1 /\ n <= Cardinality(B)
    BY <1>0
  <1>2. B # {}
    BY <1>n, FS_EmptySet
  <1>3. From(0) = B /\ From(m + 1) = {}
    <2>1. \A j \in B : j >= 0 /\ ~(j >= m + 1)
      OBVIOUS
    <2>. QED BY <2>1
  <1>a. Cardinality(From(m + 1)) = 0
    BY <1>3, FS_EmptySet
  <1>. HIDE DEF From
  <1>4. PICK x \in T : \A y \in T : y <= x
    <2>1. 0 \in T
      BY <1>n, <1>2, <1>3
    <2>2. T \in SUBSET (0 .. m)
      OBVIOUS
    <2>. HIDE DEF T
    <2>. QED BY <2>1, <2>2, Greatest
  <1>5. x \in 0 .. m /\ Cardinality(From(x)) >= n /\ x + 1 \in Int
    BY <1>4
  <1>6. Cardinality(From(x + 1)) < n
    <2>1. CASE x = m
      BY <2>1, <1>a, <1>n
    <2>2. CASE x # m
      <3>1. x + 1 \in 0 .. m /\ ~(x + 1 <= x)
        BY <2>2, <1>5
      <3>2. x + 1 \notin T
        BY <3>1, <1>4
      <3>. QED BY <3>1, <3>2, <1>1, <1>n
    <2>. QED BY <2>1, <2>2
  <1>7. \A j \in B : j >= x <=> j >= x + 1 \/ j = x
    BY <1>5
  <1>8. x \notin B => From(x) = From(x + 1)
    BY <1>7 DEF From
  <1>9. x \in B => From(x) = From(x + 1) \cup {x}
    BY <1>7 DEF From
  <1>10. x \notin From(x + 1)
    BY <1>5 DEF From
  <1>11. x \in B => Cardinality(From(x)) = Cardinality(From(x + 1)) + 1
    BY <1>9, <1>10, <1>5, <1>1, FS_AddElement
  <1>12. x \in B
    BY <1>1, <1>n, <1>5, <1>6, <1>8
  <1>13. Cardinality(From(x)) = n
    BY <1>1, <1>n, <1>5, <1>6, <1>11, <1>12
  <1>. QED BY <1>12, <1>13 DEF From

LEMMA Smaller == ASSUME NEW a \in Int, NEW b \in Int PROVE Min({a, b}) = IF a <= b THEN a ELSE b
  BY DEF Min

(* A finite set of natural numbers has a bound.                            *)
LEMMA FiniteIsBounded ==
    ASSUME NEW S \in SUBSET Nat, IsFiniteSet(S)
    PROVE  \E m \in Nat : S \in SUBSET (0 .. m)
  <1>. DEFINE Bounded(U) == \E m \in Nat : U \in SUBSET (0 .. m)
              T == {n \in Nat : \E U \in SUBSET Nat :
                                   IsFiniteSet(U) /\ Cardinality(U) = n /\ ~Bounded(U)}
  <1>1. ASSUME T # {} PROVE FALSE
    <2>1. PICK n \in T : \A k \in T : n <= k
      <3>1. T \in SUBSET Nat
        OBVIOUS
      <3>. HIDE DEF T
      <3>. QED BY <3>1, <1>1, Least
    <2>2. PICK U \in SUBSET Nat : IsFiniteSet(U) /\ Cardinality(U) = n /\ ~Bounded(U)
      BY <2>1
    <2>3. U # {}
      <3>1. Bounded({})
        OBVIOUS
      <3>. QED BY <2>2, <3>1
    <2>4. PICK x \in U : TRUE
      BY <2>3
    <2>5. IsFiniteSet(U \ {x}) /\ Cardinality(U \ {x}) = n - 1
      BY <2>2, <2>4, FS_RemoveElement
    <2>6. Cardinality(U \ {x}) \in Nat
      BY <2>5, FS_CardinalityType
    <2>7. n - 1 \notin T
      <3>1. n \in Nat /\ ~(n <= n - 1)
        BY <2>1
      <3>. HIDE DEF T
      <3>. QED BY <2>1, <3>1
    <2>8. PICK m \in Nat : U \ {x} \in SUBSET (0 .. m)
      BY <2>5, <2>6, <2>7
    <2>9. U \in SUBSET (0 .. m + x) /\ m + x \in Nat
      BY <2>4, <2>8
    <2>. QED BY <2>2, <2>9
  <1>2. Cardinality(S) \in Nat
    BY FS_CardinalityType
  <1>3. Cardinality(S) \notin T
    BY <1>1
  <1>. QED BY <1>2, <1>3

(* Counted from its least, too.                                            *)
LEMMA FromTheStart ==
    ASSUME NEW B \in SUBSET Nat, IsFiniteSet(B), NEW n \in 1 .. Cardinality(B)
    PROVE  \E x \in B : Cardinality({j \in B : j <= x}) = n
  <1>1. PICK m \in Nat : B \in SUBSET (0 .. m)
    BY FiniteIsBounded
  <1>2. Cardinality(B) \in Nat
    BY FS_CardinalityType
  <1>3. Cardinality(B) - n + 1 \in 1 .. Cardinality(B)
    BY <1>2
  <1>4. PICK x \in B : Cardinality({j \in B : j >= x}) = Cardinality(B) - n + 1
    BY <1>1, <1>3, FromTheEnd
  <1>. DEFINE E == {j \in B : j >= x}
              D == E \ {x}
  <1>5. IsFiniteSet(E)
    <2>1. E \in SUBSET B
      OBVIOUS
    <2>. HIDE DEF E
    <2>. QED BY <2>1, FS_Subset
  <1>6. IsFiniteSet(D) /\ Cardinality(D) = Cardinality(B) - n
    <2>1. x \in E /\ Cardinality(E) = Cardinality(B) - n + 1
      BY <1>4
    <2>. HIDE DEF E
    <2>. QED BY <2>1, <1>2, <1>5, FS_RemoveElement
  <1>7. B \cap D = D /\ {j \in B : j <= x} = B \ D
    <2>1. \A j \in B : j \in D <=> ~(j <= x)
      OBVIOUS
    <2>2. D \subseteq B
      OBVIOUS
    <2>. HIDE DEF D
    <2>. QED BY <2>1, <2>2
  <1>. HIDE DEF D
  <1>8. Cardinality(B \ D) = Cardinality(B) - Cardinality(D)
    BY <1>7, FS_Difference
  <1>9. Cardinality({j \in B : j <= x}) = n
    BY <1>2, <1>6, <1>7, <1>8
  <1>. QED BY <1>9

(* Two members do not share a place.                                       *)
LEMMA OnePlace ==
    ASSUME NEW B \in SUBSET Nat, IsFiniteSet(B), NEW x \in B, NEW y \in B,
           Cardinality({j \in B : j <= x}) = Cardinality({j \in B : j <= y})
    PROVE  x = y
  <1>1. ASSUME NEW u \in B, NEW v \in B, u < v,
               Cardinality({j \in B : j <= u}) = Cardinality({j \in B : j <= v})
        PROVE  FALSE
    <2>. DEFINE V == {j \in B : j <= v}
                U == {j \in B : j <= u}
    <2>a. \A j \in B : j <= u => j <= v
      BY <1>1
    <2>b. ~(v <= u) /\ v <= v
      BY <1>1
    <2>1. U \in SUBSET V /\ V \in SUBSET B /\ v \in V /\ v \notin U
      BY <2>a, <2>b, Zenon
    <2>2. Cardinality(U) = Cardinality(V)
      BY <1>1
    <2>. HIDE DEF U, V
    <2>3. IsFiniteSet(V)
      BY <2>1, FS_Subset
    <2>. QED BY <2>1, <2>2, <2>3, FS_Subset
  <1>. QED BY <1>1
----------------------------------------------------------------------------
(* f[i] joins the first i sequences, up to the k-th.                       *)
Joined(seqs, f, k) == f = [i \in 1 .. k |-> IF i = 1 THEN seqs[i] ELSE f[i - 1] \o seqs[i]]

LEMMA JoinedExists ==
    ASSUME NEW seqs, NEW n \in Nat
    PROVE  \E f : Joined(seqs, f, n)
  <1>. DEFINE T == {k \in Nat : ~\E f : Joined(seqs, f, k)}
  <1>1. ASSUME T # {} PROVE FALSE
    <2>1. PICK k \in T : \A j \in T : k <= j
      <3>1. T \in SUBSET Nat
        OBVIOUS
      <3>. HIDE DEF T
      <3>. QED BY <3>1, <1>1, Least
    <2>2. k \in Nat /\ ~\E f : Joined(seqs, f, k)
      BY <2>1
    <2>3. CASE k = 0
      <3>1. Joined(seqs, [i \in 1 .. 0 |-> 0], 0)
        BY DEF Joined
      <3>. QED BY <3>1, <2>2, <2>3
    <2>4. CASE k # 0
      <3>1. k - 1 \in Nat /\ ~(k <= k - 1)
        BY <2>2, <2>4
      <3>2. k - 1 \notin T
        BY <3>1, <2>1
      <3>3. PICK f : Joined(seqs, f, k - 1)
        BY <3>1, <3>2
      <3>. DEFINE g == [i \in 1 .. k |-> IF i = 1 THEN seqs[i] ELSE f[i - 1] \o seqs[i]]
      <3>a. \A i \in 1 .. k - 1 : f[i] = IF i = 1 THEN seqs[i] ELSE f[i - 1] \o seqs[i]
        BY <3>3, Zenon DEF Joined
      <3>b. \A i \in 1 .. k : g[i] = IF i = 1 THEN seqs[i] ELSE f[i - 1] \o seqs[i]
        OBVIOUS
      <3>c. g = [i \in 1 .. k |-> IF i = 1 THEN seqs[i] ELSE f[i - 1] \o seqs[i]]
        OBVIOUS
      <3>. HIDE DEF g
      <3>d. \A i \in 1 .. k - 1 : i \in 1 .. k
        BY <3>1
      <3>4. \A i \in 1 .. k - 1 : g[i] = f[i]
        BY <3>a, <3>b, <3>d, Zenon
      <3>e. \A i \in 1 .. k : i # 1 => i - 1 \in 1 .. k - 1
        BY <2>2
      <3>5. \A i \in 1 .. k : i # 1 => g[i - 1] = f[i - 1]
        BY <3>4, <3>e, Zenon
      <3>f. g = [i \in 1 .. k |-> IF i = 1 THEN seqs[i] ELSE g[i - 1] \o seqs[i]]
        BY <3>5, <3>c, Zenon
      <3>6. Joined(seqs, g, k)
        BY <3>f, Zenon DEF Joined
      <3>. QED BY <3>6, <2>2
    <2>. QED BY <2>3, <2>4
  <1>. QED BY <1>1

(* FlattenSeq gives the last of them.                                      *)
LEMMA Flattened ==
    ASSUME NEW seqs, Len(seqs) \in Nat
    PROVE  \E f : /\ Joined(seqs, f, Len(seqs))
                  /\ FlattenSeq(seqs) = IF Len(seqs) = 0 THEN seqs ELSE f[Len(seqs)]
  <1>. DEFINE f == CHOOSE g : Joined(seqs, g, Len(seqs))
  <1>1. Joined(seqs, f, Len(seqs))
    BY JoinedExists
  <1>2. FlattenSeq(seqs) = IF Len(seqs) = 0 THEN seqs ELSE f[Len(seqs)]
    BY DEF FlattenSeq, Joined
  <1>. QED BY <1>1, <1>2

(* No element comes twice.                                                 *)
Distinct(s) == \A i, j \in 1 .. Len(s) : s[i] = s[j] => i = j

(* ToSet has the elements of a sequence.                                   *)
LEMMA SetOf ==
    ASSUME NEW S, NEW s \in Seq(S)
    PROVE  /\ Len(s) \in Nat /\ DOMAIN s = 1 .. Len(s)
           /\ ToSet(s) \subseteq S
           /\ \A x : x \in ToSet(s) <=> \E i \in 1 .. Len(s) : s[i] = x
           /\ \A i \in 1 .. Len(s) : s[i] \in ToSet(s)
  BY DEF ToSet

(* A sequence made of two.                                                 *)
LEMMA Concatenated ==
    ASSUME NEW S, NEW s \in Seq(S), NEW t \in Seq(S)
    PROVE  /\ s \o t \in Seq(S) /\ ToSet(s \o t) = ToSet(s) \cup ToSet(t)
           /\ Distinct(s) /\ Distinct(t) /\ ToSet(s) \cap ToSet(t) = {} => Distinct(s \o t)
  <1>1. /\ s \o t \in Seq(S) /\ Len(s) \in Nat /\ Len(t) \in Nat
        /\ Len(s \o t) = Len(s) + Len(t)
        /\ \A i \in 1 .. Len(s) : (s \o t)[i] = s[i]
        /\ \A i \in 1 .. Len(t) : (s \o t)[Len(s) + i] = t[i]
    OBVIOUS
  <1>2. \A i \in 1 .. Len(s \o t) :
           i \in 1 .. Len(s) \/ \E j \in 1 .. Len(t) : i = Len(s) + j
    <2>. TAKE i \in 1 .. Len(s \o t)
    <2>1. CASE i <= Len(s)
      BY <1>1, <2>1
    <2>2. CASE ~(i <= Len(s))
      <3>1. i - Len(s) \in 1 .. Len(t) /\ i = Len(s) + (i - Len(s))
        BY <1>1, <2>2
      <3>. QED BY <3>1
    <2>. QED BY <2>1, <2>2
  <1>3. /\ \A i \in 1 .. Len(s) : i \in 1 .. Len(s \o t)
        /\ \A i \in 1 .. Len(t) : Len(s) + i \in 1 .. Len(s \o t)
    BY <1>1
  <1>4. ToSet(s \o t) = ToSet(s) \cup ToSet(t)
    <2>1. ASSUME NEW x \in ToSet(s \o t) PROVE x \in ToSet(s) \cup ToSet(t)
      <3>1. PICK i \in 1 .. Len(s \o t) : (s \o t)[i] = x
        BY <1>1, SetOf
      <3>2. CASE i \in 1 .. Len(s)
        BY <3>1, <3>2, <1>1, SetOf
      <3>3. ASSUME NEW j \in 1 .. Len(t), i = Len(s) + j PROVE x \in ToSet(t)
        BY <3>1, <3>3, <1>1, SetOf
      <3>. QED BY <3>2, <3>3, <1>2
    <2>2. ASSUME NEW x \in ToSet(s) PROVE x \in ToSet(s \o t)
      <3>1. PICK i \in 1 .. Len(s) : s[i] = x
        BY SetOf
      <3>. QED BY <3>1, <1>1, <1>3, SetOf
    <2>3. ASSUME NEW x \in ToSet(t) PROVE x \in ToSet(s \o t)
      <3>1. PICK i \in 1 .. Len(t) : t[i] = x
        BY SetOf
      <3>. QED BY <3>1, <1>1, <1>3, SetOf
    <2>. QED BY <2>1, <2>2, <2>3
  <1>5. ASSUME Distinct(s), Distinct(t), ToSet(s) \cap ToSet(t) = {},
               NEW i \in 1 .. Len(s \o t), NEW j \in 1 .. Len(s \o t),
               (s \o t)[i] = (s \o t)[j]
        PROVE  i = j
    <2>1. CASE i \in 1 .. Len(s) /\ j \in 1 .. Len(s)
      BY <1>5, <2>1, <1>1 DEF Distinct
    <2>2. ASSUME NEW m \in 1 .. Len(s), NEW n \in 1 .. Len(t), s[m] = t[n] PROVE FALSE
      <3>1. s[m] \in ToSet(s) /\ t[n] \in ToSet(t)
        BY SetOf
      <3>. QED BY <3>1, <2>2, <1>5
    <2>3. ASSUME NEW m \in 1 .. Len(t), i = Len(s) + m, NEW n \in 1 .. Len(t), j = Len(s) + n
          PROVE  i = j
      <3>1. t[m] = t[n]
        BY <2>3, <1>5, <1>1
      <3>. QED BY <3>1, <2>3, <1>5 DEF Distinct
    <2>4. ASSUME i \in 1 .. Len(s), NEW n \in 1 .. Len(t), j = Len(s) + n PROVE FALSE
      BY <2>2, <2>4, <1>1, <1>5
    <2>5. ASSUME j \in 1 .. Len(s), NEW m \in 1 .. Len(t), i = Len(s) + m PROVE FALSE
      <3>1. s[j] = t[m]
        BY <2>5, <1>1, <1>5
      <3>. QED BY <2>2, <2>5, <3>1
    <2>6. /\ i \in 1 .. Len(s) \/ \E m \in 1 .. Len(t) : i = Len(s) + m
          /\ j \in 1 .. Len(s) \/ \E n \in 1 .. Len(t) : j = Len(s) + n
      BY <1>2
    <2>. QED BY <2>1, <2>3, <2>4, <2>5, <2>6
  <1>. QED BY <1>1, <1>4, <1>5 DEF Distinct

(* Sequences none of whose elements comes twice, in one or in two of them. *)
Apart(seqs) ==
    /\ \A i \in 1 .. Len(seqs) : Distinct(seqs[i])
    /\ \A i, j \in 1 .. Len(seqs) : i # j => ToSet(seqs[i]) \cap ToSet(seqs[j]) = {}

(* The elements of the first k.                                            *)
UpTo(seqs, k) == UNION {ToSet(seqs[i]) : i \in 1 .. k}

(* The least k for which this fails is neither 1 nor another number.       *)
LEMMA JoinedGives ==
    ASSUME NEW S, NEW seqs \in Seq(Seq(S)), NEW f, Joined(seqs, f, Len(seqs))
    PROVE  \A k \in 1 .. Len(seqs) :
              /\ f[k] \in Seq(S) /\ ToSet(f[k]) = UpTo(seqs, k)
              /\ Apart(seqs) => Distinct(f[k])
  <1>. DEFINE Good(k) == /\ f[k] \in Seq(S) /\ ToSet(f[k]) = UpTo(seqs, k)
                         /\ Apart(seqs) => Distinct(f[k])
              T == {k \in 1 .. Len(seqs) : ~Good(k)}
  <1>1. Len(seqs) \in Nat /\ \A i \in 1 .. Len(seqs) : seqs[i] \in Seq(S)
    OBVIOUS
  <1>2. \A i \in 1 .. Len(seqs) : f[i] = IF i = 1 THEN seqs[i] ELSE f[i - 1] \o seqs[i]
    BY Zenon DEF Joined
  <1>3. ASSUME T # {} PROVE FALSE
    <2>1. PICK k \in T : \A j \in T : k <= j
      <3>1. T \in SUBSET Nat
        OBVIOUS
      <3>. HIDE DEF T
      <3>. QED BY <3>1, <1>3, Least
    <2>2. k \in 1 .. Len(seqs) /\ ~Good(k) /\ seqs[k] \in Seq(S)
      BY <2>1, <1>1
    <2>3. CASE k = 1
      <3>1. f[k] = seqs[1]
        BY <1>2, <2>2, <2>3
      <3>2. UpTo(seqs, 1) = ToSet(seqs[1])
        <4>1. 1 .. 1 = {1}
          OBVIOUS
        <4>. QED BY <4>1 DEF UpTo
      <3>3. Apart(seqs) => Distinct(seqs[1])
        BY <2>2, <2>3 DEF Apart
      <3>. QED BY <2>2, <2>3, <3>1, <3>2, <3>3
    <2>4. CASE k # 1
      <3>1. k - 1 \in 1 .. Len(seqs) /\ ~(k <= k - 1)
        BY <2>2, <2>4
      <3>2. Good(k - 1)
        BY <3>1, <2>1
      <3>3. f[k] = f[k - 1] \o seqs[k]
        BY <1>2, <2>2, <2>4
      <3>4. f[k - 1] \in Seq(S) /\ ToSet(f[k - 1]) = UpTo(seqs, k - 1)
            /\ (Apart(seqs) => Distinct(f[k - 1]))
        BY <3>2
      <3>. HIDE DEF Good
      <3>5. /\ f[k] \in Seq(S) /\ ToSet(f[k]) = UpTo(seqs, k - 1) \cup ToSet(seqs[k])
            /\ Distinct(f[k - 1]) /\ Distinct(seqs[k])
               /\ UpTo(seqs, k - 1) \cap ToSet(seqs[k]) = {} => Distinct(f[k])
        BY <3>3, <3>4, <2>2, Concatenated
      <3>6. 1 .. k = (1 .. k - 1) \cup {k} /\ k \notin 1 .. k - 1
        BY <2>2
      <3>7. UpTo(seqs, k) = UpTo(seqs, k - 1) \cup ToSet(seqs[k])
        BY <3>6 DEF UpTo
      <3>8. ASSUME Apart(seqs)
            PROVE  Distinct(seqs[k]) /\ UpTo(seqs, k - 1) \cap ToSet(seqs[k]) = {}
        <4>1. \A i \in 1 .. k - 1 : i \in 1 .. Len(seqs) /\ i # k
          BY <2>2
        <4>2. \A i \in 1 .. k - 1 : ToSet(seqs[i]) \cap ToSet(seqs[k]) = {}
          BY <3>8, <4>1, <2>2 DEF Apart
        <4>. QED BY <4>2, <3>8, <2>2 DEF Apart, UpTo
      <3>9. Good(k)
        BY <3>4, <3>5, <3>7, <3>8 DEF Good
      <3>. QED BY <3>9, <2>2
    <2>. QED BY <2>3, <2>4
  <1>. QED BY <1>3

(* What FlattenSeq makes of sequences.                                     *)
LEMMA FlattenGives ==
    ASSUME NEW S, NEW seqs \in Seq(Seq(S))
    PROVE  /\ FlattenSeq(seqs) \in Seq(S)
           /\ ToSet(FlattenSeq(seqs)) = UpTo(seqs, Len(seqs))
           /\ Apart(seqs) => Distinct(FlattenSeq(seqs))
  <1>1. Len(seqs) \in Nat
    OBVIOUS
  <1>2. PICK f : /\ Joined(seqs, f, Len(seqs))
                 /\ FlattenSeq(seqs) = IF Len(seqs) = 0 THEN seqs ELSE f[Len(seqs)]
    BY <1>1, Flattened
  <1>3. CASE Len(seqs) = 0
    <2>1. FlattenSeq(seqs) = <<>>
      BY <1>2, <1>3
    <2>2. /\ <<>> \in Seq(S) /\ Len(<<>>) = 0 /\ ToSet(<<>>) = {} /\ Distinct(<<>>)
      BY DEF ToSet, Distinct
    <2>3. UpTo(seqs, 0) = {}
      <3>1. 1 .. 0 = {}
        OBVIOUS
      <3>. QED BY <3>1 DEF UpTo
    <2>. QED BY <1>3, <2>1, <2>2, <2>3
  <1>4. CASE Len(seqs) # 0
    <2>1. Len(seqs) \in 1 .. Len(seqs) /\ FlattenSeq(seqs) = f[Len(seqs)]
      BY <1>1, <1>2, <1>4
    <2>. QED BY <2>1, <1>2, JoinedGives
  <1>. QED BY <1>3, <1>4

(* Sorted lists a set: each member once.                                   *)
LEMMA SortedLists ==
    ASSUME NEW keys \in SUBSET Nat, IsFiniteSet(keys)
    PROVE  /\ Sorted(keys) \in Seq(keys) /\ ToSet(Sorted(keys)) = keys
           /\ Distinct(Sorted(keys))
  <1>. DEFINE Place(k) == Cardinality({j \in keys : j <= k})
              At(i)    == CHOOSE k \in keys : Place(k) = i
              s        == [i \in 1 .. Cardinality(keys) |-> At(i)]
  <1>1. Cardinality(keys) \in Nat
    BY FS_CardinalityType
  <1>2. \A i \in 1 .. Cardinality(keys) : At(i) \in keys /\ Place(At(i)) = i
    <2>. TAKE i \in 1 .. Cardinality(keys)
    <2>1. \E k \in keys : Place(k) = i
      BY FromTheStart
    <2>. HIDE DEF Place
    <2>. QED BY <2>1
  <1>3. \A k \in keys : Place(k) \in 1 .. Cardinality(keys)
    <2>. TAKE k \in keys
    <2>. DEFINE P == {j \in keys : j <= k}
    <2>1. P \in SUBSET keys /\ k \in P
      OBVIOUS
    <2>. HIDE DEF P
    <2>2. IsFiniteSet(P) /\ Cardinality(P) <= Cardinality(keys) /\ Cardinality(P) \in Nat
          /\ Cardinality(P) # 0
      BY <2>1, FS_Subset, FS_EmptySet, FS_CardinalityType
    <2>. QED BY <2>2, <1>1 DEF P
  <1>4. \A k, l \in keys : Place(k) = Place(l) => k = l
    BY OnePlace
  <1>5. Sorted(keys) = s
    BY DEF Sorted
  <1>. HIDE DEF Place, At
  <1>6. s \in Seq(keys) /\ Len(s) = Cardinality(keys)
    BY <1>1, <1>2
  <1>7. \A i \in 1 .. Cardinality(keys) : s[i] = At(i)
    OBVIOUS
  <1>. HIDE DEF s
  <1>8. \A k \in keys : k \in ToSet(s)
    <2>. TAKE k \in keys
    <2>1. Place(k) \in 1 .. Cardinality(keys)
      BY <1>3
    <2>2. s[Place(k)] = k
      BY <2>1, <1>2, <1>4, <1>7
    <2>. QED BY <2>1, <2>2, <1>6, SetOf
  <1>9. ToSet(s) = keys
    BY <1>6, <1>8, SetOf
  <1>10. Distinct(s)
    BY <1>2, <1>6, <1>7 DEF Distinct
  <1>. QED BY <1>5, <1>6, <1>9, <1>10
----------------------------------------------------------------------------
Log == {"byte", Newline}

(* What tail drops at the end: newlines, and all of them.                  *)
LEMMA Trimmed ==
    ASSUME NEW s \in Seq(Log)
    PROVE  LET last == Max({0} \cup (DOMAIN s \ Breaks(s)))
           IN  /\ last \in 0 .. Len(s)
               /\ \A i \in last + 1 .. Len(s) : s[i] = Newline
               /\ last > 0 => s[last] # Newline
               /\ TrimNewlines(s) = SubSeq(s, 1, last)
               /\ TrimNewlines(s) \in Seq(Log) /\ Len(TrimNewlines(s)) = last
               /\ \A i \in 1 .. last : TrimNewlines(s)[i] = s[i]
               /\ Breaks(TrimNewlines(s)) = {i \in 1 .. last : s[i] = Newline}
  <1>. DEFINE K == {0} \cup (DOMAIN s \ Breaks(s))
              last == Max(K)
  <1>1. Len(s) \in Nat /\ DOMAIN s = 1 .. Len(s) /\ \A i \in 1 .. Len(s) : s[i] \in Log
    OBVIOUS
  <1>2. K \in SUBSET (0 .. Len(s)) /\ K # {}
    BY <1>1
  <1>3. \A i \in 1 .. Len(s) : i \in K <=> s[i] # Newline
    BY <1>1 DEF Breaks
  <1>4. last \in K /\ \A i \in K : i <= last
    <2>. HIDE DEF K
    <2>. QED BY <1>1, <1>2, Greatest
  <1>. HIDE DEF K
  <1>. HIDE DEF last
  <1>5. last \in 0 .. Len(s) /\ last \in Nat
    BY <1>1, <1>2, <1>4
  <1>6. \A i \in last + 1 .. Len(s) : s[i] = Newline
    BY <1>1, <1>3, <1>4, <1>5
  <1>7. last > 0 => s[last] # Newline
    BY <1>3, <1>4, <1>5
  <1>8. TrimNewlines(s) = SubSeq(s, 1, last)
    BY DEF TrimNewlines, last, K
  <1>9. /\ SubSeq(s, 1, last) \in Seq(Log) /\ Len(SubSeq(s, 1, last)) = last
        /\ DOMAIN SubSeq(s, 1, last) = 1 .. last
        /\ \A i \in 1 .. last : SubSeq(s, 1, last)[i] = s[i]
    BY <1>1, <1>5
  <1>10. Breaks(TrimNewlines(s)) = {i \in 1 .. last : s[i] = Newline}
    BY <1>8, <1>9 DEF Breaks
  <1>. QED BY <1>5, <1>6, <1>7, <1>8, <1>9, <1>10 DEF last, K

(* tail gives the last n lines.                                            *)
LEMMA TailGivesLast ==
    ASSUME NEW s \in Seq(Log), NEW n \in Nat \ {0}
    PROVE  AreLastLines(TailOf(s, n), s, n)
  <1>. DEFINE last == Max({0} \cup (DOMAIN s \ Breaks(s)))
              t == TrimNewlines(s)
              B == {i \in 1 .. last : s[i] = Newline}
              In(first) == {i \in first .. last : s[i] = Newline}
              Meant(first, text) ==
                  /\ text = SubSeq(s, first, last)
                  /\ \A i \in last + 1 .. Len(s) : s[i] = Newline
                  /\ last > 0 => first <= last /\ s[last] # Newline
                  /\ first > 1 => s[first - 1] = Newline
                  /\ LET lines == 1 + Cardinality(In(first))
                     IN  lines <= n /\ (first > 1 => lines = n)
  <1>1. /\ last \in 0 .. Len(s)
        /\ \A i \in last + 1 .. Len(s) : s[i] = Newline
        /\ last > 0 => s[last] # Newline
        /\ t = SubSeq(s, 1, last)
        /\ t \in Seq(Log) /\ Len(t) = last
        /\ \A i \in 1 .. last : t[i] = s[i]
        /\ Breaks(t) = B
    BY Trimmed
  <1>2. \A first \in 1 .. last + 1 : \A text : Meant(first, text) => AreLastLines(text, s, n)
    BY <1>1 DEF AreLastLines
  <1>. HIDE DEF last, t
  <1>3. last \in Nat /\ Len(s) \in Nat
    BY <1>1
  <1>4. IsFiniteSet(B) /\ Cardinality(B) \in Nat
    <2>1. IsFiniteSet(1 .. last)
      BY <1>3, FS_Interval
    <2>2. B \in SUBSET (1 .. last)
      OBVIOUS
    <2>. QED BY <2>1, <2>2, FS_Subset, FS_CardinalityType
  <1>n. ~(n <= 0)
    OBVIOUS
  <1>t. TailOf(s, n) =
            IF Cardinality(Breaks(t)) < n THEN t
            ELSE LET c == CHOOSE i \in Breaks(t) : Cardinality({j \in Breaks(t) : j >= i}) = n
                 IN  SubSeq(t, c + 1, Len(t))
    BY <1>n, Zenon DEF TailOf, t
  <1>5. CASE Cardinality(B) < n
    <2>1. TailOf(s, n) = t
      BY <1>1, <1>5, <1>t, Zenon
    <2>2. In(1) = B
      OBVIOUS
    <2>3. 1 \in 1 .. last + 1 /\ (last > 0 => 1 <= last)
      BY <1>3
    <2>4. 1 + Cardinality(In(1)) <= n
      BY <1>4, <1>5, <2>2
    <2>5. Meant(1, t)
      BY <1>1, <2>3, <2>4
    <2>. QED BY <1>2, <2>1, <2>3, <2>5
  <1>6. CASE ~(Cardinality(B) < n)
    <2>. DEFINE b == CHOOSE i \in B : Cardinality({j \in B : j >= i}) = n
    <2>1. b \in B /\ Cardinality({j \in B : j >= b}) = n
      <3>1. n \in 1 .. Cardinality(B) /\ B \in SUBSET (0 .. last)
        BY <1>4, <1>6
      <3>2. \E i \in B : Cardinality({j \in B : j >= i}) = n
        <4>. HIDE DEF B
        <4>. QED BY <1>3, <3>1, FromTheEnd
      <3>. HIDE DEF B
      <3>. QED BY <3>2
    <2>2. TailOf(s, n) = SubSeq(t, b + 1, last)
      <3>. HIDE DEF B
      <3>. QED BY <1>1, <1>6, <1>t, Zenon
    <2>. HIDE DEF b
    <2>3. b \in 1 .. last /\ s[b] = Newline /\ b < last
      BY <2>1, <1>1, <1>3
    <2>4. SubSeq(t, b + 1, last) = SubSeq(s, b + 1, last)
      BY <1>1, <1>3, <2>3
    <2>5. In(b + 1) = {j \in B : j >= b} \ {b}
      BY <1>3, <2>3
    <2>6. Cardinality(In(b + 1)) = n - 1
      <3>. DEFINE C == {j \in B : j >= b}
      <3>1. C \in SUBSET B /\ b \in C
        BY <2>1, <2>3
      <3>2. IsFiniteSet(C) /\ Cardinality(C) = n
        BY <3>1, <1>4, <2>1, FS_Subset
      <3>. HIDE DEF C
      <3>3. Cardinality(C \ {b}) = n - 1
        BY <3>1, <3>2, FS_RemoveElement
      <3>. QED BY <3>3, <2>5 DEF C
    <2>7. b + 1 \in 1 .. last + 1 /\ b + 1 <= last /\ (b + 1) - 1 = b
      BY <1>3, <2>3
    <2>8. Meant(b + 1, SubSeq(s, b + 1, last))
      BY <1>1, <2>3, <2>6, <2>7
    <2>. QED BY <1>2, <2>2, <2>4, <2>7, <2>8
  <1>. QED BY <1>5, <1>6
----------------------------------------------------------------------------
Detail == [path : Seq(Nat), field : Nat]

(* The paths at which at most h levels, that one included, are to come,    *)
(* and a function that has the lists of validationDetails there.           *)
Deep(data, h) == {p \in DOMAIN data : Len(p) + h > Depth}

Detailed(data, d, h) == d = [p \in Deep(data, h) |-> DetailsFrom(data, p, d)]

(* What IsTree says of one node.                                           *)
LEMMA Nodes ==
    ASSUME NEW data, IsTree(data), NEW p \in DOMAIN data
    PROVE  /\ <<>> \in DOMAIN data /\ p \in Seq(Nat) /\ Len(p) \in 0 .. Depth
           /\ OwnErrors(data[p]) \in SUBSET Nat /\ IsFiniteSet(OwnErrors(data[p]))
           /\ data[p].members \in SUBSET Nat /\ IsFiniteSet(data[p].members)
           /\ \A k \in data[p].members :
                 /\ Append(p, k) \in DOMAIN data /\ Append(p, k) \in Seq(Nat)
                 /\ Len(Append(p, k)) = Len(p) + 1
           /\ p # <<>> => Front(p) \in DOMAIN data /\ Last(p) \in data[Front(p)].members
  <1>1. /\ <<>> \in DOMAIN data /\ p \in Seq(Nat) /\ Len(p) <= Depth
        /\ data[p].errors \in SUBSET Nat /\ IsFiniteSet(data[p].errors)
        /\ data[p].members \in SUBSET Nat /\ IsFiniteSet(data[p].members)
        /\ \A k \in data[p].members : Append(p, k) \in DOMAIN data
        /\ p # <<>> => Front(p) \in DOMAIN data /\ Last(p) \in data[Front(p)].members
    BY DEF IsTree
  <1>2. Len(p) \in 0 .. Depth
    BY <1>1, DepthAssumption
  <1>3. \A k \in data[p].members : Append(p, k) \in Seq(Nat) /\ Len(Append(p, k)) = Len(p) + 1
    BY <1>1
  <1>4. OwnErrors(data[p]) \in SUBSET Nat /\ IsFiniteSet(OwnErrors(data[p]))
    <2>1. OwnErrors(data[p]) \in {data[p].errors, {}}
      BY DEF OwnErrors
    <2>. QED BY <1>1, <2>1, FS_EmptySet
  <1>. QED BY <1>1, <1>2, <1>3, <1>4

(* A list is made of those of the members alone.                           *)
LEMMA FromMembers ==
    ASSUME NEW data, IsTree(data), NEW p \in DOMAIN data, NEW d, NEW e,
           \A k \in data[p].members : d[Append(p, k)] = e[Append(p, k)]
    PROVE  DetailsFrom(data, p, d) = DetailsFrom(data, p, e)
  <1>. DEFINE keys == Sorted(data[p].members)
  <1>1. keys \in Seq(data[p].members)
    BY Nodes, SortedLists
  <1>2. \A i \in DOMAIN keys : keys[i] \in data[p].members
    BY <1>1
  <1>3. [i \in DOMAIN keys |-> d[Append(p, keys[i])]] =
        [i \in DOMAIN keys |-> e[Append(p, keys[i])]]
    BY <1>2
  <1>. QED BY <1>3 DEF DetailsFrom

(* The function of one more level is made from that of one less.           *)
LEMMA DetailedExists ==
    ASSUME NEW data, IsTree(data)
    PROVE  \A h \in Nat : \E d : Detailed(data, d, h)
  <1>. DEFINE T == {h \in Nat : ~\E d : Detailed(data, d, h)}
  <1>1. ASSUME T # {} PROVE FALSE
    <2>1. PICK h \in T : \A j \in T : h <= j
      <3>1. T \in SUBSET Nat
        OBVIOUS
      <3>. HIDE DEF T
      <3>. QED BY <3>1, <1>1, Least
    <2>2. h \in Nat /\ ~\E d : Detailed(data, d, h)
      BY <2>1
    <2>3. CASE h = 0
      <3>1. Deep(data, 0) = {}
        <4>1. \A p \in DOMAIN data : ~(Len(p) + 0 > Depth)
          BY Nodes, DepthAssumption
        <4>. QED BY <4>1 DEF Deep
      <3>2. Detailed(data, [p \in {} |-> 0], 0)
        BY <3>1 DEF Detailed
      <3>. QED BY <3>2, <2>2, <2>3
    <2>4. CASE h # 0
      <3>1. h - 1 \in Nat /\ ~(h <= h - 1)
        BY <2>2, <2>4
      <3>2. h - 1 \notin T
        BY <3>1, <2>1
      <3>3. PICK d : Detailed(data, d, h - 1)
        BY <3>1, <3>2
      <3>. DEFINE g == [p \in Deep(data, h) |-> DetailsFrom(data, p, d)]
      <3>4. \A p \in Deep(data, h - 1) : d[p] = DetailsFrom(data, p, d)
        BY <3>3, Zenon DEF Detailed
      <3>5. \A p \in Deep(data, h) : g[p] = DetailsFrom(data, p, d)
        OBVIOUS
      <3>6. g = [p \in Deep(data, h) |-> DetailsFrom(data, p, d)]
        OBVIOUS
      <3>. HIDE DEF g
      <3>7. \A p \in Deep(data, h - 1) : p \in Deep(data, h)
        BY <2>2, Nodes, DepthAssumption DEF Deep
      <3>8. \A p \in Deep(data, h - 1) : g[p] = d[p]
        BY <3>4, <3>5, <3>7, Zenon
      <3>9. \A p \in Deep(data, h) : DetailsFrom(data, p, d) = DetailsFrom(data, p, g)
        <4>. TAKE p \in Deep(data, h)
        <4>1. p \in DOMAIN data /\ Len(p) + h > Depth /\ Len(p) \in Nat
          BY Nodes DEF Deep
        <4>2. ASSUME NEW k \in data[p].members PROVE Append(p, k) \in Deep(data, h - 1)
          <5>1. Append(p, k) \in DOMAIN data /\ Len(Append(p, k)) = Len(p) + 1
            BY <4>1, Nodes
          <5>2. Len(p) + 1 + (h - 1) > Depth
            BY <4>1, <2>2, DepthAssumption
          <5>. QED BY <5>1, <5>2 DEF Deep
        <4>3. \A k \in data[p].members : d[Append(p, k)] = g[Append(p, k)]
          BY <4>2, <3>8
        <4>. QED BY <4>1, <4>3, FromMembers
      <3>10. g = [p \in Deep(data, h) |-> DetailsFrom(data, p, g)]
        BY <3>6, <3>9, Zenon
      <3>11. Detailed(data, g, h)
        BY <3>10, Zenon DEF Detailed
      <3>. QED BY <3>11, <2>2
    <2>. QED BY <2>3, <2>4
  <1>. QED BY <1>1

(* The list that validationDetails gives is that of the root.              *)
LEMMA RootList ==
    ASSUME NEW data, IsTree(data)
    PROVE  \E d : /\ \A p \in DOMAIN data : d[p] = DetailsFrom(data, p, d)
                  /\ ValidationDetails(data) = d[<<>>]
  <1>. DEFINE Whole(d) == d = [p \in DOMAIN data |-> DetailsFrom(data, p, d)]
  <1>1. \E d : Whole(d)
    <2>1. Depth + 1 \in Nat /\ Deep(data, Depth + 1) = DOMAIN data
      <3>1. \A p \in DOMAIN data : Len(p) + (Depth + 1) > Depth
        BY Nodes, DepthAssumption
      <3>. QED BY <3>1, DepthAssumption DEF Deep
    <2>2. PICK d : Detailed(data, d, Depth + 1)
      BY <2>1, DetailedExists
    <2>3. Whole(d)
      BY <2>1, <2>2 DEF Detailed
    <2>. QED BY <2>3
  <1>. DEFINE d == CHOOSE f : Whole(f)
  <1>2. Whole(d)
    BY <1>1
  <1>3. ValidationDetails(data) = d[<<>>]
    BY DEF ValidationDetails
  <1>. HIDE DEF d
  <1>4. \A p \in DOMAIN data : d[p] = DetailsFrom(data, p, d)
    BY <1>2, Zenon
  <1>. QED BY <1>3, <1>4

(* The fields named at a path or below it.                                 *)
Under(data, p) ==
    {e \in FieldErrors(data) : Len(p) <= Len(e.path) /\ SubSeq(e.path, 1, Len(p)) = p}

LEMMA FieldsTyped ==
    ASSUME NEW data, IsTree(data)
    PROVE  \A e : e \in FieldErrors(data) <=>
               \E p \in DOMAIN data : \E f \in OwnErrors(data[p]) : e = [path |-> p, field |-> f]
  BY DEF FieldErrors, OwnErrors

LEMMA FieldsAreDetails ==
    ASSUME NEW data, IsTree(data), NEW e \in FieldErrors(data)
    PROVE  e \in Detail /\ e.path \in DOMAIN data /\ e.field \in OwnErrors(data[e.path])
  <1>1. PICK p \in DOMAIN data : \E f \in OwnErrors(data[p]) : e = [path |-> p, field |-> f]
    BY FieldsTyped
  <1>2. p \in Seq(Nat) /\ OwnErrors(data[p]) \in SUBSET Nat
    BY Nodes
  <1>. QED BY <1>1, <1>2 DEF Detail

(* Every beginning of a path is a path, to a value that holds the next key.*)
LEMMA Beginnings ==
    ASSUME NEW data, IsTree(data), NEW q \in DOMAIN data, NEW m \in 0 .. Len(q) - 1
    PROVE  /\ SubSeq(q, 1, m) \in DOMAIN data
           /\ q[m + 1] \in data[SubSeq(q, 1, m)].members
           /\ SubSeq(q, 1, m + 1) = Append(SubSeq(q, 1, m), q[m + 1])
  <1>. DEFINE Good(i) == SubSeq(q, 1, i) \in DOMAIN data
              T == {n \in Nat : n <= Len(q) /\ ~Good(Len(q) - n)}
  <1>1. q \in Seq(Nat) /\ Len(q) \in Nat /\ m \in Nat /\ m + 1 <= Len(q)
    BY Nodes
  <1>2. \A i \in 0 .. Len(q) : /\ SubSeq(q, 1, i) \in Seq(Nat) /\ Len(SubSeq(q, 1, i)) = i
                               /\ \A j \in 1 .. i : SubSeq(q, 1, i)[j] = q[j]
    BY <1>1
  <1>3. \A i \in 0 .. Len(q) - 1 : Good(i + 1) =>
           /\ Good(i) /\ q[i + 1] \in data[SubSeq(q, 1, i)].members
    <2>. SUFFICES ASSUME NEW i \in 0 .. Len(q) - 1, Good(i + 1)
                  PROVE  Good(i) /\ q[i + 1] \in data[SubSeq(q, 1, i)].members
      OBVIOUS
    <2>. DEFINE p == SubSeq(q, 1, i + 1)
    <2>0. i + 1 \in 0 .. Len(q) /\ i \in Nat
      BY <1>1
    <2>1. p \in DOMAIN data /\ p \in Seq(Nat) /\ Len(p) = i + 1 /\ p # <<>>
          /\ \A j \in 1 .. i + 1 : p[j] = q[j]
      BY <1>2, <2>0
    <2>2. Front(p) = SubSeq(q, 1, i)
      <3>1. Front(p) = SubSeq(p, 1, i)
        BY <2>0, <2>1 DEF Front
      <3>2. SubSeq(p, 1, i) = SubSeq(q, 1, i)
        <4>. HIDE DEF p
        <4>. QED BY <2>0, <2>1, <1>1
      <3>. QED BY <3>1, <3>2
    <2>3. Last(p) = q[i + 1]
      BY <2>0, <2>1 DEF Last
    <2>4. Front(p) \in DOMAIN data /\ Last(p) \in data[Front(p)].members
      BY <2>1, Nodes
    <2>. QED BY <2>2, <2>3, <2>4
  <1>4. ASSUME T # {} PROVE FALSE
    <2>1. PICK n \in T : \A j \in T : n <= j
      <3>1. T \in SUBSET Nat
        OBVIOUS
      <3>. HIDE DEF T
      <3>. QED BY <3>1, <1>4, Least
    <2>2. n \in Nat /\ n <= Len(q) /\ ~Good(Len(q) - n)
      BY <2>1
    <2>3. n # 0
      <3>1. SubSeq(q, 1, Len(q)) = q /\ Len(q) - 0 = Len(q)
        BY <1>1
      <3>2. Good(Len(q) - 0)
        BY <3>1
      <3>. HIDE DEF Good
      <3>. QED BY <2>2, <3>2
    <2>4. n - 1 \in Nat /\ n - 1 <= Len(q) /\ ~(n <= n - 1)
      BY <2>2, <2>3
    <2>5. n - 1 \notin T
      BY <2>1, <2>4
    <2>6. Good(Len(q) - (n - 1))
      BY <2>4, <2>5
    <2>7. Len(q) - n \in 0 .. Len(q) - 1 /\ Len(q) - (n - 1) = (Len(q) - n) + 1
      BY <1>1, <2>2, <2>4
    <2>. HIDE DEF Good
    <2>. QED BY <1>3, <2>2, <2>6, <2>7
  <1>5. Good(m + 1)
    <2>1. Len(q) - (m + 1) \in Nat /\ Len(q) - (Len(q) - (m + 1)) = m + 1
          /\ Len(q) - (m + 1) <= Len(q)
      BY <1>1
    <2>2. Len(q) - (m + 1) \notin T
      BY <1>4
    <2>. QED BY <2>1, <2>2
  <1>6. SubSeq(q, 1, m + 1) = Append(SubSeq(q, 1, m), q[m + 1])
    BY <1>1
  <1>. QED BY <1>3, <1>5, <1>6

LEMMA SameAppend ==
    ASSUME NEW s \in Seq(Nat), NEW t \in Seq(Nat), NEW a \in Nat, NEW b \in Nat,
           Append(s, a) = Append(t, b)
    PROVE  s = t /\ a = b
  BY AppendInjective

(* What is named at a node and below it.                                   *)
LEMMA Parts ==
    ASSUME NEW data, IsTree(data), NEW p \in DOMAIN data
    PROVE  /\ Under(data, p) = {[path |-> p, field |-> f] : f \in OwnErrors(data[p])}
                               \cup UNION {Under(data, Append(p, k)) : k \in data[p].members}
           /\ \A k \in data[p].members :
                 {[path |-> p, field |-> f] : f \in OwnErrors(data[p])}
                 \cap Under(data, Append(p, k)) = {}
           /\ \A k, l \in data[p].members :
                 k # l => Under(data, Append(p, k)) \cap Under(data, Append(p, l)) = {}
  <1>. DEFINE Own == {[path |-> p, field |-> f] : f \in OwnErrors(data[p])}
  <1>1. /\ p \in Seq(Nat) /\ Len(p) \in Nat
        /\ \A k \in data[p].members :
              /\ Append(p, k) \in DOMAIN data /\ Append(p, k) \in Seq(Nat)
              /\ Len(Append(p, k)) = Len(p) + 1 /\ k \in Nat
    BY Nodes
  <1>2. \A e \in FieldErrors(data) : e.path \in DOMAIN data /\ e.path \in Seq(Nat)
                                     /\ Len(e.path) \in Nat
    BY FieldsAreDetails, Nodes
  <1>3. \A e \in Own : /\ e.path = p /\ e \in FieldErrors(data) /\ e \in Under(data, p)
    <2>. TAKE e \in Own
    <2>1. e.path = p /\ e \in FieldErrors(data)
      BY FieldsTyped
    <2>2. SubSeq(p, 1, Len(p)) = p
      BY <1>1
    <2>. QED BY <2>1, <2>2, <1>1 DEF Under
  <1>4. ASSUME NEW k \in data[p].members, NEW e \in Under(data, Append(p, k))
        PROVE  e \in Under(data, p) /\ Len(e.path) >= Len(p) + 1
               /\ SubSeq(e.path, 1, Len(p) + 1) = Append(p, k)
    <2>1. /\ e \in FieldErrors(data) /\ Len(e.path) >= Len(p) + 1
          /\ SubSeq(e.path, 1, Len(p) + 1) = Append(p, k)
      BY <1>1, <1>4 DEF Under
    <2>2. e.path \in Seq(Nat) /\ Len(e.path) \in Nat
      BY <1>2, <2>1
    <2>3. SubSeq(e.path, 1, Len(p) + 1) = Append(SubSeq(e.path, 1, Len(p)), e.path[Len(p) + 1])
      BY <1>1, <2>1, <2>2
    <2>4. SubSeq(e.path, 1, Len(p)) \in Seq(Nat) /\ e.path[Len(p) + 1] \in Nat
      BY <1>1, <2>1, <2>2
    <2>5. SubSeq(e.path, 1, Len(p)) = p
      <3>1. Append(SubSeq(e.path, 1, Len(p)), e.path[Len(p) + 1]) = Append(p, k) /\ k \in Nat
        BY <1>1, <2>1, <2>3
      <3>. QED BY <1>1, <2>4, <3>1, SameAppend
    <2>. QED BY <1>1, <2>1, <2>2, <2>5 DEF Under
  <1>5. ASSUME NEW e \in Under(data, p), e \notin Own
        PROVE  \E k \in data[p].members : e \in Under(data, Append(p, k))
    <2>1. /\ e \in FieldErrors(data) /\ Len(p) <= Len(e.path)
          /\ SubSeq(e.path, 1, Len(p)) = p
      BY <1>5 DEF Under
    <2>2. e \in Detail /\ e.path \in DOMAIN data /\ e.field \in OwnErrors(data[e.path])
          /\ e.path \in Seq(Nat) /\ Len(e.path) \in Nat
      BY <2>1, <1>2, FieldsAreDetails
    <2>3. Len(e.path) # Len(p)
      <3>. SUFFICES ASSUME Len(e.path) = Len(p) PROVE FALSE
        OBVIOUS
      <3>1. e.path = p
        BY <2>1, <2>2, SubSeqFull
      <3>2. e = [path |-> p, field |-> e.field]
        BY <2>2, <3>1 DEF Detail
      <3>. QED BY <2>2, <3>1, <3>2, <1>5
    <2>4. Len(p) \in 0 .. Len(e.path) - 1
      BY <1>1, <2>1, <2>2, <2>3
    <2>5. /\ e.path[Len(p) + 1] \in data[p].members
          /\ SubSeq(e.path, 1, Len(p) + 1) = Append(p, e.path[Len(p) + 1])
      BY <2>1, <2>2, <2>4, Beginnings
    <2>6. e \in Under(data, Append(p, e.path[Len(p) + 1]))
      BY <1>1, <2>1, <2>4, <2>5, <2>2 DEF Under
    <2>. QED BY <2>5, <2>6
  <1>6. Under(data, p) = Own \cup UNION {Under(data, Append(p, k)) : k \in data[p].members}
    BY <1>3, <1>4, <1>5
  <1>7. \A k \in data[p].members : Own \cap Under(data, Append(p, k)) = {}
    <2>. SUFFICES ASSUME NEW k \in data[p].members, NEW e \in Own, e \in Under(data, Append(p, k))
                  PROVE  FALSE
      OBVIOUS
    <2>1. e.path = p /\ Len(e.path) >= Len(p) + 1
      BY <1>3, <1>4
    <2>. QED BY <2>1, <1>1
  <1>8. \A k, l \in data[p].members :
           k # l => Under(data, Append(p, k)) \cap Under(data, Append(p, l)) = {}
    <2>. SUFFICES ASSUME NEW k \in data[p].members, NEW l \in data[p].members,
                         NEW e \in Under(data, Append(p, k)), e \in Under(data, Append(p, l))
                  PROVE  k = l
      OBVIOUS
    <2>1. Append(p, k) = Append(p, l)
      BY <1>4
    <2>. QED BY <2>1, <1>1, SameAppend
  <1>. QED BY <1>6, <1>7, <1>8

(* The list of a node, if those of the members are right.                  *)
LEMMA NodeList ==
    ASSUME NEW data, IsTree(data), NEW p \in DOMAIN data, NEW d,
           \A k \in data[p].members :
              /\ d[Append(p, k)] \in Seq(Detail) /\ Distinct(d[Append(p, k)])
              /\ ToSet(d[Append(p, k)]) = Under(data, Append(p, k))
    PROVE  /\ DetailsFrom(data, p, d) \in Seq(Detail) /\ Distinct(DetailsFrom(data, p, d))
           /\ ToSet(DetailsFrom(data, p, d)) = Under(data, p)
  <1>. DEFINE Own    == {[path |-> p, field |-> f] : f \in OwnErrors(data[p])}
              fields == Sorted(OwnErrors(data[p]))
              keys   == Sorted(data[p].members)
              own    == [i \in DOMAIN fields |-> [path |-> p, field |-> fields[i]]]
              lists  == [i \in DOMAIN keys |-> d[Append(p, keys[i])]]
  <1>1. /\ p \in Seq(Nat)
        /\ OwnErrors(data[p]) \in SUBSET Nat /\ IsFiniteSet(OwnErrors(data[p]))
        /\ data[p].members \in SUBSET Nat /\ IsFiniteSet(data[p].members)
    BY Nodes
  <1>2. DetailsFrom(data, p, d) = own \o FlattenSeq(lists)
    BY DEF DetailsFrom
  <1>3. /\ fields \in Seq(OwnErrors(data[p])) /\ ToSet(fields) = OwnErrors(data[p]) /\ Distinct(fields)
        /\ keys \in Seq(data[p].members) /\ ToSet(keys) = data[p].members /\ Distinct(keys)
    BY <1>1, SortedLists
  <1>. HIDE DEF fields, keys
  <1>4. /\ Len(fields) \in Nat /\ DOMAIN fields = 1 .. Len(fields)
        /\ \A i \in 1 .. Len(fields) : fields[i] \in OwnErrors(data[p])
        /\ Len(keys) \in Nat /\ DOMAIN keys = 1 .. Len(keys)
        /\ \A i \in 1 .. Len(keys) : keys[i] \in data[p].members
    BY <1>3
  <1>5. own \in Seq(Detail) /\ ToSet(own) = Own /\ Distinct(own)
    <2>1. \A i \in 1 .. Len(fields) : [path |-> p, field |-> fields[i]] \in Detail
      BY <1>1, <1>4 DEF Detail
    <2>2. own \in Seq(Detail) /\ Len(own) = Len(fields)
          /\ \A i \in 1 .. Len(fields) : own[i] = [path |-> p, field |-> fields[i]]
      BY <1>4, <2>1
    <2>. HIDE DEF own
    <2>3. ASSUME NEW e \in ToSet(own) PROVE e \in Own
      <3>1. PICK i \in 1 .. Len(own) : own[i] = e
        BY <2>2, SetOf
      <3>. QED BY <3>1, <2>2, <1>4
    <2>4. ASSUME NEW f \in OwnErrors(data[p]) PROVE [path |-> p, field |-> f] \in ToSet(own)
      <3>1. PICK i \in 1 .. Len(fields) : fields[i] = f
        BY <1>3, SetOf
      <3>2. own[i] = [path |-> p, field |-> f] /\ i \in 1 .. Len(own)
        BY <3>1, <2>2
      <3>. QED BY <3>2, <2>2, SetOf
    <2>5. Distinct(own)
      <3>1. ASSUME NEW i \in 1 .. Len(fields), NEW j \in 1 .. Len(fields), own[i] = own[j]
            PROVE  i = j
        <4>0. /\ own[i] = [path |-> p, field |-> fields[i]]
              /\ own[j] = [path |-> p, field |-> fields[j]]
          BY <2>2
        <4>1. own[i].field = fields[i] /\ own[j].field = fields[j]
          BY <4>0
        <4>. QED BY <4>1, <3>1, <1>3 DEF Distinct
      <3>. QED BY <3>1, <2>2 DEF Distinct
    <2>. QED BY <2>2, <2>3, <2>4, <2>5
  <1>6. /\ lists \in Seq(Seq(Detail)) /\ Len(lists) = Len(keys)
        /\ \A i \in 1 .. Len(keys) : lists[i] = d[Append(p, keys[i])]
    BY <1>4
  <1>. HIDE DEF own, lists, Own
  <1>7. \A i \in 1 .. Len(keys) :
           Distinct(lists[i]) /\ ToSet(lists[i]) = Under(data, Append(p, keys[i]))
    BY <1>4, <1>6
  <1>8. Apart(lists)
    <2>1. \A i, j \in 1 .. Len(keys) : i # j => keys[i] # keys[j]
      BY <1>3 DEF Distinct
    <2>2. \A i, j \in 1 .. Len(keys) : i # j => ToSet(lists[i]) \cap ToSet(lists[j]) = {}
      BY <1>4, <1>7, <2>1, Parts
    <2>. QED BY <1>6, <1>7, <2>2 DEF Apart
  <1>9. UpTo(lists, Len(lists)) = UNION {Under(data, Append(p, k)) : k \in data[p].members}
    <2>1. ASSUME NEW i \in 1 .. Len(keys)
          PROVE  \E k \in data[p].members : ToSet(lists[i]) = Under(data, Append(p, k))
      BY <1>4, <1>7
    <2>2. ASSUME NEW k \in data[p].members
          PROVE  \E i \in 1 .. Len(keys) : ToSet(lists[i]) = Under(data, Append(p, k))
      <3>1. k \in ToSet(keys)
        BY <1>3
      <3>2. PICK i \in 1 .. Len(keys) : keys[i] = k
        BY <3>1, <1>3, SetOf
      <3>. QED BY <3>2, <1>7
    <2>3. UpTo(lists, Len(lists)) = UNION {ToSet(lists[i]) : i \in 1 .. Len(keys)}
      BY <1>6 DEF UpTo
    <2>. QED BY <2>1, <2>2, <2>3, Zenon
  <1>10. /\ FlattenSeq(lists) \in Seq(Detail) /\ Distinct(FlattenSeq(lists))
         /\ ToSet(FlattenSeq(lists)) =
                UNION {Under(data, Append(p, k)) : k \in data[p].members}
    BY <1>6, <1>8, <1>9, FlattenGives
  <1>11. /\ Under(data, p) = Own \cup UNION {Under(data, Append(p, k)) : k \in data[p].members}
         /\ \A k \in data[p].members : Own \cap Under(data, Append(p, k)) = {}
    BY Parts DEF Own
  <1>12. ToSet(own) \cap ToSet(FlattenSeq(lists)) = {}
    BY <1>5, <1>10, <1>11
  <1>. QED BY <1>2, <1>5, <1>10, <1>11, <1>12, Concatenated

(* validationDetails names each field once, and no other.                  *)
LEMMA FieldsNamedOnce ==
    ASSUME NEW data, IsTree(data)
    PROVE  /\ ValidationDetails(data) \in Seq(Detail) /\ Distinct(ValidationDetails(data))
           /\ ToSet(ValidationDetails(data)) = FieldErrors(data)
  <1>1. PICK d : /\ \A p \in DOMAIN data : d[p] = DetailsFrom(data, p, d)
                 /\ ValidationDetails(data) = d[<<>>]
    BY RootList
  <1>. DEFINE Right(p) == /\ d[p] \in Seq(Detail) /\ Distinct(d[p])
                          /\ ToSet(d[p]) = Under(data, p)
              T == {h \in Nat : ~\A p \in Deep(data, h) : Right(p)}
  <1>2. ASSUME T # {} PROVE FALSE
    <2>1. PICK h \in T : \A j \in T : h <= j
      <3>1. T \in SUBSET Nat
        OBVIOUS
      <3>. HIDE DEF T
      <3>. QED BY <3>1, <1>2, Least
    <2>2. h \in Nat /\ ~\A p \in Deep(data, h) : Right(p)
      BY <2>1
    <2>3. PICK p \in Deep(data, h) : ~Right(p)
      BY <2>2
    <2>4. p \in DOMAIN data /\ Len(p) + h > Depth /\ Len(p) \in 0 .. Depth
      BY <2>3, Nodes DEF Deep
    <2>5. h - 1 \in Nat /\ ~(h <= h - 1)
      BY <2>2, <2>4, DepthAssumption
    <2>6. \A q \in Deep(data, h - 1) : Right(q)
      BY <2>1, <2>5
    <2>7. ASSUME NEW k \in data[p].members PROVE Append(p, k) \in Deep(data, h - 1)
      <3>1. Append(p, k) \in DOMAIN data /\ Len(Append(p, k)) = Len(p) + 1
        BY <2>4, Nodes
      <3>2. Len(p) + 1 + (h - 1) > Depth
        BY <2>4, <2>2, DepthAssumption
      <3>. QED BY <3>1, <3>2 DEF Deep
    <2>8. \A k \in data[p].members : Right(Append(p, k))
      BY <2>6, <2>7
    <2>9. Right(p)
      BY <2>4, <2>8, <1>1, NodeList
    <2>. QED BY <2>3, <2>9
  <1>3. Right(<<>>)
    <2>1. <<>> \in Deep(data, Depth + 1) /\ Depth + 1 \in Nat
      <3>1. <<>> \in DOMAIN data /\ Len(<<>>) + (Depth + 1) > Depth
        BY DepthAssumption DEF IsTree
      <3>. QED BY <3>1, DepthAssumption DEF Deep
    <2>2. Depth + 1 \notin T
      BY <1>2
    <2>. QED BY <2>1, <2>2
  <1>4. Under(data, <<>>) = FieldErrors(data)
    <2>1. ASSUME NEW e \in FieldErrors(data) PROVE e \in Under(data, <<>>)
      <3>1. e.path \in Seq(Nat)
        BY FieldsAreDetails, Nodes
      <3>2. Len(<<>>) <= Len(e.path) /\ SubSeq(e.path, 1, Len(<<>>)) = <<>>
        BY <3>1
      <3>. QED BY <3>2 DEF Under
    <2>. QED BY <2>1 DEF Under
  <1>. QED BY <1>1, <1>3, <1>4

(* The length of a sequence without repetition.                            *)
LEMMA Counted ==
    ASSUME NEW S, NEW s \in Seq(S), Distinct(s)
    PROVE  Cardinality(ToSet(s)) = Len(s)
  <1>1. Len(s) \in Nat /\ s \in [1 .. Len(s) -> ToSet(s)]
    BY DEF ToSet
  <1>2. \A x \in ToSet(s) : \E i \in 1 .. Len(s) : s[i] = x
    BY SetOf
  <1>3. \A i, j \in 1 .. Len(s) : s[i] = s[j] => i = j
    BY DEF Distinct
  <1>4. s \in Bijection(1 .. Len(s), ToSet(s))
    BY <1>1, <1>2, <1>3, Zenon DEF Bijection, Injection, Surjection, IsInjective
  <1>5. ExistsBijection(1 .. Len(s), ToSet(s))
    BY <1>4 DEF ExistsBijection
  <1>. QED BY <1>1, <1>5, FS_CountingElements

(* The cut of truncate.                                                    *)
LEMMA CutsAtRune ==
    ASSUME NEW s \in Seq(Bytes)
    PROVE  CutAtRune(Truncate(s, TextLimit), s)
  <1>. DEFINE K == {0} \cup {cut \in 1 .. TextLimit : s[cut + 1] # "more"}
              c == Max(K)
              text == SubSeq(s, 1, c)
  <1>1. TextLimit \in Nat /\ Len(s) \in Nat
    BY LimitAssumption
  <1>2. CASE Len(s) <= TextLimit
    <2>1. Truncate(s, TextLimit) = s
      BY <1>2 DEF Truncate
    <2>. QED BY <1>2, <2>1 DEF CutAtRune, IsPrefix
  <1>3. CASE ~(Len(s) <= TextLimit)
    <2>1. Truncate(s, TextLimit) = text
      BY <1>3 DEF Truncate
    <2>2. c \in K /\ \A k \in K : k <= c
      <3>1. K \in SUBSET (0 .. TextLimit) /\ K # {}
        BY <1>1
      <3>. HIDE DEF K
      <3>. QED BY <3>1, <1>1, Greatest
    <2>. HIDE DEF c
    <2>3. c \in 0 .. TextLimit /\ c \in Nat /\ c < Len(s)
      BY <1>1, <1>3, <2>2
    <2>4. Len(text) = c /\ text \in Seq(Bytes) /\ (c = 0 => text = <<>>)
      BY <1>1, <2>3
    <2>5. IsPrefix(text, s)
      <3>1. SubSeq(text, 1, c) = text
        BY <2>3, <2>4
      <3>. QED BY <2>3, <2>4, <3>1 DEF IsPrefix
    <2>6. s[c + 1] # "more" \/ text = <<>>
      BY <2>2, <2>4
    <2>7. \A i \in c + 2 .. Min({Len(s), TextLimit + 1}) : s[i] = "more"
      <3>. TAKE i \in c + 2 .. Min({Len(s), TextLimit + 1})
      <3>1. Min({Len(s), TextLimit + 1}) \in Nat /\ Min({Len(s), TextLimit + 1}) <= TextLimit + 1
        BY <1>1, Smaller
      <3>2. i \in Nat /\ i - 1 \in 1 .. TextLimit /\ ~(i - 1 <= c)
        BY <1>1, <2>3, <3>1
      <3>3. i - 1 \notin K
        BY <2>2, <3>2
      <3>. QED BY <3>2, <3>3
    <2>. HIDE DEF text
    <2>8. Len(text) <= TextLimit
      BY <1>1, <2>3, <2>4
    <2>. QED BY <2>1, <2>4, <2>5, <2>6, <2>7, <2>8 DEF CutAtRune
  <1>. QED BY <1>2, <1>3

(* What is left without the white space around it.                         *)
LEMMA TrimSpaceTyped == ASSUME NEW s \in Seq(Bytes) PROVE TrimSpace(s) \in Seq(Bytes)
  <1>. DEFINE solid == {i \in 1 .. Len(s) : s[i] # "space"}
  <1>1. Len(s) \in Nat /\ solid \in SUBSET (0 .. Len(s)) /\ solid \in SUBSET Nat
    OBVIOUS
  <1>2. CASE solid = {}
    BY <1>2 DEF TrimSpace
  <1>3. CASE solid # {}
    <2>1. TrimSpace(s) = SubSeq(s, Min(solid), Max(solid))
      BY <1>3 DEF TrimSpace
    <2>2. Max(solid) \in solid
      <3>. HIDE DEF solid
      <3>. QED BY <1>1, <1>3, Greatest
    <2>3. Min(solid) \in solid
      <3>. HIDE DEF solid
      <3>1. \E x \in solid : \A y \in solid : x <= y
        BY <1>1, <1>3, Least
      <3>. QED BY <3>1 DEF Min
    <2>4. Min(solid) \in 1 .. Len(s) /\ Max(solid) \in 1 .. Len(s)
      BY <2>2, <2>3
    <2>. HIDE DEF solid
    <2>. QED BY <2>1, <2>4
  <1>. QED BY <1>2, <1>3

LEMMA WasReadTyped == ASSUME NEW b, b.bytes \in Seq(Bytes) PROVE WasRead(b) \in Seq(Bytes)
  <1>. DEFINE n == Min({ReadLimit, Len(b.bytes)})
  <1>1. ReadLimit \in Nat /\ Len(b.bytes) \in Nat
    BY LimitAssumption
  <1>2. n \in 0 .. Len(b.bytes)
    BY <1>1, Smaller
  <1>3. WasRead(b) = SubSeq(b.bytes, 1, n)
    BY DEF WasRead
  <1>. HIDE DEF n
  <1>. QED BY <1>1, <1>2, <1>3

(* A detail written out.                                                   *)
LEMMA RenderedTyped ==
    ASSUME NEW details \in Seq(Detail)
    PROVE  Rendered(details) \in Seq(Bytes)
  <1>. DEFINE text(i) == [s \in 1 .. Len(details[i].path) + 1 |-> "byte"] \o <<"byte", "more">>
              texts == [i \in DOMAIN details |-> text(i)]
  <1>1. Len(details) \in Nat /\ DOMAIN details = 1 .. Len(details)
    OBVIOUS
  <1>2. \A i \in 1 .. Len(details) : text(i) \in Seq(Bytes)
    <2>. TAKE i \in 1 .. Len(details)
    <2>1. details[i] \in Detail
      OBVIOUS
    <2>2. Len(details[i].path) + 1 \in Nat
      BY <2>1 DEF Detail
    <2>3. [s \in 1 .. Len(details[i].path) + 1 |-> "byte"] \in Seq(Bytes)
      BY <2>2 DEF Bytes
    <2>4. <<"byte", "more">> \in Seq(Bytes)
      BY DEF Bytes
    <2>. QED BY <2>3, <2>4
  <1>. HIDE DEF text
  <1>3. texts \in Seq(Seq(Bytes))
    BY <1>1, <1>2
  <1>. HIDE DEF texts
  <1>4. FlattenSeq(texts) \in Seq(Bytes)
    BY <1>3, FlattenGives
  <1>. QED BY <1>4 DEF Rendered, texts, text
----------------------------------------------------------------------------
(* The inputs are those assumed, and the output is what the code makes of  *)
(* its input; what that is worth is the matter of the lemmas above.        *)
ReadInv ==
    /\ \/ /\ input.kind = "log" /\ input.log \in Logs /\ input.asked \in TailValues
          /\ st = "answered" => output = JobConsoleLog(input.log, input.asked)
       \/ /\ input.kind = "answer" /\ input.code \in StatusCodes /\ input.body \in Bodies
          /\ st = "answered" => output = StatusError(input.code, input.body)
    /\ st \in {"asked", "answered"}

(* Each conversion keeps that.                                             *)
LEMMA ReadInductive == ReadSpec => []ReadInv
  <1>1. Asked => ReadInv
    BY DEF Asked, ReadInv
  <1>2. ReadInv /\ [Read]_readVars => ReadInv'
    <2>. SUFFICES ASSUME ReadInv, [Read]_readVars PROVE ReadInv'
      OBVIOUS
    <2>1. CASE TailLog
      BY <2>1 DEF TailLog, Answer, ReadInv
    <2>2. CASE KeepError
      BY <2>2 DEF KeepError, Answer, ReadInv
    <2>3. CASE UNCHANGED readVars
      BY <2>3 DEF readVars, ReadInv
    <2>. QED BY <2>1, <2>2, <2>3 DEF Read
  <1>. QED BY <1>1, <1>2, PTL DEF ReadSpec

LEMMA TailMeant == ReadInv => TailOfKept
  <1>. SUFFICES ASSUME ReadInv, Answered("log") PROVE TailOfKept
    BY DEF TailOfKept
  <1>. DEFINE m    == Min({Len(input.log), MaxConsoleBytes})
              read == [i \in 1 .. m |-> input.log[i]]
              n    == IF input.asked = 0 THEN DefaultLines ELSE input.asked
  <1>1. input.log \in Seq(Log) /\ input.asked \in Int
        /\ output = JobConsoleLog(input.log, input.asked)
    BY LogsAssumption DEF ReadInv, Answered, Log
  <1>2. n \in Int
    BY <1>1, ConsoleAssumption
  <1>3. m \in 0 .. Len(input.log) /\ Len(input.log) \in Nat
    BY <1>1, ConsoleAssumption, Smaller
  <1>. HIDE DEF m
  <1>4. read \in Seq(Log) /\ SubSeq(input.log, 1, m) = read
    BY <1>1, <1>3
  <1>5. output = TailOf(read, n)
    BY <1>1, <1>4 DEF JobConsoleLog, ReadLimited, TailLines, m
  <1>. HIDE DEF read, n
  <1>6. n > 0 => AreLastLines(output, read, n)
    BY <1>2, <1>4, <1>5, TailGivesLast
  <1>7. ~(n > 0) => output = read
    BY <1>2, <1>5 DEF TailOf
  <1>. QED BY <1>6, <1>7 DEF TailOfKept, read, n, m

(* What the answer kept is made of.                                        *)
LEMMA ErrorMade ==
    ASSUME ReadInv, Answered("answer")
    PROVE  /\ input.body.message \in Seq(Bytes) /\ input.body.bytes \in Seq(Bytes)
           /\ IsTree(input.body.data)
           /\ output = StatusError(input.code, input.body)
  BY BodiesAssumption DEF ReadInv, Answered

LEMMA FieldsMeant == ReadInv => EveryFieldNamed
  <1>. SUFFICES ASSUME ReadInv, Answered("answer") PROVE EveryFieldNamed
    BY DEF EveryFieldNamed
  <1>. DEFINE body  == input.body
              kept  == input.code \notin {401, 403, 404} /\ IsGoCDs(body)
              named == IF kept THEN FieldErrors(body.data) ELSE {}
  <1>1. IsTree(body.data) /\ output = StatusError(input.code, body)
    BY ErrorMade
  <1>2. output.details = IF kept THEN ValidationDetails(body.data) ELSE <<>>
    BY <1>1 DEF StatusError, ReadErrorBody, NoError
  <1>. HIDE DEF kept
  <1>3. ASSUME kept
        PROVE  ToSet(output.details) = named /\ Len(output.details) = Cardinality(named)
    <2>1. LET details == ValidationDetails(body.data)
          IN  /\ ToSet(details) = FieldErrors(body.data)
              /\ Len(details) = Cardinality(ToSet(details))
      BY <1>1, FieldsNamedOnce, Counted
    <2>. QED BY <1>2, <1>3, <2>1, Zenon
  <1>4. ASSUME ~kept
        PROVE  ToSet(output.details) = named /\ Len(output.details) = Cardinality(named)
    <2>1. ToSet(<<>>) = {} /\ Len(<<>>) = 0 /\ Cardinality({}) = 0
      BY FS_EmptySet DEF ToSet
    <2>. QED BY <1>2, <1>4, <2>1, Zenon
  <1>5. ToSet(output.details) = named /\ Len(output.details) = Cardinality(named)
    BY <1>3, <1>4
  <1>6. kept <=> /\ input.code \notin {401, 403, 404}
                 /\ body.message # <<>>
                 /\ \A i \in DOMAIN body.bytes : i > ReadLimit => body.bytes[i] = "space"
    <2>1. /\ DOMAIN body.bytes = 1 .. Len(body.bytes) /\ Len(body.bytes) \in Nat
          /\ ReadLimit \in Nat
      BY ErrorMade, LimitAssumption
    <2>2. \A i : i \in DOMAIN body.bytes /\ i > ReadLimit <=> i \in ReadLimit + 1 .. Len(body.bytes)
      BY <2>1
    <2>. QED BY <2>2 DEF kept, IsGoCDs
  <1>. QED BY <1>5, <1>6, Zenon DEF EveryFieldNamed

LEMMA RunesMeant == ReadInv => RunesKept
  <1>. SUFFICES ASSUME ReadInv, Answered("answer") PROVE RunesKept
    BY DEF RunesKept
  <1>. DEFINE body == input.body
  <1>1. /\ body.message \in Seq(Bytes) /\ body.bytes \in Seq(Bytes) /\ IsTree(body.data)
        /\ output = StatusError(input.code, body)
    BY ErrorMade
  <1>2. /\ TrimSpace(WasRead(body)) \in Seq(Bytes)
        /\ output.raw # <<>> => output.raw = Truncate(TrimSpace(WasRead(body)), TextLimit)
    BY <1>1, WasReadTyped, TrimSpaceTyped DEF StatusError, ReadErrorBody, NoError
  <1>3. output.msg # <<>> =>
            /\ output.msg = Truncate(body.message \o Rendered(output.details), TextLimit)
            /\ output.details = ValidationDetails(body.data)
    BY <1>1 DEF StatusError, ReadErrorBody, NoError
  <1>4. output.msg # <<>> => body.message \o Rendered(output.details) \in Seq(Bytes)
    BY <1>1, <1>3, FieldsNamedOnce, RenderedTyped, Concatenated
  <1>. QED BY <1>1, <1>2, <1>3, <1>4, CutsAtRune DEF RunesKept

(* Whatever the log, the limit on what is read and the number of lines     *)
(* asked for, get_job_console_log returns the last lines of what was read  *)
(* (JobConsoleLog, tail).                                                  *)
THEOREM TailIsKept == ReadSpec => []TailOfKept
  BY ReadInductive, TailMeant, PTL

(* Whatever GoCD's refusal holds, however deep, each field it names is     *)
(* among the details once, and nothing else is (validationDetails).        *)
THEOREM FieldsAreNamed == ReadSpec => []EveryFieldNamed
  BY ReadInductive, FieldsMeant, PTL

(* Whatever the answer and the limits, the texts kept of it are cut        *)
(* between two runes, as late as the limit admits (readErrorBody,          *)
(* truncate).                                                              *)
THEOREM RunesAreKept == ReadSpec => []RunesKept
  BY ReadInductive, RunesMeant, PTL
----------------------------------------------------------------------------

WalkOK ==
    /\ walk.st = "complete" => walk.after = Empty
    /\ walk.after = Empty /\ walk.st # "complete" => start = 0
    /\ walk.after # Empty => walk.after \in 2..start

CallOK ==
    /\ call.st # "idle" => call.after = walk.after /\ walk.st = "going"
    /\ call.st = "answered" =>
          /\ call.page.top \in 0..newest
          /\ walk.after # Empty => call.page.top = walk.after - 1
          /\ call.page.link \in {Link(call.page.top)} \cup Damaged

IInv == TypeOK /\ NoGapNoRepeat /\ CursorAccepted /\ WalkOK /\ CallOK

(* What a cursor or a link can be.                                         *)
LEMMA Texts == Empty = 0 - 2 /\ Garbage = 0 - 1 /\ Damaged \subseteq {0 - 1, 0}
  BY DamagedAssumption DEF Empty, Garbage

LEMMA Pages ==
    ASSUME NEW top \in 0..MaxRuns
    PROVE  /\ Bottom(top) \in Nat \ {0}
           /\ top > 0 => Bottom(top) <= top
           /\ top = 0 => Bottom(top) = 1
           /\ Link(top) = IF Bottom(top) > 1 THEN Bottom(top) ELSE Empty
           /\ Bottom(top) > 1 => top > 0 /\ Link(top) \in 2..top
  BY BoundsAssumption DEF Bottom, Link

LEMMA LinkTyped ==
    ASSUME NEW top \in 0..MaxRuns, MaxRuns \in Nat PROVE Link(top) \in {Empty} \cup Runs
  BY Pages DEF Runs

(* The page that starts a walk.                                            *)
LEMMA FirstPage ==
    ASSUME NEW i \in Nat, NEW b \in Nat, b >= 1, i >= 1, NEW t \in Nat, NEW link,
           link = IF b > 1 THEN b ELSE Empty
    PROVE  (IF i \in b..t THEN 1 ELSE 0) =
           (IF i <= t /\ (link # Empty => i >= link) THEN 1 ELSE 0)
  BY DEF Empty

LEMMA NoCallTyped ==
    /\ NoCall \in [st : {"idle", "sent", "answered", "failed", "invalid"},
                   after : {Empty} \cup Runs,
                   page : [top : 0..MaxRuns, link : {Empty, Garbage, 0} \cup Runs]]
    /\ NoCall.st = "idle"
  BY BoundsAssumption DEF NoCall, NoPage

(* A link that nextAfterCursor takes is GoCD's own.                        *)
LEMMA Links ==
    ASSUME NEW top \in 0..MaxRuns, NEW link \in {Link(top)} \cup Damaged,
           NextAfterCursor(link) # Garbage
    PROVE  link = Link(top) /\ NextAfterCursor(link) = link
  <1>1. ASSUME link \in Damaged PROVE FALSE
    <2>1. link \in {Garbage, 0}
      BY <1>1, DamagedAssumption
    <2>2. link # Empty
      BY <2>1 DEF Empty, Garbage
    <2>. QED BY <2>1, <2>2 DEF NextAfterCursor, Usable
  <1>. QED BY <1>1, Pages DEF NextAfterCursor

LEMMA InitInv == Init => IInv
  <1>. SUFFICES ASSUME Init PROVE IInv
    OBVIOUS
  <1>1. TypeOK
    BY BoundsAssumption DEF Init, TypeOK, NoCall, NoPage
  <1>2. NoGapNoRepeat
    BY DEF Init, NoGapNoRepeat, Runs
  <1>3. CursorAccepted /\ WalkOK /\ CallOK
    BY DEF Init, CursorAccepted, WalkOK, CallOK, NoCall
  <1>. QED BY <1>1, <1>2, <1>3 DEF IInv

(* The step that hands a page over: which page it is, and what follows.    *)
LEMMA Hands ==
    ASSUME IInv, Return, NextAfterCursor(call.page.link) # Garbage
    PROVE  LET top == call.page.top
           IN  /\ top \in 0..newest /\ top \in 0..MaxRuns /\ walk.st = "going"
               /\ walk.after = Empty => start = 0 /\ start' = top
               /\ walk.after # Empty => top = walk.after - 1 /\ start' = start
               /\ call' = NoCall /\ newest' = newest
               /\ walk' = [walk EXCEPT !.after = Link(top),
                              !.st = IF Link(top) = Empty THEN "complete" ELSE "going"]
               /\ seen' = [i \in Runs |-> seen[i] + (IF i \in Bottom(top)..top THEN 1 ELSE 0)]
  <1>. DEFINE top == call.page.top
  <1>1. call.st = "answered" /\ call.after = walk.after /\ walk.st = "going"
        /\ top \in 0..newest /\ call.page.link \in {Link(top)} \cup Damaged
        /\ (walk.after # Empty => top = walk.after - 1)
        /\ (walk.after = Empty => start = 0)
    BY DEF IInv, CallOK, WalkOK, Return
  <1>2. top \in 0..MaxRuns
    BY <1>1 DEF IInv, TypeOK
  <1>3. NextAfterCursor(call.page.link) = Link(top)
    BY <1>1, <1>2, Links
  <1>. HIDE DEF top
  <1>4. /\ call' = NoCall /\ newest' = newest
        /\ walk' = [walk EXCEPT !.after = Link(top),
                       !.st = IF Link(top) = Empty THEN "complete" ELSE "going"]
        /\ start' = IF call.after = Empty THEN top ELSE start
        /\ seen' = [i \in Runs |-> seen[i] + (IF i \in Bottom(top)..top THEN 1 ELSE 0)]
    BY <1>3 DEF Return, Handed, top
  <1>. QED BY <1>1, <1>2, <1>4 DEF top

LEMMA StepInv == IInv /\ [Next]_vars => IInv'
  <1>. SUFFICES ASSUME IInv, [Next]_vars PROVE IInv'
    OBVIOUS
  <1>0. TypeOK /\ NoGapNoRepeat /\ CursorAccepted /\ WalkOK /\ CallOK
    BY DEF IInv
  <1>. SUFFICES TypeOK' /\ NoGapNoRepeat' /\ CursorAccepted' /\ WalkOK' /\ CallOK'
    BY DEF IInv
  <1>n. MaxRuns \in Nat /\ MaxTries \in Nat /\ PageSize \in Nat \ {0}
    BY BoundsAssumption
  <1>a. newest \in 0..MaxRuns /\ start \in 0..newest
    BY <1>0 DEF TypeOK
  <1>b. newest \in Nat /\ newest <= MaxRuns /\ start \in Nat /\ start <= newest
    BY <1>a, <1>n
  <1>c. walk \in [after : {Empty} \cup Runs, failed : 0..MaxTries,
                  st : {"going", "complete", "given up"}]
    BY <1>0 DEF TypeOK
  <1>d. call \in [st : {"idle", "sent", "answered", "failed", "invalid"},
                  after : {Empty} \cup Runs,
                  page : [top : 0..MaxRuns, link : {Empty, Garbage, 0} \cup Runs]]
    BY <1>0 DEF TypeOK
  <1>e. seen \in [Runs -> Nat]
    BY <1>0 DEF TypeOK
  <1>w. walk.after # Empty => walk.after \in 2..start
    BY <1>0 DEF WalkOK
  <1>i. call.st # "idle" => call.after = walk.after /\ walk.st = "going"
    BY <1>0 DEF CallOK
  <1>v. walk.st # "complete" /\ walk.after = Empty => start = 0
    BY <1>0 DEF WalkOK
  <1>1. CASE PipelineHistory
    <2>1. walk.after = Empty \/ Usable(walk.after)
      BY <1>w, <1>b DEF Usable, Garbage
    <2>2. call' = [NoCall EXCEPT !.after = walk.after, !.st = "sent"] /\ walk.st = "going"
          /\ UNCHANGED <<newest, walk, start, seen>>
      BY <1>1, <2>1 DEF PipelineHistory
    <2>3. TypeOK'
      <3>1. call' \in [st : {"idle", "sent", "answered", "failed", "invalid"},
                       after : {Empty} \cup Runs,
                       page : [top : 0..MaxRuns, link : {Empty, Garbage, 0} \cup Runs]]
        BY <2>2, <1>c, NoCallTyped
      <3>. QED BY <2>2, <3>1, <1>0 DEF TypeOK, Runs
    <2>4. NoGapNoRepeat' /\ CursorAccepted' /\ WalkOK' /\ CallOK'
      BY <2>2, <1>0 DEF NoGapNoRepeat, CursorAccepted, WalkOK, CallOK, NoCall, NoPage
    <2>. QED BY <2>3, <2>4
  <1>2. CASE Serve
    <2>. DEFINE top == Top(call.after)
    <2>1. PICK link \in {Link(top)} \cup Damaged :
             call' = [call EXCEPT !.st = "answered", !.page = [top |-> top, link |-> link]]
      BY <1>2 DEF Serve
    <2>2. call.st = "sent" /\ UNCHANGED <<newest, walk, start, seen>>
      BY <1>2 DEF Serve
    <2>3. call.after = walk.after /\ walk.st = "going"
      BY <2>2, <1>i
    <2>4. top \in 0..newest /\ top \in 0..MaxRuns /\ (walk.after # Empty => top = walk.after - 1)
      BY <2>3, <1>n, <1>b, <1>w DEF Top
    <2>5. link \in {Empty, Garbage, 0} \cup Runs
      <3>. HIDE DEF top
      <3>1. Link(top) \in {Empty} \cup Runs
        BY <2>4, <1>n, LinkTyped
      <3>. QED BY <3>1, DamagedAssumption
    <2>. HIDE DEF top
    <2>6. /\ call'.st = "answered" /\ call'.after = call.after
          /\ call'.page = [top |-> top, link |-> link]
          /\ call' \in [st : {"idle", "sent", "answered", "failed", "invalid"},
                        after : {Empty} \cup Runs,
                        page : [top : 0..MaxRuns, link : {Empty, Garbage, 0} \cup Runs]]
      BY <2>1, <2>4, <2>5, <1>d
    <2>7. TypeOK'
      BY <2>2, <2>6, <1>0 DEF TypeOK, Runs
    <2>8. NoGapNoRepeat' /\ CursorAccepted' /\ WalkOK'
      BY <2>2, <2>6, <1>0 DEF NoGapNoRepeat, CursorAccepted, WalkOK
    <2>9. CallOK'
      BY <2>1, <2>2, <2>3, <2>4, <2>6 DEF CallOK, Link, Bottom
    <2>. QED BY <2>7, <2>8, <2>9
  <1>3. CASE Lose
    <2>1. TypeOK'
      BY <1>0, <1>3 DEF Lose, TypeOK, Runs
    <2>2. NoGapNoRepeat' /\ CursorAccepted' /\ WalkOK'
      BY <1>0, <1>3 DEF Lose, NoGapNoRepeat, CursorAccepted, WalkOK, TypeOK
    <2>3. CallOK'
      BY <1>0, <1>3, <1>d DEF Lose, CallOK
    <2>. QED BY <2>1, <2>2, <2>3
  <1>4. CASE Return
    <2>1. CASE NextAfterCursor(call.page.link) = Garbage
      <3>1. call.st = "answered" /\ call' = [call EXCEPT !.st = "failed"]
            /\ UNCHANGED <<newest, walk, start, seen>>
        BY <1>4, <2>1 DEF Return
      <3>2. TypeOK'
        BY <3>1, <1>0 DEF TypeOK, Runs
      <3>3. NoGapNoRepeat' /\ CursorAccepted' /\ WalkOK' /\ CallOK'
        BY <3>1, <1>0, <1>d DEF NoGapNoRepeat, CursorAccepted, WalkOK, CallOK
      <3>. QED BY <3>2, <3>3
    <2>2. CASE NextAfterCursor(call.page.link) # Garbage
      <3>. DEFINE top == call.page.top
      <3>1. /\ top \in 0..newest /\ top \in 0..MaxRuns /\ walk.st = "going"
            /\ walk.after = Empty => start = 0 /\ start' = top
            /\ walk.after # Empty => top = walk.after - 1 /\ start' = start
            /\ call' = NoCall /\ newest' = newest
            /\ walk' = [walk EXCEPT !.after = Link(top),
                           !.st = IF Link(top) = Empty THEN "complete" ELSE "going"]
            /\ seen' = [i \in Runs |-> seen[i] + (IF i \in Bottom(top)..top THEN 1 ELSE 0)]
        BY <1>4, <2>2, Hands
      <3>2. /\ Bottom(top) \in Nat \ {0}
            /\ top > 0 => Bottom(top) <= top
            /\ top = 0 => Bottom(top) = 1
            /\ Link(top) = IF Bottom(top) > 1 THEN Bottom(top) ELSE Empty
            /\ Bottom(top) > 1 => top > 0 /\ Link(top) \in 2..top
        BY <3>1, Pages
      <3>. HIDE DEF top
      <3>3. /\ walk'.after = Link(top) /\ walk'.failed = walk.failed
            /\ walk'.st = IF Link(top) = Empty THEN "complete" ELSE "going"
            /\ walk' \in [after : {Empty} \cup Runs, failed : 0..MaxTries,
                          st : {"going", "complete", "given up"}]
        <4>1. Link(top) \in {Empty} \cup Runs
          BY <3>1, <1>n, LinkTyped
        <4>. QED BY <3>1, <4>1, <1>c
      <3>5. TypeOK'
        <4>1. call' \in [st : {"idle", "sent", "answered", "failed", "invalid"},
                         after : {Empty} \cup Runs,
                         page : [top : 0..MaxRuns, link : {Empty, Garbage, 0} \cup Runs]]
          BY <3>1, NoCallTyped
        <4>2. newest' \in 0..MaxRuns /\ start' \in 0..newest'
          BY <3>1, <1>a
        <4>3. seen' \in [Runs -> Nat]
          <5>1. \A i \in Runs : seen[i] + (IF i \in Bottom(top)..top THEN 1 ELSE 0) \in Nat
            BY <1>e
          <5>. QED BY <3>1, <5>1
        <4>. QED BY <3>3, <4>1, <4>2, <4>3 DEF TypeOK, Runs
      <3>6. NoGapNoRepeat'
        <4>. SUFFICES ASSUME NEW i \in Runs
                      PROVE  seen'[i] = IF /\ i <= start'
                                           /\ walk'.after # Empty => i >= walk'.after
                                        THEN 1 ELSE 0
          BY DEF NoGapNoRepeat, Runs
        <4>1. /\ seen'[i] = seen[i] + (IF i \in Bottom(top)..top THEN 1 ELSE 0)
              /\ seen[i] = IF i <= start /\ (walk.after # Empty => i >= walk.after)
                           THEN 1 ELSE 0
              /\ i \in Nat /\ i >= 1 /\ start \in Nat
          BY <3>1, <1>0, <1>b, <1>n DEF NoGapNoRepeat, Runs
        <4>0. /\ Bottom(top) \in Nat /\ Bottom(top) >= 1 /\ top \in Nat
              /\ Link(top) = IF Bottom(top) > 1 THEN Bottom(top) ELSE Empty
          BY <3>1, <3>2
        <4>2. CASE walk.after = Empty
          <5>1. start = 0 /\ start' = top /\ seen[i] = 0
            BY <4>1, <4>2, <3>1, <1>v
          <5>2. (IF i \in Bottom(top)..top THEN 1 ELSE 0) =
                (IF i <= top /\ (Link(top) # Empty => i >= Link(top)) THEN 1 ELSE 0)
            BY <4>0, <4>1, FirstPage
          <5>3. seen'[i] = (IF i \in Bottom(top)..top THEN 1 ELSE 0)
            BY <4>1, <5>1
          <5>. QED BY <5>1, <5>2, <5>3, <3>3
        <4>3. CASE walk.after # Empty
          <5>1. start' = start /\ top = walk.after - 1 /\ walk.after \in 2..start
            BY <4>3, <3>1, <1>w
          <5>2. Bottom(top) <= walk.after - 1
            BY <5>1, <3>2, <1>b
          <5>3. (IF i <= start /\ i >= walk.after THEN 1 ELSE 0)
                   + (IF i \in Bottom(top)..(walk.after - 1) THEN 1 ELSE 0) =
                (IF i <= start /\ (Link(top) # Empty => i >= Link(top)) THEN 1 ELSE 0)
            <6>1. i \in Nat /\ i >= 1 /\ start \in Nat /\ walk.after \in 2..start
              BY <4>1, <5>1
            <6>2. \A b, link :
                     b \in 1..(walk.after - 1) /\ link = (IF b > 1 THEN b ELSE Empty) =>
                     (IF i <= start /\ i >= walk.after THEN 1 ELSE 0)
                        + (IF i \in b..(walk.after - 1) THEN 1 ELSE 0) =
                     (IF i <= start /\ (link # Empty => i >= link) THEN 1 ELSE 0)
              BY <6>1 DEF Empty
            <6>3. Bottom(top) \in 1..(walk.after - 1)
              BY <6>1, <5>2, <4>0
            <6>. QED BY <6>2, <6>3, <4>0, Zenon
          <5>4. seen[i] = IF i <= start /\ i >= walk.after THEN 1 ELSE 0
            BY <4>1, <4>3
          <5>. QED BY <5>1, <5>3, <5>4, <4>1, <3>3
        <4>. QED BY <4>2, <4>3
      <3>7. CursorAccepted' /\ CallOK'
        BY <3>1 DEF CursorAccepted, CallOK, NoCall
      <3>8. WalkOK'
        <4>1. Link(top) # Empty => Link(top) \in 2..top
          BY <3>2
        <4>2. top <= start' /\ start' \in Nat /\ top \in Nat
          <5>1. CASE walk.after = Empty
            BY <5>1, <3>1, <1>b
          <5>2. CASE walk.after # Empty
            BY <5>2, <3>1, <1>b, <1>w
          <5>. QED BY <5>1, <5>2
        <4>3. Link(top) # Empty => Link(top) \in 2..start'
          BY <4>1, <4>2
        <4>. QED BY <3>3, <4>3 DEF WalkOK
      <3>. QED BY <3>5, <3>6, <3>7, <3>8
    <2>. QED BY <2>1, <2>2
  <1>5. CASE Again
    <2>1. /\ call' = NoCall /\ walk'.after = walk.after /\ walk.st = "going"
          /\ walk'.st \in {"going", "given up"} /\ walk'.failed \in 0..MaxTries
          /\ walk' \in [after : {Empty} \cup Runs, failed : 0..MaxTries,
                        st : {"going", "complete", "given up"}]
          /\ UNCHANGED <<newest, start, seen>>
      <3>1. call.st # "idle" /\ call' = NoCall /\ UNCHANGED <<newest, start, seen>>
            /\ walk' = IF call.st = "failed" /\ walk.failed < MaxTries
                       THEN [walk EXCEPT !.failed = @ + 1] ELSE [walk EXCEPT !.st = "given up"]
        BY <1>5 DEF Again
      <3>2. walk.failed \in 0..MaxTries
        BY <1>c
      <3>3. CASE call.st = "failed" /\ walk.failed < MaxTries
        <4>1. walk.failed + 1 \in 0..MaxTries
          BY <3>2, <3>3, <1>n
        <4>. QED BY <3>1, <3>3, <4>1, <1>c, <1>i
      <3>4. CASE ~(call.st = "failed" /\ walk.failed < MaxTries)
        BY <3>1, <3>4, <1>c, <1>i
      <3>. QED BY <3>3, <3>4
    <2>2. TypeOK'
      BY <2>1, <1>0, NoCallTyped DEF TypeOK, Runs
    <2>3. NoGapNoRepeat' /\ CursorAccepted' /\ WalkOK' /\ CallOK'
      BY <2>1, <1>0 DEF NoGapNoRepeat, CursorAccepted, WalkOK, CallOK, NoCall
    <2>. QED BY <2>2, <2>3
  <1>6. CASE CreateRun
    <2>1. newest' = newest + 1 /\ newest < MaxRuns /\ UNCHANGED <<call, walk, start, seen>>
      BY <1>6 DEF CreateRun
    <2>2. TypeOK'
      <3>1. newest' \in 0..MaxRuns /\ start' \in 0..newest'
        BY <2>1, <1>b, <1>n
      <3>. QED BY <2>1, <3>1, <1>0 DEF TypeOK, Runs
    <2>3. NoGapNoRepeat' /\ CursorAccepted' /\ WalkOK'
      BY <2>1, <1>0 DEF NoGapNoRepeat, CursorAccepted, WalkOK
    <2>4. CallOK'
      <3>1. call.page.top \in 0..newest => call.page.top \in 0..newest'
        BY <2>1, <1>b
      <3>. QED BY <2>1, <3>1, <1>0 DEF CallOK, Link, Bottom
    <2>. QED BY <2>2, <2>3, <2>4
  <1>7. CASE UNCHANGED vars
    BY <1>7, <1>0 DEF vars, Runs, TypeOK, NoGapNoRepeat, CursorAccepted, WalkOK, CallOK, Link, Bottom
  <1>. QED BY <1>1, <1>2, <1>3, <1>4, <1>5, <1>6, <1>7 DEF Next

LEMMA Invariant == Spec => []IInv
  BY InitInv, StepInv, PTL DEF Spec

(* The types of the walk's variables: what the caller is handed are runs.  *)
THEOREM TypeCorrect == Spec => []TypeOK
  <1>1. IInv => TypeOK
    BY DEF IInv
  <1>. QED BY <1>1, Invariant, PTL

(* Whatever runs are added between two pages, whichever calls fail and are *)
(* repeated, the pages handed over have neither a gap nor an overlap.      *)
THEOREM PagesMeet == Spec => []NoGapNoRepeat
  <1>1. IInv => NoGapNoRepeat
    BY DEF IInv
  <1>. QED BY <1>1, Invariant, PTL

(* A caller that is told of no further page has all the runs there were.   *)
THEOREM NothingTruncated == Spec => []NotTruncated
  <1>1. IInv => NotTruncated
    BY DEF IInv, NoGapNoRepeat, WalkOK, NotTruncated
  <1>. QED BY <1>1, Invariant, PTL

(* Every cursor the server hands out is one it takes.                      *)
THEOREM CursorsAccepted == Spec => []CursorAccepted
  <1>1. IInv => CursorAccepted
    BY DEF IInv
  <1>. QED BY <1>1, Invariant, PTL

-------------------------------------------------------------------------------
(* The refinement of SnapshotWalk.                                         *)

LEMMA RefineInit == Init => Snapshot!Init
  BY DEF Init, Snapshot!Init, Runs

LEMMA RefineStep == IInv /\ IInv' /\ [Next]_vars => [Snapshot!Next]_Snapshot!vars
  <1>. SUFFICES ASSUME IInv, IInv', [Next]_vars PROVE [Snapshot!Next]_Snapshot!vars
    OBVIOUS
  <1>1. CASE Return /\ NextAfterCursor(call.page.link) # Garbage
    <2>. DEFINE top   == call.page.top
                goal  == IF walk.after = Empty THEN 1..top ELSE 1..start
                taken == {i \in Runs : seen[i] > 0}
                page  == Bottom(top)..top
    <2>1. /\ top \in 0..newest /\ top \in 0..MaxRuns /\ walk.st = "going"
          /\ walk.after = Empty => start = 0 /\ start' = top
          /\ walk.after # Empty => top = walk.after - 1 /\ start' = start
          /\ walk' = [walk EXCEPT !.after = Link(top),
                         !.st = IF Link(top) = Empty THEN "complete" ELSE "going"]
      BY <1>1, Hands
    <2>2. /\ Bottom(top) \in Nat \ {0}
          /\ top > 0 => Bottom(top) <= top
          /\ top = 0 => Bottom(top) = 1
          /\ Link(top) = IF Bottom(top) > 1 THEN Bottom(top) ELSE Empty
          /\ Bottom(top) > 1 => top > 0 /\ Link(top) \in 2..top
      BY <2>1, Pages
    <2>3. walk'.after = Link(top) /\ walk'.st = IF Link(top) = Empty THEN "complete" ELSE "going"
      BY <2>1 DEF IInv, TypeOK
    <2>4. (walk.after # Empty => walk.after \in 2..start) /\ start \in 0..MaxRuns
      <3>1. newest \in 0..MaxRuns /\ start \in 0..newest
        BY DEF IInv, TypeOK
      <3>2. start \in 0..MaxRuns
        BY <3>1, BoundsAssumption
      <3>. QED BY <3>2 DEF IInv, WalkOK
    <2>. HIDE DEF top
    <2>5. 1..start' = goal
      BY <2>1
    <2>6. taken = (1..start) \ (1..top)
      <3>1. \A i \in Runs : seen[i] = IF i <= start /\ (walk.after # Empty => i >= walk.after)
                                      THEN 1 ELSE 0
        BY DEF IInv, NoGapNoRepeat
      <3>2. CASE walk.after = Empty
        BY <3>1, <3>2, <2>1, <2>4 DEF Runs
      <3>3. CASE walk.after # Empty
        <4>1. top = walk.after - 1 /\ walk.after \in 2..start
          BY <2>1, <2>4, <3>3
        <4>2. \A i \in Runs : seen[i] > 0 <=> i <= start /\ i >= walk.after
          BY <3>1, <3>3
        <4>. QED BY <4>1, <4>2, <2>4, BoundsAssumption DEF Runs
      <3>. QED BY <3>2, <3>3
    <2>7. taken' = (1..start') \ (1..(Bottom(top) - 1))
      <3>1. \A i \in Runs : seen'[i] = IF i <= start' /\ (Link(top) # Empty => i >= Link(top))
                                       THEN 1 ELSE 0
        BY <2>3 DEF IInv, NoGapNoRepeat, Runs
      <3>2. start' \in 0..MaxRuns /\ MaxRuns \in Nat
        BY <2>1, <2>4, BoundsAssumption
      <3>3. \A i \in Runs : seen'[i] > 0 <=> i <= start' /\ i >= Bottom(top)
        <4>1. \A i \in Runs : i \in Nat /\ i >= 1
          BY <3>2 DEF Runs
        <4>2. CASE Bottom(top) > 1
          <5>1. Link(top) # Empty /\ Link(top) = Bottom(top)
            BY <4>2, <2>2, Texts
          <5>. QED BY <3>1, <5>1
        <4>3. CASE ~(Bottom(top) > 1)
          <5>1. Link(top) = Empty /\ Bottom(top) = 1
            BY <4>3, <2>2
          <5>. QED BY <3>1, <4>1, <5>1
        <4>. QED BY <4>2, <4>3
      <3>4. Runs' = Runs
        BY DEF Runs
      <3>5. taken' = {i \in Runs : seen'[i] > 0}
        BY <3>4
      <3>. QED BY <3>2, <3>3, <3>5, <2>2 DEF Runs
    <2>8. page \subseteq goal \ taken /\ taken' = taken \cup page
          /\ (page = {} => goal = {})
          /\ \A i \in page, j \in goal \ taken : j > i => j \in page
      <3>1. CASE walk.after = Empty
        BY <3>1, <2>1, <2>2, <2>5, <2>6, <2>7
      <3>2. CASE walk.after # Empty
        <4>1. top = walk.after - 1 /\ walk.after \in 2..start /\ start' = start
          BY <2>1, <2>4, <3>2
        <4>. QED BY <4>1, <3>2, <2>2, <2>4, <2>6, <2>7
      <3>. QED BY <3>1, <3>2
    <2>9. (walk'.st = "complete") = (taken' = 1..start')
      <3>1. start' \in Nat /\ top \in Nat /\ top <= start'
        BY <2>1, <2>4
      <3>2. Bottom(top) > 1 => 1 \in 1..start' /\ 1 \notin taken'
        BY <3>1, <2>2, <2>7
      <3>3. Bottom(top) = 1 => taken' = 1..start'
        BY <3>1, <2>7
      <3>4. walk'.st = "complete" <=> Bottom(top) = 1
        BY <2>2, <2>3, Texts
      <3>5. walk'.st = "complete" <=> taken' = 1..start'
        BY <3>2, <3>3, <3>4, <2>2
      <3>. QED BY <3>5, Zenon
    <2>10. ASSUME NEW g, g = goal
           PROVE  /\ 1..start' = g
                  /\ \E p \in SUBSET (g \ taken) :
                        /\ p = {} => g = {}
                        /\ \A i \in p, j \in g \ taken : j > i => j \in p
                        /\ taken' = taken \cup p
                  /\ (walk'.st = "complete") = (taken' = g)
      <3>. HIDE DEF goal, taken, page
      <3>1. page \in SUBSET (goal \ taken)
        BY <2>8
      <3>. QED BY <3>1, <2>5, <2>8, <2>9, <2>10, Zenon
    <2>11. CASE walk.after = Empty
      <3>1. 1..top = goal /\ 1..start = {} /\ top \in 0..MaxRuns
        BY <2>1, <2>11
      <3>. HIDE DEF goal
      <3>2. \E n \in 0..MaxRuns : Snapshot!Take(1..n)
        BY <3>1, <2>10, Zenon DEF Snapshot!Take
      <3>. QED BY <3>1, <3>2, <2>1 DEF Snapshot!First, Snapshot!Next
    <2>12. CASE walk.after # Empty
      <3>1. 1..start = goal /\ 1..start # {}
        BY <2>4, <2>12
      <3>. HIDE DEF goal
      <3>2. Snapshot!Take(1..start)
        BY <3>1, <2>10, Zenon DEF Snapshot!Take
      <3>. QED BY <3>1, <3>2, <2>1 DEF Snapshot!Later, Snapshot!Next
    <2>. QED BY <2>11, <2>12
  <1>2. CASE ~(Return /\ NextAfterCursor(call.page.link) # Garbage)
    <2>1. start' = start /\ seen' = seen /\ (walk'.st = "complete" <=> walk.st = "complete")
      <3>1. CASE Again
        <4>1. call.st # "idle" /\ (walk'.st = "given up" \/ walk'.st = walk.st)
          BY <3>1 DEF Again, IInv, TypeOK
        <4>2. walk.st = "going"
          BY <4>1 DEF IInv, CallOK
        <4>. QED BY <3>1, <4>1, <4>2 DEF Again
      <3>2. CASE UNCHANGED vars
        BY <3>2 DEF vars
      <3>3. CASE PipelineHistory \/ Serve \/ Lose \/ CreateRun
        BY <3>3 DEF PipelineHistory, Serve, Lose, CreateRun
      <3>4. CASE Return
        BY <3>4, <1>2 DEF Return
      <3>. QED BY <3>1, <3>2, <3>3, <3>4 DEF Next
    <2>2. (walk'.st = "complete") = (walk.st = "complete")
      BY <2>1, Zenon
    <2>. QED BY <2>1, <2>2 DEF Snapshot!vars, Runs
  <1>. QED BY <1>1, <1>2

(* A walk over a history that grows is one over the history as it was when *)
(* the first page was served: SnapshotWalk is implemented.                 *)
THEOREM PromiseKept == Spec => KeepsPromise
  BY RefineInit, RefineStep, Invariant, PTL DEF Spec, KeepsPromise, Snapshot!Spec
===============================================================================
