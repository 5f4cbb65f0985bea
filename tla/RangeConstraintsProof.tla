----------------------- MODULE RangeConstraintsProof -----------------------
(***************************************************************************)
(* Proofs about RangeConstraints, for types of any width: a RangeSet is    *)
(* kept in order, Intersect cuts out of it exactly the values of a range   *)
(* that may wrap around, and if no conversion goes from a signed type to a *)
(* larger unsigned one then the ranges of a symbol have the values with    *)
(* which a run takes the path.                                             *)
(*                                                                         *)
(* The theorems of the values rest on an arithmetic of numbers that are    *)
(* the same in a type, which conversions keep; a range that may wrap       *)
(* around is a distance from its lower bound in it.  From that come the    *)
(* meanings of pin and Intersect, of the bounds of a condition, of         *)
(* assumeSym and of assumeSymRel, in this order, and the invariant Kept.   *)
(***************************************************************************)
EXTENDS RangeConstraints, FiniteSetTheorems, TLAPS

\* What the proofs use of a type.
Type(T) ==
    /\ T \in [bits : Nat \ {0}, unsigned : BOOLEAN]
    /\ 2 ^ (T.bits - 1) \in Nat \ {0}
    /\ 2 ^ T.bits = 2 * 2 ^ (T.bits - 1)

\* Powers of 2 count the subsets of an interval.
LEMMA PowerOfTwo ==
    ASSUME NEW k \in Nat
    PROVE  2 ^ k \in Nat \ {0} /\ 2 ^ (k + 1) = 2 * 2 ^ k
  <1> DEFINE S == SUBSET (1 .. k)
             Added == {X \cup {k + 1} : X \in S}
  <1>1. /\ IsFiniteSet(1 .. k) /\ Cardinality(1 .. k) = k
        /\ IsFiniteSet(1 .. k + 1) /\ Cardinality(1 .. k + 1) = k + 1
    BY FS_Interval
  <1>2. /\ IsFiniteSet(S) /\ Cardinality(S) = 2 ^ k
        /\ Cardinality(SUBSET (1 .. k + 1)) = 2 ^ (k + 1)
    BY <1>1, FS_SUBSET
  <1>3. 2 ^ k \in Nat \ {0}
    <2>1. S # {}
      OBVIOUS
    <2> HIDE DEF S
    <2> QED
      BY <1>2, <2>1, FS_CardinalityType, FS_EmptySet
  <1>4. IsFiniteSet(Added) /\ Cardinality(Added) = Cardinality(S)
    <2> DEFINE f == [X \in S |-> X \cup {k + 1}]
    <2>1. f \in [S -> Added]
      OBVIOUS
    <2>2. \A X, Y \in S : f[X] = f[Y] => X = Y
      <3> SUFFICES ASSUME NEW X \in S, NEW Y \in S, X \cup {k + 1} = Y \cup {k + 1} PROVE X = Y
        OBVIOUS
      <3>1. k + 1 \notin X /\ k + 1 \notin Y
        OBVIOUS
      <3> QED
        BY <3>1
    <2>3. \A Z \in Added : \E X \in S : f[X] = Z
      OBVIOUS
    <2> HIDE DEF f, S, Added
    <2>4. f \in Bijection(S, Added)
      BY <2>1, <2>2, <2>3 DEF Bijection, Injection, Surjection, IsInjective
    <2> QED
      BY <1>2, <2>4, FS_Bijection DEF ExistsBijection
  <1>5. SUBSET (1 .. k + 1) = S \cup Added
    <2>1. ASSUME NEW Z \in SUBSET (1 .. k + 1) PROVE Z \in S \cup Added
      <3>1. CASE k + 1 \in Z
        <4>1. Z \ {k + 1} \in S /\ Z = (Z \ {k + 1}) \cup {k + 1}
          BY <3>1
        <4> QED
          BY <4>1
      <3>2. CASE k + 1 \notin Z
        <4>1. \A z \in Z : z \in 1 .. k
          BY <3>2
        <4> QED
          BY <4>1
      <3> QED
        BY <3>1, <3>2
    <2>2. ASSUME NEW Z \in S \cup Added PROVE Z \in SUBSET (1 .. k + 1)
      <3>1. 1 .. k \subseteq 1 .. k + 1 /\ k + 1 \in 1 .. k + 1
        OBVIOUS
      <3>2. CASE Z \in S
        BY <3>1, <3>2
      <3>3. CASE Z \in Added
        <4>1. PICK X \in S : Z = X \cup {k + 1}
          BY <3>3
        <4> QED
          BY <3>1, <4>1
      <3> QED
        BY <2>2, <3>2, <3>3
    <2> QED
      BY <2>1, <2>2
  <1>6. S \cap Added = {}
    OBVIOUS
  <1> HIDE DEF S, Added
  <1>7. Cardinality(S \cup Added) = Cardinality(S) + Cardinality(Added) - Cardinality(S \cap Added)
    BY <1>2, <1>4, FS_Union
  <1>8. Cardinality(S \cap Added) = 0
    BY <1>6, FS_EmptySet
  <1>9. 2 ^ (k + 1) = Cardinality(S) + Cardinality(S) - 0
    BY <1>2, <1>4, <1>5, <1>7, <1>8
  <1> QED
    BY <1>2, <1>3, <1>9

\* A shorter type has fewer values.
LEMMA PowerOrder ==
    ASSUME NEW a \in Nat, NEW b \in Nat, a <= b
    PROVE  2 ^ a \in Nat /\ 2 ^ b \in Nat /\ 2 ^ a <= 2 ^ b
  <1>1. /\ IsFiniteSet(1 .. a) /\ Cardinality(1 .. a) = a
        /\ IsFiniteSet(1 .. b) /\ Cardinality(1 .. b) = b
    BY FS_Interval
  <1>2. /\ IsFiniteSet(SUBSET (1 .. a)) /\ Cardinality(SUBSET (1 .. a)) = 2 ^ a
        /\ IsFiniteSet(SUBSET (1 .. b)) /\ Cardinality(SUBSET (1 .. b)) = 2 ^ b
    BY <1>1, FS_SUBSET
  <1>3. SUBSET (1 .. a) \subseteq SUBSET (1 .. b)
    <2>1. 1 .. a \subseteq 1 .. b
      OBVIOUS
    <2> QED
      BY <2>1
  <1>4. Cardinality(SUBSET (1 .. a)) <= Cardinality(SUBSET (1 .. b))
    BY <1>2, <1>3, FS_Subset
  <1> QED
    BY <1>2, <1>4, FS_CardinalityType

\* The types of a conversion are types.
LEMMA ConversionTypes ==
    ASSUME NEW k \in Conversions
    PROVE  Type(k[1]) /\ Type(k[2]) /\ Type(k[3])
<1>1. ASSUME NEW T \in {k[1], k[2], k[3]}
      PROVE  Type(T)
  <2>1. T \in [bits : Nat \ {0}, unsigned : BOOLEAN]
    BY TypesAssumption
  <2>2. T.bits - 1 \in Nat /\ (T.bits - 1) + 1 = T.bits
    BY <2>1
  <2>3. 2 ^ (T.bits - 1) \in Nat \ {0} /\ 2 ^ T.bits = 2 * 2 ^ (T.bits - 1)
    <3> DEFINE b == T.bits - 1
    <3>1. b \in Nat /\ b + 1 = T.bits
      BY <2>2
    <3> HIDE DEF b
    <3>2. 2 ^ b \in Nat \ {0} /\ 2 ^ (b + 1) = 2 * 2 ^ b
      BY <3>1, PowerOfTwo
    <3> QED BY <3>1, <3>2 DEF b
  <2> QED BY <2>1, <2>3 DEF Type
<1> QED BY <1>1

\* The bounds of a type are numbers, in order.
LEMMA TypeBounds ==
    ASSUME NEW T, Type(T)
    PROVE  /\ MinOf(T) \in Int /\ MaxOf(T) \in Int /\ MinOf(T) <= MaxOf(T)
           /\ MaxOf(T) - MinOf(T) = 2 ^ T.bits - 1
           /\ 2 ^ T.bits \in Nat \ {0}
BY DEF Type, MinOf, MaxOf

\* APSIntType::apply makes of every number a value of the type.
LEMMA ConvertType ==
    ASSUME NEW T, Type(T), NEW n \in Int
    PROVE  Convert(n, T) \in Of(T)
<1> DEFINE d == 2 ^ T.bits
           m == n - MinOf(T)
<1>1. d \in Nat \ {0} /\ m \in Int
  BY TypeBounds
<1>2. m % d \in 0 .. d - 1
  <2> HIDE DEF d, m
  <2> QED BY <1>1
<1>3. Convert(n, T) = (m % d) + MinOf(T)
  BY DEF Convert
<1>4. MaxOf(T) = MinOf(T) + d - 1 /\ MinOf(T) \in Int
  BY TypeBounds
<1> HIDE DEF d, m
<1> QED BY <1>1, <1>2, <1>3, <1>4 DEF Of

-----------------------------------------------------------------------------
\* Whether x is in one of the ranges of R.
Has(R, x) == \E r \in R : r[1] <= x /\ x <= r[2]

\* Ranges in the right order and apart from each other.
Ordered(R) ==
    /\ R \subseteq Int \X Int
    /\ \A r \in R : r[1] <= r[2]
    /\ \A r, q \in R : r = q \/ r[2] < q[1] \/ q[2] < r[1]

\* Ranges of values of a type are ranges of numbers.
LEMMA WellFormedOrdered ==
    ASSUME NEW T, Type(T), NEW R, WellFormed(R, T)
    PROVE  Ordered(R)
<1>1. R \subseteq Of(T) \X Of(T)
  BY DEF WellFormed
<1>2. Of(T) \subseteq Int
  BY TypeBounds DEF Of
<1> QED BY <1>1, <1>2 DEF WellFormed, Ordered

\* Each range of IntersectInRange comes from one of R that reaches lo and hi.
LEMMA PieceOf ==
    ASSUME NEW R, Ordered(R), NEW lo \in Int, NEW hi \in Int, lo <= hi,
           NEW p \in IntersectInRange(R, lo, hi)
    PROVE  \E r \in R : /\ p = <<Larger(r[1], lo), Smaller(r[2], hi)>>
                        /\ p[1] \in lo .. hi /\ p[2] \in lo .. hi /\ p[1] <= p[2]
                        /\ r[1] <= p[1] /\ p[2] <= r[2]
<1>1. PICK r \in {q \in R : q[2] >= lo /\ q[1] <= hi} :
          p = <<Larger(r[1], lo), Smaller(r[2], hi)>>
  BY DEF IntersectInRange
<1>2. r \in R /\ r[1] \in Int /\ r[2] \in Int /\ r[1] <= r[2] /\ r[2] >= lo /\ r[1] <= hi
  BY <1>1 DEF Ordered
<1>3. /\ Larger(r[1], lo) \in lo .. hi /\ Smaller(r[2], hi) \in lo .. hi
      /\ Larger(r[1], lo) <= Smaller(r[2], hi)
      /\ r[1] <= Larger(r[1], lo) /\ Smaller(r[2], hi) <= r[2]
  BY <1>2 DEF Larger, Smaller
<1> QED BY <1>1, <1>2, <1>3

\* The ranges of IntersectInRange are again in order and apart.
LEMMA IntersectInRangeOrdered ==
    ASSUME NEW R, Ordered(R), NEW lo \in Int, NEW hi \in Int, lo <= hi
    PROVE  Ordered(IntersectInRange(R, lo, hi))
<1> DEFINE I == IntersectInRange(R, lo, hi)
<1>1. ASSUME NEW p \in I
      PROVE  p \in Int \X Int /\ p[1] <= p[2]
  BY <1>1, PieceOf
<1>2. ASSUME NEW p \in I, NEW q \in I
      PROVE  p = q \/ p[2] < q[1] \/ q[2] < p[1]
  <2>1. PICK r \in R : /\ p = <<Larger(r[1], lo), Smaller(r[2], hi)>>
                       /\ p[1] \in lo .. hi /\ p[2] \in lo .. hi
                       /\ r[1] <= p[1] /\ p[2] <= r[2]
    BY <1>2, PieceOf
  <2>2. PICK t \in R : /\ q = <<Larger(t[1], lo), Smaller(t[2], hi)>>
                       /\ q[1] \in lo .. hi /\ q[2] \in lo .. hi
                       /\ t[1] <= q[1] /\ q[2] <= t[2]
    BY <1>2, PieceOf
  <2>3. CASE r = t
    BY <2>1, <2>2, <2>3
  <2>4. CASE r[2] < t[1] \/ t[2] < r[1]
    <3>1. r[1] \in Int /\ r[2] \in Int /\ t[1] \in Int /\ t[2] \in Int
      BY DEF Ordered
    <3> QED BY <2>1, <2>2, <2>4, <3>1
  <2> QED BY <2>3, <2>4 DEF Ordered
<1> QED BY <1>1, <1>2 DEF Ordered

\* They hold the values of R from lo to hi, and no others.
LEMMA IntersectInRangeValues ==
    ASSUME NEW R, Ordered(R), NEW lo \in Int, NEW hi \in Int, lo <= hi, NEW x \in Int
    PROVE  Has(IntersectInRange(R, lo, hi), x) <=> Has(R, x) /\ lo <= x /\ x <= hi
<1>1. ASSUME Has(IntersectInRange(R, lo, hi), x)
      PROVE  Has(R, x) /\ lo <= x /\ x <= hi
  <2>1. PICK p \in IntersectInRange(R, lo, hi) : p[1] <= x /\ x <= p[2]
    BY <1>1 DEF Has
  <2>2. PICK r \in R : /\ p[1] \in lo .. hi /\ p[2] \in lo .. hi
                       /\ r[1] <= p[1] /\ p[2] <= r[2]
    BY <2>1, PieceOf
  <2>3. r[1] \in Int /\ r[2] \in Int
    BY DEF Ordered
  <2>4. r[1] <= x /\ x <= r[2] /\ lo <= x /\ x <= hi
    BY <2>1, <2>2, <2>3
  <2> QED BY <2>4 DEF Has
<1>2. ASSUME Has(R, x), lo <= x, x <= hi
      PROVE  Has(IntersectInRange(R, lo, hi), x)
  <2>1. PICK r \in R : r[1] <= x /\ x <= r[2]
    BY <1>2 DEF Has
  <2>2. r[1] \in Int /\ r[2] \in Int
    BY DEF Ordered
  <2>3. r \in {q \in R : q[2] >= lo /\ q[1] <= hi}
    BY <1>2, <2>1, <2>2
  <2>4. Larger(r[1], lo) <= x /\ x <= Smaller(r[2], hi)
    BY <1>2, <2>1, <2>2 DEF Larger, Smaller
  <2>5. <<Larger(r[1], lo), Smaller(r[2], hi)>> \in IntersectInRange(R, lo, hi)
    BY <2>3 DEF IntersectInRange
  <2> QED BY <2>4, <2>5 DEF Has
<1> QED BY <1>1, <1>2

-----------------------------------------------------------------------------
\* The ranges that the iterator has left are in order too.
LEMMA RestOrdered ==
    ASSUME NEW R, Ordered(R), NEW hi \in Int
    PROVE  Ordered(Rest(R, hi))
BY DEF Rest, Ordered

\* IntersectInRange of R from lo to hi, of which it may be a part that the iterator
\* has left: its ranges are between lo and hi.
LEMMA PiecesBetween ==
    ASSUME NEW R, Ordered(R), NEW lo \in Int, NEW hi \in Int, lo <= hi
    PROVE  IntersectInRange(R, lo, hi) \subseteq (lo .. hi) \X (lo .. hi)
<1>1. ASSUME NEW p \in IntersectInRange(R, lo, hi)
      PROVE  p \in (lo .. hi) \X (lo .. hi)
  BY <1>1, PieceOf
<1> QED BY <1>1

\* What is cut out of a range set of the type is one again.
LEMMA CutWellFormed ==
    ASSUME NEW S, Type(S), NEW R, WellFormed(R, S), NEW lo \in Of(S), NEW hi \in Of(S)
    PROVE  WellFormed(Cut(R, lo, hi, S), S)
<1>1. /\ MinOf(S) \in Int /\ MaxOf(S) \in Int /\ lo \in Int /\ hi \in Int
      /\ MinOf(S) <= lo /\ lo <= MaxOf(S) /\ MinOf(S) <= hi /\ hi <= MaxOf(S)
  BY TypeBounds DEF Of
<1>2. Ordered(R) /\ Ordered(Rest(R, hi))
  BY <1>1, WellFormedOrdered, RestOrdered
<1>3. CASE lo <= hi
  <2>1. Cut(R, lo, hi, S) = IntersectInRange(R, lo, hi)
    BY <1>3 DEF Cut
  <2>2. Ordered(IntersectInRange(R, lo, hi))
    BY <1>1, <1>2, <1>3, IntersectInRangeOrdered
  <2>3. IntersectInRange(R, lo, hi) \subseteq (lo .. hi) \X (lo .. hi)
    BY <1>1, <1>2, <1>3, PiecesBetween
  <2>4. lo .. hi \subseteq Of(S)
    BY <1>1 DEF Of
  <2> QED BY <2>1, <2>2, <2>3, <2>4 DEF Ordered, WellFormed
<1>4. CASE hi < lo
  <2> DEFINE L == IntersectInRange(R, MinOf(S), hi)
             U == IntersectInRange(Rest(R, hi), lo, MaxOf(S))
  <2>1. Cut(R, lo, hi, S) = L \cup U
    BY <1>1, <1>4 DEF Cut
  <2>2. Ordered(L) /\ Ordered(U)
    BY <1>1, <1>2, IntersectInRangeOrdered
  <2>3. L \subseteq (MinOf(S) .. hi) \X (MinOf(S) .. hi)
    BY <1>1, <1>2, PiecesBetween
  <2>4. U \subseteq (lo .. MaxOf(S)) \X (lo .. MaxOf(S))
    BY <1>1, <1>2, PiecesBetween
  <2>5. MinOf(S) .. hi \subseteq Of(S) /\ lo .. MaxOf(S) \subseteq Of(S)
    BY <1>1 DEF Of
  <2> HIDE DEF L, U
  <2>6. ASSUME NEW r \in L, NEW q \in U
        PROVE  r[2] < q[1]
    BY <1>1, <1>4, <2>3, <2>4, <2>6
  <2>7. L \cup U \subseteq Of(S) \X Of(S)
    BY <2>3, <2>4, <2>5
  <2>8. \A r \in L \cup U : r[1] <= r[2]
    BY <2>2 DEF Ordered
  <2>9. \A r, q \in L \cup U : r = q \/ r[2] < q[1] \/ q[2] < r[1]
    BY <2>2, <2>6 DEF Ordered
  <2> QED BY <2>1, <2>7, <2>8, <2>9 DEF WellFormed
<1> QED BY <1>1, <1>3, <1>4

\* Whether x is in the range from lo to hi, which wraps around if lo > hi.
InWrapped(x, lo, hi) == IF lo <= hi THEN lo <= x /\ x <= hi ELSE x <= hi \/ lo <= x

\* RangeSet::Intersect, after pin: the values that stay are exactly the values of the
\* range that may wrap around, although the iterator is not set back between the two
\* parts.
THEOREM CutValues ==
    ASSUME NEW S, Type(S), NEW R, WellFormed(R, S), NEW lo \in Of(S), NEW hi \in Of(S),
           NEW x \in Of(S)
    PROVE  Has(Cut(R, lo, hi, S), x) <=> Has(R, x) /\ InWrapped(x, lo, hi)
<1>1. /\ MinOf(S) \in Int /\ MaxOf(S) \in Int /\ lo \in Int /\ hi \in Int /\ x \in Int
      /\ MinOf(S) <= lo /\ lo <= MaxOf(S) /\ MinOf(S) <= hi /\ hi <= MaxOf(S)
      /\ MinOf(S) <= x /\ x <= MaxOf(S)
  BY TypeBounds DEF Of
<1>2. Ordered(R) /\ Ordered(Rest(R, hi))
  BY <1>1, WellFormedOrdered, RestOrdered
<1>3. CASE lo <= hi
  <2>1. Cut(R, lo, hi, S) = IntersectInRange(R, lo, hi)
    BY <1>3 DEF Cut
  <2> QED BY <1>1, <1>2, <1>3, <2>1, IntersectInRangeValues DEF InWrapped
<1>4. CASE hi < lo
  <2> DEFINE L == IntersectInRange(R, MinOf(S), hi)
             U == IntersectInRange(Rest(R, hi), lo, MaxOf(S))
  <2>1. Cut(R, lo, hi, S) = L \cup U
    BY <1>1, <1>4 DEF Cut
  <2>2. Has(L, x) <=> Has(R, x) /\ x <= hi
    BY <1>1, <1>2, IntersectInRangeValues
  <2>3. Has(U, x) <=> Has(Rest(R, hi), x) /\ lo <= x
    BY <1>1, <1>2, IntersectInRangeValues
  <2>4. lo <= x => (Has(Rest(R, hi), x) <=> Has(R, x))
    <3>1. ASSUME NEW r \in R, r[1] <= x, x <= r[2], lo <= x
          PROVE  r \in Rest(R, hi)
      <4>1. r[2] \in Int
        BY <1>2 DEF Ordered
      <4> QED BY <1>1, <1>4, <3>1, <4>1 DEF Rest
    <3> QED BY <3>1 DEF Has, Rest
  <2> HIDE DEF L, U
  <2>5. Has(L \cup U, x) <=> Has(L, x) \/ Has(U, x)
    BY DEF Has
  <2>6. InWrapped(x, lo, hi) <=> x <= hi \/ lo <= x
    BY <1>1, <1>4 DEF InWrapped
  <2> QED BY <2>1, <2>2, <2>3, <2>4, <2>5, <2>6
<1> QED BY <1>1, <1>3, <1>4

-----------------------------------------------------------------------------
\* Intersect gives a range set of the symbol's type, whatever the bounds are.
LEMMA IntersectWellFormed ==
    ASSUME NEW S, Type(S), NEW R, WellFormed(R, S), NEW lo \in Int, NEW hi \in Int, NEW B
    PROVE  WellFormed(Intersect(R, lo, hi, B, S), S)
<1>1. MinOf(S) \in Of(S) /\ MaxOf(S) \in Of(S)
  BY TypeBounds DEF Of
<1>2. PinLower(lo, B, S) \in Of(S) /\ PinUpper(hi, B, S) \in Of(S)
  BY <1>1, ConvertType DEF PinLower, PinUpper
<1>3. WellFormed({}, S)
  BY DEF WellFormed
<1> QED BY <1>2, <1>3, CutWellFormed DEF Intersect

\* The bounds that the conditions give are numbers.
LEMMA BoundsNumbers ==
    ASSUME NEW A, Type(A), NEW n \in Int, NEW adj \in Int, NEW op \in Ops
    PROVE  Bounds(op, n, adj, A)[1] \in Int /\ Bounds(op, n, adj, A)[2] \in Int
<1> DEFINE at(m) == Convert(m - adj, A)
<1>1. ASSUME NEW m \in Int
      PROVE  at(m) \in Int
  <2>1. at(m) \in Of(A)
    BY ConvertType
  <2> QED BY <2>1, TypeBounds DEF Of
<1>2. MinOf(A) \in Int /\ MaxOf(A) \in Int /\ n + 1 \in Int /\ n - 1 \in Int
  BY TypeBounds
<1>3. /\ at(n) \in Int /\ at(n + 1) \in Int /\ at(n - 1) \in Int
      /\ at(MinOf(A)) \in Int /\ at(MaxOf(A)) \in Int
  BY <1>1, <1>2
<1> HIDE DEF at
<1>4. Bounds(op, n, adj, A) \in
          {<<at(n), at(n)>>, <<at(n + 1), at(n - 1)>>, <<at(MinOf(A)), at(n - 1)>>,
           <<at(MinOf(A)), at(n)>>, <<at(n + 1), at(MaxOf(A))>>, <<at(n), at(MaxOf(A))>>}
  BY DEF Bounds, Ops, at
<1> QED BY <1>3, <1>4

\* The symbol has a type.
LEMMA SymbolType ==
    ASSUME Inv
    PROVE  Type(type)
BY ConversionTypes DEF Inv

\* GetRange gives a range set also for a symbol that has none yet.
LEMMA GetRangeWellFormed ==
    ASSUME Inv
    PROVE  WellFormed(GetRange, type)
<1> DEFINE all == {<<MinOf(type), MaxOf(type)>>}
<1>1. Type(type)
  BY SymbolType
<1>2. MinOf(type) \in Int /\ MaxOf(type) \in Int /\ MinOf(type) <= MaxOf(type)
  BY <1>1, TypeBounds
<1>3. WellFormed(all, type)
  BY <1>2 DEF WellFormed, Of
<1> HIDE DEF all
<1>4. WellFormed(Intersect(all, 1, MaxOf(type), type, type), type)
  BY <1>1, <1>2, <1>3, IntersectWellFormed
<1> QED BY <1>3, <1>4 DEF GetRange, Inv, all

\* The parts of a condition.
LEMMA ConditionParts ==
    ASSUME NEW s \in {k[1] : k \in Conversions}, NEW c \in Conditions(s)
    PROVE  /\ c.op \in Ops /\ Type(c.w) /\ Type(c.v)
           /\ c.adj \in Int /\ c.int \in Int
<1>1. PICK k \in {j \in Conversions : j[1] = s} :
          c \in [op : Ops, w : {k[2]}, v : {k[3]},
                 adj : IF k[2] = s THEN Of(s) ELSE Of(k[2]) \ {0}, int : Of(k[3])]
  BY DEF Conditions
<1>2. /\ c.op \in Ops /\ c.w = k[2] /\ c.v = k[3] /\ c.int \in Of(k[3])
      /\ c.adj \in Of(s) \/ c.adj \in Of(k[2])
  BY <1>1
<1>3. k \in Conversions /\ k[1] = s
  BY <1>1
<1>4. Type(k[2]) /\ Type(k[3]) /\ Type(s)
  BY <1>3, ConversionTypes
<1>5. Of(s) \subseteq Int /\ Of(k[2]) \subseteq Int /\ Of(k[3]) \subseteq Int
  BY <1>4, TypeBounds DEF Of
<1> QED BY <1>2, <1>4, <1>5

\* assume leaves the ranges as they are or makes a range set of the symbol's type.
LEMMA AssumeWellFormed ==
    ASSUME Inv, NEW c \in Conditions(type), NEW assumption \in BOOLEAN
    PROVE  Assume(c, assumption) = ranges \/ WellFormed(Assume(c, assumption), type)
<1> DEFINE op == IF assumption THEN c.op ELSE Negate(c.op)
           k == SymInt(c)
           C == IF Below(c.w, k.v) THEN k.v ELSE c.w
           A == IF C.bits = c.w.bits /\ C.unsigned THEN C ELSE c.w
           n == Convert(k.int, C)
           adj == Convert(c.adj, A)
<1>1. c.op \in Ops /\ Type(c.w) /\ Type(c.v) /\ c.adj \in Int /\ c.int \in Int
  BY ConditionParts DEF Inv
<1>2. op \in Ops
  BY <1>1 DEF Ops, Negate
<1>3. Type(k.v) /\ k.int \in Int
  <2>1. Convert(c.int, c.w) \in Of(c.w)
    BY <1>1, ConvertType
  <2>2. Of(c.w) \subseteq Int
    BY <1>1, TypeBounds DEF Of
  <2> QED BY <1>1, <2>1, <2>2 DEF SymInt
<1> HIDE DEF op, k
<1>4. Type(C)
  BY <1>1, <1>3
<1>5. Type(A)
  BY <1>1, <1>4
<1> HIDE DEF C, A
<1>6. n \in Int /\ adj \in Int
  <2>1. n \in Of(C) /\ adj \in Of(A)
    BY <1>1, <1>3, <1>4, <1>5, ConvertType
  <2> QED BY <1>4, <1>5, <2>1, TypeBounds DEF Of
<1> HIDE DEF n, adj
<1>7. Assume(c, assumption) = AssumeSym(op, n, C, adj, A)
  BY DEF Assume, AssumeSymRel, op, k, C, A, n, adj
<1>8. Convert(n, A) \in Int
  <2>1. Convert(n, A) \in Of(A)
    BY <1>5, <1>6, ConvertType
  <2> QED BY <1>5, <2>1, TypeBounds DEF Of
<1> DEFINE b == Bounds(op, Convert(n, A), adj, A)
<1>9. b[1] \in Int /\ b[2] \in Int
  BY <1>2, <1>5, <1>6, <1>8, BoundsNumbers
<1> HIDE DEF b
<1>10. WellFormed(Intersect(GetRange, b[1], b[2], A, type), type)
  BY <1>9, SymbolType, GetRangeWellFormed, IntersectWellFormed
<1>11. WellFormed({}, type)
  BY DEF WellFormed
<1>12. AssumeSym(op, n, C, adj, A)
           \in {{}, ranges, Intersect(GetRange, b[1], b[2], A, type)}
  BY DEF AssumeSym, b
<1> QED BY <1>7, <1>10, <1>11, <1>12

\* A branch that is taken leaves a range set, or none as before.
LEMMA BranchInv ==
    ASSUME Inv, NEW c \in Conditions(type), NEW assumption \in BOOLEAN,
           Assume(c, assumption) # {}, type' = type,
           ranges' = ranges \/ ranges' = Assume(c, assumption)
    PROVE  Inv'
<1>1. ranges' = ranges \/ (ranges' # {} /\ WellFormed(ranges', type))
  BY AssumeWellFormed
<1>2. WellFormed(ranges, type)' <=> WellFormed(ranges', type')
  BY DEF WellFormed, Of, MinOf, MaxOf
<1> QED BY <1>1, <1>2 DEF Inv

\* On every path the ranges that the manager keeps for a symbol are not empty, in
\* order, in the type of the symbol and apart from each other, so that the singleton
\* tests and the single pass of IntersectInRange are right to rely on that.
THEOREM SpecInv == Spec => []Inv
<1>1. Init => Inv
  BY DEF Init, Inv
<1>2. Inv /\ [Next]_vars => Inv'
  <2> SUFFICES ASSUME Inv, [Next]_vars
               PROVE  Inv'
    OBVIOUS
  <2>1. ASSUME NEW c \in Conditions(type), AssumeTrue(c)
        PROVE  Inv'
    BY <2>1, BranchInv DEF AssumeTrue
  <2>2. ASSUME NEW c \in Conditions(type), AssumeFalse(c)
        PROVE  Inv'
    <3>1. CASE Assume(c, FALSE) # {} /\ ranges' = Assume(c, FALSE)
      BY <2>2, <3>1, BranchInv DEF AssumeFalse
    <3>2. CASE UNCHANGED ranges
      BY <2>2, <3>2 DEF AssumeFalse, Inv, WellFormed, Of, MinOf, MaxOf
    <3> QED BY <2>2, <3>1, <3>2 DEF AssumeFalse
  <2>3. CASE UNCHANGED vars
    BY <2>3 DEF vars, Inv, WellFormed, Of, MinOf, MaxOf
  <2> QED BY <2>1, <2>2, <2>3 DEF Next
<1> QED BY <1>1, <1>2, PTL DEF Spec

-----------------------------------------------------------------------------
(* Powers of two, and arithmetic that wraps around.                        *)

\* Whether m and n are the same in arithmetic with d values.
Same(m, n, d) == \E q \in Int : m - n = q * d

\* A multiple of d that is less than d is 0.
LEMMA SmallMultiple ==
    ASSUME NEW d \in Nat \ {0}, NEW q \in Int, q * d < d, -d < q * d
    PROVE  q = 0
  <1>1. CASE q >= 1
    <2>1. q * d >= d
      <3>1. q - 1 \in Nat /\ q * d = (q - 1) * d + d
        BY <1>1
      <3>2. (q - 1) * d \in Nat
        BY <3>1
      <3> QED
        BY <3>1, <3>2
    <2> QED
      BY <2>1
  <1>2. CASE q <= -1
    <2>1. q * d <= -d
      <3>1. -1 - q \in Nat /\ q * d = -((-1 - q) * d) - d
        BY <1>2
      <3>2. (-1 - q) * d \in Nat
        BY <3>1
      <3> QED
        BY <3>1, <3>2
    <2> QED
      BY <2>1
  <1> QED
    BY <1>1, <1>2

\* Numbers that are the same and close to each other are equal.
LEMMA SameNear ==
    ASSUME NEW d \in Nat \ {0}, NEW m \in Int, NEW n \in Int, Same(m, n, d),
           m - n < d, n - m < d
    PROVE  m = n
  <1>1. PICK q \in Int : m - n = q * d
    BY DEF Same
  <1>2. q * d < d /\ -d < q * d
    BY <1>1
  <1>3. q = 0
    BY <1>2, SmallMultiple
  <1> QED
    BY <1>1, <1>3

\* Equal numbers are the same, and those that differ by d.
LEMMA SameEasy ==
    ASSUME NEW d \in Nat \ {0}, NEW m \in Int
    PROVE  Same(m, m, d) /\ Same(m + d, m, d) /\ Same(m - d, m, d)
  <1>1. m - m = 0 * d /\ (m + d) - m = 1 * d /\ (m - d) - m = (-1) * d
    OBVIOUS
  <1> QED
    BY <1>1 DEF Same

\* Numbers are the same both ways.
LEMMA SameSymmetric ==
    ASSUME NEW d \in Nat \ {0}, NEW m \in Int, NEW n \in Int, Same(m, n, d)
    PROVE  Same(n, m, d)
  <1>1. PICK q \in Int : m - n = q * d
    BY DEF Same
  <1>2. n - m = (-q) * d /\ -q \in Int
    <2>1. (-q) * d = -(q * d) /\ q * d \in Int
      OBVIOUS
    <2> QED
      BY <1>1, <2>1
  <1> QED
    BY <1>2 DEF Same

\* What is the same as the same numbers is the same.
LEMMA SameTrans ==
    ASSUME NEW d \in Nat \ {0}, NEW m \in Int, NEW n \in Int, NEW p \in Int,
           Same(m, n, d), Same(n, p, d)
    PROVE  Same(m, p, d)
  <1>1. PICK q \in Int : m - n = q * d
    BY DEF Same
  <1>2. PICK r \in Int : n - p = r * d
    BY DEF Same
  <1>3. m - p = (q + r) * d /\ q + r \in Int
    <2>1. (q + r) * d = q * d + r * d
      OBVIOUS
    <2>2. q * d \in Int /\ r * d \in Int
      OBVIOUS
    <2> QED
      BY <1>1, <1>2, <2>1, <2>2
  <1> QED
    BY <1>3 DEF Same

\* So are their differences and sums.
LEMMA SameDifference ==
    ASSUME NEW d \in Nat \ {0}, NEW m \in Int, NEW n \in Int, NEW k \in Int, NEW l \in Int,
           Same(m, n, d), Same(k, l, d)
    PROVE  Same(m - k, n - l, d) /\ Same(m + k, n + l, d)
  <1>1. PICK q \in Int : m - n = q * d
    BY DEF Same
  <1>2. PICK r \in Int : k - l = r * d
    BY DEF Same
  <1>3. /\ (m - k) - (n - l) = (q - r) * d
        /\ (m + k) - (n + l) = (q + r) * d
    <2>1. (q - r) * d = q * d - r * d /\ (q + r) * d = q * d + r * d
      OBVIOUS
    <2>2. q * d \in Int /\ r * d \in Int
      OBVIOUS
    <2> QED
      BY <1>1, <1>2, <2>1, <2>2
  <1>4. q + r \in Int /\ q - r \in Int
    OBVIOUS
  <1>5. Same(m - k, n - l, d)
    BY <1>3, <1>4 DEF Same
  <1>6. Same(m + k, n + l, d)
    BY <1>3, <1>4 DEF Same
  <1> QED
    BY <1>5, <1>6

\* The number of values of a type.
Size(T) == 2 ^ T.bits

\* The values of a type, in numbers.
LEMMA TypeSize ==
    ASSUME NEW T, Type(T)
    PROVE  /\ Size(T) \in Nat \ {0} /\ Size(T) >= 2
           /\ MinOf(T) \in Int /\ MaxOf(T) = MinOf(T) + Size(T) - 1
           /\ MinOf(T) \in Of(T) /\ MaxOf(T) \in Of(T)
           /\ \A n : n \in Of(T) <=> n \in Int /\ MinOf(T) <= n /\ n <= MaxOf(T)
  <1>1. 2 ^ T.bits \in Nat \ {0} /\ 2 ^ T.bits = 2 * 2 ^ (T.bits - 1) /\ 2 ^ (T.bits - 1) \in Nat \ {0}
    BY DEF Type
  <1>2. Size(T) \in Nat \ {0} /\ Size(T) >= 2
    BY <1>1 DEF Size
  <1>3. MinOf(T) \in Int /\ MaxOf(T) = MinOf(T) + Size(T) - 1
    BY <1>1 DEF MinOf, MaxOf, Size
  <1> QED
    BY <1>2, <1>3 DEF Of

\* A conversion keeps a number the same, makes it a value of the type, and is the only
\* such value.
LEMMA ConvertSame ==
    ASSUME NEW T, Type(T), NEW n \in Int
    PROVE  /\ Convert(n, T) \in Of(T) /\ Convert(n, T) \in Int
           /\ Same(Convert(n, T), n, Size(T)) /\ Same(n, Convert(n, T), Size(T))
           /\ \A a \in Of(T) : Same(a, n, Size(T)) => a = Convert(n, T)
  <1> DEFINE d == Size(T)
             m == n - MinOf(T)
             c == Convert(n, T)
  <1>1. d \in Nat \ {0} /\ m \in Int /\ MinOf(T) \in Int
    BY TypeSize
  <1>2. c \in Of(T) /\ c \in Int
    BY ConvertType, TypeSize
  <1>3. c = (m % d) + MinOf(T)
    BY DEF Convert, Size
  <1>4. m \div d \in Int /\ m % d \in Int /\ m = d * (m \div d) + (m % d)
    <2> HIDE DEF m, d
    <2> QED
      BY <1>1
  <1>5. n - c = (m \div d) * d
    <2> DEFINE q == m \div d
               r == m % d
    <2>1. q \in Int /\ r \in Int /\ m = d * q + r /\ c = r + MinOf(T) /\ n = m + MinOf(T)
      BY <1>1, <1>3, <1>4
    <2> HIDE DEF q, r, m, d, c
    <2>2. d * q = q * d /\ q * d \in Int
      BY <1>1, <2>1
    <2>3. n - c = q * d
      BY <1>1, <2>1, <2>2
    <2> QED
      BY <2>3 DEF q
  <1> HIDE DEF d, c, m
  <1>6. Same(n, c, d)
    BY <1>4, <1>5 DEF Same
  <1>7. Same(c, n, d)
    BY <1>1, <1>2, <1>6, SameSymmetric
  <1>8. ASSUME NEW a \in Of(T), Same(a, n, d)
        PROVE  a = c
    <2>1. a \in Int /\ MinOf(T) <= a /\ a <= MaxOf(T) /\ MinOf(T) <= c /\ c <= MaxOf(T)
          /\ MaxOf(T) = MinOf(T) + d - 1
      BY <1>2, TypeSize DEF d
    <2>2. Same(a, c, d)
      BY <1>1, <1>2, <1>6, <1>8, <2>1, SameTrans
    <2>3. a - c < d /\ c - a < d
      BY <1>1, <1>2, <2>1
    <2> QED
      BY <1>1, <1>2, <2>1, <2>2, <2>3, SameNear
  <1> QED
    BY <1>2, <1>6, <1>7, <1>8 DEF c, d

\* A value of the type stays as it is.
LEMMA ConvertIdentity ==
    ASSUME NEW T, Type(T), NEW n \in Of(T)
    PROVE  Convert(n, T) = n
  <1>1. n \in Int /\ Size(T) \in Nat \ {0}
    BY TypeSize
  <1>2. Same(n, n, Size(T))
    BY <1>1, SameEasy
  <1> QED
    BY <1>1, <1>2, ConvertSame

\* Numbers that are the same are converted to one value.
LEMMA ConvertEqual ==
    ASSUME NEW T, Type(T), NEW m \in Int, NEW n \in Int, Same(m, n, Size(T))
    PROVE  Convert(m, T) = Convert(n, T)
  <1>1. Size(T) \in Nat \ {0}
    BY TypeSize
  <1>2. Convert(m, T) \in Of(T) /\ Convert(m, T) \in Int /\ Same(Convert(m, T), m, Size(T))
    BY ConvertSame
  <1>3. Same(Convert(m, T), n, Size(T))
    BY <1>1, <1>2, SameTrans
  <1> QED
    BY <1>2, <1>3, ConvertSame
-----------------------------------------------------------------------------
(* Ranges that wrap around.                                                *)

\* How far x is from lo, going up and from the largest value on to the least.
Distance(x, lo, d) == IF lo <= x THEN x - lo ELSE x - lo + d

\* A value is in a range when it is no further from its lower bound than the upper one.
LEMMA WrappedDistance ==
    ASSUME NEW T, Type(T), NEW x \in Of(T), NEW lo \in Of(T), NEW hi \in Of(T)
    PROVE  InWrapped(x, lo, hi) <=> Distance(x, lo, Size(T)) <= Distance(hi, lo, Size(T))
  <1> DEFINE d == Size(T)
  <1>1. /\ d \in Nat /\ MinOf(T) \in Int /\ MaxOf(T) = MinOf(T) + d - 1
        /\ x \in Int /\ lo \in Int /\ hi \in Int
        /\ MinOf(T) <= x /\ x <= MaxOf(T) /\ MinOf(T) <= lo /\ lo <= MaxOf(T)
        /\ MinOf(T) <= hi /\ hi <= MaxOf(T)
    BY TypeSize
  <1> HIDE DEF d
  <1>2. InWrapped(x, lo, hi) <=> Distance(x, lo, d) <= Distance(hi, lo, d)
    BY <1>1 DEF InWrapped, Distance
  <1> QED
    BY <1>2 DEF d

\* The distance is less than the number of values, and the same as the difference.
LEMMA DistanceSame ==
    ASSUME NEW T, Type(T), NEW x \in Of(T), NEW lo \in Of(T)
    PROVE  /\ Distance(x, lo, Size(T)) \in 0 .. Size(T) - 1
           /\ Same(Distance(x, lo, Size(T)), x - lo, Size(T))
  <1> DEFINE d == Size(T)
  <1>1. /\ d \in Nat \ {0} /\ MinOf(T) \in Int /\ MaxOf(T) = MinOf(T) + d - 1
        /\ x \in Int /\ lo \in Int
        /\ MinOf(T) <= x /\ x <= MaxOf(T) /\ MinOf(T) <= lo /\ lo <= MaxOf(T)
    BY TypeSize
  <1> HIDE DEF d
  <1>2. Distance(x, lo, d) \in 0 .. d - 1
    BY <1>1 DEF Distance
  <1>3. Same(x - lo, x - lo, d) /\ Same(x - lo + d, x - lo, d)
    <2>1. x - lo \in Int
      BY <1>1
    <2> QED
      BY <1>1, <2>1, SameEasy
  <1>4. Same(Distance(x, lo, d), x - lo, d)
    BY <1>3 DEF Distance
  <1> QED
    BY <1>2, <1>4 DEF d

\* Two types with as many values: differences that are the same give equal distances.
LEMMA DistanceEqual ==
    ASSUME NEW T, Type(T), NEW U, Type(U), Size(T) = Size(U),
           NEW x \in Of(T), NEW lo \in Of(T), NEW y \in Of(U), NEW a \in Of(U),
           Same(x - lo, y - a, Size(T))
    PROVE  Distance(x, lo, Size(T)) = Distance(y, a, Size(U))
  <1> DEFINE d == Size(T)
             m == Distance(x, lo, d)
             n == Distance(y, a, d)
  <1>1. d \in Nat \ {0} /\ x - lo \in Int /\ y - a \in Int
    BY TypeSize
  <1>2. m \in 0 .. d - 1 /\ Same(m, x - lo, d)
    BY DistanceSame
  <1>3. n \in 0 .. d - 1 /\ Same(n, y - a, d)
    BY DistanceSame
  <1> HIDE DEF m, n
  <1>4. m \in Int /\ n \in Int /\ m - n < d /\ n - m < d
    BY <1>1, <1>2, <1>3
  <1> DEFINE p == x - lo
             q == y - a
  <1>5. p \in Int /\ q \in Int /\ Same(m, p, d) /\ Same(n, q, d) /\ Same(p, q, d)
    BY <1>1, <1>2, <1>3
  <1> HIDE DEF d, p, q
  <1>6. Same(q, n, d)
    BY <1>1, <1>4, <1>5, SameSymmetric
  <1>7. Same(m, q, d)
    BY <1>1, <1>4, <1>5, SameTrans
  <1>8. Same(m, n, d)
    BY <1>1, <1>4, <1>5, <1>6, <1>7, SameTrans
  <1>9. m = n
    BY <1>1, <1>4, <1>8, SameNear
  <1> QED
    BY <1>9 DEF m, n, d

\* So the same values are in the same ranges.
LEMMA WrappedSame ==
    ASSUME NEW T, Type(T), NEW U, Type(U), Size(T) = Size(U),
           NEW x \in Of(T), NEW lo \in Of(T), NEW hi \in Of(T),
           NEW y \in Of(U), NEW a \in Of(U), NEW b \in Of(U),
           Same(x - lo, y - a, Size(T)), Same(hi - lo, b - a, Size(T))
    PROVE  InWrapped(x, lo, hi) <=> InWrapped(y, a, b)
  <1>1. InWrapped(x, lo, hi) <=> Distance(x, lo, Size(T)) <= Distance(hi, lo, Size(T))
    BY WrappedDistance
  <1>2. InWrapped(y, a, b) <=> Distance(y, a, Size(U)) <= Distance(b, a, Size(U))
    BY WrappedDistance
  <1>3. Distance(x, lo, Size(T)) = Distance(y, a, Size(U))
    BY DistanceEqual
  <1>4. Distance(hi, lo, Size(T)) = Distance(b, a, Size(U))
    BY DistanceEqual
  <1> QED
    BY <1>1, <1>2, <1>3, <1>4

\* The difference of two conversions is the same as that of the numbers.
LEMMA ConvertDifference ==
    ASSUME NEW T, Type(T), NEW U, Type(U), Size(T) = Size(U), NEW m \in Int, NEW n \in Int
    PROVE  Same(Convert(m, T) - Convert(n, U), m - n, Size(T))
  <1>1. Size(T) \in Nat \ {0}
    BY TypeSize
  <1>2. Convert(m, T) \in Int /\ Same(Convert(m, T), m, Size(T))
    BY ConvertSame
  <1>3. Convert(n, U) \in Int /\ Same(Convert(n, U), n, Size(T))
    BY ConvertSame
  <1> QED
    BY <1>1, <1>2, <1>3, SameDifference

\* The value x + adj is in a range when x is in the range that is moved by adj.
LEMMA WrappedShift ==
    ASSUME NEW A, Type(A), NEW x \in Of(A), NEW adj \in Int, NEW lo \in Int, NEW hi \in Int
    PROVE  InWrapped(x, Convert(lo - adj, A), Convert(hi - adj, A))
               <=> InWrapped(Convert(x + adj, A), Convert(lo, A), Convert(hi, A))
  <1> DEFINE d == Size(A)
             y == Convert(x + adj, A)
             l == Convert(lo - adj, A)
             h == Convert(hi - adj, A)
             a == Convert(lo, A)
             b == Convert(hi, A)
  <1>1. d \in Nat \ {0} /\ x \in Int /\ x + adj \in Int /\ lo - adj \in Int /\ hi - adj \in Int
    BY TypeSize
  <1>2. y \in Of(A) /\ l \in Of(A) /\ h \in Of(A) /\ a \in Of(A) /\ b \in Of(A)
    BY <1>1, ConvertSame
  <1>3. y \in Int /\ l \in Int /\ h \in Int /\ a \in Int /\ b \in Int
    BY <1>1, ConvertSame
  <1>4. Same(x - l, y - a, d)
    <2>1. Same(y - a, x + adj - lo, d)
      BY <1>1, ConvertDifference
    <2>2. Same(x - l, x - (lo - adj), d)
      <3>1. x = Convert(x, A)
        BY ConvertIdentity
      <3> QED
        BY <1>1, <3>1, ConvertDifference
    <2>3. x + adj - lo = x - (lo - adj) /\ x + adj - lo \in Int /\ y - a \in Int /\ x - l \in Int
      BY <1>1, <1>3
    <2> DEFINE p == x + adj - lo
               q == y - a
               r == x - l
    <2>4. Same(q, p, d) /\ Same(r, p, d) /\ p \in Int /\ q \in Int /\ r \in Int
      BY <2>1, <2>2, <2>3
    <2> HIDE DEF p, q, r, d
    <2>5. Same(p, q, d)
      BY <1>1, <2>4, SameSymmetric
    <2>6. Same(r, q, d)
      BY <1>1, <2>4, <2>5, SameTrans
    <2> QED
      BY <2>6 DEF q, r
  <1>5. Same(h - l, b - a, d)
    <2>1. Same(b - a, hi - lo, d)
      BY <1>1, ConvertDifference
    <2>2. Same(h - l, (hi - adj) - (lo - adj), d)
      BY <1>1, ConvertDifference
    <2>3. hi - lo = (hi - adj) - (lo - adj) /\ hi - lo \in Int /\ b - a \in Int /\ h - l \in Int
      BY <1>1, <1>3
    <2> DEFINE p == hi - lo
               q == b - a
               r == h - l
    <2>4. Same(q, p, d) /\ Same(r, p, d) /\ p \in Int /\ q \in Int /\ r \in Int
      BY <2>1, <2>2, <2>3
    <2> HIDE DEF p, q, r, d
    <2>5. Same(p, q, d)
      BY <1>1, <2>4, SameSymmetric
    <2>6. Same(r, q, d)
      BY <1>1, <2>4, <2>5, SameTrans
    <2> QED
      BY <2>6 DEF q, r
  <1> HIDE DEF y, l, h, a, b
  <1>6. InWrapped(x, l, h) <=> InWrapped(y, a, b)
    BY <1>2, <1>4, <1>5, WrappedSame DEF d
  <1> QED
    BY <1>6 DEF y, l, h, a, b

\* The two values next to n, which may be one and the same, bound the values other than n.
LEMMA OthersRange ==
    ASSUME NEW A, Type(A), NEW n \in Of(A), NEW y \in Of(A)
    PROVE  InWrapped(y, Convert(n + 1, A), Convert(n - 1, A)) <=> y # n
  <1> DEFINE d == Size(A)
  <1>1. /\ d \in Nat \ {0} /\ d >= 2 /\ MinOf(A) \in Int /\ MaxOf(A) = MinOf(A) + d - 1
        /\ n \in Int /\ y \in Int
        /\ MinOf(A) <= n /\ n <= MaxOf(A) /\ MinOf(A) <= y /\ y <= MaxOf(A)
    BY TypeSize
  <1>2. /\ n < MaxOf(A) => Convert(n + 1, A) = n + 1
        /\ MinOf(A) < n => Convert(n - 1, A) = n - 1
    <2>1. ASSUME n < MaxOf(A) PROVE n + 1 \in Of(A)
      BY <1>1, <2>1, TypeSize
    <2>2. ASSUME MinOf(A) < n PROVE n - 1 \in Of(A)
      BY <1>1, <2>2, TypeSize
    <2> QED
      BY <2>1, <2>2, ConvertIdentity
  <1>3. n = MaxOf(A) => Convert(n + 1, A) = MinOf(A)
    <2> SUFFICES ASSUME n = MaxOf(A) PROVE Convert(n + 1, A) = MinOf(A)
      OBVIOUS
    <2>1. n + 1 \in Int /\ MinOf(A) = (n + 1) - d /\ MinOf(A) \in Of(A)
      BY <1>1, TypeSize
    <2>2. Same((n + 1) - d, n + 1, d)
      BY <1>1, <2>1, SameEasy
    <2> QED
      BY <2>1, <2>2, ConvertSame
  <1>4. n = MinOf(A) => Convert(n - 1, A) = MaxOf(A)
    <2> SUFFICES ASSUME n = MinOf(A) PROVE Convert(n - 1, A) = MaxOf(A)
      OBVIOUS
    <2>1. n - 1 \in Int /\ MaxOf(A) = (n - 1) + d /\ MaxOf(A) \in Of(A)
      BY <1>1, TypeSize
    <2>2. Same((n - 1) + d, n - 1, d)
      BY <1>1, <2>1, SameEasy
    <2> QED
      BY <2>1, <2>2, ConvertSame
  <1> HIDE DEF d
  <1> QED
    BY <1>1, <1>2, <1>3, <1>4 DEF InWrapped

-----------------------------------------------------------------------------
(* Whether a number is a value of a type, and pin.                         *)

\* The conversions from T to V that a path of safe conversions has: the values of T
\* are values of V, or V has the same bits.
Fits(T, V) ==
    \/ T = V
    \/ T.bits = V.bits /\ ~T.unsigned /\ V.unsigned
    \/ T.bits < V.bits /\ ~SignExtended(T, V)

\* The bounds of a type with b bits, from the powers of two.
LEMMA Bounded ==
    ASSUME NEW T, Type(T), NEW V, Type(V), T.bits < V.bits
    PROVE  2 * Size(T) <= Size(V) /\ Size(T) = 2 * 2 ^ (T.bits - 1) /\ 2 ^ (T.bits - 1) \in Nat \ {0}
           /\ Size(V) = 2 * 2 ^ (V.bits - 1) /\ 2 ^ (V.bits - 1) \in Nat \ {0}
  <1>1. T.bits \in Nat /\ V.bits - 1 \in Nat /\ T.bits <= V.bits - 1
    BY DEF Type
  <1>2. 2 ^ T.bits <= 2 ^ (V.bits - 1)
    BY <1>1, PowerOrder
  <1>3. /\ 2 ^ T.bits = 2 * 2 ^ (T.bits - 1) /\ 2 ^ (T.bits - 1) \in Nat \ {0}
        /\ 2 ^ V.bits = 2 * 2 ^ (V.bits - 1) /\ 2 ^ (V.bits - 1) \in Nat \ {0}
    BY DEF Type
  <1> QED
    BY <1>2, <1>3 DEF Size

\* The remainder of a number that is not far from 0.
LEMMA Remainder ==
    ASSUME NEW d \in Nat \ {0}, NEW n \in Int, -d <= n, n < d
    PROVE  n % d = IF n < 0 THEN n + d ELSE n
  <1>1. n \div d \in Int /\ n % d \in Int /\ n = d * (n \div d) + (n % d)
        /\ 0 <= n % d /\ n % d < d
    OBVIOUS
  <1> DEFINE q == n \div d
             r == n % d
             e == IF n < 0 THEN n + d ELSE n
  <1>2. e \in Int /\ 0 <= e /\ e < d
    OBVIOUS
  <1>3. Same(n, r, d)
    <2>1. n - r = q * d /\ q \in Int
      <3> HIDE DEF q, r
      <3>1. q \in Int /\ r \in Int /\ n = d * q + r
        BY <1>1 DEF q, r
      <3>2. d * q = q * d /\ q * d \in Int
        BY <3>1
      <3> QED
        BY <3>1, <3>2
    <2> QED
      BY <2>1 DEF Same
  <1>4. Same(e, n, d)
    BY SameEasy
  <1>5. r \in Int /\ 0 <= r /\ r < d
    BY <1>1
  <1> HIDE DEF e, r, q
  <1>6. Same(e, r, d)
    BY <1>2, <1>3, <1>4, <1>5, SameTrans
  <1>7. e - r < d /\ r - e < d
    BY <1>2, <1>5
  <1>8. e = r
    BY <1>2, <1>5, <1>6, <1>7, SameNear
  <1> QED
    BY <1>8 DEF e, r

\* APSIntType::testInRange, of a smaller type: it finds out the values of that type, and
\* on which side of them a number is.
LEMMA TestSmaller ==
    ASSUME NEW T, Type(T), NEW V, Type(V), T.bits < V.bits, ~SignExtended(T, V),
           NEW n \in Of(V)
    PROVE  /\ TestInRange(n, V, T) = "within" <=> n \in Of(T)
           /\ TestInRange(n, V, T) = "below" <=> n < MinOf(T)
           /\ TestInRange(n, V, T) = "above" <=> MaxOf(T) < n
  <1> DEFINE d == Size(T)
             e == Size(V)
             t == 2 ^ (T.bits - 1)
             v == 2 ^ (V.bits - 1)
  <1>1. 2 * d <= e /\ d = 2 * t /\ t \in Nat \ {0} /\ e = 2 * v /\ v \in Nat \ {0}
    BY Bounded
  <1>2. /\ MinOf(T) = IF T.unsigned THEN 0 ELSE -t
        /\ MaxOf(T) = IF T.unsigned THEN d - 1 ELSE t - 1
        /\ MinOf(V) = IF V.unsigned THEN 0 ELSE -v
        /\ MaxOf(V) = IF V.unsigned THEN e - 1 ELSE v - 1
    BY DEF MinOf, MaxOf, Size
  <1>3. n \in Int /\ MinOf(V) <= n /\ n <= MaxOf(V)
    BY TypeSize
  <1>4. n \in Of(T) <=> MinOf(T) <= n /\ n <= MaxOf(T)
    BY <1>3, TypeSize
  <1>5. -e <= n /\ n < e /\ e \in Nat \ {0}
    BY <1>1, <1>2, <1>3
  <1>6. n % 2 ^ V.bits = IF n < 0 THEN n + e ELSE n
    <2> HIDE DEF e
    <2>1. n % e = IF n < 0 THEN n + e ELSE n
      BY <1>3, <1>5, Remainder
    <2> QED
      BY <2>1 DEF e, Size
  <1>7. 2 ^ T.bits = d
    BY DEF Size
  <1>8. T.unsigned \in BOOLEAN /\ V.unsigned \in BOOLEAN /\ (V.unsigned => T.unsigned)
    BY DEF Type, SignExtended
  <1>9. TestInRange(n, V, T) =
            IF IF T.unsigned THEN (IF n < 0 THEN n + e ELSE n) < d ELSE n \in Of(T)
            THEN "within" ELSE IF n < 0 THEN "below" ELSE "above"
    BY <1>6, <1>7, <1>8 DEF TestInRange
  <1> HIDE DEF d, e, t, v
  <1>10. (IF T.unsigned THEN (IF n < 0 THEN n + e ELSE n) < d ELSE n \in Of(T)) <=> n \in Of(T)
    BY <1>1, <1>2, <1>3, <1>4, <1>8
  <1>11. n \notin Of(T) => (n < 0 <=> n < MinOf(T)) /\ (~(n < 0) <=> MaxOf(T) < n)
    BY <1>1, <1>2, <1>3, <1>4, <1>8
  <1>12. MinOf(T) \in Int /\ MaxOf(T) \in Int
    BY TypeSize
  <1> QED
    BY <1>3, <1>4, <1>9, <1>10, <1>11, <1>12

\* Of a type with the same bits, where no two different types are signed: everything is
\* within.
LEMMA TestSameBits ==
    ASSUME NEW T, Type(T), NEW V, Type(V), T = V \/ (T.bits = V.bits /\ (T.unsigned \/ V.unsigned)),
           NEW n \in Of(V)
    PROVE  TestInRange(n, V, T) = "within"
  <1>1. T.bits = V.bits /\ 2 ^ V.bits \in Nat \ {0} /\ n \in Int
    BY TypeBounds, TypeSize
  <1>2. n % 2 ^ V.bits < 2 ^ T.bits
    <2> DEFINE d == 2 ^ V.bits
    <2>1. d \in Nat \ {0} /\ 2 ^ T.bits = d
      BY <1>1
    <2> HIDE DEF d
    <2>2. n % d < d
      BY <1>1, <2>1
    <2> QED
      BY <2>1, <2>2 DEF d
  <1> QED
    BY <1>2 DEF TestInRange

\* A value of a type that fits stays as it is if that is larger.
LEMMA ConvertLarger ==
    ASSUME NEW T, Type(T), NEW V, Type(V), T.bits < V.bits, ~SignExtended(T, V), NEW n \in Of(T)
    PROVE  n \in Of(V) /\ Convert(n, V) = n
  <1> DEFINE d == Size(T)
             e == Size(V)
             t == 2 ^ (T.bits - 1)
             v == 2 ^ (V.bits - 1)
  <1>1. 2 * d <= e /\ d = 2 * t /\ t \in Nat \ {0} /\ e = 2 * v /\ v \in Nat \ {0}
    BY Bounded
  <1>2. /\ MinOf(T) = IF T.unsigned THEN 0 ELSE -t
        /\ MaxOf(T) = IF T.unsigned THEN d - 1 ELSE t - 1
        /\ MinOf(V) = IF V.unsigned THEN 0 ELSE -v
        /\ MaxOf(V) = IF V.unsigned THEN e - 1 ELSE v - 1
    BY DEF MinOf, MaxOf, Size
  <1>3. T.unsigned \in BOOLEAN /\ V.unsigned \in BOOLEAN /\ (V.unsigned => T.unsigned)
    BY DEF Type, SignExtended
  <1>4. n \in Int /\ MinOf(T) <= n /\ n <= MaxOf(T)
    BY TypeSize
  <1> HIDE DEF d, e, t, v
  <1>5. MinOf(V) <= n /\ n <= MaxOf(V)
    BY <1>1, <1>2, <1>3, <1>4
  <1>6. n \in Of(V)
    BY <1>4, <1>5, TypeSize
  <1> QED
    BY <1>6, ConvertIdentity

-----------------------------------------------------------------------------
(* What Intersect means.                                                   *)

\* pin, of a type with more values: the ranges that pin throws away have no value of the
\* symbol's type, and the others have the same ones after pin, except for a range of one
\* value that is outside, which becomes the whole type.
LEMMA PinSmaller ==
    ASSUME NEW S, Type(S), NEW A, Type(A), S.bits < A.bits, ~SignExtended(S, A),
           NEW lo \in Of(A), NEW hi \in Of(A), NEW x \in Of(S)
    PROVE  /\ Outside(lo, hi, A, S) => ~InWrapped(x, lo, hi)
           /\ ~Outside(lo, hi, A, S) =>
                  \/ InWrapped(x, lo, hi) <=> InWrapped(x, PinLower(lo, A, S), PinUpper(hi, A, S))
                  \/ lo = hi /\ lo \notin Of(S) /\ PinLower(lo, A, S) = MinOf(S)
                             /\ PinUpper(hi, A, S) = MaxOf(S)
  <1> DEFINE min == MinOf(S)
             max == MaxOf(S)
             l == TestInRange(lo, A, S)
             h == TestInRange(hi, A, S)
             pl == PinLower(lo, A, S)
             ph == PinUpper(hi, A, S)
  <1>1. /\ min \in Int /\ max \in Int /\ min <= max /\ x \in Int /\ min <= x /\ x <= max
        /\ lo \in Int /\ hi \in Int
    BY TypeSize
  <1>2. /\ l = "within" <=> min <= lo /\ lo <= max
        /\ l = "below" <=> lo < min
        /\ l = "above" <=> max < lo
    BY <1>1, TestSmaller, TypeSize
  <1>3. /\ h = "within" <=> min <= hi /\ hi <= max
        /\ h = "below" <=> hi < min
        /\ h = "above" <=> max < hi
    BY <1>1, TestSmaller, TypeSize
  <1>4. pl = IF l = "within" THEN lo ELSE min
    <2>1. CASE l = "within"
      <3>1. lo \in Of(S)
        BY <2>1, TestSmaller
      <3> QED
        BY <2>1, <3>1, ConvertIdentity DEF PinLower
    <2> QED
      BY <2>1 DEF PinLower
  <1>5. ph = IF h = "within" THEN hi ELSE max
    <2>1. CASE h = "within"
      <3>1. hi \in Of(S)
        BY <2>1, TestSmaller
      <3> QED
        BY <2>1, <3>1, ConvertIdentity DEF PinUpper
    <2> QED
      BY <2>1 DEF PinUpper
  <1>6. Outside(lo, hi, A, S) <=>
            /\ l # "within" /\ h # "within"
            /\ (l = "above" /\ h = "below") \/ (l = h /\ lo < hi)
    BY DEF Outside
  <1>7. l = "within" => lo \in Of(S)
    BY TestSmaller
  <1>8. lo \in Of(S) <=> min <= lo /\ lo <= max
    BY <1>1, TypeSize
  <1> DEFINE out == Outside(lo, hi, A, S)
  <1> HIDE DEF min, max, l, h, pl, ph, out
  <1>9. ASSUME l # "within", h # "within", l = "above" /\ h = "below"
        PROVE  ~InWrapped(x, lo, hi)
    BY <1>1, <1>2, <1>3, <1>9 DEF InWrapped
  <1>10. ASSUME l # "within", h # "within", l = h, lo < hi
        PROVE  ~InWrapped(x, lo, hi)
    BY <1>1, <1>2, <1>3, <1>10 DEF InWrapped
  <1>11. CASE l = "within" /\ h = "within"
    <2>1. pl = lo /\ ph = hi
      BY <1>4, <1>5, <1>11
    <2>2. ~out
      BY <1>6, <1>11 DEF out
    <2> QED
      BY <2>1, <2>2 DEF out, pl, ph, min, max
  <1>12. CASE l = "within" /\ h # "within"
    <2>1. pl = lo /\ ph = max
      BY <1>4, <1>5, <1>12
    <2>2. InWrapped(x, lo, hi) <=> InWrapped(x, lo, max)
      BY <1>1, <1>2, <1>3, <1>12 DEF InWrapped
    <2>3. ~out
      BY <1>6, <1>12 DEF out
    <2> QED
      BY <2>1, <2>2, <2>3 DEF out, pl, ph, min, max
  <1>13. CASE l # "within" /\ h = "within"
    <2>1. pl = min /\ ph = hi
      BY <1>4, <1>5, <1>13
    <2>2. InWrapped(x, lo, hi) <=> InWrapped(x, min, hi)
      BY <1>1, <1>2, <1>3, <1>13 DEF InWrapped
    <2>3. ~out
      BY <1>6, <1>13 DEF out
    <2> QED
      BY <2>1, <2>2, <2>3 DEF out, pl, ph, min, max
  <1>14. CASE l # "within" /\ h # "within" /\ ~((l = "above" /\ h = "below") \/ (l = h /\ lo < hi))
    <2>1. pl = min /\ ph = max /\ ~out
      BY <1>4, <1>5, <1>6, <1>14 DEF out
    <2>2. lo = hi \/ (InWrapped(x, lo, hi) <=> InWrapped(x, min, max))
      BY <1>1, <1>2, <1>3, <1>14 DEF InWrapped
    <2>3. lo \notin Of(S)
      BY <1>2, <1>8, <1>14
    <2> QED
      BY <2>1, <2>2, <2>3 DEF out, pl, ph, min, max
  <1>15. CASE out
    <2>1. ~InWrapped(x, lo, hi)
      BY <1>6, <1>9, <1>10, <1>15 DEF out
    <2> QED
      BY <1>15, <2>1 DEF out
  <1>16. CASE ~out
    BY <1>6, <1>11, <1>12, <1>13, <1>14, <1>16 DEF out
  <1> QED
    BY <1>15, <1>16

\* pin, of a type with the same bits: the bounds are converted, and the range has the same
\* values.
LEMMA PinSameBits ==
    ASSUME NEW S, Type(S), NEW A, Type(A), S = A \/ (S.bits = A.bits /\ ~S.unsigned /\ A.unsigned),
           NEW lo \in Of(A), NEW hi \in Of(A), NEW x \in Of(S)
    PROVE  /\ ~Outside(lo, hi, A, S)
           /\ InWrapped(Convert(x, A), lo, hi)
                  <=> InWrapped(x, PinLower(lo, A, S), PinUpper(hi, A, S))
  <1>1. TestInRange(lo, A, S) = "within" /\ TestInRange(hi, A, S) = "within"
    BY TestSameBits
  <1>2. ~Outside(lo, hi, A, S)
    BY <1>1 DEF Outside
  <1> DEFINE y == Convert(x, A)
             l == Convert(lo, S)
             h == Convert(hi, S)
             d == Size(S)
  <1>3. PinLower(lo, A, S) = l /\ PinUpper(hi, A, S) = h
    BY <1>1 DEF PinLower, PinUpper
  <1>4. d \in Nat \ {0} /\ d = Size(A) /\ x \in Int /\ lo \in Int /\ hi \in Int
    BY TypeSize DEF Size
  <1>5. y \in Of(A) /\ l \in Of(S) /\ h \in Of(S) /\ y \in Int /\ l \in Int /\ h \in Int
    BY <1>4, ConvertSame
  <1>6. Same(y, x, d) /\ Same(lo, l, d) /\ Same(hi, h, d)
    BY <1>4, ConvertSame
  <1> HIDE DEF y, l, h, d
  <1>7. Same(x, y, d)
    BY <1>4, <1>5, <1>6, SameSymmetric
  <1>8. Same(l, lo, d) /\ Same(h, hi, d)
    BY <1>4, <1>5, <1>6, SameSymmetric
  <1>9. Same(x - l, y - lo, d)
    BY <1>4, <1>5, <1>7, <1>8, SameDifference
  <1>10. Same(h - l, hi - lo, d)
    BY <1>4, <1>5, <1>8, SameDifference
  <1>11. InWrapped(x, l, h) <=> InWrapped(y, lo, hi)
    BY <1>4, <1>5, <1>9, <1>10, WrappedSame DEF d
  <1> QED
    BY <1>2, <1>3, <1>11 DEF y, l, h

\* RangeSet::Intersect: it keeps only values that were there, it keeps those that are in
\* the range, and if any value of the symbol's type is in the range then only those.
LEMMA IntersectMeaning ==
    ASSUME NEW S, Type(S), NEW A, Type(A), Fits(S, A), NEW R, WellFormed(R, S),
           NEW lo \in Of(A), NEW hi \in Of(A), NEW x \in Of(S)
    PROVE  /\ Has(Intersect(R, lo, hi, A, S), x) => Has(R, x)
           /\ Has(R, x) /\ InWrapped(Convert(x, A), lo, hi) => Has(Intersect(R, lo, hi, A, S), x)
           /\ \A z \in Of(S) : InWrapped(Convert(z, A), lo, hi) =>
                  (Has(Intersect(R, lo, hi, A, S), x) => InWrapped(Convert(x, A), lo, hi))
  <1> DEFINE pl == PinLower(lo, A, S)
             ph == PinUpper(hi, A, S)
             I == Intersect(R, lo, hi, A, S)
             out == Outside(lo, hi, A, S)
             In(z) == InWrapped(Convert(z, A), lo, hi)
  <1>1. lo \in Int /\ hi \in Int /\ MinOf(S) \in Of(S) /\ MaxOf(S) \in Of(S)
    BY TypeSize
  <1>2. pl \in Of(S) /\ ph \in Of(S)
    BY <1>1, ConvertType DEF PinLower, PinUpper
  <1>3. I = IF out THEN {} ELSE Cut(R, pl, ph, S)
    BY DEF Intersect
  <1>4. Has(Cut(R, pl, ph, S), x) <=> Has(R, x) /\ InWrapped(x, pl, ph)
    <2> HIDE DEF pl, ph
    <2> QED
      BY <1>2, CutValues
  <1>5. ~Has({}, x)
    BY DEF Has
  <1>6. /\ out => \A z \in Of(S) : ~In(z)
        /\ ~out => \/ In(x) <=> InWrapped(x, pl, ph)
                   \/ (\A z \in Of(S) : ~In(z)) /\ InWrapped(x, pl, ph)
    <2>1. CASE S = A \/ (S.bits = A.bits /\ ~S.unsigned /\ A.unsigned)
      BY <2>1, PinSameBits
    <2>2. CASE S.bits < A.bits /\ ~SignExtended(S, A)
      <3>1. ASSUME NEW z \in Of(S)
            PROVE  Convert(z, A) = z
        BY <2>2, ConvertLarger
      <3>2. ASSUME out, NEW z \in Of(S)
            PROVE  ~In(z)
        BY <2>2, <3>1, <3>2, PinSmaller
      <3>3. ASSUME ~out
            PROVE  \/ In(x) <=> InWrapped(x, pl, ph)
                   \/ (\A z \in Of(S) : ~In(z)) /\ InWrapped(x, pl, ph)
        <4>1. CASE InWrapped(x, lo, hi) <=> InWrapped(x, pl, ph)
          BY <3>1, <4>1
        <4>2. CASE lo = hi /\ lo \notin Of(S) /\ pl = MinOf(S) /\ ph = MaxOf(S)
          <5>1. ASSUME NEW z \in Of(S)
                PROVE  ~In(z)
            <6>1. z \in Int /\ z # lo
              BY <4>2, TypeSize
            <6> QED
              BY <1>1, <3>1, <4>2, <6>1 DEF InWrapped
          <5>2. InWrapped(x, MinOf(S), MaxOf(S))
            <6>1. x \in Int /\ MinOf(S) \in Int /\ MaxOf(S) \in Int
                  /\ MinOf(S) <= x /\ x <= MaxOf(S)
              BY <1>1, TypeSize
            <6> QED
              BY <6>1 DEF InWrapped
          <5> QED
            BY <4>2, <5>1, <5>2
        <4> QED
          BY <2>2, <3>3, <4>1, <4>2, PinSmaller
      <3> QED
        BY <3>2, <3>3
    <2> QED
      BY <2>1, <2>2 DEF Fits
  <1> HIDE DEF pl, ph, I, out, In
  <1>7. /\ Has(I, x) => Has(R, x)
        /\ Has(R, x) /\ In(x) => Has(I, x)
        /\ \A z \in Of(S) : In(z) => (Has(I, x) => In(x))
    BY <1>3, <1>4, <1>5, <1>6
  <1> QED
    BY <1>7 DEF I, In

-----------------------------------------------------------------------------
(* What assume means.                                                      *)

\* The bounds of the range of x + adj op n are values of the type, and the range has the
\* values that meet the condition, in arithmetic that wraps around.
LEMMA BoundsMeaning ==
    ASSUME NEW A, Type(A), NEW n \in Of(A), NEW adj \in Int, NEW op \in Ops,
           op = "LT" => n # MinOf(A), op = "GT" => n # MaxOf(A), NEW x \in Of(A)
    PROVE  LET b == Bounds(op, n, adj, A)
           IN  /\ b[1] \in Of(A) /\ b[2] \in Of(A)
               /\ InWrapped(x, b[1], b[2]) <=> Compare(Convert(x + adj, A), op, n)
  <1> DEFINE min == MinOf(A)
             max == MaxOf(A)
             at(m) == Convert(m - adj, A)
             y == Convert(x + adj, A)
             b == Bounds(op, n, adj, A)
  <1>1. /\ n \in Int /\ min \in Int /\ max \in Int /\ min <= n /\ n <= max /\ min \in Of(A)
        /\ max \in Of(A) /\ x + adj \in Int
    BY TypeSize
  <1>2. y \in Of(A) /\ y \in Int /\ min <= y /\ y <= max
    BY <1>1, ConvertSame, TypeSize
  <1>3. ASSUME NEW l \in Int, NEW h \in Int
        PROVE  /\ at(l) \in Of(A) /\ at(h) \in Of(A)
               /\ InWrapped(x, at(l), at(h)) <=> InWrapped(y, Convert(l, A), Convert(h, A))
    <2>1. l - adj \in Int /\ h - adj \in Int
      OBVIOUS
    <2>2. at(l) \in Of(A) /\ at(h) \in Of(A)
      BY <2>1, ConvertSame
    <2> QED
      BY <2>2, WrappedShift
  <1>4. Convert(n, A) = n /\ Convert(min, A) = min /\ Convert(max, A) = max
    BY <1>1, ConvertIdentity
  <1>5. InWrapped(y, Convert(n + 1, A), Convert(n - 1, A)) <=> y # n
    BY <1>2, OthersRange
  <1>6. n # min => Convert(n - 1, A) = n - 1
    <2>1. ASSUME n # min
          PROVE  n - 1 \in Of(A)
      BY <1>1, <2>1, TypeSize
    <2> QED
      BY <2>1, ConvertIdentity
  <1>7. n # max => Convert(n + 1, A) = n + 1
    <2>1. ASSUME n # max
          PROVE  n + 1 \in Of(A)
      BY <1>1, <2>1, TypeSize
    <2> QED
      BY <2>1, ConvertIdentity
  <1>8. n + 1 \in Int /\ n - 1 \in Int
    BY <1>1
  <1> HIDE DEF min, max, at, y
  <1>9. CASE op = "EQ"
    <2>1. b = <<at(n), at(n)>>
      BY <1>9 DEF Bounds, at
    <2>2. InWrapped(y, n, n) <=> y = n
      BY <1>1, <1>2 DEF InWrapped
    <2>3. Compare(y, op, n) <=> y = n
      BY <1>9 DEF Compare
    <2> QED
      BY <1>1, <1>3, <1>4, <2>1, <2>2, <2>3 DEF y
  <1>10. CASE op = "NE"
    <2>1. b = <<at(n + 1), at(n - 1)>>
      BY <1>10 DEF Bounds, at
    <2>2. Compare(y, op, n) <=> y # n
      BY <1>10 DEF Compare
    <2> QED
      BY <1>3, <1>5, <1>8, <2>1, <2>2 DEF y
  <1>11. CASE op = "LT"
    <2>1. b = <<at(min), at(n - 1)>>
      BY <1>11 DEF Bounds, at, min
    <2>2. InWrapped(y, min, n - 1) <=> y < n
      BY <1>1, <1>2, <1>11 DEF InWrapped, min
    <2>3. Compare(y, op, n) <=> y < n
      BY <1>11 DEF Compare
    <2>4. Convert(n - 1, A) = n - 1
      BY <1>6, <1>11 DEF min
    <2> QED
      BY <1>1, <1>3, <1>4, <1>8, <2>1, <2>2, <2>3, <2>4 DEF y
  <1>12. CASE op = "LE"
    <2>1. b = <<at(min), at(n)>>
      BY <1>12 DEF Bounds, at, min
    <2>2. InWrapped(y, min, n) <=> y <= n
      BY <1>1, <1>2 DEF InWrapped
    <2>3. Compare(y, op, n) <=> y <= n
      BY <1>12 DEF Compare
    <2> QED
      BY <1>1, <1>3, <1>4, <2>1, <2>2, <2>3 DEF y
  <1>13. CASE op = "GT"
    <2>1. b = <<at(n + 1), at(max)>>
      BY <1>13 DEF Bounds, at, max
    <2>2. InWrapped(y, n + 1, max) <=> y > n
      BY <1>1, <1>2, <1>13 DEF InWrapped, max
    <2>3. Compare(y, op, n) <=> y > n
      BY <1>13 DEF Compare
    <2>4. Convert(n + 1, A) = n + 1
      BY <1>7, <1>13 DEF max
    <2> QED
      BY <1>1, <1>3, <1>4, <1>8, <2>1, <2>2, <2>3, <2>4 DEF y
  <1>14. CASE op = "GE"
    <2>1. b = <<at(n), at(max)>>
      BY <1>14 DEF Bounds, at, max
    <2>2. InWrapped(y, n, max) <=> y >= n
      BY <1>1, <1>2 DEF InWrapped
    <2>3. Compare(y, op, n) <=> y >= n
      BY <1>14 DEF Compare
    <2> QED
      BY <1>1, <1>3, <1>4, <2>1, <2>2, <2>3 DEF y
  <1> QED
    BY <1>9, <1>10, <1>11, <1>12, <1>13, <1>14 DEF Ops, y

\* The type in which a path of safe conversions compares: that of the sum, or the same
\* bits without a sign, or a larger one.
Compared(A, C) == A = C \/ (A.bits < C.bits /\ ~SignExtended(A, C))

\* A condition that no value meets, and one that all do, as the tests see it.
LEMMA NeverAlways ==
    ASSUME NEW A, Type(A), NEW C, Type(C), Compared(A, C), NEW int \in Of(C), NEW op \in Ops
    PROVE  /\ NeverTrue(op, int, C, A) => \A y \in Of(A) : ~Compare(y, op, int)
           /\ AlwaysTrue(op, int, C, A) => \A y \in Of(A) : Compare(y, op, int)
           /\ ~NeverTrue(op, int, C, A) /\ ~AlwaysTrue(op, int, C, A) =>
                  /\ int \in Of(A) /\ Convert(int, A) = int
                  /\ op = "LT" => int # MinOf(A)
                  /\ op = "GT" => int # MaxOf(A)
  <1> DEFINE test == TestInRange(int, C, A)
  <1>1. int \in Int /\ MinOf(A) \in Int /\ MaxOf(A) \in Int /\ MinOf(A) <= MaxOf(A)
    BY TypeSize, TypeBounds
  <1>2. /\ test = "within" <=> MinOf(A) <= int /\ int <= MaxOf(A)
        /\ test = "below" <=> int < MinOf(A)
        /\ test = "above" <=> MaxOf(A) < int
    <2>1. CASE A = C
      <3>1. test = "within"
        BY <2>1, TestSameBits
      <3>2. MinOf(A) <= int /\ int <= MaxOf(A)
        BY <2>1, TypeSize
      <3> HIDE DEF test
      <3> QED
        BY <1>1, <3>1, <3>2
    <2>2. CASE A.bits < C.bits /\ ~SignExtended(A, C)
      BY <1>1, <2>2, TestSmaller, TypeSize
    <2> QED
      BY <2>1, <2>2 DEF Compared
  <1>3. test = "within" => int \in Of(A) /\ Convert(int, A) = int
    <2>1. ASSUME test = "within"
          PROVE  int \in Of(A)
      BY <1>1, <1>2, <2>1, TypeSize
    <2> QED
      BY <2>1, ConvertIdentity
  <1>4. ASSUME NEW y \in Of(A)
        PROVE  y \in Int /\ MinOf(A) <= y /\ y <= MaxOf(A)
    BY TypeSize
  <1>5. /\ NeverTrue(op, int, C, A) <=>
              \/ op = "EQ" /\ test # "within"
              \/ op \in {"LT", "LE"} /\ test = "below"
              \/ op \in {"GT", "GE"} /\ test = "above"
              \/ op = "LT" /\ test = "within" /\ Convert(int, A) = MinOf(A)
              \/ op = "GT" /\ test = "within" /\ Convert(int, A) = MaxOf(A)
        /\ AlwaysTrue(op, int, C, A) <=>
              \/ op = "NE" /\ test # "within"
              \/ op \in {"LT", "LE"} /\ test = "above"
              \/ op \in {"GT", "GE"} /\ test = "below"
              \/ op = "GE" /\ test = "within" /\ Convert(int, A) = MinOf(A)
              \/ op = "LE" /\ test = "within" /\ Convert(int, A) = MaxOf(A)
    BY DEF NeverTrue, AlwaysTrue
  <1> DEFINE never == NeverTrue(op, int, C, A)
             always == AlwaysTrue(op, int, C, A)
  <1> HIDE DEF test, never, always
  <1>6. ASSUME never, NEW y \in Of(A)
        PROVE  ~Compare(y, op, int)
    <2>1. y \in Int /\ MinOf(A) <= y /\ y <= MaxOf(A)
      BY <1>4
    <2>2. /\ op = "EQ" => (Compare(y, op, int) <=> y = int)
          /\ op = "NE" => (Compare(y, op, int) <=> y # int)
          /\ op = "LT" => (Compare(y, op, int) <=> y < int)
          /\ op = "LE" => (Compare(y, op, int) <=> y <= int)
          /\ op = "GT" => (Compare(y, op, int) <=> y > int)
          /\ op = "GE" => (Compare(y, op, int) <=> y >= int)
      BY DEF Compare
    <2> DEFINE holds == Compare(y, op, int)
    <2> HIDE DEF holds
    <2> QED
      BY <1>1, <1>2, <1>3, <1>5, <1>6, <2>1, <2>2 DEF never, holds, Ops
  <1>7. ASSUME always, NEW y \in Of(A)
        PROVE  Compare(y, op, int)
    <2>1. y \in Int /\ MinOf(A) <= y /\ y <= MaxOf(A)
      BY <1>4
    <2>2. /\ op = "EQ" => (Compare(y, op, int) <=> y = int)
          /\ op = "NE" => (Compare(y, op, int) <=> y # int)
          /\ op = "LT" => (Compare(y, op, int) <=> y < int)
          /\ op = "LE" => (Compare(y, op, int) <=> y <= int)
          /\ op = "GT" => (Compare(y, op, int) <=> y > int)
          /\ op = "GE" => (Compare(y, op, int) <=> y >= int)
      BY DEF Compare
    <2> DEFINE holds == Compare(y, op, int)
    <2> HIDE DEF holds
    <2> QED
      BY <1>1, <1>2, <1>3, <1>5, <1>7, <2>1, <2>2 DEF always, holds, Ops
  <1>8. ASSUME ~never, ~always
        PROVE  test = "within"
    BY <1>1, <1>2, <1>5, <1>8 DEF never, always, Ops
  <1>9. ASSUME ~never, ~always
        PROVE  (op = "LT" => int # MinOf(A)) /\ (op = "GT" => int # MaxOf(A))
    BY <1>3, <1>5, <1>8, <1>9 DEF never
  <1> QED
    BY <1>3, <1>6, <1>7, <1>8, <1>9 DEF never, always

\* The values that a branch leaves, if assume makes Q of the ranges.
After(Q, x) == IF Q = ranges THEN Has(GetRange, x) ELSE Has(Q, x)

\* A set of ranges is not mistaken for none.
LEMMA NotAbsent ==
    ASSUME NEW T, Type(T), NEW R, WellFormed(R, T)
    PROVE  R # Absent
  <1>1. Of(T) \X Of(T) \subseteq Int \X Int
    BY TypeSize
  <1> QED
    BY <1>1, AbsentAssumption DEF WellFormed

\* assumeSymEQ and the others: no value that meets the condition is lost, none is added,
\* and if any value of the type meets it then only those that meet it stay.
LEMMA AssumeSymMeaning ==
    ASSUME Inv, NEW A, Type(A), Fits(type, A), NEW C, Type(C), Compared(A, C),
           NEW int \in Of(C), NEW adj \in Int, NEW op \in Ops, NEW x \in Of(type)
    PROVE  LET Q == AssumeSym(op, int, C, adj, A)
               Meets(z) == Compare(Convert(Convert(z, A) + adj, A), op, int)
           IN  /\ Q = ranges \/ Q # Absent
               /\ After(Q, x) => Has(GetRange, x)
               /\ Has(GetRange, x) /\ Meets(x) => After(Q, x)
               /\ \A z \in Of(type) : Meets(z) => (After(Q, x) => Meets(x))
  <1> DEFINE Q == AssumeSym(op, int, C, adj, A)
             y(z) == Convert(Convert(z, A) + adj, A)
             Meets(z) == Compare(y(z), op, int)
             n == Convert(int, A)
             b == Bounds(op, n, adj, A)
             I == Intersect(GetRange, b[1], b[2], A, type)
             never == NeverTrue(op, int, C, A)
             always == AlwaysTrue(op, int, C, A)
  <1>1. Type(type)
    BY SymbolType
  <1>2. ASSUME NEW z \in Of(type)
        PROVE  Convert(z, A) \in Of(A) /\ y(z) \in Of(A)
    <2>1. z \in Int
      BY <1>1, TypeSize
    <2>2. Convert(z, A) \in Of(A) /\ Convert(z, A) \in Int
      BY <2>1, ConvertSame
    <2>3. Convert(z, A) + adj \in Int
      BY <2>2
    <2> QED
      BY <2>2, <2>3, ConvertSame
  <1>3. /\ never => \A z \in Of(type) : ~Meets(z)
        /\ always => \A z \in Of(type) : Meets(z)
        /\ ~never /\ ~always =>
               int \in Of(A) /\ n = int /\ (op = "LT" => int # MinOf(A)) /\ (op = "GT" => int # MaxOf(A))
    <2> HIDE DEF y
    <2> QED
      BY <1>2, NeverAlways
  <1>4. Q = IF never THEN {} ELSE IF always THEN ranges ELSE I
    <2>1. never => Q = {}
      <3>1. ~(never /\ always)
        BY <1>3
      <3> HIDE DEF Meets
      <3>2. never => ~always
        BY <3>1
      <3> QED
        BY <3>2 DEF AssumeSym
    <2>2. ~never /\ always => Q = ranges
      BY DEF AssumeSym
    <2>3. ~never /\ ~always => Q = I
      BY DEF AssumeSym
    <2> HIDE DEF never, always, Q, I
    <2> QED
      BY <2>1, <2>2, <2>3
  <1>5. CASE never
    <2>1. Q = {}
      BY <1>4, <1>5
    <2>2. Q # ranges
      <3>1. WellFormed({}, type)
        BY DEF WellFormed
      <3>2. {} # Absent
        BY <1>1, <3>1, NotAbsent
      <3> QED
        BY <2>1, <3>2 DEF Inv
    <2>3. Q # Absent
      <3>1. WellFormed({}, type)
        BY DEF WellFormed
      <3> QED
        BY <1>1, <2>1, <3>1, NotAbsent
    <2>4. ~After(Q, x)
      BY <2>1, <2>2 DEF After, Has
    <2> HIDE DEF Q, Meets
    <2>5. \A z \in Of(type) : ~Meets(z)
      BY <1>3, <1>5
    <2> QED
      BY <2>3, <2>4, <2>5 DEF Q, Meets
  <1>6. CASE always /\ ~never
    <2>1. Q = ranges
      BY <1>4, <1>6
    <2>2. After(Q, x) <=> Has(GetRange, x)
      BY <2>1 DEF After
    <2> HIDE DEF Q, Meets
    <2>3. \A z \in Of(type) : Meets(z)
      BY <1>3, <1>6
    <2> QED
      BY <2>1, <2>2, <2>3 DEF Q, Meets
  <1>7. CASE ~never /\ ~always
    <2>1. Q = I
      BY <1>4, <1>7
    <2>2. n \in Of(A) /\ n = int /\ (op = "LT" => n # MinOf(A)) /\ (op = "GT" => n # MaxOf(A))
      BY <1>3, <1>7
    <2>3. ASSUME NEW z \in Of(type)
          PROVE  /\ b[1] \in Of(A) /\ b[2] \in Of(A)
                 /\ InWrapped(Convert(z, A), b[1], b[2]) <=> Meets(z)
      <3> DEFINE a == Convert(z, A)
      <3>1. a \in Of(A)
        BY <1>2
      <3> HIDE DEF a, n
      <3>2. /\ b[1] \in Of(A) /\ b[2] \in Of(A)
            /\ InWrapped(a, b[1], b[2]) <=> Compare(Convert(a + adj, A), op, n)
        BY <2>2, <3>1, BoundsMeaning
      <3> QED
        BY <2>2, <3>2 DEF a
    <2>4. WellFormed(GetRange, type)
      BY GetRangeWellFormed
    <2>5. b[1] \in Of(A) /\ b[2] \in Of(A) /\ b[1] \in Int /\ b[2] \in Int
      BY <2>3, TypeSize
    <2>6. WellFormed(I, type)
      <3> HIDE DEF b
      <3> QED
        BY <1>1, <2>4, <2>5, IntersectWellFormed
    <2>7. Q # Absent
      BY <1>1, <2>1, <2>6, NotAbsent
    <2>8. /\ Has(I, x) => Has(GetRange, x)
          /\ Has(GetRange, x) /\ Meets(x) => Has(I, x)
          /\ \A z \in Of(type) : Meets(z) => (Has(I, x) => Meets(x))
      <3> DEFINE l == b[1]
                 h == b[2]
      <3>1. l \in Of(A) /\ h \in Of(A)
        BY <2>5
      <3>2. \A z \in Of(type) : InWrapped(Convert(z, A), l, h) <=> Meets(z)
        BY <2>3
      <3> HIDE DEF l, h, b, Meets
      <3>3. /\ Has(Intersect(GetRange, l, h, A, type), x) => Has(GetRange, x)
            /\ Has(GetRange, x) /\ InWrapped(Convert(x, A), l, h) => Has(Intersect(GetRange, l, h, A, type), x)
            /\ \A z \in Of(type) : InWrapped(Convert(z, A), l, h) =>
                  (Has(Intersect(GetRange, l, h, A, type), x) => InWrapped(Convert(x, A), l, h))
        BY <1>1, <2>4, <3>1, IntersectMeaning
      <3> QED
        BY <3>2, <3>3 DEF l, h
    <2>9. After(Q, x) <=> Has(I, x)
      <3>1. Q = ranges => GetRange = ranges
        BY <2>7 DEF GetRange
      <3> QED
        BY <2>1, <3>1 DEF After
    <2> HIDE DEF Q, I, Meets
    <2> QED
      BY <2>7, <2>8, <2>9 DEF Q, Meets
  <1> QED
    BY <1>5, <1>6, <1>7

\* The types of a condition: SymInt gives the constant the larger type, to which C also
\* converts it.
LEMMA SymIntType ==
    ASSUME NEW c, Type(c.w), Type(c.v), c.int \in Int
    PROVE  LET k == SymInt(c)
               C == IF Below(c.w, c.v) THEN c.v ELSE c.w
           IN  /\ (IF Below(c.w, k.v) THEN k.v ELSE c.w) = C
               /\ Convert(k.int, C) = Convert(c.int, C)
  <1> DEFINE k == SymInt(c)
             C == IF Below(c.w, c.v) THEN c.v ELSE c.w
  <1>1. c.w.bits \in Nat /\ c.v.bits \in Nat /\ c.w.unsigned \in BOOLEAN /\ c.v.unsigned \in BOOLEAN
    BY DEF Type
  <1>2. CASE c.v.bits < c.w.bits \/ (c.v.bits = c.w.bits /\ ~c.v.unsigned /\ c.w.unsigned)
    <2>1. k = [int |-> Convert(c.int, c.w), v |-> c.w]
      BY <1>2 DEF SymInt
    <2>2. ~Below(c.w, c.v) /\ ~Below(c.w, c.w)
      BY <1>1, <1>2 DEF Below
    <2>3. C = c.w /\ k.v = c.w /\ k.int = Convert(c.int, c.w)
      BY <2>1, <2>2
    <2>4. Convert(c.int, c.w) \in Of(c.w)
      BY ConvertSame
    <2>5. Convert(k.int, c.w) = k.int
      BY <2>3, <2>4, ConvertIdentity
    <2> QED
      BY <2>2, <2>3, <2>5
  <1>3. CASE ~(c.v.bits < c.w.bits \/ (c.v.bits = c.w.bits /\ ~c.v.unsigned /\ c.w.unsigned))
    <2>1. k = [int |-> c.int, v |-> c.v]
      BY <1>3 DEF SymInt
    <2> QED
      BY <2>1
  <1> QED
    BY <1>2, <1>3

\* What assumeSymRel makes of the types of a safe condition: the condition of C is one in
\* the arithmetic of the type A, in which assumeSym works, on a constant of type C.
LEMMA ConditionTypes ==
    ASSUME NEW S, Type(S), NEW c, Type(c.w), Type(c.v), c.int \in Int, c.adj \in Of(c.w),
           Safe(<<S, c.w, c.v>>)
    PROVE  LET C == IF Below(c.w, c.v) THEN c.v ELSE c.w
               A == IF C.bits = c.w.bits /\ C.unsigned THEN C ELSE c.w
           IN  /\ Type(C) /\ Type(A) /\ Fits(S, A) /\ Compared(A, C)
               /\ \A x \in Of(S) :
                      Convert(Convert(Convert(x, c.w) + c.adj, c.w), C)
                          = Convert(Convert(x, A) + Convert(c.adj, A), A)
  <1> DEFINE w == c.w
             v == c.v
             C == IF Below(w, v) THEN v ELSE w
             A == IF C.bits = w.bits /\ C.unsigned THEN C ELSE w
  <1>1. /\ w.bits \in Nat /\ v.bits \in Nat /\ w.unsigned \in BOOLEAN /\ v.unsigned \in BOOLEAN
        /\ S.bits \in Nat /\ S.unsigned \in BOOLEAN /\ Type(w) /\ Type(v)
    BY DEF Type
  <1>2. w = S \/ Below(S, w)
    BY DEF Safe
  <1>3. ~SignExtended(S, w) /\ ~SignExtended(S, v) /\ ~SignExtended(w, v)
    <2> DEFINE k == <<S, w, v>>
    <2>1. \A i, j \in 1 .. 3 : i < j => ~SignExtended(k[i], k[j])
      BY DEF Safe
    <2>2. ~SignExtended(k[1], k[2]) /\ ~SignExtended(k[1], k[3]) /\ ~SignExtended(k[2], k[3])
      <3> HIDE DEF k
      <3> QED
        BY <2>1
    <2> QED
      BY <2>2
  <1>4. c.adj \in Int /\ c.adj \in Of(w)
    BY TypeSize
  <1>5. ASSUME NEW x \in Int
        PROVE  /\ Convert(x, w) \in Int /\ Convert(x, w) + c.adj \in Int
               /\ Convert(Convert(x, w) + c.adj, w) \in Of(w)
               /\ Convert(Convert(x, w) + c.adj, w) \in Int
    <2>1. Convert(x, w) \in Int
      BY <1>1, ConvertSame
    <2>2. Convert(x, w) + c.adj \in Int
      BY <1>4, <2>1
    <2> QED
      BY <1>1, <2>1, <2>2, ConvertSame
  <1>6. \A x \in Of(S) : x \in Int
    BY TypeSize
  <1>7. CASE C = w
    <2>1. A = w
      BY <1>7
    <2>2. Fits(S, w)
      BY <1>1, <1>2, <1>3 DEF Fits, Below
    <2>3. Convert(c.adj, w) = c.adj
      BY <1>1, <1>4, ConvertIdentity
    <2>4. ASSUME NEW x \in Of(S)
          PROVE  Convert(Convert(Convert(x, w) + c.adj, w), w) = Convert(Convert(x, w) + c.adj, w)
      <3>1. Convert(Convert(x, w) + c.adj, w) \in Of(w)
        BY <1>5, <1>6
      <3> QED
        BY <1>1, <3>1, ConvertIdentity
    <2> HIDE DEF C, A
    <2> QED
      BY <1>1, <1>7, <2>1, <2>2, <2>3, <2>4 DEF Compared, C, A
  <1>8. CASE C = v /\ C # w /\ v.bits = w.bits
    <2>1. Below(w, v) /\ ~w.unsigned /\ v.unsigned /\ A = v
      BY <1>1, <1>8 DEF Below
    <2>2. Fits(S, v)
      BY <1>1, <1>2, <1>3, <1>8, <2>1 DEF Fits, Below
    <2>3. Size(w) = Size(v) /\ Size(v) \in Nat \ {0}
      BY <1>1, <1>8, TypeSize DEF Size
    <2>4. ASSUME NEW x \in Of(S)
          PROVE  Convert(Convert(Convert(x, w) + c.adj, w), v)
                     = Convert(Convert(x, v) + Convert(c.adj, v), v)
      <3> DEFINE d == Size(v)
                 a == Convert(x, w)
                 p == a + c.adj
                 q == Convert(p, w)
                 e == Convert(x, v)
                 f == Convert(c.adj, v)
                 r == e + f
      <3>1. x \in Int /\ a \in Int /\ p \in Int /\ q \in Int
        BY <1>5, <1>6
      <3>2. e \in Int /\ f \in Int /\ r \in Int
        <4>1. e \in Int
          BY <1>1, <3>1, ConvertSame
        <4>2. f \in Int
          BY <1>1, <1>4, ConvertSame
        <4> QED
          BY <4>1, <4>2
      <3>3. Same(a, x, d)
        BY <1>1, <2>3, <3>1, ConvertSame
      <3>4. Same(q, p, d)
        BY <1>1, <2>3, <3>1, ConvertSame
      <3>5. Same(x, e, d)
        BY <1>1, <2>3, <3>1, ConvertSame
      <3>6. Same(c.adj, f, d)
        BY <1>1, <1>4, <2>3, ConvertSame
      <3> HIDE DEF a, q, e, f, d
      <3>7. d \in Nat \ {0}
        BY <2>3 DEF d
      <3>8. Same(a, e, d)
        BY <3>1, <3>2, <3>3, <3>5, <3>7, SameTrans
      <3>9. Same(p, r, d)
        BY <1>4, <3>1, <3>2, <3>6, <3>7, <3>8, SameDifference
      <3> HIDE DEF p, r
      <3>10. Same(q, r, d)
        BY <3>1, <3>2, <3>4, <3>7, <3>9, SameTrans
      <3>11. Convert(q, v) = Convert(r, v)
        BY <1>1, <3>1, <3>2, <3>10, ConvertEqual DEF d
      <3> QED
        BY <3>11 DEF a, p, q, e, f, r
    <2> HIDE DEF C, A
    <2> QED
      BY <1>1, <1>8, <2>1, <2>2, <2>4 DEF Compared
  <1>9. CASE C = v /\ C # w /\ w.bits < v.bits
    <2>1. A = w
      BY <1>1, <1>9
    <2>2. Fits(S, w)
      BY <1>1, <1>2, <1>3 DEF Fits, Below
    <2>3. Convert(c.adj, w) = c.adj
      BY <1>1, <1>4, ConvertIdentity
    <2>4. ASSUME NEW x \in Of(S)
          PROVE  Convert(Convert(Convert(x, w) + c.adj, w), v) = Convert(Convert(x, w) + c.adj, w)
      <3> DEFINE y == Convert(Convert(x, w) + c.adj, w)
      <3>1. y \in Of(w)
        BY <1>5, <1>6
      <3> HIDE DEF y
      <3>2. Convert(y, v) = y
        BY <1>1, <1>3, <1>9, <3>1, ConvertLarger
      <3> QED
        BY <3>2 DEF y
    <2>5. Compared(w, v)
      BY <1>3, <1>9 DEF Compared
    <2> HIDE DEF C, A
    <2> QED
      BY <1>1, <1>9, <2>1, <2>2, <2>3, <2>4, <2>5 DEF C, A
  <1>10. \/ C = w
         \/ C = v /\ C # w /\ v.bits = w.bits
         \/ C = v /\ C # w /\ w.bits < v.bits
    BY <1>1 DEF Below
  <1> HIDE DEF C, A
  <1> QED
    BY <1>7, <1>8, <1>9, <1>10 DEF C, A

\* The other branch takes the opposite operator.
LEMMA NegateMeaning ==
    ASSUME NEW op \in Ops, NEW m \in Int, NEW n \in Int
    PROVE  Negate(op) \in Ops /\ (Compare(m, Negate(op), n) <=> ~Compare(m, op, n))
  <1>1. CASE op = "EQ"
    BY <1>1 DEF Negate, Compare, Ops
  <1>2. CASE op = "NE"
    BY <1>2 DEF Negate, Compare, Ops
  <1>3. CASE op = "LT"
    BY <1>3 DEF Negate, Compare, Ops
  <1>4. CASE op = "LE"
    BY <1>4 DEF Negate, Compare, Ops
  <1>5. CASE op = "GT"
    BY <1>5 DEF Negate, Compare, Ops
  <1>6. CASE op = "GE"
    BY <1>6 DEF Negate, Compare, Ops
  <1> QED
    BY <1>1, <1>2, <1>3, <1>4, <1>5, <1>6 DEF Ops

\* The condition is on types of a safe conversion.
LEMMA ConditionSafe ==
    ASSUME NEW s \in {k[1] : k \in Conversions}, NEW c \in Conditions(s),
           \A k \in Conversions : Safe(k)
    PROVE  c.adj \in Of(c.w) /\ Safe(<<s, c.w, c.v>>)
  <1>1. PICK k \in {j \in Conversions : j[1] = s} :
            c \in [op : Ops, w : {k[2]}, v : {k[3]},
                   adj : IF k[2] = s THEN Of(s) ELSE Of(k[2]) \ {0}, int : Of(k[3])]
    BY DEF Conditions
  <1>2. c.w = k[2] /\ c.v = k[3] /\ k[1] = s /\ c.adj \in Of(k[2])
    BY <1>1
  <1>3. Safe(k)
    BY <1>1
  <1> DEFINE j == <<s, c.w, c.v>>
  <1>4. j[1] = k[1] /\ j[2] = k[2] /\ j[3] = k[3]
    BY <1>2
  <1> HIDE DEF j
  <1>5. \A i \in 1 .. 3 : j[i] = k[i]
    BY <1>4
  <1>6. Safe(j)
    BY <1>3, <1>4, <1>5 DEF Safe
  <1> QED
    BY <1>2, <1>6 DEF j

\* A branch of assumeDual: it loses no value with which a run takes it, adds none, and has
\* no other values if a run can take it at all.
LEMMA AssumeMeaning ==
    ASSUME Inv, \A k \in Conversions : Safe(k), NEW c \in Conditions(type),
           NEW assumption \in BOOLEAN, NEW x \in Of(type)
    PROVE  LET Q == Assume(c, assumption)
               Meets(z) == Holds(z, c) <=> assumption
           IN  /\ Q = ranges \/ Q # Absent
               /\ After(Q, x) => Has(GetRange, x)
               /\ Has(GetRange, x) /\ Meets(x) => After(Q, x)
               /\ \A z \in Of(type) : Meets(z) => (After(Q, x) => Meets(x))
  <1> DEFINE op == IF assumption THEN c.op ELSE Negate(c.op)
             k == SymInt(c)
             C == IF Below(c.w, c.v) THEN c.v ELSE c.w
             A == IF C.bits = c.w.bits /\ C.unsigned THEN C ELSE c.w
             n == Convert(c.int, C)
             adj == Convert(c.adj, A)
             Q == Assume(c, assumption)
             y(z) == Convert(Convert(z, A) + adj, A)
             Meets(z) == Holds(z, c) <=> assumption
  <1>1. /\ Type(type) /\ c.op \in Ops /\ Type(c.w) /\ Type(c.v) /\ c.int \in Int
        /\ c.adj \in Int /\ c.adj \in Of(c.w) /\ Safe(<<type, c.w, c.v>>)
    BY SymbolType, ConditionParts, ConditionSafe DEF Inv
  <1>2. /\ Type(C) /\ Type(A) /\ Fits(type, A) /\ Compared(A, C)
        /\ \A z \in Of(type) : Convert(Convert(Convert(z, c.w) + c.adj, c.w), C) = y(z)
    BY <1>1, ConditionTypes
  <1>3. (IF Below(c.w, k.v) THEN k.v ELSE c.w) = C /\ Convert(k.int, C) = n
    BY <1>1, SymIntType
  <1>4. n \in Of(C) /\ n \in Int
    <2> HIDE DEF C
    <2> QED
      BY <1>1, <1>2, ConvertSame
  <1>5. adj \in Int
    <2> HIDE DEF A
    <2> QED
      BY <1>1, <1>2, ConvertSame
  <1>6. op \in Ops
    BY <1>1, <1>4, NegateMeaning
  <1>7. Q = AssumeSym(op, n, C, adj, A)
    <2>1. Q = LET D == IF Below(c.w, k.v) THEN k.v ELSE c.w
                  B == IF D.bits = c.w.bits /\ D.unsigned THEN D ELSE c.w
              IN  AssumeSym(op, Convert(k.int, D), D, Convert(c.adj, B), B)
      BY DEF Assume, AssumeSymRel
    <2> HIDE DEF k, op, Q
    <2> QED
      BY <1>3, <2>1
  <1>8. ASSUME NEW z \in Of(type)
        PROVE  Holds(z, c) <=> Compare(y(z), c.op, n)
    BY <1>2 DEF Holds
  <1>9. ASSUME NEW z \in Of(type)
        PROVE  y(z) \in Int
    <2> HIDE DEF A, adj
    <2>1. z \in Int
      BY <1>1, TypeSize
    <2>2. Convert(z, A) \in Int
      BY <1>2, <2>1, ConvertSame
    <2>3. Convert(z, A) + adj \in Int
      BY <1>5, <2>2
    <2> QED
      BY <1>2, <2>3, ConvertSame
  <1> HIDE DEF C, A, n, adj, k
  <1>10. ASSUME NEW z \in Of(type)
         PROVE  Compare(y(z), op, n) <=> Meets(z)
    <2>1. y(z) \in Int /\ (Holds(z, c) <=> Compare(y(z), c.op, n))
      BY <1>8, <1>9
    <2> HIDE DEF y
    <2>2. Compare(y(z), Negate(c.op), n) <=> ~Compare(y(z), c.op, n)
      BY <1>1, <1>4, <2>1, NegateMeaning
    <2>3. CASE assumption = TRUE
      BY <2>1, <2>3
    <2>4. CASE assumption = FALSE
      BY <2>1, <2>2, <2>4
    <2> QED
      BY <2>3, <2>4
  <1> HIDE DEF op, Q, Meets
  <1>11. /\ Q = ranges \/ Q # Absent
         /\ After(Q, x) => Has(GetRange, x)
         /\ Has(GetRange, x) /\ Compare(y(x), op, n) => After(Q, x)
         /\ \A z \in Of(type) : Compare(y(z), op, n) => (After(Q, x) => Compare(y(x), op, n))
    BY <1>2, <1>4, <1>5, <1>6, <1>7, AssumeSymMeaning
  <1> HIDE DEF y
  <1>12. /\ Q = ranges \/ Q # Absent
         /\ After(Q, x) => Has(GetRange, x)
         /\ Has(GetRange, x) /\ Meets(x) => After(Q, x)
         /\ \A z \in Of(type) : Meets(z) => (After(Q, x) => Meets(x))
    BY <1>10, <1>11
  <1> QED
    BY <1>12 DEF Q, Meets

\* A branch that assume finds infeasible has none of the values that are left.
LEMMA Infeasible ==
    ASSUME Inv, \A k \in Conversions : Safe(k), NEW c \in Conditions(type),
           NEW assumption \in BOOLEAN, Assume(c, assumption) = {},
           NEW x \in Of(type), Has(GetRange, x)
    PROVE  ~(Holds(x, c) <=> assumption)
  <1>1. WellFormed({}, type)
    BY DEF WellFormed
  <1>2. {} # Absent
    BY <1>1, SymbolType, NotAbsent
  <1>3. {} # ranges
    BY <1>2 DEF Inv
  <1>4. ~After({}, x)
    BY <1>3 DEF After, Has
  <1> QED
    BY <1>4, AssumeMeaning

\* A symbol that has no ranges may have any value, but a reference is not 0.
LEMMA NoRanges ==
    ASSUME NEW T, Type(T), type = T, ranges = Absent, reference => T.unsigned, NEW x \in Of(T)
    PROVE  Has(GetRange, x) <=> ~(reference /\ x = 0)
  <1> DEFINE min == MinOf(T)
             max == MaxOf(T)
             all == {<<min, max>>}
             I == Intersect(all, 1, max, T, T)
  <1>1. /\ min \in Int /\ max \in Int /\ min < max /\ min <= x /\ x <= max /\ x \in Int
        /\ min \in Of(T) /\ max \in Of(T)
    <2>1. min \in Int /\ Size(T) \in Int /\ Size(T) >= 2 /\ max = min + Size(T) - 1
          /\ min \in Of(T) /\ max \in Of(T) /\ min <= x /\ x <= max /\ x \in Int
      BY TypeSize
    <2> HIDE DEF min, max
    <2>2. max \in Int /\ min < max
      BY <2>1
    <2> QED
      BY <2>1, <2>2
  <1>2. Has(all, x) /\ WellFormed(all, T)
    <2> HIDE DEF min, max
    <2> QED
      BY <1>1 DEF Has, WellFormed
  <1>3. CASE ~reference
    BY <1>2, <1>3 DEF GetRange
  <1>4. CASE reference
    <2>1. min = 0 /\ 1 \in Of(T)
      <3>1. min = 0
        BY <1>4 DEF MinOf
      <3> HIDE DEF min, max
      <3>2. min <= 1 /\ 1 <= max
        BY <1>1, <3>1
      <3> QED
        BY <3>1, <3>2, TypeSize DEF min, max
    <2>2. GetRange = I
      BY <1>4 DEF GetRange
    <2>3. Convert(x, T) = x /\ Convert(1, T) = 1
      BY <2>1, ConvertIdentity
    <2> HIDE DEF min, max, all
    <2>4. (InWrapped(x, 1, max) <=> x # 0) /\ InWrapped(1, 1, max)
      BY <1>1, <2>1 DEF InWrapped
    <2>5. Fits(T, T)
      BY DEF Fits
    <2>6. /\ Has(all, x) /\ InWrapped(Convert(x, T), 1, max) => Has(I, x)
          /\ InWrapped(Convert(1, T), 1, max) => (Has(I, x) => InWrapped(Convert(x, T), 1, max))
      BY <1>1, <1>2, <2>1, <2>5, IntersectMeaning
    <2> HIDE DEF I
    <2> QED
      BY <1>2, <1>4, <2>2, <2>3, <2>4, <2>6
  <1> QED
    BY <1>3, <1>4

\* Some value of the symbol is left on every path.
LEMMA SomeValue ==
    ASSUME Inv, reference => type.unsigned
    PROVE  \E x \in Of(type) : Has(GetRange, x)
  <1> DEFINE min == MinOf(type)
             max == MaxOf(type)
  <1>1. /\ Type(type) /\ min \in Int /\ max \in Int /\ min < max /\ min \in Of(type)
        /\ max \in Of(type)
    <2>1. Type(type)
      BY SymbolType
    <2>2. min \in Int /\ Size(type) \in Int /\ Size(type) >= 2 /\ max = min + Size(type) - 1
          /\ min \in Of(type) /\ max \in Of(type)
      BY <2>1, TypeSize
    <2> HIDE DEF min, max
    <2>3. max \in Int /\ min < max
      BY <2>2
    <2> QED
      BY <2>1, <2>2, <2>3
  <1>2. CASE ranges # Absent
    <2>1. PICK r \in ranges : TRUE
      BY <1>2 DEF Inv
    <2>2. r[1] \in Of(type) /\ r[1] \in Int /\ r[2] \in Int /\ r[1] <= r[2]
      <3>1. r[1] \in Of(type) /\ r[2] \in Of(type) /\ r[1] <= r[2]
        BY <1>2 DEF Inv, WellFormed
      <3> QED
        BY <1>1, <3>1, TypeSize
    <2>3. Has(ranges, r[1])
      BY <2>2 DEF Has
    <2> QED
      BY <1>2, <2>2, <2>3 DEF GetRange
  <1>3. CASE ranges = Absent
    <2> HIDE DEF min, max
    <2>1. (Has(GetRange, max) <=> ~(reference /\ max = 0))
      BY <1>1, <1>3, NoRanges
    <2>2. reference => min = 0
      BY DEF MinOf, min
    <2> QED
      BY <1>1, <2>1, <2>2
  <1> QED
    BY <1>2, <1>3

-----------------------------------------------------------------------------
(* The theorems.                                                           *)

\* The inductive invariant: beside the form of the ranges, no value is lost, and none too
\* many is kept as long as the path can be taken.
Kept ==
    /\ reference => type.unsigned
    /\ values \subseteq Of(type)
    /\ \A x \in values : Has(GetRange, x)
    /\ values # {} => \A x \in Of(type) : Has(GetRange, x) => x \in values

\* A step that leaves the ranges that the branch `assumption' of the condition has.
LEMMA BranchKept ==
    ASSUME Inv, Kept, \A k \in Conversions : Safe(k), NEW c \in Conditions(type),
           NEW assumption \in BOOLEAN,
           \/ Assume(c, ~assumption) = {} /\ ranges' = ranges
           \/ ranges' = Assume(c, assumption),
           values' = {x \in values : Holds(x, c) <=> assumption},
           UNCHANGED <<type, reference>>
    PROVE  Kept'
  <1> DEFINE Q == Assume(c, assumption)
             Meets(z) == Holds(z, c) <=> assumption
             H(x) == Has(GetRange, x)
             N(x) == Has(GetRange', x)
             V == Of(type)
  <1>1. /\ \A x \in V : N(x) => H(x)
        /\ \A x \in V : H(x) /\ Meets(x) => N(x)
        /\ \A x, z \in V : H(z) /\ Meets(z) => (N(x) => Meets(x))
    <2>1. CASE Assume(c, ~assumption) = {} /\ ranges' = ranges
      <3>1. GetRange' = GetRange
        BY <2>1 DEF GetRange
      <3>2. ASSUME NEW x \in V, H(x)
            PROVE  Meets(x)
        <4>1. ~(Holds(x, c) <=> ~assumption)
          <5>1. (~assumption) \in BOOLEAN
            OBVIOUS
          <5> QED
            BY <2>1, <3>2, <5>1, Infeasible
        <4> QED
          BY <4>1
      <3> HIDE DEF H, Meets, V
      <3> QED
        BY <3>1, <3>2 DEF H, N
    <2>2. CASE ranges' = Assume(c, assumption)
      <3>1. ASSUME NEW x \in V
            PROVE  N(x) <=> After(Q, x)
        <4>1. Q = ranges \/ Q # Absent
          BY <3>1, AssumeMeaning
        <4>2. CASE Q = ranges
          <5>1. GetRange' = GetRange
            BY <2>2, <4>2 DEF GetRange
          <5> QED
            BY <4>2, <5>1 DEF After
        <4>3. CASE Q # ranges
          <5>1. GetRange' = Q
            BY <2>2, <4>1, <4>3 DEF GetRange
          <5> QED
            BY <4>3, <5>1 DEF After
        <4> QED
          BY <4>2, <4>3
      <3>2. ASSUME NEW x \in V
            PROVE  /\ After(Q, x) => H(x)
                   /\ H(x) /\ Meets(x) => After(Q, x)
                   /\ \A z \in V : Meets(z) => (After(Q, x) => Meets(x))
        BY <3>2, AssumeMeaning
      <3> HIDE DEF H, N, Meets, V, Q
      <3> QED
        BY <3>1, <3>2
    <2> QED
      BY <2>1, <2>2
  <1>2. V = Of(type')
    BY DEF Of
  <1>3. /\ values' = {x \in values : Meets(x)} /\ values \subseteq V
        /\ \A x \in values : H(x)
        /\ values # {} => \A x \in V : H(x) => x \in values
    BY DEF Kept
  <1> HIDE DEF H, N, Meets, V, Q
  <1>4. values' \subseteq V /\ \A x \in values' : N(x)
    BY <1>1, <1>3
  <1>5. ASSUME values' # {}, NEW x \in V, N(x)
        PROVE  x \in values'
    <2>1. PICK z \in values' : TRUE
      BY <1>5
    <2>2. z \in values /\ z \in V /\ H(z) /\ Meets(z)
      BY <1>3
    <2> QED
      BY <1>1, <1>3, <1>5, <2>2
  <1>6. (reference => type.unsigned)'
    BY DEF Kept
  <1>7. (Of(type))' = V
    BY <1>2 DEF V, Of, MinOf, MaxOf
  <1> QED
    BY <1>4, <1>5, <1>6, <1>7 DEF Kept, N

\* A path begins with the values that a symbol of its type may have.
LEMMA InitKept ==
    ASSUME Init
    PROVE  Inv /\ Kept
  <1>1. Inv
    BY DEF Init, Inv
  <1>2. Type(type) /\ ranges = Absent /\ (reference => type.unsigned)
    BY <1>1, SymbolType DEF Init
  <1>3. \A x \in Of(type) : Has(GetRange, x) <=> ~(reference /\ x = 0)
    BY <1>2, NoRanges
  <1>4. values = {x \in Of(type) : ~(reference /\ x = 0)}
    BY DEF Init
  <1> QED
    BY <1>1, <1>2, <1>3, <1>4 DEF Kept

\* Every step keeps it.
LEMMA NextKept ==
    ASSUME Inv, Kept, \A k \in Conversions : Safe(k), [Next]_vars
    PROVE  Kept'
  <1>1. ASSUME NEW c \in Conditions(type), AssumeTrue(c)
        PROVE  Kept'
    <2>1. \/ Assume(c, ~TRUE) = {} /\ ranges' = ranges
          \/ ranges' = Assume(c, TRUE)
      <3>1. ~TRUE = FALSE
        OBVIOUS
      <3> QED
        BY <1>1, <3>1 DEF AssumeTrue
    <2>2. values' = {x \in values : Holds(x, c) <=> TRUE}
      BY <1>1 DEF AssumeTrue
    <2>3. UNCHANGED <<type, reference>>
      BY <1>1 DEF AssumeTrue
    <2> QED
      BY <2>1, <2>2, <2>3, BranchKept
  <1>2. ASSUME NEW c \in Conditions(type), AssumeFalse(c)
        PROVE  Kept'
    <2>1. \/ Assume(c, ~FALSE) = {} /\ ranges' = ranges
          \/ ranges' = Assume(c, FALSE)
      <3>1. ~FALSE = TRUE
        OBVIOUS
      <3> QED
        BY <1>2, <3>1 DEF AssumeFalse
    <2>2. values' = {x \in values : Holds(x, c) <=> FALSE}
      BY <1>2 DEF AssumeFalse
    <2>3. UNCHANGED <<type, reference>>
      BY <1>2 DEF AssumeFalse
    <2> QED
      BY <2>1, <2>2, <2>3, BranchKept
  <1>3. CASE UNCHANGED vars
    <2>1. type' = type /\ reference' = reference /\ ranges' = ranges /\ values' = values
      BY <1>3 DEF vars
    <2>2. GetRange' = GetRange
      BY <2>1 DEF GetRange
    <2>3. (Of(type))' = Of(type)
      BY <2>1 DEF Of, MinOf, MaxOf
    <2> QED
      BY <2>1, <2>2, <2>3 DEF Kept
  <1> QED
    BY <1>1, <1>2, <1>3 DEF Next

\* The values in the ranges are those that GetRange has.
LEMMA PossibleValues == \A x : x \in Possible <=> x \in Of(type) /\ Has(GetRange, x)
BY DEF Possible, Has

\* The analyzer loses no value with which a run takes the path, and takes every branch that
\* a run can take, for types of any width, on a path of any conditions with safe
\* conversions: the arithmetic of the bounds wraps around where that of the program does.
THEOREM SpecSound ==
    ASSUME \A k \in Conversions : Safe(k)
    PROVE  Spec => []Sound
  <1>1. Init => Inv /\ Kept
    BY InitKept
  <1>2. Inv /\ Kept /\ [Next]_vars => Kept'
    BY NextKept
  <1>3. Inv /\ Kept => values \subseteq Possible
    BY PossibleValues DEF Kept
  <1>4. Inv /\ Kept => FeasibleBranchesTaken
    <2> SUFFICES ASSUME Inv, Kept, NEW c \in Conditions(type), NEW b \in BOOLEAN,
                        NEW x \in values, Holds(x, c) = b, Assume(c, b) = {}
                 PROVE  FALSE
      BY DEF FeasibleBranchesTaken
    <2>1. x \in Of(type) /\ Has(GetRange, x)
      BY DEF Kept
    <2>2. ~(Holds(x, c) <=> b)
      BY <2>1, Infeasible
    <2> QED
      BY <2>2
  <1>5. Inv /\ Kept => Sound
    BY <1>3, <1>4 DEF Sound
  <1> QED
    BY <1>1, <1>2, <1>5, SpecInv, PTL DEF Spec

\* In an ordered range set of which all values are n there is only the range of n.
LEMMA OneValue ==
    ASSUME NEW T, Type(T), NEW R, WellFormed(R, T), R # {}, NEW n \in Of(T),
           \A x \in Of(T) : Has(R, x) => x = n
    PROVE  R = {<<n, n>>}
  <1>1. ASSUME NEW r \in R
        PROVE  r = <<n, n>>
    <2>1. r \in Of(T) \X Of(T) /\ r[1] <= r[2]
      BY DEF WellFormed
    <2>2. r[1] \in Of(T) /\ r[2] \in Of(T) /\ r[1] \in Int /\ r[2] \in Int /\ r = <<r[1], r[2]>>
      BY <2>1, TypeSize
    <2>3. Has(R, r[1]) /\ Has(R, r[2])
      BY <2>1, <2>2 DEF Has
    <2> QED
      BY <2>2, <2>3
  <1> QED
    BY <1>1

\* RangeSet::getConcreteValue and checkNull are right about the values in the ranges.
LEMMA QueriesRight ==
    ASSUME Inv, Possible = values
    PROVE  QueriesAgree
  <1>1. Type(type) /\ \A x : x \in values <=> x \in Of(type) /\ Has(GetRange, x)
    BY SymbolType, PossibleValues
  <1>2. CASE ranges = Absent
    <2>1. GetSymVal = {} /\ CheckNull = "unknown"
      BY <1>2 DEF GetSymVal, CheckNull
    <2> QED
      BY <1>2, <2>1 DEF QueriesAgree
  <1>3. CASE ranges # Absent
    <2> DEFINE I == Intersect(ranges, 0, 0, type, type)
    <2>1. /\ GetRange = ranges /\ ranges # {} /\ WellFormed(ranges, type)
          /\ 0 \in Of(type) /\ 0 \in Int
      <3>1. 0 \in Of(type)
        BY <1>1, TypeBounds DEF Of, MinOf, MaxOf, Type
      <3> QED
        BY <1>3, <3>1 DEF GetRange, Inv
    <2>2. \A x : x \in values <=> x \in Of(type) /\ Has(ranges, x)
      BY <1>1, <2>1
    <2>3. ASSUME NEW n \in Of(type)
          PROVE  n \in Int /\ (ranges = {<<n, n>>} => values = {n})
      <3>1. n \in Int /\ \A x \in Of(type) : x \in Int
        BY <1>1, TypeSize
      <3>2. ASSUME ranges = {<<n, n>>}, NEW x \in Of(type)
            PROVE  Has(ranges, x) <=> x = n
        BY <3>1, <3>2 DEF Has
      <3> QED
        BY <2>2, <3>1, <3>2
    <2>4. ASSUME NEW n \in Of(type), values = {n}
          PROVE  ranges = {<<n, n>>}
      <3>1. \A x \in Of(type) : Has(ranges, x) => x = n
        BY <2>2, <2>4
      <3> QED
        BY <1>1, <2>1, <3>1, OneValue
    <2>5. GetSymVal = {n \in Of(type) : values = {n}}
      BY <1>3, <2>3, <2>4 DEF GetSymVal
    <2>6. ASSUME NEW n \in GetSymVal
          PROVE  values = {n} /\ GetSymVal = {n}
      BY <2>5
    <2>7. I = {} <=> 0 \notin values
      <3>1. WellFormed(I, type)
        BY <1>1, <2>1, IntersectWellFormed
      <3>2. Convert(0, type) = 0 /\ InWrapped(0, 0, 0) /\ Fits(type, type)
        BY <1>1, <2>1, ConvertIdentity DEF InWrapped, Fits
      <3>3. ASSUME 0 \in values
            PROVE  I # {}
        <4>1. Has(ranges, 0)
          BY <2>2, <3>3
        <4>2. Has(I, 0)
          BY <1>1, <2>1, <3>2, <4>1, IntersectMeaning
        <4> QED
          BY <4>2 DEF Has
      <3>4. ASSUME I # {}
            PROVE  0 \in values
        <4>1. PICK r \in I : TRUE
          BY <3>4
        <4> DEFINE x == r[1]
        <4>2. x \in Of(type) /\ r[2] \in Of(type) /\ x <= r[2]
          BY <3>1, <4>1 DEF WellFormed
        <4>3. x \in Int /\ r[2] \in Int
          BY <1>1, <4>2, TypeSize
        <4>4. Has(I, x)
          BY <4>1, <4>2, <4>3 DEF Has
        <4> HIDE DEF x, I
        <4>5. Has(ranges, x) /\ InWrapped(Convert(x, type), 0, 0)
          BY <1>1, <2>1, <3>2, <4>2, <4>4, IntersectMeaning DEF I
        <4>6. Convert(x, type) = x
          BY <1>1, <4>2, ConvertIdentity
        <4>7. x = 0
          BY <4>3, <4>5, <4>6 DEF InWrapped
        <4> QED
          BY <2>1, <2>2, <4>5, <4>7
      <3> QED
        BY <3>3, <3>4
    <2>8. CheckNull = IF GetSymVal # {} THEN (IF GetSymVal = {0} THEN "null" ELSE "not null")
                      ELSE IF 0 \notin values THEN "not null" ELSE "unknown"
      BY <1>3, <2>7 DEF CheckNull
    <2>9. CASE GetSymVal = {}
      <3>1. values # {0}
        BY <2>1, <2>5, <2>9
      <3> QED
        BY <2>8, <2>9, <3>1 DEF QueriesAgree
    <2>10. CASE GetSymVal # {}
      <3>1. PICK n \in GetSymVal : TRUE
        BY <2>10
      <3>2. values = {n} /\ GetSymVal = {n}
        BY <2>6, <3>1
      <3> QED
        BY <2>8, <3>2 DEF QueriesAgree
    <2> QED
      BY <2>9, <2>10
  <1> QED
    BY <1>2, <1>3

\* As long as the path can be taken, the ranges have exactly the values with which a run
\* takes it, and the queries of the other checkers get the right answers.
THEOREM SpecExact ==
    ASSUME \A k \in Conversions : Safe(k)
    PROVE  Spec => []Exact
  <1>1. Init => Inv /\ Kept
    BY InitKept
  <1>2. Inv /\ Kept /\ [Next]_vars => Kept'
    BY NextKept
  <1>3. Inv /\ Kept => Exact
    <2> SUFFICES ASSUME Inv, Kept, values # {}
                 PROVE  Possible = values /\ QueriesAgree
      BY DEF Exact
    <2>1. Possible = values
      BY PossibleValues DEF Kept
    <2> QED
      BY <2>1, QueriesRight
  <1> QED
    BY <1>1, <1>2, <1>3, SpecInv, PTL DEF Spec

\* assumeDual never finds both branches infeasible, also on a path that no run takes: the
\* assertion that the state was not over-constrained holds.
THEOREM SpecNotOverConstrained ==
    ASSUME \A k \in Conversions : Safe(k)
    PROVE  Spec => []NotOverConstrained
  <1>1. Init => Inv /\ Kept
    BY InitKept
  <1>2. Inv /\ Kept /\ [Next]_vars => Kept'
    BY NextKept
  <1>3. Inv /\ Kept => NotOverConstrained
    <2> SUFFICES ASSUME Inv, Kept, NEW c \in Conditions(type),
                        Assume(c, TRUE) = {}, Assume(c, FALSE) = {}
                 PROVE  FALSE
      BY DEF NotOverConstrained
    <2>1. PICK x \in Of(type) : Has(GetRange, x)
      BY SomeValue DEF Kept
    <2>2. ~(Holds(x, c) <=> TRUE)
      BY <2>1, Infeasible
    <2>3. ~(Holds(x, c) <=> FALSE)
      BY <2>1, Infeasible
    <2> QED
      BY <2>2, <2>3
  <1> QED
    BY <1>1, <1>2, <1>3, SpecInv, PTL DEF Spec
=============================================================================
