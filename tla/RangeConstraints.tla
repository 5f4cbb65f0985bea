-------------------------- MODULE RangeConstraints --------------------------
(***************************************************************************)
(* clang's RangeConstraintManager: what the static analyzer knows of the   *)
(* value of a symbol on a path, as a set of closed ranges of integers.     *)
(*                                                                         *)
(* A path comes to conditions (x + adj) op int.  assumeSymRel finds the    *)
(* types, assumeSym turns the condition into a range of x that may wrap    *)
(* around, Intersect pins it to the type of x and cuts the ranges, and     *)
(* assumeDual decides which branches the path takes.                       *)
(*                                                                         *)
(* An APSInt is a number and a type, which has a width and a sign.  values *)
(* is not in the code: it has the values of x that really take the path,   *)
(* by the conversions of C, with arithmetic that wraps.                    *)
(***************************************************************************)
EXTENDS Integers

CONSTANTS Conversions,  \* <<s, w, v>>: types of x, of x + adj and of int
          Absent        \* no range set is kept for the symbol

VARIABLES type,         \* the type of the symbol
          reference,    \* whether that is a reference, which is not 0
          ranges,       \* pairs <<from, to>>, or Absent
          values        \* the values with which a run takes the path

vars == <<type, reference, ranges, values>>

\* Types have at least one bit.
ASSUME TypesAssumption ==
    \A k \in Conversions : {k[1], k[2], k[3]} \subseteq [bits : Nat \ {0}, unsigned : BOOLEAN]

\* What stands for no range set is not a set of ranges.
ASSUME AbsentAssumption == Absent \notin SUBSET (Int \X Int)

-----------------------------------------------------------------------------
(* APSInt and APSIntType.                                                  *)

MinOf(T) == IF T.unsigned THEN 0 ELSE -(2 ^ (T.bits - 1))
MaxOf(T) == IF T.unsigned THEN 2 ^ T.bits - 1 ELSE 2 ^ (T.bits - 1) - 1
Of(T) == MinOf(T) .. MaxOf(T)

\* A conversion as in C, and the arithmetic of a type.
Convert(n, T) == ((n - MinOf(T)) % 2 ^ T.bits) + MinOf(T)

\* Whether n, of type V, is a value of type T: with sign conversions the bits of
\* n are counted, but between signed types its value.
TestInRange(n, V, T) ==
    IF IF V.unsigned \/ T.unsigned THEN n % 2 ^ V.bits < 2 ^ T.bits ELSE n \in Of(T)
    THEN "within"
    ELSE IF n < 0 THEN "below" ELSE "above"

\* Whether the first type is the smaller one in the order of the conversions of C.
Below(T, U) == T.bits < U.bits \/ (T.bits = U.bits /\ ~T.unsigned /\ U.unsigned)

Compare(m, op, n) ==
    CASE op = "EQ" -> m = n  [] op = "NE" -> m # n
      [] op = "LT" -> m < n  [] op = "LE" -> m <= n
      [] op = "GT" -> m > n  [] op = "GE" -> m >= n

Negate(op) ==
    CASE op = "EQ" -> "NE"  [] op = "NE" -> "EQ"
      [] op = "LT" -> "GE"  [] op = "GE" -> "LT"
      [] op = "GT" -> "LE"  [] op = "LE" -> "GT"

-----------------------------------------------------------------------------
(* RangeSet.                                                               *)

Larger(m, n) == IF m > n THEN m ELSE n
Smaller(m, n) == IF m < n THEN m ELSE n

\* Mutant: a range that ends just before lo is not passed over.
IntersectInRangeEarly(R, lo, hi) ==
    {<<Larger(r[1], lo), Smaller(r[2], hi)>> : r \in {q \in R : q[2] >= lo - 1 /\ q[1] <= hi}}

\* The values of the ranges R between lo and hi.
IntersectInRange(R, lo, hi) ==
    {<<Larger(r[1], lo), Smaller(r[2], hi)>> : r \in {q \in R : q[2] >= lo /\ q[1] <= hi}}

\* Where the iterator stands afterwards: at the first range that goes on to hi.
Rest(R, hi) == {r \in R : r[2] >= hi}

\* pin: whether no value of type S is in the range, which has bounds of type B,
Outside(lo, hi, B, S) ==
    LET l == TestInRange(lo, B, S)
        h == TestInRange(hi, B, S)
    IN  l # "within" /\ h # "within"
            /\ ((l = "above" /\ h = "below") \/ (l = h /\ lo < hi))

\* and otherwise the bounds in that type.
PinLower(lo, B, S) == IF TestInRange(lo, B, S) = "within" THEN Convert(lo, S) ELSE MinOf(S)
PinUpper(hi, B, S) == IF TestInRange(hi, B, S) = "within" THEN Convert(hi, S) ELSE MaxOf(S)

\* Mutant: of a range that wraps around the upper part comes first.
CutUpperFirst(R, lo, hi, S) ==
    IF lo <= hi THEN IntersectInRange(R, lo, hi)
    ELSE IntersectInRange(R, lo, MaxOf(S))
            \cup IntersectInRange(Rest(R, MaxOf(S)), MinOf(S), hi)

\* The intersection with a range of type S that may wrap around: the lower part
\* first, since the iterator is not set back.
Cut(R, lo, hi, S) ==
    IF lo <= hi THEN IntersectInRange(R, lo, hi)
    ELSE IntersectInRange(R, MinOf(S), hi)
            \cup IntersectInRange(Rest(R, hi), lo, MaxOf(S))

Intersect(R, lo, hi, B, S) ==
    IF Outside(lo, hi, B, S) THEN {} ELSE Cut(R, PinLower(lo, B, S), PinUpper(hi, B, S), S)

-----------------------------------------------------------------------------
(* RangeConstraintManager and SimpleConstraintManager.                     *)

\* A symbol that has no ranges yet may have any value, but a reference is not 0.
GetRange ==
    IF ranges # Absent THEN ranges
    ELSE LET all == {<<MinOf(type), MaxOf(type)>>}
         IN  IF reference THEN Intersect(all, 1, MaxOf(type), type, type) ELSE all

\* Mutant: the upper bound of < is not moved.
BoundsClosed(op, n, adj, A) ==
    LET at(m) == Convert(m - adj, A) IN
    CASE op = "EQ" -> <<at(n), at(n)>>
      [] op = "NE" -> <<at(n + 1), at(n - 1)>>
      [] op = "LT" -> <<at(MinOf(A)), at(n)>>
      [] op = "LE" -> <<at(MinOf(A)), at(n)>>
      [] op = "GT" -> <<at(n + 1), at(MaxOf(A))>>
      [] op = "GE" -> <<at(n), at(MaxOf(A))>>

\* The range of the x with x + adj op n, in the arithmetic of type A.
Bounds(op, n, adj, A) ==
    LET at(m) == Convert(m - adj, A) IN
    CASE op = "EQ" -> <<at(n), at(n)>>
      [] op = "NE" -> <<at(n + 1), at(n - 1)>>
      [] op = "LT" -> <<at(MinOf(A)), at(n - 1)>>
      [] op = "LE" -> <<at(MinOf(A)), at(n)>>
      [] op = "GT" -> <<at(n + 1), at(MaxOf(A))>>
      [] op = "GE" -> <<at(n), at(MaxOf(A))>>

\* Mutant: a constant above the type is taken for one below it.
NeverTrueSwapped(op, int, C, A) ==
    LET test == TestInRange(int, C, A) IN
    \/ op = "EQ" /\ test # "within"
    \/ op \in {"LT", "LE"} /\ test = "above"
    \/ op \in {"GT", "GE"} /\ test = "below"
    \/ op = "LT" /\ test = "within" /\ Convert(int, A) = MinOf(A)
    \/ op = "GT" /\ test = "within" /\ Convert(int, A) = MaxOf(A)

\* The conditions that no value of type A meets, and those that all meet.
NeverTrue(op, int, C, A) ==
    LET test == TestInRange(int, C, A) IN
    \/ op = "EQ" /\ test # "within"
    \/ op \in {"LT", "LE"} /\ test = "below"
    \/ op \in {"GT", "GE"} /\ test = "above"
    \/ op = "LT" /\ test = "within" /\ Convert(int, A) = MinOf(A)
    \/ op = "GT" /\ test = "within" /\ Convert(int, A) = MaxOf(A)

AlwaysTrue(op, int, C, A) ==
    LET test == TestInRange(int, C, A) IN
    \/ op = "NE" /\ test # "within"
    \/ op \in {"LT", "LE"} /\ test = "above"
    \/ op \in {"GT", "GE"} /\ test = "below"
    \/ op = "GE" /\ test = "within" /\ Convert(int, A) = MinOf(A)
    \/ op = "LE" /\ test = "within" /\ Convert(int, A) = MaxOf(A)

\* assumeSymEQ, NE, LT, LE, GT, GE: the ranges on the branch, {} if there is none.
AssumeSym(op, int, C, adj, A) ==
    CASE NeverTrue(op, int, C, A)  -> {}
      [] AlwaysTrue(op, int, C, A) -> ranges
      [] OTHER -> LET b == Bounds(op, Convert(int, A), adj, A)
                  IN  Intersect(GetRange, b[1], b[2], A, type)

\* What MakeSymIntVal makes of the constant of a comparison, and assumeSymRel of
\* that and of the type of the adjustment.
SymInt(c) ==
    IF c.v.bits < c.w.bits \/ (c.v.bits = c.w.bits /\ ~c.v.unsigned /\ c.w.unsigned)
    THEN [int |-> Convert(c.int, c.w), v |-> c.w]
    ELSE [int |-> c.int, v |-> c.v]

AssumeSymRel(c, op) ==
    LET k == SymInt(c)
        C == IF Below(c.w, k.v) THEN k.v ELSE c.w
        A == IF C.bits = c.w.bits /\ C.unsigned THEN C ELSE c.w
    IN  AssumeSym(op, Convert(k.int, C), C, Convert(c.adj, A), A)

Assume(c, assumption) == AssumeSymRel(c, IF assumption THEN c.op ELSE Negate(c.op))

\* getSymVal: the one value that is left, as a set, or {} if it is not known.
GetSymVal == IF ranges = Absent THEN {} ELSE {n \in Of(type) : ranges = {<<n, n>>}}

CheckNull ==
    IF ranges = Absent THEN "unknown"
    ELSE IF GetSymVal # {} THEN (IF GetSymVal = {0} THEN "null" ELSE "not null")
    ELSE IF Intersect(ranges, 0, 0, type, type) = {} THEN "not null" ELSE "unknown"

-----------------------------------------------------------------------------
Ops == {"EQ", "NE", "LT", "LE", "GT", "GE"}

\* The conditions on a symbol of type s.
Conditions(s) == UNION {
    [op : Ops, w : {k[2]}, v : {k[3]},
     adj : IF k[2] = s THEN Of(s) ELSE Of(k[2]) \ {0}, int : Of(k[3])] :
        k \in {j \in Conversions : j[1] = s}}

\* Whether x meets the condition in C: x is converted to the type of the sum, and
\* the sum and the constant to the larger of their types.
Holds(x, c) ==
    LET C == IF Below(c.w, c.v) THEN c.v ELSE c.w
    IN  Compare(Convert(Convert(Convert(x, c.w) + c.adj, c.w), C), c.op, Convert(c.int, C))

Init ==
    /\ type \in {k[1] : k \in Conversions}
    /\ reference \in BOOLEAN /\ (reference => type.unsigned)
    /\ ranges = Absent
    /\ values = Of(type) \ (IF reference THEN {0} ELSE {})

\* assumeDual: the path goes on where the condition holds, or where it does not.  If
\* the other branch is infeasible the state stays as it is.
AssumeTrue(c) ==
    /\ Assume(c, TRUE) # {}
    /\ ranges' = IF Assume(c, FALSE) = {} THEN ranges ELSE Assume(c, TRUE)
    /\ values' = {x \in values : Holds(x, c)}
    /\ UNCHANGED <<type, reference>>

AssumeFalse(c) ==
    /\ \/ Assume(c, TRUE) = {} /\ UNCHANGED ranges
       \/ /\ Assume(c, TRUE) # {} /\ Assume(c, FALSE) # {}
          /\ ranges' = Assume(c, FALSE)
    /\ values' = {x \in values : ~Holds(x, c)}
    /\ UNCHANGED <<type, reference>>

Next == \E c \in Conditions(type) : AssumeTrue(c) \/ AssumeFalse(c)

Spec == Init /\ [][Next]_vars

-----------------------------------------------------------------------------
(* Properties.                                                             *)

\* A value may be converted to a larger unsigned type from a signed one.
SignExtended(T, U) == ~T.unsigned /\ U.unsigned /\ T.bits < U.bits

\* The conversions for which the range constraints are right: the sum has the type of
\* the symbol or a larger one, and no signed value becomes one of a larger unsigned type.
Safe(k) ==
    /\ k[2] = k[1] \/ Below(k[1], k[2])
    /\ \A i, j \in 1 .. 3 : i < j => ~SignExtended(k[i], k[j])

\* The values in the ranges.
Possible == {x \in Of(type) : \E r \in GetRange : r[1] <= x /\ x <= r[2]}

\* Ranges in the right order, of values of type T, and apart from each other.
WellFormed(R, T) ==
    /\ R \subseteq Of(T) \X Of(T)
    /\ \A r \in R : r[1] <= r[2]
    /\ \A r, q \in R : r = q \/ r[2] < q[1] \/ q[2] < r[1]

\* A RangeSet is not empty, its ranges are in the right order (the assertion of
\* Range), in the type of the symbol, and apart from each other, as IntersectInRange
\* needs them.
Inv ==
    /\ type \in {k[1] : k \in Conversions}
    /\ ranges # Absent => ranges # {} /\ WellFormed(ranges, type)

\* A branch that a run can take is one that the analyzer takes: the condition leaves it
\* ranges if a value with which the path is taken meets it (TRUE), or does not (FALSE).
FeasibleBranchesTaken ==
    \A c \in Conditions(type), b \in BOOLEAN :
        (\E x \in values : Holds(x, c) = b) => Assume(c, b) # {}

\* No value with which a run takes the path is lost, and no feasible branch of the
\* next condition is declared infeasible, whatever conditions, widths, signs and
\* overflows the path has met: the analyzer follows every feasible path.
Sound == values \subseteq Possible /\ FeasibleBranchesTaken

\* getSymVal and checkNull say of the symbol what is true on the path.
QueriesAgree ==
    /\ GetSymVal # {} => values = GetSymVal
    /\ CheckNull = "null" => values = {0}
    /\ CheckNull = "not null" => 0 \notin values
    /\ ranges # Absent /\ CheckNull = "unknown" => 0 \in values /\ values # {0}

\* Nor is a value kept that cannot take the path, and the queries agree, unless no
\* value can: a condition that asks for one value outside the type is not found out.
Exact == values # {} => Possible = values /\ QueriesAgree

\* "System is over constrained.": one branch of a condition is feasible.
NotOverConstrained ==
    \A c \in Conditions(type) : Assume(c, TRUE) # {} \/ Assume(c, FALSE) # {}
=============================================================================
