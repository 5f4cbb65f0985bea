------------------------- MODULE MCRangeConstraints -------------------------
(* Instances of RangeConstraints for TLC, with types of two to four bits. *)
EXTENDS RangeConstraints

s2 == [bits |-> 2, unsigned |-> FALSE]
u2 == [bits |-> 2, unsigned |-> TRUE]
s3 == [bits |-> 3, unsigned |-> FALSE]
u3 == [bits |-> 3, unsigned |-> TRUE]
s4 == [bits |-> 4, unsigned |-> FALSE]

\* A sum has the type of the symbol, or a larger one by the conversions of C, and is
\* compared with a constant of any type; but no signed value becomes one of a larger
\* unsigned type.
MCConversions ==
    ({<<s2, s2>>, <<s2, u2>>, <<u2, u2>>, <<s2, s3>>, <<u2, s3>>, <<u2, u3>>} \X {s2, u2, s3, u3, s4})

Flat(P) == {<<p[1][1], p[1][2], p[2]>> : p \in P}

SafeConversions ==
    {k \in Flat(MCConversions) : Safe(k)} \cup {<<s3, s3, s3>>, <<u3, u3, u3>>}

\* A set with something that is no range.
MCAbsent == {<<>>}

\* The theorems about the values speak of such conversions.
ASSUME SafeAssumption == \A k \in Conversions : Safe(k)
=============================================================================
