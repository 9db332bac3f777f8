--------------------------- MODULE MCCorrelation ---------------------------
(* A small instance of Correlation: s1 and s2 wait in one instance for the
   messages m1 and m2; nobody ever waits for m3, which has other keys. *)
EXTENDS Correlation, TLC

CONSTANTS s1, s2, m1, m2, m3, i1

NameOf == [x \in {s1, s2, m1, m2, m3} |-> "order"]
KeysOf == [x \in {s1, s2, m1, m2, m3} |-> IF x = m3 THEN "b" ELSE "a"]
InstanceOf == [s \in {s1, s2} |-> i1]
Symmetry == Permutations({s1, s2})
=============================================================================
