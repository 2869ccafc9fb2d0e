--------------------------- MODULE MCObjectStore ---------------------------
(***************************************************************************)
(* Small instances of ObjectStore for TLC: every request names the one     *)
(* key k1, so that all of them contend, unless a run says otherwise.       *)
(***************************************************************************)
EXTENDS ObjectStore, TLC

CONSTANTS k1, u1, u2, u3, d1

OneKey == {k1}
AllToOneKey == [p \in Request |-> k1]

\* Puts of one key that differ in nothing but their name: the specification
\* and its action properties read the same with two of them exchanged.
AlikePuts == Permutations(Upload)

=============================================================================
