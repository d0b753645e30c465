---------------------------- MODULE MCEnrollment ----------------------------
(* An instance of Enrollment: r2 has the handle of r1 and the owner of r3, and the device actions are of one account. *)
EXTENDS Enrollment, TLC

CONSTANTS r1, r2, r3, a1, a2

Handles == [r \in Registrations |-> IF r = r3 THEN r3 ELSE r1]
Owners  == [r \in Registrations |-> IF r = r1 THEN r1 ELSE r3]
SameNonce == [a \in Actions |-> 0]
Deadlines == [i \in Intents |-> IF i = r1 THEN 1 ELSE 2]

Symmetry == Permutations(Requests) \cup Permutations(Codes)
=============================================================================
