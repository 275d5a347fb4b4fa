------------------------- MODULE MCEmployeeProfiles -------------------------
(* Small instances of EmployeeProfiles: two option sets, of which one      *)
(* forces, two people, and two versions of the documents of the batch.     *)
EXTENDS EmployeeProfiles, TLC

CONSTANTS plain, forced, ann, bob

(* The documents of a second person arrive.                                *)
Growing == [o \in Options |-> [n \in 1..Sources |-> IF n = 1 THEN {ann} ELSE {ann, bob}]]

(* The runs are interchangeable.                                          *)
RunSymmetry == Permutations(Runs)
=============================================================================
