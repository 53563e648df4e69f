---------------------------- MODULE MCDataServices ----------------------------
(* A small instance of DataServices for TLC: one name, so that registrations *)
(* collide.                                                                  *)
EXTENDS DataServices, TLC

CONSTANTS o1, o2, o3, alice, blankKey, nobody

TwoOperations == {o1, o2}
ThreeOperations == {o1, o2, o3}
OneName == {alice}

OperationSymmetry == Permutations(Operations)
===============================================================================
