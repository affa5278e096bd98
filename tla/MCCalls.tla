------------------------------- MODULE MCCalls -------------------------------
(* Instances of Calls for TLC: an account with several devices, another with *)
(* at most one.                                                              *)
EXTENDS Calls, TLC

CONSTANTS ana, bob, a1, a2, a3, b1

AllUsers == {ana, bob}
OneUser  == {ana}
ThreeOfOne == {a1, a2, a3}
OwnerOf(D) == [d \in D |-> IF d = b1 THEN bob ELSE ana]
OwnerThreeOfOne == OwnerOf(ThreeOfOne)
OnePlusOne == {a1, b1}
OwnerOnePlusOne == OwnerOf(OnePlusOne)

DevicesSymmetry == Permutations(ThreeOfOne)
=============================================================================
