---------------------------- MODULE MCArmMutex ----------------------------
(* ArmMutex for TLC: lock y is used with _archglue_test_and_set and shares *)
(* its granule with plain data, lock z with _simple_mutex.                 *)
EXTENDS ArmMutex

Granule(l) == IF l = "z" THEN "g2" ELSE "g1"
SmallGranuleOf == [l \in Locks |-> Granule(l)]
SmallRoutine == [l \in Locks |-> IF l = "y" THEN "tas" ELSE "simple"]
=============================================================================
