----------------------------- MODULE MCEventCallback -----------------------------
(* Instances of EventCallback for TLC. *)
EXTENDS EventCallback, TLC

MCRunningComplete == {Running, Complete}
MCComplete        == {Complete}

ThreadSymmetry == Permutations(Threads) \cup Permutations(Addresses)
=============================================================================
