------------------------------ MODULE MCObjects ------------------------------
(* Instances of Objects for TLC: one platform and one root device, and the  *)
(* handles above or below them that the driver gives to new objects.        *)
EXTENDS Objects, TLC

\* The handle of the platform is between those of the other objects.
MCPlatforms   == {3}
MCRootDevices == {2}
MCPlatformOf  == 2 :> 3

UdSymmetry == Permutations(Uds)
=============================================================================
