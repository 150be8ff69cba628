------------------------------ MODULE ObjectTree ------------------------------
(***************************************************************************)
(* What the object layer promises: the objects form a forest, an object is *)
(* created under an existing one, and deleting an object deletes exactly   *)
(* the objects below it and then the object, a parent after its children.  *)
(***************************************************************************)
CONSTANTS
  Objs,    (* the objects *)
  None     (* no object   *)

VARIABLES
  up,      (* the parent (or None) of each existing object      *)
  root     (* the object whose deletion is in progress, or None *)

vars == <<up, root>>
live == DOMAIN up

\* Whatever is directly below an object of S is in S.
Closed(S) == \A o \in live : up[o] \in S => o \in S

\* r, and the existing objects below it: they are in every closed set that r is in
Below(r) ==
  {o \in live \cup {r} :
     \A S \in SUBSET (live \cup {r}) : r \in S /\ Closed(S) => o \in S}

Init == up = <<>> /\ root = None

Add(N, p) ==
  /\ root = None
  /\ up' = [o \in live \cup N |-> IF o \in N THEN p ELSE up[o]]
  /\ UNCHANGED root

BeginDelete(o) ==
  /\ root = None
  /\ root' = o
  /\ UNCHANGED up

Remove(o) ==
  /\ root # None
  /\ up' = [l \in live \ {o} |-> up[l]]
  /\ \A c \in live : up[c] # o
  /\ o \in Below(root)
  /\ UNCHANGED root

EndDelete ==
  /\ root # None /\ root \notin live
  /\ root' = None
  /\ UNCHANGED up

Next ==
  \/ \E N \in SUBSET (Objs \ live), p \in live \cup {None} : Add(N, p)
  \/ \E o \in live : BeginDelete(o) \/ Remove(o)
  \/ EndDelete

Spec == Init /\ [][Next]_vars
=============================================================================
