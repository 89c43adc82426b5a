---------------------------- MODULE MCSpokeSession ----------------------------
(* Instances of SpokeSession.                                                *)
EXTENDS SpokeSession

Symmetry == Permutations(Session) \cup Permutations(Msg)
===============================================================================
