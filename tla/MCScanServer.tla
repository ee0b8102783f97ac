---------------------------- MODULE MCScanServer ----------------------------
(* Module ScanServer for TLC.  A setting has the file's value 1, another   *)
(* usable value 2, a value rating fails on and a value its conversion      *)
(* raises on.                                                              *)
EXTENDS ScanServer, TLC

CONSTANTS r1, r2, r3

File == [f \in Fields |-> 1]

Quake  == "z_year" :> 2
Scale0 == ("z_year" :> 2) @@ ("urgency_scale" :> Unusable)
Broken == ("z_year" :> 2) @@ ("urgency_scale" :> Malformed)
Strict == ("cnsa2_required" :> 2) @@ ("criticality_weights" :> 2)

AllBodies   == {Quake, Scale0, Broken, Strict}
MoveZ       == {Quake}
HalfWrong   == {Broken}
Symmetry    == Permutations(Requests)
=============================================================================
