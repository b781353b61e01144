---------------------------- MODULE MCPackLoader ----------------------------
(* A page with the primary B10, a must-land silicon pack (both gpu), a     *)
(* lean cpu anchor, a custom probe that needs gpu and cpu, and a light     *)
(* pack that depends on B10.                                               *)
EXTENDS PackLoader

CONSTANTS b10, b10x, custom, hw, surface

MCClasses == <<"gpu", "cpu">>

MCResourceClasses ==
    [p \in Packs |-> CASE p = surface -> {} [] p = hw -> {"cpu"} [] p = custom -> {"gpu", "cpu"} [] OTHER -> {"gpu"}]

MCDependsOn == [p \in Packs |-> IF p = surface THEN {b10} ELSE {}]

MCForced == {"gpu", "cpu"}

MCLists == {<<hw, b10>>, <<custom, surface>>, <<b10x>>}
=============================================================================
