---------------------------- MODULE MCKdocStruct ----------------------------
(* The comment describes a member of the outer level and a member          *)
(* of a nested block under its dotted name.                                 *)
EXTENDS KdocStruct

MCNames == <<"a", "b", "c", "b", "d">>
MCSeconds == <<"p", "q", "a", "r", "s">>
MCKinds == <<"union", "struct">>
MCDocumented == {{<<"a">>, <<"c", "b">>}}
=============================================================================
