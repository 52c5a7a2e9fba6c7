-------------------------- MODULE MCComponentLoop --------------------------
(* Three components, of which one may fail, be reset and be asked for.     *)
EXTENDS ComponentLoop
CONSTANTS c1, c2, c3

MCOrder3 == << c1, c2, c3 >>
MCOne == {c1}
=============================================================================
