------------------------ MODULE MCWhiteboardSession ------------------------
(***************************************************************************)
(* An instance of WhiteboardSession for TLC: the server takes every board, *)
(* or refuses the one that has the first edit only.                        *)
(***************************************************************************)
EXTENDS WhiteboardSession, TLC

MCUnfit == {{}, {{1}}}
MCAllFit == {{}}

\* No tab is preferred to another.
TabSymmetry == Permutations(Tab)
============================================================================
