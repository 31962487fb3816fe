-------------------------- MODULE MCMasterRegistry --------------------------
(***************************************************************************)
(* MasterRegistry on a small instance: two lists, two or three configured  *)
(* clients and a few heap cells.                                           *)
(***************************************************************************)
EXTENDS MasterRegistry, TLC

CONSTANTS c1, c2, c3, c4

MCCells4 == {c1, c2, c3, c4}
MCCells3 == {c1, c2, c3}

\* The cells are interchangeable: the model only compares them.
CellSymmetry == Permutations(Cells)
=============================================================================
