------------------------------ MODULE MCExec ------------------------------
(***************************************************************************)
(* The execution core on small instances: a broker account with one or two *)
(* order ids.  Every bound is a CONSTANT of the specification; the order   *)
(* ids of one side and route are interchangeable.                          *)
(***************************************************************************)
EXTENDS ExecProps, TLC

IdSymmetry == Permutations(Sells)
=============================================================================
