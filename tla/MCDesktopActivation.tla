-------------------------- MODULE MCDesktopActivation --------------------------
(***************************************************************************)
(* DesktopActivation on a small instance.                                  *)
(***************************************************************************)
EXTENDS DesktopActivation, TLC

Symmetry == Permutations(Payload) \cup Permutations(Env)
===============================================================================
