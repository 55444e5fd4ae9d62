----------------------------- MODULE MCSession -----------------------------
(***************************************************************************)
(* Session for TLC.                                                        *)
(***************************************************************************)
EXTENDS Session, TLC

\* The browsers are told apart by what they do only.
Symmetry == Permutations(Browsers)

=============================================================================
