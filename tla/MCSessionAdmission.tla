------------------------- MODULE MCSessionAdmission -------------------------
(***************************************************************************)
(* A small server for TLC: see MCSessionAdmission.cfg.                     *)
(***************************************************************************)
EXTENDS SessionAdmission, TLC

\* The connections are interchangeable.
HandlerSymmetry == Permutations(Handlers)
=============================================================================
