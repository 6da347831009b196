-------------------------- MODULE MCServerSession --------------------------
(***************************************************************************)
(* A small session for TLC: see MCServerSession*.cfg.                      *)
(***************************************************************************)
EXTENDS ServerSession, TLC

\* The handlers are interchangeable.
HandlerSymmetry == Permutations(Handlers)
============================================================================
