-------------------------- MODULE MCResourceWatch --------------------------
(* Small instances of ResourceWatch: a response may take as long as two     *)
(* sensor deadlines, as in the code.                                        *)
EXTENDS ResourceWatch
=============================================================================
