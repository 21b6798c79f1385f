------------------------------ MODULE MCHosted ------------------------------
(***************************************************************************)
(* A small instance of Hosted: two requests, keys, names and spaces. No    *)
(* symmetry, since liveness is checked.                                    *)
(***************************************************************************)
EXTENDS Hosted
=============================================================================
