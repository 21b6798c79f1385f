----------------------------- MODULE MCApiKeys ------------------------------
(***************************************************************************)
(* Small instances of ApiKeys: two admins, two keys, two spaces and a name *)
(* ValidateSpaceName refuses.                                              *)
(***************************************************************************)
EXTENDS ApiKeys
=============================================================================
