---------------------------- MODULE MCRunControl ----------------------------
(* Instances of RunControl for TLC; their cfg files give all constants.    *)
EXTENDS RunControl
=============================================================================
