---------------------------- MODULE MCOAuthLogin ----------------------------
(* Instances of OAuthLogin for TLC. *)
EXTENDS OAuthLogin, TLC
============================================================================
