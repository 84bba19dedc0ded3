------------------------------- MODULE MC_Token -------------------------------
(* The token of the unit tests (token/lib.rs 415-424): alice deploys it   *)
(* and owns the supply, charlie is minter_burner, bob is a third party.  *)
EXTENDS Token

CONSTANTS alice, bob, charlie, none
=============================================================================
