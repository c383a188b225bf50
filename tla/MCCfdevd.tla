------------------------------ MODULE MCCfdevd ------------------------------
(* Three client connections; instruction bytes for Uninstall, AddIPAlias,  *)
(* Bind and one unknown code.                                              *)
EXTENDS Cfdevd, TLC

CONSTANTS c1, c2, c3

MCConns == {c1, c2, c3}
MCCodes == {UninstallType, AddIPAliasType, BindType, 9}
MCSymmetry == Permutations(MCConns)
=============================================================================
