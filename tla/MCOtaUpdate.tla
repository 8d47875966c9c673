----------------------------- MODULE MCOtaUpdate -----------------------------
(***************************************************************************)
(* An instance of OtaUpdate for TLC: two updates from the cloud saved      *)
(* under one name, of different sizes, and one under a name of its own     *)
(* that the PC tool sends.                                                 *)
(***************************************************************************)
EXTENDS OtaUpdate, TLC

CONSTANTS v1, v2, v3

NameDef == (v1 :> "rdm.zip") @@ (v2 :> "rdm.zip") @@ (v3 :> "rdm.tar")
SizeDef == (v1 :> 2) @@ (v2 :> 1) @@ (v3 :> 1)
=============================================================================
