----------------------------- MODULE MCEpcWrite ------------------------------
(***************************************************************************)
(* An instance of EpcWrite for TLC: a managed tag and one that is not, of  *)
(* the same EPC at first.                                                  *)
(***************************************************************************)
EXTENDS EpcWrite, TLC

CONSTANTS t1, t2, e1, e2

FactoryEpcDef == [t \in Tags |-> e1]
=============================================================================
