---------------------------- MODULE MCModbusPoll -----------------------------
(***************************************************************************)
(* An instance of ModbusPoll for TLC: a slave of two tags, and one of      *)
(* three, whose EPCs do not fit into one answer.                           *)
(***************************************************************************)
EXTENDS ModbusPoll, TLC

CONSTANTS e1, e2, e3

ConfigsDef == {<<e1, e2>>, <<e2, e1, e3>>}
=============================================================================
