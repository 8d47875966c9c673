----------------------------- MODULE MCRdmReader -----------------------------
(***************************************************************************)
(* Instances of RdmReader for TLC.  Two tags, so that the reading thread   *)
(* can fail between two tags of one scan; one tick, so that a tag that is  *)
(* missed once is deleted at the end of the scan; one power the module     *)
(* accepts and one it refuses.                                             *)
(***************************************************************************)
EXTENDS RdmReader

CONSTANTS t1, t2, p2300, pBad

OneTag     == {t1}
TwoTags    == {t1, t2}
GoodPowers == {p2300}
AllPowers  == {p2300, pBad}
=============================================================================
