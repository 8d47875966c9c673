------------------------------ MODULE MCRdmTags ------------------------------
(***************************************************************************)
(* Instances of RdmTags for TLC.  The tags of the daemon do not interact,  *)
(* so one is enough.  Two ticks, so that one missed scan is not yet        *)
(* offline.  20 and 40 are both accepted from the initial 0 and each is    *)
(* implausible after the other, 200 is out of range; one of the limits     *)
(* lies between.                                                           *)
(***************************************************************************)
EXTENDS RdmTags

CONSTANT t1

OneTag    == {t1}
Readings  == {20, 40, 200}
TwoLimits == {30, 75}
=============================================================================
