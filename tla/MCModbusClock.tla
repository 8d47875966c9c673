---------------------------- MODULE MCModbusClock ----------------------------
(***************************************************************************)
(* An instance of ModbusClock for TLC: days at the ends of months of       *)
(* different lengths, values on either side of each limit.                 *)
(***************************************************************************)
EXTENDS ModbusClock

At(y, m, d) == [year |-> y, month |-> m, day |-> d, hour |-> 12, ms |-> Legal]

StartsDef == { At(2020, 1, 15), At(2020, 1, 31), At(2020, 2, 28) }

RequestsDef ==
  [year : {20, 21, 100}, month : {1, 2, 13}, day : {1, 28, 31, 32}, hour : {12, 24},
   ms : {Legal, Illegal}]

DoomsdayDef == [year |-> 2106, month |-> 2, day |-> 7, hour |-> 6, ms |-> Legal]
=============================================================================
