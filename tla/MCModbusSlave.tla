---------------------------- MODULE MCModbusSlave ----------------------------
(***************************************************************************)
(* An instance of ModbusSlave for TLC: two supported settings, and files   *)
(* with each kind of link and different tags: one with a negative limit,   *)
(* one whose sid exceeds the number of tags, more tags than sids.          *)
(***************************************************************************)
EXTENDS ModbusSlave

CONSTANTS b9600, b19200

ConfigsDef ==
  { [link |-> b9600,   max |-> <<30, -5>>, count |-> 2],
    [link |-> b19200,  max |-> [s \in {2} |-> 30], count |-> 1],
    [link |-> Tcp,     max |-> <<25, 30>>, count |-> 3],
    [link |-> Invalid, max |-> <<30>>, count |-> 1] }
=============================================================================
