------------------------------- MODULE StopGate -------------------------------
(***************************************************************************)
(* What RD_stop and RD_restart promise the rest of the daemon: the main    *)
(* thread can ask a worker to stop, is let in only when it has, is alone   *)
(* until it leaves, and is let in eventually.  What it does inside is not  *)
(* said, nor why the worker stops on its own.                              *)
(***************************************************************************)

VARIABLES worker,  \* "running" between start() and the end of run(), or "off"
          main     \* "out", "asking" for the worker to end, or "in" alone

gateVars == <<worker, main>>

(* The constructor is inside from the start: no worker exists yet.         *)
Init == worker = "off" /\ main = "in"

Ask   == main = "out" /\ main' = "asking" /\ UNCHANGED worker
Enter == main = "asking" /\ worker = "off" /\ main' = "in" /\ UNCHANGED worker

(* Going out starts the worker, leaves it off, or asks anew.               *)
Leave == /\ main = "in" /\ worker = "off"
         /\ \/ main' = "out" /\ worker' \in {"off", "running"}
            \/ main' = "asking" /\ UNCHANGED worker

Start == main = "out" /\ worker = "off" /\ worker' = "running" /\ UNCHANGED main
Stop  == worker = "running" /\ worker' = "off" /\ UNCHANGED main

Next == Ask \/ Enter \/ Leave \/ Start \/ Stop

Spec == Init /\ [][Next]_gateVars

(* The worker heeds the request, and the main thread goes in.              *)
FairSpec == Spec /\ WF_gateVars(main = "asking" /\ Stop) /\ WF_gateVars(Enter)
=============================================================================
