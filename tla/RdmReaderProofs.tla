--------------------------- MODULE RdmReaderProofs ---------------------------
(***************************************************************************)
(* Safety of the reader for any set of tags, any TagTicks, any powers, and *)
(* any interleaving of the two threads.  Everything follows from one       *)
(* inductive invariant, IInv: while the main thread is at an exclusive     *)
(* step the reading thread is off.                                         *)
(***************************************************************************)
EXTENDS RdmReader, TLAPS

(* The main thread is at an exclusive step only with the thread stopped.   *)
Alone == mpc \in Exclusive => rpc = "off"

(* Mutex is held by the main thread exactly around the write of an EPC.    *)
MutexHeld == mutex <=> mpc \in {"write", "unlock"}

(* UDP_cmd_tag_epc has a uid to look up until it has looked it up.         *)
EpcRequested == mpc \in {"epcStop", "epcWait", "lock"} => epcTag \in Uids

(* RD_init restarts the thread with a reader set up to the end.            *)
ReadyAtRestart == mpc \in {"initRestart", "clear"} => tmr = "ready"

IInv == TypeOK /\ Alone /\ MutexHeld /\ EpcRequested /\ ReadyAtRestart /\ NoDanglingTag

-----------------------------------------------------------------------------
(* What a step of the reading thread leaves alone.                         *)
LEMMA RunFrame ==
  ASSUME run
  PROVE  /\ rpc # "off"
         /\ UNCHANGED <<mpc, job, bCreated, power, tmr, linkUp, mutex, taglist, epcTag>>
BY DEF run, CheckStopped, TickOnline, TickManaged, switchplans, TMR_read, NextTag,
       TagFails, NoMoreTags, Tag_get, UpdateTag, Purge, Sleep, handleError, Step,
       mainVars, readerVars, flags, scanVars

(* The constructors establish the invariant.                               *)
LEMMA InitIInv == Init => IInv
<1> SUFFICES ASSUME Init PROVE IInv
  OBVIOUS
<1>1. TypeOK
  <2>1. tagOnline \in [Uids -> {Absent} \cup 0..TagTicks]
    BY TagTicksAssumption DEF Init, Absent
  <2>2. QED
    BY <2>1, PowerAssumption DEF Init, TypeOK, MainSteps, ReaderSteps, Jobs, TmrStates
<1>2. Alone /\ EpcRequested /\ ReadyAtRestart /\ MutexHeld /\ NoDanglingTag
  BY DEF Init, Alone, EpcRequested, ReadyAtRestart, MutexHeld, NoDanglingTag
<1>3. QED BY <1>1, <1>2 DEF IInv

(* The two halves of TypeOK: Booleans, which Zenon is good at, and the rest.  *)
FlagsOK == /\ bStopped \in BOOLEAN /\ bError \in BOOLEAN /\ bCreated \in BOOLEAN
           /\ linkUp \in BOOLEAN /\ mutex \in BOOLEAN

DataOK == /\ mpc \in MainSteps /\ job \in Jobs /\ rpc \in ReaderSteps
          /\ power \in ValidPowers \cup PowerRequests
          /\ tmr \in TmrStates
          /\ taglist \in SUBSET Uids
          /\ tagOnline \in [Uids -> {Absent} \cup 0..TagTicks]
          /\ batch \in SUBSET Uids
          /\ cur \in Uids \cup {NoTag} /\ epcTag \in Uids \cup {NoTag}

(* No step gives a flag a value that is not Boolean.                       *)
LEMMA NextFlagsOK == ASSUME FlagsOK, [Next]_vars PROVE FlagsOK'
<1> USE DEF FlagsOK, flags, readerVars
<1>1. ASSUME NEW from, NEW wait, NEW to, RD_stop(from, wait, to) PROVE FlagsOK'
  BY <1>1, Zenon DEF RD_stop
<1>2. ASSUME NEW from, NEW to, RD_restart(from, to) PROVE FlagsOK'
  BY <1>2, Zenon DEF RD_restart
<1>3. CASE RD_init
  BY <1>1, <1>2, <1>3, Zenon
     DEF RD_init, TMR_destroy, InitStop, TMR_create, TMR_connect, TMR_params, InitRestart, ClearError
<1>4. CASE RDM_init
  BY <1>4, Zenon DEF RDM_init, Cfg_open, Cfg_parse, SetFlags
<1>5. CASE XmlStop \/ XmlRestart \/ EpcStop \/ EpcRestart \/ QuitStop
  BY <1>1, <1>2, <1>5, Zenon DEF XmlStop, XmlRestart, EpcStop, EpcRestart, QuitStop
<1>6. CASE EpcLock \/ EpcWrite \/ EpcUnlock \/ EpcAck \/ QuitFree
  BY <1>6, Zenon DEF EpcLock, EpcWrite, EpcUnlock, EpcAck, QuitFree
<1>7. CASE Handlers \/ RD_handleError
  BY <1>7, Zenon DEF Handlers, OnFileDone, RD_setPower, UDP_cmd_tag_epc, Quit, RD_handleError
<1>8. CASE handleError
  BY <1>8, Zenon DEF handleError, Step
<1>9. CASE run /\ ~handleError
  BY <1>9, Zenon DEF run, CheckStopped, TickOnline, TickManaged, switchplans, TMR_read, NextTag,
                     TagFails, NoMoreTags, Tag_get, UpdateTag, Purge, Sleep, Step
<1>10. CASE LinkChange
  BY <1>10, Zenon DEF LinkChange
<1>11. CASE UNCHANGED vars
  BY <1>11, Zenon DEF vars
<1>12. QED
  BY <1>3, <1>4, <1>5, <1>6, <1>7, <1>8, <1>9, <1>10, <1>11 DEF Next, Proceed

(* Every step keeps the types of the other variables.                      *)
LEMMA NextDataOK == ASSUME DataOK, EpcRequested, [Next]_vars PROVE DataOK'
<1> USE NoTagAssumption, TagTicksAssumption, PowerAssumption
    DEF DataOK, MainSteps, ReaderSteps, Jobs, TmrStates, Absent, Goto,
        mainVars, flags, readerVars, tagVars, scanVars, RD_initEntry, RD_initReturn,
        RDM_initReturn
<1>1. ASSUME NEW from, NEW wait, NEW to, wait \in MainSteps, to \in MainSteps,
             RD_stop(from, wait, to)
      PROVE  DataOK'
  BY <1>1 DEF RD_stop
<1>2. ASSUME NEW from, NEW to, to \in MainSteps, RD_restart(from, to) PROVE DataOK'
  BY <1>2 DEF RD_restart
<1>3. CASE RD_init
  <2>1. CASE InitStop \/ InitRestart
    BY <1>1, <1>2, <2>1 DEF InitStop, InitRestart
  <2>2. CASE TMR_destroy \/ TMR_create
    BY <2>2 DEF TMR_destroy, TMR_create
  <2>3. CASE TMR_connect \/ TMR_params \/ ClearError
    BY <2>3 DEF TMR_connect, TMR_params, ClearError
  <2>4. QED BY <1>3, <2>1, <2>2, <2>3 DEF RD_init
<1>4. CASE RDM_init
  BY <1>4 DEF RDM_init, Cfg_open, Cfg_parse, SetFlags
<1>5. CASE XmlStop \/ XmlRestart \/ EpcStop \/ EpcRestart \/ QuitStop
  BY <1>1, <1>2, <1>5 DEF XmlStop, XmlRestart, EpcStop, EpcRestart, QuitStop
<1>6. CASE EpcLock \/ EpcWrite \/ EpcUnlock \/ EpcAck \/ QuitFree
  BY <1>6 DEF EpcLock, EpcWrite, EpcUnlock, EpcAck, QuitFree
<1>7. CASE Handlers \/ RD_handleError
  BY <1>7 DEF Handlers, OnFileDone, RD_setPower, UDP_cmd_tag_epc, Quit, RD_handleError
<1>8. CASE run
  <2> USE DEF Step
  <2>1. CASE TickOnline
    BY <2>1 DEF TickOnline
  <2>2. CASE NextTag
    BY <2>2 DEF NextTag
  <2>3. CASE Purge
    BY <2>3 DEF Purge
  <2>4. CASE CheckStopped \/ TickManaged \/ switchplans \/ TMR_read \/ Sleep \/ handleError
    BY <2>4 DEF CheckStopped, TickManaged, switchplans, TMR_read, Sleep, handleError
  <2>5. CASE TagFails \/ NoMoreTags \/ Tag_get \/ UpdateTag
    BY <2>5 DEF TagFails, NoMoreTags, Tag_get, UpdateTag
  <2>6. QED BY <1>8, <2>1, <2>2, <2>3, <2>4, <2>5 DEF run
<1>9. CASE LinkChange
  BY <1>9 DEF LinkChange
<1>10. CASE UNCHANGED vars
  BY <1>10 DEF vars
<1>11. QED
  BY <1>3, <1>4, <1>5, <1>6, <1>7, <1>8, <1>9, <1>10 DEF Next, Proceed

(* The two halves together.                                                *)
LEMMA NextTypeOK == ASSUME TypeOK, EpcRequested, [Next]_vars PROVE TypeOK'
<1>1. FlagsOK /\ DataOK
  BY DEF TypeOK, FlagsOK, DataOK
<1>2. FlagsOK' /\ DataOK'
  BY <1>1, NextFlagsOK, NextDataOK
<1>3. QED BY <1>2, Zenon DEF TypeOK, FlagsOK, DataOK

-----------------------------------------------------------------------------
(* The main thread enters an exclusive step from another one or from the   *)
(* end of RD_stop's wait, and only RD_restart starts the thread.           *)
LEMMA NextAlone == ASSUME Alone, [Next]_vars PROVE Alone'
<1> USE DEF Alone, Exclusive, TmrSetup, Reloading, EpcSteps, Goto,
        mainVars, flags, readerVars, tagVars, scanVars, RD_initEntry, RD_initReturn, RDM_initReturn
<1>1. CASE RD_init
  <2>1. CASE InitStop \/ InitRestart
    BY <2>1 DEF InitStop, InitRestart, RD_stop, RD_restart
  <2>2. CASE TMR_destroy \/ TMR_create \/ TMR_connect \/ TMR_params \/ ClearError
    BY <2>2 DEF TMR_destroy, TMR_create, TMR_connect, TMR_params, ClearError
  <2>3. QED BY <1>1, <2>1, <2>2 DEF RD_init
<1>2. CASE RDM_init
  BY <1>2 DEF RDM_init, Cfg_open, Cfg_parse, SetFlags
<1>3. CASE XmlStop \/ XmlRestart \/ EpcStop \/ EpcRestart \/ QuitStop
  BY <1>3 DEF XmlStop, XmlRestart, EpcStop, EpcRestart, QuitStop, RD_stop, RD_restart
<1>4. CASE EpcLock \/ EpcWrite \/ EpcUnlock \/ EpcAck \/ QuitFree
  BY <1>4 DEF EpcLock, EpcWrite, EpcUnlock, EpcAck, QuitFree
<1>5. CASE Handlers \/ RD_handleError
  BY <1>5 DEF Handlers, OnFileDone, RD_setPower, UDP_cmd_tag_epc, Quit, RD_handleError
<1>6. CASE run
  BY <1>6, RunFrame
<1>7. CASE LinkChange \/ UNCHANGED vars
  BY <1>7 DEF LinkChange, vars
<1>8. QED
  BY <1>1, <1>2, <1>3, <1>4, <1>5, <1>6, <1>7 DEF Next, Proceed

(* Mutex, the requested tag and the state of the reader object at restart. *)
SmallInvs == MutexHeld /\ EpcRequested /\ ReadyAtRestart

(* Every step keeps them, while the main thread is exclusive alone.        *)
LEMMA NextSmallInvs == ASSUME SmallInvs, Alone, [Next]_vars PROVE SmallInvs'
<1> USE DEF SmallInvs, MutexHeld, EpcRequested, ReadyAtRestart, Alone, Exclusive, Goto,
        mainVars, flags, readerVars, tagVars, scanVars, RD_initEntry, RD_initReturn, RDM_initReturn
<1>1. CASE RD_init
  <2>1. CASE InitStop \/ InitRestart
    BY <1>1, <2>1 DEF InitStop, InitRestart, RD_stop, RD_restart
  <2>2. CASE TMR_destroy \/ TMR_create \/ TMR_connect \/ TMR_params \/ ClearError
    BY <2>2 DEF TMR_destroy, TMR_create, TMR_connect, TMR_params, ClearError
  <2>3. QED BY <1>1, <2>1, <2>2 DEF RD_init
<1>2. CASE RDM_init
  BY <1>2 DEF RDM_init, Cfg_open, Cfg_parse, SetFlags
<1>3. CASE XmlStop \/ XmlRestart \/ EpcStop \/ EpcRestart \/ QuitStop
  BY <1>3 DEF XmlStop, XmlRestart, EpcStop, EpcRestart, QuitStop, RD_stop, RD_restart
<1>4. CASE EpcWrite \/ EpcAck \/ QuitFree
  BY <1>4 DEF EpcWrite, EpcAck, QuitFree
<1>5. CASE EpcLock
  BY <1>5, Zenon DEF EpcLock
<1>6. CASE EpcUnlock
  BY <1>6 DEF EpcUnlock
<1>7. CASE Handlers \/ RD_handleError
  BY <1>7 DEF Handlers, OnFileDone, RD_setPower, UDP_cmd_tag_epc, Quit, RD_handleError
<1>8. CASE run
  BY <1>8, RunFrame
<1>9. CASE LinkChange \/ UNCHANGED vars
  BY <1>9 DEF LinkChange, vars
<1>10. QED
  BY <1>1, <1>2, <1>3, <1>4, <1>5, <1>6, <1>7, <1>8, <1>9 DEF Next, Proceed

(* The thread's pointer is looked up and used between two changes of the   *)
(* tag list, which need the thread off; the pointer of UDP_cmd_tag_epc is  *)
(* used while the thread, the only one to delete from tagOnline, is off.   *)
LEMMA NextNoDanglingTag ==
  ASSUME TypeOK, Alone, NoDanglingTag, [Next]_vars PROVE NoDanglingTag'
<1> USE DEF NoDanglingTag, Goto, mainVars, flags, readerVars, tagVars, scanVars,
            RD_initEntry, RD_initReturn, RDM_initReturn
<1>1. CASE RD_init
  <2>1. CASE InitStop \/ InitRestart
    BY <2>1 DEF InitStop, InitRestart, RD_stop, RD_restart
  <2>2. CASE TMR_destroy \/ TMR_create \/ TMR_connect \/ TMR_params \/ ClearError
    BY <2>2 DEF TMR_destroy, TMR_create, TMR_connect, TMR_params, ClearError
  <2>3. QED BY <1>1, <2>1, <2>2 DEF RD_init
<1>2. CASE RDM_init
  BY <1>2 DEF Alone, Exclusive, Reloading, RDM_init, Cfg_open, Cfg_parse, SetFlags
<1>3. CASE XmlStop \/ XmlRestart \/ EpcStop \/ EpcRestart \/ QuitStop
  BY <1>3 DEF XmlStop, XmlRestart, EpcStop, EpcRestart, QuitStop, RD_stop, RD_restart
<1>4. CASE EpcLock \/ EpcWrite \/ EpcUnlock \/ EpcAck \/ QuitFree
  BY <1>4 DEF EpcLock, EpcWrite, EpcUnlock, EpcAck, QuitFree
<1>5. CASE Handlers \/ RD_handleError
  BY <1>5 DEF Handlers, OnFileDone, RD_setPower, UDP_cmd_tag_epc, Quit, RD_handleError
<1>6. CASE run
  <2>1. mpc \notin {"write", "unlock", "ack"} /\ mpc' = mpc /\ taglist' = taglist
    BY <1>6, RunFrame DEF Alone, Exclusive, EpcSteps
  <2>2. rpc' = "update" /\ cur' # NoTag => cur' \in taglist
    BY <1>6 DEF run, CheckStopped, TickOnline, TickManaged, switchplans, TMR_read, NextTag,
            TagFails, NoMoreTags, Tag_get, UpdateTag, Purge, Sleep, handleError, Step
  <2>3. QED BY <2>1, <2>2
<1>7. CASE LinkChange \/ UNCHANGED vars
  BY <1>7 DEF LinkChange, vars
<1>8. QED
  BY <1>1, <1>2, <1>3, <1>4, <1>5, <1>6, <1>7 DEF Next, Proceed

-----------------------------------------------------------------------------
(* The invariant of every behaviour.                                       *)
THEOREM Invariance == Spec => []IInv
<1>1. IInv /\ [Next]_vars => IInv'
  BY NextTypeOK, NextAlone, NextSmallInvs, NextNoDanglingTag DEF IInv, SmallInvs
<1>2. QED
  BY InitIInv, <1>1, PTL DEF Spec

(* The daemon's variables keep their types.                                *)
THEOREM TypeCorrect == Spec => []TypeOK
<1>1. IInv => TypeOK
  BY DEF IInv
<1>2. QED
  BY Invariance, <1>1, PTL

(* taglist is deleted and rebuilt only while the reading thread is off.    *)
THEOREM ReloadSafe == Spec => []TagListRebuiltAlone
<1>1. IInv => TagListRebuiltAlone
  BY DEF IInv, Alone, Exclusive, TagListRebuiltAlone
<1>2. QED
  BY Invariance, <1>1, PTL

(* The main thread uses TMR_Reader only while the reading thread is off.   *)
THEOREM ReaderSafe == Spec => []TmrUsedAlone
<1>1. IInv => TmrUsedAlone
  BY DEF IInv, Alone, Exclusive, EpcSteps, TmrUsedAlone
<1>2. QED
  BY Invariance, <1>1, PTL

(* No thread uses a pointer to a deleted tag.                              *)
THEOREM PointersSafe == Spec => []NoDanglingTag
<1>1. IInv => NoDanglingTag
  BY DEF IInv
<1>2. QED
  BY Invariance, <1>1, PTL

(* bError is withdrawn only with a reader set up to the end.               *)
THEOREM ErrorKept == Spec => ErrorClearedOnlyWhenReady
<1>1. IInv /\ [Next]_vars => [bError /\ ~bError' => tmr = "ready"]_vars
  <2> SUFFICES ASSUME IInv, Next, bError' # bError PROVE bError' \/ tmr = "ready"
    BY DEF vars
  <2>1. CASE ClearError
    BY <2>1 DEF IInv, ReadyAtRestart, ClearError
  <2>2. CASE handleError
    BY <2>2 DEF handleError, Step
  <2>3. QED
    BY <2>1, <2>2
       DEF flags, Next, Handlers, OnFileDone, RD_setPower, UDP_cmd_tag_epc, Quit, RD_handleError,
           Proceed, RD_init, TMR_destroy, InitStop, TMR_create, TMR_connect, TMR_params, InitRestart,
           RDM_init, Cfg_open, Cfg_parse, SetFlags, XmlStop, XmlRestart, EpcStop, EpcLock,
           EpcWrite, EpcUnlock, EpcAck, EpcRestart, QuitStop, QuitFree, RD_stop, RD_restart,
           run, CheckStopped, TickOnline, TickManaged, switchplans, TMR_read, NextTag, TagFails,
           NoMoreTags, Tag_get, UpdateTag, Purge, Sleep, LinkChange
<1>2. QED
  BY Invariance, <1>1, PTL DEF Spec, ErrorClearedOnlyWhenReady

-----------------------------------------------------------------------------
(* Every step of the reader is a step of the gate or leaves it alone.     *)
LEMMA GateStep == ASSUME Alone, [Next]_vars PROVE [Gate!Next]_(Gate!gateVars)
<1> USE DEF Alone, Exclusive, TmrSetup, Reloading, EpcSteps, StopSteps, Goto,
        mainVars, flags, readerVars, tagVars, scanVars, RD_initEntry, RD_initReturn, RDM_initReturn,
        Gate!gateVars, Gate!Next, Gate!Ask, Gate!Enter, Gate!Leave, Gate!Start, Gate!Stop
<1>1. CASE RD_init
  <2>1. CASE InitStop \/ InitRestart
    BY <2>1 DEF InitStop, InitRestart, RD_stop, RD_restart
  <2>2. CASE TMR_destroy \/ TMR_create \/ TMR_connect \/ TMR_params \/ ClearError
    BY <2>2 DEF TMR_destroy, TMR_create, TMR_connect, TMR_params, ClearError
  <2>3. QED BY <1>1, <2>1, <2>2 DEF RD_init
<1>2. CASE RDM_init
  BY <1>2 DEF RDM_init, Cfg_open, Cfg_parse, SetFlags
<1>3. CASE XmlStop \/ XmlRestart \/ EpcStop \/ EpcRestart \/ QuitStop
  BY <1>3 DEF XmlStop, XmlRestart, EpcStop, EpcRestart, QuitStop, RD_stop, RD_restart
<1>4. CASE EpcLock \/ EpcWrite \/ EpcUnlock \/ EpcAck \/ QuitFree
  BY <1>4 DEF EpcLock, EpcWrite, EpcUnlock, EpcAck, QuitFree
<1>5. CASE Handlers \/ RD_handleError
  BY <1>5 DEF Handlers, OnFileDone, RD_setPower, UDP_cmd_tag_epc, Quit, RD_handleError
<1>6. CASE run
  BY <1>6, RunFrame
<1>7. CASE LinkChange \/ UNCHANGED vars
  BY <1>7 DEF LinkChange, vars
<1>8. QED
  BY <1>1, <1>2, <1>3, <1>4, <1>5, <1>6, <1>7 DEF Next, Proceed

(* The reader implements the gate: RD_stop lets the main thread in only    *)
(* when run() has returned, and nothing starts it before RD_restart.       *)
THEOREM ReaderImplementsGate == Spec => Gate!Spec
<1>1. Init => Gate!Init
  BY DEF Init, Gate!Init, Exclusive, Reloading
<1>2. IInv /\ [Next]_vars => [Gate!Next]_(Gate!gateVars)
  BY GateStep DEF IInv
<1>3. QED
  BY Invariance, <1>1, <1>2, PTL DEF Spec, Gate!Spec
=============================================================================
