------------------------------ MODULE RdmReader ------------------------------
(***************************************************************************)
(* The RFID reader of the on-device daemon (iTmsRdm): the main thread, a   *)
(* Qt event loop that runs one handler to its end before the next, and the *)
(* reading thread iReader::run.  They share the flags bStopped and bError, *)
(* the TMR_Reader object, the managed tags (taglist, no lock) and the      *)
(* tags in the field (tagOnline, under Mutex).                             *)
(*                                                                         *)
(* Every handler that touches the reader is a sequence of steps of the     *)
(* main thread, so the steps of the reading thread fall between any two of *)
(* them.  The critical sections of the reading thread are single steps     *)
(* that need Mutex free; the only one of the main thread that contains a   *)
(* reader operation, UDP_cmd_tag_epc, holds Mutex over several steps.      *)
(***************************************************************************)
EXTENDS Integers

CONSTANTS
  Uids,           \* tag ids that may be in the field or in iTmsRdm.xml
  NoTag,          \* the NULL iTag pointer
  TagTicks,       \* TAG_TICKS, itag.h
  ValidPowers,    \* radio powers the reader module accepts
  PowerRequests,  \* values a Modbus master may write into the power register
  DefaultPower    \* power set by the constructor

ASSUME NoTagAssumption == NoTag \notin Uids
ASSUME TagTicksAssumption == TagTicks \in Nat \ {0}
ASSUME PowerAssumption == DefaultPower \in ValidPowers

VARIABLES
  mpc,        \* next step of the main thread
  job,        \* the handler that called RDM_init or RD_init
  rpc,        \* next step of the reading thread, "off" when isRunning() is false
  bStopped, bError, bCreated,
  power,
  tmr,        \* what the TMR_Reader object has been through
  linkUp,     \* the reader module answers on the serial line
  mutex,      \* TRUE while the main thread holds RDM->Mutex
  taglist,    \* uids of the managed tags
  tagOnline,  \* T_ticks of the tags seen in the field, Absent if not in the map
  batch,      \* tags TMR_read found that the loop has not taken yet
  cur,        \* managed tag the reading thread holds a pointer to
  epcTag      \* tag UDP_cmd_tag_epc is working on

mainVars   == <<mpc, job>>
flags      == <<bStopped, bError>>
readerVars == <<bCreated, power, tmr>>
tagVars    == <<taglist, tagOnline>>
scanVars   == <<batch, cur>>
vars == <<mpc, job, rpc, bStopped, bError, bCreated, power, tmr, linkUp,
          mutex, taglist, tagOnline, batch, cur, epcTag>>

(* Not a count, and not one that a count without a floor runs into first.  *)
Absent == -2

MainSteps ==
  {"loop", "load", "parse", "flags", "endRestart",
   "destroy", "initStop", "initWait", "create", "connect", "params",
   "initRestart", "clear",
   "xmlStop", "xmlWait",
   "epcStop", "epcWait", "lock", "write", "unlock", "ack", "epcRestart",
   "quitStop", "quitWait", "free", "exited"}

ReaderSteps ==
  {"off", "check", "tickOnline", "tickManaged", "plan", "read",
   "tag", "get", "update", "purge", "sleep", "setError", "setStopped"}

Jobs == {"boot", "xml", "error", "power"}

(* null: new TMR_Reader(); then one value for each stage RD_init reaches.  *)
TmrStates == {"null", "created", "connected", "ready", "destroyed"}

-----------------------------------------------------------------------------
(* The constructors, up to the call of RDM_init in iRDM::iRDM.  bError is  *)
(* left uninitialised.                                                     *)
Init ==
  /\ mpc = "load" /\ job = "boot"
  /\ rpc = "off"
  /\ bStopped = FALSE /\ bError \in BOOLEAN /\ bCreated = FALSE
  /\ power = DefaultPower
  /\ tmr = "null"
  /\ linkUp \in BOOLEAN
  /\ mutex = FALSE
  /\ taglist = {}
  /\ tagOnline = [u \in Uids |-> Absent]
  /\ batch = {} /\ cur = NoTag /\ epcTag = NoTag

Goto(from, to) == mpc = from /\ mpc' = to

-----------------------------------------------------------------------------
(* RD_stop and RD_restart (ireader.h), with the place they are called from *)
(* and the one they return to.  start() does nothing on a running thread.  *)

(* Faulty variant: the flag is set but the thread is not waited for.       *)
RD_stopNoWait(from, wait, to) ==
  /\ \/ Goto(from, wait) /\ bStopped' = TRUE
     \/ Goto(wait, to) /\ UNCHANGED bStopped
  /\ UNCHANGED <<job, rpc, bError, readerVars, linkUp, mutex, tagVars, scanVars, epcTag>>

RD_stop(from, wait, to) ==
  /\ \/ Goto(from, wait) /\ bStopped' = TRUE
     \/ Goto(wait, to) /\ rpc = "off" /\ UNCHANGED bStopped
  /\ UNCHANGED <<job, rpc, bError, readerVars, linkUp, mutex, tagVars, scanVars, epcTag>>

RD_restart(from, to) ==
  /\ Goto(from, to)
  /\ bStopped' = FALSE
  /\ rpc' = IF rpc = "off" THEN "check" ELSE rpc
  /\ UNCHANGED <<job, bError, readerVars, linkUp, mutex, tagVars, scanVars, epcTag>>

-----------------------------------------------------------------------------
(* iReader::RD_init.  The uri is the same at every call on the target, so  *)
(* only force and bCreated decide whether the reader is created anew.      *)

RD_initEntry(force) ==
  IF bCreated THEN IF force THEN "destroy" ELSE "flags" ELSE "initStop"

(* Both kinds of caller: RDM_init goes on with the tag flags, RD_setPower  *)
(* and RD_handleError are done.                                            *)
RD_initReturn == IF job \in {"boot", "xml"} THEN "flags" ELSE "loop"

TMR_destroy ==
  /\ Goto("destroy", "initStop")
  /\ tmr' = "destroyed"
  /\ UNCHANGED <<job, rpc, flags, bCreated, power, linkUp, mutex, tagVars, scanVars, epcTag>>

(* Creating the reader object may fail only when the module is not there.  *)
TMR_create ==
  /\ mpc = "create"
  /\ \/ mpc' = "connect" /\ tmr' = "created" /\ bCreated' = TRUE
     \/ ~linkUp /\ mpc' = RD_initReturn /\ UNCHANGED <<tmr, bCreated>>
  /\ UNCHANGED <<job, rpc, flags, power, linkUp, mutex, tagVars, scanVars, epcTag>>

TMR_connect ==
  /\ mpc = "connect"
  /\ IF linkUp THEN mpc' = "params" /\ tmr' = "connected"
               ELSE mpc' = RD_initReturn /\ UNCHANGED tmr
  /\ UNCHANGED <<job, rpc, flags, bCreated, power, linkUp, mutex, tagVars, scanVars, epcTag>>

(* Some twenty TMR_paramGet/TMR_paramSet calls, each with its own return.  *)
TMR_params ==
  /\ mpc = "params"
  /\ IF linkUp /\ power \in ValidPowers
     THEN mpc' = "initRestart" /\ tmr' = "ready"
     ELSE mpc' = RD_initReturn /\ UNCHANGED tmr
  /\ UNCHANGED <<job, rpc, flags, bCreated, power, linkUp, mutex, tagVars, scanVars, epcTag>>

ClearError ==
  /\ mpc = "clear" /\ mpc' = RD_initReturn
  /\ bError' = FALSE
  /\ UNCHANGED <<job, rpc, bStopped, readerVars, linkUp, mutex, tagVars, scanVars, epcTag>>

InitStop    == RD_stop("initStop", "initWait", "create")
InitRestart == RD_restart("initRestart", "clear")

RD_init == \/ TMR_destroy \/ InitStop \/ TMR_create \/ TMR_connect \/ TMR_params
           \/ InitRestart \/ ClearError

-----------------------------------------------------------------------------
(* iRDM::RDM_init, from the constructor and from OnFileDone.               *)

RDM_initReturn == IF job = "boot" THEN "loop" ELSE "endRestart"

(* Cfg_load: without a file nothing happens, otherwise the old tags are    *)
(* deleted before the new ones are read.                                   *)
Cfg_open ==
  /\ mpc = "load"
  /\ \/ mpc' = RDM_initReturn /\ UNCHANGED taglist
     \/ mpc' = "parse" /\ taglist' = {}
  /\ UNCHANGED <<job, rpc, flags, readerVars, linkUp, mutex, tagOnline, scanVars, epcTag>>

(* The tags read before a parse error stay in the list.                    *)
Cfg_parse ==
  /\ mpc = "parse"
  /\ taglist' \in SUBSET Uids
  /\ mpc' \in {RDM_initReturn, RD_initEntry(FALSE)}
  /\ UNCHANGED <<job, rpc, flags, readerVars, linkUp, mutex, tagOnline, scanVars, epcTag>>

SetFlags ==
  /\ mpc = "flags" /\ mpc' = RDM_initReturn
  /\ UNCHANGED <<job, rpc, flags, readerVars, linkUp, mutex, tagVars, scanVars, epcTag>>

RDM_init == Cfg_open \/ Cfg_parse \/ SetFlags

-----------------------------------------------------------------------------
(* The handlers of the event loop that touch the reader.                   *)

(* Faulty variant: the tags are reloaded under the running thread.         *)
OnFileDoneNoStop ==
  /\ Goto("loop", "load") /\ job' = "xml"
  /\ UNCHANGED <<rpc, flags, readerVars, linkUp, mutex, tagVars, scanVars, epcTag>>

(* iBC::OnFileDone(true) for an XML file.                                  *)
OnFileDone ==
  /\ Goto("loop", "xmlStop") /\ job' = "xml"
  /\ UNCHANGED <<rpc, flags, readerVars, linkUp, mutex, tagVars, scanVars, epcTag>>

XmlStop    == RD_stop("xmlStop", "xmlWait", "load")
XmlRestart == RD_restart("endRestart", "loop")

(* Faulty variants: no force, so that RD_init finds nothing to do; the     *)
(* flag cleared before the reader is back.                                 *)
RD_handleErrorNoForce ==
  /\ mpc = "loop" /\ bError
  /\ mpc' = (IF bCreated THEN "loop" ELSE "initStop") /\ job' = "error"
  /\ UNCHANGED <<rpc, flags, readerVars, linkUp, mutex, tagVars, scanVars, epcTag>>

RD_handleErrorClearFirst ==
  /\ mpc = "loop" /\ bError /\ bError' = FALSE
  /\ mpc' = RD_initEntry(TRUE) /\ job' = "error"
  /\ UNCHANGED <<rpc, bStopped, readerVars, linkUp, mutex, tagVars, scanVars, epcTag>>

(* The one-second timer; RD_handleError calls RD_init(true).               *)
RD_handleError ==
  /\ mpc = "loop" /\ bError
  /\ mpc' = RD_initEntry(TRUE) /\ job' = "error"
  /\ UNCHANGED <<rpc, flags, readerVars, linkUp, mutex, tagVars, scanVars, epcTag>>

(* HoldingRegister_RDPOWER written by a Modbus master.                     *)
RD_setPower ==
  /\ mpc = "loop" /\ power' \in PowerRequests
  /\ mpc' = RD_initEntry(TRUE) /\ job' = "power"
  /\ UNCHANGED <<rpc, flags, bCreated, tmr, linkUp, mutex, tagVars, scanVars, epcTag>>

(* Faulty variants: the thread is not stopped; Mutex is taken too early.   *)
UDP_cmd_tag_epcNoStop ==
  /\ Goto("loop", "lock") /\ epcTag' \in Uids
  /\ UNCHANGED <<job, rpc, flags, readerVars, linkUp, mutex, tagVars, scanVars>>

UDP_cmd_tag_epcLockFirst ==
  /\ Goto("loop", "epcStop") /\ epcTag' \in Uids
  /\ ~mutex /\ mutex' = TRUE
  /\ UNCHANGED <<job, rpc, flags, readerVars, linkUp, tagVars, scanVars>>

(* iBC::UDP_cmd_tag_epc.                                                   *)
UDP_cmd_tag_epc ==
  /\ Goto("loop", "epcStop") /\ epcTag' \in Uids
  /\ UNCHANGED <<job, rpc, flags, readerVars, linkUp, mutex, tagVars, scanVars>>

EpcStop == RD_stop("epcStop", "epcWait", "lock")

EpcLock ==
  /\ Goto("lock", "write")
  /\ ~mutex /\ mutex' = TRUE
  /\ epcTag' = IF tagOnline[epcTag] = Absent THEN NoTag ELSE epcTag
  /\ UNCHANGED <<job, rpc, flags, readerVars, linkUp, tagVars, scanVars>>

(* wirteEpc on the reader, when the tag is in the field.                   *)
EpcWrite ==
  /\ Goto("write", "unlock")
  /\ UNCHANGED <<job, rpc, flags, readerVars, linkUp, mutex, tagVars, scanVars, epcTag>>

EpcUnlock ==
  /\ Goto("unlock", "ack")
  /\ mutex' = FALSE
  /\ UNCHANGED <<job, rpc, flags, readerVars, linkUp, tagVars, scanVars, epcTag>>

(* The answer reads uid and epc through the tag pointer, Mutex released.   *)
EpcAck ==
  /\ Goto("ack", "epcRestart")
  /\ epcTag' = NoTag
  /\ UNCHANGED <<job, rpc, flags, readerVars, linkUp, mutex, tagVars, scanVars>>

EpcRestart == RD_restart("epcRestart", "loop")

(* iRDM::~iRDM, then ~iReader.                                             *)
Quit ==
  /\ Goto("loop", "quitStop")
  /\ UNCHANGED <<job, rpc, flags, readerVars, linkUp, mutex, tagVars, scanVars, epcTag>>

QuitStop == RD_stop("quitStop", "quitWait", "free")

QuitFree ==
  /\ Goto("free", "exited")
  /\ tmr' = "destroyed"
  /\ UNCHANGED <<job, rpc, flags, bCreated, power, linkUp, mutex, tagVars, scanVars, epcTag>>

-----------------------------------------------------------------------------
(* iReader::run.                                                           *)

Step(from, to) ==
  /\ rpc = from /\ rpc' = to
  /\ UNCHANGED <<mainVars, readerVars, linkUp, mutex, taglist, epcTag>>

(* Outcomes of an operation on the reader object.  A fully configured one  *)
(* answers while the link is up, but may still report an error (a tag left *)
(* the field); one that RD_init gave up on may do either; one destroyed    *)
(* under the thread is undefined behaviour and may do either.              *)
TmrMaySucceed == linkUp /\ tmr \notin {"null", "created"}

CheckStopped ==
  /\ Step("check", IF bStopped THEN "off" ELSE "tickOnline")
  /\ UNCHANGED <<flags, tagOnline, scanVars>>

(* Faulty variant: the counter runs past zero.                             *)
TickOnlineNoFloor ==
  /\ ~mutex
  /\ Step("tickOnline", "tickManaged")
  /\ tagOnline' = [u \in Uids |-> IF tagOnline[u] # Absent THEN tagOnline[u] - 1 ELSE Absent]
  /\ UNCHANGED <<flags, scanVars>>

TickOnline ==
  /\ ~mutex
  /\ Step("tickOnline", "tickManaged")
  /\ tagOnline' = [u \in Uids |-> IF tagOnline[u] > 0 THEN tagOnline[u] - 1 ELSE tagOnline[u]]
  /\ UNCHANGED <<flags, scanVars>>

TickManaged ==
  /\ Step("tickManaged", "plan")
  /\ UNCHANGED <<flags, tagOnline, scanVars>>

switchplans ==
  /\ \/ TmrMaySucceed /\ Step("plan", "read")
     \/ Step("plan", "setError")
  /\ UNCHANGED <<flags, tagOnline, scanVars>>

TMR_read ==
  /\ \/ TmrMaySucceed /\ Step("read", "tag") /\ batch' \in SUBSET Uids
     \/ Step("read", "setError") /\ batch' = {}
  /\ UNCHANGED <<flags, tagOnline, cur>>

(* One tag of the result: its TID is read, then it enters the online list. *)
NextTag ==
  /\ ~mutex /\ TmrMaySucceed
  /\ Step("tag", "get")
  /\ \E u \in batch :
       /\ cur' = u
       /\ batch' = batch \ {u}
       /\ tagOnline' = [tagOnline EXCEPT ![u] = TagTicks]
  /\ UNCHANGED flags

TagFails ==
  /\ batch # {}
  /\ Step("tag", "setError") /\ batch' = {}
  /\ UNCHANGED <<flags, tagOnline, cur>>

NoMoreTags ==
  /\ batch = {}
  /\ Step("tag", "purge")
  /\ UNCHANGED <<flags, tagOnline, scanVars>>

Tag_get ==
  /\ Step("get", "update")
  /\ cur' = IF cur \in taglist THEN cur ELSE NoTag
  /\ UNCHANGED <<flags, tagOnline, batch>>

(* Ticks, rssi and temperature of the managed tag, through the pointer.    *)
UpdateTag ==
  /\ Step("update", "tag")
  /\ cur' = NoTag
  /\ UNCHANGED <<flags, tagOnline, batch>>

Purge ==
  /\ ~mutex
  /\ Step("purge", "sleep")
  /\ tagOnline' = [u \in Uids |-> IF tagOnline[u] = 0 THEN Absent ELSE tagOnline[u]]
  /\ UNCHANGED <<flags, scanVars>>

Sleep ==
  /\ Step("sleep", "check")
  /\ UNCHANGED <<flags, tagOnline, scanVars>>

(* iReader::handleError, after which run returns.                          *)
handleError ==
  /\ \/ Step("setError", "setStopped") /\ bError' = TRUE /\ UNCHANGED bStopped
     \/ Step("setStopped", "off") /\ bStopped' = TRUE /\ UNCHANGED bError
  /\ UNCHANGED <<tagOnline, scanVars>>

run == \/ CheckStopped \/ TickOnline \/ TickManaged \/ switchplans \/ TMR_read
       \/ NextTag \/ TagFails \/ NoMoreTags \/ Tag_get \/ UpdateTag
       \/ Purge \/ Sleep \/ handleError

-----------------------------------------------------------------------------
(* The cable or the module fails and comes back.                           *)
LinkChange ==
  /\ linkUp' = ~linkUp
  /\ UNCHANGED <<mainVars, rpc, flags, readerVars, mutex, tagVars, scanVars, epcTag>>

Handlers == OnFileDone \/ RD_setPower \/ UDP_cmd_tag_epc \/ Quit

(* The steps that a handler, once begun, goes through to its end.          *)
Proceed == \/ RD_init \/ RDM_init \/ XmlStop \/ XmlRestart
           \/ EpcStop \/ EpcLock \/ EpcWrite \/ EpcUnlock \/ EpcAck \/ EpcRestart
           \/ QuitStop \/ QuitFree

Next == Handlers \/ RD_handleError \/ Proceed \/ run \/ LinkChange

Spec == Init /\ [][Next]_vars

(* Both threads are scheduled, and a timer that is due is not starved by   *)
(* the other events of the loop.  Neither requests nor repairs are owed.   *)
Fairness == /\ WF_vars(run)
            /\ WF_vars(Proceed)
            /\ SF_vars(RD_handleError)

FairSpec == Spec /\ Fairness

-----------------------------------------------------------------------------
(* Properties.                                                             *)

(* Every variable has a value of its type.                                 *)
TypeOK ==
  /\ mpc \in MainSteps /\ job \in Jobs /\ rpc \in ReaderSteps
  /\ bStopped \in BOOLEAN /\ bError \in BOOLEAN /\ bCreated \in BOOLEAN
  /\ power \in ValidPowers \cup PowerRequests
  /\ tmr \in TmrStates
  /\ linkUp \in BOOLEAN /\ mutex \in BOOLEAN
  /\ taglist \in SUBSET Uids
  /\ tagOnline \in [Uids -> {Absent} \cup 0..TagTicks]
  /\ batch \in SUBSET Uids
  /\ cur \in Uids \cup {NoTag} /\ epcTag \in Uids \cup {NoTag}

TmrSetup  == {"create", "connect", "params"}
Reloading == {"load", "parse"}
EpcSteps  == {"lock", "write", "unlock", "ack"}
Exclusive == TmrSetup \cup Reloading \cup EpcSteps \cup {"initRestart", "epcRestart", "free"}

StopSteps == {"initStop", "initWait", "xmlStop", "xmlWait",
              "epcStop", "epcWait", "quitStop", "quitWait"}

(* Cfg_load deletes and rebuilds taglist, which the reading thread walks   *)
(* without a lock (ireader.cpp:300, 380, 447), only while it is stopped.   *)
TagListRebuiltAlone == mpc \in Reloading => rpc = "off"

(* The main thread sets up the reader, writes a tag through it or frees it *)
(* only while the reading thread is stopped: TMR_Reader has no lock.  (The *)
(* TMR_destroy of RD_init is the exception, see NoUseAfterDestroy.)        *)
TmrUsedAlone == mpc \in TmrSetup \cup {"write", "free"} => rpc = "off"

(* A tag pointer is used only while the tag exists: the thread's pointer   *)
(* into taglist (ireader.cpp:380-415), and the pointer into tagOnline that *)
(* UDP_cmd_tag_epc reads after it has released Mutex (ibc.cpp:492-496).    *)
NoDanglingTag ==
  /\ rpc = "update" /\ cur # NoTag => cur \in taglist
  /\ mpc \in {"write", "unlock", "ack"} /\ epcTag # NoTag => tagOnline[epcTag] # Absent

(* An error the thread raised is withdrawn only when the reader has been   *)
(* set up completely: a failed re-init leaves bError for the next second.  *)
ErrorClearedOnlyWhenReady == [][bError /\ ~bError' => tmr = "ready"]_vars

(* RD_stop's busy wait ends: the thread always comes back to bStopped, in  *)
(* particular it never waits for a Mutex the waiting main thread holds.    *)
StopReturns ==
  mpc \in {"initWait", "xmlWait", "epcWait", "quitWait"}
    ~> mpc \in {"create", "load", "lock", "free"}

(* Once the module answers and a valid power is set, a reader whose error  *)
(* is flagged when the event loop gets to run is started again (or the     *)
(* program ends).                                                          *)
ErrorRecovers ==
  <>[](linkUp /\ power \in ValidPowers)
    => [](bError /\ mpc = "loop" => <>(rpc # "off" \/ mpc \in {"quitStop", "quitWait", "free", "exited"}))

(* The stop and restart calls implement the abstract gate.                 *)
Gate == INSTANCE StopGate WITH
          worker <- IF rpc = "off" THEN "off" ELSE "running",
          main   <- IF mpc \in Exclusive THEN "in"
                    ELSE IF mpc \in StopSteps THEN "asking" ELSE "out"

(* RD_stop lets the main thread in alone, and in every case eventually.    *)
GateFairSpec == Gate!FairSpec

(* "stop reader thread when re-init reader" (ireader.cpp:44): the thread   *)
(* never operates on a reader that RD_init has destroyed.                  *)
NoUseAfterDestroy == rpc \in {"plan", "read", "tag", "update"} => tmr # "destroyed"

(* "re-init reader when error happen" (irdm.cpp:397): a reader set up to   *)
(* the end whose thread is gone is flagged for the one-second timer.       *)
DeadReaderFlagged == mpc = "loop" /\ rpc = "off" /\ tmr = "ready" => bError
=============================================================================
