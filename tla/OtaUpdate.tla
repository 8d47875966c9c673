------------------------------ MODULE OtaUpdate ------------------------------
(***************************************************************************)
(* How the daemon replaces its own program: the cloud asks over MQTT, the  *)
(* archive is fetched over HTTP, the program that runs is moved away, the  *)
(* archive unpacked and the service restarted; or the PC tool has sent an  *)
(* archive (OnUpgradeRdm).  While an archive is fetched the daemon's three *)
(* timers are stopped, and with them the one that reconnects to the cloud. *)
(*                                                                         *)
(* The request in flight is not remembered: each makes an OTA object with  *)
(* a handle of its own on the file the url names, whatever others do.      *)
(* Archives are sequences of units, a unit being the name of its archive.  *)
(***************************************************************************)
EXTENDS Integers, Sequences

CONSTANTS
  Fetched,      \* updates the cloud asks for, once each
  Uploaded,     \* updates the PC tool sends (TarFile), once each
  Factory,      \* the version the device starts with
  Nothing,      \* no version, no program; the contents of a broken unit
  Names, Name,  \* file names, and the one each update is saved under
  Size,         \* units of each archive, as the cloud announces them
  RDM_TICKS,    \* 3 in irdm.h
  Faults        \* faults that may happen, once each

Updates == Fetched \cup Uploaded
Versions == Updates \cup {Factory}
AllFaults == {"badUrl", "noFile", "netError", "wrongSize", "corrupt", "power"}

ASSUME UpdatesAssumption ==
  Fetched \cap Uploaded = {} /\ Factory \notin Updates /\ Nothing \notin Versions
ASSUME SizeAssumption == Name \in [Updates -> Names] /\ Size \in [Updates -> Nat \ {0}]
ASSUME TicksAssumption == RDM_TICKS \in Nat \ {0}
ASSUME FaultsAssumption == Faults \subseteq AllFaults

VARIABLES
  mqtt,      \* client->state()
  ticks,     \* RDM_ticks
  timers,    \* the three timers run
  stage,     \* of each update
  got,       \* units written through its handle
  files,     \* contents of the files
  app,       \* the program on the disk: iTmsRdm
  backup,    \* iTmsRdm.bk
  running,   \* the version that runs; Nothing: the service cannot start
  cloud,     \* the version the cloud was last told
  overlap,   \* two fetches of one file have met (history)
  faults     \* the faults that have happened

conn == <<mqtt, ticks, cloud>>
disk == <<app, backup>>
vars == <<conn, timers, stage, got, files, disk, running, overlap, faults>>

Fault(k) == k \in Faults \ faults /\ faults' = faults \cup {k}

Whole(u) == [i \in 1..Size[u] |-> u]

(* Faulty variant: each write starts the file anew.                        *)
WriteAnew(s, i, x) == <<x>>

(* Write x at offset i of s; a gap before it reads as broken.              *)
WriteAt(s, i, x) ==
  [j \in 1..(IF i > Len(s) THEN i ELSE Len(s)) |->
     IF j = i THEN x ELSE IF j <= Len(s) THEN s[j] ELSE Nothing]

(* unzip -o, tar -xzvf: of an archive that is not whole no program, or one *)
(* that does not run, comes out; their result is not looked at.            *)
Unpacked(s) == IF \E u \in Updates : s = Whole(u) THEN s[1] ELSE Nothing

(* The event loop runs, not system(): OTA waits in delayms, which handles  *)
(* events; OnUpgradeRdm does not.                                          *)
EventLoop ==
  /\ running # Nothing
  /\ \A u \in Updates : stage[u] # "moved" /\ (u \in Uploaded => stage[u] # "unpacked")

Fetching(u) == stage[u] = "fetching"

-----------------------------------------------------------------------------
Init ==
  /\ mqtt = "connecting" /\ ticks = RDM_TICKS /\ timers = TRUE
  /\ stage = [u \in Updates |-> "none"] /\ got = [u \in Updates |-> 0]
  /\ files = [f \in Names |-> <<>>]
  /\ app = Factory /\ backup = Nothing /\ running = Factory
  /\ cloud = Nothing /\ overlap = FALSE /\ faults = {}

-----------------------------------------------------------------------------
(* The connection to the cloud.                                            *)

(* OnStateChanged: on Connected the version is published.                  *)
Connected ==
  /\ EventLoop /\ mqtt = "connecting"
  /\ mqtt' = "connected" /\ cloud' = running
  /\ UNCHANGED <<ticks, timers, stage, got, files, disk, running, overlap, faults>>

Disconnected ==
  /\ EventLoop /\ mqtt # "disconnected" /\ mqtt' = "disconnected"
  /\ UNCHANGED <<ticks, cloud, timers, stage, got, files, disk, running, overlap, faults>>

(* Faulty variant: RDM_ticks is not set anew for the next attempt.         *)
CountDownOnce ==
  /\ ticks > 0 /\ ticks' = ticks - 1
  /\ IF ticks = 1 THEN mqtt' = "connecting" ELSE UNCHANGED mqtt

(* At zero the client disconnects, even from an attempt under way, and     *)
(* connects anew.                                                          *)
CountDown ==
  IF ticks = 1
  THEN ticks' = RDM_TICKS /\ mqtt' = "connecting"
  ELSE ticks > 0 /\ ticks' = ticks - 1 /\ UNCHANGED mqtt

IOT_tick ==
  /\ EventLoop /\ timers
  /\ IF mqtt = "connected" THEN ticks' = RDM_TICKS /\ UNCHANGED mqtt ELSE CountDown
  /\ UNCHANGED <<cloud, timers, stage, got, files, disk, running, overlap, faults>>

-----------------------------------------------------------------------------
(* Fetching an archive.                                                    *)

(* OTA_Process: the timers are stopped, then OTAstart.  An invalid url     *)
(* leaves them stopped; without a file name, or a file, they start again.  *)
OTA_Process(u) ==
  /\ EventLoop /\ mqtt = "connected" /\ stage[u] = "none"
  /\ \/ /\ Fault("badUrl") /\ timers' = FALSE
        /\ stage' = [stage EXCEPT ![u] = "ended"] /\ UNCHANGED <<files, overlap>>
     \/ /\ Fault("noFile") /\ timers' = TRUE
        /\ stage' = [stage EXCEPT ![u] = "ended"] /\ UNCHANGED <<files, overlap>>
     \/ /\ timers' = FALSE
        /\ stage' = [stage EXCEPT ![u] = "fetching"]
        /\ files' = [files EXCEPT ![Name[u]] = <<>>]
        /\ overlap' = (overlap \/ \E v \in Updates : Fetching(v) /\ Name[v] = Name[u])
        /\ UNCHANGED faults
  /\ UNCHANGED <<conn, got, disk, running>>

(* What came is written where this handle is, not at the end of the file.  *)
httpReadyRead(u) ==
  /\ EventLoop /\ Fetching(u) /\ got[u] < Size[u]
  /\ got' = [got EXCEPT ![u] = @ + 1]
  /\ \/ files' = [files EXCEPT ![Name[u]] = WriteAt(@, got[u] + 1, u)] /\ UNCHANGED faults
     \/ Fault("corrupt") /\ files' = [files EXCEPT ![Name[u]] = WriteAt(@, got[u] + 1, Nothing)]
  /\ UNCHANGED <<conn, timers, stage, disk, running, overlap>>

(* Faulty variant: a failure is reported and the timers stay stopped.      *)
FetchFailedStopped(u) ==
  /\ EventLoop /\ Fetching(u) /\ Fault("netError")
  /\ stage' = [stage EXCEPT ![u] = "ended"]
  /\ UNCHANGED <<conn, timers, got, files, disk, running, overlap>>

(* httpFinished with reply->error(): reported, the timers start again.     *)
FetchFailed(u) ==
  /\ EventLoop /\ Fetching(u) /\ Fault("netError")
  /\ stage' = [stage EXCEPT ![u] = "ended"] /\ timers' = TRUE
  /\ UNCHANGED <<conn, got, files, disk, running, overlap>>

(* The reply ends with all of the archive, or with one that is shorter     *)
(* than the cloud announced.                                               *)
ReplyComplete(u) ==
  \/ got[u] = Size[u] /\ UNCHANGED faults
  \/ got[u] < Size[u] /\ Fault("wrongSize")

(* Faulty variant: the size of the file is not compared.                   *)
AnySize(u) == TRUE

SizeMatches(u) == Len(files[Name[u]]) = Size[u]

(* Faulty variant: the program is copied away after the archive is there.  *)
MoveAwayLate(u) == backup' = Unpacked(files[Name[u]]) /\ app' = Nothing

(* mv iTmsRdm iTmsRdm.bk, which fails when there is no iTmsRdm.            *)
MoveAway(u) ==
  IF app = Nothing THEN UNCHANGED disk ELSE backup' = app /\ app' = Nothing

(* httpFinished without error.  A file of another size is left alone, and  *)
(* so are the timers.                                                      *)
httpFinished(u) ==
  /\ EventLoop /\ Fetching(u) /\ ReplyComplete(u)
  /\ IF SizeMatches(u)
     THEN stage' = [stage EXCEPT ![u] = "moved"] /\ MoveAway(u)
     ELSE stage' = [stage EXCEPT ![u] = "ended"] /\ UNCHANGED disk
  /\ UNCHANGED <<conn, timers, got, files, running, overlap>>

-----------------------------------------------------------------------------
(* Installing.                                                             *)

(* fileDone(true) of a TarFile: the archive is whole (FileTransfer).       *)
OnUpgradeRdm(u) ==
  /\ EventLoop /\ stage[u] = "none"
  /\ files' = [files EXCEPT ![Name[u]] = Whole(u)]
  /\ overlap' = (overlap \/ \E v \in Updates : Fetching(v) /\ Name[v] = Name[u])
  /\ stage' = [stage EXCEPT ![u] = "moved"] /\ MoveAway(u)
  /\ UNCHANGED <<conn, timers, got, running, faults>>

Unpack(u) ==
  /\ stage[u] = "moved" /\ stage' = [stage EXCEPT ![u] = "unpacked"]
  /\ app' = Unpacked(files[Name[u]])
  /\ UNCHANGED <<conn, timers, got, files, backup, running, overlap, faults>>

(* A new process: the constructors, IOT_init and Tmr_start.  What the old  *)
(* one was fetching stays as it is on the disk.                            *)
Boot(program) ==
  /\ running' = program
  /\ mqtt' = "connecting" /\ ticks' = RDM_TICKS /\ timers' = TRUE
  /\ stage' = [u \in Updates |-> IF stage[u] = "none" THEN "none" ELSE "ended"]
  /\ UNCHANGED <<cloud, got, files, overlap>>

(* systemctl restart rdm, also from inside the delay of another update.    *)
RestartService ==
  /\ \E u \in Updates : stage[u] = "unpacked"
  /\ \A u \in Updates : stage[u] # "moved"
  /\ Boot(app) /\ UNCHANGED <<disk, faults>>

(* Power fails.  What was unpacked before the sync may be lost; the .bk is *)
(* never put back.                                                         *)
PowerCut ==
  /\ Fault("power")
  /\ \/ UNCHANGED app
     \/ app' = Nothing /\ \E u \in Updates : stage[u] = "unpacked"
  /\ Boot(app') /\ UNCHANGED backup

-----------------------------------------------------------------------------
Next ==
  \/ Connected \/ Disconnected \/ IOT_tick
  \/ \E u \in Fetched :
       \/ OTA_Process(u) \/ httpReadyRead(u) \/ FetchFailed(u) \/ httpFinished(u)
  \/ \E u \in Uploaded : OnUpgradeRdm(u)
  \/ \E u \in Updates : Unpack(u)
  \/ RestartService \/ PowerCut

(* Timers fire and replies end, by arriving or by failing; of the attempts *)
(* to connect one succeeds in the time it is given, if there are always    *)
(* more.  The cloud and the user ask when they like, links break or not.   *)
Fairness ==
  /\ SF_vars(Connected) /\ WF_vars(IOT_tick)
  /\ \A u \in Fetched : SF_vars(httpReadyRead(u)) /\ SF_vars(httpFinished(u))
  /\ \A u \in Updates : WF_vars(Unpack(u))
  /\ WF_vars(RestartService)

Spec == Init /\ [][Next]_vars /\ Fairness

-----------------------------------------------------------------------------
(* The type invariant; the timers are stopped only after a request.        *)
TypeOK ==
  /\ mqtt \in {"disconnected", "connecting", "connected"}
  /\ ticks \in 1..RDM_TICKS
  /\ stage \in [Updates -> {"none", "fetching", "moved", "unpacked", "ended"}]
  /\ got \in [Updates -> Nat] /\ \A u \in Updates : got[u] <= Size[u]
  /\ DOMAIN files = Names /\ \A f \in Names : files[f] \in Seq(Updates \cup {Nothing})
  /\ {app, backup, running, cloud} \subseteq Versions \cup {Nothing}
  /\ overlap \in BOOLEAN /\ faults \subseteq Faults
  /\ timers \in BOOLEAN /\ (timers \/ \E u \in Fetched : stage[u] # "none")

(* The device is left without a program only if an archive was corrupted,  *)
(* the power failed, or two fetches wrote one file: never by a connection  *)
(* that breaks, a file cut short, a bad request, or several updates at     *)
(* once under names of their own.                                          *)
NeverBricked ==
  running = Nothing => overlap \/ faults \cap {"corrupt", "power"} # {}

(* What is kept in iTmsRdm.bk is the program that was running ("backup the *)
(* old one", OTA.cpp:123), unless a second update is installed while the   *)
(* first waits in delayms.                                                 *)
BackupIsOld ==
  [][backup' # backup => backup' = running \/ \E u \in Updates : stage[u] = "unpacked"]_vars

(* The timers run again, except after an invalid url or a file of another  *)
(* size, when the daemon goes on without them: no retries of the reader    *)
(* (RD_handleError), no uploads, no reconnection.                          *)
MonitoringResumes ==
  ~timers ~> \/ timers \/ running = Nothing
             \/ overlap \/ faults \cap {"badUrl", "wrongSize"} # {}

(* The cloud learns the version that runs, however often the connection    *)
(* breaks, as long as the timers come back (MonitoringResumes).            *)
VersionKnown ==
  \A v \in Versions :
    running = v ~> \/ cloud = v \/ running # v
                   \/ overlap \/ faults \cap {"badUrl", "wrongSize"} # {}

(* An update alone that meets no fault is installed and runs.              *)
UpdateInstalled ==
  \A u \in Fetched :
    Fetching(u) ~> \/ running = u \/ faults # {}
                   \/ \E v \in Updates \ {u} : stage[v] # "none"
=============================================================================
