---------------------------- MODULE OtaUpdateProofs ----------------------------
(***************************************************************************)
(* Theorems about OtaUpdate, for any updates, any size of an archive and   *)
(* any faults: unless two updates have met over a file, or one was         *)
(* damaged, each file of the device is what its step made it.              *)
(***************************************************************************)
EXTENDS OtaUpdate, SequenceTheorems, TLAPS

(* The first n units of the archive of u.                                  *)
Copies(u, n) == [i \in 1..n |-> u]

(* No update has met another over a file, none was damaged.                *)
Clean == ~overlap /\ faults \cap {"corrupt", "power"} = {}

(* What is not asked for has not been written.                             *)
Fresh == \A u \in Updates : stage[u] = "none" => got[u] = 0

(* Without an overlap a file has one writer.                               *)
OneWriter ==
  ~overlap => \A u, v \in Updates : Fetching(u) /\ Fetching(v) /\ Name[u] = Name[v] => u = v

(* A file that is written holds what its writer got; one that is installed *)
(* is whole; and between the move and the unpacking alone there is no      *)
(* program.                                                                *)
Contents ==
  Clean =>
    /\ \A u \in Updates : Fetching(u) => files[Name[u]] = Copies(u, got[u])
    /\ \A u \in Updates : stage[u] = "moved" => files[Name[u]] = Whole(u)
    /\ app = Nothing => \E u \in Updates : stage[u] = "moved"
    /\ running # Nothing

(* The program on the disk runs, unless an update waits for the restart.   *)
Program ==
  app # Nothing => app = running \/ \E u \in Updates : stage[u] = "unpacked"

IInv == TypeOK /\ Fresh /\ OneWriter /\ Contents /\ Program

(* The two halves of TypeOK: what is about the flags, and the rest.        *)
Stages == {"none", "fetching", "moved", "unpacked", "ended"}

FlagsOK ==
  /\ overlap \in BOOLEAN
  /\ timers \in BOOLEAN /\ (timers \/ \E u \in Fetched : stage[u] # "none")

FilesOK == DOMAIN files = Names /\ \A f \in Names : files[f] \in Seq(Updates \cup {Nothing})

DataOK ==
  /\ mqtt \in {"disconnected", "connecting", "connected"}
  /\ ticks \in 1..RDM_TICKS
  /\ stage \in [Updates -> Stages]
  /\ got \in [Updates -> Nat] /\ \A u \in Updates : got[u] <= Size[u]
  /\ FilesOK
  /\ {app, backup, running, cloud} \subseteq Versions \cup {Nothing}
  /\ faults \subseteq Faults

(* TypeOK is both of them.                                                 *)
LEMMA Split == TypeOK <=> FlagsOK /\ DataOK
BY DEF TypeOK, FlagsOK, DataOK, FilesOK, Stages

-----------------------------------------------------------------------------
(* Lemmas about archives.                                                  *)

(* A whole archive is all its units, and has at least one.                 *)
LEMMA WholeCopies ==
  ASSUME NEW u \in Updates
  PROVE  /\ Whole(u) = Copies(u, Size[u]) /\ Size[u] \in Nat \ {0}
         /\ Name[u] \in Names
BY SizeAssumption DEF Whole, Copies

(* Copies are an archive.                                                  *)
LEMMA CopiesType ==
  ASSUME NEW u \in Updates, NEW n \in Nat
  PROVE  Copies(u, n) \in Seq(Updates \cup {Nothing}) /\ Len(Copies(u, n)) = n
<1> DEFINE c == Copies(u, n)  S == Updates \cup {Nothing}
<1>1. c \in [1..n -> S]
  BY DEF Copies
<1>2. c \in Seq(S)
  BY <1>1, SeqDef, Zenon
<1>3. Len(c) \in Nat /\ DOMAIN c = 1..Len(c)
  BY <1>2, LenProperties
<1>4. DOMAIN c = 1..n
  BY <1>1
<1>5. Len(c) = n
  <2>1. PICK m \in Nat : m = Len(c)
    BY <1>3
  <2>2. \A i \in Nat : i \in 1..m <=> i \in 1..n
    BY <1>3, <1>4, <2>1
  <2>3. m = n
    <3>1. m + 1 \in Nat /\ n + 1 \in Nat /\ ~(m + 1 \in 1..m) /\ ~(n + 1 \in 1..n)
      OBVIOUS
    <3>2. ~(m + 1 \in 1..n) /\ ~(n + 1 \in 1..m)
      BY <2>2, <3>1
    <3>3. QED BY <3>2
  <2>4. QED BY <2>1, <2>3
<1> HIDE DEF c
<1>6. QED BY <1>2, <1>5 DEF c

(* The unit that comes next, written where the handle is.                  *)
LEMMA WriteNext ==
  ASSUME NEW u \in Updates, NEW n \in Nat
  PROVE  WriteAt(Copies(u, n), n + 1, u) = Copies(u, n + 1)
<1>1. Len(Copies(u, n)) = n
  BY CopiesType
<1>2. (IF n + 1 > n THEN n + 1 ELSE n) = n + 1
  OBVIOUS
<1>3. WriteAt(Copies(u, n), n + 1, u) =
        [j \in 1..(n + 1) |-> IF j = n + 1 THEN u ELSE IF j <= n THEN Copies(u, n)[j] ELSE Nothing]
  BY <1>1, <1>2 DEF WriteAt
<1>4. \A j \in 1..(n + 1) :
        (IF j = n + 1 THEN u ELSE IF j <= n THEN Copies(u, n)[j] ELSE Nothing) = u
  BY DEF Copies
<1>5. QED BY <1>3, <1>4 DEF Copies

(* Whatever is written, the file has contents.                             *)
LEMMA WriteType ==
  ASSUME NEW s \in Seq(Updates \cup {Nothing}), NEW i \in Nat, NEW x \in Updates \cup {Nothing}
  PROVE  WriteAt(s, i, x) \in Seq(Updates \cup {Nothing})
<1> DEFINE S == Updates \cup {Nothing}
           m == IF i > Len(s) THEN i ELSE Len(s)
<1>1. Len(s) \in Nat /\ \A j \in 1..Len(s) : s[j] \in S
  BY LenProperties, ElementOfSeq
<1>2. m \in Nat
  BY <1>1
<1>3. \A j \in 1..m : (IF j = i THEN x ELSE IF j <= Len(s) THEN s[j] ELSE Nothing) \in S
  BY <1>1
<1>4. WriteAt(s, i, x) \in [1..m -> S]
  BY <1>3 DEF WriteAt
<1>5. PICK k \in Nat : k = m
  BY <1>2
<1> HIDE DEF m
<1>6. WriteAt(s, i, x) \in [1..k -> Updates \cup {Nothing}]
  BY <1>4, <1>5
<1>7. QED BY <1>5, <1>6, SeqDef, Zenon

(* What comes out of an archive: of a whole one its program.               *)
LEMMA UnpackedProgram ==
  ASSUME NEW s
  PROVE  /\ Unpacked(s) \in Versions \cup {Nothing}
         /\ \A u \in Updates : s = Whole(u) => Unpacked(s) = u /\ Unpacked(s) # Nothing
<1>1. \A u \in Updates : s = Whole(u) => s[1] = u
  BY WholeCopies DEF Whole
<1>2. QED BY <1>1, UpdatesAssumption DEF Unpacked, Versions

-----------------------------------------------------------------------------
(* The initial states satisfy the invariant.                               *)
LEMMA InitIInv == Init => IInv
<1> SUFFICES ASSUME Init PROVE IInv
  OBVIOUS
<1>1. FlagsOK
  BY DEF Init, FlagsOK
<1>2. <<>> \in Seq(Updates \cup {Nothing})
  BY EmptySeq
<1>3. DataOK
  BY <1>2, SizeAssumption, TicksAssumption DEF Init, DataOK, FilesOK, Stages, Versions
<1>4. Fresh /\ OneWriter /\ Contents /\ Program
  BY UpdatesAssumption DEF Init, Fresh, OneWriter, Contents, Program, Fetching, Versions
<1>5. QED BY <1>1, <1>3, <1>4, Split DEF IInv

-----------------------------------------------------------------------------
(* The steps: one lemma for each group of actions, which keeps all but the *)
(* flags.                                                                  *)
Kept == DataOK /\ Fresh /\ OneWriter /\ Contents /\ Program

(* No step mends an archive or takes back an overlap.                      *)
LEMMA StaysUnclean ==
  ASSUME faults \subseteq faults', overlap => overlap'
  PROVE  Clean' => Clean
BY DEF Clean

(* The connection to the cloud.                                            *)
LEMMA ConnectionKeeps == IInv /\ (Connected \/ Disconnected \/ IOT_tick) => Kept'
<1> SUFFICES ASSUME IInv, Connected \/ Disconnected \/ IOT_tick PROVE Kept'
  OBVIOUS
<1>1. UNCHANGED <<stage, got, files, disk, running, overlap, faults>>
  BY DEF Connected, Disconnected, IOT_tick
<1>2. Fresh' /\ OneWriter' /\ Contents' /\ Program'
  BY <1>1 DEF IInv, Fresh, OneWriter, Contents, Program, Fetching, Clean, disk
<1>3. /\ mqtt' \in {"disconnected", "connecting", "connected"}
      /\ ticks' \in 1..RDM_TICKS /\ cloud' \in Versions \cup {Nothing}
  BY Split, TicksAssumption DEF IInv, DataOK, Connected, Disconnected, IOT_tick, CountDown
<1>4. DataOK'
  BY <1>1, <1>3, Split DEF IInv, DataOK, FilesOK, disk
<1>5. QED BY <1>2, <1>4 DEF Kept

(* A request that leads to nothing; a fetch that fails.                    *)
LEMMA EndKeeps ==
  ASSUME IInv, NEW u \in Updates, stage[u] # "moved", stage[u] # "unpacked",
         stage' = [stage EXCEPT ![u] = "ended"],
         UNCHANGED <<conn, got, files, disk, running, overlap>>,
         faults \subseteq faults', faults' \subseteq Faults
  PROVE  Kept'
<1>1. /\ stage \in [Updates -> Stages] /\ stage' \in [Updates -> Stages]
      /\ stage'[u] = "ended" /\ \A v \in Updates : v # u => stage'[v] = stage[v]
  BY Split DEF IInv, DataOK, Stages
<1>2. DataOK'
  BY <1>1, Split DEF IInv, DataOK, FilesOK, conn, disk
<1>3. Fresh' /\ Program'
  BY <1>1 DEF IInv, Fresh, Program, disk
<1>4. OneWriter'
  BY <1>1 DEF IInv, OneWriter, Fetching
<1>5. Clean' => Clean
  BY DEF Clean
<1>6. Contents'
  BY <1>1, <1>5 DEF IInv, Contents, Fetching, disk
<1>7. QED BY <1>2, <1>3, <1>4, <1>6 DEF Kept

(* A fetch begins with an empty file.                                      *)
LEMMA FetchKeeps ==
  ASSUME IInv, NEW u \in Updates, EventLoop, stage[u] = "none",
         stage' = [stage EXCEPT ![u] = "fetching"],
         files' = [files EXCEPT ![Name[u]] = <<>>],
         overlap' = (overlap \/ \E v \in Updates : Fetching(v) /\ Name[v] = Name[u]),
         UNCHANGED <<conn, got, disk, running, faults>>
  PROVE  Kept'
<1>1. /\ stage \in [Updates -> Stages] /\ stage' \in [Updates -> Stages]
      /\ stage'[u] = "fetching" /\ \A v \in Updates : v # u => stage'[v] = stage[v]
  BY Split DEF IInv, DataOK, Stages
<1>2. /\ DOMAIN files' = Names /\ files'[Name[u]] = <<>>
      /\ \A f \in Names : f # Name[u] => files'[f] = files[f]
      /\ Name[u] \in Names
  BY Split, WholeCopies DEF IInv, DataOK, FilesOK
<1>3. FilesOK'
  BY <1>2, EmptySeq, Split DEF IInv, DataOK, FilesOK
<1>4. DataOK'
  BY <1>1, <1>3, Split DEF IInv, DataOK, conn, disk
<1>5. Fresh' /\ Program'
  BY <1>1 DEF IInv, Fresh, Program, disk
<1>6. ~overlap' => ~overlap /\ \A v \in Updates : Fetching(v) => Name[v] # Name[u]
  OBVIOUS
<1>7. OneWriter'
  BY <1>1, <1>6 DEF IInv, OneWriter, Fetching
<1>8. Contents'
  <2> SUFFICES ASSUME Clean' PROVE Contents'
    BY DEF Contents
  <2>1. Clean /\ \A v \in Updates : Fetching(v) => Name[v] # Name[u]
    BY <1>6 DEF Clean
  <2>2. got[u] = 0 /\ Copies(u, 0) = <<>>
    BY CopiesType, EmptySeq DEF IInv, Fresh
  <2>3. \A v \in Updates : Fetching(v)' => files'[Name[v]] = Copies(v, got[v])
    <3> SUFFICES ASSUME NEW v \in Updates, Fetching(v)' PROVE files'[Name[v]] = Copies(v, got[v])
      OBVIOUS
    <3>1. CASE v = u
      BY <1>2, <2>2, <3>1
    <3>2. CASE v # u
      <4>1. Fetching(v)
        BY <1>1, <3>2 DEF Fetching
      <4>2. Name[v] \in Names /\ Name[v] # Name[u]
        BY <2>1, <4>1, WholeCopies
      <4>3. QED BY <1>2, <2>1, <4>1, <4>2 DEF IInv, Contents
    <3>3. QED BY <3>1, <3>2
  <2>4. \A v \in Updates : stage'[v] # "moved"
    BY <1>1 DEF EventLoop
  <2>5. app # Nothing /\ running # Nothing
    BY <2>1 DEF IInv, Contents, EventLoop
  <2>6. QED BY <2>3, <2>4, <2>5 DEF Contents, disk
<1>9. QED BY <1>4, <1>5, <1>7, <1>8 DEF Kept

(* The three ways a request goes.                                          *)
LEMMA RequestKeeps == ASSUME NEW u \in Fetched PROVE IInv /\ OTA_Process(u) => Kept'
<1> SUFFICES ASSUME IInv, OTA_Process(u) PROVE Kept'
  OBVIOUS
<1>1. u \in Updates /\ EventLoop /\ stage[u] = "none" /\ UNCHANGED <<conn, got, disk, running>>
  BY DEF OTA_Process, Updates
<1>2. ASSUME Fault("badUrl") \/ Fault("noFile"), stage' = [stage EXCEPT ![u] = "ended"],
             UNCHANGED <<files, overlap>>
      PROVE  Kept'
  <2>1. faults \subseteq faults' /\ faults' \subseteq Faults
    BY <1>2, Split DEF Fault, IInv, DataOK
  <2>2. QED BY <1>1, <1>2, <2>1, EndKeeps
<1>3. ASSUME stage' = [stage EXCEPT ![u] = "fetching"],
             files' = [files EXCEPT ![Name[u]] = <<>>],
             overlap' = (overlap \/ \E v \in Updates : Fetching(v) /\ Name[v] = Name[u]),
             UNCHANGED faults
      PROVE  Kept'
  BY <1>1, <1>3, FetchKeeps
<1>4. QED BY <1>2, <1>3, Zenon DEF OTA_Process

(* A unit is written behind the ones that are there.                       *)
LEMMA ReadKeeps == ASSUME NEW u \in Fetched PROVE IInv /\ httpReadyRead(u) => Kept'
<1> SUFFICES ASSUME IInv, httpReadyRead(u) PROVE Kept'
  OBVIOUS
<1>1. /\ u \in Updates /\ EventLoop /\ Fetching(u) /\ got[u] < Size[u]
      /\ got' = [got EXCEPT ![u] = got[u] + 1]
      /\ UNCHANGED <<conn, stage, disk, running, overlap>>
  BY DEF httpReadyRead, Updates
<1>2. PICK x \in {u, Nothing} :
        /\ files' = [files EXCEPT ![Name[u]] = WriteAt(files[Name[u]], got[u] + 1, x)]
        /\ (x = u /\ UNCHANGED faults) \/ (x = Nothing /\ Fault("corrupt"))
  BY DEF httpReadyRead
<1>3. got \in [Updates -> Nat] /\ Name[u] \in Names /\ FilesOK /\ Size[u] \in Nat
  BY <1>1, WholeCopies, Split DEF IInv, DataOK
<1>4. /\ DOMAIN files' = Names /\ files'[Name[u]] = WriteAt(files[Name[u]], got[u] + 1, x)
      /\ \A f \in Names : f # Name[u] => files'[f] = files[f]
  BY <1>2, <1>3 DEF FilesOK
<1>5. /\ got' \in [Updates -> Nat] /\ got'[u] = got[u] + 1
      /\ \A v \in Updates : v # u => got'[v] = got[v]
  BY <1>1, <1>3
<1>6. faults' \subseteq Faults /\ faults \subseteq faults'
  BY <1>2, Split DEF IInv, DataOK, Fault
<1>7. DataOK'
  <2>1. FilesOK'
    <3>1. got[u] + 1 \in Nat /\ x \in Updates \cup {Nothing}
      BY <1>1, <1>2, <1>3
    <3>2. WriteAt(files[Name[u]], got[u] + 1, x) \in Seq(Updates \cup {Nothing})
      BY <1>3, <3>1, WriteType DEF FilesOK
    <3>3. QED BY <1>3, <1>4, <3>2 DEF FilesOK
  <2>2. \A v \in Updates : got'[v] <= Size[v]
    <3> SUFFICES ASSUME NEW v \in Updates PROVE got'[v] <= Size[v]
      OBVIOUS
    <3>1. got[v] <= Size[v] /\ got[v] \in Nat /\ Size[v] \in Nat
      BY Split, SizeAssumption DEF IInv, DataOK
    <3>2. QED BY <1>1, <1>5, <3>1
  <2>3. QED BY <1>1, <1>5, <1>6, <2>1, <2>2, Split DEF IInv, DataOK, conn, disk
<1>8. Fresh' /\ OneWriter' /\ Program'
  BY <1>1, <1>5 DEF IInv, Fresh, OneWriter, Program, Fetching, disk
<1>9. Contents'
  <2> SUFFICES ASSUME Clean' PROVE Contents'
    BY DEF Contents
  <2>1. Clean /\ x = u
    BY <1>1, <1>2, <1>6 DEF Clean, Fault
  <2>2. files'[Name[u]] = Copies(u, got'[u])
    <3>1. files[Name[u]] = Copies(u, got[u]) /\ got[u] \in Nat
      BY <1>1, <1>3, <2>1 DEF IInv, Contents
    <3>2. QED BY <1>1, <1>4, <1>5, <2>1, <3>1, WriteNext
  <2>3. \A v \in Updates : Fetching(v)' => files'[Name[v]] = Copies(v, got'[v])
    <3> SUFFICES ASSUME NEW v \in Updates, Fetching(v)', v # u
                 PROVE  files'[Name[v]] = Copies(v, got'[v])
      BY <2>2
    <3>1. Fetching(v) /\ Name[v] \in Names
      BY <1>1, WholeCopies DEF Fetching
    <3>2. Name[v] # Name[u]
      BY <1>1, <2>1, <3>1 DEF IInv, OneWriter, Clean
    <3>3. QED BY <1>4, <1>5, <2>1, <3>1, <3>2 DEF IInv, Contents
  <2>4. \A v \in Updates : stage'[v] # "moved"
    BY <1>1 DEF EventLoop
  <2>5. app # Nothing /\ running # Nothing
    BY <1>1, <2>1 DEF IInv, Contents, EventLoop
  <2>6. QED BY <1>1, <2>3, <2>4, <2>5 DEF Contents, disk
<1>10. QED BY <1>7, <1>8, <1>9 DEF Kept

(* An update is about to be installed: its file is whole, and the program  *)
(* moves away.                                                             *)
LEMMA InstallKeeps ==
  ASSUME IInv, NEW u \in Updates, EventLoop,
         stage' = [stage EXCEPT ![u] = "moved"], MoveAway(u),
         FilesOK', Clean' => files'[Name[u]] = Whole(u),
         \A v \in Updates : Clean' /\ Fetching(v) /\ v # u => files'[Name[v]] = files[Name[v]],
         overlap => overlap', faults \subseteq faults', faults' \subseteq Faults,
         UNCHANGED <<conn, got, running>>
  PROVE  Kept'
<1>1. /\ stage \in [Updates -> Stages] /\ stage' \in [Updates -> Stages]
      /\ stage'[u] = "moved" /\ \A v \in Updates : v # u => stage'[v] = stage[v]
  BY Split DEF IInv, DataOK, Stages
<1>2. app' = Nothing /\ backup' \in {app, backup}
  BY DEF MoveAway, disk
<1>3. DataOK'
  BY <1>1, <1>2, Split DEF IInv, DataOK, conn
<1>4. Fresh' /\ Program'
  BY <1>1, <1>2 DEF IInv, Fresh, Program
<1>5. OneWriter'
  BY <1>1 DEF IInv, OneWriter, Fetching
<1>6. Clean' => Clean
  BY DEF Clean
<1>7. Contents'
  <2> SUFFICES ASSUME Clean' PROVE Contents'
    BY DEF Contents
  <2>1. \A v \in Updates : Fetching(v)' => files'[Name[v]] = Copies(v, got'[v])
    BY <1>1, <1>6 DEF IInv, Contents, Fetching
  <2>2. \A v \in Updates : stage'[v] = "moved" => files'[Name[v]] = Whole(v)
    BY <1>1 DEF EventLoop
  <2>3. QED BY <1>1, <2>1, <2>2 DEF Contents, EventLoop
<1>8. QED BY <1>3, <1>4, <1>5, <1>7 DEF Kept

(* A reply ends without an error.                                          *)
LEMMA FinishedKeeps == ASSUME NEW u \in Fetched PROVE IInv /\ httpFinished(u) => Kept'
<1> SUFFICES ASSUME IInv, httpFinished(u) PROVE Kept'
  OBVIOUS
<1>1. /\ u \in Updates /\ EventLoop /\ Fetching(u)
      /\ UNCHANGED <<conn, got, files, running, overlap>>
      /\ faults \subseteq faults' /\ faults' \subseteq Faults
  BY Split DEF IInv, DataOK, httpFinished, ReplyComplete, Fault, Updates
<1>2. CASE SizeMatches(u)
  <2>1. stage' = [stage EXCEPT ![u] = "moved"] /\ MoveAway(u)
    BY <1>2 DEF httpFinished
  <2>2. Clean' => files'[Name[u]] = Whole(u)
    <3> SUFFICES ASSUME Clean' PROVE files[Name[u]] = Whole(u)
      BY <1>1
    <3>1. files[Name[u]] = Copies(u, got[u]) /\ got[u] \in Nat
      BY <1>1, Split DEF IInv, Contents, Clean, DataOK
    <3>2. got[u] = Size[u]
      BY <1>1, <1>2, <3>1, CopiesType DEF SizeMatches
    <3>3. QED BY <1>1, <3>1, <3>2, WholeCopies
  <2>3. FilesOK'
    BY <1>1, Split DEF IInv, DataOK, FilesOK
  <2>4. QED BY <1>1, <2>1, <2>2, <2>3, InstallKeeps
<1>3. CASE ~SizeMatches(u)
  <2>1. stage' = [stage EXCEPT ![u] = "ended"] /\ UNCHANGED disk
    BY <1>3 DEF httpFinished
  <2>2. QED BY <1>1, <2>1, EndKeeps DEF Fetching
<1>4. QED BY <1>2, <1>3

(* The PC tool has sent an archive.                                        *)
LEMMA UpgradeKeeps == ASSUME NEW u \in Uploaded PROVE IInv /\ OnUpgradeRdm(u) => Kept'
<1> SUFFICES ASSUME IInv, OnUpgradeRdm(u) PROVE Kept'
  OBVIOUS
<1>1. /\ u \in Updates /\ EventLoop /\ files' = [files EXCEPT ![Name[u]] = Whole(u)]
      /\ overlap' = (overlap \/ \E v \in Updates : Fetching(v) /\ Name[v] = Name[u])
      /\ stage' = [stage EXCEPT ![u] = "moved"] /\ MoveAway(u)
      /\ UNCHANGED <<conn, got, running, faults>>
  BY DEF OnUpgradeRdm, Updates
<1>2. Name[u] \in Names /\ FilesOK /\ faults \subseteq Faults
  BY <1>1, WholeCopies, Split DEF IInv, DataOK
<1>3. /\ DOMAIN files' = Names /\ files'[Name[u]] = Whole(u)
      /\ \A f \in Names : f # Name[u] => files'[f] = files[f]
  BY <1>1, <1>2 DEF FilesOK
<1>4. FilesOK'
  <2>1. Whole(u) \in Seq(Updates \cup {Nothing})
    BY <1>1, WholeCopies, CopiesType
  <2>2. QED BY <1>2, <1>3, <2>1 DEF FilesOK
<1>5. ASSUME NEW v \in Updates, Clean', Fetching(v), v # u
      PROVE  files'[Name[v]] = files[Name[v]]
  <2>1. Name[v] # Name[u] /\ Name[v] \in Names
    BY <1>1, <1>5, WholeCopies DEF Clean
  <2>2. QED BY <1>3, <2>1
<1>6. overlap => overlap'
  BY <1>1
<1>7. QED BY <1>1, <1>2, <1>3, <1>4, <1>5, <1>6, InstallKeeps

(* The program comes out of the archive.                                   *)
LEMMA UnpackKeeps == ASSUME NEW u \in Updates PROVE IInv /\ Unpack(u) => Kept'
<1> SUFFICES ASSUME IInv, Unpack(u) PROVE Kept'
  OBVIOUS
<1>1. /\ stage[u] = "moved" /\ stage' = [stage EXCEPT ![u] = "unpacked"]
      /\ app' = Unpacked(files[Name[u]])
      /\ UNCHANGED <<conn, got, files, backup, running, overlap, faults>>
  BY DEF Unpack
<1>2. /\ stage \in [Updates -> Stages] /\ stage' \in [Updates -> Stages]
      /\ stage'[u] = "unpacked" /\ \A v \in Updates : v # u => stage'[v] = stage[v]
  BY <1>1, Split DEF IInv, DataOK, Stages
<1>3. app' \in Versions \cup {Nothing}
  BY <1>1, UnpackedProgram
<1>4. DataOK'
  BY <1>1, <1>2, <1>3, Split DEF IInv, DataOK, FilesOK, conn
<1>5. Fresh' /\ Program'
  BY <1>1, <1>2 DEF IInv, Fresh, Program
<1>6. OneWriter'
  BY <1>1, <1>2 DEF IInv, OneWriter, Fetching
<1>7. Contents'
  <2> SUFFICES ASSUME Clean' PROVE Contents'
    BY DEF Contents
  <2>1. Clean
    BY <1>1 DEF Clean
  <2>2. app' # Nothing
    BY <1>1, <2>1, UnpackedProgram DEF IInv, Contents
  <2>3. QED BY <1>1, <1>2, <2>1, <2>2 DEF IInv, Contents, Fetching
<1>8. QED BY <1>4, <1>5, <1>6, <1>7 DEF Kept

(* A new process starts what is on the disk, if nothing is half installed. *)
LEMMA BootKeeps ==
  ASSUME IInv, Boot(app'), app' \in Versions \cup {Nothing}, UNCHANGED backup,
         faults \subseteq faults', faults' \subseteq Faults,
         Clean' => app' = app /\ \A u \in Updates : stage[u] # "moved"
  PROVE  Kept'
<1>1. /\ running' = app' /\ mqtt' = "connecting" /\ ticks' = RDM_TICKS
      /\ stage' = [u \in Updates |-> IF stage[u] = "none" THEN "none" ELSE "ended"]
      /\ UNCHANGED <<cloud, got, files, overlap>>
  BY DEF Boot
<1>2. /\ stage' \in [Updates -> Stages]
      /\ \A u \in Updates : /\ stage'[u] \in {"none", "ended"}
                            /\ stage'[u] = "none" => stage[u] = "none"
  BY <1>1 DEF Stages
<1>3. DataOK'
  BY <1>1, <1>2, TicksAssumption, Split DEF IInv, DataOK, FilesOK
<1>4. Fresh' /\ Program' /\ OneWriter'
  BY <1>1, <1>2 DEF IInv, Fresh, Program, OneWriter, Fetching
<1>5. Clean' => Clean
  BY <1>1 DEF Clean
<1>6. Contents'
  BY <1>1, <1>2, <1>5 DEF IInv, Contents, Fetching
<1>7. QED BY <1>3, <1>4, <1>6 DEF Kept

(* The service is restarted, or the power fails.                           *)
LEMMA RestartKeeps == IInv /\ (RestartService \/ PowerCut) => Kept'
<1> SUFFICES ASSUME IInv, RestartService \/ PowerCut PROVE Kept'
  OBVIOUS
<1>1. CASE RestartService
  <2>1. /\ Boot(app) /\ app' = app /\ backup' = backup /\ faults' = faults
        /\ \A u \in Updates : stage[u] # "moved"
    BY <1>1 DEF RestartService, disk
  <2>2. Boot(app') /\ app' \in Versions \cup {Nothing} /\ faults' \subseteq Faults
    BY <2>1, Split DEF IInv, DataOK
  <2>3. QED BY <2>1, <2>2, BootKeeps
<1>2. CASE PowerCut
  <2>1. /\ Boot(app') /\ backup' = backup /\ app' \in {app, Nothing}
        /\ faults \subseteq faults' /\ faults' \subseteq Faults /\ "power" \in faults'
    BY <1>2, Split DEF PowerCut, Fault, IInv, DataOK
  <2>2. app' \in Versions \cup {Nothing}
    BY <2>1, Split DEF IInv, DataOK
  <2>3. ~Clean'
    BY <2>1 DEF Clean
  <2>4. QED BY <2>1, <2>2, <2>3, BootKeeps
<1>3. QED BY <1>1, <1>2

(* A fetch fails.                                                          *)
LEMMA FailedKeeps == ASSUME NEW u \in Fetched PROVE IInv /\ FetchFailed(u) => Kept'
<1> SUFFICES ASSUME IInv, FetchFailed(u) PROVE Kept'
  OBVIOUS
<1>1. /\ u \in Updates /\ stage[u] # "moved" /\ stage[u] # "unpacked"
      /\ stage' = [stage EXCEPT ![u] = "ended"]
      /\ UNCHANGED <<conn, got, files, disk, running, overlap>>
      /\ faults \subseteq faults' /\ faults' \subseteq Faults
  BY Split DEF FetchFailed, Fetching, Fault, Updates, IInv, DataOK
<1>2. QED BY <1>1, EndKeeps

(* A step that changes nothing.                                            *)
LEMMA StutterKeeps == IInv /\ UNCHANGED vars => Kept'
BY Split DEF IInv, Kept, vars, conn, disk, DataOK, FilesOK, Fresh, OneWriter, Contents,
   Program, Fetching, Clean

(* The flags are flags, and the timers are only off after a request.       *)
LEMMA FlagsKept == IInv /\ [Next]_vars => FlagsOK'
<1> SUFFICES ASSUME IInv, [Next]_vars PROVE FlagsOK'
  OBVIOUS
<1>1. FlagsOK /\ stage \in [Updates -> Stages] /\ Fetched \subseteq Updates
  BY Split, Zenon DEF IInv, DataOK, Updates
<1>2. CASE UNCHANGED <<timers, stage, overlap>>
  BY <1>1, <1>2, Zenon DEF FlagsOK
<1>3. ASSUME NEW u \in Fetched, OTA_Process(u) PROVE FlagsOK'
  <2>1. stage'[u] # "none"
    BY <1>1, <1>3 DEF OTA_Process
  <2>2. overlap' \in BOOLEAN /\ timers' \in BOOLEAN
    BY <1>1, <1>3, Zenon DEF OTA_Process, FlagsOK
  <2>3. QED BY <2>1, <2>2, Zenon DEF FlagsOK
<1>4. ASSUME NEW u \in Updates, NEW s \in Stages \ {"none"}, stage' = [stage EXCEPT ![u] = s],
             UNCHANGED timers, overlap' \in BOOLEAN
      PROVE  FlagsOK'
  <2>1. \A v \in Updates : stage[v] # "none" => stage'[v] # "none"
    BY <1>1, <1>4
  <2>2. QED BY <1>1, <1>4, <2>1, Zenon DEF FlagsOK
<1>5. ASSUME timers' = TRUE, overlap' \in BOOLEAN PROVE FlagsOK'
  BY <1>5, Zenon DEF FlagsOK
<1>6. CASE \E u \in Fetched : FetchFailed(u)
  BY <1>1, <1>5, <1>6, Zenon DEF FetchFailed, FlagsOK
<1>7. CASE RestartService \/ PowerCut
  BY <1>1, <1>5, <1>7, Zenon DEF RestartService, PowerCut, Boot, FlagsOK
<1>8. ASSUME NEW u \in Fetched, httpFinished(u) PROVE FlagsOK'
  BY <1>1, <1>4, <1>8, Zenon DEF httpFinished, FlagsOK, Stages
<1>9. ASSUME NEW u \in Uploaded, OnUpgradeRdm(u) PROVE FlagsOK'
  BY <1>1, <1>4, <1>9, Zenon DEF OnUpgradeRdm, FlagsOK, Stages, Updates
<1>10. ASSUME NEW u \in Updates, Unpack(u) PROVE FlagsOK'
  BY <1>1, <1>4, <1>10, Zenon DEF Unpack, FlagsOK, Stages
<1>11. CASE Connected \/ Disconnected \/ IOT_tick \/ (\E u \in Fetched : httpReadyRead(u))
            \/ UNCHANGED vars
  BY <1>2, <1>11, Zenon DEF Connected, Disconnected, IOT_tick, httpReadyRead, vars
<1>12. QED BY <1>3, <1>6, <1>7, <1>8, <1>9, <1>10, <1>11, Zenon DEF Next

-----------------------------------------------------------------------------
(* The invariant, for all updates, names, sizes and faults.                *)

(* Every step keeps it.                                                    *)
LEMMA StepIInv == IInv /\ [Next]_vars => IInv'
<1> SUFFICES ASSUME IInv, [Next]_vars PROVE IInv'
  OBVIOUS
<1>1. Kept'
  BY ConnectionKeeps, RequestKeeps, ReadKeeps, FailedKeeps, FinishedKeeps, UpgradeKeeps,
     UnpackKeeps, RestartKeeps, StutterKeeps, Zenon DEF Next
<1>2. FlagsOK'
  BY FlagsKept, Zenon
<1>3. TypeOK'
  BY <1>1, <1>2, Zenon DEF Kept, TypeOK, DataOK, FlagsOK, FilesOK, Stages
<1>4. QED BY <1>1, <1>3, Zenon DEF Kept, IInv

(* IInv holds in every reachable state.                                    *)
THEOREM Invariance == Spec => []IInv
BY InitIInv, StepIInv, PTL DEF Spec

(* Every variable keeps its type, and the timers are stopped only after a  *)
(* request to update.                                                      *)
THEOREM TypeCorrect == Spec => []TypeOK
<1>1. IInv => TypeOK
  BY DEF IInv
<1>2. QED BY <1>1, Invariance, PTL

(* Only a damaged archive, a power cut or two writers of one file leave    *)
(* the device without a program: no order of requests, bad replies and     *)
(* restarts does.                                                          *)
THEOREM ProgramRemains == Spec => []NeverBricked
<1>1. IInv => NeverBricked
  BY DEF IInv, Contents, Clean, NeverBricked
<1>2. QED BY <1>1, Invariance, PTL

(* What OTA and OnUpgradeRdm put by is the program that was running,       *)
(* unless another update is unpacked and waits for its restart.            *)
THEOREM BackupKeepsOld == Spec => BackupIsOld
<1>1. IInv /\ [Next]_vars =>
        [backup' # backup => backup' = running \/ \E u \in Updates : stage[u] = "unpacked"]_vars
  <2> SUFFICES ASSUME IInv, [Next]_vars, backup' # backup
               PROVE  backup' = running \/ \E u \in Updates : stage[u] = "unpacked"
    OBVIOUS
  <2>1. backup' = app /\ app # Nothing
    BY DEF Next, vars, disk, Connected, Disconnected, IOT_tick, OTA_Process, httpReadyRead,
       FetchFailed, httpFinished, OnUpgradeRdm, MoveAway, Unpack, RestartService, PowerCut
  <2>2. QED BY <2>1 DEF IInv, Program
<1>2. QED BY <1>1, Invariance, PTL DEF Spec, BackupIsOld
=============================================================================
