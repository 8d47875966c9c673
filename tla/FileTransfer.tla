---------------------------- MODULE FileTransfer ----------------------------
(***************************************************************************)
(* How a configuration file gets from the GUI to the daemon: its length is *)
(* announced in a datagram, the daemon's answer makes the GUI connect, and *)
(* the bytes go over a TCP connection, which the daemon closes when it has *)
(* counted as many as announced; it then loads the file.                   *)
(*                                                                         *)
(* One GUI, one daemon, files of type XmlFile (a TarFile goes the same way *)
(* but is handed to OnUpgradeRdm).  All of them are saved under one name.  *)
(* The connection keeps the order of bytes and may break.  A        *)
(* download starts when the one before is over: see Download.              *)
(***************************************************************************)
EXTENDS Integers, Sequences

CONSTANTS
  Files,     \* contents the user may download
  Size,      \* length of each, in the least units the kernel moves
  Payload,   \* units a QFile::read returns at most: payload, 4K in the code
  Nothing,   \* no file
  Faults     \* faults that may happen, once each

AllFaults == {"loss", "refused", "clientError", "serverError", "restart"}

ASSUME FilesAssumption == Nothing \notin Files
ASSUME SizeAssumption == Size \in [Files -> Nat \ {0}]
ASSUME PayloadAssumption == Payload \in Nat \ {0}
ASSUME FaultsAssumption == Faults \subseteq AllFaults

VARIABLES
  sendfile, left,   \* the file open in the GUI, leftwritten
  sock,             \* state of tcpClient
  buf,              \* written to tcpClient, not yet to the kernel
  shown,            \* the last transferstate in the status bar
  info, ack,        \* datagrams in flight: UDP_FILEPARAMETER and its answer
  link,             \* tcpClient's connection, as the daemon has it
  olds,             \* given up by the GUI, end not yet seen by the daemon
  wire,             \* in flight on tcpClient's connection
  total, recv,      \* totalBytes, recvBytes
  named,            \* fileName is set
  disk,             \* the file the daemon saves into
  installed,        \* what reloadXml last read
  faults            \* the faults that have happened

gui    == <<sendfile, left, sock, buf, shown>>
udp    == <<info, ack>>
tcp    == <<link, olds, wire>>
daemon == <<total, recv, named, disk, installed>>
vars   == <<gui, udp, tcp, daemon, faults>>

Whole(f) == [i \in 1..Size[f] |-> <<f, i>>]

(* At most n of the sequence s, and what is left of it.                    *)
First(s, n) == SubSeq(s, 1, n)
Rest(s, n) == SubSeq(s, n + 1, Len(s))

Fault(k) == k \in Faults \ faults /\ faults' = faults \cup {k}

-----------------------------------------------------------------------------
Init ==
  /\ sendfile = Nothing /\ left = 0 /\ sock = "unconnected" /\ buf = <<>>
  /\ shown = "none"
  /\ info = Nothing /\ ack = FALSE
  /\ link = "none" /\ olds = 0 /\ wire = <<>>
  /\ total = 0 /\ recv = 0 /\ named = FALSE /\ disk = <<>>
  /\ installed = Nothing /\ faults = {}

-----------------------------------------------------------------------------
(* Announcing the file.                                                    *)

(* UDP_fileinfo.  Nothing in the GUI holds back a second download while    *)
(* one is under way.  The guard assumes that there is none: the button is  *)
(* off until the next edit, but each acknowledgement of an EPC of a        *)
(* managed tag downloads too, by itself (icfgpanel.cpp:272-273).           *)
Download(f) ==
  /\ sock = "unconnected" /\ info = Nothing /\ ~ack
  /\ sendfile' = f /\ info' = f
  /\ UNCHANGED <<left, sock, buf, shown, ack, tcp, daemon, faults>>

Lose ==
  /\ Fault("loss")
  /\ \/ info # Nothing /\ info' = Nothing /\ UNCHANGED ack
     \/ ack /\ ack' = FALSE /\ UNCHANGED info
  /\ UNCHANGED <<gui, tcp, daemon>>

(* Faulty variant: the new transfer goes on counting where the last ended. *)
UDP_cmd_fileNoStart ==
  /\ info # Nothing
  /\ total' = Size[info] /\ named' = TRUE
  /\ info' = Nothing /\ ack' = TRUE
  /\ UNCHANGED <<recv, gui, tcp, disk, installed, faults>>

(* The answer, then TCP_start.                                             *)
UDP_cmd_file ==
  /\ info # Nothing
  /\ total' = Size[info] /\ named' = TRUE
  /\ info' = Nothing /\ ack' = TRUE
  /\ recv' = 0
  /\ UNCHANGED <<gui, tcp, disk, installed, faults>>

-----------------------------------------------------------------------------
(* The GUI's socket.                                                       *)

(* The UDP_FILEPARAMETER case of the GUI.  connectToHost is a no-op unless *)
(* the socket is unconnected.                                              *)
RecvAck ==
  /\ ack /\ ack' = FALSE
  /\ sock' = IF sock = "unconnected" THEN "connecting" ELSE sock
  /\ UNCHANGED <<sendfile, left, buf, shown, info, tcp, daemon, faults>>

(* sendfile->read(payload) and write, when n units have not been written.  *)
ReadBlock(n) ==
  LET unread == Rest(Whole(sendfile), Size[sendfile] - n)
      block  == IF n < Payload THEN unread ELSE First(unread, Payload)
  IN  [data |-> block, left |-> n - Len(block)]

startTransfer ==
  /\ sock = "connecting" /\ sock' = "connected" /\ link' = "pending"
  /\ shown' = "Start"
  /\ LET b == ReadBlock(Size[sendfile]) IN buf' = b.data /\ left' = b.left
  /\ UNCHANGED <<sendfile, udp, olds, wire, daemon, faults>>

(* bytesWritten when n units have gone to the kernel.                      *)
ToKernel(n) ==
  /\ sock = "connected" /\ n \in 1..Len(buf)
  /\ wire' = IF link = "closed" THEN <<>> ELSE wire \o First(buf, n)

(* Faulty variant: the last unit of the file is not sent.                  *)
UnsentButOne == left > 1

Unsent == left > 0

updateClientProgress(n) ==
  /\ ToKernel(n)
  /\ IF Unsent
     THEN LET b == ReadBlock(left)
          IN  /\ buf' = Rest(buf, n) \o b.data /\ left' = b.left
              /\ shown' = "Sending"
     ELSE buf' = Rest(buf, n) /\ shown' = "Finished" /\ UNCHANGED left
  /\ UNCHANGED <<sendfile, sock, udp, link, olds, daemon, faults>>

(* TCP_Error on RemoteHostClosedError, which a reset connection gives too: *)
(* the status bar is left as it is.                                        *)
RemoteClosed ==
  /\ sock = "connected" /\ link = "closed"
  /\ sock' = "unconnected" /\ link' = "none" /\ buf' = <<>>
  /\ UNCHANGED <<sendfile, left, shown, udp, olds, wire, daemon, faults>>

(* TCP_Error on any other error.  What was in flight is lost; the daemon   *)
(* learns of it later, if it had not closed the connection.                *)
TCP_Error ==
  /\ \/ sock = "connecting" /\ Fault("refused")
     \/ sock = "connected" /\ Fault("clientError")
  /\ shown' = "TransferError"
  /\ sock' = "unconnected" /\ buf' = <<>> /\ link' = "none" /\ wire' = <<>>
  /\ olds' = IF link \in {"pending", "live"} THEN olds + 1 ELSE olds
  /\ UNCHANGED <<sendfile, left, udp, daemon>>

-----------------------------------------------------------------------------
(* The daemon's side.                                                      *)

TCP_connection ==
  /\ link = "pending" /\ link' = "live"
  /\ UNCHANGED <<gui, udp, olds, wire, daemon, faults>>

(* tcpConnection->close(): the last accepted connection, whichever it is.  *)
CloseCurrent ==
  IF link = "live" THEN link' = "closed" /\ wire' = <<>> ELSE UNCHANGED <<link, wire>>

(* Faulty variant: a complete file is only closed.                         *)
OnFileDoneNotLoaded(ok, data) ==
  /\ recv' = 0
  /\ total' = IF ok THEN 0 ELSE total
  /\ UNCHANGED installed

(* Faulty variant: the byte count is kept.                                 *)
OnFileDoneKeepsCount(ok, data) ==
  /\ UNCHANGED recv
  /\ total' = IF ok THEN 0 ELSE total
  /\ installed' = IF ok THEN data ELSE installed

(* The file is closed and, if ok, its data loaded.                         *)
OnFileDone(ok, data) ==
  /\ recv' = 0
  /\ total' = IF ok THEN 0 ELSE total
  /\ installed' = IF ok THEN data ELSE installed

(* readyRead with n units available.  Without a name the open fails and    *)
(* nothing is read.  close() signals fileDone(false) before fileDone(true).*)
TCP_read(n) ==
  LET opened == IF recv = 0 THEN <<>> ELSE disk
      data   == IF recv < total THEN opened \o First(wire, n) ELSE opened
      count  == IF recv < total THEN recv + n ELSE recv
  IN
  /\ link = "live" /\ n \in 1..Len(wire) /\ (named \/ recv # 0)
  /\ disk' = data
  /\ IF count = total
     THEN CloseCurrent /\ OnFileDone(TRUE, data)
     ELSE /\ wire' = IF recv < total THEN Rest(wire, n) ELSE wire
          /\ recv' = count /\ UNCHANGED <<link, total, installed>>
  /\ UNCHANGED <<gui, udp, olds, named, faults>>

(* iBC::TCP_Error: of the connection in use, or of one the GUI gave up     *)
(* before.  Either way the connection in use is closed.                    *)
ServerError ==
  /\ \/ link = "live" /\ Fault("serverError") /\ UNCHANGED olds
     \/ olds > 0 /\ olds' = olds - 1 /\ UNCHANGED faults
  /\ CloseCurrent /\ OnFileDone(FALSE, disk)
  /\ UNCHANGED <<gui, udp, named, disk>>

(* The daemon is started anew: a reboot, an upgrade.                       *)
Restart ==
  /\ Fault("restart")
  /\ total' = 0 /\ recv' = 0 /\ named' = FALSE /\ olds' = 0
  /\ link' = IF link = "none" THEN "none" ELSE "closed"
  /\ wire' = <<>>
  /\ UNCHANGED <<gui, udp, disk, installed>>

-----------------------------------------------------------------------------
BytesWritten == \E n \in 1..Len(buf) : updateClientProgress(n)
ReadyRead == \E n \in 1..Len(wire) : TCP_read(n)

Next ==
  \/ \E f \in Files : Download(f)
  \/ Lose \/ UDP_cmd_file \/ RecvAck \/ startTransfer \/ BytesWritten
  \/ RemoteClosed \/ TCP_Error \/ TCP_connection \/ ReadyRead \/ ServerError
  \/ Restart

(* Datagrams and bytes that are not lost arrive, sockets signal, and both  *)
(* event loops run.  Nobody has to press a button.                         *)
Fairness ==
  /\ WF_vars(UDP_cmd_file) /\ WF_vars(RecvAck)
  /\ WF_vars(startTransfer) /\ WF_vars(BytesWritten) /\ WF_vars(RemoteClosed)
  /\ WF_vars(TCP_connection) /\ WF_vars(ReadyRead)

Spec == Init /\ [][Next]_vars /\ Fairness

-----------------------------------------------------------------------------
Units == UNION {{<<f, i>> : i \in 1..Size[f]} : f \in Files}
Data == Seq(Units)

(* The type invariant: the daemon never counts more than was announced.    *)
TypeOK ==
  /\ sendfile \in Files \cup {Nothing} /\ left \in Nat
  /\ sock \in {"unconnected", "connecting", "connected"}
  /\ shown \in {"none", "Start", "Sending", "Finished", "TransferError"}
  /\ info \in Files \cup {Nothing} /\ ack \in BOOLEAN
  /\ link \in {"none", "pending", "live", "closed"} /\ olds \in Nat
  /\ buf \in Data /\ wire \in Data
  /\ total \in {0} \cup {Size[f] : f \in Files} /\ recv \in 0..total
  /\ named \in BOOLEAN /\ disk \in Data
  /\ installed \in Data \cup {Nothing}
  /\ faults \subseteq Faults

(* What the daemon loads is a file the user sent, whole and in order, also *)
(* when earlier transfers broke off, their end is seen late, or the daemon *)
(* was restarted between the announcement and the bytes.                   *)
LoadedComplete ==
  installed # Nothing => \E f \in Files : installed = Whole(f)

(* A transfer ends on the GUI's side, unless the daemon was restarted:     *)
(* then it does not read, the GUI waits for it to close, and connectToHost *)
(* does nothing any more.                                                  *)
TransferEnds ==
  sock # "unconnected" ~> (sock = "unconnected" \/ "restart" \in faults)

(* If nothing fails, an announced file is loaded.                          *)
Delivered ==
  \A f \in Files : info = f ~> (installed = Whole(f) \/ faults # {})

(* "Downloaded successfully", still in the status bar when the daemon has  *)
(* closed the connection, says that it has loaded the file                 *)
(* (iTmsGui.cpp:96).                                                       *)
SuccessMeansLoaded ==
  [][RemoteClosed /\ shown = "Finished" => installed = Whole(sendfile)]_vars
=============================================================================
