-------------------------- MODULE FileTransferProofs --------------------------
(***************************************************************************)
(* Theorems about FileTransfer, for files of any sizes and any socket      *)
(* buffer: the units in the GUI's buffer, in the two kernels and in the    *)
(* daemon's file are adjacent pieces of the one file that is being sent.   *)
(***************************************************************************)
EXTENDS FileTransfer, SequenceTheorems, TLAPS

(* The units of f after the first a, up to the first b.                    *)
Piece(f, a, b) == [i \in 1..(b - a) |-> <<f, a + i>>]

(* A transfer is under way from the daemon's answer until the GUI's socket *)
(* is closed; Gone units have been given to the kernel.                    *)
Active == ack \/ sock # "unconnected"
Gone == Size[sendfile] - left - Len(buf)

(* One transfer at a time, and who knows of its connection.                *)
Order ==
  /\ info # Nothing => sendfile = info /\ ~ack /\ sock = "unconnected"
  /\ ack => sock = "unconnected"
  /\ sock = "connected" <=> link # "none"
  /\ Active => sendfile # Nothing

(* The daemon counts a new transfer from 0, up to the length of its file,  *)
(* or has no name for it.                                                  *)
Counting ==
  /\ total > 0 => recv < total
  /\ Active /\ link # "live" => recv = 0
  /\ Active /\ link # "closed" => total = Size[sendfile] \/ (~named /\ recv = 0)

(* What is saved, in flight and in the GUI's buffer are adjacent pieces of *)
(* the file that is sent.                                                  *)
GuiStream ==
  IF sock = "connected"
  THEN /\ left <= Size[sendfile] /\ Len(buf) <= Size[sendfile] - left
       /\ buf = Piece(sendfile, Gone, Size[sendfile] - left)
  ELSE buf = <<>>

NetStream ==
  IF link \in {"pending", "live"}
  THEN recv + Len(wire) = Gone /\ wire = Piece(sendfile, recv, Gone)
  ELSE wire = <<>>

Saved == link = "live" /\ recv > 0 => disk = Piece(sendfile, 0, recv)

IInv ==
  /\ TypeOK /\ Order /\ Counting
  /\ GuiStream /\ NetStream /\ Saved /\ LoadedComplete

(* The two halves of TypeOK: the two flags, and the rest.                  *)
FlagsOK == ack \in BOOLEAN /\ named \in BOOLEAN

DataOK ==
  /\ sendfile \in Files \cup {Nothing} /\ left \in Nat
  /\ sock \in {"unconnected", "connecting", "connected"}
  /\ shown \in {"none", "Start", "Sending", "Finished", "TransferError"}
  /\ info \in Files \cup {Nothing}
  /\ link \in {"none", "pending", "live", "closed"} /\ olds \in Nat
  /\ buf \in Data /\ wire \in Data
  /\ total \in {0} \cup {Size[f] : f \in Files} /\ recv \in 0..total
  /\ disk \in Data /\ installed \in Data \cup {Nothing}
  /\ faults \subseteq Faults

(* TypeOK is both of them.                                                 *)
LEMMA Split == TypeOK <=> FlagsOK /\ DataOK
BY DEF TypeOK, FlagsOK, DataOK

-----------------------------------------------------------------------------
(* Lemmas about pieces of files.                                           *)

(* A piece is data, as long as it says.                                    *)
LEMMA PieceType ==
  ASSUME NEW f \in Files, NEW b \in 0..Size[f], NEW a \in 0..b
  PROVE  Piece(f, a, b) \in Data /\ Len(Piece(f, a, b)) = b - a
<1> DEFINE p == Piece(f, a, b)
<1>1. Size[f] \in Nat /\ b - a \in Nat
  BY SizeAssumption
<1>2. \A i \in 1..(b - a) : <<f, a + i>> \in Units
  <2> SUFFICES ASSUME NEW i \in 1..(b - a) PROVE <<f, a + i>> \in Units
    OBVIOUS
  <2>1. a + i \in 1..Size[f]
    BY <1>1
  <2>2. <<f, a + i>> \in {<<f, j>> : j \in 1..Size[f]}
    BY <2>1
  <2>3. QED BY <2>2, Zenon DEF Units
<1>3. p \in [1..(b - a) -> Units]
  BY <1>2 DEF Piece
<1>4. p \in Data
  BY <1>1, <1>3, SeqDef, Zenon DEF Data
<1>5. Len(p) \in Nat /\ DOMAIN p = 1..Len(p)
  BY <1>4, LenProperties DEF Data
<1>6. DOMAIN p = 1..(b - a)
  BY <1>3
<1>7. Len(p) = b - a
  BY <1>1, <1>5, <1>6
<1>8. QED BY <1>4, <1>7

(* The units of a piece.                                                   *)
LEMMA PieceUnit ==
  ASSUME NEW f, NEW a, NEW b, NEW i \in 1..(b - a)
  PROVE  Piece(f, a, b)[i] = <<f, a + i>>
BY DEF Piece

(* A piece, and the one after it.                                          *)
LEMMA PieceConcat ==
  ASSUME NEW f \in Files, NEW c \in 0..Size[f], NEW b \in 0..c, NEW a \in 0..b
  PROVE  Piece(f, a, b) \o Piece(f, b, c) = Piece(f, a, c)
<1> DEFINE p == Piece(f, a, b)  q == Piece(f, b, c)  r == Piece(f, a, c)
<1>0. Size[f] \in Nat
  BY SizeAssumption
<1>1. p \in Data /\ q \in Data /\ r \in Data /\ Len(p) = b - a /\ Len(q) = c - b /\ Len(r) = c - a
  <2>1. a \in 0..c /\ b \in 0..Size[f]
    BY <1>0
  <2>2. QED BY <2>1, PieceType, Zenon
<1> HIDE DEF p, q, r
<1>2. /\ p \o q \in Data /\ Len(p \o q) = c - a
      /\ \A i \in 1..(c - a) : (p \o q)[i] = IF i <= b - a THEN p[i] ELSE q[i - (b - a)]
  <2>1. /\ p \o q \in Data /\ Len(p \o q) = Len(p) + Len(q)
        /\ \A i \in 1..(Len(p) + Len(q)) :
             (p \o q)[i] = IF i <= Len(p) THEN p[i] ELSE q[i - Len(p)]
    BY <1>1, ConcatProperties, Zenon DEF Data
  <2>2. Len(p) + Len(q) = c - a
    BY <1>0, <1>1
  <2>3. QED BY <1>1, <2>1, <2>2, Zenon
<1>3. ASSUME NEW i \in 1..(c - a) PROVE (p \o q)[i] = r[i]
  <2>1. r[i] = <<f, a + i>>
    BY PieceUnit DEF r
  <2>2. CASE i <= b - a
    <3>1. i \in 1..(b - a)
      BY <2>2
    <3>2. p[i] = <<f, a + i>>
      BY PieceUnit, <3>1 DEF p
    <3>3. QED BY <1>2, <2>1, <2>2, <3>2
  <2>3. CASE i > b - a
    <3>1. i - (b - a) \in 1..(c - b) /\ b + (i - (b - a)) = a + i
      BY <2>3
    <3>2. q[i - (b - a)] = <<f, b + (i - (b - a))>>
      BY PieceUnit, <3>1 DEF q
    <3>3. (p \o q)[i] = q[i - (b - a)]
      BY <1>2, <2>3
    <3>4. <<f, b + (i - (b - a))>> = <<f, a + i>>
      BY <3>1
    <3>5. QED BY <2>1, <3>2, <3>3, <3>4, Zenon
  <2>4. i <= b - a \/ i > b - a
    OBVIOUS
  <2>5. QED BY <2>2, <2>3, <2>4, Zenon
<1>4. p \o q = r
  BY <1>1, <1>2, <1>3, SeqEqual DEF Data
<1>5. QED BY <1>4 DEF p, q, r

(* A piece is cut into the first n units and the rest.                     *)
LEMMA PieceCut ==
  ASSUME NEW f \in Files, NEW b \in 0..Size[f], NEW a \in 0..b, NEW n \in 0..(b - a)
  PROVE  /\ First(Piece(f, a, b), n) = Piece(f, a, a + n)
         /\ Rest(Piece(f, a, b), n) = Piece(f, a + n, b)
<1> DEFINE p == Piece(f, a, b)  q == Piece(f, a, a + n)  r == Piece(f, a + n, b)
<1>0. Size[f] \in Nat
  BY SizeAssumption
<1>1. p \in Data /\ q \in Data /\ r \in Data /\ Len(p) = b - a /\ Len(q) = n /\ Len(r) = b - (a + n)
  <2>1. a + n \in 0..Size[f] /\ a + n \in 0..b /\ a \in 0..(a + n) /\ (a + n) - a = n
    BY <1>0
  <2> HIDE DEF p, q, r
  <2>2. p \in Data /\ Len(p) = b - a
    BY PieceType, Zenon DEF p
  <2>3. q \in Data /\ Len(q) = n
    BY <2>1, PieceType, Zenon DEF q
  <2>4. r \in Data /\ Len(r) = b - (a + n)
    BY <2>1, PieceType, Zenon DEF r
  <2>5. QED BY <2>2, <2>3, <2>4
<1>2. \A i \in 1..(b - a) : p[i] = <<f, a + i>> /\ p[i] \in Units
  BY <1>1, PieceUnit, ElementOfSeq DEF Data
<1>3. \A i \in 1..n : q[i] = <<f, a + i>>
  BY PieceUnit
<1>4. \A i \in 1..(b - (a + n)) : r[i] = <<f, (a + n) + i>>
  BY PieceUnit
<1> HIDE DEF p, q, r
<1>5. First(p, n) = q
  <2>1. /\ SubSeq(p, 1, n) \in Seq(Units) /\ Len(SubSeq(p, 1, n)) = n
        /\ \A i \in 1..n : SubSeq(p, 1, n)[i] = p[i]
    <3>1. \A i \in 1..n : p[i] \in Units
      BY <1>2
    <3>2. /\ SubSeq(p, 1, n) \in Seq(Units)
          /\ Len(SubSeq(p, 1, n)) = IF 1 <= n THEN n - 1 + 1 ELSE 0
          /\ \A i \in 1 .. n - 1 + 1 : SubSeq(p, 1, n)[i] = p[1 + i - 1]
      BY <3>1, SubSeqProperties
    <3>3. QED BY <3>2
  <2>2. \A i \in 1..n : SubSeq(p, 1, n)[i] = q[i]
    BY <1>2, <1>3, <2>1
  <2>3. SubSeq(p, 1, n) = q
    BY <1>1, <2>1, <2>2, SeqEqual DEF Data
  <2>4. QED BY <2>3 DEF First
<1>6. Rest(p, n) = r
  <2> DEFINE m == n + 1  k == b - a  t == SubSeq(p, m, k)
  <2>1. \A i \in m..k : p[i] \in Units
    BY <1>2
  <2>2. /\ t \in Seq(Units)
        /\ Len(t) = IF m <= k THEN k - m + 1 ELSE 0
        /\ \A i \in 1 .. k - m + 1 : t[i] = p[m + i - 1]
    BY <2>1, SubSeqProperties
  <2>3. Len(t) = b - (a + n)
    BY <2>2
  <2>4. ASSUME NEW i \in 1..(b - (a + n)) PROVE t[i] = r[i]
    <3>1. i \in 1 .. k - m + 1 /\ m + i - 1 \in 1..(b - a) /\ a + (m + i - 1) = (a + n) + i
      OBVIOUS
    <3>2. t[i] = p[m + i - 1]
      BY <2>2, <3>1
    <3>3. QED BY <1>2, <1>4, <3>1, <3>2
  <2>5. t = r
    BY <1>1, <2>2, <2>3, <2>4, SeqEqual DEF Data
  <2>6. QED BY <1>1, <2>5 DEF Rest
<1>7. QED BY <1>5, <1>6 DEF p, q, r

(* All of a file is a piece of it.                                         *)
LEMMA WholePiece ==
  ASSUME NEW f \in Files
  PROVE  Whole(f) = Piece(f, 0, Size[f])
<1>1. Size[f] - 0 = Size[f] /\ \A i \in 1..Size[f] : 0 + i = i
  BY SizeAssumption
<1>2. QED BY <1>1 DEF Whole, Piece

(* A piece without a unit is empty.                                        *)
LEMMA NoPiece ==
  ASSUME NEW f \in Files, NEW a \in 0..Size[f]
  PROVE  Piece(f, a, a) = <<>>
<1>1. a \in 0..a /\ a - a = 0
  BY SizeAssumption
<1>2. Piece(f, a, a) \in Seq(Units) /\ Len(Piece(f, a, a)) = 0
  BY <1>1, PieceType, Zenon DEF Data
<1>3. QED BY <1>2, EmptySeq

(* The empty sequence is data.                                             *)
LEMMA NoData == <<>> \in Data /\ Len(<<>>) = 0
BY EmptySeq DEF Data

(* A block that is read when n units are left is the piece that follows.   *)
LEMMA ReadBlockPiece ==
  ASSUME sendfile \in Files, NEW n \in 0..Size[sendfile]
  PROVE  /\ ReadBlock(n).left \in 0..n
         /\ ReadBlock(n).data = Piece(sendfile, Size[sendfile] - n, Size[sendfile] - ReadBlock(n).left)
<1> DEFINE sz == Size[sendfile]
           unread == Rest(Whole(sendfile), sz - n)
           block == IF n < Payload THEN unread ELSE First(unread, Payload)
<1>1. sz \in Nat /\ n \in Nat /\ n <= sz /\ Payload \in Nat
  BY SizeAssumption, PayloadAssumption
<1> HIDE DEF sz
<1>2. unread = Piece(sendfile, sz - n, sz)
  <2>1. sz - n \in 0..(sz - 0) /\ 0 + (sz - n) = sz - n /\ 0 \in 0..sz /\ sz \in 0..sz
    BY <1>1
  <2>2. Rest(Piece(sendfile, 0, sz), sz - n) = Piece(sendfile, 0 + (sz - n), sz)
    BY <2>1, PieceCut, Zenon DEF sz
  <2>3. QED BY <2>1, <2>2, WholePiece, Zenon DEF sz
<1>3. block = Piece(sendfile, sz - n, sz - (n - Len(block))) /\ Len(block) \in 0..n
  <2>1. sz - n \in 0..sz /\ sz \in 0..sz
    BY <1>1
  <2>2. CASE n < Payload
    <3>1. block = Piece(sendfile, sz - n, sz)
      BY <1>2, <2>2
    <3>2. n \in 0..n /\ sz - (sz - n) = n /\ sz - (n - n) = sz
      BY <1>1
    <3>3. Len(Piece(sendfile, sz - n, sz)) = sz - (sz - n)
      BY <2>1, PieceType, Zenon DEF sz
    <3> HIDE DEF block
    <3>4. Len(block) = n
      BY <3>1, <3>2, <3>3
    <3>5. QED BY <3>1, <3>2, <3>4
  <2>3. CASE ~(n < Payload)
    <3> DEFINE e == sz - n + Payload
    <3>1. Payload \in 0..(sz - (sz - n)) /\ e \in 0..sz /\ sz - n \in 0..e
      BY <1>1, <2>3
    <3>2. First(Piece(sendfile, sz - n, sz), Payload) = Piece(sendfile, sz - n, e)
      BY <2>1, <3>1, PieceCut, Zenon DEF sz
    <3>3. block = Piece(sendfile, sz - n, e)
      BY <1>2, <2>3, <3>2, Zenon
    <3>4. Len(Piece(sendfile, sz - n, e)) = e - (sz - n)
      BY <3>1, PieceType, Zenon DEF sz
    <3> HIDE DEF block
    <3>5. Len(block) = Payload
      BY <1>1, <3>3, <3>4
    <3>6. sz - (n - Payload) = e /\ Payload \in 0..n
      BY <1>1, <2>3
    <3>7. QED BY <3>3, <3>5, <3>6, Zenon
  <2>4. QED BY <1>1, <2>2, <2>3
<1>4. ReadBlock(n) = [data |-> block, left |-> n - Len(block)]
  BY DEF ReadBlock, sz
<1> HIDE DEF block, unread
<1>5. ReadBlock(n).data = block /\ ReadBlock(n).left = n - Len(block)
  BY <1>4
<1>6. n - Len(block) \in 0..n
  BY <1>1, <1>3
<1>7. QED BY <1>3, <1>5, <1>6 DEF sz

(* The initial states satisfy the invariant.                               *)
LEMMA InitIInv == Init => IInv
<1> SUFFICES ASSUME Init PROVE IInv
  OBVIOUS
<1>1. DataOK
  BY NoData DEF Init, DataOK
<1>2. FlagsOK
  BY DEF Init, FlagsOK
<1>3. Order /\ Counting /\ GuiStream /\ NetStream /\ Saved /\ LoadedComplete
  BY DEF Init, Order, Counting, GuiStream, NetStream, Saved, LoadedComplete, Active
<1>4. QED BY <1>1, <1>2, <1>3, Split DEF IInv

-----------------------------------------------------------------------------
(* The steps: one lemma for each group of actions, which keeps all but the *)
(* flags.                                                                  *)
Kept == DataOK /\ Order /\ Counting /\ GuiStream /\ NetStream /\ Saved /\ LoadedComplete

(* A file is announced, and the answer comes or not.                       *)
LEMMA AnnounceKeeps ==
  IInv /\ ((\E f \in Files : Download(f)) \/ Lose \/ UDP_cmd_file \/ RecvAck) => Kept'
<1> SUFFICES ASSUME IInv PROVE
      (\E f \in Files : Download(f)) \/ Lose \/ UDP_cmd_file \/ RecvAck => Kept'
  OBVIOUS
<1> USE Split, FilesAssumption, SizeAssumption DEF IInv, Kept, gui, tcp, daemon
<1>1. ASSUME NEW f \in Files, Download(f) PROVE Kept'
  <2>1. DataOK' /\ Order' /\ Counting' /\ LoadedComplete'
    BY <1>1 DEF Download, DataOK, Order, Counting, Active, LoadedComplete
  <2>2. GuiStream' /\ NetStream' /\ Saved'
    BY <1>1 DEF Download, Order, GuiStream, NetStream, Saved, DataOK
  <2>3. QED BY <2>1, <2>2
<1>2. CASE Lose
  <2>1. DataOK' /\ Order' /\ Counting' /\ LoadedComplete'
    BY <1>2 DEF Lose, Fault, DataOK, FlagsOK, Order, Counting, Active, LoadedComplete
  <2>2. GuiStream' /\ NetStream' /\ Saved'
    BY <1>2 DEF Lose, GuiStream, NetStream, Saved, Gone
  <2>3. QED BY <2>1, <2>2
<1>3. CASE UDP_cmd_file
  <2>1. DataOK' /\ Order' /\ Counting' /\ LoadedComplete'
    BY <1>3 DEF UDP_cmd_file, DataOK, Order, Counting, Active, LoadedComplete
  <2>2. GuiStream' /\ NetStream' /\ Saved'
    BY <1>3 DEF UDP_cmd_file, GuiStream, NetStream, Saved, Gone, Order
  <2>3. QED BY <2>1, <2>2
<1>4. CASE RecvAck
  <2>1. DataOK' /\ Order' /\ Counting' /\ LoadedComplete'
    BY <1>4 DEF RecvAck, DataOK, Order, Counting, Active, LoadedComplete
  <2>2. GuiStream' /\ NetStream' /\ Saved'
    BY <1>4 DEF RecvAck, GuiStream, NetStream, Saved, Gone, Order
  <2>3. QED BY <2>1, <2>2
<1>5. QED BY <1>1, <1>2, <1>3, <1>4

(* The connection is made: the first block is in the buffer, nothing is    *)
(* in flight.                                                              *)
LEMMA StartKeeps == IInv /\ startTransfer => Kept'
<1> SUFFICES ASSUME IInv, startTransfer PROVE Kept'
  OBVIOUS
<1> DEFINE sz == Size[sendfile]  b == ReadBlock(sz)
<1>1. /\ sendfile \in Files /\ sz \in Nat /\ sz - sz = 0 /\ sz \in 0..sz
      /\ recv = 0 /\ wire = <<>> /\ link = "none"
  BY Split, SizeAssumption DEF IInv, startTransfer, DataOK, Order, Counting, Active, NetStream
<1>2. b.left \in 0..sz /\ b.data = Piece(sendfile, 0, sz - b.left)
  BY <1>1, ReadBlockPiece
<1>3. sz - b.left \in Nat /\ sz - b.left <= sz /\ (sz - b.left) - 0 = sz - b.left
  BY <1>1, <1>2
<1>4. b.data \in Data /\ Len(b.data) = sz - b.left
  BY <1>1, <1>2, <1>3, PieceType
<1>5. sock' = "connected" /\ link' = "pending" /\ shown' = "Start" /\ buf' = b.data /\ left' = b.left
      /\ UNCHANGED <<sendfile, udp, olds, wire, daemon, faults>>
  BY DEF startTransfer
<1> HIDE DEF b, sz
<1>6. DataOK'
  BY <1>1, <1>2, <1>4, <1>5, Split DEF IInv, DataOK, udp, daemon
<1>7. Order' /\ Counting' /\ Saved' /\ LoadedComplete'
  BY <1>1, <1>5, Split DEF IInv, Order, Counting, Active, Saved, LoadedComplete, udp, daemon, sz, startTransfer
<1>8. Gone' = 0
  BY <1>1, <1>2, <1>4, <1>5 DEF Gone, sz
<1>9. GuiStream'
  BY <1>1, <1>2, <1>3, <1>4, <1>5, <1>8 DEF GuiStream, sz
<1>10. NetStream'
  BY <1>1, <1>5, <1>8, NoData, NoPiece DEF NetStream, daemon, sz
<1>11. QED BY <1>6, <1>7, <1>9, <1>10 DEF Kept

(* Where a piece ends when r units of s are left after it.                 *)
LEMMA EndOfPiece ==
  ASSUME NEW s \in Nat, NEW e \in Nat, NEW r \in Nat, r <= s - e
  PROVE  s - r \in Nat /\ e <= s - r /\ s - r <= s
OBVIOUS

(* The buffer is cut where the kernel stops, and a block that is read      *)
(* joins its end: l units are left to be read then.                        *)
LEMMA BufferMoves ==
  ASSUME IInv, NEW n \in 1..Len(buf), updateClientProgress(n),
         sendfile \in Files, NEW e \in 0..Size[sendfile], NEW g \in 0..e,
         left = Size[sendfile] - e, n \in 0..(e - g), buf = Piece(sendfile, g, e)
  PROVE  \E c \in e..Size[sendfile] :
           /\ left' = Size[sendfile] - c
           /\ buf' = Piece(sendfile, g + n, c)
           /\ shown' \in {"Sending", "Finished"}
<1>1. PICK sz \in Nat : sz = Size[sendfile]
  BY SizeAssumption
<1>2. PICK k \in Nat : k = g + n
  BY <1>1
<1>3. Rest(buf, n) = Piece(sendfile, k, e)
  BY <1>2, PieceCut, Zenon
<1>4. CASE Unsent
  <2>1. left \in 0..Size[sendfile] /\ left = sz - e /\ sz - left = e
    BY <1>1
  <2>2. PICK r \in Nat : r = ReadBlock(left).left /\ r <= left
    <3>1. ReadBlock(left).left \in 0..left
      BY <2>1, ReadBlockPiece
    <3>2. QED BY <2>1, <3>1
  <2>3. PICK c \in Nat : c = sz - r /\ e <= c /\ c <= sz
    <3>1. r <= sz - e
      BY <2>1, <2>2
    <3>2. sz - r \in Nat /\ e <= sz - r /\ sz - r <= sz
      BY <3>1, EndOfPiece
    <3>3. QED BY <3>2, Zenon
  <2>4. ReadBlock(left).data = Piece(sendfile, e, c)
    <3>1. ReadBlock(left).data = Piece(sendfile, Size[sendfile] - left, Size[sendfile] - ReadBlock(left).left)
      BY <2>1, ReadBlockPiece
    <3>2. QED BY <1>1, <2>1, <2>2, <2>3, <3>1, Zenon
  <2>5. buf' = Piece(sendfile, k, e) \o Piece(sendfile, e, c)
    BY <1>3, <1>4, <2>4 DEF updateClientProgress
  <2>6. buf' = Piece(sendfile, k, c)
    <3>1. c \in 0..Size[sendfile] /\ e \in 0..c /\ k \in 0..e
      BY <1>1, <1>2, <2>3
    <3>2. Piece(sendfile, k, e) \o Piece(sendfile, e, c) = Piece(sendfile, k, c)
      BY <3>1, PieceConcat, Zenon
    <3>3. QED BY <2>5, <3>2, Zenon
  <2>7. left' = sz - c /\ shown' = "Sending"
    <3>1. left' = r /\ shown' = "Sending"
      BY <1>4, <2>2 DEF updateClientProgress
    <3>2. QED BY <1>1, <2>2, <2>3, <3>1
  <2>8. c \in e..Size[sendfile]
    BY <1>1, <2>3
  <2>9. QED BY <1>1, <1>2, <2>6, <2>7, <2>8
<1>5. CASE ~Unsent
  <2>1. buf' = Piece(sendfile, k, e) /\ left' = left /\ shown' = "Finished"
    BY <1>3, <1>5 DEF updateClientProgress
  <2>2. e \in e..Size[sendfile]
    BY <1>1
  <2>3. QED BY <1>2, <2>1, <2>2, Zenon
<1>6. QED BY <1>4, <1>5

(* What goes to the kernel leaves the front of the buffer and joins what   *)
(* is in flight.                                                           *)
LEMMA ProgressKeeps == ASSUME NEW n \in 1..Len(buf) PROVE IInv /\ updateClientProgress(n) => Kept'
<1> SUFFICES ASSUME IInv, updateClientProgress(n) PROVE Kept'
  OBVIOUS
<1>1. /\ sendfile \in Files /\ sock = "connected" /\ left \in Nat /\ buf \in Seq(Units) /\ recv \in Nat
      /\ left <= Size[sendfile] /\ buf = Piece(sendfile, Gone, Size[sendfile] - left)
      /\ Len(buf) <= Size[sendfile] - left
  BY Split, SizeAssumption
     DEF IInv, updateClientProgress, ToKernel, DataOK, Order, Active, Data, GuiStream
<1>2. PICK sz \in Nat : sz = Size[sendfile]
  BY <1>1, SizeAssumption
<1>3. PICK m \in Nat : m = Len(buf)
  BY <1>1, LenProperties
<1>4. PICK e \in Nat : e = sz - left /\ e <= sz /\ m <= e
  BY <1>1, <1>2, <1>3
<1>5. PICK g \in Nat : g = e - m /\ g = Gone
  BY <1>2, <1>3, <1>4 DEF Gone
<1>6. PICK k \in Nat : k = g + n /\ g <= k /\ k <= e /\ k <= sz /\ n \in 0..(e - g)
  BY <1>3, <1>4, <1>5
<1>7. buf = Piece(sendfile, g, e)
  BY <1>1, <1>2, <1>4, <1>5
<1>8. First(buf, n) = Piece(sendfile, g, k)
  <2>1. sendfile \in Files /\ e \in 0..Size[sendfile] /\ g \in 0..e /\ n \in 0..(e - g)
    BY <1>1, <1>2, <1>4, <1>5, <1>6
  <2>2. First(Piece(sendfile, g, e), n) = Piece(sendfile, g, g + n)
    BY <2>1, PieceCut, Zenon
  <2>3. QED BY <1>6, <1>7, <2>2
<1>9. PICK c \in Nat : /\ e <= c /\ c <= sz /\ k <= c /\ left' = sz - c
                       /\ buf' = Piece(sendfile, k, c) /\ shown' \in {"Sending", "Finished"}
  <2>1. sendfile \in Files /\ e \in 0..Size[sendfile] /\ g \in 0..e /\ n \in 0..(e - g)
    BY <1>1, <1>2, <1>4, <1>6
  <2>2. left = Size[sendfile] - e
    <3>1. PICK l \in Nat : l = left
      BY <1>1
    <3>2. l = sz - e
      BY <1>4, <3>1
    <3>3. QED BY <1>2, <3>1, <3>2
  <2>3. PICK c \in e..Size[sendfile] : /\ left' = Size[sendfile] - c
                                       /\ buf' = Piece(sendfile, g + n, c)
                                       /\ shown' \in {"Sending", "Finished"}
    BY <1>7, <2>1, <2>2, BufferMoves, Zenon
  <2>4. c \in Nat /\ e <= c /\ c <= sz /\ k <= c
    BY <1>2, <1>4, <1>6, <2>3
  <2>5. QED BY <1>2, <1>6, <2>3, <2>4, Zenon
<1>10. UNCHANGED <<sendfile, sock, udp, link, olds, daemon, faults>>
  BY DEF updateClientProgress
<1>11. buf' \in Data /\ Len(buf') = c - k
  <2>1. sendfile \in Files /\ c \in 0..Size[sendfile] /\ k \in 0..c
    BY <1>1, <1>2, <1>9
  <2>2. QED BY <1>9, <2>1, PieceType, Zenon
<1>12. Gone' = k
  <2>1. Gone' = sz - (sz - c) - (c - k)
    BY <1>2, <1>9, <1>10, <1>11, Zenon DEF Gone
  <2>2. sz - (sz - c) - (c - k) = k
    BY <1>6
  <2>3. QED BY <2>1, <2>2
<1>13. GuiStream'
  <2>1. Size[sendfile]' = sz /\ sz - left' = c /\ left' <= sz /\ c - k <= c
    BY <1>2, <1>9, <1>10
  <2>2. QED BY <1>1, <1>9, <1>10, <1>11, <1>12, <2>1 DEF GuiStream
<1>14. NetStream' /\ wire' \in Data
  <2>1. CASE link \in {"pending", "live"}
    <3>1. recv + Len(wire) = g /\ wire = Piece(sendfile, recv, g) /\ wire \in Seq(Units)
      BY <1>5, <2>1, Split DEF IInv, NetStream, DataOK, Data
    <3>2. recv \in 0..g
      BY <1>1, <3>1, LenProperties
    <3>3. wire' = Piece(sendfile, recv, g) \o Piece(sendfile, g, k)
      BY <1>8, <2>1, <3>1 DEF updateClientProgress, ToKernel
    <3>4. /\ sendfile \in Files /\ k \in 0..Size[sendfile] /\ g \in 0..k
          /\ recv \in 0..k /\ recv + (k - recv) = k
      BY <1>1, <1>2, <1>6, <3>2
    <3>5. wire' = Piece(sendfile, recv, k)
      BY <3>2, <3>3, <3>4, PieceConcat, Zenon
    <3>6. wire' \in Data /\ Len(wire') = k - recv
      BY <3>4, <3>5, PieceType, Zenon
    <3>7. QED BY <1>10, <1>12, <2>1, <3>4, <3>5, <3>6 DEF NetStream, daemon
  <2>2. CASE link \notin {"pending", "live"}
    <3>1. link = "closed"
      BY <1>1, <2>2, Split DEF IInv, DataOK, Order
    <3>2. wire' = <<>>
      BY <3>1 DEF updateClientProgress, ToKernel
    <3>3. QED BY <1>10, <2>2, <3>2, NoData DEF NetStream
  <2>3. QED BY <2>1, <2>2
<1>15. DataOK'
  <2>1. left' \in Nat
    BY <1>9
  <2>2. QED BY <1>1, <1>9, <1>10, <1>11, <1>14, <2>1, Split DEF IInv, DataOK, udp, daemon
<1>16. Order' /\ Counting' /\ Saved' /\ LoadedComplete'
  BY <1>10 DEF IInv, Order, Counting, Active, Saved, LoadedComplete, udp, daemon
<1>17. QED BY <1>13, <1>14, <1>15, <1>16 DEF Kept

(* The connection's end, as the GUI sees it.                               *)
LEMMA GuiEndKeeps == IInv /\ (RemoteClosed \/ TCP_Error) => Kept'
<1> SUFFICES ASSUME IInv PROVE RemoteClosed \/ TCP_Error => Kept'
  OBVIOUS
<1> USE Split, NoData, FilesAssumption DEF IInv, Kept, udp, daemon
<1>1. CASE RemoteClosed
  <2>1. DataOK' /\ Order' /\ Counting' /\ LoadedComplete'
    BY <1>1 DEF RemoteClosed, DataOK, Order, Counting, Active, LoadedComplete
  <2>2. GuiStream' /\ NetStream' /\ Saved'
    BY <1>1 DEF RemoteClosed, GuiStream, NetStream, Saved
  <2>3. QED BY <2>1, <2>2
<1>2. CASE TCP_Error
  <2>1. DataOK' /\ Order' /\ LoadedComplete'
    BY <1>2 DEF TCP_Error, Fault, DataOK, Order, Active, LoadedComplete
  <2>2. Counting'
    BY <1>2 DEF TCP_Error, Counting, Active, Order, DataOK
  <2>3. GuiStream' /\ NetStream' /\ Saved'
    BY <1>2 DEF TCP_Error, GuiStream, NetStream, Saved
  <2>4. QED BY <2>1, <2>2, <2>3
<1>3. QED BY <1>1, <1>2

-----------------------------------------------------------------------------
(* The daemon's steps.                                                     *)

(* All but the reading.                                                    *)
LEMMA DaemonKeeps == IInv /\ (TCP_connection \/ ServerError \/ Restart) => Kept'
<1> SUFFICES ASSUME IInv PROVE TCP_connection \/ ServerError \/ Restart => Kept'
  OBVIOUS
<1> USE Split, NoData, FilesAssumption, SizeAssumption DEF IInv, Kept, gui, udp
<1>1. CASE TCP_connection
  <2>1. DataOK' /\ Order' /\ Counting' /\ LoadedComplete'
    BY <1>1 DEF TCP_connection, daemon, DataOK, Order, Counting, Active, LoadedComplete
  <2>2. GuiStream' /\ NetStream' /\ Saved'
    BY <1>1 DEF TCP_connection, daemon, GuiStream, NetStream, Saved, Gone, Counting, Active, Order
  <2>3. QED BY <2>1, <2>2
<1>2. CASE ServerError
  <2> USE DEF ServerError, CloseCurrent, OnFileDone, Fault
  <2>1. DataOK' /\ Order' /\ LoadedComplete'
    BY <1>2 DEF DataOK, Order, Active, LoadedComplete
  <2>2. Counting' /\ Saved'
    BY <1>2 DEF Counting, Active, Order, Saved, DataOK
  <2>3. GuiStream' /\ NetStream'
    BY <1>2 DEF GuiStream, NetStream, Gone, Counting, Active, Order, DataOK
  <2>4. QED BY <2>1, <2>2, <2>3
<1>3. CASE Restart
  <2> USE DEF Restart, Fault
  <2>1. DataOK' /\ Order' /\ LoadedComplete'
    BY <1>3 DEF DataOK, Order, Active, LoadedComplete
  <2>2. Counting' /\ Saved'
    BY <1>3 DEF Counting, Active, Order, Saved
  <2>3. GuiStream' /\ NetStream'
    BY <1>3 DEF GuiStream, NetStream, Gone
  <2>4. QED BY <2>1, <2>2, <2>3
<1>4. QED BY <1>1, <1>2, <1>3

(* What is read is the next piece of the file: it is saved behind what is  *)
(* saved, and when all are there, the whole file is loaded.                *)
LEMMA ReadKeeps ==
  ASSUME NEW n \in 1..Len(wire)
  PROVE  IInv /\ TCP_read(n) =>
           Kept' /\ (installed' = installed \/ installed' = Whole(sendfile))
<1> SUFFICES ASSUME IInv, TCP_read(n)
             PROVE  Kept' /\ (installed' = installed \/ installed' = Whole(sendfile))
  OBVIOUS
<1>1. /\ sendfile \in Files /\ sock = "connected" /\ link = "live" /\ recv \in Nat
      /\ left \in Nat /\ buf \in Seq(Units) /\ wire \in Seq(Units)
      /\ wire = Piece(sendfile, recv, Gone) /\ recv + Len(wire) = Gone
      /\ recv > 0 => disk = Piece(sendfile, 0, recv)
  BY Split, SizeAssumption
     DEF IInv, TCP_read, DataOK, Order, Active, Data, NetStream, Saved
<1>2. total = Size[sendfile] /\ recv < total /\ total \in Nat
  <2>1. total = Size[sendfile]
    BY <1>1 DEF IInv, Counting, Active, TCP_read
  <2>2. QED BY <1>1, <2>1, SizeAssumption DEF IInv, Counting
<1>3. PICK sz \in Nat : sz = Size[sendfile] /\ sz = total /\ recv < sz
  BY <1>2
<1>4. PICK g \in Nat : g = Gone /\ n <= g - recv /\ recv <= g /\ g <= sz
  <2>1. PICK m \in Nat : m = Len(buf)
    BY <1>1, LenProperties
  <2>2. PICK w \in Nat : w = Len(wire)
    BY <1>1, LenProperties
  <2>3. Gone = sz - left - m
    BY <1>3, <2>1 DEF Gone
  <2>4. Gone \in Nat /\ n <= Gone - recv /\ recv <= Gone /\ Gone <= sz
    BY <1>1, <2>1, <2>2, <2>3
  <2>5. QED BY <2>4, Zenon
<1>5. PICK k \in Nat : k = recv + n /\ recv <= k /\ k <= g /\ k <= sz /\ k > 0 /\ n \in 0..(g - recv)
  BY <1>1, <1>4
<1> DEFINE opened == IF recv = 0 THEN <<>> ELSE disk
<1>6. First(wire, n) = Piece(sendfile, recv, k) /\ Rest(wire, n) = Piece(sendfile, k, g)
  <2>1. sendfile \in Files /\ g \in 0..Size[sendfile] /\ recv \in 0..g /\ n \in 0..(g - recv)
    BY <1>1, <1>3, <1>4, <1>5
  <2>2. /\ First(Piece(sendfile, recv, g), n) = Piece(sendfile, recv, recv + n)
        /\ Rest(Piece(sendfile, recv, g), n) = Piece(sendfile, recv + n, g)
    BY <2>1, PieceCut, Zenon
  <2>3. QED BY <1>1, <1>4, <1>5, <2>2
<1>7. opened = Piece(sendfile, 0, recv)
  <2>1. sendfile \in Files /\ 0 \in 0..Size[sendfile]
    BY SizeAssumption, <1>1
  <2>2. Piece(sendfile, 0, 0) = <<>>
    BY <2>1, NoPiece, Zenon
  <2>3. QED BY <1>1, <2>2
<1>8. disk' = Piece(sendfile, 0, k)
  <2>1. disk' = opened \o First(wire, n)
    BY <1>2 DEF TCP_read
  <2>2. sendfile \in Files /\ k \in 0..Size[sendfile] /\ recv \in 0..k /\ 0 \in 0..recv
    BY <1>1, <1>3, <1>5
  <2>3. Piece(sendfile, 0, recv) \o Piece(sendfile, recv, k) = Piece(sendfile, 0, k)
    BY <2>2, PieceConcat, Zenon
  <2>4. QED BY <1>6, <1>7, <2>1, <2>3, Zenon
<1>9. disk' \in Data
  <2>1. sendfile \in Files /\ k \in 0..Size[sendfile] /\ 0 \in 0..k
    BY <1>1, <1>3, <1>5
  <2>2. QED BY <1>8, <2>1, PieceType, Zenon
<1>10. UNCHANGED <<gui, udp, olds, named, faults>>
  BY DEF TCP_read
<1>11. GuiStream' /\ Gone' = g
  BY <1>4, <1>10 DEF IInv, GuiStream, Gone, gui
<1> HIDE DEF opened
<1>12. CASE k = sz
  <2>1. /\ link' = "closed" /\ wire' = <<>> /\ recv' = 0 /\ total' = 0
        /\ installed' = disk'
    BY <1>1, <1>2, <1>3, <1>5, <1>12 DEF TCP_read, CloseCurrent, OnFileDone
  <2>2. installed' = Whole(sendfile)
    BY <1>1, <1>3, <1>8, <1>12, <2>1, WholePiece
  <2>3. DataOK'
    BY <1>9, <1>10, <2>1, NoData, Split DEF IInv, DataOK, gui, udp
  <2>4. Order' /\ Counting' /\ Saved' /\ NetStream'
    BY <1>1, <1>10, <2>1 DEF IInv, Order, Counting, Active, Saved, NetStream, gui, udp
  <2>5. LoadedComplete'
    BY <1>1, <2>2 DEF LoadedComplete, Whole
  <2>6. QED BY <1>11, <2>2, <2>3, <2>4, <2>5 DEF Kept
<1>13. CASE k # sz
  <2>1. /\ wire' = Piece(sendfile, k, g) /\ recv' = k
        /\ UNCHANGED <<link, total, installed>>
    BY <1>1, <1>2, <1>3, <1>5, <1>6, <1>13 DEF TCP_read
  <2>2. wire' \in Data /\ Len(wire') = g - k
    <3>1. sendfile \in Files /\ g \in 0..Size[sendfile] /\ k \in 0..g
      BY <1>1, <1>3, <1>4, <1>5
    <3>2. QED BY <2>1, <3>1, PieceType, Zenon
  <2>3. DataOK'
    <3>1. recv' \in 0..total'
      BY <1>3, <1>5, <2>1
    <3>2. QED BY <1>9, <1>10, <2>1, <2>2, <3>1, Split DEF IInv, DataOK, gui, udp
  <2>4. Order' /\ LoadedComplete'
    BY <1>1, <1>10, <2>1 DEF IInv, Order, Active, LoadedComplete, gui, udp
  <2>5. Counting' /\ Saved'
    <3>1. k < sz /\ link' = "live" /\ sendfile' = sendfile /\ total' = sz
      BY <1>1, <1>3, <1>5, <1>10, <1>13, <2>1 DEF gui
    <3>2. Counting'
      BY <1>3, <2>1, <3>1 DEF Counting, Active
    <3>3. Saved'
      BY <1>8, <2>1, <3>1 DEF Saved
    <3>4. QED BY <3>2, <3>3
  <2>6. NetStream'
    BY <1>1, <1>4, <1>5, <1>10, <1>11, <2>1, <2>2 DEF NetStream, gui
  <2>7. QED BY <1>11, <2>1, <2>3, <2>4, <2>5, <2>6 DEF Kept
<1>14. QED BY <1>12, <1>13

(* The two flags stay Booleans.                                            *)
LEMMA FlagsKept == FlagsOK /\ [Next]_vars => FlagsOK'
<1> SUFFICES ASSUME FlagsOK PROVE [Next]_vars => FlagsOK'
  OBVIOUS
<1> USE Zenon DEF FlagsOK
<1>1. ASSUME NEW f \in Files, Download(f) PROVE FlagsOK'
  BY <1>1 DEF Download, daemon
<1>2. CASE Lose
  BY <1>2 DEF Lose, daemon
<1>3. CASE UDP_cmd_file \/ RecvAck \/ startTransfer
  BY <1>3 DEF UDP_cmd_file, RecvAck, startTransfer, udp, daemon
<1>4. ASSUME NEW n \in 1..Len(buf), updateClientProgress(n) PROVE FlagsOK'
  BY <1>4 DEF updateClientProgress, udp, daemon
<1>5. CASE RemoteClosed \/ TCP_Error \/ TCP_connection
  BY <1>5 DEF RemoteClosed, TCP_Error, TCP_connection, udp, daemon
<1>6. ASSUME NEW n \in 1..Len(wire), TCP_read(n) PROVE FlagsOK'
  BY <1>6 DEF TCP_read, udp
<1>7. CASE ServerError \/ Restart
  BY <1>7 DEF ServerError, Restart, udp
<1>8. CASE UNCHANGED vars
  BY <1>8 DEF vars, udp, daemon
<1>9. QED BY <1>1, <1>2, <1>3, <1>4, <1>5, <1>6, <1>7, <1>8 DEF Next, BytesWritten, ReadyRead

(* A step that changes nothing.                                            *)
LEMMA StutterKeeps == IInv /\ UNCHANGED vars => Kept'
BY Split DEF IInv, Kept, vars, gui, udp, tcp, daemon, DataOK, Order, Active, Counting,
   GuiStream, Gone, NetStream, Saved, LoadedComplete

-----------------------------------------------------------------------------
(* The invariant, for all files, sizes, payloads and faults.               *)

(* Every step keeps the invariant.                                         *)
LEMMA StepIInv == IInv /\ [Next]_vars => IInv'
<1> SUFFICES ASSUME IInv, [Next]_vars PROVE IInv'
  OBVIOUS
<1>1. Kept'
  BY AnnounceKeeps, StartKeeps, ProgressKeeps, GuiEndKeeps, DaemonKeeps, ReadKeeps, StutterKeeps,
     Zenon DEF Next, BytesWritten, ReadyRead
<1>2. FlagsOK'
  BY FlagsKept, Split, Zenon DEF IInv
<1>3. TypeOK'
  BY <1>1, <1>2, Zenon DEF Kept, TypeOK, DataOK, FlagsOK
<1>4. QED BY <1>1, <1>3, Zenon DEF Kept, IInv

(* IInv holds in every reachable state: every byte saved, in flight or in  *)
(* the GUI's buffer is where it belongs in the file that is sent.          *)
THEOREM Invariance == Spec => []IInv
BY InitIInv, StepIInv, PTL DEF Spec

(* The daemon never counts more bytes than were announced.                 *)
THEOREM TypeCorrect == Spec => []TypeOK
<1>1. IInv => TypeOK
  BY DEF IInv
<1>2. QED BY <1>1, Invariance, PTL

(* What the daemon loads is one of the user's files, whole and in order.   *)
THEOREM FilesComplete == Spec => []LoadedComplete
<1>1. IInv => LoadedComplete
  BY DEF IInv
<1>2. QED BY <1>1, Invariance, PTL

(* More than that: at the moment it is loaded, it is the file that the GUI *)
(* has open, never one of an earlier transfer.                             *)
THEOREM LoadsTheFileSent ==
  Spec => [][installed' # installed => installed' = Whole(sendfile)]_vars
<1>1. IInv /\ [Next]_vars => [installed' # installed => installed' = Whole(sendfile)]_vars
  <2> SUFFICES ASSUME IInv, [Next]_vars, installed' # installed
               PROVE  installed' = Whole(sendfile)
    OBVIOUS
  <2>1. \A n \in 1..Len(wire) : TCP_read(n) => installed' = Whole(sendfile)
    BY ReadKeeps
  <2>2. ~ UNCHANGED daemon
    BY DEF daemon
  <2>3. QED BY <2>1, <2>2
     DEF Next, vars, Download, Lose, UDP_cmd_file, RecvAck, startTransfer, BytesWritten,
         updateClientProgress, RemoteClosed, TCP_Error, TCP_connection, ReadyRead, ServerError,
         OnFileDone, Restart
<1>2. QED BY <1>1, Invariance, PTL DEF Spec
=============================================================================
