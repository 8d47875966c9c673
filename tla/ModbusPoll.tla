------------------------------ MODULE ModbusPoll ------------------------------
(***************************************************************************)
(* The Modbus test master (iTmsTest): it asks the slave for one kind of    *)
(* data after the other, five times a second, writes what the user asks it *)
(* to write, connects again when too many answers are missing, and saves a *)
(* tag in its history when an answer shows a new alarm of it.              *)
(*                                                                         *)
(* Requests wait in the queue of QModbusClient, which has one of them on   *)
(* the line; a request ends with an answer, an exception, a timeout or a   *)
(* disconnection, and only an answer counts as a reply.  The data other    *)
(* than tag count, EPCs and alarms is "other"; the slave: ModbusSlave.     *)
(***************************************************************************)
EXTENDS Integers, Sequences, SequencesExt

CONSTANTS
  Epcs, NoEpc,  \* EPCs; what a tag has before it is read
  MaxTags,      \* 48
  Configs,      \* the tags a slave may have: their EPCs by sid
  EpcMax,       \* tags whose EPCs fit into one answer: 15 (125 registers)
  Limit,        \* replies that may be missing: 20
  Slack,        \* polls in a second: 5
  Waiting,      \* requests that wait at most while the slave answers
  MaxActs,      \* what the user does in all
  MaxFaults     \* faults and changes of the slave in all

ASSUME ConfigsAssumption ==
  /\ MaxTags \in Nat \ {0} /\ NoEpc \notin Epcs
  /\ \A c \in Configs : c \in Seq(Epcs) /\ Len(c) <= MaxTags
ASSUME BoundsAssumption ==
  /\ Limit \in Nat /\ Slack \in Nat \ {0} /\ Waiting \in Nat \ {0} /\ EpcMax \in Nat
  /\ MaxActs \in Nat /\ MaxFaults \in Nat

VARIABLES
  slave,        \* its tags
  alarms,       \* sids that have an alarm
  answers,      \* the slave answers
  port,         \* the serial adapter is there
  connected,    \* state of modbus
  queue,        \* requests of modbus: kind, and tags asked for
  missing,      \* request_cnt - reply_cnt
  writeRequest, \* its register type
  m_nTagStm, m_CurrentTagcnt,
  listTags,     \* T_epc and T_alarm by sid
  saved,        \* sids with a row of their present alarm, and their EPC
  acts, faults

line == <<slave, alarms, answers, port>>
master == <<m_nTagStm, m_CurrentTagcnt, listTags>>
vars == <<line, connected, queue, missing, writeRequest, master, saved, acts, faults>>

\* The kinds of data in the order of STM_TAG.
Stm == <<"other", "count", "epc", "alarm">>
Sids == 1..MaxTags

-----------------------------------------------------------------------------
Init ==
  /\ slave \in Configs /\ alarms = {} /\ answers = TRUE /\ port = TRUE
  /\ connected = FALSE /\ queue = <<>> /\ missing = 0 /\ writeRequest = "Invalid"
  /\ m_nTagStm = 1 /\ m_CurrentTagcnt = 0 /\ listTags = <<>>
  /\ saved = {} /\ acts = 0 /\ faults = 0

-----------------------------------------------------------------------------
(* The timers.                                                             *)

readRequest ==
  [kind |-> Stm[m_nTagStm], n |-> IF Stm[m_nTagStm] \in {"epc", "alarm"} THEN m_CurrentTagcnt ELSE 1]

\* read and modbuswrite: what is sent while not connected is dropped.
Send(request) ==
  IF connected /\ request.n > 0
  THEN queue' = Append(queue, request) /\ missing' = missing + 1
  ELSE UNCHANGED <<queue, missing>>

\* Slack: the check below comes once in that many polls.  Waiting: a poll
\* comes 200 ms after the one before, and an answer is not later.
Poll ==
  /\ missing < Limit + Slack /\ (answers /\ port => Len(queue) < Waiting)
  /\ IF writeRequest # "Invalid"
     THEN /\ Send([kind |-> "write", n |-> 1])
          /\ writeRequest' = "Invalid" /\ UNCHANGED m_nTagStm
     ELSE /\ Send(readRequest)
          /\ m_nTagStm' = IF m_nTagStm = Len(Stm) THEN 1 ELSE m_nTagStm + 1
          /\ UNCHANGED writeRequest
  /\ UNCHANGED <<line, connected, m_CurrentTagcnt, listTags, saved, acts, faults>>

\* Faulty variant: what was asked before the reset may still be answered.
CloseKeeping == missing' = 0 /\ UNCHANGED queue

\* The counters start anew; what is in the queue is aborted.
Close == missing' = 0 /\ queue' = <<>>

Check ==
  /\ missing > Limit /\ Close /\ connected' = port
  /\ UNCHANGED <<line, writeRequest, master, saved, acts, faults>>

-----------------------------------------------------------------------------
(* The end of a request.                                                   *)

\* The count, and the tags if there are none yet.
TagCount ==
  /\ m_CurrentTagcnt' = Len(slave)
  /\ listTags' = IF listTags # <<>> THEN listTags
                 ELSE [i \in 1..Len(slave) |-> [epc |-> NoEpc, alarm |-> FALSE]]

SetEpcs(n) ==
  listTags' = [i \in DOMAIN listTags |->
                 IF i > n THEN listTags[i]
                 ELSE [listTags[i] EXCEPT !.epc = IF i \in DOMAIN slave THEN slave[i] ELSE NoEpc]]

New(i) == i \in DOMAIN listTags /\ i \in alarms /\ ~listTags[i].alarm

\* The loop counter is also the millisecond of a row (i++), so the tag after
\* one with a new alarm is passed over.
Visited(n) ==
  LET at[i \in 1..n] == i = 1 \/ ~(at[i - 1] /\ New(i - 1))
  IN  {i \in 1..n : at[i]}

Rows(sids) ==
  saved' = saved \cup {i \in sids : i \in DOMAIN slave /\ listTags[i].epc = slave[i]}

\* Faulty variant: the alarm of a tag that is passed over counts as seen.
SetAlarmsAll(n) ==
  /\ Rows({i \in Visited(n) : New(i)})
  /\ listTags' = [i \in DOMAIN listTags |->
                    IF i \in 1..n THEN [listTags[i] EXCEPT !.alarm = i \in alarms]
                    ELSE listTags[i]]

SetAlarms(n) ==
  /\ Rows({i \in Visited(n) : New(i)})
  /\ listTags' = [i \in DOMAIN listTags |->
                    IF i \in Visited(n) THEN [listTags[i] EXCEPT !.alarm = i \in alarms]
                    ELSE listTags[i]]

dataHandler(request) ==
  CASE request.kind = "count" -> TagCount /\ UNCHANGED saved
    [] request.kind = "epc"   -> SetEpcs(request.n) /\ UNCHANGED <<m_CurrentTagcnt, saved>>
    [] request.kind = "alarm" -> SetAlarms(request.n) /\ UNCHANGED m_CurrentTagcnt
    [] OTHER                  -> UNCHANGED <<m_CurrentTagcnt, listTags, saved>>

\* Too many registers in one request are answered with an exception.
Refused(request) == request.kind = "epc" /\ request.n > EpcMax

readReady ==
  /\ queue # <<>> /\ answers /\ port
  /\ queue' = Tail(queue)
  /\ IF Refused(Head(queue))
     THEN UNCHANGED <<missing, m_CurrentTagcnt, listTags, saved>>
     ELSE missing' = missing - 1 /\ dataHandler(Head(queue))
  /\ UNCHANGED <<line, connected, writeRequest, m_nTagStm, acts, faults>>

Timeout ==
  /\ queue # <<>> /\ ~(answers /\ port)
  /\ queue' = Tail(queue)
  /\ UNCHANGED <<line, connected, missing, writeRequest, master, saved, acts, faults>>

-----------------------------------------------------------------------------
(* The user.                                                               *)

User == acts < MaxActs /\ acts' = acts + 1 /\ UNCHANGED <<line, master, saved, faults>>

OnConnect ==
  /\ User /\ ~connected /\ connected' = port
  /\ UNCHANGED <<queue, missing, writeRequest>>

OnDisconnect ==
  /\ User /\ connected /\ Close /\ connected' = FALSE
  /\ UNCHANGED writeRequest

\* A request that has not been sent is replaced.
onSetTempLimit ==
  /\ User /\ listTags # <<>> /\ writeRequest' = "HoldingRegisters"
  /\ UNCHANGED <<connected, queue, missing>>

OnSetRdPower ==
  /\ User /\ writeRequest' = "HoldingRegisters"
  /\ UNCHANGED <<connected, queue, missing>>

-----------------------------------------------------------------------------
(* The slave and the line.                                                 *)

Others == UNCHANGED <<connected, queue, missing, writeRequest, master, acts>>
Fault == faults < MaxFaults /\ faults' = faults + 1

AlarmChanges(i) ==
  /\ i \in DOMAIN slave
  /\ alarms' = IF i \in alarms THEN alarms \ {i} ELSE alarms \cup {i}
  /\ saved' = saved \ {i}
  /\ UNCHANGED <<slave, answers, port, faults>> /\ Others

\* Another iTmsRdm.xml: MB_init fills all registers anew.
NewConfig ==
  /\ Fault /\ slave' \in Configs \ {slave} /\ alarms' = {} /\ saved' = {}
  /\ UNCHANGED <<answers, port>> /\ Others

SilentOrNot ==
  /\ answers' = ~answers /\ (Fault \/ (answers' /\ UNCHANGED faults))
  /\ UNCHANGED <<slave, alarms, port, saved>> /\ Others

\* modbus may notice.
PortGone ==
  /\ Fault /\ port /\ port' = FALSE
  /\ \/ UNCHANGED <<connected, queue>>
     \/ connected' = FALSE /\ queue' = <<>>
  /\ UNCHANGED <<slave, alarms, answers, saved, missing, writeRequest, master, acts>>

PortBack ==
  /\ ~port /\ port' = TRUE
  /\ UNCHANGED <<slave, alarms, answers, saved, faults>> /\ Others

-----------------------------------------------------------------------------
Next ==
  \/ Poll \/ Check \/ readReady \/ Timeout
  \/ OnConnect \/ OnDisconnect \/ onSetTempLimit \/ OnSetRdPower
  \/ \E i \in Sids : AlarmChanges(i)
  \/ NewConfig \/ SilentOrNot \/ PortGone \/ PortBack

(* The timers fire, and a request ends.                                    *)
Fairness == WF_vars(Poll) /\ WF_vars(Check) /\ WF_vars(readReady) /\ WF_vars(Timeout)

Spec == Init /\ [][Next]_vars /\ Fairness

-----------------------------------------------------------------------------
(* The type invariant; and the counters (request_cnt, reply_cnt): replies  *)
(* are missing for the requests that wait, at least, however often they    *)
(* were reset, and nothing waits while modbus is not connected.            *)
TypeOK ==
  /\ slave \in Configs /\ alarms \subseteq DOMAIN slave
  /\ {answers, port, connected} \subseteq BOOLEAN
  /\ \A r \in ToSet(queue) : r.kind \in ToSet(Stm) \cup {"write"} /\ r.n \in Sids
  /\ missing \in Len(queue)..(Limit + Slack) /\ (queue # <<>> => connected)
  /\ writeRequest \in {"Invalid", "HoldingRegisters"}
  /\ m_nTagStm \in DOMAIN Stm /\ m_CurrentTagcnt \in 0..MaxTags
  /\ \A t \in ToSet(listTags) : t.epc \in Epcs \cup {NoEpc} /\ t.alarm \in BOOLEAN
  /\ saved \subseteq alarms

(* "Save tag data when it's a new alarm" (iTmsTest.cpp:553): an alarm that *)
(* lasts, of a tag whose last one was seen to end and whose EPC is known,  *)
(* gets its row, with this EPC, although answers are lost, the connection  *)
(* is made anew, and a tag is passed over when the one before it alarms;   *)
(* as long as the slave answers and the reconnection does not fail.        *)
AlarmSaved ==
  \A i \in Sids :
    (i \in alarms /\ i \in DOMAIN listTags /\ ~listTags[i].alarm /\ listTags[i].epc = slave[i])
      ~> (i \in saved \/ i \notin alarms \/ ~connected \/ ~answers \/ ~port)
=============================================================================
