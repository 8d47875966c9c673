--------------------------- MODULE ModbusPollProofs ---------------------------
(***************************************************************************)
(* The types of ModbusPoll, for any slaves and any length of the queue:    *)
(* the counters cover exactly what waits, and nothing waits without a      *)
(* connection.                                                             *)
(***************************************************************************)
EXTENDS ModbusPoll, SequenceTheorems, TLAPS

(* What waits in the queue, and what is known of a tag.                    *)
Requests == [kind : {"other", "count", "epc", "alarm", "write"}, n : Sids]
Seen == [epc : Epcs \cup {NoEpc}, alarm : BOOLEAN]

(* The slave; a row is saved only of an alarm that there is.               *)
SlaveOK == slave \in Configs /\ alarms \subseteq DOMAIN slave /\ saved \subseteq alarms

(* The counters cover what waits; nothing waits without a connection.      *)
QueueOK ==
  /\ queue \in Seq(Requests) /\ missing \in Nat
  /\ Len(queue) <= missing /\ missing <= Limit + Slack
  /\ queue # <<>> => connected

MasterOK ==
  /\ writeRequest \in {"Invalid", "HoldingRegisters"}
  /\ m_nTagStm \in 1..4 /\ m_CurrentTagcnt \in 0..MaxTags
  /\ listTags \in Seq(Seen)

FlagsOK == {answers, port, connected} \subseteq BOOLEAN

IInv == SlaveOK /\ QueueOK /\ MasterOK /\ FlagsOK

-----------------------------------------------------------------------------
(* The four kinds of data.                                                 *)
LEMMA Kinds ==
  /\ DOMAIN Stm = 1..4 /\ Len(Stm) = 4
  /\ \A i \in 1..4 : Stm[i] \in {"other", "count", "epc", "alarm"}
  /\ ToSet(Stm) = {"other", "count", "epc", "alarm"}
<1>1. DOMAIN Stm = 1..4 /\ Len(Stm) = 4
  BY DEF Stm
<1>2. Stm[1] = "other" /\ Stm[2] = "count" /\ Stm[3] = "epc" /\ Stm[4] = "alarm"
  BY DEF Stm
<1>3. \A i \in 1..4 : i = 1 \/ i = 2 \/ i = 3 \/ i = 4
  OBVIOUS
<1>4. QED BY <1>1, <1>2, <1>3 DEF ToSet

(* A slave has at most MaxTags tags.                                       *)
LEMMA SlaveTags ==
  ASSUME NEW c \in Configs
  PROVE  DOMAIN c = 1..Len(c) /\ Len(c) \in 0..MaxTags
BY ConfigsAssumption, LenProperties

(* The invariant is stronger than TypeOK.                                  *)
LEMMA IInvTypes == IInv => TypeOK
<1> SUFFICES ASSUME IInv PROVE TypeOK
  OBVIOUS
<1>1. slave \in Configs /\ alarms \subseteq DOMAIN slave /\ saved \subseteq alarms
  BY DEF IInv, SlaveOK
<1>2. \A r \in ToSet(queue) : r.kind \in ToSet(Stm) \cup {"write"} /\ r.n \in Sids
  <2>1. \A r \in ToSet(queue) : r \in Requests
    BY ElementOfSeq, LenProperties DEF IInv, QueueOK, ToSet
  <2>2. QED BY <2>1, Kinds DEF Requests
<1>3. missing \in Len(queue)..(Limit + Slack) /\ (queue # <<>> => connected)
  BY LenProperties, BoundsAssumption DEF IInv, QueueOK
<1>4. /\ writeRequest \in {"Invalid", "HoldingRegisters"}
      /\ m_nTagStm \in DOMAIN Stm /\ m_CurrentTagcnt \in 0..MaxTags
  BY Kinds DEF IInv, MasterOK
<1>5. \A t \in ToSet(listTags) : t.epc \in Epcs \cup {NoEpc} /\ t.alarm \in BOOLEAN
  <2>1. \A t \in ToSet(listTags) : t \in Seen
    BY ElementOfSeq, LenProperties DEF IInv, MasterOK, ToSet
  <2>2. QED BY <2>1 DEF Seen
<1>6. {answers, port, connected} \subseteq BOOLEAN
  BY DEF IInv, FlagsOK
<1>7. QED BY <1>1, <1>2, <1>3, <1>4, <1>5, <1>6, Zenon DEF TypeOK

(* The initial states satisfy it.                                          *)
LEMMA InitIInv == Init => IInv
<1> SUFFICES ASSUME Init PROVE IInv
  OBVIOUS
<1>1. SlaveOK
  BY DEF Init, SlaveOK
<1>2. QueueOK
  BY EmptySeq, BoundsAssumption DEF Init, QueueOK
<1>3. MasterOK
  BY EmptySeq, ConfigsAssumption DEF Init, MasterOK
<1>4. FlagsOK
  BY DEF Init, FlagsOK
<1>5. QED BY <1>1, <1>2, <1>3, <1>4 DEF IInv

-----------------------------------------------------------------------------
(* The flags.                                                              *)
LEMMA FlagsKept == FlagsOK /\ [Next]_vars => FlagsOK'
<1> SUFFICES ASSUME FlagsOK, [Next]_vars PROVE FlagsOK'
  OBVIOUS
<1>1. answers \in BOOLEAN /\ port \in BOOLEAN /\ connected \in BOOLEAN
  BY DEF FlagsOK
<1>2. answers' \in BOOLEAN
  BY <1>1 DEF Next, vars, line, Poll, Check, readReady, Timeout, OnConnect, OnDisconnect,
     onSetTempLimit, OnSetRdPower, User, AlarmChanges, NewConfig, SilentOrNot, PortGone, PortBack
<1>3. port' \in BOOLEAN
  BY <1>1 DEF Next, vars, line, Poll, Check, readReady, Timeout, OnConnect, OnDisconnect,
     onSetTempLimit, OnSetRdPower, User, AlarmChanges, NewConfig, SilentOrNot, PortGone, PortBack
<1>4. connected' \in BOOLEAN
  BY <1>1 DEF Next, vars, line, Poll, Check, readReady, Timeout, OnConnect, OnDisconnect,
     onSetTempLimit, OnSetRdPower, User, AlarmChanges, NewConfig, SilentOrNot, PortGone, PortBack,
     Others
<1>5. QED BY <1>2, <1>3, <1>4 DEF FlagsOK

(* The slave and the rows: only the answer with the alarms adds rows.      *)
LEMMA SlaveKept == SlaveOK /\ [Next]_vars => SlaveOK'
<1> SUFFICES ASSUME SlaveOK, [Next]_vars PROVE SlaveOK'
  OBVIOUS
<1>1. CASE readReady
  <2>1. saved' \subseteq saved \cup alarms /\ UNCHANGED <<slave, alarms>>
    BY <1>1 DEF readReady, line, dataHandler, TagCount, SetEpcs, SetAlarms, Rows, New
  <2>2. QED BY <2>1 DEF SlaveOK
<1>2. ASSUME NEW i \in Sids, AlarmChanges(i) PROVE SlaveOK'
  BY <1>2 DEF AlarmChanges, SlaveOK
<1>3. CASE NewConfig
  BY <1>3 DEF NewConfig, SlaveOK
<1>4. CASE SilentOrNot \/ PortGone \/ PortBack
  BY <1>4 DEF SilentOrNot, PortGone, PortBack, SlaveOK
<1>5. CASE UNCHANGED <<line, saved>>
  BY <1>5 DEF line, SlaveOK
<1>6. CASE Poll \/ Check \/ Timeout \/ OnConnect \/ OnDisconnect \/ onSetTempLimit
           \/ OnSetRdPower \/ UNCHANGED vars
  BY <1>5, <1>6
     DEF Poll, Check, Timeout, OnConnect, OnDisconnect, onSetTempLimit, OnSetRdPower, User, vars
<1>7. QED BY <1>1, <1>2, <1>3, <1>4, <1>6 DEF Next

(* The queue and the counters.                                             *)
LEMMA SendKeeps ==
  ASSUME QueueOK, NEW r \in [kind : {"other", "count", "epc", "alarm", "write"}, n : 0..MaxTags],
         missing < Limit + Slack, Send(r), connected' = connected
  PROVE  QueueOK'
<1>1. CASE connected /\ r.n > 0
  <2>1. r \in Requests
    BY <1>1, ConfigsAssumption DEF Requests, Sids
  <2>2. queue' = Append(queue, r) /\ missing' = missing + 1
    BY <1>1 DEF Send
  <2>3. queue' \in Seq(Requests) /\ Len(queue') = Len(queue) + 1
    BY <2>1, <2>2, AppendProperties DEF QueueOK
  <2>4. QED BY <1>1, <2>2, <2>3, LenProperties, BoundsAssumption DEF QueueOK
<1>2. CASE ~(connected /\ r.n > 0)
  BY <1>2 DEF Send, QueueOK
<1>3. QED BY <1>1, <1>2

(* One request less waits.                                                 *)
LEMMA EndKeeps ==
  ASSUME QueueOK, queue # <<>>, queue' = Tail(queue), connected' = connected,
         missing' \in {missing, missing - 1}
  PROVE  QueueOK'
<1>1. queue' \in Seq(Requests) /\ Len(queue') = Len(queue) - 1
  BY HeadTailProperties DEF QueueOK
<1>2. Len(queue') \in Nat
  BY <1>1, LenProperties
<1>3. QED BY <1>1, <1>2, BoundsAssumption DEF QueueOK

(* Every step keeps the queue and its counters.                            *)
LEMMA QueueKept == IInv /\ [Next]_vars => QueueOK'
<1> SUFFICES ASSUME IInv, [Next]_vars PROVE QueueOK'
  OBVIOUS
<1>1. CASE Poll
  <2>1. missing < Limit + Slack /\ connected' = connected
    BY <1>1 DEF Poll
  <2>2. \/ Send([kind |-> "write", n |-> 1])
        \/ Send(readRequest)
    BY <1>1 DEF Poll
  <2>3. /\ [kind |-> "write", n |-> 1] \in [kind : {"other", "count", "epc", "alarm", "write"}, n : 0..MaxTags]
        /\ readRequest \in [kind : {"other", "count", "epc", "alarm", "write"}, n : 0..MaxTags]
    <3>1. 1 \in 0..MaxTags
      BY ConfigsAssumption
    <3>2. Stm[m_nTagStm] \in {"other", "count", "epc", "alarm"} /\ m_CurrentTagcnt \in 0..MaxTags
      BY Kinds DEF IInv, MasterOK
    <3>3. QED BY <3>1, <3>2 DEF readRequest
  <2>4. QED BY <2>1, <2>2, <2>3, SendKeeps DEF IInv
<1>0. <<>> \in Seq(Requests) /\ Len(<<>>) = 0 /\ Limit + Slack \in Nat
  BY EmptySeq, BoundsAssumption
<1>2. CASE Check \/ OnDisconnect
  <2>1. queue' = <<>> /\ missing' = 0
    BY <1>2 DEF Check, OnDisconnect, Close
  <2>2. QED BY <1>0, <2>1 DEF QueueOK
<1>3. CASE readReady \/ Timeout
  <2>1. /\ queue # <<>> /\ queue' = Tail(queue) /\ connected' = connected
        /\ missing' \in {missing, missing - 1}
    BY <1>3 DEF readReady, Timeout
  <2>2. QED BY <2>1, EndKeeps DEF IInv
<1>4. CASE OnConnect
  BY <1>4 DEF OnConnect, IInv, QueueOK
<1>5. CASE PortGone
  <2>1. missing' = missing /\ (UNCHANGED <<connected, queue>> \/ queue' = <<>>)
    BY <1>5 DEF PortGone
  <2>2. CASE UNCHANGED <<connected, queue>>
    BY <2>1, <2>2 DEF IInv, QueueOK
  <2>3. CASE queue' = <<>>
    BY <1>0, <2>1, <2>3 DEF IInv, QueueOK
  <2>4. QED BY <2>1, <2>2, <2>3
<1>6. CASE UNCHANGED <<connected, queue, missing>>
  BY <1>6 DEF IInv, QueueOK
<1>7. ASSUME NEW i \in Sids, AlarmChanges(i) PROVE UNCHANGED <<connected, queue, missing>>
  BY <1>7 DEF AlarmChanges, Others
<1>8. CASE onSetTempLimit \/ OnSetRdPower \/ NewConfig \/ SilentOrNot \/ PortBack \/ UNCHANGED vars
  BY <1>6, <1>8 DEF onSetTempLimit, OnSetRdPower, NewConfig, SilentOrNot, PortBack, Others, vars
<1>9. QED BY <1>1, <1>2, <1>3, <1>4, <1>5, <1>6, <1>7, <1>8 DEF Next

(* The master's memory of the tags.                                        *)
LEMMA AnswerKeeps ==
  ASSUME IInv, NEW r \in Requests, dataHandler(r)
  PROVE  m_CurrentTagcnt' \in 0..MaxTags /\ listTags' \in Seq(Seen)
<1>1. /\ slave \in Configs /\ slave \in Seq(Epcs) /\ DOMAIN slave = 1..Len(slave)
      /\ Len(slave) \in 0..MaxTags
  BY SlaveTags, ConfigsAssumption DEF IInv, SlaveOK
<1>2. /\ listTags \in Seq(Seen) /\ m_CurrentTagcnt \in 0..MaxTags /\ Len(listTags) \in Nat
      /\ DOMAIN listTags = 1..Len(listTags) /\ \A i \in DOMAIN listTags : listTags[i] \in Seen
  BY LenProperties, ElementOfSeq DEF IInv, MasterOK
<1>3. CASE r.kind = "count"
  <2>1. TagCount
    BY <1>3 DEF dataHandler
  <2>2. [i \in 1..Len(slave) |-> [epc |-> NoEpc, alarm |-> FALSE]] \in [1..Len(slave) -> Seen]
    BY DEF Seen
  <2>3. [i \in 1..Len(slave) |-> [epc |-> NoEpc, alarm |-> FALSE]] \in Seq(Seen)
    <3>1. Len(slave) \in Nat
      BY <1>1, ConfigsAssumption
    <3>2. QED BY <2>2, <3>1, SeqDef, Zenon
  <2>4. QED BY <1>1, <1>2, <2>1, <2>3 DEF TagCount
<1>4. CASE r.kind = "epc"
  <2>1. SetEpcs(r.n) /\ UNCHANGED m_CurrentTagcnt
    BY <1>4 DEF dataHandler
  <2>2. \A i \in DOMAIN slave : slave[i] \in Epcs
    BY <1>1, ElementOfSeq
  <2>3. listTags' \in [1..Len(listTags) -> Seen]
    BY <1>2, <2>1, <2>2 DEF SetEpcs, Seen
  <2>4. QED BY <1>2, <2>1, <2>3, SeqDef, Zenon
<1>5. CASE r.kind = "alarm"
  <2>1. SetAlarms(r.n) /\ UNCHANGED m_CurrentTagcnt
    BY <1>5 DEF dataHandler
  <2>2. listTags' \in [1..Len(listTags) -> Seen]
    <3>1. \A s \in Seen : \A b \in BOOLEAN : [s EXCEPT !.alarm = b] \in Seen
      BY DEF Seen
    <3>2. \A i \in DOMAIN listTags : [listTags[i] EXCEPT !.alarm = i \in alarms] \in Seen
      <4>1. \A i \in DOMAIN listTags : (i \in alarms) \in BOOLEAN
        OBVIOUS
      <4>2. QED BY <1>2, <3>1, <4>1, Zenon
    <3>3. QED BY <1>2, <2>1, <3>2, Zenon DEF SetAlarms
  <2>3. QED BY <1>2, <2>1, <2>2, SeqDef, Zenon
<1>6. CASE r.kind \notin {"count", "epc", "alarm"}
  BY <1>2, <1>6 DEF dataHandler
<1>7. QED BY <1>3, <1>4, <1>5, <1>6

(* Every step keeps what the test master knows.                            *)
LEMMA MasterKept == IInv /\ [Next]_vars => MasterOK'
<1> SUFFICES ASSUME IInv, [Next]_vars PROVE MasterOK'
  OBVIOUS
<1>1. CASE Poll
  BY <1>1, Kinds DEF Poll, IInv, MasterOK
<1>2. CASE readReady
  <2>1. UNCHANGED <<writeRequest, m_nTagStm>>
    BY <1>2 DEF readReady
  <2>2. Head(queue) \in Requests
    BY <1>2, HeadTailProperties DEF readReady, IInv, QueueOK
  <2>3. dataHandler(Head(queue)) \/ UNCHANGED <<m_CurrentTagcnt, listTags>>
    BY <1>2 DEF readReady
  <2>4. m_CurrentTagcnt' \in 0..MaxTags /\ listTags' \in Seq(Seen)
    BY <2>2, <2>3, AnswerKeeps DEF IInv, MasterOK
  <2>5. QED BY <2>1, <2>4 DEF IInv, MasterOK
<1>3. CASE UNCHANGED master /\ writeRequest' \in {writeRequest, "HoldingRegisters"}
  BY <1>3 DEF master, IInv, MasterOK
<1>4. ASSUME NEW i \in Sids, AlarmChanges(i) PROVE UNCHANGED <<master, writeRequest>>
  BY <1>4 DEF AlarmChanges, Others
<1>5. CASE Check \/ Timeout \/ OnConnect \/ OnDisconnect \/ onSetTempLimit \/ OnSetRdPower
           \/ NewConfig \/ SilentOrNot \/ PortGone \/ PortBack \/ UNCHANGED vars
  BY <1>3, <1>5 DEF Check, Timeout, OnConnect, OnDisconnect, onSetTempLimit, OnSetRdPower, User,
     NewConfig, SilentOrNot, PortGone, PortBack, Others, vars
<1>6. QED BY <1>1, <1>2, <1>3, <1>4, <1>5 DEF Next

-----------------------------------------------------------------------------
(* Every step keeps the invariant.                                         *)
LEMMA StepIInv == IInv /\ [Next]_vars => IInv'
BY FlagsKept, SlaveKept, QueueKept, MasterKept DEF IInv

(* IInv holds in every reachable state, for all slaves, limits and bounds. *)
THEOREM Invariance == Spec => []IInv
BY InitIInv, StepIInv, PTL DEF Spec

(* Replies are missing for at least the requests that wait, which the      *)
(* reconnection relies on, and what is asked for are tags a slave may      *)
(* have.                                                                   *)
THEOREM TypeCorrect == Spec => []TypeOK
BY IInvTypes, Invariance, PTL
=============================================================================
