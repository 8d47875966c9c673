------------------------------- MODULE RdmTags -------------------------------
(***************************************************************************)
(* What the daemon knows of its managed tags and what it tells the cloud:  *)
(* T_ticks (online or not), T_temp behind a plausibility filter, and the   *)
(* two alarms.                                                             *)
(*                                                                         *)
(* Three activities share a tag without a lock: the reading thread, the    *)
(* two-second timer (online check) and the five-second timer (publishing). *)
(* The timers run one after the other in the main thread; the steps of the *)
(* reading thread fall between theirs.  RdmReader says when the thread     *)
(* runs: here it does while readerUp.  The MQTT connection is made and     *)
(* lost by the world: IOT_tick is not part of this module.  Of T_data_flag *)
(* only Tag_Online is followed, for only it is set by both threads.        *)
(***************************************************************************)
EXTENDS Integers

CONSTANTS
  Tags,           \* managed tags
  TagTicks,       \* TAG_TICKS, itag.h
  Temps,          \* temperatures a tag can have, whole degrees
  Limits,         \* up limits a Modbus master may write
  DefaultLimit,   \* the limit in iTmsRdm.xml
  Out             \* the tag does not answer

(* A reading outside [TAG_T_MIN, TAG_T_MAX] is thrown away.                *)
TAG_T_MIN == -50
TAG_T_MAX == 150

(* With one tick a tag would be offline while it is being read.            *)
ASSUME TicksAssumption == TagTicks \in Nat /\ TagTicks > 1
ASSUME TempsAssumption == Temps \subseteq Int /\ Out \notin Temps /\ Out \notin Tags
ASSUME LimitsAssumption == Limits \subseteq Int /\ DefaultLimit \in Limits

VARIABLES
  ticks, temp, uplimit, enabled,   \* T_ticks, T_temp, T_uplimit, T_enable
  alarms,      \* the alarms raised: T_alarm_offline, T_alarm_temperature
  onlineFlag,  \* T_data_flag & Tag_Online: T_online is to be published
  field,       \* the temperature of each tag, or Out
  readerUp,    \* the reader works
  connected,   \* client->state() == Connected
  scan, seen, at, plan,    \* the reading thread: step, tags to go, tag, cur_plan
  mpc, todo, mtag, found,  \* the main thread: step, tags to go, tag, alarms found
  cloud,       \* what the cloud was last told of each tag
  told         \* the offline event reached the broker since the tag was last read

tagState == <<ticks, temp, alarms, onlineFlag>>
settings == <<uplimit, enabled>>
scanVars == <<scan, seen, at, plan>>
mainVars == <<mpc, todo, mtag, found>>
world    == <<field, readerUp, connected>>
broker   == <<cloud, told>>
vars == <<tagState, settings, scanVars, mainVars, world, broker>>

Alarms == {"offline", "heat"}

isonline(t) == ticks[t] > 0

-----------------------------------------------------------------------------
Init ==
  /\ ticks = [t \in Tags |-> TagTicks]
  /\ temp = [t \in Tags |-> 0]
  /\ uplimit = [t \in Tags |-> DefaultLimit]
  /\ enabled = [t \in Tags |-> TRUE]
  /\ alarms = [t \in Tags |-> {}]
  /\ onlineFlag = [t \in Tags |-> FALSE]
  /\ field \in [Tags -> Temps \cup {Out}]
  /\ readerUp \in BOOLEAN /\ connected = FALSE
  /\ scan = "tick" /\ seen = {} /\ at = Out /\ plan = "ocrssi"
  /\ mpc = "loop" /\ todo = {} /\ mtag = Out /\ found = {}
  /\ cloud = [t \in Tags |-> "offline"] /\ told = [t \in Tags |-> FALSE]

-----------------------------------------------------------------------------
(* iReader::run, as far as it concerns managed tags.                       *)

(* Faulty variant: a tag is left with its last tick.                       *)
TickToOne(n) == IF n > 1 THEN n - 1 ELSE n

Tick(n) == IF n > 0 THEN n - 1 ELSE n

(* The managed tags tick, switchplans, and TMR_read finds those that       *)
(* answer (ireader.cpp:300-321).                                           *)
Read ==
  /\ scan = "tick" /\ readerUp
  /\ ticks' = [t \in Tags |-> Tick(ticks[t])]
  /\ plan' = IF plan = "ocrssi" THEN "temp" ELSE "ocrssi"
  /\ seen' = {t \in Tags : field[t] # Out}
  /\ scan' = "next"
  /\ UNCHANGED <<temp, alarms, onlineFlag, settings, at, mainVars, world, broker>>

(* handleError: the thread starts over when RD_init has restarted it.      *)
ScanFails ==
  /\ scan = "next" /\ ~readerUp
  /\ seen' = {} /\ scan' = "tick"
  /\ UNCHANGED <<tagState, settings, at, plan, mainVars, world, broker>>

(* ireader.cpp:384-388.                                                    *)
Refresh(t) ==
  /\ scan = "next" /\ t \in seen
  /\ seen' = seen \ {t} /\ at' = t
  /\ ticks' = [ticks EXCEPT ![t] = TagTicks]
  /\ alarms' = [alarms EXCEPT ![t] = @ \ {"offline"}]
  /\ onlineFlag' = [onlineFlag EXCEPT ![t] = TRUE]
  /\ told' = [told EXCEPT ![t] = FALSE]
  /\ scan' = "temp"
  /\ UNCHANGED <<temp, settings, plan, mainVars, world, cloud>>

Abs(x) == IF x < 0 THEN -x ELSE x

(* Faulty variant: the range is not checked near zero.                     *)
PlausibleNearZero(new, old) ==
  Abs(old) <= 5 \/ (2 * Abs(new - old) < Abs(old) /\ new \in TAG_T_MIN..TAG_T_MAX)

(* ireader.cpp:398-401: in range, and less than half away from the last    *)
(* temperature unless that is about zero.                                  *)
Plausible(new, old) ==
  /\ new \in TAG_T_MIN..TAG_T_MAX
  /\ Abs(old) <= 5 \/ 2 * Abs(new - old) < Abs(old)

(* Faulty variant: only the reading that passes the limit raises the alarm.*)
RaisesHeatOnce(t, new) == new > uplimit[t] /\ temp[t] <= uplimit[t]

(* ireader.cpp:404-405: every reading over the limit raises the alarm.     *)
RaisesHeat(t, new) == new > uplimit[t]

(* ireader.cpp:392-413.  The other plan reads the on-chip rssi; a tag that *)
(* has left meanwhile gives a temperature code of zero.                    *)
TakeTemperature ==
  /\ scan = "temp"
  /\ \/ /\ plan = "temp" /\ field[at] # Out /\ Plausible(field[at], temp[at])
        /\ temp' = [temp EXCEPT ![at] = field[at]]
        /\ alarms' = [alarms EXCEPT ![at] =
                        IF RaisesHeat(at, field[at]) THEN @ \cup {"heat"} ELSE @]
     \/ /\ plan # "temp" \/ field[at] = Out \/ ~Plausible(field[at], temp[at])
        /\ UNCHANGED <<temp, alarms>>
  /\ at' = Out /\ scan' = "next"
  /\ UNCHANGED <<ticks, onlineFlag, settings, seen, plan, mainVars, world, broker>>

(* The end of the scan and the sleep of ten seconds.                       *)
ScanDone ==
  /\ scan = "next" /\ seen = {} /\ readerUp
  /\ scan' = "tick"
  /\ UNCHANGED <<tagState, settings, seen, at, plan, mainVars, world, broker>>

Thread == Read \/ ScanFails \/ (\E t \in Tags : Refresh(t)) \/ TakeTemperature \/ ScanDone

-----------------------------------------------------------------------------
(* The main thread.                                                        *)

(* A new iTmsRdm.xml: OnFileDone has stopped the thread, RDM_init makes    *)
(* new tags, OnFileDone starts the thread again.                           *)
Reload ==
  /\ mpc = "loop" /\ scan = "tick"
  /\ ticks' = [t \in Tags |-> TagTicks]
  /\ temp' = [t \in Tags |-> 0]
  /\ uplimit' = [t \in Tags |-> DefaultLimit]
  /\ enabled' = [t \in Tags |-> TRUE]
  /\ alarms' = [t \in Tags |-> {}]
  /\ onlineFlag' = [t \in Tags |-> FALSE]
  /\ told' = [t \in Tags |-> FALSE]
  /\ UNCHANGED <<scanVars, mainVars, world, cloud>>

(* A Modbus master writes the coil of a tag, or its up limit.  Neither     *)
(* touches T_data_flag or the alarms.                                      *)
WriteCoil(t) ==
  /\ mpc = "loop"
  /\ enabled' = [enabled EXCEPT ![t] = ~@]
  /\ UNCHANGED <<tagState, uplimit, scanVars, mainVars, world, broker>>

WriteLimit(t) ==
  /\ mpc = "loop"
  /\ \E l \in Limits : uplimit' = [uplimit EXCEPT ![t] = l]
  /\ UNCHANGED <<tagState, enabled, scanVars, mainVars, world, broker>>

WriteSetting == \E t \in Tags : WriteCoil(t) \/ WriteLimit(t)

EnabledTags == {t \in Tags : enabled[t]}

(* The timer's loop goes on with step while tags are left.                 *)
Loop(step, left) == mpc' = IF left = {} THEN "loop" ELSE step

(* timerEvent, tmrRDM: every enabled tag is checked ...                    *)
RdmTimer ==
  /\ mpc = "loop"
  /\ todo' = EnabledTags /\ Loop("check", todo')
  /\ UNCHANGED <<tagState, settings, scanVars, mtag, found, world, broker>>

(* Faulty variant: all flags are set in the branch of the online tags.     *)
CheckFlagIfOnline(t) == onlineFlag[t] \/ isonline(t)

(* irdm.cpp:351: Tag_Online is set whatever isonline() says.               *)
CheckFlag(t) == TRUE

(* ... isonline() is asked (irdm.cpp:351-352) ...                          *)
CheckOnline(t) ==
  /\ mpc = "check" /\ t \in todo
  /\ mtag' = t /\ todo' = todo \ {t}
  /\ onlineFlag' = [onlineFlag EXCEPT ![t] = CheckFlag(t)]
  /\ found' = IF isonline(t) THEN {} ELSE {"offline"}
  /\ mpc' = "mark"
  /\ UNCHANGED <<ticks, temp, alarms, settings, scanVars, world, broker>>

(* ... and the answer acted upon (irdm.cpp:355), though the thread may     *)
(* have read the tag in between.                                           *)
MarkOffline ==
  /\ mpc = "mark"
  /\ alarms' = [alarms EXCEPT ![mtag] = @ \cup found]
  /\ mtag' = Out /\ found' = {} /\ Loop("check", todo)
  /\ UNCHANGED <<ticks, temp, onlineFlag, settings, scanVars, todo, world, broker>>

(* timerEvent, tmrIOT.                                                     *)
IotTimer ==
  /\ mpc = "loop"
  /\ todo' = EnabledTags /\ Loop("publish", todo')
  /\ UNCHANGED <<tagState, settings, scanVars, mtag, found, world, broker>>

(* PUB_tag_data, which waits for a connection, and the publish calls of    *)
(* PUB_tag_event, which do not.                                            *)
Publish(t) ==
  /\ mpc = "publish" /\ t \in todo
  /\ mtag' = t /\ todo' = todo \ {t}
  /\ onlineFlag' = [onlineFlag EXCEPT ![t] = @ /\ ~connected]
  /\ cloud' = IF connected /\ onlineFlag[t]
              THEN [cloud EXCEPT ![t] = IF isonline(t) THEN "online" ELSE "offline"]
              ELSE cloud
  /\ found' = alarms[t]
  /\ told' = [told EXCEPT ![t] = @ \/ ("offline" \in alarms[t] /\ connected)]
  /\ mpc' = "clear"
  /\ UNCHANGED <<ticks, temp, alarms, settings, scanVars, world>>

(* The alarms found are reset after their publish call (idevice.cpp:257,   *)
(* 263).  A Tag_Online set by the thread during one of the &= of           *)
(* hasDataFlag on another flag may be lost.                                *)
ClearAlarms ==
  /\ mpc = "clear"
  /\ alarms' = [alarms EXCEPT ![mtag] = @ \ found]
  /\ \/ UNCHANGED onlineFlag
     \/ connected /\ onlineFlag' = [onlineFlag EXCEPT ![mtag] = FALSE]
  /\ mtag' = Out /\ found' = {} /\ Loop("publish", todo)
  /\ UNCHANGED <<ticks, temp, settings, scanVars, todo, world, broker>>

InTimer == MarkOffline \/ ClearAlarms \/ \E t \in Tags : CheckOnline(t) \/ Publish(t)

-----------------------------------------------------------------------------
(* The world: tags come, go and change temperature, the reader fails and   *)
(* is repaired, the broker accepts or drops the connection.                *)
World ==
  /\ \/ /\ \E t \in Tags, v \in Temps \cup {Out} : field' = [field EXCEPT ![t] = v]
        /\ UNCHANGED <<readerUp, connected>>
     \/ readerUp' = ~readerUp /\ UNCHANGED <<field, connected>>
     \/ connected' = ~connected /\ UNCHANGED <<field, readerUp>>
  /\ UNCHANGED <<tagState, settings, scanVars, mainVars, broker>>

Next == Thread \/ Reload \/ WriteSetting \/ RdmTimer \/ IotTimer \/ InTimer \/ World

Spec == Init /\ [][Next]_vars

(* The thread runs while the reader works, a handler runs to its end, and  *)
(* the event loop starves no timer.                                        *)
Fairness == /\ WF_vars(Thread) /\ WF_vars(InTimer)
            /\ SF_vars(RdmTimer) /\ SF_vars(IotTimer)

FairSpec == Spec /\ Fairness

-----------------------------------------------------------------------------
(* The variables have their types, and the main thread holds a tag and its *)
(* findings exactly between the two halves of a check or of a publication. *)
TypeOK ==
  /\ ticks \in [Tags -> 0..TagTicks]
  /\ temp \in [Tags -> (Temps \cap TAG_T_MIN..TAG_T_MAX) \cup {0}]
  /\ uplimit \in [Tags -> Limits] /\ enabled \in [Tags -> BOOLEAN]
  /\ alarms \in [Tags -> SUBSET Alarms] /\ onlineFlag \in [Tags -> BOOLEAN]
  /\ field \in [Tags -> Temps \cup {Out}]
  /\ readerUp \in BOOLEAN /\ connected \in BOOLEAN
  /\ scan \in {"tick", "next", "temp"} /\ plan \in {"ocrssi", "temp"}
  /\ seen \in SUBSET Tags /\ (scan = "tick" => seen = {})
  /\ IF scan = "temp" THEN at \in Tags ELSE at = Out
  /\ mpc \in {"loop", "check", "mark", "publish", "clear"}
  /\ todo \in SUBSET Tags /\ (mpc \in {"check", "publish"} => todo # {})
  /\ found \in SUBSET Alarms
  /\ IF mpc \in {"mark", "clear"} THEN mtag \in Tags ELSE mtag = Out /\ found = {}
  /\ cloud \in [Tags -> {"online", "offline"}] /\ told \in [Tags -> BOOLEAN]

(* From some time on the reader works, the broker is connected, tag t is   *)
(* enabled and no configuration is loaded: each is needed, for the code    *)
(* ticks and reads only while the reader works, publishes only enabled     *)
(* tags, drops what it publishes unconnected and forgets it on a reload.   *)
Settled(t) == <>[](readerUp /\ connected /\ enabled[t]) /\ <>[][~Reload]_vars

(* The offline event of a tag that has left for good reaches the broker,   *)
(* though one published without a connection is lost (idevice.cpp:252-257) *)
(* and the thread clears the alarm meanwhile (ireader.cpp:385).            *)
OfflineReported ==
  \A t \in Tags : Settled(t) /\ <>[](field[t] = Out) => <>[]told[t]

(* What the cloud shows of a tag, online or offline, becomes true when the *)
(* tag stays or stays away, whatever flag updates the two threads lose.    *)
CloudConverges ==
  \A t \in Tags :
    Settled(t) => /\ <>[](field[t] = Out) => <>[](cloud[t] = "offline")
                  /\ <>[](field[t] # Out) => <>[](cloud[t] = "online")

HeatPublished(t) ==
  mpc = "publish" /\ mpc' = "clear" /\ mtag' = t /\ "heat" \in found' /\ connected

(* A tag that stays over its up limit is reported again and again: no      *)
(* interleaving of raising and resetting the alarm silences it.            *)
HeatReported ==
  \A t \in Tags :
    Settled(t) /\ <>[](field[t] = temp[t] /\ temp[t] > uplimit[t])
      => []<><<HeatPublished(t)>>_vars

(* "<online -> offline> ==> alarm" (itag.h:69): one offline event for each *)
(* time a tag goes offline.                                                *)
OfflineEventOnce ==
  [][\A t \in Tags : told[t] => ~(Publish(t) /\ "offline" \in alarms[t] /\ connected)]_vars
=============================================================================
