---------------------------- MODULE RdmTagsProofs ----------------------------
(***************************************************************************)
(* Proof that TypeOK of RdmTags is an invariant for any set of tags, any   *)
(* temperatures and any limits.  It is inductive as it stands: besides the *)
(* types it says which tag each thread holds between two of its steps, and *)
(* that the tags left in a timer's loop are none exactly when it is over.  *)
(***************************************************************************)
EXTENDS RdmTags, TLAPS

(* The conjuncts of TypeOK about the tags, the world and the broker, and   *)
(* those about the steps of the two threads.                               *)
TagsOK ==
  /\ ticks \in [Tags -> 0..TagTicks]
  /\ temp \in [Tags -> (Temps \cap TAG_T_MIN..TAG_T_MAX) \cup {0}]
  /\ uplimit \in [Tags -> Limits] /\ enabled \in [Tags -> BOOLEAN]
  /\ alarms \in [Tags -> SUBSET Alarms] /\ onlineFlag \in [Tags -> BOOLEAN]
  /\ field \in [Tags -> Temps \cup {Out}]
  /\ readerUp \in BOOLEAN /\ connected \in BOOLEAN
  /\ cloud \in [Tags -> {"online", "offline"}] /\ told \in [Tags -> BOOLEAN]

ThreadsOK ==
  /\ scan \in {"tick", "next", "temp"} /\ plan \in {"ocrssi", "temp"}
  /\ seen \in SUBSET Tags /\ (scan = "tick" => seen = {})
  /\ IF scan = "temp" THEN at \in Tags ELSE at = Out
  /\ mpc \in {"loop", "check", "mark", "publish", "clear"}
  /\ todo \in SUBSET Tags /\ (mpc \in {"check", "publish"} => todo # {})
  /\ found \in SUBSET Alarms
  /\ IF mpc \in {"mark", "clear"} THEN mtag \in Tags ELSE mtag = Out /\ found = {}

(* The type invariant in its two parts.                                    *)
LEMMA Split == TypeOK <=> TagsOK /\ ThreadsOK
  BY DEF TypeOK, TagsOK, ThreadsOK

(* The initial states have their types.                                    *)
LEMMA InitOK == Init => TypeOK
<1> SUFFICES ASSUME Init PROVE TagsOK /\ ThreadsOK
  BY Split
<1> USE DEF Init
<1>1. /\ enabled \in [Tags -> BOOLEAN] /\ onlineFlag \in [Tags -> BOOLEAN]
      /\ told \in [Tags -> BOOLEAN] /\ readerUp \in BOOLEAN /\ connected \in BOOLEAN
      /\ alarms \in [Tags -> SUBSET Alarms] /\ cloud \in [Tags -> {"online", "offline"}]
  BY Zenon
<1>2. /\ ticks \in [Tags -> 0..TagTicks] /\ uplimit \in [Tags -> Limits]
      /\ temp \in [Tags -> (Temps \cap TAG_T_MIN..TAG_T_MAX) \cup {0}]
  BY TicksAssumption, LimitsAssumption
<1>3. TagsOK
  BY <1>1, <1>2, Zenon DEF TagsOK
<1>4. ThreadsOK
  BY DEF ThreadsOK, Alarms
<1> QED BY <1>3, <1>4, Split

(* One scan of the reading thread keeps the types of the tags.             *)
LEMMA ThreadTags == TagsOK /\ ThreadsOK /\ Thread => TagsOK'
<1> SUFFICES ASSUME TagsOK, ThreadsOK, Thread PROVE TagsOK'
  OBVIOUS
<1> USE DEF TagsOK, settings, world, broker, tagState
<1>1. CASE Read
  <2>1. ticks' \in [Tags -> 0..TagTicks]
    BY <1>1, TicksAssumption DEF Read, Tick
  <2> QED BY <1>1, <2>1 DEF Read
<1>2. CASE ScanFails \/ ScanDone
  BY <1>2 DEF ScanFails, ScanDone
<1>3. ASSUME NEW t \in Tags, Refresh(t) PROVE TagsOK'
  <2>1. ticks' \in [Tags -> 0..TagTicks]
    BY <1>3, TicksAssumption DEF Refresh
  <2>2. alarms' \in [Tags -> SUBSET Alarms]
    BY <1>3 DEF Refresh
  <2>3. onlineFlag' \in [Tags -> BOOLEAN] /\ told' \in [Tags -> BOOLEAN]
    BY <1>3, Zenon DEF Refresh
  <2> QED BY <1>3, <2>1, <2>2, <2>3 DEF Refresh
<1>4. CASE TakeTemperature
  <2>1. at \in Tags
    BY <1>4 DEF TakeTemperature, ThreadsOK
  <2>2. temp' \in [Tags -> (Temps \cap TAG_T_MIN..TAG_T_MAX) \cup {0}]
    BY <1>4, <2>1 DEF TakeTemperature, Plausible
  <2>3. alarms' \in [Tags -> SUBSET Alarms]
    BY <1>4, <2>1 DEF TakeTemperature, Alarms
  <2> QED BY <1>4, <2>2, <2>3 DEF TakeTemperature
<1> QED BY <1>1, <1>2, <1>3, <1>4 DEF Thread

(* It also keeps what is known of the two threads' steps.                  *)
LEMMA ThreadSteps == TagsOK /\ ThreadsOK /\ Thread => ThreadsOK'
<1> SUFFICES ASSUME TagsOK, ThreadsOK, Thread PROVE ThreadsOK'
  OBVIOUS
<1> USE DEF ThreadsOK, mainVars
<1>1. CASE Read \/ ScanFails \/ ScanDone
  BY <1>1 DEF Read, ScanFails, ScanDone
<1>2. ASSUME NEW t \in Tags, Refresh(t) PROVE ThreadsOK'
  BY <1>2 DEF Refresh
<1>3. CASE TakeTemperature
  BY <1>3 DEF TakeTemperature
<1> QED BY <1>1, <1>2, <1>3 DEF Thread

(* The main thread and the world keep the types of the tags.               *)
LEMMA MainTags ==
  TagsOK /\ ThreadsOK /\ (Reload \/ WriteSetting \/ RdmTimer \/ IotTimer \/ InTimer \/ World)
    => TagsOK'
<1> SUFFICES ASSUME TagsOK, ThreadsOK PROVE
      Reload \/ WriteSetting \/ RdmTimer \/ IotTimer \/ InTimer \/ World => TagsOK'
  OBVIOUS
<1> USE DEF TagsOK, settings, world, broker, tagState
<1>1. CASE Reload
  <2>1. /\ enabled' \in [Tags -> BOOLEAN] /\ onlineFlag' \in [Tags -> BOOLEAN]
        /\ told' \in [Tags -> BOOLEAN]
    BY <1>1, Zenon DEF Reload
  <2> QED BY <1>1, <2>1, TicksAssumption, LimitsAssumption DEF Reload, Alarms
<1>2. CASE WriteSetting
  <2>1. PICK t \in Tags : WriteCoil(t) \/ WriteLimit(t)
    BY <1>2 DEF WriteSetting
  <2>2. enabled' \in [Tags -> BOOLEAN]
    BY <2>1, Zenon DEF WriteCoil, WriteLimit
  <2>3. uplimit' \in [Tags -> Limits]
    BY <2>1 DEF WriteCoil, WriteLimit
  <2> QED BY <2>1, <2>2, <2>3 DEF WriteCoil, WriteLimit
<1>3. CASE RdmTimer \/ IotTimer
  BY <1>3 DEF RdmTimer, IotTimer
<1>4. ASSUME NEW t \in Tags, CheckOnline(t) PROVE TagsOK'
  <2>1. onlineFlag' \in [Tags -> BOOLEAN]
    BY <1>4, Zenon DEF CheckOnline, CheckFlag
  <2> QED BY <1>4, <2>1 DEF CheckOnline
<1>5. CASE MarkOffline
  <2>1. alarms' \in [Tags -> SUBSET Alarms]
    BY <1>5 DEF MarkOffline, ThreadsOK
  <2> QED BY <1>5, <2>1 DEF MarkOffline
<1>6. ASSUME NEW t \in Tags, Publish(t) PROVE TagsOK'
  <2>1. onlineFlag' \in [Tags -> BOOLEAN] /\ told' \in [Tags -> BOOLEAN]
    BY <1>6, Zenon DEF Publish
  <2>2. cloud' \in [Tags -> {"online", "offline"}]
    BY <1>6 DEF Publish
  <2> QED BY <1>6, <2>1, <2>2 DEF Publish
<1>7. CASE ClearAlarms
  <2>1. alarms' \in [Tags -> SUBSET Alarms]
    BY <1>7 DEF ClearAlarms
  <2>2. onlineFlag' \in [Tags -> BOOLEAN]
    BY <1>7, Zenon DEF ClearAlarms
  <2> QED BY <1>7, <2>1, <2>2 DEF ClearAlarms
<1>8. CASE World
  <2>1. field' \in [Tags -> Temps \cup {Out}]
    BY <1>8 DEF World
  <2>2. readerUp' \in BOOLEAN /\ connected' \in BOOLEAN
    BY <1>8, Zenon DEF World
  <2> QED BY <1>8, <2>1, <2>2 DEF World
<1> QED BY <1>1, <1>2, <1>3, <1>4, <1>5, <1>6, <1>7, <1>8 DEF InTimer

(* They also keep what is known of the two threads' steps.                 *)
LEMMA MainSteps ==
  TagsOK /\ ThreadsOK /\ (Reload \/ WriteSetting \/ RdmTimer \/ IotTimer \/ InTimer \/ World)
    => ThreadsOK'
<1> SUFFICES ASSUME TagsOK, ThreadsOK PROVE
      Reload \/ WriteSetting \/ RdmTimer \/ IotTimer \/ InTimer \/ World => ThreadsOK'
  OBVIOUS
<1> USE DEF ThreadsOK, scanVars, mainVars
<1>1. CASE Reload \/ WriteSetting \/ World
  BY <1>1 DEF Reload, WriteSetting, WriteCoil, WriteLimit, World
<1>2. CASE RdmTimer \/ IotTimer
  BY <1>2 DEF RdmTimer, IotTimer, EnabledTags, Loop
<1>3. ASSUME NEW t \in Tags, CheckOnline(t) PROVE ThreadsOK'
  BY <1>3 DEF CheckOnline, Alarms
<1>4. ASSUME NEW t \in Tags, Publish(t) PROVE ThreadsOK'
  BY <1>4 DEF Publish, TagsOK
<1>5. CASE MarkOffline \/ ClearAlarms
  BY <1>5 DEF MarkOffline, ClearAlarms, Loop
<1> QED BY <1>1, <1>2, <1>3, <1>4, <1>5 DEF InTimer

(* Every variable of the tag model has its type in every reachable state:  *)
(* an accepted temperature is in range, a timer's loop always has its tag. *)
THEOREM TagsTypeCorrect == Spec => []TypeOK
<1>1. TypeOK /\ [Next]_vars => TypeOK'
  <2> SUFFICES ASSUME TagsOK, ThreadsOK, [Next]_vars PROVE TagsOK' /\ ThreadsOK'
    BY Split DEF TypeOK, TagsOK, ThreadsOK
  <2>1. CASE Thread
    BY <2>1, ThreadTags, ThreadSteps
  <2>2. CASE Reload \/ WriteSetting \/ RdmTimer \/ IotTimer \/ InTimer \/ World
    BY <2>2, MainTags, MainSteps
  <2>3. CASE UNCHANGED vars
    BY <2>3 DEF vars, tagState, settings, scanVars, mainVars, world, broker, TagsOK, ThreadsOK
  <2> QED BY <2>1, <2>2, <2>3 DEF Next
<1> QED BY InitOK, <1>1, PTL DEF Spec
=============================================================================
