-------------------------- MODULE ModbusSlaveProofs ---------------------------
(***************************************************************************)
(* The invariants of ModbusSlave, for any settings, configurations, tags,  *)
(* limits and powers, any depth of nested calls and any faults.            *)
(***************************************************************************)
EXTENDS ModbusSlave, TLAPS

(* What the steps of the main thread stand for.                            *)
Stage ==
  /\ pc = "boot" => dev = "none"
  /\ pc = "idle" => dev \in {"none", "connected"}
  /\ pc = "open" => dev = "connecting"
  /\ pc = "power" => dev = "connected"
  /\ pc \in {"boot", "idle", "power"} => cont = "return"
  /\ dev = "none" => status \in {"garbage", "unconnected"}

Serving == pc \in {"idle", "open", "power"} /\ dev # "none"

(* The register holds the member, except while a change is under way: then *)
(* it is what the port is to be opened with.                               *)
Register ==
  Serving => /\ port # Unset
             /\ IF pc = "open" /\ cont = "accept"
                THEN hold = port /\ port # Tcp
                ELSE hold = rtu /\ port \in {rtu, Tcp}

(* What TagsAgree says of tags, at every step with a server.               *)
Mirror ==
  Serving /\ "badXml" \notin faults =>
    \A s \in DOMAIN enable : Shown(s)

(* What can only be so after a fault.                                      *)
Causes ==
  /\ portOk \/ "port" \in faults
  /\ stale => faults \cap {"port", "line"} # {}
  /\ cont = "rollback" => "port" \in faults
  /\ pc = "open" /\ cont = "accept" => hpower = asked
  /\ SlaveUp /\ CrashCause /\ PowerWritten

IInv == TypeOK /\ Stage /\ Register /\ Mirror /\ Causes

(* The two halves of TypeOK: Booleans, which Zenon is good at, and the     *)
(* rest.                                                                   *)
Switches ==
  /\ \A s \in DOMAIN enable : enable[s] \in BOOLEAN
  /\ coil \in [Sids -> BOOLEAN]
  /\ stale \in BOOLEAN /\ portOk \in BOOLEAN

Data ==
  /\ link \in Settings \cup {Invalid, Tcp}
  /\ DOMAIN enable = DOMAIN uplimit /\ DOMAIN enable \subseteq Sids
  /\ \A s \in DOMAIN enable : uplimit[s] \in Int
  /\ count \in Nat
  /\ {power, hpower, asked} \subseteq Word
  /\ {rtu, hold} \subseteq Settings \cup {Unset} /\ port \in Settings \cup {Tcp, Unset}
  /\ dev \in {"none", "connecting", "connected"}
  /\ status \in {"garbage", "unconnected", "connecting", "connected"}
  /\ limit \in [Sids -> Word]
  /\ pc \in {"boot", "idle", "open", "power", "crashed"}
  /\ cont \in {"return", "accept", "rollback"} /\ depth \in 0..MaxDepth
  /\ faults \subseteq Faults

(* The invariant without the switches.                                     *)
Kept == Data /\ Stage /\ Register /\ Mirror /\ Causes

(* The type invariant in two parts, for the two kinds of leaves.           *)
LEMMA Split == TypeOK <=> Switches /\ Data
BY DEF TypeOK, Switches, Data

-----------------------------------------------------------------------------
(* The numbers that are words.                                             *)
LEMMA WordDef == Words \in Nat /\ \A n : n \in Word <=> n \in Int /\ 0 <= n /\ n < Words
<1>1. Words \in Nat
  BY DEF Words
<1>2. QED BY <1>1 DEF Word

(* A word is what a register keeps of an int, and it keeps words.          *)
LEMMA To16Word == ASSUME NEW n \in Int PROVE To16(n) \in Word
<1>1. To16(n) \in Int /\ 0 <= To16(n) /\ To16(n) < Words
  BY DEF To16, Words
<1>2. QED BY <1>1, WordDef

(* A word is written to a register as it is.                               *)
LEMMA To16Same == ASSUME NEW n \in Word PROVE To16(n) = n
<1>1. n \in Int /\ 0 <= n /\ n < Words
  BY WordDef
<1>2. QED BY <1>1 DEF To16, Words

(* Zero is a word.                                                         *)
LEMMA ZeroWord == 0 \in Word
<1>1. 0 < Words
  BY DEF Words
<1>2. QED BY <1>1, WordDef

(* The values that stand for no supported setting.                         *)
LEMMA NoSetting == Default \in Settings /\ Tcp \notin Settings /\ Unset \notin Settings
BY SettingsAssumption

(* Tags as a configuration gives them, and as masters change them.         *)
Tagged(en, up) ==
  /\ DOMAIN en = DOMAIN up /\ DOMAIN en \subseteq Sids
  /\ \A s \in DOMAIN en : en[s] \in BOOLEAN /\ up[s] \in Int

(* No server is left, or a new one is being opened, whose registers are    *)
(* those of the tags en and up; n tags are counted.                        *)
NoServer(l, next) ==
  /\ l = Invalid /\ dev' = "none" /\ port' = Unset /\ pc' \in next
  /\ status' \in {"garbage", "unconnected"}
  /\ UNCHANGED <<rtu, regs>>

Filled(en, up, n) ==
  \A s \in DOMAIN en :
    IF s <= n THEN coil'[s] = en[s] /\ limit'[s] = To16(up[s])
              ELSE coil'[s] = FALSE /\ limit'[s] = 0

NewServer(en, up, n) ==
  /\ dev' = "connecting" /\ status' = "connecting" /\ pc' = "open"
  /\ port' \in Settings \cup {Tcp} /\ port' # Unset /\ rtu' \in Settings \cup {Unset}
  /\ hold' = rtu' /\ port' \in {rtu', Tcp} /\ hpower' = power
  /\ coil' \in [Sids -> BOOLEAN] /\ limit' \in [Sids -> Word]
  /\ Filled(en, up, n)

(* These are the two outcomes of MB_init.                                  *)
LEMMA MBInitResult ==
  ASSUME TypeOK, Stage, NEW l \in Settings \cup {Invalid, Tcp}, NEW en, NEW up, NEW n \in Nat,
         NEW next, Tagged(en, up), MB_init(l, en, up, n, next)
  PROVE  NoServer(l, next) \/ NewServer(en, up, n)
<1> USE DEF NoServer, NewServer
<1>1. CASE l = Invalid
  BY <1>1 DEF MB_init, Stage, TypeOK
<1>2. CASE l # Invalid
  <2>1. /\ dev' = "connecting" /\ status' = "connecting" /\ pc' = "open" /\ port' = l
        /\ rtu' = IF l = Tcp THEN rtu ELSE l
        /\ hold' = rtu' /\ hpower' = power /\ coil' = SetCoils(en, n)
        /\ limit' = [s \in Sids |-> IF s \in Saved(up, n) THEN To16(up[s]) ELSE 0]
    BY <1>2 DEF MB_init, setupDeviceData
  <2>2. coil' \in [Sids -> BOOLEAN]
    BY <2>1, Zenon DEF SetCoils
  <2>3. limit' \in [Sids -> Word]
    <3>1. \A s \in DOMAIN up : To16(up[s]) \in Word
      BY To16Word DEF Tagged
    <3>2. 0 \in Word
      BY ZeroWord
    <3>3. QED BY <2>1, <3>1, <3>2, Zenon DEF Saved
  <2>4. ASSUME NEW s \in DOMAIN en
        PROVE  IF s <= n THEN coil'[s] = en[s] /\ limit'[s] = To16(up[s])
                         ELSE coil'[s] = FALSE /\ limit'[s] = 0
    <3>1. s \in Sids /\ s \in DOMAIN up /\ en[s] \in BOOLEAN
      BY DEF Tagged
    <3>2. coil'[s] = (s \in Saved(en, n) /\ en[s])
      BY <2>1, <3>1, Zenon DEF SetCoils
    <3>3. limit'[s] = IF s \in Saved(up, n) THEN To16(up[s]) ELSE 0
      BY <2>1, <3>1, Zenon
    <3>4. CASE s <= n
      <4>1. s \in Saved(en, n) /\ s \in Saved(up, n)
        BY <3>1, <3>4 DEF Saved, Sids
      <4>2. coil'[s] = en[s]
        <5>1. CASE en[s] = TRUE
          BY <3>2, <4>1, <5>1, Zenon
        <5>2. CASE en[s] = FALSE
          BY <3>2, <5>2, Zenon
        <5>3. QED BY <3>1, <5>1, <5>2
      <4>3. QED BY <3>3, <3>4, <4>1, <4>2, Zenon
    <3>5. CASE ~(s <= n)
      <4>1. s \notin Saved(en, n) /\ s \notin Saved(up, n)
        BY <3>5 DEF Saved
      <4>2. QED BY <3>2, <3>3, <3>5, <4>1, Zenon
    <3>6. QED BY <3>4, <3>5, Zenon
  <2>5. /\ port' \in {rtu', Tcp} /\ rtu' \in Settings \cup {Unset}
        /\ port' \in Settings \cup {Tcp} /\ port' # Unset
    BY <1>2, <2>1, SettingsAssumption, NoSetting DEF TypeOK
  <2>6. QED BY <2>1, <2>2, <2>3, <2>4, <2>5, Zenon DEF Filled
<1>3. QED BY <1>1, <1>2

(* A new server shows the tags it was made for.                            *)
LEMMA NewServerShows ==
  ASSUME Tagged(enable', uplimit'), count' \in Nat, NewServer(enable', uplimit', count')
  PROVE  Mirror'
<1> SUFFICES ASSUME NEW s \in DOMAIN enable' PROVE Shown(s)'
  BY DEF Mirror
<1>1. s \in Int
  BY DEF Tagged, Sids
<1>2. s <= count' \/ s > count'
  BY <1>1
<1>3. IF s <= count' THEN coil'[s] = enable'[s] /\ limit'[s] = To16(uplimit'[s])
                     ELSE coil'[s] = FALSE /\ limit'[s] = 0
  BY DEF NewServer, Filled
<1>4. QED BY <1>2, <1>3, Zenon DEF Shown

(* Tags and their registers agree after a step that changes neither.       *)
LEMMA StillShown ==
  ASSUME Mirror, UNCHANGED <<coil, limit, enable, uplimit, count>>,
         Serving' => Serving, faults \subseteq faults'
  PROVE  Mirror'
<1>1. \A s : Shown(s) => Shown(s)'
  BY Zenon DEF Shown
<1>2. "badXml" \notin faults' => "badXml" \notin faults
  OBVIOUS
<1>3. QED BY <1>1, <1>2, Zenon DEF Mirror

(* The constructors establish the invariant.                               *)
LEMMA InitIInv == Init => IInv
<1> SUFFICES ASSUME Init PROVE IInv
  OBVIOUS
<1>1. TypeOK
  <2>1. coil \in [Sids -> BOOLEAN] /\ stale \in BOOLEAN /\ portOk \in BOOLEAN
    BY Zenon DEF Init
  <2>2. limit \in [Sids -> Word]
    <3>1. 0 \in Word
      BY ZeroWord
    <3>2. QED BY <3>1, Zenon DEF Init
  <2>3. DOMAIN enable = DOMAIN uplimit /\ DOMAIN enable \subseteq Sids
        /\ \A s \in DOMAIN enable : enable[s] \in BOOLEAN /\ uplimit[s] \in Int
    BY DEF Init
  <2>4. {power, hpower, asked} \subseteq Word
    BY BoundsAssumption DEF Init
  <2>5. depth \in 0..MaxDepth
    BY BoundsAssumption DEF Init
  <2>6. QED BY <2>1, <2>2, <2>3, <2>4, <2>5, NoSetting DEF Init, TypeOK
<1>2. Stage /\ Register /\ Mirror /\ Causes
  BY DEF Init, Stage, Register, Mirror, Causes, Serving, SlaveUp, CrashCause, PowerWritten
<1>3. QED BY <1>1, <1>2 DEF IInv

-----------------------------------------------------------------------------
(* One lemma for each group of actions: it keeps the invariant.            *)

(* The serial port has been opened: the slave answers.                     *)
LEMMA OpenedKeeps == IInv /\ Opened => Kept'
<1> SUFFICES ASSUME IInv, Opened PROVE Kept'
  OBVIOUS
<1> USE Split DEF IInv, Kept, Opened, rdm
<1>1. CASE cont = "return"
  <2>1. Data'
    BY <1>1, BoundsAssumption DEF Data, Unwound
  <2>2. Stage' /\ Register'
    BY <1>1 DEF Stage, Register, Serving, Unwound
  <2>3. Mirror'
    BY StillShown DEF Serving, Stage
  <2>4. Causes'
    BY <1>1 DEF Causes, SlaveUp, CrashCause, PowerWritten, Unwound
  <2>5. QED BY <2>1, <2>2, <2>3, <2>4
<1>2. CASE cont = "accept"
  <2>1. Data'
    BY <1>2, BoundsAssumption DEF Data, Register, Serving, Stage
  <2>2. Stage' /\ Register'
    BY <1>2 DEF Stage, Register, Serving
  <2>3. Mirror'
    BY StillShown DEF Serving, Stage
  <2>4. Causes'
    BY <1>2 DEF Causes, SlaveUp, CrashCause, PowerWritten
  <2>5. QED BY <2>1, <2>2, <2>3, <2>4
<1>3. CASE cont = "rollback"
  <2>1. Data'
    BY <1>3, BoundsAssumption DEF Data, Unwound, RolledBack
  <2>2. Stage' /\ Register'
    BY <1>3 DEF Stage, Register, Serving, Unwound, RolledBack
  <2>3. Mirror'
    BY StillShown DEF Serving, Stage
  <2>4. Causes'
    BY <1>3 DEF Causes, SlaveUp, CrashCause, PowerWritten, Unwound
  <2>5. QED BY <2>1, <2>2, <2>3, <2>4
<1>4. QED BY <1>1, <1>2, <1>3 DEF Data

(* It could not be opened: the call returns, or settings are rolled back.  *)
LEMMA OpenFailsKeeps == IInv /\ OpenFails => Kept'
<1> SUFFICES ASSUME IInv, OpenFails PROVE Kept'
  OBVIOUS
<1> USE Split DEF IInv, Kept, OpenFails, rdm, server, regs
<1>1. "port" \in faults /\ dev = "connecting" /\ Tagged(enable, uplimit)
  BY DEF Causes, Stage, TypeOK, Tagged
<1>2. CASE depth = MaxDepth
  <2>1. pc' = "crashed" /\ UNCHANGED <<server, regs>> /\ depth' = 0 /\ stale' = FALSE /\ cont' = "return"
    BY <1>2 DEF handleDeviceError
  <2>2. Data'
    BY <2>1, BoundsAssumption DEF Data
  <2>3. Stage' /\ Register' /\ Mirror' /\ Causes'
    BY <1>1, <2>1 DEF Stage, Register, Mirror, Causes, Serving, SlaveUp, CrashCause, PowerWritten
  <2>4. QED BY <2>2, <2>3
<1>3. CASE depth # MaxDepth
  <2> DEFINE next == IF cont = "return" THEN {"idle", "crashed"} ELSE {"crashed"}
  <2>1. MB_init(link, enable, uplimit, count, next)
    BY <1>3 DEF handleDeviceError
  <2>0. link \in Settings \cup {Invalid, Tcp} /\ count \in Nat
    BY DEF Data
  <2>2. CASE NoServer(link, next)
    <3> USE DEF NoServer
    <3>1. Data'
      BY <2>2, BoundsAssumption DEF Data
    <3>2. Stage' /\ Register' /\ Mirror' /\ Causes'
      BY <1>1, <2>2 DEF Stage, Register, Mirror, Causes, Serving, SlaveUp, CrashCause, PowerWritten
    <3>3. QED BY <3>1, <3>2
  <2>3. CASE NewServer(enable, uplimit, count)
    <3> USE DEF NewServer
    <3>1. Data'
      BY <1>3, <2>3, BoundsAssumption DEF Data
    <3>2. Stage' /\ Register'
      BY <1>1, <2>3 DEF Stage, Register, Serving
    <3>3. Causes'
      BY <1>1, <2>3 DEF Causes, SlaveUp, CrashCause, PowerWritten, Data
    <3>4. Mirror'
      <4>1. UNCHANGED <<enable, uplimit, count>>
        OBVIOUS
      <4>2. Tagged(enable', uplimit') /\ count' \in Nat /\ NewServer(enable', uplimit', count')
        BY <1>1, <2>3, <2>0, <4>1
      <4>3. QED BY <4>2, NewServerShows
    <3>5. QED BY <3>1, <3>2, <3>3, <3>4
  <2>5. QED BY <1>1, <2>0, <2>1, <2>2, <2>3, MBInitResult
<1>4. QED BY <1>2, <1>3

(* A configuration is loaded, at the start or by a download.               *)
LEMMA RDMInitKeeps == ASSUME NEW c \in Configs PROVE IInv /\ RDM_init(c) => Kept'
<1> SUFFICES ASSUME IInv, RDM_init(c) PROVE Kept'
  OBVIOUS
<1> USE Split DEF IInv, Kept, server, regs
<1>1. cont = "return" /\ c.link \in Settings \cup {Invalid, Tcp}
  BY ConfigsAssumption DEF RDM_init, Stage
<1>2. ASSUME MB_init(c.link, enable', c.max, c.count, {"idle"}), link' = c.link, uplimit' = c.max,
             enable' = [s \in DOMAIN c.max |-> TRUE], count' = c.count, UNCHANGED faults
      PROVE  Kept'
  <2>1. Tagged(enable', c.max)
    BY <1>2, ConfigsAssumption DEF Tagged
  <2>2. NoServer(c.link, {"idle"}) \/ NewServer(enable', c.max, c.count)
    BY <1>1, <1>2, <2>1, ConfigsAssumption, MBInitResult
  <2>3. Data'
    <3>1. /\ link' \in Settings \cup {Invalid, Tcp} /\ UNCHANGED <<power, asked, cont, depth, faults>>
          /\ DOMAIN enable' = DOMAIN uplimit' /\ DOMAIN enable' \subseteq Sids
          /\ \A s \in DOMAIN enable' : uplimit'[s] \in Int
          /\ count' \in Nat
      BY <1>1, <1>2, <2>1, ConfigsAssumption DEF RDM_init, Tagged
    <3>2. CASE NoServer(c.link, {"idle"})
      BY <3>1, <3>2 DEF NoServer, Data
    <3>3. CASE NewServer(enable', c.max, c.count)
      BY <3>1, <3>3 DEF NewServer, Data
    <3>4. QED BY <2>2, <3>2, <3>3
  <2>4. Stage' /\ Register'
    BY <1>1, <1>2, <2>2 DEF RDM_init, NoServer, NewServer, Stage, Register, Serving
  <2>5. Mirror'
    <3>1. CASE NoServer(c.link, {"idle"})
      BY <3>1 DEF NoServer, Mirror, Serving
    <3>2. CASE NewServer(enable', c.max, c.count)
      <4>1. Tagged(enable', uplimit') /\ count' \in Nat /\ NewServer(enable', uplimit', count')
        BY <1>2, <2>1, <3>2, ConfigsAssumption
      <4>2. QED BY <4>1, NewServerShows
    <3>3. QED BY <2>2, <3>1, <3>2
  <2>6. Causes'
    BY <1>1, <1>2, <2>2 DEF RDM_init, NoServer, NewServer, Causes, SlaveUp, CrashCause, PowerWritten
  <2>7. QED BY <2>3, <2>4, <2>5, <2>6
<1>3. ASSUME Fault("badXml"), link' \in {link, c.link},
             \/ uplimit' = <<>> /\ enable' = <<>> /\ count' = 0
             \/ /\ uplimit' = c.max /\ count' = c.count
                /\ enable' = [s \in DOMAIN c.max |-> TRUE],
             pc' = "idle", UNCHANGED <<server, regs>>
      PROVE  Kept'
  <2>1. Data'
    BY <1>1, <1>3, ConfigsAssumption DEF RDM_init, Data, Fault
  <2>2. Stage' /\ Register' /\ Mirror' /\ Causes'
    BY <1>1, <1>3 DEF RDM_init, Fault, Stage, Register, Mirror, Causes, Serving,
                      SlaveUp, CrashCause, PowerWritten
  <2>3. QED BY <2>1, <2>2
<1>4. QED BY <1>2, <1>3 DEF RDM_init

(* The reader or the serial line fails.                                    *)
LEMMA ErrorKeeps == IInv /\ (RD_handleError \/ LineError) => Kept'
<1> SUFFICES ASSUME IInv, RD_handleError \/ LineError PROVE Kept'
  OBVIOUS
<1> USE Split DEF IInv, Kept, rdm, regs
<1>1. /\ Tagged(enable, uplimit) /\ link \in Settings \cup {Invalid, Tcp}
      /\ pc = "idle" /\ cont = "return" /\ count \in Nat
  BY DEF Data, Switches, Tagged, Stage, RD_handleError, LineError
<1>2. CASE RD_handleError
  <2>1. NoServer(link, {"idle"}) \/ NewServer(enable, uplimit, count)
    BY <1>1, <1>2, MBInitResult DEF RD_handleError
  <2>2. Data' /\ Stage' /\ Register'
    BY <1>1, <1>2, <2>1 DEF RD_handleError, NoServer, NewServer, Data, Stage, Register, Serving
  <2>3. Causes'
    BY <1>1, <1>2, <2>1 DEF RD_handleError, NoServer, NewServer, Causes,
                            SlaveUp, CrashCause, PowerWritten
  <2>4. Mirror'
    <3>1. UNCHANGED <<enable, uplimit, count>>
      BY <1>2 DEF RD_handleError
    <3>2. CASE NoServer(link, {"idle"})
      BY <3>2 DEF NoServer, Mirror, Serving
    <3>3. CASE NewServer(enable, uplimit, count)
      BY <1>1, <3>1, <3>3, NewServerShows
    <3>4. QED BY <2>1, <3>2, <3>3
  <2>5. QED BY <2>2, <2>3, <2>4
<1>3. CASE LineError
  <2>1. NoServer(link, {"idle", "crashed"}) \/ NewServer(enable, uplimit, count)
    BY <1>1, <1>3, MBInitResult DEF LineError
  <2>2. Data' /\ Stage' /\ Register'
    BY <1>1, <1>3, <2>1 DEF LineError, Fault, NoServer, NewServer, Data, Stage, Register, Serving
  <2>3. Causes'
    BY <1>1, <1>3, <2>1 DEF LineError, Fault, NoServer, NewServer, Causes,
                            SlaveUp, CrashCause, PowerWritten
  <2>4. Mirror'
    <3>1. UNCHANGED <<enable, uplimit, count>>
      BY <1>3 DEF LineError
    <3>2. CASE NoServer(link, {"idle", "crashed"})
      BY <3>2 DEF NoServer, Mirror, Serving
    <3>3. CASE NewServer(enable, uplimit, count)
      BY <1>1, <3>1, <3>3, NewServerShows
    <3>4. QED BY <2>1, <3>2, <3>3
  <2>5. QED BY <2>2, <2>3, <2>4
<1>4. QED BY <1>2, <1>3

(* A master writes the settings of the line and the power.                 *)
LEMMA WriteSettingsKeeps ==
  ASSUME NEW s \in Settings \cup {Invalid}, NEW p \in Powers
  PROVE  IInv /\ WriteSettings(s, p) => Kept'
<1> SUFFICES ASSUME IInv, WriteSettings(s, p) PROVE Kept'
  OBVIOUS
<1> USE Split, NoSetting, BoundsAssumption
        DEF IInv, Kept, WriteSettings, Written, changeRTUserial, RolledBack, rdm
<1>1. Data'
  BY DEF Data
<1>2. Stage' /\ Register'
  BY DEF Stage, Register, Serving, Data
<1>3. Mirror'
  BY StillShown DEF Serving
<1>4. Causes'
  BY DEF Causes, SlaveUp, CrashCause, PowerWritten
<1>5. QED BY <1>1, <1>2, <1>3, <1>4

(* A master's write to a coil or a limit goes to the register and to the   *)
(* tag alike.                                                              *)
LEMMA WriteTagKeeps ==
  ASSUME NEW s \in Sids
  PROVE  /\ \A on \in BOOLEAN : IInv /\ WriteCoil(s, on) => Kept'
         /\ \A max \in Limits : IInv /\ WriteLimit(s, max) => Kept'
<1> USE Split DEF IInv, Kept, Written, server, stack
<1>1. ASSUME NEW on \in BOOLEAN, IInv, WriteCoil(s, on) PROVE Kept'
  <2>1. Data' /\ Stage' /\ Register' /\ Causes'
    BY <1>1 DEF WriteCoil, Data, Stage, Register, Serving, Causes, SlaveUp, CrashCause, PowerWritten
  <2>2. Mirror'
    <3> SUFFICES ASSUME "badXml" \notin faults, NEW t \in DOMAIN enable' PROVE Shown(t)'
      BY <1>1 DEF WriteCoil, Mirror
    <3>1. t \in DOMAIN enable /\ t \in DOMAIN coil /\ Shown(t)
      BY <1>1 DEF WriteCoil, Mirror, Serving, Data, Switches
    <3>2. UNCHANGED <<limit, uplimit, count>>
      BY <1>1 DEF WriteCoil
    <3>3. coil'[t] = enable'[t] \/ (coil'[t] = coil[t] /\ enable'[t] = enable[t])
      BY <1>1, <3>1, Zenon DEF WriteCoil
    <3>4. QED BY <3>1, <3>2, <3>3, Zenon DEF Shown
  <2>3. QED BY <2>1, <2>2
<1>2. ASSUME NEW max \in Limits, IInv, WriteLimit(s, max) PROVE Kept'
  <2>1. max \in Word /\ max \in Int /\ To16(max) = max
    <3>1. max \in Word
      BY BoundsAssumption
    <3>2. max \in Int
      BY <3>1, WordDef
    <3>3. QED BY <3>1, <3>2, To16Same
  <2>2. Data' /\ Stage' /\ Register' /\ Causes'
    BY <1>2, <2>1 DEF WriteLimit, Data, Stage, Register, Serving, Causes, SlaveUp, CrashCause, PowerWritten
  <2>3. Mirror'
    <3> SUFFICES ASSUME "badXml" \notin faults, NEW t \in DOMAIN enable' PROVE Shown(t)'
      BY <1>2 DEF WriteLimit, Mirror
    <3>1. t \in DOMAIN uplimit /\ t \in DOMAIN limit /\ Shown(t)
      BY <1>2 DEF WriteLimit, Mirror, Serving, Data
    <3>2. UNCHANGED <<coil, enable, count>>
      BY <1>2 DEF WriteLimit
    <3>3. limit'[t] = To16(uplimit'[t]) \/ (limit'[t] = limit[t] /\ uplimit'[t] = uplimit[t])
      BY <1>2, <2>1, <3>1, Zenon DEF WriteLimit
    <3>4. QED BY <3>1, <3>2, <3>3, Zenon DEF Shown
  <2>4. QED BY <2>2, <2>3
<1>3. QED BY <1>1, <1>2

(* The reader's power is set; a write meets no server; the port goes and   *)
(* comes; nothing changes.                                                 *)
LEMMA OtherStepsKeep ==
  IInv /\ (RD_setPower \/ UpdateWithoutServer \/ PortGone \/ PortBack \/ UNCHANGED vars) => Kept'
<1> SUFFICES ASSUME IInv PROVE
      RD_setPower \/ UpdateWithoutServer \/ PortGone \/ PortBack \/ UNCHANGED vars => Kept'
  OBVIOUS
<1> USE Split DEF IInv, Kept, rdm, server, regs, stack
<1>1. CASE RD_setPower
  <2>1. Data' /\ Stage' /\ Register' /\ Causes'
    BY <1>1 DEF RD_setPower, Data, Stage, Register, Serving, Causes, SlaveUp, CrashCause, PowerWritten
  <2>2. Mirror'
    BY <1>1, StillShown DEF RD_setPower, Serving
  <2>3. QED BY <2>1, <2>2
<1>2. CASE UpdateWithoutServer
  <2>1. Data' /\ Stage' /\ Register' /\ Causes'
    BY <1>2 DEF UpdateWithoutServer, StatusConnected, Data, Stage, Register, Serving,
                Causes, SlaveUp, CrashCause, PowerWritten
  <2>2. Mirror'
    BY <1>2, StillShown DEF UpdateWithoutServer, Serving
  <2>3. QED BY <2>1, <2>2
<1>3. CASE PortGone \/ PortBack
  <2>1. Data' /\ Stage' /\ Register' /\ Causes'
    BY <1>3 DEF PortGone, PortBack, Fault, Data, Stage, Register, Serving,
                Causes, SlaveUp, CrashCause, PowerWritten
  <2>2. Mirror'
    BY <1>3, StillShown DEF PortGone, PortBack, Fault, Serving
  <2>3. QED BY <2>1, <2>2
<1>4. CASE UNCHANGED vars
  <2>1. Data' /\ Stage' /\ Register' /\ Causes'
    BY <1>4 DEF vars, Data, Stage, Register, Serving, Causes, SlaveUp, CrashCause, PowerWritten
  <2>2. Mirror'
    BY <1>4, StillShown DEF vars, Serving
  <2>3. QED BY <2>1, <2>2
<1>5. QED BY <1>1, <1>2, <1>3, <1>4

(* No step gives a switch a value that is not Boolean.                     *)
LEMMA SwitchesKept == IInv /\ [Next]_vars => Switches'
<1> SUFFICES ASSUME IInv, [Next]_vars PROVE Switches'
  OBVIOUS
<1> USE DEF Switches, rdm, server, regs, stack
<1>1. Switches
  BY Split DEF IInv
<1>2. ASSUME NEW l \in Settings \cup {Invalid, Tcp}, NEW en, NEW up, NEW next,
             NEW n \in Nat, Tagged(en, up), MB_init(l, en, up, n, next)
      PROVE  coil' \in [Sids -> BOOLEAN]
  <2>1. NoServer(l, next) \/ NewServer(en, up, n)
    BY <1>2, MBInitResult DEF IInv
  <2>2. QED BY <1>1, <2>1, Zenon DEF NoServer, NewServer
<1>3. Tagged(enable, uplimit) /\ link \in Settings \cup {Invalid, Tcp} /\ count \in Nat
  BY Split DEF IInv, Data, Tagged
<1>4. ASSUME NEW c \in Configs, RDM_init(c) PROVE Switches'
  <2>1. CASE MB_init(c.link, enable', c.max, c.count, {"idle"}) /\ enable' = [s \in DOMAIN c.max |-> TRUE]
    <3>1. Tagged(enable', c.max) /\ c.link \in Settings \cup {Invalid, Tcp}
      BY <2>1, ConfigsAssumption DEF Tagged
    <3>2. coil' \in [Sids -> BOOLEAN]
      BY <1>2, <2>1, <3>1, ConfigsAssumption
    <3>3. \A s \in DOMAIN enable' : enable'[s] \in BOOLEAN
      BY <3>1 DEF Tagged
    <3>4. QED BY <1>1, <1>4, <3>2, <3>3, Zenon DEF RDM_init
  <2>2. CASE UNCHANGED coil /\ (enable' = <<>> \/ enable' = [s \in DOMAIN c.max |-> TRUE])
    <3>1. \A s \in DOMAIN enable' : enable'[s] = TRUE
      BY <2>2
    <3>2. QED BY <1>1, <1>4, <2>2, <3>1, Zenon DEF RDM_init
  <2>3. QED BY <1>4, <2>1, <2>2 DEF RDM_init
<1>5. CASE RD_handleError \/ LineError
  <2>1. coil' \in [Sids -> BOOLEAN]
    BY <1>2, <1>3, <1>5 DEF RD_handleError, LineError
  <2>2. QED BY <1>1, <1>5, <2>1, Zenon DEF RD_handleError, LineError
<1>6. CASE Opened \/ RD_setPower
  BY <1>1, <1>6, Zenon DEF Opened, RD_setPower
<1>7. CASE OpenFails
  <2>1. coil' \in [Sids -> BOOLEAN]
    <3>1. CASE depth = MaxDepth
      BY <1>1, <1>7, <3>1, Zenon DEF OpenFails, handleDeviceError
    <3>2. CASE depth # MaxDepth
      BY <1>2, <1>3, <1>7, <3>2 DEF OpenFails, handleDeviceError
    <3>3. QED BY <3>1, <3>2
  <2>2. QED BY <1>1, <1>7, <2>1, Zenon DEF OpenFails
<1>8. ASSUME NEW s, NEW p, WriteSettings(s, p) PROVE Switches'
  BY <1>1, <1>8, Zenon DEF WriteSettings
<1>9. ASSUME NEW s \in Sids, NEW on \in BOOLEAN, WriteCoil(s, on) PROVE Switches'
  <2>1. coil' \in [Sids -> BOOLEAN]
    BY <1>1, <1>9, Zenon DEF WriteCoil
  <2>2. \A t \in DOMAIN enable' : enable'[t] \in BOOLEAN
    BY <1>1, <1>9, Zenon DEF WriteCoil
  <2>3. QED BY <1>1, <1>9, <2>1, <2>2, Zenon DEF WriteCoil
<1>10. ASSUME NEW s, NEW max, WriteLimit(s, max) PROVE Switches'
  BY <1>1, <1>10, Zenon DEF WriteLimit
<1>11. CASE UpdateWithoutServer \/ PortGone \/ PortBack
  BY <1>1, <1>11, Zenon DEF UpdateWithoutServer, PortGone, PortBack
<1>12. CASE UNCHANGED vars
  BY <1>1, <1>12, Zenon DEF vars
<1>13. QED
  BY <1>4, <1>5, <1>6, <1>7, <1>8, <1>9, <1>10, <1>11, <1>12 DEF Next

-----------------------------------------------------------------------------
(* The invariant of the slave: what a register holds, and why it may not.  *)
THEOREM Invariance == Spec => []IInv
<1>1. IInv /\ [Next]_vars => IInv'
  <2> SUFFICES ASSUME IInv, [Next]_vars PROVE IInv'
    OBVIOUS
  <2>1. Switches'
    BY SwitchesKept
  <2>2. Kept'
    <3>1. CASE \E c \in Configs : RDM_init(c)
      BY <3>1, RDMInitKeeps
    <3>2. CASE RD_handleError \/ LineError
      BY <3>2, ErrorKeeps
    <3>3. CASE Opened \/ OpenFails
      BY <3>3, OpenedKeeps, OpenFailsKeeps
    <3>4. CASE \E s \in Settings \cup {Invalid}, p \in Powers : WriteSettings(s, p)
      BY <3>4, WriteSettingsKeeps
    <3>5. CASE \/ \E s \in Sids, on \in BOOLEAN : WriteCoil(s, on)
               \/ \E s \in Sids, max \in Limits : WriteLimit(s, max)
      BY <3>5, WriteTagKeeps
    <3>6. CASE RD_setPower \/ UpdateWithoutServer \/ PortGone \/ PortBack \/ UNCHANGED vars
      BY <3>6, OtherStepsKeep
    <3>7. QED BY <3>1, <3>2, <3>3, <3>4, <3>5, <3>6 DEF Next
  <2>3. TypeOK'
    BY <2>1, <2>2 DEF TypeOK, Switches, Data, Kept
  <2>4. QED BY <2>2, <2>3 DEF Kept, IInv
<1>2. QED BY InitIInv, <1>1, PTL DEF Spec

(* Registers and members hold supported settings only; limits are words.   *)
THEOREM TypeCorrect == Spec => []TypeOK
<1>1. IInv => TypeOK
  BY DEF IInv
<1>2. QED BY Invariance, <1>1, PTL

(* Back in the event loop there is a connected slave, for any number of    *)
(* failed attempts to open the port, unless the configuration is bad.      *)
THEOREM SlaveIsUp == Spec => []SlaveUp
<1>1. IInv => SlaveUp
  BY DEF IInv, Causes
<1>2. QED BY Invariance, <1>1, PTL

(* The settings a master reads are those in force and those of the next    *)
(* change, also after a change that failed and was rolled back.            *)
THEOREM SettingsInForce == Spec => []SettingsAgree
<1>1. IInv => SettingsAgree
  BY DEF IInv, Register, Serving, SettingsAgree
<1>2. QED BY Invariance, <1>1, PTL

(* The enable bits and limits a master reads are those of the tags; for a  *)
(* tag whose sid exceeds their number, those or none.                      *)
THEOREM TagsInForce == Spec => []TagsAgree
<1>1. IInv => TagsAgree
  BY DEF IInv, Mirror, Serving, TagsAgree
<1>2. QED BY Invariance, <1>1, PTL

(* Without an error of the port or the line the daemon crashes only on     *)
(* m_status, read before anything was assigned to it.                      *)
THEOREM CrashesExplained == Spec => []CrashCause
<1>1. IInv => CrashCause
  BY DEF IInv, Causes
<1>2. QED BY Invariance, <1>1, PTL

(* A power written with new settings is the one the reader gets, unless    *)
(* the port failed.                                                        *)
THEOREM PowerArrives == Spec => []PowerWritten
<1>1. IInv => PowerWritten
  BY DEF IInv, Causes
<1>2. QED BY Invariance, <1>1, PTL

-----------------------------------------------------------------------------
(* The files as the PC tool writes them, which numbers the tags it saves   *)
(* (icfgpanel.cpp:336-349): none is passed over.                           *)
Numbered == \A c \in Configs : DOMAIN c.max = 1..c.count

Dense == DOMAIN enable = 1..count

AllShown ==
  pc = "idle" /\ dev = "connected" /\ "badXml" \notin faults =>
    \A s \in DOMAIN enable : coil[s] = enable[s] /\ limit[s] = To16(uplimit[s])

(* With such files the registers are those of every tag.                   *)
THEOREM NumberedTagsInForce == ASSUME Numbered PROVE Spec => []AllShown
<1>1. Init => Dense
  BY DEF Init, Dense
<1>2. Dense /\ [Next]_vars => Dense'
  <2> SUFFICES ASSUME Dense, [Next]_vars PROVE Dense'
    OBVIOUS
  <2>1. CASE \E c \in Configs : RDM_init(c)
    <3>1. PICK c \in Configs : RDM_init(c)
      BY <2>1
    <3>2. DOMAIN c.max = 1..c.count
      BY DEF Numbered
    <3>3. CASE enable' = <<>> /\ count' = 0
      BY <3>3 DEF Dense
    <3>4. CASE enable' = [s \in DOMAIN c.max |-> TRUE] /\ count' = c.count
      BY <3>2, <3>4 DEF Dense
    <3>5. QED BY <3>1, <3>3, <3>4, Zenon DEF RDM_init
  <2>2. CASE \E s \in Sids, on \in BOOLEAN : WriteCoil(s, on)
    BY <2>2, Zenon DEF WriteCoil, Dense
  <2>3. CASE ~(\E c \in Configs : RDM_init(c)) /\ ~(\E s \in Sids, on \in BOOLEAN : WriteCoil(s, on))
    <3>1. UNCHANGED <<enable, count>>
      BY <2>3, Zenon DEF Next, vars, rdm, RD_handleError, LineError, Opened, OpenFails,
         WriteSettings, RD_setPower, WriteLimit, UpdateWithoutServer, PortGone, PortBack
    <3>2. QED BY <3>1 DEF Dense
  <2>4. QED BY <2>1, <2>2, <2>3
<1>3. IInv /\ Dense => AllShown
  <2> SUFFICES ASSUME TagsAgree, Dense, TypeOK PROVE AllShown
    BY DEF IInv, Mirror, Serving, TagsAgree
  <2>1. \A s \in DOMAIN enable : ~(s > count)
    BY DEF Dense, TypeOK
  <2>2. QED BY <2>1, Zenon DEF TagsAgree, Shown, AllShown
<1>4. QED BY Invariance, <1>1, <1>2, <1>3, PTL DEF Spec
=============================================================================
