----------------------------- MODULE ModbusSlave -----------------------------
(***************************************************************************)
(* The Modbus slave of the daemon: a QModbusServer that MB_init makes anew *)
(* at every configuration load, reader error and error of the server, and  *)
(* whose registers a master writes: the serial settings, the power of the  *)
(* reader, and enable bit and up limit of each tag.                        *)
(*                                                                         *)
(* Everything runs on the main thread and inside calls: connectDevice      *)
(* signals an error before it returns, handleDeviceError then calls        *)
(* MB_init, and that deletes the server whose connectDevice is running.    *)
(* pc and depth say how far such a nest has got; what happens when it      *)
(* returns into a deleted server is anything, a crash included.  This is   *)
(* the Linux build; elsewhere handleDeviceError does nothing.              *)
(***************************************************************************)
EXTENDS Integers, FiniteSets

CONSTANTS
  Settings,   \* pairs of a baud rate and a parity that the slave supports
  Default,    \* the one of iRDM's constructor
  Invalid,    \* one it does not: in a register or in iTmsRdm.xml
  Tcp,        \* modbus type TCP, which has no such pair
  Unset,      \* m_rtubaudrate and m_rtuparity before the first RTU server
  Configs,    \* contents of iTmsRdm.xml: [link, max, count], see below
  MaxSid,     \* Tag1 .. Tag48 in CModbus.h
  Limits,     \* values a master writes to an up limit, of 16 bits
  Powers,     \* values it writes to the power of the reader
  MaxDepth,   \* nested MB_init calls that the stack holds
  Faults      \* faults that may happen, once each

AllFaults == {"port", "line", "badXml"}
Sids == 1..MaxSid
Words == 65536  \* values of a register
Word == 0..(Words - 1)

ASSUME SettingsAssumption ==
  /\ Default \in Settings /\ Settings \cap {Invalid, Tcp, Unset} = {}
  /\ Invalid # Tcp /\ Invalid # Unset /\ Tcp # Unset
(* max has the limit of the tag with each sid that occurs.  The PC tool     *)
(* writes the sids 1 to count, but the daemon takes any: some may be left  *)
(* out, or be those of several tags (then max has the first), or have no   *)
(* register.                                                               *)
ASSUME ConfigsAssumption ==
  \A c \in Configs :
    /\ c.link \in Settings \cup {Invalid, Tcp}
    /\ DOMAIN c.max \subseteq Sids /\ \A s \in DOMAIN c.max : c.max[s] \in Int
    /\ c.count \in Nat /\ Cardinality(DOMAIN c.max) <= c.count
ASSUME BoundsAssumption ==
  MaxSid \in Nat /\ MaxDepth \in Nat \ {0} /\ Limits \subseteq Word /\ Powers \subseteq Word
ASSUME FaultsAssumption == Faults \subseteq AllFaults

VARIABLES
  link,             \* RDM->modbustype, rtubaudrate, rtuparity
  enable, uplimit,  \* T_enable and T_uplimit of the tags, by T_sid
  count,            \* Tag_count()
  power,            \* of the reader
  rtu,              \* m_rtubaudrate, m_rtuparity
  dev,              \* modbusDevice and its state()
  port,             \* its connection parameters
  status,           \* m_status; "garbage" before anything is assigned to it
  hold, hpower,     \* registers HoldingRegister_RTU and _RDPOWER
  coil, limit,      \* coils and up limit registers
  pc,               \* what the main thread is doing
  cont,             \* what it does when connectDevice has returned
  depth,            \* MB_init calls on the stack inside connectDevice
  stale,            \* there are calls on the stack of deleted servers
  asked,            \* the power a master wrote last, with the settings
  portOk,           \* the serial port, or the address, can be opened
  faults            \* the faults that have happened

rdm  == <<link, enable, uplimit, count>>
server == <<rtu, dev, port, status>>
regs == <<hold, hpower, coil, limit>>
stack == <<pc, cont, depth, stale>>
vars == <<rdm, power, server, regs, stack, asked, portOk, faults>>

Fault(k) == k \in Faults \ faults /\ faults' = faults \cup {k}

(* What a QModbusDataUnit keeps of an int.                                 *)
To16(n) == n % Words

-----------------------------------------------------------------------------
Init ==
  /\ link = Default /\ enable = <<>> /\ uplimit = <<>> /\ count = 0 /\ power \in Powers
  /\ rtu = Unset /\ dev = "none" /\ port = Unset /\ status = "garbage"
  /\ hold = Unset /\ hpower = power
  /\ coil = [s \in Sids |-> FALSE] /\ limit = [s \in Sids |-> 0]
  /\ pc = "boot" /\ cont = "return" /\ depth = 0 /\ stale = FALSE
  /\ asked = power /\ portOk = TRUE /\ faults = {}

-----------------------------------------------------------------------------
(* MB_init.                                                                *)

(* Faulty variant: the loop ends before the last tag.                      *)
SavedButLast(tags, n) == 1..(n - 1) \cap DOMAIN tags

(* The loop takes as many sids as there are tags, from 1 on, and passes    *)
(* over those that no tag has.                                             *)
Saved(tags, n) == 1..n \cap DOMAIN tags

SetCoils(en, n) == [s \in Sids |-> s \in Saved(en, n) /\ en[s]]

(* setupDeviceData: the registers of a new server, for n tags.             *)
setupDeviceData(en, up, n) ==
  /\ hold' = rtu' /\ hpower' = power
  /\ coil' = SetCoils(en, n)
  /\ limit' = [s \in Sids |-> IF s \in Saved(up, n) THEN To16(up[s]) ELSE 0]

(* The old server is disconnected and deleted.  With settings that are not *)
(* supported there is no new one, and the call is over: control goes on at *)
(* next.                                                                   *)
MB_init(l, en, up, n, next) ==
  IF l = Invalid
  THEN /\ dev' = "none" /\ port' = Unset
       /\ status' = IF dev = "none" THEN status ELSE "unconnected"
       /\ pc' \in next /\ UNCHANGED <<rtu, regs>>
  ELSE /\ dev' = "connecting" /\ status' = "connecting" /\ port' = l
       /\ rtu' = IF l = Tcp THEN rtu ELSE l
       /\ setupDeviceData(en, up, n) /\ pc' = "open"

(* Where control may go when the calls of deleted servers return.          *)
Unwound(next) == IF stale THEN {next, "crashed"} ELSE {next}

(* Faulty variant: the register keeps what was written.                    *)
NotRolledBack(s, r) == hold' = s

RolledBack(s, r) == hold' = r

(* connectDevice returns true to MB_init, or to changeRTUserial.  If that  *)
(* has met an error, MB_init has made another server meanwhile, and the    *)
(* call on the first returns false: the register is rolled back.           *)
Opened ==
  /\ pc = "open" /\ portOk
  /\ dev' = "connected" /\ status' = "connected"
  /\ CASE cont = "return"   -> pc' \in Unwound("idle") /\ UNCHANGED <<rtu, hold>>
       [] cont = "accept"   -> pc' = "power" /\ rtu' = port /\ UNCHANGED hold
       [] cont = "rollback" -> pc' \in Unwound("power") /\ RolledBack(hold, rtu) /\ UNCHANGED rtu
  /\ cont' = "return" /\ depth' = 0 /\ stale' = FALSE
  /\ UNCHANGED <<rdm, power, port, hpower, coil, limit, asked, portOk, faults>>

(* Faulty variant: an error is logged and nothing is tried again.          *)
handleDeviceErrorLogs ==
  /\ dev' = "unconnected" /\ status' = "unconnected" /\ pc' = "idle"
  /\ UNCHANGED <<rtu, port, regs>>

(* MB_init once more, from inside connectDevice, until the port opens or   *)
(* the stack ends.  If no server is made, a rollback dereferences NULL.    *)
handleDeviceError ==
  IF depth = MaxDepth
  THEN pc' = "crashed" /\ UNCHANGED <<server, regs>>
  ELSE MB_init(link, enable, uplimit, count,
               IF cont = "return" THEN {"idle", "crashed"} ELSE {"crashed"})

OpenFails ==
  /\ pc = "open" /\ ~portOk
  /\ handleDeviceError
  /\ IF pc' = "open"
     THEN depth' = depth + 1 /\ stale' = TRUE
     ELSE depth' = 0 /\ stale' = FALSE
  /\ cont' = IF pc' = "open" /\ cont # "return" THEN "rollback" ELSE "return"
  /\ UNCHANGED <<rdm, power, asked, portOk, faults>>

-----------------------------------------------------------------------------
(* Who calls it.                                                           *)

(* Cfg_load and RDM_init, at the start and when a file has come.  A file   *)
(* that does not parse leaves no tags, or some of its own, and the server  *)
(* as it is.                                                               *)
RDM_init(c) ==
  /\ pc \in {"boot", "idle"}
  /\ \/ /\ link' = c.link /\ uplimit' = c.max
        /\ enable' = [s \in DOMAIN c.max |-> TRUE] /\ count' = c.count
        /\ MB_init(c.link, enable', c.max, c.count, {"idle"})
        /\ UNCHANGED faults
     \/ /\ Fault("badXml") /\ link' \in {link, c.link}
        /\ \/ uplimit' = <<>> /\ enable' = <<>> /\ count' = 0
           \/ /\ uplimit' = c.max /\ count' = c.count
              /\ enable' = [s \in DOMAIN c.max |-> TRUE]
        /\ pc' = "idle" /\ UNCHANGED <<server, regs>>
  /\ UNCHANGED <<power, cont, depth, stale, asked, portOk>>

(* RD_handleError, every second while the reader has an error.             *)
RD_handleError ==
  /\ pc = "idle"
  /\ MB_init(link, enable, uplimit, count, {"idle"})
  /\ UNCHANGED <<rdm, power, cont, depth, stale, asked, portOk, faults>>

(* An error while the server is connected: it is deleted by its own signal.*)
LineError ==
  /\ pc = "idle" /\ dev = "connected" /\ Fault("line")
  /\ MB_init(link, enable, uplimit, count, {"idle", "crashed"})
  /\ stale' = (pc' = "open")
  /\ UNCHANGED <<rdm, power, cont, depth, asked, portOk>>

-----------------------------------------------------------------------------
(* Writes of a master.                                                     *)

Written == pc = "idle" /\ dev = "connected"

(* Faulty variant: the new settings start a new server.                    *)
changeRTUserialAnew(s, p) ==
  /\ dev' = "connecting" /\ status' = "connecting" /\ port' = s
  /\ pc' = "open" /\ cont' = "accept"
  /\ hpower' = power

(* The server is reconnected with the settings s and keeps its registers,  *)
(* p among them.                                                           *)
changeRTUserial(s, p) ==
  /\ dev' = "connecting" /\ status' = "connecting" /\ port' = s
  /\ pc' = "open" /\ cont' = "accept"
  /\ hpower' = p

(* One request for the first three registers; the second is always reset   *)
(* to ModbusTcpPort.  The server stores all, then the handlers run in      *)
(* order.  With type TCP no settings are taken.  When those that are not   *)
(* supported are rolled back, setData signals a write once more, and the   *)
(* server is reconnected with the settings that it had.                    *)
WriteSettings(s, p) ==
  /\ Written /\ asked' = p
  /\ \/ /\ port = Tcp /\ RolledBack(s, rtu) /\ hpower' = p /\ pc' = "power"
        /\ UNCHANGED <<dev, port, status, cont>>
     \/ port # Tcp /\ s # Invalid /\ hold' = s /\ changeRTUserial(s, p)
     \/ port # Tcp /\ s = Invalid /\ RolledBack(s, rtu) /\ changeRTUserial(rtu, p)
  /\ UNCHANGED <<rdm, power, rtu, coil, limit, depth, stale, portOk, faults>>

(* The handler of HoldingRegister_RDPOWER: it reads the register of the    *)
(* server there is now.                                                    *)
RD_setPower ==
  /\ pc = "power" /\ power' = hpower /\ pc' = "idle"
  /\ UNCHANGED <<rdm, server, regs, cont, depth, stale, asked, portOk, faults>>

WriteCoil(s, on) ==
  /\ Written
  /\ coil' = [coil EXCEPT ![s] = on]
  /\ enable' = [t \in DOMAIN enable |-> IF t = s THEN on ELSE enable[t]]
  /\ UNCHANGED <<link, uplimit, count, power, server, hold, hpower, limit, stack, asked, portOk, faults>>

(* The limit is taken as the register has it, without a sign, and is not   *)
(* written to iTmsRdm.xml: Cfg_changeTagUpLimit does nothing.              *)
WriteLimit(s, max) ==
  /\ Written
  /\ limit' = [limit EXCEPT ![s] = max]
  /\ uplimit' = [t \in DOMAIN uplimit |-> IF t = s THEN max ELSE uplimit[t]]
  /\ UNCHANGED <<link, enable, count, power, server, hold, hpower, coil, stack, asked, portOk, faults>>

-----------------------------------------------------------------------------
(* Faulty variant: registers are updated whatever the state.               *)
AnyStatus == TRUE

(* m_status says connected, or could by chance.                            *)
StatusConnected == status \in {"connected", "garbage"}

(* updateRdmRegisters and updatesystime ask m_status, not modbusDevice.    *)
UpdateWithoutServer ==
  /\ pc = "idle" /\ StatusConnected /\ dev = "none" /\ pc' = "crashed"
  /\ UNCHANGED <<rdm, power, server, regs, cont, depth, stale, asked, portOk, faults>>

PortGone ==
  /\ Fault("port") /\ portOk' = FALSE
  /\ UNCHANGED <<rdm, power, server, regs, stack, asked>>

PortBack ==
  /\ ~portOk /\ portOk' = TRUE
  /\ UNCHANGED <<rdm, power, server, regs, stack, asked, faults>>

Next ==
  \/ \E c \in Configs : RDM_init(c)
  \/ RD_handleError \/ LineError \/ Opened \/ OpenFails
  \/ \E s \in Settings \cup {Invalid}, p \in Powers : WriteSettings(s, p)
  \/ RD_setPower
  \/ \E s \in Sids, on \in BOOLEAN : WriteCoil(s, on)
  \/ \E s \in Sids, max \in Limits : WriteLimit(s, max)
  \/ UpdateWithoutServer \/ PortGone \/ PortBack

Spec == Init /\ [][Next]_vars

-----------------------------------------------------------------------------
(* The type invariant: registers and members hold supported settings only, *)
(* and limits are written as words.                                        *)
TypeOK ==
  /\ link \in Settings \cup {Invalid, Tcp}
  /\ DOMAIN enable = DOMAIN uplimit /\ DOMAIN enable \subseteq Sids
  /\ \A s \in DOMAIN enable : enable[s] \in BOOLEAN /\ uplimit[s] \in Int
  /\ count \in Nat
  /\ {power, hpower, asked} \subseteq Word
  /\ {rtu, hold} \subseteq Settings \cup {Unset} /\ port \in Settings \cup {Tcp, Unset}
  /\ dev \in {"none", "connecting", "connected"}
  /\ status \in {"garbage", "unconnected", "connecting", "connected"}
  /\ coil \in [Sids -> BOOLEAN] /\ limit \in [Sids -> Word]
  /\ pc \in {"boot", "idle", "open", "power", "crashed"}
  /\ cont \in {"return", "accept", "rollback"} /\ depth \in 0..MaxDepth
  /\ stale \in BOOLEAN /\ portOk \in BOOLEAN /\ faults \subseteq Faults

(* Whenever the main thread is back in its event loop there is a connected *)
(* slave, unless the last configuration has settings that are not          *)
(* supported or did not parse: also after settings that could not be       *)
(* applied, errors of the line, and a port that was away for a while.      *)
SlaveUp ==
  pc = "idle" => dev = "connected" \/ link = Invalid \/ "badXml" \in faults

(* The settings a master reads are those of the next change, and those the *)
(* port runs with ("when data is not valid or error, roll back the raw     *)
(* data", CModbus.cpp:312), even when a failed change was answered by      *)
(* going back to other settings.                                           *)
SettingsAgree ==
  pc = "idle" /\ dev = "connected" => hold = rtu /\ port \in {rtu, Tcp}

(* Coil and limit of the tag with sid s are in its registers; or, if its   *)
(* sid exceeds the number of tags, these may be clear.                     *)
Shown(s) ==
  /\ coil[s] = enable[s] \/ (s > count /\ coil[s] = FALSE)
  /\ limit[s] = To16(uplimit[s]) \/ (s > count /\ limit[s] = 0)

(* The enable bits and limits a master reads are those of the tags, after  *)
(* any loads, re-initialisations and writes, if the files parse.  A tag    *)
(* whose sid exceeds the number of tags, in a file with sids left out, is  *)
(* passed over (CModbus.cpp:202): its registers are clear, or what a       *)
(* master wrote and the tag has, never those of another tag or an old one. *)
TagsAgree ==
  pc = "idle" /\ dev = "connected" /\ "badXml" \notin faults =>
    \A s \in DOMAIN enable : Shown(s)

(* The daemon does not crash by what masters write or by configurations    *)
(* that parse, supported or not: only by errors of the port, or before any *)
(* server was made, when m_status is read uninitialised.                   *)
CrashCause ==
  pc = "crashed" => faults \cap {"port", "line"} # {} \/ status = "garbage"

(* A power written together with new settings reaches the reader, although *)
(* the slave reconnects between the two; unless the port cannot be opened: *)
(* then the register is read from another server.                          *)
PowerWritten ==
  pc = "power" => hpower = asked \/ "port" \in faults
=============================================================================
