# A verification project for PTMS

PTMS measures the temperature of passive RFID sensor tags. This directory holds
TLA+ models of it, the TLC configurations that check them, and proofs that TLAPS
checks. Line numbers refer to the sources as they are in this repository (GBK
encoded; read them with `iconv -f gbk -t utf8`).

## 1. The system

Three programs:

* **iTmsRdm**, the daemon on the device ("RDM"): a Qt program with a *main thread*
  (an event loop with three timers, UDP and TCP sockets, an MQTT client, a Modbus
  slave, an HTTP client for updates and a display) and one *reading thread*,
  `iReader::run`, that drives the RFID reader module over a serial line.
* **iTmsGui**, the PC tool: finds devices by UDP broadcast, shows and edits their
  configuration, writes it to `iTmsRdm.xml` and sends it over TCP.
* **iTmsTest**, a Modbus master that polls a device and shows its registers.

`libs/` and `libs-API-1.31.3.36-2/` are vendored headers of the reader's API.

### Inventory

| Component | State | Operations | Talks to | What is hard |
|---|---|---|---|---|
| `iReader` (`ireader.*`) | `bStopped`, `bError`, `bCreated`, `power`, the `TMR_Reader`, `cur_plan` | `RD_init`, `RD_stop`, `RD_restart`, `RD_setPower`, `run`, `handleError`, `wirteEpc` | tags (both threads), reader module | two threads, no lock on most of the state, every reader call can fail |
| `iRDM` (`irdm.*`) | `taglist`, `tagOnline` under `Mutex`, settings, timers, `RDM_ticks` | `RDM_init`, `Cfg_load`, `timerEvent`, `RD_handleError` | all others | reload while the thread runs; failed loads |
| `iTag` (`itag.*`) | `T_ticks`, `T_temp`, `T_uplimit`, `T_enable`, alarms, `T_data_flag` | `isonline`, `hasDataFlag`, `parseTCode` | - | written by both threads without a lock |
| `iDevice` (`idevice.*`) | MQTT client, topics | `IOT_tick`, `PUB_tag_data`, `PUB_tag_event`, `OTA_Process` | broker, OTA | connection comes and goes; events lost |
| `OTA` (`OTA.*`) | reply, file | `OTAstart`, `httpReadyRead`, `httpFinished` | timers of `iRDM`, file system | timers stopped meanwhile; partial failures; nested event loop |
| `iBC` (`ibc.*`) | `totalBytes`, `recvBytes`, `savedFile`, `tcpConnection` | UDP commands, TCP reception, `OnFileDone`, `OnUpgradeRdm` | PC tool, `iReader`, `iRDM` | UDP loses and duplicates; a file written in place |
| `CModbus` (`CModbus.*`) | registers, serial settings | `MB_init*`, write handlers, register mirror | master, tags, reader | partial failure of a change of settings; dates set in pieces |
| display (`iview`, `itile`, `iLed`, `icfgdlg`) | tiles with `iTag*` | painting | tags | pointers into a list that is rebuilt |
| `EthernetCmd` and views (iTmsGui) | selected device, `sendfile`, `filesize`, `leftwritten` | requests, replies, file transfer | `iBC` | replies of another device; two transfers at once |
| `iTmsTest` | polling state, one `writeRequest` slot, reply counters | poll, write, reconnect | `CModbus` | lost replies, alarms that come and go between two polls, a configuration that changes under the poll |

### What makes it correct

* *Reader*: the main thread touches the reader object and rebuilds the tag list only
  while the reading thread is stopped; stopping always succeeds; an error is kept
  until it is repaired, and repaired once it can be.
* *Tags*: a tag that left is reported offline, one that stays is shown online, one
  that is too hot is reported, whatever the interleaving of the thread and the two
  timers and whatever was lost while the broker was away.
* *Transfer*: the device loads only complete files, and the PC tool reports success
  only for those.
* *Update*: the device monitors again after every failed update, and always has a
  program to start.
* *Modbus*: a register shows the setting in force; a setting that is accepted survives.
* *PC tool*: what is shown, and downloaded, belongs to the selected device.

The hazards, each at its line and with the properties that watch it, are listed in
`PROJECT.json`. Some are watched by none: then the sources promise nothing that a property
could state, or the model assumes them away, and the note says which.

## 2. The modules

| Module | Contents |
|---|---|
| `RdmReader` | main thread and reading thread of the daemon, as far as they share the reader, the tag lists and the flags |
| `StopGate` | what `RD_stop` and `RD_restart` promise, abstractly |
| `RdmReaderProofs` | theorems about `RdmReader` |
| `MCRdmReader` | instances of `RdmReader` for TLC |
| `RdmTags` | the state of managed tags and what the cloud is told of it |
| `RdmTagsProofs` | its type invariant, proved |
| `MCRdmTags` | instances of `RdmTags` for TLC |
| `FileTransfer` | a configuration file on its way from the PC tool to the daemon |
| `FileTransferProofs` | theorems about `FileTransfer` |
| `MCFileTransfer` | instances of `FileTransfer` for TLC |
| `OtaUpdate`, `MCOtaUpdate` | updates of the daemon's program over HTTP and from the PC tool, the connection to the cloud |
| `ModbusSlave`, `MCModbusSlave` | the Modbus server of the daemon: its life, its settings, registers against members |
| `OtaUpdateProofs`, `ModbusSlaveProofs` | theorems about these two |
| `ModbusClock`, `MCModbusClock` | the three registers that set the clock |
| `EpcWrite`, `MCEpcWrite` | PC tool and daemon: what each believes the EPC of a tag, and the managed tags, to be |
| `ModbusPoll`, `MCModbusPoll` | the Modbus test master: polling, counters, alarm history |
| `EpcWriteProofs`, `ModbusPollProofs` | theorems about these two |

### RdmReader

`mpc` is the next step of the main thread ("loop" is the event loop), `rpc` that of
the reading thread ("off" when `isRunning()` is false). Names of actions are names of
functions, or of the stage of a function. One handler of the event loop runs to its
end before the next, as Qt does it; but a handler is *several* steps, cut wherever
the other thread could see or change something: `RD_stop` sets the flag in one step
and returns in another that waits for `rpc = "off"`; `RD_init` is `TMR_destroy`,
`InitStop`, `TMR_create`, `TMR_connect`, `TMR_params` (some twenty
`TMR_paramGet`/`TMR_paramSet` calls, each of which may return), `InitRestart`,
`ClearError`. `job` remembers the caller, hence where `RD_init` returns to. The
handlers are a received `iTmsRdm.xml` (`OnFileDone`), the one-second timer that finds
`bError` (`RD_handleError`), a Modbus write of the reader power (`RD_setPower`), a
UDP request to write an EPC (`UDP_cmd_tag_epc`), and the destructor (`Quit`).

The reading thread's loop is one action per statement that touches shared state.
Sections under `Mutex` are single steps that need it free; only `UDP_cmd_tag_epc`
holds it over several steps, with a reader operation inside.

`tmr` says how far `RD_init` has brought the reader object. A reader operation needs
`linkUp` and an object that was connected; even then it may fail (a tag that leaves
while its TID is read makes `run` return, `ireader.cpp:355-358`). On an object
destroyed under the thread it may do either. `bError` starts with either value: the
constructor does not initialise it.

Left out: what a tag contains (see `RdmTags`), the uri (the same at every call on the
target), the order of `bCreated` and `TMR_create`'s result when the link is down
(both are allowed).

`StopGate` is the contract in two variables: a worker that is running or off, and a
main thread that is out, asking, or in; being in excludes a running worker, and
asking leads to being in. `Gate` in `RdmReader` is the refinement mapping.

### RdmTags

One tag is written by three activities without a lock. The reading thread lowers
`T_ticks` of every tag, reads, refreshes the tags that answer and takes their
temperature (`Read`, `Refresh`, `TakeTemperature`); `RdmTimer` checks who is online
and raises the offline alarm (`CheckOnline`, `MarkOffline`: two steps, for the thread
may refresh the tag in between); `IotTimer` publishes and resets (`Publish`,
`ClearAlarms`, likewise). Modbus writes of coils and up limits, a reload, the reader
failing, tags moving and the broker's connection interleave with all of it.

`field[t]` is what tag `t` would answer at this moment; a tag that is missed in one
scan is one that is `Out` for that moment. `cloud` is what the broker was last told of
a tag, `told` whether an offline event got through since the tag was last read.
Temperatures are whole degrees. Of `T_data_flag` only `Tag_Online` is kept, the one
bit that both threads set; an update of it that is lost to the other thread's
read-modify-write is the second disjunct of `ClearAlarms`. The reader's error handling
is only `readerUp` here, since `RdmReader` has it in full.

### FileTransfer

The PC tool (`EthernetCmd`) announces a file's length in a datagram; the daemon
(`iBC`) notes it, sets its count to 0 and answers; on the answer the PC tool
connects and sends the file in blocks of `payload`; the daemon counts what it reads,
and closes the connection and loads the file when the count is the announced length.
There is no other end mark, no check sum, no timeout and no answer.

A unit of a file is `<<file, position>>`, so that mixtures show. `buf` is what
`QTcpSocket::write` took and the kernel did not; a `bytesWritten` for any part of it
is `updateClientProgress`. `wire` is on the way to the daemon; `readyRead` may find any
part of it. `link` is the connection as the daemon has it: in the backlog, accepted
(then it is `tcpConnection`), or closed. `olds` counts connections that the PC tool gave
up and whose end the daemon has not seen: their signals reach the same slots, which
close whatever `tcpConnection` is at that time (`ServerError`). `total`, `recv`, `named`
and `disk` are `totalBytes`, `recvBytes`, "`fileName` is set" and the saved file, opened
(and cut) when `recv` is 0. `installed` is what `reloadXml` last read; the reload itself is
`RdmReader`'s.

Assumed: TCP keeps order, and a connection that the PC tool gave up after an error
delivers nothing more. UDP may lose, but does not duplicate. A download starts when the
one before is over: `Download` has that guard, the PC tool has none. Its button is
off until the next edit (`irdmview.cpp:123`), which justifies the guard for a user only in
part, and for the PC tool itself not at all: the panel downloads at each acknowledgement of
an EPC of a managed tag (`icfgpanel.cpp:272-273`), without the button. Without the
assumption `LoadedComplete` fails: the announcement of the second file resets the
daemon's count in the middle of the first. A `TarFile` takes
the same way to `OnUpgradeRdm`, which is an action of `OtaUpdate`.

### OtaUpdate

`stage[u]` is how far update `u` has got: `fetching` (its `QNetworkReply` is running),
`moved` (the program is `iTmsRdm.bk`), `unpacked`, `ended`. Each request is an `OTA` object
with a file handle of its own (`got[u]` is its position); the file is the one the url names,
so two requests may write one file. `httpFinished` is cut where power may fail (`moved`, before
`unzip` is done) and at `delayms` before the restart (`unpacked`), which runs a nested event
loop: whether another handler may run at a moment is `EventLoop`, the guard of all of them. `OnUpgradeRdm` does the same without delays, for an archive that
`FileTransfer` brought. `timers` is `Tmr_stop` and `Tmr_start`; the timer that counts
down to a reconnection (`IOT_tick`) is one of those that are stopped.

The server, the network, archives and power are external: a reply may end early or with
an error, a unit may arrive corrupted, the power may fail between two steps and lose
what was not synced.

### ModbusSlave, ModbusClock

The server runs on the main thread, but its calls nest: `connectDevice` signals an error
before it returns, the slot (`handleDeviceError`) calls `MB_init`, which deletes the
server whose `connectDevice` is still on the stack. `pc` is what the main thread is doing,
`cont` what it will do when `connectDevice` returns (return from `MB_init`, accept new
settings, or roll them back), `depth` the nested calls, `stale` whether some of them belong
to deleted servers. Returning into such a call is undefined: a crash or not (`Unwound`).
`rtu` are the members `m_rtubaudrate` and `m_rtuparity`, `port` the parameters of the
connection, `hold`, `hpower`, `coil` and `limit` the registers as a master reads them.
`updateRdmRegisters` asks `m_status`, which is never initialised, and not whether there is a
server: `UpdateWithoutServer` is that dereference. `count` is `Tag_count()`: the loop that
fills the registers of a new server goes over the sids from 1 to `count` and passes over those no
tag has (`Saved`). The PC tool numbers tags from 1 on (`icfgpanel.cpp:336-349`), but the
daemon takes any sid (`irdm.cpp:231`): with sids left out, the registers of the later tags
stay clear, and `TagsAgree` says no more of these. Qt's `setData` signals a write when it changes a
value, so the roll back of settings that are not supported enters the handler again, which
reconnects with the old ones (third case of `WriteSettings`). The mirror of temperatures and flags
writes values of tags into registers that nobody else writes, and is left out.

`ModbusClock` is one write of the three clock registers. Each handler changes its part
of the *current* date and sets the system clock with it; `SystemTimes` is `toTime_t` of what
may not be a date.

### EpcWrite

One device and the PC tool, with requests and replies in flight. `air` is what the tags
have; `known` and `taglist` the daemon's `tagOnline` and `taglist`; `shown` and `panel` the PC
tool's `tagModelOnline` and `tagModelPara`; `file` a download on its way. The PC tool has no
state for a request: an acknowledgement goes into `shown` through `setData`, as an edit does, and
so becomes a request again if it brings another EPC; and the panel then downloads the
settings. The daemon's handler is one step here, as no other handler can interleave;
what the reading thread does meanwhile is in `RdmReader`. `doubt`, `raced`, `crossed`, `stray` and
`cut` remember the circumstances under which a copy may be wrong for good; each property
names those it needs, and without any one of them it fails (`raced` in `TagsKept`: from five acts on).
That is what the run shows: there are no other circumstances.

### ModbusPoll

`Poll` is the timer of 200 ms (a pending write first, else the next kind of data), `Check`
that of one second. `queue` is the queue of `QModbusClient`; a request ends with an answer
(`readReady`), an exception (`Refused`: the EPCs of more than 15 tags are more than 125
registers), a timeout, or a disconnection (`Close`). `missing` is `request_cnt - reply_cnt`: the
code uses nothing but the difference. `Visited` is the loop of `dataHandler`, whose
counter is also the millisecond of a row that is saved, so that a tag after one with a new
alarm is passed over. `saved` are the tags whose present alarm has a row with their EPC.
Of the twelve kinds of data those without effect on others are one, "other". A selection
in the table does not move a pending write: `OnCurrentChanged` is connected to no signal.

## 3. The runs

| Run | Module, config | Shows |
|---|---|---|
| `reader` | `MCRdmReader`, `reader.cfg` | 302 082 states, all interleavings: the tag list is rebuilt and the reader set up only with the thread stopped, no pointer to a deleted tag is used, errors stay until the reader is ready, `RD_stop` returns, errors are repaired, the gate's contract (safety and liveness) is implemented, no deadlock |
| `reader_destroyed` | `MCRdmReader`, `reader_destroyed.cfg` | finding 1 |
| `reader_dead` | `MCRdmReader`, `reader_dead.cfg` | finding 2 |
| `tags` | `MCRdmTags`, `tags.cfg` | 132 784 states: offline events arrive, the cloud's view converges, over-temperature is reported again and again |
| `tags_once` | `MCRdmTags`, `tags_once.cfg` | finding 3 |
| `transfer` | `MCFileTransfer`, `transfer.cfg` | 47 732 states, every fault at every moment: only whole files are loaded, every transfer ends on the PC's side (unless the daemon was restarted), a file arrives when nothing fails |
| `transfer_success` | `MCFileTransfer`, `transfer_success.cfg` | finding 4 |
| `ota` | `MCOtaUpdate`, `ota.cfg` | every fault once, three updates at once: what can leave the device without a program, what `iTmsRdm.bk` holds, that the timers come back, that the cloud learns the version, that an undisturbed update is installed |
| `modbus` | `MCModbusSlave`, `modbus.cfg` | 406 000 states: loads, errors, writes and nested re-initialisation: a slave is up, settings, enable bits and limits agree, a power written with settings reaches the reader, crashes have one of two causes |
| `modbus_clock` | `MCModbusClock`, `modbus_clock.cfg` | finding 5 |
| `epc` | `MCEpcWrite`, `epc.cfg` | 471 201 states: all copies of an EPC agree when nothing is under way, no download loses a managed tag, edits settle, the PC tool crashes only on a list that comes unasked |
| `poll` | `MCModbusPoll`, `poll.cfg` | 346 398 states: the counters match the queue, a lasting alarm is saved |

**Bounds.** `reader`: two tags, so that the thread can hold a pointer to one while
the main thread works on the other and a scan can fail between them; `TagTicks = 1`,
so that one missed scan is enough for a purge (more ticks only delay it); one power
that the module accepts and one that it refuses. Exhaustive otherwise: there is no
bound on the number of requests, failures or scans. The program ends in state
"exited", from which only the link can change; so there is no state without a
successor, and a stuck thread shows as a violation of `StopReturns`.
`tags`: one tag, since tags do not interact; `TagTicks = 2`, so that one missed scan is
not yet offline (with 1 a tag would be offline while it is being read);
temperatures 20, 40 and 200, where 20 and 40 are both accepted from the initial 0 and
each is implausible after the other, and 200 is out of range; limits 30 and 75.
`transfer`: two files of 2 and 3 units with a payload of 2, hence one block and two, the
second short, each written and read whole or in parts; any number of downloads; each
kind of fault (a lost datagram, a refused connection, an error at the PC's end, one at
the daemon's, a restart of the daemon) happens at most once, in any order. One broken
connection is enough for an end seen late, during the next transfer. Deadlock is not
checked: after a restart at the wrong moment the transfer does hang for good.
`ota`: two updates from the cloud under one file name and one from the PC tool under
another, of one or two units, so that a file can be cut short and two writers can
interleave in it; two ticks to a reconnection; every fault once. Deadlock is not checked:
without a program the service stops.
`modbus`: two baud rates, unsupported settings and TCP; two tags; a configuration
may have both, the first, only the second (a sid above the number of tags), or one sid twice; a limit that is negative as an `int`; two nested calls of `MB_init` (the stack holds
more; each is like the one before); every fault once. Deadlock is not checked: a crash ends
the program. `modbus_clock`: a few dates and requests; the violation needs one request.
`epc`: two tags with one EPC at first, one managed; two EPCs; four acts of the user, the first
of which is a search. The safety properties were also explored in full with five acts
(6 797 354 states), and with six for one tag; eight acts in simulation.
`poll`: a slave of two tags, or of three, whose EPCs are one too many for an answer
(`EpcMax` 2 for 15); `Limit` 3 for 20 missing replies and one poll between two checks for
five (`Slack`); at most two requests wait while the slave answers (`Waiting`: an answer
comes within the 200 ms of a poll or the next; with `Limit` not above it every answer
could come too late, and no alarm would be read). Three acts: connect, and a
reconnection or writes; one fault. Alarms change without bound.

**Fairness.** `WF(run)` and `WF(Proceed)`: both threads are scheduled and a handler
that has begun goes on. `SF(RD_handleError)` and, in `RdmTags`, strong fairness of the
two timers: they are enabled only between handlers, and Qt does not starve a timer
that is due. In `FileTransfer`, weak fairness of what the network and the two event
loops do by themselves, not of the user, of faults or of the end of an old connection. In
`OtaUpdate`, weak fairness of the timer, of unpacking and of the restart, and strong fairness of a
connection, of arriving data and of the end of a reply, which other handlers may disable for a
moment; not of failures. In `EpcWrite` and `ModbusPoll`, weak fairness of the handlers of what
has arrived, of the load of a file, of the timers and of the timeout. `ModbusSlave` and
`ModbusClock` have safety properties only. Nothing is assumed of requests, of repairs or of the world: the
liveness properties state as a premise which part of the world must be quiet
(`<>[](linkUp /\ ...)`, `Settled`). Without those premises they are false: see the
hazards.

**Faulty variants.** Definitions marked so in the modules are not part of any
specification. Each is a plausible slip in the definition that follows it (a missing
`RD_stop`, a lock taken too early, an edge instead of a level) and makes one of the
properties fail, which shows that the property watches that code.

### Findings

1. `RD_init(true)` destroys the reader before it stops the thread
   (`ireader.cpp:41-44`). From `RD_handleError` the thread is on its way out; from a
   Modbus write of the reader power it is running, and uses what was destroyed.
2. `RD_init` clears `bError` after it has started the thread
   (`ireader.cpp:197-198`). An error of the new thread in between is lost: the
   thread is gone and the one-second timer sees no error.
3. The offline alarm is documented as one for the transition (`itag.h:69`) and raised
   by level (`irdm.cpp:355`): a tag that stays away is reported every five seconds.
   The same level is why the event survives a broker that is away
   (`OfflineReported`): `PUB_tag_event` does not test the connection.
4. "Download successful" (`iTmsGui.cpp:96`) is shown when the last bytes are with the
   PC's kernel (`EthernetCmd.cpp:299`), and stays when the daemon closes the connection
   without having read them.
5. A date and time that a Modbus master writes in one request is set in three steps
   (`CModbus.cpp:340-427`), each with the other parts of the current date: on the 31st of a
   month a date in a shorter month goes through one that does not exist, and never
   arrives.

Also seen, and not turned into a run: a daemon that is restarted between announcement
and connection has no file name, so the open fails and it neither reads nor closes
(`ibc.cpp:233-240`); the PC tool's socket then stays connected, and `connectToHost` does
nothing for all later downloads. `RD_setPower` ignores the result of `RD_init`, so
an invalid power stops the reader with no error flagged; and since only the thread
lowers `T_ticks`, a dead reader leaves all its tags online. A year below 10 is taken as 200x
without its zero (`CModbus.cpp:359`). A tag whose sid exceeds the number of tags has
registers that are never filled (`CModbus.cpp:201-208`): a master reads it as disabled, with limit 0. The md5 of an update is parsed and never compared
(`idevice.cpp:189`), and `iTmsRdm.bk` is never put back. An EPC written to a tag that is not
managed is acknowledged with the old one (`ibc.cpp:473`), which the PC tool then asks
for again; two edits in a row may chase each other for ever, each round with a download
(`Model.cpp:373`). iTmsTest reads the EPCs of 16 tags in one request that the protocol does
not allow (`iTmsTest.cpp:399`), so their EPCs are never shown and the connection is made
anew about every fifty seconds; an alarm that lasts for one poll only is not saved if the tag
before it alarms in the same poll (`iTmsTest.cpp:552`); and when a reconnection fails, none is
tried again.

## 4. The proofs

Every safety property that a run checks is proved of its specification, for all values of
the constants, in seven modules:

| Module | Proved | Assumed of the constants |
|---|---|---|
| `RdmReaderProofs` | `TypeOK`, `TagListRebuiltAlone`, `TmrUsedAlone`, `NoDanglingTag`, `ErrorClearedOnlyWhenReady`; every step implements `StopGate` (`ReaderImplementsGate`) | `NoTag` is no tag, `TagTicks` is positive, the default power is valid |
| `RdmTagsProofs` | `TypeOK` | temperatures and limits are integers, `TagTicks` is more than 1 |
| `EpcWriteProofs` | `TypeOK`, `NoCrash`, `EpcAgree`, `TagsKept` | every tag has an EPC at first, managed tags are tags |
| `FileTransferProofs` | `TypeOK`, `LoadedComplete`, and that what is loaded is the file that is sent (`LoadsTheFileSent`) | files and payload are not empty |
| `OtaUpdateProofs` | `TypeOK`, `NeverBricked`, `BackupIsOld` | archives are not empty, each has a name, updates differ from each other and from the factory's version |
| `ModbusSlaveProofs` | `TypeOK`, `SlaveUp`, `SettingsAgree`, `TagsAgree`, `CrashCause`, `PowerWritten`; for numbered tags, `AllShown` (`NumberedTagsInForce`) | the default is a setting, the marks for none, TCP and invalid ones are not, and differ; a file has at least as many tags as sids; limits are integers in a configuration and words in a register; a call may nest (`MaxDepth` is positive) |
| `ModbusPollProofs` | `TypeOK` | a slave may have a tag (`MaxTags` is 48), bounds are positive |

The bounds of the runs (tags, EPCs, acts, faults, sizes, nested calls) are constants like the
others: the theorems hold for all of them. Each module proves one inductive invariant, `IInv`
(`Init => IInv`, `IInv` and a step give `IInv'`), and takes the properties from it. TLC
checked each `IInv` on the instance of its run before it was proved. None of the properties is
inductive alone; why, and what `IInv` adds:

**Reader.**

* `Alone`: at every exclusive step of the main thread, from the return of `RD_stop` to
  the next `RD_restart`, the thread is off. Only `RD_restart` starts it, and a
  handler that has passed `RD_stop` performs no other restart before it is done.
  `TagListRebuiltAlone` and `TmrUsedAlone` are instances of it.
* `MutexHeld`: the main thread holds `Mutex` exactly around the EPC write.
* `EpcRequested`: a request that waits has a uid to look up. With `Alone` it gives
  `NoDanglingTag`: nothing is purged while the pointer lives, since the thread is off
  until `EpcRestart`, also after `Mutex` is released.
* `ReadyAtRestart`: `RD_init` gets to its end only with a complete reader; from it
  follows `ErrorKept`.

**Tags.** The type invariant is inductive as it stands: it contains that accepted temperatures
are in range, that the thread and the timers hold a tag exactly between two of their steps,
and that a timer's loop always has a tag to go on with.

**EPCs.** `EpcAgree` speaks of the moments when nothing is under way; the invariant must say
what holds at the others. `Agreement`:

* the daemon's `tagOnline` is always right (`KnownTrue`), and while nothing raced so are its
  managed tags (`ListTrue`) and a file that is under way (`FileTrue`; for these two, the
  requests that wait may change no EPC);
* an answer under way tells the EPC a tag has *unless a later answer is about this tag*
  (`AnswersTrue`): this is where the order of the datagrams is needed;
* an EPC in a list of the PC tool is right or a datagram about it is under way (`ShownTrue`,
  `PanelTrue`). An acknowledgement that is old is not applied in silence: a later one follows,
  or it becomes a request again.

`TagsKept` needs `Complete`, about sets of tags alone: a panel that may be downloaded (it has
tags, or the button is on) holds all managed tags, the tags of an answer are the managed ones,
and if both such an answer and such a panel exist they are equal. `NoCrash` needs
`Unselected`: without a selection the lists are empty, unless one came unasked.

**Transfer.** `LoadedComplete` speaks of the contents of the saved file, which is compared with
nothing in the code. `IInv` follows the bytes: what is saved, what is in flight and what the PC
tool's buffer holds are adjacent pieces of the one file that is sent (`Saved`, `NetStream`,
`GuiStream`), whatever parts they were written and read in; the daemon's count and length are
those of this file or it has no name to save it under (`Counting`); and of the connections that
were given up none delivers to the current one (`Order`). So the count reaches the length exactly
with the last piece.

**Update.** `NeverBricked` needs the contents of the archive at the moment it is unpacked, which the
code does not look at (`Contents`): as long as a file has one writer (`OneWriter`) it holds the
units its writer got, hence is whole when the sizes agree; and a program is missing only between
`moved` and `unpacked`. `Program` says which version is on the disk, for `BackupIsOld`.

**Modbus slave.** `SettingsAgree` is about the event loop; a change of settings leaves it, opens
the port, and may come back to it through an error, a roll back, or calls that were nested in
`connectDevice`. `Register` says what the register holds at each of these steps (the member,
except while a change is under way: then what the port is to be opened with); `Stage` ties the
steps to the server's state; `Causes` says which fault each way back needs. `Mirror` is
`TagsAgree` at every step with a server: the registers that a new server fills show the tags as
they are then, whatever the file said, and those it leaves clear belong to sids above the number
of tags. If the files number their tags from 1 on (`Numbered`, assumed by this one theorem only)
there are none of these, and the registers are those of every tag (`NumberedTagsInForce`).

**Test master.** `Len(queue) <= missing`, for any length of the queue, since each request is counted
when it is sent and each that ends is counted as answered or stays missing; and a tag's row is
only read with a count of tags that a slave may have.

Only model-checked, since liveness under fairness and `ENABLED` are beyond TLAPS: everything
with `~>` or `<>` (`StopReturns`, `ErrorRecovers`, `OfflineReported`, `CloudConverges`, `HeatReported`,
`TransferEnds`, `Delivered`, `MonitoringResumes`, `VersionKnown`, `UpdateInstalled`, `EditsSettle`,
`AlarmSaved`) and the liveness half of the gate's contract.

## 5. Plan

Done: `RdmReader`, `StopGate`, `RdmTags`, `FileTransfer`, `OtaUpdate`, `ModbusSlave`, `ModbusClock`,
`EpcWrite`, `ModbusPoll`; the proofs of all their safety properties.

Next, in this order:

1. An abstract specification for `FileTransfer` (a file that is replaced as a whole, by the one
   that is sent) and the proof that every step implements it: `LoadsTheFileSent` is the step that
   matters. The same for the settings of `ModbusSlave` (a change happens or does not).
2. The safety facts behind the liveness of `RdmTags` (what a flag that is set, and an alarm that is
   raised, say of the tag), as theorems.
3. Several devices in `EpcWrite`: replies carry no device, so those of the one selected
   before may fill the lists of the next.
4. Duplicated datagrams, and downloads before the last one is over, in `FileTransfer`: how far
   `LoadedComplete` can be kept.

## 6. Not modelled

The display (painting and GPIO; it changes no state of the daemon). The layout of packets and
XML, and pure conversions (temperatures in tenths, uid words, `parseTCode`): a unit test
reaches them better. The text fields and the data view of the PC tool and its database. The
new address of a device (`UDP_cmd_rdm_ip`), which only the operating system keeps. The rows that
iTmsTest saves by timers. The radio itself. The vendored headers under `libs/` and
`libs-API-1.31.3.36-2/`, which are nine tenths of the repository's lines: what the program
takes from them is the environment of `RdmReader`.

## 7. Running it

    tlc -config reader.cfg MCRdmReader
    tlc -config tags.cfg MCRdmTags
    tlc -config transfer.cfg MCFileTransfer
    tlc -config ota.cfg MCOtaUpdate
    tlc -config modbus.cfg MCModbusSlave
    tlc -config modbus_clock.cfg MCModbusClock
    tlc -config epc.cfg MCEpcWrite
    tlc -config poll.cfg MCModbusPoll
    tlapm RdmReaderProofs.tla
    tlapm RdmTagsProofs.tla
    tlapm EpcWriteProofs.tla
    tlapm FileTransferProofs.tla
    tlapm OtaUpdateProofs.tla
    tlapm ModbusSlaveProofs.tla
    tlapm ModbusPollProofs.tla
