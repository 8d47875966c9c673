------------------------------ MODULE EpcWrite -------------------------------
(***************************************************************************)
(* The EPC of a tag, in six places: on the tag itself, in the device's     *)
(* list of tags that are online and in its list of managed tags, in the    *)
(* PC tool's copies of these two lists, and in a file that is downloaded.  *)
(* A user edits it in the PC tool; requests and replies are datagrams and  *)
(* carry no number.  An acknowledgement is applied as if the user had      *)
(* edited the EPC, so one that brings another EPC is asked for again.      *)
(* Datagrams keep their order and are not lost.                            *)
(*                                                                         *)
(* There is one device; reader and reading thread are in RdmReader, the    *)
(* transfer of a file in FileTransfer.  A tag is its uid.                  *)
(***************************************************************************)
EXTENDS Integers, Sequences, Functions, SequencesExt

CONSTANTS
  Tags, Epcs,
  FactoryEpc,   \* EPC of each tag at first
  Managed,      \* the tags of the device's first iTmsRdm.xml
  NoFile,       \* no file is on its way
  MaxActs       \* what the user does in all

ASSUME TagsAssumption ==
  FactoryEpc \in [Tags -> Epcs] /\ Managed \subseteq Tags
ASSUME BoundsAssumption == MaxActs \in Nat

VARIABLES
  air,        \* EPCs that the tags have
  known,      \* tagOnline of the device: T_epc by uid
  taglist,    \* its taglist
  req, ans,   \* datagrams to the device, and to the PC tool
  file,       \* the iTmsRdm.xml that is being downloaded: its tags
  selected,   \* the device is in the PC tool's list, hence selected
  shown,      \* tagModelOnline
  panel,      \* tagModelPara: the tags of the configuration panel
  canLoad,    \* btnDownload is enabled
  crashed,    \* of the PC tool
  acts,       \* what the user has done so far
  doubt,      \* a write whose acknowledgement is not true (history, as below)
  raced,      \* an EPC or a list was on its way, and a file or another EPC too
  crossed,    \* an EPC was edited while its tag's last one was under way
  stray,      \* a list of tags arrived while nothing was selected
  cut         \* the panel lost a tag, or was changed before it was filled

device == <<air, known, taglist>>
tool == <<selected, shown, panel, canLoad, crashed>>
history == <<doubt, raced, crossed, stray, cut>>
vars == <<device, req, ans, file, tool, acts, history>>

Partial(f) == DOMAIN f \subseteq Tags /\ \A t \in DOMAIN f : f[t] \in Epcs

Msg(kind) == [kind |-> kind]
SetEpc(t, e) == [kind |-> "epc", tag |-> t, epc |-> e]
List(kind, f) == [kind |-> kind, tags |-> f]

OnTheWay == ToSet(req) \cup ToSet(ans)
Asked(t) == \E m \in OnTheWay : m.kind = "epc" /\ m.tag = t

With(f, t, e) == [u \in DOMAIN f \cup {t} |-> IF u = t THEN e ELSE f[u]]
Without(f, t) == Restrict(f, DOMAIN f \ {t})

-----------------------------------------------------------------------------
Init ==
  /\ air = FactoryEpc /\ known = <<>> /\ taglist = Restrict(FactoryEpc, Managed)
  /\ req = <<>> /\ ans = <<>> /\ file = NoFile
  /\ selected = FALSE /\ shown = <<>> /\ panel = <<>> /\ canLoad = FALSE
  /\ crashed = FALSE
  /\ acts = 0 /\ doubt = FALSE /\ raced = FALSE /\ crossed = FALSE
  /\ stray = FALSE /\ cut = FALSE

-----------------------------------------------------------------------------
(* The device.                                                             *)

(* The reading thread meets a tag that is not in tagOnline; the EPC of one *)
(* that is there is not read again.                                        *)
TagFound(t) ==
  /\ t \notin DOMAIN known /\ known' = With(known, t, air[t])
  /\ UNCHANGED <<air, taglist, req, ans, file, tool, acts, history>>

(* It has not answered for TAG_TICKS scans.                                *)
TagPurged(t) ==
  /\ t \in DOMAIN known /\ known' = Without(known, t)
  /\ UNCHANGED <<air, taglist, req, ans, file, tool, acts, history>>

(* wirteEpc, if it succeeds: the reader writes to a tag whose EPC is old,  *)
(* whichever of them answers first.                                        *)
wirteEpc(old, new) == \E u \in Tags : air[u] = old /\ air' = [air EXCEPT ![u] = new]

(* Faulty variant: a managed tag is left with the old EPC.                 *)
RecordOnline(t, new) ==
  IF t \in DOMAIN taglist
  THEN known' = [known EXCEPT ![t] = new] /\ UNCHANGED taglist
  ELSE UNCHANGED <<known, taglist>>

(* A successful write to a managed tag goes into both lists; the one to    *)
(* another tag into none.                                                  *)
Record(t, new) ==
  IF t \in DOMAIN taglist
  THEN known' = [known EXCEPT ![t] = new] /\ taglist' = [taglist EXCEPT ![t] = new]
  ELSE UNCHANGED <<known, taglist>>

(* UDP_cmd_tag_epc.  The reply has the EPC of tagOnline, or of the request *)
(* if the tag is not there.  doubt: the tag has another, or the write hit  *)
(* another tag.                                                            *)
UDP_cmd_tag_epc(t, new) ==
  IF t \in DOMAIN known
  THEN /\ (wirteEpc(known[t], new) /\ Record(t, new)) \/ UNCHANGED device
       /\ ans' = Append(ans, SetEpc(t, known'[t]))
       /\ doubt' = (doubt \/ known'[t] # air'[t] \/ \E u \in Tags \ {t} : air'[u] # air[u])
  ELSE /\ UNCHANGED device
       /\ ans' = Append(ans, SetEpc(t, new))
       /\ doubt' = (doubt \/ new # air[t])

Handle ==
  /\ req # <<>> /\ req' = Tail(req)
  /\ LET m == Head(req) IN
     /\ raced' = (raced \/ (m.kind = "para" /\ file # NoFile))
     /\ CASE m.kind = "rdm"    -> ans' = Append(ans, m) /\ UNCHANGED <<device, doubt>>
          [] m.kind = "online" -> ans' = Append(ans, List("online", known)) /\ UNCHANGED <<device, doubt>>
          [] m.kind = "para"   -> ans' = Append(ans, List("para", taglist)) /\ UNCHANGED <<device, doubt>>
          [] m.kind = "epc"    -> UDP_cmd_tag_epc(m.tag, m.epc)
  /\ UNCHANGED <<file, tool, acts, crossed, stray, cut>>

(* The file has come and is loaded.                                        *)
Cfg_load ==
  /\ file # NoFile /\ taglist' = file /\ file' = NoFile
  /\ UNCHANGED <<air, known, req, ans, tool, acts, history>>

-----------------------------------------------------------------------------
(* The PC tool, asked by the user.                                         *)

(* Bounded by MaxActs.                                                     *)
User == ~crashed /\ acts < MaxActs /\ acts' = acts + 1

(* Faulty variant: the panel is not told.                                  *)
DeselectOnline == selected' = FALSE /\ shown' = <<>> /\ canLoad' = FALSE /\ UNCHANGED panel

(* The list is cleared, hence nothing selected.                            *)
Deselect == selected' = FALSE /\ shown' = <<>> /\ canLoad' = FALSE /\ panel' = <<>>

onbtndiscover ==
  /\ User /\ Deselect /\ req' = Append(req, Msg("rdm"))
  /\ UNCHANGED <<device, ans, file, crashed, history>>

OnbtnFindTags ==
  /\ User /\ selected /\ req' = Append(req, Msg("online"))
  /\ UNCHANGED <<device, ans, file, tool, history>>

(* Faulty variant: an EPC that is the same counts as a change.             *)
setDataAlways(t, e) ==
  /\ shown' = [shown EXCEPT ![t] = e]
  /\ req' = IF selected THEN Append(req, SetEpc(t, e)) ELSE req

(* setData of a tag that is online, and OnTagDataChanged.                  *)
setData(t, e) ==
  /\ shown' = [shown EXCEPT ![t] = e]
  /\ req' = IF selected /\ e # shown[t] THEN Append(req, SetEpc(t, e)) ELSE req

EditEpc(t, e) ==
  /\ User
  /\ t \in DOMAIN shown /\ e # shown[t] /\ setData(t, e)
  /\ crossed' = (crossed \/ Asked(t))
  /\ raced' = (raced \/ file # NoFile)
  /\ UNCHANGED <<device, ans, file, selected, panel, canLoad, crashed, doubt, stray, cut>>

(* Faulty variant: the button is enabled for no device, too.               *)
OnRdmModifiedAny ==
  /\ canLoad' = TRUE
  /\ cut' = (cut \/ (selected /\ \E m \in OnTheWay : m.kind = "para"))

(* The panel changed before the managed tags came: cut.                    *)
OnRdmModified ==
  /\ canLoad' = selected
  /\ cut' = (cut \/ (selected /\ \E m \in OnTheWay : m.kind = "para"))

OnTagAdded(t) ==
  /\ User /\ t \in DOMAIN shown
  /\ t \notin DOMAIN panel /\ shown[t] \notin Range(panel)
  /\ panel' = With(panel, t, shown[t]) /\ OnRdmModified
  /\ UNCHANGED <<device, req, ans, file, selected, shown, crashed, doubt, raced, crossed, stray>>

OnRemoveTag(t) ==
  /\ User /\ t \in DOMAIN panel
  /\ panel' = Without(panel, t) /\ canLoad' = selected /\ cut' = TRUE
  /\ UNCHANGED <<device, req, ans, file, selected, shown, crashed, doubt, raced, crossed, stray>>

onbtnDownload ==
  /\ User /\ selected /\ canLoad /\ file' = panel /\ canLoad' = FALSE
  /\ raced' = (raced \/ \E t \in Tags : Asked(t))
  /\ UNCHANGED <<device, req, ans, selected, shown, panel, crashed, doubt, crossed, stray, cut>>

-----------------------------------------------------------------------------
(* The PC tool, on a reply.                                                *)

(* Faulty variant: the managed tags are not asked for.                     *)
OnlineOnly ==
  IF selected
  THEN UNCHANGED <<tool, req>>
  ELSE /\ selected' = TRUE /\ shown' = <<>> /\ panel' = <<>> /\ canLoad' = FALSE
       /\ req' = Append(req, Msg("online"))
       /\ UNCHANGED crashed

(* OnMsgRdmfound: the first device is selected, its lists are asked for.   *)
OnMsgRdmfound ==
  IF selected
  THEN UNCHANGED <<tool, req>>
  ELSE /\ selected' = TRUE /\ shown' = <<>> /\ panel' = <<>> /\ canLoad' = FALSE
       /\ req' = req \o <<Msg("online"), Msg("para")>>
       /\ UNCHANGED crashed

(* The panel downloads its settings when the EPC of one of its tags has    *)
(* been acknowledged; it does not ask whether a device is selected.        *)
DownloadManaged(t) ==
  IF t \notin DOMAIN panel
  THEN UNCHANGED <<file, crashed>>
  ELSE IF selected
  THEN file' = panel' /\ UNCHANGED crashed
  ELSE crashed' = TRUE /\ UNCHANGED file

OnMsgTagEpc(t, e) ==
  /\ IF t \in DOMAIN shown THEN setData(t, e) ELSE UNCHANGED <<shown, req>>
  /\ IF t \in DOMAIN panel /\ panel[t] # e
     THEN panel' = [panel EXCEPT ![t] = e] /\ canLoad' = selected
     ELSE UNCHANGED <<panel, canLoad>>
  /\ DownloadManaged(t)

Receive ==
  /\ ~crashed /\ ans # <<>> /\ ans' = Tail(ans)
  /\ LET m == Head(ans) IN
     /\ raced' = (raced \/ (m.kind = "epc" /\
                    \E n \in ToSet(req) \cup ToSet(Tail(ans)) : n.kind = "epc"))
     /\ stray' = (stray \/ (m.kind \in {"online", "para"} /\ ~selected))
     /\ CASE m.kind = "rdm"    -> OnMsgRdmfound /\ UNCHANGED file
          [] m.kind = "online" -> /\ shown' = m.tags
                                  /\ UNCHANGED <<req, file, selected, panel, canLoad, crashed>>
          [] m.kind = "para"   -> /\ panel' = m.tags
                                  /\ UNCHANGED <<req, file, selected, shown, canLoad, crashed>>
          [] m.kind = "epc"    -> OnMsgTagEpc(m.tag, m.epc) /\ UNCHANGED selected
  /\ UNCHANGED <<device, acts, doubt, crossed, cut>>

-----------------------------------------------------------------------------
Next ==
  \/ \E t \in Tags : TagFound(t) \/ TagPurged(t)
  \/ Handle \/ Cfg_load
  \/ onbtndiscover \/ OnbtnFindTags \/ onbtnDownload
  \/ \E t \in Tags, e \in Epcs : EditEpc(t, e)
  \/ \E t \in Tags : OnTagAdded(t) \/ OnRemoveTag(t)
  \/ Receive

(* Both event loops run; the user and the tags do as they like.            *)
Fairness == WF_vars(Handle) /\ WF_vars(Cfg_load) /\ WF_vars(Receive)

Spec == Init /\ [][Next]_vars /\ Fairness

-----------------------------------------------------------------------------
(* The type invariant; and no download without a device.                   *)
TypeOK ==
  /\ air \in [Tags -> Epcs] /\ Partial(known) /\ Partial(taglist)
  /\ Partial(shown) /\ Partial(panel) /\ (file = NoFile \/ Partial(file))
  /\ \A m \in OnTheWay : m.kind \in {"rdm", "online", "para", "epc"}
  /\ selected \in BOOLEAN /\ crashed \in BOOLEAN /\ canLoad \in BOOLEAN
  /\ acts \in 0..MaxActs
  /\ {doubt, raced, crossed, stray, cut} \subseteq BOOLEAN
  /\ (canLoad => selected)

(* The PC tool crashes on an acknowledgement (the panel downloads to the   *)
(* selected device, icfgpanel.cpp:273) only if a list of tags came while   *)
(* no device was selected.                                                 *)
NoCrash == crashed => stray

Quiet == req = <<>> /\ ans = <<>> /\ file = NoFile

(* When all is quiet the PC tool shows the EPCs that the tags have, and    *)
(* the device has recorded them for its managed tags (ibc.cpp:479-480),    *)
(* however edits, refreshes, searches and downloads were interleaved;      *)
(* unless a write failed, hit another tag or went to one that is not       *)
(* managed, and (for the record) unless a file and an EPC, or two EPCs,    *)
(* were on their way at once.                                              *)
EpcAgree ==
  Quiet /\ selected /\ ~doubt =>
    \A t \in DOMAIN shown :
      /\ shown[t] = air[t]
      /\ (t \in DOMAIN taglist /\ ~raced => taglist[t] = air[t])

(* A download (saveRdmXml) loses a managed tag only by the user's hand, or *)
(* when the panel was changed before it was filled, or filled with what    *)
(* the device had before another download.                                 *)
TagsKept == [][DOMAIN taglist \subseteq DOMAIN taglist' \/ cut \/ raced]_vars

(* Requests to write an EPC, and their acknowledgements, come to an end    *)
(* (setTagEpc is "to avoid re-calling dataChanged", Model.cpp:373), unless  *)
(* the user has edited an EPC twice in a row or the tag leaves.            *)
EditsSettle ==
  \A t \in Tags :
    Asked(t) ~> ~Asked(t) \/ crossed \/ crashed \/ t \notin DOMAIN known
=============================================================================
