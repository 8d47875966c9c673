---------------------------- MODULE EpcWriteProofs ----------------------------
(***************************************************************************)
(* Theorems about EpcWrite, for any tags and EPCs: what every place that   *)
(* holds an EPC or a list of tags knows at every moment.  Agreement is     *)
(* about the EPCs, Complete about the tags; each needs the datagrams that  *)
(* are under way, and so the order in which they were sent.                *)
(***************************************************************************)
EXTENDS EpcWrite, SequenceTheorems, TLAPS

(* The types of lists of tags and of datagrams.                            *)
Maps == UNION {[S -> Epcs] : S \in SUBSET Tags}
EpcMsgs == [kind : {"epc"}, tag : Tags, epc : Epcs]
Reqs == [kind : {"rdm", "online", "para"}] \cup EpcMsgs
Answers == [kind : {"rdm"}] \cup EpcMsgs \cup [kind : {"online", "para"}, tags : Maps]

DataOK ==
  /\ air \in [Tags -> Epcs] /\ known \in Maps /\ taglist \in Maps
  /\ shown \in Maps /\ panel \in Maps /\ file \in Maps \cup {NoFile}
  /\ req \in Seq(Reqs) /\ ans \in Seq(Answers)
  /\ acts \in 0..MaxActs

FlagsOK ==
  /\ selected \in BOOLEAN /\ crashed \in BOOLEAN /\ canLoad \in BOOLEAN
  /\ doubt \in BOOLEAN /\ raced \in BOOLEAN /\ crossed \in BOOLEAN
  /\ stray \in BOOLEAN /\ cut \in BOOLEAN
  /\ (canLoad => selected)

(* While nothing is selected, nothing can be edited or downloaded, unless  *)
(* a list came all the same.                                               *)
Unselected == ~stray /\ ~selected => DOMAIN panel = {} /\ DOMAIN shown = {}

(* A datagram about the EPC of one tag; an answer that tells it; the EPC.  *)
About(m, t) == m.kind = "epc" /\ m.tag = t
Lists == IF raced THEN {"online"} ELSE {"online", "para"}
Mentions(kinds, m, t) == About(m, t) \/ (m.kind \in kinds /\ t \in DOMAIN m.tags)
EpcIn(m, t) == IF m.kind = "epc" THEN m.epc ELSE m.tags[t]

(* An answer tells the tag's EPC, unless a later one is about this EPC.    *)
AnswersTrue ==
  \A t \in Tags, i \in DOMAIN ans :
    Mentions(Lists, ans[i], t) /\ (\A j \in DOMAIN ans : j > i => ~About(ans[j], t))
      => EpcIn(ans[i], t) = air[t]

(* The lists tell the tags' EPCs; the PC tool's, unless one is on its way. *)
KnownTrue == \A t \in DOMAIN known : known[t] = air[t]
ListTrue == \A t \in DOMAIN taglist : taglist[t] = air[t]
ShownTrue == selected => \A t \in DOMAIN shown : shown[t] = air[t] \/ Asked(t)
PanelTrue == selected => \A t \in DOMAIN panel : panel[t] = air[t] \/ Asked(t)

(* So does a file, and then no request that waits changes an EPC.          *)
FileTrue ==
  file # NoFile =>
    /\ \A t \in DOMAIN file : file[t] = air[t]
    /\ \A m \in ToSet(req) : m.kind = "epc" => m.epc = air[m.tag]

Agreement ==
  ~doubt => /\ KnownTrue /\ AnswersTrue /\ ShownTrue
            /\ (~raced => PanelTrue /\ ListTrue /\ FileTrue)

(* No managed tag is missing in a file, in an answer or in a panel that    *)
(* may be downloaded.                                                      *)
ParaAsked == \E m \in OnTheWay : m.kind = "para"
Filled == canLoad \/ DOMAIN panel # {}
FileSame == file # NoFile => DOMAIN file = DOMAIN taglist

FileFull == file # NoFile => DOMAIN taglist \subseteq DOMAIN file
AnswersFull ==
  \A m \in ToSet(ans) : m.kind = "para" => DOMAIN m.tags = DOMAIN taglist /\ FileSame
PanelFull ==
  selected /\ (Filled \/ ~ParaAsked) =>
    /\ DOMAIN taglist \subseteq DOMAIN panel
    /\ file # NoFile => DOMAIN file \subseteq DOMAIN panel
PanelSame ==
  selected /\ Filled /\ ParaAsked => DOMAIN panel = DOMAIN taglist /\ FileSame

Complete == ~cut /\ ~raced => FileFull /\ AnswersFull /\ PanelFull /\ PanelSame

IInv == DataOK /\ FlagsOK /\ NoCrash /\ Unselected /\ Agreement /\ Complete

-----------------------------------------------------------------------------
(* Lemmas about lists of tags, datagrams and queues.                       *)

(* A map is a function on some of the tags.                                *)
LEMMA MapDef ==
  ASSUME NEW f
  PROVE  f \in Maps <=> DOMAIN f \subseteq Tags /\ f \in [DOMAIN f -> Epcs]
BY DEF Maps

(* Maps without a tag, with one more, and with one less.                   *)
LEMMA MapOps ==
  /\ <<>> \in Maps /\ DOMAIN <<>> = {}
  /\ \A f \in Maps, t \in Tags, e \in Epcs :
       /\ With(f, t, e) \in Maps /\ DOMAIN With(f, t, e) = DOMAIN f \cup {t}
       /\ With(f, t, e)[t] = e
       /\ \A u \in DOMAIN f \ {t} : With(f, t, e)[u] = f[u]
  /\ \A f \in Maps, t \in Tags :
       /\ Without(f, t) \in Maps /\ DOMAIN Without(f, t) = DOMAIN f \ {t}
       /\ \A u \in DOMAIN f \ {t} : Without(f, t)[u] = f[u]
  /\ \A f \in Maps, t \in Tags, e \in Epcs :
       /\ [f EXCEPT ![t] = e] \in Maps /\ DOMAIN [f EXCEPT ![t] = e] = DOMAIN f
       /\ t \in DOMAIN f => [f EXCEPT ![t] = e][t] = e
       /\ \A u \in DOMAIN f \ {t} : [f EXCEPT ![t] = e][u] = f[u]
<1>1. <<>> \in Maps /\ DOMAIN <<>> = {}
  <2>1. DOMAIN <<>> = {}
    OBVIOUS
  <2>2. <<>> \in [{} -> Epcs]
    OBVIOUS
  <2>3. QED BY <2>1, <2>2, MapDef
<1>2. ASSUME NEW f \in Maps, NEW t \in Tags, NEW e \in Epcs
      PROVE  /\ With(f, t, e) \in Maps /\ DOMAIN With(f, t, e) = DOMAIN f \cup {t}
             /\ With(f, t, e)[t] = e
             /\ \A u \in DOMAIN f \ {t} : With(f, t, e)[u] = f[u]
  <2>1. DOMAIN f \subseteq Tags /\ f \in [DOMAIN f -> Epcs]
    BY MapDef
  <2>2. With(f, t, e) \in [DOMAIN f \cup {t} -> Epcs] /\ DOMAIN f \cup {t} \subseteq Tags
    BY <2>1 DEF With
  <2>3. With(f, t, e) \in Maps
    BY <2>2 DEF Maps
  <2>4. QED BY <2>2, <2>3 DEF With
<1>3. ASSUME NEW f \in Maps, NEW t \in Tags
      PROVE  /\ Without(f, t) \in Maps /\ DOMAIN Without(f, t) = DOMAIN f \ {t}
             /\ \A u \in DOMAIN f \ {t} : Without(f, t)[u] = f[u]
  <2>1. DOMAIN f \subseteq Tags /\ f \in [DOMAIN f -> Epcs]
    BY MapDef
  <2>2. Without(f, t) \in [DOMAIN f \ {t} -> Epcs] /\ DOMAIN f \ {t} \subseteq Tags
    BY <2>1 DEF Without, Restrict
  <2>3. Without(f, t) \in Maps
    BY <2>2 DEF Maps
  <2>4. QED BY <2>2, <2>3 DEF Without, Restrict
<1>4. ASSUME NEW f \in Maps, NEW t \in Tags, NEW e \in Epcs
      PROVE  /\ [f EXCEPT ![t] = e] \in Maps /\ DOMAIN [f EXCEPT ![t] = e] = DOMAIN f
             /\ t \in DOMAIN f => [f EXCEPT ![t] = e][t] = e
             /\ \A u \in DOMAIN f \ {t} : [f EXCEPT ![t] = e][u] = f[u]
  <2>1. DOMAIN f \subseteq Tags /\ f \in [DOMAIN f -> Epcs]
    BY MapDef
  <2>2. [f EXCEPT ![t] = e] \in [DOMAIN f -> Epcs]
    BY <2>1
  <2>3. [f EXCEPT ![t] = e] \in Maps
    BY <2>1, <2>2 DEF Maps
  <2>4. QED BY <2>1, <2>2, <2>3
<1>5. QED BY <1>1, <1>2, <1>3, <1>4

(* What the datagrams carry.                                               *)
LEMMA MsgFacts ==
  /\ \A m \in Reqs : /\ m \in EpcMsgs \/ m.kind \in {"rdm", "online", "para"}
                     /\ m.kind = "epc" => m.tag \in Tags /\ m.epc \in Epcs
                     /\ m.kind = "rdm" => m \in Answers
  /\ \A m \in Answers : /\ m.kind \in {"rdm", "online", "para", "epc"}
                        /\ m.kind = "epc" => m.tag \in Tags /\ m.epc \in Epcs
                        /\ m.kind \in {"online", "para"} => m.tags \in Maps
  /\ \A k \in {"rdm", "online", "para"} : Msg(k) \in Reqs /\ Msg(k).kind = k
  /\ \A t \in Tags, e \in Epcs :
       /\ SetEpc(t, e) \in Reqs /\ SetEpc(t, e) \in Answers
       /\ SetEpc(t, e).kind = "epc" /\ SetEpc(t, e).tag = t /\ SetEpc(t, e).epc = e
  /\ \A k \in {"online", "para"}, f \in Maps :
       List(k, f) \in Answers /\ List(k, f).kind = k /\ List(k, f).tags = f
<1> USE DEF Reqs, Answers, EpcMsgs
<1>1. \A m \in Reqs : /\ m \in EpcMsgs \/ m.kind \in {"rdm", "online", "para"}
                      /\ m.kind = "epc" => m.tag \in Tags /\ m.epc \in Epcs
                      /\ m.kind = "rdm" => m \in Answers
  OBVIOUS
<1>2. \A m \in Answers : /\ m.kind \in {"rdm", "online", "para", "epc"}
                         /\ m.kind = "epc" => m.tag \in Tags /\ m.epc \in Epcs
                         /\ m.kind \in {"online", "para"} => m.tags \in Maps
  OBVIOUS
<1>3. \A k \in {"rdm", "online", "para"} : Msg(k) \in Reqs /\ Msg(k).kind = k
  BY DEF Msg
<1>4. \A t \in Tags, e \in Epcs :
       /\ SetEpc(t, e) \in Reqs /\ SetEpc(t, e) \in Answers
       /\ SetEpc(t, e).kind = "epc" /\ SetEpc(t, e).tag = t /\ SetEpc(t, e).epc = e
  BY DEF SetEpc
<1>5. \A k \in {"online", "para"}, f \in Maps :
       List(k, f) \in Answers /\ List(k, f).kind = k /\ List(k, f).tags = f
  BY DEF List
<1>6. QED BY <1>1, <1>2, <1>3, <1>4, <1>5

(* The first of a queue, and the others.                                   *)
LEMMA TakeFirst ==
  ASSUME NEW S, NEW s \in Seq(S), s # <<>>
  PROVE  /\ Head(s) \in S /\ Tail(s) \in Seq(S)
         /\ ToSet(s) = {Head(s)} \cup ToSet(Tail(s))
         /\ 1 \in DOMAIN s /\ Head(s) = s[1]
         /\ \A i \in DOMAIN Tail(s) : i + 1 \in DOMAIN s /\ Tail(s)[i] = s[i + 1]
         /\ \A j \in DOMAIN s : j > 1 => j - 1 \in DOMAIN Tail(s) /\ s[j] = Tail(s)[j - 1]
<1>1. /\ Head(s) \in S /\ Tail(s) \in Seq(S) /\ Len(Tail(s)) = Len(s) - 1
      /\ \A i \in 1..Len(Tail(s)) : Tail(s)[i] = s[i + 1]
  BY HeadTailProperties
<1>2. /\ Len(s) \in Nat \ {0} /\ DOMAIN s = 1..Len(s) /\ DOMAIN Tail(s) = 1..Len(Tail(s))
  BY <1>1, EmptySeq, LenProperties
<1>3. Head(s) = s[1]
  BY <1>2
<1>4. /\ 1 \in DOMAIN s
      /\ \A i \in DOMAIN Tail(s) : i + 1 \in DOMAIN s /\ Tail(s)[i] = s[i + 1]
      /\ \A j \in DOMAIN s : j > 1 => j - 1 \in DOMAIN Tail(s) /\ s[j] = Tail(s)[j - 1]
  BY <1>1, <1>2
<1>5. \A j \in DOMAIN s : j = 1 \/ j > 1
  BY <1>2
<1>6. ToSet(s) = {Head(s)} \cup ToSet(Tail(s))
  <2>1. \A x \in ToSet(s) : x \in {Head(s)} \cup ToSet(Tail(s))
    BY <1>3, <1>4, <1>5 DEF ToSet
  <2>2. \A x \in {Head(s)} \cup ToSet(Tail(s)) : x \in ToSet(s)
    BY <1>3, <1>4 DEF ToSet
  <2>3. QED BY <2>1, <2>2
<1>7. QED BY <1>1, <1>3, <1>4, <1>6

(* A queue with one more.                                                  *)
LEMMA PutLast ==
  ASSUME NEW S, NEW s \in Seq(S), NEW m \in S
  PROVE  /\ Append(s, m) \in Seq(S) /\ ToSet(Append(s, m)) = ToSet(s) \cup {m}
         /\ \A i \in DOMAIN Append(s, m) :
              \/ i \in DOMAIN s /\ Append(s, m)[i] = s[i]
              \/ Append(s, m)[i] = m
         /\ \A i \in DOMAIN s : i \in DOMAIN Append(s, m) /\ Append(s, m)[i] = s[i]
         /\ \E k \in DOMAIN Append(s, m) : Append(s, m)[k] = m /\ \A i \in DOMAIN s : k > i
<1> DEFINE a == Append(s, m)  n == Len(s)
<1>1. /\ a \in Seq(S) /\ Len(a) = n + 1 /\ a[n + 1] = m /\ \A i \in 1..n : a[i] = s[i]
  BY AppendProperties
<1>2. n \in Nat /\ DOMAIN s = 1..n /\ DOMAIN a = 1..(n + 1)
  BY <1>1, LenProperties
<1> HIDE DEF a, n
<1>3. /\ \A i \in DOMAIN a : (i \in DOMAIN s /\ a[i] = s[i]) \/ a[i] = m
      /\ \A i \in DOMAIN s : i \in DOMAIN a /\ a[i] = s[i]
      /\ n + 1 \in DOMAIN a /\ a[n + 1] = m /\ \A i \in DOMAIN s : n + 1 > i
  BY <1>1, <1>2
<1>4. ToSet(a) = ToSet(s) \cup {m}
  <2>1. \A x \in ToSet(a) : x \in ToSet(s) \cup {m}
    BY <1>3 DEF ToSet
  <2>2. \A x \in ToSet(s) \cup {m} : x \in ToSet(a)
    BY <1>3 DEF ToSet
  <2>3. QED BY <2>1, <2>2
<1>5. QED BY <1>1, <1>3, <1>4 DEF a

(* What is in a queue is of its type.                                      *)
LEMMA QueueType == ASSUME NEW S, NEW s \in Seq(S) PROVE ToSet(s) \subseteq S
BY ElementOfSeq, LenProperties DEF ToSet

(* A queue with two more.                                                  *)
LEMMA PutTwo ==
  ASSUME NEW S, NEW s \in Seq(S), NEW x \in S, NEW y \in S
  PROVE  s \o <<x, y>> \in Seq(S) /\ ToSet(s \o <<x, y>>) = ToSet(s) \cup {x, y}
<1> DEFINE p == <<x, y>>  c == s \o p
<1>1. p \in Seq(S) /\ Len(p) = 2 /\ p[1] = x /\ p[2] = y
  OBVIOUS
<1>2. /\ c \in Seq(S) /\ Len(c) = Len(s) + 2
      /\ \A i \in 1..(Len(s) + 2) : c[i] = IF i <= Len(s) THEN s[i] ELSE p[i - Len(s)]
  BY <1>1, ConcatProperties
<1>3. PICK n \in Nat : n = Len(s) /\ DOMAIN s = 1..n /\ DOMAIN c = 1..(n + 2)
  BY <1>2, LenProperties
<1> HIDE DEF c, p
<1>4. /\ \A i \in DOMAIN c : (i \in DOMAIN s /\ c[i] = s[i]) \/ c[i] \in {x, y}
      /\ \A i \in DOMAIN s : i \in DOMAIN c /\ c[i] = s[i]
      /\ n + 1 \in DOMAIN c /\ c[n + 1] = x /\ n + 2 \in DOMAIN c /\ c[n + 2] = y
  <2>1. \A i \in 1..(n + 2) : i \in 1..n \/ i = n + 1 \/ i = n + 2
    BY <1>3
  <2>2. \A i \in 1..n : i \in 1..(n + 2) /\ i <= n
    BY <1>3
  <2>3. /\ n + 1 \in 1..(n + 2) /\ ~(n + 1 <= n) /\ (n + 1) - n = 1
        /\ n + 2 \in 1..(n + 2) /\ ~(n + 2 <= n) /\ (n + 2) - n = 2
    BY <1>3
  <2>4. c[n + 1] = x /\ c[n + 2] = y
    BY <1>1, <1>2, <1>3, <2>3
  <2>5. \A i \in 1..n : c[i] = s[i]
    BY <1>2, <1>3, <2>2
  <2>6. QED BY <1>3, <2>1, <2>2, <2>3, <2>4, <2>5
<1>5. \A z \in ToSet(c) : z \in ToSet(s) \cup {x, y}
  BY <1>4 DEF ToSet
<1>6. \A z \in ToSet(s) \cup {x, y} : z \in ToSet(c)
  BY <1>4 DEF ToSet
<1>7. QED BY <1>2, <1>5, <1>6 DEF c, p

(* No datagram, no type to check.                                          *)
LEMMA NoQueue == <<>> \in Seq(Reqs) /\ <<>> \in Seq(Answers) /\ ToSet(<<>>) = {}
BY EmptySeq DEF ToSet

(* The types imply TypeOK.                                                 *)
LEMMA TypesSuffice == DataOK /\ FlagsOK => TypeOK
<1> SUFFICES ASSUME DataOK, FlagsOK PROVE TypeOK
  OBVIOUS
<1>1. \A f \in Maps : Partial(f)
  BY MapDef DEF Partial
<1>2. \A m \in OnTheWay : m.kind \in {"rdm", "online", "para", "epc"}
  <2>1. ToSet(req) \subseteq Reqs /\ ToSet(ans) \subseteq Answers
    BY QueueType DEF DataOK
  <2>2. QED BY <2>1 DEF OnTheWay, Reqs, Answers, EpcMsgs
<1>3. {doubt, raced, crossed, stray, cut} \subseteq BOOLEAN
  BY Zenon DEF FlagsOK
<1>4. selected \in BOOLEAN /\ crashed \in BOOLEAN /\ canLoad \in BOOLEAN /\ (canLoad => selected)
  BY Zenon DEF FlagsOK
<1>5. /\ air \in [Tags -> Epcs] /\ Partial(known) /\ Partial(taglist)
      /\ Partial(shown) /\ Partial(panel) /\ (file = NoFile \/ Partial(file))
      /\ acts \in 0..MaxActs
  BY <1>1 DEF DataOK
<1>6. QED BY <1>2, <1>3, <1>4, <1>5, Zenon DEF TypeOK

-----------------------------------------------------------------------------
(* Types.                                                                  *)

(* The device's lists, and what it answers.                                *)
LEMMA HandleTypes ==
  DataOK /\ Handle =>
    /\ air' \in [Tags -> Epcs] /\ known' \in Maps /\ taglist' \in Maps
    /\ req' \in Seq(Reqs) /\ Head(req) \in Reqs
    /\ \E r \in Answers : ans' = Append(ans, r)
<1> SUFFICES ASSUME DataOK, Handle
    PROVE /\ air' \in [Tags -> Epcs] /\ known' \in Maps /\ taglist' \in Maps
          /\ req' \in Seq(Reqs) /\ Head(req) \in Reqs
          /\ \E r \in Answers : ans' = Append(ans, r)
  OBVIOUS
<1> DEFINE m == Head(req)
<1>1. /\ air \in [Tags -> Epcs] /\ known \in Maps /\ taglist \in Maps
      /\ req \in Seq(Reqs) /\ req # <<>>
  BY DEF DataOK, Handle
<1>2. m \in Reqs /\ Tail(req) \in Seq(Reqs) /\ req' = Tail(req)
  BY <1>1, TakeFirst DEF Handle
<1> HIDE DEF m
<1>3. CASE m.kind = "rdm"
  <2>1. ans' = Append(ans, m) /\ UNCHANGED device
    BY <1>3 DEF Handle, m
  <2>2. m \in Answers
    BY <1>2, <1>3, MsgFacts
  <2>3. QED BY <1>1, <1>2, <2>1, <2>2 DEF device, m
<1>4. CASE m.kind = "online"
  <2>1. ans' = Append(ans, List("online", known)) /\ UNCHANGED device
    BY <1>4 DEF Handle, m
  <2>2. List("online", known) \in Answers
    BY <1>1, MsgFacts
  <2>3. QED BY <1>1, <1>2, <2>1, <2>2 DEF device, m
<1>5. CASE m.kind = "para"
  <2>1. ans' = Append(ans, List("para", taglist)) /\ UNCHANGED device
    BY <1>5 DEF Handle, m
  <2>2. List("para", taglist) \in Answers
    BY <1>1, MsgFacts
  <2>3. QED BY <1>1, <1>2, <2>1, <2>2 DEF device, m
<1>6. CASE m.kind = "epc"
  <2> DEFINE t == m.tag  new == m.epc
  <2>1. t \in Tags /\ new \in Epcs
    BY <1>2, <1>6, MsgFacts
  <2>2. UDP_cmd_tag_epc(t, new)
    BY <1>6 DEF Handle, m
  <2> HIDE DEF t, new
  <2>3. CASE t \in DOMAIN known
    <3>1. \/ wirteEpc(known[t], new) /\ Record(t, new)
          \/ UNCHANGED device
      BY <2>2, <2>3 DEF UDP_cmd_tag_epc
    <3>2. air' \in [Tags -> Epcs]
      BY <1>1, <2>1, <3>1 DEF wirteEpc, device
    <3>3. known' \in Maps /\ DOMAIN known' = DOMAIN known /\ taglist' \in Maps
      BY <1>1, <2>1, <3>1, MapOps DEF Record, device
    <3>4. known'[t] \in Epcs
      BY <2>3, <3>3, MapDef
    <3>5. ans' = Append(ans, SetEpc(t, known'[t])) /\ SetEpc(t, known'[t]) \in Answers
      BY <2>1, <2>2, <2>3, <3>4, MsgFacts DEF UDP_cmd_tag_epc
    <3>6. QED BY <1>2, <3>2, <3>3, <3>5 DEF m
  <2>4. CASE t \notin DOMAIN known
    <3>1. ans' = Append(ans, SetEpc(t, new)) /\ UNCHANGED device
      BY <2>2, <2>4 DEF UDP_cmd_tag_epc
    <3>2. QED BY <1>1, <1>2, <2>1, <3>1, MsgFacts DEF device, m
  <2>5. QED BY <2>3, <2>4
<1>7. QED BY <1>2, <1>3, <1>4, <1>5, <1>6, MsgFacts DEF EpcMsgs

(* What the PC tool makes of an answer.                                    *)
LEMMA ReceiveTypes ==
  DataOK /\ Receive =>
    /\ ans' = Tail(ans) /\ ans' \in Seq(Answers) /\ Head(ans) \in Answers
    /\ shown' \in Maps /\ panel' \in Maps /\ req' \in Seq(Reqs)
    /\ file' \in {file, panel'}
<1> SUFFICES ASSUME DataOK, Receive
    PROVE /\ ans' = Tail(ans) /\ ans' \in Seq(Answers) /\ Head(ans) \in Answers
          /\ shown' \in Maps /\ panel' \in Maps /\ req' \in Seq(Reqs)
          /\ file' \in {file, panel'}
  OBVIOUS
<1> DEFINE m == Head(ans)
<1>1. /\ shown \in Maps /\ panel \in Maps /\ req \in Seq(Reqs)
      /\ ans \in Seq(Answers) /\ ans # <<>>
  BY DEF DataOK, Receive
<1>2. m \in Answers /\ Tail(ans) \in Seq(Answers) /\ ans' = Tail(ans)
  BY <1>1, TakeFirst DEF Receive
<1> HIDE DEF m
<1>3. CASE m.kind = "rdm"
  <2>1. OnMsgRdmfound /\ UNCHANGED file
    BY <1>3 DEF Receive, m
  <2>2. Msg("online") \in Reqs /\ Msg("para") \in Reqs
    BY MsgFacts
  <2>3. req' \in Seq(Reqs)
    <3>1. req \o <<Msg("online"), Msg("para")>> \in Seq(Reqs)
      BY <1>1, <2>2, PutTwo
    <3>2. req' \in {req, req \o <<Msg("online"), Msg("para")>>}
      BY <2>1 DEF OnMsgRdmfound
    <3>3. QED BY <1>1, <3>1, <3>2
  <2>4. shown' \in Maps /\ panel' \in Maps
    BY <1>1, <2>1, MapOps DEF OnMsgRdmfound, tool
  <2>5. QED BY <1>2, <2>1, <2>3, <2>4 DEF m
<1>4. CASE m.kind = "online"
  <2>1. shown' = m.tags /\ UNCHANGED <<req, file, panel>>
    BY <1>4 DEF Receive, m
  <2>2. QED BY <1>1, <1>2, <1>4, <2>1, MsgFacts DEF m
<1>5. CASE m.kind = "para"
  <2>1. panel' = m.tags /\ UNCHANGED <<req, file, shown>>
    BY <1>5 DEF Receive, m
  <2>2. QED BY <1>1, <1>2, <1>5, <2>1, MsgFacts DEF m
<1>6. CASE m.kind = "epc"
  <2> DEFINE t == m.tag  e == m.epc
  <2>1. t \in Tags /\ e \in Epcs
    BY <1>2, <1>6, MsgFacts
  <2>2. OnMsgTagEpc(t, e)
    BY <1>6 DEF Receive, m
  <2> HIDE DEF t, e
  <2>3. SetEpc(t, e) \in Reqs
    BY <2>1, MsgFacts
  <2>4. shown' \in Maps /\ req' \in Seq(Reqs)
    <3>1. [shown EXCEPT ![t] = e] \in Maps
      BY <1>1, <2>1, MapOps
    <3>2. Append(req, SetEpc(t, e)) \in Seq(Reqs)
      BY <1>1, <2>3, PutLast
    <3>3. /\ shown' \in {shown, [shown EXCEPT ![t] = e]}
          /\ req' \in {req, Append(req, SetEpc(t, e))}
      BY <2>2 DEF OnMsgTagEpc, setData
    <3>4. QED BY <1>1, <3>1, <3>2, <3>3
  <2>5. panel' \in Maps
    BY <1>1, <2>1, <2>2, MapOps DEF OnMsgTagEpc
  <2>6. file' \in {file, panel'}
    BY <2>2 DEF OnMsgTagEpc, DownloadManaged
  <2>7. QED BY <1>2, <2>4, <2>5, <2>6 DEF m
<1>7. QED BY <1>2, <1>3, <1>4, <1>5, <1>6, MsgFacts DEF m

(* Every step keeps the types.                                             *)
LEMMA DataKept == DataOK /\ [Next]_vars => DataOK'
<1> SUFFICES ASSUME DataOK, [Next]_vars PROVE DataOK'
  OBVIOUS
<1>0. /\ air \in [Tags -> Epcs] /\ known \in Maps /\ taglist \in Maps
      /\ shown \in Maps /\ panel \in Maps /\ file \in Maps \cup {NoFile}
      /\ req \in Seq(Reqs) /\ ans \in Seq(Answers)
      /\ acts \in 0..MaxActs
  BY DEF DataOK
<1>1. ASSUME NEW t \in Tags, TagFound(t) \/ TagPurged(t) PROVE DataOK'
  <2>1. known' \in Maps
    <3>1. air[t] \in Epcs
      BY <1>0
    <3>2. With(known, t, air[t]) \in Maps /\ Without(known, t) \in Maps
      BY <1>0, <3>1, MapOps
    <3>3. QED BY <1>1, <3>2 DEF TagFound, TagPurged
  <2>2. QED BY <1>0, <1>1, <2>1 DEF TagFound, TagPurged, tool, DataOK
<1>2. CASE Handle
  <2>1. PICK r \in Answers : ans' = Append(ans, r)
    BY <1>2, HandleTypes
  <2>2. ans' \in Seq(Answers)
    BY <1>0, <2>1, PutLast
  <2>3. /\ air' \in [Tags -> Epcs] /\ known' \in Maps /\ taglist' \in Maps /\ req' \in Seq(Reqs)
    BY <1>2, HandleTypes
  <2>4. QED BY <1>0, <1>2, <2>2, <2>3 DEF Handle, tool, DataOK
<1>3. CASE Cfg_load
  BY <1>0, <1>3 DEF Cfg_load, tool, DataOK
<1>4. acts < MaxActs /\ acts' = acts + 1 => acts' \in 0..MaxActs
  BY <1>0, BoundsAssumption
<1>5. CASE onbtndiscover \/ OnbtnFindTags
  <2>1. req' = Append(req, Msg("rdm")) \/ req' = Append(req, Msg("online"))
    BY <1>5 DEF onbtndiscover, OnbtnFindTags
  <2>2. req' \in Seq(Reqs)
    <3>1. Msg("rdm") \in Reqs /\ Msg("online") \in Reqs
      BY MsgFacts
    <3>2. Append(req, Msg("rdm")) \in Seq(Reqs) /\ Append(req, Msg("online")) \in Seq(Reqs)
      BY <1>0, <3>1, PutLast
    <3>3. QED BY <2>1, <3>2
  <2>3. QED BY <1>0, <1>4, <1>5, <2>2, MapOps
        DEF onbtndiscover, OnbtnFindTags, User, Deselect, device, tool, DataOK
<1>6. CASE onbtnDownload
  BY <1>0, <1>4, <1>6 DEF onbtnDownload, User, device, DataOK
<1>7. ASSUME NEW t \in Tags, NEW e \in Epcs, EditEpc(t, e) PROVE DataOK'
  <2>1. SetEpc(t, e) \in Reqs
    BY MsgFacts
  <2>2. req' \in Seq(Reqs) /\ shown' \in Maps
    <3>1. [shown EXCEPT ![t] = e] \in Maps
      BY <1>0, MapOps
    <3>2. Append(req, SetEpc(t, e)) \in Seq(Reqs)
      BY <1>0, <2>1, PutLast
    <3>3. /\ shown' = [shown EXCEPT ![t] = e]
          /\ req' \in {req, Append(req, SetEpc(t, e))}
      BY <1>7 DEF EditEpc, setData
    <3>4. QED BY <1>0, <3>1, <3>2, <3>3
  <2>3. QED BY <1>0, <1>4, <1>7, <2>2 DEF EditEpc, User, device, DataOK
<1>8. ASSUME NEW t \in Tags, OnTagAdded(t) \/ OnRemoveTag(t) PROVE DataOK'
  <2>1. panel' \in Maps
    <3>1. CASE OnTagAdded(t)
      <4>1. shown[t] \in Epcs
        BY <1>0, <3>1, MapDef DEF OnTagAdded
      <4>2. QED BY <1>0, <3>1, <4>1, MapOps DEF OnTagAdded
    <3>2. CASE OnRemoveTag(t)
      BY <1>0, <3>2, MapOps DEF OnRemoveTag
    <3>3. QED BY <1>8, <3>1, <3>2
  <2>2. QED BY <1>0, <1>4, <1>8, <2>1 DEF OnTagAdded, OnRemoveTag, User, device, DataOK
<1>9. CASE Receive
  <2>1. /\ ans' \in Seq(Answers) /\ shown' \in Maps /\ panel' \in Maps /\ req' \in Seq(Reqs)
        /\ file' \in {file, panel'}
    BY <1>9, ReceiveTypes
  <2>2. QED BY <1>0, <1>9, <2>1 DEF Receive, device, DataOK
<1>10. CASE UNCHANGED vars
  BY <1>0, <1>10 DEF vars, device, tool, DataOK
<1>11. QED BY <1>1, <1>2, <1>3, <1>5, <1>6, <1>7, <1>8, <1>9, <1>10 DEF Next

(* The flags; a download is only offered for a device that is selected.    *)
LEMMA FlagsKept == DataOK /\ FlagsOK /\ [Next]_vars => FlagsOK'
<1> SUFFICES ASSUME DataOK, FlagsOK, [Next]_vars PROVE FlagsOK'
  OBVIOUS
<1> USE DEF tool, history
<1>1. ASSUME selected' \in BOOLEAN, crashed' \in BOOLEAN, canLoad' \in BOOLEAN,
             canLoad' => selected', doubt' \in BOOLEAN, raced' \in BOOLEAN,
             crossed' \in BOOLEAN, stray' \in BOOLEAN, cut' \in BOOLEAN
      PROVE  FlagsOK'
  BY <1>1, Zenon DEF FlagsOK
<1>2. /\ selected \in BOOLEAN /\ crashed \in BOOLEAN /\ canLoad \in BOOLEAN
      /\ (canLoad => selected) /\ doubt \in BOOLEAN /\ raced \in BOOLEAN
      /\ crossed \in BOOLEAN /\ stray \in BOOLEAN /\ cut \in BOOLEAN
  BY Zenon DEF FlagsOK
<1>3. ASSUME NEW t \in Tags, TagFound(t) \/ TagPurged(t) PROVE FlagsOK'
  BY <1>1, <1>2, <1>3, Zenon DEF TagFound, TagPurged
<1>4. CASE Handle
  <2>1. UNCHANGED <<tool, crossed, stray, cut>>
    BY <1>4 DEF Handle
  <2>2. raced' \in BOOLEAN
    BY <1>2, <1>4 DEF Handle
  <2>3. doubt' \in BOOLEAN
    <3>1. doubt' = doubt \/ UDP_cmd_tag_epc(Head(req).tag, Head(req).epc)
      <4>1. Head(req).kind \in {"rdm", "online", "para", "epc"}
        BY <1>4, HandleTypes, MsgFacts DEF EpcMsgs
      <4>2. QED BY <1>4, <4>1 DEF Handle
    <3>2. ASSUME NEW t, NEW e, UDP_cmd_tag_epc(t, e) PROVE doubt' \in BOOLEAN
      BY <1>2, <3>2 DEF UDP_cmd_tag_epc
    <3>3. QED BY <1>2, <3>1, <3>2
  <2>4. QED BY <1>1, <1>2, <2>1, <2>2, <2>3, Zenon
<1>5. CASE Cfg_load \/ UNCHANGED vars
  <2>1. UNCHANGED tool /\ UNCHANGED history
    BY <1>5 DEF Cfg_load, vars
  <2>2. QED BY <1>1, <1>2, <2>1, Zenon
<1>6. CASE onbtndiscover \/ OnbtnFindTags
  BY <1>1, <1>2, <1>6, Zenon DEF onbtndiscover, OnbtnFindTags, Deselect
<1>7. CASE onbtnDownload
  <2>1. raced' \in BOOLEAN /\ canLoad' = FALSE
    BY <1>2, <1>7 DEF onbtnDownload
  <2>2. UNCHANGED <<selected, crashed, doubt, crossed, stray, cut>>
    BY <1>7 DEF onbtnDownload
  <2>3. QED BY <1>1, <1>2, <2>1, <2>2, Zenon
<1>8. ASSUME NEW t \in Tags, NEW e \in Epcs, EditEpc(t, e) PROVE FlagsOK'
  <2>1. raced' \in BOOLEAN /\ crossed' \in BOOLEAN
    BY <1>2, <1>8 DEF EditEpc
  <2>2. UNCHANGED <<selected, canLoad, crashed, doubt, stray, cut>>
    BY <1>8 DEF EditEpc
  <2>3. QED BY <1>1, <1>2, <2>1, <2>2, Zenon
<1>9. ASSUME NEW t \in Tags, OnTagAdded(t) \/ OnRemoveTag(t) PROVE FlagsOK'
  <2>1. cut' \in BOOLEAN /\ canLoad' = selected
    BY <1>2, <1>9 DEF OnTagAdded, OnRdmModified, OnRemoveTag
  <2>2. UNCHANGED <<selected, crashed, doubt, raced, crossed, stray>>
    BY <1>9 DEF OnTagAdded, OnRemoveTag
  <2>3. QED BY <1>1, <1>2, <2>1, <2>2, Zenon
<1>10. CASE Receive
  <2>1. UNCHANGED <<doubt, crossed, cut>>
    BY <1>10 DEF Receive
  <2>2. raced' \in BOOLEAN /\ stray' \in BOOLEAN
    BY <1>2, <1>10 DEF Receive
  <2>3. \/ UNCHANGED <<selected, canLoad, crashed>>
        \/ OnMsgRdmfound
        \/ OnMsgTagEpc(Head(ans).tag, Head(ans).epc) /\ UNCHANGED selected
    <3>1. Head(ans).kind \in {"rdm", "online", "para", "epc"}
      BY <1>10, ReceiveTypes, MsgFacts
    <3>2. QED BY <1>10, <3>1 DEF Receive
  <2>4. selected' \in BOOLEAN /\ crashed' \in BOOLEAN /\ canLoad' \in BOOLEAN /\ (canLoad' => selected')
    <3>1. CASE UNCHANGED <<selected, canLoad, crashed>>
      BY <1>2, <3>1, Zenon
    <3>2. CASE OnMsgRdmfound
      BY <1>2, <3>2, Zenon DEF OnMsgRdmfound
    <3>3. ASSUME NEW t, NEW e, OnMsgTagEpc(t, e), UNCHANGED selected
          PROVE  /\ selected' \in BOOLEAN /\ crashed' \in BOOLEAN
                 /\ canLoad' \in BOOLEAN /\ (canLoad' => selected')
      <4>1. canLoad' = canLoad \/ canLoad' = selected
        BY <3>3, Zenon DEF OnMsgTagEpc
      <4>2. crashed' = crashed \/ crashed' = TRUE
        BY <3>3, Zenon DEF OnMsgTagEpc, DownloadManaged
      <4>3. crashed' \in BOOLEAN /\ selected' \in BOOLEAN
        BY <1>2, <3>3, <4>2, Zenon
      <4>4. CASE canLoad' = canLoad
        BY <1>2, <3>3, <4>3, <4>4, Zenon
      <4>5. CASE canLoad' = selected
        BY <1>2, <3>3, <4>3, <4>5, Zenon
      <4>6. QED BY <4>1, <4>4, <4>5, Zenon
    <3>4. QED BY <2>3, <3>1, <3>2, <3>3, Zenon
  <2>5. QED BY <1>1, <1>2, <2>1, <2>2, <2>4, Zenon
<1>11. QED BY <1>3, <1>4, <1>5, <1>6, <1>7, <1>8, <1>9, <1>10, Zenon DEF Next

-----------------------------------------------------------------------------
(* The initial states satisfy the invariant.                               *)
LEMMA InitIInv == Init => IInv
<1> SUFFICES ASSUME Init PROVE IInv
  OBVIOUS
<1>1. /\ Restrict(FactoryEpc, Managed) \in Maps
      /\ DOMAIN Restrict(FactoryEpc, Managed) = Managed
      /\ \A t \in Managed : Restrict(FactoryEpc, Managed)[t] = FactoryEpc[t]
  BY TagsAssumption, MapDef DEF Restrict
<1>2. DOMAIN <<>> = {} /\ <<>> \in Maps
  BY MapOps
<1>3. DataOK
  BY <1>1, <1>2, NoQueue, TagsAssumption, BoundsAssumption DEF Init, DataOK
<1>4. FlagsOK
  BY Zenon DEF Init, FlagsOK
<1>5. NoCrash /\ Unselected
  BY <1>2 DEF Init, NoCrash, Unselected
<1>6. Agreement
  BY <1>1, <1>2 DEF Init, Agreement, KnownTrue, AnswersTrue, ShownTrue, PanelTrue, ListTrue, FileTrue
<1>7. Complete
  BY <1>2, NoQueue DEF Init, Complete, FileFull, AnswersFull, PanelFull, PanelSame
<1>8. QED BY <1>3, <1>4, <1>5, <1>6, <1>7 DEF IInv

-----------------------------------------------------------------------------
(* No crash.                                                               *)

(* A tag is only edited, added or removed when a list is there; an answer  *)
(* only fills the lists of a device that is selected.                      *)
LEMMA UnselectedKept == IInv /\ [Next]_vars => Unselected' /\ NoCrash'
<1> SUFFICES ASSUME IInv, [Next]_vars PROVE Unselected' /\ NoCrash'
  OBVIOUS
<1> USE DEF Unselected, NoCrash
<1>0. Unselected /\ NoCrash /\ shown \in Maps /\ panel \in Maps
  BY DEF IInv, DataOK
<1>1. CASE UNCHANGED <<selected, stray, crashed>> /\ DOMAIN panel' = DOMAIN panel
           /\ DOMAIN shown' = DOMAIN shown
  BY <1>0, <1>1
<1>2. ASSUME NEW t \in Tags, TagFound(t) \/ TagPurged(t) PROVE Unselected' /\ NoCrash'
  BY <1>0, <1>2 DEF TagFound, TagPurged, tool, history
<1>3. CASE Handle \/ Cfg_load \/ OnbtnFindTags \/ UNCHANGED vars
  <2>1. UNCHANGED <<selected, stray, crashed, panel, shown>>
    BY <1>3 DEF Handle, Cfg_load, OnbtnFindTags, vars, tool, history
  <2>2. QED BY <1>1, <2>1
<1>4. CASE onbtndiscover
  BY <1>0, <1>4, MapOps DEF onbtndiscover, Deselect, history
<1>5. CASE onbtnDownload
  BY <1>0, <1>5 DEF onbtnDownload
<1>6. ASSUME NEW t \in Tags, NEW e \in Epcs, EditEpc(t, e) PROVE Unselected' /\ NoCrash'
  <2>1. shown' = [shown EXCEPT ![t] = e] /\ UNCHANGED <<selected, stray, crashed, panel>>
    BY <1>6 DEF EditEpc, setData
  <2>2. DOMAIN shown' = DOMAIN shown
    BY <1>0, <2>1, MapOps
  <2>3. QED BY <1>1, <2>1, <2>2
<1>7. ASSUME NEW t \in Tags, OnTagAdded(t) PROVE Unselected' /\ NoCrash'
  BY <1>0, <1>7 DEF OnTagAdded
<1>8. ASSUME NEW t \in Tags, OnRemoveTag(t) PROVE Unselected' /\ NoCrash'
  BY <1>0, <1>8 DEF OnRemoveTag
<1>9. CASE Receive
  <2> DEFINE m == Head(ans)
  <2>1. m.kind \in {"rdm", "online", "para", "epc"} /\ (m.kind = "epc" => m.tag \in Tags /\ m.epc \in Epcs)
    BY <1>9, ReceiveTypes, MsgFacts DEF IInv
  <2>2. stray' = (stray \/ (m.kind \in {"online", "para"} /\ ~selected))
    BY <1>9 DEF Receive
  <2> HIDE DEF m
  <2>3. CASE m.kind = "rdm"
    <3>1. OnMsgRdmfound
      BY <1>9, <2>3 DEF Receive, m
    <3>2. CASE selected
      BY <1>0, <2>2, <2>3, <3>1, <3>2 DEF OnMsgRdmfound, tool
    <3>3. CASE ~selected
      BY <1>0, <2>2, <2>3, <3>1, <3>3 DEF OnMsgRdmfound
    <3>4. QED BY <3>2, <3>3
  <2>4. CASE m.kind \in {"online", "para"}
    <3>1. UNCHANGED <<selected, crashed>>
      BY <1>9, <2>4 DEF Receive, m
    <3>2. QED BY <1>0, <2>2, <2>4, <3>1
  <2>5. CASE m.kind = "epc"
    <3>1. OnMsgTagEpc(m.tag, m.epc) /\ UNCHANGED selected
      BY <1>9, <2>5 DEF Receive, m
    <3>2. /\ shown' \in {shown, [shown EXCEPT ![m.tag] = m.epc]}
          /\ panel' \in {panel, [panel EXCEPT ![m.tag] = m.epc]}
      BY <3>1 DEF OnMsgTagEpc, setData
    <3>3. DOMAIN shown' = DOMAIN shown /\ DOMAIN panel' = DOMAIN panel
      BY <1>0, <2>1, <2>5, <3>2, MapOps
    <3>4. crashed' = crashed \/ (~selected /\ m.tag \in DOMAIN panel)
      BY <3>1 DEF OnMsgTagEpc, DownloadManaged
    <3>5. stray => stray'
      BY <2>2
    <3>6. Unselected'
      BY <1>0, <3>1, <3>3, <3>5
    <3>7. ~stray' => ~crashed'
      BY <1>0, <3>1, <3>4, <3>5
    <3>8. QED BY <3>6, <3>7
  <2>6. QED BY <2>1, <2>3, <2>4, <2>5
<1>10. QED BY <1>2, <1>3, <1>4, <1>5, <1>6, <1>7, <1>8, <1>9 DEF Next

-----------------------------------------------------------------------------
(* The EPCs agree.                                                         *)

(* A new answer is true, and about every tag whose EPC it follows.         *)
LEMMA AnswerAdded ==
  ASSUME ans \in Seq(Answers), AnswersTrue, NEW r \in Answers, ans' = Append(ans, r),
         raced => raced', \A t \in Tags : air'[t] = air[t] \/ About(r, t),
         \A t \in Tags : Mentions(Lists', r, t) => EpcIn(r, t) = air'[t]
  PROVE  AnswersTrue'
<1> SUFFICES ASSUME NEW t \in Tags, NEW i \in DOMAIN ans', Mentions(Lists', ans'[i], t),
                    \A j \in DOMAIN ans' : j > i => ~About(ans'[j], t)
             PROVE  EpcIn(ans'[i], t) = air'[t]
  BY DEF AnswersTrue
<1>1. CASE ans'[i] = r
  BY <1>1
<1>2. CASE i \in DOMAIN ans /\ ans'[i] = ans[i]
  <2>1. \E k \in DOMAIN ans' : ans'[k] = r /\ k > i
    BY <1>2, PutLast
  <2>2. air'[t] = air[t]
    BY <2>1
  <2>3. Mentions(Lists, ans[i], t)
    BY <1>2 DEF Mentions, Lists
  <2>4. \A j \in DOMAIN ans : j > i => ~About(ans[j], t)
    BY PutLast
  <2>5. QED BY <1>2, <2>2, <2>3, <2>4 DEF AnswersTrue
<1>3. QED BY <1>1, <1>2, PutLast

(* The others stay true when the first is taken.                           *)
LEMMA AnswerTaken ==
  ASSUME ans \in Seq(Answers), ans # <<>>, AnswersTrue, ans' = Tail(ans),
         raced => raced', air' = air
  PROVE  AnswersTrue'
<1> SUFFICES ASSUME NEW t \in Tags, NEW i \in DOMAIN ans', Mentions(Lists', ans'[i], t),
                    \A j \in DOMAIN ans' : j > i => ~About(ans'[j], t)
             PROVE  EpcIn(ans'[i], t) = air[t]
  BY DEF AnswersTrue
<1>1. i + 1 \in DOMAIN ans /\ ans'[i] = ans[i + 1]
  BY TakeFirst
<1>2. DOMAIN ans \subseteq Nat /\ DOMAIN ans' \subseteq Nat
  BY TakeFirst, LenProperties
<1>3. ASSUME NEW j \in DOMAIN ans, j > i + 1 PROVE ~About(ans[j], t)
  <2>1. j > 1 /\ j - 1 > i
    BY <1>2, <1>3
  <2>2. j - 1 \in DOMAIN ans' /\ ans[j] = ans'[j - 1]
    BY <2>1, TakeFirst
  <2>3. QED BY <2>1, <2>2
<1>4. Mentions(Lists, ans[i + 1], t)
  BY <1>1 DEF Mentions, Lists
<1>5. QED BY <1>1, <1>3, <1>4 DEF AnswersTrue

(* The first is true of every tag that no other is about.                  *)
LEMMA HeadTrue ==
  ASSUME ans \in Seq(Answers), ans # <<>>, AnswersTrue, NEW t \in Tags,
         Mentions(Lists, Head(ans), t), \A n \in ToSet(Tail(ans)) : ~About(n, t)
  PROVE  EpcIn(Head(ans), t) = air[t]
<1>1. 1 \in DOMAIN ans /\ Head(ans) = ans[1]
  BY TakeFirst
<1>2. ASSUME NEW j \in DOMAIN ans, j > 1 PROVE ~About(ans[j], t)
  <2>1. j - 1 \in DOMAIN Tail(ans) /\ ans[j] = Tail(ans)[j - 1]
    BY <1>2, TakeFirst
  <2>2. ans[j] \in ToSet(Tail(ans))
    BY <2>1 DEF ToSet
  <2>3. QED BY <2>2
<1>3. QED BY <1>1, <1>2 DEF AnswersTrue

(* Nothing is answered, and the tags have the same EPCs.                   *)
LEMMA AnswersSame ==
  ASSUME AnswersTrue, UNCHANGED <<ans, air>>, raced => raced'
  PROVE  AnswersTrue'
BY DEF AnswersTrue, Mentions, Lists

(* A write that leaves no doubt changes the EPC of the tag that is meant,  *)
(* in every list where the device has it, and is answered with it.         *)
LEMMA WriteEffect ==
  ASSUME DataOK, NEW t \in Tags, NEW new \in Epcs, UDP_cmd_tag_epc(t, new), KnownTrue, ~doubt'
  PROVE  /\ ~doubt /\ KnownTrue' /\ (ListTrue => ListTrue')
         /\ DOMAIN taglist' = DOMAIN taglist
         /\ \A u \in Tags \ {t} : air'[u] = air[u]
         /\ new = air[t] => air' = air
         /\ \E r \in Answers : ans' = Append(ans, r) /\ r.kind = "epc" /\ r.tag = t /\ r.epc = air'[t]
<1>0. air \in [Tags -> Epcs] /\ known \in Maps /\ taglist \in Maps
  BY DEF DataOK
<1>1. DOMAIN known \subseteq Tags /\ DOMAIN taglist \subseteq Tags
  BY <1>0, MapDef
<1>2. CASE t \in DOMAIN known
  <2>1. /\ (wirteEpc(known[t], new) /\ Record(t, new)) \/ UNCHANGED device
        /\ ans' = Append(ans, SetEpc(t, known'[t]))
        /\ ~doubt /\ known'[t] = air'[t] /\ \A u \in Tags \ {t} : air'[u] = air[u]
    BY <1>2 DEF UDP_cmd_tag_epc
  <2>2. CASE UNCHANGED device
    <3>1. UNCHANGED <<air, known, taglist>>
      BY <2>2 DEF device
    <3>2. known[t] \in Epcs
      BY <1>0, <1>2, MapDef
    <3>3. SetEpc(t, known[t]) \in Answers /\ SetEpc(t, known[t]).kind = "epc"
          /\ SetEpc(t, known[t]).tag = t /\ SetEpc(t, known[t]).epc = known[t]
      BY <3>2, MsgFacts
    <3>4. ans' = Append(ans, SetEpc(t, known[t])) /\ known[t] = air'[t]
      BY <2>1, <3>1
    <3>5. QED BY <2>1, <3>1, <3>3, <3>4 DEF KnownTrue, ListTrue
  <2>3. CASE wirteEpc(known[t], new) /\ Record(t, new)
    <3>1. PICK w \in Tags : air[w] = known[t] /\ air' = [air EXCEPT ![w] = new]
      BY <2>3 DEF wirteEpc
    <3>2. air' \in [Tags -> Epcs] /\ air'[t] \in Epcs
      BY <1>0, <3>1
    <3>3. new = air[t] => air' = air
      BY <1>0, <1>2, <3>1 DEF KnownTrue
    <3>4. /\ DOMAIN known' = DOMAIN known /\ DOMAIN taglist' = DOMAIN taglist
          /\ \A u \in DOMAIN known \ {t} : known'[u] = known[u]
          /\ \A u \in DOMAIN taglist \ {t} : taglist'[u] = taglist[u]
          /\ t \in DOMAIN taglist => taglist'[t] = new /\ known'[t] = new
      <4>1. CASE t \in DOMAIN taglist
        <5>1. known' = [known EXCEPT ![t] = new] /\ taglist' = [taglist EXCEPT ![t] = new]
          BY <2>3, <4>1 DEF Record
        <5>2. QED BY <1>0, <1>2, <4>1, <5>1, MapOps
      <4>2. CASE t \notin DOMAIN taglist
        <5>1. known' = known /\ taglist' = taglist
          BY <2>3, <4>2 DEF Record
        <5>2. QED BY <4>2, <5>1
      <4>3. QED BY <4>1, <4>2
    <3>5. KnownTrue'
      BY <1>1, <2>1, <3>4 DEF KnownTrue
    <3>6. ListTrue => ListTrue'
      BY <1>1, <2>1, <3>4 DEF ListTrue
    <3>7. \A e \in Epcs : /\ SetEpc(t, e) \in Answers /\ SetEpc(t, e).kind = "epc"
                          /\ SetEpc(t, e).tag = t /\ SetEpc(t, e).epc = e
      BY MsgFacts
    <3>8. ans' = Append(ans, SetEpc(t, air'[t]))
      BY <2>1
    <3>9. QED BY <2>1, <3>2, <3>3, <3>4, <3>5, <3>6, <3>7, <3>8
  <2>4. QED BY <2>1, <2>2, <2>3
<1>3. CASE t \notin DOMAIN known
  <2>1. /\ UNCHANGED <<air, known, taglist>> /\ ans' = Append(ans, SetEpc(t, new))
        /\ ~doubt /\ new = air[t]
    BY <1>3 DEF UDP_cmd_tag_epc, device
  <2>2. SetEpc(t, new) \in Answers /\ SetEpc(t, new).kind = "epc"
        /\ SetEpc(t, new).tag = t /\ SetEpc(t, new).epc = new
    BY MsgFacts
  <2>3. QED BY <2>1, <2>2 DEF KnownTrue, ListTrue
<1>4. QED BY <1>2, <1>3

(* What the device does for a request, when no doubt comes of it.          *)
LEMMA HandleEffect ==
  ASSUME IInv, Handle, ~doubt', NEW m \in Reqs, m = Head(req)
  PROVE  /\ ~doubt /\ KnownTrue' /\ (ListTrue => ListTrue')
         /\ (m.kind = "epc" => m.epc = air[m.tag]) => air' = air
         /\ DOMAIN taglist' = DOMAIN taglist
         /\ \E r \in Answers :
              /\ ans' = Append(ans, r)
              /\ \A u \in Tags : /\ About(r, u) <=> About(m, u)
                                 /\ air'[u] = air[u] \/ About(m, u)
                                 /\ Mentions(Lists', r, u) => EpcIn(r, u) = air'[u]
<1>1. /\ m.kind \in {"rdm", "online", "para", "epc"} /\ known \in Maps /\ taglist \in Maps
      /\ raced => raced'
  BY MsgFacts DEF IInv, DataOK, Handle, EpcMsgs
<1>2. ~doubt => KnownTrue /\ (~raced => ListTrue)
  BY DEF IInv, Agreement
<1>3. CASE m.kind = "epc"
  <2>1. PICK t \in Tags : t = m.tag
    BY <1>3, MsgFacts
  <2>2. PICK e \in Epcs : e = m.epc
    BY <1>3, MsgFacts
  <2>3. UDP_cmd_tag_epc(t, e)
    BY <1>3, <2>1, <2>2 DEF Handle
  <2>4. ~doubt
    BY <2>3 DEF UDP_cmd_tag_epc
  <2>5. /\ ~doubt /\ KnownTrue' /\ (ListTrue => ListTrue')
        /\ DOMAIN taglist' = DOMAIN taglist
        /\ \A u \in Tags \ {t} : air'[u] = air[u]
        /\ e = air[t] => air' = air
        /\ \E r \in Answers : ans' = Append(ans, r) /\ r.kind = "epc" /\ r.tag = t /\ r.epc = air'[t]
    BY <1>2, <2>3, <2>4, WriteEffect DEF IInv
  <2>6. PICK r \in Answers : ans' = Append(ans, r) /\ r.kind = "epc" /\ r.tag = t /\ r.epc = air'[t]
    BY <2>5
  <2>7. \A u \in Tags : /\ About(r, u) <=> About(m, u)
                        /\ air'[u] = air[u] \/ About(m, u)
                        /\ Mentions(Lists', r, u) => EpcIn(r, u) = air'[u]
    BY <1>3, <2>1, <2>5, <2>6 DEF About, Mentions, EpcIn, Lists
  <2>8. QED BY <1>3, <2>1, <2>2, <2>5, <2>6, <2>7
<1>4. CASE m.kind # "epc"
  <2>1. UNCHANGED <<air, known, taglist>> /\ ~doubt
    BY <1>1, <1>4 DEF Handle, device
  <2>2. KnownTrue /\ (~raced => ListTrue)
    BY <1>2, <2>1
  <2>3. PICK r \in Answers : /\ ans' = Append(ans, r) /\ r.kind = m.kind
                             /\ r.kind = "online" => r.tags = known
                             /\ r.kind = "para" => r.tags = taglist
    <3>1. CASE m.kind = "rdm"
      BY <3>1, MsgFacts DEF Handle
    <3>2. CASE m.kind = "online"
      <4>1. ans' = Append(ans, List("online", known))
        BY <3>2 DEF Handle
      <4>2. QED BY <1>1, <3>2, <4>1, MsgFacts
    <3>3. CASE m.kind = "para"
      <4>1. ans' = Append(ans, List("para", taglist))
        BY <3>3 DEF Handle
      <4>2. QED BY <1>1, <3>3, <4>1, MsgFacts
    <3>4. QED BY <1>1, <1>4, <3>1, <3>2, <3>3
  <2>4. \A u \in Tags : /\ About(r, u) <=> About(m, u)
                        /\ air'[u] = air[u] \/ About(m, u)
    BY <1>4, <2>1, <2>3 DEF About
  <2>5. ASSUME NEW u \in Tags, Mentions(Lists', r, u) PROVE EpcIn(r, u) = air'[u]
    <3>1. r.kind \in Lists' /\ u \in DOMAIN r.tags /\ EpcIn(r, u) = r.tags[u]
      BY <1>4, <2>3, <2>5 DEF Mentions, About, EpcIn
    <3>2. CASE r.kind = "online"
      BY <2>1, <2>2, <2>3, <3>1, <3>2 DEF KnownTrue
    <3>3. CASE r.kind = "para"
      <4>1. ~raced
        BY <1>1, <3>1, <3>3 DEF Lists
      <4>2. QED BY <2>1, <2>2, <2>3, <3>1, <3>3, <4>1 DEF ListTrue
    <3>4. QED BY <3>1, <3>2, <3>3 DEF Lists
  <2>6. KnownTrue' /\ (ListTrue => ListTrue')
    BY <2>1, <2>2 DEF KnownTrue, ListTrue
  <2>7. QED BY <2>1, <2>3, <2>4, <2>5, <2>6
<1>5. QED BY <1>3, <1>4

(* The device answers a request.                                           *)
LEMMA AgreeHandle == IInv /\ Handle => Agreement'
<1> SUFFICES ASSUME IInv, Handle, ~doubt'
             PROVE  /\ KnownTrue' /\ AnswersTrue' /\ ShownTrue'
                    /\ (~raced' => PanelTrue' /\ ListTrue' /\ FileTrue')
  BY DEF Agreement
<1>0. /\ req \in Seq(Reqs) /\ ans \in Seq(Answers) /\ req # <<>> /\ req' = Tail(req)
      /\ shown \in Maps /\ panel \in Maps
      /\ UNCHANGED <<file, selected, shown, panel>>
      /\ raced => raced'
  BY DEF IInv, DataOK, Handle, tool
<1>1. PICK m \in Reqs : m = Head(req) /\ ToSet(req) = {m} \cup ToSet(req')
  BY <1>0, TakeFirst
<1>2. /\ ~doubt /\ KnownTrue' /\ (ListTrue => ListTrue')
      /\ (m.kind = "epc" => m.epc = air[m.tag]) => air' = air
  BY <1>1, HandleEffect
<1>3. PICK r \in Answers :
        /\ ans' = Append(ans, r)
        /\ \A u \in Tags : /\ About(r, u) <=> About(m, u)
                           /\ air'[u] = air[u] \/ About(m, u)
                           /\ Mentions(Lists', r, u) => EpcIn(r, u) = air'[u]
  BY <1>1, HandleEffect
<1>4. KnownTrue /\ AnswersTrue /\ ShownTrue /\ (~raced => PanelTrue /\ ListTrue /\ FileTrue)
  BY <1>2 DEF IInv, Agreement
<1>5. AnswersTrue'
  BY <1>0, <1>3, <1>4, AnswerAdded
<1>6. ToSet(ans') = ToSet(ans) \cup {r}
  BY <1>0, <1>3, PutLast
<1>7. ASSUME NEW u \in Tags, Asked(u) \/ About(m, u) PROVE Asked(u)'
  BY <1>1, <1>3, <1>6, <1>7 DEF Asked, OnTheWay, About
<1>8. ShownTrue'
  BY <1>0, <1>3, <1>4, <1>7, MapDef DEF ShownTrue
<1>9. ASSUME ~raced' PROVE PanelTrue' /\ ListTrue' /\ FileTrue'
  <2>1. PanelTrue /\ ListTrue /\ FileTrue
    BY <1>0, <1>4, <1>9
  <2>2. PanelTrue'
    BY <1>0, <1>3, <1>7, <2>1, MapDef DEF PanelTrue
  <2>3. FileTrue'
    <3> SUFFICES ASSUME file # NoFile PROVE FileTrue'
      BY <1>0 DEF FileTrue
    <3>1. m.kind = "epc" => m.epc = air[m.tag]
      BY <1>1, <2>1 DEF FileTrue
    <3>2. QED BY <1>0, <1>1, <1>2, <2>1, <3>1 DEF FileTrue
  <2>4. QED BY <1>2, <2>1, <2>2, <2>3
<1>10. QED BY <1>2, <1>5, <1>8, <1>9

(* The tags come and go; the file is loaded.                               *)
LEMMA AgreeDevice == IInv /\ ((\E t \in Tags : TagFound(t) \/ TagPurged(t)) \/ Cfg_load) => Agreement'
<1> SUFFICES ASSUME IInv, (\E t \in Tags : TagFound(t) \/ TagPurged(t)) \/ Cfg_load, ~doubt'
             PROVE  /\ KnownTrue' /\ AnswersTrue' /\ ShownTrue'
                    /\ (~raced' => PanelTrue' /\ ListTrue' /\ FileTrue')
  BY DEF Agreement
<1>1. /\ UNCHANGED <<air, req, ans, selected, shown, panel, doubt, raced>>
      /\ air \in [Tags -> Epcs] /\ known \in Maps
  BY DEF IInv, DataOK, TagFound, TagPurged, Cfg_load, tool, history
<1>2. KnownTrue /\ AnswersTrue /\ ShownTrue /\ (~raced => PanelTrue /\ ListTrue /\ FileTrue)
  BY <1>1 DEF IInv, Agreement
<1>3. AnswersTrue'
  BY <1>1, <1>2, AnswersSame
<1>4. ShownTrue' /\ (~raced' => PanelTrue')
  BY <1>1, <1>2 DEF ShownTrue, PanelTrue, Asked, OnTheWay
<1>5. KnownTrue'
  <2>1. ASSUME NEW t \in Tags, TagFound(t) \/ TagPurged(t) PROVE KnownTrue'
    <3>1. known' = With(known, t, air[t]) \/ known' = Without(known, t)
      BY <2>1 DEF TagFound, TagPurged
    <3>2. PICK e \in Epcs : e = air[t]
      BY <1>1
    <3>3. /\ DOMAIN With(known, t, e) = DOMAIN known \cup {t}
          /\ With(known, t, e)[t] = e
          /\ \A u \in DOMAIN known \ {t} : With(known, t, e)[u] = known[u]
      BY DEF With
    <3>4. /\ DOMAIN Without(known, t) = DOMAIN known \ {t}
          /\ \A u \in DOMAIN known \ {t} : Without(known, t)[u] = known[u]
      BY DEF Without, Restrict
    <3>5. QED BY <1>1, <1>2, <3>1, <3>2, <3>3, <3>4 DEF KnownTrue
  <2>2. CASE Cfg_load
    BY <1>1, <1>2, <2>2 DEF Cfg_load, KnownTrue
  <2>3. QED BY <2>1, <2>2
<1>6. ASSUME ~raced' PROVE ListTrue' /\ FileTrue'
  <2>1. CASE UNCHANGED <<taglist, file>>
    BY <1>1, <1>2, <1>6, <2>1 DEF ListTrue, FileTrue
  <2>2. CASE Cfg_load
    BY <1>1, <1>2, <1>6, <2>2 DEF Cfg_load, ListTrue, FileTrue
  <2>3. QED BY <2>1, <2>2 DEF TagFound, TagPurged
<1>7. QED BY <1>3, <1>4, <1>5, <1>6

(* The user searches, edits and downloads.                                 *)
LEMMA AgreeUser ==
  IInv /\ (\/ onbtndiscover \/ OnbtnFindTags \/ onbtnDownload
           \/ \E t \in Tags, e \in Epcs : EditEpc(t, e)
           \/ \E t \in Tags : OnTagAdded(t) \/ OnRemoveTag(t)) => Agreement'
<1> SUFFICES ASSUME IInv, ~doubt',
                    \/ onbtndiscover \/ OnbtnFindTags \/ onbtnDownload
                    \/ \E t \in Tags, e \in Epcs : EditEpc(t, e)
                    \/ \E t \in Tags : OnTagAdded(t) \/ OnRemoveTag(t)
             PROVE  /\ KnownTrue' /\ AnswersTrue' /\ ShownTrue'
                    /\ (~raced' => PanelTrue' /\ ListTrue' /\ FileTrue')
  BY DEF Agreement
<1>1. /\ UNCHANGED <<air, known, taglist, ans>> /\ ~doubt /\ (raced => raced')
      /\ shown \in Maps /\ panel \in Maps /\ req \in Seq(Reqs)
  <2>1. shown \in Maps /\ panel \in Maps /\ req \in Seq(Reqs)
    BY DEF IInv, DataOK
  <2>2. ASSUME onbtndiscover \/ OnbtnFindTags \/ onbtnDownload
        PROVE  UNCHANGED <<air, known, taglist, ans, doubt>> /\ (raced => raced')
    <3>1. UNCHANGED <<air, known, taglist, ans, doubt>>
      BY <2>2 DEF onbtndiscover, OnbtnFindTags, onbtnDownload, device, history
    <3>2. raced => raced'
      BY <2>2, Zenon DEF onbtndiscover, OnbtnFindTags, onbtnDownload, history
    <3>3. QED BY <3>1, <3>2
  <2>3. ASSUME NEW t \in Tags, NEW e \in Epcs, EditEpc(t, e)
        PROVE  UNCHANGED <<air, known, taglist, ans, doubt>> /\ (raced => raced')
    BY <2>3 DEF EditEpc, device
  <2>4. ASSUME NEW t \in Tags, OnTagAdded(t) \/ OnRemoveTag(t)
        PROVE  UNCHANGED <<air, known, taglist, ans, doubt, raced>>
    BY <2>4 DEF OnTagAdded, OnRemoveTag, device
  <2>5. QED BY <2>1, <2>2, <2>3, <2>4
<1>2. KnownTrue /\ AnswersTrue /\ ShownTrue /\ (~raced => PanelTrue /\ ListTrue /\ FileTrue)
  BY <1>1 DEF IInv, Agreement
<1>3. AnswersTrue' /\ KnownTrue' /\ (~raced' => ListTrue')
  BY <1>1, <1>2, AnswersSame DEF KnownTrue, ListTrue
<1>4. Msg("rdm") \in Reqs /\ Msg("rdm").kind = "rdm" /\ Msg("online") \in Reqs /\ Msg("online").kind = "online"
  BY MsgFacts
<1>5. CASE onbtndiscover
  <2>1. /\ req' = Append(req, Msg("rdm")) /\ selected' = FALSE /\ UNCHANGED <<file, raced>>
    BY <1>5 DEF onbtndiscover, Deselect, history
  <2>2. ToSet(req') = ToSet(req) \cup {Msg("rdm")}
    BY <1>1, <1>4, <2>1, PutLast
  <2>3. ShownTrue' /\ PanelTrue'
    BY <2>1 DEF ShownTrue, PanelTrue
  <2>4. ~raced' => FileTrue'
    BY <1>1, <1>2, <1>4, <2>1, <2>2 DEF FileTrue
  <2>5. QED BY <1>3, <2>3, <2>4
<1>6. CASE OnbtnFindTags
  <2>1. /\ req' = Append(req, Msg("online")) /\ UNCHANGED <<file, raced, selected, shown, panel>>
    BY <1>6 DEF OnbtnFindTags, tool, history
  <2>2. ToSet(req') = ToSet(req) \cup {Msg("online")}
    BY <1>1, <1>4, <2>1, PutLast
  <2>3. ShownTrue' /\ (~raced' => PanelTrue')
    BY <1>1, <1>2, <2>1, <2>2 DEF ShownTrue, PanelTrue, Asked, OnTheWay
  <2>4. ~raced' => FileTrue'
    BY <1>1, <1>2, <1>4, <2>1, <2>2 DEF FileTrue
  <2>5. QED BY <1>3, <2>3, <2>4
<1>7. CASE onbtnDownload
  <2>1. UNCHANGED <<req, selected, shown, panel>> /\ file' = panel /\ selected
    BY <1>7 DEF onbtnDownload
  <2>2. ShownTrue' /\ (~raced' => PanelTrue')
    BY <1>1, <1>2, <2>1 DEF ShownTrue, PanelTrue, Asked, OnTheWay
  <2>3. ~raced' => FileTrue'
    <3> SUFFICES ASSUME ~raced' PROVE FileTrue'
      OBVIOUS
    <3>1. ~raced /\ \A t \in Tags : ~Asked(t)
      BY <1>7 DEF onbtnDownload
    <3>2. \A t \in DOMAIN panel : panel[t] = air[t]
      BY <1>1, <1>2, <2>1, <3>1, MapDef DEF PanelTrue
    <3>3. \A m \in ToSet(req) : m.kind # "epc"
      <4>1. ToSet(req) \subseteq Reqs
        BY <1>1, QueueType
      <4>2. \A m \in ToSet(req) : m.kind = "epc" => m.tag \in Tags
        BY <4>1, MsgFacts
      <4>3. QED BY <3>1, <4>2 DEF Asked, OnTheWay
    <3>4. QED BY <1>1, <2>1, <3>2, <3>3 DEF FileTrue
  <2>4. QED BY <1>3, <2>2, <2>3
<1>8. ASSUME NEW t \in Tags, NEW e \in Epcs, EditEpc(t, e)
      PROVE  ShownTrue' /\ (~raced' => PanelTrue' /\ FileTrue')
  <2>1. /\ UNCHANGED <<selected, panel, file>> /\ e # shown[t] /\ t \in DOMAIN shown
        /\ shown' = [shown EXCEPT ![t] = e]
        /\ req' = IF selected THEN Append(req, SetEpc(t, e)) ELSE req
    BY <1>8 DEF EditEpc, setData
  <2>2. SetEpc(t, e) \in Reqs /\ SetEpc(t, e).kind = "epc" /\ SetEpc(t, e).tag = t
    BY MsgFacts
  <2>3. selected => ToSet(req') = ToSet(req) \cup {SetEpc(t, e)}
    BY <1>1, <2>1, <2>2, PutLast
  <2>4. selected => Asked(t)' /\ \A u \in Tags : Asked(u) => Asked(u)'
    BY <1>1, <2>2, <2>3 DEF Asked, OnTheWay
  <2>5. DOMAIN shown' = DOMAIN shown /\ \A u \in DOMAIN shown \ {t} : shown'[u] = shown[u]
    BY <1>1, <2>1, MapOps
  <2>6. ShownTrue'
    BY <1>1, <1>2, <2>1, <2>4, <2>5, MapDef DEF ShownTrue
  <2>7. ~raced' => PanelTrue'
    BY <1>1, <1>2, <2>1, <2>4, MapDef DEF PanelTrue
  <2>8. ~raced' => FileTrue'
    BY <1>8, <2>1 DEF EditEpc, FileTrue
  <2>9. QED BY <2>6, <2>7, <2>8
<1>9. ASSUME NEW t \in Tags, OnTagAdded(t) \/ OnRemoveTag(t)
      PROVE  ShownTrue' /\ (~raced' => PanelTrue' /\ FileTrue')
  <2>1. UNCHANGED <<req, file, selected, shown, raced>>
    BY <1>9 DEF OnTagAdded, OnRemoveTag
  <2>2. ShownTrue' /\ (~raced' => FileTrue') /\ \A u \in Tags : Asked(u)' <=> Asked(u)
    BY <1>1, <1>2, <2>1 DEF ShownTrue, FileTrue, Asked, OnTheWay
  <2>3. \A u \in DOMAIN panel' : \/ u \in DOMAIN panel /\ panel'[u] = panel[u]
                                 \/ u \in DOMAIN shown /\ panel'[u] = shown[u]
    <3>1. CASE OnTagAdded(t)
      <4>1. t \in DOMAIN shown /\ panel' = With(panel, t, shown[t])
        BY <3>1 DEF OnTagAdded
      <4>2. PICK e \in Epcs : e = shown[t]
        BY <1>1, <4>1, MapDef
      <4>3. /\ DOMAIN With(panel, t, e) = DOMAIN panel \cup {t}
            /\ With(panel, t, e)[t] = e
            /\ \A u \in DOMAIN panel \ {t} : With(panel, t, e)[u] = panel[u]
        BY DEF With
      <4>4. QED BY <4>1, <4>2, <4>3
    <3>2. CASE OnRemoveTag(t)
      <4>1. panel' = Without(panel, t)
        BY <3>2 DEF OnRemoveTag
      <4>2. /\ DOMAIN Without(panel, t) = DOMAIN panel \ {t}
            /\ \A u \in DOMAIN panel \ {t} : Without(panel, t)[u] = panel[u]
        BY DEF Without, Restrict
      <4>3. QED BY <4>1, <4>2
    <3>3. QED BY <1>9, <3>1, <3>2
  <2>4. ~raced' => PanelTrue'
    BY <1>1, <1>2, <2>1, <2>2, <2>3, MapDef DEF PanelTrue, ShownTrue
  <2>5. QED BY <2>2, <2>4
<1>10. QED BY <1>3, <1>5, <1>6, <1>7, <1>8, <1>9

(* An acknowledgement is applied: it is true, or another is on its way.    *)
LEMMA AgreeEpc ==
  ASSUME IInv, Receive, ~doubt', NEW t \in Tags, NEW e \in Epcs,
         About(Head(ans), t), Head(ans).epc = e, OnMsgTagEpc(t, e), UNCHANGED selected
  PROVE  ShownTrue' /\ (~raced' => PanelTrue' /\ FileTrue')
<1>1. /\ UNCHANGED <<air, doubt>> /\ ~doubt /\ (raced => raced')
      /\ ans \in Seq(Answers) /\ ans # <<>> /\ ans' = Tail(ans)
      /\ shown \in Maps /\ panel \in Maps /\ req \in Seq(Reqs)
  BY DEF IInv, DataOK, Receive, device
<1>2. AnswersTrue /\ ShownTrue /\ (~raced => PanelTrue /\ FileTrue)
  BY <1>1 DEF IInv, Agreement
<1>3. ToSet(ans) = {Head(ans)} \cup ToSet(ans')
  BY <1>1, TakeFirst
<1>4. SetEpc(t, e) \in Reqs /\ SetEpc(t, e).kind = "epc" /\ SetEpc(t, e).tag = t /\ SetEpc(t, e).epc = e
  BY MsgFacts
<1>5. ToSet(req') = ToSet(req) \/ ToSet(req') = ToSet(req) \cup {SetEpc(t, e)}
  <2>1. req' \in {req, Append(req, SetEpc(t, e))}
    BY DEF OnMsgTagEpc, setData
  <2>2. ToSet(Append(req, SetEpc(t, e))) = ToSet(req) \cup {SetEpc(t, e)}
    BY <1>1, <1>4, PutLast
  <2>3. QED BY <2>1, <2>2
<1>6. \A u \in Tags \ {t} : Asked(u) => Asked(u)'
  BY <1>3, <1>5 DEF Asked, OnTheWay, About
<1>7. e = air[t] \/ Asked(t)'
  <2> SUFFICES ASSUME ~Asked(t)' PROVE e = air[t]
    OBVIOUS
  <2>1. \A n \in ToSet(Tail(ans)) : ~About(n, t)
    BY <1>1 DEF Asked, OnTheWay, About
  <2>2. Mentions(Lists, Head(ans), t) /\ EpcIn(Head(ans), t) = e
    BY DEF Mentions, About, EpcIn
  <2>3. QED BY <1>1, <1>2, <2>1, <2>2, HeadTrue
<1>8. ShownTrue'
  <2>1. /\ DOMAIN shown' = DOMAIN shown /\ \A u \in DOMAIN shown \ {t} : shown'[u] = shown[u]
        /\ t \in DOMAIN shown => shown'[t] = e
    <3>1. shown' = [shown EXCEPT ![t] = e] \/ (t \notin DOMAIN shown /\ shown' = shown)
      BY DEF OnMsgTagEpc, setData
    <3>2. QED BY <1>1, <3>1, MapOps
  <2>2. QED BY <1>1, <1>2, <1>6, <1>7, <2>1, MapDef DEF ShownTrue
<1>9. /\ DOMAIN panel' = DOMAIN panel /\ \A u \in DOMAIN panel \ {t} : panel'[u] = panel[u]
      /\ t \in DOMAIN panel => panel'[t] = e
  <2>1. panel' = [panel EXCEPT ![t] = e] \/ (panel' = panel /\ (t \in DOMAIN panel => panel[t] = e))
    BY DEF OnMsgTagEpc
  <2>2. QED BY <1>1, <2>1, MapOps
<1>10. ~raced' => PanelTrue'
  BY <1>1, <1>2, <1>6, <1>7, <1>9, MapDef DEF PanelTrue
<1>11. ~raced' => FileTrue'
  <2> SUFFICES ASSUME ~raced', file' # NoFile PROVE FileTrue'
    BY DEF FileTrue
  <2>1. \A n \in ToSet(req) \cup ToSet(Tail(ans)) : n.kind # "epc"
    BY DEF Receive, About
  <2>2. e = air[t]
    <3>1. \A n \in ToSet(Tail(ans)) : ~About(n, t)
      BY <2>1 DEF About
    <3>2. Mentions(Lists, Head(ans), t) /\ EpcIn(Head(ans), t) = e
      BY DEF Mentions, About, EpcIn
    <3>3. QED BY <1>1, <1>2, <3>1, <3>2, HeadTrue
  <2>3. \A m \in ToSet(req') : m.kind = "epc" => m.epc = air'[m.tag]
    BY <1>1, <1>4, <1>5, <2>1, <2>2
  <2>4. \A u \in DOMAIN file' : file'[u] = air'[u]
    <3>1. CASE file' = file
      BY <1>1, <1>2, <3>1 DEF FileTrue
    <3>2. CASE file' = panel' /\ selected /\ t \in DOMAIN panel
      <4>1. \A u \in Tags \ {t} : ~Asked(u)
        BY <1>1, <1>3, <2>1 DEF Asked, OnTheWay, About
      <4>2. QED BY <1>1, <1>2, <1>9, <2>2, <3>2, <4>1, MapDef DEF PanelTrue
    <3>3. QED BY <3>1, <3>2 DEF OnMsgTagEpc, DownloadManaged
  <2>5. QED BY <2>3, <2>4 DEF FileTrue
<1>12. QED BY <1>8, <1>10, <1>11

(* The PC tool receives an answer.                                         *)
LEMMA AgreeReceive == IInv /\ Receive => Agreement'
<1> SUFFICES ASSUME IInv, Receive, ~doubt'
             PROVE  /\ KnownTrue' /\ AnswersTrue' /\ ShownTrue'
                    /\ (~raced' => PanelTrue' /\ ListTrue' /\ FileTrue')
  BY DEF Agreement
<1>1. /\ UNCHANGED <<air, known, taglist>> /\ ~doubt /\ (raced => raced')
      /\ ans \in Seq(Answers) /\ ans # <<>> /\ ans' = Tail(ans)
      /\ shown \in Maps /\ panel \in Maps /\ req \in Seq(Reqs)
  BY DEF IInv, DataOK, Receive, device
<1>2. KnownTrue /\ AnswersTrue /\ ShownTrue /\ (~raced => PanelTrue /\ ListTrue /\ FileTrue)
  BY <1>1 DEF IInv, Agreement
<1>3. AnswersTrue' /\ KnownTrue' /\ (~raced' => ListTrue')
  BY <1>1, <1>2, AnswerTaken DEF KnownTrue, ListTrue
<1>4. ToSet(ans) = {Head(ans)} \cup ToSet(ans')
  BY <1>1, TakeFirst
<1>5. PICK m \in Answers : m = Head(ans)
  BY <1>1, TakeFirst
<1>6. /\ m.kind \in {"rdm", "online", "para", "epc"}
      /\ m.kind = "epc" => m.tag \in Tags /\ m.epc \in Epcs
      /\ m.kind \in {"online", "para"} => m.tags \in Maps
  BY MsgFacts
<1>7. ASSUME m.kind # "epc", ToSet(req) \subseteq ToSet(req'), NEW u \in Tags
      PROVE  /\ Asked(u) => Asked(u)'
             /\ Mentions(Lists, m, u) => m.tags[u] = air[u] \/ Asked(u)'
  <2>1. Asked(u) => Asked(u)'
    BY <1>4, <1>5, <1>7 DEF Asked, OnTheWay
  <2>2. ASSUME Mentions(Lists, m, u), ~Asked(u)' PROVE m.tags[u] = air[u]
    <3>1. \A n \in ToSet(Tail(ans)) : ~About(n, u)
      BY <1>1, <2>2 DEF Asked, OnTheWay, About
    <3>2. EpcIn(m, u) = air[u]
      BY <1>1, <1>2, <1>5, <2>2, <3>1, HeadTrue
    <3>3. QED BY <1>7, <3>2 DEF EpcIn
  <2>3. QED BY <2>1, <2>2
<1>8. CASE m.kind = "epc"
  <2>1. PICK t \in Tags : t = m.tag
    BY <1>6, <1>8
  <2>2. PICK e \in Epcs : e = m.epc
    BY <1>6, <1>8
  <2>3. OnMsgTagEpc(t, e) /\ UNCHANGED selected
    BY <1>5, <1>8, <2>1, <2>2 DEF Receive
  <2>4. About(Head(ans), t) /\ Head(ans).epc = e
    BY <1>5, <1>8, <2>1, <2>2 DEF About
  <2>5. QED BY <1>3, <2>3, <2>4, AgreeEpc
<1>9. CASE m.kind = "online"
  <2>1. shown' = m.tags /\ UNCHANGED <<req, file, selected, panel>>
    BY <1>5, <1>9 DEF Receive
  <2>2. \A u \in DOMAIN m.tags : u \in Tags /\ Mentions(Lists, m, u)
    BY <1>6, <1>9, MapDef DEF Mentions, Lists
  <2>3. ShownTrue'
    BY <1>1, <1>7, <1>9, <2>1, <2>2 DEF ShownTrue
  <2>4. ~raced' => PanelTrue' /\ FileTrue'
    BY <1>1, <1>2, <1>7, <1>9, <2>1, MapDef DEF PanelTrue, FileTrue
  <2>5. QED BY <1>3, <2>3, <2>4
<1>10. CASE m.kind = "para"
  <2>1. panel' = m.tags /\ UNCHANGED <<req, file, selected, shown>>
    BY <1>5, <1>10 DEF Receive
  <2>2. ~raced => \A u \in DOMAIN m.tags : u \in Tags /\ Mentions(Lists, m, u)
    BY <1>6, <1>10, MapDef DEF Mentions, Lists
  <2>3. ShownTrue'
    BY <1>1, <1>2, <1>7, <1>10, <2>1, MapDef DEF ShownTrue
  <2>4. ~raced' => PanelTrue'
    BY <1>1, <1>7, <1>10, <2>1, <2>2 DEF PanelTrue
  <2>5. ~raced' => FileTrue'
    BY <1>1, <1>2, <2>1 DEF FileTrue
  <2>6. QED BY <1>3, <2>3, <2>4, <2>5
<1>11. CASE m.kind = "rdm"
  <2>1. OnMsgRdmfound /\ UNCHANGED file
    BY <1>5, <1>11 DEF Receive
  <2>2. CASE selected
    <3>1. UNCHANGED <<req, selected, shown, panel>>
      BY <2>1, <2>2 DEF OnMsgRdmfound, tool
    <3>2. ShownTrue' /\ (~raced' => PanelTrue' /\ FileTrue')
      BY <1>1, <1>2, <1>7, <1>11, <2>1, <3>1, MapDef DEF ShownTrue, PanelTrue, FileTrue
    <3>3. QED BY <1>3, <3>2
  <2>3. CASE ~selected
    <3>1. shown' = <<>> /\ panel' = <<>> /\ req' = req \o <<Msg("online"), Msg("para")>>
      BY <2>1, <2>3 DEF OnMsgRdmfound
    <3>2. ShownTrue' /\ PanelTrue'
      BY <3>1, MapOps DEF ShownTrue, PanelTrue
    <3>3. /\ Msg("online") \in Reqs /\ Msg("online").kind = "online"
          /\ Msg("para") \in Reqs /\ Msg("para").kind = "para"
      BY MsgFacts
    <3>4. ToSet(req') = ToSet(req) \cup {Msg("online"), Msg("para")}
      BY <1>1, <3>1, <3>3, PutTwo
    <3>5. ~raced' => FileTrue'
      BY <1>1, <1>2, <2>1, <3>3, <3>4 DEF FileTrue
    <3>6. QED BY <1>3, <3>2, <3>5
  <2>4. QED BY <2>2, <2>3
<1>12. QED BY <1>6, <1>8, <1>9, <1>10, <1>11

-----------------------------------------------------------------------------
(* No managed tag is missing.                                              *)

(* What keeps the lists complete: no tag comes, goes, or is answered.      *)
LEMMA CompleteSame ==
  ASSUME Complete, cut => cut', raced => raced',
         DOMAIN taglist' = DOMAIN taglist, file' = file,
         \A m \in ToSet(ans') : m.kind = "para" => m \in ToSet(ans),
         ParaAsked' <=> ParaAsked,
         selected' => selected /\ (Filled' => Filled) /\ DOMAIN panel' = DOMAIN panel
  PROVE  Complete'
<1> SUFFICES ASSUME ~cut', ~raced' PROVE FileFull' /\ AnswersFull' /\ PanelFull' /\ PanelSame'
  BY DEF Complete
<1>1. FileFull /\ AnswersFull /\ PanelFull /\ PanelSame
  BY DEF Complete
<1>2. FileFull'
  BY <1>1 DEF FileFull
<1>3. FileSame' <=> FileSame
  BY DEF FileSame
<1>4. AnswersFull'
  BY <1>1, <1>3 DEF AnswersFull
<1>5. PanelFull'
  BY <1>1 DEF PanelFull
<1>6. PanelSame'
  BY <1>1, <1>3 DEF PanelSame
<1>7. QED BY <1>2, <1>4, <1>5, <1>6

(* The managed tags stay the same, and are answered with, when a request   *)
(* is handled.                                                             *)
LEMMA HandleLists ==
  ASSUME DataOK, Handle, NEW m \in Reqs, m = Head(req)
  PROVE  /\ DOMAIN taglist' = DOMAIN taglist
         /\ \E r \in Answers : ans' = Append(ans, r) /\ r.kind = m.kind
                               /\ (m.kind = "para" => r.tags = taglist)
<1>1. /\ m.kind \in {"rdm", "online", "para", "epc"} /\ known \in Maps /\ taglist \in Maps
  BY MsgFacts DEF DataOK, EpcMsgs
<1>2. CASE m.kind = "rdm"
  <2>1. ans' = Append(ans, m) /\ UNCHANGED taglist
    BY <1>2 DEF Handle, device
  <2>2. m \in Answers
    BY <1>2, MsgFacts
  <2>3. QED BY <1>2, <2>1, <2>2
<1>3. CASE m.kind = "online"
  <2>1. ans' = Append(ans, List("online", known)) /\ UNCHANGED taglist
    BY <1>3 DEF Handle, device
  <2>2. QED BY <1>1, <1>3, <2>1, MsgFacts
<1>4. CASE m.kind = "para"
  <2>1. ans' = Append(ans, List("para", taglist)) /\ UNCHANGED taglist
    BY <1>4 DEF Handle, device
  <2>2. QED BY <1>1, <1>4, <2>1, MsgFacts
<1>5. CASE m.kind = "epc"
  <2>1. PICK t \in Tags : t = m.tag
    BY <1>5, MsgFacts
  <2>2. PICK e \in Epcs : e = m.epc
    BY <1>5, MsgFacts
  <2>3. UDP_cmd_tag_epc(t, e)
    BY <1>5, <2>1, <2>2 DEF Handle
  <2>4. taglist' \in {taglist, [taglist EXCEPT ![t] = e]}
    BY <2>3 DEF UDP_cmd_tag_epc, Record, device
  <2>5. DOMAIN [taglist EXCEPT ![t] = e] = DOMAIN taglist
    BY <1>1, MapOps
  <2>6. \A x \in Epcs : SetEpc(t, x) \in Answers /\ SetEpc(t, x).kind = "epc"
    BY MsgFacts
  <2>7. \E x \in Epcs : ans' = Append(ans, SetEpc(t, x))
    <3>1. CASE t \in DOMAIN known
      <4>1. known' \in Maps
        BY HandleTypes
      <4>2. known' \in {known, [known EXCEPT ![t] = e]}
        BY <2>3, <3>1 DEF UDP_cmd_tag_epc, Record, device
      <4>3. DOMAIN known' = DOMAIN known
        BY <1>1, <4>2, MapOps
      <4>4. known'[t] \in Epcs
        BY <3>1, <4>1, <4>3, MapDef
      <4>5. QED BY <2>3, <3>1, <4>4 DEF UDP_cmd_tag_epc
    <3>2. CASE t \notin DOMAIN known
      BY <2>3, <3>2 DEF UDP_cmd_tag_epc
    <3>3. QED BY <3>1, <3>2
  <2>8. QED BY <1>5, <2>4, <2>5, <2>6, <2>7
<1>6. QED BY <1>1, <1>2, <1>3, <1>4, <1>5

(* The device answers a request; one for the managed tags while a file is  *)
(* on its way makes raced true.                                            *)
LEMMA CompleteHandle == IInv /\ Handle => Complete'
<1> SUFFICES ASSUME IInv, Handle, ~cut', ~raced'
             PROVE  FileFull' /\ AnswersFull' /\ PanelFull' /\ PanelSame'
  BY DEF Complete
<1>1. /\ req \in Seq(Reqs) /\ ans \in Seq(Answers) /\ req # <<>> /\ req' = Tail(req)
      /\ UNCHANGED <<file, selected, panel, canLoad, cut>>
  BY DEF IInv, DataOK, Handle, tool
<1>2. PICK m \in Reqs : m = Head(req) /\ ToSet(req) = {m} \cup ToSet(req')
  BY <1>1, TakeFirst
<1>3. ~raced /\ (m.kind = "para" => file = NoFile)
  BY <1>2 DEF Handle
<1>4. FileFull /\ AnswersFull /\ PanelFull /\ PanelSame
  BY <1>1, <1>3 DEF IInv, Complete
<1>5. DOMAIN taglist' = DOMAIN taglist
  BY <1>2, HandleLists DEF IInv
<1>6. PICK r \in Answers : ans' = Append(ans, r) /\ r.kind = m.kind
                           /\ (m.kind = "para" => r.tags = taglist)
  BY <1>2, HandleLists DEF IInv
<1>7. ToSet(ans') = ToSet(ans) \cup {r}
  BY <1>1, <1>6, PutLast
<1>8. ParaAsked' <=> ParaAsked
  BY <1>2, <1>6, <1>7 DEF ParaAsked, OnTheWay
<1>9. Filled' <=> Filled
  BY <1>1 DEF Filled
<1>10. FileSame' <=> FileSame
  BY <1>1, <1>5 DEF FileSame
<1>11. FileFull'
  BY <1>1, <1>4, <1>5 DEF FileFull
<1>12. AnswersFull'
  <2>1. r.kind = "para" => DOMAIN r.tags = DOMAIN taglist' /\ FileSame
    BY <1>3, <1>5, <1>6 DEF FileSame
  <2>2. QED BY <1>4, <1>5, <1>7, <1>10, <2>1 DEF AnswersFull
<1>13. PanelFull'
  BY <1>1, <1>4, <1>5, <1>8, <1>9 DEF PanelFull
<1>14. PanelSame'
  BY <1>1, <1>4, <1>5, <1>8, <1>9, <1>10 DEF PanelSame
<1>15. QED BY <1>11, <1>12, <1>13, <1>14

(* The file becomes the list of managed tags.                              *)
LEMMA CompleteLoad == IInv /\ Cfg_load => Complete'
<1> SUFFICES ASSUME IInv, Cfg_load, ~cut', ~raced'
             PROVE  FileFull' /\ AnswersFull' /\ PanelFull' /\ PanelSame'
  BY DEF Complete
<1>1. /\ file # NoFile /\ taglist' = file /\ file' = NoFile
      /\ UNCHANGED <<req, ans, selected, panel, canLoad, cut, raced>>
  BY DEF Cfg_load, tool, history
<1>2. FileFull /\ AnswersFull /\ PanelFull /\ PanelSame
  BY <1>1 DEF IInv, Complete
<1>3. ParaAsked' <=> ParaAsked
  BY <1>1 DEF ParaAsked, OnTheWay
<1>4. Filled' <=> Filled
  BY <1>1 DEF Filled
<1>5. FileFull' /\ FileSame'
  BY <1>1 DEF FileFull, FileSame
<1>6. AnswersFull'
  BY <1>1, <1>2, <1>5 DEF AnswersFull, FileSame
<1>7. PanelFull'
  BY <1>1, <1>2, <1>3, <1>4 DEF PanelFull
<1>8. PanelSame'
  <2> SUFFICES ASSUME selected', Filled', ParaAsked'
               PROVE  DOMAIN panel' = DOMAIN taglist' /\ FileSame'
    BY DEF PanelSame
  <2>1. DOMAIN panel = DOMAIN taglist /\ FileSame
    BY <1>1, <1>2, <1>3, <1>4 DEF PanelSame
  <2>2. QED BY <1>1, <1>5, <2>1 DEF FileSame
<1>9. QED BY <1>5, <1>6, <1>7, <1>8

(* The tags, a search, a refresh and an edit change no list of the managed *)
(* tags.                                                                   *)
LEMMA CompleteOther ==
  IInv /\ (\/ \E t \in Tags : TagFound(t) \/ TagPurged(t)
           \/ onbtndiscover \/ OnbtnFindTags
           \/ \E t \in Tags, e \in Epcs : EditEpc(t, e)) => Complete'
<1> SUFFICES ASSUME IInv, \/ \E t \in Tags : TagFound(t) \/ TagPurged(t)
                          \/ onbtndiscover \/ OnbtnFindTags
                          \/ \E t \in Tags, e \in Epcs : EditEpc(t, e)
             PROVE  Complete'
  OBVIOUS
<1>1. Complete /\ req \in Seq(Reqs)
  BY DEF IInv, DataOK
<1>2. ASSUME NEW t \in Tags, TagFound(t) \/ TagPurged(t) PROVE Complete'
  <2>1. UNCHANGED <<taglist, req, ans, file, selected, panel, canLoad, cut, raced>>
    BY <1>2 DEF TagFound, TagPurged, tool, history
  <2>2. (ParaAsked' <=> ParaAsked) /\ (Filled' <=> Filled)
    BY <2>1 DEF ParaAsked, OnTheWay, Filled
  <2>3. QED BY <1>1, <2>1, <2>2, CompleteSame
<1>3. \A k \in {"rdm", "online"} :
        /\ Msg(k) \in Reqs /\ Msg(k).kind = k
        /\ ToSet(Append(req, Msg(k))) = ToSet(req) \cup {Msg(k)}
  BY <1>1, MsgFacts, PutLast
<1>4. CASE onbtndiscover
  <2>1. /\ UNCHANGED <<taglist, ans, file, cut, raced>> /\ selected' = FALSE
        /\ req' = Append(req, Msg("rdm"))
    BY <1>4 DEF onbtndiscover, Deselect, device, history
  <2>2. ParaAsked' <=> ParaAsked
    BY <1>3, <2>1 DEF ParaAsked, OnTheWay
  <2>3. QED BY <1>1, <2>1, <2>2, CompleteSame
<1>5. CASE OnbtnFindTags
  <2>1. /\ UNCHANGED <<taglist, ans, file, selected, panel, canLoad, cut, raced>>
        /\ req' = Append(req, Msg("online"))
    BY <1>5 DEF OnbtnFindTags, device, tool, history
  <2>2. (ParaAsked' <=> ParaAsked) /\ (Filled' <=> Filled)
    BY <1>3, <2>1 DEF ParaAsked, OnTheWay, Filled
  <2>3. QED BY <1>1, <2>1, <2>2, CompleteSame
<1>6. ASSUME NEW t \in Tags, NEW e \in Epcs, EditEpc(t, e) PROVE Complete'
  <2>1. UNCHANGED <<taglist, ans, file, selected, panel, canLoad, cut>> /\ (raced => raced')
    BY <1>6 DEF EditEpc, device
  <2>2. req' \in {req, Append(req, SetEpc(t, e))}
    BY <1>6 DEF EditEpc, setData
  <2>3. SetEpc(t, e) \in Reqs /\ SetEpc(t, e).kind = "epc"
    BY MsgFacts
  <2>4. ToSet(Append(req, SetEpc(t, e))) = ToSet(req) \cup {SetEpc(t, e)}
    BY <1>1, <2>3, PutLast
  <2>5. ToSet(req') = ToSet(req) \/ ToSet(req') = ToSet(req) \cup {SetEpc(t, e)}
    BY <2>2, <2>4
  <2>6. ParaAsked' <=> ParaAsked
    BY <2>1, <2>3, <2>5 DEF ParaAsked, OnTheWay
  <2>7. Filled' <=> Filled
    BY <2>1 DEF Filled
  <2>8. QED BY <1>1, <2>1, <2>6, <2>7, CompleteSame
<1>7. QED BY <1>2, <1>4, <1>5, <1>6

(* A tag that is added before the managed tags have come, and one that is  *)
(* removed, make cut true.                                                 *)
LEMMA CompletePanel ==
  ASSUME IInv, NEW t \in Tags, OnTagAdded(t) \/ OnRemoveTag(t)
  PROVE  Complete'
<1> SUFFICES ASSUME ~cut', ~raced' PROVE FileFull' /\ AnswersFull' /\ PanelFull' /\ PanelSame'
  BY DEF Complete
<1>1. OnTagAdded(t)
  BY DEF OnRemoveTag
<1>2. UNCHANGED <<taglist, req, ans, file, selected, raced>>
  BY <1>1 DEF OnTagAdded, device
<1>3. ~cut /\ (selected => ~ParaAsked)
  BY <1>1 DEF OnTagAdded, OnRdmModified, ParaAsked
<1>4. FileFull /\ AnswersFull /\ PanelFull
  BY <1>2, <1>3 DEF IInv, Complete
<1>5. ParaAsked' <=> ParaAsked
  BY <1>2 DEF ParaAsked, OnTheWay
<1>6. DOMAIN panel \subseteq DOMAIN panel'
  BY <1>1 DEF OnTagAdded, With
<1>7. FileFull' /\ AnswersFull'
  BY <1>2, <1>4 DEF FileFull, AnswersFull, FileSame
<1>8. PanelFull'
  BY <1>2, <1>3, <1>4, <1>6 DEF PanelFull
<1>9. PanelSame'
  BY <1>2, <1>3, <1>5 DEF PanelSame
<1>10. QED BY <1>7, <1>8, <1>9

(* What is downloaded is a panel that is filled.                           *)
LEMMA CompleteDownload == IInv /\ onbtnDownload => Complete'
<1> SUFFICES ASSUME IInv, onbtnDownload, ~cut', ~raced'
             PROVE  FileFull' /\ AnswersFull' /\ PanelFull' /\ PanelSame'
  BY DEF Complete
<1>1. /\ UNCHANGED <<taglist, req, ans, selected, panel, cut>>
      /\ selected /\ canLoad /\ file' = panel /\ ~raced
  BY DEF onbtnDownload, device
<1>2. FileFull /\ AnswersFull /\ PanelFull /\ PanelSame
  BY <1>1 DEF IInv, Complete
<1>3. DOMAIN taglist \subseteq DOMAIN panel /\ (ParaAsked => DOMAIN panel = DOMAIN taglist)
  BY <1>1, <1>2 DEF Filled, PanelFull, PanelSame
<1>4. ParaAsked' <=> ParaAsked
  BY <1>1 DEF ParaAsked, OnTheWay
<1>5. FileFull' /\ (ParaAsked => FileSame')
  BY <1>1, <1>3 DEF FileFull, FileSame
<1>6. AnswersFull'
  <2> SUFFICES ASSUME NEW m \in ToSet(ans), m.kind = "para"
               PROVE  DOMAIN m.tags = DOMAIN taglist /\ FileSame'
    BY <1>1 DEF AnswersFull
  <2>1. ParaAsked
    BY DEF ParaAsked, OnTheWay
  <2>2. QED BY <1>2, <1>5, <2>1 DEF AnswersFull
<1>7. PanelFull'
  BY <1>1, <1>3 DEF PanelFull
<1>8. PanelSame'
  BY <1>1, <1>3, <1>4, <1>5 DEF PanelSame
<1>9. QED BY <1>5, <1>6, <1>7, <1>8

(* An acknowledgement changes no list of tags; what it downloads is a      *)
(* panel that is filled.                                                   *)
LEMMA CompleteEpc ==
  ASSUME IInv, Receive, NEW t \in Tags, NEW e \in Epcs, ~cut', ~raced',
         OnMsgTagEpc(t, e), UNCHANGED selected,
         \A m \in ToSet(ans') : m \in ToSet(ans), ParaAsked' <=> ParaAsked,
         FileFull, AnswersFull, PanelFull, PanelSame
  PROVE  FileFull' /\ AnswersFull' /\ PanelFull' /\ PanelSame'
<1>1. taglist' = taglist /\ panel \in Maps
  BY DEF IInv, DataOK, Receive, device
<1>2. DOMAIN panel' = DOMAIN panel
  <2>1. panel' \in {panel, [panel EXCEPT ![t] = e]}
    BY DEF OnMsgTagEpc
  <2>2. DOMAIN [panel EXCEPT ![t] = e] = DOMAIN panel
    BY <1>1, MapOps
  <2>3. QED BY <2>1, <2>2
<1>3. UNCHANGED canLoad \/ t \in DOMAIN panel
  BY DEF OnMsgTagEpc
<1>4. Filled' => Filled
  BY <1>2, <1>3 DEF Filled
<1>5. file' = file \/ (file' = panel' /\ selected /\ t \in DOMAIN panel)
  BY DEF OnMsgTagEpc, DownloadManaged
<1>6. t \in DOMAIN panel => Filled
  BY DEF Filled
<1>7. FileFull'
  BY <1>1, <1>2, <1>5, <1>6 DEF FileFull, PanelFull
<1>8. ParaAsked => (FileSame => FileSame')
  BY <1>1, <1>2, <1>5, <1>6 DEF PanelSame, FileSame
<1>9. AnswersFull'
  <2> SUFFICES ASSUME NEW m \in ToSet(ans'), m.kind = "para"
               PROVE  DOMAIN m.tags = DOMAIN taglist /\ FileSame'
    BY <1>1 DEF AnswersFull
  <2>1. ParaAsked
    BY DEF ParaAsked, OnTheWay
  <2>2. DOMAIN m.tags = DOMAIN taglist /\ FileSame
    BY DEF AnswersFull
  <2>3. QED BY <1>8, <2>1, <2>2
<1>10. PanelFull'
  BY <1>1, <1>2, <1>4, <1>5 DEF PanelFull
<1>11. PanelSame'
  BY <1>1, <1>2, <1>4, <1>8 DEF PanelSame
<1>12. QED BY <1>7, <1>9, <1>10, <1>11

(* The PC tool receives an answer; the managed tags fill the panel.        *)
LEMMA CompleteReceive == IInv /\ Receive => Complete'
<1> SUFFICES ASSUME IInv, Receive, ~cut', ~raced'
             PROVE  FileFull' /\ AnswersFull' /\ PanelFull' /\ PanelSame'
  BY DEF Complete
<1>1. /\ UNCHANGED <<taglist, cut>> /\ ~raced
      /\ ans \in Seq(Answers) /\ ans # <<>> /\ ans' = Tail(ans)
      /\ panel \in Maps /\ req \in Seq(Reqs)
  BY DEF IInv, DataOK, Receive, device
<1>2. FileFull /\ AnswersFull /\ PanelFull /\ PanelSame
  BY <1>1 DEF IInv, Complete
<1>3. PICK m \in Answers : m = Head(ans) /\ ToSet(ans) = {m} \cup ToSet(ans')
  BY <1>1, TakeFirst
<1>4. /\ m.kind \in {"rdm", "online", "para", "epc"}
      /\ m.kind = "epc" => m.tag \in Tags /\ m.epc \in Epcs
  BY MsgFacts
<1>5. ASSUME m.kind # "para", UNCHANGED <<req, file, selected, panel, canLoad>>
      PROVE  FileFull' /\ AnswersFull' /\ PanelFull' /\ PanelSame'
  <2>1. (ParaAsked' <=> ParaAsked) /\ (Filled' <=> Filled)
    BY <1>3, <1>5 DEF ParaAsked, OnTheWay, Filled
  <2>2. FileFull' /\ AnswersFull' /\ (FileSame' <=> FileSame)
    BY <1>1, <1>2, <1>3, <1>5 DEF FileFull, AnswersFull, FileSame
  <2>3. PanelFull' /\ PanelSame'
    BY <1>1, <1>2, <1>5, <2>1, <2>2 DEF PanelFull, PanelSame
  <2>4. QED BY <2>2, <2>3
<1>6. CASE m.kind = "online"
  BY <1>3, <1>5, <1>6 DEF Receive
<1>7. CASE m.kind = "para"
  <2>1. panel' = m.tags /\ UNCHANGED <<file, selected>>
    BY <1>3, <1>7 DEF Receive
  <2>2. DOMAIN m.tags = DOMAIN taglist /\ FileSame
    BY <1>2, <1>3, <1>7 DEF AnswersFull
  <2>3. FileFull' /\ AnswersFull' /\ FileSame'
    BY <1>1, <1>2, <1>3, <2>1, <2>2 DEF FileFull, AnswersFull, FileSame
  <2>4. PanelFull' /\ PanelSame'
    BY <1>1, <2>1, <2>2, <2>3 DEF PanelFull, PanelSame, FileSame
  <2>5. QED BY <2>3, <2>4
<1>8. CASE m.kind = "rdm"
  <2>1. OnMsgRdmfound /\ UNCHANGED file
    BY <1>3, <1>8 DEF Receive
  <2>2. CASE selected
    <3>1. UNCHANGED <<req, selected, panel, canLoad>>
      BY <2>1, <2>2 DEF OnMsgRdmfound, tool
    <3>2. QED BY <1>5, <1>8, <2>1, <3>1
  <2>3. CASE ~selected
    <3>1. /\ panel' = <<>> /\ canLoad' = FALSE
          /\ req' = req \o <<Msg("online"), Msg("para")>>
      BY <2>1, <2>3 DEF OnMsgRdmfound
    <3>2. Msg("online") \in Reqs /\ Msg("para") \in Reqs /\ Msg("para").kind = "para"
      BY MsgFacts
    <3>3. ToSet(req') = ToSet(req) \cup {Msg("online"), Msg("para")}
      BY <1>1, <3>1, <3>2, PutTwo
    <3>4. ParaAsked' /\ ~Filled'
      BY <3>1, <3>2, <3>3, MapOps DEF ParaAsked, OnTheWay, Filled
    <3>5. PanelFull' /\ PanelSame'
      BY <3>4 DEF PanelFull, PanelSame
    <3>6. FileFull' /\ AnswersFull'
      BY <1>1, <1>2, <1>3, <2>1 DEF FileFull, AnswersFull, FileSame
    <3>7. QED BY <3>5, <3>6
  <2>4. QED BY <2>2, <2>3
<1>9. CASE m.kind = "epc"
  <2>1. PICK t \in Tags : t = m.tag
    BY <1>4, <1>9
  <2>2. PICK e \in Epcs : e = m.epc
    BY <1>4, <1>9
  <2>3. OnMsgTagEpc(t, e) /\ UNCHANGED selected
    BY <1>3, <1>9, <2>1, <2>2 DEF Receive
  <2>4. req' \in {req, Append(req, SetEpc(t, e))}
    BY <2>3 DEF OnMsgTagEpc, setData
  <2>5. SetEpc(t, e) \in Reqs /\ SetEpc(t, e).kind = "epc"
    BY MsgFacts
  <2>6. ToSet(Append(req, SetEpc(t, e))) = ToSet(req) \cup {SetEpc(t, e)}
    BY <1>1, <2>5, PutLast
  <2>7. ToSet(req') = ToSet(req) \/ ToSet(req') = ToSet(req) \cup {SetEpc(t, e)}
    BY <2>4, <2>6
  <2>8. ParaAsked' <=> ParaAsked
    BY <1>3, <1>9, <2>5, <2>7 DEF ParaAsked, OnTheWay
  <2>9. \A n \in ToSet(ans') : n \in ToSet(ans)
    BY <1>3
  <2>10. QED BY <1>2, <2>3, <2>8, <2>9, CompleteEpc
<1>10. QED BY <1>4, <1>6, <1>7, <1>8, <1>9

-----------------------------------------------------------------------------
(* The invariant holds in every state.                                     *)

(* A step that changes nothing.                                            *)
LEMMA Stutter == IInv /\ UNCHANGED vars => Agreement' /\ Complete'
<1> SUFFICES ASSUME IInv, UNCHANGED vars PROVE Agreement' /\ Complete'
  OBVIOUS
<1>1. UNCHANGED <<air, known, taglist, req, ans, file, selected, shown, panel, canLoad, doubt, raced, cut>>
  BY DEF vars, device, tool, history
<1>2. Agreement /\ Complete
  BY DEF IInv
<1>3. UNCHANGED <<KnownTrue, AnswersTrue, ShownTrue, PanelTrue, ListTrue, FileTrue>>
  BY <1>1 DEF KnownTrue, AnswersTrue, ShownTrue, PanelTrue, ListTrue, FileTrue,
              Asked, OnTheWay, Mentions, Lists
<1>4. Agreement'
  BY <1>1, <1>2, <1>3, Zenon DEF Agreement
<1>5. (ParaAsked' <=> ParaAsked) /\ (Filled' <=> Filled)
  BY <1>1 DEF ParaAsked, OnTheWay, Filled
<1>6. Complete'
  BY <1>1, <1>2, <1>5, CompleteSame
<1>7. QED BY <1>4, <1>6

(* Every step keeps it.                                                    *)
LEMMA StepIInv == IInv /\ [Next]_vars => IInv'
<1> SUFFICES ASSUME IInv, [Next]_vars PROVE IInv'
  OBVIOUS
<1>1. DataOK' /\ FlagsOK'
  BY DataKept, FlagsKept DEF IInv
<1>2. Unselected' /\ NoCrash'
  BY UnselectedKept
<1>3. Agreement' /\ Complete'
  <2>1. CASE \E t \in Tags : TagFound(t) \/ TagPurged(t)
    BY <2>1, AgreeDevice, CompleteOther
  <2>2. CASE Handle
    BY <2>2, AgreeHandle, CompleteHandle
  <2>3. CASE Cfg_load
    BY <2>3, AgreeDevice, CompleteLoad
  <2>4. CASE onbtndiscover \/ OnbtnFindTags
    BY <2>4, AgreeUser, CompleteOther
  <2>5. CASE onbtnDownload
    BY <2>5, AgreeUser, CompleteDownload
  <2>6. CASE \E t \in Tags, e \in Epcs : EditEpc(t, e)
    BY <2>6, AgreeUser, CompleteOther
  <2>7. CASE \E t \in Tags : OnTagAdded(t) \/ OnRemoveTag(t)
    BY <2>7, AgreeUser, CompletePanel
  <2>8. CASE Receive
    BY <2>8, AgreeReceive, CompleteReceive
  <2>9. CASE UNCHANGED vars
    BY <2>9, Stutter
  <2>10. QED BY <2>1, <2>2, <2>3, <2>4, <2>5, <2>6, <2>7, <2>8, <2>9 DEF Next
<1>4. QED BY <1>1, <1>2, <1>3 DEF IInv

(* The inductive invariant: what the lists, the answers, the panel and the *)
(* file hold at every moment, for any tags, EPCs and number of edits.      *)
THEOREM Invariance == Spec => []IInv
BY InitIInv, StepIInv, PTL DEF Spec

(* Lists and datagrams keep their types; a download is only offered for a  *)
(* device that is selected.                                                *)
THEOREM TypeCorrect == Spec => []TypeOK
<1>1. IInv => TypeOK
  BY TypesSuffice DEF IInv
<1>2. QED BY <1>1, Invariance, PTL

(* The PC tool never downloads without a device (icfgpanel.cpp:273),       *)
(* unless a list of tags came while nothing was selected.                  *)
THEOREM NoCrashWithoutStray == Spec => []NoCrash
<1>1. IInv => NoCrash
  BY DEF IInv
<1>2. QED BY <1>1, Invariance, PTL

(* When all is quiet, the PC tool shows the EPCs that the tags have, and   *)
(* the device has recorded them (ibc.cpp:479-480), however many edits,     *)
(* refreshes, searches and downloads were interleaved.                     *)
THEOREM EpcsAgree == Spec => []EpcAgree
<1>1. IInv => EpcAgree
  <2> SUFFICES ASSUME IInv, Quiet, selected, ~doubt, NEW t \in DOMAIN shown
               PROVE  shown[t] = air[t] /\ (t \in DOMAIN taglist /\ ~raced => taglist[t] = air[t])
    BY DEF EpcAgree
  <2>1. ShownTrue /\ (~raced => ListTrue)
    BY DEF IInv, Agreement
  <2>2. ~Asked(t)
    BY NoQueue DEF Quiet, Asked, OnTheWay
  <2>3. QED BY <2>1, <2>2 DEF ShownTrue, ListTrue
<1>2. QED BY <1>1, Invariance, PTL

(* A download (saveRdmXml) takes no managed tag from the device, unless    *)
(* the panel lost one or was changed before it was filled, or a list was   *)
(* under way at the same time.                                             *)
THEOREM TagsStay == Spec => TagsKept
<1>1. IInv /\ [Next]_vars => [DOMAIN taglist \subseteq DOMAIN taglist' \/ cut \/ raced]_vars
  <2> SUFFICES ASSUME IInv, Next, ~cut, ~raced PROVE DOMAIN taglist \subseteq DOMAIN taglist'
    BY Zenon
  <2>1. CASE Handle
    <3>1. PICK m \in Reqs : m = Head(req)
      BY <2>1, HandleTypes DEF IInv
    <3>2. QED BY <2>1, <3>1, HandleLists DEF IInv
  <2>2. CASE Cfg_load
    BY <2>2 DEF IInv, Complete, FileFull, Cfg_load
  <2>3. ASSUME NEW t \in Tags, TagFound(t) \/ TagPurged(t) PROVE taglist' = taglist
    BY <2>3 DEF TagFound, TagPurged
  <2>4. CASE onbtndiscover \/ OnbtnFindTags \/ onbtnDownload \/ Receive
    BY <2>4 DEF onbtndiscover, OnbtnFindTags, onbtnDownload, Receive, device
  <2>5. ASSUME NEW t \in Tags, NEW e \in Epcs, EditEpc(t, e) PROVE taglist' = taglist
    BY <2>5 DEF EditEpc, device
  <2>6. ASSUME NEW t \in Tags, OnTagAdded(t) \/ OnRemoveTag(t) PROVE taglist' = taglist
    BY <2>6 DEF OnTagAdded, OnRemoveTag, device
  <2>7. QED BY <2>1, <2>2, <2>3, <2>4, <2>5, <2>6 DEF Next
<1>2. QED BY <1>1, Invariance, PTL DEF Spec, TagsKept
=============================================================================
