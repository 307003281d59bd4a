------------------------ MODULE MissionEvents_proofs ------------------------
(***************************************************************************)
(* Proofs about MissionEvents, for any Missions, any page size and any     *)
(* number of changes, switches and faults.                                 *)
(*                                                                         *)
(* Two chains of facts meet in QuietViewIsCurrent.  On the wire: what the  *)
(* browser was told, what is on its way and what the stream has yet to     *)
(* read follow each other in the order of the stamps (StreamInv).  On the  *)
(* panel: what the browser was told is on the screen, or is being fetched, *)
(* or is written off (PanelInv).                                           *)
(***************************************************************************)
EXTENDS MissionEvents, SequenceTheorems, TLAPS

-----------------------------------------------------------------------------
(* The invariants.                                                         *)

StampIn(e) == <<e.at, e.mission>>

\* Nobody knows a version that the database has not.
KnownInv ==
    /\ \A m \in Mission : hinted[m] <= row[m].version /\ lost[m] <= row[m].version
    /\ view # None => view.version <= row[view.mission].version
    /\ switch # None => switch.read <= row[switch.mission].version
    /\ refresh # None => refresh.read <= row[refresh.mission].version

\* A hint was true when it was sent and tells the browser nothing it had.
FrameInv ==
    \A i \in DOMAIN frames :
        LET e == frames[i]
        IN  /\ hinted[e.mission] <= e.version
            /\ e.version <= row[e.mission].version
            /\ e.version = row[e.mission].version => e.at = row[e.mission].at

\* The browser's cursor, the hints on their way, the server's cursor.
OrderInv ==
    /\ ~After(cursor, sent)
    /\ \A i \in DOMAIN frames :
          After(StampIn(frames[i]), cursor) /\ ~After(StampIn(frames[i]), sent)
    /\ \A i, j \in DOMAIN frames :
          i < j => /\ After(StampIn(frames[j]), StampIn(frames[i]))
                   /\ frames[i].mission = frames[j].mission =>
                         frames[i].version <= frames[j].version

StreamInv ==
    /\ boot.phase = "done" <=> stream # "none"
    /\ stream # "open" => frames = <<>>
    /\ stream = "open" => OrderInv
    /\ FrameInv
    /\ NoChangeIsSkipped

\* What the browser was told of a Mission is in a view of that version, or its
\* loss is on record.
ToldBy(m, version) == hinted[m] <= version \/ hinted[m] <= lost[m]

PanelInv ==
    /\ switch # None => pending # None /\ pending.mission = switch.mission
    /\ switch # None /\ switch.read > 0 /\ view.mission # switch.mission =>
          ToldBy(switch.mission, switch.read)
    /\ view # None =>
          \/ ToldBy(view.mission, view.version)
          \/ "refresh" \in timers
          \/ /\ refresh # None /\ refresh.mission = view.mission
             /\ refresh.read = 0 \/ ToldBy(view.mission, refresh.read)

IInv == TypeOK /\ KnownInv /\ StreamInv /\ PanelInv

-----------------------------------------------------------------------------
(* Stamps, frames and pages.                                               *)

\* The order of stamps is strict and total.
LEMMA AfterIsOrder ==
    /\ \A a \in Nat \X Nat : ~After(a, a)
    /\ \A a, b \in Nat \X Nat : After(a, b) => ~After(b, a)
    /\ \A a, b \in Nat \X Nat : a[2] # b[2] => After(a, b) \/ After(b, a)
    /\ \A a, b, c \in Nat \X Nat : After(a, b) /\ ~After(c, b) => After(a, c)
<1>1. \A a \in Nat \X Nat : a[1] \in Nat /\ a[2] \in Nat
  OBVIOUS
<1>2. \A a \in Nat \X Nat : ~After(a, a)
  BY <1>1 DEF After
<1>3. ASSUME NEW a \in Nat \X Nat, NEW b \in Nat \X Nat
      PROVE  /\ After(a, b) => ~After(b, a)
             /\ a[2] # b[2] => After(a, b) \/ After(b, a)
  <2>1. {a[1], a[2], b[1], b[2]} \subseteq Nat
    BY <1>1
  <2> QED
    BY <2>1 DEF After
<1>4. ASSUME NEW a \in Nat \X Nat, NEW b \in Nat \X Nat, NEW c \in Nat \X Nat
      PROVE  After(a, b) /\ ~After(c, b) => After(a, c)
  <2>1. {a[1], a[2], b[1], b[2], c[1], c[2]} \subseteq Nat
    BY <1>1
  <2> QED
    BY <2>1 DEF After
<1> QED
  BY <1>2, <1>3, <1>4

LEMMA StampsAreNumbers ==
    /\ Stamp \subseteq Nat \X Nat
    /\ \A at \in Nat, m \in Mission : <<at, m>> \in Stamp
    /\ \A m \in Mission : m \in Nat /\ m # 0
<1>1. \A m \in Mission : m \in Nat /\ m # 0
  BY MissionEventsAssumption
<1>2. (Mission \cup {0}) \subseteq Nat
  BY <1>1
<1>3. \A at \in Nat, m \in Mission : <<at, m>> \in Stamp
  BY DEF Stamp
<1>4. ASSUME NEW s \in Stamp PROVE s \in Nat \X Nat
  <2>1. PICK at \in Nat, m \in Mission \cup {0} : s = <<at, m>>
    BY DEF Stamp
  <2> QED
    BY <2>1, <1>2
<1> QED
  BY <1>1, <1>3, <1>4

Frame == [mission : Mission, version : Nat, at : Nat]

LEMMA PageFacts ==
    ASSUME TypeOK, NEW since, NEW page \in Pages(since)
    PROVE  /\ page \in Seq(Mission) /\ Len(page) \in Nat /\ Len(page) > 0
           /\ DOMAIN page = 1..Len(page)
           /\ \A i \in 1..Len(page) : page[i] \in Changed(since) /\ page[i] \in Mission
           /\ \A i, j \in 1..Len(page) : i < j => After(StampOf(page[j]), StampOf(page[i]))
           /\ \A m \in Changed(since) :
                 \/ \E i \in 1..Len(page) : page[i] = m
                 \/ After(StampOf(m), StampOf(page[Len(page)]))
<1>1. PICK n \in 1..PageSize : page \in [1..n -> Changed(since)]
  BY DEF Pages
<1>2. Changed(since) \subseteq Mission
  BY DEF Changed
<1>3. n \in Nat /\ n > 0 /\ page \in [1..n -> Mission]
  BY <1>1, <1>2, MissionEventsAssumption
<1>4. page \in Seq(Mission) /\ Len(page) = n /\ DOMAIN page = 1..n
  BY <1>3
<1>5. ASSUME NEW m \in Mission, NEW o \in Mission, m # o, ~After(StampOf(m), StampOf(o))
      PROVE  After(StampOf(o), StampOf(m))
  <2>1. \A x \in Mission : StampOf(x) \in Nat \X Nat /\ StampOf(x)[2] = x
    BY StampsAreNumbers DEF TypeOK, StampOf
  <2> QED
    BY <1>5, <2>1, AfterIsOrder
<1>6. \A i, j \in 1..n : i < j => After(StampOf(page[j]), StampOf(page[i]))
  BY <1>2, <1>3, <1>4, <1>5 DEF Pages
<1>7. ASSUME NEW m \in Changed(since), \A i \in 1..n : page[i] # m
      PROVE  After(StampOf(m), StampOf(page[n]))
  <2>1. n \in 1..n /\ m # page[n] /\ page[n] \in Mission /\ m \in Mission
    BY <1>2, <1>3, <1>7
  <2>2. ~After(StampOf(page[n]), StampOf(m))
    BY <1>4, <1>7 DEF Pages
  <2> QED
    BY <1>5, <2>1, <2>2
<1> QED
  BY <1>1, <1>2, <1>3, <1>4, <1>6, <1>7

\* What a poll sends.
Sending(page) ==
    [i \in 1..Len(page) |->
        [mission |-> page[i], version |-> row[page[i]].version, at |-> row[page[i]].at]]

LEMMA SendingFacts ==
    ASSUME TypeOK, NEW since, NEW page \in Pages(since)
    PROVE  /\ Sending(page) \in Seq(Frame) /\ Len(Sending(page)) = Len(page)
           /\ \A i \in 1..Len(page) :
                 Sending(page)[i] = [mission |-> page[i], version |-> row[page[i]].version,
                                     at |-> row[page[i]].at]
<1>1. Len(page) \in Nat /\ \A i \in 1..Len(page) : page[i] \in Mission
  BY PageFacts
<1>2. \A m \in Mission : row[m].version \in Nat /\ row[m].at \in Nat
  BY DEF TypeOK
<1>3. Sending(page) \in [1..Len(page) -> Frame]
  BY <1>1, <1>2 DEF Sending, Frame
<1> QED
  BY <1>1, <1>3 DEF Sending

LEMMA AppendedFacts ==
    ASSUME TypeOK, NEW more \in Seq(Frame)
    PROVE  /\ frames \o more \in Seq(Frame)
           /\ Len(frames) \in Nat /\ Len(more) \in Nat
           /\ DOMAIN frames = 1..Len(frames)
           /\ DOMAIN (frames \o more) = 1..(Len(frames) + Len(more))
           /\ \A i \in 1..Len(frames) : (frames \o more)[i] = frames[i]
           /\ \A i \in (Len(frames) + 1)..(Len(frames) + Len(more)) :
                 (frames \o more)[i] = more[i - Len(frames)]
<1>1. frames \in Seq(Frame)
  BY DEF TypeOK, Frame
<1> QED
  BY <1>1

LEMMA TailFacts ==
    ASSUME TypeOK, frames # <<>>
    PROVE  /\ Head(frames) = frames[1] /\ 1 \in DOMAIN frames /\ frames[1] \in Frame
           /\ Tail(frames) \in Seq(Frame)
           /\ \A i \in DOMAIN Tail(frames) :
                 i \in Nat /\ i > 0 /\ i + 1 \in DOMAIN frames /\ Tail(frames)[i] = frames[i + 1]
           /\ \A i \in DOMAIN frames : i = 1 \/ i - 1 \in DOMAIN Tail(frames)
<1>1. frames \in Seq(Frame)
  BY DEF TypeOK, Frame
<1>2. /\ Head(frames) = frames[1] /\ Len(frames) \in Nat /\ Len(frames) > 0
      /\ DOMAIN frames = 1..Len(frames) /\ frames[1] \in Frame
  BY <1>1
<1>3. /\ Tail(frames) \in Seq(Frame) /\ Len(Tail(frames)) = Len(frames) - 1
      /\ \A i \in 1..Len(Tail(frames)) : Tail(frames)[i] = frames[i + 1]
  BY <1>1, HeadTailProperties
<1>4. DOMAIN Tail(frames) = 1..(Len(frames) - 1)
  BY <1>3
<1> QED
  BY <1>2, <1>3, <1>4

-----------------------------------------------------------------------------
(* Types.                                                                  *)

View == [mission : Mission, version : Nat, stale : BOOLEAN]
Target == [mission : Mission, retain : BOOLEAN]
Boot == [phase : {"asked", "read", "done", "failed"},
         mission : Mission \cup {0}, cursor : Stamp, switched : BOOLEAN]

\* Every action of the panel is made of these.
LEMMA PanelTypes ==
    ASSUME TypeOK
    PROVE  /\ \A m \in Mission, v \in Nat : Accepted(m, v) \in View
           /\ Stale \in {None} \cup View
           /\ lost \in [Mission -> Nat] /\ RefreshLost \in [Mission -> Nat]
           /\ SwitchDue \subseteq Timer
           /\ \A m \in Mission : row[m].version \in Nat /\ row[m].at \in Nat
<1>1. view \in {None} \cup View
  BY DEF TypeOK, View
<1>2. 0 \notin Mission
  BY MissionEventsAssumption
<1>3. \A m \in Mission, v \in Nat : Accepted(m, v) \in View
  BY <1>1, <1>2 DEF Accepted, View, None
<1>4. Stale \in {None} \cup View
  BY <1>1 DEF Stale, View
<1>5. \A m \in Mission : hinted[m] \in Nat /\ lost[m] \in Nat
  BY DEF TypeOK
<1>6. RefreshLost \in [Mission -> Nat]
  <2>1. CASE refresh = None \/ view.mission # refresh.mission
    BY <2>1 DEF TypeOK, RefreshLost
  <2>2. CASE refresh # None /\ view.mission = refresh.mission
    <3>1. view.mission \in Mission
      BY <2>2 DEF TypeOK
    <3> QED
      BY <2>2, <3>1, <1>5 DEF TypeOK, RefreshLost, Latest
  <2> QED
    BY <2>1, <2>2
<1> QED
  BY <1>3, <1>4, <1>6 DEF SwitchDue, Timer, TypeOK

LEMMA UsesType ==
    ASSUME TypeOK, NEW x \in {"changes", "switches", "faults"}, NEW max, Uses(x, max)
    PROVE  used' \in [{"changes", "switches", "faults"} -> Nat]
  BY DEF TypeOK, Uses

LEMMA SwitchTypes ==
    ASSUME TypeOK, NEW target \in Target, StartSwitch(target)
    PROVE  /\ switch' \in {None} \cup [mission : Mission, retain : BOOLEAN, read : Nat]
           /\ pending' \in {None} \cup Target
           /\ refresh' \in {None} \cup [mission : Mission, read : Nat]
           /\ lost' \in [Mission -> Nat]
  BY PanelTypes DEF StartSwitch, Target

LEMMA InitType == Init => TypeOK
<1> SUFFICES ASSUME Init PROVE TypeOK
  OBVIOUS
<1>1. <<0, 0>> \in Stamp
  BY DEF Stamp
<1>2. row \in [Mission -> [version : Nat, at : Nat]]
  BY DEF Init
<1>3. /\ clock \in Nat /\ open \subseteq [mission : Mission, at : Nat]
      /\ boot \in [phase : {"asked", "read", "done", "failed"},
                   mission : Mission \cup {0}, cursor : Stamp, switched : BOOLEAN]
      /\ stream \in {"none", "connecting", "open", "ended"} /\ {sent, cursor} \subseteq Stamp
  BY <1>1 DEF Init
<1>4. frames \in Seq([mission : Mission, version : Nat, at : Nat])
  BY DEF Init
<1>5. /\ timers \subseteq Timer /\ {hinted, lost} \subseteq [Mission -> Nat]
      /\ used \in [{"changes", "switches", "faults"} -> Nat]
  BY DEF Init
<1> QED
  BY <1>2, <1>3, <1>4, <1>5 DEF TypeOK, Init

\* The types in three parts, of which most actions keep two.
BooksType ==
    /\ clock \in Nat
    /\ open \subseteq [mission : Mission, at : Nat]
    /\ row \in [Mission -> [version : Nat, at : Nat]]
    /\ used \in [{"changes", "switches", "faults"} -> Nat]
WireType ==
    /\ boot \in Boot
    /\ stream \in {"none", "connecting", "open", "ended"}
    /\ {sent, cursor} \subseteq Stamp
    /\ frames \in Seq(Frame)
    /\ hinted \in [Mission -> Nat]
PanelType ==
    /\ view \in {None} \cup View
    /\ switch \in {None} \cup [mission : Mission, retain : BOOLEAN, read : Nat]
    /\ pending \in {None} \cup Target
    /\ refresh \in {None} \cup [mission : Mission, read : Nat]
    /\ timers \subseteq Timer
    /\ lost \in [Mission -> Nat]

LEMMA TypeParts ==
    /\ TypeOK => BooksType /\ WireType /\ PanelType
    /\ BooksType' /\ WireType' /\ PanelType' => TypeOK'
  BY DEF TypeOK, BooksType, WireType, PanelType, Boot, View, Target, Frame

LEMMA PartsKept ==
    /\ BooksType /\ UNCHANGED <<database, used>> => BooksType'
    /\ WireType /\ UNCHANGED <<boot, wire, hinted>> => WireType'
    /\ PanelType /\ UNCHANGED panel => PanelType'
  BY DEF BooksType, WireType, PanelType, database, wire, panel

LEMMA TypeStep == TypeOK /\ [Next]_vars => TypeOK'
<1> SUFFICES ASSUME TypeOK, [Next]_vars PROVE TypeOK'
  OBVIOUS
<1> USE DEF database, wire, panel
<1>1. ASSUME NEW m \in Mission, Begin(m) PROVE TypeOK'
  <2>1. used' \in [{"changes", "switches", "faults"} -> Nat]
    BY <1>1, UsesType DEF Begin
  <2>2. PICK at \in {clock, clock + 1} :
           clock' = at /\ open' = open \cup {[mission |-> m, at |-> at]}
    BY <1>1 DEF Begin
  <2>3. at \in Nat
    BY DEF TypeOK
  <2>4. BooksType'
    BY <1>1, <2>1, <2>2, <2>3, TypeParts DEF BooksType, Begin
  <2> QED
    BY <1>1, <2>4, TypeParts, PartsKept DEF Begin
<1>2. ASSUME NEW t \in open, Commit(t) PROVE TypeOK'
  <2>1. t.mission \in Mission /\ t.at \in Nat
    BY DEF TypeOK
  <2>2. row' \in [Mission -> [version : Nat, at : Nat]]
    BY <1>2, <2>1 DEF TypeOK, Commit
  <2>3. lost' \in [Mission -> Nat]
    BY <1>2, <2>1, PanelTypes DEF Commit
  <2>4. BooksType' /\ PanelType'
    BY <1>2, <2>2, <2>3, TypeParts DEF BooksType, PanelType, Commit
  <2> QED
    BY <1>2, <2>4, TypeParts, PartsKept DEF Commit
<1>3. ASSUME NEW m \in Mission, NEW retain \in BOOLEAN, UserSwitch(m, retain) PROVE TypeOK'
  <2>1. used' \in [{"changes", "switches", "faults"} -> Nat]
    BY <1>3, UsesType DEF UserSwitch
  <2>2. [mission |-> m, retain |-> retain] \in Target
    BY DEF Target
  <2>3. boot' \in Boot
    BY <1>3 DEF TypeOK, UserSwitch, Boot
  <2> QED
    BY <1>3, <2>1, <2>2, <2>3, SwitchTypes DEF TypeOK, UserSwitch, Boot, Target
<1>4. ASSUME SwitchRead PROVE TypeOK'
  <2>1. switch' \in [mission : Mission, retain : BOOLEAN, read : Nat]
    BY <1>4, PanelTypes, TypeParts DEF PanelType, SwitchRead
  <2>2. PanelType'
    BY <1>4, <2>1, TypeParts DEF PanelType, SwitchRead
  <2> QED
    BY <1>4, <2>2, TypeParts, PartsKept DEF SwitchRead
<1>5. ASSUME SwitchArrives PROVE TypeOK'
  <2>1. switch.mission \in Mission /\ switch.read \in Nat
    BY <1>5 DEF TypeOK, SwitchArrives
  <2>2. view' \in View
    BY <1>5, <2>1, PanelTypes DEF SwitchArrives
  <2> QED
    BY <1>5, <2>2 DEF TypeOK, SwitchArrives, View
<1>6. ASSUME SwitchFails PROVE TypeOK'
  <2>1. used' \in [{"changes", "switches", "faults"} -> Nat]
    BY <1>6, UsesType DEF SwitchFails
  <2> QED
    BY <1>6, <2>1 DEF TypeOK, SwitchFails
<1>7. ASSUME StartRefresh PROVE TypeOK'
  <2>1. refresh' \in {None} \cup [mission : Mission, read : Nat]
    BY <1>7, TypeParts DEF PanelType, StartRefresh, View
  <2>2. PanelType'
    BY <1>7, <2>1, TypeParts DEF PanelType, StartRefresh
  <2> QED
    BY <1>7, <2>2, TypeParts, PartsKept DEF StartRefresh
<1>8. ASSUME RetrySwitch PROVE TypeOK'
  <2>1. CASE pending = None
    <3>1. PanelType'
      BY <1>8, <2>1, TypeParts DEF PanelType, RetrySwitch
    <3> QED
      BY <1>8, <3>1, TypeParts, PartsKept DEF RetrySwitch
  <2>2. CASE pending # None
    <3>1. pending \in Target /\ StartSwitch(pending)
      BY <1>8, <2>2, TypeParts DEF PanelType, RetrySwitch
    <3>2. PanelType'
      BY <1>8, <3>1, SwitchTypes, TypeParts DEF PanelType, RetrySwitch
    <3> QED
      BY <1>8, <3>2, TypeParts, PartsKept DEF RetrySwitch
  <2> QED
    BY <2>1, <2>2
<1>9. ASSUME RefreshRead PROVE TypeOK'
  <2>1. refresh' \in [mission : Mission, read : Nat]
    BY <1>9, PanelTypes, TypeParts DEF PanelType, RefreshRead
  <2>2. PanelType'
    BY <1>9, <2>1, TypeParts DEF PanelType, RefreshRead
  <2> QED
    BY <1>9, <2>2, TypeParts, PartsKept DEF RefreshRead
<1>10. ASSUME RefreshArrives PROVE TypeOK'
  <2>1. refresh.mission \in Mission /\ refresh.read \in Nat
    BY <1>10 DEF TypeOK, RefreshArrives
  <2>2. view' \in {None} \cup View
    BY <1>10, <2>1, PanelTypes DEF TypeOK, RefreshArrives, View
  <2> QED
    BY <1>10, <2>2 DEF TypeOK, RefreshArrives, View
<1>11. ASSUME RefreshFails PROVE TypeOK'
  <2>1. used' \in [{"changes", "switches", "faults"} -> Nat]
    BY <1>11, UsesType DEF RefreshFails
  <2>2. view' \in {None} \cup View /\ lost' \in [Mission -> Nat]
    BY <1>11, PanelTypes DEF TypeOK, RefreshFails, View
  <2> QED
    BY <1>11, <2>1, <2>2 DEF TypeOK, RefreshFails, View
<1>12. ASSUME SummaryRead PROVE TypeOK'
  <2>1. hinted' \in [Mission -> Nat] /\ lost' \in [Mission -> Nat]
    BY <1>12, PanelTypes DEF SummaryRead
  <2>2. \A m \in Changed(<<0, 0>>) : m \in Mission /\ StampOf(m) \in Stamp
    BY PanelTypes, StampsAreNumbers DEF Changed, StampOf
  <2>3. boot' \in Boot
    <3>1. CASE boot' = [boot EXCEPT !.phase = "read"]
      BY <3>1 DEF TypeOK, Boot
    <3>2. ASSUME NEW m \in Changed(<<0, 0>>),
                 boot' = [boot EXCEPT !.phase = "read", !.mission = m, !.cursor = StampOf(m)]
          PROVE  boot' \in Boot
      <4>1. m \in Mission \cup {0} /\ StampOf(m) \in Stamp
        BY <2>2
      <4> HIDE DEF StampOf
      <4> QED
        BY <3>2, <4>1 DEF TypeOK, Boot
    <3> QED
      BY <1>12, <3>1, <3>2 DEF SummaryRead
  <2> QED
    BY <1>12, <2>1, <2>3 DEF TypeOK, SummaryRead, Boot
<1>13. ASSUME SummaryArrives PROVE TypeOK'
  <2>1. /\ boot' \in Boot
        /\ cursor' \in Stamp
    BY <1>13 DEF TypeOK, SummaryArrives, Boot
  <2>2. CASE boot.switched \/ boot.mission = 0
    BY <1>13, <2>1, <2>2 DEF TypeOK, SummaryArrives, Boot
  <2>3. CASE ~(boot.switched \/ boot.mission = 0)
    <3>1. [mission |-> boot.mission, retain |-> TRUE] \in Target
      BY <2>3 DEF TypeOK, Target
    <3> QED
      BY <1>13, <2>1, <2>3, <3>1, SwitchTypes DEF TypeOK, SummaryArrives, Boot, Target
  <2> QED
    BY <2>2, <2>3
<1>14. ASSUME SummaryFails PROVE TypeOK'
  <2>1. used' \in [{"changes", "switches", "faults"} -> Nat]
    BY <1>14, UsesType DEF SummaryFails
  <2>2. boot' \in Boot
    BY <1>14 DEF TypeOK, SummaryFails, Boot
  <2> QED
    BY <1>14, <2>1, <2>2 DEF TypeOK, SummaryFails, Boot
<1>15. ASSUME Connect PROVE TypeOK'
  BY <1>15 DEF TypeOK, Connect
<1>16. ASSUME Poll PROVE TypeOK'
  <2>1. PICK page \in Pages(sent) :
           /\ sent' = StampOf(page[Len(page)])
           /\ frames' = frames \o Sending(page)
    BY <1>16 DEF Poll, Sending
  <2>2. page[Len(page)] \in Mission
    BY PageFacts
  <2>3. sent' \in Stamp
    BY <2>1, <2>2, PanelTypes, StampsAreNumbers DEF StampOf
  <2>4. frames' \in Seq(Frame)
    BY <2>1, SendingFacts, AppendedFacts
  <2> QED
    BY <1>16, <2>3, <2>4 DEF TypeOK, Poll, Frame
<1>17. ASSUME Deliver PROVE TypeOK'
  <2> DEFINE e == Head(frames)
  <2>1. e \in Frame /\ Tail(frames) \in Seq(Frame)
    BY <1>17, TailFacts DEF Deliver
  <2>2. cursor' \in Stamp /\ hinted' \in [Mission -> Nat] /\ frames' \in Seq(Frame)
    BY <1>17, <2>1, StampsAreNumbers DEF TypeOK, Deliver, Frame
  <2>3. /\ timers' \subseteq Timer
        /\ pending' \in {None} \cup Target
        /\ lost' \in [Mission -> Nat]
    <3>1. Hint(e)
      BY <1>17 DEF Deliver
    <3>2. [lost EXCEPT ![e.mission] = Latest(@, e.version)] \in [Mission -> Nat]
      BY <2>1, PanelTypes DEF Latest, Frame
    <3>3. [mission |-> e.mission, retain |-> TRUE] \in Target
      BY <2>1 DEF Frame, Target
    <3>4. timers \subseteq Timer /\ pending \in {None} \cup Target /\ SwitchDue \subseteq Timer
      BY PanelTypes DEF TypeOK, Target
    <3> HIDE DEF e
    <3> QED
      BY <3>1, <3>2, <3>3, <3>4, PanelTypes DEF Hint, Timer
  <2> QED
    BY <1>17, <2>2, <2>3 DEF TypeOK, Deliver, Frame, Target
<1>18. ASSUME Break PROVE TypeOK'
  <2>1. used' \in [{"changes", "switches", "faults"} -> Nat]
    BY <1>18, UsesType DEF Break
  <2>2. timers' \subseteq Timer
    BY <1>18, PanelTypes DEF TypeOK, Break, Timer
  <2>3. frames' \in Seq([mission : Mission, version : Nat, at : Nat])
    BY <1>18 DEF Break
  <2> QED
    BY <1>18, <2>1, <2>2, <2>3 DEF TypeOK, Break
<1>19. ASSUME Refused PROVE TypeOK'
  <2>1. used' \in [{"changes", "switches", "faults"} -> Nat]
    BY <1>19, UsesType DEF Refused
  <2>2. view' \in {None} \cup View
    BY <1>19, PanelTypes DEF Refused
  <2> QED
    BY <1>19, <2>1, <2>2 DEF TypeOK, Refused, View
<1>20. CASE UNCHANGED vars
  BY <1>20 DEF TypeOK, vars
<1> QED
  BY <1>1, <1>2, <1>3, <1>4, <1>5, <1>6, <1>7, <1>8, <1>9, <1>10, <1>11, <1>12, <1>13,
     <1>14, <1>15, <1>16, <1>17, <1>18, <1>19, <1>20 DEF Next

\* Every state has its types.
THEOREM TypeCorrect == Spec => []TypeOK
<1>1. Init => TypeOK
  BY InitType
<1>2. TypeOK /\ [Next]_vars => TypeOK'
  BY TypeStep
<1> QED
  BY <1>1, <1>2, PTL DEF Spec

-----------------------------------------------------------------------------
(* The view.                                                               *)

LEMMA AcceptedFacts ==
    ASSUME TypeOK, NEW m \in Mission, NEW v \in Nat
    PROVE  /\ Accepted(m, v).mission = m
           /\ Accepted(m, v).version \in Nat /\ Accepted(m, v).version >= v
           /\ Accepted(m, v) # None
           /\ view.mission = m => /\ Accepted(m, v).version >= view.version
                                  /\ Accepted(m, v).version \in {v, view.version}
           /\ view.mission # m => Accepted(m, v).version = v
<1>1. view \in {None} \cup View /\ m # 0 /\ None.mission = 0
  BY StampsAreNumbers DEF TypeOK, View, None
<1> QED
  BY <1>1 DEF Accepted, View

LEMMA StaleFacts ==
    ASSUME TypeOK
    PROVE  /\ Stale = None <=> view = None
           /\ Stale.mission = view.mission
           /\ view # None => Stale.version = view.version
<1>1. view \in {None} \cup View /\ None.mission = 0 /\ 0 \notin Mission
  BY StampsAreNumbers DEF TypeOK, View, None
<1> QED
  BY <1>1 DEF Stale, View

\* The view changes by an answer or by a mark that it is stale.
LEMMA ViewSteps ==
    ASSUME TypeOK, [Next]_vars
    PROVE  \/ view' = view
           \/ view' = Stale
           \/ SwitchArrives
           \/ RefreshArrives /\ view.mission = refresh.mission
<1> USE DEF database, wire, panel
<1>1. ASSUME NEW m \in Mission, Begin(m) PROVE view' = view
  BY <1>1 DEF Begin
<1>2. ASSUME NEW t \in open, Commit(t) PROVE view' = view
  BY <1>2 DEF Commit
<1>3. ASSUME NEW m \in Mission, NEW retain \in BOOLEAN, UserSwitch(m, retain)
      PROVE  view' = view
  BY <1>3 DEF UserSwitch
<1>4. SwitchRead \/ SwitchFails \/ StartRefresh \/ RetrySwitch \/ RefreshRead => view' = view
  BY DEF SwitchRead, SwitchFails, StartRefresh, RetrySwitch, RefreshRead
<1>5. SummaryRead \/ SummaryArrives \/ SummaryFails \/ Connect => view' = view
  BY DEF SummaryRead, SummaryArrives, SummaryFails, Connect
<1>6. Poll \/ Deliver \/ Break => view' = view
  BY DEF Poll, Deliver, Break
<1>7. RefreshArrives => view' = view \/ view.mission = refresh.mission
  BY DEF RefreshArrives
<1>8. RefreshFails \/ Refused => view' \in {view, Stale}
  BY DEF RefreshFails, Refused
<1>9. UNCHANGED vars => view' = view
  BY DEF vars
<1> QED
  BY <1>1, <1>2, <1>3, <1>4, <1>5, <1>6, <1>7, <1>8, <1>9 DEF Next

\* A response that was overtaken never takes the Mission shown back.
THEOREM ViewOnlyAdvances == Spec => ViewNeverGoesBack
<1>1. ASSUME TypeOK, [Next]_vars, view # None, view'.mission = view.mission
      PROVE  view'.version >= view.version
  <2>1. view.version \in Nat
    BY <1>1 DEF TypeOK
  <2>2. CASE view' = view
    BY <2>1, <2>2
  <2>3. CASE view' = Stale
    BY <1>1, <2>1, <2>3, StaleFacts
  <2>4. CASE SwitchArrives
    <3>1. switch.mission \in Mission /\ switch.read \in Nat
      BY <1>1, <2>4 DEF TypeOK, SwitchArrives
    <3> QED
      BY <1>1, <2>4, <3>1, AcceptedFacts DEF SwitchArrives
  <2>5. CASE RefreshArrives /\ view.mission = refresh.mission
    <3>1. refresh.mission \in Mission /\ refresh.read \in Nat
      BY <1>1, <2>5 DEF TypeOK, RefreshArrives
    <3> QED
      BY <1>1, <2>5, <3>1, AcceptedFacts DEF RefreshArrives
  <2> QED
    BY <1>1, <2>2, <2>3, <2>4, <2>5, ViewSteps
<1>2. TypeOK /\ [Next]_vars
      => [view # None /\ view'.mission = view.mission => view'.version >= view.version]_vars
  <2> SUFFICES ASSUME TypeOK, [Next]_vars
               PROVE [view # None /\ view'.mission = view.mission
                         => view'.version >= view.version]_vars
    OBVIOUS
  <2> QED
    BY <1>1
<1> QED
  BY <1>2, TypeCorrect, PTL DEF Spec, ViewNeverGoesBack

-----------------------------------------------------------------------------
(* What the browser knows.                                                 *)

LEMMA VersionTypes ==
    ASSUME TypeOK
    PROVE  /\ \A m \in Mission : row[m].version \in Nat /\ hinted[m] \in Nat /\ lost[m] \in Nat
           /\ view # None => view.mission \in Mission /\ view.version \in Nat
           /\ switch # None => switch.mission \in Mission /\ switch.read \in Nat
           /\ refresh # None => refresh.mission \in Mission /\ refresh.read \in Nat
           /\ None.mission \notin Mission
  BY StampsAreNumbers DEF TypeOK, None

LEMMA RefreshLostFacts ==
    ASSUME TypeOK, KnownInv
    PROVE  /\ \A m \in Mission : /\ RefreshLost[m] \in Nat
                                 /\ lost[m] <= RefreshLost[m]
                                 /\ RefreshLost[m] <= row[m].version
           /\ refresh # None /\ view.mission = refresh.mission =>
                 hinted[view.mission] <= RefreshLost[view.mission]
<1>1. CASE refresh = None \/ view.mission # refresh.mission
  BY <1>1, VersionTypes DEF RefreshLost, KnownInv
<1>2. CASE refresh # None /\ view.mission = refresh.mission
  <2> DEFINE m == view.mission
  <2>1. m \in Mission
    BY <1>2, VersionTypes
  <2>2. RefreshLost = [lost EXCEPT ![m] = Latest(lost[m], hinted[m])]
    BY <1>2 DEF RefreshLost
  <2>3. /\ RefreshLost[m] = Latest(lost[m], hinted[m])
        /\ \A o \in Mission \ {m} : RefreshLost[o] = lost[o]
    BY <2>1, <2>2 DEF TypeOK
  <2> QED
    BY <2>1, <2>3, VersionTypes DEF KnownInv, Latest
<1> QED
  BY <1>1, <1>2

LEMMA CommitFacts ==
    ASSUME TypeOK, NEW t \in open, Commit(t)
    PROVE  /\ t.mission \in Mission /\ t.at \in Nat
           /\ row'[t.mission].version = row[t.mission].version + 1
           /\ row'[t.mission].at = t.at
           /\ \A m \in Mission \ {t.mission} : row'[m] = row[m] /\ lost'[m] = lost[m]
           /\ \/ /\ boot.phase = "asked" \/ After(<<t.at, t.mission>>, Watermark)
                 /\ lost' = lost
              \/ lost'[t.mission] = row[t.mission].version + 1
<1>1. t.mission \in Mission /\ t.at \in Nat
  BY DEF TypeOK
<1> QED
  BY <1>1 DEF TypeOK, Commit

LEMMA RowSteps ==
    ASSUME TypeOK, [Next]_vars
    PROVE  row' = row \/ \E t \in open : Commit(t)
<1> USE DEF database, wire, panel
<1>1. ASSUME NEW m \in Mission, Begin(m) PROVE row' = row
  BY <1>1 DEF Begin
<1>2. ASSUME NEW m \in Mission, NEW retain \in BOOLEAN, UserSwitch(m, retain)
      PROVE  row' = row
  BY <1>2 DEF UserSwitch
<1>3. SwitchRead \/ SwitchArrives \/ SwitchFails \/ StartRefresh \/ RetrySwitch => row' = row
  BY DEF SwitchRead, SwitchArrives, SwitchFails, StartRefresh, RetrySwitch
<1>4. RefreshRead \/ RefreshArrives \/ RefreshFails => row' = row
  BY DEF RefreshRead, RefreshArrives, RefreshFails
<1>5. SummaryRead \/ SummaryArrives \/ SummaryFails \/ Connect => row' = row
  BY DEF SummaryRead, SummaryArrives, SummaryFails, Connect
<1>6. Poll \/ Deliver \/ Break \/ Refused => row' = row
  BY DEF Poll, Deliver, Break, Refused
<1>7. UNCHANGED vars => row' = row
  BY DEF vars
<1> QED
  BY <1>1, <1>2, <1>3, <1>4, <1>5, <1>6, <1>7 DEF Next

LEMMA RowGrows ==
    ASSUME TypeOK, [Next]_vars, NEW m \in Mission
    PROVE  row[m].version <= row'[m].version
<1>1. ASSUME NEW t \in open, Commit(t) PROVE row[m].version <= row'[m].version
  <2>1. row[m].version \in Nat
    BY VersionTypes
  <2>2. /\ row'[t.mission].version = row[t.mission].version + 1
        /\ \A n \in Mission \ {t.mission} : row'[n] = row[n]
    BY <1>1, CommitFacts
  <2>3. CASE m = t.mission
    BY <2>1, <2>2, <2>3
  <2>4. CASE m # t.mission
    BY <2>1, <2>2, <2>4
  <2> QED
    BY <2>3, <2>4
<1> QED
  BY <1>1, RowSteps, VersionTypes

\* Where the fetches and the hints may be changed.
LEMMA FetchSteps ==
    ASSUME TypeOK, [Next]_vars
    PROVE  /\ \/ switch' \in {switch, None}
              \/ switch'.read = 0
              \/ SwitchRead
           /\ \/ refresh' \in {refresh, None}
              \/ refresh'.read = 0
              \/ RefreshRead
           /\ \/ hinted' = hinted
              \/ SummaryRead
              \/ Deliver
<1> DEFINE Fetches == /\ \/ switch' \in {switch, None}
                         \/ switch'.read = 0
                         \/ SwitchRead
                      /\ \/ refresh' \in {refresh, None}
                         \/ refresh'.read = 0
                         \/ RefreshRead
                      /\ \/ hinted' = hinted
                         \/ SummaryRead
                         \/ Deliver
<1> USE DEF database, wire, panel
<1>1. ASSUME NEW m \in Mission, Begin(m) PROVE Fetches
  BY <1>1 DEF Begin
<1>2. ASSUME NEW t \in open, Commit(t) PROVE Fetches
  BY <1>2 DEF Commit
<1>3. ASSUME NEW m \in Mission, NEW retain \in BOOLEAN, UserSwitch(m, retain)
      PROVE  Fetches
  BY <1>3 DEF UserSwitch, StartSwitch
<1>4. SwitchRead \/ SwitchArrives \/ SwitchFails => Fetches
  BY DEF SwitchRead, SwitchArrives, SwitchFails
<1>5. StartRefresh => Fetches
  BY DEF StartRefresh
<1>6. RetrySwitch => Fetches
  BY DEF RetrySwitch, StartSwitch
<1>7. RefreshRead \/ RefreshArrives \/ RefreshFails => Fetches
  BY DEF RefreshRead, RefreshArrives, RefreshFails
<1>8. SummaryArrives => Fetches
  BY DEF SummaryArrives, StartSwitch
<1>9. SummaryRead \/ SummaryFails \/ Connect \/ Poll => Fetches
  BY DEF SummaryRead, SummaryFails, Connect, Poll
<1>10. Deliver \/ Break \/ Refused => Fetches
  BY DEF Deliver, Break, Refused
<1>11. UNCHANGED vars => Fetches
  BY DEF vars
<1> QED
  BY <1>1, <1>2, <1>3, <1>4, <1>5, <1>6, <1>7, <1>8, <1>9, <1>10, <1>11 DEF Next

\* The hint that is taken.
LEMMA DeliverFacts ==
    ASSUME TypeOK, KnownInv, FrameInv, Deliver
    PROVE  LET e == frames[1]
           IN  /\ e \in Frame /\ 1 \in DOMAIN frames
               /\ cursor' = StampIn(e) /\ Hint(e)
               /\ hinted'[e.mission] = e.version
               /\ \A m \in Mission \ {e.mission} : hinted'[m] = hinted[m] /\ lost'[m] = lost[m]
               /\ hinted[e.mission] <= e.version /\ e.version <= row[e.mission].version
               /\ \/ lost' = lost
                  \/ lost' = [lost EXCEPT ![e.mission] = Latest(@, e.version)]
               /\ lost[e.mission] <= lost'[e.mission]
               /\ lost'[e.mission] <= row[e.mission].version
<1> DEFINE e == frames[1]
<1>1. e \in Frame /\ 1 \in DOMAIN frames /\ Head(frames) = e
  BY TailFacts DEF Deliver
<1>2. cursor' = <<e.at, e.mission>> /\ hinted' = [hinted EXCEPT ![e.mission] = e.version] /\ Hint(e)
  BY <1>1 DEF Deliver
<1>3. e.mission \in Mission /\ e.version \in Nat
  BY <1>1 DEF Frame
<1>4. hinted'[e.mission] = e.version /\ \A m \in Mission \ {e.mission} : hinted'[m] = hinted[m]
  BY <1>2, <1>3 DEF TypeOK
<1>5. hinted[e.mission] <= e.version /\ e.version <= row[e.mission].version
  BY <1>1 DEF FrameInv
<1>6. \/ lost' = lost
      \/ lost' = [lost EXCEPT ![e.mission] = Latest(@, e.version)]
  BY <1>2 DEF Hint
<1>7. /\ \A m \in Mission \ {e.mission} : lost'[m] = lost[m]
      /\ \/ lost'[e.mission] = lost[e.mission]
         \/ lost'[e.mission] = Latest(lost[e.mission], e.version)
  BY <1>3, <1>6 DEF TypeOK
<1>8. lost[e.mission] <= lost'[e.mission] /\ lost'[e.mission] <= row[e.mission].version
  BY <1>3, <1>5, <1>7, VersionTypes DEF KnownInv, Latest
<1> QED
  BY <1>1, <1>2, <1>3, <1>4, <1>5, <1>6, <1>7, <1>8 DEF StampIn

LEMMA LostGrows ==
    ASSUME TypeOK, KnownInv, FrameInv, [Next]_vars, NEW m \in Mission
    PROVE  lost[m] <= lost'[m] /\ lost'[m] <= row'[m].version
<1> USE DEF database, wire, panel
<1> DEFINE Grows == lost[m] <= lost'[m] /\ lost'[m] <= row'[m].version
<1> DEFINE Kept == lost' = lost \/ lost' = RefreshLost
<1>1. lost[m] \in Nat /\ row[m].version \in Nat /\ lost[m] <= row[m].version
  BY VersionTypes DEF KnownInv
<1>2. Kept => Grows
  <2>1. lost'[m] \in Nat /\ row'[m].version \in Nat
    BY TypeStep DEF TypeOK
  <2>2. Kept => lost[m] <= lost'[m] /\ lost'[m] <= row[m].version
    BY <1>1, RefreshLostFacts
  <2> QED
    BY <1>1, <2>1, <2>2, RowGrows
<1>3. ASSUME NEW n \in Mission, Begin(n) PROVE Kept
  BY <1>3 DEF Begin
<1>4. ASSUME NEW t \in open, Commit(t) PROVE Grows
  <2>1. /\ row'[t.mission].version = row[t.mission].version + 1
        /\ \A n \in Mission \ {t.mission} : row'[n] = row[n] /\ lost'[n] = lost[n]
        /\ lost' = lost \/ lost'[t.mission] = row[t.mission].version + 1
    BY <1>4, CommitFacts
  <2>2. CASE m = t.mission
    BY <1>1, <2>1, <2>2
  <2>3. CASE m # t.mission
    BY <1>1, <2>1, <2>3
  <2> QED
    BY <2>2, <2>3
<1>5. ASSUME NEW n \in Mission, NEW retain \in BOOLEAN, UserSwitch(n, retain) PROVE Kept
  BY <1>5 DEF UserSwitch, StartSwitch
<1>6. SwitchRead \/ SwitchArrives \/ SwitchFails \/ StartRefresh => Kept
  BY DEF SwitchRead, SwitchArrives, SwitchFails, StartRefresh
<1>7. RetrySwitch \/ SummaryArrives => Kept
  BY DEF RetrySwitch, SummaryArrives, StartSwitch
<1>8. RefreshRead \/ RefreshArrives \/ RefreshFails => Kept
  BY DEF RefreshRead, RefreshArrives, RefreshFails
<1>9. ASSUME SummaryRead PROVE Grows
  <2>1. lost'[m] \in {row[m].version, lost[m]} /\ row' = row
    BY <1>9 DEF SummaryRead
  <2> QED
    BY <1>1, <2>1
<1>10. SummaryFails \/ Connect \/ Poll \/ Break \/ Refused => Kept
  BY DEF SummaryFails, Connect, Poll, Break, Refused
<1>11. ASSUME Deliver PROVE Grows
  <2>1. row' = row
    BY <1>11 DEF Deliver
  <2> QED
    BY <1>1, <1>11, <2>1, DeliverFacts
<1>12. UNCHANGED vars => Kept
  BY DEF vars
<1> HIDE DEF Grows, Kept
<1>13. Grows
  BY <1>2, <1>3, <1>4, <1>5, <1>6, <1>7, <1>8, <1>9, <1>10, <1>11, <1>12 DEF Next
<1> QED
  BY <1>13 DEF Grows

LEMMA KnownStep ==
    ASSUME TypeOK, KnownInv, FrameInv, [Next]_vars
    PROVE  KnownInv'
<1>1. TypeOK' /\ \A m \in Mission : row[m].version <= row'[m].version
  BY TypeStep, RowGrows
<1>2. ASSUME NEW m \in Mission PROVE hinted'[m] <= row'[m].version
  <2>1. /\ row[m].version \in Nat /\ row'[m].version \in Nat /\ row[m].version <= row'[m].version
        /\ hinted[m] \in Nat /\ hinted'[m] \in Nat /\ hinted[m] <= row[m].version
    BY <1>1, VersionTypes DEF TypeOK, KnownInv
  <2>2. CASE hinted' = hinted
    BY <2>1, <2>2
  <2>3. CASE SummaryRead
    BY <2>1, <2>3 DEF SummaryRead
  <2>4. CASE Deliver
    <3>1. hinted'[m] <= row[m].version
      BY <2>1, <2>4, DeliverFacts
    <3> QED
      BY <2>1, <3>1
  <2> QED
    BY <2>2, <2>3, <2>4, FetchSteps
<1>3. ASSUME switch' # None PROVE switch'.read <= row'[switch'.mission].version
  <2>1. /\ switch'.mission \in Mission /\ switch'.read \in Nat
        /\ row'[switch'.mission].version \in Nat
    BY <1>1, <1>3 DEF TypeOK
  <2>2. CASE switch' = switch
    BY <1>1, <1>3, <2>1, <2>2, VersionTypes DEF KnownInv
  <2>3. CASE switch'.read = 0
    BY <2>1, <2>3
  <2>4. CASE SwitchRead
    <3>1. /\ switch'.mission = switch.mission /\ row' = row
          /\ switch'.read = row[switch.mission].version
      BY <2>4 DEF SwitchRead, TypeOK, database
    <3> QED
      BY <2>1, <3>1
  <2> QED
    BY <1>3, <2>2, <2>3, <2>4, FetchSteps
<1>4. ASSUME refresh' # None PROVE refresh'.read <= row'[refresh'.mission].version
  <2>1. /\ refresh'.mission \in Mission /\ refresh'.read \in Nat
        /\ row'[refresh'.mission].version \in Nat
    BY <1>1, <1>4 DEF TypeOK
  <2>2. CASE refresh' = refresh
    BY <1>1, <1>4, <2>1, <2>2, VersionTypes DEF KnownInv
  <2>3. CASE refresh'.read = 0
    BY <2>1, <2>3
  <2>4. CASE RefreshRead
    <3>1. /\ refresh'.mission = refresh.mission /\ row' = row
          /\ refresh'.read = row[refresh.mission].version
      BY <2>4 DEF RefreshRead, TypeOK, database
    <3> QED
      BY <2>1, <3>1
  <2> QED
    BY <1>4, <2>2, <2>3, <2>4, FetchSteps
<1>5. ASSUME view' # None PROVE view'.version <= row'[view'.mission].version
  <2>1. /\ view'.mission \in Mission /\ view'.version \in Nat
        /\ row[view'.mission].version \in Nat /\ row'[view'.mission].version \in Nat
        /\ row[view'.mission].version <= row'[view'.mission].version
    BY <1>1, <1>5, VersionTypes DEF TypeOK
  <2>2. CASE view' = view
    BY <1>5, <2>1, <2>2, VersionTypes DEF KnownInv
  <2>3. CASE view' = Stale
    BY <1>5, <2>1, <2>3, StaleFacts, VersionTypes DEF KnownInv
  <2>4. ASSUME NEW m \in Mission, NEW v \in Nat, v <= row[m].version, view' = Accepted(m, v)
        PROVE  view'.version <= row'[view'.mission].version
    <3>1. view'.mission = m
      BY <2>4, AcceptedFacts
    <3>2. CASE view.mission = m
      <4>1. view # None /\ view.version <= row[m].version
        BY <3>2, VersionTypes DEF KnownInv
      <4> QED
        BY <2>1, <2>4, <3>1, <3>2, <4>1, AcceptedFacts, VersionTypes
    <3>3. CASE view.mission # m
      BY <2>1, <2>4, <3>1, <3>3, AcceptedFacts
    <3> QED
      BY <3>2, <3>3
  <2>5. CASE SwitchArrives
    BY <2>4, <2>5, VersionTypes DEF SwitchArrives, KnownInv
  <2>6. CASE RefreshArrives /\ view.mission = refresh.mission
    BY <2>4, <2>6, VersionTypes DEF RefreshArrives, KnownInv
  <2> QED
    BY <2>2, <2>3, <2>5, <2>6, ViewSteps
<1> QED
  BY <1>2, <1>3, <1>4, <1>5, LostGrows DEF KnownInv

-----------------------------------------------------------------------------
(* The wire.                                                               *)

\* A step that leaves the summary and the stream as they are.
OffWire == UNCHANGED <<wire, hinted, boot.phase, boot.cursor>>

LEMMA WireSteps ==
    ASSUME TypeOK, [Next]_vars
    PROVE  \/ OffWire
           \/ SummaryRead \/ SummaryArrives \/ SummaryFails
           \/ Connect \/ Poll \/ Deliver \/ Break \/ Refused
<1> USE DEF OffWire
<1>1. ASSUME NEW m \in Mission, Begin(m) PROVE OffWire
  BY <1>1 DEF Begin
<1>2. ASSUME NEW t \in open, Commit(t) PROVE OffWire
  BY <1>2 DEF Commit
<1>3. ASSUME NEW m \in Mission, NEW retain \in BOOLEAN, UserSwitch(m, retain) PROVE OffWire
  BY <1>3 DEF UserSwitch, TypeOK
<1>4. SwitchRead \/ SwitchArrives \/ SwitchFails \/ StartRefresh \/ RetrySwitch => OffWire
  BY DEF SwitchRead, SwitchArrives, SwitchFails, StartRefresh, RetrySwitch
<1>5. RefreshRead \/ RefreshArrives \/ RefreshFails => OffWire
  BY DEF RefreshRead, RefreshArrives, RefreshFails
<1>6. UNCHANGED vars => OffWire
  BY DEF vars
<1> QED
  BY <1>1, <1>2, <1>3, <1>4, <1>5, <1>6 DEF Next

LEMMA FrameTypes ==
    ASSUME TypeOK
    PROVE  /\ \A i \in DOMAIN frames : /\ frames[i] \in Frame /\ i \in Nat
                                       /\ frames[i].mission \in Mission
                                       /\ frames[i].version \in Nat /\ frames[i].at \in Nat
                                       /\ StampIn(frames[i]) \in Nat \X Nat
           /\ cursor \in Nat \X Nat /\ sent \in Nat \X Nat
           /\ \A m \in Mission : StampOf(m) \in Nat \X Nat
           /\ DOMAIN <<>> = {}
<1>1. frames \in Seq(Frame)
  BY DEF TypeOK, Frame
<1>2. \A i \in DOMAIN frames : frames[i] \in Frame /\ i \in Nat
  BY <1>1
<1>3. \A i \in DOMAIN frames : /\ frames[i].mission \in Mission
                               /\ frames[i].version \in Nat /\ frames[i].at \in Nat
  BY <1>2 DEF Frame
<1>4. \A i \in DOMAIN frames : StampIn(frames[i]) \in Nat \X Nat
  BY <1>3, StampsAreNumbers DEF StampIn
<1>5. \A m \in Mission : StampOf(m) \in Nat \X Nat
  BY PanelTypes, StampsAreNumbers DEF StampOf
<1> QED
  BY <1>2, <1>3, <1>4, <1>5, StampsAreNumbers DEF TypeOK

\* The stream exists once the summary is there.
PhaseInv ==
    /\ boot.phase = "done" <=> stream # "none"
    /\ stream # "open" => frames = <<>>

LEMMA PhaseStep ==
    ASSUME TypeOK, PhaseInv, [Next]_vars
    PROVE  PhaseInv'
<1> USE DEF PhaseInv, wire
<1>1. CASE OffWire
  BY <1>1 DEF OffWire
<1>2. CASE SummaryRead
  BY <1>2 DEF SummaryRead, TypeOK
<1>3. CASE SummaryArrives
  BY <1>3 DEF SummaryArrives, TypeOK
<1>4. CASE SummaryFails
  BY <1>4 DEF SummaryFails, TypeOK
<1>5. CASE Connect \/ Poll \/ Deliver
  BY <1>5 DEF Connect, Poll, Deliver
<1>6. CASE Break \/ Refused
  BY <1>6 DEF Break, Refused
<1> QED
  BY <1>1, <1>2, <1>3, <1>4, <1>5, <1>6, WireSteps

\* A poll goes on where the stream was.
LEMMA PollFacts ==
    ASSUME TypeOK, Poll
    PROVE  \E page \in Pages(sent) :
              /\ sent' = StampOf(page[Len(page)])
              /\ frames' = frames \o Sending(page)
              /\ Len(page) \in Nat /\ Len(page) > 0
              /\ DOMAIN frames' = 1..(Len(frames) + Len(page)) /\ Len(frames) \in Nat
              /\ DOMAIN frames = 1..Len(frames)
              /\ \A i \in 1..Len(frames) : frames'[i] = frames[i]
              /\ \A i \in (Len(frames) + 1)..(Len(frames) + Len(page)) :
                    LET m == page[i - Len(frames)]
                    IN  /\ i - Len(frames) \in 1..Len(page) /\ m \in Mission
                        /\ frames'[i] = [mission |-> m, version |-> row[m].version,
                                         at |-> row[m].at]
                        /\ StampIn(frames'[i]) = StampOf(m)
<1>1. PICK page \in Pages(sent) :
         sent' = StampOf(page[Len(page)]) /\ frames' = frames \o Sending(page)
  BY DEF Poll, Sending
<1>2. /\ Len(page) \in Nat /\ Len(page) > 0
      /\ \A i \in 1..Len(page) : page[i] \in Mission
  BY PageFacts
<1>3. /\ Sending(page) \in Seq(Frame) /\ Len(Sending(page)) = Len(page)
      /\ \A i \in 1..Len(page) :
            Sending(page)[i] = [mission |-> page[i], version |-> row[page[i]].version,
                                at |-> row[page[i]].at]
  BY SendingFacts
<1>4. /\ Len(frames) \in Nat
      /\ DOMAIN frames = 1..Len(frames)
      /\ DOMAIN frames' = 1..(Len(frames) + Len(page))
      /\ \A i \in 1..Len(frames) : frames'[i] = frames[i]
      /\ \A i \in (Len(frames) + 1)..(Len(frames) + Len(page)) :
            frames'[i] = Sending(page)[i - Len(frames)]
  BY <1>1, <1>3, AppendedFacts
<1>5. ASSUME NEW i \in (Len(frames) + 1)..(Len(frames) + Len(page))
      PROVE  LET m == page[i - Len(frames)]
             IN  /\ i - Len(frames) \in 1..Len(page) /\ m \in Mission
                 /\ frames'[i] = [mission |-> m, version |-> row[m].version, at |-> row[m].at]
                 /\ StampIn(frames'[i]) = StampOf(m)
  <2>1. PICK j \in 1..Len(page) : j = i - Len(frames)
    BY <1>2, <1>4
  <2>2. page[j] \in Mission /\ frames'[i] = Sending(page)[j]
    BY <2>1, <1>2, <1>4
  <2>3. frames'[i] = [mission |-> page[j], version |-> row[page[j]].version,
                      at |-> row[page[j]].at]
    BY <2>2, <1>3
  <2> QED
    BY <2>1, <2>2, <2>3 DEF StampIn, StampOf
<1> QED
  BY <1>1, <1>2, <1>4, <1>5

LEMMA FrameStep ==
    ASSUME TypeOK, KnownInv, StreamInv, [Next]_vars
    PROVE  FrameInv'
<1> DEFINE True(e) == /\ hinted'[e.mission] <= e.version
                      /\ e.version <= row'[e.mission].version
                      /\ e.version = row'[e.mission].version => e.at = row'[e.mission].at
<1> SUFFICES ASSUME NEW i \in DOMAIN frames' PROVE True(frames'[i])
  BY DEF FrameInv
<1> USE DEF wire
<1>1. PhaseInv /\ FrameInv /\ DOMAIN <<>> = {}
  BY FrameTypes DEF StreamInv, PhaseInv
<1>2. ASSUME frames' = frames, row' = row, hinted' = hinted PROVE True(frames'[i])
  BY <1>1, <1>2 DEF FrameInv
<1>3. CASE OffWire
  <2>1. frames' = frames /\ hinted' = hinted
    BY <1>3 DEF OffWire
  <2>2. ASSUME NEW t \in open, Commit(t) PROVE True(frames'[i])
    <3> DEFINE e == frames[i]
    <3>1. /\ e.mission \in Mission /\ e.version \in Nat /\ row[e.mission].version \in Nat
          /\ hinted[e.mission] <= e.version /\ e.version <= row[e.mission].version
          /\ e.version = row[e.mission].version => e.at = row[e.mission].at
      BY <1>1, <2>1, FrameTypes, VersionTypes DEF FrameInv
    <3>2. /\ row'[t.mission].version = row[t.mission].version + 1
          /\ \A n \in Mission \ {t.mission} : row'[n] = row[n]
      BY <2>2, CommitFacts
    <3> HIDE DEF e
    <3>3. True(e)
      <4>1. CASE e.mission = t.mission
        BY <2>1, <3>1, <3>2, <4>1
      <4>2. CASE e.mission # t.mission
        BY <2>1, <3>1, <3>2, <4>2
      <4> QED
        BY <4>1, <4>2
    <3> QED
      BY <2>1, <3>3 DEF e
  <2> QED
    BY <1>2, <2>1, <2>2, RowSteps
<1>4. CASE SummaryRead
  <2>1. frames' = frames /\ frames = <<>>
    BY <1>1, <1>4 DEF SummaryRead, PhaseInv
  <2> QED
    BY <1>1, <2>1
<1>5. CASE SummaryArrives \/ SummaryFails \/ Connect \/ Refused
  BY <1>2, <1>5 DEF SummaryArrives, SummaryFails, Connect, Refused, database
<1>6. CASE Break
  BY <1>1, <1>6 DEF Break
<1>7. CASE Poll
  <2>1. row' = row /\ hinted' = hinted
    BY <1>7 DEF Poll, database
  <2>2. PICK page \in Pages(sent) :
           /\ DOMAIN frames' = 1..(Len(frames) + Len(page))
           /\ Len(frames) \in Nat /\ Len(page) \in Nat /\ DOMAIN frames = 1..Len(frames)
           /\ \A j \in 1..Len(frames) : frames'[j] = frames[j]
           /\ \A j \in (Len(frames) + 1)..(Len(frames) + Len(page)) :
                 /\ page[j - Len(frames)] \in Mission
                 /\ frames'[j] = [mission |-> page[j - Len(frames)],
                                  version |-> row[page[j - Len(frames)]].version,
                                  at |-> row[page[j - Len(frames)]].at]
    BY <1>7, PollFacts
  <2>3. CASE i \in 1..Len(frames)
    <3>1. frames'[i] = frames[i] /\ i \in DOMAIN frames
      BY <2>2, <2>3
    <3> QED
      BY <1>1, <2>1, <3>1 DEF FrameInv
  <2>4. CASE i \in (Len(frames) + 1)..(Len(frames) + Len(page))
    <3>1. PICK m \in Mission :
             frames'[i] = [mission |-> m, version |-> row[m].version, at |-> row[m].at]
      BY <2>2, <2>4
    <3>2. row[m].version \in Nat /\ hinted[m] <= row[m].version
      BY VersionTypes DEF KnownInv
    <3> QED
      BY <2>1, <3>1, <3>2
  <2> QED
    BY <2>2, <2>3, <2>4
<1>8. CASE Deliver
  <2>1. /\ frames' = Tail(frames) /\ frames # <<>> /\ stream = "open" /\ row' = row
    BY <1>8 DEF Deliver, database
  <2>2. /\ 1 \in DOMAIN frames /\ i \in Nat /\ i > 0
        /\ i + 1 \in DOMAIN frames /\ frames'[i] = frames[i + 1]
    BY <2>1, TailFacts
  <2> DEFINE e == frames[i + 1]
             d == frames[1]
  <2>3. /\ e.mission \in Mission /\ e.version \in Nat
        /\ hinted[e.mission] <= e.version /\ e.version <= row[e.mission].version
        /\ e.version = row[e.mission].version => e.at = row[e.mission].at
    BY <1>1, <2>2, FrameTypes DEF FrameInv
  <2>4. d.mission = e.mission => d.version <= e.version
    <3>1. 1 < i + 1
      BY <2>2
    <3> QED
      BY <2>1, <2>2, <3>1 DEF StreamInv, OrderInv
  <2>5. /\ hinted'[d.mission] = d.version
        /\ \A m \in Mission \ {d.mission} : hinted'[m] = hinted[m]
    BY <1>1, <1>8, DeliverFacts
  <2> HIDE DEF e, d
  <2>6. True(e)
    BY <2>1, <2>3, <2>4, <2>5
  <2> QED
    BY <2>2, <2>6 DEF e
<1> QED
  BY <1>3, <1>4, <1>5, <1>6, <1>7, <1>8, WireSteps

LEMMA OrderStep ==
    ASSUME TypeOK, KnownInv, StreamInv, [Next]_vars, stream' = "open"
    PROVE  OrderInv'
<1> USE DEF wire
<1>1. PhaseInv /\ FrameInv /\ DOMAIN <<>> = {}
  BY FrameTypes DEF StreamInv, PhaseInv
<1>2. CASE OffWire \/ SummaryRead \/ SummaryFails
  <2>1. UNCHANGED wire
    BY <1>2 DEF OffWire, SummaryRead, SummaryFails
  <2>2. OrderInv
    BY <2>1 DEF StreamInv
  <2> QED
    BY <2>1, <2>2 DEF OrderInv
<1>3. CASE SummaryArrives \/ Break \/ Refused
  BY <1>3 DEF SummaryArrives, Break, Refused
<1>4. CASE Connect
  <2>1. frames' = <<>> /\ sent' = cursor' /\ cursor' = cursor
    BY <1>1, <1>4 DEF Connect, PhaseInv
  <2> QED
    BY <1>1, <2>1, FrameTypes, AfterIsOrder DEF OrderInv
<1>5. CASE Poll
  <2>1. OrderInv /\ cursor' = cursor
    BY <1>5 DEF Poll, StreamInv
  <2>2. PICK page \in Pages(sent) :
           /\ sent' = StampOf(page[Len(page)])
           /\ Len(page) \in Nat /\ Len(page) > 0
           /\ DOMAIN frames' = 1..(Len(frames) + Len(page)) /\ Len(frames) \in Nat
           /\ DOMAIN frames = 1..Len(frames)
           /\ \A i \in 1..Len(frames) : frames'[i] = frames[i]
           /\ \A i \in (Len(frames) + 1)..(Len(frames) + Len(page)) :
                 LET m == page[i - Len(frames)]
                 IN  /\ i - Len(frames) \in 1..Len(page) /\ m \in Mission
                     /\ frames'[i] = [mission |-> m, version |-> row[m].version,
                                      at |-> row[m].at]
                     /\ StampIn(frames'[i]) = StampOf(m)
    BY <1>5, PollFacts
  <2> DEFINE old == Len(frames)
             last == Len(page)
             S(k) == StampOf(page[k])
  <2>3. /\ \A k \in 1..last : /\ page[k] \in Mission /\ page[k] \in Changed(sent)
                              /\ S(k) \in Nat \X Nat /\ After(S(k), sent)
        /\ \A k, l \in 1..last : k < l => After(S(l), S(k))
    <3>1. \A k \in 1..last : page[k] \in Mission /\ page[k] \in Changed(sent)
      BY PageFacts
    <3>2. \A k \in 1..last : S(k) \in Nat \X Nat
      BY <3>1, FrameTypes
    <3>3. \A k \in 1..last : After(S(k), sent)
      BY <3>1 DEF Changed
    <3>4. \A k, l \in 1..last : k < l => After(S(l), S(k))
      BY PageFacts
    <3> QED
      BY <3>1, <3>2, <3>3, <3>4
  <2>4. /\ cursor \in Nat \X Nat /\ sent \in Nat \X Nat /\ sent' = S(last)
        /\ last \in 1..last /\ last \in Nat /\ old \in Nat
    BY <2>2, FrameTypes
  <2> HIDE DEF S
  <2>5. After(S(last), cursor) /\ ~After(cursor, S(last))
    BY <2>1, <2>3, <2>4, AfterIsOrder DEF OrderInv
  <2>6. ASSUME NEW i \in 1..old
        PROVE  /\ frames'[i] = frames[i] /\ StampIn(frames[i]) \in Nat \X Nat
               /\ After(StampIn(frames[i]), cursor)
               /\ \A k \in 1..last : After(S(k), StampIn(frames[i]))
    <3>1. /\ frames'[i] = frames[i] /\ StampIn(frames[i]) \in Nat \X Nat
          /\ After(StampIn(frames[i]), cursor) /\ ~After(StampIn(frames[i]), sent)
      BY <2>1, <2>2, FrameTypes DEF OrderInv
    <3> QED
      BY <3>1, <2>3, <2>4, AfterIsOrder
  <2>7. ASSUME NEW i \in (old + 1)..(old + last)
        PROVE  /\ i - old \in 1..last /\ StampIn(frames'[i]) = S(i - old)
               /\ After(S(i - old), cursor)
               /\ ~After(S(i - old), S(last))
    <3>1. i - old \in 1..last /\ StampIn(frames'[i]) = S(i - old)
      BY <2>2 DEF S
    <3>2. After(S(i - old), cursor)
      BY <2>1, <2>3, <2>4, <3>1, AfterIsOrder DEF OrderInv
    <3>3. \A k \in 1..last : ~After(S(k), S(last))
      <4>1. ASSUME NEW k \in 1..last PROVE k = last \/ k < last
        BY <2>4
      <4> QED
        BY <2>3, <2>4, <4>1, AfterIsOrder
    <3>4. ~After(S(i - old), S(last))
      BY <3>1, <3>3
    <3> QED
      BY <3>1, <3>2, <3>4
  <2>8. ASSUME NEW i \in DOMAIN frames'
        PROVE  After(StampIn(frames'[i]), cursor') /\ ~After(StampIn(frames'[i]), sent')
    <3>1. CASE i \in 1..old
      BY <2>1, <2>3, <2>4, <2>6, <3>1, AfterIsOrder
    <3>2. CASE i \in (old + 1)..(old + last)
      BY <2>1, <2>4, <2>7, <3>2
    <3> QED
      BY <2>2, <3>1, <3>2
  <2>9. ASSUME NEW i \in DOMAIN frames', NEW j \in DOMAIN frames', i < j
        PROVE  /\ After(StampIn(frames'[j]), StampIn(frames'[i]))
               /\ frames'[i].mission = frames'[j].mission =>
                     frames'[i].version <= frames'[j].version
    <3>1. CASE i \in 1..old /\ j \in 1..old
      BY <2>1, <2>2, <2>6, <2>9, <3>1 DEF OrderInv
    <3>2. CASE i \in 1..old /\ j \in (old + 1)..(old + last)
      <4>1. After(StampIn(frames'[j]), StampIn(frames'[i]))
        BY <2>6, <2>7, <3>2
      <4>2. frames'[i].mission = frames'[j].mission =>
               frames'[i].version <= frames'[j].version
        <5>1. PICK m \in Mission :
                 frames'[j] = [mission |-> m, version |-> row[m].version, at |-> row[m].at]
          BY <2>2, <3>2
        <5>2. frames'[i] = frames[i] /\ frames[i].version <= row[frames[i].mission].version
          BY <1>1, <2>2, <2>6, <3>2 DEF FrameInv
        <5> QED
          BY <5>1, <5>2
      <4> QED
        BY <4>1, <4>2
    <3>3. CASE i \in (old + 1)..(old + last) /\ j \in (old + 1)..(old + last)
      <4>1. i - old < j - old
        BY <2>2, <2>9, <3>3
      <4>2. After(StampIn(frames'[j]), StampIn(frames'[i]))
        BY <2>3, <2>7, <3>3, <4>1
      <4>3. PICK m \in Mission, n \in Mission :
               /\ frames'[i] = [mission |-> m, version |-> row[m].version, at |-> row[m].at]
               /\ frames'[j] = [mission |-> n, version |-> row[n].version, at |-> row[n].at]
        BY <2>2, <3>3
      <4>4. row[m].version \in Nat /\ row[n].version \in Nat
        BY VersionTypes
      <4> QED
        BY <4>2, <4>3, <4>4
    <3> QED
      BY <2>2, <2>9, <3>1, <3>2, <3>3
  <2> QED
    BY <2>1, <2>4, <2>5, <2>8, <2>9 DEF OrderInv
<1>6. CASE Deliver
  <2>1. /\ frames' = Tail(frames) /\ frames # <<>> /\ stream = "open" /\ sent' = sent
        /\ cursor' = StampIn(frames[1])
    BY <1>1, <1>6, DeliverFacts DEF Deliver
  <2>2. /\ 1 \in DOMAIN frames
        /\ \A i \in DOMAIN frames' : /\ i \in Nat /\ i > 0 /\ i + 1 \in DOMAIN frames
                                     /\ frames'[i] = frames[i + 1]
    BY <2>1, TailFacts
  <2>3. OrderInv
    BY <2>1 DEF StreamInv
  <2>4. ~After(cursor', sent')
    BY <2>1, <2>2, <2>3 DEF OrderInv
  <2>5. ASSUME NEW i \in DOMAIN frames'
        PROVE  After(StampIn(frames'[i]), cursor') /\ ~After(StampIn(frames'[i]), sent')
    <3>1. 1 < i + 1
      BY <2>2
    <3> QED
      BY <2>1, <2>2, <2>3, <3>1 DEF OrderInv
  <2>6. ASSUME NEW i \in DOMAIN frames', NEW j \in DOMAIN frames', i < j
        PROVE  /\ After(StampIn(frames'[j]), StampIn(frames'[i]))
               /\ frames'[i].mission = frames'[j].mission =>
                     frames'[i].version <= frames'[j].version
    <3>1. i + 1 < j + 1
      BY <2>2, <2>6
    <3> QED
      BY <2>2, <2>3, <3>1 DEF OrderInv
  <2> QED
    BY <2>4, <2>5, <2>6 DEF OrderInv
<1> QED
  BY <1>2, <1>3, <1>4, <1>5, <1>6, WireSteps

\* A change that was written off stays written off until the next one.
LEMMA NoChangeStep ==
    ASSUME TypeOK, KnownInv, StreamInv, [Next]_vars
    PROVE  NoChangeIsSkipped'
<1> DEFINE Told(m) == Announced(m) \/ lost[m] = row[m].version
<1> SUFFICES ASSUME boot'.phase \in {"read", "done"}, NEW m \in Mission
             PROVE  Announced(m)' \/ lost'[m] = row'[m].version
  BY DEF NoChangeIsSkipped
<1> USE DEF wire
<1>1. /\ PhaseInv /\ FrameInv /\ DOMAIN <<>> = {}
      /\ boot.phase \in {"asked", "read", "done", "failed"}
      /\ row[m].version \in Nat /\ hinted[m] \in Nat /\ lost[m] \in Nat
      /\ hinted[m] <= row[m].version /\ lost[m] <= row[m].version
  BY FrameTypes, VersionTypes DEF StreamInv, PhaseInv, TypeOK, KnownInv
<1>2. ASSUME row' = row, lost[m] = row[m].version PROVE lost'[m] = row'[m].version
  <2>1. lost'[m] \in Nat
    BY TypeStep DEF TypeOK
  <2>2. lost[m] <= lost'[m] /\ lost'[m] <= row'[m].version
    BY <1>1, LostGrows
  <2> QED
    BY <1>1, <1>2, <2>1, <2>2
<1>3. boot.phase \in {"read", "done"} => Told(m)
  BY DEF StreamInv, NoChangeIsSkipped
<1>4. ASSUME row' = row, Told(m), UNCHANGED <<frames, hinted>>, Watermark' = Watermark
      PROVE  Announced(m)' \/ lost'[m] = row'[m].version
  BY <1>2, <1>4 DEF Announced, StampOf
<1>5. CASE OffWire
  <2>1. UNCHANGED <<frames, hinted, boot.phase>> /\ Watermark' = Watermark
    BY <1>5 DEF OffWire, Watermark
  <2>2. Told(m)
    BY <1>3, <2>1
  <2>3. ASSUME NEW t \in open, Commit(t)
        PROVE  Announced(m)' \/ lost'[m] = row'[m].version
    <3>1. /\ t.mission \in Mission /\ t.at \in Nat
          /\ row'[t.mission].version = row[t.mission].version + 1
          /\ row'[t.mission].at = t.at
          /\ \A n \in Mission \ {t.mission} : row'[n] = row[n] /\ lost'[n] = lost[n]
          /\ \/ boot.phase = "asked" \/ After(<<t.at, t.mission>>, Watermark)
             \/ lost'[t.mission] = row[t.mission].version + 1
      BY <2>3, CommitFacts
    <3>2. CASE m = t.mission
      <4>1. StampOf(m)' = <<t.at, t.mission>>
        BY <3>1, <3>2 DEF StampOf
      <4>2. boot.phase # "asked"
        BY <2>1
      <4>3. CASE After(<<t.at, t.mission>>, Watermark)
        <5>1. After(StampOf(m), Watermark)'
          BY <2>1, <4>1, <4>3
        <5> QED
          BY <5>1 DEF Announced
      <4> QED
        BY <3>1, <3>2, <4>2, <4>3
    <3>3. CASE m # t.mission
      <4>1. row'[m] = row[m] /\ lost'[m] = lost[m] /\ StampOf(m)' = StampOf(m)
        BY <3>1, <3>3 DEF StampOf
      <4> QED
        BY <2>1, <2>2, <4>1 DEF Announced
    <3> QED
      BY <3>2, <3>3
  <2> QED
    BY <1>4, <2>1, <2>2, <2>3, RowSteps
<1>6. CASE SummaryRead
  <2>1. hinted'[m] = row'[m].version
    BY <1>6 DEF SummaryRead, database
  <2> QED
    BY <2>1 DEF Announced
<1>7. CASE SummaryArrives
  <2>1. /\ row' = row /\ boot.phase = "read" /\ UNCHANGED <<frames, hinted>>
        /\ boot'.phase = "done" /\ stream' = "connecting" /\ cursor' = boot.cursor
    BY <1>7 DEF SummaryArrives, database, TypeOK
  <2>2. stream # "open"
    BY <1>1, <2>1 DEF PhaseInv
  <2>3. Watermark' = Watermark
    BY <2>1, <2>2 DEF Watermark
  <2> QED
    BY <1>3, <1>4, <2>1, <2>3
<1>8. CASE SummaryFails
  BY <1>8 DEF SummaryFails, TypeOK
<1>9. CASE Connect
  <2>1. /\ row' = row /\ boot' = boot /\ UNCHANGED <<frames, hinted>>
        /\ stream = "connecting" /\ stream' = "open" /\ sent' = cursor
    BY <1>9 DEF Connect, database
  <2>2. boot.phase = "done"
    BY <1>1, <2>1 DEF PhaseInv
  <2>3. Watermark' = Watermark
    BY <2>1, <2>2 DEF Watermark
  <2> QED
    BY <1>3, <1>4, <2>1, <2>2, <2>3
<1>10. CASE Poll
  <2>1. /\ row' = row /\ hinted' = hinted /\ boot' = boot
        /\ stream = "open" /\ stream' = "open"
    BY <1>10 DEF Poll, database
  <2>2. PICK page \in Pages(sent) :
           /\ sent' = StampOf(page[Len(page)])
           /\ DOMAIN frames' = 1..(Len(frames) + Len(page))
           /\ Len(frames) \in Nat /\ Len(page) \in Nat /\ Len(page) > 0
           /\ DOMAIN frames = 1..Len(frames)
           /\ \A i \in 1..Len(frames) : frames'[i] = frames[i]
           /\ \A i \in (Len(frames) + 1)..(Len(frames) + Len(page)) :
                 frames'[i] = [mission |-> page[i - Len(frames)],
                               version |-> row[page[i - Len(frames)]].version,
                               at |-> row[page[i - Len(frames)]].at]
    BY <1>10, PollFacts
  <2>3. CASE hinted[m] = row[m].version
    BY <2>1, <2>3 DEF Announced
  <2>4. CASE lost[m] = row[m].version
    BY <1>2, <2>1, <2>4
  <2>5. CASE \E i \in DOMAIN frames : frames[i].mission = m /\ frames[i].version = row[m].version
    <3>1. PICK i \in DOMAIN frames : frames[i].mission = m /\ frames[i].version = row[m].version
      BY <2>5
    <3>2. i \in DOMAIN frames' /\ frames'[i] = frames[i]
      BY <2>2
    <3> QED
      BY <2>1, <3>1, <3>2 DEF Announced
  <2>6. CASE After(StampOf(m), sent) /\ hinted[m] # row[m].version
    <3>1. m \in Changed(sent)
      BY <1>1, <2>6 DEF Changed, Exists
    <3>2. CASE After(StampOf(m), StampOf(page[Len(page)]))
      <4>1. Watermark' = sent' /\ StampOf(m)' = StampOf(m)
        BY <2>1 DEF Watermark, StampOf
      <4>2. After(StampOf(m), Watermark)'
        BY <2>2, <3>2, <4>1
      <4> QED
        BY <4>2 DEF Announced
    <3>3. CASE \E k \in 1..Len(page) : page[k] = m
      <4>1. PICK k \in 1..Len(page) : page[k] = m
        BY <3>3
      <4>2. /\ Len(frames) + k \in (Len(frames) + 1)..(Len(frames) + Len(page))
            /\ (Len(frames) + k) - Len(frames) = k
        BY <2>2
      <4>3. PICK i \in (Len(frames) + 1)..(Len(frames) + Len(page)) : i - Len(frames) = k
        BY <4>2
      <4>4. i \in DOMAIN frames' /\ frames'[i].mission = m /\ frames'[i].version = row[m].version
        <5>1. i \in DOMAIN frames'
          BY <2>2
        <5>2. frames'[i] = [mission |-> page[i - Len(frames)],
                            version |-> row[page[i - Len(frames)]].version,
                            at |-> row[page[i - Len(frames)]].at]
          BY <2>2
        <5>3. page[i - Len(frames)] = m
          BY <4>1, <4>3
        <5> QED
          BY <5>1, <5>2, <5>3
      <4> QED
        BY <2>1, <4>4 DEF Announced
    <3> QED
      BY <3>1, <3>2, <3>3, PageFacts
  <2>7. Watermark = sent /\ Told(m)
    BY <1>1, <1>3, <2>1 DEF Watermark, PhaseInv
  <2> QED
    BY <2>3, <2>4, <2>5, <2>6, <2>7 DEF Announced
<1>11. CASE Deliver
  <2> DEFINE d == frames[1]
  <2>1. /\ row' = row /\ boot' = boot /\ frames' = Tail(frames) /\ frames # <<>>
        /\ stream = "open" /\ stream' = "open" /\ sent' = sent
    BY <1>11 DEF Deliver, database
  <2>2. /\ hinted'[d.mission] = d.version
        /\ \A n \in Mission \ {d.mission} : hinted'[n] = hinted[n]
        /\ hinted[d.mission] <= d.version /\ d.version <= row[d.mission].version
        /\ d.mission \in Mission /\ d.version \in Nat
    BY <1>1, <1>11, DeliverFacts DEF Frame
  <2> HIDE DEF d
  <2>3. CASE hinted[m] = row[m].version
    <3>1. hinted'[m] = row'[m].version
      BY <1>1, <2>1, <2>2, <2>3
    <3> QED
      BY <3>1 DEF Announced
  <2>4. CASE lost[m] = row[m].version
    BY <1>2, <2>1, <2>4
  <2>5. ASSUME NEW i \in DOMAIN frames, frames[i].mission = m, frames[i].version = row[m].version
        PROVE  Announced(m)'
    <3>1. CASE i = 1
      <4>1. hinted'[m] = row'[m].version
        BY <2>1, <2>2, <2>5, <3>1 DEF d
      <4> QED
        BY <4>1 DEF Announced
    <3>2. CASE i - 1 \in DOMAIN Tail(frames)
      <4>1. PICK j \in DOMAIN Tail(frames) : j = i - 1
        BY <3>2
      <4>2. i \in Nat /\ j \in Nat /\ Tail(frames)[j] = frames[j + 1]
        BY <2>1, FrameTypes, TailFacts
      <4>3. j \in DOMAIN frames' /\ frames'[j] = frames[i]
        BY <2>1, <4>1, <4>2
      <4> QED
        BY <2>1, <2>5, <4>3 DEF Announced
    <3> QED
      BY <2>1, <3>1, <3>2, TailFacts
  <2>6. CASE After(StampOf(m), sent)
    <3>1. After(StampOf(m), Watermark)'
      BY <2>1, <2>6 DEF Watermark, StampOf
    <3> QED
      BY <3>1 DEF Announced
  <2>7. Watermark = sent /\ Told(m)
    BY <1>1, <1>3, <2>1 DEF Watermark, PhaseInv
  <2> QED
    BY <2>3, <2>4, <2>5, <2>6, <2>7 DEF Announced
<1>12. CASE Break
  <2>1. /\ row' = row /\ boot' = boot /\ hinted' = hinted /\ cursor' = cursor
        /\ stream \in {"connecting", "open"} /\ stream' = "connecting"
    BY <1>12 DEF Break, database
  <2>2. boot.phase = "done" /\ Watermark' = cursor
    BY <1>1, <2>1 DEF PhaseInv, Watermark
  <2>3. Told(m)
    BY <1>3, <2>2
  <2>4. ASSUME After(StampOf(m), cursor) PROVE Announced(m)'
    <3>1. After(StampOf(m), Watermark)'
      BY <2>1, <2>2, <2>4 DEF StampOf
    <3> QED
      BY <3>1 DEF Announced
  <2>5. CASE hinted[m] = row[m].version
    BY <2>1, <2>5 DEF Announced
  <2>6. CASE lost[m] = row[m].version
    BY <1>2, <2>1, <2>6
  <2>7. CASE stream = "connecting"
    <3>1. Watermark = cursor /\ DOMAIN frames = {}
      BY <1>1, <2>2, <2>7 DEF Watermark, PhaseInv
    <3> QED
      BY <2>3, <2>4, <2>5, <2>6, <3>1 DEF Announced
  <2>8. CASE stream = "open"
    <3>1. OrderInv /\ Watermark = sent
      BY <2>8 DEF StreamInv, Watermark
    <3>2. ASSUME NEW i \in DOMAIN frames, frames[i].mission = m,
                 frames[i].version = row[m].version
          PROVE  After(StampOf(m), cursor)
      <4>1. frames[i].at = row[m].at
        BY <1>1, <3>2 DEF FrameInv
      <4>2. StampIn(frames[i]) = StampOf(m)
        BY <3>2, <4>1 DEF StampIn, StampOf
      <4> QED
        BY <3>1, <4>2 DEF OrderInv
    <3>3. After(StampOf(m), sent) => After(StampOf(m), cursor)
      BY <3>1, FrameTypes, AfterIsOrder DEF OrderInv
    <3> QED
      BY <2>3, <2>4, <2>5, <2>6, <3>1, <3>2, <3>3 DEF Announced
  <2> QED
    BY <2>1, <2>7, <2>8
<1>13. CASE Refused
  <2>1. /\ row' = row /\ boot' = boot /\ UNCHANGED <<frames, hinted, cursor>>
        /\ stream = "connecting" /\ stream' = "ended"
    BY <1>13 DEF Refused, database
  <2>2. Watermark' = Watermark
    BY <2>1 DEF Watermark
  <2> QED
    BY <1>3, <1>4, <2>1, <2>2
<1> QED
  BY <1>5, <1>6, <1>7, <1>8, <1>9, <1>10, <1>11, <1>12, <1>13, WireSteps

-----------------------------------------------------------------------------
(* The panel.                                                              *)

ViewIsTold ==
    \/ ToldBy(view.mission, view.version)
    \/ "refresh" \in timers
    \/ /\ refresh # None /\ refresh.mission = view.mission
       /\ refresh.read = 0 \/ ToldBy(view.mission, refresh.read)

\* What was told stays told while no hint is taken.
LEMMA StillTold ==
    ASSUME TypeOK, KnownInv, FrameInv, [Next]_vars, hinted' = hinted,
           NEW m \in Mission, NEW v, ToldBy(m, v)
    PROVE  ToldBy(m, v)'
<1>1. /\ lost[m] <= lost'[m] /\ lost[m] \in Nat /\ hinted[m] \in Nat
  BY LostGrows, VersionTypes
<1>2. lost'[m] \in Nat
  BY TypeStep DEF TypeOK
<1> QED
  BY <1>1, <1>2 DEF ToldBy

LEMMA PanelKept ==
    ASSUME IInv, [Next]_vars, UNCHANGED <<view, switch, pending, refresh, hinted>>,
           "refresh" \in timers => "refresh" \in timers'
    PROVE  PanelInv'
<1>1. TypeOK /\ KnownInv /\ FrameInv /\ PanelInv
  BY DEF IInv, StreamInv
<1>2. ASSUME switch # None, switch.read > 0, view.mission # switch.mission
      PROVE  ToldBy(switch.mission, switch.read)'
  <2>1. switch.mission \in Mission /\ ToldBy(switch.mission, switch.read)
    BY <1>1, <1>2, VersionTypes DEF PanelInv
  <2>2. \A m \in Mission : \A v : ToldBy(m, v) => ToldBy(m, v)'
    BY <1>1, StillTold
  <2> QED
    BY <2>1, <2>2 DEF ToldBy
<1>3. ASSUME view # None PROVE ViewIsTold'
  <2>1. view.mission \in Mission /\ ViewIsTold
    BY <1>1, <1>3, VersionTypes DEF PanelInv, ViewIsTold
  <2>2. \A m \in Mission : \A v : ToldBy(m, v) => ToldBy(m, v)'
    BY <1>1, StillTold
  <2> QED
    BY <2>1, <2>2 DEF ViewIsTold, ToldBy
<1> QED
  BY <1>1, <1>2, <1>3 DEF PanelInv, ViewIsTold, ToldBy

LEMMA PanelSwitched ==
    ASSUME IInv, [Next]_vars, NEW target \in Target, StartSwitch(target),
           UNCHANGED <<view, hinted>>, "refresh" \in timers => "refresh" \in timers'
    PROVE  PanelInv'
<1>1. TypeOK /\ KnownInv /\ FrameInv /\ PanelInv
  BY DEF IInv, StreamInv
<1>2. /\ switch'.mission = target.mission /\ switch'.read = 0 /\ pending' = target
      /\ pending' # None /\ lost' = RefreshLost
  BY VersionTypes, <1>1 DEF StartSwitch, Target, None
<1>3. ASSUME view # None PROVE ViewIsTold'
  <2>1. view.mission \in Mission /\ ViewIsTold
    BY <1>1, <1>3, VersionTypes DEF PanelInv, ViewIsTold
  <2>2. \A m \in Mission : \A v : ToldBy(m, v) => ToldBy(m, v)'
    BY <1>1, StillTold
  <2>3. refresh # None /\ refresh.mission = view.mission =>
           ToldBy(view.mission, view.version)'
    BY <1>1, <1>2, RefreshLostFacts DEF ToldBy
  <2> QED
    BY <2>1, <2>2, <2>3 DEF ViewIsTold, ToldBy
<1> QED
  BY <1>2, <1>3 DEF PanelInv, ViewIsTold

LEMMA PanelStep ==
    ASSUME IInv, [Next]_vars
    PROVE  PanelInv'
<1> USE DEF database, wire, panel
<1>0. TypeOK /\ KnownInv /\ StreamInv /\ FrameInv /\ PanelInv
  BY DEF IInv, StreamInv
<1>1. ASSUME NEW m \in Mission, Begin(m) PROVE PanelInv'
  BY <1>1, PanelKept DEF Begin
<1>2. ASSUME NEW t \in open, Commit(t) PROVE PanelInv'
  BY <1>2, PanelKept DEF Commit
<1>3. ASSUME NEW m \in Mission, NEW retain \in BOOLEAN, UserSwitch(m, retain) PROVE PanelInv'
  <2>1. [mission |-> m, retain |-> retain] \in Target
    BY DEF Target
  <2> QED
    BY <1>3, <2>1, PanelSwitched DEF UserSwitch
<1>4. ASSUME SwitchRead PROVE PanelInv'
  <2>1. /\ switch # None /\ switch' = [switch EXCEPT !.read = row[switch.mission].version]
        /\ UNCHANGED <<view, pending, refresh, timers, lost, hinted>>
    BY <1>4 DEF SwitchRead
  <2>2. /\ switch'.mission = switch.mission /\ switch.mission \in Mission
        /\ switch'.read = row[switch.mission].version
    BY <1>0, <2>1, VersionTypes DEF TypeOK
  <2>3. ToldBy(switch.mission, switch'.read)
    BY <1>0, <2>2 DEF KnownInv, ToldBy
  <2> QED
    BY <1>0, <2>1, <2>2, <2>3 DEF PanelInv, ToldBy
<1>5. ASSUME SwitchArrives PROVE PanelInv'
  <2> DEFINE m == switch.mission
  <2>1. /\ m \in Mission /\ switch.read \in Nat /\ switch.read > 0
        /\ view' = Accepted(m, switch.read) /\ switch' = None
        /\ UNCHANGED <<refresh, timers, lost, hinted>>
    BY <1>0, <1>5, VersionTypes DEF SwitchArrives
  <2>2. hinted[m] \in Nat /\ lost[m] \in Nat /\ (view # None => view.version \in Nat)
    BY <1>0, <2>1, VersionTypes
  <2>3. view'.mission = m /\ view'.version \in Nat /\ view'.version >= switch.read
    BY <1>0, <2>1, AcceptedFacts
  <2>4. ViewIsTold'
    <3>1. CASE view.mission = m
      <4>1. view # None /\ ViewIsTold /\ view'.version >= view.version
        BY <1>0, <2>1, <3>1, AcceptedFacts, VersionTypes DEF PanelInv, ViewIsTold
      <4>2. ToldBy(view.mission, view.version) => ToldBy(view'.mission, view'.version)
        BY <2>2, <2>3, <3>1, <4>1 DEF ToldBy
      <4> QED
        BY <2>1, <2>3, <3>1, <4>1, <4>2 DEF ViewIsTold, ToldBy
    <3>2. CASE view.mission # m
      <4>1. ToldBy(m, switch.read)
        BY <1>0, <1>5, <2>1, <3>2 DEF PanelInv, SwitchArrives
      <4> QED
        BY <2>1, <2>2, <2>3, <4>1 DEF ViewIsTold, ToldBy
    <3> QED
      BY <3>1, <3>2
  <2> QED
    BY <2>1, <2>4 DEF PanelInv, ViewIsTold
<1>6. ASSUME SwitchFails PROVE PanelInv'
  <2>1. switch' = None /\ UNCHANGED <<view, refresh, timers, lost, hinted>>
    BY <1>6 DEF SwitchFails
  <2> QED
    BY <1>0, <2>1 DEF PanelInv, ToldBy
<1>7. ASSUME StartRefresh PROVE PanelInv'
  <2>1. /\ UNCHANGED <<view, switch, pending, lost, hinted>>
        /\ view # None => refresh' = [mission |-> view.mission, read |-> 0]
    BY <1>7 DEF StartRefresh
  <2>2. view # None => refresh' # None
    BY <2>1 DEF None
  <2> QED
    BY <1>0, <2>1, <2>2 DEF PanelInv, ToldBy
<1>8. ASSUME RetrySwitch PROVE PanelInv'
  <2>1. UNCHANGED <<view, hinted>> /\ ("refresh" \in timers => "refresh" \in timers')
    BY <1>8 DEF RetrySwitch
  <2>2. CASE pending = None
    BY <1>8, <2>1, <2>2, PanelKept DEF RetrySwitch
  <2>3. CASE pending # None
    <3>1. pending \in Target /\ StartSwitch(pending)
      BY <1>0, <1>8, <2>3 DEF RetrySwitch, TypeOK, Target
    <3> QED
      BY <2>1, <3>1, PanelSwitched
  <2> QED
    BY <2>2, <2>3
<1>9. ASSUME RefreshRead PROVE PanelInv'
  <2>1. /\ refresh # None /\ refresh' = [refresh EXCEPT !.read = row[refresh.mission].version]
        /\ UNCHANGED <<view, switch, pending, timers, lost, hinted>>
    BY <1>9 DEF RefreshRead
  <2>2. /\ refresh'.mission = refresh.mission /\ refresh.mission \in Mission
        /\ refresh'.read = row[refresh.mission].version /\ refresh' # None
    BY <1>0, <2>1, VersionTypes DEF TypeOK
  <2>3. ToldBy(refresh.mission, refresh'.read)
    BY <1>0, <2>2 DEF KnownInv, ToldBy
  <2> QED
    BY <1>0, <2>1, <2>2, <2>3 DEF PanelInv, ToldBy
<1>10. ASSUME RefreshArrives PROVE PanelInv'
  <2>1. /\ refresh # None /\ refresh.read > 0 /\ refresh' = None
        /\ UNCHANGED <<switch, pending, timers, lost, hinted>>
        /\ refresh.mission \in Mission /\ refresh.read \in Nat
    BY <1>0, <1>10, VersionTypes DEF RefreshArrives
  <2>2. CASE view.mission = refresh.mission
    <3>1. view # None /\ view.mission \in Mission /\ view.version \in Nat
      BY <1>0, <2>1, <2>2, VersionTypes
    <3>2. /\ view' = Accepted(refresh.mission, refresh.read)
          /\ view'.mission = view.mission /\ view'.version \in Nat
          /\ view'.version >= view.version /\ view'.version >= refresh.read
      BY <1>0, <1>10, <2>1, <2>2, AcceptedFacts DEF RefreshArrives
    <3>3. hinted[view.mission] \in Nat /\ lost[view.mission] \in Nat
      BY <1>0, <3>1, VersionTypes
    <3>4. ViewIsTold
      BY <1>0, <3>1 DEF PanelInv, ViewIsTold
    <3>5. ToldBy(view.mission, view'.version) \/ "refresh" \in timers
      BY <2>1, <3>1, <3>2, <3>3, <3>4 DEF ViewIsTold, ToldBy
    <3> QED
      BY <1>0, <2>1, <3>1, <3>2, <3>5 DEF PanelInv, ToldBy
  <2>3. CASE view.mission # refresh.mission
    <3>1. view' = view
      BY <1>10, <2>3 DEF RefreshArrives
    <3> QED
      BY <1>0, <2>1, <2>3, <3>1 DEF PanelInv, ToldBy
  <2> QED
    BY <2>2, <2>3
<1>11. ASSUME RefreshFails PROVE PanelInv'
  <2>1. /\ refresh # None /\ refresh' = None /\ lost' = RefreshLost
        /\ UNCHANGED <<switch, pending, timers, hinted>>
        /\ view' \in {view, Stale}
    BY <1>11 DEF RefreshFails
  <2>2. /\ view' = None <=> view = None
        /\ view'.mission = view.mission
        /\ view # None => view'.version = view.version
    BY <1>0, <2>1, StaleFacts
  <2>3. \A m \in Mission : \A v : ToldBy(m, v) => ToldBy(m, v)'
    BY <1>0, <2>1, StillTold
  <2>4. ASSUME view # None PROVE ToldBy(view.mission, view.version)' \/ "refresh" \in timers
    <3>1. view.mission \in Mission /\ ViewIsTold
      BY <1>0, <2>4, VersionTypes DEF PanelInv, ViewIsTold
    <3>2. refresh.mission = view.mission => hinted[view.mission] <= lost'[view.mission]
      BY <1>0, <2>1, RefreshLostFacts
    <3> QED
      BY <2>1, <2>2, <2>3, <2>4, <3>1, <3>2 DEF ViewIsTold, ToldBy
  <2>5. ASSUME switch # None, switch.read > 0, view.mission # switch.mission
        PROVE  ToldBy(switch.mission, switch.read)'
    <3>1. switch.mission \in Mission /\ ToldBy(switch.mission, switch.read)
      BY <1>0, <2>5, VersionTypes DEF PanelInv
    <3> QED
      BY <2>1, <2>3, <3>1 DEF ToldBy
  <2> QED
    BY <1>0, <2>1, <2>2, <2>4, <2>5 DEF PanelInv, ToldBy
<1>12. ASSUME SummaryRead PROVE PanelInv'
  <2>1. /\ \A m \in Mission : hinted'[m] = row[m].version
        /\ \A m \in Mission : lost'[m] = IF Missed(m) THEN row[m].version ELSE lost[m]
        /\ UNCHANGED <<view, switch, pending, refresh, timers>>
    BY <1>12 DEF SummaryRead
  <2>2. ASSUME view # None PROVE ToldBy(view.mission, view.version)'
    <3>1. view.mission \in Mission /\ view.version \in Nat /\ row[view.mission].version \in Nat
      BY <1>0, <2>2, VersionTypes
    <3> QED
      BY <2>1, <2>2, <3>1 DEF ToldBy, Missed
  <2>3. ASSUME switch # None, switch.read > 0 PROVE ToldBy(switch.mission, switch.read)'
    <3>1. /\ switch.mission \in Mission /\ switch.read \in Nat
          /\ row[switch.mission].version \in Nat
      BY <1>0, <2>3, VersionTypes
    <3>2. switch.read < row[switch.mission].version =>
             switch.read \in 1..(row[switch.mission].version - 1)
      BY <2>3, <3>1
    <3> QED
      BY <2>1, <2>3, <3>1, <3>2 DEF ToldBy, Missed
  <2> QED
    BY <1>0, <2>1, <2>2, <2>3 DEF PanelInv, ToldBy
<1>13. ASSUME SummaryArrives PROVE PanelInv'
  <2>1. UNCHANGED <<view, timers, hinted>>
    BY <1>13 DEF SummaryArrives
  <2>2. CASE boot.switched \/ boot.mission = 0
    BY <1>13, <2>1, <2>2, PanelKept DEF SummaryArrives
  <2>3. CASE ~(boot.switched \/ boot.mission = 0)
    <3>1. [mission |-> boot.mission, retain |-> TRUE] \in Target
      BY <1>0, <2>3 DEF TypeOK, Target
    <3> QED
      BY <1>13, <2>1, <2>3, <3>1, PanelSwitched DEF SummaryArrives
  <2> QED
    BY <2>2, <2>3
<1>14. ASSUME SummaryFails \/ Connect \/ Poll PROVE PanelInv'
  BY <1>14, PanelKept DEF SummaryFails, Connect, Poll
<1>15. ASSUME Deliver PROVE PanelInv'
  <2> DEFINE e == frames[1]
  <2>1. /\ e.mission \in Mission /\ e.version \in Nat /\ Hint(e)
        /\ hinted'[e.mission] = e.version
        /\ \A m \in Mission \ {e.mission} : hinted'[m] = hinted[m] /\ lost'[m] = lost[m]
        /\ \/ lost' = lost
           \/ lost' = [lost EXCEPT ![e.mission] = Latest(@, e.version)]
    BY <1>0, <1>15, DeliverFacts DEF Frame
  <2>2. UNCHANGED <<view, switch, refresh>>
    BY <1>15 DEF Deliver
  <2>3. "refresh" \in timers => "refresh" \in timers'
    BY <2>1 DEF Hint
  <2>4. switch # None => pending' = pending /\ pending # None
                         /\ pending.mission = switch.mission
    BY <1>0, <2>1 DEF Hint, PanelInv
  <2> HIDE DEF e
  <2>5. ASSUME view # None PROVE ViewIsTold'
    <3>1. view.mission \in Mission /\ view.version \in Nat /\ ViewIsTold
      BY <1>0, <2>5, VersionTypes DEF PanelInv, ViewIsTold
    <3>2. CASE view.mission = e.mission
      <4>1. Outdated(e.version) => "refresh" \in timers'
        BY <2>1, <2>5, <3>2 DEF Hint
      <4>2. ~Outdated(e.version) => e.version <= view.version
        BY <2>1, <3>1 DEF Outdated
      <4> QED
        BY <2>1, <2>2, <3>2, <4>1, <4>2 DEF ViewIsTold, ToldBy
    <3>3. CASE view.mission # e.mission
      BY <2>1, <2>2, <2>3, <3>1, <3>3 DEF ViewIsTold, ToldBy
    <3> QED
      BY <3>2, <3>3
  <2>6. ASSUME switch # None, switch.read > 0, view.mission # switch.mission
        PROVE  ToldBy(switch.mission, switch.read)'
    <3>1. switch.mission \in Mission /\ ToldBy(switch.mission, switch.read)
      BY <1>0, <2>6, VersionTypes DEF PanelInv
    <3>2. CASE switch.mission = e.mission
      <4>1. pending # None /\ pending.mission = e.mission /\ ~Idle /\ switch.read # 0
        BY <1>0, <2>4, <2>6, <3>2, VersionTypes DEF Idle
      <4>2. lost' = [lost EXCEPT ![e.mission] = Latest(@, e.version)]
        BY <2>1, <2>6, <3>2, <4>1 DEF Hint
      <4>3. lost'[e.mission] = Latest(lost[e.mission], e.version) /\ lost[e.mission] \in Nat
        BY <1>0, <2>1, <4>2 DEF TypeOK
      <4>4. hinted'[e.mission] <= lost'[e.mission]
        BY <2>1, <4>3 DEF Latest
      <4> QED
        BY <2>2, <3>2, <4>4 DEF ToldBy
    <3>3. CASE switch.mission # e.mission
      BY <2>1, <2>2, <3>1, <3>3 DEF ToldBy
    <3> QED
      BY <3>2, <3>3
  <2> QED
    BY <2>2, <2>4, <2>5, <2>6 DEF PanelInv, ViewIsTold, ToldBy
<1>16. ASSUME Break PROVE PanelInv'
  BY <1>16, PanelKept DEF Break
<1>17. ASSUME Refused PROVE PanelInv'
  <2>1. UNCHANGED <<switch, pending, refresh, timers, lost, hinted>> /\ view' = Stale
    BY <1>17 DEF Refused
  <2> QED
    BY <1>0, <2>1, StaleFacts DEF PanelInv, ToldBy
<1>18. CASE UNCHANGED vars
  BY <1>18, PanelKept DEF vars
<1> QED
  BY <1>1, <1>2, <1>3, <1>4, <1>5, <1>6, <1>7, <1>8, <1>9, <1>10, <1>11, <1>12, <1>13,
     <1>14, <1>15, <1>16, <1>17, <1>18 DEF Next

-----------------------------------------------------------------------------
(* The theorems.                                                           *)

LEMMA InitInv == Init => IInv
<1> SUFFICES ASSUME Init PROVE IInv
  OBVIOUS
<1>1. TypeOK
  BY InitType
<1>2. KnownInv
  BY VersionTypes, <1>1 DEF Init, KnownInv
<1>3. DOMAIN frames = {}
  BY DEF Init
<1>4. StreamInv
  BY <1>3 DEF Init, StreamInv, FrameInv, NoChangeIsSkipped
<1>5. PanelInv
  BY DEF Init, PanelInv
<1> QED
  BY <1>1, <1>2, <1>4, <1>5 DEF IInv

LEMMA InvStep == IInv /\ [Next]_vars => IInv'
<1> SUFFICES ASSUME IInv, [Next]_vars PROVE IInv'
  OBVIOUS
<1>1. TypeOK /\ KnownInv /\ StreamInv /\ FrameInv /\ PhaseInv
  BY DEF IInv, StreamInv, PhaseInv
<1>2. StreamInv'
  <2>1. PhaseInv' /\ FrameInv' /\ NoChangeIsSkipped'
    BY <1>1, PhaseStep, FrameStep, NoChangeStep
  <2>2. stream' = "open" => OrderInv'
    BY <1>1, OrderStep
  <2> QED
    BY <2>1, <2>2 DEF StreamInv, PhaseInv
<1> QED
  BY <1>1, <1>2, TypeStep, KnownStep, PanelStep DEF IInv

LEMMA InvHolds == Spec => []IInv
  BY InitInv, InvStep, PTL DEF Spec

\* No change of a Mission is skipped by the stream, except one that commits
\* behind its cursor.
THEOREM StreamIsComplete == Spec => []NoChangeIsSkipped
<1>1. IInv => NoChangeIsSkipped
  BY DEF IInv, StreamInv
<1> QED
  BY <1>1, InvHolds, PTL

\* When nothing is going on, the panel shows its Mission as it is, except for
\* the losses it has on record.
THEOREM PanelIsCurrent == Spec => []QuietViewIsCurrent
<1>1. ASSUME IInv, Quiet
      PROVE  row[view.mission].version \in {view.version, lost[view.mission]}
  <2> DEFINE m == view.mission
  <2>1. TypeOK /\ KnownInv /\ StreamInv /\ PanelInv
    BY <1>1 DEF IInv
  <2>2. /\ stream = "open" /\ frames = <<>> /\ Changed(sent) = {}
        /\ "refresh" \notin timers /\ refresh = None /\ view # None
    BY <1>1 DEF Quiet
  <2>3. /\ m \in Mission /\ view.version \in Nat
        /\ row[m].version \in Nat /\ hinted[m] \in Nat /\ lost[m] \in Nat
        /\ hinted[m] <= row[m].version /\ lost[m] <= row[m].version
        /\ view.version <= row[m].version
    BY <2>1, <2>2, VersionTypes DEF KnownInv
  <2>4. ToldBy(m, view.version)
    BY <2>1, <2>2 DEF PanelInv
  <2>5. Announced(m) \/ lost[m] = row[m].version
    BY <2>1, <2>2, <2>3 DEF StreamInv, NoChangeIsSkipped
  <2>6. ASSUME Announced(m) PROVE hinted[m] = row[m].version \/ row[m].version = 0
    <3>1. DOMAIN frames = {} /\ Watermark = sent
      BY <2>1, <2>2, FrameTypes DEF Watermark
    <3>2. After(StampOf(m), sent) => row[m].version = 0
      BY <2>2, <2>3 DEF Changed, Exists
    <3> QED
      BY <2>6, <3>1, <3>2 DEF Announced
  <2> QED
    BY <2>3, <2>4, <2>5, <2>6 DEF ToldBy
<1>2. IInv => QuietViewIsCurrent
  BY <1>1 DEF QuietViewIsCurrent
<1> QED
  BY <1>2, InvHolds, PTL
=============================================================================
