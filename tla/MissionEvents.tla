--------------------------- MODULE MissionEvents ---------------------------
(***************************************************************************)
(* How a browser follows the Missions of a workspace.  The rows of the     *)
(* database are the truth; the event stream polls them from a cursor, the  *)
(* greatest <<updated_at, mission_id>> it has sent, and sends hints; the   *)
(* Mission panel (useMissionWorkspace) answers a hint with a fetch.        *)
(*                                                                         *)
(*   clock    the database's clock                                         *)
(*   open     transactions that will change a Mission, with their now()    *)
(*   row      the version of each Mission (0 before it exists) and its     *)
(*            updated_at                                                   *)
(*   boot     the summary that gives the panel its first Mission and cursor*)
(*   stream   the event stream of the panel, sent its cursor on the server *)
(*   frames   hints on their way                                           *)
(*   cursor   the browser's cursor, the last hint it took                  *)
(*   view     the MissionView on the screen                                *)
(*   switch   the fetch of a Mission to show next, only the latest counts  *)
(*   pending  the Mission to show next (pendingSwitchRef)                  *)
(*   refresh  the fetch of the Mission shown, only the latest counts       *)
(*   timers   the debounced calls that are due                             *)
(*   hinted   the last version of each Mission that the summary or a hint  *)
(*            told the browser                                             *)
(*   lost     the last version of each Mission whose hint nobody will act  *)
(*            on (hinted and lost are history variables)                   *)
(*   used     how often each bounded action happened                       *)
(*                                                                         *)
(* PostgreSQL's now() is the start of the transaction, so a Mission's      *)
(* updated_at is older than its commit, and commits need not follow the    *)
(* order of their stamps.  The two reads of the summary are fenced by the  *)
(* latest Mission, its only part that matters here: one step.              *)
(***************************************************************************)
EXTENDS Naturals, Sequences, FiniteSets

CONSTANTS
    Mission,        \* numbers: the cursor compares mission ids
    PageSize,       \* rows of one poll, 100 in the code
    MaxOpen,        \* bound on transactions open at a time
    MaxChanges,     \* bound on changes of Missions
    MaxSwitches,    \* bound on explicit switches by the user
    MaxFaults       \* bound on breaks of the stream and failed requests

ASSUME MissionEventsAssumption ==
    /\ Mission \subseteq Nat \ {0}
    /\ PageSize \in Nat \ {0}
    /\ {MaxOpen, MaxChanges, MaxSwitches, MaxFaults} \subseteq Nat

VARIABLES clock, open, row, boot, stream, sent, frames, cursor,
          view, switch, pending, refresh, timers, hinted, lost, used

database == <<clock, open, row>>
wire == <<stream, sent, frames, cursor>>
panel == <<view, switch, pending, refresh, timers, lost>>
vars == <<database, boot, wire, panel, hinted, used>>

None == [mission |-> 0]
Stamp == Nat \X (Mission \cup {0})
Timer == {"refresh", "switch"}

TypeOK ==
    /\ clock \in Nat
    /\ open \subseteq [mission : Mission, at : Nat]
    /\ row \in [Mission -> [version : Nat, at : Nat]]
    /\ boot \in [phase : {"asked", "read", "done", "failed"},
                 mission : Mission \cup {0}, cursor : Stamp, switched : BOOLEAN]
    /\ stream \in {"none", "connecting", "open", "ended"}
    /\ {sent, cursor} \subseteq Stamp
    /\ frames \in Seq([mission : Mission, version : Nat, at : Nat])
    /\ view \in {None} \cup [mission : Mission, version : Nat, stale : BOOLEAN]
    /\ switch \in {None} \cup [mission : Mission, retain : BOOLEAN, read : Nat]
    /\ pending \in {None} \cup [mission : Mission, retain : BOOLEAN]
    /\ refresh \in {None} \cup [mission : Mission, read : Nat]
    /\ timers \subseteq Timer
    /\ {hinted, lost} \subseteq [Mission -> Nat]
    /\ used \in [{"changes", "switches", "faults"} -> Nat]

\* The Missions that already exist were changed in one instant.
Init ==
    /\ clock = 1
    /\ open = {}
    /\ \E old \in SUBSET Mission :
          row = [m \in Mission |-> IF m \in old THEN [version |-> 1, at |-> 1]
                                   ELSE [version |-> 0, at |-> 0]]
    /\ boot = [phase |-> "asked", mission |-> 0, cursor |-> <<0, 0>>, switched |-> FALSE]
    /\ stream = "none"
    /\ sent = <<0, 0>>
    /\ frames = <<>>
    /\ cursor = <<0, 0>>
    /\ view = None
    /\ switch = None
    /\ pending = None
    /\ refresh = None
    /\ timers = {}
    /\ hinted = [m \in Mission |-> 0]
    /\ lost = hinted
    /\ used = [x \in {"changes", "switches", "faults"} |-> 0]

Uses(x, max) ==
    /\ used[x] < max
    /\ used' = [used EXCEPT ![x] = @ + 1]

Exists(m) == row[m].version > 0

\* Mutant of After: equal instants are not told apart.
AfterInstant(a, b) == a[1] > b[1]

\* The order of the stream's query and of the latest Mission.
After(a, b) == a[1] > b[1] \/ (a[1] = b[1] /\ a[2] > b[2])

StampOf(m) == <<row[m].at, m>>
Changed(since) == {m \in Mission : Exists(m) /\ After(StampOf(m), since)}

-----------------------------------------------------------------------------
(* The database.                                                           *)

\* Two transactions have one stamp only if both are open.
Begin(m) ==
    /\ Cardinality(open) < MaxOpen
    /\ Uses("changes", MaxChanges)
    /\ \E at \in {clock, clock + 1} :
          /\ at = clock => \E t \in open : t.at = clock /\ t.mission # m
          /\ clock' = at
          /\ open' = open \cup {[mission |-> m, at |-> at]}
    /\ UNCHANGED <<row, boot, wire, panel, hinted>>

\* Where the stream is, or will start.
Watermark ==
    CASE stream = "open" -> sent
      [] stream # "open" /\ boot.phase = "done" -> cursor
      [] OTHER -> boot.cursor

\* _touch under the row lock, and the commit.
Commit(t) ==
    /\ open' = open \ {t}
    /\ row' = [row EXCEPT ![t.mission] = [version |-> @.version + 1, at |-> t.at]]
    /\ lost' = IF boot.phase = "asked" \/ After(<<t.at, t.mission>>, Watermark) THEN lost
               ELSE [lost EXCEPT ![t.mission] = row[t.mission].version + 1]
    /\ UNCHANGED <<clock, boot, wire, view, switch, pending, refresh, timers, hinted, used>>

-----------------------------------------------------------------------------
(* The panel's own operations.                                             *)

\* Mutant of Accepted: a response is taken as it is.
AcceptedAsIs(m, version) == [mission |-> m, stale |-> FALSE, version |-> version]

\* mergeMissionView and acceptProjection.
Accepted(m, version) ==
    [mission |-> m, stale |-> FALSE,
     version |-> IF view # None /\ view.mission = m /\ version < view.version
                 THEN view.version ELSE version]

\* markCurrentViewStale.
Stale == IF view = None THEN view ELSE [view EXCEPT !.stale = TRUE]

Latest(v, u) == IF v > u THEN v ELSE u

\* A hint of the Mission shown that was to be answered by a refresh is not.
RefreshLost ==
    IF refresh = None \/ view.mission # refresh.mission THEN lost
    ELSE [lost EXCEPT ![view.mission] = Latest(@, hinted[view.mission])]

\* switchMission up to its fetch: the refresh in flight no longer counts.
StartSwitch(target) ==
    /\ switch' = [mission |-> target.mission, retain |-> target.retain, read |-> 0]
    /\ pending' = target
    /\ refresh' = None
    /\ lost' = RefreshLost

\* schedulePendingSwitch: nothing while that Mission is being fetched.
Idle == pending # None /\ (switch = None \/ switch.mission # pending.mission)
SwitchDue == IF Idle THEN {"switch"} ELSE {}

\* The user or a command names the Mission to show.
UserSwitch(m, retain) ==
    /\ Exists(m)
    /\ Uses("switches", MaxSwitches)
    /\ StartSwitch([mission |-> m, retain |-> retain])
    /\ boot' = [boot EXCEPT !.switched = TRUE]
    /\ UNCHANGED <<database, wire, view, timers, hinted>>

\* The server answers a fetch from the row it sees now.
SwitchRead ==
    /\ switch # None /\ switch.read = 0
    /\ switch' = [switch EXCEPT !.read = row[switch.mission].version]
    /\ UNCHANGED <<database, boot, wire, view, pending, refresh, timers, lost, hinted, used>>

SwitchArrives ==
    /\ switch # None /\ switch.read > 0
    /\ view' = Accepted(switch.mission, switch.read)
    /\ switch' = None
    /\ pending' = None
    /\ UNCHANGED <<database, boot, wire, refresh, timers, lost, hinted, used>>

SwitchFails ==
    /\ switch # None
    /\ Uses("faults", MaxFaults)
    /\ switch' = None
    /\ pending' = IF switch.retain THEN pending ELSE None
    /\ UNCHANGED <<database, boot, wire, view, refresh, timers, lost, hinted>>

\* Mutant of StartRefresh: a switch under way makes the refresh needless.
StartRefreshAlone ==
    /\ "refresh" \in timers
    /\ timers' = timers \ {"refresh"}
    /\ refresh' = IF view = None \/ switch # None THEN refresh
                  ELSE [mission |-> view.mission, read |-> 0]
    /\ UNCHANGED <<database, boot, wire, view, switch, pending, lost, hinted, used>>

\* The timer of scheduleCurrentRefresh fires: refresh up to its fetch.
StartRefresh ==
    /\ "refresh" \in timers
    /\ timers' = timers \ {"refresh"}
    /\ refresh' = IF view = None THEN refresh ELSE [mission |-> view.mission, read |-> 0]
    /\ UNCHANGED <<database, boot, wire, view, switch, pending, lost, hinted, used>>

\* The timer of schedulePendingSwitch fires.
RetrySwitch ==
    /\ "switch" \in timers
    /\ timers' = timers \ {"switch"}
    /\ IF pending = None THEN UNCHANGED <<switch, pending, refresh, lost>>
       ELSE StartSwitch(pending)
    /\ UNCHANGED <<database, boot, wire, view, hinted, used>>

RefreshRead ==
    /\ refresh # None /\ refresh.read = 0
    /\ refresh' = [refresh EXCEPT !.read = row[refresh.mission].version]
    /\ UNCHANGED <<database, boot, wire, view, switch, pending, timers, lost, hinted, used>>

\* Another Mission may be shown by now.
RefreshArrives ==
    /\ refresh # None /\ refresh.read > 0
    /\ view' = IF view.mission = refresh.mission
               THEN Accepted(refresh.mission, refresh.read) ELSE view
    /\ refresh' = None
    /\ UNCHANGED <<database, boot, wire, switch, pending, timers, lost, hinted, used>>

RefreshFails ==
    /\ refresh # None
    /\ Uses("faults", MaxFaults)
    /\ view' = IF view.mission = refresh.mission THEN Stale ELSE view
    /\ lost' = RefreshLost
    /\ refresh' = None
    /\ UNCHANGED <<database, boot, wire, switch, pending, timers, hinted>>

-----------------------------------------------------------------------------
(* The summary and the stream.                                             *)

\* The Missions that a fetch made before the summary shows as they were.
Missed(m) ==
    \/ view # None /\ view.mission = m /\ view.version < row[m].version
    \/ switch # None /\ switch.mission = m /\ switch.read \in 1..(row[m].version - 1)

SummaryRead ==
    /\ boot.phase = "asked"
    /\ \/ /\ Changed(<<0, 0>>) = {}
          /\ boot' = [boot EXCEPT !.phase = "read"]
       \/ \E m \in Changed(<<0, 0>>) :
             /\ \A other \in Mission : ~After(StampOf(other), StampOf(m))
             /\ boot' = [boot EXCEPT !.phase = "read", !.mission = m, !.cursor = StampOf(m)]
    /\ hinted' = [m \in Mission |-> row[m].version]
    /\ lost' = [m \in Mission |-> IF Missed(m) THEN row[m].version ELSE lost[m]]
    /\ UNCHANGED <<database, wire, view, switch, pending, refresh, timers, used>>

\* The subscription starts; the latest Mission is shown unless the user chose.
SummaryArrives ==
    /\ boot.phase = "read"
    /\ boot' = [boot EXCEPT !.phase = "done"]
    /\ stream' = "connecting"
    /\ cursor' = boot.cursor
    /\ IF boot.switched \/ boot.mission = 0 THEN UNCHANGED <<switch, pending, refresh, lost>>
       ELSE StartSwitch([mission |-> boot.mission, retain |-> TRUE])
    /\ UNCHANGED <<database, sent, frames, view, timers, hinted, used>>

SummaryFails ==
    /\ boot.phase \in {"asked", "read"}
    /\ Uses("faults", MaxFaults)
    /\ boot' = [boot EXCEPT !.phase = "failed"]
    /\ UNCHANGED <<database, wire, panel, hinted>>

Connect ==
    /\ stream = "connecting"
    /\ stream' = "open"
    /\ sent' = cursor
    /\ UNCHANGED <<database, boot, frames, cursor, panel, hinted, used>>

\* A page of list_runs_updated_after: the first rows after the cursor, in order.
Pages(since) ==
    {page \in UNION {[1..n -> Changed(since)] : n \in 1..PageSize} :
        /\ \A i, j \in DOMAIN page : i < j =>
              page[i] # page[j] /\ ~After(StampOf(page[i]), StampOf(page[j]))
        /\ \A m \in Changed(since) : (\A i \in DOMAIN page : page[i] # m) =>
              Len(page) = PageSize /\ ~After(StampOf(page[Len(page)]), StampOf(m))}

\* One round of _mission_event_stream.
Poll ==
    /\ stream = "open"
    /\ \E page \in Pages(sent) :
          /\ sent' = StampOf(page[Len(page)])
          /\ frames' = frames \o [i \in 1..Len(page) |->
                [mission |-> page[i], version |-> row[page[i]].version, at |-> row[page[i]].at]]
    /\ UNCHANGED <<database, boot, stream, cursor, panel, hinted, used>>

\* Mutant of Outdated: the refresh under way is taken to be enough.
OutdatedAlone(version) == refresh = None /\ (version > view.version \/ view.stale)

\* The Mission shown is fetched again for a version it has not, or when stale.
Outdated(version) == version > view.version \/ view.stale

\* onEvent.  A Mission that is being fetched to be shown takes no hint.
Hint(e) ==
    IF view # None /\ view.mission = e.mission THEN
        /\ timers' = IF Outdated(e.version) THEN timers \cup {"refresh"} ELSE timers
        /\ UNCHANGED <<pending, lost>>
    ELSE IF pending # None /\ pending.mission = e.mission THEN
        /\ timers' = timers \cup SwitchDue
        /\ lost' = IF Idle \/ switch.read = 0 THEN lost
                   ELSE [lost EXCEPT ![e.mission] = Latest(@, e.version)]
        /\ UNCHANGED pending
    ELSE IF view = None /\ pending = None THEN
        /\ pending' = [mission |-> e.mission, retain |-> TRUE]
        /\ timers' = timers \cup {"switch"}
        /\ UNCHANGED lost
    ELSE UNCHANGED <<pending, timers, lost>>

Deliver ==
    /\ stream = "open"
    /\ frames # <<>>
    /\ LET e == Head(frames) IN
          /\ cursor' = <<e.at, e.mission>>
          /\ hinted' = [hinted EXCEPT ![e.mission] = e.version]
          /\ Hint(e)
    /\ frames' = Tail(frames)
    /\ UNCHANGED <<database, boot, stream, sent, view, switch, refresh, used>>

\* The stream breaks or cannot be opened; what was on its way is lost.
\* onReconnect runs before the next attempt.
Break ==
    /\ stream \in {"connecting", "open"}
    /\ Uses("faults", MaxFaults)
    /\ stream' = "connecting"
    /\ frames' = <<>>
    /\ timers' = timers \cup {"refresh"} \cup SwitchDue
    /\ UNCHANGED <<database, boot, sent, cursor, view, switch, pending, refresh, lost, hinted>>

\* The session or the membership ended: no more events.
Refused ==
    /\ stream = "connecting"
    /\ Uses("faults", MaxFaults)
    /\ stream' = "ended"
    /\ view' = Stale
    /\ UNCHANGED <<database, boot, sent, frames, cursor, switch, pending, refresh, timers,
                   lost, hinted>>

Browser ==
    \/ SwitchArrives \/ StartRefresh \/ RetrySwitch \/ RefreshArrives
    \/ SummaryArrives \/ Connect \/ Deliver

Server == SwitchRead \/ RefreshRead \/ SummaryRead \/ Poll

Next ==
    \/ \E m \in Mission : Begin(m)
    \/ \E t \in open : Commit(t)
    \/ \E m \in Mission, retain \in BOOLEAN : UserSwitch(m, retain)
    \/ SwitchRead \/ SwitchArrives \/ SwitchFails
    \/ StartRefresh \/ RetrySwitch
    \/ RefreshRead \/ RefreshArrives \/ RefreshFails
    \/ SummaryRead \/ SummaryArrives \/ SummaryFails
    \/ Connect \/ Poll \/ Deliver \/ Break \/ Refused

Spec == Init /\ [][Next]_vars

\* The browser's event loop and the server go on; nobody has to change a
\* Mission, to choose one, or to break the stream.
FairSpec ==
    /\ Spec
    /\ WF_vars(SwitchRead) /\ WF_vars(SwitchArrives) /\ WF_vars(StartRefresh)
    /\ WF_vars(RetrySwitch) /\ WF_vars(RefreshRead) /\ WF_vars(RefreshArrives)
    /\ WF_vars(SummaryRead) /\ WF_vars(SummaryArrives)
    /\ WF_vars(Connect) /\ WF_vars(Poll) /\ WF_vars(Deliver)

-----------------------------------------------------------------------------
(* Properties.                                                             *)

Announced(m) ==
    \/ hinted[m] = row[m].version
    \/ \E i \in DOMAIN frames : frames[i].mission = m /\ frames[i].version = row[m].version
    \/ After(StampOf(m), Watermark)

\* No change is skipped: what the browser has not been told is on its way or
\* after the cursor, also over breaks, full pages and equal stamps.  The one
\* exception is a change that commits behind the cursor.
NoChangeIsSkipped ==
    boot.phase \in {"read", "done"} =>
        \A m \in Mission : Announced(m) \/ lost[m] = row[m].version

Quiet ==
    /\ stream = "open" /\ frames = <<>> /\ Changed(sent) = {}
    /\ timers = {} /\ switch = None /\ refresh = None
    /\ view # None

\* When nothing is going on, the panel shows its Mission as it is.  What it may
\* have missed is exactly a change behind the cursor, a hint that came while
\* the Mission was being fetched to be shown, a change between the fetch of an
\* early switch and the summary, and a refresh that failed or that a switch
\* replaced.
QuietViewIsCurrent ==
    Quiet => row[view.mission].version \in {view.version, lost[view.mission]}

\* A response that was overtaken never takes the Mission shown back.
ViewNeverGoesBack ==
    [][view # None /\ view'.mission = view.mission => view'.version >= view.version]_vars

\* A due refresh, of a hint or of a reconnect, gets the panel at least to what
\* the Mission was when it was due, unless the panel says that it is stale, the
\* user looks at another Mission or the hint is lost in one of the ways above.
RefreshCatchesUp ==
    \A m \in Mission : \A v \in 2..(1 + MaxChanges) :
        ("refresh" \in timers /\ view # None /\ view.mission = m /\ row[m].version = v)
        ~> (view.mission # m \/ view.version >= v \/ view.stale \/ lost[m] >= v)

=============================================================================
