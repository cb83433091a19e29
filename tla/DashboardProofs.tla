-------------------------- MODULE DashboardProofs --------------------------
(* The theorems about Dashboard. *)
EXTENDS Dashboard, FiniteSetTheorems, SequenceTheorems, TLAPS

-----------------------------------------------------------------------------
(* Numbers and sequences *)

(* A set of numbers that is not empty has a least element: otherwise the      *)
(* successor would map its lower bounds up to one of its elements into those  *)
(* above 0, which are fewer.                                                  *)
LEMMA LeastElement ==
  ASSUME NEW S \in SUBSET Nat, S # {}
  PROVE  Min(S) \in S /\ \A k \in S : Min(S) <= k
<1>1. SUFFICES ASSUME \A k \in S : \E j \in S : j < k PROVE FALSE
  <2>1. \E k \in S : \A j \in S : k <= j
    BY <1>1
  <2> QED
    BY <2>1 DEF Min
<1>2. PICK n \in S : TRUE
  OBVIOUS
<1> DEFINE L == {k \in 0..n : \A j \in S : k <= j}
           F == [k \in L |-> k + 1]
<1>3. IsFiniteSet(L) /\ IsFiniteSet(L \ {0})
  <2>1. IsFiniteSet(0..n) /\ L \in SUBSET (0..n)
    BY <1>2, FS_Interval
  <2>2. IsFiniteSet(L)
    BY <2>1, FS_Subset
  <2> QED
    BY <2>2, FS_RemoveElement
<1>4. 0 \in L
  BY <1>2
<1>5. \A k \in L : k + 1 \in L \ {0}
  <2>1. SUFFICES ASSUME NEW k \in L PROVE k + 1 \in L \ {0}
    OBVIOUS
  <2>2. k \notin S
    BY <1>1
  <2>3. \A j \in S : k + 1 <= j
    BY <2>2
  <2> QED
    BY <1>2, <2>3
<1>6. F \in Injection(L, L \ {0})
  BY <1>5 DEF Injection, IsInjective
<1>7. Cardinality(L) <= Cardinality(L \ {0})
  <2> HIDE DEF L, F
  <2> QED
    BY <1>3, <1>6, FS_Injection
<1>8. Cardinality(L) \in Nat /\ Cardinality(L \ {0}) = Cardinality(L) - 1
  <2> HIDE DEF L
  <2> QED
    BY <1>3, <1>4, FS_RemoveElement, FS_CardinalityType
<1> QED
  BY <1>7, <1>8

-----------------------------------------------------------------------------
(* The parts of the state *)

TaskRows == [id : Tasks, attempt : Nat]
AnyRows == [id : Tasks \cup {Nobody}, attempt : Nat]
Phases == {"asked", "answered"}
ListRequests == [fresh : BOOLEAN, phase : Phases, failed : BOOLEAN, rows : Seq(TaskRows)]
DetailRequests == [fresh : BOOLEAN, phase : Phases, failed : BOOLEAN, row : TaskRows]
LogMessages == [kind : {"line", "ended", "broken"}, source : TaskRows, fresh : BOOLEAN]
Views == [rows : Seq(TaskRows), query : SUBSET Tasks, selected : Tasks \cup {Nobody},
          detail : AnyRows, refreshing : BOOLEAN, lists : SUBSET ListRequests,
          details : SUBSET DetailRequests, stream : AnyRows, streaming : BOOLEAN,
          logStop : BOOLEAN, logComplete : BOOLEAN, queue : Seq(LogMessages),
          pane : SUBSET AnyRows]
ActionRows == [confirm : {"", "retry", "cancel"}, name : {"", "retry", "cancel"},
               task : Tasks \cup {Nobody}, phase : {"none"} \cup Phases, failed : BOOLEAN,
               attempt : Nat]
Drafts == [open : BOOLEAN, modal : BOOLEAN, accepted : BOOLEAN, key : 0..MaxPresses,
           last : Payloads \cup {NoPayload}, phase : {"none"} \cup Phases, failed : BOOLEAN,
           row : AnyRows]

DashTypeOK ==
  /\ attempts \in [Tasks -> Nat]
  /\ created \subseteq [key : 1..MaxPresses, payload : Payloads, task : Tasks]
  /\ ui \in Views /\ action \in ActionRows /\ draft \in Drafts
  /\ sent \subseteq [key : 1..MaxPresses, payload : Payloads, submission : Nat \ {0}]
  /\ presses \in 0..MaxPresses /\ faults \in Nat

(* An answer names a task. *)
AnswersNameTasks ==
  /\ action.phase # "none" => action.task \in Tasks
  /\ draft.phase = "answered" /\ ~draft.failed => draft.row \in TaskRows

(* Only the stream that is open feeds the pane: a message that is in time is *)
(* of that stream, and a stream that may still send one is of a task.        *)
StreamIsOpen(u) ==
  /\ u.streaming => u.stream \in TaskRows
  /\ \A i \in DOMAIN u.queue : u.queue[i].fresh => u.queue[i].source = u.stream

(* PanesAgree, of any view. *)
Agree(u) ==
  IF u.selected = Nobody
  THEN u.detail = NoRow /\ u.pane = {} /\ ~u.logStop
  ELSE /\ u.detail.id = u.selected /\ u.stream = u.detail
       /\ u.pane \subseteq {u.detail}

Sound(u) == u \in Views /\ StreamIsOpen(u) /\ Agree(u)

(* The requests for lists: one is the latest, and what it will show leaves    *)
(* out no row that is shown now and still listed.  All rows are of tasks that *)
(* exist, which are the oldest ones.                                          *)
ListsInOrder ==
  /\ \E n \in 0..MaxTasks : Existing = 1..n
  /\ Ids(ui.rows) \cup {c.task : c \in created} \subseteq Existing
  /\ ui.selected # Nobody => ui.selected \in Existing
  /\ action.phase # "none" => action.task \in Existing
  /\ draft.phase = "answered" /\ ~draft.failed => draft.row.id \in Existing
  /\ \A l \in ui.lists : Ids(l.rows) \subseteq Existing
  /\ \A l, m \in ui.lists : l.fresh /\ m.fresh => l = m
  /\ \A l \in ui.lists : l.fresh /\ l.phase = "answered" /\ ~l.failed =>
       Ids(ui.rows) \cap Ids(Listed) \subseteq Ids(l.rows)

(* The form: submissions are numbered, each has one key, each key one        *)
(* content and one task, and the content sent last has the latest number.    *)
Submissions == {s.submission : s \in sent}
Latest == Cardinality(Submissions)

FormInOrder ==
  /\ IsFiniteSet(sent) /\ Cardinality(sent) <= presses
  /\ Submissions = 1..Latest
  /\ \A r, s \in sent : r.key = s.key => r.payload = s.payload
  /\ \A r, s \in sent : r.submission = s.submission => r.key = s.key
  /\ \A c \in created : c.key \in Keys
  /\ \A c, d \in created : c.key = d.key => c = d
  /\ draft.phase # "none" => draft.last # NoPayload
  /\ draft.last = NoPayload => draft.key = 0
  /\ draft.last # NoPayload =>
       [key |-> draft.key, payload |-> draft.last, submission |-> Latest] \in sent

DashInv ==
  DashTypeOK /\ AnswersNameTasks /\ StreamIsOpen(ui) /\ PanesAgree /\ ListsInOrder /\ FormInOrder

(* What a change of the view leaves alone. *)
SameLists(u, v) == v.lists = u.lists /\ v.refreshing = u.refreshing
SameRows(u, v) == v.rows = u.rows /\ v.query = u.query
SamePanes(u, v) ==
  /\ v.selected = u.selected /\ v.detail = u.detail /\ v.stream = u.stream
  /\ v.streaming = u.streaming /\ v.logStop = u.logStop /\ v.pane = u.pane /\ v.queue = u.queue

SelectsFrom(u, v) == v.selected \in {u.selected, Nobody} \cup Ids(v.rows)

-----------------------------------------------------------------------------
(* What each change of the view keeps *)

(* Domains are those of the configuration. *)
LEMMA Domains == /\ Nobody \notin Tasks /\ NoRow \in AnyRows /\ NoRow \notin TaskRows
                 /\ TaskRows \subseteq AnyRows
BY DashboardAssumption DEF Tasks, Nobody, NoRow, AnyRows, TaskRows

(* A request for the list leaves the panes alone. *)
LEMMA ForceRefreshKeeps ==
  ASSUME NEW u \in Views
  PROVE  /\ ForceRefresh(u) \in Views
         /\ SameRows(u, ForceRefresh(u)) /\ SamePanes(u, ForceRefresh(u))
         /\ ForceRefresh(u).lists = Stale(u.lists) \cup
              {[fresh |-> TRUE, phase |-> "asked", failed |-> FALSE, rows |-> <<>>]}
<1> DEFINE l == [fresh |-> TRUE, phase |-> "asked", failed |-> FALSE, rows |-> <<>>]
<1>1. l \in ListRequests
  BY DEF ListRequests, Phases
<1>2. Stale(u.lists) \subseteq ListRequests
  <2>1. ASSUME NEW r \in ListRequests PROVE [r EXCEPT !.fresh = FALSE] \in ListRequests
    BY <2>1 DEF ListRequests
  <2>2. u.lists \subseteq ListRequests
    BY DEF Views
  <2> QED
    BY <2>1, <2>2 DEF Stale
<1>3. Stale(u.lists) \cup {l} \in SUBSET ListRequests
  BY <1>1, <1>2
<1> DEFINE L == Stale(u.lists) \cup {l}
<1>4. ForceRefresh(u) = [u EXCEPT !.refreshing = TRUE, !.lists = L]
  BY DEF ForceRefresh
<1>5. L \in SUBSET ListRequests
  BY <1>3
<1> HIDE DEF L
<1>6. /\ [u EXCEPT !.refreshing = TRUE, !.lists = L] \in Views
      /\ SameRows(u, [u EXCEPT !.refreshing = TRUE, !.lists = L])
      /\ SamePanes(u, [u EXCEPT !.refreshing = TRUE, !.lists = L])
      /\ [u EXCEPT !.refreshing = TRUE, !.lists = L].lists = L
  BY <1>5 DEF Views, SameRows, SamePanes
<1> QED
  BY <1>4, <1>6 DEF L

(* The same of a refresh, which does nothing while another is under way. *)
LEMMA RefreshKeeps ==
  ASSUME NEW u \in Views
  PROVE  /\ Refresh(u) \in Views
         /\ SameRows(u, Refresh(u)) /\ SamePanes(u, Refresh(u))
         /\ Refresh(u).lists = u.lists \/ Refresh(u).lists = ForceRefresh(u).lists
BY ForceRefreshKeeps DEF Refresh, SameRows, SamePanes

(* So does a request for the details of the task that is selected. *)
LEMMA FetchDetailKeeps ==
  ASSUME NEW u \in Views, u.selected \in Tasks
  PROVE  /\ FetchDetail(u) \in Views
         /\ SameRows(u, FetchDetail(u)) /\ SamePanes(u, FetchDetail(u))
         /\ SameLists(u, FetchDetail(u))
<1> DEFINE d == [fresh |-> TRUE, phase |-> "asked", failed |-> FALSE,
                 row |-> [id |-> u.selected, attempt |-> 0]]
<1>1. d \in DetailRequests
  BY DEF DetailRequests, Phases, TaskRows
<1>2. Stale(Answered(u.details)) \subseteq DetailRequests
  <2>1. ASSUME NEW r \in DetailRequests PROVE [r EXCEPT !.fresh = FALSE] \in DetailRequests
    BY <2>1 DEF DetailRequests
  <2>2. u.details \subseteq DetailRequests
    BY DEF Views
  <2> QED
    BY <2>1, <2>2 DEF Stale, Answered
<1> DEFINE D == Stale(Answered(u.details)) \cup {d}
<1>3. FetchDetail(u) = [u EXCEPT !.details = D]
  BY DEF FetchDetail
<1>4. D \in SUBSET DetailRequests
  BY <1>1, <1>2
<1> HIDE DEF D
<1>5. /\ [u EXCEPT !.details = D] \in Views
      /\ SameRows(u, [u EXCEPT !.details = D])
      /\ SamePanes(u, [u EXCEPT !.details = D])
      /\ SameLists(u, [u EXCEPT !.details = D])
  BY <1>4 DEF Views, SameRows, SamePanes, SameLists
<1> QED
  BY <1>3, <1>5

(* A stream that is opened empties the pane and makes every message stale. *)
LEMMA StartLogsOpens ==
  ASSUME NEW u \in Views, u.selected \in Tasks
  PROVE  /\ StartLogs(u) \in Views
         /\ SameRows(u, StartLogs(u)) /\ SameLists(u, StartLogs(u))
         /\ StartLogs(u).selected = u.selected /\ StartLogs(u).detail = u.detail
         /\ StartLogs(u).stream = [id |-> u.selected, attempt |-> u.detail.attempt]
         /\ StartLogs(u).stream \in TaskRows
         /\ StartLogs(u).pane = {}
         /\ \A i \in DOMAIN StartLogs(u).queue : ~StartLogs(u).queue[i].fresh
<1> DEFINE w == [id |-> u.selected, attempt |-> u.detail.attempt]
           q == [i \in DOMAIN u.queue |-> [u.queue[i] EXCEPT !.fresh = FALSE]]
<1>1. w \in TaskRows /\ w \in AnyRows
  BY DEF Views, AnyRows, TaskRows
<1>2. /\ q \in Seq(LogMessages)
      /\ \A i \in DOMAIN q : ~q[i].fresh
  <2>1. u.queue \in Seq(LogMessages) /\ DOMAIN u.queue = 1..Len(u.queue) /\ Len(u.queue) \in Nat
    BY DEF Views
  <2>2. ASSUME NEW i \in DOMAIN u.queue
        PROVE  /\ [u.queue[i] EXCEPT !.fresh = FALSE] \in LogMessages
               /\ [u.queue[i] EXCEPT !.fresh = FALSE].fresh = FALSE
    <3>1. u.queue[i] \in LogMessages
      BY <2>1
    <3> QED
      BY <3>1 DEF LogMessages
  <2>3. q \in [1..Len(u.queue) -> LogMessages]
    BY <2>1, <2>2
  <2> QED
    BY <2>1, <2>2, <2>3
<1>3. u.selected # Nobody
  BY Domains
<1>4. StopStream(u).queue = u.queue /\ StopStream(u) \in Views
      /\ StopStream(u) = [u EXCEPT !.streaming = FALSE, !.logStop = FALSE]
  BY DEF StopStream, Views
<1>5. StartLogs(u) = [StopStream(u) EXCEPT !.stream = w, !.streaming = TRUE, !.logStop = TRUE,
                                           !.logComplete = FALSE, !.queue = q, !.pane = {}]
  BY <1>3, <1>4 DEF StartLogs
<1> HIDE DEF w, q
<1>7. /\ StartLogs(u) \in Views /\ SameRows(StopStream(u), StartLogs(u))
      /\ SameLists(StopStream(u), StartLogs(u)) /\ StartLogs(u).selected = StopStream(u).selected
      /\ StartLogs(u).detail = StopStream(u).detail /\ StartLogs(u).stream = w
      /\ StartLogs(u).pane = {} /\ StartLogs(u).queue = q
  <2>1. PICK s \in Views : s = StopStream(u)
    BY <1>4
  <2>2. StartLogs(u) = [s EXCEPT !.stream = w, !.streaming = TRUE, !.logStop = TRUE,
                                 !.logComplete = FALSE, !.queue = q, !.pane = {}]
    BY <1>5, <2>1
  <2>3. /\ StartLogs(u) \in Views /\ SameRows(s, StartLogs(u))
        /\ SameLists(s, StartLogs(u)) /\ StartLogs(u).selected = s.selected
        /\ StartLogs(u).detail = s.detail /\ StartLogs(u).stream = w
        /\ StartLogs(u).pane = {} /\ StartLogs(u).queue = q
    BY <1>1, <1>2, <2>2 DEF Views, SameRows, SameLists
  <2> QED
    BY <2>1, <2>3
<1>8. /\ SameRows(u, StopStream(u)) /\ SameLists(u, StopStream(u))
      /\ StopStream(u).selected = u.selected /\ StopStream(u).detail = u.detail
  BY DEF StopStream, Views, SameRows, SameLists
<1>9. SameRows(u, StartLogs(u)) /\ SameLists(u, StartLogs(u))
  BY <1>7, <1>8 DEF SameRows, SameLists
<1>10. StartLogs(u).selected = u.selected /\ StartLogs(u).detail = u.detail
  BY <1>7, <1>8
<1>11. StartLogs(u).stream = [id |-> u.selected, attempt |-> u.detail.attempt]
  BY <1>7 DEF w
<1>12. StartLogs(u).stream \in TaskRows
  BY <1>1, <1>7
<1>13. \A i \in DOMAIN StartLogs(u).queue : ~StartLogs(u).queue[i].fresh
  BY <1>2, <1>7
<1> QED
  BY <1>7, <1>9, <1>10, <1>11, <1>12, <1>13

(* The ids of rows. *)
LEMMA IdsOfRows ==
  ASSUME NEW rows \in Seq(TaskRows)
  PROVE  /\ Ids(rows) = {rows[i].id : i \in 1..Len(rows)}
         /\ Ids(rows) \subseteq Tasks
         /\ Range(rows) \subseteq TaskRows
<1>1. DOMAIN rows = 1..Len(rows) /\ \A i \in 1..Len(rows) : rows[i] \in TaskRows
  OBVIOUS
<1>2. Ids(rows) = {rows[i].id : i \in 1..Len(rows)}
  BY <1>1 DEF Ids, Range
<1>3. \A r \in TaskRows : r.id \in Tasks
  BY DEF TaskRows
<1> QED
  BY <1>1, <1>2, <1>3 DEF Range

(* A view on which some task is selected anew is sound, whatever it was.     *)
LEMMA SelectTaskSound ==
  ASSUME NEW u \in Views, NEW t \in Ids(u.rows)
  PROVE  /\ Sound(SelectTask(u, t)) /\ SelectTask(u, t).selected = t
         /\ SameRows(u, SelectTask(u, t)) /\ SameLists(u, SelectTask(u, t))
<1> DEFINE r == CHOOSE r \in Range(u.rows) : r.id = t
<1>1. t \in Tasks /\ r \in TaskRows /\ r.id = t
  <2>1. u.rows \in Seq(TaskRows)
    BY DEF Views
  <2>2. \E x \in Range(u.rows) : x.id = t
    BY DEF Ids
  <2> QED
    BY <2>1, <2>2, IdsOfRows
<1> DEFINE v == [u EXCEPT !.selected = t, !.detail = r]
<1>2. SelectTask(u, t) = StartLogs(FetchDetail(v))
  BY DEF SelectTask
<1> HIDE DEF r
<1>3. /\ v \in Views /\ v.selected = t /\ v.detail = r
      /\ SameRows(u, v) /\ SameLists(u, v)
  BY <1>1, Domains DEF Views, SameRows, SameLists
<1> HIDE DEF v
<1>4. /\ FetchDetail(v) \in Views /\ SameRows(v, FetchDetail(v)) /\ SameLists(v, FetchDetail(v))
      /\ FetchDetail(v).selected = t /\ FetchDetail(v).detail = r
  BY <1>1, <1>3, FetchDetailKeeps DEF SamePanes
<1> DEFINE w == FetchDetail(v)
<1> HIDE DEF w
<1>5. w \in Views /\ w.selected = t /\ w.detail = r /\ SelectTask(u, t) = StartLogs(w)
  BY <1>2, <1>4 DEF w
<1>6. /\ SelectTask(u, t) \in Views /\ SelectTask(u, t).selected = t
      /\ SelectTask(u, t).detail = r
      /\ SelectTask(u, t).stream = [id |-> t, attempt |-> r.attempt]
      /\ SelectTask(u, t).stream \in TaskRows
      /\ SelectTask(u, t).pane = {}
      /\ \A i \in DOMAIN SelectTask(u, t).queue : ~SelectTask(u, t).queue[i].fresh
      /\ SameRows(w, SelectTask(u, t)) /\ SameLists(w, SelectTask(u, t))
  BY <1>1, <1>5, StartLogsOpens
<1>7. r = [id |-> t, attempt |-> r.attempt]
  BY <1>1 DEF TaskRows
<1>8. StreamIsOpen(SelectTask(u, t)) /\ Agree(SelectTask(u, t))
  BY <1>1, <1>6, <1>7, Domains DEF StreamIsOpen, Agree
<1>9. SameRows(u, SelectTask(u, t)) /\ SameLists(u, SelectTask(u, t))
  BY <1>3, <1>4, <1>6 DEF SameRows, SameLists, w
<1> QED
  BY <1>6, <1>8, <1>9 DEF Sound

(* So is one on which nothing is selected any more. *)
LEMMA ClearTaskSelectionSound ==
  ASSUME NEW u \in Views, StreamIsOpen(u)
  PROVE  /\ Sound(ClearTaskSelection(u))
         /\ SameRows(u, ClearTaskSelection(u)) /\ SameLists(u, ClearTaskSelection(u))
         /\ ClearTaskSelection(u).selected = Nobody
<1>1. PICK s \in Views : s = StopStream(u) /\ s = [u EXCEPT !.streaming = FALSE, !.logStop = FALSE]
  BY DEF StopStream, Views
<1>2. /\ s.queue = u.queue /\ s.stream = u.stream /\ s.details = u.details /\ ~s.streaming
      /\ ~s.logStop /\ SameRows(u, s) /\ SameLists(u, s)
  BY <1>1 DEF Views, SameRows, SameLists
<1> DEFINE D == Answered(s.details)
<1>3. D \in SUBSET DetailRequests
  BY <1>1 DEF Answered, Views
<1>4. ClearTaskSelection(u) = [s EXCEPT !.details = D, !.selected = Nobody, !.detail = NoRow,
                                        !.pane = {}, !.logComplete = FALSE]
  BY <1>1 DEF ClearTaskSelection
<1> HIDE DEF D
<1>5. /\ ClearTaskSelection(u) \in Views
      /\ SameRows(s, ClearTaskSelection(u)) /\ SameLists(s, ClearTaskSelection(u))
      /\ ClearTaskSelection(u).selected = Nobody /\ ClearTaskSelection(u).detail = NoRow
      /\ ClearTaskSelection(u).pane = {} /\ ClearTaskSelection(u).streaming = s.streaming
      /\ ClearTaskSelection(u).logStop = s.logStop /\ ClearTaskSelection(u).queue = s.queue
      /\ ClearTaskSelection(u).stream = s.stream
  <2> DEFINE c == ClearTaskSelection(u)
  <2>1. c = [rows |-> s.rows, query |-> s.query, selected |-> Nobody, detail |-> NoRow,
             refreshing |-> s.refreshing, lists |-> s.lists, details |-> D, stream |-> s.stream,
             streaming |-> s.streaming, logStop |-> s.logStop, logComplete |-> FALSE,
             queue |-> s.queue, pane |-> {}]
    BY <1>1, <1>4 DEF Views
  <2> HIDE DEF c
  <2>2. c \in Views
    BY <1>1, <1>3, <2>1, Domains DEF Views
  <2>3. SameRows(s, c) /\ SameLists(s, c)
    BY <2>1 DEF SameRows, SameLists
  <2>4. /\ c.selected = Nobody /\ c.detail = NoRow /\ c.pane = {} /\ c.streaming = s.streaming
        /\ c.logStop = s.logStop /\ c.queue = s.queue /\ c.stream = s.stream
    BY <2>1
  <2> QED
    BY <2>2, <2>3, <2>4 DEF c
<1>6. StreamIsOpen(ClearTaskSelection(u)) /\ Agree(ClearTaskSelection(u))
  BY <1>2, <1>5 DEF StreamIsOpen, Agree
<1>7. SameRows(u, ClearTaskSelection(u)) /\ SameLists(u, ClearTaskSelection(u))
  BY <1>2, <1>5 DEF SameRows, SameLists
<1> QED
  BY <1>5, <1>6, <1>7 DEF Sound

(* A list that replaces the rows moves the selection into it, or off. *)
LEMMA RefreshTasksKeeps ==
  ASSUME NEW u \in Views, NEW rows \in Seq(TaskRows)
  PROVE  /\ RefreshTasks(u, rows) \in Views /\ RefreshTasks(u, rows).rows = rows
         /\ SameLists(u, RefreshTasks(u, rows))
         /\ RefreshTasks(u, rows).query = u.query
         /\ StreamIsOpen(u) => StreamIsOpen(RefreshTasks(u, rows))
         /\ RefreshTasks(u, rows).selected = u.selected =>
              (Agree(u) => Agree(RefreshTasks(u, rows)))
         /\ RefreshTasks(u, rows).detail = u.detail
         /\ SelectsFrom(u, RefreshTasks(u, rows))
         /\ u.selected \in Ids(rows) => RefreshTasks(u, rows).selected = u.selected
<1> DEFINE t == IF u.selected \in Ids(rows) THEN u.selected
                ELSE IF rows = <<>> THEN Nobody ELSE rows[1].id
<1>1. /\ t \in Tasks \cup {Nobody} /\ t \in {u.selected, Nobody} \cup Ids(rows)
      /\ u.selected \in Ids(rows) => t = u.selected
  <2>1. rows # <<>> => rows[1] \in TaskRows /\ 1 \in 1..Len(rows)
    OBVIOUS
  <2>2. rows # <<>> => rows[1].id \in Ids(rows)
    BY <2>1, IdsOfRows
  <2> QED
    BY <2>2, IdsOfRows
<1>2. RefreshTasks(u, rows) = [u EXCEPT !.rows = rows, !.selected = t]
  <2>1. u.selected = [u EXCEPT !.rows = rows].selected
    BY DEF Views
  <2> QED
    BY <2>1 DEF RefreshTasks
<1> HIDE DEF t
<1>3. /\ RefreshTasks(u, rows) \in Views /\ RefreshTasks(u, rows).rows = rows
      /\ SameLists(u, RefreshTasks(u, rows)) /\ RefreshTasks(u, rows).query = u.query
      /\ RefreshTasks(u, rows).detail = u.detail /\ RefreshTasks(u, rows).stream = u.stream
      /\ RefreshTasks(u, rows).streaming = u.streaming /\ RefreshTasks(u, rows).queue = u.queue
      /\ RefreshTasks(u, rows).pane = u.pane /\ RefreshTasks(u, rows).logStop = u.logStop
      /\ RefreshTasks(u, rows).selected = t
  BY <1>1, <1>2 DEF Views, SameLists
<1>4. StreamIsOpen(u) => StreamIsOpen(RefreshTasks(u, rows))
  BY <1>3 DEF StreamIsOpen
<1>5. RefreshTasks(u, rows).selected = u.selected => (Agree(u) => Agree(RefreshTasks(u, rows)))
  BY <1>3 DEF Agree
<1>6. /\ SelectsFrom(u, RefreshTasks(u, rows))
      /\ u.selected \in Ids(rows) => RefreshTasks(u, rows).selected = u.selected
  BY <1>1, <1>3 DEF SelectsFrom
<1> QED
  BY <1>3, <1>4, <1>5, <1>6

(* The first visible row is a row. *)
LEMMA FirstVisibleIsVisible ==
  ASSUME NEW u \in Views, Visible(u) # {}
  PROVE  FirstVisible(u) \in Visible(u)
<1>1. u.rows \in Seq(TaskRows) /\ DOMAIN u.rows = 1..Len(u.rows) /\ Len(u.rows) \in Nat
  BY DEF Views
<1> DEFINE I == {i \in DOMAIN u.rows : u.rows[i].id \in u.query}
<1>2. I \in SUBSET Nat /\ I # {}
  BY <1>1, IdsOfRows DEF Visible
<1>3. Min(I) \in I
  <2> HIDE DEF I
  <2> QED
    BY <1>2, LeastElement
<1>4. FirstVisible(u) = u.rows[Min(I)].id
  BY DEF FirstVisible
<1> QED
  BY <1>1, <1>3, <1>4, IdsOfRows DEF Visible

(* A search, or a list, that hides the selected task selects one it shows.   *)
LEMMA ReconcileSound ==
  ASSUME NEW u \in Views, StreamIsOpen(u), u.selected \in Visible(u) => Agree(u)
  PROVE  /\ Sound(ReconcileSearchSelection(u))
         /\ SameRows(u, ReconcileSearchSelection(u)) /\ SameLists(u, ReconcileSearchSelection(u))
         /\ SelectsFrom(u, ReconcileSearchSelection(u))
<1>1. CASE u.selected \in Visible(u)
  BY <1>1 DEF ReconcileSearchSelection, Sound, SameRows, SameLists, SelectsFrom
<1>2. CASE u.selected \notin Visible(u) /\ Visible(u) = {}
  BY <1>2, ClearTaskSelectionSound DEF ReconcileSearchSelection, SelectsFrom
<1>3. CASE u.selected \notin Visible(u) /\ Visible(u) # {}
  <2>1. FirstVisible(u) \in Ids(u.rows)
    BY <1>3, FirstVisibleIsVisible DEF Visible
  <2> QED
    BY <1>3, <2>1, SelectTaskSound DEF ReconcileSearchSelection, SelectsFrom, SameRows
<1> QED
  BY <1>1, <1>2, <1>3

(* A list that is shown leaves a sound view sound, and a selection that the  *)
(* list has and the search shows where it is.                                *)
LEMMA ShowTasksSound ==
  ASSUME NEW u \in Views, Sound(u), NEW rows \in Seq(TaskRows)
  PROVE  /\ Sound(ShowTasks(u, rows)) /\ ShowTasks(u, rows).rows = rows
         /\ SameLists(u, ShowTasks(u, rows)) /\ SelectsFrom(u, ShowTasks(u, rows))
         /\ u.selected \in Ids(rows) \cap u.query => ShowTasks(u, rows).selected = u.selected
<1>1. PICK v \in Views : v = RefreshTasks(u, rows)
  BY RefreshTasksKeeps
<1>2. /\ v.rows = rows /\ SameLists(u, v) /\ StreamIsOpen(v) /\ v.detail = u.detail
      /\ v.selected = u.selected => Agree(v)
      /\ SelectsFrom(u, v)
      /\ u.selected \in Ids(rows) \cap u.query => v.selected = u.selected /\ v.selected \in Visible(v)
  BY <1>1, RefreshTasksKeeps DEF Sound, Visible
<1>3. CASE v.selected \notin Visible(v)
  <2>1. ShowTasks(u, rows) = ReconcileSearchSelection(v)
    BY <1>1, <1>3 DEF ShowTasks
  <2> QED
    BY <1>2, <1>3, <2>1, ReconcileSound DEF SameRows, SameLists, SelectsFrom
<1>4. CASE v.selected \in Visible(v) /\ (v.selected # u.selected \/ u.detail = NoRow)
  <2>1. ShowTasks(u, rows) = SelectTask(v, v.selected) /\ v.selected \in Ids(v.rows)
    BY <1>1, <1>4 DEF ShowTasks, Visible
  <2> QED
    BY <1>2, <2>1, SelectTaskSound DEF SameRows, SameLists, SelectsFrom
<1>5. CASE v.selected \in Visible(v) /\ ~(v.selected # u.selected \/ u.detail = NoRow)
  <2>1. ShowTasks(u, rows) = FetchDetail(v)
    BY <1>1, <1>5 DEF ShowTasks
  <2>2. v.selected \in Tasks
    <3>1. v.rows \in Seq(TaskRows)
      BY DEF Views
    <3> QED
      BY <1>5, <3>1, IdsOfRows DEF Visible
  <2>3. /\ ShowTasks(u, rows) \in Views /\ SameRows(v, ShowTasks(u, rows))
        /\ SamePanes(v, ShowTasks(u, rows)) /\ SameLists(v, ShowTasks(u, rows))
    BY <2>1, <2>2, FetchDetailKeeps
  <2>4. Sound(ShowTasks(u, rows))
    BY <1>2, <1>5, <2>3 DEF Sound, SamePanes, StreamIsOpen, Agree
  <2> QED
    BY <1>2, <2>3, <2>4 DEF SameRows, SameLists, SelectsFrom, SamePanes
<1> QED
  BY <1>3, <1>4, <1>5

(* So does a row of the selected task that comes with an answer. *)
LEMMA ShowAttemptSound ==
  ASSUME NEW u \in Views, Sound(u), NEW row \in TaskRows, row.id = u.selected
  PROVE  /\ Sound(ShowAttempt(u, row))
         /\ SameRows(u, ShowAttempt(u, row)) /\ SameLists(u, ShowAttempt(u, row))
         /\ ShowAttempt(u, row).selected = u.selected
<1> DEFINE w == [u EXCEPT !.detail = row]
<1>1. PICK v \in Views :
        /\ v = [u EXCEPT !.detail = row] /\ v.selected = u.selected /\ v.detail = row
        /\ v.stream = u.stream /\ v.pane = u.pane /\ v.queue = u.queue
        /\ v.streaming = u.streaming /\ SameRows(u, v) /\ SameLists(u, v)
  <2>1. w \in Views
    BY Domains DEF Views
  <2>2. /\ w.selected = u.selected /\ w.detail = row
        /\ w.stream = u.stream /\ w.pane = u.pane /\ w.queue = u.queue
        /\ w.streaming = u.streaming /\ SameRows(u, w) /\ SameLists(u, w)
    BY DEF Views, SameRows, SameLists
  <2> QED
    BY <2>1, <2>2
<1>2. u.selected \in Tasks /\ u.selected # Nobody
  BY Domains DEF TaskRows
<1>3. row = [id |-> u.selected, attempt |-> row.attempt]
  BY DEF TaskRows
<1>4. CASE u.detail.attempt = row.attempt
  <2>1. ShowAttempt(u, row) = v
    BY <1>1, <1>4 DEF ShowAttempt
  <2>2. u.detail = row
    <3>1. u.detail = [id |-> u.detail.id, attempt |-> u.detail.attempt]
      BY DEF Views, AnyRows
    <3> QED
      BY <1>2, <1>3, <1>4, <3>1 DEF Sound, Agree
  <2>3. StreamIsOpen(v) /\ Agree(v)
    BY <1>1, <1>2, <2>2 DEF Sound, StreamIsOpen, Agree
  <2> QED
    BY <1>1, <2>1, <2>3 DEF Sound
<1>5. CASE u.detail.attempt # row.attempt
  <2>1. ShowAttempt(u, row) = StartLogs(v)
    BY <1>1, <1>5 DEF ShowAttempt
  <2>2. /\ StartLogs(v) \in Views /\ SameRows(v, StartLogs(v)) /\ SameLists(v, StartLogs(v))
        /\ StartLogs(v).selected = u.selected /\ StartLogs(v).detail = row
        /\ StartLogs(v).stream = row /\ StartLogs(v).stream \in TaskRows /\ StartLogs(v).pane = {}
        /\ \A i \in DOMAIN StartLogs(v).queue : ~StartLogs(v).queue[i].fresh
    BY <1>1, <1>2, <1>3, StartLogsOpens
  <2>3. StreamIsOpen(StartLogs(v)) /\ Agree(StartLogs(v))
    BY <1>2, <2>2 DEF StreamIsOpen, Agree
  <2> QED
    BY <1>1, <2>1, <2>2, <2>3 DEF Sound, SameRows, SameLists
<1> QED
  BY <1>4, <1>5

(* A page holds the first rows. *)
LEMMA NewestKeeps ==
  ASSUME NEW rows \in Seq(TaskRows)
  PROVE  /\ Newest(rows, TaskLimit) \in Seq(TaskRows)
         /\ Ids(Newest(rows, TaskLimit)) \subseteq Ids(rows)
         /\ rows # <<>> => rows[1].id \in Ids(Newest(rows, TaskLimit))
<1> DEFINE n == IF Len(rows) < TaskLimit THEN Len(rows) ELSE TaskLimit
<1>1. n \in 0..Len(rows) /\ (rows # <<>> => n # 0)
  BY DashboardAssumption
<1>2. Newest(rows, TaskLimit) = SubSeq(rows, 1, n)
  BY DEF Newest
<1> HIDE DEF n
<1>3. /\ SubSeq(rows, 1, n) \in Seq(TaskRows) /\ Len(SubSeq(rows, 1, n)) = n
      /\ \A i \in 1..n : SubSeq(rows, 1, n)[i] = rows[i]
  BY <1>1
<1>4. Ids(SubSeq(rows, 1, n)) = {SubSeq(rows, 1, n)[i].id : i \in 1..n}
  BY <1>3, IdsOfRows
<1>5. Ids(SubSeq(rows, 1, n)) \subseteq Ids(rows)
  BY <1>1, <1>3, <1>4, IdsOfRows
<1>6. rows # <<>> => rows[1].id \in Ids(SubSeq(rows, 1, n))
  BY <1>1, <1>3, <1>4
<1> QED
  BY <1>2, <1>3, <1>5, <1>6

(* Without the row of one task, the others are left. *)
LEMMA OthersKeep ==
  ASSUME NEW rows \in Seq(TaskRows), NEW t
  PROVE  Without(rows, t) \in Seq(TaskRows) /\ Ids(Without(rows, t)) \subseteq Ids(rows)
<1> DEFINE I == {i \in 1..Len(rows) : rows[i].id = t}
           o == Without(rows, t)
<1>1. CASE I = {}
  BY <1>1 DEF Without, RemoveFirstMatch
<1>2. CASE I # {}
  <2>1. Min(I) \in I
    <3>1. I \in SUBSET Nat
      OBVIOUS
    <3> HIDE DEF I
    <3> QED
      BY <1>2, <3>1, LeastElement
  <2>2. o = RemoveAt(rows, Min(I))
    BY <1>2 DEF Without, RemoveFirstMatch, SelectInSeq
  <2>3. PICK k \in 1..Len(rows) : k = Min(I)
    BY <2>1
  <2> DEFINE a == SubSeq(rows, 1, k - 1)
             b == SubSeq(rows, k + 1, Len(rows))
  <2>4. o = a \o b
    BY <2>2, <2>3 DEF RemoveAt
  <2>5. /\ a \in Seq(TaskRows) /\ Len(a) = k - 1 /\ \A i \in 1..Len(a) : a[i] = rows[i]
        /\ b \in Seq(TaskRows) /\ Len(b) = Len(rows) - k
        /\ \A i \in 1..Len(b) : b[i] = rows[i + k]
    OBVIOUS
  <2> HIDE DEF a, b, o
  <2>6. /\ o \in Seq(TaskRows) /\ Len(o) = Len(rows) - 1
        /\ \A i \in 1..Len(o) : o[i] = IF i <= Len(a) THEN a[i] ELSE b[i - Len(a)]
    <3>1. /\ a \o b \in Seq(TaskRows) /\ Len(a \o b) = Len(a) + Len(b)
          /\ \A i \in 1..Len(a) + Len(b) : (a \o b)[i] = IF i <= Len(a) THEN a[i] ELSE b[i - Len(a)]
      BY <2>5, ConcatProperties
    <3>2. Len(a) + Len(b) = Len(rows) - 1
      BY <2>5
    <3> QED
      BY <2>4, <3>1, <3>2
  <2>7. \A i \in 1..Len(o) : \E j \in 1..Len(rows) : o[i] = rows[j]
    <3>1. SUFFICES ASSUME NEW i \in 1..Len(o) PROVE \E j \in 1..Len(rows) : o[i] = rows[j]
      OBVIOUS
    <3>2. CASE i <= Len(a)
      BY <2>5, <2>6, <3>2
    <3>3. CASE i > Len(a)
      <4>1. o[i] = b[i - Len(a)] /\ i - Len(a) \in 1..Len(b)
        BY <2>5, <2>6, <3>3
      <4>2. i - Len(a) + k \in 1..Len(rows)
        BY <2>5, <4>1
      <4> QED
        BY <2>5, <4>1, <4>2
    <3> QED
      BY <2>5, <3>2, <3>3
  <2>8. Ids(o) = {o[i].id : i \in 1..Len(o)}
    BY <2>6, IdsOfRows
  <2>9. Ids(o) \subseteq Ids(rows)
    BY <2>7, <2>8, IdsOfRows
  <2> QED
    BY <2>6, <2>9 DEF o
<1> QED
  BY <1>1, <1>2

(* A task that was created is selected, and only what was shown is shown     *)
(* with it.                                                                  *)
LEMMA ShowCreatedSound ==
  ASSUME NEW u \in Views, NEW row \in TaskRows
  PROVE  /\ Sound(ShowCreated(u, row))
         /\ ShowCreated(u, row).lists = ForceRefresh(u).lists
         /\ Ids(ShowCreated(u, row).rows) \subseteq Ids(u.rows) \cup {row.id}
         /\ SelectsFrom(u, ShowCreated(u, row))
<1> DEFINE q == IF row.id \in u.query THEN u.query ELSE Tasks
           o == Without(u.rows, row.id)
           page == <<row>> \o o
           rows == Newest(page, TaskLimit)
<1>1. PICK v \in Views : v = [u EXCEPT !.query = q] /\ SameLists(u, v) /\ v.rows = u.rows
  <2>1. q \in SUBSET Tasks
    BY DEF Views
  <2> HIDE DEF q
  <2> DEFINE w == [u EXCEPT !.query = q]
  <2>2. w \in Views /\ SameLists(u, w) /\ w.rows = u.rows
    BY <2>1 DEF Views, SameLists
  <2> QED
    BY <2>2
<1>2. /\ o \in Seq(TaskRows) /\ Ids(o) \subseteq Ids(u.rows)
  <2>1. u.rows \in Seq(TaskRows)
    BY DEF Views
  <2> QED
    BY <2>1, OthersKeep
<1>3. /\ page \in Seq(TaskRows) /\ page # <<>> /\ page[1] = row
      /\ Ids(page) \subseteq Ids(u.rows) \cup {row.id}
  <2> HIDE DEF o
  <2>1. /\ page \in Seq(TaskRows) /\ page # <<>> /\ page[1] = row
        /\ Len(page) = Len(o) + 1 /\ \A i \in 1..Len(page) : i # 1 => page[i] = o[i - 1]
    <3>1. <<row>> \in Seq(TaskRows) /\ Len(<<row>>) = 1 /\ <<row>>[1] = row
      OBVIOUS
    <3> QED
      BY <1>2, <3>1, ConcatProperties
  <2>2. Ids(page) = {page[i].id : i \in 1..Len(page)} /\ Ids(o) = {o[i].id : i \in 1..Len(o)}
    BY <1>2, <2>1, IdsOfRows
  <2>3. \A i \in 1..Len(page) : page[i].id = row.id \/ page[i].id \in Ids(o)
    <3>1. SUFFICES ASSUME NEW i \in 1..Len(page), i # 1 PROVE page[i].id \in Ids(o)
      BY <2>1
    <3>2. i - 1 \in 1..Len(o) /\ page[i] = o[i - 1]
      <4>1. Len(o) \in Nat
        BY <1>2
      <4> HIDE DEF page
      <4> QED
        BY <2>1, <3>1, <4>1
    <3> QED
      BY <2>2, <3>2
  <2> QED
    BY <1>2, <2>1, <2>2, <2>3
<1>4. /\ rows \in Seq(TaskRows) /\ row.id \in Ids(rows)
      /\ Ids(rows) \subseteq Ids(u.rows) \cup {row.id}
  <2> HIDE DEF page
  <2> QED
    BY <1>3, NewestKeeps
<1> HIDE DEF o, page, rows
<1>5. PICK w \in Views : w = RefreshTasks(v, rows) /\ w.rows = rows /\ SameLists(v, w)
  BY <1>4, RefreshTasksKeeps
<1>6. PICK x \in Views : x = SelectTask(w, row.id) /\ Sound(x) /\ x.rows = rows /\ SameLists(w, x)
                           /\ x.selected = row.id
  BY <1>4, <1>5, SelectTaskSound DEF Sound, SameRows
<1>7. ShowCreated(u, row) = ForceRefresh(x)
  BY <1>1, <1>5, <1>6 DEF ShowCreated, rows, page, o
<1>8. Sound(ForceRefresh(x)) /\ ForceRefresh(x).rows = rows /\ ForceRefresh(x).selected = row.id
  BY <1>6, ForceRefreshKeeps DEF Sound, SamePanes, SameRows, StreamIsOpen, Agree
<1>9. ForceRefresh(x).lists = ForceRefresh(u).lists
  <2>1. x.lists = u.lists
    BY <1>1, <1>5, <1>6 DEF SameLists
  <2>2. \A y \in Views : ForceRefresh(y).lists = Stale(y.lists) \cup
          {[fresh |-> TRUE, phase |-> "asked", failed |-> FALSE, rows |-> <<>>]}
    BY ForceRefreshKeeps
  <2>3. x \in Views /\ u \in Views
    BY <1>6
  <2> QED
    BY <2>1, <2>2, <2>3
<1> QED
  BY <1>4, <1>7, <1>8, <1>9 DEF SelectsFrom

-----------------------------------------------------------------------------
(* How a step moves the view *)

(* The rows and the requests for lists. *)
ListMoves ==
  \/ ui'.rows = ui.rows /\ ui'.lists \in {ui.lists, ForceRefresh(ui).lists}
  \/ \E l \in ui.lists, m \in ListRequests :
       /\ ui'.rows = ui.rows /\ ui'.lists = (ui.lists \ {l}) \cup {m} /\ m.fresh = l.fresh
       /\ \/ m.failed /\ m.rows = l.rows
          \/ m.rows = Listed
  \/ \E l \in ui.lists :
       /\ ui'.lists = ui.lists \ {l}
       /\ \/ ui'.rows = ui.rows
          \/ l.fresh /\ l.phase = "answered" /\ ~l.failed /\ ui'.rows = l.rows
  \/ /\ ApplyCreate /\ draft.phase = "answered" /\ ~draft.failed
     /\ ui'.lists = ForceRefresh(ui).lists
     /\ Ids(ui'.rows) \subseteq Ids(ui.rows) \cup {draft.row.id}

(* The selection: keys, the answer to a create and a list that lacks the      *)
(* selected task, or has it where the search hides it, move it.              *)
SelectionMoves ==
  \/ ui'.selected = ui.selected
  \/ presses' # presses
  \/ ApplyCreate
  \/ \E l \in ui.lists : /\ l.fresh /\ l.phase = "answered" /\ ~l.failed
                         /\ ui.selected \notin Ids(l.rows) \cap ui.query

(* The rows of any number of tasks, the newest first. *)
LEMMA RowsByAge ==
  ASSUME NEW runs \in [Tasks -> Nat], NEW count \in 0..MaxTasks, NEW rows,
         DOMAIN rows = 1..count, rows = [i \in DOMAIN rows |-> rows[i]],
         \A i \in 1..count : rows[i] = [id |-> count + 1 - i, attempt |-> runs[count + 1 - i]]
  PROVE  rows \in Seq(TaskRows) /\ Len(rows) = count /\ \A i \in 1..count : rows[i].id = count + 1 - i
<1>1. \A i \in 1..count : rows[i] \in TaskRows /\ rows[i].id = count + 1 - i
  <2>1. SUFFICES ASSUME NEW i \in 1..count
                 PROVE  rows[i] \in TaskRows /\ rows[i].id = count + 1 - i
    OBVIOUS
  <2>2. count + 1 - i \in Tasks
    BY DashboardAssumption DEF Tasks
  <2>3. runs[count + 1 - i] \in Nat
    BY <2>2
  <2>4. rows[i] = [id |-> count + 1 - i, attempt |-> runs[count + 1 - i]]
    OBVIOUS
  <2> QED
    BY <2>2, <2>3, <2>4 DEF TaskRows
<1>2. count \in Nat /\ DOMAIN rows = 1..count /\ rows = [i \in 1..count |-> rows[i]]
  BY DashboardAssumption
<1>3. rows \in [1..count -> TaskRows]
  BY <1>1, <1>2
<1>4. ASSUME NEW s \in [1..count -> TaskRows] PROVE s \in Seq(TaskRows) /\ Len(s) = count
  BY <1>2
<1> QED
  BY <1>1, <1>3, <1>4

(* The first page of them holds the newest. *)
LEMMA NewestRows ==
  ASSUME NEW f \in Seq(TaskRows), NEW n \in Nat, Len(f) = n,
         \A i \in 1..n : f[i].id = n + 1 - i
  PROVE  /\ Newest(f, TaskLimit) \in Seq(TaskRows)
         /\ Ids(Newest(f, TaskLimit)) = {t \in 1..n : t > n - TaskLimit}
<1> DEFINE k == IF n < TaskLimit THEN n ELSE TaskLimit
           page == Newest(f, TaskLimit)
<1>4. k \in 0..n
  BY DashboardAssumption
<1>5. page = SubSeq(f, 1, k)
  BY DEF Newest
<1>6. page \in Seq(TaskRows) /\ Len(page) = k /\ \A i \in 1..k : page[i] = f[i]
  <2> HIDE DEF k, page
  <2> QED
    BY <1>4, <1>5
<1>7. Ids(page) = {n + 1 - i : i \in 1..k}
  <2>1. \A i \in 1..k : page[i].id = n + 1 - i
    BY <1>4, <1>6
  <2> HIDE DEF page, k
  <2> QED
    BY <1>6, <2>1, IdsOfRows
<1>8. {n + 1 - i : i \in 1..k} = {t \in 1..n : t > n - TaskLimit}
  <2>1. ASSUME NEW i \in 1..k PROVE n + 1 - i \in {t \in 1..n : t > n - TaskLimit}
    BY DashboardAssumption
  <2>2. ASSUME NEW t \in 1..n, t > n - TaskLimit PROVE t \in {n + 1 - i : i \in 1..k}
    <3>1. n + 1 - t \in 1..k /\ n + 1 - (n + 1 - t) = t
      BY <2>2, DashboardAssumption
    <3> QED
      BY <3>1
  <2> QED
    BY <2>1, <2>2
<1> QED
  BY <1>6, <1>7, <1>8

(* The rows the controller lists, before a step and after it, are the newest  *)
(* that exist.                                                               *)
LEMMA ListedRows ==
  ASSUME attempts \in [Tasks -> Nat], attempts' \in [Tasks -> Nat],
         NEW n \in 0..MaxTasks, NEW m \in 0..MaxTasks
  PROVE  Existing = 1..n /\ Existing' = 1..m =>
           /\ Listed \in Seq(TaskRows)
           /\ Ids(Listed) = {t \in 1..n : t > n - TaskLimit}
           /\ Ids(Listed') = {t \in 1..m : t > m - TaskLimit}
<1>1. PICK before, after :
        /\ before = [i \in 1..n |-> [id |-> n + 1 - i, attempt |-> attempts[n + 1 - i]]]
        /\ after = [i \in 1..m |-> [id |-> m + 1 - i, attempt |-> attempts'[m + 1 - i]]]
  OBVIOUS
<1>2. /\ before \in Seq(TaskRows) /\ Len(before) = n
      /\ \A i \in 1..n : before[i].id = n + 1 - i
  <2>1. DOMAIN before = 1..n /\ before = [i \in DOMAIN before |-> before[i]]
    BY <1>1
  <2>2. \A i \in 1..n : before[i] = [id |-> n + 1 - i, attempt |-> attempts[n + 1 - i]]
    BY <1>1
  <2> QED
    BY <2>1, <2>2, RowsByAge
<1>3. /\ after \in Seq(TaskRows) /\ Len(after) = m
      /\ \A i \in 1..m : after[i].id = m + 1 - i
  <2>1. DOMAIN after = 1..m /\ after = [i \in DOMAIN after |-> after[i]]
    BY <1>1
  <2>2. \A i \in 1..m : after[i] = [id |-> m + 1 - i, attempt |-> attempts'[m + 1 - i]]
    BY <1>1
  <2> QED
    BY <2>1, <2>2, RowsByAge
<1>4. n \in Nat /\ m \in Nat
  BY DashboardAssumption
<1>5. /\ Newest(before, TaskLimit) \in Seq(TaskRows)
      /\ Ids(Newest(before, TaskLimit)) = {t \in 1..n : t > n - TaskLimit}
  BY <1>2, <1>4, NewestRows
<1>6. Ids(Newest(after, TaskLimit)) = {t \in 1..m : t > m - TaskLimit}
  BY <1>3, <1>4, NewestRows
<1>7. SUFFICES ASSUME Existing = 1..n, Existing' = 1..m
               PROVE  Listed = Newest(before, TaskLimit) /\ Listed' = Newest(after, TaskLimit)
  BY <1>5, <1>6
<1>8. Cardinality(Existing) = n /\ Cardinality(Existing') = m
  BY <1>7, FS_Interval, DashboardAssumption
<1> QED
  BY <1>1, <1>8 DEF Listed, RowOf

(* Tasks are only added, the next one after the youngest. *)
LEMMA AttemptsGrow ==
  ASSUME DashInv, DashNext
  PROVE  /\ attempts' \in [Tasks -> Nat]
         /\ \E n, m \in 0..MaxTasks : Existing = 1..n /\ Existing' = 1..m /\ n <= m
<1>1. attempts \in [Tasks -> Nat] /\ MaxTasks \in Nat /\ Tasks = 1..MaxTasks
  BY DashboardAssumption DEF DashInv, DashTypeOK, Tasks
<1>2. PICK n \in 0..MaxTasks : Existing = 1..n
  BY DEF DashInv, ListsInOrder
<1>3. Cardinality(Existing) = n
  BY <1>1, <1>2, FS_Interval
<1>4. \A t \in Tasks : t <= n <=> attempts[t] > 0
  BY <1>1, <1>2 DEF Existing
<1>5. ASSUME NEW t \in Tasks, NEW k \in Nat, t <= n + 1, k > 0,
             attempts' = [attempts EXCEPT ![t] = k]
      PROVE  /\ attempts' \in [Tasks -> Nat]
             /\ \E m \in 0..MaxTasks : Existing' = 1..m /\ n <= m
  <2>1. attempts' \in [Tasks -> Nat]
    BY <1>1, <1>5
  <2> DEFINE m == IF t = n + 1 THEN n + 1 ELSE n
  <2>2. m \in 0..MaxTasks /\ n <= m
    BY <1>1, <1>5
  <2>3. \A s \in Tasks : attempts'[s] = IF s = t THEN k ELSE attempts[s]
    BY <1>1, <1>5
  <2>4. \A s \in Tasks : s <= m <=> attempts'[s] > 0
    BY <1>1, <1>4, <1>5, <2>3
  <2>5. Existing' = {s \in Tasks : attempts'[s] > 0}
    BY DEF Existing
  <2> HIDE DEF m
  <2>6. Existing' = 1..m
    BY <1>1, <2>2, <2>4, <2>5
  <2> QED
    BY <2>1, <2>2, <2>6
<1>6. CASE attempts' = attempts
  <2>1. Existing' = Existing
    BY <1>6 DEF Existing
  <2>2. attempts' \in [Tasks -> Nat] /\ n <= n
    BY <1>1, <1>2, <1>6
  <2> QED
    BY <1>2, <2>1, <2>2
<1>7. CASE AnswerAction
  <2>1. PICK t \in Tasks : t = action.task /\ t <= n
    BY <1>1, <1>2, <1>7 DEF AnswerAction, DashInv, ListsInOrder
  <2> DEFINE k == IF action.name = "retry" THEN attempts[t] + 1 ELSE attempts[t]
  <2>2. k \in Nat /\ k > 0 /\ t <= n + 1
    BY <1>1, <1>2, <1>4, <2>1
  <2>3. attempts' = [attempts EXCEPT ![t] = k] \/ attempts' = attempts
    BY <1>7, <2>1 DEF AnswerAction
  <2> HIDE DEF k
  <2>4. CASE attempts' = [attempts EXCEPT ![t] = k]
    <3>1. /\ attempts' \in [Tasks -> Nat]
          /\ \E m \in 0..MaxTasks : Existing' = 1..m /\ n <= m
      BY <1>5, <2>2, <2>4
    <3> QED
      BY <1>2, <3>1
  <2> QED
    BY <1>6, <2>3, <2>4
<1>8. CASE AnswerCreate
  <2> DEFINE t == Cardinality(Existing) + 1
  <2>1. \/ attempts' = attempts
        \/ t \in Tasks /\ attempts' = [attempts EXCEPT ![t] = 1]
    BY <1>8 DEF AnswerCreate
  <2>2. t = n + 1 /\ 1 \in Nat /\ 1 > 0
    BY <1>3
  <2> HIDE DEF t
  <2>3. CASE t \in Tasks /\ attempts' = [attempts EXCEPT ![t] = 1]
    <3>1. /\ attempts' \in [Tasks -> Nat]
          /\ \E m \in 0..MaxTasks : Existing' = 1..m /\ n <= m
      <4>1. t <= n + 1
        BY <1>2, <2>2
      <4> QED
        BY <1>5, <2>2, <2>3, <4>1
    <3> QED
      BY <1>2, <3>1
  <2> QED
    BY <1>6, <2>1, <2>3
<1>9. CASE Elsewhere
  <2>1. PICK t \in Tasks : /\ \A s \in 1..t - 1 : attempts[s] > 0
                           /\ attempts' = [attempts EXCEPT ![t] = attempts[t] + 1]
    BY <1>9 DEF Elsewhere
  <2>2. t <= n + 1
    <3>1. SUFFICES ASSUME t > n + 1 PROVE FALSE
      BY <1>1, <1>2
    <3>2. n + 1 \in Tasks /\ n + 1 \in 1..t - 1
      BY <1>1, <1>2, <3>1
    <3>3. n + 1 <= n
      BY <1>4, <2>1, <3>2
    <3> QED
      BY <1>2, <3>3
  <2>3. attempts[t] + 1 \in Nat /\ attempts[t] + 1 > 0
    BY <1>1
  <2> QED
    BY <1>2, <1>5, <2>1, <2>2, <2>3
<1> QED
  BY <1>6, <1>7, <1>8, <1>9
     DEF DashNext, DashKey, DashAnswer, DashLoop, Move, Search, RefreshNow, Dismiss, Confirm, Ask,
         OpenCreateTask, Escape, CloseAccepted, SubmitCreateTask, AnswerList, AnswerDetail,
         LineArrives, StreamEnds, Tick, ApplyLogs, ApplyAction, ApplyCreate, ApplyTasks, ApplyDetail

(* Every step leaves the panes in agreement. *)
LEMMA ViewStep ==
  ASSUME DashInv, DashNext
  PROVE  Sound(ui') /\ ListMoves /\ SelectionMoves /\ SelectsFrom(ui, ui')
<1>1. /\ ui \in Views /\ Sound(ui) /\ ui.rows \in Seq(TaskRows)
      /\ ui.lists \subseteq ListRequests /\ ui.details \subseteq DetailRequests
      /\ attempts \in [Tasks -> Nat]
      /\ presses + 1 # presses
  BY DEF DashInv, DashTypeOK, Sound, PanesAgree, Agree, Views
<1>2. CASE ui' = ui
  BY <1>1, <1>2 DEF ListMoves, SelectionMoves, SelectsFrom
<1>3. ASSUME NEW t \in Tasks, Move(t) PROVE Sound(ui') /\ ListMoves /\ SelectionMoves /\ SelectsFrom(ui, ui')
  <2>1. ui' = SelectTask(ui, t) /\ t \in Ids(ui.rows) /\ presses' # presses
    BY <1>1, <1>3 DEF Move, Press, Visible
  <2> QED
    BY <1>1, <2>1, SelectTaskSound DEF ListMoves, SelectionMoves, SelectsFrom, SameRows, SameLists
<1>4. ASSUME NEW q \in Queries, Search(q) PROVE Sound(ui') /\ ListMoves /\ SelectionMoves /\ SelectsFrom(ui, ui')
  <2> DEFINE w == [ui EXCEPT !.query = q]
  <2>1. q \in SUBSET Tasks
    BY DashboardAssumption DEF Tasks
  <2>2. w \in Views /\ w.rows = ui.rows /\ SameLists(ui, w) /\ SamePanes(ui, w)
    BY <1>1, <2>1 DEF Views, SameLists, SamePanes
  <2>3. ui' = ReconcileSearchSelection(w) /\ presses' # presses
    BY <1>1, <1>4 DEF Search, Press
  <2> HIDE DEF w
  <2>4. StreamIsOpen(w) /\ Agree(w)
    BY <1>1, <2>2 DEF Sound, StreamIsOpen, Agree, SamePanes
  <2> QED
    BY <2>2, <2>3, <2>4, ReconcileSound DEF ListMoves, SelectionMoves, SelectsFrom, SameRows, SameLists, SamePanes
<1>5. ASSUME ui' = Refresh(ui) PROVE Sound(ui') /\ ListMoves /\ SelectionMoves /\ SelectsFrom(ui, ui')
  <2>1. Sound(ui')
    BY <1>1, <1>5, RefreshKeeps DEF Sound, StreamIsOpen, Agree, SamePanes
  <2> QED
    BY <1>1, <1>5, <2>1, RefreshKeeps DEF ListMoves, SelectionMoves, SelectsFrom, SameRows, SamePanes
<1>6. CASE Tick
  <2>1. PICK u \in Views : u = Refresh(ui)
    BY <1>1, RefreshKeeps
  <2>2. /\ Sound(u) /\ SameRows(ui, u) /\ SamePanes(ui, u)
        /\ u.lists \in {ui.lists, ForceRefresh(ui).lists}
    BY <1>1, <2>1, RefreshKeeps DEF Sound, StreamIsOpen, Agree, SamePanes
  <2>3. ui' = u \/ ui' = StartLogs(u)
    BY <1>6, <2>1 DEF Tick
  <2>4. CASE ui' = u
    BY <2>2, <2>4 DEF ListMoves, SelectionMoves, SelectsFrom, SameRows, SamePanes
  <2>5. CASE ui' = StartLogs(u) /\ u.selected = Nobody
    <3>1. ui' = u
      BY <2>5 DEF StartLogs
    <3> QED
      BY <2>4, <3>1
  <2>6. CASE ui' = StartLogs(u) /\ u.selected # Nobody
    <3>1. u.selected \in Tasks
      BY <2>6 DEF Views
    <3>2. /\ ui' \in Views /\ SameRows(u, ui') /\ SameLists(u, ui')
          /\ ui'.selected = u.selected /\ ui'.detail = u.detail
          /\ ui'.stream = [id |-> u.selected, attempt |-> u.detail.attempt]
          /\ ui'.stream \in TaskRows /\ ui'.pane = {}
          /\ \A i \in DOMAIN ui'.queue : ~ui'.queue[i].fresh
      BY <2>6, <3>1, StartLogsOpens
    <3>3. u.detail = [id |-> u.detail.id, attempt |-> u.detail.attempt] /\ u.detail.id = u.selected
      BY <2>2, <2>6 DEF Views, AnyRows, Sound, Agree
    <3>4. StreamIsOpen(ui') /\ Agree(ui')
      BY <2>6, <3>2, <3>3 DEF StreamIsOpen, Agree
    <3> QED
      BY <2>2, <3>2, <3>4 DEF Sound, ListMoves, SelectionMoves, SelectsFrom, SameRows, SameLists, SamePanes
  <2> QED
    BY <2>3, <2>4, <2>5, <2>6
<1>7. ASSUME NEW l \in ui.lists, AnswerList(l) PROVE Sound(ui') /\ ListMoves /\ SelectionMoves /\ SelectsFrom(ui, ui')
  <2>1. PICK n, k \in 0..MaxTasks : Existing = 1..n /\ Existing' = 1..k
    BY AttemptsGrow
  <2>2. Listed \in Seq(TaskRows)
    BY <1>1, <2>1, AttemptsGrow, ListedRows
  <2>3. PICK m \in ListRequests :
          /\ ui' = [ui EXCEPT !.lists = (@ \ {l}) \cup {m}]
          /\ m.fresh = l.fresh /\ ((m.failed /\ m.rows = l.rows) \/ m.rows = Listed)
    <3>1. l \in ListRequests
      BY <1>1
    <3>2. /\ [l EXCEPT !.phase = "answered", !.rows = Listed] \in ListRequests
          /\ [l EXCEPT !.phase = "answered", !.rows = Listed].fresh = l.fresh
          /\ [l EXCEPT !.phase = "answered", !.rows = Listed].rows = Listed
      BY <2>2, <3>1 DEF ListRequests, Phases
    <3>3. /\ [l EXCEPT !.phase = "answered", !.failed = TRUE] \in ListRequests
          /\ [l EXCEPT !.phase = "answered", !.failed = TRUE].fresh = l.fresh
          /\ [l EXCEPT !.phase = "answered", !.failed = TRUE].failed
          /\ [l EXCEPT !.phase = "answered", !.failed = TRUE].rows = l.rows
      BY <3>1 DEF ListRequests, Phases
    <3> QED
      BY <1>7, <3>2, <3>3 DEF AnswerList
  <2>4. PICK L \in SUBSET ListRequests : L = (ui.lists \ {l}) \cup {m}
    BY <1>1
  <2>5. ui' = [ui EXCEPT !.lists = L]
    BY <1>1, <2>3, <2>4
  <2>6. ui' \in Views /\ SameRows(ui, ui') /\ SamePanes(ui, ui') /\ ui'.lists = L
    BY <1>1, <2>5 DEF Views, SameRows, SamePanes
  <2>7. Sound(ui')
    BY <1>1, <2>6 DEF Sound, StreamIsOpen, Agree, SamePanes
  <2> QED
    BY <2>3, <2>4, <2>6, <2>7 DEF ListMoves, SelectionMoves, SelectsFrom, SameRows, SamePanes
<1>8. ASSUME NEW d \in ui.details, AnswerDetail(d) PROVE Sound(ui') /\ ListMoves /\ SelectionMoves /\ SelectsFrom(ui, ui')
  <2>1. d \in DetailRequests
    BY <1>1
  <2>2. PICK m \in DetailRequests : ui' = [ui EXCEPT !.details = (@ \ {d}) \cup {m}]
    <3>1. RowOf(d.row.id) \in TaskRows
      BY <1>1, <2>1 DEF RowOf, TaskRows, DetailRequests
    <3>2. /\ [d EXCEPT !.phase = "answered", !.row = RowOf(d.row.id)] \in DetailRequests
          /\ [d EXCEPT !.phase = "answered", !.failed = TRUE] \in DetailRequests
      BY <2>1, <3>1 DEF DetailRequests, Phases
    <3> QED
      BY <1>8, <3>2 DEF AnswerDetail
  <2>3. PICK D \in SUBSET DetailRequests : D = (ui.details \ {d}) \cup {m}
    BY <1>1
  <2>4. ui' = [ui EXCEPT !.details = D]
    BY <1>1, <2>2, <2>3
  <2>5. ui' \in Views /\ SameRows(ui, ui') /\ SamePanes(ui, ui') /\ SameLists(ui, ui')
    BY <1>1, <2>4 DEF Views, SameRows, SamePanes, SameLists
  <2>6. Sound(ui')
    BY <1>1, <2>5 DEF Sound, StreamIsOpen, Agree, SamePanes
  <2> QED
    BY <2>5, <2>6 DEF ListMoves, SelectionMoves, SelectsFrom, SameRows, SamePanes, SameLists
<1>9. ASSUME NEW d \in ui.details, ApplyDetail(d) PROVE Sound(ui') /\ ListMoves /\ SelectionMoves /\ SelectsFrom(ui, ui')
  <2>1. PICK D \in SUBSET DetailRequests : D = ui.details \ {d}
    BY <1>1
  <2>2. PICK u \in Views :
          /\ u = [ui EXCEPT !.details = @ \ {d}]
          /\ SameRows(ui, u) /\ SamePanes(ui, u) /\ SameLists(ui, u)
    <3> DEFINE w == [ui EXCEPT !.details = D]
    <3>1. w \in Views /\ SameRows(ui, w) /\ SamePanes(ui, w) /\ SameLists(ui, w)
      BY <1>1 DEF Views, SameRows, SamePanes, SameLists
    <3>2. w = [ui EXCEPT !.details = @ \ {d}]
      BY <1>1, <2>1
    <3> QED
      BY <3>1, <3>2
  <2>3. Sound(u)
    BY <1>1, <2>2 DEF Sound, StreamIsOpen, Agree, SamePanes
  <2>4. (ui' = u) \/ (ui' = ShowAttempt(u, d.row) /\ d.row.id = u.selected)
    <3>1. ui' = IF d.row.id # u.selected \/ ~InTime(d) \/ d.failed THEN u ELSE ShowAttempt(u, d.row)
      BY <1>9, <2>2 DEF ApplyDetail
    <3> QED
      BY <3>1 DEF InTime
  <2>5. d.row \in TaskRows
    BY <1>1 DEF DetailRequests
  <2>6. CASE ui' = u
    BY <2>2, <2>3, <2>6 DEF ListMoves, SelectionMoves, SelectsFrom, SameRows, SamePanes, SameLists
  <2>7. CASE ui' = ShowAttempt(u, d.row) /\ d.row.id = u.selected
    BY <2>2, <2>3, <2>5, <2>7, ShowAttemptSound
       DEF ListMoves, SelectionMoves, SelectsFrom, SameRows, SamePanes, SameLists
  <2> QED
    BY <2>4, <2>6, <2>7
<1>10. ASSUME NEW l \in ui.lists, ApplyTasks(l) PROVE Sound(ui') /\ ListMoves /\ SelectionMoves /\ SelectsFrom(ui, ui')
  <2>1. PICK L \in SUBSET ListRequests : L = ui.lists \ {l}
    BY <1>1
  <2>2. PICK u \in Views : u = [ui EXCEPT !.lists = @ \ {l}] /\ u.lists = L
                           /\ SameRows(ui, u) /\ SamePanes(ui, u)
    <3> DEFINE w == [ui EXCEPT !.lists = L]
    <3>1. w \in Views /\ w.lists = L /\ SameRows(ui, w) /\ SamePanes(ui, w)
      BY <1>1 DEF Views, SameRows, SamePanes
    <3>2. w = [ui EXCEPT !.lists = @ \ {l}]
      BY <1>1, <2>1
    <3> QED
      BY <3>1, <3>2
  <2>3. PICK v \in Views : v = [u EXCEPT !.refreshing = FALSE] /\ v.lists = L
                           /\ SameRows(ui, v) /\ SamePanes(ui, v)
    <3> DEFINE w == [u EXCEPT !.refreshing = FALSE]
    <3>1. w \in Views /\ w.lists = L /\ SameRows(u, w) /\ SamePanes(u, w)
      BY <2>2 DEF Views, SameRows, SamePanes
    <3> QED
      BY <2>2, <3>1 DEF SameRows, SamePanes
  <2>4. Sound(u) /\ Sound(v)
    BY <1>1, <2>2, <2>3 DEF Sound, StreamIsOpen, Agree, SamePanes
  <2>5. CASE ~l.fresh \/ l.failed
    <3>1. ui' = u \/ ui' = v
      BY <1>10, <2>2, <2>3, <2>5 DEF ApplyTasks, InTime
    <3> QED
      BY <2>1, <2>2, <2>3, <2>4, <3>1 DEF ListMoves, SelectionMoves, SelectsFrom, SameRows, SamePanes
  <2>6. CASE l.fresh /\ ~l.failed
    <3>1. ui' = ShowTasks(v, l.rows) /\ l.phase = "answered"
      BY <1>10, <2>2, <2>3, <2>6 DEF ApplyTasks, InTime
    <3>2. l.rows \in Seq(TaskRows)
      BY <1>1 DEF ListRequests
    <3>3. /\ Sound(ui') /\ ui'.rows = l.rows /\ ui'.lists = L /\ SelectsFrom(v, ui')
          /\ v.selected \in Ids(l.rows) \cap v.query => ui'.selected = v.selected
      BY <2>3, <2>4, <3>1, <3>2, ShowTasksSound DEF SameLists
    <3> QED
      BY <2>1, <2>3, <2>6, <3>1, <3>3 DEF ListMoves, SelectionMoves, SelectsFrom, SamePanes, SameRows
  <2> QED
    BY <1>1, <2>5, <2>6
<1>11. CASE LineArrives \/ \E kind \in {"ended", "broken"} : StreamEnds(kind)
  <2>1. PICK b \in BOOLEAN, kind \in {"line", "ended", "broken"} :
          /\ ui.streaming /\ (b => ui.streaming)
          /\ ui' = Enqueue([ui EXCEPT !.streaming = b], kind, ui.stream, TRUE)
    <3>1. CASE LineArrives
      <4>1. ui = [ui EXCEPT !.streaming = TRUE]
        BY <1>1, <3>1 DEF LineArrives, Views
      <4>2. ui.streaming /\ ui' = Enqueue(ui, "line", ui.stream, TRUE)
        BY <3>1 DEF LineArrives
      <4>3. ui' = Enqueue([ui EXCEPT !.streaming = TRUE], "line", ui.stream, TRUE)
        BY <4>1, <4>2
      <4>4. TRUE \in BOOLEAN
        OBVIOUS
      <4> QED
        BY <4>2, <4>3, <4>4
    <3>2. ASSUME NEW kind \in {"ended", "broken"}, StreamEnds(kind)
          PROVE  /\ ui.streaming
                 /\ ui' = Enqueue([ui EXCEPT !.streaming = FALSE], kind, ui.stream, TRUE)
      BY <3>2 DEF StreamEnds
    <3>3. FALSE \in BOOLEAN
      OBVIOUS
    <3> QED
      BY <1>11, <3>1, <3>2, <3>3
  <2>2. ui.stream \in TaskRows
    BY <1>1, <2>1 DEF Sound, StreamIsOpen
  <2>3. PICK m \in LogMessages : m = [kind |-> kind, source |-> ui.stream, fresh |-> TRUE]
    BY <2>2 DEF LogMessages
  <2>4. PICK u \in Views : u = [ui EXCEPT !.streaming = b] /\ u.streaming = b
                           /\ u.queue = ui.queue /\ u.stream = ui.stream /\ u.selected = ui.selected
                           /\ u.detail = ui.detail /\ u.pane = ui.pane /\ u.logStop = ui.logStop
                           /\ SameRows(ui, u) /\ SameLists(ui, u)
    <3> DEFINE w == [ui EXCEPT !.streaming = b]
    <3>1. w \in Views /\ w.streaming = b
          /\ w.queue = ui.queue /\ w.stream = ui.stream /\ w.selected = ui.selected
          /\ w.detail = ui.detail /\ w.pane = ui.pane /\ w.logStop = ui.logStop
          /\ SameRows(ui, w) /\ SameLists(ui, w)
      BY <1>1 DEF Views, SameRows, SameLists
    <3> QED
      BY <3>1
  <2>5. PICK q \in Seq(LogMessages) :
          /\ q = Append(ui.queue, m)
          /\ \A i \in DOMAIN q : q[i] = m \/ (i \in DOMAIN ui.queue /\ q[i] = ui.queue[i])
    <3>1. ui.queue \in Seq(LogMessages)
      BY <1>1 DEF Views
    <3> DEFINE q == Append(ui.queue, m)
    <3>2. q \in Seq(LogMessages) /\ Len(q) = Len(ui.queue) + 1 /\ q[Len(ui.queue) + 1] = m
          /\ \A i \in 1..Len(ui.queue) : q[i] = ui.queue[i]
      BY <3>1, AppendProperties
    <3>3. DOMAIN q = 1..Len(ui.queue) + 1 /\ DOMAIN ui.queue = 1..Len(ui.queue) /\ Len(ui.queue) \in Nat
      BY <3>1, <3>2
    <3> HIDE DEF q
    <3>4. \A i \in DOMAIN q : q[i] = m \/ (i \in DOMAIN ui.queue /\ q[i] = ui.queue[i])
      BY <3>2, <3>3
    <3> QED
      BY <3>2, <3>4 DEF q
  <2>6. ui' = [u EXCEPT !.queue = q]
    BY <2>1, <2>3, <2>4, <2>5 DEF Enqueue
  <2>7. /\ ui' \in Views /\ ui'.queue = q /\ ui'.stream = u.stream /\ ui'.selected = u.selected
        /\ ui'.detail = u.detail /\ ui'.pane = u.pane /\ ui'.logStop = u.logStop
        /\ ui'.streaming = u.streaming /\ SameRows(u, ui') /\ SameLists(u, ui')
    BY <2>6 DEF Views, SameRows, SameLists
  <2>8. StreamIsOpen(ui')
    BY <1>1, <2>2, <2>3, <2>4, <2>5, <2>7 DEF Sound, StreamIsOpen
  <2>9. Agree(ui')
    BY <1>1, <2>4, <2>7 DEF Sound, Agree
  <2> QED
    BY <2>4, <2>7, <2>8, <2>9 DEF Sound, ListMoves, SelectionMoves, SelectsFrom, SameRows, SameLists
<1>12. CASE ApplyLogs
  <2> DEFINE mine == {m \in Range(ui.queue) : m.source.id = ui.selected /\ InTime(m)}
             over == {m \in mine : m.kind # "line"}
             p == ui.pane \cup {m.source : m \in mine \ over}
             s == ui.logStop /\ over = {}
             c == IF over = {} THEN ui.logComplete ELSE \E m \in over : m.kind = "ended"
  <2>1. mine \subseteq LogMessages /\ \A m \in mine : m.source = ui.stream /\ ui.selected \in Tasks
    <3>1. ui.queue \in Seq(LogMessages) /\ DOMAIN ui.queue = 1..Len(ui.queue)
      BY <1>1 DEF Views
    <3>2. ASSUME NEW m \in mine PROVE m \in LogMessages /\ m.source = ui.stream /\ ui.selected \in Tasks
      <4>1. PICK i \in DOMAIN ui.queue : m = ui.queue[i]
        BY DEF Range
      <4>2. m \in LogMessages /\ m.fresh /\ m.source.id = ui.selected
        BY <3>1, <4>1 DEF InTime
      <4>3. m.source = ui.stream
        BY <1>1, <4>1, <4>2 DEF Sound, StreamIsOpen
      <4>4. ui.selected \in Tasks
        BY <4>2 DEF LogMessages, TaskRows
      <4> QED
        BY <4>2, <4>3, <4>4
    <3> QED
      BY <3>2
  <2>2. p \in SUBSET AnyRows /\ (p # ui.pane => ui.selected \in Tasks) /\ p \subseteq ui.pane \cup {ui.stream}
    <3>1. ui.pane \in SUBSET AnyRows /\ ui.stream \in AnyRows
      BY <1>1 DEF Views
    <3> HIDE DEF mine
    <3> QED
      BY <2>1, <3>1
  <2>3. s \in BOOLEAN /\ c \in BOOLEAN /\ (s => ui.logStop) /\ <<>> \in Seq(LogMessages)
    <3>1. ui.logComplete \in BOOLEAN /\ ui.logStop \in BOOLEAN
      BY <1>1 DEF Views
    <3> HIDE DEF over
    <3>2. c \in BOOLEAN
      <4>1. CASE over = {}
        BY <3>1, <4>1
      <4>2. CASE over # {}
        BY <4>2
      <4> QED
        BY <4>1, <4>2
    <3>3. s \in BOOLEAN /\ (s => ui.logStop)
      OBVIOUS
    <3> HIDE DEF s, c
    <3> QED
      BY <3>2, <3>3
  <2>4. ui' = [ui EXCEPT !.queue = <<>>, !.pane = p, !.logStop = s, !.logComplete = c]
    <3>1. ui' = [ui EXCEPT !.queue = <<>>,
                         !.pane = @ \cup {m.source : m \in mine \ over},
                         !.logStop = @ /\ over = {},
                         !.logComplete = IF over = {} THEN @ ELSE \E m \in over : m.kind = "ended"]
      BY <1>12 DEF ApplyLogs
    <3> HIDE DEF mine, over
    <3> QED
      BY <1>1, <3>1 DEF Views
  <2> HIDE DEF p, s, c
  <2>5. /\ ui' \in Views /\ ui'.queue = <<>> /\ ui'.pane = p /\ ui'.logStop = s
        /\ ui'.streaming = ui.streaming /\ ui'.stream = ui.stream /\ ui'.selected = ui.selected
        /\ ui'.detail = ui.detail /\ SameRows(ui, ui') /\ SameLists(ui, ui')
    BY <1>1, <2>2, <2>3, <2>4 DEF Views, SameRows, SameLists
  <2>6. StreamIsOpen(ui')
    BY <1>1, <2>5 DEF Sound, StreamIsOpen
  <2>7. Agree(ui')
    BY <1>1, <2>2, <2>3, <2>5, Domains DEF Sound, Agree
  <2> QED
    BY <2>5, <2>6, <2>7 DEF Sound, ListMoves, SelectionMoves, SelectsFrom, SameRows, SameLists
<1>13. CASE ApplyAction
  <2> DEFINE row == [id |-> action.task, attempt |-> action.attempt]
  <2>1. row \in TaskRows
    BY <1>13 DEF ApplyAction, DashInv, DashTypeOK, AnswersNameTasks, ActionRows, TaskRows
  <2>2. ASSUME NEW u \in Views, Sound(u), SameRows(ui, u), SameLists(ui, u), u.selected = ui.selected,
               ui' = Refresh(u)
        PROVE  Sound(ui') /\ ListMoves /\ SelectionMoves /\ SelectsFrom(ui, ui')
    <3>1. Sound(ui')
      BY <2>2, RefreshKeeps DEF Sound, StreamIsOpen, Agree, SamePanes
    <3>2. ForceRefresh(u).lists = ForceRefresh(ui).lists
      BY <1>1, <2>2, ForceRefreshKeeps DEF SameLists
    <3> QED
      BY <2>2, <3>1, <3>2, RefreshKeeps DEF ListMoves, SelectionMoves, SelectsFrom, SameRows, SameLists, SamePanes
  <2>3. CASE action.failed
    BY <1>2, <1>13, <2>3 DEF ApplyAction
  <2>4. CASE ~action.failed /\ action.task = ui.selected
    <3>1. ui' = Refresh(ShowAttempt(ui, row)) /\ row.id = ui.selected
      BY <1>13, <2>4 DEF ApplyAction
    <3> HIDE DEF row
    <3>2. /\ Sound(ShowAttempt(ui, row)) /\ SameRows(ui, ShowAttempt(ui, row))
          /\ SameLists(ui, ShowAttempt(ui, row)) /\ ShowAttempt(ui, row).selected = ui.selected
      BY <1>1, <2>1, <3>1, ShowAttemptSound
    <3> QED
      BY <2>2, <3>1, <3>2 DEF Sound
  <2>5. CASE ~action.failed /\ action.task # ui.selected
    <3>1. ui' = Refresh(ui)
      BY <1>13, <2>5 DEF ApplyAction
    <3> QED
      BY <1>5, <3>1
  <2> QED
    BY <2>3, <2>4, <2>5
<1>14. CASE ApplyCreate
  <2>1. CASE draft.failed
    BY <1>2, <1>14, <2>1 DEF ApplyCreate
  <2>2. CASE ~draft.failed
    <3>1. draft.row \in TaskRows /\ draft.phase = "answered" /\ ui' = ShowCreated(ui, draft.row)
      BY <1>14, <2>2 DEF ApplyCreate, DashInv, AnswersNameTasks
    <3> QED
      BY <1>1, <1>14, <2>2, <3>1, ShowCreatedSound DEF ListMoves, SelectionMoves
  <2> QED
    BY <2>1, <2>2
<1>15. CASE DashKey
  BY <1>2, <1>3, <1>4, <1>5, <1>15
     DEF DashKey, RefreshNow, Dismiss, Confirm, Ask, OpenCreateTask, Escape, CloseAccepted, SubmitCreateTask
<1>16. CASE DashAnswer
  BY <1>2, <1>7, <1>8, <1>11, <1>16 DEF DashAnswer, AnswerAction, AnswerCreate
<1>17. CASE DashLoop
  BY <1>6, <1>9, <1>10, <1>12, <1>13, <1>14, <1>17 DEF DashLoop
<1>18. CASE Elsewhere
  BY <1>2, <1>18 DEF Elsewhere
<1> QED
  BY <1>15, <1>16, <1>17, <1>18 DEF DashNext

-----------------------------------------------------------------------------
(* How a step moves the tasks, the form and the dialog *)

(* A restart or cancellation is of the task selected when it was confirmed.  *)
LEMMA ActionStep ==
  ASSUME DashInv, DashNext
  PROVE  /\ action' \in ActionRows
         /\ action'.phase # "none" =>
              \/ action.phase # "none" /\ action'.task = action.task
              \/ ui.selected # Nobody /\ action'.task = ui.selected
<1>1. action \in ActionRows /\ ui.selected \in Tasks \cup {Nobody} /\ attempts' \in [Tasks -> Nat]
  BY AttemptsGrow DEF DashInv, DashTypeOK, Views
<1>2. CASE action' = action
  BY <1>1, <1>2
<1>3. ASSUME NEW name \in {"retry", "cancel"}, Ask(name)
      PROVE  action' \in ActionRows /\ action'.phase = action.phase /\ action'.task = action.task
  BY <1>1, <1>3 DEF Ask, ActionRows
<1>4. CASE Dismiss
  BY <1>1, <1>4 DEF Dismiss, ActionRows
<1>5. CASE Confirm
  <2>1. CASE action.phase # "none" \/ ui.selected = Nobody
    <3>1. action' = [action EXCEPT !.confirm = ""]
      BY <1>5, <2>1 DEF Confirm
    <3> QED
      BY <1>1, <3>1 DEF ActionRows
  <2>2. CASE ~(action.phase # "none" \/ ui.selected = Nobody)
    <3>1. action' = [NoAction EXCEPT !.name = action.confirm, !.task = ui.selected, !.phase = "asked"]
      BY <1>5, <2>2 DEF Confirm
    <3> QED
      BY <1>1, <2>2, <3>1 DEF ActionRows, NoAction, Phases
  <2> QED
    BY <2>1, <2>2
<1>6. CASE AnswerAction
  <2>1. \E n \in Nat, f \in BOOLEAN :
          action' = IF f THEN [action EXCEPT !.phase = "answered", !.attempt = n, !.failed = TRUE]
                    ELSE [action EXCEPT !.phase = "answered", !.attempt = n]
    <3>1. action.phase = "asked" /\ action.task \in Tasks
      BY <1>6 DEF AnswerAction, DashInv, AnswersNameTasks
    <3>2. attempts'[action.task] \in Nat /\ 0 \in Nat
      BY <1>1, <3>1
    <3>3. \/ action' = [action EXCEPT !.phase = "answered", !.attempt = attempts'[action.task]]
          \/ action' = [[action EXCEPT !.phase = "answered", !.attempt = 0] EXCEPT !.failed = TRUE]
      BY <1>6 DEF AnswerAction
    <3>4. [[action EXCEPT !.phase = "answered", !.attempt = 0] EXCEPT !.failed = TRUE]
            = [action EXCEPT !.phase = "answered", !.attempt = 0, !.failed = TRUE]
      BY <1>1 DEF ActionRows
    <3>5. TRUE \in BOOLEAN /\ FALSE \in BOOLEAN
      OBVIOUS
    <3> QED
      BY <3>2, <3>3, <3>4, <3>5
  <2>2. PICK n \in Nat, f \in BOOLEAN :
          action' = IF f THEN [action EXCEPT !.phase = "answered", !.attempt = n, !.failed = TRUE]
                    ELSE [action EXCEPT !.phase = "answered", !.attempt = n]
    BY <2>1
  <2>3. action' \in ActionRows /\ action'.task = action.task
    BY <1>1, <2>2 DEF ActionRows, Phases
  <2> QED
    BY <1>6, <2>3 DEF AnswerAction
<1>7. CASE ApplyAction
  BY <1>1, <1>7 DEF ApplyAction, NoAction, ActionRows
<1> QED
  BY <1>1, <1>2, <1>3, <1>4, <1>5, <1>6, <1>7
     DEF DashNext, DashKey, DashAnswer, DashLoop, Move, Search, RefreshNow,
         OpenCreateTask, Escape, CloseAccepted, SubmitCreateTask, AnswerList, AnswerDetail, AnswerCreate,
         LineArrives, StreamEnds, Tick, ApplyLogs, ApplyCreate, ApplyTasks, ApplyDetail, Elsewhere

(* A key that no request has carried is left, since a request takes a press. *)
LEMMA FreshKeyIsFresh ==
  ASSUME DashTypeOK, FormInOrder, presses < MaxPresses
  PROVE  FreshKey \in 1..MaxPresses /\ FreshKey \notin Keys
<1>1. IsFiniteSet(Keys) /\ Cardinality(Keys) <= Cardinality(sent)
  <2> DEFINE f == [s \in sent |-> s.key]
  <2>1. f \in Surjection(sent, Keys)
    BY DEF Surjection, Keys
  <2>2. IsFiniteSet(sent)
    BY DEF FormInOrder
  <2> HIDE DEF f
  <2> QED
    BY <2>1, <2>2, FS_Surjection
<1>2. IsFiniteSet(1..MaxPresses) /\ Cardinality(1..MaxPresses) = MaxPresses
  BY FS_Interval, DashboardAssumption
<1>3. /\ Cardinality(Keys) \in Nat /\ Cardinality(sent) \in Nat /\ presses \in Nat
      /\ MaxPresses \in Nat
  BY <1>1, FS_CardinalityType, DashboardAssumption DEF FormInOrder, DashTypeOK
<1>4. ~(1..MaxPresses \subseteq Keys)
  <2>1. SUFFICES ASSUME 1..MaxPresses \in SUBSET Keys PROVE FALSE
    OBVIOUS
  <2>2. Cardinality(1..MaxPresses) <= Cardinality(Keys)
    BY <1>1, <2>1, FS_Subset
  <2> QED
    BY <1>1, <1>2, <1>3, <2>2 DEF FormInOrder
<1> QED
  BY <1>4 DEF FreshKey

(* While nothing is sent or created, and the form keeps its content and key. *)
LEMMA FormKept ==
  ASSUME DashTypeOK, FormInOrder, sent' = sent, created' = created,
         presses' \in 0..MaxPresses, presses <= presses',
         \/ /\ draft'.key = draft.key /\ draft'.last = draft.last
            /\ draft'.phase # "none" => draft.phase # "none"
         \/ draft'.key = 0 /\ draft'.last = NoPayload /\ draft'.phase = "none"
  PROVE  FormInOrder'
<1>1. Submissions' = Submissions /\ Latest' = Latest /\ Keys' = Keys
  BY DEF Submissions, Latest, Keys
<1>2. Cardinality(sent) \in Nat /\ presses \in Nat /\ presses' \in Nat
  BY FS_CardinalityType DEF FormInOrder, DashTypeOK
<1>3. Cardinality(sent') <= presses'
  BY <1>2 DEF FormInOrder
<1> QED
  BY <1>1, <1>3 DEF FormInOrder

(* A request sent again is the one sent before; one with another content, or *)
(* from a new form, is a new submission with a new key.                      *)
LEMMA SubmitStep ==
  ASSUME DashInv, NEW payload \in Payloads, SubmitCreateTask(payload)
  PROVE  /\ FormInOrder' /\ draft' \in Drafts
         /\ sent' \subseteq [key : 1..MaxPresses, payload : Payloads, submission : Nat \ {0}]
<1>1. /\ DashTypeOK /\ FormInOrder /\ draft \in Drafts
      /\ sent \subseteq [key : 1..MaxPresses, payload : Payloads, submission : Nat \ {0}]
  BY DEF DashInv, DashTypeOK
<1>2. /\ presses < MaxPresses /\ presses' = presses + 1 /\ presses \in Nat
      /\ draft' = [draft EXCEPT !.key = EventKey(payload), !.last = payload, !.phase = "asked"]
      /\ sent' = sent \cup {[key |-> EventKey(payload), payload |-> payload,
                             submission |-> Submission(payload)]}
      /\ created' = created
  BY <1>1 DEF SubmitCreateTask, Press, DashTypeOK
<1>3. payload # NoPayload
  BY DashboardAssumption
<1>4. Latest \in Nat /\ Cardinality(sent) \in Nat /\ IsFiniteSet(sent)
  <2> DEFINE f == [s \in sent |-> s.submission]
  <2>1. f \in Surjection(sent, Submissions)
    BY DEF Surjection, Submissions
  <2>2. IsFiniteSet(sent)
    BY <1>1 DEF FormInOrder
  <2> HIDE DEF f
  <2>3. IsFiniteSet(Submissions)
    BY <2>1, <2>2, FS_Surjection
  <2> QED
    BY <2>2, <2>3, FS_CardinalityType DEF Latest
<1>5. CASE draft.last = payload
  <2>1. [key |-> draft.key, payload |-> payload, submission |-> Latest] \in sent
    BY <1>1, <1>3, <1>5 DEF FormInOrder
  <2>2. draft.key \in 1..MaxPresses /\ draft.key # 0
    BY <1>1, <2>1
  <2>3. EventKey(payload) = draft.key /\ Submission(payload) = Latest
    BY <1>5, <2>2 DEF EventKey, Submission, Latest, Submissions
  <2>4. sent' = sent
    BY <1>2, <2>1, <2>3
  <2>5. draft' \in Drafts /\ draft'.key = draft.key /\ draft'.last = draft.last
        /\ draft'.phase = "asked"
    BY <1>1, <1>2, <1>5, <2>3 DEF Drafts, Phases
  <2>6. Submissions' = Submissions /\ Latest' = Latest /\ Keys' = Keys
    BY <2>4 DEF Submissions, Latest, Keys
  <2>7. Cardinality(sent') <= presses'
    <3>1. Cardinality(sent) <= presses
      BY <1>1 DEF FormInOrder
    <3> QED
      BY <1>2, <1>4, <2>4, <3>1
  <2> QED
    BY <1>1, <1>2, <1>3, <1>5, <2>4, <2>5, <2>6, <2>7 DEF FormInOrder
<1>6. CASE draft.last # payload
  <2> DEFINE k == FreshKey
             n == Latest + 1
             new == [key |-> k, payload |-> payload, submission |-> n]
  <2>1. k \in 1..MaxPresses /\ k \notin Keys
    BY <1>1, <1>2, FreshKeyIsFresh
  <2>2. EventKey(payload) = k /\ Submission(payload) = n
    BY <1>1, <1>6 DEF EventKey, Submission, Latest, Submissions, FormInOrder
  <2> HIDE DEF k
  <2>3. /\ sent' = sent \cup {new}
        /\ new \in [key : 1..MaxPresses, payload : Payloads, submission : Nat \ {0}]
    BY <1>2, <1>4, <2>1, <2>2
  <2>4. draft' \in Drafts /\ draft'.key = k /\ draft'.last = payload /\ draft'.phase = "asked"
    <3>1. draft' = [draft EXCEPT !.key = k, !.last = payload, !.phase = "asked"]
      BY <1>2, <2>2
    <3>2. k \in 0..MaxPresses
      BY <2>1
    <3> QED
      BY <1>1, <3>1, <3>2 DEF Drafts, Phases
  <2>5. /\ \A s \in sent : s.key # k /\ s.submission # n
        /\ new.key = k /\ new.submission = n /\ new.payload = payload
    <3>1. ASSUME NEW s \in sent PROVE s.submission <= Latest
      BY <1>1, <3>1 DEF FormInOrder, Submissions
    <3>2. ASSUME NEW s \in sent PROVE s.submission # n
      BY <1>4, <3>1, <3>2
    <3> QED
      BY <2>1, <3>2 DEF Keys
  <2>6. Submissions' = 1..n
    <3>1. Submissions' = Submissions \cup {n}
      BY <2>3, <2>5 DEF Submissions
    <3>2. Submissions = 1..Latest
      BY <1>1 DEF FormInOrder
    <3> QED
      BY <1>4, <3>1, <3>2
  <2>7. Latest' = n
    BY <1>4, <2>6, FS_Interval DEF Latest
  <2>8. Keys' = Keys \cup {k}
    BY <2>3, <2>5 DEF Keys
  <2>9. IsFiniteSet(sent') /\ Cardinality(sent') <= presses'
    <3>1. new \notin sent
      BY <2>5
    <3> HIDE DEF new
    <3>2. IsFiniteSet(sent') /\ Cardinality(sent') = Cardinality(sent) + 1
      BY <1>4, <2>3, <3>1, FS_AddElement
    <3> QED
      BY <1>1, <1>2, <1>4, <3>2 DEF FormInOrder
  <2>10. sent' \subseteq [key : 1..MaxPresses, payload : Payloads, submission : Nat \ {0}]
    BY <1>1, <2>3
  <2>11. /\ \A r, s \in sent' : r.key = s.key => r.payload = s.payload
         /\ \A r, s \in sent' : r.submission = s.submission => r.key = s.key
    <3> HIDE DEF new, n
    <3> QED
      BY <1>1, <2>3, <2>5 DEF FormInOrder
  <2>12. /\ \A c \in created' : c.key \in Keys'
         /\ \A c, d \in created' : c.key = d.key => c = d
    BY <1>1, <1>2, <2>8 DEF FormInOrder
  <2>13. [key |-> draft'.key, payload |-> draft'.last, submission |-> Latest'] \in sent'
    BY <2>3, <2>4, <2>7
  <2> QED
    BY <1>3, <2>4, <2>6, <2>7, <2>9, <2>10, <2>11, <2>12, <2>13 DEF FormInOrder
<1> QED
  BY <1>5, <1>6

(* The controller makes one task for a key. *)
LEMMA AnswerCreateStep ==
  ASSUME DashInv, DashNext, AnswerCreate
  PROVE  /\ FormInOrder' /\ draft' \in Drafts
         /\ created' \subseteq [key : 1..MaxPresses, payload : Payloads, task : Tasks]
         /\ {c.task : c \in created'} \subseteq Existing'
         /\ draft'.phase = "answered" /\ ~draft'.failed =>
              draft'.row \in TaskRows /\ draft'.row.id \in Existing'
<1>1. /\ DashTypeOK /\ FormInOrder /\ draft \in Drafts /\ attempts \in [Tasks -> Nat]
      /\ created \subseteq [key : 1..MaxPresses, payload : Payloads, task : Tasks]
      /\ sent \subseteq [key : 1..MaxPresses, payload : Payloads, submission : Nat \ {0}]
      /\ {c.task : c \in created} \subseteq Existing /\ presses \in 0..MaxPresses
  BY DEF DashInv, DashTypeOK, ListsInOrder
<1>2. /\ attempts' \in [Tasks -> Nat] /\ Existing \subseteq Existing' /\ Existing' \subseteq Tasks
  <2>1. PICK n, m \in 0..MaxTasks : Existing = 1..n /\ Existing' = 1..m /\ n <= m
    BY AttemptsGrow
  <2>2. 1..n \subseteq 1..m /\ 1..m \subseteq 1..MaxTasks
    BY <2>1, DashboardAssumption
  <2> QED
    BY <2>1, <2>2, AttemptsGrow DEF Tasks
<1>3. draft.phase = "asked" /\ sent' = sent /\ presses' = presses
  BY DEF AnswerCreate
<1>4. /\ draft.last # NoPayload /\ draft.key \in Keys /\ draft.key \in 1..MaxPresses
      /\ draft.last \in Payloads
  <2>1. [key |-> draft.key, payload |-> draft.last, submission |-> Latest] \in sent /\ draft.last # NoPayload
    BY <1>1, <1>3 DEF FormInOrder
  <2>2. draft.key \in Keys
    BY <2>1 DEF Keys
  <2> QED
    BY <1>1, <2>1, <2>2
<1>5. ASSUME NEW t \in Existing', draft' = [draft EXCEPT !.phase = "answered", !.row = [id |-> t, attempt |-> attempts'[t]]]
      PROVE  /\ draft' \in Drafts /\ draft'.row \in TaskRows /\ draft'.row.id \in Existing'
             /\ draft'.key = draft.key /\ draft'.last = draft.last /\ draft'.phase = "answered"
  <2> DEFINE row == [id |-> t, attempt |-> attempts'[t]]
  <2>1. row \in TaskRows /\ row \in AnyRows /\ row.id = t
    BY <1>2, <1>5 DEF TaskRows, AnyRows
  <2> HIDE DEF row
  <2>2. draft' = [draft EXCEPT !.phase = "answered", !.row = row]
    BY <1>5 DEF row
  <2>3. draft' \in Drafts /\ draft'.row = row
        /\ draft'.key = draft.key /\ draft'.last = draft.last /\ draft'.phase = "answered"
    BY <1>1, <2>1, <2>2 DEF Drafts, Phases
  <2> QED
    BY <1>5, <2>1, <2>3
<1>6. ASSUME draft' = [draft EXCEPT !.phase = "answered", !.failed = TRUE]
      PROVE  /\ draft' \in Drafts /\ draft'.failed
             /\ draft'.key = draft.key /\ draft'.last = draft.last /\ draft'.phase = "answered"
  BY <1>1, <1>6 DEF Drafts, Phases
<1> DEFINE known == {c \in created : c.key = draft.key}
           next == Cardinality(Existing) + 1
           lost == [draft EXCEPT !.phase = "answered", !.failed = TRUE]
           answer(t) == [draft EXCEPT !.phase = "answered", !.row = [id |-> t, attempt |-> attempts'[t]]]
<1>7. \/ /\ created' = created /\ known # {}
         /\ draft' = answer((CHOOSE c \in known : TRUE).task)
      \/ /\ known = {} /\ next \in Tasks /\ attempts' = [attempts EXCEPT ![next] = 1]
         /\ created' = created \cup {[key |-> draft.key, payload |-> draft.last, task |-> next]}
         /\ draft' = answer(next) \/ draft' = lost
      \/ created' = created /\ draft' = lost
  BY DEF AnswerCreate
<1> HIDE DEF next
<1>8. CASE created' = created /\ known # {} /\ draft' = answer((CHOOSE c \in known : TRUE).task)
  <2>1. PICK t \in Existing' : t = (CHOOSE c \in known : TRUE).task
    <3>1. (CHOOSE c \in known : TRUE) \in created
      BY <1>8
    <3> QED
      BY <1>1, <1>2, <3>1
  <2>2. /\ draft' \in Drafts /\ draft'.row \in TaskRows /\ draft'.row.id \in Existing'
        /\ draft'.key = draft.key /\ draft'.last = draft.last /\ draft'.phase = "answered"
    BY <1>5, <1>8, <2>1
  <2>3. FormInOrder'
    BY <1>1, <1>3, <1>8, <2>2, FormKept
  <2>4. created' \subseteq [key : 1..MaxPresses, payload : Payloads, task : Tasks]
        /\ {c.task : c \in created'} \subseteq Existing'
    BY <1>1, <1>2, <1>8
  <2> QED
    BY <2>2, <2>3, <2>4
<1>9. CASE created' = created /\ draft' = lost
  <2>1. FormInOrder'
    BY <1>1, <1>3, <1>6, <1>9, FormKept
  <2>2. created' \subseteq [key : 1..MaxPresses, payload : Payloads, task : Tasks]
        /\ {c.task : c \in created'} \subseteq Existing'
    BY <1>1, <1>2, <1>9
  <2> QED
    BY <1>6, <1>9, <2>1, <2>2
<1>10. CASE /\ known = {} /\ next \in Tasks /\ attempts' = [attempts EXCEPT ![next] = 1]
            /\ created' = created \cup {[key |-> draft.key, payload |-> draft.last, task |-> next]}
            /\ draft' = answer(next) \/ draft' = lost
  <2> DEFINE new == [key |-> draft.key, payload |-> draft.last, task |-> next]
  <2>1. next \in Existing'
    <3>1. attempts'[next] = 1 /\ next \in Tasks
      BY <1>1, <1>10
    <3> QED
      BY <3>1 DEF Existing
  <2>2. /\ created' = created \cup {new} /\ new.key = draft.key /\ new.task = next
        /\ new \in [key : 1..MaxPresses, payload : Payloads, task : Tasks]
    BY <1>4, <1>10
  <2>3. \A c \in created : c.key # draft.key
    BY <1>10
  <2> HIDE DEF new
  <2>4. /\ draft' \in Drafts /\ draft'.key = draft.key /\ draft'.last = draft.last
        /\ draft'.phase = "answered"
        /\ ~draft'.failed => draft'.row \in TaskRows /\ draft'.row.id \in Existing'
    <3>1. CASE draft' = answer(next)
      BY <1>5, <2>1, <3>1
    <3>2. CASE draft' = lost
      BY <1>6, <3>2
    <3> QED
      BY <1>10, <3>1, <3>2
  <2>5. /\ \A c \in created' : c.key \in Keys
        /\ \A c, d \in created' : c.key = d.key => c = d
    BY <1>1, <1>4, <2>2, <2>3 DEF FormInOrder
  <2>6. Submissions' = Submissions /\ Latest' = Latest /\ Keys' = Keys
    BY <1>3 DEF Submissions, Latest, Keys
  <2>7. FormInOrder'
    BY <1>1, <1>3, <1>4, <2>4, <2>5, <2>6 DEF FormInOrder
  <2>8. created' \subseteq [key : 1..MaxPresses, payload : Payloads, task : Tasks]
    BY <1>1, <2>2
  <2>9. {c.task : c \in created'} \subseteq Existing'
    BY <1>1, <1>2, <2>1, <2>2
  <2> QED
    BY <2>4, <2>7, <2>8, <2>9
<1> QED
  BY <1>7, <1>8, <1>9, <1>10

(* No form, no action and no rows. *)
LEMMA NothingAsked == NoDraft \in Drafts /\ NoAction \in ActionRows /\ Ids(<<>>) = {}
<1>1. 0 \in 0..MaxPresses /\ 0 \in Nat /\ TRUE \in BOOLEAN /\ FALSE \in BOOLEAN
  BY DashboardAssumption
<1>2. NoDraft \in Drafts
  BY <1>1, Domains DEF NoDraft, Drafts
<1>3. NoAction \in ActionRows
  BY <1>1, Domains DEF NoAction, ActionRows
<1>4. Ids(<<>>) = {}
  <2>1. DOMAIN <<>> = {}
    OBVIOUS
  <2>2. Range(<<>>) = {}
    BY <2>1 DEF Range
  <2> QED
    BY <2>2 DEF Ids
<1> QED
  BY <1>2, <1>3, <1>4

(* How every step moves the form. *)
LEMMA FormStep ==
  ASSUME DashInv, DashNext
  PROVE  /\ FormInOrder' /\ draft' \in Drafts /\ presses' \in 0..MaxPresses /\ faults' \in Nat
         /\ sent' \subseteq [key : 1..MaxPresses, payload : Payloads, submission : Nat \ {0}]
         /\ created' \subseteq [key : 1..MaxPresses, payload : Payloads, task : Tasks]
         /\ {c.task : c \in created'} \subseteq Existing'
         /\ draft'.phase = "answered" /\ ~draft'.failed =>
              draft'.row \in TaskRows /\ draft'.row.id \in Existing'
<1>1. /\ DashTypeOK /\ FormInOrder /\ draft \in Drafts /\ presses \in 0..MaxPresses /\ faults \in Nat
      /\ MaxPresses \in Nat
      /\ created \subseteq [key : 1..MaxPresses, payload : Payloads, task : Tasks]
      /\ sent \subseteq [key : 1..MaxPresses, payload : Payloads, submission : Nat \ {0}]
      /\ {c.task : c \in created} \subseteq Existing
      /\ draft.phase = "answered" /\ ~draft.failed => draft.row \in TaskRows /\ draft.row.id \in Existing
  BY DashboardAssumption DEF DashInv, DashTypeOK, ListsInOrder, AnswersNameTasks
<1>2. Existing \subseteq Existing'
  <2>1. PICK n, m \in 0..MaxTasks : Existing = 1..n /\ Existing' = 1..m /\ n <= m
    BY AttemptsGrow
  <2> QED
    BY <2>1
<1>3. presses' \in 0..MaxPresses /\ presses <= presses' /\ faults' \in Nat
  <2>1. presses' = presses \/ Press
    BY DEF DashNext, DashKey, DashAnswer, DashLoop, Move, Search, RefreshNow, Dismiss, Confirm, Ask,
           OpenCreateTask, Escape, CloseAccepted, SubmitCreateTask, AnswerList, AnswerDetail, AnswerAction,
           AnswerCreate, LineArrives, StreamEnds, Tick, ApplyLogs, ApplyAction, ApplyCreate, ApplyTasks,
           ApplyDetail, Elsewhere
  <2>2. faults' = faults \/ faults' = faults + 1
    <3>1. ASSUME NEW kind, StreamEnds(kind) PROVE faults' = faults \/ faults' = faults + 1
      BY <3>1 DEF StreamEnds, Fault, NoFault
    <3> QED
    BY <3>1
       DEF Fault, NoFault, DashNext, DashKey, DashAnswer, DashLoop, Move, Search, RefreshNow, Dismiss,
           Confirm, Ask, OpenCreateTask, Escape, CloseAccepted, SubmitCreateTask, AnswerList, AnswerDetail,
           AnswerAction, AnswerCreate, LineArrives, Tick, ApplyLogs, ApplyAction, ApplyCreate,
           ApplyTasks, ApplyDetail, Elsewhere
  <2> QED
    BY <1>1, <2>1, <2>2 DEF Press
<1> DEFINE Kept == /\ sent' = sent /\ created' = created /\ draft' \in Drafts
                   /\ \/ /\ draft'.key = draft.key /\ draft'.last = draft.last
                         /\ draft'.phase # "none" => draft'.phase = draft.phase /\ draft'.row = draft.row
                                                     /\ draft'.failed = draft.failed
                      \/ draft'.key = 0 /\ draft'.last = NoPayload /\ draft'.phase = "none"
<1>4. CASE Kept
  <2>1. FormInOrder'
    BY <1>1, <1>3, <1>4, FormKept
  <2>2. {c.task : c \in created'} \subseteq Existing'
    BY <1>1, <1>2, <1>4
  <2>3. draft'.phase = "answered" /\ ~draft'.failed => draft'.row \in TaskRows /\ draft'.row.id \in Existing'
    BY <1>1, <1>2, <1>4
  <2> QED
    BY <1>1, <1>3, <1>4, <2>1, <2>2, <2>3
<1>5. CASE UNCHANGED <<draft, sent, created>>
  BY <1>1, <1>4, <1>5
<1>6. NoDraft \in Drafts /\ NoDraft.key = 0 /\ NoDraft.last = NoPayload /\ NoDraft.phase = "none"
      /\ [NoDraft EXCEPT !.open = TRUE, !.modal = TRUE] \in Drafts
      /\ [NoDraft EXCEPT !.open = TRUE, !.modal = TRUE].key = 0
      /\ [NoDraft EXCEPT !.open = TRUE, !.modal = TRUE].last = NoPayload
      /\ [NoDraft EXCEPT !.open = TRUE, !.modal = TRUE].phase = "none"
  <2>1. NoDraft \in Drafts /\ NoDraft.key = 0 /\ NoDraft.last = NoPayload /\ NoDraft.phase = "none"
    BY NothingAsked DEF NoDraft
  <2> QED
    BY <2>1 DEF Drafts
<1>7. ASSUME NEW b \in BOOLEAN, draft' = [draft EXCEPT !.modal = b], UNCHANGED <<sent, created>>
      PROVE  Kept
  BY <1>1, <1>7 DEF Drafts
<1>8. CASE OpenCreateTask
  <2>1. \/ draft' = [draft EXCEPT !.modal = TRUE]
        \/ draft' = [NoDraft EXCEPT !.open = TRUE, !.modal = TRUE]
    BY <1>8 DEF OpenCreateTask
  <2>2. sent' = sent /\ created' = created /\ TRUE \in BOOLEAN
    BY <1>8 DEF OpenCreateTask
  <2>3. Kept
    BY <1>6, <1>7, <2>1, <2>2
  <2> HIDE DEF Kept
  <2> QED
    BY <1>4, <2>3
<1>9. CASE Escape
  <2>1. draft' = [draft EXCEPT !.modal = FALSE] \/ draft' = NoDraft
    BY <1>9 DEF Escape
  <2>2. sent' = sent /\ created' = created /\ FALSE \in BOOLEAN
    BY <1>9 DEF Escape
  <2>3. Kept
    BY <1>6, <1>7, <2>1, <2>2
  <2> HIDE DEF Kept
  <2> QED
    BY <1>4, <2>3
<1>10. CASE CloseAccepted
  <2>1. Kept
    BY <1>6, <1>10 DEF CloseAccepted
  <2> HIDE DEF Kept
  <2> QED
    BY <1>4, <2>1
<1>11. CASE ApplyCreate
  <2>1. \/ draft' = [draft EXCEPT !.phase = "none", !.failed = FALSE]
        \/ draft' = [draft EXCEPT !.phase = "none", !.accepted = TRUE]
        \/ draft' = NoDraft
    BY <1>11 DEF ApplyCreate
  <2>2. sent' = sent /\ created' = created
    BY <1>11 DEF ApplyCreate
  <2>3. Kept
    <3>1. CASE draft' = [draft EXCEPT !.phase = "none", !.failed = FALSE]
      BY <1>1, <2>2, <3>1 DEF Drafts
    <3>2. CASE draft' = [draft EXCEPT !.phase = "none", !.accepted = TRUE]
      BY <1>1, <2>2, <3>2 DEF Drafts
    <3>3. CASE draft' = NoDraft
      BY <1>6, <2>2, <3>3
    <3> QED
      BY <2>1, <3>1, <3>2, <3>3
  <2> HIDE DEF Kept
  <2> QED
    BY <1>4, <2>3
<1>12. ASSUME NEW p \in Payloads, SubmitCreateTask(p)
       PROVE  /\ FormInOrder' /\ draft' \in Drafts /\ created' = created
              /\ sent' \subseteq [key : 1..MaxPresses, payload : Payloads, submission : Nat \ {0}]
              /\ draft'.phase # "answered"
  <2>1. created' = created /\ draft' = [draft EXCEPT !.key = EventKey(p), !.last = p, !.phase = "asked"]
    BY <1>12 DEF SubmitCreateTask
  <2>2. draft'.phase = "asked"
    BY <1>1, <2>1 DEF Drafts
  <2> QED
    BY <1>12, <2>1, <2>2, SubmitStep
<1>13. CASE AnswerCreate
  <2>1. sent' = sent
    BY <1>13 DEF AnswerCreate
  <2> QED
    BY <1>1, <1>3, <1>13, <2>1, AnswerCreateStep
<1> HIDE DEF Kept
<1>14. CASE \E p \in Payloads : SubmitCreateTask(p)
  <2>1. {c.task : c \in created'} \subseteq Existing'
    BY <1>1, <1>2, <1>12, <1>14
  <2> QED
    BY <1>1, <1>3, <1>12, <1>14, <2>1
<1>15. \/ UNCHANGED <<draft, sent, created>>
       \/ OpenCreateTask \/ Escape \/ CloseAccepted \/ ApplyCreate \/ AnswerCreate
       \/ \E p \in Payloads : SubmitCreateTask(p)
  BY DEF DashNext, DashKey, DashAnswer, DashLoop, Move, Search, RefreshNow, Dismiss, Confirm, Ask,
         AnswerList, AnswerDetail, AnswerAction, LineArrives, StreamEnds, Tick, ApplyLogs, ApplyAction,
         ApplyTasks, ApplyDetail, Elsewhere
<1> QED
  BY <1>5, <1>8, <1>9, <1>10, <1>11, <1>13, <1>14, <1>15

(* One request for the list is the latest after a refresh, and it has no     *)
(* answer yet.                                                               *)
LEMMA RefreshIsLatest ==
  ASSUME NEW u \in Views, NEW l \in ForceRefresh(u).lists
  PROVE  /\ \/ l.rows = <<>>
            \/ \E k \in u.lists : l.rows = k.rows
         /\ l.fresh => l = [fresh |-> TRUE, phase |-> "asked", failed |-> FALSE, rows |-> <<>>]
<1>1. l \in Stale(u.lists) \cup {[fresh |-> TRUE, phase |-> "asked", failed |-> FALSE, rows |-> <<>>]}
  BY ForceRefreshKeeps
<1>2. CASE l \in Stale(u.lists)
  <2>1. PICK k \in u.lists : l = [k EXCEPT !.fresh = FALSE]
    BY <1>2 DEF Stale
  <2>2. k \in ListRequests
    BY DEF Views
  <2> QED
    BY <2>1, <2>2 DEF ListRequests
<1>3. CASE l = [fresh |-> TRUE, phase |-> "asked", failed |-> FALSE, rows |-> <<>>]
  BY <1>3
<1> QED
  BY <1>1, <1>2, <1>3

(* The requests for lists stay in order. *)
LEMMA ListsInOrderStep ==
  ASSUME DashInv, DashNext
  PROVE  ListsInOrder'
<1>1. PICK n, m \in 0..MaxTasks : Existing = 1..n /\ Existing' = 1..m /\ n <= m
  BY AttemptsGrow
<1>2. /\ attempts \in [Tasks -> Nat] /\ attempts' \in [Tasks -> Nat]
      /\ ui \in Views /\ ui.lists \subseteq ListRequests /\ ui.rows \in Seq(TaskRows)
      /\ ui' \in Views /\ ui'.lists \subseteq ListRequests
      /\ n \in Nat /\ m \in Nat /\ TaskLimit \in Nat
  <2>1. attempts \in [Tasks -> Nat] /\ ui \in Views /\ ui' \in Views
    BY ViewStep DEF DashInv, DashTypeOK, Sound
  <2>2. \A u \in Views : u.lists \subseteq ListRequests /\ u.rows \in Seq(TaskRows)
    BY DEF Views
  <2>3. n \in Nat /\ m \in Nat /\ TaskLimit \in Nat
    BY DashboardAssumption
  <2> QED
    BY <2>1, <2>2, <2>3, AttemptsGrow
<1>3. /\ Ids(ui.rows) \subseteq 1..n
      /\ ui.selected # Nobody => ui.selected \in 1..n
      /\ action.phase # "none" => action.task \in 1..n
      /\ draft.phase = "answered" /\ ~draft.failed => draft.row.id \in 1..n
      /\ \A l \in ui.lists : Ids(l.rows) \subseteq 1..n
      /\ \A l, k \in ui.lists : l.fresh /\ k.fresh => l = k
      /\ \A l \in ui.lists : l.fresh /\ l.phase = "answered" /\ ~l.failed =>
           Ids(ui.rows) \cap Ids(Listed) \subseteq Ids(l.rows)
  BY <1>1 DEF DashInv, ListsInOrder
<1>4. Listed \in Seq(TaskRows) /\ Ids(Listed) = {t \in 1..n : t > n - TaskLimit}
  BY <1>1, <1>2, ListedRows
<1>5. Ids(Listed') = {t \in 1..m : t > m - TaskLimit}
  BY <1>1, <1>2, ListedRows
<1>6. Ids(Listed) \subseteq 1..n /\ (1..n) \cap Ids(Listed') \subseteq Ids(Listed) /\ 1..n \subseteq 1..m
  BY <1>1, <1>2, <1>4, <1>5
<1>7. Ids(<<>>) = {}
  BY NothingAsked
<1> DEFINE Shown == Ids(ui'.rows) \subseteq 1..m
           Answers == \A l \in ui'.lists : Ids(l.rows) \subseteq 1..m
           OneFresh == \A l, k \in ui'.lists : l.fresh /\ k.fresh => l = k
           Safe == \A l \in ui'.lists : l.fresh /\ l.phase = "answered" /\ ~l.failed =>
                     Ids(ui'.rows) \cap Ids(Listed') \subseteq Ids(l.rows)
<1>8. ASSUME ui'.lists = ForceRefresh(ui).lists
      PROVE  Answers /\ OneFresh /\ Safe
  <2>1. \A l \in ui'.lists :
          /\ l.rows = <<>> \/ \E k \in ui.lists : l.rows = k.rows
          /\ l.fresh => l = [fresh |-> TRUE, phase |-> "asked", failed |-> FALSE, rows |-> <<>>]
    BY <1>2, <1>8, RefreshIsLatest
  <2>2. Answers
    <3>1. SUFFICES ASSUME NEW l \in ui'.lists PROVE Ids(l.rows) \subseteq 1..m
      OBVIOUS
    <3>2. CASE l.rows = <<>>
      BY <1>7, <3>2
    <3>3. ASSUME NEW k \in ui.lists, l.rows = k.rows PROVE Ids(l.rows) \subseteq 1..m
      BY <1>3, <1>6, <3>3
    <3> QED
      BY <2>1, <3>2, <3>3
  <2>3. OneFresh
    BY <2>1
  <2>4. Safe
    BY <2>1
  <2> QED
    BY <2>2, <2>3, <2>4
<1>9. Shown /\ Answers /\ OneFresh /\ Safe
  <2>1. CASE ui'.rows = ui.rows /\ ui'.lists = ui.lists
    <3>1. Shown /\ Answers /\ OneFresh
      BY <1>3, <1>6, <2>1
    <3>2. Safe
      BY <1>3, <1>6, <2>1
    <3> QED
      BY <3>1, <3>2
  <2>2. CASE ui'.rows = ui.rows /\ ui'.lists = ForceRefresh(ui).lists
    <3>1. Shown
      BY <1>3, <1>6, <2>2
    <3> QED
      BY <1>8, <2>2, <3>1
  <2>3. ASSUME NEW l \in ui.lists, NEW k \in ListRequests,
               ui'.rows = ui.rows, ui'.lists = (ui.lists \ {l}) \cup {k}, k.fresh = l.fresh,
               \/ k.failed /\ k.rows = l.rows
               \/ k.rows = Listed
        PROVE  Shown /\ Answers /\ OneFresh /\ Safe
    <3>1. Shown
      BY <1>3, <1>6, <2>3
    <3>2. Ids(k.rows) \subseteq 1..m
      BY <1>3, <1>4, <1>6, <2>3
    <3>3. Answers
      <4>1. \A x \in ui.lists : Ids(x.rows) \subseteq 1..m
        BY <1>3, <1>6
      <4> QED
        BY <2>3, <3>2, <4>1
    <3>4. OneFresh
      BY <1>3, <2>3
    <3>5. Safe
      <4>1. SUFFICES ASSUME NEW x \in ui'.lists, x.fresh, x.phase = "answered", ~x.failed
                     PROVE  Ids(ui'.rows) \cap Ids(Listed') \subseteq Ids(x.rows)
        OBVIOUS
      <4>2. CASE x = k
        <5>1. x.rows = Listed
          BY <2>3, <4>1, <4>2
        <5> QED
          BY <1>3, <1>6, <2>3, <5>1
      <4>3. CASE x # k
        <5>1. x \in ui.lists
          BY <2>3, <4>3
        <5> QED
          BY <1>3, <1>6, <2>3, <4>1, <5>1
      <4> QED
        BY <4>2, <4>3
    <3> QED
      BY <3>1, <3>3, <3>4, <3>5
  <2>4. ASSUME NEW l \in ui.lists, ui'.lists = ui.lists \ {l},
               \/ ui'.rows = ui.rows
               \/ l.fresh /\ l.phase = "answered" /\ ~l.failed /\ ui'.rows = l.rows
        PROVE  Shown /\ Answers /\ OneFresh /\ Safe
    <3>1. Shown
      BY <1>3, <1>6, <2>4
    <3>2. Answers /\ OneFresh
      BY <1>3, <1>6, <2>4
    <3>3. Safe
      <4>1. CASE ui'.rows = ui.rows
        BY <1>3, <1>6, <2>4, <4>1
      <4>2. CASE l.fresh
        <5>1. \A x \in ui'.lists : ~x.fresh
          BY <1>3, <2>4, <4>2
        <5> QED
          BY <5>1
      <4> QED
        BY <2>4, <4>1, <4>2
    <3> QED
      BY <3>1, <3>2, <3>3
  <2>5. ASSUME draft.phase = "answered", ~draft.failed, ui'.lists = ForceRefresh(ui).lists,
               Ids(ui'.rows) \subseteq Ids(ui.rows) \cup {draft.row.id}
        PROVE  Shown /\ Answers /\ OneFresh /\ Safe
    <3>1. Shown
      BY <1>3, <1>6, <2>5
    <3> QED
      BY <1>8, <2>5, <3>1
  <2> HIDE DEF Shown, Answers, OneFresh, Safe
  <2>6. ListMoves
    BY ViewStep
  <2> QED
    BY <2>1, <2>2, <2>3, <2>4, <2>5, <2>6 DEF ListMoves
<1>10. ui'.selected # Nobody => ui'.selected \in 1..m
  <2>1. ui'.selected \in {ui.selected, Nobody} \cup Ids(ui'.rows)
    BY ViewStep DEF SelectsFrom
  <2> QED
    BY <1>3, <1>6, <1>9, <2>1
<1>11. action'.phase # "none" => action'.task \in 1..m
  BY <1>3, <1>6, ActionStep
<1>12. /\ {c.task : c \in created'} \subseteq 1..m
       /\ draft'.phase = "answered" /\ ~draft'.failed => draft'.row.id \in 1..m
  BY <1>1, FormStep
<1> QED
  BY <1>1, <1>9, <1>10, <1>11, <1>12 DEF ListsInOrder

-----------------------------------------------------------------------------
(* The invariant and what it implies *)

(* A dashboard that starts has an empty view and one list requested. *)
LEMMA DashInvInit == DashInit => DashInv
<1> SUFFICES ASSUME DashInit PROVE DashInv
  OBVIOUS
<1>1. PICK n \in 0..MaxTasks : attempts = [t \in Tasks |-> IF t <= n THEN 1 ELSE 0]
  BY DEF DashInit
<1>2. attempts \in [Tasks -> Nat] /\ Existing = 1..n
  <2>1. \A t \in Tasks : attempts[t] > 0 <=> t <= n
    BY <1>1 DEF Tasks
  <2>2. Existing = {t \in 1..MaxTasks : t <= n}
    BY <2>1 DEF Existing, Tasks
  <2> QED
    BY <1>1, <2>2, DashboardAssumption
<1>3. /\ created = {} /\ ui = ForceRefresh(Blank) /\ action = NoAction /\ draft = NoDraft
      /\ sent = {} /\ presses = 0 /\ faults = 0
  BY DEF DashInit
<1>4. Blank \in Views /\ Sound(Blank) /\ Blank.rows = <<>> /\ Blank.lists = {} /\ Blank.selected = Nobody
  <2>1. Blank \in Views
    <3>1. <<>> \in Seq(TaskRows) /\ <<>> \in Seq(LogMessages)
      OBVIOUS
    <3> QED
      BY <3>1, Domains DEF Blank, Views
  <2>2. StreamIsOpen(Blank) /\ Agree(Blank)
    BY DEF Blank, StreamIsOpen, Agree
  <2> QED
    BY <2>1, <2>2 DEF Blank, Sound
<1>5. /\ Sound(ui) /\ ui.rows = <<>> /\ ui.selected = Nobody
      /\ ui.lists = {[fresh |-> TRUE, phase |-> "asked", failed |-> FALSE, rows |-> <<>>]}
  <2>1. Stale({}) = {}
    BY DEF Stale
  <2>2. /\ ui \in Views /\ SameRows(Blank, ui) /\ SamePanes(Blank, ui)
        /\ ui.lists = Stale(Blank.lists) \cup
             {[fresh |-> TRUE, phase |-> "asked", failed |-> FALSE, rows |-> <<>>]}
    BY <1>3, <1>4, ForceRefreshKeeps
  <2>3. StreamIsOpen(ui) /\ Agree(ui)
    BY <1>4, <2>2 DEF Sound, StreamIsOpen, Agree, SamePanes
  <2> QED
    BY <1>4, <2>1, <2>2, <2>3 DEF Sound, SamePanes, SameRows
<1>6. DashTypeOK
  <2>1. action \in ActionRows /\ draft \in Drafts
    BY <1>3, NothingAsked
  <2> QED
    BY <1>2, <1>3, <1>5, <2>1, DashboardAssumption DEF DashTypeOK, Sound
<1>7. AnswersNameTasks /\ StreamIsOpen(ui) /\ PanesAgree
  BY <1>3, <1>5 DEF AnswersNameTasks, NoAction, NoDraft, Sound, PanesAgree, Agree
<1>8. ListsInOrder
  <2>1. Ids(<<>>) = {}
    BY NothingAsked
  <2>2. Ids(ui.rows) = {} /\ {c.task : c \in created} = {}
    BY <1>3, <1>5, <2>1
  <2>3. action.phase = "none" /\ draft.phase = "none"
    BY <1>3 DEF NoAction, NoDraft
  <2>4. \A l \in ui.lists : Ids(l.rows) = {} /\ l.phase = "asked"
    BY <1>5, <2>1
  <2>5. \A l, k \in ui.lists : l.fresh /\ k.fresh => l = k
    BY <1>5
  <2>6. \E k \in 0..MaxTasks : Existing = 1..k
    BY <1>2
  <2> QED
    BY <1>5, <2>2, <2>3, <2>4, <2>5, <2>6 DEF ListsInOrder
<1>9. FormInOrder
  <2>1. Submissions = {} /\ Latest = 0
    BY <1>3, FS_EmptySet DEF Submissions, Latest
  <2> QED
    BY <1>3, <2>1, FS_EmptySet DEF FormInOrder, NoDraft
<1> QED
  BY <1>6, <1>7, <1>8, <1>9 DEF DashInv

(* Every step keeps it. *)
LEMMA DashInvStep == DashInv /\ [DashNext]_dashVars => DashInv'
<1> SUFFICES ASSUME DashInv, [DashNext]_dashVars PROVE DashInv'
  OBVIOUS
<1>1. CASE DashNext
  <2>1. Sound(ui')
    BY <1>1, ViewStep
  <2>2. DashTypeOK'
    BY <1>1, <2>1, AttemptsGrow, ActionStep, FormStep DEF DashTypeOK, Sound
  <2>3. AnswersNameTasks'
    <3>1. action'.phase # "none" => action'.task \in Tasks
      <4>1. ui.selected # Nobody => ui.selected \in Tasks
        BY DEF DashInv, DashTypeOK, Views
      <4> QED
        BY <1>1, <4>1, ActionStep DEF DashInv, AnswersNameTasks
    <3> QED
      BY <1>1, <3>1, FormStep DEF AnswersNameTasks
  <2>4. StreamIsOpen(ui') /\ PanesAgree'
    BY <2>1 DEF Sound, PanesAgree, Agree
  <2> QED
    BY <1>1, <2>2, <2>3, <2>4, FormStep, ListsInOrderStep DEF DashInv
<1>2. CASE UNCHANGED dashVars
  <2>1. DashTypeOK' /\ AnswersNameTasks' /\ StreamIsOpen(ui') /\ PanesAgree'
    BY <1>2 DEF DashInv, dashVars, DashTypeOK, AnswersNameTasks, PanesAgree
  <2>2. Existing' = Existing /\ Listed' = Listed /\ Submissions' = Submissions /\ Latest' = Latest
        /\ Keys' = Keys
    BY <1>2 DEF dashVars, Existing, Listed, RowOf, Submissions, Latest, Keys
  <2>3. ListsInOrder'
    BY <1>2, <2>2 DEF DashInv, dashVars, ListsInOrder
  <2>4. FormInOrder'
    BY <1>2, <2>2 DEF DashInv, dashVars, FormInOrder
  <2> QED
    BY <2>1, <2>3, <2>4 DEF DashInv
<1> QED
  BY <1>1, <1>2

(* Types, panes, requests for lists and submissions stay in order in every    *)
(* behaviour, for any tasks, searches, keys pressed and faults.              *)
THEOREM DashboardInvariant == DashSpec => []DashInv
BY DashInvInit, DashInvStep, PTL DEF DashSpec

(* However late answers and log messages arrive, the panes show one task, one *)
(* attempt of it and lines of that attempt only.                             *)
THEOREM PanesStayTogether == DashSpec => []PanesAgree
<1>1. DashInv => PanesAgree
  BY DEF DashInv
<1> QED
  BY <1>1, DashboardInvariant, PTL

(* However often a form is sent, hidden, changed and answered or not, a       *)
(* submission makes one task and a key means one content.                    *)
THEOREM SubmissionsMakeOneTask == DashSpec => []OneTaskPerSubmission
<1>1. DashInv => OneTaskPerSubmission
  <2> SUFFICES ASSUME DashInv PROVE OneTaskPerSubmission
    OBVIOUS
  <2>1. FormInOrder
    BY DEF DashInv
  <2>2. ASSUME NEW r \in sent, NEW s \in sent, r.submission = s.submission
        PROVE  Cardinality({c \in created : c.key \in {r.key, s.key}}) <= 1
    <3> DEFINE C == {c \in created : c.key \in {r.key, s.key}}
    <3>1. \A c, d \in C : c = d
      BY <2>1, <2>2 DEF FormInOrder
    <3>2. CASE C = {}
      BY <3>2, FS_EmptySet
    <3>3. CASE C # {}
      <4>1. PICK c \in C : TRUE
        BY <3>3
      <4>2. C = {c}
        BY <3>1, <4>1
      <4> HIDE DEF C
      <4>3. Cardinality(C) = 1
        BY <4>2, FS_Singleton
      <4> QED
        BY <4>3 DEF C
    <3> QED
      BY <3>2, <3>3
  <2> QED
    BY <2>1, <2>2 DEF FormInOrder, OneTaskPerSubmission
<1> QED
  BY <1>1, DashboardInvariant, PTL

(* A list that was asked for before a task existed cannot move the selection: *)
(* only the latest request may change the rows, and its answer has every row *)
(* that is shown and still listed; nor does any other answer move it.        *)
THEOREM SelectionStays == DashSpec => SelectionSurvives
<1>1. ASSUME DashInv, [DashNext]_dashVars
      PROVE  [ui.selected \in Visible(ui) \cap Ids(Listed) /\ presses' = presses /\ ~ApplyCreate
                => ui'.selected = ui.selected]_dashVars
  <2>1. CASE DashNext
    <3>1. SelectionMoves
      BY <1>1, <2>1, ViewStep
    <3>2. \A l \in ui.lists : l.fresh /\ l.phase = "answered" /\ ~l.failed =>
            Ids(ui.rows) \cap Ids(Listed) \subseteq Ids(l.rows)
      BY <1>1 DEF DashInv, ListsInOrder
    <3> QED
      BY <3>1, <3>2 DEF SelectionMoves, Visible
  <2> QED
    BY <1>1, <2>1
<1> QED
  BY <1>1, DashboardInvariant, PTL DEF DashSpec, SelectionSurvives

=============================================================================
