----------------------------- MODULE Dashboard -----------------------------
(***************************************************************************)
(* The terminal dashboard (tui/runner.go, actions.go, model.go): one event  *)
(* loop that owns the view, and the requests it has in flight, each in a   *)
(* goroutine that hands its answer back over a channel.                    *)
(*                                                                         *)
(* A step is one turn of the loop (a key, a tick, an answer applied), one   *)
(* answer or log line that arrives, or one change made on the controller    *)
(* by somebody else.  Answers carry the generation of their request; only   *)
(* whether it is still the latest one is kept ("fresh").  Tasks are          *)
(* numbered in the order of their creation.  What only changes the drawing  *)
(* (modes, themes, messages, scrolling) is left out.                        *)
(***************************************************************************)
EXTENDS Naturals, FiniteSets, SequencesExt

CONSTANTS
  MaxTasks,     \* bound on the tasks of the controller
  MaxAttempts,  \* bound on the attempts of a task
  TaskLimit,    \* Options.TaskLimit: rows asked for, newest first
  Queries,      \* what a search matches: sets of tasks
  Payloads,     \* repository and prompt of a new task
  NoPayload,
  LogQueue,     \* capacity of logsCh
  MaxPresses,   \* bound on the keys pressed
  MaxFaults     \* bound on failed requests and broken streams

ASSUME DashboardAssumption ==
  /\ MaxTasks \in Nat \ {0} /\ MaxAttempts \in Nat \ {0} /\ TaskLimit \in Nat \ {0}
  /\ LogQueue \in Nat \ {0} /\ MaxPresses \in Nat /\ MaxFaults \in Nat
  /\ NoPayload \notin Payloads /\ Queries \subseteq SUBSET (1..MaxTasks)

VARIABLES
  attempts,  \* controller: number of attempts of each task, 0 before it exists
  created,   \* controller: the create requests it carried out
  ui,        \* the view, and the requests for lists, details and logs
  action,    \* restart or cancellation: dialog and request in flight
  draft,     \* the form for a new task and its request in flight
  sent,      \* every create request sent: key, payload, submission
  presses, faults

dashVars == <<attempts, created, ui, action, draft, sent, presses, faults>>

Tasks == 1..MaxTasks
Nobody == 0
NoRow == [id |-> Nobody, attempt |-> 0]

Existing == {t \in Tasks : attempts[t] > 0}
RowOf(t) == [id |-> t, attempt |-> attempts[t]]
Newest(s, n) == SubSeq(s, 1, IF Len(s) < n THEN Len(s) ELSE n)

(* ListTasks: the newest TaskLimit tasks. *)
Listed ==
  LET n == Cardinality(Existing)
  IN Newest([i \in 1..n |-> RowOf(n + 1 - i)], TaskLimit)

Ids(rows) == {r.id : r \in Range(rows)}

-----------------------------------------------------------------------------
(* The view.                                                                *)

Blank == [rows |-> <<>>, query |-> Tasks, selected |-> Nobody, detail |-> NoRow,
          refreshing |-> FALSE, lists |-> {}, details |-> {},
          stream |-> NoRow, streaming |-> FALSE, logStop |-> FALSE, logComplete |-> FALSE,
          queue |-> <<>>, pane |-> {}]

(* Of the requests that are no longer the latest, one is remembered: none of *)
(* their answers may have an effect.                                        *)
Stale(requests) == {[r EXCEPT !.fresh = FALSE] : r \in {r \in requests : r.fresh}}
Answered(requests) == {r \in requests : r.phase = "answered"}
Visible(u) == Ids(u.rows) \cap u.query
FirstVisible(u) == u.rows[Min({i \in DOMAIN u.rows : u.rows[i].id \in u.query})].id

StopStream(u) == [u EXCEPT !.streaming = FALSE, !.logStop = FALSE]

(* Refresh: nothing while one is under way. *)
ForceRefresh(u) ==
  [u EXCEPT !.refreshing = TRUE,
            !.lists = Stale(@) \cup {[fresh |-> TRUE, phase |-> "asked", failed |-> FALSE, rows |-> <<>>]}]
Refresh(u) == IF u.refreshing THEN u ELSE ForceRefresh(u)

(* The request before it is cancelled, unless its answer is in the channel. *)
FetchDetail(u) ==
  [u EXCEPT !.details = Stale(Answered(@)) \cup
              {[fresh |-> TRUE, phase |-> "asked", failed |-> FALSE, row |-> [id |-> u.selected, attempt |-> 0]]}]

StartLogs(u) ==
  IF u.selected = Nobody THEN u
  ELSE [StopStream(u) EXCEPT !.stream = [id |-> u.selected, attempt |-> u.detail.attempt],
                             !.streaming = TRUE, !.logStop = TRUE, !.logComplete = FALSE,
                             !.queue = [i \in DOMAIN @ |-> [@[i] EXCEPT !.fresh = FALSE]],
                             !.pane = {}]

SelectTask(u, t) ==
  StartLogs(FetchDetail([u EXCEPT !.selected = t,
                                  !.detail = CHOOSE r \in Range(u.rows) : r.id = t]))

(* Generations stay, so that an answer in a channel still counts as fresh. *)
ClearTaskSelection(u) ==
  [StopStream(u) EXCEPT !.details = Answered(@), !.selected = Nobody, !.detail = NoRow,
                        !.pane = {}, !.logComplete = FALSE]

RefreshTasks(u, rows) ==
  [u EXCEPT !.rows = rows,
            !.selected = IF @ \in Ids(rows) THEN @ ELSE IF rows = <<>> THEN Nobody ELSE rows[1].id]

ReconcileSearchSelection(u) ==
  IF u.selected \in Visible(u) THEN u
  ELSE IF Visible(u) = {} THEN ClearTaskSelection(u)
  ELSE SelectTask(u, FirstVisible(u))

(* applyTasks, for an answer that is in time and not an error. *)
ShowTasks(u, rows) ==
  LET v == RefreshTasks(u, rows)
  IN IF v.selected \notin Visible(v) THEN ReconcileSearchSelection(v)
     ELSE IF v.selected # u.selected \/ u.detail = NoRow THEN SelectTask(v, v.selected)
     ELSE FetchDetail(v)

(* The answers to a restart and to a detail request replace the task shown. *)
ShowAttempt(u, row) ==
  LET v == [u EXCEPT !.detail = row]
  IN IF u.detail.attempt # row.attempt THEN StartLogs(v) ELSE v

-----------------------------------------------------------------------------
(* Ticks, lists and details.                                                *)

Tick ==
  LET u == Refresh(ui)
  IN /\ ui' = IF ~u.logStop /\ ~u.logComplete THEN StartLogs(u) ELSE u
     /\ UNCHANGED <<attempts, created, action, draft, sent, presses, faults>>

Fault == faults < MaxFaults /\ faults' = faults + 1
NoFault == faults' = faults

AnswerList(l) ==
  /\ l.phase = "asked"
  /\ \/ NoFault /\ ui' = [ui EXCEPT !.lists = (@ \ {l}) \cup {[l EXCEPT !.phase = "answered", !.rows = Listed]}]
     \/ Fault /\ ui' = [ui EXCEPT !.lists = (@ \ {l}) \cup {[l EXCEPT !.phase = "answered", !.failed = TRUE]}]
  /\ UNCHANGED <<attempts, created, action, draft, sent, presses>>

(* Mutant: generations are not compared. *)
InTimeAlways(r) == TRUE

InTime(r) == r.fresh

(* Mutant: a refresh that failed stays under way. *)
ApplyTasksOrStall(l) ==
  LET u == [ui EXCEPT !.lists = @ \ {l}]
  IN /\ l.phase = "answered"
     /\ ui' = IF ~InTime(l) \/ l.failed THEN u ELSE ShowTasks([u EXCEPT !.refreshing = FALSE], l.rows)
     /\ UNCHANGED <<attempts, created, action, draft, sent, presses, faults>>

ApplyTasks(l) ==
  LET u == [ui EXCEPT !.lists = @ \ {l}]
      v == [u EXCEPT !.refreshing = FALSE]
  IN /\ l.phase = "answered"
     /\ ui' = CASE ~InTime(l) -> u
                [] InTime(l) /\ l.failed -> v
                [] OTHER -> ShowTasks(v, l.rows)
     /\ UNCHANGED <<attempts, created, action, draft, sent, presses, faults>>

AnswerDetail(d) ==
  /\ d.phase = "asked"
  /\ \/ NoFault /\ ui' = [ui EXCEPT !.details = (@ \ {d}) \cup
                             {[d EXCEPT !.phase = "answered", !.row = RowOf(d.row.id)]}]
     \/ Fault /\ ui' = [ui EXCEPT !.details = (@ \ {d}) \cup {[d EXCEPT !.phase = "answered", !.failed = TRUE]}]
  /\ UNCHANGED <<attempts, created, action, draft, sent, presses>>

ApplyDetail(d) ==
  LET u == [ui EXCEPT !.details = @ \ {d}]
  IN /\ d.phase = "answered"
     /\ ui' = IF d.row.id # u.selected \/ ~InTime(d) \/ d.failed THEN u ELSE ShowAttempt(u, d.row)
     /\ UNCHANGED <<attempts, created, action, draft, sent, presses, faults>>

-----------------------------------------------------------------------------
(* The log stream.                                                          *)

Enqueue(u, kind, source, fresh) ==
  [u EXCEPT !.queue = Append(@, [kind |-> kind, source |-> source, fresh |-> fresh])]

HasRoom == Len(ui.queue) < LogQueue

(* A line that finds the channel full is lost. *)
LineArrives ==
  /\ ui.streaming /\ HasRoom
  /\ ui' = Enqueue(ui, "line", ui.stream, TRUE)
  /\ UNCHANGED <<attempts, created, action, draft, sent, presses, faults>>

StreamEnds(kind) ==
  /\ ui.streaming /\ HasRoom
  /\ IF kind = "broken" THEN Fault ELSE NoFault
  /\ ui' = Enqueue([ui EXCEPT !.streaming = FALSE], kind, ui.stream, TRUE)
  /\ UNCHANGED <<attempts, created, action, draft, sent, presses>>

(* One message wakes the loop; it then takes all the others. *)
ApplyLogs ==
  LET mine == {m \in Range(ui.queue) : m.source.id = ui.selected /\ InTime(m)}
      over == {m \in mine : m.kind # "line"}
  IN /\ ui.queue # <<>>
     /\ ui' = [ui EXCEPT !.queue = <<>>,
                         !.pane = @ \cup {m.source : m \in mine \ over},
                         !.logStop = @ /\ over = {},
                         !.logComplete = IF over = {} THEN @ ELSE \E m \in over : m.kind = "ended"]
     /\ UNCHANGED <<attempts, created, action, draft, sent, presses, faults>>

-----------------------------------------------------------------------------
(* Keys.                                                                    *)

Press == presses < MaxPresses /\ presses' = presses + 1
Free == ~draft.modal /\ action.confirm = ""

Move(t) ==
  /\ Press /\ Free
  /\ t \in Visible(ui) /\ t # ui.selected
  /\ ui' = SelectTask(ui, t)
  /\ UNCHANGED <<attempts, created, action, draft, sent, faults>>

Search(q) ==
  /\ Press /\ Free
  /\ ui' = ReconcileSearchSelection([ui EXCEPT !.query = q])
  /\ UNCHANGED <<attempts, created, action, draft, sent, faults>>

(* Key R. *)
RefreshNow ==
  /\ Press /\ Free
  /\ ui' = Refresh(ui)
  /\ UNCHANGED <<attempts, created, action, draft, sent, faults>>

NoAction == [confirm |-> "", name |-> "", task |-> Nobody, phase |-> "none", failed |-> FALSE,
             attempt |-> 0]

Ask(name) ==
  /\ Press /\ Free /\ ui.selected # Nobody
  /\ action' = [action EXCEPT !.confirm = name]
  /\ UNCHANGED <<attempts, created, ui, draft, sent, faults>>

Dismiss ==
  /\ Press /\ action.confirm # ""
  /\ action' = [action EXCEPT !.confirm = ""]
  /\ UNCHANGED <<attempts, created, ui, draft, sent, faults>>

(* performAction: for the task selected by now, one request at a time. *)
Confirm ==
  /\ Press /\ action.confirm # ""
  /\ action' = IF action.phase # "none" \/ ui.selected = Nobody
               THEN [action EXCEPT !.confirm = ""]
               ELSE [NoAction EXCEPT !.name = action.confirm, !.task = ui.selected, !.phase = "asked"]
  /\ UNCHANGED <<attempts, created, ui, draft, sent, faults>>

(* The controller may refuse, and its answer may be lost. *)
AnswerAction ==
  LET t == action.task
      answer(n) == [action EXCEPT !.phase = "answered", !.attempt = n]
  IN /\ action.phase = "asked"
     /\ \/ /\ attempts[t] < MaxAttempts \/ action.name = "cancel"
           /\ attempts' = [attempts EXCEPT ![t] = IF action.name = "retry" THEN @ + 1 ELSE @]
           /\ \/ NoFault /\ action' = answer(attempts'[t])
              \/ Fault /\ action' = [answer(0) EXCEPT !.failed = TRUE]
        \/ /\ NoFault /\ action' = [answer(0) EXCEPT !.failed = TRUE]
           /\ UNCHANGED attempts
     /\ UNCHANGED <<created, ui, draft, sent, presses>>

ApplyAction ==
  LET row == [id |-> action.task, attempt |-> action.attempt]
  IN /\ action.phase = "answered"
     /\ action' = [NoAction EXCEPT !.confirm = action.confirm]
     /\ ui' = IF action.failed THEN ui
              ELSE Refresh(IF action.task = ui.selected THEN ShowAttempt(ui, row) ELSE ui)
     /\ UNCHANGED <<attempts, created, draft, sent, presses, faults>>

-----------------------------------------------------------------------------
(* The form for a new task.  Its key is 0 until a request carries it, which *)
(* stands for a random key nobody has seen.                                 *)

NoDraft == [open |-> FALSE, modal |-> FALSE, accepted |-> FALSE, key |-> 0, last |-> NoPayload,
            phase |-> "none", failed |-> FALSE, row |-> NoRow]

Pending == draft.phase # "none"
Typing == draft.modal /\ ~draft.accepted

(* A form that was only hidden comes back as it was. *)
OpenCreateTask ==
  /\ Press /\ Free
  /\ draft' = IF draft.open THEN [draft EXCEPT !.modal = TRUE]
              ELSE [NoDraft EXCEPT !.open = TRUE, !.modal = TRUE]
  /\ UNCHANGED <<attempts, created, ui, action, sent, faults>>

Keys == {s.key : s \in sent}
FreshKey == CHOOSE k \in 1..MaxPresses : k \notin Keys
(* Mutant: a form keeps its key when its content changes. *)
EventKeyOfForm(payload) == IF draft.key = 0 THEN FreshKey ELSE draft.key

EventKey(payload) ==
  IF (draft.last # NoPayload /\ draft.last # payload) \/ draft.key = 0 THEN FreshKey ELSE draft.key

(* History: a submission is a form sent until it is answered or changed. *)
Submission(payload) ==
  IF draft.last = payload THEN Cardinality({s.submission : s \in sent})
  ELSE Cardinality({s.submission : s \in sent}) + 1

SubmitCreateTask(payload) ==
  /\ Press /\ Typing /\ ~Pending
  /\ draft' = [draft EXCEPT !.key = EventKey(payload), !.last = payload, !.phase = "asked"]
  /\ sent' = sent \cup {[key |-> EventKey(payload), payload |-> payload,
                         submission |-> Submission(payload)]}
  /\ UNCHANGED <<attempts, created, ui, action, faults>>

(* Esc hides a form whose request is in flight. *)
Escape ==
  /\ Press /\ Typing
  /\ draft' = IF Pending THEN [draft EXCEPT !.modal = FALSE] ELSE NoDraft
  /\ UNCHANGED <<attempts, created, ui, action, sent, faults>>

CloseAccepted ==
  /\ Press /\ draft.modal /\ draft.accepted
  /\ draft' = NoDraft
  /\ UNCHANGED <<attempts, created, ui, action, sent, faults>>

(* The controller answers a key it knows with the task it made for it, and  *)
(* its answer may be lost.                                                  *)
AnswerCreate ==
  LET known == {c \in created : c.key = draft.key}
      next == Cardinality(Existing) + 1
      answer(t) == [draft EXCEPT !.phase = "answered", !.row = [id |-> t, attempt |-> attempts'[t]]]
      lost == [draft EXCEPT !.phase = "answered", !.failed = TRUE]
  IN /\ draft.phase = "asked"
     /\ \/ /\ known # {} /\ UNCHANGED <<attempts, created>>
           /\ NoFault /\ draft' = answer((CHOOSE c \in known : TRUE).task)
        \/ /\ known = {} /\ next \in Tasks
           /\ attempts' = [attempts EXCEPT ![next] = 1]
           /\ created' = created \cup {[key |-> draft.key, payload |-> draft.last, task |-> next]}
           /\ \/ NoFault /\ draft' = answer(next)
              \/ Fault /\ draft' = lost
        \/ /\ Fault \/ (NoFault /\ known = {} /\ next \notin Tasks)
           /\ draft' = lost /\ UNCHANGED <<attempts, created>>
     /\ UNCHANGED <<ui, action, sent, presses>>

Without(rows, t) == RemoveFirstMatch(rows, LAMBDA r : r.id = t)

(* Mutant: a list asked for before the task existed is still in time. *)
ShowCreatedRefreshing(u, row) ==
  LET v == [u EXCEPT !.query = IF row.id \in @ THEN @ ELSE Tasks]
      others == Without(u.rows, row.id)
  IN Refresh(SelectTask(RefreshTasks(v, Newest(<<row>> \o others, TaskLimit)), row.id))

(* The new task on top, the search dropped if it would hide it, and a list  *)
(* asked for before the task existed made stale.                            *)
ShowCreated(u, row) ==
  LET v == [u EXCEPT !.query = IF row.id \in @ THEN @ ELSE Tasks]
      others == Without(u.rows, row.id)
  IN ForceRefresh(SelectTask(RefreshTasks(v, Newest(<<row>> \o others, TaskLimit)), row.id))

ApplyCreate ==
  /\ draft.phase = "answered"
  /\ IF draft.failed
     THEN /\ draft' = [draft EXCEPT !.phase = "none", !.failed = FALSE]
          /\ UNCHANGED ui
     ELSE /\ draft' = IF draft.modal THEN [draft EXCEPT !.phase = "none", !.accepted = TRUE]
                      ELSE NoDraft
          /\ ui' = ShowCreated(ui, draft.row)
  /\ UNCHANGED <<attempts, created, action, sent, presses, faults>>

-----------------------------------------------------------------------------
(* The controller's other clients. *)
Elsewhere ==
  /\ \E t \in Tasks : /\ attempts[t] < MaxAttempts
                      /\ \A s \in 1..t - 1 : attempts[s] > 0
                      /\ attempts' = [attempts EXCEPT ![t] = @ + 1]
  /\ UNCHANGED <<created, ui, action, draft, sent, presses, faults>>

DashInit ==
  /\ attempts \in {[t \in Tasks |-> IF t <= n THEN 1 ELSE 0] : n \in 0..MaxTasks}
  /\ created = {} /\ ui = ForceRefresh(Blank) /\ action = NoAction /\ draft = NoDraft
  /\ sent = {} /\ presses = 0 /\ faults = 0

DashKey ==
  \/ \E t \in Tasks : Move(t)
  \/ \E q \in Queries : Search(q)
  \/ RefreshNow \/ Dismiss \/ Confirm
  \/ \E name \in {"retry", "cancel"} : Ask(name)
  \/ OpenCreateTask \/ Escape \/ CloseAccepted
  \/ \E p \in Payloads : SubmitCreateTask(p)

DashAnswer ==
  \/ \E l \in ui.lists : AnswerList(l)
  \/ \E d \in ui.details : AnswerDetail(d)
  \/ LineArrives
  \/ \E kind \in {"ended", "broken"} : StreamEnds(kind)
  \/ AnswerAction \/ AnswerCreate

DashLoop ==
  \/ Tick \/ ApplyLogs \/ ApplyAction \/ ApplyCreate
  \/ \E l \in ui.lists : ApplyTasks(l)
  \/ \E d \in ui.details : ApplyDetail(d)

DashNext == DashKey \/ DashAnswer \/ DashLoop \/ Elsewhere

DashSpec == DashInit /\ [][DashNext]_dashVars

(* The ticker ticks, lists and changes are answered or time out, and the     *)
(* loop's select, which picks any channel that is ready, forgets none.       *)
(* Nothing is assumed of the answers to detail requests: each list that is   *)
(* applied cancels the request in flight, so with details slower than the    *)
(* refresh there may be none.                                                *)
DashFairness ==
  /\ WF_dashVars(Tick) /\ WF_dashVars(ApplyLogs) /\ WF_dashVars(ApplyAction) /\ WF_dashVars(ApplyCreate)
  /\ WF_dashVars(\E l \in ui.lists : AnswerList(l))
  /\ WF_dashVars(\E l \in ui.lists : ApplyTasks(l))
  /\ WF_dashVars(\E d \in ui.details : ApplyDetail(d))
  /\ WF_dashVars(AnswerAction) /\ WF_dashVars(AnswerCreate)

FairDashSpec == DashSpec /\ DashFairness

-----------------------------------------------------------------------------
(* Properties.                                                              *)

(* What the panes show belongs together, whatever answers are under way: the *)
(* details are those of the selected task, the log stream that is open, has  *)
(* ended or waits to be opened again is that of the attempt the details      *)
(* name, and every line in the pane came from it (tui/runner.go).            *)
PanesAgree ==
  IF ui.selected = Nobody
  THEN ui.detail = NoRow /\ ui.pane = {} /\ ~ui.logStop
  ELSE /\ ui.detail.id = ui.selected /\ ui.stream = ui.detail
       /\ ui.pane \subseteq {ui.detail}

(* A create request that is sent again until it is answered makes one task,  *)
(* and no key is used for two contents, which the controller would take for  *)
(* one task (submitCreateTask).                                              *)
OneTaskPerSubmission ==
  /\ \A r, s \in sent : r.key = s.key => r.payload = s.payload
  /\ \A r, s \in sent : r.submission = s.submission =>
       Cardinality({c \in created : c.key \in {r.key, s.key}}) <= 1

(* The selection stays where the user, or the answer to a create, put it     *)
(* while the controller lists that task and the search shows it: no list,    *)
(* however late (one asked for before the task was created, say), no detail  *)
(* and no other answer moves it (applyTasks, applyAction, applyDetail).      *)
SelectionSurvives ==
  [][ui.selected \in Visible(ui) \cap Ids(Listed) /\ presses' = presses /\ ~ApplyCreate
       => ui'.selected = ui.selected]_dashVars

(* Once the user and the controller rest, the list is the controller's for   *)
(* good, with a task of it selected if the search shows any; and ever again  *)
(* details of the selected task have been asked for and its log is being     *)
(* followed or has ended, whatever was lost, late or broken off before (run, *)
(* refresh).  That the details arrive is not promised.                       *)
ListIsCurrent ==
  /\ ui.rows = Listed
  /\ IF ui.selected = Nobody THEN Visible(ui) = {} ELSE ui.selected \in Visible(ui)
DetailIsAsked ==
  ui.selected # Nobody => \E d \in ui.details : d.fresh /\ d.row.id = ui.selected
LogIsFollowed == ui.selected # Nobody => ui.streaming \/ ui.logComplete
ListConverges == <>[]ListIsCurrent /\ []<>DetailIsAsked /\ []<>LogIsFollowed

=============================================================================
