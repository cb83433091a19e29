------------------------------ MODULE PodLogs ------------------------------
(***************************************************************************)
(* The raw log of one attempt: CollectPodLogs of the controller runtime,   *)
(* the transactions of store/operational.go it calls, and the follower of  *)
(* runtime/backend.go that serves the stored log while it grows.           *)
(*                                                                         *)
(* A line is its timestamp, its size and whether it is a lifecycle event.  *)
(* Content is a sequence of bytes, a byte the line it belongs to.  Several *)
(* Pods (of a Job that was created again) may write into one attempt.      *)
(* Module Controller has the same collector with lines that are events     *)
(* only, and what handling an event does.                                  *)
(***************************************************************************)
EXTENDS Integers, FiniteSets, SequencesExt

CONSTANTS
  Pods,
  MaxLines,     \* bound on the lines a Pod prints
  MaxTears,     \* bound on the torn timestamps of a Pod's streams
  Times,        \* timestamps a line may bear; two of them make a second
  Sizes,        \* sizes of a line in bytes
  MaxBytes,     \* LogOptions.MaxLogBytes: quota of an attempt
  ChunkBytes,   \* LogOptions.LogChunkBytes
  MarkerBytes,  \* length of LogTruncationMarker
  Tears         \* where a broken stream may cut a line: "stamp", "content"

ASSUME PodLogsAssumption ==
  /\ MaxLines \in Nat /\ MaxTears \in Nat
  /\ Times \subseteq Nat \ {0} /\ Sizes \subseteq Nat \ {0}
  /\ ChunkBytes \in Nat \ {0} /\ MarkerBytes \in Nat \ {0}
  /\ MaxBytes \in Nat /\ MaxBytes >= MarkerBytes
  /\ Tears \subseteq {"stamp", "content"} /\ "marker" \notin Pods

VARIABLES
  printed,    \* Pod -> the lines its worker writes (external)
  stopped,    \* Pod -> it has terminated (external)
  cursor,     \* pod_log_state: where the stored lines of a Pod end
  chunks,     \* log_chunks of the attempt, in sequence order
  usage,      \* attempt_log_state: total_bytes and truncated
  inbox,      \* Pod -> its rows of worker_log_events
  done,       \* Pod -> how many of them, in order, are processed
  exhausted,  \* task_attempts.logs_exhausted
  reader,     \* Pod -> its collector
  follower    \* a client that follows the stored log

storeVars == <<cursor, chunks, usage, inbox, done, exhausted>>
podVars == <<printed, stopped>>
logVars == <<podVars, storeVars, reader, follower>>

Lines == [at : Times, size : Sizes, event : BOOLEAN]

(* A container's lines bear growing timestamps.  What it will have written  *)
(* is known from the start: a stream that offers no line yet, or ends, has  *)
(* delivered what there was.                                                *)
PodOutputs ==
  {log \in UNION {[1..n -> Lines] : n \in 0..MaxLines} :
     \A i, j \in DOMAIN log : i < j => log[i].at <= log[j].at}

Marker == [i \in 1..MarkerBytes |-> <<"marker", i>>]
LineBytes(p, i, n) == [k \in 1..n |-> <<p, i>>]
Fragment(p) == <<<<p, 0>>>>

(* content of a sequence of chunks *)
Content(log) == FlattenSeq([i \in DOMAIN log |-> log[i].bytes])
LastSequence(log) == IF log = <<>> THEN 0 ELSE Last(log).sequence
After(log, s) == SubSeq(log, Cardinality({i \in DOMAIN log : log[i].sequence <= s}) + 1, Len(log))

NoCursor == [at |-> 0, ordinal |-> 0, plain |-> 0, exhausted |-> FALSE]
NoReader == [pc |-> "idle", from |-> 0, next |-> 0]
NoFollower == [pc |-> "away", since |-> 0, cursor |-> 0, got |-> <<>>]

LogsInit ==
  /\ printed \in [Pods -> PodOutputs] /\ stopped = [p \in Pods |-> FALSE]
  /\ cursor = [p \in Pods |-> NoCursor]
  /\ chunks = <<>> /\ usage = [total |-> 0, truncated |-> FALSE]
  /\ inbox = [p \in Pods |-> <<>>] /\ done = [p \in Pods |-> 0]
  /\ exhausted = FALSE
  /\ reader = [p \in Pods |-> NoReader]
  /\ follower = NoFollower

-----------------------------------------------------------------------------
PodStops(p) ==
  /\ ~stopped[p]
  /\ stopped' = [stopped EXCEPT ![p] = TRUE]
  /\ UNCHANGED <<printed, storeVars, reader, follower>>

-----------------------------------------------------------------------------
(* AppendPodLog: one transaction. *)

(* Mutant: a line that shares the cursor's timestamp is always new. *)
DuplicateBefore(c, at, ordinal, plain) ==
  IF at # 0 THEN at < c.at ELSE plain <= c.plain

Duplicate(c, at, ordinal, plain) ==
  IF at # 0 THEN at < c.at \/ (at = c.at /\ ordinal <= c.ordinal)
            ELSE plain <= c.plain

(* appendLogBytesTx *)
Chunked(log, bytes) ==
  LET pieces == (Len(bytes) + ChunkBytes - 1) \div ChunkBytes
      end(k) == IF k = pieces THEN Len(bytes) ELSE k * ChunkBytes
  IN log \o [k \in 1..pieces |->
               [sequence |-> LastSequence(log) + k,
                bytes |-> SubSeq(bytes, (k - 1) * ChunkBytes + 1, end(k))]]

(* Mutant: whole chunks only are dropped. *)
TrimmedChunks(log, n) ==
  SubSeq(log, 1, Cardinality({i \in DOMAIN log : Len(Content(After(log, log[i].sequence - 1))) > n}))

(* trimLogTailTx: the newest n bytes go, with chunks of which nothing stays. *)
Trimmed(log, n) ==
  LET left(i) == Len(Content(log)) - n - Len(Content(SubSeq(log, 1, i - 1)))
      cut(i) == IF left(i) >= Len(log[i].bytes) THEN log[i]
                ELSE [log[i] EXCEPT !.bytes = SubSeq(@, 1, left(i))]
  IN [i \in 1..Cardinality({i \in DOMAIN log : left(i) > 0}) |-> cut(i)]

Room == MaxBytes - MarkerBytes - usage.total

(* The oldest bytes stay; what does not fit beside the marker goes. *)
StoreBytes(bytes) ==
  IF usage.truncated THEN UNCHANGED <<chunks, usage>>
  ELSE IF usage.total + Len(bytes) <= MaxBytes
  THEN /\ chunks' = Chunked(chunks, bytes)
       /\ usage' = [usage EXCEPT !.total = @ + Len(bytes)]
  ELSE LET kept == IF Room < 0 THEN <<>> ELSE SubSeq(bytes, 1, Room)
           log == IF Room < 0 THEN Trimmed(chunks, -Room) ELSE chunks
       IN /\ chunks' = Chunked(log, kept \o Marker)
          /\ usage' = [total |-> MaxBytes, truncated |-> TRUE]

(* Mutant: past the quota nothing of a line is looked at. *)
QueueEventBelowQuota(p, id, line) ==
  IF usage.truncated \/ \E i \in DOMAIN inbox[p] : inbox[p][i].id = id
  THEN UNCHANGED inbox
  ELSE inbox' = [inbox EXCEPT ![p] = Append(@, [id |-> id, line |-> line])]

(* The event of a line is queued once, stored bytes or not. *)
QueueEvent(p, id, line) ==
  IF \E i \in DOMAIN inbox[p] : inbox[p][i].id = id
  THEN UNCHANGED inbox
  ELSE inbox' = [inbox EXCEPT ![p] = Append(@, [id |-> id, line |-> line])]

(* at = 0: the line has no timestamp; line = 0: it carries no event. *)
AppendPodLog(p, at, ordinal, plain, bytes, line) ==
  /\ ~exhausted
  /\ IF Duplicate(cursor[p], at, ordinal, plain)
     THEN UNCHANGED <<cursor, chunks, usage, inbox>>
     ELSE /\ StoreBytes(bytes)
          /\ cursor' = [cursor EXCEPT ![p] =
               IF at # 0 THEN [@ EXCEPT !.at = at, !.ordinal = ordinal]
                         ELSE [@ EXCEPT !.plain = plain]]
          /\ IF line = 0 THEN UNCHANGED inbox ELSE QueueEvent(p, <<at, ordinal>>, line)
  /\ UNCHANGED <<done, exhausted>>

-----------------------------------------------------------------------------
(* CollectPodLogs, one collector per Pod. *)

ReaderAt(p, pc) == reader[p].pc = pc
Move(p, pc) == reader' = [reader EXCEPT ![p].pc = pc]
Pending(p) == Len(inbox[p]) - done[p]
KeepStore == UNCHANGED storeVars
KeepButReader == UNCHANGED <<podVars, follower>>

Collect(p) ==
  /\ ReaderAt(p, "idle") /\ ~cursor[p].exhausted
  /\ Move(p, "recover")
  /\ KeepStore /\ KeepButReader

(* drainWorkerEvents, by the collector or at startup. *)
ProcessEvent(p) ==
  /\ Pending(p) > 0
  /\ done' = [done EXCEPT ![p] = @ + 1]
  /\ UNCHANGED <<cursor, chunks, usage, inbox, exhausted, reader>> /\ KeepButReader

(* Mutant: the Pod's log is closed before its events are drained. *)
RecoverExhaustedUndrained(p) ==
  /\ ReaderAt(p, "recover") /\ exhausted
  /\ cursor' = [cursor EXCEPT ![p].exhausted = TRUE]
  /\ Move(p, "idle")
  /\ UNCHANGED <<chunks, usage, inbox, done, exhausted>> /\ KeepButReader

(* The attempt is exhausted already: nothing of this Pod is stored any more. *)
RecoverExhausted(p) ==
  /\ ReaderAt(p, "recover") /\ Pending(p) = 0 /\ exhausted
  /\ cursor' = [cursor EXCEPT ![p].exhausted = TRUE]
  /\ Move(p, "idle")
  /\ UNCHANGED <<chunks, usage, inbox, done, exhausted>> /\ KeepButReader

(* sinceTime has whole seconds: the stream repeats the cursor's second. *)
Second(t) == t \div 2
Since(p) ==
  IF cursor[p].at = 0 THEN 1
  ELSE 1 + Cardinality({i \in DOMAIN printed[p] :
                          Second(printed[p][i].at) < Second(cursor[p].at)})

OpenStream(p) ==
  /\ ReaderAt(p, "recover") /\ Pending(p) = 0 /\ ~exhausted
  /\ reader' = [reader EXCEPT ![p] = [pc |-> "reading", from |-> Since(p), next |-> Since(p)]]
  /\ KeepStore /\ KeepButReader

(* readPodLogStream counts the lines of a timestamp from where it began. *)
Ordinal(p, i) ==
  Cardinality({j \in reader[p].from..i : printed[p][j].at = printed[p][i].at})

CanRead(p) ==
  ReaderAt(p, "reading") /\ Pending(p) = 0 /\ reader[p].next <= Len(printed[p])

ReadLine(p) ==
  /\ CanRead(p)
  /\ LET i == reader[p].next
         l == printed[p][i]
     IN AppendPodLog(p, l.at, Ordinal(p, i), cursor[p].plain,
                     LineBytes(p, i, l.size), IF l.event THEN i ELSE 0)
  /\ reader' = [reader EXCEPT ![p].next = @ + 1]
  /\ KeepButReader

(* The stream breaks within a line, and what arrived of it is appended: a   *)
(* line without timestamp, or the line's timestamp with half its content,   *)
(* which is no event.                                                       *)
ReadTornLine(p) ==
  /\ CanRead(p)
  /\ \/ /\ "stamp" \in Tears /\ cursor[p].plain < MaxTears
        /\ AppendPodLog(p, 0, 0, cursor[p].plain + 1, Fragment(p), 0)
     \/ /\ "content" \in Tears
        /\ LET i == reader[p].next
           IN AppendPodLog(p, printed[p][i].at, Ordinal(p, i), cursor[p].plain, Fragment(p), 0)
  /\ Move(p, "idle")
  /\ KeepButReader

(* A read error, a refused append, a failed handler or the process's end. *)
StreamFails(p) ==
  /\ ~ReaderAt(p, "idle")
  /\ Move(p, "idle")
  /\ KeepStore /\ KeepButReader

StreamEnds(p) ==
  /\ ReaderAt(p, "reading") /\ Pending(p) = 0
  /\ Move(p, "eof")
  /\ KeepStore /\ KeepButReader

(* logsTerminal *)
CheckTerminal(p) ==
  /\ ReaderAt(p, "eof")
  /\ Move(p, IF stopped[p] THEN "barrier" ELSE "recover")
  /\ KeepStore /\ KeepButReader

(* WorkerLogsExhausted *)
CloseAttempt(p) ==
  /\ ReaderAt(p, "barrier") /\ Pending(p) = 0
  /\ exhausted' = TRUE
  /\ Move(p, "mark")
  /\ UNCHANGED <<cursor, chunks, usage, inbox, done>> /\ KeepButReader

(* MarkPodLogsExhausted *)
ClosePod(p) ==
  /\ ReaderAt(p, "mark")
  /\ cursor' = [cursor EXCEPT ![p].exhausted = TRUE]
  /\ Move(p, "idle")
  /\ UNCHANGED <<chunks, usage, inbox, done, exhausted>> /\ KeepButReader

(* Cancellation and a Job's end without Pods mark the attempt as well. *)
MarkLogsExhausted ==
  /\ ~exhausted /\ exhausted' = TRUE
  /\ UNCHANGED <<podVars, cursor, chunks, usage, inbox, done, reader, follower>>

-----------------------------------------------------------------------------
(* GetLogs with follow: the tail and the cursor come from one transaction.  *)

KeepButFollower == UNCHANGED <<podVars, storeVars, reader>>

(* Mutant: the follower polls from the start whatever its tail held. *)
TailWithoutCursor(whole) ==
  [pc |-> "polling", since |-> 0, cursor |-> 0,
   got |-> IF whole THEN Content(chunks) ELSE <<>>]

(* ReadLogTailCursor: all lines or none. *)
TailCursor(whole) ==
  [pc |-> "polling",
   since |-> IF whole THEN 0 ELSE LastSequence(chunks),
   cursor |-> LastSequence(chunks),
   got |-> IF whole THEN Content(chunks) ELSE <<>>]

Follow ==
  /\ follower.pc = "away"
  /\ \E whole \in BOOLEAN : follower' = TailCursor(whole)
  /\ KeepButFollower

(* ReadLogChunksAfter, and every chunk is sent. *)
Poll ==
  /\ follower.pc = "polling"
  /\ LET new == After(chunks, follower.cursor)
     IN IF new = <<>> THEN follower' = [follower EXCEPT !.pc = "asking"]
        ELSE follower' = [follower EXCEPT !.cursor = Last(new).sequence,
                                          !.got = @ \o Content(new)]
  /\ KeepButFollower

(* AttemptFollowComplete, asked after nothing new was read. *)
AskComplete ==
  /\ follower.pc = "asking"
  /\ follower' = [follower EXCEPT !.pc = IF exhausted THEN "served" ELSE "polling"]
  /\ KeepButFollower

Unfollow ==
  /\ follower.pc # "away"
  /\ follower' = NoFollower
  /\ KeepButFollower

-----------------------------------------------------------------------------

CollectorNext(p) ==
  \/ Collect(p) \/ RecoverExhausted(p) \/ OpenStream(p)
  \/ ReadLine(p) \/ ReadTornLine(p) \/ StreamFails(p)
  \/ StreamEnds(p) \/ CheckTerminal(p) \/ CloseAttempt(p) \/ ClosePod(p)

LogsNext ==
  \/ \E p \in Pods : PodStops(p) \/ ProcessEvent(p) \/ CollectorNext(p)
  \/ MarkLogsExhausted
  \/ Follow \/ Poll \/ AskComplete \/ Unfollow

LogsSpec == LogsInit /\ [][LogsNext]_logVars

-----------------------------------------------------------------------------

(* Types, and no more events of a Pod are processed than were queued. *)
Bytes == (Pods \cup {"marker"}) \X Nat
ChunkRows == [sequence : Nat \ {0}, bytes : Seq(Bytes)]
LogsTypeOK ==
  /\ printed \in [Pods -> PodOutputs] /\ stopped \in [Pods -> BOOLEAN]
  /\ cursor \in [Pods -> [at : Nat, ordinal : Nat, plain : Nat, exhausted : BOOLEAN]]
  /\ chunks \in Seq(ChunkRows)
  /\ usage \in [total : Nat, truncated : BOOLEAN]
  /\ inbox \in [Pods -> Seq([id : Nat \X Nat, line : Nat \ {0}])]
  /\ done \in [Pods -> Nat] /\ \A p \in Pods : done[p] <= Len(inbox[p])
  /\ exhausted \in BOOLEAN
  /\ reader \in [Pods -> [pc : {"idle", "recover", "reading", "eof", "barrier", "mark"},
                           from : Nat, next : Nat]]
  /\ follower \in [pc : {"away", "polling", "asking", "served"},
                    since : Nat, cursor : Nat, got : Seq(Bytes)]

(* The quota: the bookkeeping of attempt_log_state is exact although lines  *)
(* are cut and chunks trimmed, the log never outgrows the quota, and a log  *)
(* that is cut ends with the whole marker.                                  *)
QuotaHolds ==
  /\ usage.total = Len(Content(chunks)) /\ usage.total <= MaxBytes
  /\ usage.truncated =>
       /\ usage.total = MaxBytes
       /\ SubSeq(Content(chunks), MaxBytes - MarkerBytes + 1, MaxBytes) = Marker

(* Deduplication: through reopened streams, restarts and torn timestamps,   *)
(* what is stored of a Pod's lines (fragments aside) is a prefix of what it *)
(* printed: nothing repeated, left out or reordered before the cut.         *)
StoredOf(p, content) == {k \in DOMAIN content : content[k] \in {p} \X DOMAIN printed[p]}
PrintedBytes(p) ==
  FlattenSeq([i \in DOMAIN printed[p] |-> LineBytes(p, i, printed[p][i].size)])
LogIsPrefix ==
  \A p \in Pods :
    LET content == Content(chunks)
        stored == StoredOf(p, content)
        bytes == PrintedBytes(p)
    IN \A k \in stored : LET n == Cardinality(stored \cap 1..k)
                         IN n <= Len(bytes) /\ content[k] = bytes[n]

(* No lifecycle event is lost or queued twice: the events in the inbox are  *)
(* those of the lines up to the cursor, in order, even past the quota.      *)
Passed(p, i) == LET l == printed[p][i] IN
  \/ l.at < cursor[p].at
  \/ /\ l.at = cursor[p].at
     /\ Cardinality({j \in 1..i : printed[p][j].at = l.at}) <= cursor[p].ordinal
EventsAreQueued ==
  \A p \in Pods :
    LET due == {i \in DOMAIN printed[p] : printed[p][i].event /\ Passed(p, i)}
    IN /\ Len(inbox[p]) = Cardinality(due)
       /\ \A k \in DOMAIN inbox[p] : /\ inbox[p][k].line \in due
                                     /\ \A j \in 1..k - 1 : inbox[p][j].line < inbox[p][k].line

(* Structured replay has finished, as WorkerLogsExhausted records, only when *)
(* every event line that the stream which ended has delivered whole is in   *)
(* the inbox, whatever became of the streams before it; the attempt is       *)
(* closed by then, and no line can follow.                                  *)
FinishedReplayHasEvents ==
  \A p \in Pods : ReaderAt(p, "mark") =>
    \A i \in reader[p].from..reader[p].next - 1 :
      printed[p][i].event => \E row \in Range(inbox[p]) : row.line = i

(* A Pod's log is closed for good only when its events are processed, also  *)
(* when the attempt was closed by somebody else (CollectPodLogs drains      *)
(* before it looks).                                                        *)
ClosedPodsAreDrained == \A p \in Pods : cursor[p].exhausted => Pending(p) = 0

(* A follower of an uncut log has what is stored from where it began up to  *)
(* its cursor: no gap and no repetition between the tail it was given, the  *)
(* chunks it polled and the appends in between.                             *)
FollowerHasNoGap ==
  follower.pc # "away" /\ ~usage.truncated =>
    Content(After(chunks, follower.since))
      = follower.got \o Content(After(chunks, follower.cursor))

=============================================================================
