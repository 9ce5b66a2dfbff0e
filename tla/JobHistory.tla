------------------------------- MODULE JobHistory -------------------------------
(* The rows and log lines of jobs, what writes them, what removes them, and the *)
(* page that follows one job: app/worker.py 75-185, 1073-1180, 1577-1695,       *)
(* app/api.py 2941-3190, app/serialize.py 257-305, web/job.js 101-131.          *)
(* SQLite numbers rows; a select is a snapshot of its own, a commit is atomic.  *)
EXTENDS Integers, FiniteSets, Sequences

CONSTANTS
  MaxRows,      \* bound: ids of jobs are 1..MaxRows, the page's the first
  MaxEvents,    \* bound: ids of log lines are 1..MaxEvents
  LogLimit,     \* how many lines the first frame carries at most
  Cleaners,     \* requests that dismiss or purge, the scheduler's prune among them; each once
  MaxCuts,      \* bound: how often the stream breaks off, by a restart too
  IdsReused,    \* whether the newest job can be purged, so that its id is given again
  LateReply     \* whether the answer to the page's first request may come after frames

ASSUME HistoryBounds ==
  MaxRows \in Nat \ {0} /\ MaxEvents \in Nat /\ LogLimit \in Nat \ {0} /\ MaxCuts \in Nat
ASSUME HistorySwitches == IdsReused \in BOOLEAN /\ LateReply \in BOOLEAN

VARIABLES
  listed,   \* the table of jobs
  given,    \* the ids given so far, without reuse
  again,    \* history: ids given to a job while a cleaner that had read an earlier one of
            \* the same id had not acted yet
  line,     \* the table of log lines: whose line each id is, Removed if it was deleted
  thread,   \* what the worker's thread and the waiting thread are doing
  cleaner,  \* what each cleaner has read
  stream,   \* the stream of the page's job
  page,     \* the browser's page
  cuts,
  upto      \* the last line there was when the final status of the page's job was committed

history == <<listed, given, again, line, thread, cleaner, stream, page, cuts, upto>>

Ids == 1..MaxRows
NoJobRow == [status |-> "none"]
Removed == 0
Watched == 1     \* the job of the page
Threads == {"main", "waiting"}
NotAtWork == [at |-> "idle"]
Served == [at |-> "served"]

Finished == {"succeeded", "failed", "canceled"}
Unfinished == {"queued", "running", "waiting"}
Rows(statuses) == {j \in Ids : listed[j].status \in statuses}

LinesOf(j) == {i \in DOMAIN line : line[i] = j}
\* A set of ids in their order: the queries' order_by.
InOrder(ids) ==
  CHOOSE s \in [1..Cardinality(ids) -> ids] : \A i, k \in DOMAIN s : i < k => s[i] < s[k]
Latest(n, ids) == {i \in ids : Cardinality({k \in ids : k > i}) < n}
Newest(ids) == IF ids = {} THEN 0 ELSE CHOOSE i \in ids : \A k \in ids : k <= i

HistoryInit ==
  /\ listed = [j \in Ids |-> NoJobRow]
  /\ given = 0 /\ again = {}
  /\ line = <<>>
  /\ thread = [t \in Threads |-> NotAtWork]
  /\ cleaner = [c \in Cleaners |-> NotAtWork]
  /\ stream = [at |-> "off", first |-> TRUE, last |-> 0]
  /\ page = [log |-> <<>>, asked |-> "no", reply |-> <<>>]
  /\ cuts = 0 /\ upto = 0

\* A row that is gone is not written.
SetStatus(j, status) ==
  /\ listed' = IF listed[j] = NoJobRow THEN listed ELSE [listed EXCEPT ![j].status = status]
  /\ upto' = IF j = Watched /\ status \in Finished THEN Len(line) ELSE upto
\* JobCtx.log
AddLine(j) == Len(line) < MaxEvents /\ line' = Append(line, j)
Thread(t, at, j) == thread' = [thread EXCEPT ![t] = [at |-> at, job |-> j]]
FreeThread(t) == thread' = [thread EXCEPT ![t] = NotAtWork]
ServerOnly == UNCHANGED <<given, again, cleaner, stream, page, cuts>>

--------------------------------------------------------------------------------
(* What writes *)

\* A cleaner has read the job of this id and has not acted yet.
ReadByCleaner(j) ==
  \E c \in Cleaners : cleaner[c].at \in {"hide", "purge"} /\ j \in cleaner[c].picks

\* A handler admits a job: max(id) + 1.
NextId == IF IdsReused THEN 1 + Newest({j \in Ids : listed[j] # NoJobRow}) ELSE given + 1
Enqueue ==
  /\ NextId \in Ids
  /\ listed' = [listed EXCEPT ![NextId] = [status |-> "queued", hidden |-> FALSE]]
  /\ given' = NextId
  /\ again' = IF ReadByCleaner(NextId) THEN again \cup {NextId} ELSE again
  /\ UNCHANGED <<line, thread, cleaner, stream, page, cuts, upto>>

\* _claim_next_job: the oldest queued job, which was canceled, or whose connection was
\* disabled, or which runs.  Whether a cancellation was asked for is not kept here
\* (Lifecycle has it): each place that reads cancel_requested may find either.
ClaimJob(j) ==
  /\ thread["main"] = NotAtWork
  /\ j \in Rows({"queued"}) /\ \A k \in Rows({"queued"}) : j <= k
  /\ \/ \E status \in {"canceled", "failed"} : SetStatus(j, status) /\ UNCHANGED thread
     \/ SetStatus(j, "running") /\ Thread("main", "run", j)
  /\ UNCHANGED line /\ ServerOnly

\* A line of the job that a thread executes; a failing one's last line comes before its status.
WriteLine(t) ==
  /\ thread[t].at = "run"
  /\ AddLine(thread[t].job)
  /\ \E at \in {"run", "failing"} : Thread(t, at, thread[t].job)
  /\ UNCHANGED <<listed, upto>> /\ ServerOnly

\* The end of _execute and of _finish_waiting_error
FailJob(t) ==
  /\ thread[t].at = "failing"
  /\ \E status \in {"failed", "canceled"} : SetStatus(thread[t].job, status)
  /\ FreeThread(t)
  /\ UNCHANGED line /\ ServerOnly

\* _execute without an error: all lines are written
SucceedJob ==
  /\ thread["main"].at = "run"
  /\ SetStatus(thread["main"].job, "succeeded") /\ FreeThread("main")
  /\ UNCHANGED line /\ ServerOnly

\* _defer_for_guest_ip, whose line follows its commit
DeferJob ==
  /\ thread["main"].at = "run"
  /\ SetStatus(thread["main"].job, "waiting") /\ Thread("main", "late", thread["main"].job)
  /\ UNCHANGED line /\ ServerOnly

\* _resume_waiting_ansible, first commit; a canceled wait's _finish_waiting_error
ResumeJob(j) ==
  /\ thread["waiting"] = NotAtWork
  /\ j \in Rows({"waiting"})
  /\ \/ AddLine(j) /\ Thread("waiting", "failing", j) /\ UNCHANGED <<listed, upto>>
     \/ SetStatus(j, "running") /\ Thread("waiting", "run", j) /\ UNCHANGED line
  /\ ServerOnly

\* _resume_waiting_ansible, last commit, and _timeout_waiting_job: their last line
\* follows the commit of the final status.
EndWaiting(j) ==
  /\ \/ thread["waiting"] = [at |-> "run", job |-> j] /\ SetStatus(j, "succeeded")
     \/ /\ thread["waiting"] = NotAtWork
        /\ j \in Rows({"waiting"})
        /\ SetStatus(j, "failed")
  /\ Thread("waiting", "late", j)
  /\ UNCHANGED line /\ ServerOnly

LateLine(t) ==
  /\ thread[t].at = "late"
  /\ AddLine(thread[t].job) /\ FreeThread(t)
  /\ UNCHANGED <<listed, upto>> /\ ServerOnly

\* The process stops; when it comes back _recover_orphans fails what was running.  No
\* request of the former process is left, and the page's stream is cut.
RestartAll ==
  /\ cuts < MaxCuts /\ cuts' = cuts + 1
  /\ listed' = [j \in Ids |->
       IF listed[j].status = "running" THEN [listed[j] EXCEPT !.status = "failed"] ELSE listed[j]]
  /\ upto' = IF listed[Watched].status = "running" THEN Len(line) ELSE upto
  /\ thread' = [t \in Threads |-> NotAtWork]
  /\ cleaner' = [c \in Cleaners |-> IF cleaner[c] = NotAtWork THEN NotAtWork ELSE Served]
  /\ stream' = IF stream.at \in {"turn", "looked", "sent"} THEN [stream EXCEPT !.at = "cut"] ELSE stream
  /\ page' = IF page.asked = "yes" THEN [page EXCEPT !.asked = "done"] ELSE page
  /\ UNCHANGED <<given, again, line>>

--------------------------------------------------------------------------------
(* What removes *)

\* Mutant of Removable: a job that waits is taken for a finished one.
RemovableWaiting == Rows(Finished \cup {"waiting"})

\* What delete_job, clear_jobs, purge_job_permanently, purge_all_jobs and
\* prune_old_jobs take for finished
Removable == Rows(Finished)

\* The handlers read first: one job, all that the caller may see, or all that ended
\* before the cutoff of the retention.
Pick(c) ==
  /\ cleaner[c] = NotAtWork
  /\ \E picks \in SUBSET Removable \ {{}}, does \in {"hide", "purge"} :
       cleaner' = [cleaner EXCEPT ![c] = [at |-> does, picks |-> picks]]
  /\ UNCHANGED <<listed, given, again, line, thread, stream, page, cuts, upto>>

\* delete_job and clear_jobs: dismissed; an update of a row that is gone fails them all.
Hide(c) ==
  /\ cleaner[c].at = "hide"
  /\ cleaner' = [cleaner EXCEPT ![c] = Served]
  /\ listed' = IF \A j \in cleaner[c].picks : listed[j] # NoJobRow
              THEN [j \in Ids |-> IF j \in cleaner[c].picks THEN [listed[j] EXCEPT !.hidden = TRUE] ELSE listed[j]]
              ELSE listed
  /\ UNCHANGED <<given, again, line, thread, stream, page, cuts, upto>>

\* Ids of lines at the end of the table are given again after they were deleted.
Trimmed(lines) ==
  LET top == Newest({i \in DOMAIN lines : lines[i] # Removed}) IN
    IF IdsReused THEN SubSeq(lines, 1, top) ELSE lines
\* _purge_job: steps, lines and the row, by their ids
Purge(c) ==
  /\ cleaner[c].at = "purge"
  /\ cleaner' = [cleaner EXCEPT ![c] = Served]
  /\ listed' = [j \in Ids |-> IF j \in cleaner[c].picks THEN NoJobRow ELSE listed[j]]
  /\ line' = Trimmed([i \in DOMAIN line |-> IF line[i] \in cleaner[c].picks THEN Removed ELSE line[i]])
  /\ UNCHANGED <<given, again, thread, stream, page, cuts, upto>>

--------------------------------------------------------------------------------
(* What reads: JobProgress, get_job and stream_job *)

PageOnly == UNCHANGED <<listed, given, again, line, thread, cleaner, upto>>

\* The page asks for the job and opens its stream, the two at one time.
OpenPage ==
  /\ stream.at = "off" /\ listed[Watched] # NoJobRow
  /\ stream' = [at |-> "turn", first |-> TRUE, last |-> 0]
  /\ page' = [page EXCEPT !.asked = "yes"]
  /\ PageOnly /\ UNCHANGED cuts

\* get_job
GetJob ==
  /\ page.asked = "yes"
  /\ page' = IF listed[Watched] = NoJobRow THEN [page EXCEPT !.asked = "done"]
             ELSE [page EXCEPT !.asked = "answered", !.reply = InOrder(Latest(LogLimit, LinesOf(Watched)))]
  /\ PageOnly /\ UNCHANGED <<stream, cuts>>

TakeReply ==
  /\ page.asked = "answered"
  /\ page' = [log |-> page.reply, asked |-> "done", reply |-> <<>>]
  /\ PageOnly /\ UNCHANGED <<stream, cuts>>

\* A turn of the stream's loop begins with the row of the job; the user's right to it is
\* StreamValid of Consoles.  The error event's reconnection meets 404.
LookAtJob ==
  /\ stream.at = "turn"
  /\ stream' = IF listed[Watched] = NoJobRow THEN [stream EXCEPT !.at = "closed"]
               ELSE [at |-> "looked", first |-> stream.first, last |-> stream.last,
                     status |-> listed[Watched].status]
  /\ PageOnly /\ UNCHANGED <<page, cuts>>

NewLines(last) == {i \in LinesOf(Watched) : i > last}

\* The lines are read after the row and sent; onmessage sets the log on a first frame,
\* else it appends.
SendFrame ==
  /\ stream.at = "looked"
  /\ page.asked # "done" => LateReply
  /\ LET new == IF stream.first THEN Latest(LogLimit, LinesOf(Watched)) ELSE NewLines(stream.last)
     IN /\ stream' = [stream EXCEPT !.at = "sent", !.first = FALSE,
                                    !.last = IF new # {} THEN Newest(new) ELSE @]
        /\ page' = [page EXCEPT !.log = IF stream.first THEN InOrder(new) ELSE @ \o InOrder(new)]
  /\ PageOnly /\ UNCHANGED cuts

\* Mutant of FinalStatus: the row is read again after the lines.
FinalStatusNow == listed[Watched].status

\* The status that decides whether the stream is done was read before the lines.
FinalStatus == stream.status

Closing == {"succeeded", "failed", "canceled"}

EndTurn ==
  /\ stream.at = "sent"
  /\ stream' = [at |-> IF FinalStatus \in Closing THEN "done" ELSE "turn",
                first |-> FALSE, last |-> stream.last]
  /\ PageOnly /\ UNCHANGED <<page, cuts>>

\* A proxy, the network or the hour that a stream lives
CutStream ==
  /\ stream.at \in {"turn", "looked", "sent"} /\ cuts < MaxCuts
  /\ cuts' = cuts + 1
  /\ stream' = [at |-> "cut", first |-> TRUE, last |-> 0]
  /\ PageOnly /\ UNCHANGED page

\* EventSource connects again: a stream of its own, or 404
Reconnect ==
  /\ stream.at = "cut"
  /\ stream' = [at |-> IF listed[Watched] = NoJobRow THEN "closed" ELSE "turn", first |-> TRUE, last |-> 0]
  /\ PageOnly /\ UNCHANGED <<page, cuts>>

HistoryNext ==
  \/ Enqueue \/ SucceedJob \/ DeferJob \/ RestartAll
  \/ OpenPage \/ GetJob \/ TakeReply \/ LookAtJob \/ SendFrame \/ EndTurn \/ CutStream \/ Reconnect
  \/ \E j \in Ids : ClaimJob(j) \/ ResumeJob(j) \/ EndWaiting(j)
  \/ \E t \in Threads : WriteLine(t) \/ FailJob(t) \/ LateLine(t)
  \/ \E c \in Cleaners : Pick(c) \/ Hide(c) \/ Purge(c)

HistorySpec == HistoryInit /\ [][HistoryNext]_history

--------------------------------------------------------------------------------
HistoryTypeOK ==
  /\ listed \in [Ids -> {NoJobRow} \cup
       [status : Finished \cup Unfinished, hidden : BOOLEAN]]
  /\ given \in 0..MaxRows /\ again \subseteq Ids
  /\ line \in Seq(Ids \cup {Removed})
  /\ thread \in [Threads -> {NotAtWork} \cup [at : {"run", "failing", "late"}, job : Ids]]
  /\ cleaner \in [Cleaners -> {NotAtWork, Served} \cup [at : {"hide", "purge"}, picks : SUBSET Ids]]
  /\ stream.at \in {"off", "turn", "looked", "sent", "cut", "done", "closed"}
  /\ stream.first \in BOOLEAN /\ stream.last \in Nat
  /\ page.log \in Seq(Nat) /\ page.asked \in {"no", "yes", "answered", "done"}
  /\ cuts \in 0..MaxCuts /\ upto \in Nat

\* What the page shows of a job's log has no gap and no line twice (api.py 3161-3173,
\* web/job.js 112-123), whatever was written between the reads of a turn and however
\* often the stream broke off: of the lines up to the last one sent it is the latest, all
\* of them or at least LogLimit.  A stream says done only after every line that was there
\* when the job's final status was committed.
LogHasNoGap ==
  listed[Watched] # NoJobRow /\ ~stream.first =>
    LET sent == {i \in LinesOf(Watched) : i <= stream.last} IN
      /\ page.log = InOrder(Latest(Len(page.log), sent))
      /\ Len(page.log) >= Cardinality(Latest(LogLimit, sent))
      /\ stream.at = "done" => {i \in LinesOf(Watched) : i <= upto} \subseteq sent

\* "Active jobs are left untouched" (api.py 3069): no purge, prune or dismissal takes
\* away a job that has not ended, though each acts on what it read before, and ids are
\* given again.  What they read is an id: if it is given to a new job in between, that one
\* may be taken for the former.
ActiveJobsStay ==
  [][\A j \in Rows(Unfinished) \ again : listed'[j] # NoJobRow /\ ~listed'[j].hidden]_listed
================================================================================
