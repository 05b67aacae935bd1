------------------------------- MODULE JobBoard -------------------------------
(***************************************************************************)
(* The audit trail of background jobs and the dashboard that follows it:     *)
(* services/job_runs.py, the download and retrain jobs that write it, the    *)
(* event bus, and frontend/app/page.tsx, which treats an event as a nudge to  *)
(* read /api/status again and polls it besides.                              *)
(*                                                                          *)
(* A behaviour follows the runs of one kind of job, in the order of their     *)
(* started_at. An event's name is what onEvent makes of it: "status" for one  *)
(* it answers with refreshStatus, "other" for one it does not (a trade, a     *)
(* wallet update, an advisory). "success" and "failed" are both "ended", and  *)
(* the progress of a run is left out. One browser is modelled, with one       *)
(* socket at a time; the requests that follow a click are left out.          *)
(***************************************************************************)
EXTENDS EventBus

CONSTANTS NumSymbols,  \* symbols a run goes through
          MaxJobs,     \* bound: runs started
          MaxTrouble   \* bound: faults (a dead run, a crash, a failed fetch, a
                       \* lost socket) and events of other parts of the system

ASSUME BoardAssumption == NumSymbols \in Nat \ {0} /\ "status" \in Names

Kinds == {"download", "training"}

VARIABLES
    kind,        \* the job_type that is followed
    rows,        \* job_runs: the status of each run
    runner,      \* the coroutine of each run: [pc, done]
    view,        \* the latest job, as /api/status last showed it
    fetch,       \* the outstanding GET /api/status: [pc, poll, answer]
    statusError, \* the last fetch that was not superseded failed
    missed,      \* an "other" event pushed a "status" event out of a queue
    trouble      \* faults and events of other parts so far

jobVars  == <<kind, rows, runner>>
pageVars == <<view, fetch, statusError>>
counts   == <<missed, trouble>>
vars     == <<busVars, jobVars, pageVars, counts>>

Jobs == 1..Len(rows)

\* latest_job: the run that started last, whatever became of it. (Before it,
\* one that still runs, if any does.)
LatestRunning ==
    LET up == {j \in Jobs : rows[j] = "running"}
    IN  IF up = {} THEN Len(rows) ELSE CHOOSE j \in up : \A i \in up : i <= j
Latest == Len(rows)

\* to_dict of it, as /api/status gives it
Nothing == [job |-> 0, status |-> "none"]
Status  == IF rows = <<>> THEN Nothing
           ELSE [job |-> Latest, status |-> rows[Latest]]

NoRequest == [pc |-> "none", poll |-> FALSE, answer |-> Nothing]

Init ==
    /\ BusInit
    /\ kind \in Kinds
    /\ rows = <<>> /\ runner = <<>>
    /\ view = Nothing /\ fetch = NoRequest /\ statusError = FALSE
    /\ missed = FALSE /\ trouble = 0

Trouble == trouble < MaxTrouble /\ trouble' = trouble + 1
Fault   == Trouble /\ UNCHANGED missed
-----------------------------------------------------------------------------
(* Runs *)

Started(pc) ==
    /\ Len(rows) < MaxJobs
    /\ rows' = Append(rows, "running")
    /\ runner' = Append(runner, [pc |-> pc, done |-> 0])

At(j, pc)    == j \in Jobs /\ runner[j].pc = pc
Moves(j, pc) == runner' = [runner EXCEPT ![j].pc = pc]
Done(j)      == runner' = [runner EXCEPT ![j] = [pc |-> "saving", done |-> @.done + 1]]

\* trigger_data_download: the row is committed, and only then is anything said.
PostDownload ==
    /\ kind = "download"
    /\ Started("posted")
    /\ UNCHANGED <<busVars, kind, pageVars, counts>>

DownloadBegins(j) ==
    /\ At(j, "posted")
    /\ Publish("status")
    /\ Moves(j, "working")
    /\ UNCHANGED <<kind, rows, pageVars, counts>>

\* The daily refresh, or a retrain (on the interval or asked for), makes its
\* own row and announces nothing.
QuietStart ==
    /\ Started("working")
    /\ UNCHANGED <<busVars, kind, pageVars, counts>>

\* A symbol is downloaded, or fails: announced first, its progress saved
\* after.
SymbolEnds(j) ==
    /\ kind = "download" /\ At(j, "working")
    /\ Publish("status")
    /\ Done(j)
    /\ UNCHANGED <<kind, rows, pageVars, counts>>

\* retrain_job: "started", "trained", "complete", or "failed" instead of the
\* last two or of the last
SymbolTrains(j) ==
    /\ kind = "training"
    /\ Publish("status")
    /\ \/ At(j, "working") /\ Moves(j, "fitting")
       \/ At(j, "fitting") /\ Moves(j, "promoting")
       \/ (At(j, "fitting") \/ At(j, "promoting")) /\ Done(j)
    /\ UNCHANGED <<kind, rows, pageVars, counts>>

\* update_job and its commit
SaveProgress(j) ==
    /\ At(j, "saving")
    /\ Moves(j, IF runner[j].done = NumSymbols THEN "finishing" ELSE "working")
    /\ UNCHANGED <<busVars, kind, rows, pageVars, counts>>

\* finish_job and its commit; a download then has its end to announce, a
\* training has nothing more to say.
Finish(j) ==
    /\ At(j, "finishing")
    /\ rows' = [rows EXCEPT ![j] = "ended"]
    /\ Moves(j, IF kind = "download" THEN "ending" ELSE "gone")
    /\ UNCHANGED <<busVars, kind, pageVars, counts>>

AnnounceEnd(j) ==
    /\ At(j, "ending")
    /\ Publish("status")
    /\ Moves(j, "gone")
    /\ UNCHANGED <<kind, rows, pageVars, counts>>

\* An exception outside the per-symbol try, as a failed commit is, ends the
\* run. Its row stays as it is.
RunDies(j) ==
    /\ At(j, "saving") \/ At(j, "finishing")
    /\ Fault
    /\ Moves(j, "gone")
    /\ UNCHANGED <<busVars, kind, rows, pageVars>>

RunStep(j) == \/ DownloadBegins(j) \/ SymbolEnds(j) \/ SymbolTrains(j)
              \/ SaveProgress(j) \/ Finish(j) \/ AnnounceEnd(j)
-----------------------------------------------------------------------------
(* The page *)

\* startRequest: a new request aborts the one outstanding, whose answer is not
\* shown.
Asks(poll) == fetch' = [NoRequest EXCEPT !.pc = "asked", !.poll = poll]

\* refreshAll, on the interval or on mount, unless its last batch is under way.
\* (Before it, a poll that gives up once a request has failed.)
PollUntilError ==
    /\ ~fetch.poll
    /\ ~statusError
    /\ Asks(TRUE)
    /\ UNCHANGED <<busVars, jobVars, view, statusError, counts>>
Poll ==
    /\ ~fetch.poll
    /\ Asks(TRUE)
    /\ UNCHANGED <<busVars, jobVars, view, statusError, counts>>

\* GET /api/status reads both latest jobs.
Answer ==
    /\ fetch.pc = "asked"
    /\ fetch' = [fetch EXCEPT !.pc = "answered", !.answer = Status]
    /\ UNCHANGED <<busVars, jobVars, view, statusError, counts>>

Land ==
    /\ fetch.pc = "answered"
    /\ view' = fetch.answer
    /\ statusError' = FALSE
    /\ fetch' = NoRequest
    /\ UNCHANGED <<busVars, jobVars, counts>>

FetchFails ==
    /\ fetch.pc # "none"
    /\ Fault
    /\ statusError' = TRUE
    /\ fetch' = NoRequest
    /\ UNCHANGED <<busVars, jobVars, view>>

Reply == Answer \/ Land
-----------------------------------------------------------------------------
(* The socket, other events, and the death of the process *)

\* createWsClient: one socket at a time, connected anew after it closed
Connects(c) ==
    /\ \A d \in Connections : peer[d] # "open"
    /\ Accept(c)
    /\ UNCHANGED <<jobVars, pageVars, counts>>

\* The greeting is a "status" event too.
Greets(c) ==
    /\ Greet(c)
    /\ Asks(FALSE)
    /\ UNCHANGED <<jobVars, view, statusError, counts>>

\* onEvent
Nudges(c) ==
    /\ Send(c)
    /\ IF held[c] = <<"status">> THEN Asks(FALSE) ELSE UNCHANGED fetch
    /\ UNCHANGED <<jobVars, view, statusError, counts>>

Serves(c) ==
    \/ Greets(c) \/ Nudges(c)
    \/ /\ Take(c) \/ SendFails(c) \/ GreetFails(c)
       /\ UNCHANGED <<jobVars, pageVars, counts>>

SocketDrops(c) ==
    /\ Disconnect(c)
    /\ Fault
    /\ UNCHANGED <<jobVars, pageVars>>

\* Whatever else is published: heartbeats and system events, trades and fills
OtherEvent ==
    /\ Trouble
    /\ \E name \in Names :
         /\ Publish(name)
         /\ missed' = \/ missed
                      \/ name # "status" /\ \E c \in Connections :
                            /\ Subscribed(c) /\ Len(queue[c]) = QueueSize
                            /\ Head(queue[c]).name = "status"
    /\ UNCHANGED <<jobVars, pageVars>>

\* The backend stops and starts again: its tasks and sockets are gone, job_runs
\* is as it was, and what the browser was waiting for fails.
Crash ==
    /\ Fault
    /\ BusDies
    /\ runner' = [j \in Jobs |-> [runner[j] EXCEPT !.pc = "gone"]]
    /\ fetch' = NoRequest
    /\ statusError' = (statusError \/ fetch.pc # "none")
    /\ UNCHANGED <<kind, rows, view>>

Next ==
    \/ PostDownload \/ QuietStart
    \/ \E j \in Jobs : RunStep(j) \/ RunDies(j)
    \/ Poll \/ Reply \/ FetchFails
    \/ \E c \in Connections : Connects(c) \/ Serves(c) \/ SocketDrops(c)
    \/ OtherEvent \/ Crash

Spec == Init /\ [][Next]_vars

\* The event loop runs every coroutine that can run, the browser reads its
\* socket and polls on an interval.
Fairness ==
    /\ \A c \in Connections : WF_vars(Serves(c))
    /\ WF_vars(Poll) /\ WF_vars(Reply)

FairSpec == Spec /\ Fairness

-----------------------------------------------------------------------------
(* Properties *)

\* When the line is quiet (the socket up with nothing under way on it, no
\* request outstanding or failed, no run with its end still to announce), the
\* page shows the end of the latest download, without waiting for a poll:
\* the end is committed before it is announced, and a browser that comes back
\* is greeted. The exception is a nudge that other events pushed out.
LineQuiet ==
    /\ \E c \in Connections : /\ peer[c] = "open" /\ handler[c] = "waiting"
                             /\ queue[c] = <<>>
    /\ fetch.pc = "none" /\ ~statusError /\ ~missed

QuietMeansCurrent ==
    (LineQuiet /\ kind = "download" /\ \A j \in Jobs : ~At(j, "ending")) =>
        (Status.status = "ended" => view = Status)

\* Answers land in order: what the page shows of a job never goes back, to an
\* earlier job or from its end to "running".
NoOlder(shown, next) ==
    \/ shown.job < next.job
    \/ /\ shown.job = next.job
       /\ shown.status = "ended" => next.status = "ended"
ViewNeverGoesBack == [][NoOlder(view, view')]_view

\* "latest ... survives a missed WebSocket event": the end of a run is
\* eventually on the page, unless a newer one started, whatever was lost on
\* the way. A training has only the poll for it.
EndIsSeen ==
    Status.status = "ended" ~> (view = Status \/ Status.status = "running")

\* "lets a dead socket be detected rather than hanging forever": a handler whose
\* browser is gone unsubscribes, with or without another event.
LeaversUnsubscribed ==
    \A c \in Connections :
        (peer[c] = "gone" /\ handler[c] \in {"waiting", "sending"}) ~> handler[c] = "none"

\* The bus does what the feed promises to every handler that drains it.
ImplementsFeed == Feed!Spec

\* The disputed claims, each refuted by an instance the README names.

\* "every run leaves a row, not just a last-known blob": and no row says
\* "running" of a run that is over.
RunningRowRuns == \A j \in Jobs : rows[j] = "running" => ~At(j, "gone")

\* The same of a training: its end is on the page once the line is quiet.
TrainingIsCurrent ==
    (LineQuiet /\ kind = "training") => (Status.status = "ended" => view = Status)

\* A handler that ended is unsubscribed.
NobodyLeft == \A c \in Connections : handler[c] # "left"
=============================================================================
