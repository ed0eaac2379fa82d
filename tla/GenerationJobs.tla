--------------------------- MODULE GenerationJobs ---------------------------
(***************************************************************************)
(* The life of a generation job: the rows of generation_jobs and           *)
(* stored_artifacts, the API process (request handlers, WebSocket          *)
(* streams, startup recovery), the Celery broker and the worker            *)
(* processes.                                                              *)
(*                                                                         *)
(* A PROCESS is a worker, a request handler or a stream.  It runs one job  *)
(* at a time and every commit or await at which another process can get in *)
(* between is a step of its own, named by pc[p]:                      *)
(*                                                                         *)
(*   enqueue   the handler committed the row and has not called delay()    *)
(*   mark      about to commit status 'processing'                         *)
(*   load      about to read the master profile                            *)
(*   run       calling the LLM, rendering and storing the files            *)
(*   complete  before the first commit of mark_job_completed               *)
(*   publish   between its first and its second commit                     *)
(*   finish    after it: final commit, reply, or acknowledgement           *)
(*   fail      before the commit of mark_job_failed                        *)
(*   settled   a worker: the result or the retry of its task is recorded,  *)
(*             the message it was given is not acknowledged yet            *)
(*                                                                         *)
(* All jobs of the model belong to one profile of one user.                *)
(***************************************************************************)
EXTENDS Integers, FiniteSets

CONSTANTS
  Jobs,         \* primary keys of generation_jobs
  Workers,      \* Celery worker processes
  Requests,     \* handlers of POST /generate running at one time
  Streams,      \* handlers of WS /generate/stream/{job_id} at one time
  NoJob,        \* an idle process has no job
  UseCelery,    \* settings.use_celery
  Faults,       \* what may go wrong in the runs of this instance
  MaxRetries,   \* max_retries of the task (3 in the code)
  MaxDeaths,    \* bound: how often a worker process dies
  MaxRestarts   \* bound: how often the API process dies and comes back

Processes == Workers \cup Requests \cup Streams

\* "error"      a step raises an exception that is not a generation error
\* "connection" a step of a worker raises ConnectionError
\* "broker"     delay() raises: the broker cannot be reached
\* "disconnect" the client of a stream goes away
FaultKinds == {"error", "connection", "broker", "disconnect"}

ASSUME ProcessAssumption ==
  /\ Workers \cap Requests = {}
  /\ Workers \cap Streams = {}
  /\ Requests \cap Streams = {}
  /\ NoJob \notin Jobs

ASSUME ConfigAssumption ==
  /\ UseCelery \in BOOLEAN
  /\ Faults \subseteq FaultKinds
  /\ MaxRetries \in Nat
  /\ MaxDeaths \in Nat
  /\ MaxRestarts \in Nat

VARIABLES
  status,       \* status[j]: the column of the row, or "absent" / "deleted"
  urls,         \* urls[j]: the kinds of documents whose URL columns are set
  rowSets,      \* rowSets[j]: how often artifact rows were added for j
  profile,      \* TRUE while the row of the master profile exists
  queue,        \* queue[j][n]: messages for j that carry n retries
  failedTasks,  \* jobs with a task result FAILURE in the result backend
  pc,           \* pc[p]: the step process p is about to take
  task,         \* task[p]: the job it runs
  tries,        \* tries[p]: the retries its message carries
  seen,         \* seen[p]: the status cached by its database session
  docs,         \* docs[p]: the kinds of documents its run produced
  api,          \* the API process: "down", "recovering", "up", "degraded"
  toRecover,    \* rows recover_stuck_jobs selected and has not enqueued yet
  told,         \* told[j]: what the client that created j was answered
  deaths,       \* worker deaths so far
  restarts      \* API restarts so far

rowVars  == <<status, urls, rowSets, profile>>
procVars == <<pc, task, tries, seen, docs>>
taskVars == <<queue, failedTasks>>
apiVars  == <<api, toRecover>>
countVars == <<deaths, restarts>>

vars == <<rowVars, procVars, taskVars, apiVars, told, countVars>>

Kinds    == {"docx", "pdf"}
Statuses == {"absent", "pending", "processing", "completed", "failed",
             "deleted"}
Steps    == {"idle", "enqueue", "mark", "load", "run", "complete",
             "publish", "finish", "fail", "settled"}
Replies  == {"none", "queued", "completed", "error"}
ApiStates == {"down", "recovering", "up", "degraded"}

Init ==
  /\ status = [j \in Jobs |-> "absent"]
  /\ urls = [j \in Jobs |-> {}]
  /\ rowSets = [j \in Jobs |-> 0]
  /\ profile = TRUE
  /\ queue = [j \in Jobs |-> [n \in 0..MaxRetries |-> 0]]
  /\ failedTasks = {}
  /\ pc = [p \in Processes |-> "idle"]
  /\ task = [p \in Processes |-> NoJob]
  /\ tries = [p \in Processes |-> 0]
  /\ seen = [p \in Processes |-> "absent"]
  /\ docs = [p \in Processes |-> {}]
  /\ api = "up"
  /\ toRecover = {}
  /\ told = [j \in Jobs |-> "none"]
  /\ deaths = 0
  /\ restarts = 0

-----------------------------------------------------------------------------
(* Helpers.                                                                *)

Serving == api \in {"up", "degraded"}

Handlers == Requests \cup Streams

WithMessage(j, n) == queue' = [queue EXCEPT ![j][n] = @ + 1]

\* Process p takes up job j, with the row's status in its session cache.
Take(p, j, n, cached, step) ==
  /\ pc[p] = "idle"
  /\ pc' = [pc EXCEPT ![p] = step]
  /\ task' = [task EXCEPT ![p] = j]
  /\ tries' = [tries EXCEPT ![p] = n]
  /\ seen' = [seen EXCEPT ![p] = cached]
  /\ UNCHANGED docs

Go(p, step) == pc' = [pc EXCEPT ![p] = step] /\ UNCHANGED <<task, tries>>

\* The processes of P are idle again and have forgotten what they did.
Rest(P) ==
  /\ pc' = [p \in Processes |-> IF p \in P THEN "idle" ELSE pc[p]]
  /\ task' = [p \in Processes |-> IF p \in P THEN NoJob ELSE task[p]]
  /\ tries' = [p \in Processes |-> IF p \in P THEN 0 ELSE tries[p]]
  /\ seen' = [p \in Processes |-> IF p \in P THEN "absent" ELSE seen[p]]
  /\ docs' = [p \in Processes |-> IF p \in P THEN {} ELSE docs[p]]

\* _set_status.  The session keeps the row it loaded: an assignment that
\* repeats the cached status writes nothing, and a deleted row is not found.
NewStatus(p, new) ==
  IF status[task[p]] = "deleted" \/ seen[p] = new THEN status[task[p]] ELSE new

SetStatus(p, new) == status' = [status EXCEPT ![task[p]] = NewStatus(p, new)]

\* The refresh after its commit.
Refresh(p, new) ==
  seen' = [seen EXCEPT ![p] = NewStatus(p, new)] /\ UNCHANGED docs

Tell(p, reply) == told' = [told EXCEPT ![task[p]] = reply]

-----------------------------------------------------------------------------
(* POST /generate.                                                         *)

\* The profile is found, the job is committed as 'pending'.
CreateJob(r, j) ==
  /\ Serving
  /\ status[j] = "absent"
  /\ profile
  /\ status' = [status EXCEPT ![j] = "pending"]
  /\ Take(r, j, 0, "pending", IF UseCelery THEN "enqueue" ELSE "mark")
  /\ UNCHANGED <<urls, rowSets, profile, taskVars, apiVars, told, countVars>>

\* run_generation_task.delay(), and the 202 "queued".
Enqueue(r) ==
  /\ pc[r] = "enqueue"
  /\ WithMessage(task[r], 0)
  /\ Tell(r, "queued")
  /\ Rest({r})
  /\ UNCHANGED <<rowVars, failedTasks, apiVars, countVars>>

\* delay() raises: the client gets a 500, the row stays 'pending', and the
\* broker may have the message all the same.
EnqueueFails(r) ==
  /\ "broker" \in Faults
  /\ pc[r] = "enqueue"
  /\ WithMessage(task[r], 0) \/ UNCHANGED queue
  /\ Tell(r, "error")
  /\ Rest({r})
  /\ UNCHANGED <<rowVars, failedTasks, apiVars, countVars>>

-----------------------------------------------------------------------------
(* WS /generate/stream/{job_id}.                                           *)

\* The job is read and found 'pending'; any other status closes the socket.
Connect(s, j) ==
  /\ Serving
  /\ status[j] = "pending"
  /\ Take(s, j, 0, "pending", "mark")
  /\ UNCHANGED <<rowVars, taskVars, apiVars, told, countVars>>

\* Before its inner try the stream gives up without a status: the profile is
\* gone, or the adapter cannot be built, or a send fails.
StreamGivesUp(s) ==
  /\ pc[s] = "load"
  /\ ~profile \/ Faults \cap {"error", "disconnect"} # {}
  /\ Rest({s})
  /\ UNCHANGED <<rowVars, taskVars, apiVars, told, countVars>>

\* A send in the inner try fails: a token, or the final "complete" event.
StreamSendFails(s) ==
  /\ "disconnect" \in Faults
  /\ pc[s] \in {"run", "finish"}
  /\ Go(s, "fail")
  /\ UNCHANGED <<rowVars, seen, docs, taskVars, apiVars, told, countVars>>

-----------------------------------------------------------------------------
(* Steps of any process.                                                   *)

\* mark_job_processing, by a request handler in inline mode and by a stream.
MarkProcessing(h) ==
  /\ pc[h] = "mark"
  /\ SetStatus(h, "processing")
  /\ Refresh(h, "processing")
  /\ Go(h, "load")
  /\ UNCHANGED <<urls, rowSets, profile, taskVars, apiVars, told, countVars>>

\* run_generation reads the profile; its absence is a ValueError.
LoadProfile(p) ==
  /\ pc[p] = "load"
  /\ profile \/ p \notin Streams
  /\ Go(p, IF profile THEN "run" ELSE "fail")
  /\ UNCHANGED <<rowVars, seen, docs, taskVars, apiVars, told, countVars>>

\* The LLM answered and the files are stored.  A PDF that cannot be
\* converted is skipped, except in a stream, where it is an error.
RunSucceeds(p) ==
  /\ pc[p] = "run"
  /\ \E produced \in {{"docx"}, Kinds} :
       /\ p \in Streams => produced = Kinds
       /\ docs' = [docs EXCEPT ![p] = produced]
  /\ Go(p, "complete")
  /\ UNCHANGED <<rowVars, seen, taskVars, apiVars, told, countVars>>

\* GenerationError or ValueError out of the adapter (in a stream, also a
\* failed PDF conversion).
RunFails(p) ==
  /\ pc[p] = "run"
  /\ Go(p, "fail")
  /\ UNCHANGED <<rowVars, seen, docs, taskVars, apiVars, told, countVars>>

\* Mutant: the second commit of mark_job_completed is left out.
CompleteOnly(p) ==
  /\ pc[p] = "complete"
  /\ SetStatus(p, "completed")
  /\ Refresh(p, "completed")
  /\ Go(p, "finish")
  /\ UNCHANGED <<urls, rowSets, profile, taskVars, apiVars, told, countVars>>

\* First commit of mark_job_completed: the status alone.
Complete(p) ==
  /\ pc[p] = "complete"
  /\ SetStatus(p, "completed")
  /\ Refresh(p, "completed")
  /\ Go(p, IF status[task[p]] = "deleted" THEN "finish" ELSE "publish")
  /\ UNCHANGED <<urls, rowSets, profile, taskVars, apiVars, told, countVars>>

\* Mutant: the URLs are assigned without asking whether there is a file.
PublishReplaces(p) ==
  /\ pc[p] = "publish"
  /\ status[task[p]] # "deleted"
  /\ urls' = [urls EXCEPT ![task[p]] = docs[p]]
  /\ rowSets' = [rowSets EXCEPT ![task[p]] = @ + 1]
  /\ Go(p, "finish")
  /\ UNCHANGED <<status, profile, seen, docs, taskVars, apiVars, told,
                 countVars>>

\* Second commit: the URLs of the files there are, and one artifact row each.
\* A URL the run has no file for keeps its old value.  The refresh reads the
\* status that others may have written since the first commit.
Publish(p) ==
  /\ pc[p] = "publish"
  /\ status[task[p]] # "deleted"
  /\ urls' = [urls EXCEPT ![task[p]] = @ \cup docs[p]]
  /\ rowSets' = [rowSets EXCEPT ![task[p]] = @ + 1]
  /\ seen' = [seen EXCEPT ![p] = status[task[p]]]
  /\ Go(p, "finish")
  /\ UNCHANGED <<status, profile, docs, taskVars, apiVars, told, countVars>>

\* The row was deleted since the first commit: the UPDATE matches no row.
RowIsGone(p) == pc[p] = "publish" /\ status[task[p]] = "deleted"

-----------------------------------------------------------------------------
(* How a request handler or a stream ends.                                 *)

\* Only POST /generate has a reply that outlives the handler.
Reply(h, reply) == IF h \in Requests THEN Tell(h, reply) ELSE UNCHANGED told

\* The reply of a successful run.
HandlerFinishes(h) ==
  /\ pc[h] = "finish"
  /\ Reply(h, "completed")
  /\ Rest({h})
  /\ UNCHANGED <<rowVars, taskVars, apiVars, countVars>>

\* Mutant: mark_job_failed clears the URLs of the job.
HandlerFailsClean(h) ==
  /\ pc[h] = "fail"
  /\ SetStatus(h, "failed")
  /\ urls' = [urls EXCEPT ![task[h]] = {}]
  /\ Reply(h, "error")
  /\ Rest({h})
  /\ UNCHANGED <<rowSets, profile, taskVars, apiVars, countVars>>

\* mark_job_failed, and the error reply.
HandlerFails(h) ==
  /\ pc[h] = "fail"
  /\ SetStatus(h, "failed")
  /\ Reply(h, "error")
  /\ Rest({h})
  /\ UNCHANGED <<urls, rowSets, profile, taskVars, apiVars, countVars>>

\* An exception inside the try block: on to mark_job_failed.
HandlerRaises(h) ==
  /\ pc[h] \in {"run", "complete", "publish"}
  /\ "error" \in Faults \/ RowIsGone(h)
  /\ Go(h, "fail")
  /\ UNCHANGED <<rowVars, seen, docs, taskVars, apiVars, told, countVars>>

\* An exception outside it, in mark_job_processing, in mark_job_failed or in
\* the last commit of get_session: the status stays what it is.
HandlerBreaks(h) ==
  /\ "error" \in Faults
  /\ pc[h] \in {"mark", "fail", "finish"}
  /\ Reply(h, "error")
  /\ Rest({h})
  /\ UNCHANGED <<rowVars, taskVars, apiVars, countVars>>

-----------------------------------------------------------------------------
(* The Celery worker.                                                      *)

\* A worker is given a message and loads the row, whatever its status; for a
\* deleted job the task returns "not_found" at once.
Deliver(w, j, n) ==
  /\ pc[w] = "idle"
  /\ queue[j][n] > 0
  /\ queue' = [queue EXCEPT ![j][n] = @ - 1]
  /\ IF status[j] = "deleted" THEN UNCHANGED procVars
                              ELSE Take(w, j, n, status[j], "load")
  /\ UNCHANGED <<rowVars, failedTasks, apiVars, told, countVars>>

\* Mutant: the worker keeps the job of the task it returned from.
AcknowledgeOnly(w) ==
  /\ pc[w] = "finish"
  /\ Go(w, "idle")
  /\ UNCHANGED <<rowVars, seen, docs, taskVars, apiVars, told, countVars>>

\* The message is acknowledged: the task returned after its final commit, or
\* what became of it instead is recorded.
Acknowledge(w) ==
  /\ pc[w] \in {"finish", "settled"}
  /\ Rest({w})
  /\ UNCHANGED <<rowVars, taskVars, apiVars, told, countVars>>

\* Mutant: the task returns "failed" and does not mark the job.
WorkerFailsSilently(w) ==
  /\ pc[w] = "fail"
  /\ Go(w, "finish")
  /\ UNCHANGED <<rowVars, seen, docs, taskVars, apiVars, told, countVars>>

\* GenerationError or ValueError: mark_job_failed, then return.
WorkerFails(w) ==
  /\ pc[w] = "fail"
  /\ SetStatus(w, "failed")
  /\ Refresh(w, "failed")
  /\ Go(w, "finish")
  /\ UNCHANGED <<urls, rowSets, profile, taskVars, apiVars, told, countVars>>

\* Mutant: the task catches every exception and returns.
WorkerSwallows(w) ==
  /\ pc[w] # "idle"
  /\ Faults \cap {"error", "connection"} # {} \/ RowIsGone(w)
  /\ Rest({w})
  /\ UNCHANGED <<rowVars, taskVars, apiVars, told, countVars>>

\* Any other exception leaves the task, and its frame is gone: the result
\* backend has a FAILURE.
WorkerRaises(w) ==
  /\ pc[w] \notin {"idle", "settled"}
  /\ \/ "error" \in Faults
     \/ "connection" \in Faults /\ tries[w] = MaxRetries
     \/ RowIsGone(w)
  /\ failedTasks' = failedTasks \cup {task[w]}
  /\ docs' = [docs EXCEPT ![w] = {}]
  /\ Go(w, "settled")
  /\ UNCHANGED <<rowVars, seen, queue, apiVars, told, countVars>>

\* ConnectionError: the task is published again with one more retry.  Until
\* the worker acknowledges the message it was given, there are two.
WorkerRetries(w) ==
  /\ "connection" \in Faults
  /\ pc[w] \notin {"idle", "settled"}
  /\ tries[w] < MaxRetries
  /\ WithMessage(task[w], tries[w] + 1)
  /\ docs' = [docs EXCEPT ![w] = {}]
  /\ Go(w, "settled")
  /\ UNCHANGED <<rowVars, seen, failedTasks, apiVars, told, countVars>>

\* Mutant: messages are acknowledged on delivery (task_acks_late unset).
WorkerDiesAcked(w) ==
  /\ deaths < MaxDeaths
  /\ pc[w] # "idle"
  /\ Rest({w})
  /\ deaths' = deaths + 1
  /\ UNCHANGED <<rowVars, taskVars, apiVars, told, restarts>>

\* The worker dies before the acknowledgement: its message is delivered again.
WorkerDies(w) ==
  /\ deaths < MaxDeaths
  /\ pc[w] # "idle"
  /\ WithMessage(task[w], tries[w])
  /\ Rest({w})
  /\ deaths' = deaths + 1
  /\ UNCHANGED <<rowVars, failedTasks, apiVars, told, restarts>>

-----------------------------------------------------------------------------
(* The API process.                                                        *)

\* The process is killed; its handlers are gone, between any two commits.
ApiDies ==
  /\ restarts < MaxRestarts
  /\ api # "down"
  /\ api' = "down"
  /\ toRecover' = {}
  /\ Rest(Handlers)
  /\ restarts' = restarts + 1
  /\ UNCHANGED <<rowVars, taskVars, told, deaths>>

\* The rows recover_stuck_jobs selects.
Stuck == {j \in Jobs : status[j] \in {"pending", "processing"}}

\* The lifespan handler: recover_stuck_jobs selects the rows.
ApiStarts ==
  /\ api = "down"
  /\ api' = "recovering"
  /\ toRecover' = Stuck
  /\ UNCHANGED <<rowVars, procVars, taskVars, told, countVars>>

\* One iteration of its loop.
RecoverJob(j) ==
  /\ api = "recovering"
  /\ j \in toRecover
  /\ WithMessage(j, 0)
  /\ toRecover' = toRecover \ {j}
  /\ UNCHANGED <<rowVars, procVars, failedTasks, api, told, countVars>>

\* The loop is over: the API serves requests.
RecoveryDone ==
  /\ api = "recovering"
  /\ toRecover = {}
  /\ api' = "up"
  /\ UNCHANGED <<rowVars, procVars, taskVars, toRecover, told, countVars>>

\* Mutant: a recovery that failed is started again from its first row.
RecoveryRestarts ==
  /\ "broker" \in Faults
  /\ api = "recovering"
  /\ toRecover' = Stuck
  /\ UNCHANGED <<rowVars, procVars, taskVars, api, told, countVars>>

\* An exception in the recovery is logged and the API serves all the same.
RecoverySkipped ==
  /\ "broker" \in Faults
  /\ api = "recovering"
  /\ api' = "degraded"
  /\ toRecover' = {}
  /\ UNCHANGED <<rowVars, procVars, taskVars, told, countVars>>

Existing == {j \in Jobs : status[j] # "absent"}

\* DELETE /profiles/{id}: the ORM cascade deletes its jobs and their rows.
DeleteProfile ==
  /\ Serving
  /\ profile
  /\ profile' = FALSE
  /\ status' = [j \in Jobs |-> IF j \in Existing THEN "deleted" ELSE status[j]]
  /\ urls' = [j \in Jobs |-> IF j \in Existing THEN {} ELSE urls[j]]
  /\ rowSets' = [j \in Jobs |-> IF j \in Existing THEN 0 ELSE rowSets[j]]
  /\ UNCHANGED <<procVars, taskVars, apiVars, told, countVars>>

-----------------------------------------------------------------------------

RunStep(p) ==
  \/ LoadProfile(p) \/ RunSucceeds(p) \/ RunFails(p)
  \/ Complete(p) \/ Publish(p)

HandlerStep(h) ==
  \/ MarkProcessing(h) \/ RunStep(h) \/ HandlerFinishes(h) \/ HandlerFails(h)
  \/ HandlerRaises(h) \/ HandlerBreaks(h)

RequestStep(r) == Enqueue(r) \/ EnqueueFails(r) \/ HandlerStep(r)

StreamStep(s) == StreamGivesUp(s) \/ StreamSendFails(s) \/ HandlerStep(s)

Deliveries(w) == \E j \in Jobs, n \in 0..MaxRetries : Deliver(w, j, n)

WorkerStep(w) ==
  \/ Deliveries(w) \/ RunStep(w) \/ Acknowledge(w) \/ WorkerFails(w)
  \/ WorkerRaises(w) \/ WorkerRetries(w)

ApiStep ==
  \/ ApiStarts \/ RecoveryDone \/ RecoverySkipped
  \/ \E j \in Jobs : RecoverJob(j)

Next ==
  \/ \E r \in Requests : RequestStep(r) \/ \E j \in Jobs : CreateJob(r, j)
  \/ \E s \in Streams  : StreamStep(s) \/ \E j \in Jobs : Connect(s, j)
  \/ \E w \in Workers  : WorkerStep(w) \/ WorkerDies(w)
  \/ ApiStep
  \/ ApiDies
  \/ DeleteProfile

Spec == Init /\ [][Next]_vars

\* Workers and handlers run on, and the container of the API is restarted
\* (docker-compose.yml: restart: unless-stopped).  Nothing is assumed of
\* clients, of failures or of profile deletions.
Fairness ==
  /\ \A w \in Workers  : WF_vars(WorkerStep(w))
  /\ \A r \in Requests : WF_vars(RequestStep(r))
  /\ \A s \in Streams  : WF_vars(StreamStep(s))
  /\ WF_vars(ApiStep)

FairSpec == Spec /\ Fairness

-----------------------------------------------------------------------------
(* Properties.                                                             *)

RowsOK ==
  /\ status \in [Jobs -> Statuses]
  /\ urls \in [Jobs -> SUBSET Kinds]
  /\ rowSets \in [Jobs -> Nat]
  /\ profile \in BOOLEAN

ProcsOK ==
  /\ pc \in [Processes -> Steps]
  /\ task \in [Processes -> Jobs \cup {NoJob}]
  /\ tries \in [Processes -> 0..MaxRetries]
  /\ seen \in [Processes -> Statuses]
  /\ docs \in [Processes -> SUBSET Kinds]
  /\ \A p \in Processes : task[p] = NoJob <=> pc[p] = "idle"

TasksOK ==
  /\ queue \in [Jobs -> [0..MaxRetries -> Nat]]
  /\ failedTasks \subseteq Jobs

ApiOK ==
  /\ api \in ApiStates
  /\ toRecover \subseteq Jobs
  /\ told \in [Jobs -> Replies]
  /\ deaths \in 0..MaxDeaths
  /\ restarts \in 0..MaxRestarts

\* Every variable has its type, and a process is idle if and only if it has
\* no job.
TypeOK == RowsOK /\ ProcsOK /\ TasksOK /\ ApiOK

Queued(j) == \E n \in 0..MaxRetries : queue[j][n] > 0

\* A worker that has only its message left to acknowledge does not run the job.
RunBy(P, j) == \E p \in P : task[p] = j /\ pc[p] # "settled"

\* What can still bring job j to an end without a restart of the API.
InFlight(j) == Queued(j) \/ RunBy(Workers, j) \/ RunBy(Requests, j)

\* A job is 'pending' while the API serves only if somebody still works on
\* it: a message, a worker, or the handler that created it.  The exceptions
\* are visible ones: its task ended in FAILURE, its client got an error, or
\* the log says that recovery was skipped ("degraded").  This is what
\* acks_late, reject_on_worker_lost, the retries and recover_stuck_jobs
\* (tasks.py) are for, through any interleaving with streams, worker deaths
\* and API restarts.
NoPendingJobLost ==
  \A j \in Jobs :
    /\ status[j] = "pending"
    /\ api \in {"up", "recovering"}
    => \/ InFlight(j) \/ j \in toRecover
       \/ j \in failedTasks \/ told[j] = "error"

\* Only workers run generations, or nothing of the API dies or breaks.
RunsAreSafe ==
  \/ UseCelery /\ Streams = {}
  \/ restarts = 0 /\ "error" \notin Faults

Bare(j) == status[j] = "completed" /\ urls[j] = {}

\* mark_job_completed commits the status before the URLs and the artifact
\* rows.  When workers alone run generations, a job found between the two is
\* still being worked on or its task ended in FAILURE, whatever dies.  When
\* handlers run them too, that needs an API that neither dies nor raises.
CompletedIsBacked ==
  \A j \in Jobs :
    Bare(j) /\ RunsAreSafe
      => Queued(j) \/ RunBy(Processes, j) \/ j \in failedTasks

\* A client that was answered "completed" finds the documents: whatever other
\* runs of the job do to its status, they never take the URLs back.
CompletedReplyHasDocuments ==
  \A j \in Jobs :
    told[j] = "completed" => urls[j] # {} \/ status[j] = "deleted"

Kept ==
  \A j \in Jobs :
    \/ status'[j] = "deleted"
    \/ urls[j] \subseteq urls'[j] /\ rowSets[j] <= rowSets'[j]

\* The documents of a job, once published, are never withdrawn, except with
\* the profile: no rerun, failure or recovery clears a URL or drops a row.
DocumentsStay == [][Kept]_vars

Messages(j) == UNION {{<<n, i>> : i \in 1..queue[j][n]} : n \in 0..MaxRetries}

Copies(j) ==
  Cardinality(Messages(j))
    + Cardinality({w \in Workers : task[w] = j /\ pc[w] # "settled"})
    + Cardinality({r \in Requests : task[r] = j /\ pc[r] = "enqueue"})

\* Retries and redeliveries move the one message there is.  What adds another
\* is recovery, once for each restart of the API, and a worker that dies when
\* it has published a retry and not acknowledged the message it was given.
DuplicatesBounded ==
  \A j \in Jobs : Copies(j) <= restarts + deaths + (IF UseCelery THEN 1 ELSE 0)

\* Every job that is queued comes to an end: its documents are published, or
\* it is failed, or the exception is recorded where it can be seen.
EveryJobSettles ==
  \A j \in Jobs :
    status[j] = "pending"
      ~> \/ urls[j] # {}
         \/ status[j] \in {"failed", "deleted"}
         \/ j \in failedTasks
         \/ told[j] = "error"
         \/ api = "degraded"

-----------------------------------------------------------------------------
(* The strengthening that makes the invariants above inductive.            *)

\* Whoever holds job j past its first status commit knows it is no longer
\* 'pending', and nobody makes it 'pending' again.
Progressed(p) ==
  LET now == status[task[p]]
  IN  /\ now # "absent"
      /\ seen[p] = "pending" \/ now # "pending"
      /\ pc[p] = "mark" => seen[p] = "pending"
      /\ pc[p] \in {"publish", "finish"} => now # "pending"
      /\ p \in Handlers /\ pc[p] \notin {"enqueue", "mark"}
           => now # "pending"
      /\ p \in Workers => pc[p] \notin {"enqueue", "mark"}
      /\ pc[p] \in {"complete", "publish"} => docs[p] # {}
      /\ p \in Requests => (UseCelery <=> pc[p] = "enqueue")

HeldOK == \A p \in Processes : pc[p] # "idle" => Progressed(p)

QueuedOK ==
  \A j \in Jobs : \A n \in 0..MaxRetries :
    queue[j][n] > 0 => status[j] # "absent"

RecoverOK == \A j \in toRecover : status[j] # "absent"

\* Only jobs that exist are held, queued or recovered.
Bookkeeping == HeldOK /\ QueuedOK /\ RecoverOK

\* Process p will publish or withdraw the 'completed' of job j.  One whose
\* session caches 'failed' will not: its mark_job_failed writes nothing.
Answers(p, j) ==
  /\ task[p] = j
  /\ seen[p] # "failed"
  /\ IF p \in Workers THEN pc[p] \notin {"finish", "settled"}
                      ELSE pc[p] \in {"publish", "fail"}

Backed(j) ==
  \/ Queued(j) \/ j \in failedTasks
  \/ \E p \in Processes : Answers(p, j)

CompletedIsAnswered == \A j \in Jobs : Bare(j) /\ RunsAreSafe => Backed(j)

\* A request about to answer "completed" has its documents.
FinishedHasDocuments ==
  \A r \in Requests :
    pc[r] = "finish"
      => \/ urls[task[r]] # {}
         \/ status[task[r]] = "deleted"

\* The client of a job is answered by the one request that created it; before
\* that there is no answer and no document.
AnswersOnce ==
  /\ \A r \in Requests : task[r] # NoJob => told[task[r]] = "none"
  /\ \A r, q \in Requests : task[r] # NoJob /\ task[r] = task[q] => r = q
  /\ \A j \in Jobs : status[j] = "absent" => told[j] = "none" /\ urls[j] = {}

\* The inductive invariant of GenerationJobsProofs: types, who may still see
\* which status, and who answers for a job that has a status but no documents.
IndInv ==
  /\ TypeOK
  /\ Bookkeeping
  /\ NoPendingJobLost
  /\ CompletedIsAnswered
  /\ FinishedHasDocuments
  /\ CompletedReplyHasDocuments
  /\ AnswersOnce

-----------------------------------------------------------------------------
(* What the client of a job sees of all this.                              *)

Phase(j) ==
  IF status[j] = "absent" THEN "absent"
  ELSE IF status[j] = "deleted" THEN "withdrawn"
  ELSE IF urls[j] = {} THEN "accepted" ELSE "published"

Contract == INSTANCE JobContract
              WITH phase <- [j \in Jobs |-> Phase(j)], answer <- told

\* Handlers, streams, workers, retries, deaths and recoveries together keep
\* the contract: documents appear once and stay, and the client that created
\* the job gets one answer, which is truthful.
FulfilsContract == Contract!Spec

=============================================================================
