----------------------------- MODULE JobPolling -----------------------------
(***************************************************************************)
(* The generation page of one user, open in several tabs, against the rate *)
(* limiter and the job API (generate/page.tsx, RateLimiter,                *)
(* GET /generate/jobs/{id}).  A tick is the pause between two polls.  What *)
(* happens to a job behind the API is the subject of GenerationJobs; here  *)
(* its row changes in every way that one allows.                           *)
(***************************************************************************)
EXTENDS RateLimiter

CONSTANTS
  Tabs,
  MaxAttempts    \* polls before the page gives up (40 in the code)

ASSUME PollingAssumption == MaxAttempts \in Nat \ {0}

VARIABLES
  celery,        \* settings.use_celery
  page,          \* page[t]: what tab t shows
  attempts,      \* attempts[t]: polls that saw an unfinished job
  timer,         \* timer[t]: ticks until the next poll
  job            \* job[t]: status of the row of its job

deployment == <<production, celery>>
tabs == <<page, attempts, timer>>
pagesVars == <<deployment, limiter, tabs, job>>

Busy == {"waiting", "polling"}
Ended == {"done", "failed", "timedout", "refused", "error"}

PagesInit ==
  /\ LimiterInit
  /\ celery \in BOOLEAN
  /\ page = [t \in Tabs |-> "idle"]
  /\ attempts = [t \in Tabs |-> 0]
  /\ timer = [t \in Tabs |-> 0]
  /\ job = [t \in Tabs |-> "none"]

-----------------------------------------------------------------------------
(* The page.                                                               *)

Show(t, what) == page' = [page EXCEPT ![t] = what]

\* The button is disabled while the page is busy.
MayGenerate(t) == page[t] \notin Busy

\* startGeneration: the job is committed; in inline mode the reply is the end
\* of the run, else the page polls.
Generate(t) ==
  /\ MayGenerate(t)
  /\ Passes
  /\ Show(t, IF celery THEN "polling" ELSE "waiting")
  /\ attempts' = [attempts EXCEPT ![t] = 0]
  /\ timer' = [timer EXCEPT ![t] = IF celery THEN 1 ELSE 0]
  /\ job' = [job EXCEPT ![t] = "pending"]
  /\ UNCHANGED deployment

GenerateRefused(t) ==
  /\ MayGenerate(t)
  /\ Refused
  /\ Show(t, "refused")
  /\ UNCHANGED <<deployment, attempts, timer, job>>

\* The reply of an inline run says how the run of its own handler ended,
\* whatever others have made of the row.
InlineReply(t) ==
  /\ page[t] = "waiting"
  /\ \E outcome \in {"done", "error"} : Show(t, outcome)
  /\ UNCHANGED <<deployment, limiter, attempts, timer, job>>

\* The connection breaks, or the job is gone: the exception ends the wait.
Breaks(t) ==
  /\ page[t] \in Busy
  /\ Show(t, "error")
  /\ UNCHANGED <<deployment, limiter, attempts, timer, job>>

Due(t) == page[t] = "polling" /\ timer[t] = 0

\* Mutant: the attempts are not counted.
PollForever(t) ==
  /\ Due(t)
  /\ Passes
  /\ Show(t, IF job[t] = "completed" THEN "done"
             ELSE IF job[t] = "failed" THEN "failed" ELSE "polling")
  /\ timer' = [timer EXCEPT ![t] = 1]
  /\ UNCHANGED <<deployment, attempts, job>>

\* Mutant: one attempt more than there are.
PollOnceMore(t) ==
  /\ Due(t)
  /\ Passes
  /\ attempts' = [attempts EXCEPT ![t] = @ + 1]
  /\ IF attempts[t] = MaxAttempts
     THEN Show(t, "timedout") /\ UNCHANGED timer
     ELSE timer' = [timer EXCEPT ![t] = 1] /\ UNCHANGED page
  /\ UNCHANGED <<deployment, job>>

\* One iteration of pollJob.
Poll(t) ==
  /\ Due(t)
  /\ Passes
  /\ \/ /\ job[t] = "completed"
        /\ Show(t, "done")
        /\ UNCHANGED <<attempts, timer>>
     \/ /\ job[t] = "failed"
        /\ Show(t, "failed")
        /\ UNCHANGED <<attempts, timer>>
     \/ /\ job[t] \in {"pending", "processing"}
        /\ attempts' = [attempts EXCEPT ![t] = @ + 1]
        /\ IF attempts[t] + 1 = MaxAttempts
           THEN Show(t, "timedout") /\ UNCHANGED timer
           ELSE timer' = [timer EXCEPT ![t] = 1] /\ UNCHANGED page
  /\ UNCHANGED <<deployment, job>>

\* fetchJobStatus throws on every reply that is not ok, and nothing in pollJob
\* catches it.
PollRefused(t) ==
  /\ Due(t)
  /\ Refused
  /\ Show(t, "refused")
  /\ UNCHANGED <<deployment, attempts, timer, job>>

-----------------------------------------------------------------------------
(* The job, and time.                                                      *)

\* Runs and reruns of workers, streams and the inline handler.  A stream that
\* read the row early marks it 'processing' whatever has become of it.
JobRuns(t) ==
  /\ job[t] # "none"
  /\ \E status \in {"processing", "completed", "failed"} :
       job' = [job EXCEPT ![t] = status]
  /\ UNCHANGED <<deployment, limiter, tabs>>

Tick ==
  /\ TimePasses
  /\ timer' = [t \in Tabs |-> IF timer[t] = 0 THEN 0 ELSE timer[t] - 1]
  /\ UNCHANGED <<deployment, page, attempts, job>>

Expires == KeyExpires /\ UNCHANGED <<deployment, tabs, job>>

PageStep(t) == InlineReply(t) \/ Poll(t) \/ PollRefused(t)

PagesNext ==
  \/ \E t \in Tabs :
       \/ PageStep(t) \/ Generate(t) \/ GenerateRefused(t) \/ Breaks(t)
       \/ JobRuns(t)
  \/ Tick \/ Expires

PagesSpec == PagesInit /\ [][PagesNext]_pagesVars

\* Timers fire and time passes; the handler of an inline run comes to its
\* reply.  Nothing is assumed of workers.
PagesFairness ==
  /\ WF_pagesVars(Tick)
  /\ \A t \in Tabs : WF_pagesVars(PageStep(t))

FairPages == PagesSpec /\ PagesFairness

-----------------------------------------------------------------------------
(* Properties.                                                             *)

\* Every variable has its type, and a page that polls has attempts left.
PagesTypeOK ==
  /\ LimiterTypeOK
  /\ celery \in BOOLEAN
  /\ page \in [Tabs -> {"idle"} \cup Busy \cup Ended]
  /\ attempts \in [Tabs -> 0 .. MaxAttempts]
  /\ timer \in [Tabs -> {0, 1}]
  /\ job \in [Tabs -> {"none", "pending", "processing", "completed", "failed"}]
  /\ \A t \in Tabs : page[t] \in Busy => attempts[t] < MaxAttempts

\* A page that waits comes to an end, also when its job never does: pollJob
\* looks MaxAttempts times, and whatever it is answered counts or ends it.
PagesEnd == \A t \in Tabs : page[t] \in Busy ~> page[t] \in Ended

\* page.tsx:59: forty attempts, two minutes.  The page leaves pollJob with the
\* end of the job, with an error or after its last attempt, but not because
\* the limit on generation requests takes its polls for such requests.
PollingLasts ==
  [][\A t \in Tabs : page[t] = "polling" => page'[t] # "refused"]_pagesVars

=============================================================================
