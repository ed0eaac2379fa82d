# CareerForge: verification project

TLA+ models of CareerForge (a FastAPI application over PostgreSQL with Celery
workers that turns master profiles into CVs and cover letters, and its
generation page), the TLC configurations that check them on small instances,
and theorems about them that TLAPS checks for every value of the constants.
Source paths below are relative to the repository; `generate.py`,
`organizations.py`, `llm_config.py` and `billing.py` are in
`backend/api/routes/`.

## 1. Inventory of the system

| Component | State | Operations | What makes it correct | Hard part | Module |
|---|---|---|---|---|---|
| Generation jobs: `generate.py`, `llm/service.py`, `tasks.py`, lifespan of `main.py` | rows `generation_jobs`, `stored_artifacts`; Celery messages and results; one database session per request or task | `POST /generate` (Celery or inline), `WS /generate/stream/{id}`, the task, `recover_stuck_jobs` | no accepted job is lost; `completed` means documents; documents stay; every job ends | two commits in `mark_job_completed`; late acknowledgement and redelivery; recovery while workers run; deaths; cached rows; profile deleted meanwhile | `GenerationJobs`, `JobContract` |
| The LLM request: `llm/router.py`, `llm/adapters.py`, `llm/output_models.py`, `jev.py`, `analyzer.py`, `jev_analyzer.py` | none; one request | choose a provider, classify, ask with retries, validate, use | bounded attempts, every request answered, what is accepted can be used | several resolvers, more provider names than adapters, answers of any shape | `LLMPipeline` |
| Documents: `llm/docx_renderer.py`, `llm/service.py`, `llm/prompts.py`, score in `generate.py` | none | validate, render, prompt, score | page, prompt and score agree | separate walks over one document | `CVDocument` |
| Profile contents: `profiles/service.py`, `profiles/schemas.py` | `master_profiles.profile_data` | create, update, patch a section, delete | stored is valid, no edit lost, deleted is gone | whole-document writes, change detection of the session | `ProfileEditing` |
| CV import: `profiles/router.py`, `jev_parser.py`, `cv_parser.py` | `_parse_jobs`, a dictionary in memory | upload, parse, validate with Jev, store | what was read is kept | lost on restart; partial answers | `ProfileEditing` |
| Default profile: `profiles/service.py` | `master_profiles.is_default` | set default, create, update, delete | at most one | stale session rows, row locks, deadlock | `ProfileDefault` |
| LLM configuration: `llm_config.py` | `llm_configs` | create, update, delete | at most one active | a helper that commits on its own | `LLMConfigActivation` |
| Organization membership: `organizations.py` | `organization_members`, `organization_invitations` | create, invite, accept, remove | seat limit, one row per member, an invitation is used no more often than requests race for it | check and write in different statements, no constraints | `OrgMembership` |
| Organization usage and templates: `organizations.py` | `organization_usage_logs`, `team_quota_used`, organization profiles | log, reset, read, create and delete a template | counts agree with logs | check-then-insert, lost updates | `OrgUsage` |
| Sessions: `auth/` | `refresh_tokens`, `users` | signup, login, refresh, logout | a client can go on | stateless tokens against stored records that nothing links, lost replies, replies before commits | `Accounts` |
| Checkout: `billing.py` | `users.stripe_customer_id`, customers at Stripe | checkout | one customer per user | external call between read and commit | `Accounts` |
| Client polling and rate limit: `frontend/.../generate/page.tsx`, `middleware/rate_limit.py` | the loop of each tab; a Redis sorted set | generate, poll; count and refuse | the window holds, every wait ends | several tabs, requests late and out of order at Redis, Redis failing, one limit for two kinds of requests | `RateLimiter`, `JobPolling` |

How they interact: a request handler, a stream and a worker each hold one
database session and meet in the rows; the API hands jobs to workers through
the broker; a run reads the master profile and the active LLM configuration and
is one request of `LLMPipeline`, whose prompt and documents are those of
`CVDocument`; deleting a profile deletes its jobs through the ORM cascade; a
second active configuration, which `LLMConfigActivation` shows to be reachable,
is an initial state of `LLMPipeline`; the page knows of a job what its reply
said and what polling shows, as far as the limiter lets it ask.

## 2. Modules

Three groups: state machines over database rows (`GenerationJobs`,
`OrgMembership`, `OrgUsage`, `ProfileDefault`, `ProfileEditing`,
`LLMConfigActivation`, `Accounts`), where an action is a statement or commit
between which others get in; the request and its data (`LLMPipeline` over
`CVDocument`, the latter shared with `ProfileEditing`); the client
(`JobPolling` over `RateLimiter`). `JobContract` is the abstract specification
that `GenerationJobs` implements. The `*Proofs` modules hold the theorems, each
about the module it is named after; the ones about `RateLimiter` and
`JobPolling` are in `AccountsProofs`, with the other things that stand between
a client and the API. `MC*` modules give TLC its sets and symmetries.

### GenerationJobs

| State | In the code |
|---|---|
| `status`, `urls`, `rowSets` | the columns `status` and the four URL columns of `generation_jobs`; how often `mark_job_completed` added artifact rows. `"absent"` / `"deleted"`: there is no row yet / any more |
| `profile` | the one master profile the jobs are made from |
| `queue[j][n]` | messages for `run_generation_task(j)` that carry `n` retries |
| `failedTasks` | task results `FAILURE` in the result backend |
| `pc`, `task`, `tries`, `docs` | where a handler, stream or worker is, the job and the retry count it has, the files it stored |
| `seen` | the status cached in its SQLAlchemy session: an assignment that repeats it is no change and writes nothing |
| `api`, `toRecover` | the lifespan of the API process and the rest of the recovery loop |
| `told` | the answer of `POST /generate` |

Every commit and every await at which another process can get in between is an
action of its own; `CreateJob`, `Enqueue`, `MarkProcessing`, `LoadProfile`,
`RunSucceeds` / `RunFails`, `Complete` (first commit of `mark_job_completed`),
`Publish` (second commit), and the ends of a handler, a stream or a task. Faults
are actions guarded by the constant `Faults`: `"error"` (an exception that is no
generation error, also a failing database), `"connection"` (a `ConnectionError`
in a worker, which `autoretry_for` retries), `"broker"` (`delay()` raises,
whether or not the broker has the message), `"disconnect"` (the client of a
stream goes away). A task that raises ends in two steps: what becomes of it is
recorded (`WorkerRaises`: the result FAILURE; `WorkerRetries`: the retry is
published), and only then is its message acknowledged (`settled`,
`Acknowledge`). `WorkerDies` at any step, this one included, redelivers the
message (`acks_late`, `reject_on_worker_lost`), so that a death after the retry
was published leaves two messages. `ApiDies` and the recovery actions are the
restart. A worker never marks a job `processing`, as in the code.

The default deployment (`docker-compose.yml`) leaves `USE_CELERY` unset for the
API, so generations run inline, while a worker service runs and is fed by the
recovery only: that is the instance `GenerationJobs_inline`.

Left out: contents of files and error texts, best-effort metric rows, artifacts
saved by hand, the bulk route, and three ways of the transport to change the
number of messages: the visibility timeout of Redis (a message held longer than
an hour is delivered again), a publish that Kombu repeats because it did not see
that the first one arrived, and a retry whose own publishing fails.
`DuplicatesBounded` counts without them.

### CVDocument

A CV is a function from `Fields` (pairs of a section and a part) to `Values`
(absent, null, blank, text, a word for "until today", unfit, ill typed); a cover
letter likewise. `"unfit"` is a string of another kind than the field takes:
longer than its `max_length`, or, for a year, one without a number in it, which
the schema in the prompt allows and the validator refuses. `CVOutput` and
`CoverLetterOutput` are the validator, `Docx` and `Markdown` what the renderers
show, `Prompt` what `assemble_prompt` shows, `Words` what `_compute_at_score`
reads; `DocxStops`, `MarkdownStops` and `ScoreStops` are the values on which
those raise. The schemas in the prompt bind nobody and have no definition: the
LLM may answer with any document, inside or outside of them. Each field with a
text holds a word of its own, so that a set of fields is also a set of words; a
list section has one entry at most, since the code treats entries one by one.
These operators stay definitions of their own and are used by the two state
machines that extend the module.

### LLMPipeline

One request of one caller (`generation`, `stream`, `test`, `analyzer`,
`jev_analyzer`). `Resolve` is the choice of provider, with the default that the
environment names (`Defaults`, also one that no adapter registers); `JevAnswersIt`,
`JevFails`, `JevGarbled` and `JevUnreadable` are the classification, whose answers
may be missing, zero, words where a number should be, or of another JSON type
(`JevAnswers`); `EnrichmentStops` is the comparison that a word for a probability
makes raise. `Ask` is one iteration of the retry
loop of an adapter (`Answered`, `Retry`, `Exhausted`, or `Escapes`: an exception
the loop does not catch), `Produce` the rendering and scoring, the `Reply*`
actions what the analyzers and the connection test answer. The provider is the
environment: each attempt may get any member of `Documents` or `Faults`.

The key and the URL that go with a provider are left out, and nothing is claimed
of them: `update_llm_config` may change the provider of a configuration and keep
its key (`llm_config.py:227-248`), and a configuration without a key is asked at
its own URL with the key of the environment (`llm/adapters.py:36-38`).

### ProfileEditing

`rows[p]` is the `profile_data` of a profile with, for each section, the request
whose words it holds (`by`): two texts differ if their authors do. A request
loads all of it, makes the new value in memory, flushes it (`Save`, which waits
for and takes the row lock) and commits. `dirty` is the change detection of the
session: the flush writes only if what was assigned differs from what is loaded.
`patch_section` changes the loaded dictionary in place before it assigns a
validated copy, so that a patch with a complete value is no difference
(`Current`, `Revalidated`). `Import` reads a file of abstract lines
(`SectionsOf`, `Found`, `Parsed`), lets Jev's answer change the result
(`JevValidated`), cleans the name (`Cleaned`) and creates a profile; its
expressions are modelled by what kinds of lines they match. Jev may answer some
of the questions, none, or with values of another type: `Applies` says which of
them the code can compare and format, and any other makes the import fail as a
whole. `LeftEmpty` are the `""` that stand for what the heuristics did not find. `Validated` is what the schemas of `schemas.py` make
of a value: what they do not name (the relevance note of an experience, which
only a generated CV has) is dropped. `ApiRestarts` ends the requests and empties
`_parse_jobs`.

### ProfileDefault

A request is a transaction: `writes[h]` is what it has flushed, which is also
the set of rows it has locked; `Commit` makes it visible. `cached[h]` is the flag
in the session's identity map, which a later `SELECT` does not refresh. `Gone` is
`StaleDataError`; `Abort` is PostgreSQL ending a deadlock. The profiles all exist
from the start: one created later is one nobody has touched.

### LLMConfigActivation

`Select`, `Deactivate` (a commit) and `Write` (another) are the three awaited
steps of an activation; `Fails` stands for a commit that raises and for the API
process killed in between. `author` and `alone` only record (who made a row
active; whether anybody was served beside a request) and guard nothing.

### OrgMembership and OrgUsage

One action per statement between which other requests can commit; `pc[h]` names
the statement request `h` is about to run. A membership row carries a key made of
its invitation and request, since rows have fresh uuids. `RowsOf(u) = {m}` stands
for `scalar_one_or_none()` that neither returns nothing nor raises. `Expire` is
the clock. READ COMMITTED is what the engine of `database.py` gets by default.
In `OrgUsage`, `held` and `loaded` are the counts a session has read and adds one
to; `logged` only records how many logs were answered. A sum of counts is the
number of elements of a set with one element per counted log (`Units`), which is
what the proofs can add to and compare. The two modules share the
table of members: `OrgUsage` has it as a set that members leave, removed by an
admin other than themselves (who may be removed by another admin in turn),
because a log asks nothing else of it. In `OrgMembership`, `given[i]` only counts
the rows that invitation `i` was ever used for, and `MaxSeats` is any integer,
as in the code, where nothing validates it and the creator is not counted
(`Limit`).

### Accounts

Refresh token records are numbered in the order of their flush; `stored`,
`revoked`, `owner`, `born` are the rows. A token in a client's hand is its user
and day, with the record that was made beside it; the code has no such link, so
`record` guards nothing: `Refresh` revokes the user's most recent live record,
whichever client it was made for. A signup stores no record. A login discards
the token it made its record with and issues another one afterwards, possibly on
another day (`Issues`). Whether the reply is sent before or after `get_session`
commits depends on the release of FastAPI (`pyproject.toml` asks for 0.115 or
later), so both orders are there (`Reply` before `Commit`, or `Commit` with the
reply). `TokenDays` is a setting and `RecordDays` a constant of the code, and no
relation between them is assumed. The clients are clients of the API: the
frontend of the repository keeps the access token only (`lib/token-store.ts`) and
its refresh posts no body, which the route answers with 422.

`client[h]` is who gets the reply of request `h`, which `Fails` may take away
after any statement. Checkout is a read of `stripe_customer_id`, a call that
makes a customer, and a commit; `made` and `lost` count customers at Stripe and
those whose request died before its commit.

### RateLimiter and JobPolling

Time goes in ticks of three seconds, the pause between two polls. `entries[a]`
are the members of the Redis sorted set whose score is `a` ticks old.
`_check_redis_limit` reads the clock before it awaits the transaction, so a
request may reach Redis up to `Delay` ticks after it read the clock, behind
others that read it later: `Kept(d)` is what the `zremrangebyscore` of a request
with a reading `d` ticks old leaves, `Counted(d)` its whole transaction. Refused
requests are counted too, because `zadd` runs whatever `zcard` says, and a Redis
that fails lets a request pass whether or not the transaction was applied.
`KeyExpires` is the `expire` of the key; the guard admits it a little earlier
than Redis does it. `passed` only records how many requests got through while
the limiter counted, and guards nothing. The requests are those that belong to
one window: of one user and category, or of one address where there is no token
(the tier is then "free"). A token that does not decode belongs to no window: the
middleware lets it pass, and the API refuses it.

`JobPolling` extends it with the tabs of one user: every request of a tab is a
`Passes` or a `Refused` of the limiter, `page`, `attempts` and `timer` are the
state of a tab. The row of a job moves as the rows of `GenerationJobs` do, which
is a theorem there (`RowsAlwaysMove`): it begins `pending`, never returns to it,
and may otherwise be set to any status, even back to `processing` by a stream
that cached it early. The reply of an inline run is the end of its own handler
(`InlineReply`), whatever others have made of the row by then.

## 3. What TLC checks

| Run (cfg) | Instance | What it shows |
|---|---|---|
| `GenerationJobs_celery` | Celery; 1 job, 2 workers, all faults, 1 retry, 1 worker death, 1 API restart; fair | `NoPendingJobLost`: a pending job has a message, a worker or its handler, or is visibly in error; `CompletedIsBacked`: a `completed` job without URLs is still worked on or its task is a FAILURE; `DuplicatesBounded`: only recovery and dying workers duplicate (restarts + deaths + 1); `DocumentsStay`; `EveryJobSettles` |
| `GenerationJobs_inline` | inline API, 1 worker, 2 streams, all faults, 1 death, 1 restart | `CompletedReplyHasDocuments`; `FulfilsContract`: the machinery implements `JobContract` |
| `LLMPipeline_requests` | 5 callers, all configurations and defaults, 2 attempts; a full and a least CV with each field changed in every way; ill-typed answers of Jev; fair | `AcceptedRenders`: an accepted answer can be rendered; `ScoredIsShown`: a keyword counted as present is on the page, or in an entry without a headline; `PromptOnlyAnswered`: no default of the parser of Jev's reply reaches a prompt; `PipelineEnds` |
| `ProfileEditing_edits` | 2 profiles, 3 requests, 1 restart, partial and ill-typed answers of Jev | `StoredIsValid`; `LostOnlyToConcurrent`: an edit is lost to a concurrent one only; `DeletedStaysDeleted`; `JevOnlyAdds`; `PromptShowsProfile`: what a renderer would print of a profile is in its prompt |
| `ProfileDefault_racing` | 3 profiles, 2 requests; fair | `DefaultsBounded` (no more defaults than requests); `RequestsEnd` through lock waits and deadlocks |
| `LLMConfigActivation_racing` | 3 configurations, 2 requests that may fail | `ActiveBounded`; `ActivationHeals`: an activation nobody races with leaves exactly its own |
| `OrgMembership_racing` | 3 users, 2 invitations, 2 requests, 2 seats | `SeatsBounded` (n requests pass the limit by at most n - 1), `MemberRowsBounded`; `InvitationUsesBounded`: an invitation is used at most as often as requests are served at a time, in all its life, and one time less if it ends 'expired' or 'cancelled' |
| `OrgUsage_racing` | 3 users of whom 2 are admins, 3 rows, 1 template, 2 requests, 2 months | `RowsBounded`; `UsageNeverInvented`: rows add up to no more than the logs that were answered, and the page shows no more |
| `Accounts_racing` | 1 user, 2 clients, 2 requests, 3 days on which records and then tokens expire, 3 records and customers | `EveryClientCanRefresh`: a client whose token's record is stored and unexpired finds a live record of its user; `CustomersBounded` |
| `JobPolling_tabs` | 2 tabs, limit 1 in 4 ticks, requests up to one tick late, 2 attempts, Redis may fail, both modes and environments; fair | `WindowRespected`: as long as Redis answers, no more than the limit pass in the ticks that the windows of any two requests share; `PagesEnd` |

Each passing run but `GenerationJobs_inline` also checks the type invariant of
its module (`TypeOK`, or `PagesTypeOK`; the inline instance has it by proof).

The bounds of the `_racing` runs say what is left of the intended "at most one"
when requests overlap: two defaults (after which `scalar_one_or_none()` makes
every set-default request raise), two active configurations, two rows of one
member, two rows of one month and two uses of one invitation are reachable, three
are not with two requests. In the same way a poll between the two commits of
`mark_job_completed` reads `completed` without URLs; `CompletedIsBacked` says
who is then still about to write them.

What a property permits is part of what it says. `NoPendingJobLost` and
`EveryJobSettles` excuse a job whose client was told an error and one whose
recovery failed; `LostOnlyToConcurrent` permits the edit lost to a concurrent
request and rules out every other loss; `ActivationHeals` permits that no
configuration is active while an activation runs or after one failed, and says
that the next one repairs it; `ScoredIsShown` exempts entries without a headline,
whose text the score reads and the renderer drops; `UsageNeverInvented` bounds
the counts from above, since concurrent logs lose increments and a log in flight
undoes `reset_quota`; `WindowRespected` leaves out the delay of late requests.

### Where the code and its documentation disagree

Two runs check one sentence of the repository each, and TLC finds it violated.

| Run | Sentence | What happens |
|---|---|---|
| `ProfileEditing_patch` (`PatchTakesEffect`) | `docs/SPRINTS.md:390`, "live section patching (all 10 valid sections)" | one editor alone patches a section with a complete value: the loaded dictionary was changed in place, the flush sees no difference, the reply is 200 and the row is what it was |
| `JobPolling_limited` (`PollingLasts`) | `page.tsx:59`, forty attempts, two minutes | with the numbers of the code for a trial user, the first poll is counted as a second generation request and refused, and the page stops |

Other disagreements met while modelling. The models follow the code; each is
visible as a guard, a branch or the exact form of a property.

| Where | What the code does |
|---|---|
| `llm/service.py:336` | killed between its two commits, a job is `completed` and recovery does not select it (`docs/TIGHTENING.md:49`: "kill the API mid-generation -> job resumes") |
| `tasks.py:65` | an exception that is neither `GenerationError` nor `ValueError` marks nothing (`tasks.py:38`: "Per-job failures mark the job failed") |
| `models.py:476` | "unique(organization_id, user_id) enforced in migration": no migration does; two rows of one member make every later `scalar_one_or_none()` raise |
| `profiles/service.py:219` | the session has cached `is_default = True` while another request moved the flag: nothing is written and the user has no default |
| `llm/output_models.py:3` | "These mirror CV_SCHEMA and COVER_LETTER_SCHEMA from prompts.py exactly": the year of a publication or certification is a string in the schema (`prompts.py:107,121`) and an integer or null in the validator (68, 78), so that "in press" is turned down; the details of a degree are a string in the schema (83) and a list in the validator (61); no field of the schema has the validator's `max_length`; a letter without a call to action keeps to the schema (154) and is turned down. Such an answer costs an attempt |
| `generate.py:377`, `llm_config.py:36` | name the providers "openai, anthropic, ollama, custom", and `llm_config.py:128` stores them; no adapter registers "anthropic" or "custom", so a generation with either is answered 422 before any LLM is asked (`UnknownProvider`) |
| `generate.py`, `_compute_at_score` | `additional_info: null` passes the validator and raises `TypeError` in the score; words of an entry without a headline are scored and not printed; the docstring on `missing_keywords` (489-490) is not what is returned |
| `llm/docx_renderer.py` | the default template "modern" never prints the contact line (`tests/test_generation.py:661` asserts it); a start date is never shown; the recipient is printed twice when the header names company or hiring manager |
| `llm/adapters.py` | transport errors of two adapters and JSON that is a number or null escape the retry loop |
| `analyzer.py:40` | the reply model wants dictionaries where the LLM may give text: a 500 after a successful call |
| `jev.py` | a score of 0 counts as no answer |
| `llm/prompts.py` | `MASTER_PROMPT_TEMPLATE` has no placeholder for the output language |
| `tasks.py` | a job run by a worker has no context from Jev, the same job run inline has |
| `profiles/jev_parser.py` | a CV without a location cannot be imported, and a summary near its limit fails only if Jev answers |
| `profiles/router.py` | a validation error of `patch_section` is a 404; an import is "failed" although the profile exists if the refresh after the commit fails; jobs are forgotten at a restart |
| `auth/service.py` | signup stores no record, so its token cannot be refreshed before a login; a token outlives or is outlived by its record, whose 7 days are no setting; logout revokes nothing, because it is sent an access token; the frontend's refresh sends no body |
| `billing.py` | cancel and the subscription status look up a subscription by the user's id and never find one; webhook handlers are stubs |
| `organizations.py` | two first logs of a month at once leave two rows, after which the user's logs of the month raise; `reset_quota` is undone by a log in flight; the quota is enforced nowhere |
| `middleware/rate_limit.py` | refused requests also fill the window; the clock is read before the wait for Redis, so that the entry of a late request leaves the window early and the limit holds in the window less that delay only |

### Bounds, and why they are enough

- One job is enough for the Celery and inline instances: jobs share only the
  profile and the API process, and no action guards one job by another's row.
- Two workers (or a worker and two streams) are what a race over one row needs;
  a third repeats the role of one of the two. One worker death and one restart
  let recovery find a message that is still queued and one that is running; one
  retry distinguishes an attempt that is retried from the last one (`MaxRetries`
  is 3 in the code, and only `n < MaxRetries` is asked).
- Two requests race over two seats (the owner has one), so that the limit is
  reached, passed and freed again; two invitations let one user hold several.
- Three profiles or configurations: an old one and the ones two requests set,
  so that the bound of two can be exceeded if the code allows it.
- Three edits: one to be lost, one that overwrites it, one to delete or import.
- Fields of a document are independent but for the pairs the renderers and the
  validator look at together, and those pairs are among `SmallDocuments`.
  `MaxMissing` is 3 instead of 10, so that the list of missing words gets full,
  and two attempts are one that is repeated and a last one.
- Two clients of one user: a third plays the part of one of them. Records live
  one day and tokens two of the three, so that each expires before and after the
  other is renewed. Three customers are one more than two checkouts at once make.
- Three users of an organization's usage: a member and two admins, who can remove
  the member and each other.
- The window and the attempts of `JobPolling_tabs` are small enough to be
  filled and emptied again, with the limit of a trial user (1) and a delay of one
  tick, which is enough for two requests to swap; `JobPolling_limited` uses the
  numbers of the code for a trial user, and no delay.
- The theorems hold without these bounds.

Deadlock is not checked where the system may stop (all jobs done and clients
silent, all invitations used, all requests served, a request answered). It is
checked in the runs of `JobPolling`, where time goes on. That nobody waits for
ever is said by the liveness properties instead.

### Fairness

- `GenerationJobs`: weak fairness of each worker, handler, stream and of the
  start-up and recovery of the API: the processes run, and the container of the
  API has `restart: unless-stopped`. None of clients, of failures or of the
  deletion of the profile.
- `ProfileDefault`: strong fairness of each request, because PostgreSQL queues
  the transactions that wait for a row, and weak fairness of its deadlock
  detection.
- `LLMPipeline`: weak fairness of the one request: each call to a provider has a
  timeout, so an attempt ends in an answer or an error.
- `JobPolling`: time passes, due timers fire, and a tab that waits for an inline
  run gets its reply, because the handler of the run ends. Nothing is assumed of
  workers, so a queued job may never end and its page must end on its own.

## 4. What is proved

The theorems hold for every set of jobs, workers, requests, streams, users,
profiles, records or configurations, every fault set and every bound, from the
assumptions named in the modules (disjoint kinds of processes, `None` no element
of the other sets, finitely many handlers, at least one attempt, well-typed
contents of requests, a delay shorter than the window).

- `GenerationJobsProofs`: `TypeCorrect`; `DocumentsAlwaysStay` needs types only.
  `PendingNeverLost`, `CompletedBacked` and `CompletedReplyKept` are not
  inductive: whether a pending job is lost depends on what a process past its
  first commit may still write. `IndInv` adds `Bookkeeping` (whoever holds a job
  past `mark` knows it is no longer pending, and only jobs that exist are held,
  queued or recovered), `CompletedIsAnswered` (a process that will publish, or
  mark failed and whose session does not believe it has done so already, stands
  behind each bare `completed`), `FinishedHasDocuments` and `AnswersOnce`. The
  proof has a step per action, and under it one per conjunct the action disturbs.
  `DuplicatesStayBounded` by `CopiesCounted`: the messages, workers and calls to
  the broker that carry a job, with one place reserved while the API is down or
  the job is still to be recovered, are at most the restarts and worker deaths,
  plus one with Celery, since a retry replaces its task in the count as long as
  no worker dies in between; the invariant carries that these copies are finitely many.
  `KeepsContract` is `Spec => FulfilsContract`: the phase of a job is read off
  `status` and `urls`, and every action is shown to be a step of `JobContract` or
  a stutter, with `IndInv` for the truthfulness of the answer. `RowsAlwaysMove`
  is the same for what `JobPolling` lets happen to a row behind the page: no
  process puts a row back to `pending` or brings a deleted one back.
- `LLMPipelineProofs`: `PipelineTypeCorrect`, `AcceptedAlwaysRenders`,
  `ScoredAlwaysShown` and `PromptSaysAnswers`, for every CV and every letter
  instead of the `SmallDocuments` of the run. Two halves meet: an inductive
  invariant of the request, and lemmas about `CVDocument`. The invariant says
  that an attempt is one of those there are (`AttemptsBounded`), that what leaves
  the loop has passed the validator and that a completed reply was scored against
  its own job description (`Validity`), and that the context is what Jev answered
  (`ContextAnswered`). The lemmas go from the fields that a renderer or the score
  reads to what the validator has established of exactly those fields.
  `ScoredAlwaysShown` says what the property says and no more: words of entries
  without a headline and replies with a full list of missing words are exempt.
- `OrgMembershipProofs`: `OrgTypeCorrect`; `SeatsAlwaysBounded` by `SeatsCounted`
  (members plus requests that have counted and may still join stay below the
  limit plus the number of requests), for every integer as limit, the creator's
  seat counting where the limit is smaller (`Limit`); `RowsStayBounded` by `RowsCounted`, the
  same count for the rows of one user and the requests about to insert one;
  `InvitationUsesStayBounded` by `UsesCounted`: the rows an invitation was used
  for, the requests that have read it as pending and may still use it, and its
  refusal are no more than the requests, because nothing makes it pending again
  once it is used.
- `OrgUsageProofs`: `UsageTypeCorrect`; `RowsStayBounded`: a request inserts a
  row for a month only after it found none, so rows plus requests about to insert
  are at most as many as there are requests (`RowsCounted`), for which requests
  must hold distinct new rows (`RowsHeld`). `UsageStaysHonest` has two sides. No
  count shows a log nobody was answered (`SeenLogged`): for every set of users
  and every month, what the rows count together with what requests hold in their
  hands is covered by the logs that are answered. It has to be said of every set
  of users at once, because the page adds them up. And an answered log shows
  (`LoggedSeen`): it has left a row, and rows never count zero.
- `ProfileDefaultProofs`: `DefaultTypeCorrect`, with `Orderly`: a row has at most
  one request that has written it and not ended (`Locked`), and a request flags a
  row with its last statement only (`Planned`); `DefaultsStayBounded` by
  `DefaultsCounted`: with n requests, the defaults and the requests that may
  still add one fill at most n places, or n + 1 while one of them is about to
  replace a default it has found. The count starts afresh whenever a request
  finds at most one default, because the others make it raise.
- `LLMConfigActivationProofs`: `LLMTypeCorrect`; `ActiveAlwaysBounded` by
  `AuthorsOK`: authors are an injection from active rows to requests, since a
  request selects and deactivates its earlier row before it writes a new one.
  `LoneActivationHeals` is an action property; it follows from `AloneOK`: an
  activation that nobody was served beside knows all active rows when it is about
  to deactivate, and none but its own is left when it is about to write.
- `AccountsProofs`: `AccountsTypeCorrect`; `ClientsAlwaysRefresh`: for each
  stored record of a user there is one of the same user that is not revoked and
  no older (`Backed`), because a refresh revokes a record of its own user and
  stores one that is no older in the same commit (`Ledger`); no relation between
  the lives of tokens and records is needed; `CustomersStayBounded`: while
  none is stored, the customers made for a user are those that were lost and
  those in the hands of requests, and a request about to make one counts as if it
  had (`CustomersHeld`); the stored one is one of them (`StoredWasMade`).
  About the limiter and the page: `WindowAlwaysRespected`, for every window, limit
  and delay shorter than the window and whoever sends the requests. The bound is
  not inductive, since ticks make requests leave it one age at a time; `Matched`
  says it for every age: to what passed in the last `a` ticks belong as many
  entries that every request, however late, still counts. Its lemmas are about
  sums over ages: what one more request, a tick or a cleaning does to them.
  `PagesAreLimited` shows that the requests of the tabs are a behaviour of the
  limiter, so `PagesRespectWindow` follows; and `PagesTypeCorrect`, with the
  attempts a polling page has left.
- `ProfileEditingProofs`: `EditingTypeCorrect`; `StoredStaysValid`,
  `DeletedForGood`, `ImportsKeepText` and `LossesExplained` from one invariant,
  `Discipline`: what a request is about to write is valid and complete
  (`Prepared`), requests that create hold distinct rows nobody else has
  (`Apart`), and imports keep the file they made their contents of (`Imports`),
  to which no answer of Jev, however partial, does anything but add.
  `PromptIsComplete` needs of a stored profile only that validation changes
  nothing about it: then it has no relevance note, the one text a renderer
  prints and `assemble_prompt` leaves out, and `DocxInPrompt` goes through the
  sections of the page one by one.

Every invariant and every action property that a passing run checks is stated by
a theorem. Only model-checked are the liveness properties `EveryJobSettles`,
`RequestsEnd`, `PipelineEnds` and `PagesEnd`, because fairness and `ENABLED` are
out of the prover's reach, and the two sentences that the code does not keep. No
module uses recursive operators.

## 5. Not modelled

- `POST /generate/bulk`: a sequential loop of the inline generation, whose steps
  `GenerationJobs` has one by one; only its list of errors would be new.
- Password change and reset, e-mail verification: each changes one column.
- Subscription status, cancellation and webhooks: they never find a subscription
  or are stubs; the state they would change is changed by nothing.
- Wording: text heuristics of the CV parser beyond which lines they match, prompt
  texts, layout of documents, error messages, logging.
- I/O: storage back ends, e-mail, the calls of Stripe, of the providers and of
  LibreOffice beyond whether they answer.
- Admin, feedback and health routes: queries and single inserts.
- Middleware but for the rate limiter, validators, configuration, migrations,
  and the pages of the frontend but for generation: no state with a protocol.

What a next step would prove: more of how the modules fit together, after the
pattern of `RowsAlwaysMove` and `PagesAreLimited`. `LLMPipeline` begins with any
set of active configurations, `LLMConfigActivation` bounds those that are
reachable; the limits on concurrent requests (`Handlers`) could be tied to the
workers of the API; and `OrgUsage` has its table of members as a set, which
`OrgMembership` could be shown to refine.
