------------------------ MODULE GenerationJobsProofs ------------------------
(***************************************************************************)
(* Type correctness and the safety invariants of GenerationJobs, for every *)
(* set of jobs and processes, every fault and every bound: published       *)
(* documents stay, no pending job is lost, a 'completed' without documents *)
(* is answered for, a client that was told "completed" has its documents,  *)
(* and only recovery and workers that die duplicate a job.                 *)
(*                                                                         *)
(* The proofs follow one pattern.  OnwardNext says how a step can move the *)
(* rows at all; the lemmas that follow it say what a step leaves alone     *)
(* when one process takes it; each action then only owes the facts about   *)
(* the process that takes it and the job it runs.                          *)
(*                                                                         *)
(* GenerationJobs implements JobContract.  A step of the detailed          *)
(* specification is one of five kinds: it creates a job, it publishes, it  *)
(* answers a client, it deletes the profile, or the client sees nothing of *)
(* it.  The first four are steps of the contract, the last one a stutter.  *)
(***************************************************************************)
EXTENDS GenerationJobs, FiniteSetTheorems, TLAPS

-----------------------------------------------------------------------------
(* What the helpers do to the types.                                       *)

\* Processes that come to rest keep the types, and have neither step nor job.
LEMMA RestType ==
  ASSUME ProcsOK, NEW P, Rest(P)
  PROVE  ProcsOK'
BY ProcessAssumption, ConfigAssumption DEF ProcsOK, Rest, Steps, Statuses

\* A process that has a job may go on to any step but "idle".
LEMMA GoType ==
  ASSUME ProcsOK, NEW p \in Processes, NEW step \in Steps \ {"idle"},
         pc[p] # "idle", Go(p, step),
         seen' \in [Processes -> Statuses],
         docs' \in [Processes -> SUBSET Kinds]
  PROVE  ProcsOK'
BY DEF ProcsOK, Go

\* An idle process may take any job.
LEMMA TakeType ==
  ASSUME ProcsOK, NEW p \in Processes, NEW j \in Jobs, NEW n \in 0..MaxRetries,
         NEW cached \in Statuses, NEW step \in Steps \ {"idle"},
         Take(p, j, n, cached, step)
  PROVE  ProcsOK'
BY ProcessAssumption DEF ProcsOK, Take

\* A process that is not idle has a job.
LEMMA HasJob ==
  ASSUME ProcsOK, NEW p \in Processes, pc[p] # "idle"
  PROVE  task[p] \in Jobs
BY DEF ProcsOK

\* _set_status writes a status, and the refresh caches it.
LEMMA SetStatusType ==
  ASSUME RowsOK, ProcsOK, NEW p \in Processes, NEW new \in Statuses,
         pc[p] # "idle"
  PROVE  /\ NewStatus(p, new) \in Statuses
         /\ SetStatus(p, new) => status' \in [Jobs -> Statuses]
         /\ Refresh(p, new) => /\ seen' \in [Processes -> Statuses]
                               /\ docs' \in [Processes -> SUBSET Kinds]
<1>1. NewStatus(p, new) \in Statuses
  BY HasJob DEF RowsOK, NewStatus
<1> QED
  BY <1>1, HasJob DEF RowsOK, ProcsOK, SetStatus, Refresh

\* Counting one message more, or one less of those there are.
LEMMA CountType ==
  ASSUME NEW q \in [0..MaxRetries -> Nat], NEW n \in 0..MaxRetries
  PROVE  /\ [q EXCEPT ![n] = @ + 1] \in [0..MaxRetries -> Nat]
         /\ q[n] > 0 => [q EXCEPT ![n] = @ - 1] \in [0..MaxRetries -> Nat]
<1>1. q[n] \in Nat /\ q[n] + 1 \in Nat /\ (q[n] > 0 => q[n] - 1 \in Nat)
  OBVIOUS
<1> QED
  BY <1>1

\* A message more keeps the queue a queue.
LEMMA MessageType ==
  ASSUME TasksOK, NEW j \in Jobs, NEW n \in 0..MaxRetries, WithMessage(j, n)
  PROVE  queue' \in [Jobs -> [0..MaxRetries -> Nat]]
<1>1. [queue[j] EXCEPT ![n] = @ + 1] \in [0..MaxRetries -> Nat]
  BY CountType DEF TasksOK
<1>2. queue' = [queue EXCEPT ![j] = [queue[j] EXCEPT ![n] = @ + 1]]
  BY DEF WithMessage
<1> QED
  BY <1>1, <1>2 DEF TasksOK

\* A reply to the creator of the job.
LEMMA TellType ==
  ASSUME ApiOK, ProcsOK, NEW p \in Processes, NEW reply \in Replies,
         pc[p] # "idle"
  PROVE  /\ Tell(p, reply) => told' \in [Jobs -> Replies]
         /\ Reply(p, reply) => told' \in [Jobs -> Replies]
BY HasJob DEF ApiOK, Tell, Reply

-----------------------------------------------------------------------------
(* Type correctness.                                                       *)

LEMMA TypeInit == Init => TypeOK
BY ProcessAssumption, ConfigAssumption
   DEF Init, TypeOK, RowsOK, ProcsOK, TasksOK, ApiOK, Statuses, Steps, Kinds,
       Replies, ApiStates

LEMMA TypeNext == TypeOK /\ [Next]_vars => TypeOK'
<1> SUFFICES ASSUME TypeOK, [Next]_vars PROVE TypeOK'
  OBVIOUS
<1> USE DEF TypeOK
<1>a. Requests \subseteq Processes /\ Streams \subseteq Processes
        /\ Workers \subseteq Processes /\ Handlers \subseteq Processes
  BY DEF Processes, Handlers
<1>1. ASSUME NEW r \in Requests, NEW j \in Jobs, CreateJob(r, j) PROVE TypeOK'
  <2>1. ProcsOK'
    BY <1>1, <1>a, ConfigAssumption, TakeType DEF CreateJob, Steps, Statuses
  <2>2. RowsOK'
    BY <1>1 DEF CreateJob, RowsOK, Statuses
  <2>3. TasksOK'
    BY <1>1 DEF CreateJob, TasksOK, taskVars
  <2>4. ApiOK'
    BY <1>1 DEF CreateJob, ApiOK, apiVars, countVars
  <2> QED
    BY <2>1, <2>2, <2>3, <2>4
<1>2. ASSUME NEW r \in Requests, Enqueue(r) PROVE TypeOK'
  <2>1. ProcsOK'
    BY <1>2, RestType DEF Enqueue
  <2>2. RowsOK'
    BY <1>2 DEF Enqueue, RowsOK, rowVars
  <2>3. TasksOK'
    <3>1. task[r] \in Jobs /\ 0 \in 0..MaxRetries
      BY <1>2, <1>a, ConfigAssumption, HasJob DEF Enqueue
    <3> QED
      BY <1>2, <3>1, MessageType DEF Enqueue, TasksOK
  <2>4. ApiOK'
    BY <1>2, <1>a, TellType DEF Enqueue, ApiOK, Replies, apiVars, countVars
  <2> QED
    BY <2>1, <2>2, <2>3, <2>4
<1>3. ASSUME NEW r \in Requests, EnqueueFails(r) PROVE TypeOK'
  <2>1. ProcsOK'
    BY <1>3, RestType DEF EnqueueFails
  <2>2. RowsOK'
    BY <1>3 DEF EnqueueFails, RowsOK, rowVars
  <2>3. TasksOK'
    <3>1. task[r] \in Jobs /\ 0 \in 0..MaxRetries
      BY <1>3, <1>a, ConfigAssumption, HasJob DEF EnqueueFails
    <3> QED
      BY <1>3, <3>1, MessageType DEF EnqueueFails, TasksOK
  <2>4. ApiOK'
    BY <1>3, <1>a, TellType DEF EnqueueFails, ApiOK, Replies, apiVars,
       countVars
  <2> QED
    BY <2>1, <2>2, <2>3, <2>4
<1>4. ASSUME NEW s \in Streams, NEW j \in Jobs, Connect(s, j) PROVE TypeOK'
  <2>1. ProcsOK'
    BY <1>4, <1>a, ConfigAssumption, TakeType DEF Connect, Steps, Statuses
  <2>2. RowsOK'
    BY <1>4 DEF Connect, RowsOK, rowVars
  <2>3. TasksOK'
    BY <1>4 DEF Connect, TasksOK, taskVars
  <2>4. ApiOK'
    BY <1>4 DEF Connect, ApiOK, apiVars, countVars
  <2> QED
    BY <2>1, <2>2, <2>3, <2>4
<1>5. ASSUME NEW s \in Streams, StreamGivesUp(s) PROVE TypeOK'
  <2>1. ProcsOK'
    BY <1>5, RestType DEF StreamGivesUp
  <2>2. RowsOK'
    BY <1>5 DEF StreamGivesUp, RowsOK, rowVars
  <2>3. TasksOK'
    BY <1>5 DEF StreamGivesUp, TasksOK, taskVars
  <2>4. ApiOK'
    BY <1>5 DEF StreamGivesUp, ApiOK, apiVars, countVars
  <2> QED
    BY <2>1, <2>2, <2>3, <2>4
<1>6. ASSUME NEW s \in Streams, StreamSendFails(s) PROVE TypeOK'
  <2>1. ProcsOK'
    BY <1>6, <1>a, GoType DEF StreamSendFails, ProcsOK, Steps
  <2>2. RowsOK'
    BY <1>6 DEF StreamSendFails, RowsOK, rowVars
  <2>3. TasksOK'
    BY <1>6 DEF StreamSendFails, TasksOK, taskVars
  <2>4. ApiOK'
    BY <1>6 DEF StreamSendFails, ApiOK, apiVars, countVars
  <2> QED
    BY <2>1, <2>2, <2>3, <2>4
<1>7. ASSUME NEW h \in Handlers, MarkProcessing(h) PROVE TypeOK'
  <2>1. ProcsOK'
    BY <1>7, <1>a, SetStatusType, GoType DEF MarkProcessing, Steps, Statuses
  <2>2. RowsOK'
    BY <1>7, <1>a, SetStatusType DEF MarkProcessing, RowsOK, Statuses
  <2>3. TasksOK'
    BY <1>7 DEF MarkProcessing, TasksOK, taskVars
  <2>4. ApiOK'
    BY <1>7 DEF MarkProcessing, ApiOK, apiVars, countVars
  <2> QED
    BY <2>1, <2>2, <2>3, <2>4
<1>8. ASSUME NEW p \in Processes, LoadProfile(p) PROVE TypeOK'
  <2>1. ProcsOK'
    BY <1>8, <1>a, GoType DEF LoadProfile, ProcsOK, Steps
  <2>2. RowsOK'
    BY <1>8 DEF LoadProfile, RowsOK, rowVars
  <2>3. TasksOK'
    BY <1>8 DEF LoadProfile, TasksOK, taskVars
  <2>4. ApiOK'
    BY <1>8 DEF LoadProfile, ApiOK, apiVars, countVars
  <2> QED
    BY <2>1, <2>2, <2>3, <2>4
<1>9. ASSUME NEW p \in Processes, RunSucceeds(p) PROVE TypeOK'
  <2>1. ProcsOK'
    BY <1>9, GoType DEF RunSucceeds, ProcsOK, Steps, Kinds
  <2>2. RowsOK'
    BY <1>9 DEF RunSucceeds, RowsOK, rowVars
  <2>3. TasksOK'
    BY <1>9 DEF RunSucceeds, TasksOK, taskVars
  <2>4. ApiOK'
    BY <1>9 DEF RunSucceeds, ApiOK, apiVars, countVars
  <2> QED
    BY <2>1, <2>2, <2>3, <2>4
<1>10. ASSUME NEW p \in Processes, RunFails(p) PROVE TypeOK'
  <2>1. ProcsOK'
    BY <1>10, <1>a, GoType DEF RunFails, ProcsOK, Steps
  <2>2. RowsOK'
    BY <1>10 DEF RunFails, RowsOK, rowVars
  <2>3. TasksOK'
    BY <1>10 DEF RunFails, TasksOK, taskVars
  <2>4. ApiOK'
    BY <1>10 DEF RunFails, ApiOK, apiVars, countVars
  <2> QED
    BY <2>1, <2>2, <2>3, <2>4
<1>11. ASSUME NEW p \in Processes, Complete(p) PROVE TypeOK'
  <2>1. ProcsOK'
    BY <1>11, <1>a, SetStatusType, GoType DEF Complete, Steps, Statuses
  <2>2. RowsOK'
    BY <1>11, <1>a, SetStatusType DEF Complete, RowsOK, Statuses
  <2>3. TasksOK'
    BY <1>11 DEF Complete, TasksOK, taskVars
  <2>4. ApiOK'
    BY <1>11 DEF Complete, ApiOK, apiVars, countVars
  <2> QED
    BY <2>1, <2>2, <2>3, <2>4
<1>12. ASSUME NEW p \in Processes, Publish(p) PROVE TypeOK'
  <2>1. ProcsOK'
    <3>1. seen' \in [Processes -> Statuses] /\ docs' = docs
      BY <1>12, HasJob DEF Publish, ProcsOK, RowsOK
    <3> QED
      BY <1>12, <3>1, GoType DEF Publish, ProcsOK, Steps
  <2>2. RowsOK'
    BY <1>12, HasJob DEF Publish, RowsOK, ProcsOK
  <2>3. TasksOK'
    BY <1>12 DEF Publish, TasksOK, taskVars
  <2>4. ApiOK'
    BY <1>12 DEF Publish, ApiOK, apiVars, countVars
  <2> QED
    BY <2>1, <2>2, <2>3, <2>4
<1>13. ASSUME NEW h \in Handlers, HandlerFinishes(h) PROVE TypeOK'
  <2>1. ProcsOK'
    BY <1>13, RestType DEF HandlerFinishes
  <2>2. RowsOK'
    BY <1>13 DEF HandlerFinishes, RowsOK, rowVars
  <2>3. TasksOK'
    BY <1>13 DEF HandlerFinishes, TasksOK, taskVars
  <2>4. ApiOK'
    BY <1>13, <1>a, TellType DEF HandlerFinishes, ApiOK, Replies, apiVars,
       countVars
  <2> QED
    BY <2>1, <2>2, <2>3, <2>4
<1>14. ASSUME NEW h \in Handlers, HandlerFails(h) PROVE TypeOK'
  <2>1. ProcsOK'
    BY <1>14, RestType DEF HandlerFails
  <2>2. RowsOK'
    BY <1>14, <1>a, SetStatusType DEF HandlerFails, RowsOK, Statuses
  <2>3. TasksOK'
    BY <1>14 DEF HandlerFails, TasksOK, taskVars
  <2>4. ApiOK'
    BY <1>14, <1>a, TellType DEF HandlerFails, ApiOK, Replies, apiVars,
       countVars
  <2> QED
    BY <2>1, <2>2, <2>3, <2>4
<1>15. ASSUME NEW h \in Handlers, HandlerRaises(h) PROVE TypeOK'
  <2>1. ProcsOK'
    BY <1>15, <1>a, GoType DEF HandlerRaises, ProcsOK, Steps
  <2>2. RowsOK'
    BY <1>15 DEF HandlerRaises, RowsOK, rowVars
  <2>3. TasksOK'
    BY <1>15 DEF HandlerRaises, TasksOK, taskVars
  <2>4. ApiOK'
    BY <1>15 DEF HandlerRaises, ApiOK, apiVars, countVars
  <2> QED
    BY <2>1, <2>2, <2>3, <2>4
<1>16. ASSUME NEW h \in Handlers, HandlerBreaks(h) PROVE TypeOK'
  <2>1. ProcsOK'
    BY <1>16, RestType DEF HandlerBreaks
  <2>2. RowsOK'
    BY <1>16 DEF HandlerBreaks, RowsOK, rowVars
  <2>3. TasksOK'
    BY <1>16 DEF HandlerBreaks, TasksOK, taskVars
  <2>4. ApiOK'
    BY <1>16, <1>a, TellType DEF HandlerBreaks, ApiOK, Replies, apiVars,
       countVars
  <2> QED
    BY <2>1, <2>2, <2>3, <2>4
<1>17. ASSUME NEW w \in Workers, NEW j \in Jobs, NEW n \in 0..MaxRetries,
              Deliver(w, j, n)
       PROVE  TypeOK'
  <2>1. ProcsOK'
    <3>1. CASE status[j] = "deleted"
      BY <1>17, <3>1 DEF Deliver, ProcsOK, procVars
    <3>2. CASE status[j] # "deleted"
      BY <1>17, <1>a, <3>2, TakeType DEF Deliver, RowsOK, Steps
    <3> QED
      BY <3>1, <3>2
  <2>2. RowsOK'
    BY <1>17 DEF Deliver, RowsOK, rowVars
  <2>3. TasksOK'
    <3>1. [queue[j] EXCEPT ![n] = @ - 1] \in [0..MaxRetries -> Nat]
      BY <1>17, CountType DEF Deliver, TasksOK
    <3>2. queue' = [queue EXCEPT ![j] = [queue[j] EXCEPT ![n] = @ - 1]]
      BY <1>17 DEF Deliver
    <3> QED
      BY <1>17, <3>1, <3>2 DEF Deliver, TasksOK
  <2>4. ApiOK'
    BY <1>17 DEF Deliver, ApiOK, apiVars, countVars
  <2> QED
    BY <2>1, <2>2, <2>3, <2>4
<1>18. ASSUME NEW w \in Workers, Acknowledge(w) PROVE TypeOK'
  <2>1. ProcsOK'
    BY <1>18, RestType DEF Acknowledge
  <2>2. RowsOK'
    BY <1>18 DEF Acknowledge, RowsOK, rowVars
  <2>3. TasksOK'
    BY <1>18 DEF Acknowledge, TasksOK, taskVars
  <2>4. ApiOK'
    BY <1>18 DEF Acknowledge, ApiOK, apiVars, countVars
  <2> QED
    BY <2>1, <2>2, <2>3, <2>4
<1>19. ASSUME NEW w \in Workers, WorkerFails(w) PROVE TypeOK'
  <2>1. ProcsOK'
    BY <1>19, <1>a, SetStatusType, GoType DEF WorkerFails, Steps, Statuses
  <2>2. RowsOK'
    BY <1>19, <1>a, SetStatusType DEF WorkerFails, RowsOK, Statuses
  <2>3. TasksOK'
    BY <1>19 DEF WorkerFails, TasksOK, taskVars
  <2>4. ApiOK'
    BY <1>19 DEF WorkerFails, ApiOK, apiVars, countVars
  <2> QED
    BY <2>1, <2>2, <2>3, <2>4
<1>20. ASSUME NEW w \in Workers, WorkerRaises(w) PROVE TypeOK'
  <2>1. ProcsOK'
    BY <1>20, <1>a, GoType DEF WorkerRaises, ProcsOK, Steps
  <2>2. RowsOK'
    BY <1>20 DEF WorkerRaises, RowsOK, rowVars
  <2>3. TasksOK'
    BY <1>20, <1>a, HasJob DEF WorkerRaises, TasksOK
  <2>4. ApiOK'
    BY <1>20 DEF WorkerRaises, ApiOK, apiVars, countVars
  <2> QED
    BY <2>1, <2>2, <2>3, <2>4
<1>21. ASSUME NEW w \in Workers, WorkerRetries(w) PROVE TypeOK'
  <2>1. ProcsOK'
    BY <1>21, <1>a, GoType DEF WorkerRetries, ProcsOK, Steps
  <2>2. RowsOK'
    BY <1>21 DEF WorkerRetries, RowsOK, rowVars
  <2>3. TasksOK'
    <3>1. task[w] \in Jobs /\ tries[w] + 1 \in 0..MaxRetries
      BY <1>21, <1>a, ConfigAssumption, HasJob DEF WorkerRetries, ProcsOK
    <3> QED
      BY <1>21, <3>1, MessageType DEF WorkerRetries, TasksOK
  <2>4. ApiOK'
    BY <1>21 DEF WorkerRetries, ApiOK, apiVars, countVars
  <2> QED
    BY <2>1, <2>2, <2>3, <2>4
<1>22. ASSUME NEW w \in Workers, WorkerDies(w) PROVE TypeOK'
  <2>1. ProcsOK'
    BY <1>22, RestType DEF WorkerDies
  <2>2. RowsOK'
    BY <1>22 DEF WorkerDies, RowsOK, rowVars
  <2>3. TasksOK'
    BY <1>22, <1>a, ConfigAssumption, HasJob, MessageType DEF WorkerDies,
       TasksOK, ProcsOK
  <2>4. ApiOK'
    BY <1>22, ConfigAssumption DEF WorkerDies, ApiOK, apiVars
  <2> QED
    BY <2>1, <2>2, <2>3, <2>4
<1>23. ASSUME ApiDies PROVE TypeOK'
  <2>1. ProcsOK'
    BY <1>23, RestType DEF ApiDies
  <2>2. RowsOK'
    BY <1>23 DEF ApiDies, RowsOK, rowVars
  <2>3. TasksOK'
    BY <1>23 DEF ApiDies, TasksOK, taskVars
  <2>4. ApiOK'
    BY <1>23, ConfigAssumption DEF ApiDies, ApiOK, ApiStates
  <2> QED
    BY <2>1, <2>2, <2>3, <2>4
<1>24. ASSUME ApiStarts PROVE TypeOK'
  <2>1. ProcsOK'
    BY <1>24 DEF ApiStarts, ProcsOK, procVars
  <2>2. RowsOK'
    BY <1>24 DEF ApiStarts, RowsOK, rowVars
  <2>3. TasksOK'
    BY <1>24 DEF ApiStarts, TasksOK, taskVars
  <2>4. ApiOK'
    BY <1>24 DEF ApiStarts, ApiOK, ApiStates, Stuck, countVars
  <2> QED
    BY <2>1, <2>2, <2>3, <2>4
<1>25. ASSUME NEW j \in Jobs, RecoverJob(j) PROVE TypeOK'
  <2>1. ProcsOK'
    BY <1>25 DEF RecoverJob, ProcsOK, procVars
  <2>2. RowsOK'
    BY <1>25 DEF RecoverJob, RowsOK, rowVars
  <2>3. TasksOK'
    BY <1>25, ConfigAssumption, MessageType DEF RecoverJob, TasksOK
  <2>4. ApiOK'
    BY <1>25 DEF RecoverJob, ApiOK, apiVars, countVars
  <2> QED
    BY <2>1, <2>2, <2>3, <2>4
<1>26. ASSUME RecoveryDone PROVE TypeOK'
  <2>1. ProcsOK'
    BY <1>26 DEF RecoveryDone, ProcsOK, procVars
  <2>2. RowsOK'
    BY <1>26 DEF RecoveryDone, RowsOK, rowVars
  <2>3. TasksOK'
    BY <1>26 DEF RecoveryDone, TasksOK, taskVars
  <2>4. ApiOK'
    BY <1>26 DEF RecoveryDone, ApiOK, ApiStates, countVars
  <2> QED
    BY <2>1, <2>2, <2>3, <2>4
<1>27. ASSUME RecoverySkipped PROVE TypeOK'
  <2>1. ProcsOK'
    BY <1>27 DEF RecoverySkipped, ProcsOK, procVars
  <2>2. RowsOK'
    BY <1>27 DEF RecoverySkipped, RowsOK, rowVars
  <2>3. TasksOK'
    BY <1>27 DEF RecoverySkipped, TasksOK, taskVars
  <2>4. ApiOK'
    BY <1>27 DEF RecoverySkipped, ApiOK, ApiStates, countVars
  <2> QED
    BY <2>1, <2>2, <2>3, <2>4
<1>28. ASSUME DeleteProfile PROVE TypeOK'
  <2>1. ProcsOK'
    BY <1>28 DEF DeleteProfile, ProcsOK, procVars
  <2>2. RowsOK'
    BY <1>28 DEF DeleteProfile, Existing, RowsOK, Statuses
  <2>3. TasksOK'
    BY <1>28 DEF DeleteProfile, TasksOK, taskVars
  <2>4. ApiOK'
    BY <1>28 DEF DeleteProfile, ApiOK, apiVars, countVars
  <2> QED
    BY <2>1, <2>2, <2>3, <2>4
<1>29. CASE UNCHANGED vars
  BY <1>29 DEF vars, rowVars, procVars, taskVars, apiVars, countVars, RowsOK,
              ProcsOK, TasksOK, ApiOK
<1> QED
  BY <1>1, <1>2, <1>3, <1>4, <1>5, <1>6, <1>7, <1>8, <1>9, <1>10, <1>11,
     <1>12, <1>13, <1>14, <1>15, <1>16, <1>17, <1>18, <1>19, <1>20, <1>21,
     <1>22, <1>23, <1>24, <1>25, <1>26, <1>27, <1>28, <1>29
     DEF Next, RequestStep, StreamStep, HandlerStep, WorkerStep, RunStep,
         ApiStep,
         Deliveries, Handlers, Processes

\* The types hold in every reachable state, for every choice of the constants.
THEOREM TypeCorrect == Spec => []TypeOK
BY TypeInit, TypeNext, PTL DEF Spec

-----------------------------------------------------------------------------
(* How any step can move the rows.                                         *)

\* Rows only move onward: a job that exists stays, as a row or as a deleted
\* one, and no job becomes 'pending' again.
Onward ==
  \A j \in Jobs :
    /\ status[j] # "absent" => status'[j] # "absent"
    /\ status[j] \notin {"absent", "pending"} => status'[j] # "pending"
    /\ status[j] = "deleted" => status'[j] = "deleted"

\* Members of the parts are processes.
LEMMA Parts ==
  /\ Requests \subseteq Processes /\ Streams \subseteq Processes
  /\ Workers \subseteq Processes /\ Handlers \subseteq Processes
BY DEF Processes, Handlers

LEMMA SetStatusOnward ==
  ASSUME TypeOK, NEW p \in Processes, pc[p] # "idle",
         NEW new \in {"processing", "completed", "failed"}, SetStatus(p, new)
  PROVE  Onward
<1>1. task[p] \in Jobs
  BY HasJob DEF TypeOK
<1> QED
  BY <1>1 DEF TypeOK, RowsOK, SetStatus, NewStatus, Onward

LEMMA SameStatusOnward == ASSUME UNCHANGED status PROVE Onward
BY DEF Onward

LEMMA OnwardNext == TypeOK /\ [Next]_vars => Onward
<1> SUFFICES ASSUME TypeOK, [Next]_vars PROVE Onward
  OBVIOUS
<1>1. ASSUME NEW r \in Requests, NEW j \in Jobs, CreateJob(r, j) PROVE Onward
  BY <1>1 DEF CreateJob, Onward, TypeOK, RowsOK
<1>2. ASSUME NEW r \in Requests, Enqueue(r) PROVE Onward
  BY <1>2, SameStatusOnward DEF Enqueue, rowVars
<1>3. ASSUME NEW r \in Requests, EnqueueFails(r) PROVE Onward
  BY <1>3, SameStatusOnward DEF EnqueueFails, rowVars
<1>4. ASSUME NEW s \in Streams, NEW j \in Jobs, Connect(s, j) PROVE Onward
  BY <1>4, SameStatusOnward DEF Connect, rowVars
<1>5. ASSUME NEW s \in Streams, StreamGivesUp(s) PROVE Onward
  BY <1>5, SameStatusOnward DEF StreamGivesUp, rowVars
<1>6. ASSUME NEW s \in Streams, StreamSendFails(s) PROVE Onward
  BY <1>6, SameStatusOnward DEF StreamSendFails, rowVars
<1>7. ASSUME NEW h \in Handlers, MarkProcessing(h) PROVE Onward
  BY <1>7, Parts, SetStatusOnward DEF MarkProcessing
<1>8. ASSUME NEW p \in Processes, LoadProfile(p) PROVE Onward
  BY <1>8, SameStatusOnward DEF LoadProfile, rowVars
<1>9. ASSUME NEW p \in Processes, RunSucceeds(p) PROVE Onward
  BY <1>9, SameStatusOnward DEF RunSucceeds, rowVars
<1>10. ASSUME NEW p \in Processes, RunFails(p) PROVE Onward
  BY <1>10, SameStatusOnward DEF RunFails, rowVars
<1>11. ASSUME NEW p \in Processes, Complete(p) PROVE Onward
  BY <1>11, Parts, SetStatusOnward DEF Complete
<1>12. ASSUME NEW p \in Processes, Publish(p) PROVE Onward
  BY <1>12, SameStatusOnward DEF Publish
<1>13. ASSUME NEW h \in Handlers, HandlerFinishes(h) PROVE Onward
  BY <1>13, SameStatusOnward DEF HandlerFinishes, rowVars
<1>14. ASSUME NEW h \in Handlers, HandlerFails(h) PROVE Onward
  BY <1>14, Parts, SetStatusOnward DEF HandlerFails
<1>15. ASSUME NEW h \in Handlers, HandlerRaises(h) PROVE Onward
  BY <1>15, SameStatusOnward DEF HandlerRaises, rowVars
<1>16. ASSUME NEW h \in Handlers, HandlerBreaks(h) PROVE Onward
  BY <1>16, SameStatusOnward DEF HandlerBreaks, rowVars
<1>17. ASSUME NEW w \in Workers, NEW j \in Jobs, NEW n \in 0..MaxRetries,
              Deliver(w, j, n)
       PROVE  Onward
  BY <1>17, SameStatusOnward DEF Deliver, rowVars
<1>18. ASSUME NEW w \in Workers, Acknowledge(w) PROVE Onward
  BY <1>18, SameStatusOnward DEF Acknowledge, rowVars
<1>19. ASSUME NEW w \in Workers, WorkerFails(w) PROVE Onward
  BY <1>19, Parts, SetStatusOnward DEF WorkerFails
<1>20. ASSUME NEW w \in Workers, WorkerRaises(w) PROVE Onward
  BY <1>20, SameStatusOnward DEF WorkerRaises, rowVars
<1>21. ASSUME NEW w \in Workers, WorkerRetries(w) PROVE Onward
  BY <1>21, SameStatusOnward DEF WorkerRetries, rowVars
<1>22. ASSUME NEW w \in Workers, WorkerDies(w) PROVE Onward
  BY <1>22, SameStatusOnward DEF WorkerDies, rowVars
<1>23. ASSUME ApiDies PROVE Onward
  BY <1>23, SameStatusOnward DEF ApiDies, rowVars
<1>24. ASSUME ApiStarts PROVE Onward
  BY <1>24, SameStatusOnward DEF ApiStarts, rowVars
<1>25. ASSUME NEW j \in Jobs, RecoverJob(j) PROVE Onward
  BY <1>25, SameStatusOnward DEF RecoverJob, rowVars
<1>26. ASSUME RecoveryDone PROVE Onward
  BY <1>26, SameStatusOnward DEF RecoveryDone, rowVars
<1>27. ASSUME RecoverySkipped PROVE Onward
  BY <1>27, SameStatusOnward DEF RecoverySkipped, rowVars
<1>28. ASSUME DeleteProfile PROVE Onward
  BY <1>28 DEF DeleteProfile, Existing, Onward
<1>29. CASE UNCHANGED vars
  BY <1>29, SameStatusOnward DEF vars, rowVars
<1> QED
  BY <1>1, <1>2, <1>3, <1>4, <1>5, <1>6, <1>7, <1>8, <1>9, <1>10, <1>11,
     <1>12, <1>13, <1>14, <1>15, <1>16, <1>17, <1>18, <1>19, <1>20, <1>21,
     <1>22, <1>23, <1>24, <1>25, <1>26, <1>27, <1>28, <1>29
     DEF Next, RequestStep, StreamStep, HandlerStep, WorkerStep, RunStep,
         ApiStep, Deliveries, Handlers, Processes

LEMMA SameRowsKept == ASSUME TypeOK, UNCHANGED <<urls, rowSets>> PROVE Kept
BY DEF Kept, TypeOK, RowsOK

LEMMA KeptNext == TypeOK /\ [Next]_vars => Kept
<1> SUFFICES ASSUME TypeOK, [Next]_vars PROVE Kept
  OBVIOUS
<1>1. ASSUME NEW r \in Requests, NEW j \in Jobs, CreateJob(r, j) PROVE Kept
  BY <1>1, SameRowsKept DEF CreateJob, rowVars
<1>2. ASSUME NEW r \in Requests, Enqueue(r) PROVE Kept
  BY <1>2, SameRowsKept DEF Enqueue, rowVars
<1>3. ASSUME NEW r \in Requests, EnqueueFails(r) PROVE Kept
  BY <1>3, SameRowsKept DEF EnqueueFails, rowVars
<1>4. ASSUME NEW s \in Streams, NEW j \in Jobs, Connect(s, j) PROVE Kept
  BY <1>4, SameRowsKept DEF Connect, rowVars
<1>5. ASSUME NEW s \in Streams, StreamGivesUp(s) PROVE Kept
  BY <1>5, SameRowsKept DEF StreamGivesUp, rowVars
<1>6. ASSUME NEW s \in Streams, StreamSendFails(s) PROVE Kept
  BY <1>6, SameRowsKept DEF StreamSendFails, rowVars
<1>7. ASSUME NEW h \in Handlers, MarkProcessing(h) PROVE Kept
  BY <1>7, SameRowsKept DEF MarkProcessing, rowVars
<1>8. ASSUME NEW p \in Processes, LoadProfile(p) PROVE Kept
  BY <1>8, SameRowsKept DEF LoadProfile, rowVars
<1>9. ASSUME NEW p \in Processes, RunSucceeds(p) PROVE Kept
  BY <1>9, SameRowsKept DEF RunSucceeds, rowVars
<1>10. ASSUME NEW p \in Processes, RunFails(p) PROVE Kept
  BY <1>10, SameRowsKept DEF RunFails, rowVars
<1>11. ASSUME NEW p \in Processes, Complete(p) PROVE Kept
  BY <1>11, SameRowsKept DEF Complete, rowVars
<1>12. ASSUME NEW p \in Processes, Publish(p) PROVE Kept
  <2>1. task[p] \in Jobs
    BY <1>12, HasJob DEF Publish, TypeOK
  <2> QED
    BY <1>12, <2>1 DEF Publish, Kept, TypeOK, RowsOK
<1>13. ASSUME NEW h \in Handlers, HandlerFinishes(h) PROVE Kept
  BY <1>13, SameRowsKept DEF HandlerFinishes, rowVars
<1>14. ASSUME NEW h \in Handlers, HandlerFails(h) PROVE Kept
  BY <1>14, SameRowsKept DEF HandlerFails, rowVars
<1>15. ASSUME NEW h \in Handlers, HandlerRaises(h) PROVE Kept
  BY <1>15, SameRowsKept DEF HandlerRaises, rowVars
<1>16. ASSUME NEW h \in Handlers, HandlerBreaks(h) PROVE Kept
  BY <1>16, SameRowsKept DEF HandlerBreaks, rowVars
<1>17. ASSUME NEW w \in Workers, NEW j \in Jobs, NEW n \in 0..MaxRetries,
              Deliver(w, j, n)
       PROVE  Kept
  BY <1>17, SameRowsKept DEF Deliver, rowVars
<1>18. ASSUME NEW w \in Workers, Acknowledge(w) PROVE Kept
  BY <1>18, SameRowsKept DEF Acknowledge, rowVars
<1>19. ASSUME NEW w \in Workers, WorkerFails(w) PROVE Kept
  BY <1>19, SameRowsKept DEF WorkerFails, rowVars
<1>20. ASSUME NEW w \in Workers, WorkerRaises(w) PROVE Kept
  BY <1>20, SameRowsKept DEF WorkerRaises, rowVars
<1>21. ASSUME NEW w \in Workers, WorkerRetries(w) PROVE Kept
  BY <1>21, SameRowsKept DEF WorkerRetries, rowVars
<1>22. ASSUME NEW w \in Workers, WorkerDies(w) PROVE Kept
  BY <1>22, SameRowsKept DEF WorkerDies, rowVars
<1>23. ASSUME ApiDies PROVE Kept
  BY <1>23, SameRowsKept DEF ApiDies, rowVars
<1>24. ASSUME ApiStarts PROVE Kept
  BY <1>24, SameRowsKept DEF ApiStarts, rowVars
<1>25. ASSUME NEW j \in Jobs, RecoverJob(j) PROVE Kept
  BY <1>25, SameRowsKept DEF RecoverJob, rowVars
<1>26. ASSUME RecoveryDone PROVE Kept
  BY <1>26, SameRowsKept DEF RecoveryDone, rowVars
<1>27. ASSUME RecoverySkipped PROVE Kept
  BY <1>27, SameRowsKept DEF RecoverySkipped, rowVars
<1>28. ASSUME DeleteProfile PROVE Kept
  BY <1>28 DEF DeleteProfile, Existing, Kept, TypeOK, RowsOK
<1>29. CASE UNCHANGED vars
  BY <1>29, SameRowsKept DEF vars, rowVars
<1> QED
  BY <1>1, <1>2, <1>3, <1>4, <1>5, <1>6, <1>7, <1>8, <1>9, <1>10, <1>11,
     <1>12, <1>13, <1>14, <1>15, <1>16, <1>17, <1>18, <1>19, <1>20, <1>21,
     <1>22, <1>23, <1>24, <1>25, <1>26, <1>27, <1>28, <1>29
     DEF Next, RequestStep, StreamStep, HandlerStep, WorkerStep, RunStep,
         ApiStep, Deliveries, Handlers, Processes

\* Published documents stay, whoever else runs, fails or recovers the job.
THEOREM DocumentsAlwaysStay == Spec => DocumentsStay
<1>1. TypeOK /\ [Next]_vars => [Kept]_vars
  BY KeptNext
<1> QED
  BY <1>1, TypeCorrect, PTL DEF Spec, DocumentsStay

-----------------------------------------------------------------------------
(* Bookkeeping: who holds which job, and what it may still see.            *)

\* A process that does not move keeps what it knows.
LEMMA ProgressKept ==
  ASSUME TypeOK, HeldOK, Onward, NEW q \in Processes, pc[q] # "idle",
         pc'[q] = pc[q], task'[q] = task[q], seen'[q] = seen[q],
         docs'[q] = docs[q]
  PROVE  Progressed(q)'
<1>1. task[q] \in Jobs
  BY HasJob DEF TypeOK
<1>2. Progressed(q)
  BY DEF HeldOK
<1> QED
  BY <1>1, <1>2 DEF Progressed, Onward

LEMMA HeldSame ==
  ASSUME TypeOK, HeldOK, Onward, UNCHANGED procVars PROVE HeldOK'
BY ProgressKept DEF HeldOK, procVars

LEMMA HeldRest == ASSUME TypeOK, HeldOK, Onward, NEW P, Rest(P) PROVE HeldOK'
<1> SUFFICES ASSUME NEW q \in Processes, pc'[q] # "idle" PROVE Progressed(q)'
  BY DEF HeldOK
<1> QED
  BY ProgressKept DEF Rest

LEMMA HeldGo ==
  ASSUME TypeOK, HeldOK, Onward, NEW p \in Processes, NEW step, Go(p, step),
         \A q \in Processes \ {p} : seen'[q] = seen[q] /\ docs'[q] = docs[q],
         Progressed(p)'
  PROVE  HeldOK'
<1> SUFFICES ASSUME NEW q \in Processes, pc'[q] # "idle" PROVE Progressed(q)'
  BY DEF HeldOK
<1>1. CASE q = p
  BY <1>1
<1>2. CASE q # p
  BY <1>2, ProgressKept DEF Go, TypeOK, ProcsOK
<1> QED
  BY <1>1, <1>2

LEMMA HeldTake ==
  ASSUME TypeOK, HeldOK, Onward, NEW p \in Processes, NEW j \in Jobs, NEW n,
         NEW cached, NEW step, Take(p, j, n, cached, step), Progressed(p)'
  PROVE  HeldOK'
<1> SUFFICES ASSUME NEW q \in Processes, pc'[q] # "idle" PROVE Progressed(q)'
  BY DEF HeldOK
<1>1. CASE q = p
  BY <1>1
<1>2. CASE q # p
  BY <1>2, ProgressKept DEF Take, TypeOK, ProcsOK
<1> QED
  BY <1>1, <1>2

LEMMA QueuedKept ==
  ASSUME QueuedOK, Onward, UNCHANGED queue PROVE QueuedOK'
BY DEF QueuedOK, Onward

LEMMA QueuedMore ==
  ASSUME TypeOK, QueuedOK, Onward, NEW j \in Jobs, NEW n \in 0..MaxRetries,
         status[j] # "absent", WithMessage(j, n)
  PROVE  QueuedOK'
<1> SUFFICES ASSUME NEW i \in Jobs, NEW m \in 0..MaxRetries, queue'[i][m] > 0
             PROVE  status'[i] # "absent"
  BY DEF QueuedOK
<1>1. CASE i = j
  BY <1>1 DEF Onward
<1>2. CASE i # j
  <2>1. queue'[i] = queue[i]
    BY <1>2 DEF WithMessage, TypeOK, TasksOK
  <2> QED
    BY <2>1 DEF QueuedOK, Onward
<1> QED
  BY <1>1, <1>2

LEMMA RecoverKept ==
  ASSUME TypeOK, RecoverOK, Onward, toRecover' \subseteq toRecover
  PROVE  RecoverOK'
BY DEF RecoverOK, Onward, TypeOK, ApiOK

LEMMA BookInit == Init => Bookkeeping
BY ConfigAssumption DEF Init, Bookkeeping, HeldOK, QueuedOK, RecoverOK

LEMMA BookNext == TypeOK /\ Bookkeeping /\ [Next]_vars => Bookkeeping'
<1> SUFFICES ASSUME TypeOK, Bookkeeping, [Next]_vars PROVE Bookkeeping'
  OBVIOUS
<1>a. Onward
  BY OnwardNext
<1> USE <1>a DEF Bookkeeping
<1>1. ASSUME NEW r \in Requests, NEW j \in Jobs, CreateJob(r, j)
      PROVE  Bookkeeping'
  <2>1. HeldOK'
    <3>1. Progressed(r)'
      BY <1>1, Parts, ProcessAssumption, ConfigAssumption
         DEF CreateJob, Take, Progressed, Handlers, TypeOK, RowsOK, ProcsOK
    <3> QED
      BY <1>1, <3>1, Parts, HeldTake DEF CreateJob
  <2>2. QueuedOK'
    BY <1>1, QueuedKept DEF CreateJob, taskVars
  <2>3. RecoverOK'
    BY <1>1, RecoverKept DEF CreateJob, apiVars
  <2> QED
    BY <2>1, <2>2, <2>3
<1>2. ASSUME NEW r \in Requests, Enqueue(r) PROVE Bookkeeping'
  <2>1. HeldOK'
    BY <1>2, HeldRest DEF Enqueue
  <2>2. QueuedOK'
    <3>1. task[r] \in Jobs /\ 0 \in 0..MaxRetries
      BY <1>2, Parts, ConfigAssumption, HasJob DEF Enqueue, TypeOK, ProcsOK
    <3>2. status[task[r]] # "absent"
      BY <1>2, Parts DEF Enqueue, HeldOK, Progressed
    <3> QED
      BY <1>2, <3>1, <3>2, QueuedMore DEF Enqueue
  <2>3. RecoverOK'
    BY <1>2, RecoverKept DEF Enqueue, apiVars
  <2> QED
    BY <2>1, <2>2, <2>3
<1>3. ASSUME NEW r \in Requests, EnqueueFails(r) PROVE Bookkeeping'
  <2>1. HeldOK'
    BY <1>3, HeldRest DEF EnqueueFails
  <2>2. QueuedOK'
    <3>1. task[r] \in Jobs /\ 0 \in 0..MaxRetries
      BY <1>3, Parts, ConfigAssumption, HasJob DEF EnqueueFails, TypeOK, ProcsOK
    <3>2. status[task[r]] # "absent"
      BY <1>3, Parts DEF EnqueueFails, HeldOK, Progressed
    <3> QED
      BY <1>3, <3>1, <3>2, QueuedMore, QueuedKept DEF EnqueueFails
  <2>3. RecoverOK'
    BY <1>3, RecoverKept DEF EnqueueFails, apiVars
  <2> QED
    BY <2>1, <2>2, <2>3
<1>4. ASSUME NEW s \in Streams, NEW j \in Jobs, Connect(s, j)
      PROVE  Bookkeeping'
  <2>1. HeldOK'
    <3>1. Progressed(s)'
      BY <1>4, Parts, ProcessAssumption, ConfigAssumption
         DEF Connect, Take, Progressed, Handlers, TypeOK, RowsOK, ProcsOK,
             rowVars
    <3> QED
      BY <1>4, <3>1, Parts, HeldTake DEF Connect
  <2>2. QueuedOK'
    BY <1>4, QueuedKept DEF Connect, taskVars
  <2>3. RecoverOK'
    BY <1>4, RecoverKept DEF Connect, apiVars
  <2> QED
    BY <2>1, <2>2, <2>3
<1>5. ASSUME NEW s \in Streams, StreamGivesUp(s) PROVE Bookkeeping'
  <2>1. HeldOK'
    BY <1>5, HeldRest DEF StreamGivesUp
  <2>2. QueuedOK'
    BY <1>5, QueuedKept DEF StreamGivesUp, taskVars
  <2>3. RecoverOK'
    BY <1>5, RecoverKept DEF StreamGivesUp, apiVars
  <2> QED
    BY <2>1, <2>2, <2>3
<1>6. ASSUME NEW s \in Streams, StreamSendFails(s) PROVE Bookkeeping'
  <2>1. HeldOK'
    <3>1. Progressed(s)
      BY <1>6, Parts DEF StreamSendFails, HeldOK
    <3>2. task[s] \in Jobs
      BY <1>6, Parts, HasJob DEF StreamSendFails, TypeOK
    <3>3. Progressed(s)'
      BY <1>6, <3>1, <3>2, Parts, ProcessAssumption
         DEF StreamSendFails, Progressed, Go, Handlers, TypeOK, RowsOK,
             ProcsOK, rowVars
    <3> QED
      BY <1>6, <3>3, Parts, HeldGo DEF StreamSendFails, Refresh, TypeOK,
         ProcsOK
  <2>2. QueuedOK'
    BY <1>6, QueuedKept DEF StreamSendFails, taskVars
  <2>3. RecoverOK'
    BY <1>6, RecoverKept DEF StreamSendFails, apiVars
  <2> QED
    BY <2>1, <2>2, <2>3
<1>7. ASSUME NEW h \in Handlers, MarkProcessing(h) PROVE Bookkeeping'
  <2>1. HeldOK'
    <3>1. Progressed(h)
      BY <1>7, Parts DEF MarkProcessing, HeldOK
    <3>2. task[h] \in Jobs
      BY <1>7, Parts, HasJob DEF MarkProcessing, TypeOK
    <3>3. Progressed(h)'
      BY <1>7, <3>1, <3>2, Parts, ProcessAssumption
         DEF MarkProcessing, Progressed, Go, Handlers, TypeOK, RowsOK,
             ProcsOK, rowVars, SetStatus, NewStatus, Refresh
    <3> QED
      BY <1>7, <3>3, Parts, HeldGo DEF MarkProcessing, Refresh, TypeOK, ProcsOK
  <2>2. QueuedOK'
    BY <1>7, QueuedKept DEF MarkProcessing, taskVars
  <2>3. RecoverOK'
    BY <1>7, RecoverKept DEF MarkProcessing, apiVars
  <2> QED
    BY <2>1, <2>2, <2>3
<1>8. ASSUME NEW p \in Processes, LoadProfile(p) PROVE Bookkeeping'
  <2>1. HeldOK'
    <3>1. Progressed(p)
      BY <1>8, Parts DEF LoadProfile, HeldOK
    <3>2. task[p] \in Jobs
      BY <1>8, Parts, HasJob DEF LoadProfile, TypeOK
    <3>3. Progressed(p)'
      BY <1>8, <3>1, <3>2, Parts, ProcessAssumption
         DEF LoadProfile, Progressed, Go, Handlers, TypeOK, RowsOK, ProcsOK,
             rowVars
    <3> QED
      BY <1>8, <3>3, Parts, HeldGo DEF LoadProfile, Refresh, TypeOK, ProcsOK
  <2>2. QueuedOK'
    BY <1>8, QueuedKept DEF LoadProfile, taskVars
  <2>3. RecoverOK'
    BY <1>8, RecoverKept DEF LoadProfile, apiVars
  <2> QED
    BY <2>1, <2>2, <2>3
<1>9. ASSUME NEW p \in Processes, RunSucceeds(p) PROVE Bookkeeping'
  <2>1. HeldOK'
    <3>1. Progressed(p)
      BY <1>9, Parts DEF RunSucceeds, HeldOK
    <3>2. task[p] \in Jobs
      BY <1>9, Parts, HasJob DEF RunSucceeds, TypeOK
    <3>3. docs'[p] # {}
      BY <1>9 DEF RunSucceeds, Kinds, TypeOK, ProcsOK
    <3>4. Progressed(p)'
      BY <1>9, <3>1, <3>2, <3>3, Parts, ProcessAssumption
         DEF RunSucceeds, Progressed, Go, Handlers, TypeOK, ProcsOK, rowVars
    <3> QED
      BY <1>9, <3>4, Parts, HeldGo DEF RunSucceeds, Refresh, TypeOK, ProcsOK
  <2>2. QueuedOK'
    BY <1>9, QueuedKept DEF RunSucceeds, taskVars
  <2>3. RecoverOK'
    BY <1>9, RecoverKept DEF RunSucceeds, apiVars
  <2> QED
    BY <2>1, <2>2, <2>3
<1>10. ASSUME NEW p \in Processes, RunFails(p) PROVE Bookkeeping'
  <2>1. HeldOK'
    <3>1. Progressed(p)
      BY <1>10, Parts DEF RunFails, HeldOK
    <3>2. task[p] \in Jobs
      BY <1>10, Parts, HasJob DEF RunFails, TypeOK
    <3>3. Progressed(p)'
      BY <1>10, <3>1, <3>2, Parts, ProcessAssumption
         DEF RunFails, Progressed, Go, Handlers, TypeOK, RowsOK, ProcsOK,
             rowVars
    <3> QED
      BY <1>10, <3>3, Parts, HeldGo DEF RunFails, Refresh, TypeOK, ProcsOK
  <2>2. QueuedOK'
    BY <1>10, QueuedKept DEF RunFails, taskVars
  <2>3. RecoverOK'
    BY <1>10, RecoverKept DEF RunFails, apiVars
  <2> QED
    BY <2>1, <2>2, <2>3
<1>11. ASSUME NEW p \in Processes, Complete(p) PROVE Bookkeeping'
  <2>1. HeldOK'
    <3>1. Progressed(p)
      BY <1>11, Parts DEF Complete, HeldOK
    <3>2. task[p] \in Jobs
      BY <1>11, Parts, HasJob DEF Complete, TypeOK
    <3>3. Progressed(p)'
      BY <1>11, <3>1, <3>2, Parts, ProcessAssumption
         DEF Complete, Progressed, Go, Handlers, TypeOK, RowsOK, ProcsOK,
             rowVars, SetStatus, NewStatus, Refresh
    <3> QED
      BY <1>11, <3>3, Parts, HeldGo DEF Complete, Refresh, TypeOK, ProcsOK
  <2>2. QueuedOK'
    BY <1>11, QueuedKept DEF Complete, taskVars
  <2>3. RecoverOK'
    BY <1>11, RecoverKept DEF Complete, apiVars
  <2> QED
    BY <2>1, <2>2, <2>3
<1>12. ASSUME NEW p \in Processes, Publish(p) PROVE Bookkeeping'
  <2>1. HeldOK'
    <3>1. Progressed(p)
      BY <1>12, Parts DEF Publish, HeldOK
    <3>2. task[p] \in Jobs
      BY <1>12, Parts, HasJob DEF Publish, TypeOK
    <3>3. Progressed(p)'
      BY <1>12, <3>1, <3>2, Parts, ProcessAssumption
         DEF Publish, Progressed, Go, Handlers, TypeOK, RowsOK, ProcsOK,
             rowVars
    <3> QED
      BY <1>12, <3>3, Parts, HeldGo DEF Publish, Refresh, TypeOK, ProcsOK
  <2>2. QueuedOK'
    BY <1>12, QueuedKept DEF Publish, taskVars
  <2>3. RecoverOK'
    BY <1>12, RecoverKept DEF Publish, apiVars
  <2> QED
    BY <2>1, <2>2, <2>3
<1>13. ASSUME NEW h \in Handlers, HandlerFinishes(h) PROVE Bookkeeping'
  <2>1. HeldOK'
    BY <1>13, HeldRest DEF HandlerFinishes
  <2>2. QueuedOK'
    BY <1>13, QueuedKept DEF HandlerFinishes, taskVars
  <2>3. RecoverOK'
    BY <1>13, RecoverKept DEF HandlerFinishes, apiVars
  <2> QED
    BY <2>1, <2>2, <2>3
<1>14. ASSUME NEW h \in Handlers, HandlerFails(h) PROVE Bookkeeping'
  <2>1. HeldOK'
    BY <1>14, HeldRest DEF HandlerFails
  <2>2. QueuedOK'
    BY <1>14, QueuedKept DEF HandlerFails, taskVars
  <2>3. RecoverOK'
    BY <1>14, RecoverKept DEF HandlerFails, apiVars
  <2> QED
    BY <2>1, <2>2, <2>3
<1>15. ASSUME NEW h \in Handlers, HandlerRaises(h) PROVE Bookkeeping'
  <2>1. HeldOK'
    <3>1. Progressed(h)
      BY <1>15, Parts DEF HandlerRaises, HeldOK
    <3>2. task[h] \in Jobs
      BY <1>15, Parts, HasJob DEF HandlerRaises, TypeOK
    <3>3. Progressed(h)'
      BY <1>15, <3>1, <3>2, Parts, ProcessAssumption
         DEF HandlerRaises, Progressed, Go, Handlers, TypeOK, RowsOK,
             ProcsOK, rowVars
    <3> QED
      BY <1>15, <3>3, Parts, HeldGo DEF HandlerRaises, Refresh, TypeOK, ProcsOK
  <2>2. QueuedOK'
    BY <1>15, QueuedKept DEF HandlerRaises, taskVars
  <2>3. RecoverOK'
    BY <1>15, RecoverKept DEF HandlerRaises, apiVars
  <2> QED
    BY <2>1, <2>2, <2>3
<1>16. ASSUME NEW h \in Handlers, HandlerBreaks(h) PROVE Bookkeeping'
  <2>1. HeldOK'
    BY <1>16, HeldRest DEF HandlerBreaks
  <2>2. QueuedOK'
    BY <1>16, QueuedKept DEF HandlerBreaks, taskVars
  <2>3. RecoverOK'
    BY <1>16, RecoverKept DEF HandlerBreaks, apiVars
  <2> QED
    BY <2>1, <2>2, <2>3
<1>17. ASSUME NEW w \in Workers, NEW j \in Jobs, NEW n \in 0..MaxRetries,
              Deliver(w, j, n)
       PROVE  Bookkeeping'
  <2>1. HeldOK'
    <3>1. CASE status[j] = "deleted"
      BY <1>17, <3>1, HeldSame DEF Deliver
    <3>2. CASE status[j] # "deleted"
      <4>1. Progressed(w)'
        BY <1>17, <3>2, Parts, ProcessAssumption
           DEF Deliver, Take, Progressed, Handlers, QueuedOK, TypeOK, RowsOK,
               ProcsOK, rowVars
      <4> QED
        BY <1>17, <3>2, <4>1, Parts, HeldTake DEF Deliver
    <3> QED
      BY <3>1, <3>2
  <2>2. QueuedOK'
    <3> SUFFICES ASSUME NEW i \in Jobs, NEW m \in 0..MaxRetries,
        queue'[i][m] > 0
                 PROVE  status'[i] # "absent"
      BY DEF QueuedOK
    <3>1. CASE i = j
      BY <1>17, <3>1 DEF Deliver, QueuedOK, Onward
    <3>2. CASE i # j
      <4>1. queue'[i] = queue[i]
        BY <1>17, <3>2 DEF Deliver, TypeOK, TasksOK
      <4> QED
        BY <4>1 DEF QueuedOK, Onward
    <3> QED
      BY <3>1, <3>2
  <2>3. RecoverOK'
    BY <1>17, RecoverKept DEF Deliver, apiVars
  <2> QED
    BY <2>1, <2>2, <2>3
<1>18. ASSUME NEW w \in Workers, Acknowledge(w) PROVE Bookkeeping'
  <2>1. HeldOK'
    BY <1>18, HeldRest DEF Acknowledge
  <2>2. QueuedOK'
    BY <1>18, QueuedKept DEF Acknowledge, taskVars
  <2>3. RecoverOK'
    BY <1>18, RecoverKept DEF Acknowledge, apiVars
  <2> QED
    BY <2>1, <2>2, <2>3
<1>19. ASSUME NEW w \in Workers, WorkerFails(w) PROVE Bookkeeping'
  <2>1. HeldOK'
    <3>1. Progressed(w)
      BY <1>19, Parts DEF WorkerFails, HeldOK
    <3>2. task[w] \in Jobs
      BY <1>19, Parts, HasJob DEF WorkerFails, TypeOK
    <3>3. Progressed(w)'
      BY <1>19, <3>1, <3>2, Parts, ProcessAssumption
         DEF WorkerFails, Progressed, Go, Handlers, TypeOK, RowsOK, ProcsOK,
             rowVars, SetStatus, NewStatus, Refresh
    <3> QED
      BY <1>19, <3>3, Parts, HeldGo DEF WorkerFails, Refresh, TypeOK, ProcsOK
  <2>2. QueuedOK'
    BY <1>19, QueuedKept DEF WorkerFails, taskVars
  <2>3. RecoverOK'
    BY <1>19, RecoverKept DEF WorkerFails, apiVars
  <2> QED
    BY <2>1, <2>2, <2>3
<1>20. ASSUME NEW w \in Workers, WorkerRaises(w) PROVE Bookkeeping'
  <2>1. HeldOK'
    <3>1. Progressed(w)
      BY <1>20, Parts DEF WorkerRaises, HeldOK
    <3>2. task[w] \in Jobs
      BY <1>20, Parts, HasJob DEF WorkerRaises, TypeOK
    <3>3. Progressed(w)'
      BY <1>20, <3>1, <3>2, Parts, ProcessAssumption
         DEF WorkerRaises, Progressed, Go, Handlers, TypeOK, RowsOK, ProcsOK, rowVars
    <3> QED
      BY <1>20, <3>3, Parts, HeldGo DEF WorkerRaises
  <2>2. QueuedOK'
    BY <1>20, QueuedKept DEF WorkerRaises, taskVars
  <2>3. RecoverOK'
    BY <1>20, RecoverKept DEF WorkerRaises, apiVars
  <2> QED
    BY <2>1, <2>2, <2>3
<1>21. ASSUME NEW w \in Workers, WorkerRetries(w) PROVE Bookkeeping'
  <2>1. HeldOK'
    <3>1. Progressed(w)
      BY <1>21, Parts DEF WorkerRetries, HeldOK
    <3>2. task[w] \in Jobs
      BY <1>21, Parts, HasJob DEF WorkerRetries, TypeOK
    <3>3. Progressed(w)'
      BY <1>21, <3>1, <3>2, Parts, ProcessAssumption
         DEF WorkerRetries, Progressed, Go, Handlers, TypeOK, RowsOK, ProcsOK, rowVars
    <3> QED
      BY <1>21, <3>3, Parts, HeldGo DEF WorkerRetries
  <2>2. QueuedOK'
    <3>1. task[w] \in Jobs /\ tries[w] + 1 \in 0..MaxRetries
      BY <1>21, Parts, ConfigAssumption, HasJob DEF WorkerRetries, TypeOK,
         ProcsOK
    <3>2. status[task[w]] # "absent"
      BY <1>21, Parts DEF WorkerRetries, HeldOK, Progressed
    <3> QED
      BY <1>21, <3>1, <3>2, QueuedMore DEF WorkerRetries
  <2>3. RecoverOK'
    BY <1>21, RecoverKept DEF WorkerRetries, apiVars
  <2> QED
    BY <2>1, <2>2, <2>3
<1>22. ASSUME NEW w \in Workers, WorkerDies(w) PROVE Bookkeeping'
  <2>1. HeldOK'
    BY <1>22, HeldRest DEF WorkerDies
  <2>2. QueuedOK'
    <3>1. task[w] \in Jobs /\ tries[w] \in 0..MaxRetries
      BY <1>22, Parts, ConfigAssumption, HasJob DEF WorkerDies, TypeOK, ProcsOK
    <3>2. status[task[w]] # "absent"
      BY <1>22, Parts DEF WorkerDies, HeldOK, Progressed
    <3> QED
      BY <1>22, <3>1, <3>2, QueuedMore DEF WorkerDies
  <2>3. RecoverOK'
    BY <1>22, RecoverKept DEF WorkerDies, apiVars
  <2> QED
    BY <2>1, <2>2, <2>3
<1>23. ASSUME ApiDies PROVE Bookkeeping'
  <2>1. HeldOK'
    BY <1>23, HeldRest DEF ApiDies
  <2>2. QueuedOK'
    BY <1>23, QueuedKept DEF ApiDies, taskVars
  <2>3. RecoverOK'
    BY <1>23 DEF ApiDies, RecoverOK
  <2> QED
    BY <2>1, <2>2, <2>3
<1>24. ASSUME ApiStarts PROVE Bookkeeping'
  <2>1. HeldOK'
    BY <1>24, HeldSame DEF ApiStarts
  <2>2. QueuedOK'
    BY <1>24, QueuedKept DEF ApiStarts, taskVars
  <2>3. RecoverOK'
    BY <1>24 DEF ApiStarts, Stuck, RecoverOK, rowVars
  <2> QED
    BY <2>1, <2>2, <2>3
<1>25. ASSUME NEW j \in Jobs, RecoverJob(j) PROVE Bookkeeping'
  <2>1. HeldOK'
    BY <1>25, HeldSame DEF RecoverJob
  <2>2. QueuedOK'
    BY <1>25, ConfigAssumption, QueuedMore DEF RecoverJob, RecoverOK
  <2>3. RecoverOK'
    BY <1>25, RecoverKept DEF RecoverJob
  <2> QED
    BY <2>1, <2>2, <2>3
<1>26. ASSUME RecoveryDone PROVE Bookkeeping'
  <2>1. HeldOK'
    BY <1>26, HeldSame DEF RecoveryDone
  <2>2. QueuedOK'
    BY <1>26, QueuedKept DEF RecoveryDone, taskVars
  <2>3. RecoverOK'
    BY <1>26, RecoverKept DEF RecoveryDone, apiVars
  <2> QED
    BY <2>1, <2>2, <2>3
<1>27. ASSUME RecoverySkipped PROVE Bookkeeping'
  <2>1. HeldOK'
    BY <1>27, HeldSame DEF RecoverySkipped
  <2>2. QueuedOK'
    BY <1>27, QueuedKept DEF RecoverySkipped, taskVars
  <2>3. RecoverOK'
    BY <1>27 DEF RecoverySkipped, RecoverOK
  <2> QED
    BY <2>1, <2>2, <2>3
<1>28. ASSUME DeleteProfile PROVE Bookkeeping'
  <2>1. HeldOK'
    BY <1>28, HeldSame DEF DeleteProfile
  <2>2. QueuedOK'
    BY <1>28, QueuedKept DEF DeleteProfile, taskVars
  <2>3. RecoverOK'
    BY <1>28, RecoverKept DEF DeleteProfile, apiVars
  <2> QED
    BY <2>1, <2>2, <2>3
<1>29. CASE UNCHANGED vars
  BY <1>29, HeldSame, QueuedKept, RecoverKept DEF vars, taskVars, apiVars
<1> QED
  BY <1>1, <1>2, <1>3, <1>4, <1>5, <1>6, <1>7, <1>8, <1>9, <1>10, <1>11,
     <1>12, <1>13, <1>14, <1>15, <1>16, <1>17, <1>18, <1>19, <1>20, <1>21,
     <1>22, <1>23, <1>24, <1>25, <1>26, <1>27, <1>28, <1>29
     DEF Next, RequestStep, StreamStep, HandlerStep, WorkerStep, RunStep,
         ApiStep, Deliveries, Handlers, Processes

-----------------------------------------------------------------------------
(* No pending job is lost.                                                 *)

\* What a step leaves to a job that stays 'pending': no message and no
\* FAILURE of it disappears, and its status was 'pending' already.
Undisturbed(j) ==
  /\ status'[j] = "pending" => status[j] = "pending"
  /\ Queued(j) => Queued(j)'
  /\ j \in failedTasks => j \in failedTasks'

\* Nobody moves.
LEMMA LostSame ==
  ASSUME NoPendingJobLost, UNCHANGED <<pc, task, api, toRecover, told>>,
         \A j \in Jobs : Undisturbed(j)
  PROVE  NoPendingJobLost'
BY DEF NoPendingJobLost, Undisturbed, InFlight, RunBy

\* Nobody rests, takes a job or settles one.
LEMMA LostGo ==
  ASSUME TypeOK, NoPendingJobLost, UNCHANGED <<apiVars, told>>,
         NEW p \in Processes, NEW step, step # "settled", Go(p, step),
         \A j \in Jobs : Undisturbed(j)
  PROVE  NoPendingJobLost'
<1>1. \A q \in Processes :
        task'[q] = task[q] /\ (pc[q] # "settled" => pc'[q] # "settled")
  BY DEF Go, TypeOK, ProcsOK
<1> QED
  BY <1>1, Parts DEF NoPendingJobLost, Undisturbed, InFlight, RunBy, apiVars

\* Process x settles its job, which is queued again or has failed.
LEMMA LostSettle ==
  ASSUME TypeOK, NoPendingJobLost, UNCHANGED <<apiVars, told>>,
         NEW x \in Processes, NEW i \in Jobs, task[x] = i, Go(x, "settled"),
         \A j \in Jobs : Undisturbed(j),
         Queued(i)' \/ i \in failedTasks'
  PROVE  NoPendingJobLost'
<1> SUFFICES ASSUME NEW j \in Jobs, status'[j] = "pending",
                    api' \in {"up", "recovering"}
             PROVE  \/ InFlight(j)' \/ j \in toRecover'
                    \/ j \in failedTasks' \/ told'[j] = "error"
  BY DEF NoPendingJobLost
<1>1. \A q \in Processes \ {x} : task'[q] = task[q] /\ pc'[q] = pc[q]
  BY DEF Go, TypeOK, ProcsOK
<1>2. CASE j = i
  BY <1>2 DEF InFlight
<1>3. CASE j # i
  BY <1>1, <1>3, Parts
     DEF NoPendingJobLost, Undisturbed, InFlight, RunBy, apiVars
<1> QED
  BY <1>2, <1>3

\* Process x rests: every other job keeps what it had, and its own job must
\* be provided for.
LEMMA LostRest ==
  ASSUME TypeOK, NoPendingJobLost, NEW x \in Processes, NEW i \in Jobs,
         task[x] = i, Rest({x}), UNCHANGED apiVars,
         \A j \in Jobs : Undisturbed(j),
         \A j \in Jobs \ {i} : told'[j] = told[j],
         \/ status'[i] # "pending"
         \/ Queued(i)'
         \/ i \in failedTasks'
         \/ told'[i] = "error"
         \/ UNCHANGED told /\ (x \in Streams \/ pc[x] = "settled")
  PROVE  NoPendingJobLost'
<1> SUFFICES ASSUME NEW j \in Jobs, status'[j] = "pending",
                    api' \in {"up", "recovering"}
             PROVE  \/ InFlight(j)' \/ j \in toRecover'
                    \/ j \in failedTasks' \/ told'[j] = "error"
  BY DEF NoPendingJobLost
<1>1. \/ InFlight(j) \/ j \in toRecover
      \/ j \in failedTasks \/ told[j] = "error"
  BY DEF NoPendingJobLost, Undisturbed, apiVars
<1>2. \A q \in Processes \ {x} : task'[q] = task[q] /\ pc'[q] = pc[q]
  BY DEF Rest
<1>3. CASE j = i
  <2>1. CASE UNCHANGED told /\ (x \in Streams \/ pc[x] = "settled")
    <3>1. pc[x] # "settled" => x \notin Workers /\ x \notin Requests
      BY <2>1, ProcessAssumption
    <3> QED
      BY <1>1, <1>2, <2>1, <3>1, Parts DEF Undisturbed, InFlight, RunBy,
         apiVars
  <2> QED
    BY <1>3, <2>1 DEF InFlight
<1>4. CASE j # i
  BY <1>1, <1>2, <1>4, Parts DEF Undisturbed, InFlight, RunBy, apiVars
<1> QED
  BY <1>3, <1>4

\* A process takes job i, with its message if it is a worker.
LEMMA LostTake ==
  ASSUME TypeOK, NoPendingJobLost, NEW p \in Processes, NEW i \in Jobs, NEW n,
         NEW cached, NEW step, step # "settled", Take(p, i, n, cached, step),
         UNCHANGED <<apiVars, told>>,
         \A j \in Jobs \ {i} : Undisturbed(j),
         Undisturbed(i) \/ p \in Workers \/ p \in Requests
  PROVE  NoPendingJobLost'
<1> SUFFICES ASSUME NEW j \in Jobs, status'[j] = "pending",
                    api' \in {"up", "recovering"}
             PROVE  \/ InFlight(j)' \/ j \in toRecover'
                    \/ j \in failedTasks' \/ told'[j] = "error"
  BY DEF NoPendingJobLost
<1>1. \A q \in Processes :
        task[q] \in Jobs => task'[q] = task[q] /\ pc'[q] = pc[q]
  BY ProcessAssumption DEF Take, TypeOK, ProcsOK
<1>2. task'[p] = i /\ pc'[p] # "settled"
  BY DEF Take, TypeOK, ProcsOK
<1>3. CASE Undisturbed(j)
  BY <1>1, <1>3, Parts DEF NoPendingJobLost, Undisturbed, InFlight, RunBy,
     apiVars
<1>4. CASE j = i /\ (p \in Workers \/ p \in Requests)
  BY <1>2, <1>4 DEF InFlight, RunBy
<1> QED
  BY <1>3, <1>4

LEMMA MoreQueued ==
  ASSUME TypeOK, NEW j \in Jobs, NEW n \in 0..MaxRetries, WithMessage(j, n)
  PROVE  Queued(j)' /\ \A i \in Jobs : Queued(i) => Queued(i)'
<1>1. queue'[j][n] = queue[j][n] + 1 /\ queue[j][n] \in Nat
  BY DEF WithMessage, TypeOK, TasksOK
<1>2. \A i \in Jobs \ {j} : queue'[i] = queue[i]
  BY DEF WithMessage, TypeOK, TasksOK
<1>3. Queued(j)'
  <2>1. queue'[j][n] > 0
    BY <1>1
  <2> QED
    BY <2>1 DEF Queued
<1> QED
  BY <1>2, <1>3 DEF Queued

\* Whether or not a failed delay() left a message, none is lost.
LEMMA EnqueueKeeps ==
  ASSUME TypeOK, NEW r \in Requests, EnqueueFails(r)
  PROVE  \A i \in Jobs : Queued(i) => Queued(i)'
<1>1. task[r] \in Jobs /\ 0 \in 0..MaxRetries
  BY Parts, ConfigAssumption, HasJob DEF EnqueueFails, TypeOK, ProcsOK
<1> QED
  BY <1>1, MoreQueued DEF EnqueueFails, Queued

\* Once past its first commit, and in an inline or stream handler once past
\* "mark", a process keeps its job from being 'pending'.
LEMMA NotPending ==
  ASSUME HeldOK, Onward, NEW p \in Processes, pc[p] # "idle",
         task[p] \in Jobs,
         \/ pc[p] \in {"publish", "finish"}
         \/ p \in Handlers /\ pc[p] \notin {"enqueue", "mark"}
  PROVE  status'[task[p]] # "pending"
BY DEF HeldOK, Progressed, Onward

LEMMA LostInit == Init => NoPendingJobLost
BY DEF Init, NoPendingJobLost

LEMMA SetPending ==
  ASSUME TypeOK, NEW p \in Processes, pc[p] # "idle",
         NEW new \in {"processing", "completed", "failed"}, SetStatus(p, new)
  PROVE  \A j \in Jobs : status'[j] = "pending" => status[j] = "pending"
<1>1. task[p] \in Jobs
  BY HasJob DEF TypeOK
<1> QED
  BY <1>1 DEF TypeOK, RowsOK, SetStatus, NewStatus

LEMMA LostNext ==
  TypeOK /\ Bookkeeping /\ NoPendingJobLost /\ [Next]_vars => NoPendingJobLost'
<1> SUFFICES ASSUME TypeOK, Bookkeeping, NoPendingJobLost, [Next]_vars
             PROVE  NoPendingJobLost'
  OBVIOUS
<1>a. Onward
  BY OnwardNext
<1>1. ASSUME NEW r \in Requests, NEW j \in Jobs, CreateJob(r, j)
      PROVE  NoPendingJobLost'
  <2>1. \A i \in Jobs \ {j} : Undisturbed(i)
    BY <1>1 DEF CreateJob, Undisturbed, Queued, taskVars, TypeOK, RowsOK
  <2> QED
    BY <1>1, <2>1, Parts, LostTake DEF CreateJob
<1>2. ASSUME NEW r \in Requests, Enqueue(r) PROVE NoPendingJobLost'
  <2>1. \A i \in Jobs : Undisturbed(i)
    <3>1. task[r] \in Jobs /\ 0 \in 0..MaxRetries
      BY <1>2, Parts, ConfigAssumption, HasJob DEF Enqueue, TypeOK, ProcsOK
    <3> QED
      BY <1>2, <3>1, MoreQueued DEF Enqueue, Undisturbed, rowVars
  <2>2. PICK i \in Jobs : task[r] = i /\ pc[r] # "idle"
    BY <1>2, Parts, HasJob DEF Enqueue, TypeOK
  <2>3. \A k \in Jobs \ {i} : told'[k] = told[k]
    BY <1>2, <2>2 DEF Enqueue, Reply, Tell, TypeOK, ApiOK
  <2>4. Queued(i)'
    <3>1. 0 \in 0..MaxRetries
      BY <1>2, Parts, ConfigAssumption DEF Enqueue, TypeOK, ProcsOK
    <3> QED
      BY <1>2, <2>2, <3>1, MoreQueued DEF Enqueue
  <2> QED
    BY <1>2, <2>1, <2>2, <2>3, <2>4, Parts, LostRest DEF Enqueue
<1>3. ASSUME NEW r \in Requests, EnqueueFails(r) PROVE NoPendingJobLost'
  <2>1. \A i \in Jobs : Undisturbed(i)
    BY <1>3, Parts, EnqueueKeeps DEF EnqueueFails, Undisturbed, rowVars
  <2>2. PICK i \in Jobs : task[r] = i /\ pc[r] # "idle"
    BY <1>3, Parts, HasJob DEF EnqueueFails, TypeOK
  <2>3. \A k \in Jobs \ {i} : told'[k] = told[k]
    BY <1>3, <2>2 DEF EnqueueFails, Reply, Tell, TypeOK, ApiOK
  <2>4. told'[i] = "error"
    BY <1>3, <2>2 DEF EnqueueFails, Tell, TypeOK, ApiOK
  <2> QED
    BY <1>3, <2>1, <2>2, <2>3, <2>4, Parts, LostRest DEF EnqueueFails
<1>4. ASSUME NEW s \in Streams, NEW j \in Jobs, Connect(s, j)
      PROVE  NoPendingJobLost'
  <2>1. \A i \in Jobs : Undisturbed(i)
    BY <1>4, <1>a DEF Connect, Undisturbed, Queued, rowVars, taskVars
  <2> QED
    BY <1>4, <2>1, Parts, LostTake DEF Connect
<1>5. ASSUME NEW s \in Streams, StreamGivesUp(s) PROVE NoPendingJobLost'
  <2>1. \A i \in Jobs : Undisturbed(i)
    BY <1>5, <1>a DEF StreamGivesUp, Undisturbed, Queued, rowVars, taskVars
  <2>2. PICK i \in Jobs : task[s] = i /\ pc[s] # "idle"
    BY <1>5, Parts, HasJob DEF StreamGivesUp, TypeOK
  <2>3. \A k \in Jobs \ {i} : told'[k] = told[k]
    BY <1>5 DEF StreamGivesUp
  <2>4. s \in Streams /\ UNCHANGED told
    BY <1>5 DEF StreamGivesUp
  <2> QED
    BY <1>5, <2>1, <2>2, <2>3, <2>4, Parts, LostRest DEF StreamGivesUp
<1>6. ASSUME NEW s \in Streams, StreamSendFails(s) PROVE NoPendingJobLost'
  <2>1. \A i \in Jobs : Undisturbed(i)
    BY <1>6, <1>a DEF StreamSendFails, Undisturbed, Queued, rowVars, taskVars
  <2> QED
    BY <1>6, <2>1, Parts, LostGo DEF StreamSendFails
<1>7. ASSUME NEW h \in Handlers, MarkProcessing(h) PROVE NoPendingJobLost'
  <2>1. \A i \in Jobs : Undisturbed(i)
    BY <1>7, <1>a, Parts, SetPending DEF MarkProcessing, Undisturbed, Queued,
       taskVars
  <2> QED
    BY <1>7, <2>1, Parts, LostGo DEF MarkProcessing
<1>8. ASSUME NEW p \in Processes, LoadProfile(p) PROVE NoPendingJobLost'
  <2>1. \A i \in Jobs : Undisturbed(i)
    BY <1>8, <1>a DEF LoadProfile, Undisturbed, Queued, rowVars, taskVars
  <2> QED
    BY <1>8, <2>1, Parts, LostGo DEF LoadProfile
<1>9. ASSUME NEW p \in Processes, RunSucceeds(p) PROVE NoPendingJobLost'
  <2>1. \A i \in Jobs : Undisturbed(i)
    BY <1>9, <1>a DEF RunSucceeds, Undisturbed, Queued, rowVars, taskVars
  <2> QED
    BY <1>9, <2>1, Parts, LostGo DEF RunSucceeds
<1>10. ASSUME NEW p \in Processes, RunFails(p) PROVE NoPendingJobLost'
  <2>1. \A i \in Jobs : Undisturbed(i)
    BY <1>10, <1>a DEF RunFails, Undisturbed, Queued, rowVars, taskVars
  <2> QED
    BY <1>10, <2>1, Parts, LostGo DEF RunFails
<1>11. ASSUME NEW p \in Processes, Complete(p) PROVE NoPendingJobLost'
  <2>1. \A i \in Jobs : Undisturbed(i)
    BY <1>11, <1>a, Parts, SetPending DEF Complete, Undisturbed, Queued,
       taskVars
  <2> QED
    BY <1>11, <2>1, Parts, LostGo DEF Complete
<1>12. ASSUME NEW p \in Processes, Publish(p) PROVE NoPendingJobLost'
  <2>1. \A i \in Jobs : Undisturbed(i)
    BY <1>12, <1>a DEF Publish, Undisturbed, Queued, rowVars, taskVars
  <2> QED
    BY <1>12, <2>1, Parts, LostGo DEF Publish
<1>13. ASSUME NEW h \in Handlers, HandlerFinishes(h) PROVE NoPendingJobLost'
  <2>1. \A i \in Jobs : Undisturbed(i)
    BY <1>13, <1>a DEF HandlerFinishes, Undisturbed, Queued, rowVars, taskVars
  <2>2. PICK i \in Jobs : task[h] = i /\ pc[h] # "idle"
    BY <1>13, Parts, HasJob DEF HandlerFinishes, TypeOK
  <2>3. \A k \in Jobs \ {i} : told'[k] = told[k]
    BY <1>13, <2>2 DEF HandlerFinishes, Reply, Tell, TypeOK, ApiOK
  <2>4. status'[i] # "pending"
    BY <1>13, <1>a, <2>2, Parts, NotPending DEF HandlerFinishes, Bookkeeping
  <2> QED
    BY <1>13, <2>1, <2>2, <2>3, <2>4, Parts, LostRest DEF HandlerFinishes
<1>14. ASSUME NEW h \in Handlers, HandlerFails(h) PROVE NoPendingJobLost'
  <2>1. \A i \in Jobs : Undisturbed(i)
    BY <1>14, <1>a, Parts, SetPending DEF HandlerFails, Undisturbed, Queued,
       taskVars
  <2>2. PICK i \in Jobs : task[h] = i /\ pc[h] # "idle"
    BY <1>14, Parts, HasJob DEF HandlerFails, TypeOK
  <2>3. \A k \in Jobs \ {i} : told'[k] = told[k]
    BY <1>14, <2>2 DEF HandlerFails, Reply, Tell, TypeOK, ApiOK
  <2>4. status'[i] # "pending"
    BY <1>14, <1>a, <2>2, Parts, NotPending DEF HandlerFails, Bookkeeping
  <2> QED
    BY <1>14, <2>1, <2>2, <2>3, <2>4, Parts, LostRest DEF HandlerFails
<1>15. ASSUME NEW h \in Handlers, HandlerRaises(h) PROVE NoPendingJobLost'
  <2>1. \A i \in Jobs : Undisturbed(i)
    BY <1>15, <1>a DEF HandlerRaises, Undisturbed, Queued, rowVars, taskVars
  <2> QED
    BY <1>15, <2>1, Parts, LostGo DEF HandlerRaises
<1>16. ASSUME NEW h \in Handlers, HandlerBreaks(h) PROVE NoPendingJobLost'
  <2>1. \A i \in Jobs : Undisturbed(i)
    BY <1>16, <1>a DEF HandlerBreaks, Undisturbed, Queued, rowVars, taskVars
  <2>2. PICK i \in Jobs : task[h] = i /\ pc[h] # "idle"
    BY <1>16, Parts, HasJob DEF HandlerBreaks, TypeOK
  <2>3. \A k \in Jobs \ {i} : told'[k] = told[k]
    BY <1>16, <2>2 DEF HandlerBreaks, Reply, Tell, TypeOK, ApiOK
  <2>4. \/ told'[i] = "error"
        \/ h \in Streams /\ UNCHANGED told
    BY <1>16, <2>2 DEF HandlerBreaks, Reply, Tell, Handlers, TypeOK, ApiOK
  <2> QED
    BY <1>16, <2>1, <2>2, <2>3, <2>4, Parts, LostRest DEF HandlerBreaks
<1>17. ASSUME NEW w \in Workers, NEW j \in Jobs, NEW n \in 0..MaxRetries,
              Deliver(w, j, n)
       PROVE  NoPendingJobLost'
  <2>1. \A i \in Jobs \ {j} : Undisturbed(i)
    BY <1>17 DEF Deliver, Undisturbed, Queued, rowVars, TypeOK, TasksOK
  <2>2. CASE status[j] = "deleted"
    BY <1>17, <2>1, <2>2
       DEF Deliver, NoPendingJobLost, Undisturbed, InFlight, RunBy, rowVars,
           procVars, apiVars
  <2>3. CASE status[j] # "deleted"
    BY <1>17, <2>1, <2>3, Parts, LostTake DEF Deliver
  <2> QED
    BY <2>2, <2>3
<1>18. ASSUME NEW w \in Workers, Acknowledge(w) PROVE NoPendingJobLost'
  <2>1. \A i \in Jobs : Undisturbed(i)
    BY <1>18, <1>a DEF Acknowledge, Undisturbed, Queued, rowVars, taskVars
  <2>2. PICK i \in Jobs : task[w] = i /\ pc[w] # "idle"
    BY <1>18, Parts, HasJob DEF Acknowledge, TypeOK
  <2>3. \A k \in Jobs \ {i} : told'[k] = told[k]
    BY <1>18 DEF Acknowledge
  <2>4. status'[i] # "pending" \/ pc[w] = "settled"
    BY <1>18, <1>a, <2>2, Parts, NotPending DEF Acknowledge, Bookkeeping
  <2> QED
    BY <1>18, <2>1, <2>2, <2>3, <2>4, Parts, LostRest DEF Acknowledge
<1>19. ASSUME NEW w \in Workers, WorkerFails(w) PROVE NoPendingJobLost'
  <2>1. \A i \in Jobs : Undisturbed(i)
    BY <1>19, <1>a, Parts, SetPending DEF WorkerFails, Undisturbed, Queued,
       taskVars
  <2> QED
    BY <1>19, <2>1, Parts, LostGo DEF WorkerFails
<1>20. ASSUME NEW w \in Workers, WorkerRaises(w) PROVE NoPendingJobLost'
  <2>1. \A i \in Jobs : Undisturbed(i)
    BY <1>20 DEF WorkerRaises, Undisturbed, Queued, rowVars
  <2>2. PICK i \in Jobs : task[w] = i /\ pc[w] # "idle"
    BY <1>20, Parts, HasJob DEF WorkerRaises, TypeOK
  <2>4. i \in failedTasks'
    BY <1>20, <2>2 DEF WorkerRaises
  <2> QED
    BY <1>20, <2>1, <2>2, <2>4, Parts, LostSettle DEF WorkerRaises
<1>21. ASSUME NEW w \in Workers, WorkerRetries(w) PROVE NoPendingJobLost'
  <2>1. \A i \in Jobs : Undisturbed(i)
    <3>1. task[w] \in Jobs /\ tries[w] + 1 \in 0..MaxRetries
      BY <1>21, Parts, ConfigAssumption, HasJob DEF WorkerRetries, TypeOK,
         ProcsOK
    <3> QED
      BY <1>21, <3>1, MoreQueued DEF WorkerRetries, Undisturbed, rowVars
  <2>2. PICK i \in Jobs : task[w] = i /\ pc[w] # "idle"
    BY <1>21, Parts, HasJob DEF WorkerRetries, TypeOK
  <2>4. Queued(i)'
    <3>1. tries[w] + 1 \in 0..MaxRetries
      BY <1>21, Parts, ConfigAssumption DEF WorkerRetries, TypeOK, ProcsOK
    <3> QED
      BY <1>21, <2>2, <3>1, MoreQueued DEF WorkerRetries
  <2> QED
    BY <1>21, <2>1, <2>2, <2>4, Parts, LostSettle DEF WorkerRetries
<1>22. ASSUME NEW w \in Workers, WorkerDies(w) PROVE NoPendingJobLost'
  <2>1. \A i \in Jobs : Undisturbed(i)
    <3>1. task[w] \in Jobs /\ tries[w] \in 0..MaxRetries
      BY <1>22, Parts, ConfigAssumption, HasJob DEF WorkerDies, TypeOK, ProcsOK
    <3> QED
      BY <1>22, <3>1, MoreQueued DEF WorkerDies, Undisturbed, rowVars
  <2>2. PICK i \in Jobs : task[w] = i /\ pc[w] # "idle"
    BY <1>22, Parts, HasJob DEF WorkerDies, TypeOK
  <2>3. \A k \in Jobs \ {i} : told'[k] = told[k]
    BY <1>22 DEF WorkerDies
  <2>4. Queued(i)'
    <3>1. tries[w] \in 0..MaxRetries
      BY <1>22, Parts, ConfigAssumption DEF WorkerDies, TypeOK, ProcsOK
    <3> QED
      BY <1>22, <2>2, <3>1, MoreQueued DEF WorkerDies
  <2> QED
    BY <1>22, <2>1, <2>2, <2>3, <2>4, Parts, LostRest DEF WorkerDies
<1>23. ASSUME ApiDies PROVE NoPendingJobLost'
  BY <1>23 DEF ApiDies, NoPendingJobLost
<1>24. ASSUME ApiStarts PROVE NoPendingJobLost'
  BY <1>24 DEF ApiStarts, NoPendingJobLost, Stuck, rowVars
<1>25. ASSUME NEW j \in Jobs, RecoverJob(j) PROVE NoPendingJobLost'
  <2>1. Queued(j)' /\ \A i \in Jobs : Queued(i) => Queued(i)'
    BY <1>25, ConfigAssumption, MoreQueued DEF RecoverJob
  <2> QED
    BY <1>25, <2>1 DEF RecoverJob, NoPendingJobLost, InFlight, RunBy,
       rowVars, procVars
<1>26. ASSUME RecoveryDone PROVE NoPendingJobLost'
  BY <1>26 DEF RecoveryDone, NoPendingJobLost, InFlight, Queued, RunBy,
     rowVars, procVars, taskVars
<1>27. ASSUME RecoverySkipped PROVE NoPendingJobLost'
  BY <1>27 DEF RecoverySkipped, NoPendingJobLost
<1>28. ASSUME DeleteProfile PROVE NoPendingJobLost'
  <2>1. \A i \in Jobs : Undisturbed(i)
    BY <1>28 DEF DeleteProfile, Existing, Undisturbed, Queued, taskVars
  <2> QED
    BY <1>28, <2>1, LostSame DEF DeleteProfile, procVars, apiVars
<1>29. CASE UNCHANGED vars
  BY <1>29 DEF vars, NoPendingJobLost, InFlight, Queued, RunBy, rowVars,
     procVars,
            taskVars, apiVars
<1> QED
  BY <1>1, <1>2, <1>3, <1>4, <1>5, <1>6, <1>7, <1>8, <1>9, <1>10, <1>11,
     <1>12, <1>13, <1>14, <1>15, <1>16, <1>17, <1>18, <1>19, <1>20, <1>21,
     <1>22, <1>23, <1>24, <1>25, <1>26, <1>27, <1>28, <1>29
     DEF Next, RequestStep, StreamStep, HandlerStep, WorkerStep, RunStep,
         ApiStep, Deliveries, Handlers, Processes

\* No pending job is lost, whatever the numbers of jobs, workers, handlers and
\* streams, the faults, the retries and the restarts: the promise that
\* tasks.py makes with late acknowledgement, retries and startup recovery.
THEOREM PendingNeverLost == Spec => []NoPendingJobLost
<1>1. Init => TypeOK /\ Bookkeeping /\ NoPendingJobLost
  BY TypeInit, BookInit, LostInit
<1>2. TypeOK /\ Bookkeeping /\ NoPendingJobLost /\ [Next]_vars
        => (TypeOK /\ Bookkeeping /\ NoPendingJobLost)'
  BY TypeNext, BookNext, LostNext
<1> QED
  BY <1>1, <1>2, PTL DEF Spec

-----------------------------------------------------------------------------
(* A 'completed' without documents is answered for.                        *)

\* Nobody moves, nothing is consumed.
LEMMA AnswersSame ==
  ASSUME CompletedIsAnswered, UNCHANGED <<procVars, restarts>>,
         \A j \in Jobs : Queued(j) => Queued(j)',
         failedTasks \subseteq failedTasks',
         \A j \in Jobs : Bare(j)' => Bare(j)
  PROVE  CompletedIsAnswered'
BY DEF CompletedIsAnswered, RunsAreSafe, Backed, Answers, procVars

\* Only process x moves, and it runs job i or none.  Every other job keeps
\* who answered for it; job i is another's, or is answered for afterwards.
LEMMA AnswersMove ==
  ASSUME TypeOK, CompletedIsAnswered, UNCHANGED restarts,
         NEW x \in Processes, NEW i \in Jobs, task[x] \in {i, NoJob},
         \A q \in Processes \ {x} :
           pc'[q] = pc[q] /\ task'[q] = task[q] /\ seen'[q] = seen[q],
         \A j \in Jobs \ {i} : Queued(j) => Queued(j)',
         failedTasks \subseteq failedTasks',
         \A j \in Jobs \ {i} : Bare(j)' => Bare(j),
         Bare(i)' /\ RunsAreSafe
           => \/ Bare(i) /\ ~Answers(x, i) /\ (Queued(i) => Queued(i)')
              \/ Backed(i)'
  PROVE  CompletedIsAnswered'
<1> SUFFICES ASSUME NEW j \in Jobs, Bare(j)', RunsAreSafe PROVE Backed(j)'
  BY DEF CompletedIsAnswered, RunsAreSafe
<1>1. ASSUME NEW q \in Processes, q # x, Answers(q, j) PROVE Answers(q, j)'
  BY <1>1 DEF Answers
<1>2. CASE j = i
  BY <1>1, <1>2 DEF CompletedIsAnswered, Backed
<1>3. CASE j # i
  <2>1. Backed(j)
    BY <1>3 DEF CompletedIsAnswered
  <2>2. ~Answers(x, j)
    BY <1>3, ProcessAssumption DEF Answers
  <2> QED
    BY <1>1, <1>3, <2>1, <2>2 DEF Backed
<1> QED
  BY <1>2, <1>3

\* A status commit changes the status of no other job, and leaves its own
\* job the new status unless the session had it cached or the row is gone.
LEMMA SetStatusEffect ==
  ASSUME TypeOK, NEW p \in Processes, NEW i \in Jobs, task[p] = i,
         NEW new \in {"processing", "completed", "failed"}, SetStatus(p, new)
  PROVE  /\ \A j \in Jobs \ {i} : status'[j] = status[j]
         /\ status'[i] = NewStatus(p, new)
         /\ status[i] = "deleted" => status'[i] = "deleted"
         /\ seen[p] = new => status'[i] = status[i]
         /\ seen[p] # new /\ status[i] # "deleted" => status'[i] = new
BY DEF TypeOK, RowsOK, SetStatus, NewStatus

\* In Celery mode a request handler only enqueues.
LEMMA RequestsEnqueue ==
  ASSUME HeldOK, UseCelery, NEW r \in Requests, pc[r] # "idle"
  PROVE  pc[r] = "enqueue"
BY Parts DEF HeldOK, Progressed

LEMMA AnswersInit == Init => CompletedIsAnswered
BY DEF Init, CompletedIsAnswered, Bare

LEMMA AnswersNext ==
  TypeOK /\ Bookkeeping /\ CompletedIsAnswered /\ [Next]_vars
    => CompletedIsAnswered'
<1> SUFFICES ASSUME TypeOK, Bookkeeping, CompletedIsAnswered, [Next]_vars
             PROVE  CompletedIsAnswered'
  OBVIOUS
<1> USE DEF Bookkeeping
<1>1. ASSUME NEW r \in Requests, NEW j \in Jobs, CreateJob(r, j)
      PROVE  CompletedIsAnswered'
  <2>1. task[r] = NoJob
    BY <1>1, Parts DEF CreateJob, Take, TypeOK, ProcsOK
  <2>2. \A q \in Processes \ {r} :
          pc'[q] = pc[q] /\ task'[q] = task[q] /\ seen'[q] = seen[q]
    BY <1>1, Parts DEF CreateJob, Take, TypeOK, ProcsOK
  <2>3. \A k \in Jobs \ {j} : Queued(k) => Queued(k)'
    BY <1>1 DEF CreateJob, Queued, taskVars
  <2>4. \A k \in Jobs \ {j} : Bare(k)' => Bare(k)
    BY <1>1, <2>1 DEF CreateJob, Bare, TypeOK, RowsOK
  <2>5. failedTasks \subseteq failedTasks'
    BY <1>1 DEF CreateJob, taskVars
  <2>6. Bare(j)' /\ RunsAreSafe
          => \/ Bare(j) /\ ~Answers(r, j) /\ (Queued(j) => Queued(j)')
             \/ Backed(j)'
    BY <1>1, <2>1 DEF CreateJob, Bare, TypeOK, RowsOK
  <2> QED
    BY <1>1, <2>1, <2>2, <2>3, <2>4, <2>5, <2>6, Parts, AnswersMove
       DEF CreateJob, countVars
<1>2. ASSUME NEW r \in Requests, Enqueue(r) PROVE CompletedIsAnswered'
  <2>1. PICK i \in Jobs : task[r] = i
    BY <1>2, Parts, HasJob DEF Enqueue, TypeOK
  <2>2. \A q \in Processes \ {r} :
          pc'[q] = pc[q] /\ task'[q] = task[q] /\ seen'[q] = seen[q]
    BY <1>2, Parts DEF Enqueue, Go, Rest, Refresh, TypeOK, ProcsOK
  <2>3. \A k \in Jobs \ {i} : Queued(k) => Queued(k)'
    BY <1>2, <2>1, ConfigAssumption, MoreQueued DEF Enqueue
  <2>4. \A k \in Jobs \ {i} : Bare(k)' => Bare(k)
    BY <1>2 DEF Enqueue, Bare, rowVars
  <2>5. failedTasks \subseteq failedTasks'
    BY <1>2 DEF Enqueue, taskVars
  <2>6. Bare(i)' /\ RunsAreSafe
          => \/ Bare(i) /\ ~Answers(r, i) /\ (Queued(i) => Queued(i)')
             \/ Backed(i)'
    <3>1. Queued(i)'
      BY <1>2, <2>1, ConfigAssumption, MoreQueued DEF Enqueue
    <3> QED
      BY <3>1 DEF Backed
  <2> QED
    BY <1>2, <2>1, <2>2, <2>3, <2>4, <2>5, <2>6, Parts, AnswersMove
       DEF Enqueue, countVars
<1>3. ASSUME NEW r \in Requests, EnqueueFails(r) PROVE CompletedIsAnswered'
  <2>1. PICK i \in Jobs : task[r] = i
    BY <1>3, Parts, HasJob DEF EnqueueFails, TypeOK
  <2>2. \A q \in Processes \ {r} :
          pc'[q] = pc[q] /\ task'[q] = task[q] /\ seen'[q] = seen[q]
    BY <1>3, Parts DEF EnqueueFails, Go, Rest, Refresh, TypeOK, ProcsOK
  <2>3. \A k \in Jobs : Queued(k) => Queued(k)'
    BY <1>3, EnqueueKeeps
  <2>4. \A k \in Jobs \ {i} : Bare(k)' => Bare(k)
    BY <1>3 DEF EnqueueFails, Bare, rowVars
  <2>5. failedTasks \subseteq failedTasks'
    BY <1>3 DEF EnqueueFails
  <2>6. Bare(i)' /\ RunsAreSafe
          => \/ Bare(i) /\ ~Answers(r, i) /\ (Queued(i) => Queued(i)')
             \/ Backed(i)'
    BY <1>3, <2>1, <2>3, ProcessAssumption
       DEF EnqueueFails, Answers, Bare, rowVars
  <2> QED
    BY <1>3, <2>1, <2>2, <2>3, <2>4, <2>5, <2>6, Parts, AnswersMove
       DEF EnqueueFails, countVars
<1>4. ASSUME NEW s \in Streams, NEW j \in Jobs, Connect(s, j)
      PROVE  CompletedIsAnswered'
  <2>1. task[s] = NoJob
    BY <1>4, Parts DEF Connect, Take, TypeOK, ProcsOK
  <2>2. \A q \in Processes \ {s} :
          pc'[q] = pc[q] /\ task'[q] = task[q] /\ seen'[q] = seen[q]
    BY <1>4, Parts DEF Connect, Take, TypeOK, ProcsOK
  <2>3. \A k \in Jobs \ {j} : Queued(k) => Queued(k)'
    BY <1>4 DEF Connect, Queued, taskVars
  <2>4. \A k \in Jobs \ {j} : Bare(k)' => Bare(k)
    BY <1>4 DEF Connect, Bare, rowVars
  <2>5. failedTasks \subseteq failedTasks'
    BY <1>4 DEF Connect, taskVars
  <2>6. Bare(j)' /\ RunsAreSafe
          => \/ Bare(j) /\ ~Answers(s, j) /\ (Queued(j) => Queued(j)')
             \/ Backed(j)'
    BY <1>4, <2>1 DEF Connect, Bare, rowVars
  <2> QED
    BY <1>4, <2>1, <2>2, <2>3, <2>4, <2>5, <2>6, Parts, AnswersMove
       DEF Connect, countVars
<1>5. ASSUME NEW s \in Streams, StreamGivesUp(s) PROVE CompletedIsAnswered'
  <2>1. PICK i \in Jobs : task[s] = i
    BY <1>5, Parts, HasJob DEF StreamGivesUp, TypeOK
  <2>2. \A q \in Processes \ {s} :
          pc'[q] = pc[q] /\ task'[q] = task[q] /\ seen'[q] = seen[q]
    BY <1>5, Parts DEF StreamGivesUp, Go, Rest, Refresh, TypeOK, ProcsOK
  <2>3. \A k \in Jobs \ {i} : Queued(k) => Queued(k)'
    BY <1>5 DEF StreamGivesUp, Queued, taskVars
  <2>4. \A k \in Jobs \ {i} : Bare(k)' => Bare(k)
    BY <1>5 DEF StreamGivesUp, Bare, rowVars
  <2>5. failedTasks \subseteq failedTasks'
    BY <1>5 DEF StreamGivesUp, taskVars
  <2>6. Bare(i)' /\ RunsAreSafe
          => \/ Bare(i) /\ ~Answers(s, i) /\ (Queued(i) => Queued(i)')
             \/ Backed(i)'
    BY <1>5, <2>1, ProcessAssumption DEF StreamGivesUp, Answers, Handlers,
       Bare, Queued, rowVars, taskVars
  <2> QED
    BY <1>5, <2>1, <2>2, <2>3, <2>4, <2>5, <2>6, Parts, AnswersMove
       DEF StreamGivesUp, countVars
<1>6. ASSUME NEW s \in Streams, StreamSendFails(s) PROVE CompletedIsAnswered'
  <2>1. PICK i \in Jobs : task[s] = i
    BY <1>6, Parts, HasJob DEF StreamSendFails, TypeOK
  <2>2. \A q \in Processes \ {s} :
          pc'[q] = pc[q] /\ task'[q] = task[q] /\ seen'[q] = seen[q]
    BY <1>6, Parts DEF StreamSendFails, Go, Rest, Refresh, TypeOK, ProcsOK
  <2>3. \A k \in Jobs \ {i} : Queued(k) => Queued(k)'
    BY <1>6 DEF StreamSendFails, Queued, taskVars
  <2>4. \A k \in Jobs \ {i} : Bare(k)' => Bare(k)
    BY <1>6 DEF StreamSendFails, Bare, rowVars
  <2>5. failedTasks \subseteq failedTasks'
    BY <1>6 DEF StreamSendFails, taskVars
  <2>6. Bare(i)' /\ RunsAreSafe
          => \/ Bare(i) /\ ~Answers(s, i) /\ (Queued(i) => Queued(i)')
             \/ Backed(i)'
    BY <1>6, <2>1, ProcessAssumption DEF StreamSendFails, Answers, Handlers,
       Bare, Queued, rowVars, taskVars
  <2> QED
    BY <1>6, <2>1, <2>2, <2>3, <2>4, <2>5, <2>6, Parts, AnswersMove
       DEF StreamSendFails, countVars
<1>7. ASSUME NEW h \in Handlers, MarkProcessing(h) PROVE CompletedIsAnswered'
  <2>1. PICK i \in Jobs : task[h] = i
    BY <1>7, Parts, HasJob DEF MarkProcessing, TypeOK
  <2>2. \A q \in Processes \ {h} :
          pc'[q] = pc[q] /\ task'[q] = task[q] /\ seen'[q] = seen[q]
    BY <1>7, Parts DEF MarkProcessing, Go, Rest, Refresh, TypeOK, ProcsOK
  <2>3. \A k \in Jobs \ {i} : Queued(k) => Queued(k)'
    BY <1>7 DEF MarkProcessing, Queued, taskVars
  <2>4. \A k \in Jobs \ {i} : Bare(k)' => Bare(k)
    BY <1>7, <2>1, Parts, SetStatusEffect DEF MarkProcessing, Bare
  <2>5. failedTasks \subseteq failedTasks'
    BY <1>7 DEF MarkProcessing, taskVars
  <2>6. Bare(i)' /\ RunsAreSafe
          => \/ Bare(i) /\ ~Answers(h, i) /\ (Queued(i) => Queued(i)')
             \/ Backed(i)'
    <3>1. seen[h] = "pending"
      BY <1>7, Parts DEF MarkProcessing, HeldOK, Progressed
    <3> QED
      BY <1>7, <2>1, <3>1, Parts, SetStatusEffect DEF MarkProcessing, Bare
  <2> QED
    BY <1>7, <2>1, <2>2, <2>3, <2>4, <2>5, <2>6, Parts, AnswersMove
       DEF MarkProcessing, countVars
<1>8. ASSUME NEW p \in Processes, LoadProfile(p) PROVE CompletedIsAnswered'
  <2>1. PICK i \in Jobs : task[p] = i
    BY <1>8, Parts, HasJob DEF LoadProfile, TypeOK
  <2>2. \A q \in Processes \ {p} :
          pc'[q] = pc[q] /\ task'[q] = task[q] /\ seen'[q] = seen[q]
    BY <1>8, Parts DEF LoadProfile, Go, Rest, Refresh, TypeOK, ProcsOK
  <2>3. \A k \in Jobs \ {i} : Queued(k) => Queued(k)'
    BY <1>8 DEF LoadProfile, Queued, taskVars
  <2>4. \A k \in Jobs \ {i} : Bare(k)' => Bare(k)
    BY <1>8 DEF LoadProfile, Bare, rowVars
  <2>5. failedTasks \subseteq failedTasks'
    BY <1>8 DEF LoadProfile, taskVars
  <2>6. Bare(i)' /\ RunsAreSafe
          => \/ Bare(i) /\ ~Answers(p, i) /\ (Queued(i) => Queued(i)')
             \/ Backed(i)'
    <3>1. Bare(i)' => Bare(i) /\ (Queued(i) => Queued(i)')
      BY <1>8 DEF LoadProfile, Bare, Queued, rowVars, taskVars
    <3>2. Answers(p, i) => Answers(p, i)'
      BY <1>8, Parts DEF LoadProfile, Answers, Go, TypeOK, ProcsOK
    <3> QED
      BY <3>1, <3>2, Parts DEF Backed
  <2> QED
    BY <1>8, <2>1, <2>2, <2>3, <2>4, <2>5, <2>6, Parts, AnswersMove
       DEF LoadProfile, countVars
<1>9. ASSUME NEW p \in Processes, RunSucceeds(p) PROVE CompletedIsAnswered'
  <2>1. PICK i \in Jobs : task[p] = i
    BY <1>9, Parts, HasJob DEF RunSucceeds, TypeOK
  <2>2. \A q \in Processes \ {p} :
          pc'[q] = pc[q] /\ task'[q] = task[q] /\ seen'[q] = seen[q]
    BY <1>9, Parts DEF RunSucceeds, Go, Rest, Refresh, TypeOK, ProcsOK
  <2>3. \A k \in Jobs \ {i} : Queued(k) => Queued(k)'
    BY <1>9 DEF RunSucceeds, Queued, taskVars
  <2>4. \A k \in Jobs \ {i} : Bare(k)' => Bare(k)
    BY <1>9 DEF RunSucceeds, Bare, rowVars
  <2>5. failedTasks \subseteq failedTasks'
    BY <1>9 DEF RunSucceeds, taskVars
  <2>6. Bare(i)' /\ RunsAreSafe
          => \/ Bare(i) /\ ~Answers(p, i) /\ (Queued(i) => Queued(i)')
             \/ Backed(i)'
    <3>1. Bare(i)' => Bare(i) /\ (Queued(i) => Queued(i)')
      BY <1>9 DEF RunSucceeds, Bare, Queued, rowVars, taskVars
    <3>2. Answers(p, i) => Answers(p, i)'
      BY <1>9, Parts DEF RunSucceeds, Answers, Go, Handlers, TypeOK, ProcsOK
    <3> QED
      BY <3>1, <3>2, Parts DEF Backed
  <2> QED
    BY <1>9, <2>1, <2>2, <2>3, <2>4, <2>5, <2>6, Parts, AnswersMove
       DEF RunSucceeds, countVars
<1>10. ASSUME NEW p \in Processes, RunFails(p) PROVE CompletedIsAnswered'
  <2>1. PICK i \in Jobs : task[p] = i
    BY <1>10, Parts, HasJob DEF RunFails, TypeOK
  <2>2. \A q \in Processes \ {p} :
          pc'[q] = pc[q] /\ task'[q] = task[q] /\ seen'[q] = seen[q]
    BY <1>10, Parts DEF RunFails, Go, Rest, Refresh, TypeOK, ProcsOK
  <2>3. \A k \in Jobs \ {i} : Queued(k) => Queued(k)'
    BY <1>10 DEF RunFails, Queued, taskVars
  <2>4. \A k \in Jobs \ {i} : Bare(k)' => Bare(k)
    BY <1>10 DEF RunFails, Bare, rowVars
  <2>5. failedTasks \subseteq failedTasks'
    BY <1>10 DEF RunFails, taskVars
  <2>6. Bare(i)' /\ RunsAreSafe
          => \/ Bare(i) /\ ~Answers(p, i) /\ (Queued(i) => Queued(i)')
             \/ Backed(i)'
    <3>1. Bare(i)' => Bare(i) /\ (Queued(i) => Queued(i)')
      BY <1>10 DEF RunFails, Bare, Queued, rowVars, taskVars
    <3>2. Answers(p, i) => Answers(p, i)'
      BY <1>10, Parts DEF RunFails, Answers, Go, Handlers, TypeOK, ProcsOK
    <3> QED
      BY <3>1, <3>2, Parts DEF Backed
  <2> QED
    BY <1>10, <2>1, <2>2, <2>3, <2>4, <2>5, <2>6, Parts, AnswersMove
       DEF RunFails, countVars
<1>11. ASSUME NEW p \in Processes, Complete(p) PROVE CompletedIsAnswered'
  <2>1. PICK i \in Jobs : task[p] = i
    BY <1>11, Parts, HasJob DEF Complete, TypeOK
  <2>2. \A q \in Processes \ {p} :
          pc'[q] = pc[q] /\ task'[q] = task[q] /\ seen'[q] = seen[q]
    BY <1>11, Parts DEF Complete, Go, Rest, Refresh, TypeOK, ProcsOK
  <2>3. \A k \in Jobs \ {i} : Queued(k) => Queued(k)'
    BY <1>11 DEF Complete, Queued, taskVars
  <2>4. \A k \in Jobs \ {i} : Bare(k)' => Bare(k)
    BY <1>11, <2>1, Parts, SetStatusEffect DEF Complete, Bare
  <2>5. failedTasks \subseteq failedTasks'
    BY <1>11 DEF Complete, taskVars
  <2>6. Bare(i)' /\ RunsAreSafe
          => \/ Bare(i) /\ ~Answers(p, i) /\ (Queued(i) => Queued(i)')
             \/ Backed(i)'
    <3> SUFFICES ASSUME Bare(i)' PROVE Answers(p, i)'
      BY DEF Backed
    <3>1. status[i] # "deleted" /\ NewStatus(p, "completed") = "completed"
      BY <1>11, <2>1, SetStatusEffect DEF Complete, Bare
    <3> QED
      BY <1>11, <2>1, <3>1 DEF Complete, Answers, Refresh, Go, TypeOK, ProcsOK
  <2> QED
    BY <1>11, <2>1, <2>2, <2>3, <2>4, <2>5, <2>6, Parts, AnswersMove
       DEF Complete, countVars
<1>12. ASSUME NEW p \in Processes, Publish(p) PROVE CompletedIsAnswered'
  <2>1. PICK i \in Jobs : task[p] = i
    BY <1>12, Parts, HasJob DEF Publish, TypeOK
  <2>2. \A q \in Processes \ {p} :
          pc'[q] = pc[q] /\ task'[q] = task[q] /\ seen'[q] = seen[q]
    BY <1>12, Parts DEF Publish, Go, Rest, Refresh, TypeOK, ProcsOK
  <2>3. \A k \in Jobs \ {i} : Queued(k) => Queued(k)'
    BY <1>12 DEF Publish, Queued, taskVars
  <2>4. \A k \in Jobs \ {i} : Bare(k)' => Bare(k)
    BY <1>12, <2>1 DEF Publish, Bare, TypeOK, RowsOK
  <2>5. failedTasks \subseteq failedTasks'
    BY <1>12 DEF Publish, taskVars
  <2>6. Bare(i)' /\ RunsAreSafe
          => \/ Bare(i) /\ ~Answers(p, i) /\ (Queued(i) => Queued(i)')
             \/ Backed(i)'
    <3>1. docs[p] # {}
      BY <1>12 DEF Publish, HeldOK, Progressed
    <3> QED
      BY <1>12, <2>1, <3>1 DEF Publish, Bare, TypeOK, RowsOK
  <2> QED
    BY <1>12, <2>1, <2>2, <2>3, <2>4, <2>5, <2>6, Parts, AnswersMove
       DEF Publish, countVars
<1>13. ASSUME NEW h \in Handlers, HandlerFinishes(h) PROVE CompletedIsAnswered'
  <2>1. PICK i \in Jobs : task[h] = i
    BY <1>13, Parts, HasJob DEF HandlerFinishes, TypeOK
  <2>2. \A q \in Processes \ {h} :
          pc'[q] = pc[q] /\ task'[q] = task[q] /\ seen'[q] = seen[q]
    BY <1>13, Parts DEF HandlerFinishes, Go, Rest, Refresh, TypeOK, ProcsOK
  <2>3. \A k \in Jobs \ {i} : Queued(k) => Queued(k)'
    BY <1>13 DEF HandlerFinishes, Queued, taskVars
  <2>4. \A k \in Jobs \ {i} : Bare(k)' => Bare(k)
    BY <1>13 DEF HandlerFinishes, Bare, rowVars
  <2>5. failedTasks \subseteq failedTasks'
    BY <1>13 DEF HandlerFinishes, taskVars
  <2>6. Bare(i)' /\ RunsAreSafe
          => \/ Bare(i) /\ ~Answers(h, i) /\ (Queued(i) => Queued(i)')
             \/ Backed(i)'
    BY <1>13, <2>1, ProcessAssumption DEF HandlerFinishes, Answers, Handlers,
       Bare, Queued, rowVars, taskVars
  <2> QED
    BY <1>13, <2>1, <2>2, <2>3, <2>4, <2>5, <2>6, Parts, AnswersMove
       DEF HandlerFinishes, countVars
<1>14. ASSUME NEW h \in Handlers, HandlerFails(h) PROVE CompletedIsAnswered'
  <2>1. PICK i \in Jobs : task[h] = i
    BY <1>14, Parts, HasJob DEF HandlerFails, TypeOK
  <2>2. \A q \in Processes \ {h} :
          pc'[q] = pc[q] /\ task'[q] = task[q] /\ seen'[q] = seen[q]
    BY <1>14, Parts DEF HandlerFails, Go, Rest, Refresh, TypeOK, ProcsOK
  <2>3. \A k \in Jobs \ {i} : Queued(k) => Queued(k)'
    BY <1>14 DEF HandlerFails, Queued, taskVars
  <2>4. \A k \in Jobs \ {i} : Bare(k)' => Bare(k)
    BY <1>14, <2>1, Parts, SetStatusEffect DEF HandlerFails, Bare
  <2>5. failedTasks \subseteq failedTasks'
    BY <1>14 DEF HandlerFails, taskVars
  <2>6. Bare(i)' /\ RunsAreSafe
          => \/ Bare(i) /\ ~Answers(h, i) /\ (Queued(i) => Queued(i)')
             \/ Backed(i)'
    <3> SUFFICES ASSUME Bare(i)'
                 PROVE  Bare(i) /\ ~Answers(h, i) /\ (Queued(i) => Queued(i)')
      OBVIOUS
    <3>1. seen[h] = "failed" /\ Bare(i)
      BY <1>14, <2>1, Parts, SetStatusEffect DEF HandlerFails, Bare
    <3> QED
      BY <1>14, <3>1 DEF HandlerFails, Answers, Queued, taskVars
  <2> QED
    BY <1>14, <2>1, <2>2, <2>3, <2>4, <2>5, <2>6, Parts, AnswersMove
       DEF HandlerFails, countVars
<1>15. ASSUME NEW h \in Handlers, HandlerRaises(h) PROVE CompletedIsAnswered'
  <2>1. PICK i \in Jobs : task[h] = i
    BY <1>15, Parts, HasJob DEF HandlerRaises, TypeOK
  <2>2. \A q \in Processes \ {h} :
          pc'[q] = pc[q] /\ task'[q] = task[q] /\ seen'[q] = seen[q]
    BY <1>15, Parts DEF HandlerRaises, Go, Rest, Refresh, TypeOK, ProcsOK
  <2>3. \A k \in Jobs \ {i} : Queued(k) => Queued(k)'
    BY <1>15 DEF HandlerRaises, Queued, taskVars
  <2>4. \A k \in Jobs \ {i} : Bare(k)' => Bare(k)
    BY <1>15 DEF HandlerRaises, Bare, rowVars
  <2>5. failedTasks \subseteq failedTasks'
    BY <1>15 DEF HandlerRaises, taskVars
  <2>6. Bare(i)' /\ RunsAreSafe
          => \/ Bare(i) /\ ~Answers(h, i) /\ (Queued(i) => Queued(i)')
             \/ Backed(i)'
    <3>1. Bare(i)' => Bare(i) /\ (Queued(i) => Queued(i)')
      BY <1>15 DEF HandlerRaises, Bare, Queued, rowVars, taskVars
    <3>2. Answers(h, i) => Answers(h, i)'
      BY <1>15, Parts, ProcessAssumption DEF HandlerRaises, Answers, Go,
         Handlers, TypeOK, ProcsOK
    <3> QED
      BY <3>1, <3>2, Parts DEF Backed
  <2> QED
    BY <1>15, <2>1, <2>2, <2>3, <2>4, <2>5, <2>6, Parts, AnswersMove
       DEF HandlerRaises, countVars
<1>16. ASSUME NEW h \in Handlers, HandlerBreaks(h) PROVE CompletedIsAnswered'
  <2>1. PICK i \in Jobs : task[h] = i
    BY <1>16, Parts, HasJob DEF HandlerBreaks, TypeOK
  <2>2. \A q \in Processes \ {h} :
          pc'[q] = pc[q] /\ task'[q] = task[q] /\ seen'[q] = seen[q]
    BY <1>16, Parts DEF HandlerBreaks, Go, Rest, Refresh, TypeOK, ProcsOK
  <2>3. \A k \in Jobs \ {i} : Queued(k) => Queued(k)'
    BY <1>16 DEF HandlerBreaks, Queued, taskVars
  <2>4. \A k \in Jobs \ {i} : Bare(k)' => Bare(k)
    BY <1>16 DEF HandlerBreaks, Bare, rowVars
  <2>5. failedTasks \subseteq failedTasks'
    BY <1>16 DEF HandlerBreaks, taskVars
  <2>6. Bare(i)' /\ RunsAreSafe
          => \/ Bare(i) /\ ~Answers(h, i) /\ (Queued(i) => Queued(i)')
             \/ Backed(i)'
    <3>1. ~RunsAreSafe
      BY <1>16, RequestsEnqueue DEF HandlerBreaks, RunsAreSafe, Handlers
    <3> QED
      BY <3>1
  <2> QED
    BY <1>16, <2>1, <2>2, <2>3, <2>4, <2>5, <2>6, Parts, AnswersMove
       DEF HandlerBreaks, countVars
<1>17. ASSUME NEW w \in Workers, NEW j \in Jobs, NEW n \in 0..MaxRetries,
              Deliver(w, j, n)
       PROVE  CompletedIsAnswered'
  <2>1. CASE status[j] = "deleted"
    <3>1. \A i \in Jobs : Bare(i)' => i # j /\ Bare(i) /\ (Queued(i) => Queued(i)')
      BY <1>17, <2>1 DEF Deliver, Bare, Queued, rowVars, TypeOK, TasksOK
    <3> QED
      BY <1>17, <2>1, <3>1
         DEF Deliver, CompletedIsAnswered, RunsAreSafe, Backed, Answers,
             procVars, countVars
  <2>2. CASE status[j] # "deleted"
    <3>1. task[w] = NoJob
      BY <1>17, <2>2, Parts DEF Deliver, Take, TypeOK, ProcsOK
    <3>2. \A q \in Processes \ {w} :
            pc'[q] = pc[q] /\ task'[q] = task[q] /\ seen'[q] = seen[q]
      BY <1>17, <2>2, Parts DEF Deliver, Take, TypeOK, ProcsOK
    <3>3. \A k \in Jobs \ {j} : Queued(k) => Queued(k)'
      BY <1>17, <2>2, <3>1 DEF Deliver, Queued, TypeOK, TasksOK
    <3>4. \A k \in Jobs \ {j} : Bare(k)' => Bare(k)
      BY <1>17, <2>2 DEF Deliver, Bare, rowVars
    <3>5. failedTasks \subseteq failedTasks'
      BY <1>17, <2>2 DEF Deliver, taskVars
    <3>6. Bare(j)' /\ RunsAreSafe
            => \/ Bare(j) /\ ~Answers(w, j) /\ (Queued(j) => Queued(j)')
               \/ Backed(j)'
      BY <1>17, <2>2, Parts DEF Deliver, Backed, Answers, Bare, Take,
         rowVars, TypeOK, ProcsOK
    <3> QED
      BY <1>17, <2>2, <3>1, <3>2, <3>3, <3>4, <3>5, <3>6, Parts, AnswersMove
         DEF Deliver, countVars
  <2> QED
    BY <2>1, <2>2
<1>18. ASSUME NEW w \in Workers, Acknowledge(w) PROVE CompletedIsAnswered'
  <2>1. PICK i \in Jobs : task[w] = i
    BY <1>18, Parts, HasJob DEF Acknowledge, TypeOK
  <2>2. \A q \in Processes \ {w} :
          pc'[q] = pc[q] /\ task'[q] = task[q] /\ seen'[q] = seen[q]
    BY <1>18, Parts DEF Acknowledge, Go, Rest, Refresh, TypeOK, ProcsOK
  <2>3. \A k \in Jobs \ {i} : Queued(k) => Queued(k)'
    BY <1>18 DEF Acknowledge, Queued, taskVars
  <2>4. \A k \in Jobs \ {i} : Bare(k)' => Bare(k)
    BY <1>18 DEF Acknowledge, Bare, rowVars
  <2>5. failedTasks \subseteq failedTasks'
    BY <1>18 DEF Acknowledge, taskVars
  <2>6. Bare(i)' /\ RunsAreSafe
          => \/ Bare(i) /\ ~Answers(w, i) /\ (Queued(i) => Queued(i)')
             \/ Backed(i)'
    BY <1>18, <2>1, ProcessAssumption DEF Acknowledge, Answers, Handlers,
       Bare, Queued, rowVars, taskVars
  <2> QED
    BY <1>18, <2>1, <2>2, <2>3, <2>4, <2>5, <2>6, Parts, AnswersMove
       DEF Acknowledge, countVars
<1>19. ASSUME NEW w \in Workers, WorkerFails(w) PROVE CompletedIsAnswered'
  <2>1. PICK i \in Jobs : task[w] = i
    BY <1>19, Parts, HasJob DEF WorkerFails, TypeOK
  <2>2. \A q \in Processes \ {w} :
          pc'[q] = pc[q] /\ task'[q] = task[q] /\ seen'[q] = seen[q]
    BY <1>19, Parts DEF WorkerFails, Go, Rest, Refresh, TypeOK, ProcsOK
  <2>3. \A k \in Jobs \ {i} : Queued(k) => Queued(k)'
    BY <1>19 DEF WorkerFails, Queued, taskVars
  <2>4. \A k \in Jobs \ {i} : Bare(k)' => Bare(k)
    BY <1>19, <2>1, Parts, SetStatusEffect DEF WorkerFails, Bare
  <2>5. failedTasks \subseteq failedTasks'
    BY <1>19 DEF WorkerFails, taskVars
  <2>6. Bare(i)' /\ RunsAreSafe
          => \/ Bare(i) /\ ~Answers(w, i) /\ (Queued(i) => Queued(i)')
             \/ Backed(i)'
    <3> SUFFICES ASSUME Bare(i)'
                 PROVE  Bare(i) /\ ~Answers(w, i) /\ (Queued(i) => Queued(i)')
      OBVIOUS
    <3>1. seen[w] = "failed" /\ Bare(i)
      BY <1>19, <2>1, Parts, SetStatusEffect DEF WorkerFails, Bare
    <3> QED
      BY <1>19, <3>1 DEF WorkerFails, Answers, Queued, taskVars
  <2> QED
    BY <1>19, <2>1, <2>2, <2>3, <2>4, <2>5, <2>6, Parts, AnswersMove
       DEF WorkerFails, countVars
<1>20. ASSUME NEW w \in Workers, WorkerRaises(w) PROVE CompletedIsAnswered'
  <2>1. PICK i \in Jobs : task[w] = i
    BY <1>20, Parts, HasJob DEF WorkerRaises, TypeOK
  <2>2. \A q \in Processes \ {w} :
          pc'[q] = pc[q] /\ task'[q] = task[q] /\ seen'[q] = seen[q]
    BY <1>20, Parts DEF WorkerRaises, Go, Rest, Refresh, TypeOK, ProcsOK
  <2>3. \A k \in Jobs \ {i} : Queued(k) => Queued(k)'
    BY <1>20 DEF WorkerRaises, Queued
  <2>4. \A k \in Jobs \ {i} : Bare(k)' => Bare(k)
    BY <1>20 DEF WorkerRaises, Bare, rowVars
  <2>5. failedTasks \subseteq failedTasks'
    BY <1>20 DEF WorkerRaises
  <2>6. Bare(i)' /\ RunsAreSafe
          => \/ Bare(i) /\ ~Answers(w, i) /\ (Queued(i) => Queued(i)')
             \/ Backed(i)'
    BY <1>20, <2>1 DEF WorkerRaises, Backed
  <2> QED
    BY <1>20, <2>1, <2>2, <2>3, <2>4, <2>5, <2>6, Parts, AnswersMove
       DEF WorkerRaises, countVars
<1>21. ASSUME NEW w \in Workers, WorkerRetries(w) PROVE CompletedIsAnswered'
  <2>1. PICK i \in Jobs : task[w] = i
    BY <1>21, Parts, HasJob DEF WorkerRetries, TypeOK
  <2>2. \A q \in Processes \ {w} :
          pc'[q] = pc[q] /\ task'[q] = task[q] /\ seen'[q] = seen[q]
    BY <1>21, Parts DEF WorkerRetries, Go, Rest, Refresh, TypeOK, ProcsOK
  <2>3. \A k \in Jobs \ {i} : Queued(k) => Queued(k)'
    BY <1>21, <2>1, ConfigAssumption, MoreQueued, Parts DEF WorkerRetries,
       TypeOK, ProcsOK
  <2>4. \A k \in Jobs \ {i} : Bare(k)' => Bare(k)
    BY <1>21 DEF WorkerRetries, Bare, rowVars
  <2>5. failedTasks \subseteq failedTasks'
    BY <1>21 DEF WorkerRetries, taskVars
  <2>6. Bare(i)' /\ RunsAreSafe
          => \/ Bare(i) /\ ~Answers(w, i) /\ (Queued(i) => Queued(i)')
             \/ Backed(i)'
    <3>1. Queued(i)'
      BY <1>21, <2>1, ConfigAssumption, MoreQueued, Parts DEF WorkerRetries,
         TypeOK, ProcsOK
    <3> QED
      BY <3>1 DEF Backed
  <2> QED
    BY <1>21, <2>1, <2>2, <2>3, <2>4, <2>5, <2>6, Parts, AnswersMove
       DEF WorkerRetries, countVars
<1>22. ASSUME NEW w \in Workers, WorkerDies(w) PROVE CompletedIsAnswered'
  <2>1. PICK i \in Jobs : task[w] = i
    BY <1>22, Parts, HasJob DEF WorkerDies, TypeOK
  <2>2. \A q \in Processes \ {w} :
          pc'[q] = pc[q] /\ task'[q] = task[q] /\ seen'[q] = seen[q]
    BY <1>22, Parts DEF WorkerDies, Go, Rest, Refresh, TypeOK, ProcsOK
  <2>3. \A k \in Jobs \ {i} : Queued(k) => Queued(k)'
    BY <1>22, <2>1, ConfigAssumption, MoreQueued, Parts DEF WorkerDies,
       TypeOK, ProcsOK
  <2>4. \A k \in Jobs \ {i} : Bare(k)' => Bare(k)
    BY <1>22 DEF WorkerDies, Bare, rowVars
  <2>5. failedTasks \subseteq failedTasks'
    BY <1>22 DEF WorkerDies, taskVars
  <2>6. Bare(i)' /\ RunsAreSafe
          => \/ Bare(i) /\ ~Answers(w, i) /\ (Queued(i) => Queued(i)')
             \/ Backed(i)'
    <3>1. Queued(i)'
      BY <1>22, <2>1, ConfigAssumption, MoreQueued, Parts DEF WorkerDies,
         TypeOK, ProcsOK
    <3> QED
      BY <3>1 DEF Backed
  <2> QED
    BY <1>22, <2>1, <2>2, <2>3, <2>4, <2>5, <2>6, Parts, AnswersMove
       DEF WorkerDies, countVars
<1>23. ASSUME ApiDies PROVE CompletedIsAnswered'
  <2> SUFFICES ASSUME NEW j \in Jobs, Bare(j)', RunsAreSafe' PROVE Backed(j)'
    BY DEF CompletedIsAnswered
  <2>1. UseCelery /\ Streams = {}
    BY <1>23 DEF ApiDies, RunsAreSafe, TypeOK, ApiOK
  <2>2. Backed(j)
    BY <1>23, <2>1 DEF ApiDies, CompletedIsAnswered, RunsAreSafe, Bare, rowVars
  <2>3. ASSUME NEW p \in Processes, Answers(p, j) PROVE Answers(p, j)'
    <3>1. pc[p] # "idle"
      BY <2>3, ProcessAssumption DEF Answers, TypeOK, ProcsOK
    <3>2. p \in Workers
      BY <2>1, <2>3, <3>1, RequestsEnqueue DEF Answers, Processes
    <3>3. p \notin Handlers
      BY <3>2, ProcessAssumption DEF Handlers
    <3> QED
      BY <1>23, <2>3, <3>3 DEF ApiDies, Rest, Answers
  <2> QED
    BY <1>23, <2>2, <2>3 DEF ApiDies, Backed, Queued, taskVars
<1>24. ASSUME ApiStarts PROVE CompletedIsAnswered'
  BY <1>24, AnswersSame DEF ApiStarts, Bare, Queued, rowVars, taskVars,
     countVars
<1>25. ASSUME NEW j \in Jobs, RecoverJob(j) PROVE CompletedIsAnswered'
  <2>1. \A i \in Jobs : Queued(i) => Queued(i)'
    BY <1>25, ConfigAssumption, MoreQueued DEF RecoverJob
  <2> QED
    BY <1>25, <2>1, AnswersSame DEF RecoverJob, Bare, rowVars, countVars
<1>26. ASSUME RecoveryDone PROVE CompletedIsAnswered'
  BY <1>26, AnswersSame DEF RecoveryDone, Bare, Queued, rowVars, taskVars,
     countVars
<1>27. ASSUME RecoverySkipped PROVE CompletedIsAnswered'
  BY <1>27, AnswersSame DEF RecoverySkipped, Bare, Queued, rowVars, taskVars,
     countVars
<1>28. ASSUME DeleteProfile PROVE CompletedIsAnswered'
  <2>1. \A i \in Jobs : Bare(i)' => Bare(i)
    BY <1>28 DEF DeleteProfile, Existing, Bare
  <2> QED
    BY <1>28, <2>1, AnswersSame DEF DeleteProfile, Queued, taskVars, countVars
<1>29. CASE UNCHANGED vars
  BY <1>29, AnswersSame DEF vars, Bare, Queued, rowVars, taskVars, countVars
<1> QED
  BY <1>1, <1>2, <1>3, <1>4, <1>5, <1>6, <1>7, <1>8, <1>9, <1>10, <1>11,
     <1>12, <1>13, <1>14, <1>15, <1>16, <1>17, <1>18, <1>19, <1>20, <1>21,
     <1>22, <1>23, <1>24, <1>25, <1>26, <1>27, <1>28, <1>29
     DEF Next, RequestStep, StreamStep, HandlerStep, WorkerStep, RunStep,
         ApiStep, Deliveries, Handlers, Processes

\* Between the two commits of mark_job_completed somebody answers for the job.
THEOREM CompletedBacked == Spec => []CompletedIsBacked
<1>1. Init => TypeOK /\ Bookkeeping /\ CompletedIsAnswered
  BY TypeInit, BookInit, AnswersInit
<1>2. TypeOK /\ Bookkeeping /\ CompletedIsAnswered /\ [Next]_vars
        => (TypeOK /\ Bookkeeping /\ CompletedIsAnswered)'
  BY TypeNext, BookNext, AnswersNext
<1>3. CompletedIsAnswered => CompletedIsBacked
  BY DEF CompletedIsAnswered, CompletedIsBacked, Backed, Answers, RunBy
<1> QED
  BY <1>1, <1>2, <1>3, PTL DEF Spec

-----------------------------------------------------------------------------
(* A client that was told "completed" has its documents.                   *)

LEMMA RepliesKept ==
  ASSUME TypeOK, FinishedHasDocuments, CompletedReplyHasDocuments, Onward,
         Kept,
         \A r \in Requests :
           pc'[r] = "finish"
             => /\ task'[r] = task[r] /\ task[r] \in Jobs
                /\ \/ pc[r] = "finish"
                   \/ urls'[task[r]] # {}
                   \/ status'[task[r]] = "deleted",
         \A j \in Jobs :
           told'[j] = "completed"
             => \/ told[j] = "completed"
                \/ \E r \in Requests : pc[r] = "finish" /\ task[r] = j
  PROVE  FinishedHasDocuments' /\ CompletedReplyHasDocuments'
<1>1. \A j \in Jobs :
        urls[j] # {} \/ status[j] = "deleted"
          => urls'[j] # {} \/ status'[j] = "deleted"
  BY DEF Onward, Kept
<1>2. FinishedHasDocuments'
  BY <1>1 DEF FinishedHasDocuments
<1>3. CompletedReplyHasDocuments'
  BY <1>1 DEF FinishedHasDocuments, CompletedReplyHasDocuments
<1> QED
  BY <1>2, <1>3

LEMMA RepliesInit == Init => FinishedHasDocuments /\ CompletedReplyHasDocuments
BY Parts DEF Init, FinishedHasDocuments, CompletedReplyHasDocuments

LEMMA RepliesNext ==
  /\ TypeOK /\ Bookkeeping /\ FinishedHasDocuments /\ CompletedReplyHasDocuments
  /\ [Next]_vars
  => FinishedHasDocuments' /\ CompletedReplyHasDocuments'
<1> SUFFICES ASSUME TypeOK, Bookkeeping, FinishedHasDocuments,
                    CompletedReplyHasDocuments, [Next]_vars
             PROVE  FinishedHasDocuments' /\ CompletedReplyHasDocuments'
  OBVIOUS
<1>a. Onward
  BY OnwardNext
<1>b. Kept
  BY KeptNext
<1> DEFINE Done(r) == /\ task'[r] = task[r] /\ task[r] \in Jobs
                      /\ \/ pc[r] = "finish"
                         \/ urls'[task[r]] # {}
                         \/ status'[task[r]] = "deleted"
<1> DEFINE Told(j) == \/ told[j] = "completed"
                      \/ \E r \in Requests : pc[r] = "finish" /\ task[r] = j
<1> DEFINE Both == /\ \A r \in Requests : pc'[r] = "finish" => Done(r)
                   /\ \A j \in Jobs : told'[j] = "completed" => Told(j)
<1>1. ASSUME NEW r \in Requests, NEW j \in Jobs, CreateJob(r, j) PROVE Both
  <2>1. \A q \in Requests : pc'[q] = "finish" => Done(q)
    BY <1>1, HasJob, Parts, ConfigAssumption DEF CreateJob, Take, TypeOK,
       ProcsOK
  <2>2. \A k \in Jobs : told'[k] = "completed" => Told(k)
    BY <1>1 DEF CreateJob
  <2> QED
    BY <2>1, <2>2
<1>2. ASSUME NEW r \in Requests, Enqueue(r) PROVE Both
  <2>1. \A q \in Requests : pc'[q] = "finish" => Done(q)
    BY <1>2, HasJob, Parts DEF Enqueue, Rest, TypeOK
  <2>2. \A j \in Jobs : told'[j] = "completed" => Told(j)
    BY <1>2, Parts, HasJob DEF Enqueue, Tell, TypeOK, ApiOK
  <2> QED
    BY <2>1, <2>2
<1>3. ASSUME NEW r \in Requests, EnqueueFails(r) PROVE Both
  <2>1. \A q \in Requests : pc'[q] = "finish" => Done(q)
    BY <1>3, HasJob, Parts DEF EnqueueFails, Rest, TypeOK
  <2>2. \A j \in Jobs : told'[j] = "completed" => Told(j)
    BY <1>3, Parts, HasJob DEF EnqueueFails, Tell, TypeOK, ApiOK
  <2> QED
    BY <2>1, <2>2
<1>4. ASSUME NEW s \in Streams, NEW j \in Jobs, Connect(s, j) PROVE Both
  <2>1. \A r \in Requests : pc'[r] = "finish" => Done(r)
    BY <1>4, HasJob, Parts, ConfigAssumption DEF Connect, Take, TypeOK, ProcsOK
  <2>2. \A k \in Jobs : told'[k] = "completed" => Told(k)
    BY <1>4 DEF Connect
  <2> QED
    BY <2>1, <2>2
<1>5. ASSUME NEW s \in Streams, StreamGivesUp(s) PROVE Both
  <2>1. \A r \in Requests : pc'[r] = "finish" => Done(r)
    BY <1>5, HasJob, Parts DEF StreamGivesUp, Rest, TypeOK
  <2>2. \A j \in Jobs : told'[j] = "completed" => Told(j)
    BY <1>5 DEF StreamGivesUp
  <2> QED
    BY <2>1, <2>2
<1>6. ASSUME NEW s \in Streams, StreamSendFails(s) PROVE Both
  <2>1. \A r \in Requests : pc'[r] = "finish" => Done(r)
    BY <1>6, HasJob, Parts DEF StreamSendFails, Go, TypeOK, ProcsOK
  <2>2. \A j \in Jobs : told'[j] = "completed" => Told(j)
    BY <1>6 DEF StreamSendFails
  <2> QED
    BY <2>1, <2>2
<1>7. ASSUME NEW h \in Handlers, MarkProcessing(h) PROVE Both
  <2>1. \A r \in Requests : pc'[r] = "finish" => Done(r)
    BY <1>7, HasJob, Parts DEF MarkProcessing, Go, TypeOK, ProcsOK
  <2>2. \A j \in Jobs : told'[j] = "completed" => Told(j)
    BY <1>7 DEF MarkProcessing
  <2> QED
    BY <2>1, <2>2
<1>8. ASSUME NEW p \in Processes, LoadProfile(p) PROVE Both
  <2>1. \A r \in Requests : pc'[r] = "finish" => Done(r)
    BY <1>8, HasJob, Parts DEF LoadProfile, Go, TypeOK, ProcsOK
  <2>2. \A j \in Jobs : told'[j] = "completed" => Told(j)
    BY <1>8 DEF LoadProfile
  <2> QED
    BY <2>1, <2>2
<1>9. ASSUME NEW p \in Processes, RunSucceeds(p) PROVE Both
  <2>1. \A r \in Requests : pc'[r] = "finish" => Done(r)
    BY <1>9, HasJob, Parts DEF RunSucceeds, Go, TypeOK, ProcsOK
  <2>2. \A j \in Jobs : told'[j] = "completed" => Told(j)
    BY <1>9 DEF RunSucceeds
  <2> QED
    BY <2>1, <2>2
<1>10. ASSUME NEW p \in Processes, RunFails(p) PROVE Both
  <2>1. \A r \in Requests : pc'[r] = "finish" => Done(r)
    BY <1>10, HasJob, Parts DEF RunFails, Go, TypeOK, ProcsOK
  <2>2. \A j \in Jobs : told'[j] = "completed" => Told(j)
    BY <1>10 DEF RunFails
  <2> QED
    BY <2>1, <2>2
<1>11. ASSUME NEW p \in Processes, Complete(p) PROVE Both
  <2>1. \A r \in Requests : pc'[r] = "finish" => Done(r)
    <3>1. task[p] \in Jobs
      BY <1>11, HasJob DEF Complete, TypeOK
    <3>2. status[task[p]] = "deleted" => status'[task[p]] = "deleted"
      BY <1>a, <3>1 DEF Onward
    <3> QED
      BY <1>11, <3>1, <3>2, HasJob, Parts DEF Complete, Go, TypeOK, ProcsOK
  <2>2. \A j \in Jobs : told'[j] = "completed" => Told(j)
    BY <1>11 DEF Complete
  <2> QED
    BY <2>1, <2>2
<1>12. ASSUME NEW p \in Processes, Publish(p) PROVE Both
  <2>1. \A r \in Requests : pc'[r] = "finish" => Done(r)
    <3>1. docs[p] # {}
      BY <1>12 DEF Publish, Bookkeeping, HeldOK, Progressed
    <3>2. task[p] \in Jobs
      BY <1>12, HasJob DEF Publish, TypeOK
    <3> QED
      BY <1>12, <3>1, <3>2, HasJob, Parts DEF Publish, Go, TypeOK, RowsOK,
         ProcsOK
  <2>2. \A j \in Jobs : told'[j] = "completed" => Told(j)
    BY <1>12 DEF Publish
  <2> QED
    BY <2>1, <2>2
<1>13. ASSUME NEW h \in Handlers, HandlerFinishes(h) PROVE Both
  <2>1. \A r \in Requests : pc'[r] = "finish" => Done(r)
    BY <1>13, HasJob, Parts DEF HandlerFinishes, Rest, TypeOK
  <2>2. \A j \in Jobs : told'[j] = "completed" => Told(j)
    BY <1>13, Parts, HasJob DEF HandlerFinishes, Reply, Tell, TypeOK, ApiOK
  <2> QED
    BY <2>1, <2>2
<1>14. ASSUME NEW h \in Handlers, HandlerFails(h) PROVE Both
  <2>1. \A r \in Requests : pc'[r] = "finish" => Done(r)
    BY <1>14, HasJob, Parts DEF HandlerFails, Rest, TypeOK
  <2>2. \A j \in Jobs : told'[j] = "completed" => Told(j)
    BY <1>14, Parts, HasJob DEF HandlerFails, Reply, Tell, TypeOK, ApiOK
  <2> QED
    BY <2>1, <2>2
<1>15. ASSUME NEW h \in Handlers, HandlerRaises(h) PROVE Both
  <2>1. \A r \in Requests : pc'[r] = "finish" => Done(r)
    BY <1>15, HasJob, Parts DEF HandlerRaises, Go, TypeOK, ProcsOK
  <2>2. \A j \in Jobs : told'[j] = "completed" => Told(j)
    BY <1>15 DEF HandlerRaises
  <2> QED
    BY <2>1, <2>2
<1>16. ASSUME NEW h \in Handlers, HandlerBreaks(h) PROVE Both
  <2>1. \A r \in Requests : pc'[r] = "finish" => Done(r)
    BY <1>16, HasJob, Parts DEF HandlerBreaks, Rest, TypeOK
  <2>2. \A j \in Jobs : told'[j] = "completed" => Told(j)
    BY <1>16, Parts, HasJob DEF HandlerBreaks, Reply, Tell, TypeOK, ApiOK
  <2> QED
    BY <2>1, <2>2
<1>17. ASSUME NEW w \in Workers, NEW j \in Jobs, NEW n \in 0..MaxRetries,
              Deliver(w, j, n)
       PROVE  Both
  <2>1. \A r \in Requests : pc'[r] = "finish" => Done(r)
    BY <1>17, HasJob, Parts, ConfigAssumption DEF Deliver, Take, procVars,
       TypeOK, ProcsOK
  <2>2. \A k \in Jobs : told'[k] = "completed" => Told(k)
    BY <1>17 DEF Deliver
  <2> QED
    BY <2>1, <2>2
<1>18. ASSUME NEW w \in Workers, Acknowledge(w) PROVE Both
  <2>1. \A r \in Requests : pc'[r] = "finish" => Done(r)
    BY <1>18, HasJob, Parts DEF Acknowledge, Rest, TypeOK
  <2>2. \A j \in Jobs : told'[j] = "completed" => Told(j)
    BY <1>18 DEF Acknowledge
  <2> QED
    BY <2>1, <2>2
<1>19. ASSUME NEW w \in Workers, WorkerFails(w) PROVE Both
  <2>1. \A r \in Requests : pc'[r] = "finish" => Done(r)
    BY <1>19, HasJob, Parts, ProcessAssumption DEF WorkerFails, Go, TypeOK,
       ProcsOK
  <2>2. \A j \in Jobs : told'[j] = "completed" => Told(j)
    BY <1>19 DEF WorkerFails
  <2> QED
    BY <2>1, <2>2
<1>20. ASSUME NEW w \in Workers, WorkerRaises(w) PROVE Both
  <2>1. \A r \in Requests : pc'[r] = "finish" => Done(r)
    BY <1>20, HasJob, Parts, ProcessAssumption DEF WorkerRaises, Go, TypeOK,
       ProcsOK, rowVars
  <2>2. \A j \in Jobs : told'[j] = "completed" => Told(j)
    BY <1>20 DEF WorkerRaises
  <2> QED
    BY <2>1, <2>2
<1>21. ASSUME NEW w \in Workers, WorkerRetries(w) PROVE Both
  <2>1. \A r \in Requests : pc'[r] = "finish" => Done(r)
    BY <1>21, HasJob, Parts, ProcessAssumption DEF WorkerRetries, Go, TypeOK,
       ProcsOK, rowVars
  <2>2. \A j \in Jobs : told'[j] = "completed" => Told(j)
    BY <1>21 DEF WorkerRetries
  <2> QED
    BY <2>1, <2>2
<1>22. ASSUME NEW w \in Workers, WorkerDies(w) PROVE Both
  <2>1. \A r \in Requests : pc'[r] = "finish" => Done(r)
    BY <1>22, HasJob, Parts DEF WorkerDies, Rest, TypeOK
  <2>2. \A j \in Jobs : told'[j] = "completed" => Told(j)
    BY <1>22 DEF WorkerDies
  <2> QED
    BY <2>1, <2>2
<1>23. ASSUME ApiDies PROVE Both
  <2>1. \A r \in Requests : pc'[r] = "finish" => Done(r)
    BY <1>23, HasJob, Parts DEF ApiDies, Rest, TypeOK
  <2>2. \A j \in Jobs : told'[j] = "completed" => Told(j)
    BY <1>23 DEF ApiDies
  <2> QED
    BY <2>1, <2>2
<1>24. ASSUME ApiStarts PROVE Both
  <2>1. \A r \in Requests : pc'[r] = "finish" => Done(r)
    BY <1>24, HasJob, Parts DEF ApiStarts, procVars, TypeOK
  <2>2. \A j \in Jobs : told'[j] = "completed" => Told(j)
    BY <1>24 DEF ApiStarts
  <2> QED
    BY <2>1, <2>2
<1>25. ASSUME NEW j \in Jobs, RecoverJob(j) PROVE Both
  <2>1. \A r \in Requests : pc'[r] = "finish" => Done(r)
    BY <1>25, HasJob, Parts DEF RecoverJob, procVars, TypeOK
  <2>2. \A k \in Jobs : told'[k] = "completed" => Told(k)
    BY <1>25 DEF RecoverJob
  <2> QED
    BY <2>1, <2>2
<1>26. ASSUME RecoveryDone PROVE Both
  <2>1. \A r \in Requests : pc'[r] = "finish" => Done(r)
    BY <1>26, HasJob, Parts DEF RecoveryDone, procVars, TypeOK
  <2>2. \A j \in Jobs : told'[j] = "completed" => Told(j)
    BY <1>26 DEF RecoveryDone
  <2> QED
    BY <2>1, <2>2
<1>27. ASSUME RecoverySkipped PROVE Both
  <2>1. \A r \in Requests : pc'[r] = "finish" => Done(r)
    BY <1>27, HasJob, Parts DEF RecoverySkipped, procVars, TypeOK
  <2>2. \A j \in Jobs : told'[j] = "completed" => Told(j)
    BY <1>27 DEF RecoverySkipped
  <2> QED
    BY <2>1, <2>2
<1>28. ASSUME DeleteProfile PROVE Both
  <2>1. \A r \in Requests : pc'[r] = "finish" => Done(r)
    BY <1>28, HasJob, Parts DEF DeleteProfile, procVars, TypeOK
  <2>2. \A j \in Jobs : told'[j] = "completed" => Told(j)
    BY <1>28 DEF DeleteProfile
  <2> QED
    BY <2>1, <2>2
<1>29. ASSUME UNCHANGED vars PROVE Both
  <2>1. \A r \in Requests : pc'[r] = "finish" => Done(r)
    BY <1>29, HasJob, Parts DEF vars, procVars, TypeOK
  <2>2. \A j \in Jobs : told'[j] = "completed" => Told(j)
    BY <1>29 DEF vars
  <2> QED
    BY <2>1, <2>2
<1>z. Both
  BY <1>1, <1>2, <1>3, <1>4, <1>5, <1>6, <1>7, <1>8, <1>9, <1>10, <1>11,
     <1>12, <1>13, <1>14, <1>15, <1>16, <1>17, <1>18, <1>19, <1>20, <1>21,
     <1>22, <1>23, <1>24, <1>25, <1>26, <1>27, <1>28, <1>29
     DEF Next, RequestStep, StreamStep, HandlerStep, WorkerStep, RunStep,
         ApiStep, Deliveries, Handlers, Processes
<1> QED
  BY <1>a, <1>b, <1>z, RepliesKept

\* Whoever was answered "completed" can download: reruns, failures, crashes
\* and recoveries of the job never take its documents away again.
THEOREM CompletedReplyKept == Spec => []CompletedReplyHasDocuments
<1>1. Init => /\ TypeOK /\ Bookkeeping
              /\ FinishedHasDocuments /\ CompletedReplyHasDocuments
  BY TypeInit, BookInit, RepliesInit
<1>2. /\ TypeOK /\ Bookkeeping /\ FinishedHasDocuments
      /\ CompletedReplyHasDocuments /\ [Next]_vars
      => (/\ TypeOK /\ Bookkeeping
          /\ FinishedHasDocuments /\ CompletedReplyHasDocuments)'
  BY TypeNext, BookNext, RepliesNext
<1> QED
  BY <1>1, <1>2, PTL DEF Spec

-----------------------------------------------------------------------------
(* Only recovery and a worker that dies duplicate a job.                   *)

Holding(j) == {w \in Workers : task[w] = j /\ pc[w] # "settled"}

Enqueuing(j) == {r \in Requests : task[r] = j /\ pc[r] = "enqueue"}

\* The recovery of a restart may still add a message for j.
Reserved(j) == api = "down" \/ j \in toRecover

\* What may have added a copy so far.
Incidents == restarts + deaths

\* The inductive form of DuplicatesBounded for one job: what recovery may still
\* add has its place too, and there are finitely many copies.
Within(j) ==
  /\ IsFiniteSet(Messages(j)) /\ IsFiniteSet(Holding(j)) /\ IsFiniteSet(Enqueuing(j))
  /\ Cardinality(Messages(j)) + Cardinality(Holding(j)) + Cardinality(Enqueuing(j))
       + (IF Reserved(j) THEN 1 ELSE 0)
     <= Incidents + (IF UseCelery THEN 1 ELSE 0)

CopiesCounted == \A j \in Jobs : Within(j)

\* What the size of a set does when it changes by one element at most.
LEMMA Sizes ==
  ASSUME NEW S, NEW T, IsFiniteSet(S)
  PROVE  /\ Cardinality(S) \in Nat
         /\ T \subseteq S => /\ IsFiniteSet(T) /\ Cardinality(T) \in Nat
                             /\ Cardinality(T) <= Cardinality(S)
         /\ \A x : T \subseteq S \cup {x} =>
              /\ IsFiniteSet(T) /\ Cardinality(T) \in Nat
              /\ Cardinality(T) <= Cardinality(S) + 1
         /\ \A x \in S : T \subseteq S \ {x} =>
              /\ IsFiniteSet(T) /\ Cardinality(T) \in Nat
              /\ Cardinality(T) <= Cardinality(S) - 1
<1>1. Cardinality(S) \in Nat
  BY FS_CardinalityType
<1>2. ASSUME NEW U, IsFiniteSet(U), T \subseteq U
      PROVE  IsFiniteSet(T) /\ Cardinality(T) \in Nat /\ Cardinality(T) <= Cardinality(U)
  BY <1>2, FS_Subset, FS_CardinalityType
<1>3. ASSUME NEW x, T \subseteq S \cup {x}
      PROVE  /\ IsFiniteSet(T) /\ Cardinality(T) \in Nat
             /\ Cardinality(T) <= Cardinality(S) + 1
  <2>1. /\ IsFiniteSet(S \cup {x})
        /\ Cardinality(S \cup {x})
             = IF x \in S THEN Cardinality(S) ELSE Cardinality(S) + 1
    BY FS_AddElement
  <2>2. /\ IsFiniteSet(T) /\ Cardinality(T) \in Nat
        /\ Cardinality(T) <= Cardinality(S \cup {x})
    BY <1>2, <1>3, <2>1
  <2> QED
    BY <1>1, <2>1, <2>2
<1>4. ASSUME NEW x \in S, T \subseteq S \ {x}
      PROVE  /\ IsFiniteSet(T) /\ Cardinality(T) \in Nat
             /\ Cardinality(T) <= Cardinality(S) - 1
  <2>1. IsFiniteSet(S \ {x}) /\ Cardinality(S \ {x}) = Cardinality(S) - 1
    BY FS_RemoveElement
  <2>2. /\ IsFiniteSet(T) /\ Cardinality(T) \in Nat
        /\ Cardinality(T) <= Cardinality(S \ {x})
    BY <1>2, <1>4, <2>1
  <2> QED
    BY <2>1, <2>2
<1> QED
  BY <1>1, <1>2, <1>3, <1>4

\* The conclusion of the next lemmas, which say what may happen to the copies of
\* a job: nothing more of it,
LEMMA NoMoreCopies ==
  ASSUME NEW j \in Jobs, Within(j), Incidents \in Nat,
         Messages(j)' \subseteq Messages(j), Holding(j)' \subseteq Holding(j),
         Enqueuing(j)' \subseteq Enqueuing(j),
         \/ Incidents' = Incidents /\ (Reserved(j)' => Reserved(j))
         \/ Incidents' = Incidents + 1
  PROVE  Within(j)'
<1>1. /\ Cardinality(Messages(j)) \in Nat /\ Cardinality(Holding(j)) \in Nat
      /\ Cardinality(Enqueuing(j)) \in Nat
  BY Sizes DEF Within
<1>2. /\ IsFiniteSet(Messages(j)') /\ Cardinality(Messages(j)') \in Nat
      /\ Cardinality(Messages(j)') <= Cardinality(Messages(j))
  BY Sizes DEF Within
<1>3. /\ IsFiniteSet(Holding(j)') /\ Cardinality(Holding(j)') \in Nat
      /\ Cardinality(Holding(j)') <= Cardinality(Holding(j))
  BY Sizes DEF Within
<1>4. /\ IsFiniteSet(Enqueuing(j)') /\ Cardinality(Enqueuing(j)') \in Nat
      /\ Cardinality(Enqueuing(j)') <= Cardinality(Enqueuing(j))
  BY Sizes DEF Within
<1> QED
  BY <1>1, <1>2, <1>3, <1>4 DEF Within

\* a copy that becomes a message,
LEMMA CopyQueued ==
  ASSUME NEW j \in Jobs, Within(j), Incidents \in Nat, NEW x, NEW p,
         Messages(j)' \subseteq Messages(j) \cup {x},
         \/ /\ p \in Holding(j) /\ Holding(j)' \subseteq Holding(j) \ {p}
            /\ Enqueuing(j)' \subseteq Enqueuing(j)
         \/ /\ p \in Enqueuing(j) /\ Enqueuing(j)' \subseteq Enqueuing(j) \ {p}
            /\ Holding(j)' \subseteq Holding(j),
         Incidents' = Incidents, Reserved(j)' => Reserved(j)
  PROVE  Within(j)'
<1>1. /\ Cardinality(Messages(j)) \in Nat /\ Cardinality(Holding(j)) \in Nat
      /\ Cardinality(Enqueuing(j)) \in Nat
  BY Sizes DEF Within
<1>2. /\ IsFiniteSet(Messages(j)') /\ Cardinality(Messages(j)') \in Nat
      /\ Cardinality(Messages(j)') <= Cardinality(Messages(j)) + 1
  BY Sizes DEF Within
<1>3. CASE /\ p \in Holding(j) /\ Holding(j)' \subseteq Holding(j) \ {p}
           /\ Enqueuing(j)' \subseteq Enqueuing(j)
  <2>1. /\ IsFiniteSet(Holding(j)') /\ Cardinality(Holding(j)') \in Nat
        /\ Cardinality(Holding(j)') <= Cardinality(Holding(j)) - 1
    BY <1>3, Sizes DEF Within
  <2>2. /\ IsFiniteSet(Enqueuing(j)') /\ Cardinality(Enqueuing(j)') \in Nat
        /\ Cardinality(Enqueuing(j)') <= Cardinality(Enqueuing(j))
    BY <1>3, Sizes DEF Within
  <2> QED
    BY <1>1, <1>2, <2>1, <2>2 DEF Within
<1>4. CASE /\ p \in Enqueuing(j) /\ Enqueuing(j)' \subseteq Enqueuing(j) \ {p}
           /\ Holding(j)' \subseteq Holding(j)
  <2>1. /\ IsFiniteSet(Enqueuing(j)') /\ Cardinality(Enqueuing(j)') \in Nat
        /\ Cardinality(Enqueuing(j)') <= Cardinality(Enqueuing(j)) - 1
    BY <1>4, Sizes DEF Within
  <2>2. /\ IsFiniteSet(Holding(j)') /\ Cardinality(Holding(j)') \in Nat
        /\ Cardinality(Holding(j)') <= Cardinality(Holding(j))
    BY <1>4, Sizes DEF Within
  <2> QED
    BY <1>1, <1>2, <2>1, <2>2 DEF Within
<1> QED
  BY <1>3, <1>4

\* a message that a worker takes,
LEMMA CopyDelivered ==
  ASSUME NEW j \in Jobs, Within(j), Incidents \in Nat, NEW x \in Messages(j), NEW w,
         Messages(j)' \subseteq Messages(j) \ {x},
         Holding(j)' \subseteq Holding(j) \cup {w},
         Enqueuing(j)' \subseteq Enqueuing(j),
         Incidents' = Incidents, Reserved(j)' => Reserved(j)
  PROVE  Within(j)'
<1>1. /\ Cardinality(Messages(j)) \in Nat /\ Cardinality(Holding(j)) \in Nat
      /\ Cardinality(Enqueuing(j)) \in Nat
  BY Sizes DEF Within
<1>2. /\ IsFiniteSet(Messages(j)') /\ Cardinality(Messages(j)') \in Nat
      /\ Cardinality(Messages(j)') <= Cardinality(Messages(j)) - 1
  BY Sizes DEF Within
<1>3. /\ IsFiniteSet(Holding(j)') /\ Cardinality(Holding(j)') \in Nat
      /\ Cardinality(Holding(j)') <= Cardinality(Holding(j)) + 1
  BY Sizes DEF Within
<1>4. /\ IsFiniteSet(Enqueuing(j)') /\ Cardinality(Enqueuing(j)') \in Nat
      /\ Cardinality(Enqueuing(j)') <= Cardinality(Enqueuing(j))
  BY Sizes DEF Within
<1> QED
  BY <1>1, <1>2, <1>3, <1>4 DEF Within

\* the message of a recovery,
LEMMA CopyRecovered ==
  ASSUME NEW j \in Jobs, Within(j), Incidents \in Nat, NEW x,
         Messages(j)' \subseteq Messages(j) \cup {x},
         Holding(j)' \subseteq Holding(j), Enqueuing(j)' \subseteq Enqueuing(j),
         Incidents' = Incidents, Reserved(j), ~Reserved(j)'
  PROVE  Within(j)'
<1>1. /\ Cardinality(Messages(j)) \in Nat /\ Cardinality(Holding(j)) \in Nat
      /\ Cardinality(Enqueuing(j)) \in Nat
  BY Sizes DEF Within
<1>2. /\ IsFiniteSet(Messages(j)') /\ Cardinality(Messages(j)') \in Nat
      /\ Cardinality(Messages(j)') <= Cardinality(Messages(j)) + 1
  BY Sizes DEF Within
<1>3. /\ IsFiniteSet(Holding(j)') /\ Cardinality(Holding(j)') \in Nat
      /\ Cardinality(Holding(j)') <= Cardinality(Holding(j))
  BY Sizes DEF Within
<1>4. /\ IsFiniteSet(Enqueuing(j)') /\ Cardinality(Enqueuing(j)') \in Nat
      /\ Cardinality(Enqueuing(j)') <= Cardinality(Enqueuing(j))
  BY Sizes DEF Within
<1> QED
  BY <1>1, <1>2, <1>3, <1>4 DEF Within

\* a message that is delivered again although its job is settled,
LEMMA CopyRedelivered ==
  ASSUME NEW j \in Jobs, Within(j), Incidents \in Nat, NEW x,
         Messages(j)' \subseteq Messages(j) \cup {x},
         Holding(j)' \subseteq Holding(j), Enqueuing(j)' \subseteq Enqueuing(j),
         Incidents' = Incidents + 1, Reserved(j)' => Reserved(j)
  PROVE  Within(j)'
<1>1. /\ Cardinality(Messages(j)) \in Nat /\ Cardinality(Holding(j)) \in Nat
      /\ Cardinality(Enqueuing(j)) \in Nat
  BY Sizes DEF Within
<1>2. /\ IsFiniteSet(Messages(j)') /\ Cardinality(Messages(j)') \in Nat
      /\ Cardinality(Messages(j)') <= Cardinality(Messages(j)) + 1
  BY Sizes DEF Within
<1>3. /\ IsFiniteSet(Holding(j)') /\ Cardinality(Holding(j)') \in Nat
      /\ Cardinality(Holding(j)') <= Cardinality(Holding(j))
  BY Sizes DEF Within
<1>4. /\ IsFiniteSet(Enqueuing(j)') /\ Cardinality(Enqueuing(j)') \in Nat
      /\ Cardinality(Enqueuing(j)') <= Cardinality(Enqueuing(j))
  BY Sizes DEF Within
<1> QED
  BY <1>1, <1>2, <1>3, <1>4 DEF Within

\* the first copy of a new job.
LEMMA CopyMade ==
  ASSUME NEW j \in Jobs, Incidents \in Nat, NEW r, UseCelery,
         Messages(j)' = {}, Holding(j)' = {}, Enqueuing(j)' \subseteq {r},
         Incidents' = Incidents, ~Reserved(j)'
  PROVE  Within(j)'
<1>1. IsFiniteSet({}) /\ Cardinality({}) = 0
  BY FS_EmptySet
<1>2. Enqueuing(j)' \subseteq {} \cup {r}
  OBVIOUS
<1>3. /\ IsFiniteSet(Enqueuing(j)') /\ Cardinality(Enqueuing(j)') \in Nat
      /\ Cardinality(Enqueuing(j)') <= 0 + 1
  BY <1>1, <1>2, Sizes
<1> QED
  BY <1>1, <1>3 DEF Within

-----------------------------------------------------------------------------
(* What the actions do to the copies.                                      *)

LEMMA MessagesOf ==
  ASSUME NEW j
  PROVE  \A x : x \in Messages(j) <=>
           \E n \in 0 .. MaxRetries : \E i \in 1 .. queue[j][n] : x = <<n, i>>
BY DEF Messages

LEMMA MessagesOfNext ==
  ASSUME NEW j
  PROVE  \A x : x \in Messages(j)' <=>
           \E n \in 0 .. MaxRetries : \E i \in 1 .. queue'[j][n] : x = <<n, i>>
BY DEF Messages

LEMMA SameMessages == ASSUME UNCHANGED queue, NEW j PROVE Messages(j)' = Messages(j)
BY DEF Messages

\* One more message, for j.
LEMMA OneMoreMessage ==
  ASSUME TypeOK, NEW j \in Jobs, NEW n \in 0 .. MaxRetries, WithMessage(j, n)
  PROVE  /\ Messages(j)' \subseteq Messages(j) \cup {<<n, queue[j][n] + 1>>}
         /\ \A k \in Jobs \ {j} : Messages(k)' \subseteq Messages(k)
<1>1. /\ queue'[j][n] = queue[j][n] + 1 /\ queue[j][n] \in Nat
      /\ \A m \in (0 .. MaxRetries) \ {n} : queue'[j][m] = queue[j][m]
      /\ \A k \in Jobs \ {j} : queue'[k] = queue[k]
  BY DEF WithMessage, TypeOK, TasksOK
<1>2. ASSUME NEW m \in 0 .. MaxRetries, NEW i \in 1 .. queue'[j][m]
      PROVE  <<m, i>> \in Messages(j) \cup {<<n, queue[j][n] + 1>>}
  <2>1. CASE m # n
    BY <1>1, <2>1, MessagesOf
  <2>2. CASE m = n /\ i = queue[j][n] + 1
    BY <2>2
  <2>3. CASE m = n /\ i # queue[j][n] + 1
    <3>1. i \in 1 .. queue[j][m]
      BY <1>1, <2>3
    <3> QED
      BY <3>1, MessagesOf
  <2> QED
    BY <2>1, <2>2, <2>3
<1>3. ASSUME NEW k \in Jobs \ {j} PROVE Messages(k)' \subseteq Messages(k)
  BY <1>1, <1>3 DEF Messages
<1> QED
  BY <1>2, <1>3, MessagesOfNext

\* A message of j is taken from the queue.
LEMMA OneMessageLess ==
  ASSUME TypeOK, NEW j \in Jobs, NEW n \in 0 .. MaxRetries, queue[j][n] > 0,
         queue' = [queue EXCEPT ![j][n] = @ - 1]
  PROVE  /\ <<n, queue[j][n]>> \in Messages(j)
         /\ Messages(j)' \subseteq Messages(j) \ {<<n, queue[j][n]>>}
         /\ \A k \in Jobs \ {j} : Messages(k)' \subseteq Messages(k)
<1>1. /\ queue'[j][n] = queue[j][n] - 1 /\ queue[j][n] \in Nat
      /\ \A m \in (0 .. MaxRetries) \ {n} : queue'[j][m] = queue[j][m]
      /\ \A k \in Jobs \ {j} : queue'[k] = queue[k]
  BY DEF TypeOK, TasksOK
<1>2. <<n, queue[j][n]>> \in Messages(j)
  <2>1. queue[j][n] \in 1 .. queue[j][n]
    BY <1>1
  <2> QED
    BY <2>1, MessagesOf
<1>3. ASSUME NEW m \in 0 .. MaxRetries, NEW i \in 1 .. queue'[j][m]
      PROVE  <<m, i>> \in Messages(j) \ {<<n, queue[j][n]>>}
  <2>1. CASE m # n
    BY <1>1, <2>1, MessagesOf
  <2>2. CASE m = n
    <3>1. i \in 1 .. queue[j][m] /\ i # queue[j][n]
      BY <1>1, <2>2
    <3> QED
      BY <3>1, MessagesOf
  <2> QED
    BY <2>1, <2>2
<1>4. ASSUME NEW k \in Jobs \ {j} PROVE Messages(k)' \subseteq Messages(k)
  BY <1>1, <1>4 DEF Messages
<1> QED
  BY <1>2, <1>3, <1>4, MessagesOfNext

\* Processes that rest hold nothing.
LEMMA RestHolds ==
  ASSUME TypeOK, NEW P, Rest(P), NEW j \in Jobs
  PROVE  Holding(j)' \subseteq Holding(j) \ P /\ Enqueuing(j)' \subseteq Enqueuing(j) \ P
<1>1. \A p \in Processes :
        /\ p \in P => task'[p] = NoJob
        /\ p \notin P => task'[p] = task[p] /\ pc'[p] = pc[p]
  BY DEF Rest
<1> QED
  BY <1>1, Parts, ProcessAssumption DEF Holding, Enqueuing

\* A process that goes on to a step other than "enqueue" holds what it held at
\* most, and nothing when it has settled its job.
LEMMA GoHolds ==
  ASSUME TypeOK, NEW p \in Processes, pc[p] # "settled",
         NEW step, step # "enqueue", Go(p, step), NEW j \in Jobs
  PROVE  /\ Holding(j)' \subseteq Holding(j)
         /\ Enqueuing(j)' \subseteq Enqueuing(j)
         /\ step = "settled" => p \notin Holding(j)' \cup Enqueuing(j)'
<1>1. \A q \in Processes :
        /\ pc'[q] = "enqueue" => pc[q] = "enqueue"
        /\ pc'[q] # "settled" => pc[q] # "settled"
  BY DEF Go, TypeOK, ProcsOK
<1>2. pc'[p] = step
  BY DEF Go, TypeOK, ProcsOK
<1> QED
  BY <1>1, <1>2, Parts DEF Go, Holding, Enqueuing

\* A process takes job i.
LEMMA TakeHolds ==
  ASSUME TypeOK, NEW p \in Processes, NEW i \in Jobs, NEW n, NEW cached, NEW step,
         Take(p, i, n, cached, step), NEW j \in Jobs
  PROVE  /\ Holding(j)' \subseteq IF j = i /\ p \in Workers THEN Holding(j) \cup {p}
                                  ELSE Holding(j)
         /\ Enqueuing(j)' \subseteq IF j = i /\ p \in Requests /\ step = "enqueue"
                                    THEN Enqueuing(j) \cup {p} ELSE Enqueuing(j)
<1>1. /\ task'[p] = i /\ pc'[p] = step
      /\ \A q \in Processes \ {p} : task'[q] = task[q] /\ pc'[q] = pc[q]
  BY DEF Take, TypeOK, ProcsOK
<1> QED
  BY <1>1, Parts DEF Holding, Enqueuing

\* A step that leaves queue and API alone and after which nobody holds more.
LEMMA NobodyHoldsMore ==
  ASSUME TypeOK, CopiesCounted, UNCHANGED <<queue, apiVars, countVars>>,
         \A j \in Jobs :
           Holding(j)' \subseteq Holding(j) /\ Enqueuing(j)' \subseteq Enqueuing(j)
  PROVE  CopiesCounted'
<1> SUFFICES ASSUME NEW j \in Jobs PROVE Within(j)'
  BY DEF CopiesCounted
<1>1. Messages(j)' = Messages(j)
  BY SameMessages
<1>2. Reserved(j)' => Reserved(j)
  BY DEF Reserved, apiVars
<1>3. Incidents \in Nat /\ Incidents' = Incidents /\ Within(j)
  BY ConfigAssumption
     DEF TypeOK, ApiOK, CopiesCounted, Incidents, countVars
<1> QED
  BY <1>1, <1>2, <1>3, NoMoreCopies

\* The message or the call of p becomes a message of the queue.
LEMMA HolderQueues ==
  ASSUME TypeOK, CopiesCounted, NEW p \in Workers \cup Requests,
         IF p \in Workers THEN pc[p] \notin {"idle", "settled"}
                          ELSE pc[p] = "enqueue",
         NEW n \in 0 .. MaxRetries, WithMessage(task[p], n),
         Rest({p}) \/ Go(p, "settled"),
         UNCHANGED <<apiVars, countVars>>
  PROVE  CopiesCounted'
<1> SUFFICES ASSUME NEW j \in Jobs PROVE Within(j)'
  BY DEF CopiesCounted
<1>1. task[p] \in Jobs
  BY HasJob, Parts DEF TypeOK
<1>2. Reserved(j)' => Reserved(j)
  BY DEF Reserved, apiVars
<1>3. Incidents \in Nat /\ Incidents' = Incidents /\ Within(j)
  BY ConfigAssumption
     DEF TypeOK, ApiOK, CopiesCounted, Incidents, countVars
<1>4. Holding(j)' \subseteq Holding(j) \ {p} /\ Enqueuing(j)' \subseteq Enqueuing(j) \ {p}
  <2>1. p \in Processes /\ pc[p] # "settled"
    BY Parts
  <2>2. CASE Rest({p})
    BY <2>2, RestHolds
  <2>3. CASE Go(p, "settled")
    BY <2>1, <2>3, GoHolds
  <2> QED
    BY <2>2, <2>3
<1>5. CASE j = task[p]
  <2>1. Messages(j)' \subseteq Messages(j) \cup {<<n, queue[j][n] + 1>>}
    BY <1>1, <1>5, OneMoreMessage
  <2>2. p \in Holding(j) \/ p \in Enqueuing(j)
    BY <1>5 DEF Holding, Enqueuing
  <2> QED
    BY <1>2, <1>3, <1>4, <2>1, <2>2, CopyQueued
<1>6. CASE j # task[p]
  BY <1>1, <1>2, <1>3, <1>4, <1>6, OneMoreMessage, NoMoreCopies
<1> QED
  BY <1>5, <1>6

\* The message of a worker that dies is delivered again: at worst a settled one.
LEMMA MessageReturns ==
  ASSUME TypeOK, CopiesCounted, NEW w \in Workers, pc[w] # "idle",
         NEW n \in 0 .. MaxRetries, WithMessage(task[w], n), Rest({w}),
         UNCHANGED apiVars, Incidents \in Nat, Incidents' = Incidents + 1
  PROVE  CopiesCounted'
<1> SUFFICES ASSUME NEW j \in Jobs PROVE Within(j)'
  BY DEF CopiesCounted
<1>1. task[w] \in Jobs
  BY HasJob, Parts DEF TypeOK
<1>2. Reserved(j)' => Reserved(j)
  BY DEF Reserved, apiVars
<1>3. Within(j)
  BY DEF CopiesCounted
<1>4. Holding(j)' \subseteq Holding(j) /\ Enqueuing(j)' \subseteq Enqueuing(j)
  BY RestHolds
<1>5. CASE j = task[w]
  <2>1. Messages(j)' \subseteq Messages(j) \cup {<<n, queue[j][n] + 1>>}
    BY <1>1, <1>5, OneMoreMessage
  <2> QED
    BY <1>2, <1>3, <1>4, <2>1, CopyRedelivered
<1>6. CASE j # task[w]
  <2>1. Messages(j)' \subseteq Messages(j)
    BY <1>1, <1>6, OneMoreMessage
  <2> QED
    BY <1>3, <1>4, <2>1, NoMoreCopies
<1> QED
  BY <1>5, <1>6

LEMMA CopiesInit == Init => CopiesCounted
<1> SUFFICES ASSUME Init, NEW j \in Jobs PROVE Within(j)
  BY DEF CopiesCounted
<1>1. Messages(j) = {}
  <2>1. \A n \in 0 .. MaxRetries : queue[j][n] = 0
    BY DEF Init
  <2> QED
    BY <2>1, MessagesOf
<1>2. Holding(j) = {} /\ Enqueuing(j) = {}
  BY Parts, ProcessAssumption DEF Init, Holding, Enqueuing
<1>3. ~Reserved(j) /\ Incidents = 0
  BY DEF Init, Reserved, Incidents
<1> QED
  BY <1>1, <1>2, <1>3, FS_EmptySet DEF Within

LEMMA CopiesNext ==
  TypeOK /\ Bookkeeping /\ CopiesCounted /\ [Next]_vars => CopiesCounted'
<1> SUFFICES ASSUME TypeOK, Bookkeeping, CopiesCounted, [Next]_vars
             PROVE  CopiesCounted'
  OBVIOUS
<1> USE DEF rowVars, taskVars, apiVars, countVars
<1>a. Incidents \in Nat /\ \A j \in Jobs : Within(j)
  BY ConfigAssumption DEF TypeOK, ApiOK, CopiesCounted, Incidents
<1>1. ASSUME NEW r \in Requests, NEW i \in Jobs, CreateJob(r, i) PROVE CopiesCounted'
  <2> SUFFICES ASSUME NEW j \in Jobs PROVE Within(j)'
    BY DEF CopiesCounted
  <2>1. Messages(j)' = Messages(j) /\ (Reserved(j)' => Reserved(j)) /\ Incidents' = Incidents
    BY <1>1, SameMessages DEF CreateJob, Reserved, Incidents
  <2>2. r \in Processes /\ r \notin Workers
    BY Parts, ProcessAssumption
  <2>3. Take(r, i, 0, "pending", IF UseCelery THEN "enqueue" ELSE "mark")
    BY <1>1 DEF CreateJob
  <2>4. CASE j = i /\ UseCelery
    <3>1. status[j] = "absent" /\ api \in {"up", "degraded"}
      BY <1>1, <2>4 DEF CreateJob, Serving
    <3>2. Messages(j) = {}
      <4>1. \A n \in 0 .. MaxRetries : queue[j][n] \in Nat /\ ~(queue[j][n] > 0)
        BY <3>1 DEF Bookkeeping, QueuedOK, TypeOK, TasksOK
      <4>2. \A n \in 0 .. MaxRetries : queue[j][n] = 0
        BY <4>1
      <4> QED
        BY <4>2, MessagesOf
    <3>3. Holding(j) = {} /\ Enqueuing(j) = {}
      <4>1. \A p \in Processes : task[p] = j => status[j] # "absent"
        BY ProcessAssumption DEF Bookkeeping, HeldOK, Progressed, TypeOK, ProcsOK
      <4> QED
        BY <3>1, <4>1, Parts DEF Holding, Enqueuing
    <3>4. ~Reserved(j)
      BY <3>1 DEF Reserved, Bookkeeping, RecoverOK
    <3>5. Holding(j)' = {} /\ Enqueuing(j)' \subseteq {r}
      BY <2>2, <2>3, <3>3, TakeHolds
    <3> QED
      BY <1>a, <2>1, <2>4, <3>2, <3>4, <3>5, CopyMade
  <2>5. CASE ~(j = i /\ UseCelery)
    <3>1. Holding(j)' \subseteq Holding(j) /\ Enqueuing(j)' \subseteq Enqueuing(j)
      BY <2>2, <2>3, <2>5, TakeHolds
    <3> QED
      BY <1>a, <2>1, <3>1, NoMoreCopies
  <2> QED
    BY <2>4, <2>5
<1>2. ASSUME NEW s \in Streams, NEW i \in Jobs, Connect(s, i) PROVE CopiesCounted'
  <2>1. s \in Processes /\ s \notin Workers /\ s \notin Requests
    BY Parts, ProcessAssumption
  <2>2. Take(s, i, 0, "pending", "mark")
    BY <1>2 DEF Connect
  <2>3. \A j \in Jobs :
          Holding(j)' \subseteq Holding(j) /\ Enqueuing(j)' \subseteq Enqueuing(j)
    BY <2>1, <2>2, TakeHolds
  <2> QED
    BY <1>2, <2>3, NobodyHoldsMore DEF Connect
<1>3. ASSUME NEW r \in Requests, Enqueue(r) PROVE CopiesCounted'
  <2>1. 0 \in 0 .. MaxRetries /\ r \notin Workers
    BY ConfigAssumption, ProcessAssumption
  <2> QED
    BY <1>3, <2>1, HolderQueues DEF Enqueue
<1>4. ASSUME NEW p \in Processes, NEW P, Rest(P), UNCHANGED <<queue, apiVars, countVars>>
      PROVE  CopiesCounted'
  <2>1. \A j \in Jobs :
          Holding(j)' \subseteq Holding(j) /\ Enqueuing(j)' \subseteq Enqueuing(j)
    BY <1>4, RestHolds
  <2> QED
    BY <1>4, <2>1, NobodyHoldsMore
<1>5. ASSUME NEW p \in Processes, pc[p] # "settled",
             NEW step, step # "enqueue", Go(p, step),
             UNCHANGED <<queue, apiVars, countVars>>
      PROVE  CopiesCounted'
  <2>1. \A j \in Jobs :
          Holding(j)' \subseteq Holding(j) /\ Enqueuing(j)' \subseteq Enqueuing(j)
    BY <1>5, GoHolds
  <2> QED
    BY <1>5, <2>1, NobodyHoldsMore
<1>6. ASSUME NEW r \in Requests, EnqueueFails(r) PROVE CopiesCounted'
  <2>1. CASE WithMessage(task[r], 0)
    <3>1. 0 \in 0 .. MaxRetries /\ r \notin Workers
      BY ConfigAssumption, ProcessAssumption
    <3> QED
      BY <1>6, <2>1, <3>1, HolderQueues DEF EnqueueFails
  <2>2. CASE UNCHANGED queue
    BY <1>4, <1>6, <2>2, Parts DEF EnqueueFails
  <2> QED
    BY <1>6, <2>1, <2>2 DEF EnqueueFails
<1>7. ASSUME NEW p \in Processes, RunStep(p) PROVE CopiesCounted'
  BY <1>5, <1>7 DEF RunStep, LoadProfile, RunSucceeds, RunFails, Complete, Publish
<1>8. ASSUME NEW h \in Processes, HandlerStep(h) PROVE CopiesCounted'
  <2>1. CASE MarkProcessing(h) \/ HandlerRaises(h)
    BY <1>5, <2>1 DEF MarkProcessing, HandlerRaises
  <2>2. CASE HandlerFinishes(h) \/ HandlerFails(h) \/ HandlerBreaks(h)
    BY <1>4, <2>2 DEF HandlerFinishes, HandlerFails, HandlerBreaks
  <2> QED
    BY <1>7, <1>8, <2>1, <2>2 DEF HandlerStep
<1>9. ASSUME NEW s \in Streams, StreamGivesUp(s) \/ StreamSendFails(s) PROVE CopiesCounted'
  <2>1. CASE StreamGivesUp(s)
    BY <1>4, <2>1, Parts DEF StreamGivesUp
  <2>2. CASE StreamSendFails(s)
    BY <1>5, <2>2, Parts DEF StreamSendFails
  <2> QED
    BY <1>9, <2>1, <2>2
<1>10. ASSUME NEW w \in Workers, NEW i \in Jobs, NEW n \in 0 .. MaxRetries, Deliver(w, i, n)
       PROVE  CopiesCounted'
  <2> SUFFICES ASSUME NEW j \in Jobs PROVE Within(j)'
    BY DEF CopiesCounted
  <2>1. (Reserved(j)' => Reserved(j)) /\ Incidents' = Incidents
    BY <1>10 DEF Deliver, Reserved, Incidents
  <2>2. w \in Processes /\ w \notin Requests
    BY Parts, ProcessAssumption
  <2>3. /\ Holding(j)' \subseteq IF j = i THEN Holding(j) \cup {w} ELSE Holding(j)
        /\ Enqueuing(j)' \subseteq Enqueuing(j)
    <3>1. CASE status[i] = "deleted"
      BY <1>10, <3>1 DEF Deliver, procVars, Holding, Enqueuing
    <3>2. CASE status[i] # "deleted"
      <4>1. Take(w, i, n, status[i], "load")
        BY <1>10, <3>2 DEF Deliver
      <4> QED
        BY <2>2, <4>1, TakeHolds
    <3> QED
      BY <3>1, <3>2
  <2>4. /\ <<n, queue[i][n]>> \in Messages(i)
        /\ Messages(i)' \subseteq Messages(i) \ {<<n, queue[i][n]>>}
        /\ \A k \in Jobs \ {i} : Messages(k)' \subseteq Messages(k)
    BY <1>10, OneMessageLess DEF Deliver
  <2>5. CASE j = i
    BY <1>a, <2>1, <2>3, <2>4, <2>5, CopyDelivered
  <2>6. CASE j # i
    BY <1>a, <2>1, <2>3, <2>4, <2>6, NoMoreCopies
  <2> QED
    BY <2>5, <2>6
<1>11. ASSUME NEW w \in Workers, Acknowledge(w) PROVE CopiesCounted'
  BY <1>4, <1>11, Parts DEF Acknowledge
<1>12. ASSUME NEW w \in Workers, WorkerFails(w) \/ WorkerRaises(w) PROVE CopiesCounted'
  BY <1>5, <1>12, Parts DEF WorkerFails, WorkerRaises
<1>13. ASSUME NEW w \in Workers, WorkerRetries(w) PROVE CopiesCounted'
  <2>1. tries[w] + 1 \in 0 .. MaxRetries
    BY <1>13, Parts, ConfigAssumption DEF WorkerRetries, TypeOK, ProcsOK
  <2> QED
    BY <1>13, <2>1, HolderQueues DEF WorkerRetries
<1>14. ASSUME NEW w \in Workers, WorkerDies(w) PROVE CopiesCounted'
  <2>1. tries[w] \in 0 .. MaxRetries
    BY Parts DEF TypeOK, ProcsOK
  <2>2. Incidents' = Incidents + 1
    BY <1>14, ConfigAssumption DEF WorkerDies, Incidents, TypeOK, ApiOK
  <2> QED
    BY <1>14, <1>a, <2>1, <2>2, MessageReturns DEF WorkerDies
<1>15. ASSUME ApiStarts PROVE CopiesCounted'
  <2> SUFFICES ASSUME NEW j \in Jobs PROVE Within(j)'
    BY DEF CopiesCounted
  <2>1. Messages(j)' = Messages(j) /\ Reserved(j) /\ Incidents' = Incidents
    BY <1>15, SameMessages DEF ApiStarts, Reserved, Incidents
  <2>2. Holding(j)' = Holding(j) /\ Enqueuing(j)' = Enqueuing(j)
    BY <1>15 DEF ApiStarts, procVars, Holding, Enqueuing
  <2> QED
    BY <1>a, <2>1, <2>2, NoMoreCopies
<1>16. ASSUME RecoveryDone \/ RecoverySkipped PROVE CopiesCounted'
  <2> SUFFICES ASSUME NEW j \in Jobs PROVE Within(j)'
    BY DEF CopiesCounted
  <2>1. Messages(j)' = Messages(j) /\ ~Reserved(j)' /\ Incidents' = Incidents
    BY <1>16, SameMessages DEF RecoveryDone, RecoverySkipped, Reserved, Incidents
  <2>2. Holding(j)' = Holding(j) /\ Enqueuing(j)' = Enqueuing(j)
    BY <1>16 DEF RecoveryDone, RecoverySkipped, procVars, Holding, Enqueuing
  <2> QED
    BY <1>a, <2>1, <2>2, NoMoreCopies
<1>17. ASSUME NEW i \in Jobs, RecoverJob(i) PROVE CopiesCounted'
  <2> SUFFICES ASSUME NEW j \in Jobs PROVE Within(j)'
    BY DEF CopiesCounted
  <2>1. Holding(j)' = Holding(j) /\ Enqueuing(j)' = Enqueuing(j) /\ Incidents' = Incidents
    BY <1>17 DEF RecoverJob, procVars, Holding, Enqueuing, Incidents
  <2>2. 0 \in 0 .. MaxRetries
    BY ConfigAssumption
  <2>3. CASE j = i
    <3>1. Messages(j)' \subseteq Messages(j) \cup {<<0, queue[j][0] + 1>>}
      BY <1>17, <2>2, <2>3, OneMoreMessage DEF RecoverJob
    <3>2. Reserved(j) /\ ~Reserved(j)'
      BY <1>17, <2>3 DEF RecoverJob, Reserved
    <3> QED
      BY <1>a, <2>1, <3>1, <3>2, CopyRecovered
  <2>4. CASE j # i
    <3>1. Messages(j)' \subseteq Messages(j)
      BY <1>17, <2>2, <2>4, OneMoreMessage DEF RecoverJob
    <3>2. Reserved(j)' => Reserved(j)
      BY <1>17 DEF RecoverJob, Reserved
    <3> QED
      BY <1>a, <2>1, <3>1, <3>2, NoMoreCopies
  <2> QED
    BY <2>3, <2>4
<1>18. ASSUME ApiDies PROVE CopiesCounted'
  <2> SUFFICES ASSUME NEW j \in Jobs PROVE Within(j)'
    BY DEF CopiesCounted
  <2>1. Messages(j)' = Messages(j) /\ Incidents' = Incidents + 1
    BY <1>18, SameMessages, ConfigAssumption
       DEF ApiDies, Incidents, TypeOK, ApiOK
  <2>2. Holding(j)' \subseteq Holding(j) /\ Enqueuing(j)' \subseteq Enqueuing(j)
    BY <1>18, RestHolds DEF ApiDies
  <2> QED
    BY <1>a, <2>1, <2>2, NoMoreCopies
<1>19. CASE DeleteProfile \/ UNCHANGED vars
  <2>1. UNCHANGED <<queue, apiVars, countVars, pc, task>>
    BY <1>19 DEF DeleteProfile, vars, procVars
  <2> QED
    BY <2>1, NobodyHoldsMore DEF Holding, Enqueuing
<1> QED
  BY <1>1, <1>2, <1>3, <1>6, <1>7, <1>8, <1>9, <1>10, <1>11, <1>12, <1>13, <1>14,
     <1>15, <1>16, <1>17, <1>18, <1>19, Parts
     DEF Next, RequestStep, StreamStep, WorkerStep, Deliveries, ApiStep

\* For any number of workers, requests and faults, a job has one message, worker
\* or call to the broker, and one more for every restart of the API and every
\* worker that died.
THEOREM DuplicatesStayBounded == Spec => []DuplicatesBounded
<1>1. Init => TypeOK /\ Bookkeeping /\ CopiesCounted
  BY TypeInit, BookInit, CopiesInit
<1>2. TypeOK /\ Bookkeeping /\ CopiesCounted /\ [Next]_vars
        => (TypeOK /\ Bookkeeping /\ CopiesCounted)'
  BY TypeNext, BookNext, CopiesNext
<1>3. TypeOK /\ CopiesCounted => DuplicatesBounded
  <2> SUFFICES ASSUME TypeOK, NEW j \in Jobs, Within(j)
               PROVE  Copies(j) <= restarts + deaths + (IF UseCelery THEN 1 ELSE 0)
    BY DEF CopiesCounted, DuplicatesBounded
  <2>1. Copies(j) = Cardinality(Messages(j)) + Cardinality(Holding(j))
                      + Cardinality(Enqueuing(j))
    BY DEF Copies, Holding, Enqueuing
  <2>2. Copies(j) \in Nat /\ Incidents \in Nat
    BY <2>1, ConfigAssumption, FS_CardinalityType
       DEF Within, Incidents, TypeOK, ApiOK
  <2>3. Copies(j) + (IF Reserved(j) THEN 1 ELSE 0)
          <= Incidents + (IF UseCelery THEN 1 ELSE 0)
    BY <2>1 DEF Within
  <2> QED
    BY <2>2, <2>3 DEF Incidents
<1> QED
  BY <1>1, <1>2, <1>3, PTL DEF Spec

-----------------------------------------------------------------------------
(* The kinds of steps, as the client of a job sees them.                   *)

SamePhases ==
  \A j \in Jobs :
    /\ Phase(j)' = Phase(j)
    /\ status[j] = "absent" => urls'[j] = urls[j]

\* The step answers nobody and gives no request a job.
Quiet ==
  /\ SamePhases
  /\ told' = told
  /\ \A r \in Requests : task'[r] \in {task[r], NoJob}

Replied(r, reply) ==
  /\ SamePhases
  /\ pc[r] # "idle"
  /\ reply = "completed" => pc[r] = "finish"
  /\ told' = [told EXCEPT ![task[r]] = reply]
  /\ Rest({r})

StepKind ==
  \/ Quiet
  \/ \E r \in Requests, j \in Jobs : CreateJob(r, j)
  \/ \E r \in Requests, reply \in {"queued", "completed", "error"} :
       Replied(r, reply)
  \/ \E p \in Processes : Publish(p)
  \/ DeleteProfile

-----------------------------------------------------------------------------

LEMMA SamePhase == ASSUME UNCHANGED <<status, urls>> PROVE SamePhases
BY DEF SamePhases, Phase

LEMMA SetStatusPhase ==
  ASSUME TypeOK, Bookkeeping, NEW p \in Processes, pc[p] # "idle",
         NEW new \in {"processing", "completed", "failed"},
         SetStatus(p, new), UNCHANGED urls
  PROVE  SamePhases
<1>1. task[p] \in Jobs /\ status[task[p]] # "absent"
  BY HasJob DEF TypeOK, Bookkeeping, HeldOK, Progressed
<1> SUFFICES ASSUME NEW j \in Jobs PROVE Phase(j)' = Phase(j)
  BY DEF SamePhases
<1>2. CASE j = task[p]
  BY <1>1, <1>2 DEF SetStatus, NewStatus, Phase, TypeOK, RowsOK
<1>3. CASE j # task[p]
  BY <1>1, <1>3 DEF SetStatus, NewStatus, Phase, TypeOK, RowsOK
<1> QED
  BY <1>2, <1>3

LEMMA StepKinds == TypeOK /\ Bookkeeping /\ [Next]_vars => StepKind
<1> SUFFICES ASSUME TypeOK, Bookkeeping, [Next]_vars PROVE StepKind
  OBVIOUS
<1>1. ASSUME NEW r \in Requests, NEW j \in Jobs, CreateJob(r, j) PROVE StepKind
  BY <1>1 DEF StepKind
<1>2. ASSUME NEW r \in Requests, Enqueue(r) PROVE StepKind
  BY <1>2, SamePhase DEF Enqueue, rowVars, StepKind, Replied, Tell
<1>3. ASSUME NEW r \in Requests, EnqueueFails(r) PROVE StepKind
  BY <1>3, SamePhase DEF EnqueueFails, rowVars, StepKind, Replied, Tell
<1>4. ASSUME NEW s \in Streams, NEW j \in Jobs, Connect(s, j) PROVE StepKind
  BY <1>4, SamePhase, Parts, ProcessAssumption DEF Connect, Take, rowVars,
     StepKind, Quiet, TypeOK, ProcsOK
<1>5. ASSUME NEW s \in Streams, StreamGivesUp(s) PROVE StepKind
  BY <1>5, SamePhase, Parts, ProcessAssumption DEF StreamGivesUp, Rest,
     rowVars, StepKind, Quiet, TypeOK, ProcsOK
<1>6. ASSUME NEW s \in Streams, StreamSendFails(s) PROVE StepKind
  BY <1>6, SamePhase, Parts, ProcessAssumption DEF StreamSendFails, Go,
     rowVars, StepKind, Quiet, TypeOK, ProcsOK
<1>7. ASSUME NEW h \in Handlers, MarkProcessing(h) PROVE StepKind
  <2>1. SamePhases
    BY <1>7, Parts, SetStatusPhase DEF MarkProcessing
  <2> QED
    BY <1>7, <2>1, Parts DEF MarkProcessing, Go, StepKind, Quiet
<1>8. ASSUME NEW p \in Processes, LoadProfile(p) PROVE StepKind
  BY <1>8, SamePhase, Parts, ProcessAssumption DEF LoadProfile, Go, rowVars,
     StepKind, Quiet, TypeOK, ProcsOK
<1>9. ASSUME NEW p \in Processes, RunSucceeds(p) PROVE StepKind
  BY <1>9, SamePhase, Parts, ProcessAssumption DEF RunSucceeds, Go, rowVars,
     StepKind, Quiet, TypeOK, ProcsOK
<1>10. ASSUME NEW p \in Processes, RunFails(p) PROVE StepKind
  BY <1>10, SamePhase, Parts, ProcessAssumption DEF RunFails, Go, rowVars,
     StepKind, Quiet, TypeOK, ProcsOK
<1>11. ASSUME NEW p \in Processes, Complete(p) PROVE StepKind
  <2>1. SamePhases
    BY <1>11, Parts, SetStatusPhase DEF Complete
  <2> QED
    BY <1>11, <2>1, Parts DEF Complete, Go, StepKind, Quiet
<1>12. ASSUME NEW p \in Processes, Publish(p) PROVE StepKind
  BY <1>12 DEF StepKind
<1>13. ASSUME NEW h \in Handlers, HandlerFinishes(h) PROVE StepKind
  <2>1. SamePhases
    BY <1>13, Parts, SamePhase DEF HandlerFinishes, rowVars
  <2>2. CASE h \in Requests
    BY <1>13, <2>1, <2>2 DEF HandlerFinishes, Reply, Tell, StepKind, Replied
  <2>3. CASE h \notin Requests
    BY <1>13, <2>1, <2>3, Parts DEF HandlerFinishes, Reply, Tell, StepKind,
       Quiet, Rest
  <2> QED
    BY <2>2, <2>3
<1>14. ASSUME NEW h \in Handlers, HandlerFails(h) PROVE StepKind
  <2>1. SamePhases
    BY <1>14, Parts, SetStatusPhase DEF HandlerFails
  <2>2. CASE h \in Requests
    BY <1>14, <2>1, <2>2 DEF HandlerFails, Reply, Tell, StepKind, Replied
  <2>3. CASE h \notin Requests
    BY <1>14, <2>1, <2>3, Parts DEF HandlerFails, Reply, Tell, StepKind,
       Quiet, Rest
  <2> QED
    BY <2>2, <2>3
<1>15. ASSUME NEW h \in Handlers, HandlerRaises(h) PROVE StepKind
  BY <1>15, SamePhase, Parts, ProcessAssumption DEF HandlerRaises, Go,
     rowVars, StepKind, Quiet, TypeOK, ProcsOK
<1>16. ASSUME NEW h \in Handlers, HandlerBreaks(h) PROVE StepKind
  <2>1. SamePhases
    BY <1>16, Parts, SamePhase DEF HandlerBreaks, rowVars
  <2>2. CASE h \in Requests
    BY <1>16, <2>1, <2>2 DEF HandlerBreaks, Reply, Tell, StepKind, Replied
  <2>3. CASE h \notin Requests
    BY <1>16, <2>1, <2>3, Parts DEF HandlerBreaks, Reply, Tell, StepKind,
       Quiet, Rest
  <2> QED
    BY <2>2, <2>3
<1>17. ASSUME NEW w \in Workers, NEW j \in Jobs, NEW n \in 0..MaxRetries,
              Deliver(w, j, n)
       PROVE  StepKind
  BY <1>17, SamePhase, Parts, ProcessAssumption DEF Deliver, Take, rowVars,
     procVars, StepKind, Quiet, TypeOK, ProcsOK
<1>18. ASSUME NEW w \in Workers, Acknowledge(w) PROVE StepKind
  BY <1>18, SamePhase, Parts, ProcessAssumption DEF Acknowledge, Rest,
     rowVars, StepKind, Quiet, TypeOK, ProcsOK
<1>19. ASSUME NEW w \in Workers, WorkerFails(w) PROVE StepKind
  <2>1. SamePhases
    BY <1>19, Parts, SetStatusPhase DEF WorkerFails
  <2> QED
    BY <1>19, <2>1, Parts DEF WorkerFails, Go, StepKind, Quiet
<1>20. ASSUME NEW w \in Workers, WorkerRaises(w) PROVE StepKind
  BY <1>20, SamePhase, Parts, ProcessAssumption DEF WorkerRaises, Go,
     rowVars, StepKind, Quiet, TypeOK, ProcsOK
<1>21. ASSUME NEW w \in Workers, WorkerRetries(w) PROVE StepKind
  BY <1>21, SamePhase, Parts, ProcessAssumption DEF WorkerRetries, Go,
     rowVars, StepKind, Quiet, TypeOK, ProcsOK
<1>22. ASSUME NEW w \in Workers, WorkerDies(w) PROVE StepKind
  BY <1>22, SamePhase, Parts, ProcessAssumption DEF WorkerDies, Rest,
     rowVars, StepKind, Quiet, TypeOK, ProcsOK
<1>23. ASSUME ApiDies PROVE StepKind
  BY <1>23, SamePhase, Parts, ProcessAssumption DEF ApiDies, Rest, rowVars,
     StepKind, Quiet, TypeOK, ProcsOK
<1>24. ASSUME ApiStarts PROVE StepKind
  BY <1>24, SamePhase, Parts, ProcessAssumption DEF ApiStarts, rowVars,
     procVars, StepKind, Quiet, TypeOK, ProcsOK
<1>25. ASSUME NEW j \in Jobs, RecoverJob(j) PROVE StepKind
  BY <1>25, SamePhase, Parts, ProcessAssumption DEF RecoverJob, rowVars,
     procVars, StepKind, Quiet, TypeOK, ProcsOK
<1>26. ASSUME RecoveryDone PROVE StepKind
  BY <1>26, SamePhase, Parts, ProcessAssumption DEF RecoveryDone, rowVars,
     procVars, StepKind, Quiet, TypeOK, ProcsOK
<1>27. ASSUME RecoverySkipped PROVE StepKind
  BY <1>27, SamePhase, Parts, ProcessAssumption DEF RecoverySkipped, rowVars,
     procVars, StepKind, Quiet, TypeOK, ProcsOK
<1>28. ASSUME DeleteProfile PROVE StepKind
  BY <1>28 DEF StepKind
<1>29. ASSUME UNCHANGED vars PROVE StepKind
  BY <1>29, SamePhase DEF vars, rowVars, procVars, StepKind, Quiet
<1> QED
  BY <1>1, <1>2, <1>3, <1>4, <1>5, <1>6, <1>7, <1>8, <1>9, <1>10, <1>11,
     <1>12, <1>13, <1>14, <1>15, <1>16, <1>17, <1>18, <1>19, <1>20, <1>21,
     <1>22, <1>23, <1>24, <1>25, <1>26, <1>27, <1>28, <1>29
     DEF Next, RequestStep, StreamStep, HandlerStep, WorkerStep, RunStep,
         ApiStep, Deliveries, Handlers, Processes

-----------------------------------------------------------------------------
(* One answer for each client.                                             *)

LEMMA OnceInit == Init => AnswersOnce
BY Parts DEF Init, AnswersOnce

LEMMA OnceNext ==
  TypeOK /\ Bookkeeping /\ AnswersOnce /\ [Next]_vars => AnswersOnce'
<1> SUFFICES ASSUME TypeOK, Bookkeeping, AnswersOnce, [Next]_vars
             PROVE  AnswersOnce'
  OBVIOUS
<1>a. Onward
  BY OnwardNext
<1>1. CASE Quiet
  BY <1>1, <1>a DEF Quiet, SamePhases, AnswersOnce, Onward
<1>2. ASSUME NEW r \in Requests, NEW j \in Jobs, CreateJob(r, j)
      PROVE  AnswersOnce'
  <2>1. \A q \in Requests : task[q] # j
    BY <1>2, Parts, ProcessAssumption
       DEF CreateJob, Bookkeeping, HeldOK, Progressed, TypeOK, ProcsOK
  <2> QED
    BY <1>2, <1>a, <2>1, Parts
       DEF CreateJob, Take, AnswersOnce, Onward, TypeOK, ProcsOK
<1>3. ASSUME NEW r \in Requests,
             NEW reply \in {"queued", "completed", "error"}, Replied(r, reply)
      PROVE  AnswersOnce'
  <2>1. task[r] \in Jobs /\ status[task[r]] # "absent"
    BY <1>3, Parts, HasJob
       DEF Replied, TypeOK, Bookkeeping, HeldOK, Progressed
  <2>2. \A q \in Requests \ {r} : task'[q] = task[q] /\ task[q] # task[r]
    BY <1>3, <2>1, Parts, ProcessAssumption DEF Replied, Rest, AnswersOnce
  <2>3. task'[r] = NoJob
    BY <1>3, Parts DEF Replied, Rest
  <2>4. \A j \in Jobs \ {task[r]} : told'[j] = told[j]
    BY <1>3 DEF Replied, TypeOK, ApiOK
  <2>5. \A q \in Requests : task'[q] # NoJob => told'[task'[q]] = "none"
    BY <2>2, <2>3, <2>4, Parts DEF AnswersOnce, TypeOK, ProcsOK
  <2>6. \A q, x \in Requests : task'[q] # NoJob /\ task'[q] = task'[x] => q = x
    BY <2>2, <2>3 DEF AnswersOnce
  <2>7. \A j \in Jobs :
          status'[j] = "absent" => told'[j] = "none" /\ urls'[j] = {}
    BY <1>a, <1>3, <2>1, <2>4 DEF AnswersOnce, Onward, Replied, SamePhases
  <2> QED
    BY <2>5, <2>6, <2>7 DEF AnswersOnce
<1>4. ASSUME NEW p \in Processes, Publish(p) PROVE AnswersOnce'
  <2>1. status[task[p]] # "absent"
    BY <1>4 DEF Publish, Bookkeeping, HeldOK, Progressed
  <2> QED
    BY <1>4, <1>a, <2>1 DEF Publish, Go, AnswersOnce, Onward, TypeOK, RowsOK
<1>5. CASE DeleteProfile
  BY <1>5, <1>a DEF DeleteProfile, procVars, AnswersOnce, Onward
<1> QED
  BY <1>1, <1>2, <1>3, <1>4, <1>5, StepKinds DEF StepKind

\* The inductive invariant as a whole: the one that the runs check on small
\* instances holds for every set of jobs and processes and every bound.
THEOREM Inductive == Spec => []IndInv
<1>1. Init => IndInv
  BY TypeInit, BookInit, LostInit, AnswersInit, RepliesInit, OnceInit
     DEF IndInv
<1>2. IndInv /\ [Next]_vars => IndInv'
  <2> SUFFICES ASSUME IndInv, [Next]_vars PROVE IndInv'
    OBVIOUS
  <2> QED
    BY TypeNext, BookNext, LostNext, AnswersNext, RepliesNext, OnceNext
       DEF IndInv
<1> QED
  BY <1>1, <1>2, PTL DEF Spec

-----------------------------------------------------------------------------
(* The refinement.                                                         *)

LEMMA ContractInit == Init => Contract!Init
BY DEF Init, Contract!Init, Phase

LEMMA ContractNext ==
  IndInv /\ [Next]_vars => [Contract!Next]_(Contract!vars)
<1> SUFFICES ASSUME IndInv, [Next]_vars
             PROVE  Contract!Next \/ UNCHANGED Contract!vars
  OBVIOUS
<1> USE DEF IndInv
<1>a. Onward /\ Kept
  BY OnwardNext, KeptNext
<1>1. CASE Quiet
  BY <1>1 DEF Quiet, SamePhases, Contract!vars
<1>2. ASSUME NEW r \in Requests, NEW j \in Jobs, CreateJob(r, j)
      PROVE  Contract!Accept(j)
  <2>1. Phase(j) = "absent" /\ Phase(j)' = "accepted" /\ told' = told
    BY <1>2 DEF CreateJob, Phase, AnswersOnce, TypeOK, RowsOK
  <2>2. \A i \in Jobs \ {j} : Phase(i)' = Phase(i)
    BY <1>2 DEF CreateJob, Phase, TypeOK, RowsOK
  <2> QED
    BY <2>1, <2>2 DEF Contract!Accept
<1>3. ASSUME NEW r \in Requests,
             NEW reply \in {"queued", "completed", "error"}, Replied(r, reply)
      PROVE  Contract!Answer(task[r], reply) /\ task[r] \in Jobs
  <2>1. task[r] \in Jobs /\ task[r] # NoJob /\ status[task[r]] # "absent"
    BY <1>3, Parts, HasJob, ProcessAssumption
       DEF Replied, TypeOK, Bookkeeping, HeldOK, Progressed
  <2>2. Phase(task[r]) # "absent"
    BY <2>1 DEF Phase
  <2>3. told[task[r]] = "none"
    BY <2>1 DEF AnswersOnce
  <2>4. reply = "completed" => Phase(task[r]) \in {"published", "withdrawn"}
    BY <1>3, <2>1 DEF Replied, FinishedHasDocuments, Phase
  <2>5. UNCHANGED [j \in Jobs |-> Phase(j)]
    BY <1>3 DEF Replied, SamePhases
  <2> QED
    BY <1>3, <2>1, <2>2, <2>3, <2>4, <2>5 DEF Replied, Contract!Answer
<1>4. ASSUME NEW p \in Processes, Publish(p)
      PROVE  \/ Contract!Publish(task[p]) /\ task[p] \in Jobs
             \/ UNCHANGED Contract!vars
  <2>1. /\ task[p] \in Jobs /\ status[task[p]] # "absent"
        /\ docs[p] # {} /\ docs[p] \subseteq Kinds
    BY <1>4, HasJob
       DEF Publish, TypeOK, ProcsOK, Bookkeeping, HeldOK, Progressed
  <2>2. PICK j \in Jobs : j = task[p]
    BY <2>1
  <2>3. Phase(j) \in {"accepted", "published"} /\ Phase(j)' = "published"
    BY <1>4, <2>1, <2>2 DEF Publish, Phase, TypeOK, RowsOK
  <2>4. \A i \in Jobs \ {j} : Phase(i)' = Phase(i)
    BY <1>4, <2>2 DEF Publish, Phase, TypeOK, RowsOK
  <2>5. told' = told
    BY <1>4 DEF Publish
  <2>6. CASE Phase(j) = "accepted"
    BY <2>2, <2>3, <2>4, <2>5, <2>6 DEF Contract!Publish
  <2>7. CASE Phase(j) = "published"
    BY <2>3, <2>4, <2>5, <2>7 DEF Contract!vars
  <2> QED
    BY <2>3, <2>6, <2>7
<1>5. CASE DeleteProfile
  <2>1. \A j \in Jobs : Phase(j)' = IF Phase(j) = "absent" THEN "absent"
                                    ELSE "withdrawn"
    BY <1>5 DEF DeleteProfile, Existing, Phase, TypeOK, RowsOK
  <2>2. Contract!Withdraw
    BY <1>5, <2>1 DEF DeleteProfile, Contract!Withdraw
  <2> QED
    BY <2>2 DEF Contract!Next
<1> QED
  BY <1>1, <1>2, <1>3, <1>4, <1>5, StepKinds DEF StepKind, Contract!Next

\* What the page of a client may find in the row of its job, poll after poll:
\* JobPolling lets rows change in these ways and in no other.
RowsMove ==
  \A j \in Jobs :
    \/ status'[j] = status[j]
    \/ status[j] = "absent" /\ status'[j] = "pending"
    \/ /\ status[j] \notin {"absent", "deleted"}
       /\ status'[j] \in {"processing", "completed", "failed", "deleted"}

LEMMA NextRowsMove == TypeOK /\ Bookkeeping /\ [Next]_vars => RowsMove
<1> SUFFICES ASSUME TypeOK, Bookkeeping, [Next]_vars, NEW j \in Jobs
             PROVE  \/ status'[j] = status[j]
                    \/ status[j] = "absent" /\ status'[j] = "pending"
                    \/ /\ status[j] \notin {"absent", "deleted"}
                       /\ status'[j] \in {"processing", "completed", "failed", "deleted"}
  BY DEF RowsMove
<1>1. Onward /\ StepKind /\ status'[j] \in Statuses
  BY OnwardNext, StepKinds, TypeNext DEF TypeOK, RowsOK
<1>2. CASE status[j] = "absent"
  <2>1. CASE SamePhases
    BY <1>2, <2>1 DEF SamePhases, Phase
  <2>2. ASSUME NEW r \in Requests, NEW i \in Jobs, CreateJob(r, i)
        PROVE  status'[j] \in {"absent", "pending"}
    BY <1>2, <2>2 DEF CreateJob, TypeOK, RowsOK
  <2>3. CASE UNCHANGED status
    BY <2>3
  <2>4. CASE DeleteProfile
    BY <1>2, <2>4 DEF DeleteProfile, Existing
  <2> QED
    BY <1>1, <1>2, <2>1, <2>2, <2>3, <2>4 DEF StepKind, Quiet, Replied, Publish
<1>3. CASE status[j] # "absent"
  BY <1>1, <1>3 DEF Onward, Statuses
<1> QED
  BY <1>2, <1>3

\* No process ever puts a row back to 'pending', and every row begins there.
THEOREM RowsAlwaysMove == Spec => [][RowsMove]_vars
<1>1. TypeOK /\ Bookkeeping /\ [Next]_vars => [RowsMove]_vars
  BY NextRowsMove
<1>2. IndInv => TypeOK /\ Bookkeeping
  BY DEF IndInv
<1> QED
  BY <1>1, <1>2, Inductive, PTL DEF Spec

\* Through every interleaving of requests, streams, workers, retries, deaths
\* and recoveries the service keeps its contract with the clients.
THEOREM KeepsContract == Spec => FulfilsContract
<1>1. Init => Contract!Init
  BY ContractInit
<1>2. IndInv /\ [Next]_vars => [Contract!Next]_(Contract!vars)
  BY ContractNext
<1> QED
  BY <1>1, <1>2, Inductive, PTL DEF Spec, FulfilsContract, Contract!Spec

=============================================================================
