---------------------------- MODULE JobContract ----------------------------
(***************************************************************************)
(* What the generation service promises the client of a job, whatever runs *)
(* behind it: a job is accepted, its documents may be published, they stay *)
(* until the profile they were made from is deleted, and the one answer    *)
(* the client gets is truthful.                                            *)
(***************************************************************************)
CONSTANT Jobs

VARIABLES
  phase,    \* phase[j]: "absent", "accepted", "published", "withdrawn"
  answer    \* answer[j]: what the client was told, "none" before

vars == <<phase, answer>>

Init ==
  /\ phase = [j \in Jobs |-> "absent"]
  /\ answer = [j \in Jobs |-> "none"]

Accept(j) ==
  /\ phase[j] = "absent"
  /\ phase' = [phase EXCEPT ![j] = "accepted"]
  /\ UNCHANGED answer

Publish(j) ==
  /\ phase[j] = "accepted"
  /\ phase' = [phase EXCEPT ![j] = "published"]
  /\ UNCHANGED answer

\* The client is answered once, and "completed" only with the documents there
\* (or gone with the profile in the meantime).
Answer(j, reply) ==
  /\ phase[j] # "absent"
  /\ answer[j] = "none"
  /\ reply = "completed" => phase[j] \in {"published", "withdrawn"}
  /\ answer' = [answer EXCEPT ![j] = reply]
  /\ UNCHANGED phase

\* The profile is deleted, and every job made from it.
Withdraw ==
  /\ phase' = [j \in Jobs |-> IF phase[j] = "absent" THEN "absent"
                                                     ELSE "withdrawn"]
  /\ UNCHANGED answer

Next ==
  \/ \E j \in Jobs :
       \/ Accept(j) \/ Publish(j)
       \/ \E reply \in {"queued", "completed", "error"} : Answer(j, reply)
  \/ Withdraw

Spec == Init /\ [][Next]_vars

=============================================================================
