------------------------ MODULE LLMConfigActivation ------------------------
(***************************************************************************)
(* The active LLM configuration of one user (api/routes/llm_config.py).    *)
(* An activation takes two transactions: _deactivate_user_configs commits  *)
(* the deactivation of the rows it selected, then the handler commits its  *)
(* own row.  pc[h] names what request h does next:                         *)
(*                                                                         *)
(*   select      select the active configurations                          *)
(*   deactivate  commit is_active = False for them                         *)
(*   write       commit its own row                                        *)
(*   remove      commit the DELETE of its row                              *)
(***************************************************************************)
EXTENDS Integers, FiniteSets

CONSTANTS
  Configs,     \* primary keys of llm_configs
  Handlers,    \* requests served at one time
  None,
  MayFail      \* whether a request may fail between its steps

ASSUME ConfigAssumption ==
  /\ None \notin Configs
  /\ IsFiniteSet(Handlers) /\ Handlers # {}
  /\ MayFail \in BOOLEAN

VARIABLES
  rows,        \* rows[c]: "absent", "inactive", "active" or "deleted"
  pc,
  op,          \* op[h]: what request h does, "none" when there is none
  target,      \* target[h]: the row it is about
  want,        \* want[h]: the is_active it asks for
  cached,      \* cached[h]: is_active of the target when it was loaded
  found,       \* found[h]: the active rows it selected
  alone,       \* no other request has been served since request h began
  author       \* author[c]: the request that made row c active

requestVars == <<pc, op, target, want, cached, found>>
vars == <<rows, requestVars, alone, author>>

Operations == {"none", "create", "update", "edit", "delete"}

Init ==
  /\ rows = [c \in Configs |-> "absent"]
  /\ pc = [h \in Handlers |-> "idle"]
  /\ op = [h \in Handlers |-> "none"]
  /\ target = [h \in Handlers |-> None]
  /\ want = [h \in Handlers |-> FALSE]
  /\ cached = [h \in Handlers |-> FALSE]
  /\ found = [h \in Handlers |-> {}]
  /\ alone = {}
  /\ author = [c \in Configs |-> None]

-----------------------------------------------------------------------------
(* Helpers.                                                                *)

Active == {c \in Configs : rows[c] = "active"}
Existing == {c \in Configs : rows[c] \in {"inactive", "active"}}

Begin(h, operation, c, value, step) ==
  /\ pc[h] = "idle"
  /\ pc' = [pc EXCEPT ![h] = step]
  /\ op' = [op EXCEPT ![h] = operation]
  /\ target' = [target EXCEPT ![h] = c]
  /\ want' = [want EXCEPT ![h] = value]
  /\ cached' = [cached EXCEPT ![h] = rows[c] = "active"]
  /\ alone' = IF \A g \in Handlers : pc[g] = "idle" THEN {h} ELSE {}
  /\ UNCHANGED <<rows, found, author>>

\* The request is over: answered, refused or killed.
End(h) ==
  /\ pc' = [pc EXCEPT ![h] = "idle"]
  /\ op' = [op EXCEPT ![h] = "none"]
  /\ target' = [target EXCEPT ![h] = None]
  /\ want' = [want EXCEPT ![h] = FALSE]
  /\ cached' = [cached EXCEPT ![h] = FALSE]
  /\ found' = [found EXCEPT ![h] = {}]
  /\ alone' = alone \ {h}

\* Nothing is committed: get_session rolls back, or the process is gone.
Raise(h) == End(h) /\ UNCHANGED <<rows, author>>

-----------------------------------------------------------------------------
(* The operations.                                                         *)

\* POST /llm-config: the new row has a fresh uuid.
Create(h, c, value) ==
  /\ rows[c] = "absent"
  /\ \A g \in Handlers : target[g] # c
  /\ Begin(h, "create", c, value, IF value THEN "select" ELSE "write")

\* PUT /llm-config/{id}.
Update(h, c, value) ==
  /\ c \in Existing
  /\ Begin(h, "update", c, value, IF value THEN "select" ELSE "write")

\* ... with is_active left out.
Edit(h, c) ==
  /\ c \in Existing
  /\ Begin(h, "edit", c, FALSE, "write")

\* DELETE /llm-config/{id}.
Delete(h, c) ==
  /\ c \in Existing
  /\ Begin(h, "delete", c, FALSE, "remove")

\* Mutant: a request that is about an active row deactivates nothing.
SelectUnlessActive(h) ==
  /\ pc[h] = "select"
  /\ found' = [found EXCEPT ![h] = IF target[h] \in Active THEN {} ELSE Active]
  /\ pc' = [pc EXCEPT ![h] = "deactivate"]
  /\ UNCHANGED <<rows, op, target, want, cached, alone, author>>

\* The target is in the session already: if it was inactive when it was
\* loaded, setting it False writes nothing.
Select(h) ==
  /\ pc[h] = "select"
  /\ found' = [found EXCEPT ![h] =
                 IF cached[h] THEN Active ELSE Active \ {target[h]}]
  /\ pc' = [pc EXCEPT ![h] = "deactivate"]
  /\ UNCHANGED <<rows, op, target, want, cached, alone, author>>

\* Mutant: the helper leaves the commit to its caller, who commits a session
\* of its own.
DeactivateNothing(h) ==
  /\ pc[h] = "deactivate"
  /\ pc' = [pc EXCEPT ![h] = "write"]
  /\ UNCHANGED <<rows, op, target, want, cached, found, alone, author>>

\* The first commit.  A row that is gone raises StaleDataError; of several
\* rows updated in one batch the driver need not say how many there were.
Deactivate(h) ==
  /\ pc[h] = "deactivate"
  /\ \/ /\ found[h] \subseteq Existing \/ Cardinality(found[h]) > 1
        /\ rows' = [c \in Configs |->
                      IF c \in found[h] \cap Existing THEN "inactive"
                                                      ELSE rows[c]]
        /\ pc' = [pc EXCEPT ![h] = "write"]
        /\ UNCHANGED <<op, target, want, cached, found, alone, author>>
     \/ ~ (found[h] \subseteq Existing) /\ Raise(h)

\* Without is_active, or with the cached value, an update leaves the flag.
Deactivates(h) ==
  \/ op[h] = "create"
  \/ op[h] = "update" /\ cached[h]

\* The second commit, or the only one.  The row of an update must still be
\* there.
Write(h) ==
  /\ pc[h] = "write"
  /\ LET c == target[h]
     IN  \/ /\ op[h] = "create" \/ c \in Existing
            /\ rows' = [rows EXCEPT ![c] =
                 IF want[h] THEN "active"
                 ELSE IF Deactivates(h) THEN "inactive" ELSE @]
            /\ author' = [author EXCEPT ![c] = IF want[h] THEN h ELSE @]
            /\ End(h)
         \/ op[h] # "create" /\ c \notin Existing /\ Raise(h)

\* Mutant: the request is over but its row is still locked.
RemoveHolds(h) ==
  /\ pc[h] = "remove"
  /\ rows' = [rows EXCEPT ![target[h]] = "deleted"]
  /\ pc' = [pc EXCEPT ![h] = "idle"]
  /\ UNCHANGED <<op, target, want, cached, found, alone, author>>

Remove(h) ==
  /\ pc[h] = "remove"
  /\ rows' = [rows EXCEPT ![target[h]] = "deleted"]
  /\ End(h)
  /\ UNCHANGED author

\* A commit fails, or the API process is killed between two of them.
Fails(h) == MayFail /\ pc[h] # "idle" /\ Raise(h)

-----------------------------------------------------------------------------

Step(h) == Select(h) \/ Deactivate(h) \/ Write(h) \/ Remove(h)

Next ==
  \E h \in Handlers :
    \/ Step(h) \/ Fails(h)
    \/ \E c \in Configs :
         \/ Edit(h, c) \/ Delete(h, c)
         \/ \E value \in BOOLEAN : Create(h, c, value) \/ Update(h, c, value)

Spec == Init /\ [][Next]_vars

-----------------------------------------------------------------------------
(* Properties.                                                             *)

Steps == {"idle", "select", "deactivate", "write", "remove"}

\* Every variable has its type, and a request that is served has a row.
TypeOK ==
  /\ rows \in [Configs -> {"absent", "inactive", "active", "deleted"}]
  /\ pc \in [Handlers -> Steps]
  /\ op \in [Handlers -> Operations]
  /\ target \in [Handlers -> Configs \cup {None}]
  /\ want \in [Handlers -> BOOLEAN]
  /\ cached \in [Handlers -> BOOLEAN]
  /\ found \in [Handlers -> SUBSET Configs]
  /\ alone \subseteq Handlers
  /\ author \in [Configs -> Handlers \cup {None}]
  /\ \A h \in Handlers : pc[h] = "idle" <=> target[h] = None

\* However requests and failures interleave, no more configurations are active
\* than requests are served at a time: a request deactivates whatever it made
\* active before.
ActiveBounded == Cardinality(Active) <= Cardinality(Handlers)

\* Why: whatever a request made active before and still is, it has selected
\* for deactivation, or is about to write itself.
MadeActive(h) == {c \in Active : author[c] = h}

AuthorsOK ==
  /\ \A c \in Active : author[c] \in Handlers
  /\ \A h \in Handlers :
       /\ \A c, d \in MadeActive(h) : c = d
       /\ pc[h] = "deactivate"
            => MadeActive(h) \subseteq found[h] \cup {target[h]}
       /\ pc[h] = "write" /\ want[h] => MadeActive(h) \subseteq {target[h]}

\* Unlike the default profile, two active configurations (which make every
\* generation of the user raise in get_user_active_config) do not last: the
\* next activation that nobody races with leaves its own row alone active.
ActivationHeals ==
  [][\A h \in alone :
       pc[h] = "write" /\ pc'[h] = "idle" /\ want[h] /\ target[h] \in Active'
         => Active' = {target[h]}]_vars

=============================================================================
