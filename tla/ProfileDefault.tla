--------------------------- MODULE ProfileDefault ---------------------------
(***************************************************************************)
(* The default flag of one user's master profiles (profiles/service.py).   *)
(* A request is one transaction of several statements.  READ COMMITTED     *)
(* shows it what others committed before each statement; an UPDATE locks   *)
(* its row until the transaction ends, and the session keeps the           *)
(* attributes of the row it loaded first, so an assignment that repeats    *)
(* the cached value writes nothing.  pc[h] names the next statement:       *)
(*                                                                         *)
(*   touch    the flush of other columns than the flag                     *)
(*   find     _clear_default looks for the current default                 *)
(*   unset    it flushes is_default = False for the row it found           *)
(*   set      the flag of the profile itself is flushed                    *)
(*   delete   the DELETE of the row                                        *)
(*   commit   the commit of get_session                                    *)
(*                                                                         *)
(* A profile somebody creates later (create_profile, flag false) is one    *)
(* nobody has touched yet: all rows are there from the start.              *)
(***************************************************************************)
EXTENDS Integers, FiniteSets

CONSTANTS
  Profiles,    \* primary keys of master_profiles
  Handlers,    \* requests served at one time
  None

ASSUME ProfileAssumption ==
  /\ None \notin Profiles
  /\ IsFiniteSet(Handlers) /\ Handlers # {}

VARIABLES
  rows,        \* the rows there are
  default,     \* rows whose is_default is true
  pc,
  op,          \* op[h]: what request h does, "none" when there is none
  target,      \* target[h]: the profile the request is about
  want,        \* want[h]: the value is_default is to get
  cached,      \* cached[h]: is_default of the target in the session
  current,     \* current[h]: the default _clear_default found, or None
  writes       \* writes[h][p]: what the transaction did to row p

requestVars == <<pc, op, target, want, cached, current, writes>>
vars == <<rows, default, requestVars>>

Operations == {"none", "set-default", "update", "edit", "delete"}
Writes == {"none", "keep", "on", "off", "gone"}
NoWrites == [p \in Profiles |-> "none"]

\* create_profile made the rows; the flag is false in all of them.
Init ==
  /\ rows = Profiles
  /\ default = {}
  /\ pc = [h \in Handlers |-> "idle"]
  /\ op = [h \in Handlers |-> "none"]
  /\ target = [h \in Handlers |-> None]
  /\ want = [h \in Handlers |-> FALSE]
  /\ cached = [h \in Handlers |-> FALSE]
  /\ current = [h \in Handlers |-> None]
  /\ writes = [h \in Handlers |-> NoWrites]

-----------------------------------------------------------------------------
(* Transactions.                                                           *)

\* Nobody else's transaction has written row p.
Free(h, p) == \A g \in Handlers \ {h} : writes[g][p] = "none"

\* The default rows as a query of request h sees them.
Defaults(h) ==
  {p \in rows : \/ writes[h][p] = "on"
                \/ p \in default /\ writes[h][p] \in {"none", "keep"}}

Write(h, p, what) ==
  /\ Free(h, p)
  /\ writes' = [writes EXCEPT ![h][p] = what]

Goto(h, step) == pc' = [pc EXCEPT ![h] = step]

\* The request is over, and its transaction with it.
Forget(h) ==
  /\ Goto(h, "idle")
  /\ op' = [op EXCEPT ![h] = "none"]
  /\ target' = [target EXCEPT ![h] = None]
  /\ want' = [want EXCEPT ![h] = FALSE]
  /\ cached' = [cached EXCEPT ![h] = FALSE]
  /\ current' = [current EXCEPT ![h] = None]

\* Mutant: an exception ends the request without a rollback.
KeepLocks(h) == Forget(h) /\ UNCHANGED <<rows, default, writes>>

\* get_session rolls back.
Rollback(h) ==
  /\ Forget(h)
  /\ writes' = [writes EXCEPT ![h] = NoWrites]
  /\ UNCHANGED <<rows, default>>

\* An UPDATE of a row that is gone: StaleDataError.
Gone(h, p) == p \notin rows /\ Rollback(h)

-----------------------------------------------------------------------------
(* The operations.                                                         *)

\* _get_owned_profile finds the row.
Load(h, p, operation, value, step) ==
  /\ pc[h] = "idle"
  /\ p \in rows
  /\ Goto(h, step)
  /\ op' = [op EXCEPT ![h] = operation]
  /\ target' = [target EXCEPT ![h] = p]
  /\ want' = [want EXCEPT ![h] = value]
  /\ cached' = [cached EXCEPT ![h] = p \in default]
  /\ UNCHANGED <<rows, default, current, writes>>

SetDefault(h, p) == Load(h, p, "set-default", TRUE, "find")

\* With other fields in the request, the SELECT of _clear_default flushes
\* them first; is_default = false clears nobody else's flag.
Update(h, p) ==
  \/ Load(h, p, "update", TRUE, "touch")
  \/ Load(h, p, "update", TRUE, "find")
  \/ Load(h, p, "update", FALSE, "set")

\* update_profile without is_default, and patch_section.
Edit(h, p) == Load(h, p, "edit", FALSE, "touch")

Delete(h, p) == Load(h, p, "delete", FALSE, "delete")

Touch(h) ==
  /\ pc[h] = "touch"
  /\ \/ /\ target[h] \in rows
        /\ Write(h, target[h], "keep")
        /\ Goto(h, IF op[h] = "edit" THEN "commit" ELSE "find")
        /\ UNCHANGED <<rows, default, op, target, want, cached, current>>
     \/ Gone(h, target[h])

\* Mutant: the current default is not looked for.
FindNobody(h) ==
  /\ pc[h] = "find"
  /\ Goto(h, "set")
  /\ UNCHANGED <<rows, default, op, target, want, cached, current, writes>>

\* Mutant: nobody asks whether there is a default at all.
FindAnybody(h) ==
  /\ pc[h] = "find"
  /\ Cardinality(Defaults(h)) <= 1
  /\ \E p \in Defaults(h) \cup {None} :
       current' = [current EXCEPT ![h] = p]
  /\ Goto(h, "unset")
  /\ UNCHANGED <<rows, default, op, target, want, cached, writes>>

\* _clear_default.  Two defaults make scalar_one_or_none() raise.  The row
\* it finds is the target itself, with its cached flag, or loaded afresh.
Find(h) ==
  /\ pc[h] = "find"
  /\ \/ /\ Defaults(h) = {}
        /\ Goto(h, "set")
        /\ UNCHANGED <<rows, default, op, target, want, cached, current,
                       writes>>
     \/ \E p \in Profiles :
          /\ Defaults(h) = {p}
          /\ current' = [current EXCEPT ![h] = p]
          /\ Goto(h, IF p = target[h] /\ ~cached[h] THEN "set" ELSE "unset")
          /\ UNCHANGED <<rows, default, op, target, want, cached, writes>>
     \/ Cardinality(Defaults(h)) > 1 /\ Rollback(h)

Unset(h) ==
  /\ pc[h] = "unset"
  /\ \/ /\ current[h] \in rows
        /\ Write(h, current[h], "off")
        /\ cached' = [cached EXCEPT ![h] = @ /\ current[h] # target[h]]
        /\ Goto(h, "set")
        /\ UNCHANGED <<rows, default, op, target, want, current>>
     \/ Gone(h, current[h])

\* The flush of the target, unless its flag is cached as it should be (other
\* columns may change all the same when the flag is to be false); then the
\* refresh, which misses a row that is gone.
Set(h) ==
  /\ pc[h] = "set"
  /\ \/ /\ target[h] \in rows
        /\ IF cached[h] = want[h]
           THEN \/ UNCHANGED writes
                \/ ~want[h] /\ Write(h, target[h], "keep")
           ELSE Write(h, target[h], IF want[h] THEN "on" ELSE "off")
        /\ Goto(h, "commit")
        /\ UNCHANGED <<rows, default, op, target, want, cached, current>>
     \/ Gone(h, target[h])

\* The DELETE; that it finds no row is only a warning.
Remove(h) ==
  /\ pc[h] = "delete"
  /\ Write(h, target[h], "gone")
  /\ Goto(h, "commit")
  /\ UNCHANGED <<rows, default, op, target, want, cached, current>>

Did(h, what) == {p \in Profiles : writes[h][p] = what}

Commit(h) ==
  /\ pc[h] = "commit"
  /\ rows' = rows \ Did(h, "gone")
  /\ default' = (default \cup Did(h, "on"))
                  \ (Did(h, "off") \cup Did(h, "gone"))
  /\ writes' = [writes EXCEPT ![h] = NoWrites]
  /\ Forget(h)

-----------------------------------------------------------------------------
(* Deadlocks: PostgreSQL makes one of the transactions fail.               *)

\* The row h is about to write.
Wanted(h) == IF pc[h] = "unset" THEN current[h] ELSE target[h]

WaitsFor(h, g) ==
  /\ h # g
  /\ pc[h] \in {"touch", "unset", "set", "delete"}
  /\ ~ (pc[h] = "set" /\ cached[h] = want[h])
  /\ writes[g][Wanted(h)] # "none"

Deadlocked(h) ==
  \E C \in SUBSET Handlers :
    /\ h \in C
    /\ \A g \in C : \E f \in C : WaitsFor(g, f)

Abort(h) == Deadlocked(h) /\ Rollback(h)

Step(h) ==
  \/ Touch(h) \/ Find(h) \/ Unset(h) \/ Set(h) \/ Remove(h) \/ Commit(h)

Next ==
  \/ \E h \in Handlers :
       \/ Step(h) \/ Abort(h)
       \/ \E p \in Profiles :
            SetDefault(h, p) \/ Update(h, p) \/ Edit(h, p) \/ Delete(h, p)

Spec == Init /\ [][Next]_vars

\* A request runs on; one that waits for a row gets it in the end, since
\* PostgreSQL serves the waiters of a row in order (hence SF), and a deadlock
\* is detected.
Fairness == \A h \in Handlers : SF_vars(Step(h)) /\ WF_vars(Abort(h))

FairSpec == Spec /\ Fairness

-----------------------------------------------------------------------------
(* Properties.                                                             *)

Steps == {"idle", "touch", "find", "unset", "set", "delete", "commit"}

\* Every variable has its type, only rows that exist are defaults, and a
\* request that unsets has found whom.
TypeOK ==
  /\ rows \subseteq Profiles
  /\ default \subseteq rows
  /\ pc \in [Handlers -> Steps]
  /\ op \in [Handlers -> Operations]
  /\ target \in [Handlers -> Profiles \cup {None}]
  /\ want \in [Handlers -> BOOLEAN]
  /\ cached \in [Handlers -> BOOLEAN]
  /\ current \in [Handlers -> Profiles \cup {None}]
  /\ writes \in [Handlers -> [Profiles -> Writes]]
  /\ \A h \in Handlers :
       /\ pc[h] # "idle" => target[h] \in Profiles
       /\ pc[h] = "unset" => current[h] \in Profiles

\* Requests served at the same time can leave more than one default, but no
\* more than there are of them: each looks at all defaults before it adds its
\* own.  Served one at a time they leave one, and _clear_default never raises.
DefaultsBounded == Cardinality(default) <= Cardinality(Handlers)

\* Whatever rows the requests hold and wait for, each of them comes to an end.
RequestsEnd == \A h \in Handlers : pc[h] # "idle" ~> pc[h] = "idle"

=============================================================================
