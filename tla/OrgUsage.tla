------------------------------ MODULE OrgUsage ------------------------------
(***************************************************************************)
(* The usage log, the team quota and the shared templates of one           *)
(* organization (api/routes/organizations.py).  A request is a transaction *)
(* of several statements under READ COMMITTED; pc[h] names the next one:   *)
(*                                                                         *)
(*   find     log_generation_usage looks for the user's row of the month   *)
(*   flush    the SELECT of the organization flushes the new or changed    *)
(*            row first, which stays locked until the commit               *)
(*   count    the commit flushes team_quota_used, as loaded plus one       *)
(*   reset    reset_quota, after it loaded the organization                *)
(*   insert, delete   the second statement of the template routes          *)
(*                                                                         *)
(* Who is a member is the subject of OrgMembership; here members may leave *)
(* at any time, also between the check of a request and its commit.        *)
(***************************************************************************)
EXTENDS Integers, FiniteSets

CONSTANTS
  Users,       \* the members the organization starts with
  Admins,      \* those of them who are admins
  Rows,        \* primary keys of organization_usage_log
  Templates,   \* primary keys of organization_master_profiles
  Handlers,    \* requests served at one time
  Quota,       \* team_quota
  MaxMonth,    \* bound: how often the month changes
  MaxLogged,   \* bound: logs in all
  None

ASSUME UsageAssumption ==
  /\ Admins \subseteq Users
  /\ None \notin Rows \cup Users \cup Templates
  /\ IsFiniteSet(Handlers) /\ Handlers # {}
  /\ Quota \in Nat /\ MaxMonth \in Nat /\ MaxLogged \in Nat

VARIABLES
  members,     \* users who are members now
  month,       \* datetime.now(UTC).strftime("%Y-%m")
  owner,       \* owner[w]: user_id of log row w, or None when there is no row
  period,      \* period[w]: its period_key
  count,       \* count[w]: its generation_count
  used,        \* team_quota_used
  templates,   \* the templates there are
  pc, user,    \* where request h is, and whose it is
  key,         \* key[h]: the period_key it computed
  row,         \* row[h]: the row it found or is to insert (or the template)
  held,        \* held[h]: generation_count as loaded, 0 for a new row
  loaded,      \* loaded[h]: team_quota_used as loaded
  logged       \* logged[u][m]: logs of user u in month m answered 200

log == <<owner, period, count>>
requestVars == <<pc, user, key, row, held, loaded>>
vars == <<members, month, log, used, templates, requestVars, logged>>

Months == 0 .. MaxMonth

Init ==
  /\ members = Users
  /\ month = 0
  /\ owner = [w \in Rows |-> None]
  /\ period = [w \in Rows |-> 0]
  /\ count = [w \in Rows |-> 0]
  /\ used = 0
  /\ templates = {}
  /\ pc = [h \in Handlers |-> "idle"]
  /\ user = [h \in Handlers |-> None]
  /\ key = [h \in Handlers |-> 0]
  /\ row = [h \in Handlers |-> None]
  /\ held = [h \in Handlers |-> 0]
  /\ loaded = [h \in Handlers |-> 0]
  /\ logged = [u \in Users |-> [m \in Months |-> 0]]

-----------------------------------------------------------------------------
Goto(h, step) == pc' = [pc EXCEPT ![h] = step]

Forget(h) ==
  /\ Goto(h, "idle")
  /\ user' = [user EXCEPT ![h] = None]
  /\ key' = [key EXCEPT ![h] = 0]
  /\ row' = [row EXCEPT ![h] = None]
  /\ held' = [held EXCEPT ![h] = 0]
  /\ loaded' = [loaded EXCEPT ![h] = 0]

\* The rows of one user and month a query sees.
RowsOf(u, m) == {w \in Rows : owner[w] = u /\ period[w] = m}

\* The logs of a month that were answered to some users, one by one.
LogsOf(users, m) == UNION {{u} \X (1 .. logged[u][m]) : u \in users}

\* The logs answered so far.
AllLogged == Cardinality(UNION {{m} \X LogsOf(Users, m) : m \in Months})

\* A row another transaction is writing, or a key it inserts under.
Taken(h, w) == \E g \in Handlers \ {h} : pc[g] \in {"flush", "count"} /\ row[g] = w

Locked(h, w) == \E g \in Handlers \ {h} : pc[g] = "count" /\ row[g] = w

\* get_org_member.
Admitted(h, u, role) ==
  /\ pc[h] = "idle"
  /\ u \in members
  /\ role = "admin" => u \in Admins
  /\ user' = [user EXCEPT ![h] = u]

Rejected(h) == Forget(h) /\ UNCHANGED <<members, month, log, used, templates, logged>>

-----------------------------------------------------------------------------
(* log_generation_usage.                                                   *)

Log(h, u) ==
  /\ AllLogged + Cardinality({g \in Handlers : pc[g] \in {"find", "flush", "count"}}) < MaxLogged
  /\ Admitted(h, u, "member")
  /\ key' = [key EXCEPT ![h] = month]
  /\ Goto(h, "find")
  /\ UNCHANGED <<members, month, log, used, templates, row, held, loaded, logged>>

\* Mutant: an existing row is not looked for.
FindNothing(h) ==
  /\ pc[h] = "find"
  /\ \E w \in Rows :
       /\ owner[w] = None /\ ~Taken(h, w)
       /\ row' = [row EXCEPT ![h] = w]
       /\ held' = [held EXCEPT ![h] = 0]
  /\ Goto(h, "flush")
  /\ UNCHANGED <<members, month, log, used, templates, user, key, loaded, logged>>

\* scalar_one_or_none: no row, one, or an exception for all the rest of the
\* month.
Find(h) ==
  LET mine == RowsOf(user[h], key[h]) IN
  /\ pc[h] = "find"
  /\ \/ /\ Cardinality(mine) <= 1
        /\ \E w \in Rows :
             /\ IF mine = {} THEN owner[w] = None /\ ~Taken(h, w) ELSE w \in mine
             /\ row' = [row EXCEPT ![h] = w]
             /\ held' = [held EXCEPT ![h] = IF mine = {} THEN 0 ELSE count[w]]
        /\ Goto(h, "flush")
        /\ UNCHANGED <<members, month, log, used, templates, user, key, loaded, logged>>
     \/ Cardinality(mine) > 1 /\ Rejected(h)

\* The row is written, not yet committed, and the organization loaded.
Flush(h) ==
  /\ pc[h] = "flush"
  /\ ~Locked(h, row[h])
  /\ loaded' = [loaded EXCEPT ![h] = used]
  /\ Goto(h, "count")
  /\ UNCHANGED <<members, month, log, used, templates, user, key, row, held, logged>>

\* Mutant: the month is taken at the commit, not at the look-up.
CountThisMonth(h) ==
  LET w == row[h] IN
  /\ pc[h] = "count"
  /\ owner' = [owner EXCEPT ![w] = user[h]]
  /\ period' = [period EXCEPT ![w] = month]
  /\ count' = [count EXCEPT ![w] = held[h] + 1]
  /\ used' = loaded[h] + 1
  /\ logged' = [logged EXCEPT ![user[h]][key[h]] = @ + 1]
  /\ Forget(h)
  /\ UNCHANGED <<members, month, templates>>

\* The UPDATE of the organization and the commit: row and quota together.
Count(h) ==
  LET w == row[h] IN
  /\ pc[h] = "count"
  /\ owner' = [owner EXCEPT ![w] = user[h]]
  /\ period' = [period EXCEPT ![w] = key[h]]
  /\ count' = [count EXCEPT ![w] = held[h] + 1]
  /\ used' = loaded[h] + 1
  /\ logged' = [logged EXCEPT ![user[h]][key[h]] = @ + 1]
  /\ Forget(h)
  /\ UNCHANGED <<members, month, templates>>

-----------------------------------------------------------------------------
(* reset_quota, and the templates.                                         *)

Reset(h, u) ==
  /\ Admitted(h, u, "admin")
  /\ loaded' = [loaded EXCEPT ![h] = used]
  /\ Goto(h, "reset")
  /\ UNCHANGED <<members, month, log, used, templates, key, row, held, logged>>

\* Mutant: what was used is taken off the quota.
ResetSubtracts(h) ==
  /\ pc[h] = "reset"
  /\ used' = used - loaded[h]
  /\ Forget(h)
  /\ UNCHANGED <<members, month, log, templates, logged>>

\* The session writes 0 unless 0 is what it loaded.
ResetCommits(h) ==
  /\ pc[h] = "reset"
  /\ used' = IF loaded[h] = 0 THEN used ELSE 0
  /\ Forget(h)
  /\ UNCHANGED <<members, month, log, templates, logged>>

CreateMasterProfile(h, u) ==
  /\ Admitted(h, u, "admin")
  /\ \E t \in Templates \ templates : row' = [row EXCEPT ![h] = t]
  /\ Goto(h, "insert")
  /\ UNCHANGED <<members, month, log, used, templates, key, held, loaded, logged>>

DeleteMasterProfile(h, u) ==
  /\ Admitted(h, u, "admin")
  /\ \E t \in templates : row' = [row EXCEPT ![h] = t]
  /\ Goto(h, "delete")
  /\ UNCHANGED <<members, month, log, used, templates, key, held, loaded, logged>>

\* Deleting a template that is gone only warns.
TemplateCommits(h) ==
  /\ pc[h] \in {"insert", "delete"}
  /\ templates' = IF pc[h] = "insert" THEN templates \cup {row[h]} ELSE templates \ {row[h]}
  /\ Forget(h)
  /\ UNCHANGED <<members, month, log, used, logged>>

\* A statement fails, the request dies: its transaction leaves nothing.
Fails(h) == pc[h] # "idle" /\ Rejected(h)

-----------------------------------------------------------------------------
NextMonth ==
  /\ month < MaxMonth
  /\ month' = month + 1
  /\ UNCHANGED <<members, log, used, templates, requestVars, logged>>

\* remove_member, by some other admin; the rows of the log stay.
Leave(u) ==
  /\ u \in members /\ (members \cap Admins) \ {u} # {}
  /\ members' = members \ {u}
  /\ UNCHANGED <<month, log, used, templates, requestVars, logged>>

Step(h) == Find(h) \/ Flush(h) \/ Count(h) \/ ResetCommits(h) \/ TemplateCommits(h)

Next ==
  \/ \E h \in Handlers :
       \/ Step(h) \/ Fails(h)
       \/ \E u \in Users :
            \/ Log(h, u) \/ Reset(h, u)
            \/ CreateMasterProfile(h, u) \/ DeleteMasterProfile(h, u)
  \/ NextMonth
  \/ \E u \in Users : Leave(u)

Spec == Init /\ [][Next]_vars

-----------------------------------------------------------------------------
(* What get_org_usage shows.                                               *)

\* The sum of the counts of some rows: as many as there are units in them.
Units(rows) == UNION {{w} \X (1 .. count[w]) : w \in rows}

Total(rows) == Cardinality(Units(rows))

GenerationsThisMonth == Total({w \in Rows : owner[w] # None /\ period[w] = month})

AvailableGenerations == IF used > Quota THEN 0 ELSE Quota - used

-----------------------------------------------------------------------------
(* Properties.                                                             *)

Steps == {"idle", "find", "flush", "count", "reset", "insert", "delete"}

\* Every variable has its type, no quota is used less than not at all, and a
\* request that writes has its row, which no other request inserts under.
TypeOK ==
  /\ members \subseteq Users
  /\ month \in Months
  /\ owner \in [Rows -> Users \cup {None}]
  /\ period \in [Rows -> Months]
  /\ count \in [Rows -> Nat]
  /\ used \in Nat
  /\ templates \subseteq Templates
  /\ pc \in [Handlers -> Steps]
  /\ user \in [Handlers -> Users \cup {None}]
  /\ key \in [Handlers -> Months]
  /\ row \in [Handlers -> Rows \cup Templates \cup {None}]
  /\ held \in [Handlers -> Nat]
  /\ loaded \in [Handlers -> Nat]
  /\ logged \in [Users -> [Months -> Nat]]
  /\ \A h \in Handlers :
       /\ pc[h] \in {"find", "flush", "count"} => user[h] \in Users
       /\ pc[h] \in {"flush", "count"} => row[h] \in Rows
       /\ pc[h] \in {"insert", "delete"} => row[h] \in Templates

\* n requests at a time leave a user at most n rows of one month: the check and
\* the insert are two statements, and nothing in the schema forbids a second
\* row.  One at a time leaves one, and scalar_one_or_none never raises.
RowsBounded ==
  \A u \in Users, m \in Months : Cardinality(RowsOf(u, m)) <= Cardinality(Handlers)

\* Usage is never invented: whatever the requests overwrite of each other, a
\* month's rows add up to no more than the logs that were answered, to something
\* if there was one, and the organization shows no more for the month than all
\* of them and never offers more than its quota.
UsageNeverInvented ==
  /\ \A u \in Users, m \in Months :
       /\ Total(RowsOf(u, m)) <= logged[u][m]
       /\ logged[u][m] > 0 => Total(RowsOf(u, m)) > 0
  /\ GenerationsThisMonth <= Cardinality(LogsOf(Users, month))
  /\ AvailableGenerations \in 0 .. Quota

=============================================================================
