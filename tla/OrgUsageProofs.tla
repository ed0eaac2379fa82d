--------------------------- MODULE OrgUsageProofs ---------------------------
(***************************************************************************)
(* n requests at a time leave a user at most n rows of one month: a        *)
(* request that is to insert one has seen none, and from then on counts as *)
(* if it had inserted it.  And no usage is invented: a count that a row    *)
(* has, or that a request has loaded of it, stands for logs answered.      *)
(***************************************************************************)
EXTENDS OrgUsage, FiniteSetTheorems, TLAPS

USE UsageAssumption

LEMMA UsageInit == Init => TypeOK
BY DEF Init, TypeOK, Months, Steps

\* A request that goes on to another statement; the tables stay.
LEMMA RejectedType ==
  ASSUME TypeOK, NEW h \in Handlers, Forget(h),
         members' \subseteq Users, month' \in Months,
         owner' \in [Rows -> Users \cup {None}], period' \in [Rows -> Months],
         count' \in [Rows -> Nat], used' \in Nat, templates' \subseteq Templates,
         logged' \in [Users -> [Months -> Nat]]
  PROVE  TypeOK'
<1>1. /\ pc' = [pc EXCEPT ![h] = "idle"] /\ pc' \in [Handlers -> Steps]
      /\ user' = [user EXCEPT ![h] = None] /\ user' \in [Handlers -> Users \cup {None}]
      /\ row' = [row EXCEPT ![h] = None]
      /\ row' \in [Handlers -> Rows \cup Templates \cup {None}]
  BY DEF TypeOK, Forget, Goto, Steps
<1>2. key' \in [Handlers -> Months] /\ held' \in [Handlers -> Nat] /\ loaded' \in [Handlers -> Nat]
  BY DEF TypeOK, Forget, Months
<1>3. ASSUME NEW g \in Handlers
      PROVE  /\ pc'[g] \in {"find", "flush", "count"} => user'[g] \in Users
             /\ pc'[g] \in {"flush", "count"} => row'[g] \in Rows
             /\ pc'[g] \in {"insert", "delete"} => row'[g] \in Templates
  <2>1. CASE g = h
    BY <1>1, <2>1 DEF TypeOK
  <2>2. CASE g # h
    BY <1>1, <2>2 DEF TypeOK
  <2> QED
    BY <2>1, <2>2
<1> QED
  BY <1>1, <1>2, <1>3 DEF TypeOK

LEMMA UsageTypeNext == TypeOK /\ [Next]_vars => TypeOK'
<1> SUFFICES ASSUME TypeOK, [Next]_vars PROVE TypeOK'
  OBVIOUS
<1>1. ASSUME NEW h \in Handlers, Rejected(h) PROVE TypeOK'
  BY <1>1, RejectedType DEF Rejected, log, TypeOK
<1>2. ASSUME NEW h \in Handlers, Find(h) PROVE TypeOK'
  <2>1. CASE Rejected(h)
    BY <1>1, <2>1
  <2>2. CASE ~Rejected(h)
    <3>1. PICK w \in Rows, n \in Nat :
            /\ row' = [row EXCEPT ![h] = w] /\ held' = [held EXCEPT ![h] = n]
            /\ pc[h] = "find" /\ pc' = [pc EXCEPT ![h] = "flush"]
            /\ UNCHANGED <<members, month, log, used, templates, user, key, loaded, logged>>
      BY <1>2, <2>2 DEF Find, Goto, TypeOK
    <3> QED
      BY <3>1 DEF TypeOK, Steps, log
  <2> QED
    BY <2>1, <2>2
<1>3. ASSUME NEW h \in Handlers, Flush(h) PROVE TypeOK'
  BY <1>3 DEF Flush, Goto, TypeOK, Steps, log
<1>4. ASSUME NEW h \in Handlers, Count(h) PROVE TypeOK'
  <2>1. user[h] \in Users /\ key[h] \in Months /\ row[h] \in Rows
        /\ held[h] + 1 \in Nat /\ loaded[h] + 1 \in Nat
    BY <1>4 DEF Count, TypeOK
  <2>2. /\ owner' \in [Rows -> Users \cup {None}] /\ period' \in [Rows -> Months]
        /\ count' \in [Rows -> Nat] /\ used' \in Nat
    BY <1>4, <2>1 DEF Count, TypeOK
  <2>3. logged' \in [Users -> [Months -> Nat]]
    BY <1>4, <2>1 DEF Count, TypeOK
  <2> QED
    BY <1>4, <2>2, <2>3, RejectedType DEF Count, TypeOK
<1>5. ASSUME NEW h \in Handlers, ResetCommits(h) PROVE TypeOK'
  <2>1. used' \in Nat
    BY <1>5 DEF ResetCommits, TypeOK
  <2> QED
    BY <1>5, <2>1, RejectedType DEF ResetCommits, log, TypeOK
<1>6. ASSUME NEW h \in Handlers, TemplateCommits(h) PROVE TypeOK'
  <2>1. templates' \subseteq Templates
    BY <1>6 DEF TemplateCommits, TypeOK
  <2> QED
    BY <1>6, <2>1, RejectedType DEF TemplateCommits, log, TypeOK
<1>7. ASSUME NEW h \in Handlers, NEW u \in Users, Log(h, u) PROVE TypeOK'
  BY <1>7 DEF Log, Admitted, Goto, TypeOK, Steps, log
<1>8. ASSUME NEW h \in Handlers, NEW u \in Users, Reset(h, u) PROVE TypeOK'
  BY <1>8 DEF Reset, Admitted, Goto, TypeOK, Steps, log
<1>9. ASSUME NEW h \in Handlers, NEW u \in Users,
             CreateMasterProfile(h, u) \/ DeleteMasterProfile(h, u)
      PROVE  TypeOK'
  <2>1. PICK t \in Templates, step \in {"insert", "delete"} :
          /\ user' = [user EXCEPT ![h] = u] /\ row' = [row EXCEPT ![h] = t]
          /\ pc' = [pc EXCEPT ![h] = step]
          /\ UNCHANGED <<members, month, log, used, templates, key, held, loaded, logged>>
    BY <1>9 DEF CreateMasterProfile, DeleteMasterProfile, Admitted, Goto, TypeOK
  <2> QED
    BY <2>1 DEF TypeOK, Steps, log
<1>10. CASE NextMonth
  BY <1>10 DEF NextMonth, TypeOK, Months, log, requestVars
<1>11. ASSUME NEW u \in Users, Leave(u) PROVE TypeOK'
  BY <1>11 DEF Leave, TypeOK, log, requestVars
<1>12. CASE UNCHANGED vars
  BY <1>12 DEF vars, TypeOK, log, requestVars
<1> QED
  BY <1>1, <1>2, <1>3, <1>4, <1>5, <1>6, <1>7, <1>8, <1>9, <1>10, <1>11, <1>12
  DEF Next, Step, Fails

\* The variables of the usage log keep their types.
THEOREM UsageTypeCorrect == Spec => []TypeOK
BY UsageInit, UsageTypeNext, PTL DEF Spec

-----------------------------------------------------------------------------
(* Rows of one user and month.                                             *)

Holding(h) == pc[h] \in {"flush", "count"}

\* A request writes the row it found, or one that nobody else writes.
RowsHeld ==
  \A h \in Handlers : Holding(h) =>
    \/ owner[row[h]] = user[h] /\ period[row[h]] = key[h]
    \/ /\ owner[row[h]] = None
       /\ \A g \in Handlers : Holding(g) /\ row[g] = row[h] => g = h

\* The requests that are to insert a row of u and m.
Inserting(u, m) ==
  {h \in Handlers : Holding(h) /\ user[h] = u /\ key[h] = m /\ owner[row[h]] = None}

RowsCounted ==
  \A u \in Users, m \in Months :
    /\ IsFiniteSet(RowsOf(u, m))
    /\ Cardinality(RowsOf(u, m)) + Cardinality(Inserting(u, m)) <= Cardinality(Handlers)

LEMMA RowsInit == Init => RowsHeld /\ RowsCounted
<1> SUFFICES ASSUME Init PROVE RowsHeld /\ RowsCounted
  OBVIOUS
<1>1. RowsHeld
  BY DEF Init, RowsHeld, Holding
<1>2. ASSUME NEW u \in Users, NEW m \in Months
      PROVE  RowsOf(u, m) = {} /\ Inserting(u, m) = {}
  BY DEF Init, RowsOf, Inserting, Holding
<1>3. Cardinality(Handlers) \in Nat
  BY FS_CardinalityType
<1> QED
  BY <1>1, <1>2, <1>3, FS_EmptySet DEF RowsCounted

LEMMA InsertingFinite ==
  ASSUME NEW u \in Users, NEW m \in Months
  PROVE  /\ IsFiniteSet(Inserting(u, m)) /\ Cardinality(Inserting(u, m)) \in Nat
         /\ Cardinality(Inserting(u, m)) <= Cardinality(Handlers)
         /\ Cardinality(Handlers) \in Nat
BY FS_Subset, FS_CardinalityType DEF Inserting

\* A step that leaves the rows and begins no insert.
LEMMA RowsKeep ==
  ASSUME TypeOK, RowsHeld, RowsCounted, UNCHANGED <<owner, period>>,
         \A h \in Handlers : Holding(h)' =>
           Holding(h) /\ row'[h] = row[h] /\ user'[h] = user[h] /\ key'[h] = key[h]
  PROVE  RowsHeld' /\ RowsCounted'
<1>1. RowsHeld'
  BY DEF RowsHeld
<1>2. ASSUME NEW u \in Users, NEW m \in Months
      PROVE  /\ IsFiniteSet(RowsOf(u, m)')
             /\ Cardinality(RowsOf(u, m)') + Cardinality(Inserting(u, m)')
                  <= Cardinality(Handlers)
  <2>1. RowsOf(u, m)' = RowsOf(u, m)
    BY DEF RowsOf
  <2>2. Inserting(u, m)' \subseteq Inserting(u, m)
    BY DEF Inserting
  <2>3. /\ Cardinality(Inserting(u, m)') <= Cardinality(Inserting(u, m))
        /\ Cardinality(Inserting(u, m)') \in Nat /\ Cardinality(Inserting(u, m)) \in Nat
        /\ Cardinality(Handlers) \in Nat
    BY <2>2, InsertingFinite, FS_Subset, FS_CardinalityType
  <2>4. /\ IsFiniteSet(RowsOf(u, m)) /\ Cardinality(RowsOf(u, m)) \in Nat
        /\ Cardinality(RowsOf(u, m)) + Cardinality(Inserting(u, m)) <= Cardinality(Handlers)
    BY FS_CardinalityType DEF RowsCounted
  <2> QED
    BY <2>1, <2>3, <2>4
<1> QED
  BY <1>1, <1>2 DEF RowsCounted

LEMMA FindCounted ==
  ASSUME TypeOK, RowsHeld, RowsCounted, NEW h \in Handlers, Find(h), ~Rejected(h)
  PROVE  RowsHeld' /\ RowsCounted'
<1> DEFINE v == user[h]
           k == key[h]
           mine == RowsOf(v, k)
<1>1. PICK w \in Rows :
        /\ pc[h] = "find" /\ v \in Users /\ k \in Months
        /\ IF mine = {} THEN owner[w] = None /\ ~Taken(h, w) ELSE w \in mine
        /\ row' = [row EXCEPT ![h] = w] /\ pc' = [pc EXCEPT ![h] = "flush"]
        /\ UNCHANGED <<owner, period, user, key>>
  BY DEF Find, Goto, TypeOK, log
<1>2. /\ ~Holding(h) /\ Holding(h)' /\ row'[h] = w
      /\ \A g \in Handlers \ {h} : (Holding(g)' <=> Holding(g)) /\ row'[g] = row[g]
  BY <1>1 DEF Holding, TypeOK
<1>3. RowsHeld'
  <2> SUFFICES ASSUME NEW g \in Handlers, Holding(g)'
               PROVE  \/ owner[row'[g]] = user[g] /\ period[row'[g]] = key[g]
                      \/ /\ owner[row'[g]] = None
                         /\ \A x \in Handlers : Holding(x)' /\ row'[x] = row'[g] => x = g
    BY <1>1 DEF RowsHeld
  <2>1. CASE g = h /\ mine # {}
    BY <1>1, <1>2, <2>1 DEF RowsOf
  <2>2. CASE g = h /\ mine = {}
    BY <1>1, <1>2, <2>2 DEF Taken, Holding
  <2>3. CASE g # h
    <3>1. CASE owner[row[g]] = user[g] /\ period[row[g]] = key[g]
      BY <1>2, <2>3, <3>1
    <3>2. CASE ~ (owner[row[g]] = user[g] /\ period[row[g]] = key[g])
      <4>1. /\ owner[row[g]] = None
            /\ \A x \in Handlers : Holding(x) /\ row[x] = row[g] => x = g
        BY <1>2, <2>3, <3>2 DEF RowsHeld
      <4>2. row[g] # w
        <5>1. CASE mine = {}
          BY <1>1, <1>2, <2>3, <5>1 DEF Taken, Holding
        <5>2. CASE mine # {}
          BY <1>1, <4>1, <5>2 DEF RowsOf
        <5> QED
          BY <5>1, <5>2
      <4> QED
        BY <1>2, <2>3, <4>1, <4>2
    <3> QED
      BY <3>1, <3>2
  <2> QED
    BY <2>1, <2>2, <2>3
<1>4. ASSUME NEW u \in Users, NEW m \in Months
      PROVE  /\ IsFiniteSet(RowsOf(u, m)')
             /\ Cardinality(RowsOf(u, m)') + Cardinality(Inserting(u, m)')
                  <= Cardinality(Handlers)
  <2>1. RowsOf(u, m)' = RowsOf(u, m)
    BY <1>1 DEF RowsOf
  <2>2. IsFiniteSet(RowsOf(u, m)) /\ Cardinality(RowsOf(u, m)) \in Nat
    BY FS_CardinalityType DEF RowsCounted
  <2>3. CASE u = v /\ m = k /\ mine = {}
    <3>1. Cardinality(RowsOf(u, m)) = 0
      BY <2>3, FS_EmptySet
    <3>2. Inserting(u, m)' \subseteq Handlers
      BY DEF Inserting
    <3>3. /\ Cardinality(Inserting(u, m)') <= Cardinality(Handlers)
          /\ Cardinality(Inserting(u, m)') \in Nat
      BY <3>2, FS_Subset, FS_CardinalityType
    <3> QED
      BY <2>1, <2>2, <3>1, <3>3
  <2>4. CASE ~ (u = v /\ m = k /\ mine = {})
    <3>1. Inserting(u, m)' = Inserting(u, m)
      <4>1. h \notin Inserting(u, m)' /\ h \notin Inserting(u, m)
        BY <1>1, <1>2, <2>4 DEF Inserting, RowsOf, TypeOK
      <4>2. \A g \in Handlers \ {h} : g \in Inserting(u, m)' <=> g \in Inserting(u, m)
        BY <1>1, <1>2 DEF Inserting
      <4>3. Inserting(u, m)' \subseteq Handlers /\ Inserting(u, m) \subseteq Handlers
        BY DEF Inserting
      <4> QED
        BY <4>1, <4>2, <4>3
    <3> QED
      BY <2>1, <3>1 DEF RowsCounted
  <2> QED
    BY <2>3, <2>4
<1> QED
  BY <1>3, <1>4 DEF RowsCounted

\* The request that inserts a row is no longer one that is to insert it.
LEMMA CountCounted ==
  ASSUME TypeOK, RowsHeld, RowsCounted, NEW h \in Handlers, Count(h)
  PROVE  RowsHeld' /\ RowsCounted'
<1> DEFINE w == row[h]
           v == user[h]
           k == key[h]
<1>1. /\ pc[h] = "count" /\ w \in Rows /\ v \in Users /\ k \in Months
      /\ owner' = [owner EXCEPT ![w] = v] /\ period' = [period EXCEPT ![w] = k]
  BY DEF Count, TypeOK
<1>2. /\ Holding(h) /\ ~Holding(h)'
      /\ \A g \in Handlers \ {h} :
           /\ Holding(g)' <=> Holding(g)
           /\ row'[g] = row[g] /\ user'[g] = user[g] /\ key'[g] = key[g]
      /\ \A g \in Handlers : Holding(g) => row[g] \in Rows
  BY <1>1 DEF Count, Forget, Goto, Holding, TypeOK
<1>3. CASE owner[w] = v /\ period[w] = k
  <2>1. owner' = owner /\ period' = period
    BY <1>1, <1>3 DEF TypeOK
  <2> QED
    BY <1>2, <2>1, RowsKeep
<1>4. CASE ~ (owner[w] = v /\ period[w] = k)
  <2>1. /\ owner[w] = None
        /\ \A g \in Handlers : Holding(g) /\ row[g] = w => g = h
    BY <1>2, <1>4 DEF RowsHeld
  <2>2. \A x \in Rows \ {w} : owner'[x] = owner[x] /\ period'[x] = period[x]
    BY <1>1 DEF TypeOK
  <2>3. \A g \in Handlers \ {h} : Holding(g) => row[g] \in Rows \ {w}
    BY <1>2, <2>1
  <2>4. RowsHeld'
    BY <1>2, <2>2, <2>3 DEF RowsHeld
  <2>5. ASSUME NEW u \in Users, NEW m \in Months
        PROVE  /\ IsFiniteSet(RowsOf(u, m)')
               /\ Cardinality(RowsOf(u, m)') + Cardinality(Inserting(u, m)')
                    <= Cardinality(Handlers)
    <3>1. /\ IsFiniteSet(RowsOf(u, m)) /\ Cardinality(RowsOf(u, m)) \in Nat
          /\ Cardinality(RowsOf(u, m)) + Cardinality(Inserting(u, m)) <= Cardinality(Handlers)
      BY FS_CardinalityType DEF RowsCounted
    <3>2. Inserting(u, m)' = Inserting(u, m) \ {h}
      <4>1. h \notin Inserting(u, m)'
        BY <1>2 DEF Inserting
      <4>2. \A g \in Handlers \ {h} : g \in Inserting(u, m)' <=> g \in Inserting(u, m)
        BY <1>2, <2>2, <2>3 DEF Inserting
      <4>3. Inserting(u, m)' \subseteq Handlers /\ Inserting(u, m) \subseteq Handlers
        BY DEF Inserting
      <4> QED
        BY <4>1, <4>2, <4>3
    <3>3. w \notin RowsOf(u, m)
      BY <2>1 DEF RowsOf
    <3>4. CASE u = v /\ m = k
      <4>1. h \in Inserting(u, m)
        BY <1>2, <2>1, <3>4 DEF Inserting
      <4>2. RowsOf(u, m)' = RowsOf(u, m) \cup {w}
        BY <1>1, <2>2, <3>4 DEF RowsOf, TypeOK
      <4>3. /\ IsFiniteSet(RowsOf(u, m)')
            /\ Cardinality(RowsOf(u, m)') = Cardinality(RowsOf(u, m)) + 1
        <5>1. /\ IsFiniteSet(RowsOf(u, m) \cup {w})
              /\ Cardinality(RowsOf(u, m) \cup {w}) = Cardinality(RowsOf(u, m)) + 1
          BY <3>1, <3>3, FS_AddElement
        <5> QED
          BY <4>2, <5>1
      <4>4. Cardinality(Inserting(u, m)') = Cardinality(Inserting(u, m)) - 1
        BY <3>2, <4>1, InsertingFinite, FS_RemoveElement
      <4> QED
        BY <3>1, <4>3, <4>4, InsertingFinite
    <3>5. CASE ~ (u = v /\ m = k)
      <4>1. RowsOf(u, m)' = RowsOf(u, m)
        BY <1>1, <2>1, <2>2, <3>5 DEF RowsOf, TypeOK
      <4>2. h \notin Inserting(u, m)
        BY <3>5 DEF Inserting
      <4>3. Inserting(u, m)' = Inserting(u, m)
        BY <3>2, <4>2
      <4> QED
        BY <3>1, <4>1, <4>3
    <3> QED
      BY <3>4, <3>5
  <2> QED
    BY <2>4, <2>5 DEF RowsCounted
<1> QED
  BY <1>3, <1>4

LEMMA RowsNext == TypeOK /\ RowsHeld /\ RowsCounted /\ [Next]_vars => RowsHeld' /\ RowsCounted'
<1> SUFFICES ASSUME TypeOK, RowsHeld, RowsCounted, [Next]_vars
             PROVE  RowsHeld' /\ RowsCounted'
  OBVIOUS
<1>1. ASSUME NEW h \in Handlers, Rejected(h) PROVE RowsHeld' /\ RowsCounted'
  BY <1>1, RowsKeep DEF Rejected, Forget, Goto, Holding, TypeOK, log
<1>2. ASSUME NEW h \in Handlers, Find(h) PROVE RowsHeld' /\ RowsCounted'
  BY <1>1, <1>2, FindCounted
<1>3. ASSUME NEW h \in Handlers, Flush(h) PROVE RowsHeld' /\ RowsCounted'
  BY <1>3, RowsKeep DEF Flush, Goto, Holding, TypeOK, log
<1>4. ASSUME NEW h \in Handlers, ResetCommits(h) \/ TemplateCommits(h)
      PROVE  RowsHeld' /\ RowsCounted'
  BY <1>4, RowsKeep DEF ResetCommits, TemplateCommits, Forget, Goto, Holding, TypeOK, log
\* A request begins with another statement than a write of the log.
<1>5. ASSUME NEW h \in Handlers, NEW u \in Users,
             \/ Log(h, u) \/ Reset(h, u)
             \/ CreateMasterProfile(h, u) \/ DeleteMasterProfile(h, u)
      PROVE  RowsHeld' /\ RowsCounted'
  <2>1. PICK step \in {"find", "reset", "insert", "delete"} :
          /\ pc' = [pc EXCEPT ![h] = step] /\ UNCHANGED <<owner, period>>
          /\ \A g \in Handlers \ {h} : /\ row'[g] = row[g] /\ user'[g] = user[g]
                                       /\ key'[g] = key[g]
    BY <1>5 DEF Log, Reset, CreateMasterProfile, DeleteMasterProfile, Admitted, Goto, TypeOK, log
  <2> QED
    BY <2>1, RowsKeep DEF Holding, TypeOK
<1>6. ASSUME UNCHANGED <<owner, period, pc, row, user, key>> PROVE RowsHeld' /\ RowsCounted'
  BY <1>6, RowsKeep DEF Holding
<1>7. CASE NextMonth \/ UNCHANGED vars \/ \E u \in Users : Leave(u)
  BY <1>6, <1>7 DEF NextMonth, Leave, vars, requestVars, log
<1> QED
  BY <1>1, <1>2, <1>3, <1>4, <1>5, <1>7, CountCounted DEF Next, Step, Fails

\* n requests at a time leave a user at most n rows of one month.
THEOREM RowsStayBounded == Spec => []RowsBounded
<1>1. TypeOK /\ RowsCounted => RowsBounded
  <2> SUFFICES ASSUME RowsCounted, NEW u \in Users, NEW m \in Months
               PROVE  Cardinality(RowsOf(u, m)) <= Cardinality(Handlers)
    BY DEF RowsBounded
  <2>1. Cardinality(RowsOf(u, m)) \in Nat
    BY FS_CardinalityType DEF RowsCounted
  <2> QED
    BY <2>1, InsertingFinite DEF RowsCounted
<1> QED
  BY <1>1, UsageTypeCorrect, RowsInit, RowsNext, PTL DEF Spec
-----------------------------------------------------------------------------
(* Counts and logs.                                                        *)

\* What row w counts, and what the requests that are to write it have loaded
\* of it, as units: a later write may raise the count again to one of these.
Seen(users, m) ==
  {x \in Rows \X (Nat \ {0}) :
     \/ owner[x[1]] \in users /\ period[x[1]] = m /\ x[2] <= count[x[1]]
     \/ \E h \in Handlers :
          /\ Holding(h) /\ row[h] = x[1] /\ user[h] \in users /\ key[h] = m
          /\ x[2] <= held[h]}

SeenLogged ==
  \A users \in SUBSET Users, m \in Months :
    /\ IsFiniteSet(Seen(users, m)) /\ IsFiniteSet(LogsOf(users, m))
    /\ Cardinality(Seen(users, m)) <= Cardinality(LogsOf(users, m))

\* A log that was answered has left a row, and rows count something.
LoggedSeen ==
  /\ \A u \in Users, m \in Months : logged[u][m] > 0 => RowsOf(u, m) # {}
  /\ \A w \in Rows : owner[w] # None => count[w] > 0

LEMMA OneMore ==
  ASSUME NEW S, NEW x, IsFiniteSet(S)
  PROVE  /\ IsFiniteSet(S \cup {x}) /\ Cardinality(S \cup {x}) \in Nat
         /\ Cardinality(S \cup {x}) <= Cardinality(S) + 1
<1>1. Cardinality(S) \in Nat
  BY FS_CardinalityType
<1>2. /\ IsFiniteSet(S \cup {x})
      /\ Cardinality(S \cup {x}) = IF x \in S THEN Cardinality(S) ELSE Cardinality(S) + 1
  BY FS_AddElement
<1> QED
  BY <1>1, <1>2

LEMMA ColumnSize ==
  ASSUME NEW u, NEW n \in Nat
  PROVE  Cardinality({u} \X (1 .. n)) = n
<1>1. IsFiniteSet(1 .. n) /\ Cardinality(1 .. n) = n
  BY FS_Interval
<1>2. IsFiniteSet({u}) /\ Cardinality({u}) = 1
  BY FS_Singleton
<1>3. Cardinality({u} \X (1 .. n)) = Cardinality({u}) * Cardinality(1 .. n)
  BY <1>1, <1>2, FS_Product
<1> QED
  BY <1>1, <1>2, <1>3

LEMMA LogsInit == Init => SeenLogged /\ LoggedSeen
<1> SUFFICES ASSUME Init PROVE SeenLogged /\ LoggedSeen
  OBVIOUS
<1>1. ASSUME NEW users \in SUBSET Users, NEW m \in Months
      PROVE  Seen(users, m) = {} /\ LogsOf(users, m) = {}
  BY DEF Init, Seen, LogsOf, Holding
<1>2. LoggedSeen
  BY DEF Init, LoggedSeen
<1> QED
  BY <1>1, <1>2, FS_EmptySet DEF SeenLogged

\* A step that writes no row, and loads no more of it than it counts.
LEMMA LogsKeep ==
  ASSUME TypeOK, SeenLogged, LoggedSeen, UNCHANGED <<log, logged>>,
         \A h \in Handlers : Holding(h)' =>
           \/ /\ Holding(h) /\ row'[h] = row[h] /\ user'[h] = user[h]
              /\ key'[h] = key[h] /\ held'[h] = held[h]
           \/ held'[h] = 0
           \/ owner[row'[h]] = user'[h] /\ period[row'[h]] = key'[h] /\ held'[h] = count[row'[h]]
  PROVE  SeenLogged' /\ LoggedSeen'
<1>1. ASSUME NEW users \in SUBSET Users, NEW m \in Months
      PROVE  Seen(users, m)' \subseteq Seen(users, m) /\ LogsOf(users, m)' = LogsOf(users, m)
  <2>1. LogsOf(users, m)' = LogsOf(users, m)
    BY DEF LogsOf
  <2>2. Seen(users, m)' \subseteq Seen(users, m)
    <3> SUFFICES ASSUME NEW x \in Seen(users, m)' PROVE x \in Seen(users, m)
      OBVIOUS
    <3>1. x \in Rows \X (Nat \ {0})
      BY DEF Seen
    <3>2. CASE owner[x[1]] \in users /\ period[x[1]] = m /\ x[2] <= count[x[1]]
      BY <3>1, <3>2 DEF Seen
    <3>3. CASE ~ (owner[x[1]] \in users /\ period[x[1]] = m /\ x[2] <= count[x[1]])
      <4>1. PICK h \in Handlers :
              /\ Holding(h)' /\ row'[h] = x[1] /\ user'[h] \in users /\ key'[h] = m
              /\ x[2] <= held'[h]
        BY <3>3 DEF Seen, log
      <4>2. held'[h] # 0
        BY <3>1, <4>1
      <4> QED
        BY <3>1, <3>3, <4>1, <4>2 DEF Seen
    <3> QED
      BY <3>2, <3>3
  <2> QED
    BY <2>1, <2>2
<1>2. ASSUME NEW users \in SUBSET Users, NEW m \in Months
      PROVE  /\ IsFiniteSet(Seen(users, m)') /\ IsFiniteSet(LogsOf(users, m)')
             /\ Cardinality(Seen(users, m)') <= Cardinality(LogsOf(users, m)')
  <2>1. /\ IsFiniteSet(Seen(users, m)) /\ IsFiniteSet(LogsOf(users, m))
        /\ Cardinality(Seen(users, m)) <= Cardinality(LogsOf(users, m))
    BY DEF SeenLogged
  <2>2. /\ IsFiniteSet(Seen(users, m)') /\ Cardinality(Seen(users, m)') <= Cardinality(Seen(users, m))
    BY <1>1, <2>1, FS_Subset
  <2>3. Cardinality(Seen(users, m)') \in Nat /\ Cardinality(Seen(users, m)) \in Nat
        /\ Cardinality(LogsOf(users, m)) \in Nat
    BY <2>1, <2>2, FS_CardinalityType
  <2> QED
    BY <1>1, <2>1, <2>2, <2>3
<1>3. LoggedSeen'
  BY DEF LoggedSeen, RowsOf, log
<1> QED
  BY <1>2, <1>3 DEF SeenLogged

\* A log that is answered is one more unit of its row at most.
LEMMA CountLogged ==
  ASSUME TypeOK, RowsHeld, SeenLogged, LoggedSeen, NEW h \in Handlers, Count(h)
  PROVE  SeenLogged' /\ LoggedSeen'
<1> DEFINE w == row[h]
           v == user[h]
           k == key[h]
           n == logged[v][k] + 1
<1>1. /\ pc[h] = "count" /\ w \in Rows /\ v \in Users /\ k \in Months /\ held[h] \in Nat
      /\ owner' = [owner EXCEPT ![w] = v] /\ period' = [period EXCEPT ![w] = k]
      /\ count' = [count EXCEPT ![w] = held[h] + 1]
      /\ logged' = [logged EXCEPT ![v][k] = @ + 1]
      /\ logged[v][k] \in Nat
  BY DEF Count, TypeOK
<1>2. /\ Holding(h) /\ ~Holding(h)'
      /\ \A g \in Handlers \ {h} :
           /\ Holding(g)' <=> Holding(g)
           /\ row'[g] = row[g] /\ user'[g] = user[g] /\ key'[g] = key[g] /\ held'[g] = held[g]
  BY <1>1 DEF Count, Forget, Goto, Holding, TypeOK
<1>3. \A y \in Rows \ {w} : owner'[y] = owner[y] /\ period'[y] = period[y] /\ count'[y] = count[y]
  BY <1>1 DEF TypeOK
<1>4. owner'[w] = v /\ period'[w] = k /\ count'[w] = held[h] + 1
  BY <1>1 DEF TypeOK
<1>5. owner[w] = None \/ (owner[w] = v /\ period[w] = k)
  BY <1>2 DEF RowsHeld
<1>6. \A u \in Users, m \in Months : logged'[u][m] = IF u = v /\ m = k THEN n ELSE logged[u][m]
  BY <1>1 DEF TypeOK
<1>7. ASSUME NEW users \in SUBSET Users, NEW m \in Months, NEW x \in Seen(users, m)'
      PROVE  x \in Seen(users, m) \/ (v \in users /\ m = k /\ x = <<w, held[h] + 1>>)
  <2>1. x \in Rows \X (Nat \ {0}) /\ x = <<x[1], x[2]>> /\ x[2] \in Nat
    BY DEF Seen
  <2>2. CASE \E g \in Handlers :
               /\ Holding(g)' /\ row'[g] = x[1] /\ user'[g] \in users /\ key'[g] = m
               /\ x[2] <= held'[g]
    BY <1>2, <2>1, <2>2 DEF Seen
  <2>3. CASE x[1] # w /\ owner'[x[1]] \in users /\ period'[x[1]] = m /\ x[2] <= count'[x[1]]
    BY <1>3, <2>1, <2>3 DEF Seen
  <2>4. CASE x[1] = w /\ v \in users /\ k = m /\ x[2] <= held[h] + 1
    <3>1. CASE x[2] <= held[h]
      BY <1>2, <2>1, <2>4, <3>1 DEF Seen
    <3>2. CASE x[2] = held[h] + 1
      BY <2>1, <2>4, <3>2
    <3> QED
      BY <1>1, <2>1, <2>4, <3>1, <3>2
  <2> QED
    BY <1>4, <2>2, <2>3, <2>4 DEF Seen
<1>8. ASSUME NEW users \in SUBSET Users, NEW m \in Months
      PROVE  /\ IsFiniteSet(Seen(users, m)') /\ IsFiniteSet(LogsOf(users, m)')
             /\ Cardinality(Seen(users, m)') <= Cardinality(LogsOf(users, m)')
  <2>1. /\ IsFiniteSet(Seen(users, m)) /\ IsFiniteSet(LogsOf(users, m))
        /\ Cardinality(Seen(users, m)) <= Cardinality(LogsOf(users, m))
        /\ Cardinality(Seen(users, m)) \in Nat /\ Cardinality(LogsOf(users, m)) \in Nat
    BY FS_CardinalityType DEF SeenLogged
  <2>2. CASE v \in users /\ m = k
    <3>1. Seen(users, m)' \subseteq Seen(users, m) \cup {<<w, held[h] + 1>>}
      BY <1>7, <2>2
    <3>2. LogsOf(users, m)' = LogsOf(users, m) \cup {<<v, n>>}
      <4>1. \A u \in users : {u} \X (1 .. logged'[u][m]) =
              {u} \X (1 .. logged[u][m]) \cup (IF u = v THEN {<<v, n>>} ELSE {})
        <5> SUFFICES ASSUME NEW u \in users
                     PROVE  {u} \X (1 .. logged'[u][m]) =
                              {u} \X (1 .. logged[u][m]) \cup (IF u = v THEN {<<v, n>>} ELSE {})
          OBVIOUS
        <5>1. CASE u = v
          <6>1. 1 .. logged'[u][m] = 1 .. logged[u][m] \cup {n}
            BY <1>1, <1>6, <2>2, <5>1
          <6> QED
            BY <5>1, <6>1
        <5>2. CASE u # v
          BY <1>6, <5>2
        <5> QED
          BY <5>1, <5>2
      <4> QED
        BY <2>2, <4>1 DEF LogsOf
    <3>3. <<v, n>> \notin LogsOf(users, m)
      BY <1>1, <2>2 DEF LogsOf
    <3>4. /\ IsFiniteSet(Seen(users, m) \cup {<<w, held[h] + 1>>})
          /\ Cardinality(Seen(users, m) \cup {<<w, held[h] + 1>>}) <= Cardinality(Seen(users, m)) + 1
          /\ Cardinality(Seen(users, m) \cup {<<w, held[h] + 1>>}) \in Nat
      BY <2>1, OneMore
    <3>5. /\ IsFiniteSet(Seen(users, m)') /\ Cardinality(Seen(users, m)') \in Nat
          /\ Cardinality(Seen(users, m)') <= Cardinality(Seen(users, m)) + 1
      BY <2>1, <3>1, <3>4, FS_Subset, FS_CardinalityType
    <3>6. /\ IsFiniteSet(LogsOf(users, m) \cup {<<v, n>>})
          /\ Cardinality(LogsOf(users, m) \cup {<<v, n>>}) = Cardinality(LogsOf(users, m)) + 1
      BY <2>1, <3>3, FS_AddElement
    <3> QED
      BY <2>1, <3>2, <3>5, <3>6
  <2>3. CASE ~ (v \in users /\ m = k)
    <3>1. Seen(users, m)' \subseteq Seen(users, m)
      BY <1>7, <2>3
    <3>2. LogsOf(users, m)' = LogsOf(users, m)
      BY <1>6, <2>3 DEF LogsOf
    <3>3. /\ IsFiniteSet(Seen(users, m)') /\ Cardinality(Seen(users, m)') \in Nat
          /\ Cardinality(Seen(users, m)') <= Cardinality(Seen(users, m))
      BY <2>1, <3>1, FS_Subset, FS_CardinalityType
    <3> QED
      BY <2>1, <3>2, <3>3
  <2> QED
    BY <2>2, <2>3
<1>9. LoggedSeen'
  <2>1. \A y \in Rows : owner'[y] # None => count'[y] > 0
    BY <1>1, <1>3, <1>4 DEF LoggedSeen
  <2>2. \A u \in Users, m \in Months : RowsOf(u, m) \subseteq RowsOf(u, m)'
    BY <1>3, <1>4, <1>5, UsageAssumption DEF RowsOf
  <2>3. \A u \in Users, m \in Months : u = v /\ m = k => RowsOf(u, m)' # {}
    BY <1>1, <1>4 DEF RowsOf
  <2>4. \A u \in Users, m \in Months : logged'[u][m] > 0 => RowsOf(u, m)' # {}
    BY <1>6, <2>2, <2>3 DEF LoggedSeen
  <2> QED
    BY <2>1, <2>4 DEF LoggedSeen
<1> QED
  BY <1>8, <1>9 DEF SeenLogged

LEMMA LogsNext ==
  TypeOK /\ RowsHeld /\ SeenLogged /\ LoggedSeen /\ [Next]_vars => SeenLogged' /\ LoggedSeen'
<1> SUFFICES ASSUME TypeOK, RowsHeld, SeenLogged, LoggedSeen, [Next]_vars
             PROVE  SeenLogged' /\ LoggedSeen'
  OBVIOUS
<1>1. ASSUME NEW h \in Handlers, Rejected(h) PROVE SeenLogged' /\ LoggedSeen'
  BY <1>1, LogsKeep DEF Rejected, Forget, Goto, Holding, TypeOK
<1>2. ASSUME NEW h \in Handlers, Find(h), ~Rejected(h) PROVE SeenLogged' /\ LoggedSeen'
  <2>1. PICK w \in Rows :
          /\ pc[h] = "find"
          /\ RowsOf(user[h], key[h]) # {} => w \in RowsOf(user[h], key[h])
          /\ row' = [row EXCEPT ![h] = w]
          /\ held' = [held EXCEPT ![h] = IF RowsOf(user[h], key[h]) = {} THEN 0 ELSE count[w]]
          /\ pc' = [pc EXCEPT ![h] = "flush"]
          /\ UNCHANGED <<log, user, key, logged>>
    BY <1>2 DEF Find, Goto
  <2>2. \A g \in Handlers \ {h} : /\ Holding(g)' <=> Holding(g)
                                  /\ row'[g] = row[g] /\ held'[g] = held[g]
    BY <2>1 DEF Holding, TypeOK
  <2>3. row'[h] = w /\ held'[h] = IF RowsOf(user[h], key[h]) = {} THEN 0 ELSE count[w]
    BY <2>1 DEF TypeOK
  <2>4. RowsOf(user[h], key[h]) # {} => owner[w] = user[h] /\ period[w] = key[h]
    BY <2>1 DEF RowsOf
  <2> QED
    BY <2>1, <2>2, <2>3, <2>4, LogsKeep
<1>3. ASSUME NEW h \in Handlers, Flush(h) PROVE SeenLogged' /\ LoggedSeen'
  BY <1>3, LogsKeep DEF Flush, Goto, Holding, TypeOK
<1>4. ASSUME NEW h \in Handlers, ResetCommits(h) \/ TemplateCommits(h)
      PROVE  SeenLogged' /\ LoggedSeen'
  BY <1>4, LogsKeep DEF ResetCommits, TemplateCommits, Forget, Goto, Holding, TypeOK
<1>5. ASSUME NEW h \in Handlers, NEW u \in Users,
             \/ Log(h, u) \/ Reset(h, u)
             \/ CreateMasterProfile(h, u) \/ DeleteMasterProfile(h, u)
      PROVE  SeenLogged' /\ LoggedSeen'
  <2>1. PICK step \in {"find", "reset", "insert", "delete"} :
          /\ pc' = [pc EXCEPT ![h] = step] /\ UNCHANGED <<log, logged, held>>
          /\ \A g \in Handlers \ {h} : /\ row'[g] = row[g] /\ user'[g] = user[g]
                                       /\ key'[g] = key[g]
    BY <1>5 DEF Log, Reset, CreateMasterProfile, DeleteMasterProfile, Admitted, Goto, TypeOK
  <2> QED
    BY <2>1, LogsKeep DEF Holding, TypeOK
<1>6. CASE NextMonth \/ UNCHANGED vars \/ \E u \in Users : Leave(u)
  BY <1>6, LogsKeep DEF NextMonth, Leave, vars, requestVars, Holding
<1> QED
  BY <1>1, <1>2, <1>3, <1>4, <1>5, <1>6, CountLogged DEF Next, Step, Fails

\* Some rows of one month have no more units than there were logs.
LEMMA UnitsLogged ==
  ASSUME TypeOK, SeenLogged, NEW users \in SUBSET Users, NEW m \in Months,
         NEW rows \in SUBSET Rows, \A w \in rows : owner[w] \in users /\ period[w] = m
  PROVE  /\ IsFiniteSet(Units(rows)) /\ Total(rows) \in Nat
         /\ Total(rows) <= Cardinality(LogsOf(users, m))
<1>1. Units(rows) \subseteq Seen(users, m)
  <2> SUFFICES ASSUME NEW x \in Units(rows) PROVE x \in Seen(users, m)
    OBVIOUS
  <2>1. PICK w \in rows : x \in {w} \X (1 .. count[w])
    BY DEF Units
  <2>2. x = <<w, x[2]>> /\ x[2] \in Nat \ {0} /\ x[2] <= count[w] /\ w \in Rows
    BY <2>1 DEF TypeOK
  <2> QED
    BY <2>2 DEF Seen
<1>2. /\ IsFiniteSet(Seen(users, m)) /\ IsFiniteSet(LogsOf(users, m))
      /\ Cardinality(Seen(users, m)) <= Cardinality(LogsOf(users, m))
      /\ Cardinality(Seen(users, m)) \in Nat /\ Cardinality(LogsOf(users, m)) \in Nat
  BY FS_CardinalityType DEF SeenLogged
<1>3. /\ IsFiniteSet(Units(rows)) /\ Cardinality(Units(rows)) <= Cardinality(Seen(users, m))
      /\ Cardinality(Units(rows)) \in Nat
  BY <1>1, <1>2, FS_Subset, FS_CardinalityType
<1> QED
  BY <1>2, <1>3 DEF Total

\* Whatever requests overwrite of each other's counts, and whatever number of
\* them: no count and no page shows a log that was not answered, and a log that
\* was answered shows as something.
THEOREM UsageStaysHonest == Spec => []UsageNeverInvented
<1>1. TypeOK /\ SeenLogged /\ LoggedSeen => UsageNeverInvented
  <2> SUFFICES ASSUME TypeOK, SeenLogged, LoggedSeen PROVE UsageNeverInvented
    OBVIOUS
  <2>1. ASSUME NEW u \in Users, NEW m \in Months
        PROVE  /\ Total(RowsOf(u, m)) <= logged[u][m]
               /\ logged[u][m] > 0 => Total(RowsOf(u, m)) > 0
    <3>1. /\ IsFiniteSet(Units(RowsOf(u, m))) /\ Total(RowsOf(u, m)) \in Nat
          /\ Total(RowsOf(u, m)) <= Cardinality(LogsOf({u}, m))
      BY UnitsLogged DEF RowsOf
    <3>2. Cardinality(LogsOf({u}, m)) = logged[u][m]
      <4>1. LogsOf({u}, m) = {u} \X (1 .. logged[u][m])
        BY DEF LogsOf
      <4>2. logged[u][m] \in Nat
        BY DEF TypeOK
      <4> QED
        BY <4>1, <4>2, ColumnSize
    <3>3. ASSUME logged[u][m] > 0 PROVE Total(RowsOf(u, m)) > 0
      <4>1. PICK w \in RowsOf(u, m) : TRUE
        BY <3>3 DEF LoggedSeen
      <4>2. w \in Rows /\ count[w] \in Nat /\ count[w] > 0
        BY <4>1, UsageAssumption DEF LoggedSeen, RowsOf, TypeOK
      <4>3. <<w, 1>> \in Units(RowsOf(u, m))
        BY <4>1, <4>2 DEF Units
      <4> QED
        BY <3>1, <4>3, FS_EmptySet DEF Total
    <3> QED
      BY <3>1, <3>2, <3>3
  <2>2. GenerationsThisMonth <= Cardinality(LogsOf(Users, month))
    <3> DEFINE rows == {w \in Rows : owner[w] # None /\ period[w] = month}
    <3>1. \A w \in rows : owner[w] \in Users /\ period[w] = month
      BY DEF TypeOK
    <3>2. rows \in SUBSET Rows /\ month \in Months /\ Users \in SUBSET Users
      BY DEF TypeOK
    <3> HIDE DEF rows
    <3>3. Total(rows) <= Cardinality(LogsOf(Users, month))
      BY <3>1, <3>2, UnitsLogged
    <3> QED
      BY <3>3 DEF GenerationsThisMonth, rows
  <2>3. AvailableGenerations \in 0 .. Quota
    BY UsageAssumption DEF AvailableGenerations, TypeOK
  <2> QED
    BY <2>1, <2>2, <2>3 DEF UsageNeverInvented
<1> QED
  BY <1>1, UsageTypeCorrect, RowsInit, RowsNext, LogsInit, LogsNext, PTL DEF Spec

=============================================================================
