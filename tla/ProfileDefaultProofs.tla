------------------------ MODULE ProfileDefaultProofs ------------------------
(***************************************************************************)
(* However requests overlap, they leave no more default profiles than      *)
(* there are requests served at one time.                                  *)
(***************************************************************************)
EXTENDS ProfileDefault, FiniteSetTheorems, TLAPS

USE ProfileAssumption

-----------------------------------------------------------------------------
(* Types, and what a transaction has written when.                         *)

\* A row is written by one transaction at a time.
Locked ==
  \A h, g \in Handlers, p \in Profiles :
    writes[h][p] # "none" /\ writes[g][p] # "none" => h = g

\* Before its find a request has written nothing but other columns, and only
\* its last statement sets a flag, the one of its target.
Planned(h) ==
  /\ pc[h] \in {"idle", "touch", "delete"} => writes[h] = NoWrites
  /\ pc[h] \in {"find", "unset"} =>
       want[h] /\ \A p \in Profiles : writes[h][p] \in {"none", "keep"}
  /\ pc[h] = "touch" => op[h] = "edit" \/ want[h]
  /\ \A p \in Profiles : writes[h][p] = "on" =>
       pc[h] = "commit" /\ p = target[h] /\ p \in rows

Orderly == TypeOK /\ Locked /\ \A h \in Handlers : Planned(h)

LEMMA OrderlyInit == Init => Orderly
BY DEF Init, Orderly, TypeOK, Locked, Planned, NoWrites, Steps, Operations, Writes

LEMMA NoWritesType ==
  NoWrites \in [Profiles -> Writes] /\ \A p \in Profiles : NoWrites[p] = "none"
BY DEF NoWrites, Writes

\* A request that ends holds nothing.
LEMMA RollbackOrderly ==
  ASSUME Orderly, NEW h \in Handlers, Rollback(h) PROVE Orderly'
<1> USE DEF Rollback, Forget, Goto
<1>1. TypeOK'
  BY NoWritesType DEF Orderly, TypeOK, Steps, Operations
<1>2. Locked'
  BY NoWritesType DEF Orderly, Locked, TypeOK
<1>3. ASSUME NEW g \in Handlers PROVE Planned(g)'
  <2>1. CASE g = h
    BY <2>1, NoWritesType DEF Orderly, Planned, TypeOK
  <2>2. CASE g # h
    BY <2>2 DEF Orderly, Planned, TypeOK
  <2> QED
    BY <2>1, <2>2
<1> QED
  BY <1>1, <1>2, <1>3 DEF Orderly

\* A row that is free gets one writer.
LEMMA WriteLocks ==
  ASSUME Orderly, NEW h \in Handlers, NEW p \in Profiles, NEW what \in Writes, Write(h, p, what)
  PROVE  /\ Locked' /\ writes' \in [Handlers -> [Profiles -> Writes]]
         /\ writes'[h][p] = what
         /\ \A q \in Profiles \ {p} : writes'[h][q] = writes[h][q]
         /\ \A g \in Handlers \ {h} : writes'[g] = writes[g]
<1>1. /\ writes' \in [Handlers -> [Profiles -> Writes]]
      /\ writes'[h][p] = what
      /\ \A q \in Profiles \ {p} : writes'[h][q] = writes[h][q]
      /\ \A g \in Handlers \ {h} : writes'[g] = writes[g]
  BY DEF Write, Orderly, TypeOK
<1>2. Locked'
  BY <1>1 DEF Write, Free, Orderly, Locked
<1> QED
  BY <1>1, <1>2

LEMMA LoadOrderly ==
  ASSUME Orderly, NEW h \in Handlers, NEW p \in Profiles,
         NEW operation \in Operations, NEW value \in BOOLEAN,
         NEW step \in {"touch", "find", "set", "delete"},
         Load(h, p, operation, value, step),
         step = "find" => value, step = "touch" => operation = "edit" \/ value
  PROVE  Orderly'
<1> USE DEF Load, Goto
<1>1. TypeOK'
  BY DEF Orderly, TypeOK, Steps
<1>2. Locked'
  BY DEF Orderly, Locked
<1>3. ASSUME NEW g \in Handlers PROVE Planned(g)'
  <2>1. CASE g = h
    BY <2>1, NoWritesType DEF Orderly, Planned, TypeOK
  <2>2. CASE g # h
    BY <2>2 DEF Orderly, Planned, TypeOK
  <2> QED
    BY <2>1, <2>2
<1> QED
  BY <1>1, <1>2, <1>3 DEF Orderly

LEMMA OrderlyNext == Orderly /\ [Next]_vars => Orderly'
<1> SUFFICES ASSUME Orderly, [Next]_vars PROVE Orderly'
  OBVIOUS
<1> USE DEF Goto
<1>1. ASSUME NEW h \in Handlers, NEW p \in Profiles,
             SetDefault(h, p) \/ Update(h, p) \/ Edit(h, p) \/ Delete(h, p)
      PROVE  Orderly'
  BY <1>1, LoadOrderly DEF SetDefault, Update, Edit, Delete, Operations
<1>2. ASSUME NEW h \in Handlers, Touch(h) PROVE Orderly'
  <2>1. CASE Gone(h, target[h])
    BY <2>1, RollbackOrderly DEF Gone
  <2>2. CASE ~Gone(h, target[h])
    <3>1. /\ pc[h] = "touch" /\ target[h] \in Profiles /\ Write(h, target[h], "keep")
          /\ pc' = [pc EXCEPT ![h] = IF op[h] = "edit" THEN "commit" ELSE "find"]
          /\ UNCHANGED <<rows, default, op, target, want, cached, current>>
      BY <1>2, <2>2 DEF Touch, Orderly, TypeOK
    <3>2. /\ Locked' /\ writes' \in [Handlers -> [Profiles -> Writes]]
          /\ writes'[h][target[h]] = "keep"
          /\ \A q \in Profiles \ {target[h]} : writes'[h][q] = writes[h][q]
          /\ \A g \in Handlers \ {h} : writes'[g] = writes[g]
      BY <3>1, WriteLocks DEF Writes
    <3>3. TypeOK'
      BY <3>1, <3>2 DEF Orderly, TypeOK, Steps
    <3>4. ASSUME NEW g \in Handlers PROVE Planned(g)'
      <4>1. CASE g = h
        <5>1. \A q \in Profiles : writes'[h][q] \in {"none", "keep"}
          BY <3>1, <3>2, NoWritesType DEF Orderly, Planned
        <5>2. /\ pc'[h] = IF op[h] = "edit" THEN "commit" ELSE "find"
              /\ op[h] = "edit" \/ want'[h]
          BY <3>1 DEF Orderly, Planned, TypeOK
        <5> QED
          BY <4>1, <5>1, <5>2 DEF Planned
      <4>2. CASE g # h
        BY <3>1, <3>2, <4>2 DEF Orderly, Planned, TypeOK
      <4> QED
        BY <4>1, <4>2
    <3> QED
      BY <3>2, <3>3, <3>4 DEF Orderly
  <2> QED
    BY <2>1, <2>2
<1>3. ASSUME NEW h \in Handlers, Find(h) PROVE Orderly'
  <2>1. CASE Rollback(h)
    BY <2>1, RollbackOrderly
  <2>2. CASE ~Rollback(h)
    <3>1. /\ pc[h] = "find" /\ UNCHANGED <<rows, default, op, target, want, cached, writes>>
          /\ \/ pc' = [pc EXCEPT ![h] = "set"] /\ UNCHANGED current
             \/ \E p \in Profiles :
                  /\ current' = [current EXCEPT ![h] = p]
                  /\ \/ pc' = [pc EXCEPT ![h] = "set"]
                     \/ pc' = [pc EXCEPT ![h] = "unset"]
      BY <1>3, <2>2 DEF Find
    <3>2. TypeOK'
      <4>1. CASE pc' = [pc EXCEPT ![h] = "set"] /\ UNCHANGED current
        BY <3>1, <4>1 DEF Orderly, TypeOK, Steps
      <4>2. ASSUME NEW p \in Profiles, current' = [current EXCEPT ![h] = p],
                   NEW step \in {"set", "unset"}, pc' = [pc EXCEPT ![h] = step]
            PROVE  TypeOK'
        BY <3>1, <4>2 DEF Orderly, TypeOK, Steps
      <4> QED
        BY <3>1, <4>1, <4>2
    <3>3. Locked'
      BY <3>1 DEF Orderly, Locked
    <3>4. \A g \in Handlers : Planned(g)'
      BY <3>1 DEF Orderly, Planned, TypeOK
    <3> QED
      BY <3>2, <3>3, <3>4 DEF Orderly
  <2> QED
    BY <2>1, <2>2
<1>4. ASSUME NEW h \in Handlers, Unset(h) PROVE Orderly'
  <2>1. CASE Gone(h, current[h])
    BY <2>1, RollbackOrderly DEF Gone
  <2>2. CASE ~Gone(h, current[h])
    <3>1. /\ pc[h] = "unset" /\ current[h] \in Profiles /\ Write(h, current[h], "off")
          /\ cached' = [cached EXCEPT ![h] = @ /\ current[h] # target[h]]
          /\ pc' = [pc EXCEPT ![h] = "set"]
          /\ UNCHANGED <<rows, default, op, target, want, current>>
      BY <1>4, <2>2 DEF Unset, Orderly, TypeOK
    <3>2. /\ Locked' /\ writes' \in [Handlers -> [Profiles -> Writes]]
          /\ writes'[h][current[h]] = "off"
          /\ \A q \in Profiles \ {current[h]} : writes'[h][q] = writes[h][q]
          /\ \A g \in Handlers \ {h} : writes'[g] = writes[g]
      BY <3>1, WriteLocks DEF Writes
    <3>3. cached' \in [Handlers -> BOOLEAN]
      BY <3>1 DEF Orderly, TypeOK
    <3>4. TypeOK'
      BY <3>1, <3>2, <3>3 DEF Orderly, TypeOK, Steps
    <3>5. ASSUME NEW g \in Handlers PROVE Planned(g)'
      <4>1. CASE g = h
        <5>1. \A q \in Profiles : writes'[h][q] # "on"
          BY <3>1, <3>2 DEF Orderly, Planned
        <5>2. pc'[h] = "set"
          BY <3>1 DEF Orderly, TypeOK
        <5> QED
          BY <4>1, <5>1, <5>2 DEF Planned
      <4>2. CASE g # h
        BY <3>1, <3>2, <4>2 DEF Orderly, Planned, TypeOK
      <4> QED
        BY <4>1, <4>2
    <3> QED
      BY <3>2, <3>4, <3>5 DEF Orderly
  <2> QED
    BY <2>1, <2>2
<1>5. ASSUME NEW h \in Handlers, Set(h) PROVE Orderly'
  <2>1. CASE Gone(h, target[h])
    BY <2>1, RollbackOrderly DEF Gone
  <2>2. CASE ~Gone(h, target[h])
    <3>1. /\ pc[h] = "set" /\ target[h] \in rows /\ target[h] \in Profiles
          /\ \/ UNCHANGED writes
             \/ \E what \in {"keep", "on", "off"} : Write(h, target[h], what)
          /\ pc' = [pc EXCEPT ![h] = "commit"]
          /\ UNCHANGED <<rows, default, op, target, want, cached, current>>
      BY <1>5, <2>2 DEF Set, Orderly, TypeOK
    <3>2. /\ Locked' /\ writes' \in [Handlers -> [Profiles -> Writes]]
          /\ \A q \in Profiles \ {target[h]} : writes'[h][q] = writes[h][q]
          /\ \A g \in Handlers \ {h} : writes'[g] = writes[g]
      <4>1. CASE UNCHANGED writes
        BY <4>1 DEF Orderly, TypeOK, Locked
      <4>2. ASSUME NEW what \in {"keep", "on", "off"}, Write(h, target[h], what)
            PROVE  <3>2
        BY <3>1, <4>2, WriteLocks DEF Writes
      <4> QED
        BY <3>1, <4>1, <4>2
    <3>3. TypeOK'
      BY <3>1, <3>2 DEF Orderly, TypeOK, Steps
    <3>4. ASSUME NEW g \in Handlers PROVE Planned(g)'
      <4>1. CASE g = h
        BY <3>1, <3>2, <4>1 DEF Orderly, Planned, TypeOK
      <4>2. CASE g # h
        BY <3>1, <3>2, <4>2 DEF Orderly, Planned, TypeOK
      <4> QED
        BY <4>1, <4>2
    <3> QED
      BY <3>2, <3>3, <3>4 DEF Orderly
  <2> QED
    BY <2>1, <2>2
<1>6. ASSUME NEW h \in Handlers, Remove(h) PROVE Orderly'
  <2>1. /\ pc[h] = "delete" /\ target[h] \in Profiles /\ Write(h, target[h], "gone")
        /\ pc' = [pc EXCEPT ![h] = "commit"]
        /\ UNCHANGED <<rows, default, op, target, want, cached, current>>
    BY <1>6 DEF Remove, Orderly, TypeOK
  <2>2. /\ Locked' /\ writes' \in [Handlers -> [Profiles -> Writes]]
        /\ writes'[h][target[h]] = "gone"
        /\ \A q \in Profiles \ {target[h]} : writes'[h][q] = writes[h][q]
        /\ \A g \in Handlers \ {h} : writes'[g] = writes[g]
    BY <2>1, WriteLocks DEF Writes
  <2>3. TypeOK'
    BY <2>1, <2>2 DEF Orderly, TypeOK, Steps
  <2>4. ASSUME NEW g \in Handlers PROVE Planned(g)'
    <3>1. CASE g = h
      BY <2>1, <2>2, <3>1, NoWritesType DEF Orderly, Planned, TypeOK
    <3>2. CASE g # h
      BY <2>1, <2>2, <3>2 DEF Orderly, Planned, TypeOK
    <3> QED
      BY <3>1, <3>2
  <2> QED
    BY <2>2, <2>3, <2>4 DEF Orderly
<1>7. ASSUME NEW h \in Handlers, Commit(h) PROVE Orderly'
  <2> USE DEF Forget
  <2>1. rows' \subseteq rows /\ \A p \in rows \ rows' : writes[h][p] = "gone"
    BY <1>7 DEF Commit, Did, Orderly, TypeOK
  <2>2. default' \subseteq rows'
    BY <1>7 DEF Commit, Did, Orderly, Planned, TypeOK
  <2>3. writes' \in [Handlers -> [Profiles -> Writes]]
        /\ writes'[h] = NoWrites /\ \A g \in Handlers \ {h} : writes'[g] = writes[g]
    BY <1>7, NoWritesType DEF Commit, Orderly, TypeOK
  <2>4. TypeOK'
    BY <1>7, <2>1, <2>2, <2>3 DEF Commit, Orderly, TypeOK, Steps, Operations
  <2>5. Locked'
    BY <2>3, NoWritesType DEF Orderly, Locked
  <2>6. ASSUME NEW g \in Handlers PROVE Planned(g)'
    <3>1. CASE g = h
      BY <1>7, <2>3, <3>1, NoWritesType DEF Commit, Planned, Orderly, TypeOK
    <3>2. CASE g # h
      <4>1. \A p \in Profiles : writes[g][p] = "on" => p \in rows'
        BY <2>1, <3>2 DEF Orderly, Planned, Locked
      <4> QED
        BY <1>7, <2>3, <3>2, <4>1 DEF Commit, Orderly, Planned, TypeOK
    <3> QED
      BY <3>1, <3>2
  <2> QED
    BY <2>4, <2>5, <2>6 DEF Orderly
<1>8. ASSUME NEW h \in Handlers, Abort(h) PROVE Orderly'
  BY <1>8, RollbackOrderly DEF Abort
<1>9. CASE UNCHANGED vars
  BY <1>9 DEF vars, requestVars, Orderly, TypeOK, Locked, Planned
<1> QED
  BY <1>1, <1>2, <1>3, <1>4, <1>5, <1>6, <1>7, <1>8, <1>9 DEF Next, Step

\* Every variable keeps its type, and only rows that exist are defaults.
THEOREM DefaultTypeCorrect == Spec => []TypeOK
<1>1. Orderly => TypeOK
  BY DEF Orderly
<1> QED
  BY <1>1, OrderlyInit, OrderlyNext, PTL DEF Spec

-----------------------------------------------------------------------------
(* The number of defaults.                                                 *)

\* The requests that have looked at the defaults and may still add one.
Adding ==
  {h \in Handlers : \/ pc[h] \in {"unset", "set"} /\ want[h]
                    \/ pc[h] = "commit" /\ writes[h][target[h]] = "on"}

\* Request g takes the place of a default there is.
Replaces(g) ==
  /\ current[g] \in default
  /\ \/ pc[g] = "unset" \/ current[g] = target[g]
     \/ writes[g][current[g]] = "off"

\* Each default and each request that may add one has a place, one of them shared
\* while a request is to take the place of a default.  Whoever looks at the
\* defaults goes on only if there is one at most: that is where the count starts
\* afresh.
DefaultsCounted ==
  LET n == Cardinality(Handlers)
      sum == Cardinality(default) + Cardinality(Adding)
  IN  /\ IsFiniteSet(default)
      /\ sum <= n \/ (sum <= n + 1 /\ \E g \in Adding : Replaces(g))

LEMMA Counts ==
  ASSUME IsFiniteSet(default)
  PROVE  /\ IsFiniteSet(Adding) /\ Cardinality(Adding) \in Nat
         /\ Cardinality(default) \in Nat /\ Cardinality(Handlers) \in Nat
         /\ Cardinality(Adding) <= Cardinality(Handlers)
<1>1. IsFiniteSet(Adding) /\ Cardinality(Adding) <= Cardinality(Handlers)
  BY FS_Subset DEF Adding
<1> QED
  BY <1>1, FS_CardinalityType

\* A part of a finite set, without one of its elements or not.
LEMMA PartSizes ==
  ASSUME NEW S, NEW T, IsFiniteSet(S), T \subseteq S
  PROVE  /\ IsFiniteSet(T) /\ Cardinality(T) \in Nat /\ Cardinality(T) <= Cardinality(S)
         /\ \A x \in S : x \notin T => Cardinality(T) <= Cardinality(S) - 1
<1>1. /\ IsFiniteSet(T) /\ Cardinality(T) \in Nat /\ Cardinality(S) \in Nat
      /\ Cardinality(T) <= Cardinality(S)
  BY FS_Subset, FS_CardinalityType
<1>2. ASSUME NEW x \in S, x \notin T PROVE Cardinality(T) <= Cardinality(S) - 1
  <2>1. IsFiniteSet(S \ {x}) /\ Cardinality(S \ {x}) = Cardinality(S) - 1
    BY FS_RemoveElement
  <2>2. T \subseteq S \ {x}
    BY <1>2
  <2> QED
    BY <2>1, <2>2, FS_Subset
<1> QED
  BY <1>1, <1>2

\* Defaults and requests that may add one become fewer, if anything.
LEMMA FewerCounted ==
  ASSUME DefaultsCounted, default' \subseteq default, Adding' \subseteq Adding,
         \A g \in Adding' : Replaces(g) /\ current[g] \in default' => Replaces(g)'
  PROVE  DefaultsCounted'
<1>1. IsFiniteSet(default)
  BY DEF DefaultsCounted
<1>2. /\ IsFiniteSet(Adding) /\ Cardinality(Adding) \in Nat
      /\ Cardinality(default) \in Nat /\ Cardinality(Handlers) \in Nat
  BY <1>1, Counts
<1>3. /\ IsFiniteSet(default') /\ Cardinality(default') \in Nat
      /\ Cardinality(default') <= Cardinality(default)
      /\ Cardinality(Adding') \in Nat /\ Cardinality(Adding') <= Cardinality(Adding)
  BY <1>1, <1>2, PartSizes
<1>4. CASE Cardinality(default) + Cardinality(Adding) <= Cardinality(Handlers)
  BY <1>2, <1>3, <1>4 DEF DefaultsCounted
<1>5. ASSUME NEW g \in Adding, Replaces(g),
             Cardinality(default) + Cardinality(Adding) <= Cardinality(Handlers) + 1
      PROVE  DefaultsCounted'
  <2>1. CASE g \notin Adding'
    <3>1. Cardinality(Adding') <= Cardinality(Adding) - 1
      BY <1>2, <2>1, PartSizes
    <3> QED
      BY <1>2, <1>3, <1>5, <3>1 DEF DefaultsCounted
  <2>2. CASE current[g] \notin default'
    <3>1. Cardinality(default') <= Cardinality(default) - 1
      BY <1>1, <1>5, <2>2, PartSizes DEF Replaces
    <3> QED
      BY <1>2, <1>3, <1>5, <3>1 DEF DefaultsCounted
  <2>3. CASE g \in Adding' /\ current[g] \in default'
    BY <1>2, <1>3, <1>5, <2>3 DEF DefaultsCounted
  <2> QED
    BY <2>1, <2>2, <2>3
<1> QED
  BY <1>4, <1>5 DEF DefaultsCounted

\* A request that adds its default, and is over.
LEMMA AddedCounted ==
  ASSUME Orderly, DefaultsCounted, NEW h \in Adding, Commit(h)
  PROVE  DefaultsCounted'
<1> DEFINE t == target[h]
<1>1. /\ h \in Handlers /\ pc[h] = "commit" /\ t \in Profiles
      /\ Did(h, "on") = {t}
  BY DEF Adding, Commit, Did, Orderly, Planned, TypeOK
<1>2. default' = (default \cup {t}) \ (Did(h, "off") \cup Did(h, "gone"))
  BY <1>1 DEF Commit
<1>3. /\ Adding' = Adding \ {h}
      /\ \A g \in Adding' : /\ current'[g] = current[g] /\ pc'[g] = pc[g]
                            /\ target'[g] = target[g] /\ writes'[g] = writes[g]
  BY <1>1 DEF Commit, Forget, Goto, Adding, Orderly, TypeOK
<1> HIDE DEF t
<1>4. IsFiniteSet(default)
  BY DEF DefaultsCounted
<1>5. /\ IsFiniteSet(Adding) /\ Cardinality(Adding) \in Nat
      /\ Cardinality(default) \in Nat /\ Cardinality(Handlers) \in Nat
  BY <1>4, Counts
<1>6. Cardinality(Adding') = Cardinality(Adding) - 1
  BY <1>3, <1>5, FS_RemoveElement
<1>7. IsFiniteSet(default \cup {t}) /\ Cardinality(default \cup {t}) \in Nat
      /\ Cardinality(default \cup {t}) <= Cardinality(default) + 1
  <2>1. /\ IsFiniteSet(default \cup {t})
        /\ Cardinality(default \cup {t})
             = IF t \in default THEN Cardinality(default) ELSE Cardinality(default) + 1
    BY <1>4, FS_AddElement
  <2> QED
    BY <1>5, <2>1, FS_CardinalityType
<1>8. /\ IsFiniteSet(default') /\ Cardinality(default') \in Nat
      /\ Cardinality(default') <= Cardinality(default) + 1
  BY <1>2, <1>5, <1>7, PartSizes
<1>9. CASE Cardinality(default) + Cardinality(Adding) <= Cardinality(Handlers)
  BY <1>5, <1>6, <1>8, <1>9 DEF DefaultsCounted
<1>10. ASSUME NEW g \in Adding, Replaces(g),
              Cardinality(default) + Cardinality(Adding) <= Cardinality(Handlers) + 1
       PROVE  DefaultsCounted'
  <2>1. CASE current[g] \notin default'
    <3>1. current[g] \in default \cup {t}
      BY <1>10 DEF Replaces
    <3>2. Cardinality(default') <= Cardinality(default \cup {t}) - 1
      BY <1>2, <1>7, <2>1, <3>1, PartSizes
    <3> QED
      BY <1>5, <1>6, <1>7, <1>8, <1>10, <3>2 DEF DefaultsCounted
  <2>2. CASE g # h /\ current[g] \in default'
    <3>1. g \in Adding' /\ Replaces(g)'
      BY <1>3, <1>10, <2>2 DEF Replaces
    <3> QED
      BY <1>5, <1>6, <1>8, <1>10, <3>1 DEF DefaultsCounted
  <2>3. CASE g = h /\ current[g] \in default'
    <3>1. current[h] = t
      BY <1>1, <1>2, <1>10, <2>3 DEF Replaces, Did, Orderly, TypeOK, t
    <3>2. default \cup {t} = default
      BY <1>10, <2>3, <3>1 DEF Replaces
    <3>3. Cardinality(default') <= Cardinality(default)
      BY <1>2, <1>4, <3>2, PartSizes
    <3> QED
      BY <1>5, <1>6, <1>8, <1>10, <3>3 DEF DefaultsCounted
  <2> QED
    BY <2>1, <2>2, <2>3
<1> QED
  BY <1>9, <1>10 DEF DefaultsCounted

\* A request that has found at most one default.
LEMMA FoundCounted ==
  ASSUME Orderly, DefaultsCounted, NEW h \in Handlers, Find(h), ~Rollback(h)
  PROVE  DefaultsCounted'
<1>1. Defaults(h) = default
  BY DEF Find, Defaults, Orderly, Planned, TypeOK
<1>2. default' = default /\ IsFiniteSet(default) /\ IsFiniteSet(default')
  BY DEF Find, DefaultsCounted
<1>3. /\ Cardinality(Adding)' \in Nat /\ Cardinality(default) \in Nat
      /\ Cardinality(Handlers) \in Nat /\ Cardinality(Adding)' <= Cardinality(Handlers)
  <2>1. IsFiniteSet(Adding') /\ Cardinality(Adding') <= Cardinality(Handlers)
    BY FS_Subset DEF Adding
  <2> QED
    BY <1>2, <2>1, FS_CardinalityType
<1>4. CASE default = {}
  <2>1. Cardinality(default) = 0
    BY <1>4, FS_EmptySet
  <2> QED
    BY <1>2, <1>3, <2>1 DEF DefaultsCounted
<1>5. CASE default # {}
  <2>1. PICK p \in Profiles :
          /\ default = {p}
          /\ current' = [current EXCEPT ![h] = p]
          /\ pc' = [pc EXCEPT ![h] = IF p = target[h] /\ ~cached[h] THEN "set" ELSE "unset"]
          /\ UNCHANGED <<target, want>>
    BY <1>1, <1>5 DEF Find, Goto
  <2>2. Cardinality(default) = 1
    BY <2>1, FS_Singleton
  <2>3. want[h]
    BY DEF Find, Orderly, Planned
  <2>4. h \in Adding' /\ Replaces(h)'
    BY <1>2, <2>1, <2>3 DEF Adding, Replaces, Orderly, TypeOK
  <2> QED
    BY <1>2, <1>3, <2>2, <2>4 DEF DefaultsCounted
<1> QED
  BY <1>4, <1>5

LEMMA DefaultsInit == Init => DefaultsCounted
<1> SUFFICES ASSUME Init PROVE DefaultsCounted
  OBVIOUS
<1>1. default = {} /\ Adding = {}
  BY DEF Init, Adding
<1>2. Cardinality(Handlers) \in Nat
  BY FS_CardinalityType
<1> QED
  BY <1>1, <1>2, FS_EmptySet DEF DefaultsCounted

\* A request that ends without a commit adds nothing.
LEMMA RollbackCounted ==
  ASSUME Orderly, DefaultsCounted, NEW h \in Handlers, Rollback(h)
  PROVE  DefaultsCounted'
<1>1. default' = default
  BY DEF Rollback
<1>2. Adding' \subseteq Adding
      /\ \A g \in Adding' : /\ current'[g] = current[g] /\ pc'[g] = pc[g]
                            /\ target'[g] = target[g] /\ writes'[g] = writes[g]
  BY DEF Rollback, Forget, Goto, Adding, Orderly, TypeOK
<1> QED
  BY <1>1, <1>2, FewerCounted DEF Replaces

LEMMA DefaultsNext == Orderly /\ DefaultsCounted /\ [Next]_vars => DefaultsCounted'
<1> SUFFICES ASSUME Orderly, DefaultsCounted, [Next]_vars PROVE DefaultsCounted'
  OBVIOUS
<1> USE DEF Goto
<1>1. ASSUME NEW h \in Handlers, NEW p \in Profiles,
             SetDefault(h, p) \/ Update(h, p) \/ Edit(h, p) \/ Delete(h, p)
      PROVE  DefaultsCounted'
  <2>1. ASSUME NEW operation, NEW value \in BOOLEAN,
               NEW step \in {"touch", "find", "set", "delete"},
               Load(h, p, operation, value, step), step = "set" => ~value
        PROVE  DefaultsCounted'
    <3>1. default' = default
      BY <2>1 DEF Load
    <3>2. /\ Adding' \subseteq Adding
          /\ \A g \in Adding' : /\ current'[g] = current[g] /\ pc'[g] = pc[g]
                                /\ target'[g] = target[g] /\ writes'[g] = writes[g]
      BY <2>1 DEF Load, Adding, Orderly, TypeOK
    <3> QED
      BY <3>1, <3>2, FewerCounted DEF Replaces
  <2> QED
    BY <1>1, <2>1 DEF SetDefault, Update, Edit, Delete
<1>2. ASSUME NEW h \in Handlers, Touch(h), ~Rollback(h) PROVE DefaultsCounted'
  <2>1. /\ pc[h] = "touch" /\ pc'[h] \in {"commit", "find"}
        /\ target[h] \in Profiles /\ writes'[h][target[h]] = "keep"
        /\ UNCHANGED <<default, target, current, want>>
        /\ \A g \in Handlers \ {h} : pc'[g] = pc[g] /\ writes'[g] = writes[g]
    BY <1>2 DEF Touch, Gone, Write, Orderly, TypeOK
  <2>2. Adding' \subseteq Adding /\ h \notin Adding'
    BY <2>1 DEF Adding
  <2>3. Adding' \subseteq Handlers
    BY DEF Adding
  <2> QED
    BY <2>1, <2>2, <2>3, FewerCounted DEF Replaces
<1>3. ASSUME NEW h \in Handlers, Unset(h), ~Rollback(h) PROVE DefaultsCounted'
  <2>1. /\ pc[h] = "unset" /\ pc'[h] = "set" /\ current[h] \in Profiles
        /\ writes'[h][current[h]] = "off"
        /\ UNCHANGED <<default, target, current, want>>
        /\ \A g \in Handlers \ {h} : pc'[g] = pc[g] /\ writes'[g] = writes[g]
    BY <1>3 DEF Unset, Gone, Write, Orderly, TypeOK
  <2>2. Adding' \subseteq Adding /\ Adding' \subseteq Handlers
    BY <2>1 DEF Adding
  <2> QED
    BY <2>1, <2>2, FewerCounted DEF Replaces
<1>4. ASSUME NEW h \in Handlers, Set(h), ~Rollback(h) PROVE DefaultsCounted'
  <2>1. /\ pc[h] = "set" /\ pc'[h] = "commit" /\ target[h] \in Profiles
        /\ writes'[h][target[h]] = "on" => want[h]
        /\ \A p \in Profiles \ {target[h]} : writes'[h][p] = writes[h][p]
        /\ UNCHANGED <<default, target, current, want>>
        /\ \A g \in Handlers \ {h} : pc'[g] = pc[g] /\ writes'[g] = writes[g]
    <3>1. /\ pc[h] = "set" /\ target[h] \in Profiles
          /\ pc' = [pc EXCEPT ![h] = "commit"]
          /\ UNCHANGED <<default, target, current, want>>
      BY <1>4 DEF Set, Gone, Orderly, TypeOK
    <3>2. CASE UNCHANGED writes
      BY <3>1, <3>2 DEF Orderly, Planned, TypeOK
    <3>3. ASSUME NEW what \in {"keep", "on", "off"}, Write(h, target[h], what),
                 what = "on" => want[h]
          PROVE  <2>1
      BY <3>1, <3>3 DEF Write, Orderly, TypeOK
    <3> QED
      BY <1>4, <3>2, <3>3 DEF Set, Gone
  <2>2. Adding' \subseteq Adding /\ Adding' \subseteq Handlers
    BY <2>1 DEF Adding
  <2>3. ASSUME NEW g \in Adding', Replaces(g), current[g] \in default' PROVE Replaces(g)'
    <3>1. CASE g = h
      <4>1. current[h] \in Profiles
        BY <2>1, <2>3, <3>1 DEF Orderly, TypeOK
      <4> QED
        BY <2>1, <2>3, <3>1, <4>1 DEF Replaces
    <3>2. CASE g # h
      BY <2>1, <2>2, <2>3, <3>2 DEF Replaces
    <3> QED
      BY <3>1, <3>2
  <2> QED
    BY <2>1, <2>2, <2>3, FewerCounted
<1>5. ASSUME NEW h \in Handlers, Remove(h) PROVE DefaultsCounted'
  <2>1. /\ pc[h] = "delete" /\ pc'[h] = "commit" /\ target[h] \in Profiles
        /\ writes'[h][target[h]] = "gone"
        /\ UNCHANGED <<default, target, current, want>>
        /\ \A g \in Handlers \ {h} : pc'[g] = pc[g] /\ writes'[g] = writes[g]
    BY <1>5 DEF Remove, Write, Orderly, TypeOK
  <2>2. Adding' \subseteq Adding /\ Adding' \subseteq Handlers /\ h \notin Adding'
    BY <2>1 DEF Adding
  <2> QED
    BY <2>1, <2>2, FewerCounted DEF Replaces
<1>6. ASSUME NEW h \in Handlers, Commit(h) PROVE DefaultsCounted'
  <2>1. CASE h \in Adding
    BY <1>6, <2>1, AddedCounted
  <2>2. CASE h \notin Adding
    <3>1. Did(h, "on") = {}
      BY <1>6, <2>2 DEF Adding, Did, Commit, Orderly, Planned
    <3>2. default' \subseteq default
      BY <1>6, <3>1 DEF Commit
    <3>3. /\ Adding' \subseteq Adding
          /\ \A g \in Adding' : /\ current'[g] = current[g] /\ pc'[g] = pc[g]
                                /\ target'[g] = target[g] /\ writes'[g] = writes[g]
      BY <1>6 DEF Commit, Forget, Adding, Orderly, TypeOK
    <3> QED
      BY <3>2, <3>3, FewerCounted DEF Replaces
  <2> QED
    BY <2>1, <2>2
<1>7. ASSUME NEW h \in Handlers, Rollback(h) PROVE DefaultsCounted'
  BY <1>7, RollbackCounted
<1>8. CASE UNCHANGED vars
  <2>1. default' = default /\ Adding' = Adding
    BY <1>8 DEF vars, requestVars, Adding
  <2> QED
    BY <1>8, <2>1, FewerCounted DEF vars, requestVars, Replaces
<1> QED
  BY <1>1, <1>2, <1>3, <1>4, <1>5, <1>6, <1>7, <1>8, FoundCounted DEF Next, Step, Abort

\* n requests at a time leave n defaults at most, whatever they find, wait for,
\* delete and lose to deadlocks.
THEOREM DefaultsStayBounded == Spec => []DefaultsBounded
<1>1. DefaultsCounted => DefaultsBounded
  <2> SUFFICES ASSUME DefaultsCounted PROVE Cardinality(default) <= Cardinality(Handlers)
    BY DEF DefaultsBounded
  <2>1. /\ IsFiniteSet(Adding) /\ Cardinality(Adding) \in Nat
        /\ Cardinality(default) \in Nat /\ Cardinality(Handlers) \in Nat
    BY Counts DEF DefaultsCounted
  <2>2. Adding # {} => Cardinality(Adding) # 0
    BY <2>1, FS_EmptySet
  <2> QED
    BY <2>1, <2>2 DEF DefaultsCounted
<1> QED
  BY <1>1, OrderlyInit, OrderlyNext, DefaultsInit, DefaultsNext, PTL DEF Spec

=============================================================================
