---------------------- MODULE LLMConfigActivationProofs ----------------------
(***************************************************************************)
(* n requests at a time leave at most n configurations active.  The        *)
(* argument gives every active row an author, the request that made it so: *)
(* before a request writes a second row it has selected and deactivated    *)
(* its first, whatever the others did in between.                          *)
(***************************************************************************)
EXTENDS LLMConfigActivation, FiniteSetTheorems, TLAPS

USE ConfigAssumption

LEMMA TypeInit == Init => TypeOK
BY DEF Init, TypeOK, Operations, Steps

\* How each request begins: no activation goes straight to its second commit.
LEMMA Beginnings ==
  ASSUME NEW h \in Handlers, NEW c \in Configs, NEW value \in BOOLEAN,
         \/ Create(h, c, value) \/ Update(h, c, value)
         \/ Edit(h, c) \/ Delete(h, c)
  PROVE  \E operation \in Operations, v \in BOOLEAN,
            step \in {"select", "write", "remove"} :
           Begin(h, operation, c, v, step) /\ ~ (v /\ step = "write")
BY DEF Create, Update, Edit, Delete, Operations

LEMMA TypeNext == TypeOK /\ [Next]_vars => TypeOK'
<1> SUFFICES ASSUME TypeOK, [Next]_vars PROVE TypeOK'
  OBVIOUS
<1> USE DEF TypeOK, Operations, Steps
<1>1. ASSUME NEW h \in Handlers, NEW c \in Configs, NEW value \in BOOLEAN,
             \/ Create(h, c, value) \/ Update(h, c, value)
             \/ Edit(h, c) \/ Delete(h, c)
      PROVE  TypeOK'
  <2>1. PICK operation \in Operations, v \in BOOLEAN,
             step \in {"select", "write", "remove"} :
               Begin(h, operation, c, v, step)
    BY <1>1, Beginnings
  <2>2. (rows[c] = "active") \in BOOLEAN /\ c # None
    OBVIOUS
  <2> QED
    BY <2>1, <2>2 DEF Begin
<1>2. ASSUME NEW h \in Handlers, Raise(h) PROVE TypeOK'
  BY <1>2 DEF Raise, End
<1>3. ASSUME NEW h \in Handlers, Select(h) PROVE TypeOK'
  BY <1>3 DEF Select, Active
<1>4. ASSUME NEW h \in Handlers, Deactivate(h) PROVE TypeOK'
  BY <1>2, <1>4 DEF Deactivate
<1>5. ASSUME NEW h \in Handlers, Write(h) PROVE TypeOK'
  <2>1. CASE Raise(h)
    BY <1>2, <2>1
  <2>2. CASE ~Raise(h)
    <3>1. target[h] \in Configs
      BY <1>5 DEF Write
    <3>2. rows' \in [Configs -> {"absent", "inactive", "active", "deleted"}]
      BY <1>5, <2>2, <3>1 DEF Write
    <3>3. author' \in [Configs -> Handlers \cup {None}]
      BY <1>5, <2>2, <3>1 DEF Write
    <3>4. End(h)
      BY <1>5, <2>2 DEF Write
    <3> QED
      BY <3>2, <3>3, <3>4 DEF End
  <2> QED
    BY <2>1, <2>2
<1>6. ASSUME NEW h \in Handlers, Remove(h) PROVE TypeOK'
  BY <1>6 DEF Remove, End
<1>7. ASSUME NEW h \in Handlers, Fails(h) PROVE TypeOK'
  BY <1>2, <1>7 DEF Fails
<1>8. CASE UNCHANGED vars
  BY <1>8 DEF vars, requestVars
<1> QED
  BY <1>1, <1>3, <1>4, <1>5, <1>6, <1>7, <1>8 DEF Next, Step

\* The variables of the LLM configurations keep their types.
THEOREM LLMTypeCorrect == Spec => []TypeOK
BY TypeInit, TypeNext, PTL DEF Spec

-----------------------------------------------------------------------------
(* What a step of request g does to the rows and to the other requests.    *)

\* The request about to write makes row c active.
Activates(g, c) == pc[g] = "write" /\ want[g] /\ c = target[g]

\* Rows are only made active by a second commit, which signs them, and
\* requests keep what they know while another one takes a step.
StepOf(g) ==
  /\ \A c \in Active' :
       \/ c \in Active /\ author'[c] = author[c]
       \/ Activates(g, c) /\ author'[c] = g /\ pc'[g] = "idle"
  /\ \A h \in Handlers \ {g} :
       /\ pc'[h] = pc[h] /\ target'[h] = target[h]
       /\ want'[h] = want[h] /\ found'[h] = found[h]

\* What request g itself knows after its step.
OwnStep(g) ==
  /\ pc'[g] = "deactivate"
       => Active' = Active /\ Active \subseteq found'[g] \cup {target'[g]}
  /\ pc'[g] = "write" /\ want'[g]
       => /\ pc[g] = "deactivate" /\ target'[g] = target[g]
          /\ Active' \cap found[g] = {}

\* A request only begins to run alone, or goes on to, if no other one is served.
AloneStep(g) ==
  \/ alone' = {}
  \/ alone' = {g} /\ (\A h \in Handlers : pc[h] = "idle") /\ pc'[g] # "deactivate"
     /\ ~ (pc'[g] = "write" /\ want'[g])
  \/ alone' \subseteq alone /\ pc[g] # "idle"

LEMMA NextIsStep ==
  ASSUME TypeOK, Next
  PROVE  \E g \in Handlers : StepOf(g) /\ OwnStep(g) /\ AloneStep(g)
<1> USE DEF TypeOK
<1>1. PICK g \in Handlers :
        \/ Step(g) \/ Fails(g)
        \/ \E c \in Configs :
             \/ Edit(g, c) \/ Delete(g, c)
             \/ \E value \in BOOLEAN : Create(g, c, value) \/ Update(g, c, value)
  BY DEF Next
<1>2. ASSUME NEW c \in Configs, NEW value \in BOOLEAN,
             \/ Create(g, c, value) \/ Update(g, c, value)
             \/ Edit(g, c) \/ Delete(g, c)
      PROVE  StepOf(g) /\ OwnStep(g) /\ AloneStep(g)
  <2>1. PICK operation \in Operations, v \in BOOLEAN,
             step \in {"select", "write", "remove"} :
               Begin(g, operation, c, v, step) /\ ~ (v /\ step = "write")
    BY <1>2, Beginnings
  <2>3. StepOf(g)
    BY <2>1 DEF Begin, StepOf, Active
  <2>4. OwnStep(g)
    BY <2>1 DEF Begin, OwnStep
  <2>5. AloneStep(g)
    BY <2>1 DEF Begin, AloneStep
  <2> QED
    BY <2>3, <2>4, <2>5
<1>3. ASSUME pc[g] # "idle", Raise(g) PROVE StepOf(g) /\ OwnStep(g) /\ AloneStep(g)
  BY <1>3 DEF Raise, End, StepOf, OwnStep, AloneStep, Active
<1>4. ASSUME Select(g) PROVE StepOf(g) /\ OwnStep(g) /\ AloneStep(g)
  BY <1>4 DEF Select, StepOf, OwnStep, AloneStep, Active
<1>5. ASSUME Deactivate(g) PROVE StepOf(g) /\ OwnStep(g) /\ AloneStep(g)
  BY <1>3, <1>5 DEF Deactivate, StepOf, OwnStep, AloneStep, Active, Existing
<1>6. ASSUME Write(g) PROVE StepOf(g) /\ OwnStep(g) /\ AloneStep(g)
  BY <1>3, <1>6 DEF Write, End, StepOf, OwnStep, AloneStep, Active, Activates
<1>7. ASSUME Remove(g) PROVE StepOf(g) /\ OwnStep(g) /\ AloneStep(g)
  BY <1>7 DEF Remove, End, StepOf, OwnStep, AloneStep, Active
<1>8. ASSUME Fails(g) PROVE StepOf(g) /\ OwnStep(g) /\ AloneStep(g)
  BY <1>3, <1>8 DEF Fails
<1> QED
  BY <1>1, <1>2, <1>4, <1>5, <1>6, <1>7, <1>8 DEF Step

-----------------------------------------------------------------------------
(* Every active row has an author, and no author has two.                  *)

LEMMA AuthorsInit == Init => AuthorsOK
BY DEF Init, AuthorsOK, Active, MadeActive

LEMMA AuthorsNext == TypeOK /\ AuthorsOK /\ [Next]_vars => AuthorsOK'
<1> SUFFICES ASSUME TypeOK, AuthorsOK, [Next]_vars PROVE AuthorsOK'
  OBVIOUS
<1>1. CASE UNCHANGED vars
  BY <1>1 DEF vars, requestVars, AuthorsOK, MadeActive, Active
<1>2. CASE Next
  <2>1. PICK g \in Handlers : StepOf(g) /\ OwnStep(g)
    BY <1>2, NextIsStep
  <2>2. \A c \in Active' : author'[c] \in Handlers
    BY <2>1 DEF StepOf, AuthorsOK
  <2>3. ASSUME NEW h \in Handlers, h # g
        PROVE  MadeActive(h)' \subseteq MadeActive(h)
    BY <2>1, <2>3 DEF StepOf, MadeActive
  <2>4. MadeActive(g)'
          \subseteq MadeActive(g) \cup {c \in Configs : Activates(g, c)}
    BY <2>1 DEF StepOf, MadeActive, Active
  <2>5. ASSUME NEW h \in Handlers,
               NEW c \in MadeActive(h)', NEW d \in MadeActive(h)'
        PROVE  c = d
    <3>1. CASE h # g
      BY <3>1, <2>3, <2>5 DEF AuthorsOK
    <3>2. CASE h = g /\ pc[g] = "write" /\ want[g]
      BY <3>2, <2>4, <2>5 DEF AuthorsOK, Activates
    <3>3. CASE h = g /\ ~ (pc[g] = "write" /\ want[g])
      BY <3>3, <2>4, <2>5 DEF AuthorsOK, Activates
    <3> QED
      BY <3>1, <3>2, <3>3
  <2>6. ASSUME NEW h \in Handlers, pc'[h] = "deactivate"
        PROVE  MadeActive(h)' \subseteq found'[h] \cup {target'[h]}
    <3>1. CASE h # g
      BY <3>1, <2>1, <2>3, <2>6 DEF StepOf, AuthorsOK
    <3>2. CASE h = g
      BY <3>2, <2>1, <2>6 DEF OwnStep, MadeActive
    <3> QED
      BY <3>1, <3>2
  <2>7. ASSUME NEW h \in Handlers, pc'[h] = "write", want'[h]
        PROVE  MadeActive(h)' \subseteq {target'[h]}
    <3>1. CASE h # g
      BY <3>1, <2>1, <2>3, <2>7 DEF StepOf, AuthorsOK
    <3>2. CASE h = g
      <4>1. /\ pc[g] = "deactivate" /\ target'[g] = target[g]
            /\ Active' \cap found[g] = {}
        BY <3>2, <2>1, <2>7 DEF OwnStep
      <4>2. MadeActive(g)' \subseteq MadeActive(g)
        BY <4>1, <2>4 DEF Activates
      <4>3. MadeActive(g) \subseteq found[g] \cup {target[g]}
        BY <4>1 DEF AuthorsOK
      <4>4. MadeActive(g)' \subseteq Active'
        BY DEF MadeActive
      <4> QED
        BY <3>2, <4>1, <4>2, <4>3, <4>4
    <3> QED
      BY <3>1, <3>2
  <2> QED
    BY <2>2, <2>5, <2>6, <2>7 DEF AuthorsOK
<1> QED
  BY <1>1, <1>2

\* Every active configuration has an author, who made no other one active.
THEOREM AuthorsStayOK == Spec => []AuthorsOK
BY TypeInit, TypeNext, AuthorsInit, AuthorsNext, PTL DEF Spec

\* The authors are an injection from the active rows to the requests.
LEMMA AuthorsBound == TypeOK /\ AuthorsOK => ActiveBounded
<1> SUFFICES ASSUME TypeOK, AuthorsOK PROVE ActiveBounded
  OBVIOUS
<1> DEFINE f == [c \in Active |-> author[c]]
<1>1. f \in [Active -> Handlers]
  BY DEF AuthorsOK
<1>2. \A c, d \in Active : f[c] = f[d] => c = d
  BY DEF AuthorsOK, MadeActive
<1> HIDE DEF f
<1>3. f \in Injection(Active, Handlers)
  BY <1>1, <1>2 DEF Injection, IsInjective
<1>4. Cardinality(Active) <= Cardinality(Handlers)
  BY <1>3, FS_Injection
<1> QED
  BY <1>4 DEF ActiveBounded

\* n requests at a time leave at most n configurations active.
THEOREM ActiveAlwaysBounded == Spec => []ActiveBounded
BY AuthorsStayOK, LLMTypeCorrect, AuthorsBound, PTL

-----------------------------------------------------------------------------
(* The next activation that runs alone heals.                              *)

\* A request that runs alone knows the active rows: the one about to commit the
\* deactivation has them in hand, and before the second commit none is left
\* but its own.
AloneOK ==
  \A h \in alone :
    /\ \A g \in Handlers \ {h} : pc[g] = "idle"
    /\ pc[h] = "deactivate" => Active \subseteq found[h] \cup {target[h]}
    /\ pc[h] = "write" /\ want[h] => Active \subseteq {target[h]}

LEMMA AloneInit == Init => AloneOK
BY DEF Init, AloneOK

LEMMA AloneNext == TypeOK /\ AloneOK /\ [Next]_vars => AloneOK'
<1> SUFFICES ASSUME TypeOK, AloneOK, [Next]_vars PROVE AloneOK'
  OBVIOUS
<1>1. CASE UNCHANGED vars
  BY <1>1 DEF vars, requestVars, AloneOK, Active
<1>2. CASE Next
  <2>1. PICK g \in Handlers : StepOf(g) /\ OwnStep(g) /\ AloneStep(g)
    BY <1>2, NextIsStep
  <2>2. ASSUME NEW h \in alone'
        PROVE  /\ h = g
               /\ \A k \in Handlers \ {h} : pc[k] = "idle"
    BY <2>1, <2>2 DEF AloneStep, AloneOK, TypeOK
  <2>3. ASSUME NEW h \in alone'
        PROVE  \A k \in Handlers \ {h} : pc'[k] = "idle"
    BY <2>1, <2>2, <2>3 DEF StepOf
  <2>4. ASSUME NEW h \in alone', pc'[h] = "deactivate"
        PROVE  Active' \subseteq found'[h] \cup {target'[h]}
    BY <2>1, <2>2, <2>4 DEF OwnStep
  <2>5. ASSUME NEW h \in alone', pc'[h] = "write", want'[h]
        PROVE  Active' \subseteq {target'[h]}
    <3>1. /\ pc[g] = "deactivate" /\ target'[g] = target[g]
          /\ Active' \cap found[g] = {}
      BY <2>1, <2>2, <2>5 DEF OwnStep
    <3>2. g \in alone
      BY <2>1, <2>2, <2>5, <3>1 DEF AloneStep
    <3>3. Active \subseteq found[g] \cup {target[g]}
      BY <3>1, <3>2 DEF AloneOK
    <3>4. Active' \subseteq Active
      BY <2>1, <3>1 DEF StepOf, Activates
    <3> QED
      BY <2>2, <2>5, <3>1, <3>3, <3>4
  <2> QED
    BY <2>3, <2>4, <2>5 DEF AloneOK
<1> QED
  BY <1>1, <1>2

\* What ActivationHeals says of one step.
Heals ==
  \A h \in alone :
    pc[h] = "write" /\ pc'[h] = "idle" /\ want[h] /\ target[h] \in Active'
      => Active' = {target[h]}

LEMMA StepHeals ==
  ASSUME TypeOK, AloneOK, Next
  PROVE  Heals
<1> SUFFICES ASSUME NEW h \in alone, pc[h] = "write", pc'[h] = "idle", want[h],
                    target[h] \in Active'
             PROVE  Active' \subseteq {target[h]}
  BY DEF Heals
<1>1. PICK g \in Handlers : StepOf(g)
  BY NextIsStep
<1>2. h = g
  BY <1>1 DEF StepOf, TypeOK
<1>3. Active \subseteq {target[h]}
  BY DEF AloneOK
<1> QED
  BY <1>1, <1>2, <1>3 DEF StepOf, Activates

\* An activation that no other request raced with leaves its row alone active,
\* whatever races and failures left before it.
THEOREM LoneActivationHeals == Spec => ActivationHeals
<1>1. TypeOK /\ AloneOK /\ [Next]_vars => [Heals]_vars
  BY StepHeals
<1> QED
  BY <1>1, TypeInit, TypeNext, AloneInit, AloneNext, PTL
     DEF Spec, ActivationHeals, Heals

=============================================================================
