--------------------------- MODULE AccountsProofs ---------------------------
(***************************************************************************)
(* A client finds a record to refresh with as long as the record that was  *)
(* stored with its token is unexpired, although a refresh revokes the most *)
(* recent record of the user and not that of the token: each revocation    *)
(* comes with a record at least as young, so for each record ever stored   *)
(* the user has one that is not revoked and no older.  The life of tokens  *)
(* does not enter it, nor on which day one was issued, nor whether replies *)
(* leave before or after the commit.  And n checkouts at a time            *)
(* make at most n customers: a customer is only asked for while none is    *)
(* stored, and until then each one made is in the hands of a request.      *)
(*                                                                         *)
(* In the second half, what else stands between a client and the API: the  *)
(* window of RateLimiter is respected whoever sends the requests, and so   *)
(* it is by the tabs of JobPolling, which share no variable with Accounts. *)
(***************************************************************************)
EXTENDS Accounts, JobPolling, FiniteSetTheorems, TLAPS

USE AccountsAssumption

-----------------------------------------------------------------------------
(* Records.                                                                *)

\* Who holds which record.
Ledger ==
  /\ \A r \in stored : born[r] <= today
  /\ \A c \in Clients : token[c] # None /\ token[c].record # None =>
       token[c].record \in 1 .. flushed /\ owner[token[c].record] = token[c].user
  /\ \A h \in Handlers : pc[h] = "rotate" => owner[found[h]] = user[h]
  /\ \A h \in Handlers : pc[h] \notin {"rotate"} \cup Committing => found[h] = None
  /\ \A h \in Handlers : pc[h] \in Committing =>
       /\ owner[fresh[h]] = user[h] /\ born[fresh[h]] <= today
       /\ \A g \in Handlers : pc[g] \in Committing /\ fresh[g] = fresh[h] => g = h
       /\ found[h] # None =>
            /\ found[h] \in stored /\ owner[found[h]] = user[h]
            /\ born[found[h]] <= born[fresh[h]]

\* The user of each record ever stored has one that is not revoked and was made
\* no earlier.
Backed ==
  \A s \in stored : \E r \in stored \ revoked :
    owner[r] = owner[s] /\ born[r] >= born[s]

USE DEF Committing

LEMMA StoredAreRecords == ASSUME TypeOK PROVE stored \subseteq Records /\ None \notin Records
<1>1. flushed \in Nat /\ flushed <= MaxRecords
  BY DEF TypeOK
<1>2. stored \subseteq 1 .. flushed
  BY DEF TypeOK
<1> QED
  BY <1>1, <1>2 DEF Records

LEMMA SessionsInit == Init => TypeOK /\ Ledger /\ Backed
BY DEF Init, TypeOK, Ledger, Backed, Steps

\* A request begins without a record of its own.
LEMMA BeginKeeps ==
  ASSUME TypeOK, Ledger, NEW h \in Handlers, NEW c \in Clients, NEW u \in Users,
         NEW step \in {"register", "create"}, Begin(h, c, u, step),
         UNCHANGED <<today, registered, records, token, billing, found, fresh>>
  PROVE  TypeOK' /\ Ledger'
<1> USE DEF Begin, records, billing
<1>1. TypeOK'
  BY DEF TypeOK, Steps
<1>2. Ledger'
  BY DEF TypeOK, Ledger
<1> QED
  BY <1>1, <1>2

\* A request ends and holds nothing any more; the records stay.
LEMMA ForgetKeeps ==
  ASSUME TypeOK, Ledger, NEW h \in Handlers, Forget(h),
         UNCHANGED <<today, records, made>>,
         registered' \subseteq Users,
         token' \in [Clients -> Tokens \cup {None}],
         \A c \in Clients : \/ token'[c] = token[c] \/ token'[c] = None
                            \/ token'[c].record = None,
         customer' \in [Users -> (1 .. MaxCustomers) \cup {None}],
         lost' \in [Users -> Nat]
  PROVE  TypeOK' /\ Ledger'
<1> USE DEF Forget, records
<1>1. TypeOK'
  BY DEF TypeOK, Steps
<1>2. Ledger'
  BY DEF TypeOK, Ledger
<1> QED
  BY <1>1, <1>2

\* The flush of a record for request h, which goes on to its commit.
LEMMA FlushKeeps ==
  ASSUME TypeOK, Ledger, NEW h \in Handlers, NewRecord(h, user'[h]),
         pc[h] \notin Committing, pc' = [pc EXCEPT ![h] = "commit"],
         client'[h] \in Clients, user'[h] \in Users,
         client' = [client EXCEPT ![h] = client'[h]],
         user' = [user EXCEPT ![h] = user'[h]],
         found[h] # None => found[h] \in stored /\ owner[found[h]] = user'[h],
         UNCHANGED <<today, registered, token, billing, found>>
  PROVE  TypeOK' /\ Ledger'
<1> USE DEF NewRecord, billing
<1> DEFINE new == flushed + 1
<1>1. /\ new \in Records /\ new \notin 1 .. flushed /\ new \notin stored
      /\ flushed' = new /\ 1 .. flushed \subseteq 1 .. flushed'
      /\ 1 .. flushed \subseteq Records
  BY DEF TypeOK, Records
<1>2. /\ owner'[new] = user'[h] /\ born'[new] = today /\ fresh'[h] = new
      /\ \A r \in 1 .. flushed : owner'[r] = owner[r] /\ born'[r] = born[r]
      /\ \A g \in Handlers \ {h} : /\ fresh'[g] = fresh[g] /\ pc'[g] = pc[g]
                                   /\ user'[g] = user[g] /\ client'[g] = client[g]
  BY <1>1 DEF TypeOK
<1>3. TypeOK'
  <2>1. /\ owner' \in [Records -> Users \cup {None}]
        /\ born' \in [Records -> 0 .. MaxDay]
    BY <1>1 DEF TypeOK
  <2>2. \A g \in Handlers : pc'[g] \in Committing => fresh'[g] \in (1 .. flushed') \ stored'
    BY <1>1, <1>2 DEF TypeOK
  <2>3. /\ client' \in [Handlers -> Clients \cup {None}]
        /\ user' \in [Handlers -> Users \cup {None}]
        /\ pc' \in [Handlers -> Steps]
    BY DEF TypeOK, Steps
  <2>4. \A g \in Handlers :
          /\ pc'[g] # "idle" => client'[g] \in Clients /\ user'[g] \in Users
          /\ pc'[g] = "rotate" => found'[g] \in stored'
          /\ pc'[g] = "store" => fresh'[g] \in 1 .. made'[user'[g]]
    BY <1>2 DEF TypeOK
  <2>5. flushed' \in 0 .. MaxRecords /\ stored' \subseteq 1 .. flushed'
    BY <1>1 DEF TypeOK
  <2> QED
    BY <2>1, <2>2, <2>3, <2>4, <2>5 DEF TypeOK
<1>4. Ledger'
  <2>1. \A r \in stored' : born'[r] <= today'
    BY <1>2 DEF TypeOK, Ledger
  <2>2. \A g \in Handlers : pc'[g] = "rotate" => owner'[found'[g]] = user'[g]
    BY <1>2 DEF TypeOK, Ledger
  <2>3. \A g \in Handlers : pc'[g] \notin {"rotate"} \cup Committing => found'[g] = None
    BY <1>2 DEF TypeOK, Ledger
  <2>5. \A c \in Clients : token'[c] # None /\ token'[c].record # None =>
          token'[c].record \in 1 .. flushed' /\ owner'[token'[c].record] = token'[c].user
    BY <1>1, <1>2 DEF Ledger
  <2>4. ASSUME NEW g \in Handlers, pc'[g] \in Committing
        PROVE  /\ owner'[fresh'[g]] = user'[g] /\ born'[fresh'[g]] <= today'
               /\ \A k \in Handlers : pc'[k] \in Committing /\ fresh'[k] = fresh'[g] => k = g
               /\ found'[g] # None =>
                    /\ found'[g] \in stored' /\ owner'[found'[g]] = user'[g]
                    /\ born'[found'[g]] <= born'[fresh'[g]]
    <3>1. CASE g = h
      <4>1. \A r \in stored : born[r] <= today /\ born'[r] = born[r] /\ owner'[r] = owner[r]
        BY <1>2 DEF TypeOK, Ledger
      <4>2. \A k \in Handlers \ {h} : pc'[k] \in Committing => fresh'[k] # new
        BY <1>1, <1>2 DEF TypeOK
      <4>3. today \in Nat
        BY DEF TypeOK
      <4> QED
        BY <1>2, <3>1, <4>1, <4>2, <4>3
    <3>2. CASE g # h
      <4>1. pc[g] \in Committing /\ fresh[g] \in 1 .. flushed
        BY <1>2, <2>4, <3>2 DEF TypeOK
      <4>2. \A k \in Handlers : pc'[k] \in Committing /\ fresh'[k] = fresh'[g] => k = g
        BY <1>1, <1>2, <3>2, <4>1 DEF Ledger
      <4>3. found[g] # None => found[g] \in 1 .. flushed
        BY <4>1 DEF TypeOK, Ledger
      <4> QED
        BY <1>2, <3>2, <4>1, <4>2, <4>3 DEF Ledger
    <3> QED
      BY <3>1, <3>2
  <2> QED
    BY <2>1, <2>2, <2>3, <2>4, <2>5 DEF Ledger
<1> QED
  BY <1>3, <1>4

LEMMA RepliedType ==
  ASSUME TypeOK, NEW h \in Handlers, client[h] \in Clients, user[h] \in Users,
         NEW day \in 0 .. MaxDay, NEW r \in Records \cup {None}, Replied(h, day, r)
  PROVE  /\ token' \in [Clients -> Tokens \cup {None}]
         /\ \A c \in Clients : \/ token'[c] = token[c]
                               \/ token'[c].record = r /\ token'[c].user = user[h]
<1> DEFINE new == [user |-> user[h], issued |-> day, record |-> r]
<1>1. new \in Tokens /\ new.record = r /\ new.user = user[h]
  BY DEF Tokens
<1>2. token' = [token EXCEPT ![client[h]] = new] \/ token' = token
  BY DEF Replied
<1> HIDE DEF new
<1> QED
  BY <1>1, <1>2 DEF TypeOK

\* The token of a request's own record.
LEMMA IssuesType ==
  ASSUME TypeOK, Ledger, NEW h \in Handlers, pc[h] \in Committing, Issues(h)
  PROVE  /\ token' \in [Clients -> Tokens \cup {None}]
         /\ \A c \in Clients : token'[c] # None /\ token'[c].record # None =>
              token'[c].record \in 1 .. flushed /\ owner[token'[c].record] = token'[c].user
<1>1. /\ fresh[h] \in 1 .. flushed /\ fresh[h] \in Records /\ owner[fresh[h]] = user[h]
      /\ client[h] \in Clients /\ user[h] \in Users
  BY DEF TypeOK, Ledger, Records
<1>2. PICK day \in born[fresh[h]] .. today : Replied(h, day, fresh[h])
  BY DEF Issues
<1>3. day \in 0 .. MaxDay
  BY <1>1 DEF TypeOK
<1> QED
  BY <1>1, <1>2, <1>3, RepliedType DEF Ledger

LEMMA ReplyKeeps ==
  ASSUME TypeOK, Ledger, NEW h \in Handlers, Reply(h)
  PROVE  TypeOK' /\ Ledger'
<1> USE DEF Reply, records, billing
<1>1. pc[h] \in Committing /\ Issues(h)
  OBVIOUS
<1>2. \A g \in Handlers : /\ pc'[g] \in Committing <=> pc[g] \in Committing
                          /\ g # h => pc'[g] = pc[g]
  BY DEF TypeOK
<1>3. pc'[h] = "replied" /\ pc' \in [Handlers -> Steps]
  BY DEF TypeOK, Steps
<1>4. TypeOK'
  BY <1>1, <1>2, <1>3, IssuesType DEF TypeOK
<1>5. Ledger'
  BY <1>1, <1>2, <1>3, IssuesType DEF Ledger
<1> QED
  BY <1>4, <1>5

LEMMA CommitKeeps ==
  ASSUME TypeOK, Ledger, NEW h \in Handlers, Commit(h)
  PROVE  TypeOK' /\ Ledger'
<1> USE DEF Commit, Forget, billing
<1>1. fresh[h] \in (1 .. flushed) \ stored /\ client[h] \in Clients /\ user[h] \in Users
  BY DEF TypeOK
<1>2. stored' = stored \cup {fresh[h]} /\ UNCHANGED <<today, flushed, owner, born>>
  OBVIOUS
<1>3. \A g \in Handlers \ {h} : /\ pc'[g] = pc[g] /\ user'[g] = user[g]
                               /\ found'[g] = found[g] /\ fresh'[g] = fresh[g]
  BY DEF TypeOK
<1>4. pc'[h] = "idle" /\ found'[h] = None
  BY DEF TypeOK
<1>7. /\ token' \in [Clients -> Tokens \cup {None}]
      /\ \A c \in Clients : token'[c] # None /\ token'[c].record # None =>
           token'[c].record \in 1 .. flushed /\ owner[token'[c].record] = token'[c].user
  BY IssuesType DEF TypeOK, Ledger
<1>5. TypeOK'
  <2>2. revoked' \subseteq stored' /\ stored' \subseteq 1 .. flushed'
    BY <1>1 DEF TypeOK, Ledger
  <2>3. \A g \in Handlers : pc'[g] \in Committing => fresh'[g] \in (1 .. flushed') \ stored'
    BY <1>2, <1>3, <1>4 DEF TypeOK, Ledger
  <2>4. \A g \in Handlers :
          /\ pc'[g] = "rotate" => found'[g] \in stored'
          /\ pc'[g] = "store" => fresh'[g] \in 1 .. made'[user'[g]]
    BY <1>2, <1>3, <1>4 DEF TypeOK
  <2>5. \A g \in Handlers : pc'[g] # "idle" => client'[g] \in Clients /\ user'[g] \in Users
    BY <1>4 DEF TypeOK
  <2>6. /\ pc' \in [Handlers -> Steps] /\ client' \in [Handlers -> Clients \cup {None}]
        /\ user' \in [Handlers -> Users \cup {None}]
        /\ found' \in [Handlers -> Records \cup {None}]
        /\ fresh' \in [Handlers -> Nat \cup {None}]
    BY DEF TypeOK, Steps
  <2> QED
    BY <1>7, <2>2, <2>3, <2>4, <2>5, <2>6 DEF TypeOK
<1>6. Ledger'
  <2>1. \A r \in stored' : born'[r] <= today'
    BY <1>2 DEF Ledger
  <2> QED
    BY <1>2, <1>3, <1>4, <1>7, <2>1 DEF Ledger
<1> QED
  BY <1>5, <1>6

LEMMA CustomerKeeps ==
  ASSUME TypeOK, Ledger, NEW h \in Handlers, CreateCustomer(h)
  PROVE  TypeOK' /\ Ledger'
<1> USE DEF CreateCustomer, records
<1>1. user[h] \in Users /\ made[user[h]] \in 0 .. MaxCustomers
  BY DEF TypeOK
<1>2. /\ made' \in [Users -> 0 .. MaxCustomers]
      /\ \A u \in Users : 1 .. made[u] \subseteq 1 .. made'[u]
      /\ fresh'[h] \in 1 .. made'[user[h]]
  BY <1>1 DEF TypeOK
<1>3. TypeOK'
  BY <1>1, <1>2 DEF TypeOK, Steps
<1>4. Ledger'
  BY DEF TypeOK, Ledger
<1> QED
  BY <1>3, <1>4

LEMMA RecordsNext == TypeOK /\ Ledger /\ [Next]_vars => TypeOK' /\ Ledger'
<1> SUFFICES ASSUME TypeOK, Ledger, [Next]_vars PROVE TypeOK' /\ Ledger'
  OBVIOUS
<1> DEFINE Goal == TypeOK' /\ Ledger'
<1>1. ASSUME NEW h \in Handlers, SignupCommits(h) PROVE Goal
  <2>1. client[h] \in Clients /\ user[h] \in Users /\ today \in 0 .. MaxDay
    BY <1>1 DEF SignupCommits, TypeOK
  <2>2. /\ token' \in [Clients -> Tokens \cup {None}] /\ registered' \subseteq Users
        /\ \A c \in Clients : token'[c] = token[c] \/ token'[c].record = None
    BY <1>1, <2>1, RepliedType DEF SignupCommits, TypeOK
  <2> QED
    BY <1>1, <2>2, ForgetKeeps DEF SignupCommits, billing, TypeOK
<1>2. ASSUME NEW h \in Handlers, Rotate(h) PROVE Goal
  <2>1. /\ user' = [user EXCEPT ![h] = user'[h]] /\ user'[h] = user[h] /\ user[h] \in Users
        /\ client' = [client EXCEPT ![h] = client'[h]] /\ client'[h] \in Clients
    BY <1>2 DEF Rotate, TypeOK
  <2>2. found[h] # None => found[h] \in stored /\ owner[found[h]] = user'[h]
    BY <1>2, <2>1 DEF Rotate, TypeOK, Ledger
  <2> QED
    BY <1>2, <2>1, <2>2, FlushKeeps DEF Rotate
<1>3. ASSUME NEW h \in Handlers, Commit(h) PROVE Goal
  BY <1>3, CommitKeeps
<1>4. ASSUME NEW h \in Handlers, CreateCustomer(h) PROVE Goal
  BY <1>4, CustomerKeeps
<1>5. ASSUME NEW h \in Handlers, StoreCustomer(h) PROVE Goal
  <2>1. customer' \in [Users -> (1 .. MaxCustomers) \cup {None}]
    BY <1>5 DEF StoreCustomer, TypeOK
  <2> QED
    BY <1>5, <2>1, ForgetKeeps DEF StoreCustomer, TypeOK
<1>6. ASSUME NEW h \in Handlers, Fails(h) PROVE Goal
  <2>1. lost' \in [Users -> Nat]
    BY <1>6 DEF Fails, TypeOK
  <2> QED
    BY <1>6, <2>1, ForgetKeeps DEF Fails, records, TypeOK
<1>7. ASSUME NEW h \in Handlers, NEW c \in Clients, Refresh(h, c) PROVE Goal
  <2>1. token[c].user \in Users
    BY <1>7 DEF Refresh, Accepted, TypeOK, Tokens
  <2>2. PICK r \in Live(token[c].user) : found' = [found EXCEPT ![h] = r]
    BY <1>7 DEF Refresh
  <2>3. r \in stored /\ r \in Records /\ owner[r] = token[c].user
    BY StoredAreRecords DEF Live
  <2>4. TypeOK'
    BY <1>7, <2>1, <2>2, <2>3 DEF Refresh, Begin, TypeOK, Steps, records, billing
  <2>5. Ledger'
    BY <1>7, <2>2, <2>3 DEF Refresh, Begin, TypeOK, Ledger, records
  <2> QED
    BY <2>4, <2>5
<1>8. ASSUME NEW h \in Handlers, NEW c \in Clients, NEW u \in Users,
             Signup(h, c, u) \/ Checkout(h, c, u)
      PROVE  Goal
  BY <1>8, BeginKeeps DEF Signup, Checkout
<1>9. ASSUME NEW h \in Handlers, NEW c \in Clients, NEW u \in Users, Login(h, c, u)
      PROVE  Goal
  <2>1. /\ user' = [user EXCEPT ![h] = user'[h]] /\ user'[h] = u
        /\ client' = [client EXCEPT ![h] = client'[h]] /\ client'[h] = c
        /\ pc[h] = "idle" /\ pc' = [pc EXCEPT ![h] = "commit"]
    BY <1>9 DEF Login, Begin, TypeOK
  <2>2. found[h] = None
    BY <2>1 DEF Ledger
  <2> QED
    BY <1>9, <2>1, <2>2, FlushKeeps DEF Login
<1>10. ASSUME NEW c \in Clients, Logout(c) PROVE Goal
  BY <1>10 DEF Logout, TypeOK, Ledger, records, billing, requestVars
<1>11. CASE NextDay
  <2>1. today' \in 0 .. MaxDay /\ today' > today /\ today \in Nat
    BY <1>11 DEF NextDay, TypeOK
  <2>2. TypeOK'
    BY <1>11, <2>1 DEF NextDay, TypeOK, records, billing, requestVars
  <2>3. stored \subseteq Records
    BY DEF TypeOK, Records
  <2>4. \A h \in Handlers : pc[h] \in Committing => fresh[h] \in Records
    BY DEF TypeOK, Records
  <2>5. \A r \in Records : born[r] \in Nat
    BY DEF TypeOK
  <2>6. \A r \in Records : born[r] <= today => born[r] <= today'
    BY <2>1, <2>5
  <2>7. Ledger'
    BY <1>11, <2>3, <2>4, <2>6 DEF NextDay, Ledger, records, requestVars
  <2> QED
    BY <2>2, <2>7
<1>12. CASE UNCHANGED vars
  BY <1>12 DEF vars, TypeOK, Ledger, records, billing, requestVars
<1>13. ASSUME NEW h \in Handlers, Reply(h) PROVE Goal
  BY <1>13, ReplyKeeps
<1> QED
  BY <1>1, <1>2, <1>3, <1>4, <1>5, <1>6, <1>7, <1>8, <1>9, <1>10, <1>11, <1>12, <1>13
  DEF Next

\* The variables of sessions and checkouts keep their types.
THEOREM AccountsTypeCorrect == Spec => []TypeOK
<1>1. Init => TypeOK /\ Ledger
  BY SessionsInit
<1> QED
  BY <1>1, RecordsNext, PTL DEF Spec

-----------------------------------------------------------------------------
(* A client whose token was stored with a record can refresh.              *)

\* Unrevoked records stay, but for one whose place a younger record of the same
\* user takes.
LEMMA CommitBacks ==
  ASSUME TypeOK, Ledger, Backed, NEW h \in Handlers, Commit(h)
  PROVE  Backed'
<1> USE DEF Commit
<1> DEFINE new == fresh[h]
<1>1. /\ new \in Records /\ new \notin stored /\ new \notin revoked
      /\ owner[new] = user[h] /\ born[new] \in Nat
  BY DEF TypeOK, Ledger, Records
<1>2. new \in stored' \ revoked' /\ stored' = stored \cup {new}
  BY <1>1 DEF Ledger
<1>3. owner' = owner /\ born' = born
  OBVIOUS
<1> SUFFICES ASSUME NEW s \in stored'
             PROVE  \E r \in stored' \ revoked' : owner[r] = owner[s] /\ born[r] >= born[s]
  BY <1>3 DEF Backed
<1>4. CASE s = new
  BY <1>1, <1>2, <1>4
<1>5. CASE s \in stored
  <2>1. PICK r \in stored \ revoked : owner[r] = owner[s] /\ born[r] >= born[s]
    BY <1>5 DEF Backed
  <2>2. r \in Records /\ s \in Records /\ born[r] \in Nat /\ born[s] \in Nat /\ r # None
    BY <1>5, <2>1 DEF TypeOK, Records
  <2>3. CASE r = found[h]
    <3>1. owner[r] = user[h] /\ born[r] <= born[new]
      BY <2>2, <2>3 DEF Ledger
    <3>2. owner[new] = owner[s] /\ born[new] >= born[s]
      BY <1>1, <2>1, <2>2, <3>1
    <3> QED
      BY <1>2, <3>2
  <2>4. CASE r # found[h]
    BY <1>2, <2>1, <2>4
  <2> QED
    BY <2>3, <2>4
<1> QED
  BY <1>2, <1>4, <1>5

LEMMA BackedNext == TypeOK /\ Ledger /\ Backed /\ [Next]_vars => Backed'
<1> SUFFICES ASSUME TypeOK, Ledger, Backed, [Next]_vars PROVE Backed'
  OBVIOUS
<1>1. stored \subseteq Records
  BY DEF TypeOK, Records
\* A step that stores and revokes nothing.
<1>2. ASSUME UNCHANGED <<stored, revoked>>,
             \A r \in stored : owner'[r] = owner[r] /\ born'[r] = born[r]
      PROVE  Backed'
  BY <1>2 DEF Backed
<1>3. ASSUME UNCHANGED records PROVE Backed'
  BY <1>2, <1>3 DEF records
<1>4. ASSUME NEW h \in Handlers, NEW u, NewRecord(h, u) PROVE Backed'
  <2>1. \A r \in stored : r # flushed + 1
    BY DEF TypeOK
  <2> QED
    BY <1>1, <1>2, <1>4, <2>1 DEF NewRecord, TypeOK
<1>5. ASSUME NEW h \in Handlers, Commit(h) PROVE Backed'
  BY <1>5, CommitBacks
<1> QED
  BY <1>3, <1>4, <1>5 DEF Next, SignupCommits, Rotate, Reply, CreateCustomer, StoreCustomer,
     Fails, Refresh, Signup, Login, Checkout, Logout, NextDay, vars

LEMMA BackedCanRefresh == TypeOK /\ Ledger /\ Backed => EveryClientCanRefresh
<1> SUFFICES ASSUME TypeOK, Ledger, Backed, NEW c \in Clients, token[c] # None,
                    token[c].record \in stored, Unexpired(token[c].record)
             PROVE  Live(token[c].user) # {}
  BY DEF EveryClientCanRefresh
<1> DEFINE s == token[c].record
<1>1. s \in Records /\ s # None /\ owner[s] = token[c].user
  BY StoredAreRecords DEF Ledger
<1>2. PICK r \in stored \ revoked : owner[r] = owner[s] /\ born[r] >= born[s]
  BY DEF Backed
<1>3. r \in Records /\ born[r] \in Nat /\ born[s] \in Nat /\ today \in Nat
  BY <1>1, <1>2 DEF TypeOK, Records
<1>4. today < born[r] + RecordDays
  BY <1>2, <1>3 DEF Unexpired
<1> QED
  BY <1>1, <1>2, <1>4 DEF Live, Unexpired

\* While the record that was stored with its token is unexpired, a client finds
\* a record of its user to refresh with, whichever the others refreshed with,
\* whatever the lives of tokens and records and whether the reply or the commit
\* comes first.
THEOREM ClientsAlwaysRefresh == Spec => []EveryClientCanRefresh
<1>1. Init => TypeOK /\ Ledger /\ Backed
  BY SessionsInit
<1> QED
  BY <1>1, RecordsNext, BackedNext, BackedCanRefresh, PTL DEF Spec

-----------------------------------------------------------------------------
(* Customers.                                                              *)

HIDE DEF Committing

\* The requests of u that are about to run the given step.
At(step, u) == {h \in Handlers : pc[h] = step /\ user[h] = u}

\* While none is stored, the customers made for u are those that were lost and
\* those in the hands of requests; and a request that will make one counts as if
\* it had.
CustomersHeld ==
  \A u \in Users :
    /\ customer[u] = None => made[u] = lost[u] + Cardinality(At("store", u))
    /\ made[u] + Cardinality(At("create", u)) <= Cardinality(Handlers) + lost[u]

LEMMA AtFinite ==
  /\ Cardinality(Handlers) \in Nat
  /\ \A u \in Users, step \in Steps :
       IsFiniteSet(At(step, u)) /\ Cardinality(At(step, u)) \in Nat
<1>1. ASSUME NEW u \in Users, NEW step \in Steps
      PROVE  IsFiniteSet(At(step, u)) /\ Cardinality(At(step, u)) \in Nat
  BY FS_Subset, FS_CardinalityType DEF At
<1> QED
  BY <1>1, FS_CardinalityType

\* Request h is where it gets to, and nowhere else.
LEMMA AtMoves ==
  ASSUME TypeOK, NEW h \in Handlers, NEW u \in Users, NEW step \in Steps,
         pc' = [pc EXCEPT ![h] = pc'[h]], user' = [user EXCEPT ![h] = user'[h]]
  PROVE  /\ Cardinality(At(step, u)') \in Nat
         /\ Cardinality(At(step, u)') =
              IF h \in At(step, u)'
              THEN IF h \in At(step, u) THEN Cardinality(At(step, u))
                                        ELSE Cardinality(At(step, u)) + 1
              ELSE IF h \in At(step, u) THEN Cardinality(At(step, u)) - 1
                                        ELSE Cardinality(At(step, u))
<1>1. CASE h \in At(step, u)'
  <2>1. At(step, u)' = At(step, u) \cup {h}
    BY <1>1 DEF At, TypeOK
  <2> QED
    BY <1>1, <2>1, AtFinite, FS_AddElement, FS_CardinalityType
<1>2. CASE h \notin At(step, u)'
  <2>1. At(step, u)' = At(step, u) \ {h}
    BY <1>2 DEF At, TypeOK
  <2> QED
    BY <1>2, <2>1, AtFinite, FS_RemoveElement, FS_CardinalityType
<1> QED
  BY <1>1, <1>2

\* The requests that make a customer or hold one are different requests.
LEMMA AtApart ==
  ASSUME NEW u \in Users, NEW h \in Handlers, pc[h] = "idle"
  PROVE  Cardinality(At("create", u)) + Cardinality(At("store", u)) + 1
           <= Cardinality(Handlers)
<1> DEFINE C == At("create", u)
           S == At("store", u)
<1>1. IsFiniteSet(C) /\ IsFiniteSet(S) /\ C \cap S = {} /\ h \notin C \cup S
  BY AtFinite DEF At, Steps
<1>2. (C \cup S) \cup {h} \subseteq Handlers
  BY DEF At
<1> HIDE DEF C, S
<1>3. IsFiniteSet(C \cup S) /\ Cardinality(C \cup S) = Cardinality(C) + Cardinality(S)
  <2>1. Cardinality(C \cap S) = 0
    BY <1>1, FS_EmptySet
  <2>2. Cardinality(C) \in Nat /\ Cardinality(S) \in Nat
    BY <1>1, FS_CardinalityType
  <2>3. /\ IsFiniteSet(C \cup S)
        /\ Cardinality(C \cup S) = Cardinality(C) + Cardinality(S) - Cardinality(C \cap S)
    BY <1>1, FS_Union
  <2> QED
    BY <2>1, <2>2, <2>3
<1>4. Cardinality((C \cup S) \cup {h}) = Cardinality(C \cup S) + 1
  BY <1>1, <1>3, FS_AddElement
<1>5. Cardinality((C \cup S) \cup {h}) <= Cardinality(Handlers)
  BY <1>2, FS_Subset
<1> QED
  BY <1>3, <1>4, <1>5 DEF C, S

LEMMA CustomersInit == Init => CustomersHeld
<1> SUFFICES ASSUME Init, NEW u \in Users
             PROVE  /\ made[u] = 0 /\ lost[u] = 0
                    /\ Cardinality(At("store", u)) = 0
                    /\ Cardinality(At("create", u)) = 0
                    /\ Cardinality(Handlers) \in Nat
  BY DEF CustomersHeld
<1>1. At("store", u) = {} /\ At("create", u) = {}
  BY DEF Init, At
<1> QED
  BY <1>1, FS_EmptySet, AtFinite DEF Init

LEMMA CustomersNext == TypeOK /\ CustomersHeld /\ [Next]_vars => CustomersHeld'
<1> SUFFICES ASSUME TypeOK, CustomersHeld, [Next]_vars PROVE CustomersHeld'
  OBVIOUS
<1> DEFINE Create(u) == Cardinality(At("create", u))
           Store(u) == Cardinality(At("store", u))
<1>1. \A u \in Users : Create(u) \in Nat /\ Store(u) \in Nat /\ made[u] \in Nat /\ lost[u] \in Nat
  BY AtFinite DEF TypeOK, Steps
<1>2. Cardinality(Handlers) \in Nat
  BY AtFinite
\* A request that has nothing to do with customers, before and after.
<1>3. ASSUME UNCHANGED billing, NEW h \in Handlers,
             pc[h] \notin {"create", "store"}, pc'[h] \notin {"create", "store"},
             pc' = [pc EXCEPT ![h] = pc'[h]], user' = [user EXCEPT ![h] = user'[h]]
      PROVE  CustomersHeld'
  <2>1. \A u \in Users : At("create", u)' = At("create", u) /\ At("store", u)' = At("store", u)
    BY <1>3 DEF At, TypeOK
  <2> QED
    BY <1>3, <2>1 DEF CustomersHeld, billing
<1>4. ASSUME NEW h \in Handlers, NEW c \in Clients, NEW v \in Users, Checkout(h, c, v)
      PROVE  CustomersHeld'
  <2>1. /\ pc[h] = "idle" /\ pc'[h] = "create" /\ user'[h] = v /\ customer[v] = None
        /\ pc' = [pc EXCEPT ![h] = pc'[h]] /\ user' = [user EXCEPT ![h] = user'[h]]
        /\ UNCHANGED <<customer, made, lost>>
    BY <1>4 DEF Checkout, Begin, TypeOK, billing
  <2>2. ASSUME NEW u \in Users
        PROVE  Store(u)' = Store(u) /\ Create(u)' = Create(u) + (IF u = v THEN 1 ELSE 0)
    <3>1. /\ h \notin At("create", u) /\ h \notin At("store", u) /\ h \notin At("store", u)'
          /\ h \in At("create", u)' <=> u = v
      BY <2>1 DEF At
    <3> QED
      BY <1>1, <2>1, <3>1, AtMoves DEF Steps
  <2>3. Create(v) + Store(v) + 1 <= Cardinality(Handlers)
    BY <2>1, AtApart
  <2> HIDE DEF Create, Store
  <2>4. ASSUME NEW u \in Users
        PROVE  /\ customer'[u] = None => made'[u] = lost'[u] + Store(u)'
               /\ made'[u] + Create(u)' <= Cardinality(Handlers) + lost'[u]
    <3>1. /\ customer[u] = None => made[u] = lost[u] + Store(u)
          /\ made[u] + Create(u) <= Cardinality(Handlers) + lost[u]
      BY DEF CustomersHeld, Create, Store
    <3> QED
      BY <1>1, <1>2, <2>1, <2>2, <2>3, <3>1
  <2> QED
    BY <2>4 DEF CustomersHeld, Create, Store
<1>5. ASSUME NEW h \in Handlers, CreateCustomer(h) PROVE CustomersHeld'
  <2>1. /\ pc[h] = "create" /\ pc'[h] = "store" /\ user' = user /\ user[h] \in Users
        /\ pc' = [pc EXCEPT ![h] = pc'[h]] /\ user' = [user EXCEPT ![h] = user'[h]]
        /\ UNCHANGED <<customer, lost>>
        /\ \A u \in Users : made'[u] = made[u] + (IF u = user[h] THEN 1 ELSE 0)
    BY <1>5 DEF CreateCustomer, TypeOK
  <2>2. ASSUME NEW u \in Users
        PROVE  /\ Create(u)' = Create(u) - (IF u = user[h] THEN 1 ELSE 0)
               /\ Store(u)' = Store(u) + (IF u = user[h] THEN 1 ELSE 0)
    <3>1. /\ h \in At("create", u) <=> u = user[h]
          /\ h \in At("store", u)' <=> u = user[h]
          /\ h \notin At("create", u)' /\ h \notin At("store", u)
      BY <2>1 DEF At
    <3> QED
      BY <1>1, <2>1, <3>1, AtMoves DEF Steps
  <2> HIDE DEF Create, Store
  <2>3. ASSUME NEW u \in Users
        PROVE  /\ customer'[u] = None => made'[u] = lost'[u] + Store(u)'
               /\ made'[u] + Create(u)' <= Cardinality(Handlers) + lost'[u]
    <3>1. /\ customer[u] = None => made[u] = lost[u] + Store(u)
          /\ made[u] + Create(u) <= Cardinality(Handlers) + lost[u]
      BY DEF CustomersHeld, Create, Store
    <3> QED
      BY <1>1, <1>2, <2>1, <2>2, <3>1
  <2> QED
    BY <2>3 DEF CustomersHeld, Create, Store
<1>6. ASSUME NEW h \in Handlers, StoreCustomer(h) \/ Fails(h) PROVE CustomersHeld'
  <2> DEFINE v == user[h]
  <2>1. /\ pc[h] # "idle" /\ pc'[h] = "idle" /\ v \in Users
        /\ pc' = [pc EXCEPT ![h] = pc'[h]] /\ user' = [user EXCEPT ![h] = user'[h]]
        /\ made' = made
    BY <1>6 DEF StoreCustomer, Fails, Forget, TypeOK
  <2>2. \A u \in Users : \/ customer'[u] = customer[u]
                         \/ u = v /\ customer'[u] # None /\ StoreCustomer(h)
    <3>1. StoreCustomer(h) => fresh[h] \in Nat
      BY DEF StoreCustomer, TypeOK
    <3> QED
      BY <1>6, <2>1, <3>1 DEF StoreCustomer, Fails, TypeOK
  <2>3. \A u \in Users : lost'[u] = lost[u] + (IF u = v /\ pc[h] = "store" /\ Fails(h) /\ ~ StoreCustomer(h) THEN 1 ELSE 0)
    BY <1>6, <2>1 DEF StoreCustomer, Fails, TypeOK
  <2>4. ASSUME NEW u \in Users
        PROVE  /\ Create(u)' = Create(u) - (IF u = v /\ pc[h] = "create" THEN 1 ELSE 0)
               /\ Store(u)' = Store(u) - (IF u = v /\ pc[h] = "store" THEN 1 ELSE 0)
               /\ Create(u)' \in Nat /\ Store(u)' \in Nat
    <3>1. /\ h \in At("create", u) <=> u = v /\ pc[h] = "create"
          /\ h \in At("store", u) <=> u = v /\ pc[h] = "store"
          /\ h \notin At("create", u)' /\ h \notin At("store", u)'
      BY <2>1 DEF At
    <3> QED
      BY <1>1, <2>1, <3>1, AtMoves DEF Steps
  <2>5. ASSUME NEW u \in Users
        PROVE  /\ customer'[u] = None => made'[u] = lost'[u] + Store(u)'
               /\ made'[u] + Create(u)' <= Cardinality(Handlers) + lost'[u]
    <3>1. /\ customer[u] = None => made[u] = lost[u] + Store(u)
          /\ made[u] + Create(u) <= Cardinality(Handlers) + lost[u]
      BY DEF CustomersHeld
    <3>2. StoreCustomer(h) => pc[h] = "store"
      BY DEF StoreCustomer
    <3>3. made'[u] + Create(u)' <= Cardinality(Handlers) + lost'[u]
      <4> HIDE DEF Create, Store
      <4> QED
        BY <1>1, <1>2, <2>1, <2>3, <2>4, <3>1
    <3>4. ASSUME customer'[u] = None PROVE made'[u] = lost'[u] + Store(u)'
      <4>1. customer[u] = None
        BY <2>2, <3>4
      <4>2. u # v \/ pc[h] # "store" \/ (Fails(h) /\ ~ StoreCustomer(h))
        <5>1. StoreCustomer(h) /\ u = v => customer'[u] # None
          <6>1. ASSUME StoreCustomer(h) PROVE customer'[v] = fresh[h] /\ fresh[h] \in Nat
            BY <2>1, <6>1 DEF StoreCustomer, TypeOK
          <6> QED
            BY <6>1
        <5> QED
          BY <1>6, <3>4, <5>1
      <4> HIDE DEF Create, Store
      <4> QED
        BY <1>1, <2>1, <2>3, <2>4, <3>1, <4>1, <4>2
    <3> QED
      BY <3>3, <3>4
  <2> QED
    BY <2>5 DEF CustomersHeld
<1>7. ASSUME NEW h \in Handlers, SignupCommits(h) \/ Rotate(h) \/ Reply(h) \/ Commit(h)
      PROVE  CustomersHeld'
  <2>1. /\ pc[h] \notin {"create", "store"} /\ pc'[h] \notin {"create", "store"}
        /\ pc' = [pc EXCEPT ![h] = pc'[h]] /\ user' = [user EXCEPT ![h] = user'[h]]
        /\ UNCHANGED billing
    BY <1>7 DEF SignupCommits, Rotate, Reply, Commit, Committing, Forget, TypeOK
  <2> QED
    BY <1>3, <2>1
<1>8. ASSUME NEW h \in Handlers, NEW c \in Clients,
             Refresh(h, c) \/ \E u \in Users : Signup(h, c, u) \/ Login(h, c, u)
      PROVE  CustomersHeld'
  <2>1. /\ pc[h] \notin {"create", "store"} /\ pc'[h] \notin {"create", "store"}
        /\ pc' = [pc EXCEPT ![h] = pc'[h]] /\ user' = [user EXCEPT ![h] = user'[h]]
        /\ UNCHANGED billing
    BY <1>8 DEF Refresh, Signup, Login, Begin, TypeOK
  <2> QED
    BY <1>3, <2>1
<1>9. ASSUME UNCHANGED <<billing, pc, user>> PROVE CustomersHeld'
  BY <1>9 DEF CustomersHeld, At, billing
<1>10. ASSUME NEW c \in Clients, Logout(c) PROVE CustomersHeld'
  BY <1>9, <1>10 DEF Logout, requestVars
<1>11. CASE NextDay \/ UNCHANGED vars
  BY <1>9, <1>11 DEF NextDay, vars, requestVars
<1> QED
  BY <1>4, <1>5, <1>6, <1>7, <1>8, <1>10, <1>11 DEF Next

\* The stored customer of u is one of those that were made.
StoredWasMade ==
  \A u \in Users : customer[u] # None => customer[u] \in 1 .. made[u]

LEMMA StoredInit == Init => StoredWasMade
BY DEF Init, StoredWasMade

LEMMA StoredNext == TypeOK /\ StoredWasMade /\ [Next]_vars => StoredWasMade'
<1> SUFFICES ASSUME TypeOK, StoredWasMade, [Next]_vars PROVE StoredWasMade'
  OBVIOUS
<1>1. ASSUME UNCHANGED <<customer, made>> PROVE StoredWasMade'
  BY <1>1 DEF StoredWasMade
<1>2. ASSUME NEW h \in Handlers, StoreCustomer(h) PROVE StoredWasMade'
  BY <1>2 DEF StoreCustomer, StoredWasMade, TypeOK
<1>3. ASSUME NEW h \in Handlers, CreateCustomer(h) PROVE StoredWasMade'
  BY <1>3 DEF CreateCustomer, StoredWasMade, TypeOK
<1> QED
  BY <1>1, <1>2, <1>3 DEF Next, SignupCommits, Rotate, Reply, Commit, Fails, Refresh,
     Signup, Login, Checkout, Logout, NextDay, vars, billing

\* n checkouts at a time make a user at most n customers, besides those whose
\* request died before it stored them.
THEOREM CustomersStayBounded == Spec => []CustomersBounded
<1>1. TypeOK /\ CustomersHeld /\ StoredWasMade => CustomersBounded
  <2> SUFFICES ASSUME TypeOK, CustomersHeld, NEW u \in Users
               PROVE  made[u] <= Cardinality(Handlers) + lost[u]
    BY DEF CustomersBounded, StoredWasMade
  <2>1. /\ made[u] \in Nat /\ lost[u] \in Nat /\ Cardinality(Handlers) \in Nat
        /\ Cardinality(At("create", u)) \in Nat
    BY AtFinite DEF TypeOK, Steps
  <2>2. made[u] + Cardinality(At("create", u)) <= Cardinality(Handlers) + lost[u]
    BY DEF CustomersHeld
  <2> QED
    BY <2>1, <2>2
<1> QED
  BY <1>1, AccountsTypeCorrect, CustomersInit, CustomersNext, StoredInit, StoredNext,
     PTL DEF Spec

-----------------------------------------------------------------------------
(* The limiter, for every window, delay and limit.                         *)

HIDE AccountsAssumption
USE LimiterAssumption, PollingAssumption

-----------------------------------------------------------------------------
(* Counts by age, as sets of units.                                        *)

LEMMA AgesAreNumbers ==
  /\ Ages \subseteq Nat /\ Recent \subseteq Ages
  /\ 0 \in Recent /\ 0 .. Delay \subseteq Ages
  /\ Recent = 0 .. Window - Delay - 1 /\ Window - Delay - 1 \in Nat
  /\ \A a \in Recent : 0 .. a + Delay \subseteq 0 .. Window - 1
  /\ 0 .. Window - 1 \subseteq Ages
BY DEF Ages, Recent

LEMMA UnitsOf ==
  ASSUME NEW counts, NEW ages, NEW x
  PROVE  x \in Units(counts, ages) <=> \E a \in ages : x \in {a} \X (1 .. counts[a])
BY DEF Units

LEMMA UnitsFinite ==
  ASSUME NEW counts, NEW most \in Nat, NEW ages, IsFiniteSet(ages),
         \A a \in ages : counts[a] \in 0 .. most
  PROVE  IsFiniteSet(Units(counts, ages)) /\ Total(counts, ages) \in Nat
<1>1. IsFiniteSet(1 .. most)
  BY FS_Interval
<1>2. IsFiniteSet(ages \X (1 .. most))
  BY <1>1, FS_Product
<1>3. Units(counts, ages) \subseteq ages \X (1 .. most)
  BY DEF Units
<1> QED
  BY <1>2, <1>3, FS_Subset, FS_CardinalityType DEF Total

\* More requests of each age are more requests.
LEMMA TotalGrows ==
  ASSUME NEW c, NEW d, NEW most \in Nat, NEW ages, NEW more, IsFiniteSet(more),
         ages \subseteq more,
         \A a \in more : d[a] \in 0 .. most,
         \A a \in ages : c[a] \in Nat /\ c[a] <= d[a]
  PROVE  Total(c, ages) <= Total(d, more)
<1>1. Units(c, ages) \subseteq Units(d, more)
  <2> SUFFICES ASSUME NEW a \in ages, NEW n \in 1 .. c[a]
               PROVE  <<a, n>> \in {a} \X (1 .. d[a])
    BY DEF Units
  <2> QED
    BY DEF Units
<1> QED
  BY <1>1, UnitsFinite, FS_Subset DEF Total

\* One age alone has no more requests than all of them together.
LEMMA TotalAtLeast ==
  ASSUME NEW c, NEW most \in Nat, NEW ages, IsFiniteSet(ages), NEW x \in ages,
         \A a \in ages : c[a] \in 0 .. most
  PROVE  c[x] <= Total(c, ages)
<1> DEFINE f == [n \in 1 .. c[x] |-> <<x, n>>]
<1>1. f \in [1 .. c[x] -> Units(c, ages)]
  BY DEF Units
<1>2. f \in Injection(1 .. c[x], Units(c, ages))
  BY <1>1 DEF Injection, IsInjective
<1>3. Cardinality(1 .. c[x]) = c[x]
  BY FS_Interval
<1> QED
  BY <1>2, <1>3, UnitsFinite, FS_Injection DEF Total

\* One request more, of age x.
OneMore(c, d, x, ages) ==
  d[x] = c[x] + 1 /\ \A a \in ages \ {x} : d[a] = c[a]

LEMMA TotalAdds ==
  ASSUME NEW c, NEW d, NEW most \in Nat, NEW ages, IsFiniteSet(ages), NEW x \in ages,
         \A a \in ages : c[a] \in 0 .. most,
         OneMore(c, d, x, ages)
  PROVE  Total(d, ages) = Total(c, ages) + 1
<1>1. Units(d, ages) = Units(c, ages) \cup {<<x, c[x] + 1>>}
  <2>1. 1 .. d[x] = 1 .. c[x] \cup {c[x] + 1}
    BY DEF OneMore
  <2> QED
    BY <2>1 DEF Units, OneMore
<1>2. <<x, c[x] + 1>> \notin Units(c, ages)
  BY DEF Units
<1>3. IsFiniteSet(Units(c, ages))
  BY UnitsFinite
<1> QED
  BY <1>1, <1>2, <1>3, FS_AddElement DEF Total

\* Growing older takes the counts as they are to the next ages.
LEMMA TotalAges ==
  ASSUME NEW last \in Nat, NEW most \in Nat, NEW c \in [0 .. last -> 0 .. most],
         NEW a \in 0 .. last
  PROVE  Total(Older(c), 0 .. a) = Total(c, 0 .. a - 1)
<1> DEFINE younger == Units(c, 0 .. a - 1)
           older == Units(Older(c), 0 .. a)
           f == [u \in younger |-> <<u[1] + 1, u[2]>>]
<1>1. ASSUME NEW b \in 0 .. a PROVE Older(c)[b] = IF b = 0 THEN 0 ELSE c[b - 1]
  BY DEF Older
<1>2. ASSUME NEW u \in younger
      PROVE  /\ u[1] \in 0 .. a - 1 /\ u[2] \in 1 .. c[u[1]]
             /\ u = <<u[1], u[2]>>
  BY DEF Units
<1>3. f \in [younger -> older]
  <2> SUFFICES ASSUME NEW u \in younger PROVE <<u[1] + 1, u[2]>> \in older
    OBVIOUS
  <2>1. \A b \in 0 .. a - 1 : b + 1 \in 0 .. a /\ Older(c)[b + 1] = c[b]
    BY DEF Older
  <2>2. u[1] + 1 \in 0 .. a /\ Older(c)[u[1] + 1] = c[u[1]]
    BY <1>2, <2>1
  <2>3. <<u[1] + 1, u[2]>> \in {u[1] + 1} \X (1 .. Older(c)[u[1] + 1])
    BY <1>2, <2>2
  <2> QED
    BY <2>2, <2>3, UnitsOf
<1>4. \A u, v \in younger : f[u] = f[v] => u = v
  <2> SUFFICES ASSUME NEW u \in younger, NEW v \in younger,
                      <<u[1] + 1, u[2]>> = <<v[1] + 1, v[2]>>
               PROVE  <<u[1], u[2]>> = <<v[1], v[2]>>
    BY <1>2
  <2>1. u[1] \in Int /\ v[1] \in Int /\ u[1] + 1 = v[1] + 1 /\ u[2] = v[2]
    BY <1>2
  <2> QED
    BY <2>1
<1>5. ASSUME NEW w \in older PROVE \E u \in younger : f[u] = w
  <2>1. PICK b \in 0 .. a : w \in {b} \X (1 .. Older(c)[b])
    BY UnitsOf
  <2>2. b # 0 /\ b - 1 \in 0 .. a - 1 /\ w[2] \in 1 .. c[b - 1] /\ w = <<b, w[2]>>
    BY <1>1, <2>1
  <2>3. <<b - 1, w[2]>> \in younger
    BY <2>2, UnitsOf
  <2>4. f[<<b - 1, w[2]>>] = <<b - 1 + 1, w[2]>> /\ b - 1 + 1 = b
    BY <2>3, <2>2
  <2> QED
    BY <2>2, <2>3, <2>4
<1>6. f \in Bijection(younger, older)
  BY <1>3, <1>4, <1>5 DEF Bijection, Injection, Surjection, IsInjective
<1>7. IsFiniteSet(younger)
  <2>1. IsFiniteSet(0 .. a - 1)
    BY FS_Interval
  <2>2. \A b \in 0 .. a - 1 : c[b] \in 0 .. most
    OBVIOUS
  <2> QED
    BY <2>1, <2>2, UnitsFinite
<1> HIDE DEF f, younger, older
<1>8. Cardinality(older) = Cardinality(younger)
  BY <1>6, <1>7, FS_Bijection DEF ExistsBijection
<1> QED
  BY <1>8 DEF Total, younger, older

-----------------------------------------------------------------------------
(* The window.                                                             *)

LimiterInv == LimiterTypeOK /\ WindowRespected /\ Matched

LEMMA AgesFinite ==
  ASSUME NEW n \in Int
  PROVE  IsFiniteSet(0 .. n) /\ IsFiniteSet(Recent) /\ IsFiniteSet(Ages)
BY FS_Interval DEF Recent, Ages

LEMMA LimiterStarts == LimiterInit => LimiterInv
<1> SUFFICES ASSUME LimiterInit PROVE LimiterInv
  OBVIOUS
<1>1. LimiterTypeOK
  BY DEF LimiterInit, LimiterTypeOK
<1>2. ASSUME NEW ages \in SUBSET Recent PROVE Total(passed, ages) = 0
  <2>1. Units(passed, ages) = {}
    BY AgesAreNumbers DEF Units, LimiterInit
  <2> QED
    BY <2>1, FS_EmptySet DEF Total
<1>3. WindowRespected
  BY <1>2 DEF WindowRespected
<1>4. Matched
  <2> SUFFICES ASSUME NEW a \in Recent
               PROVE  Total(passed, 0 .. a) <= Total(entries, 0 .. a + Delay)
    BY DEF Matched
  <2>1. 0 .. a \in SUBSET Recent /\ a + Delay \in Int
    BY DEF Recent
  <2>2. \A b \in 0 .. a + Delay : entries[b] \in 0 .. MaxRequests
    BY <1>1, AgesAreNumbers DEF LimiterTypeOK
  <2>3. Total(entries, 0 .. a + Delay) \in Nat
    BY <2>1, <2>2, AgesFinite, UnitsFinite
  <2>4. Total(passed, 0 .. a) = 0
    BY <1>2, <2>1
  <2> QED
    BY <2>3, <2>4
<1> QED
  BY <1>1, <1>3, <1>4 DEF LimiterInv

\* What the transaction of a request keeps of the set.
LEMMA KeptInWindow ==
  ASSUME LimiterTypeOK, NEW d \in 0 .. Delay
  PROVE  /\ Kept(d) \in [Ages -> 0 .. MaxRequests]
         /\ \A a \in 0 .. Window - 1 : Kept(d)[a] = entries[a]
BY AgesAreNumbers DEF Kept, LimiterTypeOK, Ages

LEMMA CountedType ==
  ASSUME LimiterTypeOK, NEW d \in 0 .. Delay, Counted(d)
  PROVE  /\ entries' \in [Ages -> 0 .. MaxRequests]
         /\ \A a \in 0 .. Window - 1 : entries[a] <= entries'[a]
<1>1. d \in Ages
  BY AgesAreNumbers
<1>2. Kept(d)[d] \in 0 .. MaxRequests
  BY <1>1, KeptInWindow
<1>3. Capped(Kept(d)[d] + 1, MaxRequests) \in Kept(d)[d] .. MaxRequests
  BY <1>2 DEF Capped
<1>4. entries' \in [Ages -> 0 .. MaxRequests]
  BY <1>1, <1>2, <1>3, KeptInWindow DEF Counted
<1>5. \A a \in 0 .. Window - 1 : entries[a] <= entries'[a]
  <2> SUFFICES ASSUME NEW a \in 0 .. Window - 1 PROVE entries[a] <= entries'[a]
    OBVIOUS
  <2>1. a \in Ages /\ entries[a] \in Nat /\ Kept(d)[a] = entries[a]
    BY KeptInWindow, AgesAreNumbers DEF LimiterTypeOK
  <2>2. CASE a = d
    BY <1>1, <1>3, <2>1, <2>2, KeptInWindow DEF Counted
  <2>3. CASE a # d
    BY <1>1, <2>1, <2>3, KeptInWindow DEF Counted
  <2> QED
    BY <2>2, <2>3
<1> QED
  BY <1>4, <1>5

\* How many passed is a number.
LEMMA PassedFinite ==
  ASSUME LimiterTypeOK, NEW ages \in SUBSET Recent
  PROVE  Total(passed, ages) \in Nat
<1>1. IsFiniteSet(ages)
  BY AgesFinite, FS_Subset
<1>2. \A a \in ages : passed[a] \in 0 .. MaxRequests + 1
  BY DEF LimiterTypeOK
<1>3. MaxRequests + 1 \in Nat
  OBVIOUS
<1> QED
  BY <1>1, <1>2, <1>3, UnitsFinite

\* As long as nothing passes, more entries do no harm.
LEMMA MoreEntries ==
  ASSUME LimiterInv, entries' \in [Ages -> 0 .. MaxRequests],
         UNCHANGED <<production, passed>>,
         \A a \in 0 .. Window - 1 : entries[a] <= entries'[a]
  PROVE  LimiterInv'
<1> USE DEF LimiterInv
<1>1. LimiterTypeOK'
  BY DEF LimiterTypeOK
<1>2. WindowRespected'
  BY DEF WindowRespected
<1>3. Matched'
  <2> SUFFICES ASSUME NEW a \in Recent
               PROVE  Total(passed, 0 .. a) <= Total(entries', 0 .. a + Delay)
    BY DEF Matched
  <2>1. /\ IsFiniteSet(0 .. a + Delay)
        /\ 0 .. a + Delay \subseteq 0 .. Window - 1
        /\ 0 .. a \in SUBSET Recent
    BY AgesAreNumbers, AgesFinite DEF Recent
  <2>2. \A b \in 0 .. a + Delay :
          entries[b] \in 0 .. MaxRequests /\ entries'[b] \in 0 .. MaxRequests
    BY <2>1, AgesAreNumbers DEF LimiterTypeOK
  <2>3. \A b \in 0 .. a + Delay : entries[b] \in Nat /\ entries[b] <= entries'[b]
    BY <2>1, <2>2
  <2>4. Total(entries, 0 .. a + Delay) <= Total(entries', 0 .. a + Delay)
    BY <2>1, <2>2, <2>3, TotalGrows
  <2>5. Total(entries, 0 .. a + Delay) \in Nat /\ Total(entries', 0 .. a + Delay) \in Nat
    BY <2>1, <2>2, UnitsFinite
  <2>6. Total(passed, 0 .. a) \in Nat
    BY <2>1, PassedFinite
  <2>7. Total(passed, 0 .. a) <= Total(entries, 0 .. a + Delay)
    BY DEF Matched
  <2> QED
    BY <2>4, <2>5, <2>6, <2>7
<1> QED
  BY <1>1, <1>2, <1>3

\* What passed and is recent is in the window of every request, and is counted.
LEMMA PassedIsCounted ==
  ASSUME LimiterInv, NEW d \in 0 .. Delay
  PROVE  Total(passed, Recent) <= Total(Kept(d), Ages)
<1> DEFINE last == Window - Delay - 1
<1> USE DEF LimiterInv
<1>1. /\ last \in Recent /\ Recent = 0 .. last /\ last + Delay = Window - 1
      /\ 0 .. Window - 1 \subseteq Ages
  BY AgesAreNumbers DEF Recent
<1> HIDE DEF last
<1>2. Total(passed, Recent) <= Total(entries, 0 .. Window - 1)
  BY <1>1 DEF Matched
<1>3. Kept(d) \in [Ages -> 0 .. MaxRequests]
  BY KeptInWindow
<1>4. \A a \in 0 .. Window - 1 : entries[a] \in 0 .. MaxRequests /\ entries[a] = Kept(d)[a]
  BY <1>1, KeptInWindow DEF LimiterTypeOK
<1>5. IsFiniteSet(Ages) /\ IsFiniteSet(0 .. Window - 1)
  BY AgesFinite
<1>6. \A a \in 0 .. Window - 1 : entries[a] \in Nat /\ entries[a] <= Kept(d)[a]
  BY <1>4
<1>7. \A a \in Ages : Kept(d)[a] \in 0 .. MaxRequests
  BY <1>3
<1>8. Total(entries, 0 .. Window - 1) <= Total(Kept(d), Ages)
  BY <1>1, <1>5, <1>6, <1>7, TotalGrows
<1>9. Total(entries, 0 .. Window - 1) \in Nat /\ Total(Kept(d), Ages) \in Nat
  BY <1>4, <1>5, <1>7, UnitsFinite
<1>10. Total(passed, Recent) \in Nat
  BY PassedFinite
<1> QED
  BY <1>2, <1>8, <1>9, <1>10

\* A request that is counted and not refused.
LEMMA OnePasses ==
  ASSUME LimiterInv, NEW d \in 0 .. Delay, Counted(d), ~Limited(d), UNCHANGED production,
         passed' = [passed EXCEPT ![0] = Capped(@ + 1, MaxRequests + 1)]
  PROVE  LimiterInv'
<1> USE DEF LimiterInv
<1>1. /\ Kept(d) \in [Ages -> 0 .. MaxRequests] /\ d \in Ages /\ 0 \in Recent
      /\ IsFiniteSet(Ages) /\ IsFiniteSet(Recent)
      /\ \A a \in Ages : Kept(d)[a] \in 0 .. MaxRequests
  BY KeptInWindow, AgesAreNumbers, AgesFinite
<1>2. Total(Kept(d), Ages) \in Nat /\ Total(Kept(d), Ages) < MaxRequests
  <2>1. Total(Kept(d), Ages) \in Nat
    BY <1>1, UnitsFinite
  <2> QED
    BY <2>1 DEF Limited
<1>3. Total(passed, Recent) < MaxRequests
  BY <1>2, PassedFinite, PassedIsCounted
<1>4. \A a \in Recent : passed[a] \in 0 .. MaxRequests + 1
  BY DEF LimiterTypeOK
<1>5. passed[0] < MaxRequests
  <2>1. MaxRequests + 1 \in Nat /\ passed[0] \in Nat
    BY <1>1, <1>4
  <2>2. passed[0] <= Total(passed, Recent)
    BY <1>1, <1>4, <2>1, TotalAtLeast
  <2> QED
    BY <1>3, <2>1, <2>2, PassedFinite
<1>6. Kept(d)[d] < MaxRequests
  <2>1. IsFiniteSet(Ages) /\ d \in Ages /\ \A a \in Ages : Kept(d)[a] \in 0 .. MaxRequests
    BY <1>1
  <2>2. Kept(d)[d] <= Total(Kept(d), Ages)
    BY <2>1, TotalAtLeast
  <2> QED
    BY <1>2, <2>1, <2>2
<1>7. passed' = [passed EXCEPT ![0] = @ + 1]
  <2>1. Capped(passed[0] + 1, MaxRequests + 1) = passed[0] + 1
    BY <1>1, <1>4, <1>5 DEF Capped
  <2> QED
    BY <2>1
<1>8. entries' = [Kept(d) EXCEPT ![d] = @ + 1]
  <2>1. Capped(Kept(d)[d] + 1, MaxRequests) = Kept(d)[d] + 1
    BY <1>1, <1>6 DEF Capped
  <2> QED
    BY <2>1 DEF Counted
<1>9. LimiterTypeOK'
  BY <1>1, <1>5, <1>6, <1>7, <1>8 DEF LimiterTypeOK
<1>10. ASSUME NEW ages \in SUBSET Recent, 0 \in ages
       PROVE  Total(passed', ages) = Total(passed, ages) + 1
  <2>1. IsFiniteSet(ages) /\ \A a \in ages : passed[a] \in 0 .. MaxRequests + 1
    BY <1>1, <1>4, FS_Subset
  <2>2. OneMore(passed, passed', 0, ages)
    BY <1>1, <1>7, <1>10 DEF LimiterTypeOK, OneMore
  <2>3. MaxRequests + 1 \in Nat
    OBVIOUS
  <2> QED
    BY <1>10, <2>1, <2>2, <2>3, TotalAdds
<1>11. WindowRespected'
  <2>1. Total(passed', Recent) = Total(passed, Recent) + 1
    BY <1>1, <1>10
  <2>2. Total(passed, Recent) \in Nat
    BY PassedFinite
  <2> QED
    BY <1>3, <2>1, <2>2 DEF WindowRespected
<1>12. Matched'
  <2> SUFFICES ASSUME NEW a \in Recent
               PROVE  Total(passed', 0 .. a) <= Total(entries', 0 .. a + Delay)
    BY DEF Matched
  <2>1. /\ IsFiniteSet(0 .. a + Delay) /\ d \in 0 .. a + Delay
        /\ 0 .. a + Delay \subseteq 0 .. Window - 1
        /\ 0 .. a + Delay \in SUBSET Ages
        /\ 0 .. a \in SUBSET Recent /\ 0 \in 0 .. a
    BY AgesAreNumbers, AgesFinite DEF Recent
  <2>2. Total(passed', 0 .. a) = Total(passed, 0 .. a) + 1
    BY <1>10, <2>1
  <2>3. \A b \in 0 .. a + Delay : Kept(d)[b] = entries[b] /\ Kept(d)[b] \in 0 .. MaxRequests
    BY <1>1, <2>1, KeptInWindow
  <2>4. Units(Kept(d), 0 .. a + Delay) = Units(entries, 0 .. a + Delay)
    BY <2>3 DEF Units
  <2>5. OneMore(Kept(d), entries', d, 0 .. a + Delay)
    BY <1>1, <1>8, <2>1 DEF OneMore
  <2>6. Total(entries', 0 .. a + Delay) = Total(Kept(d), 0 .. a + Delay) + 1
    <3> DEFINE far == 0 .. a + Delay
               kept == Kept(d)
    <3>1. /\ IsFiniteSet(far) /\ d \in far /\ \A b \in far : kept[b] \in 0 .. MaxRequests
      BY <2>1, <2>3
    <3>2. OneMore(kept, entries', d, far) /\ MaxRequests \in Nat
      BY <2>5
    <3> HIDE DEF far, kept
    <3>3. Total(entries', far) = Total(kept, far) + 1
      BY <3>1, <3>2, TotalAdds
    <3> QED
      BY <3>3 DEF far, kept
  <2>7. Total(Kept(d), 0 .. a + Delay) = Total(entries, 0 .. a + Delay)
    BY <2>4 DEF Total
  <2>8. Total(passed, 0 .. a) <= Total(entries, 0 .. a + Delay)
    BY DEF Matched
  <2>9. Total(Kept(d), 0 .. a + Delay) \in Nat /\ Total(passed, 0 .. a) \in Nat
    BY <2>1, <2>3, UnitsFinite, PassedFinite
  <2> QED
    BY <2>2, <2>6, <2>7, <2>8, <2>9
<1> QED
  BY <1>9, <1>11, <1>12

\* Time takes requests out of the window.
LEMMA WindowMoves ==
  ASSUME LimiterInv, TimePasses, UNCHANGED production
  PROVE  LimiterInv'
<1> USE DEF LimiterInv
<1>1. LimiterTypeOK'
  <2>1. \A a \in Ages \ {0} : a - 1 \in Ages
    BY DEF Ages
  <2>2. \A a \in Recent \ {0} : a - 1 \in Recent
    BY DEF Recent
  <2>3. entries' \in [Ages -> 0 .. MaxRequests]
    BY <2>1 DEF LimiterTypeOK, TimePasses, Older
  <2>4. passed' \in [Recent -> 0 .. MaxRequests + 1]
    BY <2>2 DEF LimiterTypeOK, TimePasses, Older
  <2> QED
    BY <2>3, <2>4 DEF LimiterTypeOK
<1> DEFINE last == Window - Delay - 1
           end == Window + Delay - 1
<1>2. last \in Nat /\ Recent = 0 .. last /\ end \in Nat /\ Ages = 0 .. end
  BY DEF Recent, Ages
<1>3. MaxRequests + 1 \in Nat
  OBVIOUS
<1> HIDE DEF last, end
<1>4. ASSUME NEW a \in Recent PROVE Total(passed', 0 .. a) = Total(passed, 0 .. a - 1)
  <2>1. passed \in [0 .. last -> 0 .. MaxRequests + 1] /\ a \in 0 .. last
    BY <1>2 DEF LimiterTypeOK
  <2>2. passed' = Older(passed)
    BY DEF TimePasses
  <2> QED
    BY <1>2, <1>3, <2>1, <2>2, TotalAges
<1>5. ASSUME NEW a \in Ages PROVE Total(entries', 0 .. a) = Total(entries, 0 .. a - 1)
  <2>1. entries \in [0 .. end -> 0 .. MaxRequests] /\ a \in 0 .. end
    BY <1>2 DEF LimiterTypeOK
  <2>2. entries' = Older(entries)
    BY DEF TimePasses
  <2> QED
    BY <1>2, <2>1, <2>2, TotalAges
<1>6. WindowRespected'
  <2>1. Total(passed', Recent) = Total(passed, 0 .. last - 1)
    BY <1>2, <1>4
  <2>2. 0 .. last - 1 \in SUBSET Recent /\ IsFiniteSet(Recent)
    BY <1>2, AgesFinite
  <2>3. \A a \in Recent : passed[a] \in 0 .. MaxRequests + 1
    BY DEF LimiterTypeOK
  <2>4. Total(passed, 0 .. last - 1) <= Total(passed, Recent)
    <3>1. \A a \in 0 .. last - 1 : passed[a] \in Nat /\ passed[a] <= passed[a]
      BY <2>2, <2>3
    <3> QED
      BY <1>3, <2>2, <2>3, <3>1, TotalGrows
  <2>5. Total(passed, 0 .. last - 1) \in Nat /\ Total(passed, Recent) \in Nat
    BY <2>2, PassedFinite
  <2> QED
    BY <2>1, <2>4, <2>5 DEF WindowRespected
<1>7. Matched'
  <2> SUFFICES ASSUME NEW a \in Recent
               PROVE  Total(passed', 0 .. a) <= Total(entries', 0 .. a + Delay)
    BY DEF Matched
  <2>1. /\ a \in Nat /\ a + Delay \in Ages /\ a + Delay - 1 = (a - 1) + Delay
        /\ 0 .. a - 1 \in SUBSET Recent /\ 0 .. (a - 1) + Delay \in SUBSET Ages
    BY DEF Recent, Ages
  <2>2. /\ Total(passed', 0 .. a) = Total(passed, 0 .. a - 1)
        /\ Total(entries', 0 .. a + Delay) = Total(entries, 0 .. (a - 1) + Delay)
    BY <1>4, <1>5, <2>1
  <2>3. CASE a = 0
    <3>1. Units(passed, 0 .. a - 1) = {}
      BY <2>3 DEF Units
    <3>2. Total(passed, 0 .. a - 1) = 0
      BY <3>1, FS_EmptySet DEF Total
    <3>3. /\ IsFiniteSet(0 .. (a - 1) + Delay)
          /\ \A b \in 0 .. (a - 1) + Delay : entries[b] \in 0 .. MaxRequests
      BY <2>1, AgesFinite DEF LimiterTypeOK
    <3>4. Total(entries, 0 .. (a - 1) + Delay) \in Nat
      BY <3>3, UnitsFinite
    <3> QED
      BY <2>2, <3>2, <3>4
  <2>4. CASE a # 0
    <3>1. a - 1 \in Recent
      BY <2>1, <2>4 DEF Recent
    <3> QED
      BY <2>2, <3>1 DEF Matched
  <2> QED
    BY <2>3, <2>4
<1> QED
  BY <1>1, <1>6, <1>7

LEMMA LimiterStutters ==
  ASSUME LimiterInv, UNCHANGED <<production, limiter>>
  PROVE  LimiterInv'
BY DEF limiter, LimiterInv, LimiterTypeOK, WindowRespected, Matched

LEMMA LimiterKeeps ==
  ASSUME LimiterInv, LimiterNext
  PROVE  LimiterInv'
<1> USE DEF LimiterInv
<1>1. ASSUME UNCHANGED <<production, limiter>> PROVE LimiterInv'
  BY <1>1, LimiterStutters
<1>2. ASSUME NEW d \in 0 .. Delay, Counted(d), UNCHANGED <<passed, production>>
      PROVE  LimiterInv'
  BY <1>2, CountedType, MoreEntries
<1>3. CASE Passes
  BY <1>1, <1>2, <1>3, OnePasses DEF Passes, LimiterNext, limiter
<1>4. CASE Refused
  BY <1>2, <1>4 DEF Refused, LimiterNext
<1>5. CASE TimePasses
  BY <1>5, WindowMoves DEF LimiterNext
<1>6. CASE KeyExpires
  <2>1. \A a \in 0 .. Window - 1 : a \in Ages
    BY AgesAreNumbers
  <2>2. /\ entries' \in [Ages -> 0 .. MaxRequests]
        /\ \A a \in 0 .. Window - 1 : entries[a] <= entries'[a]
    BY <1>6, <2>1 DEF KeyExpires
  <2> QED
    BY <1>6, <2>2, MoreEntries DEF KeyExpires, LimiterNext
<1> QED
  BY <1>3, <1>4, <1>5, <1>6 DEF LimiterNext

\* For every window, delay and limit, and whoever sends the requests.
THEOREM WindowAlwaysRespected == LimiterSpec => []WindowRespected
<1>1. LimiterInv /\ [LimiterNext]_<<production, limiter>> => LimiterInv'
  BY LimiterStutters, LimiterKeeps
<1>2. LimiterInv => WindowRespected
  BY DEF LimiterInv
<1> QED
  BY <1>1, <1>2, LimiterStarts, PTL DEF LimiterSpec

-----------------------------------------------------------------------------
(* The tabs of a user.                                                     *)

\* Whatever a tab does, the limiter sees a request, time or nothing.
LEMMA PagesStepLimits ==
  ASSUME [PagesNext]_pagesVars
  PROVE  [LimiterNext]_<<production, limiter>>
<1> USE DEF LimiterNext, deployment
<1>1. ASSUME NEW t \in Tabs, PageStep(t)
      PROVE  [LimiterNext]_<<production, limiter>>
  BY <1>1 DEF PageStep, InlineReply, Poll, PollRefused
<1>2. ASSUME NEW t \in Tabs, Generate(t) \/ GenerateRefused(t) \/ Breaks(t) \/ JobRuns(t)
      PROVE  [LimiterNext]_<<production, limiter>>
  BY <1>2 DEF Generate, GenerateRefused, Breaks, JobRuns
<1>3. CASE Tick \/ Expires
  BY <1>3 DEF Tick, Expires
<1>4. CASE UNCHANGED pagesVars
  BY <1>4 DEF pagesVars
<1> QED
  BY <1>1, <1>2, <1>3, <1>4 DEF PagesNext

\* The requests of any number of tabs are requests to the limiter.
THEOREM PagesAreLimited == PagesSpec => LimiterSpec
<1>1. PagesInit => LimiterInit
  BY DEF PagesInit
<1> QED
  BY <1>1, PagesStepLimits, PTL DEF PagesSpec, LimiterSpec

\* ... and respect its window.
THEOREM PagesRespectWindow == PagesSpec => []WindowRespected
BY PagesAreLimited, WindowAlwaysRespected, PTL

LEMMA LimiterTypeStays == LimiterSpec => []LimiterTypeOK
<1>1. LimiterInv /\ [LimiterNext]_<<production, limiter>> => LimiterInv'
  BY LimiterStutters, LimiterKeeps
<1>2. LimiterInv => LimiterTypeOK
  BY DEF LimiterInv
<1> QED
  BY <1>1, <1>2, LimiterStarts, PTL DEF LimiterSpec

\* The type of the variables of the page alone.
TabsOK ==
  /\ celery \in BOOLEAN
  /\ page \in [Tabs -> {"idle"} \cup Busy \cup Ended]
  /\ attempts \in [Tabs -> 0 .. MaxAttempts]
  /\ timer \in [Tabs -> {0, 1}]
  /\ job \in [Tabs -> {"none", "pending", "processing", "completed", "failed"}]
  /\ \A t \in Tabs : page[t] \in Busy => attempts[t] < MaxAttempts

LEMMA TabsStep ==
  ASSUME TabsOK, [PagesNext]_pagesVars
  PROVE  TabsOK'
<1> USE DEF TabsOK, Busy, Ended, deployment, tabs
<1>1. ASSUME NEW t \in Tabs, Generate(t) PROVE TabsOK'
  BY <1>1 DEF Generate, Show
<1>2. ASSUME NEW t \in Tabs,
             GenerateRefused(t) \/ Breaks(t) \/ InlineReply(t) \/ PollRefused(t)
      PROVE  TabsOK'
  BY <1>2 DEF GenerateRefused, Breaks, InlineReply, PollRefused, Show
<1>3. ASSUME NEW t \in Tabs, Poll(t) PROVE TabsOK'
  <2>1. attempts[t] + 1 \in 0 .. MaxAttempts
    BY <1>3 DEF Poll, Due
  <2>2. CASE attempts' = attempts
    BY <1>3, <2>2 DEF Poll, Show
  <2>3. CASE attempts' = [attempts EXCEPT ![t] = @ + 1]
    BY <1>3, <2>1, <2>3 DEF Poll, Show
  <2> QED
    BY <1>3, <2>2, <2>3 DEF Poll
<1>4. ASSUME NEW t \in Tabs, JobRuns(t) PROVE TabsOK'
  BY <1>4 DEF JobRuns
<1>5. CASE Tick \/ Expires
  BY <1>5 DEF Tick, Expires
<1>6. CASE UNCHANGED pagesVars
  BY <1>6 DEF pagesVars
<1> QED
  BY <1>1, <1>2, <1>3, <1>4, <1>5, <1>6 DEF PagesNext, PageStep

\* The variables of the page keep their types, and a page that polls has
\* attempts left.
THEOREM PagesTypeCorrect == PagesSpec => []PagesTypeOK
<1>1. PagesInit => TabsOK
  BY DEF PagesInit, TabsOK, Busy, Ended
<1>2. LimiterTypeOK /\ TabsOK => PagesTypeOK
  BY DEF PagesTypeOK, TabsOK
<1>3. PagesSpec => []TabsOK
  BY <1>1, TabsStep, PTL DEF PagesSpec
<1> QED
  BY <1>2, <1>3, PagesAreLimited, LimiterTypeStays, PTL

=============================================================================
