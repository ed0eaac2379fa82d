------------------------------ MODULE Accounts ------------------------------
(***************************************************************************)
(* Sessions (auth/service.py, auth/router.py) and the Stripe customers of  *)
(* checkout (api/routes/billing.py).  A request is one transaction; pc[h]  *)
(* names what request h does next:                                         *)
(*                                                                         *)
(*   register   signup, after it looked for the e-mail                     *)
(*   rotate     refresh, after it chose the record to revoke               *)
(*   commit     login or refresh, with its new record flushed              *)
(*   replied    the same, after the reply left (see Reply)                 *)
(*   create     checkout, after it read that the user has no customer      *)
(*   store      checkout, after Stripe made one                            *)
(*                                                                         *)
(* Records of refresh tokens are numbered in the order of created_at.      *)
(* The clients are clients of the API: the frontend keeps the access token *)
(* only (lib/token-store.ts) and its refreshTokens posts no body, which    *)
(* the route refuses.                                                      *)
(***************************************************************************)
EXTENDS Integers, FiniteSets

CONSTANTS
  Users,         \* people, each with an e-mail address of their own
  Clients,       \* each of which holds the tokens of one user at most
  Handlers,      \* requests served at one time
  RecordDays,    \* days a record lasts: 7
  TokenDays,     \* days a refresh token lasts: the setting refresh_token_expire_days
  MaxDay,        \* bound: days
  MaxRecords,    \* bound: records flushed
  MaxCustomers,  \* bound: customers made for one user
  None

ASSUME AccountsAssumption ==
  /\ None \notin Users \cup Clients /\ None \notin Nat
  /\ IsFiniteSet(Handlers) /\ Handlers # {}
  /\ RecordDays \in Nat \ {0} /\ TokenDays \in Int
  /\ MaxDay \in Nat /\ MaxRecords \in Nat /\ MaxCustomers \in Nat

VARIABLES
  today,
  registered,   \* users with a row, and with it a subscription
  flushed,      \* how many records were ever flushed
  owner,        \* owner[r]: user_id of record r, None while there is none
  born,         \* born[r]: the day record r was made
  stored,       \* records committed
  revoked,      \* records committed as revoked
  token,        \* token[c]: the refresh token of client c, or None
  customer,     \* customer[u]: stripe_customer_id, or None
  made,         \* made[u]: customers Stripe made for u; their ids are 1 .. made[u]
  lost,         \* lost[u]: of those, the ones whose request ended before its commit
  pc, client, user,  \* where request h is, whose it is, and for which account
  found,        \* found[h]: the record it revokes, or None
  fresh         \* fresh[h]: the record or customer it made

records == <<flushed, owner, born, stored, revoked>>
billing == <<customer, made, lost>>
requestVars == <<pc, client, user, found, fresh>>
vars == <<today, registered, records, token, billing, requestVars>>

Records == 1 .. MaxRecords

\* A request with a record flushed and not committed.
Committing == {"commit", "replied"}

\* record is the record that was made with the token, None for a signup's.  The
\* code knows no such link: it is kept for the property.
Tokens == [user : Users, issued : 0 .. MaxDay, record : Records \cup {None}]

Init ==
  /\ today = 0
  /\ registered = {}
  /\ flushed = 0
  /\ owner = [r \in Records |-> None]
  /\ born = [r \in Records |-> 0]
  /\ stored = {} /\ revoked = {}
  /\ token = [c \in Clients |-> None]
  /\ customer = [u \in Users |-> None]
  /\ made = [u \in Users |-> 0]
  /\ lost = [u \in Users |-> 0]
  /\ pc = [h \in Handlers |-> "idle"]
  /\ client = [h \in Handlers |-> None]
  /\ user = [h \in Handlers |-> None]
  /\ found = [h \in Handlers |-> None]
  /\ fresh = [h \in Handlers |-> None]

-----------------------------------------------------------------------------
Begin(h, c, u, step) ==
  /\ pc[h] = "idle"
  /\ pc' = [pc EXCEPT ![h] = step]
  /\ client' = [client EXCEPT ![h] = c]
  /\ user' = [user EXCEPT ![h] = u]

Forget(h) ==
  /\ pc' = [pc EXCEPT ![h] = "idle"]
  /\ client' = [client EXCEPT ![h] = None]
  /\ user' = [user EXCEPT ![h] = None]
  /\ found' = [found EXCEPT ![h] = None]
  /\ fresh' = [fresh EXCEPT ![h] = None]

\* A reply with a token of the given day reaches the client, or is lost.
Replied(h, day, record) ==
  \/ token' = [token EXCEPT ![client[h]] =
                 [user |-> user[h], issued |-> day, record |-> record]]
  \/ UNCHANGED token

\* The flush of a new record of u.
NewRecord(h, u) ==
  /\ flushed < MaxRecords
  /\ flushed' = flushed + 1
  /\ owner' = [owner EXCEPT ![flushed + 1] = u]
  /\ born' = [born EXCEPT ![flushed + 1] = today]
  /\ fresh' = [fresh EXCEPT ![h] = flushed + 1]
  /\ UNCHANGED <<stored, revoked>>

Unexpired(r) == today < born[r] + RecordDays

\* Mutant: the records of transactions that have not committed count, too.
LiveOrFlushed(u) == {r \in Records \ revoked : owner[r] = u /\ Unexpired(r)}

\* The records a refresh for u chooses from.
Live(u) == {r \in stored \ revoked : owner[r] = u /\ Unexpired(r)}

\* jwt.decode accepts the refresh token of client c.
Accepted(c) == token[c] # None /\ today < token[c].issued + TokenDays

Loggedin(c, u) == token[c] # None /\ token[c].user = u

-----------------------------------------------------------------------------
(* Sessions.                                                               *)

Signup(h, c, u) ==
  /\ u \notin registered
  /\ Begin(h, c, u, "register")
  /\ UNCHANGED <<today, registered, records, token, billing, found, fresh>>

\* users.email is unique: the second of two flushes fails.  Tokens are issued,
\* but no record is stored.
SignupCommits(h) ==
  /\ pc[h] = "register"
  /\ user[h] \notin registered
  /\ registered' = registered \cup {user[h]}
  /\ Replied(h, today, None)
  /\ Forget(h)
  /\ UNCHANGED <<today, records, billing>>

Login(h, c, u) ==
  /\ u \in registered
  /\ Begin(h, c, u, "commit")
  /\ NewRecord(h, u)
  /\ UNCHANGED <<today, registered, token, billing, found>>

\* The most recent record of the user, whichever client it was made for.
Refresh(h, c) ==
  /\ Accepted(c)
  /\ Begin(h, c, token[c].user, "rotate")
  /\ \E r \in Live(token[c].user) :
       /\ \A s \in Live(token[c].user) : s <= r
       /\ found' = [found EXCEPT ![h] = r]
  /\ UNCHANGED <<today, registered, records, token, billing, fresh>>

\* The UPDATE waits for a transaction that revokes the same record, and then
\* revokes it again.
Rotate(h) ==
  /\ pc[h] = "rotate"
  /\ ~ \E g \in Handlers : pc[g] \in Committing /\ found[g] = found[h]
  /\ NewRecord(h, user[h])
  /\ pc' = [pc EXCEPT ![h] = "commit"]
  /\ UNCHANGED <<today, registered, token, billing, client, user, found>>

\* The token of the new record.  A refresh makes both at once; login discards the
\* token of its record and issues another one after the flush.
Issues(h) ==
  \E day \in born[fresh[h]] .. today :
    /\ found[h] # None => day = born[fresh[h]]
    /\ Replied(h, day, fresh[h])

\* Which comes first, the reply or the commit of get_session, depends on the
\* release of FastAPI (pyproject.toml only asks for 0.115 or later).
Reply(h) ==
  /\ pc[h] = "commit"
  /\ Issues(h)
  /\ pc' = [pc EXCEPT ![h] = "replied"]
  /\ UNCHANGED <<today, registered, records, billing, client, user, found, fresh>>

\* Mutant: the record of a refresh is never added.
CommitDropsRecord(h) ==
  /\ pc[h] \in Committing
  /\ stored' = stored \cup IF found[h] = None THEN {fresh[h]} ELSE {}
  /\ revoked' = revoked \cup ({found[h]} \ {None})
  /\ IF pc[h] = "commit" THEN Issues(h) ELSE UNCHANGED token
  /\ Forget(h)
  /\ UNCHANGED <<today, registered, flushed, owner, born, billing>>

\* Revocation and new record become visible together.
Commit(h) ==
  /\ pc[h] \in Committing
  /\ stored' = stored \cup {fresh[h]}
  /\ revoked' = revoked \cup ({found[h]} \ {None})
  /\ IF pc[h] = "commit" THEN Issues(h) ELSE UNCHANGED token
  /\ Forget(h)
  /\ UNCHANGED <<today, registered, flushed, owner, born, billing>>

\* Logout asks for the access token, and hands it to revoke_refresh_token, which
\* refuses it: no record is revoked, and only the client forgets its tokens.
Logout(c) ==
  /\ token[c] # None
  /\ token' = [token EXCEPT ![c] = None]
  /\ UNCHANGED <<today, registered, records, billing, requestVars>>

-----------------------------------------------------------------------------
(* Checkout, of a subscription or of a bundle.                             *)

\* A user who has a customer goes on to Stripe with it, and nothing changes.
Checkout(h, c, u) ==
  /\ Loggedin(c, u)
  /\ customer[u] = None
  /\ Begin(h, c, u, "create")
  /\ UNCHANGED <<today, registered, records, token, billing, found, fresh>>

CreateCustomer(h) ==
  /\ pc[h] = "create"
  /\ made[user[h]] < MaxCustomers
  /\ made' = [made EXCEPT ![user[h]] = @ + 1]
  /\ fresh' = [fresh EXCEPT ![h] = made[user[h]] + 1]
  /\ pc' = [pc EXCEPT ![h] = "store"]
  /\ UNCHANGED <<today, registered, records, token, customer, lost, client, user, found>>

\* Mutant: the commit is forgotten.
StoreNothing(h) ==
  /\ pc[h] = "store"
  /\ Forget(h)
  /\ UNCHANGED <<today, registered, records, token, billing>>

\* Also over a customer another checkout stored in between.
StoreCustomer(h) ==
  /\ pc[h] = "store"
  /\ customer' = [customer EXCEPT ![user[h]] = fresh[h]]
  /\ Forget(h)
  /\ UNCHANGED <<today, registered, records, token, made, lost>>

-----------------------------------------------------------------------------
\* A statement or Stripe fails, or the process dies: the transaction leaves
\* nothing, but a customer that was made stays with Stripe.
Fails(h) ==
  /\ pc[h] # "idle"
  /\ lost' = IF pc[h] = "store" THEN [lost EXCEPT ![user[h]] = @ + 1] ELSE lost
  /\ Forget(h)
  /\ UNCHANGED <<today, registered, records, token, customer, made>>

NextDay ==
  /\ today < MaxDay
  /\ today' = today + 1
  /\ UNCHANGED <<registered, records, token, billing, requestVars>>

Next ==
  \/ \E h \in Handlers :
       \/ SignupCommits(h) \/ Rotate(h) \/ Reply(h) \/ Commit(h)
       \/ CreateCustomer(h) \/ StoreCustomer(h) \/ Fails(h)
       \/ \E c \in Clients :
            \/ Refresh(h, c)
            \/ \E u \in Users : Signup(h, c, u) \/ Login(h, c, u) \/ Checkout(h, c, u)
  \/ \E c \in Clients : Logout(c)
  \/ NextDay

Spec == Init /\ [][Next]_vars

-----------------------------------------------------------------------------
(* Properties.                                                             *)

Steps == {"idle", "register", "rotate", "commit", "replied", "create", "store"}

\* Every variable has its type, what is revoked was stored and what is stored
\* was flushed, and a request holds what its next statement needs.
TypeOK ==
  /\ today \in 0 .. MaxDay
  /\ registered \subseteq Users
  /\ flushed \in 0 .. MaxRecords
  /\ owner \in [Records -> Users \cup {None}]
  /\ born \in [Records -> 0 .. MaxDay]
  /\ stored \subseteq 1 .. flushed /\ revoked \subseteq stored
  /\ token \in [Clients -> Tokens \cup {None}]
  /\ customer \in [Users -> (1 .. MaxCustomers) \cup {None}]
  /\ made \in [Users -> 0 .. MaxCustomers]
  /\ lost \in [Users -> Nat]
  /\ pc \in [Handlers -> Steps]
  /\ client \in [Handlers -> Clients \cup {None}]
  /\ user \in [Handlers -> Users \cup {None}]
  /\ found \in [Handlers -> Records \cup {None}]
  /\ fresh \in [Handlers -> Nat \cup {None}]
  /\ \A h \in Handlers :
       /\ pc[h] # "idle" => client[h] \in Clients /\ user[h] \in Users
       /\ pc[h] = "rotate" => found[h] \in stored
       /\ pc[h] \in Committing => fresh[h] \in (1 .. flushed) \ stored
       /\ pc[h] = "store" => fresh[h] \in 1 .. made[user[h]]

\* Refreshing revokes the user's most recent record, which need not be the
\* record of the token that was sent: whatever clients refresh one after the
\* other or at once, whatever replies are lost and requests die, a client finds
\* a record to refresh with as long as the one that was stored with its token
\* is not expired.  (A signup stores none, and a commit may fail after the
\* reply; whether the token itself is still accepted is a matter of a setting.)
EveryClientCanRefresh ==
  \A c \in Clients :
    token[c] # None /\ token[c].record \in stored /\ Unexpired(token[c].record)
      => Live(token[c].user) # {}

\* Checkout looks for the customer and stores it in two statements: n checkouts
\* at a time make a user at most n customers, besides those whose request died
\* before it stored them.  The one that is stored is one of them.
CustomersBounded ==
  \A u \in Users :
    /\ made[u] <= Cardinality(Handlers) + lost[u]
    /\ customer[u] # None => customer[u] \in 1 .. made[u]

=============================================================================
