------------------------------ MODULE Sessions ------------------------------
(***************************************************************************)
(* The session store of examples/customer_service/app.py: a bounded table  *)
(* of conversations, each behind an asyncio.Lock, that expire when they    *)
(* are not used.  A chat works on a copy of the conversation while it      *)
(* waits for the classifier and replaces the conversation at the end; its  *)
(* deadline covers the wait for the lock too.                              *)
(*                                                                         *)
(* A session is named after the request that created it.  A conversation   *)
(* is the chats committed since the last reset.                            *)
(***************************************************************************)
EXTENDS Integers, Sequences, FiniteSets, SequencesExt

CONSTANTS Chats, Resets, Reads,    \* POST /api/chat, POST /api/reset, GET /api/session
          MaxSessions

Requests == Chats \cup Resets \cup Reads
NoCookie == "none"

ASSUME KindsAssumption ==
  /\ Chats \cap (Resets \cup Reads) = {} /\ Resets \cap Reads = {}
  /\ NoCookie \notin Requests
ASSUME RoomAssumption == MaxSessions \in Nat \ {0}
(* At any time finitely many requests have come. *)
ASSUME FinitelyManyAssumption == IsFiniteSet(Requests)

VARIABLES
  table,      \* sessions
  old,        \* those whose last access is longer ago than ttl
  handed,     \* cookies that a response has carried
  log,        \* log[s]: the conversation of session s
  at,         \* at[r]: where the handler of request r is
  of,         \* of[r]: the session object that r was given
  asked,      \* chats cancelled by their deadline that have not met it yet
  work,       \* work[r]: the copy that chat r works on
  waiters,    \* waiters[s]: the queue of the lock of s
  outcome,    \* outcome[r]: "ok", "failed" or "full" once r is done
  story       \* story[s]: every committed chat and reset of s (history)

vars == <<table, old, handed, log, at, of, asked, work, waiters, outcome, story>>
storeVars == <<table, handed, of>>
turnVars  == <<log, work, outcome, story>>

Inside(s) == {r \in Requests : of[r] = s /\ at[r] \in {"waiting", "woken", "turn"}}

Init ==
  /\ table = {} /\ old = {} /\ handed = {}
  /\ log = [s \in Requests |-> <<>>]
  /\ at = [r \in Requests |-> "new"]
  /\ of = [r \in Requests |-> NoCookie]
  /\ asked = {}
  /\ work = [r \in Requests |-> <<>>]
  /\ waiters = [s \in Requests |-> <<>>]
  /\ outcome = [r \in Requests |-> "none"]
  /\ story = [s \in Requests |-> <<>>]

-----------------------------------------------------------------------------
(* asyncio.Lock: it is taken by a running turn only, since the other       *)
(* handlers do not suspend while they hold it.                             *)

Locked(s) == \E r \in Requests : at[r] = "turn" /\ of[r] = s

(* A newcomer passes over waiters whose futures are cancelled: not over a  *)
(* woken one, even if its deadline has come since.                         *)
Free(s) ==
  /\ ~Locked(s)
  /\ \A i \in DOMAIN waiters[s] : waiters[s][i] \in asked /\ at[waiters[s][i]] = "waiting"

(* The head of the queue is woken unless it is, or was cancelled. *)
Next1(q) == IF q # <<>> /\ at[Head(q)] = "waiting" /\ Head(q) \notin asked THEN {Head(q)} ELSE {}

Leave(r, place, q) ==
  at' = [x \in Requests |-> IF x = r THEN place ELSE IF x \in Next1(q) THEN "woken" ELSE at[x]]

Answer(r, o) == outcome' = [outcome EXCEPT ![r] = o]

(* Request r of session s gets the lock; q waits behind it.  A chat begins *)
(* its turn with a copy, the others do their work and leave.               *)
Obtain(r, s, q) ==
  \/ /\ r \in Chats
     /\ at' = [at EXCEPT ![r] = "turn"]
     /\ work' = [work EXCEPT ![r] = log[s]]
     /\ UNCHANGED <<log, story, outcome, handed>>
  \/ /\ r \notin Chats
     /\ Leave(r, "done", q) /\ Answer(r, "ok")
     /\ log' = [log EXCEPT ![s] = IF r \in Resets THEN <<>> ELSE @]
     /\ story' = [story EXCEPT ![s] = IF r \in Resets THEN Append(@, r) ELSE @]
     /\ handed' = handed \cup {s}
     /\ UNCHANGED work

-----------------------------------------------------------------------------
(* session(): the expired sessions that are not locked are dropped, then   *)
(* the one of the cookie is used or a new one is made.                     *)

Unexpired == table \ old    \* mutant: expires under a running turn
Kept == {s \in table : s \notin old \/ Locked(s)}

HasRoomForOneMore == Cardinality(Kept) <= MaxSessions    \* mutant: off by one
HasRoom           == Cardinality(Kept) < MaxSessions

Accessed(s) == (old \cap Kept) \ {s}

(* Request r is given session s, and goes for its lock. *)
Use(r, s) ==
  /\ of' = [of EXCEPT ![r] = s]
  /\ old' = Accessed(s)
  /\ UNCHANGED asked
  /\ \/ Free(s) /\ Obtain(r, s, waiters[s]) /\ UNCHANGED waiters
     \/ /\ ~Free(s)
        /\ at' = [at EXCEPT ![r] = "waiting"]
        /\ waiters' = [waiters EXCEPT ![s] = Append(@, r)]
        /\ UNCHANGED <<turnVars, handed>>

Return(r) ==
  /\ at[r] = "new"
  /\ \E s \in handed \cap Kept : Use(r, s)
  /\ table' = Kept

(* No cookie, or one that has expired. *)
Newcomer(r) ==
  /\ at[r] = "new" /\ HasRoom
  /\ table' = Kept \cup {r}
  /\ Use(r, r)

Full(r) ==
  /\ at[r] = "new" /\ ~HasRoom
  /\ table' = Kept /\ old' = old \cap Kept
  /\ at' = [at EXCEPT ![r] = "done"] /\ Answer(r, "full")
  /\ UNCHANGED <<handed, log, of, asked, work, waiters, story>>

(* A woken waiter runs. *)
Proceed(r) ==
  /\ at[r] = "woken" /\ r \notin asked
  /\ LET rest == RemoveFirst(waiters[of[r]], r)
     IN waiters' = [waiters EXCEPT ![of[r]] = rest] /\ Obtain(r, of[r], rest)
  /\ UNCHANGED <<table, old, of, asked>>

(* The turn ends and its copy becomes the conversation. *)
Commit(r) ==
  /\ at[r] = "turn" /\ r \notin asked
  /\ log' = [log EXCEPT ![of[r]] = Append(work[r], r)]
  /\ story' = [story EXCEPT ![of[r]] = Append(@, r)]
  /\ old' = old \ {of[r]}
  /\ handed' = handed \cup {of[r]}
  /\ Leave(r, "done", waiters[of[r]]) /\ Answer(r, "ok")
  /\ UNCHANGED <<table, of, asked, work, waiters>>

InPlace(r)   == [log EXCEPT ![of[r]] = Append(work[r], r)]    \* mutant: no copy
Discarded(r) == log

(* The classifier is not reachable or its answer is not usable.  An error  *)
(* response carries no cookie.                                             *)
Fail(r) ==
  /\ at[r] = "turn" /\ r \notin asked
  /\ log' = Discarded(r)
  /\ Leave(r, "done", waiters[of[r]]) /\ Answer(r, "failed")
  /\ UNCHANGED <<storeVars, old, asked, work, waiters, story>>

Expire(r) ==
  /\ r \in Chats \ asked /\ at[r] \in {"waiting", "woken", "turn"}
  /\ asked' = asked \cup {r}
  /\ UNCHANGED <<storeVars, turnVars, old, at, waiters>>

NoHeir(r, rest) == <<>>    \* mutant: a cancelled waiter keeps its turn
Heirs(r, rest) == IF at[r] # "turn" /\ Locked(of[r]) THEN <<>> ELSE rest

(* The deadline reaches the waiter, which passes the lock on if it was     *)
(* woken, or the turn, which gives it back and discards its copy.          *)
Cancelled(r) ==
  /\ r \in asked
  /\ LET rest == RemoveFirst(waiters[of[r]], r)
     IN waiters' = [waiters EXCEPT ![of[r]] = rest] /\ Leave(r, "done", Heirs(r, rest))
  /\ log' = IF at[r] = "turn" THEN Discarded(r) ELSE log
  /\ asked' = asked \ {r}
  /\ Answer(r, "failed")
  /\ UNCHANGED <<storeVars, old, work, story>>

(* Time passes.  A turn may last longer than ttl, but ttl (3600 s) is      *)
(* longer than any wait for the lock: a wait ends with the chats that came *)
(* before, whose deadlines (100 s) have begun earlier.                     *)
Age(s) ==
  /\ s \in table \ old /\ \A r \in Inside(s) : at[r] = "turn"
  /\ old' = old \cup {s}
  /\ UNCHANGED <<storeVars, turnVars, at, asked, waiters>>

Rest == (\A r \in Requests : at[r] = "done") /\ UNCHANGED vars

Enter(r) == Return(r) \/ Newcomer(r) \/ Full(r)

Next ==
  \/ \E r \in Requests :
       Enter(r) \/ Proceed(r) \/ Commit(r) \/ Fail(r) \/ Expire(r) \/ Cancelled(r) \/ Age(r)
  \/ Rest

(* The event loop runs what is ready, and deadlines fire. *)
Fairness == \A r \in Requests : WF_vars(Proceed(r) \/ Cancelled(r)) /\ WF_vars(Expire(r))
Spec == Init /\ [][Next]_vars /\ Fairness

-----------------------------------------------------------------------------
(* The last reset in q is at n; it is 0 if there is none. *)
LastReset(q, n) ==
  (n = 0 \/ q[n] \in Resets) /\ \A i \in n+1..Len(q) : q[i] \notin Resets

(* l is what q has after it. *)
SinceReset(l, q) == \E n \in 0..Len(q) : LastReset(q, n) /\ l = SubSeq(q, n+1, Len(q))

(* A conversation is exactly its successful chats since the last reset, in *)
(* the order in which they were answered: a chat neither overwrites what   *)
(* another one, or a reset, did while it waited for the classifier, nor    *)
(* leaves a trace when it failed (app.py:129).                             *)
Transactional ==
  \A s \in Requests :
    /\ SinceReset(log[s], story[s])
    /\ \A i \in DOMAIN story[s] : outcome[story[s][i]] = "ok" /\ of[story[s][i]] = s

(* No request's sweep drops a session under a running turn, however long   *)
(* the turn lasts, so that no answer goes to a conversation that no cookie *)
(* leads to any more; and sparing such sessions does not let the table     *)
(* outgrow its limit.  That a session stays while somebody waits for its   *)
(* lock rests on ttl being longer than any wait (Age).                     *)
UsedSessionsStay ==
  /\ \A s \in Requests : Inside(s) # {} => s \in table
  /\ Cardinality(table) <= MaxSessions

(* With a classifier that may never answer, every request that was given a *)
(* session ends, the ones without a deadline of their own too.             *)
EveryoneLeaves == \A r \in Requests : at[r] # "new" ~> at[r] = "done"
=============================================================================
