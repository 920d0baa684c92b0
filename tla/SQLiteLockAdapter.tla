------------------------- MODULE SQLiteLockAdapter -------------------------
(***************************************************************************)
(* grelmicro/coordination/sqlite.py, `SQLiteLockAdapter`, with the         *)
(* connection of grelmicro/providers/sqlite.py, for one lock name in one   *)
(* database file shared by several processes.                              *)
(*                                                                         *)
(* A process has one aiosqlite connection and serialises its use with      *)
(* `connection_lock`.  `acquire` awaits three statements, BEGIN IMMEDIATE, *)
(* the upsert and COMMIT, which the connection's worker thread runs in the *)
(* order they were queued: cancelling the coroutine that waits does not    *)
(* take a statement back.  One caller per process is modelled, so a token  *)
(* also names the process and its connection.                              *)
(***************************************************************************)
EXTENDS Naturals, FiniteSets

CONSTANTS Tokens, NoToken, MaxFence,
          MaxDuration,    \* bound on a lease duration, in clock ticks
          TicksPerSecond, \* clock ticks in a second, the unit of datetime('now')
          MaxTime,        \* bound on the clock
          CancelAt        \* awaits of `acquire` at which the caller is cancelled

SQLiteAssumption ==
  /\ NoToken \notin Tokens
  /\ {MaxFence, MaxDuration, MaxTime} \subseteq Nat
  /\ TicksPerSecond \in Nat \ {0}
  /\ CancelAt \subseteq {"begin", "upsert"}

VARIABLES now,     \* the host's clock
          row,     \* the lock's row as committed
          draft,   \* the row as the open transaction sees it
          writer,  \* connection with an open transaction, or NoToken
          pc,      \* pc[c]: statement c's coroutine awaits, or "idle"
          asking,  \* asking[c]: lease duration of c's `acquire`
          orphan,  \* orphan[c]: a BEGIN is queued that nobody awaits
          reply    \* answer to the last call

vars == <<now, row, draft, writer, pc, asking, orphan, reply>>

Durations == 1..MaxDuration

\* The row; `granted` records the outcome of the upsert in a draft, and
\* `asked` is a history field, until when the last grant was asked for.
Rows == [token : Tokens \cup {NoToken}, expire_at : Nat, fence : 0..MaxFence,
         granted : BOOLEAN, asked : Nat]

NoRow == [token |-> NoToken, expire_at |-> 0, fence |-> 0,
          granted |-> FALSE, asked |-> 0]

\* datetime('now') has a resolution of one second.
datetime_now == now \div TicksPerSecond

locked == row.token # NoToken /\ row.expire_at >= datetime_now

LB == INSTANCE LockBackend
        WITH holder <- row.token, live <- locked, fence <- row.fence,
             Optimistic <- TRUE

TypeOK ==
  /\ now \in 0..MaxTime
  /\ {row, draft} \subseteq Rows
  /\ \A r \in {row, draft} : r.expire_at <= datetime_now + MaxDuration
  /\ writer \in Tokens \cup {NoToken}
  /\ pc \in [Tokens -> {"idle", "begin", "upsert", "commit", "rollback"}]
  /\ asking \in [Tokens -> Durations \cup {0}]
  /\ orphan \in [Tokens -> BOOLEAN]
  /\ reply \in [token : Tokens \cup {NoToken}, answer : LB!Answers, fence : 0..MaxFence]

Init ==
  /\ now = 0
  /\ row = NoRow
  /\ draft = NoRow
  /\ writer = NoToken
  /\ pc = [c \in Tokens |-> "idle"]
  /\ asking = [c \in Tokens |-> 0]
  /\ orphan = [c \in Tokens |-> FALSE]
  /\ reply = LB!NoReply

-----------------------------------------------------------------------------

\* ceil(duration): whole seconds, rounded up.
Seconds(d) == (d + TicksPerSecond - 1) \div TicksPerSecond

ExpireAt(d) == datetime_now + Seconds(d)

Matches(r, t) ==
  r.fence = 0 \/ r.token \in {t, NoToken} \/ r.expire_at < datetime_now

NextFence(r, t) ==
  IF r.token = t /\ r.expire_at >= datetime_now THEN r.fence ELSE r.fence + 1

Vacated(r) == [r EXCEPT !.token = NoToken, !.expire_at = 0]

\* The coroutine leaves `acquire` and gives the connection lock back.
Leave(c) ==
  /\ pc' = [pc EXCEPT ![c] = "idle"]
  /\ asking' = [asking EXCEPT ![c] = 0]

EndTransaction == writer' = NoToken /\ draft' = NoRow

\* `acquire` has the connection lock and awaits BEGIN IMMEDIATE.  MaxFence
\* leaves room for every call in flight to mint, so none gets stuck on it.
acquire(c, d) ==
  /\ pc[c] = "idle"
  /\ row.fence + Cardinality({b \in Tokens : pc[b] # "idle"}) < MaxFence
  /\ pc' = [pc EXCEPT ![c] = "begin"]
  /\ asking' = [asking EXCEPT ![c] = d]
  /\ UNCHANGED <<now, row, draft, writer, orphan, reply>>

\* BEGIN IMMEDIATE takes the file's write lock.  It fails when this connection
\* is already inside a transaction, and after a busy timeout when another
\* connection is; the exception leaves `acquire` without a ROLLBACK.
Begin(c) ==
  /\ pc[c] = "begin"
  /\ ~orphan[c]
  /\ \/ /\ writer = NoToken
        /\ writer' = c
        /\ draft' = row
        /\ pc' = [pc EXCEPT ![c] = "upsert"]
        /\ UNCHANGED asking
     \/ /\ writer # NoToken
        /\ Leave(c)
        /\ UNCHANGED <<writer, draft>>
  /\ UNCHANGED <<now, row, orphan, reply>>

Upsert(c) ==
  /\ pc[c] = "upsert"
  /\ \/ /\ Matches(draft, c)
        /\ draft' = [token |-> c,
                     expire_at |-> ExpireAt(asking[c]),
                     fence |-> NextFence(draft, c),
                     granted |-> TRUE,
                     asked |-> now + asking[c]]
     \/ /\ ~Matches(draft, c)
        /\ draft' = [draft EXCEPT !.granted = FALSE]
  /\ pc' = [pc EXCEPT ![c] = "commit"]
  /\ UNCHANGED <<now, row, writer, asking, orphan, reply>>

\* COMMIT publishes the draft.  A cancellation arriving here comes too late:
\* the statement is queued, the ROLLBACK after it fails, and only the answer
\* is lost to the caller.
Commit(c) ==
  /\ pc[c] = "commit"
  /\ row' = draft
  /\ EndTransaction
  /\ Leave(c)
  /\ reply' = IF draft.granted THEN LB!Reply(c, "granted", draft.fence)
                               ELSE LB!Reply(c, "refused", 0)
  /\ UNCHANGED <<now, orphan>>

\* The caller is cancelled.  Outside the `try` the queued BEGIN stays behind;
\* inside it the coroutine goes on to ROLLBACK.
Cancel(c) ==
  /\ pc[c] \in CancelAt
  /\ \/ /\ pc[c] = "begin" /\ ~orphan[c]
        /\ Leave(c)
        /\ orphan' = [orphan EXCEPT ![c] = TRUE]
     \/ /\ pc[c] = "upsert"
        /\ pc' = [pc EXCEPT ![c] = "rollback"]
        /\ UNCHANGED <<asking, orphan>>
  /\ UNCHANGED <<now, row, draft, writer, reply>>

RollbackKeepsTransaction(c) ==
  /\ pc[c] = "rollback"
  /\ Leave(c)
  /\ UNCHANGED <<now, row, draft, writer, orphan, reply>>

Rollback(c) ==
  /\ pc[c] = "rollback"
  /\ EndTransaction
  /\ Leave(c)
  /\ UNCHANGED <<now, row, orphan, reply>>

\* The worker thread reaches the BEGIN nobody waits for.
OrphanBegin(c) ==
  /\ orphan[c]
  /\ \/ writer = NoToken /\ writer' = c /\ draft' = row
     \/ writer # NoToken /\ UNCHANGED <<writer, draft>>
  /\ orphan' = [orphan EXCEPT ![c] = FALSE]
  /\ UNCHANGED <<now, row, pc, asking, reply>>

\* A single autocommitted UPDATE, unless the connection is still inside a
\* transaction: then it changes the draft only.  While another connection
\* writes, it fails and changes nothing.
Update(c, match, answer, other) ==
  /\ pc[c] = "idle" /\ ~orphan[c]
  /\ \/ /\ writer = NoToken
        /\ \/ match[row] /\ row' = Vacated(row) /\ reply' = answer
           \/ ~match[row] /\ UNCHANGED row /\ reply' = other
        /\ UNCHANGED draft
     \/ /\ writer = c
        /\ \/ match[draft] /\ draft' = Vacated(draft) /\ reply' = answer
           \/ ~match[draft] /\ UNCHANGED draft /\ reply' = other
        /\ UNCHANGED row
  /\ UNCHANGED <<now, writer, pc, asking, orphan>>

release(c) ==
  Update(c, [r \in {row, draft} |-> r.token = c /\ r.expire_at >= datetime_now],
         LB!Reply(c, "released", 0), LB!Reply(c, "not_owned", 0))

\* __aexit__ vacates an expired lease in every row; the connection itself is
\* the provider's and stays open.
close(c) ==
  Update(c, [r \in {row, draft} |->
               r.token # NoToken /\ r.expire_at < datetime_now],
         reply, reply)

Tick ==
  /\ now < MaxTime
  /\ now' = now + 1
  /\ UNCHANGED <<row, draft, writer, pc, asking, orphan, reply>>

WorkerThread(c) ==
  Begin(c) \/ Upsert(c) \/ Commit(c) \/ Rollback(c) \/ OrphanBegin(c)

Next ==
  \/ \E c \in Tokens, d \in Durations : acquire(c, d)
  \/ \E c \in Tokens : release(c) \/ close(c) \/ Cancel(c) \/ WorkerThread(c)
  \/ Tick

\* The worker thread of every connection keeps running queued statements.
Fairness == \A c \in Tokens : WF_vars(WorkerThread(c))

Spec == Init /\ [][Next]_vars

FairSpec == Spec /\ Fairness

-----------------------------------------------------------------------------

\* The committed rows implement the backend protocol although the upsert and
\* its COMMIT are separate steps and other processes run in between.
Implements == LB!Spec

\* datetime('now') truncates the present and ceil() rounds the duration up:
\* together they never cut a lease short of what the caller asked for.
LeaseCoversDuration == row.token # NoToken /\ now <= row.asked => locked

\* No connection sits on the write lock of the shared file for ever.
WriterFinishes == \A c \in Tokens : writer = c ~> writer # c

\* _protocol.py on `release`: "Returns `True` when the lock was released".
\* After such an answer the row every process reads names somebody else or
\* nobody.
ReleasedMeansReleased ==
  [][\A c \in Tokens :
       reply' = LB!Reply(c, "released", 0) => row'.token # c]_reply

=============================================================================
