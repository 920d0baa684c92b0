------------------------ MODULE PostgresLockAdapter ------------------------
(***************************************************************************)
(* grelmicro/coordination/postgres.py, `PostgresLockAdapter`, for one lock *)
(* name.  Every call is one autocommitted statement, but NOW() is the time *)
(* the statement began: while it waits for the row lock of a concurrent    *)
(* statement that time grows stale, and the WHERE clause is evaluated on   *)
(* the row the other statement left behind.  So a call is two steps, the   *)
(* start that fixes NOW() and the run that reads and writes the row.       *)
(***************************************************************************)
EXTENDS Naturals

CONSTANTS Tokens, NoToken, MaxFence,
          MaxDuration, \* bound on the lease durations callers ask for
          MaxTime,    \* bound on the clock
          Idle        \* "no statement in flight"

ASSUME PostgresAssumption ==
  /\ NoToken \notin Tokens
  /\ {MaxFence, MaxDuration, MaxTime} \subseteq Nat
  /\ Idle \notin Nat

VARIABLES now,        \* the server's clock
          token,      \* token column, NoToken for NULL
          expire_at,  \* expire_at column, 0 for NULL
          fence,      \* fence column, 0 while the row does not exist
          stmt,       \* stmt[t]: the statement t's caller has in flight
          closing,    \* NOW() of an __aexit__ statement in flight, or Idle
          reply       \* answer to the last call

Durations == 1..MaxDuration

vars == <<now, token, expire_at, fence, stmt, closing, reply>>
row == <<token, expire_at, fence>>

Statements ==
  [call : {"acquire"}, start : 0..MaxTime, duration : Durations]
    \cup [call : {"release"}, start : 0..MaxTime]

locked == token # NoToken /\ expire_at >= now

owned(t) == token = t /\ expire_at >= now

LB == INSTANCE LockBackend
        WITH holder <- token, live <- locked, Optimistic <- TRUE

TypeOK ==
  /\ now \in 0..MaxTime
  /\ token \in Tokens \cup {NoToken}
  /\ expire_at \in 0..(now + MaxDuration)
  /\ fence \in 0..MaxFence
  /\ stmt \in [Tokens -> Statements \cup {Idle}]
  /\ closing \in 0..MaxTime \cup {Idle}
  /\ reply \in [token : Tokens \cup {NoToken}, answer : LB!Answers, fence : 0..MaxFence]

\* The table as _migrate leaves it: created, with no row for the name.
Init ==
  /\ now = 0
  /\ token = NoToken
  /\ expire_at = 0
  /\ fence = 0
  /\ stmt = [t \in Tokens |-> Idle]
  /\ closing = Idle
  /\ reply = LB!NoReply

-----------------------------------------------------------------------------

Begin(t, s) ==
  /\ stmt[t] = Idle
  /\ stmt' = [stmt EXCEPT ![t] = s]
  /\ UNCHANGED <<now, row, closing, reply>>

\* The row lets `t` in: absent, its own, vacant, or expired by NOW().
Matches(t, NOW) == fence = 0 \/ token \in {t, NoToken} \/ expire_at < NOW

\* Kept on a same-holder extend of a lease still running, bumped otherwise.
NextFenceOnExpiry(t, NOW) == IF token # NoToken THEN fence ELSE fence + 1
NextFence(t, NOW) ==
  IF token = t /\ expire_at >= NOW THEN fence ELSE fence + 1

ExpireAt(d, NOW) == NOW + d

\* _SQL_ACQUIRE_OR_EXTEND: one upsert.
Upsert(t, NOW, d) ==
  /\ Matches(t, NOW)
  /\ NextFence(t, NOW) <= MaxFence
  /\ token' = t
  /\ expire_at' = ExpireAt(d, NOW)
  /\ fence' = NextFence(t, NOW)
  /\ reply' = LB!Reply(t, "granted", fence')

acquire(t) ==
  /\ stmt[t] # Idle
  /\ stmt[t].call = "acquire"
  /\ \/ Upsert(t, stmt[t].start, stmt[t].duration)
     \/ /\ ~Matches(t, stmt[t].start)
        /\ reply' = LB!Reply(t, "refused", 0)
        /\ UNCHANGED row
  /\ stmt' = [stmt EXCEPT ![t] = Idle]
  /\ UNCHANGED <<now, closing>>

Vacate == token' = NoToken /\ expire_at' = 0 /\ UNCHANGED fence

\* _SQL_RELEASE's WHERE clause.
Releasable(t, NOW) == token = t /\ expire_at >= NOW

release(t) ==
  /\ stmt[t] # Idle
  /\ stmt[t].call = "release"
  /\ \/ /\ Releasable(t, stmt[t].start)
        /\ Vacate
        /\ reply' = LB!Reply(t, "released", 0)
     \/ /\ ~Releasable(t, stmt[t].start)
        /\ UNCHANGED row
        /\ reply' = LB!Reply(t, "not_owned", 0)
  /\ stmt' = [stmt EXCEPT ![t] = Idle]
  /\ UNCHANGED <<now, closing>>

BeginClose ==
  /\ closing = Idle
  /\ closing' = now
  /\ UNCHANGED <<now, row, stmt, reply>>

\* __aexit__: _SQL_RELEASE_ALL_EXPIRED.
close ==
  /\ closing # Idle
  /\ \/ token # NoToken /\ expire_at < closing /\ Vacate
     \/ ~(token # NoToken /\ expire_at < closing) /\ UNCHANGED row
  /\ closing' = Idle
  /\ UNCHANGED <<now, stmt, reply>>

Tick ==
  /\ now < MaxTime
  /\ now' = now + 1
  /\ UNCHANGED <<row, stmt, closing, reply>>

Next ==
  \/ \E t \in Tokens, d \in Durations :
       Begin(t, [call |-> "acquire", start |-> now, duration |-> d])
  \/ \E t \in Tokens : Begin(t, [call |-> "release", start |-> now])
  \/ \E t \in Tokens : acquire(t) \/ release(t)
  \/ BeginClose
  \/ close
  \/ Tick

Spec == Init /\ [][Next]_vars

-----------------------------------------------------------------------------

\* The adapter implements the backend protocol in spite of stale clocks: a
\* lock is taken over only when its lease is really over, and then with a
\* fence above every fence handed out before.
Implements == LB!Spec

=============================================================================
