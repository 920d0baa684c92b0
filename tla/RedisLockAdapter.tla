-------------------------- MODULE RedisLockAdapter --------------------------
(***************************************************************************)
(* grelmicro/coordination/redis.py, `RedisLockAdapter`, for one lock name. *)
(* Redis runs a Lua script without interleaving, so each call is one step. *)
(* The store holds two keys: the lock itself, "<fence>:<token>" with a     *)
(* TTL, and the fence counter, which never expires.                        *)
(***************************************************************************)
EXTENDS Naturals

CONSTANTS Tokens, NoToken, MaxFence,
          MaxDuration, \* bound on a lease duration, in clock ticks
          TicksPerMs,  \* clock ticks in a millisecond, the unit of a TTL
          MaxTime      \* bound on the clock

RedisAssumption ==
  /\ NoToken \notin Tokens
  /\ {MaxFence, MaxDuration, MaxTime} \subseteq Nat
  /\ TicksPerMs \in Nat \ {0}

VARIABLES now,        \* the server's clock
          token,      \* <token> part of the lock key, as last written
          fence,      \* <fence> part of the lock key, as last written
          expire_at,  \* when the lock key's TTL ends
          counter,    \* fence counter key
          asked,      \* history: until when the last grant was asked for
          reply       \* answer to the last call

\* Less than a millisecond would be PX 0, an error of the server.
Durations == TicksPerMs..MaxDuration

vars == <<now, token, fence, expire_at, counter, asked, reply>>
key == <<token, fence, expire_at>>

\* GET finds the lock key: it was set and its TTL has not run out.
stored == token # NoToken /\ now < expire_at

locked == stored

owned(t) == stored /\ token = t

LB == INSTANCE LockBackend
        WITH holder <- IF stored THEN token ELSE NoToken, live <- stored,
             fence <- counter, Optimistic <- FALSE

TypeOK ==
  /\ now \in 0..MaxTime
  /\ token \in Tokens \cup {NoToken}
  /\ fence \in 0..MaxFence
  /\ expire_at \in 0..(now + MaxDuration)
  /\ counter \in 0..MaxFence
  /\ asked \in 0..(MaxTime + MaxDuration)
  /\ reply \in [token : Tokens \cup {NoToken}, answer : LB!Answers, fence : 0..MaxFence]

Init ==
  /\ now = 0
  /\ token = NoToken
  /\ fence = 0
  /\ expire_at = 0
  /\ counter = 0
  /\ asked = 0
  /\ reply = LB!NoReply

-----------------------------------------------------------------------------

\* int(duration * 1000): the TTL is cut to whole milliseconds.
Px(d) == d \div TicksPerMs

ExpireAt(d) == now + TicksPerMs * Px(d)

\* GET finds nothing: INCR the counter, SET the key with its TTL.
TakeFresh(t, d) ==
  /\ ~stored
  /\ counter < MaxFence
  /\ counter' = counter + 1
  /\ token' = t
  /\ fence' = counter'
  /\ expire_at' = ExpireAt(d)
  /\ asked' = now + d
  /\ reply' = LB!Reply(t, "granted", fence')

\* GET finds the caller's own token: PEXPIRE, answer the stored fence.
Renew(t, d) ==
  /\ owned(t)
  /\ expire_at' = ExpireAt(d)
  /\ asked' = now + d
  /\ reply' = LB!Reply(t, "granted", fence)
  /\ UNCHANGED <<token, fence, counter>>

Refuse(t) ==
  /\ stored /\ token # t
  /\ reply' = LB!Reply(t, "refused", 0)
  /\ UNCHANGED <<key, counter, asked>>

acquire(t, d) ==
  /\ TakeFresh(t, d) \/ Renew(t, d) \/ Refuse(t)
  /\ UNCHANGED now

\* DEL leaves the counter alone.
release(t) ==
  /\ \/ /\ owned(t)
        /\ token' = NoToken /\ fence' = 0 /\ expire_at' = 0
        /\ reply' = LB!Reply(t, "released", 0)
     \/ /\ ~owned(t)
        /\ UNCHANGED key
        /\ reply' = LB!Reply(t, "not_owned", 0)
  /\ UNCHANGED <<now, counter, asked>>

Tick ==
  /\ now < MaxTime
  /\ now' = now + 1
  /\ UNCHANGED <<key, counter, asked, reply>>

Next ==
  \/ \E t \in Tokens, d \in Durations : acquire(t, d)
  \/ \E t \in Tokens : release(t)
  \/ Tick

Spec == Init /\ [][Next]_vars

-----------------------------------------------------------------------------

\* The adapter implements the backend protocol: the fence kept inside the lock
\* key and the counter key agree whenever a renewal answers from the former,
\* and a takeover of an expired or released key always climbs.
Implements == LB!Spec

\* Cutting the TTL to whole milliseconds costs the holder less than one
\* millisecond of the lease it asked for: an unreleased lock answers `locked`
\* until then (redis.py line 165).
LeaseCutBelowOneMs ==
  token # NoToken /\ now + TicksPerMs <= asked => locked

=============================================================================
