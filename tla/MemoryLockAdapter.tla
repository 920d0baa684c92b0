------------------------- MODULE MemoryLockAdapter -------------------------
(***************************************************************************)
(* grelmicro/coordination/memory.py, `MemoryLockAdapter`, for one lock     *)
(* name.  The methods contain no `await`, so each is one step.             *)
(***************************************************************************)
EXTENDS Naturals

CONSTANTS Tokens, NoToken, MaxFence,
          MaxDuration, \* bound on the lease durations callers ask for
          MaxTime,    \* bound on the clock
          MaxOpens    \* bound on how often the adapter is opened

MemoryAssumption ==
  /\ NoToken \notin Tokens
  /\ {MaxFence, MaxDuration, MaxTime, MaxOpens} \subseteq Nat

VARIABLES now,       \* time.monotonic()
          token,     \* _locks[name][0], NoToken when the name is absent
          expire_at, \* _locks[name][1], 0 when the name is absent
          fences,    \* _fences.get(name, 0)
          opens,     \* times the adapter was opened
          opened,    \* inside `async with adapter`
          minted,    \* history: last fencing token handed out
          reply      \* answer to the last call

Durations == 1..MaxDuration

vars == <<now, token, expire_at, fences, opens, opened, minted, reply>>
lock == <<token, expire_at>>

locked == token # NoToken /\ expire_at >= now

owned(t) == token = t /\ expire_at >= now

LB == INSTANCE LockBackend
        WITH holder <- token, live <- locked, fence <- minted, Optimistic <- FALSE

TypeOK ==
  /\ now \in 0..MaxTime
  /\ token \in Tokens \cup {NoToken}
  /\ expire_at \in 0..(now + MaxDuration)
  /\ fences \in 0..MaxFence
  /\ minted \in 0..MaxFence
  /\ opens \in 0..MaxOpens
  /\ opened \in BOOLEAN
  /\ reply \in [token : Tokens \cup {NoToken}, answer : LB!Answers, fence : 0..MaxFence]

Init ==
  /\ now = 0
  /\ token = NoToken
  /\ expire_at = 0
  /\ fences = 0
  /\ opens = 0
  /\ opened = FALSE
  /\ minted = 0
  /\ reply = LB!NoReply

-----------------------------------------------------------------------------

Expired == expire_at < now

\* A lock nobody holds or whose lease ran out.
Free == token = NoToken \/ Expired

\* The counter climbs only on a free-to-held transition.
NextFence(free) == IF free THEN fences + 1 ELSE fences

\* A renewed lease runs from now, not from the end of the previous one.
ExpireAt(d) == now + d

acquire(t, d) ==
  /\ opened
  /\ \/ /\ Free \/ token = t
        /\ NextFence(Free) <= MaxFence
        /\ fences' = NextFence(Free)
        /\ token' = t
        /\ expire_at' = ExpireAt(d)
        /\ minted' = fences'
        /\ reply' = LB!Reply(t, "granted", fences')
     \/ /\ ~Free /\ token # t
        /\ reply' = LB!Reply(t, "refused", 0)
        /\ UNCHANGED <<lock, fences, minted>>
  /\ UNCHANGED <<now, opens, opened>>

Del == token' = NoToken /\ expire_at' = 0

release(t) ==
  /\ opened
  /\ \/ token = t /\ ~Expired /\ Del /\ reply' = LB!Reply(t, "released", 0)
     \/ token # NoToken /\ Expired /\ Del /\ reply' = LB!Reply(t, "not_owned", 0)
     \/ /\ token # t /\ ~(token # NoToken /\ Expired)
        /\ UNCHANGED lock /\ reply' = LB!Reply(t, "not_owned", 0)
  /\ UNCHANGED <<now, fences, minted, opens, opened>>

\* __aenter__ captures the loop; the dictionaries are kept as they are.
open ==
  /\ ~opened
  /\ opens < MaxOpens
  /\ opens' = opens + 1
  /\ opened' = TRUE
  /\ UNCHANGED <<now, lock, fences, minted, reply>>

\* __aexit__ clears both dictionaries, the fencing counter included.
close ==
  /\ opened
  /\ opened' = FALSE
  /\ Del
  /\ fences' = 0
  /\ UNCHANGED <<now, opens, minted, reply>>

Tick ==
  /\ now < MaxTime
  /\ now' = now + 1
  /\ UNCHANGED <<lock, fences, opens, opened, minted, reply>>

Next ==
  \/ \E t \in Tokens, d \in Durations : acquire(t, d)
  \/ \E t \in Tokens : release(t)
  \/ open
  \/ close
  \/ Tick

Spec == Init /\ [][Next]_vars

-----------------------------------------------------------------------------

\* The adapter implements the backend protocol: every grant of a free lock
\* carries the next fencing token, a live holder keeps its token and cannot
\* be displaced, and a release that answers True was the live holder's.
Implements == LB!Spec

\* A refusal always has a cause: when `acquire` answers None another token
\* holds an unexpired lease, and when `release` answers False the caller has
\* no live lease left (memory.py lines 47-75).
RefusalsHaveACause ==
  [][\A t \in Tokens :
       /\ reply' = LB!Reply(t, "refused", 0) => locked' /\ ~owned(t)'
       /\ reply' = LB!Reply(t, "not_owned", 0) => ~owned(t)']_reply

\* docs/architecture/coordination.md on the memory adapter: "The `_fences`
\* counter persists for the adapter lifetime and is never reset".  So the
\* tokens one adapter instance hands out never go down.
HandedOutTokensClimb == [][minted' >= minted]_minted

=============================================================================
