---------------------------- MODULE LockBackend ----------------------------
(***************************************************************************)
(* What every lock backend promises about one lock name: the `LockBackend` *)
(* protocol of grelmicro/coordination/_protocol.py.  The five adapters     *)
(* (memory, Redis, Postgres, SQLite, Kubernetes) are shown to implement    *)
(* this specification, and the `Lock` primitive is checked on top of it.   *)
(*                                                                         *)
(* Time is abstracted to the event it causes: a lease that was live lapses.*)
(***************************************************************************)
EXTENDS Naturals

CONSTANTS Tokens,   \* ownership tokens callers present
          NoToken,  \* "no token": None in Python, NULL in SQL
          MaxFence, \* bound on minted fencing tokens
          Optimistic \* whether the backend may decide on a stale read or clock

ASSUME BackendAssumption ==
  /\ NoToken \notin Tokens
  /\ MaxFence \in Nat
  /\ Optimistic \in BOOLEAN

VARIABLES holder,  \* token the current fencing token was minted for
          live,    \* whether that holder's lease is unexpired
          fence,   \* last fencing token minted for the name
          reply    \* answer to the last call

vars == <<holder, live, fence, reply>>

Answers == {"granted", "refused", "released", "not_owned"}

Reply(t, a, f) == [token |-> t, answer |-> a, fence |-> f]

NoReply == Reply(NoToken, "refused", 0)

Init ==
  /\ holder = NoToken
  /\ live = FALSE
  /\ fence = 0
  /\ reply = NoReply

-----------------------------------------------------------------------------

\* What `live` becomes on a grant.  A lease runs from the moment the backend
\* read its clock, so a slow write can land when it is already over.
GrantedLive == IF Optimistic THEN BOOLEAN ELSE {TRUE}

MintReusesFence(t) ==
  /\ ~live
  /\ holder' = t
  /\ live' \in GrantedLive
  /\ fence' = (IF fence = 0 THEN 1 ELSE fence)
  /\ reply' = Reply(t, "granted", fence')

\* `acquire` on a lock nobody holds: a fresh fencing token is minted.
Mint(t) ==
  /\ ~live
  /\ fence < MaxFence
  /\ holder' = t
  /\ live' \in GrantedLive
  /\ fence' = fence + 1
  /\ reply' = Reply(t, "granted", fence + 1)

\* `acquire` by the holder: the lease is renewed, the fencing token kept.
Extend(t) ==
  /\ holder = t
  /\ live \/ Optimistic
  /\ live' \in GrantedLive
  /\ reply' = Reply(t, "granted", fence)
  /\ UNCHANGED <<holder, fence>>

RefuseFreeLock(t) ==
  /\ ~(holder = t /\ live)
  /\ reply' = Reply(t, "refused", 0)
  /\ UNCHANGED <<holder, live, fence>>

\* `acquire` returning None.  It never turns away the caller whose lease is
\* running.  An optimistic backend may lose a write race, or judge by a stale
\* clock, and so refuse although nobody holds the lock any more.
Refuse(t) ==
  /\ ~(holder = t /\ live)
  /\ live \/ Optimistic
  /\ reply' = Reply(t, "refused", 0)
  /\ UNCHANGED <<holder, live, fence>>

\* `release` by the holder.  The fencing counter survives.  A backend that
\* judges expiry by the time the call began may still honour the release of a
\* lease that lapsed meanwhile, as long as nobody has taken the lock over.
Release(t) ==
  /\ holder = t
  /\ holder' = NoToken
  /\ live' = FALSE
  /\ reply' = Reply(t, "released", 0)
  /\ UNCHANGED fence

\* `release` returning False.  It never disturbs a live lease; an adapter may
\* use the occasion to drop the name of a holder whose lease has lapsed.
RefuseRelease(t) ==
  /\ ~(holder = t /\ live)
  /\ \/ UNCHANGED <<holder, live>>
     \/ ~live /\ holder' = NoToken /\ UNCHANGED live
  /\ reply' = Reply(t, "not_owned", 0)
  /\ UNCHANGED fence

\* The lease runs out.  Stores that expire keys forget the holder with it,
\* the others keep its name until it is overwritten or vacated.
Lapse ==
  /\ live
  /\ live' = FALSE
  /\ holder' \in {holder, NoToken}
  /\ UNCHANGED <<fence, reply>>

\* Closing a backend vacates a lapsed holder, never a live one.
Vacate ==
  /\ ~live
  /\ holder' = NoToken
  /\ UNCHANGED <<live, fence, reply>>

Acquire(t) == Mint(t) \/ Extend(t) \/ Refuse(t)

TryRelease(t) == Release(t) \/ RefuseRelease(t)

Next ==
  \/ \E t \in Tokens : Acquire(t) \/ TryRelease(t)
  \/ Lapse
  \/ Vacate

Spec == Init /\ [][Next]_vars

=============================================================================
