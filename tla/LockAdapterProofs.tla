------------------------- MODULE LockAdapterProofs -------------------------
(***************************************************************************)
(* The lock adapters implement LockBackend, and the leases of lock and     *)
(* leader keep their length, for every set of tokens, every duration and   *)
(* every number of calls under way.                                        *)
(*                                                                         *)
(* Postgres: what makes a stale NOW() harmless is that it is never ahead   *)
(* of the server's clock (StartsInPast): a statement that finds the lease  *)
(* expired by its own NOW() is right, and one that finds it running can    *)
(* only be too kind to the caller that already has the fence.              *)
(***************************************************************************)
EXTENDS MCLockAdapters, FiniteSetTheorems, TLAPS

-----------------------------------------------------------------------------
\* postgres.py

\* No statement in flight has a NOW() ahead of the server's clock.
StartsInPast ==
  /\ \A t \in Tokens : stmt[t] # Idle => stmt[t].start <= now
  /\ closing # Idle => closing <= now

\* A row that does not exist has no token.
NoRowNoToken == fence = 0 => token = NoToken

PostgresInv == TypeOK /\ StartsInPast /\ NoRowNoToken

\* The freshly migrated table.
LEMMA PostgresInit == Init => PostgresInv
  BY PostgresAssumption
  DEF Init, PostgresInv, TypeOK, StartsInPast, NoRowNoToken, LB!NoReply, LB!Reply, LB!Answers

\* A statement in flight is one that Begin built.
LEMMA StatementTypes ==
  ASSUME TypeOK, NEW t \in Tokens, stmt[t] # Idle
  PROVE  /\ stmt[t].start \in 0..MaxTime
         /\ stmt[t].call = "acquire" => stmt[t].duration \in Durations
  BY DEF TypeOK, Statements

\* Every step preserves the inductive invariant.
LEMMA PostgresNextInv == PostgresInv /\ [Next]_vars => PostgresInv'
<1> SUFFICES ASSUME PostgresInv, [Next]_vars PROVE PostgresInv'
  OBVIOUS
<1> USE PostgresAssumption DEF PostgresInv
<1>1. CASE UNCHANGED vars
  BY <1>1 DEF vars, TypeOK, StartsInPast, NoRowNoToken
<1>2. ASSUME NEW t \in Tokens, NEW s \in Statements, s.start = now, Begin(t, s) PROVE PostgresInv'
  BY <1>2 DEF Begin, row, TypeOK, StartsInPast, NoRowNoToken
<1>3. ASSUME NEW t \in Tokens, acquire(t) PROVE PostgresInv'
  <2>1. CASE Upsert(t, stmt[t].start, stmt[t].duration)
    BY <1>3, <2>1, StatementTypes DEF acquire, Upsert, NextFence, ExpireAt, Durations, TypeOK, StartsInPast, NoRowNoToken, LB!Reply, LB!Answers
  <2>2. CASE UNCHANGED row /\ reply' = LB!Reply(t, "refused", 0)
    BY <1>3, <2>2 DEF acquire, row, TypeOK, StartsInPast, NoRowNoToken, LB!Reply, LB!Answers
  <2> QED BY <1>3, <2>1, <2>2 DEF acquire
<1>4. ASSUME NEW t \in Tokens, release(t) PROVE PostgresInv'
  BY <1>4 DEF release, Vacate, row, TypeOK, StartsInPast, NoRowNoToken, LB!Reply, LB!Answers
<1>5. CASE BeginClose
  BY <1>5 DEF BeginClose, row, TypeOK, StartsInPast, NoRowNoToken
<1>6. CASE close
  BY <1>6 DEF close, Vacate, row, TypeOK, StartsInPast, NoRowNoToken
<1>7. CASE Tick
  BY <1>7, StatementTypes DEF Tick, row, TypeOK, StartsInPast, NoRowNoToken
<1> QED
  BY <1>1, <1>2, <1>3, <1>4, <1>5, <1>6, <1>7 DEF Next, Statements, TypeOK

\* The inductive invariant holds in every reachable state.
THEOREM PostgresInvariance == Spec => []PostgresInv
  BY PostgresInit, PostgresNextInv, PTL DEF Spec

\* The variables keep their types; in particular no lease ever reaches
\* further than the longest duration from now.
THEOREM PostgresTypes == Spec => []TypeOK
<1>1. PostgresInv => TypeOK
  BY DEF PostgresInv
<1> QED BY <1>1, PostgresInvariance, PTL

\* The upsert is a Mint or an Extend of the protocol.
LEMMA UpsertRefines ==
  ASSUME PostgresInv, NEW t \in Tokens, NEW NOW \in Nat, NOW <= now, NEW d \in Nat, Upsert(t, NOW, d)
  PROVE  LB!Mint(t) \/ LB!Extend(t)
<1> USE PostgresAssumption DEF PostgresInv, LB!GrantedLive
<1>1. locked' \in BOOLEAN
  BY DEF locked
<1>2. CASE token = t /\ expire_at >= NOW
  BY <1>1, <1>2 DEF Upsert, NextFence, LB!Extend
<1>3. CASE ~(token = t /\ expire_at >= NOW)
  <2>1. ~locked
    BY <1>3 DEF Upsert, Matches, locked, TypeOK, NoRowNoToken
  <2> QED BY <1>1, <1>3, <2>1 DEF Upsert, NextFence, LB!Mint, TypeOK
<1> QED BY <1>2, <1>3

\* Every step of the adapter is a step of the protocol or stutters.
LEMMA PostgresRefines == PostgresInv /\ [Next]_vars => [LB!Next]_(LB!vars)
<1> SUFFICES ASSUME PostgresInv, [Next]_vars PROVE LB!Next \/ UNCHANGED LB!vars
  OBVIOUS
<1> USE PostgresAssumption DEF PostgresInv
<1>1. CASE UNCHANGED vars
  BY <1>1 DEF vars, LB!vars, locked
<1>2. ASSUME NEW t \in Tokens, NEW s, Begin(t, s) PROVE UNCHANGED LB!vars
  BY <1>2 DEF Begin, row, LB!vars, locked
<1>3. ASSUME NEW t \in Tokens, acquire(t) PROVE LB!Next
  <2>1. stmt[t].start \in Nat /\ stmt[t].start <= now /\ stmt[t].duration \in Nat
    BY <1>3, StatementTypes DEF acquire, Durations, StartsInPast
  <2>2. CASE Upsert(t, stmt[t].start, stmt[t].duration)
    BY <2>1, <2>2, UpsertRefines DEF LB!Next, LB!Acquire
  <2>3. CASE /\ ~Matches(t, stmt[t].start)
             /\ reply' = LB!Reply(t, "refused", 0)
             /\ UNCHANGED row
    <3>1. LB!Refuse(t)
      BY <1>3, <2>3 DEF acquire, Matches, row, LB!Refuse, locked
    <3> QED BY <3>1 DEF LB!Next, LB!Acquire
  <2> QED BY <1>3, <2>2, <2>3 DEF acquire
<1>4. ASSUME NEW t \in Tokens, release(t) PROVE LB!Next
  <2>1. stmt[t].start \in Nat /\ stmt[t].start <= now
    BY <1>4, StatementTypes DEF release, StartsInPast
  <2>2. CASE Releasable(t, stmt[t].start)
    <3>1. LB!Release(t)
      BY <1>4, <2>2 DEF release, Releasable, Vacate, LB!Release, locked
    <3> QED BY <3>1 DEF LB!Next, LB!TryRelease
  <2>3. CASE ~Releasable(t, stmt[t].start)
    <3>1. LB!RefuseRelease(t)
      BY <1>4, <2>1, <2>3 DEF release, Releasable, row, LB!RefuseRelease, locked, TypeOK
    <3> QED BY <3>1 DEF LB!Next, LB!TryRelease
  <2> QED BY <2>2, <2>3
<1>5. CASE BeginClose
  BY <1>5 DEF BeginClose, row, LB!vars, locked
<1>6. CASE close
  <2>1. CASE token # NoToken /\ expire_at < closing
    <3>1. LB!Vacate
      BY <1>6, <2>1 DEF close, Vacate, LB!Vacate, locked, TypeOK, StartsInPast
    <3> QED BY <3>1 DEF LB!Next
  <2>2. CASE ~(token # NoToken /\ expire_at < closing)
    BY <1>6, <2>2 DEF close, row, LB!vars, locked
  <2> QED BY <2>1, <2>2
<1>7. CASE Tick
  <2>1. UNCHANGED <<token, expire_at, fence, reply>> /\ now' = now + 1
    BY <1>7 DEF Tick, row
  <2>2. CASE locked /\ ~locked'
    <3>1. LB!Lapse
      BY <2>1, <2>2 DEF LB!Lapse
    <3> QED BY <3>1 DEF LB!Next
  <2>3. CASE ~(locked /\ ~locked')
    BY <2>1, <2>3 DEF LB!vars, locked, TypeOK
  <2> QED BY <2>2, <2>3
<1> QED
  BY <1>1, <1>2, <1>3, <1>4, <1>5, <1>6, <1>7 DEF Next

\* The adapter implements the backend protocol.
THEOREM AdapterImplements == Spec => Implements
<1>1. Init => LB!Init
  BY DEF Init, LB!Init, locked
<1> QED BY <1>1, PostgresRefines, PostgresInvariance, PTL DEF Spec, Implements, LB!Spec

-----------------------------------------------------------------------------
\* memory.py

\* While the adapter is open for the first time, its counter is the last fencing token it
\* handed out.
MemoryInv ==
  /\ Memory!TypeOK
  /\ m_opened => m_opens >= 1
  /\ m_opened /\ m_opens = 1 => m_fences = m_minted
  /\ m_opens = 0 => m_fences = 0 /\ m_minted = 0

\* The constants of the adapter.
LEMMA MemoryConstants ==
  /\ NoToken \notin Tokens
  /\ MaxFence \in Nat /\ MaxDuration \in Nat /\ MaxTime \in Nat /\ MaxOpens \in Nat
  BY AdapterAssumptions DEF Memory!MemoryAssumption

\* An answer has the type of a reply.
LEMMA MemoryReply ==
  ASSUME NEW t \in Tokens \cup {NoToken}, NEW a \in {"granted", "refused", "released", "not_owned"},
         NEW f \in 0..MaxFence
  PROVE  Memory!LB!Reply(t, a, f) \in
           [token : Tokens \cup {NoToken}, answer : Memory!LB!Answers, fence : 0..MaxFence]
  BY DEF Memory!LB!Reply, Memory!LB!Answers

\* The adapter before it is opened.
LEMMA MemoryInit == Memory!Init => MemoryInv
<1> SUFFICES ASSUME Memory!Init PROVE MemoryInv
  OBVIOUS
<1> USE MemoryConstants
<1>1. m_reply \in [token : Tokens \cup {NoToken}, answer : Memory!LB!Answers, fence : 0..MaxFence]
  BY MemoryReply DEF Memory!Init, Memory!LB!NoReply
<1>2. m_opened \in BOOLEAN /\ ~ m_opened
  BY DEF Memory!Init
<1>3. /\ m_now \in 0..MaxTime /\ m_token \in Tokens \cup {NoToken}
      /\ m_expire_at \in 0..(m_now + MaxDuration)
  BY DEF Memory!Init
<1>4. /\ m_fences = 0 /\ m_minted = 0 /\ m_opens = 0
      /\ m_fences \in 0..MaxFence /\ m_minted \in 0..MaxFence /\ m_opens \in 0..MaxOpens
  BY DEF Memory!Init
<1> QED
  BY <1>1, <1>2, <1>3, <1>4 DEF MemoryInv, Memory!TypeOK

\* acquire keeps the invariant.
LEMMA MemoryAcquires ==
  ASSUME MemoryInv, NEW t \in Tokens, NEW d \in Memory!Durations, Memory!acquire(t, d)
  PROVE  MemoryInv'
<1> USE MemoryConstants DEF MemoryInv, Memory!TypeOK
<1>1. CASE m_reply' = Memory!LB!Reply(t, "refused", 0)
           /\ UNCHANGED <<m_token, m_expire_at, m_fences, m_minted>>
  <2>1. m_reply' \in [token : Tokens \cup {NoToken}, answer : Memory!LB!Answers, fence : 0..MaxFence]
    BY <1>1, MemoryReply
  <2> QED BY <1>1, <2>1 DEF Memory!acquire
<1>2. CASE /\ Memory!NextFence(Memory!Free) <= MaxFence
           /\ m_fences' = Memory!NextFence(Memory!Free)
           /\ m_token' = t
           /\ m_expire_at' = Memory!ExpireAt(d)
           /\ m_minted' = m_fences'
           /\ m_reply' = Memory!LB!Reply(t, "granted", m_fences')
  <2>1. m_fences' \in 0..MaxFence
    BY <1>2 DEF Memory!NextFence
  <2>2. m_reply' \in [token : Tokens \cup {NoToken}, answer : Memory!LB!Answers, fence : 0..MaxFence]
    BY <1>2, <2>1, MemoryReply
  <2>3. UNCHANGED <<m_now, m_opens, m_opened>> /\ m_opened
    BY DEF Memory!acquire
  <2> QED BY <1>2, <2>1, <2>2, <2>3 DEF Memory!ExpireAt, Memory!Durations
<1> QED
  BY <1>1, <1>2 DEF Memory!acquire, Memory!lock

\* Every step keeps the invariant.
LEMMA MemoryNextInv == MemoryInv /\ [Memory!Next]_(Memory!vars) => MemoryInv'
<1> SUFFICES ASSUME MemoryInv, [Memory!Next]_(Memory!vars) PROVE MemoryInv'
  OBVIOUS
<1> USE MemoryConstants
<1>1. CASE UNCHANGED Memory!vars
  BY <1>1 DEF Memory!vars, MemoryInv, Memory!TypeOK
<1>2. ASSUME NEW t \in Tokens, NEW d \in Memory!Durations, Memory!acquire(t, d) PROVE MemoryInv'
  BY <1>2, MemoryAcquires
<1>3. ASSUME NEW t \in Tokens, Memory!release(t) PROVE MemoryInv'
  <2>1. m_reply' \in [token : Tokens \cup {NoToken}, answer : Memory!LB!Answers, fence : 0..MaxFence]
    BY <1>3, MemoryReply DEF Memory!release
  <2>2. m_token' \in Tokens \cup {NoToken} /\ m_expire_at' \in 0..(m_now + MaxDuration)
    BY <1>3 DEF Memory!release, Memory!Del, Memory!lock, MemoryInv, Memory!TypeOK
  <2> QED BY <1>3, <2>1, <2>2 DEF Memory!release, MemoryInv, Memory!TypeOK
<1>4. CASE Memory!open
  <2>1. m_opened' \in BOOLEAN
    BY <1>4 DEF Memory!open
  <2>2. m_opens' \in 0..MaxOpens /\ m_opens' = m_opens + 1
    BY <1>4 DEF Memory!open, MemoryInv, Memory!TypeOK
  <2> QED BY <1>4, <2>1, <2>2 DEF Memory!open, Memory!lock, MemoryInv, Memory!TypeOK
<1>5. CASE Memory!close
  <2>1. m_opened' \in BOOLEAN /\ ~ m_opened'
    BY <1>5 DEF Memory!close
  <2>2. m_opens # 0
    BY <1>5 DEF Memory!close, MemoryInv, Memory!TypeOK
  <2> QED BY <1>5, <2>1, <2>2 DEF Memory!close, Memory!Del, MemoryInv, Memory!TypeOK
<1>6. CASE Memory!Tick
  BY <1>6 DEF Memory!Tick, Memory!lock, MemoryInv, Memory!TypeOK
<1> QED
  BY <1>1, <1>2, <1>3, <1>4, <1>5, <1>6 DEF Memory!Next

\* Every step of an adapter that is opened once is a step of the protocol or stutters.
LEMMA MemoryRefines ==
  MaxOpens <= 1 /\ MemoryInv /\ [Memory!Next]_(Memory!vars) => [Memory!LB!Next]_(Memory!LB!vars)
<1> SUFFICES ASSUME MaxOpens <= 1, MemoryInv, [Memory!Next]_(Memory!vars)
             PROVE  Memory!LB!Next \/ UNCHANGED Memory!LB!vars
  OBVIOUS
<1> USE MemoryConstants
<1>0. /\ m_now \in Nat /\ m_expire_at \in Nat /\ m_fences \in Nat /\ m_minted \in Nat
      /\ m_token \in Tokens \cup {NoToken}
      /\ m_opened => m_fences = m_minted
  BY DEF MemoryInv, Memory!TypeOK
<1>1. CASE UNCHANGED Memory!vars
  BY <1>1 DEF Memory!vars, Memory!LB!vars, Memory!locked
<1>2. ASSUME NEW t \in Tokens, NEW d \in Memory!Durations, Memory!acquire(t, d)
      PROVE  Memory!LB!Next
  <2>1. CASE m_reply' = Memory!LB!Reply(t, "refused", 0)
             /\ UNCHANGED <<m_token, m_expire_at, m_fences, m_minted>>
             /\ ~ Memory!Free /\ m_token # t
    <3>1. UNCHANGED m_now
      BY <1>2 DEF Memory!acquire
    <3>2. Memory!LB!Refuse(t)
      BY <1>0, <2>1, <3>1 DEF Memory!LB!Refuse, Memory!locked, Memory!Free, Memory!Expired
    <3> QED BY <3>2 DEF Memory!LB!Next, Memory!LB!Acquire
  <2>2. CASE /\ Memory!Free \/ m_token = t
             /\ Memory!NextFence(Memory!Free) <= MaxFence
             /\ m_fences' = Memory!NextFence(Memory!Free)
             /\ m_token' = t
             /\ m_expire_at' = Memory!ExpireAt(d)
             /\ m_minted' = m_fences'
             /\ m_reply' = Memory!LB!Reply(t, "granted", m_fences')
    <3>1. m_now' = m_now /\ m_fences = m_minted
      BY <1>0, <1>2 DEF Memory!acquire
    <3>2. Memory!locked' = TRUE
      BY <1>0, <2>2, <3>1 DEF Memory!locked, Memory!ExpireAt, Memory!Durations
    <3>3. Memory!locked' \in Memory!LB!GrantedLive
      BY <3>2 DEF Memory!LB!GrantedLive
    <3>4. CASE Memory!Free
      <4>1. ~ Memory!locked
        BY <1>0, <3>4 DEF Memory!locked, Memory!Free, Memory!Expired
      <4>2. m_fences' = m_minted + 1 /\ m_minted < MaxFence
        BY <1>0, <2>2, <3>1, <3>4 DEF Memory!NextFence
      <4>3. Memory!LB!Mint(t)
        BY <2>2, <3>3, <4>1, <4>2 DEF Memory!LB!Mint
      <4> QED BY <4>3 DEF Memory!LB!Next, Memory!LB!Acquire
    <3>5. CASE ~ Memory!Free
      <4>1. Memory!locked /\ m_token = t
        BY <1>0, <2>2, <3>5 DEF Memory!locked, Memory!Free, Memory!Expired
      <4>2. m_fences' = m_minted
        BY <2>2, <3>1, <3>5 DEF Memory!NextFence
      <4>3. Memory!LB!Extend(t)
        BY <2>2, <3>3, <4>1, <4>2 DEF Memory!LB!Extend
      <4> QED BY <4>3 DEF Memory!LB!Next, Memory!LB!Acquire
    <3> QED BY <3>4, <3>5
  <2> QED BY <1>2, <2>1, <2>2 DEF Memory!acquire, Memory!lock
<1>3. ASSUME NEW t \in Tokens, Memory!release(t) PROVE Memory!LB!Next
  <2>0. UNCHANGED <<m_now, m_fences, m_minted>>
    BY <1>3 DEF Memory!release
  <2>1. CASE m_token = t /\ ~ Memory!Expired /\ Memory!Del
             /\ m_reply' = Memory!LB!Reply(t, "released", 0)
    <3>1. Memory!LB!Release(t)
      BY <2>0, <2>1 DEF Memory!LB!Release, Memory!Del, Memory!locked
    <3> QED BY <3>1 DEF Memory!LB!Next, Memory!LB!TryRelease
  <2>2. CASE m_token # NoToken /\ Memory!Expired /\ Memory!Del
             /\ m_reply' = Memory!LB!Reply(t, "not_owned", 0)
    <3>1. ~ Memory!locked /\ ~ Memory!locked'
      BY <1>0, <2>2 DEF Memory!Expired, Memory!Del, Memory!locked
    <3>2. Memory!LB!RefuseRelease(t)
      BY <2>0, <2>2, <3>1 DEF Memory!LB!RefuseRelease, Memory!Del, Memory!locked
    <3> QED BY <3>2 DEF Memory!LB!Next, Memory!LB!TryRelease
  <2>3. CASE /\ m_token # t /\ ~(m_token # NoToken /\ Memory!Expired)
             /\ UNCHANGED Memory!lock /\ m_reply' = Memory!LB!Reply(t, "not_owned", 0)
    <3>1. Memory!LB!RefuseRelease(t)
      BY <2>0, <2>3 DEF Memory!LB!RefuseRelease, Memory!lock, Memory!locked
    <3> QED BY <3>1 DEF Memory!LB!Next, Memory!LB!TryRelease
  <2> QED BY <1>3, <2>1, <2>2, <2>3 DEF Memory!release
<1>4. CASE Memory!open
  BY <1>4 DEF Memory!open, Memory!lock, Memory!LB!vars, Memory!locked
<1>5. CASE Memory!close
  <2>1. m_token' = NoToken /\ ~ Memory!locked' /\ UNCHANGED <<m_minted, m_reply>>
    BY <1>5 DEF Memory!close, Memory!Del, Memory!locked
  <2>2. CASE Memory!locked
    <3>1. Memory!LB!Lapse
      BY <2>1, <2>2 DEF Memory!LB!Lapse, Memory!locked
    <3> QED BY <3>1 DEF Memory!LB!Next
  <2>3. CASE ~ Memory!locked
    <3>1. Memory!LB!Vacate
      BY <2>1, <2>3 DEF Memory!LB!Vacate, Memory!locked
    <3> QED BY <3>1 DEF Memory!LB!Next
  <2> QED BY <2>2, <2>3
<1>6. CASE Memory!Tick
  <2>1. UNCHANGED <<m_token, m_expire_at, m_minted, m_reply>> /\ m_now' = m_now + 1
    BY <1>6 DEF Memory!Tick, Memory!lock
  <2>2. CASE Memory!locked /\ ~ Memory!locked'
    <3>1. Memory!LB!Lapse
      BY <2>1, <2>2 DEF Memory!LB!Lapse, Memory!locked
    <3> QED BY <3>1 DEF Memory!LB!Next
  <2>3. CASE ~(Memory!locked /\ ~ Memory!locked')
    BY <1>0, <2>1, <2>3 DEF Memory!LB!vars, Memory!locked
  <2> QED BY <2>2, <2>3
<1> QED
  BY <1>1, <1>2, <1>3, <1>4, <1>5, <1>6 DEF Memory!Next

\* A step that answers with a refusal has a cause for it.
LEMMA MemoryRefuses ==
  ASSUME MemoryInv, [Memory!Next]_(Memory!vars), m_reply' # m_reply, NEW t \in Tokens
  PROVE  /\ m_reply' = Memory!LB!Reply(t, "refused", 0) => Memory!locked' /\ ~ Memory!owned(t)'
         /\ m_reply' = Memory!LB!Reply(t, "not_owned", 0) => ~ Memory!owned(t)'
<1> USE MemoryConstants
<1>0. /\ m_now \in Nat /\ m_expire_at \in Nat /\ m_token \in Tokens \cup {NoToken}
  BY DEF MemoryInv, Memory!TypeOK
<1>1. ASSUME NEW u \in Tokens, NEW d \in Memory!Durations, Memory!acquire(u, d)
      PROVE  /\ m_reply' = Memory!LB!Reply(t, "refused", 0) => Memory!locked' /\ ~ Memory!owned(t)'
             /\ m_reply' = Memory!LB!Reply(t, "not_owned", 0) => ~ Memory!owned(t)'
  BY <1>0, <1>1 DEF Memory!acquire, Memory!LB!Reply, Memory!lock, Memory!locked, Memory!owned, Memory!Free,
     Memory!Expired
<1>2. ASSUME NEW u \in Tokens, Memory!release(u)
      PROVE  /\ m_reply' = Memory!LB!Reply(t, "refused", 0) => Memory!locked' /\ ~ Memory!owned(t)'
             /\ m_reply' = Memory!LB!Reply(t, "not_owned", 0) => ~ Memory!owned(t)'
  BY <1>0, <1>2 DEF Memory!release, Memory!LB!Reply, Memory!lock, Memory!locked, Memory!owned, Memory!Del,
     Memory!Expired
<1> QED
  BY <1>1, <1>2 DEF Memory!Next, Memory!open, Memory!close, Memory!Tick, Memory!vars

\* memory.py implements the backend protocol when it is opened once, and refuses only with
\* a cause.  (Opened again it counts its fencing tokens from the start.)
THEOREM MemoryImplements ==
  ASSUME MaxOpens <= 1
  PROVE  Memory!Spec => Memory!Implements /\ Memory!RefusalsHaveACause
<1>1. Memory!Init => Memory!LB!Init
  BY DEF Memory!Init, Memory!LB!Init, Memory!locked
<1>2. MemoryInv /\ [Memory!Next]_(Memory!vars) =>
        [\A t \in Tokens :
           /\ m_reply' = Memory!LB!Reply(t, "refused", 0) => Memory!locked' /\ ~ Memory!owned(t)'
           /\ m_reply' = Memory!LB!Reply(t, "not_owned", 0) => ~ Memory!owned(t)']_m_reply
  BY MemoryRefuses
<1> QED
  BY <1>1, <1>2, MemoryInit, MemoryNextInv, MemoryRefines, PTL
     DEF Memory!Spec, Memory!Implements, Memory!RefusalsHaveACause, Memory!LB!Spec

\* The variables of memory.py keep their types, however often it is opened.
THEOREM MemoryTypes == Memory!Spec => []Memory!TypeOK
<1>1. MemoryInv => Memory!TypeOK
  BY DEF MemoryInv
<1> QED BY <1>1, MemoryInit, MemoryNextInv, PTL DEF Memory!Spec

-----------------------------------------------------------------------------
\* Whole units of a length of time.

\* What a division leaves is less than the divisor.
LEMMA DivBounds ==
  ASSUME NEW x \in Nat, NEW T \in Nat \ {0}
  PROVE  /\ x \div T \in Nat
         /\ T * (x \div T) <= x
         /\ x < T * (x \div T) + T
  OBVIOUS

\* A multiple below the end of a unit is at most the multiple that starts it.
LEMMA MultiplesBelow ==
  ASSUME NEW T \in Nat \ {0}, NEW p \in Nat, NEW q \in Nat, T * p < T * q + T
  PROVE  p <= q
<1>1. CASE p >= q + 1
  <2>1. PICK k \in Nat : p = q + 1 + k
    BY <1>1
  <2>2. T * p = T * q + T + T * k
    BY <2>1
  <2>3. T * k >= 0
    BY <2>1
  <2> QED BY <2>2, <2>3
<1> QED BY <1>1

-----------------------------------------------------------------------------
\* redis.py

\* The fence inside a lock key is the counter's, and a lease ends less than a millisecond
\* before the time it was asked for.
RedisInv ==
  /\ Redis!TypeOK
  /\ r_token # NoToken => r_fence = r_counter /\ r_asked < r_expire_at + TicksPerMs

\* The constants of the adapter.
LEMMA RedisConstants ==
  /\ NoToken \notin Tokens
  /\ MaxFence \in Nat /\ RedisDuration \in Nat /\ RedisTime \in Nat
  /\ TicksPerMs \in Nat \ {0}
  BY AdapterAssumptions DEF Redis!RedisAssumption

\* An answer has the type of a reply.
LEMMA RedisReply ==
  ASSUME NEW t \in Tokens \cup {NoToken}, NEW a \in {"granted", "refused", "released", "not_owned"},
         NEW f \in 0..MaxFence
  PROVE  Redis!LB!Reply(t, a, f) \in
           [token : Tokens \cup {NoToken}, answer : Redis!LB!Answers, fence : 0..MaxFence]
  BY DEF Redis!LB!Reply, Redis!LB!Answers

\* A TTL of at least a millisecond ends after now, by the duration cut to milliseconds.
LEMMA RedisExpiry ==
  ASSUME r_now \in Nat, NEW d \in Redis!Durations
  PROVE  /\ Redis!ExpireAt(d) \in Nat /\ d \in Nat /\ d <= RedisDuration
         /\ r_now < Redis!ExpireAt(d) /\ Redis!ExpireAt(d) <= r_now + d
         /\ r_now + d < Redis!ExpireAt(d) + TicksPerMs
<1> USE RedisConstants
<1>1. d \in Nat /\ d >= TicksPerMs /\ d <= RedisDuration
  BY DEF Redis!Durations
<1> DEFINE px == d \div TicksPerMs
<1>2. /\ px \in Nat /\ TicksPerMs * px <= d /\ d < TicksPerMs * px + TicksPerMs
  BY <1>1, DivBounds
<1>3. TicksPerMs * 1 < TicksPerMs * px + TicksPerMs
  BY <1>1, <1>2
<1>4. 1 <= px
  BY <1>2, <1>3, MultiplesBelow
<1>5. Redis!ExpireAt(d) = r_now + TicksPerMs * px
  BY DEF Redis!ExpireAt, Redis!Px
<1> HIDE DEF px
<1>6. TicksPerMs * px \in Nat /\ TicksPerMs * px > 0
  BY <1>2, <1>4
<1> QED BY <1>1, <1>2, <1>5, <1>6

\* The empty store.
LEMMA RedisInit == Redis!Init => RedisInv
<1> SUFFICES ASSUME Redis!Init PROVE RedisInv
  OBVIOUS
<1> USE RedisConstants
<1>1. r_reply \in [token : Tokens \cup {NoToken}, answer : Redis!LB!Answers, fence : 0..MaxFence]
  BY RedisReply DEF Redis!Init, Redis!LB!NoReply
<1> QED
  BY <1>1 DEF Redis!Init, RedisInv, Redis!TypeOK

\* Every step keeps the invariant.
LEMMA RedisNextInv == RedisInv /\ [Redis!Next]_(Redis!vars) => RedisInv'
<1> SUFFICES ASSUME RedisInv, [Redis!Next]_(Redis!vars) PROVE RedisInv'
  OBVIOUS
<1> USE RedisConstants
<1>1. CASE UNCHANGED Redis!vars
  BY <1>1 DEF Redis!vars, RedisInv, Redis!TypeOK
<1>2. ASSUME NEW t \in Tokens, NEW d \in Redis!Durations, Redis!acquire(t, d) PROVE RedisInv'
  <2>0. r_now' = r_now /\ r_now \in 0..RedisTime
    BY <1>2 DEF Redis!acquire, RedisInv, Redis!TypeOK
  <2>1. CASE Redis!TakeFresh(t, d)
    <3>1. r_counter' \in 0..MaxFence /\ r_fence' = r_counter'
      BY <2>1 DEF Redis!TakeFresh, RedisInv, Redis!TypeOK
    <3>2. r_reply' \in [token : Tokens \cup {NoToken}, answer : Redis!LB!Answers, fence : 0..MaxFence]
      BY <2>1, <3>1, RedisReply DEF Redis!TakeFresh
    <3>3. r_expire_at' = Redis!ExpireAt(d) /\ r_asked' = r_now + d /\ r_token' = t
      BY <2>1 DEF Redis!TakeFresh
    <3> QED BY <2>0, <3>1, <3>2, <3>3, RedisExpiry DEF RedisInv, Redis!TypeOK
  <2>2. CASE Redis!Renew(t, d)
    <3>1. r_reply' \in [token : Tokens \cup {NoToken}, answer : Redis!LB!Answers, fence : 0..MaxFence]
      BY <2>2, RedisReply DEF Redis!Renew, RedisInv, Redis!TypeOK
    <3>2. /\ r_expire_at' = Redis!ExpireAt(d) /\ r_asked' = r_now + d
          /\ UNCHANGED <<r_token, r_fence, r_counter>>
      BY <2>2 DEF Redis!Renew
    <3> QED BY <2>0, <3>1, <3>2, RedisExpiry DEF RedisInv, Redis!TypeOK
  <2>3. CASE Redis!Refuse(t)
    BY <2>0, <2>3, RedisReply DEF Redis!Refuse, Redis!key, RedisInv, Redis!TypeOK
  <2> QED BY <1>2, <2>1, <2>2, <2>3 DEF Redis!acquire
<1>3. ASSUME NEW t \in Tokens, Redis!release(t) PROVE RedisInv'
  <2>1. r_reply' \in [token : Tokens \cup {NoToken}, answer : Redis!LB!Answers, fence : 0..MaxFence]
    BY <1>3, RedisReply DEF Redis!release
  <2> QED BY <1>3, <2>1 DEF Redis!release, Redis!key, RedisInv, Redis!TypeOK
<1>4. CASE Redis!Tick
  BY <1>4 DEF Redis!Tick, Redis!key, RedisInv, Redis!TypeOK
<1> QED
  BY <1>1, <1>2, <1>3, <1>4 DEF Redis!Next

\* Every step of the scripts is a step of the protocol or stutters.
LEMMA RedisRefines == RedisInv /\ [Redis!Next]_(Redis!vars) => [Redis!LB!Next]_(Redis!LB!vars)
<1> SUFFICES ASSUME RedisInv, [Redis!Next]_(Redis!vars)
             PROVE  Redis!LB!Next \/ UNCHANGED Redis!LB!vars
  OBVIOUS
<1> USE RedisConstants
<1>0. /\ r_now \in Nat /\ r_expire_at \in Nat /\ r_fence \in Nat /\ r_counter \in Nat
      /\ r_token \in Tokens \cup {NoToken}
      /\ r_token # NoToken => r_fence = r_counter
  BY DEF RedisInv, Redis!TypeOK
<1>1. CASE UNCHANGED Redis!vars
  BY <1>1 DEF Redis!vars, Redis!LB!vars, Redis!stored
<1>2. ASSUME NEW t \in Tokens, NEW d \in Redis!Durations, Redis!acquire(t, d)
      PROVE  Redis!LB!Next
  <2>0. r_now' = r_now
    BY <1>2 DEF Redis!acquire
  <2>1. CASE Redis!TakeFresh(t, d)
    <3>1. Redis!stored' = TRUE /\ r_token' = t
      BY <1>0, <2>0, <2>1, RedisExpiry DEF Redis!TakeFresh, Redis!stored
    <3>2. Redis!LB!Mint(t)
      BY <2>1, <3>1 DEF Redis!TakeFresh, Redis!LB!Mint, Redis!LB!GrantedLive
    <3> QED BY <3>2 DEF Redis!LB!Next, Redis!LB!Acquire
  <2>2. CASE Redis!Renew(t, d)
    <3>1. Redis!stored' = TRUE /\ r_token' = t /\ Redis!stored /\ r_token = t
      BY <1>0, <2>0, <2>2, RedisExpiry DEF Redis!Renew, Redis!owned, Redis!stored
    <3>2. Redis!LB!Extend(t)
      BY <1>0, <2>2, <3>1 DEF Redis!Renew, Redis!LB!Extend, Redis!LB!GrantedLive
    <3> QED BY <3>2 DEF Redis!LB!Next, Redis!LB!Acquire
  <2>3. CASE Redis!Refuse(t)
    <3>1. Redis!LB!Refuse(t)
      BY <2>0, <2>3 DEF Redis!Refuse, Redis!key, Redis!LB!Refuse, Redis!stored
    <3> QED BY <3>1 DEF Redis!LB!Next, Redis!LB!Acquire
  <2> QED BY <1>2, <2>1, <2>2, <2>3 DEF Redis!acquire
<1>3. ASSUME NEW t \in Tokens, Redis!release(t) PROVE Redis!LB!Next
  <2>0. UNCHANGED <<r_now, r_counter>>
    BY <1>3 DEF Redis!release
  <2>1. CASE /\ Redis!owned(t)
             /\ r_token' = NoToken
             /\ r_reply' = Redis!LB!Reply(t, "released", 0)
    <3>1. Redis!stored /\ r_token = t /\ Redis!stored' = FALSE
      BY <2>1 DEF Redis!owned, Redis!stored
    <3>2. Redis!LB!Release(t)
      BY <2>0, <2>1, <3>1 DEF Redis!LB!Release
    <3> QED BY <3>2 DEF Redis!LB!Next, Redis!LB!TryRelease
  <2>2. CASE /\ ~ Redis!owned(t)
             /\ UNCHANGED Redis!key
             /\ r_reply' = Redis!LB!Reply(t, "not_owned", 0)
    <3>1. Redis!stored' = Redis!stored /\ r_token' = r_token
      BY <2>0, <2>2 DEF Redis!key, Redis!stored
    <3>2. Redis!LB!RefuseRelease(t)
      BY <2>0, <2>2, <3>1 DEF Redis!owned, Redis!LB!RefuseRelease
    <3> QED BY <3>2 DEF Redis!LB!Next, Redis!LB!TryRelease
  <2> QED BY <1>3, <2>1, <2>2 DEF Redis!release
<1>4. CASE Redis!Tick
  <2>1. UNCHANGED <<r_token, r_expire_at, r_counter, r_reply>> /\ r_now' = r_now + 1
    BY <1>4 DEF Redis!Tick, Redis!key
  <2>2. CASE Redis!stored /\ ~ Redis!stored'
    <3>1. Redis!stored' = FALSE
      BY <2>2 DEF Redis!stored
    <3>2. Redis!LB!Lapse
      BY <2>1, <2>2, <3>1 DEF Redis!LB!Lapse
    <3> QED BY <3>2 DEF Redis!LB!Next
  <2>3. CASE ~(Redis!stored /\ ~ Redis!stored')
    <3>1. Redis!stored' = Redis!stored
      BY <1>0, <2>1, <2>3 DEF Redis!stored
    <3> QED BY <2>1, <3>1 DEF Redis!LB!vars
  <2> QED BY <2>2, <2>3
<1> QED
  BY <1>1, <1>2, <1>3, <1>4 DEF Redis!Next

\* redis.py implements the backend protocol; its variables keep their types, and the TTL
\* costs a lease less than a millisecond.
THEOREM RedisImplements ==
  Redis!Spec => Redis!Implements /\ [](Redis!TypeOK /\ Redis!LeaseCutBelowOneMs)
<1>1. Redis!Init => Redis!LB!Init
  BY DEF Redis!Init, Redis!LB!Init, Redis!stored
<1>2. RedisInv => Redis!TypeOK /\ Redis!LeaseCutBelowOneMs
  BY RedisConstants DEF RedisInv, Redis!TypeOK, Redis!LeaseCutBelowOneMs, Redis!locked, Redis!stored
<1> QED
  BY <1>1, <1>2, RedisInit, RedisNextInv, RedisRefines, PTL
     DEF Redis!Spec, Redis!Implements, Redis!LB!Spec
-----------------------------------------------------------------------------
\* kubernetes.py

\* A call acts on a time that is past; what it read is the Lease itself while the version
\* is the same, and once it is another the Lease is not the caller's; and it went on to
\* write for a reason that its own clock gave.
KeepsCall(t) ==
  LET c == k_call[t] IN
  /\ c.pc # "idle" =>
       /\ c.began <= k_now
       /\ c.op \in (IF t = Closer THEN {"close"} ELSE {"acquire", "release"})
  /\ c.pc = "put" =>
       /\ c.at <= k_now
       /\ c.got.version <= k_lease.version
       /\ c.got.version = k_lease.version => c.got = k_lease
       /\ c.got.version # k_lease.version => k_lease.holder # t
       /\ c.op = "acquire" /\ Kubernetes!LiveAt(c.got, c.began) => c.got.holder = t
       /\ c.op = "release" => c.got.holder = t
       /\ c.op = "close" => ~ Kubernetes!LiveAt(c.got, c.began)

KubernetesInv == Kubernetes!TypeOK /\ \A t \in Kubernetes!Clients : KeepsCall(t)

\* The constants of the adapter.
LEMMA KubernetesConstants ==
  /\ NoToken \notin Tokens /\ Closer \notin Tokens /\ NoToken # Closer
  /\ MaxFence \in Nat /\ LeaseDuration \in Nat /\ LeaseTime \in Nat /\ MaxVersion \in Nat
  /\ LeaseSecond \in Nat \ {0}
  BY AdapterAssumptions DEF Kubernetes!KubernetesAssumption

\* An answer has the type of a reply.
LEMMA KubernetesReply ==
  ASSUME NEW t \in Tokens \cup {NoToken}, NEW a \in {"granted", "refused", "released", "not_owned"},
         NEW f \in 0..MaxFence
  PROVE  Kubernetes!LB!Reply(t, a, f) \in
           [token : Tokens \cup {NoToken}, answer : Kubernetes!LB!Answers, fence : 0..MaxFence]
  BY DEF Kubernetes!LB!Reply, Kubernetes!LB!Answers

\* Rounding up to whole units never exceeds the number of ticks, and reaches it.
LEMMA CeilBounds ==
  ASSUME NEW d \in Nat, NEW T \in Nat \ {0}
  PROVE  /\ (d + T - 1) \div T \in Nat
         /\ (d + T - 1) \div T <= d
         /\ d <= T * ((d + T - 1) \div T)
<1> DEFINE q == (d + T - 1) \div T
<1>1. d + T - 1 \in Nat
  OBVIOUS
<1>2. q \in Nat /\ T * q <= d + T - 1 /\ d + T - 1 < T * q + T
  BY <1>1, DivBounds
<1> HIDE DEF q
<1>3. d <= T * q
  BY <1>2
<1>4. T * q < T * d + T
  <2>1. d <= T * d
    <3>1. PICK m \in Nat : T = m + 1
      BY T - 1 \in Nat
    <3>2. T * d = m * d + d /\ m * d \in Nat
      BY <3>1
    <3> QED BY <3>2
  <2> QED BY <1>2, <2>1
<1>5. q <= d
  BY <1>2, <1>4, MultiplesBelow
<1> QED BY <1>2, <1>3, <1>5 DEF q

\* A Lease that is live later was live before.
LEMMA LiveEarlier ==
  ASSUME NEW l \in Kubernetes!Leases, NEW m \in Nat, NEW n \in Nat, m <= n, Kubernetes!LiveAt(l, n)
  PROVE  Kubernetes!LiveAt(l, m)
<1>1. Kubernetes!_get_expire_at(l) \in Int
  BY KubernetesConstants DEF Kubernetes!_get_expire_at, Kubernetes!Leases
<1> QED BY <1>1 DEF Kubernetes!LiveAt

\* What stands for no call is one that is idle.
LEMMA NoCallTypes == Kubernetes!NoCall \in Kubernetes!Calls /\ Kubernetes!NoCall.pc = "idle"
<1>1. Kubernetes!NoLease \in Kubernetes!Leases
  BY KubernetesConstants DEF Kubernetes!NoLease, Kubernetes!Leases
<1> QED
  BY <1>1, KubernetesConstants DEF Kubernetes!NoCall, Kubernetes!Calls

\* No Lease yet and nobody calls.
LEMMA KubernetesInit == Kubernetes!Init => KubernetesInv
<1> SUFFICES ASSUME Kubernetes!Init PROVE KubernetesInv
  OBVIOUS
<1> USE KubernetesConstants
<1>1. k_reply \in [token : Tokens \cup {NoToken}, answer : Kubernetes!LB!Answers, fence : 0..MaxFence]
  BY KubernetesReply DEF Kubernetes!Init, Kubernetes!LB!NoReply
<1>2. k_lease = Kubernetes!NoLease /\ Kubernetes!NoLease \in Kubernetes!Leases
  BY DEF Kubernetes!Init, Kubernetes!NoLease, Kubernetes!Leases
<1>3. Kubernetes!NoCall \in Kubernetes!Calls
  BY NoCallTypes
<1>4. k_call \in [Kubernetes!Clients -> Kubernetes!Calls]
  BY <1>3 DEF Kubernetes!Init
<1>5. \A t \in Kubernetes!Clients : KeepsCall(t)
  BY DEF Kubernetes!Init, KeepsCall, Kubernetes!NoCall
<1>6. k_lease.renewed = 0 /\ k_lease.transitions = 0 /\ k_lease.version = 0 /\ k_now = 0
  BY DEF Kubernetes!Init, Kubernetes!NoLease
<1> QED
  BY <1>1, <1>2, <1>4, <1>5, <1>6 DEF KubernetesInv, Kubernetes!TypeOK

\* A call that ends, and no Lease written.
LEMMA KubernetesFinish ==
  ASSUME KubernetesInv, NEW t \in Kubernetes!Clients, Kubernetes!Finish(t), UNCHANGED <<k_now, k_lease>>,
         k_reply' \in [token : Tokens \cup {NoToken}, answer : Kubernetes!LB!Answers, fence : 0..MaxFence]
  PROVE  KubernetesInv'
<1> USE KubernetesConstants
<1>0. Kubernetes!NoCall \in Kubernetes!Calls /\ Kubernetes!NoCall.pc = "idle"
  BY NoCallTypes
<1>1. /\ k_call' \in [Kubernetes!Clients -> Kubernetes!Calls] /\ k_call'[t] = Kubernetes!NoCall
      /\ \A u \in Kubernetes!Clients : u # t => k_call'[u] = k_call[u]
  BY <1>0 DEF KubernetesInv, Kubernetes!TypeOK, Kubernetes!Finish
<1>2. \A u \in Kubernetes!Clients : KeepsCall(u)'
  BY <1>0, <1>1 DEF KubernetesInv, KeepsCall, Kubernetes!LiveAt, Kubernetes!_get_expire_at
<1> QED BY <1>1, <1>2 DEF KubernetesInv, Kubernetes!TypeOK

\* A call that begins.
LEMMA KubernetesBegin ==
  ASSUME KubernetesInv, NEW t \in Kubernetes!Clients, NEW o \in {"acquire", "release", "close"},
         o \in (IF t = Closer THEN {"close"} ELSE {"acquire", "release"}),
         NEW d \in 0..LeaseDuration, Kubernetes!Begin(t, o, d)
  PROVE  KubernetesInv'
<1> USE KubernetesConstants
<1> DEFINE c == [Kubernetes!NoCall EXCEPT !.pc = "get", !.op = o, !.duration = d, !.began = k_now]
<1>0. /\ c \in Kubernetes!Calls /\ c.pc = "get" /\ c.op = o /\ c.began = k_now
  <2>1. Kubernetes!NoCall \in Kubernetes!Calls /\ k_now \in 0..LeaseTime
    BY NoCallTypes DEF KubernetesInv, Kubernetes!TypeOK
  <2> QED BY <2>1 DEF Kubernetes!Calls
<1>1. k_call' = [k_call EXCEPT ![t] = c] /\ UNCHANGED <<k_now, k_lease, k_reply>>
  BY DEF Kubernetes!Begin
<1> HIDE DEF c
<1>2. /\ k_call' \in [Kubernetes!Clients -> Kubernetes!Calls] /\ k_call'[t] = c
      /\ \A u \in Kubernetes!Clients : u # t => k_call'[u] = k_call[u]
  BY <1>0, <1>1 DEF KubernetesInv, Kubernetes!TypeOK
<1>3. KeepsCall(t)'
  BY <1>0, <1>1, <1>2 DEF KeepsCall, KubernetesInv, Kubernetes!TypeOK
<1>4. \A u \in Kubernetes!Clients : u # t => KeepsCall(u)'
  BY <1>1, <1>2 DEF KubernetesInv, KeepsCall, Kubernetes!LiveAt, Kubernetes!_get_expire_at
<1> QED BY <1>1, <1>2, <1>3, <1>4 DEF KubernetesInv, Kubernetes!TypeOK

\* A call that has read the Lease and goes on to write.
LEMMA KubernetesRead ==
  ASSUME KubernetesInv, NEW t \in Kubernetes!Clients, k_call[t].pc = "get", Kubernetes!Read(t),
         UNCHANGED <<k_now, k_lease, k_reply>>,
         k_call[t].op = "acquire" /\ Kubernetes!LiveAt(k_lease, k_call[t].began) => k_lease.holder = t,
         k_call[t].op = "release" => k_lease.holder = t,
         k_call[t].op = "close" => ~ Kubernetes!LiveAt(k_lease, k_call[t].began)
  PROVE  KubernetesInv'
<1> USE KubernetesConstants
<1> DEFINE c == [k_call[t] EXCEPT !.pc = "put", !.got = k_lease, !.at = k_now]
<1>0. k_call[t] \in Kubernetes!Calls /\ k_lease \in Kubernetes!Leases /\ k_now \in 0..LeaseTime
  BY DEF KubernetesInv, Kubernetes!TypeOK
<1>1. /\ c \in Kubernetes!Calls /\ c.pc = "put" /\ c.op = k_call[t].op /\ c.began = k_call[t].began
      /\ c.got = k_lease /\ c.at = k_now
  BY <1>0 DEF Kubernetes!Calls
<1>2. k_call' = [k_call EXCEPT ![t] = c]
  BY DEF Kubernetes!Read, KubernetesInv, Kubernetes!TypeOK
<1> HIDE DEF c
<1>3. /\ k_call' \in [Kubernetes!Clients -> Kubernetes!Calls] /\ k_call'[t] = c
      /\ \A u \in Kubernetes!Clients : u # t => k_call'[u] = k_call[u]
  BY <1>1, <1>2 DEF KubernetesInv, Kubernetes!TypeOK
<1>4. k_call[t].began <= k_now /\ k_call[t].op \in (IF t = Closer THEN {"close"} ELSE {"acquire", "release"})
  BY DEF KubernetesInv, KeepsCall
<1>5. KeepsCall(t)'
  BY <1>0, <1>1, <1>3, <1>4 DEF KeepsCall, Kubernetes!LiveAt, Kubernetes!_get_expire_at, Kubernetes!Leases
<1>6. \A u \in Kubernetes!Clients : u # t => KeepsCall(u)'
  BY <1>3 DEF KubernetesInv, KeepsCall, Kubernetes!LiveAt, Kubernetes!_get_expire_at
<1> QED BY <1>3, <1>5, <1>6 DEF KubernetesInv, Kubernetes!TypeOK

\* A Lease that is written, under a version of its own, by a call that then ends.
LEMMA KubernetesWrites ==
  ASSUME KubernetesInv, NEW t \in Kubernetes!Clients, Kubernetes!Finish(t), UNCHANGED k_now,
         k_reply' \in [token : Tokens \cup {NoToken}, answer : Kubernetes!LB!Answers, fence : 0..MaxFence],
         k_lease' \in Kubernetes!Leases, k_lease'.renewed <= k_now,
         k_lease'.transitions <= k_lease'.version,
         k_lease'.version = k_lease.version + 1, k_lease'.holder \in {t, NoToken}
  PROVE  KubernetesInv'
<1> USE KubernetesConstants
<1>0. Kubernetes!NoCall \in Kubernetes!Calls /\ Kubernetes!NoCall.pc = "idle"
  BY NoCallTypes
<1>1. /\ k_call' \in [Kubernetes!Clients -> Kubernetes!Calls] /\ k_call'[t] = Kubernetes!NoCall
      /\ \A u \in Kubernetes!Clients : u # t => k_call'[u] = k_call[u]
  BY <1>0 DEF KubernetesInv, Kubernetes!TypeOK, Kubernetes!Finish
<1>2. KeepsCall(t)'
  BY <1>0, <1>1 DEF KeepsCall
<1>3. ASSUME NEW u \in Kubernetes!Clients, u # t PROVE KeepsCall(u)'
  <2>1. u # NoToken
    BY DEF Kubernetes!Clients
  <2>2. k_call[u].got.version \in Nat /\ k_lease.version \in Nat
    BY DEF KubernetesInv, Kubernetes!TypeOK, Kubernetes!Calls, Kubernetes!Leases
  <2>3. KeepsCall(u) /\ k_call'[u] = k_call[u]
    BY <1>1, <1>3 DEF KubernetesInv
  <2> QED BY <1>3, <2>1, <2>2, <2>3 DEF KeepsCall, Kubernetes!LiveAt, Kubernetes!_get_expire_at
<1> QED BY <1>1, <1>2, <1>3 DEF KubernetesInv, Kubernetes!TypeOK

\* What a granted acquire writes.
LEMMA PutWrites ==
  ASSUME KubernetesInv, NEW t \in Tokens, k_call[t].pc = "put", k_call[t].op = "acquire",
         Kubernetes!Current(t), k_lease.version < MaxVersion, Kubernetes!NextFence(t) <= MaxFence,
         NEW renewed \in k_call[t].at..k_now, Kubernetes!Write(t, renewed)
  PROVE  /\ k_lease' \in Kubernetes!Leases /\ k_lease'.renewed <= k_now
         /\ k_lease'.transitions <= k_lease'.version
         /\ k_lease'.version = k_lease.version + 1 /\ k_lease'.holder = t
         /\ k_lease'.transitions = Kubernetes!NextFence(t) /\ Kubernetes!NextFence(t) \in 0..MaxFence
         /\ k_call[t].got = k_lease
<1> USE KubernetesConstants
<1>0. t \in Kubernetes!Clients
  BY DEF Kubernetes!Clients
<1>1. /\ k_call[t] \in Kubernetes!Calls /\ k_lease \in Kubernetes!Leases /\ k_now \in 0..LeaseTime
      /\ k_lease.transitions <= k_lease.version
  BY <1>0 DEF KubernetesInv, Kubernetes!TypeOK
<1>2. k_call[t].got = k_lease
  BY <1>0 DEF KubernetesInv, KeepsCall, Kubernetes!Current
<1>3. /\ Kubernetes!NextFence(t) \in 0..MaxFence /\ Kubernetes!NextFence(t) <= k_lease.version + 1
  BY <1>1, <1>2 DEF Kubernetes!NextFence, Kubernetes!Leases
<1>4. Kubernetes!Seconds(k_call[t].duration) \in 0..LeaseDuration
  <2>1. k_call[t].duration \in 0..LeaseDuration
    BY <1>1 DEF Kubernetes!Calls
  <2>2. k_call[t].duration \in Nat
    BY <2>1
  <2> QED BY <2>1, <2>2, CeilBounds DEF Kubernetes!Seconds
<1>5. renewed \in 0..LeaseTime /\ renewed <= k_now
  BY <1>1 DEF Kubernetes!Calls
<1>6. k_lease.version + 1 \in 0..MaxVersion
  BY <1>1 DEF Kubernetes!Leases
<1> DEFINE f == Kubernetes!NextFence(t)
           s == Kubernetes!Seconds(k_call[t].duration)
<1>7. k_lease' = [version |-> k_lease.version + 1, holder |-> t, renewed |-> renewed,
                  seconds |-> s, transitions |-> f]
  BY DEF Kubernetes!Write
<1> HIDE DEF f, s
<1>8. f \in 0..MaxFence /\ f <= k_lease.version + 1 /\ s \in 0..LeaseDuration
  BY <1>3, <1>4 DEF f, s
<1>9. /\ k_lease' \in Kubernetes!Leases /\ k_lease'.renewed <= k_now
      /\ k_lease'.transitions <= k_lease'.version
      /\ k_lease'.version = k_lease.version + 1 /\ k_lease'.holder = t /\ k_lease'.transitions = f
  BY <1>5, <1>6, <1>7, <1>8 DEF Kubernetes!Leases
<1> QED BY <1>2, <1>3, <1>9 DEF f

\* What _vacate_lease writes.
LEMMA VacateWrites ==
  ASSUME KubernetesInv, k_lease.version < MaxVersion, k_lease' = Kubernetes!Vacated(k_lease)
  PROVE  /\ k_lease' \in Kubernetes!Leases /\ k_lease'.renewed <= k_now
         /\ k_lease'.transitions <= k_lease'.version
         /\ k_lease'.version = k_lease.version + 1 /\ k_lease'.holder = NoToken
         /\ k_lease'.transitions = k_lease.transitions /\ k_lease'.seconds = 0
<1> USE KubernetesConstants
<1>1. /\ k_lease \in Kubernetes!Leases /\ k_now \in 0..LeaseTime
      /\ k_lease.transitions <= k_lease.version
  BY DEF KubernetesInv, Kubernetes!TypeOK
<1>2. /\ k_lease.version + 1 \in 0..MaxVersion /\ 0 \in 0..LeaseTime /\ 0 \in 0..LeaseDuration
      /\ k_lease.transitions \in 0..MaxFence /\ k_lease.version \in Nat
  BY <1>1 DEF Kubernetes!Leases
<1>3. k_lease' = [version |-> k_lease.version + 1, holder |-> NoToken, renewed |-> 0, seconds |-> 0,
                  transitions |-> k_lease.transitions]
  BY <1>1 DEF Kubernetes!Vacated, Kubernetes!Leases
<1> QED BY <1>1, <1>2, <1>3 DEF Kubernetes!Leases

\* Every step keeps the invariant.
LEMMA KubernetesNextInv == KubernetesInv /\ [Kubernetes!Next]_(Kubernetes!vars) => KubernetesInv'
<1> SUFFICES ASSUME KubernetesInv, [Kubernetes!Next]_(Kubernetes!vars) PROVE KubernetesInv'
  OBVIOUS
<1> USE KubernetesConstants
<1>0. /\ k_reply \in [token : Tokens \cup {NoToken}, answer : Kubernetes!LB!Answers, fence : 0..MaxFence]
      /\ Tokens \subseteq Kubernetes!Clients /\ Closer \in Kubernetes!Clients
  BY DEF KubernetesInv, Kubernetes!TypeOK, Kubernetes!Clients
<1>1. CASE UNCHANGED Kubernetes!vars
  BY <1>1 DEF Kubernetes!vars, KubernetesInv, Kubernetes!TypeOK, KeepsCall, Kubernetes!LiveAt,
     Kubernetes!_get_expire_at
<1>2. ASSUME NEW t \in Tokens, NEW d \in Kubernetes!Durations, Kubernetes!Begin(t, "acquire", d)
      PROVE  KubernetesInv'
  BY <1>0, <1>2, KubernetesBegin DEF Kubernetes!Durations
<1>3. ASSUME NEW t \in Tokens, Kubernetes!Begin(t, "release", 0) PROVE KubernetesInv'
  BY <1>0, <1>3, KubernetesBegin
<1>4. CASE Kubernetes!Begin(Closer, "close", 0)
  BY <1>0, <1>4, KubernetesBegin
<1>5. ASSUME NEW t \in Tokens, Kubernetes!GetToAcquire(t) PROVE KubernetesInv'
  <2>1. CASE Kubernetes!Answer(t, "refused", 0) /\ Kubernetes!Finish(t)
    BY <1>0, <1>5, <2>1, KubernetesFinish, KubernetesReply DEF Kubernetes!GetToAcquire, Kubernetes!Answer
  <2>2. CASE ~ Kubernetes!OtherHolder(t, k_call[t].began) /\ Kubernetes!Read(t) /\ UNCHANGED k_reply
    BY <1>0, <1>5, <2>2, KubernetesRead DEF Kubernetes!GetToAcquire, Kubernetes!OtherHolder
  <2> QED BY <1>5, <2>1, <2>2 DEF Kubernetes!GetToAcquire
<1>6. ASSUME NEW t \in Tokens, Kubernetes!GetToRelease(t) PROVE KubernetesInv'
  <2>1. CASE Kubernetes!Answer(t, "not_owned", 0) /\ Kubernetes!Finish(t)
    BY <1>0, <1>6, <2>1, KubernetesFinish, KubernetesReply DEF Kubernetes!GetToRelease, Kubernetes!Answer
  <2>2. CASE k_lease.holder = t /\ Kubernetes!Read(t) /\ UNCHANGED k_reply
    BY <1>0, <1>6, <2>2, KubernetesRead DEF Kubernetes!GetToRelease
  <2> QED BY <1>6, <2>1, <2>2 DEF Kubernetes!GetToRelease
<1>7. ASSUME NEW t \in Tokens, Kubernetes!Put(t) PROVE KubernetesInv'
  <2>1. CASE ~ Kubernetes!Current(t) /\ Kubernetes!Answer(t, "refused", 0) /\ UNCHANGED k_lease
    BY <1>0, <1>7, <2>1, KubernetesFinish, KubernetesReply DEF Kubernetes!Put, Kubernetes!Answer
  <2>2. ASSUME Kubernetes!Current(t), k_lease.version < MaxVersion, Kubernetes!NextFence(t) <= MaxFence,
               NEW renewed \in k_call[t].at..k_now, Kubernetes!Write(t, renewed),
               Kubernetes!Answer(t, "granted", Kubernetes!NextFence(t))
        PROVE  KubernetesInv'
    <3>1. k_call[t].pc = "put" /\ k_call[t].op = "acquire" /\ Kubernetes!Finish(t) /\ UNCHANGED k_now
      BY <1>7 DEF Kubernetes!Put
    <3>2. /\ k_lease' \in Kubernetes!Leases /\ k_lease'.renewed <= k_now
          /\ k_lease'.transitions <= k_lease'.version
          /\ k_lease'.version = k_lease.version + 1 /\ k_lease'.holder = t
          /\ Kubernetes!NextFence(t) \in 0..MaxFence
      BY <2>2, <3>1, PutWrites
    <3>3. k_reply' \in [token : Tokens \cup {NoToken}, answer : Kubernetes!LB!Answers, fence : 0..MaxFence]
      BY <2>2, <3>2, KubernetesReply DEF Kubernetes!Answer
    <3> QED BY <1>0, <3>1, <3>2, <3>3, KubernetesWrites
  <2> QED BY <1>7, <2>1, <2>2 DEF Kubernetes!Put
<1>8. CASE Kubernetes!ListToClose
  <2>0. k_call[Closer].pc = "get" /\ UNCHANGED <<k_now, k_lease, k_reply>>
    BY <1>8 DEF Kubernetes!ListToClose
  <2>1. CASE Kubernetes!Finish(Closer)
    BY <1>0, <2>0, <2>1, KubernetesFinish
  <2>2. CASE /\ k_lease.seconds # 0 /\ Kubernetes!_get_expire_at(k_lease) < k_call[Closer].began
             /\ Kubernetes!Read(Closer)
    <3>1. k_call[Closer].op = "close"
      BY <1>0, <2>0 DEF KubernetesInv, KeepsCall
    <3>2. ~ Kubernetes!LiveAt(k_lease, k_call[Closer].began)
      <4>1. Kubernetes!_get_expire_at(k_lease) \in Int /\ k_call[Closer].began \in Int
        BY <1>0 DEF KubernetesInv, Kubernetes!TypeOK, Kubernetes!_get_expire_at, Kubernetes!Leases, Kubernetes!Calls
      <4> QED BY <2>2, <4>1 DEF Kubernetes!LiveAt
    <3> QED BY <1>0, <2>0, <2>2, <3>1, <3>2, KubernetesRead
  <2> QED BY <1>8, <2>1, <2>2 DEF Kubernetes!ListToClose
<1>9. ASSUME NEW t \in Kubernetes!Clients, Kubernetes!Vacate(t) PROVE KubernetesInv'
  <2>0. Kubernetes!Finish(t) /\ UNCHANGED k_now
    BY <1>9 DEF Kubernetes!Vacate
  <2>1. k_reply' \in [token : Tokens \cup {NoToken}, answer : Kubernetes!LB!Answers, fence : 0..MaxFence]
    <3>1. CASE UNCHANGED k_reply
      BY <3>1 DEF KubernetesInv, Kubernetes!TypeOK
    <3>2. ASSUME NEW a \in {"released", "not_owned"}, t # Closer, Kubernetes!Answer(t, a, 0)
          PROVE  k_reply' \in [token : Tokens \cup {NoToken}, answer : Kubernetes!LB!Answers, fence : 0..MaxFence]
      <4>1. t \in Tokens /\ a \in Kubernetes!LB!Answers /\ 0 \in 0..MaxFence
        BY <3>2 DEF Kubernetes!Clients, Kubernetes!LB!Answers
      <4> QED BY <3>2, <4>1, KubernetesReply DEF Kubernetes!Answer
    <3> QED BY <1>9, <3>1, <3>2 DEF Kubernetes!Vacate
  <2>2. CASE k_lease.version < MaxVersion /\ k_lease' = Kubernetes!Vacated(k_lease)
    BY <2>0, <2>1, <2>2, VacateWrites, KubernetesWrites
  <2>3. CASE UNCHANGED k_lease
    BY <2>0, <2>1, <2>3, KubernetesFinish
  <2> QED BY <1>9, <2>2, <2>3 DEF Kubernetes!Vacate
<1>10. ASSUME NEW t \in Kubernetes!Clients, Kubernetes!Fail(t) PROVE KubernetesInv'
  BY <1>0, <1>10, KubernetesFinish DEF Kubernetes!Fail
<1>11. CASE Kubernetes!Tick
  <2>1. UNCHANGED <<k_lease, k_call, k_reply>> /\ k_now' = k_now + 1 /\ k_now' \in 0..LeaseTime
    BY <1>11 DEF Kubernetes!Tick, KubernetesInv, Kubernetes!TypeOK
  <2>2. ASSUME NEW t \in Kubernetes!Clients PROVE KeepsCall(t)'
    <3>1. k_call[t].began \in Nat /\ k_call[t].at \in Nat /\ k_now \in Nat
      BY DEF KubernetesInv, Kubernetes!TypeOK, Kubernetes!Calls
    <3> QED BY <2>1, <3>1 DEF KubernetesInv, KeepsCall, Kubernetes!LiveAt, Kubernetes!_get_expire_at
  <2>3. k_lease.renewed \in Nat /\ k_now \in Nat
    BY DEF KubernetesInv, Kubernetes!TypeOK, Kubernetes!Leases
  <2> QED BY <2>1, <2>2, <2>3 DEF KubernetesInv, Kubernetes!TypeOK
<1> QED
  BY <1>1, <1>2, <1>3, <1>4, <1>5, <1>6, <1>7, <1>8, <1>9, <1>10, <1>11 DEF Kubernetes!Next

\* Every step is a step of the protocol or stutters.
LEMMA KubernetesRefines ==
  KubernetesInv /\ [Kubernetes!Next]_(Kubernetes!vars) => [Kubernetes!LB!Next]_(Kubernetes!LB!vars)
<1> SUFFICES ASSUME KubernetesInv, [Kubernetes!Next]_(Kubernetes!vars)
             PROVE  Kubernetes!LB!Next \/ UNCHANGED Kubernetes!LB!vars
  OBVIOUS
<1> USE KubernetesConstants
<1>0. /\ Tokens \subseteq Kubernetes!Clients /\ Closer \in Kubernetes!Clients
      /\ k_lease \in Kubernetes!Leases /\ k_now \in Nat
      /\ \A t \in Kubernetes!Clients : k_call[t] \in Kubernetes!Calls /\ k_call[t].began \in Nat
  BY DEF KubernetesInv, Kubernetes!TypeOK, Kubernetes!Clients, Kubernetes!Calls
<1>1. ASSUME UNCHANGED <<k_now, k_lease, k_reply>> PROVE UNCHANGED Kubernetes!LB!vars
  BY <1>1 DEF Kubernetes!LB!vars, Kubernetes!locked, Kubernetes!LiveAt, Kubernetes!_get_expire_at
<1>2. ASSUME UNCHANGED <<k_now, k_lease>> PROVE UNCHANGED <<k_lease.holder, Kubernetes!locked, k_lease.transitions>>
  BY <1>2 DEF Kubernetes!locked, Kubernetes!LiveAt, Kubernetes!_get_expire_at
<1>3. Kubernetes!locked \in BOOLEAN /\ Kubernetes!locked' \in BOOLEAN
  BY DEF Kubernetes!locked, Kubernetes!LiveAt
<1>4. ASSUME NEW t \in Kubernetes!Clients, k_call[t].pc # "idle", Kubernetes!locked
      PROVE  Kubernetes!LiveAt(k_lease, k_call[t].began)
  <2>1. k_call[t].began <= k_now
    BY <1>4 DEF KubernetesInv, KeepsCall
  <2> QED BY <1>0, <1>4, <2>1, LiveEarlier DEF Kubernetes!locked
<1>5. ASSUME NEW t \in Tokens, Kubernetes!GetToAcquire(t)
      PROVE  Kubernetes!LB!Next \/ UNCHANGED Kubernetes!LB!vars
  <2>1. CASE Kubernetes!OtherHolder(t, k_call[t].began) /\ Kubernetes!Answer(t, "refused", 0)
    <3>1. Kubernetes!LB!Refuse(t)
      BY <1>2, <1>5, <2>1 DEF Kubernetes!GetToAcquire, Kubernetes!OtherHolder, Kubernetes!Answer, Kubernetes!LB!Refuse
    <3> QED BY <3>1 DEF Kubernetes!LB!Next, Kubernetes!LB!Acquire
  <2>2. CASE UNCHANGED k_reply
    BY <1>1, <1>5, <2>2 DEF Kubernetes!GetToAcquire
  <2> QED BY <1>5, <2>1, <2>2 DEF Kubernetes!GetToAcquire
<1>6. ASSUME NEW t \in Tokens, Kubernetes!GetToRelease(t)
      PROVE  Kubernetes!LB!Next \/ UNCHANGED Kubernetes!LB!vars
  <2>1. CASE /\ ~(Kubernetes!LiveAt(k_lease, k_call[t].began) /\ k_lease.holder = t)
             /\ Kubernetes!Answer(t, "not_owned", 0)
    <3>1. ~(k_lease.holder = t /\ Kubernetes!locked)
      BY <1>0, <1>4, <1>6, <2>1 DEF Kubernetes!GetToRelease
    <3>2. Kubernetes!LB!RefuseRelease(t)
      BY <1>2, <1>6, <2>1, <3>1 DEF Kubernetes!GetToRelease, Kubernetes!Answer, Kubernetes!LB!RefuseRelease
    <3> QED BY <3>2 DEF Kubernetes!LB!Next, Kubernetes!LB!TryRelease
  <2>2. CASE UNCHANGED k_reply
    BY <1>1, <1>6, <2>2 DEF Kubernetes!GetToRelease
  <2> QED BY <1>6, <2>1, <2>2 DEF Kubernetes!GetToRelease
<1>7. ASSUME NEW t \in Tokens, Kubernetes!Put(t) PROVE Kubernetes!LB!Next
  <2>0. k_call[t].pc = "put" /\ k_call[t].op = "acquire" /\ UNCHANGED k_now /\ t \in Kubernetes!Clients
    BY <1>0, <1>7 DEF Kubernetes!Put
  <2>1. CASE ~ Kubernetes!Current(t) /\ Kubernetes!Answer(t, "refused", 0) /\ UNCHANGED k_lease
    <3>1. k_lease.holder # t
      BY <2>0, <2>1 DEF KubernetesInv, KeepsCall, Kubernetes!Current
    <3>2. Kubernetes!LB!Refuse(t)
      BY <1>2, <2>0, <2>1, <3>1 DEF Kubernetes!Answer, Kubernetes!LB!Refuse
    <3> QED BY <3>2 DEF Kubernetes!LB!Next, Kubernetes!LB!Acquire
  <2>2. ASSUME Kubernetes!Current(t), k_lease.version < MaxVersion, Kubernetes!NextFence(t) <= MaxFence,
               NEW renewed \in k_call[t].at..k_now, Kubernetes!Write(t, renewed),
               Kubernetes!Answer(t, "granted", Kubernetes!NextFence(t))
        PROVE  Kubernetes!LB!Next
    <3>1. /\ k_lease'.holder = t /\ k_lease'.transitions = Kubernetes!NextFence(t)
          /\ k_call[t].got = k_lease
      BY <2>0, <2>2, PutWrites
    <3>2. Kubernetes!locked' \in Kubernetes!LB!GrantedLive
      BY <1>3 DEF Kubernetes!LB!GrantedLive
    <3>3. k_reply' = Kubernetes!LB!Reply(t, "granted", Kubernetes!NextFence(t))
      BY <2>2 DEF Kubernetes!Answer
    <3>4. CASE Kubernetes!LiveAt(k_lease, k_call[t].began) /\ k_lease.holder = t
      <4>1. Kubernetes!NextFence(t) = k_lease.transitions
        BY <3>1, <3>4 DEF Kubernetes!NextFence
      <4>2. Kubernetes!LB!Extend(t)
        BY <3>1, <3>2, <3>3, <3>4, <4>1 DEF Kubernetes!LB!Extend
      <4> QED BY <4>2 DEF Kubernetes!LB!Next, Kubernetes!LB!Acquire
    <3>5. CASE ~(Kubernetes!LiveAt(k_lease, k_call[t].began) /\ k_lease.holder = t)
      <4>1. Kubernetes!NextFence(t) = k_lease.transitions + 1
        BY <3>1, <3>5 DEF Kubernetes!NextFence
      <4>2. ~ Kubernetes!locked
        BY <1>4, <2>0, <3>1, <3>5 DEF KubernetesInv, KeepsCall
      <4>3. k_lease.transitions < MaxFence
        BY <1>0, <2>2, <4>1 DEF Kubernetes!Leases
      <4>4. Kubernetes!LB!Mint(t)
        BY <3>1, <3>2, <3>3, <4>1, <4>2, <4>3 DEF Kubernetes!LB!Mint
      <4> QED BY <4>4 DEF Kubernetes!LB!Next, Kubernetes!LB!Acquire
    <3> QED BY <3>4, <3>5
  <2> QED BY <1>7, <2>1, <2>2 DEF Kubernetes!Put
<1>8. CASE Kubernetes!ListToClose
  BY <1>1, <1>8 DEF Kubernetes!ListToClose
<1>9. ASSUME NEW t \in Kubernetes!Clients, Kubernetes!Vacate(t)
      PROVE  Kubernetes!LB!Next \/ UNCHANGED Kubernetes!LB!vars
  <2>0. k_call[t].pc = "put" /\ k_call[t].op # "acquire" /\ UNCHANGED k_now
    BY <1>9 DEF Kubernetes!Vacate
  <2>1. t \in Tokens \/ t = Closer
    BY DEF Kubernetes!Clients
  <2>2. CASE Kubernetes!Current(t) /\ k_lease.version < MaxVersion /\ k_lease' = Kubernetes!Vacated(k_lease)
    <3>1. /\ k_lease'.holder = NoToken /\ k_lease'.transitions = k_lease.transitions
          /\ ~ Kubernetes!locked' /\ Kubernetes!locked' = FALSE
      BY <2>2, VacateWrites DEF Kubernetes!locked, Kubernetes!LiveAt
    <3>2. k_call[t].got = k_lease
      BY <2>0, <2>2 DEF KubernetesInv, KeepsCall, Kubernetes!Current
    <3>3. CASE t = Closer
      <4>1. k_call[t].op = "close" /\ ~ Kubernetes!locked
        BY <1>4, <2>0, <3>2, <3>3 DEF KubernetesInv, KeepsCall
      <4>2. UNCHANGED k_reply
        BY <1>9, <2>2, <3>3 DEF Kubernetes!Vacate
      <4>3. Kubernetes!LB!Vacate
        BY <1>3, <3>1, <4>1, <4>2 DEF Kubernetes!LB!Vacate
      <4> QED BY <4>3 DEF Kubernetes!LB!Next
    <3>4. CASE t # Closer
      <4>1. k_call[t].op = "release" /\ k_lease.holder = t
        BY <2>0, <3>2, <3>4 DEF KubernetesInv, KeepsCall
      <4>2. k_reply' = Kubernetes!LB!Reply(t, "released", 0)
        BY <1>9, <2>2, <3>4 DEF Kubernetes!Vacate, Kubernetes!Answer
      <4>3. Kubernetes!LB!Release(t)
        BY <3>1, <4>1, <4>2 DEF Kubernetes!LB!Release
      <4> QED BY <2>1, <3>4, <4>3 DEF Kubernetes!LB!Next, Kubernetes!LB!TryRelease
    <3> QED BY <3>3, <3>4
  <2>3. CASE ~ Kubernetes!Current(t) /\ UNCHANGED k_lease
    <3>1. CASE t = Closer
      BY <1>1, <1>9, <2>0, <2>3, <3>1 DEF Kubernetes!Vacate
    <3>2. CASE t # Closer
      <4>1. k_lease.holder # t
        BY <2>0, <2>3 DEF KubernetesInv, KeepsCall, Kubernetes!Current
      <4>2. k_reply' = Kubernetes!LB!Reply(t, "not_owned", 0)
        BY <1>9, <2>3, <3>2 DEF Kubernetes!Vacate, Kubernetes!Answer
      <4>3. Kubernetes!LB!RefuseRelease(t)
        BY <1>2, <2>0, <2>3, <4>1, <4>2 DEF Kubernetes!LB!RefuseRelease
      <4> QED BY <2>1, <3>2, <4>3 DEF Kubernetes!LB!Next, Kubernetes!LB!TryRelease
    <3> QED BY <3>1, <3>2
  <2> QED BY <1>9, <2>2, <2>3 DEF Kubernetes!Vacate
<1>10. CASE Kubernetes!Tick
  <2>1. UNCHANGED <<k_lease, k_reply>> /\ k_now' = k_now + 1
    BY <1>10 DEF Kubernetes!Tick
  <2>2. CASE Kubernetes!locked /\ ~ Kubernetes!locked'
    <3>1. Kubernetes!LB!Lapse
      BY <1>3, <2>1, <2>2 DEF Kubernetes!LB!Lapse
    <3> QED BY <3>1 DEF Kubernetes!LB!Next
  <2>3. CASE ~(Kubernetes!locked /\ ~ Kubernetes!locked')
    <3>1. Kubernetes!_get_expire_at(k_lease) \in Int /\ UNCHANGED Kubernetes!_get_expire_at(k_lease)
      BY <1>0, <2>1 DEF Kubernetes!_get_expire_at, Kubernetes!Leases
    <3>2. Kubernetes!locked' = Kubernetes!locked
      BY <1>0, <1>3, <2>1, <2>3, <3>1 DEF Kubernetes!locked, Kubernetes!LiveAt
    <3> QED BY <2>1, <3>2 DEF Kubernetes!LB!vars
  <2> QED BY <2>2, <2>3
<1>11. ASSUME NEW t, NEW o, NEW d, Kubernetes!Begin(t, o, d) PROVE UNCHANGED Kubernetes!LB!vars
  BY <1>1, <1>11 DEF Kubernetes!Begin
<1>12. ASSUME NEW t, Kubernetes!Fail(t) PROVE UNCHANGED Kubernetes!LB!vars
  BY <1>1, <1>12 DEF Kubernetes!Fail
<1>13. CASE UNCHANGED Kubernetes!vars
  BY <1>1, <1>13 DEF Kubernetes!vars
<1> QED
  BY <1>5, <1>6, <1>7, <1>8, <1>9, <1>10, <1>11, <1>12, <1>13 DEF Kubernetes!Next

\* kubernetes.py implements the backend protocol, although every decision is made on a Lease
\* and a time that may be stale when the write lands; its variables keep their types.
THEOREM KubernetesImplements == Kubernetes!Spec => Kubernetes!Implements /\ []Kubernetes!TypeOK
<1>1. Kubernetes!Init => Kubernetes!LB!Init
  <2> SUFFICES ASSUME Kubernetes!Init PROVE Kubernetes!LB!Init
    OBVIOUS
  <2>1. k_lease.holder = NoToken /\ k_lease.transitions = 0 /\ k_lease.seconds = 0
    BY DEF Kubernetes!Init, Kubernetes!NoLease
  <2>2. Kubernetes!locked = FALSE
    BY <2>1 DEF Kubernetes!locked, Kubernetes!LiveAt
  <2> QED BY <2>1, <2>2 DEF Kubernetes!Init, Kubernetes!LB!Init
<1>2. KubernetesInv => Kubernetes!TypeOK
  BY DEF KubernetesInv
<1> QED
  BY <1>1, <1>2, KubernetesInit, KubernetesNextInv, KubernetesRefines, PTL
     DEF Kubernetes!Spec, Kubernetes!Implements, Kubernetes!LB!Spec

-----------------------------------------------------------------------------
\* sqlite.py

\* The connections with a call under way.
Calling == {c \in Tokens : s_pc[c] # "idle"}

\* What the upsert of c left in the draft: a grant, of the fence that c has already or of
\* the next one when nobody held the lock; or the row, because it is another's.
Upserted(c) ==
  \/ /\ s_draft.granted = TRUE /\ s_draft.token = c
     /\ \/ s_row.token = c /\ s_draft.fence = s_row.fence
        \/ ~ SQLite!locked /\ s_draft.fence = s_row.fence + 1
  \/ /\ s_draft.granted = FALSE /\ s_row.token \notin {c, NoToken}
     /\ s_draft.token = s_row.token /\ s_draft.fence = s_row.fence
     /\ s_draft.expire_at = s_row.expire_at /\ s_draft.asked = s_row.asked

\* A lease ends with a second that what was asked for does not outlast.
CoversAsked(r) == r.token # NoToken => r.asked < TicksPerSecond * r.expire_at + TicksPerSecond

\* The connection with the write lock is the one between its BEGIN and the end of its
\* transaction, so the row does not change under its draft.
Transaction ==
  \A c \in Tokens :
    /\ s_writer = c <=> s_pc[c] \in {"upsert", "commit", "rollback"}
    /\ s_pc[c] \in {"upsert", "rollback"} => s_draft = s_row
    /\ s_pc[c] = "commit" => Upserted(c)

\* Nobody leaves a BEGIN behind.
NoOrphan == s_orphan = [c \in Tokens |-> FALSE]

SQLiteInv ==
  /\ SQLite!TypeOK /\ Transaction /\ NoOrphan
  /\ s_row.fence = 0 => s_row.token = NoToken
  /\ IsFiniteSet(Calling) /\ s_row.fence + Cardinality(Calling) <= MaxFence
  /\ CoversAsked(s_row) /\ CoversAsked(s_draft)

\* The constants of the adapter.
LEMMA SQLiteConstants ==
  /\ NoToken \notin Tokens
  /\ MaxFence \in Nat /\ SQLiteDuration \in Nat /\ SQLiteTime \in Nat
  /\ TicksPerSecond \in Nat \ {0}
  BY AdapterAssumptions DEF SQLite!SQLiteAssumption

\* The adapter's own name for the number of elements.
LEMMA SQLiteCardinality ==
  ASSUME NEW S
  PROVE  SQLite!Cardinality(S) = Cardinality(S)
  BY DEF SQLite!Cardinality, Cardinality

\* An answer has the type of a reply.
LEMMA SQLiteReply ==
  ASSUME NEW t \in Tokens \cup {NoToken}, NEW a \in {"granted", "refused", "released", "not_owned"},
         NEW f \in 0..MaxFence
  PROVE  SQLite!LB!Reply(t, a, f) \in
           [token : Tokens \cup {NoToken}, answer : SQLite!LB!Answers, fence : 0..MaxFence]
  BY DEF SQLite!LB!Reply, SQLite!LB!Answers

\* The clock in seconds.
LEMMA SQLiteNow ==
  ASSUME s_now \in Nat
  PROVE  /\ SQLite!datetime_now \in Nat
         /\ TicksPerSecond * SQLite!datetime_now <= s_now
         /\ s_now < TicksPerSecond * SQLite!datetime_now + TicksPerSecond
  BY SQLiteConstants, DivBounds DEF SQLite!datetime_now

\* The present rounded down and the duration rounded up: the lease covers what was asked for.
LEMMA SQLiteExpiry ==
  ASSUME s_now \in Nat, NEW d \in 0..SQLiteDuration
  PROVE  /\ SQLite!ExpireAt(d) \in Nat
         /\ SQLite!ExpireAt(d) <= SQLite!datetime_now + SQLiteDuration
         /\ s_now + d < TicksPerSecond * SQLite!ExpireAt(d) + TicksPerSecond
<1> USE SQLiteConstants
<1> DEFINE q == SQLite!Seconds(d)
<1>1. d \in Nat /\ d <= SQLiteDuration
  OBVIOUS
<1>2. q \in Nat /\ q <= d /\ d <= TicksPerSecond * q
  BY <1>1, CeilBounds DEF SQLite!Seconds
<1>3. SQLite!ExpireAt(d) = SQLite!datetime_now + q
  BY DEF SQLite!ExpireAt
<1> HIDE DEF q
<1>4. TicksPerSecond * SQLite!ExpireAt(d) = TicksPerSecond * SQLite!datetime_now + TicksPerSecond * q
  BY <1>2, <1>3, SQLiteNow
<1>5. TicksPerSecond * SQLite!datetime_now \in Nat /\ TicksPerSecond * q \in Nat
  BY <1>2, SQLiteNow
<1> QED BY <1>1, <1>2, <1>3, <1>4, <1>5, SQLiteNow

\* The clock in seconds does not go back.
LEMMA SecondsPass ==
  ASSUME s_now \in Nat, s_now' = s_now + 1
  PROVE  SQLite!datetime_now' \in Nat /\ SQLite!datetime_now <= SQLite!datetime_now'
<1> USE SQLiteConstants
<1> DEFINE p == SQLite!datetime_now
           q == (s_now + 1) \div TicksPerSecond
<1>1. p \in Nat /\ TicksPerSecond * p <= s_now
  BY SQLiteNow
<1>2. q \in Nat /\ s_now + 1 < TicksPerSecond * q + TicksPerSecond
  BY DivBounds, s_now + 1 \in Nat
<1>3. SQLite!datetime_now' = q
  BY DEF SQLite!datetime_now
<1> HIDE DEF p, q
<1>4. TicksPerSecond * p < TicksPerSecond * q + TicksPerSecond
  BY <1>1, <1>2
<1>5. p <= q
  BY <1>1, <1>2, <1>4, MultiplesBelow
<1> QED BY <1>2, <1>3, <1>5 DEF p

\* A call begins, or ends: it joins the connections that call, or leaves them.
LEMMA CallingGrows ==
  ASSUME SQLiteInv, NEW c \in Tokens, s_pc[c] = "idle", s_pc' = [s_pc EXCEPT ![c] = "begin"]
  PROVE  IsFiniteSet(Calling') /\ Cardinality(Calling') = Cardinality(Calling) + 1
<1>1. Calling' = Calling \cup {c} /\ c \notin Calling
  BY DEF Calling, SQLiteInv, SQLite!TypeOK
<1> QED BY <1>1, FS_AddElement DEF SQLiteInv

LEMMA CallingShrinks ==
  ASSUME SQLiteInv, NEW c \in Tokens, s_pc[c] # "idle", s_pc' = [s_pc EXCEPT ![c] = "idle"]
  PROVE  /\ IsFiniteSet(Calling') /\ Cardinality(Calling') = Cardinality(Calling) - 1
         /\ Cardinality(Calling) \in Nat /\ Cardinality(Calling') \in Nat
<1>1. Calling' = Calling \ {c} /\ c \in Calling
  BY DEF Calling, SQLiteInv, SQLite!TypeOK
<1>2. IsFiniteSet(Calling')
  BY <1>1, FS_RemoveElement DEF SQLiteInv
<1>3. Cardinality(Calling) \in Nat /\ Cardinality(Calling') \in Nat
  BY <1>2, FS_CardinalityType DEF SQLiteInv
<1> QED BY <1>1, <1>2, <1>3, FS_RemoveElement DEF SQLiteInv

\* A statement runs: its connection is still calling.
LEMMA CallingStays ==
  ASSUME SQLiteInv, NEW c \in Tokens, s_pc[c] # "idle", NEW v \in {"upsert", "commit", "rollback"},
         s_pc' = [s_pc EXCEPT ![c] = v]
  PROVE  /\ Calling' = Calling /\ Cardinality(Calling) \in Nat
         /\ Cardinality(Calling) > 0
<1>1. Calling' = Calling /\ c \in Calling
  BY DEF Calling, SQLiteInv, SQLite!TypeOK
<1>2. Cardinality(Calling) \in Nat
  BY FS_CardinalityType DEF SQLiteInv
<1>3. Cardinality(Calling) # 0
  BY <1>1, FS_EmptySet DEF SQLiteInv
<1> QED BY <1>1, <1>2, <1>3

\* What a transaction decided stays true while the row and the draft do, also as time passes.
LEMMA UpsertedStays ==
  ASSUME SQLite!TypeOK, NEW c \in Tokens, Upserted(c), UNCHANGED <<s_row, s_draft>>,
         s_now' = s_now \/ s_now' = s_now + 1
  PROVE  Upserted(c)'
<1>1. s_now \in Nat /\ s_row.expire_at \in Nat
  BY SQLiteConstants DEF SQLite!TypeOK, SQLite!Rows
<1>2. SQLite!datetime_now \in Nat /\ SQLite!datetime_now' \in Nat /\ SQLite!datetime_now <= SQLite!datetime_now'
  BY <1>1, SQLiteNow, SecondsPass DEF SQLite!datetime_now
<1>3. ~ SQLite!locked => ~ SQLite!locked'
  BY <1>1, <1>2 DEF SQLite!locked
<1> QED BY <1>3 DEF Upserted

\* The empty table.
LEMMA SQLiteInit == SQLite!Init => SQLiteInv
<1> SUFFICES ASSUME SQLite!Init PROVE SQLiteInv
  OBVIOUS
<1> USE SQLiteConstants
<1>1. s_reply \in [token : Tokens \cup {NoToken}, answer : SQLite!LB!Answers, fence : 0..MaxFence]
  BY SQLiteReply DEF SQLite!Init, SQLite!LB!NoReply
<1>2. Calling = {}
  BY DEF SQLite!Init, Calling
<1>3. IsFiniteSet(Calling) /\ Cardinality(Calling) = 0
  BY <1>2, FS_EmptySet
<1>4. s_row \in SQLite!Rows /\ s_draft \in SQLite!Rows /\ s_row.fence = 0 /\ s_draft.fence = 0
      /\ s_row.token = NoToken /\ s_draft.token = NoToken /\ s_row.expire_at = 0 /\ s_draft.expire_at = 0
  BY DEF SQLite!Init, SQLite!NoRow, SQLite!Rows
<1>5. SQLite!datetime_now \in Nat
  BY SQLiteNow DEF SQLite!Init
<1>6. SQLite!TypeOK
  BY <1>1, <1>4, <1>5 DEF SQLite!Init, SQLite!TypeOK
<1>7. ASSUME NEW c \in Tokens PROVE s_pc[c] = "idle" /\ s_writer # c
  BY DEF SQLite!Init
<1>8. Transaction
  <2>1. ASSUME NEW c \in Tokens PROVE s_pc[c] \notin {"upsert", "commit", "rollback"} /\ s_writer # c
    BY <1>7
  <2> QED BY <2>1, Zenon DEF Transaction
<1>9. NoOrphan
  BY DEF SQLite!Init, NoOrphan
<1> QED BY <1>3, <1>4, <1>6, <1>8, <1>9 DEF SQLiteInv, CoversAsked

\* A connection that goes from one statement to another outside COMMIT, or leaves: the row
\* stays, and the draft too unless this connection has the write lock.
LEMMA SQLiteMoves ==
  ASSUME SQLiteInv, NEW c \in Tokens, NEW v \in {"idle", "begin", "upsert", "commit", "rollback"},
         s_pc' = [s_pc EXCEPT ![c] = v], s_asking' \in [Tokens -> SQLite!Durations \cup {0}],
         UNCHANGED <<s_now, s_row, s_orphan, s_reply>>,
         s_writer' \in Tokens \cup {NoToken}, s_draft' \in SQLite!Rows,
         s_draft'.expire_at <= SQLite!datetime_now + SQLiteDuration, CoversAsked(s_draft'),
         \A b \in Tokens \ {c} : (s_writer' = b <=> s_writer = b) /\ (s_writer = b => s_draft' = s_draft),
         s_writer' = c <=> v \in {"upsert", "commit", "rollback"},
         v \in {"upsert", "rollback"} => s_draft' = s_row,
         v = "commit" => Upserted(c)',
         IsFiniteSet(Calling'), s_row.fence + Cardinality(Calling') <= MaxFence
  PROVE  SQLiteInv'
<1> USE SQLiteConstants
<1>1. SQLite!datetime_now' = SQLite!datetime_now
  BY DEF SQLite!datetime_now
<1>2. SQLite!TypeOK'
  BY <1>1 DEF SQLiteInv, SQLite!TypeOK
<1>3. ASSUME NEW b \in Tokens, b # c
      PROVE  /\ s_writer' = b <=> s_pc'[b] \in {"upsert", "commit", "rollback"}
             /\ s_pc'[b] \in {"upsert", "rollback"} => s_draft' = s_row'
             /\ s_pc'[b] = "commit" => Upserted(b)'
  <2>1. s_pc'[b] = s_pc[b]
    BY <1>3 DEF SQLiteInv, SQLite!TypeOK
  <2>2. s_pc[b] = "commit" => Upserted(b)'
    BY <1>3, UpsertedStays DEF SQLiteInv, Transaction
  <2> QED BY <1>3, <2>1, <2>2 DEF SQLiteInv, Transaction
<1>4. s_pc'[c] = v /\ NoOrphan'
  BY DEF SQLiteInv, SQLite!TypeOK, NoOrphan
<1>5. Transaction'
  <2> SUFFICES ASSUME NEW b \in Tokens
               PROVE  /\ s_writer' = b <=> s_pc'[b] \in {"upsert", "commit", "rollback"}
                      /\ s_pc'[b] \in {"upsert", "rollback"} => s_draft' = s_row'
                      /\ s_pc'[b] = "commit" => Upserted(b)'
    BY DEF Transaction
  <2>1. CASE b = c
    BY <1>4, <2>1
  <2>2. CASE b # c
    BY <1>3, <2>2
  <2> QED BY <2>1, <2>2
<1>6. CoversAsked(s_row)' /\ CoversAsked(s_draft)' /\ (s_row'.fence = 0 => s_row'.token = NoToken)
  BY DEF SQLiteInv, CoversAsked
<1> QED BY <1>2, <1>4, <1>5, <1>6 DEF SQLiteInv

\* The facts of a state that the proofs below keep using.
LEMMA SQLiteFacts ==
  ASSUME SQLiteInv
  PROVE  /\ s_now \in Nat /\ SQLite!datetime_now \in Nat
         /\ s_row \in SQLite!Rows /\ s_draft \in SQLite!Rows
         /\ s_row.expire_at \in Nat /\ s_row.asked \in Nat /\ s_row.fence \in 0..MaxFence
         /\ s_row.expire_at <= SQLite!datetime_now + SQLiteDuration
         /\ s_draft.expire_at <= SQLite!datetime_now + SQLiteDuration
         /\ Cardinality(Calling) \in Nat
         /\ \A c \in Tokens : s_asking[c] \in 0..SQLiteDuration
<1> USE SQLiteConstants
<1>1. s_now \in Nat /\ s_row \in SQLite!Rows /\ s_draft \in SQLite!Rows
  BY DEF SQLiteInv, SQLite!TypeOK
<1>2. SQLite!datetime_now \in Nat
  BY <1>1, SQLiteNow
<1>3. Cardinality(Calling) \in Nat
  BY FS_CardinalityType DEF SQLiteInv
<1>4. \A c \in Tokens : s_asking[c] \in 0..SQLiteDuration
  BY DEF SQLiteInv, SQLite!TypeOK, SQLite!Durations
<1>5. s_row.expire_at \in Nat /\ s_row.asked \in Nat /\ s_row.fence \in 0..MaxFence
  BY <1>1 DEF SQLite!Rows
<1>6. /\ s_row.expire_at <= SQLite!datetime_now + SQLiteDuration
      /\ s_draft.expire_at <= SQLite!datetime_now + SQLiteDuration
  BY DEF SQLiteInv, SQLite!TypeOK
<1> QED BY <1>1, <1>2, <1>3, <1>4, <1>5, <1>6

\* A call that ends without a COMMIT.
LEMMA SQLiteLeaves ==
  ASSUME SQLiteInv, NEW c \in Tokens, s_pc[c] # "idle", SQLite!Leave(c),
         UNCHANGED <<s_now, s_row, s_orphan, s_reply>>,
         \/ s_writer # c /\ UNCHANGED <<s_writer, s_draft>>
         \/ s_writer = c /\ SQLite!EndTransaction
  PROVE  SQLiteInv'
<1> USE SQLiteConstants
<1>1. s_asking' \in [Tokens -> SQLite!Durations \cup {0}] /\ s_pc' = [s_pc EXCEPT ![c] = "idle"]
  BY DEF SQLiteInv, SQLite!TypeOK, SQLite!Leave
<1>2. IsFiniteSet(Calling') /\ s_row.fence + Cardinality(Calling') <= MaxFence
  <2>1. /\ IsFiniteSet(Calling') /\ Cardinality(Calling') = Cardinality(Calling) - 1
        /\ Cardinality(Calling) \in Nat /\ Cardinality(Calling') \in Nat
    BY <1>1, CallingShrinks
  <2>2. s_row.fence + Cardinality(Calling) <= MaxFence /\ s_row.fence \in Nat
    BY SQLiteFacts DEF SQLiteInv
  <2> QED BY <2>1, <2>2
<1>3. CASE s_writer # c /\ UNCHANGED <<s_writer, s_draft>>
  <2>1. CoversAsked(s_draft')
    BY <1>3 DEF SQLiteInv, CoversAsked
  <2>2. s_writer' \in Tokens \cup {NoToken} /\ s_draft' \in SQLite!Rows
        /\ s_draft'.expire_at <= SQLite!datetime_now + SQLiteDuration
    BY <1>3, SQLiteFacts DEF SQLiteInv, SQLite!TypeOK
  <2> QED BY <1>1, <1>2, <1>3, <2>1, <2>2, SQLiteMoves
<1>4. CASE s_writer = c /\ SQLite!EndTransaction
  <2>1. s_writer' = NoToken /\ s_draft' = SQLite!NoRow
    BY <1>4 DEF SQLite!EndTransaction
  <2>2. /\ s_draft' \in SQLite!Rows /\ CoversAsked(s_draft')
        /\ s_draft'.expire_at <= SQLite!datetime_now + SQLiteDuration
    BY <2>1, SQLiteFacts DEF SQLite!NoRow, SQLite!Rows, CoversAsked
  <2>3. /\ s_writer' # c /\ s_writer' \in Tokens \cup {NoToken}
        /\ \A b \in Tokens \ {c} : s_writer' # b /\ s_writer # b
    BY <1>4, <2>1
  <2> QED BY <1>1, <1>2, <2>2, <2>3, SQLiteMoves
<1> QED BY <1>3, <1>4

\* The upsert grants or leaves the row, which is another's.
LEMMA SQLiteUpserts ==
  ASSUME SQLiteInv, NEW c \in Tokens, SQLite!Upsert(c)
  PROVE  SQLiteInv'
<1> USE SQLiteConstants
<1>1. /\ s_pc[c] = "upsert" /\ s_pc' = [s_pc EXCEPT ![c] = "commit"]
      /\ UNCHANGED <<s_now, s_row, s_writer, s_asking, s_orphan, s_reply>>
  BY DEF SQLite!Upsert
<1>2. s_writer = c /\ s_draft = s_row
  BY <1>1 DEF SQLiteInv, Transaction
<1>3. /\ Calling' = Calling /\ Cardinality(Calling) \in Nat /\ Cardinality(Calling) > 0
  BY <1>1, CallingStays
<1>4. s_row.fence + 1 \in 0..MaxFence
  <2>1. s_row.fence + Cardinality(Calling) <= MaxFence /\ s_row.fence \in Nat
    BY SQLiteFacts DEF SQLiteInv
  <2> QED BY <1>3, <2>1
<1>5. SQLite!locked' = SQLite!locked
  BY <1>1 DEF SQLite!locked, SQLite!datetime_now
<1>6. /\ s_draft' \in SQLite!Rows /\ CoversAsked(s_draft') /\ Upserted(c)'
      /\ s_draft'.expire_at <= SQLite!datetime_now + SQLiteDuration
  <2>1. CASE /\ SQLite!Matches(s_draft, c)
             /\ s_draft' = [token |-> c, expire_at |-> SQLite!ExpireAt(s_asking[c]),
                            fence |-> SQLite!NextFence(s_draft, c), granted |-> TRUE,
                            asked |-> s_now + s_asking[c]]
    <3>1. /\ SQLite!ExpireAt(s_asking[c]) \in Nat
          /\ SQLite!ExpireAt(s_asking[c]) <= SQLite!datetime_now + SQLiteDuration
          /\ s_now + s_asking[c] < TicksPerSecond * SQLite!ExpireAt(s_asking[c]) + TicksPerSecond
          /\ s_now + s_asking[c] \in Nat
      <4>1. s_now \in Nat /\ s_asking[c] \in 0..SQLiteDuration
        BY SQLiteFacts
      <4> QED BY <4>1, SQLiteExpiry
    <3>2. \/ SQLite!NextFence(s_draft, c) = s_row.fence /\ s_row.token = c
          \/ SQLite!NextFence(s_draft, c) = s_row.fence + 1 /\ ~ SQLite!locked
      <4>1. s_row.fence = 0 => s_row.token = NoToken
        BY DEF SQLiteInv
      <4> QED BY <1>2, <2>1, <4>1, SQLiteFacts DEF SQLite!NextFence, SQLite!Matches, SQLite!locked
    <3>3. SQLite!NextFence(s_draft, c) \in 0..MaxFence
      BY <1>4, <3>2, SQLiteFacts
    <3> DEFINE f == SQLite!NextFence(s_draft, c)
               e == SQLite!ExpireAt(s_asking[c])
               a == s_now + s_asking[c]
    <3> HIDE DEF f, e, a
    <3>4. /\ s_draft' = [token |-> c, expire_at |-> e, fence |-> f, granted |-> TRUE, asked |-> a]
          /\ e \in Nat /\ f \in 0..MaxFence /\ a \in Nat /\ a < TicksPerSecond * e + TicksPerSecond
          /\ e <= SQLite!datetime_now + SQLiteDuration
          /\ (f = s_row.fence /\ s_row.token = c) \/ (f = s_row.fence + 1 /\ ~ SQLite!locked)
      BY <2>1, <3>1, <3>2, <3>3 DEF f, e, a
    <3>5. /\ s_draft' \in SQLite!Rows /\ s_draft'.token = c /\ s_draft'.granted = TRUE
          /\ s_draft'.expire_at = e /\ s_draft'.fence = f /\ s_draft'.asked = a
      BY <3>4 DEF SQLite!Rows
    <3> QED BY <1>1, <1>5, <3>4, <3>5 DEF CoversAsked, Upserted
  <2>2. CASE ~ SQLite!Matches(s_draft, c) /\ s_draft' = [s_draft EXCEPT !.granted = FALSE]
    <3>1. s_row.token \notin {c, NoToken}
      BY <1>2, <2>2 DEF SQLite!Matches
    <3>2. /\ s_draft' \in SQLite!Rows /\ s_draft'.granted = FALSE
          /\ s_draft'.token = s_row.token /\ s_draft'.fence = s_row.fence
          /\ s_draft'.expire_at = s_row.expire_at /\ s_draft'.asked = s_row.asked
      BY <1>2, <2>2, SQLiteFacts DEF SQLite!Rows
    <3> QED BY <1>1, <3>1, <3>2, SQLiteFacts DEF SQLiteInv, CoversAsked, Upserted
  <2> QED BY <2>1, <2>2 DEF SQLite!Upsert
<1>7. s_asking' \in [Tokens -> SQLite!Durations \cup {0}] /\ s_writer' \in Tokens \cup {NoToken}
  BY <1>1 DEF SQLiteInv, SQLite!TypeOK
<1> QED BY <1>1, <1>2, <1>3, <1>6, <1>7, SQLiteMoves DEF SQLiteInv

\* COMMIT publishes the draft.
LEMMA SQLiteCommits ==
  ASSUME SQLiteInv, NEW c \in Tokens, SQLite!Commit(c)
  PROVE  SQLiteInv'
<1> USE SQLiteConstants
<1>1. /\ s_pc[c] = "commit" /\ s_row' = s_draft /\ s_writer' = NoToken /\ s_draft' = SQLite!NoRow
      /\ s_pc' = [s_pc EXCEPT ![c] = "idle"] /\ s_asking' = [s_asking EXCEPT ![c] = 0]
      /\ UNCHANGED <<s_now, s_orphan>>
  BY DEF SQLite!Commit, SQLite!EndTransaction, SQLite!Leave
<1>2. s_writer = c /\ Upserted(c)
  BY <1>1 DEF SQLiteInv, Transaction
<1>3. /\ s_draft \in SQLite!Rows /\ s_draft.fence \in 0..MaxFence
      /\ s_draft.expire_at <= SQLite!datetime_now + SQLiteDuration /\ CoversAsked(s_draft)
      /\ s_row.fence \in 0..MaxFence /\ SQLite!datetime_now \in Nat
  BY SQLiteFacts DEF SQLiteInv, SQLite!Rows
<1>4. /\ SQLite!NoRow \in SQLite!Rows /\ SQLite!NoRow.expire_at = 0 /\ SQLite!NoRow.token = NoToken
  BY DEF SQLite!NoRow, SQLite!Rows
<1>5. SQLite!datetime_now' = SQLite!datetime_now
  BY <1>1 DEF SQLite!datetime_now
<1>6. s_reply' \in [token : Tokens \cup {NoToken}, answer : SQLite!LB!Answers, fence : 0..MaxFence]
  <2>1. CASE s_reply' = SQLite!LB!Reply(c, "granted", s_draft.fence)
    BY <1>3, <2>1, SQLiteReply
  <2>2. CASE s_reply' = SQLite!LB!Reply(c, "refused", 0)
    BY <2>2, SQLiteReply
  <2> QED BY <2>1, <2>2 DEF SQLite!Commit
<1>7. /\ s_pc' \in [Tokens -> {"idle", "begin", "upsert", "commit", "rollback"}]
      /\ s_asking' \in [Tokens -> SQLite!Durations \cup {0}]
      /\ s_orphan' \in [Tokens -> BOOLEAN] /\ s_now' \in 0..SQLiteTime
  BY <1>1 DEF SQLiteInv, SQLite!TypeOK
<1>8. SQLite!TypeOK'
  BY <1>1, <1>3, <1>4, <1>5, <1>6, <1>7 DEF SQLite!TypeOK
<1>9. ASSUME NEW b \in Tokens PROVE s_pc'[b] \in {"idle", "begin"} /\ s_writer' # b
  <2>1. b # c => s_pc[b] \in {"idle", "begin"} /\ s_pc'[b] = s_pc[b]
    BY <1>1, <1>2 DEF SQLiteInv, Transaction, SQLite!TypeOK
  <2>2. b = c => s_pc'[b] = "idle"
    BY <1>1 DEF SQLiteInv, SQLite!TypeOK
  <2> QED BY <1>1, <2>1, <2>2
<1>10. Transaction'
  BY <1>9 DEF Transaction
<1>11. NoOrphan'
  BY <1>1 DEF SQLiteInv, NoOrphan
<1>12. IsFiniteSet(Calling') /\ s_row'.fence + Cardinality(Calling') <= MaxFence
  <2>1. /\ IsFiniteSet(Calling') /\ Cardinality(Calling') = Cardinality(Calling) - 1
        /\ Cardinality(Calling) \in Nat
    BY <1>1, CallingShrinks
  <2>2. s_row'.fence <= s_row.fence + 1
    BY <1>1, <1>2, <1>3 DEF Upserted
  <2>3. s_row.fence + Cardinality(Calling) <= MaxFence
    BY DEF SQLiteInv
  <2> QED BY <1>1, <1>3, <2>1, <2>2, <2>3
<1>13. s_row'.fence = 0 => s_row'.token = NoToken
  BY <1>1, <1>2, <1>3 DEF Upserted, SQLiteInv
<1>14. CoversAsked(s_row)' /\ CoversAsked(s_draft)'
  BY <1>1, <1>3, <1>4 DEF CoversAsked
<1> QED BY <1>8, <1>10, <1>11, <1>12, <1>13, <1>14 DEF SQLiteInv

\* An UPDATE of its own, outside every transaction.
LEMMA SQLiteUpdates ==
  ASSUME SQLiteInv, NEW c \in Tokens, s_pc[c] = "idle", NEW match, NEW answer, NEW other,
         SQLite!Update(c, match, answer, other),
         {answer, other} \subseteq [token : Tokens \cup {NoToken}, answer : SQLite!LB!Answers, fence : 0..MaxFence]
  PROVE  /\ SQLiteInv' /\ s_writer = NoToken /\ UNCHANGED s_now
         /\ \/ match[s_row] /\ s_row' = SQLite!Vacated(s_row) /\ s_reply' = answer
            \/ ~ match[s_row] /\ UNCHANGED s_row /\ s_reply' = other
<1> USE SQLiteConstants
<1>1. s_writer # c
  BY DEF SQLiteInv, Transaction
<1>2. /\ s_writer = NoToken /\ UNCHANGED <<s_now, s_draft, s_writer, s_pc, s_asking, s_orphan>>
      /\ \/ match[s_row] /\ s_row' = SQLite!Vacated(s_row) /\ s_reply' = answer
         \/ ~ match[s_row] /\ UNCHANGED s_row /\ s_reply' = other
  BY <1>1 DEF SQLite!Update
<1>3. /\ s_row' \in SQLite!Rows /\ s_row'.fence = s_row.fence /\ CoversAsked(s_row')
      /\ s_row'.expire_at <= SQLite!datetime_now + SQLiteDuration
      /\ s_row'.fence = 0 => s_row'.token = NoToken
  <2>1. CASE s_row' = SQLite!Vacated(s_row)
    <3>1. s_row' \in SQLite!Rows /\ s_row'.fence = s_row.fence /\ s_row'.token = NoToken /\ s_row'.expire_at = 0
      BY <2>1, SQLiteFacts DEF SQLite!Vacated, SQLite!Rows
    <3> QED BY <3>1, SQLiteFacts DEF CoversAsked
  <2>2. CASE UNCHANGED s_row
    BY <2>2, SQLiteFacts DEF SQLiteInv, CoversAsked
  <2> QED BY <1>2, <2>1, <2>2
<1>4. s_reply' \in [token : Tokens \cup {NoToken}, answer : SQLite!LB!Answers, fence : 0..MaxFence]
  BY <1>2
<1>5. SQLite!datetime_now' = SQLite!datetime_now
  BY <1>2 DEF SQLite!datetime_now
<1>6. SQLite!TypeOK'
  BY <1>2, <1>3, <1>4, <1>5 DEF SQLiteInv, SQLite!TypeOK
<1>7. ASSUME NEW b \in Tokens PROVE s_pc'[b] \notin {"upsert", "commit", "rollback"} /\ s_writer' # b
  BY <1>2 DEF SQLiteInv, Transaction
<1>8. Transaction'
  BY <1>7 DEF Transaction
<1>9. NoOrphan' /\ Calling' = Calling /\ CoversAsked(s_draft)' /\ CoversAsked(s_row)'
  BY <1>2, <1>3 DEF SQLiteInv, NoOrphan, Calling, CoversAsked
<1> QED BY <1>2, <1>3, <1>6, <1>8, <1>9 DEF SQLiteInv

\* Every step keeps the invariant, when no caller is cancelled while it awaits BEGIN.
LEMMA SQLiteNextInv ==
  ASSUME "begin" \notin CancelAt
  PROVE  SQLiteInv /\ [SQLite!Next]_(SQLite!vars) => SQLiteInv'
<1> SUFFICES ASSUME SQLiteInv, [SQLite!Next]_(SQLite!vars) PROVE SQLiteInv'
  OBVIOUS
<1> USE SQLiteConstants
<1>1. CASE UNCHANGED SQLite!vars
  <2>1. UNCHANGED <<s_now, s_row, s_draft, s_writer, s_pc, s_asking, s_orphan, s_reply>>
    BY <1>1 DEF SQLite!vars
  <2>2. SQLite!TypeOK' /\ NoOrphan' /\ Calling' = Calling /\ CoversAsked(s_row)' /\ CoversAsked(s_draft)'
    BY <2>1 DEF SQLiteInv, SQLite!TypeOK, SQLite!datetime_now, NoOrphan, Calling, CoversAsked
  <2>3. Transaction'
    BY <2>1 DEF SQLiteInv, Transaction, Upserted, SQLite!locked, SQLite!datetime_now
  <2> QED BY <2>1, <2>2, <2>3 DEF SQLiteInv
<1>2. ASSUME NEW c \in Tokens, NEW d \in SQLite!Durations, SQLite!acquire(c, d) PROVE SQLiteInv'
  <2>1. /\ s_pc[c] = "idle" /\ s_pc' = [s_pc EXCEPT ![c] = "begin"]
        /\ s_asking' = [s_asking EXCEPT ![c] = d]
        /\ UNCHANGED <<s_now, s_row, s_draft, s_writer, s_orphan, s_reply>>
        /\ s_row.fence + Cardinality(Calling) < MaxFence
    BY <1>2, SQLiteCardinality DEF SQLite!acquire, Calling
  <2>2. IsFiniteSet(Calling') /\ Cardinality(Calling') = Cardinality(Calling) + 1
    BY <2>1, CallingGrows
  <2>3. s_row.fence + Cardinality(Calling') <= MaxFence
    BY <2>1, <2>2, SQLiteFacts
  <2>4. s_asking' \in [Tokens -> SQLite!Durations \cup {0}] /\ s_writer' \in Tokens \cup {NoToken}
    BY <2>1 DEF SQLiteInv, SQLite!TypeOK
  <2>5. s_writer' # c
    BY <2>1 DEF SQLiteInv, Transaction
  <2>6. CoversAsked(s_draft') /\ s_draft' \in SQLite!Rows /\ s_draft'.expire_at <= SQLite!datetime_now + SQLiteDuration
    BY <2>1, SQLiteFacts DEF SQLiteInv, CoversAsked
  <2> QED BY <2>1, <2>2, <2>3, <2>4, <2>5, <2>6, SQLiteMoves
<1>3. ASSUME NEW c \in Tokens, SQLite!Begin(c) PROVE SQLiteInv'
  <2>0. s_pc[c] = "begin" /\ UNCHANGED <<s_now, s_row, s_orphan, s_reply>>
    BY <1>3 DEF SQLite!Begin
  <2>1. CASE /\ s_writer = NoToken /\ s_writer' = c /\ s_draft' = s_row
             /\ s_pc' = [s_pc EXCEPT ![c] = "upsert"] /\ UNCHANGED s_asking
    <3>1. Calling' = Calling
      BY <2>0, <2>1, CallingStays
    <3>2. s_asking' \in [Tokens -> SQLite!Durations \cup {0}]
      BY <2>1 DEF SQLiteInv, SQLite!TypeOK
    <3>3. CoversAsked(s_draft') /\ s_draft' \in SQLite!Rows /\ s_draft'.expire_at <= SQLite!datetime_now + SQLiteDuration
      BY <2>1, SQLiteFacts DEF SQLiteInv, CoversAsked
    <3>4. IsFiniteSet(Calling') /\ s_row.fence + Cardinality(Calling') <= MaxFence
      BY <3>1 DEF SQLiteInv
    <3>5. \A b \in Tokens \ {c} : s_writer' # b /\ s_writer # b
      BY <2>1
    <3> QED BY <2>0, <2>1, <3>2, <3>3, <3>4, <3>5, SQLiteMoves
  <2>2. CASE s_writer # NoToken /\ SQLite!Leave(c) /\ UNCHANGED <<s_writer, s_draft>>
    <3>1. s_writer # c
      BY <2>0 DEF SQLiteInv, Transaction
    <3> QED BY <2>0, <2>2, <3>1, SQLiteLeaves
  <2> QED BY <1>3, <2>1, <2>2 DEF SQLite!Begin
<1>4. ASSUME NEW c \in Tokens, SQLite!Cancel(c) PROVE SQLiteInv'
  <2>1. /\ s_pc[c] = "upsert" /\ s_pc' = [s_pc EXCEPT ![c] = "rollback"]
        /\ UNCHANGED <<s_now, s_row, s_draft, s_writer, s_asking, s_orphan, s_reply>>
    BY <1>4 DEF SQLite!Cancel
  <2>2. Calling' = Calling
    BY <2>1, CallingStays
  <2>3. s_asking' \in [Tokens -> SQLite!Durations \cup {0}] /\ s_writer' \in Tokens \cup {NoToken}
    BY <2>1 DEF SQLiteInv, SQLite!TypeOK
  <2>4. s_writer = c /\ s_draft = s_row
    BY <2>1 DEF SQLiteInv, Transaction
  <2>5. CoversAsked(s_draft') /\ s_draft' \in SQLite!Rows /\ s_draft'.expire_at <= SQLite!datetime_now + SQLiteDuration
    BY <2>1, SQLiteFacts DEF SQLiteInv, CoversAsked
  <2>6. IsFiniteSet(Calling') /\ s_row.fence + Cardinality(Calling') <= MaxFence
    BY <2>2 DEF SQLiteInv
  <2> QED BY <2>1, <2>3, <2>4, <2>5, <2>6, SQLiteMoves
<1>5. ASSUME NEW c \in Tokens, SQLite!Rollback(c) PROVE SQLiteInv'
  <2>1. s_pc[c] = "rollback" /\ s_writer = c
    BY <1>5 DEF SQLite!Rollback, SQLiteInv, Transaction
  <2> QED BY <1>5, <2>1, SQLiteLeaves DEF SQLite!Rollback
<1>6. ASSUME NEW c \in Tokens, SQLite!OrphanBegin(c) PROVE FALSE
  BY <1>6 DEF SQLite!OrphanBegin, SQLiteInv, NoOrphan
<1>7. ASSUME NEW c \in Tokens, SQLite!release(c) PROVE SQLiteInv'
  <2>1. {SQLite!LB!Reply(c, "released", 0), SQLite!LB!Reply(c, "not_owned", 0)} \subseteq
          [token : Tokens \cup {NoToken}, answer : SQLite!LB!Answers, fence : 0..MaxFence]
    BY SQLiteReply
  <2>2. s_pc[c] = "idle"
    BY <1>7 DEF SQLite!release, SQLite!Update
  <2> QED BY <1>7, <2>1, <2>2, SQLiteUpdates DEF SQLite!release
<1>8. ASSUME NEW c \in Tokens, SQLite!close(c) PROVE SQLiteInv'
  <2>1. {s_reply, s_reply} \subseteq
          [token : Tokens \cup {NoToken}, answer : SQLite!LB!Answers, fence : 0..MaxFence]
    BY DEF SQLiteInv, SQLite!TypeOK
  <2>2. s_pc[c] = "idle"
    BY <1>8 DEF SQLite!close, SQLite!Update
  <2> QED BY <1>8, <2>1, <2>2, SQLiteUpdates DEF SQLite!close
<1>9. CASE SQLite!Tick
  <2>1. /\ s_now' = s_now + 1 /\ s_now' \in 0..SQLiteTime
        /\ UNCHANGED <<s_row, s_draft, s_writer, s_pc, s_asking, s_orphan, s_reply>>
    BY <1>9 DEF SQLite!Tick, SQLiteInv, SQLite!TypeOK
  <2>2. SQLite!datetime_now' \in Nat /\ SQLite!datetime_now <= SQLite!datetime_now'
    BY <2>1, SQLiteFacts, SecondsPass
  <2>3. \A r \in {s_row, s_draft} : r.expire_at \in Nat /\ r.expire_at <= SQLite!datetime_now' + SQLiteDuration
    <3>1. s_row.expire_at \in Nat /\ s_draft.expire_at \in Nat
      BY SQLiteFacts DEF SQLite!Rows
    <3> QED BY <2>2, <3>1, SQLiteFacts
  <2>4. SQLite!TypeOK' /\ NoOrphan' /\ Calling' = Calling /\ CoversAsked(s_row)' /\ CoversAsked(s_draft)'
    BY <2>1, <2>3 DEF SQLiteInv, SQLite!TypeOK, NoOrphan, Calling, CoversAsked
  <2>5. \A b \in Tokens : s_pc[b] = "commit" => Upserted(b)'
    BY <2>1, UpsertedStays DEF SQLiteInv, Transaction
  <2>6. Transaction'
    BY <2>1, <2>5 DEF SQLiteInv, Transaction
  <2> QED BY <2>1, <2>4, <2>6 DEF SQLiteInv
<1> QED
  BY <1>1, <1>2, <1>3, <1>4, <1>5, <1>6, <1>7, <1>8, <1>9, SQLiteUpserts, SQLiteCommits
     DEF SQLite!Next, SQLite!WorkerThread

\* Every step is a step of the protocol or stutters: the grant happens at COMMIT.
LEMMA SQLiteRefines ==
  ASSUME "begin" \notin CancelAt
  PROVE  SQLiteInv /\ [SQLite!Next]_(SQLite!vars) => [SQLite!LB!Next]_(SQLite!LB!vars)
<1> SUFFICES ASSUME SQLiteInv, [SQLite!Next]_(SQLite!vars)
             PROVE  SQLite!LB!Next \/ UNCHANGED SQLite!LB!vars
  OBVIOUS
<1> USE SQLiteConstants
<1>1. ASSUME UNCHANGED <<s_now, s_row, s_reply>> PROVE UNCHANGED SQLite!LB!vars
  BY <1>1 DEF SQLite!LB!vars, SQLite!locked, SQLite!datetime_now
<1>2. SQLite!locked \in BOOLEAN /\ SQLite!locked' \in BOOLEAN
  BY DEF SQLite!locked
<1>3. ASSUME NEW c \in Tokens, SQLite!Commit(c) PROVE SQLite!LB!Next
  <2>1. /\ s_pc[c] = "commit" /\ s_row' = s_draft /\ UNCHANGED s_now
        /\ s_reply' = IF s_draft.granted THEN SQLite!LB!Reply(c, "granted", s_draft.fence)
                                         ELSE SQLite!LB!Reply(c, "refused", 0)
    BY <1>3 DEF SQLite!Commit
  <2>2. Upserted(c)
    BY <2>1 DEF SQLiteInv, Transaction
  <2>3. SQLite!locked' \in SQLite!LB!GrantedLive
    BY <1>2 DEF SQLite!LB!GrantedLive
  <2>4. CASE s_draft.granted = TRUE /\ s_draft.token = c /\ s_row.token = c /\ s_draft.fence = s_row.fence
    <3>1. SQLite!LB!Extend(c)
      BY <2>1, <2>3, <2>4 DEF SQLite!LB!Extend
    <3> QED BY <3>1 DEF SQLite!LB!Next, SQLite!LB!Acquire
  <2>5. CASE /\ s_draft.granted = TRUE /\ s_draft.token = c
             /\ ~ SQLite!locked /\ s_draft.fence = s_row.fence + 1
    <3>1. s_row.fence < MaxFence
      <4>1. s_draft.fence \in 0..MaxFence
        BY SQLiteFacts DEF SQLite!Rows
      <4> QED BY <2>5, <4>1, SQLiteFacts
    <3>2. SQLite!LB!Mint(c)
      BY <2>1, <2>3, <2>5, <3>1 DEF SQLite!LB!Mint
    <3> QED BY <3>2 DEF SQLite!LB!Next, SQLite!LB!Acquire
  <2>6. CASE /\ s_draft.granted = FALSE /\ s_row.token \notin {c, NoToken}
             /\ s_draft.token = s_row.token /\ s_draft.fence = s_row.fence
             /\ s_draft.expire_at = s_row.expire_at
    <3>1. UNCHANGED <<s_row.token, SQLite!locked, s_row.fence>>
      BY <2>1, <2>6 DEF SQLite!locked, SQLite!datetime_now
    <3>2. s_reply' = SQLite!LB!Reply(c, "refused", 0)
      BY <2>1, <2>6
    <3>3. SQLite!LB!Refuse(c)
      BY <2>6, <3>1, <3>2 DEF SQLite!LB!Refuse
    <3> QED BY <3>3 DEF SQLite!LB!Next, SQLite!LB!Acquire
  <2> QED BY <2>2, <2>4, <2>5, <2>6 DEF Upserted
<1>4. ASSUME UNCHANGED s_now, s_row' = SQLite!Vacated(s_row)
      PROVE  s_row'.token = NoToken /\ s_row'.fence = s_row.fence /\ SQLite!locked' = FALSE
  BY <1>4, SQLiteFacts DEF SQLite!Vacated, SQLite!Rows, SQLite!locked
<1>5. ASSUME UNCHANGED <<s_now, s_row>> PROVE UNCHANGED <<s_row.token, SQLite!locked, s_row.fence>>
  BY <1>5 DEF SQLite!locked, SQLite!datetime_now
<1>6. ASSUME NEW c \in Tokens, SQLite!release(c) PROVE SQLite!LB!Next
  <2>1. {SQLite!LB!Reply(c, "released", 0), SQLite!LB!Reply(c, "not_owned", 0)} \subseteq
          [token : Tokens \cup {NoToken}, answer : SQLite!LB!Answers, fence : 0..MaxFence]
    BY SQLiteReply
  <2>2. s_pc[c] = "idle"
    BY <1>6 DEF SQLite!release, SQLite!Update
  <2> DEFINE match == [r \in {s_row, s_draft} |-> r.token = c /\ r.expire_at >= SQLite!datetime_now]
  <2>3. /\ UNCHANGED s_now
        /\ \/ match[s_row] /\ s_row' = SQLite!Vacated(s_row) /\ s_reply' = SQLite!LB!Reply(c, "released", 0)
           \/ ~ match[s_row] /\ UNCHANGED s_row /\ s_reply' = SQLite!LB!Reply(c, "not_owned", 0)
    BY <1>6, <2>1, <2>2, SQLiteUpdates DEF SQLite!release
  <2>4. match[s_row] <=> s_row.token = c /\ s_row.expire_at >= SQLite!datetime_now
    BY Zenon
  <2> HIDE DEF match
  <2>5. CASE match[s_row] /\ s_row' = SQLite!Vacated(s_row) /\ s_reply' = SQLite!LB!Reply(c, "released", 0)
    <3>1. SQLite!LB!Release(c)
      BY <1>4, <2>3, <2>4, <2>5 DEF SQLite!LB!Release
    <3> QED BY <3>1 DEF SQLite!LB!Next, SQLite!LB!TryRelease
  <2>6. CASE ~ match[s_row] /\ UNCHANGED s_row /\ s_reply' = SQLite!LB!Reply(c, "not_owned", 0)
    <3>1. ~ (s_row.token = c /\ SQLite!locked)
      BY <2>4, <2>6 DEF SQLite!locked
    <3>2. SQLite!LB!RefuseRelease(c)
      BY <1>5, <2>3, <2>6, <3>1 DEF SQLite!LB!RefuseRelease
    <3> QED BY <3>2 DEF SQLite!LB!Next, SQLite!LB!TryRelease
  <2> QED BY <2>3, <2>5, <2>6
<1>7. ASSUME NEW c \in Tokens, SQLite!close(c) PROVE SQLite!LB!Next \/ UNCHANGED SQLite!LB!vars
  <2>1. {s_reply, s_reply} \subseteq
          [token : Tokens \cup {NoToken}, answer : SQLite!LB!Answers, fence : 0..MaxFence]
    BY DEF SQLiteInv, SQLite!TypeOK
  <2>2. s_pc[c] = "idle"
    BY <1>7 DEF SQLite!close, SQLite!Update
  <2> DEFINE match == [r \in {s_row, s_draft} |-> r.token # NoToken /\ r.expire_at < SQLite!datetime_now]
  <2>3. /\ UNCHANGED s_now /\ s_reply' = s_reply
        /\ \/ match[s_row] /\ s_row' = SQLite!Vacated(s_row)
           \/ ~ match[s_row] /\ UNCHANGED s_row
    BY <1>7, <2>1, <2>2, SQLiteUpdates DEF SQLite!close
  <2>4. match[s_row] <=> s_row.token # NoToken /\ s_row.expire_at < SQLite!datetime_now
    BY Zenon
  <2> HIDE DEF match
  <2>5. CASE match[s_row] /\ s_row' = SQLite!Vacated(s_row)
    <3>1. ~ SQLite!locked /\ SQLite!locked = FALSE
      BY <2>4, <2>5, SQLiteFacts DEF SQLite!locked
    <3>2. SQLite!LB!Vacate
      BY <1>4, <2>3, <2>5, <3>1 DEF SQLite!LB!Vacate
    <3> QED BY <3>2 DEF SQLite!LB!Next
  <2>6. CASE UNCHANGED s_row
    BY <1>1, <2>3, <2>6
  <2> QED BY <2>3, <2>5, <2>6
<1>8. CASE SQLite!Tick
  <2>1. UNCHANGED <<s_row, s_reply>> /\ s_now' = s_now + 1
    BY <1>8 DEF SQLite!Tick
  <2>2. CASE SQLite!locked /\ ~ SQLite!locked'
    <3>1. SQLite!LB!Lapse
      BY <1>2, <2>1, <2>2 DEF SQLite!LB!Lapse
    <3> QED BY <3>1 DEF SQLite!LB!Next
  <2>3. CASE ~(SQLite!locked /\ ~ SQLite!locked')
    <3>1. SQLite!datetime_now' \in Nat /\ SQLite!datetime_now <= SQLite!datetime_now'
      BY <2>1, SQLiteFacts, SecondsPass
    <3>2. SQLite!locked' => SQLite!locked
      BY <2>1, <3>1, SQLiteFacts DEF SQLite!locked
    <3>3. SQLite!locked' = SQLite!locked
      BY <1>2, <2>3, <3>2
    <3> QED BY <2>1, <3>3 DEF SQLite!LB!vars
  <2> QED BY <2>2, <2>3
<1>9. CASE UNCHANGED SQLite!vars
  BY <1>1, <1>9 DEF SQLite!vars
<1>10. ASSUME NEW c, NEW d, SQLite!acquire(c, d) PROVE UNCHANGED SQLite!LB!vars
  BY <1>1, <1>10 DEF SQLite!acquire
<1>11. ASSUME NEW c, SQLite!Begin(c) \/ SQLite!Upsert(c) \/ SQLite!Rollback(c) \/ SQLite!OrphanBegin(c) \/ SQLite!Cancel(c)
       PROVE  UNCHANGED SQLite!LB!vars
  BY <1>1, <1>11 DEF SQLite!Begin, SQLite!Upsert, SQLite!Rollback, SQLite!OrphanBegin, SQLite!Cancel
<1> QED
  BY <1>3, <1>6, <1>7, <1>8, <1>9, <1>10, <1>11 DEF SQLite!Next, SQLite!WorkerThread

\* sqlite.py implements the backend protocol although the upsert and its COMMIT are two
\* statements and other processes run in between; its leases cover the duration asked for.
\* Where a caller is cancelled while it awaits BEGIN this fails: see ReleasedMeansReleased.
THEOREM SQLiteImplements ==
  ASSUME "begin" \notin CancelAt
  PROVE  SQLite!Spec => SQLite!Implements /\ [](SQLite!TypeOK /\ SQLite!LeaseCoversDuration)
<1>1. SQLite!Init => SQLite!LB!Init
  <2> SUFFICES ASSUME SQLite!Init PROVE SQLite!LB!Init
    OBVIOUS
  <2>1. s_row.token = NoToken /\ s_row.fence = 0
    BY DEF SQLite!Init, SQLite!NoRow
  <2>2. SQLite!locked = FALSE
    BY <2>1 DEF SQLite!locked
  <2> QED BY <2>1, <2>2 DEF SQLite!Init, SQLite!LB!Init
<1>2. SQLiteInv => SQLite!TypeOK /\ SQLite!LeaseCoversDuration
  <2> SUFFICES ASSUME SQLiteInv, s_row.token # NoToken, s_now <= s_row.asked PROVE SQLite!locked
    BY DEF SQLiteInv, SQLite!LeaseCoversDuration
  <2>1. s_row.asked < TicksPerSecond * s_row.expire_at + TicksPerSecond
    BY DEF SQLiteInv, CoversAsked
  <2>2. TicksPerSecond * SQLite!datetime_now <= s_now
    BY SQLiteFacts, SQLiteNow
  <2>3. /\ TicksPerSecond * SQLite!datetime_now < TicksPerSecond * s_row.expire_at + TicksPerSecond
    <3>1. /\ TicksPerSecond * SQLite!datetime_now \in Nat /\ TicksPerSecond * s_row.expire_at \in Nat
          /\ TicksPerSecond \in Nat /\ s_now \in Nat /\ s_row.asked \in Nat
      BY SQLiteConstants, SQLiteFacts
    <3> QED BY <2>1, <2>2, <3>1
  <2>4. SQLite!datetime_now <= s_row.expire_at
    BY <2>3, SQLiteFacts, SQLiteConstants, MultiplesBelow
  <2> QED BY <2>4, SQLiteFacts DEF SQLite!locked
<1> QED
  BY <1>1, <1>2, SQLiteInit, SQLiteNextInv, SQLiteRefines, PTL
     DEF SQLite!Spec, SQLite!Implements, SQLite!LB!Spec

-----------------------------------------------------------------------------
\* The leader election adapters

Records == [holder : Tokens, lease_duration : Nat, renewed_at : Nat, asked : Nat, transitions : Nat]
ElectionCalls ==
  [pc : {"idle", "asked", "got", "writing", "rereading", "releasing", "asking", "deleting"},
   began : Nat, at : Nat, seen : Records \cup {NoToken}, version : Nat, next : Records \cup {NoToken}]

\* A record lasts at least as long as it was asked for, from a time not before the request.
LastsAsAsked(r) == r.asked <= r.renewed_at /\ LeaderDuration <= r.lease_duration

\* A call acts on a time that is past.  What kubernetes.py read is the Lease itself while the
\* version is the same, and a decision to take another's Lease was right by the worker's clock.
KeepsElection(w) ==
  LET c == e_call[w] IN
  /\ e_adapter = "kubernetes" \/ c.pc \in {"idle", "asked", "releasing"}
  /\ c.began <= e_now
  /\ c.pc = "asked" => c.at = c.began
  /\ c.pc \in {"got", "writing"} =>
       /\ c.version <= e_version
       /\ c.seen # NoToken => LastsAsAsked(c.seen) /\ c.seen \in Records
       /\ c.version = e_version /\ c.seen # NoToken => c.seen = e_record
  /\ c.pc = "writing" =>
       /\ c.next \in Records /\ LastsAsAsked(c.next) /\ c.next.holder = w
       /\ c.seen # NoToken /\ c.seen.holder # w =>
            e_now + e_skew[w] >= c.seen.renewed_at + c.seen.lease_duration

LeaderInv ==
  /\ e_adapter \in ElectionAdapters /\ e_skew \in Skews
  /\ e_now \in 0..MaxTime /\ e_version \in 0..MaxVersion
  /\ e_record # NoToken => e_record \in Records /\ LastsAsAsked(e_record)
  /\ e_call \in [Tokens -> ElectionCalls]
  /\ \A w \in Tokens : KeepsElection(w)

\* The constants of the adapters.
LEMMA LeaderConstants ==
  /\ ElectionAdapters \subseteq {"memory", "redis", "postgres", "kubernetes"}
  /\ Skews \subseteq [Tokens -> Nat]
  /\ LeaderDuration \in Nat \ {0} /\ LeaderSecond \in Nat \ {0} /\ MaxTime \in Nat /\ MaxVersion \in Nat
  BY AdapterAssumptions DEF Leader!LeaderAdaptersAssumption

\* No call.
LEMMA IdleElection ==
  /\ Leader!NoCall \in ElectionCalls /\ Leader!NoCall.pc = "idle" /\ Leader!NoCall.began = 0
  BY DEF Leader!NoCall, ElectionCalls

\* The whole seconds that kubernetes.py writes are not less than the duration.
LEMMA LeaseSecondsCover == Leader!Ceil(LeaderDuration) \in Nat /\ LeaderDuration <= Leader!Ceil(LeaderDuration)
<1> USE LeaderConstants
<1> DEFINE q == (LeaderDuration + LeaderSecond - 1) \div LeaderSecond
<1>1. q \in Nat /\ LeaderDuration <= LeaderSecond * q
  BY CeilBounds
<1>2. Leader!Ceil(LeaderDuration) = q * LeaderSecond
  BY DEF Leader!Ceil
<1> HIDE DEF q
<1>3. q * LeaderSecond = LeaderSecond * q /\ LeaderSecond * q \in Nat
  BY <1>1
<1> QED BY <1>1, <1>2, <1>3

\* What a worker's decision leaves: the record of another that is live, or one of its own.
LEMMA DecidedRecord ==
  ASSUME NEW r, r # NoToken => r \in Records /\ LastsAsAsked(r),
         NEW w \in Tokens, NEW t \in Nat, NEW d \in Nat, LeaderDuration <= d, NEW began \in Nat, began <= t
  PROVE  LET next == Leader!Decided(r, w, t, d, began) IN
         /\ Leader!_live(r, t) /\ r.holder # w => next = r
         /\ ~(Leader!_live(r, t) /\ r.holder # w) =>
              next \in Records /\ LastsAsAsked(next) /\ next.holder = w
         /\ r # NoToken /\ r.holder # w /\ ~ Leader!_live(r, t) => t >= r.asked + LeaderDuration
<1> USE LeaderConstants
<1>1. CASE Leader!_live(r, t) /\ r.holder # w
  BY <1>1 DEF Leader!Decided
<1>2. CASE Leader!_live(r, t) /\ r.holder = w
  <2>1. r \in Records
    BY <1>2 DEF Leader!_live
  <2>2. Leader!Renewed(r, t, d, began) \in Records /\ Leader!Renewed(r, t, d, began).holder = w
        /\ LastsAsAsked(Leader!Renewed(r, t, d, began))
    BY <1>2, <2>1 DEF Leader!Renewed, Records, LastsAsAsked
  <2>3. Leader!Decided(r, w, t, d, began) = Leader!Renewed(r, t, d, began)
    BY <1>2 DEF Leader!Decided
  <2> QED BY <1>2, <2>2, <2>3
<1>3. CASE ~ Leader!_live(r, t)
  <2>1. Leader!Decided(r, w, t, d, began) = Leader!Fresh(r, w, t, d, began)
    BY <1>3 DEF Leader!Decided
  <2> DEFINE n == CASE r = NoToken -> 0
                    [] r # NoToken /\ r.holder = w -> r.transitions
                    [] OTHER -> r.transitions + 1
  <2>2. n \in Nat
    BY DEF Records
  <2>3. Leader!Fresh(r, w, t, d, began) =
          [holder |-> w, lease_duration |-> d, renewed_at |-> t, asked |-> began, transitions |-> n]
    BY DEF Leader!Fresh
  <2> HIDE DEF n
  <2>4. /\ Leader!Fresh(r, w, t, d, began) \in Records /\ Leader!Fresh(r, w, t, d, began).holder = w
        /\ LastsAsAsked(Leader!Fresh(r, w, t, d, began))
    BY <2>2, <2>3 DEF Records, LastsAsAsked
  <2>5. r # NoToken => t >= r.asked + LeaderDuration
    BY <1>3 DEF Leader!_live, Records, LastsAsAsked
  <2> QED BY <1>3, <2>1, <2>4, <2>5
<1> QED BY <1>1, <1>2, <1>3

\* The record passes to another only when the time it was asked for is over on some clock.
PassesOnTime ==
  e_record # NoToken /\ e_record' # NoToken /\ e_record'.holder # e_record.holder =>
    \E w \in Tokens : e_now + e_skew[w] >= e_record.asked + LeaderDuration

\* The types that the proofs below keep using.
LEMMA LeaderFacts ==
  ASSUME LeaderInv
  PROVE  /\ e_now \in Nat /\ e_version \in Nat
         /\ \A w \in Tokens : /\ e_skew[w] \in Nat /\ e_call[w] \in ElectionCalls
                              /\ e_call[w].began \in Nat /\ e_call[w].at \in Nat /\ e_call[w].version \in Nat
                              /\ e_now + e_skew[w] \in Nat /\ e_now + e_skew[w] >= e_now
<1> USE LeaderConstants
<1>1. e_now \in Nat /\ e_version \in Nat
  BY DEF LeaderInv
<1>2. e_skew \in [Tokens -> Nat] /\ e_call \in [Tokens -> ElectionCalls]
  BY DEF LeaderInv
<1>3. ASSUME NEW w \in Tokens
      PROVE  /\ e_skew[w] \in Nat /\ e_call[w] \in ElectionCalls
             /\ e_call[w].began \in Nat /\ e_call[w].at \in Nat /\ e_call[w].version \in Nat
  <2>1. e_skew[w] \in Nat /\ e_call[w] \in ElectionCalls
    BY <1>2
  <2> QED BY <2>1 DEF ElectionCalls
<1> QED BY <1>1, <1>3

\* A step of one worker's call that leaves the record.
LEMMA ElectionMoves ==
  ASSUME LeaderInv, NEW w \in Tokens, NEW c \in ElectionCalls, Leader!Becomes(w, c),
         UNCHANGED <<e_adapter, e_skew, e_now, e_record, e_version>>,
         e_call'[w] = c => KeepsElection(w)'
  PROVE  LeaderInv'
<1>1. e_call' = [e_call EXCEPT ![w] = c] /\ e_call' \in [Tokens -> ElectionCalls]
  BY DEF Leader!Becomes, LeaderInv
<1>2. ASSUME NEW b \in Tokens PROVE KeepsElection(b)'
  <2>1. CASE b = w
    BY <1>1, <2>1 DEF LeaderInv
  <2>2. CASE b # w
    <3>1. e_call'[b] = e_call[b]
      BY <1>1, <2>2 DEF LeaderInv
    <3> QED BY <3>1 DEF LeaderInv, KeepsElection
  <2> QED BY <2>1, <2>2
<1> QED BY <1>1, <1>2 DEF LeaderInv

\* A worker has its answer, or gives up.
LEMMA ElectionEnds ==
  ASSUME LeaderInv, NEW w \in Tokens, Leader!Becomes(w, Leader!NoCall),
         UNCHANGED <<e_adapter, e_skew, e_now, e_record, e_version>>
  PROVE  LeaderInv'
<1>1. ASSUME e_call'[w] = Leader!NoCall PROVE KeepsElection(w)'
  <2>1. e_call'[w].pc = "idle" /\ e_call'[w].began = 0 /\ e_now' \in Nat
    BY <1>1, IdleElection, LeaderFacts
  <2> QED BY <2>1 DEF KeepsElection
<1> QED BY <1>1, IdleElection, ElectionMoves

\* The record is written in one step of one clock: nobody has read it before.
LEMMA RecordDecided ==
  ASSUME LeaderInv, e_adapter # "kubernetes", NEW w \in Tokens, NEW t \in Nat, t <= e_now,
         \/ e_record' = Leader!Decided(e_record, w, t, LeaderDuration, t)
         \/ e_record' = Leader!Released(w, t),
         UNCHANGED <<e_adapter, e_skew, e_now, e_version>>,
         UNCHANGED e_call \/ Leader!Becomes(w, Leader!NoCall)
  PROVE  LeaderInv' /\ PassesOnTime
<1> USE LeaderConstants
<1>1. e_record # NoToken => e_record \in Records /\ LastsAsAsked(e_record)
  BY DEF LeaderInv
<1>2. /\ e_record' # NoToken => e_record' \in Records /\ LastsAsAsked(e_record')
      /\ e_record # NoToken /\ e_record' # NoToken /\ e_record'.holder # e_record.holder =>
           t >= e_record.asked + LeaderDuration
  <2>1. CASE e_record' = Leader!Decided(e_record, w, t, LeaderDuration, t)
    <3>1. /\ Leader!_live(e_record, t) /\ e_record.holder # w => e_record' = e_record
          /\ ~(Leader!_live(e_record, t) /\ e_record.holder # w) =>
               e_record' \in Records /\ LastsAsAsked(e_record') /\ e_record'.holder = w
          /\ e_record # NoToken /\ e_record.holder # w /\ ~ Leader!_live(e_record, t) =>
               t >= e_record.asked + LeaderDuration
      BY <1>1, <2>1, DecidedRecord
    <3> QED BY <1>1, <3>1
  <2>2. CASE e_record' = Leader!Released(w, t)
    BY <1>1, <2>2 DEF Leader!Released
  <2> QED BY <2>1, <2>2
<1>3. PassesOnTime
  <2>1. e_record # NoToken => e_record.asked + LeaderDuration \in Nat
    BY <1>1 DEF Records
  <2> QED BY <1>2, <2>1, LeaderFacts DEF PassesOnTime
<1>4. e_call' \in [Tokens -> ElectionCalls]
  BY IdleElection DEF Leader!Becomes, LeaderInv
<1>5. ASSUME NEW b \in Tokens PROVE KeepsElection(b)'
  <2>1. e_call'[b] = e_call[b] \/ e_call'[b] = Leader!NoCall
    BY DEF Leader!Becomes, LeaderInv
  <2>2. CASE e_call'[b] = e_call[b]
    <3>1. e_call[b].pc \in {"idle", "asked", "releasing"}
      BY DEF LeaderInv, KeepsElection
    <3>2. e_call[b].pc \notin {"got", "writing"} /\ e_call[b].pc # "writing"
      BY <3>1
    <3> QED BY <2>2, <3>1, <3>2 DEF LeaderInv, KeepsElection
  <2>3. CASE e_call'[b] = Leader!NoCall
    <3>1. e_call'[b].pc = "idle" /\ e_call'[b].began = 0 /\ e_now' \in Nat
      BY <2>3, IdleElection, LeaderFacts
    <3> QED BY <3>1 DEF KeepsElection
  <2> QED BY <2>1, <2>2, <2>3
<1> QED BY <1>2, <1>3, <1>4, <1>5 DEF LeaderInv

\* The API server writes or deletes the Lease, under a version of its own: whoever read it
\* before has another version.
LEMMA LeaseWritten ==
  ASSUME LeaderInv, e_adapter = "kubernetes", NEW w \in Tokens, Leader!Becomes(w, Leader!NoCall),
         e_version < MaxVersion, e_version' = e_version + 1,
         e_record' # NoToken => e_record' \in Records /\ LastsAsAsked(e_record'),
         UNCHANGED <<e_adapter, e_skew, e_now>>
  PROVE  LeaderInv'
<1> USE LeaderConstants
<1>1. e_call' = [e_call EXCEPT ![w] = Leader!NoCall] /\ e_call' \in [Tokens -> ElectionCalls]
  BY IdleElection DEF Leader!Becomes, LeaderInv
<1>2. e_version \in Nat /\ e_version' \in 0..MaxVersion
  BY DEF LeaderInv
<1>3. ASSUME NEW b \in Tokens PROVE KeepsElection(b)'
  <2>1. CASE b = w
    <3>1. e_call'[b].pc = "idle" /\ e_call'[b].began = 0 /\ e_now' \in Nat
      BY <1>1, <2>1, IdleElection, LeaderFacts DEF LeaderInv
    <3> QED BY <3>1 DEF KeepsElection
  <2>2. CASE b # w
    <3>1. e_call'[b] = e_call[b] /\ e_call[b].version \in Nat
      BY <1>1, <2>2, LeaderFacts DEF LeaderInv
    <3>2. e_call[b].version <= e_version => e_call[b].version <= e_version' /\ e_call[b].version # e_version'
      BY <1>2, <3>1
    <3> QED BY <3>1, <3>2 DEF LeaderInv, KeepsElection
  <2> QED BY <2>1, <2>2
<1> QED BY <1>1, <1>2, <1>3 DEF LeaderInv

\* Nobody leads and nobody calls.
LEMMA LeaderInit == Leader!Init => LeaderInv
<1> SUFFICES ASSUME Leader!Init PROVE LeaderInv
  OBVIOUS
<1> USE LeaderConstants
<1>1. e_call \in [Tokens -> ElectionCalls] /\ \A w \in Tokens : e_call[w] = Leader!NoCall
  BY IdleElection DEF Leader!Init
<1>2. ASSUME NEW w \in Tokens PROVE KeepsElection(w)
  <2>1. e_call[w].pc = "idle" /\ e_call[w].began = 0 /\ e_now = 0
    BY <1>1, IdleElection DEF Leader!Init
  <2> QED BY <2>1 DEF KeepsElection
<1> QED BY <1>1, <1>2 DEF Leader!Init, LeaderInv

\* The steps of kubernetes.py.
LEMMA KubernetesElects ==
  ASSUME LeaderInv, NEW w \in Tokens,
         \/ Leader!kubernetes_acquire_or_renew(w) \/ Leader!_replace(w) \/ Leader!_create(w) \/ Leader!_reread(w)
         \/ Leader!kubernetes_release(w) \/ Leader!check_holder(w) \/ Leader!delete(w)
  PROVE  LeaderInv' /\ PassesOnTime
<1> USE LeaderConstants
<1>0. /\ e_record # NoToken => e_record \in Records /\ LastsAsAsked(e_record)
      /\ e_call[w] \in ElectionCalls /\ KeepsElection(w)
  BY LeaderFacts DEF LeaderInv
<1>1. CASE Leader!kubernetes_acquire_or_renew(w)
  <2> DEFINE c == [Leader!NoCall EXCEPT !.pc = "got", !.began = e_now, !.seen = e_record, !.version = e_version]
  <2>1. /\ e_adapter = "kubernetes" /\ Leader!Becomes(w, c)
        /\ UNCHANGED <<e_adapter, e_skew, e_now, e_record, e_version>>
    BY <1>1 DEF Leader!kubernetes_acquire_or_renew, Leader!Others
  <2>2. c.pc = "got" /\ c.began = e_now /\ c.seen = e_record /\ c.version = e_version
    BY DEF Leader!NoCall
  <2>3. c \in ElectionCalls
    BY <1>0, LeaderFacts DEF Leader!NoCall, ElectionCalls
  <2> HIDE DEF c
  <2>4. ASSUME e_call'[w] = c PROVE KeepsElection(w)'
    <3>1. /\ e_call'[w].pc = "got" /\ e_call'[w].began = e_now /\ e_call'[w].seen = e_record
          /\ e_call'[w].version = e_version
      BY <2>2, <2>4
    <3> QED BY <1>0, <2>1, <3>1, LeaderFacts DEF KeepsElection
  <2> QED BY <2>1, <2>3, <2>4, ElectionMoves DEF PassesOnTime
<1>2. CASE Leader!_replace(w)
  <2>1. /\ e_call[w].pc = "got" /\ e_adapter = "kubernetes"
        /\ UNCHANGED <<e_adapter, e_skew, e_now, e_record, e_version>>
    BY <1>0, <1>2 DEF Leader!_replace, Leader!Others, KeepsElection
  <2>2. CASE Leader!Undecided(w) /\ Leader!Becomes(w, Leader!NoCall)
    BY <2>1, <2>2, ElectionEnds DEF PassesOnTime
  <2>3. CASE ~ Leader!Undecided(w) /\ ~ Leader!Becomes(w, Leader!NoCall)
    <3> DEFINE t == e_now + e_skew[w]
               next == Leader!Decided(e_call[w].seen, w, t, Leader!Ceil(LeaderDuration), e_call[w].began)
               c == [e_call[w] EXCEPT !.pc = "writing", !.next = next]
    <3>1. Leader!Becomes(w, c)
      BY <1>2, <2>3 DEF Leader!_replace, Leader!Local
    <3>2. /\ t \in Nat /\ e_call[w].began \in Nat /\ e_call[w].began <= t
          /\ e_call[w].seen # NoToken => e_call[w].seen \in Records /\ LastsAsAsked(e_call[w].seen)
      BY <1>0, <2>1, LeaderFacts DEF KeepsElection
    <3>3. ~(Leader!_live(e_call[w].seen, t) /\ e_call[w].seen.holder # w)
      BY <2>3 DEF Leader!Undecided, Leader!Local
    <3>4. /\ next \in Records /\ LastsAsAsked(next) /\ next.holder = w
      BY <3>2, <3>3, DecidedRecord, LeaseSecondsCover
    <3>5. e_call[w].seen # NoToken /\ e_call[w].seen.holder # w =>
            t >= e_call[w].seen.renewed_at + e_call[w].seen.lease_duration
      BY <3>2, <3>3 DEF Leader!_live, Records
    <3> HIDE DEF next
    <3>6. /\ c \in ElectionCalls /\ c.pc = "writing" /\ c.next = next
          /\ c.began = e_call[w].began /\ c.seen = e_call[w].seen /\ c.version = e_call[w].version
      BY <1>0, <3>4 DEF ElectionCalls
    <3> HIDE DEF c
    <3>7. ASSUME e_call'[w] = c PROVE KeepsElection(w)'
      BY <1>0, <2>1, <3>4, <3>5, <3>6, <3>7 DEF KeepsElection
    <3> QED BY <2>1, <3>1, <3>6, <3>7, ElectionMoves DEF PassesOnTime
  <2>4. CASE Leader!Becomes(w, Leader!NoCall)
    BY <2>1, <2>4, ElectionEnds DEF PassesOnTime
  <2> QED BY <1>2, <2>2, <2>3, <2>4 DEF Leader!_replace
<1>3. CASE Leader!_create(w)
  <2>1. /\ e_call[w].pc = "writing" /\ e_adapter = "kubernetes" /\ e_version < MaxVersion
        /\ UNCHANGED <<e_adapter, e_skew, e_now>>
    BY <1>0, <1>3 DEF Leader!_create, Leader!Others, KeepsElection
  <2>2. CASE /\ Leader!Matches(w) /\ e_record' = e_call[w].next /\ e_version' = e_version + 1
             /\ Leader!Becomes(w, Leader!NoCall)
    <3>1. e_call[w].next \in Records /\ LastsAsAsked(e_call[w].next) /\ e_call[w].next.holder = w
      BY <1>0, <2>1 DEF KeepsElection
    <3>2. LeaderInv'
      BY <2>1, <2>2, <3>1, LeaseWritten
    <3>3. ASSUME e_record # NoToken, e_record'.holder # e_record.holder
          PROVE  e_now + e_skew[w] >= e_record.asked + LeaderDuration
      <4>1. e_call[w].seen = e_record /\ e_record.holder # w
        BY <1>0, <2>1, <2>2, <3>1, <3>3 DEF Leader!Matches, KeepsElection
      <4>2. e_now + e_skew[w] >= e_record.renewed_at + e_record.lease_duration
        BY <1>0, <2>1, <3>3, <4>1 DEF KeepsElection
      <4> QED BY <1>0, <3>3, <4>2, LeaderFacts DEF Records, LastsAsAsked
    <3> QED BY <3>2, <3>3 DEF PassesOnTime
  <2>3. CASE Leader!Becomes(w, Leader!NoCall) /\ UNCHANGED <<e_record, e_version>>
    BY <2>1, <2>3, ElectionEnds DEF PassesOnTime
  <2>4. CASE Leader!Becomes(w, [e_call[w] EXCEPT !.pc = "rereading"]) /\ UNCHANGED <<e_record, e_version>>
    <3> DEFINE c == [e_call[w] EXCEPT !.pc = "rereading"]
    <3>1. c \in ElectionCalls /\ c.pc = "rereading" /\ c.began = e_call[w].began
      BY <1>0 DEF ElectionCalls
    <3> HIDE DEF c
    <3>2. ASSUME e_call'[w] = c PROVE KeepsElection(w)'
      BY <1>0, <2>1, <2>4, <3>1, <3>2 DEF KeepsElection
    <3>3. Leader!Becomes(w, c)
      BY <2>4 DEF c
    <3> QED BY <2>1, <2>4, <3>1, <3>2, <3>3, ElectionMoves DEF PassesOnTime
  <2> QED BY <1>3, <2>2, <2>3, <2>4 DEF Leader!_create
<1>4. CASE Leader!_reread(w)
  BY <1>4, ElectionEnds DEF Leader!_reread, Leader!Others, PassesOnTime
<1>5. CASE Leader!kubernetes_release(w)
  <2> DEFINE c == [Leader!NoCall EXCEPT !.pc = "asking", !.at = Leader!Local(w)]
  <2>1. /\ e_adapter = "kubernetes" /\ Leader!Becomes(w, c)
        /\ UNCHANGED <<e_adapter, e_skew, e_now, e_record, e_version>>
    BY <1>5 DEF Leader!kubernetes_release, Leader!Others
  <2>2. c \in ElectionCalls /\ c.pc = "asking" /\ c.began = 0
    BY LeaderFacts DEF Leader!NoCall, Leader!Local, ElectionCalls
  <2> HIDE DEF c
  <2>3. ASSUME e_call'[w] = c PROVE KeepsElection(w)'
    BY <2>1, <2>2, <2>3, LeaderFacts DEF KeepsElection
  <2> QED BY <2>1, <2>2, <2>3, ElectionMoves DEF PassesOnTime
<1>6. CASE Leader!check_holder(w)
  <2> DEFINE c == [Leader!NoCall EXCEPT !.pc = "deleting"]
  <2>1. /\ e_call[w].pc = "asking" /\ e_adapter = "kubernetes"
        /\ Leader!Becomes(w, c) \/ Leader!Becomes(w, Leader!NoCall)
        /\ UNCHANGED <<e_adapter, e_skew, e_now, e_record, e_version>>
    BY <1>0, <1>6 DEF Leader!check_holder, Leader!Others, KeepsElection
  <2>2. c \in ElectionCalls /\ c.pc = "deleting" /\ c.began = 0
    BY DEF Leader!NoCall, ElectionCalls
  <2> HIDE DEF c
  <2>3. ASSUME e_call'[w] = c PROVE KeepsElection(w)'
    BY <2>1, <2>2, <2>3, LeaderFacts DEF KeepsElection
  <2> QED BY <2>1, <2>2, <2>3, ElectionEnds, ElectionMoves DEF PassesOnTime
<1>7. CASE Leader!delete(w)
  <2>1. /\ e_call[w].pc = "deleting" /\ e_adapter = "kubernetes" /\ e_version < MaxVersion
        /\ e_record' = NoToken /\ Leader!Becomes(w, Leader!NoCall)
        /\ UNCHANGED <<e_adapter, e_skew, e_now>>
    BY <1>0, <1>7 DEF Leader!delete, Leader!Others, KeepsElection
  <2>2. CASE e_record = NoToken /\ UNCHANGED e_version
    BY <2>1, <2>2, ElectionEnds DEF PassesOnTime
  <2>3. CASE e_version' = e_version + 1
    BY <2>1, <2>3, LeaseWritten DEF PassesOnTime
  <2> QED BY <1>7, <2>2, <2>3 DEF Leader!delete
<1> QED BY <1>1, <1>2, <1>3, <1>4, <1>5, <1>6, <1>7

\* Every step keeps the invariant, and the record passes to another only in time.
LEMMA LeaderNextInv ==
  LeaderInv /\ [Leader!Next]_(Leader!vars) => LeaderInv' /\ [PassesOnTime]_(Leader!vars)
<1> SUFFICES ASSUME LeaderInv, [Leader!Next]_(Leader!vars) PROVE LeaderInv' /\ PassesOnTime
  OBVIOUS
<1> USE LeaderConstants
<1>0. e_now \in Nat /\ \A w \in Tokens : e_call[w].at \in Nat
  BY LeaderFacts
<1>1. CASE UNCHANGED Leader!vars
  BY <1>1 DEF Leader!vars, LeaderInv, KeepsElection, PassesOnTime
<1>2. ASSUME NEW w \in Tokens, Leader!memory_acquire_or_renew(w) \/ Leader!redis_acquire_or_renew(w)
      PROVE  LeaderInv' /\ PassesOnTime
  BY <1>0, <1>2, RecordDecided DEF Leader!memory_acquire_or_renew, Leader!redis_acquire_or_renew, Leader!Others
<1>3. ASSUME NEW w \in Tokens, Leader!memory_release(w) \/ Leader!redis_release(w)
      PROVE  LeaderInv' /\ PassesOnTime
  BY <1>0, <1>3, RecordDecided DEF Leader!memory_release, Leader!redis_release, Leader!Others
<1>4. ASSUME NEW w \in Tokens, NEW releases \in BOOLEAN, Leader!postgres_begin(w, releases)
      PROVE  LeaderInv' /\ PassesOnTime
  <2> DEFINE c == [Leader!NoCall EXCEPT !.pc = IF releases THEN "releasing" ELSE "asked",
                                        !.began = e_now, !.at = e_now]
  <2>1. Leader!Becomes(w, c) /\ UNCHANGED <<e_adapter, e_skew, e_now, e_record, e_version>>
    BY <1>4 DEF Leader!postgres_begin, Leader!Others
  <2>2. c \in ElectionCalls /\ c.pc \in {"releasing", "asked"} /\ c.began = e_now /\ c.at = e_now
    BY <1>0 DEF Leader!NoCall, ElectionCalls
  <2> HIDE DEF c
  <2>3. ASSUME e_call'[w] = c PROVE KeepsElection(w)'
    <3>1. /\ e_call'[w].pc \in {"idle", "asked", "releasing"} /\ e_call'[w].pc \notin {"got", "writing"}
          /\ e_call'[w].began <= e_now' /\ e_call'[w].at = e_call'[w].began
      BY <1>0, <2>1, <2>2, <2>3
    <3> QED BY <3>1 DEF KeepsElection
  <2> QED BY <2>1, <2>2, <2>3, ElectionMoves DEF PassesOnTime
<1>5. ASSUME NEW w \in Tokens, Leader!le_acquire_or_renew(w) PROVE LeaderInv' /\ PassesOnTime
  <2>1. e_call[w].at = e_call[w].began /\ e_call[w].at <= e_now /\ e_adapter # "kubernetes"
    BY <1>5 DEF Leader!le_acquire_or_renew, LeaderInv, KeepsElection
  <2> QED BY <1>0, <1>5, <2>1, RecordDecided DEF Leader!le_acquire_or_renew, Leader!Others
<1>6. ASSUME NEW w \in Tokens, Leader!postgres_release(w) PROVE LeaderInv' /\ PassesOnTime
  <2>1. /\ e_record' = e_record \/ e_record' = NoToken
        /\ e_adapter # "kubernetes" /\ Leader!Becomes(w, Leader!NoCall)
        /\ UNCHANGED <<e_adapter, e_skew, e_now, e_version>>
    BY <1>6 DEF Leader!postgres_release, Leader!Released, Leader!Others
  <2>2. CASE e_record' = e_record
    BY <2>1, <2>2, ElectionEnds DEF PassesOnTime
  <2>3. CASE e_record' = NoToken
    <3>1. e_call' \in [Tokens -> ElectionCalls]
      BY <2>1, IdleElection DEF Leader!Becomes, LeaderInv
    <3>2. ASSUME NEW b \in Tokens PROVE KeepsElection(b)'
      <4>1. e_call'[b] = e_call[b] \/ e_call'[b] = Leader!NoCall
        BY <2>1 DEF Leader!Becomes, LeaderInv
      <4>2. /\ e_call'[b].pc \in {"idle", "asked", "releasing"} /\ e_call'[b].pc \notin {"got", "writing"}
            /\ e_call'[b].began <= e_now' /\ (e_call'[b].pc = "asked" => e_call'[b].at = e_call'[b].began)
        BY <1>0, <2>1, <4>1, IdleElection DEF LeaderInv, KeepsElection
      <4> QED BY <4>2 DEF KeepsElection
    <3> QED BY <2>1, <2>3, <3>1, <3>2 DEF LeaderInv, PassesOnTime
  <2> QED BY <2>1, <2>2, <2>3
<1>7. ASSUME NEW w \in Tokens, Leader!give_up(w) PROVE LeaderInv' /\ PassesOnTime
  BY <1>7, ElectionEnds DEF Leader!give_up, Leader!Others, PassesOnTime
<1>8. CASE Leader!Tick
  <2>1. /\ e_now' = e_now + 1 /\ e_now' \in 0..MaxTime
        /\ UNCHANGED <<e_adapter, e_skew, e_record, e_version, e_call>>
    BY <1>0, <1>8 DEF Leader!Tick
  <2>2. ASSUME NEW w \in Tokens PROVE KeepsElection(w)'
    <3>1. KeepsElection(w) /\ e_skew[w] \in Nat /\ e_call[w].began \in Nat
      BY LeaderFacts DEF LeaderInv
    <3>2. ASSUME e_call[w].pc = "writing", e_call[w].seen # NoToken, e_call[w].seen.holder # w
          PROVE  e_now' + e_skew[w] >= e_call[w].seen.renewed_at + e_call[w].seen.lease_duration
      <4>1. e_call[w].seen \in Records /\ e_now + e_skew[w] >= e_call[w].seen.renewed_at + e_call[w].seen.lease_duration
        BY <3>1, <3>2 DEF KeepsElection
      <4> QED BY <1>0, <2>1, <3>1, <4>1 DEF Records
    <3> QED BY <1>0, <2>1, <3>1, <3>2 DEF KeepsElection
  <2> QED BY <2>1, <2>2 DEF LeaderInv, PassesOnTime
<1> QED
  BY <1>1, <1>2, <1>3, <1>4, <1>5, <1>6, <1>7, <1>8, KubernetesElects DEF Leader!Next

\* Whatever waits for an advisory lock, is decided on an old Lease or comes back with a
\* conflict: a leader keeps the lease it was granted for as long as it asked for, by the clock
\* that is furthest ahead, unless it releases it.
THEOREM LeasesAreKept == Leader!Spec => Leader!LeaseIsKept /\ []Leader!TypeOK
<1>1. LeaderInv => Leader!TypeOK
  BY DEF LeaderInv, Leader!TypeOK, Records, ElectionCalls
<1>2. [PassesOnTime]_(Leader!vars) =>
        [e_record # NoToken /\ e_record' # NoToken /\ e_record'.holder # e_record.holder =>
           \E w \in Tokens : Leader!Local(w) >= e_record.asked + LeaderDuration]_(Leader!vars)
  BY DEF PassesOnTime, Leader!Local
<1> QED
  BY <1>1, <1>2, LeaderInit, LeaderNextInv, PTL DEF Leader!Spec, Leader!LeaseIsKept

-----------------------------------------------------------------------------
\* All adapters side by side

\* A behaviour of the chosen adapter is one of every adapter: the others stand still.
LEMMA EachAdapter ==
  MCSpec => Spec /\ Memory!Spec /\ Redis!Spec /\ SQLite!Spec /\ Kubernetes!Spec /\ Leader!Spec
<1>1. MCInit => Init /\ Memory!Init /\ Redis!Init /\ SQLite!Init /\ Kubernetes!Init /\ Leader!Init
  BY DEF MCInit
<1>2. [MCNext]_allVars => [Next]_vars
  BY DEF MCNext, allVars, PostgresNext, MemoryNext, RedisNext, SQLiteNext, KubernetesNext, LeaderNext
<1>3. [MCNext]_allVars => [Memory!Next]_(Memory!vars)
  BY DEF MCNext, allVars, memory, Memory!vars, PostgresNext, MemoryNext, RedisNext, SQLiteNext, KubernetesNext, LeaderNext
<1>4. [MCNext]_allVars => [Redis!Next]_(Redis!vars)
  BY DEF MCNext, allVars, redis, Redis!vars, PostgresNext, MemoryNext, RedisNext, SQLiteNext, KubernetesNext, LeaderNext
<1>5. [MCNext]_allVars => [SQLite!Next]_(SQLite!vars)
  BY DEF MCNext, allVars, sqlite, SQLite!vars, PostgresNext, MemoryNext, RedisNext, SQLiteNext, KubernetesNext, LeaderNext
<1>6. [MCNext]_allVars => [Kubernetes!Next]_(Kubernetes!vars)
  BY DEF MCNext, allVars, kubernetes, Kubernetes!vars, PostgresNext, MemoryNext, RedisNext, SQLiteNext, KubernetesNext, LeaderNext
<1>7. [MCNext]_allVars => [Leader!Next]_(Leader!vars)
  BY DEF MCNext, allVars, leader, Leader!vars, PostgresNext, MemoryNext, RedisNext, SQLiteNext, KubernetesNext, LeaderNext
<1> QED
  BY <1>1, <1>2, <1>3, <1>4, <1>5, <1>6, <1>7, PTL
     DEF MCSpec, Spec, Memory!Spec, Redis!Spec, SQLite!Spec, Kubernetes!Spec, Leader!Spec

\* The five lock adapters implement the backend protocol, whatever calls of however many
\* callers interleave: the memory adapter when it is opened once, and the SQLite adapter when
\* no caller is cancelled while it awaits BEGIN.
THEOREM AllAdaptersImplement ==
  ASSUME MaxOpens <= 1, "begin" \notin CancelAt
  PROVE  MCSpec => Implements /\ AdaptersImplement
  BY EachAdapter, AdapterImplements, MemoryImplements, RedisImplements, SQLiteImplements, KubernetesImplements, PTL
     DEF AdaptersImplement

\* Leases last as long as they were asked for, up to the rounding of their store, in every
\* adapter; and every variable keeps its type.
THEOREM AllLeasesKeepTheirLength ==
  ASSUME "begin" \notin CancelAt
  PROVE  MCSpec => LeasesKeepTheirLength
  BY EachAdapter, PostgresTypes, MemoryTypes, RedisImplements, SQLiteImplements, KubernetesImplements,
     LeasesAreKept, PTL
     DEF LeasesKeepTheirLength, AdapterTypes
=============================================================================
