--------------------------- MODULE MCLockAdapters ---------------------------
(***************************************************************************)
(* The five lock adapters and the leader election adapters, each on its    *)
(* own state.  A behaviour is one of the adapter chosen at the start; the  *)
(* others stay as they were made, so their properties hold trivially in    *)
(* it.                                                                     *)
(***************************************************************************)
EXTENDS PostgresLockAdapter, TLC

CONSTANTS Chosen, MaxOpens,                                   \* memory
          RedisDuration, TicksPerMs, RedisTime,               \* redis
          SQLiteDuration, TicksPerSecond, SQLiteTime, CancelAt,
          LeaseDuration, LeaseSecond, LeaseTime, MaxVersion, Closer,  \* kubernetes
          ElectionAdapters, Skews, LeaderDuration, LeaderSecond

VARIABLES
  adapter,
  m_now, m_token, m_expire_at, m_fences, m_opens, m_opened, m_minted, m_reply,
  r_now, r_token, r_fence, r_expire_at, r_counter, r_asked, r_reply,
  s_now, s_row, s_draft, s_writer, s_pc, s_asking, s_orphan, s_reply,
  k_now, k_lease, k_call, k_reply,
  e_adapter, e_skew, e_now, e_record, e_version, e_call

Memory == INSTANCE MemoryLockAdapter WITH
  now <- m_now, token <- m_token, expire_at <- m_expire_at, fences <- m_fences,
  opens <- m_opens, opened <- m_opened, minted <- m_minted, reply <- m_reply

Redis == INSTANCE RedisLockAdapter WITH
  MaxDuration <- RedisDuration, MaxTime <- RedisTime,
  now <- r_now, token <- r_token, fence <- r_fence, expire_at <- r_expire_at,
  counter <- r_counter, asked <- r_asked, reply <- r_reply

SQLite == INSTANCE SQLiteLockAdapter WITH
  MaxDuration <- SQLiteDuration, MaxTime <- SQLiteTime,
  now <- s_now, row <- s_row, draft <- s_draft, writer <- s_writer,
  pc <- s_pc, asking <- s_asking, orphan <- s_orphan, reply <- s_reply

Kubernetes == INSTANCE KubernetesLockAdapter WITH
  TicksPerSecond <- LeaseSecond, MaxDuration <- LeaseDuration, MaxTime <- LeaseTime,
  now <- k_now, lease <- k_lease, call <- k_call, reply <- k_reply

Leader == INSTANCE LeaderAdapters WITH
  Workers <- Tokens, None <- NoToken, Duration <- LeaderDuration, PerSecond <- LeaderSecond,
  Adapters <- ElectionAdapters,
  adapter <- e_adapter, skew <- e_skew, now <- e_now, record <- e_record,
  version <- e_version, call <- e_call

ASSUME AdapterAssumptions ==
  /\ Memory!MemoryAssumption
  /\ Redis!RedisAssumption
  /\ SQLite!SQLiteAssumption
  /\ Kubernetes!KubernetesAssumption
  /\ Leader!LeaderAdaptersAssumption

memory == <<m_now, m_token, m_expire_at, m_fences, m_opens, m_opened, m_minted, m_reply>>
redis == <<r_now, r_token, r_fence, r_expire_at, r_counter, r_asked, r_reply>>
sqlite == <<s_now, s_row, s_draft, s_writer, s_pc, s_asking, s_orphan, s_reply>>
kubernetes == <<k_now, k_lease, k_call, k_reply>>
leader == <<e_adapter, e_skew, e_now, e_record, e_version, e_call>>

\* One worker's clock may be ahead of the others.
MCSkews ==
  LET ahead == CHOOSE t \in Tokens : TRUE
  IN  {[t \in Tokens |-> 0], [t \in Tokens |-> IF t = ahead THEN 1 ELSE 0]}

allVars == <<adapter, vars, memory, redis, sqlite, kubernetes, leader>>

MCInit ==
  /\ adapter \in Chosen
  /\ Init /\ Memory!Init /\ Redis!Init /\ SQLite!Init /\ Kubernetes!Init
  /\ Leader!Init /\ (adapter # "leader" => e_adapter = "memory")
  /\ e_adapter # "kubernetes" => \A w \in Tokens : e_skew[w] = 0  \* only there they count

PostgresNext ==
  /\ adapter = "postgres" /\ Next
  /\ UNCHANGED <<adapter, memory, redis, sqlite, kubernetes, leader>>

MemoryNext ==
  /\ adapter = "memory" /\ Memory!Next
  /\ UNCHANGED <<adapter, vars, redis, sqlite, kubernetes, leader>>

RedisNext ==
  /\ adapter = "redis" /\ Redis!Next
  /\ UNCHANGED <<adapter, vars, memory, sqlite, kubernetes, leader>>

SQLiteNext ==
  /\ adapter = "sqlite" /\ SQLite!Next
  /\ UNCHANGED <<adapter, vars, memory, redis, kubernetes, leader>>

KubernetesNext ==
  /\ adapter = "kubernetes" /\ Kubernetes!Next
  /\ UNCHANGED <<adapter, vars, memory, redis, sqlite, leader>>

LeaderNext ==
  /\ adapter = "leader" /\ Leader!Next
  /\ UNCHANGED <<adapter, vars, memory, redis, sqlite, kubernetes>>

MCNext ==
  PostgresNext \/ MemoryNext \/ RedisNext \/ SQLiteNext \/ KubernetesNext \/ LeaderNext

MCSpec == MCInit /\ [][MCNext]_allVars /\ SQLite!Fairness

-----------------------------------------------------------------------------

\* The variables of every adapter keep their types.
AdapterTypes ==
  /\ TypeOK /\ Memory!TypeOK /\ Redis!TypeOK /\ SQLite!TypeOK /\ Kubernetes!TypeOK
  /\ Leader!TypeOK

\* A lease is as long as it was asked for: it never ends later than the longest duration
\* from now; redis.py cuts it to whole milliseconds and loses less than one; sqlite.py
\* rounds seconds down and up and never cuts one short; and until its end the record of a
\* leader passes to another only by a release.
LeasesKeepTheirLength ==
  /\ [](AdapterTypes /\ Redis!LeaseCutBelowOneMs /\ SQLite!LeaseCoversDuration)
  /\ Leader!LeaseIsKept

\* The dictionaries of memory.py, the scripts of redis.py with their two keys, begin,
\* upsert and commit of several connections of sqlite.py, and read, decide and write back
\* of several clients of kubernetes.py implement the backend protocol (Implements is the
\* same for postgres.py); and memory.py refuses only with a cause.
AdaptersImplement ==
  /\ Memory!Implements
  /\ Redis!Implements
  /\ SQLite!Implements
  /\ Kubernetes!Implements
  /\ Memory!RefusalsHaveACause

\* sqlite.py: an upsert that is cancelled gives the write lock back.
WriterFinishes == SQLite!WriterFinishes

\* kubernetes.py, release of a leader: "Release the lease when held by `token`."
ReleasesOnlyItsOwn == Leader!ReleasesOnlyItsOwn

=============================================================================
