--------------------------- MODULE DuplicateFilter ---------------------------
(***************************************************************************)
(* grelmicro/log/_dedup.py: the filter that drops a record that repeats,   *)
(* called by the threads that log.  The key of the record and the time are *)
(* taken before the lock, so the threads come to the table with times out  *)
(* of order.                                                               *)
(***************************************************************************)
EXTENDS Integers, Sequences, Functions, Subsequences

CONSTANTS Threads, Records, None,
          KeyOf,     \* per key mode and record: its key
          Configs,   \* allowed_repetitions, cache_size, key_mode, ttl (0: none)
          MaxTime, MaxRecords

DuplicateFilterConfig ==
  [allowed_repetitions : Nat \ {0}, cache_size : Nat \ {0}, key_mode : DOMAIN KeyOf, ttl : Nat]

DuplicateFilterAssumption ==
  /\ Configs \subseteq DuplicateFilterConfig
  /\ {MaxTime, MaxRecords} \subseteq Nat
  /\ None \notin [first : Int, last : Int]

VARIABLES config, now,
          counts,       \* the entries, the least recently seen first
          next_sweep,
          at,           \* per thread: the key and the time it came with
          burst,        \* history, per key: records passed since its counter began, first drop
          records       \* bound: records logged

vars == <<config, now, counts, next_sweep, at, burst, records>>

Keys == UNION {{KeyOf[m][r] : r \in Records} : m \in DOMAIN KeyOf}
NoBurst == [passed |-> 0, dropped |-> None]

\* At most cache_size keys are tracked, each once.
TypeOK ==
  /\ config \in Configs /\ now \in 0..MaxTime /\ records \in 0..MaxRecords
  /\ Len(counts) <= config.cache_size
  /\ \A m, n \in DOMAIN counts : counts[m].key = counts[n].key => m = n
  /\ \A n \in DOMAIN counts : counts[n].count \in 1..(config.allowed_repetitions + 1)

Init ==
  /\ config \in Configs /\ now = 0 /\ counts = <<>> /\ next_sweep = 0
  /\ at = [t \in Threads |-> None] /\ burst = [k \in Keys |-> NoBurst] /\ records = 0

\* The key and the clock, before the lock.
filter(t, r) ==
  /\ at[t] = None /\ records < MaxRecords
  /\ records' = records + 1
  /\ at' = [at EXCEPT ![t] = [key |-> KeyOf[config.key_mode][r], now |-> now]]
  /\ UNCHANGED <<config, now, counts, next_sweep, burst>>

\* At most once per ttl, what was not seen for a ttl goes.
Sweeps(t) == config.ttl > 0 /\ at[t].now >= next_sweep
Swept(t) ==
  IF Sweeps(t) THEN Only(counts, {e \in Range(counts) : e.seen > at[t].now - config.ttl})
  ELSE counts

Without(entries, k) == Only(entries, {e \in Range(entries) : e.key # k})
Entry(entries, k) == IF \E n \in DOMAIN entries : entries[n].key = k
                     THEN entries[CHOOSE n \in DOMAIN entries : entries[n].key = k] ELSE None
MovedToEndUnbounded(entries, e) == Append(Without(entries, e.key), e)
\* Into the last place, and when there are too many the first one goes.
MovedToEnd(entries, e) ==
  LET moved == Append(Without(entries, e.key), e)
  IN  IF Len(moved) > config.cache_size THEN Tail(moved) ELSE moved

\* What becomes of the entry, and whether the record passes.
Verdict(entry, passes) == [entry |-> entry, passes |-> passes]
Forgotten(e, time) == e = None \/ (config.ttl > 0 /\ time - e.seen > config.ttl)
JudgedSeen(e, k, time) ==
  CASE Forgotten(e, time) -> Verdict([key |-> k, count |-> 1, seen |-> time], TRUE)
    [] ~ Forgotten(e, time) /\ e.count > config.allowed_repetitions -> Verdict([e EXCEPT !.seen = time], FALSE)
    [] OTHER -> Verdict([key |-> k, count |-> e.count + 1, seen |-> time],
                        e.count < config.allowed_repetitions)
Judged(e, k, time) ==
  CASE Forgotten(e, time) -> Verdict([key |-> k, count |-> 1, seen |-> time], TRUE)
    [] ~ Forgotten(e, time) /\ e.count > config.allowed_repetitions -> Verdict(e, FALSE)
    [] OTHER -> Verdict([key |-> k, count |-> e.count + 1, seen |-> time],
                        e.count < config.allowed_repetitions)

Noted(k, verdict, time) ==
  CASE verdict.entry.count = 1 -> [passed |-> 1, dropped |-> None]
    [] verdict.entry.count # 1 /\ verdict.passes -> [burst[k] EXCEPT !.passed = @ + 1]
    [] OTHER -> [burst[k] EXCEPT !.dropped = IF @ = None THEN [first |-> time, last |-> time]
                                             ELSE [@ EXCEPT !.last = time]]

\* The part under the lock.
judge(t) ==
  /\ at[t] # None
  /\ LET swept == Swept(t)
         verdict == Judged(Entry(swept, at[t].key), at[t].key, at[t].now)
     IN  /\ counts' = MovedToEnd(swept, verdict.entry)
         /\ burst' = [burst EXCEPT ![at[t].key] = Noted(at[t].key, verdict, at[t].now)]
  /\ next_sweep' = IF Sweeps(t) THEN at[t].now + config.ttl ELSE next_sweep
  /\ at' = [at EXCEPT ![t] = None]
  /\ UNCHANGED <<config, now, records>>

Tick ==
  /\ now < MaxTime /\ now' = now + 1
  /\ UNCHANGED <<config, counts, next_sweep, at, burst, records>>

Next ==
  \/ \E t \in Threads : judge(t) \/ \E r \in Records : filter(t, r)
  \/ Tick

Spec == Init /\ [][Next]_vars

-----------------------------------------------------------------------------
\* Properties.

\* A record is dropped only after the allowed ones of its key have passed, and with a ttl a
\* flood is never silent for longer than that: counted from its first dropped record, those
\* that arrive a ttl later pass again, also when the records themselves never pause and the
\* threads bring their times out of order.
FloodsAreReminded ==
  \A k \in Keys :
    /\ burst[k].passed <= config.allowed_repetitions
    /\ burst[k].dropped # None =>
         /\ burst[k].passed = config.allowed_repetitions
         /\ config.ttl > 0 => burst[k].dropped.last - burst[k].dropped.first <= config.ttl
=============================================================================
