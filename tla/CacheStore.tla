----------------------------- MODULE CacheStore -----------------------------
(***************************************************************************)
(* grelmicro/cache: the key-value stores behind TTLCache, with entries     *)
(* that expire and tags that delete groups of them.  Every method runs as  *)
(* one script, one transaction or without suspension.  The index of tags   *)
(* is kept in two directions by the memory and Redis adapters and in a     *)
(* table that cascades by Postgres and SQLite.                             *)
(***************************************************************************)
EXTENDS Integers, FiniteSets

CONSTANTS Keys, Tags, Adapters, NoEntry,
          TTLs,         \* times to live
          JanitorAge,   \* how long a row outlives its expiry
          MaxTime

CacheStoreAssumption ==
  /\ IsFiniteSet(Keys) /\ IsFiniteSet(Tags) /\ NoEntry \notin Nat
  /\ TTLs \subseteq Nat \ {0} /\ {JanitorAge, MaxTime} \subseteq Nat
  /\ Adapters \subseteq {"memory", "redis", "postgres", "sqlite"}

VARIABLES adapter, now,
          data,      \* per key: when its value expires
          tag_keys,  \* per tag: the keys in its set, or in the table
          key_tags,  \* per key: its tags and, in Redis, when they expire
          tagged     \* history: the tags of the last set of each key

vars == <<adapter, now, data, tag_keys, key_tags, tagged>>

NoTags == [tags |-> {}, expire |-> 0]

TypeOK ==
  /\ adapter \in Adapters /\ now \in 0..MaxTime
  /\ data \in [Keys -> {NoEntry} \cup Nat]
  /\ tag_keys \in [Tags -> SUBSET Keys]
  /\ \A k \in Keys : key_tags[k].tags \subseteq Tags /\ key_tags[k].expire \in Nat

Init ==
  /\ adapter \in Adapters /\ now = 0
  /\ data = [k \in Keys |-> NoEntry]
  /\ tag_keys = [t \in Tags |-> {}]
  /\ key_tags = [k \in Keys |-> NoTags]
  /\ tagged = [k \in Keys |-> {}]

\* The values that get returns: Redis has dropped what expired, the others compare.
redis_get(k) == data[k] # NoEntry /\ data[k] > now
postgres_get(k) == data[k] # NoEntry /\ data[k] > now
sqlite_get(k) == data[k] # NoEntry /\ data[k] > now
Found(k) == data[k] # NoEntry /\ data[k] > now
Live(k) ==
  CASE adapter = "redis" -> redis_get(k)
    [] adapter = "postgres" -> postgres_get(k)
    [] adapter = "sqlite" -> sqlite_get(k)
    [] OTHER -> Found(k)

\* The tags Redis still knows of a key: its reverse set expires with the value.
KnownTags(k) ==
  IF adapter = "redis" /\ key_tags[k].expire <= now THEN {} ELSE key_tags[k].tags

\* _drop, DEL and the cascade: the values go, and with them what is known of their tags.
Dropped(ks) ==
  /\ data' = [k \in Keys |-> IF k \in ks THEN NoEntry ELSE data[k]]
  /\ tag_keys' = [t \in Tags |-> tag_keys[t] \ {k \in ks : t \in KnownTags(k)}]
  /\ key_tags' = [k \in Keys |-> IF k \in ks THEN NoTags ELSE key_tags[k]]

\* set: the value, and its tags in place of the former ones.
WrittenUntagged(ks, ttl, tags) ==
  /\ data' = [k \in Keys |-> IF k \in ks THEN now + ttl ELSE data[k]]
  /\ tagged' = [k \in Keys |-> IF k \in ks THEN tags ELSE tagged[k]]
  /\ UNCHANGED <<tag_keys, key_tags>>

Written(ks, ttl, tags) ==
  /\ data' = [k \in Keys |-> IF k \in ks THEN now + ttl ELSE data[k]]
  /\ tag_keys' = [t \in Tags |->
       (tag_keys[t] \ {k \in ks : t \in KnownTags(k)}) \cup (IF t \in tags THEN ks ELSE {})]
  /\ key_tags' = [k \in Keys |-> IF k \in ks THEN [tags |-> tags, expire |-> now + ttl]
                                 ELSE key_tags[k]]
  /\ tagged' = [k \in Keys |-> IF k \in ks THEN tags ELSE tagged[k]]

-----------------------------------------------------------------------------
\* The adapters.

memory_set(k, ttl, tags) == adapter = "memory" /\ Written({k}, ttl, tags)
redis_set(k, ttl, tags) == adapter = "redis" /\ Written({k}, ttl, tags)
postgres_set(k, ttl, tags) == adapter = "postgres" /\ Written({k}, ttl, tags)
sqlite_set(k, ttl, tags) == adapter = "sqlite" /\ Written({k}, ttl, tags)

set(k, ttl, tags) ==
  /\ \/ memory_set(k, ttl, tags) \/ redis_set(k, ttl, tags)
     \/ postgres_set(k, ttl, tags) \/ sqlite_set(k, ttl, tags)
  /\ UNCHANGED <<adapter, now>>

\* One transaction on SQL; Redis runs its script per key, which is a series of sets.
postgres_set_many(ks, ttl, tags) == adapter = "postgres" /\ Written(ks, ttl, tags)
sqlite_set_many(ks, ttl, tags) == adapter = "sqlite" /\ Written(ks, ttl, tags)
memory_set_many(ks, ttl, tags) == adapter = "memory" /\ Written(ks, ttl, tags)

set_many(ks, ttl, tags) ==
  /\ \/ memory_set_many(ks, ttl, tags) \/ postgres_set_many(ks, ttl, tags)
     \/ sqlite_set_many(ks, ttl, tags)
  /\ UNCHANGED <<adapter, now>>

\* Reading an expired entry removes it in memory; elsewhere it only hides it.
memory_get(k) ==
  /\ adapter = "memory" /\ data[k] # NoEntry /\ ~ Live(k)
  /\ Dropped({k})
  /\ UNCHANGED <<adapter, now, tagged>>

\* Redis deletes the keys of delete_many one by one, the others together.
memory_delete(k) == adapter = "memory" /\ Dropped({k})
redis_delete(k) == adapter = "redis" /\ Dropped({k})
postgres_delete(k) == adapter = "postgres" /\ Dropped({k})
sqlite_delete(k) == adapter = "sqlite" /\ Dropped({k})
delete(k) ==
  /\ memory_delete(k) \/ redis_delete(k) \/ postgres_delete(k) \/ sqlite_delete(k)
  /\ UNCHANGED <<adapter, now, tagged>>

memory_delete_many(ks) == adapter = "memory" /\ Dropped(ks)
postgres_delete_many(ks) == adapter = "postgres" /\ Dropped(ks)
sqlite_delete_many(ks) == adapter = "sqlite" /\ Dropped(ks)
delete_many(ks) ==
  /\ memory_delete_many(ks) \/ postgres_delete_many(ks) \/ sqlite_delete_many(ks)
  /\ UNCHANGED <<adapter, now, tagged>>

memory_delete_tags(t) == adapter = "memory" /\ Dropped(tag_keys[t])
postgres_delete_tags(t) == adapter = "postgres" /\ Dropped(tag_keys[t])
sqlite_delete_tags(t) == adapter = "sqlite" /\ Dropped(tag_keys[t])

\* The script unlinks the members and the tag's set, and leaves the rest as it is.
redis_delete_tags(t) ==
  /\ adapter = "redis"
  /\ data' = [k \in Keys |-> IF k \in tag_keys[t] THEN NoEntry ELSE data[k]]
  /\ tag_keys' = [tag_keys EXCEPT ![t] = {}]
  /\ UNCHANGED key_tags

delete_tags(t) ==
  /\ \/ memory_delete_tags(t) \/ redis_delete_tags(t)
     \/ postgres_delete_tags(t) \/ sqlite_delete_tags(t)
  /\ UNCHANGED <<adapter, now, tagged>>

\* Everything under the prefix, tag sets included.
Cleared ==
  /\ data' = [k \in Keys |-> NoEntry]
  /\ tag_keys' = [t \in Tags |-> {}]
  /\ key_tags' = [k \in Keys |-> NoTags]
memory_clear == adapter = "memory" /\ Cleared
redis_clear == adapter = "redis" /\ Cleared
postgres_clear == adapter = "postgres" /\ Cleared
sqlite_clear == adapter = "sqlite" /\ Cleared
clear ==
  /\ memory_clear \/ redis_clear \/ postgres_clear \/ sqlite_clear
  /\ UNCHANGED <<adapter, now, tagged>>

\* Closing and opening again: the memory adapter starts empty, the others find their data.
memory_aexit == adapter = "memory" /\ Cleared
postgres_aexit == adapter = "postgres" /\ UNCHANGED <<data, tag_keys, key_tags>>
sqlite_aexit == adapter = "sqlite" /\ UNCHANGED <<data, tag_keys, key_tags>>
redis_aexit == adapter = "redis" /\ UNCHANGED <<data, tag_keys, key_tags>>
reopen ==
  /\ memory_aexit \/ redis_aexit \/ postgres_aexit \/ sqlite_aexit
  /\ UNCHANGED <<adapter, now, tagged>>

\* The sweep of rows long expired, in the two SQL adapters.
Sweepable(k) == data[k] # NoEntry /\ data[k] + JanitorAge < now

postgres_janitor(k) == adapter = "postgres" /\ Sweepable(k) /\ Dropped({k})
sqlite_janitor(k) == adapter = "sqlite" /\ Sweepable(k) /\ Dropped({k})

_janitor_loop(k) ==
  /\ postgres_janitor(k) \/ sqlite_janitor(k)
  /\ UNCHANGED <<adapter, now, tagged>>

Tick ==
  /\ now < MaxTime /\ now' = now + 1
  /\ UNCHANGED <<adapter, data, tag_keys, key_tags, tagged>>

Next ==
  \/ \E k \in Keys, ttl \in TTLs, tags \in SUBSET Tags : set(k, ttl, tags)
  \/ \E ks \in SUBSET Keys, ttl \in TTLs, tags \in SUBSET Tags : set_many(ks, ttl, tags)
  \/ \E k \in Keys : memory_get(k)
  \/ \E k \in Keys : delete(k)
  \/ \E ks \in SUBSET Keys : delete_many(ks)
  \/ \E t \in Tags : delete_tags(t)
  \/ clear \/ reopen
  \/ \E k \in Keys : _janitor_loop(k)
  \/ Tick

Spec == Init /\ [][Next]_vars

-----------------------------------------------------------------------------
\* Properties.

\* Deleting by tag misses nothing: a value that can be read is in the set of every tag
\* that its last set named, whatever expired, was replaced or deleted in between; and
\* where the index has two directions in memory, they agree.
TagsCover ==
  /\ \A k \in Keys, t \in Tags : Live(k) /\ t \in tagged[k] => k \in tag_keys[t]
  /\ adapter = "memory" =>
       \A k \in Keys, t \in Tags :
         /\ k \in tag_keys[t] <=> t \in key_tags[k].tags
         /\ k \in tag_keys[t] => data[k] # NoEntry

\* docs/cache.md: "Tags work the same across Memory, Redis, and Postgres. Invalidating
\* by tag stays consistent even when keys expire on their own."
TagsStayExact ==
  \A k \in Keys, t \in Tags : Live(k) /\ k \in tag_keys[t] => t \in tagged[k]
=============================================================================
