------------------------------ MODULE TTLCache ------------------------------
(***************************************************************************)
(* grelmicro/cache/ttl.py: the keys one TTLCache tracks to evict the least *)
(* recently used, and the store they stand for.  Every method asks the     *)
(* backend and goes on when the answer is there: the request is carried    *)
(* out in one step and the code after the await runs in another.  The      *)
(* counters of cache_info are left out.                                    *)
(***************************************************************************)
EXTENDS Integers, Sequences, SequencesExt, FiniteSets, Subsequences

CONSTANTS Keys, Callers, MaxSize, MaxCalls

TTLCacheAssumption ==
  IsFiniteSet(Keys) /\ IsFiniteSet(Callers) /\ MaxSize \in Nat \ {0} /\ MaxCalls \in Nat

VARIABLES _keys,           \* the tracked keys, least recently used first
          value, reserve,  \* the keys the store has a value, a stale reserve for
          call,            \* per caller: the request it waits for
          calls,           \* bound: calls made
          promised,        \* history: callers of set for whose key there was room
          unroomed         \* history: keys tracked without having looked for room

vars == <<_keys, value, reserve, call, calls, promised, unroomed>>
store == <<value, reserve>>
history == <<promised, unroomed>>

NoCall == [op |-> "none"]
Tracked == ToSet(_keys)

TypeOK ==
  /\ _keys \in Seq(Keys) /\ IsInjective(_keys)
  /\ value \subseteq Keys /\ reserve \subseteq Keys
  /\ calls \in 0..MaxCalls /\ promised \subseteq Callers /\ unroomed \subseteq Keys

Init ==
  /\ _keys = <<>> /\ value = {} /\ reserve = {}
  /\ call = [c \in Callers |-> NoCall] /\ calls = 0
  /\ promised = {} /\ unroomed = {}

Request(c, op, ks, next) ==
  call' = [call EXCEPT ![c] = [op |-> op, keys |-> ks, then |-> next, done |-> FALSE]]
Done(c) == call' = [call EXCEPT ![c] = NoCall]

_promoteTwice(keys, k) == Append(keys, k)
_promote(keys, k) == Append(Only(keys, Keys \ {k}), k)
Forget(ks) == Only(_keys, Keys \ ks)

\* The key of the call becomes the most recent one.
Promote(c) ==
  /\ _keys' = _promote(_keys, CHOOSE k \in call[c].keys : TRUE)
  /\ unroomed' = (unroomed \cap Tracked) \cup (IF c \in promised THEN {} ELSE call[c].keys \ Tracked)
  /\ promised' = promised \ {c}
  /\ Done(c)

-----------------------------------------------------------------------------
\* The methods up to their first await.

Begin(c) == call[c] = NoCall /\ calls < MaxCalls /\ calls' = calls + 1

\* _evict pops the least recently used key and deletes it, as long as there is no room.
Proceed(c, k) ==
  Request(c, "value", {k}, "end") /\ promised' = promised \cup {c} /\ UNCHANGED _keys
MakeRoomOnce(c, k) == Proceed(c, k)
MakeRoom(c, k) ==
  IF Len(_keys) >= MaxSize
  THEN _keys' = Tail(_keys) /\ Request(c, "evict", {Head(_keys)}, k) /\ UNCHANGED promised
  ELSE Proceed(c, k)

\* set: room is made for a key that is not tracked, then the value is written.
set(c, k) ==
  /\ Begin(c)
  /\ IF k \notin Tracked THEN MakeRoom(c, k)
     ELSE Request(c, "value", {k}, "end") /\ UNCHANGED <<_keys, promised>>
  /\ UNCHANGED <<store, unroomed>>

\* set_many tracks key after key, until one needs room; `looping` when it waits for room
\* for the first.
Tracking(acc, k) ==
  IF acc.left # <<>> THEN [acc EXCEPT !.left = Append(@, k)]
  ELSE IF Len(acc.keys) < MaxSize \/ (k \in ToSet(acc.keys) /\ ~ acc.looping)
  THEN [keys |-> _promote(acc.keys, k), left |-> <<>>, looping |-> FALSE]
  ELSE [acc EXCEPT !.left = <<k>>]
Track(todo, looping) ==
  LET after[n \in 0..Len(todo)] ==
        IF n = 0 THEN [keys |-> _keys, left |-> <<>>, looping |-> looping]
        ELSE Tracking(after[n - 1], todo[n])
  IN  after[Len(todo)]

TrackOn(c, todo, looping, ks) ==
  LET r == Track(todo, looping)
  IN  IF r.left = <<>> THEN _keys' = r.keys /\ Request(c, "values", ks, "end")
      ELSE /\ _keys' = Tail(r.keys)
           /\ Request(c, "evict_many", {Head(r.keys)}, [left |-> r.left, keys |-> ks])

set_many(c, ks) ==
  /\ Begin(c)
  /\ TrackOn(c, SetToSeq(ks), FALSE, ks)
  /\ unroomed' = unroomed \cap Tracked
  /\ UNCHANGED <<store, promised>>

get(c, k) == Begin(c) /\ Request(c, "read", {k}, "end") /\ UNCHANGED <<_keys, store, history>>

\* delete and delete_many
delete(c, ks) ==
  Begin(c) /\ Request(c, "delete", ks, "end") /\ UNCHANGED <<_keys, store, history>>

\* delete_tags: the store deletes what has the tag, here some of the keys.
delete_tags(c, ks) ==
  Begin(c) /\ Request(c, "tags", ks, "end") /\ UNCHANGED <<_keys, store, history>>

clear(c) ==
  Begin(c) /\ Request(c, "tags", Keys, "end") /\ UNCHANGED <<_keys, store, history>>

-----------------------------------------------------------------------------
\* The backend carries the request out.
Perform(c) ==
  LET r == call[c]
  IN  /\ r # NoCall /\ ~ r.done
      /\ call' = [call EXCEPT ![c].done = TRUE,
                              ![c].then = IF r.op = "read" THEN r.keys \subseteq value ELSE @]
      /\ value' = CASE r.op \in {"value", "values"} -> value \cup r.keys
                    [] r.op \in {"evict", "evict_many", "delete", "tags"} -> value \ r.keys
                    [] OTHER -> value
      /\ reserve' = CASE r.op = "reserve" -> reserve \cup r.keys
                      [] r.op \in {"evict", "evict_many", "delete", "tags"} -> reserve \ r.keys
                      [] OTHER -> reserve
      /\ UNCHANGED <<_keys, calls, history>>

\* The code after the await.
Resumes(c, op) == call[c] # NoCall /\ call[c].op = op /\ call[c].done

_evict(c) ==
  /\ \/ Resumes(c, "evict") /\ MakeRoom(c, call[c].then)
     \/ /\ Resumes(c, "evict_many") /\ TrackOn(c, call[c].then.left, TRUE, call[c].then.keys)
        /\ UNCHANGED promised
  /\ unroomed' = unroomed \cap Tracked
  /\ UNCHANGED <<store, calls>>

\* With stale_ttl the reserve is a second write; then the key is tracked.
value_set(c) ==
  /\ Resumes(c, "value")
  /\ \/ Request(c, "reserve", call[c].keys, "end") /\ UNCHANGED <<_keys, history>>
     \/ Promote(c)
  /\ UNCHANGED <<store, calls>>

reserve_set(c) ==
  /\ Resumes(c, "reserve")
  /\ Promote(c)
  /\ UNCHANGED <<store, calls>>

values_set(c) ==
  /\ Resumes(c, "values")
  /\ Done(c)
  /\ UNCHANGED <<_keys, store, calls, history>>

\* A hit is promoted, although the key may be gone by now.
get_answered(c) ==
  /\ Resumes(c, "read")
  /\ IF call[c].then THEN Promote(c) ELSE Done(c) /\ UNCHANGED <<_keys, history>>
  /\ UNCHANGED <<store, calls>>

deleted(c) ==
  /\ Resumes(c, "delete")
  /\ _keys' = Forget(call[c].keys) /\ Done(c)
  /\ UNCHANGED <<store, calls, history>>

\* delete_tags and clear forget every key: which ones the tag had is not known here.
tags_deleted(c) ==
  /\ Resumes(c, "tags")
  /\ _keys' = <<>> /\ Done(c)
  /\ UNCHANGED <<store, calls, history>>

Next ==
  \E c \in Callers :
    \/ \E k \in Keys : set(c, k) \/ get(c, k)
    \/ \E ks \in (SUBSET Keys) \ {{}} : set_many(c, ks) \/ delete(c, ks) \/ delete_tags(c, ks)
    \/ clear(c) \/ Perform(c) \/ _evict(c) \/ value_set(c) \/ reserve_set(c)
    \/ values_set(c) \/ get_answered(c) \/ deleted(c) \/ tags_deleted(c)

Spec == Init /\ [][Next]_vars

-----------------------------------------------------------------------------
\* Properties.

\* The number of tracked keys passes maxsize only by what is under way at once, each
\* call adding one key after it looked for room, and by the keys that came without
\* looking: a read found them in the store, or they were tracked when the set began and
\* forgotten before it ended. The next set that looks evicts them again.
OverflowBounded == Cardinality(Tracked \ unroomed) <= MaxSize + Cardinality(Callers) - 1

\* cache/ttl.py: "Maximum number of entries tracked locally for LRU eviction."
TrackedWithinMaxsize == Len(_keys) <= MaxSize
=============================================================================
