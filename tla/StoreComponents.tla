--------------------------- MODULE StoreComponents ---------------------------
(***************************************************************************)
(* The components that keep something between calls, each with variables   *)
(* of its own, and what they promise: MCStores checks it on a small        *)
(* instance, StoreProofs proves it for every value of the constants.       *)
(***************************************************************************)
EXTENDS Integers, Sequences, FiniteSets

CONSTANTS None, Callers, Procs, Homes,
          CacheKeys, Tags, Adapters, TTLs, JanitorAge, CacheTime,               \* CacheStore
          Payloads, Distributed, TTL, Margin, BlockTime, MaxBlocks,             \* Idempotency
          Decorations, MaxSource, MaxCalls, MaxLosses,                          \* Cached
          RequestKeys, Settings, Bodies, Chunks, MaxChunks, MaxRequests,        \* Http
          TrackedKeys, MaxSize, MaxTracked,                                     \* TTLCache
          Apps, Others, MaxMiddlewares,                                         \* Install
          Tasks, Providers, Components, Key, Singletons, Globals, Backends,     \* App
          Pool, Defaults, Uses, Strict, AllowMultiple, Fakes, MaxFailures, MaxOverrides

VARIABLES c_adapter, c_now, c_data, c_tag_keys, c_key_tags, c_tagged,
          i_home, i_distributed, i_now, i_response, i_fingerprint, i_local, i_dlock, i_call,
          i_calls, i_lapsed, i_wrong,
          d_decoration, d_home, d_source, d_value, d_reserve, d_table, d_owner, d_dlock, d_call,
          d_calls, d_losses, d_newest, d_floor, d_revived, d_lapsed, d_evicted,
          h_settings, h_store, h_holder, h_req, h_calls,
          t_keys, t_value, t_reserve, t_call, t_calls, t_promised, t_unroomed,
          f_user_middleware, f_installed, f_reorders, f_stack, f_opened, f_phase, f_current,
          g_strict, g_items, g_by_key, g_bound, g_phase, g_at, g_stack, g_pools, g_backends,
          g_active_apps, g_global, g_saved, g_block, g_failures, g_overrides, g_unsafe, g_reshared

Store == INSTANCE CacheStore WITH
  NoEntry <- None, Keys <- CacheKeys, MaxTime <- CacheTime,
  adapter <- c_adapter, now <- c_now, data <- c_data, tag_keys <- c_tag_keys,
  key_tags <- c_key_tags, tagged <- c_tagged

Blocks == INSTANCE Idempotency WITH
  MaxTime <- BlockTime, MaxCalls <- MaxBlocks,
  home <- i_home, distributed <- i_distributed, now <- i_now, response <- i_response,
  fingerprint <- i_fingerprint, local <- i_local, dlock <- i_dlock, call <- i_call,
  calls <- i_calls, lapsed <- i_lapsed, wrong <- i_wrong

Decorated == INSTANCE Cached WITH
  decoration <- d_decoration, home <- d_home, source <- d_source, value <- d_value,
  reserve <- d_reserve, table <- d_table, owner <- d_owner, dlock <- d_dlock, call <- d_call,
  calls <- d_calls, losses <- d_losses, newest <- d_newest, floor <- d_floor,
  revived <- d_revived, lapsed <- d_lapsed, evicted <- d_evicted

Middleware == INSTANCE Http WITH
  Keys <- RequestKeys, MaxCalls <- MaxRequests,
  settings <- h_settings, store <- h_store, holder <- h_holder, req <- h_req, calls <- h_calls

Tracked == INSTANCE TTLCache WITH
  Keys <- TrackedKeys, MaxCalls <- MaxTracked,
  _keys <- t_keys, value <- t_value, reserve <- t_reserve, call <- t_call, calls <- t_calls,
  promised <- t_promised, unroomed <- t_unroomed

Framework == INSTANCE Install WITH
  user_middleware <- f_user_middleware, installed <- f_installed, reorders <- f_reorders,
  stack <- f_stack, opened <- f_opened, phase <- f_phase, current <- f_current

Application == INSTANCE App WITH
  strict <- g_strict, _items <- g_items, _by_key <- g_by_key, bound <- g_bound,
  phase <- g_phase, at <- g_at, stack <- g_stack, pools <- g_pools, backends <- g_backends,
  _active_apps <- g_active_apps, global <- g_global, saved <- g_saved, block <- g_block,
  failures <- g_failures, overrides <- g_overrides, unsafe <- g_unsafe, reshared <- g_reshared

-----------------------------------------------------------------------------

\* cache/*.py: deleting by tag misses nothing that can be read, whatever expired, was
\* replaced or deleted in between.
TagsCover == Store!TagsCover

\* cache/cached.py and cache/_stampede.py: concurrent misses fold into one computation, no
\* value is replaced by an older one, and the two locks never leave everybody waiting.
MissesFold == Decorated!MissesFold /\ Decorated!NeverOlder /\ Decorated!NobodyStuck

\* idempotency: a key is executed once at a time, what is replayed is the answer to the same
\* payload, and no lock is left behind.
OneExecution == Blocks!OneExecution /\ Blocks!ReplayMatches /\ Blocks!LocksComeBack

\* integrations/fastapi.py, IdempotencyMiddleware: only a whole response is replayed, and
\* the app reads the request as it was sent.
ReplayIsWhole == Middleware!ReplayIsWhole /\ Middleware!ReadsWhatWasSent

\* cache/ttl.py: the tracked keys pass maxsize only by what is under way at once.
OverflowBounded == Tracked!OverflowBounded

\* integrations/fastapi.py, install: no middleware runs outside a binding that is there.
AllWithinTheBinding == Framework!AllWithinTheBinding

\* _app.py: what an open component works with is open, and a closed app leaves nothing open
\* and the process as it found it.
BorrowedIsOpen == Application!BorrowedIsOpen /\ Application!NothingLeftOpen

\* The variables of every component keep their types and their bounds: no more keys, calls
\* and processes than there are, no message taken that was not sent, no response longer than
\* the app may send.
StoreTypes ==
  Store!TypeOK /\ Tracked!TypeOK /\ Decorated!TypeOK /\ Blocks!TypeOK /\ Middleware!TypeOK
    /\ Framework!TypeOK /\ Application!TypeOK

=============================================================================
