------------------------------ MODULE MCStores ------------------------------
(***************************************************************************)
(* What is kept between calls, and the application that opens and closes   *)
(* it: the cache backends, the tracking cache over them, the decorator     *)
(* with its stampede guard, idempotency and its HTTP middleware, the       *)
(* installation into a web framework and the lifecycle of an app, each on  *)
(* its own state. A behaviour is one of the component chosen at the start; *)
(* the others stay as they were made, so their properties hold trivially   *)
(* in it.                                                                  *)
(***************************************************************************)
EXTENDS StoreComponents, TLC

CONSTANTS Modes, a, b, p, q, k1, k2, k3, x, y, redis, pg, o1, o2, coord, cache, log1,
          log2, owner1, owner2, fake1, fake2, dcoord, dcache

VARIABLE mode

\* The first caller's process, and the other one in the same or in another process.
MCHomes == {h \in [{a, b} -> {p, q}] : h[a] = p}

Decoration(style, lock, early, stale) ==
  [style |-> style, lock |-> lock, early |-> early, stale |-> stale]
MCDecorations ==
  {Decoration("async", "distributed", FALSE, FALSE), Decoration("stream", "local", TRUE, TRUE),
   Decoration("sync", "distributed", TRUE, FALSE), Decoration("async", "none", FALSE, FALSE),
   Decoration("get_or_set", "distributed", FALSE, TRUE)}

Setting(require_key, fingerprint_body, bound, key_maker, max_body_size) ==
  [require_key |-> require_key, fingerprint_body |-> fingerprint_body, bound |-> bound,
   key_maker |-> key_maker, max_body_size |-> max_body_size]
MCSettings ==
  {Setting(TRUE, FALSE, TRUE, "default", 1), Setting(FALSE, TRUE, TRUE, "default", 2),
   Setting(FALSE, TRUE, FALSE, "default", 1)}

\* A body in one message, in two, and one that breaks off.
Part(data, more) == [data |-> data, more |-> more]
Broken == Part("disconnect", FALSE)
MCBodies ==
  {<<Part("x", FALSE)>>, <<Part("x", TRUE), Part("y", FALSE)>>, <<Part("x", TRUE), Broken>>}

\* Components that borrow a provider, own one, hold global state, are fakes of tests or are
\* made for a provider that is given alone.
MCComponents == {coord, cache, log1, log2, owner1, owner2, fake1, fake2, dcoord, dcache}
Named(kind, name) == [kind |-> kind, name |-> name]
MCKey ==
  coord :> Named("coordination", "default") @@ dcoord :> Named("coordination", "default")
  @@ cache :> Named("cache", "default") @@ dcache :> Named("cache", "default")
  @@ fake1 :> Named("cache", "default") @@ fake2 :> Named("cache", "default")
  @@ log1 :> Named("log", "default") @@ log2 :> Named("log", "other")
  @@ owner1 :> Named("coordination", "own") @@ owner2 :> Named("cache", "own")
Borrows(provider) == [provider |-> provider, owns |-> FALSE]
Owns(provider) == [provider |-> provider, owns |-> TRUE]
MCBackends ==
  coord :> <<Borrows(redis), Borrows(pg)>> @@ cache :> <<Borrows(redis)>>
  @@ dcoord :> <<Borrows(redis)>> @@ dcache :> <<Borrows(redis)>>
  @@ owner1 :> <<Owns(o1)>> @@ owner2 :> <<Owns(o2)>>
  @@ [c \in {log1, log2, fake1, fake2} |-> <<>>]
MCPool == redis :> 1 @@ pg :> 2 @@ o1 :> 3 @@ o2 :> 3
MCDefaults ==
  redis :> <<dcoord, dcache>> @@ pg :> <<dcache>> @@ o1 :> <<>> @@ o2 :> <<>>
MCUses ==
  {a :> <<cache, redis, coord>> @@ b :> <<owner1, owner2>>,
   a :> <<log1, coord, pg, redis>> @@ b :> <<log2, owner1>>,
   a :> <<redis>> @@ b :> <<redis, pg>>,
   a :> <<redis, cache>> @@ b :> <<log1, log2>>,
   a :> <<coord>> @@ b :> <<redis, dcache>>}

ASSUME StoresAssumptions ==
  /\ Store!CacheStoreAssumption
  /\ Tracked!TTLCacheAssumption
  /\ Decorated!CachedAssumption
  /\ Blocks!IdempotencyAssumption
  /\ Middleware!HttpAssumption
  /\ Framework!InstallAssumption
  /\ Application!AppAssumption

store == <<c_adapter, c_now, c_data, c_tag_keys, c_key_tags, c_tagged>>
tracked == <<t_keys, t_value, t_reserve, t_call, t_calls, t_promised, t_unroomed>>
decorated ==
  <<d_decoration, d_home, d_source, d_value, d_reserve, d_table, d_owner, d_dlock, d_call,
    d_calls, d_losses, d_newest, d_floor, d_revived, d_lapsed, d_evicted>>
blocks ==
  <<i_home, i_distributed, i_now, i_response, i_fingerprint, i_local, i_dlock, i_call, i_calls,
    i_lapsed, i_wrong>>
middleware == <<h_settings, h_store, h_holder, h_req, h_calls>>
framework ==
  <<f_user_middleware, f_installed, f_reorders, f_stack, f_opened, f_phase, f_current>>
application ==
  <<g_strict, g_items, g_by_key, g_bound, g_phase, g_at, g_stack, g_pools, g_backends,
    g_active_apps, g_global, g_saved, g_block, g_failures, g_overrides, g_unsafe, g_reshared>>

allVars == <<mode, store, tracked, decorated, blocks, middleware, framework, application>>

MCInit ==
  /\ mode \in Modes
  /\ Store!Init /\ (mode # "cache store" => c_adapter = "memory")
  /\ Tracked!Init
  /\ Decorated!Init
  /\ mode # "cached" => d_decoration.lock = "none" /\ d_home[b] = p /\ d_value = None
  /\ Blocks!Init /\ (mode # "idempotency" => ~ i_distributed /\ i_home[b] = p)
  /\ Middleware!Init /\ (mode # "http" => h_settings.require_key)
  /\ Framework!Init
  /\ Application!Init /\ (mode # "app" => g_strict /\ g_items[a][1] = log1)

StoreNext ==
  /\ mode = "cache store" /\ Store!Next
  /\ UNCHANGED <<mode, tracked, decorated, blocks, middleware, framework, application>>

TrackedNext ==
  /\ mode = "ttl cache" /\ Tracked!Next
  /\ UNCHANGED <<mode, store, decorated, blocks, middleware, framework, application>>

DecoratedNext ==
  /\ mode = "cached" /\ Decorated!Next
  /\ UNCHANGED <<mode, store, tracked, blocks, middleware, framework, application>>

BlocksNext ==
  /\ mode = "idempotency" /\ Blocks!Next
  /\ UNCHANGED <<mode, store, tracked, decorated, middleware, framework, application>>

MiddlewareNext ==
  /\ mode = "http" /\ Middleware!Next
  /\ UNCHANGED <<mode, store, tracked, decorated, blocks, framework, application>>

FrameworkNext ==
  /\ mode = "install" /\ Framework!Next
  /\ UNCHANGED <<mode, store, tracked, decorated, blocks, middleware, application>>

ApplicationNext ==
  /\ mode = "app" /\ Application!Next
  /\ UNCHANGED <<mode, store, tracked, decorated, blocks, middleware, framework>>

MCNext == StoreNext \/ TrackedNext \/ DecoratedNext \/ BlocksNext \/ MiddlewareNext \/
          FrameworkNext \/ ApplicationNext

MCSpec == MCInit /\ [][MCNext]_allVars

=============================================================================
