-------------------------------- MODULE App --------------------------------
(***************************************************************************)
(* grelmicro/_app.py: the items of Grelmicro apps in one process, what     *)
(* they are registered under, the order in which they open and close, and  *)
(* the providers their backends borrow or own.  An item is a provider, a   *)
(* component with up to three backends, or anything else that is an async  *)
(* context manager; some components configure state of the whole process.  *)
(***************************************************************************)
EXTENDS Integers, Sequences, Functions, Subsequences

CONSTANTS Apps, Tasks, Providers, Components, None,
          Key,        \* per component: its kind and name
          Singletons, \* kinds of which an app has one
          Globals,    \* components that own process-global state
          Backends,   \* per component: [provider, owns] of its backends
          Pool,       \* per provider: its class and env_prefix
          Defaults,   \* per provider: the components of the kinds it serves
          Uses,       \* the lists given to the apps that are tried
          Strict, AllowMultiple, \* set of Booleans, Boolean
          Fakes,      \* components that tests install with override
          MaxFailures, MaxOverrides

Items == Providers \cup Components
Lists == Seq(Items)
Keys == {Key[c] : c \in Components}
Bindings == [provider : Providers, owns : BOOLEAN]

\* The provider of one backend of a component, and those that backends make for themselves.
Wanted(c) == {Backends[c][n].provider : n \in {m \in DOMAIN Backends[c] : ~ Backends[c][m].owns}}
Made(c) == {Backends[c][n].provider : n \in {m \in DOMAIN Backends[c] : Backends[c][m].owns}}

\* A provider that a backend made is its own, and nobody lists it.  One that is given is
\* listed once: listed twice it is entered twice, and closed under what is between.
AppAssumption ==
  /\ Apps # {} /\ None \notin Items /\ Providers \cap Components = {}
  /\ Fakes \subseteq Components /\ Globals \subseteq Components /\ Fakes \cap Globals = {}
  /\ Backends \in [Components -> Seq(Bindings)]
  /\ \A c \in Components : Len(Backends[c]) <= 3
  /\ \A c \in Fakes : Backends[c] = <<>>
  /\ \A c, d \in Components : \A n \in DOMAIN Backends[c], m \in DOMAIN Backends[d] :
       Backends[c][n].owns /\ Backends[d][m].provider = Backends[c][n].provider => c = d /\ n = m
  /\ Uses \subseteq [Apps -> Lists]
  /\ \A uses \in Uses : \A a \in Apps :
       /\ \A c \in Components : Range(uses[a]) \cap Made(c) = {}
       /\ \A n, m \in DOMAIN uses[a] : uses[a][n] \in Providers /\ uses[a][n] = uses[a][m] => n = m
  /\ Defaults \in [Providers -> Seq(Components)]
  /\ Strict \subseteq BOOLEAN /\ AllowMultiple \in BOOLEAN
  /\ {MaxFailures, MaxOverrides} \subseteq Nat

VARIABLES strict,
          _items, _by_key, \* per app: its items in order, and per key the component
          bound,      \* per component: its backends, after sharing
          phase,      \* per app
          at,         \* per app: the item and the backend of it that open next
          stack,      \* per app: what its exit stack has to close
          pools,      \* providers that are open
          backends,   \* open backends, as <<component, number>>
          _active_apps,
          global,     \* whose configuration the process has
          saved,      \* per global component: what it found
          block,      \* per task: its override block
          failures, overrides, \* bounds
          unsafe,     \* history: an app gave up its place while it was still unwinding
          reshared    \* history: apps that were opened again after a backend was rebound

vars == <<strict, _items, _by_key, bound, phase, at, stack, pools, backends, _active_apps,
          global, saved, block, failures, overrides, unsafe, reshared>>
registry == <<_items, _by_key>>
resources == <<pools, backends, global, saved>>

TypeOK ==
  /\ strict \in Strict
  /\ \A a \in Apps : /\ _items[a] \in Seq(Items) /\ stack[a] \in Seq(Items)
                     /\ _by_key[a] \in [Keys -> Components \cup {None}]
                     /\ phase[a] \in {"broken", "closed", "entering", "open", "exiting", "unwinding"}
  /\ pools \subseteq Providers /\ _active_apps \subseteq Apps
  /\ \A b \in backends : b[1] \in Components /\ b[2] \in DOMAIN bound[b[1]]
  /\ global \in Globals \cup {None} /\ failures \in 0..MaxFailures

-----------------------------------------------------------------------------
\* Construction: Grelmicro(uses=[...]).

Registries == [items : Lists, by_key : [Keys -> Components \cup {None}], pending : Seq(Providers),
               ok : BOOLEAN]
Empty == [items |-> <<>>, by_key |-> [k \in Keys |-> None], pending |-> <<>>, ok |-> TRUE]
Registered(r) == {c \in Components : r.by_key[Key[c]] = c}

_register_component(r, c) ==
  IF c \in Registered(r) THEN r
  ELSE IF \/ r.by_key[Key[c]] # None
          \/ Key[c].kind \in Singletons /\ \E o \in Registered(r) : Key[o].kind = Key[c].kind
  THEN [r EXCEPT !.ok = FALSE]
  ELSE [r EXCEPT !.items = Append(@, c), !.by_key[Key[c]] = c]

\* A provider is opened with the app; what it serves by default is settled at the end.
_use_provider(r, p) == [r EXCEPT !.items = Append(@, p), !.pending = Append(@, p)]
use(r, i) == IF i \in Providers THEN _use_provider(r, i) ELSE _register_component(r, i)

\* The kinds that no listed component claimed.
_default_components_for_provider(p) == Defaults[p]
_register_one_provider(r, p) ==
  LET claimed == {Key[c].kind : c \in Registered(r)}
      filling == [x \in Registries \X Components |->
                    IF Key[x[2]].kind \in claimed THEN x[1] ELSE _register_component(x[1], x[2])]
  IN  Accumulated(filling, r, _default_components_for_provider(p))

\* Two providers fill nothing beside components, and are ambiguous without.
_register_provider_defaults(r) ==
  CASE r.pending = <<>> -> r
    [] Len(r.pending) = 1 -> _register_one_provider(r, r.pending[1])
    [] OTHER -> [r EXCEPT !.ok = @ /\ Registered(r) # {}]

__init__(uses) ==
  _register_provider_defaults(
    Accumulated([x \in Registries \X Items |-> use(x[1], x[2])], Empty, uses))

Init ==
  /\ strict \in Strict
  /\ \E uses \in Uses :
       LET made == [a \in Apps |-> __init__(uses[a])]
       IN  /\ _items = [a \in Apps |-> made[a].items]
           /\ _by_key = [a \in Apps |-> made[a].by_key]
           /\ phase = [a \in Apps |-> IF made[a].ok THEN "closed" ELSE "broken"]
  /\ bound = Backends
  /\ at = [a \in Apps |-> <<1, 1>>] /\ stack = [a \in Apps |-> <<>>]
  /\ pools = {} /\ backends = {} /\ _active_apps = {}
  /\ global = None /\ saved = [c \in Globals |-> None]
  /\ block = [t \in Tasks |-> None]
  /\ failures = 0 /\ overrides = 0 /\ unsafe = FALSE /\ reshared = {}

-----------------------------------------------------------------------------
\* What __aenter__ does with the list before it opens anything.

_iter_provider_backends(i) == IF i \in Components THEN bound[i] ELSE <<>>

\* A borrowed provider that is not listed goes in front of its first borrower.
Adopt(items) ==
  [x \in Lists \X Bindings |->
     IF x[2].owns \/ x[2].provider \in Range(items) \cup Range(x[1])
     THEN x[1] ELSE Append(x[1], x[2].provider)]
Rebuild(items) ==
  [x \in Lists \X Items |->
     Append(Accumulated(Adopt(items), x[1], _iter_provider_backends(x[2])), x[2])]
_discover_shared_providers(items) == Accumulated(Rebuild(items), <<>>, items)

\* A borrowed provider that is listed later than its borrower moves in front of it.
Position(items, i) == CHOOSE n \in DOMAIN items : items[n] = i /\ \A m \in 1..(n - 1) : items[m] # i
_move_provider_ahead(items, p, index) ==
  IF Position(items, p) <= index THEN items
  ELSE [n \in 1..Len(items) |-> IF n < index \/ n > Position(items, p) THEN items[n]
                                ELSE IF n = index THEN p ELSE items[n - 1]]
NotReordered(items) == items
Ahead(index) ==
  [x \in Lists \X Bindings |->
     IF x[2].owns THEN x[1] ELSE _move_provider_ahead(x[1], x[2].provider, index)]
Walk(items) ==
  [x \in Lists \X (1..Len(items)) |->
     Accumulated(Ahead(x[2]), x[1], _iter_provider_backends(x[1][x[2]]))]
_order_providers_before_dependents(items) ==
  Accumulated(Walk(items), items, [n \in 1..Len(items) |-> n])

\* The first backend that owns a pool of some class and prefix keeps it, the later ones
\* borrow it.
Owning(items) ==
  {x \in (1..Len(items)) \X (1..3) :
     /\ x[2] \in DOMAIN _iter_provider_backends(items[x[1]])
     /\ _iter_provider_backends(items[x[1]])[x[2]].owns}
OwnedAt(items, x) == bound[items[x[1]]][x[2]].provider
Before(x, y) == x[1] < y[1] \/ (x[1] = y[1] /\ x[2] < y[2])
FirstOwner(items, x) ==
  CHOOSE y \in Owning(items) :
    /\ Pool[OwnedAt(items, y)] = Pool[OwnedAt(items, x)]
    /\ \A z \in Owning(items) :
         Pool[OwnedAt(items, z)] = Pool[OwnedAt(items, x)] => y = z \/ Before(y, z)
_rebind_provider(items, x) ==
  IF x \in Owning(items)
  THEN [provider |-> OwnedAt(items, FirstOwner(items, x)), owns |-> FirstOwner(items, x) = x]
  ELSE bound[items[x[1]]][x[2]]
_resolve_provider_sharing(items) ==
  [c \in Components |->
     IF c \in Range(items)
     THEN [m \in DOMAIN bound[c] |-> _rebind_provider(items, <<Position(items, c), m>>)]
     ELSE bound[c]]

_owns_global_state(a) == \E n \in DOMAIN _items[a] : _items[a][n] \in Globals

\* The guard on _active_apps is checked and the place taken under a lock.
__aenter__(a) ==
  /\ phase[a] = "closed"
  /\ ~ AllowMultiple /\ _owns_global_state(a) =>
       ~ \E o \in _active_apps : _owns_global_state(o)
  /\ LET found == _discover_shared_providers(_items[a])
         ordered == _order_providers_before_dependents(found)
     IN  IF strict /\ ordered # found
         THEN /\ _items' = [_items EXCEPT ![a] = found]  \* LifecycleOrderError
              /\ UNCHANGED <<bound, phase, at, _active_apps, reshared>>
         ELSE /\ _items' = [_items EXCEPT ![a] = ordered]
              /\ bound' = _resolve_provider_sharing(ordered)
              /\ phase' = [phase EXCEPT ![a] = "entering"]
              /\ at' = [at EXCEPT ![a] = <<1, 1>>]
              /\ _active_apps' = _active_apps \cup {a}
              /\ reshared' = IF \E n \in DOMAIN ordered : _iter_provider_backends(ordered[n]) #
                                   (IF ordered[n] \in Components THEN Backends[ordered[n]] ELSE <<>>)
                             THEN reshared \cup {a} ELSE reshared
  /\ UNCHANGED <<strict, _by_key, stack, resources, block, failures, overrides, unsafe>>

-----------------------------------------------------------------------------
\* Opening and closing.

Entering(a) == _items[a][at[a][1]]
Owned(c, n) == IF bound[c][n].owns THEN {bound[c][n].provider} ELSE {}
Pushed(a) ==
  /\ stack' = [stack EXCEPT ![a] = Append(@, Entering(a))]
  /\ at' = [at EXCEPT ![a] = <<@[1] + 1, 1>>]

\* Log, Trace and Metrics keep what they find and put their own in its place.
Installs(c) ==
  IF c \in Globals THEN global' = c /\ saved' = [saved EXCEPT ![c] = global]
  ELSE UNCHANGED <<global, saved>>

\* enter_async_context: a provider, or the next backend of a component.
enter(a) ==
  /\ phase[a] = "entering" /\ at[a][1] <= Len(_items[a])
  /\ LET i == Entering(a)
         n == at[a][2]
     IN  IF i \in Providers
         THEN /\ pools' = pools \cup {i} /\ Pushed(a)
              /\ UNCHANGED <<backends, global, saved>>
         ELSE IF n > Len(bound[i])
         THEN /\ Installs(i) /\ Pushed(a)
              /\ UNCHANGED <<pools, backends>>
         ELSE /\ pools' = pools \cup Owned(i, n)
              /\ backends' = backends \cup {<<i, n>>}
              /\ at' = [at EXCEPT ![a] = <<@[1], n + 1>>]
              /\ UNCHANGED <<stack, global, saved>>
  /\ UNCHANGED <<strict, registry, bound, phase, _active_apps, block, failures, overrides, unsafe, reshared>>

\* Opening fails, or _instrument_providers at its end: the place on _active_apps is given
\* up, and then what was entered is unwound.
LeavesFirst(a) == _active_apps \ {a}
enter_fails(a) ==
  /\ phase[a] = "entering" /\ failures < MaxFailures
  /\ failures' = failures + 1
  /\ _active_apps' = LeavesFirst(a)
  /\ phase' = [phase EXCEPT ![a] = "unwinding"]
  /\ unsafe' = (unsafe \/ \E n \in DOMAIN stack[a] : stack[a][n] \in Globals)
  /\ UNCHANGED <<strict, registry, bound, at, stack, resources, block, overrides, reshared>>

_instrument_providers(a) ==
  /\ phase[a] = "entering" /\ at[a][1] > Len(_items[a])
  /\ phase' = [phase EXCEPT ![a] = "open"]
  /\ UNCHANGED <<strict, registry, bound, at, stack, resources, _active_apps, block, failures,
                 overrides, unsafe, reshared>>

\* The override blocks of an app lie inside its own.
__aexit__(a) ==
  /\ phase[a] = "open" /\ \A t \in Tasks : block[t] # None => block[t].app # a
  /\ phase' = [phase EXCEPT ![a] = "exiting"]
  /\ UNCHANGED <<strict, registry, bound, at, stack, resources, _active_apps, block, failures,
                 overrides, unsafe, reshared>>

\* What the __aexit__ of an item closes; one that raises does not stop the others.
Closes(i) ==
  IF i \in Providers THEN pools' = pools \ {i} /\ UNCHANGED <<backends, global>>
  ELSE /\ pools' = pools \ UNION {Owned(i, n) : n \in DOMAIN bound[i]}
       /\ backends' = backends \ ({i} \X DOMAIN bound[i])
       /\ global' = IF i \in Globals THEN saved[i] ELSE global

\* AsyncExitStack: what was entered last is exited first.
Topmost(s) == s[Len(s)]
Unwound(s) == SubSeq(s, 1, Len(s) - 1)
exit_item(a) ==
  /\ phase[a] \in {"exiting", "unwinding"} /\ stack[a] # <<>>
  /\ Closes(Topmost(stack[a]))
  /\ stack' = [stack EXCEPT ![a] = Unwound(@)]
  /\ UNCHANGED <<strict, registry, bound, phase, at, saved, _active_apps, block, failures,
                 overrides, unsafe, reshared>>
exited(a) ==
  /\ phase[a] \in {"exiting", "unwinding"} /\ stack[a] = <<>>
  /\ phase' = [phase EXCEPT ![a] = "closed"]
  /\ _active_apps' = _active_apps \ {a}
  /\ UNCHANGED <<strict, registry, bound, at, stack, resources, block, failures, overrides, unsafe, reshared>>

-----------------------------------------------------------------------------
\* override(component): the registry is copied, changed, and put back at the end, before
\* the component is closed.

override(t, a, c) ==
  /\ phase[a] = "open" /\ block[t] = None /\ overrides < MaxOverrides
  /\ \A u \in Tasks : block[u] # None => block[u].fake # c
  /\ overrides' = overrides + 1
  /\ block' = [block EXCEPT ![t] = [app |-> a, fake |-> c, items |-> _items[a], by_key |-> _by_key[a]]]
  /\ _by_key' = [_by_key EXCEPT ![a][Key[c]] = c]
  /\ _items' = [_items EXCEPT ![a] = IF c \in Range(@) THEN @ ELSE Append(@, c)]
  /\ UNCHANGED <<strict, bound, phase, at, stack, resources, _active_apps, failures, unsafe, reshared>>

\* The end of the block, its exception, or the component failing to open.
Restored(t) ==
  /\ _by_key' = [_by_key EXCEPT ![block[t].app] = block[t].by_key]
  /\ _items' = [_items EXCEPT ![block[t].app] = block[t].items]
override_ends(t) ==
  /\ block[t] # None
  /\ Restored(t)
  /\ block' = [block EXCEPT ![t] = None]
  /\ UNCHANGED <<strict, bound, phase, at, stack, resources, _active_apps, failures, overrides, unsafe, reshared>>

Next ==
  \/ \E a \in Apps : \/ __aenter__(a) \/ enter(a) \/ enter_fails(a) \/ _instrument_providers(a)
                     \/ __aexit__(a) \/ exit_item(a) \/ exited(a)
                     \/ \E t \in Tasks, c \in Fakes : override(t, a, c)
  \/ \E t \in Tasks : override_ends(t)

Spec == Init /\ [][Next]_vars

-----------------------------------------------------------------------------
\* Properties.

Entered(a) == Range(stack[a])
Borrowed(c) == {bound[c][n].provider : n \in DOMAIN bound[c]}
Reaches(a) == Range(_items[a]) \cup UNION {Borrowed(c) : c \in Range(_items[a]) \cap Components}
Apart == \A a, b \in Apps : a # b => Reaches(a) \cap Reaches(b) = {}

StaysOpen(a) == \A c \in Entered(a) \cap Components : Borrowed(c) \subseteq pools

\* While a component is open, so is every provider that one of its backends works with,
\* listed or not, listed too late, owned or shared with another component, and whatever
\* fails to open: as long as no two apps have an item or a provider in common, and the app
\* is not one whose backends an earlier opening rebound.
BorrowedIsOpen == Apart => \A a \in Apps \ reshared : StaysOpen(a)

\* docs/architecture/multiple-apps.md: "Most components keep their state on the instance
\* [...] so two overlapping apps never touch each other", with the same provider in both
\* apps of its example.  Both enter it, and the first to exit closes it under the other.
OverlappingAppsStayOpen == \A a \in Apps \ reshared : StaysOpen(a)

\* tests/test_grelmicro_app.py: "A `Grelmicro` instance can be opened again after closing
\* cleanly."  What an opening rebound to the pool of another backend counts as borrowed at
\* the next one, and the pool is entered, and closed, as an item of its own.
ReopenedStaysOpen == Apart => \A a \in Apps : StaysOpen(a)

\* An app that is closed has left nothing open and its process as it found it, also when
\* opening failed half way, but for the backends of a component that itself failed to
\* open and for a pool of a component in two apps; unless two apps that own global state
\* overlapped.
NothingLeftOpen ==
  (\A a \in Apps : phase[a] \in {"closed", "broken"}) =>
    /\ failures = 0 => backends = {}
    /\ failures = 0 /\ Apart => pools = {}
    /\ ~ AllowMultiple /\ ~ unsafe => global = None

\* docs/architecture/multiple-apps.md: "opening a second app that owns `Log` or `Trace`
\* while another app that owns one is still active raises `MultipleActiveAppsError`", so
\* that none will "restore the global and clobber the second app's configuration".
GlobalIsOurs ==
  \A a \in Apps : \A c \in Globals :
    phase[a] = "open" /\ c \in Entered(a) => global \in Entered(a)

\* docs/architecture/testing.md: "Prior registrations are restored on exit, including
\* when the block raises."
RegistryRestored ==
  \A a \in Apps : (\A t \in Tasks : block[t] = None) =>
    \A c \in Fakes : c \notin Range(_items[a])
=============================================================================
