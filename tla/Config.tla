------------------------------- MODULE Config -------------------------------
(***************************************************************************)
(* grelmicro/_config.py and grelmicro/config: live components that are     *)
(* patched from a mounted configuration and a mounted secret.  The poll    *)
(* reads a mount file by file while the platform may swap what is mounted, *)
(* so one pass can see part of the old content and part of the new one.    *)
(* Between two suspensions nothing else of the program runs, and neither   *)
(* the file adapter nor any _apply_reconfigure suspends.                   *)
(***************************************************************************)
EXTENDS Integers, FiniteSets

CONSTANTS Instances, Fields, None,
          Tracked,     \* instances built under a name, which external config can reach
          Immutable,   \* fields that a reload must never patch
          Values, Bad, \* values that validate, and one that does not
          Contents,    \* what can be mounted: per instance and field a value or None
          Unreadable, MaxSwaps, MaxCalls, MaxOpens

Roles == {"config", "secrets"}
Keys == Instances \X Fields
Mapping == [Keys -> Values \cup {Bad, None}]

ConfigAssumption ==
  /\ Tracked \subseteq Instances /\ Immutable \subseteq Fields
  /\ Contents \subseteq Mapping /\ Unreadable \notin Mapping
  /\ {MaxSwaps, MaxCalls, MaxOpens} \subseteq Nat

VARIABLES conf,      \* per instance: its running config
          disk,      \* per role: what is mounted, or Unreadable
          last,      \* per role: what the adapter last returned
          data,      \* per role: _config_data and _secrets_data
          reading,   \* what the pass has read of the mount
          left,      \* keys that it has not read yet
          pc, swaps, reconfigures, opens

vars == <<conf, disk, last, data, reading, left, pc, swaps, reconfigures, opens>>

Nothing == [k \in Keys |-> None]

TypeOK ==
  /\ conf \in [Instances -> [Fields -> Values]]
  /\ disk \in [Roles -> Mapping \cup {Unreadable}]
  /\ {last, data} \subseteq [Roles -> Mapping \cup {None}]
  /\ reading \in Mapping /\ left \subseteq Keys
  /\ pc \in {"closed", "sleep", "config", "secrets", "apply"}
  /\ swaps \in 0..MaxSwaps /\ reconfigures \in 0..MaxCalls /\ opens \in 0..MaxOpens

Init ==
  /\ conf \in [Instances -> {[f \in Fields |-> v] : v \in Values}]
  /\ disk \in [Roles -> {Nothing}] /\ last = [r \in Roles |-> None] /\ data = [r \in Roles |-> None]
  /\ reading = Nothing /\ left = Keys /\ pc = "closed"
  /\ swaps = 0 /\ reconfigures = 0 /\ opens = 0

-----------------------------------------------------------------------------
\* Reconfigurable

\* resolve_config_from_mapping: the keys of the mapping that name a field that may change,
\* over the running config; all of them or, when one does not validate, none.
Overrides(i, mapping) == {f \in Fields \ Immutable : mapping[<<i, f>>] # None}
Resolved(i, mapping) ==
  [f \in Fields |-> IF f \in Overrides(i, mapping) THEN mapping[<<i, f>>] ELSE conf[i][f]]
resolve_config_from_mapping(i, mapping) ==
  IF \E f \in Fields : Resolved(i, mapping)[f] = Bad THEN conf[i] ELSE Resolved(i, mapping)

\* By the application itself.
reconfigure(i, f, v) ==
  /\ reconfigures < MaxCalls /\ reconfigures' = reconfigures + 1
  /\ conf' = [conf EXCEPT ![i][f] = v]
  /\ UNCHANGED <<disk, last, data, reading, left, pc, swaps, opens>>

-----------------------------------------------------------------------------
\* ExternalConfig and FileConfigAdapter

Begin(step) == pc' = step /\ reading' = Nothing /\ left' = Keys

__aenter__ ==
  /\ pc = "closed" /\ opens < MaxOpens /\ opens' = opens + 1
  /\ Begin("config")
  /\ UNCHANGED <<conf, disk, last, data, swaps, reconfigures>>

_poll ==
  /\ pc = "sleep" /\ Begin("config")
  /\ UNCHANGED <<conf, disk, last, data, swaps, reconfigures, opens>>

__aexit__ ==
  /\ pc = "sleep" /\ pc' = "closed"
  /\ UNCHANGED <<conf, disk, last, data, reading, left, swaps, reconfigures, opens>>

\* _read, one file.
_read(role, k) ==
  /\ pc = role /\ disk[role] # Unreadable /\ k \in left
  /\ reading' = [reading EXCEPT ![k] = disk[role][k]] /\ left' = left \ {k}
  /\ UNCHANGED <<conf, disk, last, data, pc, swaps, reconfigures, opens>>

After(role) == IF role = "config" THEN "secrets" ELSE "apply"

\* load and _load_source: a change is remembered and returned, nothing new is None.
RememberedFromDisk(role) == IF disk[role] = Unreadable THEN reading ELSE disk[role]
Remembered(role) == reading
load(role) ==
  /\ pc = role /\ left = {}
  /\ IF last[role] = Remembered(role) THEN UNCHANGED <<last, data>>
     ELSE /\ last' = [last EXCEPT ![role] = Remembered(role)]
          /\ data' = [data EXCEPT ![role] = reading]
  /\ Begin(After(role))
  /\ UNCHANGED <<conf, disk, swaps, reconfigures, opens>>

\* OSError or ValueError: the last good mapping stays.
load_fails(role) ==
  /\ pc = role /\ disk[role] = Unreadable
  /\ Begin(After(role))
  /\ UNCHANGED <<conf, disk, last, data, swaps, reconfigures, opens>>

\* _load_merged and reconfigure_all: secrets over config, and every tracked instance.
Merged == [k \in Keys |->
  IF data["secrets"] # None /\ data["secrets"][k] # None THEN data["secrets"][k]
  ELSE IF data["config"] # None THEN data["config"][k] ELSE None]
reconfigure_all ==
  /\ pc = "apply" /\ pc' = "sleep"
  /\ conf' = [i \in Instances |-> IF i \in Tracked THEN resolve_config_from_mapping(i, Merged) ELSE conf[i]]
  /\ UNCHANGED <<disk, last, data, reading, left, swaps, reconfigures, opens>>

\* The platform swaps what is mounted, or it cannot be read for a time.
swap(role) ==
  /\ swaps < MaxSwaps /\ swaps' = swaps + 1
  /\ \E content \in Contents \cup {Unreadable} : disk' = [disk EXCEPT ![role] = content]
  /\ UNCHANGED <<conf, last, data, reading, left, pc, reconfigures, opens>>

Next ==
  \/ \E i \in Instances, f \in Fields, v \in Values : reconfigure(i, f, v)
  \/ __aenter__ \/ _poll \/ __aexit__ \/ reconfigure_all
  \/ \E role \in Roles :
       \/ \E k \in Keys : _read(role, k)
       \/ load(role) \/ load_fails(role) \/ swap(role)

\* The poll sleeps for its interval and then goes on; a pass does not block.
Fairness ==
  /\ WF_vars(_poll) /\ WF_vars(reconfigure_all)
  /\ \A role \in Roles : WF_vars(load(role)) /\ WF_vars(load_fails(role))
  /\ \A role \in Roles : WF_vars(\E k \in Keys : _read(role, k))

Spec == Init /\ [][Next]_vars /\ Fairness

-----------------------------------------------------------------------------
\* Properties.

\* What runs is what is mounted: every readable mount was taken over whole, and no tracked
\* instance has a value left to take.
Settled ==
  /\ \A role \in Roles : disk[role] # Unreadable => data[role] = disk[role]
  /\ \A i \in Tracked : resolve_config_from_mapping(i, Merged) = conf[i]

\* However the mounts were swapped under a read, became unreadable or held a value that
\* does not validate, and whatever the application set in between: when the mounts stay as
\* they are and the app stays open, the polls bring every component to what is mounted.
ReloadsConverge == <>[](pc = "closed" \/ Settled)

=============================================================================
