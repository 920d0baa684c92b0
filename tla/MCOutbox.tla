------------------------------ MODULE MCOutbox ------------------------------
(***************************************************************************)
(* Two relays and three messages, two of which share a dedup_key.  The     *)
(* more messages a behaviour publishes, the fewer faults and redrives it   *)
(* has: several faults (an overrun, then a crash with a statement under    *)
(* way) strike a message alone in the table.                               *)
(***************************************************************************)
EXTENDS Outbox

CONSTANT MaxEvents  \* bound on publishes, faults and redrives together

Published == {m \in Messages : state[m] # "unborn"}
Redriven == {m \in Messages : drive[m] > 0}

FewEvents == (faults + Cardinality(Published) + Cardinality(Redriven) <= MaxEvents)'

MCSpec == Init /\ [][Next /\ FewEvents]_vars /\ Fairness

=============================================================================
