-------------------------- MODULE MCLeaderElection --------------------------
(***************************************************************************)
(* Two workers, both with all faults; `lead` is used on one of them.  A    *)
(* body reads the worker's own view only, so one at a time shows what it   *)
(* does.                                                                   *)
(***************************************************************************)
EXTENDS LeaderElection

CONSTANT Busy  \* the workers whose application uses `lead`

MCNext == Next /\ \A w \in Workers \ Busy : body'[w] = "none"

MCSpec == Init /\ [][MCNext]_vars /\ Fairness

=============================================================================
