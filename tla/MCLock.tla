------------------------------- MODULE MCLock -------------------------------
(***************************************************************************)
(* A task and a worker thread on one lock.  In a patient behaviour the     *)
(* backend refuses only what somebody else holds and there are fewer       *)
(* faults, so that progress can be asked for; in the others an optimistic  *)
(* backend may refuse a free lock.                                         *)
(***************************************************************************)
EXTENDS Lock

CONSTANT FewFaults

VARIABLE patient

Patient == INSTANCE Lock WITH Optimistic <- FALSE, MaxFaults <- FewFaults

MCInit == LockInit /\ patient \in BOOLEAN

PatientNext == patient /\ Patient!LockNext /\ UNCHANGED patient

ImpatientNext == ~patient /\ LockNext /\ UNCHANGED patient

MCSpec ==
  /\ MCInit
  /\ [][PatientNext \/ ImpatientNext]_<<allVars, patient>>
  /\ Patient!Fairness

\* A waiting `acquire` ends, or others keep being granted the lock (up to the
\* bound on grants), or a holder keeps extending: nobody waits on a lock that
\* nobody uses.
PatientWaitersProgress ==
  \A t \in Tokens :
    (patient /\ Waiting(t)) ~>
      (~Waiting(t) \/ fence = MaxFence \/ \E u \in Tokens : pc[u] = "extend")

=============================================================================
