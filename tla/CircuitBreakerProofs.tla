------------------------ MODULE CircuitBreakerProofs ------------------------
(***************************************************************************)
(* Safety of the circuit breaker for every number of calls, every          *)
(* threshold, capacity and lifetime, with lost outcomes and stragglers.    *)
(***************************************************************************)
EXTENDS CircuitBreaker, FiniteSetTheorems, TLAPS

\* Slots account for the probes in flight: one that is not counted by ho_admit
\* was given back by a straggler.
SlotsCover == circuit.state = "HALF_OPEN" => Cardinality(probes) <= circuit.ho_admit + strays

\* A forced entry carries neither a cool-down nor a lifetime.
ForcedIsTimeless == circuit.state \in Forced => circuit.cool = 0 /\ circuit.left = 0

IInv == TypeOK /\ SlotsCover /\ OpenOutlivesCoolDown /\ ForcedIsTimeless

\* The thresholds, the capacity and the lifetimes, one by one.
LEMMA Numbers ==
  /\ ErrorThreshold \in Nat /\ ErrorThreshold >= 1
  /\ SuccessThreshold \in Nat /\ SuccessThreshold >= 1
  /\ HalfOpenCapacity \in Nat /\ HalfOpenCapacity >= 1
  /\ ResetTimeout \in Nat /\ ResetTimeout >= 1
  /\ StateTtl \in Nat /\ IdleTtl \in Nat
  /\ TtlFactor \in Nat /\ TtlFactor >= 2
  /\ MaxErrors \in Nat /\ MaxAborts \in Nat /\ MaxOps \in Nat
BY BreakerAssumption

\* A lifetime that is a multiple of the cool-down is longer than it.
LEMMA LifetimeIsLonger ==
  /\ _resolve_state_ttl(ResetTimeout) \in Nat
  /\ _resolve_state_ttl(ResetTimeout) > ResetTimeout
<1>1. ASSUME NEW f \in Nat, NEW r \in Nat, f >= 2, r >= 1
      PROVE  f * r \in Nat /\ f * r > r
  <2>1. (f - 1) * r >= r
    BY <1>1, SMT
  <2>2. f * r = (f - 1) * r + r
    BY <1>1, SMT
  <2> QED
    BY <1>1, <2>1, <2>2, SMT
<1> QED
  BY <1>1, Numbers DEF _resolve_state_ttl

\* The set of probes is finite, and a call joining or leaving it changes its size
\* by at most one.
LEMMA ProbeCount ==
  ASSUME TypeOK, NEW k
  PROVE  /\ Cardinality(probes) \in Nat
         /\ Cardinality(probes \cup {k}) <= Cardinality(probes) + 1
         /\ Cardinality(probes \ {k}) <= Cardinality(probes)
         /\ k \in probes => Cardinality(probes \ {k}) = Cardinality(probes) - 1
         /\ Cardinality({k}) = 1
<1>1. IsFiniteSet(probes)
  BY FS_Subset, BreakerAssumption DEF TypeOK
<1>2. Cardinality(probes) \in Nat
  BY <1>1, FS_CardinalityType
<1>3. Cardinality(probes \cup {k}) <= Cardinality(probes) + 1
  <2>1. Cardinality(probes \cup {k})
          = IF k \in probes THEN Cardinality(probes) ELSE Cardinality(probes) + 1
    BY <1>1, FS_AddElement
  <2> QED
    BY <1>2, <2>1
<1>4. Cardinality(probes \ {k}) = IF k \in probes THEN Cardinality(probes) - 1 ELSE Cardinality(probes)
  BY <1>1, FS_RemoveElement
<1>5. Cardinality({k}) = 1
  BY FS_Singleton
<1> QED
  BY <1>2, <1>3, <1>4, <1>5

\* Taking or giving back a slot, and counting an outcome, keeps an entry well
\* formed when the new counts are in range.
LEMMA SlotUpdate ==
  ASSUME NEW c \in Entries, NEW n \in 0..HalfOpenCapacity, NEW m \in Nat
  PROVE  /\ [c EXCEPT !.ho_admit = n, !.left = m] \in Entries
         /\ [c EXCEPT !.ho_admit = n] \in Entries
BY DEF Entries

LEMMA OutcomeUpdate ==
  ASSUME NEW c \in Entries, NEW s \in 0..SuccessThreshold,
         NEW e \in 0..(ErrorThreshold - 1), NEW m \in Nat
  PROVE  /\ [c EXCEPT !.csucc = s, !.cerr = e, !.left = m] \in Entries
         /\ [c EXCEPT !.cerr = e, !.csucc = s, !.left = m] \in Entries
BY DEF Entries

\* The entries the operations write are well formed.
LEMMA EntriesWritten ==
  ASSUME TypeOK
  PROVE  /\ Missing \in Entries
         /\ \A st \in Forced \cup {"CLOSED"} : [Missing EXCEPT !.state = st] \in Entries
         /\ Live \in Entries
         /\ Opened \in Entries
         /\ TakeSlot(HalfOpened) \in Entries
         /\ HasRoom(circuit) => TakeSlot(circuit) \in Entries
         /\ Succeeded(Live) \in Entries
         /\ Failed(Live) \in Entries
<1>0. /\ 0 \in 0..(ErrorThreshold - 1) /\ 0 \in 0..SuccessThreshold
      /\ 0 \in 0..ResetTimeout /\ ResetTimeout \in 0..ResetTimeout
      /\ 0 \in 0..HalfOpenCapacity /\ 1 \in 0..HalfOpenCapacity
      /\ IdleTtl \in Nat /\ 0 \in Nat
  BY Numbers
<1>1. Missing \in Entries
  BY <1>0, Zenon DEF Missing, Entries
<1>2. Live \in Entries
  BY <1>1 DEF Live, TypeOK
<1>3. ASSUME NEW st \in {"CLOSED", "OPEN", "HALF_OPEN"} \cup Forced,
             NEW t \in 0..ResetTimeout, NEW m \in Nat
      PROVE  /\ [Missing EXCEPT !.state = st, !.cool = t, !.left = m] \in Entries
             /\ [Missing EXCEPT !.state = st, !.left = m] \in Entries
             /\ [Missing EXCEPT !.state = st] \in Entries
  BY <1>1, <1>3 DEF Entries
<1>4. Opened \in Entries
  BY <1>0, <1>3, LifetimeIsLonger DEF Opened
<1>5. TakeSlot(HalfOpened) \in Entries
  <2>1. HalfOpened \in Entries
    BY <1>0, <1>3 DEF HalfOpened
  <2>2. HalfOpened.ho_admit + 1 = 1
    BY DEF HalfOpened, Missing
  <2> QED
    BY SlotUpdate, <1>0, <2>1, <2>2 DEF TakeSlot
<1>6. HasRoom(circuit) => TakeSlot(circuit) \in Entries
  <2>1. HasRoom(circuit) => circuit.ho_admit + 1 \in 0..HalfOpenCapacity
    BY Numbers DEF TypeOK, HasRoom, Entries
  <2> QED
    BY SlotUpdate, <1>0, <2>1 DEF TypeOK, TakeSlot
<1>7. ASSUME NEW c \in Entries PROVE GiveBack(c) \in Entries
  <2>1. c.ho_admit > 0 => c.ho_admit - 1 \in 0..HalfOpenCapacity
    BY <1>7, Numbers DEF Entries
  <2> QED
    BY <1>7, <2>1, SlotUpdate DEF GiveBack
<1>8. Succeeded(Live) \in Entries
  <2>1. Count(Live.csucc, SuccessThreshold) \in 0..SuccessThreshold
    BY <1>2, Numbers DEF Entries, Count
  <2>2. [Live EXCEPT !.csucc = Count(@, SuccessThreshold), !.cerr = 0, !.left = IdleTtl] \in Entries
    BY <1>0, <1>2, <2>1, OutcomeUpdate
  <2> QED
    BY <1>1, <1>7, <2>2 DEF Succeeded
<1>9. Failed(Live) \in Entries
  <2>1. CASE Live.cerr + 1 >= ErrorThreshold
    BY <1>4, <2>1 DEF Failed
  <2>2. CASE ~(Live.cerr + 1 >= ErrorThreshold)
    <3>1. Live.cerr + 1 \in 0..(ErrorThreshold - 1)
      BY <1>2, <2>2, Numbers DEF Entries
    <3>3. [Live EXCEPT !.cerr = @ + 1, !.csucc = 0, !.left = IdleTtl] \in Entries
      BY <1>0, <1>2, <3>1, OutcomeUpdate
    <3> QED
      BY <1>7, <2>2, <3>3 DEF Failed
  <2> QED
    BY <2>1, <2>2
<1> QED
  BY <1>0, <1>1, <1>2, <1>3, <1>4, <1>5, <1>6, <1>8, <1>9

\* What an outcome does to the slots of a circuit that stays HALF_OPEN: it frees
\* one, if one is taken.
LEMMA OutcomeSlots ==
  ASSUME NEW c \in Entries, NEW after \in {Succeeded(c), Failed(c)}
  PROVE  /\ after.state \in {c.state, "OPEN", "CLOSED"}
         /\ after.state = "OPEN" => after = Opened \/ c.state = "OPEN"
         /\ after.state = "HALF_OPEN"
              => /\ c.state = "HALF_OPEN"
                 /\ after.ho_admit = IF c.ho_admit > 0 THEN c.ho_admit - 1 ELSE 0
<1>1. ASSUME NEW d \in Entries
      PROVE  /\ GiveBack(d).state = d.state
             /\ d.state = "HALF_OPEN" => GiveBack(d).ho_admit = IF d.ho_admit > 0 THEN d.ho_admit - 1 ELSE 0
  BY <1>1, Numbers DEF GiveBack, Entries
<1>2. CASE after = Succeeded(c)
  <2> DEFINE d == [c EXCEPT !.csucc = Count(@, SuccessThreshold), !.cerr = 0, !.left = IdleTtl]
  <2>1. d \in Entries
    <3>1. Count(c.csucc, SuccessThreshold) \in 0..SuccessThreshold
      BY Numbers DEF Count, Entries
    <3>2. 0 \in 0..(ErrorThreshold - 1) /\ IdleTtl \in Nat
      BY Numbers
    <3> QED
      BY <3>1, <3>2, OutcomeUpdate
  <2>2. d.state = c.state /\ d.ho_admit = c.ho_admit
    BY DEF Entries
  <2>3. after = Missing \/ after = GiveBack(d)
    BY <1>2 DEF Succeeded
  <2>4. Missing.state = "CLOSED"
    BY DEF Missing
  <2> QED
    BY <1>1, <2>1, <2>2, <2>3, <2>4
<1>3. CASE after = Failed(c)
  <2> DEFINE d == [c EXCEPT !.cerr = @ + 1, !.csucc = 0, !.left = IdleTtl]
  <2>1. Opened.state = "OPEN"
    BY DEF Opened, Missing
  <2>2. CASE c.cerr + 1 >= ErrorThreshold
    BY <1>3, <2>1, <2>2 DEF Failed
  <2>3. CASE ~(c.cerr + 1 >= ErrorThreshold)
    <3>1. c.cerr + 1 \in 0..(ErrorThreshold - 1) /\ 0 \in 0..SuccessThreshold /\ IdleTtl \in Nat
      BY <2>3, Numbers DEF Entries
    <3>2. d \in Entries
      BY <3>1, OutcomeUpdate
    <3>3. d.state = c.state /\ d.ho_admit = c.ho_admit
      BY DEF Entries
    <3>4. after = GiveBack(d)
      BY <1>3, <2>3 DEF Failed
    <3> QED
      BY <1>1, <3>2, <3>3, <3>4
  <2> QED
    BY <2>2, <2>3
<1> QED
  BY <1>2, <1>3

\* An entry that is OPEN, HALF_OPEN or forced once read is the stored one.
LEMMA LiveIsStored ==
  ASSUME Live.state # "CLOSED"
  PROVE  Live = circuit
BY DEF Live, Missing

-----------------------------------------------------------------------------

\* IInv holds of a missing entry.
LEMMA InitInv == Init => IInv
<1> SUFFICES ASSUME Init PROVE IInv
  OBVIOUS
<1>1. Missing \in Entries
  BY Numbers DEF Missing, Entries
<1>2. Missing.state = "CLOSED"
  BY DEF Missing
<1> QED
  BY <1>1, <1>2, Numbers DEF Init, IInv, TypeOK, SlotsCover, OpenOutlivesCoolDown, ForcedIsTimeless, Forced

\* Admission, in a closed circuit, as the first probe and as a later one.
LEMMA AdmitInv ==
  ASSUME IInv, NEW k \in Calls, try_acquire(k)
  PROVE  IInv'
<1> USE DEF IInv
<1>1. CASE AdmitClosed(k)
  <2>1. Live \in Entries
    BY EntriesWritten
  <2>2. Live.state # "HALF_OPEN" /\ Live.state # "OPEN"
    BY <1>1 DEF AdmitClosed
  <2>3. probes' = {} /\ strays' = 0
    BY <1>1, <2>2 DEF AdmitClosed, Period
  <2>4. ForcedIsTimeless'
    BY <1>1, LiveIsStored DEF AdmitClosed, ForcedIsTimeless, Forced
  <2> QED
    BY <1>1, <2>1, <2>2, <2>3, <2>4 DEF AdmitClosed, TypeOK, SlotsCover, OpenOutlivesCoolDown, budgets
<1>2. CASE AdmitFirstProbe(k)
  <2>1. TakeSlot(HalfOpened) \in Entries
    BY EntriesWritten
  <2>2. TakeSlot(HalfOpened).state = "HALF_OPEN" /\ TakeSlot(HalfOpened).ho_admit = 1
    BY DEF TakeSlot, HalfOpened, Missing
  <2>3. Cardinality({k}) = 1
    BY ProbeCount
  <2> QED
    BY <1>2, <2>1, <2>2, <2>3
    DEF AdmitFirstProbe, TypeOK, SlotsCover, OpenOutlivesCoolDown, ForcedIsTimeless, Forced, budgets
<1>3. CASE AdmitProbe(k)
  <2>1. circuit.state = "HALF_OPEN"
    BY <1>3, LiveIsStored DEF AdmitProbe
  <2>2. TakeSlot(circuit) \in Entries
    BY <1>3, EntriesWritten DEF AdmitProbe
  <2>3. TakeSlot(circuit).state = "HALF_OPEN" /\ TakeSlot(circuit).ho_admit = circuit.ho_admit + 1
    BY <2>1 DEF TakeSlot, TypeOK, Entries
  <2>4. probes' = probes \cup {k} /\ strays' = strays
    BY <1>3, <2>1, <2>3 DEF AdmitProbe, Period, TypeOK
  <2>5. TypeOK'
    BY <1>3, <2>2, <2>4 DEF AdmitProbe, TypeOK, budgets
  <2>6. SlotsCover'
    <3>1. circuit.ho_admit \in Nat /\ strays \in Nat
      BY Numbers DEF TypeOK, Entries
    <3>2. Cardinality(probes \cup {k}) <= Cardinality(probes) + 1 /\ Cardinality(probes) \in Nat
      BY ProbeCount
    <3>3. Cardinality(probes \cup {k}) \in Nat
      BY <2>4, <2>5, ProbeCount, FS_Subset, FS_CardinalityType, BreakerAssumption DEF TypeOK
    <3> QED
      BY <1>3, <2>1, <2>3, <2>4, <3>1, <3>2, <3>3 DEF AdmitProbe, SlotsCover
  <2> QED
    BY <1>3, <2>3, <2>5, <2>6 DEF AdmitProbe, OpenOutlivesCoolDown, ForcedIsTimeless, Forced
<1> QED
  BY <1>1, <1>2, <1>3 DEF try_acquire

\* An outcome: a probe gives back its own slot, a straggler that of another call,
\* which `strays` counts.
LEMMA RecordInv ==
  ASSUME IInv, NEW k \in Calls, NEW after \in {Succeeded(Live), Failed(Live)},
         Record(k, after), errors' \in 0..MaxErrors
  PROVE  IInv'
<1> USE DEF IInv
<1>1. Live \in Entries /\ after \in Entries
  BY EntriesWritten
<1>2. circuit' \in Entries
  BY <1>1 DEF Record
<1>3. circuit'.state = "HALF_OPEN"
        => /\ circuit.state = "HALF_OPEN"
           /\ circuit'.ho_admit = IF circuit.ho_admit > 0 THEN circuit.ho_admit - 1 ELSE 0
  <2> SUFFICES ASSUME circuit'.state = "HALF_OPEN"
               PROVE  /\ circuit.state = "HALF_OPEN"
                      /\ circuit'.ho_admit = IF circuit.ho_admit > 0 THEN circuit.ho_admit - 1 ELSE 0
    OBVIOUS
  <2>1. circuit' = after
    BY DEF Record, IgnoresOutcome, Forced
  <2>2. Live.state = "HALF_OPEN"
    BY <1>1, <2>1, OutcomeSlots
  <2>3. Live = circuit
    BY <2>2, LiveIsStored
  <2> QED
    BY <1>1, <2>1, <2>2, <2>3, OutcomeSlots
<1>4. CASE circuit'.state = "HALF_OPEN"
  <2>1. probes' = probes \ {k} /\ strays' = strays + (IF k \in probes THEN 0 ELSE 1)
    BY <1>3, <1>4 DEF Record, Period
  <2>2. strays \in Nat /\ circuit.ho_admit \in Nat
    BY Numbers DEF TypeOK, Entries
  <2>3. TypeOK'
    BY <1>2, <2>1, <2>2 DEF TypeOK, Record
  <2>4. SlotsCover'
    <3>1. Cardinality(probes) \in Nat /\ Cardinality(probes) <= circuit.ho_admit + strays
      BY <1>3, <1>4, ProbeCount DEF SlotsCover
    <3>2. CASE k \in probes
      <4>1. Cardinality(probes \ {k}) = Cardinality(probes) - 1
        BY <3>2, ProbeCount
      <4> QED
        BY <1>3, <1>4, <2>1, <2>2, <3>1, <3>2, <4>1 DEF SlotsCover
    <3>3. CASE k \notin probes
      <4>1. probes' = probes /\ strays' = strays + 1
        BY <2>1, <3>3
      <4>2. Cardinality(probes') = Cardinality(probes)
        BY <4>1
      <4>3. circuit'.ho_admit + 1 >= circuit.ho_admit /\ circuit'.ho_admit \in Nat
        BY <1>3, <1>4, <2>2
      <4>4. Cardinality(probes') <= circuit'.ho_admit + strays'
        BY <2>2, <3>1, <4>1, <4>2, <4>3
      <4> QED
        BY <4>4 DEF SlotsCover
    <3> QED
      BY <3>2, <3>3
  <2> QED
    BY <1>4, <2>3, <2>4 DEF OpenOutlivesCoolDown, ForcedIsTimeless, Forced
<1>5. CASE circuit'.state # "HALF_OPEN"
  <2>1. probes' = {} /\ strays' = 0
    BY <1>5 DEF Record, Period
  <2>2. TypeOK'
    BY <1>2, <2>1 DEF TypeOK, Record
  <2>3. OpenOutlivesCoolDown'
    <3> SUFFICES ASSUME circuit'.state = "OPEN", circuit'.cool > 0
                 PROVE  circuit'.left > circuit'.cool
      BY DEF OpenOutlivesCoolDown
    <3>1. CASE circuit' = Opened
      <4>1. Opened.left = _resolve_state_ttl(ResetTimeout) /\ Opened.cool = ResetTimeout
        BY DEF Opened, Missing
      <4> QED
        BY <3>1, <4>1, LifetimeIsLonger
    <3>2. CASE circuit' # Opened
      <4>1. Live.state = "OPEN"
        BY <1>1, <3>2, OutcomeSlots DEF Record
      <4>2. circuit' = circuit
        BY <4>1, LiveIsStored DEF Record, IgnoresOutcome
      <4> QED
        BY <4>2 DEF OpenOutlivesCoolDown
    <3> QED
      BY <3>1, <3>2
  <2>4. ForcedIsTimeless'
    <3> SUFFICES ASSUME circuit'.state \in Forced PROVE circuit'.cool = 0 /\ circuit'.left = 0
      BY DEF ForcedIsTimeless
    <3>1. Live.state \in Forced
      BY <1>1, OutcomeSlots DEF Record, IgnoresOutcome, Forced
    <3>2. circuit' = circuit
      BY <3>1, LiveIsStored DEF Record, IgnoresOutcome, Forced
    <3> QED
      BY <3>2 DEF ForcedIsTimeless
  <2> QED
    BY <1>5, <2>2, <2>3, <2>4 DEF SlotsCover
<1> QED
  BY <1>4, <1>5

\* A call that never reports keeps its slot, so the slots still cover the probes.
LEMMA AbortInv ==
  ASSUME IInv, NEW k \in Calls, Abort(k)
  PROVE  IInv'
<1> USE DEF IInv
<1>1. Cardinality(probes \ {k}) <= Cardinality(probes) /\ Cardinality(probes) \in Nat
  BY ProbeCount
<1>2. Cardinality(probes \ {k}) \in Nat
  BY FS_Subset, FS_CardinalityType, BreakerAssumption DEF TypeOK
<1>3. strays \in Nat /\ circuit.ho_admit \in Nat
  BY Numbers DEF TypeOK, Entries
<1>4. TypeOK'
  BY Numbers DEF TypeOK, Abort
<1>5. SlotsCover'
  BY <1>1, <1>2, <1>3 DEF SlotsCover, Abort
<1> QED
  BY <1>4, <1>5 DEF OpenOutlivesCoolDown, ForcedIsTimeless, Abort

\* isolate and reset.
LEMMA TransitionInv ==
  ASSUME IInv, NEW desired \in {"FORCED_OPEN", "CLOSED"}, transition(desired)
  PROVE  IInv'
<1> USE DEF IInv
<1>1. [Missing EXCEPT !.state = desired] \in Entries
  BY EntriesWritten DEF Forced
<1>2. /\ [Missing EXCEPT !.state = desired].state = desired
      /\ [Missing EXCEPT !.state = desired].cool = 0 /\ [Missing EXCEPT !.state = desired].left = 0
  BY DEF Missing
<1> QED
  BY <1>1, <1>2, Numbers DEF transition, TypeOK, SlotsCover, OpenOutlivesCoolDown, ForcedIsTimeless

\* Time passes for the cool-down and the lifetime alike.
LEMMA TickInv ==
  ASSUME IInv, Tick
  PROVE  IInv'
<1> USE DEF IInv
<1> DEFINE after(t, m) == [circuit EXCEPT !.cool = t, !.left = m]
<1>1. /\ circuit.cool \in 0..ResetTimeout /\ circuit.left \in Nat
      /\ Less(circuit.cool) \in 0..ResetTimeout /\ Less(circuit.left) \in Nat
  BY Numbers DEF TypeOK, Entries, Less
<1>2. ASSUME NEW t \in 0..ResetTimeout, NEW m \in Nat
      PROVE  /\ after(t, m) \in Entries
             /\ after(t, m).cool = t /\ after(t, m).left = m
             /\ after(t, m).state = circuit.state /\ after(t, m).ho_admit = circuit.ho_admit
  BY <1>2 DEF TypeOK, Entries
<1>3. circuit' = after(Less(circuit.cool), IF Lapses THEN Less(circuit.left) ELSE circuit.left)
  BY DEF Tick
<1>4. /\ circuit' \in Entries
      /\ circuit'.cool = Less(circuit.cool)
      /\ circuit'.left = IF Lapses THEN Less(circuit.left) ELSE circuit.left
      /\ circuit'.state = circuit.state /\ circuit'.ho_admit = circuit.ho_admit
  <2> HIDE DEF after
  <2> QED
    BY <1>1, <1>2, <1>3
<1>5. TypeOK' /\ SlotsCover'
  BY <1>4 DEF Tick, TypeOK, SlotsCover, budgets
<1>6. OpenOutlivesCoolDown'
  BY <1>1, <1>4, Numbers DEF OpenOutlivesCoolDown, Less
<1>7. ForcedIsTimeless'
  BY <1>4 DEF ForcedIsTimeless, Less
<1> QED
  BY <1>5, <1>6, <1>7

\* The inductive invariant: in a HALF_OPEN circuit, the slots taken and the
\* outcomes stragglers reported account for every probe in flight.
THEOREM Invariance == Spec => []IInv
<1>1. IInv /\ [Next]_vars => IInv'
  <2> SUFFICES ASSUME IInv, [Next]_vars PROVE IInv'
    OBVIOUS
  <2>1. ASSUME NEW k \in Calls, try_acquire(k) PROVE IInv'
    BY <2>1, AdmitInv
  <2>2. ASSUME NEW k \in Calls, Succeed(k) PROVE IInv'
    <3>1. errors' \in 0..MaxErrors
      BY <2>2 DEF Succeed, IInv, TypeOK
    <3> QED
      BY <2>2, <3>1, RecordInv DEF Succeed
  <2>3. ASSUME NEW k \in Calls, Fail(k) PROVE IInv'
    <3>1. errors' \in 0..MaxErrors
      BY <2>3, Numbers DEF Fail, IInv, TypeOK
    <3> QED
      BY <2>3, <3>1, RecordInv DEF Fail
  <2>4. ASSUME NEW k \in Calls, Abort(k) PROVE IInv'
    BY <2>4, AbortInv
  <2>5. CASE isolate \/ reset
    BY <2>5, TransitionInv DEF isolate, reset
  <2>6. CASE Tick
    BY <2>6, TickInv
  <2>7. CASE UNCHANGED vars
    BY <2>7 DEF vars, IInv, TypeOK, SlotsCover, OpenOutlivesCoolDown, ForcedIsTimeless
  <2> QED
    BY <2>1, <2>2, <2>3, <2>4, <2>5, <2>6, <2>7 DEF Next
<1> QED
  BY <1>1, InitInv, PTL DEF Spec

\* The counters stay below their thresholds and ho_admit within the capacity,
\* whatever the order of outcomes.
THEOREM TypeCorrect == Spec => []TypeOK
BY Invariance, PTL DEF IInv

\* Probes exceed half_open_capacity by no more than the stragglers that reported.
THEOREM ProbesAreBounded == Spec => []ProbesBounded
<1>1. IInv => ProbesBounded
  <2> SUFFICES ASSUME IInv, Live.state = "HALF_OPEN"
               PROVE  Cardinality(probes) <= HalfOpenCapacity + strays
    BY DEF ProbesBounded
  <2>1. circuit.state = "HALF_OPEN"
    BY LiveIsStored
  <2>2. circuit.ho_admit \in 0..HalfOpenCapacity /\ strays \in Nat /\ Cardinality(probes) \in Nat
    BY ProbeCount DEF IInv, TypeOK, Entries
  <2> QED
    BY <2>1, <2>2, Numbers DEF IInv, SlotsCover
<1> QED
  BY <1>1, Invariance, PTL

\* An OPEN circuit is never forgotten before its cool-down is over, whatever
\* reset_timeout is.
THEOREM OpenIsRemembered == Spec => []OpenOutlivesCoolDown
BY Invariance, PTL DEF IInv

\* Only isolate and reset move a circuit an operator has forced.
THEOREM OperatorHoldIsKept == Spec => HoldIsKept
<1>1. IInv /\ [Next]_vars
        => [circuit.state \in Forced /\ ops' = ops => circuit' = circuit]_vars
  <2> SUFFICES ASSUME IInv, [Next]_vars, circuit.state \in Forced, ops' = ops
               PROVE  circuit' = circuit
    OBVIOUS
  <2>1. Live = circuit
    BY DEF Live, Expired
  <2>2. circuit.state # "HALF_OPEN" /\ circuit.state # "OPEN"
    BY DEF Forced
  <2>3. ASSUME NEW k \in Calls, try_acquire(k) PROVE circuit' = circuit
    BY <2>1, <2>2, <2>3 DEF try_acquire, AdmitClosed, AdmitFirstProbe, AdmitProbe
  <2>4. ASSUME NEW k \in Calls, Succeed(k) \/ Fail(k) PROVE circuit' = circuit
    BY <2>1, <2>4 DEF Succeed, Fail, Record, IgnoresOutcome
  <2>5. ASSUME NEW k \in Calls, Abort(k) PROVE circuit' = circuit
    BY <2>5 DEF Abort
  <2>6. CASE isolate \/ reset
    BY <2>6 DEF isolate, reset, transition, IInv, TypeOK
  <2>7. CASE Tick
    <3>1. circuit.cool = 0 /\ circuit.left = 0
      BY DEF IInv, ForcedIsTimeless
    <3>2. Less(circuit.cool) = circuit.cool /\ Less(circuit.left) = circuit.left
      BY <3>1 DEF Less
    <3>3. circuit' = [circuit EXCEPT !.cool = circuit.cool, !.left = circuit.left]
      BY <2>7, <3>2 DEF Tick
    <3> QED
      BY <3>3 DEF IInv, TypeOK, Entries
  <2> QED
    BY <2>3, <2>4, <2>5, <2>6, <2>7 DEF Next, vars
<1> QED
  BY <1>1, Invariance, PTL DEF Spec, HoldIsKept
=============================================================================
