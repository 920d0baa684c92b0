----------------------------- MODULE TaskProofs -----------------------------
(***************************************************************************)
(* What the scheduled tasks promise, for every number of workers, every    *)
(* cron expression and every number of faults: the outcomes of a fire and  *)
(* the reports of a round.                                                 *)
(***************************************************************************)
EXTENDS MCTasks, WellFoundedInduction, TLAPS

-----------------------------------------------------------------------------
\* The fires of the expression.

\* A set of naturals has a least element.
LEMMA LeastNatural ==
  ASSUME NEW S, S \subseteq Nat, S # {}
  PROVE  \E x \in S : \A y \in S : x <= y
<1> DEFINE R == OpToRel(<, Nat)
<1>1. \A x, y \in Nat : y < x => <<y, x>> \in R
  BY DEF OpToRel
<1>2. IsWellFoundedOn(R, Nat)
  BY NatLessThanWellFounded
<1> HIDE DEF R
<1>3. PICK x \in S : \A y \in S : ~ (<<y, x>> \in R)
  BY <1>2, WFMin
<1>4. \A y \in S : ~ (y < x)
  BY <1>1, <1>3
<1> QED BY <1>4

LEMMA MinIsLeast ==
  ASSUME NEW S, S \subseteq Nat, S # {}
  PROVE  Min(S) \in S /\ \A y \in S : Min(S) <= y
  BY LeastNatural DEF Min

\* A bounded set of naturals has a largest element.
LEMMA MaxIsLargest ==
  ASSUME NEW n \in Nat, NEW S, S \subseteq 0..n, S # {}
  PROVE  Max(S) \in S /\ \A y \in S : Max(S) >= y
<1> DEFINE T == {n - x : x \in S}
<1>0. \A x \in S : x \in 0..n /\ n - x \in Nat
  OBVIOUS
<1>1. T \subseteq Nat /\ T # {}
  BY <1>0
<1>2. PICK m \in T : \A y \in T : m <= y
  BY <1>1, LeastNatural
<1>3. PICK x \in S : m = n - x
  OBVIOUS
<1>4. ASSUME NEW y \in S
      PROVE  x >= y
  <2>1. n - y \in T
    OBVIOUS
  <2>2. n - x <= n - y
    BY <1>2, <1>3, <2>1
  <2>3. x \in Int /\ y \in Int
    BY <1>0
  <2> HIDE DEF T
  <2> QED BY <2>2, <2>3
<1> QED BY <1>4 DEF Max

LEMMA Constants ==
  ASSUME CronTaskAssumption
  PROVE  /\ MaxTime \in Nat /\ MaxFaults \in Nat /\ 0 \in Fires
         /\ \A f \in Fires : f \in Nat /\ f <= MaxTime
<1>1. MaxTime \in Nat
  BY DEF CronTaskAssumption
<1> QED BY <1>1 DEF CronTaskAssumption

\* The next fire is later than now, the one due is the latest up to now.
LEMMA NextIsLater ==
  ASSUME CronTaskAssumption, NEW t \in 0..MaxTime
  PROVE  next_after(t) \in Fires \cup {MaxTime + 1} /\ next_after(t) > t
<1> DEFINE S == {f \in Fires : f > t} \cup {MaxTime + 1}
<1>1. S \subseteq Nat /\ MaxTime + 1 \in S
  BY Constants
<1>2. Min(S) \in S
  <2> HIDE DEF S
  <2> QED BY <1>1, MinIsLeast
<1>3. MaxTime + 1 > t
  BY Constants
<1> QED BY <1>2, <1>3 DEF next_after

LEMMA DueIsLatest ==
  ASSUME CronTaskAssumption, NEW t \in 0..MaxTime
  PROVE  /\ previous_or_equal(t) \in Fires /\ previous_or_equal(t) <= t
         /\ \A f \in Fires : f <= t => f <= previous_or_equal(t)
<1> DEFINE S == {f \in Fires : f <= t}
<1>1. S \subseteq 0..MaxTime /\ 0 \in S /\ MaxTime \in Nat
  BY Constants
<1>2. Max(S) \in S /\ \A y \in S : Max(S) >= y
  <2> HIDE DEF S
  <2> QED BY <1>1, MaxIsLargest
<1>3. \A y \in S : y <= Max(S)
  BY <1>1, <1>2
<1> QED BY <1>2, <1>3 DEF previous_or_equal

-----------------------------------------------------------------------------
\* The loops of a cron task.

\* A tick evaluates a fire that is past, and only a durable schedule is asked for it.
OnTime == \A w \in Workers : due[w] <= seen[w] /\ seen[w] <= now
OnlyDurable ==
  \A w \in Workers : pc[w] \in {"read", "baseline", "drop", "claim"} => Durable

\* What has an outcome was claimed.  A claim that is in hand is not settled yet, and the
\* claims in hand are for different fires.
SettledIsClaimed ==
  Durable => /\ \A f \in Fires : Settled(f) => f <= last
             /\ \A f \in skipped : f <= last
HandsAreApart ==
  Durable => \A w \in Workers : pc[w] = "enter" =>
    /\ due[w] <= last /\ ~ Settled(due[w])
    /\ \A v \in Workers : v # w /\ pc[v] = "enter" => due[v] # due[w]

\* The last claim is in hand, was settled, or was the baseline.
BodyRuns == \A w \in Workers : pc[w] = "body" => runs[w][due[w]] > 0
LastIsCovered ==
  Durable /\ faults = 0 /\ last > 0 => Settled(last) \/ InHand(last) \/ last \in silent

\* Without a backend a loop has only run fires before the one that it will run next.
LocalPast ==
  ~ Durable => \A w \in Workers, f \in Fires : runs[w][f] > 0 =>
    /\ f <= now
    /\ pc[w] = "sleep" => f < wake[w]
    /\ pc[w] = "enter" => f < due[w]

CronInv ==
  /\ TypeOK /\ OnTime /\ OnlyDurable
  /\ SettledIsClaimed /\ HandsAreApart /\ AtMostOneOutcome
  /\ BodyRuns /\ LastIsCovered
  /\ LocalPast /\ LocalRunsOnce

LEMMA CronInit ==
  ASSUME CronTaskAssumption, Init
  PROVE  CronInv
<1> USE Constants
<1>1. TypeOK /\ OnTime /\ OnlyDurable
  BY DEF Init, TypeOK, OnTime, OnlyDurable, NeverFired, NoBackend
<1>2. \A f \in Fires : missed[f] = 0 /\ \A w \in Workers : runs[w][f] = 0
  BY DEF Init
<1>3. SettledIsClaimed /\ HandsAreApart /\ AtMostOneOutcome
  BY <1>2 DEF Init, SettledIsClaimed, HandsAreApart, AtMostOneOutcome, Settled
<1>4. BodyRuns /\ LastIsCovered
  BY DEF Init, BodyRuns, LastIsCovered, NeverFired, NoBackend
<1>5. LocalPast /\ LocalRunsOnce
  BY <1>2 DEF LocalPast, LocalRunsOnce
<1> QED BY <1>1, <1>3, <1>4, <1>5 DEF CronInv

\* Types, times and where a loop can be.
LEMMA CronTypesStep ==
  ASSUME CronTaskAssumption, TypeOK, OnTime, OnlyDurable, [Next]_vars
  PROVE  TypeOK' /\ OnTime' /\ OnlyDurable' /\ (Durable' <=> Durable)
<1> DEFINE n == next_after(now)
           p == previous_or_equal(now)
           Claimers == {"baseline", "drop", "claim"}
<1>1. now \in Nat /\ now <= MaxTime /\ now \in 0..MaxTime
  BY Constants DEF TypeOK
<1>2. n \in Fires \cup {MaxTime + 1} /\ n > now
  BY <1>1, NextIsLater
<1>3. p \in Fires /\ p <= now
  BY <1>1, DueIsLatest
<1>4. \A w \in Workers : due[w] \in Fires /\ due[w] \in Nat /\ seen[w] \in Nat /\ wake[w] \in Nat
  BY Constants DEF TypeOK
<1> HIDE DEF n, p
<1>5. ASSUME NEW w \in Workers, last' = last \/ CompareAndSet(w), last' = last \/ pc[w] \in Claimers
      PROVE  last' \in Fires \cup {NeverFired, NoBackend} /\ (Durable' <=> Durable)
  BY <1>4, <1>5, Constants DEF TypeOK, OnlyDurable, Durable, CompareAndSet, NoBackend, NeverFired
<1>6. ASSUME NEW w \in Workers, Start(w) \/ Wake(w)
      PROVE  TypeOK' /\ OnTime' /\ OnlyDurable' /\ (Durable' <=> Durable)
  <2>1. /\ due' = [due EXCEPT ![w] = p] /\ seen' = [seen EXCEPT ![w] = now]
        /\ catchup' \in [Workers -> BOOLEAN] /\ errors' \subseteq Workers
        /\ UNCHANGED <<now, last, faults, history>>
        /\ \/ Durable /\ Goto(w, "read") /\ UNCHANGED wake
           \/ ~ Durable /\ Goto(w, "enter") /\ UNCHANGED wake
           \/ ~ Durable /\ Goto(w, "sleep") /\ wake' = [wake EXCEPT ![w] = n]
    BY <1>6 DEF Start, Wake, Evaluate, TypeOK, n, p
  <2>2. TypeOK'
    BY <1>1, <1>2, <1>3, <1>4, <2>1 DEF TypeOK, Goto, history
  <2>3. OnTime'
    BY <1>1, <1>3, <2>1 DEF TypeOK, OnTime
  <2>4. OnlyDurable' /\ (Durable' <=> Durable)
    BY <2>1 DEF TypeOK, OnlyDurable, Durable, Goto
  <2> QED BY <2>2, <2>3, <2>4
\* Every other step of a worker leaves its tick and its time alone.
<1>7. ASSUME NEW w \in Workers, NEW place, Goto(w, place), UNCHANGED <<now, catchup, due, seen>>,
             \/ place \in {"down", "enter", "body"} /\ UNCHANGED wake
             \/ place \in {"baseline", "drop", "claim"} /\ Durable /\ UNCHANGED wake
             \/ place = "sleep" /\ wake' = [wake EXCEPT ![w] = n],
             last' = last \/ CompareAndSet(w), last' = last \/ pc[w] \in Claimers,
             errors' \subseteq Workers, faults' \in 0..MaxFaults,
             runs' \in [Workers -> [Fires -> Nat]], missed' \in [Fires -> Nat],
             skipped' \subseteq Fires, silent' \subseteq Fires
      PROVE  TypeOK' /\ OnTime' /\ OnlyDurable' /\ (Durable' <=> Durable)
  <2>1. last' \in Fires \cup {NeverFired, NoBackend} /\ (Durable' <=> Durable)
    BY <1>5, <1>7
  <2>2. pc' \in [Workers -> {"down", "read", "baseline", "drop", "claim", "enter", "body", "sleep"}]
    BY <1>7 DEF TypeOK, Goto
  <2>3. wake' \in [Workers -> Fires \cup {MaxTime + 1}]
    BY <1>2, <1>7 DEF TypeOK
  <2>4. ASSUME NEW v \in Workers, pc'[v] = "sleep"
        PROVE  wake'[v] > seen'[v]
    <3>1. CASE v = w
      <4>1. wake'[v] = n
        BY <1>7, <2>4, <3>1 DEF TypeOK, Goto
      <4> QED BY <1>1, <1>2, <1>4, <1>7, <4>1, Constants DEF OnTime
    <3>2. CASE v # w
      BY <1>7, <2>4, <3>2 DEF TypeOK, Goto
    <3> QED BY <3>1, <3>2
  <2>5. TypeOK'
    BY <1>7, <2>1, <2>2, <2>3, <2>4 DEF TypeOK
  <2>6. OnTime' /\ OnlyDurable'
    BY <1>7, <2>1 DEF TypeOK, OnTime, OnlyDurable, Goto
  <2> QED BY <2>1, <2>5, <2>6
<1>8. ASSUME NEW w \in Workers, ReportSkipped(w) \/ ReportMissed(w) \/ ReportNothing
      PROVE  missed' \in [Fires -> Nat] /\ skipped' \subseteq Fires /\ silent' \subseteq Fires
  <2>1. missed \in [Fires -> Nat] /\ skipped \subseteq Fires /\ silent \subseteq Fires
    BY DEF TypeOK
  <2>2. missed[due[w]] + 1 \in Nat
    BY <1>4, <2>1
  <2> QED BY <1>4, <1>8, <2>1, <2>2 DEF ReportSkipped, ReportMissed, ReportNothing
<1>9. ASSUME NEW w \in Workers, Read(w) \/ ClaimBaseline(w) \/ DropLateFire(w) \/ Claim(w)
      PROVE  TypeOK' /\ OnTime' /\ OnlyDurable' /\ (Durable' <=> Durable)
  <2>0. missed' \in [Fires -> Nat] /\ skipped' \subseteq Fires /\ silent' \subseteq Fires
    BY <1>4, <1>8, <1>9 DEF Read, ClaimBaseline, DropLateFire, Claim, TypeOK
  <2>1. /\ UNCHANGED <<now, errors, faults, runs>> /\ (last' = last \/ CompareAndSet(w))
        /\ last' = last \/ pc[w] \in Claimers
    BY <1>9 DEF Read, ClaimBaseline, DropLateFire, Claim
  <2>2. PICK place \in {"enter", "baseline", "drop", "claim", "sleep"} :
          /\ Goto(w, place) /\ UNCHANGED <<catchup, due, seen>>
          /\ IF place = "sleep" THEN wake' = [wake EXCEPT ![w] = n] ELSE UNCHANGED wake
    BY <1>9 DEF Read, ClaimBaseline, DropLateFire, Claim, Sleep, n
  <2>3. Durable
    BY <1>9 DEF OnlyDurable, Read, ClaimBaseline, DropLateFire, Claim
  <2> QED BY <1>7, <2>0, <2>1, <2>2, <2>3 DEF TypeOK
<1>10. ASSUME NEW w \in Workers, Enter(w) \/ BodyEnds(w)
       PROVE  TypeOK' /\ OnTime' /\ OnlyDurable' /\ (Durable' <=> Durable)
  <2>0. missed' \in [Fires -> Nat] /\ skipped' \subseteq Fires /\ silent' \subseteq Fires
    BY <1>8, <1>10 DEF Enter, BodyEnds, TypeOK, history
  <2>1. runs' \in [Workers -> [Fires -> Nat]]
    BY <1>4, <1>10 DEF Enter, BodyEnds, TypeOK, history
  <2>2. PICK place \in {"body", "sleep"} :
          /\ Goto(w, place) /\ UNCHANGED <<now, last, errors, faults, catchup, due, seen>>
          /\ IF place = "sleep" THEN wake' = [wake EXCEPT ![w] = n] ELSE UNCHANGED wake
    BY <1>10 DEF Enter, BodyEnds, Sleep, n
  <2> QED BY <1>7, <2>0, <2>1, <2>2 DEF TypeOK
<1>11. ASSUME NEW w \in Workers, CallFails(w) \/ Crash(w) \/ Stop(w)
       PROVE  TypeOK' /\ OnTime' /\ OnlyDurable' /\ (Durable' <=> Durable)
  <2>1. /\ UNCHANGED <<now, runs, missed, skipped, silent>>
        /\ last' = last \/ CompareAndSet(w)
        /\ last' = last \/ pc[w] \in Claimers
        /\ faults' \in 0..MaxFaults /\ errors' \subseteq Workers
    BY <1>11, Constants DEF CallFails, Crash, Stop, Fault, PerhapsClaimed, history, TypeOK
  <2>2. PICK place \in {"down", "sleep"} :
          /\ Goto(w, place) /\ UNCHANGED <<catchup, due, seen>>
          /\ IF place = "sleep" THEN wake' = [wake EXCEPT ![w] = n] ELSE UNCHANGED wake
    BY <1>11 DEF CallFails, Crash, Stop, Sleep, n
  <2> QED BY <1>7, <2>1, <2>2 DEF TypeOK
<1>12. CASE Tick \/ UNCHANGED vars
  <2>1. /\ UNCHANGED <<last, loop, faults, history>>
        /\ now' = now \/ (now < MaxTime /\ now' = now + 1)
    <3>1. CASE Tick
      BY <3>1 DEF Tick
    <3>2. CASE UNCHANGED vars
      BY <3>2 DEF vars
    <3> QED BY <1>12, <3>1, <3>2
  <2>2. now' \in 0..MaxTime /\ now' >= now
    BY <1>1, <2>1, Constants
  <2>3. UNCHANGED <<last, pc, catchup, due, seen, wake, errors, faults, runs, missed, skipped, silent>>
    BY <2>1 DEF loop, history
  <2>4. TypeOK'
    BY <2>2, <2>3 DEF TypeOK
  <2>5. OnTime'
    BY <1>1, <1>4, <2>2, <2>3 DEF OnTime
  <2>6. OnlyDurable' /\ (Durable' <=> Durable)
    BY <2>3 DEF OnlyDurable, Durable
  <2> QED BY <2>4, <2>5, <2>6
<1> QED BY <1>6, <1>9, <1>10, <1>11, <1>12 DEF Next, Step

\* A first outcome of a fire changes nothing for the others.
LEMMA FirstOutcome ==
  ASSUME TypeOK, AtMostOneOutcome, Durable, Durable', NEW w \in Workers, ~ Settled(due[w]),
         \/ missed' = [missed EXCEPT ![due[w]] = @ + 1] /\ UNCHANGED runs
         \/ runs' = [runs EXCEPT ![w][due[w]] = @ + 1] /\ UNCHANGED missed
  PROVE  /\ AtMostOneOutcome'
         /\ \A f \in Fires : f # due[w] => (Settled(f)' <=> Settled(f))
<1> DEFINE d == due[w]
<1>1. d \in Fires /\ missed \in [Fires -> Nat] /\ runs \in [Workers -> [Fires -> Nat]]
  BY DEF TypeOK
<1>2. missed[d] = 0 /\ \A v \in Workers : runs[v][d] = 0
  BY <1>1 DEF Settled
<1>3. \A f \in Fires : f # d => missed'[f] = missed[f] /\ \A v \in Workers : runs'[v][f] = runs[v][f]
  BY <1>1
<1>4. \/ missed'[d] = 1 /\ \A v \in Workers : runs'[v][d] = 0
      \/ missed'[d] = 0 /\ runs'[w][d] = 1 /\ \A v \in Workers : v # w => runs'[v][d] = 0
  BY <1>1, <1>2
<1> HIDE DEF d
<1>5. ASSUME NEW f \in Fires, NEW v \in Workers, NEW u \in Workers
      PROVE  runs'[u][f] + missed'[f] <= 1 /\ (v # u => runs'[v][f] = 0 \/ runs'[u][f] = 0)
  <2>1. CASE f = d
    BY <1>4, <2>1
  <2>2. CASE f # d
    BY <1>3, <2>2 DEF AtMostOneOutcome
  <2> QED BY <2>1, <2>2
<1>6. AtMostOneOutcome'
  BY <1>5 DEF AtMostOneOutcome
<1>7. \A f \in Fires : f # d => (Settled(f)' <=> Settled(f))
  BY <1>3 DEF Settled
<1> QED BY <1>6, <1>7 DEF d

\* One worker claims a fire, and it alone gives it its outcome.
LEMMA CronClaimsStep ==
  ASSUME CronTaskAssumption, TypeOK, OnTime, OnlyDurable, SettledIsClaimed, HandsAreApart,
         AtMostOneOutcome, [Next]_vars
  PROVE  SettledIsClaimed' /\ HandsAreApart' /\ AtMostOneOutcome'
<1>1. TypeOK' /\ OnTime' /\ (Durable' <=> Durable)
  BY CronTypesStep
<1> SUFFICES ASSUME Durable
             PROVE  SettledIsClaimed' /\ HandsAreApart' /\ AtMostOneOutcome'
  BY <1>1 DEF SettledIsClaimed, HandsAreApart, AtMostOneOutcome
<1>2. /\ \A f \in Fires : f \in Nat /\ (Settled(f) => f <= last)
      /\ \A f \in skipped : f \in Nat /\ f <= last
      /\ last \in Int /\ last' \in Int /\ Durable'
  BY <1>1, Constants DEF SettledIsClaimed, TypeOK, NeverFired, NoBackend
<1>3. \A w \in Workers : due[w] \in Fires /\ due[w] \in Nat
  BY Constants DEF TypeOK
\* Nothing has an outcome, and nobody but those who had a claim in hand has one.
<1>4. ASSUME UNCHANGED <<runs, missed>>, last' >= last, \A f \in skipped' : f <= last',
             \A w \in Workers : pc'[w] = "enter" => pc[w] = "enter" /\ due'[w] = due[w]
      PROVE  SettledIsClaimed' /\ HandsAreApart' /\ AtMostOneOutcome'
  <2>1. \A f : Settled(f)' <=> Settled(f)
    BY <1>4 DEF Settled
  <2>2. SettledIsClaimed'
    BY <1>2, <1>4, <2>1 DEF SettledIsClaimed
  <2>3. ASSUME NEW w \in Workers, pc'[w] = "enter"
        PROVE  /\ due'[w] <= last' /\ ~ Settled(due[w])'
               /\ \A v \in Workers : v # w /\ pc'[v] = "enter" => due'[v] # due'[w]
    <3>1. pc[w] = "enter" /\ due'[w] = due[w] /\ due[w] <= last /\ ~ Settled(due[w])
      BY <1>4, <2>3 DEF HandsAreApart
    <3>2. ~ Settled(due[w])'
      BY <1>4, <3>1 DEF Settled
    <3> QED BY <1>2, <1>3, <1>4, <3>1, <3>2 DEF HandsAreApart
  <2>4. HandsAreApart'
    BY <2>3 DEF HandsAreApart
  <2>5. AtMostOneOutcome'
    BY <1>4, <1>2 DEF AtMostOneOutcome
  <2> QED BY <2>2, <2>4, <2>5
\* The claim of w settles, or it is settled as it is won; nobody else has the fire.
<1>5. ASSUME NEW w \in Workers, ~ Settled(due[w]), UNCHANGED <<due, skipped>>,
             last' >= last, due[w] <= last',
             \/ missed' = [missed EXCEPT ![due[w]] = @ + 1] /\ UNCHANGED runs
             \/ runs' = [runs EXCEPT ![w][due[w]] = @ + 1] /\ UNCHANGED missed,
             \A v \in Workers : v # w /\ pc[v] = "enter" => due[v] # due[w],
             \A v \in Workers : pc'[v] = "enter" => pc[v] = "enter" /\ v # w
      PROVE  SettledIsClaimed' /\ HandsAreApart' /\ AtMostOneOutcome'
  <2>1. AtMostOneOutcome' /\ \A f \in Fires : f # due[w] => (Settled(f)' <=> Settled(f))
    BY <1>2, <1>5, FirstOutcome
  <2>2. SettledIsClaimed'
    BY <1>2, <1>3, <1>5, <2>1 DEF SettledIsClaimed
  <2>3. ASSUME NEW v \in Workers, pc'[v] = "enter"
        PROVE  /\ due'[v] <= last' /\ ~ Settled(due[v])'
               /\ \A u \in Workers : u # v /\ pc'[u] = "enter" => due'[u] # due'[v]
    <3>1. pc[v] = "enter" /\ v # w /\ due[v] # due[w]
      BY <1>5, <2>3
    <3>2. ~ Settled(due[v]) /\ due[v] <= last
      BY <3>1 DEF HandsAreApart
    <3>3. PICK e \in Fires : e = due[v]
      BY <1>3
    <3>4. ~ Settled(e)'
      BY <2>1, <3>1, <3>2, <3>3
    <3>5. ~ Settled(due[v])'
      BY <1>5, <3>3, <3>4 DEF Settled
    <3> QED BY <1>2, <1>3, <1>5, <3>1, <3>2, <3>5 DEF HandsAreApart
  <2>4. HandsAreApart'
    BY <2>3 DEF HandsAreApart
  <2> QED BY <2>1, <2>2, <2>4
<1>6. ASSUME NEW w \in Workers, CompareAndSet(w)
      PROVE  last' >= last /\ due[w] <= last'
  BY <1>2, <1>3, <1>6 DEF CompareAndSet, Wins
<1>7. ASSUME NEW w \in Workers, Wins(w)
      PROVE  /\ ~ Settled(due[w])
             /\ \A v \in Workers : pc[v] = "enter" => due[v] # due[w]
  BY <1>2, <1>3, <1>7 DEF Wins, HandsAreApart
<1>8. ASSUME NEW w \in Workers, Start(w) \/ Wake(w)
      PROVE  SettledIsClaimed' /\ HandsAreApart' /\ AtMostOneOutcome'
  <2>1. UNCHANGED <<runs, missed, last, skipped>>
    BY <1>8 DEF Start, Wake, Evaluate, history
  <2>2. \A v \in Workers : pc'[v] = "enter" => pc[v] = "enter" /\ due'[v] = due[v]
    BY <1>8 DEF Start, Wake, Evaluate, Goto, TypeOK
  <2> QED BY <1>2, <1>4, <2>1, <2>2
<1>9. ASSUME NEW w \in Workers, Read(w) \/ ClaimBaseline(w)
      PROVE  SettledIsClaimed' /\ HandsAreApart' /\ AtMostOneOutcome'
  <2>1. \A v \in Workers : pc'[v] = "enter" => pc[v] = "enter" /\ due'[v] = due[v]
    BY <1>9 DEF Read, ClaimBaseline, Sleep, Goto, TypeOK
  <2>2. last' >= last /\ UNCHANGED <<runs, missed>>
    BY <1>2, <1>6, <1>9 DEF Read, ClaimBaseline, ReportNothing, ReportSkipped
  <2>3. \A f \in skipped' : f <= last'
    BY <1>2, <1>3, <1>9, <2>2 DEF Read, ClaimBaseline, ReportNothing, ReportSkipped
  <2> QED BY <1>4, <2>1, <2>2, <2>3
<1>10. ASSUME NEW w \in Workers, DropLateFire(w) \/ Claim(w), ~ Wins(w)
       PROVE  SettledIsClaimed' /\ HandsAreApart' /\ AtMostOneOutcome'
  <2>1. last' = last /\ due[w] <= last /\ UNCHANGED runs /\ ReportSkipped(w) /\ Sleep(w)
    BY <1>2, <1>3, <1>10 DEF DropLateFire, Claim, CompareAndSet, Wins
  <2>2. \A v \in Workers : pc'[v] = "enter" => pc[v] = "enter" /\ due'[v] = due[v]
    BY <2>1 DEF Sleep, Goto, TypeOK
  <2>3. \A f \in skipped' : f <= last'
    BY <1>2, <2>1 DEF ReportSkipped
  <2> QED BY <1>2, <1>4, <2>1, <2>2, <2>3 DEF ReportSkipped
<1>11. ASSUME NEW w \in Workers, DropLateFire(w), Wins(w)
       PROVE  SettledIsClaimed' /\ HandsAreApart' /\ AtMostOneOutcome'
  <2>1. UNCHANGED <<runs, due, skipped>> /\ missed' = [missed EXCEPT ![due[w]] = @ + 1]
    BY <1>11 DEF DropLateFire, Sleep, ReportMissed
  <2>2. \A v \in Workers : pc'[v] = "enter" => pc[v] = "enter" /\ v # w
    BY <1>11 DEF DropLateFire, Sleep, Goto, TypeOK
  <2>3. CompareAndSet(w)
    BY <1>11 DEF DropLateFire
  <2> QED BY <1>5, <1>6, <1>7, <1>11, <2>1, <2>2, <2>3
<1>12. ASSUME NEW w \in Workers, Claim(w), Wins(w)
       PROVE  SettledIsClaimed' /\ HandsAreApart' /\ AtMostOneOutcome'
  <2>1. /\ UNCHANGED <<runs, missed, skipped, due>> /\ last' = due[w] /\ last' >= last
        /\ pc' = [pc EXCEPT ![w] = "enter"]
    BY <1>2, <1>3, <1>12 DEF Claim, CompareAndSet, Goto, ReportNothing, Wins
  <2>2. \A f : Settled(f)' <=> Settled(f)
    BY <2>1 DEF Settled
  <2>3. SettledIsClaimed'
    BY <1>2, <2>1, <2>2 DEF SettledIsClaimed
  <2>4. \A v \in Workers : pc'[v] = "enter" => v = w \/ pc[v] = "enter"
    BY <2>1 DEF TypeOK
  <2>5. \A v \in Workers : Settled(due[v])' <=> Settled(due[v])
    BY <2>1 DEF Settled
  <2>6. ASSUME NEW v \in Workers, pc'[v] = "enter"
        PROVE  due[v] <= last' /\ ~ Settled(due[v])
    BY <1>2, <1>3, <1>7, <1>12, <2>1, <2>4, <2>6 DEF HandsAreApart
  <2>7. ASSUME NEW v \in Workers, NEW u \in Workers, u # v, pc'[v] = "enter", pc'[u] = "enter"
        PROVE  due[u] # due[v]
    BY <1>7, <1>12, <2>4, <2>7 DEF HandsAreApart
  <2>8. HandsAreApart'
    BY <2>1, <2>5, <2>6, <2>7 DEF HandsAreApart
  <2>9. AtMostOneOutcome'
    BY <1>2, <2>1 DEF AtMostOneOutcome
  <2> QED BY <2>3, <2>8, <2>9
<1>13. ASSUME NEW w \in Workers, Enter(w)
       PROVE  SettledIsClaimed' /\ HandsAreApart' /\ AtMostOneOutcome'
  <2>1. UNCHANGED <<due, skipped, last>>
    BY <1>13 DEF Enter, Sleep, ReportNothing, ReportMissed
  <2>2. \/ missed' = [missed EXCEPT ![due[w]] = @ + 1] /\ UNCHANGED runs
        \/ runs' = [runs EXCEPT ![w][due[w]] = @ + 1] /\ UNCHANGED missed
    BY <1>13 DEF Enter, ReportNothing, ReportMissed
  <2>3. \A v \in Workers : pc'[v] = "enter" => pc[v] = "enter" /\ v # w
    BY <1>13 DEF Enter, Sleep, Goto, TypeOK
  <2>4. /\ ~ Settled(due[w]) /\ due[w] <= last
        /\ \A v \in Workers : v # w /\ pc[v] = "enter" => due[v] # due[w]
    BY <1>13 DEF Enter, HandsAreApart
  <2> QED BY <1>2, <1>5, <2>1, <2>2, <2>3, <2>4
<1>14. ASSUME NEW w \in Workers, BodyEnds(w) \/ CallFails(w) \/ Crash(w) \/ Stop(w)
       PROVE  SettledIsClaimed' /\ HandsAreApart' /\ AtMostOneOutcome'
  <2>1. UNCHANGED <<runs, missed, skipped>>
    BY <1>14 DEF BodyEnds, CallFails, Crash, Stop, history
  <2>2. last' >= last
    BY <1>2, <1>6, <1>14 DEF BodyEnds, CallFails, Crash, Stop, PerhapsClaimed
  <2>3. \A v \in Workers : pc'[v] = "enter" => pc[v] = "enter" /\ due'[v] = due[v]
    BY <1>14 DEF BodyEnds, CallFails, Crash, Stop, Sleep, Goto, TypeOK
  <2>4. \A f \in skipped' : f <= last'
    BY <1>2, <2>1, <2>2
  <2> QED BY <1>4, <2>1, <2>2, <2>3, <2>4
<1>15. CASE Tick \/ UNCHANGED vars
  <2>1. UNCHANGED <<last, pc, due, runs, missed, skipped>>
    <3>1. CASE Tick
      BY <3>1 DEF Tick, loop, history
    <3>2. CASE UNCHANGED vars
      BY <3>2 DEF vars, loop, history
    <3> QED BY <1>15, <3>1, <3>2
  <2> QED BY <1>2, <1>4, <2>1
<1> QED BY <1>8, <1>9, <1>10, <1>11, <1>12, <1>13, <1>14, <1>15 DEF Next, Step

\* Until something fails, the last claim stays covered.
LEMMA CronCoverStep ==
  ASSUME CronTaskAssumption, TypeOK, OnlyDurable, BodyRuns, LastIsCovered, [Next]_vars
  PROVE  BodyRuns' /\ LastIsCovered'
<1>1. \A w \in Workers : due[w] \in Fires /\ due[w] \in Nat
  BY Constants DEF TypeOK
<1>2. /\ last \in Int /\ missed \in [Fires -> Nat] /\ runs \in [Workers -> [Fires -> Nat]]
      /\ \A f \in Fires : f \in Nat
  BY Constants DEF TypeOK, NeverFired, NoBackend
\* Nothing that has an outcome loses it.
<1>3. ASSUME \/ UNCHANGED <<runs, missed>>
             \/ \E w \in Workers : missed' = [missed EXCEPT ![due[w]] = @ + 1] /\ UNCHANGED runs
             \/ \E w \in Workers : runs' = [runs EXCEPT ![w][due[w]] = @ + 1] /\ UNCHANGED missed
      PROVE  /\ \A f \in Fires : missed'[f] >= missed[f]
             /\ \A w \in Workers, f \in Fires : runs'[w][f] >= runs[w][f]
             /\ \A f \in Fires : Settled(f) => Settled(f)'
  <2>1. \A f \in Fires : missed'[f] >= missed[f] /\ missed'[f] \in Nat
    BY <1>1, <1>2, <1>3
  <2>2. \A w \in Workers, f \in Fires : runs'[w][f] >= runs[w][f] /\ runs'[w][f] \in Nat
    BY <1>1, <1>2, <1>3
  <2>3. \A f \in Fires : Settled(f) => Settled(f)'
    <3> SUFFICES ASSUME NEW f \in Fires, Settled(f)
                 PROVE  Settled(f)'
      OBVIOUS
    <3>1. missed[f] \in Nat /\ \A w \in Workers : runs[w][f] \in Nat
      BY <1>2
    <3>2. missed[f] > 0 => missed'[f] > 0
      BY <2>1, <3>1
    <3>3. \A w \in Workers : runs[w][f] > 0 => runs'[w][f] > 0
      BY <2>2, <3>1
    <3> QED BY <3>2, <3>3 DEF Settled
  <2> QED BY <2>1, <2>2, <2>3
\* The loops that stay where they are keep what they have in hand.
<1>4. ASSUME NEW w \in Workers, \A v \in Workers : v # w => pc'[v] = pc[v] /\ due'[v] = due[v],
             \/ UNCHANGED <<runs, missed>>
             \/ missed' = [missed EXCEPT ![due[w]] = @ + 1] /\ UNCHANGED runs
             \/ runs' = [runs EXCEPT ![w][due[w]] = @ + 1] /\ UNCHANGED missed,
             pc'[w] = "body" => runs'[w][due'[w]] > 0
      PROVE  BodyRuns'
  <2>1. \A v \in Workers, f \in Fires : runs'[v][f] >= runs[v][f] /\ runs'[v][f] \in Nat
    BY <1>1, <1>2, <1>4
  <2> QED BY <1>1, <1>2, <1>4, <2>1 DEF BodyRuns
<1>5. ASSUME NEW w \in Workers, \A v \in Workers : v # w => pc'[v] = pc[v] /\ due'[v] = due[v],
             \/ UNCHANGED <<runs, missed>>
             \/ missed' = [missed EXCEPT ![due[w]] = @ + 1] /\ UNCHANGED runs
             \/ runs' = [runs EXCEPT ![w][due[w]] = @ + 1] /\ UNCHANGED missed,
             NEW d \in Fires, d = due[w], pc[w] \in {"enter", "body"} => Settled(d)', silent \subseteq silent',
             UNCHANGED <<last, faults>>
      PROVE  LastIsCovered'
  <2> SUFFICES ASSUME Durable, faults = 0, last > 0
               PROVE  Settled(last)' \/ InHand(last)' \/ last' \in silent'
    BY <1>5 DEF LastIsCovered, Durable
  <2>1. last \in Fires
    BY <1>2 DEF TypeOK, Durable, NeverFired
  <2>2. CASE Settled(last)
    <3>1. PICK g \in Fires : g = last
      BY <2>1
    <3>2. Settled(g) => Settled(g)'
      BY <1>3, <1>5
    <3>3. Settled(g) /\ last' = g
      BY <1>5, <2>2, <3>1
    <3> QED BY <3>2, <3>3 DEF Settled
  <2>3. CASE InHand(last)
    <3>1. PICK v \in Workers : pc[v] \in {"enter", "body"} /\ due[v] = last
      BY <2>3 DEF InHand
    <3>2. CASE v = w
      <4>1. last' = d /\ Settled(d)'
        BY <1>5, <3>1, <3>2
      <4> QED BY <4>1 DEF Settled
    <3>3. CASE v # w
      BY <1>5, <3>1, <3>3 DEF InHand
    <3> QED BY <3>2, <3>3
  <2>4. CASE last \in silent
    BY <1>5, <2>4
  <2> QED BY <2>2, <2>3, <2>4 DEF LastIsCovered
<1>6. ASSUME NEW w \in Workers, Start(w) \/ Wake(w)
      PROVE  BodyRuns' /\ LastIsCovered'
  <2>1. /\ UNCHANGED <<runs, missed, silent, last, faults>> /\ pc[w] \notin {"enter", "body"}
        /\ pc'[w] # "body" /\ \A v \in Workers : v # w => pc'[v] = pc[v] /\ due'[v] = due[v]
    BY <1>6 DEF Start, Wake, Evaluate, Goto, history, TypeOK
  <2> QED BY <1>1, <1>4, <1>5, <2>1
<1>7. ASSUME NEW w \in Workers, Read(w) \/ ClaimBaseline(w) \/ DropLateFire(w) \/ Claim(w)
      PROVE  BodyRuns' /\ LastIsCovered'
  <2>1. \A v \in Workers : v # w => pc'[v] = pc[v] /\ due'[v] = due[v]
    BY <1>7 DEF Read, ClaimBaseline, DropLateFire, Claim, Sleep, Goto, TypeOK
  <2>2. pc[w] \notin {"enter", "body"} /\ pc'[w] # "body" /\ Durable /\ UNCHANGED <<due, faults, runs>>
    BY <1>7 DEF Read, ClaimBaseline, DropLateFire, Claim, Sleep, Goto, TypeOK, OnlyDurable
  <2>3. UNCHANGED missed \/ missed' = [missed EXCEPT ![due[w]] = @ + 1]
    BY <1>7 DEF Read, ClaimBaseline, DropLateFire, Claim, ReportNothing, ReportMissed, ReportSkipped
  <2>4. silent \subseteq silent'
    BY <1>7 DEF Read, ClaimBaseline, DropLateFire, Claim, ReportNothing, ReportMissed, ReportSkipped
  <2>5. BodyRuns'
    BY <1>4, <2>1, <2>2, <2>3
  <2>6. CASE last' = last
    BY <1>1, <1>5, <2>1, <2>2, <2>3, <2>4, <2>5, <2>6
  <2>7. CASE last' # last
    <3>1. CompareAndSet(w) /\ Wins(w) /\ last' = due[w] /\ due'[w] = due[w]
      BY <1>7, <2>2, <2>7 DEF Read, ClaimBaseline, DropLateFire, Claim, CompareAndSet
    <3>2. CASE ClaimBaseline(w)
      <4>1. last' \in silent'
        BY <3>1, <3>2 DEF ClaimBaseline
      <4> QED BY <2>5, <4>1 DEF LastIsCovered
    <3>3. CASE DropLateFire(w)
      <4>1. missed'[due[w]] > 0
        BY <1>1, <1>2, <3>1, <3>3 DEF DropLateFire, ReportMissed
      <4>2. Settled(last)'
        BY <3>1, <4>1 DEF Settled
      <4> QED BY <2>5, <4>2 DEF LastIsCovered
    <3>4. CASE Claim(w)
      <4>1. pc'[w] = "enter"
        BY <3>1, <3>4 DEF Claim, Goto, TypeOK
      <4>2. InHand(last)'
        BY <3>1, <4>1 DEF InHand
      <4> QED BY <2>5, <4>2 DEF LastIsCovered
    <3>5. ~ Read(w)
      BY <2>7 DEF Read
    <3> QED BY <1>7, <3>2, <3>3, <3>4, <3>5
  <2> QED BY <2>6, <2>7
<1>8. ASSUME NEW w \in Workers, Enter(w) \/ BodyEnds(w)
      PROVE  BodyRuns' /\ LastIsCovered'
  <2>1. /\ \A v \in Workers : v # w => pc'[v] = pc[v] /\ due'[v] = due[v]
        /\ UNCHANGED <<due, last, faults>> /\ silent' = silent
        /\ pc[w] \in {"enter", "body"}
    BY <1>8 DEF Enter, BodyEnds, Sleep, Goto, TypeOK, history, ReportMissed, ReportSkipped, ReportNothing
  <2>2. CASE UNCHANGED missed /\ runs' = [runs EXCEPT ![w][due[w]] = @ + 1]
    <3>1. runs'[w][due[w]] > 0
      BY <1>1, <1>2, <2>2
    <3>2. PICK d \in Fires : d = due[w]
      BY <1>1
    <3>3. Settled(d)'
      BY <3>1, <3>2 DEF Settled
    <3>4. BodyRuns'
      BY <1>4, <2>1, <2>2, <3>1
    <3> QED BY <1>5, <2>1, <2>2, <3>2, <3>3, <3>4
  <2>3. CASE UNCHANGED runs /\ missed' = [missed EXCEPT ![due[w]] = @ + 1] /\ pc'[w] = "sleep"
    <3>1. missed'[due[w]] > 0
      BY <1>1, <1>2, <2>3
    <3>2. PICK d \in Fires : d = due[w]
      BY <1>1
    <3>3. Settled(d)'
      BY <3>1, <3>2 DEF Settled
    <3>4. BodyRuns'
      BY <1>4, <2>1, <2>3
    <3> QED BY <1>5, <2>1, <2>3, <3>2, <3>3, <3>4
  <2>4. CASE UNCHANGED <<runs, missed>> /\ pc[w] = "body" /\ pc'[w] = "sleep"
    <3>1. runs[w][due[w]] > 0
      BY <2>4 DEF BodyRuns
    <3>2. PICK d \in Fires : d = due[w]
      BY <1>1
    <3>3. Settled(d)'
      BY <2>4, <3>1, <3>2 DEF Settled
    <3>4. BodyRuns'
      BY <1>4, <2>1, <2>4
    <3> QED BY <1>5, <2>1, <2>4, <3>2, <3>3, <3>4
  <2>5. CASE UNCHANGED <<runs, missed>> /\ ~ Durable /\ pc'[w] = "sleep"
    <3>1. BodyRuns'
      BY <1>4, <2>1, <2>5
    <3>2. ~ Durable'
      BY <2>1, <2>5 DEF Durable
    <3> QED BY <3>1, <3>2 DEF LastIsCovered
  <2>6. CASE BodyEnds(w)
    BY <2>4, <2>6 DEF BodyEnds, Sleep, Goto, TypeOK, history
  <2>7. CASE Enter(w)
    BY <2>2, <2>3, <2>5, <2>7 DEF Enter, Sleep, Goto, TypeOK, ReportMissed, ReportSkipped, ReportNothing
  <2> QED BY <1>8, <2>6, <2>7
<1>9. ASSUME NEW w \in Workers, CallFails(w) \/ Crash(w) \/ Stop(w)
      PROVE  BodyRuns' /\ LastIsCovered'
  <2>1. /\ \A v \in Workers : v # w => pc'[v] = pc[v] /\ due'[v] = due[v]
        /\ UNCHANGED <<runs, missed>> /\ pc'[w] # "body" /\ faults' = faults + 1
    BY <1>9 DEF CallFails, Crash, Stop, Sleep, Goto, TypeOK, history, Fault
  <2>2. faults' # 0
    BY <2>1, Constants DEF TypeOK
  <2> QED BY <1>4, <2>1, <2>2 DEF LastIsCovered
<1>10. CASE Tick \/ UNCHANGED vars
  <2>1. UNCHANGED <<last, pc, due, faults, runs, missed, silent>>
    <3>1. CASE Tick
      BY <3>1 DEF Tick, loop, history
    <3>2. CASE UNCHANGED vars
      BY <3>2 DEF vars, loop, history
    <3> QED BY <1>10, <3>1, <3>2
  <2> QED BY <2>1 DEF BodyRuns, LastIsCovered, Durable, Settled, InHand
<1> QED BY <1>6, <1>7, <1>8, <1>9, <1>10 DEF Next, Step

\* Without a backend: the loop runs later and later fires.
LEMMA CronLocalStep ==
  ASSUME CronTaskAssumption, TypeOK, OnTime, OnlyDurable, LocalPast, LocalRunsOnce,
         ~ Durable, [Next]_vars
  PROVE  LocalPast' /\ LocalRunsOnce'
<1>1. /\ now \in 0..MaxTime /\ now \in Nat /\ now <= MaxTime
      /\ runs \in [Workers -> [Fires -> Nat]] /\ ~ Durable'
      /\ \A w \in Workers : due[w] \in Fires /\ wake[w] \in Nat /\ (wake[w] \in Fires \/ wake[w] > now)
      /\ \A f \in Fires : f \in Nat
  BY CronTypesStep, Constants DEF TypeOK
\* The runs stay, and whoever is to run comes after them.
<1>2. ASSUME UNCHANGED runs, now' \in Nat, now' >= now,
             \A w \in Workers, f \in Fires : runs[w][f] > 0 =>
               /\ pc'[w] = "sleep" => f < wake'[w]
               /\ pc'[w] = "enter" => f < due'[w]
      PROVE  LocalPast' /\ LocalRunsOnce'
  BY <1>1, <1>2 DEF LocalPast, LocalRunsOnce
<1>3. \A w \in Workers, f \in Fires : runs[w][f] > 0 =>
        /\ f <= now /\ (pc[w] = "sleep" => f < wake[w]) /\ (pc[w] = "enter" => f < due[w])
  BY DEF LocalPast
<1>4. next_after(now) \in Nat /\ next_after(now) > now
  BY <1>1, NextIsLater, Constants
<1>5. /\ previous_or_equal(now) \in Fires /\ previous_or_equal(now) <= now
      /\ \A f \in Fires : f <= now => f <= previous_or_equal(now)
  BY <1>1, DueIsLatest
<1>6. ASSUME NEW w \in Workers, Sleep(w), UNCHANGED <<now, runs>>
      PROVE  LocalPast' /\ LocalRunsOnce'
  <2>1. ASSUME NEW v \in Workers, NEW f \in Fires, runs[v][f] > 0
        PROVE  (pc'[v] = "sleep" => f < wake'[v]) /\ (pc'[v] = "enter" => f < due'[v])
    <3>1. CASE v = w
      BY <1>1, <1>3, <1>4, <1>6, <2>1, <3>1 DEF Sleep, Goto, TypeOK
    <3>2. CASE v # w
      BY <1>1, <1>3, <1>6, <2>1, <3>2 DEF Sleep, Goto, TypeOK
    <3> QED BY <3>1, <3>2
  <2> QED BY <1>1, <1>2, <1>6, <2>1
<1>7. ASSUME NEW w \in Workers, Start(w)
      PROVE  LocalPast' /\ LocalRunsOnce'
  <2>1. /\ UNCHANGED <<now, runs>> /\ pc' = [pc EXCEPT ![w] = "sleep"]
        /\ wake' = [wake EXCEPT ![w] = next_after(now)]
        /\ \A v \in Workers : v # w => due'[v] = due[v]
    BY <1>7 DEF Start, Evaluate, Goto, history, TypeOK
  <2>2. ASSUME NEW v \in Workers, NEW f \in Fires, runs[v][f] > 0
        PROVE  (pc'[v] = "sleep" => f < wake'[v]) /\ (pc'[v] = "enter" => f < due'[v])
    BY <1>1, <1>3, <1>4, <2>1, <2>2 DEF TypeOK
  <2> QED BY <1>1, <1>2, <2>1, <2>2
<1>8. ASSUME NEW w \in Workers, Wake(w)
      PROVE  LocalPast' /\ LocalRunsOnce'
  <2>1. /\ UNCHANGED <<now, runs, wake>> /\ pc' = [pc EXCEPT ![w] = "enter"]
        /\ due' = [due EXCEPT ![w] = previous_or_equal(now)]
        /\ pc[w] = "sleep" /\ now >= wake[w]
    BY <1>8 DEF Wake, Evaluate, Goto, history, TypeOK
  <2>2. wake[w] <= previous_or_equal(now)
    BY <1>1, <1>5, <2>1
  <2>3. ASSUME NEW v \in Workers, NEW f \in Fires, runs[v][f] > 0
        PROVE  (pc'[v] = "sleep" => f < wake'[v]) /\ (pc'[v] = "enter" => f < due'[v])
    <3>1. CASE v = w
      BY <1>1, <1>3, <1>5, <2>1, <2>2, <2>3, <3>1 DEF TypeOK
    <3>2. CASE v # w
      BY <1>1, <1>3, <2>1, <2>3, <3>2 DEF TypeOK
    <3> QED BY <3>1, <3>2
  <2> QED BY <1>1, <1>2, <2>1, <2>3
<1>9. ASSUME NEW w \in Workers, Enter(w)
      PROVE  LocalPast' /\ LocalRunsOnce'
  <2>1. CASE Sleep(w) /\ UNCHANGED <<now, runs>>
    BY <1>6, <2>1
  <2>2. CASE /\ pc' = [pc EXCEPT ![w] = "body"] /\ UNCHANGED <<now, due, wake>>
             /\ runs' = [runs EXCEPT ![w][due[w]] = @ + 1]
    <3>1. pc[w] = "enter" /\ due[w] <= now /\ due[w] \in Nat
      BY <1>1, <1>9 DEF Enter, OnTime, TypeOK
    <3>2. runs[w][due[w]] = 0
      BY <1>1, <1>3, <3>1
    <3>3. \A v \in Workers, f \in Fires :
            runs'[v][f] = IF v = w /\ f = due[w] THEN 1 ELSE runs[v][f]
      BY <1>1, <2>2, <3>2
    <3>4. LocalRunsOnce'
      BY <1>1, <3>3 DEF LocalRunsOnce
    <3>5. ASSUME NEW v \in Workers, NEW f \in Fires, runs'[v][f] > 0
          PROVE  f <= now' /\ (pc'[v] = "sleep" => f < wake'[v]) /\ (pc'[v] = "enter" => f < due'[v])
      BY <1>1, <1>3, <2>2, <3>1, <3>3, <3>5 DEF TypeOK
    <3> QED BY <3>4, <3>5 DEF LocalPast
  <2> QED BY <1>9, <2>1, <2>2 DEF Enter, Goto
<1>10. ASSUME NEW w \in Workers, BodyEnds(w)
       PROVE  LocalPast' /\ LocalRunsOnce'
  BY <1>6, <1>10 DEF BodyEnds, history
<1>11. ASSUME NEW w \in Workers, Crash(w) \/ Stop(w)
       PROVE  LocalPast' /\ LocalRunsOnce'
  <2>1. pc' = [pc EXCEPT ![w] = "down"] /\ UNCHANGED <<now, due, wake, runs>>
    BY <1>11 DEF Crash, Stop, Goto, history
  <2> QED BY <1>1, <1>2, <1>3, <2>1 DEF TypeOK
<1>12. ASSUME NEW w \in Workers
       PROVE  ~ (Read(w) \/ ClaimBaseline(w) \/ DropLateFire(w) \/ Claim(w) \/ CallFails(w))
  BY DEF Read, ClaimBaseline, DropLateFire, Claim, CallFails, OnlyDurable
<1>13. CASE Tick \/ UNCHANGED vars
  <2>1. UNCHANGED <<pc, due, wake, runs>> /\ (now' = now \/ now' = now + 1)
    <3>1. CASE Tick
      BY <3>1 DEF Tick, loop, history
    <3>2. CASE UNCHANGED vars
      BY <3>2 DEF vars, loop, history
    <3> QED BY <1>13, <3>1, <3>2
  <2> QED BY <1>1, <1>2, <1>3, <2>1
<1> QED BY <1>7, <1>8, <1>9, <1>10, <1>11, <1>12, <1>13 DEF Next, Step

LEMMA CronStep ==
  ASSUME CronTaskAssumption, CronInv, [Next]_vars
  PROVE  CronInv'
<1>1. TypeOK' /\ OnTime' /\ OnlyDurable' /\ (Durable' <=> Durable)
  BY CronTypesStep DEF CronInv
<1>2. SettledIsClaimed' /\ HandsAreApart' /\ AtMostOneOutcome'
  BY CronClaimsStep DEF CronInv
<1>3. BodyRuns' /\ LastIsCovered'
  BY CronCoverStep DEF CronInv
<1>4. CASE ~ Durable
  BY <1>1, <1>2, <1>3, <1>4, CronLocalStep DEF CronInv
<1>5. CASE Durable
  \* Every worker runs a fire once because there is one outcome.
  <2>1. LocalRunsOnce'
    <3>1. TypeOK' /\ AtMostOneOutcome' /\ Durable'
      BY <1>1, <1>2, <1>5
    <3>2. \A f \in Fires, w \in Workers : runs'[w][f] \in Nat /\ missed'[f] \in Nat
      BY <3>1 DEF TypeOK
    <3>3. \A f \in Fires, w \in Workers : runs'[w][f] + missed'[f] <= 1
      BY <3>1 DEF AtMostOneOutcome
    <3> QED BY <3>2, <3>3 DEF LocalRunsOnce
  <2>2. LocalPast'
    BY <1>1, <1>5 DEF LocalPast
  <2> QED BY <1>1, <1>2, <1>3, <2>1, <2>2 DEF CronInv
<1> QED BY <1>4, <1>5

\* What is skipped was claimed, so the last claim covers it.
LEMMA CronInvCovers ==
  ASSUME CronTaskAssumption, CronInv
  PROVE  FiresHaveOneOutcome
<1>1. SkippedIsCovered
  <2> SUFFICES ASSUME Durable, faults = 0, NEW f \in skipped \ {0}
               PROVE  \E g \in Fires : g >= f /\ (Settled(g) \/ InHand(g) \/ g \in silent)
    BY DEF SkippedIsCovered
  <2>1. f \in Nat /\ f <= last /\ last \in Int
    BY Constants DEF CronInv, TypeOK, SettledIsClaimed, NeverFired, NoBackend
  <2>2. last > 0
    BY <2>1
  <2>3. last \in Fires
    BY <2>2 DEF CronInv, TypeOK, NeverFired, NoBackend
  <2> QED BY <2>1, <2>2, <2>3 DEF CronInv, LastIsCovered
<1> QED BY <1>1 DEF CronInv, FiresHaveOneOutcome

\* task/_cron.py: on however many workers, whatever crashes, stalls and loses its answer, a
\* fire of a durable schedule is run or reported missed at most once and by one worker; a
\* worker stands down only for a fire that is covered; and without a backend every worker
\* runs a fire once.
THEOREM FiresRunOnce ==
  ASSUME CronTaskAssumption
  PROVE  Spec => []FiresHaveOneOutcome
<1>1. Init => CronInv
  BY CronInit
<1>2. CronInv /\ [Next]_vars => CronInv'
  BY CronStep
<1>3. CronInv => FiresHaveOneOutcome
  BY CronInvCovers
<1> QED BY <1>1, <1>2, <1>3, PTL DEF Spec

\* task/_cron.py, _claim_and_run: a claim that is won is for a fire later than every fire
\* that was run or dropped before, so a slow worker never goes back.
THEOREM ClaimsNeverGoBack ==
  ASSUME CronTaskAssumption
  PROVE  Spec => NoBacklog
<1>1. Init => CronInv
  BY CronInit
<1>2. CronInv /\ [Next]_vars => CronInv'
  BY CronStep
<1>3. ASSUME CronInv, [Next]_vars, NEW w \in Workers, pc[w] = "claim", pc'[w] = "enter",
             NEW f \in Fires, f >= due[w]
      PROVE  ~ Settled(f)
  <2>1. last \in Int /\ due[w] \in Nat /\ f \in Nat /\ Durable
    BY <1>3, Constants DEF CronInv, TypeOK, OnlyDurable, NeverFired, NoBackend
  <2>2. Wins(w)
    <3>1. ASSUME NEW v \in Workers, v # w, Start(v) \/ Step(v) \/ CallFails(v) \/ Crash(v) \/ Stop(v)
          PROVE  pc'[w] = pc[w]
      BY <1>3, <3>1 DEF CronInv, TypeOK, Start, Step, Wake, Evaluate, Read, ClaimBaseline,
           DropLateFire, Claim, Enter, BodyEnds, CallFails, Crash, Stop, Sleep, Goto
    <3>2. CASE Tick \/ UNCHANGED vars
      <4>1. pc' = pc
        <5>1. CASE Tick
          BY <5>1 DEF Tick, loop
        <5>2. CASE UNCHANGED vars
          BY <5>2 DEF vars, loop
        <5> QED BY <3>2, <5>1, <5>2
      <4> QED BY <1>3, <4>1
    <3>3. CASE Start(w) \/ Step(w) \/ CallFails(w) \/ Crash(w) \/ Stop(w)
      BY <1>3, <3>3 DEF CronInv, TypeOK, Start, Step, Wake, Read, ClaimBaseline,
           DropLateFire, Claim, Enter, BodyEnds, CallFails, Crash, Stop, Sleep, Goto
    <3> QED BY <1>3, <3>1, <3>2, <3>3 DEF Next
  <2> QED BY <1>3, <2>1, <2>2 DEF CronInv, SettledIsClaimed, Wins
<1>4. CronInv /\ [Next]_vars =>
        [\A w \in Workers : pc[w] = "claim" /\ pc'[w] = "enter" =>
           \A f \in Fires : f >= due[w] => ~ Settled(f)]_vars
  BY <1>3
<1> QED BY <1>1, <1>2, <1>4, PTL DEF Spec, NoBacklog

-----------------------------------------------------------------------------
\* The rounds of an interval task.

Rounds ==
  [pc : {"none", "created", "loop", "acquire", "body", "unwind", "sleep", "stopped"},
   held : Int, error : {"none", "would_block", "not_owned", "error", "cancelled"},
   body : BOOLEAN, reports : Nat, cancelling : BOOLEAN, pending : BOOLEAN]

\* What a round has reported, from where it is: nothing before the body ends, then one
\* outcome if the body ran.  A round without a body has met an exception.
Reports(r, kind) ==
  /\ r.reports <= 1
  /\ r.pc \in {"acquire", "body"} => r.reports = 0 /\ r.error = "none"
  /\ r.pc = "acquire" => r.body = FALSE
  /\ r.pc = "body" => r.body = TRUE
  /\ r.pc = "unwind" => /\ r.body = TRUE => r.reports = 1 /\ r.error # "would_block"
                        /\ r.body = FALSE => r.reports = 0 /\ r.error # "none"
  /\ r.pc = "sleep" /\ kind = "every" /\ (r.error # "not_owned" \/ r.body = TRUE) => r.reports = 1

RoundInv == g_job \in [Jobs -> Rounds] /\ \A j \in Jobs : Reports(g_job[j], Kind[j])

\* Parts of a round that change together.
LEMMA RoundParts ==
  ASSUME NEW o \in Rounds
  PROVE  /\ o.reports \in Nat /\ o.held \in Int /\ o.body \in BOOLEAN
         /\ o.error \in {"none", "would_block", "not_owned", "error", "cancelled"}
         /\ \A n \in Int : [o EXCEPT !.held = n] \in Rounds
         /\ \A b \in BOOLEAN : [o EXCEPT !.body = b] \in Rounds
         /\ [o EXCEPT !.pending = FALSE] \in Rounds
         /\ \A n \in Nat : [o EXCEPT !.reports = n] \in Rounds
         /\ \A p \in {"acquire", "body", "unwind", "sleep", "stopped"} : [o EXCEPT !.pc = p] \in Rounds
         /\ \A e \in {"none", "would_block", "not_owned", "error", "cancelled"} :
              [o EXCEPT !.error = e] \in Rounds
<1>1. /\ o.reports \in Nat /\ o.held \in Int /\ o.body \in BOOLEAN
      /\ o.error \in {"none", "would_block", "not_owned", "error", "cancelled"}
  BY DEF Rounds
<1>2. \A n \in Int : [o EXCEPT !.held = n] \in Rounds
  BY DEF Rounds
<1>3. \A b \in BOOLEAN : [o EXCEPT !.body = b] \in Rounds
  BY DEF Rounds
<1>4. [o EXCEPT !.pending = FALSE] \in Rounds
  BY DEF Rounds
<1>5. \A n \in Nat : [o EXCEPT !.reports = n] \in Rounds
  BY DEF Rounds
<1>6. \A p \in {"acquire", "body", "unwind", "sleep", "stopped"} : [o EXCEPT !.pc = p] \in Rounds
  BY DEF Rounds
<1>7. \A e \in {"none", "would_block", "not_owned", "error", "cancelled"} :
        [o EXCEPT !.error = e] \in Rounds
  BY DEF Rounds
<1> QED BY <1>1, <1>2, <1>3, <1>4, <1>5, <1>6, <1>7

\* One round moves and the others stay.
LEMMA RoundMoves ==
  ASSUME RoundInv, NEW x, NEW r \in Rounds, x \in Jobs => Reports(r, Kind[x]),
         g_job' = [g_job EXCEPT ![x] = r]
  PROVE  RoundInv'
<1>1. g_job' \in [Jobs -> Rounds]
  BY DEF RoundInv
<1>2. \A j \in Jobs : g_job'[j] = IF j = x THEN r ELSE g_job[j]
  BY DEF RoundInv
<1> QED BY <1>1, <1>2 DEF RoundInv

LEMMA RoundStep ==
  ASSUME RoundInv, NEW j \in Jobs,
         Group!Steps(j) \/ Group!deliver(j) \/ Group!ready(j) \/ Group!exits_early(j)
  PROVE  RoundInv'
<1> DEFINE o == g_job[j]
<1>1. o \in Rounds /\ Reports(o, Kind[j]) /\ g_job \in [Jobs -> Rounds]
  BY DEF RoundInv
<1> HIDE DEF o
<1>0. /\ o.reports \in Nat /\ o.held \in Int
      /\ o.error \in {"none", "would_block", "not_owned", "error", "cancelled"}
  BY <1>1 DEF Rounds
<1>2. CASE Group!ready(j) \/ Group!exits_early(j) \/ Group!other_loop(j) \/ Group!sleep_or_stop(j)
  <2>1. PICK p \in {"loop", "stopped", "sleep"} :
          /\ g_job' = [g_job EXCEPT ![j] = [o EXCEPT !.pc = p]]
          /\ p = "sleep" => Kind[j] # "every"
    BY <1>1, <1>2 DEF Group!ready, Group!exits_early, Group!other_loop, Group!sleep_or_stop, o
  <2>2. [o EXCEPT !.pc = p] \in Rounds
    BY <1>1 DEF Rounds
  <2>3. Reports([o EXCEPT !.pc = p], Kind[j])
    BY <1>1, <2>1 DEF Rounds, Reports
  <2> QED BY <2>1, <2>2, <2>3, RoundMoves
<1>3. CASE Group!iterate(j)
  <2> DEFINE r == [o EXCEPT !.pc = "acquire", !.held = 0, !.body = FALSE, !.error = "none",
                            !.reports = 0]
  <2>1. g_job' = [g_job EXCEPT ![j] = r]
    BY <1>3 DEF Group!iterate, o
  <2>2. r \in Rounds
    <3>1. [o EXCEPT !.pc = "acquire"] \in Rounds
      BY <1>1, RoundParts
    <3>2. [o EXCEPT !.pc = "acquire", !.held = 0] \in Rounds
      <4>1. 0 \in Int
        OBVIOUS
      <4> QED BY <3>1, <4>1, RoundParts, Zenon
    <3>3. [o EXCEPT !.pc = "acquire", !.held = 0, !.body = FALSE] \in Rounds
      BY <3>2, RoundParts
    <3>4. [o EXCEPT !.pc = "acquire", !.held = 0, !.body = FALSE, !.error = "none"] \in Rounds
      BY <3>3, RoundParts
    <3> QED BY <3>4, RoundParts
  <2>3. Reports(r, Kind[j])
    BY <1>1 DEF Rounds, Reports
  <2> QED BY <2>1, <2>2, <2>3, RoundMoves
<1>4. CASE Group!acquire(j)
  <2>1. o.pc = "acquire"
    BY <1>4 DEF Group!acquire, Group!Runs, o
  <2>2. PICK r :
          /\ g_job' = [g_job EXCEPT ![j] = r]
          /\ \/ r = [o EXCEPT !.held = @ + 1]
             \/ r = [o EXCEPT !.pc = "unwind", !.error = "would_block"]
             \/ r = [o EXCEPT !.pc = "unwind", !.error = "error"]
             \/ r = [o EXCEPT !.pc = "body", !.body = TRUE]
    <3>1. \/ g_job' = [g_job EXCEPT ![j] = [o EXCEPT !.held = @ + 1]]
          \/ g_job' = [g_job EXCEPT ![j] = [o EXCEPT !.pc = "unwind", !.error = "would_block"]]
          \/ g_job' = [g_job EXCEPT ![j] = [o EXCEPT !.pc = "unwind", !.error = "error"]]
          \/ g_job' = [g_job EXCEPT ![j] = [o EXCEPT !.pc = "body", !.body = TRUE]]
      BY <1>1, <1>4 DEF Group!acquire, o
    <3> QED BY <3>1
  <2>3. r \in Rounds
    <3>1. [o EXCEPT !.pc = "unwind"] \in Rounds /\ [o EXCEPT !.pc = "body"] \in Rounds
      BY <1>1, RoundParts
    <3>6. o.held + 1 \in Int
      BY <1>0
    <3>2. CASE r = [o EXCEPT !.held = @ + 1]
      BY <1>1, <3>2, <3>6, RoundParts, Zenon
    <3>3. CASE r = [o EXCEPT !.pc = "unwind", !.error = "would_block"]
      BY <3>1, <3>3, RoundParts
    <3>4. CASE r = [o EXCEPT !.pc = "unwind", !.error = "error"]
      BY <3>1, <3>4, RoundParts
    <3>5. CASE r = [o EXCEPT !.pc = "body", !.body = TRUE]
      BY <3>1, <3>5, RoundParts, Zenon
    <3> QED BY <2>2, <3>2, <3>3, <3>4, <3>5
  <2>4. Reports(r, Kind[j])
    BY <1>1, <2>1, <2>2 DEF Rounds, Reports
  <2> QED BY <2>2, <2>3, <2>4, RoundMoves
<1>5. CASE Group!body_ends(j)
  <2> DEFINE n == o.reports + 1
             r == [o EXCEPT !.pc = "unwind", !.reports = n]
  <2>1. g_job' = [g_job EXCEPT ![j] = r] /\ o.pc = "body"
    BY <1>1, <1>5 DEF Group!body_ends, Group!Runs, o, Rounds
  <2>2. r \in Rounds
    <3>1. [o EXCEPT !.pc = "unwind"] \in Rounds
      BY <1>1, RoundParts
    <3>2. n \in Nat
      BY <1>0
    <3> HIDE DEF n
    <3> QED BY <3>1, <3>2, RoundParts, Zenon
  <2>3. Reports(r, Kind[j])
    BY <1>1, <2>1 DEF Rounds, Reports
  <2> QED BY <2>1, <2>2, <2>3, RoundMoves
<1>6. CASE Group!release(j)
  <2>1. o.pc = "unwind"
    BY <1>6 DEF Group!release, Group!Runs, o
  <2>2. PICK e \in {o.error, "error", "not_owned"} :
          g_job' = [g_job EXCEPT ![j] = [o EXCEPT !.held = @ - 1, !.error = e]]
    BY <1>1, <1>6 DEF Group!release, o
  <2>3. [o EXCEPT !.held = @ - 1, !.error = e] \in Rounds
    <3>1. o.held - 1 \in Int /\ e \in {"none", "would_block", "not_owned", "error", "cancelled"}
      BY <1>0
    <3>2. [o EXCEPT !.held = o.held - 1] \in Rounds
      BY <1>1, <3>1, RoundParts, Zenon
    <3> QED BY <3>1, <3>2, RoundParts, Zenon
  <2>4. Reports([o EXCEPT !.held = @ - 1, !.error = e], Kind[j])
    BY <1>1, <2>1 DEF Rounds, Reports
  <2> QED BY <2>2, <2>3, <2>4, RoundMoves
<1>7. CASE Group!__call__(j)
  <2> DEFINE n == Group!Reported(j)
             p == Group!GoesOn(j)
             r == [o EXCEPT !.pc = p, !.reports = n]
  <2>1. o.pc = "unwind" /\ g_job' = [g_job EXCEPT ![j] = r]
    BY <1>1, <1>7 DEF Group!__call__, Group!Runs, o
  <2>2. /\ o.error = "would_block" => n = o.reports + 1
        /\ o.error = "error" /\ ~ o.body => n = o.reports + 1
        /\ o.error # "would_block" /\ (o.error # "error" \/ o.body) => n = o.reports
    BY DEF Group!Reported, o
  <2>3. p \in {"stopped", "sleep"} /\ (o.error = "cancelled" => p = "stopped")
    BY DEF Group!GoesOn, o
  <2> HIDE DEF n, p
  <2>4. o.error \in {"none", "would_block", "not_owned", "error", "cancelled"} /\ o.reports \in Nat
        /\ o.body \in BOOLEAN
    BY <1>1 DEF Rounds
  <2>5. n \in Nat
    BY <2>2, <2>4
  <2>6. r \in Rounds
    BY <1>1, <2>3, <2>5 DEF Rounds
  <2>7. r.pc = p /\ r.reports = n /\ r.error = o.error /\ r.body = o.body
    BY <1>1 DEF Rounds
  <2>8. n <= 1 /\ (o.error # "cancelled" /\ (o.error # "not_owned" \/ o.body = TRUE) => n = 1)
    <3>1. CASE o.body = TRUE
      BY <1>1, <2>1, <2>2, <2>4, <3>1 DEF Reports
    <3>2. CASE o.body = FALSE
      BY <1>1, <2>1, <2>2, <2>4, <3>2 DEF Reports
    <3> QED BY <2>4, <3>1, <3>2
  <2>9. Reports(r, Kind[j])
    BY <2>3, <2>7, <2>8 DEF Reports
  <2> QED BY <2>1, <2>6, <2>9, RoundMoves
<1>8. CASE Group!deliver(j)
  <2>1. CASE o.pc \in {"created", "loop", "sleep"}
    <3> DEFINE r == [o EXCEPT !.pending = FALSE, !.pc = "stopped"]
    <3>1. g_job' = [g_job EXCEPT ![j] = r]
      BY <1>1, <1>8, <2>1 DEF Group!deliver, o
    <3>2. r \in Rounds
      BY <1>1 DEF Rounds
    <3>3. Reports(r, Kind[j])
      BY <1>1 DEF Rounds, Reports
    <3> QED BY <3>1, <3>2, <3>3, RoundMoves
  <2>2. CASE o.pc \in {"acquire", "body", "unwind"}
    <3> DEFINE n == o.reports + (IF o.pc = "body" THEN 1 ELSE 0)
               R(e) == [o EXCEPT !.pending = FALSE, !.pc = "unwind", !.error = e, !.reports = n]
    <3>0. n \in Nat
      BY <1>0
    <3>1. PICK e \in {"cancelled", "none"} :
            (e = "none" => o.pc = "body") /\ g_job' = [g_job EXCEPT ![j] = R(e)]
      <4>1. PICK e \in {"cancelled"} \cup (IF o.pc = "body" THEN {"none"} ELSE {}) :
              g_job' = [g_job EXCEPT ![j].pending = FALSE, ![j].pc = "unwind", ![j].error = e,
                                     ![j].reports = @ + (IF o.pc = "body" THEN 1 ELSE 0)]
        BY <1>8, <2>2 DEF Group!deliver, o
      <4>2. g_job' = [g_job EXCEPT ![j] = R(e)]
        BY <1>1, <4>1 DEF o, Rounds
      <4>3. e \in {"cancelled", "none"} /\ (e = "none" => o.pc = "body")
        BY <4>1
      <4> QED BY <4>2, <4>3
    <3> DEFINE r == R(e)
    <3>2. r \in Rounds
      <4>1. [o EXCEPT !.pending = FALSE] \in Rounds
        BY <1>1, RoundParts
      <4>2. [o EXCEPT !.pending = FALSE, !.pc = "unwind"] \in Rounds
        BY <4>1, RoundParts
      <4>3. [o EXCEPT !.pending = FALSE, !.pc = "unwind", !.error = e] \in Rounds
        BY <4>2, RoundParts
      <4> HIDE DEF n
      <4> QED BY <3>0, <4>3, RoundParts
    <3>3. Reports(r, Kind[j])
      BY <1>1, <2>2, <3>1 DEF Rounds, Reports
    <3> QED BY <3>1, <3>2, <3>3, RoundMoves
  <2> QED BY <1>8, <2>1, <2>2 DEF Group!deliver, o
<1> QED BY <1>2, <1>3, <1>4, <1>5, <1>6, <1>7, <1>8 DEF Group!Steps

LEMMA RoundInit ==
  ASSUME Group!Init
  PROVE  RoundInv
<1>1. Group!NoJob \in Rounds
  BY DEF Group!NoJob, Rounds
<1>2. \A k : Reports(Group!NoJob, k)
  BY DEF Group!NoJob, Reports
<1> QED BY <1>1, <1>2 DEF Group!Init, RoundInv

LEMMA RoundInvStep ==
  ASSUME RoundInv, [Group!Next]_Group!vars
  PROVE  RoundInv'
<1>1. CASE UNCHANGED g_job
  BY <1>1 DEF RoundInv
<1>2. CASE Group!create_task
  <2>1. PICK x : g_job' = [g_job EXCEPT ![x].pc = "created"]
    BY <1>2 DEF Group!create_task
  <2>2. CASE x \notin Jobs
    BY <2>1, <2>2 DEF RoundInv
  <2>3. CASE x \in Jobs
    <3>1. g_job[x] \in Rounds /\ Reports(g_job[x], Kind[x])
      BY <2>3 DEF RoundInv
    <3>2. [g_job[x] EXCEPT !.pc = "created"] \in Rounds
      BY <3>1 DEF Rounds
    <3>3. Reports([g_job[x] EXCEPT !.pc = "created"], Kind[x])
      BY <3>1 DEF Rounds, Reports
    <3>4. g_job' = [g_job EXCEPT ![x] = [g_job[x] EXCEPT !.pc = "created"]]
      BY <2>1, <2>3 DEF RoundInv
    <3> QED BY <3>2, <3>3, <3>4, RoundMoves
  <2> QED BY <2>2, <2>3
<1>3. ASSUME NEW js, g_job' = Group!Cancelled(js)
      PROVE  RoundInv'
  <2>1. ASSUME NEW j \in Jobs
        PROVE  g_job'[j] \in Rounds /\ Reports(g_job'[j], Kind[j])
    <3>1. g_job[j] \in Rounds /\ Reports(g_job[j], Kind[j])
      BY DEF RoundInv
    <3>2. g_job'[j] = IF j \in js THEN [g_job[j] EXCEPT !.cancelling = TRUE, !.pending = TRUE]
                      ELSE g_job[j]
      BY <1>3 DEF Group!Cancelled
    <3>3. CASE j \notin js
      BY <3>1, <3>2, <3>3
    <3>4. CASE j \in js
      <4>1. g_job'[j] = [g_job[j] EXCEPT !.cancelling = TRUE, !.pending = TRUE]
        BY <3>2, <3>4
      <4>2. g_job'[j] \in Rounds
        BY <3>1, <4>1 DEF Rounds
      <4>3. /\ g_job'[j].pc = g_job[j].pc /\ g_job'[j].error = g_job[j].error
            /\ g_job'[j].body = g_job[j].body /\ g_job'[j].reports = g_job[j].reports
        BY <3>1, <4>1 DEF Rounds
      <4> QED BY <3>1, <4>2, <4>3 DEF Reports
    <3> QED BY <3>3, <3>4
  <2>2. g_job' = [j \in Jobs |-> g_job'[j]]
    BY <1>3 DEF Group!Cancelled
  <2> QED BY <2>1, <2>2 DEF RoundInv
<1>4. ASSUME NEW j \in Jobs,
             Group!Steps(j) \/ Group!deliver(j) \/ Group!ready(j) \/ Group!exits_early(j)
      PROVE  RoundInv'
  BY <1>4, RoundStep
<1>5. CASE Group!__aexit__ \/ Group!_drain
  BY <1>1, <1>3, <1>5 DEF Group!__aexit__, Group!_drain
<1>6. CASE \/ Group!__aenter__ \/ Group!start \/ Group!drain_cancelled \/ Group!exited
           \/ Group!include_router \/ UNCHANGED Group!vars
           \/ \E j \in Jobs, router \in BOOLEAN :
                Group!every(j, router) \/ Group!cron(j, router) \/ Group!add_task(j, router)
  BY <1>1, <1>6 DEF Group!__aenter__, Group!start, Group!drain_cancelled, Group!exited,
       Group!include_router, Group!vars, Group!every, Group!cron, Group!add_task
<1> QED BY <1>2, <1>4, <1>5, <1>6 DEF Group!Next

\* task/_interval.py: a round of an interval task reports one outcome, never two, whether
\* its locks were taken, refused, failed or lost and whenever it is cancelled; the exception
\* is a lock that was lost before the body began.
THEOREM RoundsReportOnce ==
  Group!Spec => []Group!OneOutcomePerFire
<1>1. Group!Init => RoundInv
  BY RoundInit
<1>2. RoundInv /\ [Group!Next]_Group!vars => RoundInv'
  BY RoundInvStep
<1>3. RoundInv => Group!OneOutcomePerFire
  <2> SUFFICES ASSUME RoundInv, NEW j \in Jobs
               PROVE  /\ g_job[j].reports <= 1
                      /\ (/\ Kind[j] = "every" /\ g_job[j].pc = "sleep"
                          /\ ~ (g_job[j].error = "not_owned" /\ ~ g_job[j].body)) => g_job[j].reports = 1
    BY DEF Group!OneOutcomePerFire
  <2>1. g_job[j].body \in BOOLEAN /\ Reports(g_job[j], Kind[j])
    BY DEF RoundInv, Rounds
  <2> QED BY <2>1 DEF Reports
<1> QED BY <1>1, <1>2, <1>3, PTL DEF Group!Spec

-----------------------------------------------------------------------------
\* The group of tasks and the poll of the configuration keep their types.

LEMMA Concatenated ==
  ASSUME NEW S, NEW s \in Seq(S), NEW t \in Seq(S)
  PROVE  s \o t \in Seq(S) /\ Len(s \o t) = Len(s) + Len(t) /\ Len(s) \in Nat /\ Len(t) \in Nat
  OBVIOUS

LEMMA PrimitivesAreCounted ==
  ASSUME NEW o
  PROVE  Len(Group!_build_sync_list(o)) \in Nat
<1> DEFINE S == {"guard", "task_lock", "sync"}
           g == IF o.leader THEN <<"guard">> ELSE <<>>
           t == IF Group!Distributed(o) THEN <<"task_lock">> ELSE <<>>
           s == IF o.sync THEN <<"sync">> ELSE <<>>
<1>1. g \in Seq(S) /\ t \in Seq(S) /\ s \in Seq(S)
  <2>1. \A e \in S : <<e>> \in Seq(S) /\ <<>> \in Seq(S)
    <3> HIDE DEF S
    <3> QED OBVIOUS
  <2>2. "guard" \in S /\ "task_lock" \in S /\ "sync" \in S
    OBVIOUS
  <2> HIDE DEF S
  <2> QED BY <2>1, <2>2
<1>2. Group!_build_sync_list(o) = (g \o t) \o s
  BY Zenon DEF Group!_build_sync_list
<1> HIDE DEF S, g, t, s
<1>3. g \o t \in Seq(S)
  BY <1>1, Concatenated
<1>4. (g \o t) \o s \in Seq(S)
  BY <1>1, <1>3, Concatenated
<1> QED BY <1>2, <1>4

\* What is known of a round whatever its task is, and what the list of its locks bounds.
HeldFits == \A j \in Jobs : g_job[j].held \in 0..Len(Group!Primitives(j))
OwedIsCancelled == \A j \in Jobs : g_job[j].pending => g_job[j].cancelling

\* The tasks in their order, which a task or a router can only extend.
GroupInv ==
  /\ g_graceful \in Graceful
  /\ g_group \in {"closed", "starting", "open", "draining", "leaving", "abandoned"}
  /\ g_tasks \in Seq(Jobs) /\ g_routed \in Seq(Jobs)
  /\ g_next \in 1..(Len(Group!Order) + 1)
  /\ g_included \in BOOLEAN /\ g_started \in BOOLEAN /\ g_stop \in BOOLEAN /\ g_refused \in BOOLEAN
  /\ RoundInv /\ HeldFits /\ OwedIsCancelled

LEMMA GroupInvTypes ==
  ASSUME GroupInv
  PROVE  Group!TypeOK
<1>1. ASSUME NEW j \in Jobs
      PROVE  /\ g_job[j].pc \in {"none", "created", "loop", "acquire", "body", "unwind", "sleep", "stopped"}
             /\ g_job[j].held \in 0..Len(Group!Primitives(j)) /\ g_job[j].reports \in 0..2
             /\ g_job[j].error \in {"none", "would_block", "not_owned", "error", "cancelled"}
             /\ g_job[j].pending => g_job[j].cancelling
  <2>1. g_job[j] \in Rounds /\ g_job[j].reports <= 1
    BY DEF GroupInv, RoundInv, Reports
  <2> QED BY <2>1 DEF GroupInv, HeldFits, OwedIsCancelled, Rounds
<1> QED BY <1>1 DEF GroupInv, Group!TypeOK

\* A list that grows keeps the task that comes next in it.
LEMMA RegistryStep ==
  ASSUME GroupInv,
         \/ Group!include_router
         \/ \E j \in Jobs, router \in BOOLEAN : Group!add_task(j, router)
  PROVE  GroupInv'
<1>1. g_tasks \in Seq(Jobs) /\ g_routed \in Seq(Jobs) /\ g_included \in BOOLEAN
  BY DEF GroupInv
<1>2. /\ g_tasks' \in Seq(Jobs) /\ g_routed' \in Seq(Jobs) /\ g_included' \in BOOLEAN
      /\ Len(g_tasks') >= Len(g_tasks) /\ Len(g_routed') >= Len(g_routed)
      /\ g_included => g_included'
  <2>1. \A t \in Seq(Jobs), j \in Jobs : Append(t, j) \in Seq(Jobs) /\ Len(Append(t, j)) = Len(t) + 1
    OBVIOUS
  <2>2. \A t \in Seq(Jobs) : Len(t) \in Nat
    OBVIOUS
  <2>3. CASE Group!include_router
    BY <1>1, <2>2, <2>3 DEF Group!include_router
  <2>4. ASSUME NEW j \in Jobs, NEW router \in BOOLEAN, Group!add_task(j, router)
        PROVE  /\ g_tasks' \in {g_tasks, Append(g_tasks, j)}
               /\ g_routed' \in {g_routed, Append(g_routed, j)} /\ g_included' = g_included
    BY <2>4, Zenon DEF Group!add_task
  <2>5. ASSUME NEW t \in Seq(Jobs), NEW j \in Jobs, NEW u \in {t, Append(t, j)}
        PROVE  u \in Seq(Jobs) /\ Len(u) >= Len(t)
    BY <2>1, <2>2, <2>5
  <2> QED BY <1>1, <2>3, <2>4, <2>5
<1>3. Len(Group!Order) \in Nat /\ Len(Group!Order)' \in Nat /\ Len(Group!Order)' >= Len(Group!Order)
  <2>1. Len(Group!Order) = IF g_included THEN Len(g_tasks) + Len(g_routed) ELSE Len(g_tasks)
    BY <1>1 DEF Group!Order
  <2>2. Len(Group!Order)' = IF g_included' THEN Len(g_tasks') + Len(g_routed') ELSE Len(g_tasks')
    BY <1>2 DEF Group!Order
  <2>3. /\ Len(g_tasks) \in Nat /\ Len(g_routed) \in Nat
        /\ Len(g_tasks') \in Nat /\ Len(g_routed') \in Nat
    BY <1>1, <1>2
  <2> QED BY <1>2, <2>1, <2>2, <2>3
<1>4. /\ UNCHANGED <<g_graceful, g_group, g_started, g_next, g_stop, g_job, g_refused>>
  BY DEF Group!include_router, Group!add_task
<1>5. g_next' \in 1..(Len(Group!Order)' + 1)
  BY <1>3, <1>4 DEF GroupInv
<1>6. RoundInv' /\ HeldFits' /\ OwedIsCancelled'
  BY <1>4 DEF GroupInv, RoundInv, HeldFits, OwedIsCancelled
<1> QED BY <1>2, <1>4, <1>5, <1>6 DEF GroupInv

\* One round keeps what it holds and what it owes.
LEMMA HeldMoves ==
  ASSUME GroupInv, NEW x \in Jobs, NEW r, r.held \in 0..Len(Group!Primitives(x)),
         r.pending => r.cancelling, g_job' = [g_job EXCEPT ![x] = r]
  PROVE  HeldFits' /\ OwedIsCancelled'
<1>1. \A j \in Jobs : g_job'[j] = IF j = x THEN r ELSE g_job[j]
  BY DEF GroupInv, RoundInv
<1>2. \A j \in Jobs : Group!Primitives(j)' = Group!Primitives(j)
  BY DEF Group!Primitives, Group!_build_sync_list, Group!Distributed
<1> QED BY <1>1, <1>2 DEF GroupInv, HeldFits, OwedIsCancelled

LEMMA HeldStep ==
  ASSUME GroupInv, NEW j \in Jobs,
         Group!Steps(j) \/ Group!deliver(j) \/ Group!ready(j) \/ Group!exits_early(j)
  PROVE  HeldFits' /\ OwedIsCancelled'
<1> DEFINE o == g_job[j]
           n == Len(Group!Primitives(j))
<1>1. o \in Rounds /\ g_job \in [Jobs -> Rounds]
  BY DEF GroupInv, RoundInv
<1>2. n \in Nat
  BY PrimitivesAreCounted DEF Group!Primitives
<1>3. o.held \in 0..n /\ (o.pending => o.cancelling)
  BY DEF GroupInv, HeldFits, OwedIsCancelled
<1>4. \E r : /\ g_job' = [g_job EXCEPT ![j] = r]
             /\ r.held \in 0..n /\ (r.pending => r.cancelling)
  <2> HIDE DEF o, n
  <2>1. CASE Group!ready(j) \/ Group!exits_early(j) \/ Group!other_loop(j) \/ Group!sleep_or_stop(j)
    <3>1. PICK p : g_job' = [g_job EXCEPT ![j] = [o EXCEPT !.pc = p]]
      BY <1>1, <2>1 DEF Group!ready, Group!exits_early, Group!other_loop, Group!sleep_or_stop, o
    <3>2. /\ [o EXCEPT !.pc = p].held = o.held /\ [o EXCEPT !.pc = p].pending = o.pending
          /\ [o EXCEPT !.pc = p].cancelling = o.cancelling
      BY <1>1 DEF Rounds
    <3> QED BY <1>3, <3>1, <3>2
  <2>2. CASE Group!iterate(j)
    <3> DEFINE r == [o EXCEPT !.pc = "acquire", !.held = 0, !.body = FALSE, !.error = "none",
                              !.reports = 0]
    <3>1. g_job' = [g_job EXCEPT ![j] = r]
      BY <2>2 DEF Group!iterate, o
    <3>2. r.held = 0 /\ r.pending = o.pending /\ r.cancelling = o.cancelling
      BY <1>1 DEF Rounds
    <3> HIDE DEF r
    <3>3. r.held \in 0..n
      BY <1>2, <3>2
    <3>4. r.pending => r.cancelling
      BY <1>3, <3>2, Zenon
    <3> QED BY <3>1, <3>3, <3>4
  <2>3. CASE Group!acquire(j) \/ Group!release(j) \/ Group!body_ends(j) \/ Group!__call__(j)
    <3>1. \E r : /\ g_job' = [g_job EXCEPT ![j] = r]
                 /\ r.held = o.held \/ (r.held = o.held + 1 /\ o.held < n)
                                    \/ (r.held = o.held - 1 /\ o.held > 0)
                 /\ r.pending = o.pending /\ r.cancelling = o.cancelling
      <4>1. CASE Group!acquire(j)
        <5> DEFINE up == [o EXCEPT !.held = @ + 1]
                   refused(e) == [o EXCEPT !.pc = "unwind", !.error = e]
                   inside == [o EXCEPT !.pc = "body", !.body = TRUE]
        <5>1. \/ g_job' = [g_job EXCEPT ![j] = up]
              \/ g_job' = [g_job EXCEPT ![j] = refused("would_block")]
              \/ g_job' = [g_job EXCEPT ![j] = refused("error")]
              \/ g_job' = [g_job EXCEPT ![j] = inside]
          BY <1>1, <4>1 DEF Group!acquire, o
        <5>2. \/ o.held < n
              \/ g_job' = [g_job EXCEPT ![j].pc = "body", ![j].body = TRUE]
          BY <4>1, Zenon DEF Group!acquire, o, n
        <5>3. g_job' = [g_job EXCEPT ![j].pc = "body", ![j].body = TRUE]
              => g_job' = [g_job EXCEPT ![j] = inside]
          BY <1>1 DEF o
        <5>4. up.held = o.held + 1 /\ up.pending = o.pending /\ up.cancelling = o.cancelling
          BY <1>1 DEF Rounds
        <5>5. /\ inside.held = o.held /\ inside.pending = o.pending
              /\ inside.cancelling = o.cancelling
          BY <1>1 DEF Rounds
        <5>6. ASSUME NEW e
              PROVE  /\ refused(e).held = o.held /\ refused(e).pending = o.pending
                     /\ refused(e).cancelling = o.cancelling
          BY <1>1 DEF Rounds
        <5> HIDE DEF up, refused, inside
        <5> QED BY <5>1, <5>2, <5>3, <5>4, <5>5, <5>6
      <4>2. CASE Group!release(j)
        <5>1. PICK e \in {o.error, "error", "not_owned"} :
                g_job' = [g_job EXCEPT ![j] = [o EXCEPT !.held = @ - 1, !.error = e]]
          BY <1>1, <4>2 DEF Group!release, o
        <5>3. o.held > 0
          BY <4>2 DEF Group!release, o
        <5>2. /\ [o EXCEPT !.held = @ - 1, !.error = e].held = o.held - 1
              /\ [o EXCEPT !.held = @ - 1, !.error = e].pending = o.pending
              /\ [o EXCEPT !.held = @ - 1, !.error = e].cancelling = o.cancelling
          BY <1>1 DEF Rounds
        <5> QED BY <5>1, <5>2, <5>3
      <4>3. CASE Group!body_ends(j)
        <5>1. g_job' = [g_job EXCEPT ![j] = [o EXCEPT !.pc = "unwind", !.reports = @ + 1]]
          BY <1>1, <4>3 DEF Group!body_ends, o
        <5>2. /\ [o EXCEPT !.pc = "unwind", !.reports = @ + 1].held = o.held
              /\ [o EXCEPT !.pc = "unwind", !.reports = @ + 1].pending = o.pending
              /\ [o EXCEPT !.pc = "unwind", !.reports = @ + 1].cancelling = o.cancelling
          BY <1>1 DEF Rounds
        <5> QED BY <5>1, <5>2
      <4>4. CASE Group!__call__(j)
        <5>1. PICK p, m : g_job' = [g_job EXCEPT ![j] = [o EXCEPT !.pc = p, !.reports = m]]
          BY <1>1, <4>4 DEF Group!__call__, o
        <5>2. /\ [o EXCEPT !.pc = p, !.reports = m].held = o.held
              /\ [o EXCEPT !.pc = p, !.reports = m].pending = o.pending
              /\ [o EXCEPT !.pc = p, !.reports = m].cancelling = o.cancelling
          BY <1>1 DEF Rounds
        <5> QED BY <5>1, <5>2
      <4> QED BY <2>3, <4>1, <4>2, <4>3, <4>4
    <3>2. PICK r : /\ g_job' = [g_job EXCEPT ![j] = r]
                   /\ r.held = o.held \/ (r.held = o.held + 1 /\ o.held < n)
                                      \/ (r.held = o.held - 1 /\ o.held > 0)
                   /\ r.pending = o.pending /\ r.cancelling = o.cancelling
      BY <3>1
    <3>3. r.held \in 0..n
      BY <1>2, <1>3, <3>2
    <3> QED BY <1>3, <3>2, <3>3
  <2>4. CASE Group!deliver(j)
    <3> DEFINE R(p, e, m) == [o EXCEPT !.pending = FALSE, !.pc = p, !.error = e, !.reports = m]
               s == [o EXCEPT !.pending = FALSE, !.pc = "stopped"]
    <3>1. CASE o.pc \in {"created", "loop", "sleep"}
      <4>1. g_job' = [g_job EXCEPT ![j] = s]
        BY <1>1, <2>4, <3>1 DEF Group!deliver, o
      <4>2. s.held = o.held /\ s.pending = FALSE
        BY <1>1 DEF Rounds
      <4> HIDE DEF s
      <4> QED BY <1>3, <4>1, <4>2
    <3>2. CASE o.pc \in {"acquire", "body", "unwind"}
      <4>1. PICK e :
              g_job' = [g_job EXCEPT ![j].pending = FALSE, ![j].pc = "unwind", ![j].error = e,
                                     ![j].reports = @ + (IF o.pc = "body" THEN 1 ELSE 0)]
        BY <2>4, <3>2 DEF Group!deliver, o
      <4> DEFINE r == R("unwind", e, o.reports + (IF o.pc = "body" THEN 1 ELSE 0))
      <4>2. g_job' = [g_job EXCEPT ![j] = r]
        BY <1>1, <4>1 DEF o, Rounds
      <4>3. r.held = o.held /\ r.pending = FALSE
        BY <1>1 DEF Rounds
      <4> HIDE DEF r
      <4> QED BY <1>3, <4>2, <4>3
    <3> QED BY <2>4, <3>1, <3>2 DEF Group!deliver, o
  <2> QED BY <2>1, <2>2, <2>3, <2>4 DEF Group!Steps
<1> HIDE DEF o, n
<1>5. PICK r : /\ g_job' = [g_job EXCEPT ![j] = r]
               /\ r.held \in 0..n /\ (r.pending => r.cancelling)
  BY <1>4
<1> QED BY <1>5, HeldMoves DEF n

LEMMA GroupInit ==
  ASSUME Group!Init
  PROVE  GroupInv
<1>1. g_tasks = <<>> /\ g_routed = <<>> /\ g_included = FALSE /\ g_next = 1
  BY DEF Group!Init
<1>2. g_tasks \in Seq(Jobs) /\ g_routed \in Seq(Jobs) /\ Len(Group!Order) = 0
  BY <1>1 DEF Group!Order
<1>3. \A j \in Jobs : g_job[j].held = 0 /\ g_job[j].pending = FALSE
  BY DEF Group!Init, Group!NoJob
<1>4. HeldFits
  BY <1>3, PrimitivesAreCounted DEF HeldFits, Group!Primitives
<1>5. OwedIsCancelled
  BY <1>3 DEF OwedIsCancelled
<1>6. g_next \in 1..(Len(Group!Order) + 1)
  BY <1>1, <1>2
<1>7. /\ g_graceful \in Graceful /\ g_group = "closed" /\ g_started = FALSE /\ g_stop = FALSE
      /\ g_refused = FALSE
  BY DEF Group!Init
<1> QED BY <1>1, <1>2, <1>4, <1>5, <1>6, <1>7, RoundInit DEF GroupInv

LEMMA GroupStep ==
  ASSUME GroupInv, [Group!Next]_Group!vars
  PROVE  GroupInv'
<1>1. RoundInv'
  BY RoundInvStep DEF GroupInv
<1>2. CASE \/ Group!include_router
           \/ \E j \in Jobs, router \in BOOLEAN :
                Group!every(j, router) \/ Group!cron(j, router) \/ Group!add_task(j, router)
  <2>1. \A j \in Jobs, router \in BOOLEAN :
          Group!every(j, router) \/ Group!cron(j, router) => Group!add_task(j, router)
    BY DEF Group!every, Group!cron
  <2> QED BY <1>2, <2>1, RegistryStep
<1> DEFINE Lists == UNCHANGED <<g_graceful, g_tasks, g_routed, g_included>>
           Booleans == /\ g_started' \in BOOLEAN /\ g_stop' \in BOOLEAN /\ g_refused' \in BOOLEAN
                       /\ g_group' \in {"closed", "starting", "open", "draining", "leaving", "abandoned"}
<1>3. ASSUME Lists, Booleans, HeldFits', OwedIsCancelled',
             g_next' = g_next \/ (g_next <= Len(Group!Order) /\ g_next' = g_next + 1)
      PROVE  GroupInv'
  <2>1. Group!Order' = Group!Order
    BY <1>3 DEF Group!Order
  <2>2. Len(Group!Order) \in Nat
    BY DEF GroupInv, Group!Order
  <2>3. g_next' \in 1..(Len(Group!Order') + 1)
    BY <1>3, <2>1, <2>2 DEF GroupInv
  <2> QED BY <1>1, <1>3, <2>3 DEF GroupInv
<1>4. ASSUME g_job' = g_job
      PROVE  HeldFits' /\ OwedIsCancelled'
  BY <1>4 DEF GroupInv, HeldFits, OwedIsCancelled, Group!Primitives, Group!_build_sync_list,
       Group!Distributed
<1>5. ASSUME NEW js, g_job' = Group!Cancelled(js)
      PROVE  HeldFits' /\ OwedIsCancelled'
  <2>1. ASSUME NEW j \in Jobs
        PROVE  /\ g_job'[j].held = g_job[j].held
               /\ \/ g_job'[j].cancelling = TRUE
                  \/ g_job'[j].pending = g_job[j].pending /\ g_job'[j].cancelling = g_job[j].cancelling
    <3>1. g_job[j] \in Rounds
      BY DEF GroupInv, RoundInv
    <3>2. g_job'[j] = IF j \in js THEN [g_job[j] EXCEPT !.cancelling = TRUE, !.pending = TRUE]
                      ELSE g_job[j]
      BY <1>5 DEF Group!Cancelled
    <3>3. LET r == [g_job[j] EXCEPT !.cancelling = TRUE, !.pending = TRUE] IN
          r.held = g_job[j].held /\ r.cancelling = TRUE
      BY <3>1 DEF Rounds
    <3> QED BY <3>2, <3>3
  <2>2. \A j \in Jobs : Group!Primitives(j)' = Group!Primitives(j)
    BY DEF Group!Primitives, Group!_build_sync_list, Group!Distributed
  <2>3. HeldFits'
    BY <2>1, <2>2 DEF GroupInv, HeldFits
  <2> QED BY <2>1, <2>3, Zenon DEF GroupInv, OwedIsCancelled
<1>6. CASE Group!create_task
  <2>1. Lists /\ Booleans /\ g_next <= Len(Group!Order) /\ g_next' = g_next + 1
    BY <1>6 DEF Group!create_task, Group!registry, GroupInv
  <2>2. g_job' = [g_job EXCEPT ![Group!Order[g_next]].pc = "created"]
    BY <1>6 DEF Group!create_task
  <2>3. CASE Group!Order[g_next] \in Jobs
    <3> DEFINE x == Group!Order[g_next]
    <3>1. g_job[x] \in Rounds /\ g_job' = [g_job EXCEPT ![x] = [g_job[x] EXCEPT !.pc = "created"]]
      BY <2>2, <2>3 DEF GroupInv, RoundInv
    <3> DEFINE r == [g_job[x] EXCEPT !.pc = "created"]
    <3>2. r.held = g_job[x].held /\ r.pending = g_job[x].pending /\ r.cancelling = g_job[x].cancelling
      BY <3>1 DEF Rounds
    <3>3. r.held \in 0..Len(Group!Primitives(x))
      BY <2>3, <3>2 DEF GroupInv, HeldFits
    <3>4. r.pending => r.cancelling
      BY <2>3, <3>2, Zenon DEF GroupInv, OwedIsCancelled
    <3> HIDE DEF r, x
    <3>5. HeldFits' /\ OwedIsCancelled'
      BY <2>3, <3>1, <3>3, <3>4, HeldMoves DEF r, x
    <3> QED BY <1>3, <2>1, <3>5
  <2>4. CASE Group!Order[g_next] \notin Jobs
    <3>1. g_job' = g_job
      BY <2>2, <2>4 DEF GroupInv, RoundInv
    <3> QED BY <1>3, <1>4, <2>1, <3>1
  <2> QED BY <2>3, <2>4
<1>7. CASE Group!__aexit__ \/ Group!_drain
  <2>1. Lists /\ Booleans /\ g_next' = g_next
    BY <1>7 DEF Group!__aexit__, Group!_drain, Group!registry, GroupInv
  <2>2. g_job' = g_job \/ g_job' = Group!Cancelled(Group!Alive)
    BY <1>7 DEF Group!__aexit__, Group!_drain
  <2> QED BY <1>3, <1>4, <1>5, <2>1, <2>2
<1>8. CASE \/ Group!__aenter__ \/ Group!start \/ Group!drain_cancelled \/ Group!exited
           \/ UNCHANGED Group!vars
  <2>1. Lists /\ Booleans /\ g_next' = g_next /\ g_job' = g_job
    BY <1>8 DEF Group!__aenter__, Group!start, Group!drain_cancelled, Group!exited, Group!vars,
         Group!registry, GroupInv
  <2> QED BY <1>3, <1>4, <2>1
<1>9. ASSUME NEW j \in Jobs,
             Group!Steps(j) \/ Group!deliver(j) \/ Group!ready(j) \/ Group!exits_early(j)
      PROVE  GroupInv'
  <2>1. Lists /\ Booleans /\ g_next' = g_next
    <3>1. CASE Group!ready(j) \/ Group!exits_early(j)
      BY <3>1 DEF Group!ready, Group!exits_early, Group!registry, GroupInv
    <3>2. CASE Group!Steps(j) \/ Group!deliver(j)
      <4>1. UNCHANGED Group!Others
        BY <3>2 DEF Group!Steps, Group!deliver, Group!other_loop, Group!iterate, Group!acquire,
             Group!body_ends, Group!release, Group!__call__, Group!sleep_or_stop
      <4> QED BY <4>1 DEF Group!Others, Group!registry, GroupInv
    <3> QED BY <1>9, <3>1, <3>2
  <2> QED BY <1>3, <1>9, <2>1, HeldStep
<1> QED BY <1>2, <1>6, <1>7, <1>8, <1>9 DEF Group!Next

\* What is merged from the mounts names every key, and resolving keeps values.
LEMMA ReloadStep ==
  ASSUME Reloaded!ConfigAssumption, Reloaded!TypeOK, [Reloaded!Next]_Reloaded!vars
  PROVE  Reloaded!TypeOK'
<1> USE DEF Reloaded!TypeOK
<1>1. ASSUME NEW m \in Reloaded!Mapping, NEW i \in Instances
      PROVE  Reloaded!resolve_config_from_mapping(i, m) \in [Fields -> Values]
  <2>1. r_conf[i] \in [Fields -> Values]
    OBVIOUS
  <2>2. ASSUME NEW f \in Fields, Reloaded!Resolved(i, m)[f] # Bad
        PROVE  Reloaded!Resolved(i, m)[f] \in Values
    <3>1. <<i, f>> \in Reloaded!Keys
      BY DEF Reloaded!Keys
    <3>2. m[<<i, f>>] \in Values \cup {Bad, None}
      BY <3>1 DEF Reloaded!Mapping
    <3>3. r_conf[i][f] \in Values
      BY <2>1
    <3> QED BY <2>2, <3>2, <3>3 DEF Reloaded!Resolved, Reloaded!Overrides
  <2>3. CASE \E f \in Fields : Reloaded!Resolved(i, m)[f] = Bad
    BY <2>1, <2>3 DEF Reloaded!resolve_config_from_mapping
  <2>4. CASE \A f \in Fields : Reloaded!Resolved(i, m)[f] # Bad
    <3>1. \A f \in Fields : Reloaded!Resolved(i, m)[f] \in Values
      BY <2>2, <2>4
    <3>2. Reloaded!Resolved(i, m) = [f \in Fields |-> Reloaded!Resolved(i, m)[f]]
      BY DEF Reloaded!Resolved
    <3>3. Reloaded!Resolved(i, m) \in [Fields -> Values]
      BY <3>1, <3>2
    <3> QED BY <2>4, <3>3 DEF Reloaded!resolve_config_from_mapping
  <2> QED BY <2>3, <2>4
<1>2. Reloaded!Nothing \in Reloaded!Mapping
  BY DEF Reloaded!Nothing, Reloaded!Mapping
<1>3. Reloaded!Merged \in Reloaded!Mapping
  <2>1. ASSUME NEW k \in Reloaded!Keys
        PROVE  Reloaded!Merged[k] \in Values \cup {Bad, None}
    <3>1. \A r \in {"secrets", "config"} :
            r_data[r] = None \/ r_data[r][k] \in Values \cup {Bad, None}
      BY DEF Reloaded!Roles, Reloaded!Mapping
    <3> QED BY <3>1 DEF Reloaded!Merged
  <2> QED BY <2>1 DEF Reloaded!Merged, Reloaded!Mapping
<1>4. ASSUME NEW i \in Instances, NEW f \in Fields, NEW v \in Values, Reloaded!reconfigure(i, f, v)
      PROVE  Reloaded!TypeOK'
  BY <1>4 DEF Reloaded!reconfigure, Reloaded!ConfigAssumption
<1>5. CASE Reloaded!__aenter__ \/ Reloaded!_poll \/ Reloaded!__aexit__ \/ UNCHANGED Reloaded!vars
  BY <1>2, <1>5 DEF Reloaded!__aenter__, Reloaded!_poll, Reloaded!__aexit__, Reloaded!vars,
       Reloaded!Begin, Reloaded!ConfigAssumption
<1>6. CASE Reloaded!reconfigure_all
  BY <1>1, <1>3, <1>6 DEF Reloaded!reconfigure_all
<1>7. ASSUME NEW role \in Reloaded!Roles, NEW k \in Reloaded!Keys, Reloaded!_read(role, k)
      PROVE  Reloaded!TypeOK'
  <2>1. r_disk[role][k] \in Values \cup {Bad, None}
    BY <1>7 DEF Reloaded!_read, Reloaded!Mapping
  <2>2. r_reading' \in Reloaded!Mapping
    BY <1>7, <2>1 DEF Reloaded!_read, Reloaded!Mapping
  <2> QED BY <1>7, <2>2 DEF Reloaded!_read
<1>8. ASSUME NEW role \in Reloaded!Roles, Reloaded!load(role) \/ Reloaded!load_fails(role)
      PROVE  Reloaded!TypeOK'
  <2>1. r_pc' \in {"secrets", "apply"} /\ r_reading' \in Reloaded!Mapping /\ r_left' \subseteq Reloaded!Keys
    BY <1>2, <1>8 DEF Reloaded!load, Reloaded!load_fails, Reloaded!Begin, Reloaded!After
  <2>2. {r_last', r_data'} \subseteq [Reloaded!Roles -> Reloaded!Mapping \cup {None}]
    BY <1>8 DEF Reloaded!load, Reloaded!load_fails, Reloaded!Remembered
  <2> QED BY <1>8, <2>1, <2>2 DEF Reloaded!load, Reloaded!load_fails
<1>9. ASSUME NEW role \in Reloaded!Roles, Reloaded!swap(role)
      PROVE  Reloaded!TypeOK'
  <2>1. r_disk' \in [Reloaded!Roles -> Reloaded!Mapping \cup {Unreadable}]
    BY <1>9 DEF Reloaded!swap, Reloaded!ConfigAssumption
  <2> QED BY <1>9, <2>1 DEF Reloaded!swap, Reloaded!ConfigAssumption
<1> QED BY <1>4, <1>5, <1>6, <1>7, <1>8, <1>9 DEF Reloaded!Next

\* task/_cron.py and task/_interval.py: whatever crashes, stalls or is cancelled, a fire has
\* one outcome, of one worker, and a round reports one.
THEOREM OutcomesAreSingle ==
  ASSUME CronTaskAssumption
  PROVE  Spec /\ Group!Spec => []OneOutcomeEach
<1>1. Spec => []FiresHaveOneOutcome
  BY FiresRunOnce
<1>2. FiresHaveOneOutcome /\ Group!OneOutcomePerFire => OneOutcomeEach
  BY DEF OneOutcomeEach
<1> QED BY <1>1, <1>2, RoundsReportOnce, PTL

\* task and config: the loops of a cron task, the group and the rounds of its tasks, and
\* the poll of the configuration keep their types: no list loses the task that comes next,
\* no round releases a lock that it does not hold, and what a reload takes over validates.
THEOREM TasksKeepTypes ==
  ASSUME TasksAssumptions
  PROVE  Spec /\ Group!Spec /\ Reloaded!Spec => []TaskTypes
<1> USE DEF TasksAssumptions
<1>1. Spec => []TypeOK
  <2>1. Init => CronInv
    BY CronInit
  <2>2. CronInv /\ [Next]_vars => CronInv'
    BY CronStep
  <2>3. CronInv => TypeOK
    BY DEF CronInv
  <2> QED BY <2>1, <2>2, <2>3, PTL DEF Spec
<1>2. Group!Spec => []Group!TypeOK
  <2>1. Group!Init => GroupInv
    BY GroupInit
  <2>2. GroupInv /\ [Group!Next]_Group!vars => GroupInv'
    BY GroupStep
  <2>3. GroupInv => Group!TypeOK
    BY GroupInvTypes
  <2> QED BY <2>1, <2>2, <2>3, PTL DEF Group!Spec
<1>3. Reloaded!Spec => []Reloaded!TypeOK
  <2>1. Reloaded!Init => Reloaded!TypeOK
    BY DEF Reloaded!Init, Reloaded!TypeOK, Reloaded!Nothing, Reloaded!Mapping, Reloaded!ConfigAssumption
  <2>2. Reloaded!TypeOK /\ [Reloaded!Next]_Reloaded!vars => Reloaded!TypeOK'
    BY ReloadStep
  <2> QED BY <2>1, <2>2, PTL DEF Reloaded!Spec
<1>4. TypeOK /\ Group!TypeOK /\ Reloaded!TypeOK => TaskTypes
  BY DEF TaskTypes
<1> QED BY <1>1, <1>2, <1>3, <1>4, PTL

=============================================================================
