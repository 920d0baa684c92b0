----------------------------- MODULE LockProofs -----------------------------
(***************************************************************************)
(* Fencing tokens handed to different callers of a `Lock` never coincide,  *)
(* for every set of tasks and threads, every backend that implements       *)
(* LockBackend, and every pattern of lost answers, orphaned requests and   *)
(* recycled callers.                                                       *)
(*                                                                         *)
(* A fencing token is known to a caller through its LockHandle or through  *)
(* an answer still on its way.  The argument: no known token is above the  *)
(* backend's counter (KnownBelowCounter), the counter's current value is   *)
(* known to nobody but the holder (CounterIsHolders), and so a grant,      *)
(* which either bumps the counter or answers the holder, never hands out   *)
(* what somebody else knows (KnownDistinct).                               *)
(*                                                                         *)
(* The markers tell the truth as well: unless a caller lost an answer or   *)
(* left a request behind, its marker and its lease agree up to the moment  *)
(* the next request is served, and then the answer says which of the two   *)
(* still stands (MarkInv).                                                 *)
(***************************************************************************)
EXTENDS Lock, TLAPS

\* The fencing tokens caller t knows of.
Known(t) == {handle[t], req[t].fence} \ {0}

KnownBelowCounter == \A t \in Tokens : handle[t] <= fence /\ req[t].fence <= fence

CounterIsHolders ==
  holder # NoToken =>
    fence # 0 /\ \A t \in Tokens : t # holder => fence \notin Known(t)

KnownDistinct == \A t, u \in Tokens : t # u => Known(t) \cap Known(u) = {}

FenceInv == KnownBelowCounter /\ CounterIsHolders /\ KnownDistinct

IInv == LockTypeOK /\ FenceInv

Requests == [state : Answers \cup {"none", "sent"}, fence : 0..MaxFence]

\* The two constant requests are requests.
LEMMA RequestTypes == NoRequest \in Requests /\ Sent \in Requests /\ Sent # NoRequest
  BY BackendAssumption DEF Requests, NoRequest, Sent, Request

\* Nobody knows a token before the first call.
LEMMA InitIInv == LockInit => IInv
<1> SUFFICES ASSUME LockInit PROVE IInv
  OBVIOUS
<1> USE BackendAssumption, LockAssumption
<1>1. /\ holder \in Tokens \cup {NoToken} /\ fence \in 0..MaxFence
      /\ handle \in [Tokens -> 0..MaxFence] /\ faults \in 0..MaxFaults
      /\ orphan \in [Tokens -> {"none", "acquire", "release"}]
  BY DEF LockInit, Init
<1>s. held \subseteq Tokens /\ reentered \subseteq Tokens /\ burnt \subseteq 1..MaxFence
  BY DEF LockInit
<1>p. pc \in [Tokens -> Methods \cup {"out", "sleep"}]
  BY DEF LockInit
<1>2. req \in [Tokens -> Requests]
  BY RequestTypes DEF LockInit
<1>3. live \in BOOLEAN /\ kept \in [Tokens -> BOOLEAN] /\ unknown \in [Tokens -> BOOLEAN]
  BY DEF LockInit, Init
<1>4. \A t \in Tokens : (pc[t] \in {"out", "sleep"}) <=> (req[t] = NoRequest)
  BY DEF LockInit
<1>5. FenceInv
  BY DEF LockInit, Init, FenceInv, KnownBelowCounter, CounterIsHolders, KnownDistinct, Known, NoRequest, Request
<1> QED BY <1>1, <1>s, <1>p, <1>2, <1>3, <1>4, <1>5, Zenon DEF IInv, LockTypeOK, Requests

-----------------------------------------------------------------------------
\* What `acquire` at the backend does to the counter, the holder and the
\* answer.
LEMMA AcquireEffect ==
  ASSUME LockTypeOK, NEW t \in Tokens, Acquire(t)
  PROVE  /\ holder' \in Tokens \cup {NoToken} /\ live' \in BOOLEAN
         /\ fence' \in 0..MaxFence
         /\ reply'.answer \in {"granted", "refused"}
         /\ \/ /\ holder' = t /\ fence' = fence + 1 /\ reply'.fence = fence + 1
            \/ /\ holder' = t /\ holder = t /\ fence' = fence /\ reply'.fence = fence
            \/ /\ holder' = holder /\ fence' = fence /\ reply'.fence = 0
<1> USE BackendAssumption
<1>1. holder \in Tokens \cup {NoToken} /\ live \in BOOLEAN /\ fence \in 0..MaxFence
  BY DEF LockTypeOK
<1>2. GrantedLive \subseteq BOOLEAN
  BY DEF GrantedLive
<1>3. CASE Mint(t)
  BY <1>1, <1>2, <1>3 DEF Mint, Reply
<1>4. CASE Extend(t)
  BY <1>1, <1>2, <1>4 DEF Extend, Reply
<1>5. CASE Refuse(t)
  BY <1>1, <1>5 DEF Refuse, Reply
<1> QED BY <1>3, <1>4, <1>5 DEF Acquire

\* What `release` at the backend does.
LEMMA ReleaseEffect ==
  ASSUME LockTypeOK, NEW t \in Tokens, TryRelease(t)
  PROVE  /\ holder' \in {holder, NoToken} /\ live' \in BOOLEAN
         /\ fence' = fence
         /\ reply'.answer \in {"released", "not_owned"}
<1>1. live \in BOOLEAN
  BY DEF LockTypeOK
<1>2. CASE Release(t)
  BY <1>2 DEF Release, Reply
<1>3. CASE RefuseRelease(t)
  BY <1>1, <1>3 DEF RefuseRelease, Reply
<1> QED BY <1>2, <1>3 DEF TryRelease


-----------------------------------------------------------------------------

\* Steps that teach nobody a token, and give the lock to nobody new.
LEMMA NothingLearned ==
  ASSUME IInv, holder' \in {holder, NoToken}, fence' = fence,
         \A u \in Tokens : /\ handle'[u] \in {0, handle[u], req[u].fence}
                           /\ req'[u].fence \in {0, req[u].fence}
  PROVE  FenceInv'
<1>1. \A u \in Tokens : Known(u)' \subseteq Known(u)
  BY DEF Known
<1>2. fence \in Nat /\ \A u \in Tokens : handle[u] \in Nat /\ req[u].fence \in Nat
  BY BackendAssumption DEF IInv, LockTypeOK
<1>3. KnownBelowCounter'
  BY <1>2 DEF IInv, FenceInv, KnownBelowCounter
<1>4. CounterIsHolders'
  BY <1>1 DEF IInv, FenceInv, CounterIsHolders
<1>5. KnownDistinct'
  BY <1>1 DEF IInv, FenceInv, KnownDistinct
<1> QED BY <1>3, <1>4, <1>5 DEF FenceInv

\* A served `acquire` teaches its caller a new token, or the holder its own.
LEMMA AcquireLearns ==
  ASSUME IInv, NEW t \in Tokens, Acquire(t), UNCHANGED handle,
         \A u \in Tokens : /\ req'[u].fence \in {req[u].fence, reply'.fence}
                           /\ u # t => req'[u].fence = req[u].fence
  PROVE  FenceInv'
<1>1. /\ fence \in Nat /\ NoToken \notin Tokens /\ holder \in Tokens \cup {NoToken}
      /\ \A u \in Tokens : handle[u] \in Nat /\ req[u].fence \in Nat
  BY BackendAssumption DEF IInv, LockTypeOK
<1>2. \A u \in Tokens : Known(u)' \subseteq Known(u) \cup ({reply'.fence} \ {0})
  BY DEF Known
<1>3. \A u \in Tokens : u # t => Known(u)' = Known(u)
  BY DEF Known
<1>4. \A u \in Tokens : \A f \in Known(u) : f \in Nat /\ f <= fence
  BY <1>1 DEF Known, IInv, FenceInv, KnownBelowCounter
<1>5. CASE holder' = t /\ fence' = fence + 1 /\ reply'.fence = fence + 1
  <2>1. KnownBelowCounter'
    BY <1>1, <1>5 DEF IInv, FenceInv, KnownBelowCounter
  <2>2. CounterIsHolders'
    BY <1>1, <1>3, <1>4, <1>5 DEF CounterIsHolders
  <2>3. KnownDistinct'
    BY <1>1, <1>2, <1>3, <1>4, <1>5 DEF IInv, FenceInv, KnownDistinct
  <2> QED BY <2>1, <2>2, <2>3 DEF FenceInv
<1>6. CASE holder' = t /\ holder = t /\ fence' = fence /\ reply'.fence = fence
  <2>1. KnownBelowCounter'
    BY <1>1, <1>6 DEF IInv, FenceInv, KnownBelowCounter
  <2>2. CounterIsHolders'
    BY <1>1, <1>3, <1>6 DEF IInv, FenceInv, CounterIsHolders
  <2>3. KnownDistinct'
    BY <1>1, <1>2, <1>3, <1>6 DEF IInv, FenceInv, KnownDistinct, CounterIsHolders
  <2> QED BY <2>1, <2>2, <2>3 DEF FenceInv
<1>7. CASE holder' = holder /\ fence' = fence /\ reply'.fence = 0
  BY <1>7, NothingLearned
<1> QED BY <1>5, <1>6, <1>7, AcquireEffect DEF IInv

-----------------------------------------------------------------------------

\* The parts of the type invariant, for steps that change only some of them.
BackendTypes == holder \in Tokens \cup {NoToken} /\ fence \in 0..MaxFence
FlagTypes == live \in BOOLEAN /\ kept \in [Tokens -> BOOLEAN] /\ unknown \in [Tokens -> BOOLEAN]
SetTypes == held \subseteq Tokens /\ reentered \subseteq Tokens /\ burnt \subseteq 1..MaxFence
CallTypes ==
  /\ pc \in [Tokens -> Methods \cup {"out", "sleep"}]
  /\ req \in [Tokens -> Requests]
  /\ \A t \in Tokens : (pc[t] \in {"out", "sleep"}) <=> (req[t] = NoRequest)
OtherTypes ==
  /\ handle \in [Tokens -> 0..MaxFence]
  /\ orphan \in [Tokens -> {"none", "acquire", "release"}]
  /\ faults \in 0..MaxFaults

\* They make up the type invariant.
LEMMA TypeParts ==
  LockTypeOK <=> BackendTypes /\ FlagTypes /\ SetTypes /\ CallTypes /\ OtherTypes
  BY Zenon DEF LockTypeOK, BackendTypes, FlagTypes, SetTypes, CallTypes, OtherTypes, Requests

\* Likewise after a step.
LEMMA TypePartsPrimed ==
  LockTypeOK' <=> (BackendTypes /\ FlagTypes /\ SetTypes /\ CallTypes /\ OtherTypes)'
  BY TypeParts, PTL

\* The client sends a request.
LEMMA SendStep ==
  ASSUME IInv, NEW t \in Tokens, NEW method \in Methods, Send(t, method)
  PROVE  IInv'
<1> USE BackendAssumption, LockAssumption
<1>1. BackendTypes /\ FlagTypes /\ SetTypes /\ CallTypes /\ OtherTypes
  BY TypeParts DEF IInv
<1>2. BackendTypes' /\ OtherTypes'
  BY <1>1 DEF Send, backend, BackendTypes, OtherTypes
<1>3. FlagTypes'
  BY <1>1, Zenon DEF Send, backend, FlagTypes
<1>4. SetTypes'
  BY <1>1 DEF Send, SetTypes
<1>5. CallTypes'
  BY <1>1, RequestTypes DEF Send, CallTypes, Methods
<1>6. FenceInv'
  <2>1. \A u \in Tokens : /\ handle'[u] \in {0, handle[u], req[u].fence}
                          /\ req'[u].fence \in {0, req[u].fence}
    BY <1>1 DEF Send, CallTypes, Sent, Request
  <2> QED BY <2>1, NothingLearned DEF Send, backend
<1> QED BY <1>2, <1>3, <1>4, <1>5, <1>6, TypePartsPrimed DEF IInv

\* A call raises without asking the backend.
LEMMA RaiseStep ==
  ASSUME IInv, NEW t \in Tokens, RaiseReentrant(t) \/ RaiseNotOwned(t)
  PROVE  IInv'
<1> USE BackendAssumption, LockAssumption
<1>0. /\ UNCHANGED <<holder, live, fence, held, pc, req, handle, orphan, kept, unknown, burnt, faults>>
      /\ reentered' \in {reentered \cup {t}, reentered \ {t}}
  BY DEF RaiseReentrant, RaiseNotOwned, backend
<1>1. BackendTypes /\ FlagTypes /\ SetTypes /\ CallTypes /\ OtherTypes
  BY TypeParts DEF IInv
<1>2. BackendTypes' /\ OtherTypes' /\ CallTypes'
  BY <1>0, <1>1 DEF BackendTypes, OtherTypes, CallTypes
<1>3. FlagTypes'
  BY <1>0, <1>1, Zenon DEF FlagTypes
<1>4. SetTypes'
  BY <1>0, <1>1 DEF SetTypes
<1>5. FenceInv'
  BY <1>0 DEF IInv, FenceInv, KnownBelowCounter, CounterIsHolders, KnownDistinct, Known
<1> QED BY <1>2, <1>3, <1>4, <1>5, TypePartsPrimed DEF IInv

\* A call ends, or goes to sleep before its next attempt.
LEMMA LeaveStep ==
  ASSUME IInv, NEW t \in Tokens,
         Granted(t) \/ RefusedAcquire(t) \/ RefusedAtOnce(t) \/ Released(t) \/ CancelSleep(t)
  PROVE  IInv'
<1> USE BackendAssumption, LockAssumption
<1>1. BackendTypes /\ FlagTypes /\ SetTypes /\ CallTypes /\ OtherTypes
  BY TypeParts DEF IInv
<1>2. /\ UNCHANGED <<holder, live, fence, reentered, orphan, kept, unknown, burnt, faults>>
      /\ pc' \in {[pc EXCEPT ![t] = "out"], [pc EXCEPT ![t] = "sleep"]}
      /\ req' = [req EXCEPT ![t] = NoRequest]
      /\ held' \in {held, held \cup {t}, held \ {t}}
      /\ handle' \in {handle, [handle EXCEPT ![t] = req[t].fence], [handle EXCEPT ![t] = 0]}
  BY DEF Granted, RefusedAcquire, RefusedAtOnce, Released, CancelSleep, Leave, backend
<1>3. BackendTypes' /\ OtherTypes'
  BY <1>1, <1>2 DEF BackendTypes, OtherTypes, CallTypes, Requests
<1>4. FlagTypes'
  BY <1>1, <1>2, Zenon DEF FlagTypes
<1>5. SetTypes'
  BY <1>1, <1>2 DEF SetTypes
<1>6. CallTypes'
  BY <1>1, <1>2, RequestTypes DEF CallTypes
<1>7. FenceInv'
  <2>1. \A u \in Tokens : /\ handle'[u] \in {0, handle[u], req[u].fence}
                          /\ req'[u].fence \in {0, req[u].fence}
    BY <1>1, <1>2 DEF CallTypes, OtherTypes, NoRequest, Request
  <2> QED BY <1>2, <2>1, NothingLearned
<1> QED BY <1>3, <1>4, <1>5, <1>6, <1>7, TypePartsPrimed DEF IInv

\* The backend serves a request of a caller that waits for the answer.
LEMMA ServeStep ==
  ASSUME IInv, NEW t \in Tokens, ServeAcquire(t) \/ ServeRelease(t)
  PROVE  IInv'
<1> USE BackendAssumption, LockAssumption
<1>1. BackendTypes /\ FlagTypes /\ SetTypes /\ CallTypes /\ OtherTypes
  BY TypeParts DEF IInv
<1>2. PICK f :
        /\ req[t] = Sent
        /\ req' = [req EXCEPT ![t] = Request(reply'.answer, f)]
        /\ \/ ServeAcquire(t) /\ Acquire(t) /\ f = reply'.fence
           \/ ServeRelease(t) /\ TryRelease(t) /\ f = 0
        /\ UNCHANGED <<held, pc, handle, reentered, orphan, burnt, faults>>
  BY DEF ServeAcquire, ServeRelease
<1>3. /\ BackendTypes' /\ live' \in BOOLEAN
      /\ reply'.answer \in Answers
      /\ f \in 0..MaxFence
  <2>1. CASE Acquire(t) /\ f = reply'.fence
    BY <1>1, <2>1, AcquireEffect DEF IInv, BackendTypes, Answers
  <2>2. CASE TryRelease(t) /\ f = 0
    BY <1>1, <2>2, ReleaseEffect DEF IInv, BackendTypes, Answers
  <2> QED BY <1>2, <2>1, <2>2
<1>4. FlagTypes'
  <2>1. /\ \E b \in BOOLEAN : kept' = [kept EXCEPT ![t] = b]
        /\ \E b \in BOOLEAN : unknown' = [unknown EXCEPT ![t] = b]
    <3>1. (holder' = t /\ live') \in BOOLEAN /\ (orphan[t] # "none") \in BOOLEAN
      OBVIOUS
    <3> QED BY <3>1, Zenon DEF ServeAcquire, ServeRelease
  <2> QED BY <1>1, <1>3, <2>1 DEF FlagTypes
<1>5. SetTypes' /\ OtherTypes'
  BY <1>1, <1>2 DEF SetTypes, OtherTypes
<1>6. CallTypes'
  <2>1. Request(reply'.answer, f) \in Requests /\ Request(reply'.answer, f) # NoRequest
    BY <1>3 DEF Request, Requests, NoRequest, Answers
  <2>2. req[t] # NoRequest
    BY <1>2, RequestTypes
  <2> QED BY <1>1, <1>2, <2>1, <2>2 DEF CallTypes
<1>7. FenceInv'
  <2>1. \A u \in Tokens : u # t => req'[u].fence = req[u].fence
    BY <1>1, <1>2 DEF CallTypes
  <2>2. req'[t].fence = f
    BY <1>1, <1>2 DEF CallTypes, Request
  <2>3. CASE Acquire(t) /\ f = reply'.fence
    BY <1>2, <2>1, <2>2, <2>3, AcquireLearns
  <2>4. CASE TryRelease(t) /\ f = 0
    BY <1>2, <2>1, <2>2, <2>4, ReleaseEffect, NothingLearned DEF IInv
  <2> QED BY <1>2, <2>3, <2>4
<1> QED BY <1>3, <1>4, <1>5, <1>6, <1>7, TypePartsPrimed DEF IInv

\* A request nobody waits for is served, the lease lapses or is vacated.
LEMMA BackendStep ==
  ASSUME IInv, (\E t \in Tokens : ServeOrphan(t)) \/ LeaseLapses \/ BackendVacates
  PROVE  IInv'
<1> USE BackendAssumption, LockAssumption
<1>1. BackendTypes /\ FlagTypes /\ SetTypes /\ CallTypes /\ OtherTypes
  BY TypeParts DEF IInv
<1>2. UNCHANGED <<held, pc, req, handle, reentered, unknown, burnt, faults>>
  BY DEF ServeOrphan, LeaseLapses, BackendVacates, client
<1>3. \/ \E t \in Tokens : Acquire(t)
      \/ holder' \in {holder, NoToken} /\ fence' = fence /\ live' \in BOOLEAN
  <2>1. ASSUME NEW t \in Tokens, TryRelease(t)
        PROVE  holder' \in {holder, NoToken} /\ fence' = fence /\ live' \in BOOLEAN
    BY <2>1, ReleaseEffect DEF IInv
  <2>2. CASE LeaseLapses
    BY <2>2 DEF LeaseLapses, Lapse
  <2>3. CASE BackendVacates
    BY <1>1, <2>3 DEF BackendVacates, Vacate, FlagTypes
  <2> QED BY <2>1, <2>2, <2>3 DEF ServeOrphan
<1>4. BackendTypes' /\ live' \in BOOLEAN
  BY <1>1, <1>3, AcquireEffect DEF IInv, BackendTypes
<1>5. FlagTypes'
  <2>1. kept' \in [Tokens -> BOOLEAN]
    BY <1>1 DEF FlagTypes, ServeOrphan, LeaseLapses, BackendVacates, client
  <2> QED BY <1>1, <1>2, <1>4, <2>1, Zenon DEF FlagTypes
<1>6. SetTypes' /\ CallTypes' /\ OtherTypes'
  <2>1. orphan' \in [Tokens -> {"none", "acquire", "release"}]
    BY <1>1 DEF OtherTypes, ServeOrphan, LeaseLapses, BackendVacates, client
  <2> QED BY <1>1, <1>2, <2>1 DEF SetTypes, CallTypes, OtherTypes
<1>7. FenceInv'
  <2>1. ASSUME NEW t \in Tokens, Acquire(t) PROVE FenceInv'
    BY <1>2, <2>1, AcquireLearns
  <2>2. CASE holder' \in {holder, NoToken} /\ fence' = fence
    BY <1>2, <2>2, NothingLearned
  <2> QED BY <1>3, <2>1, <2>2
<1> QED BY <1>4, <1>5, <1>6, <1>7, TypePartsPrimed DEF IInv

\* A fault: the answer is lost, or the caller ends and its name is recycled.
LEMMA FaultStep ==
  ASSUME IInv, NEW t \in Tokens, Fail(t) \/ End(t)
  PROVE  IInv'
<1> USE BackendAssumption, LockAssumption
<1>1. BackendTypes /\ FlagTypes /\ SetTypes /\ CallTypes /\ OtherTypes
  BY TypeParts DEF IInv
<1>2. /\ UNCHANGED <<holder, live, fence, kept>>
      /\ faults' \in 0..MaxFaults
      /\ \/ UNCHANGED <<pc, req>>
         \/ pc' = [pc EXCEPT ![t] = "out"] /\ req' = [req EXCEPT ![t] = NoRequest]
      /\ handle' \in {handle, [handle EXCEPT ![t] = 0]}
  BY <1>1 DEF Fail, End, HeldAfterEnd, Fault, backend, OtherTypes
<1>3. orphan' \in [Tokens -> {"none", "acquire", "release"}]
  BY <1>1 DEF Fail, End, HeldAfterEnd, OtherTypes
<1>4. BackendTypes' /\ OtherTypes'
  BY <1>1, <1>2, <1>3 DEF BackendTypes, OtherTypes
<1>5. unknown' \in [Tokens -> BOOLEAN]
  <2>1. \E b \in BOOLEAN : unknown' = [unknown EXCEPT ![t] = b]
    BY Zenon DEF Fail, End, HeldAfterEnd
  <2> QED BY <1>1, <2>1 DEF FlagTypes
<1>6. FlagTypes'
  BY <1>1, <1>2, <1>5, Zenon DEF FlagTypes
<1>7. SetTypes'
  <2>1. /\ held' \subseteq held /\ reentered' \subseteq reentered
        /\ burnt' \subseteq burnt \cup ({handle[t]} \ {0})
    BY DEF Fail, End, HeldAfterEnd
  <2>2. {handle[t]} \ {0} \subseteq 1..MaxFence
    BY <1>1 DEF OtherTypes
  <2> QED BY <1>1, <2>1, <2>2, Zenon DEF SetTypes
<1>8. CallTypes'
  BY <1>1, <1>2, RequestTypes DEF CallTypes
<1>9. FenceInv'
  <2>1. \A u \in Tokens : /\ handle'[u] \in {0, handle[u], req[u].fence}
                          /\ req'[u].fence \in {0, req[u].fence}
    BY <1>1, <1>2 DEF CallTypes, OtherTypes, NoRequest, Request
  <2> QED BY <1>2, <2>1, NothingLearned
<1> QED BY <1>4, <1>6, <1>7, <1>8, <1>9, TypePartsPrimed DEF IInv

-----------------------------------------------------------------------------

\* Every step preserves the inductive invariant.
LEMMA NextIInv == IInv /\ [LockNext]_allVars => IInv'
<1> SUFFICES ASSUME IInv, [LockNext]_allVars PROVE IInv'
  OBVIOUS
<1>1. CASE UNCHANGED allVars
  <2>1. LockTypeOK'
    BY <1>1, Zenon DEF allVars, backend, client, IInv, LockTypeOK
  <2>2. FenceInv'
    BY <1>1 DEF allVars, backend, client, IInv, FenceInv, KnownBelowCounter,
                CounterIsHolders, KnownDistinct, Known
  <2> QED BY <2>1, <2>2 DEF IInv
<1>2. ASSUME NEW t \in Tokens, acquire(t) \/ acquire_nowait(t) \/ extend(t) \/ release(t) \/ Retry(t)
      PROVE  IInv'
  <2>1. \/ RaiseReentrant(t) \/ RaiseNotOwned(t)
        \/ \E method \in Methods : Send(t, method)
    BY <1>2 DEF acquire, acquire_nowait, extend, release, Retry, Methods
  <2> QED BY <2>1, RaiseStep, SendStep
<1>3. ASSUME NEW t \in Tokens,
             \/ Granted(t) \/ RefusedAcquire(t) \/ RefusedAtOnce(t) \/ Released(t)
             \/ CancelSleep(t) \/ Backend(t) \/ Fail(t) \/ End(t)
      PROVE  IInv'
  BY <1>3, LeaveStep, ServeStep, FaultStep DEF Backend
<1>4. CASE (\E t \in Tokens : ServeOrphan(t)) \/ LeaseLapses \/ BackendVacates
  BY <1>4, BackendStep
<1> QED BY <1>1, <1>2, <1>3, <1>4 DEF LockNext, Resume

\* The inductive invariant holds in every reachable state.
THEOREM Invariance == LockSpec => []IInv
  BY InitIInv, NextIInv, PTL DEF LockSpec

\* The variables keep their types.
THEOREM TypeCorrect == LockSpec => []LockTypeOK
<1>1. IInv => LockTypeOK
  BY DEF IInv
<1> QED BY <1>1, Invariance, PTL

\* Two callers never hold a LockHandle with the same fencing token.
THEOREM FencingIsExclusive == LockSpec => []FencingTokensDistinct
<1>1. IInv => FencingTokensDistinct
  BY DEF IInv, FenceInv, KnownDistinct, Known, FencingTokensDistinct
<1> QED BY <1>1, Invariance, PTL

-----------------------------------------------------------------------------
\* The markers.

\* The backend has t as the live holder.
Holds(t) == holder = t /\ live

\* What is true of a caller that may not be wrong about its last request: the
\* marker and the lease agree up to the moment a request is served, an answer
\* that grants tells whether the lease is still the caller's, and any other
\* answer that it is not.
Tracked(t) ==
  ~ unknown[t] =>
    /\ req[t].state \in {"none", "sent"} => ((t \in held /\ kept[t]) <=> Holds(t))
    /\ req[t].state = "granted" => (kept[t] <=> Holds(t))
    /\ req[t].state \in {"refused", "released", "not_owned"} => ~ kept[t] /\ ~ Holds(t)

\* A request still travelling makes its caller unsure.
OrphanUnknown(t) == orphan[t] # "none" => unknown[t]

\* A task with a marker has a LockHandle, one that a grant made, and a call that
\* re-entered has ended.
Backed(t) ==
  /\ req[t].state = "granted" => req[t].fence # 0
  /\ t \in Tasks /\ t \in held => handle[t] # 0
  /\ t \in reentered => pc[t] = "out" /\ (t \in Tasks => t \in held)

Mark(t) == Tracked(t) /\ OrphanUnknown(t) /\ Backed(t)

MarkInv == \A t \in Tokens : Mark(t)

\* Steps that leave a caller and its lease alone.
LEMMA MarkFrame ==
  ASSUME NEW u \in Tokens, Mark(u), Holds(u)' <=> Holds(u),
         unknown'[u] = unknown[u], kept'[u] = kept[u], req'[u] = req[u], orphan'[u] = orphan[u],
         handle'[u] = handle[u], pc'[u] = pc[u],
         u \in held' <=> u \in held, u \in reentered' <=> u \in reentered
  PROVE  Mark(u)'
<1>1. Tracked(u)'
  BY DEF Mark, Tracked
<1>2. OrphanUnknown(u)'
  BY DEF Mark, OrphanUnknown
<1>3. Backed(u)'
  BY DEF Mark, Backed
<1> QED BY <1>1, <1>2, <1>3 DEF Mark

\* A backend call by one caller does not touch the lease of another.
LEMMA LeaseOfOthers ==
  ASSUME NEW t \in Tokens, NEW u \in Tokens, u # t, Acquire(t) \/ TryRelease(t)
  PROVE  Holds(u)' <=> Holds(u)
<1>0. NoToken # u
  BY BackendAssumption
<1>1. CASE Mint(t)
  BY <1>1 DEF Mint, Holds
<1>2. CASE Extend(t) \/ Release(t)
  BY <1>0, <1>2 DEF Extend, Release, Holds
<1>3. CASE Refuse(t)
  BY <1>3 DEF Refuse, Holds
<1>4. CASE RefuseRelease(t)
  BY <1>0, <1>4 DEF RefuseRelease, Holds
<1> QED BY <1>1, <1>2, <1>3, <1>4 DEF Acquire, TryRelease

\* A call that is made, raises or ends.
LEMMA MarkCall ==
  ASSUME IInv, MarkInv, NEW t \in Tokens,
         \/ acquire(t) \/ acquire_nowait(t) \/ extend(t) \/ release(t) \/ Retry(t)
         \/ Granted(t) \/ RefusedAcquire(t) \/ RefusedAtOnce(t) \/ Released(t) \/ CancelSleep(t)
  PROVE  MarkInv'
<1>0. /\ CallTypes /\ OtherTypes /\ SetTypes /\ Mark(t)
  BY TypeParts DEF IInv, MarkInv
<1>a. UNCHANGED <<holder, live, orphan, kept, unknown>>
  BY DEF acquire, acquire_nowait, extend, release, Retry, RaiseReentrant, RaiseNotOwned, Send,
         Granted, RefusedAcquire, RefusedAtOnce, Released, CancelSleep, Leave, backend
<1>b. ASSUME NEW u \in Tokens PROVE Holds(u)' <=> Holds(u)
  BY <1>a DEF Holds
<1>1. CASE acquire(t) \/ acquire_nowait(t) \/ extend(t) \/ release(t) \/ Retry(t)
  <2>1. UNCHANGED <<held, handle>>
    BY <1>1 DEF acquire, acquire_nowait, extend, release, Retry, RaiseReentrant, RaiseNotOwned, Send
  <2>2. CASE \E method \in Methods : Send(t, method)
    <3>1. PICK method \in Methods : Send(t, method)
      BY <2>2
    <3>2. /\ pc' = [pc EXCEPT ![t] = method] /\ req' = [req EXCEPT ![t] = Sent]
          /\ reentered' = reentered \ {t}
      BY <3>1 DEF Send
    <3>3. req[t] = NoRequest
      BY <1>0, <1>1 DEF acquire, acquire_nowait, extend, release, Retry, CallTypes
    <3>4. req'[t].state = "sent" /\ req[t].state = "none"
      BY <1>0, <3>2, <3>3 DEF CallTypes, Sent, NoRequest, Request
    <3>5. Tracked(t)'
      BY <1>0, <1>a, <1>b, <2>1, <3>4 DEF Mark, Tracked
    <3>6. OrphanUnknown(t)' /\ Backed(t)'
      BY <1>0, <1>a, <2>1, <3>2, <3>4 DEF Mark, OrphanUnknown, Backed
    <3>7. ASSUME NEW u \in Tokens, u # t PROVE Mark(u)'
      <4>1. /\ pc'[u] = pc[u] /\ req'[u] = req[u]
            /\ u \in reentered' <=> u \in reentered
        BY <1>0, <3>2, <3>7 DEF CallTypes
      <4> QED BY <1>a, <1>b, <2>1, <4>1, MarkFrame DEF MarkInv
    <3> QED BY <3>5, <3>6, <3>7 DEF Mark, MarkInv
  <2>3. CASE (pc[t] = "out" /\ t \in held /\ RaiseReentrant(t)) \/ RaiseNotOwned(t)
    <3>1. UNCHANGED <<pc, req>>
      BY <2>3 DEF RaiseReentrant, RaiseNotOwned
    <3>2. \/ reentered' = reentered \ {t}
          \/ reentered' = reentered \cup {t} /\ pc[t] = "out" /\ t \in held
      BY <2>3 DEF RaiseReentrant, RaiseNotOwned
    <3>3. Tracked(t)'
      BY <1>0, <1>a, <1>b, <2>1, <3>1 DEF Mark, Tracked
    <3>4. OrphanUnknown(t)' /\ Backed(t)'
      BY <1>0, <1>a, <2>1, <3>1, <3>2 DEF Mark, OrphanUnknown, Backed
    <3>5. ASSUME NEW u \in Tokens, u # t PROVE Mark(u)'
      BY <1>a, <1>b, <2>1, <3>1, <3>2, <3>5, MarkFrame DEF MarkInv
    <3> QED BY <3>3, <3>4, <3>5 DEF Mark, MarkInv
  <2> QED BY <1>1, <2>2, <2>3 DEF acquire, acquire_nowait, extend, release, Retry, Methods
<1>2. CASE Granted(t) \/ RefusedAcquire(t) \/ RefusedAtOnce(t) \/ Released(t) \/ CancelSleep(t)
  <2>1. /\ pc' \in {[pc EXCEPT ![t] = "out"], [pc EXCEPT ![t] = "sleep"]}
        /\ req' = [req EXCEPT ![t] = NoRequest] /\ reentered' = reentered
        /\ \/ /\ req[t].state = "granted" /\ held' = held \cup {t}
              /\ handle' = [handle EXCEPT ![t] = req[t].fence]
           \/ /\ req[t].state = "refused" \/ pc[t] = "sleep"
              /\ held' = held /\ handle' = handle
           \/ /\ req[t].state \in {"released", "not_owned"} /\ held' = held \ {t}
              /\ handle' = [handle EXCEPT ![t] = 0]
    BY <1>2 DEF Granted, RefusedAcquire, RefusedAtOnce, Released, CancelSleep, Leave
  <2>2. pc[t] = "sleep" => req[t].state = "none"
    BY <1>0 DEF CallTypes, NoRequest, Request
  <2>3. pc[t] # "out" /\ t \notin reentered
    <3>1. req[t].state # "none" => req[t] # NoRequest
      BY DEF NoRequest, Request
    <3> QED BY <1>0, <2>1, <3>1 DEF CallTypes, Mark, Backed
  <2>4. req'[t].state = "none" /\ req'[t].fence = 0
    BY <1>0, <2>1 DEF CallTypes, NoRequest, Request
  <2>5. /\ t \in held' => \/ req[t].state = "granted" /\ handle'[t] = req[t].fence
                          \/ t \in held /\ handle'[t] = handle[t]
        /\ t \in held' \/ req[t].state \in {"released", "not_owned"} \/ t \notin held
    BY <1>0, <2>1 DEF OtherTypes
  <2>6. Tracked(t)'
    <3>1. CASE req[t].state = "granted"
      <4>1. t \in held'
        BY <2>1, <2>2, <3>1
      <4> QED BY <1>0, <1>a, <1>b, <2>4, <3>1, <4>1 DEF Mark, Tracked
    <3>2. CASE req[t].state \in {"refused", "released", "not_owned"}
      BY <1>0, <1>a, <1>b, <2>4, <3>2 DEF Mark, Tracked
    <3>3. CASE pc[t] = "sleep"
      <4>1. held' = held
        BY <2>1, <2>2, <3>3
      <4> QED BY <1>0, <1>a, <1>b, <2>2, <2>4, <3>3, <4>1 DEF Mark, Tracked
    <3> QED BY <2>1, <3>1, <3>2, <3>3
  <2>7. OrphanUnknown(t)' /\ Backed(t)'
    BY <1>0, <1>a, <2>1, <2>3, <2>4, <2>5 DEF Mark, OrphanUnknown, Backed
  <2>8. ASSUME NEW u \in Tokens, u # t PROVE Mark(u)'
    <3>1. /\ pc'[u] = pc[u] /\ req'[u] = req[u] /\ handle'[u] = handle[u]
          /\ u \in held' <=> u \in held
      BY <1>0, <2>1, <2>8 DEF CallTypes, OtherTypes
    <3> QED BY <1>a, <1>b, <2>1, <3>1, MarkFrame DEF MarkInv
  <2> QED BY <2>6, <2>7, <2>8 DEF Mark, MarkInv
<1> QED BY <1>1, <1>2

\* A request that is served tells its caller how things stand.
LEMMA MarkServe ==
  ASSUME IInv, MarkInv, NEW t \in Tokens, ServeAcquire(t) \/ ServeRelease(t)
  PROVE  MarkInv'
<1>0. /\ CallTypes /\ FlagTypes /\ BackendTypes /\ Mark(t) /\ CounterIsHolders
  BY TypeParts DEF IInv, MarkInv, FenceInv
<1>1. UNCHANGED <<held, pc, handle, reentered, orphan>>
  BY DEF ServeAcquire, ServeRelease
<1>2. unknown' = [unknown EXCEPT ![t] = (orphan[t] # "none")]
  BY DEF ServeAcquire, ServeRelease
<1>3. OrphanUnknown(t)'
  BY <1>0, <1>1, <1>2 DEF FlagTypes, OrphanUnknown
<1>4. pc[t] # "out"
  BY <1>0, RequestTypes DEF ServeAcquire, ServeRelease, CallTypes
<1>5. CASE ServeAcquire(t)
  <2>1. /\ Acquire(t) /\ req' = [req EXCEPT ![t] = Request(reply'.answer, reply'.fence)]
        /\ kept' = [kept EXCEPT ![t] = (holder' = t /\ live')]
    BY <1>5 DEF ServeAcquire
  <2>2. req'[t].state = reply'.answer /\ req'[t].fence = reply'.fence
    BY <1>0, <2>1 DEF CallTypes, Request
  <2>3. kept'[t] <=> Holds(t)'
    BY <1>0, <2>1 DEF FlagTypes, Holds
  <2>4. \/ reply'.answer = "granted" /\ reply'.fence # 0
        \/ reply'.answer = "refused" /\ ~ Holds(t)'
    <3>1. CASE Mint(t)
      BY <1>0, <3>1, BackendAssumption DEF Mint, Reply, BackendTypes
    <3>2. CASE Extend(t)
      BY <1>0, <3>2, BackendAssumption DEF Extend, Reply, CounterIsHolders
    <3>3. CASE Refuse(t)
      BY <3>3 DEF Refuse, Reply, Holds
    <3> QED BY <2>1, <3>1, <3>2, <3>3 DEF Acquire
  <2>5. Tracked(t)'
    BY <2>2, <2>3, <2>4 DEF Tracked
  <2>6. Backed(t)'
    BY <1>0, <1>1, <1>4, <2>2, <2>4 DEF Mark, Backed
  <2>7. ASSUME NEW u \in Tokens, u # t PROVE Mark(u)'
    <3>1. req'[u] = req[u] /\ kept'[u] = kept[u] /\ unknown'[u] = unknown[u]
      BY <1>0, <1>2, <2>1, <2>7 DEF CallTypes, FlagTypes
    <3>2. Holds(u)' <=> Holds(u)
      BY <2>1, <2>7, LeaseOfOthers
    <3> QED BY <1>1, <3>1, <3>2, MarkFrame DEF MarkInv
  <2> QED BY <1>3, <2>5, <2>6, <2>7 DEF Mark, MarkInv
<1>6. CASE ServeRelease(t)
  <2>1. /\ TryRelease(t) /\ req' = [req EXCEPT ![t] = Request(reply'.answer, 0)]
        /\ kept' = [kept EXCEPT ![t] = FALSE]
    BY <1>6 DEF ServeRelease
  <2>2. req'[t].state = reply'.answer
    BY <1>0, <2>1 DEF CallTypes, Request
  <2>3. ~ kept'[t]
    BY <1>0, <2>1 DEF FlagTypes
  <2>4. reply'.answer \in {"released", "not_owned"} /\ ~ Holds(t)'
    <3>1. CASE Release(t)
      BY <3>1, BackendAssumption DEF Release, Reply, Holds
    <3>2. CASE RefuseRelease(t)
      BY <3>2, BackendAssumption DEF RefuseRelease, Reply, Holds
    <3> QED BY <2>1, <3>1, <3>2 DEF TryRelease
  <2>5. Tracked(t)'
    BY <2>2, <2>3, <2>4 DEF Tracked
  <2>6. Backed(t)'
    BY <1>0, <1>1, <1>4, <2>2, <2>4 DEF Mark, Backed
  <2>7. ASSUME NEW u \in Tokens, u # t PROVE Mark(u)'
    <3>1. req'[u] = req[u] /\ kept'[u] = kept[u] /\ unknown'[u] = unknown[u]
      BY <1>0, <1>2, <2>1, <2>7 DEF CallTypes, FlagTypes
    <3>2. Holds(u)' <=> Holds(u)
      BY <2>1, <2>7, LeaseOfOthers
    <3> QED BY <1>1, <3>1, <3>2, MarkFrame DEF MarkInv
  <2> QED BY <1>3, <2>5, <2>6, <2>7 DEF Mark, MarkInv
<1> QED BY <1>5, <1>6

\* A request nobody waits for is served: whoever sent it knew nothing.
LEMMA MarkOrphan ==
  ASSUME IInv, MarkInv, NEW t \in Tokens, ServeOrphan(t)
  PROVE  MarkInv'
<1>0. OtherTypes /\ Mark(t)
  BY TypeParts DEF IInv, MarkInv
<1>1. /\ UNCHANGED <<held, pc, req, handle, reentered, kept, unknown>>
      /\ orphan[t] # "none" /\ orphan' = [orphan EXCEPT ![t] = "none"]
      /\ Acquire(t) \/ TryRelease(t)
  BY DEF ServeOrphan
<1>2. unknown[t] /\ orphan'[t] = "none"
  BY <1>0, <1>1 DEF Mark, OrphanUnknown, OtherTypes
<1>3. Tracked(t)' /\ OrphanUnknown(t)'
  BY <1>1, <1>2 DEF Tracked, OrphanUnknown
<1>4. Backed(t)'
  BY <1>0, <1>1 DEF Mark, Backed
<1>5. ASSUME NEW u \in Tokens, u # t PROVE Mark(u)'
  <2>1. orphan'[u] = orphan[u]
    BY <1>0, <1>1, <1>5 DEF OtherTypes
  <2>2. Holds(u)' <=> Holds(u)
    BY <1>1, <1>5, LeaseOfOthers
  <2> QED BY <1>1, <2>1, <2>2, MarkFrame DEF MarkInv
<1> QED BY <1>3, <1>4, <1>5 DEF Mark, MarkInv

\* A lease that lapses is nobody's, and nobody takes it for theirs.
LEMMA MarkLapse ==
  ASSUME IInv, MarkInv, LeaseLapses \/ BackendVacates
  PROVE  MarkInv'
<1>1. CASE LeaseLapses
  <2>1. /\ UNCHANGED <<held, pc, req, handle, reentered, orphan, unknown>>
        /\ kept' = [t \in Tokens |-> FALSE] /\ live' = FALSE
    BY <1>1 DEF LeaseLapses, Lapse
  <2> SUFFICES ASSUME NEW u \in Tokens PROVE Mark(u)'
    BY DEF MarkInv
  <2>2. ~ kept'[u] /\ ~ Holds(u)'
    BY <2>1 DEF Holds
  <2>3. Tracked(u)'
    BY <2>2 DEF Tracked
  <2>4. OrphanUnknown(u)' /\ Backed(u)'
    BY <2>1 DEF MarkInv, Mark, OrphanUnknown, Backed
  <2> QED BY <2>3, <2>4 DEF Mark
<1>2. CASE BackendVacates
  <2>1. UNCHANGED <<held, pc, req, handle, reentered, orphan, kept, unknown>> /\ ~ live /\ ~ live'
    BY <1>2 DEF BackendVacates, Vacate, client
  <2>2. ASSUME NEW u \in Tokens PROVE Holds(u)' <=> Holds(u)
    BY <2>1 DEF Holds
  <2> QED BY <2>1, <2>2, MarkFrame DEF MarkInv
<1> QED BY <1>1, <1>2

\* A caller that lost an answer is unsure, and so is one that takes the name of
\* a caller that ended with the lock.
LEMMA MarkFault ==
  ASSUME IInv, MarkInv, NEW t \in Tokens, Fail(t) \/ End(t)
  PROVE  MarkInv'
<1>0. /\ CallTypes /\ FlagTypes /\ OtherTypes /\ SetTypes /\ Mark(t)
  BY TypeParts DEF IInv, MarkInv
<1>1. UNCHANGED <<holder, live, kept>>
  BY DEF Fail, End, backend
<1>2. ASSUME NEW u \in Tokens PROVE Holds(u)' <=> Holds(u)
  BY <1>1 DEF Holds
<1>3. CASE Fail(t)
  <2>1. /\ UNCHANGED <<held, handle, reentered>> /\ req[t] # NoRequest
        /\ pc' = [pc EXCEPT ![t] = "out"] /\ req' = [req EXCEPT ![t] = NoRequest]
        /\ unknown' = [unknown EXCEPT ![t] = TRUE]
        /\ \E o \in {"none", "acquire", "release"} : orphan' = [orphan EXCEPT ![t] = o]
    BY <1>3 DEF Fail
  <2>2. unknown'[t] /\ req'[t].state = "none" /\ pc[t] # "out" /\ pc'[t] = "out"
    BY <1>0, <2>1 DEF FlagTypes, CallTypes, NoRequest, Request
  <2>3. Tracked(t)' /\ OrphanUnknown(t)'
    BY <2>2 DEF Tracked, OrphanUnknown
  <2>4. Backed(t)'
    BY <1>0, <2>1, <2>2 DEF Mark, Backed
  <2>5. ASSUME NEW u \in Tokens, u # t PROVE Mark(u)'
    <3>1. /\ pc'[u] = pc[u] /\ req'[u] = req[u] /\ unknown'[u] = unknown[u]
          /\ orphan'[u] = orphan[u]
      BY <1>0, <2>1, <2>5 DEF CallTypes, FlagTypes, OtherTypes
    <3> QED BY <1>1, <1>2, <2>1, <3>1, MarkFrame DEF MarkInv
  <2> QED BY <2>3, <2>4, <2>5 DEF Mark, MarkInv
<1>4. CASE End(t)
  <2>1. /\ UNCHANGED <<pc, req, orphan>>
        /\ held' = IF t \in Tasks THEN held \ {t} ELSE held
        /\ handle' = [handle EXCEPT ![t] = 0] /\ reentered' = reentered \ {t}
        /\ unknown' = [unknown EXCEPT ![t] = (@ \/ handle[t] # 0)]
    BY <1>4 DEF End, HeldAfterEnd
  <2>2. unknown'[t] <=> (unknown[t] \/ handle[t] # 0)
    BY <1>0, <2>1 DEF FlagTypes
  <2>3. ~ unknown'[t] => (t \in held' <=> t \in held)
    BY <1>0, <2>1, <2>2 DEF Mark, Backed
  <2>4. Tracked(t)'
    BY <1>0, <1>1, <1>2, <2>1, <2>2, <2>3 DEF Mark, Tracked
  <2>5. OrphanUnknown(t)' /\ Backed(t)'
    BY <1>0, <2>1, <2>2 DEF Mark, OrphanUnknown, Backed
  <2>6. ASSUME NEW u \in Tokens, u # t PROVE Mark(u)'
    <3>1. /\ handle'[u] = handle[u] /\ unknown'[u] = unknown[u]
          /\ u \in held' <=> u \in held
          /\ u \in reentered' <=> u \in reentered
      BY <1>0, <2>1, <2>6 DEF FlagTypes, OtherTypes
    <3> QED BY <1>1, <1>2, <2>1, <3>1, MarkFrame DEF MarkInv
  <2> QED BY <2>4, <2>5, <2>6 DEF Mark, MarkInv
<1> QED BY <1>3, <1>4

\* Every step keeps the markers true.
LEMMA MarkStep ==
  ASSUME IInv, MarkInv, [LockNext]_allVars
  PROVE  MarkInv'
<1>1. CASE UNCHANGED allVars
  <2>1. /\ UNCHANGED <<holder, live, held, pc, req, handle, reentered, orphan, kept, unknown>>
    BY <1>1 DEF allVars, backend, client
  <2>2. ASSUME NEW u \in Tokens PROVE Holds(u)' <=> Holds(u)
    BY <2>1 DEF Holds
  <2> QED BY <2>1, <2>2, MarkFrame DEF MarkInv
<1> QED BY <1>1, MarkCall, MarkServe, MarkOrphan, MarkLapse, MarkFault DEF LockNext, Resume, Backend

\* A caller whose last request was answered agrees with the backend on whether it
\* holds the lock, and a task that is told it re-entered the lock does hold it
\* (_held_by_tasks, _held_by_threads).
THEOREM MarkersTellTheTruth == LockSpec => []MarkersAreTrue
<1>1. LockInit => MarkInv
  <2> SUFFICES ASSUME LockInit, NEW t \in Tokens PROVE Mark(t)
    BY DEF MarkInv
  <2>1. /\ holder = NoToken /\ held = {} /\ reentered = {}
        /\ orphan[t] = "none" /\ req[t].state = "none"
    BY DEF LockInit, Init, NoRequest, Request
  <2>2. ~ Holds(t)
    BY <2>1, BackendAssumption DEF Holds
  <2> QED BY <2>1, <2>2 DEF Mark, Tracked, OrphanUnknown, Backed
<1>2. IInv /\ MarkInv => MarkersAreTrue
  <2> SUFFICES ASSUME IInv, MarkInv PROVE MarkerMatchesLease /\ TaskReentrantIsTrue
    BY DEF MarkersAreTrue
  <2>1. MarkerMatchesLease
    <3> SUFFICES ASSUME NEW t \in Tokens, pc[t] = "out", ~ unknown[t]
                 PROVE  (t \in held /\ kept[t]) <=> (holder = t /\ live)
      BY DEF MarkerMatchesLease
    <3>1. req[t].state = "none"
      BY TypeParts DEF IInv, CallTypes, NoRequest, Request
    <3> QED BY <3>1 DEF MarkInv, Mark, Tracked, Holds
  <2>2. TaskReentrantIsTrue
    BY LockAssumption DEF TaskReentrantIsTrue, MarkInv, Mark, Backed
  <2> QED BY <2>1, <2>2
<1> QED BY <1>1, <1>2, MarkStep, Invariance, PTL DEF LockSpec

=============================================================================
