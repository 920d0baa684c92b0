----------------------- MODULE KubernetesLockAdapter -----------------------
(***************************************************************************)
(* grelmicro/coordination/kubernetes.py, `KubernetesLockAdapter`, for one  *)
(* Lease object.  A call reads the clock, GETs the Lease, decides, and     *)
(* writes back; nothing but the Lease's resourceVersion ties the write to  *)
(* what was read.  Clients are assumed to have synchronised clocks: expiry *)
(* is judged by the client, not by the API server.                         *)
(***************************************************************************)
EXTENDS Naturals

CONSTANTS Tokens, NoToken, MaxFence,
          MaxDuration,    \* bound on a lease duration, in clock ticks
          TicksPerSecond, \* ticks in a second, the unit of leaseDurationSeconds
          MaxTime,        \* bound on the clock
          MaxVersion,     \* bound on writes to the Lease
          Closer          \* stands for an adapter being closed

KubernetesAssumption ==
  /\ {NoToken, Closer} \cap Tokens = {}
  /\ NoToken # Closer
  /\ {MaxFence, MaxDuration, MaxTime, MaxVersion} \subseteq Nat
  /\ TicksPerSecond \in Nat \ {0}

VARIABLES now,    \* the clients' clock
          lease,  \* the Lease object at the API server
          call,   \* call[t]: the call in flight
          reply   \* answer to the last call

vars == <<now, lease, call, reply>>

Durations == 1..MaxDuration
Clients == Tokens \cup {Closer}

\* version is the resourceVersion, 0 while the object does not exist;
\* renewed and seconds are renewTime and leaseDurationSeconds, 0 when unset.
Leases == [version : 0..MaxVersion, holder : Tokens \cup {NoToken},
           renewed : 0..MaxTime, seconds : 0..MaxDuration,
           transitions : 0..MaxFence]

NoLease == [version |-> 0, holder |-> NoToken, renewed |-> 0, seconds |-> 0,
            transitions |-> 0]

\* op and duration are the call's arguments, began the `now` it captured, got
\* the Lease as read at time at.
Calls == [pc : {"idle", "get", "put"}, op : {"acquire", "release", "close"},
          duration : 0..MaxDuration, began : 0..MaxTime, at : 0..MaxTime,
          got : Leases]

NoCall == [pc |-> "idle", op |-> "acquire", duration |-> 0, began |-> 0, at |-> 0,
           got |-> NoLease]

_get_expire_at(l) == l.renewed + TicksPerSecond * l.seconds

\* A vacated Lease has no renewTime, hence no expiry.
LiveAt(l, time) == l.seconds # 0 /\ _get_expire_at(l) >= time

locked == LiveAt(lease, now)

owned(t) == locked /\ lease.holder = t

LB == INSTANCE LockBackend
        WITH holder <- lease.holder, live <- locked, fence <- lease.transitions,
             Optimistic <- TRUE

TypeOK ==
  /\ now \in 0..MaxTime
  /\ lease \in Leases
  /\ call \in [Clients -> Calls]
  /\ reply \in [token : Tokens \cup {NoToken}, answer : LB!Answers, fence : 0..MaxFence]
  /\ lease.renewed <= now
  /\ lease.transitions <= lease.version

Init ==
  /\ now = 0
  /\ lease = NoLease
  /\ call = [t \in Clients |-> NoCall]
  /\ reply = LB!NoReply

-----------------------------------------------------------------------------

Finish(t) == call' = [call EXCEPT ![t] = NoCall]

Answer(t, a, f) == reply' = LB!Reply(t, a, f)

Begin(t, o, d) ==
  /\ call[t].pc = "idle"
  /\ call' = [call EXCEPT ![t] = [NoCall EXCEPT !.pc = "get", !.op = o,
                                                !.duration = d, !.began = now]]
  /\ UNCHANGED <<now, lease, reply>>

Read(t) ==
  call' = [call EXCEPT ![t].pc = "put", ![t].got = lease, ![t].at = now]

OtherHolder(t, time) == LiveAt(lease, time) /\ lease.holder # t

\* `acquire` turns away on a live Lease of another holder, else goes to write.
GetToAcquire(t) ==
  /\ call[t].pc = "get" /\ call[t].op = "acquire"
  /\ \/ /\ OtherHolder(t, call[t].began)
        /\ Answer(t, "refused", 0)
        /\ Finish(t)
     \/ /\ ~OtherHolder(t, call[t].began)
        /\ Read(t)
        /\ UNCHANGED reply
  /\ UNCHANGED <<now, lease>>

\* `release` goes to write only for its own live Lease.
GetToRelease(t) ==
  /\ call[t].pc = "get" /\ call[t].op = "release"
  /\ \/ /\ LiveAt(lease, call[t].began) /\ lease.holder = t
        /\ Read(t)
        /\ UNCHANGED reply
     \/ /\ ~(LiveAt(lease, call[t].began) /\ lease.holder = t)
        /\ Answer(t, "not_owned", 0)
        /\ Finish(t)
  /\ UNCHANGED <<now, lease>>

\* `__aexit__` lists the Leases and goes on to vacate the expired ones.
ListToClose ==
  /\ call[Closer].pc = "get"
  /\ \/ /\ lease.holder # NoToken /\ lease.seconds # 0
        /\ _get_expire_at(lease) < call[Closer].began
        /\ Read(Closer)
     \/ /\ lease.holder = NoToken \/ LiveAt(lease, call[Closer].began)
        /\ Finish(Closer)
  /\ UNCHANGED <<now, lease, reply>>

\* The API server takes a write only against the version that was read; a
\* create (version 0) only while the object does not exist.
CurrentBlind(t) == TRUE
Current(t) == call[t].got.version = lease.version

\* ceil(duration)
Seconds(d) == (d + TicksPerSecond - 1) \div TicksPerSecond

\* The fence of _create_lease and _replace_lease.
NextFence(t) ==
  LET l == call[t].got IN
  IF LiveAt(l, call[t].began) /\ l.holder = t THEN l.transitions
                                              ELSE l.transitions + 1

\* renewed is now_dt, read between the GET's answer and the write.
Write(t, renewed) ==
  lease' = [version |-> lease.version + 1, holder |-> t, renewed |-> renewed,
            seconds |-> Seconds(call[t].duration),
            transitions |-> NextFence(t)]

\* _create_lease, _replace_lease
Put(t) ==
  /\ call[t].pc = "put" /\ call[t].op = "acquire"
  /\ \/ /\ Current(t)
        /\ lease.version < MaxVersion /\ NextFence(t) <= MaxFence
        /\ \E renewed \in call[t].at..now : Write(t, renewed)
        /\ Answer(t, "granted", NextFence(t))
     \/ /\ ~Current(t)
        /\ Answer(t, "refused", 0)
        /\ UNCHANGED lease
  /\ Finish(t)
  /\ UNCHANGED now

Vacated(l) == [l EXCEPT !.version = @ + 1, !.holder = NoToken,
                        !.renewed = 0, !.seconds = 0]

\* _vacate_lease
Vacate(t) ==
  /\ call[t].pc = "put" /\ call[t].op # "acquire"
  /\ \/ /\ Current(t) /\ lease.version < MaxVersion
        /\ lease' = Vacated(lease)
        /\ IF t = Closer THEN UNCHANGED reply ELSE Answer(t, "released", 0)
     \/ /\ ~Current(t)
        /\ IF t = Closer THEN UNCHANGED reply ELSE Answer(t, "not_owned", 0)
        /\ UNCHANGED lease
  /\ Finish(t)
  /\ UNCHANGED now

\* Any other ApiError, or the caller's cancellation, ends the call unanswered.
Fail(t) ==
  /\ call[t].pc # "idle"
  /\ Finish(t)
  /\ UNCHANGED <<now, lease, reply>>

Tick ==
  /\ now < MaxTime
  /\ now' = now + 1
  /\ UNCHANGED <<lease, call, reply>>

Next ==
  \/ \E t \in Tokens, d \in Durations : Begin(t, "acquire", d)
  \/ \E t \in Tokens : Begin(t, "release", 0)
  \/ Begin(Closer, "close", 0)
  \/ \E t \in Tokens : GetToAcquire(t) \/ GetToRelease(t) \/ Put(t)
  \/ ListToClose
  \/ \E t \in Clients : Vacate(t) \/ Fail(t)
  \/ Tick

Spec == Init /\ [][Next]_vars

-----------------------------------------------------------------------------

\* The adapter implements the backend protocol although reads, decisions and
\* writes of several clients interleave and every decision is made on a Lease
\* and a time that may be stale when the write lands.
Implements == LB!Spec

=============================================================================
