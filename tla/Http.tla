-------------------------------- MODULE Http --------------------------------
(***************************************************************************)
(* grelmicro/integrations/fastapi.py, IdempotencyMiddleware: requests with *)
(* an idempotency key, message by message.  The middleware may read the    *)
(* request's body before the app does, copies the response while the app   *)
(* sends it, and stores the copy when the app returns.  The block that     *)
(* keeps one execution per key is taken by its promise (module             *)
(* Idempotency): a response that is stored, and the one who executes.      *)
(***************************************************************************)
EXTENDS Integers, Sequences

CONSTANTS Callers, Keys, None,
          Settings,    \* the middleware's arguments
          Bodies,      \* what clients send: sequences of messages
          Chunks,      \* what a body message of the app carries, one unit each
          MaxChunks, MaxCalls

Messages == [data : STRING, more : BOOLEAN]

HttpAssumption ==
  /\ Settings \subseteq [require_key : BOOLEAN, fingerprint_body : BOOLEAN, bound : BOOLEAN,
                         key_maker : {"default", "merging"}, max_body_size : Nat]
  /\ Keys \cap {"absent", "long"} = {} /\ {MaxChunks, MaxCalls} \subseteq Nat
  /\ Bodies \subseteq Seq(Messages)

VARIABLES settings,
          store,     \* per key: the stored response, its fingerprint and, as history, what was sent
          holder,    \* per key: the request that executes
          req,       \* per caller: its request
          calls      \* bound: requests made

\* http.disconnect
Disconnect == [data |-> "disconnect", more |-> FALSE]

vars == <<settings, store, holder, req, calls>>

NoCapture == [storable |-> FALSE, size |-> 0, chunks |-> <<>>, stored |-> None]
NoRequest == [pc |-> "none", key |-> "absent", body |-> <<>>, taken |-> 0, given |-> 0,
              buffered |-> <<>>, read |-> <<>>, fingerprint |-> None, starts |-> 0, out |-> <<>>,
              capture |-> NoCapture]

TypeOK ==
  /\ settings \in Settings /\ calls \in 0..MaxCalls
  /\ holder \in [Keys -> Callers \cup {None}]
  /\ \A c \in Callers :
       /\ req[c].pc \in {"none", "buffering", "entering", "handling", "responding", "background", "over"}
       /\ req[c].taken \in 0..Len(req[c].body) /\ Len(req[c].out) <= MaxChunks

Init ==
  /\ settings \in Settings
  /\ store = [k \in Keys |-> None] /\ holder = [k \in Keys |-> None]
  /\ req = [c \in Callers |-> NoRequest] /\ calls = 0

\* _send_error, and the end of the request.
_send_error(c) == [req[c] EXCEPT !.pc = "over", !.starts = @ + 1]
Becomes(c, r) == req' = [req EXCEPT ![c] = r]

-----------------------------------------------------------------------------
\* __call__: 400 for a key that is missing or too long; without a key the app alone answers.
__call__(c, key, body) ==
  /\ req[c].pc \in {"none", "over"} /\ calls < MaxCalls
  /\ calls' = calls + 1
  /\ LET r == [NoRequest EXCEPT !.key = key, !.body = body]
     IN  \/ key \in {"absent", "long"} /\ Becomes(c, [r EXCEPT !.pc = "over", !.starts = 1])
         \/ key \in Keys /\ settings.fingerprint_body /\ Becomes(c, [r EXCEPT !.pc = "buffering"])
         \/ key \in Keys /\ ~ settings.fingerprint_body /\ Becomes(c, [r EXCEPT !.pc = "entering"])
  /\ UNCHANGED <<settings, store, holder>>

\* receive() of the server: the next message, and disconnect when there is none.
Received(r) == IF r.taken < Len(r.body) THEN r.body[r.taken + 1] ELSE Disconnect
Taken(r) == IF r.taken < Len(r.body) THEN r.taken + 1 ELSE r.taken

\* _buffer_request, one message: up to the last chunk or the disconnect, or 413.  What was
\* read is kept for the app; the fingerprint is that of a whole body.
Kept(r) == Append(r.buffered, Received(r))
KeptBody(r) == SelectSeq(Kept(r), LAMBDA m : m # Disconnect)
_buffer_request(c) ==
  /\ req[c].pc = "buffering"
  /\ LET m == Received(req[c])
         r == [req[c] EXCEPT !.taken = Taken(req[c]), !.buffered = Kept(req[c])]
     IN  CASE m = Disconnect -> Becomes(c, [r EXCEPT !.pc = "entering"])
           [] m # Disconnect /\ Len(KeptBody(req[c])) > settings.max_body_size ->
                Becomes(c, [_send_error(c) EXCEPT !.taken = r.taken])
           [] OTHER ->
                Becomes(c, IF m.more THEN r
                           ELSE [r EXCEPT !.pc = "entering", !.fingerprint = KeptBody(req[c])])
  /\ UNCHANGED <<settings, store, holder, calls>>

\* _storage_key with _checked_key, and the resolution of the cache: both raise.
Resolves == settings.key_maker = "default" /\ settings.bound
raises_early(c) ==
  /\ req[c].pc = "entering" /\ ~ Resolves
  /\ Becomes(c, [req[c] EXCEPT !.pc = "over"])
  /\ UNCHANGED <<settings, store, holder, calls>>

-----------------------------------------------------------------------------
\* _execute: 422 for another payload, a replay, 409 while another request executes, or the
\* execution.

Conflict(c) ==
  LET saved == store[req[c].key].fingerprint
  IN  req[c].fingerprint # None /\ saved # None /\ saved # req[c].fingerprint

_send_stored(c) ==
  /\ req[c].pc = "entering" /\ Resolves /\ store[req[c].key] # None
  /\ Becomes(c, IF Conflict(c) THEN _send_error(c)
                ELSE [_send_error(c) EXCEPT !.out = store[req[c].key].body])
  /\ UNCHANGED <<settings, store, holder, calls>>

wait_timeout(c) ==
  /\ req[c].pc = "entering" /\ Resolves
  /\ store[req[c].key] = None /\ holder[req[c].key] # None
  /\ Becomes(c, _send_error(c))
  /\ UNCHANGED <<settings, store, holder, calls>>

_execute(c) ==
  /\ req[c].pc = "entering" /\ Resolves
  /\ store[req[c].key] = None /\ holder[req[c].key] = None
  /\ holder' = [holder EXCEPT ![req[c].key] = c]
  /\ Becomes(c, [req[c] EXCEPT !.pc = "handling"])
  /\ UNCHANGED <<settings, store, calls>>

\* replay_receive: first what was buffered, message for message, and then the server's.
Replayed(r) ==
  IF r.given < Len(r.buffered)
  THEN [message |-> r.buffered[r.given + 1], given |-> r.given + 1, taken |-> r.taken]
  ELSE [message |-> Received(r), given |-> r.given, taken |-> Taken(r)]
replay_receive(c) ==
  /\ req[c].pc = "handling" /\ Len(req[c].read) <= Len(req[c].body)
  /\ LET m == Replayed(req[c])
     IN  Becomes(c, [req[c] EXCEPT !.read = Append(@, m.message), !.given = m.given, !.taken = m.taken])
  /\ UNCHANGED <<settings, store, holder, calls>>

-----------------------------------------------------------------------------
\* _ResponseCapture

\* Set-Cookie, Content-Encoding and trailers block the copy.
_start(c, blocked) ==
  /\ req[c].pc = "handling"
  /\ Becomes(c, [req[c] EXCEPT !.pc = "responding", !.starts = @ + 1,
                               !.capture = [NoCapture EXCEPT !.storable = ~ blocked]])
  /\ UNCHANGED <<settings, store, holder, calls>>

\* The copy of one body message, kept as a response when it is the last one and skip does
\* not refuse it.
StoresEarly(captured, data, more, skip) ==
  LET grown == [captured EXCEPT !.size = @ + 1, !.chunks = Append(@, data)]
  IN  CASE ~ captured.storable -> captured
        [] captured.storable /\ captured.size + 1 > settings.max_body_size ->
             [captured EXCEPT !.size = @ + 1, !.storable = FALSE, !.chunks = <<>>]
        [] OTHER -> IF skip THEN grown ELSE [grown EXCEPT !.stored = grown.chunks]
_body(captured, data, more, skip) ==
  LET grown == [captured EXCEPT !.size = @ + 1, !.chunks = Append(@, data)]
  IN  CASE ~ captured.storable -> captured
        [] captured.storable /\ captured.size + 1 > settings.max_body_size ->
             [captured EXCEPT !.size = @ + 1, !.storable = FALSE, !.chunks = <<>>]
        [] OTHER -> IF more \/ skip THEN grown ELSE [grown EXCEPT !.stored = grown.chunks]

\* The message is captured and then forwarded.  After the last one the app may go on, with
\* the background tasks of the response.
send(c, data, more, skip) ==
  /\ req[c].pc = "responding" /\ Len(req[c].out) < MaxChunks
  /\ Becomes(c, [req[c] EXCEPT !.out = Append(@, data),
                               !.pc = IF more THEN "responding" ELSE "background",
                               !.capture = _body(@, data, more, skip)])
  /\ UNCHANGED <<settings, store, holder, calls>>

-----------------------------------------------------------------------------
\* The app returns: what was captured is stored, and the block left.
returns(c) ==
  /\ req[c].pc \in {"responding", "background"}
  /\ LET captured == req[c].capture.stored
     IN  store' = IF captured = None THEN store
                  ELSE [store EXCEPT ![req[c].key] =
                          [body |-> captured, fingerprint |-> req[c].fingerprint,
                           sent |-> req[c].out, whole |-> req[c].pc = "background"]]
  /\ holder' = [holder EXCEPT ![req[c].key] = None]
  /\ Becomes(c, [req[c] EXCEPT !.pc = "over"])
  /\ UNCHANGED <<settings, calls>>

\* The app raises, the client is gone, the task is cancelled or the store fails.
raises(c) ==
  /\ req[c].pc \in {"handling", "responding", "background"}
  /\ holder' = [holder EXCEPT ![req[c].key] = None]
  /\ Becomes(c, [req[c] EXCEPT !.pc = "over"])
  /\ UNCHANGED <<settings, store, calls>>

expires(k) ==
  /\ store[k] # None /\ store' = [store EXCEPT ![k] = None]
  /\ UNCHANGED <<settings, holder, req, calls>>

Next ==
  \/ \E c \in Callers :
       \/ \E key \in Keys \cup {"long"} \cup (IF settings.require_key THEN {"absent"} ELSE {}),
            body \in Bodies : __call__(c, key, body)
       \/ _buffer_request(c) \/ raises_early(c) \/ _send_stored(c) \/ wait_timeout(c)
       \/ _execute(c) \/ replay_receive(c)
       \/ \E blocked \in BOOLEAN : _start(c, blocked)
       \/ \E data \in Chunks, more \in BOOLEAN, skip \in BOOLEAN : send(c, data, more, skip)
       \/ returns(c) \/ raises(c)
  \/ \E k \in Keys : expires(k)

Spec == Init /\ [][Next]_vars

-----------------------------------------------------------------------------
\* Properties.

\* What is stored for a key is a whole response, byte for byte what the client of the first
\* execution was sent, and no larger than the limit: a response torn off midway, one that
\* outgrew the limit and one whose app raised are never replayed.
ReplayIsWhole ==
  \A k \in Keys : store[k] # None =>
    /\ store[k].whole /\ store[k].body = store[k].sent
    /\ Len(store[k].body) <= settings.max_body_size

\* Reading the body for its fingerprint changes nothing for the app: it reads exactly the
\* messages that the client sent, each once and in order, the disconnect included.
ReadsWhatWasSent ==
  \A c \in Callers : \A n \in DOMAIN req[c].read :
    req[c].read[n] = IF n <= Len(req[c].body) THEN req[c].body[n] ELSE Disconnect

\* docs/idempotency.md: "A background task runs after the response is sent, so the response
\* is stored and replayable while the task is still working."
ReplayableInBackground ==
  \A c \in Callers :
    req[c].pc = "background" /\ req[c].capture.stored # None => store[req[c].key] # None
=============================================================================
