------------------------------- MODULE Install -------------------------------
(***************************************************************************)
(* grelmicro/integrations/fastapi.py, install: the lifespan that opens the *)
(* app and the middleware that binds it to every request, among the        *)
(* middlewares that the application adds before and after.  The framework  *)
(* (external) puts a new middleware in front of the others, and builds its *)
(* stack once, at the first event.                                         *)
(***************************************************************************)
EXTENDS Integers, Sequences, Functions, Subsequences

CONSTANTS Apps,              \* the Grelmicro apps
          Others,            \* other middlewares
          MaxMiddlewares, None

InstallAssumption == MaxMiddlewares \in Nat /\ None \notin Apps /\ Apps \cap Others = {}

VARIABLES user_middleware,   \* from the outermost; a binding is named by its app
          installed,         \* apps whose lifespan is chained, the last one first
          reorders,          \* build_middleware_stack is wrapped
          stack,             \* the stack that was built
          opened,            \* apps that are open
          phase,
          current            \* what current() gives within each middleware of a request

vars == <<user_middleware, installed, reorders, stack, opened, phase, current>>

_is_binding(m) == m \in Apps

TypeOK ==
  /\ user_middleware \in Seq(Apps \cup Others) /\ installed \in Seq(Apps)
  /\ reorders \in BOOLEAN /\ opened \subseteq Apps
  /\ phase \in {"setup", "built", "serving", "request", "refused", "stopped"}

Init ==
  /\ user_middleware = <<>> /\ installed = <<>> /\ reorders = FALSE
  /\ stack = None /\ opened = {} /\ phase = "setup" /\ current = <<>>

\* By hand, in any order.
add_middleware(m) ==
  /\ phase = "setup" /\ Len(user_middleware) < MaxMiddlewares
  /\ user_middleware' = <<m>> \o user_middleware
  /\ UNCHANGED <<installed, reorders, stack, opened, phase, current>>

install(app, ambient) ==
  /\ phase = "setup" /\ Len(user_middleware) < MaxMiddlewares
  /\ app \notin Range(installed)
  /\ installed' = <<app>> \o installed
  /\ IF ambient
     THEN user_middleware' = <<app>> \o user_middleware /\ reorders' = TRUE
     ELSE UNCHANGED <<user_middleware, reorders>>
  /\ UNCHANGED <<stack, opened, phase, current>>

\* _keep_binding_outermost: bindings in front, in the order that they had.
_keep_binding_outermost(ms) ==
  Only(ms, {m \in Range(ms) : _is_binding(m)}) \o Only(ms, {m \in Range(ms) : ~ _is_binding(m)})
build_middleware_stack ==
  /\ phase = "setup" /\ phase' = "built"
  /\ LET ms == IF reorders THEN _keep_binding_outermost(user_middleware) ELSE user_middleware
     IN  user_middleware' = ms /\ stack' = ms
  /\ UNCHANGED <<installed, reorders, opened, current>>

\* The chained lifespans: each reads the order back before the app inside it opens.
Unchecked == TRUE
_check_binding_outermost ==
  LET bindings == {n \in DOMAIN user_middleware : _is_binding(user_middleware[n])}
  IN  bindings # {} => 1 \in bindings
lifespan ==
  /\ phase = "built"
  /\ IF installed # <<>> /\ ~ _check_binding_outermost
     THEN phase' = "refused" /\ UNCHANGED opened
     ELSE phase' = "serving" /\ opened' = Range(installed)
  /\ UNCHANGED <<user_middleware, installed, reorders, stack, current>>

\* GrelmicroMiddleware.__call__: bound on the way in, reset on the way out.
Bound(n) ==
  LET bindings == {k \in 1..(n - 1) : _is_binding(stack[k])}
  IN  IF bindings = {} THEN None
      ELSE stack[CHOOSE k \in bindings : \A j \in bindings : j <= k]
__call__ ==
  /\ phase = "serving" /\ phase' = "request"
  /\ current' = [n \in DOMAIN stack |-> Bound(n)]
  /\ UNCHANGED <<user_middleware, installed, reorders, stack, opened>>
answered ==
  /\ phase = "request" /\ phase' = "serving" /\ current' = <<>>
  /\ UNCHANGED <<user_middleware, installed, reorders, stack, opened>>

shutdown ==
  /\ phase = "serving" /\ phase' = "stopped" /\ opened' = {}
  /\ UNCHANGED <<user_middleware, installed, reorders, stack, current>>

Next ==
  \/ \E m \in Others \cup Apps : add_middleware(m)
  \/ \E app \in Apps, ambient \in BOOLEAN : install(app, ambient)
  \/ build_middleware_stack \/ lifespan \/ __call__ \/ answered \/ shutdown

Spec == Init /\ [][Next]_vars

-----------------------------------------------------------------------------
\* Properties.

\* Once an app that was installed serves requests, every middleware but the bindings runs
\* with an app bound, or none is bound anywhere: in whatever order the application added
\* its middlewares and wired the binding, a request never meets an OutOfContextError in
\* the middlewares outside a binding that is there.
AllWithinTheBinding ==
  phase = "request" /\ installed # <<>> /\ (\E n \in DOMAIN stack : _is_binding(stack[n])) =>
    \A n \in DOMAIN stack : ~ _is_binding(stack[n]) => current[n] # None
=============================================================================
