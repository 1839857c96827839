----------------------------- MODULE Lifecycle -----------------------------
(***************************************************************************)
(* One process of the service from start to exit (cmd/server/main.go and   *)
(* internal/server), with its connections, its pool and its timeouts.      *)
(* What the statements of a request do is Service's and Reads' business;   *)
(* here each of them takes a connection of the pool, and either ends or is *)
(* stuck until its context ends.                                           *)
(*                                                                         *)
(* A client connects, sends the headers of a request, its body, and takes  *)
(* the response.  Any of these may not come.  The middleware is entered    *)
(* with the headers; the body is read in the generated code behind it.     *)
(*                                                                         *)
(* Time passes in ticks.  A timer that is due fires, and what it cuts off  *)
(* unwinds, before the next tick: unwinding takes no time worth counting   *)
(* next to timeouts of seconds.                                            *)
(***************************************************************************)
EXTENDS Naturals, SequencesExt

CONSTANTS
  Requests,         \* requests in flight at the same time, each on a connection of its own
  Statements,       \* the most statements a request runs
  PoolSizes,        \* what DB_MAX_CONNS may be set to
  RequestTimeouts,  \* what HTTP_REQUEST_TIMEOUT may be set to, in ticks; 0 switches it off
  ReadTimeouts,     \* what HTTP_READ_TIMEOUT may be set to
  WriteTimeouts,    \* what HTTP_WRITE_TIMEOUT may be set to
  NewConnGrace,     \* how long Shutdown waits for the headers on a new connection
  ShutdownTimeout   \* HTTP_SHUTDOWN_TIMEOUT in ticks

ASSUME PoolHasConnections == PoolSizes \subseteq Nat \ {0}
ASSUME TimeoutsAreTicks ==
  /\ RequestTimeouts \subseteq Nat /\ ReadTimeouts \subseteq Nat /\ WriteTimeouts \subseteq Nat
  /\ NewConnGrace \in Nat /\ ShutdownTimeout \in Nat /\ Statements \in Nat
ASSUME GraceIsPositive == NewConnGrace > 0

VARIABLES
  phase,      \* of main.run
  signalled,  \* SIGINT or SIGTERM came, the context of the process is over
  listener,   \* of the http.Server
  result,     \* what run returns, and so the exit code
  config,     \* what config.Load read
  at,         \* where each request is
  left,       \* statements it has left
  stuck,      \* its body, its statement or its response will not end by itself
  age,        \* ticks since it was connected, and from the headers on since they were read
  drainAge,   \* ticks since Shutdown was called
  queue       \* requests waiting for a connection of the pool, in the order they came

process == <<phase, signalled, listener, result, config, drainAge>>
requests == <<at, left, stuck, age, queue>>
vars == <<process, requests>>

Configs ==
  [requestTimeout: RequestTimeouts, readTimeout: ReadTimeouts, writeTimeout: WriteTimeouts,
   maxConns: PoolSizes]
NoConfig == [requestTimeout |-> 0, readTimeout |-> 0, writeTimeout |-> 0, maxConns |-> 0]
requestTimeout == config.requestTimeout
readTimeout == config.readTimeout
writeTimeout == config.writeTimeout

Larger(m, n) == IF m < n THEN n ELSE m
Longest == Larger(requestTimeout, Larger(readTimeout, writeTimeout))
Horizon == Larger(Longest, NewConnGrace)  \* nothing depends on more ticks than these

Places == {"none", "opening", "reading", "waiting", "running", "responding", "dropped"}
Serving(r) == at[r] \in {"reading", "waiting", "running", "responding"}
Open(r) == at[r] = "opening" \/ Serving(r)
Holders == {r \in Requests : at[r] = "running"}  \* of a connection of the pool
Stuck == {r \in Holders : stuck[r]}

TypeOK ==
  /\ phase \in {"loading", "connecting", "serving", "draining", "closing", "exited"}
  /\ signalled \in BOOLEAN
  /\ listener \in {"unstarted", "open", "failed", "closed"}
  /\ result \in {"none", "ok", "error"}
  /\ at \in [Requests -> Places]
  /\ left \in [Requests -> 0..Statements]
  /\ stuck \in [Requests -> BOOLEAN]
  /\ config \in Configs \cup {NoConfig}
  /\ age \in [Requests -> 0..Horizon]
  /\ drainAge \in 0..ShutdownTimeout
  /\ queue \in Seq(Requests)

Init ==
  /\ phase = "loading" /\ signalled = FALSE /\ listener = "unstarted"
  /\ result = "none" /\ config = NoConfig /\ drainAge = 0
  /\ at = [r \in Requests |-> "none"] /\ left = [r \in Requests |-> 0]
  /\ stuck = [r \in Requests |-> FALSE] /\ age = [r \in Requests |-> 0]
  /\ queue = <<>>

-----------------------------------------------------------------------------
(* The process.                                                            *)

(* config.Load: every variable has a default but DB_DSN, and one that is   *)
(* missing or cannot be parsed ends the process.                           *)
LoadConfig ==
  /\ phase = "loading"
  /\ \/ phase' = "connecting" /\ config' \in Configs /\ UNCHANGED result
     \/ phase' = "exited" /\ result' = "error" /\ UNCHANGED config
  /\ UNCHANGED <<signalled, listener, drainAge, requests>>

(* Before NotifyContext the signal just kills the process. *)
Signal ==
  /\ phase # "exited" /\ ~signalled
  /\ signalled' = TRUE
  /\ IF phase = "loading" THEN phase' = "exited" /\ result' = "error"
                          ELSE UNCHANGED <<phase, result>>
  /\ UNCHANGED <<listener, config, drainAge, requests>>

(* NewPool: the ping succeeds, or fails, for its timeout or the signal too. *)
Connect ==
  /\ phase = "connecting"
  /\ \/ phase' = "serving" /\ UNCHANGED result
     \/ phase' = "exited" /\ result' = "error"
  /\ UNCHANGED <<signalled, listener, config, drainAge, requests>>

(* The goroutine in ListenAndServe. *)
Listen ==
  /\ phase = "serving" /\ listener = "unstarted"
  /\ listener' \in {"open", "failed"}
  /\ UNCHANGED <<phase, signalled, result, config, drainAge, requests>>

ServeFails ==
  /\ phase = "serving" /\ listener = "open"
  /\ listener' = "failed"
  /\ UNCHANGED <<phase, signalled, result, config, drainAge, requests>>

(* The two cases of the select in Run; when both are ready either is taken. *)
ServerStopped ==
  /\ phase = "serving" /\ listener = "failed"
  /\ phase' = "closing" /\ result' = "error"
  /\ UNCHANGED <<signalled, listener, config, drainAge, requests>>

BeginShutdown ==
  /\ phase = "serving" /\ signalled
  /\ phase' = "draining"
  /\ listener' = IF listener = "failed" THEN "failed" ELSE "closed"
  /\ UNCHANGED <<signalled, result, config, drainAge, requests>>

(* Shutdown waits for the connections that are not idle, or gives up. *)
Drained ==
  /\ phase = "draining" /\ \A r \in Requests : ~Open(r)
  /\ phase' = "closing" /\ result' = "ok"
  /\ UNCHANGED <<signalled, listener, config, drainAge, requests>>

DrainGivesUp ==
  /\ phase = "draining" /\ drainAge = ShutdownTimeout
  /\ \E r \in Requests : Open(r)
  /\ phase' = "closing" /\ result' = "error"
  /\ UNCHANGED <<signalled, listener, config, drainAge, requests>>

(* The deferred pool.Close returns when every connection has been given    *)
(* back; then the process ends, and with it whatever is still under way.   *)
ClosePool ==
  /\ phase = "closing" /\ Holders = {}
  /\ phase' = "exited"
  /\ at' = [r \in Requests |-> IF Serving(r) THEN "dropped" ELSE "none"]
  /\ UNCHANGED <<signalled, listener, result, config, drainAge, left, stuck, age, queue>>

-----------------------------------------------------------------------------
(* The timers of a connection.                                             *)

(* net/http: Shutdown takes a connection that has sent no headers for as   *)
(* long as the grace for an idle one.                                      *)
Opening == IF 0 < readTimeout /\ readTimeout < NewConnGrace THEN readTimeout ELSE NewConnGrace

(* Mutant: the read timeout is not handed to the http.Server. *)
DeadlineWithoutReadTimeout(r) ==
  CASE at[r] = "opening" /\ phase = "draining" -> NewConnGrace
    [] at[r] \in {"waiting", "running"} -> requestTimeout
    [] OTHER -> 0

(* The age at which a request is cut off; 0 for never.  The read timeout   *)
(* is for headers and body, the write timeout for the response from the    *)
(* headers on, and the handler's context has no part in either.  Before it *)
(* responds net/http reads what the handler has left of the body.          *)
Deadline(r) ==
  CASE at[r] = "opening" -> IF phase = "draining" THEN Opening ELSE readTimeout
    [] at[r] = "reading" -> readTimeout
    [] at[r] \in {"waiting", "running"} -> requestTimeout
    [] at[r] = "responding" ->
         IF readTimeout = 0 \/ writeTimeout = 0 THEN 0 ELSE Larger(readTimeout, writeTimeout)
    [] OTHER -> 0
Due(r) == Deadline(r) > 0 /\ age[r] >= Deadline(r)

-----------------------------------------------------------------------------
(* The requests.                                                           *)

Accept(r) ==
  /\ listener = "open" /\ at[r] = "none"
  /\ at' = [at EXCEPT ![r] = "opening"]
  /\ age' = [age EXCEPT ![r] = 0]
  /\ UNCHANGED <<process, left, stuck, queue>>

(* The handler has its answer, whatever it is.  The client takes it or not. *)
Answer(r) ==
  /\ at' = [at EXCEPT ![r] = "responding"]
  /\ left' = [left EXCEPT ![r] = 0]
  /\ \E b \in BOOLEAN : stuck' = [stuck EXCEPT ![r] = b]

(* The connection is idle again, or gone. *)
End(r) ==
  /\ at' = [at EXCEPT ![r] = "none"]
  /\ stuck' = [stuck EXCEPT ![r] = FALSE]
  /\ age' = [age EXCEPT ![r] = 0]
  /\ UNCHANGED <<process, left, queue>>

Enqueue(r) ==
  /\ at' = [at EXCEPT ![r] = "waiting"]
  /\ stuck' = [stuck EXCEPT ![r] = FALSE]
  /\ queue' = Append(queue, r)

(* The queue without r, which waits in one place if it waits at all. *)
LeaveQueue(r) ==
  queue' = IF at[r] = "waiting" THEN RemoveAt(queue, CHOOSE i \in DOMAIN queue : queue[i] = r) ELSE queue

(* A handler that runs n statements: the readiness probe one, the liveness *)
(* probe none, and nor does a request that is refused before the first.    *)
Handle(r) ==
  \/ Answer(r) /\ UNCHANGED queue
  \/ \E n \in 1..Statements : left' = [left EXCEPT ![r] = n] /\ Enqueue(r)

(* The headers are there, also while the server drains, and the chain of   *)
(* middleware is entered, up to the handler or to where the body is read.  *)
Headers(r) ==
  /\ at[r] = "opening" /\ phase # "exited"
  /\ \/ Handle(r)
     \/ /\ at' = [at EXCEPT ![r] = "reading"]
        /\ \E b \in BOOLEAN : stuck' = [stuck EXCEPT ![r] = b]
        /\ UNCHANGED <<left, queue>>
  /\ age' = [age EXCEPT ![r] = 0]
  /\ UNCHANGED process

(* The body is read to its end, or breaks off and is answered 400. *)
Decode(r) ==
  /\ at[r] = "reading" /\ ~stuck[r] /\ phase # "exited"
  /\ Handle(r)
  /\ UNCHANGED <<process, age>>

(* The pool serves those who wait in turn, if their context is not over,   *)
(* as it may be after a slow body.                                         *)
Acquire(r) ==
  /\ at[r] = "waiting" /\ Head(queue) = r
  /\ requestTimeout > 0 => age[r] <= requestTimeout
  /\ phase \notin {"closing", "exited"} /\ Cardinality(Holders) < config.maxConns
  /\ queue' = Tail(queue)
  /\ at' = [at EXCEPT ![r] = "running"]
  /\ \E b \in BOOLEAN : stuck' = [stuck EXCEPT ![r] = b]
  /\ UNCHANGED <<process, left, age>>

(* Mutant: the rows of a statement are still open when the next one asks   *)
(* for a connection.                                                       *)
StatementKeepsRows(r) ==
  /\ at[r] = "running" /\ ~stuck[r]
  /\ \/ left[r] = 1 /\ Answer(r)
     \/ /\ left[r] > 1 /\ Cardinality(Holders) < config.maxConns
        /\ left' = [left EXCEPT ![r] = @ - 1]
        /\ \E b \in BOOLEAN : stuck' = [stuck EXCEPT ![r] = b]
        /\ UNCHANGED at
  /\ UNCHANGED <<process, age, queue>>

(* Mutant: a handler that goes on after its last statement. *)
StatementPastLast(r) ==
  /\ at[r] = "running" /\ ~stuck[r]
  /\ left' = [left EXCEPT ![r] = @ - 1]
  /\ Enqueue(r)
  /\ UNCHANGED <<process, age>>

(* A statement ends: with the last row or an error the handler is done,    *)
(* otherwise the connection goes back before the next statement wants one. *)
Statement(r) ==
  /\ at[r] = "running" /\ ~stuck[r]
  /\ \/ Answer(r) /\ UNCHANGED queue
     \/ left[r] > 1 /\ left' = [left EXCEPT ![r] = @ - 1] /\ Enqueue(r)
  /\ UNCHANGED <<process, age>>

(* Acquire from a pool that is being closed. *)
Refused(r) ==
  /\ at[r] = "waiting" /\ phase = "closing"
  /\ Answer(r) /\ LeaveQueue(r)
  /\ UNCHANGED <<process, age>>

(* Mutant: the context does not reach the statement. *)
TimeoutOfWaiters(r) ==
  /\ at[r] = "waiting" /\ Due(r)
  /\ Answer(r) /\ LeaveQueue(r)
  /\ UNCHANGED <<process, age>>

(* timeoutMiddleware ends the context: the statement is cancelled, or the  *)
(* wait for a connection given up.                                         *)
Timeout(r) ==
  /\ at[r] \in {"waiting", "running"} /\ Due(r)
  /\ Answer(r) /\ LeaveQueue(r)
  /\ UNCHANGED <<process, age>>

(* Shutdown closes a connection without headers and the timers of net/http *)
(* end what they are for: a connection, a response, and the reading of a   *)
(* body, which the handler answers like any body that breaks off.          *)
CutOff(r) ==
  /\ phase # "exited" /\ Due(r)
  /\ \/ at[r] \in {"opening", "responding"} /\ End(r)
     \/ at[r] = "reading" /\ Answer(r) /\ UNCHANGED <<process, age, queue>>

(* The client goes away, which ends a context as well. *)
HangUp(r) ==
  /\ phase # "exited"
  /\ \/ at[r] \in {"opening", "responding"} /\ End(r)
     \/ /\ at[r] \in {"reading", "waiting", "running"}
        /\ Answer(r) /\ LeaveQueue(r)
        /\ UNCHANGED <<process, age>>

Respond(r) ==
  /\ at[r] = "responding" /\ ~stuck[r] /\ phase # "exited"
  /\ End(r)

Tick ==
  /\ \A r \in Requests : ~Due(r)
  /\ phase = "draining" => drainAge < ShutdownTimeout
  /\ age' = [r \in Requests |-> IF Open(r) /\ age[r] < Horizon THEN age[r] + 1 ELSE age[r]]
  /\ drainAge' = IF phase = "draining" THEN drainAge + 1 ELSE drainAge
  /\ UNCHANGED <<phase, signalled, listener, result, config, at, left, stuck, queue>>

Run == LoadConfig \/ Connect \/ Listen \/ ServerStopped \/ BeginShutdown \/ Drained \/ DrainGivesUp \/ ClosePool
GoOn(r) ==
  Decode(r) \/ Acquire(r) \/ Statement(r) \/ Refused(r) \/ Timeout(r) \/ CutOff(r) \/ Respond(r)

Next ==
  \/ Signal \/ ServeFails \/ Run \/ Tick
  \/ \E r \in Requests : Accept(r) \/ Headers(r) \/ HangUp(r) \/ GoOn(r)

Spec == Init /\ [][Next]_vars

(* Goroutines that can go on do, what can end does, time passes.  A client *)
(* need not send the headers.                                              *)
FairSpec ==
  /\ Spec
  /\ WF_vars(Run) /\ WF_vars(Tick)
  /\ \A r \in Requests : WF_vars(GoOn(r))

-----------------------------------------------------------------------------
(* Properties.                                                             *)

(* With all the timeouts on, and the longest of them, counted from the     *)
(* latest headers of a drain, over before the shutdown timeout, Shutdown   *)
(* never gives up, and the end of the process cuts no request off, however *)
(* many of them are stuck in a body, a statement or a response or wait for *)
(* a connection of the pool.                                               *)
TimeoutsInOrder ==
  /\ 0 < requestTimeout /\ 0 < readTimeout /\ 0 < writeTimeout
  /\ Opening + Longest < ShutdownTimeout
GracefulStop ==
  TimeoutsInOrder /\ listener = "closed" /\ phase \in {"closing", "exited"} =>
    /\ result = "ok"
    /\ \A r \in Requests : at[r] = "none"

(* With all the timeouts on every request ends, whatever its client does,  *)
(* also one that waits behind stuck statements that hold the whole pool.   *)
(* The process ends after a signal whenever it comes; for that the request *)
(* timeout is enough.                                                      *)
RequestsEnd ==
  \A r \in Requests :
    Open(r) /\ 0 < requestTimeout /\ 0 < readTimeout /\ 0 < writeTimeout ~> ~Open(r)
ProcessStops == signalled /\ requestTimeout > 0 ~> phase = "exited"

(* With or without timeouts, a request whose headers are there fails to    *)
(* end only when its own body, statement or response is stuck, or stuck    *)
(* statements hold every connection of the pool: handlers never block one  *)
(* another by holding a connection they do not use.                        *)
WaitsOnlyForStuck ==
  \A r \in Requests : Serving(r) ~> (~Serving(r) \/ stuck[r] \/ Cardinality(Stuck) = config.maxConns)

(* internal/server/server.go: Run returns an error when the server went    *)
(* down other than by being shut down.                                     *)
FailuresAreReported == phase = "exited" /\ listener = "failed" => result = "error"
=============================================================================
