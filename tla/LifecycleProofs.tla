-------------------------- MODULE LifecycleProofs --------------------------
(***************************************************************************)
(* The graceful stop of Lifecycle for any number of requests, statements   *)
(* and connections, and whatever the timeouts are configured to; and its   *)
(* types, which rest on the pool's queue holding just those who wait.      *)
(***************************************************************************)
EXTENDS Lifecycle, SequenceTheorems, TLAPS

(* How the durations compare, whatever they are. *)
LEMMA Durations ==
  ASSUME requestTimeout \in Nat, readTimeout \in Nat, writeTimeout \in Nat
  PROVE  /\ Longest \in Nat /\ Horizon \in Nat /\ Opening \in Nat
         /\ requestTimeout <= Longest /\ readTimeout <= Longest /\ writeTimeout <= Longest
         /\ Longest <= Horizon /\ Opening <= Horizon /\ 0 < Opening
BY TimeoutsAreTicks, GraceIsPositive DEF Longest, Horizon, Opening, Larger

(* The configuration is read once. *)
LEMMA ConfigStays ==
  ASSUME config' = config
  PROVE  /\ requestTimeout' = requestTimeout /\ readTimeout' = readTimeout /\ writeTimeout' = writeTimeout
         /\ Longest' = Longest /\ Horizon' = Horizon /\ Opening' = Opening
         /\ TimeoutsInOrder' = TimeoutsInOrder
BY DEF requestTimeout, readTimeout, writeTimeout, Longest, Horizon, Opening, TimeoutsInOrder

(* The timers and the control state.                                       *)
Timers ==
  /\ requestTimeout \in Nat /\ readTimeout \in Nat /\ writeTimeout \in Nat
  /\ at \in [Requests -> Places]
  /\ age \in [Requests -> 0..Horizon]
  /\ drainAge \in 0..ShutdownTimeout

(* A connection is accepted and a request dropped in certain phases only.  *)
Idle == listener = "unstarted" /\ \A r \in Requests : at[r] = "none" /\ age[r] = 0
Phases ==
  /\ phase \in {"loading", "connecting"} => Idle
  /\ phase = "serving" => listener # "closed"
  /\ phase # "serving" => listener # "open"
  /\ phase # "exited" => \A r \in Requests : at[r] # "dropped"
  /\ phase = "exited" => \A r \in Requests : at[r] \in {"none", "dropped"}
  /\ phase \in {"loading", "connecting", "serving"} => drainAge = 0

(* With the timeouts in order nobody is served for longer than the longest *)
(* of them.  A connection without headers is at least as old as the drain, *)
(* and as it lasts no longer than Opening, a request has been served for   *)
(* all of the drain but that.                                              *)
Drains(r) ==
  /\ Serving(r) => age[r] <= Longest
  /\ phase = "draining" /\ at[r] = "opening" => drainAge <= age[r] /\ drainAge <= Opening
  /\ phase = "draining" /\ Serving(r) => drainAge <= age[r] + Opening

GInv == Timers /\ Phases /\ (TimeoutsInOrder => \A r \in Requests : Drains(r)) /\ GracefulStop

(* A process that has just begun has no requests and no drain. *)
LEMMA GInvInit == Init => GInv
<1> SUFFICES ASSUME Init PROVE GInv
  OBVIOUS
<1>1. requestTimeout = 0 /\ readTimeout = 0 /\ writeTimeout = 0
  BY DEF Init, NoConfig, requestTimeout, readTimeout, writeTimeout
<1>2. 0 \in 0..Horizon /\ ~TimeoutsInOrder
  BY <1>1, Durations DEF TimeoutsInOrder
<1> QED
  BY <1>1, <1>2, TimeoutsAreTicks DEF Init, GInv, Timers, Places, Phases, Idle, GracefulStop

(* config.Load comes before there are any requests. *)
LEMMA LoadStep ==
  ASSUME GInv, LoadConfig
  PROVE  GInv'
<1>1. requestTimeout' \in Nat /\ readTimeout' \in Nat /\ writeTimeout' \in Nat
  BY TimeoutsAreTicks
  DEF LoadConfig, Configs, GInv, Timers, requestTimeout, readTimeout, writeTimeout
<1>2. Horizon' \in Nat
  <2>1. \A m, n \in Nat : Larger(m, n) \in Nat
    BY DEF Larger
  <2> QED
    BY <1>1, <2>1, TimeoutsAreTicks DEF Horizon, Longest
<1>3. /\ at \in [Requests -> Places] /\ age \in [Requests -> 0..Horizon]
      /\ \A r \in Requests : at[r] = "none" /\ age[r] = 0
      /\ UNCHANGED <<at, age>>
  BY DEF LoadConfig, requests, GInv, Timers, Phases, Idle
<1>4. age' \in [Requests -> 0..Horizon']
  BY <1>2, <1>3
<1>5. \A r \in Requests : ~Serving(r)' /\ at'[r] # "opening"
  BY <1>3 DEF Serving
<1>6. Timers' /\ Phases' /\ GracefulStop'
  BY <1>1, <1>3, <1>4 DEF LoadConfig, GInv, Timers, Phases, Idle, GracefulStop
<1> QED
  BY <1>5, <1>6 DEF GInv, Drains

(* A step of the process that moves neither requests nor time. *)
LEMMA ProcessStep ==
  ASSUME GInv, Signal \/ ServeFails \/ Connect \/ Listen \/ ServerStopped \/ BeginShutdown
  PROVE  GInv'
<1>1. config' = config /\ UNCHANGED <<at, age, drainAge>>
  BY DEF Signal, ServeFails, Connect, Listen, ServerStopped, BeginShutdown, requests
<1>2. Timers'
  BY <1>1, ConfigStays DEF GInv, Timers
<1>3. Phases'
  BY <1>1 DEF GInv, Phases, Idle, Signal, ServeFails, Connect, Listen, ServerStopped, BeginShutdown
<1>4. TimeoutsInOrder' => \A r \in Requests : Drains(r)'
  <2> SUFFICES ASSUME TimeoutsInOrder, NEW r \in Requests PROVE Drains(r)'
    BY <1>1, ConfigStays
  <2>1. Drains(r) /\ Longest' = Longest /\ Opening' = Opening /\ Serving(r)' = Serving(r)
    BY <1>1, ConfigStays DEF GInv, Serving
  <2>2. phase' = "draining" => phase = "draining" \/ drainAge = 0
    BY DEF Signal, ServeFails, Connect, Listen, ServerStopped, BeginShutdown, GInv, Phases
  <2>3. age[r] \in Nat /\ Opening \in Nat
    BY Durations DEF GInv, Timers
  <2> QED
    BY <1>1, <2>1, <2>2, <2>3 DEF Drains
<1>5. GracefulStop'
  BY <1>1, ConfigStays
  DEF GInv, Phases, Idle, GracefulStop, Signal, ServeFails, Connect, Listen, ServerStopped, BeginShutdown
<1> QED
  BY <1>2, <1>3, <1>4, <1>5 DEF GInv

(* Every request of the drain has been served for all of it but Opening,   *)
(* and none is served that long: when the drain is over there is none.     *)
LEMMA EndOfDrain ==
  ASSUME GInv, Drained \/ DrainGivesUp
  PROVE  GInv'
<1>1. /\ config' = config /\ UNCHANGED <<at, age, drainAge, listener>>
      /\ phase = "draining" /\ phase' = "closing"
  BY DEF Drained, DrainGivesUp, requests
<1>2. Timers' /\ Phases'
  BY <1>1, ConfigStays DEF GInv, Timers, Phases, Idle
<1>3. TimeoutsInOrder' => \A r \in Requests : Drains(r)'
  BY <1>1, ConfigStays DEF GInv, Drains, Serving
<1>4. TimeoutsInOrder => Drained
  <2> SUFFICES ASSUME TimeoutsInOrder, DrainGivesUp PROVE FALSE
    OBVIOUS
  <2>1. PICK r \in Requests : Open(r)
    BY DEF DrainGivesUp
  <2>2. /\ Longest \in Nat /\ Opening \in Nat /\ age[r] \in Nat
        /\ Opening + Longest < ShutdownTimeout /\ drainAge = ShutdownTimeout
    BY Durations DEF GInv, Timers, TimeoutsInOrder, DrainGivesUp
  <2>3. Drains(r)
    BY DEF GInv
  <2>4. CASE at[r] = "opening"
    BY <1>1, <2>2, <2>3, <2>4, TimeoutsAreTicks DEF Drains
  <2>5. CASE Serving(r)
    BY <1>1, <2>2, <2>3, <2>5, TimeoutsAreTicks DEF Drains
  <2> QED
    BY <2>1, <2>4, <2>5 DEF Open
<1>5. GracefulStop'
  <2> SUFFICES ASSUME TimeoutsInOrder PROVE result' = "ok" /\ \A r \in Requests : at[r] = "none"
    BY <1>1, ConfigStays DEF GracefulStop
  <2>1. result' = "ok" /\ \A r \in Requests : ~Open(r)
    BY <1>4 DEF Drained
  <2>2. \A r \in Requests : at[r] \in Places /\ at[r] # "dropped"
    BY <1>1 DEF GInv, Timers, Phases
  <2> QED
    BY <2>1, <2>2 DEF Open, Serving, Places
<1> QED
  BY <1>2, <1>3, <1>5 DEF GInv

(* The end of the process drops only what a graceful stop has not left.    *)
LEMMA EndOfProcess ==
  ASSUME GInv, ClosePool
  PROVE  GInv'
<1>1. /\ config' = config /\ UNCHANGED <<age, drainAge, listener, result>>
      /\ phase = "closing" /\ phase' = "exited"
      /\ at' = [r \in Requests |-> IF Serving(r) THEN "dropped" ELSE "none"]
  BY DEF ClosePool
<1>2. Timers' /\ Phases'
  BY <1>1, ConfigStays DEF GInv, Timers, Places, Phases, Idle
<1>3. \A r \in Requests : Drains(r)'
  BY <1>1 DEF Drains, Serving
<1>4. GracefulStop'
  BY <1>1, ConfigStays DEF GInv, GracefulStop, Serving
<1> QED
  BY <1>2, <1>3, <1>4 DEF GInv

(* The ways of a request: its connection is accepted at an open listener, its headers  *)
(* make it young again, it is served without getting younger, or it ends.  *)
Moves(r, s) == at' = [at EXCEPT ![r] = s] /\ phase # "exited" /\ UNCHANGED process
Accepted(r) == Moves(r, "opening") /\ listener = "open" /\ age' = [age EXCEPT ![r] = 0]
Begins(r) ==
  /\ at[r] = "opening" /\ age' = [age EXCEPT ![r] = 0]
  /\ \E s \in {"reading", "waiting", "responding"} : Moves(r, s)
GoesOn(r) ==
  /\ Serving(r) /\ age' = age
  /\ \E s \in {"reading", "waiting", "running", "responding"} : Moves(r, s)
Ends(r) == at[r] \in {"opening", "responding"} /\ age' = [age EXCEPT ![r] = 0] /\ Moves(r, "none")

(* Every step of a request is one of these. *)
LEMMA RequestMoves ==
  ASSUME GInv, NEW r \in Requests, Accept(r) \/ Headers(r) \/ HangUp(r) \/ GoOn(r)
  PROVE  Accepted(r) \/ Begins(r) \/ GoesOn(r) \/ Ends(r)
<1>0. phase # "exited"
  <2>1. at[r] \in {"waiting", "running"} => phase # "exited"
    BY DEF GInv, Phases
  <2>2. listener = "open" => phase # "exited"
    BY DEF GInv, Phases
  <2> QED
    BY <2>1, <2>2 DEF Accept, Headers, HangUp, GoOn, Decode, Acquire, Statement, Refused, Timeout, CutOff, Respond
<1> USE <1>0 DEF Moves, Answer, Enqueue, Serving
<1>1. CASE Accept(r)
  BY <1>1 DEF Accept, Accepted
<1>2. CASE Headers(r)
  BY <1>2 DEF Headers, Handle, Begins
<1>3. CASE at[r] \in {"opening", "responding"} /\ End(r)
  BY <1>3 DEF End, Ends
<1>4. CASE at[r] \in {"reading", "waiting", "running"} /\ Answer(r) /\ UNCHANGED <<process, age>>
  BY <1>4 DEF GoesOn
<1>5. CASE Decode(r)
  BY <1>5 DEF Decode, Handle, GoesOn
<1>6. CASE Acquire(r)
  BY <1>6 DEF Acquire, GoesOn
<1>7. CASE Statement(r)
  BY <1>7 DEF Statement, GoesOn
<1>8. CASE Respond(r)
  BY <1>3, <1>8 DEF Respond
<1> QED
  BY <1>1, <1>2, <1>3, <1>4, <1>5, <1>6, <1>7, <1>8 DEF GoOn, HangUp, Refused, Timeout, CutOff

(* A request moves on. *)
LEMMA RequestStep ==
  ASSUME GInv, NEW r \in Requests, Accepted(r) \/ Begins(r) \/ GoesOn(r) \/ Ends(r)
  PROVE  GInv'
<1>0. /\ at' \in [Requests -> Places] /\ age' \in [Requests -> 0..Horizon]
      /\ \A d \in Requests : d # r => at'[d] = at[d] /\ age'[d] = age[d]
      /\ at'[r] # "dropped" /\ phase # "exited" /\ UNCHANGED process
  BY Durations DEF GInv, Timers, Places, Accepted, Begins, GoesOn, Ends, Moves
<1>1. Timers'
  BY <1>0, ConfigStays DEF Timers, GInv, process
<1>2. phase \notin {"loading", "connecting"}
  BY DEF GInv, Phases, Idle, Accepted, Begins, GoesOn, Ends, Serving
<1>3. Phases'
  BY <1>0, <1>2 DEF GInv, Phases, process
<1>4. TimeoutsInOrder' => \A d \in Requests : Drains(d)'
  <2> SUFFICES ASSUME TimeoutsInOrder, NEW d \in Requests PROVE Drains(d)'
    BY <1>0, ConfigStays DEF process
  <2>0. /\ Longest' = Longest /\ Opening' = Opening /\ phase' = phase /\ drainAge' = drainAge
        /\ Longest \in Nat /\ Opening \in Nat /\ drainAge \in Nat
    BY <1>0, ConfigStays, Durations, TimeoutsAreTicks DEF process, GInv, Timers
  <2>1. Drains(d)
    BY DEF GInv
  <2>2. CASE d # r
    BY <1>0, <2>0, <2>1, <2>2 DEF Drains, Serving
  <2>3. CASE d = r
    <3>0. /\ at \in [Requests -> Places] /\ age \in [Requests -> 0..Horizon] /\ Horizon \in Nat
      BY Durations DEF GInv, Timers
    <3>1. CASE Accepted(r)
      <4>1. at'[d] = "opening" /\ phase = "serving"
        BY <2>3, <3>0, <3>1 DEF Accepted, Moves, GInv, Phases
      <4> QED
        BY <2>0, <4>1 DEF Drains, Serving
    <3>2. CASE Begins(r)
      <4>1. at'[d] # "opening" /\ age'[d] = 0 /\ at[d] = "opening"
        BY <2>3, <3>0, <3>2 DEF Begins, Moves
      <4> QED
        BY <2>0, <2>1, <4>1 DEF Drains
    <3>3. CASE GoesOn(r)
      <4>1. at'[d] # "opening" /\ age'[d] = age[d] /\ Serving(d)
        BY <2>3, <3>0, <3>3 DEF GoesOn, Moves
      <4> QED
        BY <2>0, <2>1, <4>1 DEF Drains
    <3>4. CASE Ends(r)
      <4>1. at'[d] = "none"
        BY <2>3, <3>0, <3>4 DEF Ends, Moves
      <4> QED
        BY <4>1 DEF Drains, Serving
    <3> QED
      BY <3>1, <3>2, <3>3, <3>4
  <2> QED
    BY <2>2, <2>3
<1>5. GracefulStop'
  <2>1. listener = "closed" => at[r] # "none"
    BY DEF Accepted, Begins, GoesOn, Ends, Serving
  <2> QED
    BY <1>0, <2>1, ConfigStays DEF GInv, GracefulStop, process
<1> QED
  BY <1>1, <1>3, <1>4, <1>5 DEF GInv

(* Time passes for the drain and for the requests alike, up to the moment  *)
(* when one of them is due.                                                *)
LEMMA TickStep ==
  ASSUME GInv, Tick
  PROVE  GInv'
<1>0. /\ UNCHANGED <<phase, listener, result, config, at>>
      /\ age' = [r \in Requests |-> IF Open(r) /\ age[r] < Horizon THEN age[r] + 1 ELSE age[r]]
      /\ drainAge' = IF phase = "draining" THEN drainAge + 1 ELSE drainAge
      /\ phase = "draining" => drainAge < ShutdownTimeout
      /\ age \in [Requests -> 0..Horizon] /\ drainAge \in 0..ShutdownTimeout
  BY DEF Tick, GInv, Timers
<1>1. /\ Longest \in Nat /\ Horizon \in Nat /\ Opening \in Nat
      /\ requestTimeout <= Longest /\ readTimeout <= Longest /\ writeTimeout <= Longest
      /\ Longest <= Horizon /\ Opening <= Horizon /\ 0 < Opening
      /\ requestTimeout \in Nat /\ readTimeout \in Nat /\ writeTimeout \in Nat
  BY Durations DEF GInv, Timers
<1>2. age' \in [Requests -> 0..Horizon] /\ drainAge' \in 0..ShutdownTimeout
  BY <1>0, <1>1, TimeoutsAreTicks
<1>3. Timers'
  BY <1>0, <1>2, ConfigStays DEF Timers, GInv
<1>4. Phases'
  BY <1>0 DEF GInv, Phases, Idle, Open, Serving
<1>5. TimeoutsInOrder' => \A r \in Requests : Drains(r)'
  <2> SUFFICES ASSUME TimeoutsInOrder, NEW r \in Requests PROVE Drains(r)'
    BY <1>0, ConfigStays
  <2>0. /\ Longest' = Longest /\ Opening' = Opening /\ Serving(r)' = Serving(r)
        /\ age[r] \in Nat /\ drainAge \in Nat /\ age[r] <= Horizon
        /\ age'[r] = IF Open(r) /\ age[r] < Horizon THEN age[r] + 1 ELSE age[r]
    BY <1>0, <1>1, ConfigStays, TimeoutsAreTicks DEF Serving
  <2>1. Drains(r) /\ ~Due(r)
    BY DEF GInv, Tick
  <2>2. CASE Serving(r)
    <3>1. 0 < Deadline(r) /\ Deadline(r) <= Longest /\ Deadline(r) \in Nat
      BY <1>1, <2>2 DEF Deadline, Serving, TimeoutsInOrder, Larger
    <3>2. age[r] < Longest
      BY <1>1, <2>0, <2>1, <3>1 DEF Due
    <3>3. age'[r] = age[r] + 1 /\ at[r] # "opening"
      BY <1>1, <2>0, <2>2, <3>2 DEF Open, Serving
    <3> QED
      BY <1>0, <1>1, <2>0, <2>1, <2>2, <3>2, <3>3 DEF Drains
  <2>3. CASE at[r] = "opening" /\ phase = "draining"
    <3>1. Deadline(r) = Opening
      BY <2>3 DEF Deadline
    <3>2. age[r] < Opening
      BY <1>1, <2>0, <2>1, <3>1 DEF Due
    <3>3. age'[r] = age[r] + 1 /\ ~Serving(r)
      BY <1>1, <2>0, <2>3, <3>2 DEF Open, Serving
    <3> QED
      BY <1>0, <1>1, <2>0, <2>1, <2>3, <3>2, <3>3 DEF Drains
  <2>4. CASE ~Serving(r) /\ ~(at[r] = "opening" /\ phase = "draining")
    BY <1>0, <2>0, <2>4 DEF Drains
  <2> QED
    BY <2>2, <2>3, <2>4
<1>6. GracefulStop'
  BY <1>0, ConfigStays DEF GInv, GracefulStop
<1> QED
  BY <1>3, <1>4, <1>5, <1>6 DEF GInv

(* The invariant of the drain holds in every behaviour. *)
LEMMA GInvHolds == Spec => []GInv
<1>1. GInv /\ [Next]_vars => GInv'
  <2> SUFFICES ASSUME GInv, [Next]_vars PROVE GInv'
    OBVIOUS
  <2>1. CASE UNCHANGED vars
    BY <2>1, ConfigStays
    DEF vars, process, requests, GInv, Timers, Phases, Idle, Drains, Serving, GracefulStop
  <2>2. CASE LoadConfig
    BY <2>2, LoadStep
  <2>3. CASE Tick
    BY <2>3, TickStep
  <2>4. CASE Drained \/ DrainGivesUp
    BY <2>4, EndOfDrain
  <2>5. CASE \E r \in Requests : Accept(r) \/ Headers(r) \/ HangUp(r) \/ GoOn(r)
    BY <2>5, RequestMoves, RequestStep
  <2> QED
    BY <2>1, <2>2, <2>3, <2>4, <2>5, ProcessStep, EndOfProcess DEF Next, Run
<1> QED
  BY GInvInit, <1>1, PTL DEF Spec

(* internal/server/server.go, Run: when all the timeouts are on and over   *)
(* before that of the shutdown, a shutdown is always graceful.             *)
THEOREM StopIsGraceful == Spec => []GracefulStop
<1>1. GInv => GracefulStop
  BY DEF GInv
<1> QED
  BY GInvHolds, <1>1, PTL

-----------------------------------------------------------------------------
(* A sequence without its element i.                                       *)
LEMMA RemoveAtProperties ==
  ASSUME NEW S, NEW s \in Seq(S), NEW i \in 1..Len(s)
  PROVE  /\ RemoveAt(s, i) \in Seq(S) /\ Len(RemoveAt(s, i)) = Len(s) - 1
         /\ \A j \in 1..(Len(s) - 1) : RemoveAt(s, i)[j] = IF j < i THEN s[j] ELSE s[j + 1]
<1> DEFINE front == SubSeq(s, 1, i - 1)
           back == SubSeq(s, i + 1, Len(s))
<1>1. Len(s) \in Nat /\ i \in Nat /\ 1 <= i /\ i <= Len(s) /\ \A k \in 1..Len(s) : s[k] \in S
  BY LenProperties, ElementOfSeq
<1>2. /\ front \in Seq(S) /\ Len(front) = i - 1
      /\ \A k \in 1..(i - 1) : front[k] = s[k]
  BY <1>1, SubSeqProperties
<1>3. /\ back \in Seq(S) /\ Len(back) = Len(s) - i
      /\ \A k \in 1..(Len(s) - i) : back[k] = s[i + k]
  BY <1>1, SubSeqProperties
<1> HIDE DEF front, back
<1>4. /\ front \o back \in Seq(S) /\ Len(front \o back) = Len(s) - 1
      /\ \A j \in 1..(Len(s) - 1) :
           (front \o back)[j] = IF j <= i - 1 THEN front[j] ELSE back[j - (i - 1)]
  <2>1. /\ front \o back \in Seq(S) /\ Len(front \o back) = Len(front) + Len(back)
        /\ \A j \in 1..(Len(front) + Len(back)) :
             (front \o back)[j] = IF j <= Len(front) THEN front[j] ELSE back[j - Len(front)]
    BY <1>2, <1>3, ConcatProperties
  <2>2. Len(front) + Len(back) = Len(s) - 1
    BY <1>1, <1>2, <1>3
  <2> QED
    BY ONLY <2>1, <2>2, <1>2
<1>5. ASSUME NEW j \in 1..(Len(s) - 1)
      PROVE  (front \o back)[j] = IF j < i THEN s[j] ELSE s[j + 1]
  <2>0. j \in Nat /\ 1 <= j /\ j < Len(s)
    BY <1>1
  <2>1. CASE j < i
    <3>1. (front \o back)[j] = front[j] /\ j \in 1..(i - 1)
      BY <1>1, <1>4, <2>0, <2>1
    <3> QED
      BY <1>2, <2>1, <3>1
  <2>2. CASE j >= i
    <3>1. (front \o back)[j] = back[j - (i - 1)] /\ j - (i - 1) \in 1..(Len(s) - i)
      BY <1>1, <1>4, <2>0, <2>2
    <3>2. back[j - (i - 1)] = s[i + (j - (i - 1))] /\ i + (j - (i - 1)) = j + 1
      BY <1>1, <1>3, <2>0, <3>1
    <3> QED
      BY <1>1, <2>0, <2>2, <3>1, <3>2
  <2>3. j < i \/ j >= i
    BY <1>1, <2>0
  <2> QED
    BY <2>1, <2>2, <2>3
<1> QED
  BY <1>4, <1>5 DEF RemoveAt, front, back

(* Each request that waits for a connection is in the queue, once, and     *)
(* nobody else is; whoever waits or runs has a statement left to run.      *)
Holds(s, d) == \E i \in 1..Len(s) : s[i] = d
Distinct(s) == \A i, j \in 1..Len(s) : s[i] = s[j] => i = j
QueuedOnce ==
  /\ queue \in Seq(Requests) /\ Distinct(queue)
  /\ \A r \in Requests : at[r] = "waiting" <=> Holds(queue, r)
  /\ \A r \in Requests : at[r] \in {"waiting", "running"} => left[r] >= 1

(* The end of the process leaves the queue as it is. *)
QInv == TypeOK /\ (phase # "exited" => QueuedOnce)

(* The queue without a request that waits. *)
Without(r) == RemoveAt(queue, CHOOSE i \in DOMAIN queue : queue[i] = r)
LEMMA LeavesQueue ==
  ASSUME QueuedOnce, NEW r \in Requests, at[r] = "waiting"
  PROVE  /\ Without(r) \in Seq(Requests)
         /\ \A d \in Requests : Holds(Without(r), d) <=> d # r /\ Holds(queue, d)
         /\ Distinct(Without(r))
<1>1. Len(queue) \in Nat /\ DOMAIN queue = 1..Len(queue)
  BY LenProperties DEF QueuedOnce, Holds, Distinct
<1>2. PICK k \in 1..Len(queue) : queue[k] = r /\ Without(r) = RemoveAt(queue, k)
  <2> DEFINE k == CHOOSE i \in DOMAIN queue : queue[i] = r
  <2>1. \E i \in DOMAIN queue : queue[i] = r
    BY <1>1 DEF QueuedOnce, Holds, Distinct
  <2>2. k \in DOMAIN queue /\ queue[k] = r
    BY <2>1
  <2> QED
    BY <1>1, <2>2 DEF Without
<1> DEFINE w == RemoveAt(queue, k)
<1>3. /\ w \in Seq(Requests) /\ Len(w) = Len(queue) - 1
      /\ \A j \in 1..(Len(queue) - 1) : w[j] = IF j < k THEN queue[j] ELSE queue[j + 1]
  <2>1. queue \in Seq(Requests)
    BY DEF QueuedOnce
  <2> QED
    BY ONLY <2>1, RemoveAtProperties
<1> HIDE DEF w
<1>4. ASSUME NEW d \in Requests, NEW i \in 1..Len(w), w[i] = d
      PROVE  d # r /\ \E j \in 1..Len(queue) : queue[j] = d
  <2>1. PICK j \in 1..Len(queue) : j # k /\ queue[j] = d
    <3>1. CASE i < k
      BY <1>1, <1>3, <1>4, <3>1
    <3>2. CASE i >= k
      <4>1. i + 1 \in 1..Len(queue) /\ i + 1 # k /\ queue[i + 1] = d
        BY <1>1, <1>3, <1>4, <3>2
      <4> QED
        BY <4>1
    <3>3. i < k \/ i >= k
      BY <1>1, <1>3
    <3> QED
      BY <3>1, <3>2, <3>3
  <2> QED
    BY <1>2, <2>1 DEF QueuedOnce, Holds, Distinct
<1>5. ASSUME NEW d \in Requests, d # r, NEW j \in 1..Len(queue), queue[j] = d
      PROVE  \E i \in 1..Len(w) : w[i] = d
  <2>1. CASE j < k
    <3>1. j \in 1..Len(w) /\ w[j] = d
      BY <1>1, <1>3, <1>5, <2>1
    <3> QED
      BY <3>1
  <2>2. CASE j > k
    <3>1. j - 1 \in 1..Len(w) /\ w[j - 1] = d
      BY <1>1, <1>3, <1>5, <2>2
    <3> QED
      BY <3>1
  <2>3. j # k
    BY <1>2, <1>5
  <2> QED
    BY <1>1, <2>1, <2>2, <2>3
<1>6. ASSUME NEW i \in 1..Len(w), NEW j \in 1..Len(w), w[i] = w[j]
      PROVE  i = j
  <2> DEFINE Old(n) == IF n < k THEN n ELSE n + 1
  <2>1. ASSUME NEW n \in 1..Len(w) PROVE Old(n) \in 1..Len(queue) /\ w[n] = queue[Old(n)]
    <3>1. n \in 1..(Len(queue) - 1) /\ w[n] = IF n < k THEN queue[n] ELSE queue[n + 1]
      BY <1>3
    <3>2. n \in 1..Len(queue) /\ n + 1 \in 1..Len(queue)
      BY <1>1, <3>1
    <3> QED
      BY ONLY <3>1, <3>2
  <2>2. Old(i) = Old(j)
    <3>1. \A x, y \in 1..Len(queue) : queue[x] = queue[y] => x = y
      BY DEF QueuedOnce, Holds, Distinct
    <3>2. /\ Old(i) \in 1..Len(queue) /\ w[i] = queue[Old(i)]
          /\ Old(j) \in 1..Len(queue) /\ w[j] = queue[Old(j)]
      BY <2>1
    <3> HIDE DEF Old
    <3> QED
      BY ONLY <1>6, <3>1, <3>2
  <2> QED
    BY <1>1, <1>3, <2>2
<1>7. Without(r) = w
  BY <1>2 DEF w
<1>8. \A d \in Requests : (\E i \in 1..Len(w) : w[i] = d) <=> d # r /\ \E i \in 1..Len(queue) : queue[i] = d
  <2> TAKE d \in Requests
  <2>1. ASSUME NEW i \in 1..Len(w), w[i] = d PROVE d # r /\ \E j \in 1..Len(queue) : queue[j] = d
    BY ONLY <1>4, <2>1
  <2>2. ASSUME d # r, NEW j \in 1..Len(queue), queue[j] = d PROVE \E i \in 1..Len(w) : w[i] = d
    BY ONLY <1>5, <2>2
  <2> QED
    BY ONLY <2>1, <2>2
<1>9. \A i, j \in 1..Len(w) : w[i] = w[j] => i = j
  BY ONLY <1>6
<1> QED
  BY ONLY <1>3, <1>7, <1>8, <1>9 DEF Holds, Distinct

(* The queue with a request at its end that was not in it. *)
LEMMA JoinsQueue ==
  ASSUME QueuedOnce, NEW r \in Requests, at[r] # "waiting"
  PROVE  /\ Append(queue, r) \in Seq(Requests)
         /\ \A d \in Requests : Holds(Append(queue, r), d) <=> d = r \/ Holds(queue, d)
         /\ Distinct(Append(queue, r))
<1> DEFINE w == Append(queue, r)
           n == Len(queue)
<1>1. n \in Nat
  BY LenProperties DEF QueuedOnce, Holds, Distinct
<1>2. /\ w \in Seq(Requests) /\ Len(w) = n + 1
      /\ w[n + 1] = r /\ \A i \in 1..n : w[i] = queue[i]
  BY AppendProperties DEF QueuedOnce, Holds, Distinct
<1>3. 1..(n + 1) = 1..n \cup {n + 1} /\ n + 1 \notin 1..n
  BY <1>1
<1>4. \A i \in 1..n : queue[i] # r
  BY DEF QueuedOnce, Holds, Distinct
<1>5. \A i, j \in 1..n : queue[i] = queue[j] => i = j
  BY DEF QueuedOnce, Holds, Distinct
<1> HIDE DEF w, n, Holds, Distinct
<1>6. \A d \in Requests : (\E i \in 1..Len(w) : w[i] = d) <=> d = r \/ \E i \in 1..n : queue[i] = d
  BY ONLY <1>2, <1>3
<1>7. \A i, j \in 1..Len(w) : w[i] = w[j] => i = j
  BY ONLY <1>2, <1>3, <1>4, <1>5
<1> QED
  BY <1>2, <1>6, <1>7 DEF w, n, Holds, Distinct

(* The queue without its head. *)
LEMMA LeavesFirst ==
  ASSUME QueuedOnce, NEW r \in Requests, at[r] = "waiting", Head(queue) = r
  PROVE  /\ Tail(queue) \in Seq(Requests)
         /\ \A d \in Requests : Holds(Tail(queue), d) <=> d # r /\ Holds(queue, d)
         /\ Distinct(Tail(queue))
<1> DEFINE w == Tail(queue)
           n == Len(queue)
<1>1. PICK k \in 1..n : queue[k] = r
  BY DEF QueuedOnce, Holds, Distinct
<1>2. n \in Nat /\ n >= 1 /\ queue # <<>> /\ queue[1] = r
  BY <1>1, LenProperties DEF QueuedOnce, Holds, Distinct
<1>3. /\ w \in Seq(Requests) /\ Len(w) = n - 1
      /\ \A i \in 1..Len(w) : w[i] = queue[i + 1]
  BY <1>2, HeadTailProperties DEF QueuedOnce, Holds, Distinct
<1>4. \A i, j \in 1..n : queue[i] = queue[j] => i = j
  BY DEF QueuedOnce, Holds, Distinct
<1> HIDE DEF w, n, Holds, Distinct
<1>5. ASSUME NEW d \in Requests, NEW i \in 1..Len(w), w[i] = d
      PROVE  d # r /\ \E j \in 1..n : queue[j] = d
  <2>1. i + 1 \in 1..n /\ i + 1 # 1 /\ 1 \in 1..n /\ queue[i + 1] = d
    BY <1>2, <1>3, <1>5
  <2> QED
    BY <1>2, <1>4, <2>1
<1>6. ASSUME NEW d \in Requests, d # r, NEW j \in 1..n, queue[j] = d
      PROVE  \E i \in 1..Len(w) : w[i] = d
  <2>1. j # 1
    BY <1>2, <1>6
  <2>2. j - 1 \in 1..Len(w) /\ w[j - 1] = d
    BY <1>2, <1>3, <1>6, <2>1
  <2> QED
    BY <2>2
<1>7. ASSUME NEW i \in 1..Len(w), NEW j \in 1..Len(w), w[i] = w[j]
      PROVE  i = j
  <2>1. i + 1 \in 1..n /\ j + 1 \in 1..n /\ queue[i + 1] = queue[j + 1]
    BY <1>2, <1>3, <1>7
  <2> QED
    BY <1>4, <2>1
<1> QED
  BY <1>3, <1>5, <1>6, <1>7 DEF w, n, Holds, Distinct

(* Of the types, a step of a request disturbs those of left and stuck and, *)
(* beyond those of the timers, no others.                                  *)
LEMMA RequestKeepsTypes ==
  ASSUME QInv, GInv', queue' \in Seq(Requests), UNCHANGED process,
         left' \in [Requests -> 0..Statements], stuck' \in [Requests -> BOOLEAN]
  PROVE  TypeOK'
BY DEF QInv, TypeOK, GInv, Timers, process

(* A request moves on, and the queue with it.                              *)
LEMMA QueueMoves ==
  ASSUME QueuedOnce, NEW r \in Requests, NEW s,
         at \in [Requests -> Places], at' = [at EXCEPT ![r] = s],
         queue' \in Seq(Requests), Distinct(queue'),
         \A d \in Requests : d # r => (Holds(queue', d) <=> Holds(queue, d)),
         Holds(queue', r) <=> s = "waiting",
         \A d \in Requests : d # r => left'[d] = left[d],
         s \in {"waiting", "running"} => left'[r] >= 1
  PROVE  QueuedOnce'
<1>1. \A d \in Requests : at'[d] = IF d = r THEN s ELSE at[d]
  OBVIOUS
<1>2. \A d \in Requests : at'[d] = "waiting" <=> Holds(queue', d)
  BY <1>1 DEF QueuedOnce
<1>3. \A d \in Requests : at'[d] \in {"waiting", "running"} => left'[d] >= 1
  BY <1>1 DEF QueuedOnce
<1>4. \A d \in Requests : Holds(queue, d)' <=> Holds(queue', d)
  BY DEF Holds
<1>5. Distinct(queue)' <=> Distinct(queue')
  BY DEF Distinct
<1> QED
  BY <1>2, <1>3, <1>4, <1>5 DEF QueuedOnce

(* Nobody waits for a connection of a process that has just begun. *)
LEMMA QInvInit == Init => QInv
<1> SUFFICES ASSUME Init PROVE QInv
  OBVIOUS
<1>1. queue \in Seq(Requests) /\ Len(queue) = 0
  BY EmptySeq DEF Init
<1>2. TypeOK
  <2>1. GInv /\ 0 \in 0..Statements /\ config \in {NoConfig}
    BY GInvInit, TimeoutsAreTicks DEF Init
  <2> QED
    BY <1>1, <2>1 DEF GInv, Timers, Init, TypeOK
<1>3. QueuedOnce
  BY <1>1 DEF Init, QueuedOnce, Holds, Distinct
<1> QED
  BY <1>2, <1>3 DEF QInv

(* What is so of a request that can move. *)
Movable ==
  /\ QInv /\ GInv' /\ phase # "exited" /\ QueuedOnce
  /\ at \in [Requests -> Places] /\ left \in [Requests -> 0..Statements]
  /\ stuck \in [Requests -> BOOLEAN]

(* A request that does not wait for a connection moves without waiting.    *)
LEMMA PassesBy ==
  ASSUME Movable, NEW r \in Requests, NEW s, at[r] # "waiting", s \notin {"waiting", "running"},
         at' = [at EXCEPT ![r] = s], UNCHANGED <<process, queue>>,
         left' \in [Requests -> 0..Statements], \A d \in Requests : d # r => left'[d] = left[d],
         stuck' \in [Requests -> BOOLEAN]
  PROVE  QInv'
<1>1. queue' \in Seq(Requests) /\ Distinct(queue') /\ ~Holds(queue', r)
  BY DEF Movable, QueuedOnce
<1>2. QueuedOnce'
  BY <1>1, QueueMoves DEF Movable
<1>3. TypeOK'
  BY <1>1, RequestKeepsTypes DEF Movable
<1> QED
  BY <1>2, <1>3 DEF QInv

(* A request that is answered leaves the queue. *)
LEMMA AnswerStep ==
  ASSUME Movable, NEW r \in Requests, Answer(r), LeaveQueue(r), UNCHANGED process
  PROVE  QInv'
<1>1. /\ at' = [at EXCEPT ![r] = "responding"]
      /\ left' \in [Requests -> 0..Statements] /\ \A d \in Requests : d # r => left'[d] = left[d]
      /\ stuck' \in [Requests -> BOOLEAN]
  BY TimeoutsAreTicks DEF Answer, Movable
<1>2. CASE at[r] = "waiting"
  <2>1. queue' = Without(r)
    BY <1>2 DEF LeaveQueue, Without
  <2>2. /\ queue' \in Seq(Requests) /\ Distinct(queue') /\ ~Holds(queue', r)
        /\ \A d \in Requests : d # r => (Holds(queue', d) <=> Holds(queue, d))
    BY <1>2, <2>1, LeavesQueue DEF Movable
  <2>3. QueuedOnce'
    BY <1>1, <2>2, QueueMoves DEF Movable
  <2>4. TypeOK'
    BY <1>1, <2>2, RequestKeepsTypes DEF Movable
  <2> QED
    BY <2>3, <2>4 DEF QInv
<1>3. CASE at[r] # "waiting"
  <2>1. queue' = queue
    BY <1>3 DEF LeaveQueue
  <2> QED
    BY <1>1, <1>3, <2>1, PassesBy
<1> QED
  BY <1>2, <1>3

(* A request that wants a connection joins the queue. *)
LEMMA EnqueueStep ==
  ASSUME Movable, NEW r \in Requests, at[r] # "waiting", NEW n \in 1..Statements,
         left' = [left EXCEPT ![r] = n], Enqueue(r), UNCHANGED process
  PROVE  QInv'
<1>1. /\ at' = [at EXCEPT ![r] = "waiting"] /\ queue' = Append(queue, r)
      /\ stuck' \in [Requests -> BOOLEAN]
  BY DEF Enqueue, Movable
<1>2. /\ left' \in [Requests -> 0..Statements] /\ left'[r] >= 1
      /\ \A d \in Requests : d # r => left'[d] = left[d]
  BY TimeoutsAreTicks DEF Movable
<1>3. /\ queue' \in Seq(Requests) /\ Distinct(queue') /\ Holds(queue', r)
      /\ \A d \in Requests : d # r => (Holds(queue', d) <=> Holds(queue, d))
  BY <1>1, JoinsQueue DEF Movable
<1>4. QueuedOnce'
  BY <1>1, <1>2, <1>3, QueueMoves DEF Movable
<1>5. TypeOK'
  BY <1>1, <1>2, <1>3, RequestKeepsTypes DEF Movable
<1> QED
  BY <1>4, <1>5 DEF QInv

(* A request that is served by the pool leaves the queue at its head. *)
LEMMA AcquireStep ==
  ASSUME Movable, NEW r \in Requests, Acquire(r)
  PROVE  QInv'
<1>1. /\ at[r] = "waiting" /\ Head(queue) = r /\ queue' = Tail(queue)
      /\ at' = [at EXCEPT ![r] = "running"] /\ UNCHANGED <<process, left>>
      /\ stuck' \in [Requests -> BOOLEAN]
  BY DEF Acquire, Movable
<1>2. /\ queue' \in Seq(Requests) /\ Distinct(queue') /\ ~Holds(queue', r)
      /\ \A d \in Requests : d # r => (Holds(queue', d) <=> Holds(queue, d))
  BY <1>1, LeavesFirst DEF Movable
<1>3. left'[r] >= 1
  BY <1>1 DEF Movable, QueuedOnce
<1>4. QueuedOnce'
  BY <1>1, <1>2, <1>3, QueueMoves DEF Movable
<1>5. TypeOK'
  BY <1>1, <1>2, RequestKeepsTypes DEF Movable
<1> QED
  BY <1>4, <1>5 DEF QInv

(* The steps of a request. *)
LEMMA QueueStep ==
  ASSUME QInv, GInv, GInv', NEW r \in Requests, Accept(r) \/ Headers(r) \/ HangUp(r) \/ GoOn(r)
  PROVE  QInv'
<1>1. phase # "exited"
  BY RequestMoves DEF Accepted, Begins, GoesOn, Ends, Moves
<1>2. Movable
  BY <1>1 DEF Movable, QInv, TypeOK
<1>3. CASE Accept(r)
  BY <1>2, <1>3, PassesBy DEF Accept, Movable
<1>4. CASE Answer(r) /\ LeaveQueue(r) /\ UNCHANGED process
  BY <1>2, <1>4, AnswerStep
<1>5. CASE Answer(r) /\ queue' = queue /\ at[r] # "waiting" /\ UNCHANGED process
  <2>1. LeaveQueue(r)
    BY <1>5 DEF LeaveQueue
  <2> QED
    BY <1>4, <1>5, <2>1
<1>6. CASE Handle(r) /\ at[r] # "waiting" /\ UNCHANGED process
  BY <1>2, <1>5, <1>6, EnqueueStep DEF Handle
<1>7. CASE Headers(r)
  <2>1. CASE Handle(r)
    BY <1>6, <1>7, <2>1 DEF Headers
  <2>2. CASE ~Handle(r)
    <3>1. /\ at' = [at EXCEPT ![r] = "reading"] /\ at[r] # "waiting" /\ UNCHANGED <<process, left, queue>>
          /\ \E b \in BOOLEAN : stuck' = [stuck EXCEPT ![r] = b]
      BY <1>7, <2>2 DEF Headers
    <3> QED
      BY <1>2, <3>1, PassesBy DEF Movable
  <2> QED
    BY <2>1, <2>2
<1>8. CASE at[r] \in {"opening", "responding"} /\ End(r)
  BY <1>2, <1>8, PassesBy DEF End, Movable
<1>9. CASE Statement(r)
  <2>1. at[r] = "running" /\ UNCHANGED process
    BY <1>9 DEF Statement
  <2>2. CASE Answer(r) /\ UNCHANGED queue
    BY <1>5, <2>1, <2>2
  <2>3. CASE left[r] > 1 /\ left' = [left EXCEPT ![r] = @ - 1] /\ Enqueue(r)
    <3> DEFINE n == left[r] - 1
    <3>1. left[r] \in Nat /\ left[r] <= Statements /\ Statements \in Nat
      BY <1>2, TimeoutsAreTicks DEF Movable
    <3>2. n \in 1..Statements
      BY <2>3, <3>1
    <3>3. left' = [left EXCEPT ![r] = n]
      BY <2>3
    <3> HIDE DEF n
    <3> QED
      BY <1>2, <2>1, <2>3, <3>2, <3>3, EnqueueStep
  <2> QED
    BY <1>9, <2>2, <2>3 DEF Statement
<1>10. CASE Acquire(r)
  BY <1>2, <1>10, AcquireStep
<1>11. CASE Decode(r)
  BY <1>6, <1>11 DEF Decode
<1>12. CASE HangUp(r) \/ CutOff(r) \/ Respond(r)
  BY <1>4, <1>5, <1>8, <1>12 DEF HangUp, CutOff, Respond
<1> QED
  BY <1>3, <1>4, <1>7, <1>9, <1>10, <1>11, <1>12 DEF GoOn, Refused, Timeout

(* The steps of the process leave the requests and the queue alone, but    *)
(* for the end, which drops whoever is under way.                          *)
LEMMA ProcessKeepsQueue ==
  ASSUME QInv, GInv, GInv', Signal \/ ServeFails \/ Run \/ Tick
  PROVE  QInv'
<1>1. CASE ClosePool
  BY <1>1 DEF ClosePool, QInv, TypeOK, GInv, Timers
<1>2. CASE ~ClosePool
  <2>1. UNCHANGED <<at, left, stuck, queue>>
    BY <1>2 DEF Signal, ServeFails, Run, Tick, LoadConfig, Connect, Listen, ServerStopped,
                BeginShutdown, Drained, DrainGivesUp, requests
  <2>2. TypeOK'
    <3>1. /\ phase' \in {"loading", "connecting", "serving", "draining", "closing", "exited"}
          /\ signalled' \in BOOLEAN
          /\ listener' \in {"unstarted", "open", "failed", "closed"}
          /\ result' \in {"none", "ok", "error"}
          /\ config' \in Configs \cup {NoConfig}
      BY <1>2 DEF QInv, TypeOK, Signal, ServeFails, Run, Tick, LoadConfig, Connect, Listen,
                  ServerStopped, BeginShutdown, Drained, DrainGivesUp
    <3> QED
      BY <2>1, <3>1 DEF QInv, TypeOK, GInv, Timers
  <2>3. phase = "exited" => phase' = "exited"
    BY <1>2 DEF Signal, ServeFails, Run, Tick, LoadConfig, Connect, Listen, ServerStopped,
                BeginShutdown, Drained, DrainGivesUp
  <2>4. QueuedOnce => QueuedOnce'
    BY <2>1 DEF QueuedOnce, Holds, Distinct
  <2> QED
    BY <2>2, <2>3, <2>4 DEF QInv
<1> QED
  BY <1>1, <1>2

(* The queue holds those who wait in every behaviour. *)
LEMMA QInvHolds == Spec => []QInv
<1>1. QInv /\ GInv /\ GInv' /\ [Next]_vars => QInv'
  <2> SUFFICES ASSUME QInv, GInv, GInv', [Next]_vars PROVE QInv'
    OBVIOUS
  <2>1. CASE UNCHANGED vars
    <3>1. UNCHANGED <<process, at, left, stuck, queue>>
      BY <2>1 DEF vars, requests
    <3>2. QueuedOnce => QueuedOnce'
      BY <3>1 DEF QueuedOnce, Holds, Distinct
    <3>3. TypeOK'
      BY <3>1 DEF process, QInv, TypeOK, GInv, Timers
    <3> QED
      BY <3>1, <3>2, <3>3 DEF process, QInv
  <2> QED
    BY <2>1, QueueStep, ProcessKeepsQueue DEF Next
<1> QED
  BY GInvHolds, QInvInit, <1>1, PTL DEF Spec

(* The pool never loses a request that waits, and a handler whose request  *)
(* is not over has a statement to run: the types of Lifecycle hold.        *)
THEOREM TypesHold == Spec => []TypeOK
<1>1. QInv => TypeOK
  BY DEF QInv
<1> QED
  BY QInvHolds, <1>1, PTL
=============================================================================
