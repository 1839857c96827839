# groups-control in TLA+

A verification project for the groups-control service: a REST API in Go that keeps a tree of
groups and the people in them in PostgreSQL. The modules model the service statement by
statement, TLC checks them on small instances, and TLAPS proves the properties that matter
most for any number of groups, people and concurrent requests.

`src/` below is the repository. `PROJECT.json` maps every definition to the lines it models.

## 1. The system

| component | state | operations | modelled in |
|---|---|---|---|
| Use cases (`internal/usecase`) | none of their own; local variables between two repository calls | GroupService: Create, Update, Delete, Get, List, Counts; PersonService: Create, Update, Delete, Get, ListByGroup | `Service`, `Reads`, `Walk` |
| Repositories (`internal/adapters/repository/postgres`) | the tables; they only hold the pool | one SQL statement per call (List and ListByGroup: two), mapping of PostgreSQL errors | `Store`, `Reads` |
| Schema (`migrations/000001_init.up.sql`) | `groups`, `people` | primary keys, foreign keys with ON DELETE RESTRICT, CHECKs, `updated_at` triggers | `Store`, `Validation` |
| Domain (`internal/domain`) | none | construction and validation, sentinel errors | `Validation`; one bit in `Contract` |
| HTTP handlers, mapping (`internal/adapters/http`) | none | twelve handlers, `pagination`, DTOs, `mapError` | `Pipeline`, `Contract`, `Reads` |
| Middleware, router | the context of a request | request id, recovery, access log, timeout, 404 and 405 | `Pipeline`; the timeout also as `Cancel` and `Lifecycle!Timeout` |
| Generated code (`gen/api.gen.go`) | none | routes, binding, decoding, response visitors | `Pipeline` |
| Server, main, pool, configuration | listener, pool of connections | start, signal, graceful shutdown, ping | `Lifecycle` |

How they interact. A request goes through the middleware and the generated code to a handler,
which calls one use case (GetGroup: two). A use case makes one to four repository calls; each
is one SQL statement on some connection of the pool, committed on its own: **the code opens no
transaction and takes no lock**. Requests share nothing but the tables. So everything hard
about this system happens between two statements of one request, when statements of others
run: a check is stale by the time of the write it guards, the counts of one response belong to
different moments, a row found a moment ago is gone. The foreign keys are the only guard that
is atomic with a write, and the mapping of their errors decides what the caller is told. The
other hard part is the recursion: `WITH RECURSIVE .. UNION ALL` does not end on a cycle, so one
bad row turns into requests that never return. Timeouts end a request at any point, also
between the commit of a write and the reading of its answer.

What makes each component correct:

- *use cases*: no cycle among groups; each request takes effect once and entirely, or is
  refused for a reason that is true; what slips past a check is still reported as the right error;
- *repositories, schema*: no dangling reference; the recursion returns the subtree and ends;
- *reads*: an undisturbed response is exactly that of the tables; a disturbed one is at least
  consistent where it comes from one statement; every read is answered;
- *domain*: what validation lets through is what the schema accepts, and what it refuses is
  refused for the reason it gives;
- *middleware, generated code*: one response per request, in the common error format, logged
  with the status it really had, and traceable when it is a 500;
- *server, pool*: a stop lets requests finish, a stuck statement does not stop the others.

## 2. Modules

| module | what it is |
|---|---|
| `Contract` | the modifying requests, the outcomes of the use cases, `mapError` |
| `Store` | the two tables as functions (`parent`: id of a group to its `parent_id`, `member`: id of a person to its `group_id`); trees and cycles; the recursive query; the result and the row change of every writing statement; the error mappings |
| `Service` | the modifying use cases as handlers over the store, one action per statement |
| `Directory` | the abstract specification: what a caller may rely on, with no statements in it |
| `Reads` | the reading use cases, one action per statement, with writers in between |
| `Walk` | a client that walks a listing page by page, over `Reads` |
| `Lifecycle` | one process from start to exit: configuration, listener, connections and their requests, signal, shutdown, pool and its queue, timeouts in ticks |
| `Validation` | the rules for payloads: those of the domain, in bytes, and those of the schema, in characters |
| `Pipeline` | one HTTP exchange: middleware chain, router, generated code, handler, error handlers, both logs |
| `MCService` | `Service` for TLC, with its symmetry |
| `StoreProofs` | lemmas on trees and cycles |
| `SubtreeProofs` | the recursive query, round by round, returns the subtree |
| `ServiceProofs` | the inductive invariant and the safety theorems of `Service` |
| `PromiseProofs` | `Service` implements `Directory` |
| `ReadsProofs` | what a response says, disturbed or not, for tables of any size |
| `WalkProofs` | what a walk through the pages can miss or repeat |
| `LifecycleProofs` | a shutdown is graceful when the timeouts are in order |
| `PipelineProofs` | no caller causes a 500; logs and answers of every exchange |

`Service` extends `Store`, which extends `Contract`; `Service` instantiates `Directory` with a
refinement mapping (`Promise`). `Walk` extends `Reads`, which extends `Store`. `Pipeline` extends
`Validation` and `Contract`, whose `mapError` and `Refusals` it shares with `Service`: that a use
case returns nothing else is `RacesAreMapped` of `Service`.

State and code. `pc[h]` is the repository call that handler `h` makes next, `arg[h]` its
request, `reply[h]` the outcome it was answered with. What a use case does between two calls
touches only its local variables, so it is part of the action of the call before it (or, for
validation, which precedes a write, of that write). `overtaken[h]` is history: another move
committed after `h`'s cycle check. The two tables and `bornGroups`, `bornPeople` (ids are never
reused) are all that handlers share.

- Statements are atomic, as PostgreSQL's single-statement transactions at READ COMMITTED are
  for these statements: each writes one row by primary key, and the foreign-key checks see the
  latest committed rows and lock them.
- `Cancel` is the end of a request's context at any moment. A write that committed may still be
  answered `aborted` (`Committed`).
- A cycle check that starts on a cycle goes to `"hung"`, which only `Cancel` leaves: its
  snapshot is fixed, so no later write can end it.
- Deleting at once every group of a cycle is PostgreSQL's one deadlock here (`Deadlocked`);
  the loser is answered 500.
- A group with children and people violates two constraints; which is reported is left open.
- `valid` stands for the domain's validation. It is nondeterministic in every request that carries
  a payload, and is looked at where the code validates, after the lookups.

In `Reads` one reader stands for all, since reads do not disturb one another; the writers are
the row changes that `Store` allows, any number of them between any two statements of the
reader. It starts over any database that keeps its integrity, those with cycles included
(`Service` shows that they can arise). Ids are numbers there and stand for the order by
`created_at, id`. `parent_id` of a list request is in the request and, as in the code, unread.

`Walk` adds the client that the pagination object of the responses is made for. It is not in
the repository; it asks for the page behind the last one, asks again after a timeout, and
stops in one of the two ways there are, at a page that is not full or when `offset + limit`
reaches `total`. `stayed`, `left` and `came` are history of the listing during the walk.

In `Lifecycle`, `config` is what `config.Load` read, any of the configurations given by
`PoolSizes`, `RequestTimeouts`, `ReadTimeouts` and `WriteTimeouts`; a failing `Load` and a signal
before `NotifyContext` end the process. `phase` is where `main.run` is, `listener` and `result` are
what `ListenAndServe` and `run` return. The select of `Run` is two actions that may both be
enabled.

`at` is where a request is. A client connects (`Accept`: `"opening"`) and sends headers, with which
the chain of middleware is entered (`Headers`). The body is read behind it, in the generated code
(`"reading"`, `Decode`), so the connection is active for `Shutdown`; but the context that
`timeoutMiddleware` gives the handler has no part in that read, which only the read timeout ends.
Then the request waits in the queue of the pool, in the pool's order (`"waiting"`), and runs its
statements one by one (`"running"`: an error or the last one ends the handler, otherwise the
connection goes back first). The response is written (`"responding"`) and the connection is idle
again. A body, a statement or a response can be `stuck`: it does not end by itself, because the
client does not go on, or the statement is on a cycle of groups or behind a lock. `Deadline` says
what ends it then: the request timeout or the client's going away a statement and a wait for the
pool, the read timeout a body, read and write timeout a response (before net/http lets go of a
connection it reads what the handler left of the body). The signal's context is not the requests'.
A request with a slow body comes to the pool with its context already over. The pool's `Close`
waits for what is given out and refuses who waits.

`Shutdown` waits for active connections and, for net/http's grace of five seconds
(`NewConnGrace`), for the headers on new ones: a request may well start during the drain. A
kept connection between two requests is idle and counts as none; its next request is an
`Accept` and `Headers`. Time is counted in ticks; a timer that is due fires, and what it cuts
off unwinds, before the next tick. Timers run from the headers on. The code's read timeout
runs from the first byte of them, so that a body may be cut off up to `Opening` earlier than the
model says, which it covers as a body that breaks off.

In `Validation` a text is a record of the blanks around it, the characters between them, the
bytes of each and whether there is U+0000 among them: all that `len`, `TrimSpace` and `char_length`
can tell apart. A body that lacks a field, or is `null`, decodes to empty texts and the year 0.

In `Pipeline`, `stage` and `depth` say where the exchange is: `depth` middlewares of `chain` have
been entered and not left, so a writer or a context is that of a depth (`RecordsAt`,
`RequestIDAt`), and a panic (`Unwind`) goes up through them without what they do afterwards.
`Bind` and `Decode` are the generated wrappers and strict handlers, `Call` the handler with the
outcomes its use case can have for the payload (`Returns`) and for no fault of the caller
(`Failures`), `Visit` the response object, whose write may fail once the client has gone or is too slow for
the write timeout,
`HandleError` the error handler. `wire` is what net/http gets: the first status, and every
body written after it. Binding, decoding, refusals and faults are nondeterministic; validity
follows from the payload. Requests use the methods chi knows. Exchanges share nothing there,
so one at a time stands for all.

## 3. What the runs check

All ran to completion with no error except the six that are expected to fail.

| run (cfg) | bounds | shows |
|---|---|---|
| `reparent_race` (`MCRace`) | 2 groups, 2 handlers | **violated**: `Acyclic`. Two moves cross and close a cycle, against `api/openapi.yaml:145` |
| `promise` (`MCPromise`) | 3 groups, 1 person, 2 handlers, all operations | `TypeOK`; `Inv`: the inductive invariant of the proofs. `SubtreeIsCTE`: the recursion, round by round as PostgreSQL runs it, returns the least closed set the properties speak of, and does not end exactly on a cycle. `ReferentialIntegrity`. `CyclesComeFromRaces`: only the write of an overtaken move closes a cycle. `CyclesAreSticky`: only a move to the root, or a move already past its check, opens one. `ImplementsDirectory`. `RacesAreMapped`: a race ends in an error this operation may be refused with, and none but the deadlock in a 500 |
| `hang` (`MCHang`) | 3 groups, 2 handlers | `HangsOnlyOnCycles`: liveness without timeouts |
| `pages` (`MCPages`) | every database of up to 3 groups and 2 people; limits none, 0, 1, above the maximum; offsets none, 1, 2 | `QuietAnswersAreExact`, `PagesAreConsistent`, `NobodyTwice` |
| `walk` (`MCWalk`) | every database of up to 2 groups and 2 people, pages of at most 1 row | `SkipsAreShifts`, `RepeatsAreShifts`: a walk loses or repeats a row only because another left or came in before it, or, for a client that goes by the total, came in after the total was taken. `ReadsHangOnlyOnCycles`: liveness without timeouts and with writers that never pause |
| `counts_race` (`MCCounts`) | as `pages`, one page | **violated**: `CountsAgree`. GetGroup may answer `direct_count` 1, `total_count` 0, against `api/openapi.yaml:435` |
| `parent_filter` (`MCFilter`) | as `counts_race`, with a filter | **violated**: `FilterIsHonoured`. The filter of `api/openapi.yaml:106` has no effect |
| `process` (`MCProcess`) | 2 requests of up to 2 statements; 1 or 2 connections, request timeout 1 or off, read timeout 2 or off, write timeout 2, grace 1, shutdown timeout 4 | `TypeOK`; `GracefulStop`: with all timeouts on and over before the shutdown timeout nothing is dropped, whatever is stuck where. `RequestsEnd`, `ProcessStops`: whatever is stuck, wherever the signal falls; `WaitsOnlyForStuck`: handlers do not block one another |
| `exit_code` (`MCExitCode`) | 1 request | **violated**: `FailuresAreReported`. A failure next to a signal exits with 0, against `internal/server/server.go:51` |
| `pipeline` (`MCPipeline`) | names of 0, 128, 255 and 256 characters of 1 or 2 bytes, with or without blanks and U+0000; years 1899, 1900, 2100, 2101; every method on every path; with and without the timeout | `LogIsTrue`: one line per exchange under the id the caller was told, of the access log with the status that was sent, or of the recovery, which has none, when the handler panicked and 500 was sent. `FaultsAreTraceable`: every 500 has one error line under that id. `AnswersAreWhole`: one body, in the error format from 400 on, and Allow on a 405. `CallersCauseNoFault`: no payload but one with U+0000 is answered 500 |
| `byte_lengths` (`MCLengths`) | as `pipeline` | **violated**: `LongNamesAreLong`. 128 letters of two bytes are "at most 255 characters" too many, against `internal/domain/group.go:47` |
| `undocumented_status` (`MCStatuses`) | as `pipeline` | **violated**: `StatusesAreDocumented`. A malformed id is answered 400 by operations for which `api/openapi.yaml:130` and its like list none |

Why these bounds. Two handlers are enough for any race of one check with one write, and three
groups are the smallest tree on which a subtree is more than a group and its children, a cycle can
have a group hanging below it, and a move can be out of, into or past a cycle. A third handler
adds nothing a pair does not show for the safety properties: those are proved for any number, as
are those of every other run. `RoomFor` bounds creation by the number of ids. In `Reads` the
limits are scaled (default 2, maximum 3) so that three rows fill, overflow and miss a page. TLC's
symmetry is used where only safety is checked, never with liveness. In `Walk` a page of one row
with two rows is the smallest listing with a next page, and every shift of a row across the edge
between two pages is one of these. In `Lifecycle` one connection for two requests gives waiting
behind a stuck statement, two connections for two requests of two statements give two requests
that hold one each and want another, which is what a handler that keeps its connection blocks on.
With grace 1 and timeouts of 1 and 2 the shutdown timeout of 4 is the least that is in order, by a
tick: with `<=` in `TimeoutsInOrder` `GracefulStop` is violated. In `Pipeline` the sizes lie on
both sides of every limit, in bytes and in characters. Deadlock is checked in every run but those
of `Lifecycle`, whose process ends.

Mutants. Every property of a passing run is listed with a mutant of the code that breaks it,
such as swapped arguments of the descendant query, a recursion joined the wrong way, a missing
cycle check, UNION for UNION ALL,
confused constraint names, a limit of zero passed on, an offset off by one, a middleware in the
wrong place, or a missing return after an error was written. They are the definitions commented
`Mutant` next to the ones they replace.

## 4. Fairness

`FairSpec` in `Service` asks weak fairness of each handler's next statement, and `WalkSpec` of
the reader's: a goroutine that is runnable runs, and PostgreSQL finishes a statement that can
finish. Nothing is assumed of the pool (each statement gets a connection), so the liveness
properties do not speak of its exhaustion. `Cancel` is not fair: no timeout need fire
(`HTTP_REQUEST_TIMEOUT=0` switches it off), so what is shown to be answered is answered without
its help. Weak fairness is enough because no other handler can disable a pending statement; a
hung one has no action left and fairness asks nothing of it.

`FairSpec` in `Lifecycle` asks it of the process's own steps, of what each request can do by
itself or its timers do to it (`GoOn`), and of time. The pool is then fair because it serves in
turn. The signal, failures of the listener, a client's headers and its going away need not
happen; what is stuck has no step, so only a timeout ends it.

## 5. What is proved

Every invariant and every action property that a passing run checks is a theorem, and so is the
refinement: for any number of groups, people, handlers, requests and connections, any limits,
sizes of texts and settings. What the constants are assumed to be:

| assumption | why the code justifies it |
|---|---|
| `NullIsNoId` | NULL is not a value of a column of ids |
| `IdsAreFinite` | `gen_random_uuid`: there are 2^128 ids at most; only the lemmas that count rows use it |
| `IdsAreRanks` | in `Reads` ids stand for their place in the order by `created_at, id`, which is total |
| `LimitsAreOrdered`, `ParametersAreIntegers` | the two constants of `pagination`; limit and offset are bound as integers or absent |
| `PoolHasConnections`, `TimeoutsAreTicks` | a pool has a connection at least; durations are natural numbers. Their order is part of the properties |
| `GraceIsPositive` | net/http's grace for a new connection is five seconds |
| `CharactersTakeBytes`, `SizesAreNumbers` | UTF-8: a character takes a byte at least |

| theorem | property |
|---|---|
| `ServiceProofs!Invariance` | `Spec => []Inv` |
| `TypeCorrectness`, `Integrity` | `[]TypeOK`, `[]ReferentialIntegrity` |
| `RecursionIsRight` | `[]SubtreeIsCTE` |
| `CyclesAreRaces` | `CyclesComeFromRaces` |
| `CyclesStay` | `CyclesAreSticky` |
| `SerialIsAcyclic` | `SerialSpec => []Acyclic`: the interleaving of check and write is the only cause of cycles. No run of its own; `CyclesComeFromRaces` in `promise` says the same step by step |
| `RacesHaveAnswers` | `RacesAreMapped` |
| `Refinement` | `Spec => ImplementsDirectory` |
| `ReadsProofs!Invariance` | `Spec => []Inv`, of `Reads` |
| `AnswersAreExact` | `[]QuietAnswersAreExact` |
| `PagesAgree`, `NobodyIsTwice` | `[]PagesAreConsistent`, `[]NobodyTwice` |
| `SkipsHaveCauses`, `RepeatsHaveCauses` | `WalkSpec => []SkipsAreShifts`, `[]RepeatsAreShifts` |
| `StopIsGraceful` | `[]GracefulStop`; the property speaks of the configurations with request, read and write timeout on and `Opening + Longest < ShutdownTimeout` |
| `TypesHold` | `[]TypeOK`, in `Lifecycle` |
| `CallersAreSafe` | `[]CallersCauseNoFault`, in `Pipeline` |
| `TheLogIsTrue`, `EveryFaultIsTraceable`, `EveryAnswerIsWhole` | `[]LogIsTrue`, `[]FaultsAreTraceable`, `[]AnswersAreWhole` |

**Cycles.** Referential integrity is inductive once it is known which lookups a handler has
behind it. Acyclicity is not: that the new parent lies outside the moved subtree was true when
the check ran and has to survive until the write. The strengthening is `CheckStillHolds`: as
long as no other move to a new parent has committed, the moved group and its new parent are
`Apart`, that is, some set of groups holds the one and all that hangs below it and not the
other. The set may contain groups deleted in the meantime (it is taken from `bornGroups`),
which makes it survive deletions; a new group is put into it or not according to its parent; a
move to the root only takes from the subtree. So `Apart` is kept by every step but another
move, and that one sets `overtaken`. At the write, `Apart` gives that no new cycle closes.
`StoreProofs` has the lemmas this rests on. `Subtree` is defined as a least closed set rather
than by recursion, so that they follow from the definition, with no induction:
`SubtreeIsLeast`, `AncestorsOfCyclesAreOnThem`, `ApartClosesNoCycle`, `OutsideUpdateKeepsCycles`,
and that insertions, deletions and moves to the root keep groups apart.

**The recursion.** `SubtreeProofs` shows that this definition is what the query computes, for a
table of any shape. A row of round `n` is the end of a path of `n` steps down (`Level`), and the
union of the levels is closed and in every closed set that has the root: where it were not, there
would be a least `n` at which a path leaves the set. Two facts need counting. With as many rounds
as there are groups nothing is missed, since the shortest path to a group comes through none
twice. And if the last round still has rows, its path is longer than there are groups, so it
comes through one twice, and a group has one parent: going up in step from both places, the root
comes again, and is on a cycle. Conversely a cycle can be walked round for any number of rounds.

**Reads.** The inductive invariant says of a reader that nobody has disturbed yet (`~touched`)
that what its earlier statements saw is still so (`Remembered`): without it, an undisturbed
response would not follow from its last statement alone. The rest is about the queries, one
snapshot each. `EverybodyIsCountedOnce`: outside cycles a group is on one level only, so the join
of people with the recursion has no duplicates and its count is that of the subtree; on a cycle
the recursion does not answer. `WindowIsRanked`: LIMIT and OFFSET over rows in order are the rows
whose `Rank` (how many come before) lies in the window. `PagesAreMeant`: the window is the one of
the request's limit and offset as `mapper.go` corrects them; the contract has bounds for them
and does not say what becomes of a number outside.
`CountsOfAChild`: the direct members of a parent and the total of its child are disjoint parts
of the parent's total, so the counts on a page agree although nothing orders the transactions
around it.

**Walk.** The walk has come to an offset (`Reached`). What it was given had a smaller rank when it
was delivered and still has, unless something came in before it (`Behind`); what it has yet to be
given has at least that rank, unless something left before it (`Ahead`); and a total that was
taken covers the rows that stayed, unless something came in (`Counted`). Each writer adds or takes
away ids, and `RanksShrink` says whose ranks move. At the end of the walk `Ahead` leaves no room
for a row that stayed.

**Refinement.** An action of `Service` is an action of `Directory` or a stutter: `Accept` is
`Submit`, a cycle check that passes is `Clear`, a successful write is `Commit`, every refusal is
`Refuse` with a reason that `Inv` shows to hold at that instant. `Directory` needs the separate
`Clear` since the code does not make the check true at the instant of the write; that gap is
the cycle of `reparent_race`. `RacesHaveAnswers` follows each handler through its path: which
operations reach a step (`OnPath`), and that what the step may fail with is among their refusals.

**Lifecycle.** For `StopIsGraceful` the strengthening relates each request to the drain
(`Drains`). None is accepted once the listener is closed, and every tick ages requests and drain
alike, so a connection still without headers is at least as old as the drain, and is closed at the
age `Opening`. A request that is served had its headers at that age of the drain at the latest,
so the drain is older than it by `Opening` at most; and it is served for `Longest` at most, since
whatever it does then is over: that is one case for each place it can be in, and none holds
without the read timeout, which is the one that ends a body. So no request is left when the drain
is older than both together. The order this takes is stricter than it looks: the defaults
(10 s to read, 10 s to write, 8 s for the request, 15 s for the shutdown) miss it, though barely,
as 5 s of grace and 10 s of reading are just 15. For the types it is `QueuedOnce`, that the
queue holds those who wait, each once, and nobody else: whoever gives up waiting is taken out of
the middle of the queue.

**Pipeline.** For `CallersAreSafe` the core is `NamesPassChecks`: a trimmed name of `n` characters
of `w` bytes with `1 <= n*w <= 255` has `1 <= n <= 255`, since `w >= 1`; so a rule that counts
bytes where the CHECK counts characters is never too weak. Around it, the invariant follows the
exchange: up to the response object nothing is written, a use case that returns an error
`mapError` does not know met U+0000 or a fault, a panic is a fault, and the first status stays.
The results on logs and answers follow it further, to what has been written and logged at each
place of the chain (`AnswerInv`): on the way in nothing (`Unanswered`), on the way out one whole
answer (`Whole`), and a line of the access log exactly when its middleware is behind (`Logged`),
which is where the order of recovery, access log and request id comes in.

What stays with TLC: the liveness properties (`HangsOnlyOnCycles`, `ReadsHangOnlyOnCycles`,
`RequestsEnd`, `ProcessStops`, `WaitsOnlyForStuck`), since fairness and ENABLED are beyond the
prover.
Inductions over data are not available as such; the few that are needed (levels of the recursion,
ranks of rows) are done by a least counterexample, whose existence the library proves
(`LeastNumber`), or by counting.

## 6. Findings

1. Two concurrent moves can close a cycle (`reparent_race`). From then on reads and moves below
   it run until their timeout, and the API has one way to repair it, to make a group of the
   cycle a root (`CyclesAreSticky`).
2. GetGroup can answer with more direct than total members (`counts_race`).
3. The `parent_id` filter of the list is ignored (`parent_filter`).
4. A listener that fails at the moment of the signal is not reported (`exit_code`).
5. Lengths are counted in bytes: names of 128 to 255 Cyrillic letters are refused with a
   message that is not true of them (`byte_lengths`).
6. A malformed id is answered 400 by four operations whose contract lists no 400
   (`undocumented_status`).
7. An exchange whose handler panics has no line with its status. `internal/adapters/http/middleware.go:66`
   says that the access log has one for every request ("по каждому запросу: метод, путь,
   статус"); the panic goes through `loggingMiddleware` before it has logged, and the line
   of the recovery outside of it has method, path and id but no status. `LogIsTrue` states what
   the code does, and so passes: the status, which is 500 then, and the duration are in no line.
   It is told here only; the other findings have a run.

Not a disagreement with any doc, but worth knowing: a name with U+0000 passes validation and is
answered 500 (`CallersCauseNoFault` excepts it); a response whose client has gone is logged as a
failed request with status 500 next to an access-log line with 200.

Likewise, a graceful stop needs more than a request timeout below the shutdown timeout: a
client that sends its body slowly is bounded by the read timeout alone, and one that connects
just before the signal has five seconds to send headers (`TimeoutsInOrder`).
`ProcessStops` needs the request timeout.
With `HTTP_REQUEST_TIMEOUT=0` a stuck statement outlives the shutdown timeout and keeps the
deferred `pool.Close` (`cmd/server/main.go:53`), and with it the process, waiting; in practice
until PostgreSQL has filled the disk for temporary files with an endless recursion.

## 7. Left out, and the plan

Not modelled: MinConns and the lifetimes of idle connections, the idle timeout, the settings
other than timeouts and pool size, `created_at` and `updated_at` but for the order they give, the seed rows,
mocks, tests, build and deployment. In `Pipeline`: the values of query parameters (`Reads` has
them), failures of encoding (every response object can be encoded), `errEmptyBody` and the nil
group of `Person.Validate`, which nothing reaches, the response objects of errors, which no
handler returns, and methods unknown to chi. A client that repeats a create which was cut off
makes a second row; the contract promises nothing else, so there is no property of it.

Planned next, in this order:

1. Safety of the liveness properties: that outside cycles a handler always has a next
   statement that can run, in `Service` and in `Reads`.
2. Action properties of `Directory`, which `Refinement` hands on to `Service`: what a caller
   was refused has had no effect, what was answered stays until another request changes it.
3. `Walk` with both causes at once: how many rows a walk can miss for the rows that left.
