# Verification of db2rest-bridge

TLA+ models of db2rest-bridge, checked by TLC on small instances, and theorems
about them that TLAPS proves for all values of the constants. The models are
translated from the Go code in `pkg/`; `PROJECT.json` gives, for every
definition, the source lines it stands for.

## The system

db2rest-bridge is a service that exposes the tables of MySQL backends as a REST
API, and a Go client for it.

| Component | State | Operations | Status |
|---|---|---|---|
| Item handlers, `pkg/server/ops.go`, `misc.go` | none of their own; a goroutine and a context per request | `CreateItem`, `GetItemById`, `ExistsItemById`, `UpdateItemById`, `DeleteItemById`, `BulkUpdate`, `ListItems`, `QueryNamed` | modelled; of `QueryNamed` the gates and statuses |
| CRUD implementation, `pkg/crud/impl.go`, `misc.go` | `mdCache` (column metadata, expiring) | `Create`, `Update`, `Delete`, `Get`, `Exists`, `MultiCreate`, `MultiUpdate`, `MultiDelete`, `ListItems` | modelled |
| database/sql and MySQL (external) | pool of `max_open_connections`, rows, row locks, transactions, `AUTO_INCREMENT` | queries, statements, `BeginTx`, `Commit`, `Rollback`, `awaitDone` | modelled from its use |
| Errors to statuses, `pkg/server/server.go` | none | `mysqlError2status`, error mapper | modelled: statuses in `Crud`, media types in `Exchange` |
| Loading a table, `pkg/client/misc.go` | `loaded`, `results` of a loop | `LoadAllInBatch` over `List` | modelled |
| In-memory client, `pkg/client/inmemory.go`, `filter.go` | a slice | `List`, `ApplyPaging`, predicates; `Create`, `Get`, `Update`, `Delete` | `List` and predicates modelled; the others are one slice operation each, `BulkUpdate` and `Query` panic by design |
| Query codec, `pkg/query` | none | builder, `ToParams`, `EncodeRequest`, `FromParams`, filters to and from JSON and to SQL | modelled, without `LIKE` and quoting |
| HTTP client and generated code, `pkg/client`, `pkg/api/gen.go` | a call on its way | `Create`, `Get`, `Update`, `Delete`, `BulkUpdate`, `Query`, request builders, routes, wrappers, `Parse*Response` | modelled |
| Configuration and lifecycle, `pkg/types`, `server.Run`, `main.go` | the open backends and their handles | `CheckAndNormalize`, `Open`, `Run`, `Close` | modelled |
| Catalogue handlers, telemetry, CORS, logging | none | | not modelled: they change no state of the service |

How the parts interact: a handler checks the backend, the entity and the body,
and calls `crud.Interface`. That checks the permission, and works through
`database/sql`, in which every statement outside a transaction borrows a
connection of the pool, and a transaction keeps one from `BeginTx` to `Commit`
or `Rollback`. Before a body is written its values are converted with the
column metadata, which `mdCache` loads by a query of its own. Errors come back
through the same calls and are mapped to a status, with a body in JSON or in
plain text. The client turns a call into a request, and the status and the body
of the answer into a result, an error, or a panic. Before all this the process
reads its configuration, opens each backend and executes its DDL.

What is hard here, and what a unit test hardly reaches:

* Requests run concurrently, and most handlers use the database more than once.
  Between the existence check, the statement and the read-back of an update,
  and between the statements of a batch, others write the same rows.
* Each step may fail: the statement, the reply after its effect, the read-back,
  the load of the metadata, the commit; or the client leaves, and
  `database/sql` rolls back a transaction whose handler is still running.
* The pool is bounded, and a bulk transaction needs a second connection.
* A handler can panic between `BeginTx` and `Commit`, where nothing is deferred.
* A table is read by a COUNT and a SELECT per page that no transaction holds
  together.
* A query goes through four representations before it selects rows; a
  conversion that loses an operand, a sign or a kind gives an answer that looks
  right.
* The caller of the client may go away while the service works on, and then call
  again; what it is told has to be true of the table all the same.
* A start executes DDL that stays when the process fails or is killed half way,
  and the next start executes it again.

`PROJECT.json` lists these hazards line by line with the properties that would
catch them going wrong.

## The modules

| Module | What it is |
|---|---|
| `Requests` | the vocabulary: keys, bodies, rows, requests, which permission each operation needs |
| `ItemStore` | the contract: a request takes effect at most once, at one instant, as a whole |
| `Crud` | the service: handlers, CRUD code, cache, pool, table, locks and transactions |
| `CrudInvariant` | the inductive invariant `IInv` |
| `CrudProofs`, `CrudBatchProofs`, `CrudTheorems`, `CrudRefinement` | theorems about `Crud` |
| `MCCrud` | small instances of `Crud` |
| `Listing` | `LoadAllInBatch` over both kinds of client, beside writers; its properties and invariant |
| `ListingProofs` | theorems about `Listing` |
| `MCListing` | small instances of `Listing` |
| `Filters` | the filter language: expressions, JSON, SQL and what it means to MySQL, the in-memory predicates |
| `QueryCodec` | the way of a query from the builder to the rows, through each encoder or in memory |
| `QueryCodecProofs` | theorems about `Filters` and `QueryCodec` |
| `MCQueryCodec` | small instances of `QueryCodec` |
| `Exchange` | callers of the Go client around `Crud`: requests, routes, bodies, what a call returns |
| `ExchangeProofs` | theorems about `Exchange` |
| `MCExchange` | small instances of `Exchange` |
| `Lifecycle` | the process over its starts: configuration, backends and DDL, serving, closing |
| `LifecycleProofs` | theorems about `Lifecycle` |
| `MCLifecycle` | small instances of `Lifecycle` |

`Exchange` extends `Crud` (through `CrudInvariant`), and both are refinements
of `ItemStore`: `Crud` from the side of the service, `Exchange` from the side of
the caller.

### Crud

A *slot* is a request goroutine. `pc[r]` is where it is and `req[r]` what it
serves; each action is what it does up to the next point at which another
goroutine's database work can come between. The handlers share their steps:

* `RefuseInvalid`, `IgnoreUnknownMode`, `RefuseBatch`, `Forbid`, `Enter`: from the
  arrival to the first use of the database, in the order of the code
  (`extractIds` runs before the permission is looked at, the empty batch is
  found after it).
* `ServeRead`, `CheckExists`, `ReadBack`: `fetchOneItem`, which takes a broken
  result for its end.
* `UseCache`, `Miss`, `Load`, `Expire`: `mdCache` and its loader, which takes a
  connection of its own.
* `Connect`, `ExecCreate`, `ExecUpdate`, `ExecDelete`, `Refuse`, `LockFails`:
  statements outside a transaction, and how the database refuses them.
* `BeginTx`, `NextObject`, `Panic`, `AllDone`, `ExecInTx`, `Commit`,
  `CommitFails`, `TxIsDone`: the loops of `MultiCreate` and `MultiUpdate`.
* `Leave`, `Cancel`, `AwaitDone`: a client that goes away, and what
  `database/sql` does with the context that ends.

`pend[r]` are the rows that r's transaction has written and holds locked.
Keys are small numbers, the other columns one value, and a row is `typed` when
its value was converted with the metadata. Connections, locks and
`AUTO_INCREMENT` are external and modelled from how the code uses them:
statements read what is committed when they run, and wait for or fail at the
row locks of others.

### Listing

The table is the sequence of the rows that match the filter, in the order of
the query; a row is named by the number of its insertion. `CountItems` and
`FetchRows` are the two queries of `crud.ListItems`, `FetchLess` is `fetchRows`
when the connection breaks, `ListInMemory` is `imCrud.List`. `AppendRow`,
`InsertRow` and `RemoveRow` are the other clients. Without orders each SELECT
may return the rows in another order (`Orders`).

The loop ends when the rows loaded are exactly as many as the last answer
counted (`misc.go:86`). A row deleted behind the offset makes that impossible,
and a row appended between each COUNT and its SELECT puts it off for as long as
the appends go on: what is loaded stays one ahead of the count. So `LoadAllEnds`
has two premises: nobody deletes during the load, and those who insert stop some
time (`WritersStop`). Nothing in the code assures either.

### Filters and QueryCodec

A filter is the sequence of its nodes, each a record by its type, as the structs
of `pkg/query/filter.go`. Where the code has a pointer to an operand a node has
its place, and operands come first (`IsExpression`); the last node stands for the
whole, `<<>>` is no filter. Its JSON is a sequence of objects in the same way. So
encoding and decoding work on each node by itself, and the two evaluations,
`Truths` and `Verdicts`, are functions of the places: no operator is recursive.
Texts are numbers; constants give the place of each in the collation (several
texts may share one), the number MySQL reads from a text, and the text `fmt`
prints for a value. `Truth` (of the last node) is what `WHERE` makes of an
expression, in three truth values; `Malformed` is an expression whose `String` is
no SQL; `FilterExpressionAsPredicate` is the in-memory counterpart. `Crash` is a
type assertion of the decoder that panics: `net/http` then closes the connection.

Two equalities are at work. MySQL compares texts by their places in the
collation, and numbers by their values; the in-memory client compares with
`cmp.Equal` (`client/filter.go:35`, `:46`), for which texts are equal when they
are the same and numbers when their Go types are the same too. In the
`utf8mb4_unicode_ci` tables of the repository `'Bob' = 'bob'` is true to MySQL
and false in memory; an `int64` literal beside an `int` item (a `Long` beside a
`Number`) likewise. `InMemoryAgrees` is therefore stated for the literals on which
both agree (`Exact`): numbers of the items' own type, and texts that the
collation tells from all others. Without that condition TLC finds `TRUE` and
`true`. JSON has one type of number (`Encoded`).

In `QueryCodec` a query is built (`Build`), put into parameters by `ToParams`
(`Send`, from `generic.List`) or `EncodeRequest` (`SendRequest`), bound and
decoded (`Receive`) and answered (`ListItems`); `ListInMemory` is the other
client, `SendForeign` one that writes its parameters itself, any of them or none.
What cannot be read (`Readable`: a page that is no pair of ints, a filter that is
no JSON object) is answered 400. An answer is a
status and a description of the list: the rows that match, the orders, the
offset and the size. How pages are cut and read is the subject of `Listing`.
An integer of the code has `2 * Half` values: an offset is an `int` for the
caller and in `ListItemsParams`, and a `uint64` in a page.

### Exchange

Each caller has a slot of `Crud` that serves its requests. `stage[r]` is where
its call is:

* `Call`, `Send`: the call is made, and its request (`RequestFor`) reaches the
  service. `RequestFor` is what `excludeProps` and `onlyProps` of
  `client/misc.go` leave of the objects.
* `Unsent`, `NoRoute`: no connection is had or the encoder fails; the path has
  an empty segment or one too many and the router answers 404.
* `Query`: `QueryNamed`, whose rows nothing is known of, in one step.
* `Return`: the answer arrives. `Contents` is the body that goes with its status
  (handlers write JSON, the error mapper plain text), `Decoded` the statuses whose
  body `Parse*Response` decodes, `Followed` those where the client uses the
  decoded pointer, and `Concluded` what the call then returns.
* `Abandon`: the caller goes away or the connection breaks. The service learns of
  it as in `Crud` (`Leave`), and its slot works on.

A slot belongs to one caller, so a caller makes its next call when its slot is
through with the last (`Idle`). The next calls of other callers do not wait.

`ImplementsForCaller` is the contract of `ItemStore` for the calls instead of the
requests. `Meant` is what the caller asked for: in REPLACE, UPDATE and DELETE
the ids are part of it, elsewhere a read-only id is not. A call that returned an
error without an answer is still open in the contract while the service works on
its request (`CallerPhase`), because it may yet take effect, once.

### Lifecycle

A behaviour is a sequence of starts with one configuration, over databases that
outlive them (`applied`). `Reject` and `CheckAndNormalize` are `pkg/types`,
`OpenHandle`, `ExecDDL`, `DDLFails` and `Opened` are `BackendConfig.Open` in the
loop of `server.Run`, `Listen` and `Close` the rest of it, `Rethrow`, `Exit` and
`Kill` end the process. The check of the server's section is in a library and may
fail (`server`). `main` panics with the error of a `Run` that fails, and the
deferred `Close` runs before that panic goes on (`Rethrow`). `Stop` is for programs that embed the server: `main.go` passes
`context.Background()`, which never ends. The loop runs over a map, in any
order.

A DDL statement is `repeatable`, or `once` when it fails after it has taken
effect before. A configuration with a `once` statement whose start was
interrupted behind it never comes into service again.

`Close` panics as soon as one backend is in service, because `crud.impl` embeds
an `io.Closer` that nobody sets (`crud/types.go:73`).

## What is checked

| Run | Instance | Shows |
|---|---|---|
| `crud_singles` | 2 slots, every single-item request, 3 keys, `AUTO_INCREMENT`, pool of 2, refused statements and lost replies | types; a client is shown what it wrote; the contract |
| `crud_bulk` | 2 slots, every bulk mode, batches that overlap, repeat a row, or mix present and new ones; refused statements | the rows of an open batch; a failed batch changes nothing; the contract |
| `crud_mixed` | a bulk, panicking or unknown request beside single ones; no `AUTO_INCREMENT`; failing metadata and reads; clients leave | the inductive invariant; connections come back; the contract |
| `crud_pool` | 3 slots on a pool of 2, one slot with transactions that may panic, no permission to delete; clients leave | an empty pool gets a connection back; every request is answered, every transaction ends |
| `listing` | 1 loader, up to 4 rows ever inserted, pages of 2, both clients, ordered or not, failing and truncated queries | the inductive invariant; what an ordered load returns; that it ends once the inserts have stopped, if nobody deletes |
| `codec` | several hundred filters two levels deep over a number and a text column, with literals of every kind, 2 lists of orders, offsets at both ends of 4 bits, both encoders, foreign parameters with a page, half a page, no page or no JSON | a query means at the service what it meant to its caller; no filter is lost; the in-memory client finds the same rows, where both equalities agree; what was decoded once is stable |
| `exchange` | 2 callers, one with read-only ids, every kind of call, no permission to update, `MaxOpen` 2; failing metadata and reads; callers go away | who is told of a refusal may rely on it; the contract, as the caller meant it; the invariant of its proof |
| `lifecycle` | files of up to 2 backends with up to 2 statements each, any number of starts; server section or DDL refused or its reply lost, address taken, process killed | what serves is ready; which handles are left; a sound configuration comes into service; the inductive invariant |
| `found_*` | the smallest instance that shows it | see *Divergences* |

Bounds, and why they suffice. Two slots, because the properties relate a
request to one other; three where they compete for two connections. Three keys
are one that is there, one that is new, and one that the counter gives. Batches of
two objects have a first, a repeated and a last statement, and a point between
two. For `listing`, a page of two and four rows are a page, a second page, and
rows that are deleted or inserted before, inside and behind the part loaded;
loaders do not interact, so one is enough there. The proofs have none of these
bounds. For `codec`, every expression type appears alone, below NOT, and in
junctions of none, one and two operands, one of them twice; the proofs are for
expressions of any size. For `exchange`, one row that is there and one
new id are enough for what the client adds to `Crud`, whose bounds are wider in
runs of their own: a REPLACE there has one object because batches are the
subject of `crud_bulk`. `lifecycle` has no bound on the number of starts; two
backends are one that is open while the other fails, two statements one that has
taken effect while the other has not. Two numbers and
seven texts hold a text that is the print of a number, one that is not but reads
as the same number, the texts of `nil`, `true` and `false`, and two texts with one
place in the collation.

`MaxBorn` bounds the rows ever inserted, so that in the instance of `listing` the
inserts stop in every behaviour: the premise `WritersStop` of `LoadAllEnds` holds
there of itself, and the run says nothing of writers that go on.

The properties of `codec` say for which queries they hold, and each condition
on the query is needed: without it TLC finds a counterexample. `Portable` excludes literals
of a simple expression that mean something else as a text (`codec.go:183`) and
nil slices, on which the decoder panics; the offset has to fit into an `int`.
`Exact` and `Filled` exclude what MySQL converts, texts that the collation takes
for others, and NULL. (`Malformed`
only leaves out filters that have no SQL to compare with.) A NOT of nothing is
lost by `EncodeRequest` (`codec.go:143`).

Fairness. A goroutine that can go on does. The conditions of `Handle` that
another slot can take away again are the free connection and the row lock:
`database/sql` hands a released connection to a waiter picked at random and
MySQL grants locks in turn, so fairness is strong (`SF`). `AwaitDone` is a
goroutine of `database/sql` that waits for nothing but its context: weak
fairness. In `Listing`, the SELECT needs strong fairness because a broken
connection (`FetchLess`) may come first any number of times, but not every time.
In `Lifecycle` the goroutine of `main` goes on by itself (`WF`), and nothing
restarts the process: `Start`, `Stop` and `Kill` are not fair. No
specification assumes that a client, a writer or a failure does anything. That
writers stop is no fairness either but the premise of `LoadAllEnds`.

Mutants. For each property of each passing run `PROJECT.json` names a plausible
bug (a rollback forgotten, a statement run outside its transaction, an offset
counted in batches) under which TLC finds the property violated.

### Divergences

Runs whose property is what a document or a test says, and which TLC violates:

* `found_pool_deadlock`: `MultiCreate` and `MultiUpdate` ask `mdCache` for the
  metadata inside their transaction, and the loader needs a second connection.
  As many such requests as the pool has connections wait for each other for
  ever; the loader does not know the request's context, so leaving does not help.
* `found_numeric_id`: a bulk UPDATE whose ids are JSON numbers panics.
* `found_client_panic`: a creation that fails is answered 500 in plain text, and
  the client reads the message of a JSON body it has not decoded: the caller
  panics (`client/ops.go:79`). The same pattern is at `ops.go:94`, `:130` and `:183`,
  which the instance of this run does not reach.
* `found_readonly_replace`: `BulkUpdate` strips read-only properties from the
  objects of a REPLACE, the id too when it is one of them; the service inserts a
  new row beside the one to be replaced.

Met while modelling and part of the models, without runs of their own: a bulk
request with an unknown mode is answered 200 (`ops.go:171`); `Create`
on a table without `AUTO_INCREMENT` reads back id 0 and answers 201 with `null`
(the TODO at `impl.go:351`); a creation whose read-back fails answers 500
although the row is there; a broken read is answered 404, because `rows.Err()`
is not looked at (`impl.go:108`) and a page is cut short for the same reason
(`impl.go:221`); an update needs the read permission too; an item deleted
during its update is answered 202 with the body `null` (`openapi.yaml:258`
promises the updated object); an order without a direction is descending
(`query.go:69`, against `openapi.yaml:131`); `LoadAll` over the in-memory client
returns one page, because `List` reports the length of its page as the total
(`inmemory.go:43`); an error of a bulk call carries the status 200
(`client/misc.go:50`); closing a server that served panics, and a backend whose
DDL failed keeps its handle (`types.go:92`).

## What is proved

`Crud`, for any number of slots, keys, values, permissions, workloads, pool
sizes and faults:

* `CrudProofs`: `TypeCorrect`, `Connections` (no path keeps a connection),
  `FailedBatch` (a batch that fails before COMMIT has changed nothing) and
  `PoolNotStarved`. The last one says when the deadlock of `found_pool_deadlock`
  cannot be: if `max_open_connections` is greater than the number of requests
  that may run a bulk transaction at a time (`TxSlots`), an empty pool always has
  a holder that does not wait for a second connection. Only transactions do that
  while they hold one, so the holders would otherwise all be in `TxSlots`. They
  rest on `ControlInv`: which operation reaches which label with which request
  (`PathAt`), with which permission (`PermittedAt`), when effects may exist
  (`EffectAt`), and who may hold connections and locks (`PoolInv`).
* `CrudBatchProofs` and `CrudTheorems`: `Invariant` (`IInv`), `BatchesInProgress`,
  `ClientReadsItsWrite`. The contract of a batch speaks of the table at COMMIT,
  while its statements ran earlier; the invariant therefore keeps, for every
  open batch, a map from its objects to the keys they were written to
  (`PlacedSoFar`), that an INSERT's keys are still free in the table
  (`InsertedSoFar`) and an UPDATE's rows still there. No other request can
  disturb that, because the locks of two transactions are disjoint (`LockInv`).
* `CrudRefinement`: `Implementation`, that `Crud` implements `ItemStore`: `Init`
  maps to its `Init`, and each step to one of its actions or a stutter, the
  effect of a batch being COMMIT.

`Listing`, for any number of loaders, any batch size and any bound on the rows
(`ListingProofs`): `Invariant`, `Snapshot` (an ordered load beside clients that
only append is the table as of its last COUNT, although each page comes from
queries of its own and may be cut short) and `NoDuplicates` (beside clients that
also delete, no row comes twice). The invariant says that what is loaded is a
head of the table while others only append (`SnapshotAt`), and that the rows
behind the offset are not yet loaded while nobody inserts before others
(`FreshAt`). The conditions are needed: without each of them TLC finds a
counterexample.

`Exchange`, for any callers, calls and read-only ids (`ExchangeProofs`):

* `ServiceUnderCalls`: the service below the client is `Crud`, so all that is
  proved of `Crud` holds there; the other proofs use its `IInv`.
* `Callers` (`XInv`) and `RefusedCalls`: the request a slot works on is the one of
  its caller's call, and a refusal is told only when the request has had no
  effect and is over; a call that no route takes never gets to the service. That
  needs `IInv`: a request is refused at the gate, at
  the existence check and at its statement, and `EffectAt` says that it cannot
  have had an effect at any of them.
* `ForCaller`: `Exchange` implements the contract for its callers, if no caller
  with read-only ids uses REPLACE with ids (`NoReadOnlyReplace`). The condition
  is needed, as `found_readonly_replace` shows.

`Lifecycle`, for any configurations, any number of starts and all faults
(`LifecycleProofs`): `Invariant`, `Ready` and `Handles`. The invariant (`Progress`)
is how far the loop of `Run` is: the backends in service are those the loop has
left, all statements of each and those before the current one have been executed
in this start, and the handles are theirs and that of the backend being opened.

`Filters` and `QueryCodec`, for expressions of any size, any rows, conversions,
foreign parameters and integers (`QueryCodecProofs`):

* `RemoteIsLocal`: through either encoder a query lists what its own SQL would.
  Each node comes back as it was, but for the literal of a simple expression,
  which comes back as a text (`DecodedExpression`, `PortableDecoded`); MySQL
  compares a number column with the print of a number as with the number
  (`CompareVerbatim`), so every node has the same truth (`SameTruths`).
* `FilterIsKept`: what `decodeExprFromMap` makes of an encoded node is nil only
  where the query had a nil.
* `InMemoryIsSQL`: for literals on which `cmp.Equal` and the collation agree
  (`CompareExact`), and on rows without NULLs, a predicate that does not panic gives
  the truth of its node, although `&&` and `||` stop early and SQL has a third
  truth value (`EvaluationsAgree`).
* `ReencodingStable`: what was decoded once has only literals that are texts and
  no nil slice, and such a query is its own decoding (`SecondReading`), also when
  a foreign client wrote it.

Their invariant, `CodecInv`, says that what is on its way is the encoding of the
query that was built, and that what the handler works on is the decoding of
that. The two evaluations are recursive functions of the places. The library's
induction theorems take an operator, which the provers cannot instantiate, so the
module proves what it needs about sets: a set of natural numbers has a least
element (`Least`), hence a set with 0 and with each number the next has them all
(`SetInduction`), hence a function that is given by its values at smaller places
exists (`RecursiveFunction`). The equations of `Truths` and `Verdicts` follow
(`TruthsEquation`, `VerdictsEquation`), and a statement about all nodes follows
from the least node for which it would fail.

Assumptions of the proofs are the named `ASSUME`s of `Requests`, `Crud`,
`Listing`, `Filters`, `QueryCodec`, `Exchange` and `Lifecycle`, which TLC
evaluates in every run of these modules, and `NoReadOnlyReplace` in `ForCaller`.
That `TextNumber` of `NumberText` is the number (`FiltersAssumption`) says that
MySQL reads back the numbers that `fmt` prints.

Every invariant that a passing run checks is also proved, and so are the two
refinements. Model-checked only: `EveryRequestAnswered`, `TransactionsEnd`,
`LoadAllEnds` (for writers that stop) and `StartServes`, because liveness under fairness is out of this
prover's reach.

## What is not modelled

* Catalogue handlers, telemetry, CORS and logging: they change no state of the
  service.
* The in-memory client's `Create`, `Get`, `Update` and `Delete`: one operation on
  a slice each, without an error path, and not made for concurrent use. They hand
  out the pointers they keep, so a caller that changes an item changes the store.
* Encoders, decoders and options of the client: functions its caller supplies; a
  failure of one is an error of the call, at the point where it happens.
* `QueryNamed`: its COUNT and SELECT are one step, since nothing is known of the
  rows of a saved query.
* Formatting and quoting of names and texts in SQL, `LIKE`, the rounding of large
  numbers in JSON and of the `float32` offset (`impl.go:160`), order names with an
  `=` in them, `FilterExpressionWrapper` as a type of its own.
* The values of columns beyond one `val` in `Crud`.

## Order of the work and what is left

The modules were written from the core outward: `Requests`, `ItemStore` and
`Crud`, its proofs, `Listing` and its proofs, `Filters` and `QueryCodec`,
`Exchange` and `Lifecycle` with theirs. What could follow: a refinement of
`QueryNamed` for queries whose SQL is a plain SELECT, which would repeat
`Listing`; and action properties of `Crud` for its history variables.
