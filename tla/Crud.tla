-------------------------------- MODULE Crud --------------------------------
(***************************************************************************)
(* The item operations of db2rest-bridge on one entity of one backend: the *)
(* HTTP handlers (pkg/server/ops.go), the CRUD implementation they call    *)
(* (pkg/crud/impl.go) with its column-metadata cache, the connection pool  *)
(* of database/sql, and the rows, row locks and transactions of the MySQL  *)
(* table they work on.                                                     *)
(*                                                                         *)
(* A slot is one request goroutine; it serves one request after another.   *)
(* Each action is what the goroutine does up to the next point at which    *)
(* another goroutine's database work may come between.                     *)
(***************************************************************************)
EXTENDS Requests, FiniteSets

CONSTANTS
    Slots,          \* request goroutines
    Workload,       \* Workload[r]: the requests r may receive
    InitTables,     \* the tables the service may start on
    AutoInc,        \* the key column is AUTO_INCREMENT
    MaxOpen,        \* max_open_connections; 0 when it is not set
    Faults          \* what may go wrong, a subset of FaultKinds

FaultKinds == {
    "statement",    \* the database refuses a query or a statement
    "reply",        \* the connection breaks after a statement took effect
    "rows",         \* it breaks while the rows of a query are read
    "metadata",     \* the query for the column metadata fails
    "leave" }       \* a client goes away before it is answered

ASSUME CrudAssumption ==
    /\ IsFiniteSet(Slots)
    /\ Workload \in [Slots -> SUBSET RequestSet]
    /\ \A r \in Slots : \A q \in Workload[r] :
          /\ q.op \in {"CreateItem", "UpdateItemById"} => Len(q.objs) = 1
          /\ q.op \in ItemReads \cup {"UpdateItemById", "DeleteItemById"} => q.id \in Ids
    /\ InitTables \subseteq [Ids -> [val : Vals, typed : {TRUE}] \cup {NoRow}]
    /\ AutoInc \in BOOLEAN
    /\ MaxOpen \in Nat
    /\ Faults \subseteq FaultKinds

VARIABLES
    table,          \* committed rows
    nextId,         \* the AUTO_INCREMENT counter (not transactional)
    pend,           \* pend[r]: rows r's transaction wrote and holds locked
    conn,           \* slots holding a connection of the pool
    tx,             \* slots with an open transaction
    cached,         \* the metadata of the entity are in impl.mdCache
    pc, req,        \* where each slot is, and the request it serves
    n,              \* index of the object a bulk handler is at
    key,            \* the id with which the item is read back
    remap,          \* the body was converted with the metadata
    effect,         \* history: did r's statement take effect, and has another
                    \* request changed the row with key[r] since?
    gone,           \* slots whose client left: the request's context is done
    resp            \* the answer: HTTP status and item

store    == <<table, nextId, pend>>
pool     == <<conn, tx>>
handler  == <<req, n, key, remap>>
vars     == <<table, nextId, pend, conn, tx, cached, pc, req, n, key, remap,
              effect, gone, resp>>

Garbled == "garbled"    \* a value that was stored without its conversion
Nothing == "nothing"    \* no item: an empty body, or the JSON value null

Statuses == {0, 200, 201, 202, 204, 400, 404, 405, 409, 500}
Answers  == [status : Statuses, item : Vals \cup {Garbled, Nothing}]
Success  == {200, 201, 202, 204}
Dropped  == 0           \* the connection to the client is closed, unanswered

Effects == {"none", "void", "applied", "superseded"}

Labels == {"idle", "gate", "fetch", "exists", "metadata", "load", "connect",
           "begin", "next", "exec", "commit", "refetch", "answered"}
-----------------------------------------------------------------------------
(* The pool and the table.                                                 *)

FreeConn == MaxOpen = 0 \/ Cardinality(conn) < MaxOpen

Locked(r) == {i \in Ids : pend[r][i] # NoRow}
NoPend    == [i \in Ids |-> NoRow]

\* The rows r's transaction sees: its own over the committed ones.
Sees(r) == [i \in Ids |-> IF pend[r][i] # NoRow THEN pend[r][i] ELSE table[i]]

Blocked(r, ids) == \E s \in Slots \ {r} : Locked(s) \cap ids # {}

Obj_AlwaysFirst(r) == req[r].objs[1]

Obj(r)  == req[r].objs[n[r]]
Row(r)  == [val |-> Obj(r).val, typed |-> remap[r]]

\* The key an INSERT or REPLACE of object b gets; Absent if it can get none.
KeyFor(b) ==
    CASE b.id # Absent                -> b.id
      [] b.id = Absent /\ AutoInc     -> IF nextId <= MaxId THEN nextId ELSE Absent
      [] b.id = Absent /\ ~AutoInc    -> Absent

AdvanceCounter(i) ==
    nextId' = IF AutoInc /\ i # Absent /\ i >= nextId THEN i + 1 ELSE nextId

\* The rows the next statement of r reads and changes.
Wanted(r) ==
    CASE req[r].op \in {"CreateItem", "INSERT", "REPLACE"} -> {KeyFor(Obj(r))}
      [] req[r].op = "UPDATE"                              -> {Obj(r).id}
      [] req[r].op = "UpdateItemById"                      -> {req[r].id, Obj(r).id}
      [] req[r].op = "DeleteItemById"                      -> {req[r].id}
      [] OTHER -> {req[r].objs[k].id : k \in DOMAIN req[r].objs}

\* r's statement takes effect on the rows ids ("void" when it finds none);
\* whoever wrote one of them before and has not read it back is overtaken.
TakesEffect(r, ids) ==
    effect' = [s \in Slots |->
        IF s = r THEN (IF ids = {} THEN "void" ELSE "applied")
        ELSE IF effect[s] = "applied" /\ key[s] \in ids THEN "superseded"
        ELSE effect[s]]

-----------------------------------------------------------------------------
Init ==
    /\ table \in InitTables
    /\ nextId \in 1..(IF AutoInc THEN MaxId + 1 ELSE 1)
    /\ AutoInc => \A i \in Ids : table[i] # NoRow => i < nextId
    /\ pend = [r \in Slots |-> NoPend]
    /\ conn = {} /\ tx = {}
    /\ cached = FALSE
    /\ pc = [r \in Slots |-> "idle"]
    /\ req = [r \in Slots |-> [op |-> "invalid", id |-> Absent, objs |-> <<>>]]
    /\ n = [r \in Slots |-> 1]
    /\ key = [r \in Slots |-> Absent]
    /\ remap = [r \in Slots |-> FALSE]
    /\ effect = [r \in Slots |-> "none"]
    /\ gone = {}
    /\ resp = [r \in Slots |-> [status |-> Dropped, item |-> Nothing]]

-----------------------------------------------------------------------------
(* Steps every handler is made of.                                         *)

Goto(r, l) == pc' = [pc EXCEPT ![r] = l] /\ UNCHANGED resp

Answer(r, status, item) ==
    /\ pc' = [pc EXCEPT ![r] = "answered"]
    /\ resp' = [resp EXCEPT ![r] = [status |-> status, item |-> item]]

\* r gives its connection back, and is in no transaction any more.
Release(r) ==
    /\ conn' = conn \ {r}
    /\ tx' = tx \ {r}
    /\ pend' = [pend EXCEPT ![r] = NoPend]

Rollback_Forgotten(r) == UNCHANGED <<pend, conn, tx>>

\* The end of a statement that failed, and of the transaction it is part of.
Rollback(r) == Release(r)

Receive(r) ==
    /\ pc[r] \in {"idle", "answered"} /\ r \notin tx
    /\ \E q \in Workload[r] : req' = [req EXCEPT ![r] = q]
    /\ pc' = [pc EXCEPT ![r] = "gate"]
    /\ resp' = [resp EXCEPT ![r] = [status |-> Dropped, item |-> Nothing]]
    /\ n' = [n EXCEPT ![r] = 1]
    /\ key' = [key EXCEPT ![r] = Absent]
    /\ remap' = [remap EXCEPT ![r] = FALSE]
    /\ effect' = [effect EXCEPT ![r] = "none"]
    /\ gone' = gone \ {r}
    /\ UNCHANGED <<store, pool, cached>>

-----------------------------------------------------------------------------
(* From the arrival to the first use of the database.                      *)

RefuseInvalid(r) ==
    /\ pc[r] = "gate" /\ req[r].op = "invalid"
    /\ Answer(r, 400, Nothing)
    /\ UNCHANGED <<store, pool, cached, handler, effect, gone>>

\* The switch over the bulk mode has no default: 200 is implied.
IgnoreUnknownMode(r) ==
    /\ pc[r] = "gate" /\ req[r].op = "unknown"
    /\ Answer(r, 200, Nothing)
    /\ UNCHANGED <<store, pool, cached, handler, effect, gone>>

\* extractIds runs before the permission is looked at ...
IdsMissing(r) ==
    req[r].op = "DELETE" /\ \E k \in DOMAIN req[r].objs : req[r].objs[k].id = Absent

\* ... and errNoObj is returned after it.
NoObjects(r) == req[r].op = "DELETE" /\ req[r].objs = <<>>

RefuseBatch(r) ==
    /\ pc[r] = "gate" /\ req[r].op = "DELETE"
    /\ \/ IdsMissing(r)
       \/ NoObjects(r) /\ "delete" \in Allowed
    /\ Answer(r, 500, Nothing)
    /\ UNCHANGED <<store, pool, cached, handler, effect, gone>>

Forbid(r) ==
    /\ pc[r] = "gate" /\ req[r].op \in ItemOps \cup BulkModes
    /\ Needs(req[r].op) \notin Allowed /\ ~IdsMissing(r)
    /\ Answer(r, 405, Nothing)
    /\ UNCHANGED <<store, pool, cached, handler, effect, gone>>

FirstLabel(op) ==
    CASE op \in ItemReads                    -> "fetch"
      [] op = "UpdateItemById"               -> "exists"
      [] op = "CreateItem"                   -> "metadata"
      [] op \in {"DeleteItemById", "DELETE"} -> "connect"
      [] op \in TxModes                      -> "begin"

Enter(r) ==
    /\ pc[r] = "gate" /\ req[r].op \in ItemOps \cup BulkModes
    /\ Needs(req[r].op) \in Allowed /\ ~IdsMissing(r) /\ ~NoObjects(r)
    /\ Goto(r, FirstLabel(req[r].op))
    /\ UNCHANGED <<store, pool, cached, handler, effect, gone>>

-----------------------------------------------------------------------------
(* Reading one row: fetchOneItem.  The connection is held for the step only. *)

Committed(i) == IF i \in Ids THEN table[i] ELSE NoRow

\* rows.Next() returns false at an error as it does at the end, and rows.Err()
\* is not looked at.
FetchOneItem(i) == {Committed(i)} \cup IF "rows" \in Faults THEN {NoRow} ELSE {}

Item(row) ==
    IF row = NoRow THEN Nothing ELSE IF row.typed THEN row.val ELSE Garbled

ServeRead(r) ==
    /\ pc[r] = "fetch" /\ FreeConn
    /\ \E row \in FetchOneItem(req[r].id) :
          \/ row = NoRow /\ Answer(r, 404, Nothing)
          \/ row # NoRow /\ req[r].op = "GetItemById" /\ Answer(r, 200, Item(row))
          \/ row # NoRow /\ req[r].op = "ExistsItemById" /\ Answer(r, 204, Nothing)
    /\ UNCHANGED <<store, pool, cached, handler, effect, gone>>

CheckExists_Ungated(r) ==
    /\ pc[r] = "exists" /\ FreeConn
    /\ \E row \in FetchOneItem(req[r].id) :
          \/ row = NoRow /\ Answer(r, 404, Nothing)
          \/ row # NoRow /\ Goto(r, "metadata")
    /\ UNCHANGED <<store, pool, cached, handler, effect, gone>>

CheckExists(r) ==
    /\ pc[r] = "exists" /\ FreeConn
    /\ \E row \in FetchOneItem(req[r].id) :
          \/ row = NoRow /\ Answer(r, 404, Nothing)
          \/ row # NoRow /\ "update" \notin Allowed /\ Answer(r, 405, Nothing)
          \/ row # NoRow /\ "update" \in Allowed /\ Goto(r, "metadata")
    /\ UNCHANGED <<store, pool, cached, handler, effect, gone>>

ReadBack_NotFound(r) ==
    /\ pc[r] = "refetch" /\ FreeConn
    /\ \E row \in FetchOneItem(key[r]) :
          IF row = NoRow THEN Answer(r, 404, Nothing)
          ELSE Answer(r, IF req[r].op = "CreateItem" THEN 201 ELSE 202, Item(row))
    /\ UNCHANGED <<store, pool, cached, handler, effect, gone>>

ReadBack(r) ==
    /\ pc[r] = "refetch" /\ FreeConn
    /\ \E row \in FetchOneItem(key[r]) :
          Answer(r, IF req[r].op = "CreateItem" THEN 201 ELSE 202, Item(row))
    /\ UNCHANGED <<store, pool, cached, handler, effect, gone>>

QueryFails(r) ==
    /\ pc[r] \in {"fetch", "exists", "refetch", "begin"} /\ FreeConn
    /\ "statement" \in Faults
    /\ Answer(r, 500, Nothing)
    /\ UNCHANGED <<store, pool, cached, handler, effect, gone>>

-----------------------------------------------------------------------------
(* The column metadata: mdCache.Get and its loader.                        *)

AfterMetadata(r) == IF req[r].op \in TxModes THEN "exec" ELSE "connect"

UseCache(r) ==
    /\ pc[r] = "metadata" /\ cached
    /\ remap' = [remap EXCEPT ![r] = TRUE]
    /\ Goto(r, AfterMetadata(r))
    /\ UNCHANGED <<store, pool, cached, req, n, key, effect, gone>>

Miss(r) ==
    /\ pc[r] = "metadata" /\ ~cached
    /\ Goto(r, "load")
    /\ UNCHANGED <<store, pool, cached, handler, effect, gone>>

\* The query of the loader takes a connection of its own, whatever the caller
\* holds, and does not know the request's context.  When it fails, the body is
\* written as it came.
Load(r) ==
    /\ pc[r] = "load" /\ FreeConn
    /\ \E ok \in {TRUE} \cup IF "metadata" \in Faults THEN {FALSE} ELSE {} :
          /\ cached' = (cached \/ ok)
          /\ remap' = [remap EXCEPT ![r] = ok]
    /\ Goto(r, AfterMetadata(r))
    /\ UNCHANGED <<store, pool, req, n, key, effect, gone>>

Expire ==
    /\ cached /\ cached' = FALSE
    /\ UNCHANGED <<store, pool, pc, resp, handler, effect, gone>>

-----------------------------------------------------------------------------
(* Statements of their own: CreateItem, UpdateItemById and the deletes.     *)

Connect(r) ==
    /\ pc[r] = "connect" /\ FreeConn
    /\ conn' = conn \cup {r}
    /\ Goto(r, "exec")
    /\ UNCHANGED <<store, tx, cached, handler, effect, gone>>

NoKey(r) ==
    req[r].op \in {"CreateItem", "INSERT", "REPLACE"} /\ KeyFor(Obj(r)) = Absent

\* The key the body of UpdateItemById moves the row to.
Target(r) == IF Obj(r).id = Absent THEN req[r].id ELSE Obj(r).id

Duplicate_Overwritten(r) == FALSE

Duplicate(r) ==
    CASE req[r].op \in {"CreateItem", "INSERT"} ->
            KeyFor(Obj(r)) # Absent /\ Sees(r)[KeyFor(Obj(r))] # NoRow
      [] req[r].op = "UpdateItemById" ->
            /\ Target(r) # req[r].id
            /\ table[req[r].id] # NoRow /\ table[Target(r)] # NoRow
      [] OTHER -> FALSE

\* The statuses with which the database may refuse r's statement
\* (mysqlError2status; 1364 is a column without default, 1062 a duplicate).
Refusals(r) ==
    (IF NoKey(r) THEN {IF AutoInc THEN 500 ELSE 400} ELSE {})
      \cup (IF Duplicate(r) THEN {409} ELSE {})
      \cup (IF "statement" \in Faults THEN {500} ELSE {})

Runs(r) ==
    /\ pc[r] = "exec" /\ ~Blocked(r, Wanted(r))
    /\ ~NoKey(r) /\ ~Duplicate(r)

\* The effect is there; the goroutine learns it, or gets an error instead.
Learns(r) ==
    \/ CASE req[r].op = "DeleteItemById" -> Answer(r, 204, Nothing)
         [] req[r].op = "DELETE"         -> Answer(r, 200, Nothing)
         [] OTHER                        -> Goto(r, "refetch")
    \/ ("reply" \in Faults \/ r \in gone) /\ Answer(r, 500, Nothing)

LastInsertId_Newest(i) == nextId' - 1
LastInsertId_Advanced(i) == nextId'

LastInsertId(i) == IF AutoInc THEN i ELSE Absent

ExecCreate(r) ==
    LET i == KeyFor(Obj(r)) IN
    /\ req[r].op = "CreateItem" /\ Runs(r)
    /\ table' = [table EXCEPT ![i] = Row(r)]
    /\ AdvanceCounter(i)
    /\ key' = [key EXCEPT ![r] = LastInsertId(i)]
    /\ TakesEffect(r, {i})
    /\ Learns(r)
    /\ conn' = conn \ {r}
    /\ UNCHANGED <<pend, tx, cached, req, n, remap, gone>>

\* The number of affected rows is not looked at.
ExecUpdate(r) ==
    LET from  == req[r].id
        found == table[from] # NoRow
    IN
    /\ req[r].op = "UpdateItemById" /\ Runs(r)
    /\ table' = [i \in Ids |->
                    CASE found /\ i = Target(r)               -> Row(r)
                      [] found /\ i = from /\ from # Target(r) -> NoRow
                      [] OTHER                               -> table[i]]
    /\ key' = [key EXCEPT ![r] = from]
    /\ TakesEffect(r, IF found THEN {from, Target(r)} ELSE {})
    /\ Learns(r)
    /\ conn' = conn \ {r}
    /\ UNCHANGED <<nextId, pend, tx, cached, req, n, remap, gone>>

ExecDelete(r) ==
    /\ req[r].op \in {"DeleteItemById", "DELETE"} /\ Runs(r)
    /\ table' = [i \in Ids |-> IF i \in Wanted(r) THEN NoRow ELSE table[i]]
    /\ TakesEffect(r, Wanted(r))
    /\ Learns(r)
    /\ conn' = conn \ {r}
    /\ UNCHANGED <<nextId, pend, tx, cached, handler, gone>>

\* The statement is refused; a transaction it belongs to is rolled back.
Refuse(r) ==
    /\ pc[r] = "exec" /\ ~Blocked(r, Wanted(r))
    /\ req[r].op \in TxModes => r \in tx
    /\ \E status \in Refusals(r) : Answer(r, status, Nothing)
    /\ IF Duplicate(r) /\ req[r].op # "UpdateItemById"
       THEN AdvanceCounter(KeyFor(Obj(r))) ELSE UNCHANGED nextId
    /\ Rollback(r)
    /\ UNCHANGED <<table, cached, handler, effect, gone>>

\* The wait for a row lock ends in a timeout (1205) or a deadlock (1213).
LockFails(r) ==
    /\ pc[r] = "exec" /\ Blocked(r, Wanted(r))
    /\ Answer(r, 500, Nothing)
    /\ Rollback(r)
    /\ UNCHANGED <<table, nextId, cached, handler, effect, gone>>

-----------------------------------------------------------------------------
(* Bulk transactions: MultiCreate and MultiUpdate.                          *)

BeginTx(r) ==
    /\ pc[r] = "begin" /\ FreeConn
    /\ conn' = conn \cup {r}
    /\ tx' = tx \cup {r}
    /\ Goto(r, "next")
    /\ UNCHANGED <<store, cached, handler, effect, gone>>

\* MultiUpdate asserts that the id of each object is a string.
Usable(r) == req[r].op = "UPDATE" => Obj(r).id # Absent /\ Obj(r).str

NextObject(r) ==
    /\ pc[r] = "next" /\ n[r] <= Len(req[r].objs) /\ Usable(r)
    /\ Goto(r, "metadata")
    /\ UNCHANGED <<store, pool, cached, handler, effect, gone>>

Panic_Contained(r) ==
    /\ pc[r] = "next" /\ n[r] <= Len(req[r].objs) /\ ~Usable(r)
    /\ Answer(r, 500, Nothing)
    /\ UNCHANGED <<store, pool, cached, handler, effect, gone>>

\* net/http recovers the panic, closes the connection to the client and ends
\* the request's context; nothing rolls the transaction back here.
Panic(r) ==
    /\ pc[r] = "next" /\ n[r] <= Len(req[r].objs) /\ ~Usable(r)
    /\ Answer(r, Dropped, Nothing)
    /\ gone' = gone \cup {r}
    /\ UNCHANGED <<store, pool, cached, handler, effect>>

AllDone(r) ==
    /\ pc[r] = "next" /\ n[r] > Len(req[r].objs)
    /\ Goto(r, "commit")
    /\ UNCHANGED <<store, pool, cached, handler, effect, gone>>

\* The key of the row the statement for the current object writes.
KeyInTx(r) == IF req[r].op = "UPDATE" THEN Obj(r).id ELSE KeyFor(Obj(r))

ExecInTx_OutsideTx(r) ==
    /\ req[r].op \in TxModes /\ r \in tx /\ Runs(r)
    /\ table' = [table EXCEPT ![KeyInTx(r)] =
                    IF req[r].op = "UPDATE" /\ @ = NoRow THEN @ ELSE Row(r)]
    /\ AdvanceCounter(KeyInTx(r))
    /\ n' = [n EXCEPT ![r] = @ + 1]
    /\ TakesEffect(r, {KeyInTx(r)})
    /\ Goto(r, "next")
    /\ UNCHANGED <<pend, pool, cached, req, key, remap, gone>>

ExecInTx(r) ==
    LET i == KeyInTx(r) IN
    /\ req[r].op \in TxModes /\ r \in tx /\ Runs(r)
    /\ pend' = IF req[r].op = "UPDATE" /\ Sees(r)[i] = NoRow
               THEN pend
               ELSE [pend EXCEPT ![r] = [@ EXCEPT ![i] = Row(r)]]
    /\ IF req[r].op = "UPDATE" THEN UNCHANGED nextId ELSE AdvanceCounter(i)
    /\ n' = [n EXCEPT ![r] = @ + 1]
    /\ Goto(r, "next")
    /\ UNCHANGED <<table, pool, cached, req, key, remap, effect, gone>>

Commit(r) ==
    /\ pc[r] = "commit" /\ r \in tx
    /\ table' = Sees(r)
    /\ TakesEffect(r, Locked(r))
    /\ \/ Answer(r, 200, Nothing)
       \/ "reply" \in Faults /\ Answer(r, 500, Nothing)
    /\ Release(r)
    /\ UNCHANGED <<nextId, cached, handler, gone>>

CommitFails(r) ==
    /\ pc[r] = "commit" /\ r \in tx /\ "statement" \in Faults
    /\ Answer(r, 500, Nothing)
    /\ Rollback(r)
    /\ UNCHANGED <<table, nextId, cached, handler, effect, gone>>

\* sql.ErrTxDone: the transaction was rolled back under the handler.
TxIsDone(r) ==
    /\ pc[r] \in {"exec", "commit"} /\ req[r].op \in TxModes /\ r \notin tx
    /\ Answer(r, 500, Nothing)
    /\ UNCHANGED <<store, pool, cached, handler, effect, gone>>

-----------------------------------------------------------------------------
(* Clients that leave.                                                      *)

Leave(r) ==
    /\ "leave" \in Faults /\ r \notin gone
    /\ pc[r] \notin {"idle", "answered"}
    /\ gone' = gone \cup {r}
    /\ UNCHANGED <<store, pool, cached, pc, resp, handler, effect>>

\* Every call of database/sql that takes the request's context ends with it.
Cancel(r) ==
    /\ r \in gone /\ pc[r] \in {"fetch", "exists", "connect", "exec", "begin", "refetch"}
    /\ Answer(r, 500, Nothing)
    /\ Rollback(r)
    /\ UNCHANGED <<table, nextId, cached, handler, effect, gone>>

\* sql.Tx.awaitDone rolls the transaction back when the context ends.
AwaitDone(r) ==
    /\ r \in gone /\ r \in tx
    /\ Rollback(r)
    /\ UNCHANGED <<table, nextId, cached, pc, resp, handler, effect, gone>>

-----------------------------------------------------------------------------
Handle(r) ==
    \/ RefuseInvalid(r) \/ IgnoreUnknownMode(r) \/ RefuseBatch(r) \/ Forbid(r) \/ Enter(r)
    \/ ServeRead(r) \/ CheckExists(r) \/ ReadBack(r) \/ QueryFails(r)
    \/ UseCache(r) \/ Miss(r) \/ Load(r)
    \/ Connect(r) \/ ExecCreate(r) \/ ExecUpdate(r) \/ ExecDelete(r)
    \/ Refuse(r) \/ LockFails(r)
    \/ BeginTx(r) \/ NextObject(r) \/ Panic(r) \/ AllDone(r) \/ ExecInTx(r)
    \/ Commit(r) \/ CommitFails(r) \/ TxIsDone(r) \/ Cancel(r)

Next ==
    \/ \E r \in Slots : Receive(r) \/ Handle(r) \/ Leave(r) \/ AwaitDone(r)
    \/ Expire

Spec == Init /\ [][Next]_vars

\* A goroutine that can go on does; a released connection goes to a waiter
\* picked at random (database/sql), and so every waiter gets one in the end.
Fairness == \A r \in Slots : SF_vars(Handle(r)) /\ WF_vars(AwaitDone(r))

FairSpec == Spec /\ Fairness

-----------------------------------------------------------------------------
(* Correctness.                                                             *)

TypeOK ==
    /\ table \in Tables
    /\ nextId \in 1..(MaxId + 1)
    /\ pend \in [Slots -> Tables]
    /\ tx \subseteq conn /\ conn \subseteq Slots
    /\ cached \in BOOLEAN
    /\ pc \in [Slots -> Labels]
    /\ req \in [Slots -> RequestSet]
    /\ n \in [Slots -> Nat \ {0}]
    /\ key \in [Slots -> Ids \cup {Absent}]
    /\ remap \in [Slots -> BOOLEAN]
    /\ effect \in [Slots -> Effects]
    /\ gone \subseteq Slots
    /\ resp \in [Slots -> Answers]

\* Phase of the request in terms of the contract.
Phase(r) ==
    CASE pc[r] = "idle"                                             -> "idle"
      [] pc[r] = "answered" /\ resp[r].status \in Success           -> "done"
      [] pc[r] = "answered" /\ resp[r].status \notin Success        -> "failed"
      [] pc[r] \notin {"idle", "answered"} /\ effect[r] = "none"    -> "open"
      [] pc[r] \notin {"idle", "answered"} /\ effect[r] # "none"    -> "applied"

Contract == INSTANCE ItemStore
    WITH items <- table, call <- req, phase <- [r \in Slots |-> Phase(r)]

\* Whatever the interleaving, the faults and the clients that leave, every
\* request has at most one effect, at one instant, as a whole and within the
\* permissions: the batches of MultiCreate and MultiUpdate included.
ImplementsItemStore == Contract!Spec

\* At every point of a bulk transaction its rows, laid over whatever the others
\* have committed meanwhile, are exactly the objects handled so far: a COMMIT
\* at that point would be right for them.
BatchInProgress ==
    \A r \in tx :
       LET done == [k \in 1..(n[r] - 1) |-> req[r].objs[k]] IN
       CASE req[r].op = "INSERT"  -> Contract!Inserted(done, table, Sees(r))
         [] req[r].op = "REPLACE" -> Contract!Replaced(done, table, Sees(r))
         [] req[r].op = "UPDATE"  -> Contract!Updated(done, table, Sees(r))

\* A bulk request that is not answered with 200 has changed nothing, unless it
\* was the answer to COMMIT that got lost.
FailedBatchChangesNothing ==
    \A r \in Slots :
       /\ pc[r] = "answered" /\ req[r].op \in TxModes /\ resp[r].status # 200
       /\ "reply" \notin Faults
       => effect[r] = "none"

\* Create and Update read the item back in a query of their own.  Unless
\* someone else wrote it in between, the client is shown what it wrote.
ReadYourWrite ==
    \A r \in Slots :
       /\ pc[r] = "answered" /\ resp[r].status \in {201, 202}
       /\ effect[r] = "applied"
       /\ req[r].op = "CreateItem" => AutoInc
       /\ req[r].op = "UpdateItemById" => Target(r) = req[r].id
       /\ Faults \cap {"rows", "metadata"} = {}
       => resp[r].item = Obj(r).val

\* No path through a handler keeps a connection: one is held around a statement
\* or by an open transaction, and a transaction outlives its handler only while
\* the end of its request's context is on its way to it.
ConnectionsReturned ==
    /\ \A r \in conn : r \in tx \/ pc[r] = "exec"
    /\ \A r \in tx : pc[r] \in {"next", "metadata", "load", "exec", "commit"} \/ r \in gone

\* Slots that may come to hold the connection of a transaction.
TxSlots == {r \in Slots : \E q \in Workload[r] : q.op \in TxModes}

\* A transaction that converts a body waits for a second connection while it
\* keeps its own.  With more connections than bulk requests at a time the pool
\* cannot starve itself: when it is empty, one of the holders waits for none.
ConnectionComesBack ==
    (MaxOpen = 0 \/ Cardinality(TxSlots) < MaxOpen) /\ ~FreeConn
    => \E r \in conn : pc[r] # "load"

\* Every request is answered, or its connection closed.
EveryRequestAnswered ==
    \A r \in Slots : pc[r] \notin {"idle", "answered"} ~> pc[r] = "answered"

\* Every transaction ends, and its row locks with it, also when its handler
\* panicked or its client left.
TransactionsEnd == \A r \in Slots : r \in tx ~> r \notin tx

-----------------------------------------------------------------------------
(* What the documentation says and the code does not do.                    *)

\* openapi.yaml:365 asks of UPDATE that "All primary keys must be present";
\* a batch in which they are gets one of the documented answers.
CompleteBatchIsAnswered ==
    \A r \in Slots :
       /\ pc[r] = "answered" /\ req[r].op = "UPDATE"
       /\ \A k \in DOMAIN req[r].objs : req[r].objs[k].id # Absent
       => resp[r].status # Dropped

=============================================================================
