---------------------------- MODULE CrudTheorems ----------------------------
(***************************************************************************)
(* The inductive invariant of Crud put together, and what follows from it: *)
(* a bulk transaction is at every point the effect of the objects handled  *)
(* so far, and a client is shown what it wrote.                            *)
(***************************************************************************)
EXTENDS CrudBatchProofs

-----------------------------------------------------------------------------
(* Reading back.                                                           *)

\* No other slot's step disturbs what s relies on until it has read its row
\* back: a write to that row marks s as superseded.
LEMMA ReadBackKept ==
    ASSUME ControlInv, ReadBackInv, NEW r \in Slots, Step(r), NEW s \in Slots \ {r}
    PROVE  ReadBackAt(s)'
<1>. USE DEF ControlInv
<1>1. /\ pc'[s] = pc[s] /\ req'[s] = req[s] /\ n'[s] = n[s] /\ resp'[s] = resp[s]
      /\ key'[s] = key[s] /\ remap'[s] = remap[s]
  <2>1. key'[s] = key[s] /\ remap'[s] = remap[s]
    <3>1. CASE UNCHANGED <<key, remap>>
      BY <3>1
    <3>2. CASE Receive(r) \/ UseCache(r) \/ Load(r) \/ ExecCreate(r) \/ ExecUpdate(r)
      BY <3>2 DEF Receive, UseCache, Load, ExecCreate, ExecUpdate, TypeOK
    <3>. QED
      BY <3>1, <3>2 DEF Step, Handle, RefuseInvalid, IgnoreUnknownMode, RefuseBatch, Forbid,
         Enter, ServeRead, CheckExists, ReadBack, QueryFails, Miss, Connect, ExecDelete,
         Refuse, LockFails, BeginTx, NextObject, Panic, AllDone, ExecInTx, Commit,
         CommitFails, TxIsDone, Cancel, Leave, AwaitDone, handler
  <2>. QED
    BY <2>1, OtherHandlers DEF Frame
<1>2. effect'[s] = "applied"
         => effect[s] = "applied" /\ (key[s] \in Ids => table'[key[s]] = table[key[s]])
  <2>1. CASE WriteStep(r)
    <3>1. CASE UNCHANGED <<table, effect>>
      BY <3>1
    <3>2. ASSUME NEW ids, TakesEffect(r, ids), \A i \in Ids \ ids : table'[i] = table[i]
          PROVE  effect'[s] = "applied" => effect[s] = "applied" /\
                    (key[s] \in Ids => table'[key[s]] = table[key[s]])
      BY <3>2 DEF TakesEffect
    <3>. QED
      BY <2>1, <3>1, <3>2, TableChange
  <2>2. CASE ~WriteStep(r)
    <3>1. table' = table
      BY <2>2, QuietSteps DEF Quiet, BeginTx, store
    <3>2. effect'[s] = effect[s]
      <4>1. CASE Receive(r)
        BY <4>1 DEF Receive, TypeOK
      <4>2. RefuseInvalid(r) \/ IgnoreUnknownMode(r) \/ RefuseBatch(r) \/ Forbid(r) \/ Enter(r)
               \/ ServeRead(r) \/ CheckExists(r) \/ ReadBack(r) \/ QueryFails(r)
               \/ UseCache(r) \/ Miss(r) \/ Load(r) \/ Connect(r) => effect' = effect
        BY DEF RefuseInvalid, IgnoreUnknownMode, RefuseBatch, Forbid, Enter, ServeRead,
           CheckExists, ReadBack, QueryFails, UseCache, Miss, Load, Connect
      <4>3. Refuse(r) \/ LockFails(r) \/ BeginTx(r) \/ NextObject(r) \/ Panic(r) \/ AllDone(r)
               \/ CommitFails(r) \/ TxIsDone(r) \/ Cancel(r) \/ Leave(r) \/ AwaitDone(r)
               => effect' = effect
        BY DEF Refuse, LockFails, BeginTx, NextObject, Panic, AllDone, CommitFails,
           TxIsDone, Cancel, Leave, AwaitDone
      <4>. QED
        BY <2>2, <4>1, <4>2, <4>3 DEF Step, Handle, WriteStep
    <3>. QED
      BY <3>1, <3>2
  <2>. QED
    BY <2>1, <2>2
<1>3. ReadBackAt(s)
  BY DEF ReadBackInv
<1>4. Obj(s)' = Obj(s) /\ Target(s)' = Target(s)
  BY <1>1 DEF Obj, Target
<1>5. Plain(s)' <=> Plain(s)
  BY <1>1, <1>4 DEF Plain
<1>. QED
  BY <1>1, <1>2, <1>3, <1>4, <1>5 DEF ReadBackAt

\* A step that leaves the slot's answer and place where ReadBackAt says nothing.
LEMMA ReadBackVoid ==
    ASSUME NEW r \in Slots, pc'[r] \notin {"connect", "exec", "refetch"},
           pc'[r] = "answered" => resp'[r].status \notin {201, 202}
    PROVE  ReadBackAt(r)'
BY DEF ReadBackAt

\* The steps of the slot itself, the statements and the query among them.
LEMMA ReadBackOwn ==
    ASSUME ControlInv, ReadBackInv, NEW r \in Slots, Step(r)
    PROVE  ReadBackAt(r)'
<1>. USE DEF ControlInv
<1>0. ReadBackAt(r)
  BY DEF ReadBackInv
<1>1. CASE RefuseInvalid(r) \/ IgnoreUnknownMode(r) \/ RefuseBatch(r) \/ Forbid(r)
           \/ QueryFails(r) \/ Refuse(r) \/ LockFails(r) \/ Panic(r) \/ Commit(r)
           \/ CommitFails(r) \/ TxIsDone(r) \/ Cancel(r)
  <2>1. pc'[r] = "answered" /\ resp'[r].status \notin {201, 202}
    BY <1>1 DEF RefuseInvalid, IgnoreUnknownMode, RefuseBatch, Forbid, QueryFails, Refuse,
       LockFails, Panic, Commit, CommitFails, TxIsDone, Cancel, Answer, Dropped, Refusals,
       TypeOK
  <2>. QED
    BY <2>1, ReadBackVoid
<1>2. CASE Miss(r) \/ NextObject(r) \/ AllDone(r) \/ BeginTx(r) \/ ExecInTx(r) \/ Receive(r)
  <2>1. pc'[r] \notin {"connect", "exec", "refetch", "answered"}
    BY <1>2 DEF Miss, NextObject, AllDone, BeginTx, ExecInTx, Receive, Goto, TypeOK
  <2>. QED
    BY <2>1, ReadBackVoid
<1>3. CASE ServeRead(r) \/ CheckExists(r)
  <2>1. pc'[r] = "metadata" \/ (pc'[r] = "answered" /\ resp'[r].status \notin {201, 202})
    BY <1>3 DEF ServeRead, CheckExists, Goto, Answer, TypeOK
  <2>. QED
    BY <2>1, ReadBackVoid
<1>4. CASE Enter(r)
  <2>1. pc'[r] = FirstLabel(req[r].op) /\ req' = req /\ req[r].op \in ItemOps \cup BulkModes
    BY <1>4 DEF Enter, Goto, handler, TypeOK
  <2>2. CASE req[r].op \in {"DeleteItemById", "DELETE"}
    BY <2>1, <2>2 DEF FirstLabel, ReadBackAt, ItemReads, TxModes
  <2>3. CASE req[r].op \notin {"DeleteItemById", "DELETE"}
    <3>1. pc'[r] \in {"fetch", "exists", "metadata", "begin"}
      BY <2>1, <2>3 DEF FirstLabel, ItemReads, ItemOps, BulkModes, TxModes
    <3>. QED
      BY <3>1, ReadBackVoid
  <2>. QED
    BY <2>2, <2>3
<1>5. CASE UseCache(r) \/ Load(r)
  <2>1. pc'[r] \in {"exec", "connect"} /\ ("metadata" \notin Faults => remap'[r])
    BY <1>5 DEF UseCache, Load, Goto, AfterMetadata, TypeOK
  <2>. QED
    BY <2>1 DEF ReadBackAt
<1>6. CASE Connect(r)
  <2>1. pc[r] = "connect" /\ pc'[r] = "exec" /\ req' = req /\ remap' = remap
    BY <1>6 DEF Connect, Goto, handler, TypeOK
  <2>. QED
    BY <1>0, <2>1 DEF ReadBackAt
<1>7. CASE Leave(r) \/ AwaitDone(r)
  <2>1. UNCHANGED <<table, pc, req, n, key, remap, effect, resp>>
    BY <1>7 DEF Leave, AwaitDone, store, handler
  <2>. QED
    BY <1>0, <2>1 DEF ReadBackAt, Plain, Obj, Target
<1>8. CASE ReadBack(r)
  <2>1. PICK row \in FetchOneItem(key[r]) :
           Answer(r, IF req[r].op = "CreateItem" THEN 201 ELSE 202, Item(row))
    BY <1>8 DEF ReadBack
  <2>2. /\ pc[r] = "refetch" /\ pc'[r] = "answered" /\ resp'[r].item = Item(row)
        /\ UNCHANGED <<req, n, effect>>
    BY <1>8, <2>1 DEF ReadBack, Answer, handler, TypeOK
  <2>3. ASSUME effect[r] = "applied", Plain(r) PROVE Item(row) = Obj(r).val
    <3>1. key[r] \in Ids /\ table[key[r]] = [val |-> Obj(r).val, typed |-> TRUE]
      BY <1>0, <2>2, <2>3 DEF ReadBackAt
    <3>2. row = table[key[r]]
      BY <2>1, <2>3, <3>1 DEF FetchOneItem, Committed, Plain
    <3>3. row # NoRow
      <4>1. req[r].op \in {"CreateItem", "UpdateItemById"}
        BY <2>2 DEF SlotInv, PathAt
      <4>2. Obj(r).val \in Vals
        BY <2>2, <4>1, ObjType DEF Bodies
      <4>3. [val |-> Obj(r).val, typed |-> TRUE] \in Rows
        BY <4>2 DEF Rows
      <4>. QED
        BY <3>1, <3>2, <4>3, NoRowAssumption
    <3>. QED
      BY <3>1, <3>2, <3>3 DEF Item
  <2>. QED
    BY <2>2, <2>3 DEF ReadBackAt, Plain, Obj, Target
<1>9. CASE ExecCreate(r)
  <2>. DEFINE i == KeyFor(Obj(r))
  <2>1. /\ pc[r] = "exec" /\ req[r].op = "CreateItem" /\ req' = req /\ n' = n /\ remap' = remap
        /\ table' = [table EXCEPT ![i] = Row(r)] /\ key'[r] = LastInsertId(i) /\ i # Absent
    BY <1>9 DEF ExecCreate, Runs, NoKey, TypeOK
  <2>2. pc'[r] = "refetch" \/ (pc'[r] = "answered" /\ resp'[r].status = 500)
    BY <1>9 DEF ExecCreate, Learns, Goto, Answer, TypeOK
  <2>3. ASSUME Plain(r)
        PROVE  key'[r] \in Ids /\ table'[key'[r]] = [val |-> Obj(r).val, typed |-> TRUE]
    <3>1. i \in Ids
      BY <2>1, ObjType, KeyType
    <3>2. key'[r] = i
      BY <2>1, <2>3 DEF LastInsertId, Plain
    <3>3. remap[r] = TRUE
      BY <1>0, <2>1, <2>3 DEF ReadBackAt, Plain, TypeOK
    <3>. QED
      BY <2>1, <3>1, <3>2, <3>3 DEF Row, TypeOK, Tables
  <2>. QED
    BY <2>1, <2>2, <2>3 DEF ReadBackAt, Plain, Obj, Target
<1>10. CASE ExecUpdate(r)
  <2>1. /\ pc[r] = "exec" /\ req[r].op = "UpdateItemById" /\ req' = req /\ n' = n
        /\ remap' = remap /\ key'[r] = req[r].id
    BY <1>10 DEF ExecUpdate, Runs, TypeOK
  <2>2. pc'[r] = "refetch" \/ (pc'[r] = "answered" /\ resp'[r].status = 500)
    BY <1>10 DEF ExecUpdate, Learns, Goto, Answer, TypeOK
  <2>3. ASSUME Plain(r), effect'[r] = "applied"
        PROVE  key'[r] \in Ids /\ table'[key'[r]] = [val |-> Obj(r).val, typed |-> TRUE]
    <3>1. req[r].id \in Ids
      BY <2>1, CrudAssumption DEF SlotInv, PathAt
    <3>2. table[req[r].id] # NoRow
      BY <1>10, <2>3 DEF ExecUpdate, TakesEffect
    <3>3. table'[req[r].id] = Row(r)
      BY <1>10, <2>1, <2>3, <3>1, <3>2 DEF ExecUpdate, Plain
    <3>4. remap[r] = TRUE
      BY <1>0, <2>1, <2>3 DEF ReadBackAt, Plain, TypeOK
    <3>. QED
      BY <2>1, <3>1, <3>3, <3>4 DEF Row
  <2>. QED
    BY <2>1, <2>2, <2>3 DEF ReadBackAt, Plain, Obj, Target
<1>11. CASE ExecDelete(r)
  <2>1. /\ req[r].op \in {"DeleteItemById", "DELETE"}
        /\ pc'[r] = "answered" /\ resp'[r].status \in {200, 204, 500}
    BY <1>11 DEF ExecDelete, Learns, Answer, Goto, TypeOK
  <2>. QED
    BY <2>1, ReadBackVoid
<1>. QED
  BY <1>1, <1>2, <1>3, <1>4, <1>5, <1>6, <1>7, <1>8, <1>9, <1>10, <1>11 DEF Step, Handle

LEMMA ReadBackStep ==
    ASSUME ControlInv, ReadBackInv, [Next]_vars
    PROVE  ReadBackInv'
<1>1. ASSUME NEW r \in Slots, Step(r) PROVE ReadBackInv'
  BY <1>1, ReadBackKept, ReadBackOwn DEF ReadBackInv
<1>2. ASSUME Expire \/ UNCHANGED vars PROVE ReadBackInv'
  BY <1>2 DEF Expire, vars, store, handler, ReadBackInv, ReadBackAt, Plain, Obj, Target
<1>. QED
  BY <1>1, <1>2 DEF Next, Step

-----------------------------------------------------------------------------
(* The inductive invariant.                                                *)

LEMMA InitInvariant == Init => IInv
<1>. SUFFICES ASSUME Init PROVE IInv
  OBVIOUS
<1>1. LockInv
  BY DEF Init, LockInv, Locked, NoPend
<1>2. BatchInv
  BY DEF Init, BatchInv
<1>3. ReadBackInv
  BY DEF Init, ReadBackInv, ReadBackAt
<1>. QED
  BY <1>1, <1>2, <1>3, InitControl DEF IInv

\* The conjunction on which every safety result about Crud rests.
THEOREM Invariant == Spec => []IInv
<1>1. IInv /\ [Next]_vars => IInv'
  <2>. SUFFICES ASSUME IInv, [Next]_vars PROVE IInv'
    OBVIOUS
  <2>1. ControlInv'
    BY TypeStep, SlotStep, PoolStep DEF IInv, ControlInv
  <2>. QED
    BY <2>1, LockStep, BatchStep, ReadBackStep DEF IInv
<1>. QED
  BY <1>1, InitInvariant, PTL DEF Spec

\* Create and Update show the client what it wrote, unless someone else wrote
\* the row before it was read back.
THEOREM ClientReadsItsWrite == Spec => []ReadYourWrite
<1>1. IInv => ReadYourWrite
  BY DEF IInv, ReadBackInv, ReadBackAt, Plain, ReadYourWrite
<1>. QED
  BY <1>1, Invariant, PTL

LEMMA InProgress == ASSUME IInv PROVE BatchInProgress
<1>. SUFFICES ASSUME NEW r \in tx
     PROVE  LET done == [k \in 1..(n[r] - 1) |-> req[r].objs[k]] IN
            CASE req[r].op = "INSERT"  -> Contract!Inserted(done, table, Sees(r))
              [] req[r].op = "REPLACE" -> Contract!Replaced(done, table, Sees(r))
              [] req[r].op = "UPDATE"  -> Contract!Updated(done, table, Sees(r))
  BY DEF BatchInProgress
<1>. DEFINE done == [k \in 1..(n[r] - 1) |-> req[r].objs[k]]
<1>1. TypeOK /\ BatchAt(r) /\ r \in Slots /\ req[r].op \in TxModes
  BY DEF IInv, ControlInv, BatchInv, PoolInv, TypeOK
<1>2. DOMAIN done = 1..(n[r] - 1) /\ \A k \in 1..(n[r] - 1) : done[k] = req[r].objs[k]
  OBVIOUS
<1>3. /\ \A i \in Locked(r) : Sees(r)[i] = pend[r][i] /\ Sees(r)[i] # NoRow
      /\ \A i \in Ids \ Locked(r) : Sees(r)[i] = table[i]
  BY DEF Sees, Locked
<1>4. ASSUME NEW f \in [1..(n[r] - 1) -> Ids], PlacedSoFar(r, f)
      PROVE  Contract!Placed(done, f, table, Sees(r))
  <2>1. \A k \in 1..(n[r] - 1) : done[k].id \in {Absent, f[k]}
    BY <1>2, <1>4 DEF PlacedSoFar
  <2>2. \A i \in Ids : Sees(r)[i] = table[i] \/ \E k \in 1..(n[r] - 1) : f[k] = i
    BY <1>3, <1>4 DEF PlacedSoFar
  <2>3. ASSUME NEW k \in 1..(n[r] - 1), \A l \in 1..(n[r] - 1) : l > k => f[l] # f[k]
        PROVE  Sees(r)[f[k]] # NoRow /\ Sees(r)[f[k]].val = done[k].val
    BY <1>2, <1>3, <1>4, <2>3 DEF PlacedSoFar
  <2>. QED
    BY <1>2, <2>1, <2>2, <2>3 DEF Contract!Placed, Contract!Absent, Contract!Ids, Absent, Ids
<1>5. CASE req[r].op = "UPDATE"
  <2>1. UpdatedSoFar(r)
    BY <1>1, <1>5 DEF BatchAt
  <2>2. Contract!Updated(done, table, Sees(r))
    BY <1>2, <1>3, <2>1 DEF UpdatedSoFar, Contract!Updated, Contract!Ids, Ids
  <2>. QED
    BY <1>5, <2>2
<1>6. CASE req[r].op \in {"INSERT", "REPLACE"}
  <2>1. PICK f \in [1..(n[r] - 1) -> Ids] :
           PlacedSoFar(r, f) /\ (req[r].op = "INSERT" => InsertedSoFar(r, f))
    BY <1>1, <1>6 DEF BatchAt
  <2>2. Contract!Placed(done, f, table, Sees(r))
    BY <1>4, <2>1
  <2>3. f \in [DOMAIN done -> Contract!Ids]
    BY <1>2 DEF Contract!Ids, Ids
  <2>4. CASE req[r].op = "INSERT"
    <3>1. InsertedSoFar(r, f)
      BY <2>1, <2>4
    <3>2. Contract!Inserted(done, table, Sees(r))
      BY <1>2, <2>2, <2>3, <3>1 DEF InsertedSoFar, Contract!Inserted
    <3>. QED
      BY <2>4, <3>2
  <2>5. CASE req[r].op = "REPLACE"
    <3>1. Contract!Replaced(done, table, Sees(r))
      BY <2>2, <2>3 DEF Contract!Replaced
    <3>. QED
      BY <2>5, <3>1
  <2>. QED
    BY <1>6, <2>4, <2>5
<1>. QED
  BY <1>1, <1>5, <1>6 DEF TxModes

\* At every point of a bulk transaction, a COMMIT would be right for the
\* objects handled so far.
THEOREM BatchesInProgress == Spec => []BatchInProgress
<1>1. IInv => BatchInProgress
  BY InProgress
<1>. QED
  BY <1>1, Invariant, PTL
=============================================================================
