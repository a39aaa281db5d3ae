-------------------------- MODULE CrudBatchProofs ---------------------------
(***************************************************************************)
(* Proofs about the transactions of Crud: row locks are exclusive, a       *)
(* locked row stays as it is until its holder commits, and at every point  *)
(* of a bulk request the rows it holds are the objects handled so far.     *)
(***************************************************************************)
EXTENDS CrudProofs

Step(r) == Receive(r) \/ Handle(r) \/ Leave(r) \/ AwaitDone(r)

\* A step that neither writes a row nor enters or leaves a bulk object.
Quiet(r) ==
    /\ table' = table
    /\ \/ pend' = pend /\ tx' = tx
       \/ pend' = [pend EXCEPT ![r] = NoPend] /\ tx' = tx \ {r}

WriteStep(r) == ExecCreate(r) \/ ExecUpdate(r) \/ ExecDelete(r) \/ ExecInTx(r) \/ Commit(r)

\* Another slot's step changes neither r's request nor its place in it, and r
\* itself goes to the next object only with a statement.
LEMMA OtherHandlers ==
    ASSUME ControlInv, NEW r \in Slots, Step(r)
    PROVE  Frame(r)
<1>1. \A s \in Slots : SlotAt(s)
  BY DEF ControlInv, SlotInv, SlotAt
<1>. QED
  BY <1>1, SlotMove DEF ControlInv, Step

LEMMA OwnObject ==
    ASSUME NEW r \in Slots, Step(r), r \in tx', ~ExecInTx(r)
    PROVE  req' = req /\ n' = n
<1>1. CASE Receive(r)
  BY <1>1 DEF Receive, pool
<1>. QED
  BY <1>1 DEF Step, Handle, RefuseInvalid, IgnoreUnknownMode, RefuseBatch, Forbid, Enter,
     ServeRead, CheckExists, ReadBack, QueryFails, UseCache, Miss, Load, Connect, ExecCreate,
     ExecUpdate, ExecDelete, Refuse, LockFails, BeginTx, NextObject, Panic, AllDone, Commit,
     CommitFails, TxIsDone, Cancel, Leave, AwaitDone, handler

LEMMA QuietSteps ==
    ASSUME NEW r \in Slots, Step(r)
    PROVE  WriteStep(r) \/ BeginTx(r) \/ Quiet(r)
<1>1. ASSUME UNCHANGED <<store, pool>> PROVE Quiet(r)
  BY <1>1 DEF Quiet, store, pool
<1>2. ASSUME table' = table, Rollback(r) PROVE Quiet(r)
  BY <1>2 DEF Quiet, Rollback, Release
<1>3. RefuseInvalid(r) \/ IgnoreUnknownMode(r) \/ RefuseBatch(r) \/ Forbid(r) \/ Enter(r)
         => Quiet(r)
  BY <1>1 DEF RefuseInvalid, IgnoreUnknownMode, RefuseBatch, Forbid, Enter
<1>4. ServeRead(r) \/ CheckExists(r) \/ ReadBack(r) \/ QueryFails(r) => Quiet(r)
  BY <1>1 DEF ServeRead, CheckExists, ReadBack, QueryFails
<1>5. UseCache(r) \/ Miss(r) \/ Load(r) => Quiet(r)
  BY <1>1 DEF UseCache, Miss, Load
<1>6. Connect(r) => Quiet(r)
  BY DEF Connect, Quiet, store
<1>7. NextObject(r) \/ Panic(r) \/ AllDone(r) \/ TxIsDone(r) => Quiet(r)
  BY <1>1 DEF NextObject, Panic, AllDone, TxIsDone
<1>8. Receive(r) \/ Leave(r) => Quiet(r)
  BY <1>1 DEF Receive, Leave
<1>9. Refuse(r) \/ LockFails(r) \/ CommitFails(r) \/ Cancel(r) \/ AwaitDone(r) => Quiet(r)
  BY <1>2 DEF Refuse, LockFails, CommitFails, Cancel, AwaitDone
<1>. QED
  BY <1>3, <1>4, <1>5, <1>6, <1>7, <1>8, <1>9 DEF Step, Handle, WriteStep

\* A statement or a COMMIT changes rows that nobody else holds locked.
LEMMA TableChange ==
    ASSUME ControlInv, NEW r \in Slots, WriteStep(r)
    PROVE  \/ UNCHANGED <<table, effect>>
           \/ \E ids : /\ TakesEffect(r, ids)
                       /\ \A i \in Ids \ ids : table'[i] = table[i]
                       /\ ids = Locked(r) \/ ~Blocked(r, ids)
<1>. USE DEF ControlInv
<1>1. CASE ExecCreate(r)
  <2>. DEFINE i == KeyFor(Obj(r))
  <2>1. TakesEffect(r, {i}) /\ ~Blocked(r, {i})
    BY <1>1 DEF ExecCreate, Runs, Wanted
  <2>2. \A j \in Ids \ {i} : table'[j] = table[j]
    BY <1>1 DEF ExecCreate, TypeOK, Tables
  <2>. QED
    BY <2>1, <2>2
<1>2. CASE ExecUpdate(r)
  <2>1. CASE table[req[r].id] # NoRow
    <3>. DEFINE ids == {req[r].id, Target(r)}
    <3>1. TakesEffect(r, ids)
      BY <1>2, <2>1 DEF ExecUpdate
    <3>2. \A j \in Ids \ ids : table'[j] = table[j]
      BY <1>2 DEF ExecUpdate
    <3>3. ~Blocked(r, ids)
      BY <1>2 DEF ExecUpdate, Runs, Wanted, Blocked, Target, TxModes
    <3>. QED
      BY <3>1, <3>2, <3>3
  <2>2. CASE table[req[r].id] = NoRow
    <3>1. TakesEffect(r, {}) /\ ~Blocked(r, {})
      BY <1>2, <2>2 DEF ExecUpdate, Blocked
    <3>2. \A j \in Ids \ {} : table'[j] = table[j]
      BY <1>2, <2>2 DEF ExecUpdate
    <3>. QED
      BY <3>1, <3>2
  <2>. QED
    BY <2>1, <2>2
<1>3. CASE ExecDelete(r)
  BY <1>3 DEF ExecDelete, Runs
<1>4. CASE ExecInTx(r)
  BY <1>4 DEF ExecInTx
<1>5. CASE Commit(r)
  BY <1>5 DEF Commit, Sees, Locked
<1>. QED
  BY <1>1, <1>2, <1>3, <1>4, <1>5 DEF WriteStep

LEMMA PendChange ==
    ASSUME TypeOK, NEW r \in Slots, Step(r)
    PROVE  /\ \A s \in Slots \ {r} : pend'[s] = pend[s]
           /\ ExecInTx(r) \/ pend'[r] = pend[r] \/ pend'[r] = NoPend
<1>1. CASE WriteStep(r)
  BY <1>1 DEF WriteStep, ExecCreate, ExecUpdate, ExecDelete, ExecInTx, Commit, Release, TypeOK
<1>2. CASE BeginTx(r)
  BY <1>2 DEF BeginTx, store
<1>3. CASE Quiet(r)
  BY <1>3 DEF Quiet, TypeOK
<1>. QED
  BY <1>1, <1>2, <1>3, QuietSteps

LEMMA LockedRowsKept ==
    ASSUME ControlInv, LockInv, NEW r \in Slots, Step(r), NEW s \in Slots \ {r},
           NEW i \in Locked(s)
    PROVE  table'[i] = table[i]
<1>1. i \in Ids
  BY DEF Locked
<1>2. CASE WriteStep(r)
  <2>1. CASE UNCHANGED <<table, effect>>
    BY <2>1
  <2>2. ASSUME NEW ids, \A j \in Ids \ ids : table'[j] = table[j],
               ids = Locked(r) \/ ~Blocked(r, ids)
        PROVE  table'[i] = table[i]
    BY <1>1, <2>2 DEF LockInv, Blocked
  <2>. QED
    BY <1>2, <2>1, <2>2, TableChange
<1>3. CASE BeginTx(r) \/ Quiet(r)
  BY <1>3 DEF BeginTx, Quiet, store
<1>. QED
  BY <1>2, <1>3, QuietSteps

-----------------------------------------------------------------------------
LEMMA LockStep ==
    ASSUME ControlInv, LockInv, [Next]_vars
    PROVE  LockInv'
<1>. USE DEF ControlInv
<1>1. ASSUME NEW r \in Slots, Step(r) PROVE LockInv'
  <2>1. \A s \in Slots \ {r} : Locked(s)' = Locked(s)
    BY <1>1, PendChange DEF Locked
  <2>2. \A s \in Slots \ {r} : Locked(r)' \cap Locked(s) = {}
    <3>1. CASE ExecInTx(r)
      <4>1. Locked(r)' \subseteq Locked(r) \cup {KeyInTx(r)}
        BY <3>1 DEF ExecInTx, Locked, TypeOK, Tables
      <4>2. ~Blocked(r, {KeyInTx(r)})
        BY <3>1 DEF ExecInTx, Runs, Wanted, KeyInTx, TxModes
      <4>. QED
        BY <4>1, <4>2 DEF LockInv, Blocked
    <3>2. CASE pend'[r] = pend[r] \/ pend'[r] = NoPend
      BY <3>2 DEF LockInv, Locked, NoPend
    <3>. QED
      BY <1>1, <3>1, <3>2, PendChange
  <2>. QED
    BY <2>1, <2>2 DEF LockInv
<1>2. ASSUME Expire \/ UNCHANGED vars PROVE LockInv'
  BY <1>2 DEF Expire, vars, store, LockInv, Locked
<1>. QED
  BY <1>1, <1>2 DEF Next, Step

-----------------------------------------------------------------------------
(* The rows of a batch.                                                    *)

LEMMA BatchKept ==
    ASSUME TypeOK, NEW s \in Slots, BatchAt(s), req'[s] = req[s], n'[s] = n[s],
           pend'[s] = pend[s], \A i \in Locked(s) : table'[i] = table[i]
    PROVE  BatchAt(s)'
<1>1. Locked(s)' = Locked(s)
  BY DEF Locked
<1>2. CASE req[s].op = "UPDATE"
  BY <1>1, <1>2 DEF BatchAt, UpdatedSoFar
<1>3. CASE req[s].op \in {"INSERT", "REPLACE"}
  <2>1. PICK f \in [1..(n[s] - 1) -> Ids] :
           PlacedSoFar(s, f) /\ (req[s].op = "INSERT" => InsertedSoFar(s, f))
    BY <1>3 DEF BatchAt
  <2>2. PlacedSoFar(s, f)'
    BY <1>1, <2>1 DEF PlacedSoFar
  <2>3. InsertedSoFar(s, f) => InsertedSoFar(s, f)'
    BY <2>1 DEF InsertedSoFar, PlacedSoFar
  <2>4. f \in [1..(n'[s] - 1) -> Ids]
    BY <2>1
  <2>. QED
    BY <1>3, <2>1, <2>2, <2>3, <2>4 DEF BatchAt
<1>. QED
  BY <1>2, <1>3 DEF BatchAt

\* One more object of a batch.
LEMMA BatchGrows ==
    ASSUME ControlInv, NEW r \in Slots, BatchAt(r), ExecInTx(r)
    PROVE  BatchAt(r)'
<1>. USE DEF ControlInv
<1>. DEFINE m == n[r]
            i == KeyInTx(r)
            objs == req[r].objs
<1>1. /\ n'[r] = m + 1 /\ m \in Nat \ {0} /\ req' = req /\ table' = table
      /\ req[r].op \in {"INSERT", "REPLACE", "UPDATE"}
  BY DEF ExecInTx, TypeOK, TxModes
<1>2. Obj(r) \in Bodies /\ Obj(r) = objs[m]
  BY ObjType DEF ExecInTx, Runs, Obj
<1>3. Row(r) # NoRow /\ Row(r).val = objs[m].val
  BY <1>2, RowType DEF Row
<1>4. CASE req[r].op = "UPDATE"
  <2>1. i = objs[m].id
    BY <1>2, <1>4 DEF KeyInTx
  <2>2. CASE Sees(r)[i] = NoRow
    <3>1. pend' = pend /\ Locked(r)' = Locked(r)
      BY <1>4, <2>2 DEF ExecInTx, Locked
    <3>2. \A j \in Locked(r) : j # i
      BY <2>2 DEF Sees, Locked
    <3>. QED
      BY <1>1, <1>4, <2>1, <3>1, <3>2 DEF BatchAt, UpdatedSoFar
  <2>3. CASE Sees(r)[i] # NoRow
    <3>1. i \in Ids
      BY <1>2, <1>4, <2>1 DEF ExecInTx, Runs, SlotInv, PathAt, AtObj, Usable, Bodies, TxModes
    <3>2. pend'[r] = [pend[r] EXCEPT ![i] = Row(r)]
      BY <1>4, <2>3 DEF ExecInTx, TypeOK
    <3>3. pend[r] \in [Ids -> Rows \cup {NoRow}]
      BY DEF TypeOK, Tables
    <3>4. /\ Locked(r)' = Locked(r) \cup {i} /\ pend'[r][i] = Row(r)
          /\ \A j \in Ids \ {i} : pend'[r][j] = pend[r][j]
      BY <1>3, <3>1, <3>2, <3>3 DEF Locked
    <3>5. table[i] # NoRow
      BY <1>4, <2>3, <3>1 DEF Sees, BatchAt, UpdatedSoFar, Locked
    <3>6. ASSUME NEW j \in Locked(r)'
          PROVE  /\ table[j] # NoRow
                 /\ \E k \in 1..m :
                       /\ objs[k].id = j /\ pend'[r][j].val = objs[k].val
                       /\ \A l \in 1..m : l > k => objs[l].id # j
      <4>1. CASE j = i
        <5>1. m \in 1..m /\ \A l \in 1..m : ~(l > m)
          BY <1>1
        <5>2. objs[m].id = j /\ pend'[r][j].val = objs[m].val
          BY <1>3, <2>1, <3>4, <4>1
        <5>3. table[j] # NoRow
          BY <3>5, <4>1
        <5>. HIDE DEF objs, m, i
        <5>. QED
          BY <5>1, <5>2, <5>3
      <4>2. CASE j # i
        <5>1. j \in Locked(r) /\ j \in Ids
          BY <3>4, <4>2 DEF Locked
        <5>2. /\ table[j] # NoRow
              /\ \E k \in 1..(m - 1) :
                    /\ objs[k].id = j /\ pend[r][j].val = objs[k].val
                    /\ \A l \in 1..(m - 1) : l > k => objs[l].id # j
          BY <1>4, <5>1 DEF BatchAt, UpdatedSoFar
        <5>. QED
          BY <1>1, <2>1, <3>4, <4>2, <5>1, <5>2
      <4>. QED
        BY <4>1, <4>2
    <3>. QED
      BY <1>1, <1>4, <3>6 DEF BatchAt, UpdatedSoFar
  <2>. QED
    BY <2>2, <2>3
<1>5. CASE req[r].op \in {"INSERT", "REPLACE"}
  <2>1. i = KeyFor(Obj(r)) /\ i \in Ids /\ objs[m].id \in {Absent, i}
    BY <1>2, <1>5, KeyType DEF ExecInTx, Runs, NoKey, KeyInTx, KeyFor
  <2>2. pend'[r] = [pend[r] EXCEPT ![i] = Row(r)]
    BY <1>5 DEF ExecInTx, TypeOK
  <2>3. pend[r] \in [Ids -> Rows \cup {NoRow}]
    BY DEF TypeOK, Tables
  <2>4. /\ Locked(r)' = Locked(r) \cup {i} /\ pend'[r][i] = Row(r)
        /\ \A j \in Ids \ {i} : pend'[r][j] = pend[r][j]
    BY <1>3, <2>1, <2>2, <2>3 DEF Locked
  <2>5. PICK f \in [1..(m - 1) -> Ids] :
           PlacedSoFar(r, f) /\ (req[r].op = "INSERT" => InsertedSoFar(r, f))
    BY <1>5 DEF BatchAt
  <2>6. PICK g \in [1..m -> Ids] :
           g[m] = i /\ \A k \in 1..(m - 1) : g[k] = f[k]
    <3>. DEFINE h == [k \in 1..m |-> IF k = m THEN i ELSE f[k]]
    <3>1. h \in [1..m -> Ids] /\ h[m] = i /\ \A k \in 1..(m - 1) : h[k] = f[k]
      BY <1>1, <2>1, <2>5
    <3>. QED
      BY <3>1
  <2>7. PlacedSoFar(r, g)'
    <3>1. \A k \in 1..m : objs[k].id \in {Absent, g[k]} /\ g[k] \in Locked(r)'
      BY <1>1, <2>1, <2>4, <2>5, <2>6 DEF PlacedSoFar
    <3>2. \A j \in Locked(r)' : \E k \in 1..m : g[k] = j
      BY <1>1, <2>4, <2>5, <2>6 DEF PlacedSoFar
    <3>3. ASSUME NEW k \in 1..m, \A l \in 1..m : l > k => g[l] # g[k]
          PROVE  pend'[r][g[k]].val = objs[k].val
      <4>1. CASE k = m
        BY <1>3, <2>4, <2>6, <4>1
      <4>2. CASE k # m
        <5>1. k \in 1..(m - 1) /\ f[k] # i /\ f[k] \in Ids
          BY <1>1, <2>5, <2>6, <3>3, <4>2
        <5>2. \A l \in 1..(m - 1) : l > k => f[l] # f[k]
          BY <1>1, <2>6, <3>3, <5>1
        <5>. QED
          BY <2>4, <2>5, <2>6, <5>1, <5>2 DEF PlacedSoFar
      <4>. QED
        BY <4>1, <4>2
    <3>. QED
      BY <1>1, <3>1, <3>2, <3>3 DEF PlacedSoFar
  <2>8. ASSUME req[r].op = "INSERT" PROVE InsertedSoFar(r, g)'
    <3>1. Sees(r)[i] = NoRow
      <4>1. ~Duplicate(r)
        BY DEF ExecInTx, Runs
      <4>. QED
        BY <2>1, <2>8, <4>1 DEF Duplicate, Ids, Absent
    <3>2. table[i] = NoRow /\ i \notin Locked(r)
      BY <2>1, <3>1 DEF Sees, Locked
    <3>3. \A k \in 1..(m - 1) : f[k] # i
      BY <2>5, <3>2 DEF PlacedSoFar
    <3>. QED
      BY <1>1, <2>5, <2>6, <2>8, <3>2, <3>3 DEF InsertedSoFar
  <2>. QED
    BY <1>1, <1>5, <2>6, <2>7, <2>8 DEF BatchAt
<1>. QED
  BY <1>1, <1>4, <1>5

LEMMA BatchStep ==
    ASSUME ControlInv, LockInv, BatchInv, [Next]_vars
    PROVE  BatchInv'
<1>. USE DEF ControlInv
<1>1. ASSUME NEW r \in Slots, Step(r), NEW s \in tx', s # r PROVE BatchAt(s)'
  <2>1. s \in tx /\ s \in Slots
    BY <1>1, QuietSteps DEF WriteStep, Quiet, BeginTx, ExecCreate, ExecUpdate, ExecDelete,
       ExecInTx, Commit, Release, pool, TypeOK
  <2>2. req'[s] = req[s] /\ n'[s] = n[s]
    BY <1>1, <2>1, OtherHandlers DEF Frame
  <2>3. pend'[s] = pend[s] /\ \A i \in Locked(s) : table'[i] = table[i]
    BY <1>1, <2>1, PendChange, LockedRowsKept
  <2>. QED
    BY <2>1, <2>2, <2>3, BatchKept DEF BatchInv
<1>2. ASSUME NEW r \in Slots, Step(r), r \in tx' PROVE BatchAt(r)'
  <2>1. CASE ExecInTx(r)
    BY <2>1, BatchGrows DEF BatchInv, ExecInTx
  <2>2. CASE BeginTx(r)
    <3>1. Locked(r)' = {} /\ n'[r] = 1 /\ req'[r] = req[r]
      BY <2>2 DEF BeginTx, store, handler, SlotInv, PathAt, PoolInv, InTx, Locked
    <3>2. PICK f : f \in [1..0 -> Ids]
      <4>1. [k \in 1..0 |-> 1] \in [1..0 -> Ids]
        OBVIOUS
      <4>. QED
        BY <4>1
    <3>3. f \in [1..(n'[r] - 1) -> Ids] /\ 1..(n'[r] - 1) = {}
      BY <3>1, <3>2
    <3>. QED
      BY <3>1, <3>3 DEF BatchAt, UpdatedSoFar, PlacedSoFar, InsertedSoFar
  <2>3. CASE ExecCreate(r) \/ ExecUpdate(r) \/ ExecDelete(r) \/ Commit(r)
    BY <1>2, <2>3, NotInTx DEF ExecCreate, ExecUpdate, ExecDelete, Commit, Release, TxModes
  <2>4. CASE Quiet(r) /\ ~ExecInTx(r)
    <3>1. r \in tx /\ pend'[r] = pend[r] /\ table' = table
      BY <1>2, <2>4 DEF Quiet, TypeOK
    <3>2. req'[r] = req[r] /\ n'[r] = n[r]
      BY <1>2, <2>4, <3>1, OwnObject DEF Quiet
    <3>. QED
      BY <3>1, <3>2, BatchKept DEF BatchInv
  <2>. QED
    BY <1>2, <2>1, <2>2, <2>3, <2>4, QuietSteps DEF WriteStep
<1>3. ASSUME Expire \/ UNCHANGED vars, NEW s \in tx' PROVE BatchAt(s)'
  BY <1>3, BatchKept DEF Expire, vars, store, pool, handler, BatchInv, TypeOK
<1>. QED
  BY <1>1, <1>2, <1>3 DEF Next, Step, BatchInv
=============================================================================
