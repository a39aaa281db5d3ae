--------------------------- MODULE CrudRefinement ---------------------------
(***************************************************************************)
(* Crud implements ItemStore: each step of a handler is one step of its    *)
(* request in the contract, or none.                                       *)
(***************************************************************************)
EXTENDS CrudTheorems

phases == [r \in Slots |-> Phase(r)]

\* The contract speaks the same vocabulary.
LEMMA Vocabulary ==
    /\ Contract!Ids = Ids /\ Contract!Absent = Absent /\ Contract!Tables = Tables
    /\ Contract!RequestSet = RequestSet /\ Contract!Writes = Writes
    /\ \A op : Contract!ChangeNeeds(op) = ChangeNeeds(op)
<1>1. Contract!Ids = Ids /\ Contract!Absent = Absent
  BY DEF Contract!Ids, Contract!Absent, Ids, Absent
<1>2. Contract!Tables = Tables
  BY <1>1 DEF Contract!Tables, Contract!Rows, Tables, Rows
<1>3. Contract!RequestSet = RequestSet
  <2>1. Contract!Bodies = Bodies
    BY <1>1 DEF Contract!Bodies, Bodies
  <2>2. Contract!Operations = Operations
    BY DEF Contract!Operations, Contract!ItemOps, Contract!ItemReads, Contract!BulkModes,
       Contract!TxModes, Operations, ItemOps, ItemReads, BulkModes, TxModes
  <2>. QED
    BY <1>1, <2>1, <2>2 DEF Contract!RequestSet, RequestSet
<1>4. Contract!Writes = Writes
  BY DEF Contract!Writes, Contract!ItemOps, Contract!ItemReads, Contract!BulkModes,
     Contract!TxModes, Writes, ItemOps, ItemReads, BulkModes, TxModes
<1>5. \A op : Contract!ChangeNeeds(op) = ChangeNeeds(op)
  BY DEF Contract!ChangeNeeds, Contract!Needs, Contract!ItemReads, ChangeNeeds, Needs, ItemReads
<1>. QED
  BY <1>1, <1>2, <1>3, <1>4, <1>5

-----------------------------------------------------------------------------
(* Phases.                                                                 *)

Busy(r) == pc[r] \notin {"idle", "answered"}

LEMMA PhaseNow ==
    ASSUME NEW r
    PROVE  /\ pc[r] = "idle" => Phase(r) = "idle"
           /\ pc[r] = "answered" => Phase(r) \in {"done", "failed"}
           /\ Busy(r) /\ effect[r] = "none" => Phase(r) = "open"
           /\ Busy(r) /\ effect[r] # "none" => Phase(r) = "applied"
BY DEF Phase, Busy

LEMMA PhaseNext ==
    ASSUME NEW r
    PROVE  /\ pc'[r] = "answered" /\ resp'[r].status \in Success => Phase(r)' = "done"
           /\ pc'[r] = "answered" /\ resp'[r].status \notin Success => Phase(r)' = "failed"
           /\ Busy(r)' /\ effect'[r] = "none" => Phase(r)' = "open"
           /\ Busy(r)' /\ effect'[r] # "none" => Phase(r)' = "applied"
BY DEF Phase, Busy

LEMMA PhaseFrame ==
    ASSUME NEW r \in Slots, Frame(r)
    PROVE  /\ \A s \in Slots \ {r} : Phase(s)' = Phase(s)
           /\ phases' = [phases EXCEPT ![r] = Phase(r)']
<1>1. \A s \in Slots \ {r} : Phase(s)' = Phase(s)
  BY DEF Frame, Phase
<1>. QED
  BY <1>1 DEF phases

\* A slot that changes its phase and nothing else of the contract.
LEMMA Failure ==
    ASSUME NEW r \in Slots, Frame(r), UNCHANGED <<table, req>>, Busy(r),
           pc'[r] = "answered", resp'[r].status \notin Success
    PROVE  Contract!Next
<1>1. Phase(r) \in {"open", "applied"}
  BY PhaseNow
<1>2. Phase(r)' = "failed"
  BY PhaseNext
<1>3. Contract!Fail(r)
  BY <1>1, <1>2, PhaseFrame DEF Contract!Fail, Contract!Move, phases
<1>. QED
  BY <1>3 DEF Contract!Next

LEMMA Silence ==
    ASSUME NEW r \in Slots, Frame(r), UNCHANGED <<table, req>>, Phase(r)' = Phase(r)
    PROVE  UNCHANGED Contract!vars
<1>1. phases' = phases
  BY PhaseFrame DEF phases
<1>. QED
  BY <1>1 DEF Contract!vars, phases

LEMMA Completion ==
    ASSUME NEW r \in Slots, Frame(r), UNCHANGED <<table, req>>, Busy(r),
           pc'[r] = "answered", resp'[r].status \in Success,
           req[r].op \in Writes <=> effect[r] # "none"
    PROVE  Contract!Next
<1>1. Phase(r) = IF req[r].op \in Writes THEN "applied" ELSE "open"
  BY PhaseNow
<1>2. Phase(r)' = "done"
  BY PhaseNext
<1>3. Contract!Succeed(r)
  BY <1>1, <1>2, PhaseFrame, Vocabulary DEF Contract!Succeed, Contract!Move, phases
<1>. QED
  BY <1>3 DEF Contract!Next

-----------------------------------------------------------------------------
(* The effects.                                                            *)

\* A statement of its own, or COMMIT: the request takes its one effect.
LEMMA Application ==
    ASSUME NEW r \in Slots, SlotInv, Frame(r), req' = req, pc[r] \in {"exec", "commit"},
           effect'[r] # "none", pc'[r] \in {"refetch", "answered"},
           req[r].op \in Writes, Contract!Effect(req[r], table, table')
    PROVE  Contract!Next
<1>1. Phase(r) = "open"
  BY PhaseNow DEF SlotInv, EffectAt, Busy
<1>2. Phase(r)' \in {"applied", "done", "failed"}
  <2>1. CASE pc'[r] = "answered"
    BY <2>1, PhaseNext
  <2>2. CASE pc'[r] = "refetch"
    BY <2>2, PhaseNext DEF Busy
  <2>. QED
    BY <2>1, <2>2
<1>3. ChangeNeeds(req[r].op) \in Allowed
  BY DEF SlotInv, PermittedAt, Before
<1>4. phases' = [phases EXCEPT ![r] = Phase(r)']
  BY PhaseFrame
<1>5. Contract!Apply(r)
  BY <1>1, <1>2, <1>3, <1>4, Vocabulary DEF Contract!Apply, Contract!Move, phases
<1>. QED
  BY <1>5 DEF Contract!Next

\* The statement of CreateItem and UpdateItemById is about the only object.
LEMMA OnlyObject ==
    ASSUME ControlInv, NEW r \in Slots, pc[r] = "exec",
           req[r].op \in {"CreateItem", "UpdateItemById"}
    PROVE  DOMAIN req[r].objs = {1} /\ Obj(r) = req[r].objs[1] /\ Obj(r) \in Bodies
<1>1. n[r] = 1
  BY DEF ControlInv, SlotInv, PathAt, TxModes
<1>2. Len(req[r].objs) = 1 /\ req[r].objs \in Seq(Bodies)
  BY CrudAssumption DEF ControlInv, SlotInv, PathAt, TypeOK, RequestSet
<1>3. Obj(r) \in Bodies
  BY ObjType DEF ControlInv
<1>. QED
  BY <1>1, <1>2, <1>3 DEF Obj

LEMMA CreateEffect ==
    ASSUME ControlInv, NEW r \in Slots, ExecCreate(r)
    PROVE  Contract!Effect(req[r], table, table')
<1>. USE DEF ControlInv
<1>. DEFINE i == KeyFor(Obj(r))
            objs == req[r].objs
<1>1. pc[r] = "exec" /\ req[r].op = "CreateItem" /\ table' = [table EXCEPT ![i] = Row(r)]
  BY DEF ExecCreate, Runs
<1>2. DOMAIN objs = {1} /\ Obj(r) = objs[1] /\ Obj(r) \in Bodies
  BY <1>1, OnlyObject
<1>3. i \in Ids /\ table[i] = NoRow
  <2>1. i # Absent /\ ~Duplicate(r)
    BY <1>1 DEF ExecCreate, Runs, NoKey
  <2>2. i \in Ids
    BY <1>2, <2>1, KeyType
  <2>3. Sees(r)[i] = NoRow
    BY <1>1, <2>1 DEF Duplicate
  <2>. QED
    BY <2>2, <2>3 DEF Sees
<1>4. /\ table'[i] = Row(r) /\ Row(r) # NoRow /\ Row(r).val = objs[1].val
      /\ \A j \in Ids \ {i} : table'[j] = table[j]
  BY <1>1, <1>2, <1>3, RowType DEF Row, TypeOK, Tables
<1>5. objs[1].id \in {Absent, i}
  BY <1>2, <1>3 DEF KeyFor
<1>6. PICK f \in [{1} -> Ids] : f[1] = i
  <2>1. [k \in {1} |-> i] \in [{1} -> Ids]
    BY <1>3
  <2>. QED
    BY <2>1
<1>7. Contract!Placed(objs, f, table, table')
  BY <1>2, <1>4, <1>5, <1>6, Vocabulary DEF Contract!Placed
<1>8. Contract!Inserted(objs, table, table')
  BY <1>2, <1>3, <1>6, <1>7, Vocabulary DEF Contract!Inserted
<1>. QED
  BY <1>1, <1>8 DEF Contract!Effect

LEMMA UpdateEffect ==
    ASSUME ControlInv, NEW r \in Slots, ExecUpdate(r)
    PROVE  Contract!Effect(req[r], table, table')
<1>. USE DEF ControlInv
<1>. DEFINE from == req[r].id
            to == Target(r)
<1>1. /\ pc[r] = "exec" /\ req[r].op = "UpdateItemById" /\ ~Duplicate(r)
      /\ table' = [i \in Ids |->
                      CASE table[from] # NoRow /\ i = to                  -> Row(r)
                        [] table[from] # NoRow /\ i = from /\ from # to -> NoRow
                        [] OTHER                                        -> table[i]]
  BY DEF ExecUpdate, Runs
<1>2. Obj(r) = req[r].objs[1] /\ Obj(r) \in Bodies
  BY <1>1, OnlyObject
<1>3. from \in Ids /\ to \in Ids /\ to = IF req[r].objs[1].id = Absent THEN from ELSE req[r].objs[1].id
  BY <1>1, <1>2, CrudAssumption DEF SlotInv, PathAt, Target, Bodies
<1>4. CASE table[from] = NoRow
  <2>1. table' = table
    BY <1>1, <1>4 DEF TypeOK, Tables
  <2>. QED
    BY <1>1, <1>4, <2>1 DEF Contract!Effect, Contract!Changed
<1>5. CASE table[from] # NoRow
  <2>1. to = from \/ table[to] = NoRow
    BY <1>1, <1>5 DEF Duplicate
  <2>2. table'[to] = Row(r) /\ Row(r) # NoRow /\ Row(r).val = req[r].objs[1].val
    BY <1>1, <1>2, <1>3, <1>5, RowType DEF Row
  <2>3. to # from => table'[from] = NoRow
    BY <1>1, <1>3, <1>5
  <2>4. \A i \in Ids \ {from, to} : table'[i] = table[i]
    BY <1>1
  <2>5. Contract!Changed(from, req[r].objs[1], table, table')
    BY <1>3, <1>5, <2>1, <2>2, <2>3, <2>4, Vocabulary DEF Contract!Changed
  <2>. QED
    BY <1>1, <2>5 DEF Contract!Effect
<1>. QED
  BY <1>4, <1>5

LEMMA DeleteEffect ==
    ASSUME NEW r \in Slots, ExecDelete(r)
    PROVE  Contract!Effect(req[r], table, table')
<1>1. CASE req[r].op = "DeleteItemById"
  <2>1. Contract!Deleted({req[r].id}, table, table')
    BY <1>1, Vocabulary DEF ExecDelete, Wanted, Contract!Deleted
  <2>. QED
    BY <1>1, <2>1 DEF Contract!Effect
<1>2. CASE req[r].op = "DELETE"
  <2>1. Wanted(r) = Contract!IdsOf(req[r].objs)
    BY <1>2 DEF Wanted, Contract!IdsOf
  <2>2. Contract!Deleted(Contract!IdsOf(req[r].objs), table, table')
    BY <2>1, Vocabulary DEF ExecDelete, Contract!Deleted
  <2>. QED
    BY <1>2, <2>2 DEF Contract!Effect
<1>. QED
  BY <1>1, <1>2 DEF ExecDelete

\* At COMMIT every object has been handled: the batch in progress is the batch.
LEMMA CommitEffect ==
    ASSUME IInv, NEW r \in Slots, Commit(r)
    PROVE  Contract!Effect(req[r], table, table')
<1>. DEFINE done == [k \in 1..(n[r] - 1) |-> req[r].objs[k]]
<1>1. r \in tx /\ pc[r] = "commit" /\ table' = Sees(r)
  BY DEF Commit
<1>2. req[r].op \in TxModes /\ n[r] = Len(req[r].objs) + 1
  BY <1>1 DEF IInv, ControlInv, SlotInv, PathAt
<1>3. done = req[r].objs
  <2>1. req[r].objs \in Seq(Bodies)
    BY DEF IInv, ControlInv, TypeOK, RequestSet
  <2>2. n[r] - 1 = Len(req[r].objs)
    BY <1>2, <2>1
  <2>. QED
    BY <2>1, <2>2
<1>4. CASE req[r].op = "INSERT"
  <2>1. Contract!Inserted(done, table, Sees(r))
    BY <1>1, <1>4, InProgress DEF BatchInProgress
  <2>. QED
    BY <1>1, <1>3, <1>4, <2>1 DEF Contract!Effect
<1>5. CASE req[r].op = "REPLACE"
  <2>1. Contract!Replaced(done, table, Sees(r))
    BY <1>1, <1>5, InProgress DEF BatchInProgress
  <2>. QED
    BY <1>1, <1>3, <1>5, <2>1 DEF Contract!Effect
<1>6. CASE req[r].op = "UPDATE"
  <2>1. Contract!Updated(done, table, Sees(r))
    BY <1>1, <1>6, InProgress DEF BatchInProgress
  <2>. QED
    BY <1>1, <1>3, <1>6, <2>1 DEF Contract!Effect
<1>. QED
  BY <1>2, <1>4, <1>5, <1>6 DEF TxModes

-----------------------------------------------------------------------------
(* The steps.                                                              *)

LEMMA RefinedStep ==
    ASSUME IInv, NEW r \in Slots, Step(r)
    PROVE  Contract!Next \/ UNCHANGED Contract!vars
<1>. USE DEF IInv, ControlInv
<1>0. Frame(r)
  BY OtherHandlers
<1>1. CASE RefuseInvalid(r) \/ RefuseBatch(r) \/ Forbid(r) \/ QueryFails(r) \/ Refuse(r)
           \/ LockFails(r) \/ Panic(r) \/ CommitFails(r) \/ TxIsDone(r) \/ Cancel(r)
  <2>1. Busy(r) /\ UNCHANGED <<table, req>>
    BY <1>1 DEF Busy, RefuseInvalid, RefuseBatch, Forbid, QueryFails, Refuse, LockFails, Panic,
       CommitFails, TxIsDone, Cancel, store, handler
  <2>2. pc'[r] = "answered" /\ resp'[r].status \notin Success
    BY <1>1 DEF RefuseInvalid, RefuseBatch, Forbid, QueryFails, Refuse, LockFails, Panic,
       CommitFails, TxIsDone, Cancel, Answer, Refusals, Dropped, Success, TypeOK
  <2>. QED
    BY <1>0, <2>1, <2>2, Failure
<1>2. CASE Enter(r) \/ UseCache(r) \/ Miss(r) \/ Load(r) \/ Connect(r) \/ BeginTx(r)
           \/ NextObject(r) \/ AllDone(r) \/ ExecInTx(r)
  <2>1. Busy(r) /\ effect[r] = "none" /\ effect' = effect /\ UNCHANGED <<table, req>>
    BY <1>2 DEF Busy, Enter, UseCache, Miss, Load, Connect, BeginTx, NextObject, AllDone,
       ExecInTx, Runs, store, handler, SlotInv, EffectAt
  <2>2. Busy(r)'
    <3>1. CASE Enter(r)
      BY <3>1 DEF Enter, Goto, FirstLabel, Busy, TypeOK, ItemOps, BulkModes
    <3>2. CASE ~Enter(r)
      BY <1>2, <3>2 DEF Busy, UseCache, Miss, Load, Connect, BeginTx, NextObject, AllDone,
         ExecInTx, Goto, AfterMetadata, TypeOK
    <3>. QED
      BY <3>1, <3>2
  <2>. QED
    BY <1>0, <2>1, <2>2, PhaseNow, PhaseNext, Silence
<1>3. CASE Leave(r) \/ AwaitDone(r)
  <2>1. UNCHANGED <<table, req, pc, resp, effect>>
    BY <1>3 DEF Leave, AwaitDone, store, handler
  <2>2. Phase(r)' = Phase(r)
    BY <2>1 DEF Phase
  <2>. QED
    BY <1>0, <2>1, <2>2, Silence
<1>4. CASE IgnoreUnknownMode(r)
  <2>1. /\ Busy(r) /\ UNCHANGED <<table, req>> /\ effect[r] = "none"
        /\ pc'[r] = "answered" /\ resp'[r].status \in Success
    BY <1>4 DEF IgnoreUnknownMode, Busy, Answer, store, handler, Success, SlotInv, EffectAt, TypeOK
  <2>2. req[r].op \notin Writes
    BY <1>4 DEF IgnoreUnknownMode, Writes, ItemOps, ItemReads, BulkModes, TxModes
  <2>. QED
    BY <1>0, <2>1, <2>2, Completion
<1>5. CASE ServeRead(r)
  <2>1. /\ Busy(r) /\ UNCHANGED <<table, req>> /\ effect[r] = "none"
        /\ pc'[r] = "answered"
    BY <1>5 DEF ServeRead, Busy, Answer, store, handler, SlotInv, EffectAt, TypeOK
  <2>2. req[r].op \notin Writes
    BY <1>5 DEF ServeRead, SlotInv, PathAt, Writes, ItemOps, ItemReads, BulkModes, TxModes
  <2>. QED
    BY <1>0, <2>1, <2>2, Completion, Failure
<1>6. CASE CheckExists(r)
  <2>1. Busy(r) /\ UNCHANGED <<table, req>> /\ effect[r] = "none" /\ effect' = effect
    BY <1>6 DEF CheckExists, Busy, store, handler, SlotInv, EffectAt
  <2>2. \/ pc'[r] = "metadata"
        \/ pc'[r] = "answered" /\ resp'[r].status \notin Success
    BY <1>6 DEF CheckExists, Goto, Answer, Success, TypeOK
  <2>3. CASE pc'[r] = "metadata"
    <3>1. Phase(r) = "open" /\ Phase(r)' = "open"
      BY <2>1, <2>3, PhaseNow, PhaseNext DEF Busy
    <3>. QED
      BY <1>0, <2>1, <3>1, Silence
  <2>4. CASE pc'[r] = "answered" /\ resp'[r].status \notin Success
    BY <1>0, <2>1, <2>4, Failure
  <2>. QED
    BY <2>2, <2>3, <2>4
<1>7. CASE ReadBack(r)
  <2>1. /\ Busy(r) /\ UNCHANGED <<table, req>> /\ effect[r] # "none"
        /\ pc'[r] = "answered" /\ resp'[r].status \in Success
    BY <1>7 DEF ReadBack, Busy, Answer, store, handler, Success, SlotInv, EffectAt, TypeOK
  <2>2. req[r].op \in Writes
    BY <1>7 DEF ReadBack, SlotInv, PathAt, Writes, ItemOps, ItemReads
  <2>. QED
    BY <1>0, <2>1, <2>2, Completion
<1>8. CASE ExecCreate(r) \/ ExecUpdate(r) \/ ExecDelete(r)
  <2>1. /\ pc[r] = "exec" /\ req' = req /\ pc'[r] \in {"refetch", "answered"}
        /\ effect'[r] # "none"
    BY <1>8 DEF ExecCreate, ExecUpdate, ExecDelete, Runs, Learns, Goto, Answer, TakesEffect,
       handler, TypeOK
  <2>2. req[r].op \in Writes
    BY <2>1 DEF SlotInv, PathAt
  <2>3. Contract!Effect(req[r], table, table')
    BY <1>8, CreateEffect, UpdateEffect, DeleteEffect
  <2>. QED
    BY <1>0, <2>1, <2>2, <2>3, Application
<1>9. CASE Commit(r)
  <2>1. /\ pc[r] = "commit" /\ req' = req /\ pc'[r] = "answered" /\ effect'[r] # "none"
    BY <1>9 DEF Commit, Answer, TakesEffect, handler, TypeOK
  <2>2. req[r].op \in Writes
    BY <2>1 DEF SlotInv, PathAt, Writes, BulkModes
  <2>. QED
    BY <1>0, <1>9, <2>1, <2>2, CommitEffect, Application
<1>10. CASE Receive(r)
  <2>1. /\ pc[r] \in {"idle", "answered"} /\ pc'[r] = "gate" /\ effect'[r] = "none"
        /\ table' = table
    BY <1>10 DEF Receive, store, TypeOK
  <2>2. req'[r] \in RequestSet /\ \A s \in Slots \ {r} : req'[s] = req[s]
    <3>1. PICK q \in Workload[r] : req' = [req EXCEPT ![r] = q]
      BY <1>10 DEF Receive
    <3>2. q \in RequestSet
      BY CrudAssumption
    <3>3. req \in [Slots -> RequestSet]
      BY DEF TypeOK
    <3>. QED
      BY <3>1, <3>2, <3>3
  <2>3. Phase(r) \in {"idle", "done", "failed"} /\ Phase(r)' = "open"
    BY <2>1, PhaseNow, PhaseNext DEF Busy
  <2>4. Contract!Open(r)
    BY <1>0, <2>1, <2>2, <2>3, PhaseFrame, Vocabulary DEF Contract!Open, Contract!Move, phases
  <2>. QED
    BY <2>4 DEF Contract!Next
<1>. QED
  BY <1>1, <1>2, <1>3, <1>4, <1>5, <1>6, <1>7, <1>8, <1>9, <1>10 DEF Step, Handle

\* The service implements the item store: whatever the interleaving, the
\* faults, the size of the pool and of the table, every request has at most one
\* effect, at one instant, as a whole.
THEOREM Implementation == Spec => ImplementsItemStore
<1>1. Init => Contract!Init
  <2>. SUFFICES ASSUME Init PROVE Contract!Init
    OBVIOUS
  <2>1. TypeOK
    BY InitControl DEF ControlInv
  <2>2. [r \in Slots |-> Phase(r)] = [r \in Slots |-> "idle"]
    BY DEF Init, Phase
  <2>. QED
    BY <2>1, <2>2, Vocabulary DEF Contract!Init, TypeOK
<1>2. IInv /\ [Next]_vars => [Contract!Next]_(Contract!vars)
  <2>. SUFFICES ASSUME IInv, [Next]_vars PROVE [Contract!Next]_(Contract!vars)
    OBVIOUS
  <2>1. ASSUME Expire \/ UNCHANGED vars PROVE UNCHANGED Contract!vars
    BY <2>1 DEF Expire, vars, store, handler, Contract!vars, Phase
  <2>2. ASSUME NEW r \in Slots, Step(r) PROVE [Contract!Next]_(Contract!vars)
    BY <2>2, RefinedStep
  <2>. QED
    BY <2>1, <2>2 DEF Next, Step
<1>. QED
  BY <1>1, <1>2, Invariant, PTL DEF Spec, ImplementsItemStore, Contract!Spec
=============================================================================
