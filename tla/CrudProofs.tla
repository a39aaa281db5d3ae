----------------------------- MODULE CrudProofs -----------------------------
(***************************************************************************)
(* Proofs about Crud, for every value of its constants: the types, the     *)
(* paths of the handlers, and who holds connections, transactions and      *)
(* locks.  Each invariant has a lemma that says every step preserves it,   *)
(* with one step per action.                                               *)
(***************************************************************************)
EXTENDS CrudInvariant, FiniteSetTheorems, TLAPS

LEMMA ObjType ==
    ASSUME TypeOK, SlotInv, NEW r \in Slots,
           pc[r] \in {"metadata", "load", "connect", "exec", "refetch"},
           req[r].op \in {"CreateItem", "UpdateItemById"} \cup TxModes
    PROVE  Obj(r) \in Bodies
<1>1. req[r].objs \in Seq(Bodies)
  BY DEF TypeOK, RequestSet
<1>2. CASE req[r].op \in TxModes
  <2>1. n[r] \in 1..Len(req[r].objs)
    BY <1>2 DEF SlotInv, PathAt, AtObj, TxModes
  <2>. QED
    BY <1>1, <2>1 DEF Obj
<1>3. CASE req[r].op \in {"CreateItem", "UpdateItemById"}
  <2>1. n[r] = 1
    BY <1>3 DEF SlotInv, PathAt, TxModes
  <2>2. Len(req[r].objs) = 1
    BY <1>3, CrudAssumption DEF SlotInv, PathAt
  <2>. QED
    BY <1>1, <2>1, <2>2 DEF Obj
<1>. QED
  BY <1>2, <1>3

LEMMA RowType ==
    ASSUME TypeOK, NEW r \in Slots, Obj(r) \in Bodies
    PROVE  Row(r) \in Rows /\ Row(r) # NoRow
BY NoRowAssumption DEF TypeOK, Row, Rows, Bodies

-----------------------------------------------------------------------------
(* Types of what the actions compute.                                      *)

LEMMA ItemType ==
    ASSUME NEW row \in Rows \cup {NoRow}
    PROVE  Item(row) \in Vals \cup {Garbled, Nothing}
BY NoRowAssumption DEF Item, Rows

LEMMA FetchType ==
    ASSUME TypeOK, NEW i, NEW row \in FetchOneItem(i)
    PROVE  row \in Rows \cup {NoRow}
BY DEF TypeOK, FetchOneItem, Committed, Tables

LEMMA AnswerType ==
    ASSUME TypeOK, NEW r \in Slots, NEW status \in Statuses,
           NEW item \in Vals \cup {Garbled, Nothing}, Answer(r, status, item)
    PROVE  pc' \in [Slots -> Labels] /\ resp' \in [Slots -> Answers]
BY DEF TypeOK, Answer, Labels, Answers

LEMMA ReleaseType ==
    ASSUME TypeOK, NEW r \in Slots, Release(r) \/ UNCHANGED <<pend, conn, tx>>
    PROVE  pend' \in [Slots -> Tables] /\ tx' \subseteq conn' /\ conn' \subseteq Slots
BY DEF TypeOK, Release, NoPend, Tables

LEMMA SeesType ==
    ASSUME TypeOK, NEW r \in Slots
    PROVE  Sees(r) \in Tables
BY DEF TypeOK, Sees, Tables

LEMMA EffectType ==
    ASSUME TypeOK, NEW r \in Slots, NEW ids, TakesEffect(r, ids)
    PROVE  effect' \in [Slots -> Effects]
BY DEF TypeOK, TakesEffect, Effects

LEMMA KeyType ==
    ASSUME TypeOK, NEW b \in Bodies
    PROVE  KeyFor(b) \in Ids \cup {Absent}
BY MaxIdAssumption, CrudAssumption DEF TypeOK, KeyFor, Bodies, Ids, Absent

LEMMA CounterType ==
    ASSUME TypeOK, NEW i \in Ids \cup {Absent}, AdvanceCounter(i)
    PROVE  nextId' \in 1..(MaxId + 1)
BY MaxIdAssumption DEF TypeOK, AdvanceCounter, Ids, Absent

LEMMA LearnsType ==
    ASSUME TypeOK, NEW r \in Slots, Learns(r)
    PROVE  pc' \in [Slots -> Labels] /\ resp' \in [Slots -> Answers]
BY DEF TypeOK, Learns, Goto, Answer, Labels, Answers, Statuses

\* Only bulk handlers have transactions.
LEMMA NotInTx ==
    ASSUME PoolInv, NEW r \in Slots, req[r].op \notin TxModes
    PROVE  r \notin tx
BY DEF PoolInv

LEMMA RemoveConn ==
    ASSUME TypeOK, NEW r \in Slots, r \notin tx, conn' = conn \ {r}, UNCHANGED tx
    PROVE  tx' \subseteq conn' /\ conn' \subseteq Slots
BY DEF TypeOK

LEMMA InitControl == Init => ControlInv
<1>. SUFFICES ASSUME Init PROVE ControlInv
  OBVIOUS
<1>1. TypeOK
  <2>1. table \in Tables
    BY CrudAssumption DEF Init, Tables, Rows
  <2>2. nextId \in 1..(MaxId + 1)
    BY MaxIdAssumption, CrudAssumption DEF Init
  <2>3. pend \in [Slots -> Tables]
    BY DEF Init, NoPend, Tables
  <2>4. req \in [Slots -> RequestSet]
    <3>1. <<>> \in Seq(Bodies)
      OBVIOUS
    <3>. QED
      BY <3>1 DEF Init, RequestSet, Operations, Absent
  <2>5. resp \in [Slots -> Answers]
    BY DEF Init, Answers, Statuses, Dropped
  <2>6. /\ pc \in [Slots -> Labels]
        /\ n \in [Slots -> Nat \ {0}]
        /\ effect \in [Slots -> Effects]
    BY DEF Init, Labels, Effects
  <2>7. /\ tx \subseteq conn /\ conn \subseteq Slots
        /\ cached \in BOOLEAN
        /\ key \in [Slots -> Ids \cup {Absent}]
        /\ remap \in [Slots -> BOOLEAN]
        /\ gone \subseteq Slots
    BY DEF Init
  <2>. QED
    BY <2>1, <2>2, <2>3, <2>4, <2>5, <2>6, <2>7 DEF TypeOK
<1>2. SlotInv
  BY DEF Init, SlotInv, PathAt, PermittedAt, EffectAt, Before, AtObj, TxModes
<1>3. PoolInv
  BY DEF Init, PoolInv, Locked, NoPend
<1>. QED
  BY <1>1, <1>2, <1>3 DEF ControlInv


-----------------------------------------------------------------------------
(* Types.                                                                  *)

LEMMA TypeStep ==
    ASSUME ControlInv, [Next]_vars
    PROVE  TypeOK'
<1>. USE DEF ControlInv
<1>1. ASSUME NEW r \in Slots, RefuseInvalid(r) PROVE TypeOK'
  BY <1>1 DEF TypeOK, store, pool, handler, Nothing, Answer, RefuseInvalid, Labels,
     Answers, Statuses
<1>2. ASSUME NEW r \in Slots, IgnoreUnknownMode(r) PROVE TypeOK'
  BY <1>2 DEF TypeOK, store, pool, handler, Nothing, Answer, IgnoreUnknownMode,
     Labels, Answers, Statuses
<1>3. ASSUME NEW r \in Slots, RefuseBatch(r) PROVE TypeOK'
  BY <1>3 DEF TypeOK, store, pool, handler, Nothing, Answer, RefuseBatch, Labels,
     Answers, Statuses
<1>4. ASSUME NEW r \in Slots, Forbid(r) PROVE TypeOK'
  BY <1>4 DEF TypeOK, ItemReads, ItemOps, TxModes, BulkModes, store, pool, handler,
     Nothing, Answer, Forbid, Labels, Answers, Statuses
<1>5. ASSUME NEW r \in Slots, Enter(r) PROVE TypeOK'
  BY <1>5 DEF TypeOK, ItemReads, ItemOps, TxModes, BulkModes, store, pool, handler,
     Goto, FirstLabel, Enter, Labels
<1>6. ASSUME NEW r \in Slots, ServeRead(r) PROVE TypeOK'
  <2>1. PICK row \in FetchOneItem(req[r].id) :
          \/ row = NoRow /\ Answer(r, 404, Nothing)
          \/ row # NoRow /\ req[r].op = "GetItemById" /\ Answer(r, 200, Item(row))
          \/ row # NoRow /\ req[r].op = "ExistsItemById" /\ Answer(r, 204, Nothing)
    BY <1>6 DEF ServeRead
  <2>2. Item(row) \in Vals \cup {Garbled, Nothing}
    BY <2>1, FetchType, ItemType
  <2>3. pc' \in [Slots -> Labels] /\ resp' \in [Slots -> Answers]
    BY <2>1, <2>2, AnswerType DEF Statuses
  <2>. QED
    BY <1>6, <2>3 DEF TypeOK, ServeRead, store, pool, handler
<1>7. ASSUME NEW r \in Slots, CheckExists(r) PROVE TypeOK'
  <2>1. pc' \in [Slots -> Labels] /\ resp' \in [Slots -> Answers]
    <3>1. CASE Answer(r, 404, Nothing) \/ Answer(r, 405, Nothing)
      BY <3>1, AnswerType DEF Statuses
    <3>2. CASE Goto(r, "metadata")
      BY <3>2 DEF TypeOK, Goto, Labels
    <3>. QED
      BY <1>7, <3>1, <3>2 DEF CheckExists
  <2>. QED
    BY <1>7, <2>1 DEF TypeOK, CheckExists, store, pool, handler
<1>8. ASSUME NEW r \in Slots, ReadBack(r) PROVE TypeOK'
  <2>1. PICK row \in FetchOneItem(key[r]) :
          Answer(r, IF req[r].op = "CreateItem" THEN 201 ELSE 202, Item(row))
    BY <1>8 DEF ReadBack
  <2>2. Item(row) \in Vals \cup {Garbled, Nothing}
    BY <2>1, FetchType, ItemType
  <2>3. pc' \in [Slots -> Labels] /\ resp' \in [Slots -> Answers]
    BY <2>1, <2>2, AnswerType DEF Statuses
  <2>. QED
    BY <1>8, <2>3 DEF TypeOK, ReadBack, store, pool, handler
<1>9. ASSUME NEW r \in Slots, QueryFails(r) PROVE TypeOK'
  BY <1>9 DEF TypeOK, store, pool, handler, Nothing, Answer, QueryFails, Labels,
     Answers, Statuses
<1>10. ASSUME NEW r \in Slots, UseCache(r) PROVE TypeOK'
  BY <1>10 DEF TypeOK, TxModes, store, pool, Goto, AfterMetadata, UseCache, Labels
<1>11. ASSUME NEW r \in Slots, Miss(r) PROVE TypeOK'
  BY <1>11 DEF TypeOK, store, pool, handler, Goto, Miss, Labels
<1>12. ASSUME NEW r \in Slots, Load(r) PROVE TypeOK'
  BY <1>12, CrudAssumption DEF TypeOK, Load, Goto, store, pool, Labels, AfterMetadata
<1>13. ASSUME NEW r \in Slots, Connect(r) PROVE TypeOK'
  BY <1>13 DEF TypeOK, store, handler, Goto, Connect, Labels
<1>14. ASSUME NEW r \in Slots, ExecCreate(r) PROVE TypeOK'
  <2>. DEFINE i == KeyFor(Obj(r))
  <2>1. Obj(r) \in Bodies
    BY <1>14, ObjType DEF ExecCreate, Runs
  <2>2. i \in Ids
    BY <1>14, <2>1, KeyType DEF ExecCreate, Runs, NoKey
  <2>3. table' \in Tables
    BY <1>14, <2>1, <2>2, RowType DEF TypeOK, ExecCreate, Tables
  <2>4. nextId' \in 1..(MaxId + 1)
    BY <1>14, <2>2, CounterType DEF ExecCreate
  <2>5. key' \in [Slots -> Ids \cup {Absent}]
    BY <1>14, <2>2 DEF TypeOK, ExecCreate, LastInsertId
  <2>6. effect' \in [Slots -> Effects]
    BY <1>14, EffectType DEF ExecCreate
  <2>7. pc' \in [Slots -> Labels] /\ resp' \in [Slots -> Answers]
    BY <1>14, LearnsType DEF ExecCreate
  <2>8. tx' \subseteq conn' /\ conn' \subseteq Slots
    BY <1>14, NotInTx, RemoveConn DEF ExecCreate, TxModes
  <2>. QED
    BY <1>14, <2>3, <2>4, <2>5, <2>6, <2>7, <2>8 DEF TypeOK, ExecCreate
<1>15. ASSUME NEW r \in Slots, ExecUpdate(r) PROVE TypeOK'
  <2>1. Obj(r) \in Bodies
    BY <1>15, ObjType DEF ExecUpdate, Runs
  <2>2. Row(r) \in Rows
    BY <2>1, RowType
  <2>3. table' \in Tables
    BY <1>15, <2>2 DEF TypeOK, ExecUpdate, Tables
  <2>4. key' \in [Slots -> Ids \cup {Absent}]
    BY <1>15 DEF TypeOK, ExecUpdate, RequestSet
  <2>5. effect' \in [Slots -> Effects]
    BY <1>15, EffectType DEF ExecUpdate
  <2>6. pc' \in [Slots -> Labels] /\ resp' \in [Slots -> Answers]
    BY <1>15, LearnsType DEF ExecUpdate
  <2>7. tx' \subseteq conn' /\ conn' \subseteq Slots
    BY <1>15, NotInTx, RemoveConn DEF ExecUpdate, TxModes
  <2>. QED
    BY <1>15, <2>3, <2>4, <2>5, <2>6, <2>7 DEF TypeOK, ExecUpdate
<1>16. ASSUME NEW r \in Slots, ExecDelete(r) PROVE TypeOK'
  <2>1. table' \in Tables
    BY <1>16 DEF TypeOK, ExecDelete, Tables
  <2>2. effect' \in [Slots -> Effects]
    BY <1>16, EffectType DEF ExecDelete
  <2>3. pc' \in [Slots -> Labels] /\ resp' \in [Slots -> Answers]
    BY <1>16, LearnsType DEF ExecDelete
  <2>4. tx' \subseteq conn' /\ conn' \subseteq Slots
    BY <1>16, NotInTx, RemoveConn DEF ExecDelete, TxModes
  <2>. QED
    BY <1>16, <2>1, <2>2, <2>3, <2>4 DEF TypeOK, ExecDelete, handler
<1>17. ASSUME NEW r \in Slots, Refuse(r) PROVE TypeOK'
  <2>1. nextId' \in 1..(MaxId + 1)
    <3>1. CASE Duplicate(r) /\ req[r].op # "UpdateItemById"
      <4>1. req[r].op \in {"CreateItem", "INSERT"}
        BY <3>1 DEF Duplicate
      <4>2. Obj(r) \in Bodies
        BY <1>17, <4>1, ObjType DEF Refuse, TxModes
      <4>. QED
        BY <1>17, <3>1, <4>2, KeyType, CounterType DEF Refuse
    <3>. QED
      BY <1>17, <3>1 DEF TypeOK, Refuse
  <2>2. PICK status \in Refusals(r) : Answer(r, status, Nothing)
    BY <1>17 DEF Refuse
  <2>3. status \in Statuses
    BY DEF Refusals, Statuses
  <2>4. pc' \in [Slots -> Labels] /\ resp' \in [Slots -> Answers]
    BY <2>2, <2>3, AnswerType
  <2>5. pend' \in [Slots -> Tables] /\ tx' \subseteq conn' /\ conn' \subseteq Slots
    BY <1>17, ReleaseType DEF Refuse, Rollback
  <2>. QED
    BY <1>17, <2>1, <2>4, <2>5 DEF TypeOK, Refuse, handler
<1>18. ASSUME NEW r \in Slots, LockFails(r) PROVE TypeOK'
  BY <1>18 DEF TypeOK, handler, Nothing, NoPend, Answer, Release, Rollback,
     LockFails, Labels, Answers, Statuses, Tables
<1>19. ASSUME NEW r \in Slots, BeginTx(r) PROVE TypeOK'
  BY <1>19 DEF TypeOK, store, handler, Goto, BeginTx, Labels
<1>20. ASSUME NEW r \in Slots, NextObject(r) PROVE TypeOK'
  BY <1>20 DEF TypeOK, store, pool, handler, Goto, NextObject, Labels
<1>21. ASSUME NEW r \in Slots, Panic(r) PROVE TypeOK'
  BY <1>21 DEF TypeOK, store, pool, handler, Nothing, Dropped, Answer, Panic,
     Labels, Answers, Statuses
<1>22. ASSUME NEW r \in Slots, AllDone(r) PROVE TypeOK'
  BY <1>22 DEF TypeOK, store, pool, handler, Goto, AllDone, Labels
<1>23. ASSUME NEW r \in Slots, ExecInTx(r) PROVE TypeOK'
  <2>. DEFINE i == KeyInTx(r)
  <2>1. Obj(r) \in Bodies
    BY <1>23, ObjType DEF ExecInTx, Runs
  <2>2. i \in Ids
    <3>1. CASE req[r].op = "UPDATE"
      BY <1>23, <2>1, <3>1 DEF ExecInTx, Runs, SlotInv, PathAt, AtObj, Usable, KeyInTx, Bodies
    <3>2. CASE req[r].op # "UPDATE"
      BY <1>23, <2>1, <3>2, KeyType DEF ExecInTx, Runs, NoKey, KeyInTx, TxModes
    <3>. QED
      BY <3>1, <3>2
  <2>3. pend' \in [Slots -> Tables]
    BY <1>23, <2>1, <2>2, RowType DEF TypeOK, ExecInTx, Tables
  <2>4. nextId' \in 1..(MaxId + 1)
    BY <1>23, <2>2, CounterType DEF TypeOK, ExecInTx
  <2>5. n' \in [Slots -> Nat \ {0}]
    BY <1>23 DEF TypeOK, ExecInTx
  <2>. QED
    BY <1>23, <2>3, <2>4, <2>5 DEF TypeOK, ExecInTx, Goto, Labels, pool
<1>24. ASSUME NEW r \in Slots, Commit(r) PROVE TypeOK'
  <2>1. table' \in Tables
    BY <1>24, SeesType DEF Commit
  <2>2. effect' \in [Slots -> Effects]
    BY <1>24, EffectType DEF Commit
  <2>3. pc' \in [Slots -> Labels] /\ resp' \in [Slots -> Answers]
    BY <1>24, AnswerType DEF Commit, Statuses
  <2>4. pend' \in [Slots -> Tables] /\ tx' \subseteq conn' /\ conn' \subseteq Slots
    BY <1>24, ReleaseType DEF Commit
  <2>. QED
    BY <1>24, <2>1, <2>2, <2>3, <2>4 DEF TypeOK, Commit, handler
<1>25. ASSUME NEW r \in Slots, CommitFails(r) PROVE TypeOK'
  BY <1>25 DEF TypeOK, handler, Nothing, NoPend, Answer, Release, Rollback,
     CommitFails, Labels, Answers, Statuses, Tables
<1>26. ASSUME NEW r \in Slots, TxIsDone(r) PROVE TypeOK'
  BY <1>26 DEF TypeOK, TxModes, store, pool, handler, Nothing, Answer, TxIsDone,
     Labels, Answers, Statuses
<1>27. ASSUME NEW r \in Slots, Cancel(r) PROVE TypeOK'
  BY <1>27 DEF TypeOK, handler, Nothing, NoPend, Answer, Release, Rollback, Cancel,
     Labels, Answers, Statuses, Tables
<1>28. ASSUME NEW r \in Slots, Receive(r) PROVE TypeOK'
  <2>1. PICK q \in Workload[r] : req' = [req EXCEPT ![r] = q]
    BY <1>28 DEF Receive
  <2>2. req' \in [Slots -> RequestSet]
    BY <2>1, CrudAssumption DEF TypeOK
  <2>. QED
    BY <1>28, <2>2 DEF TypeOK, Receive, Labels, Answers, Statuses, Nothing, Dropped,
       Effects, store, pool
<1>29. ASSUME NEW r \in Slots, Leave(r) PROVE TypeOK'
  BY <1>29 DEF TypeOK, store, pool, handler, Leave
<1>30. ASSUME NEW r \in Slots, AwaitDone(r) PROVE TypeOK'
  BY <1>30 DEF TypeOK, handler, NoPend, Release, Rollback, AwaitDone, Tables
<1>31. ASSUME Expire PROVE TypeOK'
  BY <1>31 DEF Expire, TypeOK, store, pool, handler
<1>32. ASSUME UNCHANGED vars PROVE TypeOK'
  BY <1>32 DEF vars, TypeOK
<1>. QED
  BY <1>1, <1>2, <1>3, <1>4, <1>5, <1>6, <1>7, <1>8, <1>9, <1>10, <1>11, <1>12,
     <1>13, <1>14, <1>15, <1>16, <1>17, <1>18, <1>19, <1>20, <1>21, <1>22, <1>23,
     <1>24, <1>25, <1>26, <1>27, <1>28, <1>29, <1>30, <1>31, <1>32 DEF Next, Handle

-----------------------------------------------------------------------------
(* Paths, permissions and effects.                                         *)

SlotAt(r) == PathAt(r) /\ PermittedAt(r) /\ EffectAt(r)

\* A step of r leaves the other slots where they are.
Frame(r) ==
    \A s \in Slots \ {r} :
       /\ pc'[s] = pc[s] /\ req'[s] = req[s] /\ n'[s] = n[s] /\ resp'[s] = resp[s]
       /\ effect'[s] = "none" <=> effect[s] = "none"

LEMMA Elsewhere ==
    ASSUME SlotInv, NEW r \in Slots, Frame(r), SlotAt(r)'
    PROVE  SlotInv'
<1>. SUFFICES ASSUME NEW s \in Slots, s # r PROVE SlotAt(s)'
  BY DEF SlotInv, SlotAt
<1>1. /\ pc'[s] = pc[s] /\ req'[s] = req[s] /\ n'[s] = n[s] /\ resp'[s] = resp[s]
      /\ effect'[s] = "none" <=> effect[s] = "none"
  BY DEF Frame
<1>2. SlotAt(s)
  BY DEF SlotInv, SlotAt
<1>3. PathAt(s)'
  BY <1>1, <1>2 DEF SlotAt, PathAt, Usable, Obj
<1>4. PermittedAt(s)'
  BY <1>1, <1>2 DEF SlotAt, PermittedAt
<1>5. EffectAt(s)'
  BY <1>1, <1>2 DEF SlotAt, EffectAt
<1>. QED
  BY <1>3, <1>4, <1>5 DEF SlotAt

LEMMA SlotMove ==
    ASSUME TypeOK, NEW r \in Slots, SlotAt(r),
           Receive(r) \/ Handle(r) \/ Leave(r) \/ AwaitDone(r)
    PROVE  SlotAt(r)' /\ Frame(r)
<1>1. ASSUME RefuseInvalid(r) PROVE SlotAt(r)' /\ Frame(r)
  BY <1>1 DEF TypeOK, SlotAt, Frame, ItemReads, ItemOps, TxModes, BulkModes, Writes,
     store, pool, handler, Success, Obj, Answer, RefuseInvalid, Usable, AtObj,
     Before, PathAt, PermittedAt, EffectAt
<1>2. ASSUME IgnoreUnknownMode(r) PROVE SlotAt(r)' /\ Frame(r)
  BY <1>2 DEF TypeOK, SlotAt, Frame, ItemReads, ItemOps, TxModes, BulkModes, Writes,
     store, pool, handler, Success, Obj, Answer, IgnoreUnknownMode, Usable, AtObj,
     Before, PathAt, PermittedAt, EffectAt
<1>3. ASSUME RefuseBatch(r) PROVE SlotAt(r)' /\ Frame(r)
  BY <1>3 DEF TypeOK, SlotAt, Frame, ItemReads, ItemOps, TxModes, BulkModes, Writes,
     store, pool, handler, Success, Obj, Answer, IdsMissing, NoObjects, RefuseBatch,
     Usable, AtObj, Before, PathAt, PermittedAt, EffectAt
<1>4. ASSUME Forbid(r) PROVE SlotAt(r)' /\ Frame(r)
  BY <1>4 DEF TypeOK, SlotAt, Frame, ItemReads, ItemOps, TxModes, BulkModes, Writes,
     store, pool, handler, Success, Obj, Answer, IdsMissing, Forbid, Usable, AtObj,
     Before, PathAt, PermittedAt, EffectAt
<1>5. ASSUME Enter(r) PROVE SlotAt(r)' /\ Frame(r)
  <2>1. /\ pc[r] = "gate" /\ req[r].op \in ItemOps \cup BulkModes
        /\ pc' = [pc EXCEPT ![r] = FirstLabel(req[r].op)]
        /\ UNCHANGED <<req, n, effect, resp>>
    BY <1>5 DEF Enter, Goto, handler
  <2>2. pc'[r] = FirstLabel(req[r].op)
    BY <2>1 DEF TypeOK
  <2>3. PathAt(r)'
    BY <2>1, <2>2 DEF SlotAt, PathAt, FirstLabel, ItemReads, ItemOps, TxModes,
       BulkModes, Writes, AtObj
  <2>4. PermittedAt(r)'
    BY <1>5, <2>1, <2>2 DEF PermittedAt, Enter, FirstLabel, Needs, ChangeNeeds,
       ItemReads, ItemOps, TxModes, BulkModes, Before
  <2>5. EffectAt(r)'
    BY <2>1, <2>2 DEF SlotAt, EffectAt, FirstLabel, ItemReads, ItemOps, TxModes,
       BulkModes
  <2>6. Frame(r)
    BY <1>5, <2>1 DEF Frame, Enter, handler, store, pool
  <2>. QED
    BY <2>3, <2>4, <2>5, <2>6 DEF SlotAt
<1>6. ASSUME ServeRead(r) PROVE SlotAt(r)' /\ Frame(r)
  BY <1>6 DEF TypeOK, SlotAt, Frame, ItemReads, ItemOps, TxModes, BulkModes, Writes,
     store, pool, handler, Success, Obj, Answer, ServeRead, Usable, AtObj, Before,
     PathAt, PermittedAt, EffectAt
<1>7. ASSUME CheckExists(r) PROVE SlotAt(r)' /\ Frame(r)
  BY <1>7 DEF TypeOK, SlotAt, Frame, ItemReads, ItemOps, TxModes, BulkModes, Writes,
     Needs, ChangeNeeds, store, pool, handler, Success, Obj, Goto, Answer,
     CheckExists, Usable, AtObj, Before, PathAt, PermittedAt, EffectAt
<1>8. ASSUME ReadBack(r) PROVE SlotAt(r)' /\ Frame(r)
  BY <1>8 DEF TypeOK, SlotAt, Frame, ItemReads, ItemOps, TxModes, BulkModes, Writes,
     store, pool, handler, Success, Obj, Answer, ReadBack, Usable, AtObj, Before,
     PathAt, PermittedAt, EffectAt
<1>9. ASSUME QueryFails(r) PROVE SlotAt(r)' /\ Frame(r)
  BY <1>9 DEF TypeOK, SlotAt, Frame, ItemReads, ItemOps, TxModes, BulkModes, Writes,
     store, pool, handler, Success, Obj, Answer, QueryFails, Usable, AtObj, Before,
     PathAt, PermittedAt, EffectAt
<1>10. ASSUME UseCache(r) PROVE SlotAt(r)' /\ Frame(r)
  BY <1>10 DEF TypeOK, SlotAt, Frame, ItemReads, ItemOps, TxModes, BulkModes,
     Writes, store, pool, Success, Obj, Goto, AfterMetadata, UseCache, Usable,
     AtObj, Before, PathAt, PermittedAt, EffectAt
<1>11. ASSUME Miss(r) PROVE SlotAt(r)' /\ Frame(r)
  BY <1>11 DEF TypeOK, SlotAt, Frame, ItemReads, ItemOps, TxModes, BulkModes,
     Writes, store, pool, handler, Success, Obj, Goto, Miss, Usable, AtObj, Before,
     PathAt, PermittedAt, EffectAt
<1>12. ASSUME Load(r) PROVE SlotAt(r)' /\ Frame(r)
  BY <1>12 DEF TypeOK, SlotAt, Frame, ItemReads, ItemOps, TxModes, BulkModes,
     Writes, store, pool, Success, Obj, Goto, AfterMetadata, Load, Usable, AtObj,
     Before, PathAt, PermittedAt, EffectAt
<1>13. ASSUME Connect(r) PROVE SlotAt(r)' /\ Frame(r)
  BY <1>13 DEF TypeOK, SlotAt, Frame, ItemReads, ItemOps, TxModes, BulkModes,
     Writes, store, handler, Success, Obj, Goto, Connect, Usable, AtObj, Before,
     PathAt, PermittedAt, EffectAt
<1>14. ASSUME ExecCreate(r) PROVE SlotAt(r)' /\ Frame(r)
  BY <1>14 DEF TypeOK, SlotAt, Frame, ItemReads, ItemOps, TxModes, BulkModes,
     Writes, Success, Obj, TakesEffect, Goto, Answer, Runs, Learns, ExecCreate,
     Usable, AtObj, Before, PathAt, PermittedAt, EffectAt
<1>15. ASSUME ExecUpdate(r) PROVE SlotAt(r)' /\ Frame(r)
  BY <1>15 DEF TypeOK, SlotAt, Frame, ItemReads, ItemOps, TxModes, BulkModes,
     Writes, Success, Obj, TakesEffect, Goto, Answer, Runs, Learns, ExecUpdate,
     Usable, AtObj, Before, PathAt, PermittedAt, EffectAt
<1>16. ASSUME ExecDelete(r) PROVE SlotAt(r)' /\ Frame(r)
  BY <1>16 DEF TypeOK, SlotAt, Frame, ItemReads, ItemOps, TxModes, BulkModes,
     Writes, handler, Success, Obj, TakesEffect, Goto, Answer, Runs, Learns,
     ExecDelete, Usable, AtObj, Before, PathAt, PermittedAt, EffectAt
<1>17. ASSUME Refuse(r) PROVE SlotAt(r)' /\ Frame(r)
  <2>1. PICK status \in Refusals(r) : Answer(r, status, Nothing)
    BY <1>17 DEF Refuse
  <2>2. status \notin Success
    BY DEF Refusals, Success
  <2>. QED
    BY <1>17, <2>1, <2>2 DEF TypeOK, SlotAt, Frame, ItemReads, ItemOps, TxModes,
       BulkModes, Writes, handler, Success, Obj, Answer, Refuse, Usable, AtObj,
       Before, PathAt, PermittedAt, EffectAt
<1>18. ASSUME LockFails(r) PROVE SlotAt(r)' /\ Frame(r)
  BY <1>18 DEF TypeOK, SlotAt, Frame, ItemReads, ItemOps, TxModes, BulkModes,
     Writes, handler, Success, Obj, Answer, LockFails, Usable, AtObj, Before,
     PathAt, PermittedAt, EffectAt
<1>19. ASSUME BeginTx(r) PROVE SlotAt(r)' /\ Frame(r)
  BY <1>19 DEF TypeOK, SlotAt, Frame, ItemReads, ItemOps, TxModes, BulkModes,
     Writes, store, handler, Success, Obj, Goto, BeginTx, Usable, AtObj, Before,
     PathAt, PermittedAt, EffectAt
<1>20. ASSUME NextObject(r) PROVE SlotAt(r)' /\ Frame(r)
  BY <1>20 DEF TypeOK, SlotAt, Frame, ItemReads, ItemOps, TxModes, BulkModes,
     Writes, store, pool, handler, Success, Obj, Goto, Usable, NextObject, AtObj,
     Before, PathAt, PermittedAt, EffectAt
<1>21. ASSUME Panic(r) PROVE SlotAt(r)' /\ Frame(r)
  BY <1>21 DEF TypeOK, SlotAt, Frame, ItemReads, ItemOps, TxModes, BulkModes,
     Writes, store, pool, handler, Success, Dropped, Obj, Answer, Usable, Panic,
     AtObj, Before, PathAt, PermittedAt, EffectAt
<1>22. ASSUME AllDone(r) PROVE SlotAt(r)' /\ Frame(r)
  BY <1>22 DEF TypeOK, SlotAt, Frame, ItemReads, ItemOps, TxModes, BulkModes,
     Writes, store, pool, handler, Success, Obj, Goto, Usable, AllDone, AtObj,
     Before, PathAt, PermittedAt, EffectAt
<1>23. ASSUME ExecInTx(r) PROVE SlotAt(r)' /\ Frame(r)
  BY <1>23 DEF TypeOK, SlotAt, Frame, ItemReads, ItemOps, TxModes, BulkModes,
     Writes, pool, Success, Obj, Goto, Runs, Usable, ExecInTx, AtObj, Before,
     PathAt, PermittedAt, EffectAt
<1>24. ASSUME Commit(r) PROVE SlotAt(r)' /\ Frame(r)
  BY <1>24 DEF TypeOK, SlotAt, Frame, ItemReads, ItemOps, TxModes, BulkModes,
     Writes, handler, Success, Obj, TakesEffect, Answer, Usable, Commit, AtObj,
     Before, PathAt, PermittedAt, EffectAt
<1>25. ASSUME CommitFails(r) PROVE SlotAt(r)' /\ Frame(r)
  BY <1>25 DEF TypeOK, SlotAt, Frame, ItemReads, ItemOps, TxModes, BulkModes,
     Writes, handler, Success, Obj, Answer, Usable, CommitFails, AtObj, Before,
     PathAt, PermittedAt, EffectAt
<1>26. ASSUME TxIsDone(r) PROVE SlotAt(r)' /\ Frame(r)
  BY <1>26 DEF TypeOK, SlotAt, Frame, ItemReads, ItemOps, TxModes, BulkModes,
     Writes, store, pool, handler, Success, Obj, Answer, Usable, TxIsDone, AtObj,
     Before, PathAt, PermittedAt, EffectAt
<1>27. ASSUME Cancel(r) PROVE SlotAt(r)' /\ Frame(r)
  BY <1>27 DEF TypeOK, SlotAt, Frame, ItemReads, ItemOps, TxModes, BulkModes,
     Writes, handler, Success, Obj, Answer, Usable, Cancel, AtObj, Before, PathAt,
     PermittedAt, EffectAt
<1>28. ASSUME Receive(r) PROVE SlotAt(r)' /\ Frame(r)
  BY <1>28 DEF TypeOK, SlotAt, Frame, ItemReads, ItemOps, TxModes, BulkModes,
     Writes, store, pool, Success, Dropped, Obj, Receive, Usable, AtObj, Before,
     PathAt, PermittedAt, EffectAt
<1>29. ASSUME Leave(r) PROVE SlotAt(r)' /\ Frame(r)
  BY <1>29 DEF TypeOK, SlotAt, Frame, ItemReads, ItemOps, TxModes, BulkModes,
     Writes, store, pool, handler, Success, Obj, Usable, Leave, AtObj, Before,
     PathAt, PermittedAt, EffectAt
<1>30. ASSUME AwaitDone(r) PROVE SlotAt(r)' /\ Frame(r)
  BY <1>30 DEF AwaitDone, SlotAt, Frame, PathAt, PermittedAt, EffectAt, handler,
     Obj, Usable
<1>. QED
  BY <1>1, <1>2, <1>3, <1>4, <1>5, <1>6, <1>7, <1>8, <1>9, <1>10, <1>11, <1>12,
     <1>13, <1>14, <1>15, <1>16, <1>17, <1>18, <1>19, <1>20, <1>21, <1>22, <1>23,
     <1>24, <1>25, <1>26, <1>27, <1>28, <1>29, <1>30 DEF Handle

LEMMA SlotStep ==
    ASSUME ControlInv, [Next]_vars
    PROVE  SlotInv'
<1>. USE DEF ControlInv
<1>1. \A r \in Slots : SlotAt(r)
  BY DEF SlotInv, SlotAt
<1>2. ASSUME NEW r \in Slots, Receive(r) \/ Handle(r) \/ Leave(r) \/ AwaitDone(r)
      PROVE  SlotInv'
  BY <1>1, <1>2, SlotMove, Elsewhere
<1>3. ASSUME Expire \/ UNCHANGED vars PROVE SlotInv'
  BY <1>3 DEF Expire, vars, handler, SlotInv, PathAt, PermittedAt, EffectAt, Obj, Usable
<1>. QED
  BY <1>2, <1>3 DEF Next

-----------------------------------------------------------------------------
(* Connections, transactions and locks.                                    *)

LEMMA PoolStep ==
    ASSUME ControlInv, [Next]_vars
    PROVE  PoolInv'
<1>. USE DEF ControlInv
<1>1. ASSUME NEW r \in Slots, RefuseInvalid(r) PROVE PoolInv'
  BY <1>1 DEF TypeOK, SlotInv, PathAt, PoolInv, Locked, InTx, store, pool, handler,
     Answer, RefuseInvalid, TxModes, AtObj, Writes, BulkModes, ItemOps, ItemReads
<1>2. ASSUME NEW r \in Slots, IgnoreUnknownMode(r) PROVE PoolInv'
  BY <1>2 DEF TypeOK, SlotInv, PathAt, PoolInv, Locked, InTx, store, pool, handler,
     Answer, IgnoreUnknownMode, TxModes, AtObj, Writes, BulkModes, ItemOps,
     ItemReads
<1>3. ASSUME NEW r \in Slots, RefuseBatch(r) PROVE PoolInv'
  BY <1>3 DEF TypeOK, SlotInv, PathAt, PoolInv, Locked, InTx, store, pool, handler,
     Answer, RefuseBatch, TxModes, AtObj, Writes, BulkModes, ItemOps, ItemReads
<1>4. ASSUME NEW r \in Slots, Forbid(r) PROVE PoolInv'
  BY <1>4 DEF TypeOK, SlotInv, PathAt, PoolInv, Locked, InTx, ItemReads, ItemOps,
     TxModes, BulkModes, store, pool, handler, Answer, Forbid, AtObj, Writes
<1>5. ASSUME NEW r \in Slots, Enter(r) PROVE PoolInv'
  BY <1>5 DEF TypeOK, SlotInv, PathAt, PoolInv, Locked, InTx, ItemReads, ItemOps,
     TxModes, BulkModes, store, pool, handler, Goto, FirstLabel, Enter, AtObj,
     Writes
<1>6. ASSUME NEW r \in Slots, ServeRead(r) PROVE PoolInv'
  <2>1. r \notin tx /\ r \notin conn
    BY <1>6 DEF ServeRead, PoolInv, InTx
  <2>2. \A s \in Slots \ {r} : pc'[s] = pc[s]
    BY <1>6 DEF ServeRead, Answer, Goto, TypeOK
  <2>. QED
    BY <1>6, <2>1, <2>2 DEF ServeRead, TypeOK, PoolInv, Locked, store, pool, handler
<1>7. ASSUME NEW r \in Slots, CheckExists(r) PROVE PoolInv'
  <2>1. r \notin tx /\ r \notin conn
    BY <1>7 DEF CheckExists, PoolInv, InTx
  <2>2. \A s \in Slots \ {r} : pc'[s] = pc[s]
    BY <1>7 DEF CheckExists, Answer, Goto, TypeOK
  <2>. QED
    BY <1>7, <2>1, <2>2 DEF CheckExists, TypeOK, PoolInv, Locked, store, pool, handler
<1>8. ASSUME NEW r \in Slots, ReadBack(r) PROVE PoolInv'
  BY <1>8 DEF TypeOK, SlotInv, PathAt, PoolInv, Locked, InTx, store, pool, handler,
     Answer, ReadBack, TxModes, AtObj, Writes, BulkModes, ItemOps, ItemReads
<1>9. ASSUME NEW r \in Slots, QueryFails(r) PROVE PoolInv'
  BY <1>9 DEF TypeOK, SlotInv, PathAt, PoolInv, Locked, InTx, store, pool, handler,
     Answer, QueryFails, TxModes, AtObj, Writes, BulkModes, ItemOps, ItemReads
<1>10. ASSUME NEW r \in Slots, UseCache(r) PROVE PoolInv'
  BY <1>10 DEF TypeOK, SlotInv, PathAt, PoolInv, Locked, InTx, TxModes, store, pool,
     Goto, AfterMetadata, UseCache, AtObj, Writes, BulkModes, ItemOps, ItemReads
<1>11. ASSUME NEW r \in Slots, Miss(r) PROVE PoolInv'
  BY <1>11 DEF TypeOK, SlotInv, PathAt, PoolInv, Locked, InTx, store, pool, handler,
     Goto, Miss, TxModes, AtObj, Writes, BulkModes, ItemOps, ItemReads
<1>12. ASSUME NEW r \in Slots, Load(r) PROVE PoolInv'
  BY <1>12 DEF TypeOK, SlotInv, PathAt, PoolInv, Locked, InTx, TxModes, store, pool,
     Goto, AfterMetadata, Load, AtObj, Writes, BulkModes, ItemOps, ItemReads
<1>13. ASSUME NEW r \in Slots, Connect(r) PROVE PoolInv'
  <2>1. r \notin tx /\ req[r].op \notin TxModes
    BY <1>13 DEF Connect, SlotInv, PathAt, PoolInv, InTx, TxModes
  <2>2. /\ pc'[r] = "exec" /\ \A s \in Slots \ {r} : pc'[s] = pc[s]
        /\ tx' = tx /\ conn' = conn \cup {r} /\ req' = req /\ gone' = gone /\ pend' = pend
    BY <1>13 DEF Connect, Goto, TypeOK, store, handler
  <2>. QED
    BY <2>1, <2>2 DEF TypeOK, PoolInv, Locked
<1>14. ASSUME NEW r \in Slots, ExecCreate(r) PROVE PoolInv'
  <2>1. r \notin tx
    BY <1>14, NotInTx DEF ExecCreate, TxModes
  <2>2. \A s \in Slots \ {r} : pc'[s] = pc[s]
    BY <1>14 DEF ExecCreate, Learns, Answer, Goto, TypeOK
  <2>. QED
    BY <1>14, <2>1, <2>2 DEF ExecCreate, TypeOK, PoolInv, Locked
<1>15. ASSUME NEW r \in Slots, ExecUpdate(r) PROVE PoolInv'
  <2>1. r \notin tx
    BY <1>15, NotInTx DEF ExecUpdate, TxModes
  <2>2. \A s \in Slots \ {r} : pc'[s] = pc[s]
    BY <1>15 DEF ExecUpdate, Learns, Answer, Goto, TypeOK
  <2>. QED
    BY <1>15, <2>1, <2>2 DEF ExecUpdate, TypeOK, PoolInv, Locked
<1>16. ASSUME NEW r \in Slots, ExecDelete(r) PROVE PoolInv'
  <2>1. r \notin tx
    BY <1>16, NotInTx DEF ExecDelete, TxModes
  <2>2. \A s \in Slots \ {r} : pc'[s] = pc[s]
    BY <1>16 DEF ExecDelete, Learns, Answer, Goto, TypeOK
  <2>. QED
    BY <1>16, <2>1, <2>2 DEF ExecDelete, TypeOK, PoolInv, Locked, handler
<1>17. ASSUME NEW r \in Slots, Refuse(r) PROVE PoolInv'
  BY <1>17 DEF TypeOK, SlotInv, PathAt, PoolInv, Locked, InTx, TxModes, handler,
     NoPend, Answer, Release, Rollback, Refuse, AtObj, Writes, BulkModes, ItemOps,
     ItemReads
<1>18. ASSUME NEW r \in Slots, LockFails(r) PROVE PoolInv'
  BY <1>18 DEF TypeOK, SlotInv, PathAt, PoolInv, Locked, InTx, handler, NoPend,
     Answer, Release, Rollback, LockFails, TxModes, AtObj, Writes, BulkModes,
     ItemOps, ItemReads
<1>19. ASSUME NEW r \in Slots, BeginTx(r) PROVE PoolInv'
  BY <1>19 DEF TypeOK, SlotInv, PathAt, PoolInv, Locked, InTx, store, handler, Goto,
     BeginTx, TxModes, AtObj, Writes, BulkModes, ItemOps, ItemReads
<1>20. ASSUME NEW r \in Slots, NextObject(r) PROVE PoolInv'
  BY <1>20 DEF TypeOK, SlotInv, PathAt, PoolInv, Locked, InTx, store, pool, handler,
     Goto, NextObject, TxModes, AtObj, Writes, BulkModes, ItemOps, ItemReads
<1>21. ASSUME NEW r \in Slots, Panic(r) PROVE PoolInv'
  BY <1>21 DEF TypeOK, SlotInv, PathAt, PoolInv, Locked, InTx, store, pool, handler,
     Answer, Panic, TxModes, AtObj, Writes, BulkModes, ItemOps, ItemReads
<1>22. ASSUME NEW r \in Slots, AllDone(r) PROVE PoolInv'
  BY <1>22 DEF TypeOK, SlotInv, PathAt, PoolInv, Locked, InTx, store, pool, handler,
     Goto, AllDone, TxModes, AtObj, Writes, BulkModes, ItemOps, ItemReads
<1>23. ASSUME NEW r \in Slots, ExecInTx(r) PROVE PoolInv'
  BY <1>23 DEF TypeOK, SlotInv, PathAt, PoolInv, Locked, InTx, TxModes, pool, Goto,
     Runs, ExecInTx, AtObj, Writes, BulkModes, ItemOps, ItemReads
<1>24. ASSUME NEW r \in Slots, Commit(r) PROVE PoolInv'
  BY <1>24 DEF TypeOK, SlotInv, PathAt, PoolInv, Locked, InTx, handler, NoPend,
     Answer, Release, Commit, TxModes, AtObj, Writes, BulkModes, ItemOps, ItemReads
<1>25. ASSUME NEW r \in Slots, CommitFails(r) PROVE PoolInv'
  BY <1>25 DEF TypeOK, SlotInv, PathAt, PoolInv, Locked, InTx, handler, NoPend,
     Answer, Release, Rollback, CommitFails, TxModes, AtObj, Writes, BulkModes,
     ItemOps, ItemReads
<1>26. ASSUME NEW r \in Slots, TxIsDone(r) PROVE PoolInv'
  BY <1>26 DEF TypeOK, SlotInv, PathAt, PoolInv, Locked, InTx, TxModes, store, pool,
     handler, Answer, TxIsDone, AtObj, Writes, BulkModes, ItemOps, ItemReads
<1>27. ASSUME NEW r \in Slots, Cancel(r) PROVE PoolInv'
  BY <1>27 DEF TypeOK, SlotInv, PathAt, PoolInv, Locked, InTx, handler, NoPend,
     Answer, Release, Rollback, Cancel, TxModes, AtObj, Writes, BulkModes, ItemOps,
     ItemReads
<1>28. ASSUME NEW r \in Slots, Receive(r) PROVE PoolInv'
  BY <1>28 DEF TypeOK, SlotInv, PathAt, PoolInv, Locked, InTx, store, pool, Receive,
     TxModes, AtObj, Writes, BulkModes, ItemOps, ItemReads
<1>29. ASSUME NEW r \in Slots, Leave(r) PROVE PoolInv'
  BY <1>29 DEF TypeOK, SlotInv, PathAt, PoolInv, Locked, InTx, store, pool, handler,
     Leave, TxModes, AtObj, Writes, BulkModes, ItemOps, ItemReads
<1>30. ASSUME NEW r \in Slots, AwaitDone(r) PROVE PoolInv'
  BY <1>30 DEF TypeOK, SlotInv, PathAt, PoolInv, Locked, InTx, handler, NoPend,
     Release, Rollback, AwaitDone, TxModes, AtObj, Writes, BulkModes, ItemOps,
     ItemReads
<1>31. ASSUME Expire PROVE PoolInv'
  BY <1>31 DEF Expire, PoolInv, InTx, Locked, store, pool, handler
<1>32. ASSUME UNCHANGED vars PROVE PoolInv'
  BY <1>32 DEF vars, PoolInv, Locked
<1>. QED
  BY <1>1, <1>2, <1>3, <1>4, <1>5, <1>6, <1>7, <1>8, <1>9, <1>10, <1>11, <1>12,
     <1>13, <1>14, <1>15, <1>16, <1>17, <1>18, <1>19, <1>20, <1>21, <1>22, <1>23,
     <1>24, <1>25, <1>26, <1>27, <1>28, <1>29, <1>30, <1>31, <1>32 DEF Next, Handle

-----------------------------------------------------------------------------
(* What follows.                                                           *)

THEOREM ControlInvariant == Spec => []ControlInv
<1>1. Init => ControlInv
  BY InitControl
<1>2. ControlInv /\ [Next]_vars => ControlInv'
  BY TypeStep, SlotStep, PoolStep DEF ControlInv
<1>. QED
  BY <1>1, <1>2, PTL DEF Spec

\* Every variable keeps its type: a generated key stays within the column, and
\* a transaction keeps its connection.
THEOREM TypeCorrect == Spec => []TypeOK
<1>1. ControlInv => TypeOK
  BY DEF ControlInv
<1>. QED
  BY <1>1, ControlInvariant, PTL

\* No handler keeps a connection or a transaction behind it.
THEOREM Connections == Spec => []ConnectionsReturned
<1>1. ControlInv => ConnectionsReturned
  BY DEF ControlInv, PoolInv, ConnectionsReturned, InTx, TypeOK
<1>. QED
  BY <1>1, ControlInvariant, PTL

\* Only slots that may run transactions wait at "load" with a connection.
LEMMA HoldersLoading ==
    ASSUME ControlInv, NEW r \in conn, pc[r] = "load"
    PROVE  r \in TxSlots
<1>1. r \in Slots /\ r \in tx
  BY DEF ControlInv, PoolInv, TypeOK
<1>2. req[r].op \in TxModes /\ req[r] \in Workload[r]
  BY <1>1 DEF ControlInv, PoolInv, SlotInv, PathAt
<1>. QED
  BY <1>1, <1>2 DEF TxSlots

\* With more connections than slots that run transactions, a pool without a
\* free connection has a holder that waits for no second one.
THEOREM PoolNotStarved == Spec => []ConnectionComesBack
<1>1. ASSUME ControlInv PROVE ConnectionComesBack
  <2> SUFFICES ASSUME MaxOpen = 0 \/ Cardinality(TxSlots) < MaxOpen, ~FreeConn,
                      \A r \in conn : pc[r] = "load"
               PROVE  FALSE
    BY DEF ConnectionComesBack
  <2>1. conn \subseteq TxSlots
    BY <1>1, HoldersLoading
  <2>2. IsFiniteSet(TxSlots)
    BY CrudAssumption, FS_Subset DEF TxSlots
  <2>3. IsFiniteSet(conn) /\ Cardinality(conn) <= Cardinality(TxSlots)
    BY <2>1, <2>2, FS_Subset
  <2>4. Cardinality(conn) \in Nat /\ Cardinality(TxSlots) \in Nat
    BY <2>2, <2>3, FS_CardinalityType
  <2>5. MaxOpen # 0 /\ ~(Cardinality(conn) < MaxOpen)
    BY DEF FreeConn
  <2>. QED
    BY <2>3, <2>4, <2>5, CrudAssumption
<1>. QED
  BY <1>1, ControlInvariant, PTL

\* A bulk request that is not answered with 200 has changed nothing.
THEOREM FailedBatch == Spec => []FailedBatchChangesNothing
<1>1. ControlInv => FailedBatchChangesNothing
  BY DEF ControlInv, SlotInv, EffectAt, FailedBatchChangesNothing
<1>. QED
  BY <1>1, ControlInvariant, PTL
=============================================================================
