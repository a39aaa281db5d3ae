---------------------------- MODULE CrudInvariant ---------------------------
(***************************************************************************)
(* The inductive invariant of Crud: what the proofs of its properties rest *)
(* on, checked by TLC before it is proved.                                 *)
(***************************************************************************)
EXTENDS Crud

InTx    == {"next", "metadata", "load", "exec", "commit"}
AtObj   == {"metadata", "load", "exec"}     \* labels with a current object
Before  == {"idle", "gate"}

\* Which operations reach which label, and with which request and object.
PathAt(r) ==
    LET op == req[r].op IN
    /\ pc[r] # "idle" => req[r] \in Workload[r]
    /\ pc[r] = "fetch" => op \in ItemReads
    /\ pc[r] = "exists" => op = "UpdateItemById"
    /\ pc[r] \in {"metadata", "load"} => op \in {"CreateItem", "UpdateItemById"} \cup TxModes
    /\ pc[r] = "connect" => op \in {"CreateItem", "UpdateItemById", "DeleteItemById", "DELETE"}
    /\ pc[r] = "exec" => op \in Writes
    /\ pc[r] \in {"begin", "next", "commit"} => op \in TxModes
    /\ pc[r] = "refetch" => op \in {"CreateItem", "UpdateItemById"}
    /\ op \notin TxModes \/ pc[r] \in {"gate", "begin"} => n[r] = 1
    /\ pc[r] \in AtObj /\ op \in TxModes => n[r] \in 1..Len(req[r].objs) /\ Usable(r)
    /\ pc[r] = "next" => n[r] \in 1..(Len(req[r].objs) + 1)
    /\ pc[r] = "commit" => n[r] = Len(req[r].objs) + 1

\* A handler is past its gates only with the permission it needs.
PermittedAt(r) ==
    /\ pc[r] \notin Before \cup {"answered"} => Needs(req[r].op) \in Allowed
    /\ pc[r] \notin Before \cup {"answered", "exists"} => ChangeNeeds(req[r].op) \in Allowed

\* A request has its effect with its last statement, and a write is answered
\* with success only after it; a batch that fails has none.
EffectAt(r) ==
    /\ pc[r] \notin {"refetch", "answered"} => effect[r] = "none"
    /\ pc[r] = "refetch" => effect[r] # "none"
    /\ pc[r] = "answered" =>
          /\ req[r].op \in Writes /\ resp[r].status \in Success => effect[r] # "none"
          /\ req[r].op \notin Writes => effect[r] = "none"
          /\ req[r].op \in TxModes /\ resp[r].status # 200 /\ "reply" \notin Faults
                => effect[r] = "none"

\* What is true of each slot whatever the others do.
SlotInv == \A r \in Slots : PathAt(r) /\ PermittedAt(r) /\ EffectAt(r)

\* Who may hold a connection, a transaction and row locks.
PoolInv ==
    /\ \A r \in conn : r \in tx \/ (pc[r] = "exec" /\ req[r].op \notin TxModes)
    /\ \A r \in tx :
          /\ req[r].op \in TxModes
          /\ pc[r] \in InTx \/ (pc[r] = "answered" /\ r \in gone)
    /\ \A r \in Slots : r \notin tx => Locked(r) = {}

\* Two transactions never hold the lock of one row.
LockInv == \A r, s \in Slots : r # s => Locked(r) \cap Locked(s) = {}

\* The rows a batch holds locked are those its first n - 1 objects were written
\* to: under keys f that were free (INSERT), or whatever they held (REPLACE).
PlacedSoFar(r, f) ==
    LET objs == req[r].objs IN
    /\ \A k \in 1..(n[r] - 1) : objs[k].id \in {Absent, f[k]} /\ f[k] \in Locked(r)
    /\ \A i \in Locked(r) : \E k \in 1..(n[r] - 1) : f[k] = i
    /\ \A k \in 1..(n[r] - 1) :
          (\A l \in 1..(n[r] - 1) : l > k => f[l] # f[k]) => pend[r][f[k]].val = objs[k].val

InsertedSoFar(r, f) ==
    /\ \A k, l \in 1..(n[r] - 1) : f[k] = f[l] => k = l
    /\ \A k \in 1..(n[r] - 1) : table[f[k]] = NoRow

UpdatedSoFar(r) ==
    \A i \in Locked(r) :
       /\ table[i] # NoRow
       /\ \E k \in 1..(n[r] - 1) :
             /\ req[r].objs[k].id = i /\ pend[r][i].val = req[r].objs[k].val
             /\ \A l \in 1..(n[r] - 1) : l > k => req[r].objs[l].id # i

BatchAt(r) ==
    /\ req[r].op = "UPDATE" => UpdatedSoFar(r)
    /\ req[r].op \in {"INSERT", "REPLACE"} =>
          \E f \in [1..(n[r] - 1) -> Ids] :
             PlacedSoFar(r, f) /\ (req[r].op = "INSERT" => InsertedSoFar(r, f))

BatchInv == \A r \in tx : BatchAt(r)

\* What ReadYourWrite rests on: the body was converted, and until someone else
\* writes the row, the committed row is the one written.
Plain(r) ==
    /\ req[r].op = "CreateItem" => AutoInc
    /\ req[r].op = "UpdateItemById" => Target(r) = req[r].id
    /\ Faults \cap {"rows", "metadata"} = {}

ReadBackAt(r) ==
    /\ /\ pc[r] \in {"connect", "exec"}
       /\ req[r].op \in {"CreateItem", "UpdateItemById"} /\ "metadata" \notin Faults
       => remap[r]
    /\ pc[r] = "refetch" /\ effect[r] = "applied" /\ Plain(r)
       => key[r] \in Ids /\ table[key[r]] = [val |-> Obj(r).val, typed |-> TRUE]
    /\ /\ pc[r] = "answered" /\ resp[r].status \in {201, 202}
       /\ effect[r] = "applied" /\ Plain(r)
       => resp[r].item = Obj(r).val

ReadBackInv == \A r \in Slots : ReadBackAt(r)

ControlInv == TypeOK /\ SlotInv /\ PoolInv

IInv == ControlInv /\ LockInv /\ BatchInv /\ ReadBackInv
=============================================================================
