------------------------------- MODULE MCCrud -------------------------------
(***************************************************************************)
(* Small instances of Crud: the constants the configurations choose from.  *)
(***************************************************************************)
EXTENDS CrudInvariant

CONSTANTS a, b, c, x, y     \* slots and values

TwoSlots   == {a, b}
ThreeSlots == {a, b, c}
TwoVals    == {x, y}
OneVal     == {x}

MCRow(v) == [val |-> v, typed |-> TRUE]

\* An empty table, one row, and rows with a gap between them.
MCTables ==
    {[i \in Ids |-> IF i \in present THEN MCRow(x) ELSE NoRow] :
        present \in {{}, {1}, {1, MaxId}}}
MCOneRow == {[i \in Ids |-> IF i = 1 THEN MCRow(x) ELSE NoRow]}

Body(i, s, v)     == [id |-> i, str |-> s, val |-> v]
Call(op, i, objs) == [op |-> op, id |-> i, objs |-> objs]

Reads   == {Call(op, 1, <<>>) : op \in ItemReads}
Creates == {Call("CreateItem", Absent, <<Body(i, FALSE, y)>>) : i \in {Absent, 2}}
Updates == {Call("UpdateItemById", 1, <<Body(i, FALSE, y)>>) : i \in {Absent, 1, 2}}
Deletes == {Call("DeleteItemById", 1, <<>>)}
PutOne  == {Call("UpdateItemById", 1, <<Body(Absent, FALSE, y)>>)}
Singles == Reads \cup Creates \cup Updates \cup Deletes

DeleteBatches ==
    {Call("DELETE", Absent, objs) :
        objs \in {<<>>, <<Body(1, TRUE, x), Body(2, TRUE, x)>>,
                  <<Body(1, TRUE, x), Body(Absent, TRUE, x)>>}}
\* Two new rows, one row twice, an existing row before a new one.
Batches(op) ==
    {Call(op, Absent, objs) :
        objs \in {<<Body(2, TRUE, y), Body(Absent, TRUE, x)>>,
                  <<Body(2, TRUE, x), Body(2, TRUE, y)>>,
                  <<Body(1, TRUE, y), Body(2, TRUE, y)>>}}
\* Batches an UPDATE cannot take: an id that is a number, and one that is absent.
OddUpdates ==
    {Call("UPDATE", Absent, objs) :
        objs \in {<<Body(1, TRUE, y), Body(2, FALSE, y)>>, <<Body(Absent, TRUE, y)>>}}
Others == {Call("unknown", Absent, <<>>), Call("invalid", Absent, <<>>)}

Bulk == UNION {Batches(op) : op \in TxModes} \cup DeleteBatches

SingleWork == [r \in Slots |-> Singles]
BulkWork   == [r \in Slots |-> IF r = a THEN Bulk ELSE UNION {Batches(op) : op \in TxModes}]

\* A bulk request, one that panics, or one that is refused, beside single items.
MixedWork ==
    [r \in Slots |->
        IF r = a THEN UNION {Batches(op) : op \in TxModes} \cup OddUpdates \cup Others
        ELSE PutOne \cup Deletes \cup Creates]

\* One slot that runs transactions and two that do not; nobody may delete.
PoolWork ==
    [r \in Slots |->
        CASE r = a -> {Call("GetItemById", 1, <<>>), Call("DeleteItemById", 1, <<>>)}
          [] r = b -> {Call("UpdateItemById", 1, <<Body(Absent, TRUE, x)>>)}
          [] OTHER -> {Call("UPDATE", Absent, <<Body(1, TRUE, x), Body(1, FALSE, x)>>),
                       Call("REPLACE", Absent, <<Body(1, TRUE, x)>>)}]

OddBulk     == [r \in Slots |-> OddUpdates]
ReplaceWork == [r \in Slots |-> Batches("REPLACE")]
OneSlot     == {a}
=============================================================================
