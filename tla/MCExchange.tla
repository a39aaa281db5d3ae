----------------------------- MODULE MCExchange -----------------------------
(***************************************************************************)
(* Small instances of Exchange: who calls what.                            *)
(***************************************************************************)
EXTENDS Exchange

CONSTANTS a, b, x, y, z     \* callers and values

TwoSlots  == {a, b}
OneSlot   == {a}
FirstSlot == {a}
MCVals    == {x, y, z}

MCOneRow == {[i \in Ids |-> IF i = 1 THEN [val |-> x, typed |-> TRUE] ELSE NoRow]}

Body(i, v)        == [id |-> i, str |-> TRUE, val |-> v]
Make(op, i, objs) == [op |-> op, id |-> i, objs |-> objs]

\* Caller a's ids are read-only: it creates and deletes, and makes one call it
\* lacks the permission for.
CreatorCalls ==
    {Make("CreateItem", Absent, <<Body(1, y)>>),
     Make("UpdateItemById", 1, <<Body(1, y)>>),
     Make("DELETE", Absent, <<Body(1, x)>>)}

\* Caller b's are not: it reads and replaces what a may be at, names an id and a
\* query there are none of, and updates without the permission.
WriterCalls ==
    {Make("GetItemById", i, <<>>) : i \in {Absent, 1}}
    \cup {Make("QueryNamed", i, <<>>) : i \in {Absent, 1}}
    \cup {Make("REPLACE", Absent, <<Body(1, y)>>),
          Make("UPDATE", Absent, <<Body(1, y)>>)}

MCCalls  == [r \in Slots |-> IF r = a THEN CreatorCalls ELSE WriterCalls]
Replaces == [r \in Slots |-> {Make("REPLACE", Absent, <<Body(1, y)>>)}]
Creates  == [r \in Slots |-> {Make("CreateItem", Absent, <<Body(Absent, y)>>)}]

\* The requests the calls come to.
MCWorkload ==
    [r \in Slots |->
        {RequestFor(r, c) : c \in {d \in Calls[r] : d.op # "QueryNamed" /\ Routed(d)}}]
=============================================================================
