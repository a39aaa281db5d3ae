------------------------------ MODULE Requests ------------------------------
(***************************************************************************)
(* The vocabulary of the item API of db2rest-bridge: what a request on one *)
(* entity (table) of one backend carries, what a row is, and which         *)
(* permission each operation needs (pkg/api/gen.go, pkg/crud/types.go).    *)
(*                                                                         *)
(* Data are abstracted to what the properties tell apart: keys are small   *)
(* numbers (0 stands for "the id column is absent"), and the other columns *)
(* of a row are one value.  A row is `typed' when its value was converted  *)
(* with the column metadata before it was stored (crud.remapBody).         *)
(***************************************************************************)
EXTENDS Naturals, Sequences

CONSTANTS
    MaxId,      \* the largest key of the table
    Vals,       \* values of the columns other than the key
    NoRow,      \* "there is no row with this key"
    Allowed     \* the permissions the backend's configuration grants

Permissions == {"create", "read", "update", "delete"}

ASSUME MaxIdAssumption   == MaxId \in Nat \ {0}
ASSUME AllowedAssumption == Allowed \subseteq Permissions

Ids    == 1..MaxId
Absent == 0

Rows   == [val : Vals, typed : BOOLEAN]
Tables == [Ids -> Rows \cup {NoRow}]

ASSUME NoRowAssumption == NoRow \notin Rows

\* A JSON object: its id (Absent when it has none), whether the id is a JSON
\* string or a number, and the value of its other columns.
Bodies == [id : Ids \cup {Absent}, str : BOOLEAN, val : Vals]

ItemReads == {"GetItemById", "ExistsItemById"}
ItemOps   == ItemReads \cup {"CreateItem", "UpdateItemById", "DeleteItemById"}
TxModes   == {"INSERT", "REPLACE", "UPDATE"}    \* bulk modes run in a transaction
BulkModes == TxModes \cup {"DELETE"}

\* "unknown" is a bulk request whose mode is none of BulkModes; "invalid" is
\* any request for a backend that does not exist or with an undecodable body.
Operations == ItemOps \cup BulkModes \cup {"unknown", "invalid"}
Writes     == (ItemOps \ ItemReads) \cup BulkModes

RequestSet == [op : Operations, id : Ids \cup {Absent}, objs : Seq(Bodies)]

\* The permission an operation is checked against first.
Needs(op) ==
    CASE op \in ItemReads \cup {"UpdateItemById"}     -> "read"
      [] op \in {"CreateItem", "INSERT", "REPLACE"}   -> "create"
      [] op = "UPDATE"                                -> "update"
      [] op \in {"DeleteItemById", "DELETE"}          -> "delete"

\* The permission without which an operation may not change the table.
ChangeNeeds(op) == IF op = "UpdateItemById" THEN "update" ELSE Needs(op)
=============================================================================
