------------------------------- MODULE Listing ------------------------------
(***************************************************************************)
(* Reading a whole table page by page: client.LoadAllInBatch               *)
(* (pkg/client/misc.go) over a List call, while others write.  List is a   *)
(* request that crud.ListItems (pkg/crud/impl.go) answers with two queries *)
(* that belong to no transaction, a COUNT and a SELECT with LIMIT; or, for *)
(* the in-memory client (pkg/client/inmemory.go), a look at a slice.       *)
(*                                                                         *)
(* The table is the sequence of the rows that match the filter, in the     *)
(* order the query asks for.  A row is named by the number of its          *)
(* insertion: one that is deleted and comes back is a new row.             *)
(***************************************************************************)
EXTENDS Naturals, Sequences

CONSTANTS
    Loaders,        \* callers of LoadAllInBatch
    Clients,        \* the clients they are given: "rest", "memory"
    Batch,          \* batchSize
    MaxBorn,        \* bound on the rows ever inserted: with it the writers of an
                    \* instance stop some time, which those of the code need not
    Faults          \* "statement": a query is refused; "rows": the connection
                    \* breaks while the rows of a page are read

ASSUME ListingAssumption ==
    /\ Clients \subseteq {"rest", "memory"}
    /\ Batch \in Nat \ {0}
    /\ MaxBorn \in Nat
    /\ Faults \subseteq {"statement", "rows"}

VARIABLES
    rows,           \* the rows that match, in the order of the query
    born,           \* how many rows have been inserted
    pc,             \* where each loader is
    client,         \* the client each is given
    ordered,        \* the orders given by the caller fix the order of the rows
    results,        \* what it has loaded; `loaded' in the code is its length
    total,          \* the total_count of the answer being made
    counted,        \* history: the rows at the last COUNT
    changed         \* history: what others did to the table during the load

vars == <<rows, born, pc, client, ordered, results, total, counted, changed>>

Labels  == {"idle", "list", "select", "loaded", "failed"}
Changes == {"append", "insert", "remove"}
Running == {"list", "select"}

Least(i, j) == IF i <= j THEN i ELSE j

Init ==
    /\ born \in 0..MaxBorn
    /\ rows = [i \in 1..born |-> i]
    /\ pc = [c \in Loaders |-> "idle"]
    /\ client = [c \in Loaders |-> "rest"]
    /\ ordered = [c \in Loaders |-> FALSE]
    /\ results = [c \in Loaders |-> <<>>]
    /\ total = [c \in Loaders |-> 0]
    /\ counted = [c \in Loaders |-> <<>>]
    /\ changed = [c \in Loaders |-> {}]

-----------------------------------------------------------------------------
(* Other clients.  Every change of what the query returns is a sequence of  *)
(* these: a row that gets another place is removed and inserted again.      *)

Mark(kind) ==
    /\ changed' = [c \in Loaders |->
                      IF pc[c] \in Running THEN changed[c] \cup {kind} ELSE changed[c]]
    /\ UNCHANGED <<pc, client, ordered, results, total, counted>>

\* The new row sorts last: AUTO_INCREMENT, ordered by the key, and no smaller
\* key waiting for its commit.
AppendRow ==
    /\ born < MaxBorn
    /\ born' = born + 1
    /\ rows' = Append(rows, born + 1)
    /\ Mark("append")

InsertRow ==
    /\ born < MaxBorn
    /\ born' = born + 1
    /\ \E i \in 1..Len(rows) :
          rows' = [j \in 1..(Len(rows) + 1) |->
                      IF j < i THEN rows[j] ELSE IF j = i THEN born + 1 ELSE rows[j - 1]]
    /\ Mark("insert")

RemoveRow ==
    /\ \E i \in 1..Len(rows) :
          rows' = [j \in 1..(Len(rows) - 1) |-> IF j < i THEN rows[j] ELSE rows[j + 1]]
    /\ Mark("remove")
    /\ UNCHANGED born

-----------------------------------------------------------------------------
(* The loop of LoadAllInBatch.                                              *)

Begin(c) ==
    /\ pc[c] \notin Running
    /\ pc' = [pc EXCEPT ![c] = "list"]
    /\ \E k \in Clients : client' = [client EXCEPT ![c] = k]
    /\ \E o \in BOOLEAN : ordered' = [ordered EXCEPT ![c] = o]
    /\ results' = [results EXCEPT ![c] = <<>>]
    /\ total' = [total EXCEPT ![c] = 0]
    /\ counted' = [counted EXCEPT ![c] = <<>>]
    /\ changed' = [changed EXCEPT ![c] = {}]
    /\ UNCHANGED <<rows, born>>

Offset_ByBatch(c) == ((Len(results[c]) + Batch - 1) \div Batch) * Batch

\* The offset of the next page is the number of rows received so far.
Offset(c) == Len(results[c])

Complete_Overshot(loaded, count) == loaded > count

Complete(loaded, count) == loaded = count

\* A page arrives with the total count of its answer.
Take(c, page, count) ==
    /\ results' = [results EXCEPT ![c] = @ \o page]
    /\ pc' = [pc EXCEPT ![c] =
                 IF Complete(Len(results[c]) + Len(page), count) THEN "loaded" ELSE "list"]

\* The COUNT query; without rows there is no second query.
CountItems(c) ==
    /\ pc[c] = "list" /\ client[c] = "rest"
    /\ total' = [total EXCEPT ![c] = Len(rows)]
    /\ counted' = [counted EXCEPT ![c] = rows]
    /\ \/ Len(rows) = 0 /\ Take(c, <<>>, 0)
       \/ /\ Len(rows) > 0
          /\ pc' = [pc EXCEPT ![c] = "select"]
          /\ UNCHANGED results
    /\ UNCHANGED <<rows, born, client, ordered, changed>>

\* Without ORDER BY, each query returns the rows in an order of its own.
Orders(c) ==
    IF ordered[c] THEN {rows}
    ELSE {[i \in 1..Len(rows) |-> rows[p[i]]] :
             p \in {q \in [1..Len(rows) -> 1..Len(rows)] :
                       \A i, j \in 1..Len(rows) : q[i] = q[j] => i = j}}

Page(s, offset) == SubSeq(s, offset + 1, Least(offset + Batch, Len(s)))

\* The SELECT query.
FetchRows(c) ==
    /\ pc[c] = "select"
    /\ \E s \in Orders(c) : Take(c, Page(s, Offset(c)), total[c])
    /\ UNCHANGED <<rows, born, client, ordered, total, counted, changed>>

\* fetchRows takes a broken connection for the end of the result.
FetchLess(c) ==
    /\ pc[c] = "select" /\ "rows" \in Faults
    /\ \E s \in Orders(c) :
          LET page == Page(s, Offset(c)) IN
          \E cut \in 0..Len(page) : cut < Len(page) /\ Take(c, SubSeq(page, 1, cut), total[c])
    /\ UNCHANGED <<rows, born, client, ordered, total, counted, changed>>

\* The error ends the loop; what was loaded is dropped.
ListFails(c) ==
    /\ pc[c] \in Running /\ client[c] = "rest" /\ "statement" \in Faults
    /\ pc' = [pc EXCEPT ![c] = "failed"]
    /\ results' = [results EXCEPT ![c] = <<>>]
    /\ UNCHANGED <<rows, born, client, ordered, total, counted, changed>>

Nil == 0    \* what a slice expression finds behind the last item

\* The size is bounded by offset + len, not by what follows the offset; the
\* loop never gets to an offset where that shows, it ends after one page.
ApplyPaging(s, offset) ==
    IF offset > Len(s) THEN <<>>
    ELSE [j \in 1..Least(Batch, offset + Len(s)) |->
             IF offset + j <= Len(s) THEN s[offset + j] ELSE Nil]

\* imCrud.List counts the items of the page.
ListInMemory(c) ==
    /\ pc[c] = "list" /\ client[c] = "memory"
    /\ LET page == ApplyPaging(rows, Offset(c)) IN
          /\ Take(c, page, Len(page))
          /\ total' = [total EXCEPT ![c] = Len(page)]
    /\ counted' = [counted EXCEPT ![c] = rows]
    /\ UNCHANGED <<rows, born, client, ordered, changed>>

Next ==
    \/ AppendRow \/ InsertRow \/ RemoveRow
    \/ \E c \in Loaders :
          \/ Begin(c) \/ CountItems(c) \/ FetchRows(c) \/ FetchLess(c)
          \/ ListFails(c) \/ ListInMemory(c)

Spec == Init /\ [][Next]_vars

\* A loader that can go on does, and not every page it reads is cut short.
Fairness ==
    \A c \in Loaders :
       WF_vars(CountItems(c)) /\ SF_vars(FetchRows(c)) /\ WF_vars(ListInMemory(c))

FairSpec == Spec /\ Fairness

-----------------------------------------------------------------------------
(* Correctness.                                                             *)

TypeOK ==
    /\ born \in 0..MaxBorn
    /\ rows \in Seq(1..MaxBorn)
    /\ pc \in [Loaders -> Labels]
    /\ client \in [Loaders -> {"rest", "memory"}]
    /\ ordered \in [Loaders -> BOOLEAN]
    /\ results \in [Loaders -> Seq(1..MaxBorn)]
    /\ total \in [Loaders -> Nat]
    /\ counted \in [Loaders -> Seq(1..MaxBorn)]
    /\ changed \in [Loaders -> SUBSET Changes]

Distinct(s) == \A i, j \in 1..Len(s) : s[i] = s[j] => i = j

\* The pages of an ordered load are no snapshot, each comes from two queries,
\* and some may have been cut short; but when others only appended meanwhile,
\* LoadAllInBatch returns the table as it was at its last COUNT.  (The
\* in-memory client, when one page holds everything.)
LoadedIsSnapshot ==
    \A c \in Loaders :
       /\ pc[c] = "loaded" /\ ordered[c] /\ changed[c] \subseteq {"append"}
       /\ client[c] = "memory" => Len(counted[c]) <= Batch
       => results[c] = counted[c]

\* An ordered load returns no row twice, also when rows are deleted meanwhile
\* (it may miss some then), as long as none is inserted before others.
NoRowTwice ==
    \A c \in Loaders :
       pc[c] = "loaded" /\ ordered[c] /\ "insert" \notin changed[c] => Distinct(results[c])

\* Those who insert stop some time.  MaxBorn sees to that in every instance; in
\* the code nothing does.
WritersStop == <>[][~(AppendRow \/ InsertRow)]_vars

\* A load during which nobody deletes ends, ordered or not, once others have
\* stopped to insert.  The premise is needed: the loop compares for equality
\* (misc.go:86), so that one row appended between each COUNT and its SELECT
\* keeps it one row ahead of the count for ever.
LoadAllEnds ==
    WritersStop => \A c \in Loaders :
       (pc[c] \in Running ~> pc[c] \notin Running \/ "remove" \in changed[c])

-----------------------------------------------------------------------------
(* What the proofs rest on.                                                 *)

Prefix(s, t) == Len(s) <= Len(t) /\ \A i \in 1..Len(s) : s[i] = t[i]

RowsInv ==
    /\ Distinct(rows)
    /\ \A i \in 1..Len(rows) : rows[i] <= born

\* In append-only company, what is loaded is the head of the table.
SnapshotAt(c) ==
    /\ pc[c] \in Running /\ changed[c] \subseteq {"append"} => Prefix(results[c], rows)
    /\ pc[c] = "select" /\ changed[c] \subseteq {"append"} =>
          Prefix(counted[c], rows) /\ total[c] = Len(counted[c])

\* Without insertions before others, the rows that are still to come have not
\* been loaded: deletions only move rows towards the head of the table.
FreshAt(c) ==
    pc[c] \in Running \cup {"loaded"} /\ "insert" \notin changed[c] =>
       /\ Distinct(results[c])
       /\ \A i \in 1..Len(results[c]) : results[c][i] <= born
       /\ pc[c] \in Running =>
             \A i \in 1..Len(results[c]), j \in 1..Len(rows) :
                j > Len(results[c]) => results[c][i] # rows[j]

LoaderAt(c) ==
    /\ client[c] = "memory" => pc[c] # "select" /\ (pc[c] = "list" => results[c] = <<>>)
    /\ ordered[c] => SnapshotAt(c) /\ FreshAt(c)

LoadInv == \A c \in Loaders : LoaderAt(c)

IInv == TypeOK /\ RowsInv /\ LoadInv /\ LoadedIsSnapshot
=============================================================================
