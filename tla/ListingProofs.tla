---------------------------- MODULE ListingProofs ---------------------------
(***************************************************************************)
(* Proofs about Listing, for any number of loaders, any batch size and any *)
(* number of rows: what an ordered load returns when others write.         *)
(***************************************************************************)
EXTENDS Listing, SequenceTheorems, TLAPS

Rows == 1..MaxBorn

-----------------------------------------------------------------------------
(* Sequences of rows.                                                       *)

\* What lies between two places of a sequence.
LEMMA Between ==
    ASSUME NEW T, NEW s \in Seq(T), NEW m \in Nat, NEW n \in Nat, n <= Len(s)
    PROVE  /\ SubSeq(s, m + 1, n) \in Seq(T)
           /\ Len(SubSeq(s, m + 1, n)) = IF m < n THEN n - m ELSE 0
           /\ \A j \in 1..Len(SubSeq(s, m + 1, n)) : SubSeq(s, m + 1, n)[j] = s[m + j]
OBVIOUS

\* A page is the part of the table behind the offset.
LEMMA PageIs ==
    ASSUME NEW s \in Seq(Rows), NEW offset \in Nat
    PROVE  /\ Page(s, offset) \in Seq(Rows)
           /\ \A j \in 1..Len(Page(s, offset)) :
                 offset + j <= Len(s) /\ Page(s, offset)[j] = s[offset + j]
<1> DEFINE last == Least(offset + Batch, Len(s))
<1>1. last \in Nat /\ last <= Len(s)
  BY ListingAssumption DEF Least
<1>2. Page(s, offset) = SubSeq(s, offset + 1, last)
  BY DEF Page
<1> HIDE DEF last
<1>3. /\ Page(s, offset) \in Seq(Rows)
      /\ Len(Page(s, offset)) = IF offset < last THEN last - offset ELSE 0
      /\ \A j \in 1..Len(Page(s, offset)) : Page(s, offset)[j] = s[offset + j]
  BY <1>1, <1>2, Between
<1>4. \A j \in 1..Len(Page(s, offset)) : offset + j <= Len(s)
  <2>1. CASE offset < last
    <3>1. Len(Page(s, offset)) = last - offset
      BY <1>3, <2>1
    <3> QED BY <1>1, <3>1
  <2>2. CASE ~(offset < last)
    <3>1. Len(Page(s, offset)) = 0
      BY <1>3, <2>2
    <3> QED BY <3>1
  <2> QED BY <2>1, <2>2
<1> QED BY <1>3, <1>4

\* A page that was cut short is the head of one.
LEMMA CutIs ==
    ASSUME NEW s \in Seq(Rows), NEW cut \in 0..Len(s)
    PROVE  /\ SubSeq(s, 1, cut) \in Seq(Rows)
           /\ Len(SubSeq(s, 1, cut)) = cut
           /\ \A j \in 1..cut : SubSeq(s, 1, cut)[j] = s[j]
OBVIOUS

\* A sequence and what is appended to it.
LEMMA Joined ==
    ASSUME NEW s \in Seq(Rows), NEW t \in Seq(Rows)
    PROVE  /\ s \o t \in Seq(Rows)
           /\ Len(s \o t) = Len(s) + Len(t)
           /\ \A i \in 1..Len(s) : (s \o t)[i] = s[i]
           /\ \A i \in 1..Len(t) : (s \o t)[Len(s) + i] = t[i]
OBVIOUS

\* Two heads of one sequence that are as long are the same.
LEMMA SameHead ==
    ASSUME NEW s \in Seq(Rows), NEW t \in Seq(Rows), NEW u \in Seq(Rows),
           Prefix(s, u), Prefix(t, u), Len(s) = Len(t)
    PROVE  s = t
<1>1. \A i \in 1..Len(s) : s[i] = t[i]
  BY DEF Prefix
<1> QED BY <1>1, SeqEqual

-----------------------------------------------------------------------------
(* One loader: what it has loaded, and what it returns.                     *)

\* page is what follows in the table.
Continues(c, page) ==
    \A j \in 1..Len(page) :
       /\ Len(results[c]) + j <= Len(rows)
       /\ page[j] = rows[Len(results[c]) + j]

SnapshotOf(c) ==
    /\ pc[c] = "loaded" /\ ordered[c] /\ changed[c] \subseteq {"append"}
    /\ client[c] = "memory" => Len(counted[c]) <= Batch
    => results[c] = counted[c]

Good(c) == LoaderAt(c) /\ SnapshotOf(c)

\* A loader that nothing happens to, in a table that stays as it is.
LEMMA Elsewhere ==
    ASSUME NEW d \in Loaders, Good(d), UNCHANGED <<rows, born>>,
           pc'[d] = pc[d], client'[d] = client[d], ordered'[d] = ordered[d],
           results'[d] = results[d], total'[d] = total[d], counted'[d] = counted[d],
           changed'[d] = changed[d]
    PROVE  Good(d)'
BY DEF Good, LoaderAt, SnapshotAt, FreshAt, SnapshotOf

\* The page that comes next keeps what is loaded a head of the table ...
LEMMA HeadGrows ==
    ASSUME TypeOK, NEW c \in Loaders, NEW page \in Seq(Rows),
           Prefix(results[c], rows), Continues(c, page)
    PROVE  Prefix(results[c] \o page, rows)
<1> DEFINE old == results[c]
           new == old \o page
<1>1. old \in Seq(Rows) /\ rows \in Seq(Rows)
  BY DEF TypeOK, Rows
<1>2. /\ new \in Seq(Rows)
      /\ Len(new) = Len(old) + Len(page)
      /\ \A i \in 1..Len(old) : new[i] = old[i]
      /\ \A i \in 1..Len(page) : new[Len(old) + i] = page[i]
  BY <1>1, Joined
<1> HIDE DEF new
<1>3. Len(new) <= Len(rows)
  <2>1. CASE Len(page) = 0
    BY <1>1, <1>2, <2>1 DEF Prefix
  <2>2. CASE Len(page) > 0
    <3>1. Len(page) \in 1..Len(page)
      BY <2>2
    <3> QED BY <1>1, <1>2, <3>1 DEF Continues
  <2> QED BY <2>1, <2>2
<1>4. \A i \in 1..Len(new) : new[i] = rows[i]
  <2> TAKE i \in 1..Len(new)
  <2>1. CASE i <= Len(old)
    BY <1>1, <1>2, <2>1 DEF Prefix
  <2>2. CASE i > Len(old)
    <3>1. i - Len(old) \in 1..Len(page) /\ Len(old) + (i - Len(old)) = i
      BY <1>1, <1>2, <2>2
    <3> QED BY <1>2, <3>1 DEF Continues
  <2> QED BY <1>1, <1>2, <2>1, <2>2
<1> QED BY <1>3, <1>4 DEF Prefix, new

\* ... and does not bring a row again.
Fresh(s, t) ==
    /\ Distinct(s)
    /\ \A i \in 1..Len(s) : s[i] <= born
    /\ \A i \in 1..Len(s), j \in 1..Len(t) : j > Len(s) => s[i] # t[j]

\* ... and repeats nothing.
LEMMA FreshGrows ==
    ASSUME TypeOK, RowsInv, NEW c \in Loaders, NEW page \in Seq(Rows),
           Fresh(results[c], rows), Continues(c, page)
    PROVE  Fresh(results[c] \o page, rows)
<1> DEFINE old == results[c]
           new == old \o page
<1>1. old \in Seq(Rows) /\ rows \in Seq(Rows)
  BY DEF TypeOK, Rows
<1>2. /\ new \in Seq(Rows)
      /\ Len(new) = Len(old) + Len(page)
      /\ \A i \in 1..Len(old) : new[i] = old[i]
      /\ \A i \in 1..Len(page) : new[Len(old) + i] = page[i]
  BY <1>1, Joined
<1> HIDE DEF new
<1>3. \A i \in 1..Len(new) : i > Len(old) => i <= Len(rows) /\ new[i] = rows[i]
  <2> TAKE i \in 1..Len(new)
  <2> HAVE i > Len(old)
  <2>1. i - Len(old) \in 1..Len(page) /\ Len(old) + (i - Len(old)) = i
    BY <1>1, <1>2
  <2> QED BY <1>2, <2>1 DEF Continues
<1>4. Distinct(new)
  <2> SUFFICES ASSUME NEW i \in 1..Len(new), NEW j \in 1..Len(new), i < j, new[i] = new[j]
               PROVE  FALSE
    BY <1>2 DEF Distinct
  <2>1. CASE j <= Len(old)
    <3>1. i \in 1..Len(old) /\ j \in 1..Len(old) /\ old[i] = old[j]
      BY <1>1, <1>2, <2>1
    <3>2. Distinct(old)
      BY <1>1 DEF Fresh
    <3> QED BY <3>1, <3>2, <1>1, <1>2 DEF Distinct
  <2>2. CASE i <= Len(old) /\ j > Len(old)
    <3>1. /\ i \in 1..Len(old) /\ j \in 1..Len(rows) /\ j > Len(old)
          /\ old[i] = rows[j]
      BY <1>1, <1>2, <1>3, <2>2
    <3> QED BY <3>1 DEF Fresh
  <2>3. CASE i > Len(old)
    <3>0. Len(new) \in Nat /\ Len(old) \in Nat /\ Len(rows) \in Nat /\ j > Len(old)
      BY <1>1, <1>2, <2>3
    <3>1. i \in 1..Len(rows) /\ j \in 1..Len(rows)
      BY <1>3, <2>3, <3>0
    <3>2. rows[i] = rows[j]
      BY <1>1, <1>2, <1>3, <2>3
    <3> QED BY <3>1, <3>2, <1>1, <1>2 DEF RowsInv, Distinct
  <2> QED BY <1>1, <1>2, <2>1, <2>2, <2>3
<1>5. \A i \in 1..Len(new), j \in 1..Len(rows) : j > Len(new) => new[i] # rows[j]
  <2> TAKE i \in 1..Len(new), j \in 1..Len(rows)
  <2> HAVE j > Len(new)
  <2>1. CASE i <= Len(old)
    BY <1>1, <1>2, <2>1 DEF Fresh
  <2>2. CASE i > Len(old)
    BY <1>1, <1>2, <1>3, <2>2 DEF RowsInv, Distinct
  <2> QED BY <1>1, <1>2, <2>1, <2>2
<1>6. \A i \in 1..Len(new) : new[i] <= born
  <2> TAKE i \in 1..Len(new)
  <2>1. CASE i <= Len(old)
    BY <1>1, <1>2, <2>1 DEF Fresh
  <2>2. CASE i > Len(old)
    BY <1>1, <1>2, <1>3, <2>2 DEF RowsInv
  <2> QED BY <1>1, <1>2, <2>1, <2>2
<1> QED BY <1>4, <1>5, <1>6 DEF Fresh, new

\* A page from the second query of a list request.
LEMMA TakeStep ==
    ASSUME TypeOK, RowsInv, NEW c \in Loaders, Good(c), pc[c] = "select",
           NEW page \in Seq(Rows), ordered[c] => Continues(c, page),
           Take(c, page, total[c]),
           UNCHANGED <<rows, born, client, ordered, total, counted, changed>>
    PROVE  Good(c)'
<1> DEFINE new == results[c] \o page
<1>1. /\ results'[c] = new
      /\ pc'[c] = IF Len(results[c]) + Len(page) = total[c] THEN "loaded" ELSE "list"
  BY DEF Take, Complete, TypeOK
<1>2. /\ results[c] \in Seq(Rows) /\ rows \in Seq(Rows) /\ counted[c] \in Seq(Rows)
      /\ total[c] \in Nat
  BY DEF TypeOK, Rows
<1>3. new \in Seq(Rows) /\ Len(new) = Len(results[c]) + Len(page)
  BY <1>2, Joined
<1>4. client'[c] # "memory"
  BY DEF Good, LoaderAt
<1>5. CASE ~ordered[c]
  BY <1>1, <1>4, <1>5 DEF Good, LoaderAt, SnapshotOf
<1>6. CASE ordered[c]
  <2>1. changed[c] \subseteq {"append"} => Prefix(new, rows)
    BY <1>6, HeadGrows DEF Good, LoaderAt, SnapshotAt, Running
  <2>2. "insert" \notin changed[c] => Fresh(new, rows)
    <3>1. "insert" \notin changed[c] => Fresh(results[c], rows)
      BY <1>6 DEF Good, LoaderAt, FreshAt, Fresh, Running
    <3> QED BY <3>1, <1>6, FreshGrows
  <2>3. changed[c] \subseteq {"append"} /\ pc'[c] = "loaded" => new = counted[c]
    <3>1. changed[c] \subseteq {"append"} => Prefix(counted[c], rows) /\ total[c] = Len(counted[c])
      BY <1>6 DEF Good, LoaderAt, SnapshotAt
    <3>2. pc'[c] = "loaded" => Len(new) = total[c]
      BY <1>1, <1>3
    <3> QED BY <2>1, <3>1, <3>2, <1>2, <1>3, SameHead
  <2> HIDE DEF new
  <2>4. SnapshotAt(c)'
    BY <1>1, <2>1 DEF SnapshotAt
  <2>5. FreshAt(c)'
    BY <1>1, <2>2 DEF FreshAt, Fresh
  <2>6. SnapshotOf(c)'
    BY <1>1, <2>3 DEF SnapshotOf
  <2> QED BY <2>4, <2>5, <2>6, <1>4 DEF Good, LoaderAt
<1> QED BY <1>5, <1>6

\* A load begins with nothing.
LEMMA BeginStep ==
    ASSUME TypeOK, RowsInv, NEW c \in Loaders, Begin(c)
    PROVE  Good(c)'
<1>1. /\ pc'[c] = "list" /\ results'[c] = <<>> /\ rows' = rows /\ born' = born
  BY DEF Begin, TypeOK
<1>2. rows \in Seq(Rows) /\ Len(<<>>) = 0
  BY DEF TypeOK, Rows
<1>3. Prefix(<<>>, rows)
  BY <1>2 DEF Prefix
<1>4. Fresh(<<>>, rows)
  BY <1>2 DEF Fresh, Distinct
<1> QED BY <1>1, <1>3, <1>4 DEF Good, LoaderAt, SnapshotAt, FreshAt, SnapshotOf, Fresh, Running

\* The COUNT query loads nothing; an empty table ends the load.
LEMMA CountStep ==
    ASSUME TypeOK, RowsInv, NEW c \in Loaders, Good(c), CountItems(c)
    PROVE  Good(c)'
<1>1. /\ pc[c] = "list" /\ client[c] = "rest" /\ client' = client /\ ordered' = ordered
      /\ changed' = changed /\ rows' = rows /\ born' = born
      /\ total'[c] = Len(rows) /\ counted'[c] = rows
      /\ client' = client
  BY DEF CountItems, TypeOK
<1>2. results[c] \in Seq(Rows) /\ rows \in Seq(Rows)
  BY DEF TypeOK, Rows
<1>3. CASE Len(rows) = 0 /\ Take(c, <<>>, 0)
  <2>1. results[c] \o <<>> = results[c] /\ <<>> \in Seq(Rows) /\ Len(<<>>) = 0
    BY <1>2
  <2>2. /\ results'[c] = results[c]
        /\ pc'[c] = IF Len(results[c]) = 0 THEN "loaded" ELSE "list"
    <3>1. results'[c] = results[c] \o <<>>
      BY <1>3 DEF Take, TypeOK
    <3>2. pc'[c] = IF Complete(Len(results[c]) + Len(<<>>), 0) THEN "loaded" ELSE "list"
      BY <1>3 DEF Take, TypeOK
    <3>3. Len(results[c]) \in Nat
      BY <1>2
    <3> QED BY <2>1, <3>1, <3>2, <3>3 DEF Complete
  <2>3. Len(results[c]) = 0 => results[c] = rows
    BY <1>2, <1>3
  <2> QED BY <1>1, <2>2, <2>3 DEF Good, LoaderAt, SnapshotAt, FreshAt, SnapshotOf, Running
<1>4. CASE /\ pc' = [pc EXCEPT ![c] = "select"]
           /\ UNCHANGED results
  <2>1. pc'[c] = "select" /\ results'[c] = results[c]
    BY <1>4 DEF TypeOK
  <2>2. Prefix(rows, rows)
    BY <1>2 DEF Prefix
  <2> QED BY <1>1, <2>1, <2>2 DEF Good, LoaderAt, SnapshotAt, FreshAt, SnapshotOf, Running
<1> QED BY <1>3, <1>4 DEF CountItems

\* What a SELECT query may return is made of the rows, in their order when it is given.
LEMMA OrdersAre ==
    ASSUME TypeOK, NEW c \in Loaders, NEW s \in Orders(c)
    PROVE  s \in Seq(Rows) /\ (ordered[c] => s = rows)
<1>1. rows \in Seq(Rows)
  BY DEF TypeOK, Rows
<1>2. CASE ~ordered[c]
  <2>1. PICK p \in [1..Len(rows) -> 1..Len(rows)] : s = [i \in 1..Len(rows) |-> rows[p[i]]]
    BY <1>2 DEF Orders
  <2>2. Len(rows) \in Nat /\ \A i \in 1..Len(rows) : rows[p[i]] \in Rows
    BY <1>1
  <2> QED BY <1>2, <2>1, <2>2
<1> QED BY <1>1, <1>2 DEF Orders

\* The SELECT query brings the page that comes next ...
LEMMA FetchStep ==
    ASSUME TypeOK, RowsInv, NEW c \in Loaders, Good(c), FetchRows(c)
    PROVE  Good(c)'
<1>1. PICK s \in Orders(c) : Take(c, Page(s, Offset(c)), total[c])
  BY DEF FetchRows
<1>2. rows \in Seq(Rows) /\ results[c] \in Seq(Rows) /\ Offset(c) \in Nat
  BY DEF TypeOK, Rows, Offset
<1>3. s \in Seq(Rows) /\ (ordered[c] => s = rows)
  BY OrdersAre
<1>4. Page(s, Offset(c)) \in Seq(Rows)
  BY <1>2, <1>3, PageIs
<1>5. ordered[c] => Continues(c, Page(s, Offset(c)))
  BY <1>2, <1>3, PageIs DEF Continues, Offset
<1> QED BY <1>1, <1>4, <1>5, TakeStep DEF FetchRows

\* ... or, when the connection breaks, its first rows.
LEMMA FetchLessStep ==
    ASSUME TypeOK, RowsInv, NEW c \in Loaders, Good(c), FetchLess(c)
    PROVE  Good(c)'
<1>0. PICK s \in Orders(c) :
         \E cut \in 0..Len(Page(s, Offset(c))) :
            Take(c, SubSeq(Page(s, Offset(c)), 1, cut), total[c])
  BY DEF FetchLess
<1>1. PICK cut \in 0..Len(Page(s, Offset(c))) :
         Take(c, SubSeq(Page(s, Offset(c)), 1, cut), total[c])
  BY <1>0
<1> DEFINE page == Page(s, Offset(c))
           less == SubSeq(page, 1, cut)
<1>2. rows \in Seq(Rows) /\ results[c] \in Seq(Rows) /\ Offset(c) \in Nat
  BY DEF TypeOK, Rows, Offset
<1>3. s \in Seq(Rows) /\ (ordered[c] => s = rows)
  BY OrdersAre
<1>4. page \in Seq(Rows)
  BY <1>2, <1>3, PageIs
<1>5. ordered[c] => Continues(c, page)
  BY <1>2, <1>3, PageIs DEF Continues, Offset
<1>6. cut \in 0..Len(page)
  BY <1>1
<1>7. Take(c, less, total[c])
  BY <1>1
<1> HIDE DEF page
<1>8. less \in Seq(Rows) /\ Len(less) = cut /\ \A j \in 1..cut : less[j] = page[j]
  BY <1>4, <1>6, CutIs
<1> HIDE DEF less
<1>9. ordered[c] => Continues(c, less)
  <2> SUFFICES ASSUME ordered[c], NEW j \in 1..Len(less)
               PROVE  /\ Len(results[c]) + j <= Len(rows)
                      /\ less[j] = rows[Len(results[c]) + j]
    BY DEF Continues
  <2>1. j \in 1..Len(page) /\ j \in 1..cut
    BY <1>4, <1>6, <1>8
  <2> QED BY <1>5, <1>8, <2>1 DEF Continues
<1> QED BY <1>7, <1>8, <1>9, TakeStep DEF FetchLess

\* A refused query drops what was loaded.
LEMMA FailStep ==
    ASSUME TypeOK, RowsInv, NEW c \in Loaders, Good(c), ListFails(c)
    PROVE  Good(c)'
BY DEF ListFails, TypeOK, Good, LoaderAt, SnapshotAt, FreshAt, SnapshotOf, Running

\* The first page of the in-memory client.
LEMMA MemoryPage ==
    ASSUME NEW s \in Seq(Rows)
    PROVE  /\ ApplyPaging(s, 0) \in Seq(Rows)
           /\ Len(ApplyPaging(s, 0)) = Least(Batch, Len(s))
           /\ \A j \in 1..Len(ApplyPaging(s, 0)) : ApplyPaging(s, 0)[j] = s[j]
<1> DEFINE size == Least(Batch, Len(s))
<1>1. size \in Nat /\ size <= Len(s) /\ Len(s) \in Nat
  BY ListingAssumption DEF Least
<1>2. ApplyPaging(s, 0) = [j \in 1..size |-> s[j]]
  <2>1. ApplyPaging(s, 0) = [j \in 1..Least(Batch, 0 + Len(s)) |->
                                IF 0 + j <= Len(s) THEN s[0 + j] ELSE Nil]
    BY <1>1 DEF ApplyPaging
  <2>2. 0 + Len(s) = Len(s)
    BY <1>1
  <2>3. \A j \in 1..size : 0 + j = j /\ j <= Len(s)
    BY <1>1
  <2> QED BY <2>1, <2>2, <2>3
<1> HIDE DEF size
<1>3. \A j \in 1..size : s[j] \in Rows
  BY <1>1
<1> QED BY <1>1, <1>2, <1>3 DEF size

\* The in-memory client ends after its first page.
LEMMA MemoryStep ==
    ASSUME TypeOK, RowsInv, NEW c \in Loaders, Good(c), ListInMemory(c)
    PROVE  Good(c)'
<1> DEFINE page == ApplyPaging(rows, Offset(c))
<1>1. /\ pc[c] = "list" /\ client[c] = "memory" /\ client' = client /\ ordered' = ordered
      /\ changed' = changed /\ rows' = rows /\ born' = born /\ counted'[c] = rows
      /\ Take(c, page, Len(page))
  BY DEF ListInMemory, TypeOK
<1>2. results[c] = <<>> /\ Offset(c) = 0
  BY <1>1 DEF Good, LoaderAt, Offset
<1>3. rows \in Seq(Rows) /\ Len(rows) \in Nat /\ Batch \in Nat
  BY ListingAssumption DEF TypeOK, Rows
<1>4. /\ page \in Seq(Rows)
      /\ Len(page) = Least(Batch, Len(rows))
      /\ \A j \in 1..Len(page) : page[j] = rows[j]
  BY <1>2, <1>3, MemoryPage
<1> HIDE DEF page
<1>5. results'[c] = page /\ pc'[c] = "loaded"
  BY <1>1, <1>2, <1>4 DEF Take, Complete, TypeOK
<1>6. Distinct(page) /\ \A i \in 1..Len(page) : page[i] <= born
  BY <1>3, <1>4 DEF RowsInv, Distinct, Least
<1>7. Len(rows) <= Batch => page = rows
  <2>1. Len(rows) <= Batch => Len(page) = Len(rows)
    BY <1>3, <1>4 DEF Least
  <2> QED BY <2>1, <1>3, <1>4, SeqEqual
<1> QED BY <1>1, <1>5, <1>6, <1>7 DEF Good, LoaderAt, SnapshotAt, FreshAt, SnapshotOf, Running

-----------------------------------------------------------------------------
(* The other clients' steps.                                                *)

\* Rows are numbers.
LEMMA RowNumbers ==
    ASSUME NEW s \in Seq(Rows), NEW i \in 1..Len(s)
    PROVE  s[i] \in Nat
<1>1. s[i] \in Rows
  OBVIOUS
<1> QED BY <1>1, ListingAssumption DEF Rows

\* Rows that were there stay below the number of the next one.
LEMMA Later ==
    ASSUME TypeOK, NEW s \in Seq(Rows), \A i \in 1..Len(s) : s[i] <= born
    PROVE  \A i \in 1..Len(s) : s[i] <= born + 1
<1>1. born \in Nat
  BY ListingAssumption DEF TypeOK
<1> TAKE i \in 1..Len(s)
<1>2. s[i] \in Nat /\ s[i] <= born
  BY RowNumbers
<1> QED BY <1>1, <1>2

\* An appended row is new and behind what is loaded.
LEMMA AppendStep ==
    ASSUME TypeOK, RowsInv, NEW c \in Loaders, Good(c), AppendRow
    PROVE  Good(c)'
<1>1. /\ rows' = Append(rows, born + 1)
      /\ changed'[c] = IF pc[c] \in Running THEN changed[c] \cup {"append"} ELSE changed[c]
      /\ UNCHANGED <<pc, client, ordered, results, total, counted>>
      /\ born' = born + 1
  BY DEF AppendRow, Mark
<1>2. rows \in Seq(Rows) /\ results[c] \in Seq(Rows) /\ counted[c] \in Seq(Rows)
      /\ born \in Nat
  BY DEF TypeOK, Rows
<1>3. /\ Len(rows') = Len(rows) + 1
      /\ \A i \in 1..Len(rows) : rows'[i] = rows[i]
      /\ rows'[Len(rows) + 1] = born + 1
  BY <1>1, <1>2
<1>4. \A s \in Seq(Rows) : Prefix(s, rows) => Prefix(s, rows')
  BY <1>2, <1>3 DEF Prefix
<1>5. SnapshotAt(c) => SnapshotAt(c)'
  BY <1>1, <1>2, <1>4 DEF SnapshotAt
<1>6. FreshAt(c) => FreshAt(c)'
  <2>1. pc[c] \in Running /\ FreshAt(c) /\ "insert" \notin changed[c] =>
           \A i \in 1..Len(results[c]), j \in 1..Len(rows') :
              j > Len(results[c]) => results[c][i] # rows'[j]
    <3> SUFFICES ASSUME pc[c] \in Running, FreshAt(c), "insert" \notin changed[c],
                        NEW i \in 1..Len(results[c]), NEW j \in 1..Len(rows'),
                        j > Len(results[c])
                 PROVE  results[c][i] # rows'[j]
      OBVIOUS
    <3>1. results[c][i] \in Nat /\ results[c][i] <= born
      BY <1>2, RowNumbers DEF FreshAt
    <3>2. CASE j = Len(rows) + 1
      <4>1. rows'[j] = born + 1
        BY <1>3, <3>2
      <4> QED BY <1>2, <3>1, <4>1
    <3>3. CASE j \in 1..Len(rows)
      BY <1>3, <3>3 DEF FreshAt
    <3> QED BY <1>2, <1>3, <3>2, <3>3
  <2> QED BY <1>1, <1>2, <2>1, Later DEF FreshAt
<1> QED BY <1>1, <1>5, <1>6 DEF Good, LoaderAt, SnapshotOf, Running

\* An inserted row takes away every claim on the load.
LEMMA InsertStep ==
    ASSUME TypeOK, RowsInv, NEW c \in Loaders, Good(c), InsertRow
    PROVE  Good(c)'
<1>1. /\ changed'[c] = IF pc[c] \in Running THEN changed[c] \cup {"insert"} ELSE changed[c]
      /\ UNCHANGED <<pc, client, ordered, results, total, counted>>
      /\ born' = born + 1
  BY DEF InsertRow, Mark
<1>2. results[c] \in Seq(Rows)
  BY DEF TypeOK, Rows
<1>3. CASE pc[c] \in Running
  <2>1. "insert" \in changed'[c]
    BY <1>1, <1>3
  <2> QED BY <1>1, <1>3, <2>1 DEF Good, LoaderAt, SnapshotAt, FreshAt, SnapshotOf, Running
<1>4. CASE pc[c] \notin Running
  BY <1>1, <1>2, <1>4, Later DEF Good, LoaderAt, SnapshotAt, FreshAt, SnapshotOf, Running
<1> QED BY <1>3, <1>4

\* A deletion moves the rows behind it one place towards the head.
LEMMA RemoveStep ==
    ASSUME TypeOK, RowsInv, NEW c \in Loaders, Good(c), RemoveRow
    PROVE  Good(c)'
<1>1. PICK k \in 1..Len(rows) :
         rows' = [j \in 1..(Len(rows) - 1) |-> IF j < k THEN rows[j] ELSE rows[j + 1]]
  BY DEF RemoveRow
<1>2. /\ changed'[c] = IF pc[c] \in Running THEN changed[c] \cup {"remove"} ELSE changed[c]
      /\ UNCHANGED <<pc, client, ordered, results, total, counted>>
      /\ born' = born
  BY DEF RemoveRow, Mark
<1>3. rows \in Seq(Rows) /\ results[c] \in Seq(Rows)
  BY DEF TypeOK, Rows
<1>4. /\ Len(rows') = Len(rows) - 1
      /\ \A j \in 1..(Len(rows) - 1) : rows'[j] = IF j < k THEN rows[j] ELSE rows[j + 1]
  BY <1>1, <1>3
<1>5. SnapshotAt(c)'
  BY <1>2 DEF SnapshotAt, Running
<1>6. FreshAt(c) => FreshAt(c)'
  <2>1. pc[c] \in Running /\ FreshAt(c) /\ "insert" \notin changed[c] =>
           \A i \in 1..Len(results[c]), j \in 1..Len(rows') :
              j > Len(results[c]) => results[c][i] # rows'[j]
    <3> SUFFICES ASSUME pc[c] \in Running, FreshAt(c), "insert" \notin changed[c],
                        NEW i \in 1..Len(results[c]), NEW j \in 1..Len(rows'),
                        j > Len(results[c])
                 PROVE  results[c][i] # rows'[j]
      OBVIOUS
    <3>1. j \in 1..(Len(rows) - 1) /\ j \in 1..Len(rows) /\ j + 1 \in 1..Len(rows)
      BY <1>3, <1>4
    <3>2. j + 1 > Len(results[c])
      BY <1>3, <3>1
    <3>3. results[c][i] # rows[j] /\ results[c][i] # rows[j + 1]
      BY <3>1, <3>2 DEF FreshAt
    <3> QED BY <1>4, <3>1, <3>3
  <2> QED BY <1>2, <2>1 DEF FreshAt
<1> QED BY <1>2, <1>5, <1>6 DEF Good, LoaderAt, SnapshotOf, Running

-----------------------------------------------------------------------------
(* Types and rows.                                                          *)

\* Types of what Take changes.
LEMMA TakeType ==
    ASSUME TypeOK, NEW c \in Loaders, NEW page \in Seq(Rows), NEW count \in Nat,
           Take(c, page, count)
    PROVE  /\ pc' \in [Loaders -> Labels]
           /\ results' \in [Loaders -> Seq(1..MaxBorn)]
<1>1. results[c] \o page \in Seq(1..MaxBorn)
  BY Joined DEF TypeOK, Rows
<1> QED BY <1>1 DEF Take, TypeOK, Labels

\* A step of a loader leaves the table alone.
LEMMA LoaderTypes ==
    ASSUME TypeOK, RowsInv, NEW c \in Loaders, Good(c),
           \/ Begin(c) \/ CountItems(c) \/ FetchRows(c) \/ FetchLess(c)
           \/ ListFails(c) \/ ListInMemory(c)
    PROVE  TypeOK' /\ RowsInv'
<1>0. rows \in Seq(Rows) /\ results[c] \in Seq(Rows) /\ Offset(c) \in Nat /\ Len(rows) \in Nat
      /\ total[c] \in Nat /\ <<>> \in Seq(1..MaxBorn) /\ <<>> \in Seq(Rows)
  BY DEF TypeOK, Rows, Offset
<1>1. rows' = rows /\ born' = born
  BY DEF Begin, CountItems, FetchRows, FetchLess, ListFails, ListInMemory
<1>2. RowsInv'
  BY <1>1 DEF RowsInv, Distinct
<1>3. born' \in 0..MaxBorn /\ rows' \in Seq(1..MaxBorn)
  BY <1>1 DEF TypeOK
<1>4. client' \in [Loaders -> {"rest", "memory"}]
  <2>1. CASE Begin(c)
    <3>1. PICK k \in Clients : client' = [client EXCEPT ![c] = k]
      BY <2>1 DEF Begin
    <3>2. k \in {"rest", "memory"}
      BY ListingAssumption
    <3> QED BY <3>1, <3>2 DEF TypeOK
  <2>2. CASE client' = client
    BY <2>2 DEF TypeOK
  <2> QED BY <2>1, <2>2 DEF CountItems, FetchRows, FetchLess, ListFails, ListInMemory
<1>5. ordered' \in [Loaders -> BOOLEAN]
  <2>1. CASE Begin(c)
    <3>1. PICK o \in BOOLEAN : ordered' = [ordered EXCEPT ![c] = o]
      BY <2>1 DEF Begin
    <3> QED BY <3>1 DEF TypeOK
  <2>2. CASE ordered' = ordered
    BY <2>2 DEF TypeOK
  <2> QED BY <2>1, <2>2 DEF CountItems, FetchRows, FetchLess, ListFails, ListInMemory
<1>6. counted' \in [Loaders -> Seq(1..MaxBorn)]
  BY <1>0
     DEF TypeOK, Rows, Begin, CountItems, FetchRows, FetchLess, ListFails, ListInMemory
<1>7. changed' \in [Loaders -> SUBSET Changes]
  <2>1. CASE Begin(c)
    BY <2>1 DEF TypeOK, Begin
  <2>2. CASE changed' = changed
    BY <2>2 DEF TypeOK
  <2> QED BY <2>1, <2>2 DEF CountItems, FetchRows, FetchLess, ListFails, ListInMemory
<1>8. /\ pc' \in [Loaders -> Labels]
      /\ results' \in [Loaders -> Seq(1..MaxBorn)]
      /\ total' \in [Loaders -> Nat]
  <2>1. CASE Begin(c)
    BY <1>0, <2>1 DEF TypeOK, Begin, Labels
  <2>2. CASE CountItems(c)
    <3>1. total' \in [Loaders -> Nat]
      BY <1>0, <2>2 DEF TypeOK, CountItems
    <3>2. CASE Take(c, <<>>, 0)
      BY <1>0, <3>1, <3>2, TakeType
    <3>3. CASE pc' = [pc EXCEPT ![c] = "select"] /\ UNCHANGED results
      BY <3>1, <3>3 DEF TypeOK, Labels
    <3> QED BY <2>2, <3>2, <3>3 DEF CountItems
  <2>3. CASE FetchRows(c)
    <3>1. PICK s \in Orders(c) : Take(c, Page(s, Offset(c)), total[c])
      BY <2>3 DEF FetchRows
    <3>2. s \in Seq(Rows)
      BY OrdersAre
    <3>3. Page(s, Offset(c)) \in Seq(Rows)
      BY <1>0, <3>2, PageIs
    <3>4. total' = total
      BY <2>3 DEF FetchRows
    <3> QED BY <1>0, <3>1, <3>3, <3>4, TakeType DEF TypeOK
  <2>4. CASE FetchLess(c)
    <3>1. PICK s \in Orders(c) :
             \E cut \in 0..Len(Page(s, Offset(c))) :
                Take(c, SubSeq(Page(s, Offset(c)), 1, cut), total[c])
      BY <2>4 DEF FetchLess
    <3>2. s \in Seq(Rows)
      BY OrdersAre
    <3>3. Page(s, Offset(c)) \in Seq(Rows)
      BY <1>0, <3>2, PageIs
    <3>4. PICK cut \in 0..Len(Page(s, Offset(c))) :
             Take(c, SubSeq(Page(s, Offset(c)), 1, cut), total[c])
      BY <3>1
    <3>5. SubSeq(Page(s, Offset(c)), 1, cut) \in Seq(Rows)
      BY <3>3, CutIs
    <3>6. total' = total
      BY <2>4 DEF FetchLess
    <3> QED BY <1>0, <3>4, <3>5, <3>6, TakeType DEF TypeOK
  <2>5. CASE ListFails(c)
    BY <1>0, <2>5 DEF TypeOK, ListFails, Labels
  <2>6. CASE ListInMemory(c)
    <3>1. Offset(c) = 0
      BY <2>6 DEF ListInMemory, Good, LoaderAt, Offset
    <3>2. ApplyPaging(rows, Offset(c)) \in Seq(Rows)
      BY <1>0, <3>1, MemoryPage
    <3>3. Len(ApplyPaging(rows, Offset(c))) \in Nat
      BY <3>2
    <3>4. total' \in [Loaders -> Nat]
      BY <2>6, <3>3 DEF TypeOK, ListInMemory
    <3>5. Take(c, ApplyPaging(rows, Offset(c)), Len(ApplyPaging(rows, Offset(c))))
      BY <2>6 DEF ListInMemory
    <3> QED BY <3>2, <3>3, <3>4, <3>5, TakeType
  <2> QED BY <2>1, <2>2, <2>3, <2>4, <2>5, <2>6
<1> QED BY <1>2, <1>3, <1>4, <1>5, <1>6, <1>7, <1>8 DEF TypeOK

\* Types, and the table's rows, after the other clients' steps.
LEMMA WriterTypes ==
    ASSUME TypeOK, RowsInv, AppendRow \/ InsertRow \/ RemoveRow
    PROVE  TypeOK' /\ RowsInv'
<1> DEFINE L == Len(rows)
<1>1. /\ rows \in Seq(Rows) /\ L \in Nat /\ born \in Nat
      /\ \A i \in 1..L : rows[i] \in Rows /\ rows[i] <= born
      /\ \A i, j \in 1..L : rows[i] = rows[j] => i = j
  <2>1. rows \in Seq(Rows) /\ born \in Nat
    BY ListingAssumption DEF TypeOK, Rows
  <2> QED BY <2>1 DEF RowsInv, Distinct
<1>2. \A kind \in Changes : Mark(kind) =>
         /\ changed' \in [Loaders -> SUBSET Changes]
         /\ UNCHANGED <<pc, client, ordered, results, total, counted>>
  BY DEF Mark, TypeOK
<1>3. CASE AppendRow
  <2>1. /\ born' = born + 1 /\ born' \in Rows /\ born' \in 0..MaxBorn
        /\ rows' = Append(rows, born + 1) /\ Mark("append")
    BY <1>1, <1>3, ListingAssumption DEF AppendRow, Rows
  <2>2. /\ rows' \in Seq(Rows) /\ Len(rows') = L + 1
        /\ \A i \in 1..L : rows'[i] = rows[i]
        /\ rows'[L + 1] = born + 1
    BY <1>1, <2>1
  <2>3. RowsInv'
    BY <1>1, <2>1, <2>2 DEF RowsInv, Distinct, Rows
  <2> QED BY <1>2, <2>1, <2>2, <2>3 DEF TypeOK, Rows, Changes
<1>4. CASE InsertRow
  <2>1. /\ born' = born + 1 /\ born' \in Rows /\ born' \in 0..MaxBorn /\ Mark("insert")
    BY <1>1, <1>4, ListingAssumption DEF InsertRow, Rows
  <2>2. PICK k \in 1..L :
           rows' = [j \in 1..(L + 1) |->
                       IF j < k THEN rows[j] ELSE IF j = k THEN born + 1 ELSE rows[j - 1]]
    BY <1>4 DEF InsertRow
  <2>3. \A j \in 1..(L + 1) :
           (IF j < k THEN rows[j] ELSE IF j = k THEN born + 1 ELSE rows[j - 1]) \in Rows
    BY <1>1, <2>1
  <2>4. /\ rows' \in Seq(Rows) /\ Len(rows') = L + 1
        /\ \A j \in 1..(L + 1) :
              rows'[j] = IF j < k THEN rows[j] ELSE IF j = k THEN born + 1 ELSE rows[j - 1]
    BY <1>1, <2>2, <2>3
  <2> HIDE DEF L
  \* The place a row had before.
  <2> DEFINE From(j) == IF j < k THEN j ELSE j - 1
  <2>5. \A j \in 1..(L + 1) : j # k => From(j) \in 1..L /\ rows'[j] = rows[From(j)]
    BY <1>1, <2>4
  <2>6. rows'[k] = born + 1 /\ k \in 1..(L + 1)
    BY <1>1, <2>4
  <2>7. \A i, j \in 1..(L + 1) : i # k /\ j # k /\ From(i) = From(j) => i = j
    BY <1>1
  <2> HIDE DEF From
  <2>8. \A j \in 1..(L + 1) : j # k => rows'[j] \in Nat /\ rows'[j] <= born
    BY <1>1, <2>5 DEF Rows
  <2>9. \A j \in 1..(L + 1) : rows'[j] <= born + 1
    BY <1>1, <2>6, <2>8
  <2>10. \A i, j \in 1..(L + 1) : rows'[i] = rows'[j] => i = j
    <3> SUFFICES ASSUME NEW i \in 1..(L + 1), NEW j \in 1..(L + 1), rows'[i] = rows'[j]
                 PROVE  i = j
      OBVIOUS
    <3>1. CASE i # k /\ j # k
      BY <1>1, <2>5, <2>7, <3>1
    <3>2. CASE i = k /\ j # k
      BY <1>1, <2>6, <2>8, <3>2
    <3>3. CASE i # k /\ j = k
      BY <1>1, <2>6, <2>8, <3>3
    <3> QED BY <3>1, <3>2, <3>3
  <2>11. RowsInv'
    BY <2>1, <2>4, <2>9, <2>10 DEF RowsInv, Distinct
  <2> QED BY <1>2, <2>1, <2>4, <2>11 DEF TypeOK, Rows, Changes
<1>5. CASE RemoveRow
  <2>1. PICK k \in 1..L :
           rows' = [j \in 1..(L - 1) |-> IF j < k THEN rows[j] ELSE rows[j + 1]]
    BY <1>5 DEF RemoveRow
  <2>2. born' = born /\ Mark("remove")
    BY <1>5 DEF RemoveRow
  <2>3. \A j \in 1..(L - 1) : (IF j < k THEN rows[j] ELSE rows[j + 1]) \in Rows
    BY <1>1
  <2>4. L - 1 \in Nat
    BY <1>1, <2>1
  <2>5. /\ rows' \in Seq(Rows) /\ Len(rows') = L - 1
        /\ \A j \in 1..(L - 1) : rows'[j] = IF j < k THEN rows[j] ELSE rows[j + 1]
    BY <1>1, <2>1, <2>3, <2>4
  <2>6. \A j \in 1..(L - 1) : rows'[j] <= born
    BY <1>1, <2>5
  <2>7. Distinct(rows')
    BY <1>1, <2>5 DEF Distinct
  <2> QED BY <1>2, <2>2, <2>5, <2>6, <2>7 DEF TypeOK, Rows, Changes, RowsInv
<1> QED BY <1>3, <1>4, <1>5

-----------------------------------------------------------------------------
(* The invariant.                                                           *)

LoadStep(c) ==
    \/ Begin(c) \/ CountItems(c) \/ FetchRows(c) \/ FetchLess(c)
    \/ ListFails(c) \/ ListInMemory(c)

\* A step of one loader touches no other.
LEMMA LoadStepPreserves ==
    ASSUME TypeOK, RowsInv, \A d \in Loaders : Good(d), NEW c \in Loaders, LoadStep(c)
    PROVE  \A d \in Loaders : Good(d)'
<1> TAKE d \in Loaders
<1>1. CASE d = c
  BY <1>1, BeginStep, CountStep, FetchStep, FetchLessStep, FailStep, MemoryStep DEF LoadStep
<1>2. CASE d # c
  <2>1. UNCHANGED <<rows, born>>
    BY DEF LoadStep, Begin, CountItems, FetchRows, FetchLess, ListFails, ListInMemory
  <2>2. /\ pc'[d] = pc[d] /\ results'[d] = results[d]
    BY <1>2 DEF TypeOK, LoadStep, Begin, CountItems, FetchRows, FetchLess, ListFails,
                ListInMemory, Take
  <2>3. /\ client'[d] = client[d] /\ total'[d] = total[d] /\ counted'[d] = counted[d]
        /\ changed'[d] = changed[d]
    BY <1>2 DEF TypeOK, LoadStep, Begin, CountItems, FetchRows, FetchLess, ListFails,
                ListInMemory
  <2>4. ordered'[d] = ordered[d]
    <3>1. CASE Begin(c)
      <4>1. PICK o \in BOOLEAN : ordered' = [ordered EXCEPT ![c] = o]
        BY <3>1 DEF Begin
      <4> QED BY <4>1, <1>2 DEF TypeOK
    <3>2. CASE ordered' = ordered
      BY <3>2
    <3> QED BY <3>1, <3>2 DEF LoadStep, CountItems, FetchRows, FetchLess, ListFails, ListInMemory
  <2>5. Good(d)
    OBVIOUS
  <2> QED BY <2>1, <2>2, <2>3, <2>4, <2>5, Elsewhere
<1> QED BY <1>1, <1>2

\* The invariant, loader by loader.
LEMMA GoodIs == LoadInv /\ LoadedIsSnapshot <=> \A c \in Loaders : Good(c)
BY DEF LoadInv, LoadedIsSnapshot, Good, SnapshotOf

\* Nothing is loaded at first.
LEMMA InitInvariant == Init => IInv
<1> SUFFICES ASSUME Init PROVE IInv
  OBVIOUS
<1>1. born \in 0..MaxBorn /\ born \in Nat /\ MaxBorn \in Nat
  BY ListingAssumption DEF Init
<1>2. rows = [i \in 1..born |-> i]
  BY DEF Init
<1>3. /\ rows \in Seq(Rows) /\ Len(rows) = born
      /\ \A i \in 1..born : rows[i] = i
  <2>1. \A i \in 1..born : i \in Rows
    BY <1>1 DEF Rows
  <2> QED BY <1>1, <1>2, <2>1
<1>4. RowsInv
  BY <1>1, <1>3 DEF RowsInv, Distinct
<1>5. <<>> \in Seq(1..MaxBorn)
  OBVIOUS
<1>6. TypeOK
  BY <1>1, <1>3, <1>5 DEF Init, TypeOK, Labels, Changes, Rows
<1>7. \A c \in Loaders : Good(c)
  BY DEF Init, Good, LoaderAt, SnapshotAt, FreshAt, SnapshotOf, Running
<1> QED BY <1>4, <1>6, <1>7, GoodIs DEF IInv

\* Every step keeps the invariant.
LEMMA NextInvariant == IInv /\ [Next]_vars => IInv'
<1> SUFFICES ASSUME IInv, [Next]_vars PROVE IInv'
  OBVIOUS
<1>1. TypeOK /\ RowsInv /\ \A c \in Loaders : Good(c)
  BY GoodIs DEF IInv
<1>0. TypeOK' /\ RowsInv' /\ (\A c \in Loaders : Good(c)') => IInv'
  BY DEF IInv, LoadInv, LoadedIsSnapshot, Good, SnapshotOf
<1>2. CASE AppendRow \/ InsertRow \/ RemoveRow
  <2>1. TypeOK' /\ RowsInv'
    BY <1>1, <1>2, WriterTypes
  <2>2. \A c \in Loaders : Good(c)'
    BY <1>1, <1>2, AppendStep, InsertStep, RemoveStep
  <2> QED BY <1>0, <2>1, <2>2
<1>3. CASE \E c \in Loaders : LoadStep(c)
  <2>1. PICK c \in Loaders : LoadStep(c)
    BY <1>3
  <2>2. TypeOK' /\ RowsInv'
    BY <1>1, <2>1, LoaderTypes DEF LoadStep
  <2>3. \A d \in Loaders : Good(d)'
    BY <1>1, <2>1, LoadStepPreserves
  <2> QED BY <1>0, <2>2, <2>3
<1>4. CASE UNCHANGED vars
  <2>1. \A d \in Loaders : Good(d)'
    BY <1>1, <1>4, Elsewhere DEF vars
  <2>2. TypeOK' /\ RowsInv'
    BY <1>1, <1>4 DEF vars, TypeOK, RowsInv, Distinct
  <2> QED BY <1>0, <2>1, <2>2
<1> QED BY <1>2, <1>3, <1>4 DEF Next, LoadStep

\* The types, the table's distinct rows, and what holds of every load on its way.
THEOREM Invariant == Spec => []IInv
<1> QED BY InitInvariant, NextInvariant, PTL DEF Spec

\* An ordered load in append-only company returns the table as it was at its
\* last COUNT, although no transaction holds its queries together.
THEOREM Snapshot == Spec => []LoadedIsSnapshot
<1>1. IInv => LoadedIsSnapshot
  BY DEF IInv
<1> QED BY <1>1, Invariant, PTL

\* An ordered load returns no row twice unless rows are inserted before others.
THEOREM NoDuplicates == Spec => []NoRowTwice
<1>1. IInv => NoRowTwice
  BY DEF IInv, LoadInv, LoaderAt, FreshAt, NoRowTwice
<1> QED BY <1>1, Invariant, PTL
=============================================================================
