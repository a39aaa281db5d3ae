----------------------------- MODULE QueryCodec -----------------------------
(***************************************************************************)
(* The way of a list query (pkg/query, pkg/client, pkg/server/ops.go): the *)
(* caller builds it; ToParams or EncodeRequest puts it into the parameters *)
(* of a request; FromParams reads them; crud.ListItems renders it to SQL.  *)
(* Or the in-memory client evaluates it.  Requests also come from clients  *)
(* that write the parameters themselves.                                   *)
(*                                                                         *)
(* An int of the code has 2 * Half values, half of them negative; the      *)
(* offset of a page is a uint64 and has as many.                           *)
(***************************************************************************)
EXTENDS Filters

CONSTANTS
    Expressions,    \* the filters callers build, <<>> for none
    OrderLists,     \* the lists of orders they build
    Offsets,        \* the offsets they ask for
    Sizes,          \* the page sizes they ask for
    Foreign,        \* parameters written by other clients
    Half            \* half of the values of an integer

IsInt(i) == -Half <= i /\ i < Half

Orders == Seq([name : DOMAIN Columns, asc : BOOLEAN])

\* What a request may say of a direction: nothing ("none"), what the encoders
\* write, another spelling of it, or anything else ("up").
Directions == {"asc", "ASC", "desc", "none", "up"}

\* The text of a filter that does not start with a JSON object.
NotJSON == <<[key |-> "broken"]>>

\* The parameters of a request; what is left out is <<>>.
ListItemsParams ==
    [offset : Seq(Int), size : Seq(Int),
     orders : Seq([name : DOMAIN Columns, dir : Directions]),
     filter : {NotJSON} \cup Seq(Objects(Nat))]

ASSUME QueryCodecAssumption ==
    /\ Half \in Nat \ {0}
    /\ \A e \in Expressions : IsExpression(e)
    /\ OrderLists \subseteq Orders
    /\ Offsets \subseteq Int /\ Sizes \subseteq Int
    /\ \A i \in Offsets \cup Sizes : IsInt(i)
    /\ Foreign \subseteq ListItemsParams
    /\ \A p \in Foreign : p.filter = NotJSON \/ IsJSON(p.filter)

VARIABLES
    stage,          \* where the query is
    route,          \* how it gets to the rows
    query,          \* as it was built
    params,         \* the parameters of the request
    received,       \* the query the handler has read from them
    answer          \* what the caller gets

vars == <<stage, route, query, params, received, answer>>

Routes == {"ToParams", "EncodeRequest", "memory", "foreign"}

\* The conversions uint64(i) and int(u).
Unsigned(i) == IF i >= 0 THEN i ELSE i + 2 * Half
Signed(u)   == IF u < Half THEN u ELSE u - 2 * Half
MaxInt      == Half - 1

DefaultPageSize == IF 20 <= MaxInt THEN 20 ELSE MaxInt
DefaultQuery    == [filter |-> <<>>, orders |-> <<>>, offset |-> 0, size |-> DefaultPageSize]
NoParams        == [offset |-> <<>>, size |-> <<>>, orders |-> <<>>, filter |-> <<>>]

\* An answer: the status, or why there is none, and the list it describes.
Dropped  == 0       \* the service has closed the connection
Panicked == -1      \* the caller's goroutine
NoList           == [matching |-> {}, orders |-> <<>>, offset |-> 0, size |-> 0]
Failed(status)   == [status |-> status, list |-> NoList]
Succeeded(rows, q) ==
    [status |-> 200,
     list |-> [matching |-> rows, orders |-> q.orders, offset |-> q.offset, size |-> q.size]]

Init ==
    /\ stage = "idle" /\ route = "ToParams"
    /\ query = DefaultQuery /\ received = DefaultQuery
    /\ params = NoParams
    /\ answer = Failed(Dropped)

\* The caller has used the answer; nothing of the query is kept anywhere.
Forget ==
    /\ stage = "answered"
    /\ stage' = "idle" /\ route' = "ToParams"
    /\ query' = DefaultQuery /\ received' = DefaultQuery
    /\ params' = NoParams
    /\ answer' = Failed(Dropped)

-----------------------------------------------------------------------------
(* The caller.                                                              *)

\* NewBuilder ... Build: the offset becomes unsigned.
Build ==
    /\ stage = "idle"
    /\ \E f \in Expressions, o \in OrderLists, i \in Offsets, s \in Sizes :
          query' = [filter |-> f, orders |-> o, offset |-> Unsigned(i), size |-> s]
    /\ route' \in {"ToParams", "EncodeRequest", "memory"}
    /\ stage' = "built"
    /\ UNCHANGED <<params, received, answer>>

Direction(asc) == IF asc THEN "asc" ELSE "desc"

MarshalOrders(orders) ==
    [k \in DOMAIN orders |-> [name |-> orders[k].name, dir |-> Direction(orders[k].asc)]]

\* The parameters, with the offset as it is written.
ParamsOf(q, offset) ==
    [offset |-> <<offset>>, size |-> <<q.size>>,
     orders |-> MarshalOrders(q.orders),
     filter |-> MarshalJSON(q.filter)]

ToParams(q) == ParamsOf(q, Signed(q.offset))

EncodeRequest(q) == ParamsOf(q, q.offset)

\* generic.List prints the query for its log before it encodes it.
Send ==
    /\ stage = "built" /\ route = "ToParams"
    /\ IF ~Printable(query.filter)
       THEN /\ answer' = Failed(Panicked) /\ stage' = "answered"
            /\ UNCHANGED params
       ELSE /\ params' = ToParams(query) /\ stage' = "sent"
            /\ UNCHANGED answer
    /\ UNCHANGED <<route, query, received>>

SendRequest ==
    /\ stage = "built" /\ route = "EncodeRequest"
    /\ params' = EncodeRequest(query) /\ stage' = "sent"
    /\ UNCHANGED <<route, query, received, answer>>

SendForeign ==
    /\ stage = "idle"
    /\ route' = "foreign"
    /\ params' \in Foreign
    /\ stage' = "sent"
    /\ UNCHANGED <<query, received, answer>>

\* imCrud.List; what its paging does is in Listing, and it orders nothing.
ListInMemory ==
    /\ stage = "built" /\ route = "memory"
    /\ LET verdict == [row \in Rows |-> FilterExpressionAsPredicate(query.filter, row)]
       IN answer' = IF \E row \in Rows : verdict[row] = "panic"
                    THEN Failed(Panicked)
                    ELSE Succeeded({row \in Rows : verdict[row] = "match"}, query)
    /\ stage' = "answered"
    /\ UNCHANGED <<route, query, params, received>>

-----------------------------------------------------------------------------
(* The service.                                                             *)

Ascending_UpperCase(dir) == dir = "ASC"

\* Anything but ASC, in whatever case, is descending; a missing direction too.
Ascending(dir) == dir \in {"asc", "ASC"}

UnmarshalOrders(orders) ==
    [k \in DOMAIN orders |-> [name |-> orders[k].name, asc |-> Ascending(orders[k].dir)]]

\* The offset and the size have a default each.
PageOf(p) ==
    [offset |-> IF p.offset = <<>> THEN 0 ELSE p.offset[1],
     size   |-> IF p.size = <<>> THEN DefaultPageSize ELSE p.size[1]]

\* The filter of the JSON, none if nothing of it is known.  Text that is no JSON
\* is an error, and FromParams gives that instead of a query: see Readable.
DecodeFilter(j) ==
    LET e == [i \in DOMAIN j |-> decodeExprFromMap(j[i], j)] IN
    IF j = <<>> \/ e[Len(j)] = Nil THEN <<>> ELSE e

FromParams(p) ==
    [filter |-> DecodeFilter(p.filter), orders |-> UnmarshalOrders(p.orders),
     offset |-> Unsigned(PageOf(p).offset), size |-> PageOf(p).size]

\* The generated wrapper reads the page as ints, and DecodeFilter the filter as a
\* JSON object; ListItems answers the error of either with 400.
Readable(p) ==
    /\ IsInt(PageOf(p).offset) /\ IsInt(PageOf(p).size)
    /\ p.filter # NotJSON

\* The decoder panics, and that closes the connection.
DecoderPanics(p) == \E i \in DOMAIN p.filter : decodeExprFromMap(p.filter[i], p.filter) = Crash

Receive ==
    /\ stage = "sent"
    /\ \/ /\ ~Readable(params)
          /\ answer' = Failed(400) /\ stage' = "answered" /\ UNCHANGED received
       \/ /\ Readable(params) /\ DecoderPanics(params)
          /\ answer' = Failed(Dropped) /\ stage' = "answered" /\ UNCHANGED received
       \/ /\ Readable(params) /\ ~DecoderPanics(params)
          /\ received' = FromParams(params) /\ stage' = "received" /\ UNCHANGED answer
    /\ UNCHANGED <<route, query, params>>

\* crud.ListItems on a table with these rows: the COUNT fails on a malformed
\* filter, the SELECT, which needs a row to be counted, on a negative size.
Answered(q) ==
    IF Malformed(q.filter) THEN Failed(500)
    ELSE LET rows == Selected(q.filter, Rows) IN
         IF rows # {} /\ q.size < 0 THEN Failed(500) ELSE Succeeded(rows, q)

ListItems ==
    /\ stage = "received"
    /\ answer' = Answered(received)
    /\ stage' = "answered"
    /\ UNCHANGED <<route, query, params, received>>

Next == \/ Build \/ Send \/ SendRequest \/ SendForeign \/ ListInMemory
        \/ Receive \/ ListItems \/ Forget

Spec == Init /\ [][Next]_vars

-----------------------------------------------------------------------------
(* Correctness.                                                             *)

Remote == {"ToParams", "EncodeRequest"}

\* A literal that SQL compares as before when it comes back as a text.
Literal(col, v) ==
    v.kind = "text" \/ (v.kind \in {"number", "long"} /\ Columns[col] = "number")

\* No operand is nil, no list is a nil slice, and no literal of a simple
\* expression changes its meaning with its kind.
Portable(e) ==
    \A i \in DOMAIN e :
       /\ e[i].type # "nil"
       /\ e[i].type = "simple" => Literal(e[i].name, e[i].val)
       /\ e[i].type \in {"in", "junction"} => ~e[i].nilSlice

\* Through either encoder a query lists what its own SQL would: the same rows
\* in the same order, and the same page, or it fails as that would.
RemoteMeansLocal ==
    /\ stage = "answered" /\ route \in Remote
    /\ Portable(query.filter)
    /\ query.offset <= MaxInt
    => answer = Answered(query)

\* A filter is never lost on the way: the caller may get an error or a panic,
\* but no list that was not filtered.  (EncodeRequest loses a NOT of nothing.)
FilterKept ==
    /\ stage = "answered" /\ route \in Remote /\ answer.status = 200
    /\ query.filter # <<>>
    /\ route = "EncodeRequest" => Printable(query.filter)
    => received.filter # <<>>

\* A literal that Go and MySQL compare alike with the values of the column: a
\* number of the items' own type, or a text the collation tells from all others.
Exact(col, v) ==
    /\ v.kind = Columns[col]
    /\ v.kind = "text" => \A k \in 1..Texts : Place[k] = Place[v.val] => k = v.val

ExactLiterals(e) ==
    \A i \in DOMAIN e :
       /\ e[i].type = "simple" => Exact(e[i].name, e[i].val)
       /\ e[i].type = "in" => \A k \in DOMAIN e[i].vals : Exact(e[i].name, e[i].vals[k])

Filled == {row \in Rows : \A col \in DOMAIN Columns : row[col] # Null}

\* The in-memory client stands in for the service in tests.  It compares with
\* cmp.Equal, which tells 'Bob' from 'bob' and an int64 from an int, and MySQL
\* does not; but with literals on which the two agree it finds, of the rows
\* without NULLs, those the service would find, or it panics.
InMemoryAgrees ==
    /\ stage = "answered" /\ route = "memory" /\ answer.status = 200
    /\ ExactLiterals(query.filter) /\ ~Malformed(query.filter)
    => answer.list.matching \cap Filled = Selected(query.filter, Filled)

\* What the service has read, sent on by a client of its own, is read the same:
\* whatever the first decoding makes of a query, a second one adds nothing.
ReencodingIsStable ==
    /\ stage = "received"
    /\ Printable(received.filter)
    => FromParams(ToParams(received)) = received
=============================================================================
