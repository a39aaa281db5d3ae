------------------------------- MODULE Filters ------------------------------
(***************************************************************************)
(* The filter language of pkg/query: filter expressions, their JSON, what  *)
(* the SQL they are rendered to means to MySQL, and the predicates of the  *)
(* in-memory client (pkg/client/filter.go).                                *)
(*                                                                         *)
(* Go and MySQL disagree on when values are equal.  To Go two texts are    *)
(* equal if they are the same, to MySQL if they have the same place in the *)
(* collation; to MySQL a number is a number, to Go it has a type.          *)
(*                                                                         *)
(* A filter expression is the sequence of its nodes.  Where the code has a *)
(* pointer to an operand, a node has its place, and a node comes after its *)
(* operands, so that the last one stands for the whole.  There is no       *)
(* recursive operator: what looks at a node with its operands alone is a   *)
(* function of the node, and the two evaluations of an expression are      *)
(* functions of the places.                                                *)
(***************************************************************************)
EXTENDS Integers, Sequences

CONSTANTS
    Texts,          \* the texts are 1..Texts
    Place,          \* the place of each in the collation of the columns
    TextNumber,     \* the number MySQL reads from each text
    NumberText,     \* the texts fmt prints for numbers,
    BoolText,       \* for FALSE and TRUE,
    NilText,        \* and for nil
    MaxNumber,      \* the numbers are 0..MaxNumber
    Columns         \* the kind of each column: "number" or "text"

ASSUME FiltersAssumption ==
    /\ Texts \in Nat /\ MaxNumber \in Nat
    /\ Place \in [1..Texts -> Nat]
    /\ TextNumber \in [1..Texts -> Nat]
    /\ NumberText \in [0..MaxNumber -> 1..Texts]
    /\ \A k \in 0..MaxNumber : TextNumber[NumberText[k]] = k
    /\ BoolText \in [0..1 -> 1..Texts]
    /\ NilText \in 1..Texts
    /\ Columns \in [DOMAIN Columns -> {"number", "text"}]

\* Values of columns and literals; a column without a value is NULL.  A Number
\* has the Go type of the items, a Long another one (int64 beside int).
Number(k) == [kind |-> "number", val |-> k]
Long(k)   == [kind |-> "long", val |-> k]
Text(k)   == [kind |-> "text", val |-> k]
Bool(k)   == [kind |-> "bool", val |-> k]       \* 0 or 1
Null      == [kind |-> "nil", val |-> 0]

\* JSON has one type of number; here that is the Number.
JsonValue == {Number(k) : k \in 0..MaxNumber} \cup {Text(k) : k \in 1..Texts}
             \cup {Bool(k) : k \in 0..1} \cup {Null}

Value == JsonValue \cup {Long(k) : k \in 0..MaxNumber}

Rows == {row \in [DOMAIN Columns -> Value] :
            \A col \in DOMAIN Columns : row[col].kind \in {Columns[col], "nil"}}

-----------------------------------------------------------------------------
(* Filter expressions.  No expression is <<>>, a list may be a nil slice.   *)

Nil   == [type |-> "nil"]       \* a nil pointer where an operand should be
Crash == [type |-> "crash"]     \* a type assertion panicked

SimpleExpr(col, op, v) == [type |-> "simple", name |-> col, op |-> op, val |-> v]
In(col, vals)          == [type |-> "in", name |-> col, vals |-> vals, nilSlice |-> FALSE]
InNil(col)             == [type |-> "in", name |-> col, vals |-> <<>>, nilSlice |-> TRUE]
Junction(op, subs)     == [type |-> "junction", op |-> op, subs |-> subs, nilSlice |-> FALSE]
JunctionNil(op)        == [type |-> "junction", op |-> op, subs |-> <<>>, nilSlice |-> TRUE]
UnaryExpr(col, op)     == [type |-> "un", name |-> col, op |-> op]
BetweenExpr(col, l, r) == [type |-> "between", name |-> col, left |-> l, right |-> r]
Not(sub)               == [type |-> "not", sub |-> sub]

Comparisons == {"=", "!=", "<>", "<", ">"}
NullTests   == {"IS NULL", "IS NOT NULL"}
Connectives == {"AND", "OR"}

Nodes(places) ==
    {Nil}
    \cup [type : {"simple"}, name : DOMAIN Columns, op : Comparisons, val : Value]
    \cup [type : {"in"}, name : DOMAIN Columns, vals : Seq(Value), nilSlice : BOOLEAN]
    \cup [type : {"un"}, name : DOMAIN Columns, op : NullTests]
    \cup [type : {"between"}, name : DOMAIN Columns, left : Value, right : Value]
    \cup [type : {"not"}, sub : places]
    \cup [type : {"junction"}, op : Connectives, subs : Seq(places), nilSlice : BOOLEAN]

Operands(node) ==
    CASE node.type = "not"      -> {node.sub}
      [] node.type = "junction" -> {node.subs[k] : k \in DOMAIN node.subs}
      [] OTHER                  -> {}

\* Operands come first.
Acyclic(e) ==
    /\ e \in Seq(Nodes(Nat))
    /\ \A i \in DOMAIN e : e[i] \in Nodes(1..(i - 1))

\* Every node but the last is the operand of a later one.
IsExpression(e) ==
    /\ Acyclic(e)
    /\ \A i \in DOMAIN e : i = Len(e) \/ \E k \in DOMAIN e : i \in Operands(e[k])

-----------------------------------------------------------------------------
(* Rendering.                                                               *)

\* String dereferences the expressions below NOT and in junctions.
Printable(e) == \A i \in DOMAIN e : e[i] # Nil

\* The text of the expression is no SQL: fmt puts the panic of String into it,
\* a list is empty, or a nil is printed as "<nil>".
NoSQL(node) ==
    \/ node.type = "nil"
    \/ node.type = "simple" /\ node.val = Null
    \/ node.type = "in" /\ (node.vals = <<>> \/ \E k \in DOMAIN node.vals : node.vals[k] = Null)
    \/ node.type = "between" /\ Null \in {node.left, node.right}
    \/ node.type = "junction" /\ node.subs = <<>>

Malformed(e) == \E i \in DOMAIN e : NoSQL(e[i])

-----------------------------------------------------------------------------
(* What MySQL makes of it.  Truth is "true", "false" or "unknown".          *)

AsNumber(v) == IF v.kind = "text" THEN TextNumber[v.val] ELSE v.val

Holds(op, l, r) ==
    CASE op = "="           -> l = r
      [] op \in {"!=", "<>"} -> l # r
      [] op = "<"           -> l < r
      [] op = ">"           -> l > r

Truthful(b) == IF b THEN "true" ELSE "false"

\* Two texts compare by their places in the collation, anything else as numbers.
Compare(v, op, literal) ==
    IF v = Null THEN "unknown"
    ELSE Truthful(IF v.kind = "text" /\ literal.kind = "text"
                  THEN Holds(op, Place[v.val], Place[literal.val])
                  ELSE Holds(op, AsNumber(v), AsNumber(literal)))

Conjoin(truths)  == IF "false" \in truths THEN "false"
                    ELSE IF "unknown" \in truths THEN "unknown" ELSE "true"
Negate(truth)    == CASE truth = "true" -> "false" [] truth = "false" -> "true" [] OTHER -> "unknown"
Disjoin(truths)  == Negate(Conjoin({Negate(t) : t \in truths}))

\* The truth of a node, from the truth of the nodes before it.  A nil operand
\* never gets as far as MySQL.
NodeTruth(node, truth, row) ==
    CASE node.type = "simple"   -> Compare(row[node.name], node.op, node.val)
      [] node.type = "in"       ->
            Disjoin({Compare(row[node.name], "=", node.vals[k]) : k \in DOMAIN node.vals})
      [] node.type = "between"  -> Conjoin({Negate(Compare(row[node.name], "<", node.left)),
                                            Negate(Compare(row[node.name], ">", node.right))})
      [] node.type = "un"       -> Truthful((row[node.name] = Null) <=> (node.op = "IS NULL"))
      [] node.type = "not"      -> Negate(truth[node.sub])
      [] node.type = "junction" ->
            LET truths == {truth[node.subs[k]] : k \in DOMAIN node.subs} IN
            IF node.op = "AND" THEN Conjoin(truths) ELSE Disjoin(truths)
      [] OTHER                  -> "unknown"

Truths(e, row) ==
    LET truth[i \in DOMAIN e] == NodeTruth(e[i], truth, row) IN truth

Truth(e, row) == Truths(e, row)[Len(e)]

\* The rows SELECT ... WHERE e returns.
Selected(e, rows) == IF e = <<>> THEN rows ELSE {row \in rows : Truth(e, row) = "true"}

-----------------------------------------------------------------------------
(* The predicates of the in-memory client: "match", "miss" or "panic".      *)
(* cmp.Equal is the equality of Go: the same type, and the very same text.  *)

Matches(b) == IF b THEN "match" ELSE "miss"

UpTo_LastOperand(verdicts, neutral) ==
    IF verdicts = <<>> THEN neutral ELSE verdicts[Len(verdicts)]

\* && and || stop at the first operand that decides.
UpTo(verdicts, neutral) ==
    LET deciding == {k \in DOMAIN verdicts : verdicts[k] # neutral} IN
    IF deciding = {} THEN neutral
    ELSE verdicts[CHOOSE k \in deciding : \A l \in deciding : k <= l]

NodeVerdict(node, verdict, row) ==
    CASE node.type = "nil"      -> "match"
      [] node.type = "in"       -> Matches(\E k \in DOMAIN node.vals : node.vals[k] = row[node.name])
      [] node.type = "simple"   -> CASE node.op = "="            -> Matches(node.val = row[node.name])
                                     [] node.op \in {"!=", "<>"} -> Matches(node.val # row[node.name])
                                     [] OTHER                    -> "panic"
      [] node.type = "not"      -> IF verdict[node.sub] = "panic" THEN "panic"
                                   ELSE Matches(verdict[node.sub] = "miss")
      [] node.type = "junction" ->
            UpTo([k \in DOMAIN node.subs |-> verdict[node.subs[k]]],
                 IF node.op = "AND" THEN "match" ELSE "miss")
      [] OTHER                  -> "panic"

Verdicts(e, row) ==
    LET verdict[i \in DOMAIN e] == NodeVerdict(e[i], verdict, row) IN verdict

FilterExpressionAsPredicate(e, row) ==
    IF e = <<>> THEN "match" ELSE Verdicts(e, row)[Len(e)]

-----------------------------------------------------------------------------
(* JSON, a sequence of objects in the same way.  An object of one member is *)
(* [key |-> name] with the fields of that; a field left out is Absent.      *)

Absent   == "absent"
JsonNull == [key |-> "null"]
Unknown  == [key |-> "unknown"]     \* an object without a member that is known

Objects(places) ==
    {JsonNull, Unknown}
    \cup [key : {"simple"}, name : DOMAIN Columns, op : Comparisons \cup {Absent}, val : JsonValue]
    \cup [key : {"in"}, name : DOMAIN Columns, val : Seq(JsonValue), isNull : BOOLEAN]
    \cup [key : {"un"}, name : DOMAIN Columns, op : NullTests \cup {Absent}]
    \cup [key : {"between"}, name : DOMAIN Columns, left : JsonValue, right : JsonValue]
    \cup [key : {"not"}, member : places]
    \cup [key : {"junction"}, op : Connectives \cup {Absent}, sub : Seq(places), isNull : BOOLEAN]

IsJSON(j) ==
    /\ j \in Seq(Objects(Nat))
    /\ \A i \in DOMAIN j : j[i] \in Objects(1..(i - 1))

\* A number loses its Go type.
Encoded(v) == IF v.kind = "long" THEN Number(v.val) ELSE v

EncodedAll(vals) == [k \in DOMAIN vals |-> Encoded(vals[k])]

MarshalNode(node) ==
    CASE node.type = "nil"      -> JsonNull
      [] node.type = "simple"   -> [key |-> "simple", name |-> node.name, op |-> node.op, val |-> Encoded(node.val)]
      [] node.type = "in"       -> [key |-> "in", name |-> node.name, val |-> EncodedAll(node.vals),
                                   isNull |-> node.nilSlice]
      [] node.type = "between"  -> [key |-> "between", name |-> node.name,
                                   left |-> Encoded(node.left), right |-> Encoded(node.right)]
      [] node.type = "un"       -> [key |-> "un", name |-> node.name, op |-> node.op]
      [] node.type = "not"      -> [key |-> "not", member |-> node.sub]
      [] node.type = "junction" -> [key |-> "junction", op |-> node.op, sub |-> node.subs, isNull |-> node.nilSlice]

MarshalJSON(e) == [i \in DOMAIN e |-> MarshalNode(e[i])]

\* What fmt prints with %v.
Verbatim(v) ==
    CASE v.kind = "number" -> Text(NumberText[v.val])
      [] v.kind = "bool"   -> Text(BoolText[v.val])
      [] v.kind = "nil"    -> Text(NilText)
      [] v.kind = "text"   -> v

simpleExprFromMap(m) == IF m.op = Absent THEN Crash ELSE SimpleExpr(m.name, m.op, Verbatim(m.val))

inExprFromMap(m) == IF m.isNull THEN Crash ELSE In(m.name, m.val)

unExprFromMap(m) == IF m.op = Absent THEN Crash ELSE UnaryExpr(m.name, m.op)

notExprFromMap_Dropped(m) == Junction("AND", <<m.member>>)

notExprFromMap(m) == Not(m.member)

junctionExprFromMap(m, j) ==
    IF m.op = Absent \/ m.isNull \/ \E k \in DOMAIN m.sub : j[m.sub[k]] = JsonNull
    THEN Crash ELSE Junction(m.op, m.sub)

\* The members of an object that decodeExprFromMap knows.
Known_NoBetween == {"simple", "junction", "not", "in", "un"}

Known == {"simple", "junction", "not", "in", "un", "between"}

\* The node an object of the JSON j becomes.
decodeExprFromMap(m, j) ==
    CASE m.key \notin Known                                -> Nil
      [] m.key = "simple"                                  -> simpleExprFromMap(m)
      [] m.key = "in"                                      -> inExprFromMap(m)
      [] m.key = "un"                                      -> unExprFromMap(m)
      [] m.key = "between"                                 -> BetweenExpr(m.name, m.left, m.right)
      [] m.key = "not" /\ j[m.member] = JsonNull           -> Nil
      [] m.key = "not" /\ j[m.member] # JsonNull           -> notExprFromMap(m)
      [] m.key = "junction"                                -> junctionExprFromMap(m, j)
=============================================================================
