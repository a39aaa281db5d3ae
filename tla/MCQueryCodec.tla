---------------------------- MODULE MCQueryCodec ----------------------------
(***************************************************************************)
(* Small instances of QueryCodec: two columns, a number and a text, and    *)
(* filters two levels deep.                                                *)
(***************************************************************************)
EXTENDS QueryCodec

\* The texts: "<nil>", "0", "01", "1", "false", "true" and "TRUE"; the collation
\* does not tell the last two apart.
MCPlace      == <<1, 2, 3, 4, 5, 6, 6>>
MCTextNumber == <<0, 0, 1, 1, 0, 0, 0>>
MCNumberText == [k \in 0..1 |-> IF k = 0 THEN 2 ELSE 4]
MCBoolText   == [k \in 0..1 |-> 5 + k]
MCColumns    == [age |-> "number", code |-> "text"]

Literals == {Number(0), Number(1), Long(1), Text(3), Text(4), Text(7), Bool(1), Null}

Leaves ==
    {<<SimpleExpr(col, op, v)>> : col \in {"age", "code"}, op \in {"=", "!=", ">"}, v \in Literals}
    \cup {<<In(col, vals)>> : col \in {"age", "code"},
                            vals \in {<<>>, <<Number(1)>>, <<Text(3), Text(4)>>, <<Long(0), Text(6)>>,
                                     <<Bool(0), Null>>}}
    \cup {<<InNil("age")>>}
    \cup {<<UnaryExpr(col, op)>> : col \in {"age", "code"}, op \in {"IS NULL", "IS NOT NULL"}}
    \cup {<<BetweenExpr(col, Number(0), v)>> : col \in {"age", "code"}, v \in {Number(1), Long(1), Null}}
    \cup {<<BetweenExpr("code", Text(2), Text(4))>>}

\* What is put below NOT and into junctions.
Parts ==
    {SimpleExpr("age", "=", Number(1)), SimpleExpr("code", "!=", Text(4)),
     SimpleExpr("code", ">", Text(3)), SimpleExpr("age", "=", Bool(1)),
     In("code", <<Text(3), Text(4)>>), InNil("code"), UnaryExpr("age", "IS NULL"), Nil}

Junctions ==
    UNION {{<<Junction(op, <<>>)>>}
           \cup {<<p, Junction(op, <<1>>)>> : p \in Parts}
           \cup {<<p, q, Junction(op, <<1, 2>>)>> : p \in Parts, q \in Parts} : op \in Connectives}
    \cup {<<JunctionNil("AND")>>}
    \* one operand twice, and not in the order of the places
    \cup {<<p, q, Junction("OR", <<2, 1, 2>>)>> : p \in Parts, q \in {SimpleExpr("age", "!=", Number(0))}}

\* The negation of an expression.
Negated(e) == Append(e, Not(Len(e)))

MCExpressions ==
    {<<>>} \cup Leaves \cup Junctions \cup {Negated(e) : e \in Leaves \cup Junctions \cup {<<Nil>>}}

Order(col, asc) == [name |-> col, asc |-> asc]
MCOrderLists == {<<>>, <<Order("age", TRUE), Order("code", FALSE)>>}
MCSizes      == {-1, 2}
MCOffsets    == {-1, 0, 3, 7}

ForeignFilters ==
    {<<[key |-> "simple", name |-> "age", op |-> Absent, val |-> Number(1)]>>,
     <<[key |-> "un", name |-> "age", op |-> Absent]>>,
     <<JsonNull>>, <<Unknown>>,
     <<Unknown, [key |-> "not", member |-> 1]>>, <<JsonNull, [key |-> "not", member |-> 1]>>,
     <<Unknown, JsonNull, [key |-> "junction", op |-> "OR", isNull |-> FALSE, sub |-> <<1, 2>>]>>,
     <<[key |-> "junction", op |-> Absent, isNull |-> FALSE, sub |-> <<>>]>>}
    \cup {MarshalJSON(e) : e \in Leaves \cup {Negated(e) : e \in Leaves}}

\* Nothing of the page, only its offset, only its size, and an offset that is
\* no int.
ForeignPages ==
    {<<<<>>, <<>>>>, <<<<3>>, <<>>>>, <<<<>>, <<-1>>>>, <<<<-1>>, <<1>>>>, <<<<0>>, <<Half>>>>}

MCForeign ==
    {[offset |-> page[1], size |-> page[2], orders |-> orders, filter |-> filter] :
        page \in ForeignPages,
        orders \in {<<>>} \cup {<<[name |-> "age", dir |-> dir]>> :
                                   dir \in Directions},
        filter \in {<<>>, NotJSON} \cup ForeignFilters}
=============================================================================
