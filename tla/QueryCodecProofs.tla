-------------------------- MODULE QueryCodecProofs --------------------------
(***************************************************************************)
(* Proofs about QueryCodec and the filter language it is built from.       *)
(*                                                                         *)
(* The two evaluations of an expression are recursive functions of its     *)
(* places.  What is needed of them comes from the least element of a set   *)
(* of places: that such functions exist, their equations, and that what    *)
(* every step carries over from the operands of a node to the node holds   *)
(* of all nodes.                                                           *)
(***************************************************************************)
EXTENDS QueryCodec, WellFoundedInduction, TLAPS

-----------------------------------------------------------------------------
(* Induction on places and recursive functions of them.                     *)

\* A set of natural numbers with an element has a least one.
LEMMA Least ==
    ASSUME NEW S, S \subseteq Nat, S # {}
    PROVE  \E n \in S : \A m \in S : n <= m
<1>1. \E x \in S : \A y \in S : ~(<<y, x>> \in OpToRel(<, Nat))
  BY NatLessThanWellFounded, WFMin
<1>2. PICK x \in S : \A y \in S : ~(<<y, x>> \in OpToRel(<, Nat))
  BY <1>1
<1>3. ASSUME NEW y \in S PROVE x <= y
  <2>1. <<y, x>> \notin {z \in Nat \X Nat : z[1] < z[2]}
    BY <1>2 DEF OpToRel
  <2> QED BY <2>1, SMT
<1> QED BY <1>3

\* A set that has 0, and with a number the next one, has all of them.
LEMMA SetInduction ==
    ASSUME NEW S, 0 \in S, \A n \in Nat : n \in S => n + 1 \in S
    PROVE  Nat \subseteq S
<1> DEFINE Bad == {n \in Nat : n \notin S}
<1>1. SUFFICES ASSUME Bad # {} PROVE FALSE
  OBVIOUS
<1>2. PICK n \in Bad : \A m \in Bad : n <= m
  BY <1>1, Least
<1>3. n \in Nat /\ n # 0 /\ n - 1 \in Nat /\ n - 1 \notin Bad
  BY <1>2
<1> QED BY <1>3

\* A function can be defined on the places 1..n by what its value at a place is
\* when the values at smaller places are known.
Steps(n, W) == [(1..n) \X [1..n -> W] -> W]

Local(n, W, step) ==
    \A i \in 1..n : \A f, g \in [1..n -> W] :
       (\A k \in 1..(i - 1) : f[k] = g[k]) => step[<<i, f>>] = step[<<i, g>>]

Solves(f, n, W, step) ==
    f \in [1..n -> W] /\ \A i \in 1..n : f[i] = step[<<i, f>>]

LEMMA RecursiveFunction ==
    ASSUME NEW n \in Nat, NEW W, W # {}, NEW step \in Steps(n, W), Local(n, W, step)
    PROVE  \E f : Solves(f, n, W, step)
<1>1. PICK w \in W : TRUE
  OBVIOUS
<1>2. step \in [(1..n) \X [1..n -> W] -> W]
  BY DEF Steps
<1>3. \A i \in 1..n : \A f, g \in [1..n -> W] :
         (\A k \in 1..(i - 1) : f[k] = g[k]) => step[<<i, f>>] = step[<<i, g>>]
  BY DEF Local
<1> DEFINE Upto(m, f) == \A i \in 1..n : i <= m => f[i] = step[<<i, f>>]
           S == {m \in Nat : \E f \in [1..n -> W] : Upto(m, f)}
<1>4. 0 \in S
  <2>1. [i \in 1..n |-> w] \in [1..n -> W]
    OBVIOUS
  <2>2. Upto(0, [i \in 1..n |-> w])
    OBVIOUS
  <2> QED BY <2>1, <2>2
<1>5. ASSUME NEW m \in Nat, m \in S PROVE m + 1 \in S
  <2>1. PICK f \in [1..n -> W] : Upto(m, f)
    BY <1>5
  <2>2. CASE m + 1 \in 1..n
    <3> DEFINE g == [f EXCEPT ![m + 1] = step[<<m + 1, f>>]]
    <3>1. step[<<m + 1, f>>] \in W
      BY <2>2, <1>2
    <3>2. g \in [1..n -> W] /\ g[m + 1] = step[<<m + 1, f>>] /\ \A k \in 1..n : k # m + 1 => g[k] = f[k]
      BY <3>1, <2>2
    <3>3. ASSUME NEW i \in 1..n, i <= m + 1 PROVE step[<<i, g>>] = step[<<i, f>>]
      <4>1. \A k \in 1..(i-1) : g[k] = f[k]
        BY <3>2, <3>3
      <4> HIDE DEF g
      <4> QED BY <4>1, <3>2, <1>3
    <3>4. Upto(m + 1, g)
      <4> SUFFICES ASSUME NEW i \in 1..n, i <= m + 1 PROVE g[i] = step[<<i, g>>]
        OBVIOUS
      <4>1. step[<<i, g>>] = step[<<i, f>>]
        BY <3>3
      <4>2. g[i] = step[<<i, f>>]
        <5>1. CASE i = m + 1
          BY <5>1, <3>2
        <5>2. CASE i # m + 1
          <6>1. i <= m
            BY <5>2
          <6> HIDE DEF g
          <6> QED BY <6>1, <5>2, <3>2, <2>1
        <5> QED BY <5>1, <5>2
      <4> QED BY <4>1, <4>2
    <3> HIDE DEF g
    <3>5. \E h \in [1..n -> W] : Upto(m + 1, h)
      BY <3>4, <3>2
    <3> QED BY <3>5
  <2>3. CASE m + 1 \notin 1..n
    <3>1. Upto(m + 1, f)
      BY <2>1, <2>3
    <3> QED BY <3>1
  <2> QED BY <2>2, <2>3
<1>6. n \in S
  <2> HIDE DEF S
  <2>1. Nat \subseteq S
     BY <1>4, <1>5, SetInduction
  <2> QED BY <2>1
<1>7. PICK f \in [1..n -> W] : Upto(n, f)
  BY <1>6
<1> QED BY <1>7 DEF Solves

-----------------------------------------------------------------------------
(* Expressions and their evaluation.                                        *)

TruthValues   == {"true", "false", "unknown"}
VerdictValues == {"match", "miss", "panic"}

\* The places of an expression are 1 up to its length.
LEMMA Places ==
    ASSUME NEW e, Acyclic(e)
    PROVE  /\ Len(e) \in Nat
           /\ DOMAIN e = 1..Len(e)
           /\ \A i \in 1..Len(e) : i \in Nat /\ e[i] \in Nodes(1..(i - 1))
BY DEF Acyclic

\* The connectives and comparisons of SQL give a truth value, whatever they are
\* given.
LEMMA ConnectiveTypes ==
    /\ \A b : Truthful(b) \in TruthValues
    /\ \A v, op, l : Compare(v, op, l) \in TruthValues
    /\ \A t : Negate(t) \in TruthValues
    /\ \A s : Conjoin(s) \in TruthValues /\ Disjoin(s) \in TruthValues
<1>1. \A b : Truthful(b) \in TruthValues
  BY DEF Truthful, TruthValues
<1>2. \A t : Negate(t) \in TruthValues
  BY DEF Negate, TruthValues
<1>3. \A s : Conjoin(s) \in TruthValues
  BY DEF Conjoin, TruthValues
<1>4. ASSUME NEW s PROVE Disjoin(s) \in TruthValues
  BY <1>2 DEF Disjoin
<1>5. ASSUME NEW v, NEW op, NEW l PROVE Compare(v, op, l) \in TruthValues
  <2>1. CASE v = Null
    BY <2>1 DEF Compare, TruthValues
  <2>2. CASE v # Null
    BY <2>2, <1>1 DEF Compare
  <2> QED BY <2>1, <2>2
<1> QED BY <1>1, <1>2, <1>3, <1>4, <1>5

LEMMA NodeTruthType ==
    ASSUME NEW node, NEW truth, NEW row
    PROVE  NodeTruth(node, truth, row) \in TruthValues
<1> DEFINE T == NodeTruth(node, truth, row)
<1>1. CASE node.type = "simple"
  <2>1. T = Compare(row[node.name], node.op, node.val)
    BY <1>1 DEF NodeTruth
  <2> QED BY <2>1, ConnectiveTypes
<1>2. CASE node.type = "in"
  <2>1. T = Disjoin({Compare(row[node.name], "=", node.vals[k]) : k \in DOMAIN node.vals})
    BY <1>2 DEF NodeTruth
  <2> QED BY <2>1, ConnectiveTypes
<1>3. CASE node.type = "between"
  <2>1. T = Conjoin({Negate(Compare(row[node.name], "<", node.left)),
                     Negate(Compare(row[node.name], ">", node.right))})
    BY <1>3 DEF NodeTruth
  <2> QED BY <2>1, ConnectiveTypes
<1>4. CASE node.type = "un"
  <2>1. T = Truthful((row[node.name] = Null) <=> (node.op = "IS NULL"))
    BY <1>4 DEF NodeTruth
  <2> QED BY <2>1, ConnectiveTypes
<1>5. CASE node.type = "not"
  <2>1. T = Negate(truth[node.sub])
    BY <1>5 DEF NodeTruth
  <2> QED BY <2>1, ConnectiveTypes
<1>6. CASE node.type = "junction"
  <2> DEFINE S == {truth[node.subs[k]] : k \in DOMAIN node.subs}
  <2>1. T = IF node.op = "AND" THEN Conjoin(S) ELSE Disjoin(S)
    BY <1>6 DEF NodeTruth
  <2> HIDE DEF S
  <2> QED BY <2>1, ConnectiveTypes
<1>7. CASE node.type \notin {"simple", "in", "between", "un", "not", "junction"}
  BY <1>7 DEF NodeTruth, TruthValues
<1> QED BY <1>1, <1>2, <1>3, <1>4, <1>5, <1>6, <1>7

\* The truth of a node depends on the truth of earlier nodes only.
LEMMA NodeTruthLocal ==
    ASSUME NEW i \in Nat, NEW node \in Nodes(1..(i - 1)), NEW row, NEW f, NEW g,
           \A k \in 1..(i - 1) : f[k] = g[k]
    PROVE  NodeTruth(node, f, row) = NodeTruth(node, g, row)
<1>1. CASE node.type = "not"
  <2>1. node.sub \in 1..(i - 1)
    BY <1>1 DEF Nodes, Nil
  <2> QED BY <1>1, <2>1 DEF NodeTruth
<1>2. CASE node.type = "junction"
  <2>1. \A k \in DOMAIN node.subs : node.subs[k] \in 1..(i - 1)
    BY <1>2 DEF Nodes, Nil
  <2>2. {f[node.subs[k]] : k \in DOMAIN node.subs} = {g[node.subs[k]] : k \in DOMAIN node.subs}
    BY <2>1
  <2> QED BY <1>2, <2>2 DEF NodeTruth
<1>3. CASE node.type \notin {"not", "junction"}
  BY <1>3 DEF NodeTruth
<1> QED BY <1>1, <1>2, <1>3

\* Truths is what its recursive definition says.
LEMMA TruthsEquation ==
    ASSUME NEW e, Acyclic(e), NEW row
    PROVE  Truths(e, row) = [i \in DOMAIN e |-> NodeTruth(e[i], Truths(e, row), row)]
<1> DEFINE n == Len(e)
           F == [1..n -> TruthValues]
           step == [p \in (1..n) \X F |-> NodeTruth(e[p[1]], p[2], row)]
<1>1. n \in Nat /\ DOMAIN e = 1..n /\ \A i \in 1..n : i \in Nat /\ e[i] \in Nodes(1..(i - 1))
  BY Places
<1>2. step \in Steps(n, TruthValues)
  BY NodeTruthType DEF Steps
<1>3. \A i \in 1..n : \A f \in F : step[<<i, f>>] = NodeTruth(e[i], f, row)
  OBVIOUS
<1>4. TruthValues # {}
  BY DEF TruthValues
<1>5. ASSUME NEW i \in 1..n, NEW f \in F, NEW g \in F, \A k \in 1..(i - 1) : f[k] = g[k]
      PROVE  step[<<i, f>>] = step[<<i, g>>]
  <2>1. i \in Nat /\ e[i] \in Nodes(1..(i - 1))
    BY <1>1
  <2>2. NodeTruth(e[i], f, row) = NodeTruth(e[i], g, row)
    <3> HIDE DEF step, F, n
    <3> QED BY <2>1, <1>5, NodeTruthLocal
  <2> HIDE DEF step
  <2> QED BY <1>3, <2>2
<1>6. Local(n, TruthValues, step)
  <2> HIDE DEF step
  <2> QED BY <1>5 DEF Local
<1>7. PICK f : Solves(f, n, TruthValues, step)
  <2> HIDE DEF step, n
  <2> QED BY <1>1, <1>2, <1>4, <1>6, RecursiveFunction
<1>8. f \in F /\ \A i \in 1..n : f[i] = NodeTruth(e[i], f, row)
  <2> HIDE DEF step
  <2> QED BY <1>3, <1>7 DEF Solves
<1>9. f = [i \in DOMAIN e |-> NodeTruth(e[i], f, row)]
  BY <1>1, <1>8
<1>10. \E t : t = [i \in DOMAIN e |-> NodeTruth(e[i], t, row)]
  BY <1>9
<1> QED BY <1>10 DEF Truths

\* The values of Truths, place by place.
LEMMA TruthsValues ==
    ASSUME NEW e, Acyclic(e), NEW row
    PROVE  \A i \in 1..Len(e) : /\ Truths(e, row)[i] \in TruthValues
                                /\ Truths(e, row)[i] = NodeTruth(e[i], Truths(e, row), row)
<1>1. ASSUME NEW t, t = [k \in DOMAIN e |-> NodeTruth(e[k], t, row)], NEW i \in DOMAIN e
      PROVE  t[i] = NodeTruth(e[i], t, row)
  BY <1>1
<1>2. \A i \in DOMAIN e : Truths(e, row)[i] = NodeTruth(e[i], Truths(e, row), row)
  BY <1>1, TruthsEquation
<1> QED BY <1>2, Places, NodeTruthType

\* UpTo gives the first verdict that is not neutral, if there is one.
LEMMA UpToFirst ==
    ASSUME NEW n \in Nat, NEW v, DOMAIN v = 1..n, NEW neutral
    PROVE  \/ UpTo(v, neutral) = neutral /\ \A k \in 1..n : v[k] = neutral
           \/ \E k \in 1..n : /\ UpTo(v, neutral) = v[k] /\ v[k] # neutral
                              /\ \A l \in 1..(k - 1) : v[l] = neutral
<1> DEFINE deciding == {k \in DOMAIN v : v[k] # neutral}
           first == CHOOSE k \in deciding : \A l \in deciding : k <= l
<1>1. CASE deciding = {}
  BY <1>1 DEF UpTo
<1>2. CASE deciding # {}
  <2>1. \E k \in deciding : \A l \in deciding : k <= l
    <3>1. deciding \subseteq Nat
      OBVIOUS
    <3> HIDE DEF deciding
    <3> QED BY <3>1, <1>2, Least
  <2>2. first \in deciding /\ \A l \in deciding : first <= l
    <3> HIDE DEF deciding
    <3> QED BY <2>1
  <2>3. UpTo(v, neutral) = v[first]
    BY <1>2 DEF UpTo
  <2> HIDE DEF first
  <2>4. first \in 1..n /\ v[first] # neutral
    BY <2>2
  <2>5. ASSUME NEW l \in 1..(first - 1) PROVE v[l] = neutral
    <3>1. l \in DOMAIN v /\ ~(first <= l)
      BY <2>4
    <3> QED BY <3>1, <2>2
  <2> QED BY <2>3, <2>4, <2>5
<1> QED BY <1>1, <1>2

\* The operands of a node, as NodeVerdict has them in a junction.
LEMMA JunctionOperands ==
    ASSUME NEW i \in Nat, NEW node \in Nodes(1..(i - 1)), node.type = "junction"
    PROVE  /\ Len(node.subs) \in Nat
           /\ DOMAIN node.subs = 1..Len(node.subs)
           /\ \A k \in 1..Len(node.subs) : node.subs[k] \in 1..(i - 1)
           /\ node.op \in Connectives
<1>1. node.subs \in Seq(1..(i - 1)) /\ node.op \in Connectives
  BY DEF Nodes, Nil
<1> QED BY <1>1

LEMMA NodeVerdictType ==
    ASSUME NEW i \in Nat, NEW node \in Nodes(1..(i - 1)), NEW row, NEW verdict,
           \A k \in 1..(i - 1) : verdict[k] \in VerdictValues
    PROVE  NodeVerdict(node, verdict, row) \in VerdictValues
<1>1. \A b : Matches(b) \in VerdictValues
  BY DEF Matches, VerdictValues
<1>2. CASE node.type = "junction"
  <2> DEFINE v == [k \in DOMAIN node.subs |-> verdict[node.subs[k]]]
             neutral == IF node.op = "AND" THEN "match" ELSE "miss"
  <2>1. NodeVerdict(node, verdict, row) = UpTo(v, neutral)
    BY <1>2 DEF NodeVerdict
  <2>2. neutral \in VerdictValues
    BY DEF VerdictValues
  <2>3. DOMAIN v = 1..Len(node.subs) /\ \A k \in 1..Len(node.subs) : v[k] \in VerdictValues
    BY <1>2, JunctionOperands
  <2> HIDE DEF v, neutral
  <2>4. \/ UpTo(v, neutral) = neutral
        \/ \E k \in 1..Len(node.subs) : UpTo(v, neutral) = v[k]
    BY <2>3, UpToFirst, <1>2, JunctionOperands
  <2> QED BY <2>1, <2>2, <2>3, <2>4
<1>3. CASE node.type = "nil"
  BY <1>3 DEF NodeVerdict, VerdictValues
<1>4. CASE node.type = "in"
  <2>1. NodeVerdict(node, verdict, row)
          = Matches(\E k \in DOMAIN node.vals : node.vals[k] = row[node.name])
    BY <1>4 DEF NodeVerdict
  <2> QED BY <2>1, <1>1
<1>5. CASE node.type = "simple"
  <2>1. \/ NodeVerdict(node, verdict, row) = Matches(node.val = row[node.name])
        \/ NodeVerdict(node, verdict, row) = Matches(node.val # row[node.name])
        \/ NodeVerdict(node, verdict, row) = "panic"
    BY <1>5 DEF NodeVerdict
  <2> QED BY <2>1, <1>1 DEF VerdictValues
<1>6. CASE node.type = "not"
  <2>1. \/ NodeVerdict(node, verdict, row) = "panic"
        \/ NodeVerdict(node, verdict, row) = Matches(verdict[node.sub] = "miss")
    BY <1>6 DEF NodeVerdict
  <2> QED BY <2>1, <1>1 DEF VerdictValues
<1>7. CASE node.type \notin {"junction", "nil", "in", "simple", "not"}
  BY <1>7 DEF NodeVerdict, VerdictValues
<1> QED BY <1>2, <1>3, <1>4, <1>5, <1>6, <1>7

LEMMA NodeVerdictLocal ==
    ASSUME NEW i \in Nat, NEW node \in Nodes(1..(i - 1)), NEW row, NEW f, NEW g,
           \A k \in 1..(i - 1) : f[k] = g[k]
    PROVE  NodeVerdict(node, f, row) = NodeVerdict(node, g, row)
<1>1. CASE node.type = "not"
  <2>1. node.sub \in 1..(i - 1)
    BY <1>1 DEF Nodes, Nil
  <2>2. f[node.sub] = g[node.sub]
    BY <2>1
  <2> QED BY <1>1, <2>2 DEF NodeVerdict
<1>2. CASE node.type = "junction"
  <2>1. [k \in DOMAIN node.subs |-> f[node.subs[k]]] = [k \in DOMAIN node.subs |-> g[node.subs[k]]]
    BY <1>2, JunctionOperands
  <2> QED BY <1>2, <2>1 DEF NodeVerdict
<1>3. CASE node.type \notin {"not", "junction"}
  BY <1>3 DEF NodeVerdict
<1> QED BY <1>1, <1>2, <1>3

\* Verdicts is what its recursive definition says.
LEMMA VerdictsEquation ==
    ASSUME NEW e, Acyclic(e), NEW row
    PROVE  Verdicts(e, row) = [i \in DOMAIN e |-> NodeVerdict(e[i], Verdicts(e, row), row)]
<1> DEFINE n == Len(e)
           F == [1..n -> VerdictValues]
           step == [p \in (1..n) \X F |-> NodeVerdict(e[p[1]], p[2], row)]
<1>1. n \in Nat /\ DOMAIN e = 1..n /\ \A i \in 1..n : i \in Nat /\ e[i] \in Nodes(1..(i - 1))
  BY Places
<1>2. ASSUME NEW i \in 1..n, NEW f \in F PROVE NodeVerdict(e[i], f, row) \in VerdictValues
  <2>1. i \in Nat /\ e[i] \in Nodes(1..(i - 1)) /\ \A k \in 1..(i - 1) : f[k] \in VerdictValues
    BY <1>1
  <2> QED BY <2>1, NodeVerdictType
<1>3. step \in Steps(n, VerdictValues)
  BY <1>2 DEF Steps
<1>4. \A i \in 1..n : \A f \in F : step[<<i, f>>] = NodeVerdict(e[i], f, row)
  OBVIOUS
<1>5. VerdictValues # {}
  BY DEF VerdictValues
<1>6. ASSUME NEW i \in 1..n, NEW f \in F, NEW g \in F, \A k \in 1..(i - 1) : f[k] = g[k]
      PROVE  step[<<i, f>>] = step[<<i, g>>]
  <2>1. i \in Nat /\ e[i] \in Nodes(1..(i - 1))
    BY <1>1
  <2>2. NodeVerdict(e[i], f, row) = NodeVerdict(e[i], g, row)
    <3> HIDE DEF step, F, n
    <3> QED BY <2>1, <1>6, NodeVerdictLocal
  <2> HIDE DEF step
  <2> QED BY <1>4, <2>2
<1>7. Local(n, VerdictValues, step)
  <2> HIDE DEF step
  <2> QED BY <1>6 DEF Local
<1>8. PICK f : Solves(f, n, VerdictValues, step)
  <2> HIDE DEF step, n
  <2> QED BY <1>1, <1>3, <1>5, <1>7, RecursiveFunction
<1>9. f \in F /\ \A i \in 1..n : f[i] = NodeVerdict(e[i], f, row)
  <2> HIDE DEF step
  <2> QED BY <1>4, <1>8 DEF Solves
<1>10. f = [i \in DOMAIN e |-> NodeVerdict(e[i], f, row)]
  BY <1>1, <1>9
<1>11. \E t : t = [i \in DOMAIN e |-> NodeVerdict(e[i], t, row)]
  BY <1>10
<1> QED BY <1>11 DEF Verdicts

\* The values of Verdicts, place by place.
LEMMA VerdictsValues ==
    ASSUME NEW e, Acyclic(e), NEW row
    PROVE  \A i \in 1..Len(e) : Verdicts(e, row)[i] = NodeVerdict(e[i], Verdicts(e, row), row)
<1>1. ASSUME NEW t, t = [k \in DOMAIN e |-> NodeVerdict(e[k], t, row)], NEW i \in DOMAIN e
      PROVE  t[i] = NodeVerdict(e[i], t, row)
  BY <1>1
<1>2. \A i \in DOMAIN e : Verdicts(e, row)[i] = NodeVerdict(e[i], Verdicts(e, row), row)
  BY <1>1, VerdictsEquation
<1> QED BY <1>2, Places

-----------------------------------------------------------------------------
(* The in-memory client and MySQL, on rows without NULL.                    *)

Booleans == {"true", "false"}

\* A truth and a verdict say the same, or the client has panicked.
Agree(truth, verdict) ==
    \/ verdict = "match" /\ truth = "true"
    \/ verdict = "miss" /\ truth = "false"
    \/ verdict = "panic" /\ truth \in Booleans

\* Without an unknown, AND and OR are those of Boolean logic.
LEMMA BooleanConnectives ==
    ASSUME NEW S, S \subseteq Booleans
    PROVE  /\ Conjoin(S) = IF "false" \in S THEN "false" ELSE "true"
           /\ Disjoin(S) = IF "true" \in S THEN "true" ELSE "false"
<1>1. ASSUME NEW U, U \subseteq Booleans
      PROVE  Conjoin(U) = IF "false" \in U THEN "false" ELSE "true"
  BY <1>1 DEF Conjoin, Booleans
<1>2. Negate("true") = "false" /\ Negate("false") = "true"
  BY DEF Negate
<1> DEFINE N == {Negate(t) : t \in S}
<1>3. N \subseteq Booleans /\ ("false" \in N <=> "true" \in S)
  BY <1>2 DEF Booleans
<1> HIDE DEF N
<1>4. Conjoin(N) = IF "true" \in S THEN "false" ELSE "true"
  BY <1>1, <1>3
<1>5. Disjoin(S) = Negate(Conjoin(N))
  BY DEF Disjoin, N
<1> QED BY <1>1, <1>2, <1>4, <1>5

\* A value that is not NULL compares as true or false.
LEMMA CompareNotNull ==
    ASSUME NEW v, v # Null, NEW op, NEW l
    PROVE  Compare(v, op, l) \in Booleans
BY DEF Compare, Truthful, Booleans

\* A value is a kind and what there is of it.
LEMMA ValueParts ==
    ASSUME NEW v \in Value
    PROVE  /\ v = [kind |-> v.kind, val |-> v.val]
           /\ \/ v.kind = "number" /\ v.val \in 0..MaxNumber
              \/ v.kind = "text" /\ v.val \in 1..Texts
              \/ v.kind = "bool" /\ v.val \in 0..1
              \/ v.kind = "long" /\ v.val \in 0..MaxNumber
              \/ v = Null
<1>1. CASE \E k \in 0..MaxNumber : v = Number(k)
  BY <1>1 DEF Number
<1>2. CASE \E k \in 1..Texts : v = Text(k)
  BY <1>2 DEF Text
<1>3. CASE \E k \in 0..1 : v = Bool(k)
  BY <1>3 DEF Bool
<1>4. CASE v = Null
  BY <1>4 DEF Null
<1>5. CASE \E k \in 0..MaxNumber : v = Long(k)
  BY <1>5 DEF Long
<1> QED BY <1>1, <1>2, <1>3, <1>4, <1>5 DEF Value, JsonValue

\* The columns of a row without NULLs have values of their kind.
LEMMA FilledColumns ==
    ASSUME NEW row \in Filled, NEW col \in DOMAIN Columns
    PROVE  /\ row[col] \in Value /\ row[col] # Null
           /\ row[col].kind = Columns[col]
           /\ Columns[col] \in {"number", "text"}
<1>1. row[col] \in Value /\ row[col] # Null /\ row[col].kind \in {Columns[col], "nil"}
  BY DEF Filled, Rows
<1>2. row[col].kind # "nil"
  BY <1>1, ValueParts DEF Null
<1>3. Columns[col] \in {"number", "text"}
  BY FiltersAssumption
<1> QED BY <1>1, <1>2, <1>3

\* With a literal on which they agree, MySQL's equality is Go's.
LEMMA CompareExact ==
    ASSUME NEW v \in Value, v # Null, NEW l \in Value, NEW col \in DOMAIN Columns,
           v.kind = Columns[col], Columns[col] \in {"number", "text"}, Exact(col, l)
    PROVE  /\ Compare(v, "=", l) = Truthful(l = v)
           /\ \A op \in {"!=", "<>"} : Compare(v, op, l) = Truthful(l # v)
<1>1. l.kind = v.kind /\ v.kind \in {"number", "text"}
  BY DEF Exact
<1>2. l = v <=> l.val = v.val
  <2>1. v = [kind |-> v.kind, val |-> v.val] /\ l = [kind |-> l.kind, val |-> l.val]
    BY ValueParts
  <2> QED BY <1>1, <2>1
<1>3. CASE v.kind = "text"
  <2>1. v.val \in 1..Texts
    BY <1>3, ValueParts DEF Null
  <2>2. Place[v.val] = Place[l.val] <=> l = v
    BY <1>1, <1>2, <1>3, <2>1 DEF Exact
  <2>3. \A op : Compare(v, op, l) = Truthful(Holds(op, Place[v.val], Place[l.val]))
    BY <1>1, <1>3 DEF Compare
  <2> QED BY <2>2, <2>3 DEF Holds
<1>4. CASE v.kind = "number"
  <2>1. AsNumber(v) = v.val /\ AsNumber(l) = l.val
    BY <1>1, <1>4 DEF AsNumber
  <2>2. \A op : Compare(v, op, l) = Truthful(Holds(op, v.val, l.val))
    BY <1>4, <2>1 DEF Compare
  <2> QED BY <1>2, <2>2 DEF Holds
<1> QED BY <1>1, <1>3, <1>4

\* The two evaluations agree on a comparison, if the client knows the operator.
LEMMA SimpleAgrees ==
    ASSUME NEW row \in Filled, NEW truth, NEW verdict,
           NEW node, node.type = "simple", node.name \in DOMAIN Columns, node.val \in Value,
           node.op \in Comparisons, Exact(node.name, node.val)
    PROVE  Agree(NodeTruth(node, truth, row), NodeVerdict(node, verdict, row))
<1> DEFINE v == row[node.name]
           l == node.val
<1>1. v \in Value /\ v # Null /\ v.kind = Columns[node.name] /\ Columns[node.name] \in {"number", "text"}
  BY FilledColumns
<1>2. NodeTruth(node, truth, row) = Compare(v, node.op, l)
  BY DEF NodeTruth
<1> HIDE DEF v
<1>3. /\ Compare(v, "=", l) = Truthful(l = v)
      /\ \A op \in {"!=", "<>"} : Compare(v, op, l) = Truthful(l # v)
  BY <1>1, CompareExact
<1>4. CASE node.op = "="
  <2>1. NodeVerdict(node, verdict, row) = Matches(l = v)
    BY <1>4 DEF NodeVerdict, v
  <2> QED BY <1>2, <1>3, <1>4, <2>1 DEF Agree, Truthful, Matches
<1>5. CASE node.op \in {"!=", "<>"}
  <2>1. NodeVerdict(node, verdict, row) = Matches(l # v)
    BY <1>5 DEF NodeVerdict, v
  <2> QED BY <1>2, <1>3, <1>5, <2>1 DEF Agree, Truthful, Matches
<1>6. CASE node.op \notin {"=", "!=", "<>"}
  <2>1. NodeVerdict(node, verdict, row) = "panic"
    BY <1>6 DEF NodeVerdict
  <2>2. Compare(v, node.op, l) \in Booleans
    BY <1>1, CompareNotNull
  <2> QED BY <1>2, <2>1, <2>2 DEF Agree
<1> QED BY <1>4, <1>5, <1>6

\* ... and on a list.
LEMMA InAgrees ==
    ASSUME NEW row \in Filled, NEW truth, NEW verdict,
           NEW node, node.type = "in", node.name \in DOMAIN Columns,
           \A k \in DOMAIN node.vals : node.vals[k] \in Value /\ Exact(node.name, node.vals[k])
    PROVE  Agree(NodeTruth(node, truth, row), NodeVerdict(node, verdict, row))
<1> DEFINE v == row[node.name]
           S == {Compare(v, "=", node.vals[k]) : k \in DOMAIN node.vals}
           Found == \E k \in DOMAIN node.vals : node.vals[k] = v
<1>1. v \in Value /\ v # Null /\ v.kind = Columns[node.name] /\ Columns[node.name] \in {"number", "text"}
  BY FilledColumns
<1>2. NodeTruth(node, truth, row) = Disjoin(S)
  BY DEF NodeTruth
<1>3. NodeVerdict(node, verdict, row) = Matches(Found)
  BY DEF NodeVerdict
<1> HIDE DEF v
<1>4. ASSUME NEW k \in DOMAIN node.vals
      PROVE  Compare(v, "=", node.vals[k]) = Truthful(node.vals[k] = v)
  BY <1>1, CompareExact
<1>5. S \subseteq Booleans /\ ("true" \in S <=> Found)
  BY <1>4 DEF Truthful, Booleans
<1> HIDE DEF S, Found
<1>6. Disjoin(S) = IF Found THEN "true" ELSE "false"
  BY <1>5, BooleanConnectives
<1> QED BY <1>2, <1>3, <1>6 DEF Agree, Matches

\* ... and, if they do on the operands, on a junction: the client stops at the
\* first operand that decides, and may never see that another one panics.
LEMMA JunctionAgrees ==
    ASSUME NEW row, NEW truth, NEW verdict,
           NEW i \in Nat, NEW node \in Nodes(1..(i - 1)), node.type = "junction",
           \A k \in 1..(i - 1) : Agree(truth[k], verdict[k])
    PROVE  Agree(NodeTruth(node, truth, row), NodeVerdict(node, verdict, row))
<1> DEFINE n == Len(node.subs)
           S == {truth[node.subs[k]] : k \in DOMAIN node.subs}
           v == [k \in DOMAIN node.subs |-> verdict[node.subs[k]]]
           neutral == IF node.op = "AND" THEN "match" ELSE "miss"
<1>1. n \in Nat /\ DOMAIN node.subs = 1..n /\ node.op \in Connectives
  BY JunctionOperands
<1>2. \A k \in 1..n : Agree(truth[node.subs[k]], v[k])
  <2>1. \A k \in 1..n : node.subs[k] \in 1..(i - 1)
    BY JunctionOperands
  <2> QED BY <1>1, <2>1
<1>3. DOMAIN v = 1..n
  BY <1>1
<1>4. NodeVerdict(node, verdict, row) = UpTo(v, neutral)
  BY DEF NodeVerdict
<1>5. NodeTruth(node, truth, row) = IF node.op = "AND" THEN Conjoin(S) ELSE Disjoin(S)
  BY DEF NodeTruth
<1>6. S \subseteq Booleans
  <2>1. \A k \in 1..n : truth[node.subs[k]] \in Booleans
    BY <1>2 DEF Agree, Booleans
  <2> QED BY <1>1, <2>1
<1>7. \A t : t \in S <=> \E k \in 1..n : t = truth[node.subs[k]]
  BY <1>1
<1> HIDE DEF S, v, n
<1>8. /\ Conjoin(S) = IF "false" \in S THEN "false" ELSE "true"
      /\ Disjoin(S) = IF "true" \in S THEN "true" ELSE "false"
  BY <1>6, BooleanConnectives
<1>9. \/ UpTo(v, neutral) = neutral /\ \A k \in 1..n : v[k] = neutral
      \/ \E k \in 1..n : UpTo(v, neutral) = v[k] /\ v[k] # neutral
  <2> HIDE DEF neutral
  <2> QED BY <1>1, <1>3, UpToFirst
<1>10. CASE node.op = "AND"
  <2>1. NodeTruth(node, truth, row) = IF "false" \in S THEN "false" ELSE "true"
    BY <1>5, <1>8, <1>10
  <2>2. CASE UpTo(v, neutral) = neutral /\ \A k \in 1..n : v[k] = neutral
    <3>1. "false" \notin S
      BY <1>2, <1>7, <1>10, <2>2 DEF Agree
    <3> QED BY <1>4, <1>10, <2>1, <2>2, <3>1 DEF Agree
  <2>3. CASE \E k \in 1..n : UpTo(v, neutral) = v[k] /\ v[k] # neutral
    <3>1. PICK k \in 1..n : UpTo(v, neutral) = v[k] /\ v[k] # "match"
      BY <1>10, <2>3
    <3>2. v[k] = "panic" \/ (v[k] = "miss" /\ "false" \in S)
      BY <1>2, <1>7, <3>1 DEF Agree
    <3> QED BY <1>4, <2>1, <3>1, <3>2 DEF Agree, Booleans
  <2> QED BY <1>9, <2>2, <2>3
<1>11. CASE node.op = "OR"
  <2>1. NodeTruth(node, truth, row) = IF "true" \in S THEN "true" ELSE "false"
    BY <1>5, <1>8, <1>11
  <2>2. CASE UpTo(v, neutral) = neutral /\ \A k \in 1..n : v[k] = neutral
    <3>1. "true" \notin S
      BY <1>2, <1>7, <1>11, <2>2 DEF Agree
    <3> QED BY <1>4, <1>11, <2>1, <2>2, <3>1 DEF Agree
  <2>3. CASE \E k \in 1..n : UpTo(v, neutral) = v[k] /\ v[k] # neutral
    <3>1. PICK k \in 1..n : UpTo(v, neutral) = v[k] /\ v[k] # "miss"
      BY <1>11, <2>3
    <3>2. v[k] = "panic" \/ (v[k] = "match" /\ "true" \in S)
      BY <1>2, <1>7, <3>1 DEF Agree
    <3> QED BY <1>4, <2>1, <3>1, <3>2 DEF Agree, Booleans
  <2> QED BY <1>9, <2>2, <2>3
<1> QED BY <1>1, <1>10, <1>11 DEF Connectives

LEMMA NodeAgrees ==
    ASSUME NEW row \in Filled, NEW truth, NEW verdict,
           NEW i \in Nat, NEW node \in Nodes(1..(i - 1)), ~NoSQL(node),
           node.type = "simple" => Exact(node.name, node.val),
           node.type = "in" => \A k \in DOMAIN node.vals : Exact(node.name, node.vals[k]),
           \A k \in 1..(i - 1) : Agree(truth[k], verdict[k])
    PROVE  Agree(NodeTruth(node, truth, row), NodeVerdict(node, verdict, row))
<1>1. CASE node.type = "simple"
  <2>1. node.name \in DOMAIN Columns /\ node.val \in Value /\ node.op \in Comparisons
    BY <1>1 DEF Nodes, Nil
  <2> QED BY <1>1, <2>1, SimpleAgrees
<1>2. CASE node.type = "in"
  <2>1. node.name \in DOMAIN Columns /\ node.vals \in Seq(Value)
    BY <1>2 DEF Nodes, Nil
  <2>2. \A k \in DOMAIN node.vals : node.vals[k] \in Value /\ Exact(node.name, node.vals[k])
    BY <1>2, <2>1
  <2> QED BY <1>2, <2>1, <2>2, InAgrees
<1>3. CASE node.type = "junction"
  BY <1>3, JunctionAgrees
<1>4. CASE node.type = "not"
  <2>1. node.sub \in 1..(i - 1)
    BY <1>4 DEF Nodes, Nil
  <2>2. Agree(truth[node.sub], verdict[node.sub])
    BY <2>1
  <2>3. NodeTruth(node, truth, row) = Negate(truth[node.sub])
    BY <1>4 DEF NodeTruth
  <2>4. NodeVerdict(node, verdict, row) = IF verdict[node.sub] = "panic" THEN "panic"
                                          ELSE Matches(verdict[node.sub] = "miss")
    BY <1>4 DEF NodeVerdict
  <2> QED BY <2>2, <2>3, <2>4 DEF Agree, Negate, Matches, Booleans
<1>5. CASE node.type = "un"
  <2>1. NodeTruth(node, truth, row) \in Booleans
    BY <1>5 DEF NodeTruth, Truthful, Booleans
  <2>2. NodeVerdict(node, verdict, row) = "panic"
    BY <1>5 DEF NodeVerdict
  <2> QED BY <2>1, <2>2 DEF Agree
<1>6. CASE node.type = "between"
  <2> DEFINE l == Compare(row[node.name], "<", node.left)
             r == Compare(row[node.name], ">", node.right)
  <2>1. node.name \in DOMAIN Columns
    BY <1>6 DEF Nodes, Nil
  <2>2. l \in Booleans /\ r \in Booleans
    BY <2>1, FilledColumns, CompareNotNull
  <2>3. NodeTruth(node, truth, row) = Conjoin({Negate(l), Negate(r)})
    BY <1>6 DEF NodeTruth
  <2> HIDE DEF l, r
  <2>4. {Negate(l), Negate(r)} \subseteq Booleans
    BY <2>2 DEF Negate, Booleans
  <2>5. NodeTruth(node, truth, row) \in Booleans
    BY <2>3, <2>4, BooleanConnectives DEF Booleans
  <2>6. NodeVerdict(node, verdict, row) = "panic"
    BY <1>6 DEF NodeVerdict
  <2> QED BY <2>5, <2>6 DEF Agree
<1>7. CASE node.type = "nil"
  BY <1>7 DEF NoSQL
<1> QED BY <1>1, <1>2, <1>3, <1>4, <1>5, <1>6, <1>7 DEF Nodes, Nil

\* Induction: a least place at which they disagree has operands that agree.
LEMMA EvaluationsAgree ==
    ASSUME NEW e, Acyclic(e), ExactLiterals(e), ~Malformed(e), NEW row \in Filled
    PROVE  \A i \in 1..Len(e) : Agree(Truths(e, row)[i], Verdicts(e, row)[i])
<1> DEFINE t == Truths(e, row)
           v == Verdicts(e, row)
           Bad == {i \in 1..Len(e) : ~Agree(t[i], v[i])}
<1>1. SUFFICES ASSUME Bad # {} PROVE FALSE
  OBVIOUS
<1>2. Bad \subseteq Nat
  BY Places
<1>3. PICK i \in Bad : \A k \in Bad : i <= k
  <2> HIDE DEF Bad
  <2> QED BY <1>1, <1>2, Least
<1>4. i \in 1..Len(e) /\ i \in Nat /\ e[i] \in Nodes(1..(i - 1)) /\ i \in DOMAIN e /\ Len(e) \in Nat
  BY Places
<1>5. \A k \in 1..(i - 1) : Agree(t[k], v[k])
  <2> SUFFICES ASSUME NEW k \in 1..(i - 1) PROVE Agree(t[k], v[k])
    OBVIOUS
  <2>1. k \in 1..Len(e) /\ ~(i <= k)
    BY <1>4
  <2> QED BY <1>3, <2>1
<1>6. t[i] = NodeTruth(e[i], t, row) /\ v[i] = NodeVerdict(e[i], v, row)
  BY <1>4, TruthsValues, VerdictsValues
<1>7. /\ ~NoSQL(e[i])
      /\ e[i].type = "simple" => Exact(e[i].name, e[i].val)
      /\ e[i].type = "in" => \A k \in DOMAIN e[i].vals : Exact(e[i].name, e[i].vals[k])
  BY <1>4 DEF Malformed, ExactLiterals
<1>8. ~Agree(t[i], v[i])
  BY <1>3
<1> HIDE DEF t, v, Bad
<1>9. Agree(NodeTruth(e[i], t, row), NodeVerdict(e[i], v, row))
  BY <1>4, <1>5, <1>7, NodeAgrees
<1> QED BY <1>6, <1>8, <1>9

\* So the client finds the rows MySQL would, unless it panics.
LEMMA InMemorySelects ==
    ASSUME NEW e, Acyclic(e), ExactLiterals(e), ~Malformed(e),
           \A row \in Rows : FilterExpressionAsPredicate(e, row) # "panic"
    PROVE  {row \in Rows : FilterExpressionAsPredicate(e, row) = "match"} \cap Filled
             = Selected(e, Filled)
<1>1. Filled \subseteq Rows
  BY DEF Filled
<1>2. CASE e = <<>>
  BY <1>1, <1>2 DEF FilterExpressionAsPredicate, Selected
<1>3. CASE e # <<>>
  <2>1. Len(e) \in 1..Len(e)
    BY <1>3 DEF Acyclic
  <2>2. ASSUME NEW row \in Filled
        PROVE  FilterExpressionAsPredicate(e, row) = "match" <=> Truth(e, row) = "true"
    <3>1. Agree(Truths(e, row)[Len(e)], Verdicts(e, row)[Len(e)])
      BY <2>1, EvaluationsAgree
    <3>2. Verdicts(e, row)[Len(e)] # "panic"
      BY <1>1, <1>3 DEF FilterExpressionAsPredicate
    <3> QED BY <1>3, <3>1, <3>2 DEF FilterExpressionAsPredicate, Truth, Agree
  <2>3. Selected(e, Filled) = {row \in Filled : Truth(e, row) = "true"}
    BY <1>3 DEF Selected
  <2> QED BY <1>1, <2>2, <2>3
<1> QED BY <1>2, <1>3

-----------------------------------------------------------------------------
(* JSON and back.                                                           *)

\* The nodes the objects of a JSON become.
Decoded(j) == [i \in DOMAIN j |-> decodeExprFromMap(j[i], j)]

\* An expression as the decoder makes them: literals of simple expressions are
\* texts, the other literals are what JSON has, and lists are there.
Plain(node) ==
    /\ node.type = "simple" => node.val \in JsonValue /\ node.val.kind = "text"
    /\ node.type = "in" => node.vals \in Seq(JsonValue)
    /\ node.type = "between" => node.left \in JsonValue /\ node.right \in JsonValue
    /\ node.type \in {"in", "junction"} => ~node.nilSlice

\* What JSON has is a value, and no Long.
LEMMA JsonValues ==
    /\ JsonValue \subseteq Value /\ Seq(JsonValue) \subseteq Seq(Value)
    /\ \A v \in JsonValue : v.kind # "long"
<1>1. JsonValue \subseteq Value
  BY DEF Value
<1>2. Seq(JsonValue) \subseteq Seq(Value)
  BY <1>1
<1>3. \A v \in JsonValue : v.kind # "long"
  BY DEF JsonValue, Number, Text, Bool, Null
<1> QED BY <1>1, <1>2, <1>3

\* JSON forgets the Go type of a number, which SQL does not see.
LEMMA EncodedValue ==
    ASSUME NEW v \in Value
    PROVE  /\ Encoded(v) \in JsonValue
           /\ v \in JsonValue => Encoded(v) = v
           /\ Encoded(v) = Null <=> v = Null
           /\ \A w, op : Compare(w, op, Encoded(v)) = Compare(w, op, v)
<1>1. v \in JsonValue <=> v.kind # "long"
  <2>1. v \in JsonValue => v.kind # "long"
    BY DEF JsonValue, Number, Text, Bool, Null
  <2>2. (\E k \in 0..MaxNumber : v = Long(k)) => v.kind = "long"
    BY DEF Long
  <2> QED BY <2>1, <2>2 DEF Value
<1>2. CASE v.kind # "long"
  BY <1>1, <1>2 DEF Encoded
<1>3. CASE v.kind = "long"
  <2>1. v.val \in 0..MaxNumber /\ v # Null
    BY <1>3, ValueParts DEF Null
  <2>2. Encoded(v) = Number(v.val) /\ Number(v.val) \in JsonValue /\ Number(v.val) # Null
    BY <1>3, <2>1 DEF Encoded, JsonValue, Number, Null
  <2>3. AsNumber(Number(v.val)) = AsNumber(v) /\ Number(v.val).kind # "text" /\ v.kind # "text"
    BY <1>3 DEF AsNumber, Number
  <2>4. ASSUME NEW w, NEW op PROVE Compare(w, op, Number(v.val)) = Compare(w, op, v)
    BY <2>3 DEF Compare
  <2> QED BY <1>1, <1>3, <2>1, <2>2, <2>4
<1> QED BY <1>2, <1>3

LEMMA EncodedList ==
    ASSUME NEW vals \in Seq(Value)
    PROVE  /\ EncodedAll(vals) \in Seq(JsonValue)
           /\ DOMAIN EncodedAll(vals) = DOMAIN vals
           /\ \A k \in DOMAIN vals : vals[k] \in Value /\ EncodedAll(vals)[k] = Encoded(vals[k])
           /\ vals \in Seq(JsonValue) => EncodedAll(vals) = vals
<1>1. Len(vals) \in Nat /\ DOMAIN vals = 1..Len(vals) /\ \A k \in DOMAIN vals : vals[k] \in Value
  OBVIOUS
<1>2. EncodedAll(vals) = [k \in 1..Len(vals) |-> Encoded(vals[k])]
  BY <1>1 DEF EncodedAll
<1>3. \A k \in 1..Len(vals) : Encoded(vals[k]) \in JsonValue
  BY <1>1, EncodedValue
<1>4. EncodedAll(vals) \in Seq(JsonValue)
  BY <1>1, <1>2, <1>3
<1>5. ASSUME vals \in Seq(JsonValue) PROVE EncodedAll(vals) = vals
  <2>1. \A k \in 1..Len(vals) : vals[k] \in JsonValue
    BY <1>1, <1>5
  <2>2. \A k \in 1..Len(vals) : Encoded(vals[k]) = vals[k]
    BY <1>1, <2>1, EncodedValue
  <2>3. vals = [k \in 1..Len(vals) |-> vals[k]]
    BY <1>1
  <2> QED BY <1>2, <2>2, <2>3
<1> QED BY <1>1, <1>2, <1>4, <1>5

LEMMA VerbatimText ==
    ASSUME NEW v \in Value, v.kind # "long"
    PROVE  /\ Verbatim(v) \in JsonValue /\ Verbatim(v).kind = "text"
           /\ v.kind = "text" => Verbatim(v) = v
           /\ v.kind = "number" => TextNumber[Verbatim(v).val] = v.val
<1>1. \A k \in 1..Texts : Text(k) \in JsonValue /\ Text(k).kind = "text" /\ Text(k).val = k
  BY DEF JsonValue, Text
<1>2. CASE v.kind = "number" /\ v.val \in 0..MaxNumber
  <2>1. NumberText[v.val] \in 1..Texts /\ TextNumber[NumberText[v.val]] = v.val
    BY <1>2, FiltersAssumption
  <2>2. Verbatim(v) = Text(NumberText[v.val])
    BY <1>2 DEF Verbatim
  <2> QED BY <1>1, <1>2, <2>1, <2>2
<1>3. CASE v.kind = "text"
  <2>1. v \in JsonValue
    BY <1>3 DEF Value, Long
  <2> QED BY <1>3, <2>1 DEF Verbatim
<1>4. CASE v.kind = "bool" /\ v.val \in 0..1
  <2>1. BoolText[v.val] \in 1..Texts
    BY <1>4, FiltersAssumption
  <2>2. Verbatim(v) = Text(BoolText[v.val])
    BY <1>4 DEF Verbatim
  <2> QED BY <1>1, <1>4, <2>1, <2>2
<1>5. CASE v = Null
  <2>1. v.kind = "nil" /\ NilText \in 1..Texts
    BY <1>5, FiltersAssumption DEF Null
  <2>2. Verbatim(v) = Text(NilText)
    BY <2>1 DEF Verbatim
  <2> QED BY <1>1, <2>1, <2>2
<1> QED BY <1>2, <1>3, <1>4, <1>5, ValueParts

LEMMA NodesMonotone ==
    ASSUME NEW i \in Nat
    PROVE  Nodes(1..(i - 1)) \subseteq Nodes(Nat) /\ Objects(1..(i - 1)) \subseteq Objects(Nat)
<1>1. 1..(i - 1) \subseteq Nat /\ Seq(1..(i - 1)) \subseteq Seq(Nat)
  OBVIOUS
<1> DEFINE P == 1..(i - 1)
           S == Seq(P)
           T == Seq(Nat)
<1>2. P \subseteq Nat /\ S \subseteq T
  BY <1>1
<1> HIDE DEF P, S, T
<1>3. [type : {"not"}, sub : P] \subseteq [type : {"not"}, sub : Nat]
  BY <1>2
<1>4. [type : {"junction"}, op : Connectives, subs : S, nilSlice : BOOLEAN]
        \subseteq [type : {"junction"}, op : Connectives, subs : T, nilSlice : BOOLEAN]
  BY <1>2
<1>5. [key : {"not"}, member : P] \subseteq [key : {"not"}, member : Nat]
  BY <1>2
<1>6. [key : {"junction"}, op : Connectives \cup {Absent}, sub : S, isNull : BOOLEAN]
        \subseteq [key : {"junction"}, op : Connectives \cup {Absent}, sub : T, isNull : BOOLEAN]
  BY <1>2
<1> QED BY <1>3, <1>4, <1>5, <1>6 DEF Nodes, Objects, P, S, T

\* What an object becomes is a crash, or a plain node with the same operands.
LEMMA DecodedNode ==
    ASSUME NEW i \in Nat, NEW m \in Objects(1..(i - 1)), NEW j,
           decodeExprFromMap(m, j) # Crash
    PROVE  /\ decodeExprFromMap(m, j) \in Nodes(1..(i - 1))
           /\ Plain(decodeExprFromMap(m, j))
<1> DEFINE node == decodeExprFromMap(m, j)
<1>1. Nil \in Nodes(1..(i - 1)) /\ Plain(Nil)
  BY DEF Nodes, Plain, Nil
<1>2. CASE m.key = "simple"
  <2>1. m.name \in DOMAIN Columns /\ m.op \in Comparisons \cup {Absent} /\ m.val \in JsonValue
    BY <1>2 DEF Objects, JsonNull, Unknown
  <2>2. m.op # Absent /\ node = SimpleExpr(m.name, m.op, Verbatim(m.val))
    BY <1>2 DEF decodeExprFromMap, simpleExprFromMap, Known
  <2>3. Verbatim(m.val) \in JsonValue /\ Verbatim(m.val) \in Value /\ Verbatim(m.val).kind = "text"
    BY <2>1, JsonValues, VerbatimText
  <2>4. node \in [type : {"simple"}, name : DOMAIN Columns, op : Comparisons, val : Value]
    BY <2>1, <2>2, <2>3 DEF SimpleExpr
  <2> QED BY <2>2, <2>3, <2>4 DEF Nodes, Plain, SimpleExpr
<1>3. CASE m.key = "in"
  <2>1. m.name \in DOMAIN Columns /\ m.val \in Seq(JsonValue)
    BY <1>3 DEF Objects, JsonNull, Unknown
  <2>2. node = In(m.name, m.val)
    BY <1>3 DEF decodeExprFromMap, inExprFromMap, Known
  <2>3. m.val \in Seq(Value)
    BY <2>1, JsonValues
  <2>4. node \in [type : {"in"}, name : DOMAIN Columns, vals : Seq(Value), nilSlice : BOOLEAN]
    BY <2>1, <2>2, <2>3 DEF In
  <2> QED BY <2>1, <2>2, <2>4 DEF Nodes, Plain, In
<1>4. CASE m.key = "un"
  <2>1. m.name \in DOMAIN Columns /\ m.op \in NullTests \cup {Absent}
    BY <1>4 DEF Objects, JsonNull, Unknown
  <2>2. m.op # Absent /\ node = UnaryExpr(m.name, m.op)
    BY <1>4 DEF decodeExprFromMap, unExprFromMap, Known
  <2> QED BY <2>1, <2>2 DEF Nodes, Plain, UnaryExpr
<1>5. CASE m.key = "between"
  <2>1. m.name \in DOMAIN Columns /\ m.left \in JsonValue /\ m.right \in JsonValue
    BY <1>5 DEF Objects, JsonNull, Unknown
  <2>2. node = BetweenExpr(m.name, m.left, m.right)
    BY <1>5 DEF decodeExprFromMap, Known
  <2>3. m.left \in Value /\ m.right \in Value
    BY <2>1, JsonValues
  <2>4. node \in [type : {"between"}, name : DOMAIN Columns, left : Value, right : Value]
    BY <2>1, <2>2, <2>3 DEF BetweenExpr
  <2> QED BY <2>1, <2>2, <2>4 DEF Nodes, Plain, BetweenExpr
<1>6. CASE m.key = "not"
  <2>1. m.member \in 1..(i - 1)
    BY <1>6 DEF Objects, JsonNull, Unknown
  <2>2. node = Nil \/ node = Not(m.member)
    BY <1>6 DEF decodeExprFromMap, notExprFromMap, Known
  <2>3. Not(m.member) \in Nodes(1..(i - 1)) /\ Plain(Not(m.member))
    BY <2>1 DEF Nodes, Plain, Not
  <2> QED BY <1>1, <2>2, <2>3
<1>7. CASE m.key = "junction"
  <2>1. m.op \in Connectives \cup {Absent} /\ m.sub \in Seq(1..(i - 1))
    BY <1>7 DEF Objects, JsonNull, Unknown
  <2>2. m.op # Absent /\ node = Junction(m.op, m.sub)
    BY <1>7 DEF decodeExprFromMap, junctionExprFromMap, Known
  <2> QED BY <2>1, <2>2 DEF Nodes, Plain, Junction
<1>8. CASE m.key \notin Known
  <2>1. node = Nil
    BY <1>8 DEF decodeExprFromMap, Known
  <2> QED BY <1>1, <2>1
<1> QED BY <1>2, <1>3, <1>4, <1>5, <1>6, <1>7, <1>8 DEF Known

\* JSON that is decoded without a crash gives an expression of plain nodes.
LEMMA DecodedExpression ==
    ASSUME NEW j, IsJSON(j), \A i \in DOMAIN j : decodeExprFromMap(j[i], j) # Crash
    PROVE  /\ Acyclic(Decoded(j)) /\ Len(Decoded(j)) = Len(j)
           /\ \A i \in DOMAIN Decoded(j) : Plain(Decoded(j)[i])
<1> DEFINE d == Decoded(j)
           n == Len(j)
<1>1. n \in Nat /\ DOMAIN j = 1..n
  BY DEF IsJSON
<1>2. ASSUME NEW i \in 1..n
      PROVE  i \in Nat /\ d[i] \in Nodes(1..(i - 1)) /\ d[i] \in Nodes(Nat) /\ Plain(d[i])
  <2>1. i \in Nat /\ j[i] \in Objects(1..(i - 1))
    BY <1>1 DEF IsJSON
  <2>2. d[i] = decodeExprFromMap(j[i], j)
    BY <1>1 DEF Decoded
  <2>3. d[i] # Crash
    BY <1>1, <2>2
  <2> HIDE DEF d
  <2>4. d[i] \in Nodes(1..(i - 1)) /\ Plain(d[i])
    BY <2>1, <2>2, <2>3, DecodedNode
  <2> QED BY <2>1, <2>4, NodesMonotone
<1>3. d = [i \in 1..n |-> d[i]]
  BY <1>1 DEF Decoded
<1> HIDE DEF d, n
<1>4. d \in Seq(Nodes(Nat)) /\ Len(d) = n /\ DOMAIN d = 1..n
  BY <1>1, <1>2, <1>3
<1> QED BY <1>2, <1>4 DEF Acyclic, d, n

\* The JSON of an expression.
LEMMA MarshalledNode ==
    ASSUME NEW places, NEW node \in Nodes(places)
    PROVE  /\ MarshalNode(node) \in Objects(places)
           /\ MarshalNode(node) = JsonNull <=> node = Nil
<1>1. CASE node.type = "nil"
  BY <1>1 DEF Nodes, Objects, MarshalNode, Nil, JsonNull
<1>2. CASE node.type = "simple"
  <2>1. node.name \in DOMAIN Columns /\ node.op \in Comparisons /\ node.val \in Value
    BY <1>2 DEF Nodes, Nil
  <2>2. MarshalNode(node) = [key |-> "simple", name |-> node.name, op |-> node.op, val |-> Encoded(node.val)]
    BY <1>2 DEF MarshalNode
  <2>3. Encoded(node.val) \in JsonValue
    BY <2>1, EncodedValue
  <2> QED BY <1>2, <2>1, <2>2, <2>3 DEF Objects, Nil, JsonNull
<1>3. CASE node.type = "in"
  <2>1. node.name \in DOMAIN Columns /\ node.vals \in Seq(Value) /\ node.nilSlice \in BOOLEAN
    BY <1>3 DEF Nodes, Nil
  <2> DEFINE vals == EncodedAll(node.vals)
  <2>2. MarshalNode(node) = [key |-> "in", name |-> node.name, val |-> vals, isNull |-> node.nilSlice]
    BY <1>3 DEF MarshalNode
  <2>3. vals \in Seq(JsonValue)
    BY <2>1, EncodedList
  <2> HIDE DEF vals
  <2> QED BY <1>3, <2>1, <2>2, <2>3 DEF Objects, Nil, JsonNull
<1>4. CASE node.type = "un"
  <2>1. node.name \in DOMAIN Columns /\ node.op \in NullTests
    BY <1>4 DEF Nodes, Nil
  <2>2. MarshalNode(node) = [key |-> "un", name |-> node.name, op |-> node.op]
    BY <1>4 DEF MarshalNode
  <2> QED BY <1>4, <2>1, <2>2 DEF Objects, Nil, JsonNull
<1>5. CASE node.type = "between"
  <2>1. node.name \in DOMAIN Columns /\ node.left \in Value /\ node.right \in Value
    BY <1>5 DEF Nodes, Nil
  <2>2. MarshalNode(node) = [key |-> "between", name |-> node.name,
                             left |-> Encoded(node.left), right |-> Encoded(node.right)]
    BY <1>5 DEF MarshalNode
  <2>3. Encoded(node.left) \in JsonValue /\ Encoded(node.right) \in JsonValue
    BY <2>1, EncodedValue
  <2> QED BY <1>5, <2>1, <2>2, <2>3 DEF Objects, Nil, JsonNull
<1>6. CASE node.type = "not"
  <2>1. node.sub \in places
    BY <1>6 DEF Nodes, Nil
  <2>2. MarshalNode(node) = [key |-> "not", member |-> node.sub]
    BY <1>6 DEF MarshalNode
  <2> QED BY <1>6, <2>1, <2>2 DEF Objects, Nil, JsonNull
<1>7. CASE node.type = "junction"
  <2>1. node.op \in Connectives /\ node.subs \in Seq(places) /\ node.nilSlice \in BOOLEAN
    BY <1>7 DEF Nodes, Nil
  <2>2. MarshalNode(node) = [key |-> "junction", op |-> node.op, sub |-> node.subs, isNull |-> node.nilSlice]
    BY <1>7 DEF MarshalNode
  <2> QED BY <1>7, <2>1, <2>2 DEF Objects, Nil, JsonNull
<1> QED BY <1>1, <1>2, <1>3, <1>4, <1>5, <1>6, <1>7 DEF Nodes, Nil

LEMMA MarshalledJSON ==
    ASSUME NEW e, Acyclic(e)
    PROVE  /\ IsJSON(MarshalJSON(e)) /\ Len(MarshalJSON(e)) = Len(e)
           /\ DOMAIN MarshalJSON(e) = DOMAIN e
           /\ \A i \in DOMAIN e : MarshalJSON(e)[i] = MarshalNode(e[i])
<1> DEFINE j == MarshalJSON(e)
           n == Len(e)
<1>1. n \in Nat /\ DOMAIN e = 1..n /\ \A i \in 1..n : i \in Nat /\ e[i] \in Nodes(1..(i - 1))
  BY Places
<1>2. j = [i \in 1..n |-> MarshalNode(e[i])]
  BY <1>1 DEF MarshalJSON
<1>3. ASSUME NEW i \in 1..n
      PROVE  MarshalNode(e[i]) \in Objects(1..(i - 1)) /\ MarshalNode(e[i]) \in Objects(Nat)
  <2>1. MarshalNode(e[i]) \in Objects(1..(i - 1))
    BY <1>1, MarshalledNode
  <2> QED BY <1>1, <2>1, NodesMonotone
<1> HIDE DEF j, n
<1>4. j \in Seq(Objects(Nat)) /\ Len(j) = n /\ DOMAIN j = 1..n
  BY <1>1, <1>2, <1>3
<1>5. \A i \in 1..n : j[i] = MarshalNode(e[i])
  BY <1>2
<1> QED BY <1>1, <1>3, <1>4, <1>5 DEF IsJSON, j, n

\* What becomes of a node on the way to JSON and back: a literal of a simple
\* expression becomes a text, any other what JSON has of it.
Carried(node) ==
    CASE node.type = "simple"  -> SimpleExpr(node.name, node.op, Verbatim(Encoded(node.val)))
      [] node.type = "in"      -> In(node.name, EncodedAll(node.vals))
      [] node.type = "between" -> BetweenExpr(node.name, Encoded(node.left), Encoded(node.right))
      [] OTHER                 -> node

\* Unless the decoder loses it, or crashes.
Returned(node, e) ==
    CASE node.type = "in"       -> IF node.nilSlice THEN Crash ELSE Carried(node)
      [] node.type = "not"      -> IF e[node.sub] = Nil THEN Nil ELSE node
      [] node.type = "junction" ->
            IF node.nilSlice \/ \E k \in DOMAIN node.subs : e[node.subs[k]] = Nil THEN Crash ELSE node
      [] OTHER                  -> Carried(node)

LEMMA RoundTrip ==
    ASSUME NEW e, Acyclic(e), NEW i \in DOMAIN e
    PROVE  decodeExprFromMap(MarshalJSON(e)[i], MarshalJSON(e)) = Returned(e[i], e)
<1> DEFINE j == MarshalJSON(e)
           node == e[i]
           m == MarshalNode(node)
<1>1. i \in Nat /\ node \in Nodes(1..(i - 1))
  BY Places
<1>2. j[i] = m
  BY MarshalledJSON
<1>3. ASSUME NEW k \in 1..(i - 1) PROVE j[k] = JsonNull <=> e[k] = Nil
  <2>1. k \in DOMAIN e /\ e[k] \in Nodes(1..(k - 1))
    BY <1>1, Places
  <2>2. j[k] = MarshalNode(e[k])
    BY <2>1, MarshalledJSON
  <2> QED BY <2>1, <2>2, MarshalledNode
<1> HIDE DEF j
<1>4. CASE node.type = "nil"
  <2>1. node = Nil
    BY <1>1, <1>4 DEF Nodes, Nil
  <2>2. m = JsonNull
    BY <1>4 DEF MarshalNode
  <2>3. decodeExprFromMap(m, j) = Nil
    BY <2>2 DEF decodeExprFromMap, Known, JsonNull
  <2> QED BY <1>2, <2>1, <2>3 DEF Returned, Carried, Nil, j
<1>5. CASE node.type = "simple"
  <2>1. node.op # Absent
    BY <1>1, <1>5 DEF Nodes, Nil, Comparisons, Absent
  <2>2. m = [key |-> "simple", name |-> node.name, op |-> node.op, val |-> Encoded(node.val)]
    BY <1>5 DEF MarshalNode
  <2>3. decodeExprFromMap(m, j) = SimpleExpr(node.name, node.op, Verbatim(Encoded(node.val)))
    BY <2>1, <2>2 DEF decodeExprFromMap, simpleExprFromMap, Known
  <2> QED BY <1>2, <1>5, <2>3 DEF Returned, Carried, j
<1>6. CASE node.type = "in"
  <2>1. m = [key |-> "in", name |-> node.name, val |-> EncodedAll(node.vals), isNull |-> node.nilSlice]
    BY <1>6 DEF MarshalNode
  <2>2. decodeExprFromMap(m, j) = IF node.nilSlice THEN Crash ELSE In(node.name, EncodedAll(node.vals))
    BY <2>1 DEF decodeExprFromMap, inExprFromMap, Known
  <2> QED BY <1>2, <1>6, <2>2 DEF Returned, Carried, j
<1>7. CASE node.type = "un"
  <2>1. node \in [type : {"un"}, name : DOMAIN Columns, op : NullTests]
    BY <1>1, <1>7 DEF Nodes, Nil
  <2>2. m = [key |-> "un", name |-> node.name, op |-> node.op] /\ node.op # Absent
    BY <1>7, <2>1 DEF MarshalNode, NullTests, Absent
  <2>3. decodeExprFromMap(m, j) = UnaryExpr(node.name, node.op)
    BY <2>2 DEF decodeExprFromMap, unExprFromMap, Known
  <2>4. node = UnaryExpr(node.name, node.op)
    BY <2>1 DEF UnaryExpr
  <2> QED BY <1>2, <1>7, <2>3, <2>4 DEF Returned, Carried, j
<1>8. CASE node.type = "between"
  <2>1. m = [key |-> "between", name |-> node.name,
             left |-> Encoded(node.left), right |-> Encoded(node.right)]
    BY <1>8 DEF MarshalNode
  <2>2. decodeExprFromMap(m, j) = BetweenExpr(node.name, Encoded(node.left), Encoded(node.right))
    BY <2>1 DEF decodeExprFromMap, Known
  <2> QED BY <1>2, <1>8, <2>2 DEF Returned, Carried, j
<1>9. CASE node.type = "not"
  <2>1. node \in [type : {"not"}, sub : 1..(i - 1)]
    BY <1>1, <1>9 DEF Nodes, Nil
  <2>2. m = [key |-> "not", member |-> node.sub]
    BY <1>9 DEF MarshalNode
  <2>3. decodeExprFromMap(m, j) = IF j[node.sub] = JsonNull THEN Nil ELSE Not(node.sub)
    BY <2>2 DEF decodeExprFromMap, notExprFromMap, Known
  <2>4. node = Not(node.sub) /\ (j[node.sub] = JsonNull <=> e[node.sub] = Nil)
    BY <1>3, <2>1 DEF Not
  <2> QED BY <1>2, <1>9, <2>3, <2>4 DEF Returned, Carried, j
<1>10. CASE node.type = "junction"
  <2>1. node \in [type : {"junction"}, op : Connectives, subs : Seq(1..(i - 1)), nilSlice : BOOLEAN]
    BY <1>1, <1>10 DEF Nodes, Nil
  <2>2. m = [key |-> "junction", op |-> node.op, sub |-> node.subs, isNull |-> node.nilSlice]
    BY <1>10 DEF MarshalNode
  <2>3. node.op # Absent
    BY <2>1 DEF Connectives, Absent
  <2>4. decodeExprFromMap(m, j)
          = IF node.nilSlice \/ \E k \in DOMAIN node.subs : j[node.subs[k]] = JsonNull
            THEN Crash ELSE Junction(node.op, node.subs)
    BY <2>2, <2>3 DEF decodeExprFromMap, junctionExprFromMap, Known
  <2>5. ~node.nilSlice => node = Junction(node.op, node.subs)
    BY <2>1 DEF Junction
  <2>6. \A k \in DOMAIN node.subs : j[node.subs[k]] = JsonNull <=> e[node.subs[k]] = Nil
    BY <1>1, <1>3, <1>10, JunctionOperands
  <2> QED BY <1>2, <1>10, <2>4, <2>5, <2>6 DEF Returned, j
<1> QED BY <1>1, <1>4, <1>5, <1>6, <1>7, <1>8, <1>9, <1>10 DEF Nodes, Nil

-----------------------------------------------------------------------------
(* A portable filter means the same on the other side.                      *)

\* A node of a portable filter comes back.
LEMMA PortableNode ==
    ASSUME NEW e, Acyclic(e), Portable(e), NEW i \in DOMAIN e
    PROVE  /\ Returned(e[i], e) = Carried(e[i])
           /\ Carried(e[i]) # Crash /\ Carried(e[i]) # Nil
<1> DEFINE node == e[i]
<1>1. i \in Nat /\ node \in Nodes(1..(i - 1)) /\ DOMAIN e = 1..Len(e) /\ Len(e) \in Nat
  BY Places
<1>2. /\ node.type # "nil" /\ node.type # "crash"
      /\ node.type \in {"in", "junction"} => ~node.nilSlice
  BY <1>1 DEF Portable, Nodes, Nil
<1>3. \A k \in 1..(i - 1) : e[k] # Nil
  BY <1>1 DEF Portable, Nil
<1>4. Carried(node).type = node.type
  BY DEF Carried, SimpleExpr, In, BetweenExpr
<1>5. Carried(node) # Crash /\ Carried(node) # Nil
  BY <1>2, <1>4 DEF Crash, Nil
<1>6. CASE node.type = "not"
  <2>1. node.sub \in 1..(i - 1)
    BY <1>1, <1>6 DEF Nodes, Nil
  <2>2. e[node.sub] # Nil
    BY <1>3, <2>1
  <2> QED BY <1>5, <1>6, <2>2 DEF Returned, Carried
<1>7. CASE node.type = "junction"
  <2>1. \A k \in DOMAIN node.subs : node.subs[k] \in 1..(i - 1)
    BY <1>1, <1>7, JunctionOperands
  <2>2. \A k \in DOMAIN node.subs : e[node.subs[k]] # Nil
    BY <1>3, <2>1
  <2> QED BY <1>2, <1>5, <1>7, <2>2 DEF Returned, Carried
<1>8. CASE node.type \notin {"not", "junction"}
  <2>1. Returned(node, e) = Carried(node)
    BY <1>2, <1>8 DEF Returned
  <2> QED BY <1>5, <2>1
<1> QED BY <1>6, <1>7, <1>8

LEMMA PortableDecoded ==
    ASSUME NEW e, Acyclic(e), Portable(e)
    PROVE  LET j == MarshalJSON(e)  d == Decoded(j) IN
           /\ \A i \in DOMAIN j : decodeExprFromMap(j[i], j) # Crash
           /\ Acyclic(d) /\ Len(d) = Len(e) /\ DOMAIN d = DOMAIN e
           /\ \A i \in DOMAIN e : d[i] = Carried(e[i])
           /\ DecodeFilter(j) = IF e = <<>> THEN <<>> ELSE d
<1> DEFINE j == MarshalJSON(e)
           d == Decoded(j)
<1>1. IsJSON(j) /\ Len(j) = Len(e) /\ DOMAIN j = DOMAIN e
  BY MarshalledJSON
<1>2. \A i \in DOMAIN e : decodeExprFromMap(j[i], j) = Returned(e[i], e)
  BY RoundTrip
<1>3. \A i \in DOMAIN e : d[i] = Returned(e[i], e)
  BY <1>1, <1>2 DEF Decoded
<1>4. \A i \in DOMAIN j : decodeExprFromMap(j[i], j) # Crash
  BY <1>1, <1>2, PortableNode
<1>5. DOMAIN d = DOMAIN j
  BY DEF Decoded
<1>6. DecodeFilter(j) = IF j = <<>> \/ d[Len(j)] = Nil THEN <<>> ELSE d
  BY DEF DecodeFilter, Decoded
<1>7. Len(e) \in Nat /\ DOMAIN e = 1..Len(e) /\ e \in Seq(Nodes(Nat)) /\ j \in Seq(Objects(Nat))
  BY <1>1 DEF Acyclic, IsJSON
<1> HIDE DEF j, d
<1>8. Acyclic(d) /\ Len(d) = Len(j)
  BY <1>1, <1>4, DecodedExpression DEF d
<1>9. e = <<>> <=> j = <<>>
  BY <1>1, <1>7
<1>10. e # <<>> => d[Len(j)] # Nil
  <2>1. e # <<>> => Len(e) \in DOMAIN e
    BY <1>7
  <2> QED BY <1>1, <1>3, <2>1, PortableNode
<1>11. DecodeFilter(j) = IF e = <<>> THEN <<>> ELSE d
  BY <1>6, <1>9, <1>10
<1>12. \A i \in DOMAIN e : d[i] = Carried(e[i])
  BY <1>3, PortableNode
<1> QED BY <1>1, <1>4, <1>5, <1>8, <1>11, <1>12 DEF d, j

\* A literal that may come back as its text compares as before.
LEMMA CompareVerbatim ==
    ASSUME NEW row \in Rows, NEW col \in DOMAIN Columns, NEW l \in Value, Literal(col, l), NEW op
    PROVE  Compare(row[col], op, Verbatim(Encoded(l))) = Compare(row[col], op, l)
<1> DEFINE v == row[col]
           k == Encoded(l)
           text == Verbatim(k)
<1>1. v.kind \in {Columns[col], "nil"} /\ v \in Value
  BY DEF Rows
<1>2. CASE l.kind = "text"
  <2>1. k = l
    BY <1>2 DEF Encoded
  <2> QED BY <1>2, <2>1, VerbatimText
<1>3. CASE l.kind \in {"number", "long"} /\ Columns[col] = "number"
  <2>1. k \in Value /\ k.kind = "number" /\ k.kind # "long" /\ k.val = l.val
    <3>1. k \in Value
      BY EncodedValue, JsonValues
    <3>2. k.kind = "number" /\ k.val = l.val
      BY <1>3 DEF Encoded, Number
    <3> QED BY <3>1, <3>2
  <2> HIDE DEF k
  <2>2. text.kind = "text" /\ TextNumber[text.val] = l.val
    BY <2>1, VerbatimText
  <2>3. AsNumber(text) = AsNumber(l)
    BY <1>3, <2>2 DEF AsNumber
  <2>4. v.kind # "text" /\ l.kind # "text"
    BY <1>1, <1>3
  <2> HIDE DEF v, text
  <2>5. Compare(v, op, text) = Compare(v, op, l)
    BY <2>3, <2>4 DEF Compare
  <2> QED BY <2>5 DEF v, text, k
<1> QED BY <1>2, <1>3 DEF Literal

\* What comes back of a node of a portable filter has its truth.
LEMMA CarriedTruth ==
    ASSUME NEW e, Acyclic(e), Portable(e), NEW i \in DOMAIN e, NEW row \in Rows, NEW truth
    PROVE  NodeTruth(Carried(e[i]), truth, row) = NodeTruth(e[i], truth, row)
<1> DEFINE node == e[i]
           v == row[node.name]
<1>1. node \in Nodes(1..(i - 1))
  BY Places
<1>2. CASE node.type = "simple"
  <2>1. node.name \in DOMAIN Columns /\ node.val \in Value /\ Literal(node.name, node.val)
    BY <1>1, <1>2 DEF Nodes, Nil, Portable
  <2>2. Compare(v, node.op, Verbatim(Encoded(node.val))) = Compare(v, node.op, node.val)
    BY <2>1, CompareVerbatim
  <2>3. Carried(node) = SimpleExpr(node.name, node.op, Verbatim(Encoded(node.val)))
    BY <1>2 DEF Carried
  <2>4. NodeTruth(Carried(node), truth, row) = Compare(v, node.op, Verbatim(Encoded(node.val)))
    BY <2>3 DEF NodeTruth, SimpleExpr
  <2>5. NodeTruth(node, truth, row) = Compare(v, node.op, node.val)
    BY <1>2 DEF NodeTruth
  <2> QED BY <2>2, <2>4, <2>5
<1>3. CASE node.type = "in"
  <2> DEFINE vals == EncodedAll(node.vals)
  <2>1. node.vals \in Seq(Value)
    BY <1>1, <1>3 DEF Nodes, Nil
  <2>2. DOMAIN vals = DOMAIN node.vals
        /\ \A k \in DOMAIN node.vals : node.vals[k] \in Value /\ vals[k] = Encoded(node.vals[k])
    BY <2>1, EncodedList
  <2> HIDE DEF vals, v
  <2>3. \A k \in DOMAIN node.vals : Compare(v, "=", vals[k]) = Compare(v, "=", node.vals[k])
    BY <2>2, EncodedValue
  <2>4. {Compare(v, "=", vals[k]) : k \in DOMAIN vals}
          = {Compare(v, "=", node.vals[k]) : k \in DOMAIN node.vals}
    BY <2>2, <2>3
  <2>5. NodeTruth(node, truth, row) = Disjoin({Compare(v, "=", node.vals[k]) : k \in DOMAIN node.vals})
    BY <1>3 DEF NodeTruth, v
  <2>6. Carried(node) = In(node.name, vals)
    BY <1>3 DEF Carried, vals
  <2>7. NodeTruth(In(node.name, vals), truth, row) = Disjoin({Compare(v, "=", vals[k]) : k \in DOMAIN vals})
    BY DEF NodeTruth, In, v
  <2> QED BY <2>4, <2>5, <2>6, <2>7
<1>4. CASE node.type = "between"
  <2> DEFINE l == Encoded(node.left)
             h == Encoded(node.right)
  <2>1. node.left \in Value /\ node.right \in Value
    BY <1>1, <1>4 DEF Nodes, Nil
  <2>2. Compare(v, "<", l) = Compare(v, "<", node.left) /\ Compare(v, ">", h) = Compare(v, ">", node.right)
    BY <2>1, EncodedValue
  <2>3. Carried(node) = BetweenExpr(node.name, l, h)
    BY <1>4 DEF Carried
  <2> HIDE DEF l, h
  <2>4. NodeTruth(BetweenExpr(node.name, l, h), truth, row)
          = Conjoin({Negate(Compare(v, "<", l)), Negate(Compare(v, ">", h))})
    BY DEF NodeTruth, BetweenExpr
  <2>5. NodeTruth(node, truth, row)
          = Conjoin({Negate(Compare(v, "<", node.left)), Negate(Compare(v, ">", node.right))})
    BY <1>4 DEF NodeTruth
  <2> QED BY <2>2, <2>3, <2>4, <2>5
<1>5. CASE node.type \notin {"simple", "in", "between"}
  <2>1. Carried(node) = node
    BY <1>5 DEF Carried
  <2> QED BY <2>1
<1> QED BY <1>2, <1>3, <1>4, <1>5

\* Induction: on both sides a node has the same truth.
LEMMA SameTruths ==
    ASSUME NEW e, Acyclic(e), Portable(e), NEW row \in Rows
    PROVE  \A i \in 1..Len(e) : Truths(Decoded(MarshalJSON(e)), row)[i] = Truths(e, row)[i]
<1> DEFINE d == Decoded(MarshalJSON(e))
           t == Truths(e, row)
           u == Truths(d, row)
           Bad == {i \in 1..Len(e) : u[i] # t[i]}
<1>1. SUFFICES ASSUME Bad # {} PROVE FALSE
  OBVIOUS
<1>2. Bad \subseteq Nat /\ Len(e) \in Nat
  BY Places
<1>3. PICK i \in Bad : \A k \in Bad : i <= k
  <2> HIDE DEF Bad
  <2> QED BY <1>1, <1>2, Least
<1>4. i \in 1..Len(e) /\ i \in Nat /\ e[i] \in Nodes(1..(i - 1)) /\ i \in DOMAIN e
  BY Places
<1>5. \A k \in 1..(i - 1) : u[k] = t[k]
  <2> SUFFICES ASSUME NEW k \in 1..(i - 1) PROVE u[k] = t[k]
    OBVIOUS
  <2>1. k \in 1..Len(e) /\ ~(i <= k)
    BY <1>2, <1>4
  <2> QED BY <1>3, <2>1
<1>6. /\ Acyclic(d) /\ Len(d) = Len(e)
      /\ d[i] = Carried(e[i])
  BY <1>4, PortableDecoded
<1>7. t[i] = NodeTruth(e[i], t, row)
  BY <1>4, TruthsValues
<1>8. u[i] = NodeTruth(d[i], u, row)
  <2> HIDE DEF d
  <2> QED BY <1>4, <1>6, TruthsValues
<1>9. u[i] # t[i]
  BY <1>3
<1> HIDE DEF d, t, u, Bad
<1>10. NodeTruth(Carried(e[i]), u, row) = NodeTruth(e[i], u, row)
  BY <1>4, CarriedTruth
<1>11. NodeTruth(e[i], u, row) = NodeTruth(e[i], t, row)
  BY <1>4, <1>5, NodeTruthLocal
<1> QED BY <1>6, <1>7, <1>8, <1>9, <1>10, <1>11

\* ... and the SQL of both is SQL, or that of neither.
LEMMA SameSQL ==
    ASSUME NEW e, Acyclic(e), Portable(e)
    PROVE  Malformed(Decoded(MarshalJSON(e))) <=> Malformed(e)
<1> DEFINE d == Decoded(MarshalJSON(e))
<1>1. DOMAIN d = DOMAIN e
  BY PortableDecoded
<1>2. ASSUME NEW i \in DOMAIN e PROVE NoSQL(d[i]) <=> NoSQL(e[i])
  <2>1. d[i] = Carried(e[i])
    BY PortableDecoded
  <2>2. e[i] \in Nodes(1..(i - 1))
    BY Places
  <2> HIDE DEF d
  <2>3. CASE e[i].type = "simple"
    <3> DEFINE v == Encoded(e[i].val)
    <3>1. e[i].val \in Value
      BY <2>2, <2>3 DEF Nodes, Nil
    <3>2. Literal(e[i].name, e[i].val)
      BY <2>3 DEF Portable
    <3>3. e[i].val # Null
      BY <3>2 DEF Literal, Null
    <3>4. v \in Value /\ v.kind # "long"
      BY <3>1, EncodedValue, JsonValues
    <3> HIDE DEF v
    <3>5. Verbatim(v) # Null
      BY <3>4, VerbatimText DEF Null
    <3>6. ~NoSQL(e[i])
      BY <2>3, <3>3 DEF NoSQL
    <3>7. d[i] = SimpleExpr(e[i].name, e[i].op, Verbatim(v))
      BY <2>1, <2>3 DEF Carried, v
    <3>8. ~NoSQL(d[i])
      BY <3>5, <3>7 DEF NoSQL, SimpleExpr
    <3> QED BY <3>6, <3>8
  <2>4. CASE e[i].type = "in"
    <3> DEFINE vals == EncodedAll(e[i].vals)
    <3>1. e[i].vals \in Seq(Value)
      BY <2>2, <2>4 DEF Nodes, Nil
    <3>2. vals \in Seq(JsonValue) /\ DOMAIN vals = DOMAIN e[i].vals
          /\ \A k \in DOMAIN vals : e[i].vals[k] \in Value /\ vals[k] = Encoded(e[i].vals[k])
      BY <3>1, EncodedList
    <3> HIDE DEF vals
    <3>3. \A k \in DOMAIN vals : vals[k] = Null <=> e[i].vals[k] = Null
      BY <3>2, EncodedValue
    <3>4. vals = <<>> <=> e[i].vals = <<>>
      BY <3>1, <3>2
    <3>5. d[i] = In(e[i].name, vals)
      BY <2>1, <2>4 DEF Carried, vals
    <3>6. NoSQL(d[i]) <=> vals = <<>> \/ \E k \in DOMAIN vals : vals[k] = Null
      BY <3>5 DEF NoSQL, In
    <3>7. NoSQL(e[i]) <=> e[i].vals = <<>> \/ \E k \in DOMAIN e[i].vals : e[i].vals[k] = Null
      BY <2>4 DEF NoSQL
    <3> QED BY <3>2, <3>3, <3>4, <3>6, <3>7
  <2>5. CASE e[i].type = "between"
    <3> DEFINE l == Encoded(e[i].left)
               h == Encoded(e[i].right)
    <3>1. e[i].left \in Value /\ e[i].right \in Value
      BY <2>2, <2>5 DEF Nodes, Nil
    <3>2. (l = Null <=> e[i].left = Null) /\ (h = Null <=> e[i].right = Null)
      BY <3>1, EncodedValue
    <3>3. d[i] = BetweenExpr(e[i].name, l, h)
      BY <2>1, <2>5 DEF Carried
    <3> HIDE DEF l, h
    <3>4. NoSQL(d[i]) <=> Null \in {l, h}
      BY <3>3 DEF NoSQL, BetweenExpr
    <3>5. NoSQL(e[i]) <=> Null \in {e[i].left, e[i].right}
      BY <2>5 DEF NoSQL
    <3> QED BY <3>2, <3>4, <3>5
  <2>6. CASE e[i].type \notin {"simple", "in", "between"}
    BY <2>1, <2>6 DEF Carried
  <2> QED BY <2>3, <2>4, <2>5, <2>6
<1> QED BY <1>1, <1>2 DEF Malformed

\* So it selects the same rows.
LEMMA SameAnswer ==
    ASSUME NEW e, Acyclic(e), Portable(e)
    PROVE  LET f == DecodeFilter(MarshalJSON(e)) IN
           /\ Malformed(f) <=> Malformed(e)
           /\ Selected(f, Rows) = Selected(e, Rows)
<1> DEFINE d == Decoded(MarshalJSON(e))
           f == DecodeFilter(MarshalJSON(e))
<1>1. f = (IF e = <<>> THEN <<>> ELSE d) /\ Len(d) = Len(e) /\ Acyclic(d)
  BY PortableDecoded
<1>2. CASE e = <<>>
  BY <1>1, <1>2
<1>3. CASE e # <<>>
  <2>1. Len(e) \in 1..Len(e)
    BY <1>3 DEF Acyclic
  <2>2. \A row \in Rows : Truth(d, row) = Truth(e, row)
    BY <1>1, <2>1, SameTruths DEF Truth
  <2>3. d # <<>>
    <3> HIDE DEF d
    <3> QED BY <1>1, <2>1
  <2>4. Malformed(d) <=> Malformed(e)
    BY SameSQL
  <2> HIDE DEF d, f
  <2>5. Selected(d, Rows) = {row \in Rows : Truth(d, row) = "true"}
    BY <2>3 DEF Selected
  <2>6. Selected(e, Rows) = {row \in Rows : Truth(e, row) = "true"}
    BY <1>3 DEF Selected
  <2>7. Selected(d, Rows) = Selected(e, Rows)
    BY <2>2, <2>5, <2>6
  <2> QED BY <1>1, <1>3, <2>4, <2>7 DEF f
<1> QED BY <1>2, <1>3

-----------------------------------------------------------------------------
(* Queries and parameters.                                                  *)

IsQuery(q) ==
    /\ Acyclic(q.filter) /\ q.orders \in Orders
    /\ q.offset \in 0..(2 * Half - 1)
    /\ q.size \in Int /\ IsInt(q.size)

\* A list of orders, and a list of what stands for them in a request.
LEMMA OrderParts ==
    ASSUME NEW R, NEW orders \in Seq(R)
    PROVE  /\ Len(orders) \in Nat /\ DOMAIN orders = 1..Len(orders)
           /\ \A k \in DOMAIN orders : orders[k] \in R
           /\ orders = [k \in DOMAIN orders |-> orders[k]]
OBVIOUS

LEMMA MappedSeq ==
    ASSUME NEW S, NEW n \in Nat, NEW s, s \in [1..n -> S]
    PROVE  s \in Seq(S)
OBVIOUS

\* Orders survive the way through a parameter.
LEMMA OrdersReturn ==
    ASSUME NEW orders \in Orders
    PROVE  UnmarshalOrders(MarshalOrders(orders)) = orders
<1> DEFINE back(k) == [name |-> orders[k].name, asc |-> Ascending(Direction(orders[k].asc))]
           R == [name : DOMAIN Columns, asc : BOOLEAN]
<1>1. Ascending("asc") = TRUE /\ Ascending("desc") = FALSE
  BY DEF Ascending
<1>2. /\ \A k \in DOMAIN orders : orders[k] \in R
      /\ orders = [k \in DOMAIN orders |-> orders[k]]
  <2>1. orders \in Seq(R)
    BY DEF Orders
  <2> HIDE DEF R
  <2> QED BY <2>1, OrderParts
<1>3. ASSUME NEW k \in DOMAIN orders PROVE orders[k] = back(k)
  <2>1. orders[k] \in R
    BY <1>2
  <2>2. CASE orders[k].asc = TRUE
    <3>1. Ascending(Direction(orders[k].asc)) = TRUE
      BY <1>1, <2>2 DEF Direction
    <3> QED BY <2>1, <2>2, <3>1
  <2>3. CASE orders[k].asc = FALSE
    <3>1. Ascending(Direction(orders[k].asc)) = FALSE
      BY <1>1, <2>3 DEF Direction
    <3> QED BY <2>1, <2>3, <3>1
  <2> QED BY <2>1, <2>2, <2>3
<1>4. UnmarshalOrders(MarshalOrders(orders)) = [k \in DOMAIN orders |-> back(k)]
  BY DEF UnmarshalOrders, MarshalOrders
<1> HIDE DEF back
<1> QED BY <1>2, <1>3, <1>4

\* What is read of a parameter is a list of orders.
LEMMA OrdersRead ==
    ASSUME NEW orders \in Seq([name : DOMAIN Columns, dir : Directions])
    PROVE  UnmarshalOrders(orders) \in Orders
<1> DEFINE n == Len(orders)
           R == [name : DOMAIN Columns, dir : Directions]
           S == [name : DOMAIN Columns, asc : BOOLEAN]
           order(k) == [name |-> orders[k].name, asc |-> Ascending(orders[k].dir)]
<1>1. n \in Nat /\ DOMAIN orders = 1..n /\ \A k \in 1..n : orders[k] \in R
  <2>1. orders \in Seq(R)
    OBVIOUS
  <2> HIDE DEF R
  <2> QED BY <2>1, OrderParts
<1>2. ASSUME NEW k \in 1..n PROVE order(k) \in S
  <2>1. orders[k].name \in DOMAIN Columns
    BY <1>1
  <2>2. Ascending(orders[k].dir) \in BOOLEAN
    BY DEF Ascending
  <2> QED BY <2>1, <2>2
<1>3. UnmarshalOrders(orders) = [k \in 1..n |-> order(k)]
  BY <1>1 DEF UnmarshalOrders
<1> HIDE DEF n, S, order
<1>4. UnmarshalOrders(orders) \in [1..n -> S]
  BY <1>2, <1>3
<1>5. UnmarshalOrders(orders) \in Seq(S)
  BY <1>1, <1>4, MappedSeq
<1> QED BY <1>5 DEF Orders, S

LEMMA OrdersWritten ==
    ASSUME NEW orders \in Orders
    PROVE  MarshalOrders(orders) \in Seq([name : DOMAIN Columns, dir : Directions])
<1> DEFINE n == Len(orders)
           R == [name : DOMAIN Columns, asc : BOOLEAN]
           S == [name : DOMAIN Columns, dir : Directions]
           order(k) == [name |-> orders[k].name, dir |-> Direction(orders[k].asc)]
<1>1. n \in Nat /\ DOMAIN orders = 1..n /\ \A k \in 1..n : orders[k] \in R
  <2>1. orders \in Seq(R)
    BY DEF Orders
  <2> HIDE DEF R
  <2> QED BY <2>1, OrderParts
<1>2. ASSUME NEW k \in 1..n PROVE order(k) \in S
  <2>1. orders[k].name \in DOMAIN Columns
    BY <1>1
  <2>2. Direction(orders[k].asc) \in Directions
    BY DEF Direction, Directions
  <2> QED BY <2>1, <2>2
<1>3. MarshalOrders(orders) = [k \in 1..n |-> order(k)]
  BY <1>1 DEF MarshalOrders
<1> HIDE DEF n, S, order
<1>4. MarshalOrders(orders) \in [1..n -> S]
  BY <1>2, <1>3
<1>5. MarshalOrders(orders) \in Seq(S)
  BY <1>1, <1>4, MappedSeq
<1> QED BY <1>5 DEF S

\* What the encoders write as a filter is JSON.
LEMMA IsNotBroken ==
    ASSUME NEW j, IsJSON(j)
    PROVE  j # NotJSON
<1>1. SUFFICES ASSUME j = NotJSON PROVE FALSE
  OBVIOUS
<1>2. 1 \in DOMAIN j /\ j[1].key = "broken"
  BY <1>1 DEF NotJSON
<1>3. j[1] \in Objects(1..0)
  BY <1>2 DEF IsJSON
<1> QED BY <1>2, <1>3 DEF Objects, JsonNull, Unknown

\* The offset is a uint64 on one side and an int on the other.
LEMMA Conversions ==
    /\ \A i \in Int : IsInt(i) => Unsigned(i) \in 0..(2 * Half - 1) /\ Signed(Unsigned(i)) = i
    /\ \A u \in 0..(2 * Half - 1) : /\ Signed(u) \in Int /\ IsInt(Signed(u))
                                    /\ Unsigned(Signed(u)) = u
                                    /\ u <= MaxInt => IsInt(u) /\ Unsigned(u) = u
BY QueryCodecAssumption DEF IsInt, Unsigned, Signed, MaxInt

\* A query that is portable, and whose offset the encoder writes as an int, is
\* read, and lists on the other side what it would list on this one.
LEMMA ArrivesWhole ==
    ASSUME NEW q, IsQuery(q), Portable(q.filter), NEW offset \in Int, IsInt(offset), Unsigned(offset) = q.offset
    PROVE  LET p == ParamsOf(q, offset) IN
           Readable(p) /\ ~DecoderPanics(p) /\ Answered(FromParams(p)) = Answered(q)
<1> DEFINE p == ParamsOf(q, offset)
           r == FromParams(p)
           f == DecodeFilter(MarshalJSON(q.filter))
<1>1. PageOf(p) = [offset |-> offset, size |-> q.size]
  BY DEF PageOf, ParamsOf
<1>2. p.filter = MarshalJSON(q.filter) /\ p.orders = MarshalOrders(q.orders)
  BY DEF ParamsOf
<1>3. Readable(p)
  <2>1. p.filter # NotJSON
    BY <1>2, MarshalledJSON, IsNotBroken DEF IsQuery
  <2> QED BY <1>1, <2>1 DEF Readable, IsQuery
<1>4. ~DecoderPanics(p)
  BY <1>2, PortableDecoded DEF DecoderPanics, IsQuery
<1>5. r = [filter |-> f, orders |-> q.orders, offset |-> q.offset, size |-> q.size]
  BY <1>1, <1>2, OrdersReturn DEF FromParams, IsQuery
<1>6. (Malformed(f) <=> Malformed(q.filter)) /\ Selected(f, Rows) = Selected(q.filter, Rows)
  BY SameAnswer DEF IsQuery
<1> HIDE DEF p, r, f
<1>7. Answered(r) = Answered(q)
  BY <1>5, <1>6 DEF Answered, Succeeded
<1> QED BY <1>3, <1>4, <1>7 DEF p, r

\* A printable filter is read as one: its root is known.
LEMMA PrintableKept ==
    ASSUME NEW e, Acyclic(e), Printable(e), e # <<>>
    PROVE  DecodeFilter(MarshalJSON(e)) # <<>>
<1> DEFINE j == MarshalJSON(e)
           d == Decoded(j)
           n == Len(e)
<1>1. n \in DOMAIN e /\ n \in Nat
  BY DEF Acyclic
<1>2. IsJSON(j) /\ Len(j) = n /\ DOMAIN j = DOMAIN e
  BY MarshalledJSON
<1>3. d[n] = Returned(e[n], e)
  BY <1>1, <1>2, RoundTrip DEF Decoded
<1>4. e[n] \in Nodes(1..(n - 1)) /\ DOMAIN e = 1..n
  BY <1>1, Places
<1>5. Returned(e[n], e) # Nil
  <2>1. e[n] # Nil /\ Nil # Crash
    BY <1>1 DEF Printable, Nil, Crash
  <2>2. CASE e[n].type = "not"
    <3>1. e[n].sub \in DOMAIN e
      BY <1>1, <1>4, <2>2 DEF Nodes, Nil
    <3>2. e[e[n].sub] # Nil
      BY <3>1 DEF Printable
    <3> QED BY <2>1, <2>2, <3>2 DEF Returned, Carried
  <2>3. CASE e[n].type # "not"
    <3>1. Carried(e[n]).type = e[n].type /\ e[n].type # "nil"
      BY <1>4, <2>1 DEF Carried, SimpleExpr, In, BetweenExpr, Nodes, Nil
    <3>2. Carried(e[n]) # Nil
      BY <3>1 DEF Nil
    <3>3. Returned(e[n], e) \in {Crash, Carried(e[n]), e[n]}
      BY <2>3 DEF Returned
    <3> QED BY <2>1, <3>2, <3>3
  <2> QED BY <2>2, <2>3
<1>6. DecodeFilter(j) = IF j = <<>> \/ d[Len(j)] = Nil THEN <<>> ELSE d
  BY DEF DecodeFilter, Decoded
<1>7. DOMAIN d = DOMAIN j
  BY DEF Decoded
<1> HIDE DEF j, d, n
<1>8. j # <<>> /\ d # <<>>
  BY <1>1, <1>2, <1>7
<1> QED BY <1>2, <1>3, <1>5, <1>6, <1>8 DEF j

\* A filter that the service has read is read the same a second time.
LEMMA PlainReturns ==
    ASSUME NEW e, Acyclic(e), Printable(e), \A i \in DOMAIN e : Plain(e[i])
    PROVE  DecodeFilter(MarshalJSON(e)) = e
<1> DEFINE j == MarshalJSON(e)
           d == Decoded(j)
<1>1. IsJSON(j) /\ Len(j) = Len(e) /\ DOMAIN j = DOMAIN e
  BY MarshalledJSON
<1>2. ASSUME NEW i \in DOMAIN e PROVE d[i] = e[i]
  <2>1. d[i] = Returned(e[i], e)
    BY <1>1, RoundTrip DEF Decoded
  <2>2. i \in Nat /\ e[i] \in Nodes(1..(i - 1)) /\ DOMAIN e = 1..Len(e) /\ Len(e) \in Nat
    BY Places
  <2>3. Plain(e[i]) /\ \A k \in 1..(i - 1) : e[k] # Nil
    BY <2>2 DEF Printable
  <2>4. CASE e[i].type = "simple"
    <3>1. e[i] \in [type : {"simple"}, name : DOMAIN Columns, op : Comparisons, val : Value]
      BY <2>2, <2>4 DEF Nodes, Nil
    <3>2. Encoded(e[i].val) = e[i].val /\ Verbatim(e[i].val) = e[i].val
      BY <2>3, <2>4, <3>1, EncodedValue, JsonValues, VerbatimText DEF Plain
    <3>3. Returned(e[i], e) = SimpleExpr(e[i].name, e[i].op, e[i].val)
      BY <2>4, <3>2 DEF Returned, Carried
    <3> QED BY <2>1, <3>1, <3>3 DEF SimpleExpr
  <2>5. CASE e[i].type = "not"
    <3>1. e[i].sub \in 1..(i - 1)
      BY <2>2, <2>5 DEF Nodes, Nil
    <3> QED BY <2>1, <2>3, <2>5, <3>1 DEF Returned, Carried
  <2>6. CASE e[i].type = "junction"
    <3>1. \A k \in DOMAIN e[i].subs : e[i].subs[k] \in 1..(i - 1)
      BY <2>2, <2>6, JunctionOperands
    <3> QED BY <2>1, <2>3, <2>6, <3>1 DEF Returned, Plain
  <2>7. CASE e[i].type = "in"
    <3>1. e[i] \in [type : {"in"}, name : DOMAIN Columns, vals : Seq(Value), nilSlice : BOOLEAN]
      BY <2>2, <2>7 DEF Nodes, Nil
    <3>2. e[i].vals \in Seq(JsonValue) /\ ~e[i].nilSlice
      BY <2>3, <2>7 DEF Plain
    <3>3. EncodedAll(e[i].vals) = e[i].vals
      BY <3>1, <3>2, EncodedList
    <3>4. Returned(e[i], e) = In(e[i].name, e[i].vals)
      BY <2>7, <3>2, <3>3 DEF Returned, Carried
    <3> QED BY <2>1, <3>1, <3>2, <3>4 DEF In
  <2>8. CASE e[i].type = "between"
    <3>1. e[i] \in [type : {"between"}, name : DOMAIN Columns, left : Value, right : Value]
      BY <2>2, <2>8 DEF Nodes, Nil
    <3>2. Encoded(e[i].left) = e[i].left /\ Encoded(e[i].right) = e[i].right
      BY <2>3, <2>8, <3>1, EncodedValue DEF Plain
    <3>3. Returned(e[i], e) = BetweenExpr(e[i].name, e[i].left, e[i].right)
      BY <2>8, <3>2 DEF Returned, Carried
    <3> QED BY <2>1, <3>1, <3>3 DEF BetweenExpr
  <2>9. CASE e[i].type \notin {"simple", "not", "junction", "in", "between"}
    BY <2>1, <2>9 DEF Returned, Carried
  <2> QED BY <2>4, <2>5, <2>6, <2>7, <2>8, <2>9
<1>3. DecodeFilter(j) = IF j = <<>> \/ d[Len(j)] = Nil THEN <<>> ELSE d
  BY DEF DecodeFilter, Decoded
<1>4. DOMAIN d = DOMAIN j /\ d = [i \in DOMAIN d |-> d[i]]
  BY DEF Decoded
<1>5. e \in Seq(Nodes(Nat)) /\ j \in Seq(Objects(Nat))
  BY <1>1 DEF Acyclic, IsJSON
<1> HIDE DEF d, j
<1>6. d = e
  BY <1>1, <1>2, <1>4, <1>5
<1>7. CASE e = <<>>
  <2>1. j = <<>>
    BY <1>1, <1>5, <1>7
  <2> QED BY <1>3, <1>7, <2>1 DEF j
<1>8. CASE e # <<>>
  <2>1. Len(e) \in DOMAIN e
    BY <1>5, <1>8
  <2>2. j # <<>> /\ d[Len(j)] # Nil
    BY <1>1, <1>2, <1>5, <1>8, <2>1 DEF Printable
  <2> QED BY <1>3, <1>6, <2>2 DEF j
<1> QED BY <1>7, <1>8

\* Parameters that the service can read.
IsParams(p) == p \in ListItemsParams /\ (p.filter = NotJSON \/ IsJSON(p.filter))

\* What has been read of them, encoded once more, is read the same.
LEMMA SecondReading ==
    ASSUME NEW p, IsParams(p), Readable(p), ~DecoderPanics(p), Printable(FromParams(p).filter)
    PROVE  FromParams(ToParams(FromParams(p))) = FromParams(p)
<1> DEFINE r == FromParams(p)
           pp == ToParams(r)
<1>1. p.orders \in Seq([name : DOMAIN Columns, dir : Directions]) /\ p.offset \in Seq(Int) /\ IsJSON(p.filter)
  BY DEF IsParams, ListItemsParams, Readable
<1>2. PageOf(p).offset \in Int /\ IsInt(PageOf(p).offset)
  <2>1. PageOf(p).offset \in Int
    BY <1>1 DEF PageOf
  <2> QED BY <2>1 DEF Readable
<1>3. r.filter = DecodeFilter(p.filter) /\ r.orders = UnmarshalOrders(p.orders)
      /\ r.offset = Unsigned(PageOf(p).offset) /\ r.size = PageOf(p).size
      /\ r = [filter |-> r.filter, orders |-> r.orders, offset |-> r.offset, size |-> r.size]
  BY DEF FromParams
<1>4. r.orders \in Orders
  BY <1>1, <1>3, OrdersRead
<1>5. Acyclic(r.filter) /\ \A i \in DOMAIN r.filter : Plain(r.filter[i])
  <2> DEFINE d == Decoded(p.filter)
  <2>1. r.filter = <<>> \/ r.filter = d
    BY <1>3 DEF DecodeFilter, Decoded
  <2>2. Acyclic(d) /\ \A i \in DOMAIN d : Plain(d[i])
    BY <1>1, DecodedExpression DEF DecoderPanics
  <2>3. Acyclic(<<>>)
    BY DEF Acyclic
  <2> HIDE DEF d, r
  <2> QED BY <2>1, <2>2, <2>3
<1>6. Printable(r.filter)
  OBVIOUS
<1> HIDE DEF r
<1>7. DecodeFilter(MarshalJSON(r.filter)) = r.filter
  BY <1>5, <1>6, PlainReturns
<1>8. UnmarshalOrders(MarshalOrders(r.orders)) = r.orders
  BY <1>4, OrdersReturn
<1>9. pp.filter = MarshalJSON(r.filter) /\ pp.orders = MarshalOrders(r.orders)
      /\ PageOf(pp) = [offset |-> Signed(r.offset), size |-> r.size]
  BY DEF ToParams, ParamsOf, PageOf
<1>10. Unsigned(Signed(r.offset)) = r.offset
  BY <1>2, <1>3, Conversions
<1> HIDE DEF pp
<1>11. FromParams(pp) = [filter |-> r.filter, orders |-> r.orders, offset |-> r.offset, size |-> r.size]
  BY <1>7, <1>8, <1>9, <1>10 DEF FromParams
<1> QED BY <1>3, <1>11 DEF pp, r

-----------------------------------------------------------------------------
(* The invariant and the theorems.                                          *)

\* What is on its way is what the route makes of the query, or what another
\* client has written.
SentInv ==
    stage \in {"sent", "received"} =>
       /\ IsParams(params)
       /\ route \in Remote => params = IF route = "ToParams" THEN ToParams(query)
                                                             ELSE EncodeRequest(query)
       /\ route = "ToParams" => Printable(query.filter)
       /\ route # "memory"

\* What the handler works on is what it could read of that.
ReceivedInv ==
    stage = "received" =>
       Readable(params) /\ ~DecoderPanics(params) /\ received = FromParams(params)

CodecInv ==
    /\ IsQuery(query)
    /\ SentInv
    /\ ReceivedInv
    /\ RemoteMeansLocal
    /\ FilterKept
    /\ InMemoryAgrees

\* What a caller builds is a query.
LEMMA DefaultIsQuery == IsQuery(DefaultQuery)
<1>1. Acyclic(<<>>)
  BY DEF Acyclic
<1>2. <<>> \in Orders
  BY DEF Orders
<1>3. DefaultPageSize \in Int /\ IsInt(DefaultPageSize)
  BY QueryCodecAssumption DEF DefaultPageSize, MaxInt, IsInt
<1> QED BY <1>1, <1>2, <1>3, QueryCodecAssumption DEF IsQuery, DefaultQuery

LEMMA BuiltIsQuery ==
    ASSUME Build
    PROVE  IsQuery(query')
<1>1. PICK f \in Expressions, o \in OrderLists, i \in Offsets, s \in Sizes :
         query' = [filter |-> f, orders |-> o, offset |-> Unsigned(i), size |-> s]
  BY DEF Build
<1>2. Acyclic(f) /\ o \in Orders /\ i \in Int /\ IsInt(i) /\ s \in Int /\ IsInt(s)
  BY QueryCodecAssumption DEF IsExpression
<1>3. Unsigned(i) \in 0..(2 * Half - 1)
  BY <1>2, Conversions
<1> QED BY <1>1, <1>2, <1>3 DEF IsQuery

\* Both encoders write parameters.
LEMMA EncodedIsParams ==
    ASSUME NEW q, IsQuery(q), NEW offset \in Int
    PROVE  IsParams(ParamsOf(q, offset))
<1> DEFINE p == ParamsOf(q, offset)
<1>1. p.offset = <<offset>> /\ p.size = <<q.size>> /\ q.size \in Int
  BY DEF ParamsOf, IsQuery
<1>2. p.offset \in Seq(Int) /\ p.size \in Seq(Int)
  <2> HIDE DEF p
  <2> QED BY <1>1
<1>3. p.orders \in Seq([name : DOMAIN Columns, dir : Directions])
  BY OrdersWritten DEF ParamsOf, IsQuery
<1>4. p.filter = MarshalJSON(q.filter) /\ IsJSON(p.filter)
  BY MarshalledJSON DEF ParamsOf, IsQuery
<1>5. p = [offset |-> p.offset, size |-> p.size, orders |-> p.orders, filter |-> p.filter]
  BY DEF ParamsOf
<1> HIDE DEF p
<1>6. p.filter \in Seq(Objects(Nat))
  BY <1>4 DEF IsJSON
<1>7. p \in ListItemsParams
  BY <1>2, <1>3, <1>5, <1>6 DEF ListItemsParams
<1> QED BY <1>4, <1>7 DEF IsParams, p

LEMMA CodecInit ==
    ASSUME Init
    PROVE  CodecInv
BY DefaultIsQuery DEF Init, CodecInv, SentInv, ReceivedInv, RemoteMeansLocal, FilterKept, InMemoryAgrees

\* The caller gives the query to the encoder, or its text has panicked.
LEMMA SendStep ==
    ASSUME CodecInv, Send
    PROVE  CodecInv'
<1>1. IsQuery(query)'
  BY DEF CodecInv, Send, IsQuery
<1>2. CASE ~Printable(query.filter)
  <2>1. stage' = "answered" /\ route' = "ToParams" /\ query' = query /\ answer' = Failed(Panicked)
    BY <1>2 DEF Send
  <2>2. answer'.status = Panicked /\ Panicked # 200
    BY <2>1 DEF Failed, Panicked
  <2>3. ~Portable(query.filter)
    BY <1>2 DEF Portable, Printable, Nil
  <2>4. RemoteMeansLocal'
    BY <2>1, <2>3 DEF RemoteMeansLocal
  <2>5. FilterKept'
    BY <2>2 DEF FilterKept
  <2>6. InMemoryAgrees'
    BY <2>1 DEF InMemoryAgrees
  <2> QED BY <1>1, <2>1, <2>4, <2>5, <2>6 DEF CodecInv, SentInv, ReceivedInv
<1>3. CASE Printable(query.filter)
  <2>1. stage' = "sent" /\ route' = "ToParams" /\ query' = query /\ params' = ToParams(query)
    BY <1>3 DEF Send
  <2>2. Signed(query.offset) \in Int
    BY Conversions DEF CodecInv, IsQuery
  <2>3. IsParams(ToParams(query))
    BY <2>2, EncodedIsParams DEF CodecInv, ToParams
  <2>4. SentInv'
    BY <1>3, <2>1, <2>3 DEF SentInv, IsParams
  <2> QED BY <1>1, <2>1, <2>4 DEF CodecInv, ReceivedInv, RemoteMeansLocal, FilterKept, InMemoryAgrees
<1> QED BY <1>2, <1>3

LEMMA SendRequestStep ==
    ASSUME CodecInv, SendRequest
    PROVE  CodecInv'
<1>1. IsQuery(query)'
  BY DEF CodecInv, SendRequest, IsQuery
<1>2. stage' = "sent" /\ route' = "EncodeRequest" /\ query' = query /\ params' = EncodeRequest(query)
  BY DEF SendRequest
<1>3. IsParams(EncodeRequest(query))
  BY EncodedIsParams DEF CodecInv, IsQuery, EncodeRequest
<1>4. SentInv'
  BY <1>2, <1>3 DEF SentInv, IsParams
<1> QED BY <1>1, <1>2, <1>4 DEF CodecInv, ReceivedInv, RemoteMeansLocal, FilterKept, InMemoryAgrees

LEMMA SendForeignStep ==
    ASSUME CodecInv, SendForeign
    PROVE  CodecInv'
<1>1. IsQuery(query)'
  BY DEF CodecInv, SendForeign, IsQuery
<1>2. stage' = "sent" /\ route' = "foreign" /\ params' \in Foreign
  BY DEF SendForeign
<1>3. IsParams(params')
  BY <1>2, QueryCodecAssumption DEF IsParams
<1>4. SentInv'
  BY <1>2, <1>3 DEF SentInv, IsParams, Remote
<1> QED BY <1>1, <1>2, <1>4 DEF CodecInv, ReceivedInv, RemoteMeansLocal, FilterKept, InMemoryAgrees

LEMMA ListInMemoryStep ==
    ASSUME CodecInv, ListInMemory
    PROVE  CodecInv'
<1> DEFINE f == query.filter
           verdict == [row \in Rows |-> FilterExpressionAsPredicate(f, row)]
<1>1. IsQuery(query)'
  BY DEF CodecInv, ListInMemory, IsQuery
<1>2. stage' = "answered" /\ route' = "memory" /\ query' = query
  BY DEF ListInMemory
<1>3. answer' = IF \E row \in Rows : verdict[row] = "panic"
                THEN Failed(Panicked)
                ELSE Succeeded({row \in Rows : verdict[row] = "match"}, query)
  BY DEF ListInMemory
<1>4. ASSUME answer'.status = 200, ExactLiterals(f), ~Malformed(f)
      PROVE  answer'.list.matching \cap Filled = Selected(f, Filled)
  <2>1. ~\E row \in Rows : verdict[row] = "panic"
    BY <1>3, <1>4 DEF Failed, Panicked
  <2>2. \A row \in Rows : FilterExpressionAsPredicate(f, row) # "panic"
    BY <2>1
  <2>3. answer'.list.matching = {row \in Rows : verdict[row] = "match"}
    BY <1>3, <2>1 DEF Succeeded
  <2>4. {row \in Rows : verdict[row] = "match"}
          = {row \in Rows : FilterExpressionAsPredicate(f, row) = "match"}
    OBVIOUS
  <2> HIDE DEF verdict
  <2>5. Acyclic(f)
    BY DEF CodecInv, IsQuery
  <2> HIDE DEF f
  <2> QED BY <1>4, <2>2, <2>3, <2>4, <2>5, InMemorySelects
<1>5. InMemoryAgrees'
  BY <1>2, <1>4 DEF InMemoryAgrees
<1> QED BY <1>1, <1>2, <1>5 DEF CodecInv, SentInv, ReceivedInv, RemoteMeansLocal, FilterKept, Remote

\* What a route has written, with an offset that is an int, is read.
LEMMA RemoteArrives ==
    ASSUME CodecInv, stage \in {"sent", "received"}, route \in Remote,
           Portable(query.filter), query.offset <= MaxInt
    PROVE  /\ Readable(params) /\ ~DecoderPanics(params)
           /\ Answered(FromParams(params)) = Answered(query)
<1>1. IsQuery(query) /\ query.offset \in 0..(2 * Half - 1)
  BY DEF CodecInv, IsQuery
<1>2. PICK offset \in Int : /\ params = ParamsOf(query, offset)
                            /\ IsInt(offset) /\ Unsigned(offset) = query.offset
  <2>1. CASE route = "ToParams"
    <3>1. params = ParamsOf(query, Signed(query.offset))
      BY <2>1 DEF CodecInv, SentInv, Remote, ToParams
    <3> QED BY <1>1, <3>1, Conversions
  <2>2. CASE route = "EncodeRequest"
    <3>1. params = ParamsOf(query, query.offset)
      BY <2>2 DEF CodecInv, SentInv, Remote, EncodeRequest
    <3>2. query.offset \in Int
      BY <1>1, QueryCodecAssumption
    <3> QED BY <1>1, <3>1, <3>2, Conversions
  <2> QED BY <2>1, <2>2 DEF Remote
<1> QED BY <1>1, <1>2, ArrivesWhole

LEMMA ReceiveStep ==
    ASSUME CodecInv, Receive
    PROVE  CodecInv'
<1>1. IsQuery(query)'
  BY DEF CodecInv, Receive, IsQuery
<1>2. stage = "sent" /\ route' = route /\ query' = query /\ params' = params
  BY DEF Receive
<1>3. CASE ~Readable(params) \/ DecoderPanics(params)
  <2>1. stage' = "answered" /\ answer'.status \in {400, Dropped}
    BY <1>3 DEF Receive, Failed
  <2>2. answer'.status # 200
    BY <2>1 DEF Dropped
  <2>3. RemoteMeansLocal'
    BY <1>2, <1>3, RemoteArrives DEF RemoteMeansLocal
  <2>4. FilterKept' /\ InMemoryAgrees'
    BY <2>2 DEF FilterKept, InMemoryAgrees
  <2> QED BY <1>1, <2>1, <2>3, <2>4 DEF CodecInv, SentInv, ReceivedInv
<1>4. CASE Readable(params) /\ ~DecoderPanics(params)
  <2>1. stage' = "received" /\ received' = FromParams(params)
    BY <1>4 DEF Receive
  <2>2. SentInv'
    BY <1>2, <2>1 DEF CodecInv, SentInv
  <2>3. ReceivedInv'
    BY <1>2, <1>4, <2>1 DEF ReceivedInv, Readable, DecoderPanics
  <2> QED BY <1>1, <2>1, <2>2, <2>3 DEF CodecInv, RemoteMeansLocal, FilterKept, InMemoryAgrees
<1> QED BY <1>3, <1>4

LEMMA ListItemsStep ==
    ASSUME CodecInv, ListItems
    PROVE  CodecInv'
<1>1. IsQuery(query)'
  BY DEF CodecInv, ListItems, IsQuery
<1>2. /\ stage = "received" /\ stage' = "answered" /\ answer' = Answered(received)
      /\ route' = route /\ query' = query /\ received' = received /\ route # "memory"
  BY DEF ListItems, CodecInv, SentInv
<1>3. received = FromParams(params)
  BY <1>2 DEF CodecInv, ReceivedInv
<1>4. RemoteMeansLocal'
  <2> SUFFICES ASSUME route \in Remote, Portable(query.filter), query.offset <= MaxInt
               PROVE  Answered(received) = Answered(query)
    BY <1>2 DEF RemoteMeansLocal
  <2> QED BY <1>2, <1>3, RemoteArrives
<1>5. FilterKept'
  <2> SUFFICES ASSUME route \in Remote, query.filter # <<>>,
                      route = "EncodeRequest" => Printable(query.filter)
               PROVE  received.filter # <<>>
    BY <1>2 DEF FilterKept
  <2>1. params.filter = MarshalJSON(query.filter)
    BY <1>2 DEF CodecInv, SentInv, ToParams, EncodeRequest, ParamsOf
  <2>2. Printable(query.filter) /\ Acyclic(query.filter)
    BY <1>2 DEF CodecInv, SentInv, Remote, IsQuery
  <2>3. received.filter = DecodeFilter(MarshalJSON(query.filter))
    BY <1>3, <2>1 DEF FromParams
  <2> QED BY <2>2, <2>3, PrintableKept
<1>6. InMemoryAgrees'
  BY <1>2 DEF InMemoryAgrees
<1> QED BY <1>1, <1>2, <1>4, <1>5, <1>6 DEF CodecInv, SentInv, ReceivedInv

LEMMA CodecStep ==
    ASSUME CodecInv, [Next]_vars
    PROVE  CodecInv'
<1>1. CASE Build
  <2>1. IsQuery(query)' /\ stage' = "built"
    BY <1>1, BuiltIsQuery DEF Build, IsQuery
  <2> QED BY <2>1 DEF CodecInv, SentInv, ReceivedInv, RemoteMeansLocal, FilterKept, InMemoryAgrees
<1>2. CASE Forget
  <2>1. query' = DefaultQuery /\ stage' = "idle"
    BY <1>2 DEF Forget
  <2>2. IsQuery(query)'
    BY <2>1, DefaultIsQuery DEF IsQuery
  <2> QED BY <2>1, <2>2 DEF CodecInv, SentInv, ReceivedInv, RemoteMeansLocal, FilterKept, InMemoryAgrees
<1>3. CASE UNCHANGED vars
  BY <1>3 DEF vars, CodecInv, IsQuery, SentInv, ReceivedInv, IsParams, Readable, DecoderPanics,
              RemoteMeansLocal, FilterKept, InMemoryAgrees
<1> QED BY <1>1, <1>2, <1>3, SendStep, SendRequestStep, SendForeignStep, ListInMemoryStep,
           ReceiveStep, ListItemsStep DEF Next

LEMMA Codec == Spec => []CodecInv
<1>1. Init => CodecInv
  BY CodecInit
<1>2. CodecInv /\ [Next]_vars => CodecInv'
  BY CodecStep
<1> QED BY <1>1, <1>2, PTL DEF Spec

\* A query that the codec can carry lists at the service, sent by either encoder,
\* what its own SQL would list: ToParams and EncodeRequest, the JSON of the
\* filters, FromParams and the decoder together change nothing of its meaning.
THEOREM RemoteIsLocal == Spec => []RemoteMeansLocal
<1>1. CodecInv => RemoteMeansLocal
  BY DEF CodecInv
<1> QED BY <1>1, Codec, PTL

\* decodeExprFromMap answers nil for what it does not know; of what the client
\* sends it knows every root, so no list is unfiltered by mistake.
THEOREM FilterIsKept == Spec => []FilterKept
<1>1. CodecInv => FilterKept
  BY DEF CodecInv
<1> QED BY <1>1, Codec, PTL

\* On literals for which cmp.Equal and the collation agree (ExactLiterals), the
\* predicates of the in-memory client, with their own evaluation order and two
\* truth values, find the rows without NULLs that MySQL finds for the SQL of the
\* same filter.  On other literals they may differ, 'Bob' and 'bob' for one.
THEOREM InMemoryIsSQL == Spec => []InMemoryAgrees
<1>1. CodecInv => InMemoryAgrees
  BY DEF CodecInv
<1> QED BY <1>1, Codec, PTL

\* FromParams undoes ToParams on whatever FromParams has made: of any request,
\* of any client.
THEOREM ReencodingStable == Spec => []ReencodingIsStable
<1>1. CodecInv => ReencodingIsStable
  BY SecondReading DEF CodecInv, SentInv, ReceivedInv, ReencodingIsStable
<1> QED BY <1>1, Codec, PTL
=============================================================================
