----------------------------- MODULE ItemStore ------------------------------
(***************************************************************************)
(* What the item API promises, apart from how it is done: every request    *)
(* takes effect at most once, at one instant between its arrival and its   *)
(* answer, as a whole, and in the way openapi.yaml describes its kind; and *)
(* a request that writes is answered with success only after its effect.   *)
(***************************************************************************)
EXTENDS Requests

CONSTANT Slots          \* the concurrent requests

VARIABLES
    items,              \* the committed rows
    call,               \* call[r]: the request being served by r
    phase               \* phase[r]: how far it is

vars == <<items, call, phase>>

Phases == {"idle", "open", "applied", "done", "failed"}

-----------------------------------------------------------------------------
(* The effects: t is the table before, u the table after.                  *)

\* Object k of the batch ends up under key f[k]; a later object with the same
\* key wins; no other row is touched.
Placed(objs, f, t, u) ==
    /\ \A k \in DOMAIN objs : objs[k].id \in {Absent, f[k]}
    /\ \A i \in Ids : u[i] = t[i] \/ \E k \in DOMAIN objs : f[k] = i
    /\ \A k \in DOMAIN objs :
          (\A l \in DOMAIN objs : l > k => f[l] # f[k])
             => u[f[k]] # NoRow /\ u[f[k]].val = objs[k].val

\* Every object becomes a row of its own, under a key that was free.
Inserted(objs, t, u) ==
    \E f \in [DOMAIN objs -> Ids] :
       /\ \A k, l \in DOMAIN objs : f[k] = f[l] => k = l
       /\ \A k \in DOMAIN objs : t[f[k]] = NoRow
       /\ Placed(objs, f, t, u)

Replaced(objs, t, u) == \E f \in [DOMAIN objs -> Ids] : Placed(objs, f, t, u)

\* Rows may be overwritten by the last object that names them; none appears
\* and none disappears.
Updated(objs, t, u) ==
    \A i \in Ids :
       \/ u[i] = t[i]
       \/ /\ t[i] # NoRow /\ u[i] # NoRow
          /\ \E k \in DOMAIN objs :
                /\ objs[k].id = i /\ u[i].val = objs[k].val
                /\ \A l \in DOMAIN objs : l > k => objs[l].id # i

Deleted(ids, t, u) == u = [i \in Ids |-> IF i \in ids THEN NoRow ELSE t[i]]

\* The row moves to the key of the body, if that has one and it is free.
Changed(id, body, t, u) ==
    LET to == IF body.id = Absent THEN id ELSE body.id IN
    \/ t[id] = NoRow /\ u = t
    \/ /\ t[id] # NoRow
       /\ to = id \/ t[to] = NoRow
       /\ u[to] # NoRow /\ u[to].val = body.val
       /\ to # id => u[id] = NoRow
       /\ \A i \in Ids \ {id, to} : u[i] = t[i]

IdsOf(objs) == {objs[k].id : k \in DOMAIN objs}

Effect(c, t, u) ==
    CASE c.op \in {"CreateItem", "INSERT"} -> Inserted(c.objs, t, u)
      [] c.op = "REPLACE"                  -> Replaced(c.objs, t, u)
      [] c.op = "UPDATE"                   -> Updated(c.objs, t, u)
      [] c.op = "UpdateItemById"           -> Changed(c.id, c.objs[1], t, u)
      [] c.op = "DeleteItemById"           -> Deleted({c.id}, t, u)
      [] c.op = "DELETE"                   -> Deleted(IdsOf(c.objs), t, u)
      [] OTHER                             -> FALSE

-----------------------------------------------------------------------------
Init ==
    /\ items \in Tables
    /\ call \in [Slots -> RequestSet]
    /\ phase = [r \in Slots |-> "idle"]

Move(r, from, to) ==
    /\ phase[r] \in from
    /\ phase' = [phase EXCEPT ![r] = to]

Open(r) ==
    /\ Move(r, {"idle", "done", "failed"}, "open")
    /\ call'[r] \in RequestSet
    /\ \A s \in Slots \ {r} : call'[s] = call[s]
    /\ UNCHANGED items

\* The answer may come in the same step.
Apply(r) ==
    /\ \E to \in {"applied", "done", "failed"} : Move(r, {"open"}, to)
    /\ call[r].op \in Writes
    /\ ChangeNeeds(call[r].op) \in Allowed
    /\ Effect(call[r], items, items')
    /\ UNCHANGED call

Succeed(r) ==
    /\ Move(r, IF call[r].op \in Writes THEN {"applied"} ELSE {"open"}, "done")
    /\ UNCHANGED <<items, call>>

\* An answer may say "failed" although the effect took place: the reply of the
\* database, or reading the item back, can fail after it.
Fail(r) ==
    /\ Move(r, {"open", "applied"}, "failed")
    /\ UNCHANGED <<items, call>>

Next == \E r \in Slots : Open(r) \/ Apply(r) \/ Succeed(r) \/ Fail(r)

Spec == Init /\ [][Next]_vars
=============================================================================
