------------------------------ MODULE Exchange ------------------------------
(***************************************************************************)
(* Calls of the Go client (pkg/client) against the service: what a call    *)
(* sends (ops.go and the request builders of pkg/api/gen.go), where the    *)
(* router takes it, what body the answer has (pkg/server), and what the    *)
(* caller gets out of it: a result, an error or a panic.                   *)
(*                                                                         *)
(* Caller r's requests are served by slot r of Crud.  The caller may go    *)
(* away at any time; its slot then works on alone.                         *)
(***************************************************************************)
EXTENDS CrudInvariant

CONSTANTS
    Calls,          \* Calls[r]: the calls r may make
    ReadOnly,       \* callers whose ReadOnlyProperties contain the id
    NoColumns       \* the value of an object that has no column but its id

\* "unknown" is BulkUpdate with a mode that is none of the four.
ByClient == {"CreateItem", "GetItemById", "UpdateItemById", "DeleteItemById", "QueryNamed",
             "unknown"} \cup BulkModes

\* A call as its caller makes it.  The id of an item call is Absent when its
\* path segment is empty or has a slash in it; the id of QueryNamed is Absent
\* when no query of the configuration has the name.
CallSet == [op : ByClient, id : Ids \cup {Absent}, objs : Seq(Bodies)]

onlyProps(o) == [o EXCEPT !.val = NoColumns]

excludeProps(r, o) == IF r \in ReadOnly THEN [o EXCEPT !.id = Absent] ELSE o

\* The request of call c.
RequestFor(r, c) ==
    [op |-> c.op, id |-> c.id,
     objs |-> [k \in 1..Len(c.objs) |->
                  IF c.op = "DELETE" THEN onlyProps(c.objs[k]) ELSE excludeProps(r, c.objs[k])]]

\* A path with no id, or too many segments, matches none of the routes.
Routed(c) == c.op \in {"GetItemById", "UpdateItemById", "DeleteItemById"} => c.id \in Ids

ASSUME ExchangeAssumption ==
    /\ NoColumns \in Vals
    /\ ReadOnly \subseteq Slots
    /\ Calls \in [Slots -> SUBSET CallSet]
    /\ \A r \in Slots : \A c \in Calls[r] :
          c.op # "QueryNamed" /\ Routed(c) => RequestFor(r, c) \in Workload[r]

VARIABLES
    stage,          \* where the call of each caller is
    call,           \* the call
    outcome         \* what it returned

client == <<stage, call, outcome>>
xvars  == <<vars, client>>

Stages   == {"idle", "called", "sent", "returned"}
Results  == {"none", "value", "error", "panic"}
Outcomes == [result : Results, status : Statuses, item : Vals \cup {Garbled, Nothing}]

Value(item)   == [result |-> "value", status |-> 0, item |-> item]
Error(status) == [result |-> "error", status |-> status, item |-> Nothing]
NoOutcome     == [result |-> "none", status |-> 0, item |-> Nothing]
Panicked      == [result |-> "panic", status |-> 0, item |-> Nothing]

\* An error of the transport or of a codec has no status.
Other == 0

XInit ==
    /\ Init
    /\ stage = [r \in Slots |-> "idle"]
    /\ call = [r \in Slots |-> [op |-> "unknown", id |-> Absent, objs |-> <<>>]]
    /\ outcome = [r \in Slots |-> NoOutcome]

-----------------------------------------------------------------------------
(* Answers and what the client makes of them.                              *)

\* The body that goes with a status: the handlers write JSON, the error mapper
\* and the router plain text, and an error the mapper does not know is left to
\* the output library.
Contents(op, status) ==
    CASE status \in {201, 202}                                            -> {"json"}
      [] status = 200 /\ op \in {"GetItemById", "QueryNamed"}             -> {"json"}
      [] status = 404 /\ op \in {"GetItemById", "UpdateItemById"}         -> {"json"}
      [] status = 500                                                     -> {"text", "json"}
      [] status \in {400, 405, 409} \/ (status = 404 /\ op = "QueryNamed") -> {"text"}
      [] OTHER                                                            -> {"none"}

\* The statuses under which Parse...Response decodes a JSON body ...
Decoded(op) ==
    CASE op = "CreateItem"                    -> {201, 500}
      [] op \in {"GetItemById", "QueryNamed"} -> {200, 404}
      [] op = "UpdateItemById"                -> {202, 404}
      [] OTHER                                -> {}

\* ... and under which the client follows the pointer to it.
Followed(op) == IF op = "QueryNamed" THEN {404} ELSE Decoded(op)

Expected(op) ==
    CASE op = "CreateItem"     -> 201
      [] op = "UpdateItemById" -> 202
      [] op = "DeleteItemById" -> 204
      [] OTHER                 -> 200

\* ensureResponseCode puts the status it wanted into the error.
ErrorStatus(op, status) == IF op \in BulkModes \cup {"unknown"} THEN Expected(op) ELSE status

Concluded_AnyStatus(op, status, content, item) ==
    {Error(Other)} \cup IF status = Dropped THEN {} ELSE {Value(item)}

\* What the caller may get.  Reading and decoding the body may always fail.
Concluded(op, status, content, item) ==
    LET decoded == content = "json" /\ status \in Decoded(op)
        panics  == status \in Followed(op) /\ ~decoded
    IN
    {Error(Other)}
    \cup CASE panics                                   -> {Panicked}
           [] ~panics /\ status = Expected(op)         -> {Value(item)}
           [] ~panics /\ status = Dropped              -> {}
           [] ~panics /\ status \notin {Dropped, Expected(op)} -> {Error(ErrorStatus(op, status))}

-----------------------------------------------------------------------------
(* The client.                                                             *)

Conclude(r, o) ==
    /\ stage' = [stage EXCEPT ![r] = "returned"]
    /\ outcome' = [outcome EXCEPT ![r] = o]
    /\ UNCHANGED call

Idle(r) == pc[r] \in {"idle", "answered"}

Call(r) ==
    /\ stage[r] \in {"idle", "returned"} /\ Idle(r)
    /\ \E c \in Calls[r] : call' = [call EXCEPT ![r] = c]
    /\ stage' = [stage EXCEPT ![r] = "called"]
    /\ outcome' = [outcome EXCEPT ![r] = NoOutcome]
    /\ UNCHANGED vars

Send_AnyRequest(r) ==
    /\ stage[r] = "called" /\ call[r].op # "QueryNamed" /\ Routed(call[r])
    /\ Receive(r)
    /\ stage' = [stage EXCEPT ![r] = "sent"]
    /\ UNCHANGED <<call, outcome>>

Send(r) ==
    /\ stage[r] = "called" /\ call[r].op # "QueryNamed" /\ Routed(call[r])
    /\ Receive(r) /\ req'[r] = RequestFor(r, call[r])
    /\ stage' = [stage EXCEPT ![r] = "sent"]
    /\ UNCHANGED <<call, outcome>>

\* The encoder fails, or no connection is had.
Unsent(r) ==
    /\ stage[r] = "called"
    /\ Conclude(r, Error(Other))
    /\ UNCHANGED vars

\* The router answers 404, in plain text.
NoRoute(r) ==
    /\ stage[r] = "called" /\ ~Routed(call[r])
    /\ \E o \in Concluded(call[r].op, 404, "text", Nothing) : Conclude(r, o)
    /\ UNCHANGED vars

\* QueryNamed: permission, name, then a COUNT and a SELECT, each on a
\* connection of the pool.
QueryStatuses(r) ==
    CASE "read" \notin Allowed                               -> {405}
      [] "read" \in Allowed /\ call[r].id = Absent           -> {404}
      [] "read" \in Allowed /\ call[r].id # Absent /\ FreeConn ->
            {200} \cup IF "statement" \in Faults THEN {500} ELSE {}
      [] OTHER                                               -> {}

Query(r) ==
    /\ stage[r] = "called" /\ call[r].op = "QueryNamed"
    /\ \E status \in QueryStatuses(r) : \E content \in Contents("QueryNamed", status) :
          \E o \in Concluded("QueryNamed", status, content, Nothing) : Conclude(r, o)
    /\ UNCHANGED vars

Return(r) ==
    /\ stage[r] = "sent" /\ pc[r] = "answered"
    /\ \E content \in Contents(call[r].op, resp[r].status) :
          \E o \in Concluded(call[r].op, resp[r].status, content, resp[r].item) : Conclude(r, o)
    /\ UNCHANGED vars

\* The caller's context ends or the connection breaks: the service learns of
\* it, unless it has answered already.
Abandon(r) ==
    /\ stage[r] = "sent" /\ "leave" \in Faults
    /\ \/ Leave(r)
       \/ pc[r] = "answered" /\ UNCHANGED vars
    /\ Conclude(r, Error(Other))

Serve(r) == (Handle(r) \/ AwaitDone(r)) /\ UNCHANGED client

XNext ==
    \/ \E r \in Slots :
          \/ Call(r) \/ Send(r) \/ Unsent(r) \/ NoRoute(r) \/ Query(r)
          \/ Return(r) \/ Abandon(r) \/ Serve(r)
    \/ Expire /\ UNCHANGED client

XSpec == XInit /\ [][XNext]_xvars

-----------------------------------------------------------------------------
(* Correctness.                                                            *)

XTypeOK ==
    /\ stage \in [Slots -> Stages]
    /\ call \in [Slots -> CallSet]
    /\ outcome \in [Slots -> Outcomes]

Refused == {400, 404, 405, 409}

\* The service works on what the caller asked for, and is through with it when
\* the caller has its answer; a call that is refused has no effect, and one that
\* no route takes never gets to the service and returns no value.
CallerAt(r) ==
    /\ stage[r] # "idle" => call[r] \in Calls[r]
    /\ stage[r] \in {"idle", "called"} => Idle(r)
    /\ stage[r] = "sent" => pc[r] # "idle"
    /\ stage[r] = "sent" \/ ~Idle(r) =>
          req[r] = RequestFor(r, call[r]) /\ call[r].op # "QueryNamed" /\ Routed(call[r])
    /\ pc[r] = "answered" /\ resp[r].status \in Refused => effect[r] = "none"
    /\ stage[r] = "returned" /\ ~Idle(r) => outcome[r] = Error(Other)
    /\ /\ stage[r] = "returned" /\ outcome[r].status \in Refused
       /\ call[r].op # "QueryNamed" /\ Routed(call[r])
       => effect[r] = "none"
    /\ stage[r] = "returned" /\ ~Routed(call[r]) => outcome[r].result # "value"

XInv == XTypeOK /\ \A r \in Slots : CallerAt(r)

\* What the caller asks for: in REPLACE, UPDATE and DELETE the ids are part of
\* it; elsewhere a read-only id is not.  A named query only reads.
Meant(r, c) ==
    CASE c.op = "QueryNamed"                     -> [c EXCEPT !.op = "invalid"]
      [] c.op \in {"REPLACE", "UPDATE", "DELETE"} -> c
      [] OTHER                                   -> RequestFor(r, c)

\* A call without an answer stays open as long as the service works on it.
CallerPhase(r) ==
    CASE stage[r] = "idle"                                               -> "idle"
      [] stage[r] = "called"                                             -> "open"
      [] stage[r] = "returned" /\ outcome[r].result = "value"            -> "done"
      [] stage[r] = "returned" /\ outcome[r].result # "value" /\ Idle(r) -> "failed"
      [] OTHER -> IF effect[r] = "none" THEN "open" ELSE "applied"

Promise == INSTANCE ItemStore
    WITH items <- table, call <- [r \in Slots |-> Meant(r, call[r])],
         phase <- [r \in Slots |-> CallerPhase(r)]

\* What the item store promises holds from the caller's side of the client too:
\* a call that returns a value took effect once, as the caller meant it, before
\* it returned; one that returns an error did so at most once, perhaps later,
\* when the caller has gone away.
ImplementsForCaller == Promise!Spec

\* A caller that is told of a refusal (400, 404, 405, 409) may rely on it that
\* nothing was changed on its behalf, in whatever statement or read the refusal
\* arose, and that nothing will be.
RefusalsChangeNothing ==
    \A r \in Slots :
       /\ stage[r] = "returned" /\ outcome[r].status \in Refused
       /\ call[r].op # "QueryNamed" /\ Routed(call[r])
       => Idle(r) /\ effect[r] = "none"

-----------------------------------------------------------------------------
(* What the documentation says and the code does not do.                    *)

\* openapi.yaml:187-192 documents status 500 of createItem with an ErrorObject:
\* the client has an error to return for it.
DocumentedErrorsReturn == \A r \in Slots : outcome[r].result # "panic"

\* openapi.yaml:363, of REPLACE: "Objects are removed prior to creating if they
\* exists."  After a REPLACE that returned no error, and nobody else at work,
\* the row of each object's id is the object.
ReplacesById ==
    \A r \in Slots :
       LET objs == call[r].objs IN
       /\ Slots = {r} /\ stage[r] = "returned"
       /\ call[r].op = "REPLACE" /\ outcome[r].result = "value"
       => \A k \in DOMAIN objs :
             objs[k].id # Absent /\ (\A l \in DOMAIN objs : l > k => objs[l].id # objs[k].id)
                => table[objs[k].id] # NoRow /\ table[objs[k].id].val = objs[k].val
=============================================================================
