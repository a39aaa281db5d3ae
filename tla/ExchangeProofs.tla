--------------------------- MODULE ExchangeProofs ---------------------------
(***************************************************************************)
(* Theorems about Exchange: all that is proved of the service holds under  *)
(* the calls of the client, a refused call changes nothing, and the item   *)
(* store's promise reaches the caller.                                     *)
(***************************************************************************)
EXTENDS Exchange, CrudRefinement

-----------------------------------------------------------------------------
(* The client only calls the service.                                      *)

LEMMA ServiceStep ==
    ASSUME [XNext]_xvars
    PROVE  [Next]_vars
<1>1. CASE UNCHANGED xvars
  BY <1>1 DEF xvars
<1>2. CASE Expire
  BY <1>2 DEF Next
<1>3. ASSUME NEW r \in Slots,
             Call(r) \/ Unsent(r) \/ NoRoute(r) \/ Query(r) \/ Return(r)
      PROVE  UNCHANGED vars
  BY <1>3 DEF Call, Unsent, NoRoute, Query, Return
<1>4. ASSUME NEW r \in Slots, Send(r) PROVE Next
  BY <1>4 DEF Send, Next
<1>5. ASSUME NEW r \in Slots, Abandon(r) PROVE [Next]_vars
  BY <1>5 DEF Abandon, Next
<1>6. ASSUME NEW r \in Slots, Serve(r) PROVE Next
  BY <1>6 DEF Serve, Next
<1>. QED
  BY <1>1, <1>2, <1>3, <1>4, <1>5, <1>6 DEF XNext

\* Whatever the callers do, the service behaves as Crud says: each theorem
\* about Crud holds of it.
THEOREM ServiceUnderCalls == XSpec => Spec
<1>1. XInit => Init
  BY DEF XInit
<1>2. [XNext]_xvars => [Next]_vars
  BY ServiceStep
<1>. QED
  BY <1>1, <1>2, PTL DEF XSpec, Spec

-----------------------------------------------------------------------------
(* Types.                                                                  *)

LEMMA RequestType ==
    ASSUME NEW r \in Slots, NEW c \in CallSet
    PROVE  /\ RequestFor(r, c).op = c.op /\ RequestFor(r, c).id = c.id
           /\ RequestFor(r, c).objs \in Seq(Bodies)
           /\ DOMAIN RequestFor(r, c).objs = 1..Len(c.objs)
           /\ c.objs \in Seq(Bodies) /\ DOMAIN c.objs = 1..Len(c.objs)
<1>. DEFINE objs == [k \in 1..Len(c.objs) |->
                IF c.op = "DELETE" THEN onlyProps(c.objs[k]) ELSE excludeProps(r, c.objs[k])]
<1>1. c.objs \in Seq(Bodies) /\ Len(c.objs) \in Nat /\ DOMAIN c.objs = 1..Len(c.objs)
  BY DEF CallSet
<1>2. ASSUME NEW o \in Bodies PROVE onlyProps(o) \in Bodies /\ excludeProps(r, o) \in Bodies
  BY ExchangeAssumption DEF onlyProps, excludeProps, Bodies
<1>3. \A k \in 1..Len(c.objs) : objs[k] \in Bodies
  <2>1. \A k \in 1..Len(c.objs) : c.objs[k] \in Bodies
    BY <1>1
  <2>. QED
    BY <1>2, <2>1
<1>4. objs \in [1..Len(c.objs) -> Bodies]
  BY <1>3
<1>5. objs \in Seq(Bodies)
  BY <1>1, <1>4
<1>. QED
  BY <1>1, <1>5 DEF RequestFor

LEMMA OutcomeType ==
    ASSUME NEW op \in ByClient, NEW status \in Statuses, NEW content,
           NEW item \in Vals \cup {Garbled, Nothing},
           NEW o \in Concluded(op, status, content, item)
    PROVE  /\ o \in Outcomes
           /\ o.result = "value" => status = Expected(op) /\ status \in Success
           /\ o.status \in Refused => o.status = status
<1>1. Expected(op) \in {200, 201, 202, 204}
  BY DEF Expected
<1>2. ErrorStatus(op, status) \in Statuses /\ (ErrorStatus(op, status) \in Refused => ErrorStatus(op, status) = status)
  BY <1>1 DEF ErrorStatus, Statuses, Refused
<1>3. \/ o = Error(Other)
      \/ o = Panicked
      \/ o = Value(item) /\ status = Expected(op)
      \/ o = Error(ErrorStatus(op, status))
  BY DEF Concluded
<1>. QED
  BY <1>1, <1>2, <1>3 DEF Error, Panicked, Value, Other, Outcomes, Results, Statuses, Refused, Success

LEMMA InitCallers == XInit => XInv
<1>. SUFFICES ASSUME XInit PROVE XInv
  OBVIOUS
<1>1. XTypeOK
  <2>1. NoOutcome \in Outcomes
    BY DEF NoOutcome, Outcomes, Results, Statuses
  <2>2. [op |-> "unknown", id |-> Absent, objs |-> <<>>] \in CallSet
    BY DEF CallSet, ByClient
  <2>. QED
    BY <2>1, <2>2 DEF XInit, XTypeOK, Stages
<1>2. \A r \in Slots : CallerAt(r)
  BY DEF XInit, Init, CallerAt, Idle
<1>. QED
  BY <1>1, <1>2 DEF XInv

-----------------------------------------------------------------------------
(* What one step of the service does to its caller.                        *)

\* Either nothing the store's promise speaks of, or the one effect.
Silent(r)  == table' = table /\ effect'[r] = effect[r]
Effective(r) ==
    /\ effect[r] = "none" /\ effect'[r] # "none"
    /\ req[r].op \in Writes /\ ChangeNeeds(req[r].op) \in Allowed
    /\ Contract!Effect(req[r], table, table')

LEMMA HandlerStep ==
    ASSUME IInv, NEW r \in Slots, Handle(r)
    PROVE  /\ Frame(r) /\ req' = req /\ Busy(r) /\ pc'[r] # "idle"
           /\ Silent(r) \/ Effective(r)
           /\ pc'[r] = "answered" /\ resp'[r].status \in Refused => effect'[r] = "none"
<1>. USE DEF IInv, ControlInv
<1>0. Frame(r)
  BY OtherHandlers DEF Step
<1>1. CASE RefuseInvalid(r) \/ RefuseBatch(r) \/ Forbid(r) \/ IgnoreUnknownMode(r)
           \/ ServeRead(r) \/ CheckExists(r) \/ Refuse(r) \/ LockFails(r) \/ Panic(r)
           \/ CommitFails(r) \/ TxIsDone(r)
  <2>1. Busy(r) /\ UNCHANGED <<table, req, effect>> /\ pc'[r] # "idle"
    BY <1>1 DEF Busy, RefuseInvalid, RefuseBatch, Forbid, IgnoreUnknownMode, ServeRead,
       CheckExists, Refuse, LockFails, Panic, CommitFails, TxIsDone, Answer, Goto, store,
       handler, TypeOK
  <2>2. effect[r] = "none"
    BY <1>1 DEF RefuseInvalid, RefuseBatch, Forbid, IgnoreUnknownMode, ServeRead,
       CheckExists, Refuse, LockFails, Panic, CommitFails, TxIsDone, SlotInv, EffectAt
  <2>. QED
    BY <1>0, <2>1, <2>2 DEF Silent
<1>2. CASE QueryFails(r) \/ Cancel(r) \/ ReadBack(r)
  <2>1. Busy(r) /\ UNCHANGED <<table, req, effect>> /\ pc'[r] # "idle"
    BY <1>2 DEF Busy, QueryFails, Cancel, ReadBack, Answer, store, handler, TypeOK
  <2>2. resp'[r].status \notin Refused
    BY <1>2 DEF QueryFails, Cancel, ReadBack, Answer, Refused, TypeOK
  <2>. QED
    BY <1>0, <2>1, <2>2 DEF Silent
<1>3. CASE Enter(r) \/ UseCache(r) \/ Miss(r) \/ Load(r) \/ Connect(r) \/ BeginTx(r)
           \/ NextObject(r) \/ AllDone(r) \/ ExecInTx(r)
  <2>1. Busy(r) /\ UNCHANGED <<table, req, effect>>
    BY <1>3 DEF Busy, Enter, UseCache, Miss, Load, Connect, BeginTx, NextObject, AllDone,
       ExecInTx, Runs, store, handler
  <2>2. pc'[r] \notin {"idle", "answered"}
    <3>1. CASE Enter(r)
      BY <3>1 DEF Enter, Goto, FirstLabel, TypeOK, ItemOps, BulkModes
    <3>2. CASE ~Enter(r)
      BY <1>3, <3>2 DEF UseCache, Miss, Load, Connect, BeginTx, NextObject, AllDone,
         ExecInTx, Goto, AfterMetadata, TypeOK
    <3>. QED
      BY <3>1, <3>2
  <2>. QED
    BY <1>0, <2>1, <2>2 DEF Silent
<1>4. CASE ExecCreate(r) \/ ExecUpdate(r) \/ ExecDelete(r) \/ Commit(r)
  <2>1. pc[r] \in {"exec", "commit"} /\ req' = req /\ effect'[r] # "none"
    BY <1>4 DEF ExecCreate, ExecUpdate, ExecDelete, Commit, Runs, TakesEffect, handler, TypeOK
  <2>2. pc'[r] = "refetch" \/ (pc'[r] = "answered" /\ resp'[r].status \notin Refused)
    BY <1>4 DEF ExecCreate, ExecUpdate, ExecDelete, Commit, Learns, Goto, Answer, Refused, TypeOK
  <2>3. effect[r] = "none" /\ req[r].op \in Writes /\ ChangeNeeds(req[r].op) \in Allowed
    BY <2>1 DEF SlotInv, PathAt, EffectAt, PermittedAt, Before, Writes, BulkModes
  <2>4. Contract!Effect(req[r], table, table')
    BY <1>4, CreateEffect, UpdateEffect, DeleteEffect, CommitEffect
  <2>. QED
    BY <1>0, <2>1, <2>2, <2>3, <2>4 DEF Busy, Effective
<1>. QED
  BY <1>1, <1>2, <1>3, <1>4 DEF Handle

LEMMA OtherSteps ==
    ASSUME IInv, NEW r \in Slots
    PROVE  /\ Receive(r) => /\ Frame(r) /\ Idle(r) /\ pc'[r] = "gate" /\ effect'[r] = "none"
                            /\ table' = table
           /\ Leave(r) \/ AwaitDone(r) =>
                 Frame(r) /\ UNCHANGED <<table, req, pc, resp, effect>>
           /\ Leave(r) => Busy(r)
<1>. USE DEF IInv, ControlInv
<1>1. Receive(r) \/ Leave(r) \/ AwaitDone(r) => Frame(r)
  BY OtherHandlers DEF Step
<1>2. Receive(r) => Idle(r) /\ pc'[r] = "gate" /\ effect'[r] = "none" /\ table' = table
  BY DEF Receive, store, Idle, TypeOK
<1>3. Leave(r) \/ AwaitDone(r) => UNCHANGED <<table, req, pc, resp, effect>>
  BY DEF Leave, AwaitDone, store, handler
<1>4. Leave(r) => Busy(r)
  BY DEF Leave, Busy
<1>. QED
  BY <1>1, <1>2, <1>3, <1>4

-----------------------------------------------------------------------------
(* The callers' invariant.                                                 *)

\* A call is of its type, and each slot's answer too.
LEMMA CallType ==
    ASSUME XInv, IInv, NEW r \in Slots, stage[r] # "idle"
    PROVE  /\ call[r] \in Calls[r] /\ call[r] \in CallSet /\ call[r].op \in ByClient
           /\ resp[r].status \in Statuses /\ resp[r].item \in Vals \cup {Garbled, Nothing}
<1>1. call[r] \in Calls[r] /\ call[r] \in CallSet
  BY DEF XInv, CallerAt, XTypeOK
<1>2. resp[r] \in Answers
  BY DEF IInv, ControlInv, TypeOK
<1>. QED
  BY <1>1, <1>2 DEF CallSet, Answers

\* What a step that ends r's call may give it.
Outcome(r, o) ==
    \/ o = Error(Other)
    \/ /\ call[r].op = "QueryNamed" \/ ~Routed(call[r])
       /\ o.result = "value" => call[r].op = "QueryNamed"
    \/ /\ stage[r] = "sent" /\ pc[r] = "answered"
       /\ o.result = "value" => resp[r].status = Expected(call[r].op) /\ resp[r].status \in Success
       /\ o.status \in Refused => resp[r].status \in Refused

\* A call ends in one of these steps, with one of those outcomes.
Ends(r) == Unsent(r) \/ NoRoute(r) \/ Query(r) \/ Return(r) \/ Abandon(r)

LEMMA EndStep ==
    ASSUME XInv, IInv, NEW r \in Slots, Ends(r)
    PROVE  \E o \in Outcomes :
              /\ Conclude(r, o) /\ Outcome(r, o)
              /\ stage[r] \in {"called", "sent"}
              /\ (Abandon(r) /\ Leave(r)) \/ (UNCHANGED vars /\ Idle(r))
              /\ Busy(r) => o = Error(Other)
<1>. USE DEF XInv
<1>1. Error(Other) \in Outcomes
  BY DEF Error, Other, Outcomes, Results, Statuses
<1>2. stage[r] \in {"called", "sent"} /\ (stage[r] = "called" => Idle(r))
  BY DEF Ends, Unsent, NoRoute, Query, Return, Abandon, CallerAt
<1>3. CASE Unsent(r)
  BY <1>1, <1>2, <1>3 DEF Unsent, Outcome, Idle, Busy
<1>4. CASE NoRoute(r)
  <2>1. PICK o \in Concluded(call[r].op, 404, "text", Nothing) : Conclude(r, o)
    BY <1>4 DEF NoRoute
  <2>2. call[r].op \in ByClient /\ 404 \in Statuses /\ call[r].op \in {"GetItemById", "UpdateItemById", "DeleteItemById"}
    BY <1>2, <1>4, CallType DEF NoRoute, Routed, Statuses
  <2>3. o \in Outcomes /\ o.result # "value"
    <3>1. Expected(call[r].op) # 404
      BY DEF Expected
    <3>. QED
      BY <2>1, <2>2, <3>1, OutcomeType
  <2>. QED
    BY <1>2, <1>4, <2>1, <2>3 DEF NoRoute, Outcome, Idle, Busy
<1>5. CASE Query(r)
  <2>1. PICK status \in QueryStatuses(r) : \E content \in Contents("QueryNamed", status) :
           \E o \in Concluded("QueryNamed", status, content, Nothing) : Conclude(r, o)
    BY <1>5 DEF Query
  <2>2. PICK content : \E o \in Concluded("QueryNamed", status, content, Nothing) : Conclude(r, o)
    BY <2>1
  <2>3. PICK o \in Concluded("QueryNamed", status, content, Nothing) : Conclude(r, o)
    BY <2>2
  <2>4. status \in Statuses /\ "QueryNamed" \in ByClient
    BY DEF QueryStatuses, Statuses, ByClient
  <2>5. o \in Outcomes
    BY <2>3, <2>4, OutcomeType
  <2>. QED
    BY <1>2, <1>5, <2>3, <2>5 DEF Query, Outcome, Idle, Busy
<1>6. CASE Return(r)
  <2>1. PICK content \in Contents(call[r].op, resp[r].status) :
           \E o \in Concluded(call[r].op, resp[r].status, content, resp[r].item) : Conclude(r, o)
    BY <1>6 DEF Return
  <2>2. PICK o \in Concluded(call[r].op, resp[r].status, content, resp[r].item) : Conclude(r, o)
    BY <2>1
  <2>3. /\ o \in Outcomes
        /\ o.result = "value" => resp[r].status = Expected(call[r].op) /\ resp[r].status \in Success
        /\ o.status \in Refused => o.status = resp[r].status
    BY <1>2, <2>2, CallType, OutcomeType
  <2>. QED
    BY <1>2, <1>6, <2>2, <2>3 DEF Return, Outcome, Idle, Busy
<1>7. CASE Abandon(r)
  <2>1. Leave(r) \/ (UNCHANGED vars /\ Idle(r))
    BY <1>7 DEF Abandon, Idle
  <2>. QED
    BY <1>1, <1>2, <1>7, <2>1 DEF Abandon, Outcome
<1>. QED
  BY <1>3, <1>4, <1>5, <1>6, <1>7 DEF Ends

\* The callers whose slot does not move, in steps of another slot.
LEMMA CallerKept ==
    ASSUME XInv, NEW r \in Slots, NEW s \in Slots \ {r}, Frame(r) \/ UNCHANGED vars,
           stage'[s] = stage[s], call'[s] = call[s], outcome'[s] = outcome[s]
    PROVE  CallerAt(s)'
<1>1. /\ pc'[s] = pc[s] /\ req'[s] = req[s] /\ resp'[s] = resp[s]
      /\ effect'[s] = "none" <=> effect[s] = "none"
  BY DEF Frame, vars
<1>2. CallerAt(s)
  BY DEF XInv
<1>. QED
  BY <1>1, <1>2 DEF CallerAt, Idle, RequestFor, Routed

LEMMA ServiceKeeps ==
    ASSUME XInv, IInv, NEW r \in Slots, Serve(r)
    PROVE  XInv'
<1>1. UNCHANGED client /\ CallerAt(r) /\ XTypeOK'
  BY DEF Serve, client, XInv, XTypeOK
<1>2. stage' = stage /\ call' = call /\ outcome' = outcome
  BY <1>1 DEF client
<1>3. CASE Handle(r)
  <2>1. /\ Frame(r) /\ req' = req /\ Busy(r) /\ pc'[r] # "idle"
        /\ pc'[r] = "answered" /\ resp'[r].status \in Refused => effect'[r] = "none"
    BY <1>3, HandlerStep
  <2>2. ~Idle(r)
    BY <2>1 DEF Busy, Idle
  <2>3. stage[r] = "sent" \/ (stage[r] = "returned" /\ outcome[r].status \notin Refused)
    BY <1>1, <2>2 DEF CallerAt, XInv, XTypeOK, Stages, Error, Other, Refused
  <2>4. CallerAt(r)'
    BY <1>1, <1>2, <2>1, <2>2, <2>3 DEF CallerAt, Idle, RequestFor, Routed
  <2>5. \A s \in Slots \ {r} : CallerAt(s)'
    BY <1>2, <2>1, CallerKept
  <2>. QED
    BY <1>1, <2>4, <2>5 DEF XInv
<1>4. CASE AwaitDone(r)
  <2>1. Frame(r) /\ UNCHANGED <<table, req, pc, resp, effect>>
    BY <1>4, OtherSteps
  <2>2. CallerAt(r)'
    BY <1>1, <1>2, <2>1 DEF CallerAt, Idle, RequestFor, Routed
  <2>3. \A s \in Slots \ {r} : CallerAt(s)'
    BY <1>2, <2>1, CallerKept
  <2>. QED
    BY <1>1, <2>2, <2>3 DEF XInv
<1>. QED
  BY <1>3, <1>4 DEF Serve

LEMMA EndKeeps ==
    ASSUME XInv, IInv, NEW r \in Slots, Ends(r)
    PROVE  XInv'
<1>1. PICK o \in Outcomes :
         /\ Conclude(r, o) /\ Outcome(r, o)
         /\ stage[r] \in {"called", "sent"}
         /\ (Abandon(r) /\ Leave(r)) \/ (UNCHANGED vars /\ Idle(r))
         /\ Busy(r) => o = Error(Other)
  BY EndStep
<1>2. /\ stage' = [stage EXCEPT ![r] = "returned"] /\ call' = call
      /\ outcome' = [outcome EXCEPT ![r] = o]
  BY <1>1 DEF Conclude
<1>3. XTypeOK'
  BY <1>1, <1>2 DEF XInv, XTypeOK, Stages
<1>4. stage'[r] = "returned" /\ outcome'[r] = o
  BY <1>2 DEF XInv, XTypeOK
<1>5. UNCHANGED <<table, req, pc, resp, effect>> /\ (Frame(r) \/ UNCHANGED vars)
  BY <1>1, OtherSteps DEF vars
<1>6. CallerAt(r)
  BY DEF XInv
<1>7. /\ o.status \in Refused /\ call[r].op # "QueryNamed" /\ Routed(call[r])
      => effect[r] = "none"
  BY <1>1, <1>6 DEF Outcome, CallerAt, Error, Other, Refused
<1>8. ~Routed(call[r]) => o.result # "value"
  BY <1>1, <1>6 DEF Outcome, CallerAt, Error, Routed
<1>9. CallerAt(r)'
  BY <1>1, <1>2, <1>4, <1>5, <1>6, <1>7, <1>8 DEF CallerAt, Idle, Busy, RequestFor, Routed
<1>10. \A s \in Slots \ {r} : CallerAt(s)'
  BY <1>2, <1>5, CallerKept DEF XInv, XTypeOK
<1>. QED
  BY <1>3, <1>9, <1>10 DEF XInv

LEMMA CallKeeps ==
    ASSUME XInv, IInv, NEW r \in Slots, Call(r) \/ Send(r)
    PROVE  XInv'
<1>1. CASE Call(r)
  <2>1. PICK c \in Calls[r] : call' = [call EXCEPT ![r] = c]
    BY <1>1 DEF Call
  <2>2. c \in CallSet
    BY ExchangeAssumption
  <2>3. NoOutcome \in Outcomes /\ NoOutcome.status \notin Refused
    BY DEF NoOutcome, Outcomes, Results, Statuses, Refused
  <2>4. /\ UNCHANGED vars /\ Idle(r)
        /\ stage' = [stage EXCEPT ![r] = "called"] /\ outcome' = [outcome EXCEPT ![r] = NoOutcome]
    BY <1>1 DEF Call
  <2>5. XTypeOK'
    BY <2>1, <2>2, <2>3, <2>4 DEF XInv, XTypeOK, Stages
  <2>6. stage'[r] = "called" /\ call'[r] = c
    BY <2>1, <2>4 DEF XInv, XTypeOK
  <2>7. UNCHANGED <<req, pc, resp, effect>>
    BY <2>4 DEF vars
  <2>8. CallerAt(r)
    BY DEF XInv
  <2>9. CallerAt(r)'
    BY <2>4, <2>6, <2>7, <2>8 DEF CallerAt, Idle
  <2>10. \A s \in Slots \ {r} : CallerAt(s)'
    BY <2>1, <2>4, CallerKept DEF XInv, XTypeOK
  <2>. QED
    BY <2>5, <2>9, <2>10 DEF XInv
<1>2. CASE Send(r)
  <2>1. /\ Receive(r) /\ req'[r] = RequestFor(r, call[r]) /\ call[r].op # "QueryNamed"
        /\ Routed(call[r]) /\ stage[r] = "called" /\ stage' = [stage EXCEPT ![r] = "sent"]
        /\ call' = call /\ outcome' = outcome
    BY <1>2 DEF Send
  <2>2. Frame(r) /\ pc'[r] = "gate" /\ effect'[r] = "none"
    BY <2>1, OtherSteps
  <2>3. XTypeOK' /\ stage'[r] = "sent"
    BY <2>1 DEF XInv, XTypeOK, Stages
  <2>4. CallerAt(r)'
    BY <2>1, <2>2, <2>3 DEF XInv, CallerAt, Idle, RequestFor, Routed
  <2>5. \A s \in Slots \ {r} : CallerAt(s)'
    BY <2>1, <2>2, CallerKept DEF XInv, XTypeOK
  <2>. QED
    BY <2>3, <2>4, <2>5 DEF XInv
<1>. QED
  BY <1>1, <1>2

\* What each caller knows of its call, at every point.
THEOREM Callers == XSpec => []XInv
<1>1. IInv /\ XInv /\ [XNext]_xvars => XInv'
  <2>. SUFFICES ASSUME IInv, XInv, [XNext]_xvars PROVE XInv'
    OBVIOUS
  <2>1. CASE Expire /\ UNCHANGED client
    BY <2>1 DEF Expire, client, store, handler, XInv, XTypeOK, CallerAt, Idle, RequestFor, Routed
  <2>2. CASE UNCHANGED xvars
    BY <2>2 DEF xvars, client, vars, XInv, XTypeOK, CallerAt, Idle, RequestFor, Routed
  <2>3. ASSUME NEW r \in Slots, Call(r) \/ Send(r) \/ Ends(r) \/ Serve(r) PROVE XInv'
    BY <2>3, CallKeeps, EndKeeps, ServiceKeeps
  <2>. QED
    BY <2>1, <2>2, <2>3 DEF XNext, Ends
<1>. QED
  BY <1>1, InitCallers, ServiceUnderCalls, Invariant, PTL DEF XSpec

\* A refused call has changed nothing and will change nothing.
THEOREM RefusedCalls == XSpec => []RefusalsChangeNothing
<1>1. XInv => RefusalsChangeNothing
  BY DEF XInv, CallerAt, RefusalsChangeNothing, Error, Other, Refused
<1>. QED
  BY <1>1, Callers, PTL

-----------------------------------------------------------------------------
(* The promise to the caller: vocabulary and effects.                      *)

LEMMA PromiseVocabulary ==
    /\ Promise!Ids = Ids /\ Promise!Absent = Absent /\ Promise!Tables = Tables
    /\ Promise!RequestSet = RequestSet /\ Promise!Writes = Writes
    /\ \A op : Promise!ChangeNeeds(op) = ChangeNeeds(op)
<1>1. Promise!Ids = Ids /\ Promise!Absent = Absent
  BY DEF Promise!Ids, Promise!Absent, Ids, Absent
<1>2. Promise!Tables = Tables
  BY <1>1 DEF Promise!Tables, Promise!Rows, Tables, Rows
<1>3. Promise!RequestSet = RequestSet
  <2>1. Promise!Bodies = Bodies
    BY <1>1 DEF Promise!Bodies, Bodies
  <2>2. Promise!Operations = Operations
    BY DEF Promise!Operations, Promise!ItemOps, Promise!ItemReads, Promise!BulkModes,
       Promise!TxModes, Operations, ItemOps, ItemReads, BulkModes, TxModes
  <2>. QED
    BY <1>1, <2>1, <2>2 DEF Promise!RequestSet, RequestSet
<1>4. Promise!Writes = Writes
  BY DEF Promise!Writes, Promise!ItemOps, Promise!ItemReads, Promise!BulkModes,
     Promise!TxModes, Writes, ItemOps, ItemReads, BulkModes, TxModes
<1>5. \A op : Promise!ChangeNeeds(op) = ChangeNeeds(op)
  BY DEF Promise!ChangeNeeds, Promise!Needs, Promise!ItemReads, ChangeNeeds, Needs, ItemReads
<1>. QED
  BY <1>1, <1>2, <1>3, <1>4, <1>5

\* What an effect is does not depend on who asked for it.
LEMMA SameEffect ==
    ASSUME NEW c, NEW t, NEW u
    PROVE  Promise!Effect(c, t, u) <=> Contract!Effect(c, t, u)
<1>1. Promise!Ids = Contract!Ids /\ Promise!Absent = Contract!Absent
  BY DEF Promise!Ids, Contract!Ids, Promise!Absent, Contract!Absent
<1>2. \A objs, f : Promise!Placed(objs, f, t, u) <=> Contract!Placed(objs, f, t, u)
  BY <1>1 DEF Promise!Placed, Contract!Placed
<1>3. \A objs : Promise!Inserted(objs, t, u) <=> Contract!Inserted(objs, t, u)
  BY <1>1, <1>2 DEF Promise!Inserted, Contract!Inserted
<1>4. \A objs : Promise!Replaced(objs, t, u) <=> Contract!Replaced(objs, t, u)
  BY <1>1, <1>2 DEF Promise!Replaced, Contract!Replaced
<1>5. \A objs : Promise!Updated(objs, t, u) <=> Contract!Updated(objs, t, u)
  BY <1>1 DEF Promise!Updated, Contract!Updated
<1>6. \A ids : Promise!Deleted(ids, t, u) <=> Contract!Deleted(ids, t, u)
  BY <1>1 DEF Promise!Deleted, Contract!Deleted
<1>7. \A id, body : Promise!Changed(id, body, t, u) <=> Contract!Changed(id, body, t, u)
  BY <1>1 DEF Promise!Changed, Contract!Changed
<1>8. \A objs : Promise!IdsOf(objs) = Contract!IdsOf(objs)
  BY DEF Promise!IdsOf, Contract!IdsOf
<1>. QED
  BY <1>3, <1>4, <1>5, <1>6, <1>7, <1>8 DEF Promise!Effect, Contract!Effect

\* The exception found_readonly_replace shows: a REPLACE with ids of a caller
\* for whom ids are read-only.
NoReadOnlyReplace ==
    \A r \in ReadOnly : \A c \in Calls[r] :
       c.op = "REPLACE" => \A k \in DOMAIN c.objs : c.objs[k].id = Absent

\* A request from which nothing was stripped is the call.
LEMMA NothingStripped ==
    ASSUME NEW r \in Slots, NEW c \in CallSet, c.op # "DELETE",
           r \notin ReadOnly \/ \A k \in DOMAIN c.objs : c.objs[k].id = Absent
    PROVE  RequestFor(r, c) = c
<1>1. c = [op |-> c.op, id |-> c.id, objs |-> c.objs]
  BY DEF CallSet
<1>2. /\ c.objs \in Seq(Bodies) /\ DOMAIN c.objs = 1..Len(c.objs)
      /\ \A k \in 1..Len(c.objs) : c.objs[k] \in Bodies
  BY DEF CallSet
<1>3. ASSUME NEW k \in 1..Len(c.objs) PROVE excludeProps(r, c.objs[k]) = c.objs[k]
  BY <1>2 DEF excludeProps, Bodies
<1>4. [k \in 1..Len(c.objs) |-> excludeProps(r, c.objs[k])] = c.objs
  BY <1>2, <1>3
<1>. QED
  BY <1>1, <1>4 DEF RequestFor

\* The effect of the request is the effect of the call.
LEMMA MeantEffect ==
    ASSUME NoReadOnlyReplace, NEW r \in Slots, call[r] \in Calls[r], call[r] \in CallSet,
           NEW t, NEW u, call[r].op \in Writes,
           Contract!Effect(RequestFor(r, call[r]), t, u)
    PROVE  Contract!Effect(Meant(r, call[r]), t, u)
<1>. DEFINE c == call[r]
            q == RequestFor(r, c)
<1>1. /\ q.op = c.op /\ q.id = c.id /\ DOMAIN q.objs = DOMAIN c.objs
      /\ DOMAIN c.objs = 1..Len(c.objs) /\ c.objs \in Seq(Bodies)
  BY RequestType
<1>2. \A k \in DOMAIN c.objs : c.objs[k] \in Bodies
  BY <1>1
<1>3. CASE c.op \notin {"REPLACE", "UPDATE", "DELETE"}
  <2>1. c.op # "QueryNamed"
    BY DEF Writes, ItemOps, ItemReads, BulkModes, TxModes
  <2>. QED
    BY <1>3, <2>1 DEF Meant
<1>4. CASE c.op \in {"REPLACE", "UPDATE"} /\ (r \notin ReadOnly \/ c.op = "REPLACE")
  <2>1. q = c
    BY <1>4, NothingStripped DEF NoReadOnlyReplace
  <2>. QED
    BY <1>4, <2>1 DEF Meant
<1>5. CASE c.op = "UPDATE" /\ r \in ReadOnly
  <2>1. \A k \in DOMAIN c.objs : q.objs[k].id = Absent
    BY <1>1, <1>2, <1>5 DEF RequestFor, excludeProps, Bodies
  <2>2. Contract!Updated(q.objs, t, u)
    BY <1>1, <1>5 DEF Contract!Effect
  <2>3. \A i \in Ids : u[i] = t[i]
    BY <1>1, <2>1, <2>2, Vocabulary DEF Contract!Updated, Ids, Absent
  <2>4. Contract!Updated(c.objs, t, u)
    BY <2>3, Vocabulary DEF Contract!Updated
  <2>. QED
    BY <1>5, <2>4 DEF Contract!Effect, Meant
<1>6. CASE c.op = "DELETE"
  <2>1. \A k \in DOMAIN c.objs : q.objs[k].id = c.objs[k].id
    BY <1>1, <1>2, <1>6 DEF RequestFor, onlyProps, Bodies
  <2>2. Contract!IdsOf(q.objs) = Contract!IdsOf(c.objs)
    BY <1>1, <2>1 DEF Contract!IdsOf
  <2>. QED
    BY <1>1, <1>6, <2>2 DEF Contract!Effect, Meant
<1>. QED
  BY <1>3, <1>4, <1>5, <1>6

-----------------------------------------------------------------------------
(* The promise to the caller: steps.                                       *)

callers == [r \in Slots |-> CallerPhase(r)]
meant   == [r \in Slots |-> Meant(r, call[r])]

\* Applied with an effect, or still open.
Underway(r) == IF effect[r] = "none" THEN "open" ELSE "applied"

LEMMA CallerPhaseNow ==
    ASSUME XInv, NEW r \in Slots
    PROVE  /\ stage[r] = "idle" => CallerPhase(r) = "idle"
           /\ stage[r] = "called" => CallerPhase(r) = "open"
           /\ stage[r] = "sent" => CallerPhase(r) = Underway(r)
           /\ stage[r] = "returned" /\ Idle(r) => CallerPhase(r) \in {"done", "failed"}
           /\ stage[r] = "returned" /\ ~Idle(r) =>
                 CallerPhase(r) = Underway(r) /\ outcome[r].result # "value"
BY DEF CallerPhase, Underway, XInv, CallerAt, Error

LEMMA CallerPhaseNext ==
    ASSUME NEW r \in Slots
    PROVE  /\ stage'[r] = "called" => CallerPhase(r)' = "open"
           /\ stage'[r] = "sent" => CallerPhase(r)' = Underway(r)'
           /\ stage'[r] = "returned" /\ outcome'[r].result = "value" => CallerPhase(r)' = "done"
           /\ stage'[r] = "returned" /\ outcome'[r].result # "value" /\ Idle(r)'
                 => CallerPhase(r)' = "failed"
           /\ stage'[r] = "returned" /\ outcome'[r].result # "value" /\ ~Idle(r)'
                 => CallerPhase(r)' = Underway(r)'
BY DEF CallerPhase, Underway

\* What a step of caller r or of its slot leaves alone.
LEMMA CallerFrame ==
    ASSUME NEW r \in Slots, Frame(r) \/ UNCHANGED vars,
           \A s \in Slots \ {r} :
              stage'[s] = stage[s] /\ call'[s] = call[s] /\ outcome'[s] = outcome[s]
    PROVE  /\ callers' = [callers EXCEPT ![r] = CallerPhase(r)']
           /\ meant' = [meant EXCEPT ![r] = Meant(r, call[r])']
<1>1. ASSUME NEW s \in Slots \ {r}
      PROVE  CallerPhase(s)' = CallerPhase(s) /\ Meant(s, call[s])' = Meant(s, call[s])
  <2>1. /\ pc'[s] = pc[s] /\ req'[s] = req[s]
        /\ effect'[s] = "none" <=> effect[s] = "none"
    BY DEF Frame, vars
  <2>2. CallerPhase(s)' = CallerPhase(s)
    BY <2>1 DEF CallerPhase, Idle
  <2>3. Meant(s, call[s])' = Meant(s, call[s])
    BY DEF Meant, RequestFor
  <2>. QED
    BY <2>2, <2>3
<1>. QED
  BY <1>1 DEF callers, meant

LEMMA MeantKept ==
    ASSUME NEW r \in Slots, call'[r] = call[r]
    PROVE  Meant(r, call[r])' = Meant(r, call[r])
BY DEF Meant, RequestFor

LEMMA MeantType ==
    ASSUME NEW r \in Slots, NEW c \in CallSet
    PROVE  /\ Meant(r, c) \in RequestSet
           /\ c.op # "QueryNamed" => Meant(r, c).op = c.op
           /\ c.op = "QueryNamed" => Meant(r, c).op \notin Writes
<1>1. c.op \in ByClient /\ c.id \in Ids \cup {Absent} /\ c.objs \in Seq(Bodies)
  BY DEF CallSet
<1>2. c.op # "QueryNamed" => c.op \in Operations
  BY <1>1 DEF ByClient, Operations, ItemOps, ItemReads
<1>3. CASE c.op = "QueryNamed"
  <2>1. Meant(r, c) = [c EXCEPT !.op = "invalid"]
    BY <1>3 DEF Meant
  <2>2. Meant(r, c) = [op |-> "invalid", id |-> c.id, objs |-> c.objs]
    BY <2>1 DEF CallSet
  <2>3. "invalid" \in Operations \ Writes
    BY DEF Operations, Writes, ItemOps, ItemReads, BulkModes, TxModes
  <2>. QED
    BY <1>1, <1>3, <2>2, <2>3 DEF RequestSet
<1>4. CASE c.op \in {"REPLACE", "UPDATE", "DELETE"}
  <2>1. Meant(r, c) = [op |-> c.op, id |-> c.id, objs |-> c.objs]
    BY <1>4 DEF Meant, CallSet
  <2>. QED
    BY <1>1, <1>2, <1>4, <2>1 DEF RequestSet
<1>5. CASE c.op \notin {"QueryNamed", "REPLACE", "UPDATE", "DELETE"}
  <2>1. Meant(r, c) = RequestFor(r, c)
    BY <1>5 DEF Meant
  <2>2. RequestFor(r, c) = [op |-> c.op, id |-> c.id, objs |-> RequestFor(r, c).objs]
    BY DEF RequestFor
  <2>. QED
    BY <1>1, <1>2, <1>5, <2>1, <2>2, RequestType DEF RequestSet
<1>. QED
  BY <1>3, <1>4, <1>5

\* A step of r that leaves the table and the call alone and moves the phase
\* to where it was, or to "failed", is none of the promise's or a failure.
LEMMA QuietOrFailed ==
    ASSUME XInv, NEW r \in Slots, Frame(r) \/ UNCHANGED vars, table' = table,
           call' = call, \A s \in Slots \ {r} : stage'[s] = stage[s] /\ outcome'[s] = outcome[s],
           \/ CallerPhase(r)' = CallerPhase(r)
           \/ CallerPhase(r) \in {"open", "applied"} /\ CallerPhase(r)' = "failed"
    PROVE  [Promise!Next]_(Promise!vars)
<1>1. /\ callers' = [callers EXCEPT ![r] = CallerPhase(r)']
      /\ meant' = [meant EXCEPT ![r] = Meant(r, call[r])']
  BY CallerFrame
<1>2. meant' = meant
  BY <1>1, MeantKept DEF meant
<1>3. CASE CallerPhase(r)' = CallerPhase(r)
  <2>1. callers' = callers
    BY <1>1, <1>3 DEF callers
  <2>. QED
    BY <1>2, <2>1 DEF Promise!vars, callers, meant
<1>4. CASE CallerPhase(r) \in {"open", "applied"} /\ CallerPhase(r)' = "failed"
  <2>1. Promise!Fail(r)
    BY <1>1, <1>2, <1>4 DEF Promise!Fail, Promise!Move, callers, meant
  <2>. QED
    BY <2>1 DEF Promise!Next
<1>. QED
  BY <1>3, <1>4

LEMMA CallRefined ==
    ASSUME XInv, IInv, NEW r \in Slots, Call(r)
    PROVE  Promise!Next
<1>1. PICK c \in Calls[r] : call' = [call EXCEPT ![r] = c]
  BY DEF Call
<1>2. c \in CallSet
  BY ExchangeAssumption
<1>3. /\ UNCHANGED vars /\ Idle(r) /\ stage[r] \in {"idle", "returned"}
      /\ stage' = [stage EXCEPT ![r] = "called"] /\ outcome' = [outcome EXCEPT ![r] = NoOutcome]
  BY DEF Call
<1>4. stage'[r] = "called" /\ call'[r] = c /\ call' \in [Slots -> CallSet]
  BY <1>1, <1>2, <1>3 DEF XInv, XTypeOK
<1>5. CallerPhase(r) \in {"idle", "done", "failed"} /\ CallerPhase(r)' = "open"
  BY <1>3, <1>4, CallerPhaseNow, CallerPhaseNext
<1>6. Meant(r, call[r])' \in RequestSet
  <2>1. Meant(r, call[r])' = Meant(r, c)
    BY <1>4 DEF Meant, RequestFor
  <2>. QED
    BY <1>2, <2>1, MeantType
<1>7. /\ callers' = [callers EXCEPT ![r] = CallerPhase(r)']
      /\ meant' = [meant EXCEPT ![r] = Meant(r, call[r])']
  BY <1>1, <1>3, CallerFrame DEF XInv, XTypeOK
<1>8. table' = table
  BY <1>3 DEF vars
<1>9. Promise!Open(r)
  BY <1>5, <1>6, <1>7, <1>8, PromiseVocabulary DEF Promise!Open, Promise!Move, callers, meant
<1>. QED
  BY <1>9 DEF Promise!Next

LEMMA SendRefined ==
    ASSUME XInv, IInv, NEW r \in Slots, Send(r)
    PROVE  [Promise!Next]_(Promise!vars)
<1>1. /\ Receive(r) /\ stage[r] = "called" /\ stage' = [stage EXCEPT ![r] = "sent"]
      /\ call' = call /\ outcome' = outcome
  BY DEF Send
<1>2. Frame(r) /\ effect'[r] = "none" /\ table' = table
  BY <1>1, OtherSteps
<1>3. stage'[r] = "sent" /\ \A s \in Slots \ {r} : stage'[s] = stage[s]
  BY <1>1 DEF XInv, XTypeOK
<1>4. CallerPhase(r) = "open" /\ CallerPhase(r)' = "open"
  BY <1>1, <1>2, <1>3, CallerPhaseNow, CallerPhaseNext DEF Underway
<1>. QED
  BY <1>1, <1>2, <1>3, <1>4, QuietOrFailed

LEMMA EndRefined ==
    ASSUME XInv, IInv, NEW r \in Slots, Ends(r)
    PROVE  [Promise!Next]_(Promise!vars)
<1>1. PICK o \in Outcomes :
         /\ Conclude(r, o) /\ Outcome(r, o)
         /\ stage[r] \in {"called", "sent"}
         /\ (Abandon(r) /\ Leave(r)) \/ (UNCHANGED vars /\ Idle(r))
         /\ Busy(r) => o = Error(Other)
  BY EndStep
<1>2. /\ stage' = [stage EXCEPT ![r] = "returned"] /\ call' = call
      /\ outcome' = [outcome EXCEPT ![r] = o]
  BY <1>1 DEF Conclude
<1>3. /\ stage'[r] = "returned" /\ outcome'[r] = o
      /\ \A s \in Slots \ {r} : stage'[s] = stage[s] /\ outcome'[s] = outcome[s]
  BY <1>2 DEF XInv, XTypeOK
<1>4. UNCHANGED <<table, req, pc, resp, effect>> /\ (Frame(r) \/ UNCHANGED vars)
  BY <1>1, OtherSteps DEF vars
<1>5. CallerPhase(r) \in {"open", "applied"}
  BY <1>1, CallerPhaseNow DEF Underway
<1>6. CASE o.result # "value" /\ Idle(r)
  <2>1. CallerPhase(r)' = "failed"
    BY <1>3, <1>4, <1>6, CallerPhaseNext DEF Idle
  <2>. QED
    BY <1>2, <1>3, <1>4, <1>5, <2>1, QuietOrFailed
<1>7. CASE o.result # "value" /\ ~Idle(r)
  <2>1. stage[r] = "sent"
    BY <1>1, <1>7 DEF Abandon
  <2>2. CallerPhase(r) = Underway(r) /\ CallerPhase(r)' = Underway(r)
    BY <1>3, <1>4, <1>7, <2>1, CallerPhaseNow, CallerPhaseNext DEF Idle, Underway
  <2>. QED
    BY <1>2, <1>3, <1>4, <2>2, QuietOrFailed
<1>8. CASE o.result = "value"
  <2>1. UNCHANGED vars /\ Idle(r)
    BY <1>1, <1>8, OtherSteps DEF Error
  <2>2. call[r] \in CallSet /\ CallerAt(r)
    BY DEF XInv, XTypeOK
  <2>3. CallerPhase(r) = IF Meant(r, call[r]).op \in Writes THEN "applied" ELSE "open"
    <3>1. CASE call[r].op = "QueryNamed"
      <4>1. stage[r] = "called"
        BY <1>1, <2>2, <3>1 DEF CallerAt
      <4>. QED
        BY <2>2, <3>1, <4>1, CallerPhaseNow, MeantType
    <3>2. CASE call[r].op # "QueryNamed"
      <4>1. stage[r] = "sent" /\ pc[r] = "answered" /\ resp[r].status \in Success
        BY <1>1, <1>8, <3>2 DEF Outcome, Error
      <4>2. req[r] = RequestFor(r, call[r])
        BY <2>2, <4>1 DEF CallerAt
      <4>3. req[r].op = call[r].op /\ Meant(r, call[r]).op = call[r].op
        BY <2>2, <3>2, <4>2, RequestType, MeantType
      <4>4. req[r].op \in Writes <=> effect[r] # "none"
        BY <4>1 DEF IInv, ControlInv, SlotInv, EffectAt
      <4>. QED
        BY <4>1, <4>3, <4>4, CallerPhaseNow DEF Underway
    <3>. QED
      BY <3>1, <3>2
  <2>4. CallerPhase(r)' = "done"
    BY <1>3, <1>8, CallerPhaseNext
  <2>5. /\ callers' = [callers EXCEPT ![r] = CallerPhase(r)']
        /\ meant' = [meant EXCEPT ![r] = Meant(r, call[r])']
    BY <1>2, <1>3, <2>1, CallerFrame
  <2>6. meant' = meant
    BY <1>2, <2>5, MeantKept DEF meant
  <2>7. Promise!Succeed(r)
    BY <1>4, <2>3, <2>4, <2>5, <2>6, PromiseVocabulary
       DEF Promise!Succeed, Promise!Move, callers, meant
  <2>. QED
    BY <2>7 DEF Promise!Next
<1>. QED
  BY <1>6, <1>7, <1>8

LEMMA ServeRefined ==
    ASSUME NoReadOnlyReplace, XInv, IInv, NEW r \in Slots, Serve(r)
    PROVE  [Promise!Next]_(Promise!vars)
<1>1. stage' = stage /\ call' = call /\ outcome' = outcome
  BY DEF Serve, client
<1>2. CASE AwaitDone(r)
  <2>1. Frame(r) /\ UNCHANGED <<table, req, pc, resp, effect>>
    BY <1>2, OtherSteps
  <2>2. CallerPhase(r)' = CallerPhase(r)
    BY <1>1, <2>1 DEF CallerPhase, Idle
  <2>. QED
    BY <1>1, <2>1, <2>2, QuietOrFailed
<1>3. CASE Handle(r)
  <2>1. /\ Frame(r) /\ req' = req /\ Busy(r) /\ pc'[r] # "idle"
        /\ Silent(r) \/ Effective(r)
    BY <1>3, HandlerStep
  <2>2. /\ stage[r] \in {"sent", "returned"} /\ call[r] \in CallSet
        /\ call[r] \in Calls[r]
        /\ req[r] = RequestFor(r, call[r]) /\ call[r].op # "QueryNamed"
    BY <2>1 DEF XInv, XTypeOK, Stages, CallerAt, Idle, Busy
  <2>3. /\ CallerPhase(r) = Underway(r)
        /\ stage[r] = "returned" => outcome[r].result # "value"
    BY <2>1, <2>2, CallerPhaseNow DEF Idle, Busy
  <2>4. CallerPhase(r)' \in {Underway(r)', "failed"}
    BY <1>1, <2>2, <2>3, CallerPhaseNext
  <2>5. CASE Silent(r)
    <3>1. Underway(r)' = Underway(r) /\ Underway(r) \in {"open", "applied"}
      BY <2>5 DEF Silent, Underway
    <3>. QED
      BY <1>1, <2>1, <2>3, <2>4, <2>5, <3>1, QuietOrFailed DEF Silent
  <2>6. CASE Effective(r)
    <3>1. CallerPhase(r) = "open" /\ CallerPhase(r)' \in {"applied", "failed"}
      BY <2>3, <2>4, <2>6 DEF Effective, Underway
    <3>2. /\ callers' = [callers EXCEPT ![r] = CallerPhase(r)']
          /\ meant' = [meant EXCEPT ![r] = Meant(r, call[r])']
      BY <1>1, <2>1, CallerFrame
    <3>3. meant' = meant
      BY <1>1, <3>2, MeantKept DEF meant
    <3>4. Meant(r, call[r]).op = req[r].op
      BY <2>2, MeantType, RequestType
    <3>5. Promise!Effect(Meant(r, call[r]), table, table')
      BY <2>2, <2>6, <3>4, MeantEffect, SameEffect, RequestType DEF Effective
    <3>6. Promise!Apply(r)
      BY <2>6, <3>1, <3>2, <3>3, <3>4, <3>5, PromiseVocabulary
         DEF Effective, Promise!Apply, Promise!Move, callers, meant
    <3>. QED
      BY <3>6 DEF Promise!Next
  <2>. QED
    BY <2>1, <2>5, <2>6
<1>. QED
  BY <1>2, <1>3 DEF Serve

\* What the store promises reaches the caller, whoever goes away and whatever
\* fails: unless ids are read-only for a caller that replaces by id.
THEOREM ForCaller ==
    ASSUME NoReadOnlyReplace
    PROVE  XSpec => ImplementsForCaller
<1>1. XInit => Promise!Init
  <2>. SUFFICES ASSUME XInit PROVE Promise!Init
    OBVIOUS
  <2>1. table \in Tables
    BY InitControl DEF XInit, ControlInv, TypeOK
  <2>2. \A r \in Slots : call[r] \in CallSet /\ CallerPhase(r) = "idle"
    BY InitCallers DEF XInv, XTypeOK, XInit, CallerPhase
  <2>3. \A r \in Slots : Meant(r, call[r]) \in RequestSet
    BY <2>2, MeantType
  <2>4. /\ callers = [r \in Slots |-> "idle"]
        /\ meant \in [Slots -> RequestSet]
    BY <2>2, <2>3 DEF callers, meant
  <2>. QED
    BY <2>1, <2>4, PromiseVocabulary DEF Promise!Init, callers, meant
<1>2. IInv /\ XInv /\ [XNext]_xvars => [Promise!Next]_(Promise!vars)
  <2>. SUFFICES ASSUME IInv, XInv, [XNext]_xvars PROVE [Promise!Next]_(Promise!vars)
    OBVIOUS
  <2>1. ASSUME (Expire /\ UNCHANGED client) \/ UNCHANGED xvars
        PROVE  UNCHANGED Promise!vars
    BY <2>1 DEF Expire, client, xvars, vars, store, handler, Promise!vars, CallerPhase, Idle,
       Meant, RequestFor
  <2>2. ASSUME NEW r \in Slots, Call(r) \/ Send(r) \/ Ends(r) \/ Serve(r)
        PROVE  [Promise!Next]_(Promise!vars)
    BY <2>2, CallRefined, SendRefined, EndRefined, ServeRefined
  <2>. QED
    BY <2>1, <2>2 DEF XNext, Ends
<1>. QED
  BY <1>1, <1>2, Callers, ServiceUnderCalls, Invariant, PTL
     DEF XSpec, ImplementsForCaller, Promise!Spec
=============================================================================
