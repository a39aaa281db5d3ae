--------------------------- MODULE LifecycleProofs ---------------------------
(***************************************************************************)
(* Theorems about Lifecycle: what a process in service has done, and which *)
(* database handles it holds, for any configuration and any faults.        *)
(***************************************************************************)
EXTENDS Lifecycle, FiniteSetTheorems, TLAPS

LEMMA InitInv == Init => Inv
<1>. SUFFICES ASSUME Init PROVE Inv
  OBVIOUS
<1>1. TypeOK
  <2>1. grant \in [Names -> SUBSET Permissions] /\ fault \in BOOLEAN
    BY Zenon DEF Init
  <2>. QED
    BY <2>1 DEF Init, TypeOK, Labels
<1>2. Progress
  BY DEF Init, Progress
<1>. QED
  BY <1>1, <1>2 DEF Inv

\* An entry that is not nil has a sequence of statements.
LEMMA EntryType ==
    ASSUME TypeOK, NEW b \in Configured, file[b] # NoEntry
    PROVE  b \in Names /\ Len(DDLs(b)) \in Nat /\ DDLs(b) \in Seq(Statements)
<1>1. PICK S \in SUBSET Names : file \in [S -> Entries \cup {NoEntry}]
  BY LifecycleAssumption DEF TypeOK
<1>2. file[b] \in Entries
  BY <1>1 DEF Configured
<1>. QED
  BY <1>1, <1>2 DEF Configured, Entries, DDLs

\* The process at rest, before it opens anything or after it is gone.
LEMMA EndInv ==
    ASSUME Inv, End, fault' \in BOOLEAN
    PROVE  Inv'
BY DEF Inv, TypeOK, Progress, End, Labels

LEMMA StartSteps ==
    ASSUME Inv, Start \/ Reject \/ CheckAndNormalize
    PROVE  Inv'
<1>. USE DEF Inv
<1>1. CASE Start
  BY <1>1 DEF Start, process, TypeOK, Progress, Labels, DDLs, Executed, Configured
<1>2. CASE Reject
  <2>1. pc' = "panicked" /\ UNCHANGED <<file, process, applied>> /\ fault' \in BOOLEAN
    BY <1>2 DEF Reject, TypeOK
  <2>. QED
    BY <2>1 DEF process, TypeOK, Progress, Labels, DDLs, Executed, Configured
<1>3. CASE CheckAndNormalize
  <2>1. TypeOK'
    <3>1. \A f : Granted(f) \in SUBSET Permissions
      BY DEF Granted, Permissions
    <3>2. grant' \in [Names -> SUBSET Permissions]
      <4>1. grant' = [b \in Names |-> IF b \in Configured THEN Granted(file[b].flags) ELSE {}]
        BY <1>3 DEF CheckAndNormalize
      <4>. QED
        BY <3>1, <4>1, Zenon
    <3>3. Configured \subseteq Names /\ fault' \in BOOLEAN
      BY <1>3, LifecycleAssumption DEF CheckAndNormalize, TypeOK, Configured
    <3>. QED
      BY <1>3, <3>2, <3>3 DEF CheckAndNormalize, TypeOK, Labels
  <2>2. crudMap' = {} /\ toOpen' = Configured' /\ opening' = NoBackend /\ Configured' = Configured
    BY <1>3 DEF CheckAndNormalize, Progress, Configured
  <2>3. \A b \in Configured : grant'[b] = Granted(file[b].flags)
    BY <1>3, LifecycleAssumption DEF CheckAndNormalize, TypeOK, Configured
  <2>. QED
    BY <1>3, <2>1, <2>2, <2>3 DEF CheckAndNormalize, Progress, Configured
<1>. QED
  BY <1>1, <1>2, <1>3

LEMMA RunSteps ==
    ASSUME Inv, Run
    PROVE  Inv'
<1>. USE DEF Inv, Configured
<1>1. CASE OpenHandle
  <2>1. PICK b \in toOpen : opening' = b /\ handles' = handles \cup {b}
    BY <1>1 DEF OpenHandle
  <2>2. /\ pc = "opening" /\ opening = NoBackend /\ ddl' = 1 /\ b \in Configured
        /\ UNCHANGED <<file, pc, grant, toOpen, ran, db, crudMap, fault>>
    BY <1>1, <2>1 DEF OpenHandle, Progress
  <2>3. b \in Names /\ Len(DDLs(b)) \in Nat
    BY <2>2, EntryType DEF Progress
  <2>4. TypeOK'
    BY <2>1, <2>2, <2>3 DEF TypeOK
  <2>5. Executed(b, 0)
    BY DEF Executed
  <2>6. b # NoBackend
    BY <2>3, LifecycleAssumption
  <2>. QED
    BY <2>1, <2>2, <2>3, <2>4, <2>5, <2>6 DEF Progress, DDLs, Executed
<1>2. CASE NoDriver
  BY <1>2 DEF NoDriver, process, TypeOK, Progress, Labels, DDLs, Executed
<1>3. CASE ExecDDL
  <2>1. /\ pc = "opening" /\ opening # NoBackend /\ ddl <= Len(DDLs(opening))
        /\ ran' = ran \cup {<<opening, ddl>>} /\ ddl' = ddl + 1
        /\ UNCHANGED <<file, pc, grant, toOpen, opening, handles, db, crudMap, fault>>
    BY <1>3 DEF ExecDDL, AtDDL, Statement
  <2>2. Len(DDLs(opening)) \in Nat /\ ddl \in Nat \ {0}
    BY <2>1, EntryType DEF Progress, TypeOK
  <2>3. TypeOK'
    BY <2>1, <2>2 DEF TypeOK
  <2>4. \A b, m : Executed(b, m) => Executed(b, m)'
    BY <2>1 DEF Executed
  <2>5. Executed(opening, ddl - 1)
    BY <2>1 DEF Progress
  <2>6. Executed(opening, ddl - 1)'
    BY <2>1, <2>2, <2>5 DEF Executed
  <2>. QED
    BY <2>1, <2>2, <2>3, <2>4, <2>6 DEF Progress, DDLs
<1>4. CASE DDLFails
  <2>1. /\ pc' = "closing"
        /\ UNCHANGED <<file, grant, toOpen, opening, ddl, ran, handles, db, crudMap>>
    BY <1>4 DEF DDLFails, process
  <2>2. fault' \in BOOLEAN
    BY <1>4 DEF DDLFails, process, TypeOK
  <2>. QED
    BY <2>1, <2>2 DEF TypeOK, Progress, Labels, DDLs, Executed
<1>5. CASE Opened
  <2>1. /\ pc = "opening" /\ opening # NoBackend /\ ddl > Len(DDLs(opening))
        /\ db' = db \cup {opening} /\ crudMap' = crudMap \cup {opening}
        /\ toOpen' = toOpen \ {opening} /\ opening' = NoBackend
        /\ UNCHANGED <<file, pc, grant, ddl, ran, handles, fault>>
    BY <1>5 DEF Opened
  <2>2. opening \in toOpen /\ opening \in Configured /\ Len(DDLs(opening)) \in Nat
    BY <2>1, EntryType DEF Progress
  <2>3. Executed(opening, Len(DDLs(opening)))
    BY <2>1, <2>2 DEF Progress, TypeOK, Executed
  <2>4. TypeOK'
    BY <2>1, <2>2 DEF TypeOK
  <2>. QED
    BY <2>1, <2>2, <2>3, <2>4 DEF Progress, DDLs, Executed
<1>6. CASE Listen
  <2>1. /\ pc = "opening" /\ opening = NoBackend /\ toOpen = {} /\ pc' \in {"serving", "closing"}
        /\ UNCHANGED <<file, grant, toOpen, opening, ddl, ran, handles, db, crudMap>>
        /\ fault' \in BOOLEAN
    BY <1>6 DEF Listen, process, TypeOK
  <2>. QED
    BY <2>1 DEF TypeOK, Progress, Labels, DDLs, Executed
<1>. QED
  BY <1>1, <1>2, <1>3, <1>4, <1>5, <1>6 DEF Run

LEMMA LastSteps ==
    ASSUME Inv, Stop \/ Close \/ Rethrow \/ Exit \/ Kill
    PROVE  Inv'
<1>1. CASE Stop \/ Close \/ Rethrow
  BY <1>1 DEF Inv, Stop, Close, Rethrow, process, TypeOK, Progress, Labels, DDLs, Executed, Configured
<1>2. CASE Exit \/ Kill
  BY <1>2, EndInv DEF Exit, Kill, Inv, TypeOK
<1>. QED
  BY <1>1, <1>2

\* How far the loop of Run is, at every point of every run of the process.
THEOREM Invariant == Spec => []Inv
<1>1. Inv /\ [Next]_vars => Inv'
  <2>. SUFFICES ASSUME Inv, [Next]_vars PROVE Inv'
    OBVIOUS
  <2>1. CASE UNCHANGED vars
    BY <2>1 DEF vars, Inv, TypeOK, Progress, DDLs, Executed, Configured
  <2>. QED
    BY <2>1, StartSteps, RunSteps, LastSteps DEF Next
<1>. QED
  BY <1>1, InitInv, PTL DEF Spec

\* Who is in service has opened all its backends and executed all their
\* statements in this run, and allows what was asked for.
THEOREM Ready == Spec => []ServedIsReady
<1>1. Inv => ServedIsReady
  <2>. SUFFICES ASSUME Inv, pc = "serving" PROVE ServedIsReady
    BY DEF ServedIsReady
  <2>1. Configured # {} /\ crudMap = Configured /\ db = Configured
    BY DEF Inv, Progress
  <2>2. ASSUME NEW b \in Configured
        PROVE  /\ \A k \in DOMAIN DDLs(b) : <<b, k>> \in ran
               /\ \A p \in grant[b] :
                     file[b].flags[p] = "yes" \/ (p = "read" /\ file[b].flags[p] = "unset")
    <3>1. file[b] # NoEntry /\ Executed(b, Len(DDLs(b))) /\ grant[b] = Granted(file[b].flags)
      BY <2>1, <2>2 DEF Inv, Progress
    <3>2. DOMAIN DDLs(b) = 1..Len(DDLs(b))
      BY <2>2, <3>1, EntryType DEF Inv
    <3>. QED
      BY <3>1, <3>2 DEF Executed, Granted
  <2>. QED
    BY <2>1, <2>2 DEF ServedIsReady
<1>. QED
  BY <1>1, Invariant, PTL

\* The handles of a process are those in service, and one at most besides.
THEOREM Handles == Spec => []HandlesAccounted
<1>1. Inv => HandlesAccounted
  <2>. SUFFICES ASSUME Inv PROVE HandlesAccounted
    OBVIOUS
  <2>1. /\ db = crudMap /\ handles = db \cup ({opening} \ {NoBackend})
        /\ pc = "serving" => opening = NoBackend
        /\ pc = "closed" => crudMap = {}
    BY DEF Inv, Progress
  <2>2. handles \ db \subseteq {opening}
    BY <2>1
  <2>3. IsFiniteSet({opening}) /\ Cardinality({opening}) = 1
    BY FS_Singleton
  <2>4. Cardinality(handles \ db) <= 1
    BY <2>2, <2>3, FS_Subset
  <2>. QED
    BY <2>1, <2>4 DEF HandlesAccounted
<1>. QED
  BY <1>1, Invariant, PTL
=============================================================================
