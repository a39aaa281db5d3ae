------------------------------ MODULE Lifecycle ------------------------------
(***************************************************************************)
(* The life of the service process: the configuration is checked and       *)
(* completed (pkg/types), the backends are opened one after the other and  *)
(* their DDL statements executed, requests are served, the server is       *)
(* closed (pkg/server, pkg/crud, pkg/cmd).  A start may fail or be killed  *)
(* at any point; what it did to the databases stays, and the next start    *)
(* finds it.                                                               *)
(***************************************************************************)
EXTENDS Naturals, Sequences, FiniteSets

CONSTANTS
    Names,          \* names a configuration may give its backends
    Named,          \* those that match the pattern of a name
    Files,          \* the configurations
    NoEntry,        \* a backend's name without anything below it
    NoBackend,      \* "no backend"
    Faults          \* what may go wrong, a subset of FaultKinds

FaultKinds == {
    "server",       \* the section of the server does not pass its check
    "ddl",          \* the database refuses a DDL statement
    "reply",        \* the connection breaks after one took effect
    "listen",       \* the address cannot be bound
    "kill" }        \* the process is killed

Permissions == {"create", "read", "update", "delete"}
Flags       == {"unset", "yes", "no"}

\* "once" is a statement that fails when it took effect before, as CREATE TABLE
\* does without IF NOT EXISTS.
Statements == {"repeatable", "once"}

\* One backend in the file: its driver, its flags and its init_ddls.
Entries == [driver : {"unset", "mysql", "unknown"}, flags : [Permissions -> Flags],
            ddls : Seq(Statements)]

ASSUME LifecycleAssumption ==
    /\ IsFiniteSet(Names)
    /\ Named \subseteq Names
    /\ NoBackend \notin Names
    /\ NoEntry \notin Entries
    /\ Faults \subseteq FaultKinds
    /\ \A f \in Files : \E S \in SUBSET Names : f \in [S -> Entries \cup {NoEntry}]

VARIABLES
    file,           \* the configuration
    pc,             \* where the process is
    grant,          \* what each backend allows, once defaults are set
    toOpen,         \* backends the loop of Run has not come to
    opening,        \* the one it is at
    ddl,            \* the statement it is at
    ran,            \* statements executed since the process started
    applied,        \* statements that ever took effect
    handles,        \* backends with an open sql.DB
    db,             \* those whose BackendConfig.db is set
    crudMap,        \* those that requests find
    fault           \* history: something went wrong since the process started

process == <<grant, toOpen, opening, ddl, ran, handles, db, crudMap>>
vars    == <<file, pc, grant, toOpen, opening, ddl, ran, applied, handles, db, crudMap,
             fault>>

Labels == {"down", "loaded", "opening", "serving", "closing", "closed", "panicked"}

Configured == DOMAIN file
DDLs(b)    == file[b].ddls

Init ==
    /\ file \in Files
    /\ pc = "down"
    /\ grant = [b \in Names |-> {}]
    /\ toOpen = {} /\ opening = NoBackend /\ ddl = 1
    /\ ran = {} /\ applied = {}
    /\ handles = {} /\ db = {} /\ crudMap = {}
    /\ fault = FALSE

-----------------------------------------------------------------------------
(* Check and normalisation.                                                *)

Start ==
    /\ pc = "down"
    /\ pc' = "loaded" /\ fault' = FALSE
    /\ UNCHANGED <<file, process, applied>>

\* The check of the server's section comes first.  In the order the map of the
\* backends is walked in, the first name that is not one and the first entry
\* that is nil both end the process.
Reject ==
    /\ pc = "loaded"
    /\ \/ "server" \in Faults /\ fault' = TRUE
       \/ /\ \/ Configured = {} \/ ~(Configured \subseteq Named)
             \/ \E b \in Configured : file[b] = NoEntry
          /\ UNCHANGED fault
    /\ pc' = "panicked"
    /\ UNCHANGED <<file, process, applied>>

Granted_ByDefault(flags) == {p \in Permissions : flags[p] # "no"}

Granted(flags) == {p \in Permissions : flags[p] = "yes"}
                     \cup {p \in {"read"} : flags[p] = "unset"}

CheckAndNormalize ==
    /\ pc = "loaded"
    /\ Configured # {} /\ Configured \subseteq Named /\ \A b \in Configured : file[b] # NoEntry
    /\ grant' = [b \in Names |-> IF b \in Configured THEN Granted(file[b].flags) ELSE {}]
    /\ toOpen' = Configured
    /\ pc' = "opening"
    /\ UNCHANGED <<file, opening, ddl, ran, applied, handles, db, crudMap, fault>>

-----------------------------------------------------------------------------
(* Run and BackendConfig.Open.                                             *)

Driver_NoDefault(b) == file[b].driver

Driver(b) == IF file[b].driver = "unset" THEN "mysql" ELSE file[b].driver

OpenHandle ==
    /\ pc = "opening" /\ opening = NoBackend
    /\ \E b \in toOpen :
          /\ Driver(b) = "mysql"
          /\ opening' = b
          /\ handles' = handles \cup {b}
    /\ ddl' = 1
    /\ UNCHANGED <<file, pc, grant, toOpen, ran, applied, db, crudMap, fault>>

NoDriver ==
    /\ pc = "opening" /\ opening = NoBackend
    /\ \E b \in toOpen : Driver(b) # "mysql"
    /\ pc' = "closing"
    /\ UNCHANGED <<file, process, applied, fault>>

AtDDL     == pc = "opening" /\ opening # NoBackend /\ ddl <= Len(DDLs(opening))
Statement == <<opening, ddl>>
Stale     == DDLs(opening)[ddl] = "once" /\ Statement \in applied

ExecDDL ==
    /\ AtDDL /\ ~Stale
    /\ ran' = ran \cup {Statement}
    /\ applied' = applied \cup {Statement}
    /\ ddl' = ddl + 1
    /\ UNCHANGED <<file, pc, grant, toOpen, opening, handles, db, crudMap, fault>>

DDLFails_Skipped ==
    /\ AtDDL
    /\ Stale \/ "ddl" \in Faults
    /\ ddl' = ddl + 1
    /\ UNCHANGED <<file, pc, grant, toOpen, opening, ran, applied, handles, db, crudMap, fault>>

DDLFails_NextBackend ==
    /\ AtDDL
    /\ Stale \/ "ddl" \in Faults
    /\ opening' = NoBackend
    /\ toOpen' = toOpen \ {opening}
    /\ UNCHANGED <<file, pc, grant, ddl, ran, applied, handles, db, crudMap, fault>>

\* Open returns: the handle stays open, and be.db is not set.
DDLFails ==
    /\ AtDDL
    /\ \/ Stale /\ UNCHANGED <<applied, fault>>
       \/ "ddl" \in Faults /\ fault' = TRUE /\ UNCHANGED applied
       \/ ~Stale /\ "reply" \in Faults /\ fault' = TRUE /\ applied' = applied \cup {Statement}
    /\ pc' = "closing"
    /\ UNCHANGED <<file, process>>

Opened ==
    /\ pc = "opening" /\ opening # NoBackend /\ ddl > Len(DDLs(opening))
    /\ db' = db \cup {opening}
    /\ crudMap' = crudMap \cup {opening}
    /\ toOpen' = toOpen \ {opening}
    /\ opening' = NoBackend
    /\ UNCHANGED <<file, pc, grant, ddl, ran, applied, handles, fault>>

Listen ==
    /\ pc = "opening" /\ opening = NoBackend /\ toOpen = {}
    /\ \/ pc' = "serving" /\ UNCHANGED fault
       \/ "listen" \in Faults /\ pc' = "closing" /\ fault' = TRUE
    /\ UNCHANGED <<file, process, applied>>

-----------------------------------------------------------------------------
(* The end.                                                                *)

\* RunUntil returns.
Stop ==
    /\ pc = "serving"
    /\ pc' = "closing"
    /\ UNCHANGED <<file, process, applied, fault>>

\* The deferred Close of the server runs however Run ended.  The Close of each
\* value of crudMap is that of the nil io.Closer embedded in crud.impl; nothing
\* calls BackendConfig.Close.
Close ==
    /\ pc = "closing"
    /\ pc' = IF crudMap = {} THEN "closed" ELSE "panicked"
    /\ UNCHANGED <<file, process, applied, fault>>

\* Close has returned, so that no backend got into service: Run failed, main has
\* panicked with its error, and that panic goes on.
Rethrow ==
    /\ pc = "closed"
    /\ pc' = "panicked"
    /\ UNCHANGED <<file, process, applied, fault>>

\* The process is gone, and with it all but what is in the databases.
End ==
    /\ pc' = "down"
    /\ grant' = [b \in Names |-> {}]
    /\ toOpen' = {} /\ opening' = NoBackend /\ ddl' = 1
    /\ ran' = {}
    /\ handles' = {} /\ db' = {} /\ crudMap' = {}
    /\ UNCHANGED <<file, applied>>

Exit == pc = "panicked" /\ End /\ UNCHANGED fault
Kill == pc # "down" /\ "kill" \in Faults /\ End /\ fault' = TRUE

-----------------------------------------------------------------------------
Run == OpenHandle \/ NoDriver \/ ExecDDL \/ DDLFails \/ Opened \/ Listen

Next == Start \/ Reject \/ CheckAndNormalize \/ Run \/ Stop \/ Close \/ Rethrow \/ Exit \/ Kill

Spec == Init /\ [][Next]_vars

\* The goroutine of main goes on as long as the process lives.
Fairness == WF_vars(Reject \/ CheckAndNormalize \/ Run \/ Close \/ Rethrow \/ Exit)

FairSpec == Spec /\ Fairness

-----------------------------------------------------------------------------
(* Correctness.                                                            *)

TypeOK ==
    /\ file \in Files
    /\ pc \in Labels
    /\ grant \in [Names -> SUBSET Permissions]
    /\ toOpen \subseteq Names
    /\ opening \in Names \cup {NoBackend}
    /\ ddl \in Nat \ {0}
    /\ handles \subseteq Names /\ db \subseteq Names /\ crudMap \subseteq Names
    /\ fault \in BOOLEAN

\* The inductive invariant: how far the loop of Run is.
Executed(b, n) == \A k \in 1..n : <<b, k>> \in ran

Progress ==
    /\ pc \in {"down", "loaded"} =>
          toOpen = {} /\ opening = NoBackend /\ handles = {} /\ crudMap = {}
    /\ pc \in {"opening", "serving"} =>
          /\ Configured # {} /\ \A b \in Configured : file[b] # NoEntry
          /\ toOpen \subseteq Configured /\ crudMap = Configured \ toOpen
          /\ \A b \in Configured : grant[b] = Granted(file[b].flags)
    /\ pc = "serving" => toOpen = {} /\ opening = NoBackend
    /\ pc = "closed" => crudMap = {}
    /\ opening # NoBackend => opening \in toOpen /\ ddl <= Len(DDLs(opening)) + 1
                                 /\ opening \in Configured /\ Executed(opening, ddl - 1)
    /\ \A b \in crudMap : b \in Configured /\ Executed(b, Len(DDLs(b)))
    /\ db = crudMap
    /\ handles = db \cup ({opening} \ {NoBackend})

Inv == TypeOK /\ Progress

\* A request is served only by a process that opened every backend of its
\* configuration and executed every statement of each, in this run and in spite
\* of what earlier runs left half done; and a backend allows what its entry
\* says, or to read only (README.md:33).
ServedIsReady ==
    pc = "serving" =>
       /\ Configured # {} /\ crudMap = Configured /\ db = Configured
       /\ \A b \in Configured :
             /\ \A k \in DOMAIN DDLs(b) : <<b, k>> \in ran
             /\ \A p \in grant[b] :
                   file[b].flags[p] = "yes" \/ (p = "read" /\ file[b].flags[p] = "unset")

\* The database handles of a process are those of the backends in service, and
\* at most one that nothing refers to: that of a backend whose statement failed.
\* Close returns only when no backend got into service, and leaves that one; the
\* process ends in a panic either way.
HandlesAccounted ==
    /\ crudMap = db /\ db \subseteq handles
    /\ Cardinality(handles \ db) <= 1
    /\ pc = "serving" => handles = db
    /\ pc = "closed" => crudMap = {}

Sound ==
    /\ Configured # {} /\ Configured \subseteq Named
    /\ \A b \in Configured :
          file[b] # NoEntry /\ file[b].driver # "unknown"
             /\ \A k \in DOMAIN DDLs(b) : DDLs(b)[k] = "repeatable"

\* A sound configuration comes into service unless something goes wrong in this
\* very start, whatever earlier ones that failed or were killed have done to the
\* databases.
StartServes == pc = "loaded" /\ Sound ~> pc = "serving" \/ fault
=============================================================================
