------------------------------- MODULE MCDesk -------------------------------
(***************************************************************************)
(* Small instances of the GTK window, of what stands behind the C          *)
(* interface (saved profiles, host keys, the pool of tunnels, exports and  *)
(* the handle of a run), of what a session is made of (its pool and its    *)
(* gate) and of three drivers (searches and edits in Elasticsearch, a      *)
(* SQLite and a MySQL connection).  They share no state here, so one of    *)
(* them moves in a behaviour and the others stand still; one run checks    *)
(* them all.                                                               *)
(***************************************************************************)
EXTENDS Profiles, HostKeys, TunnelPool, Export, QueryHandle, EsSearch, EsMutate,
        SqliteWorker, MySqlActor, SessionPool, SafetyGate, ResultTabs, TLC

CONSTANTS a, b

VARIABLE moves

deskVars == <<profilesVars, hostKeyVars, tunnelVars, exportVars, handleVars>>
driverVars == <<esVars, mutateVars, workerVars, mysqlVars>>
frontendVars == <<poolVars, gateVars, tabsVars>>

\* Two keys of one algorithm and one of another; the system knows one host by the first.
KeyAlgorithm == [k \in Keys |-> IF k = "k3" THEN "rsa" ELSE "ed25519"]
KnownToSystem == {<<"h1", "k1">>}

\* The limits of MCEsSearch as well.
NoLimitOrTwo == {NoLimit, 0, 2, 3}

\* A part that stands still begins in one way only.
Init ==
    /\ moves \in {"profiles", "host keys", "tunnels", "exports", "handle",
                  "search", "mutate", "sqlite", "mysql", "pool", "gate", "tabs", "edits"}
    /\ ProfilesInit /\ HostKeysInit /\ TunnelInit /\ ExportInit /\ HandleInit
    /\ SearchInit /\ MutateInit /\ WorkerInit /\ MySqlInit
    /\ PoolInit /\ GateInit /\ TabsInit
    /\ moves # "search" => mode = "pit" /\ limit = NoLimit
    /\ moves # "mutate" => \A d \in Docs : seqNo[d] = Absent
    /\ moves # "gate" => level = "AuthWrites"

ProfilesMove == moves = "profiles" /\ ProfilesNext
HostKeysMove == moves = "host keys" /\ HostKeysNext
TunnelsMove == moves = "tunnels" /\ TunnelNext
ExportsMove == moves = "exports" /\ ExportNext
HandleMoves == moves = "handle" /\ HandleNext
SearchMoves == moves = "search" /\ SearchNext
MutateMoves == moves = "mutate" /\ MutateNext
SqliteMoves == moves = "sqlite" /\ WorkerNext
MySqlMoves == moves = "mysql" /\ MySqlNext
GateMoves == moves = "gate" /\ GateNext

\* Commands left behind, late reap events and connections that are closed, before all of
\* them are: two in all.
PoolMoves ==
    /\ moves = "pool" /\ PoolNext
    /\ Cardinality(busy') + Cardinality(fired')
         + Cardinality({i \in closed' : ~cancelled'}) <= 2

\* The window twice: with everything about runs and tabs, where edits are only staged; and
\* with everything about edits, in two runs that are asked for in some tab, on some
\* connection, each with nothing between its evaluation and its launch.
TabsMove == moves = "tabs" /\ (RunNext \/ FrontNext \/ \E d \in Documents : Stage(d))
EditsMove ==
    /\ moves = "edits"
    /\ \/ Evaluated
       \/ ~gating /\ \E c \in Connections : RunOn(c) \/ \E t \in Tabs : SetActiveTab(t, c)
       \/ ~gating /\ EditNext
    /\ Len(ran') < MaxRan /\ ceremonies' = 0

DeskNext ==
    \/ ProfilesMove /\ UNCHANGED <<hostKeyVars, tunnelVars, exportVars, handleVars>>
    \/ HostKeysMove /\ UNCHANGED <<profilesVars, tunnelVars, exportVars, handleVars>>
    \/ TunnelsMove /\ UNCHANGED <<profilesVars, hostKeyVars, exportVars, handleVars>>
    \/ ExportsMove /\ UNCHANGED <<profilesVars, hostKeyVars, tunnelVars, handleVars>>
    \/ HandleMoves /\ UNCHANGED <<profilesVars, hostKeyVars, tunnelVars, exportVars>>

DriversNext ==
    \/ SearchMoves /\ UNCHANGED <<mutateVars, workerVars, mysqlVars>>
    \/ MutateMoves /\ UNCHANGED <<esVars, workerVars, mysqlVars>>
    \/ SqliteMoves /\ UNCHANGED <<esVars, mutateVars, mysqlVars>>
    \/ MySqlMoves /\ UNCHANGED <<esVars, mutateVars, workerVars>>

FrontendNext ==
    \/ PoolMoves /\ UNCHANGED <<gateVars, tabsVars>>
    \/ GateMoves /\ UNCHANGED <<poolVars, tabsVars>>
    \/ (TabsMove \/ EditsMove) /\ UNCHANGED <<poolVars, gateVars>>

Next ==
    /\ UNCHANGED moves
    /\ \/ DeskNext /\ UNCHANGED <<driverVars, frontendVars>>
       \/ DriversNext /\ UNCHANGED <<deskVars, frontendVars>>
       \/ FrontendNext /\ UNCHANGED <<deskVars, driverVars>>

Spec == Init /\ [][Next]_<<deskVars, driverVars, frontendVars, moves>>

\* The threads, windows, exports, callers or tabs of one part differ in nothing, and no
\* property is a liveness property.
Symmetry == Permutations({a, b})

\* Every part of it has its types.
DeskTypeOK ==
    /\ moves = "profiles" => ProfilesTypeOK
    /\ moves = "host keys" => HostKeysTypeOK
    /\ moves = "tunnels" => TunnelTypeOK
    /\ moves = "exports" => ExportTypeOK
    /\ moves = "handle" => HandleTypeOK
    /\ moves = "search" => SearchTypeOK
    /\ moves = "mutate" => MutateTypeOK
    /\ moves = "sqlite" => WorkerTypeOK
    /\ moves = "mysql" => MySqlTypeOK
    /\ moves = "pool" => PoolTypeOK
    /\ moves = "gate" => GateTypeOK
    /\ moves \in {"tabs", "edits"} => TabsTypeOK

\* Each part whose users rely on a simpler picture of it implements that picture: a batch
\* of edits is atomic in SQLite and in MySQL, and a lease is exclusive until it ends.
\* (SqliteImplementsBatch, MySqlImplementsBatch and PoolImplementsLeases, in the part that moves.)
PromisesAreKept ==
    /\ SqliteBatches!BatchInit /\ MySqlBatches!BatchInit /\ PoolLeases!LeaseInit
    /\ [][moves = "sqlite" => SqliteBatches!BatchNext \/ stuck']_(SqliteBatches!batchVars)
    /\ [][moves = "mysql" => MySqlBatches!BatchNext]_(MySqlBatches!batchVars)
    /\ [][moves = "pool" => PoolLeases!LeaseNext]_(PoolLeases!leaseVars)
=============================================================================
