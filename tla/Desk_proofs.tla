---------------------------- MODULE Desk_proofs ----------------------------
(***************************************************************************)
(* What is proved of the composition MCDesk: each part of it moves as its  *)
(* own specification lets it, so that whatever is proved or checked of one *)
(* part by itself holds in the composition, and the other way round the    *)
(* one run of MCDesk is a run of every part.                               *)
(***************************************************************************)
EXTENDS MCDesk, Frontend_proofs, Interface_proofs, Drivers_proofs

AllVars == <<deskVars, driverVars, frontendVars, moves>>

\* One part moves, the others stand still.
DeskPartsStep ==
    /\ [ProfilesNext]_profilesVars /\ [HostKeysNext]_hostKeyVars /\ [TunnelNext]_tunnelVars
    /\ [ExportNext]_exportVars /\ [HandleNext]_handleVars
DriverPartsStep ==
    [SearchNext]_esVars /\ [MutateNext]_mutateVars /\ [WorkerNext]_workerVars /\ [MySqlNext]_mysqlVars
FrontendPartsStep == [PoolNext]_poolVars /\ [GateNext]_gateVars /\ [TabsNext]_tabsVars

\* The two runs of the window are steps of it.
LEMMA WindowSteps == TabsMove \/ EditsMove => TabsNext
<1>1. TabsMove => TabsNext
  BY DEF TabsMove, TabsNext, EditNext
<1>2. EditsMove => TabsNext
  <2>1. ASSUME NEW c \in Connections PROVE c \in Profiled
    BY DEF Profiled
  <2>2. ASSUME NEW t \in Tabs PROVE t \in Names
    BY DEF Names
  <2>3. (\E c \in Connections : RunOn(c) \/ \E t \in Tabs : SetActiveTab(t, c)) => RunNext \/ FrontNext
    BY <2>1, <2>2 DEF RunNext, FrontNext
  <2>4. Evaluated => RunNext
    BY DEF RunNext
  <2> QED BY <2>3, <2>4 DEF EditsMove, TabsNext
<1> QED BY <1>1, <1>2

LEMMA PartsStep == [Next]_AllVars => DeskPartsStep /\ DriverPartsStep /\ FrontendPartsStep
<1> SUFFICES ASSUME [Next]_AllVars PROVE DeskPartsStep /\ DriverPartsStep /\ FrontendPartsStep
  OBVIOUS
<1>1. UNCHANGED deskVars => DeskPartsStep
  BY DEF deskVars, DeskPartsStep
<1>2. UNCHANGED driverVars => DriverPartsStep
  BY DEF driverVars, DriverPartsStep
<1>3. UNCHANGED frontendVars => FrontendPartsStep
  BY DEF frontendVars, FrontendPartsStep
<1>4. DeskNext => DeskPartsStep
  BY DEF DeskNext, DeskPartsStep, ProfilesMove, HostKeysMove, TunnelsMove, ExportsMove, HandleMoves
<1>5. DriversNext => DriverPartsStep
  BY DEF DriversNext, DriverPartsStep, SearchMoves, MutateMoves, SqliteMoves, MySqlMoves
<1>6. FrontendNext => FrontendPartsStep
  BY WindowSteps DEF FrontendNext, FrontendPartsStep, PoolMoves, GateMoves
<1>7. CASE Next
  <2>1. \/ DeskNext /\ UNCHANGED driverVars /\ UNCHANGED frontendVars
        \/ DriversNext /\ UNCHANGED deskVars /\ UNCHANGED frontendVars
        \/ FrontendNext /\ UNCHANGED deskVars /\ UNCHANGED driverVars
    BY <1>7 DEF Next
  <2> QED BY <1>1, <1>2, <1>3, <1>4, <1>5, <1>6, <2>1
<1>8. CASE UNCHANGED AllVars
  <2>1. UNCHANGED deskVars /\ UNCHANGED driverVars /\ UNCHANGED frontendVars
    BY <1>8 DEF AllVars
  <2> QED BY <1>1, <1>2, <1>3, <2>1
<1> QED BY <1>7, <1>8

\* Every behaviour of the composition is one of each of its parts: what MCDesk adds (which
\* part moves, the bounds of the pool and of the window) only leaves behaviours out.
THEOREM DeskIsItsParts ==
    Spec => /\ ProfilesSpec /\ HostKeysSpec /\ TunnelSpec /\ ExportSpec /\ HandleSpec
            /\ SearchSpec /\ MutateSpec /\ WorkerSpec /\ MySqlSpec
            /\ PoolSpec /\ GateSpec /\ TabsSpec
<1>1. Init => /\ ProfilesInit /\ HostKeysInit /\ TunnelInit /\ ExportInit /\ HandleInit
              /\ SearchInit /\ MutateInit /\ WorkerInit /\ MySqlInit
              /\ PoolInit /\ GateInit /\ TabsInit
  BY DEF Init
<1>2. [Next]_AllVars =>
         /\ [ProfilesNext]_profilesVars /\ [HostKeysNext]_hostKeyVars /\ [TunnelNext]_tunnelVars
         /\ [ExportNext]_exportVars /\ [HandleNext]_handleVars
         /\ [SearchNext]_esVars /\ [MutateNext]_mutateVars /\ [WorkerNext]_workerVars /\ [MySqlNext]_mysqlVars
         /\ [PoolNext]_poolVars /\ [GateNext]_gateVars /\ [TabsNext]_tabsVars
  BY PartsStep DEF DeskPartsStep, DriverPartsStep, FrontendPartsStep
<1> QED BY <1>1, <1>2, PTL DEF Spec, AllVars, ProfilesSpec, HostKeysSpec, TunnelSpec, ExportSpec, HandleSpec,
           SearchSpec, MutateSpec, WorkerSpec, MySqlSpec, PoolSpec, GateSpec, TabsSpec

\* The variables of every part have their types, whichever part moves.
THEOREM DeskTypes == Spec => []DeskTypeOK
<1>1. /\ ProfilesTypeOK /\ HostKeysTypeOK /\ TunnelTypeOK /\ ExportTypeOK /\ HandleTypeOK
      /\ SearchTypeOK /\ MutateTypeOK /\ WorkerTypeOK /\ MySqlTypeOK
      /\ PoolTypeOK /\ GateTypeOK /\ TabsTypeOK
      => DeskTypeOK
  BY DEF DeskTypeOK
<1> QED BY <1>1, DeskIsItsParts, ProfilesKeepTypes, HostKeysKeepTypes, TunnelTypes, ExportsKeepTypes, HandleTypes,
           SearchesKeepTypes, EditsKeepTypes, SqliteTypes, MySqlTypes, PoolTypes, GateTypes, TabTypes, PTL

\* The batches of SQLite and MySQL and the leases of the pool are what MutationBatch and
\* Leases promise, whichever part moves.
THEOREM DeskKeepsPromises == Spec => PromisesAreKept
<1>1. [SqliteBatches!BatchNext \/ stuck']_(SqliteBatches!batchVars)
      => [moves = "sqlite" => SqliteBatches!BatchNext \/ stuck']_(SqliteBatches!batchVars)
  OBVIOUS
<1>2. [MySqlBatches!BatchNext]_(MySqlBatches!batchVars)
      => [moves = "mysql" => MySqlBatches!BatchNext]_(MySqlBatches!batchVars)
  OBVIOUS
<1>3. [PoolLeases!LeaseNext]_(PoolLeases!leaseVars)
      => [moves = "pool" => PoolLeases!LeaseNext]_(PoolLeases!leaseVars)
  OBVIOUS
<1>4. SqliteImplementsBatch
      => SqliteBatches!BatchInit /\ [][moves = "sqlite" => SqliteBatches!BatchNext \/ stuck']_(SqliteBatches!batchVars)
  BY <1>1, PTL DEF SqliteImplementsBatch
<1>5. MySqlImplementsBatch
      => MySqlBatches!BatchInit /\ [][moves = "mysql" => MySqlBatches!BatchNext]_(MySqlBatches!batchVars)
  BY <1>2, PTL DEF MySqlImplementsBatch, MySqlBatches!BatchSpec
<1>6. PoolImplementsLeases
      => PoolLeases!LeaseInit /\ [][moves = "pool" => PoolLeases!LeaseNext]_(PoolLeases!leaseVars)
  BY <1>3, PTL DEF PoolImplementsLeases, PoolLeases!LeaseSpec
<1> QED BY <1>4, <1>5, <1>6, DeskIsItsParts, SqliteBatchesAreAtomic, MySqlBatchesAreAtomic, PoolIsLeases, PTL
    DEF PromisesAreKept
=============================================================================
