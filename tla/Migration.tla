----------------------------- MODULE Migration ------------------------------
(***************************************************************************)
(* Replacing the Booster (tasks/shutdown): a task reads the pools of the   *)
(* first booster and writes files of calls; the DAO's safe signs and       *)
(* executes each file later, all of its calls or none.  In between anybody *)
(* may add a pool to the first booster, whose pool manager is open, a      *)
(* gauge may be killed or lose its weight to other votes, and the DAO may  *)
(* close a pool by hand.                                                   *)
(***************************************************************************)
EXTENDS Integers, Sequences, FiniteSets, Functions, Lists

CONSTANTS Gauges,        \* those with a pool of the first booster, in the order of its pids
          ShutdownTo,    \* the booster whose pool manager the generated shutdownPool calls address
          InitialPools,  \* the gauges listed in shutdown:generate for the second booster
          Migrated,      \* the pids listed in migratepools47:generate
          MaxAdded,      \* bound: pools the public adds
          Foreign,       \* bound: the gauges the public may add pools for
          Mortal,        \* bound: the gauges that may be killed
          Fickle,        \* bound: the gauges whose weight comes and goes
          MaxGenerated   \* bound: runs of each task

ASSUME MigrationAssumption ==
    \* a booster takes one pool of a gauge at a time
    /\ Gauges \in Seq(Range(Gauges)) /\ IsInjective(Gauges)
    /\ ShutdownTo \in {1, 2} /\ {MaxAdded, MaxGenerated} \subseteq Nat
    /\ InitialPools \in Seq(Range(Gauges)) /\ Migrated \in Seq(Nat \ {0})

VARIABLES
    chain,      \* the contracts: see Contracts
    killed,     \* gauges the other protocol has killed
    weightless, \* gauges without weight in its gauge controller
    shutFiles,  \* gnosis_tx_1..3: the pids each closes; <<>> before they are generated
    addFiles,   \* gnosis_tx_i_add_new_pools: the gauges of each
    moveFiles,  \* aip26: the pids and their gauges of each
    executed,   \* the files executed since they were written: <<"shut", n>>, <<"system", 4>>, ...
    runs,       \* how often each task has written files
    basis,      \* the pids addpools:generate last found in gnosis_tx_1..3
    disturbed   \* pools added by the public, whether the DAO has closed one by hand before the
                \* first files were written, and whether a run of addpools:generate left a file of
                \* an earlier run beside its own

vars == <<chain, killed, weightless, shutFiles, addFiles, moveFiles, executed, runs, basis, disturbed>>
files == <<shutFiles, addFiles, moveFiles, runs, basis>>

Pool(g) == [gauge |-> g, shutdown |-> FALSE]
OpenPids(pools) == {i \in DOMAIN pools : ~pools[i].shutdown}
OpenGauges(pools) == {pools[i].gauge : i \in OpenPids(pools)}

(***************************************************************************)
(* The contracts, as a value, so that a file of calls can be all or        *)
(* nothing: the pools of each booster, whether the first booster's pool    *)
(* manager proxy and the first booster are shut down, and the operators of *)
(* the VoterProxy and of LIQ.  A gauge's pool is open exactly while the    *)
(* booster's gaugeMap has it (module Booster).                             *)
(***************************************************************************)
Contracts == [pools : [{1, 2} -> Seq([gauge : Range(Gauges) \cup Foreign, shutdown : BOOLEAN])],
              proxyShut : BOOLEAN, boosterShut : BOOLEAN, operator : {1, 2}, liqOperator : {1, 2}]

ShutdownPool(b, pid) == [fn |-> "shutdownPool", booster |-> b, pid |-> pid]
AddPool(b, g) == [fn |-> "addPool", booster |-> b, gauge |-> g]
ShutdownSystems == <<[fn |-> "proxy.shutdownSystem"], [fn |-> "boosterOwner.shutdownSystem"]>>
\* slip: LIQ is not told
SlipUpdateOperator == <<[fn |-> "setOperator"]>>
UpdateOperator == <<[fn |-> "setOperator"], [fn |-> "updateOperator"]>>
AddPools(gauges) == [i \in 1..Len(gauges) |-> AddPool(2, gauges[i])]
ShutdownPools(pids) == [i \in 1..Len(pids) |-> ShutdownPool(ShutdownTo, pids[i])]

\* slip: whether the gauge has a pool is not asked
SlipCanAdd(s, b, g) ==
    g \notin weightless /\ ~(b = 1 /\ (s.proxyShut \/ s.boosterShut)) /\ s.operator = b
\* PoolManager, PoolManagerProxy.addPool, and setStashAccess, which is the operator's
CanAdd(s, b, g) ==
    /\ g \notin weightless
    /\ g \notin OpenGauges(s.pools[b])
    /\ ~(b = 1 /\ (s.proxyShut \/ s.boosterShut)) /\ s.operator = b

\* what the contracts require of a call
Allowed(s, call) ==
    CASE call.fn = "shutdownPool" ->
            /\ call.pid \in DOMAIN s.pools[call.booster] /\ ~s.pools[call.booster][call.pid].shutdown
            /\ ~(call.booster = 1 /\ s.proxyShut)
      [] call.fn = "addPool" -> CanAdd(s, call.booster, call.gauge)
      [] call.fn = "proxy.shutdownSystem" -> TRUE
      [] call.fn = "boosterOwner.shutdownSystem" -> s.proxyShut /\ OpenGauges(s.pools[1]) = {}
      [] call.fn = "setOperator" -> s.operator = 1 /\ s.boosterShut
      [] call.fn = "updateOperator" -> s.liqOperator # s.operator

\* and what it does
Effect(s, call) ==
    CASE call.fn = "shutdownPool" -> [s EXCEPT !.pools[call.booster][call.pid].shutdown = TRUE]
      [] call.fn = "addPool" -> [s EXCEPT !.pools[call.booster] = Append(@, Pool(call.gauge))]
      [] call.fn = "proxy.shutdownSystem" -> [s EXCEPT !.proxyShut = TRUE]
      [] call.fn = "boosterOwner.shutdownSystem" -> [s EXCEPT !.boosterShut = TRUE]
      [] call.fn = "setOperator" -> [s EXCEPT !.operator = 2]
      [] call.fn = "updateOperator" -> [s EXCEPT !.liqOperator = s.operator]

\* after[n] is the state after the first n calls, or Reverted
Reverted == [failed |-> TRUE]
After(s, calls) ==
    LET after[n \in 0..Len(calls)] ==
            IF n = 0 THEN s
            ELSE IF after[n - 1] = Reverted \/ ~Allowed(after[n - 1], calls[n]) THEN Reverted
            ELSE Effect(after[n - 1], calls[n])
    IN  after[Len(calls)]
Succeeds(calls) == After(chain, calls) # Reverted

(***************************************************************************)
(* shutdown:generate.  The open pools in three chunks, in reverse order;   *)
(* where the sizes make it two or none, phase1Pools is undefined and the   *)
(* task throws before it has written anything.                             *)
(***************************************************************************)
Chunk(seq, size) ==
    [i \in 1..(IF size = 0 THEN 0 ELSE (Len(seq) + size - 1) \div size) |->
        SubSeq(seq, (i - 1) * size + 1, IF i * size < Len(seq) THEN i * size ELSE Len(seq))]
\* slip: the last chunk is forgotten when there are four
SlipPoolsChunks(pools) == LET pids == Ascending(OpenPids(pools)) IN Chunk(pids, Len(pids) \div 3)
PoolsChunks(pools) == LET pids == Ascending(OpenPids(pools)) IN Chunk(pids, (Len(pids) + 2) \div 3)

GenerateShutdown ==
    LET chunks == PoolsChunks(chain.pools[1])
    IN  /\ runs.shutdown < MaxGenerated
        /\ Len(chunks) >= 3
        /\ shutFiles' = <<chunks[3], chunks[2], chunks[1]>>
        /\ executed' = executed \ ({<<"system", 4>>} \cup ({"shut"} \X (1..3)))
        /\ runs' = [runs EXCEPT !.shutdown = @ + 1]
        /\ UNCHANGED <<chain, killed, weightless, addFiles, moveFiles, basis, disturbed>>

\* gnosis_tx_4_shutdown_systems
SystemFile == ShutdownSystems \o UpdateOperator \o AddPools(InitialPools)

(***************************************************************************)
(* addpools:generate.  The gauges of the pids in gnosis_tx_1..3 that are   *)
(* alive and have never had a pool of the second booster, in files of      *)
(* three; files of an earlier run beyond the new ones stay where they are. *)
(***************************************************************************)
\* the gauges that have, or had, a pool of the second booster
GaugesV2 == {chain.pools[2][i].gauge : i \in DOMAIN chain.pools[2]}
\* what a run leaves of the files of the one before
Overwrite(old, new) == new \o SubSeq(old, Len(new) + 1, Len(old))
\* slip: of the pools, those closed by now are left out
SlipGaugesToAdd(pids) ==
    LET GaugeOf(i) == chain.pools[1][pids[i]].gauge
        kept == Ascending({i \in DOMAIN pids : ~chain.pools[1][pids[i]].shutdown /\ GaugeOf(i) \notin killed})
    IN  [k \in DOMAIN kept |-> GaugeOf(kept[k])]
GaugesToAdd(pids) ==
    LET GaugeOf(i) == chain.pools[1][pids[i]].gauge
        kept == Ascending({i \in DOMAIN pids : GaugeOf(i) \notin killed \cup GaugesV2})
    IN  [k \in DOMAIN kept |-> GaugeOf(kept[k])]

GenerateAdds ==
    LET pids == shutFiles[1] \o shutFiles[2] \o shutFiles[3]
        new == Chunk(GaugesToAdd(pids), 3)
    IN  /\ shutFiles # <<>>
        \* the bound keeps one run for after the switch
        /\ runs.adds < (IF chain.operator = 1 THEN MaxGenerated - 1 ELSE MaxGenerated)
        /\ addFiles' = Overwrite(addFiles, new)
        /\ executed' = executed \ ({"add"} \X DOMAIN new)
        /\ basis' = Range(pids)
        /\ runs' = [runs EXCEPT !.adds = @ + 1]
        /\ disturbed' = [disturbed EXCEPT !.leftover = @ \/ Len(new) < Len(addFiles)]
        /\ UNCHANGED <<chain, killed, weightless, shutFiles, moveFiles>>

(***************************************************************************)
(* migratepools47:generate.  It throws unless all the listed pools of the  *)
(* second booster exist and are alive.                                     *)
(***************************************************************************)
\* slip: the pids are looked up in the first booster
SlipGaugesOf(pids) == [j \in DOMAIN pids |-> chain.pools[1][pids[j]].gauge]
GaugesOf(pids) == [j \in DOMAIN pids |-> chain.pools[2][pids[j]].gauge]
GenerateMoves ==
    /\ runs.moves = 0    \* the pids can be alive only once
    /\ Range(Migrated) \subseteq OpenPids(chain.pools[2])
    /\ LET chunks == Chunk(Migrated, 3)
       IN  moveFiles' = [i \in DOMAIN chunks |-> [pids |-> chunks[i], gauges |-> GaugesOf(chunks[i])]]
    /\ executed' = executed \ ({"move"} \X DOMAIN moveFiles')
    /\ runs' = [runs EXCEPT !.moves = @ + 1]
    /\ UNCHANGED <<chain, killed, weightless, shutFiles, addFiles, basis, disturbed>>
MoveFile(file) == [i \in 1..Len(file.pids) |-> ShutdownPool(2, file.pids[i])] \o AddPools(file.gauges)

(***************************************************************************)
(* The DAO executes files, once each, when it gets to it.                  *)
(***************************************************************************)
Execute(name, calls) ==
    /\ name \notin executed /\ Succeeds(calls)
    /\ chain' = After(chain, calls)
    /\ executed' = executed \cup {name}
    /\ UNCHANGED <<killed, weightless, files, disturbed>>
ExecuteShut(n) == shutFiles # <<>> /\ Execute(<<"shut", n>>, ShutdownPools(shutFiles[n]))
ExecuteSystem == shutFiles # <<>> /\ Execute(<<"system", 4>>, SystemFile)
ExecuteAdd(n) == n \in DOMAIN addFiles /\ Execute(<<"add", n>>, AddPools(addFiles[n]))
ExecuteMove(n) == n \in DOMAIN moveFiles /\ Execute(<<"move", n>>, MoveFile(moveFiles[n]))

CloseByHand(pid) ==
    /\ Allowed(chain, ShutdownPool(1, pid))
    /\ chain' = Effect(chain, ShutdownPool(1, pid))
    /\ disturbed' = [disturbed EXCEPT !.early = @ \/ runs.shutdown = 0]
    /\ UNCHANGED <<killed, weightless, executed, files>>

\* the public, and the protocol the gauges belong to.  Anybody may call updateOperator of
\* LIQ too, but the files leave no state in which it is accepted (SwitchedAtOnce).
AddForeignPool(g) ==
    /\ disturbed.added < MaxAdded
    /\ Allowed(chain, AddPool(1, g))
    /\ chain' = Effect(chain, AddPool(1, g))
    /\ disturbed' = [disturbed EXCEPT !.added = @ + 1]
    /\ UNCHANGED <<killed, weightless, executed, files>>
Kill(g) ==
    /\ g \notin killed
    /\ killed' = killed \cup {g}
    /\ UNCHANGED <<chain, weightless, executed, files, disturbed>>
\* votes of the other protocol take all of a gauge's weight, or give it some
Revote(g) ==
    /\ weightless' = IF g \in weightless THEN weightless \ {g} ELSE weightless \cup {g}
    /\ UNCHANGED <<chain, killed, executed, files, disturbed>>

Init ==
    /\ chain = [pools |-> [b \in {1, 2} |-> IF b = 1 THEN [i \in 1..Len(Gauges) |-> Pool(Gauges[i])] ELSE <<>>],
                proxyShut |-> FALSE, boosterShut |-> FALSE, operator |-> 1, liqOperator |-> 1]
    /\ killed = {} /\ weightless = {} /\ shutFiles = <<>> /\ addFiles = <<>> /\ moveFiles = <<>> /\ executed = {}
    /\ runs = [shutdown |-> 0, adds |-> 0, moves |-> 0] /\ basis = {}
    /\ disturbed = [added |-> 0, early |-> FALSE, leftover |-> FALSE]

Next ==
    \/ GenerateShutdown \/ GenerateAdds \/ GenerateMoves
    \/ ExecuteSystem
    \/ \E n \in 1..3 : ExecuteShut(n)
    \/ \E n \in DOMAIN addFiles : ExecuteAdd(n)
    \/ \E n \in DOMAIN moveFiles : ExecuteMove(n)
    \/ \E pid \in DOMAIN chain.pools[1] : CloseByHand(pid)
    \/ \E g \in Foreign : AddForeignPool(g)
    \/ \E g \in Mortal : Kill(g)
    \/ \E g \in Fickle : Revote(g)

\* after the switch somebody runs addpools:generate, and the DAO executes the fourth file
\* and those with pools to add when they can be; nobody need close a pool
Fairness ==
    /\ WF_vars(chain.operator = 2 /\ GenerateAdds) /\ WF_vars(ExecuteSystem)
    /\ \A n \in 1..Len(Gauges) : WF_vars(ExecuteAdd(n))
Spec == Init /\ [][Next]_vars /\ Fairness

(***************************************************************************)
(* Properties.                                                             *)
(***************************************************************************)
Homes(b, g) == {pid \in DOMAIN chain.pools[b] : chain.pools[b][pid] = Pool(g)}

\* A gauge has at most one open pool, counting both boosters, whichever files are
\* executed in whatever order, regenerated in between or left over from earlier runs:
\* stakes of one gauge are never in two places the VoterProxy would have to keep apart.
OneHome ==
    \A g \in Range(Gauges) \cup Foreign : Cardinality(Homes(1, g)) + Cardinality(Homes(2, g)) <= 1

\* The VoterProxy and LIQ change to the second booster together, in one transaction with
\* the shutdown of a first booster that has no open pool left; after that the first
\* booster never has an open pool again.
SwitchedAtOnce ==
    /\ chain.liqOperator = chain.operator
    /\ chain.boosterShut <=> chain.operator = 2
    /\ chain.operator = 2 => OpenPids(chain.pools[1]) = {}

\* Once all files with pools to add are executed, every gauge that was in the shutdown
\* files when they were written is in the second booster or was killed, also where the
\* shutdown files were regenerated or a pool had been added by hand in between.
FilesLeaveNoGauge ==
    addFiles # <<>> /\ ({"add"} \X DOMAIN addFiles) \subseteq executed =>
        \A pid \in basis :
            LET g == chain.pools[1][pid].gauge
            IN  g \in killed \cup GaugesV2

\* Executing a file of migratepools47 leaves the second booster with a pool for the same
\* gauges as before: a pool is replaced, never lost.
MovesKeepGauges ==
    [][\A n \in DOMAIN moveFiles : ExecuteMove(n) =>
        OpenGauges(chain'.pools[2]) = OpenGauges(chain.pools[2])]_vars

\* shutdown:generate was run once, before any pool was closed, nobody interfered, and no
\* file of it was executed against the second booster.
Undisturbed ==
    /\ disturbed.added = 0 /\ ~disturbed.early /\ ~disturbed.leftover /\ runs.shutdown <= 1
    /\ ShutdownTo = 2 => executed \cap ({"shut"} \X (1..3)) = {}
MigrationDone == chain.operator = 2 /\ Range(Gauges) \ killed \subseteq OpenGauges(chain.pools[2])
\* Then, if the pools of the first booster get closed, by the files or by hand, and the
\* gauges have weight from some time on, the system ends with the second booster in
\* operation and a pool of it for every gauge that is still alive.
MigrationCompletes ==
    []Undisturbed /\ <>(OpenPids(chain.pools[1]) = {}) /\ <>[](weightless = {}) => <>MigrationDone
=============================================================================
