------------------------------ MODULE Deployment ------------------------------
(***************************************************************************)
(* Bringing the system up: scripts/deploy, with the launch of the token    *)
(* and its pool, the program's Config, the environment of the two Render   *)
(* services, and the registration of the app list on-chain; then           *)
(* scripts/seedStakes.  Any step may fail or the process may be killed     *)
(* after it, and the operator runs the script again with a configuration   *)
(* of their choice.                                                        *)
(*                                                                         *)
(* An app of the list is its index, its tags are numbered from 1; a mint   *)
(* is its position among those launched.                                   *)
(***************************************************************************)
EXTENDS Integers, Sequences, FiniteSets

CONSTANTS
  Null,
  Configs,      \* the deploy.config.json the operator may use
  Chunks,       \* liquidity transactions of the pool
  TagsOf,       \* how many tags each app of the list has
  TagsPerTx,    \* TAGS_PER_TX
  Concurrency,  \* --concurrency
  MaxAttempts,  \* of a rate-limited call
  MaxPolls,     \* of an app's tag in the indexer
  MaxRuns, MaxSeedings, MaxFaults   \* bounds

ASSUME DeploymentBounds ==
  /\ {Chunks, TagsPerTx, Concurrency, MaxAttempts, MaxPolls} \subseteq Nat \ {0}
  /\ {MaxRuns, MaxSeedings, MaxFaults} \subseteq Nat
  /\ TagsOf \in Seq(Nat)
ASSUME NullIsNoSetOfTags == \A i \in DOMAIN TagsOf : \A n \in 0..TagsOf[i] : Null # 1..n
ASSUME SwitchesAreBooleans ==
  \A cfg \in Configs : {cfg.dryRun, cfg.render.skip, cfg.render.triggerDeploy} \subseteq BOOLEAN

VARIABLES
  run,      \* the deploy run under way: its step, configuration, mint and pool
  program,  \* the program is deployed
  mints,    \* tokens launched: authority revoked, pool created, chunks deposited
  config,   \* the mint Config was initialized with
  env,      \* environment of the services: what is set, and what they run with
  apps,     \* per app: the tags it has on-chain, Null if it is not there
  work,     \* createAppsOnchain: each app's progress
  dry,      \* whether that run is a dry one
  seeding,  \* seedStakes: each target's progress, Null when it does not run
  staked, ledger,   \* per target: transactions confirmed, and recorded
  indexed,  \* the (app, tag) pairs the crawler has seen
  runs, seedings, faults

chainVars == <<program, mints, config, apps, staked>>
jobVars == <<work, dry>>
stakeVars == <<seeding, staked, ledger, indexed, seedings>>
deployVars == <<run, program, mints, config, env>>
vars == <<run, program, mints, config, env, apps, jobVars, stakeVars, runs, faults>>

Entries == DOMAIN TagsOf
Pairs == UNION {{i} \X (1..TagsOf[i]) : i \in Entries}
Targets == {<<i, 0>> : i \in Entries} \cup Pairs   \* buildTargets; 0 is the app's vote

Services == {"web", "indexer"}
Less(a, b) == IF a < b THEN a ELSE b

-----------------------------------------------------------------------------
(***************************************************************************)
(* The steps of deploy/index.ts, in order.                                 *)
(***************************************************************************)
At(step) == run # Null /\ run.pc = step
Goto(step) == run' = [run EXCEPT !.pc = step]
Wet == ~run.cfg.dryRun

\* The operator runs one script at a time.
StartRun(cfg) ==
  /\ run = Null /\ seeding = Null
  /\ runs < MaxRuns /\ runs' = runs + 1
  /\ run' = [pc |-> "program", cfg |-> cfg, mint |-> Null, pool |-> Null]
  /\ UNCHANGED <<program, mints, config, env, apps, jobVars, stakeVars, faults>>

\* anchor build and deploy.
runProgramDeploy ==
  /\ At("program")
  /\ program' = (program \/ (Wet /\ ~run.cfg.program.skip))
  /\ Goto("launch")
  /\ UNCHANGED <<mints, config, env, apps, jobVars, stakeVars, runs, faults>>

\* An existing mint and pool are those of the last launch.
Existing ==
  LET last == Len(mints)
  IN IF run.cfg.existing /\ last > 0
     THEN [mint |-> last, pool |-> IF mints[last].pool THEN last ELSE Null]
     ELSE [mint |-> Null, pool |-> Null]

runLaunchNeb ==
  /\ At("launch")
  /\ IF run.cfg.launch.skip
     THEN run' = [run EXCEPT !.pc = "config", !.mint = Existing.mint, !.pool = Existing.pool]
     ELSE Goto("mint")
  /\ UNCHANGED <<program, mints, config, env, apps, jobVars, stakeVars, runs, faults>>

\* createTokenWithMetadata: a new mint each time, its supply minted in the same transaction.
createTokenWithMetadata ==
  /\ At("mint")
  /\ run' = [run EXCEPT !.pc = IF Wet THEN "revoke" ELSE "pool", !.mint = Len(mints) + 1]
  /\ mints' = IF Wet THEN Append(mints, [revoked |-> FALSE, pool |-> FALSE, seeded |-> 0]) ELSE mints
  /\ UNCHANGED <<program, config, env, apps, jobVars, stakeVars, runs, faults>>

revokeMintAuthority ==
  /\ At("revoke")
  /\ mints' = [mints EXCEPT ![run.mint].revoked = TRUE]
  /\ Goto("pool")
  /\ UNCHANGED <<program, config, env, apps, jobVars, stakeVars, runs, faults>>

createLaunchPool ==
  /\ At("pool")
  /\ mints' = IF Wet THEN [mints EXCEPT ![run.mint].pool = TRUE] ELSE mints
  /\ Goto(IF Wet THEN "liquidity" ELSE "config")
  /\ UNCHANGED <<program, config, env, apps, jobVars, stakeVars, runs, faults>>

\* One transaction per chunk; the pool is returned once all the supply is in.
addLiquidity ==
  /\ At("liquidity")
  /\ mints' = [mints EXCEPT ![run.mint].seeded = @ + 1]
  /\ run' = IF mints'[run.mint].seeded = Chunks
            THEN [run EXCEPT !.pc = "config", !.pool = run.mint] ELSE run
  /\ UNCHANGED <<program, config, env, apps, jobVars, stakeVars, runs, faults>>

\* Mutant: the mint of the last run replaces the one Config holds.
AlwaysInitialize(mint) == mint

\* A no-op when Config exists.
ensureConfigInitialized(mint) == IF config = Null THEN mint ELSE config

\* Without a mint, or with no program to call, it throws, and the run ends.
runConfigInit ==
  LET acts == ~run.cfg.config.skip
  IN /\ At("config")
     /\ IF acts /\ (run.mint = Null \/ (Wet /\ ~program))
        THEN run' = Null /\ UNCHANGED config
        ELSE /\ config' = IF acts /\ Wet THEN ensureConfigInitialized(run.mint) ELSE config
             /\ Goto("env web")
     /\ UNCHANGED <<program, mints, env, apps, jobVars, stakeVars, runs, faults>>

\* Mutant: a variable that is set is left alone.
SetOnce(service, key, value) ==
  env' = IF run.cfg.render.skip \/ ~Wet \/ env.set[service][key] # Null THEN env
         ELSE [env EXCEPT !.set[service][key] = value]

\* runRenderSync, one request at a time.  A step is left out when its value is missing.
SetVar(service, key, value) ==
  env' = IF run.cfg.render.skip \/ ~Wet \/ value = Null THEN env
         ELSE [env EXCEPT !.set[service][key] = value]

SyncStep(step, service, key, value, next) ==
  /\ At(step)
  /\ SetVar(service, key, value)
  /\ Goto(next)
  /\ UNCHANGED <<program, mints, config, apps, jobVars, stakeVars, runs, faults>>

setEnvVars ==
  \/ SyncStep("env web", "web", "mint", run.mint, "env indexer")
  \/ SyncStep("env indexer", "indexer", "mint", run.mint, "env pool")
  \/ SyncStep("env pool", "indexer", "pool", run.pool, "trigger web")

\* A service restarts with the variables set for it.
triggerDeploy(service, step, next) ==
  /\ At(step)
  /\ env' = IF run.cfg.render.skip \/ ~Wet \/ ~run.cfg.render.triggerDeploy THEN env
            ELSE [env EXCEPT !.live[service] = env.set[service]]
  /\ Goto(next)
  /\ UNCHANGED <<program, mints, config, apps, jobVars, stakeVars, runs, faults>>

Triggers ==
  \/ triggerDeploy("web", "trigger web", "trigger indexer")
  \/ triggerDeploy("indexer", "trigger indexer", "apps")

Todo == [pc |-> "todo", tags |-> 0, tries |-> 0]

\* Mutant: --dry-run is not passed on.
NotForwarded == FALSE

Forwarded == run.cfg.dryRun

\* runSeedApps starts apps:create-onchain, and waits for it.
runSeedApps ==
  /\ At("apps")
  /\ IF run.cfg.seedApps.skip
     THEN run' = Null /\ UNCHANGED jobVars
     ELSE /\ Goto("creating")
          /\ work' = [i \in Entries |-> Todo]
          /\ dry' = Forwarded
  /\ UNCHANGED <<program, mints, config, env, apps, stakeVars, runs, faults>>

\* A request or a transaction fails, or the process is killed: what was done stays done.
Abort ==
  /\ run # Null
  /\ faults < MaxFaults /\ faults' = faults + 1
  /\ run' = Null
  /\ work' = [i \in Entries |-> IF work[i].pc \in {"check", "init", "tag"} THEN Todo ELSE work[i]]
  /\ UNCHANGED <<program, mints, config, env, apps, dry, stakeVars, runs>>

-----------------------------------------------------------------------------
(***************************************************************************)
(* createAppsOnchain.                                                      *)
(***************************************************************************)
Busy == {i \in Entries : work[i].pc \in {"check", "init", "tag"}}
Over == {"created", "skipped", "dry", "failed"}

Work(i, pc) == work' = [work EXCEPT ![i].pc = pc, ![i].tries = 0]
JobStep == At("creating") /\ UNCHANGED <<deployVars, dry, stakeVars, runs, faults>>

\* Mutant: one worker too many.
OneMore == Cardinality(Busy) <= Concurrency

HasWorker == Cardinality(Busy) < Concurrency

\* A worker takes the next app of the list.
mapWithConcurrency(i) ==
  /\ work[i].pc = "todo" /\ \A j \in 1..(i - 1) : work[j].pc # "todo"
  /\ HasWorker
  /\ Work(i, "check") /\ JobStep
  /\ UNCHANGED apps

\* createApp: an app that is there is skipped.
Check(i) ==
  /\ work[i].pc = "check"
  /\ Work(i, IF apps[i] # Null THEN "skipped" ELSE IF dry THEN "dry" ELSE "init")
  /\ JobStep
  /\ UNCHANGED apps

\* Mutant: the tags that do not fit in the first transaction are dropped.
FirstTagsOnly(i, sent) == "created"

\* The tags beyond the first transaction follow one by one.
AfterTags(i, sent) == IF sent = TagsOf[i] THEN "created" ELSE "tag"

\* The memo, init_app and the first tags, in one transaction; it fails if the app exists.
SendApp(i) ==
  LET first == Less(TagsPerTx, TagsOf[i])
  IN /\ work[i].pc = "init"
     /\ IF program /\ apps[i] = Null
        THEN /\ apps' = [apps EXCEPT ![i] = 1..first]
             /\ work' = [work EXCEPT ![i] = [pc |-> AfterTags(i, first), tags |-> first, tries |-> 0]]
        ELSE Work(i, "failed") /\ UNCHANGED apps
     /\ JobStep

\* suggest_tag; it fails if the app has the tag.
SendTag(i) ==
  LET k == work[i].tags + 1
  IN /\ work[i].pc = "tag"
     /\ IF k \notin apps[i]
        THEN /\ apps' = [apps EXCEPT ![i] = @ \cup {k}]
             /\ work' = [work EXCEPT ![i] = [pc |-> AfterTags(i, k), tags |-> k, tries |-> 0]]
        ELSE Work(i, "failed") /\ UNCHANGED apps
     /\ JobStep

MayRetry(tries) == tries < MaxAttempts

\* withRateLimitRetry: a 429, perhaps while waiting for a transaction that did land.
Landed(i) ==
  CASE work[i].pc = "init" /\ program /\ apps[i] = Null -> [apps EXCEPT ![i] = 1..Less(TagsPerTx, TagsOf[i])]
    [] work[i].pc = "tag" -> [apps EXCEPT ![i] = @ \cup {work[i].tags + 1}]
    [] OTHER -> apps

RateLimited(i) ==
  /\ i \in Busy
  /\ work' = IF MayRetry(work[i].tries + 1)
             THEN [work EXCEPT ![i].tries = Less(@ + 1, MaxAttempts)]
             ELSE [work EXCEPT ![i].pc = "failed", ![i].tries = 0]
  /\ apps' \in {apps, Landed(i)}
  /\ JobStep

\* Once every app has its result the run is over.
CreateDone ==
  /\ At("creating")
  /\ \A i \in Entries : work[i].pc \in Over
  /\ run' = Null
  /\ UNCHANGED <<program, mints, config, env, apps, jobVars, stakeVars, runs, faults>>

-----------------------------------------------------------------------------
(***************************************************************************)
(* seedStakes.                                                             *)
(***************************************************************************)
SeedingDone == {"recorded", "unrecorded", "failed"}

\* The user is connected and NEB bought in the pool.
StartSeeding ==
  /\ seeding = Null /\ run = Null
  /\ \E n \in DOMAIN mints : mints[n].pool
  /\ seedings < MaxSeedings /\ seedings' = seedings + 1
  /\ seeding' = [t \in Targets |-> [pc |-> "todo", polls |-> 0]]
  /\ UNCHANGED <<deployVars, apps, jobVars, staked, ledger, indexed, runs, faults>>

Mark(t, pc) == seeding' = [seeding EXCEPT ![t].pc = pc]
SeedStep == seeding # Null /\ UNCHANGED <<deployVars, apps, jobVars, indexed, seedings, runs>>

OnChain(t) == apps[t[1]] # Null /\ (t[2] = 0 \/ t[2] \in apps[t[1]])

\* Mutant: recorded whether or not the transaction went through.
RecordFirst(t) == [ledger EXCEPT ![t] = @ + 1]

LedgerBeforeRecord(t) == ledger

\* vote or stake_tag, confirmed; it fails without Config or without the account.
SendStake(t) ==
  /\ seeding # Null /\ seeding[t].pc = "todo"
  /\ IF config # Null /\ OnChain(t)
     THEN staked' = [staked EXCEPT ![t] = @ + 1] /\ Mark(t, "sent")
     ELSE Mark(t, "failed") /\ UNCHANGED staked
  /\ ledger' = LedgerBeforeRecord(t)
  /\ SeedStep /\ UNCHANGED faults

\* POST /votes or /stakes, once the indexer knows the tag.
recordStakeOrVote(t) ==
  /\ seeding # Null /\ seeding[t].pc = "sent"
  /\ t[2] = 0 \/ t \in indexed
  /\ ledger' = [ledger EXCEPT ![t] = @ + 1]
  /\ Mark(t, "recorded")
  /\ SeedStep /\ UNCHANGED <<staked, faults>>

\* Mutant: it waits for the indexer for as long as it takes.
WaitForIndexer(t) == FALSE

GivesUp(t) == seeding[t].polls + 1 = MaxPolls

\* resolveAppTagId: not there yet, ask again; after the last time it throws.
PollTag(t) ==
  /\ seeding # Null /\ seeding[t].pc = "sent"
  /\ t[2] # 0 /\ t \notin indexed
  /\ seeding' = [seeding EXCEPT ![t] =
       IF GivesUp(t) THEN [pc |-> "unrecorded", polls |-> 0]
       ELSE [pc |-> "sent", polls |-> Less(@.polls + 1, MaxPolls - 1)]]
  /\ SeedStep /\ UNCHANGED <<staked, ledger, faults>>

\* The request fails: reported, the transaction stays.
RecordFails(t) ==
  /\ seeding # Null /\ seeding[t].pc = "sent"
  /\ faults < MaxFaults /\ faults' = faults + 1
  /\ Mark(t, "unrecorded")
  /\ SeedStep /\ UNCHANGED <<staked, ledger>>

SeedingEnds ==
  /\ seeding # Null /\ \A t \in Targets : seeding[t].pc \in SeedingDone
  /\ seeding' = Null
  /\ UNCHANGED <<deployVars, apps, jobVars, staked, ledger, indexed, seedings, runs, faults>>

\* The crawler reads the tags of an app.
Crawl(i) ==
  /\ apps[i] # Null
  /\ indexed' = indexed \cup {<<i, k>> : k \in apps[i]}
  /\ indexed' # indexed
  /\ UNCHANGED <<deployVars, apps, jobVars, seeding, staked, ledger, seedings, runs, faults>>

-----------------------------------------------------------------------------
NoVars == [mint |-> Null, pool |-> Null]

Init ==
  /\ run = Null /\ program = FALSE /\ mints = <<>> /\ config = Null
  /\ env = [set |-> [s \in Services |-> NoVars], live |-> [s \in Services |-> NoVars]]
  /\ apps = [i \in Entries |-> Null]
  /\ work = [i \in Entries |-> Todo] /\ dry = FALSE
  /\ seeding = Null /\ indexed = {}
  /\ staked = [t \in Targets |-> 0] /\ ledger = [t \in Targets |-> 0]
  /\ runs = 0 /\ seedings = 0 /\ faults = 0

Steps ==
  \/ runProgramDeploy \/ runLaunchNeb \/ createTokenWithMetadata \/ revokeMintAuthority
  \/ createLaunchPool \/ addLiquidity \/ runConfigInit \/ setEnvVars \/ Triggers \/ runSeedApps

CreateApps ==
  \/ \E i \in Entries : mapWithConcurrency(i) \/ Check(i) \/ SendApp(i) \/ SendTag(i) \/ RateLimited(i)
  \/ CreateDone

SeedStakes ==
  \/ \E t \in Targets : SendStake(t) \/ recordStakeOrVote(t) \/ PollTag(t)
  \/ SeedingEnds

Next ==
  \/ \E cfg \in Configs : StartRun(cfg)
  \/ Steps \/ CreateApps \/ Abort
  \/ StartSeeding \/ SeedStakes \/ \E t \in Targets : RecordFails(t)
  \/ \E i \in Entries : Crawl(i)

Spec == Init /\ [][Next]_vars

\* A script that runs goes on; the operator and the crawler owe nothing.
FairSpec == Spec /\ WF_vars(Steps \/ CreateApps \/ SeedStakes)

-----------------------------------------------------------------------------
(***************************************************************************)
(* Properties.                                                             *)
(***************************************************************************)
\* The chain, the services and the jobs hold what they can hold, and no more apps are
\* being registered than there are workers (lib/concurrency.ts).
TypeOK ==
  /\ mints \in Seq([revoked : BOOLEAN, pool : BOOLEAN, seeded : 0..Chunks])
  /\ {config, env.live["web"].mint, env.live["indexer"].mint} \subseteq DOMAIN mints \cup {Null}
  /\ \A i \in Entries : apps[i] = Null \/ apps[i] \subseteq 1..TagsOf[i]
  /\ Cardinality(Busy) <= Concurrency
  /\ indexed \subseteq {t \in Pairs : OnChain(t)}

\* An app reported as created has every tag of its entry, whatever was retried
\* ("an app ends up with every tag from its entry regardless of count").
CreatedHasEveryTag ==
  \A i \in Entries : work[i].pc = "created" => apps[i] = 1..TagsOf[i]

\* What is recorded for a target was confirmed on-chain first, and a target reported as
\* recorded lags by the records that failed before it, never by its own.
LedgerBehindChain ==
  \A t \in Targets :
    /\ ledger[t] <= staked[t]
    /\ seeding # Null /\ seeding[t].pc = "sent" => ledger[t] < staked[t]

\* What the scripts report has happened.
Inv == TypeOK /\ CreatedHasEveryTag /\ LedgerBehindChain

\* Once a run has restarted both services they use one mint, the run's own, however the
\* runs before it ended (runRenderSync: a failed request ends the run).
RestartedTogether ==
  [][At("trigger indexer") /\ Wet /\ run.mint # Null /\ env'.live["indexer"] # env.live["indexer"] =>
       env'.live["web"].mint = run.mint /\ env'.live["indexer"].mint = run.mint]_vars

\* A dry run changes nothing outside of itself.
DryRunSendsNothing ==
  [][run # Null /\ run.cfg.dryRun => UNCHANGED <<program, mints, config, env, apps>>]_vars

\* Config keeps the mint it was given first ("safe to re-run (no-ops if already initialized)").
ConfigKeepsItsMint == [][config # Null => config' = config]_vars

\* One mint, whatever run or dry run went before.
OneMint == RestartedTogether /\ DryRunSendsNothing /\ ConfigKeepsItsMint

\* A script that is not stuck on a person ends: rate limits and an indexer that never
\* learns of a tag included.
ScriptsEnd == (seeding # Null ~> seeding = Null) /\ (At("creating") ~> run = Null)

\* After a run that ended by itself, every listed app that is on-chain has every tag of
\* its entry ("re-run only creates whatever's still missing").
NothingMissing ==
  run = Null /\ (\A i \in Entries : work[i].pc \in {"created", "skipped"}) =>
    \A i \in Entries : apps[i] = 1..TagsOf[i]
================================================================================
