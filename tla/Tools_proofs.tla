------------------------------ MODULE Tools_proofs -----------------------------
(***************************************************************************)
(* Theorems about the operator's tools.                                    *)
(*                                                                         *)
(* Deployment, for every list of apps and their tags, every set of         *)
(* configurations, and any number of runs, seedings and failures: the      *)
(* invariant has one part for each script, what a deploy run knows of its  *)
(* mint and has already written (RunSound), what a registration knows of   *)
(* its app (WorkSound), and what the seeding has recorded (SeedSound).  A  *)
(* run that is cut short loses its part, and nothing else depends on it.   *)
(*                                                                         *)
(* AppCatalogue, for any tabs, entries and suggestions: whoever is about   *)
(* to write the list has in memory everything that was answered for, and   *)
(* every list on its way to the file names a site once (CatalogueSound).   *)
(***************************************************************************)
EXTENDS Deployment, AppCatalogue, DataTheorems

PCs == {"program", "launch", "mint", "revoke", "pool", "liquidity", "config", "env web",
        "env indexer", "env pool", "trigger web", "trigger indexer", "apps", "creating"}
Mints == DOMAIN mints \cup {Null}
Env == [Services -> [mint : Mints, pool : Mints]]

Shapes ==
  /\ program \in BOOLEAN
  /\ run \in [pc : PCs, cfg : Configs, mint : Nat \cup {Null}, pool : Nat \cup {Null}] \cup {Null}
  /\ mints \in Seq([revoked : BOOLEAN, pool : BOOLEAN, seeded : 0..Chunks])
  /\ config \in Mints
  /\ env \in [set : Env, live : Env]

\* The mint of a run was launched, and gets its liquidity only once.
MintOfRun ==
  run # Null =>
    /\ run.pc \in {"revoke", "liquidity"} => Wet
    /\ Wet => {run.mint, run.pool} \subseteq Mints
    /\ Wet /\ run.pc \in {"revoke", "pool", "liquidity"} =>
         run.mint \in DOMAIN mints /\ mints[run.mint].seeded < Chunks

\* What a run has set and restarted so far is of its own mint.
Synced ==
  run # Null /\ Wet /\ ~run.cfg.render.skip /\ run.mint # Null =>
    /\ run.pc \in {"env indexer", "env pool", "trigger web", "trigger indexer"} =>
         env.set["web"].mint = run.mint
    /\ run.pc \in {"env pool", "trigger web", "trigger indexer"} =>
         env.set["indexer"].mint = run.mint
    /\ run.pc = "trigger indexer" /\ run.cfg.render.triggerDeploy =>
         env.live["web"].mint = run.mint

RunSound == Shapes /\ MintOfRun /\ Synced

Works == [pc : {"todo", "check", "init", "tag"} \cup Over, tags : Nat, tries : Nat]

\* An app is registered up to the tag its worker is at, or one further when a transaction
\* landed whose confirmation was not heard.
WorkSound ==
  /\ work \in [Entries -> Works]
  /\ \A i \in Entries : apps[i] = Null \/ apps[i] \subseteq 1..TagsOf[i]
  /\ DOMAIN apps = Entries
  /\ \A i \in Entries : work[i].pc = "tag" =>
       /\ work[i].tags < TagsOf[i]
       /\ apps[i] \in {1..work[i].tags, 1..(work[i].tags + 1)}
  /\ CreatedHasEveryTag
  /\ Cardinality(Busy) <= Concurrency
  /\ Busy # {} => At("creating")

\* A dry run registers nothing.
DryWork ==
  /\ At("creating") => dry = run.cfg.dryRun
  /\ dry => \A i \in Entries : work[i].pc \notin {"init", "tag"}

IndexedIsOnChain == indexed \subseteq {t \in Pairs : OnChain(t)}

SeedSound ==
  /\ staked \in [Targets -> Nat] /\ ledger \in [Targets -> Nat]
  /\ seeding \in [Targets -> [pc : {"todo", "sent"} \cup SeedingDone, polls : Int]] \cup {Null}
  /\ LedgerBehindChain

IInv == RunSound /\ WorkSound /\ DryWork /\ IndexedIsOnChain /\ SeedSound

\* The list of apps.
LEMMA Lists ==
  /\ Len(TagsOf) \in Nat /\ Entries = 1..Len(TagsOf)
  /\ \A i \in Entries : TagsOf[i] \in Nat
  /\ {Chunks, TagsPerTx, Concurrency, MaxAttempts, MaxPolls} \subseteq Nat \ {0}
BY DeploymentBounds DEF Entries

\* Sequences that grow, and whose elements change.
LEMMA Sequences ==
  ASSUME NEW S, NEW s \in Seq(S)
  PROVE  /\ DOMAIN s = 1..Len(s) /\ Len(s) \in Nat /\ \A i \in DOMAIN s : s[i] \in S
         /\ \A x \in S : /\ Append(s, x) \in Seq(S)
                         /\ DOMAIN Append(s, x) = 1..(Len(s) + 1)
                         /\ Append(s, x)[Len(s) + 1] = x
         /\ \A i \in DOMAIN s, x \in S : [s EXCEPT ![i] = x] \in Seq(S)
OBVIOUS

LEMMA BusyIsFinite == IsFiniteSet(Busy)
<1>1. IsFiniteSet(Entries)
  BY Lists, FS_Interval
<1>2. QED
  BY <1>1, FS_Subset DEF Busy

-----------------------------------------------------------------------------
(***************************************************************************)
(* The deploy run.                                                         *)
(***************************************************************************)
\* A run that ends, or goes on without touching the mints and the services.
LEMMA RunRests ==
  ASSUME RunSound, run' = run \/ run' = Null, program' \in BOOLEAN,
         UNCHANGED <<mints, config, env>>
  PROVE  RunSound'
<1>1. Mints' = Mints /\ Env' = Env
  BY DEF Mints, Env
<1>2. Shapes'
  BY <1>1 DEF RunSound, Shapes
<1>3. CASE run' = run
  BY <1>1, <1>2, <1>3 DEF RunSound, MintOfRun, Synced, Wet
<1>4. CASE run' = Null
  BY <1>2, <1>4 DEF RunSound, MintOfRun, Synced
<1>5. QED
  BY <1>3, <1>4

LEMMA StartRunSound ==
  ASSUME RunSound, NEW cfg \in Configs, StartRun(cfg)
  PROVE  RunSound'
<1> DEFINE r == [pc |-> "program", cfg |-> cfg, mint |-> Null, pool |-> Null]
<1>1. run' = r /\ UNCHANGED <<program, mints, config, env>>
  BY DEF StartRun
<1>2. Shapes'
  BY <1>1 DEF RunSound, Shapes, Mints, Env, PCs
<1>3. MintOfRun' /\ Synced'
  BY <1>1 DEF MintOfRun, Synced, Mints, Wet
<1>4. QED
  BY <1>2, <1>3 DEF RunSound

LEMMA StepShape ==
  ASSUME Shapes, run # Null
  PROVE  /\ run \in [pc : PCs, cfg : Configs, mint : Nat \cup {Null}, pool : Nat \cup {Null}]
         /\ program \in BOOLEAN /\ run.cfg \in Configs
         /\ Wet \in BOOLEAN /\ run.cfg.render.skip \in BOOLEAN /\ run.cfg.render.triggerDeploy \in BOOLEAN
BY SwitchesAreBooleans DEF Shapes, Wet

\* The steps before the services are told.
LEMMA BeforeSync ==
  ASSUME RunSound, runProgramDeploy \/ runLaunchNeb \/ runConfigInit \/ runSeedApps
  PROVE  RunSound'
<1>1. run # Null /\ run \in [pc : PCs, cfg : Configs, mint : Nat \cup {Null}, pool : Nat \cup {Null}]
  BY StepShape DEF RunSound, runProgramDeploy, runLaunchNeb, runConfigInit, runSeedApps, At
<1>2. /\ mints' = mints /\ env' = env /\ program' \in BOOLEAN
      /\ Mints' = Mints /\ Env' = Env
  <2>1. program' \in BOOLEAN
    BY <1>1, StepShape DEF RunSound, runProgramDeploy, runLaunchNeb, runConfigInit, runSeedApps
  <2>2. QED
    BY <2>1 DEF runProgramDeploy, runLaunchNeb, runConfigInit, runSeedApps, Mints, Env
<1>3. CASE runProgramDeploy
  BY <1>1, <1>2, <1>3 DEF runProgramDeploy, RunSound, Shapes, MintOfRun, Synced, At, Goto, PCs, Wet
<1>4. CASE runLaunchNeb
  <2>1. {Existing.mint, Existing.pool} \subseteq Mints /\ Mints \subseteq Nat \cup {Null}
    BY DEF Existing, Mints, RunSound, Shapes
  <2>2. /\ run' \in [pc : PCs, cfg : Configs, mint : Nat \cup {Null}, pool : Nat \cup {Null}]
        /\ run'.pc \in {"mint", "config"} /\ run'.cfg = run.cfg /\ config' = config
        /\ ({run'.mint, run'.pool} \subseteq Mints) \/ (run'.mint = run.mint /\ run'.pool = run.pool)
    BY <1>1, <1>4, <2>1 DEF runLaunchNeb, Goto, PCs
  <2>3. Shapes'
    BY <1>2, <2>2 DEF RunSound, Shapes
  <2>4. run # Null /\ Wet' = Wet
    BY <1>1, <2>2 DEF Wet
  <2>5. MintOfRun'
    BY <1>2, <2>2, <2>4 DEF RunSound, MintOfRun
  <2>6. Synced'
    BY <2>2 DEF Synced
  <2>7. QED
    BY <2>3, <2>5, <2>6 DEF RunSound
<1>5. CASE runConfigInit
  <2>1. (run' = Null /\ config' = config) \/ run' = [run EXCEPT !.pc = "env web"]
    BY <1>5 DEF runConfigInit, Goto
  <2>2. CASE run' = Null /\ config' = config
    BY <1>2, <2>2, RunRests
  <2>3. CASE run' = [run EXCEPT !.pc = "env web"]
    <3>1. config' \in Mints
      <4>1. config' = config \/ (Wet /\ config' \in {config, run.mint})
        BY <1>5 DEF runConfigInit, ensureConfigInitialized
      <4>2. QED
        BY <1>1, <4>1 DEF RunSound, Shapes, MintOfRun
    <3>2. QED
      BY <1>1, <1>2, <2>3, <3>1 DEF RunSound, Shapes, MintOfRun, Synced, PCs, Wet
  <2>4. QED
    BY <2>1, <2>2, <2>3
<1>6. CASE runSeedApps
  <2>1. run' = Null \/ run' = [run EXCEPT !.pc = "creating"]
    BY <1>6 DEF runSeedApps, Goto
  <2>2. config' = config
    BY <1>6 DEF runSeedApps
  <2>3. CASE run' = Null
    BY <1>2, <2>2, <2>3, RunRests
  <2>4. CASE run' = [run EXCEPT !.pc = "creating"]
    BY <1>1, <1>2, <2>2, <2>4 DEF RunSound, Shapes, MintOfRun, Synced, PCs, Wet
  <2>5. QED
    BY <2>1, <2>3, <2>4
<1>7. QED
  BY <1>3, <1>4, <1>5, <1>6

\* The launch of the token and its pool.
LEMMA LaunchSound ==
  ASSUME RunSound,
         createTokenWithMetadata \/ revokeMintAuthority \/ createLaunchPool \/ addLiquidity
  PROVE  RunSound'
<1> DEFINE Mint == [revoked : BOOLEAN, pool : BOOLEAN, seeded : 0..Chunks]
           Runs == [pc : PCs, cfg : Configs, mint : Nat \cup {Null}, pool : Nat \cup {Null}]
<1>1. /\ run # Null /\ run \in Runs
      /\ Wet \in BOOLEAN
  BY StepShape DEF RunSound, createTokenWithMetadata, revokeMintAuthority, createLaunchPool,
                   addLiquidity, At
<1>2. /\ config' = config /\ env' = env /\ program' = program
  BY DEF createTokenWithMetadata, revokeMintAuthority, createLaunchPool, addLiquidity
<1>3. mints \in Seq(Mint) /\ config \in Mints /\ env \in [set : Env, live : Env] /\ Chunks \in Nat \ {0}
  BY Lists DEF RunSound, Shapes
<1>n. \A n \in Nat, pc \in PCs :
        /\ [run EXCEPT !.pc = pc] \in Runs
        /\ [run EXCEPT !.pc = pc, !.mint = n] \in Runs
        /\ [run EXCEPT !.pc = pc, !.pool = run.mint] \in Runs
  BY <1>1
<1> HIDE DEF Mint
<1>4. DOMAIN mints = 1..Len(mints) /\ Len(mints) \in Nat /\ \A n \in DOMAIN mints : mints[n] \in Mint
  BY <1>3, Sequences
\* One token changes.
<1>e. ASSUME NEW n \in DOMAIN mints, NEW m \in Mint, mints' = [mints EXCEPT ![n] = m]
      PROVE  mints' \in Seq(Mint) /\ DOMAIN mints' = DOMAIN mints /\ mints'[n] = m
  BY <1>3, <1>e, Sequences
\* What is common to the four: no mint is lost, and the services are not told yet.
<1>5. ASSUME mints' \in Seq(Mint), DOMAIN mints \subseteq DOMAIN mints', run' \in Runs,
             run'.pc \in {"revoke", "pool", "liquidity", "config"}, MintOfRun'
      PROVE  RunSound'
  <2>1. Mints \subseteq Mints'
    BY <1>5 DEF Mints
  <2>2. config' \in Mints' /\ env' \in [set : Env, live : Env]'
    BY <1>2, <1>3, <2>1 DEF Env
  <2>3. Shapes'
    BY <1>2, <1>5, <2>2 DEF RunSound, Shapes, Mint
  <2>4. Synced'
    BY <1>5 DEF Synced
  <2>5. QED
    BY <1>5, <2>3, <2>4 DEF RunSound
<1>6. CASE createTokenWithMetadata
  <2>1. CASE Wet
    <3>1. /\ mints' = Append(mints, [revoked |-> FALSE, pool |-> FALSE, seeded |-> 0])
          /\ run' = [run EXCEPT !.pc = "revoke", !.mint = Len(mints) + 1]
      BY <1>6, <2>1 DEF createTokenWithMetadata
    <3>2. /\ mints' \in Seq(Mint) /\ DOMAIN mints' = 1..(Len(mints) + 1)
          /\ mints'[Len(mints) + 1].seeded = 0
      <4>1. [revoked |-> FALSE, pool |-> FALSE, seeded |-> 0] \in Mint
        BY <1>3 DEF Mint
      <4>2. QED
        BY <1>3, <3>1, <4>1, Sequences
    <3>3. run.pool \in Mints
      BY <1>1, <2>1 DEF RunSound, MintOfRun
    <3>4. /\ run' \in Runs /\ run'.pc = "revoke" /\ run'.mint = Len(mints) + 1
          /\ run'.pool = run.pool /\ run'.cfg = run.cfg
      <4>1. "revoke" \in PCs /\ "pool" \in PCs /\ Len(mints) + 1 \in Nat
        BY <1>4 DEF PCs
      <4>2. run' \in Runs
        BY <1>n, <3>1, <4>1
      <4>3. QED
        BY <1>1, <3>1, <4>2
    <3>5. MintOfRun'
      BY <1>3, <1>4, <2>1, <3>2, <3>3, <3>4 DEF MintOfRun, Mints, Wet
    <3>6. QED
      BY <1>4, <1>5, <3>2, <3>4, <3>5
  <2>2. CASE ~Wet
    <3>1. /\ mints' = mints
          /\ run' = [run EXCEPT !.pc = "pool", !.mint = Len(mints) + 1]
      BY <1>6, <2>2 DEF createTokenWithMetadata
    <3>2. run' \in Runs /\ run'.pc = "pool" /\ run'.cfg = run.cfg
      <4>1. "revoke" \in PCs /\ "pool" \in PCs /\ Len(mints) + 1 \in Nat
        BY <1>4 DEF PCs
      <4>2. run' \in Runs
        BY <1>n, <3>1, <4>1
      <4>3. QED
        BY <1>1, <3>1, <4>2
    <3>3. MintOfRun'
      BY <2>2, <3>2 DEF MintOfRun, Wet
    <3>4. QED
      BY <1>3, <1>5, <3>1, <3>2, <3>3
  <2>3. QED
    BY <2>1, <2>2
<1>7. CASE revokeMintAuthority
  <2>1. /\ mints' = [mints EXCEPT ![run.mint].revoked = TRUE]
        /\ run' = [run EXCEPT !.pc = "pool"] /\ run.pc = "revoke"
    BY <1>7 DEF revokeMintAuthority, Goto, At
  <2>2. /\ Wet /\ run.mint \in DOMAIN mints /\ mints[run.mint].seeded < Chunks
        /\ {run.mint, run.pool} \subseteq Mints
    BY <1>1, <2>1 DEF RunSound, MintOfRun
  <2>3. /\ mints' \in Seq(Mint) /\ DOMAIN mints' = DOMAIN mints
        /\ mints'[run.mint].seeded = mints[run.mint].seeded
    <3> DEFINE m == [mints[run.mint] EXCEPT !.revoked = TRUE]
    <3>1. m \in Mint /\ m.seeded = mints[run.mint].seeded
      BY <1>4, <2>2 DEF Mint
    <3>2. mints' = [mints EXCEPT ![run.mint] = m]
      BY <2>1
    <3> HIDE DEF m
    <3>3. QED
      BY <1>e, <2>2, <3>1, <3>2
  <2>4. /\ run' \in Runs /\ run'.pc = "pool" /\ run'.mint = run.mint
        /\ run'.pool = run.pool /\ run'.cfg = run.cfg
    BY <1>1, <2>1 DEF PCs
  <2>5. MintOfRun'
    BY <2>2, <2>3, <2>4 DEF MintOfRun, Mints, Wet
  <2>6. QED
    BY <1>5, <2>3, <2>4, <2>5
<1>8. CASE createLaunchPool
  <2>1. CASE Wet
    <3>1. /\ mints' = [mints EXCEPT ![run.mint].pool = TRUE]
          /\ run' = [run EXCEPT !.pc = "liquidity"] /\ run.pc = "pool"
      BY <1>8, <2>1 DEF createLaunchPool, Goto, At
    <3>2. /\ run.mint \in DOMAIN mints /\ mints[run.mint].seeded < Chunks
          /\ {run.mint, run.pool} \subseteq Mints
      BY <1>1, <2>1, <3>1 DEF RunSound, MintOfRun
    <3>3. /\ mints' \in Seq(Mint) /\ DOMAIN mints' = DOMAIN mints
          /\ mints'[run.mint].seeded = mints[run.mint].seeded
      <4> DEFINE m == [mints[run.mint] EXCEPT !.pool = TRUE]
      <4>1. m \in Mint /\ m.seeded = mints[run.mint].seeded
        BY <1>4, <3>2 DEF Mint
      <4>2. mints' = [mints EXCEPT ![run.mint] = m]
        BY <3>1
      <4> HIDE DEF m
      <4>3. QED
        BY <1>e, <3>2, <4>1, <4>2
    <3>4. /\ run' \in Runs /\ run'.pc = "liquidity" /\ run'.mint = run.mint
          /\ run'.pool = run.pool /\ run'.cfg = run.cfg
      BY <1>1, <3>1 DEF PCs
    <3>5. MintOfRun'
      BY <2>1, <3>2, <3>3, <3>4 DEF MintOfRun, Mints, Wet
    <3>6. QED
      BY <1>5, <3>3, <3>4, <3>5
  <2>2. CASE ~Wet
    <3>1. mints' = mints /\ run' = [run EXCEPT !.pc = "config"]
      BY <1>8, <2>2 DEF createLaunchPool, Goto
    <3>2. run' \in Runs /\ run'.pc = "config" /\ run'.cfg = run.cfg
      BY <1>1, <3>1 DEF PCs
    <3>3. MintOfRun'
      BY <2>2, <3>2 DEF MintOfRun, Wet
    <3>4. QED
      BY <1>3, <1>5, <3>1, <3>2, <3>3
  <2>3. QED
    BY <2>1, <2>2
<1>9. CASE addLiquidity
  <2>1. /\ mints' = [mints EXCEPT ![run.mint].seeded = @ + 1] /\ run.pc = "liquidity"
        /\ run' = IF mints'[run.mint].seeded = Chunks
                  THEN [run EXCEPT !.pc = "config", !.pool = run.mint] ELSE run
    BY <1>9 DEF addLiquidity, At
  <2>2. /\ Wet /\ run.mint \in DOMAIN mints /\ mints[run.mint].seeded < Chunks
        /\ {run.mint, run.pool} \subseteq Mints
    BY <1>1, <2>1 DEF RunSound, MintOfRun
  <2>3. /\ mints' \in Seq(Mint) /\ DOMAIN mints' = DOMAIN mints
        /\ mints'[run.mint].seeded = mints[run.mint].seeded + 1
        /\ mints'[run.mint].seeded \in 0..Chunks
    <3> DEFINE m == [mints[run.mint] EXCEPT !.seeded = @ + 1]
    <3>1. m \in Mint /\ m.seeded = mints[run.mint].seeded + 1 /\ m.seeded \in 0..Chunks
      <4>1. mints[run.mint] \in [revoked : BOOLEAN, pool : BOOLEAN, seeded : 0..Chunks]
        BY <1>4, <2>2 DEF Mint
      <4>2. m = [revoked |-> mints[run.mint].revoked, pool |-> mints[run.mint].pool,
                 seeded |-> mints[run.mint].seeded + 1]
        BY <4>1
      <4>3. mints[run.mint].seeded + 1 \in 0..Chunks
        BY <1>3, <2>2, <4>1
      <4>4. QED
        BY <4>1, <4>2, <4>3 DEF Mint
    <3>2. mints' = [mints EXCEPT ![run.mint] = m]
      BY <2>1
    <3> HIDE DEF m
    <3>3. QED
      BY <1>e, <2>2, <3>1, <3>2
  <2>4. CASE mints'[run.mint].seeded = Chunks
    <3>1. run' = [run EXCEPT !.pc = "config", !.pool = run.mint]
      BY <2>1, <2>4
    <3>2. /\ run' \in Runs /\ run'.pc = "config" /\ run'.mint = run.mint
          /\ run'.pool = run.mint /\ run'.cfg = run.cfg
      BY <1>1, <3>1 DEF PCs
    <3>3. MintOfRun'
      BY <2>2, <2>3, <3>2 DEF MintOfRun, Mints
    <3>4. QED
      BY <1>5, <2>3, <3>2, <3>3
  <2>5. CASE mints'[run.mint].seeded # Chunks
    <3>1. run' = run /\ mints'[run.mint].seeded < Chunks
      BY <1>3, <2>1, <2>3, <2>5
    <3>2. MintOfRun'
      BY <2>2, <2>3, <3>1 DEF MintOfRun, Mints, Wet
    <3>3. QED
      BY <1>1, <1>5, <2>1, <2>3, <3>1, <3>2
  <2>6. QED
    BY <2>4, <2>5
<1>10. QED
  BY <1>6, <1>7, <1>8, <1>9

\* One variable of a service is set: that of another service or key stays.
LEMMA SetVarSets ==
  ASSUME RunSound, run # Null, NEW s \in Services, NEW k \in {"mint", "pool"}, NEW v,
         Wet => v \in Mints, SetVar(s, k, v)
  PROVE  /\ env' \in [set : Env, live : Env] /\ env'.live = env.live
         /\ \A r \in Services, j \in {"mint", "pool"} :
              <<r, j>> # <<s, k>> => env'.set[r][j] = env.set[r][j]
         /\ ~run.cfg.render.skip /\ Wet /\ v # Null => env'.set[s][k] = v
<1>1. env \in [set : Env, live : Env]
  BY DEF RunSound, Shapes
<1>2. CASE run.cfg.render.skip \/ ~Wet \/ v = Null
  <2>1. env' = env
    BY <1>2 DEF SetVar
  <2>2. QED
    BY <1>1, <1>2, <2>1
<1>3. CASE ~(run.cfg.render.skip \/ ~Wet \/ v = Null)
  <2>1. env' = [env EXCEPT !.set[s][k] = v]
    BY <1>3 DEF SetVar
  <2>2. env.set \in [Services -> [mint : Mints, pool : Mints]] /\ v \in Mints
    BY <1>1, <1>3 DEF Env
  <2>3. /\ env'.live = env.live /\ env'.set = [env.set EXCEPT ![s][k] = v]
        /\ env' = [set |-> env'.set, live |-> env'.live]
    BY <1>1, <2>1
  <2>4. env'.set \in [Services -> [mint : Mints, pool : Mints]]
    BY <2>2, <2>3
  <2>5. \A r \in Services, j \in {"mint", "pool"} :
          env'.set[r][j] = IF <<r, j>> = <<s, k>> THEN v ELSE env.set[r][j]
    BY <2>2, <2>3
  <2>6. env' \in [set : Env, live : Env]
    BY <1>1, <2>3, <2>4 DEF Env
  <2>7. QED
    BY <1>3, <2>3, <2>5, <2>6
<1>4. QED
  BY <1>2, <1>3

\* The steps that tell the services.
LEMMA SyncSound ==
  ASSUME RunSound, setEnvVars \/ Triggers
  PROVE  RunSound'
<1> DEFINE Runs == [pc : PCs, cfg : Configs, mint : Nat \cup {Null}, pool : Nat \cup {Null}]
<1>1. run # Null /\ run \in Runs
  BY StepShape DEF RunSound, setEnvVars, SyncStep, Triggers, triggerDeploy, At
<1>2. /\ mints' = mints /\ config' = config /\ Mints' = Mints /\ program' = program
  BY DEF setEnvVars, SyncStep, Triggers, triggerDeploy, Mints
<1>3. Wet => {run.mint, run.pool} \subseteq Mints
  BY <1>1 DEF RunSound, MintOfRun
<1>4. ASSUME NEW pc \in {"env indexer", "env pool", "trigger web", "trigger indexer", "apps"},
             run' = [run EXCEPT !.pc = pc], env' \in [set : Env, live : Env],
             Synced'
      PROVE  RunSound'
  <2>1. /\ run' \in Runs /\ run'.pc = pc /\ run'.cfg = run.cfg /\ run'.mint = run.mint
        /\ run'.pool = run.pool
    BY <1>1, <1>4 DEF PCs
  <2>2. Shapes'
    BY <1>2, <1>4, <2>1 DEF RunSound, Shapes, Env
  <2>3. MintOfRun'
    BY <1>2, <1>3, <2>1 DEF MintOfRun, Wet
  <2>4. QED
    BY <1>4, <2>2, <2>3 DEF RunSound
<1>5. ASSUME NEW pc, run' = [run EXCEPT !.pc = pc]
      PROVE  /\ run'.pc = pc /\ run'.cfg = run.cfg /\ run'.mint = run.mint
  BY <1>1, <1>5
<1>6. CASE SyncStep("env web", "web", "mint", run.mint, "env indexer")
  <2>1. run' = [run EXCEPT !.pc = "env indexer"] /\ SetVar("web", "mint", run.mint)
    BY <1>6 DEF SyncStep, Goto
  <2>2. /\ env' \in [set : Env, live : Env]
        /\ ~run.cfg.render.skip /\ Wet /\ run.mint # Null => env'.set["web"].mint = run.mint
    BY <1>1, <1>3, <2>1, SetVarSets DEF Services
  <2>3. Synced'
    BY <1>5, <2>1, <2>2 DEF Synced, Wet
  <2>4. QED
    BY <1>4, <2>1, <2>2, <2>3
<1>7. CASE SyncStep("env indexer", "indexer", "mint", run.mint, "env pool")
  <2>1. /\ run' = [run EXCEPT !.pc = "env pool"] /\ SetVar("indexer", "mint", run.mint)
        /\ run.pc = "env indexer"
    BY <1>7 DEF SyncStep, Goto, At
  <2>2. /\ env' \in [set : Env, live : Env] /\ env'.set["web"].mint = env.set["web"].mint
        /\ ~run.cfg.render.skip /\ Wet /\ run.mint # Null => env'.set["indexer"].mint = run.mint
    BY <1>1, <1>3, <2>1, SetVarSets DEF Services
  <2>3. Synced'
    BY <1>1, <1>5, <2>1, <2>2 DEF RunSound, Synced, Wet
  <2>4. QED
    BY <1>4, <2>1, <2>2, <2>3
<1>8. CASE SyncStep("env pool", "indexer", "pool", run.pool, "trigger web")
  <2>1. /\ run' = [run EXCEPT !.pc = "trigger web"] /\ SetVar("indexer", "pool", run.pool)
        /\ run.pc = "env pool"
    BY <1>8 DEF SyncStep, Goto, At
  <2>2. /\ env' \in [set : Env, live : Env] /\ env'.set["web"].mint = env.set["web"].mint
        /\ env'.set["indexer"].mint = env.set["indexer"].mint
    BY <1>1, <1>3, <2>1, SetVarSets DEF Services
  <2>3. Synced'
    BY <1>1, <1>5, <2>1, <2>2 DEF RunSound, Synced, Wet
  <2>4. QED
    BY <1>4, <2>1, <2>2, <2>3
<1>9. ASSUME NEW s \in Services, env \in [set : Env, live : Env],
             env' = env \/ env' = [env EXCEPT !.live[s] = env.set[s]]
      PROVE  env' \in [set : Env, live : Env] /\ env'.set = env.set
  <2>1. CASE env' = env
    BY <1>9, <2>1
  <2>2. CASE env' = [env EXCEPT !.live[s] = env.set[s]]
    <3>1. env.set \in Env /\ env.live \in Env /\ env.set[s] \in [mint : Mints, pool : Mints]
      BY <1>9 DEF Env
    <3>2. [env.live EXCEPT ![s] = env.set[s]] \in Env
      BY <3>1 DEF Env
    <3>3. QED
      BY <1>9, <2>2, <3>1, <3>2
  <2>3. QED
    BY <1>9, <2>1, <2>2
<1>10. env \in [set : Env, live : Env]
  BY DEF RunSound, Shapes
<1>11. CASE triggerDeploy("web", "trigger web", "trigger indexer")
  <2>1. /\ run' = [run EXCEPT !.pc = "trigger indexer"] /\ run.pc = "trigger web"
        /\ env' = env \/ env' = [env EXCEPT !.live["web"] = env.set["web"]]
        /\ ~run.cfg.render.skip /\ Wet /\ run.cfg.render.triggerDeploy =>
             env' = [env EXCEPT !.live["web"] = env.set["web"]]
    BY <1>11 DEF triggerDeploy, Goto, At
  <2>2. env' \in [set : Env, live : Env] /\ env'.set = env.set
    BY <1>9, <1>10, <2>1 DEF Services
  <2>3. ~run.cfg.render.skip /\ Wet /\ run.cfg.render.triggerDeploy =>
          env'.live["web"] = env.set["web"]
    BY <1>10, <2>1 DEF Env, Services
  <2>4. Synced'
    BY <1>1, <1>5, <2>1, <2>2, <2>3 DEF RunSound, Synced, Wet
  <2>5. QED
    BY <1>4, <2>1, <2>2, <2>4
<1>12. CASE triggerDeploy("indexer", "trigger indexer", "apps")
  <2>1. /\ run' = [run EXCEPT !.pc = "apps"]
        /\ env' = env \/ env' = [env EXCEPT !.live["indexer"] = env.set["indexer"]]
    BY <1>12 DEF triggerDeploy, Goto
  <2>2. env' \in [set : Env, live : Env]
    BY <1>9, <1>10, <2>1 DEF Services
  <2>3. Synced'
    BY <1>5, <2>1 DEF Synced
  <2>4. QED
    BY <1>4, <2>1, <2>2, <2>3
<1>13. QED
  BY <1>6, <1>7, <1>8, <1>11, <1>12 DEF setEnvVars, Triggers

-----------------------------------------------------------------------------
(***************************************************************************)
(* The registration of the apps.                                           *)
(***************************************************************************)
\* Only i's worker moved, and no worker was added.
MovesOnly(i) ==
  /\ work' \in [Entries -> Works] /\ DOMAIN apps' = Entries
  /\ \A j \in Entries \ {i} : work'[j] = work[j] /\ apps'[j] = apps[j]
  /\ UNCHANGED <<run, dry>> /\ At("creating")

\* App i is registered, and reported, no further than it is on-chain.
AppSound(i) ==
  /\ apps[i] = Null \/ apps[i] \subseteq 1..TagsOf[i]
  /\ work[i].pc = "tag" =>
       /\ work[i].tags < TagsOf[i]
       /\ apps[i] \in {1..work[i].tags, 1..(work[i].tags + 1)}
  /\ work[i].pc = "created" => apps[i] = 1..TagsOf[i]

LEMMA WorkIsOfApps ==
  WorkSound <=> /\ work \in [Entries -> Works] /\ DOMAIN apps = Entries
                /\ \A i \in Entries : AppSound(i)
                /\ Cardinality(Busy) <= Concurrency
                /\ Busy # {} => At("creating")
BY DEF WorkSound, AppSound, CreatedHasEveryTag

\* A step of one worker that keeps its app sound keeps them all.
LEMMA OneWorker ==
  ASSUME WorkSound, NEW i \in Entries, MovesOnly(i), AppSound(i)',
         i \in Busy \/ (i \in Busy' => Cardinality(Busy) < Concurrency)
  PROVE  WorkSound'
<1>1. \A j \in Entries : AppSound(j)'
  BY WorkIsOfApps DEF MovesOnly, AppSound
<1>2. Busy' \subseteq Busy \cup {i}
  BY DEF MovesOnly, Busy
<1>3. IsFiniteSet(Busy) /\ IsFiniteSet(Busy') /\ Cardinality(Busy) <= Concurrency /\ Concurrency \in Nat
  <2>1. IsFiniteSet(Busy) /\ IsFiniteSet(Busy \cup {i})
    BY BusyIsFinite, FS_AddElement
  <2>2. IsFiniteSet(Busy')
    BY <1>2, <2>1, FS_Subset
  <2>3. QED
    BY <2>1, <2>2, Lists DEF WorkSound
<1>4. Cardinality(Busy') <= Concurrency
  <2>1. CASE Busy' \subseteq Busy
    <3>1. Cardinality(Busy') <= Cardinality(Busy)
      BY <1>3, <2>1, FS_Subset
    <3>2. Cardinality(Busy') \in Nat /\ Cardinality(Busy) \in Nat
      BY <1>3, FS_CardinalityType
    <3>3. QED
      BY <1>3, <3>1, <3>2
  <2>2. CASE ~(Busy' \subseteq Busy)
    <3>1. i \notin Busy /\ i \in Busy'
      BY <1>2, <2>2
    <3>2. Cardinality(Busy) < Concurrency
      BY <3>1
    <3>3. IsFiniteSet(Busy \cup {i}) /\ Cardinality(Busy \cup {i}) = Cardinality(Busy) + 1
      BY <1>3, <3>1, FS_AddElement
    <3>4. Cardinality(Busy') <= Cardinality(Busy \cup {i})
      BY <1>2, <3>3, FS_Subset
    <3>5. Cardinality(Busy') \in Nat /\ Cardinality(Busy) \in Nat
      BY <1>3, FS_CardinalityType
    <3>6. QED
      BY <1>3, <3>2, <3>3, <3>4, <3>5
  <2>3. QED
    BY <2>1, <2>2
<1>5. At("creating")'
  BY DEF MovesOnly, At
<1>6. QED
  BY <1>1, <1>4, <1>5 DEF MovesOnly, WorkSound, AppSound, CreatedHasEveryTag

\* Tags 1 to n.
LEMMA TagSets ==
  ASSUME NEW i \in Entries
  PROVE  /\ \A n \in Nat : n <= TagsOf[i] => 1..n \subseteq 1..TagsOf[i]
         /\ \A n \in Nat : (1..n) \cup {n + 1} = 1..(n + 1)
         /\ \A n \in Nat : (1..(n + 1)) \cup {n + 1} = 1..(n + 1)
         /\ \A n \in Nat : n <= TagsOf[i] => 1..n # Null
         /\ Less(TagsPerTx, TagsOf[i]) \in Nat /\ Less(TagsPerTx, TagsOf[i]) <= TagsOf[i]
<1>1. TagsOf[i] \in Nat /\ TagsPerTx \in Nat
  BY Lists DEF Entries
<1>2. \A n \in Nat : n <= TagsOf[i] => 1..n # Null
  BY <1>1, NullIsNoSetOfTags DEF Entries
<1>3. /\ \A n \in Nat : n <= TagsOf[i] => 1..n \subseteq 1..TagsOf[i]
      /\ \A n \in Nat : (1..n) \cup {n + 1} = 1..(n + 1)
      /\ \A n \in Nat : (1..(n + 1)) \cup {n + 1} = 1..(n + 1)
  BY <1>1
<1>4. Less(TagsPerTx, TagsOf[i]) \in Nat /\ Less(TagsPerTx, TagsOf[i]) <= TagsOf[i]
  BY <1>1 DEF Less
<1>5. QED
  BY <1>2, <1>3, <1>4

LEMMA AppsKept ==
  ASSUME WorkSound, NEW i \in Entries, UNCHANGED apps,
         NEW x \in Works, work' = [work EXCEPT ![i] = x], UNCHANGED <<run, dry>>, At("creating"),
         x.pc \in {"tag", "created"} => x.pc = work[i].pc /\ x.tags = work[i].tags
  PROVE  MovesOnly(i) /\ AppSound(i)'
<1>1. work \in [Entries -> Works] /\ AppSound(i) /\ DOMAIN apps = Entries
  BY WorkIsOfApps
<1>2. work' \in [Entries -> Works] /\ work'[i] = x /\ \A j \in Entries \ {i} : work'[j] = work[j]
  BY <1>1
<1>3. QED
  BY <1>1, <1>2 DEF MovesOnly, AppSound

\* A worker that has registered i up to tag n.
LEMMA AppRegistered ==
  ASSUME WorkSound, NEW i \in Entries, NEW n \in Nat, n <= TagsOf[i],
         apps' = [apps EXCEPT ![i] = 1..n],
         work' = [work EXCEPT ![i] = [pc |-> AfterTags(i, n), tags |-> n, tries |-> 0]],
         UNCHANGED <<run, dry>>, At("creating")
  PROVE  MovesOnly(i) /\ AppSound(i)'
<1> DEFINE x == [pc |-> AfterTags(i, n), tags |-> n, tries |-> 0]
<1>1. x \in Works /\ x.tags = n /\ x.pc = IF n = TagsOf[i] THEN "created" ELSE "tag"
  BY DEF Works, AfterTags, Over
<1>2. work' = [work EXCEPT ![i] = x]
  OBVIOUS
<1> HIDE DEF x
<1>3. work \in [Entries -> Works] /\ DOMAIN apps = Entries
  BY WorkIsOfApps
<1>4. /\ work' \in [Entries -> Works] /\ work'[i] = x /\ \A j \in Entries \ {i} : work'[j] = work[j]
      /\ DOMAIN apps' = Entries /\ apps'[i] = 1..n /\ \A j \in Entries \ {i} : apps'[j] = apps[j]
  BY <1>1, <1>2, <1>3
<1>5. MovesOnly(i)
  BY <1>4 DEF MovesOnly
<1>6. TagsOf[i] \in Nat /\ 1..n \subseteq 1..TagsOf[i]
  BY Lists, TagSets
<1>7. AppSound(i)'
  BY <1>1, <1>4, <1>6 DEF AppSound
<1>8. QED
  BY <1>5, <1>7

\* Every step of a worker keeps its app sound, and a dry one sends nothing.
LEMMA WorkerMoves ==
  ASSUME WorkSound, NEW i \in Entries,
         mapWithConcurrency(i) \/ Check(i) \/ SendApp(i) \/ SendTag(i) \/ RateLimited(i)
  PROVE  /\ MovesOnly(i) /\ AppSound(i)'
         /\ i \in Busy \/ Cardinality(Busy) < Concurrency
         /\ work'[i].pc \in {"init", "tag"} => work[i].pc \in {"init", "tag"} \/ ~dry
         /\ apps' # apps => work[i].pc \in {"init", "tag"}
         /\ apps[i] # Null => apps'[i] # Null /\ apps[i] \subseteq apps'[i]
<1>1. /\ UNCHANGED <<run, dry>> /\ At("creating")
  BY DEF mapWithConcurrency, Check, SendApp, SendTag, RateLimited, JobStep, deployVars
<1>2. work \in [Entries -> Works] /\ work[i] \in Works /\ AppSound(i) /\ DOMAIN apps = Entries
  BY WorkIsOfApps
<1>3. \A pc \in {"check", "init", "failed", "skipped", "dry"} :
        /\ [work[i] EXCEPT !.pc = pc, !.tries = 0] \in Works
        /\ [work[i] EXCEPT !.pc = pc, !.tries = 0].pc = pc
        /\ Work(i, pc) => work' = [work EXCEPT ![i] = [work[i] EXCEPT !.pc = pc, !.tries = 0]]
  BY <1>2 DEF Works, Over, Work
<1>4. ASSUME NEW pc \in {"check", "init", "failed", "skipped", "dry"}, Work(i, pc), UNCHANGED apps
      PROVE  MovesOnly(i) /\ AppSound(i)' /\ work'[i].pc = pc
  <2> DEFINE x == [work[i] EXCEPT !.pc = pc, !.tries = 0]
  <2>1. x \in Works /\ x.pc = pc /\ work' = [work EXCEPT ![i] = x]
    BY <1>3, <1>4
  <2> HIDE DEF x
  <2>2. QED
    BY <1>1, <1>2, <1>4, <2>1, AppsKept
<1>5. CASE mapWithConcurrency(i)
  <2>1. Work(i, "check") /\ UNCHANGED apps /\ Cardinality(Busy) < Concurrency
    BY <1>5 DEF mapWithConcurrency, HasWorker
  <2>2. QED
    BY <1>4, <2>1
<1>6. CASE Check(i)
  <2>1. /\ UNCHANGED apps /\ work[i].pc = "check" /\ i \in Busy
        /\ Work(i, "skipped") \/ Work(i, "dry") \/ (Work(i, "init") /\ ~dry)
    BY <1>6 DEF Check, Busy
  <2>2. QED
    BY <1>4, <2>1
<1>7. CASE SendApp(i)
  <2> DEFINE first == Less(TagsPerTx, TagsOf[i])
  <2>1. /\ work[i].pc = "init" /\ i \in Busy
        /\ \/ /\ apps[i] = Null /\ apps' = [apps EXCEPT ![i] = 1..first]
              /\ work' = [work EXCEPT ![i] = [pc |-> AfterTags(i, first), tags |-> first, tries |-> 0]]
           \/ Work(i, "failed") /\ UNCHANGED apps
    BY <1>7 DEF SendApp, Busy
  <2>2. first \in Nat /\ first <= TagsOf[i]
    BY TagSets
  <2> HIDE DEF first
  <2>3. QED
    BY <1>1, <1>4, <2>1, <2>2, AppRegistered
<1>8. CASE SendTag(i)
  <2> DEFINE n == work[i].tags
  <2>1. /\ work[i].pc = "tag" /\ i \in Busy
        /\ \/ /\ n + 1 \notin apps[i] /\ apps' = [apps EXCEPT ![i] = @ \cup {n + 1}]
              /\ work' = [work EXCEPT ![i] = [pc |-> AfterTags(i, n + 1), tags |-> n + 1, tries |-> 0]]
           \/ Work(i, "failed") /\ UNCHANGED apps
    BY <1>8 DEF SendTag, Busy
  <2>2. n \in Nat /\ n < TagsOf[i] /\ TagsOf[i] \in Nat /\ apps[i] \in {1..n, 1..(n + 1)}
    BY <1>2, <2>1, Lists DEF Works, AppSound
  <2> HIDE DEF n
  <2>3. CASE /\ n + 1 \notin apps[i] /\ apps' = [apps EXCEPT ![i] = @ \cup {n + 1}]
             /\ work' = [work EXCEPT ![i] = [pc |-> AfterTags(i, n + 1), tags |-> n + 1, tries |-> 0]]
    <3>1. n + 1 \in Nat /\ n + 1 <= TagsOf[i] /\ n + 1 \in 1..(n + 1)
      BY <2>2
    <3>2. apps[i] = 1..n /\ apps[i] \cup {n + 1} = 1..(n + 1)
      BY <2>2, <2>3, <3>1, TagSets
    <3>3. apps' = [apps EXCEPT ![i] = 1..(n + 1)]
      BY <2>3, <3>2
    <3>4. MovesOnly(i) /\ AppSound(i)'
      BY <1>1, <2>3, <3>1, <3>3, AppRegistered
    <3>5. apps'[i] = apps[i] \cup {n + 1} /\ apps'[i] # Null
      BY <1>2, <3>1, <3>2, <3>3, TagSets
    <3>6. QED
      BY <2>1, <3>4, <3>5
  <2>4. QED
    BY <1>4, <2>1, <2>3
<1>9. CASE RateLimited(i)
  <2>1. i \in Busy /\ apps' \in {apps, Landed(i)}
    BY <1>9 DEF RateLimited
  <2>2. PICK x \in Works :
          /\ work' = [work EXCEPT ![i] = x]
          /\ \/ x.pc = work[i].pc /\ x.tags = work[i].tags
             \/ x.pc = "failed"
    <3>1. CASE MayRetry(work[i].tries + 1)
      <4>1. Less(work[i].tries + 1, MaxAttempts) \in Nat
        BY <1>2, Lists DEF Works, Less
      <4>2. work' = [work EXCEPT ![i] = [work[i] EXCEPT !.tries = Less(work[i].tries + 1, MaxAttempts)]]
        BY <1>2, <1>9, <3>1 DEF RateLimited
      <4> DEFINE y == [work[i] EXCEPT !.tries = Less(work[i].tries + 1, MaxAttempts)]
      <4>3. y \in Works /\ y.pc = work[i].pc /\ y.tags = work[i].tags
        BY <1>2, <4>1 DEF Works
      <4> HIDE DEF y
      <4>4. QED
        BY <4>2, <4>3 DEF y
    <3>2. CASE ~MayRetry(work[i].tries + 1)
      <4>1. work' = [work EXCEPT ![i] = [work[i] EXCEPT !.pc = "failed", !.tries = 0]]
        BY <1>2, <1>9, <3>2 DEF RateLimited
      <4>2. QED
        BY <1>3, <4>1
    <3>3. QED
      BY <3>1, <3>2
  <2>3. work'[i] = x
    BY <1>2, <2>2
  <2>4. CASE apps' = apps
    <3>1. work[i].pc # "created"
      BY <2>1 DEF Busy
    <3>2. MovesOnly(i) /\ AppSound(i)'
      BY <1>1, <2>2, <2>4, AppsKept
    <3>3. QED
      BY <2>1, <2>2, <2>3, <2>4, <3>2
  <2>5. CASE apps' # apps
    <3>1. PICK n \in Nat :
            /\ n <= TagsOf[i] /\ apps' = [apps EXCEPT ![i] = 1..n]
            /\ \/ work[i].pc = "init" /\ apps[i] = Null
               \/ work[i].pc = "tag" /\ n = work[i].tags + 1 /\ apps[i] \subseteq 1..n
      <4>1. apps' = Landed(i)
        BY <2>1, <2>5
      <4>2. CASE work[i].pc = "init" /\ program /\ apps[i] = Null
        <5> DEFINE first == Less(TagsPerTx, TagsOf[i])
        <5>1. apps' = [apps EXCEPT ![i] = 1..first]
          BY <4>1, <4>2 DEF Landed
        <5>2. first <= TagsOf[i] /\ work[i].pc = "init" /\ apps[i] = Null
          BY <4>2, TagSets
        <5> first \in Nat
          BY TagSets
        <5> HIDE DEF first
        <5> WITNESS first \in Nat
        <5>3. QED
          BY <5>1, <5>2
      <4>3. CASE work[i].pc = "tag"
        <5> DEFINE m == work[i].tags
        <5>1. m \in Nat /\ m < TagsOf[i] /\ TagsOf[i] \in Nat /\ apps[i] \in {1..m, 1..(m + 1)}
          BY <1>2, <4>3, Lists DEF Works, AppSound
        <5>2. apps' = [apps EXCEPT ![i] = @ \cup {m + 1}]
          BY <4>1, <4>3 DEF Landed
        <5> HIDE DEF m
        <5>3. apps[i] \cup {m + 1} = 1..(m + 1)
          BY <5>1, TagSets
        <5>4. m + 1 \in Nat /\ m + 1 <= TagsOf[i] /\ apps[i] \subseteq 1..(m + 1)
          BY <5>1, <5>3
        <5>5. apps' = [apps EXCEPT ![i] = 1..(m + 1)]
          BY <5>2, <5>3
        <5>6. QED
          BY <4>3, <5>4, <5>5 DEF m
      <4>4. QED
        BY <2>5, <4>1, <4>2, <4>3 DEF Landed
    <3>2. /\ DOMAIN apps' = Entries /\ apps'[i] = 1..n /\ \A j \in Entries \ {i} : apps'[j] = apps[j]
          /\ work' \in [Entries -> Works] /\ \A j \in Entries \ {i} : work'[j] = work[j]
      BY <1>2, <2>2, <3>1
    <3>3. MovesOnly(i)
      BY <1>1, <3>2 DEF MovesOnly
    <3>4. 1..n \subseteq 1..TagsOf[i] /\ 1..n # Null
      BY <3>1, TagSets
    <3>5. work[i].pc = "tag" => work[i].tags < TagsOf[i]
      BY <1>2 DEF AppSound
    <3>6. AppSound(i)'
      BY <2>2, <2>3, <3>1, <3>2, <3>4, <3>5 DEF AppSound
    <3>7. QED
      BY <2>1, <2>2, <2>3, <3>1, <3>2, <3>3, <3>4, <3>6
  <2>6. QED
    BY <2>4, <2>5
<1>10. QED
  BY <1>5, <1>6, <1>7, <1>8, <1>9

\* Whatever is on-chain stays there.
AppsGrow == \A i \in Entries : apps[i] # Null => apps'[i] # Null /\ apps[i] \subseteq apps'[i]

JobSteps == \E i \in Entries :
  mapWithConcurrency(i) \/ Check(i) \/ SendApp(i) \/ SendTag(i) \/ RateLimited(i)

\* The steps of the registration, from a run's own to the last.
LEMMA WorkStep ==
  ASSUME WorkSound, DryWork, IndexedIsOnChain, Shapes, [Next]_vars
  PROVE  WorkSound' /\ DryWork' /\ AppsGrow
<1>1. CASE JobSteps
  <2>1. PICK i \in Entries :
          mapWithConcurrency(i) \/ Check(i) \/ SendApp(i) \/ SendTag(i) \/ RateLimited(i)
    BY <1>1 DEF JobSteps
  <2>2. /\ MovesOnly(i) /\ AppSound(i)'
        /\ i \in Busy \/ Cardinality(Busy) < Concurrency
        /\ work'[i].pc \in {"init", "tag"} => work[i].pc \in {"init", "tag"} \/ ~dry
        /\ apps[i] # Null => apps'[i] # Null /\ apps[i] \subseteq apps'[i]
    BY <2>1, WorkerMoves
  <2>3. WorkSound'
    BY <2>2, OneWorker
  <2>4. DryWork'
    BY <2>2 DEF DryWork, MovesOnly, At
  <2>5. AppsGrow
    BY <2>2 DEF AppsGrow, MovesOnly
  <2>6. QED
    BY <2>3, <2>4, <2>5
<1>2. CASE runSeedApps /\ ~run.cfg.seedApps.skip
  <2>1. /\ run # Null /\ run' = [run EXCEPT !.pc = "creating"]
        /\ work' = [i \in Entries |-> Todo] /\ dry' = run.cfg.dryRun /\ apps' = apps
    BY <1>2 DEF runSeedApps, Goto, At, Forwarded
  <2>2. run'.pc = "creating" /\ run'.cfg = run.cfg
    BY <2>1, StepShape
  <2>3. Busy' = {}
    BY <2>1 DEF Busy, Todo
  <2>4. Cardinality(Busy') = 0
    BY <2>3, FS_EmptySet
  <2>5. WorkSound'
    BY <2>1, <2>3, <2>4, Lists DEF WorkSound, CreatedHasEveryTag, Todo, Works
  <2>6. DryWork' /\ AppsGrow
    BY <2>1, <2>2 DEF DryWork, AppsGrow, At, Todo
  <2>7. QED
    BY <2>5, <2>6
<1>3. CASE Abort
  <2>1. /\ run' = Null /\ UNCHANGED <<apps, dry>>
        /\ work' = [i \in Entries |-> IF work[i].pc \in {"check", "init", "tag"} THEN Todo ELSE work[i]]
    BY <1>3 DEF Abort
  <2>2. Busy' = {}
    BY <2>1 DEF Busy, Todo
  <2>3. Cardinality(Busy') = 0
    BY <2>2, FS_EmptySet
  <2>4. Todo \in Works /\ Todo.pc = "todo"
    BY DEF Works, Todo
  <2>5. WorkSound'
    BY <2>1, <2>2, <2>3, <2>4, Lists DEF WorkSound, CreatedHasEveryTag
  <2>6. DryWork' /\ AppsGrow
    BY <2>1, <2>4 DEF DryWork, AppsGrow, At
  <2>7. QED
    BY <2>5, <2>6
\* All others leave the work alone, or end it when nothing of it is left.
<1>4. ASSUME UNCHANGED <<apps, work, dry>>, At("creating")' => At("creating") /\ run' = run,
             At("creating") => At("creating")' \/ Busy = {}
      PROVE  WorkSound' /\ DryWork' /\ AppsGrow
  <2>1. Busy' = Busy
    BY <1>4 DEF Busy
  <2>2. WorkSound'
    BY <1>4, <2>1 DEF WorkSound, CreatedHasEveryTag
  <2>3. DryWork' /\ AppsGrow
    BY <1>4 DEF DryWork, AppsGrow
  <2>4. QED
    BY <2>2, <2>3
<1>5. CASE CreateDone
  <2>1. Busy = {}
    BY <1>5 DEF CreateDone, Busy, Over
  <2>2. QED
    BY <1>4, <1>5, <2>1 DEF CreateDone, At, jobVars
<1>6. CASE \E cfg \in Configs : StartRun(cfg)
  BY <1>4, <1>6 DEF StartRun, At, jobVars
<1>7. CASE (Steps /\ ~runSeedApps) \/ (runSeedApps /\ run.cfg.seedApps.skip)
  <2>1. UNCHANGED <<apps, work, dry>> /\ run # Null /\ run.pc # "creating"
    BY <1>7 DEF Steps, runProgramDeploy, runLaunchNeb, createTokenWithMetadata, revokeMintAuthority,
                createLaunchPool, addLiquidity, runConfigInit, setEnvVars, SyncStep, Triggers,
                triggerDeploy, runSeedApps, At, jobVars
  <2>2. run' = Null \/ run'.pc # "creating"
    <3>1. \/ run' = Null \/ run' = run
          \/ \E pc \in PCs \ {"creating"} :
               \/ run' = [run EXCEPT !.pc = pc]
               \/ \E m : run' = [run EXCEPT !.pc = pc, !.mint = m]
               \/ \E m : run' = [run EXCEPT !.pc = pc, !.pool = m]
               \/ \E m : \E p : run' = [run EXCEPT !.pc = pc, !.mint = m, !.pool = p]
      BY <1>7 DEF Steps, runProgramDeploy, runLaunchNeb, createTokenWithMetadata, revokeMintAuthority,
                  createLaunchPool, addLiquidity, runConfigInit, setEnvVars, SyncStep, Triggers,
                  triggerDeploy, runSeedApps, Goto, PCs
    <3>2. run \in [pc : PCs, cfg : Configs, mint : Nat \cup {Null}, pool : Nat \cup {Null}]
      BY <2>1, StepShape
    <3>3. QED
      BY <2>1, <3>1, <3>2
  <2>3. QED
    BY <1>4, <2>1, <2>2 DEF At
<1>8. CASE \/ StartSeeding \/ SeedStakes \/ (\E t \in Targets : RecordFails(t))
          \/ (\E i \in Entries : Crawl(i)) \/ UNCHANGED vars
  <2>1. UNCHANGED <<apps, work, dry, run>>
    BY <1>8 DEF StartSeeding, SeedStakes, SendStake, recordStakeOrVote, PollTag, SeedingEnds, RecordFails,
                Crawl, SeedStep, deployVars, jobVars, vars
  <2>2. QED
    BY <1>4, <2>1 DEF At
<1>9. QED
  BY <1>1, <1>2, <1>3, <1>5, <1>6, <1>7, <1>8 DEF Next, CreateApps, Steps, JobSteps

-----------------------------------------------------------------------------
(***************************************************************************)
(* The crawler and the seeding of stakes.                                  *)
(***************************************************************************)
\* Apps are never lost, so what the crawler has read of them stays true.
LEMMA IndexedKept ==
  ASSUME WorkSound, IndexedIsOnChain, AppsGrow, [Next]_vars
  PROVE  IndexedIsOnChain'
<1>1. \A t \in Pairs : t[1] \in Entries /\ t = <<t[1], t[2]>>
  BY DEF Pairs
<1>2. \A t \in Pairs : OnChain(t) => OnChain(t)'
  BY <1>1 DEF OnChain, AppsGrow
<1>3. CASE indexed' = indexed
  BY <1>2, <1>3 DEF IndexedIsOnChain
<1>4. CASE \E i \in Entries : Crawl(i)
  <2>1. PICK i \in Entries : Crawl(i)
    BY <1>4
  <2>2. apps[i] # Null /\ indexed' = indexed \cup {<<i, k>> : k \in apps[i]} /\ apps' = apps
    BY <2>1 DEF Crawl
  <2>3. \A k \in apps[i] : <<i, k>> \in Pairs
    BY <2>2 DEF WorkSound, Pairs
  <2>4. \A k \in apps[i] : OnChain(<<i, k>>)'
    BY <2>2 DEF OnChain
  <2>5. QED
    BY <1>2, <2>2, <2>3, <2>4 DEF IndexedIsOnChain
<1>5. indexed' = indexed \/ \E i \in Entries : Crawl(i)
  BY DEF Next, StartRun, Steps, runProgramDeploy, runLaunchNeb, createTokenWithMetadata,
         revokeMintAuthority, createLaunchPool, addLiquidity, runConfigInit, setEnvVars, SyncStep,
         Triggers, triggerDeploy, runSeedApps, CreateApps, mapWithConcurrency, Check, SendApp, SendTag,
         RateLimited, CreateDone, JobStep, Abort, StartSeeding, SeedStakes, SendStake,
         recordStakeOrVote, PollTag, SeedingEnds, RecordFails, SeedStep, stakeVars, vars
<1>6. QED
  BY <1>3, <1>4, <1>5

SeedPCs == {"todo", "sent"} \cup SeedingDone
Seeds == [Targets -> [pc : SeedPCs, polls : Int]]

\* One target moves on.
LEMMA OneSeed ==
  ASSUME SeedSound, seeding # Null, NEW t \in Targets,
         NEW x \in [pc : SeedPCs, polls : Int], NEW m \in Nat, NEW n \in Nat,
         seeding' = [seeding EXCEPT ![t] = x],
         staked' = [staked EXCEPT ![t] = m], ledger' = [ledger EXCEPT ![t] = n],
         n <= m, x.pc = "sent" => n < m
  PROVE  SeedSound'
<1>1. seeding \in Seeds /\ staked \in [Targets -> Nat] /\ ledger \in [Targets -> Nat]
  BY DEF SeedSound, Seeds, SeedPCs
<1>2. /\ seeding' \in Seeds /\ staked' \in [Targets -> Nat] /\ ledger' \in [Targets -> Nat]
      /\ seeding'[t] = x /\ staked'[t] = m /\ ledger'[t] = n
      /\ \A s \in Targets \ {t} :
           seeding'[s] = seeding[s] /\ staked'[s] = staked[s] /\ ledger'[s] = ledger[s]
  BY <1>1 DEF Seeds
<1>3. \A s \in Targets : ledger[s] <= staked[s] /\ (seeding[s].pc = "sent" => ledger[s] < staked[s])
  BY DEF SeedSound, LedgerBehindChain
<1>4. LedgerBehindChain'
  BY <1>2, <1>3 DEF LedgerBehindChain
<1>5. QED
  BY <1>2, <1>4 DEF SeedSound, Seeds, SeedPCs

\* The fields of a target's progress.
LEMMA Marked ==
  ASSUME SeedSound, seeding # Null, NEW t \in Targets, NEW pc \in SeedPCs
  PROVE  /\ [seeding[t] EXCEPT !.pc = pc] \in [pc : SeedPCs, polls : Int]
         /\ [seeding[t] EXCEPT !.pc = pc].pc = pc
         /\ Mark(t, pc) => seeding' = [seeding EXCEPT ![t] = [seeding[t] EXCEPT !.pc = pc]]
         /\ staked = [staked EXCEPT ![t] = staked[t]] /\ ledger = [ledger EXCEPT ![t] = ledger[t]]
         /\ staked[t] \in Nat /\ ledger[t] \in Nat /\ ledger[t] <= staked[t]
         /\ seeding[t].pc = "sent" => ledger[t] < staked[t]
<1>1. seeding \in Seeds
  BY DEF SeedSound, Seeds, SeedPCs
<1>2. QED
  BY <1>1 DEF SeedSound, Seeds, LedgerBehindChain, Mark

LEMMA SeedStakesSound ==
  ASSUME SeedSound, NEW t \in Targets,
         SendStake(t) \/ recordStakeOrVote(t) \/ PollTag(t) \/ RecordFails(t)
  PROVE  SeedSound'
<1>1. seeding # Null
  BY DEF SendStake, recordStakeOrVote, PollTag, RecordFails
<1>2. /\ staked = [staked EXCEPT ![t] = staked[t]] /\ ledger = [ledger EXCEPT ![t] = ledger[t]]
      /\ staked[t] \in Nat /\ ledger[t] \in Nat /\ ledger[t] <= staked[t]
      /\ seeding[t].pc = "sent" => ledger[t] < staked[t]
  <2>1. "todo" \in SeedPCs
    BY DEF SeedPCs
  <2>2. QED
    BY <1>1, <2>1, Marked
<1>3. ASSUME NEW pc \in SeedPCs, Mark(t, pc), NEW m \in Nat, NEW n \in Nat,
             staked' = [staked EXCEPT ![t] = m], ledger' = [ledger EXCEPT ![t] = n],
             n <= m, pc = "sent" => n < m
      PROVE  SeedSound'
  <2> DEFINE x == [seeding[t] EXCEPT !.pc = pc]
  <2>1. x \in [pc : SeedPCs, polls : Int] /\ x.pc = pc /\ seeding' = [seeding EXCEPT ![t] = x]
    BY <1>1, <1>3, Marked
  <2> HIDE DEF x
  <2>2. QED
    BY <1>1, <1>3, <2>1, OneSeed
<1>4. {"sent", "failed", "recorded", "unrecorded"} \subseteq SeedPCs
  BY DEF SeedPCs, SeedingDone
<1>5. CASE SendStake(t)
  <2>1. /\ ledger' = ledger
        /\ \/ staked' = [staked EXCEPT ![t] = staked[t] + 1] /\ Mark(t, "sent")
           \/ staked' = staked /\ Mark(t, "failed")
    BY <1>5 DEF SendStake, LedgerBeforeRecord
  <2>2. CASE staked' = [staked EXCEPT ![t] = staked[t] + 1] /\ Mark(t, "sent")
    <3>1. staked[t] + 1 \in Nat /\ ledger[t] < staked[t] + 1 /\ ledger[t] <= staked[t] + 1
      BY <1>2
    <3>2. ledger' = [ledger EXCEPT ![t] = ledger[t]]
      BY <1>2, <2>1
    <3>3. QED
      BY <1>2, <1>3, <1>4, <2>2, <3>1, <3>2
  <2>3. CASE staked' = staked /\ Mark(t, "failed")
    <3>1. ledger' = [ledger EXCEPT ![t] = ledger[t]] /\ staked' = [staked EXCEPT ![t] = staked[t]]
      BY <1>2, <2>1, <2>3
    <3>2. QED
      BY <1>2, <1>3, <1>4, <2>3, <3>1
  <2>4. QED
    BY <2>1, <2>2, <2>3
<1>6. CASE recordStakeOrVote(t)
  <2>1. /\ staked' = staked /\ ledger' = [ledger EXCEPT ![t] = ledger[t] + 1] /\ Mark(t, "recorded")
        /\ seeding[t].pc = "sent"
    BY <1>6 DEF recordStakeOrVote
  <2>2. /\ staked' = [staked EXCEPT ![t] = staked[t]]
        /\ ledger[t] + 1 \in Nat /\ ledger[t] + 1 <= staked[t]
    BY <1>2, <2>1
  <2>3. QED
    BY <1>2, <1>3, <1>4, <2>1, <2>2
<1>7. CASE PollTag(t)
  <2>1. /\ ledger' = [ledger EXCEPT ![t] = ledger[t]] /\ staked' = [staked EXCEPT ![t] = staked[t]]
        /\ seeding[t].pc = "sent"
    BY <1>2, <1>7 DEF PollTag
  <2>2. PICK x \in [pc : SeedPCs, polls : Int] : seeding' = [seeding EXCEPT ![t] = x]
    <3>1. seeding[t].polls \in Int
      BY <1>1 DEF SeedSound
    <3>2. Less(seeding[t].polls + 1, MaxPolls - 1) \in Int
      BY <3>1, Lists DEF Less
    <3>3. PICK x : /\ x \in {[pc |-> "unrecorded", polls |-> 0],
                              [pc |-> "sent", polls |-> Less(seeding[t].polls + 1, MaxPolls - 1)]}
                   /\ seeding' = [seeding EXCEPT ![t] = x]
      BY <1>1, <1>7 DEF PollTag, SeedSound
    <3>4. x \in [pc : SeedPCs, polls : Int]
      BY <1>4, <3>2, <3>3
    <3>5. QED
      BY <3>3, <3>4
  <2>3. QED
    BY <1>1, <1>2, <2>1, <2>2, OneSeed
<1>8. CASE RecordFails(t)
  <2>1. /\ ledger' = [ledger EXCEPT ![t] = ledger[t]] /\ staked' = [staked EXCEPT ![t] = staked[t]]
        /\ Mark(t, "unrecorded")
    BY <1>2, <1>8 DEF RecordFails
  <2>2. QED
    BY <1>2, <1>3, <1>4, <2>1
<1>9. QED
  BY <1>5, <1>6, <1>7, <1>8

LEMMA SeedKept ==
  ASSUME SeedSound, [Next]_vars
  PROVE  SeedSound'
<1>1. CASE \E t \in Targets : SendStake(t) \/ recordStakeOrVote(t) \/ PollTag(t) \/ RecordFails(t)
  BY <1>1, SeedStakesSound
<1>2. ASSUME UNCHANGED <<staked, ledger>>, UNCHANGED seeding \/ seeding' = Null
      PROVE  SeedSound'
  BY <1>2 DEF SeedSound, LedgerBehindChain
<1>3. CASE SeedingEnds
  BY <1>2, <1>3 DEF SeedingEnds
<1>4. CASE StartSeeding
  <2>1. /\ UNCHANGED <<staked, ledger>> /\ seeding' = [t \in Targets |-> [pc |-> "todo", polls |-> 0]]
    BY <1>4 DEF StartSeeding
  <2>2. /\ seeding' \in [Targets -> [pc : {"todo", "sent"} \cup SeedingDone, polls : Int]]
        /\ \A t \in Targets : seeding'[t].pc = "todo"
    BY <2>1
  <2>3. LedgerBehindChain'
    BY <2>1, <2>2 DEF SeedSound, LedgerBehindChain
  <2>4. QED
    BY <2>1, <2>2, <2>3 DEF SeedSound
<1>5. \/ UNCHANGED <<staked, ledger, seeding>> \/ SeedingEnds \/ StartSeeding
      \/ \E t \in Targets : SendStake(t) \/ recordStakeOrVote(t) \/ PollTag(t) \/ RecordFails(t)
  BY DEF Next, StartRun, Steps, runProgramDeploy, runLaunchNeb, createTokenWithMetadata,
         revokeMintAuthority, createLaunchPool, addLiquidity, runConfigInit, setEnvVars, SyncStep,
         Triggers, triggerDeploy, runSeedApps, CreateApps, mapWithConcurrency, Check, SendApp, SendTag,
         RateLimited, CreateDone, JobStep, Abort, SeedStakes, Crawl, stakeVars, vars
<1>6. QED
  BY <1>1, <1>2, <1>3, <1>4, <1>5

-----------------------------------------------------------------------------
\* The run's part is kept by every step: most leave it alone, or end it.
LEMMA RunKept ==
  ASSUME RunSound, [Next]_vars
  PROVE  RunSound'
<1>1. CASE \E cfg \in Configs : StartRun(cfg)
  BY <1>1, StartRunSound
<1>2. CASE Steps
  BY <1>2, BeforeSync, LaunchSound, SyncSound DEF Steps
<1>3. CASE ~Steps /\ ~\E cfg \in Configs : StartRun(cfg)
  <2>1. (run' = run \/ run' = Null) /\ UNCHANGED <<program, mints, config, env>>
    BY <1>3 DEF Next, CreateApps, mapWithConcurrency, Check, SendApp, SendTag, RateLimited, CreateDone,
                JobStep, Abort, StartSeeding, SeedStakes, SendStake, recordStakeOrVote, PollTag,
                SeedingEnds, RecordFails, SeedStep, Crawl, deployVars, vars
  <2>2. QED
    BY <2>1, RunRests DEF RunSound, Shapes
<1>4. QED
  BY <1>1, <1>2, <1>3

LEMMA InitEstablishesIInv == Init => IInv
<1> SUFFICES ASSUME Init PROVE IInv
  OBVIOUS
<1>1. RunSound
  <2>1. NoVars \in [mint : Mints, pool : Mints]
    BY DEF NoVars, Mints
  <2>2. env \in [set : Env, live : Env]
    BY <2>1 DEF Init, Env
  <2>3. mints \in Seq([revoked : BOOLEAN, pool : BOOLEAN, seeded : 0..Chunks])
    BY DEF Init
  <2>4. Shapes
    BY <2>2, <2>3 DEF Init, Shapes, Mints
  <2>5. QED
    BY <2>4 DEF Init, RunSound, MintOfRun, Synced
<1>2. Busy = {}
  BY DEF Init, Busy, Todo
<1>3. WorkSound
  BY <1>2, FS_EmptySet, Lists DEF Init, WorkSound, CreatedHasEveryTag, Todo, Works
<1>4. DryWork
  BY DEF Init, DryWork, At
<1>5. IndexedIsOnChain /\ SeedSound
  BY DEF Init, IndexedIsOnChain, SeedSound, LedgerBehindChain
<1>6. QED
  BY <1>1, <1>3, <1>4, <1>5 DEF IInv

LEMMA StepKeepsIInv == IInv /\ [Next]_vars => IInv'
<1> SUFFICES ASSUME IInv, [Next]_vars PROVE IInv'
  OBVIOUS
<1>1. RunSound'
  BY RunKept DEF IInv
<1>2. WorkSound' /\ DryWork' /\ AppsGrow
  BY WorkStep DEF IInv, RunSound
<1>3. IndexedIsOnChain'
  BY <1>2, IndexedKept DEF IInv
<1>4. SeedSound'
  BY SeedKept DEF IInv
<1>5. QED
  BY <1>1, <1>2, <1>3, <1>4 DEF IInv

\* The inductive invariant of the scripts: what a run, a registration and a seeding know
\* of the chain and the services, wherever they are cut short.
THEOREM ScriptsSound == Spec => []IInv
BY InitEstablishesIInv, StepKeepsIInv, PTL DEF Spec

\* What the scripts report has happened: an app reported as created has all its tags, and
\* nothing is recorded that was not confirmed (createAppsOnchain.ts, seedStakes.ts).
THEOREM ReportsAreTrue == Spec => []Inv
<1>1. IInv => Inv
  <2> SUFFICES ASSUME IInv PROVE Inv
    OBVIOUS
  <2>1. {env.live["web"].mint, env.live["indexer"].mint} \subseteq Mints
    BY DEF IInv, RunSound, Shapes, Env, Services
  <2>2. TypeOK
    BY <2>1 DEF IInv, RunSound, Shapes, WorkSound, IndexedIsOnChain, TypeOK, Mints
  <2>3. QED
    BY <2>2 DEF IInv, WorkSound, SeedSound, Inv
<1>2. QED
  BY <1>1, ScriptsSound, PTL

\* The steps of one mint, as step properties.
LEMMA StepUsesOneMint ==
  ASSUME IInv, [Next]_vars
  PROVE  /\ At("trigger indexer") /\ Wet /\ run.mint # Null /\ env'.live["indexer"] # env.live["indexer"] =>
              env'.live["web"].mint = run.mint /\ env'.live["indexer"].mint = run.mint
         /\ run # Null /\ run.cfg.dryRun => UNCHANGED <<program, mints, config, env, apps>>
         /\ config # Null => config' = config
<1>1. At("trigger indexer") /\ Wet /\ run.mint # Null /\ env'.live["indexer"] # env.live["indexer"] =>
        env'.live["web"].mint = run.mint /\ env'.live["indexer"].mint = run.mint
  <2> SUFFICES ASSUME At("trigger indexer"), Wet, run.mint # Null,
                      env'.live["indexer"] # env.live["indexer"]
               PROVE  env'.live["web"].mint = run.mint /\ env'.live["indexer"].mint = run.mint
    OBVIOUS
  <2>1. triggerDeploy("indexer", "trigger indexer", "apps")
    BY DEF Next, StartRun, Steps, runProgramDeploy, runLaunchNeb, createTokenWithMetadata,
           revokeMintAuthority, createLaunchPool, addLiquidity, runConfigInit, setEnvVars, SyncStep,
           Triggers, triggerDeploy, runSeedApps, CreateApps, mapWithConcurrency, Check, SendApp, SendTag,
           RateLimited, CreateDone, JobStep, Abort, StartSeeding, SeedStakes, SendStake,
           recordStakeOrVote, PollTag, SeedingEnds, RecordFails, SeedStep, Crawl, At, deployVars, vars
  <2>2. /\ env' = [env EXCEPT !.live["indexer"] = env.set["indexer"]]
        /\ ~run.cfg.render.skip /\ run.cfg.render.triggerDeploy
    BY <2>1 DEF triggerDeploy
  <2>3. /\ env.set["indexer"].mint = run.mint /\ env.live["web"].mint = run.mint
    BY <2>2 DEF IInv, RunSound, Synced, At
  <2>4. env \in [set : Env, live : Env]
    BY DEF IInv, RunSound, Shapes
  <2>5. env'.live["indexer"] = env.set["indexer"] /\ env'.live["web"] = env.live["web"]
    BY <2>2, <2>4 DEF Env, Services
  <2>6. QED
    BY <2>3, <2>5
<1>2. run # Null /\ run.cfg.dryRun => UNCHANGED <<program, mints, config, env, apps>>
  <2> SUFFICES ASSUME run # Null, run.cfg.dryRun
               PROVE  UNCHANGED <<program, mints, config, env, apps>>
    OBVIOUS
  <2>1. ~Wet
    BY DEF Wet
  <2>2. ~At("revoke") /\ ~At("liquidity")
    BY <2>1 DEF IInv, RunSound, MintOfRun, At
  <2>3. CASE JobSteps
    <3>1. PICK i \in Entries :
            mapWithConcurrency(i) \/ Check(i) \/ SendApp(i) \/ SendTag(i) \/ RateLimited(i)
      BY <2>3 DEF JobSteps
    <3>2. At("creating") /\ UNCHANGED <<program, mints, config, env>>
      BY <3>1 DEF mapWithConcurrency, Check, SendApp, SendTag, RateLimited, JobStep, deployVars
    <3>3. work[i].pc \notin {"init", "tag"}
      BY <3>2 DEF IInv, DryWork
    <3>4. apps' = apps
      BY <3>1, <3>3, WorkerMoves DEF IInv
    <3>5. QED
      BY <3>2, <3>4
  <2>4. CASE Steps
    <3>1. program \in BOOLEAN => UNCHANGED program
      BY <2>1, <2>4 DEF Steps, runProgramDeploy, runLaunchNeb, createTokenWithMetadata,
           revokeMintAuthority, createLaunchPool, addLiquidity, runConfigInit, setEnvVars, SyncStep,
           Triggers, triggerDeploy, runSeedApps
    <3>2. UNCHANGED <<mints, config, env, apps>>
      BY <2>1, <2>2, <2>4 DEF Steps, runProgramDeploy, runLaunchNeb, createTokenWithMetadata,
           revokeMintAuthority, createLaunchPool, addLiquidity, runConfigInit, setEnvVars, SyncStep, SetVar,
           Triggers, triggerDeploy, runSeedApps
    <3>3. QED
      BY <3>1, <3>2 DEF IInv, RunSound, Shapes
  <2>5. CASE ~Steps /\ ~JobSteps
    BY <2>5 DEF Next, StartRun, CreateApps, JobSteps, CreateDone, Abort, StartSeeding, SeedStakes, SendStake,
           recordStakeOrVote, PollTag, SeedingEnds, RecordFails, SeedStep, Crawl, deployVars, vars
  <2>6. QED
    BY <2>3, <2>4, <2>5
<1>3. config # Null => config' = config
  BY DEF Next, StartRun, Steps, runProgramDeploy, runLaunchNeb, createTokenWithMetadata,
         revokeMintAuthority, createLaunchPool, addLiquidity, runConfigInit, ensureConfigInitialized,
         setEnvVars, SyncStep, Triggers, triggerDeploy, runSeedApps, CreateApps, mapWithConcurrency, Check,
         SendApp, SendTag, RateLimited, CreateDone, JobStep, Abort, StartSeeding, SeedStakes, SendStake,
         recordStakeOrVote, PollTag, SeedingEnds, RecordFails, SeedStep, Crawl, deployVars, vars
<1>4. QED
  BY <1>1, <1>2, <1>3

\* One mint: services restarted together use the run's own, Config keeps the one it was
\* given first, and a dry run changes nothing outside of itself (deploy/index.ts).
THEOREM OneMintAfterAll == Spec => OneMint
<1>1. IInv /\ [Next]_vars =>
        /\ [At("trigger indexer") /\ Wet /\ run.mint # Null /\ env'.live["indexer"] # env.live["indexer"] =>
              env'.live["web"].mint = run.mint /\ env'.live["indexer"].mint = run.mint]_vars
        /\ [run # Null /\ run.cfg.dryRun => UNCHANGED <<program, mints, config, env, apps>>]_vars
        /\ [config # Null => config' = config]_vars
  BY StepUsesOneMint
<1>2. QED
  BY <1>1, ScriptsSound, PTL DEF Spec, OneMint, RestartedTogether, DryRunSendsNothing, ConfigKeepsItsMint

-----------------------------------------------------------------------------
(***************************************************************************)
(* The curated list.                                                       *)
(***************************************************************************)
\* Lists with each site once; what may be asked of the file; what a page is.
OnceLists == {s \in Seq(Entry) : EachSiteOnce(s)}
Operations ==
  [kind : {"patch"}, tab : Tabs, url : Urls, tags : SUBSET Tags]
    \cup [kind : {"approve"}, tab : Tabs, apps : OnceLists]
Requests ==
  Operations \cup [kind : {"get", "discover"}, tab : Tabs]
    \cup [kind : {"asking"}, tab : Tabs, apps : OnceLists]
Replies ==
  [tab : Tabs, kind : {"get", "discover", "approve"}, ok : BOOLEAN, apps : OnceLists]
CatalogueJobs == [op : Operations, stage : {"read", "writing"}, apps : OnceLists]
\* What a timer will save, if it runs.
Saves == (SUBSET Tags) \cup {Unset}

CataloguePages ==
  [apps : Seq(Entry), timers : [Urls -> Saves], cards : OnceLists,
   asking : BOOLEAN, approving : BOOLEAN]

\* The file and whoever is about to write it: an operation that will write has in memory all
\* that was answered for, and all that it approves.
FileIsSound(file, answered, waiting, holders) ==
  /\ file \in [apps : OnceLists, torn : BOOLEAN]
  /\ answered \subseteq Sites(file.apps)
  /\ waiting \in Seq(Operations)
  /\ holders \subseteq CatalogueJobs
  /\ \A j \in holders : /\ holders = {j}
                        /\ answered \subseteq Sites(j.apps)
                        /\ j.op.kind = "approve" => Sites(j.op.apps) \subseteq Sites(j.apps)
  /\ file.torn => \E j \in holders : j.stage = "writing"

FileSound == FileIsSound(disk, acked, queue, jobs)

ScriptSound == script \in [left : 0..Iterations, entries : OnceLists]

NetSound == wire \subseteq Requests /\ replies \subseteq Replies

CatalogueSound == FileSound /\ ScriptSound /\ NetSound /\ tab \in [Tabs -> CataloguePages]

-----------------------------------------------------------------------------
LEMMA EntriesAreLists ==
  ASSUME NEW s \in Seq(Entry)
  PROVE  /\ Len(s) \in Nat /\ DOMAIN s = 1..Len(s)
         /\ \A i \in DOMAIN s : s[i] \in Entry
  OBVIOUS

LEMMA NothingIsOnce == <<>> \in OnceLists /\ Sites(<<>>) = {}
  BY DEF OnceLists, EachSiteOnce, Sites

\* What is kept of a list is at its places, each of them once.
LEMMA KeptPlaces ==
  ASSUME NEW s \in Seq(Entry), NEW K, K \subseteq DOMAIN s
  PROVE  /\ Keep(s, K) \in Seq(Entry)
         /\ Sites(Keep(s, K)) = {normalizeUrl(s[k].url) : k \in K}
         /\ (\A j, k \in K : normalizeUrl(s[j].url) = normalizeUrl(s[k].url) => j = k)
              => Keep(s, K) \in OnceLists
<1> DEFINE N == Len(s)
           C == Cardinality(K)
           t == Keep(s, K)
<1>1. N \in Nat /\ DOMAIN s = 1..N /\ K \subseteq 1..N
  BY EntriesAreLists
<1>2. t \in Seq(Entry)
  BY KeepIsList
<1> HIDE DEF N
<1>3. PICK e : PlacesOf(e, s, K)
  BY <1>1, KeepIsInOrder
<1>4. /\ e \in [1..C -> K]
      /\ t = [n \in 1..C |-> s[e[n]]]
      /\ \A m, n \in 1..C : m < n => e[m] < e[n]
      /\ \A k \in K : \E n \in 1..C : e[n] = k
  BY <1>3 DEF PlacesOf
<1>5. C \in Nat
  <2>1. C \in 0..N
    BY <1>1, KeepIsInOrder
  <2>2. QED
    BY <1>1, <2>1
<1> HIDE DEF C, t
<1>6. DOMAIN t = 1..C /\ \A n \in 1..C : t[n] = s[e[n]] /\ e[n] \in K
  BY <1>4
<1>7. Sites(t) = {normalizeUrl(s[k].url) : k \in K}
  <2>1. \A x \in Sites(t) : x \in {normalizeUrl(s[k].url) : k \in K}
    BY <1>6 DEF Sites
  <2>2. ASSUME NEW k \in K
        PROVE  normalizeUrl(s[k].url) \in Sites(t)
    <3>1. PICK n \in 1..C : e[n] = k
      BY <1>4
    <3>2. t[n] = s[k]
      BY <1>6, <3>1
    <3>3. QED
      BY <1>6, <3>2 DEF Sites
  <2>3. QED
    BY <2>1, <2>2
<1>8. ASSUME \A j, k \in K : normalizeUrl(s[j].url) = normalizeUrl(s[k].url) => j = k
      PROVE  t \in OnceLists
  <2>1. \A m, n \in 1..C : e[m] = e[n] => m = n
    <3> SUFFICES ASSUME NEW m \in 1..C, NEW n \in 1..C, m # n
                 PROVE  e[m] # e[n]
      OBVIOUS
    <3>1. e[m] \in Nat /\ e[n] \in Nat
      BY <1>1, <1>6
    <3>2. m < n \/ n < m
      BY <1>5
    <3>3. e[m] < e[n] \/ e[n] < e[m]
      BY <1>4, <3>2
    <3>4. QED
      BY <3>1, <3>3
  <2>2. EachSiteOnce(t)
    <3> SUFFICES ASSUME NEW m \in 1..C, NEW n \in 1..C,
                        normalizeUrl(t[m].url) = normalizeUrl(t[n].url)
                 PROVE  m = n
      BY <1>6 DEF EachSiteOnce
    <3>1. e[m] \in K /\ e[n] \in K /\ normalizeUrl(s[e[m]].url) = normalizeUrl(s[e[n]].url)
      BY <1>6
    <3>2. e[m] = e[n]
      BY <1>8, <3>1
    <3>3. QED
      BY <2>1, <3>2
  <2>3. QED
    BY <1>2, <2>2 DEF OnceLists, t
<1>9. QED
  BY <1>2, <1>7, <1>8 DEF t

\* discoverTag answers with new sites only, each of them once.
LEMMA DiscoversNewSites ==
  ASSUME NEW found \in Seq(Entry), NEW existing \in Seq(Entry)
  PROVE  /\ discoverTag(found, existing) \in OnceLists
         /\ Sites(discoverTag(found, existing)) \cap Sites(existing) = {}
<1> DEFINE K == {i \in DOMAIN found :
                   normalizeUrl(found[i].url)
                     \notin Sites(existing) \cup Sites(SubSeq(found, 1, i - 1))}
<1>1. Len(found) \in Nat /\ DOMAIN found = 1..Len(found) /\ K \subseteq 1..Len(found)
  BY EntriesAreLists
<1>2. ASSUME NEW j \in K, NEW k \in K, j < k
      PROVE  normalizeUrl(found[j].url) # normalizeUrl(found[k].url)
  <2> DEFINE t == SubSeq(found, 1, k - 1)
  <2>1. j \in 1..(k - 1) /\ k - 1 \in 1..Len(found)
    BY <1>1, <1>2
  <2>2. DOMAIN t = 1..(k - 1) /\ t[j] = found[j]
    BY <1>1, <2>1
  <2>3. normalizeUrl(found[j].url) \in Sites(t)
    BY <2>1, <2>2 DEF Sites
  <2>4. QED
    BY <2>3
<1>3. ASSUME NEW j \in K, NEW k \in K, normalizeUrl(found[j].url) = normalizeUrl(found[k].url)
      PROVE  j = k
  <2>1. ~(j < k) /\ ~(k < j)
    BY <1>2, <1>3
  <2>2. j \in Nat /\ k \in Nat
    BY <1>1
  <2>3. QED
    BY <2>1, <2>2
<1>4. discoverTag(found, existing) = Keep(found, K)
  BY DEF discoverTag
<1>5. K \subseteq DOMAIN found
  OBVIOUS
<1>6. \A k \in K : normalizeUrl(found[k].url) \notin Sites(existing)
  OBVIOUS
<1> HIDE DEF K
<1>7. /\ Keep(found, K) \in OnceLists
      /\ Sites(Keep(found, K)) = {normalizeUrl(found[k].url) : k \in K}
  BY <1>3, <1>5, KeptPlaces
<1>8. QED
  BY <1>4, <1>6, <1>7

\* Two lists with no site in common, one after the other.
LEMMA AppendedOnce ==
  ASSUME NEW s \in OnceLists, NEW t \in OnceLists, Sites(s) \cap Sites(t) = {}
  PROVE  s \o t \in OnceLists /\ Sites(s \o t) = Sites(s) \cup Sites(t)
<1> DEFINE M == Len(s)
           N == Len(t)
           u == s \o t
           Site(e) == normalizeUrl(e.url)
<1>1. /\ s \in Seq(Entry) /\ EachSiteOnce(s)
      /\ t \in Seq(Entry) /\ EachSiteOnce(t)
  BY DEF OnceLists
<1>2. /\ u \in Seq(Entry)
      /\ M \in Nat /\ N \in Nat /\ DOMAIN s = 1..M /\ DOMAIN t = 1..N /\ DOMAIN u = 1..(M + N)
      /\ \A i \in 1..(M + N) : u[i] = IF i <= M THEN s[i] ELSE t[i - M]
  BY <1>1
<1> HIDE DEF u, M, N
<1>3. \A i \in 1..M : i \in 1..(M + N) /\ u[i] = s[i]
  BY <1>2
<1>4. \A i \in 1..N : i + M \in 1..(M + N) /\ u[i + M] = t[i]
  <2> SUFFICES ASSUME NEW i \in 1..N
               PROVE  i + M \in 1..(M + N) /\ u[i + M] = t[i]
    OBVIOUS
  <2> DEFINE k == i + M
  <2>1. k \in 1..(M + N) /\ ~(k <= M) /\ k - M = i
    BY <1>2
  <2> HIDE DEF k
  <2>2. u[k] = t[i]
    BY <1>2, <2>1
  <2>3. QED
    BY <2>1, <2>2 DEF k
<1>5. \A i \in 1..(M + N) : i \in 1..M \/ \E k \in 1..N : i = k + M
  <2> SUFFICES ASSUME NEW i \in 1..(M + N), i \notin 1..M
               PROVE  \E k \in 1..N : i = k + M
    OBVIOUS
  <2>1. i - M \in 1..N /\ i = (i - M) + M
    BY <1>2
  <2>2. QED
    BY <2>1
<1>6. Sites(u) = Sites(s) \cup Sites(t)
  <2>1. ASSUME NEW i \in 1..(M + N)
        PROVE  Site(u[i]) \in Sites(s) \cup Sites(t)
    <3>1. CASE i \in 1..M
      BY <1>2, <1>3, <3>1 DEF Sites
    <3>2. CASE \E k \in 1..N : i = k + M
      <4>1. PICK k \in 1..N : i = k + M
        BY <3>2
      <4>2. u[i] = t[k]
        BY <1>4, <4>1
      <4>3. QED
        BY <1>2, <4>2 DEF Sites
    <3>3. QED
      BY <1>5, <3>1, <3>2
  <2>2. \A i \in 1..M : Site(s[i]) \in Sites(u)
    BY <1>2, <1>3 DEF Sites
  <2>3. \A i \in 1..N : Site(t[i]) \in Sites(u)
    <3> SUFFICES ASSUME NEW i \in 1..N
                 PROVE  Site(t[i]) \in Sites(u)
      OBVIOUS
    <3>1. i + M \in DOMAIN u /\ u[i + M] = t[i]
      BY <1>2, <1>4
    <3>2. Site(u[i + M]) \in Sites(u)
      BY <3>1 DEF Sites
    <3>3. QED
      BY <3>1, <3>2
  <2>4. \A x \in Sites(u) : x \in Sites(s) \cup Sites(t)
    BY <1>2, <2>1 DEF Sites
  <2>5. \A x \in Sites(s) \cup Sites(t) : x \in Sites(u)
    BY <1>2, <2>2, <2>3 DEF Sites
  <2>6. QED
    BY <2>4, <2>5
<1>7. EachSiteOnce(u)
  <2> SUFFICES ASSUME NEW i \in 1..(M + N), NEW j \in 1..(M + N), Site(u[i]) = Site(u[j])
               PROVE  i = j
    BY <1>2 DEF EachSiteOnce
  <2>1. \A a \in 1..M, b \in 1..N : Site(s[a]) # Site(t[b])
    BY <1>2 DEF Sites
  <2>2. \A a, b \in 1..M : Site(s[a]) = Site(s[b]) => a = b
    BY <1>1, <1>2 DEF EachSiteOnce
  <2>3. \A a, b \in 1..N : Site(t[a]) = Site(t[b]) => a = b
    BY <1>1, <1>2 DEF EachSiteOnce
  <2>4. CASE i \in 1..M /\ j \in 1..M
    BY <1>3, <2>2, <2>4
  <2>5. CASE i \in 1..M /\ j \notin 1..M
    <3>1. PICK k \in 1..N : j = k + M
      BY <1>5, <2>5
    <3>2. u[i] = s[i] /\ u[j] = t[k]
      BY <1>3, <1>4, <2>5, <3>1
    <3>3. QED
      BY <2>1, <2>5, <3>2
  <2>6. CASE i \notin 1..M /\ j \in 1..M
    <3>1. PICK k \in 1..N : i = k + M
      BY <1>5, <2>6
    <3>2. u[j] = s[j] /\ u[i] = t[k]
      BY <1>3, <1>4, <2>6, <3>1
    <3>3. QED
      BY <2>1, <2>6, <3>2
  <2>7. CASE i \notin 1..M /\ j \notin 1..M
    <3>1. PICK k \in 1..N : i = k + M
      BY <1>5, <2>7
    <3>2. PICK l \in 1..N : j = l + M
      BY <1>5, <2>7
    <3>3. u[i] = t[k] /\ u[j] = t[l]
      BY <1>4, <3>1, <3>2
    <3>4. k = l
      BY <2>3, <3>3
    <3>5. QED
      BY <3>1, <3>2, <3>4
  <2>8. QED
    BY <2>4, <2>5, <2>6, <2>7
<1>8. QED
  BY <1>2, <1>6, <1>7 DEF OnceLists, u

\* New tags for an entry leave the sites as they are.
LEMMA ListEdited ==
  ASSUME NEW s \in Seq(Entry), NEW i \in DOMAIN s, NEW tags \in SUBSET Tags
  PROVE  /\ [s EXCEPT ![i].tags = tags] \in Seq(Entry)
         /\ Sites([s EXCEPT ![i].tags = tags]) = Sites(s)
         /\ s \in OnceLists => [s EXCEPT ![i].tags = tags] \in OnceLists
<1> DEFINE e == [s[i] EXCEPT !.tags = tags]
           t == [s EXCEPT ![i] = e]
<1>1. Len(s) \in Nat /\ DOMAIN s = 1..Len(s) /\ \A j \in DOMAIN s : s[j] \in Entry
  BY EntriesAreLists
<1>2. e \in Entry /\ e.url = s[i].url
  BY <1>1 DEF Entry
<1>3. t = [s EXCEPT ![i].tags = tags]
  OBVIOUS
<1> HIDE DEF e
<1>4. /\ t \in Seq(Entry) /\ DOMAIN t = DOMAIN s
      /\ \A j \in DOMAIN s : t[j].url = s[j].url
  BY <1>1, <1>2
<1> HIDE DEF t
<1>5. s \in OnceLists => t \in OnceLists
  BY <1>4 DEF OnceLists, EachSiteOnce
<1>6. Sites(t) = Sites(s)
  BY <1>4 DEF Sites
<1>7. QED
  BY <1>3, <1>4, <1>5, <1>6

LEMMA PatchKeepsSites ==
  ASSUME NEW s \in OnceLists, NEW r, r.tags \in SUBSET Tags
  PROVE  handlePatchAppTags(s, r) \in OnceLists /\ Sites(handlePatchAppTags(s, r)) = Sites(s)
<1> DEFINE of == {i \in DOMAIN s : normalizeUrl(s[i].url) = normalizeUrl(r.url)}
           target == CHOOSE i \in of : \A j \in of : i <= j
<1>1. s \in Seq(Entry)
  BY DEF OnceLists
<1>2. handlePatchAppTags(s, r) = IF of = {} THEN s ELSE [s EXCEPT ![target].tags = r.tags]
  BY DEF handlePatchAppTags
<1>3. CASE of = {}
  BY <1>2, <1>3
<1>4. CASE of # {}
  <2>1. of \subseteq Nat
    BY <1>1, EntriesAreLists
  <2>2. \E i \in of : \A j \in of : i <= j
    BY <1>4, <2>1, LeastNatural
  <2>3. target \in DOMAIN s
    BY <2>2
  <2> DEFINE tags == r.tags
             u == [s EXCEPT ![target].tags = tags]
  <2>4. handlePatchAppTags(s, r) = u
    BY <1>2, <1>4
  <2> HIDE DEF target, tags
  <2>5. u \in OnceLists /\ Sites(u) = Sites(s)
    <3>1. tags \in SUBSET Tags
      BY DEF tags
    <3>2. QED
      BY <1>1, <2>3, <3>1, ListEdited
  <2> HIDE DEF u
  <2>6. QED
    BY <2>4, <2>5
<1>5. QED
  BY <1>3, <1>4

\* An approval adds what is not there, and every site it approves is there then.
LEMMA ApproveAddsSites ==
  ASSUME NEW s \in OnceLists, NEW r, r.apps \in OnceLists
  PROVE  /\ handleApprove(s, r) \in OnceLists
         /\ Sites(handleApprove(s, r)) = Sites(s) \cup Sites(r.apps)
<1> DEFINE K == {i \in DOMAIN r.apps : normalizeUrl(r.apps[i].url) \notin Sites(s)}
           t == Keep(r.apps, K)
<1>1. r.apps \in Seq(Entry) /\ EachSiteOnce(r.apps)
  BY DEF OnceLists
<1>2. K \subseteq DOMAIN r.apps
  OBVIOUS
<1>3. \A j, k \in K : normalizeUrl(r.apps[j].url) = normalizeUrl(r.apps[k].url) => j = k
  BY <1>1 DEF EachSiteOnce
<1>4. /\ \A k \in K : normalizeUrl(r.apps[k].url) \in Sites(r.apps) \ Sites(s)
      /\ \A i \in DOMAIN r.apps : i \in K \/ normalizeUrl(r.apps[i].url) \in Sites(s)
  BY DEF Sites
<1>5. handleApprove(s, r) = s \o t
  BY DEF handleApprove
<1> HIDE DEF K
<1>6. t \in OnceLists /\ Sites(t) = {normalizeUrl(r.apps[k].url) : k \in K}
  BY <1>1, <1>2, <1>3, KeptPlaces
<1> HIDE DEF t
<1>7. Sites(s) \cap Sites(t) = {} /\ Sites(s) \cup Sites(t) = Sites(s) \cup Sites(r.apps)
  <2>1. \A x \in Sites(t) : x \notin Sites(s) /\ x \in Sites(r.apps)
    BY <1>4, <1>6
  <2>2. \A x \in Sites(r.apps) : x \in Sites(s) \/ x \in Sites(t)
    BY <1>4, <1>6 DEF Sites
  <2>3. QED
    BY <2>1, <2>2
<1>8. QED
  BY <1>5, <1>6, <1>7, AppendedOnce

-----------------------------------------------------------------------------
\* What a step leaves alone stays sound.
LEMMA CatalogueRests ==
  /\ FileSound /\ UNCHANGED <<serverVars, acked>> => FileSound'
  /\ ScriptSound /\ UNCHANGED script => ScriptSound'
  /\ NetSound /\ UNCHANGED netVars => NetSound'
  BY DEF FileSound, ScriptSound, NetSound, serverVars, netVars

LEMMA CatalogueStarts == CatalogueInit => CatalogueSound
<1> SUFFICES ASSUME CatalogueInit PROVE CatalogueSound
  OBVIOUS
<1>1. Listed \in OnceLists /\ Listed \in Seq(Entry)
  BY ListsOfEntries DEF OnceLists
<1>2. FileSound
  BY <1>1 DEF CatalogueInit, FileSound, FileIsSound, Sites
<1>3. ScriptSound
  BY NothingIsOnce, CatalogueBounds DEF CatalogueInit, ScriptSound, Idle
<1>4. NetSound
  BY DEF CatalogueInit, NetSound
<1>5. Page \in CataloguePages
  <2>1. NoTimers \in [Urls -> Saves]
    BY DEF NoTimers, Saves
  <2>2. QED
    BY <1>1, <2>1, NothingIsOnce DEF Page, CataloguePages
<1>6. QED
  BY <1>2, <1>3, <1>4, <1>5 DEF CatalogueInit, CatalogueSound

-----------------------------------------------------------------------------
(***************************************************************************)
(* The page.                                                               *)
(***************************************************************************)
LEMMA SaveTagsSound ==
  ASSUME CatalogueSound, NEW t \in Tabs, NEW i \in DOMAIN tab[t].apps, NEW g \in Tags,
         saveTags(t, i, g)
  PROVE  CatalogueSound'
<1> DEFINE app == tab[t].apps[i]
           tags == Toggle(app.tags, g)
           a == [tab[t].apps EXCEPT ![i].tags = tags]
           w == Rearmed(tab[t], app.url, tags)
           p == [[tab[t] EXCEPT !.apps = a] EXCEPT !.timers = w]
<1>1. tab \in [Tabs -> CataloguePages] /\ tab[t] \in CataloguePages
  BY DEF CatalogueSound
<1>2. tab[t].apps \in Seq(Entry) /\ tab[t].timers \in [Urls -> Saves]
  BY <1>1 DEF CataloguePages
<1>3. app \in Entry
  BY <1>2, EntriesAreLists
<1>4. tags \in SUBSET Tags /\ app.url \in Urls
  BY <1>3 DEF Entry, Toggle
<1>5. a \in Seq(Entry)
  BY <1>2, <1>4, ListEdited
<1>6. w \in [Urls -> Saves]
  <2>1. tags \in Saves
    BY <1>4 DEF Saves
  <2> HIDE DEF tags, app
  <2>2. QED
    BY <1>2, <1>4, <2>1 DEF Rearmed
<1>7. tab' = [tab EXCEPT ![t] = p]
  BY <1>1 DEF saveTags, CataloguePages
<1> HIDE DEF a, w
<1>8. p \in CataloguePages
  BY <1>1, <1>5, <1>6 DEF CataloguePages
<1>9. QED
  BY <1>1, <1>7, <1>8, CatalogueRests DEF CatalogueSound, saveTags, netVars

\* A request more, a request less.
LEMMA WireSound ==
  /\ \A t \in Tabs, u \in Urls, tags \in SUBSET Tags :
       [kind |-> "patch", tab |-> t, url |-> u, tags |-> tags] \in Operations
  /\ \A t \in Tabs, s \in OnceLists : [kind |-> "approve", tab |-> t, apps |-> s] \in Operations
  /\ \A t \in Tabs : {Get(t), [kind |-> "discover", tab |-> t]} \subseteq Requests
  /\ \A t \in Tabs, s \in OnceLists :
       [kind |-> "asking", tab |-> t, apps |-> s] \in Requests
  /\ Operations \subseteq Requests
  BY DEF Operations, Requests, Get

LEMMA RequestKinds ==
  ASSUME NEW r \in Requests
  PROVE  /\ r.tab \in Tabs
         /\ r.kind \in {"patch", "approve"} => r \in Operations
         /\ r.kind = "asking" => r.apps \in OnceLists
         /\ r.kind = "approve" => r.apps \in OnceLists
         /\ r.kind = "patch" => r.url \in Urls /\ r.tags \in SUBSET Tags
         /\ r.kind \in {"patch", "approve", "get", "discover", "asking"}
  BY DEF Operations, Requests

LEMMA SaveTimerSound ==
  ASSUME CatalogueSound, NEW t \in Tabs, NEW u \in Urls, SaveTimer(t, u)
  PROVE  CatalogueSound'
<1> DEFINE w == [tab[t].timers EXCEPT ![u] = Unset]
           p == [tab[t] EXCEPT !.timers = w]
           r == [kind |-> "patch", tab |-> t, url |-> u, tags |-> tab[t].timers[u]]
<1>1. tab \in [Tabs -> CataloguePages] /\ tab[t] \in CataloguePages
  BY DEF CatalogueSound
<1>2. tab[t].timers \in [Urls -> Saves]
  BY <1>1 DEF CataloguePages
<1>3. tab[t].timers[u] \in SUBSET Tags
  <2>1. tab[t].timers[u] \in Saves /\ tab[t].timers[u] # Unset
    BY <1>2 DEF SaveTimer
  <2>2. QED
    BY <2>1 DEF Saves
<1>4. r \in Requests
  BY <1>3, WireSound
<1>5. w \in [Urls -> Saves]
  <2>1. Unset \in Saves
    BY DEF Saves
  <2>2. QED
    BY <1>2, <2>1
<1>6. tab' = [tab EXCEPT ![t] = p]
  BY <1>1 DEF SaveTimer, CataloguePages
<1>7. wire' = wire \cup {r}
  BY DEF SaveTimer
<1> HIDE DEF w, r
<1>8. p \in CataloguePages
  BY <1>1, <1>5 DEF CataloguePages
<1>9. NetSound'
  BY <1>4, <1>7 DEF CatalogueSound, NetSound, SaveTimer
<1>10. QED
  BY <1>1, <1>6, <1>8, <1>9, CatalogueRests DEF CatalogueSound, SaveTimer

LEMMA SubmitExpandSound ==
  ASSUME CatalogueSound, NEW t \in Tabs, SubmitExpand(t)
  PROVE  CatalogueSound'
<1> DEFINE p == [[tab[t] EXCEPT !.asking = TRUE] EXCEPT !.cards = <<>>]
<1>1. tab \in [Tabs -> CataloguePages] /\ tab[t] \in CataloguePages
  BY DEF CatalogueSound
<1>2. tab' = [tab EXCEPT ![t] = p]
  BY <1>1 DEF SubmitExpand, CataloguePages
<1>3. p \in CataloguePages
  BY <1>1, NothingIsOnce DEF CataloguePages
<1>4. NetSound'
  BY WireSound DEF CatalogueSound, NetSound, SubmitExpand
<1>5. QED
  BY <1>1, <1>2, <1>3, <1>4, CatalogueRests DEF CatalogueSound, SubmitExpand

LEMMA EditCandidateSound ==
  ASSUME CatalogueSound, NEW t \in Tabs, NEW i \in DOMAIN tab[t].cards, NEW g \in Tags,
         EditCandidate(t, i, g)
  PROVE  CatalogueSound'
<1> DEFINE tags == Toggle(tab[t].cards[i].tags, g)
           a == [tab[t].cards EXCEPT ![i].tags = tags]
           p == [tab[t] EXCEPT !.cards = a]
<1>1. tab \in [Tabs -> CataloguePages] /\ tab[t] \in CataloguePages
  BY DEF CatalogueSound
<1>2. tab[t].cards \in OnceLists /\ tab[t].cards \in Seq(Entry)
  BY <1>1 DEF CataloguePages, OnceLists
<1>3. tab[t].cards[i] \in Entry
  BY <1>2, EntriesAreLists
<1>4. tags \in SUBSET Tags
  BY <1>3 DEF Entry, Toggle
<1>5. a \in OnceLists
  BY <1>2, <1>4, ListEdited
<1>6. tab' = [tab EXCEPT ![t] = p]
  BY <1>1 DEF EditCandidate, CataloguePages
<1> HIDE DEF a
<1>7. p \in CataloguePages
  BY <1>1, <1>5 DEF CataloguePages
<1>8. QED
  BY <1>1, <1>6, <1>7, CatalogueRests DEF CatalogueSound, EditCandidate, netVars

LEMMA ApproveCardsSound ==
  ASSUME CatalogueSound, NEW t \in Tabs, NEW checked, ApproveCards(t, checked)
  PROVE  CatalogueSound'
<1> DEFINE p == [tab[t] EXCEPT !.approving = TRUE]
           cards == tab[t].cards
           r == [kind |-> "approve", tab |-> t, apps |-> Keep(cards, checked)]
<1>1. tab \in [Tabs -> CataloguePages] /\ tab[t] \in CataloguePages
  BY DEF CatalogueSound
<1>2. /\ tab' = [tab EXCEPT ![t] = p]
      /\ wire' = wire \cup {r}
      /\ checked \subseteq DOMAIN cards
  BY <1>1 DEF ApproveCards, CataloguePages
<1>3. p \in CataloguePages
  BY <1>1 DEF CataloguePages
<1>4. cards \in Seq(Entry) /\ EachSiteOnce(cards)
  BY <1>1 DEF CataloguePages, OnceLists
<1>5. Keep(cards, checked) \in OnceLists
  <2>1. \A j, k \in checked : normalizeUrl(cards[j].url) = normalizeUrl(cards[k].url) => j = k
    BY <1>2, <1>4 DEF EachSiteOnce
  <2> HIDE DEF cards
  <2>2. QED
    BY <1>2, <1>4, <2>1, KeptPlaces
<1>6. r \in Requests
  BY <1>5, WireSound
<1> HIDE DEF r
<1>7. NetSound'
  BY <1>2, <1>6 DEF CatalogueSound, NetSound, ApproveCards
<1>8. QED
  BY <1>1, <1>2, <1>3, <1>7, CatalogueRests DEF CatalogueSound, ApproveCards

LEMMA ReceiveSound ==
  ASSUME CatalogueSound, NEW r, Receive(r)
  PROVE  CatalogueSound'
<1>1. tab \in [Tabs -> CataloguePages] /\ r \in Replies
  BY DEF CatalogueSound, NetSound, Receive
<1>2. /\ r.tab \in Tabs /\ r.kind \in {"get", "discover", "approve"} /\ r.ok \in BOOLEAN
      /\ r.apps \in OnceLists
  BY <1>1 DEF Replies
<1> DEFINE t == r.tab
           shown == IF r.ok THEN r.apps ELSE <<>>
<1>3. tab[t] \in CataloguePages
  BY <1>1, <1>2
<1>4. shown \in OnceLists /\ shown \in Seq(Entry)
  BY <1>2, NothingIsOnce DEF OnceLists
<1>5. \E p \in CataloguePages : tab' = [tab EXCEPT ![t] = p]
  <2>1. CASE ShowList(r)
    <3> DEFINE p == [[tab[t] EXCEPT !.approving = FALSE] EXCEPT !.apps = shown]
    <3>1. p \in CataloguePages
      BY <1>3, <1>4 DEF CataloguePages
    <3>2. tab' = [tab EXCEPT ![t] = p]
      BY <1>1, <1>2, <2>1 DEF ShowList, CataloguePages
    <3>3. QED
      BY <3>1, <3>2
  <2>2. CASE ShowCandidates(r)
    <3> DEFINE p == [[tab[t] EXCEPT !.asking = FALSE] EXCEPT !.cards = shown]
    <3>1. p \in CataloguePages
      BY <1>3, <1>4 DEF CataloguePages
    <3>2. tab' = [tab EXCEPT ![t] = p]
      BY <1>1, <1>2, <2>2 DEF ShowCandidates, CataloguePages
    <3>3. QED
      BY <3>1, <3>2
  <2>3. CASE ShowApproved(r)
    <3> DEFINE left == IF r.ok THEN <<>> ELSE tab[t].cards
               p == [[tab[t] EXCEPT !.approving = r.ok] EXCEPT !.cards = left]
    <3>1. left \in OnceLists
      BY <1>3, NothingIsOnce DEF CataloguePages
    <3>2. tab' = [tab EXCEPT ![t] = p]
      BY <1>1, <1>2, <2>3 DEF ShowApproved, CataloguePages
    <3> HIDE DEF left
    <3>3. p \in CataloguePages
      BY <1>2, <1>3, <3>1 DEF CataloguePages
    <3>4. QED
      BY <3>2, <3>3
  <2>4. QED
    BY <2>1, <2>2, <2>3 DEF Receive
<1>6. NetSound'
  <2>1. wire' = wire \/ wire' = wire \cup {Get(t)}
    BY DEF Receive, ShowList, ShowCandidates, ShowApproved
  <2>2. Get(t) \in Requests
    BY <1>2, WireSound
  <2>3. wire' \subseteq Requests
    BY <2>1, <2>2 DEF CatalogueSound, NetSound
  <2>4. QED
    BY <2>3 DEF CatalogueSound, NetSound, Receive
<1>7. QED
  BY <1>1, <1>2, <1>5, <1>6, CatalogueRests DEF CatalogueSound, Receive

-----------------------------------------------------------------------------
(***************************************************************************)
(* The server.                                                             *)
(***************************************************************************)
\* Requests that read the file outside of the lock, and their answers.
LEMMA ReadingSound ==
  ASSUME CatalogueSound, NEW r \in wire,
         handleGetApps(r) \/ handleDiscover(r) \/ DiscoverAnswers(r) \/ DiscoverFails(r)
  PROVE  CatalogueSound'
<1>1. r \in Requests /\ r.tab \in Tabs /\ wire \subseteq Requests /\ replies \subseteq Replies
  BY RequestKinds DEF CatalogueSound, NetSound
<1>2. disk.apps \in OnceLists /\ disk.torn \in BOOLEAN
  BY DEF CatalogueSound, FileSound, FileIsSound
<1>3. \A kind \in {"get", "discover"}, ok \in BOOLEAN, list \in OnceLists :
        Reply(r.tab, kind, ok, list) \in Replies
  BY <1>1 DEF Reply, Replies
<1>4. NetSound' /\ UNCHANGED <<serverVars, acked, script, tab>>
  <2>1. CASE handleGetApps(r)
    <3> DEFINE shown == IF disk.torn THEN <<>> ELSE disk.apps
    <3>1. shown \in OnceLists
      BY <1>2, NothingIsOnce
    <3>2. Reply(r.tab, "get", ~disk.torn, shown) \in Replies
      BY <1>2, <1>3, <3>1
    <3>3. QED
      BY <1>1, <2>1, <3>2 DEF handleGetApps, NetSound
  <2>2. CASE handleDiscover(r)
    <3>1. Reply(r.tab, "discover", FALSE, <<>>) \in Replies
      BY <1>3, NothingIsOnce
    <3>2. [kind |-> "asking", tab |-> r.tab, apps |-> disk.apps] \in Requests
      BY <1>1, <1>2, WireSound
    <3>3. QED
      BY <1>1, <2>2, <3>1, <3>2 DEF handleDiscover, NetSound
  <2>3. CASE DiscoverAnswers(r)
    <3>0. PICK c \in CategorySet :
            \E s \in Suggestions(c) : Answered(r, TRUE, discoverTag(s, r.apps))
      BY <2>3 DEF DiscoverAnswers
    <3>1. PICK s \in Suggestions(c) : Answered(r, TRUE, discoverTag(s, r.apps))
      BY <3>0
    <3>2. s \in Seq(Entry)
      BY ListsOfEntries
    <3>3. r.apps \in Seq(Entry)
      BY <1>1, <3>1, RequestKinds DEF Answered, OnceLists
    <3>4. Reply(r.tab, "discover", TRUE, discoverTag(s, r.apps)) \in Replies
      BY <1>3, <3>2, <3>3, DiscoversNewSites
    <3>5. QED
      BY <1>1, <3>1, <3>4 DEF Answered, NetSound
  <2>4. CASE DiscoverFails(r)
    <3>1. Reply(r.tab, "discover", FALSE, <<>>) \in Replies
      BY <1>3, NothingIsOnce
    <3>2. QED
      BY <1>1, <2>4, <3>1 DEF DiscoverFails, Answered, NetSound
  <2>5. QED
    BY <2>1, <2>2, <2>3, <2>4
<1>5. QED
  BY <1>4, CatalogueRests DEF CatalogueSound

LEMMA WithFileLockSound ==
  ASSUME CatalogueSound, NEW r \in wire, withFileLock(r)
  PROVE  CatalogueSound'
<1>1. r \in Operations
  BY RequestKinds DEF CatalogueSound, NetSound, withFileLock
<1>2. queue' \in Seq(Operations)
  BY <1>1 DEF CatalogueSound, FileSound, FileIsSound, withFileLock
<1>3. FileSound'
  BY <1>2 DEF CatalogueSound, FileSound, FileIsSound, withFileLock
<1>4. NetSound'
  BY DEF CatalogueSound, NetSound, withFileLock
<1>5. QED
  BY <1>3, <1>4, CatalogueRests DEF CatalogueSound, withFileLock

LEMMA BeginSound ==
  ASSUME CatalogueSound, Begin
  PROVE  CatalogueSound'
<1> DEFINE r == Head(queue)
           a == IF r.kind = "patch" THEN handlePatchAppTags(disk.apps, r)
                ELSE handleApprove(disk.apps, r)
           j == [op |-> r, stage |-> "read", apps |-> a]
<1>1. /\ disk.apps \in OnceLists /\ acked \subseteq Sites(disk.apps)
      /\ queue \in Seq(Operations) /\ queue # <<>> /\ ~disk.torn
  BY DEF CatalogueSound, FileSound, FileIsSound, Begin, Free
<1>2. r \in Operations /\ Tail(queue) \in Seq(Operations)
  BY <1>1
<1>3. /\ jobs = {} /\ jobs' \in {{}, {j}}
      /\ queue' = Tail(queue) /\ UNCHANGED <<disk, tab, netVars, script, acked>>
  BY DEF Begin, Free
<1> HIDE DEF r
<1>4. /\ r.kind \in {"patch", "approve"}
      /\ r.kind = "patch" => r.tags \in SUBSET Tags
      /\ r.kind = "approve" => r.apps \in OnceLists
  BY <1>2 DEF Operations
<1>5. /\ a \in OnceLists /\ acked \subseteq Sites(a)
      /\ r.kind = "approve" => Sites(r.apps) \subseteq Sites(a)
  <2>1. CASE r.kind = "patch"
    BY <1>1, <1>4, <2>1, PatchKeepsSites
  <2>2. CASE r.kind = "approve"
    BY <1>1, <1>4, <2>2, ApproveAddsSites
  <2>3. QED
    BY <1>4, <2>1, <2>2
<1> HIDE DEF a
<1>6. j \in CatalogueJobs /\ j.apps = a /\ j.op = r
  BY <1>2, <1>5 DEF CatalogueJobs
<1> HIDE DEF j
<1>7. FileSound'
  <2>1. FileIsSound(disk, acked, Tail(queue), {j})
    BY <1>1, <1>2, <1>5, <1>6 DEF CatalogueSound, FileSound, FileIsSound
  <2>2. FileIsSound(disk, acked, Tail(queue), {})
    BY <1>1, <1>2 DEF CatalogueSound, FileSound, FileIsSound
  <2>3. QED
    BY <1>3, <2>1, <2>2 DEF FileSound
<1>8. QED
  BY <1>3, <1>7, CatalogueRests DEF CatalogueSound

LEMMA StartWriteSound ==
  ASSUME CatalogueSound, NEW j \in jobs, StartWrite(j)
  PROVE  CatalogueSound'
<1> DEFINE k == [j EXCEPT !.stage = "writing"]
<1>1. /\ j \in CatalogueJobs /\ jobs = {j}
      /\ acked \subseteq Sites(j.apps)
      /\ j.op.kind = "approve" => Sites(j.op.apps) \subseteq Sites(j.apps)
  BY DEF CatalogueSound, FileSound, FileIsSound
<1>2. /\ jobs' = {k} /\ disk' = [disk EXCEPT !.torn = TRUE]
      /\ UNCHANGED <<queue, tab, netVars, script, acked>>
  BY <1>1 DEF StartWrite
<1>3. k \in CatalogueJobs /\ k.apps = j.apps /\ k.op = j.op /\ k.stage = "writing"
  BY <1>1 DEF CatalogueJobs
<1> HIDE DEF k
<1>4. disk \in [apps : OnceLists, torn : BOOLEAN]
  BY DEF CatalogueSound, FileSound, FileIsSound
<1>6. FileSound'
  <2> DEFINE d == [disk EXCEPT !.torn = TRUE]
  <2>1. d \in [apps : OnceLists, torn : BOOLEAN] /\ d.apps = disk.apps
    BY <1>4
  <2> HIDE DEF d
  <2>2. FileIsSound(d, acked, queue, {k})
    BY <1>1, <1>3, <2>1 DEF CatalogueSound, FileSound, FileIsSound
  <2>3. QED
    BY <1>2, <2>2 DEF FileSound, d
<1>7. QED
  BY <1>2, <1>6, CatalogueRests DEF CatalogueSound

\* Either way, the caller is told, if it waits.
LEMMA ReportedSound ==
  ASSUME NetSound, NEW op \in Operations, NEW ok \in BOOLEAN, Reported(op, ok), UNCHANGED wire
  PROVE  NetSound'
<1>1. op.tab \in Tabs /\ op.kind \in {"patch", "approve"}
  BY DEF Operations
<1>2. op.kind = "approve" => Reply(op.tab, op.kind, ok, <<>>) \in Replies
  BY <1>1, NothingIsOnce DEF Reply, Replies
<1>3. QED
  BY <1>1, <1>2 DEF NetSound, Reported

LEMMA FinishWriteSound ==
  ASSUME CatalogueSound, NEW j \in jobs, FinishWrite(j)
  PROVE  CatalogueSound'
<1>1. /\ j \in CatalogueJobs /\ jobs = {j}
      /\ acked \subseteq Sites(j.apps)
      /\ j.op.kind = "approve" => Sites(j.op.apps) \subseteq Sites(j.apps)
  BY DEF CatalogueSound, FileSound, FileIsSound
<1>2. j.apps \in OnceLists /\ j.op \in Operations
  BY <1>1 DEF CatalogueJobs
<1>3. /\ jobs' = {} /\ disk' = [apps |-> j.apps, torn |-> FALSE]
      /\ acked' = IF j.op.kind = "approve" THEN acked \cup Sites(j.op.apps) ELSE acked
      /\ UNCHANGED <<queue, tab, wire, script>>
  BY <1>1 DEF FinishWrite
<1>5. FileSound'
  <2> DEFINE d == [apps |-> j.apps, torn |-> FALSE]
             a == IF j.op.kind = "approve" THEN acked \cup Sites(j.op.apps) ELSE acked
  <2>1. d \in [apps : OnceLists, torn : BOOLEAN] /\ d.apps = j.apps /\ ~d.torn
    BY <1>2
  <2>2. a \subseteq Sites(j.apps)
    BY <1>1
  <2> HIDE DEF d, a
  <2>3. FileIsSound(d, a, queue, {})
    BY <2>1, <2>2 DEF CatalogueSound, FileSound, FileIsSound
  <2>4. QED
    BY <1>3, <2>3 DEF FileSound, d, a
<1>6. NetSound'
  BY <1>2, ReportedSound DEF CatalogueSound, FinishWrite
<1>7. QED
  BY <1>3, <1>5, <1>6, CatalogueRests DEF CatalogueSound

LEMMA FailOperationSound ==
  ASSUME CatalogueSound, NEW j \in jobs, FailOperation(j)
  PROVE  CatalogueSound'
<1>1. j \in CatalogueJobs /\ jobs = {j} /\ (disk.torn => j.stage = "writing")
  BY DEF CatalogueSound, FileSound, FileIsSound
<1>2. /\ jobs' = {} /\ ~disk.torn
      /\ UNCHANGED <<queue, disk, tab, wire, script, acked>>
  BY <1>1 DEF FailOperation, GoOn
<1>3. FileSound'
  <2>1. FileIsSound(disk, acked, queue, {})
    BY <1>2 DEF CatalogueSound, FileSound, FileIsSound
  <2>2. QED
    BY <1>2, <2>1 DEF FileSound
<1>4. j.op \in Operations
  BY <1>1 DEF CatalogueJobs
<1>5. NetSound'
  BY <1>4, ReportedSound DEF CatalogueSound, FailOperation
<1>6. QED
  BY <1>2, <1>3, <1>5, CatalogueRests DEF CatalogueSound

-----------------------------------------------------------------------------
(***************************************************************************)
(* The scripts.                                                            *)
(***************************************************************************)
LEMMA ReadListSound ==
  ASSUME CatalogueSound, ReadList(1) \/ ReadList(Iterations)
  PROVE  CatalogueSound'
<1>1. PICK n \in {1, Iterations} : ReadList(n)
  OBVIOUS
<1>2. n \in 0..Iterations
  BY CatalogueBounds
<1>3. ScriptSound'
  BY <1>1, <1>2 DEF CatalogueSound, FileSound, FileIsSound, ScriptSound, ReadList
<1>4. QED
  BY <1>1, <1>3, CatalogueRests DEF CatalogueSound, ReadList

\* A round adds new sites to the entries of the run; the sites its writing drops are no
\* longer promised.
LEMMA RoundSound ==
  ASSUME CatalogueSound, NEW found \in Seq(Entry), Round(found)
  PROVE  CatalogueSound'
<1> DEFINE fresh == discoverTag(found, script.entries)
           entries == script.entries \o fresh
<1>1. script.left \in 0..Iterations /\ script.left > 0 /\ script.entries \in OnceLists
  BY DEF CatalogueSound, ScriptSound, Round
<1>2. fresh \in OnceLists /\ Sites(script.entries) \cap Sites(fresh) = {}
  BY <1>1, DiscoversNewSites DEF OnceLists
<1>3. /\ script' = IF script.left = 1 THEN Idle
                   ELSE [left |-> script.left - 1, entries |-> entries]
      /\ disk' = IF fresh = <<>> THEN disk ELSE [disk EXCEPT !.apps = entries]
      /\ acked' = IF fresh = <<>> THEN acked ELSE acked \cap Sites(entries)
      /\ UNCHANGED <<queue, jobs, tab, netVars>>
  BY DEF Round
<1> HIDE DEF fresh
<1>4. entries \in OnceLists
  BY <1>1, <1>2, AppendedOnce
<1> HIDE DEF entries
<1>5. ScriptSound'
  <2>1. Idle \in [left : 0..Iterations, entries : OnceLists]
    BY NothingIsOnce, CatalogueBounds DEF Idle
  <2>2. script.left # 1 => script.left - 1 \in 0..Iterations
    BY <1>1, CatalogueBounds
  <2>3. QED
    BY <1>3, <1>4, <2>1, <2>2 DEF ScriptSound
<1>6. FileSound'
  <2>1. CASE fresh = <<>>
    BY <1>3, <2>1, CatalogueRests DEF CatalogueSound, serverVars
  <2>2. CASE fresh # <<>>
    <3> DEFINE d == [disk EXCEPT !.apps = entries]
               a == acked \cap Sites(entries)
    <3>1. disk \in [apps : OnceLists, torn : BOOLEAN]
      BY DEF CatalogueSound, FileSound, FileIsSound
    <3>2. d \in [apps : OnceLists, torn : BOOLEAN] /\ d.apps = entries /\ d.torn = disk.torn
      BY <1>4, <3>1
    <3>3. a \subseteq acked /\ a \subseteq Sites(entries)
      OBVIOUS
    <3> HIDE DEF d, a
    <3>4. FileIsSound(d, a, queue, jobs)
      BY <3>2, <3>3 DEF CatalogueSound, FileSound, FileIsSound
    <3>5. QED
      BY <1>3, <2>2, <3>4 DEF FileSound, d, a
  <2>3. QED
    BY <2>1, <2>2
<1>7. QED
  BY <1>3, <1>5, <1>6, CatalogueRests DEF CatalogueSound

LEMMA LeastIsACategory ==
  ASSUME NEW s \in Seq(Entry), NEW found \in Suggestions(leastRepresentedCategory(s))
  PROVE  found \in Seq(Entry)
<1> DEFINE D == DOMAIN Categories
           count(i) == Count(s, Categories[i])
           fewest(i) == \A j \in D : count(i) <= count(j)
           first(i) == fewest(i) /\ \A j \in 1..(i - 1) : ~fewest(j)
<1>1. D # {} /\ D \subseteq Nat /\ \A i \in D : 1..i \subseteq D
  <2> DEFINE L == Len(Categories)
  <2>1. L \in Nat /\ D = 1..L /\ L # 0
    BY CatalogueBounds, ListsOfEntries
  <2> HIDE DEF L, D
  <2>2. D # {} /\ D \subseteq Nat
    <3>1. 1 \in 1..L /\ \A i \in 1..L : i \in Nat
      BY <2>1
    <3>2. QED
      BY <2>1, <3>1
  <2>3. \A i \in D : 1..i \subseteq D
    <3>1. \A i \in 1..L : \A k \in 1..i : k \in 1..L
      BY <2>1
    <3>2. QED
      BY <2>1, <3>1
  <2>4. QED
    BY <2>2, <2>3
<1>2. \A i \in D : count(i) \in Nat
  <2> SUFFICES ASSUME NEW i \in D
               PROVE  count(i) \in Nat
    OBVIOUS
  <2>1. IsFiniteSet(DOMAIN s)
    BY EntriesAreLists, FS_Interval
  <2>2. {n \in DOMAIN s : CategoryOf(s[n].url) = Categories[i]} \in SUBSET DOMAIN s
    OBVIOUS
  <2>3. QED
    BY <2>1, <2>2, FS_Subset, FS_CardinalityType DEF Count
<1> HIDE DEF D, count
<1>3. \E i \in D : first(i)
  <2> DEFINE T == {count(i) : i \in D}
  <2>1. PICK m \in T : \A n \in T : m <= n
    <3>1. T # {} /\ T \subseteq Nat
      BY <1>1, <1>2
    <3>2. QED
      BY <3>1, LeastNatural
  <2> DEFINE F == {i \in D : count(i) = m}
  <2>2. PICK i \in F : \A j \in F : i <= j
    <3>1. F # {} /\ F \subseteq Nat
      BY <1>1
    <3>2. QED
      BY <3>1, LeastNatural
  <2>3. i \in D /\ i \in Nat /\ count(i) = m /\ fewest(i)
    BY <1>1, <2>1
  <2>4. ASSUME NEW j \in 1..(i - 1)
        PROVE  ~fewest(j)
    <3>1. j \in D /\ ~(i <= j)
      <4>1. j \in 1..i /\ ~(i <= j)
        BY <2>3
      <4>2. QED
        BY <1>1, <2>3, <4>1
    <3>2. count(j) \in Nat /\ count(j) # m /\ m <= count(j)
      BY <1>2, <2>1, <2>2, <3>1
    <3>3. count(i) \in Nat /\ ~(count(j) <= count(i))
      BY <1>2, <2>3, <3>2
    <3>4. QED
      BY <2>3, <3>3
  <2>5. QED
    BY <2>3, <2>4
<1>4. leastRepresentedCategory(s) = Categories[CHOOSE i \in D : first(i)]
  BY DEF leastRepresentedCategory, D, count
<1>5. (CHOOSE i \in D : first(i)) \in D
  BY <1>3
<1>6. leastRepresentedCategory(s) \in CategorySet
  BY <1>4, <1>5 DEF CategorySet, D
<1>7. QED
  BY <1>6, ListsOfEntries

LEMMA ScriptSteps ==
  ASSUME CatalogueSound, RunScript
  PROVE  CatalogueSound'
<1>1. CASE ReadList(1) \/ ReadList(Iterations)
  BY <1>1, ReadListSound
<1>2. CASE discoverApps
  <2>1. PICK c \in CategorySet : \E s \in Suggestions(c) : Round(s)
    BY <1>2 DEF discoverApps
  <2>2. PICK s \in Suggestions(c) : Round(s)
    BY <2>1
  <2>3. s \in Seq(Entry)
    BY ListsOfEntries
  <2>4. QED
    BY <2>2, <2>3, RoundSound
<1>3. CASE extendAppList
  <2>1. PICK s \in Suggestions(leastRepresentedCategory(script.entries)) : Round(s)
    BY <1>3 DEF extendAppList
  <2>2. script.entries \in Seq(Entry)
    BY DEF CatalogueSound, ScriptSound, OnceLists
  <2>3. s \in Seq(Entry)
    BY <2>2, LeastIsACategory
  <2>4. QED
    BY <2>1, <2>3, RoundSound
<1>4. CASE ScriptFails
  <2>1. ScriptSound'
    BY <1>4, NothingIsOnce, CatalogueBounds DEF ScriptFails, ScriptSound, Idle
  <2>2. QED
    BY <1>4, <2>1, CatalogueRests DEF CatalogueSound, ScriptFails
<1>5. QED
  BY <1>1, <1>2, <1>3, <1>4 DEF RunScript

-----------------------------------------------------------------------------
LEMMA CatalogueSteps ==
  ASSUME CatalogueSound, [CatalogueNext]_catalogueVars
  PROVE  CatalogueSound'
<1>1. CASE \E t \in Tabs : Visit(t)
  <2>1. PICK t \in Tabs : Visit(t)
    BY <1>1
  <2>2. CASE SubmitExpand(t)
    BY <2>2, SubmitExpandSound
  <2>3. CASE \E i \in DOMAIN tab[t].apps, g \in Tags : saveTags(t, i, g)
    BY <2>3, SaveTagsSound
  <2>4. CASE \E i \in DOMAIN tab[t].cards, g \in Tags : EditCandidate(t, i, g)
    BY <2>4, EditCandidateSound
  <2>5. CASE \E checked \in SUBSET DOMAIN tab[t].cards : ApproveCards(t, checked)
    BY <2>5, ApproveCardsSound
  <2>6. QED
    BY <2>1, <2>2, <2>3, <2>4, <2>5 DEF Visit
<1>2. CASE \E r \in replies : Receive(r)
  BY <1>2, ReceiveSound
<1>3. CASE RunScript
  BY <1>3, ScriptSteps
<1>4. CASE Timer
  BY <1>4, SaveTimerSound DEF Timer
<1>5. CASE Handle
  BY <1>5, ReadingSound, WithFileLockSound DEF Handle
<1>6. CASE Locked
  BY <1>6, BeginSound, StartWriteSound, FinishWriteSound, FailOperationSound DEF Locked
<1>7. CASE UNCHANGED catalogueVars
  BY <1>7, CatalogueRests DEF CatalogueSound, catalogueVars
<1>8. QED
  BY <1>1, <1>2, <1>3, <1>4, <1>5, <1>6, <1>7 DEF CatalogueNext

LEMMA CatalogueStaysSound == CatalogueSpec => []CatalogueSound
  BY CatalogueStarts, CatalogueSteps, PTL DEF CatalogueSpec

LEMMA CatalogueSoundMeans == CatalogueSound => CatalogueInv
<1> SUFFICES ASSUME CatalogueSound PROVE CatalogueInv
  OBVIOUS
<1>1. FileIsSound(disk, acked, queue, jobs)
  BY DEF CatalogueSound, FileSound
<1>2. /\ disk.torn \in BOOLEAN /\ disk.apps \in Seq(Entry) /\ EachSiteOnce(disk.apps)
      /\ disk.torn => \E j \in jobs : jobs = {j} /\ j.stage = "writing"
      /\ acked \subseteq Sites(disk.apps)
  BY <1>1 DEF FileIsSound, OnceLists
<1>3. ASSUME NEW t \in Tabs
      PROVE  /\ tab[t].apps \in Seq(Entry) /\ tab[t].cards \in Seq(Entry)
             /\ tab[t].timers \in [Urls -> (SUBSET Tags) \cup {Unset}]
             /\ {tab[t].asking, tab[t].approving} \subseteq BOOLEAN
  <2>1. tab[t] \in CataloguePages
    BY DEF CatalogueSound
  <2>2. QED
    BY <2>1 DEF CataloguePages, OnceLists, Saves
<1>4. script.left \in 0..Iterations
  BY DEF CatalogueSound, ScriptSound
<1>5. QED
  BY <1>2, <1>3, <1>4 DEF CatalogueInv, CatalogueTypeOK, OneEntryPerSite, ApprovedStay

\* Whatever the tabs approve, the scripts write and the disk or the model fails to do, the
\* file names no site twice and keeps every app whose approval was answered, except one a
\* script wrote over; for any number of tabs, entries, edits and runs.
THEOREM CatalogueKept == CatalogueSpec => []CatalogueInv
  BY CatalogueStaysSound, CatalogueSoundMeans, PTL

-----------------------------------------------------------------------------
SavesEnd ==
  \A t \in Tabs, u \in Urls :
    tab[t].timers[u] # Unset /\ tab'[t].timers[u] = Unset =>
      [kind |-> "patch", tab |-> t, url |-> u, tags |-> tab[t].timers[u]] \in wire'

\* Only its own timer ends a save.
LEMMA StepsEndSaves ==
  ASSUME CatalogueSound, [CatalogueNext]_catalogueVars
  PROVE  SavesEnd
<1>1. tab \in [Tabs -> CataloguePages]
  BY DEF CatalogueSound
<1>2. ASSUME \A t \in Tabs : tab'[t].timers = tab[t].timers
      PROVE  SavesEnd
  BY <1>2 DEF SavesEnd
<1>3. ASSUME NEW t \in Tabs, NEW i \in DOMAIN tab[t].apps, NEW g \in Tags, saveTags(t, i, g)
      PROVE  SavesEnd
  <2> DEFINE app == tab[t].apps[i]
             tags == Toggle(app.tags, g)
  <2>1. tab[t] \in CataloguePages
    BY <1>1
  <2>2. tab[t].apps \in Seq(Entry) /\ tab[t].timers \in [Urls -> Saves]
    BY <2>1 DEF CataloguePages
  <2>3. app \in Entry
    BY <2>2, EntriesAreLists
  <2>4. tags # Unset /\ app.url \in Urls
    <3>1. tags \in SUBSET Tags
      BY <2>3 DEF Entry, Toggle
    <3>2. QED
      BY <2>3, <3>1, UnsetIsNoSetOfTags DEF Entry
  <2>5. /\ \A s \in Tabs : s # t => tab'[s] = tab[s]
        /\ tab'[t].timers = [tab[t].timers EXCEPT ![app.url] = tags]
    BY <1>1, <1>3, <2>1 DEF saveTags, Rearmed, CataloguePages
  <2> HIDE DEF tags, app
  <2>6. QED
    BY <2>2, <2>4, <2>5 DEF SavesEnd
<1>4. ASSUME NEW t \in Tabs, NEW u \in Urls, SaveTimer(t, u)
      PROVE  SavesEnd
  <2>1. tab[t] \in CataloguePages
    BY <1>1
  <2>2. tab[t].timers \in [Urls -> Saves]
    BY <2>1 DEF CataloguePages
  <2>3. /\ \A s \in Tabs : s # t => tab'[s] = tab[s]
        /\ tab'[t].timers = [tab[t].timers EXCEPT ![u] = Unset]
        /\ [kind |-> "patch", tab |-> t, url |-> u, tags |-> tab[t].timers[u]] \in wire'
    BY <1>1, <1>4, <2>1 DEF SaveTimer, CataloguePages
  <2>4. QED
    BY <2>2, <2>3 DEF SavesEnd
<1>5. CASE \E t \in Tabs : Visit(t)
  <2>1. PICK t \in Tabs : Visit(t)
    BY <1>5
  <2>2. tab[t] \in CataloguePages
    BY <1>1
  <2>3. CASE SubmitExpand(t)
    BY <1>1, <1>2, <2>2, <2>3 DEF SubmitExpand, CataloguePages
  <2>4. CASE \E i \in DOMAIN tab[t].apps, g \in Tags : saveTags(t, i, g)
    BY <1>3, <2>4
  <2>5. CASE \E i \in DOMAIN tab[t].cards, g \in Tags : EditCandidate(t, i, g)
    BY <1>1, <1>2, <2>2, <2>5 DEF EditCandidate, CataloguePages
  <2>6. CASE \E checked \in SUBSET DOMAIN tab[t].cards : ApproveCards(t, checked)
    BY <1>1, <1>2, <2>2, <2>6 DEF ApproveCards, CataloguePages
  <2>7. QED
    BY <2>1, <2>3, <2>4, <2>5, <2>6 DEF Visit
<1>6. ASSUME NEW r, Receive(r)
      PROVE  SavesEnd
  <2>1. r.tab \in Tabs
    BY <1>6 DEF CatalogueSound, NetSound, Receive, Replies
  <2>2. tab[r.tab] \in CataloguePages
    BY <1>1, <2>1
  <2>3. \A t \in Tabs : tab'[t].timers = tab[t].timers
    <3>1. CASE ShowList(r)
      BY <1>1, <2>1, <2>2, <3>1 DEF ShowList, CataloguePages
    <3>2. CASE ShowCandidates(r)
      BY <1>1, <2>1, <2>2, <3>2 DEF ShowCandidates, CataloguePages
    <3>3. CASE ShowApproved(r)
      BY <1>1, <2>1, <2>2, <3>3 DEF ShowApproved, CataloguePages
    <3>4. QED
      BY <1>6, <3>1, <3>2, <3>3 DEF Receive
  <2>4. QED
    BY <1>2, <2>3
<1>7. CASE Timer
  BY <1>4, <1>7 DEF Timer
<1>8. CASE RunScript \/ Handle \/ Locked \/ UNCHANGED catalogueVars
  <2>1. tab' = tab
    BY <1>8 DEF RunScript, ReadList, discoverApps, extendAppList, Round, ScriptFails, Handle,
       handleGetApps, handleDiscover, DiscoverAnswers, DiscoverFails, Answered, withFileLock,
       Locked, Begin, StartWrite, FinishWrite, FailOperation, catalogueVars
  <2>2. QED
    BY <1>2, <2>1
<1>9. QED
  BY <1>5, <1>6, <1>7, <1>8 DEF CatalogueNext

\* An edit never cancels the pending save of another app, and a save that ends was sent,
\* with the tags it was set with.
THEOREM NoSaveIsCancelled == CatalogueSpec => NoSaveCancelled
<1>1. CatalogueSound /\ [CatalogueNext]_catalogueVars => SavesEnd
  BY StepsEndSaves
<1>2. SavesEnd <=>
        \A t \in Tabs, u \in Urls :
          tab[t].timers[u] # Unset /\ tab'[t].timers[u] = Unset =>
            [kind |-> "patch", tab |-> t, url |-> u, tags |-> tab[t].timers[u]] \in wire'
  BY DEF SavesEnd
<1>3. QED
  BY <1>1, <1>2, CatalogueStaysSound, PTL DEF CatalogueSpec, NoSaveCancelled
================================================================================
