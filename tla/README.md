# Formal model of nebulous.world

This directory holds TLA+ models of nebulous.world, the TLC configurations that
model-check them on small instances, and TLAPS proofs of results that hold for every
instance. The models are translated from the code of this repository (paths below are
relative to its root); `PROJECT.json` ties each definition that models code to its lines
(`map`), each property to a run and to a plausible bug of the code that the property
catches (`mutants`), and each hazard of the code to the properties that would notice it.

Running the checks, from this directory:

    tlc -workers 2 -config program.cfg MCNebulousProgram.tla
    tlapm NebulousProgram_proofs.tla        # likewise Index_proofs, Records_proofs,
                                            # Visitor_proofs, Revenue_proofs, StakingPages_proofs,
                                            # Tools_proofs, DataTheorems

## 1. Inventory

nebulous.world is a catalogue of web apps. Users lock a token on an app (a *vote*) or on a
tag of an app (a *stake*); the platform's ad revenue is funded back to them. Three
programs cooperate:

```
 browser / Next.js (app/)  ──HTTP──>  indexer (indexer/, Rust + Postgres)  ──RPC──>  Solana program
        │  signs transactions                ▲   ▲                                 (programs/nebulous_world)
        └── POSTs what it did ───────────────┘   └── account updates, crawled transactions ──┘
 scripts (app/scripts): weekly settlement and daily snapshot, through the indexer and the chain
```

| # | component | state | operations | how it interacts |
|---|-----------|-------|------------|------------------|
| 1 | **On-chain program** `programs/nebulous_world` | `Config`, `AppAccount`, `Tag`, `AppTagStake`, `VotePosition`, `StakePosition`, one token vault | `initialize`, `init_app`, `suggest_tag`, `vote`, `stake_tag`, `withdraw_vote`, `withdraw_tag_stake`, `claim_vote_reward`, `claim_tag_reward`, `fund_app_rewards`, `close_vote_position`, `close_tag_stake_position` | called by signed transactions, each atomic; read by the indexer |
| 2 | **Account mirror** `processors/account.rs`, `backfill.rs`, `reconcile.rs`, `main.rs` | `indexed_account`, cached totals of `App`/`AppTag` | snapshot upsert, subscription upsert, delete, reconcile at startup | fed by `getProgramAccounts`, `programSubscribe` and the crawler |
| 3 | **Crawler and instruction log** `crawler.rs`, `processors/instruction.rs` | `indexed_instruction`, `crawler_cursor` | fetch new signatures, index a transaction, save the cursor | RPC with retries; deletes mirror rows of closed positions; feeds 4 |
| 4 | **Product writes** `processors/product.rs` | `App`, `Tag`, `AppTag`, `User` rows | sync from `init_app`/`suggest_tag`/metadata memos | called by the crawler, at least once per transaction |
| 5 | **Stake ledger** `handlers/votes.rs`, `stakes.rs`, `rewards.rs`, `users.rs`, `tags.rs` | `Vote` and `Stake` rows | record, withdraw, withdraw in part | browser POSTs after the chain transaction confirmed; concurrent handlers |
| 6 | **Cached aggregates** `handlers/engine.rs` | `App.voteWeight/voteCount/stakeTotal/viewCount/rankScore`, `AppTag.stakeTotal` | `refresh_app`, `refresh_app_tag`, `refresh_all_rank_scores` | read-compute-write over 5, called by every handler that mutates it |
| 7 | **Revenue and traffic** `TrafficBeacon.tsx`, `useAdServe.ts`, `handlers/ads.rs`, `track.rs`, `revenue.rs`, `app/scripts/settleEpoch.ts`, `dailySnapshot.ts` | `AdImpression`, `PageView`, `RevenueEpoch`, `RevenueClaim`, snapshots | send a beacon, serve an ad, count a view, settle a week, fund the pools on chain | two requests of a page race for one view; the script reads 6, then the chain, then sends `fund_app_rewards` |
| 8 | **XP and streaks** `handlers/xp.rs` | `XpEvent`, `User.xp/streak` | award, daily bonus, backfill | called by 5 and by the daily visit |
| 9 | **Digest** `handlers/digest.rs`, `DigestBell.tsx`, `useDigest.ts` | `digestSeenAt`; the panel's frozen items | read the digest, open the bell, mark seen | reads 5, 7, 8; polls as the user of 15 |
| 10 | **Rollup and platform metrics** `rollup.rs`, `platform_metrics.rs` | metrics rows | periodic roll-up | timer; reads the log of 3 |
| 11 | **Find funnel** `components/find/*`, `api/find/*`, `handlers/find.rs`, `indexer/src/find/*` | answers and result in a reducer, the address bar, a single-use token, outcome rows | ask, answer, go back, report an outcome | the reducer, the router and the browser's history move one another; the engine is stateless |
| 12 | **x402 data API** `handlers/x402.rs`, `app/src/lib/x402.ts` | payment challenges, recorded payments | challenge, verify, serve | chain payment, then the response |
| 13 | **HTTP API, config, database** `api.rs`, `config.rs`, `db.rs` | none of its own | routing, transaction building, relaying | between browser, Postgres and RPC |
| 14 | **Catalogue reads, OpenGraph** `handlers/apps.rs`, `platform.rs`, `opengraph.rs` | cached OpenGraph data | search, list, fetch | reads Postgres for 18 |
| 15 | **Sessions** `AuthProvider.tsx`, `session.ts`, `solana-auth.ts`, `api/auth`, `useLiveQuery.ts`, `useWalletBalances.ts` | wallet, signed cookie, user, cached answers keyed by the user | challenge, prompt, verify, log out, expire | the wallet may change under a sign-in; 9 and the profile follow the user |
| 16 | **Rate limiting** `app/src/lib/rateLimit.ts` | per-key window in memory | consume | every API route |
| 17 | **Transaction client and panels** `txClient.ts`, `VotePanel.tsx`, `TagStakePanel.tsx`, `MyStakes.tsx`, `ClaimRewards.tsx`, `CloseZeroStakeAccounts.tsx` and their hooks | polled copies of 5 and 2, busy flags | vote, stake, withdraw, claim, claim all, close | chain first, then POST to 5, then the page edits itself by hand until the next poll |
| 18 | **Pages** `components/explore`, `components/discover`, `RankingsTabs.tsx` | address bar, debounced fields, fetched lists, selections; the form that creates an app | search, filter, scroll, select, create | reads through 13 and 14; creating goes through 1 and waits for 3 and 4 |
| 19 | **Operator scripts** `app/scripts` (deploy, launch-neb, createAppsOnchain, seedStakes; apps-curator, discoverApps, extendAppList) | `apps.json`, `deploy.config.json`, chain accounts, Render variables | deploy, seed, curate the list | several processes write one file; runs are cut short and repeated |
| 20 | **Generated decoder, dlmm bridge, docs** | none | decode, quote swaps | - |

### What is hard in it, and what makes each part correct

* **1, on-chain program.** Integer rounding of a reward accumulator shared by many
  stakers; one vault for everybody's principal and everybody's rewards; counters that
  must move in lockstep; positions that are emptied, kept, topped up, closed and
  reopened around fundings; a fee that decays with a clock that may step back. Correct
  when the vault always holds exactly what the books say, rewards arise only by funding
  and leave only by payment, the totals equal the positions they sum, rounding is
  bounded, and no sequence of instructions dodges the exit fee.
* **2-4, mirror, crawler, product.** Two sources (subscription and crawler) and a
  startup snapshot write the same rows in any order, with restarts in between and RPC
  calls that fail. Correct when a row never goes back to an older slot, a closed account
  does not linger, no transaction is skipped or logged twice, and replays do not
  overwrite newer product data.
* **5-6, ledger and aggregates.** Handlers run concurrently, one SQL statement at a
  time and mostly without a database transaction; the browser moves tokens first and
  POSTs later, so a POST may be lost. Correct when a transaction is recorded once, a
  withdrawal takes exactly its amount, the ledger follows the chain, and the cached
  totals follow the ledger.
* **7, revenue.** A weekly job without saved progress that sends two transactions per
  app; an epoch settlement that reads outside its transaction. Correct when earnings
  are distributed once and in full.
* **8-10.** Daily uniqueness under concurrent awards; streak days lost to a crash;
  time windows that must tile. Correct when each event pays once and each interval is
  counted once.
* **11, 18, pages that live in the address bar.** A navigation takes a round trip, a
  debounced field carries the state of the render it was typed in, answers overtake each
  other, and Back does not undo what a component holds. Correct when, once nothing is
  under way, address, controls and display belong together, and nothing waits for ever.
* **15, 9, sessions and what hangs on them.** The wallet is switched between the challenge,
  the prompt and the answer; answers for another user arrive late. Correct when a session
  belongs to an account that signed for it and nobody sees another's data.
* **17, panels.** A transaction, a ledger request and a poll, each of which fails or is late
  on its own. Correct when a reported success happened, buttons come back, and the page
  comes to show the truth.
* **19, scripts.** Processes that die anywhere and are run again; one file and several
  writers. Correct when a second run completes the first and no write is lost or doubled.
* **12, 16.** A payment that is charged but not served; windows at their boundary.
## 2. Plan

Modules in the order they were written; the order follows the money, then the visitor.

1. `NebulousProgram` (component 1) and the abstract `SharedRewards` it implements, with
   `NebulousProgram_proofs`.
2. `StakeLedger` (5, 6, and what 17 sends): one SQL statement per step, with
   `Records_proofs`.
3. `ChainMirror` (2, 3): snapshot, subscription, crawler, restarts, with
   `Index_proofs`.
4. `Revenue` (7): from a view to the reward pools, with `Revenue_proofs`.
5. `StakingPages` (17): the pages over 1 and 5, with `StakingPages_proofs`.
6. `Visitor` (15, 9) and the abstract `Session` it implements, with `Visitor_proofs`.
7. `FindFunnel` (11), `ExploreMaps` and `Discover` (18): pages that live in the address bar;
   the proofs about `Discover` are in `Index_proofs`, those about `FindFunnel` in
   `Records_proofs`, those about `ExploreMaps` in `Visitor_proofs`.
8. `AppCatalogue` and `Deployment` (19), with `Tools_proofs`.

`Lists` is what these modules share: the elements a filter keeps, by their positions.

Left for later: product writes (4) as a module that composes with the crawler's log; XP and
streaks (8); the epoch settlement of `revenue.rs`.

Theorems: section 5, over the lemmas on finite sums and on lists in `DataTheorems`.

## 3. Modules

### `NebulousProgram` (component 1)

Every instruction is one action, because a Solana transaction is atomic: a handler that
returns an error leaves no trace, so each `require!`, checked arithmetic operation and
token transfer that can fail is a conjunct of the guard. `vote` and `stake_tag` share the
body `Deposit`, the two withdrawals `Withdraw`, the two claims `Claim`, the two closes
`Close`, as the two halves of the Rust code are the same text over different accounts.

| state | code |
|-------|------|
| `initialized`, `apps`, `tags`, `suggested` | existence of `Config`, `AppAccount`, `Tag`, `AppTagStake` |
| `total[a]["Vote"]`, `total[a]["Tags"]` | `AppAccount.total_vote_stake`, `total_tag_stake` |
| `acc[a][pool]` | `vote_acc_reward_per_share`, `tags_acc_reward_per_share` |
| `stake_amount[<<a, t>>]` | `AppTagStake.stake_amount` |
| `pos[<<a, slot, u>>]` | `VotePosition` (slot `VoteSlot`) or `StakePosition` (slot = the tag) |
| `vault` | the vault token account; the rest of `Supply` is in wallets |
| `treasury`, `ledger` | history: fees received; per pool what was funded and paid |
| `now` | `Clock::unix_timestamp`, which may step back (`unstake_fee.rs` says so) |

Abstracted: wallets are `Supply - vault` together (who holds which token never matters to
a guard other than "enough"); metadata strings, PDAs and bumps are identities. Widths are
kept: every `checked_*` is a guard against `U64Max` or `U128Max`.

Bounds: `Supply`, `MaxTime`, `MaxFundings`, `MaxResizes`. `REWARD_PRECISION` is 12 instead
of 10^12 so that rounding bites with 2 to 5 tokens, the fee is 9000 bps over 3 seconds
(at 100 bps of a few tokens every fee is 1), and `U128Max` is small enough for the overflow
guards to fire.

`SharedRewards` is what the program promises, without accumulators, debts or checkpoints: a
`Fund` raises what each position of a pool is owed by its share, less than one token off
but for the grain of the fixed point; a `Settle` pays a position all it is owed and gives
it another stake; the money held moves by exactly that. `Shared` in `NebulousProgram` maps
`stake` to the amounts of the positions, `whole` to the counters of the pools, `owed` to
what a claim would pay now, and `held` to the vault. `FundAppRewards` is a `Fund`;
deposits, withdrawals and claims are `Settle`s; so is closing, of a stake and a debt that are
zero; the other instructions and the clock are stutters.

### `StakeLedger` (components 5 and 6)

A *tab* is one browser session of a user; its handler runs one SQL statement per step,
because the handlers use the connection pool and open no database transaction. Tabs, the
restart and other tabs interleave between any two statements. `votes.rs` and `stakes.rs`
are the same text over two tables; the model has one set of handlers over *targets* (the
vote, or a tag), and only the refresh at the end differs (`RefreshFrom`).

| state | code |
|-------|------|
| `chain[u][t]` | what the program holds for u (`VotePosition.amount`, `StakePosition.amount`) |
| `deposits` | confirmed deposits; the index is the transaction signature |
| `rows` | tables `Vote` and `Stake`, in `createdAt` order |
| `app`, `tagTotal` | `App.voteWeight/voteCount/stakeTotal`, `AppTag.stakeTotal` |
| `tab[w]` | the request under way: program counter and locals of its handler |
| `shown[w]` | the row a panel last polled |
| `missed[u][t]` | history: withdrawn on chain and not taken off the ledger |
| `overlapped` | history: whether two handlers were under way at once |

Order kept: the browser moves tokens, then POSTs; `create` checks the signature, then
inserts under the unique index, then refreshes; `withdraw_partial` reads the rows, then
updates them one by one from what it read, then finds out whether they covered the
amount. `Abort` ends a request at any point and leaves what was done; `Restart` kills
every running handler and lets `reconcile.rs` overwrite the cached totals with the
chain's. Abstracted: rank scores (a function of the same totals), XP (component 8), the
names and notes a row carries. The profile unstakes up to the amount it last polled
(`MyStakes.tsx:200`); the model keeps no copy of that poll and lets `WithdrawPart` take up to
all that the ledger was ever told (`EverStaked`), as the chain permits.

Bounds: `MaxAmount`, `MaxDeposits`, `MaxFaults`, `MaxResends`.

### `ChainMirror` (components 2 and 3)

The history of transactions to the program, the node's two views of it, and the indexer
process that follows it: `main.rs` takes a snapshot, then starts the crawler, then the
subscription; the crawler's tick fetches pages of signatures newest first until it meets
its cursor, processes the batch oldest first, and saves the cursor.

| state | code |
|-------|------|
| `txs`, `tip` | confirmed transactions, and each account after them |
| `finalized`, `final` | the same at commitment `finalized` |
| `phase`, `stamp`, `subscribed` | where `main.rs` is, and the slot `backfill.rs` fetched |
| `feed` | updates delivered by `programSubscribe` and not yet processed, in any order |
| `rows` | `indexed_account`: slot and content |
| `log`, `cursor` | `indexed_instruction`, `crawler_cursor` |
| `crawl` | locals of `crawl_once` and `fetch_new_signatures` |
| `lost`, `skipped` | history: updates nobody delivered, transactions whose processing failed |

A transaction is one number: its place in the history is its slot and the content it
writes. The crawler asks for `confirmed` (`crawler.rs:164`); the snapshot and the
subscription name no commitment and get the node's default, `finalized`; so the crawler
can be ahead of the subscription. What the node does (`Submit`, `Finalize`) is external.
A call that fails has already used up its retries. Abstracted: several instructions or
accounts in one transaction, product writes (component 4), forks.

Bounds: `MaxTxs`, `MaxFaults`, `MaxCrashes`; `PageLimit` is 1 instead of 1000.

Fairness (`FairSpec`) is weak fairness of the process's own steps: it starts again after
a crash (the container is restarted by its host, `render.yaml`), the crawler's loop goes
on after a failed tick (`crawler.rs:100-117`), the subscription is read, and the chain
finalizes. Nothing is assumed of users, failures and crashes; those are bounded.

### `Revenue` (component 7)

Part one: tabs open pages of apps, each page sends a beacon once Turnstile answers or its
timer runs out (`TrafficBeacon`), and its ad slot asks for an ad (`useAdServe`); the two
routes look for the view of the visitor's session and create it, and nothing keeps them
apart. Part two: `settleEpoch.ts` goes through the apps of a week, checks the stake it
knows against the chain, and funds a vote pool and a tag pool, one transaction each, with
nothing recorded in between.

The script fetches an app's account before it funds it, and a fetch that throws skips the
app with a warning, "no on-chain AppAccount yet" (`settleEpoch.ts:110-119`). The `catch` takes
every error for that one. `SkipApp` has the two cases apart: the app has no account
(`accounts`; then it has no stake either, `NoStake`), or it has one and the request failed,
which is a fault like a lost reply. The reader of the script's output cannot tell them
apart; `outcomes` can ("absent", "unread"). `InitApp` creates an account at any time. A
completed run is therefore whole but for the pools it deferred and the apps it skipped
(`CompleteRunsAreWhole`): it skips an app whole or not at all, and those without an account
had nothing staked when the run began. What becomes of a share that was left out is under
"Also observed".

An ad slot with no active ad (or of an unknown app) is answered before a view is looked for
(`NoAd`); which ad is served is left out.

| state | code |
|-------|------|
| `tabs`, `calls` | pages with their beacon, timer and ad; requests under way |
| `views`, `viewCount`, `impressions` | tables `PageView`, `AdImpression`, `App.viewCount` |
| `session`, `week` | the half-hour window, the week |
| `accounts`, `stake`, `cached` | apps with an `AppAccount`, its totals; the indexer's cached ones |
| `job`, `outcomes` | the script's place; history of what it paid, deferred or skipped |

Amounts are raw units, shares twentieths. Fairness (`FairSpec`): the script, once started,
goes on until it ends or is killed.

### `StakingPages` (component 17)

One signed-in visitor, one app and its tags as *targets*, and the four pages. `chain` is
what the program holds, `mirror` what `ChainMirror` lets a page read of it, `rows` what
`StakeLedger` keeps; in this module the program, the mirror and a ledger request are one
step each, as their own modules have them in detail. `page`, `shown`, `closeable`, `form`
and `locks` are the components' state, `reqs` the clicks under way with the locals of their
handler, `polls` the answers on their way, in any order. No interval waits for an answer, so polls of
a panel and of a list overlap (`MaxPolls` of each target). A read that fails (`AfterFailure`)
keeps apart a request that was refused from one that got no answer, as the pages do: a list
turns empty only in the second case, a vote only in the first.

Fairness: the mirror follows the chain, the page polls and the newest answers arrive. No
transaction, request or reply is assumed to succeed.

### `Visitor` and `Session` (components 15 and 9)

`Visitor` is a tab: `wallet`, `cookie`, `user`, `me` (the request of the first load),
`flow` (a sign-in between challenge, prompt and verification), `logout`, `query` (three
live queries with their answers under way), `path` and `bell`. The server is stateless, so
a request is handled in the step that sends it and its answer is a step of its own; either
may be lost. The queries are keyed the way `useLiveQuery` keys them, which is what decides
whether a late answer is shown. A refused poll of the digest empties the bell
(`useDigest.ts:22`), a failed one keeps it.

Signing out has three steps, as the code awaits twice: the request, the user leaving the page
(`SignedOut`), and the wallet's disconnect (`Disconnected`). In between the page has a wallet
and no user; a panel that was open stays open in state and shows nothing. Assumed of the
wallet: while it is being disconnected it signs nothing.

A prompt is verified once, as the page sends one request for it. The server keeps no list of
nonces: `session.ts:36-46` checks one by its signature and its age, so what makes a signed
message good for one sign-in is the page and the nonce's lifetime, not a record of its use
(`solana-auth.ts:10` says more than that).

`Session` is the promise: a session belongs to the account whose signature started it and
then only ends. The refinement maps `session` to the cookie and `signed` to the accounts
that signed; every other step of `Visitor` is a stutter. Fairness: answers arrive and the
bell's interval fires while the page is open.

### `FindFunnel` (component 11)

The reducer of `funnelState.ts`, the effect that reconciles it with the query string, the
router (`pending`) and the browser's history (`hist`, `pos`), requests to the engine
(`inflight`), and the outcome with its Turnstile `token`. A URL is a sequence of entries,
which may be damaged. The effect runs on a change of the query string only (`ReadsAgain`): a
walk, or an in-page Back, between two equal entries is not read. The engine is its contract: no facet twice, at most `MaxQuestions`.
Fairness: while the visitor is on the site answers come, with success or failure, and the
wait for a token ends (its timeout).

### `ExploreMaps` (component 18)

The three tabs of the rankings page: two instances of `ForceMap`, whose simulation keeps a
selection of its own (`map.sim`), and `GroupMap`, a tree with a camera. `url` and `nav` are
the address and the navigation under way, `ranges` and `timers` the debounced fields,
`fetches` and `relatedFetches` the requests, `selection` and `request` what map and list hand each
other. Layout, zoom factors and colours are left out. Fairness: requests are answered, if
only by failing.

### `Discover` (component 18)

The browse page and the form over it. `location` and `past` are the address and the history,
`boxes` and `timers` the debounced text fields, `apps`, `fetches` and `more` the pages of results,
told apart by the URL, the page number and the version of the catalogue they are for;
`form` and `job` the create form and the submission it leaves behind; `job.here` says whether
the page it was sent from is still mounted, for its `onSuccess` touches no later one. A
navigation is one step (`push`): the round trip of `router.push` (`Discover.tsx:110-116`),
during which the parameters are those before it, is left out. Fairness: answers of
page 1 arrive, the page polls while it is at rest, and a submission goes on.

### `AppCatalogue` (component 19)

`disk` is `apps.json`, torn while it is being written; `queue` and `jobs` the lock of the
curator's server and the operations it runs; `tab` and `wire` the browser tabs with their
save timers and requests; `script` a run of `discoverApps` or `extendAppList`, which holds
an old copy while it asks a model. A `PATCH` of a site that is not in the list writes nothing
(`NotFound`), and after an approval the button is back when the list has been read again. The
scripts' own write is one step, and a write of the server, once begun, ends
(`discoverApps.ts:165`, `extendAppList.ts:94`, `server.ts:48-50`); an operation fails before it
writes. A file that a killed process leaves torn is not modelled. Fairness (`Machine`): timers fire, the server works off
its queue and replies arrive; people and scripts are under none.

### `Deployment` (component 19)

`run` is the deploy script at one of its steps, `config` and `program` the accounts,
`mints` the tokens launched, `env` the variables of the two Render services and those they
run with, `work` and `apps` the workers of `createAppsOnchain` and what they registered,
`seeding`, `staked`, `ledger`, `indexed` the seeding of stakes. Any step may fail, and the
process may be killed after any of them and started again with another configuration.
Fairness: a script that runs goes on.

## 4. Runs

A cfg that says `CHECK_DEADLOCK FALSE` describes a system that may stop: a visitor who does
nothing more, a script that has ended. The program, the ledger and the mirror can always
move, and are checked for deadlock.

| run | instance | shows |
|-----|----------|-------|
| `program` | three families of behaviours (`Family`): two voters on one pool, one staker on two tags of one accumulator, one voter over a clock past the decay window and back | counters, checkpoints, vault and rounding agree; the program implements `SharedRewards`: rewards arise by funding, pro rata, and leave by payment, once; nothing but time lowers what leaving costs |
| `program_last_exit` (violation) | 2 users | the last staker's withdrawal can fail because the vault is one unit short |
| `ledger` | 2 tabs of 1 user, the vote and a tag, 2 deposits; a fault, or a request sent twice and overlapping handlers | every unit on chain is accounted for unless handlers overlap; a signature counts once; a handler that completes repairs its totals |
| `mirror` | a position and an app, pages of 1, up to 3 transactions, 1 failing call, 1 crash, fairness | nothing logged twice or dropped, order kept; rows never go back and show the latest state delivered; every transaction is logged in the end unless its own processing failed |
| `find_funnel` | 2 facets, 4 clicks, 1 failing request, 3 links to open it with, one of them damaged | one answer per facet, address and answers agree, no token is spent twice, in-page Back stays on the site and asks nothing, the page is never stuck |
| `explore_maps` | 2 apps and 2 tags with samples, 1 range field, 3 clicks, 1 failure | what is shown was asked for; selections belong to their tab and tree; a map never stays on "Loading"; a requested tag gets selected |
| `catalogue` | 2 tabs, 1 tag, 2 listed sites and 2 spellings of a new one, 1 script run, 1 failure | one entry per site; nothing approved gets lost; a pending save is not cancelled; an approval is answered |
| `deployment` | 3 runs in 3 configurations, 2 apps, 1 failure, then a seeding | what is reported happened; services restarted together use one mint; scripts end |
| `staking_pages` | the vote and a tag, both held, or the tag withdrawn and its account still open; overlapping polls; 2 events | reported successes happened; busy buttons are waiting for something; the page comes to show the truth |
| `revenue` | 2 apps, one of them without stake on its tags or without any, with and without an account; 1 visit, 2 sessions, 1 past week, 1 run, 1 fault | no more views earn than challenges were passed; a click marks an ad of its page; a run's shares add up, skipped apps named; it ends |
| `visitor` | 2 accounts of one wallet, 2 polls of the digest at a time, 4 events | `Visitor` implements `Session`; nobody sees another's digest or XP; the panel holds still; the bell catches up |
| `discover` | 1 word, 1 tag, 2 sorts, 2 sites, 3 pages, 3 events | address, boxes, results and preview belong together; the list settles on the latest; a submission ends |

Why the bounds are enough. In `StakeLedger` two handlers suffice for every race of the
code, as each statement touches rows of one user or one app; two deposits give a partial
withdrawal one row to use up and one to cut. In `ChainMirror` three transactions over
pages of one make a batch of several pages with transactions arriving while it is
fetched, and a write, a close and a reopening of one position; one crash separates any
two steps of the process; a third transaction is only looked at when all are the
position's, and as users are under no fairness this leaves out behaviours, never a reason
to wait. In the program each family has the resizes and fundings its violation run needs,
and a step that leaves all families is still checked. On the pages, the races are between
one click, one answer and one timer: two or three clicks with every order of what they
set off contain each pair and most triples, and every property was seen to fail under a
plausible bug (`mutants`) at these bounds.

Three cases lie outside them and rest on the proofs, which have no bounds: a late ad slot of a
page that another has replaced needs two visits (`AdsAreOfThePage`), the limit of tags needs
more tags than one (`BrowsePageKept`), and of the live queries only the digest's polls overlap
in the run (`PageIsOfItsUser`, `WhatIsShownHolds`). `EligibleViewsVerified` counts views that
earn against challenges, not against sessions: that a beacon and an ad slot may each create a
view of one session is stated below.

`Inv` (`CatalogueInv`, `BrowseInv`, `MapsInv`) is, in each module, the type invariant together with named invariants that are too
closely related to be separate questions; its parts are defined and explained one by one.

### Also observed

While modelling, these statements of the repository turned out not to hold, or to hold
less than they say. Those marked with a name are stated in their module (`Name` in
`Module`); adding the name to the cfg of that module's run makes TLC print how it happens.

On chain and indexer:

* `unstake_fee.rs:45-47` ("a staker never accrues more than what was actually funded"):
  debts are rounded down, so two pending rewards can add up to a unit more than was
  funded. `RoundingBounded` gives the true bound, `program_last_exit` the consequence.
* `reward_math.rs:122-125` (a test: the debt "can exceed the freshly computed `accrued` value in
  edge cases"): true of the helper called on its own, but of no position of the program
  (`DebtWithinAccrued`, part of `Inv`, proved as `DebtNeverAhead`).
* `state/vote_position.rs:24-25` (the fee is "1% immediately after a deposit"): the averaged
  age of an old position may absorb a top-up larger than itself (`DepositRestartsExitFee`,
  `NebulousProgram`).
* `withdraw_vote.rs:84-85` ("an existing position always has amount > 0"): a fully
  withdrawn position stays open with amount 0 until it is closed.
* `crawler.rs:94` (the cursor is "the newest fully-processed signature"): a transaction
  that failed to process (203-207) lies behind the cursor all the same (210).
  `NothingDroppedUpToCursor` says exactly what does hold.
* `main.rs:37-39` ("the current state of every account"): a transaction finalized between
  the snapshot (58) and the subscription (162-168) is missed until the next write or
  restart.
* `account.rs:90-97` (a closed account's row "would otherwise sit in Postgres forever"): the
  crawler deletes it at `confirmed`, and the finalized update that precedes the close then
  inserts it again, for good (`NoRowForClosedPosition`, `ChainMirror`); a close crawled late
  deletes the row of a position that was opened again.
* `settleEpoch.ts:87-88` (aggregates "kept in sync after every vote/stake mutation"): of two
  overlapping handlers the one that read first may write last (`TotalsKeptInSync`,
  `StakeLedger`).
* `votes.rs:162-171`: two partial withdrawals of one user that overlap count one row as used
  up twice, and the ledger keeps stake the chain has returned (`WithdrawalsCovered`). A
  panel that has not polled since part of a row was unstaked elsewhere withdraws the old
  amount on chain and takes the smaller row off the ledger.

Revenue:

* `settleEpoch.ts:36-38` ("no funds are lost, only delayed"): a skipped pool is never funded
  for the week it was skipped in (`NoFundsLost`, `Revenue`). Nor is an app whose account
  could not be read, for which the warning (118) names another reason. An app with an account but no
  stake at all aborts the whole run, as does a share that rounds to zero; a second run pays
  what the first has paid.
* The ad slot's request may create the session's view before the beacon's token arrives;
  that view never becomes eligible and is not counted until another refresh. Both may also find
  none and insert one each (`track.rs:39-77`), though `TrafficBeacon.tsx:32-33` says that
  refreshes and re-mounts "won't double-count" (`OneViewPerSession`, `Revenue`).

Pages:

* `funnelState.ts:322-324`: an in-page Back pressed before the push of the last answer is
  committed pops past the landing entry (`BackNeverLeaves`, `FindFunnel`). So does one that
  follows a walk over two equal neighbouring entries: Back between them changes no query
  string, so the navigation it takes back is never read again and `landedAnswers` counts an
  answer the history did not get (with three facets, one answer on landing and seven clicks,
  beyond the bounds of the run). `BackStaysOnSite` therefore asks for entries that can be told
  apart (`Readable`).
* `FindFunnel.tsx:142-143`: the reply of a request overtaken by the browser's Back stays on
  display for other answers (`ShownForTheAnswers`).
* `ExploreMaps.tsx:194-196`: a debounced push carries the address of an earlier render and
  undoes what was navigated since; clearing the ranges clears no timer (`RangesInUrl`,
  `ExploreMaps`). An orphaned timer pulls the visitor back to the rankings. A refetch of a
  map that fails after a live load keeps calling its data live.
* `Discover.tsx:28-35` ("the back button works"): Back does not restore the text boxes. A
  stale timer drops a tag or sort toggled within its 300 ms. A poll that answers during
  infinite scroll clobbers the pages loaded since, though 20-23 says it never does.
* `CreateAppForm.tsx:67-70`: a submission within the debounce of the preview carries the
  previous site's name and icon (`NamedAfterItsSite`, `Discover`). A lost reply and a retry
  create a second app.
* `ClaimRewards.tsx:51-52`: a stake whose ledger request was lost earns rewards that the page
  never lists (`EveryRewardOffered`, `StakingPages`, under `FairRequests`).
* `MyStakes.tsx`: one key for all rows lets a row be unstaked twice at once, and a poll that
  already saw the new amount makes the edit by hand subtract it again.
* `useWalletBalances.ts:21-24`: a failed request is shown as a balance of zero
  (`ZeroMeansNone`, `Visitor`).
* `AuthProvider.tsx:115-116` ("cookie cleared lazily"): only a logout clears it; after a
  disconnect a reload restores a user without a wallet. A late answer to `/me` overwrites a
  newer sign-in.
* `solana-auth.ts:10` ("the nonce prevents replay"): a nonce is checked by its signature and
  age alone (`session.ts:36-46`), so the same signed message is good until the nonce expires.
* `api.ts:85` (auth is "always IP-keyed"): with a session cookie the key is the wallet.

Scripts:

* `apps-curator/server.ts:27-29`: a save replaces all the tags by those its own tab knows, so
  of two tabs each adding one, one is lost (`TagEditsKept`, `AppCatalogue`). A list read
  while it is being written empties the page. The discovery scripts write back a copy from
  before they asked.
* `README.md:152-156` of the repository (`apps:create-onchain` "only creates whatever's still
  missing"): an app whose first transaction landed is skipped by later runs and never gets
  its other tags (`NothingMissing`, `Deployment`).
* A run repeated after a failed launch creates a second token while `Config` keeps the first.

## 5. Proofs

`NebulousProgram_proofs` proves, for every set of users, apps and tags, every supply,
width, precision and fee parameter that satisfies the named assumptions of
`NebulousProgram`:

| theorem | property | meaning |
|---------|----------|---------|
| `TypeCorrect` | `TypeOK` | every account field stays in its integer width |
| `DebtNeverAhead` | `DebtWithinAccrued` | `saturating_sub` in `settle_pending` never hides a reward |
| `EmptyPositionIsSettled` | `EmptyPositionOwedNothing` | closing an emptied position forfeits nothing |
| `OnlyFundingAccrues` | `RewardsAccrueOnlyByFunding` | no instruction but a funding adds to what anybody is owed |
| `NoRewardDisappears` | `PendingLeavesOnlyByPayment` | what a position is no longer owed was paid in that transaction |
| `PositionsSound` | `Inv` | the first three together, as the run `program` checks them |
| `RewardsAreConserved` | `RewardsConserved` | the other two together |

The argument. `TypeOK` is not inductive with respect to the debts: that a position's
debt is at most what it accrued needs the accumulators to be monotone, and
`EmptyPositionOwedNothing` needs that a position that was never opened, or was closed, is
all zero. The inductive invariant `IInv` therefore joins `TypeOK`, `DebtWithinAccrued` and
the shape of unused positions, and is shown by one lemma per instruction. The action
properties follow from `IInv` and, per instruction, from one fact: the instruction
checkpoints the position it touches (`CheckpointSettles`) and leaves the other positions
and their accumulator alone (`OthersKeepPending`). The arithmetic rests on monotonicity of
multiplication and of division by `REWARD_PRECISION`, stated once each.

It adds the books, from the same assumptions:

| theorem | property | meaning |
|---------|----------|---------|
| `BooksHold` | | the inductive invariant of the books, `BooksInv` |
| `CountersInLockstep` | `StakeTotals` | every app and tag counter is the sum of the positions it counts |
| `VaultIsBacked` | `VaultBacksTheBooks` | the vault holds all principal, and what was funded and charged and not yet paid |
| `RoundingIsBounded` | `RoundingBounded` | what a pool has paid and owes differs from its funding by no more than its roundings |
| `OnlyTimeLowersTheFee` | `OnlyTimeLowersExitFee` | with the clock still, no instruction makes leaving cheaper |
| `TopUpPaysItsFee` | `TopUpInWindowPaysItsFee` | a top-up inside the decay window pays its own fee on leaving |
| `ExitFeeIsKept` | `ExitFeeHolds` | both, as the run `program` checks them |

The argument. Eight instructions *settle* one position: they pay it what it is owed and
leave it freshly checkpointed with another amount (`Settles`). One funds a pool; the others
move no money (`StepShapes`). What such a step does to each sum follows from one lemma,
`SumChangesAt`: a sum changes by what its one changed term changes by. Two facts have to be
added to the sums to make them inductive. The counters of an account that does not exist
yet are zero (`NothingUnregistered`), because creating an account starts its counter
afresh. And `RoundingBounded`, which divides, follows from an inequality that does not
(`RoundingInv`): in units of `1 / REWARD_PRECISION`, what the positions of a pool earned
and did not get yet is at most what was funded and not paid plus less than a token unit
for each deposit or withdrawal, and at least that less as much and what a funding may
round away. The fee properties are nonlinear: they rest on bounds of
the decayed rate (`RateFacts`), of the weighted average of two ages (`AverageFacts`), and
on the fee being monotone in the amount (`FeeFacts`).

And the refinement, from the same assumptions:

| theorem | property | meaning |
|---------|----------|---------|
| `ImplementsSharedRewards` | `RewardsAreShared` | the program implements `SharedRewards`: every funding is shared by stake, every reward paid once |

The argument. It uses `IInv` and `StakeTotals`. By `StepShapes`, an instruction settles a
position (`SettlesIsSettle`: it is paid what it was owed and a fresh checkpoint owes it
nothing), funds a pool (`FundIsFund`) or leaves shares and debts alone, which the abstract
module does not see. That a funding is pro rata is arithmetic: the accumulator is
bumped by a quotient that is rounded down, what is owed is the earned amount rounded down to
whole tokens before and after (`WholeTokens`), and the three roundings together cost a
position less than a token and what the grain forgoes (`GainIsProRata`).

`Index_proofs` proves, for every set of accounts, every page size and any number of
transactions, failures and crashes:

| theorem | property | meaning |
|---------|----------|---------|
| `MirrorTypeCorrect` | `TypeOK` | types; a snapshot's stamp never lies beyond what is finalized |
| `NeverLoggedTwice` | `LoggedOnce` | the crawler logs no transaction twice |
| `CrawlerDropsNothing` | `NothingDroppedUpToCursor` | the cursor passes over nothing but what failed to be processed |
| `LogInOrder` | `LogChronological` | the log is in chronological order |
| `RowsFresh` | `RowAsFreshAsItsSlot` | a row is as fresh as the slot it carries |
| `LatestStateWins` | `LatestDeliveredStateWins` | once delivered, the latest state of an account is the one shown |
| `NoRowGoesBack` | `RowsNeverGoBack` | no step replaces a row by an older state |
| `MirrorSound` | `Inv` | all but `CrawlerDropsNothing` and `NoRowGoesBack` together, as the run `mirror` checks them |

The argument has two halves that meet in `TypeOK` only. For the crawler
(`CrawlerInv`): what a tick has still to fetch or process lies between the cursor and the
newest signature it saw without a gap (`CrawlIsContiguous`), because a page that is not
full reaches down to the cursor (`PageFacts`) and an empty one after a full one shows that
the full one did; so what is logged next is later than everything logged
(`LogHasNoHoles`), and the cursor may follow. For the rows (`MirrorInv`): no row is stamped
later than the snapshot under way (`StartupOrder`), which therefore replaces every row it
reads; and an update that comes after a snapshot is newer than the states the snapshot
wrote (`FeedFollowsSnapshot`), so that the guard on slots, which compares an update's slot
with a stamp, never refuses the last state of an account and never lets an earlier one
displace it. `FeedFollowsSnapshot` is the fact that the code relies on without saying it:
it holds because `main.rs` completes the snapshot before it subscribes.
`AccountsFinite` and `PagesHoldSomething` are the assumptions used, besides the bounds.

The same module proves of `Discover`, for any filters, words, tags and sites, any number of
pages of results and any length of a visit:

| theorem | property | meaning |
|---------|----------|---------|
| `BrowsePageKept` | `BrowseInv` | URL and boxes agree once the timers have run; a list at rest is of its URL, in order; the preview is of the site typed; no app is sent with a tag twice |

The argument. That the URL says what is in the boxes holds only when no timer runs, so what
is inductive is about the timers: the URL that the *last* of them will push is the one in
the boxes (`BoxesLag`). A keystroke puts its timer last (`debounce` removes the box's old
one and appends), a timer that fires either was the last or leaves the last one in place
(`TimersLeft`), and a click pushes what the boxes hold and leaves the timers behind it
untouched. `"clear"` and `"back"` in `aside` are exactly the two cases in which this fails, and after
Clear it still holds for the query, whose box Clear does not empty. For the list
(`ListIs`): every answer under way that counts is for the URL shown, and if no first answer
is awaited and none failed then one has arrived; the pages are in order as long as a page
under way is the next one of the search that is shown (`straddled` marks the rest). The form
and a submission carry their own parts (`FormIs`, `JobIs`), because a submission outlives the
form it was sent from. `Others` is the assumption used besides the bounds.

`Records_proofs` proves of `StakeLedger`, for every finite set of users, tabs and tags, every number
of deposits, lost requests and repeats:

| theorem | property | meaning |
|---------|----------|---------|
| `LedgerSound` | | the inductive invariant of the ledger, `IInv` |
| `RowsWellFormed` | `Inv` | rows, requests and totals are well formed; no active row is empty unless handlers overlapped |
| `TransactionsRecordedOnce` | `RecordedOnce` | a transaction becomes one row at most, however often it is sent |
| `LedgerFollowsChain` | `LedgerTracksChain` | unless handlers overlapped, active rows and unrecorded deposits make up the position on chain |
| `RefreshRepairsTotals` | `CompletedHandlerLeavesTotalsExact` | a handler that ran alone leaves the cached totals equal to the ledger's |

The argument. A handler reads rows and writes them several queries later, so its writes are
right only if what it read still holds (`RowsKnown`, `TotalsKnown`), which is so as long as
no other handler is under way (`NobodyElseServes`). Requests and panels, on the other hand,
may name a row long after it was shown; what they say of it stays right in a weaker sense,
since a row never changes its user, target or signature and its amount only shrinks
(`Grows`, `RequestSound`, `ShownSound`). Then each action moves the two sides of
`LedgerTracksChain` by the same amount (`Moves`, `MovesBalance`): a deposit on chain is
matched by one not yet recorded, an insertion by a row, a withdrawal by the rows consumed
or by what the request has still to consume. A restart ends every request at once: the sums
over the tabs are split into those that had still something to take off and the others
(`RestartTracks`).

And of `FindFunnel`, for any facets, values, apps and shortlists, any links to land on, any
limits on questions and forwarded answers, and any number of clicks, navigations and
failures:

| theorem | property | meaning |
|---------|----------|---------|
| `FunnelKept` | `FunnelInv` | one answer per facet; the address bar agrees with the funnel; no token is redeemed twice |
| `HistoryIsKept` | `HistoryKept` | a commit asks the engine nothing anew; the in-page Back stays on the site |

The argument. What the reducer holds, what requests carry and what a link is read as name
each facet once (`Histories`), because a revision cuts the answers off before the one it
revises and an answer is to the facet of a reply that was asked with the answers at hand
(`ReducerSound`). A navigation under way goes to what the reducer holds, and with
none the entry shown is read as just that (`NavigationSound`): an in-page move asks for a
navigation in the same step, and a commit or a walk over the history is reconciled in the
same step, by adopting the entry or by asking for it to be rewritten. A token that would be
sent is among those minted and not among those redeemed (`TokensSound`): a challenge is
cycled with the request that used it. For the walk over the history two facts are needed
besides: something is asked for, was answered or failed at any time (`FunnelAsks`), since
only then may a commit leave the engine alone; and the entry the visitor landed on is never
read as more answers than the page counted then (`LandingSound`), which is what makes a
"pop" stay above it. Assumed are that `MaxForwarded` and the other bounds are numbers, that
the shortlists hold apps and the landings hold entries (`FunnelData`), and that `Null` is no
reply (`NullIsNoReply`).

`Visitor_proofs` proves, for every set of wallets and any number of events and of answers
under way:

| theorem | property | meaning |
|---------|----------|---------|
| `OneUserPerPage` | | the inductive invariant of a tab, `IInv` |
| `PageIsOfItsUser` | `Inv` | what is shown belongs to the user on the page |
| `WhatIsShownHolds` | `DisplayHolds` | an open panel holds still, a balance is of the connected wallet |
| `SignInImplementsSession` | `SessionSpec` | signing in, signing out and expiry implement `Session` |

The argument. That the digest shown is of the page's user needs that the answers under way
are (`AnswersOfUser`), hence that the session they are asked with is the user's own
(`SessionOfUser`), hence that nobody is on the page while somebody signs in. A page whose
`/me` was overtaken by a change of session (`overtaken`) keeps only the part that does not
mention the session. The refinement follows step by step from `IInv`: the cookie is set for whoever
signed (`Origins`), and every action that leaves cookie and signatures alone is a stutter of
`Session`. `ReturningAreWallets` is the assumption used besides the bounds.

It proves of `ExploreMaps`, for any apps, tags, addresses and metrics, and any number of
clicks and of failing requests:

| theorem | property | meaning |
|---------|----------|---------|
| `MapsAgree` | `MapsInv` | what is shown was asked for; map, camera, selection and list agree |

The argument. `MapsInv` says of a loaded map that its nodes are the answer to its filters,
which needs that a request that counts is for the filters the map has (`FetchesSound`), and
those are the filters of the address and the fields (`ShapeSound`). The group map draws its
apps, so that a leaf of the camera or of the selection must still be in the tree
(`TreeSound`): only an answer and a changed tag prune it, and both reset the map, except
that an answer that falls back on the sample it showed already does not, for which
`ShapeSound` keeps that a map without a live answer draws just the sample. A
press is on a node that is there when it ends (`PressSound`), because a simulation runs only
while nothing is awaited. The selection is of the mounted tab (`OfTab`) and the list below
it of the selection (`ListSound`). Assumed are the bounds (`MapBounds`), that the page is
opened with addresses, and that the order of the tags lists every tag of an app (`MapData`).

`Tools_proofs` proves of `Deployment`, for every list of apps and tags, every set of configurations, and
any number of runs, seedings and interruptions:

| theorem | property | meaning |
|---------|----------|---------|
| `ScriptsSound` | | the inductive invariant of the scripts, `IInv` |
| `ReportsAreTrue` | `Inv` | created apps have all their tags; records were confirmed; workers are within `Concurrency` |
| `OneMintAfterAll` | `OneMint` | services restarted together use one mint; `Config` keeps its first; a dry run changes nothing |

The argument. Each script has its part of the invariant. A run knows that its mint was
launched and not yet filled (`MintOfRun`) and which variables are already its own
(`Synced`); cutting it short drops that part and disturbs nothing else. A registration may
be one tag behind the chain, when a transaction landed whose confirmation was not heard
(`WorkSound`), and that is why a tag that is there already fails the app instead of
counting it as created. Assumed are `DeploymentBounds`, that switches are Booleans, and that
`Null` is no set of tags.

And of `AppCatalogue`, for any categories, tags and sites, any list to start from that names
no site twice, and any number of edits, failures and script runs:

| theorem | property | meaning |
|---------|----------|---------|
| `CatalogueKept` | `CatalogueInv` | the list on disk names no site twice and keeps what was approved |
| `NoSaveIsCancelled` | `NoSaveCancelled` | a save that is put off is sent, whatever is edited or fetched meanwhile |

The argument. Every list that may yet be written has each site once: the one on disk, the
one the operation that holds the lock has read, and the one the script holds
(`FileIsSound`, `ScriptSound`). An operation that has read its list has in it all that was
answered for, since no other operation finishes while it holds the lock; so writing it back
loses nothing. A script takes no lock: what it writes over is no longer counted as kept
(`acked`), which is what it costs, and the operation it overtakes still holds what remains. An approval appends only entries whose sites are new, to the list and to
one another (`AppendedOnce`); a save of tags changes no site (`PatchKeepsSites`); and what a
filter keeps of a list without repetition has none (`KeptPlaces`). `NoSaveCancelled` is
shown step by step (`StepsEndSaves`): a timer is cleared only by firing, which sends it.
Assumed are the bounds, that `Unset` is no set of tags, and that the lists to start from hold
entries.

`Revenue_proofs` proves, for every finite set of apps, every number of tabs, visits,
sessions and runs, any earnings of a week, and any number of lost requests, crashes and
withdrawals:

| theorem | property | meaning |
|---------|----------|---------|
| `TrafficIsSound` | | the inductive invariant of pages, requests and views |
| `ViewsAreVerified` | `EligibleViewsVerified` | no more views earn than challenges were passed |
| `AdsAreOfThePage` | `AdOfThePage` | the ad on display is of the page that is open |
| `RunIsSound` | | the inductive invariant of a settlement run |
| `RunsAddUp` | `SharesAddUp` | a run pays within the week's earnings; a completed run paid, deferred or skipped every app's share once |
| `CountedIsEarned` | `Inv` | types and the two properties of the traffic together |

The argument. A view earns only through a beacon that carried a token, so what is counted
is views that earn *and* requests that may still add one (`Verified`); that a request adds
one at most is seen from its phase, `refresh` being the one in which it has done so. That a
late answer does not put another app's ad on the page needs that a request still agrees
with its tab whenever the visit is the same (`CallSound`). For a run, the bound on what is
paid is not inductive: a run that has paid much may still have much to pay. What is: the
payments so far, the pools of the app at hand and the shares of the apps to come are within
the shares of all apps but for half a unit for each payment (`Budget`); and the shares are
within nine tenths of the earnings but for half a unit for each app (`GrossFacts`), because
the amounts before rounding add up to the earnings exactly. That a completed run has
settled an app once rests on each pool with a share having its one outcome or being still
to fund (`DecidedOnce`, `AllDecided`). A skipped app has one outcome per pool as well: its
outcomes are all of the same kind and it is never the app at hand (`SkippedWhole`). That an
app skipped for want of an account had no stake when the run began needs that stake and what
the indexer cached of it are on accounts that exist, and that accounts never go away
(`StakeNeedsAccount`). Assumed are that the apps are finitely many and that
views and stakes are at first of the types they have (`Beginnings`).

`StakingPages_proofs` proves, for every finite set of tags, any holdings, and any number of
polls, transactions and failures:

| theorem | property | meaning |
|---------|----------|---------|
| `PagesSound` | | the inductive invariant of the pages, `IInv` |
| `ReportsAreTrue` | `Inv` | reported successes have happened; a disabled button waits for a transaction |
| `OneVoteRequest` | `VoteRequestsDoNotOverlap` | the vote panel runs one transaction at a time |

The argument. Four pages share one set of flags, and which flag a request holds and which
edits it makes depend on the page it was started on. So the invariant ties a request's kind
to its page until the page is left (`RequestSound`), and says by phase what it has still to
do: a request of one transaction that is past the chain has none left, and one that was
answered by the ledger as a success was recorded. `NoStuckButton` is inductive with that.
On the vote panel every request holds the same flag (`VoteIsBusy`), so a free flag means
that none is under way. Types need the answers under way to fit the page (`PollSound`): a
read of a row is dropped when the row goes, or its reward would be written into nothing.
Amounts in a panel are never negative, since they come from the ledger and are not edited
by hand; those in `MyStakes` may be (`PageSound` says so). Assumed are `TagsFinite`,
`HoldsTargets`, `NoneIsNoTarget` and the bounds.

`DataTheorems` holds what these proofs share: induction over the naturals and over finite
sets, facts about `SumFunctionOnSet`, and what a filter keeps of a list (`KeepIsInOrder`,
`KeepIsList`: its elements, at their places in increasing order). `Lists` defines that by
positions instead of by recursion, as `SelectSeq` does, because nothing can be proved about
a recursion over a list of any length. The induction theorems of the library take an
operator as a parameter, which the installed provers cannot instantiate; induction is
therefore done by taking a minimal counterexample (`MinimalSubset`, `LeastNatural`), for
one set at a time (`Induction`, `FiniteInduction`). That `UsersFinite`, `FinitelyMany` and
`AccountsFinite` ask for finite sets is what makes sums and cardinalities meaningful.

Only model-checked:

* liveness and fairness (`EventuallyLogged`, `RunEnds` and the other properties with `~>`),
  which the prover cannot do.
## 6. Not modelled, and why

* Product writes (4), XP (8), the epoch settlement of `revenue.rs` and the daily snapshots
  (7): planned (section 2). The hazards they hold are in `PROJECT.json` with a note.
* Roll-up and platform metrics (10), x402 (12), rate limits (16): small, self-contained, and
  read by no modelled part; to the pages a refused request is a failed one.
* The find engine's scoring, catalogue reads, OpenGraph (14): functions of one request.
* Configuration and routing (13), styling (18), the token shop, generated code (20).

Left out of the modelled parts: metadata text and rank scores; forks of the chain,
several instructions in one transaction and transactions that cannot be decoded; a crash in the
middle of a snapshot (it is one step, and the next start takes another); the metric of the maps' links
(`linkKey`) and the browser's Back on the maps; a repeated verification of one signed message; drawing, layout and animation; simulation mode (no
token configured); prices, keys and command lines of the scripts. Each page is one tab of
one visitor; what two tabs do to the ledger is in `StakeLedger`, to the curated list in
`AppCatalogue`.
