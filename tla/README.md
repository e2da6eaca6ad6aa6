# TLA+ specifications of the Patex bridge

Patex is a fork of Blast, itself a fork of Optimism's Bedrock: an optimistic rollup whose bridge
does not leave what it holds idle. Ether and USD tokens sent to L2 are staked on L1, the yield is
reported to L2 and rebased into balances, and a loss is charged to withdrawals as a discount. The
programs modelled here are the Solidity contracts under `src/contracts/` and the TypeScript around
them: the deployment and migration scripts, the task `check-l2` and the generator of
`invariant-docs`. Every transaction is atomic, so a step of a model of a contract is one
transaction, except where a contract calls code it does not know in the middle of one. A step of a
model of a script is what it does between two looks at the chain or at a file.

Contents: [the system](#the-system), [the modules](#the-modules), [the runs](#the-runs),
[the proofs](#the-proofs), [disagreements with the documents](#disagreements-with-the-documents),
[what is not modelled](#what-is-not-modelled), [plan](#plan).

## The system

| component | state | operations | talks to |
|---|---|---|---|
| `L1/L2OutputOracle` | list of output roots with L2 block number and L1 time; starting block and time | propose (proposer), delete a suffix (challenger), two setters (owner), the lookups | read by the portal |
| `L1/PatexPortal` | proven and finalized withdrawals, `l2Sender`, `paused` | prove, finalize, deposit, donate, pause | reads the oracle; requests from and claims from the ETH yield manager; calls withdrawal targets, which may call back |
| `mainnet-bridge/withdrawal-queue/WithdrawalQueue` | requests with running totals, checkpoints with a share price, last finalized request, locked balance | request, finalize a batch, claim with a hint, find hints | inherited by the yield managers |
| `mainnet-bridge/YieldManager`, `ETHYieldManager` | providers, accumulated losses, insurance terms | stake, unstake, finalize, report yield (with or without an insurance payment), owner's setters | delegates to yield providers; the report is a message to L2 |
| `yield-providers/*`, `Insurance` | principal, pending unstakes, claim index | stake, unstake, pre-report hook, insurance payments | Lido and the DSR |
| `L2/L2ToL1MessagePasser` | sent messages, nonce | initiate a withdrawal | its storage root is part of an output root |
| `universal/CrossDomainMessenger` and its two ends | successful and failed messages, nonce, sender | send, relay, retry | portal, message passer |
| `universal/StandardBridge`, `mainnet-bridge/L1PatexBridge`, `L2PatexBridge` | locked deposits | bridge and finalize ether or tokens | messengers, yield managers |
| `universal/ERC721Bridge` and its two ends | locked tokens | bridge, finalize | messengers |
| `L2/Shares`, `ERC20Rebasing`, `WETHRebasing`, `USDB` | share price, pending yield, shares, remainders and modes | transfer, change mode, claim, add value | yield reports |
| `L2/Gas`, `L2/Patex` | ether seconds and claimable gas per contract, modes, governors | configure, claim at a rate | precompiles of the L2 client |
| `L1/ResourceMetering` | base fee, bought gas, block | the modifier on deposits | portal |
| `L1/SystemConfig` | owner's parameters of the rollup | setters | read by metering |
| `deployment/SystemDictator` | upgrade step, flags | the migration steps, exit | all L1 contracts |
| `deploy/020`, `deploy/021`, `src/deploy-utils.ts` | a script's place, its local variables; nothing is kept between runs | ask for or send transactions, wait, assert | the dictator, its owners, all L1 contracts |
| the other scripts of `deploy/` | records in `deployments/`, proxies' implementations, entries of `Postdeploys` | deploy, install, publish an address | hardhat-deploy, the chain's mempool |
| `tasks/check-l2.ts` | the questions not asked yet | ask, throw, pass | a node of an L2 that may be upgraded meanwhile |
| `scripts/invariant-doc-gen.ts` | files of `invariant-docs/`, the list of those written in this run | read, write, contents | the test directories |
| proxies, address manager, fee vaults, mintable tokens, governance token, libraries | | | |

What is hard about them:

* A withdrawal depends on an output that can be deleted, replaced and proven against again while
  the portal's two waiting periods run. Portal and oracle each compare the clock with the same
  period, one strictly after, one strictly before.
* Finalizing a withdrawal calls its target, which may call the portal, the queue and the oracle
  again, or fail and leave its ether behind.
* A request for ether is made at the first proof and paid at finalization. In between, the admin
  finalizes batches at a share price, and the caller has to name the batch by a hint found earlier.
* Batches are rounded as a whole, claims one by one.
* The yield report nets gains, old losses, losses realised by unstaking and insurance payments of
  several providers, while the protocol behind a provider answers unstake requests in its own time.
* A message between bridges may revert on arrival and be replayed much later or never; meanwhile
  what it stands for must be kept, once. On L2 anybody deploys the contract a message names.
* The migration is a sequence of transactions of several owners, asked for by scripts that stop and
  start again, with two ways out in the middle. A script looks at the chain at one moment and waits
  at another; in between people do what an earlier run asked them for.
* Deployment scripts are killed between sending a transaction, recording a deployment and checking
  it; some do not wait for what they send; most cannot be run twice.

What makes each part correct:

* oracle: outputs past the finalization period are an append-only log;
* portal: a withdrawal is finalized once, on behalf of its sender, on the strength of an output
  that is never taken back; its target gets what the queue paid and no other ether;
* queue: a finalized request has exactly one valid hint, it never changes, it pays once, and the
  locked balance is enough for all open claims together;
* yield manager: what it holds plus the losses not charged yet covers what L2 users hold plus what
  waits in the queue, and nothing locked is staked;
* end to end: with one diligent challenger only withdrawals sent on L2 are finalized;
* messengers: a message is successfully delivered at most once, with the ether that arrived with it,
  and one that failed can be replayed;
* rebasing tokens: supply and pending yield are what was minted and reported, in every mode and at
  every price, and WETH holds what it owes;
* gas: the contract holds what it owes, and an ether-second pays for a claim rate once;
* metering: a block buys no more than its limit, the fee stays in bounds, and an L2 block has room
  for what L1 may deposit;
* USD bridge: every USDB there is, and every one on its way, is backed by the manager's books;
* ERC721 bridge: every token in escrow has exactly one claim on it, and nothing else has one;
* migration: no contract ends with an owner that cannot give it on, and the messenger runs only as
  part of a complete system, the legacy one or the new one; scripts wait for nothing that cannot
  happen any more, and the migration ends, however often they stop;
* deployment: the plan is carried out whatever is killed or repeated, and what runs behind a proxy is
  what the records name;
* `check-l2` and `invariant-doc-gen`: what the task has gone over is as it says, and the documents
  of a run that ended are those of the tests.

## The modules

| module | models | composed with |
|---|---|---|
| `L2OutputOracle` | `L1/L2OutputOracle.sol`, every operation | |
| `FinalizedOutputs` | abstract: a list that is only appended to | implemented by `L2OutputOracle` |
| `WithdrawalQueue` | `withdrawal-queue/WithdrawalQueue.sol`, closed with an environment that receives and spends what is not locked | |
| `PatexPortal` | `L1/PatexPortal.sol`, every operation | extends oracle and queue |
| `OptimisticBridge` | `L2ToL1MessagePasser.initiateWithdrawal` and a diligent challenger | extends the portal, implements `MessageDelivery` |
| `YieldManager` | `YieldManager.sol`, `ETHYieldManager.sol`, `USDYieldManager.sol`, the Lido and DSR providers, `Insurance.sol`; staked ether bridged by `L1PatexBridge` | extends the queue and implements it |
| `CrossDomainMessenger` | `universal/CrossDomainMessenger.sol` and both ends, over deposits and withdrawals | implements `MessageDelivery` |
| `MessageDelivery` | abstract: a message that was sent is delivered at most once | implemented by `CrossDomainMessenger` and by `OptimisticBridge` |
| `BridgeMessages` | what the bridges use of the messengers: messages that carry a call to the other bridge | uses `MessageDelivery` |
| `PatexBridge` | `L1PatexBridge.sol`, `L2PatexBridge.sol` and `StandardBridge.sol` for USD tokens, `USDConversions.sol` | extends `YieldManager` and `BridgeMessages` |
| `ERC721Bridge` | `universal/ERC721Bridge.sol` and both ends, `PatexMintableERC721.sol` | extends `BridgeMessages` |
| `ERC20Rebasing` | `L2/ERC20Rebasing.sol` on `L2/Shares.sol`: accounts, modes, prices | |
| `USDB` | `L2/USDB.sol`: minting, burning, reports of yield | extends `ERC20Rebasing` |
| `WETHRebasing` | `L2/WETHRebasing.sol` and `Shares` over native ether | extends `ERC20Rebasing` |
| `Gas` | `L2/Gas.sol` and what `L2/Patex.sol` does with it | |
| `ResourceMetering` | `L1/ResourceMetering.sol` with the limits of `L1/SystemConfig.sol` | |
| `SystemDictator` | `deployment/SystemDictator.sol`, `ProxyAdmin.sol`, what the deploy scripts ask of owners | |
| `MigrationScripts` | `deploy/020`, `deploy/021` and the helpers of `src/deploy-utils.ts` | extends `SystemDictator` |
| `DeployScripts` | the other 74 scripts of `deploy/`, `deploy` of `src/deploy-utils.ts`, how hardhat-deploy runs them | |
| `CheckL2` | `tasks/check-l2.ts` | |
| `InvariantDocs` | `scripts/invariant-doc-gen.ts` | |
| `RecursionTheorems` | what sums over finite sets and narrowing loops compute, and division; used by all proofs about them | |
| `*Proofs` | theorems: `PatexPortalProofs` about oracle, portal and optimistic bridge, `YieldManagerProofs` about manager and USD bridge, `LedgersProofs` about the rebasing tokens, gas, metering, ERC721 and all of them side by side, `ScriptsProofs` about the deployment scripts, `check-l2` and `invariant-doc-gen`, the others as named | extend the modules they are about |
| `MC_*` | constants for the runs; `MC_Ledgers` and `MC_Scripts` put components that share no state side by side, one per behaviour | |

**L2OutputOracle.** `now` is `block.timestamp`; it stands still between transactions of a block and
moves by `NextBlock`. `l2Outputs` is numbered from 1, the contract's array from 0. An L2 output
index in `PatexPortal` is shifted in the same way. `proposeL2Output` checks the required block
number and that its L2 time has passed. `deleteL2Outputs` compares the age of the *first* deleted
output only, as the code does; that this protects the others is what `FinalizedOutputs` asks.
The lookup `getL2OutputIndexAfter` is the code's binary search, written as a recursive function, and
is compared with its definition (the first output at or above the block).

**WithdrawalQueue.** Request ids start at 1; the contract's dummies at index 0 are not stored.
`finalizeQueue`, `claimWithdrawal` and `requestWithdrawal` are the three internal operations with
their checks; `ValidHint` is the check a claim makes of its hint, `findCheckpointHint` the view
that finds one. `findCheckpointHints` searches for several requests in one pass, each
search starting at the hint before it, and reverts as the code does.
`AtPrice` keeps the integer division. `Receive` and `Spend` stand for whatever an
inheriting contract does with tokens, so what holds here holds for every such contract.
`YieldManager` is shown to be one.

**PatexPortal.** An output root is the set of withdrawals it commits to; the two Merkle proofs say
that a withdrawal is in it. `proveWithdrawalTransaction` requests the ether on a first proof only.
`finalizeWithdrawalTransaction` is cut where it calls the target: `enterTarget` is everything up
to the call, then any calls may follow (`Call`, but no new block), and `leaveTarget` is the rest.
A target that fails has its own effects undone, so `failTarget` is one step. `frame` names the
withdrawal whose target is running. One level of nesting is enough: the code refuses a second, and
removing that check is one of the mutants. `paidTo` and `callsTo` are history.

**OptimisticBridge.** A challenger deletes what is bogus before it is too late. The program is not
in the repository, so it is an assumption on the environment: `ChallengerInTime` lets a block end only
if every bogus output can still be deleted in the next one.

**YieldManager.** Delegate calls to providers are inlined. A provider is *delayed* (Lido: unstake
requests answered later, perhaps with less) or immediate (DSR), and each of the operations that
differ is an operator per kind. `bridgeStakedToken` takes a deposit of the staked token itself
(`L1PatexBridge` with stETH), reported to the manager; USD tokens are converted and not reported
(see [what is not modelled](#what-is-not-modelled)). `commitYieldReport` is one action:
the hooks that claim finalized unstakes, premiums and insurance payments, netting against
losses, the report to L2 and the check on losses. `Rebase` and `FinalizeUnstake` are the protocols.
`l2Supply` is what L2 users hold, counting messages under way.

**CrossDomainMessenger.** A message stands for its hash; `To`, `Value` and `Sender` are its fields.
Messages to L2 are deposits, executed in order and once; messages to L1 are withdrawals, which the
portal hands over once, at any time and with less ether than was sent (`deliverOnL1` takes any
`value` up to it; `PatexPortal` and `WithdrawalQueue` say which). A failing target undoes what it
did, so a failed relay is one step; a successful one is cut in `Enter` and `leave`, and anything
else may happen in between. The two ends differ, and the model keeps the difference: L1 does not run
a message inside another but keeps it, L2 runs it and locks only the message itself.
`RelayedLegacy` are the withdrawals relayed before the migration to nonces of version 1.
`received`, `paid` and `calls` are history.

**ERC20Rebasing, USDB, WETHRebasing.** The storage of the accounts is the record `book`, and each
internal function of the contract (`_setBalance`, `_deposit`, `_withdraw`, `_configure`, ...) is an
operator from a book to a book, so that a transfer is a withdrawal and a deposit as in the code.
Prices are parameters of those operators through the variable `price`, which a report of yield
raises. A price of zero, which the contract allows before it is initialised, is the first branch of
`SharesIn`. `earned` and `supplied` are history. Native ether is kept in shares by the L2 client: `WETHRebasing`
models the contract's own account and one account for everybody else, and is the composition of
`Shares` (whose report is passed on) with the token.

**BridgeMessages, PatexBridge, ERC721Bridge.** A message is a number with a `body`, the call it
carries; `Post` is `sendMessage` to the other bridge and `Hand` the call when it succeeds. A call
that reverts changes nothing, so its message stays `Pending` and may be handed over at any later
time, or never. `PatexBridge` splits the manager's `l2Supply` into the USDB there is (`usdb`),
reports on their way (`reported`) and pending messages. Amounts are in the unit of the scarcest
decimals. A conversion pays what the exchange pays, at least `minOutput`. A recipient the bridges
refuse makes a message that never succeeds. In `ERC721Bridge` an L2 contract is compliant (a
`PatexMintableERC721`; there may be several for one L1 contract) or foreign, which answers every
call as it likes, and a recipient in `Rejecting` is a contract that takes no tokens. Owners also
transfer tokens without the bridges, and to them.

**SystemDictator.** Steps, `finalize`, `exit1`, `phase1` and the dynamic configuration are an
action each, sent by anybody at any time if the contracts let them: a script may be stopped, run
again, and what it printed may be sent late, twice or never. `owner` are the owners of what is
handed over, `implementation` what each proxy runs (the messenger's is an entry of the
`AddressManager`), `Kind` the kind of proxy `ProxyAdmin` must know it by. `ether` and `owed` are
the legacy bridge's ether and what of it belongs to L2 users. Phase 1 is steps 1 and 2 in one
transaction.

**Gas.** `gasParams` are the unpacked parameters as last written; `EtherSeconds` brings them up to
date as `readGasParams` does. The pairs of operations of `Patex`, on one's own behalf and on
that of another contract, are one action each, guarded by `Authorized`. The L2 client credits fees
(`Credit`).

**ResourceMetering.** `metered` is a deposit; it updates the fee if the block is new, by the closed
form `cdexp` if blocks were skipped, and counts the gas. The fixed-point power may fall short of a
whole number by less than one, so `cdexp` is a set. `setResourceConfig` and `setGasLimit` are the
owner's transactions and may come between any two deposits.

**MigrationScripts.** Both scripts are lists of blocks (`Blocks`), and `Code` says of a block when
there is something to do (`due`), what it waits for (`until`) and what it asserts then (`checks`). A
script with the controller's key sends (`Send`: gas is estimated, so a call that would revert throws)
and waits for the receipt without looking at its status (`Mined`, `Revert`); without the key it asks
(`Ask`), and people send what was asked for when it works, at any later time and perhaps again
(`Mine`). It throws, times out (`GiveUp`) or is killed, and the next run finds its place by reading
the chain. `needsProxyTransfer` is the one local variable that outlives a look at the chain.
`Procedure` is how the operator runs them: phase by phase by their own tags, or both by the tag they
share. `CallOff` is `exit1` with a `finalize` to follow, as the message of 020 has it. Step 5's checks
throw in every migration: they want the messenger of the L1 standard bridge, which an initializer
would set that step 5 does not call. A new run sees that the step is over and goes on.

**DeployScripts.** A script is a record: what it deploys or installs, what it looks up, refuses
and asserts, and whether it waits. The table lists them file by file. A command has a set of tags,
none for all scripts; `Following` is hardhat-deploy's order, `Deploy`, `HasIt`, `Receipt` and `Checked` are `deploy`: a deployment that is recorded
is not made again, and its assertions run only when it was made in this run. Transactions of a
killed run stay in the `mempool`. The operator follows a plan of commands (`RunPlanned`), runs a script
by its own tag when the plan's threw (`RunMissing`), corrects the configuration, repeats, and runs
things out of order (`RunOther`). A contract is named by the script that made it. Addresses
written into scripts (219, 233) are taken for those of the contracts they stand for. hardhat-deploy's
own recovery of pending transactions is not modelled: a killed deployment is made again, elsewhere.

**CheckL2.** A question is a pair of a contract and a fact; `check` and `checkPredeploys` are the
sequences of them. The network has nothing or one thing wrong, or answers as the contracts of this
repository do (`OfThisRepository`), and may be upgraded between two questions; `upgraded` records
whether the version had been read by then. All that such an upgrade gets past the task is that version
(`Overtaken`).

**InvariantDocs.** A line is of one of seven kinds, which is what the regular expressions tell
apart, and `parse` is the loop with its two inner loops and its skipped lines. `Write` writes one
file. Tests are edited between runs, and the script may be killed between two files.

## The runs

All runs are exhaustive within the bounds of their `.cfg`. Deadlock is checked in `queue`, `portal`,
`bridge`, `yield_manager` and `usd_bridge`, where a clock that has reached its bound stands still and a
queue or a supply at its bound leaves transactions that change nothing or less. The others may really
stop: messages are all delivered or refused for good, a plan is carried out, a script has thrown.

| run | question | bounds |
|---|---|---|
| `queue` | one hint per finalized request, both searches agree with the definition, locked balance covers all claims, hints never go stale, a request pays once | 4 requests of 1 or 3, up to 4 batches at prices below, at and above one (the last is refused); a base of 4 makes every kind of rounding occur |
| `portal` | the portal's properties under calls nested in the target's | 2 withdrawals of different value, with one output that holds one and one that holds both; 2 outputs; 5 seconds; period 1; prices below, at and above one; one deposit or donation |
| `bridge` | block numbers and times increase; the lookup returns the first match; finalized outputs are append-only (refinement); the whole path delivers a withdrawal at most once and only if it was sent (refinement) | one withdrawal without ether (ether plays no part), 3 outputs, period 2, 9 seconds: outputs of each age exist side by side, and an output can be replaced and outlive the period; starting points above and below each other |
| `yield_manager` | books balance; locked is held and pending matches requests; no advantage in being early | one Lido-like provider with 2 unstake requests, claimed in batches of one or both as its protocol answers them; insurance with funds, 2 withdrawals, supply 4, base 8; more unstakes than one batch has are for `MoneyIsHeldOrRequested` |
| `usd_bridge` | every USDB is backed; the manager implements the queue (refinement) | one DSR-like provider, DAI, a token with a conversion, refused recipients on each side, 3 messages of 1 or 2, supply 2, base 3, 2 requests |
| `messenger` | at most one delivery (refinement), ether of failed messages is held, replays pay what arrived, the sender is the innermost message's, nothing is lost but for three reasons | three messages each way: with and without ether, of two senders, one migrated and one for an unsafe target; targets fail, succeed or replay any message |
| `ledgers` | tokens: totals match accounts, claimable is earned, supply is covered, a report reaches holders; gas: it holds what it owes, seconds pay once, a minimum rate is met; metering: a block sells no more than it may, the closed form agrees with steps; ERC721: escrow is held, one claim per token | two holders, allowances for one, USDB supply and yield 7, WETH over ether 5, price from 2; two interchangeable contracts, 2 ether credited, 2 seconds, ceiling at 4 and 3 seconds, rates in quarters; three configurations, 5 blocks, purchases of 0, 1 and 3; 4 messages, 2 collections, 2 compliant L2 contracts for one of them and a foreign one, a user and a recipient that takes no tokens |
| `migration` | no contract stranded; one system at a time; no script waits in vain; the migration ends | three people, any of them deployer, controller and final owner; fresh and upgraded networks; 2 ether; scripts run by phases and killed once, time-outs, throws and restarts without bound; without scripts any transactions in any order |
| `scripts` | what is installed is recorded; the plan is carried out; `check-l2` overlooks nothing; documents are current | plans of 16 commands for L1 and 25 for L2, one of which publishes addresses without waiting and then upgrades the bridge through one of them; two mishaps (a kill, a repetition, a script out of order); one thing wrong and one upgrade; three tests of two contracts, one edit and one kill |
| `relay_reverts`, `rerun`, `deploy_command` | see [disagreements](#disagreements-with-the-documents) | as `messenger`, `migration` and `scripts`; the tag shared by 020 and 021; all scripts at once |

The contracts of `ledgers` are interchangeable for the gas, and its initial states, actions and
properties name none of them, so their symmetry is used there. The fairness of that run is none: its
one temporal property is an action property.

**Liveness and fairness.** Two properties say that something happens: `MigrationEnds` and
`PlanCompletes`. Nothing in the contracts makes anyone send a transaction, so no liveness is
claimed of them; in its place are properties that say a step is *possible* in every state that asks for
it (`ClaimNeverBlocked`). Scripts are different: they run to move things on. `ScriptsFairness` is weak
fairness of the operator who starts the script again, of the script's own steps (a node process),
and of each transaction sent or asked for while it stays possible. `DeployFairness` is the same for
mining, for a run and for the operator's plan. Giving up, being killed, calling the migration off and
using the legacy bridge are never forced, and time-outs are not bounded: `MigrationEnds` holds even if
every wait but finitely many ends in one. That fails for `Procedure = "SystemDictatorSteps"`, which is
the finding `rerun`.

What the properties are aimed at is listed, hazard by hazard with its line, in `PROJECT.json`.
Each property is also run against a plausible bug in the code (operators named
`<definition>_<bug>`, just before the definition they replace), which it must detect.

## The proofs

TLAPS checks these for every value of the constants that satisfies the named assumptions, which
stand beside the constants (`OracleAssumption`, `QueueAssumption`, `PortalAssumption`, `ManagerAssumption`,
`BridgeAssumption`, `MessengerAssumption`, `MessagesAssumption`, `ERC721Assumption`,
`RebasingAssumption`, `WETHAssumption`, `GasAssumption`, `MeteringAssumption`, `DictatorAssumption`,
`ScriptsAssumption`, `DeployAssumption`). These say only that

* numbers are naturals, functions of withdrawals and messages have their types, and addresses of
  contracts are none of the users' or people's;
* accounts, contracts with gas and yield providers are finitely many;
* the price base, the block time, the batch of claims and the initial price of WETH are positive, the
  submission interval exceeds the block time (the constructor's `require`), the chain starts after time 0,
  insurance fees are at most `BASIS_POINTS`, the first claim rates and the first resource configuration pass the
  checks that every later one has to pass;
* a compliant contract is an L2 contract with one remote token, and DAI is not converted to DAI.

Three assumptions have no constant in them and state what a fixed table is seen to have by looking at each
of its entries, which TLC does: `TableAssumption` of `DeployScripts` about the 74 scripts (every proxy has
one script that upgrades it, and so on), and in `MC_Scripts` `QuestionsAssumption` about the questions of
`check-l2` (under every option they ask for each fact of the network, but for those the task is not about) and
`DocsAssumption` about the test files (what `parse` finds in each of their contents is what is documented there).
The theorems about the task and the generator are therefore about these questions and files, but about any number of
upgrades, edits, kills and runs.

The bounds used for TLC are constants as well, so the proofs hold for any bound. One hypothesis is
more than that: `AnySize`, in the two refinements of the queue, lifts the bounds of the *abstract* side
(`Transfers` and `Balances` are all naturals, `SharePrices` has every price up to the base). A queue that cannot
receive more than a bound is not implemented by a manager that can.

**Recursion.** Sums, binary searches and divisions are what most of these properties are about.
`RecursionTheorems` does without induction rules that take a predicate: a nonempty set of naturals has a
least member, so a nonempty set of subsets of a finite set has one from which nothing can be taken
away, and what is false of no least argument is false of none. A recursive function is a `CHOOSE` of a
solution of its equation, so that a solution exists is proved first, by joining those for smaller sets
(`SumExists`) or arguments (`LoopExists`). From this follow how a sum changes with one term or one
element (`SumChange`, `SumAdd`, `SumRemove`), with all of them (`SumLeq`, `SumPlus`, `SumUnion`), what a
loop that narrows its argument ends with (`LoopResult`), and what a step taken `n` times keeps (`Iteration`).

Oracle, queue and portal:

* **`OracleInvariant`** - `OracleInv` = types, outputs ordered by block number and by timestamp
  and none from the future. It is inductive as it stands. Ordering is what the rest needs.
* **`OracleImplementsFinalizedLog`** - the oracle refines `FinalizedOutputs` with the mapping "the
  outputs older than the period". By the ordering these are a prefix. A deletion starts at an output
  younger than the period (`FinalizedIndexKept`), hence behind the prefix. A proposal and the clock
  only extend it.
* **`IndexAfterFindsFirst`** - the search keeps everything below its range under the block and
  everything from its end on at or above it, which by the ordering is so at the start and is kept by
  either half; where the range is empty the answer is the first one.
* **`QueueInvariant`**, **`HintsStayValid`** - `QueueInv` adds to types that running totals
  do not decrease, that checkpoints are strictly increasing, start at 1 and end at or below the last finalized request,
  and that each finalized request has one valid hint. A new batch appends a checkpoint above
  all finalized requests, so older hints keep their upper neighbour or gain one beyond their request.
* **`HintsAreFound`** - the same for the search among checkpoints, in any range: the answer is the
  checkpoint at or below the request whose successor is above it, and only a batch that contains the request
  makes it a hint.
* **`RequestsPaidOnce`** - from `QueueInv`: what a batch locks and what a claim takes are naturals
  (`NominalType`, `AtPriceType`), so only a claim lowers the locked balance, and it marks its request.
* **`ClaimsAreCovered`** - `CoverInv` is `QueueInv` and the property. A batch locks the price of its
  sum, and the sum of the prices of its requests is no more, since rounding down loses more one by one than
  together; other requests keep their hints and so their price. A claim takes its own term from both sides.
* **`FinalizedWithdrawalsStayCommitted`**, **`TargetsCalledOnce`**, **`SenderIsNamed`** - `CommitInv` adds to
  `OracleInv` that a proven withdrawal is a member of the root it recorded, and the properties
  themselves. A finalized withdrawal cannot be proven again, since its output is still in place with
  its root; the output is in place since the portal waits strictly longer than the oracle allows deletion.
* **`PortalInvariant`** - `PortalInv` is types, the correspondence of requests and withdrawals, and the
  bound on payments. `PayInv` adds to `CommitInv` the invariant of the queue (`QueueInv`), the
  correspondence of requests and withdrawals, and that only finalized withdrawals have been paid for. The
  correspondence needs `CommitInv`: were a finalized withdrawal proven again, its request would be
  replaced. That no more than the value is paid follows from the price being at most one
  (`AtPriceBound`).
* **`StrandedEtherStays`** - from `PayInv`: a target is called with what the queue paid in the same
  transaction (`PaidForWithdrawal`), so the portal's own balance does not fall.
* **`NothingBlocksClaims`** - `PayInv` with `CoverInv`: a finalized request of the portal has a hint
  (`QueueInv`), belongs to a withdrawal that is not finalized (`RequestsMatchWithdrawals`), and what it is owed
  is a term of a sum that the locked balance covers.
* **`WithdrawalsAreDelivered`** - the portal with oracle, message passer and challenger implements
  `MessageDelivery`, the specification the messengers implement above it: sent is what `initiateWithdrawal`
  recorded, and deliveries are calls of the target (`callsTo`). `BridgeInv` is `CommitInv` with `BogusStayYoung`
  (next). A call of the target that fails is a delivery as well, since the withdrawal is spent. Only
  entering or failing a target delivers; that the withdrawal was sent follows as in the next theorem, and
  that it is the first call from `CommitInv`.
* **`OnlySentWithdrawalsFinalized`** - a bogus output is never older than the period
  (`BogusStayYoung`, lemma `BogusStep`), and a finalized withdrawal is in an output that is.

Yield manager and USD bridge:

* **`ManagerInvariant`**, **`BooksBalance`**, **`MoneyIsHeldOrRequested`** - `ManagerInv` is `CoverInv`, types, that
  pending balances are the sums of unstake requests not claimed (`RequestsAddUp`), and the balance sheet
  (`Backed`). Finalizing a batch takes from the losses what the discount takes from the requests; a
  report adds to `l2Supply` and to the losses exactly what the hooks and the netting leave of the
  yields, whatever the insurance takes or pays. The report is one action of a dozen assignments, and its
  proof follows the code in that order, provider by provider and then as sums.
* **`BeingEarlyGainsNothing`** - the price `p` is the value over the value and the losses, rounded
  down. A batch takes what it pays from the value and the discount from the losses, and pays no more than
  `p` times the requests, so `p` still fits (`PriceAfterBatch`); where losses would go below zero the price is one.
* **`ManagerImplementsQueue`**, **`BridgeImplementsQueue`** - each operation of the manager is a step of
  `WithdrawalQueue` or leaves its variables alone: deposits and hooks receive, stakes spend what is available,
  which is why no batch and no stake can touch what is locked. Under `AnySize`, see above.
* **`BridgeInvariant`**, **`USDBIsAccountedFor`**, **`BridgeKeepsManager`** - `BridgeInv` adds to
  `ManagerInv` that pending messages carry naturals and that `l2Supply` is what exists, what is reported and what
  is under way. Each action of the bridge is one of the manager's with a message posted or handed
  over (`BridgeKeepsManager`), and changes one term of that sum.

Messengers and ERC721:

* **`MessengersDeliver`**, **`SenderIsInnermost`**, **`MessagesAreKept`** - `MessengerInv` adds to types
  what runs (`RunningOK`: on L1 one message at most; on L2 exactly the locked ones, each once; none
  that was delivered) and what the maps record (`RecordsOK`). The two ends need different arguments:
  on L1 the sender in storage says that something runs, on L2 the lock does. A delivery is the return
  of a target; until then its message is running, hence not delivered and not delivered elsewhere.
* **`EtherIsAccountedFor`** - `EtherInv` adds to the property that failed messages are finitely many,
  that on L1 they were handed over before, and that a replay sends what arrived. A relay moves one message
  into or out of the sum, with the ether that arrived with it.
* **`EscrowIsHeld`**, **`TokensAreClaimedOnce`** - `EscrowInv` adds to the property that messages are
  numbered as they are sent, so that each has a body of the right form. A deposit needs a token that a user
  owns, hence one that is not marked; a payment removes the only mark of the token it gives away.
  `ClaimInv721` adds that what is not sent is not delivered: then the claims on a token split into
  messages each way and the token on L2, and every action moves one from one part to another.

Ledgers:

* **`SupplyStaysBacked`**, **`WETHStaysSolvent`**, **`HoldersGetTheYield`** - `RebasingInv` is types, that the totals
  in the book are the sums over its accounts, and that claimable yield is what was earned. It is proved of the book's
  operators first (a deposit, a withdrawal, a change of mode each keep the totals and move a balance by
  their amount), then of transactions. `USDBInv` and `WETHInv` add the property itself. For
  WETH it needs that shares of native ether keep the value put into them (`NativeKeepsValue`) and that a
  report raises the price by whole steps of the contract's surplus, leaving less than a step (`ReportOK`).
* **`GasKeepsItsBooks`** - `GasInv` adds that the rates are valid and no parameters are from the future. A
  claim divides by the seconds it redeems, and what it pays is at most its share of the account.
* **`DepositsAlwaysFit`** - `MeteringInv` adds that the configuration is sane, and that the meter of the
  current block has counted what was bought.
* **`DecayAlwaysSteps`**, **`DecayStaysStepping`** - two recursions are compared, powers and steps, each with the
  values its equation gives (`Iteration`). A step takes the fee times one less than the denominator over the
  denominator, rounded up; powers round once at the end, down. So by induction on blocks, as the least block for
  which it fails, the steps are ahead by less than one for each; clamping at both ends brings them nearer.
  The model lets the fixed-point power fall short by at most one where it is exact (`cdexp`), which is what 18
  digits allow as long as fees are small against 10^18; that the library is so precise is not proved.
* **`AccountsAlwaysAdd`**, **`SupplyStaysCovered`**, **`GasStaysCovered`**, **`BlocksAlwaysFit`**,
  **`TokensKeepOneClaim`**, **`YieldAlwaysReachesHolders`** - the same for `LedgersSpec`, in the form in
  which the run `ledgers` checks them (`LedgersInv`).

Migration:

* **`NothingIsStranded`**, **`MigrationIsAtomic`** - `MigrationInv` adds to both properties where the
  legacy ether is (`EtherByStep`) and what is installed at each step (`InstalledByStep`): the
  messenger `exit1` would bring back has its entries and its bridge, as step 3 removes the
  entries, step 5 replaces the bridge, and `exit1` works at step 3 only, before either.
* **`ScriptsAreSafe`** - the same for `ScriptsSpec`. A step of a script, its operator or a user is a
  transaction that anybody could send, or leaves the chain alone (`ScriptsOnlySend`), and
  `MigrationInv` holds where the scripts start, with the portal installed already (`ScriptsStart`).
* **`NothingIsAwaitedInVain`** - under the hypothesis that the operator runs phase by phase, without which it is
  false (`rerun`). The property is not inductive: that a transaction works when it is waited for depends on what
  earlier runs left in the mempool or with people. `WaitingInv` adds to `MigrationInv` that nothing was asked for
  before its step (`ChainInOrder`, with `Earliest`), what 020 has dealt with at each of its blocks (`At020`, with
  `Dealt`), that 021 reaches no block before its step and while it waits for one step the next has not been asked
  for (`At021`), and that what was sent is under way until it has done its work (`Underway`). There is a
  lemma for each step of a script, and for transactions two: those that leave the step as it is
  disturb no script (`QuietInv`), the four others were sent when their step had come (`MineInv`). What reverts
  has been done by another one like it (`RevertInv`). From `WaitingInv` follows that what is missing
  would succeed now (`WouldSucceed`, `OwnersCan`). Whether a transaction would succeed (`Succeeds`) is written out,
  guard by guard, as the guards of the dictator's operations.

Deployment, `check-l2` and `invariant-doc-gen`:

* **`RecordsNameWhatRuns`** - `DeployInv` adds to `InstalledIsRecorded` that what a transaction in the mempool is
  to install is what is recorded (`MempoolOK`), that a script waits for the last transaction only, and that
  what is being deployed is not recorded yet (`NotYetRecorded`). Hence a record is written once, and a
  transaction that is mined long after its run was killed still installs what the record names.
* **`CheckOverlooksNothing`** - `CheckInv` adds to types that each question of the task is still to be asked, has
  the answer expected, or is for the version of a predeploy upgraded after it was read (`Covered`). An upgrade
  brings a good implementation, perhaps of another version, so no other answer gets worse. That the task has a question for everything is `QuestionsAssumption`.
* **`DocsBecomeCurrent`** - `DocsInv` adds to types and the property that, as long as nothing disturbs a run, what is
  left to write is of tests there are, each once, and each file written has the rest of its contract's (`RunOK`).
  After a kill or an edit nothing is claimed until the next run. That reading a file finds what it
  documents is `DocsAssumption`.

Only model-checked: liveness (`MigrationEnds`, `PlanCompletes`), which is out of the prover's reach, and the
three counterexamples.

## Disagreements with the documents

Three are shown by runs that end in a counterexample:

* `relay_reverts`: relaying is documented never to revert. On L1 it does if a message with ether
  arrives with none, which rounding a discount can bring about (one wei is enough). The withdrawal is
  spent and the message is in neither map, so it cannot be replayed.
* `rerun`: 020 says that proxies need not be transferred once the migration is beyond step 4, and then
  waits until the dictator owns them (`deploy/020:147`). Run by the tag `SystemDictatorSteps`, which
  020 and 021 share, and run again after step 4, it waits for owners that belong to `ProxyAdmin`
  for good, times out, and never reaches 021. Phase by phase the migration ends.
* `deploy_command`: `README.md:95` gives one command to deploy the L1 contracts. 010 passes an argument
  to a constructor without parameters and throws in every run (013 would as well, with four).

The others can be read off the models or the code and have no run of their own:

* The checks that are to make a configuration sane (`SystemConfig.sol:259`) accept a denominator of
  1 (`:271`), after which a deposit that follows a block without one takes the logarithm of zero
  and reverts.
* `invariant-docs/PatexPortal.md` promises that a withdrawal can always be finalized once its period
  is over. One with ether also waits for the admin to finalize its batch (the claim in
  `enterTarget`), however long that takes.
* The comment on `pause()` says that deposits are paused. `depositTransaction` does not look.
* `xDomainMsgSender` at its default is documented to mean that no message is being executed. On L2
  a nested relay resets it under the outer message (`leave`).
* The documented bound on the rise of the base fee per block, `1/denominator`, leaves the
  elasticity out. As deployed (10 and 8) a full block more than doubles the fee.
* `StandardBridge.sol:232` and `:263` say that tokens bridged to a wrong counterpart are returned, and
  `ERC721Bridge.sol:114` speaks of a refund. Nothing returns them: the call reverts on arrival, its
  message stays pending, and the deposit stays where it is.
* `L1StandardBridge` and `L2StandardBridge` never initialise their messenger; the deposits map of
  `StandardBridge` is not reached through `L1PatexBridge` and `L2PatexBridge`.
* `findCheckpointHints` is documented to need sorted ids. It also reverts if an id without a hint is
  followed by another one, since 0 becomes the start of the next search.
* Step 5 of the dictator is announced to initialise all Bedrock contracts and the portal
  (`deploy/021:234`). The portal's part is commented out, yet the step donates ether through the
  portal: if nobody upgraded it before `ProxyAdmin` was handed over, step 5 reverts and `finalize` is
  the only way on.
* `finalize` of the dictator has no guard on the step or on an earlier call. That this does no harm is
  what `NothingStranded` shows.
* `liveDeployer` (`src/deploy-utils.ts:365`) overwrites what `disabled` chose, so
  `DISABLE_LIVE_DEPLOYER` has no effect.
* 021 checks after step 5 that the L1 standard bridge has its messenger (`deploy/021:284`). No
  initializer sets it, so the check throws in every migration (`Step5Checks`), once.
* 011 asserts a getter that is named `OHTER_BRIDGE` in `StandardBridge.sol:192` and a messenger that is
  not set. It throws when it deploys and never again, since a recorded deployment is not checked.
* 019 transfers the dictator's proxy by `transferOwnership`, which `Proxy` does not have (`:182`). In the
  run that initializes the proxy a `return` inside the loop that checks the configuration skips it;
  in later runs it throws if the controller is not the deployer.
* The tag `PatexMintableERC20FactoryImpl` is that of 014 and of 109, and 014 makes and records a contract of the same
  name; the tag `l2` throws at 101, which asks for a name nobody records. So the scripts
  of tag `l2` are run one by one, and the L2 factory not at all.
* 209, 210, 211, 218, 231, 233 and 238 end before their transactions are mined. No script sets `USDB`
  in `Postdeploys`; 219 publishes addresses written into it.
* 106 to 108 come in pairs, and in a run without a tag the one with a recipient written into it
  pre-empts the configured one.
* `check-l2` is to check for a correct migration (`tasks/check-l2.ts:657`), but throws on the
  contracts of this repository: the L2 messenger has version 1.7.0 and another initializer count, and the L2
  standard bridge misnames its getter (`OfThisRepository`). `REMOTE_CHAIN_ID` is compared with a
  number as an object and so always accepted, and whose the proxy of `ProxyAdmin` is is not asked.
* `contracts/test/invariants` does not exist in this repository, so `invariant-doc-gen` throws at once
  (`Throw`) and what is documented cannot be brought up to date with it. A comment that
  directly follows an invariant's is passed over, and files of removed tests stay.
* `tasks/update-dynamic-oracle-config.ts` calls `updateL2OutputOracleDynamicConfig`, which the dictator
  does not have.

## What is not modelled

* Gas, calldata limits and the revert that serves gas estimation: they only reject calls. A
  message relayed on L1 may fail for lack of gas; the gas sent along to L2 is taken to be enough.
  The gas burnt as the price of a deposit is left out.
* The L2 client: native balances in shares, yield modes of contracts, credits for gas are as the
  contracts use them.
* Encodings, hashes and Merkle proofs, which are replaced by membership and by distinct values.
* Overflow of 128-bit amounts: the sums of all ether or USDB stay far below.
* `reportStakedBalance`, which the owner sets for each token of the bridge
  (`L1PatexBridge.sol:255`, `:283`): it is taken as the token demands, set for stETH, whose provider counts
  it as staked, and unset for USD tokens, which become DAI in the manager's hands. Set otherwise, the next
  report would take a deposit of stETH for yield, or a deposit of DAI for a loss.
* Several providers in one report: the model allows any set of them, the runs have one each.
* An insured report with a loss of the DSR reverts, as the insurance pays the manager and not the
  stake; the model keeps the revert. The value of the DSR does not fall except by rounding.
* Testnet providers, the owner's role changes, payments by the insurance's admin.
* Of the dictator: the data of initialisers, the flag that marks an upgrade, owners who give their
  contracts to third parties.
* Of the scripts: arguments (counted, not compared), gas prices, `awaitCondition`'s intervals,
  formatting and links; hardhat-deploy's recovery of pending transactions; a chain that reorganizes.
* The other tasks, configuration tables and build scripts: printing, and single passes that keep
  no state.
* The components in the plan below, and for good: fee vaults, `L1Block`, token factories,
  governance, vendored code, which have no behaviour of their own beyond single assignments.

## Plan

Done: the oracle, the queue, the portal, their composition, the message passer with a challenger,
the yield managers, the messengers, the bridges over them, the rebasing tokens, gas, metering with
its configuration, the migration with its scripts, the deployment scripts, `check-l2`,
`invariant-doc-gen`; the theorems above.

Left, in this order:

1. An abstract specification of a withdrawal's life with its waiting (proven, ready), beside `MessageDelivery`,
   which knows only sent and delivered.
2. The inclusion proofs (`MerkleTrie`, `RLPReader`) as pure algorithms against reference definitions.
3. `MintManager`, `FeeVault`, ownership across chains, `burn` of the message passer.
4. A run with a delayed and an immediate provider in one report.
5. Proofs: what the specification of item 1 asks for.
