# TLA+ models of the composable-ibc light clients

This directory holds TLA+ models of the light-client code in `src/`, checked with TLC.
The main subject is the GRANDPA parachain light client
(`src/light-clients/ics10-grandpa/src/client_def.rs`). It is the only stateful
protocol code in the repository.

## 1. The system

| Part | Source | State | Operations |
|---|---|---|---|
| GRANDPA client state machine | `client_def.rs` 78-457 | `ClientState` (para_id, latest relay hash and height, latest para height, frozen height, `authorities_changes` ledger); consensus states stored by the host per para height; the host's known-relay-hash set; the host clock | `verify_client_message` (Header, Misbehaviour), `update_state`, `check_for_misbehaviour`, `update_state_on_misbehaviour` |
| Authority-set ledger | inside `update_state` (352-386) and the `get_authorities` closure (216-229) | `authorities_changes`: entries (height, timestamp, set_id, authorities) | insert a scheduled change, prune by age with a retention floor, sort by height, look up by height |
| GRANDPA client upgrade and membership checks | `client_def.rs` 459-797 | reads `ClientState` and the stored consensus states | `verify_upgrade_and_update_state`, `verify_*` (height, delay, Merkle proof) |
| Solana CosmWasm client contract | `icsxx-solana-cw/src/contract.rs` | the wasm client's client state and consensus states | `process_message`: UpdateState (prune, update, store), plus verification stubs |
| Solana consensus-state conversion | `hyperspace/solana/src/consensus_state.rs` | none | per `AnyConsensusState` variant: a Tendermint timestamp split into seconds and nanoseconds and back, a Mock header's height and time copied, other variants a panic |
| Relayer chain interface | `src/src/chain.rs` | none | trait declarations only |

**How they interact.** A host chain runs the IBC 02-client handler, which is not in `src/`.
For each header or misbehaviour message a relayer submits, the handler does the following:
1. It rejects the message if the client is frozen.
2. It calls `verify_client_message`.
3. It calls `check_for_misbehaviour`.
4. If that returns true, it calls `update_state_on_misbehaviour`. Otherwise it calls `update_state`.
5. It stores the client state and the returned consensus states.

An upgrade message goes to `verify_upgrade_and_update_state` without the frozen check: spec.md 4.6.5 and 8.3 make the upgrade the one way out of a frozen state.
The Solana CosmWasm contract is driven by the 08-wasm host in the same way, through `execute` → `process_message`; the relayer converts Solana consensus states with `consensus_state.rs`.

Relayers are untrusted. A message may be built from any relay headers the relayer holds, forged headers included. It may be sent at any time, repeated, or sent out of order.

Verification relies on helpers of the `grandpa-client-primitives` crate, which is not in `src/`:
- `AncestryChain`, `find_scheduled_change`, `find_forced_change`;
- GRANDPA justification checks.

The models take these from spec.md 4.1-4.2.

**What is hard.** None of these cases is likely to be covered by a unit test:
- Messages come in arbitrary order, repeated, and mixed with attacker-made headers. An attacker-made header has no justification but can sit in `unknown_headers`.
- Authority-set hand-overs must be tracked from headers only.
- The ledger is pruned by time, but must keep a floor of recent entries.
- Heights are resolved by binary search.
- The misbehaviour check must accept only real equivocations. It must still accept every real equivocation.
- The client must keep following the relay chain.

**Correctness.**
1. Consensus states are only those of finalized canonical relay blocks.
2. The para-height cursor is the highest stored height.
3. The known hashes are finalized.
4. The ledger is sorted, keeps its floor, and resolves the right authority set for the blocks still ahead.
5. A freeze happens only on real evidence: a forced change in the chain, or one set signing two forks.
6. Every equivocation anchored at a known block can be proven.
7. The client follows the chain while an honest relayer is active.
8. Cursors never move back; the misbehaviour verdict does not depend on the order of the two proofs (spec 8).

## 2. Modules

- `RelayChain.tla` is the relay chain the client sees.
  - The CONSTANTS describe a fixed tree of headers (hash → parent, number, digests, para head). A canonical branch is marked in the tree.
  - Authority sets and which headers each set can justify are derived from these constants. Sets in `FaultySets` can sign anything.
  - The module also holds the primitives helpers `Ancestry`, `FindScheduledChange` and `FindForcedChange`, modelled from the spec.
  - `Ancestry` lists the route from the target back to the base, both included. `update_state`'s check `target.number == latest_relay_height + finalized.len() - 1` forces this convention.
- `GrandpaClient.tla` is the client state machine and its 02-client driver.
  - Variables: `clientState` (the `ClientState` record), `consensusStates` (para height → para head), `knownRelayHashes` (the host's known set), `now` (the host clock).
  - Actions, each a whole handler:
    - `UpdateClient(m)`: a Header that verifies and is not misbehaviour: all of `update_state` followed by the store;
    - `FreezeOnHeader(m)`: a Header that `check_for_misbehaviour` flags;
    - `SubmitMisbehaviour(m)`: a Misbehaviour message that verifies;
    - `UpgradeClient(u)`: `verify_upgrade_and_update_state` (height check, the two proofs against the stored root, `mixed_upgrade_client_state`) and the store of the new consensus state;
    - `Tick`: the host clock.
  - A message whose handling returns an error changes nothing, so it is not a step.
  - The `~Frozen` guard of the update and misbehaviour actions is the 02-client host's status check, not code of `client_def.rs`; no property restates it.
  - Messages: `HeaderMsgs` and `FinalityProofs`. A message is any path of relay headers up to a target plus any subset of attacker headers, naming up to `MaxParaProofs` parachain-header proofs. A finality proof carries a justification that exists. Upgrades are `UpgradePlans`: the para head the plan was committed in, the client fields it sets, its consensus state.
  - Helpers follow the code: `PruneAuthoritiesChanges`, `SortByHeight`, `InsertScheduledChange`, `GetAuthorities` (the binary search with its insertion point), `VerifyMisbehaviour`, `CheckForMisbehaviour`, `NewConsensusStates`, `TargetNumberOk`, `MixedUpgradeClientState`. `AuthoritiesAt` is the spec's lookup, used by header verification.
  - `Abstract` instantiates `AbstractParachainClient` with the refinement mapping: height ← `latest_para_height`, heads ← `consensusStates`, frozen ← `frozen_height` (with `NoHeight` for None), finalized heads ← the para heads of canonical headers, upgrade heads ← the plans.
- `AbstractParachainClient.tla` is what a parachain client promises (spec 2 and 8): `Advance` stores finalized heads above the height and moves it to the highest; `Freeze` records the latest height as the frozen height; `Upgrade` raises the height, stores the committed head and unfreezes. Relay cursors, the ledger and the known hashes have no abstract counterpart.
- `MC_GrandpaClient.tla` defines the environment:
  - canonical blocks `g ← b1 ← b2 ← b3 ← b4`;
  - scheduled changes with delay 0 in b2 and b3, so set 0, then 1 from block 3, then 2 from block 4;
  - para heads p0, p1, p2, p2 (b3 repeats b2's head), p3;
  - attacker header `x1`, a child of b1 with a forced change and a conflicting para head at height 1;
  - attacker header `x2`, a child of b2 with a conflicting para head at height 2;
  - fork `f2`, a child of b1 at number 2, used only where a faulty set 0 signs it;
  - two upgrade plans: one committed in p2 to height 3 with a fresh ledger, one committed in p3 to height 1 (rejected by the height check).

  Each `.cfg` picks blocks and parameters from these.
- `SolanaCwContract.tla` is `process_message` of the CosmWasm contract. Variables: `clientState` (latest height), `consensusStates` (height → root, timestamp), `now`. `Update(hd)` is the host calling `VerifyClientMessage` (a stub: `TRUE`) then `UpdateState`: prune the oldest consensus state if expired, `with_header`, store the consensus state at the new latest height, store the client state only if its revision height grew. `Status` is the `query` arm that always answers "Active". A header is a height and a root; `TrueRoot` is what the counterparty committed. The tendermint `update_state` and the helper `prune_oldest_consensus_state` are outside `src/` and taken from the IBC tendermint client.
- `GrandpaMembership.tla` models the eight membership functions of `client_def.rs` (595-797) as the host's connection, channel and packet handlers call them.
  - It EXTENDS `AbstractParachainClient` rather than `GrandpaClient`. The client state a proof is checked against is the abstract one: latest height, stored heads, frozen height. `client_safety` checks (RefinesAbstractClient) that GrandpaClient implements it, and the full client's step relation is too slow to compose with the host's delay records and liveness.
  - `verify_height` is `h <= height /\ ~(frozen # NotFrozen /\ frozen <= h)`, over the client's own frozen height. The refinement checks that GrandpaClient freezes at its parachain cursor and keeps that height until an upgrade. Freezing at the relay cursor, for example, is not a step of the abstract client.
  - The host records a processed time and height for every consensus state it stores (`RecordProcessed`), for each height of an update batch and for an upgrade. `HostBlock(d)` advances them. Only comparisons against the delay are made, so each record is kept as the time and blocks elapsed, saturated at `DELAY_PERIOD_TIME` and `DELAY_PERIOD_BLOCKS`.
  - A proof is the function that checks it, a height and a claimed value. `StateOf` gives what each para head holds at each function's path, or `Absent`.
  - The four state functions call `verify_height` and `verify_membership`. The four packet functions also call `verify_delay_passed`, and receipt absence calls `verify_non_membership`. `verify_height`, `verify_delay_passed` and the trie checks are in `light-client-common`, outside `src/`, and are modelled from spec.md 4.6.6 and 8.3.
  - `AcceptProof(p)` is a handler accepting a proof, which is recorded in `lastProof`.
- `TimestampConversion.tla` holds both conversions of `consensus_state.rs` as operators: Rust's signed `%`, floor seconds, the `as u32` / `as i32` casts (two's complement at width `W`), and the `unwrap` of an out-of-range nanos as `Panic`. TLC integers are 32 bits, so `NANOS` stands for 10^9 and `W` for 32, keeping 2^(W-1) > NANOS. `NewToOldState` and `OldToNewState` dispatch on the variant as the code's `match` does. A Mock header keeps its height and its u64 timestamp, and the new `Height::new(..).unwrap()` panics at revision height 0 (`NewHeightValid`). Guest, and every old variant but Tendermint and Mock, panic. A state is a consensus state of each type the relayer fetched and the results of the two conversions.

**Open questions.**
1. `SolanaCwContract` takes the ics07 `ClientState::with_header` to set the latest revision height to the header's and keep the revision number. The ics07 crate the contract pins is not in the repository. If that version kept the maximum height instead, the lower header in `expired_client_loses_latest` would be stored at the latest height rather than below it.
2. Two hazards have no property; their notes in PROJECT.json say why: the u32 sum at `client_def.rs:206`, and the Mock revision height 0 at `consensus_state.rs:76`.

## 3. Runs

`MC_GrandpaClient` common bounds:
- MIN_COUNT = 2 and LIFETIME = 1 make the retention floor and the age pruning both bite within three clock ticks.
- `MaxNow = 3`; `MaxParaProofs = 2` lets a batch carry two para heights.
- Revision numbers {1, 2} include one para-id mismatch.

Deadlock is not checked in any run: once the client is at the tip or frozen, the plans are used and the clock is at its bound, nothing is left to do; the contract and the conversion likewise end when the clock or the conversions are done.

| Run | cfg | Expect | Checks | What it shows |
|---|---|---|---|---|
| client_safety | MC_GrandpaClient.cfg | pass (330 states, ~75 s) | TypeOK, ConsensusStatesFinalized, LatestParaHeightStored, KnownHashesFinalized, LedgerWellFormed, LedgerMatchesChain, EquivocationSymmetry, NoRewind, RefinesAbstractClient, FollowsTip, under `FairSpec` | Any order, repetition and mix of messages, attacker headers and upgrades included, keeps the stored states and the ledger consistent with the finalized chain through two hand-overs and pruning; no cursor moves back; the misbehaviour verdict is symmetric. The client implements the abstract parachain client, and with a weakly fair honest relayer it reaches the tip or is frozen. |
| forged_header_freezes | MC_ForgedHeader.cfg | violation | FreezeOnlyOnEvidence | A valid update plus one unsigned attacker header (x1, with a forced change) freezes the client. **Code bug**: `check_for_misbehaviour` (431, 447) does not restrict itself to the finalized route as `update_state` (283) does. |
| same_chain_misbehaviour | MC_SameChain.cfg | violation | FreezeOnlyOnEvidence | Honest proofs of b1 and of b2 (same chain) pass the misbehaviour check. The divergence test (173) compares the targets first, and 118 has already made them differ. |
| equivocation_missed | MC_Equivocation.cfg | violation | EquivocationsProvable | With set 0 faulty, sibling blocks b2 and f2 are both signed by set 0. After the update to b2, `get_authorities` (219) resolves height 2 to set 1 (insertion point), so the equivocation is not provable. |
| delayed_change_missed | MC_DelayedChange.cfg | violation | LedgerMatchesChain | A change with delay 1 in b2 is skipped by an update g→b3. Only the target's digest is read (352). |
| overflow_prunes_entry | MC_TimestampOverflow.cfg | violation | PruneOnlyExpired | `TimestampMax = 2` stands for the u64 bound, and MIN_COUNT = 1. The entry whose expiry overflows gets expiry 1 (369) and is pruned, contrary to spec 4.5 and the code comment. |
| contract_update | MC_SolanaCwContract.cfg | pass (172 states) | TypeOK, ConsensusStatesMatchChain, NoConsensusStateAboveLatest | Honest headers at heights 1-5 arrive in any order and repeated. The clock moves, so the oldest state expires and is pruned. No consensus state is ever left above the client's latest height, and every stored state is the chain's at the height it is stored at. |
| forged_root_accepted | MC_ForgedRoot.cfg | violation | ConsensusStatesMatchChain | A header with root `x` is stored in one step: the `VerifyClientMessage` stub (175) checks nothing. |
| expired_client_loses_latest | MC_ContractExpired.cfg | violation | ActiveClientHasLatestState | Only honest headers are sent. From the initial state at height 2, two ticks expire that state, and then an honest header at height 1 arrives. `UpdateState` prunes the expired state at 2 (191) before it stores 1, and keeps the client state at 2 (208). The client is left with no consensus state at its latest height, yet `Status` (234-235) still answers "Active". **Code bug**: nothing before the prune checks that the client is still within its trusting period. |
| timestamp_conversion | MC_TimestampConversion.cfg | pass (12100 states) | ConversionsPreserveState | Tendermint timestamps 0-40 (every sub-second value over four seconds) and far ones up to 2^30, and Mock headers at revision heights 1-2, convert both ways without panic and keep their state. Guest and other variants panic by design. |
| membership_safety | MC_GrandpaMembership.cfg | pass (2974 states, ~15 s) | TypeOK, ProvenFactsHold, PacketsEventuallyProvable, under `HostFairSpec` | Updates by batches, freezes, an upgrade, host blocks of 1-2 time units and any proof through the eight functions, in any order. Every accepted proof states what the parachain holds at its height. A packet fact at a stored height is eventually proven, whether the height came from a batch update or an upgrade, unless the client froze at or below it. |
| negative_timestamp_panics | MC_NegativeTimestamp.cfg | violation | ConversionsPreserveState | An old Tendermint state at -1.8 s: `%` keeps the sign (53), `as i32` keeps -8 tenths, and `try_into().unwrap()` (65-66) refuses the negative nanos and panics in `convert_old_consensus_state_to_new`. The new->old path (15) has the same remainder, where `as u32` wraps above NANOS and the `unwrap` (21) panics; TLC reports the first of the two it reaches. |

Each property of a passing run has a mutant in PROJECT.json, a plausible slip in one mapped definition that TLC detects: a dropped finalized-route filter; `heights.first()` for the cursor; all headers recorded as known; the retention floor off by one; `next_set_id` without +1; the relay cursor frozen instead of the para cursor; the route length taken as the number of new blocks; only the first proof's target checked; the upgrade height check dropped; `frozen_height` kept by the upgrade; the contract storing the consensus state at the old height; storing the client state unconditionally; `with_header` one past the header; the sub-second remainder taken in the wrong unit; a processed time recorded only for the highest height of a batch; a proof checked against the latest root; an upgrade that records no processed time.

**Fairness.** The only fairness assumed is weak fairness of `HonestRelay` in `client_safety`: the update by the next canonical block with its para-head proof. This is the IBC assumption that some correct relayer keeps submitting. Nothing in the client code schedules anything, so no other fairness is justified. `membership_safety` assumes weak fairness of a host block of one time unit (the host chain keeps producing blocks) and of accepting each true packet proof (a relayer keeps submitting the packets it has to relay). Updates, freezes and upgrades get no fairness.

**Bounds.** Five relay blocks give two authority hand-overs, a repeated para head and room for the ledger to be pruned past its floor; two attacker headers and one fork cover a forged forced change, a conflicting para head and an equivocation. The contract's five heights with trusting period 1 and seven clock ticks let headers arrive before, after and between prunes. The membership instance has four para heights and two values, so a proof at a lower height can name a value the latest head holds and the head at its own height does not. It has a delay of 2 time units and 1 block, so a host block of 1 unit leaves the time delay pending while the block delay has passed. Its two committed upgrades, to heights 2 and 3, are recorded separately from the batch updates and let a client freeze, be upgraded and freeze again. The conversion's scale keeps the two properties that matter: the remainder's sign and a cast width in which a wrapped negative remainder exceeds NANOS.

## 4. Not modelled

- Cryptography and encodings: signatures, BLAKE2, trie proofs, SCALE and protobuf.
  - A justification verifies exactly when its authority set is the set the client resolves.
  - A parachain-header proof always proves the head of the relay header it names; an upgrade proof verifies exactly for the plan committed in the stored head.
- Revision numbers beyond the para-id check.
- u32 overflow of block numbers (listed as a hazard).
- The host's pruning of known hashes.
- GRANDPA `check_substitute_and_update_state` is `unimplemented!()`; the contract's returns success without storing anything (spec.md 9 says Unimplemented).
- The host's processed-time records and the delay are composed with the abstract client only (`membership_safety`). The handlers' own checks (connection and channel state machines) are not in `src/`.
- Roots and validator hashes in the consensus-state conversion are copied bytes (their `try_from(..).unwrap()` on malformed lengths is not modelled).
- The contract's stub arms, its processed height/time records (written by `instantiate`, read only by the `ExportMetadata` query) and the `query` arms that panic (`ClientTypeMsg`, `GetLatestHeightsMsg`); none changes or reads modelled state.
- The relayer trait in `chain.rs` has no state.
- Liveness of the contract and of the upgrade. No code schedules either of them. Under a fairness assumption on the relayer, "every honest header is eventually stored" and "a committed upgrade is eventually applied" would hold by that assumption alone.
- An abstract specification of the contract. It would repeat `UpdateState`: the contract's only state change is that handler, and nothing in `src/` states a weaker promise.
