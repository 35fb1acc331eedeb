--------------------------- MODULE SolanaCwContract ---------------------------
(***************************************************************************)
(* The CosmWasm light-client contract of                                   *)
(* light-clients/icsxx-solana-cw/src/contract.rs, as the 08-wasm host      *)
(* drives it: VerifyClientMessage, then UpdateState with the header.       *)
(*                                                                         *)
(* State: the client state stored for client 08-wasm-0 (its latest         *)
(* height), the consensus states stored per height and the host clock.     *)
(* A header is abstracted to its height and the commitment root it         *)
(* carries; the root of the counterparty chain at each height is           *)
(* TrueRoot, and any other root is forged.                                 *)
(*                                                                         *)
(* The tendermint client's update_state and the contract helper            *)
(* prune_oldest_consensus_state are outside src/; they are modelled by     *)
(* what the IBC tendermint client does (spec_modelled in PROJECT.json).    *)
(* Process_message variants that return success without touching storage *)
(* (VerifyMembership, VerifyNonMembership, CheckSubstituteAndUpdateState,  *)
(* VerifyUpgradeAndUpdateState) and those that panic (CheckForMisbehaviour,*)
(* UpdateStateOnMisbehaviour) change no state and are not steps.           *)
(***************************************************************************)
EXTENDS Naturals, FiniteSets, FiniteSetsExt, TLC

CONSTANTS
    Heights,          \* revision heights a header may carry
    Roots,            \* commitment roots a header may carry
    TrueRoot,         \* height -> root the counterparty committed at that height
    HeaderTime,       \* height -> timestamp of the header at that height
    TRUSTING_PERIOD,  \* client_state.trusting_period
    InitHeight,       \* latest height of the client state the host created
    MaxNow            \* bound on the host clock

VARIABLES
    clientState,      \* stored client state: [latest_height]
    consensusStates,  \* height -> [root, timestamp]
    now               \* host timestamp

vars == <<clientState, consensusStates, now>>

Headers == [height : Heights, root : Roots]

\* ConsensusState::from(header): the header's root and time.
ConsensusFromHeader(hd) == [root |-> hd.root, timestamp |-> HeaderTime[hd.height]]

\* Bug variant: the latest height incremented past the header's.
WithHeaderIncremented(cs, hd) == [cs EXCEPT !.latest_height = hd.height + 1]

\* The tendermint client's update_state: client_state.with_header(header),
\* which sets latest_height to the header's height, and a Single
\* consensus state for the header.
WithHeader(cs, hd) == [cs EXCEPT !.latest_height = hd.height]

\* ClientState::expired(now - timestamp).
ConsensusExpired(c, t) == t - c.timestamp > TRUSTING_PERIOD

\* prune_oldest_consensus_state: the consensus state at the lowest height
\* is deleted when it has expired.
PruneOldestConsensusState(css, t) ==
    IF DOMAIN css = {} THEN css
    ELSE LET oldest == Min(DOMAIN css)
         IN  IF ConsensusExpired(css[oldest], t)
             THEN [h \in DOMAIN css \ {oldest} |-> css[h]]
             ELSE css

\* ExecuteMsg::VerifyClientMessage: returns success without verifying.
VerifyClientMessage(hd) == TRUE

\* Bug variant: the consensus state stored at the height the client had
\* before the update.
StoreHeightBeforeUpdate(old, cs) == old.latest_height

\* let height = cs.latest_height(): where the Single consensus state goes.
StoreHeight(old, cs) == cs.latest_height

\* Bug variant: the client state stored whatever its height.
StoreClientStateAlways(old, cs) == cs

\* The client state is stored only when its revision height grew.
StoredClientState(old, cs) ==
    IF cs.latest_height > old.latest_height THEN cs ELSE old

\* ExecuteMsg::UpdateState: read the client state, prune the oldest
\* consensus state by the host time, run update_state, store the
\* consensus state, store the client state if its height grew.
UpdateState(hd) ==
    LET old    == clientState
        pruned == PruneOldestConsensusState(consensusStates, now)
        cs     == WithHeader(old, hd)
    IN  /\ consensusStates' = (StoreHeight(old, cs) :> ConsensusFromHeader(hd)) @@ pruned
        /\ clientState' = StoredClientState(old, cs)
        /\ UNCHANGED now

\* QueryMsg::Status: the contract answers "Active" whatever its state.
Status == "Active"

\* The host's client update: VerifyClientMessage, then UpdateState.
Update(hd) == VerifyClientMessage(hd) /\ UpdateState(hd)

Tick == now < MaxNow /\ now' = now + 1 /\ UNCHANGED <<clientState, consensusStates>>

\* The host created the client and its consensus state at InitHeight
\* before instantiate; instantiate records processed height and time,
\* which no modelled operation reads.
Init ==
    /\ clientState = [latest_height |-> InitHeight]
    /\ consensusStates = (InitHeight :> [root |-> TrueRoot[InitHeight],
                                         timestamp |-> HeaderTime[InitHeight]])
    /\ now = HeaderTime[InitHeight]

Next == (\E hd \in Headers : Update(hd)) \/ Tick

Spec == Init /\ [][Next]_vars

(***************************************************************************)
(* Properties.                                                             *)
(***************************************************************************)

TypeOK ==
    /\ clientState \in [latest_height : Heights]
    /\ DOMAIN consensusStates \subseteq Heights
    /\ \A h \in DOMAIN consensusStates :
          consensusStates[h] \in [root : Roots, timestamp : {HeaderTime[k] : k \in Heights}]
    /\ now \in 0..MaxNow

\* Headers are applied in any order, old ones after new ones included, and
\* no consensus state is ever stored above the client's latest height: the
\* height a state is stored at and the client state's height move together.
NoConsensusStateAboveLatest ==
    \A h \in DOMAIN consensusStates : h <= clientState.latest_height

\* Every stored consensus state is the counterparty's state at its height:
\* the root committed there and the time of the header at that height,
\* whatever the order of updates and prunes.
ConsensusStatesMatchChain ==
    \A h \in DOMAIN consensusStates :
        consensusStates[h] = [root |-> TrueRoot[h], timestamp |-> HeaderTime[h]]

\* A client the contract reports Active (query Status) still holds the
\* consensus state at its latest height, which the host reads for proofs
\* and for the client's timestamp, whatever the order of headers and the
\* time they arrive at.
ActiveClientHasLatestState ==
    Status = "Active" => clientState.latest_height \in DOMAIN consensusStates

=============================================================================
