------------------------- MODULE GrandpaMembership -------------------------
(***************************************************************************)
(* The membership checks of the GRANDPA client (client_def.rs 595-797) as *)
(* the host's IBC handlers use them, over the client state they read.     *)
(*                                                                         *)
(* The client is the abstract parachain client (AbstractParachainClient), *)
(* which GrandpaClient refines (property RefinesAbstractClient): its      *)
(* latest height is latest_para_height, its heads the stored consensus    *)
(* states and its frozen height frozen_height (NotFrozen for None).       *)
(*                                                                         *)
(* The host records, for each consensus state it stores, the host time    *)
(* and height it was processed at (spec.md 5), and produces blocks.  Only *)
(* comparisons "now >= processed + delay" are made, so each record is     *)
(* kept as the time and blocks elapsed since, saturated at the delay.     *)
(*                                                                         *)
(* A proof is abstracted to the function that checks it, the consensus    *)
(* height it is checked at and the value it claims; the state of each     *)
(* parachain head gives the value (or Absent) at the path that function   *)
(* builds.  ClientState::verify_height, verify_delay_passed and the trie  *)
(* checks verify_membership / verify_non_membership are outside src/ and  *)
(* modelled from spec.md 4.6.6 and 8.3.                                   *)
(***************************************************************************)
EXTENDS AbstractParachainClient

CONSTANTS
    Values,               \* values a path can hold
    Absent,               \* model value: nothing stored at the path
    StateOf,              \* para head -> (function -> value at its path, or Absent)
    DELAY_PERIOD_TIME,    \* connection_end.delay_period()
    DELAY_PERIOD_BLOCKS,  \* ctx.block_delay(delay_period)
    MaxBlockTime,         \* a host block advances the host time by 1..MaxBlockTime
    NoProof               \* model value: no proof accepted yet

VARIABLES
    sinceTime,    \* height -> host time since its processed time, capped
    sinceBlocks,  \* height -> host blocks since its processed height, capped
    lastProof     \* the last proof a handler accepted

hostVars == <<height, heads, frozen, sinceTime, sinceBlocks, lastProof>>

StateFns  == {"client_consensus_state", "connection_state", "channel_state", "client_full_state"}
PacketFns == {"packet_data", "packet_acknowledgement", "next_sequence_recv", "packet_receipt_absence"}
Fns == StateFns \cup PacketFns

\* A receipt-absence proof claims that nothing is at its path; every other
\* proof claims a value.
Proofs ==
    {p \in [fn : Fns, height : DOMAIN FinalizedHead, value : Values \cup {Absent}] :
        (p.fn = "packet_receipt_absence") = (p.value = Absent)}

CapAdd(x, d, cap) == IF x + d >= cap THEN cap ELSE x + d

(***************************************************************************)
(* Checks outside src/.                                                    *)
(***************************************************************************)

\* ClientState::verify_height: not ahead of the latest height, and an
\* error if frozen_height <= h.
VerifyHeight(h) == h <= height /\ ~(frozen # NotFrozen /\ frozen <= h)

\* verify_delay_passed: now >= processed_time + delay_period and
\* host_height >= processed_height + block_delay; an error when the host
\* has no processed time or height for h.
VerifyDelayPassed(h) ==
    /\ h \in DOMAIN sinceTime
    /\ sinceTime[h] >= DELAY_PERIOD_TIME
    /\ sinceBlocks[h] >= DELAY_PERIOD_BLOCKS

\* Bug variant: the proof checked under the root of the latest consensus
\* state instead of the one at the proof height.
VerifyMembershipAtLatest(h, fn, v) ==
    v # Absent /\ height \in DOMAIN heads /\ StateOf[heads[height]][fn] = v

\* verify_membership under the root of the consensus state at h.
VerifyMembership(h, fn, v) ==
    v # Absent /\ h \in DOMAIN heads /\ StateOf[heads[h]][fn] = v

\* verify_non_membership under the root of the consensus state at h.
VerifyNonMembership(h, fn) ==
    h \in DOMAIN heads /\ StateOf[heads[h]][fn] = Absent

(***************************************************************************)
(* The client's membership functions.                                      *)
(***************************************************************************)

VerifyClientConsensusState(h, v) == VerifyHeight(h) /\ VerifyMembership(h, "client_consensus_state", v)
VerifyConnectionState(h, v)      == VerifyHeight(h) /\ VerifyMembership(h, "connection_state", v)
VerifyChannelState(h, v)         == VerifyHeight(h) /\ VerifyMembership(h, "channel_state", v)
VerifyClientFullState(h, v)      == VerifyHeight(h) /\ VerifyMembership(h, "client_full_state", v)

VerifyPacketData(h, v) ==
    VerifyHeight(h) /\ VerifyDelayPassed(h) /\ VerifyMembership(h, "packet_data", v)
VerifyPacketAcknowledgement(h, v) ==
    VerifyHeight(h) /\ VerifyDelayPassed(h) /\ VerifyMembership(h, "packet_acknowledgement", v)
VerifyNextSequenceRecv(h, v) ==
    VerifyHeight(h) /\ VerifyDelayPassed(h) /\ VerifyMembership(h, "next_sequence_recv", v)
VerifyPacketReceiptAbsence(h, v) ==
    VerifyHeight(h) /\ VerifyDelayPassed(h) /\ VerifyNonMembership(h, "packet_receipt_absence")

\* The function a handler calls for a proof of that kind.
Verifies(p) ==
    CASE p.fn = "client_consensus_state" -> VerifyClientConsensusState(p.height, p.value)
      [] p.fn = "connection_state"       -> VerifyConnectionState(p.height, p.value)
      [] p.fn = "channel_state"          -> VerifyChannelState(p.height, p.value)
      [] p.fn = "client_full_state"      -> VerifyClientFullState(p.height, p.value)
      [] p.fn = "packet_data"            -> VerifyPacketData(p.height, p.value)
      [] p.fn = "packet_acknowledgement" -> VerifyPacketAcknowledgement(p.height, p.value)
      [] p.fn = "next_sequence_recv"     -> VerifyNextSequenceRecv(p.height, p.value)
      [] p.fn = "packet_receipt_absence" -> VerifyPacketReceiptAbsence(p.height, p.value)

(***************************************************************************)
(* The host.                                                               *)
(***************************************************************************)

\* Bug variant: processed time and height recorded for the latest of the
\* new heights only.
RecordProcessedLatestOnly(H) ==
    /\ sinceTime' = [h \in DOMAIN sinceTime \cup {Max(H)} |->
                        IF h = Max(H) THEN 0 ELSE sinceTime[h]]
    /\ sinceBlocks' = [h \in DOMAIN sinceBlocks \cup {Max(H)} |->
                        IF h = Max(H) THEN 0 ELSE sinceBlocks[h]]

\* store_update_time / store_update_height for every consensus state the
\* handler stores: processed now, at the current host height.
RecordProcessed(H) ==
    /\ sinceTime' = [h \in DOMAIN sinceTime \cup H |-> IF h \in H THEN 0 ELSE sinceTime[h]]
    /\ sinceBlocks' = [h \in DOMAIN sinceBlocks \cup H |-> IF h \in H THEN 0 ELSE sinceBlocks[h]]

\* The update handler storing the batch of new consensus states.
ClientAdvance(H) == Advance(H) /\ RecordProcessed(H) /\ UNCHANGED lastProof

\* The misbehaviour handlers freezing the client.
ClientFreeze == Freeze /\ UNCHANGED <<sinceTime, sinceBlocks, lastProof>>

\* Bug variant: the upgrade handler storing the consensus state without
\* its processed time and height.
ClientUpgradeUnrecorded(u) == Upgrade(u) /\ UNCHANGED <<sinceTime, sinceBlocks, lastProof>>

\* The upgrade handler storing the upgraded consensus state.
ClientUpgrade(u) == Upgrade(u) /\ RecordProcessed({u.height}) /\ UNCHANGED lastProof

\* A new host block, d time units after the previous one.
HostBlock(d) ==
    /\ sinceTime' = [h \in DOMAIN sinceTime |-> CapAdd(sinceTime[h], d, DELAY_PERIOD_TIME)]
    /\ sinceBlocks' = [h \in DOMAIN sinceBlocks |-> CapAdd(sinceBlocks[h], 1, DELAY_PERIOD_BLOCKS)]
    /\ UNCHANGED <<height, heads, frozen, lastProof>>

\* A handler (connection, channel or packet) accepting a proof.
AcceptProof(p) ==
    /\ Verifies(p)
    /\ lastProof' = p
    /\ UNCHANGED <<height, heads, frozen, sinceTime, sinceBlocks>>

HostInit ==
    /\ Init
    /\ sinceTime = [h \in DOMAIN heads |-> 0]
    /\ sinceBlocks = [h \in DOMAIN heads |-> 0]
    /\ lastProof = NoProof

HostNext ==
    \/ \E H \in SUBSET (DOMAIN FinalizedHead) : ClientAdvance(H)
    \/ ClientFreeze
    \/ \E u \in UpgradeHeads : ClientUpgrade(u)
    \/ \E d \in 1..MaxBlockTime : HostBlock(d)
    \/ \E p \in Proofs : AcceptProof(p)

HostSpec == HostInit /\ [][HostNext]_hostVars

\* The host keeps producing blocks, and a relayer keeps submitting every
\* packet proof of a fact of the parachain while it would be accepted.
FactHolds(p) == StateOf[FinalizedHead[p.height]][p.fn] = p.value

HostFairSpec ==
    /\ HostSpec
    /\ WF_hostVars(HostBlock(1))
    /\ \A p \in {q \in Proofs : q.fn \in PacketFns /\ FactHolds(q)} :
          WF_hostVars(AcceptProof(p))

(***************************************************************************)
(* Properties.                                                             *)
(***************************************************************************)

TypeOK ==
    /\ height \in DOMAIN FinalizedHead
    /\ frozen \in DOMAIN FinalizedHead \cup {NotFrozen}
    /\ sinceTime \in [DOMAIN heads -> 0..DELAY_PERIOD_TIME]
    /\ sinceBlocks \in [DOMAIN heads -> 0..DELAY_PERIOD_BLOCKS]
    /\ lastProof \in Proofs \cup {NoProof}

\* Every proof a handler accepts, through any of the eight functions and
\* across updates, freezes and upgrades, states what the parachain holds
\* at the proof height.
ProvenFactsHold == [][lastProof' # lastProof => FactHolds(lastProof')]_hostVars

\* A packet fact at a stored height becomes provable once the delay has
\* passed, however the client advanced to that height (a batch update or
\* an upgrade), unless the client froze at or below it.
PacketsEventuallyProvable ==
    \A p \in Proofs :
        p.fn \in PacketFns /\ FactHolds(p) =>
            [](p.height \in DOMAIN heads
                 => <>(lastProof = p \/ (frozen # NotFrozen /\ p.height >= frozen)))

=============================================================================
