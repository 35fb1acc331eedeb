---------------------------- MODULE GrandpaClient ----------------------------
(***************************************************************************)
(* The GRANDPA parachain light client of                                   *)
(* light-clients/ics10-grandpa/src/client_def.rs, driven by the IBC        *)
(* 02-client update handler of the host chain.                             *)
(*                                                                         *)
(* State: the ClientState record, the consensus states the host stores per *)
(* parachain height, the host's persistent set of known relay hashes       *)
(* (HostFunctions::insert_relay_header_hashes) and the host clock.         *)
(*                                                                         *)
(* Messages come from untrusted relayers: any header message or            *)
(* misbehaviour message built from the relay headers and justifications    *)
(* that exist may be submitted at any time, in any order, any number of    *)
(* times.  A message whose handling returns an error changes nothing, so   *)
(* it is not a step of the model.                                          *)
(***************************************************************************)
EXTENDS RelayChain, TLC

CONSTANTS
    ParaId,            \* para_id of the client
    RevisionNumbers,   \* revision numbers a header message may carry
    AUTHORITIES_CHANGE_ITEM_MIN_COUNT,
    AUTHORITIES_CHANGE_ITEM_LIFETIME,
    TimestampMax,      \* greatest timestamp that Timestamp + Duration can produce
    MaxNow,            \* bound on the host clock
    MaxParaProofs,     \* bound on parachain-header proofs in one message
    InitTimestamp,     \* timestamp of the genesis authority-set entry
    UpgradePlans,      \* upgrades the parachain commits: [committed_in, client, consensus]
    NoHeight           \* model value: frozen_height is None

VARIABLES
    clientState,       \* ClientState of the client
    consensusStates,   \* parachain height -> stored consensus state (para head id)
    knownRelayHashes,  \* relay hashes inserted by update_state
    now                \* host_timestamp(); 0 is the "none" timestamp

vars == <<clientState, consensusStates, knownRelayHashes, now>>

AttackerHeaders == Blocks \ CanonSet
ParaHeights == {ParaHeadOf[b].height : b \in Blocks}
Frozen == clientState.frozen_height # NoHeight

Entry(h, ts, sid, auth) ==
    [height |-> h, timestamp |-> ts, set_id |-> sid, authorities |-> auth]

(***************************************************************************)
(* The authority-set ledger (client_state.authorities_changes).            *)
(***************************************************************************)

\* ClientState::last_set_id (client_state.rs, spec.md 4.5).
LastSetId(L) == L[Len(L)].set_id

\* get_authorities as spec.md 4.5 states it: the entry with the greatest
\* height not above h, else the latest entry.  Header verification in
\* grandpa-client resolves the authority set this way.
AuthoritiesAt(L, h) ==
    LET le == {i \in DOMAIN L : L[i].height <= h}
        e  == IF le = {} THEN L[Len(L)] ELSE L[Max(le)]
    IN  [set_id |-> e.set_id, authorities |-> e.authorities]

\* The get_authorities closure of the misbehaviour check:
\* binary_search_by_key(&height, |x| x.height).unwrap_or_else(identity),
\* then get(key), falling back to last().  On an exact match the search
\* returns any matching index; otherwise the insertion point.
GetAuthorities(L, h) ==
    LET exact == {i \in DOMAIN L : L[i].height = h}
        keys  == IF exact # {} THEN exact
                 ELSE {Cardinality({i \in DOMAIN L : L[i].height < h}) + 1}
        At(k) == IF k <= Len(L) THEN L[k] ELSE L[Len(L)]
    IN  {[set_id |-> At(k).set_id, authorities |-> At(k).authorities] : k \in keys}

\* x.timestamp + AUTHORITIES_CHANGE_ITEM_LIFETIME, with the overflow
\* replaced by Timestamp::from_nanoseconds(1).  The none timestamp (0)
\* stays none.
ExpiryOf(ts) ==
    IF ts = 0 THEN 0
    ELSE IF ts + AUTHORITIES_CHANGE_ITEM_LIFETIME > TimestampMax THEN 1
    ELSE ts + AUTHORITIES_CHANGE_ITEM_LIFETIME

\* now.check_expiry(&expiry) = Expiry::Expired; a none timestamp on either
\* side gives InvalidTimestamp, which is not Expired.
Expired(t, expiry) == t # 0 /\ expiry # 0 /\ t > expiry

\* Bug variant: the retention floor off by one (len - i < MIN_COUNT - 1).
PruneKeepingFewer(L, t) ==
    LET len == Len(L)
        Keep(i) == \/ len - (i - 1) < AUTHORITIES_CHANGE_ITEM_MIN_COUNT - 1
                   \/ ~Expired(t, ExpiryOf(L[i].timestamp))
    IN  [j \in 1..Len(SelectSeq([i \in 1..len |-> i], Keep)) |->
            L[SelectSeq([i \in 1..len |-> i], Keep)[j]]]

\* The filter of update_state: keep the last MIN_COUNT - 1 entries and every
\* entry that has not expired.
PruneAuthoritiesChanges(L, t) ==
    LET len     == Len(L)
        Keep(i) == \/ len - (i - 1) < AUTHORITIES_CHANGE_ITEM_MIN_COUNT
                   \/ ~Expired(t, ExpiryOf(L[i].timestamp))
        kept    == SelectSeq([i \in 1..len |-> i], Keep)
    IN  [j \in 1..Len(kept) |-> L[kept[j]]]

RECURSIVE SortByHeight(_)
\* xs.sort_by_key(|change| change.height): a stable sort.
SortByHeight(xs) ==
    IF xs = <<>> THEN <<>>
    ELSE LET sorted == SortByHeight(Front(xs))
             e      == Last(xs)
         IN  SelectSeq(sorted, LAMBDA x : x.height <= e.height)
               \o <<e>> \o SelectSeq(sorted, LAMBDA x : x.height > e.height)

\* Bug variant: next_set_id taken as last_set_id() without the + 1.
InsertScheduledChangeSameSetId(L, target, change, t) ==
    SortByHeight(PruneAuthoritiesChanges(L, t)
                 \o <<Entry(NumberOf[target] + change.delay + 1, t,
                            LastSetId(L), change.next_authorities)>>)

\* The scheduled-change branch of update_state: the new entry takes the
\* next set id (computed before pruning), starts at target + delay + 1 and
\* is stamped with the host time.
InsertScheduledChange(L, target, change, t) ==
    SortByHeight(PruneAuthoritiesChanges(L, t)
                 \o <<Entry(NumberOf[target] + change.delay + 1, t,
                            LastSetId(L) + 1, change.next_authorities)>>)

(***************************************************************************)
(* Verification of a header message.                                       *)
(***************************************************************************)

\* A justification signed by set j.set verifies under (set_id, authorities)
\* only if it is that set's: the set id is hashed into the signed payload.
JustificationVerifies(j, a) == j.set = a.set_id /\ j.set = a.authorities

\* grandpa_client::verify_parachain_headers_with_grandpa_finality_proof
\* (spec.md 4.6.1): the target is in the batch, descends from the latest
\* relay hash, and its justification verifies under the authority set the
\* ledger resolves for its number.  Parachain-header proofs always verify
\* against the state root of the header they name.
VerifyParachainHeadersWithFinalityProof(cs, m) ==
    /\ m.block \in m.unknown_headers
    /\ Ancestry(m.unknown_headers, cs.latest_relay_hash, m.block) # Fail
    /\ \E j \in Justifications :
          /\ j.target = m.block
          /\ JustificationVerifies(j, AuthoritiesAt(cs.authorities_changes, NumberOf[m.block]))

\* verify_client_message, Header variant.
VerifyHeader(cs, m) ==
    /\ cs.para_id = m.revision_number
    /\ VerifyParachainHeadersWithFinalityProof(cs, m)

\* check_for_misbehaviour, Header variant: some relay header named by a
\* parachain-header proof carries a forced change, or yields a consensus
\* state that differs from the one stored at its height.
CheckForMisbehaviour(m) ==
    \E r \in m.parachain_headers :
        \/ FindForcedChange(r)
        \/ /\ ParaHeadOf[r].height \in DOMAIN consensusStates
           /\ consensusStates[ParaHeadOf[r].height] # ParaHeadOf[r].id

(***************************************************************************)
(* update_state.                                                           *)
(***************************************************************************)

\* ancestry(latest_relay_hash, finality_proof.block).
Finalized(cs, m) == Ancestry(m.unknown_headers, cs.latest_relay_hash, m.block)

\* Bug variant: parachain headers taken whether or not their relay header
\* is on the finalized route.
NewConsensusStatesUnfiltered(cs, m) ==
    {r \in m.parachain_headers : ParaHeadOf[r].height \notin DOMAIN consensusStates}

\* The relay headers whose parachain head becomes a new consensus state:
\* named by a proof, in the finalized route, height not stored yet.
NewConsensusStates(cs, m) ==
    {r \in m.parachain_headers :
        /\ r \in ToSet(Finalized(cs, m))
        /\ ParaHeadOf[r].height \notin DOMAIN consensusStates}

\* Bug variant: the route length used as the number of new blocks,
\* forgetting that the route holds the base too.
TargetNumberOkOffByOne(cs, m) ==
    /\ NumberOf[m.block] = cs.latest_relay_height + Len(Finalized(cs, m))
    /\ NumberOf[m.block] > cs.latest_relay_height

\* The block number of the target matches the route length and moves
\* the relay cursor forward.
TargetNumberOk(cs, m) ==
    /\ NumberOf[m.block] = cs.latest_relay_height + Len(Finalized(cs, m)) - 1
    /\ NumberOf[m.block] > cs.latest_relay_height

\* The new parachain heights do not rewind (the smallest is above the
\* cursor); the cursor moves to the largest.
ParaHeightsOk(cs, hs) == \A h \in hs : h > cs.latest_para_height

\* Bug variant: heights.first() taken for the new cursor.
NextParaHeightFirst(cs, hs) == IF hs = {} THEN cs.latest_para_height ELSE Min(hs)

NextParaHeight(cs, hs) == IF hs = {} THEN cs.latest_para_height ELSE Max(hs)

\* The client state update_state returns.
UpdatedClientState(cs, m, hs) ==
    [cs EXCEPT
        !.latest_para_height  = NextParaHeight(cs, hs),
        !.latest_relay_hash   = m.block,
        !.latest_relay_height = NumberOf[m.block],
        !.authorities_changes =
            IF FindScheduledChange(m.block) = NoChange THEN @
            ELSE InsertScheduledChange(@, m.block, FindScheduledChange(m.block), now)]

\* Bug variant: every header of the batch recorded as known.
InsertAllUnknownHeaders(cs, m) == m.unknown_headers

\* H::insert_relay_header_hashes(now_ms, &finalized): the relay hashes
\* the host records as known.
InsertRelayHeaderHashes(cs, m) == ToSet(Finalized(cs, m))

\* The batch of consensus states the host stores, one per new height.
StoreConsensusStates(rs) ==
    [h \in {ParaHeadOf[r].height : r \in rs} |->
        ParaHeadOf[CHOOSE r \in rs : ParaHeadOf[r].height = h].id] @@ consensusStates

\* Bug variant: the relay cursor frozen instead of the parachain cursor.
FreezeAtRelayHeight(cs) == [cs EXCEPT !.frozen_height = cs.latest_relay_height]

\* update_state_on_misbehaviour.
UpdateStateOnMisbehaviour(cs) == [cs EXCEPT !.frozen_height = cs.latest_para_height]

(***************************************************************************)
(* verify_upgrade_and_update_state.  The two storage proofs are checked    *)
(* against the root of the consensus state stored at the current latest   *)
(* height; a root holds one value per upgrade path, so the proofs verify   *)
(* exactly for the plan (if any) that the parachain committed in that      *)
(* head.  A plan's client record gives the fields the upgrade takes over.  *)
(***************************************************************************)

\* Bug variant: the upgrade height check dropped.
UpgradeHeightUnchecked(cs, u) == TRUE

\* The upgraded latest height must exceed the current one (same revision).
UpgradeHeightOk(cs, u) == u.client.latest_para_height > cs.latest_para_height

\* Both upgrade proofs verify under the stored consensus state's root.
UpgradeProofsVerify(cs, u) ==
    /\ cs.latest_para_height \in DOMAIN consensusStates
    /\ consensusStates[cs.latest_para_height] = u.committed_in

\* Bug variant: frozen_height carried over from the old client state.
MixedUpgradeKeepsFrozen(cs, u) ==
    [cs EXCEPT !.latest_relay_height = u.client.latest_relay_height,
               !.latest_relay_hash   = u.client.latest_relay_hash,
               !.latest_para_height  = u.client.latest_para_height,
               !.para_id             = u.client.para_id,
               !.authorities_changes = u.client.authorities_changes]

\* mixed_upgrade_client_state: relay_chain kept from the old state, the
\* cursors, para_id and ledger taken from the upgrade, frozen_height cleared.
MixedUpgradeClientState(cs, u) ==
    [cs EXCEPT !.latest_relay_height = u.client.latest_relay_height,
               !.latest_relay_hash   = u.client.latest_relay_hash,
               !.frozen_height       = NoHeight,
               !.latest_para_height  = u.client.latest_para_height,
               !.para_id             = u.client.para_id,
               !.authorities_changes = u.client.authorities_changes]

(***************************************************************************)
(* verify_client_message, Misbehaviour variant.                            *)
(***************************************************************************)

MaxByNumber(H) == {h \in H : \A x \in H : NumberOf[x] <= NumberOf[h]}

\* Bug variant: only the first proof's target compared with its block.
FirstTargetMatches(p1, p2, t1, t2) == t1 = p1.block

\* Each proof's highest-numbered header is the block it claims.
TargetsMatch(p1, p2, t1, t2) == t1 = p1.block /\ t2 = p2.block

MinByNumber(H) == {h \in H : \A x \in H : NumberOf[h] <= NumberOf[x]}

\* first_finalized.iter().zip(&second_finalized).any(|(a, b)| a != b)
ChainsDiverge(f1, f2) ==
    \E i \in 1..Min({Len(f1), Len(f2)}) : f1[i] # f2[i]

\* The two finality proofs are for different blocks, each batch reaches
\* its target from its lowest-numbered header, both lowest headers have
\* the same known parent, the routes diverge, and some base number makes
\* both justifications verify under the sets get_authorities resolves.
\* max_by_key / min_by_key break ties by list order, which the relayer
\* chooses, hence the existential choice of t1, t2, b1, b2.
VerifyMisbehaviour(cs, known, m) ==
    LET p1 == m.first_finality_proof
        p2 == m.second_finality_proof
    IN
    /\ p1.block # p2.block
    /\ \E t1 \in MaxByNumber(p1.unknown_headers), t2 \in MaxByNumber(p2.unknown_headers),
          b1 \in MinByNumber(p1.unknown_headers), b2 \in MinByNumber(p2.unknown_headers) :
         LET f1 == Ancestry(p1.unknown_headers, b1, t1)
             f2 == Ancestry(p2.unknown_headers, b2, t2)
         IN
         /\ TargetsMatch(p1, p2, t1, t2)
         /\ f1 # Fail /\ f2 # Fail
         /\ ParentOf[b1] = ParentOf[b2]
         /\ ChainsDiverge(f1, f2)
         /\ ParentOf[b1] \in known
         /\ p1.justification.target = p1.block
         /\ p2.justification.target = p2.block
         /\ \E bn \in {NumberOf[b1], NumberOf[b2]} :
              \E a1 \in GetAuthorities(cs.authorities_changes, bn + Len(f1) - 1),
                 a2 \in GetAuthorities(cs.authorities_changes, bn + Len(f2) - 1) :
                  /\ JustificationVerifies(p1.justification, a1)
                  /\ JustificationVerifies(p2.justification, a2)

(***************************************************************************)
(* Messages a relayer can build.                                           *)
(***************************************************************************)

\* ClientMessage::Header: unknown_headers is a path of relay headers up to
\* the target, plus any attacker-made headers; parachain_headers names
\* some of them.
HeaderMsgs ==
    UNION {UNION {
        {[revision_number |-> rn, block |-> t, unknown_headers |-> Segment(lo, t) \cup X,
          parachain_headers |-> P] :
            P \in {Q \in SUBSET (Segment(lo, t) \cup X) : Cardinality(Q) <= MaxParaProofs}}
        : lo \in AncestorsOrSelf(t), X \in SUBSET AttackerHeaders}
      : t \in Blocks, rn \in RevisionNumbers}

\* A FinalityProof: a target, a path of headers ending at it plus any
\* attacker-made headers, and a justification of that target.
FinalityProofs ==
    UNION {{[block |-> j.target, unknown_headers |-> Segment(lo, j.target) \cup X,
             justification |-> j] : lo \in AncestorsOrSelf(j.target), X \in SUBSET AttackerHeaders}
           : j \in Justifications}

(***************************************************************************)
(* The specification.                                                      *)
(***************************************************************************)

Init ==
    /\ clientState = [para_id             |-> ParaId,
                      latest_relay_hash   |-> Genesis,
                      latest_relay_height |-> NumberOf[Genesis],
                      latest_para_height  |-> ParaHeadOf[Genesis].height,
                      frozen_height       |-> NoHeight,
                      authorities_changes |-> <<Entry(NumberOf[Genesis], InitTimestamp, 0, 0)>>]
    /\ consensusStates = (ParaHeadOf[Genesis].height :> ParaHeadOf[Genesis].id)
    /\ knownRelayHashes = {}
    /\ now = 1

\* 02-client update handler on a Header that verifies and is not
\* misbehaviour: update_state, then store the client state and the batch.
UpdateClient(m) ==
    LET cs  == clientState
        new == NewConsensusStates(cs, m)
        hs  == {ParaHeadOf[r].height : r \in new}
    IN
    /\ ~Frozen
    /\ VerifyHeader(cs, m)
    /\ ~CheckForMisbehaviour(m)
    /\ TargetNumberOk(cs, m)
    /\ ParaHeightsOk(cs, hs)
    /\ clientState' = UpdatedClientState(cs, m, hs)
    /\ consensusStates' = StoreConsensusStates(new)
    /\ knownRelayHashes' = knownRelayHashes \cup InsertRelayHeaderHashes(cs, m)
    /\ UNCHANGED now

\* 02-client update handler on a Header that check_for_misbehaviour flags.
FreezeOnHeader(m) ==
    /\ ~Frozen
    /\ VerifyHeader(clientState, m)
    /\ CheckForMisbehaviour(m)
    /\ clientState' = UpdateStateOnMisbehaviour(clientState)
    /\ UNCHANGED <<consensusStates, knownRelayHashes, now>>

\* 02-client update handler on a Misbehaviour message.
SubmitMisbehaviour(m) ==
    /\ ~Frozen
    /\ VerifyMisbehaviour(clientState, knownRelayHashes, m)
    /\ clientState' = UpdateStateOnMisbehaviour(clientState)
    /\ UNCHANGED <<consensusStates, knownRelayHashes, now>>

\* 02-client upgrade handler (spec.md 4.6.5, 8.3: the upgrade is the path
\* that unfreezes a client): verify_upgrade_and_update_state, then store
\* the client state and the single consensus state at the new latest height.
UpgradeClient(u) ==
    /\ UpgradeHeightOk(clientState, u)
    /\ UpgradeProofsVerify(clientState, u)
    /\ clientState' = MixedUpgradeClientState(clientState, u)
    /\ consensusStates' = (u.client.latest_para_height :> u.consensus) @@ consensusStates
    /\ UNCHANGED <<knownRelayHashes, now>>

\* The host clock advances between transactions.
Tick ==
    /\ now < MaxNow
    /\ now' = now + 1
    /\ UNCHANGED <<clientState, consensusStates, knownRelayHashes>>

Next ==
    \/ \E m \in HeaderMsgs : UpdateClient(m) \/ FreezeOnHeader(m)
    \/ \E p1, p2 \in FinalityProofs :
          SubmitMisbehaviour([first_finality_proof |-> p1, second_finality_proof |-> p2])
    \/ \E u \in UpgradePlans : UpgradeClient(u)
    \/ Tick

Spec == Init /\ [][Next]_vars

(***************************************************************************)
(* An honest relayer: it extends the client by the next canonical block,   *)
(* with the proof of that block's parachain head.  Fairness on it is the   *)
(* IBC assumption that some correct relayer keeps the client updated.      *)
(***************************************************************************)
NextCanon ==
    Canon[(CHOOSE i \in 1..Len(Canon) : Canon[i] = clientState.latest_relay_hash) + 1]

HonestHeader ==
    [revision_number |-> ParaId, block |-> NextCanon,
     unknown_headers |-> {NextCanon}, parachain_headers |-> {NextCanon}]

HonestRelay ==
    /\ clientState.latest_relay_hash \in CanonSet \ {Tip}
    /\ UpdateClient(HonestHeader)

FairSpec == Spec /\ WF_vars(HonestRelay)

(***************************************************************************)
(* Properties.                                                             *)
(***************************************************************************)

MaxDelay == Max({ScheduledDelay[b] : b \in ChangeBlocks} \cup {0})

LedgerEntries ==
    [height : 0..NumberOf[Tip] + MaxDelay + 1, timestamp : 0..TimestampMax,
     set_id : SetIds, authorities : SetIds]

TypeOK ==
    /\ clientState.para_id = ParaId
    /\ clientState.latest_relay_hash \in Blocks
    /\ clientState.latest_relay_height \in 0..NumberOf[Tip]
    /\ clientState.latest_para_height \in ParaHeights
    /\ clientState.frozen_height \in ParaHeights \cup {NoHeight}
    /\ LET L == clientState.authorities_changes
       IN Len(L) >= 1 /\ \A i \in DOMAIN L : L[i] \in LedgerEntries
    /\ DOMAIN consensusStates \subseteq ParaHeights
    /\ \A h \in DOMAIN consensusStates : consensusStates[h] \in ParaHeads
    /\ knownRelayHashes \subseteq Blocks
    /\ now \in 1..MaxNow

\* update_state only turns parachain heads into consensus states when the
\* relay header holding them lies on the route it has just finalized: every
\* stored consensus state is the parachain head of a canonical relay block
\* at or below the relay cursor, whatever headers relayers smuggle in.
ConsensusStatesFinalized ==
    \A h \in DOMAIN consensusStates :
        \E b \in CanonSet :
            /\ NumberOf[b] <= clientState.latest_relay_height
            /\ ParaHeadOf[b] = [height |-> h, id |-> consensusStates[h]]

\* latest_para_height, which the client reports as its latest height and
\* which membership proofs and upgrades are checked against, is always the
\* highest parachain height with a stored consensus state.
LatestParaHeightStored ==
    clientState.latest_para_height = Max(DOMAIN consensusStates)

\* The relay hashes update_state adds to the host's known set (the anchors
\* of misbehaviour proofs) are canonical blocks the client has finalized.
KnownHashesFinalized ==
    knownRelayHashes \subseteq {b \in CanonSet : NumberOf[b] <= clientState.latest_relay_height}

\* The authority ledger is sorted by activation height with strictly
\* increasing set ids, and pruning never drops any of the
\* AUTHORITIES_CHANGE_ITEM_MIN_COUNT most recent authority sets.
LedgerWellFormed ==
    LET L == clientState.authorities_changes
    IN  /\ \A i \in 1..Len(L) - 1 :
              L[i].height <= L[i + 1].height /\ L[i].set_id < L[i + 1].set_id
        /\ \A k \in SetIds :
              k > LastSetId(L) - AUTHORITIES_CHANGE_ITEM_MIN_COUNT /\ k <= LastSetId(L)
                 => \E i \in DOMAIN L : L[i].set_id = k

\* For every canonical block the current GRANDPA set may still finalize
\* beyond the relay cursor, the ledger resolves exactly that set (id and
\* authorities): the client tracks authority handovers from the headers it
\* finalizes, through retries and out-of-order messages.
LedgerMatchesChain ==
    LET L == clientState.authorities_changes
        n == clientState.latest_relay_height
    IN  \A b \in CanonSet :
           NumberOf[b] > n /\ TrueSetAt(NumberOf[b]) = TrueSetAt(n + 1)
              => AuthoritiesAt(L, NumberOf[b])
                   = [set_id |-> TrueSetAt(NumberOf[b]), authorities |-> TrueSetAt(NumberOf[b])]

\* Spec 4.5 and the comment on the overflow branch of the pruning filter:
\* an authority-set entry leaves the ledger only once its lifetime has
\* really run out; an entry whose timestamp + LIFETIME overflows is kept.
PruneOnlyExpired ==
    [][\A e \in ToSet(clientState.authorities_changes)
          \ ToSet(clientState'.authorities_changes) :
           now > e.timestamp + AUTHORITIES_CHANGE_ITEM_LIFETIME]_vars

\* Spec 8.1 (no rewind): no step moves the relay or parachain cursor back,
\* and a step that stores a consensus state at a new height moves the
\* parachain cursor strictly forward, over updates and upgrades alike.
NoRewind ==
    [][/\ clientState'.latest_relay_height >= clientState.latest_relay_height
       /\ clientState'.latest_para_height >= clientState.latest_para_height
       /\ DOMAIN consensusStates' # DOMAIN consensusStates
            => clientState'.latest_para_height > clientState.latest_para_height]_vars

\* With a correct relayer around, the client follows the relay chain to its
\* tip (or stops because it was frozen).
FollowsTip == <>(clientState.latest_relay_hash = Tip \/ Frozen)

\* The client freezes only on real evidence: a forced authority change in
\* the canonical chain, or one authority set finalizing two conflicting
\* blocks.
Evidence ==
    \/ \E b \in CanonSet : ForcedChange[b]
    \/ \E b, c \in Blocks, k \in SetIds :
          Conflicting(b, c) /\ Justified(b, k) /\ Justified(c, k)

FreezeOnlyOnEvidence == Frozen => Evidence

\* Spec 8.5 (equivocation symmetry): a pair of finality proofs verifies as
\* misbehaviour in one order exactly when it does in the other, for every
\* pair a relayer can build, whatever the ledger and known hashes are.
EquivocationSymmetry ==
    \A p1, p2 \in FinalityProofs :
        VerifyMisbehaviour(clientState, knownRelayHashes,
            [first_finality_proof |-> p1, second_finality_proof |-> p2])
        = VerifyMisbehaviour(clientState, knownRelayHashes,
            [first_finality_proof |-> p2, second_finality_proof |-> p1])

\* A misbehaviour proof of two sibling blocks finalized by the authority set
\* active at their height, whose common parent the client knows, verifies.
EquivocationProof(b, k) ==
    [block |-> b, unknown_headers |-> {b}, justification |-> [target |-> b, set |-> k]]

EquivocationsProvable ==
    \A b, c \in Blocks :
        LET k == TrueSetAt(NumberOf[b]) IN
        /\ b # c /\ ParentOf[b] = ParentOf[c] /\ NumberOf[b] = NumberOf[c]
        /\ ParentOf[b] \in knownRelayHashes
        /\ Justified(b, k) /\ Justified(c, k)
        => VerifyMisbehaviour(clientState, knownRelayHashes,
               [first_finality_proof |-> EquivocationProof(b, k),
                second_finality_proof |-> EquivocationProof(c, k)])


(***************************************************************************)
(* Refinement of the abstract parachain client.  The abstract height is   *)
(* latest_para_height, its heads the stored consensus states, its frozen  *)
(* height frozen_height (None for NotFrozen); the finalized parachain heads are those of  *)
(* canonical relay headers, and the committed upgrades those of the       *)
(* plans.  Relay cursors, the ledger, the known hashes and the clock are  *)
(* implementation detail: steps that only change them are stuttering.     *)
(***************************************************************************)

CanonParaHead ==
    [h \in {ParaHeadOf[b].height : b \in CanonSet} |->
        ParaHeadOf[CHOOSE b \in CanonSet : ParaHeadOf[b].height = h].id]

Abstract == INSTANCE AbstractParachainClient WITH
    FinalizedHead <- CanonParaHead,
    UpgradeHeads  <- {[height |-> u.client.latest_para_height, head |-> u.consensus]
                        : u \in UpgradePlans},
    height        <- clientState.latest_para_height,
    heads         <- consensusStates,
    frozen        <- clientState.frozen_height,
    NotFrozen     <- NoHeight

\* Every step of the 02-client handlers over the GRANDPA client is a step of
\* the abstract client: update_state stores only finalized parachain heads
\* above the cursor and moves it to the highest; neither misbehaviour path
\* touches the heads, and both freeze at the parachain cursor;
\* verify_upgrade_and_update_state raises the height,
\* stores the committed head and clears frozen_height.
RefinesAbstractClient == Abstract!Spec

=============================================================================
