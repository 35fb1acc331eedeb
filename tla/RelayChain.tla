----------------------------- MODULE RelayChain -----------------------------
(***************************************************************************)
(* The relay chain as the GRANDPA light client sees it: a fixed tree of    *)
(* relay headers, the canonical (honestly finalized) branch, the GRANDPA   *)
(* authority sets that finalize it and the parachain head each header      *)
(* commits to.  Headers are identified by their hash, so every field of a  *)
(* header (parent, number, digests, state root) is a function of the hash. *)
(* Headers off the canonical branch are made by an attacker: nobody honest *)
(* signs them, but they can be put in a message's unknown_headers.         *)
(*                                                                         *)
(* Also here: the header helpers of grandpa-client-primitives that the     *)
(* client calls (AncestryChain, find_scheduled_change, find_forced_change) *)
(* modelled from spec.md section 4.1, since that crate is not in src/.     *)
(***************************************************************************)
EXTENDS Naturals, FiniteSets, Sequences, SequencesExt

CONSTANTS
    Blocks,          \* every relay header hash a message may carry
    Canon,           \* the canonical chain, genesis first
    ParentOf,        \* header -> parent hash (NoBlock for genesis)
    NumberOf,        \* header -> block number written in the header
    ScheduledDelay,  \* header -> delay of its scheduled-change digest, or NoChange
    ForcedChange,    \* header -> TRUE iff it carries a forced-change digest
    ParaHeadOf,      \* header -> [height, id] of the parachain head in its state
    ParaHeads,       \* identities of parachain headers (consensus-state values)
    FaultySets,      \* authority set ids whose signers may sign any header
    NoBlock,         \* model value: parent of genesis
    NoChange         \* model value: no scheduled-change digest

CanonSet == ToSet(Canon)
Genesis == Canon[1]
Tip == Canon[Len(Canon)]

RECURSIVE AncestorsOrSelf(_)
\* The header and all headers reached from it by parent links.
AncestorsOrSelf(b) ==
    IF b = NoBlock THEN {} ELSE {b} \cup AncestorsOrSelf(ParentOf[b])

\* Neither header is an ancestor of the other: a fork.
Conflicting(b, c) == b \notin AncestorsOrSelf(c) /\ c \notin AncestorsOrSelf(b)

\* The headers on the path from lo up to t, both included.
Segment(lo, t) == AncestorsOrSelf(t) \ AncestorsOrSelf(ParentOf[lo])

(***************************************************************************)
(* GRANDPA authority sets.  Set 0 finalizes from genesis; a scheduled      *)
(* change in canonical header c with delay d hands over to the next set    *)
(* from block NumberOf[c] + d + 1 on.  The old set does not vote past the  *)
(* block that enacts the change, so every canonical header is finalized by *)
(* exactly one set.  A set's authorities are named by its id.              *)
(***************************************************************************)
ChangeBlocks == {c \in CanonSet : ScheduledDelay[c] # NoChange}
SetIds == 0..Cardinality(ChangeBlocks)

TrueSetAt(n) ==
    Cardinality({c \in ChangeBlocks : NumberOf[c] + ScheduledDelay[c] + 1 <= n})

\* The next_authorities carried by the scheduled-change digest of b.
SignalledAuthorities(b) ==
    Cardinality({c \in ChangeBlocks : NumberOf[c] < NumberOf[b]}) + 1

\* Set k can produce a GRANDPA justification whose commit targets b.
Justified(b, k) ==
    \/ b \in CanonSet /\ k = TrueSetAt(NumberOf[b])
    \/ k \in FaultySets

\* Justifications that exist, as [target, set] records.
Justifications == {j \in [target : Blocks, set : SetIds] : Justified(j.target, j.set)}

(***************************************************************************)
(* Header helpers of grandpa-client-primitives (spec.md 4.1).              *)
(***************************************************************************)
Fail == <<>>

RECURSIVE Ancestry(_, _, _)
\* AncestryChain::ancestry(base, block) over the headers in `headers`:
\* walk parent links from block until base is reached.  The route holds
\* both ends in walking order (block first); Fail when a header on the way
\* is missing from the batch.
Ancestry(headers, base, block) ==
    IF block = base THEN <<base>>
    ELSE IF block \notin headers THEN Fail
    ELSE LET rest == Ancestry(headers, base, ParentOf[block])
         IN IF rest = Fail THEN Fail ELSE <<block>> \o rest

\* find_scheduled_change / find_forced_change: the digests of a header.
FindScheduledChange(b) ==
    IF ScheduledDelay[b] = NoChange THEN NoChange
    ELSE [delay |-> ScheduledDelay[b], next_authorities |-> SignalledAuthorities(b)]
FindForcedChange(b) == ForcedChange[b]

=============================================================================
