---------------------- MODULE AbstractParachainClient ----------------------
(***************************************************************************)
(* What a parachain light client promises its host (spec.md 2 and 8),     *)
(* without relay headers, justifications or the authority ledger:         *)
(*   - its latest height only moves up, and only to heights the           *)
(*     parachain finalized, whose heads are the ones it stores;           *)
(*   - a stored head is never replaced;                                   *)
(*   - it freezes only when active, at its latest height, and a frozen    *)
(*     client changes only by an upgrade the parachain committed, which   *)
(*     also unfreezes it.                                                 *)
(***************************************************************************)
EXTENDS Naturals, FiniteSets, FiniteSetsExt, TLC

CONSTANTS
    FinalizedHead,  \* parachain height -> finalized head at that height
    UpgradeHeads,   \* committed upgrades: [height, head]
    NotFrozen       \* the frozen height of an active client (None)

VARIABLES height, heads, frozen  \* frozen: the frozen height, or NotFrozen

absVars == <<height, heads, frozen>>

Init ==
    /\ height \in DOMAIN FinalizedHead
    /\ heads = (height :> FinalizedHead[height])
    /\ frozen = NotFrozen

\* New finalized heights above the latest one are stored; the latest
\* height moves to the highest.
Advance(H) ==
    /\ frozen = NotFrozen
    /\ H # {}
    /\ \A h \in H : h > height
    /\ heads' = heads @@ [h \in H |-> FinalizedHead[h]]
    /\ height' = Max(H)
    /\ UNCHANGED frozen

\* The client freezes at its latest height.
Freeze ==
    /\ frozen = NotFrozen
    /\ frozen' = height
    /\ UNCHANGED <<height, heads>>

\* A committed upgrade to a higher height, active or frozen.
Upgrade(u) ==
    /\ u.height > height
    /\ heads' = (u.height :> u.head) @@ heads
    /\ height' = u.height
    /\ frozen' = NotFrozen

Next ==
    \/ \E H \in SUBSET (DOMAIN FinalizedHead) : Advance(H)
    \/ Freeze
    \/ \E u \in UpgradeHeads : Upgrade(u)

Spec == Init /\ [][Next]_absVars

=============================================================================
