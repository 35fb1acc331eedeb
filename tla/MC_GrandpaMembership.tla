----------------------- MODULE MC_GrandpaMembership -----------------------
(***************************************************************************)
(* A parachain finalized at heights 0..3 with heads p0..p3, and committed *)
(* upgrades to heights 2 and 3, so that a client can freeze, be upgraded, *)
(* freeze again and be upgraded again.  Every path holds a value that     *)
(* changes from one height to the next, and the receipt path is absent at *)
(* heights 0 and 1 only, so a proof checked at the wrong height shows.  A  *)
(* delay period of 2 time units and 1 block, host blocks 1 or 2 units     *)
(* apart, so that the time and the block conditions are each the one that *)
(* binds.                                                                  *)
(***************************************************************************)
EXTENDS GrandpaMembership

MC_FinalizedHead == (0 :> "p0") @@ (1 :> "p1") @@ (2 :> "p2") @@ (3 :> "p3")
MC_UpgradeHeads == {[height |-> 2, head |-> "p2"], [height |-> 3, head |-> "p3"]}

MC_StateOf ==
    [hd \in {"p0", "p1", "p2", "p3"} |->
        [fn \in Fns |->
            IF fn = "packet_receipt_absence"
            THEN IF hd \in {"p2", "p3"} THEN "v1" ELSE Absent
            ELSE IF hd \in {"p1", "p3"} THEN "v2" ELSE "v1"]]

=============================================================================
