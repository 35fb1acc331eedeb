-------------------------- MODULE MC_GrandpaClient --------------------------
(***************************************************************************)
(* A relay chain of five canonical blocks g <- b1 <- b2 <- b3 <- b4 with   *)
(* two authority handovers (scheduled changes with delay 0 in b2 and b3),  *)
(* a parachain that produces a block per relay block except at b3, where  *)
(* its head stays put, and two headers an attacker can put in              *)
(* unknown_headers: x1 (child of b1, forced change, conflicting parachain  *)
(* head at height 1) and x2 (child of b2, a conflicting parachain head at  *)
(* height 2).  No authority set is faulty.                                 *)
(*                                                                         *)
(* The other environments reuse these functions: only canonical headers   *)
(* (MC_CanonBlocks), a fork f2 of b2 for a faulty set 0 to sign            *)
(* (MC_ForkBlocks), and a scheduled change in b2 with delay 1              *)
(* (MC_DelayedChange).                                                     *)
(***************************************************************************)
EXTENDS GrandpaClient

MC_Blocks == {"g", "b1", "b2", "b3", "b4", "x1", "x2"}
MC_Canon == <<"g", "b1", "b2", "b3", "b4">>
MC_CanonBlocks == {"g", "b1", "b2", "b3", "b4"}
MC_ForkBlocks == {"g", "b1", "b2", "b3", "f2"}

MC_ParentOf ==
    ("g" :> NoBlock) @@ ("b1" :> "g") @@ ("b2" :> "b1") @@ ("b3" :> "b2")
    @@ ("b4" :> "b3") @@ ("x1" :> "b1") @@ ("x2" :> "b2") @@ ("f2" :> "b1")

MC_NumberOf ==
    ("g" :> 0) @@ ("b1" :> 1) @@ ("b2" :> 2) @@ ("b3" :> 3) @@ ("b4" :> 4)
    @@ ("x1" :> 2) @@ ("x2" :> 3) @@ ("f2" :> 2)

MC_ScheduledDelay ==
    [b \in MC_Blocks \cup {"f2"} |-> IF b \in {"b2", "b3"} THEN 0 ELSE NoChange]

MC_DelayedChange ==
    [b \in MC_Blocks \cup {"f2"} |-> IF b = "b2" THEN 1 ELSE NoChange]

MC_ForcedChange == [b \in MC_Blocks \cup {"f2"} |-> b = "x1"]

MC_ParaHeadOf ==
    ("g" :> [height |-> 0, id |-> "p0"]) @@ ("b1" :> [height |-> 1, id |-> "p1"])
    @@ ("b2" :> [height |-> 2, id |-> "p2"]) @@ ("b3" :> [height |-> 2, id |-> "p2"])
    @@ ("b4" :> [height |-> 3, id |-> "p3"]) @@ ("x1" :> [height |-> 1, id |-> "q1"])
    @@ ("x2" :> [height |-> 2, id |-> "q2"]) @@ ("f2" :> [height |-> 2, id |-> "r2"])

\* Two upgrades the parachain commits: in head p2, one to relay b4 and
\* para height 3 with the ledger of b4; in head p3, one that would move
\* the client back to b1 and para height 1.
MC_UpgradePlans ==
    {[committed_in |-> "p2", consensus |-> "p3",
      client |-> [para_id |-> 1, latest_relay_hash |-> "b4", latest_relay_height |-> 4,
                  latest_para_height |-> 3,
                  authorities_changes |-> <<Entry(0, 1, 0, 0), Entry(3, 1, 1, 1), Entry(4, 1, 2, 2)>>]],
     [committed_in |-> "p3", consensus |-> "p1",
      client |-> [para_id |-> 1, latest_relay_hash |-> "b1", latest_relay_height |-> 1,
                  latest_para_height |-> 1,
                  authorities_changes |-> <<Entry(0, 1, 0, 0)>>]]}

MC_ParaHeads == {"p0", "p1", "p2", "p3", "q1", "q2", "r2"}

=============================================================================
