------------------------- MODULE MC_SolanaCwContract -------------------------
(***************************************************************************)
(* A counterparty chain with headers at heights 1..5 one time unit apart, *)
(* the client created at height 2, and a trusting period of 1, so that the *)
(* oldest consensus state expires while older and newer headers still     *)
(* arrive.  MC_ForgedRoots adds a root the counterparty never committed.   *)
(***************************************************************************)
EXTENDS SolanaCwContract

MC_Heights == {1, 2, 3, 4, 5}
MC_TrueRoot == [h \in MC_Heights |-> "r"]
MC_HeaderTime == [h \in MC_Heights |-> h]
MC_HonestRoots == {"r"}
MC_ForgedRoots == {"r", "x"}

=============================================================================
