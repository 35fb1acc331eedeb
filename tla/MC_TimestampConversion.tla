----------------------- MODULE MC_TimestampConversion -----------------------
(***************************************************************************)
(* Timestamps around second boundaries at scale NANOS = 10, W = 5: every   *)
(* instant of the first four seconds and a few far ones (MC_NonNegative),  *)
(* and the same around the epoch on both sides (MC_AroundEpoch).           *)
(***************************************************************************)
EXTENDS TimestampConversion

MC_NonNegative == (0..40) \cup {99, 100, 101, 12345, 2^30}
MC_AroundEpoch == -20..20

\* Mock headers at revision heights the new Height accepts.
MC_MockHeights == [revision_number : {0, 1}, revision_height : {1, 2}]
MC_MockNanos == {0, 7}

=============================================================================
