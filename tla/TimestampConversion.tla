------------------------- MODULE TimestampConversion -------------------------
(***************************************************************************)
(* The consensus-state timestamp conversions of the Solana relayer,        *)
(* hyperspace/solana/src/consensus_state.rs: a timestamp in nanoseconds    *)
(* since the epoch is split into unix seconds and the nanosecond remainder *)
(* of Rust's `%`, cast to u32 (new -> old) or i32 (old -> new), and put    *)
(* back together by Time::from_unix_timestamp or by a protobuf Timestamp   *)
(* whose conversion requires 0 <= nanos < 10^9.  Both results are          *)
(* unwrapped, so an invalid pair is a panic.                               *)
(*                                                                         *)
(* TLC integers are 32 bits wide, so the scale is a parameter: NANOS       *)
(* stands for 10^9 and W for the 32 bits of the casts, with                *)
(* 2^(W-1) > NANOS as 2^31 > 10^9.                                         *)
(*                                                                         *)
(* Each conversion dispatches on the AnyConsensusState variant.  A        *)
(* Tendermint state is abstracted to its timestamp (root and validators    *)
(* hash are copied bytes); a Mock state to its header's height and its     *)
(* timestamp in nanoseconds (a u64).  The new type's Guest variant and     *)
(* every old variant but Tendermint and Mock panic.  The relayer converts  *)
(* a state of each type it fetched: two variables for the states read,    *)
(* one for each conversion's result.                                       *)
(***************************************************************************)
EXTENDS Integers

CONSTANTS
    NANOS,       \* nanoseconds per second (10^9)
    W,           \* width of the u32 / i32 casts (32)
    Timestamps,  \* unix_timestamp_nanos values a consensus state may hold
    MockHeights, \* [revision_number, revision_height] of mock headers
    MockNanos,   \* timestamps (u64 nanoseconds) of mock headers
    Panic,       \* model value: the unwrap panicked
    None         \* model value: not converted yet

VARIABLES csNew, csOld, old, new

vars == <<csNew, csOld, old, new>>

TendermintStates == [kind : {"Tendermint"}, ts : Timestamps]
MockStates == [kind : {"Mock"}, height : MockHeights, nanos : MockNanos]

\* solana_ibc::consensus_state::AnyConsensusState and the old
\* pallet_ibc AnyConsensusState (whose other variants are "Other").
NewStates == TendermintStates \cup MockStates \cup [kind : {"Guest"}]
OldStates == TendermintStates \cup MockStates \cup [kind : {"Other"}]

\* Rust's `%` on signed integers: the remainder takes the dividend's sign.
RustRem(n, d) == IF n >= 0 THEN n % d ELSE -((-n) % d)

\* `as u32` and `as i32`: two's-complement truncation to W bits.
AsU(x) == x % 2^W
AsI(x) == LET u == x % 2^W IN IF u >= 2^(W-1) THEN u - 2^W ELSE u

\* unix_timestamp(): whole seconds, rounded towards minus infinity.
UnixTimestamp(t) == t \div NANOS

\* Bug variant: the sub-second part taken modulo a tenth of a second.
SubsecondNanosWrongUnit(t) == RustRem(t, NANOS \div 10)

\* unix_timestamp_nanos() % 1_000_000_000.
SubsecondNanos(t) == RustRem(t, NANOS)

\* convert_new_consensus_state_to_old: Time::from_unix_timestamp(secs,
\* nanos as u32).unwrap(); from_unix_timestamp refuses nanos >= 10^9.
NewToOld(t) ==
    LET nanos == AsU(SubsecondNanos(t))
    IN  IF nanos < NANOS THEN UnixTimestamp(t) * NANOS + nanos ELSE Panic

\* convert_old_consensus_state_to_new: Timestamp { seconds, nanos as i32 }
\* then try_into().unwrap(), which refuses nanos outside 0..10^9-1.
OldToNew(t) ==
    LET nanos == AsI(SubsecondNanos(t))
    IN  IF 0 <= nanos /\ nanos < NANOS
        THEN [seconds |-> UnixTimestamp(t), nanos |-> nanos]
        ELSE Panic

\* ibc_new Height::new(..).unwrap(): the new Height refuses revision
\* height 0; the old Height::new takes any pair.
NewHeightValid(hgt) == hgt.revision_height # 0

\* convert_new_consensus_state_to_old, by variant.  The Mock header keeps
\* its height and its timestamp, ibc Timestamp::from_nanoseconds(n).
NewToOldState(c) ==
    CASE c.kind = "Tendermint" ->
            IF NewToOld(c.ts) = Panic THEN Panic
            ELSE [kind |-> "Tendermint", ts |-> NewToOld(c.ts)]
      [] c.kind = "Mock" -> [kind |-> "Mock", height |-> c.height, nanos |-> c.nanos]
      [] c.kind = "Guest" -> Panic

\* convert_old_consensus_state_to_new, by variant.
OldToNewState(c) ==
    CASE c.kind = "Tendermint" ->
            LET r == OldToNew(c.ts)
            IN  IF r = Panic THEN Panic
                ELSE [kind |-> "Tendermint", seconds |-> r.seconds, nanos |-> r.nanos]
      [] c.kind = "Mock" ->
            IF NewHeightValid(c.height)
            THEN [kind |-> "Mock", height |-> c.height, nanos |-> c.nanos]
            ELSE Panic
      [] c.kind = "Other" -> Panic

Init == csNew \in NewStates /\ csOld \in OldStates /\ old = None /\ new = None

\* The relayer converts a Solana consensus state to the old type.
ConvertNewToOld == old = None /\ old' = NewToOldState(csNew) /\ UNCHANGED <<csNew, csOld, new>>

\* The relayer converts an old consensus state to the Solana type.
ConvertOldToNew == new = None /\ new' = OldToNewState(csOld) /\ UNCHANGED <<csNew, csOld, old>>

Next == ConvertNewToOld \/ ConvertOldToNew

Spec == Init /\ [][Next]_vars

(***************************************************************************)
(* Properties.                                                             *)
(***************************************************************************)

\* The instant a converted new-type state stands for: a Tendermint
\* Timestamp's seconds and nanos put back together.
AsInstant(r) ==
    IF r.kind = "Tendermint"
    THEN [kind |-> "Tendermint", ts |-> r.seconds * NANOS + r.nanos]
    ELSE r

\* Converting a Tendermint or Mock consensus state, in either direction,
\* neither panics nor moves its timestamp or its height: the old type
\* gets the same state, the new type seconds and nanoseconds that make up
\* the same instant.  (Guest and the other old variants panic by design.)
ConversionsPreserveState ==
    /\ old # None /\ csNew.kind # "Guest" => old = csNew
    /\ new # None /\ csOld.kind # "Other" => new # Panic /\ AsInstant(new) = csOld

=============================================================================
