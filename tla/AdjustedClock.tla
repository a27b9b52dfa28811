--------------------------- MODULE AdjustedClock ---------------------------
(***************************************************************************)
(* The network-adjusted clock (internal/timeadjust): the median of the     *)
(* offsets that peers report in their version messages is added to the     *)
(* local time.                                                             *)
(***************************************************************************)
EXTENDS Sequences, Middle

CONSTANTS
    Peer,               \* peer addresses
    MinSamples,         \* samples needed before the median counts
    MaxSamples,         \* samples kept
    MaxAllowedOffset    \* largest median applied

ASSUME ClockAssumption ==
    /\ MinSamples \in Nat /\ MaxSamples \in Nat \ {0}
    /\ MaxAllowedOffset \in Nat

VARIABLES
    offsets,            \* the samples, oldest first
    known,              \* the addresses that have given one
    median              \* the offset applied

clockVars == <<offsets, known, median>>

(* New: the local node's own zero offset is the first sample.              *)
ClockInit == offsets = <<0>> /\ known = {} /\ median = 0

(* recalcMedian: too large a median is replaced by zero, and below         *)
(* MinSamples the old value stays.                                         *)
RecalcMedian(samples) ==
    IF Len(samples) < MinSamples THEN median
    ELSE IF Median(samples) \in (-MaxAllowedOffset)..MaxAllowedOffset THEN Median(samples)
    ELSE 0

(* AddSample, at the end of the handshake with p: one sample per address.  *)
AddSample(p, offset) ==
    /\ p \notin known
    /\ known' = known \cup {p}
    /\ offsets' = Append(IF Len(offsets) >= MaxSamples THEN Tail(offsets) ELSE offsets, offset)
    /\ median' = RecalcMedian(offsets')

(* Now, when the local clock shows time.                                   *)
AdjustedNow(time) == time + median

=============================================================================
