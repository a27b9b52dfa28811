------------------------------ MODULE Retarget ------------------------------
(***************************************************************************)
(* The arithmetic of headers: compact targets (internal/crypto/target.go), *)
(* the four retargeting algorithms (internal/difficulty), the expected     *)
(* bits of the proof-of-work engine (internal/consensus/pow/engine.go) and *)
(* the timestamp rules (internal/consensus/validation.go).                 *)
(*                                                                         *)
(* A header is a record with its time and its bits; anc[h] is the header   *)
(* that getAncestor returns for height h, for h up to the tip.  Bits are   *)
(* the pair of the two fields of the 32-bit word, exponent and mantissa.   *)
(* The code works in bytes; the base of the digits is a constant here, so  *)
(* that targets stay small.                                                *)
(***************************************************************************)
EXTENDS Middle

CONSTANTS
    Base,           \* values of a digit (256)
    HashDigits,     \* digits of a hash (32)
    MedianCount,    \* medianCount (11)
    Interval,       \* params.RetargetInterval
    Spacing,        \* params.TargetBlockSpacing in seconds
    Drift,          \* params.MaxTimeFutureDrift in seconds
    NoRetarget,     \* params.NoRetarget
    InitialBits,    \* params.InitialBits
    MinBits,        \* params.MinBits, the lowest difficulty
    Activation      \* params.ActivationHeights["mindiffblocks"]

ASSUME RetargetAssumption ==
    /\ Base \in Nat /\ Base % 2 = 0 /\ Base > 0
    /\ Interval \in Nat \ {0} /\ Spacing \in Nat \ {0} /\ MedianCount \in Nat \ {0}
    /\ HashDigits \in Nat /\ Drift \in Nat /\ Activation \in Nat /\ NoRetarget \in BOOLEAN

Lesser(x, y) == IF x < y THEN x ELSE y

Greater(x, y) == IF x > y THEN x ELSE y

-----------------------------------------------------------------------------
(* Compact targets.  The mantissa has three digits, its top bit is the     *)
(* sign.                                                                   *)
SignBit == (Base * Base * Base) \div 2

CompactToBig(c) ==
    LET mantissa == c.mant % SignBit
        overflow == /\ mantissa # 0
                    /\ \/ c.exp > HashDigits + 2
                       \/ mantissa >= Base /\ c.exp > HashDigits + 1
                       \/ mantissa >= Base * Base /\ c.exp > HashDigits
    IN  IF c.mant >= SignBit \/ overflow THEN 0
        ELSE IF c.exp <= 3 THEN mantissa \div Base ^ (3 - c.exp)
        ELSE mantissa * Base ^ (c.exp - 3)

(* The number of digits of a positive number.                              *)
DigitCount(n) == CHOOSE d \in 1..(HashDigits + 1) : Base ^ (d - 1) <= n /\ n < Base ^ d

Mantissa(n, d) == IF d <= 3 THEN n * Base ^ (3 - d) ELSE n \div Base ^ (d - 3)

BigToCompact(n) ==
    IF n = 0 THEN [exp |-> 0, mant |-> 0]
    ELSE LET d == DigitCount(n)  m == Mantissa(n, d)
         IN  IF m >= SignBit THEN [exp |-> d + 1, mant |-> m \div Base]
             ELSE [exp |-> d, mant |-> m]

CalcWork(bits) ==
    LET target == CompactToBig(bits)
    IN  IF target <= 0 THEN 0 ELSE Base ^ HashDigits \div (target + 1)

-----------------------------------------------------------------------------
(* The median time of the last MedianCount headers.                        *)
CalcMedianTimePast(h, anc) ==
    Median([i \in Greater(0, h + 1 - MedianCount)..h |-> anc[i].time])

ValidateHeaderTimestamp(header, tipHeight, anc, now, rule) ==
    /\ header.time <= now + Drift
    /\ CASE rule = "prev+1" -> header.time > anc[tipHeight].time
         [] rule = "median-11" -> header.time > CalcMedianTimePast(tipHeight, anc)

-----------------------------------------------------------------------------
(* What all four retargeters end with.                                     *)
ClampTarget(target) ==
    BigToCompact(Lesser(Greater(target, 1), CompactToBig(MinBits)))

Within(low, x, high) == Lesser(Greater(x, low), high)

Target(header) == CompactToBig(header.bits)

(* difficulty/bitcoin: every Interval blocks, from the time the window     *)
(* took, with both of its ends capped.                                     *)
NextBitsBitcoin(tipHeight, anc) ==
    LET tip == anc[tipHeight]
        first == tipHeight - (Interval - 1)
        Capped(h) == Lesser(anc[h].time, CalcMedianTimePast(h, anc) + Drift)
        timespan == Interval * Spacing
        actual == Within(timespan \div 4, Capped(tipHeight) - Capped(first), timespan * 4)
    IN  IF NoRetarget THEN InitialBits
        ELSE IF (tipHeight + 1) % Interval # 0 THEN tip.bits
        ELSE ClampTarget((Target(tip) * actual) \div timespan)

(* difficulty/dgw: every block, from the mean target of the window.        *)
NextBitsDgw(tipHeight, anc) ==
    LET window == (tipHeight - Interval + 1)..tipHeight
        mean == SumFunction([h \in window |-> Target(anc[h])]) \div Interval
        timespan == Interval * Spacing
        actual == Within(timespan \div 3, anc[tipHeight].time - anc[tipHeight - Interval].time,
                         timespan * 3)
    IN  IF NoRetarget \/ tipHeight < Interval THEN InitialBits
        ELSE ClampTarget((mean * actual) \div timespan)

(* difficulty/digishield: every block, from the last solve time, damped.   *)
NextBitsDigishield(tipHeight, anc) ==
    LET n == IF Interval < 2 THEN 4 ELSE Interval
        solve == Greater(anc[tipHeight].time - anc[tipHeight - 1].time, 1)
        damped == Within(Spacing \div 4, ((n - 1) * Spacing + solve) \div n, Spacing * 4)
    IN  IF NoRetarget \/ tipHeight < 1 THEN InitialBits
        ELSE ClampTarget((Target(anc[tipHeight]) * damped) \div Spacing)

(* difficulty/lwma: every block, from the solve times of the window, the   *)
(* later ones counting more; a time that does not advance is taken as one  *)
(* second later than the one before.                                       *)
NextBitsLwma(tipHeight, anc) ==
    LET start == tipHeight - Interval
        ts[i \in 0..Interval] ==
            IF i = 0 THEN anc[start].time ELSE Greater(anc[start + i].time, ts[i - 1] + 1)
        weighted == SumFunction([i \in 1..Interval |-> i * Lesser(ts[i] - ts[i - 1], 6 * Spacing)])
        targets == SumFunction([i \in 1..Interval |-> Target(anc[start + i])])
        least == (Interval * Interval * Spacing) \div 20
    IN  IF NoRetarget \/ tipHeight < Interval THEN InitialBits
        ELSE ClampTarget((targets * 200 * Greater(weighted, least))
                            \div (Interval * Interval * (Interval + 1) * Spacing * 99))

CalcNextBits(algo, tipHeight, anc) ==
    CASE algo = "bitcoin" -> NextBitsBitcoin(tipHeight, anc)
      [] algo = "dgw" -> NextBitsDgw(tipHeight, anc)
      [] algo = "digishield" -> NextBitsDigishield(tipHeight, anc)
      [] algo = "lwma" -> NextBitsLwma(tipHeight, anc)

(* The bits of the last block of the window that was not mined at the      *)
(* lowest difficulty, or of the first block of the window.                 *)
LastRealBits(tipHeight, anc) ==
    LET scan[h \in 0..tipHeight] ==
            IF h > 0 /\ h % Interval # 0 /\ anc[h].bits = MinBits THEN scan[h - 1]
            ELSE anc[h].bits
    IN  scan[tipHeight]

(* calcExpectedBits for a block with the given time on top of tipHeight;   *)
(* minDiff is params.AllowMinDifficultyBlocks.                             *)
CalcExpectedBits(algo, minDiff, time, tipHeight, anc) ==
    IF ~minDiff \/ tipHeight + 1 < Activation THEN CalcNextBits(algo, tipHeight, anc)
    ELSE IF time - anc[tipHeight].time > 2 * Spacing THEN MinBits
    ELSE IF (tipHeight + 1) % Interval = 0 THEN CalcNextBits(algo, tipHeight, anc)
    ELSE LastRealBits(tipHeight, anc)

(* FullValidateHeader: the engine's check of the bits, then the timestamp. *)
(* Whether the hash meets the target is a property of the header.          *)
FullValidateHeader(header, algo, minDiff, rule, tipHeight, anc, now) ==
    /\ header.bits = CalcExpectedBits(algo, minDiff, header.time, tipHeight, anc)
    /\ ValidateHeaderTimestamp(header, tipHeight, anc, now, rule)

=============================================================================
