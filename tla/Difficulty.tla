----------------------------- MODULE Difficulty -----------------------------
(***************************************************************************)
(* A chain of headers growing under one of the retargeting algorithms: who *)
(* mines next takes any time between blocks and any timestamp the rules    *)
(* leave them, and the bits follow.  On every chain so reached, what the   *)
(* node's own miner (MineOne) and its getblocktemplate put into a header   *)
(* is compared with what its validation demands.                           *)
(***************************************************************************)
EXTENDS Retarget

CONSTANTS
    Algos,          \* coinparams.DifficultyAlgorithm, the possible values
    Rules,          \* params.MinTimestampRule, the possible values
    MinDiffs,       \* params.AllowMinDifficultyBlocks, the possible values
    Waits,          \* the times that may pass between two blocks
    MaxHeight       \* bound on the height of the chain

VARIABLES
    net,            \* the network's algorithm, timestamp rule and minDiff flag
    chain,          \* the headers by height
    now             \* the clock

vars == <<net, chain, now>>

Nets == [algo : Algos, rule : Rules, minDiff : MinDiffs]

Tip == Cardinality(DOMAIN chain) - 1

Valid(header, time) ==
    FullValidateHeader(header, net.algo, net.minDiff, net.rule, Tip, chain, time)

GenesisTime == 0

Init ==
    /\ net \in Nets
    /\ chain = [h \in {0} |-> [time |-> GenesisTime, bits |-> InitialBits]]
    /\ now = GenesisTime

(* The earliest time the rule allows for the next block, the time it is,   *)
(* and the latest.                                                         *)
Stamps(time) ==
    {time, time + Drift,
     1 + IF net.rule = "prev+1" THEN chain[Tip].time ELSE CalcMedianTimePast(Tip, chain)}

Header(time) ==
    [time |-> time, bits |-> CalcExpectedBits(net.algo, net.minDiff, time, Tip, chain)]

(* Somebody mines a block after a while, and it is accepted.               *)
Extend(wait) ==
    /\ Tip < MaxHeight
    /\ now' = now + wait
    /\ \E t \in Stamps(now') :
          /\ Valid(Header(t), now')
          /\ chain' = [h \in 0..(Tip + 1) |-> IF h = Tip + 1 THEN Header(t) ELSE chain[h]]
    /\ UNCHANGED net

Next == \E wait \in Waits : Extend(wait)

Spec == Init /\ [][Next]_vars

-----------------------------------------------------------------------------
(* As MinedHeader, but the timestamp is the clock's.                       *)
MinedHeader_Clock == Header(now)

(* MineOne's header on the current tip: PrepareHeader after the timestamp  *)
(* has been set.                                                           *)
MinedHeader == Header(IF now <= chain[Tip].time THEN chain[Tip].time + 1 ELSE now)

(* As Template, but the median is that of the tip's parent.                *)
Template_PrevMedian ==
    [curtime |-> IF now <= chain[Tip].time THEN chain[Tip].time + 1 ELSE now,
     mintime |-> CalcMedianTimePast(Greater(0, Tip - 1), chain) + 1,
     bits |-> CalcNextBits(net.algo, Tip, chain)]

(* The fields of rpcGetBlockTemplate that end up in a header.              *)
Template ==
    [curtime |-> IF now <= chain[Tip].time THEN chain[Tip].time + 1 ELSE now,
     mintime |-> CalcMedianTimePast(Tip, chain) + 1,
     bits |-> CalcNextBits(net.algo, Tip, chain)]

(* handleBlockProposal's check of the bits, isValidMinDiffBits included.   *)
ProposalBitsOk(header) ==
    \/ header.bits = CalcNextBits(net.algo, Tip, chain)
    \/ /\ net.minDiff /\ Tip + 1 >= Activation
       /\ header.bits = MinBits
       /\ header.time - chain[Tip].time > 2 * Spacing

-----------------------------------------------------------------------------
(* What MineOne builds is accepted by the node's own validation, also when *)
(* the tip's timestamp is ahead of the clock, unless even the second after *)
(* the tip's timestamp is too far in the future.  And it can be mined:     *)
(* whatever the timestamps, no algorithm asks for a target that no hash    *)
(* meets or that is easier than the lowest difficulty, and the block       *)
(* counts as work.                                                         *)
MinedHeaderValid ==
    /\ chain[Tip].time < now + Drift => Valid(MinedHeader, now)
    /\ Target(MinedHeader) \in 1..CompactToBig(MinBits)
    /\ CalcWork(MinedHeader.bits) > 0

(* Without minimum-difficulty blocks, what a pool builds from a block      *)
(* template is accepted: the template's bits with its curtime, and under   *)
(* the median rule with any time from mintime up to the allowed drift; and *)
(* a proposal passes the check of its bits exactly when validation accepts *)
(* them.                                                                   *)
TemplateValid ==
    ~net.minDiff =>
        /\ chain[Tip].time < now + Drift =>
              Valid([time |-> Template.curtime, bits |-> Template.bits], now)
        /\ net.rule = "median-11" =>
              \A t \in Template.mintime..(now + Drift) :
                 Valid([time |-> t, bits |-> Template.bits], now)
        /\ \A b \in {Template.bits, MinBits, InitialBits} :
              LET header == [time |-> Template.curtime, bits |-> b]
              IN  ProposalBitsOk(header) <=> b = Header(header.time).bits

=============================================================================
