------------------------------- MODULE FairPlay -------------------------------
(***************************************************************************)
(* The provably fair side of a round: the crash point computed from the    *)
(* round's HMAC (game/crash_algorithm.go), the chain of server seeds that  *)
(* are announced before they are used and revealed after the flight        *)
(* (game/phases.go), the crash point as it is stored and published         *)
(* (utils/money.go, models/round.go), and the check a player can run.      *)
(*                                                                         *)
(* A server seed is a number in the order of drawing; its SHA256 identifies *)
(* it.  An HMAC is any of Hashes: digits in base Base (256), of which the  *)
(* first PrefixLen (4) are the number the formula uses.                    *)
(***************************************************************************)
EXTENDS Integers, Sequences, FiniteSets, SequencesExt

CONSTANTS
    Base, PrefixLen,    \* 256 and 4 in the code
    Hashes,             \* HMACs that may come out, sequences of digits
    Divisor,            \* instantCrashDivisor, 100 in the code
    CapX100,            \* the cap of 1,000,000 (x100)
    LossyX100,          \* crash points m whose double m/100.0 * 100 floors to m-1
    MaxRounds,          \* bound: rounds that are saved
    MaxSeeds,           \* bound: server seeds that are drawn
    MaxFaults           \* bound: failed database calls and restarts

Digits == 0..(Base - 1)

ASSUME HashAssumption == /\ Base \in Nat \ {0, 1} /\ PrefixLen \in Nat \ {0} /\ Divisor \in Nat \ {0}
                         /\ \A s \in Hashes : s \in Seq(Digits) /\ Len(s) >= PrefixLen
ASSUME PointAssumption == /\ CapX100 \in Nat /\ CapX100 > 101
                          /\ LossyX100 \subseteq {m \in Nat : m > 101} /\ CapX100 \notin LossyX100
ASSUME BoundAssumption == MaxRounds \in Nat /\ MaxSeeds \in Nat /\ MaxFaults \in Nat

VARIABLES
    pc,         \* the phase the engine is about to play
    next,       \* Engine.nextServerSeed, 0 when it is ""
    drawn,      \* how many server seeds have been drawn
    cur,        \* the current round, an index of rounds, 0 for nil
    rounds,     \* collection rounds, in the order of insertion
    started,    \* the seed whose hash the last round_start carried, 0 for none
    announced,  \* the seed whose hash the last round_crash announced, likewise
    restarted,  \* whether the process has died since then; observes only
    revealed,   \* seeds that a round_crash has revealed
    faults      \* bound used up

vars == <<pc, next, drawn, cur, rounds, started, announced, restarted, revealed, faults>>

-----------------------------------------------------------------------------
(* The algorithm *)

\* The number a sequence of digits spells, most significant digit first.
ValueOf(s) == FoldLeft(LAMBDA n, d : n * Base + d, 0, s)

\* The largest prefix, and how many there are: 2^32 in the code.
AllOnes == ValueOf([i \in 1..PrefixLen |-> Base - 1])
Word    == AllOnes + 1

\* isDivisible: the remainder is carried from digit to digit.
Divisible(s) == FoldLeft(LAMBDA r, d : (r * Base + d) % Divisor, 0, s) = 0

Prefix(s) == ValueOf(SubSeq(s, 1, PrefixLen))

\* Mutant: no cap.
QuotientUncapped(h) ==
    LET d == (h + 1) % Word
    IN  IF d = 0 THEN CapX100 ELSE (100 * Word) \div d

\* Word / (h+1) in hundredths.  h+1 is a uint32: the largest h gives 0, the
\* quotient is infinite and ends at the cap.
Quotient(h) ==
    LET d == (h + 1) % Word
    IN  IF d = 0 \/ (100 * Word) \div d > CapX100 THEN CapX100 ELSE (100 * Word) \div d

\* Mutant: nothing keeps the formula away from 1.00.
CrashPointUnclamped(s) == IF Divisible(s) THEN 100 ELSE Quotient(Prefix(s))

\* Mutant: the pre-check is forgotten and no round crashes at once.
CrashPointAlwaysFlies(s) == IF Quotient(Prefix(s)) < 101 THEN 101 ELSE Quotient(Prefix(s))

\* GenerateCrashPoint, in hundredths.
CrashPoint(s) ==
    IF Divisible(s) THEN 100
    ELSE IF Quotient(Prefix(s)) < 101 THEN 101 ELSE Quotient(Prefix(s))

\* MultiplierToX100 of the double m/100.0.
ToX100(m) == IF m \in LossyX100 THEN m - 1 ELSE m

\* VerifyRound for a round as it is published: the seed hash and the HMAC are
\* the round's own, so the crash point decides.
Verify(r) == CrashPoint(r.hash) = r.x100

-----------------------------------------------------------------------------
Seeds     == 1..MaxSeeds
RoundType == [seed : Seeds, hash : Hashes, x100 : 100..CapX100, status : {"waiting", "running", "crashed"}]

(* TypeOK: types, and no stored crash point is below 1.00 or above the cap. *)
TypeOK ==
    /\ pc \in {"wait", "fly", "settle", "reveal"} /\ next \in Seeds \union {0}
    /\ drawn \in 0..MaxSeeds /\ cur \in 0..Len(rounds)
    /\ rounds \in Seq(RoundType) /\ Len(rounds) <= MaxRounds
    /\ started \in Seeds \union {0} /\ announced \in Seeds \union {0}
    /\ restarted \in BOOLEAN /\ revealed \subseteq Seeds /\ faults \in 0..MaxFaults

Init ==
    /\ pc = "wait" /\ next = 0 /\ drawn = 0 /\ cur = 0 /\ rounds = <<>>
    /\ started = 0 /\ announced = 0 /\ restarted = FALSE /\ revealed = {} /\ faults = 0

Goto(from, to) == pc = from /\ pc' = to
Fault == faults < MaxFaults /\ faults' = faults + 1

\* Mutants: the announced seed is not used, or stays there for the next round.
FreshSeed(s) == /\ s = drawn + 1 /\ drawn < MaxSeeds /\ drawn' = s /\ next' = 0
HeldSeed(s)  == /\ s = IF next # 0 THEN next ELSE drawn + 1
                /\ drawn' = (IF next # 0 THEN drawn ELSE s) /\ drawn' <= MaxSeeds
                /\ next' = s

\* generateNewRound takes the announced seed, or draws one.
TakeSeed(s) == /\ s = IF next # 0 THEN next ELSE drawn + 1
               /\ drawn' = (IF next # 0 THEN drawn ELSE s) /\ drawn' <= MaxSeeds
               /\ next' = 0

Insert(s, hash) ==
    /\ Len(rounds) < MaxRounds
    /\ rounds' = Append(rounds, [seed |-> s, hash |-> hash,
                                 x100 |-> ToX100(CrashPoint(hash)), status |-> "waiting"])

SetStatus(status) == rounds' = [rounds EXCEPT ![cur].status = status]

\* waitingPhase: the round is saved and its seed's hash broadcast.
StartRound(s, hash) ==
    /\ Goto("wait", "fly")
    /\ TakeSeed(s) /\ Insert(s, hash)
    /\ cur' = Len(rounds) + 1 /\ started' = s
    /\ UNCHANGED <<announced, restarted, revealed, faults>>

\* The round cannot be saved, though the insert may have been applied: its
\* seed is used up, and the engine goes on with the current round, if any.
SaveFails(s, hash) ==
    /\ pc = "wait" /\ pc' = IF cur = 0 THEN "wait" ELSE "fly"
    /\ Fault /\ TakeSeed(s)
    /\ UNCHANGED rounds \/ Insert(s, hash)
    /\ UNCHANGED <<cur, started, announced, restarted, revealed>>

Fly == /\ Goto("fly", "settle") /\ SetStatus("running")
       /\ UNCHANGED <<next, drawn, cur, started, announced, restarted, revealed, faults>>

FlyUnrecorded == /\ Goto("fly", "settle") /\ Fault
                 /\ UNCHANGED <<next, drawn, cur, rounds, started, announced, restarted, revealed>>

Settle == /\ Goto("settle", "reveal") /\ SetStatus("crashed")
          /\ UNCHANGED <<next, drawn, cur, started, announced, restarted, revealed, faults>>

SettleUnrecorded == /\ Goto("settle", "reveal") /\ Fault
                    /\ UNCHANGED <<next, drawn, cur, rounds, started, announced, restarted, revealed>>

\* The end of crashedPhase: the next seed is drawn, and round_crash reveals
\* this round's seed and announces the hash of the next.
Reveal ==
    /\ Goto("reveal", "wait") /\ drawn < MaxSeeds
    /\ drawn' = drawn + 1 /\ next' = drawn + 1 /\ announced' = drawn + 1 /\ restarted' = FALSE
    /\ revealed' = revealed \union {rounds[cur].seed}
    /\ UNCHANGED <<cur, rounds, started, faults>>

\* The process dies and comes back with an empty memory: the announced seed is
\* lost, though the players have heard its hash.
Restart ==
    /\ Fault /\ pc' = "wait" /\ next' = 0 /\ cur' = 0 /\ restarted' = TRUE
    /\ UNCHANGED <<drawn, rounds, started, announced, revealed>>

Next == \/ \E s \in Seeds, hash \in Hashes : StartRound(s, hash) \/ SaveFails(s, hash)
        \/ Fly \/ FlyUnrecorded \/ Settle \/ SettleUnrecorded \/ Reveal \/ Restart

Spec == Init /\ [][Next]_vars

-----------------------------------------------------------------------------
(* Properties *)

(* ChainUnbroken: the seed hash a round starts with is the one the last    *)
(* round_crash announced (phases.go:173), also after rounds that could not *)
(* be saved and rounds that were flown again.  The one exception is a      *)
(* restart since that round_crash: the seed is held in memory only         *)
(* (phases.go:161), and the next round breaks the pre-commitment.          *)
ChainUnbroken ==
    [][(started' # started /\ announced # 0) => started' = announced \/ restarted]_vars

(* SeedsStartSecret: a round starts with a seed that has been revealed     *)
(* neither by a round_crash nor with a crashed round of the collection,    *)
(* and that no other round of the collection carries.                      *)
SeedsStartSecret ==
    [][started' # started =>
          /\ started' \notin revealed'
          /\ \A i \in DOMAIN rounds : rounds[i].seed # started']_vars

Instant(r) == r.x100 = 100

(* InstantIffDivisible: a round crashes at 1.00 exactly when its HMAC, as  *)
(* one number, is divisible by the divisor: the formula, its truncation    *)
(* and the conversion to hundredths never produce 1.00.                    *)
InstantIffDivisible ==
    \A i \in DOMAIN rounds : Instant(rounds[i]) <=> ValueOf(rounds[i].hash) % Divisor = 0

\* Every HMAC as long as those of the instance, the crash point that is stored
\* for each, the last multiplier below it, and how many HMACs fly beyond x.
AllHashes == UNION {[1..n -> Digits] : n \in {Len(s) : s \in Hashes}}
Points    == [s \in AllHashes |-> ToX100(CrashPoint(s))]
Targets   == {Points[s] - 1 : s \in Hashes}
Beyond    == [x \in Targets |-> Cardinality({s \in AllHashes : Points[s] > x})]

(* HouseProfitable: "house-profitable" (crash_algorithm.go:34).  Whoever     *)
(* always cashes out at the last multiplier below the crash point of some   *)
(* round gets back, on average over all HMACs, no more than was staked: the *)
(* divisible HMACs cost the players more than the draw whose increment      *)
(* wraps to the cap (crash_algorithm.go:57) gives them.                     *)
HouseProfitable ==
    \A i \in DOMAIN rounds :
        LET x == rounds[i].x100 - 1
        IN  x >= 100 => x * Beyond[x] <= 100 * Cardinality(AllHashes)

(* What the code does not guarantee *)

(* PublishedRoundVerifies: whoever checks a revealed round with the values *)
(* that were published for it finds it valid.                              *)
PublishedRoundVerifies ==
    \A i \in DOMAIN rounds : rounds[i].seed \in revealed => Verify(rounds[i])
=============================================================================
