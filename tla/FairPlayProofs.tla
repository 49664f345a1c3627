--------------------------- MODULE FairPlayProofs ---------------------------
(***************************************************************************)
(* The chain of server seeds holds for any set of hashes, any crash point  *)
(* formula, and any number of rounds, failures and restarts; the crash     *)
(* point formula keeps its promises for hashes of any length.              *)
(***************************************************************************)
EXTENDS FairPlay, FoldTheorems, TLAPS

\* Only what the seeds need: nothing about the value of a crash point.
Stored == [seed : Seeds, hash : Hashes, x100 : {ToX100(CrashPoint(hash)) : hash \in Hashes},
           status : {"waiting", "running", "crashed"}]

SeedTypes ==
    /\ pc \in {"wait", "fly", "settle", "reveal"}
    /\ next \in Nat /\ drawn \in Nat /\ drawn <= MaxSeeds /\ announced \in Nat
    /\ rounds \in Seq(Stored) /\ cur \in Nat /\ cur <= Len(rounds)
    /\ started \in Nat

\* Until a restart, what is announced is held for the next round, unless that
\* round could not be saved and the engine has gone back to the current one;
\* without a current round nothing has been announced.
ChainInv ==
    /\ pc = "wait" /\ announced # 0 => next = announced \/ restarted
    /\ pc # "wait" => cur # 0
    /\ cur = 0 => announced = 0 \/ restarted

\* The held seed has been drawn and serves no round yet; a revealed seed has
\* served one.
SecretInv ==
    /\ next <= drawn
    /\ \A i \in DOMAIN rounds : rounds[i].seed <= drawn /\ rounds[i].seed # next
    /\ \A s \in revealed : \E i \in DOMAIN rounds : rounds[i].seed = s

IInv == SeedTypes /\ ChainInv /\ SecretInv

-----------------------------------------------------------------------------
\* Before the first round no seed has been drawn.
LEMMA InitIInv == Init => IInv
<1> SUFFICES ASSUME Init PROVE IInv
  OBVIOUS
<1>1. rounds = <<>> /\ rounds \in Seq(Stored) /\ Len(rounds) = 0 /\ DOMAIN rounds = {}
  BY DEF Init
<1> QED BY <1>1, BoundAssumption DEF Init, IInv, SeedTypes, ChainInv, SecretInv

\* The seeds of the collection are numbers above zero.
LEMMA SeedsTyped ==
  ASSUME SeedTypes PROVE \A i \in DOMAIN rounds : rounds[i].seed \in Nat \ {0}
<1>1. rounds \in Seq(Stored)
  BY DEF SeedTypes
<1>2. \A i \in DOMAIN rounds : rounds[i] \in Stored
  BY <1>1
<1>3. \A r \in Stored : r.seed \in Nat \ {0}
  BY BoundAssumption DEF Stored, Seeds
<1> QED BY <1>2, <1>3

\* A seed that is taken is drawn by now and serves no round of the collection.
LEMMA TakeSeedFresh ==
  ASSUME IInv, NEW s \in Seeds, TakeSeed(s)
  PROVE  /\ next' = 0 /\ drawn' \in Nat /\ drawn' <= MaxSeeds /\ drawn <= drawn' /\ s <= drawn'
         /\ \A i \in DOMAIN rounds : rounds[i].seed # s
         /\ s \notin revealed
<1>1. \A i \in DOMAIN rounds : rounds[i].seed \in Nat /\ rounds[i].seed <= drawn /\ rounds[i].seed # next
  BY SeedsTyped DEF IInv, SecretInv
<1>2. next \in Nat /\ drawn \in Nat /\ next <= drawn /\ drawn <= MaxSeeds /\ MaxSeeds \in Nat
  BY BoundAssumption DEF IInv, SeedTypes, SecretInv
<1>3. next' = 0 /\ drawn' <= MaxSeeds
  BY DEF TakeSeed
<1>4. CASE next # 0
  <2>1. s = next /\ drawn' = drawn
    BY <1>4 DEF TakeSeed
  <2> QED BY <1>1, <1>2, <1>3, <2>1 DEF IInv, SecretInv
<1>5. CASE next = 0
  <2>1. s = drawn + 1 /\ drawn' = drawn + 1
    BY <1>5 DEF TakeSeed
  <2>2. \A i \in DOMAIN rounds : rounds[i].seed # s
    BY <1>1, <1>2, <2>1
  <2> QED BY <1>2, <1>3, <2>1, <2>2 DEF IInv, SecretInv
<1> QED BY <1>4, <1>5

\* A new round is added at the end.
LEMMA InsertAppends ==
  ASSUME IInv, NEW s \in Seeds, NEW hash \in Hashes, Insert(s, hash)
  PROVE  /\ rounds' \in Seq(Stored) /\ Len(rounds') = Len(rounds) + 1
         /\ \A i \in DOMAIN rounds : i \in DOMAIN rounds' /\ rounds'[i] = rounds[i]
         /\ \A i \in DOMAIN rounds' : i \in DOMAIN rounds \/ rounds'[i].seed = s
<1> DEFINE r == [seed |-> s, hash |-> hash, x100 |-> ToX100(CrashPoint(hash)), status |-> "waiting"]
<1>1. r \in Stored /\ r.seed = s
  BY DEF Stored
<1>2. rounds \in Seq(Stored) /\ rounds' = Append(rounds, r)
  BY DEF Insert, IInv, SeedTypes
<1> HIDE DEF r
<1> QED BY <1>1, <1>2

\* A status write leaves the seeds alone.
LEMMA SetStatusKeepsSeeds ==
  ASSUME IInv, NEW status \in {"waiting", "running", "crashed"}, SetStatus(status)
  PROVE  /\ rounds' \in Seq(Stored) /\ Len(rounds') = Len(rounds)
         /\ \A i \in DOMAIN rounds : rounds'[i].seed = rounds[i].seed
<1>1. rounds \in Seq(Stored) /\ \A i \in DOMAIN rounds : rounds[i] \in Stored
  BY DEF IInv, SeedTypes
<1>2. \A i \in DOMAIN rounds : /\ [rounds[i] EXCEPT !.status = status] \in Stored
                               /\ [rounds[i] EXCEPT !.status = status].seed = rounds[i].seed
  BY <1>1 DEF Stored
<1>3. rounds' = [i \in DOMAIN rounds |-> IF i = cur THEN [rounds[i] EXCEPT !.status = status] ELSE rounds[i]]
  BY <1>1 DEF SetStatus
<1> QED BY <1>1, <1>2, <1>3

\* One case for each action.
LEMMA StepIInv == IInv /\ [Next]_vars => IInv'
<1> SUFFICES ASSUME IInv, [Next]_vars PROVE IInv'
  OBVIOUS
<1> USE BoundAssumption
<1>d. \A q \in Seq(Stored) : DOMAIN q = 1..Len(q) /\ Len(q) \in Nat
  OBVIOUS
<1>0. CASE UNCHANGED vars
  BY <1>0 DEF vars, IInv, SeedTypes, ChainInv, SecretInv
<1>1. ASSUME NEW s \in Seeds, NEW hash \in Hashes, StartRound(s, hash) PROVE IInv'
  <2>1. TakeSeed(s) /\ Insert(s, hash)
    BY <1>1 DEF StartRound
  <2>2. SeedTypes'
    BY <1>1, <1>d, <2>1, TakeSeedFresh, InsertAppends DEF StartRound, Goto, IInv, SeedTypes, Seeds
  <2>3. ChainInv'
    BY <1>1, <1>d DEF StartRound, Goto, IInv, SeedTypes, ChainInv
  <2>4. SecretInv'
    <3>1. \A i \in DOMAIN rounds' : rounds'[i].seed <= drawn' /\ rounds'[i].seed # 0
      BY <2>1, SeedsTyped, TakeSeedFresh, InsertAppends DEF IInv, SeedTypes, SecretInv, Seeds
    <3> QED BY <1>1, <2>1, <3>1, TakeSeedFresh, InsertAppends DEF StartRound, IInv, SecretInv
  <2> QED BY <2>2, <2>3, <2>4 DEF IInv
<1>2. ASSUME NEW s \in Seeds, NEW hash \in Hashes, SaveFails(s, hash) PROVE IInv'
  <2>1. TakeSeed(s) /\ (UNCHANGED rounds \/ Insert(s, hash))
    BY <1>2 DEF SaveFails
  <2>2. SeedTypes'
    BY <1>2, <1>d, <2>1, TakeSeedFresh, InsertAppends DEF SaveFails, IInv, SeedTypes
  <2>3. ChainInv'
    BY <1>2 DEF SaveFails, IInv, SeedTypes, ChainInv
  <2>4. /\ \A i \in DOMAIN rounds' : rounds'[i].seed <= drawn' /\ rounds'[i].seed # 0
        /\ \A i \in DOMAIN rounds : i \in DOMAIN rounds' /\ rounds'[i] = rounds[i]
    <3>1. /\ \A i \in DOMAIN rounds : rounds[i].seed \in Nat \ {0} /\ rounds[i].seed <= drawn
          /\ s \in Nat \ {0} /\ s <= drawn' /\ drawn \in Nat /\ drawn' \in Nat /\ drawn <= drawn'
      BY <2>1, SeedsTyped, TakeSeedFresh DEF IInv, SeedTypes, SecretInv, Seeds
    <3>2. CASE UNCHANGED rounds
      BY <3>1, <3>2
    <3>3. CASE Insert(s, hash)
      BY <3>1, <3>3, InsertAppends
    <3> QED BY <2>1, <3>2, <3>3
  <2>5. SecretInv'
    BY <1>2, <2>1, <2>4, TakeSeedFresh DEF SaveFails, IInv, SecretInv
  <2> QED BY <2>2, <2>3, <2>5 DEF IInv
<1>3. ASSUME Fly \/ Settle PROVE IInv'
  <2>1. /\ rounds' \in Seq(Stored) /\ Len(rounds') = Len(rounds)
        /\ \A i \in DOMAIN rounds : rounds'[i].seed = rounds[i].seed
    BY <1>3, SetStatusKeepsSeeds DEF Fly, Settle
  <2>2. DOMAIN rounds' = DOMAIN rounds
    BY <1>d, <2>1 DEF IInv, SeedTypes
  <2> QED BY <1>3, <2>1, <2>2 DEF Fly, Settle, Goto, IInv, SeedTypes, ChainInv, SecretInv
<1>4. ASSUME FlyUnrecorded \/ SettleUnrecorded PROVE IInv'
  BY <1>4 DEF FlyUnrecorded, SettleUnrecorded, Goto, IInv, SeedTypes, ChainInv, SecretInv
<1>5. ASSUME Reveal PROVE IInv'
  <2>1. cur \in DOMAIN rounds
    BY <1>5, <1>d DEF Reveal, Goto, IInv, SeedTypes, ChainInv
  <2>2. \A i \in DOMAIN rounds : rounds[i].seed \in Nat
    BY SeedsTyped DEF IInv
  <2>3. SeedTypes' /\ ChainInv'
    BY <1>5, <2>1 DEF Reveal, Goto, IInv, SeedTypes, ChainInv
  <2>4. SecretInv'
    BY <1>5, <2>1, <2>2 DEF Reveal, Goto, IInv, SeedTypes, SecretInv
  <2> QED BY <2>3, <2>4 DEF IInv
<1>6. ASSUME Restart PROVE IInv'
  <2>1. \A i \in DOMAIN rounds : rounds[i].seed # 0
    BY SeedsTyped DEF IInv
  <2> QED BY <1>6, <2>1 DEF Restart, IInv, SeedTypes, ChainInv, SecretInv
<1> QED BY <1>0, <1>1, <1>2, <1>3, <1>4, <1>5, <1>6 DEF Next

\* The seed hash of a round_start is new or unchanged in every other step.
LEMMA OnlyStartRoundStarts ==
  ASSUME IInv, [Next]_vars, started' # started
  PROVE  \E s \in Seeds, hash \in Hashes : StartRound(s, hash) /\ started' = s
<1>1. \A s \in Seeds, hash \in Hashes : SaveFails(s, hash) => UNCHANGED started
  BY DEF SaveFails
<1>2. Fly \/ FlyUnrecorded \/ Settle \/ SettleUnrecorded \/ Reveal \/ Restart => UNCHANGED started
  BY DEF Fly, FlyUnrecorded, Settle, SettleUnrecorded, Reveal, Restart
<1>3. \A s \in Seeds, hash \in Hashes : StartRound(s, hash) => started' = s
  BY DEF StartRound
<1> QED BY <1>1, <1>2, <1>3 DEF Next, vars

\* ChainHolds: until a restart drops it, the seed the last round_crash announced
\* is the one the next round starts with.
THEOREM ChainHolds == Spec => ChainUnbroken
<1>1. IInv /\ [Next]_vars => [(started' # started /\ announced # 0) => started' = announced \/ restarted]_vars
  <2> SUFFICES ASSUME IInv, [Next]_vars, started' # started, announced # 0
               PROVE  started' = announced \/ restarted
    OBVIOUS
  <2>1. PICK s \in Seeds, hash \in Hashes : StartRound(s, hash) /\ started' = s
    BY OnlyStartRoundStarts
  <2>2. pc = "wait" /\ TakeSeed(s)
    BY <2>1 DEF StartRound, Goto
  <2> QED BY <2>1, <2>2 DEF TakeSeed, IInv, ChainInv, SeedTypes
<1> QED BY <1>1, InitIInv, StepIInv, PTL DEF Spec, ChainUnbroken

\* SeedsAreSecret: a round starts with a seed that has not been revealed and
\* that no other round carries.
THEOREM SeedsAreSecret == Spec => SeedsStartSecret
<1>1. IInv /\ [Next]_vars =>
        [started' # started =>
          /\ started' \notin revealed'
          /\ \A i \in DOMAIN rounds : rounds[i].seed # started']_vars
  <2> SUFFICES ASSUME IInv, [Next]_vars, started' # started
               PROVE  /\ started' \notin revealed'
                      /\ \A i \in DOMAIN rounds : rounds[i].seed # started'
    OBVIOUS
  <2>1. PICK s \in Seeds, hash \in Hashes : StartRound(s, hash) /\ started' = s
    BY OnlyStartRoundStarts
  <2>2. TakeSeed(s) /\ UNCHANGED revealed
    BY <2>1 DEF StartRound
  <2> QED BY <2>1, <2>2, TakeSeedFresh
<1> QED BY <1>1, InitIInv, StepIInv, PTL DEF Spec, SeedsStartSecret

-----------------------------------------------------------------------------
(* Numbers from digits *)

\* The values of the prefixes of s, and the remainders isDivisible carries.
Spells(v, s) == /\ v \in [0..Len(s) -> Nat] /\ v[0] = 0
                /\ \A i \in 1..Len(s) : v[i] = v[i - 1] * Base + s[i]
Carries(w, s) == /\ w \in [0..Len(s) -> Nat] /\ w[0] = 0
                 /\ \A i \in 1..Len(s) : w[i] = (w[i - 1] * Base + s[i]) % Divisor

\* Arithmetic of one digit.
LEMMA DigitStep ==
  ASSUME NEW m \in Nat, NEW d \in Digits
  PROVE  m * Base + d \in Nat /\ (m * Base + d) % Divisor \in Nat
<1>1. Base \in Nat /\ Divisor \in Nat \ {0} /\ d \in Nat
  BY HashAssumption DEF Digits
<1>2. m * Base \in Nat
  BY <1>1
<1>3. \A x \in Nat : x % Divisor \in Nat
  BY <1>1
<1> QED BY <1>1, <1>2, <1>3

\* The value of a sequence of digits is built up digit by digit.
LEMMA ValueSteps ==
  ASSUME NEW s \in Seq(Digits)
  PROVE  \E v : Spells(v, s) /\ ValueOf(s) = v[Len(s)]
<1> DEFINE n == Len(s)
           step == [i \in 1..n |-> [m \in Nat |-> m * Base + s[i]]]
           top(t) == CHOOSE x \in t : \A y \in t : x >= y
           Eqn(k) == k = [t \in SUBSET (DOMAIN s) |->
                            IF t = {} THEN 0 ELSE k[t \ {top(t)}] * Base + s[top(t)]]
<1>1. n \in Nat /\ DOMAIN s = 1..n /\ \A i \in 1..n : s[i] \in Digits
  OBVIOUS
<1>2. step \in [1..n -> [Nat -> Nat]] /\ \A i \in 1..n, m \in Nat : step[i][m] = m * Base + s[i]
  BY <1>1, DigitStep
<1>3. ValueOf(s) = (CHOOSE k : Eqn(k))[DOMAIN s]
  BY DEF ValueOf, FoldLeft, MapThenFoldSet, Max
<1> HIDE DEF n, step
<1>4. PICK g, v : FoldsLeft(g, v, n, Nat, step, 0)
  <2> DEFINE B == Nat
             zero == 0
  <2>1. zero \in B /\ step \in [1..n -> [B -> B]] /\ n \in Nat
    BY <1>1, <1>2
  <2> HIDE DEF B, zero
  <2>2. \E g, v : FoldsLeft(g, v, n, B, step, zero)
    BY <2>1, LeftFold
  <2> QED BY <2>2 DEF B, zero
<1>5. \A t \in SUBSET (1..n) : Top(1..n)[t] = top(t) /\ (t # {} => top(t) \in 1..n)
  <2>1. \A t \in SUBSET (1..n) : Top(1..n)[t] = top(t)
    BY DEF Top
  <2> QED BY <1>1, <2>1, TopIn
<1> HIDE DEF top
<1>6. Eqn(g)
  <2>1. ASSUME NEW t \in SUBSET (1..n), t # {} PROVE g[t] = g[t \ {top(t)}] * Base + s[top(t)]
    <3>1. g[t] = step[top(t)][g[t \ {top(t)}]]
      BY <1>4, <1>5, <2>1 DEF FoldsLeft, IsFold
    <3>2. g[t \ {top(t)}] \in Nat /\ top(t) \in 1..n
      BY <1>4, <1>5, <2>1 DEF FoldsLeft
    <3> QED BY <1>2, <3>1, <3>2
  <2>2. g[{}] = 0
    BY <1>4 DEF FoldsLeft, IsFold
  <2>3. g = [t \in SUBSET (1..n) |-> g[t]]
    BY <1>4 DEF FoldsLeft
  <2> QED BY <1>1, <2>1, <2>2, <2>3
<1>7. PICK k : Eqn(k) /\ ValueOf(s) = k[1..n]
  <2> HIDE DEF Eqn
  <2> QED BY <1>1, <1>3, <1>6
<1>8. /\ k[{}] = 0
      /\ \A t \in SUBSET (1..n) : t # {} => k[t] = k[t \ {top(t)}] * Base + s[top(t)]
  <2>1. {} \in SUBSET (1..n)
    OBVIOUS
  <2>2. \A t \in SUBSET (1..n) : k[t] = IF t = {} THEN 0 ELSE k[t \ {top(t)}] * Base + s[top(t)]
    BY <1>1, <1>7, Zenon
  <2> QED BY <2>1, <2>2, Zenon
<1>9. FollowsFold(k, 1..n, Nat, Top(1..n), step, 0)
  <2>1. ASSUME NEW t \in SUBSET (1..n), t # {}, k[t \ {top(t)}] \in Nat
        PROVE  k[t] = step[top(t)][k[t \ {top(t)}]]
    BY <1>2, <1>5, <1>8, <2>1
  <2>2. ASSUME NEW t \in SUBSET (1..n) PROVE Top(1..n)[t] = top(t)
    BY <1>5
  <2> QED BY <1>8, <2>1, <2>2 DEF FollowsFold
<1>10. k[1..n] = v[n]
  <2> HIDE DEF Eqn
  <2> DEFINE B == Nat
             zero == 0
  <2>1. zero \in B /\ step \in [1..n -> [B -> B]] /\ n \in Nat
    BY <1>1, <1>2
  <2>2. FoldsLeft(g, v, n, B, step, zero) /\ FollowsFold(k, 1..n, B, Top(1..n), step, zero)
    BY <1>4, <1>9
  <2> HIDE DEF B, zero
  <2> QED BY <2>1, <2>2, LeftFoldFound
<1>11. Spells(v, s)
  <2>1. \A i \in 1..n : v[i - 1] \in Nat
    BY <1>1, <1>4 DEF FoldsLeft
  <2> QED BY <1>2, <1>4, <2>1 DEF FoldsLeft, Spells, n
<1> QED BY <1>7, <1>10, <1>11 DEF n

\* Divisible carries the remainder from digit to digit.
LEMMA RemainderSteps ==
  ASSUME NEW s \in Seq(Digits)
  PROVE  \E w : Carries(w, s) /\ (Divisible(s) <=> w[Len(s)] = 0)
<1> DEFINE n == Len(s)
           step == [i \in 1..n |-> [m \in Nat |-> (m * Base + s[i]) % Divisor]]
           top(t) == CHOOSE x \in t : \A y \in t : x >= y
           Eqn(k) == k = [t \in SUBSET (DOMAIN s) |->
                            IF t = {} THEN 0 ELSE (k[t \ {top(t)}] * Base + s[top(t)]) % Divisor]
<1>1. n \in Nat /\ DOMAIN s = 1..n /\ \A i \in 1..n : s[i] \in Digits
  OBVIOUS
<1>2. /\ step \in [1..n -> [Nat -> Nat]]
      /\ \A i \in 1..n, m \in Nat : step[i][m] = (m * Base + s[i]) % Divisor
  BY <1>1, DigitStep
<1>3. Divisible(s) <=> (CHOOSE k : Eqn(k))[DOMAIN s] = 0
  BY DEF Divisible, FoldLeft, MapThenFoldSet, Max
<1> HIDE DEF n, step
<1>4. PICK g, w : FoldsLeft(g, w, n, Nat, step, 0)
  <2> DEFINE B == Nat
             zero == 0
  <2>1. zero \in B /\ step \in [1..n -> [B -> B]] /\ n \in Nat
    BY <1>1, <1>2
  <2> HIDE DEF B, zero
  <2>2. \E g, v : FoldsLeft(g, v, n, B, step, zero)
    BY <2>1, LeftFold
  <2> QED BY <2>2 DEF B, zero
<1>5. \A t \in SUBSET (1..n) : Top(1..n)[t] = top(t) /\ (t # {} => top(t) \in 1..n)
  <2>1. \A t \in SUBSET (1..n) : Top(1..n)[t] = top(t)
    BY DEF Top
  <2> QED BY <1>1, <2>1, TopIn
<1> HIDE DEF top
<1>6. Eqn(g)
  <2>1. ASSUME NEW t \in SUBSET (1..n), t # {}
        PROVE  g[t] = (g[t \ {top(t)}] * Base + s[top(t)]) % Divisor
    <3>1. g[t] = step[top(t)][g[t \ {top(t)}]]
      BY <1>4, <1>5, <2>1 DEF FoldsLeft, IsFold
    <3>2. g[t \ {top(t)}] \in Nat /\ top(t) \in 1..n
      BY <1>4, <1>5, <2>1 DEF FoldsLeft
    <3> QED BY <1>2, <3>1, <3>2
  <2>2. g[{}] = 0
    BY <1>4 DEF FoldsLeft, IsFold
  <2>3. g = [t \in SUBSET (1..n) |-> g[t]]
    BY <1>4 DEF FoldsLeft
  <2> QED BY <1>1, <2>1, <2>2, <2>3
<1>7. PICK k : Eqn(k) /\ (Divisible(s) <=> k[1..n] = 0)
  <2> HIDE DEF Eqn
  <2> QED BY <1>1, <1>3, <1>6
<1>8. /\ k[{}] = 0
      /\ \A t \in SUBSET (1..n) : t # {} => k[t] = (k[t \ {top(t)}] * Base + s[top(t)]) % Divisor
  <2>1. {} \in SUBSET (1..n)
    OBVIOUS
  <2>2. \A t \in SUBSET (1..n) :
           k[t] = IF t = {} THEN 0 ELSE (k[t \ {top(t)}] * Base + s[top(t)]) % Divisor
    BY <1>1, <1>7, Zenon
  <2> QED BY <2>1, <2>2, Zenon
<1>9. FollowsFold(k, 1..n, Nat, Top(1..n), step, 0)
  <2>1. ASSUME NEW t \in SUBSET (1..n), t # {}, k[t \ {top(t)}] \in Nat
        PROVE  k[t] = step[top(t)][k[t \ {top(t)}]]
    BY <1>2, <1>5, <1>8, <2>1
  <2>2. ASSUME NEW t \in SUBSET (1..n) PROVE Top(1..n)[t] = top(t)
    BY <1>5
  <2> QED BY <1>8, <2>1, <2>2 DEF FollowsFold
<1>10. k[1..n] = w[n]
  <2> HIDE DEF Eqn
  <2> DEFINE B == Nat
             zero == 0
  <2>1. zero \in B /\ step \in [1..n -> [B -> B]] /\ n \in Nat
    BY <1>1, <1>2
  <2>2. FoldsLeft(g, w, n, B, step, zero) /\ FollowsFold(k, 1..n, B, Top(1..n), step, zero)
    BY <1>4, <1>9
  <2> HIDE DEF B, zero
  <2> QED BY <2>1, <2>2, LeftFoldFound
<1>11. Carries(w, s)
  <2>1. \A i \in 1..n : w[i - 1] \in Nat
    BY <1>1, <1>4 DEF FoldsLeft
  <2> QED BY <1>2, <1>4, <2>1 DEF FoldsLeft, Carries, n
<1> QED BY <1>7, <1>10, <1>11 DEF n

\* A remainder does not see multiples of the divisor.
LEMMA ModShift ==
  ASSUME NEW x \in Nat, NEW k \in Nat, NEW D \in Nat \ {0}
  PROVE  (x + D * k) % D = x % D
<1>1. PICK q \in Nat, r \in 0..(D - 1) : x = D * q + r /\ x % D = r
  <2>1. x = D * (x \div D) + (x % D) /\ x \div D \in Nat /\ x % D \in 0..(D - 1)
    OBVIOUS
  <2> QED BY <2>1
<1>2. x + D * k = D * (q + k) + r
  BY <1>1
<1>3. q + k \in Nat
  BY <1>1
<1>4. (D * (q + k) + r) % D = r
  <2> DEFINE p == q + k
  <2>1. p \in Nat
    BY <1>3
  <2> HIDE DEF p
  <2>2. (D * p + r) % D = r
    BY <1>1, <2>1
  <2> QED BY <2>2 DEF p
<1> QED BY <1>1, <1>2, <1>4

\* One digit later the remainder is still the remainder of the value.
LEMMA ModStep ==
  ASSUME NEW x \in Nat, NEW d \in Digits
  PROVE  ((x % Divisor) * Base + d) % Divisor = (x * Base + d) % Divisor
<1>1. Base \in Nat /\ Divisor \in Nat \ {0} /\ d \in Nat
  BY HashAssumption DEF Digits
<1>2. PICK q \in Nat, r \in Nat : x = Divisor * q + r /\ x % Divisor = r
  <2>1. x = Divisor * (x \div Divisor) + (x % Divisor) /\ x \div Divisor \in Nat /\ x % Divisor \in Nat
    BY <1>1
  <2> QED BY <2>1
<1>3. r * Base + d \in Nat /\ q * Base \in Nat
  BY <1>1
<1>4. x * Base + d = (r * Base + d) + Divisor * (q * Base)
  BY <1>1, <1>2
<1>5. ((r * Base + d) + Divisor * (q * Base)) % Divisor = (r * Base + d) % Divisor
  BY <1>1, <1>3, ModShift
<1> QED BY <1>2, <1>4, <1>5

\* The remainder isDivisible ends with is that of the whole number.
LEMMA DivisibleMeans ==
  ASSUME NEW s \in Seq(Digits)
  PROVE  ValueOf(s) \in Nat /\ (Divisible(s) <=> ValueOf(s) % Divisor = 0)
<1>1. PICK v : Spells(v, s) /\ ValueOf(s) = v[Len(s)]
  BY ValueSteps
<1>2. PICK w : Carries(w, s) /\ (Divisible(s) <=> w[Len(s)] = 0)
  BY RemainderSteps
<1> DEFINE n == Len(s)
           Good == {i \in 0..n : w[i] = v[i] % Divisor}
<1>3. n \in Nat /\ \A i \in 1..n : s[i] \in Digits
  OBVIOUS
<1>4. 0 \in Good
  <2>1. Divisor \in Nat \ {0}
    BY HashAssumption
  <2>2. 0 % Divisor = 0
    BY <2>1
  <2> QED BY <1>1, <1>2, <1>3, <2>2 DEF Spells, Carries
<1>5. ASSUME NEW i \in 1..n, i - 1 \in Good PROVE i \in Good
  <2>1. /\ v[i - 1] \in Nat /\ v[i] = v[i - 1] * Base + s[i]
        /\ w[i - 1] = v[i - 1] % Divisor /\ w[i] = (w[i - 1] * Base + s[i]) % Divisor
    BY <1>1, <1>2, <1>3, <1>5 DEF Spells, Carries
  <2>2. ((v[i - 1] % Divisor) * Base + s[i]) % Divisor = (v[i - 1] * Base + s[i]) % Divisor
    BY <1>3, <2>1, ModStep
  <2> QED BY <1>3, <2>1, <2>2
<1>6. n \in Good
  <2> HIDE DEF n, Good
  <2> QED BY <1>3, <1>4, <1>5, SegmentInduction
<1>7. v[n] \in Nat
  BY <1>1, <1>3 DEF Spells
<1> QED BY <1>1, <1>2, <1>6, <1>7

\* No prefix is larger than the one of largest digits.
LEMMA LargestValue ==
  ASSUME NEW s \in Seq(Digits), Len(s) = PrefixLen
  PROVE  ValueOf(s) \in 0..AllOnes /\ AllOnes \in Nat
<1> DEFINE n == PrefixLen
           t == [i \in 1..PrefixLen |-> Base - 1]
<1>1. n \in Nat /\ Base \in Nat /\ Base - 1 \in Digits /\ \A d \in Digits : d \in Nat /\ d <= Base - 1
  BY HashAssumption DEF Digits
<1>2. t \in Seq(Digits) /\ Len(t) = n /\ \A i \in 1..n : t[i] = Base - 1
  BY <1>1
<1>3. AllOnes = ValueOf(t)
  BY DEF AllOnes
<1> HIDE DEF t
<1>4. PICK v : Spells(v, s) /\ ValueOf(s) = v[Len(s)]
  BY ValueSteps
<1>5. PICK m : Spells(m, t) /\ ValueOf(t) = m[Len(t)]
  BY <1>2, ValueSteps
<1> DEFINE Below == {i \in 0..n : v[i] <= m[i]}
<1>6. 0 \in Below
  BY <1>1, <1>4, <1>5 DEF Spells
<1>7. ASSUME NEW i \in 1..n, i - 1 \in Below PROVE i \in Below
  <2>1. s[i] \in Nat /\ s[i] <= Base - 1
    BY <1>1
  <2>2. /\ v[i - 1] \in Nat /\ v[i] = v[i - 1] * Base + s[i]
        /\ m[i - 1] \in Nat /\ m[i] = m[i - 1] * Base + (Base - 1) /\ v[i - 1] <= m[i - 1]
    BY <1>1, <1>2, <1>4, <1>5, <1>7 DEF Spells
  <2>3. ASSUME NEW a \in Nat, NEW b \in Nat, a <= b PROVE a * Base <= b * Base
    <3>1. PICK e \in Nat : b = a + e
      <4>1. b - a \in Nat /\ b = a + (b - a)
        BY <2>3
      <4> QED BY <4>1
    <3>2. b * Base = a * Base + e * Base /\ e * Base \in Nat /\ a * Base \in Nat
      BY <1>1, <3>1
    <3> QED BY <3>2
  <2>4. PICK a \in Nat, b \in Nat : a = v[i - 1] /\ b = m[i - 1] /\ a <= b
    BY <2>2
  <2>5. a * Base \in Nat /\ b * Base \in Nat /\ a * Base <= b * Base
    <3>1. a * Base <= b * Base
      BY <2>3, <2>4
    <3>2. ASSUME NEW x \in Nat PROVE x * Base \in Nat
      BY <1>1
    <3> QED BY <2>4, <3>1, <3>2
  <2>6. ASSUME NEW x \in Nat, NEW y \in Nat, x <= y PROVE x + s[i] <= y + (Base - 1)
    BY <1>1, <2>1, <2>6
  <2>7. a * Base + s[i] <= b * Base + (Base - 1)
    BY <2>5, <2>6
  <2>8. v[i] <= m[i]
    BY <2>2, <2>4, <2>7
  <2> QED BY <1>1, <2>8
<1>8. n \in Below
  <2> HIDE DEF n, Below
  <2> QED BY <1>1, <1>6, <1>7, SegmentInduction
<1>9. v[n] \in Nat /\ m[n] \in Nat /\ v[n] <= m[n]
  BY <1>1, <1>2, <1>4, <1>5, <1>8 DEF Spells
<1> QED BY <1>2, <1>3, <1>4, <1>5, <1>9

-----------------------------------------------------------------------------
(* The formula *)

\* The prefix of a hash is one of the draws.
LEMMA PrefixRange ==
  ASSUME NEW s \in Hashes
  PROVE  s \in Seq(Digits) /\ Prefix(s) \in 0..AllOnes /\ AllOnes \in Nat
<1>1. s \in Seq(Digits) /\ Len(s) >= PrefixLen /\ PrefixLen \in Nat \ {0}
  BY HashAssumption
<1>2. SubSeq(s, 1, PrefixLen) \in Seq(Digits) /\ Len(SubSeq(s, 1, PrefixLen)) = PrefixLen
  BY <1>1
<1>3. ValueOf(SubSeq(s, 1, PrefixLen)) \in 0..AllOnes /\ AllOnes \in Nat
  BY <1>2, LargestValue
<1> QED BY <1>1, <1>3 DEF Prefix

\* The increment of a draw wraps for the largest one only.
LEMMA Incremented ==
  ASSUME AllOnes \in Nat, NEW h \in 0..AllOnes
  PROVE  (h + 1) % Word = IF h = AllOnes THEN 0 ELSE h + 1
<1>1. Word = AllOnes + 1 /\ Word \in Nat \ {0}
  BY DEF Word
<1>2. CASE h = AllOnes
  <2>1. h + 1 = Word
    BY <1>1, <1>2
  <2>2. Word % Word = 0
    <3>1. (0 + Word * 1) % Word = 0 % Word /\ 0 % Word = 0
      BY <1>1, ModShift
    <3>2. 0 + Word * 1 = Word
      BY <1>1
    <3> QED BY <3>1, <3>2
  <2> QED BY <1>2, <2>1, <2>2
<1>3. CASE h # AllOnes
  <2>1. h + 1 \in 0..(Word - 1)
    BY <1>1, <1>3
  <2>2. \A d \in 0..(Word - 1) : d % Word = d
    BY <1>1
  <2> QED BY <1>3, <2>1, <2>2
<1> QED BY <1>2, <1>3

\* The quotient is at most the cap, and only the largest draw gives it another
\* value than the division without overflow.
LEMMA QuotientFacts ==
  ASSUME AllOnes \in Nat, NEW h \in 0..AllOnes
  PROVE  /\ Quotient(h) \in Nat /\ Quotient(h) <= CapX100
         /\ Quotient(h) = IF h = AllOnes \/ (100 * Word) \div (h + 1) > CapX100 THEN CapX100
                          ELSE (100 * Word) \div (h + 1)
<1> DEFINE x == 100 * Word
<1>1. x \in Nat /\ CapX100 \in Nat
  BY PointAssumption DEF Word
<1>2. Quotient(h) = LET d == IF h = AllOnes THEN 0 ELSE h + 1
                    IN  IF d = 0 \/ x \div d > CapX100 THEN CapX100 ELSE x \div d
  BY Incremented DEF Quotient
<1> HIDE DEF x
<1>3. h + 1 \in Nat \ {0} /\ x \div (h + 1) \in Nat
  BY <1>1
<1>4. Quotient(h) = IF h = AllOnes \/ x \div (h + 1) > CapX100 THEN CapX100 ELSE x \div (h + 1)
  BY <1>2, <1>3
<1>5. Quotient(h) \in Nat /\ Quotient(h) <= CapX100
  BY <1>1, <1>3, <1>4
<1> QED BY <1>4, <1>5 DEF x

\* A crash point is 1.00 for the divisible hashes and from 1.01 to the cap for
\* the others, and so is its stored form.
LEMMA PointFacts ==
  ASSUME NEW s \in Hashes
  PROVE  /\ CrashPoint(s) \in 100..CapX100
         /\ CrashPoint(s) = 100 <=> ValueOf(s) % Divisor = 0
         /\ ToX100(CrashPoint(s)) \in 100..CapX100
         /\ ToX100(CrashPoint(s)) = 100 <=> ValueOf(s) % Divisor = 0
<1>1. /\ CapX100 \in Nat /\ CapX100 > 101 /\ \A m \in LossyX100 : m \in Nat /\ m > 101
  BY PointAssumption
<1>2. Quotient(Prefix(s)) \in Nat /\ Quotient(Prefix(s)) <= CapX100
  BY PrefixRange, QuotientFacts
<1>3. Divisible(s) <=> ValueOf(s) % Divisor = 0
  BY PrefixRange, DivisibleMeans
<1>4. CrashPoint(s) = IF Divisible(s) THEN 100
                      ELSE IF Quotient(Prefix(s)) < 101 THEN 101 ELSE Quotient(Prefix(s))
  BY DEF CrashPoint
<1>5. CrashPoint(s) \in 100..CapX100 /\ (CrashPoint(s) = 100 <=> Divisible(s))
  BY <1>1, <1>2, <1>4
<1>6. ASSUME NEW m \in 100..CapX100
      PROVE  /\ ToX100(m) \in 100..CapX100
             /\ ToX100(m) = 100 <=> m = 100
  BY <1>1, <1>6 DEF ToX100
<1> HIDE DEF CrashPoint
<1> QED BY <1>3, <1>5, <1>6

\* The crash point as the comment above GenerateCrashPoint describes it, with
\* raw = 2^32 / (h+1) for every draw h (crash_algorithm.go:24).
Documented(s) ==
    LET raw == (100 * Word) \div (Prefix(s) + 1)
    IN  IF Divisible(s) THEN 100
        ELSE IF raw < 101 THEN 101 ELSE IF raw > CapX100 THEN CapX100 ELSE raw

\* OneDrawContradictsTheComment: the code computes the documented crash point
\* for every HMAC but those of the largest draw that are not divisible: there
\* h+1 wraps to zero (crash_algorithm.go:57) and the draw that should crash at
\* 1.01 flies to the cap instead.
THEOREM OneDrawContradictsTheComment ==
  ASSUME NEW s \in Hashes
  PROVE  IF Prefix(s) = AllOnes /\ ~Divisible(s)
         THEN CrashPoint(s) = CapX100 /\ Documented(s) = 101
         ELSE CrashPoint(s) = Documented(s)
<1> DEFINE raw == (100 * Word) \div (Prefix(s) + 1)
<1>1. Prefix(s) \in 0..AllOnes /\ AllOnes \in Nat /\ CapX100 \in Nat /\ CapX100 > 101
  BY PrefixRange, PointAssumption
<1>2. Quotient(Prefix(s)) = IF Prefix(s) = AllOnes \/ raw > CapX100 THEN CapX100 ELSE raw
  BY <1>1, QuotientFacts
<1>3. Prefix(s) = AllOnes => raw = 100
  <2>1. ASSUME NEW w \in Nat \ {0} PROVE (100 * w) \div w = 100
    OBVIOUS
  <2> QED BY <1>1, <2>1 DEF Word
<1>4. CrashPoint(s) = IF Divisible(s) THEN 100
                      ELSE IF Quotient(Prefix(s)) < 101 THEN 101 ELSE Quotient(Prefix(s))
  BY DEF CrashPoint
<1>5. Documented(s) = IF Divisible(s) THEN 100
                      ELSE IF raw < 101 THEN 101 ELSE IF raw > CapX100 THEN CapX100 ELSE raw
  BY DEF Documented
<1> DEFINE q == Quotient(Prefix(s))
<1> HIDE DEF raw, q
<1>6. CASE Divisible(s)
  BY <1>4, <1>5, <1>6
<1>7. CASE ~Divisible(s) /\ Prefix(s) = AllOnes
  <2>1. q = CapX100 /\ raw = 100
    BY <1>2, <1>3, <1>7 DEF q
  <2>2. CrashPoint(s) = (IF q < 101 THEN 101 ELSE q) /\ Documented(s) = 101
    BY <1>4, <1>5, <1>7, <2>1 DEF q
  <2> QED BY <1>1, <1>7, <2>1, <2>2
<1>8. CASE ~Divisible(s) /\ Prefix(s) # AllOnes
  <2>1. q = IF raw > CapX100 THEN CapX100 ELSE raw
    BY <1>2, <1>8 DEF q
  <2>2. CrashPoint(s) = IF q < 101 THEN 101 ELSE q
    BY <1>4, <1>8 DEF q
  <2>3. raw \in Nat
    BY <1>1 DEF raw, Word
  <2> QED BY <1>1, <1>5, <1>8, <2>1, <2>2, <2>3
<1> QED BY <1>6, <1>7, <1>8

-----------------------------------------------------------------------------
(* The rounds of the collection *)

\* What is stored for a round is the converted crash point of its hash.
PointsStored == \A i \in DOMAIN rounds : rounds[i].x100 = ToX100(CrashPoint(rounds[i].hash))

PointInv == TypeOK /\ PointsStored

\* A new round has the type of rounds and its own crash point.
LEMMA InsertPoints ==
  ASSUME PointInv, NEW s \in Seeds, NEW hash \in Hashes, Insert(s, hash)
  PROVE  /\ rounds' \in Seq(RoundType) /\ PointsStored'
         /\ Len(rounds') = Len(rounds) + 1 /\ Len(rounds') <= MaxRounds
<1> DEFINE r == [seed |-> s, hash |-> hash, x100 |-> ToX100(CrashPoint(hash)), status |-> "waiting"]
<1>1. r \in RoundType /\ r.hash = hash /\ r.x100 = ToX100(CrashPoint(hash))
  <2>1. ToX100(CrashPoint(hash)) \in 100..CapX100
    BY PointFacts
  <2> QED BY <2>1 DEF RoundType
<1>2. rounds \in Seq(RoundType) /\ rounds' = Append(rounds, r) /\ Len(rounds) < MaxRounds
  BY DEF Insert, PointInv, TypeOK
<1>3. \A i \in DOMAIN rounds : rounds[i].x100 = ToX100(CrashPoint(rounds[i].hash))
  BY DEF PointInv, PointsStored
<1> HIDE DEF r
<1>4. rounds' \in Seq(RoundType) /\ Len(rounds') = Len(rounds) + 1 /\ Len(rounds') <= MaxRounds
  BY <1>1, <1>2, BoundAssumption
<1>5. ASSUME NEW i \in DOMAIN rounds'
      PROVE  rounds'[i] = r \/ (i \in DOMAIN rounds /\ rounds'[i] = rounds[i])
  BY <1>1, <1>2
<1>6. ASSUME NEW i \in DOMAIN rounds' PROVE rounds'[i].x100 = ToX100(CrashPoint(rounds'[i].hash))
  <2>1. CASE rounds'[i] = r
    BY <1>1, <2>1
  <2>2. CASE i \in DOMAIN rounds /\ rounds'[i] = rounds[i]
    BY <1>3, <2>2
  <2> QED BY <1>5, <2>1, <2>2
<1>7. PointsStored'
  BY <1>6 DEF PointsStored, CrashPoint, ToX100
<1> QED BY <1>4, <1>7

\* A status write keeps types and crash points.
LEMMA SetStatusPoints ==
  ASSUME PointInv, NEW status \in {"waiting", "running", "crashed"}, SetStatus(status)
  PROVE  rounds' \in Seq(RoundType) /\ PointsStored' /\ Len(rounds') = Len(rounds)
<1>1. rounds \in Seq(RoundType) /\ \A i \in DOMAIN rounds : rounds[i] \in RoundType
  BY DEF PointInv, TypeOK
<1>2. \A i \in DOMAIN rounds : /\ [rounds[i] EXCEPT !.status = status] \in RoundType
                               /\ [rounds[i] EXCEPT !.status = status].hash = rounds[i].hash
                               /\ [rounds[i] EXCEPT !.status = status].x100 = rounds[i].x100
  BY <1>1 DEF RoundType
<1>3. rounds' = [i \in DOMAIN rounds |-> IF i = cur THEN [rounds[i] EXCEPT !.status = status] ELSE rounds[i]]
  BY <1>1 DEF SetStatus
<1>4. /\ rounds' \in Seq(RoundType) /\ Len(rounds') = Len(rounds) /\ DOMAIN rounds' = DOMAIN rounds
      /\ \A i \in DOMAIN rounds : rounds'[i].hash = rounds[i].hash /\ rounds'[i].x100 = rounds[i].x100
  BY <1>1, <1>2, <1>3
<1>5. \A i \in DOMAIN rounds : rounds'[i].x100 = ToX100(CrashPoint(rounds'[i].hash))
  BY <1>4 DEF PointInv, PointsStored
<1> QED BY <1>4, <1>5 DEF PointsStored, CrashPoint, ToX100

\* A seed that is taken is one of the seeds.
LEMMA TakeSeedTyped ==
  ASSUME TypeOK, NEW s \in Seeds, TakeSeed(s)
  PROVE  drawn' \in 0..MaxSeeds /\ next' \in Seeds \union {0}
<1>1. next' = 0 /\ drawn' <= MaxSeeds /\ (drawn' = drawn \/ drawn' = s)
  BY DEF TakeSeed
<1> QED BY <1>1, BoundAssumption DEF TypeOK, Seeds

\* Every step keeps types and crash points.
LEMMA NextPoints ==
  ASSUME IInv, PointInv, [Next]_vars
  PROVE  PointInv'
<1> USE BoundAssumption DEF Goto
<1>0. TypeOK /\ PointsStored /\ Len(rounds) \in Nat
  BY DEF PointInv, TypeOK
<1>f. Fault => faults' \in 0..MaxFaults
  BY <1>0 DEF TypeOK, Fault
<1>k. UNCHANGED rounds => PointsStored'
  BY <1>0 DEF PointsStored, CrashPoint, ToX100
<1>1. CASE UNCHANGED vars
  BY <1>0, <1>1, <1>k DEF vars, PointInv, TypeOK
<1>2. ASSUME NEW s \in Seeds, NEW hash \in Hashes, StartRound(s, hash) PROVE PointInv'
  <2>1. TakeSeed(s) /\ Insert(s, hash)
    BY <1>2 DEF StartRound
  <2>2. /\ rounds' \in Seq(RoundType) /\ PointsStored'
        /\ Len(rounds') = Len(rounds) + 1 /\ Len(rounds') <= MaxRounds
    BY <2>1, InsertPoints
  <2>3. drawn' \in 0..MaxSeeds /\ next' \in Seeds \union {0}
    BY <1>0, <2>1, TakeSeedTyped
  <2>4. cur' \in 0..Len(rounds')
    BY <1>0, <1>2, <2>2 DEF StartRound
  <2> QED BY <1>0, <1>2, <2>2, <2>3, <2>4 DEF StartRound, PointInv, TypeOK
<1>3. ASSUME NEW s \in Seeds, NEW hash \in Hashes, SaveFails(s, hash) PROVE PointInv'
  <2>1. TakeSeed(s) /\ (UNCHANGED rounds \/ Insert(s, hash)) /\ Fault
    BY <1>3 DEF SaveFails
  <2>2. /\ rounds' \in Seq(RoundType) /\ PointsStored'
        /\ Len(rounds') \in Nat /\ Len(rounds') >= Len(rounds) /\ Len(rounds') <= MaxRounds
    <3>1. CASE UNCHANGED rounds
      BY <1>0, <1>k, <3>1 DEF TypeOK
    <3>2. CASE Insert(s, hash)
      BY <1>0, <3>2, InsertPoints
    <3> QED BY <2>1, <3>1, <3>2
  <2>3. drawn' \in 0..MaxSeeds /\ next' \in Seeds \union {0}
    BY <1>0, <2>1, TakeSeedTyped
  <2>4. cur' \in 0..Len(rounds')
    BY <1>0, <1>3, <2>2 DEF SaveFails, TypeOK
  <2> QED BY <1>0, <1>3, <1>f, <2>1, <2>2, <2>3, <2>4 DEF SaveFails, PointInv, TypeOK
<1>4. CASE Fly \/ Settle
  <2>1. rounds' \in Seq(RoundType) /\ PointsStored' /\ Len(rounds') = Len(rounds)
    BY <1>4, SetStatusPoints DEF Fly, Settle
  <2> QED BY <1>0, <1>4, <2>1 DEF Fly, Settle, PointInv, TypeOK
<1>5. CASE FlyUnrecorded \/ SettleUnrecorded
  BY <1>0, <1>5, <1>f, <1>k DEF FlyUnrecorded, SettleUnrecorded, PointInv, TypeOK
<1>6. CASE Reveal
  <2>1. cur # 0
    BY <1>6 DEF Reveal, IInv, ChainInv
  <2>2. rounds[cur] \in RoundType
    BY <1>0, <2>1 DEF TypeOK
  <2>3. revealed' \subseteq Seeds
    BY <1>0, <1>6, <2>2 DEF Reveal, RoundType, TypeOK
  <2>4. drawn + 1 \in Seeds /\ drawn + 1 \in 0..MaxSeeds
    BY <1>0, <1>6 DEF Reveal, TypeOK, Seeds
  <2> QED BY <1>0, <1>6, <1>k, <2>3, <2>4 DEF Reveal, PointInv, TypeOK
<1>7. CASE Restart
  BY <1>0, <1>7, <1>f, <1>k DEF Restart, PointInv, TypeOK
<1> QED BY <1>1, <1>2, <1>3, <1>4, <1>5, <1>6, <1>7 DEF Next

\* Before the first round.
LEMMA InitPoints == Init => PointInv
<1> SUFFICES ASSUME Init PROVE PointInv
  OBVIOUS
<1>1. rounds = <<>> /\ rounds \in Seq(RoundType) /\ Len(rounds) = 0 /\ DOMAIN rounds = {}
  BY DEF Init
<1>2. restarted \in BOOLEAN
  BY Zenon DEF Init
<1> QED BY <1>1, <1>2, BoundAssumption DEF Init, PointInv, TypeOK, PointsStored

LEMMA PointInvariance == Spec => []PointInv
<1>1. IInv /\ PointInv /\ [Next]_vars => PointInv'
  BY NextPoints
<1> QED BY <1>1, InitIInv, StepIInv, InitPoints, PTL DEF Spec

\* What a round of the collection is made of.
LEMMA RoundOfHash ==
  ASSUME PointInv, NEW i \in DOMAIN rounds
  PROVE  rounds[i].hash \in Hashes /\ rounds[i].x100 = ToX100(CrashPoint(rounds[i].hash))
<1>1. rounds[i] \in RoundType
  BY DEF PointInv, TypeOK
<1> QED BY <1>1 DEF RoundType, PointInv, PointsStored

\* Types: in particular no stored crash point leaves the range from 1.00 to
\* the cap, whatever the hash (GenerateCrashPoint, MultiplierToX100).
THEOREM Types == Spec => []TypeOK
<1>1. PointInv => TypeOK
  BY DEF PointInv
<1> QED BY <1>1, PointInvariance, PTL

\* InstantCrashes: the house edge is exactly the hashes that isDivisible
\* accepts: its digit-by-digit remainder is that of the whole number, for
\* hashes of any length, and the formula never gives 1.00 (crash_algorithm.go).
THEOREM InstantCrashes == Spec => []InstantIffDivisible
<1>1. PointInv => InstantIffDivisible
  <2> SUFFICES ASSUME PointInv, NEW i \in DOMAIN rounds
               PROVE  Instant(rounds[i]) <=> ValueOf(rounds[i].hash) % Divisor = 0
    BY DEF InstantIffDivisible
  <2> QED BY RoundOfHash, PointFacts DEF Instant
<1> QED BY <1>1, PointInvariance, PTL
=============================================================================
