--------------------------- MODULE RateLimiterProofs ---------------------------
(***************************************************************************)
(* The rate bound, for any number of addresses, requests and buckets, any  *)
(* burst, and windows of any length with any number of cleanups.           *)
(*                                                                         *)
(* The argument is a potential: what an address can still pass at once,    *)
(* plus what it has passed in the window, plus one for each request that   *)
(* holds a forgotten bucket, grows with time only, and by one.             *)
(***************************************************************************)
EXTENDS RateLimiter, FiniteSetTheorems, TLAPS

-----------------------------------------------------------------------------
(* Counting requests *)

\* The requests between getLimiter and Allow are finitely many.
LEMMA Counted ==
  ASSUME NEW S \in SUBSET Requests
  PROVE  IsFiniteSet(S) /\ Cardinality(S) \in Nat
BY LimiterAssumption, FS_Subset, FS_CardinalityType

\* What a request holds.
LEMMA Held ==
  ASSUME TypeOK, NEW r \in Requests, holds[r] # Idle
  PROVE  holds[r].address \in Addresses /\ holds[r].bucket \in Buckets
BY DEF TypeOK, HoldType

\* The initial state satisfies the invariant.
LEMMA InitInv == Init => IInv
<1> SUFFICES ASSUME Init PROVE IInv
  OBVIOUS
<1> USE LimiterAssumption
<1>1. TypeOK
  BY DEF Init, TypeOK, HoldType
<1>2. BucketsApart
  BY DEF Init, BucketsApart
<1>3. ASSUME NEW a \in Addresses PROVE Strays(a) = {}
  BY <1>3 DEF Init, Strays, Idle
<1>4. Potential
  BY <1>3, FS_EmptySet DEF Init, Potential, Credit
<1> QED BY <1>1, <1>2, <1>4 DEF IInv

-----------------------------------------------------------------------------
(* Types and the buckets *)

\* What a bucket gains keeps it within the burst.
LEMMA GainBound ==
  ASSUME NEW n \in 0..Burst
  PROVE  Gain(n) \in 0..Burst /\ Gain(n) <= n + 1
BY LimiterAssumption DEF Gain

\* Every step keeps the types.
LEMMA StepTypes == TypeOK /\ [Next]_vars => TypeOK'
<1> SUFFICES ASSUME TypeOK, [Next]_vars PROVE TypeOK'
  OBVIOUS
<1> USE LimiterAssumption
<1>1. ASSUME NEW r \in Requests, Allow(r) PROVE TypeOK'
  <2>1. holds[r].address \in Addresses /\ holds[r].bucket \in Buckets
    BY <1>1, Held DEF Allow
  <2>2. CASE tokens[holds[r].bucket] > 0
    BY <1>1, <2>1, <2>2 DEF Allow, TypeOK, HoldType
  <2>3. CASE tokens[holds[r].bucket] = 0
    BY <1>1, <2>1, <2>3 DEF Allow, TypeOK, HoldType
  <2> QED BY <1>1, <2>2, <2>3 DEF Allow
<1>2. ASSUME NEW r \in Requests, NEW a \in Addresses, GetLimiter(r, a) PROVE TypeOK'
  BY <1>2 DEF GetLimiter, NewLimiter, window, TypeOK, HoldType
<1>3. CASE SweepStart
  BY <1>3 DEF SweepStart, TypeOK
<1>4. CASE SweepDelete
  BY <1>4 DEF SweepDelete, window, TypeOK
<1>5. ASSUME NEW a \in Addresses, SweepCheck(a) PROVE TypeOK'
  <2>1. Cardinality(Holders(a)) \in Nat
    BY Counted DEF Holders
  <2>2. strays' \in [Addresses -> Nat]
    BY <1>5, <2>1 DEF SweepCheck, TypeOK
  <2> QED BY <1>5, <2>2 DEF SweepCheck, TypeOK
<1>6. CASE Tick
  <2>1. tokens' \in [Buckets -> 0..Burst]
    BY <1>6, GainBound DEF Tick, TypeOK
  <2>2. \A a \in Addresses : Cardinality(Strays(a)) \in Nat
    BY Counted DEF Strays
  <2>3. CASE OpenWindow
    BY <1>6, <2>1, <2>2, <2>3 DEF Tick, OpenWindow, TypeOK
  <2>4. CASE elapsed < Horizon /\ elapsed' = elapsed + 1 /\ UNCHANGED <<passed, strays, sweeps>>
    BY <1>6, <2>1, <2>4 DEF Tick, TypeOK
  <2> QED BY <1>6, <2>3, <2>4 DEF Tick
<1>7. CASE UNCHANGED vars
  BY <1>7 DEF vars, window, TypeOK
<1> QED BY <1>1, <1>2, <1>3, <1>4, <1>5, <1>6, <1>7 DEF Next

\* Every step keeps the buckets apart: a new one is referred to by nobody.
LEMMA StepApart == TypeOK /\ BucketsApart /\ [Next]_vars => BucketsApart'
<1> SUFFICES ASSUME TypeOK, BucketsApart, [Next]_vars PROVE BucketsApart'
  OBVIOUS
<1> USE LimiterAssumption
<1>1. ASSUME NEW r \in Requests, Allow(r) PROVE BucketsApart'
  BY <1>1 DEF Allow, TypeOK, BucketsApart
<1>2. ASSUME NEW r \in Requests, NEW a \in Addresses, GetLimiter(r, a) PROVE BucketsApart'
  <2> PICK b \in Buckets :
        /\ limiters[a] = b \/ (limiters[a] = None /\ Unreferenced(b))
        /\ limiters' = [limiters EXCEPT ![a] = b]
        /\ holds' = [holds EXCEPT ![r] = [address |-> a, bucket |-> b]]
    BY <1>2 DEF GetLimiter, NewLimiter
  <2>1. \A c \in Addresses : limiters[c] = b => c = a
    BY DEF BucketsApart, Unreferenced
  <2>2. \A q \in Requests : holds[q] # Idle /\ holds[q].bucket = b => holds[q].address = a
    BY DEF BucketsApart, Unreferenced
  <2>3. \A c \in Addresses : limiters'[c] = IF c = a THEN b ELSE limiters[c]
    BY DEF TypeOK
  <2>4. \A q \in Requests : holds'[q] = IF q = r THEN [address |-> a, bucket |-> b] ELSE holds[q]
    BY DEF TypeOK
  <2> QED BY <2>1, <2>2, <2>3, <2>4 DEF BucketsApart
<1>3. CASE SweepStart
  BY <1>3 DEF SweepStart, BucketsApart
<1>4. CASE SweepDelete
  <2>1. \A c \in Addresses : limiters'[c] = limiters[c] \/ limiters'[c] = None
    BY <1>4 DEF SweepDelete, TypeOK
  <2>2. \A q \in Requests : holds[q] # Idle => holds[q].bucket # None
    BY Held
  <2> QED BY <1>4, <2>1, <2>2 DEF SweepDelete, BucketsApart
<1>5. ASSUME NEW a \in Addresses, SweepCheck(a) PROVE BucketsApart'
  BY <1>5 DEF SweepCheck, BucketsApart
<1>6. CASE Tick
  BY <1>6 DEF Tick, BucketsApart
<1>7. CASE UNCHANGED vars
  BY <1>7 DEF vars, BucketsApart
<1> QED BY <1>1, <1>2, <1>3, <1>4, <1>5, <1>6, <1>7 DEF Next

-----------------------------------------------------------------------------
(* The potential *)

\* What the counters of the potential are, for the arithmetic below.
LEMMA Numbers ==
  ASSUME TypeOK, NEW a \in Addresses
  PROVE  /\ Credit(a) \in 0..Burst /\ passed[a] \in Nat /\ strays[a] \in Nat
         /\ elapsed \in Nat /\ Cardinality(Strays(a)) \in Nat /\ Burst \in Nat
<1>1. limiters[a] # None => limiters[a] \in Buckets
  BY DEF TypeOK
<1>2. Cardinality(Strays(a)) \in Nat
  BY Counted DEF Strays
<1> QED BY <1>1, <1>2, LimiterAssumption DEF TypeOK, Credit

\* A request that passes is paid for by a token of its address, or was counted
\* as a stray.
LEMMA AllowKeepsPotential ==
  ASSUME TypeOK, BucketsApart, Potential, NEW r \in Requests, Allow(r)
  PROVE  Potential'
<1> DEFINE a == holds[r].address  b == holds[r].bucket
<1>1. a \in Addresses /\ b \in Buckets /\ b # None /\ holds[r] # Idle
  BY Held, LimiterAssumption DEF Allow
<1>2. \A q \in Requests : holds'[q] = IF q = r THEN Idle ELSE holds[q]
  BY DEF Allow, TypeOK
<1>3. limiters' = limiters /\ full' = full /\ elapsed' = elapsed /\ strays' = strays
  BY DEF Allow
<1>4. \A c \in Addresses : Strays(c)' = Strays(c) \ {r}
  <2> SUFFICES ASSUME NEW c \in Addresses PROVE Strays(c)' = Strays(c) \ {r}
    OBVIOUS
  <2>1. Idle.address # c
    BY LimiterAssumption DEF Idle
  <2> QED BY <1>2, <1>3, <2>1 DEF Strays
<1>5. ASSUME NEW c \in Addresses PROVE Cardinality(Strays(c)') <= Cardinality(Strays(c))
  BY <1>4, Counted, FS_RemoveElement DEF Strays
<1>6. CASE tokens[b] = 0 /\ UNCHANGED <<tokens, passed>>
  <2> SUFFICES ASSUME NEW c \in Addresses
               PROVE  (Credit(c) + passed[c] + Cardinality(Strays(c)) <= Burst + elapsed + strays[c])'
    BY DEF Potential
  <2>1. Credit(c)' = Credit(c)
    BY <1>3, <1>6 DEF Credit
  <2>2. Cardinality(Strays(c)') \in Nat
    BY <1>4, Counted DEF Strays
  <2> QED BY <1>3, <1>5, <1>6, <2>1, <2>2, Numbers DEF Potential
<1>7. CASE /\ tokens[b] > 0 /\ tokens' = [tokens EXCEPT ![b] = @ - 1]
           /\ passed' = [passed EXCEPT ![a] = @ + 1]
  <2> SUFFICES ASSUME NEW c \in Addresses
               PROVE  (Credit(c) + passed[c] + Cardinality(Strays(c)) <= Burst + elapsed + strays[c])'
    BY DEF Potential
  <2>0. Cardinality(Strays(c)') \in Nat
    BY <1>4, Counted DEF Strays
  <2>t. tokens \in [Buckets -> 0..Burst] /\ tokens' = [tokens EXCEPT ![b] = tokens[b] - 1]
        /\ tokens[b] \in 0..Burst
    BY <1>1, <1>7 DEF TypeOK
  <2>1. CASE c # a
    <3>1. passed'[c] = passed[c]
      BY <1>7, <2>1 DEF TypeOK
    <3>2. limiters[c] # b
      BY <1>1, <2>1 DEF BucketsApart
    <3>3. limiters[c] # None => limiters[c] \in Buckets
      BY DEF TypeOK
    <3>4. Credit(c)' = Credit(c)
      BY <1>3, <2>t, <3>2, <3>3 DEF Credit
    <3> QED BY <1>3, <1>5, <2>0, <3>1, <3>4, Numbers DEF Potential
  <2>2. CASE c = a /\ r \in Strays(a)
    <3>1. passed'[c] = passed[c] + 1
      BY <1>1, <1>7, <2>2 DEF TypeOK
    <3>2. Cardinality(Strays(c)') = Cardinality(Strays(c)) - 1
      <4>1. IsFiniteSet(Strays(c)) /\ r \in Strays(c)
        BY <2>2, Counted DEF Strays
      <4>2. Cardinality(Strays(c) \ {r}) = Cardinality(Strays(c)) - 1
        BY <4>1, FS_RemoveElement
      <4> QED BY <1>4, <4>2
    <3>3. limiters[c] = None \/ full = c \/ limiters[c] # b
      BY <2>2 DEF Strays
    <3>4. limiters[c] # None => limiters[c] \in Buckets
      BY DEF TypeOK
    <3>6. limiters[c] # None /\ limiters[c] # b => tokens'[limiters[c]] = tokens[limiters[c]]
      BY <2>t, <3>4
    <3>5. Credit(c)' = Credit(c)
      BY <1>3, <3>3, <3>6 DEF Credit
    <3> QED BY <1>3, <2>0, <3>1, <3>2, <3>5, Numbers DEF Potential
  <2>3. CASE c = a /\ r \notin Strays(a)
    <3>1. passed'[c] = passed[c] + 1
      BY <1>1, <1>7, <2>3 DEF TypeOK
    <3>2. limiters[c] = b /\ full # c
      BY <2>3 DEF Strays
    <3>3. Credit(c)' = Credit(c) - 1
      BY <1>1, <1>3, <2>t, <3>2 DEF Credit
    <3> QED BY <1>3, <1>5, <2>0, <3>1, <3>3, Numbers DEF Potential
  <2> QED BY <2>1, <2>2, <2>3
<1> QED BY <1>6, <1>7 DEF Allow

\* getLimiter changes no potential: a new bucket takes the place of none.
LEMMA GetKeepsPotential ==
  ASSUME TypeOK, BucketsApart, Potential, NEW r \in Requests, NEW a \in Addresses, GetLimiter(r, a)
  PROVE  Potential'
<1> PICK b \in Buckets :
      /\ (limiters[a] = b /\ UNCHANGED tokens) \/ (limiters[a] = None /\ NewLimiter(b))
      /\ limiters' = [limiters EXCEPT ![a] = b]
      /\ holds' = [holds EXCEPT ![r] = [address |-> a, bucket |-> b]]
  BY DEF GetLimiter
<1>1. full = None /\ full' = None /\ UNCHANGED window /\ holds[r] = Idle
  BY DEF GetLimiter, Unlocked
<1>2. \A c \in Addresses : limiters'[c] = IF c = a THEN b ELSE limiters[c]
  BY DEF TypeOK
<1>3. \A q \in Requests : holds'[q] = IF q = r THEN [address |-> a, bucket |-> b] ELSE holds[q]
  BY DEF TypeOK
<1>n. b # None /\ None \notin Addresses
  BY LimiterAssumption
<1> SUFFICES ASSUME NEW c \in Addresses
             PROVE  (Credit(c) + passed[c] + Cardinality(Strays(c)) <= Burst + elapsed + strays[c])'
  BY DEF Potential
<1>4. Credit(c)' = Credit(c)
  <2>1. CASE limiters[a] = b /\ UNCHANGED tokens
    BY <1>1, <1>2, <2>1 DEF Credit
  <2>2. CASE limiters[a] = None /\ NewLimiter(b)
    <3>1. tokens' = [tokens EXCEPT ![b] = Burst] /\ \A d \in Addresses : limiters[d] # b
      BY <2>2 DEF NewLimiter, Unreferenced
    <3>2. CASE c = a
      BY <1>1, <1>2, <1>n, <2>2, <3>1, <3>2 DEF Credit, TypeOK
    <3>3. CASE c # a
      BY <1>1, <1>2, <1>n, <3>1, <3>3 DEF Credit, TypeOK
    <3> QED BY <3>2, <3>3
  <2> QED BY <2>1, <2>2
<1>5. Strays(c)' = Strays(c)
  <2>1. r \notin Strays(c) /\ r \notin Strays(c)'
    <3>1. holds[r].address # c
      BY <1>1, <1>n DEF Idle
    <3>2. holds'[r] = [address |-> a, bucket |-> b]
      BY <1>3
    <3>3. holds'[r].address = c => holds'[r].bucket = limiters'[c] /\ full' # c
      BY <1>1, <1>2, <1>n, <3>2
    <3> QED BY <3>1, <3>3 DEF Strays
  <2>2. ASSUME NEW q \in Requests \ {r} PROVE q \in Strays(c)' <=> q \in Strays(c)
    <3>1. holds'[q] = holds[q] /\ full' = full
      BY <1>1, <1>3
    <3>2. CASE limiters'[c] = limiters[c]
      BY <3>1, <3>2 DEF Strays
    <3>3. CASE c = a /\ limiters[a] = None /\ NewLimiter(b)
      <4>1. holds[q].bucket # b
        BY <3>3 DEF NewLimiter, Unreferenced
      <4>2. holds[q].address = c => holds[q].bucket # None
        BY <1>n, Held, LimiterAssumption DEF Idle
      <4> QED BY <1>1, <1>2, <3>1, <3>3, <4>1, <4>2 DEF Strays
    <3> QED BY <1>2, <3>2, <3>3
  <2> QED BY <2>1, <2>2 DEF Strays
<1> QED BY <1>1, <1>4, <1>5 DEF Potential, window

\* A bucket found full is worth a full one; whoever holds it becomes a stray.
LEMMA CheckKeepsPotential ==
  ASSUME TypeOK, BucketsApart, Potential, NEW a \in Addresses, SweepCheck(a)
  PROVE  Potential'
<1>1. /\ limiters' = limiters /\ tokens' = tokens /\ holds' = holds
      /\ elapsed' = elapsed /\ passed' = passed /\ full = None
  BY DEF SweepCheck
<1> SUFFICES ASSUME NEW c \in Addresses
             PROVE  (Credit(c) + passed[c] + Cardinality(Strays(c)) <= Burst + elapsed + strays[c])'
  BY DEF Potential
<1>n. full # c
  BY <1>1, LimiterAssumption
<1>2. CASE ~IsFull(a) /\ UNCHANGED <<full, strays>>
  BY <1>1, <1>2 DEF Potential, Credit, Strays
<1>3. CASE IsFull(a) /\ full' = a /\ strays' = [strays EXCEPT ![a] = @ + Cardinality(Holders(a))]
  <2>1. CASE c # a
    <3>1. strays'[c] = strays[c] /\ full' # c
      BY <1>3, <2>1 DEF TypeOK
    <3>2. Strays(c)' = Strays(c) /\ Credit(c)' = Credit(c)
      BY <1>1, <1>n, <3>1 DEF Strays, Credit
    <3> QED BY <1>1, <3>1, <3>2 DEF Potential
  <2>2. CASE c = a
    <3>1. strays'[c] = strays[c] + Cardinality(Holders(c))
      BY <1>3, <2>2 DEF TypeOK
    <3>2. Credit(c)' = Burst /\ Credit(c) = Burst
      BY <1>1, <1>3, <1>n, <2>2 DEF Credit, IsFull
    <3>3. Strays(c)' = Strays(c) \union Holders(c) /\ Strays(c) \intersect Holders(c) = {}
      BY <1>1, <1>3, <1>n, <2>2 DEF Strays, Holders
    <3>4. Cardinality(Strays(c)') = Cardinality(Strays(c)) + Cardinality(Holders(c))
          /\ Cardinality(Holders(c)) \in Nat
      <4>1. IsFiniteSet(Strays(c)) /\ IsFiniteSet(Holders(c)) /\ Cardinality(Holders(c)) \in Nat
            /\ Cardinality(Strays(c)) \in Nat
        BY Counted DEF Strays, Holders
      <4> QED BY <3>3, <4>1, FS_Union, FS_EmptySet
    <3> QED BY <1>1, <3>1, <3>2, <3>4, Numbers DEF Potential
  <2> QED BY <2>1, <2>2
<1> QED BY <1>2, <1>3 DEF SweepCheck

\* Deleting it changes nothing any more.
LEMMA DeleteKeepsPotential ==
  ASSUME TypeOK, Potential, SweepDelete
  PROVE  Potential'
<1>1. UNCHANGED <<tokens, holds, window>> /\ full' = None /\ full \in Addresses
  BY DEF SweepDelete, TypeOK
<1>2. \A c \in Addresses : limiters'[c] = IF c = full THEN None ELSE limiters[c]
  BY DEF SweepDelete, TypeOK
<1> SUFFICES ASSUME NEW c \in Addresses PROVE Credit(c)' = Credit(c) /\ Strays(c)' = Strays(c)
  BY <1>1 DEF Potential, window
<1>3. Credit(c)' = Credit(c)
  BY <1>1, <1>2, LimiterAssumption DEF Credit
<1>4. \A q \in Requests : holds[q].address = c => holds[q].bucket # None
  BY Held, LimiterAssumption DEF Idle
<1>5. Strays(c)' = Strays(c)
  BY <1>1, <1>2, <1>4, LimiterAssumption DEF Strays
<1> QED BY <1>3, <1>5

\* Time adds at most one token, and a new window starts with the strays of now.
LEMMA TickKeepsPotential ==
  ASSUME TypeOK, Potential, Tick
  PROVE  Potential'
<1>1. UNCHANGED <<limiters, holds, full>>
  BY DEF Tick
<1> SUFFICES ASSUME NEW c \in Addresses
             PROVE  (Credit(c) + passed[c] + Cardinality(Strays(c)) <= Burst + elapsed + strays[c])'
  BY DEF Potential
<1>2. Strays(c)' = Strays(c)
  BY <1>1 DEF Strays
<1>3. Credit(c)' \in 0..Burst /\ Credit(c)' <= Credit(c) + 1
  <2>1. CASE limiters[c] = None \/ full = c
    BY <1>1, <2>1, LimiterAssumption DEF Credit
  <2>2. CASE limiters[c] # None /\ full # c
    <3>1. limiters[c] \in Buckets /\ tokens[limiters[c]] \in 0..Burst
      BY <2>2 DEF TypeOK
    <3>2. tokens'[limiters[c]] = Gain(tokens[limiters[c]])
      BY <3>1 DEF Tick
    <3> QED BY <1>1, <2>2, <3>1, <3>2, GainBound DEF Credit
  <2> QED BY <2>1, <2>2
<1>4. CASE elapsed' = elapsed + 1 /\ UNCHANGED <<passed, strays, sweeps>>
  BY <1>2, <1>3, <1>4, Numbers DEF Potential
<1>5. CASE OpenWindow
  <2>1. elapsed' = 0 /\ passed'[c] = 0 /\ strays'[c] = Cardinality(Strays(c))
    BY <1>5 DEF OpenWindow
  <2> QED BY <1>2, <1>3, <2>1, Numbers
<1> QED BY <1>4, <1>5 DEF Tick

-----------------------------------------------------------------------------
(* The theorems *)

\* Every step keeps the invariant.
LEMMA StepInv == IInv /\ [Next]_vars => IInv'
<1> SUFFICES ASSUME IInv, [Next]_vars PROVE Potential'
  BY StepTypes, StepApart DEF IInv
<1> USE DEF IInv
<1>1. ASSUME NEW r \in Requests, Allow(r) PROVE Potential'
  BY <1>1, AllowKeepsPotential
<1>2. ASSUME NEW r \in Requests, NEW a \in Addresses, GetLimiter(r, a) PROVE Potential'
  BY <1>2, GetKeepsPotential
<1>3. CASE SweepStart
  BY <1>3 DEF SweepStart, Potential, Credit, Strays
<1>4. CASE SweepDelete
  BY <1>4, DeleteKeepsPotential
<1>5. ASSUME NEW a \in Addresses, SweepCheck(a) PROVE Potential'
  BY <1>5, CheckKeepsPotential
<1>6. CASE Tick
  BY <1>6, TickKeepsPotential
<1>7. CASE UNCHANGED vars
  BY <1>7 DEF vars, window, Potential, Credit, Strays
<1> QED BY <1>1, <1>2, <1>3, <1>4, <1>5, <1>6, <1>7 DEF Next

\* The potential bounds what has passed.
LEMMA PotentialBounds == IInv => RateBound
<1> SUFFICES ASSUME IInv, NEW a \in Addresses
             PROVE  passed[a] <= Burst + elapsed + strays[a]
  BY DEF RateBound
<1>1. Credit(a) + passed[a] + Cardinality(Strays(a)) <= Burst + elapsed + strays[a]
  BY DEF IInv, Potential
<1> QED BY <1>1, Numbers DEF IInv

(* LimiterTypes: types, and no bucket of the REST or auth limiter ever     *)
(* holds more than its burst.                                              *)
THEOREM LimiterTypes == Spec => []TypeOK
<1>1. IInv => TypeOK
  BY DEF IInv
<1> QED BY InitInv, StepInv, <1>1, PTL DEF Spec

(* RateIsBounded: in every window an address passes at most the burst, one *)
(* request for each token of time, and one for each request that held a    *)
(* bucket when the cleanup forgot it.                                      *)
THEOREM RateIsBounded == Spec => []RateBound
BY InitInv, StepInv, PotentialBounds, PTL DEF Spec
=============================================================================
