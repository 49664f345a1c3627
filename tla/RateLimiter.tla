------------------------------- MODULE RateLimiter -------------------------------
(***************************************************************************)
(* The rate limiter of the REST and auth routes                            *)
(* (middleware/rate_limiter.go): a token bucket per address, looked up     *)
(* under the mutex of the map, spent from without it, and forgotten by a   *)
(* cleanup that finds it full.                                             *)
(*                                                                         *)
(* Time is counted in the time a bucket takes to gain one token.  A window *)
(* is an observer: it opens at any time and counts what passes from then   *)
(* on.                                                                     *)
(***************************************************************************)
EXTENDS Integers, FiniteSets

CONSTANTS
    Addresses,      \* client addresses
    Requests,       \* request goroutines; an idle one is also the next request
    Buckets,        \* rate.Limiter objects, taken again when nothing refers to them
    None,           \* no bucket, no address
    Burst,          \* RateLimiter.burst
    Horizon,        \* bound: length of a window
    MaxSweeps       \* bound: cleanups in a window

ASSUME LimiterAssumption ==
    /\ Burst \in Nat \ {0} /\ Horizon \in Nat /\ MaxSweeps \in Nat
    /\ IsFiniteSet(Requests) /\ None \notin Buckets \union Addresses

VARIABLES
    limiters,   \* RateLimiter.limiters: the bucket of an address
    tokens,     \* what is in each bucket
    holds,      \* the bucket a request got and has not spent from yet
    todo,       \* addresses the cleanup has still to look at; it holds the mutex
    full,       \* the address whose bucket it has just found full
    elapsed, passed, strays, sweeps     \* of the window

window == <<elapsed, passed, strays, sweeps>>
vars == <<limiters, tokens, holds, todo, full, window>>

-----------------------------------------------------------------------------
Idle == [address |-> None, bucket |-> None]
HoldType == {Idle} \union [address : Addresses, bucket : Buckets]

(* TypeOK: types, and no bucket holds more than the burst.                 *)
TypeOK ==
    /\ limiters \in [Addresses -> Buckets \union {None}]
    /\ tokens \in [Buckets -> 0..Burst]
    /\ holds \in [Requests -> HoldType]
    /\ todo \subseteq Addresses /\ full \in Addresses \union {None}
    /\ elapsed \in 0..Horizon /\ sweeps \in 0..MaxSweeps
    /\ passed \in [Addresses -> Nat] /\ strays \in [Addresses -> Nat]

Init ==
    /\ limiters = [a \in Addresses |-> None] /\ tokens = [b \in Buckets |-> Burst]
    /\ holds = [r \in Requests |-> Idle] /\ todo = {} /\ full = None
    /\ elapsed = 0 /\ sweeps = 0
    /\ passed = [a \in Addresses |-> 0] /\ strays = [a \in Addresses |-> 0]

-----------------------------------------------------------------------------
(* A request *)

Unlocked == todo = {} /\ full = None
Unreferenced(b) == (\A a \in Addresses : limiters[a] # b) /\ (\A r \in Requests : holds[r].bucket # b)

\* rate.NewLimiter, full.
NewLimiter(b) == b = (CHOOSE c \in Buckets : Unreferenced(c)) /\ Unreferenced(b)
                 /\ tokens' = [tokens EXCEPT ![b] = Burst]

\* getLimiter, under the mutex: the bucket of the address, or a new one.
GetLimiter(r, a) ==
    /\ Unlocked /\ holds[r] = Idle
    /\ \E b \in Buckets :
        /\ (limiters[a] = b /\ UNCHANGED tokens) \/ (limiters[a] = None /\ NewLimiter(b))
        /\ limiters' = [limiters EXCEPT ![a] = b]
        /\ holds' = [holds EXCEPT ![r] = [address |-> a, bucket |-> b]]
    /\ UNCHANGED <<todo, full, window>>

\* Allow, under the bucket's own mutex only.
Allow(r) ==
    LET a == holds[r].address  b == holds[r].bucket IN
    /\ holds[r] # Idle /\ holds' = [holds EXCEPT ![r] = Idle]
    /\ \/ tokens[b] > 0 /\ tokens' = [tokens EXCEPT ![b] = @ - 1]
          /\ passed' = [passed EXCEPT ![a] = @ + 1]
       \/ tokens[b] = 0 /\ UNCHANGED <<tokens, passed>>
    /\ UNCHANGED <<limiters, todo, full, elapsed, strays, sweeps>>

-----------------------------------------------------------------------------
(* cleanup, under the mutex *)

SweepStart ==
    /\ Unlocked /\ sweeps < MaxSweeps /\ sweeps' = sweeps + 1
    /\ todo' = {a \in Addresses : limiters[a] # None}
    /\ UNCHANGED <<limiters, tokens, holds, full, elapsed, passed, strays>>

\* Requests that hold the bucket that is the address's now.
Holders(a) == {r \in Requests : holds[r].address = a /\ holds[r].bucket = limiters[a]}

\* Mutant: one token may be missing.
NearlyFull(a) == tokens[limiters[a]] >= Burst - 1

IsFull(a) == tokens[limiters[a]] = Burst

SweepCheck(a) ==
    /\ a \in todo /\ full = None /\ todo' = todo \ {a}
    /\ \/ IsFull(a) /\ full' = a
          /\ strays' = [strays EXCEPT ![a] = @ + Cardinality(Holders(a))]
       \/ ~IsFull(a) /\ UNCHANGED <<full, strays>>
    /\ UNCHANGED <<limiters, tokens, holds, elapsed, passed, sweeps>>

\* Mutant: the bucket is left in the map.
SweepKeeps ==
    /\ full # None /\ full' = None
    /\ UNCHANGED <<limiters, tokens, holds, todo, window>>

SweepDelete ==
    /\ full # None /\ full' = None
    /\ limiters' = [limiters EXCEPT ![full] = None]
    /\ UNCHANGED <<tokens, holds, todo, window>>

-----------------------------------------------------------------------------
(* Time *)

\* Mutant: a bucket gains a token more than the burst.
GainUncapped(n) == IF n <= Burst THEN n + 1 ELSE n

Gain(n) == IF n < Burst THEN n + 1 ELSE n

\* Requests that hold a bucket that is no longer the address's, or is about to
\* be no longer.
Strays(a) == {r \in Requests : holds[r].address = a /\ (holds[r].bucket # limiters[a] \/ full = a)}

OpenWindow ==
    /\ elapsed' = 0 /\ sweeps' = 0
    /\ passed' = [a \in Addresses |-> 0]
    /\ strays' = [a \in Addresses |-> Cardinality(Strays(a))]

\* A window may be opened with each token of time, and is at the horizon.
Tick ==
    /\ tokens' = [b \in Buckets |-> Gain(tokens[b])]
    /\ \/ elapsed < Horizon /\ elapsed' = elapsed + 1 /\ UNCHANGED <<passed, strays, sweeps>>
       \/ OpenWindow
    /\ UNCHANGED <<limiters, holds, todo, full>>

Next ==
    \/ \E r \in Requests : Allow(r) \/ \E a \in Addresses : GetLimiter(r, a)
    \/ SweepStart \/ SweepDelete \/ \E a \in Addresses : SweepCheck(a)
    \/ Tick

Spec == Init /\ [][Next]_vars

\* The clock and the goroutine of the cleanup go on; nobody need send requests.
FairSpec == /\ Spec /\ WF_vars(Tick) /\ WF_vars(SweepStart) /\ WF_vars(SweepDelete)
            /\ \A a \in Addresses : WF_vars(SweepCheck(a))

-----------------------------------------------------------------------------
(* RateBound: in every window an address passes no more requests than the  *)
(* burst, one for each token of time, and one for each request that was    *)
(* between getLimiter and Allow when a cleanup found its bucket full:      *)
(* forgetting a full bucket lets nobody start afresh                       *)
(* (rate_limiter.go:64-75, 95-97).                                         *)
RateBound == \A a \in Addresses : passed[a] <= Burst + elapsed + strays[a]

(* The inductive invariant behind the theorems of RateLimiterProofs *)

\* Addresses share no bucket, and a request spends for its own address.
BucketsApart ==
    /\ \A a, b \in Addresses : limiters[a] = limiters[b] /\ limiters[a] # None => a = b
    /\ \A r \in Requests, a \in Addresses :
        holds[r] # Idle /\ holds[r].bucket = limiters[a] => holds[r].address = a

\* What the address can still pass at once: a forgotten bucket counts as full.
Credit(a) == IF limiters[a] = None \/ full = a THEN Burst ELSE tokens[limiters[a]]

Potential ==
    \A a \in Addresses : Credit(a) + passed[a] + Cardinality(Strays(a)) <= Burst + elapsed + strays[a]

IInv == TypeOK /\ BucketsApart /\ Potential

(* IdleBucketsGo: the bucket of an address that sends no more requests is  *)
(* forgotten for good, so the map does not grow with every address seen.   *)
IdleBucketsGo ==
    \A a \in Addresses :
        <>[](\A r \in Requests : holds[r].address # a) => <>[](limiters[a] = None)
=============================================================================
