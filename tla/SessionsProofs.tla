---------------------------- MODULE SessionsProofs ----------------------------
(***************************************************************************)
(* Names, refresh tokens, tickets and bans, for any number of people,      *)
(* requests, tickets, failures and restarts, and any lifetimes.            *)
(***************************************************************************)
EXTENDS Sessions, FiniteSetTheorems, TLAPS

-----------------------------------------------------------------------------
(* Requests *)

\* What a request carries at each of its calls.
LEMMA Carries ==
  ASSUME TypeOK, NEW r \in Requests
  PROVE  /\ req[r].at \in {"mail", "name", "insert", "sign"} =>
              req[r] \in [at : {"mail", "name", "insert", "sign"}, user : Users]
         /\ req[r].at = "store" => req[r].token \in Tokens
         /\ req[r].at \in {"discard", "account"} => req[r].token \in Tokens
         /\ req[r].at = "ticket" => req[r].user \in Users /\ req[r].exp \in 0..(MaxNow + TicketTTL)
         /\ req[r].at \in {"mark", "member", "upgrade"} =>
              req[r] \in [at : {"mark", "member", "upgrade"}, ticket : Tickets, user : Users, barred : BOOLEAN]
<1>1. req[r] \in RequestType
  BY DEF TypeOK
<1> QED BY <1>1 DEF RequestType, Idle

\* A request that is no longer barred is still a request.
LEMMA PardonedTyped ==
  ASSUME NEW q \in RequestType, NEW u
  PROVE  Pardoned(q, u) \in RequestType
<1>1. CASE q.at \in {"mark", "member", "upgrade"} /\ q.user = u
  <2>1. q \in [at : {"mark", "member", "upgrade"}, ticket : Tickets, user : Users, barred : BOOLEAN]
    BY <1>1 DEF RequestType, Idle
  <2>2. Pardoned(q, u) = [q EXCEPT !.barred = FALSE]
    BY <1>1 DEF Pardoned
  <2> QED BY <2>1, <2>2 DEF RequestType
<1>2. CASE q.at \in {"discard", "account"} /\ q.token.user = u
  <2>1. q \in [at : {"discard", "account"}, token : Tokens, barred : BOOLEAN]
    BY <1>2 DEF RequestType, Idle
  <2>2. Pardoned(q, u) = [q EXCEPT !.barred = FALSE]
    BY <1>2 DEF Pardoned
  <2> QED BY <2>1, <2>2 DEF RequestType
<1>3. CASE Pardoned(q, u) = q
  BY <1>3
<1> QED BY <1>1, <1>2, <1>3 DEF Pardoned

\* A pardon changes nothing but what a request can claim, and takes it away
\* from the requests of its user.
LEMMA PardonedKeeps ==
  ASSUME NEW q \in RequestType, NEW u
  PROVE  /\ Pardoned(q, u).at = q.at
         /\ q.at \in {"mark", "member", "upgrade"} =>
              /\ Pardoned(q, u).ticket = q.ticket /\ Pardoned(q, u).user = q.user
              /\ Pardoned(q, u).barred => q.barred /\ q.user # u
         /\ q.at \in {"discard", "account"} =>
              /\ Pardoned(q, u).token = q.token
              /\ Pardoned(q, u).barred => q.barred /\ q.token.user # u
<1>1. CASE q.at \in {"mark", "member", "upgrade"} /\ q.user = u
  <2>1. q \in [at : {"mark", "member", "upgrade"}, ticket : Tickets, user : Users, barred : BOOLEAN]
    BY <1>1 DEF RequestType, Idle
  <2>2. Pardoned(q, u) = [q EXCEPT !.barred = FALSE]
    BY <1>1 DEF Pardoned
  <2> QED BY <1>1, <2>1, <2>2
<1>2. CASE q.at \in {"discard", "account"} /\ q.token.user = u
  <2>1. q \in [at : {"discard", "account"}, token : Tokens, barred : BOOLEAN]
    BY <1>2 DEF RequestType, Idle
  <2>2. Pardoned(q, u) = [q EXCEPT !.barred = FALSE]
    BY <1>2 DEF Pardoned
  <2> QED BY <1>2, <2>1, <2>2
<1>3. CASE /\ ~(q.at \in {"mark", "member", "upgrade"} /\ q.user = u)
           /\ ~(q.at \in {"discard", "account"} /\ q.token.user = u)
  <2>1. Pardoned(q, u) = q
    BY <1>3 DEF Pardoned
  <2> QED BY <1>3, <2>1
<1> QED BY <1>1, <1>2, <1>3

\* The later of two seconds is one of them.
LEMMA MaxOfTwo ==
  ASSUME NEW a \in Int, NEW b \in Int
  PROVE  Max({a, b}) \in {a, b} /\ Max({a, b}) >= a /\ Max({a, b}) >= b
<1>1. \E x \in {a, b} : \A y \in {a, b} : x >= y
  OBVIOUS
<1> QED BY <1>1 DEF Max

\* JWTAuth's horizon stays in its range.
LEMMA ExtendTyped ==
  ASSUME TypeOK, NEW u \in Users, NEW until \in 0..(MaxNow + AccessTTL + RefreshTTL), Extend(u, until)
  PROVE  jwt' \in [Users -> (0..(MaxNow + AccessTTL + RefreshTTL)) \union {-1}]
<1> DEFINE T == (0..(MaxNow + AccessTTL + RefreshTTL)) \union {-1}
<1>1. jwt \in [Users -> T] /\ until \in T /\ jwt[u] \in T
  BY DEF TypeOK
<1>2. jwt[u] \in Int /\ until \in Int
  BY <1>1, SessionsAssumption
<1>3. Max({jwt[u], until}) \in T
  BY <1>1, <1>2, MaxOfTwo
<1>4. jwt' = [jwt EXCEPT ![u] = Max({jwt[u], until})]
  BY DEF Extend
<1> HIDE DEF T
<1>5. jwt' \in [Users -> T]
  BY <1>1, <1>3, <1>4
<1> QED BY <1>5 DEF T

\* The initial state satisfies the invariant.
LEMMA InitInv == Init => IInv
<1> SUFFICES ASSUME Init PROVE IInv
  OBVIOUS
<1> USE SessionsAssumption
<1>1. TypeOK
  BY DEF Init, TypeOK, RequestType
<1>2. \A r \in Requests : req[r].at = "idle"
  BY DEF Init, Idle
<1>3. \A k \in Tickets : Passing(k) = {} /\ Marking(k) = {}
  BY <1>2 DEF Passing, Marking
<1>4. TicketInv
  BY <1>3 DEF Init, TicketInv
<1> QED BY <1>1, <1>2, <1>4 DEF Init, IInv, NamesAreUnique, SessionsAreKept, DiscardsExpired, BarredAreBanned

-----------------------------------------------------------------------------
(* Types *)

\* The requests of accounts and tokens.
LEMMA TokenTypes ==
  ASSUME TypeOK, NEW r \in Requests,
         \/ \E u \in Users : Register(r, u) \/ Login(r, u)
         \/ CheckMail(r) \/ CheckName(r) \/ Insert(r) \/ Sign(r) \/ Store(r)
         \/ \E t \in handed : Refresh(r, t) \/ Logout(r, t)
         \/ Discard(r) \/ Renew(r)
  PROVE  TypeOK'
<1> USE SessionsAssumption
<1>1. ASSUME NEW u \in Users, Register(r, u) \/ Login(r, u) PROVE TypeOK'
  BY <1>1 DEF Register, Login, Begin, docs, ghost, TypeOK, RequestType
<1>2. CASE CheckMail(r) \/ CheckName(r) \/ Insert(r)
  <2>1. req[r] \in [at : {"mail", "name", "insert", "sign"}, user : Users]
    BY <1>2, Carries DEF CheckMail, CheckName, Insert, Step
  <2>2. \A n \in {"name", "insert", "sign"} : [req[r] EXCEPT !.at = n] \in RequestType
    BY <2>1 DEF RequestType
  <2>6. Idle \in RequestType
    BY DEF RequestType
  <2>7. \E q \in RequestType : req' = [req EXCEPT ![r] = q]
    BY <1>2, <2>2, <2>6 DEF CheckMail, CheckName, Insert, Step
  <2>3. req' \in [Requests -> RequestType]
    BY <2>7 DEF TypeOK
  <2>4. CASE Insert(r)
    BY <2>1, <2>3, <2>4 DEF Insert, ghost, bounds, TypeOK
  <2>5. CASE CheckMail(r) \/ CheckName(r)
    BY <2>3, <2>5 DEF CheckMail, CheckName, docs, ghost, bounds, TypeOK
  <2> QED BY <1>2, <2>4, <2>5
<1>3. CASE Sign(r)
  <2>1. req[r].user \in Users
    BY <1>3, Carries DEF Sign, Step
  <2>2. [at |-> "store", token |-> [user |-> req[r].user, iat |-> now]] \in RequestType
    BY <2>1 DEF TypeOK, RequestType, Tokens
  <2>3. req' \in [Requests -> RequestType]
    BY <1>3, <2>2 DEF Sign, Step, TypeOK
  <2> QED BY <1>3, <2>3 DEF Sign, docs, ghost, bounds, TypeOK
<1>4. CASE Store(r)
  <2> DEFINE t == req[r].token
  <2>1. t \in Tokens /\ t.user \in Users /\ t.iat \in 0..MaxNow
    BY <1>4, Carries DEF Store, Step, Tokens
  <2>2. t.iat + Max({AccessTTL, RefreshTTL}) \in 0..(MaxNow + AccessTTL + RefreshTTL)
    <3>i. AccessTTL \in Int /\ RefreshTTL \in Int
      BY SessionsAssumption
    <3>1. Max({AccessTTL, RefreshTTL}) \in {AccessTTL, RefreshTTL}
      BY <3>i, MaxOfTwo
    <3>n. AccessTTL \in 0..(AccessTTL + RefreshTTL) /\ RefreshTTL \in 0..(AccessTTL + RefreshTTL)
      BY SessionsAssumption
    <3>2. Max({AccessTTL, RefreshTTL}) \in 0..(AccessTTL + RefreshTTL)
      BY <3>1, <3>n
    <3> HIDE DEF t
    <3> QED BY <2>1, <3>2
  <2>3. jwt' \in [Users -> (0..(MaxNow + AccessTTL + RefreshTTL)) \union {-1}]
    BY <1>4, <2>1, <2>2, ExtendTyped DEF Store
  <2>4. req' \in [Requests -> RequestType]
    BY <1>4 DEF Store, Step, TypeOK, RequestType
  <2>5. stored' \subseteq Tokens /\ excused' \subseteq Tokens /\ handed' \subseteq Tokens
    BY <1>4, <2>1 DEF Store, TypeOK
  <2> QED BY <1>4, <2>3, <2>4, <2>5 DEF Store, bounds, TypeOK
<1>5. ASSUME NEW t \in handed, Refresh(r, t) PROVE TypeOK'
  <2>1. req' \in [Requests -> RequestType]
    BY <1>5 DEF Refresh, Begin, TypeOK, RequestType
  <2> QED BY <1>5, <2>1 DEF Refresh, Begin, docs, ghost, TypeOK
<1>6. ASSUME NEW t \in handed, Logout(r, t) PROVE TypeOK'
  <2>1. req' \in [Requests -> RequestType]
    BY <1>6 DEF Logout, Begin, TypeOK, RequestType
  <2> QED BY <1>6, <2>1 DEF Logout, Begin, TypeOK
<1>7. CASE Discard(r)
  BY <1>7 DEF Discard, Step, ghost, bounds, TypeOK, RequestType
<1>8. CASE Renew(r)
  <2>1. req[r].token.user \in Users /\ now + AccessTTL \in 0..(MaxNow + AccessTTL + RefreshTTL)
    BY <1>8, Carries DEF Renew, Step, TypeOK, Tokens
  <2>2. jwt' \in [Users -> (0..(MaxNow + AccessTTL + RefreshTTL)) \union {-1}]
    BY <1>8, <2>1, ExtendTyped DEF Renew
  <2>3. req' \in [Requests -> RequestType]
    BY <1>8 DEF Renew, Step, TypeOK, RequestType
  <2> QED BY <1>8, <2>2, <2>3 DEF Renew, docs, ghost, bounds, TypeOK
<1> QED BY <1>1, <1>2, <1>3, <1>4, <1>5, <1>6, <1>7, <1>8

\* The requests of tickets.
LEMMA TicketTypes ==
  ASSUME TypeOK, NEW r \in Requests,
         \/ \E u \in Users : AskTicket(r, u)
         \/ \E k \in Tickets : CreateTicket(r, k) \/ FindTicket(r, k)
         \/ MarkUsed(r) \/ Member(r) \/ Upgrade(r) \/ Refused(r)
  PROVE  TypeOK'
<1> USE SessionsAssumption
<1>0. Idle \in RequestType
  BY DEF RequestType
<1>1. ASSUME NEW u \in Users, AskTicket(r, u) PROVE TypeOK'
  <2>1. [at |-> "ticket", user |-> u, exp |-> now + TicketTTL] \in RequestType
    BY DEF TypeOK, RequestType
  <2> QED BY <1>1, <2>1 DEF AskTicket, Begin, docs, ghost, TypeOK
<1>2. ASSUME NEW k \in Tickets, CreateTicket(r, k) PROVE TypeOK'
  <2>1. req[r].user \in Users /\ req[r].exp \in 0..(MaxNow + TicketTTL)
    BY <1>2, Carries DEF CreateTicket, Step
  <2>2. [user |-> req[r].user, used |-> FALSE, exp |-> req[r].exp] \in TicketDoc
    BY <2>1 DEF TicketDoc
  <2> QED BY <1>0, <1>2, <2>2 DEF CreateTicket, Step, ghost, bounds, TypeOK
<1>3. ASSUME NEW k \in Tickets, FindTicket(r, k) PROVE TypeOK'
  <2>1. tickets[k] \in TicketDoc
    BY <1>3 DEF FindTicket, Exists, TypeOK
  <2>2. [at |-> "mark", ticket |-> k, user |-> tickets[k].user, barred |-> tickets[k].user \in banned]
        \in RequestType
    BY <2>1 DEF TicketDoc, RequestType
  <2> QED BY <1>3, <2>2 DEF FindTicket, Begin, docs, ghost, TypeOK
<1>4. CASE MarkUsed(r)
  <2> DEFINE k == req[r].ticket
  <2>1. k \in Tickets /\ req[r] \in [at : {"mark", "member", "upgrade"}, ticket : Tickets, user : Users, barred : BOOLEAN]
    BY <1>4, Carries DEF MarkUsed, Step
  <2>2. [req[r] EXCEPT !.at = "member"] \in RequestType
    BY <2>1 DEF RequestType
  <2>3. \E q \in RequestType : req' = [req EXCEPT ![r] = q]
    BY <1>0, <1>4, <2>2 DEF MarkUsed, Step
  <2>4. Exists(k) => tickets[k] \in TicketDoc /\ [tickets[k] EXCEPT !.used = TRUE] \in TicketDoc
    BY <2>1 DEF Exists, TypeOK, TicketDoc
  <2>5. tickets' = [tickets EXCEPT ![k] = IF Exists(k) THEN [tickets[k] EXCEPT !.used = TRUE] ELSE tickets[k]]
    BY <1>4 DEF MarkUsed
  <2>6. tickets' \in [Tickets -> TicketDoc \union {None, Gone}]
    BY <2>1, <2>4, <2>5 DEF TypeOK
  <2>7. Cardinality(Marking(k)) \in Nat
    BY FS_Subset, FS_CardinalityType DEF Marking
  <2>8. rivals' \in [Tickets -> Nat]
    BY <1>4, <2>1, <2>7 DEF MarkUsed, TypeOK
  <2> QED BY <1>4, <2>3, <2>6, <2>8 DEF MarkUsed, bounds, TypeOK
<1>5. CASE Member(r)
  <2>1. req[r] \in [at : {"mark", "member", "upgrade"}, ticket : Tickets, user : Users, barred : BOOLEAN]
    BY <1>5, Carries DEF Member, Step
  <2>2. [req[r] EXCEPT !.at = "upgrade"] \in RequestType
    BY <2>1 DEF RequestType
  <2> QED BY <1>5, <2>2 DEF Member, Step, docs, ghost, bounds, TypeOK
<1>6. CASE Upgrade(r)
  <2>1. req[r].ticket \in Tickets
    BY <1>6, Carries DEF Upgrade, Step
  <2> QED BY <1>0, <1>6, <2>1 DEF Upgrade, Step, docs, bounds, TypeOK
<1>7. CASE Refused(r)
  BY <1>0, <1>7 DEF Refused, docs, ghost, bounds, TypeOK
<1> QED BY <1>1, <1>2, <1>3, <1>4, <1>5, <1>6, <1>7

\* Every step keeps the types.
LEMMA StepTypes == TypeOK /\ [Next]_vars => TypeOK'
<1> SUFFICES ASSUME TypeOK, [Next]_vars PROVE TypeOK'
  OBVIOUS
<1> USE SessionsAssumption
<1>1. ASSUME NEW u \in Users, Ban(u) PROVE TypeOK'
  BY <1>1 DEF Ban, ghost, bounds, TypeOK
<1>2. ASSUME NEW u \in Users, Unban(u) PROVE TypeOK'
  <2>1. req' \in [Requests -> RequestType]
    BY <1>2, PardonedTyped DEF Unban, TypeOK
  <2> QED BY <1>2, <2>1 DEF Unban, ghost, bounds, TypeOK
<1>3. CASE SweepTokens \/ SweepTickets \/ SweepFails \/ Start
  <2>1. stored' \subseteq stored /\ \A k \in Tickets : tickets'[k] \in {tickets[k], Gone}
    BY <1>3 DEF SweepTokens, SweepTickets, SweepFails, Start
  <2>2. tickets' \in [Tickets -> TicketDoc \union {None, Gone}]
    BY <1>3 DEF SweepTokens, SweepTickets, SweepFails, Start, TypeOK
  <2>3. faults' \in 0..MaxFaults /\ sweeper' \in {"idle", "tickets", "down"}
    BY <1>3 DEF SweepTokens, SweepTickets, SweepFails, Start, Sweep, TypeOK
  <2>4. UNCHANGED <<now, accounts, banned, req, jwt, ghost, begun>>
    BY <1>3 DEF SweepTokens, SweepTickets, SweepFails, Start, Sweep
  <2> QED BY <2>1, <2>2, <2>3, <2>4 DEF ghost, TypeOK
<1>4. CASE Expire
  BY <1>4 DEF Expire, ghost, bounds, TypeOK
<1>5. CASE Exit
  BY <1>5 DEF Exit, docs, ghost, TypeOK, RequestType
<1>6. CASE Tick
  BY <1>6 DEF Tick, docs, ghost, bounds, TypeOK
<1>7. CASE UNCHANGED vars
  BY <1>7 DEF vars, docs, ghost, bounds, TypeOK
<1> QED BY <1>1, <1>2, <1>3, <1>4, <1>5, <1>6, <1>7, TokenTypes, TicketTypes DEF Next

-----------------------------------------------------------------------------
(* Requests, bans and tickets *)

\* What is said of requests and of the tickets they hold.
RequestInv == DiscardsExpired /\ BarredAreBanned /\ TicketInv

\* The requests at work on a ticket can be counted.
LEMMA Counted ==
  ASSUME NEW S \in SUBSET Requests
  PROVE  IsFiniteSet(S) /\ Cardinality(S) \in Nat
BY SessionsAssumption, FS_Subset, FS_CardinalityType

\* Fewer of them are not more.
LEMMA FewerPass ==
  ASSUME NEW S \in SUBSET Requests, NEW T \in SUBSET S
  PROVE  Cardinality(T) <= Cardinality(S)
BY Counted, FS_Subset

\* Nobody joins the validations of a ticket and none of them gets further;
\* tickets are created and deleted.
LEMMA TicketFrame ==
  ASSUME TypeOK, TicketInv, UNCHANGED <<rivals, opened>>,
         \A k \in Tickets : /\ Passing(k)' \subseteq Passing(k)
                            /\ Passing(k) = Marking(k) => Passing(k)' = Marking(k)'
                            /\ \/ tickets'[k] \in {tickets[k], Gone}
                               \/ tickets[k] = None /\ tickets'[k] # None
  PROVE  TicketInv'
<1> SUFFICES ASSUME NEW k \in Tickets
    PROVE  /\ Passing(k)' # {} => tickets'[k] # None
           /\ rivals[k] = 0 => opened[k] = 0 /\ Passing(k)' = Marking(k)'
           /\ rivals[k] > 0 => /\ Exists(k)' => tickets'[k].used
                               /\ tickets'[k] # None
                               /\ opened[k] + Cardinality(Passing(k)') <= rivals[k]
  BY DEF TicketInv
<1>1. /\ Passing(k) # {} => tickets[k] # None
      /\ rivals[k] = 0 => opened[k] = 0 /\ Passing(k) = Marking(k)
      /\ rivals[k] > 0 => /\ Exists(k) => tickets[k].used
                          /\ tickets[k] # None
                          /\ opened[k] + Cardinality(Passing(k)) <= rivals[k]
  BY DEF TicketInv
<1>2. Passing(k)' \subseteq Passing(k) /\ (Passing(k) = Marking(k) => Passing(k)' = Marking(k)')
      /\ (tickets'[k] \in {tickets[k], Gone} \/ (tickets[k] = None /\ tickets'[k] # None))
  OBVIOUS
<1>3. Gone # None
  <2>1. Gone.status # None.status
    BY DEF Gone, None
  <2> QED BY <2>1
<1>4. Cardinality(Passing(k)') <= Cardinality(Passing(k)) /\ Cardinality(Passing(k)') \in Nat
      /\ Cardinality(Passing(k)) \in Nat
  <2>1. Passing(k) \in SUBSET Requests /\ Passing(k)' \in SUBSET Requests
    BY DEF Passing
  <2> QED BY <1>2, <2>1, FewerPass, Counted
<1>5. rivals[k] \in Nat /\ opened[k] \in Nat
  BY DEF TypeOK
<1>6. rivals[k] > 0 => opened[k] + Cardinality(Passing(k)') <= rivals[k]
  BY <1>1, <1>4, <1>5
<1>7. rivals[k] > 0 => (Exists(k)' => tickets'[k].used) /\ tickets'[k] # None
  BY <1>1, <1>2, <1>3 DEF Exists
<1>8. Passing(k)' # {} => tickets'[k] # None
  BY <1>1, <1>2, <1>3
<1> QED BY <1>1, <1>2, <1>6, <1>7, <1>8

\* A request that goes on to, or ends in, a call that holds no ticket.
LEMMA LeavesTickets ==
  ASSUME TypeOK, RequestInv, NEW r \in Requests, NEW q,
         q.at \notin {"discard", "account", "mark", "member", "upgrade"},
         req' = [req EXCEPT ![r] = q],
         UNCHANGED <<now, banned, tickets, rivals, opened>>
  PROVE  RequestInv'
<1>1. \A s \in Requests : req'[s] = IF s = r THEN q ELSE req[s]
  BY DEF TypeOK
<1>2. DiscardsExpired' /\ BarredAreBanned'
  BY <1>1 DEF RequestInv, DiscardsExpired, BarredAreBanned, Expired
<1>3. ASSUME NEW k \in Tickets
      PROVE  Passing(k)' = Passing(k) \ {r} /\ Marking(k)' = Marking(k) \ {r}
  BY <1>1 DEF Passing, Marking
<1>4. TicketInv'
  BY <1>3, TicketFrame DEF RequestInv
<1> QED BY <1>2, <1>4 DEF RequestInv

\* Registering, logging in, logging out, and the end of a refresh.
LEMMA TokenRequests ==
  ASSUME TypeOK, RequestInv, NEW r \in Requests,
         \/ \E u \in Users : Register(r, u) \/ Login(r, u) \/ AskTicket(r, u)
         \/ CheckMail(r) \/ CheckName(r) \/ Insert(r) \/ Sign(r) \/ Store(r)
         \/ \E t \in handed : Logout(r, t)
         \/ Discard(r) \/ Renew(r) \/ Refused(r)
  PROVE  RequestInv'
<1> DEFINE Done == \E q : /\ q.at \notin {"discard", "account", "mark", "member", "upgrade"}
                          /\ req' = [req EXCEPT ![r] = q]
<1>1. ASSUME NEW u \in Users, Register(r, u) \/ Login(r, u) PROVE Done /\ UNCHANGED <<now, banned, tickets, rivals, opened>>
  <2>1. \A n \in {"mail", "sign"} : [at |-> n, user |-> u].at = n
    OBVIOUS
  <2> QED BY <1>1, <2>1 DEF Register, Login, Begin, docs, ghost
<1>2. ASSUME NEW u \in Users, AskTicket(r, u) PROVE Done /\ UNCHANGED <<now, banned, tickets, rivals, opened>>
  <2>1. [at |-> "ticket", user |-> u, exp |-> now + TicketTTL].at = "ticket"
    OBVIOUS
  <2> QED BY <1>2, <2>1 DEF AskTicket, Begin, docs, ghost
<1>6. ASSUME Done, UNCHANGED <<now, banned, tickets, rivals, opened>> PROVE RequestInv'
  BY <1>6, LeavesTickets
<1>0. Idle.at = "idle"
  BY DEF Idle
<1>3. CASE CheckMail(r) \/ CheckName(r) \/ Insert(r)
  <2>1. req[r] \in [at : {"mail", "name", "insert", "sign"}, user : Users]
    BY <1>3, Carries DEF CheckMail, CheckName, Insert, Step
  <2>2. \A n \in {"name", "insert", "sign"} : [req[r] EXCEPT !.at = n].at = n
    BY <2>1
  <2>3. Done
    BY <1>0, <1>3, <2>2 DEF CheckMail, CheckName, Insert, Step
  <2>4. UNCHANGED <<now, banned, tickets, rivals, opened>>
    BY <1>3 DEF CheckMail, CheckName, Insert, docs, ghost
  <2> QED BY <1>6, <2>3, <2>4
<1>4. CASE Sign(r)
  <2>1. [at |-> "store", token |-> [user |-> req[r].user, iat |-> now]].at = "store"
    OBVIOUS
  <2> QED BY <1>4, <2>1, LeavesTickets DEF Sign, Step, docs, ghost
<1>5. CASE Store(r) \/ Discard(r) \/ Renew(r) \/ Refused(r) \/ \E t \in handed : Logout(r, t)
  <2>1. req' = [req EXCEPT ![r] = Idle]
    BY <1>5 DEF Store, Discard, Renew, Refused, Logout, Step, Begin
  <2>2. UNCHANGED <<now, banned, tickets, rivals, opened>>
    BY <1>5 DEF Store, Discard, Renew, Refused, Logout, docs, ghost
  <2> QED BY <1>0, <2>1, <2>2, LeavesTickets
<1> QED BY <1>1, <1>2, <1>3, <1>4, <1>5, <1>6

\* A refresh remembers whether its user is banned, and discards what is expired.
LEMMA RefreshRequests ==
  ASSUME TypeOK, RequestInv, NEW r \in Requests, NEW t \in handed, Refresh(r, t)
  PROVE  RequestInv'
<1> DEFINE q == [at |-> IF Expired(t) THEN "discard" ELSE "account", token |-> t, barred |-> t.user \in banned]
<1>1. \A s \in Requests : req'[s] = IF s = r THEN q ELSE req[s]
  BY DEF Refresh, Begin, TypeOK
<1>2. UNCHANGED <<now, banned, tickets, rivals, opened>>
  BY DEF Refresh, docs, ghost
<1>3. q.at \in {"discard", "account"} /\ (q.at = "discard" => Expired(t)) /\ q.token = t
      /\ q.barred = (t.user \in banned)
  OBVIOUS
<1> HIDE DEF q
<1>4. DiscardsExpired' /\ BarredAreBanned'
  BY <1>1, <1>2, <1>3 DEF RequestInv, DiscardsExpired, BarredAreBanned, Expired
<1>5. ASSUME NEW k \in Tickets
      PROVE  Passing(k)' = Passing(k) \ {r} /\ Marking(k)' = Marking(k) \ {r}
  BY <1>1, <1>3 DEF Passing, Marking
<1>6. TicketInv'
  BY <1>2, <1>5, TicketFrame DEF RequestInv
<1> QED BY <1>4, <1>6 DEF RequestInv

\* A ticket is created: nobody can have found it yet.
LEMMA CreateRequests ==
  ASSUME TypeOK, RequestInv, NEW r \in Requests, NEW k \in Tickets, CreateTicket(r, k)
  PROVE  RequestInv'
<1>1. \A s \in Requests : req'[s] = IF s = r THEN Idle ELSE req[s]
  BY DEF CreateTicket, Step, TypeOK
<1>2. UNCHANGED <<now, banned, rivals, opened>> /\ tickets[k] = None
  BY DEF CreateTicket, ghost
<1>3. Idle.at = "idle"
  BY DEF Idle
<1>4. DiscardsExpired' /\ BarredAreBanned'
  BY <1>1, <1>2, <1>3 DEF RequestInv, DiscardsExpired, BarredAreBanned, Expired
<1>5. ASSUME NEW j \in Tickets
      PROVE  Passing(j)' = Passing(j) \ {r} /\ Marking(j)' = Marking(j) \ {r}
  BY <1>1, <1>3 DEF Passing, Marking
<1>6. tickets'[k] # None
  <2> DEFINE d == [user |-> req[r].user, used |-> FALSE, exp |-> req[r].exp]
  <2>1. tickets'[k] = d
    BY DEF CreateTicket, TypeOK
  <2>2. DOMAIN d = {"user", "used", "exp"} /\ DOMAIN None = {"status"}
    BY DEF None
  <2>3. "user" \in DOMAIN d /\ "user" \notin DOMAIN None
    BY <2>2
  <2> QED BY <2>1, <2>3
<1>7. \A j \in Tickets : j # k => tickets'[j] = tickets[j]
  BY DEF CreateTicket, TypeOK
<1>8. TicketInv'
  BY <1>2, <1>5, <1>6, <1>7, TicketFrame DEF RequestInv
<1> QED BY <1>4, <1>8 DEF RequestInv

\* A validation joins a ticket that nobody has marked.
LEMMA FindRequests ==
  ASSUME TypeOK, RequestInv, NEW r \in Requests, NEW k \in Tickets, FindTicket(r, k)
  PROVE  RequestInv'
<1> DEFINE q == [at |-> "mark", ticket |-> k, user |-> tickets[k].user, barred |-> tickets[k].user \in banned]
<1>1. \A s \in Requests : req'[s] = IF s = r THEN q ELSE req[s]
  BY DEF FindTicket, Begin, TypeOK
<1>2. UNCHANGED <<now, banned, tickets, rivals, opened>> /\ Exists(k) /\ ~tickets[k].used /\ req[r] = Idle
  BY DEF FindTicket, Begin, docs, ghost
<1>3. q.at = "mark" /\ q.ticket = k /\ q.user = tickets[k].user /\ q.barred = (tickets[k].user \in banned)
  OBVIOUS
<1> HIDE DEF q
<1>4. DiscardsExpired' /\ BarredAreBanned'
  BY <1>1, <1>2, <1>3 DEF RequestInv, DiscardsExpired, BarredAreBanned, Expired
<1>5. rivals[k] = 0
  BY <1>2 DEF RequestInv, TicketInv, TypeOK
<1>6. Passing(k)' = Passing(k) \union {r} /\ Marking(k)' = Marking(k) \union {r}
  BY <1>1, <1>3 DEF Passing, Marking
<1>7. Idle.at = "idle"
  BY DEF Idle
<1>8. \A j \in Tickets : j # k => Passing(j)' = Passing(j) /\ Marking(j)' = Marking(j)
  BY <1>1, <1>2, <1>3, <1>7 DEF Passing, Marking
<1>9. TicketInv'
  <2> SUFFICES ASSUME NEW j \in Tickets
      PROVE  /\ Passing(j)' # {} => tickets[j] # None
             /\ rivals[j] = 0 => opened[j] = 0 /\ Passing(j)' = Marking(j)'
             /\ rivals[j] > 0 => /\ Exists(j) => tickets[j].used
                                 /\ tickets[j] # None
                                 /\ opened[j] + Cardinality(Passing(j)') <= rivals[j]
    BY <1>2 DEF TicketInv, Exists
  <2>1. CASE j = k
    BY <1>2, <1>5, <1>6, <2>1 DEF RequestInv, TicketInv, Exists
  <2>2. CASE j # k
    BY <1>8, <2>2 DEF RequestInv, TicketInv
  <2> QED BY <2>1, <2>2
<1> QED BY <1>4, <1>9 DEF RequestInv

\* The first mark counts the rivals; a later one adds nobody.
LEMMA MarkRequests ==
  ASSUME TypeOK, RequestInv, NEW r \in Requests, MarkUsed(r)
  PROVE  RequestInv'
<1> DEFINE k == req[r].ticket
<1>1. req[r] \in [at : {"mark", "member", "upgrade"}, ticket : Tickets, user : Users, barred : BOOLEAN]
      /\ req[r].at = "mark" /\ k \in Tickets
  BY Carries DEF MarkUsed, Step
<1>2. PICK q : /\ req' = [req EXCEPT ![r] = q]
               /\ q.at \in {"member", "idle"}
               /\ q.at = "member" => q.ticket = k /\ q.user = req[r].user /\ q.barred = req[r].barred
  <2>1. LET q == [req[r] EXCEPT !.at = "member"]
        IN  q.at = "member" /\ q.ticket = k /\ q.user = req[r].user /\ q.barred = req[r].barred
    BY <1>1
  <2>2. Idle.at = "idle"
    BY DEF Idle
  <2> QED BY <2>1, <2>2 DEF MarkUsed, Step
<1>3. \A s \in Requests : req'[s] = IF s = r THEN q ELSE req[s]
  BY <1>2 DEF TypeOK
<1>4. UNCHANGED <<now, banned, opened>>
  BY DEF MarkUsed
<1>5. DiscardsExpired' /\ BarredAreBanned'
  BY <1>1, <1>2, <1>3, <1>4 DEF RequestInv, DiscardsExpired, BarredAreBanned, Expired
<1>6. ASSUME NEW j \in Tickets
      PROVE  Passing(j)' \subseteq Passing(j) /\ (j # k => Passing(j)' = Passing(j) /\ Marking(j)' = Marking(j))
  BY <1>1, <1>2, <1>3 DEF Passing, Marking
<1>7. r \in Marking(k) /\ Marking(k) \subseteq Passing(k)
  BY <1>1 DEF Marking, Passing
<1>8. /\ rivals' = [rivals EXCEPT ![k] = IF rivals[k] = 0 THEN Cardinality(Marking(k)) ELSE rivals[k]]
      /\ tickets' = [tickets EXCEPT ![k] = IF Exists(k) THEN [tickets[k] EXCEPT !.used = TRUE] ELSE tickets[k]]
  BY DEF MarkUsed
<1>9. TicketInv'
  <2> SUFFICES ASSUME NEW j \in Tickets
      PROVE  /\ Passing(j)' # {} => tickets'[j] # None
             /\ rivals'[j] = 0 => opened[j] = 0 /\ Passing(j)' = Marking(j)'
             /\ rivals'[j] > 0 => /\ Exists(j)' => tickets'[j].used
                                  /\ tickets'[j] # None
                                  /\ opened[j] + Cardinality(Passing(j)') <= rivals'[j]
    BY <1>4 DEF TicketInv
  <2>1. /\ Passing(j) # {} => tickets[j] # None
        /\ rivals[j] = 0 => opened[j] = 0 /\ Passing(j) = Marking(j)
        /\ rivals[j] > 0 => /\ Exists(j) => tickets[j].used
                            /\ tickets[j] # None
                            /\ opened[j] + Cardinality(Passing(j)) <= rivals[j]
    BY DEF RequestInv, TicketInv
  <2>0. Passing(j)' \subseteq Passing(j) /\ (j # k => Passing(j)' = Passing(j) /\ Marking(j)' = Marking(j))
    BY <1>6
  <2>2. CASE j # k
    <3>1. rivals'[j] = rivals[j] /\ tickets'[j] = tickets[j]
      BY <1>1, <1>8, <2>2 DEF TypeOK
    <3>2. Exists(j)' <=> Exists(j)
      BY <3>1 DEF Exists
    <3>3. Passing(j)' = Passing(j) /\ Marking(j)' = Marking(j)
      BY <2>0, <2>2
    <3> QED BY <2>1, <3>1, <3>2, <3>3
  <2>3. CASE j = k
    <3>1. Cardinality(Passing(j)') <= Cardinality(Passing(j)) /\ Cardinality(Passing(j)') \in Nat
          /\ Cardinality(Passing(j)) \in Nat
      <4>1. Passing(j) \in SUBSET Requests /\ Passing(j)' \in SUBSET Requests
        BY DEF Passing
      <4> QED BY <2>0, <4>1, FewerPass, Counted
    <3>2. rivals[j] \in Nat /\ opened[j] \in Nat
      BY DEF TypeOK
    <3>3. Passing(j) # {}
      BY <1>7, <2>3
    <3>4. Cardinality(Marking(j)) \in Nat /\ Cardinality(Marking(j)) > 0
      <4>1. Marking(j) \in SUBSET Requests /\ Marking(j) # {}
        BY <1>7, <2>3 DEF Marking
      <4>2. IsFiniteSet(Marking(j)) /\ Cardinality(Marking(j)) \in Nat
        BY <4>1, Counted
      <4>3. Cardinality(Marking(j)) # 0
        BY <4>1, <4>2, FS_EmptySet
      <4> QED BY <4>2, <4>3
    <3>5. rivals'[j] = IF rivals[j] = 0 THEN Cardinality(Marking(j)) ELSE rivals[j]
      BY <1>1, <1>8, <2>3 DEF TypeOK
    <3>6. rivals'[j] > 0 /\ opened[j] + Cardinality(Passing(j)') <= rivals'[j]
      BY <2>1, <3>1, <3>2, <3>4, <3>5
    <3>7. tickets'[j] # None /\ (Exists(j)' => tickets'[j].used)
      <4>1. CASE Exists(j)
        <5> DEFINE d == [tickets[j] EXCEPT !.used = TRUE]
        <5>1. tickets'[j] = d
          BY <1>1, <1>8, <2>3, <4>1 DEF TypeOK
        <5>2. tickets[j] \in TicketDoc
          BY <4>1 DEF Exists, TypeOK
        <5>3. d.used = TRUE /\ DOMAIN d = {"user", "used", "exp"}
          BY <5>2 DEF TicketDoc
        <5>4. DOMAIN None = {"status"}
          BY DEF None
        <5>5. "user" \in DOMAIN d /\ "user" \notin DOMAIN None
          BY <5>3, <5>4
        <5> QED BY <5>1, <5>3, <5>5
      <4>2. CASE ~Exists(j)
        <5>1. tickets'[j] = tickets[j]
          BY <1>1, <1>8, <2>3, <4>2 DEF TypeOK
        <5> QED BY <2>1, <3>3, <4>2, <5>1 DEF Exists
      <4> QED BY <4>1, <4>2
    <3> QED BY <3>4, <3>5, <3>6, <3>7
  <2> QED BY <2>2, <2>3
<1> QED BY <1>5, <1>9 DEF RequestInv

\* Nobody who is barred gets past FindByID.
LEMMA MemberRequests ==
  ASSUME TypeOK, RequestInv, NEW r \in Requests, Member(r)
  PROVE  RequestInv'
<1> DEFINE q == [req[r] EXCEPT !.at = "upgrade"]
<1>1. req[r] \in [at : {"mark", "member", "upgrade"}, ticket : Tickets, user : Users, barred : BOOLEAN]
      /\ req[r].at = "member" /\ req[r].user \notin banned
  BY Carries DEF Member, Step
<1>2. \A s \in Requests : req'[s] = IF s = r THEN q ELSE req[s]
  BY DEF Member, Step, TypeOK
<1>3. q.at = "upgrade" /\ q.ticket = req[r].ticket /\ q.barred = req[r].barred
  BY <1>1
<1> HIDE DEF q
<1>4. UNCHANGED <<now, banned, tickets, rivals, opened>>
  BY DEF Member, docs, ghost
<1>5. ~req[r].barred
  BY <1>1 DEF RequestInv, BarredAreBanned
<1>6. DiscardsExpired' /\ BarredAreBanned'
  BY <1>2, <1>3, <1>4, <1>5 DEF RequestInv, DiscardsExpired, BarredAreBanned, Expired
<1>7. ASSUME NEW k \in Tickets PROVE Passing(k)' = Passing(k) /\ Marking(k)' = Marking(k)
  BY <1>1, <1>2, <1>3 DEF Passing, Marking
<1>8. TicketInv'
  BY <1>4, <1>7, TicketFrame DEF RequestInv
<1> QED BY <1>6, <1>8 DEF RequestInv

\* A connection is opened by one of those who were counted.
LEMMA UpgradeRequests ==
  ASSUME TypeOK, RequestInv, NEW r \in Requests, Upgrade(r)
  PROVE  RequestInv'
<1> DEFINE k == req[r].ticket
<1>1. req[r].at = "upgrade" /\ k \in Tickets
  BY Carries DEF Upgrade, Step
<1>2. \A s \in Requests : req'[s] = IF s = r THEN Idle ELSE req[s]
  BY DEF Upgrade, Step, TypeOK
<1>3. Idle.at = "idle"
  BY DEF Idle
<1>4. UNCHANGED <<now, banned, tickets, rivals>> /\ opened' = [opened EXCEPT ![k] = opened[k] + 1]
  BY DEF Upgrade, docs
<1>5. DiscardsExpired' /\ BarredAreBanned'
  BY <1>2, <1>3, <1>4 DEF RequestInv, DiscardsExpired, BarredAreBanned, Expired
<1>6. TicketInv'
  <2> SUFFICES ASSUME NEW j \in Tickets
      PROVE  /\ Passing(j)' # {} => tickets[j] # None
             /\ rivals[j] = 0 => opened'[j] = 0 /\ Passing(j)' = Marking(j)'
             /\ rivals[j] > 0 => /\ Exists(j) => tickets[j].used
                                 /\ tickets[j] # None
                                 /\ opened'[j] + Cardinality(Passing(j)') <= rivals[j]
    BY <1>4 DEF TicketInv, Exists
  <2>1. /\ Passing(j) # {} => tickets[j] # None
        /\ rivals[j] = 0 => opened[j] = 0 /\ Passing(j) = Marking(j)
        /\ rivals[j] > 0 => /\ Exists(j) => tickets[j].used
                            /\ tickets[j] # None
                            /\ opened[j] + Cardinality(Passing(j)) <= rivals[j]
    BY DEF RequestInv, TicketInv
  <2>2. CASE j # k
    <3>1. opened'[j] = opened[j]
      BY <1>1, <1>4, <2>2 DEF TypeOK
    <3>2. Passing(j)' = Passing(j) /\ Marking(j)' = Marking(j)
      BY <1>1, <1>2, <1>3, <2>2 DEF Passing, Marking
    <3> QED BY <2>1, <3>1, <3>2
  <2>3. CASE j = k
    <3>1. r \in Passing(j) /\ r \notin Marking(j)
      BY <1>1, <2>3 DEF Passing, Marking
    <3>2. rivals[j] > 0
      BY <2>1, <3>1 DEF TypeOK
    <3>3. Passing(j)' = Passing(j) \ {r}
      BY <1>2, <1>3 DEF Passing
    <3>4. IsFiniteSet(Passing(j)) /\ Cardinality(Passing(j)) \in Nat
      BY Counted DEF Passing
    <3>5. Cardinality(Passing(j) \ {r}) = Cardinality(Passing(j)) - 1
      BY <3>1, <3>4, FS_RemoveElement
    <3>6. opened'[j] = opened[j] + 1 /\ opened[j] \in Nat /\ rivals[j] \in Nat
      BY <1>1, <1>4, <2>3 DEF TypeOK
    <3> QED BY <2>1, <3>1, <3>2, <3>3, <3>4, <3>5, <3>6
  <2> QED BY <2>2, <2>3
<1> QED BY <1>5, <1>6 DEF RequestInv

\* Bans, clean-ups, exits and time.
LEMMA OtherRequests ==
  ASSUME TypeOK, RequestInv,
         \/ \E u \in Users : Ban(u) \/ Unban(u)
         \/ SweepTokens \/ SweepTickets \/ SweepFails \/ Expire \/ Exit \/ Start \/ Tick
         \/ UNCHANGED vars
  PROVE  RequestInv'
<1>1. ASSUME UNCHANGED <<req, rivals, opened>>, \A k \in Tickets : tickets'[k] \in {tickets[k], Gone},
             now' \in {now, now + 1}, banned \subseteq banned'
      PROVE  RequestInv'
  <2>1. DiscardsExpired'
    <3> SUFFICES ASSUME NEW r \in Requests, req[r].at = "discard" PROVE now' > req[r].token.iat + RefreshTTL
      BY <1>1 DEF DiscardsExpired, Expired
    <3>1. now > req[r].token.iat + RefreshTTL
      BY DEF RequestInv, DiscardsExpired, Expired
    <3>2. req[r].token.iat \in Int /\ now \in Int /\ RefreshTTL \in Int
      BY Carries, SessionsAssumption DEF Tokens, TypeOK
    <3> QED BY <1>1, <3>1, <3>2
  <2>2. BarredAreBanned'
    BY <1>1 DEF RequestInv, BarredAreBanned
  <2>3. ASSUME NEW k \in Tickets PROVE Passing(k)' = Passing(k) /\ Marking(k)' = Marking(k)
    BY <1>1 DEF Passing, Marking
  <2>4. TicketInv'
    BY <1>1, <2>3, TicketFrame DEF RequestInv
  <2> QED BY <2>1, <2>2, <2>4 DEF RequestInv
<1>2. ASSUME NEW u \in Users, Unban(u) PROVE RequestInv'
  <2>1. UNCHANGED <<now, tickets, rivals, opened>> /\ banned' = banned \ {u}
    BY <1>2 DEF Unban, ghost
  <2>2. \A r \in Requests : req'[r] = Pardoned(req[r], u) /\ req[r] \in RequestType
    BY <1>2 DEF Unban, TypeOK
  <2>3. DiscardsExpired' /\ BarredAreBanned'
    BY <2>1, <2>2, PardonedKeeps DEF RequestInv, DiscardsExpired, BarredAreBanned, Expired
  <2>4. ASSUME NEW k \in Tickets PROVE Passing(k)' = Passing(k) /\ Marking(k)' = Marking(k)
    BY <2>2, PardonedKeeps DEF Passing, Marking
  <2>5. TicketInv'
    BY <2>1, <2>4, TicketFrame DEF RequestInv
  <2> QED BY <2>3, <2>5 DEF RequestInv
<1>3. CASE Exit
  <2>1. UNCHANGED <<now, banned, tickets, rivals, opened>> /\ \A r \in Requests : req'[r] = Idle
    BY <1>3 DEF Exit, docs, ghost
  <2>2. Idle.at = "idle"
    BY DEF Idle
  <2>3. DiscardsExpired' /\ BarredAreBanned'
    BY <2>1, <2>2 DEF DiscardsExpired, BarredAreBanned
  <2>4. ASSUME NEW k \in Tickets PROVE Passing(k)' = {} /\ Marking(k)' = {}
    BY <2>1, <2>2 DEF Passing, Marking
  <2>5. TicketInv'
    BY <2>1, <2>4, TicketFrame DEF RequestInv
  <2> QED BY <2>3, <2>5 DEF RequestInv
<1>4. ASSUME NEW u \in Users, Ban(u) PROVE RequestInv'
  <2>1. UNCHANGED <<req, rivals, opened, now, tickets>> /\ banned \subseteq banned'
    BY <1>4 DEF Ban, ghost
  <2> QED BY <1>1, <2>1
<1>5. CASE SweepTokens \/ SweepTickets \/ SweepFails \/ Start
  <2>1. \A k \in Tickets : tickets'[k] \in {tickets[k], Gone}
    BY <1>5 DEF SweepTokens, SweepTickets, SweepFails, Start
  <2>2. UNCHANGED <<req, rivals, opened, now, banned>>
    BY <1>5 DEF SweepTokens, SweepTickets, SweepFails, Start, Sweep, ghost
  <2> QED BY <1>1, <2>1, <2>2
<1>6. CASE Expire
  <2>1. \A k \in Tickets : tickets'[k] \in {tickets[k], Gone}
    BY <1>6 DEF Expire, TypeOK
  <2>2. UNCHANGED <<req, rivals, opened, now, banned>>
    BY <1>6 DEF Expire, ghost
  <2> QED BY <1>1, <2>1, <2>2
<1>7. CASE Tick \/ UNCHANGED vars
  <2>1. UNCHANGED <<req, rivals, opened, tickets, banned>> /\ now' \in {now, now + 1}
    BY <1>7 DEF Tick, vars, docs, ghost
  <2> QED BY <1>1, <2>1
<1> QED BY <1>2, <1>3, <1>4, <1>5, <1>6, <1>7

\* Every step keeps what is said of requests and tickets.
LEMMA StepRequests == TypeOK /\ RequestInv /\ [Next]_vars => RequestInv'
BY TokenRequests, RefreshRequests, CreateRequests, FindRequests, MarkRequests,
   MemberRequests, UpgradeRequests, OtherRequests DEF Next

-----------------------------------------------------------------------------
(* Accounts and tokens *)

\* Only an insert adds an account, and the unique indexes let it.
LEMMA StepNames == TypeOK /\ NamesAreUnique /\ [Next]_vars => NamesAreUnique'
<1> SUFFICES ASSUME TypeOK, NamesAreUnique, [Next]_vars PROVE NamesAreUnique'
  OBVIOUS
<1>1. ASSUME NEW r \in Requests, Insert(r) PROVE NamesAreUnique'
  <2>1. accounts' = accounts \union {req[r].user} /\ IsFree(req[r].user)
    BY <1>1 DEF Insert
  <2> QED BY <2>1 DEF IsFree, NamesAreUnique
<1>2. ASSUME accounts' = accounts PROVE NamesAreUnique'
  BY <1>2 DEF NamesAreUnique
<1>3. ASSUME NEW r \in Requests,
             \/ \E u \in Users : Register(r, u) \/ Login(r, u) \/ AskTicket(r, u)
             \/ CheckMail(r) \/ CheckName(r) \/ Sign(r) \/ Store(r)
             \/ \E t \in handed : Refresh(r, t) \/ Logout(r, t)
             \/ Discard(r) \/ Renew(r)
      PROVE  accounts' = accounts
  BY <1>3 DEF Register, Login, AskTicket, CheckMail, CheckName, Sign, Store, Refresh, Logout, Discard, Renew, docs
<1>4. ASSUME NEW r \in Requests,
             \/ \E k \in Tickets : CreateTicket(r, k) \/ FindTicket(r, k)
             \/ MarkUsed(r) \/ Member(r) \/ Upgrade(r) \/ Refused(r)
      PROVE  accounts' = accounts
  BY <1>4 DEF CreateTicket, FindTicket, MarkUsed, Member, Upgrade, Refused, docs
<1>5. ASSUME \/ \E u \in Users : Ban(u) \/ Unban(u)
             \/ SweepTokens \/ SweepTickets \/ SweepFails \/ Expire \/ Exit \/ Start \/ Tick
             \/ UNCHANGED vars
      PROVE  accounts' = accounts
  BY <1>5 DEF Ban, Unban, SweepTokens, SweepTickets, SweepFails, Sweep, Expire, Exit, Start, Tick, vars, docs
<1> QED BY <1>1, <1>2, <1>3, <1>4, <1>5 DEF Next

\* A token is removed by a logout, which excuses it, or when it has expired;
\* and what has expired stays so.
LEMMA StepSessions == TypeOK /\ SessionsAreKept /\ DiscardsExpired /\ [Next]_vars => SessionsAreKept'
<1> SUFFICES ASSUME TypeOK, SessionsAreKept, DiscardsExpired, [Next]_vars PROVE SessionsAreKept'
  OBVIOUS
<1>0. \A t \in handed : t \in stored \/ t \in excused \/ Expired(t)
  BY DEF SessionsAreKept
<1>1. ASSUME NEW r \in Requests, Store(r) PROVE SessionsAreKept'
  <2>1. handed' = handed \union {req[r].token} /\ stored \subseteq stored' /\ excused \subseteq excused'
        /\ (req[r].token \in stored' \/ req[r].token \in excused') /\ now' = now
    BY <1>1 DEF Store
  <2> QED BY <1>0, <2>1 DEF SessionsAreKept, Expired
<1>2. ASSUME NEW r \in Requests, NEW t \in handed, Logout(r, t) PROVE SessionsAreKept'
  <2>1. stored' = stored \ {t} /\ excused' = excused \union {t} /\ UNCHANGED <<now, handed>>
    BY <1>2 DEF Logout
  <2> QED BY <1>0, <2>1 DEF SessionsAreKept, Expired
<1>3. ASSUME UNCHANGED <<now, handed, excused>>, \A t \in stored \ stored' : Expired(t) PROVE SessionsAreKept'
  BY <1>0, <1>3 DEF SessionsAreKept, Expired
<1>4. ASSUME NEW r \in Requests, Discard(r) PROVE SessionsAreKept'
  <2>1. stored' = stored \ {req[r].token} /\ UNCHANGED <<now, handed, excused>> /\ Expired(req[r].token)
    BY <1>4 DEF Discard, Step, ghost, DiscardsExpired
  <2>2. \A t \in stored \ stored' : Expired(t)
    BY <2>1
  <2> QED BY <1>3, <2>1, <2>2
<1>5. CASE SweepTokens \/ SweepTickets \/ SweepFails \/ Start
  <2>1. \A t \in stored \ stored' : Expired(t)
    BY <1>5 DEF SweepTokens, SweepTickets, SweepFails, Start
  <2>2. UNCHANGED <<now, handed, excused>>
    BY <1>5 DEF SweepTokens, SweepTickets, SweepFails, Start, Sweep, ghost
  <2> QED BY <1>3, <2>1, <2>2
<1>6. CASE Expire
  <2>1. \A t \in stored \ stored' : Expired(t)
    BY <1>6 DEF Expire
  <2>2. UNCHANGED <<now, handed, excused>>
    BY <1>6 DEF Expire, ghost
  <2> QED BY <1>3, <2>1, <2>2
<1>7. CASE Tick
  <2>1. UNCHANGED <<stored, handed, excused>> /\ now' = now + 1 /\ now \in Int /\ RefreshTTL \in Int
    BY <1>7, SessionsAssumption DEF Tick, docs, ghost, TypeOK
  <2>2. \A t \in handed : t.iat \in Int
    BY DEF TypeOK, Tokens
  <2> QED BY <1>0, <2>1, <2>2 DEF SessionsAreKept, Expired
<1>8. ASSUME UNCHANGED <<now, handed, excused, stored>> PROVE SessionsAreKept'
  BY <1>3, <1>8
<1>9. ASSUME NEW r \in Requests,
             \/ \E u \in Users : Register(r, u) \/ Login(r, u) \/ AskTicket(r, u)
             \/ CheckMail(r) \/ CheckName(r) \/ Insert(r) \/ Sign(r) \/ Renew(r)
             \/ \E t \in handed : Refresh(r, t)
      PROVE  UNCHANGED <<now, handed, excused, stored>>
  BY <1>9 DEF Register, Login, AskTicket, CheckMail, CheckName, Insert, Sign, Renew, Refresh, docs, ghost
<1>10. ASSUME NEW r \in Requests,
              \/ \E k \in Tickets : CreateTicket(r, k) \/ FindTicket(r, k)
              \/ MarkUsed(r) \/ Member(r) \/ Upgrade(r) \/ Refused(r)
       PROVE  UNCHANGED <<now, handed, excused, stored>>
  BY <1>10 DEF CreateTicket, FindTicket, MarkUsed, Member, Upgrade, Refused, docs, ghost
<1>11. ASSUME (\E u \in Users : Ban(u) \/ Unban(u)) \/ Exit \/ UNCHANGED vars
       PROVE  UNCHANGED <<now, handed, excused, stored>>
  BY <1>11 DEF Ban, Unban, Exit, vars, docs, ghost
<1> QED BY <1>1, <1>2, <1>4, <1>5, <1>6, <1>7, <1>8, <1>9, <1>10, <1>11 DEF Next

\* Every step keeps the invariant.
LEMMA StepInv == IInv /\ [Next]_vars => IInv'
BY StepTypes, StepNames, StepSessions, StepRequests DEF IInv, RequestInv

-----------------------------------------------------------------------------
(* Theorems *)

\* The inductive invariant holds in every state.
LEMMA Invariance == Spec => []IInv
BY InitInv, StepInv, PTL DEF Spec

\* The collections, the requests and the bookkeeping keep their types: no
\* document is changed that does not exist.
THEOREM SessionTypes == Spec => []TypeOK
<1>1. IInv => TypeOK
  BY DEF IInv
<1> QED BY <1>1, Invariance, PTL

\* No two accounts ever share an email or a username, however many
\* registrations pass the lookups together (auth_service.go:57-68).
THEOREM NamesStayUnique == Spec => []NamesAreUnique
<1>1. IInv => NamesAreUnique
  BY DEF IInv
<1> QED BY <1>1, Invariance, PTL

\* No refresh token that a client holds disappears before it expires, but by
\* her logout or a failed insert (auth_service.go:146-206, cleanup_service.go).
THEOREM SessionsStay == Spec => []SessionsAreKept
<1>1. IInv => SessionsAreKept
  BY DEF IInv
<1> QED BY <1>1, Invariance, PTL

\* A ticket never opens more connections than had found it unused when it was
\* first marked (auth_service.go:218-238).
THEOREM TicketsAreShared == Spec => []RivalsShareATicket
<1>1. IInv => RivalsShareATicket
  <2> SUFFICES ASSUME IInv, NEW k \in Tickets PROVE opened[k] <= rivals[k]
    BY DEF RivalsShareATicket
  <2>1. rivals[k] \in Nat /\ opened[k] \in Nat
    BY DEF IInv, TypeOK
  <2>2. Passing(k) \in SUBSET Requests
    BY DEF Passing
  <2>3. Cardinality(Passing(k)) \in Nat
    BY <2>2, Counted
  <2>4. /\ rivals[k] = 0 => opened[k] = 0
        /\ rivals[k] > 0 => opened[k] + Cardinality(Passing(k)) <= rivals[k]
    BY DEF IInv, TicketInv
  <2> QED BY <2>1, <2>3, <2>4
<1> QED BY <1>1, Invariance, PTL

\* Nobody who has stayed banned since her request began gets a token or a
\* connection by it (auth_service.go:180,247).
THEOREM BannedAreOut == Spec => BannedStaysOut
<1> DEFINE Out == \A r \in Requests :
        /\ req[r].at \in {"discard", "account", "mark", "member", "upgrade"} /\ req[r].barred
        /\ req'[r] # req[r]
        => jwt' = jwt /\ opened' = opened
<1>1. IInv /\ [Next]_vars => Out
  <2> SUFFICES ASSUME IInv, [Next]_vars, NEW r \in Requests,
                      req[r].at \in {"discard", "account", "mark", "member", "upgrade"}, req[r].barred,
                      req'[r] # req[r]
               PROVE  jwt' = jwt /\ opened' = opened
    OBVIOUS
  <2>0. req \in [Requests -> RequestType] /\ BarredAreBanned
    BY DEF IInv, TypeOK
  <2>1. ASSUME NEW s \in Requests, Store(s) \/ Renew(s) \/ Upgrade(s) PROVE s = r
    <3>1. \E q : req' = [req EXCEPT ![s] = q]
      BY <2>1 DEF Store, Renew, Upgrade, Step
    <3> QED BY <2>0, <3>1
  <2>2. ~Store(r) /\ ~Renew(r) /\ ~Upgrade(r)
    <3>1. ~Store(r)
      BY DEF Store, Step
    <3>2. ~Renew(r)
      BY <2>0 DEF Renew, Step, BarredAreBanned
    <3>3. ~Upgrade(r)
      BY <2>0 DEF Upgrade, Step, BarredAreBanned
    <3> QED BY <3>1, <3>2, <3>3
  <2>3. \A s \in Requests : ~Store(s) /\ ~Renew(s) /\ ~Upgrade(s)
    BY <2>1, <2>2
  <2>4. ASSUME NEW s \in Requests,
               \/ \E u \in Users : Register(s, u) \/ Login(s, u) \/ AskTicket(s, u)
               \/ CheckMail(s) \/ CheckName(s) \/ Insert(s) \/ Sign(s) \/ Discard(s)
               \/ \E t \in handed : Refresh(s, t) \/ Logout(s, t)
        PROVE  jwt' = jwt /\ opened' = opened
    BY <2>4 DEF Register, Login, AskTicket, CheckMail, CheckName, Insert, Sign, Discard, Refresh, Logout, ghost
  <2>5. ASSUME NEW s \in Requests,
               \/ \E k \in Tickets : CreateTicket(s, k) \/ FindTicket(s, k)
               \/ MarkUsed(s) \/ Member(s) \/ Refused(s)
        PROVE  jwt' = jwt /\ opened' = opened
    BY <2>5 DEF CreateTicket, FindTicket, MarkUsed, Member, Refused, ghost
  <2>6. ASSUME \/ \E u \in Users : Ban(u) \/ Unban(u)
               \/ SweepTokens \/ SweepTickets \/ SweepFails \/ Expire \/ Exit \/ Start \/ Tick
               \/ UNCHANGED vars
        PROVE  jwt' = jwt /\ opened' = opened
    BY <2>6 DEF Ban, Unban, SweepTokens, SweepTickets, SweepFails, Sweep, Expire, Exit, Start, Tick, vars, ghost
  <2> QED BY <2>3, <2>4, <2>5, <2>6 DEF Next
<1>2. IInv /\ [Next]_vars => [Out]_vars
  BY <1>1
<1> QED BY <1>2, Invariance, PTL DEF Spec, BannedStaysOut
=============================================================================
