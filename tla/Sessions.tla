-------------------------------- MODULE Sessions --------------------------------
(***************************************************************************)
(* Accounts, tokens and WebSocket tickets: services/auth_service.go and    *)
(* its repositories, the check of a token (middleware/jwt_middleware.go),  *)
(* the upgrade of a connection (websocket/ws_handler.go), bans             *)
(* (services/admin_service.go) and the hourly cleanup                      *)
(* (services/cleanup_service.go).                                          *)
(*                                                                         *)
(* A step of a request is one database call with the local code up to the  *)
(* next one.  Any call may fail, and requests end with the process.  Time  *)
(* is counted in the seconds of a token's iat.                             *)
(***************************************************************************)
EXTENDS Integers, FiniteSets, FiniteSetsExt

CONSTANTS
    Users,          \* people who may register
    Mail, Name,     \* the email and username each asks for
    Tickets,        \* bound: tickets that can be created
    Requests,       \* request goroutines; an idle one is also the next request
    AccessTTL, RefreshTTL, TicketTTL,
    MaxNow,         \* bound: seconds
    MaxBegun,       \* bound: requests
    MaxFaults       \* bound: failures of the cleanup and exits of the process

ASSUME SessionsAssumption ==
    /\ AccessTTL \in Nat /\ RefreshTTL \in Nat /\ TicketTTL \in Nat
    /\ MaxNow \in Nat /\ MaxBegun \in Nat /\ MaxFaults \in Nat /\ IsFiniteSet(Requests)

VARIABLES
    now,
    accounts, banned,   \* users: who has an account, is_banned
    stored,     \* refresh_tokens: the tokens in it
    tickets,    \* ws_tickets
    req,        \* what each request is doing
    sweeper,    \* CleanupService, "down" when the process is
    jwt,        \* last second at which a token that JWTAuth accepts names the user
    handed,     \* refresh tokens that clients were given
    excused,    \* those that were logged out, or whose insert failed
    rivals,     \* validations past their check when the ticket was first marked
    opened,     \* connections opened with a ticket
    begun, faults   \* bounds used up

docs  == <<accounts, banned, stored, tickets>>
ghost == <<handed, excused, rivals, opened>>
bounds == <<begun, faults>>
vars  == <<now, docs, req, sweeper, jwt, ghost, bounds>>

-----------------------------------------------------------------------------
(* Types *)

\* A refresh token is a signed user id and second: a second login in the same
\* second gets the same string.  Its document has the same expiry.
Tokens == [user : Users, iat : 0..MaxNow]
Expired(t) == now > t.iat + RefreshTTL

TicketDoc == [user : Users, used : BOOLEAN, exp : 0..(MaxNow + TicketTTL)]
None == [status |-> "none"]     \* not created yet
Gone == [status |-> "gone"]     \* created and deleted
Exists(k) == tickets[k] \notin {None, Gone}
Overdue(k) == Exists(k) /\ now > tickets[k].exp

\* The next database call of a request, and what it carries: the user, or the
\* token or ticket and whether its user has been banned ever since it began.
Idle == [at |-> "idle"]
RequestType ==
    {Idle} \union [at : {"mail", "name", "insert", "sign"}, user : Users]
           \union [at : {"store"}, token : Tokens]
           \union [at : {"discard", "account"}, token : Tokens, barred : BOOLEAN]
           \union [at : {"ticket"}, user : Users, exp : 0..(MaxNow + TicketTTL)]
           \union [at : {"mark", "member", "upgrade"}, ticket : Tickets, user : Users, barred : BOOLEAN]

(* TypeOK: types of the collections, the requests and the bookkeeping.     *)
TypeOK ==
    /\ now \in 0..MaxNow
    /\ accounts \subseteq Users /\ banned \subseteq accounts
    /\ stored \subseteq Tokens
    /\ tickets \in [Tickets -> TicketDoc \union {None, Gone}]
    /\ req \in [Requests -> RequestType]
    /\ sweeper \in {"idle", "tickets", "down"}
    /\ jwt \in [Users -> (0..(MaxNow + AccessTTL + RefreshTTL)) \union {-1}]
    /\ handed \subseteq Tokens /\ excused \subseteq Tokens
    /\ rivals \in [Tickets -> Nat] /\ opened \in [Tickets -> Nat]
    /\ begun \in 0..MaxBegun /\ faults \in 0..MaxFaults

-----------------------------------------------------------------------------
Init ==
    /\ now = 0 /\ accounts = {} /\ banned = {} /\ stored = {}
    /\ tickets = [k \in Tickets |-> None]
    /\ req = [r \in Requests |-> Idle]
    /\ sweeper = "idle" /\ jwt = [u \in Users |-> -1]
    /\ handed = {} /\ excused = {}
    /\ rivals = [k \in Tickets |-> 0] /\ opened = [k \in Tickets |-> 0]
    /\ begun = 0 /\ faults = 0

\* A request enters the server; a step of one.
Begin(r, next) ==
    /\ req[r] = Idle /\ sweeper # "down" /\ begun < MaxBegun
    /\ req' = [req EXCEPT ![r] = next] /\ begun' = begun + 1
Step(r, from, next) == req[r].at = from /\ req' = [req EXCEPT ![r] = next]

-----------------------------------------------------------------------------
(* Register *)

Register(r, u) == Begin(r, [at |-> "mail", user |-> u])
                  /\ UNCHANGED <<now, docs, sweeper, jwt, ghost, faults>>

\* FindByEmail, FindByUsername: only a document stops the registration, a
\* failing lookup does not.
CheckMail(r) ==
    /\ \/ Step(r, "mail", [req[r] EXCEPT !.at = "name"])
       \/ Step(r, "mail", Idle) /\ \E v \in accounts : Mail[v] = Mail[req[r].user]
    /\ UNCHANGED <<now, docs, sweeper, jwt, ghost, bounds>>

CheckName(r) ==
    /\ \/ Step(r, "name", [req[r] EXCEPT !.at = "insert"])
       \/ Step(r, "name", Idle) /\ \E v \in accounts : Name[v] = Name[req[r].user]
    /\ UNCHANGED <<now, docs, sweeper, jwt, ghost, bounds>>

\* Mutant: no unique index on the username.
MailIsFree(u) == \A v \in accounts : Mail[v] # Mail[u]

\* The unique indexes on email and username.
IsFree(u) == \A v \in accounts : Mail[v] # Mail[u] /\ Name[v] # Name[u]

Insert(r) ==
    /\ Step(r, "insert", [req[r] EXCEPT !.at = "sign"])
    /\ IsFree(req[r].user)
    /\ accounts' = accounts \union {req[r].user}
    /\ UNCHANGED <<now, banned, stored, tickets, sweeper, jwt, ghost, bounds>>

-----------------------------------------------------------------------------
(* Login, and the tokens of both *)

\* FindByEmail, ban and password.
Login(r, u) ==
    /\ u \in accounts \ banned /\ Begin(r, [at |-> "sign", user |-> u])
    /\ UNCHANGED <<now, docs, sweeper, jwt, ghost, faults>>

\* After UpdateLastLogin, which may fail: both tokens are signed.
Sign(r) ==
    /\ Step(r, "sign", [at |-> "store", token |-> [user |-> req[r].user, iat |-> now]])
    /\ UNCHANGED <<now, docs, sweeper, jwt, ghost, bounds>>

\* What JWTAuth accepts: any token the server signed, until it expires.
Extend(u, until) == jwt' = [jwt EXCEPT ![u] = Max({@, until})]

\* CreateRefreshToken, whose failure is ignored, a duplicate included; the
\* reply hands out both tokens.
Store(r) ==
    LET t == req[r].token IN
    /\ Step(r, "store", Idle)
    /\ \/ stored' = stored \union {t} /\ UNCHANGED excused
       \/ UNCHANGED stored /\ excused' = IF t \in stored THEN excused ELSE excused \union {t}
    /\ handed' = handed \union {t}
    /\ Extend(t.user, t.iat + Max({AccessTTL, RefreshTTL}))
    /\ UNCHANGED <<now, accounts, banned, tickets, sweeper, rivals, opened, bounds>>

-----------------------------------------------------------------------------
(* RefreshToken and Logout *)

Refresh(r, t) ==
    /\ t \in handed \intersect stored
    /\ Begin(r, [at |-> IF Expired(t) THEN "discard" ELSE "account",
                 token |-> t, barred |-> t.user \in banned])
    /\ UNCHANGED <<now, docs, sweeper, jwt, ghost, faults>>

Discard(r) ==
    /\ Step(r, "discard", Idle) /\ stored' = stored \ {req[r].token}
    /\ UNCHANGED <<now, accounts, banned, tickets, sweeper, jwt, ghost, bounds>>

\* Mutant: the ban is not looked at.
RenewBanned(r) ==
    /\ Step(r, "account", Idle) /\ req[r].token.user \in accounts
    /\ Extend(req[r].token.user, now + AccessTTL)
    /\ UNCHANGED <<now, docs, sweeper, ghost, bounds>>

\* FindByID and the ban; a new access token.
Renew(r) ==
    /\ Step(r, "account", Idle) /\ req[r].token.user \in accounts \ banned
    /\ Extend(req[r].token.user, now + AccessTTL)
    /\ UNCHANGED <<now, docs, sweeper, ghost, bounds>>

Logout(r, t) ==
    /\ t \in handed /\ Begin(r, Idle)
    /\ stored' = stored \ {t} /\ excused' = excused \union {t}
    /\ UNCHANGED <<now, accounts, banned, tickets, sweeper, jwt, handed, rivals, opened, faults>>

-----------------------------------------------------------------------------
(* WebSocket tickets *)

\* JWTAuth, then CreateWSTicket up to its insert.
AskTicket(r, u) ==
    /\ now <= jwt[u]
    /\ Begin(r, [at |-> "ticket", user |-> u, exp |-> now + TicketTTL])
    /\ UNCHANGED <<now, docs, sweeper, jwt, ghost, faults>>

CreateTicket(r, k) ==
    /\ tickets[k] = None /\ Step(r, "ticket", Idle)
    /\ tickets' = [tickets EXCEPT ![k] = [user |-> req[r].user, used |-> FALSE, exp |-> req[r].exp]]
    /\ UNCHANGED <<now, accounts, banned, stored, sweeper, jwt, ghost, bounds>>

\* Mutant: a used ticket is taken.
FindUsedTicket(r, k) ==
    /\ Exists(k) /\ ~Overdue(k)
    /\ Begin(r, [at |-> "mark", ticket |-> k, user |-> tickets[k].user,
                 barred |-> tickets[k].user \in banned])
    /\ UNCHANGED <<now, docs, sweeper, jwt, ghost, faults>>

\* ValidateWSTicket: the ticket is found, not used and not expired.
FindTicket(r, k) ==
    /\ Exists(k) /\ ~tickets[k].used /\ ~Overdue(k)
    /\ Begin(r, [at |-> "mark", ticket |-> k, user |-> tickets[k].user,
                 barred |-> tickets[k].user \in banned])
    /\ UNCHANGED <<now, docs, sweeper, jwt, ghost, faults>>

Marking(k) == {r \in Requests : req[r].at = "mark" /\ req[r].ticket = k}

\* $set used, by the ticket's string: it has no effect on a deleted ticket, and
\* is no error.  The call may also be applied and reported as failed.
MarkUsed(r) ==
    LET k == req[r].ticket IN
    /\ \/ Step(r, "mark", [req[r] EXCEPT !.at = "member"])
       \/ Step(r, "mark", Idle)
    /\ tickets' = [tickets EXCEPT ![k] = IF Exists(k) THEN [@ EXCEPT !.used = TRUE] ELSE @]
    /\ rivals' = [rivals EXCEPT ![k] = IF @ = 0 THEN Cardinality(Marking(k)) ELSE @]
    /\ UNCHANGED <<now, accounts, banned, stored, sweeper, jwt, handed, excused, opened, bounds>>

\* FindByID and the ban.
Member(r) ==
    /\ Step(r, "member", [req[r] EXCEPT !.at = "upgrade"])
    /\ req[r].user \in accounts \ banned
    /\ UNCHANGED <<now, docs, sweeper, jwt, ghost, bounds>>

\* HandleConnection goes on: the client is created and given to the hub.
Upgrade(r) ==
    /\ Step(r, "upgrade", Idle)
    /\ opened' = [opened EXCEPT ![req[r].ticket] = @ + 1]
    /\ UNCHANGED <<now, docs, sweeper, jwt, handed, excused, rivals, bounds>>

\* A call fails, a check refuses, or the client goes away.
Refused(r) ==
    /\ req[r] # Idle /\ req' = [req EXCEPT ![r] = Idle]
    /\ UNCHANGED <<now, docs, sweeper, jwt, ghost, bounds>>

-----------------------------------------------------------------------------
(* Administration, clean-up, time *)

\* Mutant: the ban of an unknown id is written as a new document.
BanUpserts(u) ==
    /\ u \notin banned /\ banned' = banned \union {u}
    /\ UNCHANGED <<now, accounts, stored, tickets, req, sweeper, jwt, ghost, bounds>>

Ban(u) ==
    /\ u \in accounts \ banned /\ banned' = banned \union {u}
    /\ UNCHANGED <<now, accounts, stored, tickets, req, sweeper, jwt, ghost, bounds>>

\* No request can claim any more that its user was banned all along.
Pardoned(q, u) ==
    CASE q.at \in {"mark", "member", "upgrade"} /\ q.user = u -> [q EXCEPT !.barred = FALSE]
      [] q.at \in {"discard", "account"} /\ q.token.user = u -> [q EXCEPT !.barred = FALSE]
      [] OTHER -> q

Unban(u) ==
    /\ u \in banned /\ banned' = banned \ {u}
    /\ req' = [r \in Requests |-> Pardoned(req[r], u)]
    /\ UNCHANGED <<now, accounts, stored, tickets, sweeper, jwt, ghost, bounds>>

Sweep(from, to) == sweeper = from /\ sweeper' = to
    /\ UNCHANGED <<now, accounts, banned, req, jwt, ghost, begun>>

\* Mutant: a token is deleted in its last second.
SweepEarly == Sweep("idle", "tickets") /\ stored' = {t \in stored : t.iat + RefreshTTL > now}
              /\ UNCHANGED <<tickets, faults>>

\* The ticker fires: DeleteExpiredRefreshTokens, then DeleteExpiredWSTickets.
SweepTokens == Sweep("idle", "tickets") /\ stored' = {t \in stored : ~Expired(t)}
               /\ UNCHANGED <<tickets, faults>>

\* Mutant: the tickets are left to the next run.
SweepNoTickets == Sweep("tickets", "idle") /\ UNCHANGED <<stored, tickets, faults>>

SweepTickets == Sweep("tickets", "idle")
    /\ tickets' = [k \in Tickets |-> IF Overdue(k) THEN Gone ELSE tickets[k]]
    /\ UNCHANGED <<stored, faults>>

\* Either call fails, and the tickets are not looked at: with the first, the
\* whole run has no effect.
SweepFails == Sweep("tickets", "idle")
              /\ faults < MaxFaults /\ faults' = faults + 1 /\ UNCHANGED <<stored, tickets>>

\* The expiry indexes: the database deletes what is overdue, when it likes.
Expire ==
    /\ \/ \E t \in stored : Expired(t) /\ stored' = stored \ {t} /\ UNCHANGED tickets
       \/ \E k \in Tickets : Overdue(k) /\ tickets' = [tickets EXCEPT ![k] = Gone] /\ UNCHANGED stored
    /\ UNCHANGED <<now, accounts, banned, req, sweeper, jwt, ghost, bounds>>

\* The process ends, with its requests; it is started again.
Exit ==
    /\ sweeper # "down" /\ faults < MaxFaults /\ faults' = faults + 1
    /\ sweeper' = "down" /\ req' = [r \in Requests |-> Idle]
    /\ UNCHANGED <<now, docs, jwt, ghost, begun>>

Start == Sweep("down", "idle") /\ UNCHANGED <<stored, tickets, faults>>

Tick == now < MaxNow /\ now' = now + 1 /\ UNCHANGED <<docs, req, sweeper, jwt, ghost, bounds>>

Next ==
    \/ \E r \in Requests :
        \/ \E u \in Users : Register(r, u) \/ Login(r, u) \/ AskTicket(r, u)
        \/ CheckMail(r) \/ CheckName(r) \/ Insert(r) \/ Sign(r) \/ Store(r)
        \/ \E t \in handed : Refresh(r, t) \/ Logout(r, t)
        \/ Discard(r) \/ Renew(r)
        \/ \E k \in Tickets : CreateTicket(r, k) \/ FindTicket(r, k)
        \/ MarkUsed(r) \/ Member(r) \/ Upgrade(r) \/ Refused(r)
    \/ \E u \in Users : Ban(u) \/ Unban(u)
    \/ SweepTokens \/ SweepTickets \/ SweepFails \/ Expire \/ Exit \/ Start \/ Tick

Spec == Init /\ [][Next]_vars

\* The cleanup goroutine runs and a supervisor starts the process again.
FairSpec == Spec /\ WF_vars(SweepTokens) /\ WF_vars(SweepTickets) /\ WF_vars(Start)

-----------------------------------------------------------------------------
(* NamesAreUnique: no two accounts share an email or a username, however   *)
(* many registrations pass both lookups, because they overlap or because   *)
(* the lookups failed (auth_service.go:57,63).                             *)
NamesAreUnique ==
    \A u, v \in accounts : u # v => Mail[u] # Mail[v] /\ Name[u] # Name[v]

(* SessionsAreKept: a refresh token that a client was given can be         *)
(* redeemed until it expires, unless it was logged out or its insert       *)
(* failed: neither the cleanup, nor the deletion of what RefreshToken      *)
(* found expired, nor a second login in the same second takes it away.     *)
SessionsAreKept ==
    \A t \in handed : t \in stored \/ t \in excused \/ Expired(t)

(* RivalsShareATicket: a ticket opens no more connections than there were  *)
(* validations past their check when it was first marked used; a ticket    *)
(* presented again after that opens none (auth_service.go:218-238).  This  *)
(* is what is left of the promise of TicketOpensOnce.                      *)
RivalsShareATicket == \A k \in Tickets : opened[k] <= rivals[k]

(* BannedStaysOut: a request that began while its user was banned, who has *)
(* stayed banned, gets neither an access token nor a connection, whatever  *)
(* tokens and tickets she held (auth_service.go:180,247).                  *)
BannedStaysOut ==
    [][\A r \in Requests :
        /\ req[r].at \in {"discard", "account", "mark", "member", "upgrade"} /\ req[r].barred
        /\ req'[r] # req[r]
        => jwt' = jwt /\ opened' = opened]_vars

(* The inductive invariant behind the theorems of SessionsProofs *)

\* A token is only discarded when it has expired.
DiscardsExpired == \A r \in Requests : req[r].at = "discard" => Expired(req[r].token)

\* Whoever has stayed banned since her request began is banned, and does not
\* get past the check.
BarredAreBanned ==
    \A r \in Requests :
        /\ req[r].at \in {"discard", "account"} /\ req[r].barred => req[r].token.user \in banned
        /\ req[r].at \in {"mark", "member"} /\ req[r].barred => req[r].user \in banned
        /\ req[r].at = "upgrade" => ~req[r].barred

\* Validations that have found the ticket and not failed.
Passing(k) == {r \in Requests : req[r].at \in {"mark", "member", "upgrade"} /\ req[r].ticket = k}

\* Until a ticket is first marked nobody is past the mark; afterwards it is
\* used or gone, and nobody joins.
TicketInv ==
    \A k \in Tickets :
        /\ Passing(k) # {} => tickets[k] # None
        /\ rivals[k] = 0 => opened[k] = 0 /\ Passing(k) = Marking(k)
        /\ rivals[k] > 0 => /\ Exists(k) => tickets[k].used
                            /\ tickets[k] # None
                            /\ opened[k] + Cardinality(Passing(k)) <= rivals[k]

IInv == /\ TypeOK /\ NamesAreUnique /\ SessionsAreKept
        /\ DiscardsExpired /\ BarredAreBanned /\ TicketInv

(* ExpiredDocumentsGo: again and again there is no expired token, and no    *)
(* overdue ticket, in the database: the cleanup alone keeps the            *)
(* collections bounded, without the help of the expiry indexes.            *)
ExpiredDocumentsGo == []<>(\A t \in stored : ~Expired(t)) /\ []<>(\A k \in Tickets : ~Overdue(k))

(* What the code does not guarantee *)

(* TicketOpensOnce: a ticket is good for one connection ("one-time",       *)
(* auth_service.go:199 and README.md:333): a validation that looks it up   *)
(* before another has marked it used opens a connection too.               *)
TicketOpensOnce == \A k \in Tickets : opened[k] <= 1
=============================================================================
