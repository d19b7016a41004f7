------------------------------- MODULE Gateway --------------------------------
(***************************************************************************)
(* What stands between a client and the services: the process that accepts *)
(* requests (Process), the middlewares a request passes (session, API key, *)
(* rate limit, scope) and the handlers of API keys; composed of Process,   *)
(* RateLimiter and ApiKeys.  A worker is the goroutine of a request, as in *)
(* ObjectStorage, and an action one call to PostgreSQL or Redis with the   *)
(* computation up to the next one.                                         *)
(*                                                                         *)
(* Which user a session cookie stands for is Accounts' business: a request *)
(* arrives with the session of some user or with none.  The other          *)
(* services' handlers are the pc "service": they may take any time.        *)
(***************************************************************************)
EXTENDS RateLimiter, ApiKeys, Process

CONSTANTS
    Workers,
    Clients,    \* limiter keys of requests without a user
    Faults,     \* whether calls to PostgreSQL may fail
    None

ASSUME GatewayAssumption ==
    /\ Ids \subseteq Users \cup Clients /\ Clients \subseteq Ids
    /\ None \notin Ids
    /\ Faults \in BOOLEAN
    /\ {"write", "service"} \subseteq Scopes

VARIABLE request    \* per worker: where it is and whom it acts for

vars == <<limiterVars, keysVars, processVars, request>>

\* dead and charged are history: whether the key was already deleted when the
\* request arrived, and the limiter key that let it pass.
Idle == [pc |-> "idle", user |-> None, key |-> 0, scopes |-> {}, id |-> None,
         target |-> 0, dead |-> FALSE, charged |-> None]

PC == {"idle", "find", "limit", "create", "delete", "service"}

RequestType == [pc : PC, user : Users \cup {None}, key : Nat,
                scopes : SUBSET (Scopes \cup {"*"}), id : Ids \cup {None},
                target : Nat, dead : BOOLEAN, charged : Ids \cup {None}]

Quiet == \A w \in Workers : request[w].pc = "idle"

\* Users of the API; the others use their pages only.
Callers == Users \cap Ids

Become(w, r) == request' = [request EXCEPT ![w] = r]
Return(w)    == Become(w, Idle)

-----------------------------------------------------------------------------
(* Arrival: the listener accepts a request, and WithSession reads Redis.   *)

Accept(w, r) ==
    /\ proc = "serving"
    /\ request[w].pc = "idle"
    /\ Become(w, [r EXCEPT !.dead = r.key \in Deleted])
    /\ UNCHANGED <<limiterVars, keysVars, processVars>>

\* MaxKeys bounds the keys created and those being created.
KeysLeft == nextKey + Cardinality({v \in Workers : request[v].pc = "create"}) <= MaxKeys

\* Where a handler starts, by what its route requires of a key.
Handler(r, required) ==
    CASE required = "service" -> {[r EXCEPT !.pc = "service"]}
      [] required = "write"   -> (IF KeysLeft THEN {[r EXCEPT !.pc = "create"]} ELSE {})
                                 \cup {[r EXCEPT !.pc = "delete", !.target = k] : k \in Issued}

\* /app, by session; not limited.
Browse(w) ==
    \E u \in Users, required \in {"service", "write"} :
        \E r \in Handler([Idle EXCEPT !.user = u], required) : Accept(w, r)

\* Whom the limiter of the API counts: the user, or the address of a request
\* that has none.
LimitByUserOrIP(u) == IF u = None THEN Clients ELSE {u}

\* Whom the limiters of the pages count: the e-mail typed in, or the address
\* of a form without one; each page by itself.
LimitByEmail == Clients

\* The API without an S3 client has no services and no limiter: whatever asks
\* for them panics, and Recover answers 500.
Mounted == storage

\* The API, by session: APIKeyAuth lets it through, whatever key it carries.
CallBySession(w) ==
    /\ Mounted
    /\ \E u \in Callers : \E i \in LimitByUserOrIP(u) :
          Accept(w, [Idle EXCEPT !.pc = "limit", !.user = u, !.id = i])

\* The API, by key, live or not.
CallByKey(w) ==
    /\ Mounted
    /\ \E k \in {x \in Issued : x \in DOMAIN keys => keys[x].user \in Callers} :
          Accept(w, [Idle EXCEPT !.pc = "find", !.key = k])

\* /login, /register, /forgot-password.
SubmitEmail(w) ==
    \E e \in LimitByEmail : Accept(w, [Idle EXCEPT !.pc = "limit", !.id = e])

\* The API, with neither session nor key.
CallAnonymously(w) ==
    /\ Mounted
    /\ \E i \in LimitByUserOrIP(None) : Accept(w, [Idle EXCEPT !.pc = "limit", !.id = i])

-----------------------------------------------------------------------------
(* The middlewares.                                                        *)

FindByHashDeleted(w) ==
    LET k == request[w].key
    IN  /\ request[w].pc = "find"
        /\ \E u \in Callers :
              Become(w, [request[w] EXCEPT !.pc = "limit", !.user = u, !.scopes = {"*"}, !.id = u])
        /\ UNCHANGED <<limiterVars, keysVars, processVars>>

FindByHashUncharged(w) ==
    LET k == request[w].key
    IN  /\ request[w].pc = "find"
        /\ IF Resolvable(k)
           THEN Become(w, [request[w] EXCEPT !.pc = "service", !.user = keys[k].user,
                                             !.scopes = keys[k].scopes])
           ELSE Return(w)
        /\ UNCHANGED <<limiterVars, keysVars, processVars>>

\* APIKeyAuth: Resolve finds the row, or answers 401.
FindByHash(w) ==
    LET k == request[w].key
    IN  /\ request[w].pc = "find"
        /\ IF Resolvable(k)
           THEN Become(w, [request[w] EXCEPT !.pc = "limit", !.user = keys[k].user,
                                             !.scopes = keys[k].scopes, !.id = keys[k].user])
           ELSE Return(w)
        /\ UNCHANGED <<limiterVars, keysVars, processVars>>

DispatchSessionless(w, charged) ==
    LET r == [request[w] EXCEPT !.charged = charged]
    IN  \E required \in {"service", "write"} :
            \E h \in Handler(r, required) : Become(w, h)

\* RequireAuth, RequireScope and the route's handler; a page goes on to
\* Accounts, and the API answers 401 without a user.
Dispatch(w, charged) ==
    LET r == [request[w] EXCEPT !.charged = charged]
    IN  IF r.user = None THEN Become(w, [r EXCEPT !.pc = "service"]) \/ Return(w)
        ELSE \E required \in {"service", "write"} :
                IF r.key = 0 \/ HasScope(r.scopes, required)
                THEN \E h \in Handler(r, required) : Become(w, h)
                ELSE Return(w)

\* RateLimit: the request passes, or is answered 429.
LimitPass(w) ==
    /\ request[w].pc = "limit"
    /\ Pass(request[w].id)
    /\ Dispatch(w, request[w].id)
    /\ UNCHANGED <<keysVars, processVars>>

LimitRefuse(w) ==
    /\ request[w].pc = "limit"
    /\ Refuse(request[w].id)
    /\ Return(w)
    /\ UNCHANGED <<keysVars, processVars>>

LimitFailOpen(w) ==
    /\ request[w].pc = "limit"
    /\ FailOpen(request[w].id)
    /\ Dispatch(w, request[w].id)
    /\ UNCHANGED <<keysVars, processVars>>

-----------------------------------------------------------------------------
(* The handlers.                                                           *)

\* The scopes a request can name for a new key: none from the page.
Asked(r) == IF r.id = None THEN {{}} ELSE {{}, {"service"}}

CreateKey(w) ==
    /\ request[w].pc = "create"
    /\ \E asked \in Asked(request[w]) : KeyCreate(request[w].user, asked)
    /\ Return(w)
    /\ UNCHANGED <<limiterVars, processVars>>

DeleteKey(w) ==
    /\ request[w].pc = "delete"
    /\ KeyDelete(request[w].user, request[w].target)
    /\ Return(w)
    /\ UNCHANGED <<limiterVars, processVars>>

Serve(w) ==
    /\ request[w].pc = "service"
    /\ Return(w)
    /\ UNCHANGED <<limiterVars, keysVars, processVars>>

\* A call fails and the request is answered with the error.
Abort(w) ==
    /\ Faults
    /\ request[w].pc # "idle"
    /\ Return(w)
    /\ UNCHANGED <<limiterVars, keysVars, processVars>>

-----------------------------------------------------------------------------

\* A step of the process; its requests end with it.
Run ==
    /\ \/ ProcessStart \/ OpenDatabase \/ Migrate \/ OpenRedis \/ OpenS3 \/ Listen
       \/ ListenerFails \/ Signal \/ BeginShutdown \/ Drained(Quiet) \/ DrainTimeout \/ Kill
    /\ request' = IF proc' \in Ended THEN [w \in Workers |-> Idle] ELSE request
    /\ UNCHANGED <<limiterVars, keysVars>>

Tick ==
    /\ LimiterTick
    /\ ProcessTick
    /\ UNCHANGED <<keysVars, request>>

Init ==
    /\ LimiterInit /\ KeysInit /\ ProcessInit
    /\ request = [w \in Workers |-> Idle]

Handle(w) ==
    \/ Browse(w) \/ CallBySession(w) \/ CallByKey(w) \/ SubmitEmail(w) \/ CallAnonymously(w)
    \/ FindByHash(w)
    \/ LimitPass(w) \/ LimitRefuse(w) \/ LimitFailOpen(w)
    \/ CreateKey(w) \/ DeleteKey(w) \/ Serve(w)
    \/ Abort(w)

Next == (\E w \in Workers : Handle(w)) \/ Run \/ Tick

\* Time passes, run goes on by itself, and nothing is said of the requests.
Spec ==
    /\ Init /\ [][Next]_vars
    /\ WF_vars(Tick)
    /\ WF_vars(Run /\ (BeginShutdown \/ Drained(Quiet) \/ DrainTimeout))
    /\ WF_vars(Run /\ (OpenDatabase \/ Migrate \/ OpenRedis \/ OpenS3 \/ Listen))

-----------------------------------------------------------------------------

\* The parts have their types, and a request exists in a running process only.
TypeOK ==
    /\ LimiterTypeOK /\ KeysTypeOK /\ ProcessTypeOK
    /\ request \in [Workers -> RequestType]
    /\ proc \notin {"serving", "draining"} => Quiet

\* Deleting a key is final: no request that arrived later gets past
\* APIKeyAuth with it (api_keys.go:73); one that was already past it goes on.
DeletedKeysRefused ==
    \A w \in Workers : request[w].dead => request[w].pc = "find"

\* An API request at work for a user was charged to that user, also when the
\* user is known by key only: RateLimit stands behind APIKeyAuth
\* (api/router.go:40-49).
ChargedToActor ==
    \A w \in Workers :
        /\ request[w].pc \in {"create", "delete", "service"}
        /\ request[w].user # None
        /\ request[w].key # 0 \/ request[w].id # None
        => request[w].charged = request[w].user

\* A user's keys appear and disappear by that user's requests only, and by
\* key only with one that was live when the request arrived and allows it.
KeysChangeByOwner ==
    [][\A u \in Users :
          {k \in DOMAIN keys : keys[k].user = u} # {k \in DOMAIN keys' : keys'[k].user = u} =>
              \E w \in Workers :
                  /\ request[w].user = u /\ request'[w] = Idle
                  /\ request[w].key # 0 => /\ ~request[w].dead
                                           /\ HasScope(request[w].scopes, "write")]_vars

\* run returns nil only when every request it had accepted was answered
\* (server.go:164, "drains in-flight requests").
CleanExitDrained == [][proc' = "stopped" => Quiet]_vars
=============================================================================
