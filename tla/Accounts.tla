------------------------------ MODULE Accounts -------------------------------
(***************************************************************************)
(* Accounts, mailed tokens and sessions: the AuthService                   *)
(* (internal/service/auth.go) over PostgreSQL (users, email_verifications) *)
(* and the SessionStore (internal/cache/session.go) over Redis, where a    *)
(* session is a key with a TTL of its own and the sessions of a user are   *)
(* listed in an index set with another.                                    *)
(*                                                                         *)
(* Requests run concurrently; an action is one SQL statement, one Redis    *)
(* command or one mail, as in ObjectStorage.  A password is the number of  *)
(* its hash: version[u] is the hash in the users row, and a login or a     *)
(* change that presents another password ends without effect.  The fields  *)
(* ver and known of a session, uses of a token and the count of the        *)
(* failures, faults, are history: nothing in the code reads them.          *)
(***************************************************************************)
EXTENDS Integers, FiniteSets

CONSTANTS
    Users,          \* e-mail addresses, one account each
    Inputs,         \* what is typed for one
    NormalForm,     \* of each input, None where it is no address
    Workers,        \* request goroutines
    TTL,            \* ticks a session lives without activity
    MaxTokens,      \* bound on the tokens ever issued
    MaxSessions,    \* bound on the sessions ever created
    MaxVersion,     \* bound on the passwords a user ever has
    MaxUses,        \* the count of uses stops here
    MaxFaults,      \* bound on the failed calls and the killed requests
    None

ASSUME AccountsAssumption ==
    /\ IsFiniteSet(Workers) /\ Workers # {}
    /\ TTL \in Nat \ {0}
    /\ NormalForm \in [Inputs -> Users \cup {None}]
    /\ {MaxTokens, MaxSessions, MaxVersion, MaxUses, MaxFaults} \subseteq Nat

VARIABLES
    account,    \* status of the users row, "none" without one
    version,    \* which password hash the row holds
    tokens,     \* table email_verifications: token id -> row
    mailbox,    \* tokens whose link has reached their user
    sessions,   \* Redis keys session:<id>: id -> data and ticks left
    index,      \* Redis keys user-sessions:<user>: members and ticks left
    nextSession,
    worker,
    faults      \* calls that failed and requests that were killed so far

vars == <<account, version, tokens, mailbox, sessions, index, nextSession, worker, faults>>
stores == <<account, version, tokens, mailbox, sessions, index, nextSession>>

Tokens == DOMAIN tokens
Sids   == DOMAIN sessions

Idle == [pc |-> "idle", user |-> None, type |-> None, token |-> 0,
         ver |-> 0, session |-> 0, todo |-> {}]

PC == {"idle", "tokenInvalidate", "tokenCreate", "mail", "verify", "consume",
       "resetPassword", "changePassword", "destroyList", "destroyEach",
       "sessionSet", "sessionAdd", "sessionExpire", "touch", "authenticated"}

\* An index without members is a Redis key that does not exist; one with no
\* ticks left has no TTL.
NoIndex == [members |-> {}, left |-> 0]

\* A call to a store or the mailer fails, or a request is killed.
Fails == faults < MaxFaults /\ faults' = faults + 1

Goto(w, pc) == worker' = [worker EXCEPT ![w].pc = pc]
Return(w)   == worker' = [worker EXCEPT ![w] = Idle]
Enter(w, r) == worker[w].pc = "idle" /\ worker' = [worker EXCEPT ![w] = r]

At(pcs) == {v \in Workers : worker[v].pc \in pcs}

-----------------------------------------------------------------------------
(* Tokens.                                                                 *)

\* Bounds the tokens issued and those about to be.
TokensLeft == Cardinality(Tokens) + Cardinality(At({"tokenInvalidate", "tokenCreate"})) < MaxTokens

\* Lower case and trimmed; an input that is no address is refused.
NormalizeEmail(email) == NormalForm[email]

\* The handler refuses what is no address before the service does, and names
\* and passwords out of bounds, which are no part of the state.
validateRegister(email) == NormalizeEmail(email) \in Users

\* Users.Create; the UNIQUE email refuses a second account.
Create(u) ==
    /\ account[u] = "none"
    /\ account' = [account EXCEPT ![u] = "unverified"]
    /\ version' = [version EXCEPT ![u] = 1]

Register(w) ==
    /\ TokensLeft
    /\ \E email \in Inputs :
        LET u == NormalizeEmail(email)
        IN  /\ validateRegister(email)
            /\ Create(u)
            /\ Enter(w, [Idle EXCEPT !.pc = "tokenCreate", !.user = u, !.type = "signup"])
    /\ UNCHANGED <<tokens, mailbox, sessions, index, nextSession, faults>>

\* FindByEmail of a normalized address, and the check of the row's status that
\* follows it.
FindByEmail(u, status) == u \in Users /\ account[u] = status

Issue(w, status, type) ==
    /\ TokensLeft
    /\ \E email \in Inputs :
        LET u == NormalizeEmail(email)
        IN  /\ FindByEmail(u, status)
            /\ Enter(w, [Idle EXCEPT !.pc = "tokenInvalidate", !.user = u, !.type = type])
    /\ UNCHANGED <<stores, faults>>

ResendVerification(w) == Issue(w, "unverified", "signup")
StartPasswordReset(w) == Issue(w, "active", "reset")

Live(u, type) == {t \in Tokens : /\ tokens[t].user = u
                                 /\ tokens[t].type = type
                                 /\ tokens[t].state = "live"}

TokenInvalidateSkipped(w) ==
    /\ worker[w].pc = "tokenInvalidate"
    /\ Goto(w, "tokenCreate")
    /\ UNCHANGED <<stores, faults>>

\* InvalidateType; an error is ignored.
TokenInvalidate(w) ==
    /\ worker[w].pc = "tokenInvalidate"
    /\ \/ /\ tokens' = [t \in Tokens |->
                           IF t \in Live(worker[w].user, worker[w].type)
                           THEN [tokens[t] EXCEPT !.state = "consumed"] ELSE tokens[t]]
          /\ UNCHANGED faults
       \/ Fails /\ UNCHANGED tokens
    /\ Goto(w, "tokenCreate")
    /\ UNCHANGED <<account, version, mailbox, sessions, index, nextSession>>

\* 32 random bytes and their hash: a token that no row has.
RandomToken == Cardinality(Tokens) + 1

TokenCreate(w) ==
    LET t == RandomToken
    IN  /\ worker[w].pc = "tokenCreate"
        /\ tokens' = [x \in Tokens \cup {t} |->
                        IF x = t THEN [user |-> worker[w].user, type |-> worker[w].type,
                                       state |-> "live", uses |-> 0]
                        ELSE tokens[x]]
        /\ worker' = [worker EXCEPT ![w].pc = "mail", ![w].token = t]
        /\ UNCHANGED <<account, version, mailbox, sessions, index, nextSession, faults>>

\* The SMTP server takes the mail, or Send fails.
Send(t) == \/ mailbox' = mailbox \cup {t} /\ UNCHANGED faults
           \/ Fails /\ UNCHANGED mailbox

\* The link is used at any time later, or never.
Mail(w) ==
    /\ worker[w].pc = "mail"
    /\ Send(worker[w].token)
    /\ Return(w)
    /\ UNCHANGED <<account, version, tokens, sessions, index, nextSession>>

TokenExpires ==
    /\ \E t \in Tokens : /\ tokens[t].state = "live"
                         /\ tokens' = [tokens EXCEPT ![t].state = "expired"]
    /\ UNCHANGED <<account, version, mailbox, sessions, index, nextSession, worker, faults>>

\* FindByTokenHash and the check of the type.
FindByTokenHash(w, type, pc) ==
    /\ \E t \in mailbox :
        /\ t \in Live(tokens[t].user, type)
        /\ Enter(w, [Idle EXCEPT !.pc = pc, !.user = tokens[t].user, !.token = t])
    /\ UNCHANGED <<stores, faults>>

\* The token has had its effect once more.
Used(t) == [tokens EXCEPT ![t].uses = IF @ < MaxUses THEN @ + 1 ELSE @]

VerifyEmail(w) == FindByTokenHash(w, "signup", "verify")

MarkEmailVerified(w) ==
    /\ worker[w].pc = "verify"
    /\ account' = [account EXCEPT ![worker[w].user] = "active"]
    /\ tokens' = Used(worker[w].token)
    /\ Goto(w, "consume")
    /\ UNCHANGED <<version, mailbox, sessions, index, nextSession, faults>>

\* A password is known by its hash, and bcrypt never makes one twice.
HashPassword(u)        == version[u] + 1
VerifyPassword(u, ver) == version[u] = ver

\* Bounds the passwords set and those about to be.
VersionsLeft(u) == version[u] + Cardinality(At({"resetPassword", "changePassword"})) < MaxVersion

CompletePasswordReset(w) ==
    /\ \A u \in Users : VersionsLeft(u)
    /\ FindByTokenHash(w, "reset", "resetPassword")

ResetPassword(w) ==
    /\ worker[w].pc = "resetPassword"
    /\ version' = [version EXCEPT ![worker[w].user] = HashPassword(worker[w].user)]
    /\ tokens' = Used(worker[w].token)
    /\ Goto(w, "consume")
    /\ UNCHANGED <<account, mailbox, sessions, index, nextSession, faults>>

MarkConsumedNothing(w) ==
    /\ worker[w].pc = "consume"
    /\ IF tokens[worker[w].token].type = "reset" THEN Goto(w, "destroyList") ELSE Return(w)
    /\ UNCHANGED <<stores, faults>>

MarkConsumedThenReturn(w) ==
    /\ worker[w].pc = "consume"
    /\ tokens' = [tokens EXCEPT ![worker[w].token].state = "consumed"]
    /\ Return(w)
    /\ UNCHANGED <<account, version, mailbox, sessions, index, nextSession, faults>>

\* MarkConsumed, whatever the state of the token by now; a password reset
\* goes on to DestroyAllForUser.
MarkConsumed(w) ==
    /\ worker[w].pc = "consume"
    /\ tokens' = [tokens EXCEPT ![worker[w].token].state = "consumed"]
    /\ IF tokens[worker[w].token].type = "reset" THEN Goto(w, "destroyList") ELSE Return(w)
    /\ UNCHANGED <<account, version, mailbox, sessions, index, nextSession, faults>>

-----------------------------------------------------------------------------
(* Sessions.                                                               *)

\* Bounds the sessions created and those about to be.
SessionsLeft == nextSession + Cardinality(At({"sessionSet"})) <= MaxSessions

\* The row's hash matches and its status is active.
Login(w) ==
    /\ SessionsLeft
    /\ \E email \in Inputs, ver \in 1 .. MaxVersion :
        LET u == NormalizeEmail(email)
        IN  /\ FindByEmail(u, "active")
            /\ VerifyPassword(u, ver)
            /\ Enter(w, [Idle EXCEPT !.pc = "sessionSet", !.user = u, !.ver = ver])
    /\ UNCHANGED <<stores, faults>>

\* Redis' SET of a session's key, and DEL; a key that is gone is no error.
Set(s, data) == sessions' = [x \in Sids \cup {s} |-> IF x = s THEN data ELSE sessions[x]]
Del(s)       == sessions' = [x \in Sids \ {s} |-> sessions[x]]

\* 32 random bytes: an id no session ever had.
generateToken == nextSession

\* SessionStore.Create: SET with a TTL, SADD, EXPIRE; errors of the last two
\* are ignored.  The cookie is sent when all three are done.
SessionSet(w) ==
    /\ worker[w].pc = "sessionSet"
    /\ Set(generateToken, [user |-> worker[w].user, ver |-> worker[w].ver,
                           known |-> 0, left |-> TTL, cookie |-> FALSE])
    /\ nextSession' = nextSession + 1
    /\ worker' = [worker EXCEPT ![w].pc = "sessionAdd", ![w].session = generateToken]
    /\ UNCHANGED <<account, version, tokens, mailbox, index, faults>>

SessionAdd(w) ==
    LET u == worker[w].user
        s == worker[w].session
    IN  /\ worker[w].pc = "sessionAdd"
        /\ \/ /\ index' = [index EXCEPT ![u].members = @ \cup {s}]
              /\ sessions' = [x \in Sids |-> IF x = s THEN [sessions[x] EXCEPT !.known = version[u]]
                                             ELSE sessions[x]]
              /\ UNCHANGED faults
           \/ Fails /\ UNCHANGED <<index, sessions>>
        /\ Goto(w, "sessionExpire")
        /\ UNCHANGED <<account, version, tokens, mailbox, nextSession>>

\* The response carries the cookie.
SetSessionCookie(s) ==
    sessions' = [x \in Sids |-> IF x = s THEN [sessions[x] EXCEPT !.cookie = TRUE] ELSE sessions[x]]

SessionExpire(w) ==
    LET u == worker[w].user
    IN  /\ worker[w].pc = "sessionExpire"
        /\ \/ /\ index' = [index EXCEPT ![u].left = IF index[u].members = {} THEN 0 ELSE TTL]
              /\ UNCHANGED faults
           \/ Fails /\ UNCHANGED index
        /\ SetSessionCookie(worker[w].session)
        /\ Return(w)
        /\ UNCHANGED <<account, version, tokens, mailbox, nextSession>>

\* Get, for a cookie that was sent.
Get(s) == s \in Sids /\ sessions[s].cookie

\* The middleware on a request with a session cookie: Get, then Touch; the
\* request goes on whatever happens to the session from then on.
ReadSession(w) ==
    /\ \E s \in Sids :
        /\ Get(s)
        /\ Enter(w, [Idle EXCEPT !.pc = "touch", !.user = sessions[s].user, !.session = s])
    /\ UNCHANGED <<stores, faults>>

TouchRevives(w) ==
    /\ worker[w].pc = "touch"
    /\ Set(worker[w].session, [user |-> worker[w].user, ver |-> version[worker[w].user],
                               known |-> version[worker[w].user], left |-> TTL, cookie |-> TRUE])
    /\ Goto(w, "authenticated")
    /\ UNCHANGED <<account, version, tokens, mailbox, index, nextSession, faults>>

TouchAdds(w) ==
    /\ worker[w].pc = "touch"
    /\ sessions' = [x \in Sids |-> IF x = worker[w].session
                                   THEN [sessions[x] EXCEPT !.left = @ + TTL] ELSE sessions[x]]
    /\ Goto(w, "authenticated")
    /\ UNCHANGED <<account, version, tokens, mailbox, index, nextSession, faults>>

\* EXPIRE has no effect on a key that is gone; an error is ignored.
Touch(w) ==
    /\ worker[w].pc = "touch"
    /\ \/ /\ sessions' = [x \in Sids |-> IF x = worker[w].session
                                         THEN [sessions[x] EXCEPT !.left = TTL] ELSE sessions[x]]
          /\ UNCHANGED faults
       \/ Fails /\ UNCHANGED sessions
    /\ Goto(w, "authenticated")
    /\ UNCHANGED <<account, version, tokens, mailbox, index, nextSession>>

\* Every other page, among them UpdateProfile, whose column only pages read,
\* and a password change with a wrong current password.
OtherRequest(w) ==
    /\ worker[w].pc = "authenticated"
    /\ Return(w)
    /\ UNCHANGED <<stores, faults>>

\* Destroy deletes the session; the index keeps its member.
Destroy(s) == Del(s)

Logout(w) ==
    /\ worker[w].pc = "authenticated"
    /\ Destroy(worker[w].session)
    /\ Return(w)
    /\ UNCHANGED <<account, version, tokens, mailbox, index, nextSession, faults>>

FindByID(u) == account[u] # "none"

\* The check of the current password is against the row.
UpdatePassword(w) ==
    /\ worker[w].pc = "authenticated"
    /\ FindByID(worker[w].user)
    /\ VersionsLeft(worker[w].user)
    /\ Goto(w, "changePassword")
    /\ UNCHANGED <<stores, faults>>

\* Users.UpdatePassword sets the new hash whatever the row holds by now.
ChangePassword(w) ==
    /\ worker[w].pc = "changePassword"
    /\ version' = [version EXCEPT ![worker[w].user] = HashPassword(worker[w].user)]
    /\ Goto(w, "destroyList")
    /\ UNCHANGED <<account, tokens, mailbox, sessions, index, nextSession, faults>>

\* DestroyAllForUser: SMEMBERS, DEL each session, DEL the index; its errors
\* are ignored.
DestroyList(w) ==
    /\ worker[w].pc = "destroyList"
    /\ \/ /\ worker' = [worker EXCEPT ![w].pc = "destroyEach",
                                      ![w].todo = index[worker[w].user].members]
          /\ UNCHANGED faults
       \/ Fails /\ Return(w)
    /\ UNCHANGED stores

DestroyEach(w) ==
    /\ worker[w].pc = "destroyEach"
    /\ \E s \in worker[w].todo :
        /\ worker' = [worker EXCEPT ![w].todo = @ \ {s}]
        /\ \/ Destroy(s) /\ UNCHANGED faults
           \/ Fails /\ UNCHANGED sessions
    /\ UNCHANGED <<account, version, tokens, mailbox, index, nextSession>>

DestroyIndex(w) ==
    /\ worker[w].pc = "destroyEach" /\ worker[w].todo = {}
    /\ \/ index' = [index EXCEPT ![worker[w].user] = NoIndex] /\ UNCHANGED faults
       \/ Fails /\ UNCHANGED index
    /\ Return(w)
    /\ UNCHANGED <<account, version, tokens, mailbox, sessions, nextSession>>

\* Redis counts down and drops the keys whose time is over.
Tick ==
    /\ sessions' = [s \in {x \in Sids : sessions[x].left > 1} |->
                        [sessions[s] EXCEPT !.left = @ - 1]]
    /\ index' = [u \in Users |-> CASE index[u].left = 0 -> index[u]
                                   [] index[u].left = 1 -> NoIndex
                                   [] OTHER -> [index[u] EXCEPT !.left = @ - 1]]
    /\ UNCHANGED <<account, version, tokens, mailbox, nextSession, worker, faults>>

-----------------------------------------------------------------------------

\* The next call of a request fails or its process is killed.
Abort(w) ==
    /\ Fails
    /\ worker[w].pc # "idle"
    /\ Return(w)
    /\ UNCHANGED stores

Init ==
    /\ account = [u \in Users |-> "none"]
    /\ version = [u \in Users |-> 0]
    /\ tokens = [t \in {} |-> Idle]
    /\ mailbox = {}
    /\ sessions = [s \in {} |-> Idle]
    /\ index = [u \in Users |-> NoIndex]
    /\ nextSession = 1
    /\ worker = [w \in Workers |-> Idle]
    /\ faults = 0

Request(w) ==
    \/ Register(w)
    \/ ResendVerification(w)
    \/ StartPasswordReset(w)
    \/ VerifyEmail(w)
    \/ CompletePasswordReset(w)
    \/ Login(w)
    \/ ReadSession(w)

Continue(w) ==
    \/ TokenInvalidate(w)
    \/ TokenCreate(w)
    \/ Mail(w)
    \/ MarkEmailVerified(w)
    \/ ResetPassword(w)
    \/ MarkConsumed(w)
    \/ SessionSet(w)
    \/ SessionAdd(w)
    \/ SessionExpire(w)
    \/ Touch(w)
    \/ OtherRequest(w)
    \/ Logout(w)
    \/ UpdatePassword(w)
    \/ ChangePassword(w)
    \/ DestroyList(w)
    \/ DestroyEach(w)
    \/ DestroyIndex(w)

Next ==
    \/ \E w \in Workers : Request(w) \/ Continue(w) \/ Abort(w)
    \/ TokenExpires
    \/ Tick

Spec == Init /\ [][Next]_vars

-----------------------------------------------------------------------------

AccountStatus == {"none", "unverified", "active"}

TokenRow == [user : Users, type : {"signup", "reset"},
             state : {"live", "consumed", "expired"}, uses : 0 .. MaxUses]

SessionData == [user : Users, ver : Nat, known : Nat, left : 1 .. TTL, cookie : BOOLEAN]

RequestType ==
    [pc : PC, user : Users \cup {None}, type : {None, "signup", "reset"}, token : Nat,
     ver : Nat, session : Nat, todo : SUBSET Nat]

\* The tables hold what their columns allow, a session that exists has time
\* left, and every indexed or live session id has been given out.
TypeOK ==
    /\ account \in [Users -> AccountStatus]
    /\ version \in [Users -> Nat]
    /\ Tokens = 1 .. Cardinality(Tokens)
    /\ tokens \in [Tokens -> TokenRow]
    /\ mailbox \subseteq Tokens
    /\ nextSession \in Nat \ {0}
    /\ Sids \subseteq 1 .. nextSession - 1
    /\ sessions \in [Sids -> SessionData]
    /\ index \in [Users -> [members : SUBSET (1 .. nextSession - 1), left : 0 .. TTL]]
    /\ worker \in [Workers -> RequestType]
    /\ faults \in 0 .. MaxFaults

\* A session that was logged out, destroyed or has expired never lives again:
\* a request that read it just before cannot bring it back with its Touch.
DeadSessionsStayDead ==
    [][\A s \in 1 .. nextSession - 1 : s \notin Sids => s \notin Sids']_vars

\* InvalidateType and Create are two statements, and an error of the first is
\* ignored: a user has at most one live token of a type per request goroutine,
\* and one more for each failure so far.
LiveTokensBounded ==
    \A u \in Users, type \in {"signup", "reset"} :
        Cardinality(Live(u, type)) <= Cardinality(Workers) + faults

\* Find, effect and MarkConsumed are three statements, and a crash may come
\* before the last: a token has its effect at most once per request goroutine,
\* however often it is presented, and once more for each failure so far.
TokenUsesBounded == \A t \in Tokens : tokens[t].uses <= Cardinality(Workers) + faults

\* The requests that will destroy session s of user u, which the index lists, or
\* have it in their list.
Destroyers(u, s) ==
    {w \in Workers :
        /\ worker[w].user = u
        /\ \/ worker[w].pc = "consume" /\ tokens[worker[w].token].type = "reset"
           \/ worker[w].pc = "destroyList"
           \/ worker[w].pc = "destroyEach" /\ s \in worker[w].todo}

\* A session that the index lists since before some password changes has, for
\* each of them, a request about to destroy it: only a failure takes one away.
IndexedSessionsDie ==
    \A s \in Sids :
        LET u == sessions[s].user
        IN  s \in index[u].members =>
                version[u] - sessions[s].known <= Cardinality(Destroyers(u, s)) + faults

\* models.go:60, "a single-use token", of a password reset: its token sets the
\* password once.
TokenUsedOnce == \A t \in Tokens : tokens[t].type = "reset" => tokens[t].uses <= 1

\* auth.go:191 and settings.go:76: when a password change is done no session
\* opened with an earlier password is left.
PasswordChangeEndsSessions ==
    [][\A w \in Workers :
          worker[w].pc = "destroyEach" /\ worker'[w].pc = "idle" =>
              \A s \in Sids' : sessions'[s].user = worker[w].user
                                    => sessions'[s].ver = version[worker[w].user]]_vars
=============================================================================
