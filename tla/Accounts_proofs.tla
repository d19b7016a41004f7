---------------------------- MODULE Accounts_proofs ----------------------------
(* Theorems about Accounts, for every number of users, tokens, sessions,   *)
(* passwords and request goroutines.                                       *)
EXTENDS Accounts, FiniteSetTheorems, TLAPS

Types == {"signup", "reset"}

\* TypeOK of the stores, and that tokens and sessions belong to accounts.
StoresOK ==
    /\ account \in [Users -> AccountStatus]
    /\ version \in [Users -> Nat]
    /\ Cardinality(Tokens) \in Nat
    /\ Tokens = 1 .. Cardinality(Tokens)
    /\ tokens \in [Tokens -> TokenRow]
    /\ mailbox \subseteq Tokens
    /\ nextSession \in Nat \ {0}
    /\ Sids \subseteq 1 .. nextSession - 1
    /\ sessions \in [Sids -> SessionData]
    /\ index \in [Users -> [members : SUBSET (1 .. nextSession - 1), left : 0 .. TTL]]
    /\ \A t \in Tokens : account[tokens[t].user] # "none"
    /\ \A s \in Sids : account[sessions[s].user] # "none"

\* What the record of a request in progress refers to exists.
RecordOK(r) ==
    /\ r.pc # "idle" => r.user \in Users /\ account[r.user] # "none"
    /\ r.pc \in {"tokenInvalidate", "tokenCreate"} => r.type \in Types
    /\ r.pc \in {"mail", "verify", "resetPassword", "consume"} => r.token \in Tokens
    /\ r.pc = "resetPassword" => tokens[r.token].type = "reset"
    /\ r.pc = "sessionAdd" => /\ r.session \in 1 .. nextSession - 1
                              /\ r.session \in Sids => sessions[r.session].user = r.user

RequestsOK ==
    /\ worker \in [Workers -> RequestType]
    /\ \A w \in Workers : RecordOK(worker[w])

IInv == StoresOK /\ RequestsOK

\* A request moves, and no other.
Moves(w) ==
    /\ worker' \in [Workers -> RequestType]
    /\ \A v \in Workers \ {w} : worker'[v] = worker[v]

\* Accounts, tokens and the numbers given to sessions are never taken back, and
\* a session begins with a number of its own.
Grows ==
    /\ Sids' \subseteq Sids \cup {nextSession}
    /\ \A s \in Sids \cap Sids' : sessions'[s].user = sessions[s].user
    /\ \A u \in Users : account[u] # "none" => account'[u] # "none"
    /\ Tokens \subseteq Tokens'
    /\ \A t \in Tokens : tokens'[t].type = tokens[t].type
    /\ nextSession' \in Nat /\ nextSession <= nextSession'

LEMMA IdleType == Idle \in RequestType /\ Idle.pc = "idle"
BY DEF Idle, RequestType, PC

LEMMA InitInv == Init => IInv
<1> SUFFICES ASSUME Init PROVE IInv
  OBVIOUS
<1>1. Tokens = {} /\ Cardinality(Tokens) = 0 /\ Sids = {}
  <2>1. Tokens = {} /\ Sids = {}
    BY DEF Init, Tokens, Sids
  <2> QED BY <2>1, FS_EmptySet
<1>2. Tokens = 1 .. Cardinality(Tokens)
  BY <1>1
<1>3. tokens \in [Tokens -> TokenRow] /\ sessions \in [Sids -> SessionData]
  BY <1>1 DEF Init, Tokens, Sids
<1>4. StoresOK
  BY <1>1, <1>2, <1>3, AccountsAssumption DEF Init, StoresOK, AccountStatus, NoIndex
<1>5. RequestsOK
  BY IdleType DEF Init, RequestsOK, RecordOK
<1> QED BY <1>4, <1>5 DEF IInv

LEMMA Same == StoresOK /\ UNCHANGED stores => StoresOK' /\ Grows
<1> SUFFICES ASSUME StoresOK, UNCHANGED stores PROVE StoresOK' /\ Grows
  OBVIOUS
<1>1. UNCHANGED <<account, version, tokens, mailbox, sessions, index, nextSession>>
  BY DEF stores
<1>2. Tokens' = Tokens /\ Sids' = Sids
  BY <1>1 DEF Tokens, Sids
<1> QED BY <1>1, <1>2 DEF StoresOK, Grows

LEMMA IdsGrow ==
    ASSUME NEW m \in Nat, NEW n \in Nat, m <= n, NEW i \in 1 .. m - 1
    PROVE  i \in 1 .. n - 1
OBVIOUS

\* The record of another request stays as good as it was.
LEMMA OthersKeep ==
    ASSUME IInv, Grows, NEW v \in Workers, worker'[v] = worker[v]
    PROVE  RecordOK(worker[v])'
<1>1. RecordOK(worker[v])
  BY DEF IInv, RequestsOK
<1>2. nextSession \in Nat /\ nextSession' \in Nat /\ nextSession <= nextSession'
  BY DEF IInv, StoresOK, Grows
<1>3. \A i \in 1 .. nextSession - 1 : i \in 1 .. nextSession' - 1
  BY <1>2, IdsGrow
<1>4. worker[v].pc = "sessionAdd" /\ worker[v].session \in Sids' =>
          sessions'[worker[v].session].user = worker[v].user
  <2> SUFFICES ASSUME worker[v].pc = "sessionAdd", worker[v].session \in Sids'
               PROVE  sessions'[worker[v].session].user = worker[v].user
    OBVIOUS
  <2>1. worker[v].session \in 1 .. nextSession - 1
    BY <1>1 DEF RecordOK
  <2>2. worker[v].session # nextSession
    BY <1>2, <2>1
  <2>3. worker[v].session \in Sids
    BY <2>2 DEF Grows
  <2> QED BY <1>1, <2>3 DEF RecordOK, Grows
<1> QED BY <1>1, <1>3, <1>4 DEF RecordOK, Grows

LEMMA OneMore ==
    ASSUME NEW n \in Nat
    PROVE  (1 .. n) \cup {n + 1} = 1 .. (n + 1) /\ n + 1 \notin 1 .. n
OBVIOUS

\* What is left to show of a step.
LEMMA Keeps ==
    ASSUME IInv, NEW w \in Workers, Moves(w), StoresOK', Grows, RecordOK(worker[w])'
    PROVE  IInv'
<1>1. ASSUME NEW v \in Workers PROVE RecordOK(worker[v])'
  BY OthersKeep DEF Moves
<1> QED BY <1>1 DEF IInv, RequestsOK, Moves

\* The three ways in which a request's record changes.
LEMMA GotoMoves ==
    ASSUME IInv, NEW w \in Workers, NEW pc \in PC, Goto(w, pc)
    PROVE  /\ Moves(w)
           /\ worker'[w].pc = pc
           /\ worker'[w].user = worker[w].user /\ worker'[w].type = worker[w].type
           /\ worker'[w].token = worker[w].token /\ worker'[w].session = worker[w].session
           /\ worker'[w].todo = worker[w].todo
BY DEF IInv, RequestsOK, Goto, Moves, RequestType

LEMMA ReturnMoves ==
    ASSUME IInv, NEW w \in Workers, Return(w)
    PROVE  Moves(w) /\ worker'[w] = Idle /\ worker'[w].pc = "idle" /\ RecordOK(worker[w])'
BY IdleType DEF IInv, RequestsOK, Return, Moves, RecordOK

LEMMA EnterMoves ==
    ASSUME IInv, NEW w \in Workers, NEW r \in RequestType, Enter(w, r)
    PROVE  Moves(w) /\ worker'[w] = r /\ worker[w].pc = "idle"
BY DEF IInv, RequestsOK, Enter, Moves

\* The requests that start without writing.
LEMMA EntersStep ==
    ASSUME IInv, NEW w \in Workers,
           ResendVerification(w) \/ StartPasswordReset(w) \/ VerifyEmail(w)
           \/ CompletePasswordReset(w) \/ Login(w) \/ ReadSession(w)
    PROVE  /\ UNCHANGED stores /\ Moves(w) /\ RecordOK(worker[w])'
           /\ worker[w].pc = "idle"
           /\ worker'[w].pc \in {"tokenInvalidate", "verify", "resetPassword", "sessionSet", "touch"}
           /\ worker'[w].pc \in {"verify", "resetPassword"} => tokens[worker'[w].token].state = "live"
<1>1. UNCHANGED stores
  BY DEF ResendVerification, StartPasswordReset, Issue, VerifyEmail, CompletePasswordReset,
         FindByTokenHash, Login, ReadSession
<1>2. Tokens' = Tokens /\ UNCHANGED <<account, tokens, nextSession>>
  BY <1>1 DEF stores, Tokens
<1>3. ASSUME NEW status \in {"unverified", "active"}, NEW type \in Types, Issue(w, status, type)
      PROVE  /\ Moves(w) /\ RecordOK(worker[w])' /\ worker[w].pc = "idle"
             /\ worker'[w].pc = "tokenInvalidate"
  <2>1. PICK u \in Users :
            /\ account[u] = status
            /\ Enter(w, [Idle EXCEPT !.pc = "tokenInvalidate", !.user = u, !.type = type])
    BY <1>3 DEF Issue, FindByEmail
  <2> DEFINE r == [Idle EXCEPT !.pc = "tokenInvalidate", !.user = u, !.type = type]
  <2>2. r \in RequestType /\ r.pc = "tokenInvalidate" /\ r.user = u /\ r.type = type
    BY DEF Idle, RequestType, PC, Types
  <2>3. Moves(w) /\ worker'[w] = r /\ worker[w].pc = "idle"
    BY <2>1, <2>2, EnterMoves
  <2> HIDE DEF r
  <2> QED BY <1>2, <2>1, <2>2, <2>3 DEF RecordOK
<1>4. ASSUME NEW type \in Types, NEW pc \in {"verify", "resetPassword"}, FindByTokenHash(w, type, pc),
             pc = "resetPassword" => type = "reset"
      PROVE  /\ Moves(w) /\ RecordOK(worker[w])' /\ worker[w].pc = "idle"
             /\ worker'[w].pc = pc /\ tokens[worker'[w].token].state = "live"
  <2>1. PICK t \in mailbox :
            /\ t \in Live(tokens[t].user, type)
            /\ Enter(w, [Idle EXCEPT !.pc = pc, !.user = tokens[t].user, !.token = t])
    BY <1>4 DEF FindByTokenHash
  <2>2. t \in Tokens /\ t \in Nat /\ tokens[t].type = type /\ tokens[t].state = "live"
        /\ tokens[t].user \in Users /\ account[tokens[t].user] # "none"
    BY <2>1 DEF IInv, StoresOK, Live, TokenRow
  <2> DEFINE r == [Idle EXCEPT !.pc = pc, !.user = tokens[t].user, !.token = t]
  <2>3. r \in RequestType /\ r.pc = pc /\ r.user = tokens[t].user /\ r.token = t
    BY <2>2 DEF Idle, RequestType, PC
  <2>4. Moves(w) /\ worker'[w] = r /\ worker[w].pc = "idle"
    BY <2>1, <2>3, EnterMoves
  <2> HIDE DEF r
  <2> QED BY <1>2, <1>4, <2>2, <2>3, <2>4 DEF RecordOK
<1>5. CASE Login(w)
  <2>1. PICK u \in Users, ver \in 1 .. MaxVersion :
            /\ account[u] = "active"
            /\ Enter(w, [Idle EXCEPT !.pc = "sessionSet", !.user = u, !.ver = ver])
    BY <1>5 DEF Login, FindByEmail
  <2> DEFINE r == [Idle EXCEPT !.pc = "sessionSet", !.user = u, !.ver = ver]
  <2>2. ver \in Nat
    BY AccountsAssumption
  <2>3. r \in RequestType /\ r.pc = "sessionSet" /\ r.user = u
    BY <2>2 DEF Idle, RequestType, PC
  <2>4. Moves(w) /\ worker'[w] = r /\ worker[w].pc = "idle"
    BY <2>1, <2>3, EnterMoves
  <2> HIDE DEF r
  <2> QED BY <1>1, <1>2, <2>1, <2>3, <2>4 DEF RecordOK
<1>6. CASE ReadSession(w)
  <2>1. PICK s \in Sids : Enter(w, [Idle EXCEPT !.pc = "touch", !.user = sessions[s].user, !.session = s])
    BY <1>6 DEF ReadSession
  <2>2. s \in Nat /\ sessions[s].user \in Users /\ account[sessions[s].user] # "none"
    BY DEF IInv, StoresOK, SessionData
  <2> DEFINE r == [Idle EXCEPT !.pc = "touch", !.user = sessions[s].user, !.session = s]
  <2>3. r \in RequestType /\ r.pc = "touch" /\ r.user = sessions[s].user
    BY <2>2 DEF Idle, RequestType, PC
  <2>4. Moves(w) /\ worker'[w] = r /\ worker[w].pc = "idle"
    BY <2>1, <2>3, EnterMoves
  <2> HIDE DEF r
  <2> QED BY <1>1, <1>2, <2>2, <2>3, <2>4 DEF RecordOK
<1>7. CASE ResendVerification(w)
  BY <1>1, <1>3, <1>7 DEF ResendVerification, Types
<1>8. CASE StartPasswordReset(w)
  BY <1>1, <1>3, <1>8 DEF StartPasswordReset, Types
<1>9. CASE VerifyEmail(w)
  BY <1>1, <1>4, <1>9 DEF VerifyEmail, Types
<1>10. CASE CompletePasswordReset(w)
  BY <1>1, <1>4, <1>10 DEF CompletePasswordReset, Types
<1> QED BY <1>5, <1>6, <1>7, <1>8, <1>9, <1>10

\* A step that only writes rows of users and tokens, or sends a mail.
LEMMA TokenStores ==
    ASSUME StoresOK, UNCHANGED <<sessions, index, nextSession>>,
           account' \in [Users -> AccountStatus], version' \in [Users -> Nat],
           \A u \in Users : account[u] # "none" => account'[u] # "none",
           Tokens' = Tokens, tokens' \in [Tokens -> TokenRow], mailbox' \subseteq Tokens,
           \A t \in Tokens : tokens'[t].user = tokens[t].user /\ tokens'[t].type = tokens[t].type
    PROVE  StoresOK' /\ Grows
<1>1. Sids' = Sids
  BY DEF Sids
<1>2. \A t \in Tokens : tokens[t].user \in Users
  BY DEF StoresOK, TokenRow
<1>3. \A s \in Sids : sessions[s].user \in Users
  BY DEF StoresOK, SessionData
<1>4. (\A t \in Tokens : account[tokens[t].user] # "none")'
  BY <1>2 DEF StoresOK
<1>5. (\A s \in Sids : account[sessions[s].user] # "none")'
  BY <1>1, <1>3 DEF StoresOK
<1>6. (Tokens = 1 .. Cardinality(Tokens) /\ Cardinality(Tokens) \in Nat /\ mailbox \subseteq Tokens)'
  BY DEF StoresOK
<1>7. Grows
  BY <1>1 DEF StoresOK, Grows
<1> QED BY <1>1, <1>4, <1>5, <1>6, <1>7 DEF StoresOK

\* A step that only writes sessions that exist and indexes.
LEMMA SessionStores ==
    ASSUME StoresOK, UNCHANGED <<account, version, tokens, mailbox, nextSession>>,
           Sids' \subseteq Sids, sessions' \in [Sids' -> SessionData],
           \A s \in Sids' : sessions'[s].user = sessions[s].user,
           index' \in [Users -> [members : SUBSET (1 .. nextSession - 1), left : 0 .. TTL]]
    PROVE  StoresOK' /\ Grows
<1>1. Tokens' = Tokens
  BY DEF Tokens
<1>2. (\A t \in Tokens : account[tokens[t].user] # "none")'
  BY <1>1 DEF StoresOK
<1>3. (\A s \in Sids : account[sessions[s].user] # "none")'
  BY DEF StoresOK
<1>4. (Tokens = 1 .. Cardinality(Tokens) /\ Cardinality(Tokens) \in Nat /\ mailbox \subseteq Tokens)'
  BY <1>1 DEF StoresOK
<1>5. (tokens \in [Tokens -> TokenRow])' /\ (Sids \subseteq 1 .. nextSession - 1)'
  BY <1>1 DEF StoresOK
<1>6. Grows
  BY <1>1 DEF StoresOK, Grows
<1> QED BY <1>2, <1>3, <1>4, <1>5, <1>6 DEF StoresOK

LEMMA RegisterStep ==
    ASSUME IInv, NEW w \in Workers, Register(w)
    PROVE  /\ StoresOK' /\ Grows /\ Moves(w) /\ RecordOK(worker[w])'
           /\ worker[w].pc = "idle" /\ worker'[w].pc = "tokenCreate"
           /\ account[worker'[w].user] = "none"
           /\ \A u \in Users : u # worker'[w].user => version'[u] = version[u]
<1>1. PICK u \in Users :
          /\ Create(u)
          /\ Enter(w, [Idle EXCEPT !.pc = "tokenCreate", !.user = u, !.type = "signup"])
  BY DEF Register, validateRegister
<1> DEFINE r == [Idle EXCEPT !.pc = "tokenCreate", !.user = u, !.type = "signup"]
<1>2. r \in RequestType /\ r.pc = "tokenCreate" /\ r.user = u /\ r.type = "signup"
  BY DEF Idle, RequestType, PC
<1>3. Moves(w) /\ worker'[w] = r /\ worker[w].pc = "idle"
  BY <1>1, <1>2, EnterMoves
<1> HIDE DEF r
<1>4. /\ account[u] = "none" /\ account' = [account EXCEPT ![u] = "unverified"]
      /\ version' = [version EXCEPT ![u] = 1]
      /\ UNCHANGED <<tokens, mailbox, sessions, index, nextSession>>
  BY <1>1 DEF Create, Register
<1>5. /\ account' \in [Users -> AccountStatus] /\ version' \in [Users -> Nat]
      /\ \A x \in Users : account[x] # "none" => account'[x] # "none"
      /\ account'[u] # "none"
  BY <1>4 DEF IInv, StoresOK, AccountStatus
<1>6. StoresOK' /\ Grows
  <2>1. Tokens' = Tokens
    BY <1>4 DEF Tokens
  <2>2. tokens' \in [Tokens -> TokenRow] /\ mailbox' \subseteq Tokens
    BY <1>4 DEF IInv, StoresOK
  <2> QED BY <1>4, <1>5, <2>1, <2>2, TokenStores DEF IInv
<1>7. RecordOK(worker[w])'
  BY <1>2, <1>3, <1>5 DEF RecordOK, Types
<1>8. \A x \in Users : x # u => version'[x] = version[x]
  BY <1>4 DEF IInv, StoresOK
<1> QED BY <1>2, <1>3, <1>4, <1>6, <1>7, <1>8

LEMMA TokenInvalidateStep ==
    ASSUME IInv, NEW w \in Workers, TokenInvalidate(w)
    PROVE  StoresOK' /\ Grows /\ Moves(w) /\ RecordOK(worker[w])'
<1>1. /\ Moves(w) /\ worker'[w].pc = "tokenCreate" /\ worker[w].pc = "tokenInvalidate"
      /\ worker'[w].user = worker[w].user /\ worker'[w].type = worker[w].type
  BY GotoMoves DEF TokenInvalidate, PC
<1>2. UNCHANGED <<account, version, mailbox, sessions, index, nextSession>>
  BY DEF TokenInvalidate
<1>3. /\ Tokens' = Tokens /\ tokens' \in [Tokens -> TokenRow]
      /\ \A t \in Tokens : tokens'[t].user = tokens[t].user /\ tokens'[t].type = tokens[t].type
  <2>1. CASE UNCHANGED tokens
    BY <2>1 DEF Tokens, IInv, StoresOK
  <2>2. CASE tokens' = [t \in Tokens |-> IF t \in Live(worker[w].user, worker[w].type)
                                        THEN [tokens[t] EXCEPT !.state = "consumed"] ELSE tokens[t]]
    <3>1. Tokens' = Tokens
      BY <2>2 DEF Tokens
    <3>2. \A t \in Tokens :
              LET row == IF t \in Live(worker[w].user, worker[w].type)
                         THEN [tokens[t] EXCEPT !.state = "consumed"] ELSE tokens[t]
              IN  row \in TokenRow /\ row.user = tokens[t].user /\ row.type = tokens[t].type
      BY DEF IInv, StoresOK, TokenRow
    <3> QED BY <2>2, <3>1, <3>2
  <2> QED BY <2>1, <2>2 DEF TokenInvalidate
<1>4. StoresOK' /\ Grows
  BY <1>2, <1>3, TokenStores DEF IInv, StoresOK
<1>5. worker[w].user \in Users /\ account[worker[w].user] # "none" /\ worker[w].type \in Types
  BY <1>1 DEF IInv, RequestsOK, RecordOK
<1> QED BY <1>1, <1>2, <1>4, <1>5 DEF RecordOK

\* The row of a new token.
LEMMA TokenCreated ==
    ASSUME IInv, NEW w \in Workers, TokenCreate(w), NEW n, n = Cardinality(Tokens)
    PROVE  /\ n \in Nat /\ Tokens = 1 .. n /\ Tokens' = 1 .. n + 1
           /\ Tokens' = Tokens \cup {n + 1} /\ n + 1 \notin Tokens
           /\ tokens'[n + 1] = [user |-> worker[w].user, type |-> worker[w].type,
                                state |-> "live", uses |-> 0]
           /\ tokens'[n + 1] \in TokenRow
           /\ \A t \in Tokens : tokens'[t] = tokens[t]
           /\ tokens' = [t \in Tokens' |-> tokens'[t]]
<1> DEFINE row == [user |-> worker[w].user, type |-> worker[w].type, state |-> "live", uses |-> 0]
<1>1. n \in Nat /\ Tokens = 1 .. n
  BY DEF IInv, StoresOK
<1>2. tokens' = [x \in Tokens \cup {n + 1} |-> IF x = n + 1 THEN row ELSE tokens[x]]
  BY DEF TokenCreate, RandomToken
<1>3. Tokens' = Tokens \cup {n + 1}
  BY <1>2 DEF Tokens
<1>4. row \in TokenRow
  <2>1. worker[w].user \in Users /\ worker[w].type \in Types
    BY DEF TokenCreate, IInv, RequestsOK, RecordOK
  <2> QED BY <2>1, AccountsAssumption DEF TokenRow, Types
<1> HIDE DEF row
<1>5. Tokens' = 1 .. n + 1 /\ n + 1 \notin Tokens
  BY <1>1, <1>3, OneMore
<1>6. tokens'[n + 1] = row /\ \A t \in Tokens : tokens'[t] = tokens[t]
  BY <1>2, <1>5
<1>7. tokens' = [t \in Tokens' |-> tokens'[t]]
  BY <1>2, <1>3
<1> QED BY <1>1, <1>3, <1>4, <1>5, <1>6, <1>7 DEF row

LEMMA TokenCreateStep ==
    ASSUME IInv, NEW w \in Workers, TokenCreate(w)
    PROVE  /\ StoresOK' /\ Grows /\ Moves(w) /\ RecordOK(worker[w])'
           /\ worker[w].pc = "tokenCreate" /\ worker'[w].pc = "mail"
<1>1. PICK n : n = Cardinality(Tokens)
  OBVIOUS
<1>2. /\ n \in Nat /\ Tokens = 1 .. n /\ Tokens' = 1 .. n + 1
      /\ Tokens' = Tokens \cup {n + 1} /\ n + 1 \notin Tokens
      /\ tokens'[n + 1] \in TokenRow /\ tokens'[n + 1].user = worker[w].user
      /\ \A t \in Tokens : tokens'[t] = tokens[t]
      /\ tokens' = [t \in Tokens' |-> tokens'[t]]
  <2> DEFINE row == [user |-> worker[w].user, type |-> worker[w].type, state |-> "live", uses |-> 0]
  <2>1. row.user = worker[w].user
    OBVIOUS
  <2> HIDE DEF row
  <2>2. tokens'[n + 1] = row
    BY <1>1, TokenCreated DEF row
  <2>3. /\ n \in Nat /\ Tokens = 1 .. n /\ Tokens' = 1 .. n + 1
        /\ Tokens' = Tokens \cup {n + 1} /\ n + 1 \notin Tokens
    BY <1>1, TokenCreated
  <2>4. /\ tokens'[n + 1] \in TokenRow
        /\ \A t \in Tokens : tokens'[t] = tokens[t]
        /\ tokens' = [t \in Tokens' |-> tokens'[t]]
    BY <1>1, TokenCreated
  <2> QED BY <2>1, <2>2, <2>3, <2>4
<1>3. UNCHANGED <<account, version, mailbox, sessions, index, nextSession>>
  BY DEF TokenCreate
<1>4. worker[w].user \in Users /\ account[worker[w].user] # "none" /\ worker[w].pc = "tokenCreate"
  BY DEF TokenCreate, IInv, RequestsOK, RecordOK
<1>5. /\ Moves(w) /\ worker'[w].pc = "mail" /\ worker'[w].token = n + 1
      /\ worker'[w].user = worker[w].user
  <2> DEFINE r == [worker[w] EXCEPT !.pc = "mail", !.token = n + 1]
  <2>1. worker \in [Workers -> RequestType] /\ n + 1 \in Nat
    BY <1>2 DEF IInv, RequestsOK
  <2>2. r \in RequestType /\ r.pc = "mail" /\ r.token = n + 1 /\ r.user = worker[w].user
    BY <2>1 DEF RequestType, PC
  <2>3. worker' = [worker EXCEPT ![w] = r]
    BY <1>1, <2>1 DEF TokenCreate, RandomToken
  <2> HIDE DEF r
  <2> QED BY <2>1, <2>2, <2>3 DEF Moves
<1>6. Cardinality(Tokens') = n + 1
  BY <1>2, FS_Interval
<1>7. StoresOK'
  <2>1. tokens' \in [Tokens' -> TokenRow]
    BY <1>2 DEF IInv, StoresOK
  <2>2. (Tokens = 1 .. Cardinality(Tokens))' /\ Cardinality(Tokens') \in Nat
    BY <1>2, <1>6
  <2>3. Sids' = Sids
    BY <1>3 DEF Sids
  <2>4. \A t \in Tokens' : account'[tokens'[t].user] # "none"
    BY <1>2, <1>3, <1>4 DEF IInv, StoresOK
  <2>5. mailbox' \subseteq Tokens'
    BY <1>2, <1>3 DEF IInv, StoresOK
  <2> QED BY <1>3, <2>1, <2>2, <2>3, <2>4, <2>5 DEF IInv, StoresOK
<1>8. Grows
  BY <1>2, <1>3 DEF Grows, IInv, StoresOK, Sids
<1>9. RecordOK(worker[w])'
  BY <1>2, <1>3, <1>4, <1>5 DEF RecordOK
<1> QED BY <1>4, <1>5, <1>7, <1>8, <1>9

LEMMA MailStep ==
    ASSUME IInv, NEW w \in Workers, Mail(w)
    PROVE  StoresOK' /\ Grows /\ Moves(w) /\ RecordOK(worker[w])'
<1>1. worker[w].token \in Tokens
  BY DEF Mail, IInv, RequestsOK, RecordOK
<1>2. UNCHANGED <<account, version, tokens, sessions, index, nextSession>> /\ Tokens' = Tokens
  BY DEF Mail, Tokens
<1>3. mailbox' \subseteq Tokens
  BY <1>1 DEF Mail, Send, IInv, StoresOK
<1>4. StoresOK' /\ Grows
  BY <1>2, <1>3, TokenStores DEF IInv, StoresOK
<1> QED BY <1>4, ReturnMoves DEF Mail

\* The row of a token that was used.
LEMMA UsedRow ==
    ASSUME StoresOK, NEW t \in Tokens, tokens' = Used(t)
    PROVE  /\ Tokens' = Tokens /\ tokens' \in [Tokens -> TokenRow]
           /\ \A x \in Tokens : /\ tokens'[x].user = tokens[x].user
                                /\ tokens'[x].type = tokens[x].type
                                /\ tokens'[x].state = tokens[x].state
           /\ \A x \in Tokens \ {t} : tokens'[x] = tokens[x]
           /\ tokens'[t].uses <= tokens[t].uses + 1
<1> DEFINE row == [tokens[t] EXCEPT !.uses = IF @ < MaxUses THEN @ + 1 ELSE @]
<1>1. tokens[t] \in TokenRow /\ MaxUses \in Nat
  BY AccountsAssumption DEF StoresOK
<1>2. /\ row \in TokenRow /\ row.user = tokens[t].user /\ row.type = tokens[t].type
      /\ row.state = tokens[t].state /\ row.uses <= tokens[t].uses + 1
  BY <1>1 DEF TokenRow
<1>3. tokens' = [tokens EXCEPT ![t] = row]
  BY DEF Used
<1> HIDE DEF row
<1>4. Tokens' = Tokens
  BY <1>3 DEF Tokens
<1> QED BY <1>2, <1>3, <1>4 DEF StoresOK

\* The row of a token whose state is set.
LEMMA StateRow ==
    ASSUME StoresOK, NEW t \in Tokens, NEW state \in {"consumed", "expired"},
           tokens' = [tokens EXCEPT ![t].state = state]
    PROVE  /\ Tokens' = Tokens /\ tokens' \in [Tokens -> TokenRow]
           /\ \A x \in Tokens : /\ tokens'[x].user = tokens[x].user
                                /\ tokens'[x].type = tokens[x].type
                                /\ tokens'[x].uses = tokens[x].uses
           /\ \A x \in Tokens \ {t} : tokens'[x] = tokens[x]
           /\ tokens'[t].state = state
<1> DEFINE row == [tokens[t] EXCEPT !.state = state]
<1>1. tokens[t] \in TokenRow
  BY DEF StoresOK
<1>2. /\ row \in TokenRow /\ row.user = tokens[t].user /\ row.type = tokens[t].type
      /\ row.state = state /\ row.uses = tokens[t].uses
  BY <1>1 DEF TokenRow
<1>3. tokens' = [tokens EXCEPT ![t] = row]
  OBVIOUS
<1> HIDE DEF row
<1>4. Tokens' = Tokens
  BY <1>3 DEF Tokens
<1> QED BY <1>2, <1>3, <1>4 DEF StoresOK

LEMMA MarkEmailVerifiedStep ==
    ASSUME IInv, NEW w \in Workers, MarkEmailVerified(w)
    PROVE  StoresOK' /\ Grows /\ Moves(w) /\ RecordOK(worker[w])'
<1>1. worker[w].token \in Tokens /\ worker[w].user \in Users /\ account[worker[w].user] # "none"
  BY DEF MarkEmailVerified, IInv, RequestsOK, RecordOK
<1>2. /\ UNCHANGED <<version, mailbox, sessions, index, nextSession>>
      /\ account' = [account EXCEPT ![worker[w].user] = "active"]
  BY DEF MarkEmailVerified
<1>3. /\ account' \in [Users -> AccountStatus] /\ version' \in [Users -> Nat]
      /\ \A u \in Users : account[u] # "none" => account'[u] # "none"
  BY <1>1, <1>2 DEF IInv, StoresOK, AccountStatus
<1>4. /\ Tokens' = Tokens /\ tokens' \in [Tokens -> TokenRow]
      /\ \A t \in Tokens : tokens'[t].user = tokens[t].user /\ tokens'[t].type = tokens[t].type
  BY <1>1, UsedRow DEF MarkEmailVerified, IInv
<1>5. StoresOK' /\ Grows
  BY <1>2, <1>3, <1>4, TokenStores DEF IInv, StoresOK
<1>6. /\ Moves(w) /\ worker'[w].pc = "consume" /\ worker'[w].token = worker[w].token
      /\ worker'[w].user = worker[w].user
  BY GotoMoves DEF MarkEmailVerified, PC
<1> QED BY <1>1, <1>3, <1>4, <1>5, <1>6 DEF RecordOK

LEMMA ResetPasswordStep ==
    ASSUME IInv, NEW w \in Workers, ResetPassword(w)
    PROVE  StoresOK' /\ Grows /\ Moves(w) /\ RecordOK(worker[w])'
<1>1. worker[w].token \in Tokens /\ worker[w].user \in Users /\ account[worker[w].user] # "none"
  BY DEF ResetPassword, IInv, RequestsOK, RecordOK
<1>2. /\ UNCHANGED <<account, mailbox, sessions, index, nextSession>>
      /\ version' = [version EXCEPT ![worker[w].user] = version[worker[w].user] + 1]
  BY DEF ResetPassword, HashPassword
<1>3. account' \in [Users -> AccountStatus] /\ version' \in [Users -> Nat]
  BY <1>1, <1>2 DEF IInv, StoresOK
<1>4. /\ Tokens' = Tokens /\ tokens' \in [Tokens -> TokenRow]
      /\ \A t \in Tokens : tokens'[t].user = tokens[t].user /\ tokens'[t].type = tokens[t].type
  BY <1>1, UsedRow DEF ResetPassword, IInv
<1>5. StoresOK' /\ Grows
  BY <1>2, <1>3, <1>4, TokenStores DEF IInv, StoresOK
<1>6. /\ Moves(w) /\ worker'[w].pc = "consume" /\ worker'[w].token = worker[w].token
      /\ worker'[w].user = worker[w].user
  BY GotoMoves DEF ResetPassword, PC
<1> QED BY <1>1, <1>2, <1>4, <1>5, <1>6 DEF RecordOK

LEMMA MarkConsumedStep ==
    ASSUME IInv, NEW w \in Workers, MarkConsumed(w)
    PROVE  StoresOK' /\ Grows /\ Moves(w) /\ RecordOK(worker[w])'
<1>1. worker[w].token \in Tokens /\ worker[w].user \in Users /\ account[worker[w].user] # "none"
  BY DEF MarkConsumed, IInv, RequestsOK, RecordOK
<1>2. UNCHANGED <<account, version, mailbox, sessions, index, nextSession>>
  BY DEF MarkConsumed
<1>3. /\ Tokens' = Tokens /\ tokens' \in [Tokens -> TokenRow]
      /\ \A t \in Tokens : tokens'[t].user = tokens[t].user /\ tokens'[t].type = tokens[t].type
  BY <1>1, StateRow DEF MarkConsumed, IInv
<1>4. StoresOK' /\ Grows
  BY <1>2, <1>3, TokenStores DEF IInv, StoresOK
<1>5. CASE Goto(w, "destroyList")
  <2>1. /\ Moves(w) /\ worker'[w].pc = "destroyList" /\ worker'[w].user = worker[w].user
    BY <1>5, GotoMoves DEF PC
  <2> QED BY <1>1, <1>2, <1>4, <2>1 DEF RecordOK
<1>6. CASE Return(w)
  BY <1>4, <1>6, ReturnMoves
<1> QED BY <1>5, <1>6 DEF MarkConsumed

\* The new session.
LEMMA SessionSetStep ==
    ASSUME IInv, NEW w \in Workers, SessionSet(w)
    PROVE  /\ StoresOK' /\ Grows /\ Moves(w) /\ RecordOK(worker[w])'
           /\ worker[w].pc = "sessionSet" /\ worker'[w].pc = "sessionAdd"
           /\ Sids' = Sids \cup {nextSession} /\ nextSession \notin Sids
           /\ \A s \in Sids : sessions'[s] = sessions[s]
<1>1. PICK n : n = nextSession
  OBVIOUS
<1>2. /\ n \in Nat \ {0} /\ nextSession' = n + 1 /\ Sids \subseteq 1 .. n - 1
      /\ worker[w].user \in Users /\ account[worker[w].user] # "none"
      /\ worker[w].pc = "sessionSet" /\ worker \in [Workers -> RequestType]
  BY <1>1 DEF SessionSet, IInv, StoresOK, RequestsOK, RecordOK
<1>3. UNCHANGED <<account, version, tokens, mailbox, index>> /\ Tokens' = Tokens
  BY DEF SessionSet, Tokens
<1> DEFINE row == [user |-> worker[w].user, ver |-> worker[w].ver,
                   known |-> 0, left |-> TTL, cookie |-> FALSE]
<1>4. row \in SessionData /\ row.user = worker[w].user
  <2>1. worker[w].ver \in Nat
    BY <1>2 DEF RequestType
  <2> QED BY <1>2, <2>1, AccountsAssumption DEF SessionData
<1>5. sessions' = [s \in Sids \cup {n} |-> IF s = n THEN row ELSE sessions[s]]
  BY <1>1 DEF SessionSet, Set, generateToken
<1> HIDE DEF row
<1>6. /\ Sids' = Sids \cup {n} /\ n \notin Sids
      /\ sessions'[n] = row /\ \A s \in Sids : sessions'[s] = sessions[s]
  <2>1. Sids' = Sids \cup {n}
    BY <1>5 DEF Sids
  <2>2. n \notin 1 .. n - 1
    BY <1>2
  <2> QED BY <1>2, <1>5, <2>1, <2>2
<1>7. \A i \in 1 .. n - 1 : i \in 1 .. (n + 1) - 1
  BY <1>2, IdsGrow
<1>8. n \in 1 .. (n + 1) - 1 /\ n + 1 \in Nat \ {0} /\ n <= n + 1
  BY <1>2
<1>9. /\ Moves(w) /\ worker'[w].pc = "sessionAdd" /\ worker'[w].session = n
      /\ worker'[w].user = worker[w].user
  <2> DEFINE r == [worker[w] EXCEPT !.pc = "sessionAdd", !.session = n]
  <2>1. r \in RequestType /\ r.pc = "sessionAdd" /\ r.session = n /\ r.user = worker[w].user
    BY <1>2 DEF RequestType, PC
  <2>2. worker' = [worker EXCEPT ![w] = r]
    BY <1>1, <1>2 DEF SessionSet, generateToken
  <2> HIDE DEF r
  <2> QED BY <1>2, <2>1, <2>2 DEF Moves
<1>10. StoresOK'
  <2>1. (sessions \in [Sids -> SessionData])'
    <3>1. \A s \in Sids' : sessions'[s] \in SessionData
      BY <1>4, <1>6 DEF IInv, StoresOK
    <3> QED BY <1>5, <1>6, <3>1
  <2>2. (nextSession \in Nat \ {0} /\ Sids \subseteq 1 .. nextSession - 1)'
    BY <1>2, <1>6, <1>7, <1>8
  <2>3. (\A s \in Sids : account[sessions[s].user] # "none")'
    BY <1>2, <1>3, <1>4, <1>6 DEF IInv, StoresOK
  <2>4. (index \in [Users -> [members : SUBSET (1 .. nextSession - 1), left : 0 .. TTL]])'
    <3>1. index \in [Users -> [members : SUBSET (1 .. n - 1), left : 0 .. TTL]]
      BY <1>1 DEF IInv, StoresOK
    <3>2. SUBSET (1 .. n - 1) \subseteq SUBSET (1 .. (n + 1) - 1)
      BY <1>7
    <3>3. index \in [Users -> [members : SUBSET (1 .. (n + 1) - 1), left : 0 .. TTL]]
      BY <3>1, <3>2
    <3> QED BY <1>2, <1>3, <3>3
  <2>5. (\A t \in Tokens : account[tokens[t].user] # "none")' /\ (Cardinality(Tokens) \in Nat)'
    BY <1>3 DEF IInv, StoresOK
  <2>6. (Tokens = 1 .. Cardinality(Tokens) /\ tokens \in [Tokens -> TokenRow] /\ mailbox \subseteq Tokens)'
    BY <1>3 DEF IInv, StoresOK
  <2>7. (account \in [Users -> AccountStatus] /\ version \in [Users -> Nat])'
    BY <1>3 DEF IInv, StoresOK
  <2> QED BY <2>1, <2>2, <2>3, <2>4, <2>5, <2>6, <2>7 DEF StoresOK
<1>11. Grows
  BY <1>1, <1>2, <1>3, <1>6, <1>8 DEF Grows
<1>12. RecordOK(worker[w])'
  BY <1>2, <1>3, <1>4, <1>6, <1>8, <1>9 DEF RecordOK
<1> QED BY <1>1, <1>2, <1>6, <1>9, <1>10, <1>11, <1>12

\* A session's row as SessionAdd, SetSessionCookie, Touch and Tick leave it.
LEMMA RowsKept ==
    ASSUME StoresOK, NEW s \in Sids
    PROVE  /\ sessions[s] \in SessionData
           /\ \A known \in Nat :
                 LET row == [sessions[s] EXCEPT !.known = known]
                 IN  row \in SessionData /\ row.user = sessions[s].user /\ row.known = known
           /\ LET row == [sessions[s] EXCEPT !.cookie = TRUE]
              IN  /\ row \in SessionData /\ row.user = sessions[s].user
                  /\ row.known = sessions[s].known
           /\ \A left \in 1 .. TTL :
                 LET row == [sessions[s] EXCEPT !.left = left]
                 IN  /\ row \in SessionData /\ row.user = sessions[s].user
                     /\ row.known = sessions[s].known
BY DEF StoresOK, SessionData

\* What SessionAdd does to the sessions and the index.
SessionAdded(w) ==
    /\ index' = [index EXCEPT ![worker[w].user].members = @ \cup {worker[w].session}]
    /\ Sids' = Sids
    /\ \A s \in Sids : /\ sessions'[s].user = sessions[s].user
                       /\ s # worker[w].session => sessions'[s] = sessions[s]
                       /\ s = worker[w].session => sessions'[s].known = version[worker[w].user]

LEMMA SessionAddStep ==
    ASSUME IInv, NEW w \in Workers, SessionAdd(w)
    PROVE  /\ StoresOK' /\ Grows /\ Moves(w) /\ RecordOK(worker[w])'
           /\ worker[w].pc = "sessionAdd" /\ worker'[w].pc = "sessionExpire"
           /\ \/ SessionAdded(w) /\ UNCHANGED faults
              \/ Fails /\ UNCHANGED <<sessions, index>>
<1>1. /\ worker[w].user \in Users /\ account[worker[w].user] # "none"
      /\ worker[w].session \in 1 .. nextSession - 1 /\ worker[w].pc = "sessionAdd"
  BY DEF SessionAdd, IInv, RequestsOK, RecordOK
<1>2. UNCHANGED <<account, version, tokens, mailbox, nextSession>>
  BY DEF SessionAdd
<1>3. PICK v \in Nat : v = version[worker[w].user]
  BY <1>1 DEF IInv, StoresOK
<1>4. /\ Moves(w) /\ worker'[w].pc = "sessionExpire" /\ worker'[w].user = worker[w].user
  BY GotoMoves DEF SessionAdd, PC
<1>5. RecordOK(worker[w])'
  BY <1>1, <1>2, <1>4 DEF RecordOK
<1>6. CASE Fails /\ UNCHANGED <<index, sessions>>
  <2>1. StoresOK' /\ Grows
    BY <1>2, <1>6, Same DEF stores, IInv
  <2> QED BY <1>1, <1>4, <1>5, <1>6, <2>1
<1>7. CASE /\ index' = [index EXCEPT ![worker[w].user].members = @ \cup {worker[w].session}]
           /\ sessions' = [x \in Sids |-> IF x = worker[w].session
                                          THEN [sessions[x] EXCEPT !.known = v] ELSE sessions[x]]
           /\ UNCHANGED faults
  <2>1. Sids' = Sids
    BY <1>7 DEF Sids
  <2>2. ASSUME NEW s \in Sids
        PROVE  /\ sessions'[s] \in SessionData /\ sessions'[s].user = sessions[s].user
               /\ s # worker[w].session => sessions'[s] = sessions[s]
               /\ s = worker[w].session => sessions'[s].known = v
    BY <1>7, RowsKept DEF IInv
  <2>3. sessions' \in [Sids' -> SessionData]
    BY <1>7, <2>1, <2>2
  <2>4. index' \in [Users -> [members : SUBSET (1 .. nextSession - 1), left : 0 .. TTL]]
    BY <1>1, <1>7 DEF IInv, StoresOK
  <2>5. StoresOK' /\ Grows
    BY <1>2, <2>1, <2>2, <2>3, <2>4, SessionStores DEF IInv
  <2>6. SessionAdded(w)
    BY <1>3, <1>7, <2>1, <2>2 DEF SessionAdded
  <2> QED BY <1>1, <1>4, <1>5, <1>7, <2>5, <2>6
<1> QED BY <1>3, <1>6, <1>7 DEF SessionAdd

\* A step that leaves no session but those there were, of the same users and
\* with the same history, and no index entry but those there were.
Fewer ==
    /\ Sids' \subseteq Sids
    /\ \A s \in Sids' : sessions'[s].user = sessions[s].user /\ sessions'[s].known = sessions[s].known
    /\ \A u \in Users : index'[u].members \subseteq index[u].members

LEMMA SessionExpireStep ==
    ASSUME IInv, NEW w \in Workers, SessionExpire(w)
    PROVE  StoresOK' /\ Grows /\ Moves(w) /\ RecordOK(worker[w])' /\ Fewer
<1>1. worker[w].user \in Users
  BY DEF SessionExpire, IInv, RequestsOK, RecordOK
<1>2. UNCHANGED <<account, version, tokens, mailbox, nextSession>>
  BY DEF SessionExpire
<1>3. /\ index' \in [Users -> [members : SUBSET (1 .. nextSession - 1), left : 0 .. TTL]]
      /\ \A u \in Users : index'[u].members = index[u].members
  <2>1. CASE UNCHANGED index
    BY <2>1 DEF IInv, StoresOK
  <2>2. CASE index' = [index EXCEPT ![worker[w].user].left =
                          IF index[worker[w].user].members = {} THEN 0 ELSE TTL]
    <3> DEFINE left == IF index[worker[w].user].members = {} THEN 0 ELSE TTL
    <3>1. left \in 0 .. TTL
      BY AccountsAssumption
    <3>2. index' = [index EXCEPT ![worker[w].user].left = left]
      BY <2>2
    <3> HIDE DEF left
    <3> QED BY <1>1, <3>1, <3>2 DEF IInv, StoresOK
  <2> QED BY <2>1, <2>2 DEF SessionExpire
<1>4. sessions' = [x \in Sids |-> IF x = worker[w].session
                                  THEN [sessions[x] EXCEPT !.cookie = TRUE] ELSE sessions[x]]
  BY DEF SessionExpire, SetSessionCookie
<1>5. Sids' = Sids
  BY <1>4 DEF Sids
<1>6. ASSUME NEW s \in Sids
      PROVE  /\ sessions'[s] \in SessionData /\ sessions'[s].user = sessions[s].user
             /\ sessions'[s].known = sessions[s].known
  BY <1>4, RowsKept DEF IInv
<1>7. sessions' \in [Sids' -> SessionData]
  BY <1>4, <1>5, <1>6
<1>8. StoresOK' /\ Grows
  BY <1>2, <1>3, <1>5, <1>6, <1>7, SessionStores DEF IInv
<1>9. Fewer
  BY <1>3, <1>5, <1>6 DEF Fewer
<1> QED BY <1>8, <1>9, ReturnMoves DEF SessionExpire

LEMMA TouchStep ==
    ASSUME IInv, NEW w \in Workers, Touch(w)
    PROVE  /\ StoresOK' /\ Grows /\ Moves(w) /\ RecordOK(worker[w])' /\ Fewer
           /\ worker[w].pc = "touch" /\ worker'[w].pc = "authenticated"
<1>1. worker[w].user \in Users /\ account[worker[w].user] # "none" /\ worker[w].pc = "touch"
  BY DEF Touch, IInv, RequestsOK, RecordOK
<1>2. UNCHANGED <<account, version, tokens, mailbox, index, nextSession>>
  BY DEF Touch
<1>3. /\ Moves(w) /\ worker'[w].pc = "authenticated" /\ worker'[w].user = worker[w].user
  BY GotoMoves DEF Touch, PC
<1>4. RecordOK(worker[w])'
  BY <1>1, <1>2, <1>3 DEF RecordOK
<1>5. CASE UNCHANGED sessions
  <2>1. StoresOK' /\ Grows
    BY <1>2, <1>5, Same DEF stores, IInv
  <2>2. Fewer
    BY <1>2, <1>5 DEF Fewer, Sids
  <2> QED BY <1>1, <1>3, <1>4, <2>1, <2>2
<1>6. CASE sessions' = [x \in Sids |-> IF x = worker[w].session
                                       THEN [sessions[x] EXCEPT !.left = TTL] ELSE sessions[x]]
  <2>1. Sids' = Sids
    BY <1>6 DEF Sids
  <2>2. TTL \in 1 .. TTL
    BY AccountsAssumption
  <2>3. ASSUME NEW s \in Sids
        PROVE  /\ sessions'[s] \in SessionData /\ sessions'[s].user = sessions[s].user
               /\ sessions'[s].known = sessions[s].known
    BY <1>6, <2>2, RowsKept DEF IInv
  <2>4. sessions' \in [Sids' -> SessionData]
    BY <1>6, <2>1, <2>3
  <2>5. StoresOK' /\ Grows
    BY <1>2, <2>1, <2>3, <2>4, SessionStores DEF IInv, StoresOK
  <2>6. Fewer
    BY <1>2, <2>1, <2>3 DEF Fewer
  <2> QED BY <1>1, <1>3, <1>4, <2>5, <2>6
<1> QED BY <1>5, <1>6 DEF Touch

\* A session is deleted.
LEMMA DestroyStores ==
    ASSUME IInv, NEW s, Destroy(s), UNCHANGED <<account, version, tokens, mailbox, index, nextSession>>
    PROVE  StoresOK' /\ Grows /\ Fewer /\ s \notin Sids'
<1>1. Sids' = Sids \ {s} /\ \A x \in Sids' : sessions'[x] = sessions[x]
  BY DEF Destroy, Del, Sids
<1>2. sessions' \in [Sids' -> SessionData]
  BY <1>1 DEF Destroy, Del, IInv, StoresOK
<1>3. StoresOK' /\ Grows
  BY <1>1, <1>2, SessionStores DEF IInv, StoresOK
<1> QED BY <1>1, <1>3 DEF Fewer

LEMMA LogoutStep ==
    ASSUME IInv, NEW w \in Workers, Logout(w)
    PROVE  StoresOK' /\ Grows /\ Moves(w) /\ RecordOK(worker[w])' /\ Fewer
BY DestroyStores, ReturnMoves DEF Logout

LEMMA ChangePasswordStep ==
    ASSUME IInv, NEW w \in Workers, ChangePassword(w)
    PROVE  /\ StoresOK' /\ Grows /\ Moves(w) /\ RecordOK(worker[w])'
           /\ worker[w].pc = "changePassword" /\ worker'[w].pc = "destroyList"
           /\ worker'[w].user = worker[w].user
           /\ \A u \in Users : u # worker[w].user => version'[u] = version[u]
<1>1. /\ worker[w].user \in Users /\ account[worker[w].user] # "none"
      /\ worker[w].pc = "changePassword"
  BY DEF ChangePassword, IInv, RequestsOK, RecordOK
<1>2. /\ UNCHANGED <<account, tokens, mailbox, sessions, index, nextSession>>
      /\ version' = [version EXCEPT ![worker[w].user] = version[worker[w].user] + 1]
  BY DEF ChangePassword, HashPassword
<1>3. account' \in [Users -> AccountStatus] /\ version' \in [Users -> Nat]
  BY <1>1, <1>2 DEF IInv, StoresOK
<1>4. StoresOK' /\ Grows
  <2>1. Tokens' = Tokens
    BY <1>2 DEF Tokens
  <2> QED BY <1>2, <1>3, <2>1, TokenStores DEF IInv, StoresOK
<1>5. /\ Moves(w) /\ worker'[w].pc = "destroyList" /\ worker'[w].user = worker[w].user
  BY GotoMoves DEF ChangePassword, PC
<1>6. \A u \in Users : u # worker[w].user => version'[u] = version[u]
  BY <1>2 DEF IInv, StoresOK
<1> QED BY <1>1, <1>2, <1>4, <1>5, <1>6 DEF RecordOK

LEMMA DestroyListStep ==
    ASSUME IInv, NEW w \in Workers, DestroyList(w)
    PROVE  /\ StoresOK' /\ Grows /\ Moves(w) /\ RecordOK(worker[w])' /\ UNCHANGED stores
           /\ worker[w].pc = "destroyList"
           /\ \/ Fails /\ worker'[w].pc = "idle"
              \/ /\ UNCHANGED faults
                 /\ worker'[w].pc = "destroyEach" /\ worker'[w].user = worker[w].user
                 /\ worker'[w].todo = index[worker[w].user].members
<1>1. /\ worker[w].user \in Users /\ account[worker[w].user] # "none"
      /\ worker[w].pc = "destroyList" /\ worker \in [Workers -> RequestType]
  BY DEF DestroyList, IInv, RequestsOK, RecordOK
<1>2. UNCHANGED stores /\ UNCHANGED account
  BY DEF DestroyList, stores
<1>3. StoresOK' /\ Grows
  BY <1>2, Same DEF IInv
<1>4. CASE Fails /\ Return(w)
  BY <1>1, <1>2, <1>3, <1>4, ReturnMoves
<1>5. CASE /\ worker' = [worker EXCEPT ![w].pc = "destroyEach",
                                       ![w].todo = index[worker[w].user].members]
           /\ UNCHANGED faults
  <2>1. index[worker[w].user].members \in SUBSET Nat
    BY <1>1 DEF IInv, StoresOK
  <2> DEFINE r == [worker[w] EXCEPT !.pc = "destroyEach", !.todo = index[worker[w].user].members]
  <2>2. /\ r \in RequestType /\ r.pc = "destroyEach" /\ r.user = worker[w].user
        /\ r.todo = index[worker[w].user].members
    BY <1>1, <2>1 DEF RequestType, PC
  <2>3. worker' = [worker EXCEPT ![w] = r]
    BY <1>1, <1>5
  <2> HIDE DEF r
  <2>4. Moves(w) /\ worker'[w] = r
    BY <1>1, <2>2, <2>3 DEF Moves
  <2> QED BY <1>1, <1>2, <1>3, <1>5, <2>2, <2>4 DEF RecordOK
<1> QED BY <1>4, <1>5 DEF DestroyList

LEMMA DestroyEachStep ==
    ASSUME IInv, NEW w \in Workers, DestroyEach(w)
    PROVE  /\ StoresOK' /\ Grows /\ Moves(w) /\ RecordOK(worker[w])' /\ Fewer
           /\ worker[w].pc = "destroyEach" /\ worker'[w].pc = "destroyEach"
           /\ worker'[w].user = worker[w].user
           /\ \/ UNCHANGED faults /\ \A s \in Sids' : s \in worker[w].todo => s \in worker'[w].todo
              \/ Fails
<1>1. /\ worker[w].user \in Users /\ account[worker[w].user] # "none"
      /\ worker[w].pc = "destroyEach" /\ worker \in [Workers -> RequestType]
  BY DEF DestroyEach, IInv, RequestsOK, RecordOK
<1>2. UNCHANGED <<account, version, tokens, mailbox, index, nextSession>>
  BY DEF DestroyEach
<1>3. PICK s \in worker[w].todo :
          /\ worker' = [worker EXCEPT ![w].todo = @ \ {s}]
          /\ (Destroy(s) /\ UNCHANGED faults) \/ (Fails /\ UNCHANGED sessions)
  BY DEF DestroyEach
<1>4. /\ Moves(w) /\ worker'[w].pc = "destroyEach" /\ worker'[w].user = worker[w].user
      /\ worker'[w].todo = worker[w].todo \ {s}
  <2> DEFINE r == [worker[w] EXCEPT !.todo = @ \ {s}]
  <2>1. /\ r \in RequestType /\ r.pc = "destroyEach" /\ r.user = worker[w].user
        /\ r.todo = worker[w].todo \ {s}
    BY <1>1 DEF RequestType
  <2>2. worker' = [worker EXCEPT ![w] = r]
    BY <1>1, <1>3
  <2> HIDE DEF r
  <2> QED BY <1>1, <2>1, <2>2 DEF Moves
<1>5. RecordOK(worker[w])'
  BY <1>1, <1>2, <1>4 DEF RecordOK
<1>6. CASE Destroy(s) /\ UNCHANGED faults
  <2>1. StoresOK' /\ Grows /\ Fewer /\ s \notin Sids'
    BY <1>2, <1>6, DestroyStores
  <2> QED BY <1>1, <1>4, <1>5, <1>6, <2>1
<1>7. CASE Fails /\ UNCHANGED sessions
  <2>1. StoresOK' /\ Grows
    BY <1>2, <1>7, Same DEF stores, IInv
  <2>2. Fewer
    BY <1>2, <1>7 DEF Fewer, Sids
  <2> QED BY <1>1, <1>4, <1>5, <1>7, <2>1, <2>2
<1> QED BY <1>3, <1>6, <1>7

LEMMA DestroyIndexStep ==
    ASSUME IInv, NEW w \in Workers, DestroyIndex(w)
    PROVE  /\ StoresOK' /\ Grows /\ Moves(w) /\ RecordOK(worker[w])' /\ Fewer
           /\ worker[w].pc = "destroyEach" /\ worker[w].todo = {}
<1>1. worker[w].user \in Users
  BY DEF DestroyIndex, IInv, RequestsOK, RecordOK
<1>2. UNCHANGED <<account, version, tokens, mailbox, sessions, nextSession>> /\ Sids' = Sids
  BY DEF DestroyIndex, Sids
<1>3. /\ index' \in [Users -> [members : SUBSET (1 .. nextSession - 1), left : 0 .. TTL]]
      /\ \A u \in Users : index'[u].members \subseteq index[u].members
  <2>1. CASE UNCHANGED index
    BY <2>1 DEF IInv, StoresOK
  <2>2. CASE index' = [index EXCEPT ![worker[w].user] = NoIndex]
    <3>1. NoIndex \in [members : SUBSET (1 .. nextSession - 1), left : 0 .. TTL]
          /\ NoIndex.members = {}
      BY AccountsAssumption DEF NoIndex
    <3> HIDE DEF NoIndex
    <3> QED BY <1>1, <2>2, <3>1 DEF IInv, StoresOK
  <2> QED BY <2>1, <2>2 DEF DestroyIndex
<1>4. StoresOK' /\ Grows
  BY <1>2, <1>3, SessionStores DEF IInv, StoresOK
<1>5. Fewer
  BY <1>2, <1>3 DEF Fewer
<1> QED BY <1>4, <1>5, ReturnMoves DEF DestroyIndex

\* Steps that write nothing and end the request or move it on.
LEMMA OtherRequestStep ==
    ASSUME IInv, NEW w \in Workers, OtherRequest(w)
    PROVE  StoresOK' /\ Grows /\ Moves(w) /\ RecordOK(worker[w])' /\ UNCHANGED stores
BY Same, ReturnMoves DEF OtherRequest, IInv

LEMMA UpdatePasswordStep ==
    ASSUME IInv, NEW w \in Workers, UpdatePassword(w)
    PROVE  /\ StoresOK' /\ Grows /\ Moves(w) /\ RecordOK(worker[w])' /\ UNCHANGED stores
           /\ worker[w].pc = "authenticated" /\ worker'[w].pc = "changePassword"
<1>1. /\ worker[w].user \in Users /\ account[worker[w].user] # "none"
      /\ worker[w].pc = "authenticated"
  BY DEF UpdatePassword, IInv, RequestsOK, RecordOK
<1>2. UNCHANGED stores /\ UNCHANGED account
  BY DEF UpdatePassword, stores
<1>3. StoresOK' /\ Grows
  BY <1>2, Same DEF IInv
<1>4. /\ Moves(w) /\ worker'[w].pc = "changePassword" /\ worker'[w].user = worker[w].user
  BY GotoMoves DEF UpdatePassword, PC
<1> QED BY <1>1, <1>2, <1>3, <1>4 DEF RecordOK

LEMMA AbortStep ==
    ASSUME IInv, NEW w \in Workers, Abort(w)
    PROVE  StoresOK' /\ Grows /\ Moves(w) /\ RecordOK(worker[w])' /\ UNCHANGED stores /\ Fails
BY Same, ReturnMoves DEF Abort, IInv

LEMMA TokenExpiresStep ==
    ASSUME IInv, TokenExpires
    PROVE  /\ IInv' /\ Grows /\ UNCHANGED <<account, version, mailbox, sessions, index, nextSession, worker>>
           /\ Tokens' = Tokens
           /\ \A x \in Tokens : /\ tokens'[x].user = tokens[x].user
                                /\ tokens'[x].type = tokens[x].type
                                /\ tokens'[x].uses = tokens[x].uses
                                /\ tokens'[x].state = "live" => tokens[x].state = "live"
<1>1. PICK t \in Tokens : tokens' = [tokens EXCEPT ![t].state = "expired"]
  BY DEF TokenExpires
<1>2. UNCHANGED <<account, version, mailbox, sessions, index, nextSession, worker>>
  BY DEF TokenExpires
<1>3. /\ Tokens' = Tokens /\ tokens' \in [Tokens -> TokenRow]
      /\ \A x \in Tokens : /\ tokens'[x].user = tokens[x].user
                           /\ tokens'[x].type = tokens[x].type
                           /\ tokens'[x].uses = tokens[x].uses
      /\ \A x \in Tokens \ {t} : tokens'[x] = tokens[x]
      /\ tokens'[t].state = "expired"
  BY <1>1, StateRow DEF IInv
<1>4. StoresOK' /\ Grows
  BY <1>2, <1>3, TokenStores DEF IInv, StoresOK
<1>5. \A v \in Workers : RecordOK(worker[v])'
  <2> SUFFICES ASSUME NEW v \in Workers PROVE RecordOK(worker[v])'
    OBVIOUS
  <2> QED BY <1>2, <1>4, OthersKeep
<1>6. worker' \in [Workers -> RequestType]
  BY <1>2 DEF IInv, RequestsOK
<1> QED BY <1>2, <1>3, <1>4, <1>5, <1>6 DEF IInv, RequestsOK

LEMMA TickStep ==
    ASSUME IInv, Tick
    PROVE  /\ IInv' /\ Grows /\ Fewer
           /\ UNCHANGED <<account, version, tokens, mailbox, nextSession, worker>>
<1>1. UNCHANGED <<account, version, tokens, mailbox, nextSession, worker>>
  BY DEF Tick
<1>2. sessions' = [s \in {x \in Sids : sessions[x].left > 1} |-> [sessions[s] EXCEPT !.left = @ - 1]]
  BY DEF Tick
<1>3. Sids' = {x \in Sids : sessions[x].left > 1}
  BY <1>2 DEF Sids
<1>4. ASSUME NEW s \in Sids'
      PROVE  /\ sessions'[s] \in SessionData /\ sessions'[s].user = sessions[s].user
             /\ sessions'[s].known = sessions[s].known
  <2>1. s \in Sids /\ sessions[s].left > 1 /\ sessions[s].left \in 1 .. TTL
    BY <1>3 DEF IInv, StoresOK, SessionData
  <2>2. PICK left \in 1 .. TTL : left = sessions[s].left - 1
    BY <2>1, AccountsAssumption
  <2>3. sessions'[s] = [sessions[s] EXCEPT !.left = left]
    BY <1>2, <1>3, <2>2
  <2>4. sessions[s] \in SessionData
    BY <2>1 DEF IInv, StoresOK
  <2> QED BY <2>2, <2>3, <2>4 DEF SessionData
<1>5. sessions' \in [Sids' -> SessionData]
  BY <1>2, <1>3, <1>4
<1> DEFINE entry(u) == CASE index[u].left = 0 -> index[u]
                         [] index[u].left = 1 -> NoIndex
                         [] OTHER -> [index[u] EXCEPT !.left = @ - 1]
<1>6. ASSUME NEW u \in Users
      PROVE  /\ entry(u) \in [members : SUBSET (1 .. nextSession - 1), left : 0 .. TTL]
             /\ entry(u).members \subseteq index[u].members
  <2>1. /\ index[u] \in [members : SUBSET (1 .. nextSession - 1), left : 0 .. TTL]
        /\ index[u].left \in 0 .. TTL
    BY DEF IInv, StoresOK
  <2>2. CASE index[u].left = 0
    BY <2>1, <2>2
  <2>3. CASE index[u].left = 1
    BY <2>1, <2>3, AccountsAssumption DEF NoIndex
  <2>4. CASE index[u].left # 0 /\ index[u].left # 1
    <3>1. PICK left \in 0 .. TTL : left = index[u].left - 1
      BY <2>1, <2>4, AccountsAssumption
    <3>2. entry(u) = [index[u] EXCEPT !.left = left]
      BY <2>4, <3>1
    <3> QED BY <2>1, <3>1, <3>2
  <2> QED BY <2>2, <2>3, <2>4
<1>7. index' = [u \in Users |-> entry(u)]
  BY DEF Tick
<1> HIDE DEF entry
<1>8. /\ index' \in [Users -> [members : SUBSET (1 .. nextSession - 1), left : 0 .. TTL]]
      /\ \A u \in Users : index'[u].members \subseteq index[u].members
  BY <1>6, <1>7
<1>9. StoresOK' /\ Grows
  BY <1>1, <1>3, <1>4, <1>5, <1>8, SessionStores DEF IInv
<1>10. Fewer
  BY <1>3, <1>4, <1>8 DEF Fewer
<1>11. \A v \in Workers : RecordOK(worker[v])'
  <2> SUFFICES ASSUME NEW v \in Workers PROVE RecordOK(worker[v])'
    OBVIOUS
  <2> QED BY <1>1, <1>9, OthersKeep
<1>12. worker' \in [Workers -> RequestType]
  BY <1>1 DEF IInv, RequestsOK
<1> QED BY <1>1, <1>9, <1>10, <1>11, <1>12 DEF IInv, RequestsOK

\* IInv is inductive, and every step grows.
LEMMA StepInv == IInv /\ [Next]_vars => IInv' /\ Grows
<1> SUFFICES ASSUME IInv, [Next]_vars PROVE IInv' /\ Grows
  OBVIOUS
<1>1. ASSUME NEW w \in Workers, Request(w) PROVE IInv' /\ Grows
  <2>1. CASE Register(w)
    BY <2>1, RegisterStep, Keeps
  <2>2. CASE \/ ResendVerification(w) \/ StartPasswordReset(w) \/ VerifyEmail(w)
             \/ CompletePasswordReset(w) \/ Login(w) \/ ReadSession(w)
    <3>1. UNCHANGED stores /\ Moves(w) /\ RecordOK(worker[w])'
      BY <2>2, EntersStep
    <3>2. StoresOK' /\ Grows
      BY <3>1, Same DEF IInv
    <3> QED BY <3>1, <3>2, Keeps
  <2> QED BY <1>1, <2>1, <2>2 DEF Request
<1>2. ASSUME NEW w \in Workers, Continue(w) PROVE IInv' /\ Grows
  <2>1. CASE TokenInvalidate(w) \/ TokenCreate(w) \/ Mail(w)
    BY <2>1, TokenInvalidateStep, TokenCreateStep, MailStep, Keeps
  <2>2. CASE MarkEmailVerified(w) \/ ResetPassword(w) \/ MarkConsumed(w)
    BY <2>2, MarkEmailVerifiedStep, ResetPasswordStep, MarkConsumedStep, Keeps
  <2>3. CASE SessionSet(w) \/ SessionAdd(w) \/ SessionExpire(w) \/ Touch(w)
    BY <2>3, SessionSetStep, SessionAddStep, SessionExpireStep, TouchStep, Keeps
  <2>4. CASE OtherRequest(w) \/ Logout(w) \/ UpdatePassword(w) \/ ChangePassword(w)
    BY <2>4, OtherRequestStep, LogoutStep, UpdatePasswordStep, ChangePasswordStep, Keeps
  <2>5. CASE DestroyList(w) \/ DestroyEach(w) \/ DestroyIndex(w)
    BY <2>5, DestroyListStep, DestroyEachStep, DestroyIndexStep, Keeps
  <2> QED BY <1>2, <2>1, <2>2, <2>3, <2>4, <2>5 DEF Continue
<1>3. ASSUME NEW w \in Workers, Abort(w) PROVE IInv' /\ Grows
  BY <1>3, AbortStep, Keeps
<1>4. CASE TokenExpires
  BY <1>4, TokenExpiresStep
<1>5. CASE Tick
  BY <1>5, TickStep
<1>6. CASE UNCHANGED vars
  <2>1. UNCHANGED stores /\ UNCHANGED worker
    BY <1>6 DEF vars, stores
  <2>2. StoresOK' /\ Grows
    BY <2>1, Same DEF IInv
  <2>3. \A v \in Workers : RecordOK(worker[v])'
    <3> SUFFICES ASSUME NEW v \in Workers PROVE RecordOK(worker[v])'
      OBVIOUS
    <3> QED BY <2>1, <2>2, OthersKeep
  <2>4. worker' \in [Workers -> RequestType]
    BY <2>1 DEF IInv, RequestsOK
  <2> QED BY <2>2, <2>3, <2>4 DEF IInv, RequestsOK
<1> QED BY <1>1, <1>2, <1>3, <1>4, <1>5, <1>6 DEF Next

LEMMA Invariance == Spec => []IInv
BY InitInv, StepInv, PTL DEF Spec

\* Failures are counted, up to their bound.
FaultsOK == faults \in 0 .. MaxFaults
Counted  == faults \in Nat /\ faults' \in Nat /\ faults <= faults'

LEMMA FaultsStep == FaultsOK /\ [Next]_vars => FaultsOK' /\ Counted
<1> SUFFICES ASSUME FaultsOK, [Next]_vars PROVE UNCHANGED faults \/ Fails
  BY AccountsAssumption DEF FaultsOK, Counted, Fails
<1>1. ASSUME NEW w \in Workers, Request(w) PROVE UNCHANGED faults
  BY <1>1 DEF Request, Register, ResendVerification, StartPasswordReset, Issue, VerifyEmail,
              CompletePasswordReset, FindByTokenHash, Login, ReadSession
<1>2. ASSUME NEW w \in Workers, Continue(w) PROVE UNCHANGED faults \/ Fails
  <2>1. CASE TokenInvalidate(w) \/ TokenCreate(w) \/ Mail(w) \/ MarkEmailVerified(w)
             \/ ResetPassword(w) \/ MarkConsumed(w)
    BY <2>1 DEF TokenInvalidate, TokenCreate, Mail, Send, MarkEmailVerified, ResetPassword,
                MarkConsumed
  <2>2. CASE SessionSet(w) \/ SessionAdd(w) \/ SessionExpire(w) \/ Touch(w)
             \/ OtherRequest(w) \/ Logout(w)
    BY <2>2 DEF SessionSet, SessionAdd, SessionExpire, Touch, OtherRequest, Logout
  <2>3. CASE UpdatePassword(w) \/ ChangePassword(w) \/ DestroyList(w) \/ DestroyEach(w)
             \/ DestroyIndex(w)
    BY <2>3 DEF UpdatePassword, ChangePassword, DestroyList, DestroyEach, DestroyIndex
  <2> QED BY <1>2, <2>1, <2>2, <2>3 DEF Continue
<1>3. ASSUME NEW w \in Workers, Abort(w) PROVE Fails
  BY <1>3 DEF Abort
<1>4. CASE TokenExpires \/ Tick \/ UNCHANGED vars
  BY <1>4 DEF TokenExpires, Tick, vars
<1> QED BY <1>1, <1>2, <1>3, <1>4 DEF Next

LEMMA FaultsInvariance == Spec => []FaultsOK
<1>1. Init => FaultsOK
  BY AccountsAssumption DEF Init, FaultsOK
<1> QED BY <1>1, FaultsStep, PTL DEF Spec

\* The stores and the requests have their types, whatever fails and however
\* many requests there are.
THEOREM AccountsTyped == Spec => []TypeOK
<1>1. IInv /\ FaultsOK => TypeOK
  BY DEF IInv, StoresOK, RequestsOK, FaultsOK, TypeOK
<1> QED BY <1>1, Invariance, FaultsInvariance, PTL

\* auth.go and session.go: what ended a session, ended it for good, also when
\* the middleware of a request that read it before is about to renew it.
THEOREM DeadSessionsStayDeadHolds == Spec => DeadSessionsStayDead
<1>1. IInv /\ [Next]_vars =>
          [\A s \in 1 .. nextSession - 1 : s \notin Sids => s \notin Sids']_vars
  <2> SUFFICES ASSUME IInv, [Next]_vars, NEW s \in 1 .. nextSession - 1, s \notin Sids
               PROVE  s \notin Sids'
    OBVIOUS
  <2>1. Sids' \subseteq Sids \cup {nextSession}
    BY StepInv DEF Grows
  <2>2. nextSession \in Nat /\ s # nextSession
    BY DEF IInv, StoresOK
  <2> QED BY <2>1, <2>2
<1> QED BY <1>1, Invariance, PTL DEF Spec, DeadSessionsStayDead

-----------------------------------------------------------------------------
(* What bounds the uses of a token, the live tokens and the sessions left  *)
(* after a password change: each failure adds at most one.                 *)

\* The calls that touch neither tokens nor the count of those at work on them.
Plain(w) ==
    \/ Mail(w)
    \/ SessionSet(w) \/ SessionAdd(w) \/ SessionExpire(w) \/ Touch(w)
    \/ OtherRequest(w) \/ Logout(w) \/ UpdatePassword(w) \/ ChangePassword(w)
    \/ DestroyList(w) \/ DestroyEach(w) \/ DestroyIndex(w)

TokenPCs == {"verify", "resetPassword", "consume", "tokenInvalidate", "tokenCreate"}

LEMMA PlainStep ==
    ASSUME IInv, NEW w \in Workers, Plain(w)
    PROVE  /\ UNCHANGED tokens /\ Moves(w)
           /\ worker[w].pc \notin TokenPCs /\ worker'[w].pc \notin TokenPCs
<1>1. CASE Mail(w)
  BY <1>1, ReturnMoves DEF Mail, TokenPCs
<1>2. CASE SessionSet(w)
  BY <1>2, SessionSetStep DEF SessionSet, TokenPCs
<1>3. CASE SessionAdd(w)
  BY <1>3, SessionAddStep DEF SessionAdd, TokenPCs
<1>4. CASE SessionExpire(w)
  BY <1>4, ReturnMoves DEF SessionExpire, TokenPCs
<1>5. CASE Touch(w)
  BY <1>5, TouchStep DEF Touch, TokenPCs
<1>6. CASE OtherRequest(w)
  BY <1>6, ReturnMoves DEF OtherRequest, TokenPCs, stores
<1>7. CASE Logout(w)
  BY <1>7, ReturnMoves DEF Logout, TokenPCs
<1>8. CASE UpdatePassword(w)
  BY <1>8, UpdatePasswordStep DEF TokenPCs, stores
<1>9. CASE ChangePassword(w)
  BY <1>9, ChangePasswordStep DEF ChangePassword, TokenPCs
<1>10. CASE DestroyList(w)
  BY <1>10, DestroyListStep DEF TokenPCs, stores
<1>11. CASE DestroyEach(w)
  BY <1>11, DestroyEachStep DEF DestroyEach, TokenPCs
<1>12. CASE DestroyIndex(w)
  BY <1>12, ReturnMoves DEF DestroyIndex, TokenPCs
<1> QED BY <1>1, <1>2, <1>3, <1>4, <1>5, <1>6, <1>7, <1>8, <1>9, <1>10, <1>11, <1>12 DEF Plain

\* The steps there are.
LEMMA Steps ==
    ASSUME [Next]_vars
    PROVE  \/ \E w \in Workers :
                \/ Register(w)
                \/ \/ ResendVerification(w) \/ StartPasswordReset(w) \/ VerifyEmail(w)
                   \/ CompletePasswordReset(w) \/ Login(w) \/ ReadSession(w)
                \/ TokenInvalidate(w) \/ TokenCreate(w)
                \/ MarkEmailVerified(w) \/ ResetPassword(w) \/ MarkConsumed(w)
                \/ Plain(w) \/ Abort(w)
           \/ TokenExpires \/ Tick \/ UNCHANGED vars
BY DEF Next, Request, Continue, Plain

\* The requests about to use a token, and those that have and must mark it.
Using(t)     == {v \in Workers : worker[v].pc \in {"verify", "resetPassword"} /\ worker[v].token = t}
Consuming(t) == {v \in Workers : worker[v].pc = "consume" /\ worker[v].token = t}

\* Every use so far and to come is some request's or follows a failure, and as
\* long as a token is live the requests that used it have not marked it yet, or
\* have failed to.
UsesOK ==
    \A t \in Tokens :
        /\ tokens[t].uses + Cardinality(Using(t)) <= Cardinality(Workers) + faults
        /\ tokens[t].state = "live" => tokens[t].uses <= Cardinality(Consuming(t)) + faults

LEMMA SomeWorkers ==
    ASSUME NEW S, S \subseteq Workers
    PROVE  /\ IsFiniteSet(S) /\ Cardinality(S) \in Nat
           /\ Cardinality(S) <= Cardinality(Workers) /\ Cardinality(Workers) \in Nat
<1>1. IsFiniteSet(Workers)
  BY AccountsAssumption
<1>2. IsFiniteSet(S) /\ Cardinality(S) <= Cardinality(Workers)
  BY <1>1, FS_Subset
<1> QED BY <1>1, <1>2, FS_CardinalityType

LEMMA Larger ==
    ASSUME NEW S, NEW T, S \subseteq T, T \subseteq Workers
    PROVE  /\ Cardinality(S) \in Nat /\ Cardinality(T) \in Nat
           /\ Cardinality(S) <= Cardinality(T)
<1>1. IsFiniteSet(T)
  BY SomeWorkers
<1>2. IsFiniteSet(S) /\ Cardinality(S) <= Cardinality(T)
  BY <1>1, FS_Subset
<1> QED BY <1>1, <1>2, FS_CardinalityType

\* A set of requests that loses at most one.
LEMMA OneLess ==
    ASSUME NEW S, NEW T, NEW w \in Workers, S \subseteq T \cup {w}, T \subseteq Workers, w \notin T
    PROVE  /\ Cardinality(S) \in Nat /\ Cardinality(T) \in Nat
           /\ Cardinality(S) <= Cardinality(T) + 1
<1>1. IsFiniteSet(T) /\ Cardinality(T) \in Nat
  BY SomeWorkers
<1>2. Cardinality(T \cup {w}) = Cardinality(T) + 1
  BY <1>1, FS_AddElement
<1>3. /\ Cardinality(S) \in Nat /\ Cardinality(S) <= Cardinality(T \cup {w})
  <2>1. T \cup {w} \subseteq Workers
    OBVIOUS
  <2> QED BY <2>1, Larger
<1> QED BY <1>1, <1>2, <1>3

\* A token whose uses and requests about to use it do not grow.
LEMMA UsesFrame ==
    ASSUME IInv, UsesOK, Counted, NEW t \in Tokens,
           tokens'[t].uses = tokens[t].uses,
           tokens'[t].state = "live" => tokens[t].state = "live",
           Using(t)' \subseteq Using(t),
           tokens'[t].state = "live" => Consuming(t) \subseteq Consuming(t)'
    PROVE  /\ tokens'[t].uses + Cardinality(Using(t)') <= Cardinality(Workers) + faults'
           /\ tokens'[t].state = "live" => tokens'[t].uses <= Cardinality(Consuming(t)') + faults'
<1>1. tokens[t].uses \in Nat
  BY AccountsAssumption DEF IInv, StoresOK, TokenRow
<1>2. /\ Cardinality(Using(t)') \in Nat /\ Cardinality(Using(t)) \in Nat
      /\ Cardinality(Using(t)') <= Cardinality(Using(t))
  <2>1. Using(t) \subseteq Workers
    BY DEF Using
  <2> QED BY <2>1, Larger
<1>3. Cardinality(Workers) \in Nat
  BY SomeWorkers
<1>4. tokens[t].uses + Cardinality(Using(t)) <= Cardinality(Workers) + faults
  BY DEF UsesOK
<1>5. tokens'[t].uses + Cardinality(Using(t)') <= Cardinality(Workers) + faults'
  BY <1>1, <1>2, <1>3, <1>4 DEF Counted
<1>6. ASSUME tokens'[t].state = "live" PROVE tokens'[t].uses <= Cardinality(Consuming(t)') + faults'
  <2>1. Consuming(t)' \subseteq Workers
    BY DEF Consuming
  <2>2. /\ Cardinality(Consuming(t)) \in Nat /\ Cardinality(Consuming(t)') \in Nat
        /\ Cardinality(Consuming(t)) <= Cardinality(Consuming(t)')
    BY <1>6, <2>1, Larger
  <2>3. tokens[t].uses <= Cardinality(Consuming(t)) + faults
    BY <1>6 DEF UsesOK
  <2> QED BY <1>1, <2>2, <2>3 DEF Counted
<1> QED BY <1>5, <1>6

\* The requests at work on a token that the one moving is not concerned with.
LEMMA OtherUsers ==
    ASSUME NEW w \in Workers, Moves(w), NEW t
    PROVE  /\ ~(worker'[w].pc \in {"verify", "resetPassword"} /\ worker'[w].token = t)
                  => Using(t)' \subseteq Using(t)
           /\ ~(worker[w].pc = "consume" /\ worker[w].token = t)
                  => Consuming(t) \subseteq Consuming(t)'
BY DEF Moves, Using, Consuming

\* A request takes a live token.
LEMMA UsesEnter ==
    ASSUME IInv, UsesOK, Counted, NEW w \in Workers, Moves(w), UNCHANGED tokens,
           worker[w].pc = "idle",
           worker'[w].pc \in {"verify", "resetPassword"} => tokens[worker'[w].token].state = "live"
    PROVE  UsesOK'
<1> SUFFICES ASSUME NEW t \in Tokens
             PROVE  /\ tokens[t].uses + Cardinality(Using(t)') <= Cardinality(Workers) + faults'
                    /\ tokens[t].state = "live" => tokens[t].uses <= Cardinality(Consuming(t)') + faults'
  BY DEF UsesOK, Tokens
<1>1. CASE ~(worker'[w].pc \in {"verify", "resetPassword"} /\ worker'[w].token = t)
  <2>1. Using(t)' \subseteq Using(t) /\ Consuming(t) \subseteq Consuming(t)'
    BY <1>1, OtherUsers
  <2> QED BY <2>1, UsesFrame
<1>2. CASE worker'[w].pc \in {"verify", "resetPassword"} /\ worker'[w].token = t
  <2>1. PICK U : U = Using(t)
    OBVIOUS
  <2>2. PICK C : C = Consuming(t)
    OBVIOUS
  <2>3. tokens[t].state = "live" /\ tokens[t].uses <= Cardinality(C) + faults
        /\ tokens[t].uses \in Nat
    BY <1>2, <2>2, AccountsAssumption DEF UsesOK, IInv, StoresOK, TokenRow
  <2>4. /\ U \subseteq Workers /\ C \subseteq Workers /\ U \cap C = {} /\ w \notin U \cup C
        /\ Using(t)' = U \cup {w}
        /\ C \subseteq Consuming(t)' /\ Consuming(t)' \subseteq Workers
    BY <1>2, <2>1, <2>2 DEF Using, Consuming, Moves
  <2>5. IsFiniteSet(U) /\ Cardinality(U) \in Nat /\ IsFiniteSet(C) /\ Cardinality(C) \in Nat
    BY <2>4, SomeWorkers
  <2>6. Cardinality(U \cup {w}) = Cardinality(U) + 1
    BY <2>4, <2>5, FS_AddElement
  <2>7. /\ IsFiniteSet(U \cup {w}) /\ (U \cup {w}) \cap C = {}
        /\ (U \cup {w}) \cup C \subseteq Workers
    BY <2>4, <2>5, FS_AddElement
  <2>8. Cardinality((U \cup {w}) \cup C) = Cardinality(U \cup {w}) + Cardinality(C)
    <3>1. Cardinality((U \cup {w}) \cap C) = 0
      BY <2>7, FS_EmptySet
    <3>2. Cardinality((U \cup {w}) \cup C)
            = Cardinality(U \cup {w}) + Cardinality(C) - Cardinality((U \cup {w}) \cap C)
      BY <2>5, <2>7, FS_Union
    <3> QED BY <2>5, <2>6, <3>1, <3>2
  <2>9. Cardinality((U \cup {w}) \cup C) <= Cardinality(Workers) /\ Cardinality(Workers) \in Nat
    BY <2>7, SomeWorkers
  <2>10. Cardinality(C) <= Cardinality(Consuming(t)') /\ Cardinality(Consuming(t)') \in Nat
    BY <2>4, Larger
  <2>11. tokens[t].uses + Cardinality(U \cup {w}) <= Cardinality(Workers) + faults'
    BY <2>3, <2>5, <2>6, <2>8, <2>9 DEF Counted
  <2>12. tokens[t].uses <= Cardinality(Consuming(t)') + faults'
    BY <2>3, <2>5, <2>10 DEF Counted
  <2> QED BY <2>4, <2>11, <2>12
<1> QED BY <1>1, <1>2

\* The effect of a token, and MarkConsumed to come.
LEMMA UsesUsed ==
    ASSUME IInv, UsesOK, Counted, NEW w \in Workers, Moves(w),
           worker[w].pc \in {"verify", "resetPassword"}, tokens' = Used(worker[w].token),
           worker'[w].pc = "consume", worker'[w].token = worker[w].token
    PROVE  UsesOK'
<1>1. PICK t : t = worker[w].token
  OBVIOUS
<1>2. t \in Tokens
  BY <1>1 DEF IInv, RequestsOK, RecordOK
<1>3. /\ Tokens' = Tokens /\ tokens' \in [Tokens -> TokenRow]
      /\ \A x \in Tokens : tokens'[x].state = tokens[x].state
      /\ \A x \in Tokens \ {t} : tokens'[x] = tokens[x]
      /\ tokens'[t].uses <= tokens[t].uses + 1
  BY <1>1, <1>2, UsedRow DEF IInv
<1>4. ASSUME NEW x \in Tokens \ {t}
      PROVE  /\ tokens'[x].uses + Cardinality(Using(x)') <= Cardinality(Workers) + faults'
             /\ tokens'[x].state = "live" => tokens'[x].uses <= Cardinality(Consuming(x)') + faults'
  <2>1. Using(x)' \subseteq Using(x) /\ Consuming(x) \subseteq Consuming(x)'
    BY <1>1, OtherUsers
  <2> QED BY <1>3, <2>1, UsesFrame
<1>5. /\ tokens'[t].uses + Cardinality(Using(t)') <= Cardinality(Workers) + faults'
      /\ tokens'[t].state = "live" => tokens'[t].uses <= Cardinality(Consuming(t)') + faults'
  <2>1. PICK U : U = Using(t)
    OBVIOUS
  <2>2. PICK C : C = Consuming(t)
    OBVIOUS
  <2>3. /\ U \subseteq Workers /\ C \subseteq Workers /\ w \in U /\ w \notin C
        /\ Using(t)' = U \ {w} /\ Consuming(t)' = C \cup {w}
    BY <1>1, <2>1, <2>2 DEF Using, Consuming, Moves
  <2>4. IsFiniteSet(U) /\ Cardinality(U) \in Nat /\ IsFiniteSet(C) /\ Cardinality(C) \in Nat
        /\ Cardinality(Workers) \in Nat
    BY <2>3, SomeWorkers
  <2>5. Cardinality(U \ {w}) = Cardinality(U) - 1
    BY <2>3, <2>4, FS_RemoveElement
  <2>6. Cardinality(C \cup {w}) = Cardinality(C) + 1
    BY <2>3, <2>4, FS_AddElement
  <2>7. /\ tokens[t].uses + Cardinality(U) <= Cardinality(Workers) + faults
        /\ tokens[t].state = "live" => tokens[t].uses <= Cardinality(C) + faults
    BY <1>2, <2>1, <2>2 DEF UsesOK
  <2>8. tokens[t].uses \in Nat /\ tokens'[t].uses \in Nat
    BY <1>2, <1>3, AccountsAssumption DEF IInv, StoresOK, TokenRow
  <2>9. tokens'[t].uses + Cardinality(U \ {w}) <= Cardinality(Workers) + faults'
    BY <1>3, <2>4, <2>5, <2>7, <2>8 DEF Counted
  <2>10. tokens'[t].state = "live" => tokens'[t].uses <= Cardinality(C \cup {w}) + faults'
    BY <1>2, <1>3, <2>4, <2>6, <2>7, <2>8 DEF Counted
  <2> QED BY <2>3, <2>9, <2>10
<1> QED BY <1>3, <1>4, <1>5 DEF UsesOK

LEMMA UsesConsumed ==
    ASSUME IInv, UsesOK, Counted, NEW w \in Workers, MarkConsumed(w)
    PROVE  UsesOK'
<1>1. PICK t : t = worker[w].token
  OBVIOUS
<1>2. t \in Tokens /\ worker[w].pc = "consume"
  BY <1>1 DEF MarkConsumed, IInv, RequestsOK, RecordOK
<1>3. /\ Tokens' = Tokens
      /\ \A x \in Tokens : tokens'[x].uses = tokens[x].uses
      /\ \A x \in Tokens \ {t} : tokens'[x] = tokens[x]
      /\ tokens'[t].state = "consumed"
  BY <1>1, <1>2, StateRow DEF MarkConsumed, IInv
<1>4. Moves(w) /\ worker'[w].pc \notin {"verify", "resetPassword"}
  <2>1. CASE Goto(w, "destroyList")
    BY <2>1, GotoMoves DEF PC
  <2>2. CASE Return(w)
    BY <2>2, ReturnMoves
  <2> QED BY <2>1, <2>2 DEF MarkConsumed
<1>5. ASSUME NEW x \in Tokens
      PROVE  /\ tokens'[x].uses + Cardinality(Using(x)') <= Cardinality(Workers) + faults'
             /\ tokens'[x].state = "live" => tokens'[x].uses <= Cardinality(Consuming(x)') + faults'
  <2>1. Using(x)' \subseteq Using(x)
    BY <1>4, OtherUsers
  <2>2. tokens'[x].state = "live" => tokens[x].state = "live" /\ Consuming(x) \subseteq Consuming(x)'
    BY <1>1, <1>3, <1>4, OtherUsers
  <2> QED BY <1>3, <2>1, <2>2, UsesFrame
<1> QED BY <1>3, <1>5 DEF UsesOK

LEMMA UsesCreated ==
    ASSUME IInv, UsesOK, Counted, NEW w \in Workers, TokenCreate(w)
    PROVE  UsesOK'
<1>1. PICK n : n = Cardinality(Tokens)
  OBVIOUS
<1>2. /\ Tokens' = Tokens \cup {n + 1} /\ n + 1 \notin Tokens
      /\ \A x \in Tokens : tokens'[x] = tokens[x]
  BY <1>1, TokenCreated
<1>3. tokens'[n + 1].uses = 0
  <2> DEFINE row == [user |-> worker[w].user, type |-> worker[w].type, state |-> "live", uses |-> 0]
  <2>1. row.uses = 0
    OBVIOUS
  <2> HIDE DEF row
  <2>2. tokens'[n + 1] = row
    BY <1>1, TokenCreated DEF row
  <2> QED BY <2>1, <2>2
<1>4. Moves(w) /\ worker[w].pc = "tokenCreate" /\ worker'[w].pc = "mail"
  BY TokenCreateStep
<1>5. ASSUME NEW x \in Tokens
      PROVE  /\ tokens'[x].uses + Cardinality(Using(x)') <= Cardinality(Workers) + faults'
             /\ tokens'[x].state = "live" => tokens'[x].uses <= Cardinality(Consuming(x)') + faults'
  <2>1. Using(x)' \subseteq Using(x) /\ Consuming(x) \subseteq Consuming(x)'
    BY <1>4, OtherUsers
  <2> QED BY <1>2, <2>1, UsesFrame
<1>6. Cardinality(Using(n + 1)') <= Cardinality(Workers) /\ Cardinality(Using(n + 1)') \in Nat
  <2>1. Using(n + 1)' \subseteq Workers
    BY DEF Using
  <2> QED BY <2>1, SomeWorkers
<1>7. Cardinality(Consuming(n + 1)') \in Nat /\ Cardinality(Workers) \in Nat
  <2>1. Consuming(n + 1)' \subseteq Workers
    BY DEF Consuming
  <2> QED BY <2>1, SomeWorkers
<1>8. /\ tokens'[n + 1].uses + Cardinality(Using(n + 1)') <= Cardinality(Workers) + faults'
      /\ tokens'[n + 1].uses <= Cardinality(Consuming(n + 1)') + faults'
  <2>1. 0 + Cardinality(Using(n + 1)') <= Cardinality(Workers) + faults'
    BY <1>6, <1>7 DEF Counted
  <2>2. 0 <= Cardinality(Consuming(n + 1)') + faults'
    BY <1>7 DEF Counted
  <2> QED BY <1>3, <2>1, <2>2
<1> QED BY <1>2, <1>5, <1>8 DEF UsesOK

\* A request that is killed takes its use with it, or leaves its token live.
LEMMA UsesAborted ==
    ASSUME IInv, UsesOK, Counted, NEW w \in Workers, Abort(w)
    PROVE  UsesOK'
<1>1. /\ Moves(w) /\ worker'[w].pc = "idle" /\ UNCHANGED tokens /\ Tokens' = Tokens
      /\ faults' = faults + 1
  BY ReturnMoves DEF Abort, Fails, stores, Tokens
<1> SUFFICES ASSUME NEW t \in Tokens
             PROVE  /\ tokens[t].uses + Cardinality(Using(t)') <= Cardinality(Workers) + faults'
                    /\ tokens[t].state = "live" => tokens[t].uses <= Cardinality(Consuming(t)') + faults'
  BY <1>1 DEF UsesOK
<1>2. tokens[t].uses \in Nat
  BY AccountsAssumption DEF IInv, StoresOK, TokenRow
<1>3. /\ Cardinality(Using(t)') \in Nat /\ Cardinality(Using(t)) \in Nat
      /\ Cardinality(Using(t)') <= Cardinality(Using(t))
  <2>1. Using(t)' \subseteq Using(t) /\ Using(t) \subseteq Workers
    BY <1>1, OtherUsers DEF Using
  <2> QED BY <2>1, Larger
<1>4. /\ Cardinality(Consuming(t)) \in Nat /\ Cardinality(Consuming(t)') \in Nat
      /\ Cardinality(Consuming(t)) <= Cardinality(Consuming(t)') + 1
  <2>1. /\ Consuming(t) \subseteq Consuming(t)' \cup {w} /\ Consuming(t)' \subseteq Workers
        /\ w \notin Consuming(t)'
    BY <1>1 DEF Moves, Consuming
  <2> QED BY <2>1, OneLess
<1>5. /\ tokens[t].uses + Cardinality(Using(t)) <= Cardinality(Workers) + faults
      /\ tokens[t].state = "live" => tokens[t].uses <= Cardinality(Consuming(t)) + faults
      /\ Cardinality(Workers) \in Nat
  <2>1. Cardinality(Workers) \in Nat
    BY SomeWorkers
  <2> QED BY <2>1 DEF UsesOK
<1> QED BY <1>1, <1>2, <1>3, <1>4, <1>5 DEF Counted

LEMMA UsesStep ==
    ASSUME FaultsOK, IInv, UsesOK, [Next]_vars
    PROVE  UsesOK'
<1> USE FaultsStep
<1>1. ASSUME NEW w \in Workers, Moves(w), Tokens' = Tokens,
             \A t \in Tokens : /\ tokens'[t].uses = tokens[t].uses
                               /\ tokens'[t].state = "live" => tokens[t].state = "live",
             worker[w].pc # "consume", worker'[w].pc \notin {"verify", "resetPassword"}
      PROVE  UsesOK'
  <2> SUFFICES ASSUME NEW t \in Tokens
               PROVE  /\ tokens'[t].uses + Cardinality(Using(t)') <= Cardinality(Workers) + faults'
                      /\ tokens'[t].state = "live" => tokens'[t].uses <= Cardinality(Consuming(t)') + faults'
    BY <1>1 DEF UsesOK
  <2>1. Using(t)' \subseteq Using(t) /\ Consuming(t) \subseteq Consuming(t)'
    BY <1>1, OtherUsers
  <2> QED BY <1>1, <2>1, UsesFrame
<1>2. ASSUME Tokens' = Tokens, UNCHANGED worker,
             \A t \in Tokens : /\ tokens'[t].uses = tokens[t].uses
                               /\ tokens'[t].state = "live" => tokens[t].state = "live"
      PROVE  UsesOK'
  <2> SUFFICES ASSUME NEW t \in Tokens
               PROVE  /\ tokens'[t].uses + Cardinality(Using(t)') <= Cardinality(Workers) + faults'
                      /\ tokens'[t].state = "live" => tokens'[t].uses <= Cardinality(Consuming(t)') + faults'
    BY <1>2 DEF UsesOK
  <2>1. Using(t)' \subseteq Using(t) /\ Consuming(t) \subseteq Consuming(t)'
    BY <1>2 DEF Using, Consuming
  <2> QED BY <1>2, <2>1, UsesFrame
<1>3. ASSUME NEW w \in Workers, Register(w) PROVE UsesOK'
  <2>1. UNCHANGED tokens /\ Tokens' = Tokens
    BY <1>3 DEF Register, Tokens
  <2> QED BY <1>1, <1>3, <2>1, RegisterStep
<1>4. ASSUME NEW w \in Workers,
             \/ ResendVerification(w) \/ StartPasswordReset(w) \/ VerifyEmail(w)
             \/ CompletePasswordReset(w) \/ Login(w) \/ ReadSession(w)
      PROVE  UsesOK'
  BY <1>4, EntersStep, UsesEnter DEF stores
<1>5. ASSUME NEW w \in Workers, TokenInvalidate(w) PROVE UsesOK'
  <2>1. Moves(w) /\ worker'[w].pc = "tokenCreate" /\ worker[w].pc = "tokenInvalidate"
    BY <1>5, GotoMoves DEF TokenInvalidate, PC
  <2>2. \/ tokens' = [t \in Tokens |-> IF t \in Live(worker[w].user, worker[w].type)
                                      THEN [tokens[t] EXCEPT !.state = "consumed"] ELSE tokens[t]]
        \/ UNCHANGED tokens
    BY <1>5 DEF TokenInvalidate
  <2>3. Tokens' = Tokens
    BY <2>2 DEF Tokens
  <2>4. \A t \in Tokens : tokens'[t] = tokens[t]
                          \/ (tokens'[t].uses = tokens[t].uses /\ tokens'[t].state = "consumed")
    BY <2>2 DEF IInv, StoresOK, TokenRow
  <2> QED BY <1>1, <2>1, <2>3, <2>4
<1>6. ASSUME NEW w \in Workers, MarkEmailVerified(w) PROVE UsesOK'
  <2>1. /\ Moves(w) /\ worker'[w].pc = "consume" /\ worker'[w].token = worker[w].token
    BY <1>6, GotoMoves DEF MarkEmailVerified, PC
  <2> QED BY <1>6, <2>1, UsesUsed DEF MarkEmailVerified
<1>7. ASSUME NEW w \in Workers, ResetPassword(w) PROVE UsesOK'
  <2>1. /\ Moves(w) /\ worker'[w].pc = "consume" /\ worker'[w].token = worker[w].token
    BY <1>7, GotoMoves DEF ResetPassword, PC
  <2> QED BY <1>7, <2>1, UsesUsed DEF ResetPassword
<1>8. ASSUME NEW w \in Workers, Plain(w) PROVE UsesOK'
  <2>1. Tokens' = Tokens /\ UNCHANGED tokens
    BY <1>8, PlainStep DEF Tokens
  <2> QED BY <1>1, <1>8, <2>1, PlainStep DEF TokenPCs
<1>9. CASE TokenExpires
  BY <1>2, <1>9, TokenExpiresStep
<1>10. CASE Tick \/ UNCHANGED vars
  <2>1. Tokens' = Tokens /\ UNCHANGED <<tokens, worker>>
    BY <1>10 DEF Tick, vars, Tokens
  <2> QED BY <1>2, <2>1
<1> QED BY <1>3, <1>4, <1>5, <1>6, <1>7, <1>8, <1>9, <1>10, UsesConsumed, UsesCreated, UsesAborted, Steps

\* auth.go: a token has its effect at most once per request goroutine, since a
\* request that found it live marks it consumed before it ends, and once more
\* for each failure that keeps a request from it.
THEOREM TokenUsesBoundedHolds == Spec => []TokenUsesBounded
<1>1. Init => UsesOK
  BY DEF Init, UsesOK, Tokens
<1>2. FaultsOK /\ IInv /\ UsesOK /\ [Next]_vars => UsesOK'
  BY UsesStep
<1>3. IInv /\ UsesOK /\ FaultsOK => TokenUsesBounded
  <2> SUFFICES ASSUME IInv, UsesOK, FaultsOK, NEW t \in Tokens
               PROVE  tokens[t].uses <= Cardinality(Workers) + faults
    BY DEF TokenUsesBounded
  <2>1. tokens[t].uses \in Nat /\ faults \in Nat
    BY AccountsAssumption DEF IInv, StoresOK, TokenRow, FaultsOK
  <2>2. Using(t) \subseteq Workers
    BY DEF Using
  <2>3. Cardinality(Using(t)) \in Nat /\ Cardinality(Workers) \in Nat
    BY <2>2, SomeWorkers
  <2>4. tokens[t].uses + Cardinality(Using(t)) <= Cardinality(Workers) + faults
    BY DEF UsesOK
  <2> QED BY <2>1, <2>3, <2>4
<1> QED BY <1>1, <1>2, <1>3, Invariance, FaultsInvariance, PTL DEF Spec

\* models.go:60: where requests run one at a time and nothing fails, a reset
\* token is indeed single-use; it takes two requests at once, or a failure, to
\* set the password twice with it.
THEOREM TokenUsedOnceHolds ==
    ASSUME MaxFaults = 0, Cardinality(Workers) = 1
    PROVE  Spec => []TokenUsedOnce
<1>1. TokenUsesBounded /\ FaultsOK => TokenUsedOnce
  BY DEF TokenUsesBounded, TokenUsedOnce, FaultsOK
<1> QED BY <1>1, TokenUsesBoundedHolds, FaultsInvariance, PTL

-----------------------------------------------------------------------------

\* The requests about to insert a token.
Creating(u, type) == {v \in Workers : /\ worker[v].pc = "tokenCreate"
                                      /\ worker[v].user = u /\ worker[v].type = type}

LiveOK ==
    \A u \in Users, type \in Types :
        Cardinality(Live(u, type)) + Cardinality(Creating(u, type)) <= Cardinality(Workers) + faults

LEMMA SomeTokens ==
    ASSUME IInv, NEW S, S \subseteq Tokens
    PROVE  IsFiniteSet(S) /\ Cardinality(S) \in Nat
<1>1. PICK n \in Nat : Tokens = 1 .. n
  BY DEF IInv, StoresOK
<1>2. IsFiniteSet(Tokens)
  <2>1. IsFiniteSet(1 .. n)
    BY <1>1, FS_Interval
  <2> QED BY <1>1, <2>1
<1>3. IsFiniteSet(S)
  BY <1>2, FS_Subset
<1> QED BY <1>3, FS_CardinalityType

\* Neither the live tokens nor the requests about to insert one grow.
LEMMA LiveFrame ==
    ASSUME IInv, LiveOK, Counted, NEW u \in Users, NEW type \in Types,
           Live(u, type)' \subseteq Live(u, type), Creating(u, type)' \subseteq Creating(u, type)
    PROVE  Cardinality(Live(u, type)') + Cardinality(Creating(u, type)') <= Cardinality(Workers) + faults'
<1>1. Live(u, type) \subseteq Tokens /\ Creating(u, type) \subseteq Workers
  BY DEF Live, Creating
<1>2. IsFiniteSet(Live(u, type)) /\ Cardinality(Live(u, type)) \in Nat
  BY <1>1, SomeTokens
<1>3. Live(u, type)' \subseteq Tokens
  BY <1>1
<1>4. Cardinality(Live(u, type)') \in Nat
  BY <1>3, SomeTokens
<1>5. Cardinality(Live(u, type)') <= Cardinality(Live(u, type))
  BY <1>2, FS_Subset
<1>6. /\ Cardinality(Creating(u, type)') \in Nat /\ Cardinality(Creating(u, type)) \in Nat
      /\ Cardinality(Creating(u, type)') <= Cardinality(Creating(u, type))
  BY <1>1, Larger
<1>7. Cardinality(Live(u, type)) + Cardinality(Creating(u, type)) <= Cardinality(Workers) + faults
  BY DEF LiveOK
<1>8. Cardinality(Workers) \in Nat
  BY SomeWorkers
<1> QED BY <1>2, <1>4, <1>5, <1>6, <1>7, <1>8 DEF Counted

\* No token is live, whatever requests are about to insert one.
LEMMA LiveNone ==
    ASSUME Counted, NEW u, NEW type, Live(u, type)' = {}
    PROVE  Cardinality(Live(u, type)') + Cardinality(Creating(u, type)') <= Cardinality(Workers) + faults'
<1>1. Cardinality(Live(u, type)') = 0
  BY FS_EmptySet
<1>2. Creating(u, type)' \subseteq Workers
  BY DEF Creating
<1>3. /\ Cardinality(Creating(u, type)') \in Nat /\ Cardinality(Workers) \in Nat
      /\ Cardinality(Creating(u, type)') <= Cardinality(Workers)
  BY <1>2, SomeWorkers
<1> QED BY <1>1, <1>3 DEF Counted

LEMMA OtherCreators ==
    ASSUME NEW w \in Workers, Moves(w), NEW u, NEW type,
           ~(worker'[w].pc = "tokenCreate" /\ worker'[w].user = u /\ worker'[w].type = type)
    PROVE  Creating(u, type)' \subseteq Creating(u, type)
BY DEF Moves, Creating

\* Tokens that do not come to life.
LEMMA LiveKept ==
    ASSUME Tokens' = Tokens, NEW u, NEW type,
           \A t \in Tokens : /\ tokens'[t].user = tokens[t].user
                             /\ tokens'[t].type = tokens[t].type
                             /\ tokens'[t].state = "live" => tokens[t].state = "live"
    PROVE  Live(u, type)' \subseteq Live(u, type)
BY DEF Live

\* The request comes to insert a token without having consumed the others.
LEMMA LiveNotInvalidated ==
    ASSUME IInv, LiveOK, Counted, NEW w \in Workers, Moves(w), worker[w].pc # "tokenCreate",
           UNCHANGED tokens, Fails
    PROVE  LiveOK'
<1> SUFFICES ASSUME NEW u \in Users, NEW type \in Types
             PROVE  Cardinality(Live(u, type)') + Cardinality(Creating(u, type)')
                        <= Cardinality(Workers) + faults'
  BY DEF LiveOK
<1>1. Live(u, type)' = Live(u, type) /\ Live(u, type) \subseteq Tokens
  BY DEF Live, Tokens
<1>2. Cardinality(Live(u, type)) \in Nat
  BY <1>1, SomeTokens
<1>3. /\ Cardinality(Creating(u, type)') \in Nat /\ Cardinality(Creating(u, type)) \in Nat
      /\ Cardinality(Creating(u, type)') <= Cardinality(Creating(u, type)) + 1
  <2>1. /\ Creating(u, type)' \subseteq Creating(u, type) \cup {w}
        /\ Creating(u, type) \subseteq Workers /\ w \notin Creating(u, type)
    BY DEF Moves, Creating
  <2> QED BY <2>1, OneLess
<1>4. /\ Cardinality(Live(u, type)) + Cardinality(Creating(u, type)) <= Cardinality(Workers) + faults
      /\ Cardinality(Workers) \in Nat
  <2>1. Cardinality(Workers) \in Nat
    BY SomeWorkers
  <2> QED BY <2>1 DEF LiveOK
<1>5. faults' = faults + 1 /\ faults \in Nat
  BY DEF Fails, Counted
<1> QED BY <1>1, <1>2, <1>3, <1>4, <1>5

LEMMA LiveInvalidated ==
    ASSUME IInv, LiveOK, Counted, NEW w \in Workers, TokenInvalidate(w)
    PROVE  LiveOK'
<1>1. /\ Moves(w) /\ worker'[w].pc = "tokenCreate" /\ worker[w].pc = "tokenInvalidate"
      /\ worker'[w].user = worker[w].user /\ worker'[w].type = worker[w].type
  BY GotoMoves DEF TokenInvalidate, PC
<1> SUFFICES ASSUME tokens' = [t \in Tokens |-> IF t \in Live(worker[w].user, worker[w].type)
                                               THEN [tokens[t] EXCEPT !.state = "consumed"] ELSE tokens[t]]
             PROVE  LiveOK'
  BY <1>1, LiveNotInvalidated DEF TokenInvalidate
<1>2. tokens' = [t \in Tokens |-> IF t \in Live(worker[w].user, worker[w].type)
                                 THEN [tokens[t] EXCEPT !.state = "consumed"] ELSE tokens[t]]
  OBVIOUS
<1>3. Tokens' = Tokens
  BY <1>2 DEF Tokens
<1>4. ASSUME NEW t \in Tokens
      PROVE  /\ tokens'[t].user = tokens[t].user /\ tokens'[t].type = tokens[t].type
             /\ tokens'[t].state = "live" => tokens[t].state = "live"
             /\ t \in Live(worker[w].user, worker[w].type) => tokens'[t].state = "consumed"
  BY <1>2 DEF IInv, StoresOK, TokenRow
<1> SUFFICES ASSUME NEW u \in Users, NEW type \in Types
             PROVE  Cardinality(Live(u, type)') + Cardinality(Creating(u, type)')
                        <= Cardinality(Workers) + faults'
  BY DEF LiveOK
<1>5. Live(u, type)' \subseteq Live(u, type)
  BY <1>3, <1>4, LiveKept
<1>6. CASE u = worker[w].user /\ type = worker[w].type
  <2>1. Live(u, type)' = {}
    BY <1>3, <1>4, <1>5, <1>6 DEF Live
  <2> QED BY <2>1, LiveNone
<1>7. CASE ~(u = worker[w].user /\ type = worker[w].type)
  <2>1. Creating(u, type)' \subseteq Creating(u, type)
    BY <1>1, <1>7, OtherCreators
  <2> QED BY <1>5, <2>1, LiveFrame
<1> QED BY <1>6, <1>7

LEMMA LiveCreated ==
    ASSUME IInv, LiveOK, Counted, NEW w \in Workers, TokenCreate(w)
    PROVE  LiveOK'
<1>1. PICK n : n = Cardinality(Tokens)
  OBVIOUS
<1>2. /\ Tokens' = Tokens \cup {n + 1} /\ n + 1 \notin Tokens
      /\ \A x \in Tokens : tokens'[x] = tokens[x]
  BY <1>1, TokenCreated
<1>3. tokens'[n + 1].user = worker[w].user /\ tokens'[n + 1].type = worker[w].type
  <2> DEFINE row == [user |-> worker[w].user, type |-> worker[w].type, state |-> "live", uses |-> 0]
  <2>1. row.user = worker[w].user /\ row.type = worker[w].type
    OBVIOUS
  <2> HIDE DEF row
  <2>2. tokens'[n + 1] = row
    BY <1>1, TokenCreated DEF row
  <2> QED BY <2>1, <2>2
<1>4. Moves(w) /\ worker[w].pc = "tokenCreate" /\ worker'[w].pc = "mail"
  BY TokenCreateStep
<1> SUFFICES ASSUME NEW u \in Users, NEW type \in Types
             PROVE  Cardinality(Live(u, type)') + Cardinality(Creating(u, type)')
                        <= Cardinality(Workers) + faults'
  BY DEF LiveOK
<1>5. CASE ~(u = worker[w].user /\ type = worker[w].type)
  <2>1. Live(u, type)' \subseteq Live(u, type)
    BY <1>2, <1>3, <1>5 DEF Live
  <2>2. Creating(u, type)' \subseteq Creating(u, type)
    BY <1>4, OtherCreators
  <2> QED BY <2>1, <2>2, LiveFrame
<1>6. CASE u = worker[w].user /\ type = worker[w].type
  <2>1. PICK L : L = Live(u, type)
    OBVIOUS
  <2>2. PICK C : C = Creating(u, type)
    OBVIOUS
  <2>3. /\ L \subseteq Tokens /\ C \subseteq Workers /\ w \in C
        /\ Creating(u, type)' = C \ {w} /\ n + 1 \notin L
        /\ Live(u, type)' \subseteq L \cup {n + 1}
    BY <1>2, <1>4, <1>6, <2>1, <2>2 DEF Live, Creating, Moves
  <2>4. IsFiniteSet(L) /\ Cardinality(L) \in Nat
    BY <2>3, SomeTokens
  <2>5. IsFiniteSet(C) /\ Cardinality(C) \in Nat /\ Cardinality(Workers) \in Nat
    BY <2>3, SomeWorkers
  <2>6. Cardinality(L \cup {n + 1}) = Cardinality(L) + 1 /\ IsFiniteSet(L \cup {n + 1})
    BY <2>3, <2>4, FS_AddElement
  <2>7. Cardinality(C \ {w}) = Cardinality(C) - 1
    BY <2>3, <2>5, FS_RemoveElement
  <2>8. /\ Cardinality(Live(u, type)') <= Cardinality(L) + 1
        /\ Cardinality(Live(u, type)') \in Nat
    <3>1. IsFiniteSet(Live(u, type)') /\ Cardinality(Live(u, type)') <= Cardinality(L \cup {n + 1})
      BY <2>3, <2>6, FS_Subset
    <3> QED BY <2>6, <3>1, FS_CardinalityType
  <2>9. Cardinality(L) + Cardinality(C) <= Cardinality(Workers) + faults
    BY <2>1, <2>2 DEF LiveOK
  <2>10. Cardinality(Live(u, type)') + Cardinality(C \ {w}) <= Cardinality(Workers) + faults'
    BY <2>4, <2>5, <2>7, <2>8, <2>9 DEF Counted
  <2> QED BY <2>3, <2>10
<1> QED BY <1>5, <1>6

LEMMA LiveRegistered ==
    ASSUME IInv, LiveOK, Counted, NEW w \in Workers, Register(w)
    PROVE  LiveOK'
<1>1. UNCHANGED tokens /\ Tokens' = Tokens
  BY DEF Register, Tokens
<1>2. Moves(w) /\ account[worker'[w].user] = "none"
  BY RegisterStep
<1> SUFFICES ASSUME NEW u \in Users, NEW type \in Types
             PROVE  Cardinality(Live(u, type)') + Cardinality(Creating(u, type)')
                        <= Cardinality(Workers) + faults'
  BY DEF LiveOK
<1>3. Live(u, type)' = Live(u, type)
  BY <1>1 DEF Live
<1>4. CASE u = worker'[w].user
  <2>1. Live(u, type) = {}
    BY <1>2, <1>4 DEF Live, IInv, StoresOK
  <2> QED BY <1>3, <2>1, LiveNone
<1>5. CASE u # worker'[w].user
  <2>1. Creating(u, type)' \subseteq Creating(u, type)
    BY <1>2, <1>5, OtherCreators
  <2> QED BY <1>3, <2>1, LiveFrame
<1> QED BY <1>4, <1>5

LEMMA LiveStep ==
    ASSUME FaultsOK, IInv, LiveOK, [Next]_vars
    PROVE  LiveOK'
<1> USE FaultsStep
<1>1. ASSUME NEW w \in Workers, Moves(w), Tokens' = Tokens, worker'[w].pc # "tokenCreate",
             \A t \in Tokens : /\ tokens'[t].user = tokens[t].user
                               /\ tokens'[t].type = tokens[t].type
                               /\ tokens'[t].state = "live" => tokens[t].state = "live"
      PROVE  LiveOK'
  <2> SUFFICES ASSUME NEW u \in Users, NEW type \in Types
               PROVE  Cardinality(Live(u, type)') + Cardinality(Creating(u, type)')
                          <= Cardinality(Workers) + faults'
    BY DEF LiveOK
  <2>1. Live(u, type)' \subseteq Live(u, type)
    BY <1>1, LiveKept
  <2>2. Creating(u, type)' \subseteq Creating(u, type)
    BY <1>1, OtherCreators
  <2> QED BY <2>1, <2>2, LiveFrame
<1>2. ASSUME Tokens' = Tokens, UNCHANGED worker,
             \A t \in Tokens : /\ tokens'[t].user = tokens[t].user
                               /\ tokens'[t].type = tokens[t].type
                               /\ tokens'[t].state = "live" => tokens[t].state = "live"
      PROVE  LiveOK'
  <2> SUFFICES ASSUME NEW u \in Users, NEW type \in Types
               PROVE  Cardinality(Live(u, type)') + Cardinality(Creating(u, type)')
                          <= Cardinality(Workers) + faults'
    BY DEF LiveOK
  <2>1. Live(u, type)' \subseteq Live(u, type)
    BY <1>2, LiveKept
  <2>2. Creating(u, type)' \subseteq Creating(u, type)
    BY <1>2 DEF Creating
  <2> QED BY <2>1, <2>2, LiveFrame
<1>3. ASSUME NEW w \in Workers,
             \/ ResendVerification(w) \/ StartPasswordReset(w) \/ VerifyEmail(w)
             \/ CompletePasswordReset(w) \/ Login(w) \/ ReadSession(w)
      PROVE  LiveOK'
  <2>1. UNCHANGED tokens /\ Tokens' = Tokens
    BY <1>3, EntersStep DEF stores, Tokens
  <2> QED BY <1>1, <1>3, <2>1, EntersStep
<1>4. ASSUME NEW w \in Workers, MarkEmailVerified(w) \/ ResetPassword(w) PROVE LiveOK'
  <2>1. Moves(w) /\ worker'[w].pc = "consume"
    BY <1>4, GotoMoves DEF MarkEmailVerified, ResetPassword, PC
  <2>2. worker[w].token \in Tokens /\ tokens' = Used(worker[w].token)
    BY <1>4 DEF MarkEmailVerified, ResetPassword, IInv, RequestsOK, RecordOK
  <2>3. /\ Tokens' = Tokens
        /\ \A x \in Tokens : /\ tokens'[x].user = tokens[x].user
                             /\ tokens'[x].type = tokens[x].type
                             /\ tokens'[x].state = tokens[x].state
    BY <2>2, UsedRow DEF IInv
  <2> QED BY <1>1, <2>1, <2>3
<1>5. ASSUME NEW w \in Workers, MarkConsumed(w) PROVE LiveOK'
  <2>1. Moves(w) /\ worker'[w].pc # "tokenCreate"
    <3>1. CASE Goto(w, "destroyList")
      BY <3>1, GotoMoves DEF PC
    <3>2. CASE Return(w)
      BY <3>2, ReturnMoves
    <3> QED BY <1>5, <3>1, <3>2 DEF MarkConsumed
  <2>2. PICK t \in Tokens : tokens' = [tokens EXCEPT ![t].state = "consumed"]
    BY <1>5 DEF MarkConsumed, IInv, RequestsOK, RecordOK
  <2>3. /\ Tokens' = Tokens
        /\ \A x \in Tokens : /\ tokens'[x].user = tokens[x].user
                             /\ tokens'[x].type = tokens[x].type
        /\ \A x \in Tokens \ {t} : tokens'[x] = tokens[x]
        /\ tokens'[t].state = "consumed"
    BY <2>2, StateRow DEF IInv
  <2> QED BY <1>1, <2>1, <2>3
<1>6. ASSUME NEW w \in Workers, Plain(w) PROVE LiveOK'
  <2>1. Tokens' = Tokens /\ UNCHANGED tokens
    BY <1>6, PlainStep DEF Tokens
  <2> QED BY <1>1, <1>6, <2>1, PlainStep DEF TokenPCs
<1>7. CASE TokenExpires
  BY <1>2, <1>7, TokenExpiresStep
<1>8. CASE Tick \/ UNCHANGED vars
  <2>1. Tokens' = Tokens /\ UNCHANGED <<tokens, worker>>
    BY <1>8 DEF Tick, vars, Tokens
  <2> QED BY <1>2, <2>1
<1>9. ASSUME NEW w \in Workers, Abort(w) PROVE LiveOK'
  <2>1. Tokens' = Tokens /\ UNCHANGED tokens
    BY <1>9 DEF Abort, stores, Tokens
  <2>2. Moves(w) /\ worker'[w].pc = "idle"
    BY <1>9, ReturnMoves DEF Abort
  <2> QED BY <1>1, <2>1, <2>2
<1> QED BY <1>3, <1>4, <1>5, <1>6, <1>7, <1>8, <1>9, LiveRegistered, LiveInvalidated, LiveCreated, Steps

\* email_verifications.go: InvalidateType and Create are two statements, and the
\* error of the first is ignored, yet a user has at most one live token of a type
\* per request goroutine, and one more for each failure.
THEOREM LiveTokensBoundedHolds == Spec => []LiveTokensBounded
<1>1. Init => LiveOK
  <2> SUFFICES ASSUME Init, NEW u \in Users, NEW type \in Types
               PROVE  Cardinality(Live(u, type)) + Cardinality(Creating(u, type))
                          <= Cardinality(Workers) + faults
    BY DEF LiveOK
  <2>1. Live(u, type) = {} /\ Creating(u, type) = {}
    BY IdleType DEF Init, Tokens, Live, Creating
  <2>2. Cardinality(Workers) \in Nat
    BY SomeWorkers
  <2>3. Cardinality({}) = 0
    BY FS_EmptySet
  <2>4. faults = 0
    BY DEF Init
  <2> QED BY <2>1, <2>2, <2>3, <2>4
<1>2. FaultsOK /\ IInv /\ LiveOK /\ [Next]_vars => LiveOK'
  BY LiveStep
<1>3. FaultsOK /\ IInv /\ LiveOK => LiveTokensBounded
  <2> SUFFICES ASSUME FaultsOK, IInv, LiveOK, NEW u \in Users, NEW type \in Types
               PROVE  Cardinality(Live(u, type)) <= Cardinality(Workers) + faults
    BY DEF LiveTokensBounded, Types
  <2>1. Live(u, type) \subseteq Tokens /\ Creating(u, type) \subseteq Workers
    BY DEF Live, Creating
  <2>2. Cardinality(Live(u, type)) \in Nat
    BY <2>1, SomeTokens
  <2>3. Cardinality(Creating(u, type)) \in Nat /\ Cardinality(Workers) \in Nat
    BY <2>1, SomeWorkers
  <2>4. Cardinality(Live(u, type)) + Cardinality(Creating(u, type)) <= Cardinality(Workers) + faults
    BY DEF LiveOK
  <2>5. faults \in Nat
    BY AccountsAssumption DEF FaultsOK
  <2> QED BY <2>2, <2>3, <2>4, <2>5
<1> QED BY <1>1, <1>2, <1>3, Invariance, FaultsInvariance, PTL DEF Spec

-----------------------------------------------------------------------------

\* A request that will still destroy session s of user u, or has it in its list.
Destroys(v, u, s) ==
    /\ worker[v].user = u
    /\ \/ worker[v].pc = "consume" /\ tokens[worker[v].token].type = "reset"
       \/ worker[v].pc = "destroyList"
       \/ worker[v].pc = "destroyEach" /\ s \in worker[v].todo

\* What IndexedSessionsDie says of one session.
DieOK(s) ==
    LET u == sessions[s].user
    IN  s \in index[u].members =>
            version[u] - sessions[s].known <= Cardinality(Destroyers(u, s)) + faults

LEMMA Destroyer ==
    ASSUME NEW v, NEW u, NEW s
    PROVE  /\ v \in Destroyers(u, s) <=> v \in Workers /\ Destroys(v, u, s)
           /\ v \in Destroyers(u, s)' <=> v \in Workers /\ Destroys(v, u, s)'
           /\ Destroyers(u, s) \subseteq Workers /\ Destroyers(u, s)' \subseteq Workers
BY DEF Destroyers, Destroys

LEMMA OthersDestroy ==
    ASSUME IInv, Grows, NEW v \in Workers, worker'[v] = worker[v], NEW u, NEW s, Destroys(v, u, s)
    PROVE  Destroys(v, u, s)'
BY DEF IInv, RequestsOK, RecordOK, Grows, Destroys

\* The requests that another than w keeps.
LEMMA OthersStay ==
    ASSUME IInv, Grows, NEW w \in Workers, Moves(w), NEW u, NEW s
    PROVE  Destroyers(u, s) \ {w} \subseteq Destroyers(u, s)'
BY OthersDestroy, Destroyer DEF Moves

\* The bound on a session of before: the requests that destroy it stay, but for
\* one that a failure keeps from it, and a new password has a new one.
LEMMA DieFrame ==
    ASSUME IInv, IndexedSessionsDie, Grows, Counted, NEW w \in Workers, Moves(w), NEW s \in Sids,
           version' \in [Users -> Nat],
           sessions'[s].user = sessions[s].user, sessions'[s].known = sessions[s].known,
           LET u == sessions[s].user
           IN  /\ s \in index'[u].members => s \in index[u].members
               /\ \/ /\ version'[u] = version[u]
                     /\ Destroys(w, u, s) => Destroys(w, u, s)' \/ faults' = faults + 1
                  \/ /\ version'[u] = version[u] + 1
                     /\ ~Destroys(w, u, s) /\ Destroys(w, u, s)'
    PROVE  DieOK(s)'
<1>1. PICK u : u = sessions[s].user
  OBVIOUS
<1>2. u \in Users /\ sessions[s].known \in Nat /\ version[u] \in Nat /\ version'[u] \in Nat
  BY <1>1 DEF IInv, StoresOK, SessionData
<1> SUFFICES ASSUME s \in index'[u].members
             PROVE  version'[u] - sessions[s].known <= Cardinality(Destroyers(u, s)') + faults'
  BY <1>1 DEF DieOK
<1>3. PICK D : D = Destroyers(u, s)
  OBVIOUS
<1>4. PICK E : E = Destroyers(u, s)'
  OBVIOUS
<1>5. version[u] - sessions[s].known <= Cardinality(D) + faults
  BY <1>1, <1>3 DEF IndexedSessionsDie
<1>6. /\ D \ {w} \subseteq E /\ D \subseteq Workers /\ E \subseteq Workers
      /\ w \in D <=> Destroys(w, u, s)
      /\ w \in E <=> Destroys(w, u, s)'
  BY <1>3, <1>4, OthersStay, Destroyer
<1>7. Cardinality(D) \in Nat /\ Cardinality(E) \in Nat
  BY <1>6, SomeWorkers
<1>8. CASE version'[u] = version[u] /\ (w \in D => w \in E)
  <2>1. Cardinality(D) <= Cardinality(E)
    <3>1. D \subseteq E
      BY <1>6, <1>8
    <3> QED BY <1>6, <3>1, Larger
  <2> QED BY <1>2, <1>4, <1>5, <1>7, <1>8, <2>1 DEF Counted
<1>9. CASE version'[u] = version[u] /\ w \notin E /\ faults' = faults + 1
  <2>1. Cardinality(D) <= Cardinality(E) + 1
    BY <1>6, <1>9, OneLess
  <2> QED BY <1>2, <1>4, <1>5, <1>7, <1>9, <2>1 DEF Counted
<1>10. CASE version'[u] = version[u] + 1 /\ w \notin D /\ w \in E
  <2>1. IsFiniteSet(D)
    BY <1>6, SomeWorkers
  <2>2. Cardinality(D \cup {w}) = Cardinality(D) + 1
    BY <1>10, <2>1, FS_AddElement
  <2>3. Cardinality(D \cup {w}) <= Cardinality(E)
    <3>1. D \cup {w} \subseteq E
      BY <1>6, <1>10
    <3> QED BY <1>6, <3>1, Larger
  <2> QED BY <1>2, <1>4, <1>5, <1>7, <1>10, <2>2, <2>3 DEF Counted
<1> QED BY <1>1, <1>6, <1>8, <1>9, <1>10

LEMMA SameFewer == UNCHANGED <<sessions, index>> => Fewer
BY DEF Fewer, Sids

\* A request moves and no session and no index entry is added: it goes on
\* destroying what it had to destroy unless it fails, and a new password comes
\* with a request to destroy the sessions of before.
LEMMA DieWorks ==
    ASSUME IInv, IndexedSessionsDie, Grows, Counted, NEW w \in Workers, Moves(w), Fewer,
           version' \in [Users -> Nat],
           \A s \in Sids' :
              LET u == sessions[s].user
              IN  \/ /\ version'[u] = version[u]
                     /\ Destroys(w, u, s) => Destroys(w, u, s)' \/ faults' = faults + 1
                  \/ /\ version'[u] = version[u] + 1
                     /\ ~Destroys(w, u, s) /\ Destroys(w, u, s)'
    PROVE  IndexedSessionsDie'
<1> SUFFICES ASSUME NEW s \in Sids' PROVE DieOK(s)'
  BY DEF DieOK, IndexedSessionsDie
<1>1. s \in Sids /\ sessions'[s].user = sessions[s].user /\ sessions'[s].known = sessions[s].known
  BY DEF Fewer
<1>2. index'[sessions[s].user].members \subseteq index[sessions[s].user].members
  <2>1. sessions[s].user \in Users
    BY <1>1 DEF IInv, StoresOK, SessionData
  <2> QED BY <2>1 DEF Fewer
<1>3. s \in index'[sessions[s].user].members => s \in index[sessions[s].user].members
  BY <1>2
<1> QED BY <1>1, <1>3, DieFrame

\* The requests that have no session to destroy.
LEMMA NotFresh ==
    ASSUME NEW w \in Workers, worker[w].pc \notin {"consume", "destroyList", "destroyEach"}
    PROVE  \A u, s : ~Destroys(w, u, s)
BY DEF Destroys

\* A request that had no session to destroy moves.
LEMMA DieFewer ==
    ASSUME IInv, IndexedSessionsDie, Grows, Counted, NEW w \in Workers, Moves(w), Fewer,
           version' \in [Users -> Nat],
           \A s \in Sids : version'[sessions[s].user] = version[sessions[s].user],
           worker[w].pc \notin {"consume", "destroyList", "destroyEach"}
    PROVE  IndexedSessionsDie'
<1>1. \A u, s : ~Destroys(w, u, s)
  BY NotFresh
<1>2. \A s \in Sids' : version'[sessions[s].user] = version[sessions[s].user]
  BY DEF Fewer
<1> QED BY <1>1, <1>2, DieWorks

\* A request moves, and no password is set.
LEMMA DieGoes ==
    ASSUME IInv, IndexedSessionsDie, Grows, Counted, NEW w \in Workers, Moves(w), Fewer,
           UNCHANGED version,
           \A s \in Sids' : Destroys(w, sessions[s].user, s) => Destroys(w, sessions[s].user, s)'
                                                                \/ faults' = faults + 1
    PROVE  IndexedSessionsDie'
<1>1. version' \in [Users -> Nat]
  BY DEF IInv, StoresOK
<1> QED BY <1>1, DieWorks

\* No request moves.
LEMMA DieStill ==
    ASSUME IInv, IndexedSessionsDie, Grows, Counted, UNCHANGED <<version, worker>>, Fewer
    PROVE  IndexedSessionsDie'
<1>1. PICK w \in Workers : TRUE
  BY AccountsAssumption
<1>2. Moves(w)
  BY DEF Moves, IInv, RequestsOK
<1>3. ASSUME NEW s \in Sids', Destroys(w, sessions[s].user, s)
      PROVE  Destroys(w, sessions[s].user, s)'
  <2>1. PICK u : u = sessions[s].user
    OBVIOUS
  <2>2. sessions'[s].user = u
    BY <2>1 DEF Fewer
  <2>3. Destroys(w, u, s)'
    BY <1>3, <2>1, OthersDestroy
  <2> QED BY <2>2, <2>3
<1> QED BY <1>2, <1>3, DieGoes

\* A new password, and the request that set it.
LEMMA DieChanged ==
    ASSUME IInv, IndexedSessionsDie, Grows, Counted, NEW w \in Workers, Moves(w),
           UNCHANGED <<sessions, index>>, worker[w].user \in Users,
           version' = [version EXCEPT ![worker[w].user] = version[worker[w].user] + 1],
           worker[w].pc \notin {"consume", "destroyList", "destroyEach"},
           worker'[w].user = worker[w].user,
           \/ worker'[w].pc = "destroyList"
           \/ worker'[w].pc = "consume" /\ tokens'[worker'[w].token].type = "reset"
    PROVE  IndexedSessionsDie'
<1>1. Fewer
  BY SameFewer
<1>2. version \in [Users -> Nat] /\ version' \in [Users -> Nat]
  BY DEF IInv, StoresOK
<1>3. ASSUME NEW s \in Sids'
      PROVE  LET u == sessions[s].user
             IN  \/ version'[u] = version[u] /\ ~Destroys(w, u, s)
                 \/ version'[u] = version[u] + 1 /\ ~Destroys(w, u, s) /\ Destroys(w, u, s)'
  <2>1. \A u : ~Destroys(w, u, s)
    BY NotFresh
  <2>2. sessions[s].user \in Users
    BY <1>1 DEF Fewer, IInv, StoresOK, SessionData
  <2>3. CASE sessions[s].user = worker[w].user
    <3>1. Destroys(w, sessions[s].user, s)'
      BY <2>3 DEF Destroys
    <3>2. version'[sessions[s].user] = version[sessions[s].user] + 1
      BY <1>2, <2>2, <2>3
    <3> QED BY <2>1, <3>1, <3>2
  <2>4. CASE sessions[s].user # worker[w].user
    BY <1>2, <2>1, <2>2, <2>4
  <2> QED BY <2>3, <2>4
<1> QED BY <1>1, <1>2, <1>3, DieWorks

LEMMA DieSet ==
    ASSUME IInv, IndexedSessionsDie, Counted, NEW w \in Workers, SessionSet(w)
    PROVE  IndexedSessionsDie'
<1>1. /\ Grows /\ Moves(w) /\ worker[w].pc = "sessionSet"
      /\ Sids' = Sids \cup {nextSession}
      /\ \A s \in Sids : sessions'[s] = sessions[s]
  BY SessionSetStep
<1>2. UNCHANGED <<version, index>> /\ version' \in [Users -> Nat]
  BY DEF SessionSet, IInv, StoresOK
<1> SUFFICES ASSUME NEW s \in Sids', s \in index'[sessions'[s].user].members
             PROVE  DieOK(s)'
  BY DEF DieOK, IndexedSessionsDie
<1>3. s # nextSession
  <2>1. sessions'[s].user \in Users
    BY SessionSetStep DEF StoresOK, SessionData
  <2>2. index[sessions'[s].user].members \subseteq 1 .. nextSession - 1 /\ nextSession \in Nat
    BY <2>1 DEF IInv, StoresOK
  <2> QED BY <1>2, <2>2
<1>4. s \in Sids /\ sessions'[s] = sessions[s]
  BY <1>1, <1>3
<1>5. ~Destroys(w, sessions[s].user, s)
  BY <1>1, NotFresh
<1> QED BY <1>1, <1>2, <1>4, <1>5, DieFrame

LEMMA DieAdded ==
    ASSUME IInv, IndexedSessionsDie, Counted, NEW w \in Workers, SessionAdd(w)
    PROVE  IndexedSessionsDie'
<1>1. Grows /\ Moves(w) /\ worker[w].pc = "sessionAdd"
  BY SessionAddStep
<1>2. UNCHANGED version /\ version \in [Users -> Nat] /\ version' \in [Users -> Nat]
  BY DEF SessionAdd, IInv, StoresOK
<1>3. worker[w].user \in Users /\ \A u, s : ~Destroys(w, u, s)
  BY <1>1, NotFresh DEF IInv, RequestsOK, RecordOK
<1>4. CASE UNCHANGED <<sessions, index>>
  BY <1>1, <1>2, <1>3, <1>4, SameFewer, DieGoes
<1>5. CASE SessionAdded(w)
  <2> SUFFICES ASSUME NEW s \in Sids' PROVE DieOK(s)'
    BY DEF DieOK, IndexedSessionsDie
  <2>1. /\ s \in Sids /\ sessions'[s].user = sessions[s].user /\ sessions[s].user \in Users
        /\ index \in [Users -> [members : SUBSET (1 .. nextSession - 1), left : 0 .. TTL]]
    BY <1>5 DEF SessionAdded, IInv, StoresOK, SessionData
  <2>2. CASE s # worker[w].session
    <3>1. sessions'[s] = sessions[s]
      BY <1>5, <2>1, <2>2 DEF SessionAdded
    <3>2. s \in index'[sessions[s].user].members => s \in index[sessions[s].user].members
      BY <1>3, <1>5, <2>1, <2>2 DEF SessionAdded
    <3> QED BY <1>1, <1>2, <1>3, <2>1, <3>1, <3>2, DieFrame
  <2>3. CASE s = worker[w].session
    <3>1. sessions[s].user = worker[w].user
      BY <1>1, <2>1, <2>3 DEF IInv, RequestsOK, RecordOK
    <3>2. PICK n \in Nat : n = version[worker[w].user]
      BY <1>2, <1>3
    <3>3. PICK u : u = worker[w].user
      OBVIOUS
    <3>4. sessions'[s].known = n /\ sessions'[s].user = u /\ version'[u] = n
      BY <1>2, <1>5, <2>1, <2>3, <3>1, <3>2, <3>3 DEF SessionAdded
    <3>5. Destroyers(u, s)' \subseteq Workers
      BY DEF Destroyers
    <3>6. Cardinality(Destroyers(u, s)') \in Nat
      BY <3>5, SomeWorkers
    <3>7. n - n <= Cardinality(Destroyers(u, s)') + faults'
      BY <3>6 DEF Counted
    <3> QED BY <3>4, <3>7 DEF DieOK
  <2> QED BY <2>2, <2>3
<1> QED BY <1>4, <1>5, SessionAddStep

LEMMA DieConsumed ==
    ASSUME IInv, IndexedSessionsDie, Counted, NEW w \in Workers, MarkConsumed(w)
    PROVE  IndexedSessionsDie'
<1>1. Grows /\ Moves(w)
  BY MarkConsumedStep
<1>2. UNCHANGED <<version, sessions, index>> /\ Fewer
  BY SameFewer DEF MarkConsumed
<1>3. ASSUME NEW s \in Sids', Destroys(w, sessions[s].user, s)
      PROVE  Destroys(w, sessions[s].user, s)'
  <2>1. worker[w].pc = "consume" /\ tokens[worker[w].token].type = "reset"
    BY <1>3 DEF Destroys, MarkConsumed
  <2>2. worker'[w].pc = "destroyList" /\ worker'[w].user = worker[w].user
    BY <2>1, GotoMoves DEF MarkConsumed, PC
  <2> QED BY <1>2, <1>3, <2>2 DEF Destroys
<1> QED BY <1>1, <1>2, <1>3, DieGoes

\* What the index does not list needs no request; the rest is in the list.
LEMMA DieListed ==
    ASSUME IInv, IndexedSessionsDie, Counted, NEW w \in Workers, DestroyList(w)
    PROVE  IndexedSessionsDie'
<1>1. /\ Grows /\ Moves(w) /\ worker[w].pc = "destroyList"
      /\ \/ faults' = faults + 1
         \/ /\ worker'[w].pc = "destroyEach" /\ worker'[w].user = worker[w].user
            /\ worker'[w].todo = index[worker[w].user].members
  BY DestroyListStep DEF Fails
<1>2. UNCHANGED <<version, sessions, index>> /\ version' \in [Users -> Nat] /\ Sids' = Sids
  BY DEF DestroyList, stores, IInv, StoresOK, Sids
<1> SUFFICES ASSUME NEW s \in Sids, s \in index[sessions[s].user].members PROVE DieOK(s)'
  BY <1>2 DEF DieOK, IndexedSessionsDie
<1>3. Destroys(w, sessions[s].user, s) => Destroys(w, sessions[s].user, s)' \/ faults' = faults + 1
  BY <1>1, <1>2 DEF Destroys
<1> QED BY <1>1, <1>2, <1>3, DieFrame

LEMMA DieEach ==
    ASSUME IInv, IndexedSessionsDie, Counted, NEW w \in Workers, DestroyEach(w)
    PROVE  IndexedSessionsDie'
<1>1. /\ Grows /\ Moves(w) /\ Fewer
      /\ worker[w].pc = "destroyEach" /\ worker'[w].pc = "destroyEach"
      /\ worker'[w].user = worker[w].user
      /\ \/ \A s \in Sids' : s \in worker[w].todo => s \in worker'[w].todo
         \/ faults' = faults + 1
  BY DestroyEachStep DEF Fails
<1>2. UNCHANGED version
  BY DEF DestroyEach
<1>3. \A s \in Sids' : Destroys(w, sessions[s].user, s) => Destroys(w, sessions[s].user, s)'
                                                           \/ faults' = faults + 1
  BY <1>1 DEF Destroys, Fewer
<1> QED BY <1>1, <1>2, <1>3, DieGoes

LEMMA DieIndexed ==
    ASSUME IInv, IndexedSessionsDie, Counted, NEW w \in Workers, DestroyIndex(w)
    PROVE  IndexedSessionsDie'
<1>1. /\ Grows /\ Moves(w) /\ Fewer
      /\ worker[w].pc = "destroyEach" /\ worker[w].todo = {}
  BY DestroyIndexStep
<1>2. UNCHANGED version
  BY DEF DestroyIndex
<1>3. \A s \in Sids' : ~Destroys(w, sessions[s].user, s)
  BY <1>1 DEF Destroys
<1> QED BY <1>1, <1>2, <1>3, DieGoes

\* A request that is killed leaves its sessions, and is counted.
LEMMA DieAborted ==
    ASSUME IInv, IndexedSessionsDie, Counted, NEW w \in Workers, Abort(w)
    PROVE  IndexedSessionsDie'
<1>1. Grows /\ Moves(w) /\ UNCHANGED stores /\ faults' = faults + 1
  BY AbortStep DEF Fails
<1> QED BY <1>1, SameFewer, DieGoes DEF stores

LEMMA DieStep ==
    ASSUME FaultsOK, IInv, IndexedSessionsDie, [Next]_vars
    PROVE  IndexedSessionsDie'
<1> DEFINE Fresh == {"consume", "destroyList", "destroyEach"}
<1>1. Grows /\ Counted /\ version' \in [Users -> Nat]
  BY StepInv, FaultsStep DEF IInv, StoresOK
<1>2. ASSUME NEW w \in Workers, Register(w) PROVE IndexedSessionsDie'
  <2>1. Moves(w) /\ worker[w].pc = "idle" /\ account[worker'[w].user] = "none"
        /\ \A u \in Users : u # worker'[w].user => version'[u] = version[u]
    BY <1>2, RegisterStep
  <2>2. \A s \in Sids : version'[sessions[s].user] = version[sessions[s].user]
    <3> SUFFICES ASSUME NEW s \in Sids PROVE version'[sessions[s].user] = version[sessions[s].user]
      OBVIOUS
    <3>1. sessions[s].user \in Users /\ account[sessions[s].user] # "none"
      BY DEF IInv, StoresOK, SessionData
    <3> QED BY <2>1, <3>1
  <2>3. Fewer
    BY <1>2, SameFewer DEF Register
  <2> QED BY <1>1, <2>1, <2>2, <2>3, DieFewer
<1>3. ASSUME NEW w \in Workers,
             \/ ResendVerification(w) \/ StartPasswordReset(w) \/ VerifyEmail(w)
             \/ CompletePasswordReset(w) \/ Login(w) \/ ReadSession(w)
      PROVE  IndexedSessionsDie'
  <2>1. UNCHANGED <<version, sessions, index>> /\ Moves(w) /\ worker[w].pc = "idle"
    BY <1>3, EntersStep DEF stores
  <2> QED BY <1>1, <2>1, SameFewer, DieFewer
<1>4. ASSUME NEW w \in Workers, TokenInvalidate(w) \/ TokenCreate(w) \/ MarkEmailVerified(w)
      PROVE  IndexedSessionsDie'
  <2>1. UNCHANGED <<version, sessions, index>> /\ Moves(w) /\ worker[w].pc \notin Fresh
    BY <1>4, TokenInvalidateStep, TokenCreateStep, MarkEmailVerifiedStep
       DEF TokenInvalidate, TokenCreate, MarkEmailVerified
  <2> QED BY <1>1, <2>1, SameFewer, DieFewer
<1>5. ASSUME NEW w \in Workers, ResetPassword(w) PROVE IndexedSessionsDie'
  <2>1. /\ Moves(w) /\ worker'[w].pc = "consume" /\ worker'[w].token = worker[w].token
        /\ worker'[w].user = worker[w].user /\ worker[w].pc = "resetPassword"
        /\ worker[w].user \in Users
    BY <1>5, GotoMoves DEF ResetPassword, PC, IInv, RequestsOK, RecordOK
  <2>2. tokens'[worker'[w].token].type = "reset"
    <3>1. worker[w].token \in Tokens /\ tokens[worker[w].token].type = "reset"
      BY <2>1 DEF IInv, RequestsOK, RecordOK
    <3> QED BY <1>1, <2>1, <3>1 DEF Grows
  <2>3. /\ UNCHANGED <<sessions, index>>
        /\ version' = [version EXCEPT ![worker[w].user] = version[worker[w].user] + 1]
    BY <1>5 DEF ResetPassword, HashPassword
  <2> QED BY <1>1, <2>1, <2>2, <2>3, DieChanged
<1>6. ASSUME NEW w \in Workers, ChangePassword(w) PROVE IndexedSessionsDie'
  <2>1. /\ UNCHANGED <<sessions, index>>
        /\ version' = [version EXCEPT ![worker[w].user] = version[worker[w].user] + 1]
    BY <1>6 DEF ChangePassword, HashPassword
  <2>2. /\ Moves(w) /\ worker'[w].pc = "destroyList" /\ worker[w].pc = "changePassword"
        /\ worker'[w].user = worker[w].user /\ worker[w].user \in Users
    BY <1>6, ChangePasswordStep DEF IInv, RequestsOK, RecordOK
  <2> QED BY <1>1, <2>1, <2>2, DieChanged
<1>7. ASSUME NEW w \in Workers,
             \/ Mail(w) \/ SessionExpire(w) \/ Touch(w) \/ OtherRequest(w) \/ Logout(w)
             \/ UpdatePassword(w)
      PROVE  IndexedSessionsDie'
  <2>1. Moves(w) /\ UNCHANGED version /\ worker[w].pc \notin Fresh
    BY <1>7, MailStep, SessionExpireStep, TouchStep, OtherRequestStep, LogoutStep, UpdatePasswordStep
       DEF Mail, SessionExpire, Touch, OtherRequest, Logout, UpdatePassword, stores
  <2>2. Fewer
    <3>1. CASE SessionExpire(w) \/ Touch(w) \/ Logout(w)
      BY <3>1, SessionExpireStep, TouchStep, LogoutStep
    <3>2. CASE Mail(w) \/ OtherRequest(w) \/ UpdatePassword(w)
      BY <3>2, SameFewer DEF Mail, OtherRequest, UpdatePassword, stores
    <3> QED BY <1>7, <3>1, <3>2
  <2> QED BY <1>1, <2>1, <2>2, DieFewer
<1>8. ASSUME NEW w \in Workers, Plain(w) PROVE IndexedSessionsDie'
  BY <1>1, <1>6, <1>7, <1>8, DieSet, DieAdded, DieListed, DieEach, DieIndexed DEF Plain
<1>9. CASE TokenExpires
  <2>1. UNCHANGED <<version, sessions, index, worker>>
    BY <1>9 DEF TokenExpires
  <2> QED BY <1>1, <2>1, SameFewer, DieStill
<1>10. CASE Tick
  BY <1>1, <1>10, TickStep, DieStill
<1>11. CASE UNCHANGED vars
  <2>1. UNCHANGED <<version, sessions, index, worker>>
    BY <1>11 DEF vars
  <2> QED BY <1>1, <2>1, SameFewer, DieStill
<1> QED BY <1>1, <1>2, <1>3, <1>4, <1>5, <1>8, <1>9, <1>10, <1>11, DieConsumed, DieAborted, Steps

\* auth.go:191 and settings.go:76 as far as they hold: a session that its user's
\* index lists since before a password change is about to be destroyed, however
\* many requests log in, log out and change passwords, unless a failure stopped
\* the request.
THEOREM IndexedSessionsDieHolds == Spec => []IndexedSessionsDie
<1>1. Init => IndexedSessionsDie
  BY DEF Init, IndexedSessionsDie, Sids
<1>2. FaultsOK /\ IInv /\ IndexedSessionsDie /\ [Next]_vars => IndexedSessionsDie'
  BY DieStep
<1> QED BY <1>1, <1>2, Invariance, FaultsInvariance, PTL DEF Spec
=============================================================================
