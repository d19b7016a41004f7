------------------------------- MODULE ApiKeys --------------------------------
(***************************************************************************)
(* API keys (internal/service/api_keys.go, repository/api_keys.go): table  *)
(* api_keys and its statements.  A secret is as good as the id of its row, *)
(* for only the row whose hash it has can be found by it.  last_used_at,   *)
(* which nothing reads but the page that shows it, is left out, and with   *)
(* it the update of it that Resolve ends with.                             *)
(***************************************************************************)
EXTENDS Integers, FiniteSets

CONSTANTS
    Users,
    Scopes,     \* scopes other than "*" a key can be given
    MaxKeys     \* bound on the keys ever created

ASSUME KeysAssumption == MaxKeys \in Nat /\ "*" \notin Scopes

VARIABLES
    keys,       \* table api_keys: live key id -> [user, scopes]
    nextKey     \* the id the next key gets; ids are never used again

keysVars == <<keys, nextKey>>

KeyId   == Nat \ {0}
KeyRow  == [user : Users, scopes : (SUBSET (Scopes \cup {"*"})) \ {{}}]
Issued  == 1 .. nextKey - 1
Deleted == Issued \ DOMAIN keys

\* What a caller may ask for; without scopes a key gets all of them.
Granted(asked) == IF asked = {} THEN {"*"} ELSE asked

KeyCreate(u, asked) ==
    /\ keys' = [k \in DOMAIN keys \cup {nextKey} |->
                    IF k = nextKey THEN [user |-> u, scopes |-> Granted(asked)] ELSE keys[k]]
    /\ nextKey' = nextKey + 1

KeyDeleteAnyUser(u, k) ==
    /\ keys' = [x \in DOMAIN keys \ {k} |-> keys[x]]
    /\ UNCHANGED nextKey

\* DELETE ... WHERE id AND user_id; no such row is ErrNotFound.
KeyDelete(u, k) ==
    /\ keys' = [x \in {y \in DOMAIN keys : y # k \/ keys[y].user # u} |-> keys[x]]
    /\ UNCHANGED nextKey

\* Resolve, by the hash of the secret.
Resolvable(k) == k \in DOMAIN keys

\* RequireScope, for a request by key.
HasScope(scopes, required) == "*" \in scopes \/ required \in scopes

KeysInit == keys = [k \in {} |-> 0] /\ nextKey = 1

\* Rows have their columns, and ids that were given out.
KeysTypeOK ==
    /\ nextKey \in KeyId
    /\ DOMAIN keys \subseteq Issued
    /\ keys \in [DOMAIN keys -> KeyRow]
=============================================================================
