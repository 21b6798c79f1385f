------------------------------ MODULE KeyRing -------------------------------
(***************************************************************************)
(* The key ring of hosted mode as its users see it: keys that each unlock  *)
(* one memory space, minted and revoked in ONE step, and the identity a    *)
(* token resolves to. ApiKeys implements it with transactions on keys.db;  *)
(* Hosted serves requests with it.                                         *)
(*                                                                         *)
(* A token is told apart by the key it was minted with: 32 random bytes,   *)
(* stored only as a hash, so the token of key k IS k here.                 *)
(***************************************************************************)
EXTENDS Naturals

CONSTANTS
  KeyIds,       \* ids of api_keys rows, and the tokens minted with them
  Labels,       \* key names, not empty: they become the source of memories
  Spaces,       \* what an admin may type as --space
  ValidSpaces,  \* those ValidateSpaceName accepts: they are file names
  MaxTime,      \* bound: clock readings
  NoKey         \* no such row

ASSUME KeyRingAssumption ==
  /\ ValidSpaces \subseteq Spaces
  /\ MaxTime \in Nat \ {0}
  /\ NoKey \notin [name : Labels, space : ValidSpaces, revoked_at : 0..MaxTime]

VARIABLES
  spaces,  \* rows of the table spaces
  keys     \* [KeyIds -> row of api_keys, or NoKey]

ringVars == <<spaces, keys>>

Never == 0

Key == [name : Labels, space : ValidSpaces, revoked_at : 0..MaxTime]

RingTypeOK ==
  /\ spaces \subseteq ValidSpaces
  /\ keys \in [KeyIds -> Key \cup {NoKey}]

ValidateSpaceName(space) == space \in ValidSpaces

NewKey(name, space) == [name |-> name, space |-> space, revoked_at |-> Never]

(* A plausible mistake: the last revocation's timestamp wins.              *)
Revoked_Again(key, now) == [key EXCEPT !.revoked_at = now]

(* Revoking is idempotent: the first timestamp sticks.                     *)
Revoked(key, now) ==
  IF key.revoked_at = Never THEN [key EXCEPT !.revoked_at = now] ELSE key

(* A plausible mistake: a key that exists is good.                         *)
Active_Known(token) ==
  /\ token \in KeyIds
  /\ keys[token] # NoKey

(* Authenticate: an unknown token and a revoked one fail alike.            *)
Active(token) ==
  /\ token \in KeyIds
  /\ keys[token] # NoKey
  /\ keys[token].revoked_at = Never

RingInit ==
  /\ spaces = {}
  /\ keys = [id \in KeyIds |-> NoKey]

(* The space of a key exists from the moment its first key does.           *)
Create(id, name, space) ==
  /\ ValidateSpaceName(space)
  /\ keys[id] = NoKey
  /\ keys' = [keys EXCEPT ![id] = NewKey(name, space)]
  /\ spaces' = spaces \cup {space}

Revoke(id, now) ==
  /\ keys[id] # NoKey
  /\ keys' = [keys EXCEPT ![id] = Revoked(@, now)]
  /\ UNCHANGED spaces

RingNext ==
  \E id \in KeyIds :
    \/ \E name \in Labels, space \in Spaces : Create(id, name, space)
    \/ \E now \in 1..MaxTime : Revoke(id, now)

RingSpec == RingInit /\ [][RingNext]_ringVars
=============================================================================
