--------------------------- MODULE KeyRingProofs ----------------------------
(***************************************************************************)
(* Facts about the key ring that the proofs of ApiKeys and Hosted share.   *)
(***************************************************************************)
EXTENDS KeyRing, TLAPS

(* Revoking keeps a key's name and space, and the result is a key.         *)
LEMMA RevokedKeeps ==
  ASSUME NEW key \in Key, NEW t \in 1..MaxTime
  PROVE  /\ Revoked(key, t) \in Key
         /\ Revoked(key, t).name = key.name
         /\ Revoked(key, t).space = key.space
         /\ Revoked(key, t).revoked_at \in 1..MaxTime
         /\ key.revoked_at # Never => Revoked(key, t) = key
BY KeyRingAssumption DEF Revoked, Key, Never

(* A new key is a key, NoKey is none.                                      *)
LEMMA NewKeyIsKey ==
  /\ NoKey \notin Key
  /\ \A name \in Labels, space \in ValidSpaces :
       /\ NewKey(name, space) \in Key
       /\ NewKey(name, space).name = name
       /\ NewKey(name, space).space = space
       /\ NewKey(name, space).revoked_at = Never
BY KeyRingAssumption DEF NewKey, Key, Never

(* In the ring a row is never taken back, moved or renamed, and its first  *)
(* revocation stays.                                                       *)
LEMMA RingStepSticks ==
  ASSUME RingTypeOK, [RingNext]_ringVars, NEW id \in KeyIds, keys[id] # NoKey
  PROVE  /\ keys'[id] # NoKey
         /\ keys'[id].name = keys[id].name
         /\ keys'[id].space = keys[id].space
         /\ keys[id].revoked_at # Never => keys'[id] = keys[id]
<1>1. keys[id] \in Key
  BY DEF RingTypeOK
<1>2. ASSUME NEW i \in KeyIds, NEW name \in Labels, NEW space \in Spaces, Create(i, name, space)
      PROVE  keys'[id] = keys[id]
  BY <1>2 DEF Create, RingTypeOK
<1>3. ASSUME NEW i \in KeyIds, NEW t \in 1..MaxTime, Revoke(i, t)
      PROVE  keys'[id] = keys[id] \/ keys'[id] = Revoked(keys[id], t)
  BY <1>3 DEF Revoke, RingTypeOK
<1> QED BY <1>1, <1>2, <1>3, RevokedKeeps, NewKeyIsKey DEF RingNext, ringVars

(* A step of the ring keeps the shape of both tables.                      *)
LEMMA RingStepTyped ==
  ASSUME RingTypeOK, [RingNext]_ringVars
  PROVE  RingTypeOK'
<1>1. ASSUME NEW i \in KeyIds, NEW name \in Labels, NEW space \in Spaces, Create(i, name, space)
      PROVE  RingTypeOK'
  BY <1>1, NewKeyIsKey DEF Create, ValidateSpaceName, RingTypeOK
<1>2. ASSUME NEW i \in KeyIds, NEW t \in 1..MaxTime, Revoke(i, t)
      PROVE  RingTypeOK'
  BY <1>2, RevokedKeeps DEF Revoke, RingTypeOK
<1> QED BY <1>1, <1>2 DEF RingNext, ringVars, RingTypeOK

(* Every row keeps the shape of the schema, and a key only ever unlocks a  *)
(* space whose name ValidateSpaceName accepts: it is safe as a file name.  *)
THEOREM RingTypeCorrect == RingSpec => []RingTypeOK
<1>1. RingInit => RingTypeOK
  BY DEF RingInit, RingTypeOK
<1> QED BY <1>1, RingStepTyped, PTL DEF RingSpec
=============================================================================
