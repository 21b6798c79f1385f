--------------------------- MODULE ApiKeysProofs ----------------------------
(***************************************************************************)
(* Theorems about ApiKeys: for any number of admins, keys, spaces and      *)
(* clock readings. The inductive invariant says what a pending command     *)
(* knows about the key it is about to save (PendingOK) and what the draft  *)
(* is like before each statement (DraftOK).                                *)
(***************************************************************************)
EXTENDS ApiKeys, KeyRingProofs

Pending(a) == cmd[a].pc # "idle"

(* A create's id is its own; a loaded revocation is one of the row.        *)
Knows(a) ==
  /\ cmd[a].op \in {"create", "revoke"}
  /\ cmd[a].id \in KeyIds
  /\ cmd[a].reply = "none"
  /\ cmd[a].op = "create" =>
       /\ cmd[a].pc # "load"
       /\ keys[cmd[a].id] = NoKey
       /\ cmd[a].key \in Key
       /\ cmd[a].key = NewKey(cmd[a].key.name, cmd[a].key.space)
       /\ \A b \in Admins \ {a} : Pending(b) /\ cmd[b].op = "create" => cmd[b].id # cmd[a].id
  /\ cmd[a].op = "revoke" /\ cmd[a].pc \in {"space", "key", "commit"} =>
       /\ keys[cmd[a].id] # NoKey
       /\ \E t \in 1..MaxTime : cmd[a].key = Revoked(keys[cmd[a].id], t)

PendingOK == \A a \in Admins : Pending(a) => Knows(a)

WithSpace(a) == [Committed EXCEPT !.spaces = @ \cup {cmd[a].key.space}]

WithKey(a) == [WithSpace(a) EXCEPT !.keys = [keys EXCEPT ![cmd[a].id] = cmd[a].key]]

DraftOf(a) ==
  /\ cmd[a].pc \in {"load", "space"} => draft = Committed
  /\ cmd[a].pc = "key" => draft = WithSpace(a)
  /\ cmd[a].pc = "commit" => draft = WithKey(a)

DraftOK == \A a \in Admins : DraftOf(a)

IInv == TypeOK /\ SpacesHaveKeys /\ PendingOK /\ DraftOK

-----------------------------------------------------------------------------
(* A step of one admin that leaves the tables alone does not disturb what  *)
(* the others know.                                                        *)
LEMMA OthersKeep ==
  ASSUME IInv, NEW a \in Admins, UNCHANGED <<spaces, keys>>,
         \A b \in Admins \ {a} : cmd'[b] = cmd[b],
         draft' = draft \/ \A b \in Admins \ {a} : ~InTx(b),
         DraftOf(a)'
  PROVE  SpacesHaveKeys' /\ DraftOK'
<1>1. SpacesHaveKeys'
  BY DEF IInv, SpacesHaveKeys
<1>2. ASSUME NEW b \in Admins \ {a}
      PROVE  DraftOf(b)'
  <2>1. CASE draft' = draft
    <3>1. Committed' = Committed /\ cmd'[b] = cmd[b]
      BY DEF Committed
    <3>2. WithSpace(b)' = WithSpace(b)
      BY <3>1 DEF WithSpace
    <3>3. WithKey(b)' = WithKey(b)
      BY <3>1, <3>2 DEF WithKey
    <3> QED BY <2>1, <3>1, <3>2, <3>3 DEF IInv, DraftOK, DraftOf
  <2>2. CASE ~InTx(b)
    BY <2>2 DEF DraftOf, InTx
  <2> QED BY <2>1, <2>2
<1> QED BY <1>1, <1>2 DEF DraftOK

LEMMA OneTransaction ==
  ASSUME TypeOK, NEW a \in Admins, NEW b \in Admins, InTx(a), InTx(b)
  PROVE  a = b
BY DEF TypeOK

LEMMA InitOK == Init => IInv
BY KeyRingAssumption, AdminsAssumption
   DEF Init, RingInit, IInv, TypeOK, RingTypeOK, Database, Command, EmptyDraft, Idle, InTx,
       SpacesHaveKeys, PendingOK, DraftOK, DraftOf, Pending

-----------------------------------------------------------------------------
(* Steps that change only what admins hold in memory.                      *)
LEMMA CreateKeyOK ==
  ASSUME IInv, NEW a \in Admins, NEW i \in KeyIds, NEW name \in Labels, NEW space \in Spaces,
         CreateKey(a, i, name, space)
  PROVE  IInv'
<1> USE DEF CreateKey, ValidateSpaceName, IInv
<1>1. TypeOK'
  BY NewKeyIsKey DEF TypeOK, RingTypeOK, Database, Command, InTx
<1>2. DraftOf(a)'
  BY DEF DraftOf, TypeOK, Command
<1>3. PendingOK'
  BY NewKeyIsKey DEF PendingOK, Knows, Pending, TypeOK, Command
<1>4. SpacesHaveKeys' /\ DraftOK'
  BY <1>2, OthersKeep, OneTransaction DEF TypeOK, Command, InTx
<1> QED BY <1>1, <1>2, <1>3, <1>4

LEMMA RevokeKeyOK ==
  ASSUME IInv, NEW a \in Admins, NEW i \in KeyIds, RevokeKey(a, i)
  PROVE  IInv'
<1> USE DEF RevokeKey, IInv
<1>1. TypeOK'
  BY DEF TypeOK, RingTypeOK, Database, Command, InTx
<1>2. DraftOf(a)'
  BY DEF DraftOf, TypeOK, Command
<1>3. PendingOK'
  BY DEF PendingOK, Knows, Pending, TypeOK, Command
<1>4. SpacesHaveKeys' /\ DraftOK'
  BY <1>2, OthersKeep, OneTransaction DEF TypeOK, Command, InTx
<1> QED BY <1>1, <1>2, <1>3, <1>4

LEMMA LoadForRevokeOK ==
  ASSUME IInv, NEW a \in Admins, LoadForRevoke(a)
  PROVE  IInv'
<1> USE DEF LoadForRevoke, IInv
<1>1. /\ draft = Committed
      /\ cmd[a].op = "revoke"
      /\ cmd[a].id \in KeyIds
      /\ keys[cmd[a].id] \in Key
      /\ now \in 1..MaxTime
  BY DEF DraftOK, DraftOf, PendingOK, Knows, Pending, Committed, TypeOK, RingTypeOK
<1>2. Revoked(keys[cmd[a].id], now) \in Key
  BY <1>1, RevokedKeeps
<1>3. TypeOK'
  <2>1. cmd' \in [Admins -> Command]
    <3>1. draft.keys[cmd[a].id] = keys[cmd[a].id]
      BY <1>1 DEF Committed
    <3>2. PICK key \in Key : cmd' = [cmd EXCEPT ![a].pc = "space", ![a].key = key]
      BY <1>2, <3>1
    <3>3. cmd \in [Admins -> Command]
      BY DEF TypeOK
    <3> HIDE DEF IInv, LoadForRevoke
    <3> DEFINE x == [cmd[a] EXCEPT !.pc = "space", !.key = key]
    <3>4. x \in Command /\ cmd' = [cmd EXCEPT ![a] = x]
      BY <3>2, <3>3 DEF Command
    <3> HIDE DEF x
    <3> QED BY <3>3, <3>4
  <2>2. \A b \in Admins : InTx(b)' <=> InTx(b)
    BY DEF InTx, TypeOK, Command
  <2> QED BY <2>1, <2>2 DEF TypeOK, RingTypeOK
<1>4. DraftOf(a)'
  BY <1>1 DEF DraftOf, TypeOK, Command, Committed
<1>5. PendingOK'
  BY <1>1, <1>2 DEF PendingOK, Knows, Pending, TypeOK, Command, Committed
<1>6. SpacesHaveKeys' /\ DraftOK'
  BY <1>4, OthersKeep, OneTransaction DEF TypeOK, Command, InTx
<1> QED BY <1>3, <1>4, <1>5, <1>6

(* Time passing, and a step of nobody.                                     *)
LEMMA TickOK ==
  ASSUME IInv, UNCHANGED <<spaces, keys, lock, draft, cmd>>, now' \in 1..MaxTime
  PROVE  IInv'
<1> USE DEF IInv
<1>1. TypeOK'
  BY DEF TypeOK, RingTypeOK, InTx
<1>2. SpacesHaveKeys'
  BY DEF SpacesHaveKeys
<1>3. PendingOK'
  BY DEF PendingOK, Knows, Pending
<1>4. DraftOK'
  BY DEF DraftOK, DraftOf, WithKey, WithSpace, Committed
<1> QED BY <1>1, <1>2, <1>3, <1>4

-----------------------------------------------------------------------------
(* Steps on the draft: its admin holds the lock, so no other is in a       *)
(* transaction.                                                            *)
LEMMA BeginOK ==
  ASSUME IInv, NEW a \in Admins, Begin(a)
  PROVE  IInv'
<1> USE DEF Begin, Goto, IInv
<1>1. \A b \in Admins : ~InTx(b)
  BY AdminsAssumption DEF TypeOK
<1>2. Committed \in Database
  BY DEF Committed, Database, TypeOK, RingTypeOK
<1>3. TypeOK'
  BY <1>1, <1>2, AdminsAssumption DEF TypeOK, RingTypeOK, Command, InTx
<1>4. DraftOf(a)'
  BY DEF DraftOf, TypeOK, Command, Committed
<1>5. PendingOK'
  BY DEF PendingOK, Knows, Pending, TypeOK, Command
<1>6. SpacesHaveKeys' /\ DraftOK'
  BY <1>1, <1>4, OthersKeep DEF TypeOK, Command
<1> QED BY <1>3, <1>4, <1>5, <1>6

(* What an admin is about to save is a key.                                *)
LEMMA KeyInHand ==
  ASSUME IInv, NEW a \in Admins, cmd[a].pc \in {"space", "key", "commit"}
  PROVE  /\ cmd[a].id \in KeyIds
         /\ cmd[a].key \in Key
         /\ cmd[a].key.space \in ValidSpaces
<1>1. /\ cmd[a].id \in KeyIds
      /\ cmd[a].op \in {"create", "revoke"}
      /\ cmd[a].op = "create" => cmd[a].key \in Key
  BY DEF IInv, PendingOK, Knows, Pending
<1>2. ASSUME cmd[a].op = "revoke"
      PROVE  cmd[a].key \in Key
  <2>1. /\ keys[cmd[a].id] \in Key
        /\ \E t \in 1..MaxTime : cmd[a].key = Revoked(keys[cmd[a].id], t)
    BY <1>1, <1>2 DEF IInv, PendingOK, Knows, Pending, TypeOK, RingTypeOK
  <2> QED BY <2>1, RevokedKeeps
<1> QED BY <1>1, <1>2 DEF Key

LEMMA SaveSpaceOK ==
  ASSUME IInv, NEW a \in Admins, SaveSpace(a)
  PROVE  IInv'
<1> USE DEF SaveSpace, Goto, IInv
<1>1. /\ cmd[a].key.space \in ValidSpaces
      /\ InTx(a)
      /\ draft = Committed
  BY KeyInHand DEF InTx, DraftOK, DraftOf
<1>2. TypeOK'
  BY <1>1 DEF TypeOK, RingTypeOK, Database, Command, InTx
<1>3. DraftOf(a)'
  BY <1>1 DEF DraftOf, TypeOK, Command, WithSpace, Committed
<1>4. PendingOK'
  BY DEF PendingOK, Knows, Pending, TypeOK, Command
<1>5. SpacesHaveKeys' /\ DraftOK'
  BY <1>3, OthersKeep, OneTransaction DEF TypeOK, Command, InTx
<1> QED BY <1>2, <1>3, <1>4, <1>5

(* The upsert leaves the aggregate's own row: it changes revoked_at only,  *)
(* and the aggregate was loaded from the row it updates.                   *)
LEMMA UpsertedIsKey ==
  ASSUME IInv, NEW a \in Admins, cmd[a].pc \in {"space", "key", "commit"}
  PROVE  Upserted(keys[cmd[a].id], cmd[a].key) = cmd[a].key
<1>1. CASE cmd[a].op = "create"
  BY <1>1 DEF IInv, PendingOK, Knows, Pending, Upserted
<1>2. CASE cmd[a].op = "revoke"
  <2>1. /\ keys[cmd[a].id] \in Key
        /\ keys[cmd[a].id] # NoKey
    BY <1>2 DEF IInv, PendingOK, Knows, Pending, TypeOK, RingTypeOK
  <2>2. PICK t \in 1..MaxTime : cmd[a].key = Revoked(keys[cmd[a].id], t)
    BY <1>2 DEF IInv, PendingOK, Knows, Pending
  <2> QED BY <2>1, <2>2 DEF Upserted, Revoked, Key
<1> QED BY <1>1, <1>2 DEF IInv, PendingOK, Knows, Pending

LEMMA SaveKeyOK ==
  ASSUME IInv, NEW a \in Admins, SaveKey(a)
  PROVE  IInv'
<1> USE DEF SaveKey, Goto, IInv
<1>1. /\ cmd[a].id \in KeyIds
      /\ cmd[a].key \in Key
      /\ InTx(a)
      /\ draft = WithSpace(a)
  BY KeyInHand DEF InTx, DraftOK, DraftOf
<1>2. draft' = WithKey(a)
  BY <1>1, UpsertedIsKey DEF WithKey, WithSpace, Committed
<1>3. TypeOK'
  <2>1. draft' \in Database
    BY <1>2, KeyInHand DEF Database, WithKey, WithSpace, Committed, TypeOK, RingTypeOK
  <2>2. cmd' \in [Admins -> Command]
    BY DEF TypeOK, Command
  <2>3. \A b \in Admins : InTx(b)' <=> InTx(b)
    BY DEF InTx, TypeOK, Command
  <2> QED BY <2>1, <2>2, <2>3 DEF TypeOK, RingTypeOK
<1>4. DraftOf(a)'
  BY <1>1, <1>2 DEF DraftOf, TypeOK, Command, WithKey, WithSpace, Committed
<1>5. PendingOK'
  BY DEF PendingOK, Knows, Pending, TypeOK, Command
<1>6. SpacesHaveKeys' /\ DraftOK'
  BY <1>4, OthersKeep, OneTransaction DEF TypeOK, Command, InTx
<1> QED BY <1>3, <1>4, <1>5, <1>6

-----------------------------------------------------------------------------
(* A commit installs the two rows together.                                *)
LEMMA CommitEffect ==
  ASSUME IInv, NEW a \in Admins, Commit(a)
  PROVE  /\ spaces' = spaces \cup {cmd[a].key.space}
         /\ keys' = [keys EXCEPT ![cmd[a].id] = cmd[a].key]
BY DEF Commit, IInv, DraftOK, DraftOf, WithKey, WithSpace, Committed

LEMMA CommitOK ==
  ASSUME IInv, NEW a \in Admins, Commit(a)
  PROVE  IInv'
<1> DEFINE i == cmd[a].id
           key == cmd[a].key
<1>1. /\ i \in KeyIds
      /\ key \in Key
      /\ key # NoKey
      /\ key.space \in ValidSpaces
      /\ InTx(a)
  BY KeyInHand, NewKeyIsKey DEF Commit, InTx
<1>2. /\ spaces' = spaces \cup {key.space}
      /\ keys' = [keys EXCEPT ![i] = key]
  BY CommitEffect
<1>3. /\ lock' = NoOne
      /\ draft' = EmptyDraft
      /\ now' = now
  BY DEF Commit
<1>4. cmd' = [cmd EXCEPT ![a] = [Idle EXCEPT !.op = cmd[a].op, !.id = i, !.reply = "ok"]]
  BY DEF Commit, Answer
<1>5. keys[i] = NoKey \/ (keys[i] \in Key /\ keys[i].space = key.space)
  <2>1. CASE cmd[a].op = "create"
    BY <2>1 DEF Commit, IInv, PendingOK, Knows, Pending
  <2>2. CASE cmd[a].op = "revoke"
    <3>1. keys[i] \in Key
      BY <1>1, <2>2 DEF Commit, IInv, PendingOK, Knows, Pending, TypeOK, RingTypeOK
    <3> QED BY <2>2, <3>1, RevokedKeeps DEF Commit, IInv, PendingOK, Knows, Pending
  <2> QED BY <2>1, <2>2 DEF Commit, IInv, PendingOK, Knows, Pending
<1>6. TypeOK'
  <2>1. RingTypeOK' /\ draft' \in Database
    BY <1>1, <1>2, <1>3 DEF IInv, TypeOK, RingTypeOK, Database, EmptyDraft
  <2>2. [Idle EXCEPT !.op = cmd[a].op, !.id = i, !.reply = "ok"] \in Command
    BY DEF IInv, TypeOK, Command, Idle
  <2>3. /\ cmd' \in [Admins -> Command]
        /\ cmd'[a].pc = "idle" /\ \A b \in Admins \ {a} : cmd'[b] = cmd[b]
    BY <1>4, <2>2 DEF IInv, TypeOK, Idle
  <2>4. \A b \in Admins : ~InTx(b)'
    <3>1. \A b \in Admins \ {a} : ~InTx(b)
      BY <1>1, OneTransaction DEF IInv
    <3> QED BY <2>3, <3>1 DEF InTx
  <2> QED BY <1>3, <2>1, <2>3, <2>4, AdminsAssumption DEF IInv, TypeOK
<1>7. SpacesHaveKeys'
  BY <1>1, <1>2, <1>5 DEF IInv, SpacesHaveKeys, TypeOK, RingTypeOK
<1>8. PendingOK'
  <2> SUFFICES ASSUME NEW b \in Admins, Pending(b)'
               PROVE  Knows(b)'
    BY DEF PendingOK
  <2>1. b # a /\ cmd'[b] = cmd[b] /\ Pending(b) /\ ~InTx(b)
    BY <1>1, <1>4, OneTransaction DEF Idle, Pending, IInv, TypeOK, Command
  <2>2. Knows(a) /\ Knows(b)
    BY <1>1, <2>1 DEF IInv, PendingOK, Pending, InTx
  <2>3. cmd[b].op = "create" => cmd[b].id # i
    <3>1. CASE cmd[a].op = "create"
      BY <1>1, <2>1, <2>2, <3>1 DEF Knows, Pending, InTx
    <3>2. CASE cmd[a].op = "revoke"
      BY <2>2, <3>2 DEF Knows, Commit
    <3> QED BY <2>2, <3>1, <3>2 DEF Knows
  <2>4. \A c \in Admins : Pending(c)' => Pending(c) /\ cmd'[c] = cmd[c]
    BY <1>4 DEF Idle, Pending, IInv, TypeOK, Command
  <2> QED BY <1>2, <2>1, <2>2, <2>3, <2>4 DEF Knows, InTx, IInv, TypeOK, RingTypeOK
<1>9. DraftOK'
  BY <1>1, <1>3, <1>4, OneTransaction DEF Idle, IInv, DraftOK, DraftOf, InTx, TypeOK, Command
<1> QED BY <1>6, <1>7, <1>8, <1>9 DEF IInv

-----------------------------------------------------------------------------
(* Whatever ends a command without a commit leaves the tables alone.       *)
LEMMA RollbackOK ==
  ASSUME IInv, NEW a \in Admins, InTx(a),
         NEW reply \in {"key_not_found", "failed"}, Rollback(a, reply)
  PROVE  IInv'
<1> USE DEF Rollback, Answer, Idle, IInv
<1>1. TypeOK'
  <2>1. RingTypeOK' /\ draft' \in Database
    BY DEF TypeOK, RingTypeOK, Database, EmptyDraft
  <2>2. /\ cmd' \in [Admins -> Command]
        /\ cmd'[a].pc = "idle" /\ \A b \in Admins \ {a} : cmd'[b] = cmd[b]
    BY DEF TypeOK, Command
  <2>3. \A b \in Admins : ~InTx(b)'
    BY <2>2, OneTransaction DEF InTx
  <2> QED BY <2>1, <2>2, <2>3, AdminsAssumption DEF TypeOK
<1>2. DraftOf(a)'
  BY DEF DraftOf, TypeOK, Command
<1>3. PendingOK'
  BY DEF PendingOK, Knows, Pending, TypeOK, Command
<1>4. SpacesHaveKeys' /\ DraftOK'
  BY <1>2, OthersKeep, OneTransaction DEF TypeOK, Command, InTx
<1> QED BY <1>1, <1>2, <1>3, <1>4

LEMMA GiveUpOK ==
  ASSUME IInv, NEW a \in Admins, GiveUp(a)
  PROVE  IInv'
<1> USE DEF GiveUp, Answer, Idle, IInv
<1>1. TypeOK'
  BY DEF TypeOK, RingTypeOK, Command, InTx
<1>2. DraftOf(a)'
  BY DEF DraftOf, TypeOK, Command
<1>3. PendingOK'
  BY DEF PendingOK, Knows, Pending, TypeOK, Command
<1>4. SpacesHaveKeys' /\ DraftOK'
  BY <1>2, OthersKeep, OneTransaction DEF TypeOK, Command, InTx
<1> QED BY <1>1, <1>2, <1>3, <1>4

LEMMA NextOK == IInv /\ [Next]_vars => IInv'
<1> SUFFICES ASSUME IInv, [Next]_vars
             PROVE  IInv'
  OBVIOUS
<1>1. ASSUME NEW a \in Admins, NEW id \in KeyIds, NEW name \in Labels, NEW space \in Spaces,
             CreateKey(a, id, name, space)
      PROVE  IInv'
  BY <1>1, CreateKeyOK
<1>2. ASSUME NEW a \in Admins, NEW id \in KeyIds, RevokeKey(a, id)
      PROVE  IInv'
  BY <1>2, RevokeKeyOK
<1>3. ASSUME NEW a \in Admins, Begin(a)
      PROVE  IInv'
  BY <1>3, BeginOK
<1>4. ASSUME NEW a \in Admins, LoadForRevoke(a)
      PROVE  IInv'
  BY <1>4, LoadForRevokeOK
<1>5. ASSUME NEW a \in Admins, KeyNotFound(a)
      PROVE  IInv'
  BY <1>5, RollbackOK DEF KeyNotFound, InTx
<1>6. ASSUME NEW a \in Admins, SaveSpace(a)
      PROVE  IInv'
  BY <1>6, SaveSpaceOK
<1>7. ASSUME NEW a \in Admins, SaveKey(a)
      PROVE  IInv'
  BY <1>7, SaveKeyOK
<1>8. ASSUME NEW a \in Admins, Commit(a)
      PROVE  IInv'
  BY <1>8, CommitOK
<1>9. ASSUME NEW a \in Admins, Fail(a)
      PROVE  IInv'
  BY <1>9, RollbackOK DEF Fail
<1>10. ASSUME NEW a \in Admins, GiveUp(a)
       PROVE  IInv'
  BY <1>10, GiveUpOK
<1>11. CASE Tick
  <2>1. now' \in 1..MaxTime
    BY <1>11, KeyRingAssumption DEF Tick, IInv, TypeOK
  <2> QED BY <1>11, <2>1, TickOK DEF Tick
<1>12. CASE UNCHANGED vars
  BY <1>12, TickOK DEF vars, IInv, TypeOK
<1> QED BY <1>1, <1>2, <1>3, <1>4, <1>5, <1>6, <1>7, <1>8, <1>9, <1>10, <1>11, <1>12 DEF Next

-----------------------------------------------------------------------------
(* Every variable keeps its type, the write lock has the holder the        *)
(* commands say, and each command knows what the next statement needs.     *)
THEOREM Inductive == Spec => []IInv
BY InitOK, NextOK, PTL DEF Spec

(* Every row and every pending command keeps its shape, and the write lock *)
(* is held by exactly the admin inside a transaction.                      *)
THEOREM TypeCorrect == Spec => []TypeOK
<1>1. IInv => TypeOK
  BY DEF IInv
<1> QED BY <1>1, Inductive, PTL

(* A space is listed exactly when some key unlocks it: the two statements  *)
(* of Save never come apart.                                               *)
THEOREM SpacesUnlocked == Spec => [](TypeOK /\ SpacesHaveKeys)
<1>1. IInv => TypeOK /\ SpacesHaveKeys
  BY DEF IInv
<1> QED BY <1>1, Inductive, PTL

(* A commit is one step of the key ring; nothing else changes its tables.  *)
LEMMA StepIsRingStep == IInv /\ [Next]_vars => [RingNext]_ringVars
<1> SUFFICES ASSUME IInv, [Next]_vars
             PROVE  [RingNext]_ringVars
  OBVIOUS
<1>1. ASSUME NEW a \in Admins, Commit(a)
      PROVE  RingNext
  <2> DEFINE i == cmd[a].id
             key == cmd[a].key
  <2>1. /\ i \in KeyIds
        /\ key \in Key
        /\ Knows(a)
    BY <1>1, KeyInHand DEF Commit, IInv, PendingOK, Pending
  <2>2. /\ spaces' = spaces \cup {key.space}
        /\ keys' = [keys EXCEPT ![i] = key]
    BY <1>1, CommitEffect
  <2>3. CASE cmd[a].op = "create"
    <3>1. Create(i, key.name, key.space)
      BY <2>1, <2>2, <2>3 DEF Create, ValidateSpaceName, Knows, Key
    <3>2. key.name \in Labels /\ key.space \in Spaces
      BY <2>1, KeyRingAssumption DEF Key
    <3> QED BY <2>1, <3>1, <3>2 DEF RingNext
  <2>4. CASE cmd[a].op = "revoke"
    <3>1. PICK t \in 1..MaxTime : key = Revoked(keys[i], t)
      BY <1>1, <2>1, <2>4 DEF Knows, Commit
    <3>2. keys[i] # NoKey /\ keys[i] \in Key
      BY <1>1, <2>1, <2>4 DEF Knows, Commit, IInv, TypeOK, RingTypeOK
    <3>3. key.space = keys[i].space
      BY <3>1, <3>2, RevokedKeeps
    <3>4. key.space \in spaces
      BY <2>1, <3>2, <3>3 DEF IInv, SpacesHaveKeys
    <3>5. Revoke(i, t)
      BY <2>2, <3>1, <3>2, <3>4 DEF Revoke
    <3> QED BY <2>1, <3>5 DEF RingNext
  <2> QED BY <2>1, <2>3, <2>4 DEF Knows
<1>2. ASSUME ~\E a \in Admins : Commit(a)
      PROVE  UNCHANGED ringVars
  BY <1>2 DEF Next, vars, ringVars, CreateKey, RevokeKey, Begin, LoadForRevoke, KeyNotFound,
              SaveSpace, SaveKey, Fail, Rollback, GiveUp, Tick
<1> QED BY <1>1, <1>2

(* The transactions of any number of admins implement the key ring: each   *)
(* command is one atomic step of it or none.                               *)
THEOREM Implementation == Spec => ImplementsKeyRing
<1>1. Init => RingInit
  BY DEF Init
<1> QED BY <1>1, Inductive, StepIsRingStep, PTL DEF Spec, ImplementsKeyRing, RingSpec

(* A key that was issued keeps its name, its space and its first           *)
(* revocation for ever, whichever admins revoke it together.               *)
THEOREM RevocationIsFinal == Spec => RevocationSticks
<1>1. IInv /\ [Next]_vars =>
        [\A id \in KeyIds : keys[id] # NoKey =>
           /\ keys'[id] # NoKey
           /\ keys'[id].name = keys[id].name
           /\ keys'[id].space = keys[id].space
           /\ keys[id].revoked_at # Never => keys'[id] = keys[id]]_vars
  BY StepIsRingStep, RingStepSticks DEF IInv, TypeOK
<1> QED BY <1>1, Inductive, PTL DEF Spec, RevocationSticks

-----------------------------------------------------------------------------
(* Revocation in time: whatever the rows and the loaded aggregates hold of *)
(* it, the clock has shown.                                                *)
Revoking(a) == cmd[a].op = "revoke" /\ cmd[a].pc \in {"space", "key", "commit"}

Timely ==
  /\ \A id \in KeyIds : keys[id] # NoKey => keys[id].revoked_at \in 1..now \cup {Never}
  /\ \A a \in Admins : Revoking(a) => cmd[a].key.revoked_at \in 1..now

(* A step before the commit, or one that ends in a failure.                *)
LEMMA TimelyBefore ==
  ASSUME Timely, RevokeIsKept, UNCHANGED <<keys, now>>, NEW a \in Admins,
         \A b \in Admins \ {a} : cmd'[b] = cmd[b],
         cmd'[a].reply # "ok",
         Revoking(a)' => cmd'[a].key.revoked_at \in 1..now
  PROVE  Timely' /\ RevokeIsKept'
<1>1. Timely'
  BY DEF Timely, Revoking
<1>2. RevokeIsKept'
  BY DEF RevokeIsKept
<1> QED BY <1>1, <1>2

LEMMA TimelyLoad ==
  ASSUME IInv, Timely, RevokeIsKept, NEW a \in Admins, LoadForRevoke(a)
  PROVE  Timely' /\ RevokeIsKept'
<1> DEFINE row == draft.keys[cmd[a].id]
<1>1. /\ row = keys[cmd[a].id]
      /\ row \in Key
      /\ cmd[a].id \in KeyIds
      /\ cmd[a].reply = "none"
  BY DEF LoadForRevoke, IInv, DraftOK, DraftOf, PendingOK, Knows, Pending, Committed, TypeOK, RingTypeOK
<1>2. now \in 1..MaxTime /\ now \in Nat /\ now >= 1
  BY KeyRingAssumption DEF IInv, TypeOK
<1>3. row.revoked_at = Never \/ row.revoked_at \in 1..now
  BY <1>1, NewKeyIsKey DEF Timely
<1>4. Revoked(row, now).revoked_at \in 1..now
  BY <1>1, <1>2, <1>3 DEF Revoked, Key
<1> HIDE DEF row
<1>5. /\ cmd'[a].key = Revoked(row, now) /\ cmd'[a].reply = cmd[a].reply
      /\ \A b \in Admins \ {a} : cmd'[b] = cmd[b]
      /\ UNCHANGED <<keys, now>>
  BY DEF LoadForRevoke, IInv, TypeOK, Command, row
<1> QED BY <1>1, <1>4, <1>5, TimelyBefore

(* The commit of a revocation leaves the key revoked, and a row that was   *)
(* revoked before as it was.                                               *)
LEMMA TimelyCommit ==
  ASSUME IInv, Timely, RevokeIsKept, NEW a \in Admins, Commit(a)
  PROVE  Timely' /\ RevokeIsKept'
<1> DEFINE i == cmd[a].id
           key == cmd[a].key
<1>1. i \in KeyIds /\ key \in Key /\ key # NoKey /\ Knows(a)
  BY KeyInHand, NewKeyIsKey DEF Commit, IInv, PendingOK, Pending
<1>2. keys' = [keys EXCEPT ![i] = key] /\ now' = now /\ keys \in [KeyIds -> Key \cup {NoKey}]
  BY CommitEffect DEF Commit, IInv, TypeOK, RingTypeOK
<1>3. /\ cmd'[a] = [Idle EXCEPT !.op = cmd[a].op, !.id = i, !.reply = "ok"]
      /\ \A b \in Admins \ {a} : cmd'[b] = cmd[b]
  BY DEF Commit, Answer, IInv, TypeOK
<1>4. /\ cmd[a].op = "create" => key.revoked_at = Never /\ keys[i] = NoKey
      /\ cmd[a].op = "revoke" => key.revoked_at \in 1..now
      /\ cmd[a].op \in {"create", "revoke"}
  BY <1>1, NewKeyIsKey DEF Knows, Timely, Revoking, Commit, NewKey
<1>5. keys[i] # NoKey /\ keys[i].revoked_at # Never => key = keys[i]
  <2>1. ASSUME cmd[a].op = "revoke", keys[i] # NoKey, keys[i].revoked_at # Never
        PROVE  key = keys[i]
    <3>1. PICK t \in 1..MaxTime : key = Revoked(keys[i], t)
      BY <1>1, <2>1 DEF Knows, Commit
    <3> QED BY <1>1, <1>2, <2>1, <3>1, RevokedKeeps
  <2> QED BY <1>4, <2>1
<1> HIDE DEF i, key
<1>6. Timely'
  <2>1. ASSUME NEW j \in KeyIds, keys'[j] # NoKey
        PROVE  keys'[j].revoked_at \in 1..now \cup {Never}
    BY <1>1, <1>2, <1>4, <2>1 DEF Timely
  <2>2. ASSUME NEW b \in Admins, Revoking(b)'
        PROVE  cmd'[b].key.revoked_at \in 1..now
    <3>1. b # a
      BY <1>3, <2>2 DEF Revoking, Idle
    <3> QED BY <1>3, <2>2, <3>1 DEF Revoking, Timely
  <2> QED BY <1>2, <2>1, <2>2 DEF Timely
<1>7. RevokeIsKept'
  <2> SUFFICES ASSUME NEW b \in Admins, cmd'[b].op = "revoke", cmd'[b].reply = "ok"
               PROVE  /\ keys'[cmd'[b].id] # NoKey
                      /\ keys'[cmd'[b].id].revoked_at \in 1..now
    BY <1>2 DEF RevokeIsKept
  <2>1. CASE b = a
    BY <1>1, <1>2, <1>3, <1>4, <2>1 DEF Idle
  <2>2. CASE b # a
    <3>1. /\ cmd'[b] = cmd[b]
          /\ keys[cmd[b].id] # NoKey
          /\ keys[cmd[b].id].revoked_at \in 1..now
      BY <1>3, <2>2 DEF RevokeIsKept
    <3>2. keys[cmd[b].id].revoked_at # Never
      BY <3>1 DEF Never
    <3>3. CASE cmd[b].id = i
      BY <1>1, <1>2, <1>5, <3>1, <3>2, <3>3
    <3>4. CASE cmd[b].id # i
      BY <1>2, <3>1, <3>4
    <3> QED BY <3>3, <3>4
  <2> QED BY <2>1, <2>2
<1> QED BY <1>6, <1>7

LEMMA TimelyLater ==
  ASSUME IInv, Timely, RevokeIsKept, UNCHANGED <<keys, cmd>>, now' \in Nat, now' >= now
  PROVE  Timely' /\ RevokeIsKept'
<1>1. 1..now \subseteq 1..now'
  BY DEF IInv, TypeOK
<1> QED BY <1>1 DEF Timely, Revoking, RevokeIsKept

LEMMA TimelyNext ==
  ASSUME IInv, Timely, RevokeIsKept, [Next]_vars
  PROVE  Timely' /\ RevokeIsKept'
<1>0. cmd \in [Admins -> Command] /\ now \in Nat
  BY DEF IInv, TypeOK
<1>1. ASSUME NEW a \in Admins, NEW id \in KeyIds, NEW name \in Labels, NEW space \in Spaces,
             CreateKey(a, id, name, space)
      PROVE  Timely' /\ RevokeIsKept'
  BY <1>0, <1>1, TimelyBefore DEF CreateKey, Revoking
<1>2. ASSUME NEW a \in Admins, NEW id \in KeyIds, RevokeKey(a, id)
      PROVE  Timely' /\ RevokeIsKept'
  BY <1>0, <1>2, TimelyBefore DEF RevokeKey, Revoking
<1>3. ASSUME NEW a \in Admins, Begin(a)
      PROVE  Timely' /\ RevokeIsKept'
  <2>1. cmd[a].reply = "none"
    BY <1>3 DEF Begin, IInv, PendingOK, Knows, Pending
  <2>2. /\ cmd'[a] = [cmd[a] EXCEPT !.pc = IF cmd[a].op = "revoke" THEN "load" ELSE "space"]
        /\ \A b \in Admins \ {a} : cmd'[b] = cmd[b]
    BY <1>0, <1>3 DEF Begin, Goto
  <2>3. cmd'[a].reply = "none" /\ ~Revoking(a)'
    BY <1>0, <2>1, <2>2 DEF Revoking, Command
  <2> QED BY <1>3, <2>2, <2>3, TimelyBefore DEF Begin
<1>4. ASSUME NEW a \in Admins, LoadForRevoke(a)
      PROVE  Timely' /\ RevokeIsKept'
  BY <1>4, TimelyLoad
<1>5. ASSUME NEW a \in Admins, SaveSpace(a) \/ SaveKey(a)
      PROVE  Timely' /\ RevokeIsKept'
  <2>1. cmd[a].reply = "none" /\ cmd[a].pc \in {"space", "key"}
    BY <1>5 DEF SaveSpace, SaveKey, IInv, PendingOK, Knows, Pending
  <2>2. /\ \/ cmd'[a] = [cmd[a] EXCEPT !.pc = "key"]
           \/ cmd'[a] = [cmd[a] EXCEPT !.pc = "commit"]
        /\ \A b \in Admins \ {a} : cmd'[b] = cmd[b]
    BY <1>0, <1>5 DEF SaveSpace, SaveKey, Goto
  <2>3. cmd'[a].reply = "none" /\ cmd'[a].op = cmd[a].op /\ cmd'[a].key = cmd[a].key
    BY <1>0, <2>1, <2>2 DEF Command
  <2>4. Revoking(a)' => cmd'[a].key.revoked_at \in 1..now
    BY <2>1, <2>3 DEF Revoking, Timely
  <2> QED BY <1>5, <2>2, <2>3, <2>4, TimelyBefore DEF SaveSpace, SaveKey
<1>6. ASSUME NEW a \in Admins, KeyNotFound(a) \/ Fail(a) \/ GiveUp(a)
      PROVE  Timely' /\ RevokeIsKept'
  <2>1. cmd'[a].reply # "ok" /\ ~Revoking(a)' /\ \A b \in Admins \ {a} : cmd'[b] = cmd[b]
    BY <1>0, <1>6 DEF KeyNotFound, Fail, GiveUp, Rollback, Answer, Idle, Revoking
  <2> QED BY <1>6, <2>1, TimelyBefore DEF KeyNotFound, Fail, GiveUp, Rollback
<1>7. ASSUME NEW a \in Admins, Commit(a)
      PROVE  Timely' /\ RevokeIsKept'
  BY <1>7, TimelyCommit
<1>8. CASE Tick
  BY <1>0, <1>8, TimelyLater DEF Tick
<1>9. CASE UNCHANGED vars
  BY <1>0, <1>9, TimelyLater DEF vars
<1> QED BY <1>1, <1>2, <1>3, <1>4, <1>5, <1>6, <1>7, <1>8, <1>9 DEF Next

(* A revoke that answered ok leaves its key revoked for ever after, with a *)
(* timestamp the clock has shown, whatever the other admins do.            *)
THEOREM RevokesAreKept == Spec => []RevokeIsKept
<1>1. Init => Timely /\ RevokeIsKept
  BY DEF Init, RingInit, Timely, Revoking, RevokeIsKept, Idle
<1> QED BY <1>1, TimelyNext, Inductive, PTL DEF Spec
=============================================================================
