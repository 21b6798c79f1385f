---------------------------- MODULE HostedProofs ----------------------------
(***************************************************************************)
(* Theorems about Hosted: for any number of requests, keys and spaces.     *)
(* The inductive invariant says what a request carries at each step        *)
(* (Carries), that a memory's request is over (MemoriesOK), that a request *)
(* that came too late gets nowhere (TooLateOK), and where every open       *)
(* handle is known (HandlesOK).                                            *)
(***************************************************************************)
EXTENDS Hosted, KeyRingProofs

Authenticated(r) == req[r].pc \in {"resolve", "lookup", "opened", "call"}

Issued(token) == token \in KeyIds /\ keys[token] # NoKey

Carries(r) ==
  /\ Authenticated(r) => Issued(req[r].token) /\ req[r].ident = IdentityOf(req[r].token)
  /\ ~Authenticated(r) => req[r].ident = None
  /\ req[r].pc \in {"opened", "call"} =>
       req[r].svc \in Handle /\ req[r].svc.space = req[r].ident.space
  /\ req[r].health => req[r].token = None
  /\ req[r].pc # "done" => req[r].reply = "none"

CarriesOK == \A r \in Requests : Carries(r)

MemoriesOK ==
  \A s \in ValidSpaces : \A m \in memories[s] :
    /\ req[m.by].pc = "done"
    /\ m.by \notin tooLate
    /\ Issued(req[m.by].token)
    /\ keys[req[m.by].token].space = s
    /\ keys[req[m.by].token].name = m.source

TooLateOK ==
  \A r \in tooLate :
    /\ RevokedKey(req[r].token)
    /\ req[r].pc \in {"arrived", "done"}
    /\ req[r].reply \in {"none", "unauthenticated", "lost"}

HandlesOK ==
  /\ \A s \in ValidSpaces : registry[s] # None => registry[s].space = s
  /\ \A h \in open : \/ registry[h.space] = h
                     \/ \E r \in Requests : req[r].pc = "opened" /\ req[r].svc = h
  /\ \A r \in Requests : req[r].pc = "opened" =>
       req[r].svc \in open /\ registry[req[r].svc.space] = None
  /\ phase # "closing" => \A s \in ValidSpaces : registry[s] # None => registry[s] \in open

IInv == TypeOK /\ CarriesOK /\ MemoriesOK /\ TooLateOK /\ HandlesOK

-----------------------------------------------------------------------------
(* A server that has served nothing.                                       *)
LEMMA InitOK == Init => IInv
BY KeyRingAssumption, HostedAssumption
   DEF Init, RingInit, IInv, TypeOK, RingTypeOK, NewRequest, Request, Phases, Steps, Replies,
       CarriesOK, Carries, Authenticated, MemoriesOK, TooLateOK, HandlesOK

(* A request that is served did not come too late.                         *)
LEMMA ServedInTime ==
  ASSUME IInv, NEW r \in Requests, Authenticated(r)
  PROVE  r \notin tooLate
BY DEF IInv, TooLateOK, Authenticated

(* A step of one request disturbs nothing that is said of the others, nor, *)
(* when it stores nothing, of memories: none is its own yet.               *)
LEMMA OneRequest ==
  ASSUME IInv, NEW r \in Requests, UNCHANGED <<spaces, keys, tooLate>>,
         \A q \in Requests \ {r} : req'[q] = req[q],
         req[r].pc # "done", Carries(r)',
         r \in tooLate => /\ req'[r].token = req[r].token
                          /\ req'[r].pc = "done"
                          /\ req'[r].reply \in {"unauthenticated", "lost"}
  PROVE  /\ CarriesOK' /\ TooLateOK'
         /\ UNCHANGED memories => MemoriesOK'
<1>1. CarriesOK'
  <2> SUFFICES ASSUME NEW q \in Requests, q # r
               PROVE  Carries(q)'
    BY DEF CarriesOK
  <2> QED BY DEF IInv, CarriesOK, Carries, Authenticated, Issued, IdentityOf
<1>2. ASSUME UNCHANGED memories
      PROVE  MemoriesOK'
  <2> SUFFICES ASSUME NEW s \in ValidSpaces, NEW m \in memories[s]
               PROVE  /\ m.by \in Requests \ {r}
                      /\ req[m.by].pc = "done" /\ m.by \notin tooLate
                      /\ Issued(req[m.by].token)
                      /\ keys[req[m.by].token].space = s
                      /\ keys[req[m.by].token].name = m.source
    BY <1>2 DEF MemoriesOK, Issued
  <2>1. m.by \in Requests
    BY DEF IInv, TypeOK, Memory
  <2> QED BY <2>1 DEF IInv, MemoriesOK
<1>3. TooLateOK'
  BY DEF IInv, TooLateOK, RevokedKey, TypeOK
<1> QED BY <1>1, <1>2, <1>3

(* So do steps that open, register and close nothing, for the handles.     *)
LEMMA HandlesKept ==
  ASSUME IInv, NEW r \in Requests, UNCHANGED <<phase, registry, open>>,
         \A q \in Requests \ {r} : req'[q] = req[q],
         req[r].pc # "opened", req'[r].pc # "opened"
  PROVE  HandlesOK'
BY DEF IInv, HandlesOK

(* The answer is all that is left of a request.                            *)
LEMMA AnswerKept ==
  ASSUME IInv, NEW r \in Requests, NEW reply \in Replies, Answer(r, reply)
  PROVE  /\ req' \in [Requests -> Request]
         /\ \A q \in Requests \ {r} : req'[q] = req[q]
         /\ req'[r].pc = "done"
         /\ req'[r].token = req[r].token
         /\ req'[r].reply = reply
         /\ Carries(r)'
BY HostedAssumption
   DEF Answer, Done, NewRequest, Request, Steps, Replies, IInv, TypeOK, Carries, Authenticated

(* A step that answers nothing moves one request on, with an identity or a *)
(* handle it did not have before, and leaves the others.                   *)
MovesOn(r, pc, ident, svc) ==
  /\ req' \in [Requests -> Request]
  /\ \A q \in Requests \ {r} : req'[q] = req[q]
  /\ req'[r] = [req[r] EXCEPT !.pc = pc, !.ident = ident, !.svc = svc]

LEMMA MoveWithIdentity ==
  ASSUME req \in [Requests -> Request], NEW r \in Requests,
         NEW pc \in Steps, NEW ident \in Identity,
         req' = [req EXCEPT ![r].pc = pc, ![r].ident = ident]
  PROVE  MovesOn(r, pc, ident, req[r].svc)
<1> DEFINE x == [req[r] EXCEPT !.pc = pc, !.ident = ident]
<1>1. x \in Request /\ req' = [req EXCEPT ![r] = x]
  BY DEF Request
<1>2. x = [req[r] EXCEPT !.pc = pc, !.ident = ident, !.svc = req[r].svc]
  BY DEF Request
<1> HIDE DEF x
<1>3. req' \in [Requests -> Request] /\ req'[r] = x /\ \A q \in Requests \ {r} : req'[q] = req[q]
  BY <1>1
<1> QED BY <1>2, <1>3 DEF MovesOn

LEMMA MoveWithHandle ==
  ASSUME req \in [Requests -> Request], NEW r \in Requests,
         NEW pc \in Steps, NEW svc \in Handle,
         req' = [req EXCEPT ![r].pc = pc, ![r].svc = svc]
  PROVE  MovesOn(r, pc, req[r].ident, svc)
<1> DEFINE x == [req[r] EXCEPT !.pc = pc, !.svc = svc]
<1>1. x \in Request /\ req' = [req EXCEPT ![r] = x]
  BY DEF Request
<1>2. x = [req[r] EXCEPT !.pc = pc, !.ident = req[r].ident, !.svc = svc]
  BY DEF Request
<1> HIDE DEF x
<1>3. req' \in [Requests -> Request] /\ req'[r] = x /\ \A q \in Requests \ {r} : req'[q] = req[q]
  BY <1>1
<1> QED BY <1>2, <1>3 DEF MovesOn

LEMMA Move ==
  ASSUME req \in [Requests -> Request], NEW r \in Requests, NEW pc \in Steps,
         req' = [req EXCEPT ![r].pc = pc]
  PROVE  MovesOn(r, pc, req[r].ident, req[r].svc)
BY DEF Request, MovesOn

-----------------------------------------------------------------------------
(* The interceptor.                                                        *)
LEMMA PassOpenPathOK ==
  ASSUME IInv, NEW r \in Requests, PassOpenPath(r)
  PROVE  IInv'
<1> USE DEF PassOpenPath
<1>1. Answer(r, "ok") /\ "ok" \in Replies
  BY DEF Replies
<1>2. TypeOK'
  BY <1>1, AnswerKept DEF IInv, TypeOK, RingTypeOK, ringVars, serverVars
<1>3. r \notin tooLate
  BY HostedAssumption DEF IInv, CarriesOK, Carries, TooLateOK, RevokedKey
<1>4. CarriesOK' /\ MemoriesOK' /\ TooLateOK' /\ HandlesOK'
  BY <1>1, <1>3, AnswerKept, OneRequest, HandlesKept DEF ringVars, serverVars
<1> QED BY <1>2, <1>4 DEF IInv

LEMMA RefuseOK ==
  ASSUME IInv, NEW r \in Requests, Refuse(r)
  PROVE  IInv'
<1> USE DEF Refuse
<1>1. Answer(r, "unauthenticated") /\ "unauthenticated" \in Replies
  BY DEF Replies
<1>2. TypeOK'
  BY <1>1, AnswerKept DEF IInv, TypeOK, RingTypeOK, ringVars, serverVars
<1>3. CarriesOK' /\ MemoriesOK' /\ TooLateOK' /\ HandlesOK'
  BY <1>1, AnswerKept, OneRequest, HandlesKept DEF ringVars, serverVars
<1> QED BY <1>2, <1>3 DEF IInv

LEMMA AuthenticateOK ==
  ASSUME IInv, NEW r \in Requests, Authenticate(r)
  PROVE  IInv'
<1> USE DEF Authenticate
<1>1. /\ Issued(req[r].token)
      /\ ~RevokedKey(req[r].token)
      /\ IdentityOf(req[r].token) \in Identity
  BY DEF Active, Issued, RevokedKey, IdentityOf, Identity, IInv, TypeOK, RingTypeOK, Key
<1>2. r \notin tooLate
  BY <1>1 DEF IInv, TooLateOK
<1>3. MovesOn(r, "resolve", IdentityOf(req[r].token), req[r].svc)
  <2> HIDE DEF Authenticate
  <2>1. req' = [req EXCEPT ![r].pc = "resolve", ![r].ident = IdentityOf(req[r].token)]
    BY DEF Authenticate
  <2>2. "resolve" \in Steps /\ req \in [Requests -> Request]
    BY DEF IInv, TypeOK, Steps
  <2> QED BY <1>1, <2>1, <2>2, MoveWithIdentity
<1>4. TypeOK'
  BY <1>3 DEF IInv, TypeOK, RingTypeOK, ringVars, serverVars, Request, MovesOn
<1>5. Carries(r)' /\ req'[r].pc = "resolve"
  <2>1. /\ req'[r].pc = "resolve" /\ req'[r].token = req[r].token
        /\ req'[r].health = req[r].health /\ req'[r].reply = req[r].reply
        /\ req'[r].ident = IdentityOf(req[r].token) /\ UNCHANGED keys
    BY <1>3 DEF MovesOn, IInv, TypeOK, Request, ringVars
  <2> QED BY <1>1, <2>1 DEF IInv, Carries, CarriesOK, Authenticated, Issued, IdentityOf
<1>6. CarriesOK' /\ MemoriesOK' /\ TooLateOK' /\ HandlesOK'
  BY <1>2, <1>3, <1>5, OneRequest, HandlesKept DEF MovesOn, ringVars, serverVars
<1> QED BY <1>4, <1>6 DEF IInv

-----------------------------------------------------------------------------
(* ServiceFor.                                                             *)
LEMMA EnterServiceForOK ==
  ASSUME IInv, NEW r \in Requests, EnterServiceFor(r)
  PROVE  IInv'
<1> USE DEF EnterServiceFor
<1>1. TypeOK'
  BY HostedAssumption DEF IInv, TypeOK, RingTypeOK, ringVars, Request, Steps
<1>2. Carries(r)' /\ req'[r].pc = "lookup" /\ \A q \in Requests \ {r} : req'[q] = req[q]
  BY DEF IInv, TypeOK, Request, ringVars, Carries, CarriesOK, Authenticated, Issued, IdentityOf
<1>3. r \notin tooLate
  BY ServedInTime DEF Authenticated
<1>4. CarriesOK' /\ MemoriesOK' /\ TooLateOK' /\ HandlesOK'
  BY <1>2, <1>3, OneRequest, HandlesKept DEF ringVars
<1> QED BY <1>1, <1>4 DEF IInv

(* A request inside ServiceFor carries an identity, and holds the mutex.   *)
LEMMA Inside ==
  ASSUME IInv, NEW r \in Requests, Authenticated(r)
  PROVE  /\ req[r].ident \in Identity
         /\ req[r].ident.space \in ValidSpaces
         /\ req[r].token \in KeyIds
         /\ req[r].pc \in {"lookup", "opened"} => mu = r /\ phase # "closing"
<1>1. Issued(req[r].token) /\ req[r].ident = IdentityOf(req[r].token)
  BY DEF IInv, CarriesOK, Carries
<1>2. req[r].token \in KeyIds /\ keys[req[r].token] \in Key
  BY <1>1 DEF Issued, IInv, TypeOK, RingTypeOK
<1>3. req[r].ident \in Identity /\ req[r].ident.space \in ValidSpaces
  BY <1>1, <1>2 DEF IdentityOf, Identity, Key
<1>4. req[r].pc \in {"lookup", "opened"} => mu = r /\ phase # "closing"
  BY HostedAssumption DEF IInv, TypeOK
<1> QED BY <1>2, <1>3, <1>4

LEMMA FindHandleOK ==
  ASSUME IInv, NEW r \in Requests, FindHandle(r)
  PROVE  IInv'
<1>1. /\ req[r].ident \in Identity /\ req[r].ident.space \in ValidSpaces
      /\ mu = r /\ phase # "closing" /\ r \notin tooLate
  BY Inside, ServedInTime DEF FindHandle, Authenticated
<1> DEFINE h == registry[req[r].ident.space]
<1>2. h \in Handle /\ h.space = req[r].ident.space
  BY <1>1 DEF FindHandle, IInv, TypeOK, HandlesOK
<1> HIDE DEF h
<1>3. MovesOn(r, "call", req[r].ident, h)
  <2>1. req' = [req EXCEPT ![r].pc = "call", ![r].svc = h]
    BY DEF h, FindHandle
  <2>2. "call" \in Steps /\ req \in [Requests -> Request]
    BY DEF IInv, TypeOK, Steps
  <2> QED BY <1>2, <2>1, <2>2, MoveWithHandle
<1>4. req[r].pc = "lookup" /\ mu' = None
      /\ UNCHANGED <<ringVars, phase, keysOpen, registry, open, memories, tooLate>>
  BY DEF FindHandle
<1>5. TypeOK'
  <2>1. /\ RingTypeOK' /\ phase' \in Phases /\ keysOpen' \in BOOLEAN
        /\ registry' \in [ValidSpaces -> Handle \cup {None}] /\ open' \subseteq Handle
        /\ memories' \in [ValidSpaces -> SUBSET Memory] /\ tooLate' \subseteq Requests
    BY <1>4 DEF IInv, TypeOK, RingTypeOK, ringVars
  <2>2. /\ mu' \in Requests \cup {Server, None}
        /\ \A q \in Requests : req'[q].pc \in {"lookup", "opened"} <=> mu' = q
        /\ phase' = "closing" <=> mu' = Server
    <3>1. req'[r].pc = "call"
      BY <1>3 DEF MovesOn, IInv, TypeOK, Request
    <3> QED BY <1>1, <1>3, <1>4, <3>1, HostedAssumption DEF MovesOn, IInv, TypeOK
  <2> QED BY <1>3, <2>1, <2>2 DEF MovesOn, TypeOK
<1>6. Carries(r)' /\ req'[r].pc = "call"
  BY <1>2, <1>3, <1>4
     DEF MovesOn, IInv, TypeOK, Request, ringVars, Carries, CarriesOK, Authenticated, Issued, IdentityOf
<1>7. CarriesOK' /\ MemoriesOK' /\ TooLateOK' /\ HandlesOK'
  BY <1>1, <1>3, <1>4, <1>6, OneRequest, HandlesKept DEF MovesOn, ringVars
<1> QED BY <1>5, <1>7 DEF IInv

LEMMA OpenFailsOK ==
  ASSUME IInv, NEW r \in Requests, OpenFails(r)
  PROVE  IInv'
<1>1. /\ mu = r /\ phase # "closing" /\ r \notin tooLate
      /\ req[r].pc = "lookup" /\ mu' = None
      /\ UNCHANGED <<ringVars, phase, keysOpen, registry, open, memories, tooLate>>
      /\ Answer(r, "error") /\ "error" \in Replies
  BY Inside, ServedInTime DEF OpenFails, Authenticated, Replies
<1>2. TypeOK'
  <2>1. /\ mu' \in Requests \cup {Server, None}
        /\ \A q \in Requests : req'[q].pc \in {"lookup", "opened"} <=> mu' = q
        /\ phase' = "closing" <=> mu' = Server
    BY <1>1, AnswerKept, HostedAssumption DEF IInv, TypeOK
  <2> QED BY <1>1, <2>1, AnswerKept DEF IInv, TypeOK, RingTypeOK, ringVars
<1>3. CarriesOK' /\ MemoriesOK' /\ TooLateOK' /\ HandlesOK'
  BY <1>1, AnswerKept, OneRequest, HandlesKept DEF ringVars
<1> QED BY <1>2, <1>3 DEF IInv

(* The new database is its request's until it is registered.               *)
LEMMA OpenSpaceOK ==
  ASSUME IInv, NEW r \in Requests, OpenSpace(r)
  PROVE  IInv'
<1>1. /\ req[r].ident \in Identity /\ req[r].ident.space \in ValidSpaces
      /\ mu = r /\ phase # "closing" /\ r \notin tooLate
  BY Inside, ServedInTime DEF OpenSpace, Authenticated
<1> DEFINE h == [by |-> r, space |-> req[r].ident.space]
<1>2. h \in Handle /\ h.space = req[r].ident.space
  BY <1>1 DEF Handle
<1> HIDE DEF h
<1>3. /\ req[r].pc = "lookup" /\ registry[h.space] = None
      /\ open' = open \cup {h}
      /\ req' = [req EXCEPT ![r].pc = "opened", ![r].svc = h]
      /\ UNCHANGED <<ringVars, phase, keysOpen, mu, registry, memories, tooLate>>
  BY <1>2 DEF OpenSpace, h
<1>4. MovesOn(r, "opened", req[r].ident, h)
  <2>1. "opened" \in Steps /\ req \in [Requests -> Request]
    BY DEF IInv, TypeOK, Steps
  <2> QED BY <1>2, <1>3, <2>1, MoveWithHandle
<1>5. req'[r].pc = "opened" /\ req'[r].svc = h
  BY <1>4 DEF MovesOn, IInv, TypeOK, Request
<1>6. TypeOK'
  <2>1. /\ mu' \in Requests \cup {Server, None}
        /\ \A q \in Requests : req'[q].pc \in {"lookup", "opened"} <=> mu' = q
        /\ phase' = "closing" <=> mu' = Server
    BY <1>1, <1>3, <1>4, <1>5 DEF MovesOn, IInv, TypeOK
  <2>2. /\ RingTypeOK' /\ phase' \in Phases /\ keysOpen' \in BOOLEAN
        /\ registry' \in [ValidSpaces -> Handle \cup {None}] /\ open' \subseteq Handle
        /\ memories' \in [ValidSpaces -> SUBSET Memory] /\ tooLate' \subseteq Requests
    BY <1>2, <1>3 DEF IInv, TypeOK, RingTypeOK, ringVars
  <2> QED BY <1>4, <2>1, <2>2 DEF MovesOn, TypeOK
<1>7. Carries(r)'
  BY <1>2, <1>3, <1>4, <1>5
     DEF MovesOn, IInv, TypeOK, Request, ringVars, Carries, CarriesOK, Authenticated, Issued, IdentityOf
<1>8. CarriesOK' /\ MemoriesOK' /\ TooLateOK'
  BY <1>1, <1>3, <1>4, <1>7, OneRequest DEF MovesOn, ringVars
<1>9. HandlesOK'
  <2>1. \A q \in Requests \ {r} : req'[q] = req[q] /\ req[q].pc # "opened"
    BY <1>1, <1>4 DEF MovesOn, IInv, TypeOK
  <2>2. \A g \in open : registry[g.space] = g
    BY <1>3, <2>1 DEF IInv, HandlesOK
  <2>3. h \in open' /\ \A g \in open' : registry'[g.space] = g \/ g = h
    BY <1>3, <2>2
  <2>4. \A g \in open' : \/ registry'[g.space] = g
                         \/ \E q \in Requests : req'[q].pc = "opened" /\ req'[q].svc = g
    BY <1>3, <1>5, <2>3
  <2>5. \A q \in Requests : req'[q].pc = "opened" =>
          req'[q].svc \in open' /\ registry'[req'[q].svc.space] = None
    BY <1>3, <1>5, <2>1, <2>3
  <2> QED BY <1>3, <2>4, <2>5 DEF IInv, HandlesOK
<1> QED BY <1>6, <1>8, <1>9 DEF IInv

LEMMA RegisterHandleOK ==
  ASSUME IInv, NEW r \in Requests, RegisterHandle(r)
  PROVE  IInv'
<1>1. /\ mu = r /\ phase # "closing" /\ r \notin tooLate
      /\ req[r].svc \in Handle /\ req[r].svc.space \in ValidSpaces
  BY Inside, ServedInTime DEF RegisterHandle, Authenticated, IInv, CarriesOK, Carries
<1>2. /\ req[r].pc = "opened" /\ mu' = None
      /\ registry' = [registry EXCEPT ![req[r].svc.space] = req[r].svc]
      /\ req' = [req EXCEPT ![r].pc = "call"]
      /\ UNCHANGED <<ringVars, phase, keysOpen, open, memories, tooLate>>
  BY DEF RegisterHandle
<1>3. MovesOn(r, "call", req[r].ident, req[r].svc)
  <2>1. "call" \in Steps /\ req \in [Requests -> Request]
    BY DEF IInv, TypeOK, Steps
  <2> QED BY <1>2, <2>1, Move
<1>4. req'[r].pc = "call"
  BY <1>3 DEF MovesOn, IInv, TypeOK, Request
<1>5. TypeOK'
  <2>1. /\ mu' \in Requests \cup {Server, None}
        /\ \A q \in Requests : req'[q].pc \in {"lookup", "opened"} <=> mu' = q
        /\ phase' = "closing" <=> mu' = Server
    BY <1>1, <1>2, <1>3, <1>4, HostedAssumption DEF MovesOn, IInv, TypeOK
  <2>2. /\ RingTypeOK' /\ phase' \in Phases /\ keysOpen' \in BOOLEAN
        /\ registry' \in [ValidSpaces -> Handle \cup {None}] /\ open' \subseteq Handle
        /\ memories' \in [ValidSpaces -> SUBSET Memory] /\ tooLate' \subseteq Requests
    BY <1>1, <1>2 DEF IInv, TypeOK, RingTypeOK, ringVars
  <2> QED BY <1>3, <2>1, <2>2 DEF MovesOn, TypeOK
<1>6. Carries(r)'
  BY <1>2, <1>3, <1>4
     DEF MovesOn, IInv, TypeOK, Request, ringVars, Carries, CarriesOK, Authenticated, Issued, IdentityOf
<1>7. CarriesOK' /\ MemoriesOK' /\ TooLateOK'
  BY <1>1, <1>2, <1>3, <1>6, OneRequest DEF MovesOn, ringVars
<1>8. HandlesOK'
  <2>1. \A q \in Requests : req'[q].pc # "opened"
    BY <1>1, <1>3, <1>4 DEF MovesOn, IInv, TypeOK
  <2>2. \A q \in Requests \ {r} : req[q].pc # "opened"
    BY <1>1 DEF IInv, TypeOK
  <2>3. req[r].svc \in open /\ registry[req[r].svc.space] = None
    BY <1>2 DEF IInv, HandlesOK
  <2>4. \A s \in ValidSpaces :
          registry'[s] = IF s = req[r].svc.space THEN req[r].svc ELSE registry[s]
    BY <1>2 DEF IInv, TypeOK
  <2>5. \A h \in open : registry'[h.space] = h
    <3> SUFFICES ASSUME NEW h \in open
                 PROVE  registry'[h.space] = h
      OBVIOUS
    <3>1. h.space \in ValidSpaces /\ h # None
      BY HostedAssumption DEF IInv, TypeOK, Handle
    <3>2. registry[h.space] = h \/ h = req[r].svc
      BY <2>2 DEF IInv, HandlesOK
    <3> QED BY <2>3, <2>4, <3>1, <3>2
  <2>6. \A s \in ValidSpaces : registry'[s] # None =>
          registry'[s].space = s /\ (phase' # "closing" => registry'[s] \in open')
    BY <1>2, <2>3, <2>4 DEF IInv, HandlesOK
  <2> QED BY <1>2, <2>1, <2>5, <2>6 DEF HandlesOK
<1> QED BY <1>5, <1>7, <1>8 DEF IInv

-----------------------------------------------------------------------------
(* The call of the Service.                                                *)
LEMMA CallFailsOK ==
  ASSUME IInv, NEW r \in Requests, CallFails(r)
  PROVE  IInv'
<1>1. /\ r \notin tooLate /\ req[r].pc = "call"
      /\ UNCHANGED <<ringVars, serverVars, memories, tooLate>>
      /\ Answer(r, "error") /\ "error" \in Replies
  BY ServedInTime DEF CallFails, Authenticated, Replies
<1>2. TypeOK'
  BY <1>1, AnswerKept DEF IInv, TypeOK, RingTypeOK, ringVars, serverVars
<1>3. CarriesOK' /\ MemoriesOK' /\ TooLateOK' /\ HandlesOK'
  BY <1>1, AnswerKept, OneRequest, HandlesKept DEF ringVars, serverVars
<1> QED BY <1>2, <1>3 DEF IInv

LEMMA CallOtherOK ==
  ASSUME IInv, NEW r \in Requests, CallOther(r)
  PROVE  IInv'
<1>1. /\ r \notin tooLate /\ req[r].pc = "call"
      /\ UNCHANGED <<ringVars, serverVars, memories, tooLate>>
      /\ Answer(r, "ok") /\ "ok" \in Replies
  BY ServedInTime DEF CallOther, Authenticated, Replies
<1>2. TypeOK'
  BY <1>1, AnswerKept DEF IInv, TypeOK, RingTypeOK, ringVars, serverVars
<1>3. CarriesOK' /\ MemoriesOK' /\ TooLateOK' /\ HandlesOK'
  BY <1>1, AnswerKept, OneRequest, HandlesKept DEF ringVars, serverVars
<1> QED BY <1>2, <1>3 DEF IInv

(* What is stored lands in the space of the key the request showed, under  *)
(* the name of that key.                                                   *)
LEMMA CallStoreOK ==
  ASSUME IInv, NEW r \in Requests, CallStore(r)
  PROVE  IInv'
<1> DEFINE s0 == req[r].svc.space
<1>0. PICK source \in Labels :
        memories' = [memories EXCEPT ![s0] = @ \cup {[by |-> r, source |-> SourceOf(r, source)]}]
  BY DEF CallStore
<1> DEFINE m0 == [by |-> r, source |-> SourceOf(r, source)]
<1>1. /\ r \notin tooLate /\ req[r].pc = "call"
      /\ UNCHANGED <<ringVars, serverVars, tooLate>>
      /\ memories' = [memories EXCEPT ![s0] = @ \cup {m0}]
      /\ Answer(r, "ok") /\ "ok" \in Replies
  BY <1>0, ServedInTime DEF CallStore, Authenticated, Replies
<1>2. /\ Issued(req[r].token) /\ req[r].ident = IdentityOf(req[r].token)
      /\ req[r].ident \in Identity /\ s0 = req[r].ident.space
  BY <1>1, Inside DEF IInv, CarriesOK, Carries, Authenticated
<1>3. /\ s0 \in ValidSpaces /\ m0 \in Memory /\ m0.by = r
      /\ keys[req[r].token].space = s0 /\ keys[req[r].token].name = m0.source
  BY <1>2 DEF Identity, IdentityOf, Memory, SourceOf
<1> HIDE DEF s0, m0
<1>4. TypeOK'
  <2>1. memories' \in [ValidSpaces -> SUBSET Memory]
    BY <1>1, <1>3 DEF IInv, TypeOK
  <2> QED BY <1>1, <2>1, AnswerKept DEF IInv, TypeOK, RingTypeOK, ringVars, serverVars
<1>5. CarriesOK' /\ TooLateOK' /\ HandlesOK'
  BY <1>1, AnswerKept, OneRequest, HandlesKept DEF ringVars, serverVars
<1>6. MemoriesOK'
  <2>1. /\ req'[r].pc = "done" /\ req'[r].token = req[r].token
        /\ \A q \in Requests \ {r} : req'[q] = req[q]
    BY <1>1, AnswerKept
  <2> SUFFICES ASSUME NEW s \in ValidSpaces, NEW m \in memories'[s]
               PROVE  /\ req'[m.by].pc = "done" /\ m.by \notin tooLate
                      /\ Issued(req'[m.by].token)
                      /\ keys[req'[m.by].token].space = s
                      /\ keys[req'[m.by].token].name = m.source
    BY <1>1 DEF MemoriesOK, Issued, ringVars
  <2>2. m \in memories[s] \/ (s = s0 /\ m = m0)
    BY <1>1, <1>3 DEF IInv, TypeOK
  <2>3. CASE m \in memories[s]
    <3>1. m.by \in Requests
      BY <2>3 DEF IInv, TypeOK, Memory
    <3>2. req[m.by].pc = "done"
      BY <2>3 DEF IInv, MemoriesOK
    <3>3. req'[m.by] = req[m.by]
      BY <1>1, <2>1, <3>1, <3>2
    <3> QED BY <2>3, <3>3 DEF IInv, MemoriesOK
  <2>4. CASE s = s0 /\ m = m0
    BY <1>1, <1>2, <1>3, <2>1, <2>4
  <2> QED BY <2>2, <2>3, <2>4
<1> QED BY <1>4, <1>5, <1>6 DEF IInv

-----------------------------------------------------------------------------
(* A request that comes after a revocation is too late from its first step.*)
LEMMA ArriveOK ==
  ASSUME IInv, NEW r \in Requests, Arrive(r)
  PROVE  IInv'
<1>1. PICK health \in BOOLEAN, token \in KeyIds \cup {None} :
        /\ health => token = None
        /\ req' = [req EXCEPT ![r].pc = "arrived", ![r].health = health, ![r].token = token]
        /\ tooLate' = IF RevokedKey(token) THEN tooLate \cup {r} ELSE tooLate
  BY DEF Arrive
<1>2. req[r].pc = "new" /\ UNCHANGED <<ringVars, serverVars, memories>>
  BY DEF Arrive
<1>3. /\ req' \in [Requests -> Request]
      /\ \A q \in Requests \ {r} : req'[q] = req[q]
      /\ req'[r] = [req[r] EXCEPT !.pc = "arrived", !.health = health, !.token = token]
  <2> DEFINE x == [req[r] EXCEPT !.pc = "arrived", !.health = health,
                                 !.token = token]
  <2>1. req \in [Requests -> Request] /\ req[r] \in Request
    BY DEF IInv, TypeOK
  <2>2. x \in Request
    BY <2>1 DEF Request, Steps
  <2>3. req' = [req EXCEPT ![r] = x]
    BY <1>1, <2>1 DEF Request
  <2> HIDE DEF x
  <2>4. req' \in [Requests -> Request] /\ req'[r] = x /\ \A q \in Requests \ {r} : req'[q] = req[q]
    BY <2>1, <2>2, <2>3
  <2> QED BY <2>4 DEF x
<1>4. /\ req'[r].pc = "arrived" /\ req'[r].token = token /\ req'[r].health = health
      /\ req'[r].ident = req[r].ident /\ req'[r].reply = req[r].reply
  BY <1>3 DEF IInv, TypeOK, Request
<1>5. TypeOK'
  <2>1. tooLate' \subseteq Requests
    BY <1>1 DEF IInv, TypeOK
  <2> QED BY <1>2, <1>3, <1>4, <2>1 DEF IInv, TypeOK, RingTypeOK, ringVars, serverVars
<1>6. CarriesOK'
  BY <1>1, <1>2, <1>3, <1>4
     DEF IInv, CarriesOK, Carries, Authenticated, Issued, IdentityOf, ringVars
<1>7. MemoriesOK'
  BY <1>1, <1>2, <1>3 DEF IInv, MemoriesOK, TypeOK, Memory, Issued, ringVars
<1>8. TooLateOK'
  BY <1>1, <1>2, <1>3, <1>4 DEF IInv, TooLateOK, CarriesOK, Carries, TypeOK, RevokedKey, ringVars
<1>9. HandlesOK'
  BY <1>2, <1>3, <1>4, HandlesKept DEF serverVars
<1> QED BY <1>5, <1>6, <1>7, <1>8, <1>9 DEF IInv

-----------------------------------------------------------------------------
(* An admin's step keeps what a request carries true: a row is never taken *)
(* back, moved or renamed, and a revocation stays.                         *)
LEMMA AdminOK ==
  ASSUME IInv, Admin
  PROVE  IInv'
<1>1. RingTypeOK /\ [RingNext]_ringVars /\ UNCHANGED <<serverVars, req, memories, tooLate>>
  BY DEF Admin, IInv, TypeOK
<1>2. ASSUME NEW id \in KeyIds, keys[id] # NoKey
      PROVE  /\ keys'[id] # NoKey
             /\ keys'[id].name = keys[id].name
             /\ keys'[id].space = keys[id].space
             /\ keys[id].revoked_at # Never => keys'[id] = keys[id]
  BY <1>1, <1>2, RingStepSticks
<1>3. TypeOK'
  BY <1>1, RingStepTyped DEF IInv, TypeOK, serverVars
<1>4. CarriesOK'
  BY <1>1, <1>2 DEF IInv, CarriesOK, Carries, Authenticated, Issued, IdentityOf
<1>5. MemoriesOK'
  BY <1>1, <1>2 DEF IInv, MemoriesOK, Issued
<1>6. TooLateOK'
  BY <1>1, <1>2 DEF IInv, TooLateOK, RevokedKey
<1>7. HandlesOK'
  BY <1>1 DEF IInv, HandlesOK, serverVars
<1> QED BY <1>3, <1>4, <1>5, <1>6, <1>7 DEF IInv

(* The steps of the process leave keys, memories and what requests carry.  *)
LEMMA ProcessStep ==
  ASSUME IInv, UNCHANGED <<ringVars, req, memories, tooLate>>, TypeOK', HandlesOK'
  PROVE  IInv'
<1>1. CarriesOK'
  BY DEF IInv, CarriesOK, Carries, Authenticated, Issued, IdentityOf, ringVars
<1>2. MemoriesOK' /\ TooLateOK'
  BY DEF IInv, MemoriesOK, TooLateOK, Issued, RevokedKey, ringVars
<1> QED BY <1>1, <1>2 DEF IInv

LEMMA StopOK ==
  ASSUME IInv, Stop
  PROVE  IInv'
<1>1. TypeOK' /\ HandlesOK'
  BY DEF Stop, IInv, TypeOK, RingTypeOK, ringVars, Phases, HandlesOK
<1> QED BY <1>1, ProcessStep DEF Stop

LEMMA StartOK ==
  ASSUME IInv, Start
  PROVE  IInv'
<1>1. TypeOK' /\ HandlesOK'
  BY DEF Start, IInv, TypeOK, RingTypeOK, ringVars, Phases, HandlesOK
<1> QED BY <1>1, ProcessStep DEF Start

LEMMA CloseKeysOK ==
  ASSUME IInv, CloseKeys
  PROVE  IInv'
<1>1. TypeOK' /\ HandlesOK'
  BY DEF CloseKeys, IInv, TypeOK, RingTypeOK, ringVars, HandlesOK
<1> QED BY <1>1, ProcessStep DEF CloseKeys

LEMMA BeginCloseOK ==
  ASSUME IInv, BeginClose
  PROVE  IInv'
<1>1. TypeOK'
  BY HostedAssumption DEF BeginClose, IInv, TypeOK, RingTypeOK, ringVars, Phases
<1>2. HandlesOK'
  BY DEF BeginClose, IInv, HandlesOK
<1> QED BY <1>1, <1>2, ProcessStep DEF BeginClose

(* While Close holds the mutex nobody is between open and register.        *)
LEMMA CloseHandleOK ==
  ASSUME IInv, NEW s \in ValidSpaces, CloseHandle(s)
  PROVE  IInv'
<1>1. TypeOK'
  BY DEF CloseHandle, IInv, TypeOK, RingTypeOK, ringVars
<1>2. \A r \in Requests : req[r].pc # "opened"
  BY HostedAssumption DEF CloseHandle, IInv, TypeOK
<1>3. HandlesOK'
  BY <1>2 DEF CloseHandle, IInv, HandlesOK
<1> QED BY <1>1, <1>3, ProcessStep DEF CloseHandle

LEMMA EndCloseOK ==
  ASSUME IInv, EndClose
  PROVE  IInv'
<1>1. TypeOK'
  BY HostedAssumption DEF EndClose, IInv, TypeOK, RingTypeOK, ringVars, Phases
<1>2. \A r \in Requests : req[r].pc # "opened"
  BY HostedAssumption DEF EndClose, IInv, TypeOK
<1>3. open = {}
  BY <1>2 DEF EndClose, IInv, TypeOK, Handle, HandlesOK
<1>4. HandlesOK'
  BY <1>2, <1>3 DEF EndClose, HandlesOK
<1> QED BY <1>1, <1>4, ProcessStep DEF EndClose

(* A crash loses the requests in flight: they keep their token and nothing *)
(* else.                                                                   *)
LEMMA ExitOK ==
  ASSUME IInv, Exit
  PROVE  IInv'
<1>1. /\ phase' = "down" /\ keysOpen' = FALSE /\ mu' = None /\ open' = {}
      /\ registry' = [s \in ValidSpaces |-> None]
      /\ UNCHANGED <<ringVars, memories, tooLate>>
  BY DEF Exit
<1>2. \A r \in Requests : req[r] \in Request
  BY DEF IInv, TypeOK
<1>3. \A r \in Requests : InFlight(r) =>
        /\ Done(r, "lost") \in Request
        /\ Done(r, "lost").pc = "done" /\ Done(r, "lost").reply = "lost"
        /\ Done(r, "lost").token = req[r].token
        /\ Done(r, "lost").ident = None /\ ~Done(r, "lost").health
  BY <1>2 DEF Done, NewRequest, Request, Steps, Replies
<1>4. req' = [r \in Requests |-> IF InFlight(r) THEN Done(r, "lost") ELSE req[r]]
  BY DEF Exit
<1>5. /\ req' \in [Requests -> Request]
      /\ \A r \in Requests :
           \/ req'[r] = req[r] /\ req[r].pc \in {"new", "done"}
           \/ /\ req[r].pc \notin {"new", "done"}
              /\ req'[r].pc = "done" /\ req'[r].reply = "lost"
              /\ req'[r].token = req[r].token
              /\ req'[r].ident = None /\ ~req'[r].health
  <2>1. \A r \in Requests : req'[r] = IF InFlight(r) THEN Done(r, "lost") ELSE req[r]
    BY <1>4
  <2>2. req' \in [Requests -> Request]
    BY <1>2, <1>3, <1>4
  <2> QED BY <1>3, <2>1, <2>2 DEF InFlight
<1>6. TypeOK'
  <2>1. \A r \in Requests : req'[r].pc \notin {"lookup", "opened"}
    BY <1>5
  <2> QED BY <1>1, <1>5, <2>1, HostedAssumption DEF IInv, TypeOK, RingTypeOK, ringVars, Phases
<1>7. CarriesOK'
  BY <1>1, <1>5 DEF IInv, CarriesOK, Carries, Authenticated, Issued, IdentityOf, ringVars
<1>8. MemoriesOK'
  BY <1>1, <1>5 DEF IInv, MemoriesOK, TypeOK, Memory, Issued, ringVars
<1>9. TooLateOK'
  BY <1>1, <1>5 DEF IInv, TooLateOK, TypeOK, RevokedKey, ringVars
<1>10. HandlesOK'
  BY <1>1, <1>5 DEF HandlesOK
<1> QED BY <1>6, <1>7, <1>8, <1>9, <1>10 DEF IInv

-----------------------------------------------------------------------------
(* Every step of Hosted preserves the invariant.                           *)
LEMMA NextOK == IInv /\ [Next]_vars => IInv'
<1> SUFFICES ASSUME IInv, [Next]_vars
             PROVE  IInv'
  OBVIOUS
<1>1. ASSUME NEW r \in Requests, Step(r)
      PROVE  IInv'
  BY <1>1, PassOpenPathOK, AuthenticateOK, RefuseOK, EnterServiceForOK, FindHandleOK,
     OpenSpaceOK, OpenFailsOK, RegisterHandleOK, CallStoreOK, CallOtherOK, CallFailsOK DEF Step
<1>2. CASE Closing
  BY <1>2, BeginCloseOK, CloseHandleOK, EndCloseOK, CloseKeysOK DEF Closing
<1>3. CASE UNCHANGED vars
  <2>1. TypeOK' /\ HandlesOK'
    BY <1>3 DEF vars, IInv, TypeOK, RingTypeOK, HandlesOK
  <2> QED BY <1>3, <2>1, ProcessStep DEF vars, ringVars
<1> QED BY <1>1, <1>2, <1>3, AdminOK, ArriveOK, StopOK, ExitOK, StartOK DEF Next

(* The invariant the theorems below rest on holds of every reachable state.*)
THEOREM Inductive == Spec => []IInv
BY InitOK, NextOK, PTL DEF Spec

(* The shape of the state, and who holds SpaceRegistry.mu.                 *)
THEOREM TypeCorrect == Spec => []TypeOK
<1>1. IInv => TypeOK
  BY DEF IInv
<1> QED BY <1>1, Inductive, PTL

(* No key reaches a second space, none writes in another's name.           *)
THEOREM SpacesIsolated == Spec => []Isolation
<1>1. IInv => Isolation
  BY DEF IInv, MemoriesOK, Isolation, Issued
<1> QED BY <1>1, Inductive, PTL

(* A key revoked before a request arrives gives it nothing but a refusal.  *)
THEOREM RevocationTakesEffect == Spec => []RevokedIsOut
<1>1. ASSUME IInv
      PROVE  RevokedIsOut
  <2>1. \A r \in tooLate : r \in Requests /\ req[r].ident = None
    BY <1>1 DEF IInv, TypeOK, TooLateOK, CarriesOK, Carries, Authenticated
  <2>2. \A r \in tooLate : \A s \in ValidSpaces : \A m \in memories[s] : m.by # r
    BY <1>1 DEF IInv, MemoriesOK
  <2> QED BY <1>1, <2>1, <2>2 DEF IInv, TooLateOK, RevokedIsOut
<1> QED BY <1>1, Inductive, PTL

(* One open database per space, all of them registered between calls.      *)
THEOREM NoHandleLeaks == Spec => []HandlesAccounted
<1>1. ASSUME IInv
      PROVE  HandlesAccounted
  <2>1. \A h1, h2 \in open : h1.space = h2.space => h1 = h2
    <3> SUFFICES ASSUME NEW h1 \in open, NEW h2 \in open, h1.space = h2.space
                 PROVE  h1 = h2
      OBVIOUS
    <3>1. h1 # None /\ h2 # None
      BY <1>1, HostedAssumption DEF IInv, TypeOK, Handle
    <3>2. \A q, r \in Requests : req[q].pc = "opened" /\ req[r].pc = "opened" => q = r
      BY <1>1 DEF IInv, TypeOK
    <3> QED BY <1>1, <3>1, <3>2 DEF IInv, HandlesOK
  <2>2. mu = None => open = {registry[s] : s \in ValidSpaces} \ {None}
    <3> SUFFICES ASSUME mu = None
                 PROVE  open = {registry[s] : s \in ValidSpaces} \ {None}
      OBVIOUS
    <3>1. phase # "closing" /\ \A r \in Requests : req[r].pc # "opened"
      BY <1>1, HostedAssumption DEF IInv, TypeOK
    <3>2. \A h \in open : h.space \in ValidSpaces /\ registry[h.space] = h /\ h # None
      BY <1>1, <3>1, HostedAssumption DEF IInv, TypeOK, Handle, HandlesOK
    <3>3. \A s \in ValidSpaces : registry[s] # None => registry[s] \in open
      BY <1>1, <3>1 DEF IInv, HandlesOK
    <3> QED BY <3>2, <3>3
  <2> QED BY <1>1, <2>1, <2>2 DEF IInv, HandlesOK, HandlesAccounted
<1> QED BY <1>1, Inductive, PTL
=============================================================================
