------------------------------- MODULE Hosted -------------------------------
(***************************************************************************)
(* The hosted server: a gRPC request passes the auth interceptor (a token  *)
(* becomes an identity: key, name, space), the handler's resolve (the      *)
(* space becomes an open memory database) and a call of that space's       *)
(* Service. Meanwhile admins create and revoke keys in the same keys.db,   *)
(* and the server stops, crashes and starts again.                         *)
(*                                                                         *)
(* Each request runs in a goroutine of its own. They share keys.db and the *)
(* SpaceRegistry, whose mutex spans the first open of a space and Close.   *)
(***************************************************************************)
EXTENDS KeyRing

CONSTANTS
  Requests,  \* gRPC calls, each made once
  Server,    \* the goroutine that runs Run and closes the adapters
  None       \* no token, no handle, nobody holds the mutex

ASSUME HostedAssumption ==
  /\ Server \notin Requests
  /\ None \notin Requests \cup {Server}
  /\ None \notin KeyIds
  /\ None \notin [by : Requests, space : ValidSpaces]
  /\ None \notin [key : KeyIds, name : Labels, space : ValidSpaces]

VARIABLES
  phase,      \* of the server process
  keysOpen,   \* its connection to keys.db
  mu,         \* SpaceRegistry.mu: who is in ServiceFor or Close
  registry,   \* SpaceRegistry.spaces: [ValidSpaces -> handle, or None]
  open,       \* the handles whose database is open
  req,        \* [Requests -> request]
  memories,   \* [ValidSpaces -> what the space's file holds]
  tooLate     \* requests that came after their key's revocation

serverVars == <<phase, keysOpen, mu, registry, open>>
vars == <<spaces, keys, phase, keysOpen, mu, registry, open, req, memories, tooLate>>

-----------------------------------------------------------------------------
(* A database handle is told apart by the request that opened it.          *)
Handle == [by : Requests, space : ValidSpaces]

(* What identity.With puts into the context.                               *)
Identity == [key : KeyIds, name : Labels, space : ValidSpaces]

(* A stored memory: the request it came with, and its source.              *)
Memory == [by : Requests, source : Labels]

Phases == {"serving", "stopping", "closing", "closed", "down"}

Steps == {"new", "arrived", "resolve", "lookup", "opened", "call", "done"}

Replies == {"none", "ok", "unauthenticated", "error", "lost"}

(* health: the paths that need no key.                                     *)
NewRequest == [pc |-> "new", health |-> FALSE, token |-> None,
               ident |-> None, svc |-> None, reply |-> "none"]

Init ==
  /\ RingInit
  /\ phase = "serving"
  /\ keysOpen = TRUE
  /\ mu = None
  /\ registry = [s \in ValidSpaces |-> None]
  /\ open = {}
  /\ req = [r \in Requests |-> NewRequest]
  /\ memories = [s \in ValidSpaces |-> {}]
  /\ tooLate = {}

InFlight(r) == req[r].pc \notin {"new", "done"}

RevokedKey(token) ==
  token \in KeyIds /\ keys[token] # NoKey /\ keys[token].revoked_at # Never

-----------------------------------------------------------------------------
(* Admins: each transaction on keys.db is one step (module ApiKeys).       *)
Admin ==
  /\ RingNext
  /\ UNCHANGED <<serverVars, req, memories, tooLate>>

(* grpckit serves until its context is cancelled; nothing here relies on   *)
(* its waiting for the requests that are in flight then.                   *)
Arrive(r) ==
  /\ phase = "serving"
  /\ req[r].pc = "new"
  /\ \E health \in BOOLEAN, token \in KeyIds \cup {None} :
       /\ health => token = None
       /\ req' = [req EXCEPT ![r].pc = "arrived", ![r].health = health, ![r].token = token]
       /\ tooLate' = IF RevokedKey(token) THEN tooLate \cup {r} ELSE tooLate
  /\ UNCHANGED <<ringVars, serverVars, memories>>

Done(r, reply) ==
  [NewRequest EXCEPT !.pc = "done", !.token = req[r].token, !.reply = reply]

Answer(r, reply) ==
  req' = [req EXCEPT ![r] = Done(r, reply)]

-----------------------------------------------------------------------------
(* UnaryInterceptor.                                                       *)

(* Liveness probes and reflection reach no memory.                         *)
PassOpenPath(r) ==
  /\ req[r].pc = "arrived"
  /\ req[r].health
  /\ Answer(r, "ok")
  /\ UNCHANGED <<ringVars, serverVars, memories, tooLate>>

IdentityOf(token) == [key |-> token, name |-> keys[token].name, space |-> keys[token].space]

Authenticate(r) ==
  /\ req[r].pc = "arrived"
  /\ ~req[r].health
  /\ keysOpen
  /\ Active(req[r].token)
  /\ req' = [req EXCEPT ![r].pc = "resolve", ![r].ident = IdentityOf(req[r].token)]
  /\ UNCHANGED <<ringVars, serverVars, memories, tooLate>>

(* No bearer token, an unknown one, a revoked one, or a lookup in keys.db  *)
(* that fails, as any may: every failure reads the same.                   *)
Refuse(r) ==
  /\ req[r].pc = "arrived"
  /\ ~req[r].health
  /\ Answer(r, "unauthenticated")
  /\ UNCHANGED <<ringVars, serverVars, memories, tooLate>>

-----------------------------------------------------------------------------
(* SpaceRegistry.ServiceFor, called by the handler's resolve. It checks    *)
(* the name again, which the name of a key always passes (RingTypeOK).     *)
(* A plausible mistake, no mutex: two requests open a space at once.       *)
EnterServiceFor_Unguarded(r) ==
  /\ req[r].pc = "resolve"
  /\ ValidateSpaceName(req[r].ident.space)
  /\ mu' = r
  /\ req' = [req EXCEPT ![r].pc = "lookup"]
  /\ UNCHANGED <<ringVars, phase, keysOpen, registry, open, memories, tooLate>>

EnterServiceFor(r) ==
  /\ req[r].pc = "resolve"
  /\ ValidateSpaceName(req[r].ident.space)
  /\ mu = None
  /\ mu' = r
  /\ req' = [req EXCEPT ![r].pc = "lookup"]
  /\ UNCHANGED <<ringVars, phase, keysOpen, registry, open, memories, tooLate>>

FindHandle(r) ==
  /\ req[r].pc = "lookup"
  /\ registry[req[r].ident.space] # None
  /\ mu' = None
  /\ req' = [req EXCEPT ![r].pc = "call", ![r].svc = registry[req[r].ident.space]]
  /\ UNCHANGED <<ringVars, phase, keysOpen, registry, open, memories, tooLate>>

(* storage.Open: the file, its pragmas and its migrations.                 *)
OpenSpace(r) ==
  /\ req[r].pc = "lookup"
  /\ registry[req[r].ident.space] = None
  /\ LET handle == [by |-> r, space |-> req[r].ident.space]
     IN  /\ open' = open \cup {handle}
         /\ req' = [req EXCEPT ![r].pc = "opened", ![r].svc = handle]
  /\ UNCHANGED <<ringVars, phase, keysOpen, mu, registry, memories, tooLate>>

(* A plausible mistake: the early return forgets to unlock.                *)
OpenFails_LockKept(r) ==
  /\ req[r].pc = "lookup"
  /\ registry[req[r].ident.space] = None
  /\ Answer(r, "error")
  /\ UNCHANGED <<ringVars, serverVars, memories, tooLate>>

(* storage.Open closes what it opened before it returns an error; the      *)
(* deferred Unlock runs on this path too.                                  *)
OpenFails(r) ==
  /\ req[r].pc = "lookup"
  /\ registry[req[r].ident.space] = None
  /\ mu' = None
  /\ Answer(r, "error")
  /\ UNCHANGED <<ringVars, phase, keysOpen, registry, open, memories, tooLate>>

RegisterHandle(r) ==
  /\ req[r].pc = "opened"
  /\ registry' = [registry EXCEPT ![req[r].svc.space] = req[r].svc]
  /\ mu' = None
  /\ req' = [req EXCEPT ![r].pc = "call"]
  /\ UNCHANGED <<ringVars, phase, keysOpen, open, memories, tooLate>>

-----------------------------------------------------------------------------
(* The handler's call of the Service, then the answer.                     *)

(* A plausible mistake: the client says who wrote.                         *)
SourceOf_Client(r, source) == source

(* A Store carries the source the client claims. The handler ignores it:   *)
(* the writer of a memory is the name of the key.                          *)
SourceOf(r, source) == req[r].ident.name

CallStore(r) ==
  /\ req[r].pc = "call"
  /\ req[r].svc \in open
  /\ \E source \in Labels :
       memories' = [memories EXCEPT ![req[r].svc.space] =
                      @ \cup {[by |-> r, source |-> SourceOf(r, source)]}]
  /\ Answer(r, "ok")
  /\ UNCHANGED <<ringVars, serverVars, tooLate>>

(* Search, Get, Rate, Recall and Delete.                                   *)
CallOther(r) ==
  /\ req[r].pc = "call"
  /\ req[r].svc \in open
  /\ Answer(r, "ok")
  /\ UNCHANGED <<ringVars, serverVars, memories, tooLate>>

(* A domain error, or a database that Close has closed under the call.     *)
CallFails(r) ==
  /\ req[r].pc = "call"
  /\ Answer(r, "error")
  /\ UNCHANGED <<ringVars, serverVars, memories, tooLate>>

-----------------------------------------------------------------------------
(* Run: the context is cancelled, then the adapters close, in any order;   *)
(* requests that are still in flight go on meanwhile.                      *)
Stop ==
  /\ phase = "serving"
  /\ phase' = "stopping"
  /\ UNCHANGED <<ringVars, keysOpen, mu, registry, open, req, memories, tooLate>>

BeginClose ==
  /\ phase = "stopping"
  /\ mu = None
  /\ mu' = Server
  /\ phase' = "closing"
  /\ UNCHANGED <<ringVars, keysOpen, registry, open, req, memories, tooLate>>

CloseHandle(s) ==
  /\ phase = "closing"
  /\ registry[s] \in open
  /\ open' = open \ {registry[s]}
  /\ UNCHANGED <<ringVars, phase, keysOpen, mu, registry, req, memories, tooLate>>

EndClose ==
  /\ phase = "closing"
  /\ \A s \in ValidSpaces : registry[s] \notin open
  /\ registry' = [s \in ValidSpaces |-> None]
  /\ mu' = None
  /\ phase' = "closed"
  /\ UNCHANGED <<ringVars, keysOpen, open, req, memories, tooLate>>

CloseKeys ==
  /\ phase \in {"stopping", "closing", "closed"}
  /\ keysOpen
  /\ keysOpen' = FALSE
  /\ UNCHANGED <<ringVars, phase, mu, registry, open, req, memories, tooLate>>

(* The process ends, after Close or by a crash at any time before: its     *)
(* locks and handles go with it, the files stay.                           *)
Exit ==
  /\ phase # "down"
  /\ phase' = "down"
  /\ keysOpen' = FALSE
  /\ mu' = None
  /\ registry' = [s \in ValidSpaces |-> None]
  /\ open' = {}
  /\ req' = [r \in Requests |->
               IF InFlight(r) THEN Done(r, "lost") ELSE req[r]]
  /\ UNCHANGED <<ringVars, memories, tooLate>>

Start ==
  /\ phase = "down"
  /\ phase' = "serving"
  /\ keysOpen' = TRUE
  /\ UNCHANGED <<ringVars, mu, registry, open, req, memories, tooLate>>

-----------------------------------------------------------------------------
Step(r) ==
  \/ PassOpenPath(r) \/ Authenticate(r) \/ Refuse(r)
  \/ EnterServiceFor(r) \/ FindHandle(r) \/ OpenSpace(r) \/ OpenFails(r) \/ RegisterHandle(r)
  \/ CallStore(r) \/ CallOther(r) \/ CallFails(r)

Closing == BeginClose \/ (\E s \in ValidSpaces : CloseHandle(s)) \/ EndClose \/ CloseKeys

Next ==
  \/ Admin
  \/ \E r \in Requests : Arrive(r) \/ Step(r)
  \/ Stop \/ Closing \/ Exit \/ Start

Spec == Init /\ [][Next]_vars

(* The goroutine of a request runs until it answers, and Close until it is *)
(* done. A crash, a stop and a restart are nobody's obligation.            *)
FairSpec ==
  /\ Spec
  /\ \A r \in Requests : WF_vars(Step(r))
  /\ WF_vars(Closing)

-----------------------------------------------------------------------------
Request == [pc : Steps, health : BOOLEAN, token : KeyIds \cup {None},
            ident : Identity \cup {None}, svc : Handle \cup {None}, reply : Replies]

(* The shape of the state, and the mutex: it is held by exactly the        *)
(* request inside ServiceFor or the goroutine inside Close (registry.go).  *)
TypeOK ==
  /\ RingTypeOK
  /\ phase \in Phases
  /\ keysOpen \in BOOLEAN
  /\ registry \in [ValidSpaces -> Handle \cup {None}]
  /\ open \subseteq Handle
  /\ req \in [Requests -> Request]
  /\ memories \in [ValidSpaces -> SUBSET Memory]
  /\ tooLate \subseteq Requests
  /\ mu \in Requests \cup {Server, None}
  /\ \A r \in Requests : req[r].pc \in {"lookup", "opened"} <=> mu = r
  /\ phase = "closing" <=> mu = Server

(* Whatever is in the file of a space was stored by a request that showed  *)
(* a key of that space, and its source is the name of that key: however    *)
(* requests of several spaces, admins, crashes and restarts interleave, no *)
(* key reaches a second space and none writes in another's name            *)
(* (interceptor.go, handler.go Store, registry.go ServiceFor).             *)
Isolation ==
  \A s \in ValidSpaces : \A m \in memories[s] :
    LET token == req[m.by].token IN
      /\ token \in KeyIds
      /\ keys[token] # NoKey
      /\ keys[token].space = s
      /\ keys[token].name = m.source

(* Once a revocation is committed, a request that arrives with the key     *)
(* gets no identity, no answer but a refusal, and leaves no memory: not    *)
(* even on a server that served the key before (managekeys.go Revoke and   *)
(* Authenticate; the server keeps no copy of keys.db).                     *)
RevokedIsOut ==
  \A r \in tooLate :
    /\ req[r].ident = None
    /\ req[r].reply \in {"none", "unauthenticated", "lost"}
    /\ \A s \in ValidSpaces : \A m \in memories[s] : m.by # r

(* At most one database is open per space, and whenever nobody is inside   *)
(* the registry, the open databases are exactly the registered ones: none  *)
(* is leaked by two first requests, by an open that fails or by a request  *)
(* that comes while Close runs (registry.go ServiceFor, Close).            *)
HandlesAccounted ==
  /\ \A h1, h2 \in open : h1.space = h2.space => h1 = h2
  /\ \A s \in ValidSpaces : registry[s] # None => registry[s].space = s
  /\ mu = None => open = {registry[s] : s \in ValidSpaces} \ {None}

(* Every request is answered, or lost with its process: no error path      *)
(* leaves the registry locked (registry.go: defer r.mu.Unlock).            *)
Answered == \A r \in Requests : InFlight(r) ~> ~InFlight(r)
=============================================================================
