--------------------------- MODULE MemoryService ----------------------------
(***************************************************************************)
(* What the memories feature promises its callers, whatever the storage    *)
(* underneath: a set of memories addressed by id, and calls (Store, Rate,  *)
(* Delete, Get of feature.go's Service) that take effect at ONE instant    *)
(* between their invocation and their answer, or not at all.               *)
(*                                                                         *)
(* MemoryStore implements this module: there a call is a sequence of SQL   *)
(* statements in a transaction, and callers crash between any two of them. *)
(***************************************************************************)
EXTENDS Naturals

CONSTANTS
  Callers,   \* CLI one-shots, MCP servers, TUIs, server requests
  Ids,       \* memory ids (uuids)
  Keywords,
  NoId       \* the empty string: no superseded_by, no Supersedes

VARIABLES
  memories,  \* [Ids -> memory, or Absent]
  issued,    \* the ids NewID has handed out: no id is handed out twice
  call       \* what each caller is waiting for

Absent == [present |-> FALSE, keywords |-> {}, superseded_by |-> NoId,
           votes_up |-> 0, votes_down |-> 0, access_count |-> 0]

Fresh(kws) == [present |-> TRUE, keywords |-> kws, superseded_by |-> NoId,
               votes_up |-> 0, votes_down |-> 0, access_count |-> 0]

(***************************************************************************)
(* A call names the operation, the memory it loads first ("target": the    *)
(* id rated, deleted or read, or the memory a Store supersedes), and for a *)
(* Store the new id and the keywords; "up" is the verdict of a Rate.       *)
(***************************************************************************)
Ops == {"store", "rate", "delete", "get"}

Request == [op : Ops, target : Ids \cup {NoId}, id : Ids \cup {NoId},
            keywords : SUBSET Keywords, up : BOOLEAN]

NoRequest == [op |-> "get", target |-> NoId, id |-> NoId, keywords |-> {}, up |-> FALSE]

Idle == [phase |-> "idle", req |-> NoRequest, reply |-> "none"]

Init ==
  /\ memories = [i \in Ids |-> Absent]
  /\ issued = {}
  /\ call = [c \in Callers |-> Idle]

Invoke(c) ==
  /\ call[c].phase = "idle"
  /\ \E req \in Request :
       /\ req.id \notin issued
       /\ issued' = issued \cup ({req.id} \ {NoId})
       /\ call' = [call EXCEPT ![c] = [phase |-> "invoked", req |-> req, reply |-> "none"]]
  /\ UNCHANGED memories

Answer(c, reply) ==
  call' = [call EXCEPT ![c] = [phase |-> "performed", req |-> @.req, reply |-> reply]]

(* A correction and the mark on the memory it corrects appear together.    *)
PerformStore(c) ==
  LET r == call[c].req IN
  /\ call[c].phase = "invoked" /\ r.op = "store" /\ r.keywords # {}
  /\ r.target # NoId => /\ memories[r.target].present
                        /\ memories[r.target].superseded_by = NoId
  /\ memories' = [i \in Ids |->
                    IF i = r.id THEN Fresh(r.keywords)
                    ELSE IF i = r.target THEN [memories[i] EXCEPT !.superseded_by = r.id]
                    ELSE memories[i]]
  /\ Answer(c, "ok")
  /\ UNCHANGED issued

(* A vote counts once, on a memory that is live at that instant.           *)
PerformRate(c) ==
  LET r == call[c].req IN
  /\ call[c].phase = "invoked" /\ r.op = "rate"
  /\ memories[r.target].present /\ memories[r.target].superseded_by = NoId
  /\ memories' = IF r.up
                 THEN [memories EXCEPT ![r.target].votes_up = @ + 1]
                 ELSE [memories EXCEPT ![r.target].votes_down = @ + 1]
  /\ Answer(c, "ok")
  /\ UNCHANGED issued

PerformDelete(c) ==
  LET r == call[c].req IN
  /\ call[c].phase = "invoked" /\ r.op = "delete"
  /\ memories[r.target].present
  /\ memories' = [memories EXCEPT ![r.target] = Absent]
  /\ Answer(c, "ok")
  /\ UNCHANGED issued

(* A Get answers with what is there; its access count may follow, at most  *)
(* once, or be lost.                                                       *)
PerformGet(c) ==
  /\ call[c].phase = "invoked" /\ call[c].req.op = "get"
  /\ memories[call[c].req.target].present
  /\ Answer(c, "ok")
  /\ UNCHANGED <<memories, issued>>

(* A refusal is the truth at the instant it is decided, and changes        *)
(* nothing; a failure ("error": the database is busy or broken) may come   *)
(* at any time and changes nothing either.                                 *)
Refuse(c) ==
  LET r == call[c].req IN
  /\ call[c].phase = "invoked"
  /\ \/ /\ r.target # NoId /\ ~memories[r.target].present
        /\ Answer(c, "not_found")
     \/ /\ r.op \in {"store", "rate"} /\ r.target # NoId
        /\ memories[r.target].superseded_by # NoId
        /\ Answer(c, "superseded")
     \/ /\ r.op = "store" /\ r.keywords = {}
        /\ Answer(c, "no_keywords")
     \/ Answer(c, "error")
  /\ UNCHANGED <<memories, issued>>

CountAccess(c) ==
  LET r == call[c].req IN
  /\ call[c].phase = "performed" /\ r.op = "get" /\ call[c].reply = "ok"
  /\ \/ /\ memories[r.target].present
        /\ memories' = [memories EXCEPT ![r.target].access_count = @ + 1]
     \/ UNCHANGED memories
  /\ call' = [call EXCEPT ![c].phase = "counted"]
  /\ UNCHANGED issued

(* The caller has its answer, or died before it could read it.             *)
Finish(c) ==
  /\ call[c].phase # "idle"
  /\ call' = [call EXCEPT ![c] = Idle]
  /\ UNCHANGED <<memories, issued>>

Next ==
  \E c \in Callers :
    \/ Invoke(c)
    \/ PerformStore(c) \/ PerformRate(c) \/ PerformDelete(c) \/ PerformGet(c)
    \/ Refuse(c) \/ CountAccess(c) \/ Finish(c)

vars == <<memories, issued, call>>

Spec == Init /\ [][Next]_vars
=============================================================================
