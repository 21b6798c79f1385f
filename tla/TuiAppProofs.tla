---------------------------- MODULE TuiAppProofs ----------------------------
(***************************************************************************)
(* Proofs about TuiApp, for any memories, any services and any bound on    *)
(* outstanding commands: the screens keep their sub-models, the spinner    *)
(* counts the commands, the service in use is live, and a user who waits   *)
(* for the answers that change the screen is never taken off the endpoint  *)
(* screen without a service nor off an editor with unsaved work.           *)
(***************************************************************************)
EXTENDS TuiApp, TLAPS

-----------------------------------------------------------------------------
(* The inductive invariant.                                                *)

(* What a command carries: a call that opens a screen knows its memory; a  *)
(* service that connect returned is open, and is not the one the same      *)
(* command has cleaned up.                                                 *)
CommandOK(c) ==
  /\ c.op \in {"get", "edit"} => c.id \in Ids
  /\ c.svc \in built \cup {None}
  /\ c.answer \in Handles => c.answer \in open

(* A service that waits in an answer belongs to that answer alone: it is   *)
(* not in use, no command will clean it up, and no other answer brings it. *)
AnswersOwn ==
  \A j, k \in DOMAIN cmds :
    cmds[k].answer \in Handles =>
      /\ svc # cmds[k].answer
      /\ cmds[j].svc # cmds[k].answer
      /\ j # k => cmds[j].answer # cmds[k].answer

Commands == (\A k \in DOMAIN cmds : CommandOK(cmds[k])) /\ AnswersOwn

(* While no key has been pressed too early, there is at most one answer    *)
(* that changes the screen to come, it was asked of a service, that service*)
(* is still the current one unless it is being replaced, and none is to    *)
(* come over unsaved work.                                                 *)
OneAtATime ==
  /\ \A j, k \in DOMAIN cmds : cmds[j].op # "quiet" /\ cmds[k].op # "quiet" => j = k
  /\ \A k \in DOMAIN cmds : cmds[k].op # "reconnect" => cmds[k].svc # None
  /\ \A k \in DOMAIN cmds : cmds[k].op \notin {"quiet", "reconnect"} => svc # None
  /\ Unsaved => ~Pending

Orderly == ~raced => ~panicked /\ (svc = None => mode = "remote") /\ OneAtATime

IInv ==
  /\ TypeOK /\ ScreenPointers /\ SpinnerTruthful
  /\ Commands /\ ServiceIsLive /\ Orderly

-----------------------------------------------------------------------------
(* The commands.                                                           *)

(* The place a command had before the k-th was removed.                    *)
Was(k, j) == IF j < k THEN j ELSE j + 1

LEMMA Joined ==
  ASSUME NEW S, NEW a \in Seq(S), NEW b \in Seq(S), NEW j \in 1 .. Len(a) + Len(b), j > Len(a)
  PROVE  (a \o b)[j] = b[j - Len(a)]
OBVIOUS

LEMMA JoinedTypes ==
  ASSUME NEW S, NEW a \in Seq(S), NEW b \in Seq(S)
  PROVE  /\ a \o b \in Seq(S) /\ Len(a \o b) = Len(a) + Len(b)
         /\ \A j \in 1 .. Len(a) : (a \o b)[j] = a[j]
OBVIOUS

(* What is left when the k-th of several things is removed and others are  *)
(* added at the end.                                                       *)
Remains(r, s, k, t) ==
  /\ Len(r) = Len(s) - 1 + Len(t)
  /\ \A j \in DOMAIN r :
       \/ Was(k, j) \in DOMAIN s \ {k} /\ r[j] = s[Was(k, j)]
       \/ \E i \in DOMAIN t : j = Len(s) - 1 + i /\ r[j] = t[i]
  /\ \A i \in DOMAIN s \ {k} : \E j \in DOMAIN r : r[j] = s[i]

LEMMA Removed ==
  ASSUME NEW S, NEW s \in Seq(S), NEW t \in Seq(S), NEW k \in DOMAIN s
  PROVE  /\ RemoveAt(s, k) \o t \in Seq(S)
         /\ Remains(RemoveAt(s, k) \o t, s, k, t)
<1> DEFINE a == SubSeq(s, 1, k - 1)
           b == SubSeq(s, k + 1, Len(s))
           q == RemoveAt(s, k)
<1>1. k \in 1 .. Len(s) /\ Len(s) \in Nat
  OBVIOUS
<1>2. a \in Seq(S) /\ Len(a) = k - 1 /\ \A j \in 1 .. k - 1 : a[j] = s[j]
  BY <1>1
<1>3. b \in Seq(S) /\ Len(b) = Len(s) - k /\ \A j \in 1 .. Len(s) - k : b[j] = s[k + j]
  BY <1>1
<1>4. q = a \o b
  BY DEF RemoveAt
<1> HIDE DEF a, b, q
<1>5. q \in Seq(S) /\ Len(q) = Len(s) - 1
  BY <1>1, <1>2, <1>3, <1>4
<1>6. \A j \in 1 .. Len(s) - 1 : q[j] = s[Was(k, j)] /\ Was(k, j) \in DOMAIN s \ {k}
  <2> SUFFICES ASSUME NEW j \in 1 .. Len(s) - 1
               PROVE  q[j] = s[Was(k, j)] /\ Was(k, j) \in DOMAIN s \ {k}
    OBVIOUS
  <2>1. CASE j < k
    <3>1. q[j] = a[j]
      BY <1>1, <1>2, <1>3, <1>4, <2>1
    <3> QED
      BY <1>1, <1>2, <2>1, <3>1 DEF Was
  <2>2. CASE ~(j < k)
    <3>0. j \in 1 .. Len(a) + Len(b) /\ j > Len(a) /\ j - (k - 1) \in 1 .. Len(s) - k
      <4>1. Len(a) = k - 1 /\ Len(b) = Len(s) - k
        BY <1>2, <1>3
      <4> QED
        BY <1>1, <2>2, <4>1
    <3>1a. (a \o b)[j] = b[j - Len(a)]
      BY <1>2, <1>3, <3>0, Joined
    <3>1. q[j] = b[j - (k - 1)] /\ j - (k - 1) \in 1 .. Len(s) - k
      BY <1>2, <1>4, <3>0, <3>1a
    <3>2. k + (j - (k - 1)) = j + 1
      BY <1>1
    <3> QED
      BY <1>1, <1>3, <2>2, <3>1, <3>2 DEF Was
  <2> QED
    BY <2>1, <2>2
<1>7. q \o t \in Seq(S) /\ Len(q \o t) = Len(s) - 1 + Len(t)
  BY <1>1, <1>5, JoinedTypes
<1>8. ASSUME NEW j \in DOMAIN (q \o t)
      PROVE  \/ Was(k, j) \in DOMAIN s \ {k} /\ (q \o t)[j] = s[Was(k, j)]
             \/ \E i \in DOMAIN t : j = Len(s) - 1 + i /\ (q \o t)[j] = t[i]
  <2>1. CASE j <= Len(s) - 1
    <3>1. j \in 1 .. Len(q) /\ Len(q) = Len(s) - 1
      BY <1>1, <1>5, <1>7, <2>1
    <3>2. (q \o t)[j] = q[j]
      BY <1>5, <3>1, JoinedTypes
    <3> QED
      BY <1>6, <3>1, <3>2
  <2>2. CASE j > Len(s) - 1
    <3>1. j - (Len(s) - 1) \in DOMAIN t
      BY <1>1, <1>7, <2>2
    <3>2. (q \o t)[j] = t[j - (Len(s) - 1)]
      BY <1>1, <1>5, <1>7, <2>2
    <3> QED
      BY <1>1, <1>7, <3>1, <3>2
  <2> QED
    BY <1>1, <1>7, <2>1, <2>2
<1>9. ASSUME NEW i \in DOMAIN s \ {k}
      PROVE  \E j \in DOMAIN (q \o t) : (q \o t)[j] = s[i]
  <2>1. PICK j \in 1 .. Len(s) - 1 : Was(k, j) = i
    <3>1. CASE i < k
      BY <1>1, <3>1 DEF Was
    <3>2. CASE i > k
      <4>1. i - 1 \in 1 .. Len(s) - 1 /\ Was(k, i - 1) = i
        BY <1>1, <3>2 DEF Was
      <4> QED
        BY <4>1
    <3> QED
      BY <1>1, <3>1, <3>2
  <2>2. j \in DOMAIN (q \o t) /\ (q \o t)[j] = q[j]
    BY <1>1, <1>5, <1>7, <2>1
  <2> QED
    BY <1>6, <2>1, <2>2
<1> QED
  BY <1>7, <1>8, <1>9 DEF q, Remains

(* Different commands had different places.                                *)
LEMMA WasApart ==
  ASSUME NEW k \in Nat, NEW i \in Nat, NEW j \in Nat, i # j
  PROVE  Was(k, i) # Was(k, j)
BY DEF Was

(* A command that answers is otherwise what it was.                        *)
LEMMA AnswerOnly ==
  ASSUME cmds \in Seq(Command), NEW k \in DOMAIN cmds,
         NEW a \in {"none", "closed", "ok", "error"} \cup Handles, Answer(k, a)
  PROVE  /\ cmds' \in Seq(Command) /\ Len(cmds') = Len(cmds) /\ DOMAIN cmds' = DOMAIN cmds
         /\ \A j \in DOMAIN cmds :
              /\ cmds'[j].op = cmds[j].op /\ cmds'[j].svc = cmds[j].svc /\ cmds'[j].id = cmds[j].id
              /\ cmds'[j].answer = IF j = k THEN a ELSE cmds[j].answer
<1>1. cmds[k] \in Command
  OBVIOUS
<1>2. [cmds[k] EXCEPT !.answer = a] \in Command
  BY <1>1 DEF Command
<1>3. cmds' = [cmds EXCEPT ![k] = [cmds[k] EXCEPT !.answer = a]]
  BY DEF Answer
<1> QED
  BY <1>1, <1>2, <1>3 DEF Command

(* What a key adds.                                                        *)
LEMMA IssueAppends ==
  ASSUME cmds \in Seq(Command), NEW c \in Command, Issue(c)
  PROVE  /\ cmds' \in Seq(Command) /\ Len(cmds') = Len(cmds) + 1
         /\ DOMAIN cmds' = DOMAIN cmds \cup {Len(cmds) + 1}
         /\ cmds'[Len(cmds) + 1] = c
         /\ \A j \in DOMAIN cmds : cmds'[j] = cmds[j]
BY DEF Issue

-----------------------------------------------------------------------------
(* The screens.                                                            *)

ScreensOK ==
  /\ mode \in Modes /\ detail \in Ids \cup {None}
  /\ form \in Form \cup {None} /\ confirm \in {"list", "detail", None} /\ remote \in Remote \cup {None}
  /\ ScreenPointers

RestOK ==
  /\ svc \in built \cup {None} /\ open \subseteq built /\ built \subseteq Handles
  /\ cmds \in Seq(Command) /\ inFlight \in Nat
  /\ panicked \in BOOLEAN /\ raced \in BOOLEAN

LEMMA TypeParts == TypeOK /\ ScreenPointers <=> ScreensOK /\ RestOK
BY DEF TypeOK, ScreensOK, RestOK

LEMMA Unnamed ==
  /\ None \notin Ids /\ None \notin Form /\ None \notin Remote /\ None # "list" /\ None # "detail"
  /\ None \notin Handles
BY HandlesAssumption

LEMMA FormTypes ==
  /\ \A i \in Ids : \A from : NewForm(i, from) \in Form
  /\ \A f \in Form : Submitted(f) \in Form
  /\ \A f \in Form, a \in {"none", "save", "discard"} : [f EXCEPT !.confirmAct = a] \in Form
  /\ \A f \in Form, t \in {"initial", "edited", "submitted"} : [f EXCEPT !.text = t] \in Form
<1>1. \A i \in Ids : \A from : NewForm(i, from) \in Form
  BY DEF NewForm, Form
<1>2. \A f \in Form : Submitted(f) \in Form
  BY DEF Submitted, Dirty, Form
<1>3. \A f \in Form, a \in {"none", "save", "discard"} : [f EXCEPT !.confirmAct = a] \in Form
  BY DEF Form
<1>4. \A f \in Form, t \in {"initial", "edited", "submitted"} : [f EXCEPT !.text = t] \in Form
  BY DEF Form
<1> QED
  BY <1>1, <1>2, <1>3, <1>4

(* No key and no message leaves the screen that is up without its model.   *)
LEMMA KeyScreens ==
  ASSUME ScreensOK, Key
  PROVE  ScreensOK'
<1> USE DEF ScreensOK, ScreenPointers, Modes
<1>1. ASSUME UNCHANGED screens PROVE ScreensOK'
  BY <1>1 DEF screens
<1>2. CASE OpenRow \/ Refresh \/ Rate \/ Follow
  BY <1>1, <1>2 DEF OpenRow, Refresh, Rate, Follow
<1>3. CASE AskDelete
  BY <1>3, Unnamed DEF AskDelete
<1>4. CASE AnswerDelete
  BY <1>4, Unnamed DEF AnswerDelete
<1>5. CASE OpenRemote
  <2>1. NewRemote \in Remote
    BY DEF NewRemote, Remote
  <2> QED
    BY <1>5, <2>1, Unnamed DEF OpenRemote
<1>6. CASE Back
  BY <1>6, Unnamed DEF Back
<1>7. CASE Supersede
  <2>1. form' \in Form
    BY <1>7, FormTypes, Unnamed DEF Supersede
  <2> QED
    BY <1>7, <2>1, Unnamed DEF Supersede
<1>8. ASSUME CloseForm PROVE ScreensOK'
  BY <1>8 DEF CloseForm
<1>9. ASSUME mode = "form", NEW f \in Form, FormKey(f) PROVE ScreensOK'
  BY <1>9, Unnamed DEF FormKey
<1>10. CASE ArmSave
  BY <1>10, <1>9, FormTypes DEF ArmSave, InForm
<1>11. CASE Edit
  BY <1>11, <1>9, FormTypes DEF Edit, InForm
<1>12. CASE RequestDiscard
  BY <1>12, <1>8, <1>9, FormTypes DEF RequestDiscard, InForm
<1>13. CASE FormConfirm
  <2>1. CASE FormKey([form EXCEPT !.confirmAct = "none"])
    BY <1>13, <1>9, <2>1, FormTypes DEF FormConfirm
  <2>2. CASE CloseForm
    BY <1>8, <2>2
  <2>3. CASE form' = Submitted(form) /\ UNCHANGED <<mode, detail, confirm, remote>>
    <3>1. form' \in Form
      BY <1>13, <2>3, FormTypes DEF FormConfirm
    <3> QED
      BY <1>13, <2>3, <3>1, Unnamed DEF FormConfirm
  <2> QED
    BY <1>13, <2>1, <2>2, <2>3 DEF FormConfirm
<1>14. CASE ArmRemote \/ RemoteConfirm
  <2>1. mode = "remote" /\ UNCHANGED <<mode, detail, form, confirm>>
    BY <1>14 DEF ArmRemote, RemoteConfirm, InRemote, RemoteKey
  <2>2. remote' \in Remote
    BY <1>14, <2>1 DEF ArmRemote, RemoteConfirm, RemoteKey, Remote
  <2> QED
    BY <2>1, <2>2, Unnamed
<1>15. CASE DiscardRemote
  BY <1>15 DEF DiscardRemote
<1> QED
  BY <1>2, <1>3, <1>4, <1>5, <1>6, <1>7, <1>10, <1>11, <1>12, <1>13, <1>14, <1>15 DEF Key

LEMMA MessageScreens ==
  ASSUME ScreensOK, RestOK, Commands, NEW k \in DOMAIN cmds, Message(k)
  PROVE  ScreensOK'
<1> USE DEF ScreensOK, ScreenPointers, Modes
<1>1. CASE Background(k)
  BY <1>1 DEF Background, screens
<1>2. CASE MemoryLoaded(k)
  <2>1. cmds[k].id \in Ids
    BY <1>2 DEF MemoryLoaded, Commands, CommandOK
  <2>2. CASE cmds[k].op = "edit"
    <3>1. form' \in Form
      BY <1>2, <2>1, <2>2, FormTypes DEF MemoryLoaded
    <3> QED
      BY <1>2, <2>2, <3>1, Unnamed DEF MemoryLoaded
  <2>3. CASE cmds[k].op # "edit"
    BY <1>2, <2>1, <2>3, Unnamed DEF MemoryLoaded
  <2> QED
    BY <2>2, <2>3
<1>3. CASE Deleted(k)
  BY <1>3 DEF Deleted
<1>4. CASE Stored(k)
  BY <1>4 DEF Stored
<1>5. CASE Reconnected(k)
  <2>1. remote' \in Remote \cup {None}
    BY <1>5 DEF Reconnected, Remote
  <2> QED
    BY <1>5, <2>1 DEF Reconnected
<1>6. CASE ReconnectFailed(k)
  <2>1. remote' \in Remote
    BY <1>6 DEF ReconnectFailed, Remote, NewRemote
  <2> QED
    BY <1>6, <2>1, Unnamed DEF ReconnectFailed
<1>7. CASE Failed(k)
  <2>1. CASE mode = "form" /\ cmds[k].op = "store"
    <3>1. form' \in Form
      BY <1>7, <2>1, FormTypes DEF Failed, Form
    <3> QED
      BY <1>7, <2>1, <3>1, Unnamed DEF Failed
  <2>2. CASE ~(mode = "form" /\ cmds[k].op = "store")
    BY <1>7, <2>2 DEF Failed
  <2> QED
    BY <2>1, <2>2
<1> QED
  BY <1>1, <1>2, <1>3, <1>4, <1>5, <1>6, <1>7 DEF Message

-----------------------------------------------------------------------------
(* Keys and the commands.                                                  *)

Ops == {"quiet", "get", "edit", "delete", "store", "reconnect"}

Starts(op, i) ==
  /\ op \in Ops /\ i \in Ids \cup {None}
  /\ op \in {"get", "edit"} => i \in Ids
  /\ op = "reconnect" <=> mode = "remote"
  /\ op # "quiet" => ~Unsaved'
  /\ Issue(Cmd(op, svc, i))

(* What any key does to the connection: it starts one command or none, a   *)
(* call of the service unless the endpoint screen is up, and it does not   *)
(* leave that screen without a service.                                    *)
KeyStep ==
  /\ Press
  /\ svc = None /\ mode = "remote" => mode' = "remote"
  /\ UNCHANGED <<cmds, inFlight>> \/ \E op, i : Starts(op, i)

LEMMA KeySteps ==
  ASSUME ScreensOK, Key
  PROVE  KeyStep
<1>1. ASSUME PressOnly, mode = "remote" /\ svc = None => mode' = "remote" PROVE KeyStep
  BY <1>1 DEF PressOnly, KeyStep
<1>2. ASSUME NEW op \in Ops, NEW i \in Ids \cup {None}, Call(op, i),
             op \in {"get", "edit"} => i \in Ids, op = "reconnect" <=> mode = "remote",
             op # "quiet" => ~Unsaved', mode = "remote" => mode' = "remote"
      PROVE  KeyStep
  BY <1>2 DEF Call, KeyStep, Starts
<1>3. CASE OpenRow
  <2>1. PICK i \in Ids, op \in {"get", "edit"} : Call(op, i)
    BY <1>3 DEF OpenRow
  <2>2. mode = "list" /\ mode' = "list"
    BY <1>3 DEF OpenRow, screens
  <2> QED
    BY <2>1, <2>2, <1>2 DEF Ops, Unsaved
<1>4. CASE Refresh
  BY <1>4, <1>2 DEF Refresh, Ops, Unsaved, screens
<1>5. CASE Rate
  BY <1>5, <1>2 DEF Rate, Ops, Unsaved, screens
<1>6. CASE AskDelete
  BY <1>6, <1>1 DEF AskDelete
<1>7. CASE AnswerDelete
  <2>1. mode = "confirm" /\ mode' \in {"list", "detail"}
    BY <1>7 DEF AnswerDelete, ScreensOK, ScreenPointers
  <2> QED
    BY <1>7, <2>1, <1>1, <1>2 DEF AnswerDelete, Ops, Unsaved
<1>8. CASE OpenRemote \/ Back \/ Supersede
  BY <1>8, <1>1 DEF OpenRemote, Back, Supersede
<1>9. CASE Follow
  <2>1. PICK i \in Ids : Call("get", i)
    BY <1>9 DEF Follow
  <2>2. mode = "detail" /\ mode' = "detail"
    BY <1>9 DEF Follow, screens
  <2> QED
    BY <2>1, <2>2, <1>2 DEF Ops, Unsaved
<1>10. CASE ArmSave \/ Edit
  BY <1>10, <1>1 DEF ArmSave, Edit, InForm, FormKey
<1>11. CASE RequestDiscard
  BY <1>11, <1>1 DEF RequestDiscard, InForm, FormKey
<1>12. CASE FormConfirm
  <2>1. mode = "form" /\ form \in Form
    BY <1>12 DEF FormConfirm, ScreensOK, ScreenPointers
  <2>2. CASE FormKey([form EXCEPT !.confirmAct = "none"]) \/ PressOnly
    BY <2>1, <2>2, <1>1 DEF FormKey
  <2>3. CASE form' = Submitted(form) /\ Call("store", None)
    <3>1. form'.text # "edited"
      BY <2>1, <2>3 DEF Submitted, Dirty, Form
    <3> QED
      BY <2>1, <2>3, <3>1, <1>2 DEF Ops, Unsaved
  <2> QED
    BY <1>12, <2>2, <2>3 DEF FormConfirm
<1>13. CASE ArmRemote
  BY <1>13, <1>1 DEF ArmRemote, InRemote, RemoteKey
<1>14. CASE DiscardRemote
  BY <1>14, <1>1 DEF DiscardRemote
<1>15. CASE RemoteConfirm
  BY <1>15, <1>1, <1>2 DEF RemoteConfirm, Ops, Unsaved
<1> QED
  BY <1>3, <1>4, <1>5, <1>6, <1>7, <1>8, <1>9, <1>10, <1>11, <1>12, <1>13, <1>14, <1>15 DEF Key

LEMMA KeyRest ==
  ASSUME RestOK, SpinnerTruthful, Commands, ServiceIsLive, KeyStep
  PROVE  RestOK' /\ SpinnerTruthful' /\ Commands' /\ ServiceIsLive'
<1> USE DEF RestOK, SpinnerTruthful
<1>1. UNCHANGED <<svc, open, built, panicked>> /\ raced' \in BOOLEAN
  BY DEF KeyStep, Press
<1>2. CASE UNCHANGED <<cmds, inFlight>>
  BY <1>1, <1>2 DEF Commands, CommandOK, AnswersOwn, ServiceIsLive, Reconnecting
<1>3. CASE \E op, i : Starts(op, i)
  <2>1. PICK op, i : Starts(op, i)
    BY <1>3
  <2> DEFINE c == Cmd(op, svc, i)
             n == Len(cmds) + 1
  <2>2. /\ c \in Command /\ c.svc = svc /\ c.answer = "none"
        /\ c.op \in {"get", "edit"} => c.id \in Ids
    BY <2>1 DEF Starts, Ops, Cmd, Command
  <2>3. /\ cmds' \in Seq(Command) /\ Len(cmds') = Len(cmds) + 1
        /\ DOMAIN cmds' = DOMAIN cmds \cup {n} /\ cmds'[n] = c
        /\ \A j \in DOMAIN cmds : cmds'[j] = cmds[j]
    BY <2>1, <2>2, IssueAppends DEF Starts
  <2>4. inFlight' = inFlight + 1
    BY <2>1 DEF Starts, Issue
  <2> HIDE DEF c, n
  <2>5. RestOK' /\ SpinnerTruthful'
    BY <1>1, <2>3, <2>4
  <2>6. c.answer \notin Handles
    BY <2>2, HandlesAssumption
  <2>7. (\A j \in DOMAIN cmds : CommandOK(cmds[j]))'
    BY <1>1, <2>2, <2>3, <2>6 DEF Commands, CommandOK
  <2>8. AnswersOwn'
    BY <1>1, <2>2, <2>3, <2>6 DEF Commands, AnswersOwn
  <2>9. ServiceIsLive'
    BY <1>1, <2>3 DEF ServiceIsLive, Reconnecting
  <2> QED
    BY <2>5, <2>7, <2>8, <2>9 DEF Commands
<1> QED
  BY <1>2, <1>3 DEF KeyStep

LEMMA KeyOrderly ==
  ASSUME RestOK, Orderly, KeyStep
  PROVE  Orderly'
<1> SUFFICES ASSUME ~raced' PROVE ~panicked' /\ (svc' = None => mode' = "remote") /\ OneAtATime'
  BY DEF Orderly
<1>1. ~raced /\ ~Pending /\ UNCHANGED <<svc, panicked>>
  BY DEF KeyStep, Press
<1>2. ~panicked /\ (svc = None => mode = "remote") /\ OneAtATime
  BY <1>1 DEF Orderly
<1>3. svc' = None => mode' = "remote"
  BY <1>1, <1>2 DEF KeyStep
<1>4. CASE UNCHANGED cmds
  <2>1. ~Pending'
    BY <1>1, <1>4 DEF Pending
  <2> QED
    BY <1>1, <1>2, <1>3, <1>4, <2>1 DEF OneAtATime
<1>5. CASE \E op, i : Starts(op, i)
  <2>1. PICK op, i : Starts(op, i)
    BY <1>5
  <2> DEFINE c == Cmd(op, svc, i)
             n == Len(cmds) + 1
  <2>2. c \in Command /\ c.svc = svc /\ c.op = op
    BY <2>1 DEF Starts, Ops, Cmd, Command, RestOK
  <2>3. /\ DOMAIN cmds' = DOMAIN cmds \cup {n} /\ cmds'[n] = c
        /\ \A j \in DOMAIN cmds : cmds'[j] = cmds[j]
    BY <2>1, <2>2, IssueAppends DEF Starts, RestOK
  <2>4. op # "reconnect" => svc # None
    BY <1>2, <2>1 DEF Starts
  <2>5. op # "quiet" => ~Unsaved'
    BY <2>1 DEF Starts
  <2> HIDE DEF c, n
  <2> QED
    BY <1>1, <1>2, <1>3, <2>2, <2>3, <2>4, <2>5 DEF OneAtATime, Pending
<1> QED
  BY <1>1, <1>2, <1>3, <1>4, <1>5 DEF KeyStep

-----------------------------------------------------------------------------
(* Commands that run.                                                      *)

LEMMA RunRest ==
  ASSUME RestOK, SpinnerTruthful, Commands, ServiceIsLive, NEW k \in DOMAIN cmds,
         Run(k) \/ CleanUp(k) \/ Connect(k)
  PROVE  RestOK' /\ SpinnerTruthful' /\ Commands' /\ ServiceIsLive'
<1> USE DEF RestOK, SpinnerTruthful
<1>1. CASE Run(k)
  <2>1. UNCHANGED <<svc, inFlight, open, built, raced>> /\ panicked' \in BOOLEAN
    BY <1>1 DEF Run
  <2>2. CASE UNCHANGED cmds
    BY <2>1, <2>2 DEF Commands, CommandOK, AnswersOwn, ServiceIsLive, Reconnecting
  <2>3. ASSUME NEW a \in {"ok", "error"}, Answer(k, a)
        PROVE  RestOK' /\ SpinnerTruthful' /\ Commands' /\ ServiceIsLive'
    <3>1. a \notin Handles
      BY HandlesAssumption
    <3>2. /\ cmds' \in Seq(Command) /\ Len(cmds') = Len(cmds) /\ DOMAIN cmds' = DOMAIN cmds
          /\ \A j \in DOMAIN cmds :
               /\ cmds'[j].op = cmds[j].op /\ cmds'[j].svc = cmds[j].svc /\ cmds'[j].id = cmds[j].id
               /\ cmds'[j].answer = IF j = k THEN a ELSE cmds[j].answer
      BY <2>3, AnswerOnly
    <3>3. (\A j \in DOMAIN cmds : CommandOK(cmds[j]))'
      BY <2>1, <3>1, <3>2 DEF Commands, CommandOK
    <3>4. AnswersOwn'
      BY <2>1, <3>1, <3>2 DEF Commands, AnswersOwn
    <3>5. ServiceIsLive'
      BY <2>1, <3>2 DEF ServiceIsLive, Reconnecting
    <3> QED
      BY <2>1, <3>2, <3>3, <3>4, <3>5 DEF Commands
  <2> QED
    BY <1>1, <2>2, <2>3 DEF Run
<1>2. CASE CleanUp(k)
  <2>1. /\ UNCHANGED <<svc, inFlight, built, panicked, raced>>
        /\ open' = open \ {cmds[k].svc} /\ cmds[k].op = "reconnect" /\ Answer(k, "closed")
    BY <1>2 DEF CleanUp
  <2>2. "closed" \notin Handles
    BY HandlesAssumption
  <2>3. /\ cmds' \in Seq(Command) /\ Len(cmds') = Len(cmds) /\ DOMAIN cmds' = DOMAIN cmds
        /\ \A j \in DOMAIN cmds :
             /\ cmds'[j].op = cmds[j].op /\ cmds'[j].svc = cmds[j].svc /\ cmds'[j].id = cmds[j].id
             /\ cmds'[j].answer = IF j = k THEN "closed" ELSE cmds[j].answer
    BY <2>1, AnswerOnly
  <2>4. (\A j \in DOMAIN cmds : CommandOK(cmds[j]))'
    BY <2>1, <2>2, <2>3 DEF Commands, CommandOK, AnswersOwn
  <2>5. AnswersOwn'
    BY <2>1, <2>2, <2>3 DEF Commands, AnswersOwn
  <2>6. ServiceIsLive'
    BY <2>1, <2>3 DEF ServiceIsLive, Reconnecting
  <2> QED
    BY <2>1, <2>3, <2>4, <2>5, <2>6 DEF Commands
<1>3. CASE Connect(k)
  <2>1. UNCHANGED <<svc, inFlight, panicked, raced>> /\ cmds[k].op = "reconnect"
    BY <1>3 DEF Connect
  <2>2. ASSUME NEW a \in {"error"} \cup (Handles \ built), Answer(k, a),
               open' \subseteq built', built' \subseteq Handles, open \subseteq open', built \subseteq built',
               a \in Handles => a \in open'
        PROVE  RestOK' /\ SpinnerTruthful' /\ Commands' /\ ServiceIsLive'
    <3>1. a \notin built
      BY HandlesAssumption
    <3>2. /\ cmds' \in Seq(Command) /\ Len(cmds') = Len(cmds) /\ DOMAIN cmds' = DOMAIN cmds
          /\ \A j \in DOMAIN cmds :
               /\ cmds'[j].op = cmds[j].op /\ cmds'[j].svc = cmds[j].svc /\ cmds'[j].id = cmds[j].id
               /\ cmds'[j].answer = IF j = k THEN a ELSE cmds[j].answer
      BY <2>2, AnswerOnly
    <3>3. (\A j \in DOMAIN cmds : CommandOK(cmds[j]))'
      BY <2>1, <2>2, <3>1, <3>2 DEF Commands, CommandOK
    <3>4. \A j \in DOMAIN cmds : a \in Handles => cmds[j].svc # a /\ cmds[j].answer # a
      BY <3>1, Unnamed DEF Commands, CommandOK
    <3>5. AnswersOwn'
      BY <2>1, <3>1, <3>2, <3>4, Unnamed DEF Commands, AnswersOwn
    <3>6. ServiceIsLive'
      BY <2>1, <2>2, <3>2 DEF ServiceIsLive, Reconnecting
    <3> QED
      BY <2>1, <2>2, <3>2, <3>3, <3>5, <3>6 DEF Commands
  <2>3. CASE Answer(k, "error") /\ UNCHANGED <<open, built>>
    BY <2>2, <2>3, HandlesAssumption
  <2>4. ASSUME NEW h \in Handles \ built, Answer(k, h), open' = open \cup {h} /\ built' = built \cup {h}
        PROVE  RestOK' /\ SpinnerTruthful' /\ Commands' /\ ServiceIsLive'
    BY <2>2, <2>4
  <2> QED
    BY <1>3, <2>3, <2>4 DEF Connect
<1> QED
  BY <1>1, <1>2, <1>3

(* Nothing that runs in a goroutine touches the screen.                    *)
LEMMA RunOrderly ==
  ASSUME RestOK, Orderly, NEW k \in DOMAIN cmds, Run(k) \/ CleanUp(k) \/ Connect(k)
  PROVE  Orderly' /\ UNCHANGED <<screens, raced>>
<1>1. UNCHANGED <<screens, svc, raced>>
  BY DEF Run, CleanUp, Connect
<1>2. \/ UNCHANGED cmds
      \/ \E a \in {"none", "closed", "ok", "error"} \cup Handles : Answer(k, a)
  BY DEF Run, CleanUp, Connect
<1>3. /\ DOMAIN cmds' = DOMAIN cmds
      /\ \A j \in DOMAIN cmds : cmds'[j].op = cmds[j].op /\ cmds'[j].svc = cmds[j].svc
  BY <1>2, AnswerOnly DEF RestOK
<1>4. Unsaved' = Unsaved /\ mode' = mode
  BY <1>1 DEF Unsaved, screens
<1>5. Pending' = Pending
  BY <1>3 DEF Pending
<1>6. OneAtATime => OneAtATime'
  BY <1>1, <1>3, <1>4, <1>5 DEF OneAtATime
<1>7. ~raced => ~panicked'
  <2>1. CASE Run(k)
    BY <2>1 DEF Orderly, OneAtATime, Run
  <2>2. CASE CleanUp(k) \/ Connect(k)
    BY <2>2 DEF Orderly, CleanUp, Connect
  <2> QED
    BY <2>1, <2>2
<1> QED
  BY <1>1, <1>4, <1>6, <1>7 DEF Orderly

-----------------------------------------------------------------------------
(* Messages.                                                               *)

(* What any message does to the connection: its command goes away, and the *)
(* ones its handler starts are searches or open a memory, on the service   *)
(* that is then in use. That service only changes by a reconnect.          *)
FollowUp(c) ==
  /\ c \in Command /\ c.op \in {"quiet", "get"} /\ c.svc = svc' /\ c.answer = "none"
  /\ c.op = "get" => c.id \in Ids
  /\ c.op = "quiet" => svc' # None

NewService(k) ==
  \/ svc' = svc /\ cmds[k].op # "reconnect"
  \/ svc' = None /\ cmds[k].op = "reconnect"
  \/ svc' = cmds[k].answer /\ cmds[k].op = "reconnect" /\ cmds[k].answer \in Handles

MessageStep(k, new) ==
  /\ Handle(k, new) /\ new \in Seq(Command) /\ NewService(k)
  /\ \A i \in DOMAIN new : FollowUp(new[i])
  /\ \A i, j \in DOMAIN new : new[i].op = "get" /\ new[j].op = "get" => i = j

LEMMA SearchStarts ==
  ASSUME NEW h \in Handles \cup {None}, svc' = h
  PROVE  /\ Search(h) \in Seq(Command)
         /\ \A i \in DOMAIN Search(h) : FollowUp(Search(h)[i]) /\ Search(h)[i].op # "get"
<1>1. CASE h = None
  BY <1>1 DEF Search
<1>2. CASE h # None
  <2> DEFINE c == Cmd("quiet", h, None)
  <2>1. c \in Command /\ FollowUp(c) /\ c.op # "get"
    BY <1>2 DEF Cmd, Command, FollowUp
  <2>2. Search(h) = <<c>>
    BY <1>2 DEF Search
  <2> HIDE DEF c
  <2> QED
    BY <2>1, <2>2
<1> QED
  BY <1>1, <1>2

LEMMA StoredStarts ==
  ASSUME NEW h \in Handles \cup {None}, NEW m \in Ids, svc' = h
  PROVE  LET new == Search(h) \o <<Cmd("get", h, m)>>
         IN  /\ new \in Seq(Command)
             /\ \A i \in DOMAIN new : FollowUp(new[i])
             /\ \A i, j \in DOMAIN new : new[i].op = "get" /\ new[j].op = "get" => i = j
<1> DEFINE g == Cmd("get", h, m)
           q == Search(h)
<1>1. g \in Command /\ FollowUp(g)
  BY DEF Cmd, Command, FollowUp
<1>2. q \in Seq(Command) /\ \A i \in DOMAIN q : FollowUp(q[i]) /\ q[i].op # "get"
  BY SearchStarts
<1> HIDE DEF g, q
<1>3. /\ q \o <<g>> \in Seq(Command) /\ Len(q \o <<g>>) = Len(q) + 1
      /\ (q \o <<g>>)[Len(q) + 1] = g
      /\ \A i \in 1 .. Len(q) : (q \o <<g>>)[i] = q[i]
  BY <1>1, <1>2
<1>4. DOMAIN (q \o <<g>>) = DOMAIN q \cup {Len(q) + 1}
  BY <1>2, <1>3
<1>5. \A i \in DOMAIN (q \o <<g>>) : FollowUp((q \o <<g>>)[i])
  BY <1>1, <1>2, <1>3, <1>4
<1>6. \A i \in DOMAIN (q \o <<g>>) : (q \o <<g>>)[i].op = "get" => i = Len(q) + 1
  BY <1>1, <1>2, <1>3, <1>4
<1> QED
  BY <1>3, <1>5, <1>6 DEF g, q

(* The messages that start nothing and leave the service alone.            *)
LEMMA PlainMessages ==
  ASSUME RestOK, NEW k \in DOMAIN cmds,
         Background(k) \/ MemoryLoaded(k) \/ Deleted(k) \/ Failed(k)
  PROVE  MessageStep(k, <<>>) /\ svc' = svc
<1>1. Handle(k, <<>>) /\ svc' = svc /\ cmds[k].op # "reconnect"
  BY DEF Background, MemoryLoaded, Deleted, Failed
<1> QED
  BY <1>1 DEF MessageStep, NewService

LEMMA MessageSteps ==
  ASSUME RestOK, NEW k \in DOMAIN cmds, Message(k)
  PROVE  \E new : MessageStep(k, new)
<1>1. CASE Background(k) \/ MemoryLoaded(k) \/ Deleted(k) \/ Failed(k)
  BY <1>1, PlainMessages
<1>2. CASE Stored(k)
  <2>1. PICK m \in Ids : Handle(k, Search(svc) \o <<Cmd("get", svc, m)>>)
    BY <1>2 DEF Stored
  <2>2. svc' = svc /\ cmds[k].op # "reconnect" /\ svc \in Handles \cup {None}
    BY <1>2 DEF Stored, RestOK
  <2> QED
    BY <2>1, <2>2, StoredStarts DEF MessageStep, NewService
<1>3. CASE Reconnected(k)
  <2>1. Handle(k, Search(svc')) /\ svc' = cmds[k].answer /\ cmds[k].op = "reconnect" /\ cmds[k].answer \in Handles
    BY <1>3 DEF Reconnected
  <2>2. PICK h \in Handles : svc' = h
    BY <2>1
  <2>3. Handle(k, Search(h))
    BY <2>1, <2>2
  <2> QED
    BY <2>1, <2>2, <2>3, SearchStarts DEF MessageStep, NewService
<1>4. CASE ReconnectFailed(k)
  <2>1. Handle(k, <<>>) /\ svc' = None /\ cmds[k].op = "reconnect"
    BY <1>4 DEF ReconnectFailed
  <2>2. MessageStep(k, <<>>)
    BY <2>1 DEF MessageStep, NewService
  <2> QED
    BY <2>2
<1> QED
  BY <1>1, <1>2, <1>3, <1>4 DEF Message

LEMMA MessageRest ==
  ASSUME RestOK, SpinnerTruthful, Commands, ServiceIsLive,
         NEW k \in DOMAIN cmds, NEW new, MessageStep(k, new)
  PROVE  RestOK' /\ SpinnerTruthful' /\ Commands' /\ ServiceIsLive'
<1> USE DEF RestOK, SpinnerTruthful
<1>1. /\ UNCHANGED <<open, built, panicked, raced>> /\ cmds' = RemoveAt(cmds, k) \o new
      /\ inFlight' = (IF inFlight > 0 THEN inFlight - 1 ELSE 0) + Len(new)
      /\ new \in Seq(Command)
  BY DEF MessageStep, Handle
<1>2. /\ cmds' \in Seq(Command) /\ Len(cmds') = Len(cmds) - 1 + Len(new)
      /\ \A j \in DOMAIN cmds' :
           \/ Was(k, j) \in DOMAIN cmds \ {k} /\ cmds'[j] = cmds[Was(k, j)]
           \/ \E i \in DOMAIN new : j = Len(cmds) - 1 + i /\ cmds'[j] = new[i]
      /\ \A i \in DOMAIN cmds \ {k} : \E j \in DOMAIN cmds' : cmds'[j] = cmds[i]
  <2>1. cmds' \in Seq(Command) /\ Remains(cmds', cmds, k, new)
    BY <1>1, Removed
  <2> QED
    BY <2>1 DEF Remains
<1>3. inFlight' = Len(cmds') /\ inFlight' \in Nat
  BY <1>1, <1>2
<1>4. /\ svc' \in built \cup {None}
      /\ \A j \in DOMAIN cmds \ {k} : cmds[j].answer \in Handles => svc' # cmds[j].answer
  BY Unnamed DEF MessageStep, NewService, Commands, CommandOK, AnswersOwn
<1>5. \A i \in DOMAIN new : /\ new[i].svc = svc' /\ new[i].answer \notin Handles
                            /\ new[i].op \in {"get", "edit"} => new[i].id \in Ids
  BY HandlesAssumption DEF MessageStep, FollowUp
<1>6. (\A j \in DOMAIN cmds : CommandOK(cmds[j]))'
  <2> SUFFICES ASSUME NEW j \in DOMAIN cmds'
               PROVE  /\ cmds'[j].op \in {"get", "edit"} => cmds'[j].id \in Ids
                      /\ cmds'[j].svc \in built' \cup {None}
                      /\ cmds'[j].answer \in Handles => cmds'[j].answer \in open'
    BY DEF CommandOK
  <2>1. CASE Was(k, j) \in DOMAIN cmds \ {k} /\ cmds'[j] = cmds[Was(k, j)]
    BY <1>1, <2>1 DEF Commands, CommandOK
  <2>2. CASE \E i \in DOMAIN new : cmds'[j] = new[i]
    BY <1>1, <1>4, <1>5, <2>2
  <2> QED
    BY <1>2, <2>1, <2>2
<1>7. AnswersOwn'
  <2> SUFFICES ASSUME NEW i \in DOMAIN cmds', NEW j \in DOMAIN cmds', cmds'[j].answer \in Handles
               PROVE  /\ svc' # cmds'[j].answer /\ cmds'[i].svc # cmds'[j].answer
                      /\ i # j => cmds'[i].answer # cmds'[j].answer
    BY DEF AnswersOwn
  <2>1. Was(k, j) \in DOMAIN cmds \ {k} /\ cmds'[j] = cmds[Was(k, j)]
    BY <1>2, <1>5
  <2>2. svc' # cmds'[j].answer
    BY <1>4, <2>1
  <2>3. CASE Was(k, i) \in DOMAIN cmds \ {k} /\ cmds'[i] = cmds[Was(k, i)]
    <3>1. i # j => Was(k, i) # Was(k, j)
      BY <1>2, WasApart
    <3> QED
      BY <2>1, <2>2, <2>3, <3>1 DEF Commands, AnswersOwn
  <2>4. CASE \E n \in DOMAIN new : cmds'[i] = new[n]
    BY <1>5, <2>2, <2>4
  <2> QED
    BY <1>2, <2>3, <2>4
<1>8. ServiceIsLive'
  <2>1. CASE svc' = svc /\ cmds[k].op # "reconnect"
    <3>1. Reconnecting => Reconnecting'
      BY <1>2, <2>1 DEF Reconnecting
    <3> QED
      BY <1>1, <2>1, <3>1 DEF ServiceIsLive
  <2>2. CASE svc' = None
    BY <2>2 DEF ServiceIsLive
  <2>3. CASE svc' = cmds[k].answer /\ cmds[k].answer \in Handles
    BY <1>1, <2>3 DEF ServiceIsLive, Commands, CommandOK
  <2> QED
    BY <2>1, <2>2, <2>3 DEF MessageStep, NewService
<1> QED
  BY <1>1, <1>2, <1>3, <1>4, <1>6, <1>7, <1>8 DEF Commands

(* What the handlers of a user who waits must respect.                     *)
LEMMA StaysOrderly ==
  ASSUME RestOK, OneAtATime, NEW k \in DOMAIN cmds, NEW new, MessageStep(k, new),
         Unsaved' => Unsaved \/ cmds[k].op # "quiet",
         \A i \in DOMAIN new : new[i].op = "get" =>
           cmds[k].op # "quiet" /\ svc' # None /\ ~Unsaved'
  PROVE  OneAtATime'
<1>1. cmds' = RemoveAt(cmds, k) \o new /\ new \in Seq(Command) /\ cmds \in Seq(Command)
  BY DEF MessageStep, Handle, RestOK
<1>2. /\ cmds' \in Seq(Command)
      /\ \A j \in DOMAIN cmds' :
           \/ Was(k, j) \in DOMAIN cmds \ {k} /\ cmds'[j] = cmds[Was(k, j)]
           \/ \E i \in DOMAIN new : j = Len(cmds) - 1 + i /\ cmds'[j] = new[i]
  <2>1. cmds' \in Seq(Command) /\ Remains(cmds', cmds, k, new)
    BY <1>1, Removed
  <2> QED
    BY <2>1 DEF Remains
<1>3. \A i \in DOMAIN new : /\ new[i].op \in {"quiet", "get"} /\ new[i].svc = svc'
                            /\ new[i].op = "quiet" => svc' # None
  BY DEF MessageStep, FollowUp
<1>4. \A j \in DOMAIN cmds \ {k} : cmds[j].op # "quiet" => cmds[k].op = "quiet"
  BY DEF OneAtATime
<1>5. svc' = svc \/ cmds[k].op = "reconnect"
  BY DEF MessageStep, NewService
<1>6. \A i, j \in DOMAIN cmds' : cmds'[i].op # "quiet" /\ cmds'[j].op # "quiet" => i = j
  <2> SUFFICES ASSUME NEW i \in DOMAIN cmds', NEW j \in DOMAIN cmds',
                      cmds'[i].op # "quiet", cmds'[j].op # "quiet"
               PROVE  i = j
    OBVIOUS
  <2>1. CASE /\ Was(k, i) \in DOMAIN cmds \ {k} /\ cmds'[i] = cmds[Was(k, i)]
             /\ Was(k, j) \in DOMAIN cmds \ {k} /\ cmds'[j] = cmds[Was(k, j)]
    <3>1. Was(k, i) = Was(k, j)
      BY <2>1 DEF OneAtATime
    <3> QED
      <4>1. k \in Nat /\ i \in Nat /\ j \in Nat
        BY <1>1, <1>2
      <4> QED
        BY <3>1, <4>1, WasApart
  <2>2. CASE /\ \E n \in DOMAIN new : i = Len(cmds) - 1 + n /\ cmds'[i] = new[n]
             /\ \E n \in DOMAIN new : j = Len(cmds) - 1 + n /\ cmds'[j] = new[n]
    BY <1>3, <2>2 DEF MessageStep
  <2>3. CASE /\ Was(k, i) \in DOMAIN cmds \ {k} /\ cmds'[i] = cmds[Was(k, i)]
             /\ \E n \in DOMAIN new : cmds'[j] = new[n]
    BY <1>3, <1>4, <2>3
  <2>4. CASE /\ Was(k, j) \in DOMAIN cmds \ {k} /\ cmds'[j] = cmds[Was(k, j)]
             /\ \E n \in DOMAIN new : cmds'[i] = new[n]
    BY <1>3, <1>4, <2>4
  <2> QED
    BY <1>2, <2>1, <2>2, <2>3, <2>4
<1>7. \A j \in DOMAIN cmds' : cmds'[j].op # "reconnect" => cmds'[j].svc # None
  BY <1>2, <1>3 DEF OneAtATime
<1>8. \A j \in DOMAIN cmds' : cmds'[j].op \notin {"quiet", "reconnect"} => svc' # None
  BY <1>2, <1>3, <1>4, <1>5 DEF OneAtATime
<1>9. Unsaved' => ~Pending'
  BY <1>2, <1>3, <1>4 DEF OneAtATime, Pending
<1> QED
  BY <1>6, <1>7, <1>8, <1>9 DEF OneAtATime

LEMMA MessageOrderly ==
  ASSUME ScreensOK, RestOK, Orderly, NEW k \in DOMAIN cmds, Message(k)
  PROVE  Orderly'
<1> SUFFICES ASSUME ~raced' PROVE ~panicked' /\ (svc' = None => mode' = "remote") /\ OneAtATime'
  BY DEF Orderly
<1>1. UNCHANGED <<panicked, raced>>
  BY MessageSteps DEF MessageStep, Handle
<1>2. ~panicked /\ (svc = None => mode = "remote") /\ OneAtATime
  BY <1>1 DEF Orderly
<1>3. CASE Background(k) \/ MemoryLoaded(k) \/ Deleted(k) \/ Failed(k)
  <2>1. MessageStep(k, <<>>) /\ svc' = svc
    BY <1>3, PlainMessages
  <2>2. CASE cmds[k].op = "quiet"
    <3>1. mode' = mode /\ form' = form
      BY <1>3, <2>2 DEF Background, MemoryLoaded, Deleted, Failed, screens
    <3>2. Unsaved' = Unsaved
      BY <3>1 DEF Unsaved
    <3> QED
      BY <1>1, <1>2, <2>1, <3>1, <3>2, StaysOrderly
  <2>3. CASE cmds[k].op # "quiet"
    <3>1. svc # None
      BY <1>2, <1>3, <2>3 DEF OneAtATime, Background, MemoryLoaded, Deleted, Failed
    <3> QED
      BY <1>1, <1>2, <2>1, <2>3, <3>1, StaysOrderly
  <2> QED
    BY <2>2, <2>3
<1>4. CASE Stored(k)
  <2>1. PICK m \in Ids : Handle(k, Search(svc) \o <<Cmd("get", svc, m)>>)
    BY <1>4 DEF Stored
  <2> DEFINE new == Search(svc) \o <<Cmd("get", svc, m)>>
  <2>2. svc' = svc /\ svc \in Handles \cup {None} /\ cmds[k].op = "store" /\ mode' = "list"
    BY <1>4 DEF Stored, RestOK
  <2>3. MessageStep(k, new)
    BY <2>1, <2>2, StoredStarts DEF MessageStep, NewService
  <2>4. svc # None
    BY <1>2, <2>2 DEF OneAtATime
  <2>5. ~Unsaved'
    BY <2>2 DEF Unsaved
  <2> HIDE DEF new
  <2> QED
    BY <1>1, <1>2, <2>2, <2>3, <2>4, <2>5, StaysOrderly
<1>5. CASE Reconnected(k)
  <2>1. /\ Handle(k, Search(svc')) /\ svc' = cmds[k].answer /\ mode' = "list"
        /\ cmds[k].op = "reconnect" /\ cmds[k].answer \in Handles
    BY <1>5 DEF Reconnected
  <2>2. PICK h \in Handles : svc' = h
    BY <2>1
  <2> DEFINE new == Search(h)
  <2>3. MessageStep(k, new) /\ \A i \in DOMAIN new : new[i].op # "get"
    BY <2>1, <2>2, SearchStarts DEF MessageStep, NewService
  <2>4. ~Unsaved'
    BY <2>1 DEF Unsaved
  <2> HIDE DEF new
  <2> QED
    BY <1>1, <1>2, <2>1, <2>2, <2>3, <2>4, StaysOrderly, Unnamed
<1>6. CASE ReconnectFailed(k)
  <2>1. Handle(k, <<>>) /\ svc' = None /\ cmds[k].op = "reconnect" /\ mode' = "remote"
    BY <1>6 DEF ReconnectFailed
  <2>2. MessageStep(k, <<>>)
    BY <2>1 DEF MessageStep, NewService
  <2> QED
    BY <1>1, <1>2, <2>1, <2>2, StaysOrderly
<1> QED
  BY <1>3, <1>4, <1>5, <1>6 DEF Message

-----------------------------------------------------------------------------
(* The theorems.                                                           *)

LEMMA InitOK == Init => IInv
<1> SUFFICES ASSUME Init PROVE IInv
  OBVIOUS
<1> DEFINE c == Cmd("quiet", First, None)
<1>1. c \in Command /\ c.op = "quiet" /\ c.svc = First /\ c.answer = "none"
  BY HandlesAssumption DEF Cmd, Command
<1>2. cmds = <<c>> /\ svc = First /\ First \in Handles /\ First # None /\ "none" \notin Handles
  BY HandlesAssumption DEF Init
<1> HIDE DEF c
<1>3. TypeOK /\ ScreenPointers /\ SpinnerTruthful
  <2>1. cmds \in Seq(Command) /\ Len(cmds) = 1
    BY <1>1, <1>2
  <2>2. panicked \in BOOLEAN /\ raced \in BOOLEAN
    BY DEF Init
  <2> QED
    BY <1>2, <2>1, <2>2 DEF Init, TypeOK, ScreenPointers, SpinnerTruthful, Modes
<1>4. Commands
  BY <1>1, <1>2 DEF Init, Commands, CommandOK, AnswersOwn
<1>5. ServiceIsLive
  BY DEF Init, ServiceIsLive
<1>6. Orderly
  BY <1>1, <1>2 DEF Init, Orderly, OneAtATime, Unsaved
<1> QED
  BY <1>3, <1>4, <1>5, <1>6 DEF IInv

LEMMA NextOK == IInv /\ [Next]_vars => IInv'
<1> SUFFICES ASSUME IInv, [Next]_vars PROVE IInv'
  OBVIOUS
<1>1. ScreensOK /\ RestOK /\ SpinnerTruthful /\ Commands /\ ServiceIsLive /\ Orderly
  BY TypeParts DEF IInv
<1>2. ASSUME ScreensOK', RestOK', SpinnerTruthful', Commands', ServiceIsLive', Orderly'
      PROVE  IInv'
  BY <1>2 DEF IInv, TypeOK, ScreensOK, RestOK
<1>3. CASE Key
  BY <1>1, <1>2, <1>3, KeyScreens, KeySteps, KeyRest, KeyOrderly
<1>4. ASSUME NEW k \in DOMAIN cmds, Run(k) \/ CleanUp(k) \/ Connect(k)
      PROVE  IInv'
  <2>1. ScreensOK'
    BY <1>1, <1>4, RunOrderly DEF ScreensOK, ScreenPointers, screens
  <2> QED
    BY <1>1, <1>2, <1>4, <2>1, RunRest, RunOrderly
<1>5. ASSUME NEW k \in DOMAIN cmds, Message(k)
      PROVE  IInv'
  BY <1>1, <1>2, <1>5, MessageScreens, MessageSteps, MessageRest, MessageOrderly
<1>6. CASE UNCHANGED vars
  BY <1>6 DEF vars, screens, IInv, TypeOK, ScreenPointers, SpinnerTruthful, Commands, CommandOK, AnswersOwn,
       ServiceIsLive, Reconnecting, Orderly, OneAtATime, Unsaved, Pending
<1> QED
  BY <1>3, <1>4, <1>5, <1>6 DEF Next

(* The strengthened invariant holds of every state of the TUI.             *)
THEOREM Inductive == Spec => []IInv
BY InitOK, NextOK, PTL DEF Spec

(* Every variable stays in its type (App, the sub-models, the messages).   *)
THEOREM TypeCorrect == Spec => []TypeOK
<1>1. IInv => TypeOK
  BY DEF IInv
<1> QED
  BY <1>1, Inductive, PTL

(* App.View and the key handlers never find a nil sub-model, whatever      *)
(* message comes late.                                                     *)
THEOREM ScreensHaveModels == Spec => []ScreenPointers
<1>1. IInv => ScreenPointers
  BY DEF IInv
<1> QED
  BY <1>1, Inductive, PTL

(* App.inFlight is the number of commands whose message is yet to come:    *)
(* every path through settle and the tea.Batch calls counts alike.         *)
THEOREM SpinnerCounts == Spec => []SpinnerTruthful
<1>1. IInv => SpinnerTruthful
  BY DEF IInv
<1> QED
  BY <1>1, Inductive, PTL

(* However reconnects overlap, reconnectCmd closes no service that is in   *)
(* use except to replace it.                                               *)
THEOREM ServiceLives == Spec => []ServiceIsLive
<1>1. IInv => ServiceIsLive
  BY DEF IInv
<1> QED
  BY <1>1, Inductive, PTL

(* A user who waits stays on the endpoint screen while there is no service,*)
(* and none of their calls is made on a nil one.                           *)
THEOREM ParkedInOrder == Spec => []OrderlyParking
<1>1. IInv => OrderlyParking
  BY DEF IInv, Orderly, OrderlyParking
<1> QED
  BY <1>1, Inductive, PTL

(* A step that takes edited work away from a user who waits was confirmed. *)
LEMMA EditingStep ==
  ASSUME IInv, [Next]_vars, Unsaved, ~raced'
  PROVE  KeepsForm \/ form.confirmAct = "discard"
<1>1. ScreensOK /\ mode = "form" /\ form.text = "edited" /\ form \in Form
  BY TypeParts DEF IInv, Unsaved, ScreensOK, ScreenPointers
<1>2. ASSUME NEW f \in Form, f.supersedes = form.supersedes, FormKey(f) PROVE KeepsForm
  BY <1>1, <1>2 DEF FormKey, KeepsForm
<1>3. CASE Key
  <2>1. CASE ArmSave
    BY <1>1, <1>2, <2>1, FormTypes DEF ArmSave, Form
  <2>2. CASE Edit
    BY <1>1, <1>2, <2>2, FormTypes DEF Edit, Form
  <2>3. CASE RequestDiscard
    <3>1. FormKey([form EXCEPT !.confirmAct = "discard"])
      BY <1>1, <2>3 DEF RequestDiscard, Dirty
    <3> QED
      BY <1>1, <1>2, <3>1, FormTypes DEF Form
  <2>4. CASE FormConfirm
    <3>1. CASE FormKey([form EXCEPT !.confirmAct = "none"])
      BY <1>1, <1>2, <3>1, FormTypes DEF Form
    <3>2. CASE form' = Submitted(form) /\ mode' = mode
      BY <1>1, <3>2 DEF Submitted, Form, KeepsForm
    <3> QED
      BY <2>4, <3>1, <3>2 DEF FormConfirm
  <2>5. CASE OpenRow \/ Refresh \/ Rate \/ Follow
    BY <1>1, <2>5 DEF OpenRow, Refresh, Rate, Follow
  <2>6. CASE AskDelete \/ AnswerDelete \/ OpenRemote \/ Back \/ Supersede
    BY <1>1, <2>6 DEF AskDelete, AnswerDelete, OpenRemote, Back, Supersede
  <2>7. CASE ArmRemote \/ DiscardRemote \/ RemoteConfirm
    BY <1>1, <2>7 DEF ArmRemote, DiscardRemote, RemoteConfirm, InRemote
  <2> QED
    BY <1>3, <2>1, <2>2, <2>3, <2>4, <2>5, <2>6, <2>7 DEF Key
<1>4. ASSUME mode' = mode, form' = form PROVE KeepsForm
  BY <1>1, <1>4 DEF KeepsForm
<1>5. ASSUME NEW k \in DOMAIN cmds, Run(k) \/ CleanUp(k) \/ Connect(k) PROVE KeepsForm
  BY <1>4, <1>5 DEF Run, CleanUp, Connect, screens
<1>6. ASSUME NEW k \in DOMAIN cmds, Message(k) PROVE KeepsForm
  <2>1. ~raced
    BY <1>6, TypeParts, MessageSteps DEF IInv, MessageStep, Handle
  <2>2. cmds[k].op = "quiet"
    BY <2>1 DEF IInv, Orderly, OneAtATime, Pending
  <2>3. Background(k) \/ Failed(k)
    BY <1>6, <2>2 DEF Message, MemoryLoaded, Deleted, Stored, Reconnected, ReconnectFailed
  <2> QED
    BY <1>4, <2>2, <2>3 DEF Background, Failed, screens
<1>7. CASE UNCHANGED vars
  BY <1>4, <1>7 DEF vars, screens
<1> QED
  BY <1>3, <1>5, <1>6, <1>7 DEF Next

(* The discard confirmation guards every way an edited form goes away, for *)
(* a user who waits for the answers that change the screen.                *)
THEOREM EditsConfirmed == Spec => OrderlyEditing
<1>1. IInv /\ [Next]_vars => [Unsaved /\ ~raced' => KeepsForm \/ form.confirmAct = "discard"]_vars
  BY EditingStep
<1> QED
  BY <1>1, Inductive, PTL DEF Spec, OrderlyEditing
=============================================================================
