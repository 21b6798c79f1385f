------------------------------- MODULE TuiApp -------------------------------
(***************************************************************************)
(* The screens of the TUI and the connection under them. One update loop   *)
(* handles keys and messages; every Service call is a command that runs in *)
(* a goroutine of its own, on the service handle it was given, and answers *)
(* with one message, which the loop handles whatever screen is up by then. *)
(*                                                                         *)
(* Left out: what the list shows (TuiList), the find boxes, the texts and  *)
(* which field has the focus (entering a field, editing and leaving it are *)
(* one edit). A call succeeds or fails: other clients decide what it finds.*)
(* Quitting closes the service and ends the model.                         *)
(*                                                                         *)
(* Names with an underscore are deliberate variants of the definition that *)
(* follows them (see MemoryStore).                                         *)
(***************************************************************************)
EXTENDS Naturals, SequencesExt

CONSTANTS
  Ids,         \* memories
  Handles,     \* services connect may build, the first one included
  First,       \* the service the TUI starts with
  None,        \* nil
  MaxCmds      \* bound: commands that are outstanding after a key

VARIABLES
  mode, detail, form, confirm, remote,  \* App: the screen, its sub-models
  svc,         \* App.svc and App.cleanup, always assigned together
  inFlight,    \* App.inFlight
  cmds,        \* the commands whose message has not been handled, in no
               \* order: each runs and answers when it likes
  open,        \* the handles that are open
  built,       \* the handles connect has returned
  panicked,    \* a method of a nil service was called
  raced        \* history: a key was pressed while a call that changes the
               \* screen was outstanding

screens == <<mode, detail, form, confirm, remote>>

vars == <<screens, svc, inFlight, cmds, open, built, panicked, raced>>

-----------------------------------------------------------------------------
Modes == {"list", "detail", "form", "confirm", "remote"}

(* The editor: "dirty" compares its fields with what they were at the      *)
(* start. An edited text is "submitted" (history) from its save to the next*)
(* edit or the refusal of that save.                                       *)
Form == [supersedes : Ids, text : {"initial", "edited", "submitted"},
         confirmAct : {"none", "save", "discard"}, toDetail : BOOLEAN]

NewForm(i, from) == [supersedes |-> i, text |-> "initial", confirmAct |-> "none",
                     toDetail |-> from = "detail"]

Dirty(f) == f.text # "initial"

Submitted(f) == [f EXCEPT !.confirmAct = "none", !.text = IF Dirty(f) THEN "submitted" ELSE @]

(* The endpoint editor; "armed": a save or an unset waits for its y.       *)
Remote == [broken : BOOLEAN, armed : BOOLEAN]

NewRemote == [broken |-> FALSE, armed |-> FALSE]

(* A "quiet" command is a search or a rating: its message leaves the screen*)
(* alone. "get" opens the detail screen, "edit" the editor. A "reconnect"  *)
(* cleans up "svc", then connects: "closed" is in between; its answer is a *)
(* handle, that of the others "ok".                                        *)
Command == [op : {"quiet", "get", "edit", "delete", "store", "reconnect"},
            svc : Handles \cup {None}, id : Ids \cup {None},
            answer : {"none", "closed", "ok", "error"} \cup Handles]

Cmd(op, handle, i) == [op |-> op, svc |-> handle, id |-> i, answer |-> "none"]

(* None stands for nothing else.                                           *)
ASSUME HandlesAssumption ==
  /\ First \in Handles
  /\ None \notin Handles \cup Ids \cup Form \cup Remote \cup {"list", "detail"}
  /\ Handles \cap {"none", "closed", "ok", "error"} = {}

(* Calls whose message may change the screen.                              *)
Pending == \E k \in DOMAIN cmds : cmds[k].op # "quiet"

Reconnecting == \E k \in DOMAIN cmds : cmds[k].op = "reconnect"

Issue(cmd) ==
  /\ Len(cmds) < MaxCmds
  /\ cmds' = Append(cmds, cmd)
  /\ inFlight' = inFlight + 1

Init ==
  /\ mode = "list" /\ detail = None /\ form = None /\ confirm = None /\ remote = None
  /\ svc = First /\ open = {First} /\ built = {First}
  /\ cmds = <<Cmd("quiet", First, None)>> /\ inFlight = 1
  /\ panicked = FALSE /\ raced = FALSE

-----------------------------------------------------------------------------
(* Keys.                                                                   *)

Press ==
  /\ raced' = (raced \/ Pending)
  /\ UNCHANGED <<svc, open, built, panicked>>

PressOnly == Press /\ UNCHANGED <<cmds, inFlight>>

(* The list: a row is selected.                                            *)
Call(op, i) == Press /\ Issue(Cmd(op, svc, i))

OpenRow ==
  /\ mode = "list"
  /\ \E i \in Ids, op \in {"get", "edit"} : Call(op, i)
  /\ UNCHANGED screens

(* issueSearch: nothing without a service.                                 *)
Refresh ==
  /\ mode = "list" /\ svc # None
  /\ Call("quiet", None)
  /\ UNCHANGED screens

Rate ==
  /\ mode \in {"list", "detail"}
  /\ Call("quiet", None)
  /\ UNCHANGED screens

AskDelete_Anywhere ==
  /\ confirm' = mode /\ mode' = "confirm"
  /\ PressOnly
  /\ UNCHANGED <<detail, form, remote>>

AskDelete ==
  /\ mode \in {"list", "detail"}
  /\ confirm' = mode /\ mode' = "confirm"
  /\ PressOnly
  /\ UNCHANGED <<detail, form, remote>>

AnswerDelete ==
  /\ mode = "confirm"
  /\ mode' = confirm /\ confirm' = None
  /\ \/ Call("delete", None)
     \/ PressOnly
  /\ UNCHANGED <<detail, form, remote>>

OpenRemote ==
  /\ mode = "list"
  /\ remote' = NewRemote /\ mode' = "remote"
  /\ PressOnly
  /\ UNCHANGED <<detail, form, confirm>>

Back ==
  /\ mode = "detail"
  /\ detail' = None /\ mode' = "list"
  /\ PressOnly
  /\ UNCHANGED <<form, confirm, remote>>

(* The memory the detail screen shows was superseded when it was loaded.   *)
Follow ==
  /\ mode = "detail"
  /\ \E i \in Ids \ {detail} : Call("get", i)
  /\ UNCHANGED screens

Supersede ==
  /\ mode = "detail"
  /\ form' = NewForm(detail, "detail") /\ mode' = "form"
  /\ PressOnly
  /\ UNCHANGED <<detail, confirm, remote>>

-----------------------------------------------------------------------------
(* The editor: a pending confirmation intercepts every key.                *)

CloseForm ==
  /\ form' = None
  /\ mode' = IF form.toDetail /\ detail # None THEN "detail" ELSE "list"
  /\ UNCHANGED <<detail, confirm, remote>>

FormKey(f) == form' = f /\ PressOnly /\ UNCHANGED <<mode, detail, confirm, remote>>

InForm == mode = "form" /\ form.confirmAct = "none"

ArmSave == InForm /\ FormKey([form EXCEPT !.confirmAct = "save"])

(* The fields may be what they were at the start again.                    *)
Edit ==
  /\ InForm
  /\ \E text \in {"initial", "edited"} : FormKey([form EXCEPT !.text = text])

RequestDiscard_Silent ==
  /\ InForm
  /\ CloseForm /\ PressOnly

RequestDiscard ==
  /\ InForm
  /\ IF Dirty(form) THEN FormKey([form EXCEPT !.confirmAct = "discard"])
                   ELSE CloseForm /\ PressOnly

FormConfirm ==
  /\ mode = "form" /\ form.confirmAct # "none"
  /\ \/ FormKey([form EXCEPT !.confirmAct = "none"])    \* not y, or not a number of hours
     \/ form.confirmAct = "discard" /\ CloseForm /\ PressOnly
     \/ /\ form.confirmAct = "save"
        /\ form' = Submitted(form)
        /\ Call("store", None)
        /\ UNCHANGED <<mode, detail, confirm, remote>>

-----------------------------------------------------------------------------
(* The endpoint screen.                                                    *)

RemoteKey(r) == remote' = r /\ PressOnly /\ UNCHANGED <<mode, detail, form, confirm>>

InRemote == mode = "remote" /\ ~remote.armed

ArmRemote == InRemote /\ RemoteKey([remote EXCEPT !.armed = TRUE])

DiscardRemote_Always ==
  /\ InRemote
  /\ remote' = None /\ mode' = "list"
  /\ PressOnly /\ UNCHANGED <<detail, form, confirm>>

(* requestRemoteDiscard, with its confirmation if the endpoint was edited, *)
(* and closeRemote: no way out without a working connection.               *)
DiscardRemote ==
  /\ InRemote
  /\ ~remote.broken /\ svc # None
  /\ remote' = None /\ mode' = "list"
  /\ PressOnly /\ UNCHANGED <<detail, form, confirm>>

(* The endpoint is saved or unset (or that fails), then the TUI reconnects;*)
(* the screen stays until the message arrives.                             *)
RemoteConfirm ==
  /\ mode = "remote" /\ remote.armed
  /\ remote' = [remote EXCEPT !.armed = FALSE]
  /\ PressOnly \/ Call("reconnect", None)
  /\ UNCHANGED <<mode, detail, form, confirm>>

Key ==
  \/ OpenRow \/ Refresh \/ Rate \/ AskDelete \/ AnswerDelete \/ OpenRemote
  \/ Back \/ Follow \/ Supersede
  \/ ArmSave \/ Edit \/ RequestDiscard \/ FormConfirm
  \/ ArmRemote \/ DiscardRemote \/ RemoteConfirm

-----------------------------------------------------------------------------
(* Commands run.                                                           *)

Answer(k, a) == cmds' = [cmds EXCEPT ![k].answer = a]

(* A call on a closed service fails; on no service, it panics.             *)
Run(k) ==
  /\ cmds[k].op # "reconnect" /\ cmds[k].answer = "none"
  /\ IF cmds[k].svc = None
     THEN panicked' = TRUE /\ UNCHANGED cmds
     ELSE /\ Answer(k, "error") \/ (cmds[k].svc \in open /\ Answer(k, "ok"))
          /\ UNCHANGED panicked
  /\ UNCHANGED <<screens, svc, inFlight, open, built, raced>>

CleanUp(k) ==
  /\ cmds[k].op = "reconnect" /\ cmds[k].answer = "none"
  /\ open' = open \ {cmds[k].svc}
  /\ Answer(k, "closed")
  /\ UNCHANGED <<screens, svc, inFlight, built, panicked, raced>>

(* connect, then the probe, which closes the new service if it fails.      *)
Connect(k) ==
  /\ cmds[k].op = "reconnect" /\ cmds[k].answer = "closed"
  /\ \/ Answer(k, "error") /\ UNCHANGED <<open, built>>
     \/ \E h \in Handles \ built :
          /\ Answer(k, h)
          /\ open' = open \cup {h} /\ built' = built \cup {h}
  /\ UNCHANGED <<screens, svc, inFlight, panicked, raced>>

-----------------------------------------------------------------------------
(* Messages are handled.                                                   *)

(* settle, then the commands the handler returns ("new").                  *)
Handle(k, new) ==
  /\ cmds' = RemoveAt(cmds, k) \o new
  /\ inFlight' = (IF inFlight > 0 THEN inFlight - 1 ELSE 0) + Len(new)
  /\ UNCHANGED <<open, built, panicked, raced>>

Search(handle) == IF handle = None THEN <<>> ELSE <<Cmd("quiet", handle, None)>>

(* searchDoneMsg and ratedMsg.                                             *)
Background(k) ==
  /\ cmds[k].op = "quiet" /\ cmds[k].answer = "ok"
  /\ Handle(k, <<>>)
  /\ UNCHANGED <<screens, svc>>

MemoryLoaded_Detail(k) ==
  /\ cmds[k].op \in {"get", "edit"} /\ cmds[k].answer = "ok"
  /\ mode' = IF cmds[k].op = "edit" THEN "form" ELSE "detail"
  /\ detail' = cmds[k].id
  /\ Handle(k, <<>>)
  /\ UNCHANGED <<form, confirm, remote, svc>>

MemoryLoaded(k) ==
  /\ cmds[k].op \in {"get", "edit"} /\ cmds[k].answer = "ok"
  /\ IF cmds[k].op = "edit"
     THEN form' = NewForm(cmds[k].id, mode) /\ mode' = "form" /\ UNCHANGED detail
     ELSE detail' = cmds[k].id /\ mode' = "detail" /\ UNCHANGED form
  /\ Handle(k, <<>>)
  /\ UNCHANGED <<confirm, remote, svc>>

Deleted(k) ==
  /\ cmds[k].op = "delete" /\ cmds[k].answer = "ok"
  /\ detail' = None /\ mode' = "list"
  /\ Handle(k, <<>>)
  /\ UNCHANGED <<form, confirm, remote, svc>>

Stored_Uncounted(k) ==
  /\ cmds[k].op = "store" /\ cmds[k].answer = "ok"
  /\ form' = None /\ mode' = "list"
  /\ \E i \in Ids :
       cmds' = RemoveAt(cmds, k) \o Search(svc) \o <<Cmd("get", svc, i)>>
  /\ inFlight' = inFlight - 1 + Len(Search(svc))
  /\ UNCHANGED <<detail, confirm, remote, svc, open, built, panicked, raced>>

(* Refresh the list and open the correction.                               *)
Stored(k) ==
  /\ cmds[k].op = "store" /\ cmds[k].answer = "ok"
  /\ form' = None /\ mode' = "list"
  /\ \E i \in Ids : Handle(k, Search(svc) \o <<Cmd("get", svc, i)>>)
  /\ UNCHANGED <<detail, confirm, remote, svc>>

Reconnected(k) ==
  /\ cmds[k].op = "reconnect" /\ cmds[k].answer \in Handles
  /\ svc' = cmds[k].answer
  /\ remote' = IF remote = None THEN None ELSE [remote EXCEPT !.broken = FALSE]
  /\ mode' = "list"
  /\ Handle(k, Search(svc'))
  /\ UNCHANGED <<detail, form, confirm>>

ReconnectFailed_KeepsService(k) ==
  /\ cmds[k].op = "reconnect" /\ cmds[k].answer = "error"
  /\ remote' = [(IF remote = None THEN NewRemote ELSE remote) EXCEPT !.broken = TRUE]
  /\ mode' = "remote"
  /\ Handle(k, <<>>)
  /\ UNCHANGED <<detail, form, confirm, svc>>

(* The old handle is gone: park on the endpoint screen.                    *)
ReconnectFailed(k) ==
  /\ cmds[k].op = "reconnect" /\ cmds[k].answer = "error"
  /\ svc' = None
  /\ remote' = [(IF remote = None THEN NewRemote ELSE remote) EXCEPT !.broken = TRUE]
  /\ mode' = "remote"
  /\ Handle(k, <<>>)
  /\ UNCHANGED <<detail, form, confirm>>

(* errMsg: a toast, or, for a failed save, a message on the form that is up*)
Failed(k) ==
  /\ cmds[k].op # "reconnect" /\ cmds[k].answer = "error"
  /\ IF mode = "form" /\ cmds[k].op = "store"
     THEN form' = [form EXCEPT !.text = IF @ = "submitted" THEN "edited" ELSE @]
     ELSE UNCHANGED form
  /\ Handle(k, <<>>)
  /\ UNCHANGED <<mode, detail, confirm, remote, svc>>

Message(k) ==
  \/ Background(k) \/ MemoryLoaded(k) \/ Deleted(k) \/ Stored(k)
  \/ Reconnected(k) \/ ReconnectFailed(k) \/ Failed(k)

Next ==
  /\ ~panicked
  /\ \/ Key
     \/ \E k \in DOMAIN cmds : Run(k) \/ CleanUp(k) \/ Connect(k) \/ Message(k)

Spec == Init /\ [][Next]_vars

-----------------------------------------------------------------------------
(* Properties.                                                             *)

(* Every variable stays in its type.                                       *)
TypeOK ==
  /\ mode \in Modes /\ detail \in Ids \cup {None}
  /\ form \in Form \cup {None} /\ confirm \in {"list", "detail", None} /\ remote \in Remote \cup {None}
  /\ svc \in built \cup {None} /\ open \subseteq built /\ built \subseteq Handles
  /\ cmds \in Seq(Command) /\ inFlight \in Nat
  /\ panicked \in BOOLEAN /\ raced \in BOOLEAN

(* The screen that is up has its sub-model, and the delete modal leads back*)
(* to a screen that has its own: whatever messages come late, no key       *)
(* handler finds a nil pointer.                                            *)
ScreenPointers ==
  /\ mode = "detail" => detail # None
  /\ mode = "form" => form # None
  /\ mode = "remote" => remote # None
  /\ mode = "confirm" => confirm # None /\ (confirm = "detail" => detail # None)

(* The spinner turns exactly while a command is outstanding, the two that  *)
(* a successful save starts included.                                      *)
SpinnerTruthful == inFlight = Len(cmds)

(* The service the keys use is closed only while a reconnect is under way: *)
(* however saves of the endpoint overlap, none closes the service another  *)
(* one has just installed.                                                 *)
ServiceIsLive == svc # None => svc \in open \/ Reconnecting

(* "unsaved work goes through their own discard confirmations": if the user*)
(* waits for the answers that change the screen, an edited form goes away  *)
(* only after the discard was confirmed or the edits were stored; searches *)
(* and ratings never disturb it.                                           *)
Unsaved == mode = "form" /\ form.text = "edited"

KeepsForm == mode' = "form" /\ form'.supersedes = form.supersedes

OrderlyEditing == [][Unsaved /\ ~raced' => KeepsForm \/ form.confirmAct = "discard"]_vars

(* "the app stays parked here until it is fixed or unset": for that user,  *)
(* no screen that needs a service comes up without one, and no call is     *)
(* ever made on a nil service.                                             *)
OrderlyParking == ~raced => ~panicked /\ (svc = None => mode = "remote")

(* The same, of any user: false.                                           *)
EditorStays == form # None /\ Dirty(form) => mode = "form"

ParkedUntilFixed == svc = None => mode = "remote"
=============================================================================
