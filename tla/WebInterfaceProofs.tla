--------------------------- MODULE WebInterfaceProofs ---------------------------
(***************************************************************************)
(* Theorems about WebInterface, for any number of calls that overlap, any  *)
(* choice of which, and any contents of the forms.                         *)
(***************************************************************************)
EXTENDS WebInterface, SequenceTheorems, TLAPS

(***************************************************************************)
(* The inductive invariant.  A message is shown, and a file saved, two     *)
(* steps after the user asked: what a call holds in between is right.      *)
(***************************************************************************)
CallState == [op : Op \cup {"none", "graph"},
              stage : {"idle", "reading", "asked", "answered", "rendering"},
              typed : Typed, answer : {"none", "ok", "failed"}, body : SUBSET Value]

ToldState == [call : Slot \cup {Nobody}, kind : {"none", "success", "error", "message"}]

(* The methods that ask for nothing when an input is empty, and whose      *)
(* inputs matter to the node.                                              *)
Checked == {"unicast", "addPeer", "setEntry", "deleteEntry", "addEntry", "download"}

(* A call x carries what was typed; when it has been answered well, its    *)
(* message is among those the node took, and its file is the one asked for. *)
Right(x, messages) ==
  /\ x.op \in Checked => x.typed \in Value
  /\ x.op = "unicast" /\ x.answer = "ok" => x.typed \in messages
  /\ x.op = "download" /\ x.answer = "ok" => x.body = {x.typed}

CallsOK ==
  /\ calls \in [Slot -> CallState]
  /\ \A c \in Slot : Right(calls[c], node.messages)

PanelsOK ==
  /\ panels \in [Panel -> Seq(SUBSET Value)]
  /\ \A p \in Panel : Len(panels[p]) <= 1

SearchingOK == searching \in [{"searchAll", "searchFirst"} -> {"blank", "searching", "names"}]

ChatOK == chat \subseteq Value /\ chat \subseteq node.messages

SavedOK == \A file \in saved : /\ file \in [name : Value, data : SUBSET Value]
                               /\ file.data = {file.name}

NodeOK == node \in [routing : SUBSET Value, catalog : SUBSET Value, messages : SUBSET Value]

ConnectedOK ==
  connected \in Seq(Range(DocumentOrder)) /\ Len(connected) <= Len(DocumentOrder)

IInv == /\ CallsOK /\ form \in Typed /\ told \in ToldState /\ PanelsOK
        /\ SearchingOK /\ ChatOK /\ SavedOK /\ NodeOK /\ ConnectedOK

LEMMA TypeOfIInv == IInv => TypeOK
  BY DEF IInv, CallsOK, CallState, ToldState, PanelsOK, SearchingOK, ChatOK, SavedOK, NodeOK,
         ConnectedOK, TypeOK

LEMMA ShownOfIInv == IInv => ShownAsSent
  BY DEF IInv, ChatOK, SavedOK, ShownAsSent

(* What a step does to the panels, and to those of searches. *)
PanelsStep ==
  /\ PanelsOK'
  /\ \A p \in Panel : panels[p] # <<>> => panels'[p] # <<>>

SearchingStep ==
  /\ SearchingOK'
  /\ \A op \in DOMAIN searching :
       searching[op] = "names" /\ searching'[op] # "names"
         => \E c \in Slot : Idle(c) /\ calls'[c].op = op

GoodStep ==
  /\ CallsOK' /\ form' \in Typed /\ told' \in ToldState /\ PanelsStep
  /\ SearchingStep /\ ChatOK' /\ SavedOK' /\ NodeOK' /\ ConnectedOK'

-----------------------------------------------------------------------------
(* What methods are made of.                                               *)

(* What a method leaves alone stays right. *)
LEMMA PanelsSame ==
  ASSUME PanelsOK, panels' = panels
  PROVE  PanelsStep
  BY DEF PanelsOK, PanelsStep

LEMMA SearchingSame ==
  ASSUME SearchingOK, searching' = searching
  PROVE  SearchingStep
  BY DEF SearchingOK, SearchingStep

LEMMA ResultsSame ==
  ASSUME IInv, UNCHANGED results, node' = node
  PROVE  SearchingStep /\ ChatOK' /\ SavedOK'
  BY SearchingSame DEF IInv, results, ChatOK, SavedOK

LEMMA AroundSame ==
  ASSUME IInv, UNCHANGED around
  PROVE  /\ form' \in Typed /\ NodeOK' /\ ConnectedOK'
         /\ node' = node
  BY DEF IInv, around, NodeOK, ConnectedOK

LEMMA DisplaySame ==
  ASSUME IInv, UNCHANGED <<display, around>>, CallsOK', told' \in ToldState
  PROVE  GoodStep
  <1>1. UNCHANGED results /\ panels' = panels /\ UNCHANGED around
    BY DEF display
  <1> QED
    BY <1>1, AroundSame, ResultsSame, PanelsSame DEF IInv, GoodStep

LEMMA ChangedCall ==
  ASSUME CallsOK, node' = node, NEW c \in Slot, NEW x \in CallState, Right(x, node.messages),
         calls' = [calls EXCEPT ![c] = x]
  PROVE  CallsOK'
  BY DEF CallsOK

LEMMA SameCalls ==
  ASSUME CallsOK, node' = node, UNCHANGED calls
  PROVE  CallsOK'
  BY DEF CallsOK

LEMMA EndOK ==
  ASSUME CallsOK, node' = node, NEW c \in Slot, End(c)
  PROVE  CallsOK'
  <1>1. NoCall \in CallState
    BY DEF NoCall, CallState, Typed
  <1>2. Right(NoCall, node.messages)
    BY DEF NoCall, Right, Checked
  <1> QED
    BY <1>1, <1>2, ChangedCall DEF End

LEMMA AskOK ==
  ASSUME CallsOK, node' = node, NEW c \in Slot, NEW op \in Op \cup {"graph"}, NEW typed \in Typed,
         op \in Checked => typed \in Value, Ask(c, op, typed)
  PROVE  CallsOK'
  <1> DEFINE x == [op |-> op, stage |-> "asked", typed |-> typed, answer |-> "none", body |-> {}]
  <1>1. x \in CallState
    BY DEF CallState
  <1>2. Right(x, node.messages)
    BY DEF Right
  <1>3. calls' = [calls EXCEPT ![c] = x]
    BY DEF Ask
  <1> HIDE DEF x
  <1> QED
    BY <1>1, <1>2, <1>3, ChangedCall

(* A request that nothing typed goes with. *)
LEMMA FetchOK ==
  ASSUME CallsOK, node' = node, NEW c \in Slot, NEW op \in {"table", "graph", "catalog"},
         Ask(c, op, Empty)
  PROVE  CallsOK'
  <1>1. op \in Op \cup {"graph"} /\ op \notin Checked /\ Empty \in Typed
    BY DEF Op, Checked, Typed
  <1> QED
    BY <1>1, AskOK

LEMMA Told ==
  ASSUME NEW c \in Slot, NEW kind \in {"success", "error", "message"}, SaysNothing \/ Flash(c, kind)
  PROVE  told' \in ToldState
  BY DEF SaysNothing, Silent, Flash, ToldState

LEMMA Untold ==
  ASSUME SaysNothing
  PROVE  told' \in ToldState
  BY DEF SaysNothing, Silent, ToldState

LEMMA SubmitOK ==
  ASSUME CallsOK, form \in Typed, node' = node, NEW c \in Slot, NEW op \in Op, Submit(c, op)
  PROVE  CallsOK' /\ told' \in ToldState
  <1>1. CASE CheckInputs(form)
    <2>1. form \in Value
      BY <1>1 DEF CheckInputs, Typed
    <2> QED
      BY <1>1, <2>1, AskOK, Untold DEF Submit
  <1>2. CASE ~CheckInputs(form)
    BY <1>2, SameCalls, Told DEF Submit
  <1> QED
    BY <1>1, <1>2

LEMMA CatchOK ==
  ASSUME CallsOK, node' = node, NEW c \in Slot, Catch(c)
  PROVE  CallsOK' /\ told' \in ToldState
  BY EndOK, Told DEF Catch

LEMMA ReportsOK ==
  ASSUME CallsOK, node' = node, NEW c \in Slot, NEW op, Reports(c, op)
  PROVE  CallsOK' /\ told' \in ToldState
  BY EndOK, CatchOK, Told DEF Reports

LEMMA FormOK ==
  ASSUME IInv, node' = node, NEW c \in Slot, NEW op \in Op, Submit(c, op) \/ Reports(c, op)
  PROVE  CallsOK' /\ told' \in ToldState
  BY SubmitOK, ReportsOK DEF IInv

LEMMA NotEmpty ==
  ASSUME NEW s, Len(s) = 1
  PROVE  s # <<>>
  OBVIOUS

(* Clearing and filling in one go. *)
LEMMA ShowOK ==
  ASSUME CallsOK, PanelsOK, NEW c \in Slot, NEW panel \in Panel, Show(c, panel)
  PROVE  PanelsStep
  <1> DEFINE body   == calls[c].body
             answer == SUBSET Value
             empty  == <<>>
             one    == Append(empty, body)
  <1>1. body \in answer
    BY DEF CallsOK, CallState
  <1>2. empty \in Seq(answer) /\ Len(empty) = 0
    OBVIOUS
  <1>3. panels' = [panels EXCEPT ![panel] = one]
    BY DEF Show, Filled, Cleared, PanelsOK
  <1> HIDE DEF empty, body, answer
  <1>4. one \in Seq(answer) /\ Len(one) = 1
    BY <1>1, <1>2, AppendProperties
  <1> HIDE DEF one
  <1>5. one # <<>>
    BY <1>4, NotEmpty
  <1>6. panels' \in [Panel -> Seq(answer)]
    BY <1>3, <1>4 DEF PanelsOK, answer
  <1>7. ASSUME NEW p \in Panel
        PROVE  Len(panels'[p]) <= 1 /\ (panels[p] # <<>> => panels'[p] # <<>>)
    <2>1. CASE p = panel
      <3>1. panels'[p] = one
        BY <1>3, <2>1 DEF PanelsOK
      <3>2. Len(panels'[p]) = 1 /\ panels'[p] # <<>>
        BY <1>4, <1>5, <3>1, Zenon
      <3> QED
        BY <3>2
    <2>2. CASE p # panel
      <3>1. panels'[p] = panels[p]
        BY <1>3, <2>2 DEF PanelsOK
      <3> QED
        BY <3>1 DEF PanelsOK
    <2> QED
      BY <2>1, <2>2
  <1> QED
    BY <1>6, <1>7 DEF PanelsStep, PanelsOK, answer

-----------------------------------------------------------------------------
(* The methods.                                                            *)

LEMMA UnicastOK ==
  ASSUME IInv, NEW c \in Slot, Unicast(c)
  PROVE  GoodStep
  <1>1. UNCHANGED around /\ panels' = panels /\ searching' = searching /\ saved' = saved
    BY DEF Unicast
  <1>2. /\ CallsOK /\ ChatOK /\ node' = node
        /\ form' \in Typed /\ NodeOK' /\ ConnectedOK'
        /\ PanelsStep /\ SearchingStep /\ SavedOK'
    BY <1>1, AroundSame, PanelsSame, SearchingSame DEF IInv, SavedOK
  <1> SUFFICES CallsOK' /\ told' \in ToldState /\ ChatOK'
    BY <1>2 DEF GoodStep
  <1>3. CASE UNCHANGED chat /\ (Submit(c, "unicast") \/ Catch(c))
    BY <1>2, <1>3, SubmitOK, CatchOK DEF IInv, Op, ChatOK
  <1>4. CASE /\ Resumes(c, "unicast") /\ Passed(c) /\ End(c) /\ Flash(c, "message")
             /\ chat' = chat \cup {Sent(c)}
    <2>1. CallsOK' /\ told' \in ToldState
      BY <1>2, <1>4, EndOK, Told
    <2>2. calls[c].typed \in Value /\ calls[c].typed \in node.messages
      BY <1>2, <1>4 DEF CallsOK, Right, Resumes, Passed, Checked
    <2> QED
      BY <1>2, <1>4, <2>1, <2>2 DEF ChatOK, Sent
  <1> QED
    BY <1>3, <1>4 DEF Unicast

LEMMA BroadcastOK ==
  ASSUME IInv, NEW c \in Slot, Broadcast(c)
  PROVE  GoodStep
  <1>1. UNCHANGED <<display, around>> /\ node' = node
    BY DEF Broadcast, around
  <1> QED
    BY <1>1, FormOK, DisplaySame DEF Broadcast, Op

LEMMA RenderOK ==
  ASSUME IInv, node' = node, NEW c \in Slot, Render(c)
  PROVE  CallsOK' /\ told' \in ToldState /\ PanelsStep
  <1>1. CallsOK /\ PanelsOK /\ "graph" \in Panel
    BY DEF IInv, Panel
  <1>2. CASE /\ calls' = [calls EXCEPT ![c].stage = "rendering"]
             /\ SaysNothing /\ UNCHANGED panels
    <2> DEFINE x == [calls[c] EXCEPT !.stage = "rendering"]
    <2>1. calls[c] \in CallState /\ Right(calls[c], node.messages)
      BY <1>1 DEF CallsOK
    <2>2. x \in CallState /\ Right(x, node.messages)
      BY <2>1 DEF CallState, Right
    <2>3. calls' = [calls EXCEPT ![c] = x]
      BY <1>1, <1>2 DEF CallsOK
    <2> HIDE DEF x
    <2> QED
      BY <1>1, <1>2, <2>2, <2>3, ChangedCall, Untold, PanelsSame
  <1>3. CASE End(c) /\ Show(c, "graph") /\ SaysNothing
    BY <1>1, <1>3, EndOK, ShowOK, Untold
  <1>4. CASE Catch(c) /\ UNCHANGED panels
    BY <1>1, <1>4, CatchOK, PanelsSame
  <1> QED
    BY <1>2, <1>3, <1>4 DEF Render

LEMMA RoutingUpdateOK ==
  ASSUME IInv, NEW c \in Slot, RoutingUpdate(c)
  PROVE  GoodStep
  <1>1. CallsOK /\ PanelsOK /\ "table" \in Panel /\ UNCHANGED <<results, around>> /\ node' = node
    BY DEF IInv, Panel, RoutingUpdate, around
  <1> SUFFICES CallsOK' /\ told' \in ToldState /\ PanelsStep
    BY <1>1, AroundSame, ResultsSame DEF GoodStep
  <1>2. CASE Click(c, "table") /\ UNCHANGED panels
    BY <1>1, <1>2, FetchOK, Untold, PanelsSame DEF Click
  <1>3. CASE /\ Resumes(c, "table")
             /\ Ask(c, "graph", Empty)
             /\ IF Passed(c) THEN Show(c, "table") /\ Flash(c, "success")
                ELSE UNCHANGED panels /\ Flash(c, "error")
    BY <1>1, <1>3, FetchOK, Told, ShowOK, PanelsSame
  <1>4. CASE Catch(c) /\ UNCHANGED panels
    BY <1>1, <1>4, CatchOK, PanelsSame
  <1>5. CASE Render(c)
    BY <1>1, <1>5, RenderOK
  <1> QED
    BY <1>2, <1>3, <1>4, <1>5 DEF RoutingUpdate

LEMMA RoutingChangeOK ==
  ASSUME IInv, NEW c \in Slot, RoutingChange(c)
  PROVE  GoodStep
  <1>1. CallsOK /\ form \in Typed /\ UNCHANGED <<display, around>> /\ node' = node
    BY DEF IInv, RoutingChange, around
  <1>2. PICK op \in {"addPeer", "setEntry", "deleteEntry"} :
          \/ Submit(c, op)
          \/ /\ Resumes(c, op)
             /\ IF Passed(c) THEN ThenUpdate(c, "table") /\ Flash(c, "success") ELSE Catch(c)
    BY DEF RoutingChange
  <1>3. op \in Op
    BY DEF Op
  <1>4. CASE Submit(c, op)
    BY <1>1, <1>3, <1>4, SubmitOK, DisplaySame
  <1>5. CASE ThenUpdate(c, "table") /\ Flash(c, "success")
    <2>1. CallsOK' /\ told' \in ToldState
      BY <1>1, <1>5, FetchOK, Told DEF ThenUpdate
    <2> QED
      BY <1>1, <2>1, DisplaySame
  <1>6. CASE Catch(c)
    BY <1>1, <1>6, CatchOK, DisplaySame
  <1> QED
    BY <1>2, <1>4, <1>5, <1>6

LEMMA CatalogOK ==
  ASSUME IInv, NEW c \in Slot, Catalog(c)
  PROVE  GoodStep
  <1>1. /\ CallsOK /\ PanelsOK /\ form \in Typed /\ "catalog" \in Panel
        /\ UNCHANGED <<results, around>> /\ node' = node
    BY DEF IInv, Panel, Catalog, around
  <1> SUFFICES CallsOK' /\ told' \in ToldState /\ PanelsStep
    BY <1>1, AroundSame, ResultsSame DEF GoodStep
  <1>2. CASE Click(c, "catalog") /\ UNCHANGED panels
    BY <1>1, <1>2, FetchOK, Untold, PanelsSame DEF Click
  <1>3. CASE IF Passed(c) THEN End(c) /\ Show(c, "catalog") /\ Flash(c, "success")
             ELSE Catch(c) /\ UNCHANGED panels
    BY <1>1, <1>3, EndOK, Told, CatchOK, ShowOK, PanelsSame
  <1>4. CASE Submit(c, "addEntry") /\ UNCHANGED panels
    BY <1>1, <1>4, SubmitOK, PanelsSame DEF Op
  <1>5. CASE /\ UNCHANGED panels
             /\ IF Passed(c) THEN ThenUpdate(c, "catalog") /\ SaysNothing ELSE Catch(c)
    BY <1>1, <1>5, FetchOK, Untold, CatchOK, PanelsSame DEF ThenUpdate
  <1> QED
    BY <1>2, <1>3, <1>4, <1>5 DEF Catalog

LEMMA UploadOK ==
  ASSUME IInv, NEW c \in Slot, Upload(c)
  PROVE  GoodStep
  <1>1. CallsOK /\ form \in Typed /\ UNCHANGED <<display, around>> /\ node' = node
    BY DEF IInv, Upload, around
  <1> SUFFICES CallsOK' /\ told' \in ToldState
    BY <1>1, DisplaySame
  <1>2. CASE UNCHANGED calls /\ (Flash(c, "error") \/ Flash(c, "success"))
    BY <1>1, <1>2, SameCalls, Told
  <1>3. CASE /\ calls' = [calls EXCEPT ![c] = [NoCall EXCEPT !.op = "upload",
                                               !.stage = "reading", !.typed = form]]
             /\ SaysNothing
    <2> DEFINE x == [NoCall EXCEPT !.op = "upload", !.stage = "reading", !.typed = form]
    <2>1. x \in CallState /\ Right(x, node.messages)
      BY <1>1 DEF NoCall, CallState, Op, Right, Checked
    <2>2. calls' = [calls EXCEPT ![c] = x]
      BY <1>3
    <2> HIDE DEF x
    <2> QED
      BY <1>1, <1>3, <2>1, <2>2, ChangedCall, Untold
  <1>4. CASE Ask(c, "upload", calls[c].typed) /\ SaysNothing
    <2>1. calls[c].typed \in Typed
      BY <1>1 DEF CallsOK, CallState
    <2>2. "upload" \in Op \cup {"graph"} /\ "upload" \notin Checked
      BY DEF Op, Checked
    <2> QED
      BY <1>1, <1>4, <2>1, <2>2, AskOK, Untold
  <1>5. CASE End(c) /\ SaysNothing
    BY <1>1, <1>5, EndOK, Untold
  <1>6. CASE Reports(c, "upload")
    BY <1>1, <1>6, ReportsOK
  <1> QED
    BY <1>2, <1>3, <1>4, <1>5, <1>6 DEF Upload

LEMMA DownloadOK ==
  ASSUME IInv, NEW c \in Slot, Download(c)
  PROVE  GoodStep
  <1>1. UNCHANGED around /\ panels' = panels /\ searching' = searching /\ chat' = chat
    BY DEF Download
  <1>2. /\ CallsOK /\ SavedOK /\ node' = node
        /\ form' \in Typed /\ NodeOK' /\ ConnectedOK'
        /\ PanelsStep /\ SearchingStep /\ ChatOK'
    BY <1>1, AroundSame, PanelsSame, SearchingSame DEF IInv, ChatOK
  <1>3. CallsOK' /\ told' \in ToldState
    BY <1>2, FormOK DEF Download, Op
  <1> SUFFICES SavedOK'
    BY <1>2, <1>3 DEF GoodStep
  <1>4. CASE saved' = saved
    BY <1>2, <1>4 DEF SavedOK
  <1>5. CASE /\ Resumes(c, "download") /\ Passed(c)
             /\ saved' = saved \cup {[name |-> Sent(c), data |-> calls[c].body]}
    <2>1. calls[c].typed \in Value /\ calls[c].body = {calls[c].typed}
      BY <1>2, <1>5 DEF CallsOK, Right, Resumes, Passed, Checked
    <2> QED
      BY <1>2, <1>5, <2>1 DEF SavedOK, Sent
  <1> QED
    BY <1>4, <1>5 DEF Download, Reports

(* The names found go when the next search of that kind begins, and come    *)
(* from one that was answered.                                             *)
LEMMA SearchOK ==
  ASSUME IInv, NEW c \in Slot, Search(c)
  PROVE  GoodStep
  <1>1. UNCHANGED around /\ panels' = panels /\ chat' = chat /\ saved' = saved
    BY DEF Search
  <1>2. /\ CallsOK /\ SearchingOK /\ form \in Typed /\ node' = node
        /\ form' \in Typed /\ NodeOK' /\ ConnectedOK'
        /\ PanelsStep /\ ChatOK' /\ SavedOK'
    BY <1>1, AroundSame, PanelsSame DEF IInv, ChatOK, SavedOK
  <1>3. PICK op \in {"searchAll", "searchFirst"} :
          \/ /\ Submit(c, op)
             /\ searching' = IF CheckInputs(form) THEN [searching EXCEPT ![op] = "searching"]
                             ELSE searching
          \/ /\ Reports(c, op)
             /\ searching' = IF Passed(c) THEN [searching EXCEPT ![op] = "names"] ELSE searching
    BY DEF Search
  <1>4. op \in Op
    BY DEF Op
  <1>5. CallsOK' /\ told' \in ToldState
    BY <1>2, <1>3, <1>4, SubmitOK, ReportsOK
  <1> SUFFICES SearchingStep
    BY <1>2, <1>5 DEF GoodStep
  <1>6. CASE searching' = searching
    BY <1>2, <1>6, SearchingSame
  <1>7. CASE searching' = [searching EXCEPT ![op] = "names"]
    BY <1>2, <1>7 DEF SearchingStep, SearchingOK
  <1>8. CASE Submit(c, op) /\ CheckInputs(form) /\ searching' = [searching EXCEPT ![op] = "searching"]
    <2>1. Idle(c) /\ calls'[c].op = op
      BY <1>2, <1>8 DEF Submit, Offered, Ask, CallsOK
    <2>2. SearchingOK'
      BY <1>2, <1>8 DEF SearchingOK
    <2>3. ASSUME NEW kind \in DOMAIN searching, searching[kind] = "names", searching'[kind] # "names"
          PROVE  \E d \in Slot : Idle(d) /\ calls'[d].op = kind
      <3>1. kind = op
        BY <1>2, <1>8, <2>3 DEF SearchingOK
      <3> QED
        BY <2>1, <3>1
    <2> QED
      BY <2>2, <2>3 DEF SearchingStep
  <1> QED
    BY <1>3, <1>6, <1>7, <1>8

LEMMA ResolveOK ==
  ASSUME IInv, NEW c \in Slot, Resolve(c)
  PROVE  GoodStep
  <1>1. CallsOK /\ form \in Typed /\ UNCHANGED <<display, around>> /\ node' = node
    BY DEF IInv, Resolve, around
  <1> SUFFICES CallsOK' /\ told' \in ToldState
    BY <1>1, DisplaySame
  <1>2. CASE /\ Ask(c, "resolve", form)
             /\ IF CheckInputs(form) THEN SaysNothing ELSE Flash(c, "error")
    <2>1. "resolve" \in Op \cup {"graph"} /\ "resolve" \notin Checked
      BY DEF Op, Checked
    <2> QED
      BY <1>1, <1>2, <2>1, AskOK, Told
  <1>3. CASE Reports(c, "resolve")
    BY <1>1, <1>3, ReportsOK
  <1> QED
    BY <1>2, <1>3 DEF Resolve

LEMMA TagOK ==
  ASSUME IInv, NEW c \in Slot, Tag(c)
  PROVE  GoodStep
  <1>1. UNCHANGED <<display, around>> /\ node' = node
    BY DEF Tag, around
  <1> QED
    BY <1>1, FormOK, DisplaySame DEF Tag, Op

-----------------------------------------------------------------------------
(* The node.                                                               *)

(* The node keeps the messages it took, and takes that of a unicast. *)
LEMMA DoneOK ==
  ASSUME NodeOK, NEW x \in CallState, x.op \in Checked => x.typed \in Value
  PROVE  /\ Done(x) \in [routing : SUBSET Value, catalog : SUBSET Value, messages : SUBSET Value]
         /\ node.messages \subseteq Done(x).messages
         /\ x.op = "unicast" => x.typed \in Done(x).messages
  <1>1. CASE x.op \in {"addPeer", "setEntry"}
    <2>1. Done(x) = [node EXCEPT !.routing = @ \cup {x.typed}]
      BY <1>1 DEF Done
    <2> QED
      BY <1>1, <2>1 DEF NodeOK, Checked
  <1>2. CASE x.op = "deleteEntry"
    <2>1. Done(x) = [node EXCEPT !.routing = @ \ {x.typed}]
      BY <1>2 DEF Done
    <2> QED
      BY <1>2, <2>1 DEF NodeOK
  <1>3. CASE x.op = "addEntry"
    <2>1. Done(x) = [node EXCEPT !.catalog = @ \cup {x.typed}]
      BY <1>3 DEF Done
    <2> QED
      BY <1>3, <2>1 DEF NodeOK, Checked
  <1>4. CASE x.op = "unicast"
    <2>1. Done(x) = [node EXCEPT !.messages = @ \cup {x.typed}]
      BY <1>4 DEF Done
    <2> QED
      BY <1>4, <2>1 DEF NodeOK, Checked
  <1>5. CASE x.op \notin {"addPeer", "setEntry", "deleteEntry", "addEntry", "unicast"}
    <2>1. Done(x) = node
      BY <1>5 DEF Done
    <2> QED
      BY <1>5, <2>1 DEF NodeOK
  <1> QED
    BY <1>1, <1>2, <1>3, <1>4, <1>5

LEMMA AnswerOK ==
  ASSUME NodeOK, NEW x \in CallState, x.op \in Checked => x.typed \in Value
  PROVE  /\ Answer(x) \in SUBSET Value
         /\ x.op = "download" => Answer(x) = {x.typed}
  <1>1. CASE x.op \in {"table", "graph"}
    BY <1>1 DEF Answer, NodeOK
  <1>2. CASE x.op = "catalog"
    BY <1>2 DEF Answer, NodeOK
  <1>3. CASE x.op = "download"
    BY <1>3 DEF Answer, Checked
  <1>4. CASE x.op \notin {"table", "graph", "catalog", "download"}
    BY <1>4 DEF Answer
  <1> QED
    BY <1>1, <1>2, <1>3, <1>4

LEMMA ServeOK ==
  ASSUME IInv, NEW c \in Slot, Serve(c)
  PROVE  GoodStep
  <1> DEFINE x    == calls[c]
             done == Done(x)
             body == Answer(x)
             ok   == [x EXCEPT !.stage = "answered", !.answer = "ok", !.body = body]
             bad  == [x EXCEPT !.stage = "answered", !.answer = "failed"]
  <1>1. CallsOK /\ NodeOK /\ x \in CallState /\ Right(x, node.messages)
    BY DEF IInv, CallsOK
  <1>2. x.op \in Checked => x.typed \in Value
    BY <1>1 DEF Right
  <1>3. /\ done \in [routing : SUBSET Value, catalog : SUBSET Value, messages : SUBSET Value]
        /\ node.messages \subseteq done.messages
        /\ x.op = "unicast" => x.typed \in done.messages
    BY <1>1, <1>2, DoneOK
  <1>4. body \in SUBSET Value /\ (x.op = "download" => body = {x.typed})
    BY <1>1, <1>2, AnswerOK
  <1>5. \/ calls' = [calls EXCEPT ![c] = ok] /\ node' = done
        \/ calls' = [calls EXCEPT ![c] = bad] /\ node' \in {node, done}
    BY <1>1 DEF Serve
  <1> HIDE DEF done, body
  <1>6. ok \in CallState /\ Right(ok, done.messages)
    BY <1>1, <1>2, <1>3, <1>4 DEF CallState, Right
  <1>7. ASSUME NEW messages
        PROVE  bad \in CallState /\ Right(bad, messages)
    BY <1>1, <1>2 DEF CallState, Right
  <1> HIDE DEF x, ok, bad
  <1>8. NodeOK' /\ node.messages \subseteq node'.messages
    BY <1>1, <1>3, <1>5 DEF NodeOK
  <1>9. PICK y \in CallState : calls' = [calls EXCEPT ![c] = y] /\ Right(y, node'.messages)
    BY <1>5, <1>6, <1>7
  <1>10. ASSUME NEW d \in Slot
         PROVE  Right(calls'[d], node'.messages)
    <2>1. CASE d = c
      BY <1>1, <1>9, <2>1 DEF CallsOK
    <2>2. CASE d # c
      <3>1. calls'[d] = calls[d] /\ Right(calls[d], node.messages)
        BY <1>1, <1>9, <2>2 DEF CallsOK
      <3> QED
        BY <1>8, <3>1 DEF Right
    <2> QED
      BY <2>1, <2>2
  <1>11. CallsOK'
    BY <1>1, <1>9, <1>10 DEF CallsOK
  <1>12. /\ panels' = panels /\ searching' = searching /\ chat' = chat /\ saved' = saved
         /\ form' = form /\ connected' = connected /\ told' \in ToldState
    BY Untold DEF Serve, display, results
  <1>13. PanelsStep /\ SearchingStep
    BY <1>12, PanelsSame, SearchingSame DEF IInv
  <1>14. ChatOK' /\ SavedOK' /\ ConnectedOK' /\ form' \in Typed
    BY <1>8, <1>12 DEF IInv, ChatOK, SavedOK, ConnectedOK
  <1> QED
    BY <1>8, <1>11, <1>12, <1>13, <1>14 DEF GoodStep

-----------------------------------------------------------------------------
(* Loading, and typing.                                                    *)

LEMMA InitializeOK ==
  ASSUME IInv, Initialize
  PROVE  CallsOK'
  <1>1. CallsOK /\ node' = node
    BY DEF IInv, Initialize
  <1> DEFINE controller == DocumentOrder[Len(connected) + 1]
             found      == LooksUp(controller) \subseteq Range(connected)
  <1>2. ASSUME NEW op \in {"table", "catalog"}, \E c \in Slot : Idle(c) /\ Ask(c, op, Empty)
        PROVE  CallsOK'
    BY <1>1, <1>2, FetchOK
  <1>3. CASE UNCHANGED calls
    BY <1>1, <1>3, SameCalls
  <1>4. (CASE found /\ controller = "routing" -> \E c \in Slot : Idle(c) /\ Ask(c, "table", Empty)
           [] found /\ controller = "catalog" -> \E c \in Slot : Idle(c) /\ Ask(c, "catalog", Empty)
           [] OTHER -> UNCHANGED calls)
    BY DEF Initialize
  <1> HIDE DEF controller, found
  <1>5. CASE found /\ controller = "routing"
    <2>1. controller # "catalog"
      BY <1>5
    <2> QED
      BY <1>2, <1>4, <1>5, <2>1
  <1>6. CASE found /\ controller = "catalog"
    <2>1. controller # "routing"
      BY <1>6
    <2> QED
      BY <1>2, <1>4, <1>6, <2>1
  <1>7. CASE ~(found /\ controller = "routing") /\ ~(found /\ controller = "catalog")
    BY <1>3, <1>4, <1>7
  <1> QED
    BY <1>5, <1>6, <1>7

(* The page connects the controllers of the document and no other. *)
LEMMA ConnectedGrows ==
  ASSUME ConnectedOK, Initialize
  PROVE  ConnectedOK'
  <1> DEFINE k == Len(connected) + 1
             Controller == Range(DocumentOrder)
  <1>1. Len(connected) \in Nat /\ Len(connected) # Len(DocumentOrder)
    BY LenProperties DEF ConnectedOK, Initialize, Loaded
  <1>2. Len(DocumentOrder) \in Nat /\ DOMAIN DocumentOrder = 1 .. Len(DocumentOrder)
    BY DEF DocumentOrder
  <1>3. k \in DOMAIN DocumentOrder /\ k <= Len(DocumentOrder)
    BY <1>1, <1>2 DEF ConnectedOK
  <1>4. DocumentOrder[k] \in Controller
    BY <1>3 DEF Range
  <1>5. connected' = Append(connected, DocumentOrder[k])
    BY DEF Initialize
  <1>6. connected \in Seq(Controller)
    BY DEF ConnectedOK
  <1> HIDE DEF Controller
  <1>7. connected' \in Seq(Controller) /\ Len(connected') = k
    BY <1>4, <1>5, <1>6, AppendProperties
  <1> QED
    BY <1>3, <1>7 DEF ConnectedOK, Controller

LEMMA LoadOK ==
  ASSUME IInv, Initialize
  PROVE  GoodStep
  <1>1. /\ UNCHANGED results /\ panels' = panels /\ form' = form /\ node' = node
        /\ told' \in ToldState
    BY Untold DEF Initialize, display
  <1>2. PanelsStep /\ SearchingStep /\ ChatOK' /\ SavedOK'
    BY <1>1, PanelsSame, ResultsSame DEF IInv
  <1>3. CallsOK' /\ ConnectedOK'
    BY InitializeOK, ConnectedGrows DEF IInv
  <1> QED
    BY <1>1, <1>2, <1>3 DEF IInv, NodeOK, GoodStep

LEMMA TypeOnOK ==
  ASSUME IInv, TypeOn
  PROVE  GoodStep
  <1>1. /\ UNCHANGED <<calls, results, node, connected>> /\ panels' = panels
        /\ form' \in Typed /\ told' \in ToldState
    BY Untold DEF TypeOn, display
  <1>2. PanelsStep /\ SearchingStep /\ ChatOK' /\ SavedOK'
    BY <1>1, PanelsSame, ResultsSame DEF IInv
  <1> QED
    BY <1>1, <1>2, SameCalls DEF IInv, NodeOK, ConnectedOK, GoodStep

-----------------------------------------------------------------------------
(* The invariant.                                                          *)

LEMMA InitIInv == Init => IInv
  <1> SUFFICES ASSUME Init PROVE IInv
    OBVIOUS
  <1>1. CallsOK
    <2>1. NoCall \in CallState
      BY DEF NoCall, CallState, Typed
    <2>2. Right(NoCall, node.messages)
      BY DEF NoCall, Right, Checked
    <2> QED
      BY <2>1, <2>2 DEF Init, CallsOK
  <1>2. form \in Typed /\ told \in ToldState
    BY DEF Init, Typed, Silent, ToldState
  <1>3. PanelsOK
    <2> DEFINE empty == <<>>
               answer == SUBSET Value
    <2>1. empty \in Seq(answer) /\ Len(empty) = 0
      OBVIOUS
    <2>2. panels = [p \in Panel |-> empty]
      BY DEF Init
    <2> HIDE DEF empty, answer
    <2>3. panels \in [Panel -> Seq(answer)] /\ \A p \in Panel : Len(panels[p]) = 0
      BY <2>1, <2>2
    <2>4. \A p \in Panel : Len(panels[p]) <= 1
      BY <2>3
    <2> QED
      BY <2>3, <2>4 DEF PanelsOK, answer
  <1>4. SearchingOK /\ ChatOK /\ SavedOK /\ NodeOK
    BY DEF Init, SearchingOK, ChatOK, SavedOK, NodeOK
  <1>5. ConnectedOK
    BY DEF Init, ConnectedOK, DocumentOrder
  <1> QED
    BY <1>1, <1>2, <1>3, <1>4, <1>5 DEF IInv

LEMMA StepGood ==
  ASSUME IInv, Next
  PROVE  GoodStep
  <1>1. ASSUME NEW c \in Slot, Methods(c)
        PROVE  GoodStep
    BY <1>1, UnicastOK, BroadcastOK, RoutingUpdateOK, RoutingChangeOK, CatalogOK, UploadOK,
       DownloadOK, SearchOK, ResolveOK, TagOK DEF Methods
  <1> QED
    BY <1>1, LoadOK, TypeOnOK, ServeOK DEF Next

LEMMA StepIInv == IInv /\ [Next]_vars => IInv'
  <1>1. ASSUME IInv, Next
        PROVE  IInv'
    BY <1>1, StepGood DEF GoodStep, PanelsStep, SearchingStep, IInv
  <1>2. ASSUME IInv, UNCHANGED vars
        PROVE  IInv'
    BY <1>2 DEF vars, IInv, CallsOK, PanelsOK, SearchingOK, ChatOK, SavedOK, NodeOK, ConnectedOK
  <1> QED
    BY <1>1, <1>2

LEMMA Invariance == Spec => []IInv
  BY InitIInv, StepIInv, PTL DEF Spec

(***************************************************************************)
(* The types of the calls under way and of everything the page shows.      *)
(***************************************************************************)
THEOREM TypeCorrect == Spec => []TypeOK
  BY Invariance, TypeOfIInv, PTL

(***************************************************************************)
(* Whatever the user types while requests are under way, a message shown   *)
(* as sent is one the node took, and a file is saved under the name it was *)
(* asked for by.                                                           *)
(***************************************************************************)
THEOREM ShownTrue == Spec => []ShownAsSent
  BY Invariance, ShownOfIInv, PTL

(***************************************************************************)
(* Whatever updates overlap, fail or wait for their graph, a panel that    *)
(* shows an answer shows exactly one from then on; and the names a search  *)
(* found go only when a search of that kind begins.                        *)
(***************************************************************************)
THEOREM PanelsKept == Spec => PanelsHoldOneAnswer
  <1>1. IInv /\ [Next]_vars => [KeepsAnswers]_vars
    BY StepGood DEF GoodStep, PanelsStep, PanelsOK, SearchingStep, KeepsAnswers
  <1> QED
    BY <1>1, Invariance, PTL DEF Spec, PanelsHoldOneAnswer
=============================================================================
