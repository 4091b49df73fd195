------------------------------ MODULE WebInterface ------------------------------
(***************************************************************************)
(* The controllers of the page (main.js) and the node's HTTP server.  A    *)
(* method runs to its first await, its request is served, then the rest    *)
(* of the method runs: other methods, and the user, come in between.       *)
(*                                                                         *)
(* A call is a method under way.  Its request carries what the user had    *)
(* typed when it began, and the user types on.  All the inputs of a form   *)
(* are one value, Empty when one that the method requires is empty; and so *)
(* are all forms, for a step reads one of them, and the user may have      *)
(* typed into it just before.                                              *)
(***************************************************************************)
EXTENDS Naturals, SequencesExt

CONSTANTS Slot,    \* bound: calls of the user that may overlap
          Offers,  \* Offers[c]: the methods a slot may hold, so which overlap
          Value,   \* contents of a form with every required input filled
          Empty,   \* a form with a required input empty
          Nobody   \* no call

(* The methods a button calls; deleteEntry is setEntry without a relay. *)
Op == {"table", "catalog", "unicast", "sendChat", "sendPrivate", "addPeer", "setEntry",
       "deleteEntry", "addEntry", "upload", "download", "searchAll", "searchFirst", "resolve", "tag"}

(* The page begins two updates when it loads. *)
ASSUME SlotAssumption == Nobody \notin Slot /\ \E c, d \in Slot : c # d
ASSUME OffersAssumption == Offers \in [Slot -> SUBSET Op]
ASSUME ValueAssumption == Empty \notin Value

Typed == Value \cup {Empty}
Panel == {"table", "graph", "catalog"}

VARIABLES
  calls,      \* the call each slot holds
  form,       \* what the user has typed
  told,       \* what the last step told the user, and for which call
  panels,     \* the answers each panel shows, in the order they were added
  searching,  \* the result panel of each kind of search
  chat,       \* messages the page shows as sent
  saved,      \* files the user was given, with their contents
  node,       \* what the node holds: its routing table and catalog, and the
              \* messages it took
  connected   \* controllers that are connected, in order

vars == <<calls, form, told, panels, searching, chat, saved, node, connected>>

results == <<searching, chat, saved>>
display == <<panels, results>>
around  == <<form, node, connected>>

-----------------------------------------------------------------------------
(* Loading the page.                                                       *)

(* The controllers in the order of their elements in the document, which   *)
(* is the order in which they are initialized and connected.               *)
DocumentOrder ==
  <<"flash", "peerInfo", "messaging", "unicast", "broadcast", "routing",
    "catalog", "dataSharing", "search", "naming", "packets">>

(* What initialize looks up with getControllerForElementAndIdentifier. *)
LooksUp(controller) ==
  IF controller \in {"routing", "catalog", "packets"} THEN {"peerInfo"} ELSE {}

Loaded == Len(connected) = Len(DocumentOrder)

-----------------------------------------------------------------------------
(* Calls.                                                                  *)

NoCall == [op |-> "none", stage |-> "idle", typed |-> Empty, answer |-> "none", body |-> {}]
Silent == [call |-> Nobody, kind |-> "none"]

Idle(c) == calls[c] = NoCall

(* The user may click on any button whenever the script is not running. *)
Offered(c, op) == Loaded /\ Idle(c) /\ op \in Offers[c]

(* BaseElement.checkInputs *)
CheckInputs(typed) == typed # Empty

(* printError and printSuccess: the message goes away by itself later. *)
Flash(c, kind) == told' = [call |-> c, kind |-> kind]

SaysNothing == told' = Silent

End(c) == calls' = [calls EXCEPT ![c] = NoCall]

Ask(c, op, typed) ==
  calls' = [calls EXCEPT ![c] = [op |-> op, stage |-> "asked", typed |-> typed,
                                 answer |-> "none", body |-> {}]]

(* A click on a button whose method checks the inputs first. *)
Submit(c, op) ==
  /\ Offered(c, op)
  /\ IF CheckInputs(form) THEN Ask(c, op, form) /\ SaysNothing
     ELSE UNCHANGED calls /\ Flash(c, "error")

(* A click on a button whose method needs no input. *)
Click(c, op) ==
  /\ Offered(c, op)
  /\ Ask(c, op, Empty)
  /\ SaysNothing

(* BaseElement.fetch throws unless the status is 200. *)
Passed(c) == calls[c].answer = "ok"

(* Mutant of Catch: the promise is rejected and nobody is told. *)
CatchSilently(c) == End(c) /\ SaysNothing

(* catch (e): every method that fetches ends with one. *)
Catch(c) == End(c) /\ Flash(c, "error")

(* Mutant of Sent: the inputs are read again after the await. *)
SentLate(c) == form

(* The variables of a method, read from the inputs before its request. *)
Sent(c) == calls[c].typed

Resumes(c, op) == Loaded /\ calls[c].op = op /\ calls[c].stage = "answered"

(* The rest of a method that only says how the request went. *)
Reports(c, op) ==
  /\ Resumes(c, op)
  /\ IF Passed(c) THEN End(c) /\ Flash(c, "success") ELSE Catch(c)

(* Mutant of ThenUpdate: what is shown is left as it was. *)
ThenNothing(c, op) == End(c)

(* The update a change starts, and nobody waits for. *)
ThenUpdate(c, op) == Ask(c, op, Empty)

(* innerHTML = "" *)
Cleared(panel) == [panels EXCEPT ![panel] = <<>>]

(* appendChild, of all the elements an answer is shown with. *)
Filled(shown, panel, answer) == [shown EXCEPT ![panel] = Append(@, answer)]

Show(c, panel) == panels' = Filled(Cleared(panel), panel, calls[c].body)

(* Mutant of Render: the graph is cleared before the await. *)
RenderCleared(c) ==
  \/ /\ Resumes(c, "graph") /\ Passed(c)
     /\ calls' = [calls EXCEPT ![c].stage = "rendering"]
     /\ panels' = Cleared("graph") /\ SaysNothing
  \/ /\ calls[c].stage = "rendering"
     /\ \/ End(c) /\ panels' = Filled(panels, "graph", calls[c].body) /\ SaysNothing
        \/ Catch(c) /\ UNCHANGED panels

(* The graph is rendered by a worker; then its panel is cleared and filled, *)
(* or the promise of viz.renderSVGElement is rejected.                      *)
Render(c) ==
  \/ /\ Resumes(c, "graph") /\ Passed(c)
     /\ calls' = [calls EXCEPT ![c].stage = "rendering"]
     /\ SaysNothing /\ UNCHANGED panels
  \/ /\ calls[c].stage = "rendering"
     /\ \/ End(c) /\ Show(c, "graph") /\ SaysNothing
        \/ Catch(c) /\ UNCHANGED panels

-----------------------------------------------------------------------------
(* The controllers.                                                        *)

(* Messaging.addMsg shows the message, as the one that was sent. *)
Unicast(c) ==
  /\ \/ Submit(c, "unicast") /\ UNCHANGED chat
     \/ /\ Resumes(c, "unicast")
        /\ IF Passed(c) THEN /\ End(c) /\ Flash(c, "message")
                             /\ chat' = chat \cup {Sent(c)}
           ELSE Catch(c) /\ UNCHANGED chat
  /\ UNCHANGED <<panels, searching, saved, around>>

Broadcast(c) ==
  /\ \E op \in {"sendChat", "sendPrivate"} : Submit(c, op) \/ Reports(c, op)
  /\ UNCHANGED <<display, around>>

(* update: the table, and then, whether it came or not, the graph. *)
RoutingUpdate(c) ==
  /\ \/ Click(c, "table") /\ UNCHANGED panels
     \/ /\ Resumes(c, "table")
        /\ Ask(c, "graph", Empty)
        /\ IF Passed(c) THEN Show(c, "table") /\ Flash(c, "success")
           ELSE UNCHANGED panels /\ Flash(c, "error")
     \/ Resumes(c, "graph") /\ ~Passed(c) /\ Catch(c) /\ UNCHANGED panels
     \/ Render(c)
  /\ UNCHANGED <<results, around>>

(* addPeer and setEntry. *)
RoutingChange(c) ==
  /\ \E op \in {"addPeer", "setEntry", "deleteEntry"} :
       \/ Submit(c, op)
       \/ /\ Resumes(c, op)
          /\ IF Passed(c) THEN ThenUpdate(c, "table") /\ Flash(c, "success") ELSE Catch(c)
  /\ UNCHANGED <<display, around>>

(* update and add; an entry that was added is only told by the update. *)
Catalog(c) ==
  /\ \/ Click(c, "catalog") /\ UNCHANGED panels
     \/ /\ Resumes(c, "catalog")
        /\ IF Passed(c) THEN End(c) /\ Show(c, "catalog") /\ Flash(c, "success")
           ELSE Catch(c) /\ UNCHANGED panels
     \/ Submit(c, "addEntry") /\ UNCHANGED panels
     \/ /\ Resumes(c, "addEntry") /\ UNCHANGED panels
        /\ IF Passed(c) THEN ThenUpdate(c, "catalog") /\ SaysNothing ELSE Catch(c)
  /\ UNCHANGED <<results, around>>

(* upload reads the file first, and tells how far it got by messages of    *)
(* success; a FileReader that fails tells nobody.                          *)
Upload(c) ==
  /\ \/ /\ Offered(c, "upload")
        /\ IF form = Empty THEN UNCHANGED calls /\ Flash(c, "error")
           ELSE /\ calls' = [calls EXCEPT ![c] = [NoCall EXCEPT !.op = "upload",
                                                 !.stage = "reading", !.typed = form]]
                /\ SaysNothing
     \/ /\ calls[c].stage = "reading"
        /\ \/ UNCHANGED calls /\ Flash(c, "success")
           \/ Ask(c, "upload", calls[c].typed) /\ SaysNothing
           \/ End(c) /\ SaysNothing
     \/ Reports(c, "upload")
  /\ UNCHANGED <<display, around>>

(* triggerDownload gives the user what came, named after what was asked.   *)
Download(c) ==
  /\ \/ Submit(c, "download") /\ UNCHANGED saved
     \/ /\ Reports(c, "download")
        /\ saved' = IF Passed(c) THEN saved \cup {[name |-> Sent(c), data |-> calls[c].body]}
                    ELSE saved
  /\ UNCHANGED <<panels, searching, chat, around>>

(* The panel says "searching" from the request on, after a failure too. *)
Search(c) ==
  /\ \E op \in {"searchAll", "searchFirst"} :
       \/ /\ Submit(c, op)
          /\ searching' = IF CheckInputs(form) THEN [searching EXCEPT ![op] = "searching"]
                          ELSE searching
       \/ /\ Reports(c, op)
          /\ searching' = IF Passed(c) THEN [searching EXCEPT ![op] = "names"] ELSE searching
  /\ UNCHANGED <<panels, chat, saved, around>>

(* resolve does not look at what checkInputs returns; its panel, like that *)
(* of upload, shows a text, and texts are not told apart.                  *)
Resolve(c) ==
  /\ \/ /\ Offered(c, "resolve")
        /\ Ask(c, "resolve", form)
        /\ IF CheckInputs(form) THEN SaysNothing ELSE Flash(c, "error")
     \/ Reports(c, "resolve")
  /\ UNCHANGED <<display, around>>

Tag(c) ==
  /\ Submit(c, "tag") \/ Reports(c, "tag")
  /\ UNCHANGED <<display, around>>

-----------------------------------------------------------------------------
Init ==
  /\ calls = [c \in Slot |-> NoCall]
  /\ form = Empty
  /\ told = Silent
  /\ panels = [p \in Panel |-> <<>>]
  /\ searching = [op \in {"searchAll", "searchFirst"} |-> "blank"]
  /\ chat = {} /\ saved = {}
  /\ node = [routing |-> {}, catalog |-> {}, messages |-> {}]
  /\ connected = <<>>

(* The initialize method of the next controller of the page; its context   *)
(* is among the connected ones only afterwards.  One that does not find    *)
(* what it looks up throws, and Stimulus reports that to the console.      *)
Initialize ==
  /\ ~Loaded
  /\ LET controller == DocumentOrder[Len(connected) + 1]
         found      == LooksUp(controller) \subseteq Range(connected)
     IN /\ connected' = Append(connected, controller)
        /\ CASE found /\ controller = "routing" ->
                  \E c \in Slot : Idle(c) /\ Ask(c, "table", Empty)
             [] found /\ controller = "catalog" ->
                  \E c \in Slot : Idle(c) /\ Ask(c, "catalog", Empty)
             [] OTHER -> UNCHANGED calls
  /\ SaysNothing /\ UNCHANGED <<display, form, node>>

(* The user goes on typing, whatever is under way. *)
TypeOn ==
  /\ form' \in Typed
  /\ SaysNothing /\ UNCHANGED <<calls, display, node, connected>>

(* What the node holds when it has done what a request asks. *)
Done(call) ==
  CASE call.op \in {"addPeer", "setEntry"} -> [node EXCEPT !.routing = @ \cup {call.typed}]
    [] call.op = "deleteEntry" -> [node EXCEPT !.routing = @ \ {call.typed}]
    [] call.op = "addEntry"    -> [node EXCEPT !.catalog = @ \cup {call.typed}]
    [] call.op = "unicast"     -> [node EXCEPT !.messages = @ \cup {call.typed}]
    [] OTHER -> node

(* What it answers: a table or catalog, or a file, the contents of which   *)
(* are what the metahash stands for.  Texts are not told apart.            *)
Answer(call) ==
  CASE call.op \in {"table", "graph"} -> node.routing
    [] call.op = "catalog"  -> node.catalog
    [] call.op = "download" -> {call.typed}
    [] OTHER -> {}

(* A handler of the node's HTTP server does what the request asks.  Or it   *)
(* refuses it with another status than 200, as it does with no name to     *)
(* resolve, or the request is lost, or its answer is when it has been done. *)
Serve(c) ==
  /\ calls[c].stage = "asked"
  /\ \/ /\ calls[c].op = "resolve" => calls[c].typed # Empty
        /\ calls' = [calls EXCEPT ![c] = [@ EXCEPT !.stage = "answered", !.answer = "ok",
                                                  !.body = Answer(calls[c])]]
        /\ node' = Done(calls[c])
     \/ /\ calls' = [calls EXCEPT ![c] = [@ EXCEPT !.stage = "answered", !.answer = "failed"]]
        /\ node' \in {node, Done(calls[c])}
  /\ SaysNothing /\ UNCHANGED <<display, form, connected>>

Methods(c) == \/ Unicast(c) \/ Broadcast(c) \/ RoutingUpdate(c) \/ RoutingChange(c)
              \/ Catalog(c) \/ Upload(c) \/ Download(c) \/ Search(c) \/ Resolve(c) \/ Tag(c)

Next == \/ Initialize
        \/ TypeOn
        \/ \E c \in Slot : Methods(c) \/ Serve(c)

(* The page loads, a fetch settles, and a method goes on when its promise  *)
(* does; nobody has to click.                                              *)
GoesOn(c) == ~Idle(c) /\ (Methods(c) \/ Serve(c))

Fairness == /\ WF_connected(Initialize)
            /\ \A c \in Slot : WF_calls(GoesOn(c))

Spec == Init /\ [][Next]_vars /\ Fairness

-----------------------------------------------------------------------------
(* Properties.                                                             *)

TypeOK ==
  /\ calls \in [Slot -> [op : Op \cup {"none", "graph"},
                         stage : {"idle", "reading", "asked", "answered", "rendering"},
                         typed : Typed,
                         answer : {"none", "ok", "failed"},
                         body : SUBSET Value]]
  /\ form \in Typed
  /\ told \in [call : Slot \cup {Nobody}, kind : {"none", "success", "error", "message"}]
  /\ panels \in [Panel -> Seq(SUBSET Value)]
  /\ searching \in [{"searchAll", "searchFirst"} -> {"blank", "searching", "names"}]
  /\ chat \subseteq Value
  /\ saved \subseteq [name : Value, data : SUBSET Value]
  /\ node \in [routing : SUBSET Value, catalog : SUBSET Value, messages : SUBSET Value]
  /\ connected \in Seq(Range(DocumentOrder))

(* What the page shows as sent, the node took as it is shown, and a file   *)
(* that is saved is what its name stands for, although the user types on   *)
(* while the request is under way.                                         *)
ShownAsSent ==
  /\ chat \subseteq node.messages
  /\ \A file \in saved : file.data = {file.name}

(* What a step does to the panels. *)
KeepsAnswers ==
  /\ \A p \in Panel : /\ Len(panels'[p]) <= 1
                      /\ panels[p] # <<>> => panels'[p] # <<>>
  /\ \A op \in DOMAIN searching :
       searching[op] = "names" /\ searching'[op] # "names"
         => \E c \in Slot : Idle(c) /\ calls'[c].op = op

(* A panel shows one answer once it has any: updates that overlap, fail or *)
(* wait for their graph to be rendered never leave it with none or with    *)
(* two.  The names a search found stay until the next such search begins:  *)
(* that one overwrites them at once, and does not bring them back if it    *)
(* fails.                                                                  *)
PanelsHoldOneAnswer == [][KeepsAnswers]_vars

Accepted(c, ops, v) ==
  calls[c].op \in ops /\ calls[c].typed = v /\ calls[c].stage = "answered" /\ Passed(c)

Shows(panel, v)   == panels[panel] # <<>> /\ v \in Last(panels[panel])
ShowsNo(panel, v) == panels[panel] # <<>> /\ v \notin Last(panels[panel])

Failed(c) == told = [call |-> c, kind |-> "error"]

(* What a user's request changed comes to be shown, whatever updates it    *)
(* overlaps, unless the update that follows it fails, of which the user is *)
(* told, or the change is undone before.                                   *)
ChangesAreShown ==
  \A c \in Slot, v \in Value :
    /\ \A p \in {"table", "graph"} :
         /\ Accepted(c, {"addPeer", "setEntry"}, v)
              ~> Shows(p, v) \/ Failed(c) \/ v \notin node.routing
         /\ Accepted(c, {"deleteEntry"}, v)
              ~> ShowsNo(p, v) \/ Failed(c) \/ v \in node.routing
    /\ Accepted(c, {"addEntry"}, v) ~> Shows("catalog", v) \/ Failed(c)

(* Every request is followed by a message, or its result, that tells what  *)
(* became of it; the graph's is followed by one or by the graph.           *)
EveryRequestAnswered ==
  \A c \in Slot :
    calls[c].stage \in {"asked", "answered"} /\ told.call # c ~>
      \/ told.call = c
      \/ calls[c].stage = "rendering"
=============================================================================
