-------------------------------- MODULE Stimulus --------------------------------
(***************************************************************************)
(* The library that binds the page to its controllers.  An element whose   *)
(* data-controller attribute names an identifier is a scope; a scope and   *)
(* the module registered for its identifier make a context, an instance of *)
(* the controller; an element inside the scope whose data-action attribute *)
(* names the identifier is bound to the context.                           *)
(*                                                                         *)
(* The DOM is changed by anybody.  One mutation observer watches the       *)
(* document for scopes and each context has one that watches its element   *)
(* for actions: all of them work on records that are delivered in a        *)
(* microtask, when the tree they read may have changed again.              *)
(***************************************************************************)
EXTENDS Integers, FiniteSets, SequencesExt

CONSTANTS Element,           \* elements below the document element
          Identifier,        \* names of controllers
          Root,              \* the document element
          None,              \* no parent, no attribute
          Places,            \* Places[e]: where e may be put, Root or elements
          ControllerValues,  \* ControllerValues[e]: its data-controller attribute
          ActionValues,      \* ActionValues[e]: its data-action attribute
          TargetFor,         \* TargetFor[e]: identifiers it is a target of
          MaxModules,        \* bound: modules ever registered
          MaxRecords         \* bound: records an observer has not been given

Node       == Element \cup {Root}
Scope      == Element \X Identifier
Attributes == {"controller", "action"}

ASSUME NodeAssumption == Root \notin Element /\ None \notin Node /\ IsFiniteSet(Element)
ASSUME PlacesAssumption == Places \in [Element -> SUBSET Node]
ASSUME ValuesAssumption ==
  \A e \in Element : ControllerValues[e] \cup ActionValues[e]
                       \subseteq Seq(Identifier) \cup {None}
ASSUME TargetAssumption == TargetFor \in [Element -> SUBSET Identifier]
ASSUME BoundAssumption == MaxModules \in Nat /\ MaxRecords \in Nat

VARIABLES
  parent,     \* the tree; None: the element is in no tree, or is the top of one
  attribute,  \* attribute[name][e]: tokens of data-controller and data-action
  observers,  \* what each connected observer has seen, and its pending records
  references, \* ScopeObserver.scopeReferenceCounts
  scopes,     \* Router.scopesByIdentifier
  modules,    \* Router.modulesByIdentifier: which module, 0 when there is none
  made,       \* modules created so far
  delivering  \* TRUE: records are being handed over, nothing else runs

vars == <<parent, attribute, observers, references, scopes, modules, made, delivering>>

dom    == <<parent, attribute>>
router == <<references, scopes>>

-----------------------------------------------------------------------------
(* The tree.                                                               *)

(* The inclusive ancestors of x. *)
Above(tree, x) ==
  LET up[n \in 0 .. Cardinality(Element)] ==
        IF n = 0 THEN {x}
        ELSE up[n - 1] \cup {tree[y] : y \in up[n - 1] \cap Element}
  IN up[Cardinality(Element)] \ {None}

Around(tree, x, y) == x \in Above(tree, y)

HasAttribute(name, x) == x \in Element /\ attribute[name][x] # None

-----------------------------------------------------------------------------
(* Observers.  An observer is named by the element it watches: the scope   *)
(* observer watches the document element, and a context is its element,    *)
(* its identifier and its module.                                          *)

ScopeObserver == <<Root>>
Watched(o)    == o[1]
Name(o)       == IF o = ScopeObserver THEN "controller" ELSE "action"

Started  == ScopeObserver \in DOMAIN observers
Contexts == DOMAIN observers \ {ScopeObserver}

(* Mutant of ElementIsActive: an element is taken wherever it is. *)
ElementIsAnywhere(o, x) == x \in Element

(* elementIsActive: the element is still inside what is watched. *)
ElementIsActive(o, x) == Around(parent, Watched(o), x)

(* matchElementsInTree *)
MatchesInTree(o, top) ==
  {x \in Element : Around(parent, top, x) /\ HasAttribute(Name(o), x)}

(* readTokensForElement of each of these elements. *)
Tokens(o, matches) == [x \in matches |-> attribute[Name(o)][x]]

(* What was seen, and what is read now. *)
Reading(o, seen, matches) ==
  [x \in matches \cup DOMAIN seen |-> IF x \in matches THEN attribute[Name(o)][x] ELSE seen[x]]

(* Mutant of Fresh: an observer that starts does not look at the tree. *)
FreshBlank(o) == [seen |-> <<>>, queue |-> <<>>, transient |-> {}]

(* What an observer has seen once its start has refreshed it. *)
Fresh(o) == [seen |-> Tokens(o, MatchesInTree(o, Watched(o))),
             queue |-> <<>>, transient |-> {}]

(* processMutation: elements seen, after one record. *)
Processed(o, seen, record) ==
  LET x    == record.element
      tree == MatchesInTree(o, x)
      add  == {y \in tree \ DOMAIN seen : ElementIsActive(o, x) /\ ElementIsActive(o, y)}
  IN CASE record.kind = "removed" -> [y \in DOMAIN seen \ tree |-> seen[y]]
       [] record.kind = "added"   -> Reading(o, seen, add)
       [] OTHER ->
            IF ~HasAttribute(Name(o), x)
            THEN [y \in DOMAIN seen \ {x} |-> seen[y]]
            ELSE IF x \notin DOMAIN seen
            THEN IF ElementIsActive(o, x) THEN Reading(o, seen, {x}) ELSE seen
            ELSE IF record.kind = Name(o) THEN Reading(o, seen, {x}) ELSE seen

-----------------------------------------------------------------------------
(* Scopes and contexts.                                                    *)

SeenOf(seen, e) == IF e \in DOMAIN seen THEN seen[e] ELSE <<>>

Occurrences(tokens, i) == Cardinality({k \in DOMAIN tokens : tokens[k] = i})

(* refreshTokensForElement: from the first token that differs on.  Changed *)
(* both ways it gives the tokens unmatched and the tokens matched.         *)
Changed(from, to) ==
  SubSeq(from, Len(LongestCommonPrefix({from, to})) + 1, Len(from))

(* Mutant of AfterUnmatched: the count is not kept from one to the next. *)
AfterUnmatchedAll(old, new) ==
  [s \in Scope |-> IF Changed(SeenOf(old, s[1]), SeenOf(new, s[1])) = <<>>
                   THEN references[s] ELSE 0]

(* elementUnmatchedValue, once for each token that is gone. *)
AfterUnmatched(old, new) ==
  [s \in Scope |->
     LET gone == Occurrences(Changed(SeenOf(old, s[1]), SeenOf(new, s[1])), s[2])
     IN IF gone >= references[s] THEN 0 ELSE references[s] - gone]

(* elementMatchedValue, once for each token that came. *)
AfterMatched(left, old, new) ==
  [s \in Scope |->
     left[s] + Occurrences(Changed(SeenOf(new, s[1]), SeenOf(old, s[1])), s[2])]

(* The contexts of these scopes: those whose identifier has a module. *)
ContextsFor(ss, loaded) == {<<s[1], s[2], loaded[s[2]]>> : s \in {t \in ss : loaded[t[2]] # 0}}

(* Contexts disconnect, and their observers with them, then others connect. *)
Reconnect(obs, gone, came) ==
  [o \in (DOMAIN obs \ gone) \cup came |-> IF o \in came THEN Fresh(o) ELSE obs[o]]

(* scopeDisconnected and scopeConnected, when the scope observer's elements *)
(* and tokens go from old to new.                                           *)
Rescope(old, new, obs) ==
  LET left == AfterUnmatched(old, new)
      all  == AfterMatched(left, old, new)
      gone == {s \in Scope : references[s] > 0 /\ left[s] = 0}
      came == {s \in Scope : left[s] = 0 /\ all[s] > 0}
  IN /\ references' = all
     /\ scopes' = (scopes \ gone) \cup came
     /\ observers' = Reconnect(obs, ContextsFor(gone, modules), ContextsFor(came, modules))

-----------------------------------------------------------------------------
(* Mutation records.                                                       *)

(* The watched element, or one removed from below it since the last        *)
(* delivery, is an inclusive ancestor of the target.                       *)
Hears(o, transient, above) == above \cap ({Watched(o)} \cup transient) # {}

(* A record is queued for whoever hears of the target. *)
Notified(tree, obs, target, kind, e) ==
  LET above == Above(tree, target)
  IN [o \in DOMAIN obs |->
        IF ~Hears(o, obs[o].transient, above) THEN obs[o]
        ELSE [obs[o] EXCEPT
                !.queue = Append(@, [kind |-> kind, element |-> e]),
                !.transient = IF kind = "removed" THEN @ \cup {e} ELSE @]]

Detached(e) == IF parent[e] = None THEN observers
               ELSE Notified(parent, observers, parent[e], "removed", e)

HasRoom == \A o \in DOMAIN observers : Len(observers[o].queue) < MaxRecords
Pending(obs) == {o \in DOMAIN obs : obs[o].queue # <<>>}

-----------------------------------------------------------------------------
Init ==
  /\ parent \in {t \in [Element -> Node \cup {None}] :
                   \A e \in Element : /\ t[e] \in Places[e] \cup {None}
                                      /\ t[e] # None => ~Around(t, e, t[e])}
  /\ attribute \in {[controller |-> c, action |-> a] :
                      c \in {f \in [Element -> UNION {ControllerValues[e] : e \in Element}] :
                               \A e \in Element : f[e] \in ControllerValues[e]},
                      a \in {f \in [Element -> UNION {ActionValues[e] : e \in Element}] :
                               \A e \in Element : f[e] \in ActionValues[e]}}
  /\ observers = <<>>
  /\ references = [s \in Scope |-> 0]
  /\ scopes = {}
  /\ modules = [i \in Identifier |-> 0]
  /\ made = 0
  /\ delivering = FALSE

(* An element is put somewhere, out of the place where it is. *)
Insert(e, p) ==
  /\ ~delivering /\ HasRoom
  /\ p # parent[e] /\ ~Around(parent, e, p)
  /\ parent' = [parent EXCEPT ![e] = p]
  /\ observers' = Notified([parent EXCEPT ![e] = None], Detached(e), p, "added", e)
  /\ UNCHANGED <<attribute, router, modules, made, delivering>>

Detach(e) ==
  /\ ~delivering /\ HasRoom
  /\ parent[e] # None
  /\ parent' = [parent EXCEPT ![e] = None]
  /\ observers' = Detached(e)
  /\ UNCHANGED <<attribute, router, modules, made, delivering>>

SetAttribute(name, e, value) ==
  /\ ~delivering /\ HasRoom
  /\ value # attribute[name][e]
  /\ attribute' = [attribute EXCEPT ![name][e] = value]
  /\ observers' = Notified(parent, observers, e, name, e)
  /\ UNCHANGED <<parent, router, modules, made, delivering>>

(* Application.start once the DOM is ready: Router.start refreshes.        *)
Start ==
  /\ ~delivering /\ ~Started
  /\ Rescope(<<>>, Fresh(ScopeObserver).seen, [o \in {ScopeObserver} |-> Fresh(o)])
  /\ UNCHANGED <<dom, modules, made, delivering>>

(* Mutant of Reloaded: the module loaded before keeps its contexts. *)
ReloadedOver(i, loaded) ==
  Reconnect(observers, {}, ContextsFor({s \in scopes : s[2] = i}, loaded))

(* disconnectModule, then connectModule: the contexts of the identifier,   *)
(* when its module becomes the one of loaded.                              *)
Reloaded(i, loaded) ==
  LET mine == {s \in scopes : s[2] = i}
  IN Reconnect(observers, ContextsFor(mine, modules), ContextsFor(mine, loaded))

(* Application.register: loadDefinition unloads the identifier, then       *)
(* connects the new module to the scopes there are.                        *)
Register(i) ==
  /\ ~delivering /\ made < MaxModules
  /\ made' = made + 1
  /\ modules' = [modules EXCEPT ![i] = made + 1]
  /\ observers' = Reloaded(i, modules')
  /\ UNCHANGED <<dom, router, delivering>>

(* Application.unload *)
Unload(i) ==
  /\ ~delivering /\ modules[i] # 0
  /\ modules' = [modules EXCEPT ![i] = 0]
  /\ observers' = Reloaded(i, modules')
  /\ UNCHANGED <<dom, router, made, delivering>>

(* One record is handed over; the scope observer, made first, is served    *)
(* first.  Controllers are made, connected and disconnected meanwhile; what *)
(* their methods do is taken to leave elements and these attributes alone. *)
Deliver(o) ==
  /\ observers[o].queue # <<>>
  /\ o = ScopeObserver \/ observers[ScopeObserver].queue = <<>>
  /\ LET old  == observers[o].seen
         new  == Processed(o, old, Head(observers[o].queue))
         rest == [seen |-> new, queue |-> Tail(observers[o].queue), transient |-> {}]
         obs  == [observers EXCEPT ![o] = rest]
     IN IF o = ScopeObserver
        THEN Rescope(old, new, obs)
        ELSE observers' = obs /\ UNCHANGED router
  /\ delivering' = (Pending(observers') # {})
  /\ UNCHANGED <<dom, modules, made>>

Next ==
  \/ \E e \in Element : \/ \E p \in Places[e] : Insert(e, p)
                        \/ Detach(e)
                        \/ \E v \in ControllerValues[e] : SetAttribute("controller", e, v)
                        \/ \E v \in ActionValues[e] : SetAttribute("action", e, v)
  \/ Start
  \/ \E i \in Identifier : Register(i) \/ Unload(i)
  \/ \E o \in DOMAIN observers : Deliver(o)

Spec == Init /\ [][Next]_vars

-----------------------------------------------------------------------------
(* Events and targets.                                                     *)

(* closest: the nearest element around x with that controller, if any. *)
Closest(x, i) ==
  LET with == {y \in Above(parent, x) \cap Element :
                 HasAttribute("controller", y) /\ i \in Range(attribute["controller"][y])}
  IN {y \in with : \A z \in with : Around(parent, z, y)}

(* Mutant of ContainsElement: nested controllers are not told apart. *)
ContainsNested(c, x) == Around(parent, c[1], x)

(* Scope.containsElement, for the scope of context c. *)
ContainsElement(c, x) == Closest(x, c[2]) = {c[1]}

(* BindingObserver.bindings: one for each token that names the controller. *)
Bindings(c) ==
  UNION {{[context |-> c, action |-> a, index |-> k] :
            k \in {l \in DOMAIN observers[c].seen[a] : observers[c].seen[a][l] = c[2]}} :
         a \in DOMAIN observers[c].seen}

(* The bindings the dispatcher keeps for clicks on element a. *)
EventListener(a) == {b \in UNION {Bindings(c) : c \in Contexts} : b.action = a}

(* Mutant of WillBeInvoked: any controller around the target is called. *)
WillAlwaysBeInvoked(b, target) == Around(parent, b.context[1], target)

(* Binding.willBeInvokedByEvent *)
WillBeInvoked(b, target) ==
  \/ b.context[1] = target
  \/ IF Around(parent, b.context[1], target) THEN ContainsElement(b.context, target)
     ELSE ContainsElement(b.context, b.action)

(* handleEvent, when an event from target bubbles to element a. *)
Invoked(target, a) == {b \in EventListener(a) : WillBeInvoked(b, target)}

(* TargetSet.findAll for a target of the controller: the elements its      *)
(* properties give it.                                                     *)
Targets(c) ==
  {x \in Element : /\ Around(parent, c[1], x) /\ c[2] \in TargetFor[x]
                   /\ x = c[1] \/ ContainsElement(c, x)}

-----------------------------------------------------------------------------
(* Properties.                                                             *)

Record == [kind : {"removed", "added"} \cup Attributes, element : Element]

Seen == UNION {[S -> Seq(Identifier)] : S \in SUBSET Element}

ObserverState == [seen : Seen, queue : Seq(Record), transient : SUBSET Element]

TypeOK ==
  /\ parent \in [Element -> Node \cup {None}]
  /\ attribute \in [Attributes -> [Element -> Seq(Identifier) \cup {None}]]
  /\ DOMAIN observers \subseteq {ScopeObserver} \cup (Element \X Identifier \X (1 .. made))
  /\ observers \in [DOMAIN observers -> ObserverState]
  /\ references \in [Scope -> Nat]
  /\ scopes \subseteq Scope
  /\ modules \in [Identifier -> 0 .. made]
  /\ made \in 0 .. MaxModules
  /\ delivering \in BOOLEAN

Settled == Started /\ Pending(observers) = {}

(* Once every record has been delivered, whatever was moved, removed or    *)
(* renamed in between and in whatever order, the scopes are exactly the    *)
(* controllers named in the document.                                      *)
ScopesMatchDocument ==
  Settled => scopes = {s \in Scope : /\ Around(parent, Root, s[1])
                                     /\ HasAttribute("controller", s[1])
                                     /\ s[2] \in Range(attribute["controller"][s[1]])}

(* And each context has seen exactly the actions inside its element, as    *)
(* they read now: none is lost, stale, or taken twice.                     *)
BindingsMatchDocument ==
  Settled => \A c \in Contexts :
               observers[c].seen = Tokens(c, MatchesInTree(c, c[1]))

(* The reference count of a scope is the number of tokens the observer     *)
(* remembers for it, between records too, and the router knows the scope   *)
(* exactly while the count is positive.                                    *)
ReferencesCounted ==
  /\ Started => \A s \in Scope :
       references[s] = Occurrences(SeenOf(observers[ScopeObserver].seen, s[1]), s[2])
  /\ scopes = {s \in Scope : references[s] > 0}

(* Whatever is registered, replaced or unloaded while scopes come and go,  *)
(* the connected contexts are those of the router's scopes and of the      *)
(* module loaded now: none of a replaced module, none missing.             *)
ContextsOfScopes == Contexts = ContextsFor(scopes, modules)

(* A settled context of the element, if a module is loaded and the element *)
(* is in the document.                                                     *)
ContextOf(elements, i) ==
  {<<e, i, modules[i]>> : e \in {x \in elements : modules[i] # 0 /\ Around(parent, Root, x)}}

(* An event is handled once for each action that names a controller, by    *)
(* the closest one of that name around the element it came from, and by no *)
(* other that it bubbles through.                                          *)
ClickReachesClosest ==
  Settled =>
    \A target \in Element : \A a \in Above(parent, target) \cap Element :
      HasAttribute("action", a) =>
        LET tokens == attribute["action"][a]
        IN Invoked(target, a) =
             UNION {{[context |-> c, action |-> a, index |-> k] :
                       c \in ContextOf({x \in Closest(target, tokens[k]) : Around(parent, x, a)},
                                      tokens[k])} : k \in DOMAIN tokens}

(* Every input or panel of the page is found by one controller of its      *)
(* name, the closest: nested ones do not read each other's.                *)
TargetsFoundOnce ==
  Settled =>
    \A x \in Element : \A i \in TargetFor[x] :
      {c \in Contexts : c[2] = i /\ x \in Targets(c)} = ContextOf(Closest(x, i), i)
=============================================================================
