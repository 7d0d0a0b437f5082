----------------------------- MODULE PaneViews ------------------------------
(* Which servers each pane of the sidebar shows (client/pane-selection.js) *)
(* and how connections reach a pane: its own dialog, the resources page,   *)
(* an agent's request announced by a poll, adoption after a page reload.   *)
(* The host's list is the only truth about what lives; its answers arrive  *)
(* late and in any order.                                                  *)
EXTENDS Integers, FiniteSets, SequencesExt

CONSTANTS Conn,        \* connections; the host never uses an id twice
          View,        \* host tab ids
          NoConn,      \* no selection
          Settings,    \* the resources page, which owns no pane
          MaxReveals,  \* bound: requests of the agent for one connection
          MaxCalls,    \* bound: calls under way
          MaxEvents    \* bound: steps of the operator, the agent and the host

ASSUME PaneViewsAssumption ==
  /\ NoConn \notin Conn /\ Settings \notin View
  /\ IsFiniteSet(Conn) /\ IsFiniteSet(View)
  /\ MaxReveals \in Nat /\ MaxCalls \in Nat /\ MaxEvents \in Nat

VARIABLES host,   \* live connections in order, ids used, the agent's last request
          page,   \* the module state of the page: views, references, queue, list
          dock,   \* the sidebar's tabs; only a shown one has its body mounted
          calls,  \* answers under way: lists, connects, disconnects
          events, \* steps of the operator, the agent and the host so far
          fate    \* ghost: what the operator shut, what no pane shows and why not

viewVars == <<host, page, dock, calls, events, fate>>

Live == ToSet(host.live)
Mounted == {v \in View : dock[v] = "shown"}
Ids(p, v) == ToSet(p.views[v].ids)
NoView == [ids |-> <<>>, active |-> NoConn]
FirstOf(ids) == IF ids = <<>> THEN NoConn ELSE Head(ids)
(* The connections of a list that are in keep, in their order.             *)
Among(ids, keep) ==
  FoldLeft(LAMBDA done, c : IF c \in keep THEN Append(done, c) ELSE done, <<>>, ids)

(* A page that was just loaded.                                            *)
EmptyPage ==
  [views |-> [v \in View |-> NoView], refs |-> [c \in Conn |-> {}], pending |-> <<>>,
   announced |-> {}, listed |-> <<>>, adopted |-> [v \in View |-> FALSE]]
MayCall ==
  Cardinality(calls.lists) + Cardinality(calls.dials) + Cardinality(calls.closes) < MaxCalls
NoCalls == [lists |-> {}, dials |-> {}, closes |-> {}]

(* A page is loaded over whatever lives on the host, the agent's included. *)
ViewsInit ==
  /\ \E used \in SUBSET Conn : \E live \in SetToSeqs(used), asked \in SUBSET used :
       /\ host = [live |-> live, used |-> used,
                  reveal |-> [c \in Conn |-> IF c \in asked THEN 1 ELSE 0]]
       /\ fate = [shut |-> {}, unseen |-> used, leaked |-> {}]
  /\ page = EmptyPage
  /\ \E start \in {"absent", "shown"} : dock = [v \in View |-> start]
  /\ calls = NoCalls /\ events = 0

-----------------------------------------------------------------------------
(* The operations of the store, as functions of the page.                  *)

AddReference(p, v, c) == [p EXCEPT !.refs[c] = @ \cup {v}]

RemoveReference(p, v, c) == [p EXCEPT !.refs[c] = @ \ {v}]

(* The answer of removeReference: this was the last view that shows it.    *)
LastReference(p, v, c) == p.refs[c] = {v}

AnyViewShowsConnections(p) == \E v \in View : Ids(p, v) # {}

OpenInView(p, v, c) ==
  IF c \in Ids(p, v)
    THEN [p EXCEPT !.views[v].active = c]
    ELSE [AddReference(p, v, c) EXCEPT
            !.views[v] = [ids |-> Append(@.ids, c), active |-> c]]

SelectInView(p, v, c) == [p EXCEPT !.views[v].active = c]

(* The view without the connections outside keep.                          *)
Narrowed(view, keep) ==
  LET rest == Among(view.ids, keep)
  IN [ids |-> rest,
      active |-> IF view.active \in keep \cup {NoConn} THEN view.active ELSE FirstOf(rest)]

CloseInView(p, v, c) ==
  [RemoveReference(p, v, c) EXCEPT !.views[v] = Narrowed(@, Conn \ {c})]

ReconcileViews(p) ==
  LET listed == ToSet(p.listed)
  IN [p EXCEPT !.views = [v \in View |-> Narrowed(@[v], listed)],
               !.refs = [c \in Conn |-> IF c \in listed THEN @[c]
                                        ELSE @[c] \ {v \in View : c \in Ids(p, v)}]]

ForgetView(p, v) ==
  [p EXCEPT !.views[v] = NoView,
            !.refs = [c \in Conn |-> IF c \in Ids(p, v) THEN @[c] \ {v} ELSE @[c]]]

AdoptIntoView(p, v) ==
  IF p.listed = <<>> \/ AnyViewShowsConnections(p) THEN p
  ELSE [p EXCEPT !.views[v] = [ids |-> p.listed, active |-> FirstOf(p.listed)],
                 !.refs = [c \in Conn |-> IF c \in ToSet(p.listed) THEN @[c] \cup {v} ELSE @[c]]]

RequestPaneOpen(p, c) == [p EXCEPT !.pending = Append(@, c)]

(* claimPendingOpens by pane v: it shows all that is queued.               *)
ClaimPendingOpens(p, v) ==
  FoldLeft(LAMBDA q, c : OpenInView(q, v, c), [p EXCEPT !.pending = <<>>], p.pending)

(* sshUiAnnounceAgentConnections: each request of the agent once per page. *)
AnnounceAgentConnections(p, list) ==
  FoldLeft(LAMBDA q, e : IF e.reveal = 0 \/ e \in q.announced THEN q
                         ELSE RequestPaneOpen([q EXCEPT !.announced = @ \cup {e}], e.conn),
           p, list)

(* One offer to adopt per mount.                                           *)
OfferEveryList(p, v) ==   \* faulty variant: adoptedRef is never set
  AdoptIntoView(p, v)
OfferOnce(p, v) ==
  IF p.adopted[v] \/ p.listed = <<>> THEN p
  ELSE AdoptIntoView([p EXCEPT !.adopted[v] = TRUE], v)

(* The effects of one pane when the list has changed, or on its mount.     *)
PaneEffects(p, v) == ClaimPendingOpens(OfferOnce(ReconcileViews(p), v), v)

(* The panes run their effects one after the other, in the layout's order. *)
Effects(p, panes) ==
  {FoldLeft(PaneEffects, p, order) : order \in SetToSeqs(panes)}

(* A change of the queue alone runs the claim of the panes only.           *)
Claims(p, panes) == IF panes = {} THEN {p} ELSE {ClaimPendingOpens(p, v) : v \in panes}

-----------------------------------------------------------------------------
(* Ghosts: pairs of a pane and the server the operator closed in it;       *)
(* connections that may be without a pane, each for a reason in the code;  *)
(* views written to after their tab was gone, or gone without a signal.    *)
Seen(p, t) == UNION {Ids(p, v) : v \in {w \in View : t[w] # "gone"}}
Fate(shut, why) ==
  fate' = [fate EXCEPT !.shut = shut, !.unseen = (@ \cup why) \ Seen(page', dock')]
LateOpen(v, c) ==
  fate' = [shut |-> fate.shut \ {<<v, c>>},
           unseen |-> (fate.unseen \cup (IF dock[v] = "gone" THEN {c} ELSE {})) \ Seen(page', dock'),
           leaked |-> fate.leaked \cup (IF dock[v] = "gone" THEN {v} ELSE {})]
(* What is queued is wanted again.                                         *)
StillShut(p) == {x \in fate.shut : x[2] \notin ToSet(p.pending)}
Overtaken(p) == Live \ ToSet(p.listed)

-----------------------------------------------------------------------------
(* The host.  An agent's connect opens a connection or asks for a live one *)
(* again, with a new agentRevealId.                                        *)
AgentConnects(c) ==
  /\ c \in Live \/ c \notin host.used
  /\ host.reveal[c] < MaxReveals
  /\ host' = [host EXCEPT !.live = IF c \in Live THEN @ ELSE Append(@, c),
                          !.used = @ \cup {c}, !.reveal[c] = @ + 1]
  /\ UNCHANGED <<page, dock, calls, fate>>

(* The agent disconnects, or the connection is given up.                   *)
HostDrops(c) ==
  /\ c \in Live
  /\ host' = [host EXCEPT !.live = Among(@, Conn \ {c})]
  /\ UNCHANGED <<page, dock, calls, fate>>

(* list() is answered for the panel (the timer of a mounted pane, or the   *)
(* continuation of a call of a pane that was mounted) or for the poll of   *)
(* the plugin root, which waits for its answer before it asks again.       *)
TakeList(for) ==
  /\ MayCall
  /\ \/ for = "panel" /\ \E v \in View : dock[v] # "absent"
     \/ for = "poll" /\ \A a \in calls.lists : a.for # "poll"
  /\ calls' = [calls EXCEPT !.lists = @ \cup
       {[for |-> for, list |-> [i \in DOMAIN host.live |->
           [conn |-> host.live[i], reveal |-> host.reveal[host.live[i]]]]]}]
  /\ UNCHANGED <<host, page, dock, fate>>

(* refreshConnections: the list, then the announcements, then the effects. *)
RefreshConnections(a) ==
  /\ a \in calls.lists /\ a.for = "panel"
  /\ UNCHANGED <<host, dock>>
  /\ LET p == AnnounceAgentConnections(
                [page EXCEPT !.listed = [i \in DOMAIN a.list |-> a.list[i].conn]], a.list)
     IN /\ page' \in Effects(p, Mounted)
        /\ calls' = [calls EXCEPT !.lists = @ \ {a}]
        /\ Fate(StillShut(p), Overtaken(p))

(* The poll announces and leaves the list alone.                           *)
PollAnnounces(a) ==
  /\ a \in calls.lists /\ a.for = "poll"
  /\ UNCHANGED <<host, dock>>
  /\ LET p == AnnounceAgentConnections(page, a.list)
     IN /\ page' \in Claims(p, Mounted)
        /\ calls' = [calls EXCEPT !.lists = @ \ {a}]
        /\ Fate(StillShut(p), {})

ListFails(a) ==
  /\ a \in calls.lists
  /\ calls' = [calls EXCEPT !.lists = @ \ {a}]
  /\ UNCHANGED <<host, page, dock, fate>>

-----------------------------------------------------------------------------
(* The tabs of the sidebar.  Mounting a body runs its effects on the list  *)
(* the page has, however old.                                              *)
ShowTab(v) ==
  /\ dock[v] \in {"absent", "hidden"}
  /\ UNCHANGED <<host, calls>>
  /\ dock' = [dock EXCEPT ![v] = "shown"]
  /\ page' = PaneEffects([page EXCEPT !.adopted[v] = FALSE], v)
  /\ Fate({x \in StillShut(page) : x[1] # v}, Overtaken(page))

HideTab(v) ==
  /\ dock[v] = "shown"
  /\ dock' = [dock EXCEPT ![v] = "hidden"]
  /\ UNCHANGED <<host, page, calls, fate>>

(* The tab record disappears.  Only a mounted body hears the signal.       *)
CloseTab(v) ==
  /\ dock[v] \in {"shown", "hidden"}
  /\ UNCHANGED <<host, calls>>
  /\ dock' = [dock EXCEPT ![v] = "gone"]
  /\ page' = IF dock[v] = "shown" THEN ForgetView(page, v) ELSE page
  /\ fate' = [shut |-> {x \in fate.shut : x[1] # v},
              unseen |-> (fate.unseen \cup Ids(page, v)) \ Seen(page', dock'),
              leaked |-> fate.leaked \cup (IF dock[v] = "hidden" THEN {v} ELSE {})]

(* The page is loaded again: what it had asked for is never heard.         *)
ReloadPage ==
  /\ UNCHANGED host
  /\ page' = EmptyPage /\ calls' = NoCalls
  /\ dock' = [v \in View |-> "absent"]
  /\ fate' = [shut |-> {}, unseen |-> Live, leaked |-> {}]

-----------------------------------------------------------------------------
(* The dialog of a pane, or the resources page, connects: to a new record  *)
(* or, with reuseExisting, to one that lives.                              *)
Dial(from, c) ==
  /\ from \in Mounted \cup {Settings}
  /\ MayCall
  /\ c \in Live \/ c \notin host.used
  /\ host' = [host EXCEPT !.live = IF c \in Live THEN @ ELSE Append(@, c), !.used = @ \cup {c}]
  /\ calls' = [calls EXCEPT !.dials = @ \cup {[from |-> from, conn |-> c, asked |-> FALSE, list |-> <<>>]}]
  /\ UNCHANGED <<page, dock, fate>>

(* The answer never arrives: the connection lives and no pane is told.     *)
DialFails(d) ==
  /\ d \in calls.dials
  /\ UNCHANGED <<host, page, dock>>
  /\ calls' = [calls EXCEPT !.dials = @ \ {d}]
  /\ Fate(fate.shut, {d.conn})

(* onConnected of the dialog: in its pane, also when the tab is no more.   *)
OpenConnectionInPane(d) ==
  /\ d \in calls.dials /\ d.from # Settings
  /\ UNCHANGED <<host, dock>>
  /\ page' = OpenInView(page, d.from, d.conn)
  /\ calls' = [calls EXCEPT !.dials = @ \ {d}]
  /\ LateOpen(d.from, d.conn)

(* The resources page asks for the list once it is connected ...           *)
SettingsList(d) ==
  /\ d \in calls.dials /\ d.from = Settings /\ ~d.asked
  /\ calls' = [calls EXCEPT !.dials = (@ \ {d}) \cup {[d EXCEPT !.asked = TRUE, !.list = host.live]}]
  /\ UNCHANGED <<host, page, dock, fate>>

(* ... sets it and queues the connection for a pane.                       *)
QueueForPane(d) ==
  /\ d \in calls.dials /\ d.from = Settings /\ d.asked
  /\ UNCHANGED <<host, dock>>
  /\ LET p == RequestPaneOpen([page EXCEPT !.listed = d.list], d.conn)
     IN /\ page' \in Effects(p, Mounted)
        /\ calls' = [calls EXCEPT !.dials = @ \ {d}]
        /\ Fate(StillShut(p), Overtaken(p))

-----------------------------------------------------------------------------
(* A pane draws the servers of its view that are in the list.              *)
Drawn(v) == Ids(page, v) \cap ToSet(page.listed)

SelectServer(v, c) ==
  /\ dock[v] = "shown" /\ c \in Drawn(v)
  /\ page' = SelectInView(page, v, c)
  /\ UNCHANGED <<host, dock, calls, fate>>

(* closePaneTab: the host is told when no view shows the server any more;  *)
(* a view whose tab vanished while it was hidden counts for ever.          *)
ClosePaneTab(v, c) ==
  /\ dock[v] = "shown" /\ c \in Drawn(v)
  /\ UNCHANGED <<host, dock>>
  /\ page' = CloseInView(page, v, c)
  /\ calls' = IF LastReference(page, v, c)
                THEN [calls EXCEPT !.closes = @ \cup {[view |-> v, conn |-> c]}] ELSE calls
  /\ Fate(fate.shut \cup {<<v, c>>},
          IF fate.leaked \cap page.refs[c] # {} THEN {c} ELSE {})

DisconnectDone(x) ==
  /\ x \in calls.closes
  /\ host' = [host EXCEPT !.live = Among(@, Conn \ {x.conn})]
  /\ calls' = [calls EXCEPT !.closes = @ \ {x}]
  /\ UNCHANGED <<page, dock, fate>>

(* The tab is put back.                                                    *)
DisconnectFails(x) ==
  /\ x \in calls.closes
  /\ UNCHANGED <<host, dock>>
  /\ page' = OpenInView(page, x.view, x.conn)
  /\ calls' = [calls EXCEPT !.closes = @ \ {x}]
  /\ LateOpen(x.view, x.conn)

(* What the operator, the agent and the host do.                           *)
Happens ==
  \/ \E c \in Conn : AgentConnects(c) \/ HostDrops(c)
  \/ \E v \in View : ShowTab(v) \/ HideTab(v) \/ CloseTab(v)
  \/ ReloadPage
  \/ \E from \in View \cup {Settings}, c \in Conn : Dial(from, c)
  \/ \E v \in View, c \in Conn : SelectServer(v, c) \/ ClosePaneTab(v, c)

Arrives ==
  \/ \E for \in {"panel", "poll"} : TakeList(for)
  \/ \E a \in calls.lists : RefreshConnections(a) \/ PollAnnounces(a) \/ ListFails(a)
  \/ \E d \in calls.dials :
       DialFails(d) \/ OpenConnectionInPane(d) \/ SettingsList(d) \/ QueueForPane(d)
  \/ \E x \in calls.closes : DisconnectDone(x) \/ DisconnectFails(x)

ViewsNext ==
  \/ events < MaxEvents /\ events' = events + 1 /\ Happens
  \/ UNCHANGED events /\ Arrives

-----------------------------------------------------------------------------
(* Connections on their way to a pane: queued, answered to a dialog, asked *)
(* for by the agent and not announced, or being disconnected.              *)
OnTheWay ==
  ToSet(page.pending)
    \cup {d.conn : d \in calls.dials} \cup {x.conn : x \in calls.closes}
    \cup {c \in Conn : host.reveal[c] > 0
                         /\ [conn |-> c, reveal |-> host.reveal[c]] \notin page.announced}

(* The state of the page keeps its shape: views without duplicates whose   *)
(* selection is one of their servers, and nothing of ids never used.       *)
ViewsTypeOK ==
  /\ dock \in [View -> {"absent", "shown", "hidden", "gone"}]
  /\ \A v \in View :
       LET view == page.views[v]
       IN /\ IsInjective(view.ids)
          /\ IF view.ids = <<>> THEN view.active = NoConn ELSE view.active \in Ids(page, v)
  /\ (UNION {Ids(page, v) : v \in View}) \cup Live \cup ToSet(page.pending) \subseteq host.used
  /\ IsInjective(host.live)

(* The references decide whether closing a server in one pane disconnects  *)
(* it (closePaneTab): they say which views show it, whatever lists, claims *)
(* and vanished tabs came between.  A tab that is gone holds none, unless  *)
(* it vanished while hidden or an answer came to it afterwards: such a     *)
(* reference keeps its server from ever being disconnected by a close      *)
(* elsewhere.  A server closed in a pane stays closed there for that       *)
(* mount, unless it is opened again or its disconnect failed.  And a live  *)
(* connection no pane shows is on its way to one, or was lost for a reason *)
(* the code has: a list overtook it, its tab closed, its answer was lost,  *)
(* the page was loaded again.                                              *)
ViewsSound ==
  /\ \A v \in View, c \in Conn : v \in page.refs[c] <=> c \in Ids(page, v)
  /\ \A v \in View : dock[v] = "gone" /\ Ids(page, v) # {} => v \in fate.leaked
  /\ \A x \in fate.shut : x[2] \notin Ids(page, x[1])
  /\ Live \subseteq Seen(page, dock) \cup OnTheWay \cup fate.unseen
=============================================================================
