----------------------------- MODULE FilePanel ------------------------------
(* The file panel (client/SshFiles.jsx): directory listings that answer in *)
(* any order, changes (mkdir, delete, rename, upload) that end with a      *)
(* refresh, a recursive search, and the switch of the panel to another     *)
(* connection while any of them is under way.  Each answer is handled by   *)
(* the closure of the render that asked.                                   *)
EXTENDS Integers, FiniteSets

CONSTANTS FileConn,   \* connections the panel is switched between
          Dir,        \* directories; "/" is the one a connection opens on
          MaxLoads,   \* bound: listings asked for
          MaxChanges  \* bound: changes under way or done

ASSUME FilePanelAssumption == "/" \in Dir /\ MaxLoads \in Nat \ {0} /\ MaxChanges \in Nat

VARIABLES panel,    \* the panel's state: connection, listing, directory, mode
          loadSeq,  \* loadSeq.current
          loads,    \* listings asked for and not answered
          changes,  \* changes under way, and how many there were
          search    \* the search shown and the searches running

panelVars == <<panel, loadSeq, loads, changes, search>>

Listing == [conn : FileConn, dir : Dir]
Nothing == [conn |-> "none", dir |-> "/"]
NoHits == [conn |-> "none", no |-> 0]

(* target: the last listing that was asked for; foreign: by the refresh of *)
(* a change that was begun on another connection than the panel's.         *)
PanelInit ==
  \E c \in FileConn :
    /\ panel = [conn |-> c, shown |-> Nothing, cwd |-> "/", mode |-> "sftp",
                target |-> [conn |-> c, dir |-> "/"], foreign |-> FALSE]
    /\ loadSeq = 1 /\ loads = {[seq |-> 1, conn |-> c, dir |-> "/"]}
    /\ changes = [live |-> {}, made |-> 0]
    /\ search = [current |-> 0, running |-> {}, shown |-> NoHits, next |-> 1]

(* load(path) of the render whose connection is c.                         *)
LoadUncounted(c, d, p) ==   \* faulty variant: the sequence number stays
  /\ loadSeq < MaxLoads /\ UNCHANGED loadSeq
  /\ loads' = loads \cup {[seq |-> loadSeq, conn |-> c, dir |-> d]}
  /\ panel' = [p EXCEPT !.target = [conn |-> c, dir |-> d]]
Load(c, d, p) ==
  /\ loadSeq < MaxLoads
  /\ loadSeq' = loadSeq + 1
  /\ loads' = loads \cup {[seq |-> loadSeq + 1, conn |-> c, dir |-> d]}
  /\ panel' = [p EXCEPT !.target = [conn |-> c, dir |-> d]]

(* goUp, openEntry, a search hit: from a listing that is shown.            *)
Navigate(d) ==
  /\ panel.mode = "sftp" /\ panel.shown # Nothing
  /\ Load(panel.conn, d, [panel EXCEPT !.foreign = FALSE])
  /\ UNCHANGED <<changes, search>>

(* The effect on connectionId: back to SFTP, the search is dropped, the    *)
(* start directory is asked for.  What is shown stays until it answers.    *)
Switch(c) ==
  /\ c # panel.conn
  /\ Load(c, "/", [panel EXCEPT !.conn = c, !.mode = "sftp", !.foreign = FALSE])
  /\ search' = [search EXCEPT !.current = 0, !.shown = NoHits]
  /\ UNCHANGED changes

(* Only the listing asked for last is taken over.                          *)
Latest(l) == l.seq = loadSeq

LoadAnswers(l) ==
  /\ loads' = loads \ {l}
  /\ panel' = IF Latest(l)
              THEN [panel EXCEPT !.shown = [conn |-> l.conn, dir |-> l.dir], !.cwd = l.dir]
              ELSE panel
  /\ UNCHANGED <<loadSeq, changes, search>>

(* A listing that fails shows nothing; without an SFTP subsystem the panel *)
(* falls back to SCP.                                                      *)
LoadFails(l) ==
  /\ loads' = loads \ {l}
  /\ \E mode \in IF l.dir = "/" THEN {"sftp", "scp"} ELSE {"sftp"} :
       panel' = IF Latest(l) THEN [panel EXCEPT !.shown = Nothing, !.mode = mode] ELSE panel
  /\ UNCHANGED <<loadSeq, changes, search>>

(* doCreate, doDelete, doRename, upload: on the connection of the panel,   *)
(* at a path under the directory it shows.                                 *)
Change ==
  /\ panel.mode = "sftp" /\ changes.made < MaxChanges
  /\ changes' = [live |-> changes.live \cup {[no |-> changes.made + 1, conn |-> panel.conn]},
                 made |-> changes.made + 1]
  /\ UNCHANGED <<panel, loadSeq, loads, search>>

(* The refresh after it: the directory of now, the connection of then.     *)
ChangeEnds(o) ==
  /\ changes' = [changes EXCEPT !.live = @ \ {o}]
  /\ Load(o.conn, panel.cwd, [panel EXCEPT !.foreign = (o.conn # panel.conn)]) /\ UNCHANGED search

ChangeFails(o) ==
  /\ changes' = [changes EXCEPT !.live = @ \ {o}]
  /\ UNCHANGED <<panel, loadSeq, loads, search>>

(* runSearch aborts the search before it; searchRemoteFiles walks on until *)
(* it notices.                                                             *)
Search ==
  /\ panel.mode = "sftp" /\ panel.shown # Nothing /\ search.next <= MaxChanges
  /\ search' = [current |-> search.next, shown |-> NoHits, next |-> search.next + 1,
                running |-> search.running \cup {[no |-> search.next, conn |-> panel.conn]}]
  /\ UNCHANGED <<panel, loadSeq, loads, changes>>

CurrentSearch(x) == search.current = x.no

SearchEnds(x) ==
  /\ search' = [search EXCEPT !.running = @ \ {x},
                !.shown = IF CurrentSearch(x) THEN x ELSE @]
  /\ UNCHANGED <<panel, loadSeq, loads, changes>>

PanelNext ==
  \/ \E d \in Dir : Navigate(d)
  \/ \E c \in FileConn : Switch(c)
  \/ \E l \in loads : LoadAnswers(l) \/ LoadFails(l)
  \/ Change \/ Search
  \/ \E o \in changes.live : ChangeEnds(o) \/ ChangeFails(o)
  \/ \E x \in search.running : SearchEnds(x)
PanelSpec == PanelInit /\ [][PanelNext]_panelVars
-----------------------------------------------------------------------------
PanelTypeOK ==
  /\ panel.shown \in Listing \cup {Nothing} /\ panel.target \in Listing
  /\ loadSeq \in 1..MaxLoads /\ loads \subseteq [seq : 1..MaxLoads, conn : FileConn, dir : Dir]
  /\ \A k, l \in loads : k.seq = l.seq => k = l

(* Once every listing has answered, the panel shows the one asked for last *)
(* or none, and its directory is that listing's: no slow answer has come   *)
(* back over a newer one.  It is a listing of the panel's connection unless*)
(* the last one was asked for by the refresh of a change begun on another. *)
(* The hits shown are those of the last search, on that connection too.    *)
ShowsTheLatest ==
  /\ loads = {} => panel.shown \in {panel.target, Nothing}
  /\ loads = {} /\ panel.shown # Nothing /\ ~panel.foreign => panel.shown.conn = panel.conn
  /\ panel.shown # Nothing => panel.shown.dir = panel.cwd
  /\ search.shown # NoHits =>
       /\ search.shown.conn = panel.conn
       /\ search.shown.no = search.current /\ search.current = search.next - 1
=============================================================================
