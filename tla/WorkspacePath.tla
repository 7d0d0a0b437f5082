--------------------------- MODULE WorkspacePath ---------------------------
(***************************************************************************)
(* Remote workspaces: which binding governs a session's directory, and     *)
(* where on the server a path named by the agent may lead                  *)
(* (remote-workspace.js; resolveRemoteToolPath, assertRemoteWorkspaceTarget*)
(* and canonicalRemotePath of index.js).  A path is the sequence of its    *)
(* components; the server's tree has directories, files and symbolic links.*)
(***************************************************************************)
EXTENDS Integers, Sequences, SequencesExt

CONSTANTS
  Tree,      \* server trees: functions from paths to nodes
  Local,     \* directories registered as workspaces
  Cwd,       \* directories of sessions
  Roots,     \* remote roots to bind
  Inputs,    \* paths the agent asks for: [abs, segs], ".." included
  Unbound

VARIABLES
  bindings,  \* Local -> remote root, or Unbound
  tree,      \* the server's tree
  lenient,   \* whether the server's realpath answers for a missing last component
  granted    \* the last path let through: [root, path], or Unbound

wsVars == <<bindings, tree, lenient, granted>>

Dir == <<"dir">>
File == <<"file">>
Absent == <<"none">>
Link(p) == <<"link", p>>
Node(p) == IF p = <<>> THEN Dir ELSE IF p \in DOMAIN tree THEN tree[p] ELSE Absent
IsLink(n) == n[1] = "link"

ASSUME WsAssumption ==
  /\ \A t \in Tree : \A p \in DOMAIN t : IsLink(t[p]) => t[p][2] \in Seq(STRING)
  /\ Roots \subseteq Seq(STRING) /\ Local \subseteq Seq(STRING) /\ Cwd \subseteq Seq(STRING)
  /\ \A i \in Inputs : i.segs \in Seq(STRING)

WsTypeOK ==
  /\ bindings \in [Local -> Roots \union {Unbound}] /\ lenient \in BOOLEAN
  /\ granted = Unbound \/ (granted.root \in Roots /\ \A i \in DOMAIN granted.path : granted.path[i] # "..")

WsInit ==
  /\ bindings = [w \in Local |-> Unbound] /\ tree \in Tree /\ lenient \in BOOLEAN /\ granted = Unbound

-----------------------------------------------------------------------------
(* posix.normalize of an absolute path.                                    *)
NormalizeStep(done, s) == IF s # ".." THEN Append(done, s) ELSE IF done = <<>> THEN done ELSE Front(done)
Normalize(segs) == FoldLeft(NormalizeStep, <<>>, segs)

IsRemotePathInside(root, p) == IsPrefix(root, p)

(* resolveRemotePath: relative to the base, inside the boundary, or        *)
(* refused.                                                                *)
ResolveRemotePath(base, input, root) ==
  LET p == Normalize(IF input.abs THEN input.segs ELSE base \o input.segs)
  IN IF IsRemotePathInside(root, p) THEN {p} ELSE {}

(* findForPath: the deepest bound workspace around a directory.            *)
Around(cwd) == {w \in Local : bindings[w] # Unbound /\ IsPrefix(w, cwd)}
FindForPath(cwd) == {w \in Around(cwd) : \A v \in Around(cwd) : Len(v) <= Len(w)}
WorkspaceRelativePart(w, cwd) == SubSeq(cwd, Len(w) + 1, Len(cwd))

-----------------------------------------------------------------------------
(* The server: following links from a real directory on, a walk that has   *)
(* seen so many of them.  <<found, real, what is left>>.                   *)
MaxLinks == 3
Walks == [real : Seq(STRING), rest : Seq(STRING), fuel : 0..MaxLinks]
Walk(real, rest, fuel) == [real |-> real, rest |-> rest, fuel |-> fuel]
Follow[w \in Walks] ==
  IF w.rest = <<>> THEN <<"found", w.real, <<>>>>
  ELSE LET here == Append(w.real, Head(w.rest)) IN
    IF Node(here) = Absent THEN <<"missing", here, Tail(w.rest)>>
    ELSE IF ~IsLink(Node(here)) THEN Follow[Walk(here, Tail(w.rest), w.fuel)]
    ELSE IF w.fuel = 0 THEN <<"loop", here, Tail(w.rest)>>
    ELSE Follow[Walk(<<>>, Node(here)[2] \o Tail(w.rest), w.fuel - 1)]

Reach(p) == Follow[Walk(<<>>, p, MaxLinks)]
RealPathOk(p) == Reach(p)[1] = "found" \/ (lenient /\ Reach(p)[1] = "missing" /\ Reach(p)[3] = <<>>)

(* lstat: the node itself, its directory followed.                         *)
LinkItself(p) ==
  /\ p # <<>> /\ Reach(Front(p))[1] = "found"
  /\ IsLink(Node(Append(Reach(Front(p))[2], Last(p))))

(* Where opening a path for writing lands, if it does.                     *)
Lands(p) ==
  LET r == Reach(p)
  IN IF r[1] = "found" \/ (r[1] = "missing" /\ r[3] = <<>>) THEN {r[2]} ELSE {}

-----------------------------------------------------------------------------
(* canonicalRemotePath: the nearest ancestor realpath answers for, with    *)
(* the rest appended; a target that is itself an unresolved link is        *)
(* refused.                                                                *)
UnresolvedLink(p) == LinkItself(p)

Nearest(p) == Max({n \in 0..Len(p) : RealPathOk(SubSeq(p, 1, n))})
CanonicalRemotePath(p) ==
  IF ~RealPathOk(p) /\ UnresolvedLink(p) THEN {}
  ELSE LET n == Nearest(p) IN {Reach(SubSeq(p, 1, n))[2] \o SubSeq(p, n + 1, Len(p))}

(* assertRemoteWorkspaceTarget.                                            *)
AssertRemoteWorkspaceTarget(root, target) ==
  \E r \in CanonicalRemotePath(root) : \E p \in CanonicalRemotePath(target) : IsRemotePathInside(r, p)

(* resolveRemoteToolPath of one call in a bound session, its connection at *)
(* hand (AgentTarget).                                                     *)
ResolveRemoteToolPath(cwd, input) ==
  /\ \E w \in FindForPath(cwd) : \E p \in ResolveRemotePath(bindings[w] \o WorkspaceRelativePart(w, cwd), input, bindings[w]) :
       /\ AssertRemoteWorkspaceTarget(bindings[w], p)
       /\ granted' = [root |-> bindings[w], path |-> p, cwd |-> cwd, ws |-> w]
  /\ UNCHANGED <<bindings, tree, lenient>>

(* remoteWorkspaceSave replaces, remoteWorkspaceDelete removes a binding.  *)
RemoteWorkspaceSave(w, r) ==
  /\ bindings[w] # r /\ bindings' = [bindings EXCEPT ![w] = r] /\ granted' = Unbound /\ UNCHANGED <<tree, lenient>>

RemoteWorkspaceDelete(w) ==
  /\ bindings[w] # Unbound /\ bindings' = [bindings EXCEPT ![w] = Unbound] /\ granted' = Unbound /\ UNCHANGED <<tree, lenient>>

WsNext ==
  \/ \E w \in Local : RemoteWorkspaceDelete(w) \/ \E r \in Roots : RemoteWorkspaceSave(w, r)
  \/ \E c \in Cwd : \E i \in Inputs : ResolveRemoteToolPath(c, i)

-----------------------------------------------------------------------------
(* A path that is let through leads, with every link of the server's tree  *)
(* followed, to a place under the bound root's real directory, and its     *)
(* binding is the one of the nearest workspace around the session.         *)
WorkspaceContained ==
  granted # Unbound =>
    /\ \A real \in Lands(granted.path) : \A root \in CanonicalRemotePath(granted.root) : IsPrefix(root, real)
    /\ \A v \in Local : bindings[v] # Unbound /\ IsPrefix(v, granted.cwd) => IsPrefix(v, granted.ws)
=============================================================================
