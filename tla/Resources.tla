----------------------------- MODULE Resources -----------------------------
(***************************************************************************)
(* Saved SSH resources, shared credentials, groups, database profiles and  *)
(* the settings row: the handlers of index.js that keep them and the page  *)
(* SshResources.jsx that calls them.  The storage tables and the           *)
(* credential store belong to the host: a write takes effect when it is    *)
(* called and answers later, or fails and changes nothing; a table is      *)
(* iterated live or over a copy (`live`).                                  *)
(*                                                                         *)
(* Calls run concurrently and give way to each other at every await.       *)
(***************************************************************************)
EXTENDS Sequences, FiniteSets

CONSTANTS
  Profile, Cred, Group, Db,  \* ids
  Call,                      \* calls under way
  None

Ids == Profile \union Cred \union Group \union Db
Tiers == {"standard", "allowAll"}
Users == {"root", "ops"}

VARIABLES
  profiles,  \* Profile -> its record, or None
  creds, groups, dbs, \* ids in the other tables
  secrets,   \* ids with something in the credential store
  bound,     \* profiles with remote-workspace bindings
  row, mem,  \* the settings row, and the fields of the service
  line,      \* calls whose write of that row has not answered
  page,      \* switch and tier as the resources page shows them
  calls,     \* Call -> what it is doing
  met,       \* history: ids two calls had in hand at once
  live       \* whether entries() follows changes

resVars == <<profiles, creds, groups, dbs, secrets, bound, row, mem, line, page, calls, met, live>>
tables  == <<profiles, creds, groups, dbs, secrets, bound>>
settings == <<row, mem, page, line>>

ProfileRec == [cred : Cred \union {None}, group : Group \union {None}, jump : Profile \union Cred \union {None}]
(* The tables and the secrets of each have names of their own.             *)
ASSUME ResAssumption ==
  /\ None \notin Ids \union ProfileRec
  /\ Profile \intersect (Cred \union Group \union Db) = {} /\ Cred \intersect (Group \union Db) = {} /\ Group \intersect Db = {}

Settings == [auto : BOOLEAN, tier : Tiers, user : Users, lang : {"zh", "en"}]
Rest == [kind |-> "none", at |-> "idle", id |-> None, touch |-> {}, todo |-> {}, val |-> None]

ResTypeOK ==
  /\ profiles \in [Profile -> ProfileRec \union {None}]
  /\ creds \subseteq Cred /\ groups \subseteq Group /\ dbs \subseteq Db
  /\ secrets \subseteq Ids /\ bound \subseteq Profile /\ met \subseteq Ids
  /\ line \in Seq(Call)
  /\ row \in Settings /\ mem \in Settings /\ page \in [auto : BOOLEAN, tier : Tiers]

ResInit ==
  /\ profiles = [p \in Profile |-> None] /\ creds = Cred /\ groups = Group /\ dbs = {}
  /\ secrets = Cred /\ bound = {} /\ met = {} /\ line = <<>> /\ live \in BOOLEAN
  /\ row = [auto |-> FALSE, tier |-> "standard", user |-> "root", lang |-> "zh"] /\ mem = row
  /\ page = [auto |-> FALSE, tier |-> "standard"]
  /\ calls = [c \in Call |-> Rest]

Saved == {p \in Profile : profiles[p] # None}
Existing == Saved \union creds \union groups \union dbs
Named(r) == {r.cred, r.group, r.jump} \ {None}
Members(g) == {p \in Saved : profiles[p].group = g}

(* A call begins: it has the ids of `touch` in hand until it ends.         *)
Enter(c, kind, at, id, touch, todo, val) ==
  /\ calls[c].at = "idle"
  /\ calls' = [calls EXCEPT ![c] = [kind |-> kind, at |-> at, id |-> id, touch |-> touch, todo |-> todo, val |-> val]]
  /\ met' = met \union (touch \intersect UNION {calls[d].touch : d \in Call \ {c}})
At(c, kind, at) == calls[c].kind = kind /\ calls[c].at = at
GoOn(c, at) == calls' = [calls EXCEPT ![c].at = at]
Leave(c) == calls' = [calls EXCEPT ![c] = Rest]

-----------------------------------------------------------------------------
(* profileSave: what it refuses.                                           *)
Acceptable(p, r) ==
  /\ r.group # None => r.group \in groups
  /\ r.cred # None => r.cred \in creds
  /\ r.jump # p
  /\ r.jump \in Profile => r.jump \in Saved
  /\ r.jump \in Cred => r.jump \in creds

ProfileSave(c, p, r) ==
  /\ Acceptable(p, r)
  /\ Enter(c, "profileSave", "settings", p, {p} \union Named(r), {}, IF r.cred = None THEN p ELSE r.cred)
  /\ profiles' = [profiles EXCEPT ![p] = r]
  /\ UNCHANGED <<creds, groups, dbs, secrets, bound, settings, live>>

(* The saved username becomes the default of the next form, best effort.   *)
RememberUser(c) ==
  /\ At(c, "profileSave", "settings") /\ GoOn(c, "editor")
  /\ \E u \in Users : mem' = [mem EXCEPT !.user = u] /\ row' \in {row, [row EXCEPT !.user = u]}
  /\ UNCHANGED <<tables, line, page, met, live>>

(* The editor stores the typed secret under the reference it was answered: *)
(* the server's own, or the shared credential's; or clears it, or neither. *)
EditorWrites(c) ==
  /\ At(c, "profileSave", "editor") /\ Leave(c)
  /\ secrets' \in {secrets, secrets \union {calls[c].val}, secrets \ {calls[c].val}}
  /\ UNCHANGED <<profiles, creds, groups, dbs, bound, settings, met, live>>

(* An operator binds a workspace to a resource (remoteWorkspaceSave).      *)
BindWorkspace(p) ==
  /\ p \in Saved /\ p \notin bound /\ bound' = bound \union {p}
  /\ UNCHANGED <<profiles, creds, groups, dbs, secrets, settings, calls, met, live>>

(* profileDelete: its secrets, then the row, then its bindings.            *)
ProfileDelete(c, p) ==
  /\ p \in Saved /\ Enter(c, "profileDelete", "unset", p, {p}, {}, None)
  /\ UNCHANGED <<tables, settings, live>>

(* Secrets of an id are removed, or one removal fails and the call ends.   *)
UnsetSecrets(c) ==
  /\ calls[c].at = "unset"
  /\ \/ secrets' = secrets \ {calls[c].id} /\ GoOn(c, "delete")
     \/ secrets' = secrets /\ Leave(c)
  /\ UNCHANGED <<profiles, creds, groups, dbs, bound, settings, met, live>>

DeleteProfileRow(c) ==
  /\ At(c, "profileDelete", "delete")
  /\ \/ profiles' = [profiles EXCEPT ![calls[c].id] = None] /\ GoOn(c, "bindings")
     \/ profiles' = profiles /\ Leave(c)
  /\ UNCHANGED <<creds, groups, dbs, secrets, bound, settings, met, live>>

(* A failure to remove a binding is swallowed.                             *)
DeleteBindings(c) ==
  /\ At(c, "profileDelete", "bindings") /\ Leave(c)
  /\ bound' \in {bound, bound \ {calls[c].id}}
  /\ UNCHANGED <<profiles, creds, groups, dbs, secrets, settings, met, live>>

-----------------------------------------------------------------------------
(* credentialSave, and the secret its editor stores afterwards.            *)
CredentialSave(c, k) ==
  /\ Enter(c, "credentialSave", "editor", k, {k}, {}, None)
  /\ creds' = creds \union {k}
  /\ UNCHANGED <<profiles, groups, dbs, secrets, bound, settings, live>>

SecretFollows(c) ==
  /\ calls[c].kind \in {"credentialSave", "dbProfileSave"} /\ calls[c].at = "editor" /\ Leave(c)
  /\ secrets' \in {secrets, secrets \union {calls[c].id}}
  /\ UNCHANGED <<profiles, creds, groups, dbs, bound, settings, met, live>>

(* credentialDelete refuses a credential a resource or a hop names.        *)
OwnersOnly(k) == \A p \in Saved : profiles[p].cred # k \* faulty variant: jump hops are not looked at
Unused(k) == \A p \in Saved : profiles[p].cred # k /\ profiles[p].jump # k

CredentialDelete(c, k) ==
  /\ k \in creds /\ Unused(k)
  /\ Enter(c, "credentialDelete", "unset", k, {k}, {}, None)
  /\ UNCHANGED <<tables, settings, live>>

DeleteRow(c) ==
  /\ calls[c].kind \in {"credentialDelete", "dbProfileDelete"} /\ calls[c].at = "delete" /\ Leave(c)
  /\ \/ creds' = creds \ {calls[c].id} /\ dbs' = dbs \ {calls[c].id}
     \/ UNCHANGED <<creds, dbs>>
  /\ UNCHANGED <<profiles, groups, secrets, bound, settings, met, live>>

(* dbProfileSave writes the row and then the password it was given;        *)
(* dbProfileDelete unsets the password and then deletes the row.           *)
DbProfileSave(c, d) ==
  /\ Enter(c, "dbProfileSave", "editor", d, {d}, {}, None)
  /\ dbs' = dbs \union {d}
  /\ UNCHANGED <<profiles, creds, groups, secrets, bound, settings, live>>

DbProfileDelete(c, d) ==
  /\ d \in dbs /\ Enter(c, "dbProfileDelete", "unset", d, {d}, {}, None)
  /\ UNCHANGED <<tables, settings, live>>

-----------------------------------------------------------------------------
GroupSave(g) ==
  /\ g \notin groups /\ groups' = groups \union {g}
  /\ UNCHANGED <<profiles, creds, dbs, secrets, bound, settings, calls, met, live>>

(* groupDelete moves the members out one put at a time, then deletes the   *)
(* group.  Over a copy it puts the record as it was at the start.          *)
GroupDelete(c, g) ==
  /\ g \in groups
  /\ Enter(c, "groupDelete", "move", g, {g} \union Members(g) \union UNION {Named(profiles[p]) : p \in Members(g)}, Members(g), [p \in Members(g) |-> profiles[p]])
  /\ UNCHANGED <<tables, settings, live>>

MoveMember(c, p) ==
  LET now == IF live THEN profiles[p] ELSE calls[c].val[p]
  IN /\ At(c, "groupDelete", "move")
     /\ p \in (IF live THEN Members(calls[c].id) ELSE calls[c].todo)
     /\ \/ /\ profiles' = [profiles EXCEPT ![p] = [now EXCEPT !.group = None]]
           /\ calls' = [calls EXCEPT ![c].todo = @ \ {p}]
        \/ profiles' = profiles /\ Leave(c)
     /\ UNCHANGED <<creds, groups, dbs, secrets, bound, settings, met, live>>

DeleteGroupRow(c) ==
  /\ At(c, "groupDelete", "move") /\ Leave(c)
  /\ IF live THEN Members(calls[c].id) = {} ELSE calls[c].todo = {}
  /\ groups' \in {groups, groups \ {calls[c].id}}
  /\ UNCHANGED <<profiles, creds, dbs, secrets, bound, settings, met, live>>

-----------------------------------------------------------------------------
(* agentSettingsSave and languageSave: the row is written at once (or not  *)
(* at all, and nothing changes), the fields follow when the write answers; *)
(* writes of the row answer in the order they began.  The page's switch    *)
(* sends itself alone, so the tier is the service's of the moment; its     *)
(* tier buttons send the switch too, as the page shows it.  Each control   *)
(* waits for its own answer only.                                          *)
SaveSettings(c, kind, val) ==
  /\ \A d \in Call : calls[d].kind # kind
  /\ Enter(c, kind, "apply", None, {}, {}, val)
  /\ row' = [row EXCEPT !.auto = val.auto, !.tier = val.tier, !.user = val.user]
  /\ line' = Append(line, c)
  /\ UNCHANGED <<tables, mem, page, live>>

ToggleAgentAutoConnect(c) == SaveSettings(c, "toggle", [auto |-> ~page.auto, tier |-> mem.tier, user |-> mem.user])

SaveExecPolicy(c, t) == t # page.tier /\ SaveSettings(c, "policy", [auto |-> page.auto, tier |-> t, user |-> mem.user])

TierAfter(c) == calls[c].val.tier

ApplySettings(c) ==
  /\ calls[c].at = "apply" /\ Head(line) = c /\ line' = Tail(line) /\ Leave(c)
  /\ mem' = [mem EXCEPT !.auto = calls[c].val.auto, !.tier = TierAfter(c), !.user = calls[c].val.user]
  /\ page' = IF calls[c].kind = "toggle" THEN [page EXCEPT !.auto = calls[c].val.auto] ELSE [page EXCEPT !.tier = calls[c].val.tier]
  /\ UNCHANGED <<tables, row, met, live>>

LanguageSave(c, l) ==
  /\ Enter(c, "language", "applyLanguage", None, {}, {}, l)
  /\ row' = [row EXCEPT !.lang = l] /\ line' = Append(line, c)
  /\ UNCHANGED <<tables, mem, page, live>>

ApplyLanguage(c) ==
  /\ calls[c].at = "applyLanguage" /\ Head(line) = c /\ line' = Tail(line) /\ Leave(c)
  /\ mem' = [mem EXCEPT !.lang = calls[c].val]
  /\ UNCHANGED <<tables, row, page, met, live>>

ResNext ==
  \/ \E c \in Call :
       \/ \E p \in Profile : ProfileDelete(c, p) \/ MoveMember(c, p) \/ \E r \in ProfileRec : ProfileSave(c, p, r)
       \/ \E k \in Cred : CredentialSave(c, k) \/ CredentialDelete(c, k)
       \/ \E g \in Group : GroupDelete(c, g)
       \/ \E d \in Db : DbProfileSave(c, d) \/ DbProfileDelete(c, d)
       \/ RememberUser(c) \/ EditorWrites(c) \/ UnsetSecrets(c) \/ DeleteProfileRow(c) \/ DeleteBindings(c)
       \/ SecretFollows(c) \/ DeleteRow(c) \/ DeleteGroupRow(c)
       \/ ToggleAgentAutoConnect(c) \/ ApplySettings(c) \/ ApplyLanguage(c)
       \/ \E t \in Tiers : SaveExecPolicy(c, t)
       \/ \E l \in {"zh", "en"} : LanguageSave(c, l)
  \/ \E p \in Profile : BindWorkspace(p)
  \/ \E g \in Group : GroupSave(g)

-----------------------------------------------------------------------------
AtRest == \A c \in Call : calls[c].at = "idle"

(* Calls that never had the same id in hand leave nothing behind, however  *)
(* their steps interleave and whichever of their writes fails: no stored   *)
(* secret outlives its resource, credential or database profile, and no    *)
(* resource names a credential or a group that is gone.                    *)
NoDanglingReference ==
  /\ \A x \in secrets \ met : x \in Existing \/ \E c \in Call : x \in calls[c].touch
  /\ \A p \in Saved : {profiles[p].cred, profiles[p].group} \ {None} \subseteq Existing \union met
  /\ \A p \in Saved : profiles[p].jump \in Cred => profiles[p].jump \in Existing \union met

(* Whenever no save is under way, the command tier and the switch in force *)
(* are the stored ones, so a restart changes neither.                      *)
InForceIsStored == AtRest => mem.auto = row.auto /\ mem.tier = row.tier /\ mem.lang = row.lang

(* What is stored refers to what is stored, and what is in force was saved.*)
ResourcesSound == NoDanglingReference /\ InForceIsStored
=============================================================================
