------------------------------ MODULE TrashCan ------------------------------
(* Reversible deletion (src/trash.js, sftp_delete, moveSftpToTrash).  A    *)
(* simple rm becomes a script on the server that first purges what is too  *)
(* old, then moves each target into the trash directory and appends a line *)
(* to the manifest; restore and purge are scripts as well.  A step is one  *)
(* command of a script: it may fail and the script goes on, scripts of     *)
(* several calls may run side by side, and a lost channel cuts one short   *)
(* anywhere.                                                               *)
EXTENDS Integers, FiniteSets, Sequences

CONSTANTS Script,      \* calls that run one script each
          Path,        \* remote paths
          Base,        \* [Path -> last component]: two paths may share it
          Retention,   \* retentionMs, in ticks of the clock
          MaxTime,     \* bound: the last tick
          MaxContent,  \* bound: contents ever created
          MaxSpoilt    \* bound: names spoilt by failing commands

ASSUME TrashAssumption ==
  /\ Retention \in Nat \ {0} /\ MaxTime \in Nat \ {0} /\ MaxContent \in Nat
  /\ DOMAIN Base = Path /\ IsFiniteSet(Path) /\ Cardinality(Path) <= MaxContent

VARIABLES file,      \* [Path -> content there, 0 for none]
          can,       \* entries of the trash directory
          manifest,  \* lines of manifest.tsv
          clock,
          created,   \* contents created so far
          job,       \* [Script -> where the script stands]
          gone,      \* what was destroyed: [content, how, age]
          spoilt,    \* history: names whose rm, or the writing of whose line, failed
          alone      \* history: no script ever ran beside another actor

trashVars == <<file, can, manifest, clock, created, job, gone, spoilt, alone>>
-----------------------------------------------------------------------------
(* The words of a command line, by what they mean to the parser: a program,*)
(* "--", short flags it knows, other options, a lone dash, a path, ~/path, *)
(* '~x' in quotes, ~ or ~user, / or . or .., and anything with an operator,*)
(* a glob, an expansion or a tab.                                          *)
Words == {"rm", "rmdir", "unlink", "ls", "--", "-rf", "-v", "-i", "-x", "--long", "-", "a", "~/b",
          "'~c'", "~", "/", "a*"}
DeletePrograms == {"rm", "unlink", "rmdir"}
Optional(w) == w \in {"-rf", "-v", "-i", "-x", "--long"}
AfterDashes(line, i) == \E k \in 2..(i - 1) : line[k] = "--"
Literal(w) == w \in {"a", "~/b", "'~c'", "rm", "rmdir", "unlink", "ls"}
KnownFlags(program) == IF program = "rmdir" THEN {"-v"} ELSE {"-rf", "-v", "-i"}

(* The targets of a simple delete, or {} when the parser gives the line    *)
(* up.  An option-like word after "--" is a path.                          *)
Flagged(line, i) == ~AfterDashes(line, i) /\ (line[i] = "--" \/ Optional(line[i]))
SimpleDeleteTargets(line) ==
  LET fit(i) == IF Flagged(line, i) THEN line[i] = "--" \/ line[i] \in KnownFlags(line[1])
                ELSE Literal(line[i]) \/ Optional(line[i]) \/ line[i] = "--"
  IN  IF line[1] \notin DeletePrograms \/ \E i \in 2..Len(line) : ~fit(i) THEN {}
      ELSE {line[i] : i \in {k \in 2..Len(line) : ~Flagged(line, k)}}

(* The operands the program itself would see: everything that is not an    *)
(* option, up to "--", and everything after it.                            *)
Operands(line) ==
  LET stop == {k \in 2..Len(line) : line[k] = "--"}
      first == IF stop = {} THEN Len(line) + 1 ELSE CHOOSE k \in stop : \A j \in stop : k <= j
  IN  {line[i] : i \in {k \in 2..Len(line) : k > first \/ (k < first /\ ~Optional(line[k]))}}
Lines == UNION {[1..n -> Words] : n \in 2..4}

(* A rewritten line moves exactly the operands of the program, and no line *)
(* with a glob, an expansion, an unknown option or a bare / . ~ is         *)
(* rewritten (parseSimpleDeleteCommand).  Whether the program would have   *)
(* removed each of them is not promised: rm keeps a directory without -r   *)
(* and asks with -i, rmdir keeps what is not empty, unlink takes one       *)
(* operand and no option, and the move does not ask.                       *)
RewritesExactly ==
  \A line \in Lines :
    LET t == SimpleDeleteTargets(line) IN
      t # {} => /\ line[1] \in DeletePrograms /\ t = Operands(line)
                /\ t \cap {"a*", "/", "~", "-"} = {}
-----------------------------------------------------------------------------
Name  == [at : 0..MaxTime, no : 0..(2 * MaxContent), base : {Base[p] : p \in Path}]
Line  == [name : Name, orig : Path, epoch : 0..MaxTime]
Entry == [name : Name, content : 1..MaxContent, from : Path, at : 0..MaxTime]

NoName == [at |-> 0, no |-> 0, base |-> Base[CHOOSE p \in Path : TRUE]]
Rest == [pc |-> "idle", n |-> 0, todo |-> {}, list |-> {}, tmp |-> {},
         purged |-> FALSE, path |-> "none", name |-> NoName]

TrashInit ==
  /\ created = Cardinality(Path)
  /\ file = CHOOSE f \in [Path -> 1..created] : \A p, q \in Path : p # q => f[p] # f[q]
  /\ can = {} /\ manifest = {} /\ clock = 1
  /\ job = [s \in Script |-> Rest] /\ gone = {} /\ spoilt = {} /\ alone = TRUE

Running(s) == job[s].pc \notin {"idle", "done", "cut"}
To(s, pc) == job' = [job EXCEPT ![s].pc = pc]
Beside(s) == alone' = (alone /\ ~\E r \in Script \ {s} : Running(r))
Spoils(s, names) ==
  /\ Beside(s) /\ spoilt' = spoilt \cup names /\ Cardinality(spoilt') <= MaxSpoilt
  /\ UNCHANGED <<clock, created>>
Disk(s) == Spoils(s, {})
Ends(entries, how) == {[content |-> e.content, how |-> how, age |-> clock - e.at] : e \in entries}
Named(name) == {e \in can : e.name = name}
Used(name) == Named(name) # {}

(* buildTrashCommand, from its head: the time is read once.  Without a     *)
(* trash directory the script ends.                                        *)
StartTrash(s, targets) ==
  /\ job[s] = Rest /\ targets # {}
  /\ \E pc \in {"list", "done"} :
       job' = [job EXCEPT ![s] = [Rest EXCEPT !.pc = pc, !.n = clock, !.todo = targets]]
  /\ Disk(s) /\ UNCHANGED <<file, can, manifest, gone>>

Expired(line, n) == line.epoch > 0 /\ line.epoch < n - Retention

(* awk lists what is to go; when it fails nothing goes.                    *)
ListExpired(s) ==
  /\ job[s].pc = "list"
  /\ \/ job' = [job EXCEPT ![s].pc = "purge",
                ![s].list = {l.name : l \in {m \in manifest : Expired(m, job[s].n)}}]
     \/ To(s, "next")
  /\ Disk(s) /\ UNCHANGED <<file, can, manifest, gone>>

(* rm -rf of one listed name; it succeeds on a name that is not there, and *)
(* one that fails is passed over.                                          *)
PurgeOne(s) ==
  /\ job[s].pc = "purge"
  /\ \E x \in job[s].list :
       \/ /\ job' = [job EXCEPT ![s].list = @ \ {x}, ![s].purged = TRUE]
          /\ can' = can \ Named(x)
          /\ gone' = gone \cup Ends(Named(x), "expired")
          /\ Disk(s)
       \/ /\ Used(x) /\ job' = [job EXCEPT ![s].list = @ \ {x}]
          /\ Spoils(s, {x}) /\ UNCHANGED <<can, gone>>
  /\ UNCHANGED <<file, manifest>>

(* The manifest is rewritten when one rm succeeded.                        *)
PurgeEnds(s) ==
  /\ job[s].pc = "purge" /\ job[s].list = {}
  /\ To(s, IF job[s].purged THEN "filter" ELSE "next")
  /\ Disk(s) /\ UNCHANGED <<file, can, manifest, gone>>

(* awk drops every expired line into a file of this script, and when it    *)
(* does not fail, cat puts that file over the manifest.                    *)
FilterExpired(s) ==
  /\ job[s].pc = "filter"
  /\ \/ job' = [job EXCEPT ![s].pc = "rewrite", ![s].tmp = {m \in manifest : ~Expired(m, job[s].n)}]
     \/ To(s, "next")
  /\ Disk(s) /\ UNCHANGED <<file, can, manifest, gone>>

(* A cat that fails leaves the manifest as it was, or part of the new one. *)
NamesOf(lines) == {l.name : l \in lines}
Written(tmp) == (SUBSET tmp) \cup {manifest}

RewriteManifest(s) ==
  LET tmp == job[s].tmp IN
  /\ job[s].pc \in {"rewrite", "r_rewrite"}
  /\ manifest' \in Written(tmp)
  /\ Spoils(s, NamesOf((tmp \ manifest') \cup (manifest' \ tmp)))
  /\ To(s, IF job[s].pc = "rewrite" THEN "next" ELSE "done")
  /\ UNCHANGED <<file, can, gone>>

Candidate(s, p, i) == [at |-> job[s].n, no |-> i, base |-> Base[p]]

(* The first name that is not taken.                                       *)
FirstName(s, p) == Candidate(s, p, 0)  \* faulty variant: the name is not probed
FreeName(s, p) ==
  Candidate(s, p, CHOOSE i \in 0..MaxContent :
                    ~Used(Candidate(s, p, i)) /\ \A j \in 0..(i - 1) : Used(Candidate(s, p, j)))

NextTarget(s) ==
  /\ job[s].pc = "next"
  /\ \/ job[s].todo = {} /\ To(s, "done")
     \/ \E p \in job[s].todo :
          IF file[p] = 0
          THEN job' = [job EXCEPT ![s].todo = @ \ {p}]
          ELSE job' = [job EXCEPT ![s].pc = "move", ![s].todo = @ \ {p}, ![s].path = p,
                                  ![s].name = FreeName(s, p)]
  /\ Disk(s) /\ UNCHANGED <<file, can, manifest, gone>>

(* mv puts the target over whatever has its new name by now.               *)
MoveTarget(s) ==
  LET p == job[s].path
      over == Named(job[s].name) IN
  /\ job[s].pc = "move"
  /\ \/ /\ file[p] # 0
        /\ file' = [file EXCEPT ![p] = 0]
        /\ can' = (can \ over) \cup {[name |-> job[s].name, content |-> file[p], from |-> p, at |-> job[s].n]}
        /\ gone' = gone \cup Ends(over, "clobbered")
        /\ To(s, "append")
     \/ To(s, "next") /\ UNCHANGED <<file, can, gone>>
  /\ Disk(s) /\ UNCHANGED manifest

(* The line is written, or not: the script goes on, and answers moved.     *)
AppendLine(s) ==
  LET line == [name |-> job[s].name, orig |-> job[s].path, epoch |-> job[s].n] IN
  /\ job[s].pc = "append"
  /\ \/ manifest' = manifest \cup {line} /\ Disk(s)
     \/ UNCHANGED manifest /\ Spoils(s, {line.name})
  /\ To(s, "next") /\ UNCHANGED <<file, can, gone>>

(* buildRestoreCommand for a line somebody read in the manifest.           *)
StartRestore(s, line) ==
  /\ job[s] = Rest
  /\ job' = [job EXCEPT ![s] = [Rest EXCEPT !.pc = "r_check", !.list = {line}, !.name = line.name]]
  /\ Disk(s) /\ UNCHANGED <<file, can, manifest, gone>>

Wanted(s) == CHOOSE l \in job[s].list : TRUE

RestoreCheck(s) ==
  /\ job[s].pc = "r_check"
  /\ To(s, IF Used(Wanted(s).name) /\ file[Wanted(s).orig] = 0 THEN "r_move" ELSE "done")
  /\ Disk(s) /\ UNCHANGED <<file, can, manifest, gone>>

RestoreMove(s) ==
  LET l == Wanted(s) IN
  /\ job[s].pc = "r_move"
  /\ \/ \E e \in Named(l.name) :
          /\ file' = [file EXCEPT ![l.orig] = e.content] /\ can' = can \ {e}
          /\ gone' = IF file[l.orig] = 0 THEN gone
                     ELSE gone \cup {[content |-> file[l.orig], how |-> "clobbered", age |-> 0]}
          /\ To(s, "r_filter")
     \/ To(s, "done") /\ UNCHANGED <<file, can, gone>>
  /\ Disk(s) /\ UNCHANGED manifest

(* buildPurgeCommand for one line: whether its rm succeeded or not, the    *)
(* line is dropped.                                                        *)
PurgeAsked(s, line) ==
  /\ job[s] = Rest
  /\ job' = [job EXCEPT ![s] = [Rest EXCEPT !.pc = "r_filter", !.list = {line}, !.name = line.name]]
  /\ \/ /\ can' = can \ Named(line.name)
        /\ gone' = gone \cup Ends(Named(line.name), "asked")
        /\ Disk(s)
     \/ Used(line.name) /\ Spoils(s, {line.name}) /\ UNCHANGED <<can, gone>>
  /\ UNCHANGED <<file, manifest>>

(* manifestFilterCommand: every line but this one; a grep that fails leaves*)
(* some of them out, and the cat after it does not ask.                    *)
FilterLine(s) ==
  LET rest == manifest \ job[s].list IN
  /\ job[s].pc = "r_filter"
  /\ \E tmp \in SUBSET rest :
       /\ job' = [job EXCEPT ![s].pc = "r_rewrite", ![s].tmp = tmp]
       /\ Spoils(s, NamesOf(rest \ tmp))
  /\ UNCHANGED <<file, can, manifest, gone>>

(* moveSftpToTrash: one rename to a name of its own and no line; a deadline *)
(* leaves it open whether the rename happened.                             *)
StartSftpMove(s, p) ==
  /\ job[s] = Rest
  /\ job' = [job EXCEPT ![s] = [Rest EXCEPT !.pc = "rename", !.path = p]]
  /\ Disk(s) /\ UNCHANGED <<file, can, manifest, gone>>

SftpRenamed(s) ==
  LET p == job[s].path IN
  /\ job[s].pc \in {"rename", "waited"} /\ file[p] # 0
  /\ file' = [file EXCEPT ![p] = 0]
  /\ can' = can \cup {[name |-> [at |-> clock, no |-> MaxContent + file[p], base |-> Base[p]],
                       content |-> file[p], from |-> p, at |-> clock]}
  /\ To(s, "done") /\ Disk(s) /\ UNCHANGED <<manifest, gone>>

SftpAnswers(s) ==
  /\ job[s].pc \in {"rename", "waited"}
  /\ To(s, "done") \/ (job[s].pc = "rename" /\ To(s, "waited"))
  /\ Disk(s) /\ UNCHANGED <<file, can, manifest, gone>>

(* The channel is lost and the script with it.                             *)
Cut(s) ==
  /\ Running(s) /\ To(s, "cut")
  /\ UNCHANGED <<file, can, manifest, clock, created, gone, spoilt, alone>>

Tick ==
  /\ clock < MaxTime /\ clock' = clock + 1
  /\ UNCHANGED <<file, can, manifest, created, job, gone, spoilt, alone>>

(* Somebody else writes a new file.                                        *)
Create(p) ==
  /\ file[p] = 0 /\ created < MaxContent
  /\ created' = created + 1 /\ file' = [file EXCEPT ![p] = created + 1]
  /\ alone' = (alone /\ ~\E s \in Script : Running(s))
  /\ UNCHANGED <<can, manifest, clock, job, gone, spoilt>>

ScriptStep(s) ==
  \/ \E targets \in SUBSET Path : StartTrash(s, targets)
  \/ ListExpired(s) \/ PurgeOne(s) \/ PurgeEnds(s) \/ FilterExpired(s) \/ RewriteManifest(s)
  \/ NextTarget(s) \/ MoveTarget(s) \/ AppendLine(s)
  \/ \E line \in manifest : StartRestore(s, line) \/ PurgeAsked(s, line)
  \/ RestoreCheck(s) \/ RestoreMove(s) \/ FilterLine(s)
  \/ \E p \in Path : StartSftpMove(s, p)
  \/ SftpRenamed(s) \/ SftpAnswers(s) \/ Cut(s)

TrashNext == (\E s \in Script : ScriptStep(s)) \/ Tick \/ \E p \in Path : Create(p)
TrashSpec == TrashInit /\ [][TrashNext]_trashVars
-----------------------------------------------------------------------------
(* Entries have names of their own and every script's notes are what the   *)
(* script of its kind keeps.                                               *)
TrashTypeOK ==
  /\ file \in [Path -> 0..MaxContent] /\ can \subseteq Entry /\ manifest \subseteq Line
  /\ clock \in 0..MaxTime /\ created \in 0..MaxContent
  /\ alone \in BOOLEAN /\ spoilt \subseteq Name
  /\ \A d, e \in can : d.name = e.name => d = e
  /\ \A s \in Script : job[s].tmp \subseteq Line /\ job[s].todo \subseteq Path

(* A script that moved a target was cut before its line, or one that        *)
(* restored or purged an entry was cut before its line was dropped.        *)
HalfMoved(name) ==
  \E s \in Script : job[s].pc \in {"append", "cut"} /\ job[s].list = {} /\ job[s].name = name
HalfRestored(name) ==
  \E s \in Script : job[s].pc = "cut" /\ job[s].list # {} /\ job[s].name = name

(* Whatever runs beside it, nothing is purged by age before the retention  *)
(* is over; and as long as scripts do not overlap, nothing is replaced by  *)
(* a move or a restore, every entry a script finished with has the line    *)
(* that leads back to its path, and no line leads anywhere else, except for*)
(* the names spoilt by a command that failed: their line may be dropped    *)
(* with the entry still there, never written, lost while the line of       *)
(* another is dropped, or left behind.  A script that was cut leaves at    *)
(* most its last entry without a line, or the line of the entry it         *)
(* restored.  What the SFTP route moves has no line: the answer names it.  *)
TrashReversible ==
  /\ \A g \in gone : g.how = "expired" => g.age > Retention
  /\ alone =>
       /\ \A g \in gone : g.how # "clobbered"
       /\ \A e \in can :
            \/ e.name.no > MaxContent
            \/ \E l \in manifest : l.name = e.name /\ l.orig = e.from
            \/ HalfMoved(e.name) \/ e.name \in spoilt
       /\ \A l \in manifest, e \in can :
            l.name = e.name => l.orig = e.from \/ HalfRestored(l.name) \/ l.name \in spoilt
  /\ RewritesExactly
=============================================================================
