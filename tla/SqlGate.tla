------------------------------ MODULE SqlGate ------------------------------
(***************************************************************************)
(* The two gates every SQL text of the agent passes (db-safety.js): the    *)
(* read-only gate of db_query and the destructive-verb gate of db_execute, *)
(* with the parser of the statement's target; and the server that reads    *)
(* the same text by the rules of its own dialect.                          *)
(*                                                                         *)
(* A text is read element by element: words, punctuation, quotes, and the  *)
(* openers and closers of comments and dollar quotes.  Quotes, backslashes *)
(* and what follows "--" stand next to their neighbour; any other element  *)
(* is set off by a blank.  A backslash before a quote means one thing to   *)
(* MySQL and another to PostgreSQL, so the gates read the text twice.      *)
(***************************************************************************)
EXTENDS Integers, Sequences

Quotes == {"'", "\"", "backtick"}  \* and the names of the marks: a quote, a double quote, a backtick
LineOpeners == {"--", "-- ", "#"}
Marks == Quotes \union LineOpeners
         \union {"E'", "\\", ";", "(", ")", ".", ",", "eol", "/*", "/*!", "*/", "$$"}

CONSTANTS
  Words,      \* the words a text is made of
  Punct,      \* the marks between them
  MaxText     \* bound: elements of a text

ASSUME TextAssumption == Punct \subseteq Marks /\ Words \intersect Marks = {} /\ MaxText \in Nat

READONLY_VERBS    == {"SELECT", "SHOW", "DESCRIBE", "DESC", "EXPLAIN", "WITH"}
DESTRUCTIVE_VERBS == {"DROP", "TRUNCATE", "SHUTDOWN"}
WRITE_KEYWORDS    ==
  {"INSERT", "UPDATE", "DELETE", "MERGE", "TRUNCATE", "REPLACE", "CREATE", "ALTER", "DROP", "RENAME", "GRANT",
   "REVOKE", "CALL", "DO", "SET", "LOAD", "HANDLER", "INTO", "LOCK", "UNLOCK", "SHARE", "OPTIMIZE", "PURGE",
   "FLUSH", "RESET", "KILL", "SHUTDOWN", "PREPARE", "EXECUTE", "DEALLOCATE", "START", "STOP", "BEGIN", "COMMIT",
   "ROLLBACK", "SAVEPOINT", "ANALYZE"}
Elements == Words \union Punct

(* How a text is read: what opens a string, in which strings a backslash   *)
(* escapes, what opens a comment to the end of the line, whether $$ quotes,*)
(* whether the body of a version comment is SQL, whether comments nest.    *)
Reading == [quotes : SUBSET Quotes, escapes : SUBSET Quotes, line : SUBSET LineOpeners,
            dollar : BOOLEAN, version : BOOLEAN, nested : BOOLEAN]
Escaping == [quotes |-> Quotes, escapes |-> Quotes, line |-> LineOpeners,
             dollar |-> TRUE, version |-> TRUE, nested |-> FALSE]
Literal  == [Escaping EXCEPT !.escapes = {}]

(* The dialects, as their servers' manuals have them (defaults).           *)
Dialects == {"pg", "mysql"}
Grammar(dialect) ==
  IF dialect = "pg"
  THEN [quotes |-> {"'", "\""}, escapes |-> {}, line |-> {"--", "-- "}, dollar |-> TRUE, version |-> FALSE, nested |-> TRUE]
  ELSE [quotes |-> Quotes, escapes |-> {"'", "\""}, line |-> {"-- ", "#"}, dollar |-> FALSE, version |-> TRUE, nested |-> FALSE]

VARIABLES
  typed,              \* elements read so far
  escaping, literal,  \* the gates' lexer under the two string conventions
  dialect, server,    \* the server's dialect, and its lexer
  shared              \* the gates' readings that are still the server's

sqlVars == <<typed, escaping, literal, dialect, server, shared>>

(* A lexer: finished statements, the open one, where it stands ("closing"  *)
(* after what may be the closing quote), the string it is in, comments     *)
(* nested, and whether the last element was a word.                        *)
NewLexer == [done |-> <<>>, cur |-> <<>>, depth |-> 0, at |-> "out", quote |-> "'", nest |-> 0, wordLast |-> FALSE]

CloseStatement(l) ==
  [l EXCEPT !.done = IF l.cur = <<>> THEN @ ELSE Append(@, l.cur), !.cur = <<>>, !.depth = 0]

Unguarded(d) == d - 1 \* faulty variant: an unmatched parenthesis goes below zero
DepthBelow(d) == IF d = 0 THEN 0 ELSE d - 1

Token(l, w) == [word |-> w, depth |-> l.depth, isCall |-> FALSE]
Push(l, w) == [l EXCEPT !.cur = Append(@, Token(l, w))]
OpenParen(l) == [l EXCEPT !.depth = @ + 1, !.cur = IF l.wordLast THEN [@ EXCEPT ![Len(@)].isCall = TRUE] ELSE @]
Enter(l, at) == [l EXCEPT !.at = at]
CloseParen(l) == [l EXCEPT !.depth = DepthBelow(@)]
OpenString(l, q) == [l EXCEPT !.at = "in", !.quote = q]
OpenComment(l) == [l EXCEPT !.at = "block", !.nest = 0]

(* One element outside strings and comments: what opens one by the rules   *)
(* of d, and what makes the statements; anything else is passed over.      *)
Structure(l, e) ==
  CASE e = ";" -> CloseStatement(l)
    [] e = "(" -> OpenParen(l)
    [] e = ")" -> CloseParen(l)
    [] e \in Words \union {".", ","} -> Push(l, e)
    [] OTHER -> l
Outside(d, l, e) ==
  CASE e \in d.quotes -> OpenString(l, e)
    [] e = "E'" -> OpenString(Push(l, "E"), e)
    [] e \in d.line -> Enter(l, "line")
    [] e = "/*" \/ (e = "/*!" /\ ~d.version) -> OpenComment(l)
    [] e = "$$" /\ d.dollar -> Enter(l, "dollar")
    [] OTHER -> Structure(l, e)
OutsideStep(d, l, e) == [Outside(d, l, e) EXCEPT !.wordLast = e \in Words \/ (e = "eol" /\ l.wordLast)]

(* One element inside a string: PostgreSQL's E'' escapes in every reading. *)
Escapes(d, l) == l.quote = "E'" \/ l.quote \in d.escapes
Closes(l, e) == e = l.quote \/ (l.quote \in {"'", "E'"} /\ e \in {"'", "E'"})
InString(d, l, e) ==
  CASE Closes(l, e) -> Enter(l, "closing")
    [] ~Closes(l, e) /\ e = "\\" /\ Escapes(d, l) -> Enter(l, "skip")
    [] OTHER -> l

(* One element inside a comment.                                           *)
InBlock(d, l, e) ==
  CASE e = "*/" /\ l.nest = 0 -> Enter(l, "out")
    [] e = "*/" /\ l.nest > 0 -> [l EXCEPT !.nest = @ - 1]
    [] e \in {"/*", "/*!"} /\ d.nested -> [l EXCEPT !.nest = @ + 1]
    [] OTHER -> l

(* A blank, not the quote, is escaped before "E'"; a second quote right    *)
(* after the first is one quote of the string.                             *)
Doubles(l, e) == e = l.quote \/ (l.quote = "E'" /\ e = "'")
ScanStep(d, l, e) ==
  CASE l.at = "line"   -> IF e = "eol" THEN Enter(l, "out") ELSE l
    [] l.at = "dollar" -> IF e = "$$" THEN Enter(l, "out") ELSE l
    [] l.at = "block"  -> InBlock(d, l, e)
    [] l.at = "in"     -> InString(d, l, e)
    [] l.at = "skip"   -> IF e = "E'" /\ Closes(l, e) THEN Enter(l, "closing") ELSE Enter(l, "in")
    [] l.at = "closing" /\ Doubles(l, e) -> Enter(l, "in")
    [] OTHER -> OutsideStep(d, Enter(l, "out"), e)

(* scanTokens: the statements of the text.                                 *)
Statements(l) == CloseStatement(l).done

-----------------------------------------------------------------------------
(* Where the server leaves the gates' readings: a mark that only one side  *)
(* takes for the opener of a comment or a quote, a comment in a comment    *)
(* where they nest, and a backslash in a string, which one of the two      *)
(* readings takes as the server does.                                      *)
Unquoted(l) == l.at \in {"out", "closing"}
Strange(e) ==
  IF dialect = "pg"
  THEN (Unquoted(server) /\ e \in {"#", "backtick", "/*!"}) \/ (server.at = "block" /\ e \in {"/*", "/*!"})
  ELSE Unquoted(server) /\ e \in {"--", "$$"}
Misread(e) ==
  CASE Strange(e) -> {"escaping", "literal"}
    [] ~Strange(e) /\ server.at = "in" /\ e = "\\" /\ server.quote # "E'" ->
         IF server.quote \in Grammar(dialect).escapes THEN {"literal"} ELSE {"escaping"}
    [] OTHER -> {}

SqlInit ==
  /\ typed = 0 /\ escaping = NewLexer /\ literal = NewLexer
  /\ dialect \in Dialects /\ server = NewLexer /\ shared = {"escaping", "literal"}

SqlNext ==
  /\ typed < MaxText /\ typed' = typed + 1
  /\ \E e \in Elements :
       /\ escaping' = ScanStep(Escaping, escaping, e) /\ literal' = ScanStep(Literal, literal, e)
       /\ server' = ScanStep(Grammar(dialect), server, e) /\ shared' = shared \ Misread(e)
  /\ UNCHANGED dialect

-----------------------------------------------------------------------------
Agrees == FALSE \* faulty variant: one reading is trusted
Diverges == Statements(escaping) # Statements(literal)

TopVerb(s) == IF s[1].depth = 0 THEN s[1].word ELSE "none"
Destructive(s) == TopVerb(s) \in DESTRUCTIVE_VERBS
SomeOf(ss, P(_)) == \E i \in DOMAIN ss : P(ss[i])

(* assessSqlStatement.                                                     *)
Blocked == SomeOf(Statements(escaping), Destructive) \/ (Diverges /\ SomeOf(Statements(literal), Destructive))

(* assessReadOnlySql.                                                      *)
Writes(s) ==
  \E i \in DOMAIN s :
    /\ s[i].word \in WRITE_KEYWORDS
    /\ ~(s[i].word = "CREATE" /\ s[1].word = "SHOW") /\ ~(s[i].word = "REPLACE" /\ s[i].isCall)
Refused(s) == s[1].word \notin READONLY_VERBS \/ Writes(s)
ReadOnly == ~Diverges /\ ~SomeOf(Statements(escaping), Refused)

(* parseDestructiveTarget: the first destructive statement's target, a     *)
(* possibly qualified name.                                                *)
Kinds(verb) == IF verb = "TRUNCATE" THEN {"TABLE"} ELSE {"TABLE", "DATABASE", "SCHEMA"}
KindAt(s) == Len(s) >= 2 /\ s[2].word \in Kinds(s[1].word)
NameStart(s) ==
  LET i == IF KindAt(s) THEN 3 ELSE 2
  IN IF Len(s) >= i + 1 /\ s[i].word = "IF" /\ s[i + 1].word = "EXISTS" THEN i + 2 ELSE i
IdentEnd(s, i, j) ==
  /\ j \in i .. Len(s)
  /\ \A m \in i .. j : s[m].depth = 0 /\ s[m].word # "," /\ (s[m].word = ".") = ((m - i) % 2 = 1)
  /\ j = Len(s) \/ s[j + 1].depth # 0 \/ s[j + 1].word = ","
       \/ (s[j + 1].word = ".") # ((j + 1 - i) % 2 = 1)
Target(s) ==
  LET verb == s[1].word
      i == NameStart(s)
      ends == {j \in 1 .. Len(s) : IdentEnd(s, i, j)}
      last == CHOOSE j \in ends : TRUE
      cut == IF s[last].word = "." THEN last - 1 ELSE last
  IN IF verb = "SHUTDOWN" \/ (verb = "DROP" /\ ~KindAt(s)) \/ ends = {}
     THEN <<>> ELSE [m \in 1 .. (cut - i + 1) |-> s[i + m - 1].word]

FirstDestructive(ss) ==
  ss[CHOOSE i \in DOMAIN ss : Destructive(ss[i]) /\ \A j \in 1 .. (i - 1) : ~Destructive(ss[j])]

ParseTarget ==
  IF Diverges \/ ~SomeOf(Statements(escaping), Destructive) THEN <<>> ELSE Target(FirstDestructive(Statements(escaping)))

-----------------------------------------------------------------------------
(* Wherever one of the gates' readings is still the server's, the server   *)
(* executes no writing statement of a text the read-only gate lets through,*)
(* none that is destructive of a text db_execute lets through, and the     *)
(* guard acts on no name but the target the server reads.                  *)
GatesHold ==
  LET executed == Statements(server)
  IN shared # {} =>
       /\ ReadOnly => ~Blocked /\ ~SomeOf(executed, Refused)
       /\ ~Blocked => ~SomeOf(executed, Destructive)
       /\ ParseTarget # <<>> => Blocked /\ ParseTarget = Target(FirstDestructive(executed))

SqlTypeOK ==
  /\ typed \in 0 .. MaxText /\ dialect \in Dialects /\ shared \subseteq {"escaping", "literal"}
  /\ \A l \in {escaping, literal, server} :
       /\ l.at \in {"out", "in", "skip", "closing", "line", "block", "dollar"}
       /\ l.quote \in Quotes \union {"E'"} /\ l.depth \in 0 .. MaxText /\ l.nest \in 0 .. MaxText
       /\ \A i \in DOMAIN l.cur : l.cur[i].word \in Words \union {"E", ".", ","}
=============================================================================
