---------------------------- MODULE CommandRouter ----------------------------
(***************************************************************************)
(* ui-console's CommandRouter: lines are cut into tokens, and tokens are   *)
(* looked up in a tree of menus and commands from the current menu on.     *)
(* A node is known by its path, a sequence of names; a name, like a line,  *)
(* is a sequence of characters.                                            *)
(***************************************************************************)
EXTENDS Sequences, Integers, FiniteSets, SequencesExt

CONSTANTS
  Menus,  \* paths of the menus; the root's is empty
  Leaves  \* paths of the commands

Nodes == Menus \cup Leaves
\* What names are made of.
Letters == UNION {Range(w) : w \in UNION {Range(p) : p \in Nodes}}

ASSUME TreeAssumption ==
  /\ <<>> \in Menus /\ Menus \cap Leaves = {} /\ Nodes \subseteq Seq(Seq(Letters))
  /\ \A p \in Nodes \ {<<>>} : Front(p) \in Menus

Help == <<"h", "e", "l", "p">>
Exit == <<"e", "x", "i", "t">>
Quit == <<"q", "u", "i", "t">>
Up == <<".", ".">>

-----------------------------------------------------------------------------
(* Tokens *)

\* The scanner: tokens found, the one begun, the quote it is in, or "", and
\* whether the next character is escaped.
ScanStart == [tokens |-> <<>>, current |-> <<>>, quote |-> "", escaped |-> FALSE]
Kept(s, c) == [s EXCEPT !.current = Append(@, c), !.escaped = FALSE]
Ended(s) ==
  IF s.current = <<>> THEN s ELSE [s EXCEPT !.tokens = Append(@, s.current), !.current = <<>>]

\* Mutant: a backslash escapes in single quotes too.
MutScan(s, c) ==
  IF s.escaped THEN Kept(s, c)
  ELSE IF c = "\\" THEN [s EXCEPT !.escaped = TRUE]
  ELSE IF c \in {"\"", "'"} /\ s.quote \in {"", c} THEN [s EXCEPT !.quote = IF @ = c THEN "" ELSE c]
  ELSE IF c = " " /\ s.quote = "" THEN Ended(s)
  ELSE Kept(s, c)
Scan(s, c) ==
  IF s.escaped THEN Kept(s, c)
  ELSE IF c = "\\" /\ s.quote # "'" THEN [s EXCEPT !.escaped = TRUE]
  ELSE IF c \in {"\"", "'"} /\ s.quote \in {"", c} THEN [s EXCEPT !.quote = IF @ = c THEN "" ELSE c]
  ELSE IF c = " " /\ s.quote = "" THEN Ended(s)
  ELSE Kept(s, c)

\* The scanner after each number of characters.
Scanned(line) ==
  LET scan[n \in 0..Len(line)] == IF n = 0 THEN ScanStart ELSE Scan(scan[n - 1], line[n])
  IN scan
tokenize(line) == Ended(Scanned(line)[Len(line)]).tokens

-----------------------------------------------------------------------------
(* Dispatch *)

navigateUp(menu) == IF menu = <<>> THEN <<>> ELSE Front(menu)

\* How many of the tokens lead down the tree; below a command is nothing.
Consumed(menu, tokens) ==
  Max({n \in 0..Len(tokens) : \A k \in 1..n : menu \o SubSeq(tokens, 1, k) \in Nodes})

Outcome(result, menu, args) == [result |-> result, node |-> menu, args |-> args]

\* What a line does: the result, the menu or command arrived at, and the
\* arguments the command's handler is given.
dispatch(menu, line) ==
  LET tokens == tokenize(line)
      n == Consumed(menu, tokens)
      node == menu \o SubSeq(tokens, 1, n)
  IN IF tokens = <<>> THEN Outcome("Empty", menu, <<>>)
     ELSE IF tokens[1] = Up \/ (tokens[1] = Exit /\ menu # <<>>)
     THEN Outcome(IF menu = <<>> THEN "Empty" ELSE "NavigatedUp", navigateUp(menu), <<>>)
     ELSE IF tokens[1] \in {Exit, Quit} THEN Outcome("Exit", menu, <<>>)
     ELSE IF tokens[1] = Help THEN Outcome("NotFound", menu, <<>>)
     ELSE IF node \in Leaves THEN Outcome("Executed", node, SubSeq(tokens, n + 1, Len(tokens)))
     ELSE IF n > 0 THEN Outcome("NavigatedMenu", node, <<>>)
     ELSE Outcome("NotFound", menu, <<>>)

Children(menu) == {Last(p) : p \in {q \in Nodes : q # <<>> /\ Front(q) = menu}}

\* completions(""): what tab may complete to in a menu.
completions(menu) == Children(menu) \cup {Help, Exit, Up}
=============================================================================
