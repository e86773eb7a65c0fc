---------------------------- MODULE TemplateExpr ----------------------------
(***************************************************************************)
(* Expressions of asocial_tpl: the recursive-descent parser (ExprParser).  *)
(*                                                                         *)
(* A source is a sequence of tokens, strings; a blank separates words and  *)
(* operators, none a sign and its number.                                  *)
(***************************************************************************)
EXTENDS TemplateData, TLC

Numbers == 0..9
Numerals == {ToString(n) : n \in Numbers}
Negatives == {"-" \o s : s \in Numerals}
Punctuation == {"==", "!=", "<=", ">=", "<", ">", "+", "-", "*", "//", "%", "|", "(", ")", "[", "]", ",", ".", "="}
Quotes == {"'u'", "'v_w'"}  \* string literals, one token each
IsIdentifier(t) == t \notin Punctuation \cup Quotes
IsName(t) == IsIdentifier(t) /\ t \notin Numerals

-----------------------------------------------------------------------------
(* ExprParser: each parses from a token on and gives the tree and the      *)
(* token after it.                                                         *)

Parsed(tree, next) == [tree |-> tree, next |-> next]
Skip(s, i, t) == IF At(s, i, t) THEN i + 1 ELSE i

RECURSIVE parse(_, _), parseNot(_, _), parsePrimary(_, _), Dots(_, _), Filters(_, _)
RECURSIVE LeftOf(_, _, _), parseLevel(_, _, _), List(_, _, _)

\* The levels of operators that associate to the left, loosest first.
Levels == <<{"or"}, {"and"}, {"+", "-"}, {"*", "//", "%"}>>
Comparisons == {"==", "!=", "<=", ">=", "<", ">"}

parseFilter(s, i) == Filters(s, parsePrimary(s, i))
Filters(s, p) ==
  IF ~At(s, p.next, "|") THEN p
  ELSE LET named == p.next + 1 <= Len(s) /\ IsIdentifier(s[p.next + 1])
           name == IF named THEN s[p.next + 1] ELSE ""
           i == p.next + (IF named THEN 2 ELSE 1)
           args == IF At(s, i, "(") THEN List(s, i + 1, ")") ELSE Parsed(<<>>, i)
       IN Filters(s, Parsed(makeFilter(p.tree, name, args.tree), args.next))

\* Arguments or elements up to the closing token, which may be missing.
List(s, i, close) ==
  IF At(s, i, close) THEN Parsed(<<>>, i + 1)
  ELSE LET first == parse(s, i)
           more(acc) == At(s, acc.next, ",")
           rest[n \in Nat] ==
             IF n = 0 THEN Parsed(<<first.tree>>, first.next)
             ELSE LET acc == rest[n - 1]
                  IN IF ~more(acc) THEN acc
                     ELSE LET p == parse(s, acc.next + 1) IN Parsed(Append(acc.tree, p.tree), p.next)
           all == rest[Len(s)]
       IN Parsed(all.tree, Skip(s, all.next, close))

Operand(s, i, level) ==
  IF level = 2 THEN parseNot(s, i)
  ELSE IF level = 4 THEN parseFilter(s, i) ELSE parseLevel(s, i, level + 1)
parseLevel(s, i, level) == LeftOf(s, Operand(s, i, level), level)
\* Mutant: the operators of a level associate to the right.
MutLeftOf(s, left, level) ==
  IF left.next <= Len(s) /\ s[left.next] \in Levels[level]
  THEN LET right == parseLevel(s, left.next + 1, level)
       IN Parsed(makeBinOp(s[left.next], left.tree, right.tree), right.next)
  ELSE left
LeftOf(s, left, level) ==
  IF left.next <= Len(s) /\ s[left.next] \in Levels[level]
  THEN LET right == Operand(s, left.next + 1, level)
       IN LeftOf(s, Parsed(makeBinOp(s[left.next], left.tree, right.tree), right.next), level)
  ELSE left

parseComparison(s, i) ==
  LET left == parseLevel(s, i, 3)
      j == left.next
      Right(k) == parseLevel(s, k, 3)
  IN IF j <= Len(s) /\ s[j] \in Comparisons
     THEN Parsed(makeBinOp(s[j], left.tree, Right(j + 1).tree), Right(j + 1).next)
     ELSE IF At(s, j, "not") /\ At(s, j + 1, "in")
     THEN Parsed(makeUnaryNot(makeBinOp("in", left.tree, Right(j + 2).tree)), Right(j + 2).next)
     ELSE IF At(s, j, "in")
     THEN Parsed(makeBinOp("in", left.tree, Right(j + 1).tree), Right(j + 1).next)
     ELSE left
parseNot(s, i) ==
  IF At(s, i, "not") THEN LET p == parseNot(s, i + 1) IN Parsed(makeUnaryNot(p.tree), p.next)
  ELSE parseComparison(s, i)
parse(s, i) == parseLevel(s, i, 1)

Dots(s, p) ==
  IF ~At(s, p.next, ".") THEN p
  ELSE IF p.next + 1 <= Len(s) /\ IsIdentifier(s[p.next + 1])
  THEN Dots(s, Parsed(makeDot(p.tree, s[p.next + 1]), p.next + 2))
  ELSE Dots(s, Parsed(p.tree, p.next + 1))
\* What cannot begin an operand is skipped, and stands for nothing.
parsePrimary(s, i) ==
  IF i > Len(s) THEN Parsed(makeLiteral("none"), i)
  ELSE IF s[i] = "(" THEN LET p == parse(s, i + 1) IN Parsed(p.tree, Skip(s, p.next, ")"))
  ELSE IF s[i] = "[" THEN LET p == List(s, i + 1, "]") IN Parsed(Tree("list", "", p.tree), p.next)
  ELSE IF s[i] = "-" /\ i < Len(s) /\ s[i + 1] \in Numerals
  THEN Parsed(makeLiteral("-" \o s[i + 1]), i + 2)
  ELSE IF s[i] \in Numerals \cup Quotes \cup {"true", "false", "none"}
  THEN Parsed(makeLiteral(s[i]), i + 1)
  ELSE IF IsName(s[i]) THEN Dots(s, Parsed(makeVar(s[i]), i + 1))
  ELSE Parsed(makeLiteral("none"), i + 1)

parseExpr(s) == parse(s, 1).tree

-----------------------------------------------------------------------------
(* The reference: how a tree is written with no more parentheses than the  *)
(* precedences need, 1 for "or" to 8 for operands.                         *)

Binds(t) ==
  CASE t.type = "binop" /\ t.name = "or" -> 1
    [] t.type = "binop" /\ t.name = "and" -> 2
    [] t.type = "not" -> 3
    [] t.type = "binop" /\ t.name \in Comparisons \cup {"in"} -> 4
    [] t.type = "binop" /\ t.name \in {"+", "-"} -> 5
    [] t.type = "binop" -> 6
    [] t.type = "filter" -> 7
    [] OTHER -> 8

RECURSIVE Shown(_, _)
Commas(kids) ==
  FlattenSeq([i \in DOMAIN kids |-> (IF i = 1 THEN <<>> ELSE <<",">>) \o Shown(kids[i], 1)])
Shown(t, least) ==
  LET b == Binds(t)
      shown ==
        CASE t.type = "binop" -> Shown(t.kids[1], IF b = 4 THEN 5 ELSE b) \o <<t.name>> \o Shown(t.kids[2], b + 1)
          [] t.type = "not" -> <<"not">> \o Shown(t.kids[1], 3)
          [] t.type = "filter" -> Shown(t.kids[1], 7) \o <<"|", t.name>>
               \o (IF Len(t.kids) = 1 THEN <<>> ELSE <<"(">> \o Commas(Tail(t.kids)) \o <<")">>)
          [] t.type = "dot" -> Shown(t.kids[1], 8) \o <<".", t.name>>
          [] t.type = "list" -> <<"[">> \o Commas(t.kids) \o <<"]">>
          [] t.name \in Negatives -> <<"-", CHOOSE s \in Numerals : "-" \o s = t.name>>
          [] OTHER -> <<t.name>>
  IN IF b < least THEN <<"(">> \o shown \o <<")">> ELSE shown
=============================================================================
