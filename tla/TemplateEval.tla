---------------------------- MODULE TemplateEval ----------------------------
(***************************************************************************)
(* Values of asocial_tpl's renderer, operators and filters.                *)
(***************************************************************************)
EXTENDS TemplateExpr

\* The order of characters that sort compares texts by.
Rank(c) == CASE c \in Numerals -> 0 [] IsUpper(c) -> 1 [] c = "_" -> 2 [] OTHER -> 3

RECURSIVE variantToString(_), Joined(_, _)
Joined(parts, sep) ==
  FlattenSeq([i \in DOMAIN parts |-> (IF i = 1 THEN <<>> ELSE sep) \o parts[i]])
variantToString(v) ==
  CASE v.type = "bool" -> <<IF v.int = 1 THEN "true" ELSE "false">>
    [] v.type = "int" -> <<ToString(v.int)>>
    [] v.type = "str" -> v.str
    [] v.type = "list" ->
         <<"[">> \o Joined([i \in DOMAIN v.list |-> variantToString(v.list[i])], <<", ">>) \o <<"]">>
    [] OTHER -> <<>>
\* QVariant::toString(), which knows no lists, and toDouble().
toString(v) == IF v.type = "list" THEN <<>> ELSE variantToString(v)
toNumber(v) ==
  IF v.type \in {"int", "bool"} THEN v.int
  ELSE IF v.type = "str" /\ Len(v.str) = 1 /\ v.str[1] \in Numerals
  THEN CHOOSE n \in Numbers : ToString(n) = v.str[1] ELSE 0

-----------------------------------------------------------------------------
\* C++ rounds towards zero, and a division by zero gives 0 here.
Abs(n) == IF n < 0 THEN -n ELSE n
Quotient(a, b) ==
  IF b = 0 THEN 0 ELSE LET q == Abs(a) \div Abs(b) IN IF (a < 0) = (b < 0) THEN q ELSE -q
Remainder(a, b) == IF b = 0 THEN 0 ELSE a - b * Quotient(a, b)
\* QVariant::operator==, by which a truth value equals the number it stands for.
Equal(l, r) == IF {l.type, r.type} \subseteq {"bool", "int"} THEN l.int = r.int ELSE l = r
Same(l, r) == Equal(l, r) \/ toString(l) = toString(r)

Applied(op, l, r) ==
  LET a == toNumber(l) b == toNumber(r)
  IN CASE op = "in" /\ r.type = "list" -> Bool(\E i \in DOMAIN r.list : Equal(r.list[i], l))
       [] op = "in" /\ r.type = "str" -> Bool(\E i, j \in 0..Len(r.str) : SubSeq(r.str, i + 1, j) = toString(l))
       [] op = "in" /\ r.type \notin {"list", "str"} -> Bool(FALSE)
       [] op = "+" /\ "str" \in {l.type, r.type} -> Str(toString(l) \o toString(r))
       [] op = "+" /\ "str" \notin {l.type, r.type} -> Number(a + b)
       [] op = "-" -> Number(a - b)
       [] op = "*" -> Number(a * b)
       [] op = "//" -> Number(Quotient(a, b))
       [] op = "%" -> Number(Remainder(a, b))
       [] op = "==" -> Bool(Same(l, r))
       [] op = "!=" -> Bool(~Same(l, r))
       [] op = "<" -> Bool(a < b)
       [] op = ">" -> Bool(a > b)
       [] op = "<=" -> Bool(a <= b)
       [] op = ">=" -> Bool(a >= b)
       [] OTHER -> Null

-----------------------------------------------------------------------------
(* Filters *)

Upper(s) == [i \in DOMAIN s |-> toUpper(s[i])]
Lower(s) == [i \in DOMAIN s |-> toLower(s[i])]
Capitalized(s) == IF s = <<>> THEN s ELSE <<toUpper(s[1])>> \o Tail(s)
Titled(s) == [i \in DOMAIN s |-> IF i = 1 \/ s[i - 1] = " " THEN toUpper(s[i]) ELSE s[i]]
TrimmedText(s) ==
  LET solid == {i \in DOMAIN s : s[i] # " "}
  IN IF solid = {} THEN <<>> ELSE SubSeq(s, Min(solid), Max(solid))

Before(a, b) ==
  LET s == toString(a) t == toString(b)
      diff == {i \in DOMAIN s \cap DOMAIN t : s[i] # t[i]}
  IN IF diff = {} THEN Len(s) < Len(t) ELSE Rank(s[Min(diff)]) < Rank(t[Min(diff)])

\* Filters that take the text of their input, and filters that take lists.
Texts == {"upper", "lower", "capitalize", "title", "trim", "snake_case", "camel_case", "pascal_case"}
TextFilter(name, s) ==
  CASE name = "upper" -> Upper(s) [] name = "lower" -> Lower(s)
    [] name = "capitalize" -> Capitalized(s) [] name = "title" -> Titled(s)
    [] name = "trim" -> TrimmedText(s) [] name = "snake_case" -> snake_case(s)
    [] name = "camel_case" -> camel_case(s) [] name = "pascal_case" -> pascal_case(s)
applyFilter(v, name, args) ==
  LET s == variantToString(v)
      islist == v.type = "list"
      n == Len(v.list)
      arg(i) == IF i <= Len(args) THEN args[i] ELSE Null
  IN CASE name \in Texts -> Str(TextFilter(name, s))
       [] name \in {"length", "count"} -> Number(IF islist THEN n ELSE Len(s))
       [] name = "default" -> IF s = <<>> THEN arg(1) ELSE v
       [] name = "join" ->
            Str(IF islist THEN Joined([i \in 1..n |-> variantToString(v.list[i])], toString(arg(1))) ELSE s)
       [] name = "replace" -> Str(ReplaceAllSubSeqs(toString(arg(2)), toString(arg(1)), s))
       [] name \in {"first", "last"} /\ ~islist ->
            Str(IF s = <<>> THEN s ELSE <<IF name = "first" THEN Head(s) ELSE Last(s)>>)
       [] name = "first" /\ islist -> IF n = 0 THEN Null ELSE v.list[1]
       [] name = "last" /\ islist -> IF n = 0 THEN Null ELSE v.list[n]
       [] name = "sort" /\ islist -> ListOf(SortSeq(v.list, Before))
       [] name = "reverse" /\ islist -> ListOf(Reverse(v.list))
       [] OTHER -> v

-----------------------------------------------------------------------------
(* evalExpr *)

LiteralOf(t) ==
  CASE t \in {"true", "false"} -> Bool(t = "true")
    [] t \in Numerals -> Number(CHOOSE n \in Numbers : ToString(n) = t)
    [] t \in Negatives -> Number(-(CHOOSE n \in Numbers : "-" \o ToString(n) = t))
    [] t = "'u'" -> Str(<<"u">>)
    [] t = "'v_w'" -> Str(<<"v", "_", "w">>)
    [] t = "none" -> Null

RECURSIVE evalExpr(_, _)
evalExpr(t, context) ==
  LET kid(i) == evalExpr(t.kids[i], context)
  IN CASE t.type = "literal" -> LiteralOf(t.name)
       [] t.type = "variable" -> Lookup(context, t.name)
       [] t.type = "dot" -> IF kid(1).type = "map" THEN Lookup(kid(1).map, t.name) ELSE Null
       [] t.type = "filter" -> applyFilter(kid(1), t.name, [i \in 1 .. Len(t.kids) - 1 |-> kid(i + 1)])
       [] t.type = "binop" /\ t.name = "and" -> Bool(isTruthy(kid(1)) /\ isTruthy(kid(2)))
       [] t.type = "binop" /\ t.name = "or" -> Bool(isTruthy(kid(1)) \/ isTruthy(kid(2)))
       [] t.type = "binop" /\ t.name \notin {"and", "or"} -> Applied(t.name, kid(1), kid(2))
       [] t.type = "not" -> Bool(~isTruthy(kid(1)))
       [] t.type = "list" -> ListOf([i \in DOMAIN t.kids |-> kid(i)])
       [] t.type = "nil" -> Null
=============================================================================
