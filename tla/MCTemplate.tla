----------------------------- MODULE MCTemplate -----------------------------
(* Instances of Template: every expression two operators deep, blocks two  *)
(* deep, every sequence of up to three pieces and, of what opens and       *)
(* closes blocks, of four, whatever their order.                           *)
EXTENDS Template, TemplateEval

MCShow(t) == Shown(t, 1)

Operands == {makeVar("x"), makeLiteral("1")}
Binary(S, T) ==
  {makeBinOp(op, s, t) : op \in {"or", "and", "==", "in", "<", "+", "-", "*", "//"}, s \in S, t \in T}
Others(S) ==
  {makeUnaryNot(t) : t \in S} \cup {makeFilter(t, f, <<>>) : t \in S, f \in {"upper", "first"}}
Depth1 ==
  Operands \cup Binary(Operands, Operands) \cup Others(Operands)
    \cup {makeLiteral("-1"), makeLiteral("'v_w'"), makeDot(makeDot(makeVar("loop"), "x"), "last"),
          makeFilter(makeVar("x"), "default", <<makeLiteral("1")>>),
          Tree("list", "", <<makeLiteral("2"), makeVar("x")>>)}
Exprs ==
  Depth1 \cup Binary(Depth1, Depth1) \cup Others(Depth1)
    \cup {makeFilter(s, f, <<t>>) : s \in Depth1, t \in Depth1, f \in {"join"}}
    \cup {makeFilter(makeVar("l"), f, <<>>) : f \in {"sort", "reverse", "last", "length", "other"}}
    \cup {makeFilter(makeLiteral("'v_w'"), f, <<>>) :
            f \in {"lower", "capitalize", "title", "trim", "camel_case", "count", "last"}}
    \cup {makeFilter(makeLiteral("'v_w'"), "replace", <<makeLiteral("'u'"), makeVar("n")>>)}

TextNode == [Node("Text") EXCEPT !.text = <<"a">>]
Output(t) == [Node("Output") EXCEPT !.expr = t]
SetNode == [Node("Set") EXCEPT !.name = "y", !.expr = makeVar("x")]
Bodies == {<<TextNode>>, <<SetNode>>, <<TextNode, Output(makeVar("y"))>>, <<Output(makeVar("loop"))>>}
For(name, body) == [Node("For") EXCEPT !.name = name, !.expr = makeVar("l"), !.kids = body]
If(bodies, els) ==
  [Node("If") EXCEPT !.kids = els,
     !.branches = [i \in DOMAIN bodies |-> [cond |-> makeVar(IF i = 1 THEN "y" ELSE "x"), body |-> bodies[i]]]]
Blocks ==
  {For(name, b) : name \in {"x", "y"}, b \in Bodies}
    \cup {If(<<b>>, els) : b \in Bodies, els \in Bodies \cup {<<>>}}
    \cup {If(<<b, c>>, <<TextNode>>) : b \in Bodies, c \in Bodies}
Nested ==
  {For(name, <<b, TextNode>>) : name \in {"x", "loop"}, b \in Blocks}
    \cup {If(<< <<b>> >>, <<c>>) : b \in Blocks, c \in Blocks}
MCWritten ==
  {<<Output(t)>> : t \in Exprs} \cup {<<b, SetNode>> : b \in Blocks \cup Nested} \cup {NameTemplate}

Pieces ==
  {<<"a">>, <<"{{", "x", "}}">>, <<"{#", "x", "#}">>, <<"{%", "if", "x", "%}", "\n">>, <<"{%", "elif", "y", "%}">>,
   <<"{%", "else", "%}">>, <<"{%", "endif", "%}">>, <<"{%", "for", "x", "in", "l", "%}">>, <<"{%", "for", "x", "%}">>,
   <<"{%", "for", "x", "in", "%}">>, <<"{%", "endfor", "%}">>, <<"{%", "endfor", "x", "%}">>, <<"{%", "set", "y", "%}">>, <<"{%">>}
Openers == {p \in Pieces : p \in {<<"a">>, <<"{%", "if", "x", "%}", "\n">>} \/ Len(p) = 6}
Closers == {p \in Pieces : Len(p) = 3 /\ p[2] \in {"else", "endif", "endfor"}}
MCSources ==
  {FlattenSeq(ps) : ps \in UNION {[1..n -> Pieces] : n \in 1..3} \cup [1..4 -> Openers \cup Closers]}

MCContexts ==
  {[x |-> Null, y |-> Number(1), n |-> Str(<<"U", "v", "W">>), l |-> ListOf(<<Str(<<"u">>), Number(2), Bool(TRUE)>>)],
   [x |-> Str(<<"V">>), loop |-> Number(3), n |-> Str(<<"U", "V", "w", "W">>), l |-> ListOf(<<Null>>)],
   [x |-> ListOf(<<Number(1)>>), y |-> Null, n |-> Str(<<"V">>), l |-> Number(0)]}
=============================================================================
