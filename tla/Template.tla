------------------------------ MODULE Template ------------------------------
(***************************************************************************)
(* asocial_tpl::Template: a source is cut into chunks, the chunks are      *)
(* parsed into nodes once, and the nodes are rendered as often as asked,   *)
(* each time with a context of its own.  The code generator of             *)
(* asocial_protogen writes its sources this way.                           *)
(*                                                                         *)
(* A source is a sequence of delimiters, line ends, tokens and texts; what *)
(* is between "{%" and "%}" is a keyword and tokens.  The parser and the   *)
(* renderer call themselves: the calls in progress are sequences here, one *)
(* frame a call, and a step is one round of the loop of the latest call.   *)
(***************************************************************************)
EXTENDS TemplateData

CONSTANTS
  Written,  \* node lists whose sources are written as they are meant
  Depth,    \* how deep their blocks are nested at most
  Sources,  \* other sources
  Contexts, \* the contexts they are rendered with
  Show(_), ParseExpr(_), Eval(_, _), ToText(_)  \* see TemplateExpr, TemplateEval

VARIABLES
  at,       \* what goes on: "new", "tokenize", "parse", "made", "render", "rendered"
  source,   \* what the template was made of
  meant,    \* the nodes the source was written for, or <<>> (auxiliary)
  pos,      \* tokenize(): what is cut off next
  chunks,   \* tokenize(): what is cut off
  next,     \* TplParser::m_pos
  blocks,   \* the parser's calls: the blocks that are open
  nodes,    \* m_impl->nodes
  error,    \* m_impl->error is set
  frames,   \* the renderer's calls: the nodes that are left of each
  context,  \* Renderer::m_context
  text,     \* what is rendered
  given,    \* the context the latest render was given (auxiliary)
  assigned  \* the names its "set" tags gave values to (auxiliary)

cutVars == <<pos, chunks>>
parseVars == <<next, blocks, error>>
renderVars == <<frames, context, text, given, assigned>>
vars == <<at, source, meant, cutVars, parseVars, nodes, renderVars>>

-----------------------------------------------------------------------------
(* Chunks and nodes *)

Closing == [c \in {"{#", "{{", "{%"} |-> CASE c = "{#" -> "#}" [] c = "{{" -> "}}" [] c = "{%" -> "%}"]
Chunk(type, content) == [type |-> type, content |-> content]
Keyword(c) == IF c.type = "Tag" /\ c.content # <<>> THEN c.content[1] ELSE ""
Rest(c, n) == SubSeq(c.content, n, Len(c.content))

Node(type) ==
  [type |-> type, text |-> <<>>, expr |-> noExpr, name |-> "", branches |-> <<>>, kids |-> <<>>]

-----------------------------------------------------------------------------
(* How nodes are written: blocks are spelled out, to what depth is asked,  *)
(* as their tags and bodies, then each node is a chunk.                    *)

TagNode(content) == [Node("Tag") EXCEPT !.text = content]
ForTag(n) == TagNode(<<"for", n.name, "in">> \o Show(n.expr))
BranchTag(b, cond) == TagNode(<<IF b = 1 THEN "if" ELSE "elif">> \o Show(cond))
SpelledBranches(bs) ==
  FlattenSeq([b \in DOMAIN bs |-> <<BranchTag(b, bs[b].cond)>> \o bs[b].body])
Spelled(n) ==
  IF n.type = "For"
  THEN <<ForTag(n)>> \o n.kids \o <<TagNode(<<"endfor">>)>>
  ELSE IF n.type = "If"
  THEN SpelledBranches(n.branches)
         \o (IF n.kids = <<>> THEN <<>> ELSE <<TagNode(<<"else">>)>> \o n.kids)
         \o <<TagNode(<<"endif">>)>>
  ELSE <<n>>
Spell(ns) == FlattenSeq([i \in DOMAIN ns |-> Spelled(ns[i])])
SpelledOut(ns, depth) ==
  LET out[d \in Nat] == IF d = 0 THEN ns ELSE Spell(out[d - 1])
  IN out[depth]

ChunkOf(n) ==
  CASE n.type = "Text" -> Chunk("Text", n.text)
    [] n.type = "Output" -> Chunk("Expression", Show(n.expr))
    [] n.type = "Set" -> Chunk("Tag", <<"set", n.name, "=">> \o Show(n.expr))
    [] OTHER -> Chunk("Tag", n.text)
ChunksOf(ns) == LET all == SpelledOut(ns, Depth) IN [i \in DOMAIN all |-> ChunkOf(all[i])]
Delimited(c) ==
  CASE c.type = "Text" -> c.content
    [] c.type = "Expression" -> <<"{{">> \o c.content \o <<"}}">>
    [] c.type = "Tag" -> <<"{%">> \o c.content \o <<"%}">>
Write(ns) == LET cs == ChunksOf(ns) IN FlattenSeq([i \in DOMAIN cs |-> Delimited(cs[i])])

-----------------------------------------------------------------------------
(* tokenize() *)

Init ==
  /\ at = "new" /\ source = <<>> /\ meant = <<>>
  /\ pos = 1 /\ chunks = <<>>
  /\ next = 1 /\ blocks = <<>> /\ error = FALSE
  /\ nodes = <<>>
  /\ frames = <<>> /\ context = <<>> /\ text = <<>> /\ given = <<>> /\ assigned = {}

Construct ==
  /\ at = "new" /\ at' = "tokenize"
  /\ \/ \E ns \in Written : source' = Write(ns) /\ meant' = ns
     \/ source' \in Sources /\ meant' = <<>>
  /\ UNCHANGED <<cutVars, parseVars, nodes, renderVars>>

Opening == {i \in pos .. Len(source) : source[i] \in DOMAIN Closing}
ClosingOf(i) == {j \in i + 1 .. Len(source) : source[j] = Closing[source[i]]}
TextChunk(from, to) == IF from > to THEN <<>> ELSE <<Chunk("Text", SubSeq(source, from, to))>>

Cutting == at = "tokenize" /\ pos <= Len(source)
Cut(more, after) ==
  /\ chunks' = chunks \o more /\ pos' = after
  /\ UNCHANGED <<at, source, meant, parseVars, nodes, renderVars>>
CutRest ==
  /\ Cutting /\ Opening = {}
  /\ Cut(TextChunk(pos, Len(source)), Len(source) + 1)
\* What is not closed is text.
CutUnclosed ==
  /\ Cutting /\ Opening # {} /\ ClosingOf(Min(Opening)) = {}
  /\ LET i == Min(Opening)
     IN Cut(TextChunk(pos, i - 1) \o TextChunk(i, Len(source)), Len(source) + 1)
\* Comments are dropped, and the end of the line after a tag.
CutDelimited ==
  /\ Cutting /\ Opening # {} /\ ClosingOf(Min(Opening)) # {}
  /\ LET i == Min(Opening)
         j == Min(ClosingOf(i))
         content == SubSeq(source, i + 1, j - 1)
         chunk == CASE source[i] = "{#" -> <<>>
                    [] source[i] = "{{" -> <<Chunk("Expression", content)>>
                    [] source[i] = "{%" -> <<Chunk("Tag", content)>>
     IN Cut(TextChunk(pos, i - 1) \o chunk, IF source[i] = "{%" /\ At(source, j + 1, "\n") THEN j + 2 ELSE j + 1)

-----------------------------------------------------------------------------
(* TplParser *)

\* A body under way: its part of its node, and what ends it.
Block(part, node, cond) == [part |-> part, node |-> node, cond |-> cond, nodes |-> <<>>]
EndTags ==
  [top |-> {}, branch |-> {"elif", "else", "endif"}, else |-> {"endif"}, loop |-> {"endfor"}]

Tokenized ==
  /\ at = "tokenize" /\ pos > Len(source) /\ at' = "parse"
  /\ blocks' = <<Block("top", Node("Block"), noExpr)>>
  /\ UNCHANGED <<source, meant, cutVars, next, error, nodes, renderVars>>

Inner == blocks[Len(blocks)]
AtEnd == next > Len(chunks)
Current == IF AtEnd THEN "" ELSE Keyword(chunks[next])
Ends == AtEnd \/ Current \in EndTags[Inner.part]
Goes == at = "parse" /\ ~Ends
Stops(part) == at = "parse" /\ Ends /\ Inner.part = part

Parse(after, open) ==
  /\ next' = after /\ blocks' = open
  /\ UNCHANGED <<at, source, meant, cutVars, nodes, renderVars>>
\* A node goes to the end of the block that is open last.
Grown(open, n) == [open EXCEPT ![Len(open)].nodes = Append(@, n)]
Add(n) == Parse(next + 1, Grown(blocks, n))
Enter(part, node, cond) == Parse(next + 1, Append(blocks, Block(part, node, cond)))

ParseText ==
  /\ Goes /\ chunks[next].type = "Text"
  /\ Add([Node("Text") EXCEPT !.text = chunks[next].content])
  /\ UNCHANGED error
ParseOutput ==
  /\ Goes /\ chunks[next].type = "Expression"
  /\ Add([Node("Output") EXCEPT !.expr = ParseExpr(chunks[next].content)])
  /\ UNCHANGED error
parseIf ==
  /\ Goes /\ Current = "if"
  /\ Enter("branch", Node("If"), ParseExpr(Rest(chunks[next], 2)))
  /\ UNCHANGED error
\* " in " is looked for in the trimmed tag: one that ends with it has none.
parseFor ==
  /\ Goes /\ Current = "for"
  /\ LET c == chunks[next]
         node == [Node("For") EXCEPT !.name = c.content[2], !.expr = ParseExpr(Rest(c, 4))]
         iterates == At(c.content, 3, "in") /\ Len(c.content) > 3
     IN \/ iterates /\ Enter("loop", node, noExpr) /\ UNCHANGED error
        \/ ~iterates /\ Add(Node("For")) /\ error' = TRUE
parseSet ==
  /\ Goes /\ Current = "set"
  /\ LET c == chunks[next]
         node == [Node("Set") EXCEPT !.name = c.content[2], !.expr = ParseExpr(Rest(c, 4))]
     IN Add(IF At(c.content, 3, "=") THEN node ELSE Node("Set"))
  /\ UNCHANGED error
\* A tag that opens nothing, or closes what is not open, is dropped.
ParseOther ==
  /\ Goes /\ chunks[next].type = "Tag" /\ Current \notin {"if", "for", "set"}
  /\ Parse(next + 1, blocks)
  /\ UNCHANGED error

\* The node with the body that ended.
With(b) ==
  IF b.part = "branch" THEN [b.node EXCEPT !.branches = Append(@, [cond |-> b.cond, body |-> b.nodes])]
  ELSE [b.node EXCEPT !.kids = b.nodes]
Leave == Grown(Front(blocks), With(Inner))
Turn(part, cond) ==
  /\ Parse(next + 1, [blocks EXCEPT ![Len(blocks)] = Block(part, With(Inner), cond)])
  /\ UNCHANGED error

Elif == Stops("branch") /\ Current = "elif" /\ Turn("branch", ParseExpr(Rest(chunks[next], 2)))
Else == Stops("branch") /\ Current = "else" /\ Turn("else", noExpr)
EndIf ==
  /\ \/ Stops("branch") /\ Current \notin {"elif", "else"}
     \/ Stops("else")
  /\ Parse(IF Current = "endif" THEN next + 1 ELSE next, Leave)
  /\ UNCHANGED error
\* Mutant: the last node of the body goes with a missing "endfor".
MutEndFor ==
  /\ Stops("loop")
  /\ LET closed == ~AtEnd /\ chunks[next].content = <<"endfor">>
         short == [Inner EXCEPT !.nodes = IF closed \/ @ = <<>> THEN @ ELSE Front(@)]
     IN Parse(IF closed THEN next + 1 ELSE next, Grown(Front(blocks), With(short)))
  /\ UNCHANGED error
\* The block ends with its "endfor", or is not closed.
EndFor ==
  /\ Stops("loop")
  /\ Parse(IF ~AtEnd /\ chunks[next].content = <<"endfor">> THEN next + 1 ELSE next, Leave)
  /\ UNCHANGED error

EndParse ==
  /\ Stops("top") /\ at' = "made"
  /\ nodes' = Inner.nodes /\ blocks' = <<>>
  /\ UNCHANGED <<source, meant, cutVars, next, error, renderVars>>

-----------------------------------------------------------------------------
(* Renderer *)

Set(c, name, v) == [n \in DOMAIN c \cup {name} |-> IF n = name THEN v ELSE c[n]]

BlockFrame(ns) ==
  [kind |-> "block", todo |-> ns, node |-> Node("Block"), list |-> <<>>, round |-> 0, var |-> Null, loop |-> Null]
ForFrame(n) ==
  [kind |-> "for", todo |-> <<>>, node |-> n, list |-> Eval(n.expr, context).list, round |-> 0,
   var |-> Lookup(context, n.name), loop |-> Lookup(context, "loop")]

render ==
  /\ at \in {"made", "rendered"} /\ at' = "render"
  /\ given' \in Contexts /\ context' = given'
  /\ frames' = <<BlockFrame(nodes)>> /\ text' = <<>> /\ assigned' = {}
  /\ UNCHANGED <<source, meant, cutVars, parseVars, nodes>>

Latest == frames[Len(frames)]
Rendering == at = "render" /\ UNCHANGED <<at, source, meant, cutVars, parseVars, nodes, given>>
Upcoming == Latest.todo[1]
Onwards == [frames EXCEPT ![Len(frames)].todo = Tail(@)]

renderNode(type) == Rendering /\ Latest.todo # <<>> /\ Upcoming.type = type
RenderText ==
  /\ renderNode("Text") /\ frames' = Onwards
  /\ text' = text \o Upcoming.text
  /\ UNCHANGED <<context, assigned>>
RenderOutput ==
  /\ renderNode("Output") /\ frames' = Onwards
  /\ text' = text \o ToText(Eval(Upcoming.expr, context))
  /\ UNCHANGED <<context, assigned>>
RenderSet ==
  /\ renderNode("Set") /\ frames' = Onwards
  /\ context' = Set(context, Upcoming.name, Eval(Upcoming.expr, context))
  /\ assigned' = assigned \cup {Upcoming.name}
  /\ UNCHANGED text

Taken(n) ==
  LET true == {b \in DOMAIN n.branches : isTruthy(Eval(n.branches[b].cond, context))}
  IN IF true = {} THEN n.kids ELSE n.branches[Min(true)].body
renderIf ==
  /\ renderNode("If")
  /\ frames' = Append(Onwards, BlockFrame(Taken(Upcoming)))
  /\ UNCHANGED <<context, text, assigned>>
\* A value that is not a list gives no rounds.
renderFor ==
  /\ renderNode("For")
  /\ frames' = Append(Onwards, ForFrame(Upcoming))
  /\ UNCHANGED <<context, text, assigned>>

loopVar(i, n) ==
  MapOf([index |-> Number(i), index0 |-> Number(i - 1), first |-> Bool(i = 1), last |-> Bool(i = n),
         length |-> Number(n)])
NextRound ==
  /\ Rendering /\ Latest.kind = "for" /\ Latest.todo = <<>> /\ Latest.round < Len(Latest.list)
  /\ LET i == Latest.round + 1
     IN /\ context' = Set(Set(context, Latest.node.name, Latest.list[i]), "loop", loopVar(i, Len(Latest.list)))
        /\ frames' = [frames EXCEPT ![Len(frames)].round = i, ![Len(frames)].todo = Latest.node.kids]
  /\ UNCHANGED <<text, assigned>>
\* Mutant: the outer loop's "loop" lost.
MutEndRounds ==
  /\ Rendering /\ Latest.kind = "for" /\ Latest.todo = <<>> /\ Latest.round = Len(Latest.list)
  /\ context' = Set(Set(context, Latest.node.name, Latest.var), "loop", Null)
  /\ frames' = Front(frames)
  /\ UNCHANGED <<text, assigned>>
\* Names the loop found without a value are removed again.
EndRounds ==
  /\ Rendering /\ Latest.kind = "for" /\ Latest.todo = <<>> /\ Latest.round = Len(Latest.list)
  /\ context' = Set(Set(context, Latest.node.name, Latest.var), "loop", Latest.loop)
  /\ frames' = Front(frames)
  /\ UNCHANGED <<text, assigned>>

EndBlock ==
  /\ at = "render" /\ Latest.kind = "block" /\ Latest.todo = <<>>
  /\ at' = IF Len(frames) = 1 THEN "rendered" ELSE "render"
  /\ frames' = Front(frames)
  /\ UNCHANGED <<source, meant, cutVars, parseVars, nodes, context, text, given, assigned>>

-----------------------------------------------------------------------------

Cuts == CutRest \/ CutUnclosed \/ CutDelimited \/ Tokenized
Parses ==
  \/ ParseText \/ ParseOutput \/ parseIf \/ parseFor \/ parseSet \/ ParseOther
  \/ Elif \/ Else \/ EndIf \/ EndFor \/ EndParse
Renders ==
  \/ render \/ RenderText \/ RenderOutput \/ RenderSet \/ renderIf \/ renderFor
  \/ NextRound \/ EndRounds \/ EndBlock
Next == Construct \/ Cuts \/ Parses \/ Renders
Spec == Init /\ [][Next]_vars

-----------------------------------------------------------------------------
(* Properties *)

Made == at \in {"made", "render", "rendered"}

\* What is written with no more parentheses, tags and blanks than the syntax
\* asks for is parsed as it was meant: precedences, associativity, filters
\* and their arguments, nested blocks, elif and else.
ParsedAsWritten == Made /\ meant # <<>> => nodes = meant /\ ~error

\* Whatever is wrong with the tags of a template, no text of it is lost,
\* doubled or moved: the texts of the nodes, spelled out with all their
\* blocks, are those of the chunks, in order.
TextIn(s) == FlattenSeq([i \in DOMAIN s |-> IF s[i].type = "Text" THEN s[i].text ELSE <<>>])
TextOf(cs) == FlattenSeq([i \in DOMAIN cs |-> IF cs[i].type = "Text" THEN cs[i].content ELSE <<>>])
TextKept == Made => TextIn(SpelledOut(nodes, Len(chunks))) = TextOf(chunks)

\* Loops leave no trace: after a render the context differs from the one
\* given only in names that were set; loop variables and "loop", shadowed or
\* nested, are as they were.
LoopsLeaveNoTrace ==
  at = "rendered" =>
    \A name \in (DOMAIN context \cup DOMAIN given) \ assigned : Lookup(context, name) = Lookup(given, name)

\* Names survive the change of case the generated code puts them through:
\* a name in Pascal case is itself again after snake_case and pascal_case.
NameExpr == makeFilter(makeFilter(makeVar("n"), "snake_case", <<>>), "pascal_case", <<>>)
NameTemplate == <<[Node("Output") EXCEPT !.expr = NameExpr]>>
NamesComeBack == at = "rendered" /\ nodes = NameTemplate => text = ToText(Lookup(given, "n"))

\* Sources are sequences of strings.
ASSUME SourceAssumption ==
  Sources \subseteq Seq(STRING) /\ \A ns \in Written : Write(ns) \in Seq(STRING)

\* The names of contexts are in Pascal case, and filters are applied from the
\* inside.
InPascalCase(s) ==
  s \in Seq(STRING) /\ (\A i \in DOMAIN s : ~IsGap(s[i])) /\ (s # <<>> => s[1] \notin DOMAIN Letters)
ASSUME NameAssumption ==
  \A c \in Contexts :
    LET name == ToText(Lookup(c, "n"))
    IN InPascalCase(name) /\ ToText(Eval(NameExpr, c)) = pascal_case(snake_case(name))

=============================================================================
