---------------------------- MODULE TemplateData ----------------------------
(***************************************************************************)
(* What asocial_tpl's parser and renderer pass on: trees of expressions,   *)
(* values, and the case of names.                                          *)
(*                                                                         *)
(* A tree is [type, name, kids].  A value is [type, int, str, list, map]   *)
(* with the fields that are not its type's left empty; a text is a         *)
(* sequence of characters, and a number is one character of it.  Numbers   *)
(* are integers: "/" and decimal points are left out.                      *)
(***************************************************************************)
EXTENDS Integers, Sequences, FiniteSets, SequencesExt

-----------------------------------------------------------------------------
(* Trees *)

Tree(type, name, kids) == [type |-> type, name |-> name, kids |-> kids]
makeLiteral(v) == Tree("literal", v, <<>>)
makeVar(name) == Tree("variable", name, <<>>)
makeDot(obj, field) == Tree("dot", field, <<obj>>)
makeFilter(input, name, args) == Tree("filter", name, <<input>> \o args)
makeBinOp(op, l, r) == Tree("binop", op, <<l, r>>)
makeUnaryNot(operand) == Tree("not", "not", <<operand>>)

noExpr == Tree("nil", "", <<>>)

-----------------------------------------------------------------------------
(* Values and texts *)

At(s, i, t) == i <= Len(s) /\ s[i] = t

Value(type) == [type |-> type, int |-> 0, str |-> <<>>, list |-> <<>>, map |-> <<>>]
Null == Value("null")
Bool(b) == [Value("bool") EXCEPT !.int = IF b THEN 1 ELSE 0]
Number(n) == [Value("int") EXCEPT !.int = n]
Str(s) == [Value("str") EXCEPT !.str = s]
ListOf(l) == [Value("list") EXCEPT !.list = l]
MapOf(m) == [Value("map") EXCEPT !.map = m]

Letters == [u |-> "U", v |-> "V", w |-> "W"]
IsUpper(c) == \E l \in DOMAIN Letters : Letters[l] = c
toUpper(c) == IF c \in DOMAIN Letters THEN Letters[c] ELSE c
toLower(c) == IF IsUpper(c) THEN CHOOSE l \in DOMAIN Letters : Letters[l] = c ELSE c

isTruthy(v) ==
  CASE v.type = "null" -> FALSE
    [] v.type \in {"bool", "int"} -> v.int # 0
    [] v.type = "str" -> v.str # <<>>
    [] v.type = "list" -> v.list # <<>>
    [] v.type = "map" -> DOMAIN v.map # {}

\* A context gives every name a value, Null where it has none.
Lookup(m, name) == IF name \in DOMAIN m THEN m[name] ELSE Null

-----------------------------------------------------------------------------
(* The case of names *)

\* Mutant: no underscore before the second letter.
Mutsnake_case(s) ==
  FlattenSeq([i \in DOMAIN s |->
    IF IsUpper(s[i]) THEN (IF i > 2 THEN <<"_">> ELSE <<>>) \o <<toLower(s[i])>> ELSE <<s[i]>>])
snake_case(s) ==
  FlattenSeq([i \in DOMAIN s |->
    IF IsUpper(s[i]) THEN (IF i > 1 THEN <<"_">> ELSE <<>>) \o <<toLower(s[i])>> ELSE <<s[i]>>])

\* A name falls into parts between underscores; empty ones are skipped.
IsGap(c) == c = "_"
StartsPart(s, i) == i = 1 \/ IsGap(s[i - 1])
pascal_case(s) ==
  FlattenSeq([i \in DOMAIN s |->
    IF IsGap(s[i]) THEN <<>> ELSE <<IF StartsPart(s, i) THEN toUpper(s[i]) ELSE toLower(s[i])>>])
camel_case(s) ==
  LET starts(i) == StartsPart(s, i) /\ \E j \in 1 .. i - 1 : ~IsGap(s[j])
  IN IF \A i \in DOMAIN s : IsGap(s[i]) THEN s
     ELSE FlattenSeq([i \in DOMAIN s |->
            IF IsGap(s[i]) THEN <<>> ELSE <<IF starts(i) THEN toUpper(s[i]) ELSE toLower(s[i])>>])
=============================================================================
