---------------------------- MODULE MCConsoleInput ----------------------------
(* An instance of ConsoleInput: a menu with two commands and a menu in it. *)
EXTENDS ConsoleInput

P == <<"o", "r">>
Open == <<"o", "p", "a">>
Import == <<"o", "p", "b">>
MCMenus == {<<>>, <<P>>}
MCLeaves == {<<P, Open>>, <<P, Import>>}
MCAsks == (<<P, Open>> :> <<"password">>) @@ (<<P, Import>> :> <<"text", "password">>)

MCEncode ==
  [Up |-> <<"ESC", "[", "A">>, Down |-> <<"ESC", "[", "B">>, Right |-> <<"ESC", "[", "C">>,
   Left |-> <<"ESC", "[", "D">>, Home |-> <<"ESC", "O", "H">>, End |-> <<"ENQ">>,
   Delete |-> <<"ESC", "[", "3", "~">>, F5 |-> <<"ESC", "[", "1", "5", "~">>,
   Escape |-> <<"ESC">>, two |-> <<"lead1", "more">>,
   Enter |-> <<"CR">>, Backspace |-> <<"DEL">>, Tab |-> <<"HT">>, CtrlC |-> <<"ETX">>,
   CtrlD |-> <<"EOT">>, CtrlL |-> <<"FF">>]
MCKeys == {"Up", "Down", "Left", "Home", "End", "Delete", "F5", "o",
           "Enter", "Backspace", "Tab", "CtrlC", "CtrlD", "CtrlL"}
MCUntidy == {"F5"}
MCRare == {"F5", "CtrlL", "Delete"}
MCLines ==
  {[words |-> <<P, Import>>, style |-> "escape"],
   [words |-> <<Import, <<" ", "\\">> >>, style |-> "escape"],
   [words |-> <<P, Import, <<"o", " ">> >>, style |-> "escape"],
   [words |-> <<P, Open, <<"\\", " ", "two">> >>, style |-> "single"],
   [words |-> <<Open, <<"\"", "'", " ">> >>, style |-> "double"]}
===============================================================================
