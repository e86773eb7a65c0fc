------------------------------ MODULE Terminal ------------------------------
(***************************************************************************)
(* ui-console's Terminal: how readKey() makes keys out of bytes, and what  *)
(* its output calls do to the line of the screen the cursor is on.         *)
(*                                                                         *)
(* A character is a string; a byte is the character it stands for or one   *)
(* of the names below.  Lines are shorter than the terminal is wide.       *)
(***************************************************************************)
EXTENDS Sequences, Integers, FiniteSets

ESC == "ESC"
Digits == {"1", "3", "5"}
\* Lead bytes of UTF-8, by the bytes that follow them, and those bytes.
LeadBytes == [lead1 |-> 1, lead2 |-> 2, lead3 |-> 3]
\* What the bytes of a character beyond ASCII make; QString keeps UTF-16
\* units, and str.at(0) is half of a character of four bytes.
Utf8 == [lead1 |-> "two", lead2 |-> "three", lead3 |-> "half"]

Controls ==
  [CR |-> "Enter", DEL |-> "Backspace", HT |-> "Tab", ETX |-> "CtrlC", EOT |-> "CtrlD",
   SOH |-> "Home", ENQ |-> "End", FF |-> "Unknown"]
Csi == [A |-> "Up", B |-> "Down", C |-> "Right", D |-> "Left", H |-> "Home", F |-> "End"]
Ss3 == [H |-> "Home", F |-> "End"]

Key(k) == [key |-> k, ch |-> ""]
Char(c) == [key |-> "Char", ch |-> c]

\* Mutant: the final ~ of an extended sequence not consumed.
MutReadsOn(seq) ==
  \/ seq \in {<<>>, <<ESC>>, <<ESC, "[">>, <<ESC, "O">>}
  \/ Len(seq) > 0 /\ seq[1] \in DOMAIN LeadBytes /\ Len(seq) <= LeadBytes[seq[1]]

\* readKey() reads on: another byte belongs to the bytes read so far.
ReadsOn(seq) ==
  \/ seq \in {<<>>, <<ESC>>, <<ESC, "[">>, <<ESC, "O">>}
  \/ Len(seq) = 3 /\ seq[1] = ESC /\ seq[2] = "[" /\ seq[3] \in Digits
  \/ Len(seq) > 0 /\ seq[1] \in DOMAIN LeadBytes /\ Len(seq) <= LeadBytes[seq[1]]
\* It waits for that byte 80 ms at most.
Waits(seq) == ReadsOn(seq) /\ seq # <<>> /\ seq[1] = ESC

Named(table, c) == IF c \in DOMAIN table THEN Key(table[c]) ELSE Key("Escape")

\* The key that the bytes read make.
readKey(seq) ==
  LET c == seq[1] n == Len(seq)
  IN IF c = ESC
     THEN IF n < 3 THEN Key("Escape")
          ELSE IF seq[2] = "O" THEN Named(Ss3, seq[3])
          ELSE IF seq[3] \in Digits THEN Key(IF seq[3] = "3" THEN "Delete" ELSE "Unknown")
          ELSE Named(Csi, seq[3])
     ELSE IF c \in DOMAIN Controls THEN Key(Controls[c])
     ELSE IF c \in DOMAIN Utf8 THEN Char(Utf8[c])
     ELSE Char(c)

-----------------------------------------------------------------------------
(* The screen: the line the cursor is on, the cursor's column from 0, and  *)
(* the line that scrolled up last.                                         *)

Fresh == [line |-> <<>>, col |-> 0, above |-> <<>>]

write(s, text) ==
  LET n == Len(text)
      cell(i) == IF i \in s.col + 1 .. s.col + n THEN text[i - s.col]
                 ELSE IF i <= Len(s.line) THEN s.line[i] ELSE " "
      end == IF Len(s.line) > s.col + n THEN Len(s.line) ELSE s.col + n
  IN [s EXCEPT !.line = [i \in 1..end |-> cell(i)], !.col = @ + n]
writeLine(s, text) == [line |-> <<>>, col |-> 0, above |-> write(s, text).line]
clearLine(s) == [s EXCEPT !.line = <<>>, !.col = 0]
clearToEnd(s) ==
  [s EXCEPT !.line = SubSeq(@, 1, IF s.col < Len(@) THEN s.col ELSE Len(@))]
clearScreen(s) == Fresh
moveCursorForward(s, n) == [s EXCEPT !.col = @ + n]
moveCursorBack(s, n) == [s EXCEPT !.col = IF n < @ THEN @ - n ELSE 0]
=============================================================================
