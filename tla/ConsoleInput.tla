---------------------------- MODULE ConsoleInput ----------------------------
(***************************************************************************)
(* ui-console at the keyboard: run()'s loop reads a line with LineEditor,  *)
(* one key of Terminal at a time, and dispatches it; a command asks for    *)
(* what its arguments do not give, then works with a Spinner turning.      *)
(* The person presses keys and pastes lines; other threads log.            *)
(*                                                                         *)
(* The main thread may take the log's sink away at any time: the rest of   *)
(* its shutdown waits for the console (AppLifecycle).                      *)
(*                                                                         *)
(* What commands do to Core is in FrontEnds; here a command is its prompts *)
(* and a call of Core that takes time, answers, or throws.                 *)
(***************************************************************************)
EXTENDS Terminal, CommandRouter

CONSTANTS
  Asks,        \* the prompts of each command: "text" and "password"
  Keys,        \* keys the person presses
  Untidy,      \* keys that are not told from others, or not read whole
  Encode,      \* the bytes of the keys that are not a byte themselves
  Lines,       \* command lines pasted: words, and how they are quoted
  MaxLen,      \* bound: characters of a line the person edits
  MaxHistory,  \* m_maxHistory
  Rare,        \* bound: keys pressed only while the history is short,
  MaxLate,     \* and how short; keys come late only then, too, and lines are
               \* logged without a sink
  MaxPending,  \* bound: keys pressed and not handled
  MaxLogs      \* bound: lines in the log queue

ASSUME InputAssumption ==
  /\ Asks \in [Leaves -> Seq({"text", "password"})]
  /\ Untidy \subseteq Keys /\ Rare \subseteq Keys
  /\ MaxHistory \in Nat \ {0} /\ MaxLogs \in Nat

VARIABLES
  wire,    \* bytes the keyboard sent that readKey() has not read
  seq,     \* bytes of the key readKey() is reading
  event,   \* the key it returned, or NoKey
  sent,    \* keys pressed and not handled, in order (auxiliary)
  garbled, \* one of them came late, or is untidy (auxiliary)
  at,      \* "prompt" (head of the loop), "line", "text", "password",
           \* "core" and "stop" (around the call of Core), "ended",
           \* "leaves" (in ~ConsoleUI), "gone"
  edit,    \* the text edited: buffer, cursor, historyIdx, savedBuffer
  draft,   \* what was typed before browsing the history (auxiliary)
  history,
  menu,    \* m_current
  job,     \* the command that runs, its prompts still to come, or NoJob
  screen,
  blank,   \* the screen was cleared under the line edited
  spinner, \* m_running; hidden; thread: "none", "loop" or "draws"
  raw,     \* the terminal is in raw mode
  logs,    \* lines in the log queue
  sink     \* the log has the plugin for a sink

console == <<wire, seq, event, sent, garbled, at, edit, draft, history, menu, job, screen,
             blank, spinner, raw, logs>>
vars == <<console, sink>>
keyboard == <<wire, seq, event, sent, garbled>>

NoKey == [key |-> "none", ch |-> ""]
NoJob == [menu |-> <<>>, line |-> <<>>, node |-> <<>>, args |-> <<>>, asks |-> <<>>]
Empty == [buffer |-> <<>>, cursor |-> 0, idx |-> 0, saved |-> <<>>]
Prompt == <<"prompt">>
Idle == [running |-> FALSE, hidden |-> FALSE, thread |-> "none"]
Editing == {"line", "text", "password"}

Trimmed(s) ==
  LET solid == {i \in DOMAIN s : s[i] # " "}
  IN IF solid = {} THEN <<>> ELSE SubSeq(s, Min(solid), Max(solid))

Init ==
  /\ wire = <<>> /\ seq = <<>> /\ event = NoKey /\ sent = <<>> /\ garbled = FALSE
  /\ at = "prompt" /\ edit = Empty /\ draft = <<>> /\ history = <<>> /\ menu = <<>> /\ job = NoJob
  /\ screen = Fresh /\ blank = FALSE /\ spinner = Idle /\ raw = TRUE /\ logs = 0
  /\ sink = TRUE

-----------------------------------------------------------------------------
(* The keyboard *)

\* A word as the person quotes it.
Escaped(w, chars) == FlattenSeq([i \in DOMAIN w |-> IF w[i] \in chars THEN <<"\\", w[i]>> ELSE <<w[i]>>])
Quoted(w, style) ==
  CASE style = "double" -> <<"\"">> \o Escaped(w, {"\"", "\\"}) \o <<"\"">>
    [] style = "single" -> <<"'">> \o w \o <<"'">>
    [] style = "escape" -> Escaped(w, {" ", "\"", "'", "\\"})
Written(l) ==
  FlattenSeq([i \in DOMAIN l.words |-> (IF i = 1 THEN <<>> ELSE <<" ">>) \o Quoted(l.words[i], l.style)])

Sheet == [l \in Lines |-> Written(l)]

CodeOf(k) == IF k \in DOMAIN Encode THEN Encode[k] ELSE <<k>>
Bytes(keys) == FlattenSeq([i \in DOMAIN keys |-> CodeOf(keys[i])])

\* No word is empty, and none in single quotes has one.
LineLetters == UNION {Range(w) : w \in UNION {Range(l.words) : l \in Lines}}
ASSUME LineAssumption ==
  \A l \in Lines :
    /\ l.style \in {"double", "single", "escape"} /\ l.words \in Seq(Seq(LineLetters))
    /\ \A i \in DOMAIN l.words : l.words[i] # <<>> /\ (l.style = "single" => "'" \notin Range(l.words[i]))

\* A key that is tidy is a byte, a character of UTF-8, or an escape sequence
\* of three bytes, or of four if a digit is its third.
IsCode(b) ==
  \/ Len(b) = 1 /\ b[1] # ESC /\ b[1] \notin DOMAIN LeadBytes
  \/ Len(b) > 1 /\ b[1] \in DOMAIN LeadBytes /\ Len(b) = 1 + LeadBytes[b[1]]
  \/ Len(b) = 3 /\ b[1] = ESC /\ (b[2] = "O" \/ (b[2] = "[" /\ b[3] \notin Digits))
  \/ Len(b) = 4 /\ b[1] = ESC /\ b[2] = "[" /\ b[3] \in Digits
Typable == Keys \cup {"Enter"} \cup UNION {Range(Sheet[l]) : l \in Lines}
WireBytes == UNION {Range(CodeOf(k)) : k \in Typable}
ASSUME KeyAssumption ==
  \A k \in Typable : CodeOf(k) \in Seq(WireBytes) /\ (k \notin Untidy => IsCode(CodeOf(k)))

EventOf(k) == readKey(Bytes(<<k>>))

Sends(keys) ==
  LET quiet == wire = <<>> /\ seq = <<>> /\ event = NoKey
      dirty == \E i \in DOMAIN keys : keys[i] \in Untidy
  IN /\ wire' = wire \o Bytes(keys)
     /\ sent' = IF quiet THEN keys ELSE sent \o keys
     /\ garbled' = IF quiet THEN dirty ELSE garbled \/ dirty
     /\ UNCHANGED <<seq, event, at, edit, draft, history, menu, job, screen, blank, spinner, raw, logs, sink>>

\* Long lines come from pastes, completions and the history, and are not
\* edited further.
Press ==
  \E k \in Keys :
    /\ at \notin {"ended", "leaves", "gone"}
    /\ Len(wire) + Len(seq) + (IF event = NoKey THEN 0 ELSE 1) < MaxPending
    /\ Len(edit.buffer) < MaxLen \/ k \in {"Up", "Down", "Enter", "CtrlC"}
                                 \/ (Len(edit.buffer) = MaxLen /\ EventOf(k).key # "Char")
    /\ k \in Rare => Len(history) <= MaxLate
    /\ Sends(<<k>>)
Paste ==
  \E l \in Lines :
    /\ at = "line" /\ edit = Empty
    /\ wire = <<>> /\ seq = <<>> /\ event = NoKey
    /\ Sends(Append(Sheet[l], "Enter"))

\* readKey() returns; ^L clears the screen on the way.
Returns(s) ==
  /\ event' = readKey(s) /\ seq' = <<>>
  /\ screen' = IF s = <<"FF">> THEN clearScreen(screen) ELSE screen
  /\ blank' = (blank \/ s = <<"FF">>)

ReadByte ==
  /\ at \in Editing /\ event = NoKey /\ wire # <<>>
  /\ LET s == Append(seq, wire[1])
     IN IF ReadsOn(s) THEN seq' = s /\ UNCHANGED <<event, screen, blank>> ELSE Returns(s)
  /\ wire' = Tail(wire)
  /\ UNCHANGED <<sent, garbled, at, edit, draft, history, menu, job, spinner, raw, logs, sink>>

\* 80 ms are over: no byte came, or the rest comes late.
TimeOut ==
  /\ at \in Editing /\ event = NoKey /\ Waits(seq)
  /\ wire # <<>> => Len(edit.buffer) + Len(wire) <= MaxLen /\ Len(history) <= MaxLate
  /\ Returns(seq)
  /\ garbled' = (garbled \/ wire # <<>>)
  /\ UNCHANGED <<wire, sent, at, edit, draft, history, menu, job, spinner, raw, logs, sink>>

-----------------------------------------------------------------------------
(* LineEditor::readLine(), and what Prompt shares with it.  An action per  *)
(* key, enabled when readKey() has returned it.                            *)

Handled ==
  /\ event' = NoKey /\ UNCHANGED <<wire, seq>>
  /\ sent' = IF garbled \/ sent = <<>> THEN <<>> ELSE Tail(sent)
  /\ garbled' = (garbled /\ wire # <<>>)
Edits(e) == edit' = e /\ draft' = IF e.idx = 0 THEN e.buffer ELSE draft
Stays == UNCHANGED <<at, history, menu, job, spinner, raw, logs, sink>>
Gets(keys) == event.key \in keys

redrawLine(s, e) == moveCursorBack(write(clearLine(s), Prompt \o e.buffer), Len(e.buffer) - e.cursor)
Redraws(s, e) == Edits(e) /\ screen' = redrawLine(s, e) /\ blank' = FALSE

After(e) == SubSeq(e.buffer, e.cursor + 1, Len(e.buffer))
Inserted(e, c) == [e EXCEPT !.buffer = InsertAt(@, e.cursor + 1, c), !.cursor = @ + 1]
Removed(e, i) == [e EXCEPT !.buffer = RemoveAt(@, i)]
\* Mutant: the cursor left where it was.
MutWhole(e, b) == [e EXCEPT !.buffer = b]
Whole(e, b) == [e EXCEPT !.buffer = b, !.cursor = Len(b)]

Insert ==
  /\ at \in Editing /\ Gets({"Char"})
  /\ LET e == Inserted(edit, event.ch)
     IN \/ at = "line" /\ Redraws(screen, e)
        \/ /\ at = "text" /\ Edits(e)
           /\ screen' = moveCursorBack(write(clearToEnd(screen), <<event.ch>> \o After(e)), Len(After(e)))
           /\ UNCHANGED blank
        \/ at = "password" /\ Edits(e) /\ screen' = write(screen, <<"*">>) /\ UNCHANGED blank
  /\ Handled /\ Stays

Backspace ==
  /\ at \in Editing /\ Gets({"Backspace"}) /\ edit.cursor > 0
  /\ LET e == [Removed(edit, edit.cursor) EXCEPT !.cursor = @ - 1]
         s == clearToEnd(moveCursorBack(screen, 1))
     IN \/ at = "line" /\ Redraws(screen, e)
        \/ /\ at \in {"text", "password"} /\ Edits(e)
           /\ screen' = moveCursorBack(write(s, After(e)), Len(After(e)))
           /\ UNCHANGED blank
  /\ Handled /\ Stays

Delete ==
  /\ at = "line" /\ Gets({"Delete", "CtrlD"}) /\ edit.cursor < Len(edit.buffer)
  /\ Redraws(screen, Removed(edit, edit.cursor + 1))
  /\ Handled /\ Stays

Moves(from, to) ==
  /\ Edits([edit EXCEPT !.cursor = to])
  /\ screen' = IF to < from THEN moveCursorBack(screen, from - to) ELSE moveCursorForward(screen, to - from)
  /\ UNCHANGED blank
Move ==
  /\ LET c == edit.cursor n == Len(edit.buffer)
     IN \/ at \in {"line", "text"} /\ Gets({"Left"}) /\ c > 0 /\ Moves(c, c - 1)
        \/ at \in {"line", "text"} /\ Gets({"Right"}) /\ c < n /\ Moves(c, c + 1)
        \/ at = "line" /\ Gets({"Home"}) /\ c > 0 /\ Moves(c, 0)
        \/ at = "line" /\ Gets({"End"}) /\ c < n /\ Moves(c, n)
  /\ Handled /\ Stays

\* Mutant: the text is saved on every step back.
MutOlder ==
  /\ at = "line" /\ Gets({"Up"}) /\ history # <<>>
  /\ LET i == IF edit.idx = 0 THEN Len(history) ELSE IF edit.idx > 1 THEN edit.idx - 1 ELSE 1
     IN Redraws(screen, Whole([edit EXCEPT !.idx = i, !.saved = edit.buffer], history[i]))
  /\ Handled /\ Stays
Older ==
  /\ at = "line" /\ Gets({"Up"}) /\ history # <<>>
  /\ LET i == IF edit.idx = 0 THEN Len(history) ELSE IF edit.idx > 1 THEN edit.idx - 1 ELSE 1
         kept == IF edit.idx = 0 THEN edit.buffer ELSE edit.saved
     IN Redraws(screen, Whole([edit EXCEPT !.idx = i, !.saved = kept], history[i]))
  /\ Handled /\ Stays

Newer ==
  /\ at = "line" /\ Gets({"Down"}) /\ edit.idx > 0
  /\ LET i == IF edit.idx < Len(history) THEN edit.idx + 1 ELSE 0
     IN Redraws(screen, Whole([edit EXCEPT !.idx = i], IF i = 0 THEN edit.saved ELSE history[i]))
  /\ Handled /\ Stays

handleTab(e) ==
  LET matches == {c \in completions(menu) : IsPrefix(e.buffer, c)}
      common == LongestCommonPrefix(matches)
  IN IF matches = {} THEN e
     ELSE IF Cardinality(matches) = 1 THEN Whole(e, Append(common, " "))
     ELSE IF Len(common) > Len(e.buffer) THEN Whole(e, common) ELSE e
Complete ==
  /\ at = "line" /\ Gets({"Tab"})
  /\ LET e == handleTab(edit)
         listed == e = edit /\ \E c \in completions(menu) : IsPrefix(e.buffer, c)
     IN Redraws(IF listed THEN writeLine(writeLine(screen, <<>>), <<"list">>) ELSE screen, e)
  /\ Handled /\ Stays

\* Keys that do nothing where the cursor is, or in this prompt.
Ignored ==
  \/ Gets({"Unknown", "Escape"})
  \/ at = "line" /\ (Gets({"Delete"}) \/ (Gets({"CtrlD"}) /\ edit.buffer # <<>>))
       /\ edit.cursor = Len(edit.buffer)
  \/ at = "line" /\ ((Gets({"Up"}) /\ history = <<>>) \/ (Gets({"Down"}) /\ edit.idx = 0))
  \/ at \in {"text", "password"} /\ Gets({"Up", "Down", "Home", "End", "Delete", "Tab", "CtrlD"})
  \/ at = "password" /\ Gets({"Left", "Right"})
  \/ edit.cursor = 0 /\ (Gets({"Left", "Backspace"}) \/ (at = "line" /\ Gets({"Home"})))
  \/ edit.cursor = Len(edit.buffer) /\ (Gets({"Right"}) \/ (at = "line" /\ Gets({"End"})))
Ignore ==
  /\ at \in Editing /\ Ignored
  /\ Handled /\ Stays /\ UNCHANGED <<edit, draft, screen, blank>>

-----------------------------------------------------------------------------
(* ConsoleUI::run() *)

addToHistory(line) ==
  LET h == IF history # <<>> /\ Last(history) = line THEN history ELSE Append(history, line)
  IN SubSeq(h, 1 + (IF Len(h) > MaxHistory THEN Len(h) - MaxHistory ELSE 0), Len(h))

\* The head of the loop: log lines first, then the prompt.
NextLine ==
  /\ at = "prompt" /\ at' = "line"
  /\ screen' = write([(IF logs > 0 THEN writeLine(screen, <<"log">>) ELSE screen) EXCEPT !.above = <<>>], Prompt)
  /\ logs' = 0 /\ edit' = Empty /\ draft' = <<>> /\ blank' = FALSE /\ job' = NoJob
  /\ UNCHANGED <<wire, seq, event, sent, garbled, history, menu, spinner, raw, sink>>

\* The command asks on, or calls Core with the spinner started; its handler
\* may also end here, for want of a container or an answer.
GoesOn(j, s) ==
  /\ job' = j /\ edit' = Empty /\ draft' = <<>> /\ blank' = FALSE
  /\ IF j.asks # <<>>
     THEN /\ at' = IF j.asks[1] = "password" THEN "password" ELSE "text"
          /\ screen' = write(s, Prompt) /\ UNCHANGED spinner
     ELSE at' = "core" /\ screen' = s /\ spinner' = [running |-> TRUE, hidden |-> TRUE, thread |-> "loop"]
Returned(s) ==
  /\ at' = "prompt" /\ screen' = s /\ job' = NoJob
  /\ edit' = Empty /\ draft' = <<>> /\ blank' = FALSE /\ UNCHANGED spinner

Execute(line, d, s) ==
  \/ GoesOn([menu |-> menu, line |-> line, node |-> d.node, args |-> d.args,
             asks |-> SubSeq(Asks[d.node], Len(d.args) + 1, Len(Asks[d.node]))], s)
  \/ Returned(s)

Dispatch(line, s) ==
  LET d == dispatch(menu, line)
  IN /\ menu' = IF d.result \in {"NavigatedMenu", "NavigatedUp"} THEN d.node ELSE menu
     /\ raw' = (d.result # "Exit")
     /\ \/ d.result = "Executed" /\ Execute(line, d, s)
        \/ d.result \notin {"Executed", "Exit"} /\ Returned(s)
        \/ /\ d.result = "Exit" /\ at' = "ended" /\ screen' = s
           /\ edit' = Empty /\ draft' = <<>> /\ blank' = FALSE /\ UNCHANGED <<job, spinner>>

Submits(line, s) ==
  IF line = <<>> THEN Returned(s) /\ UNCHANGED <<history, menu, raw>>
  ELSE /\ history' = addToHistory(line)
       /\ IF line = Help THEN Returned(s) /\ UNCHANGED <<menu, raw>> ELSE Dispatch(line, s)

Enter ==
  /\ at = "line" /\ Gets({"Enter"})
  /\ Submits(Trimmed(edit.buffer), writeLine(screen, <<>>))
  /\ Handled /\ UNCHANGED <<logs, sink>>
\* Ctrl-C gives the null line, Ctrl-D on an empty line gives "exit".
Interrupt ==
  /\ at = "line" /\ \/ Gets({"CtrlC"}) /\ Submits(<<>>, writeLine(screen, <<>>))
                    \/ Gets({"CtrlD"}) /\ edit.buffer = <<>> /\ Submits(Exit, writeLine(screen, <<>>))
  /\ Handled /\ UNCHANGED <<logs, sink>>

\* askText() and askPassword() return; the stars go before the line does.
\* Mutant: the line is left as it is.
MutWiped == screen
Wiped == IF at = "password" THEN clearToEnd(moveCursorBack(screen, Len(edit.buffer))) ELSE screen
Answer ==
  /\ at \in {"text", "password"} /\ Gets({"Enter", "CtrlC"})
  /\ LET s == writeLine(Wiped, <<>>)
     IN IF Gets({"CtrlC"}) \/ edit.buffer = <<>> THEN Returned(s)
        ELSE GoesOn([job EXCEPT !.asks = Tail(@)], s)
  /\ Handled /\ UNCHANGED <<history, menu, raw, logs, sink>>

-----------------------------------------------------------------------------
(* Spinner, and the call of Core it turns for *)

Alone == UNCHANGED <<wire, seq, event, sent, garbled, edit, draft, history, menu, blank, logs, sink>>

\* animationLoop(), on its own thread: the line is cleared, then drawn.
animationLoop ==
  /\ \/ /\ spinner.thread = "loop" /\ spinner.running
        /\ screen' = clearLine(screen) /\ spinner' = [spinner EXCEPT !.thread = "draws"]
     \/ /\ spinner.thread = "draws"
        /\ screen' = write(screen, <<"frame">>) /\ spinner' = [spinner EXCEPT !.thread = "loop"]
     \/ /\ spinner.thread = "loop" /\ ~spinner.running
        /\ spinner' = [spinner EXCEPT !.thread = "none"] /\ UNCHANGED screen
  /\ Alone /\ UNCHANGED <<at, job, raw>>

\* Core answered: stop() clears m_running, then waits for the thread.
Answered ==
  /\ at = "core" /\ at' = "stop"
  /\ spinner' = [spinner EXCEPT !.running = FALSE]
  /\ Alone /\ UNCHANGED <<job, screen, raw>>
\* Mutant: the thread is not waited for.
MutJoined == TRUE
Joined == spinner.thread = "none"
Stopped ==
  /\ at = "stop" /\ Joined /\ at' = "prompt" /\ job' = NoJob
  /\ screen' = writeLine(clearLine(screen), <<"done">>)
  /\ spinner' = [spinner EXCEPT !.hidden = FALSE]
  /\ Alone /\ UNCHANGED raw

\* Core threw: run() catches it, leaves the raw mode and the loop.
Throws ==
  /\ at = "core" /\ at' = "ended"
  /\ raw' = FALSE /\ screen' = writeLine(screen, <<"error">>) /\ job' = NoJob
  /\ Alone /\ UNCHANGED spinner

\* ~ConsoleUI, in the shutdown: ~Spinner stops a spinner that turns, ~Terminal the
\* raw mode.
Destroy ==
  /\ ~sink /\ at = "ended" /\ at' = (IF spinner.running THEN "leaves" ELSE "gone")
  /\ spinner' = [spinner EXCEPT !.running = FALSE]
  /\ raw' = FALSE /\ Alone /\ UNCHANGED <<job, screen>>
Destroyed ==
  /\ at = "leaves" /\ Joined /\ at' = "gone"
  /\ screen' = writeLine(clearLine(screen), <<"failed">>)
  /\ spinner' = [spinner EXCEPT !.hidden = FALSE]
  /\ Alone /\ UNCHANGED <<job, raw>>

-----------------------------------------------------------------------------
(* Lines logged by any thread, and the sink they go to *)

\* Mutant: straight to the terminal.
MutenqueueLog ==
  /\ sink /\ at # "gone" /\ logs < MaxLogs
  /\ screen' = writeLine(screen, <<"log">>)
  /\ UNCHANGED <<wire, seq, event, sent, garbled, at, edit, draft, history, menu, job, blank, spinner, raw, logs, sink>>
enqueueLog ==
  /\ sink /\ at # "gone" /\ logs < MaxLogs /\ logs' = logs + 1
  /\ UNCHANGED <<wire, seq, event, sent, garbled, at, edit, draft, history, menu, job, screen, blank, spinner, raw, sink>>

\* runShutdown() begins.
setSink == sink /\ sink' = FALSE /\ UNCHANGED console

\* Log::output() without a sink prints at once; in raw mode the cursor goes down
\* without going back. Bounds: the column from which, and a short history.
output ==
  /\ ~sink /\ at # "gone" /\ screen.col <= 1 + MaxLen /\ Len(history) <= MaxLate
  /\ screen' = [writeLine(screen, <<"log">>) EXCEPT !.col = IF raw THEN screen.col + 1 ELSE 0]
  /\ UNCHANGED <<wire, seq, event, sent, garbled, at, edit, draft, history, menu, job, blank, spinner, raw, logs, sink>>

Next ==
  \/ Press \/ Paste \/ ReadByte \/ TimeOut
  \/ Insert \/ Backspace \/ Delete \/ Move \/ Older \/ Newer \/ Complete \/ Ignore
  \/ NextLine \/ Enter \/ Interrupt \/ Answer
  \/ animationLoop \/ Answered \/ Stopped \/ Throws \/ Destroy \/ Destroyed
  \/ enqueueLog \/ output \/ setSink

Spec == Init /\ [][Next]_vars

-----------------------------------------------------------------------------
(* Properties *)

\* Types; the cursor is in the text, the history index in the history, and
\* the spinner's thread runs only around a call of Core.
TypeOK ==
  /\ edit.cursor \in 0..Len(edit.buffer) /\ edit.idx \in 0..Len(history)
  /\ menu \in Menus /\ (job = NoJob \/ job.node \in Leaves)
  /\ at \in Editing \cup {"prompt", "core", "stop", "ended", "leaves", "gone"}
  /\ spinner \in [running : BOOLEAN, hidden : BOOLEAN, thread : {"none", "loop", "draws"}]
  /\ spinner.running => at \in {"core", "ended"}
  /\ logs \in 0..MaxLogs /\ blank \in BOOLEAN /\ raw \in BOOLEAN /\ garbled \in BOOLEAN /\ sink \in BOOLEAN

\* What is on the screen is what will be sent: while a line, a text or a
\* password is edited, the terminal shows the prompt and the text, or as many
\* stars, with the cursor where the next character goes.  LineEditor and
\* Prompt move the cursor and rewrite parts of the line; logs of other threads
\* and the spinner never get in, as long as the log has its sink.  (After ^L,
\* which clears the screen and is dropped, the screen is blank until the line is
\* next redrawn.)
Shown == IF at = "password" THEN [i \in DOMAIN edit.buffer |-> "*"] ELSE edit.buffer
ScreenShows ==
  sink /\ at \in Editing /\ ~blank => screen.line = Prompt \o Shown /\ screen.col = 1 + edit.cursor

\* What ConsoleUI.cpp says its log queue is for: a line logged never breaks the
\* one that is edited, the shutdown included, which waits for a console that may
\* still be reading.
LogsKeptOff ==
  at \in Editing /\ ~blank => screen.line = Prompt \o Shown /\ screen.col = 1 + edit.cursor

\* Keys that arrive in one piece are read whole and in order, typed ahead or
\* not: no byte of an arrow, of Delete or of a UTF-8 character is left over
\* for the next key.
KeysWhole ==
  ~garbled => IF event = NoKey THEN seq \o wire = Bytes(sent)
              ELSE sent # <<>> /\ event = EventOf(sent[1]) /\ wire = Bytes(Tail(sent))

\* A command line, however the person quotes its words, runs the command its
\* words name from the menu they are typed in, with the words that follow as
\* its arguments, also when it comes from the history: unless the line ends in
\* a space that is escaped, which run() trims away (EscapesMeant).
Meant(l) ==
  job # NoJob /\ job.line = Trimmed(Sheet[l]) => job.menu \o l.words = job.node \o job.args
CommandMeant == \A l \in Lines : Last(Sheet[l]) # " " => Meant(l)

\* What CommandRouter.h says of the raw text entered: backslash escapes are
\* respected, in a word that ends in an escaped space as in any other.
EscapesMeant == \A l \in Lines : Meant(l)

\* However far back the person went, and whatever was changed there, coming
\* back past the latest line of the history finds what was typed before.
DraftComesBack ==
  [][edit.idx > 0 /\ edit'.idx = 0 /\ at' = at => edit'.buffer = draft]_vars

\* askPassword() leaves no star behind, on Enter or on Ctrl-C, so that the
\* screen does not tell how long the password is, as long as the log has its
\* sink: a line printed over the stars takes them up with it.
PasswordWiped ==
  [][sink /\ at = "password" /\ at' # "password" =>
       \A i \in DOMAIN screen'.above : screen'.above[i] # "*"]_vars

\* When ConsoleUI is gone the terminal is as it was found, its cursor shown
\* and no thread left to draw on it, even if Core threw under a spinner.
LeftAsFound == at = "gone" => ~raw /\ ~spinner.hidden /\ spinner.thread = "none"
=============================================================================
