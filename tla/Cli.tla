-------------------------------- MODULE Cli ---------------------------------
(***************************************************************************)
(* The loop of the management shell (mgmt/cli/fh_cli.c): one key after     *)
(* another edits the line, walks and searches the history, completes, and  *)
(* runs the line.  Keys are characters; those that are not printed have    *)
(* names.  An arrow key is three: ESC, [ and a letter.  What is drawn is   *)
(* left out, and with it the text of the prompt; its mode is kept, for     *)
(* quit leaves the mode before it leaves the shell.                        *)
(***************************************************************************)
EXTENDS CliHist, CliCmd

CONSTANTS
    Inputs,        \* what the user may type in one go: sequences of keys
    Files,         \* files the shell may start with: hist, alias
    MaxInputs      \* bound: inputs

VARIABLES
    ed,            \* the line and the keys that depend on earlier keys
    sh,            \* the commands
    hist,          \* the history
    hist_file,
    said,          \* the commands given, the newest last, as the history should have them
    inputs

cliVars == <<ed, sh, hist, hist_file, said, inputs>>

\* The whole of the loop's state, for the operators.
Loop == [cmd |-> ed.cmd, pos |-> ed.pos, arrow |-> ed.arrow, esc |-> ed.esc, rev |-> ed.rev,
      srch |-> ed.srch, itr |-> ed.itr, hist_pos |-> ed.hist_pos, yank |-> ed.yank, bang |-> ed.bang,
      found |-> FALSE, sh |-> sh, h |-> hist, file |-> hist_file, said |-> said]

NoLine == [cmd |-> <<>>, pos |-> 0, arrow |-> FALSE, esc |-> FALSE, rev |-> FALSE, srch |-> <<>>,
          itr |-> 0, hist_pos |-> 0, yank |-> <<>>, bang |-> <<>>]

-----------------------------------------------------------------------------
(* Editing.                                                                *)

Before(s) == SubSeq(s.cmd, 1, s.pos)
Behind(s) == SubSeq(s.cmd, s.pos + 1, Len(s.cmd))

fh_cli_lmove(s, n) == [s EXCEPT !.pos = IF @ > n THEN @ - n ELSE 0]
fh_cli_rmove(s, n) == [s EXCEPT !.pos = IF @ + n < Len(s.cmd) THEN @ + n ELSE Len(s.cmd)]

\* What is killed can be pasted, the empty rest too.
fh_cli_kill(s) == [s EXCEPT !.yank = Behind(s), !.cmd = Before(s)]

Insert(s, text) == [s EXCEPT !.cmd = Before(s) \o text \o Behind(s), !.pos = @ + Len(text)]
fh_cli_insert(s, c) == Insert(s, <<c>>)
fh_cli_paste(s) == Insert(s, s.yank)

fh_cli_erase(s) == IF s.pos = 0 THEN s ELSE [s EXCEPT !.cmd = Front(Before(s)) \o Behind(s), !.pos = @ - 1]

\* The blanks before the cursor and the word before them.
fh_cli_word_del(s) ==
    LET words == {i \in 1..s.pos : s.cmd[i] # Blank}
        last == CHOOSE i \in words : \A j \in words : j <= i
        gaps == {i \in 0..s.pos : i = 0 \/ s.cmd[i] = Blank}
        keep == IF words = {} THEN 0
                ELSE CHOOSE i \in gaps : i < last /\ \A j \in gaps : j < last => j <= i
    IN  [s EXCEPT !.cmd = SubSeq(@, 1, keep) \o Behind(s), !.pos = keep]

fh_cli_set_cmd(s, n) ==
    LET t == fh_cli_kill(fh_cli_lmove(s, s.pos))
    IN  [t EXCEPT !.cmd = HistGet(s.h, n), !.pos = Len(HistGet(s.h, n))]
fh_cli_hist_up(s) ==
    IF s.hist_pos < s.h.cnt THEN fh_cli_set_cmd([s EXCEPT !.hist_pos = @ + 1], s.hist_pos + 1) ELSE s
fh_cli_hist_down(s) ==
    IF s.hist_pos > 0 THEN fh_cli_set_cmd([s EXCEPT !.hist_pos = @ - 1], s.hist_pos - 1) ELSE s

-----------------------------------------------------------------------------
(* The reverse search.  A letter that finds nothing is taken back, and so  *)
(* is one when the search key finds nothing more.                          *)

\* mutant: the line is not taken from the history.
SearchKeeps(s, text) ==
    LET m == HistMatch(s.h, text, s.itr)
    IN  IF m.found THEN [fh_cli_kill(s) EXCEPT !.cmd = s.cmd, !.pos = 0, !.srch = text, !.itr = m.itr, !.found = TRUE]
        ELSE [s EXCEPT !.srch = Front(text), !.itr = m.itr]

Search(s, text) ==
    LET m == HistMatch(s.h, text, s.itr)
    IN  IF m.found THEN [fh_cli_kill(s) EXCEPT !.cmd = m.cmd, !.pos = 0, !.srch = text, !.itr = m.itr, !.found = TRUE]
        ELSE [s EXCEPT !.srch = Front(text), !.itr = m.itr]

SearchLetter(s, c) ==
    LET t == Search(s, Append(s.srch, c)) IN IF t.found THEN [t EXCEPT !.sh.mode = "search"] ELSE t

SearchKey(s) ==
    IF ~s.rev THEN [s EXCEPT !.rev = TRUE, !.sh.mode = "search"]
    ELSE IF s.srch # <<>> THEN Search(s, s.srch) ELSE s

\* With no letter left the search text is written to at -1.
SearchErase(s) ==
    IF s.srch = <<>> THEN [s EXCEPT !.sh.end = "undefined"]
    ELSE [s EXCEPT !.itr = 0, !.srch = Front(@), !.sh.mode = "search"]

\* The line goes to the buffer of the killed text and back.
SearchLeave(s) ==
    LET t == fh_cli_paste(fh_cli_kill(fh_cli_lmove(s, s.pos)))
        u == IF s.pos # Len(t.cmd) THEN fh_cli_lmove(t, Len(t.cmd) - s.pos) ELSE t
    IN  [u EXCEPT !.rev = FALSE, !.srch = <<>>, !.sh.mode = "none"]

-----------------------------------------------------------------------------
(* The end of a line.                                                      *)

Digits10 == <<"0", "1", "2", "3", "4", "5", "6", "7", "8", "9">>
IsDigit(c) == \E d \in DOMAIN Digits10 : Digits10[d] = c
Digit(c) == (CHOOSE d \in DOMAIN Digits10 : Digits10[d] = c) - 1

\* atoi
Atoi(text) ==
    LET stop == {i \in DOMAIN text : ~IsDigit(text[i])}
    IN  FoldLeft(LAMBDA n, c : 10 * n + Digit(c), 0,
                 IF stop = {} THEN text ELSE SubSeq(text, 1, Least(stop) - 1))

Given(s, cmd) == [s EXCEPT !.h = HistAdd(@, cmd),
                           !.said = IF @ # <<>> /\ Last(@) = cmd THEN @ ELSE Append(@, cmd)]

\* !!, !n and !start; the command goes to the history, not to its file.
Recall(s) ==
    LET text == Tail(s.cmd)
        number == IF text # <<>> /\ text[1] = "!" THEN 0
                  ELSE IF text # <<>> /\ IsDigit(text[1]) THEN Atoi(text)
                  ELSE HistFind(s.h, text)
    IN  Then(number, LAMBDA n : Then(HistCall(s.h, n), LAMBDA cmd :
        IF n = -1 \/ cmd = <<>> THEN s
        ELSE [Given(s, cmd) EXCEPT !.bang = <<text, cmd, Entries(s.h)>>,
                                   !.sh = fh_cli_cmd_process(@, cmd, 0)]))

Fresh(s) == [s EXCEPT !.sh.ran = <<>>, !.sh.called = <<>>, !.bang = <<>>]

\* A line that ends the shell is not kept.
RunLine(s) ==
    Then([s EXCEPT !.sh = fh_cli_cmd_process(@, s.cmd, 0)], LAMBDA t :
         IF t.sh.end # "" THEN t
         ELSE Then(Given(t, s.cmd), LAMBDA g : [g EXCEPT !.file = HistSave(g.h, s.file)]))

Enter(s) ==
    [IF s.cmd = <<>> THEN Fresh(s) ELSE IF s.cmd[1] = "!" THEN Recall(Fresh(s)) ELSE RunLine(Fresh(s))
        EXCEPT !.cmd = <<>>, !.pos = 0, !.hist_pos = 0, !.rev = FALSE,
               !.srch = IF s.rev THEN <<>> ELSE @, !.itr = IF s.rev THEN 0 ELSE @,
               !.sh.mode = "none"]

-----------------------------------------------------------------------------
(* One turn of the loop.  esc and arrow are left as they are by the keys   *)
(* that are dealt with before them, and arrow by the letters of the arrows.*)

Complete(s) ==
    IF s.pos # Len(s.cmd) THEN s
    ELSE Then(fh_cli_cmd_complete(Fresh(s).sh, s.cmd), LAMBDA r :
              [Fresh(s) EXCEPT !.sh = r.sh, !.cmd = r.line, !.pos = Len(r.line)])

Backspace(s) ==
    IF s.esc THEN [fh_cli_word_del(s) EXCEPT !.esc = FALSE]
    ELSE IF s.rev THEN SearchErase(s) ELSE fh_cli_erase(s)

Escape(s) == [IF s.rev THEN SearchLeave(s) ELSE s EXCEPT !.esc = TRUE]

Arrow(s, c) ==
    CASE c = "A" -> fh_cli_hist_up(s) [] c = "B" -> fh_cli_hist_down(s)
      [] c = "C" -> fh_cli_rmove(s, 1) [] c = "D" -> fh_cli_lmove(s, 1)

Letter(s, c) == IF s.rev THEN SearchLetter(s, c) ELSE fh_cli_insert(s, c)

\* The keys that come after the test for an escape.
Plain(s, c) ==
    IF s.esc /\ c = "[" THEN [s EXCEPT !.arrow = TRUE]
    ELSE LET t == [s EXCEPT !.esc = FALSE]
         IN  IF t.arrow /\ c \in {"A", "B", "C", "D"} THEN Arrow(t, c)
             ELSE IF c = "ENTER" THEN Enter([t EXCEPT !.arrow = FALSE])
             ELSE Letter([t EXCEPT !.arrow = FALSE], c)

Key(s, c) ==
    IF s.sh.end # "" THEN s
    ELSE CASE c = "BS" -> Backspace(s)
           [] c = "^A" -> fh_cli_lmove(s, s.pos)
           [] c = "^E" -> fh_cli_rmove(s, Len(s.cmd))
           [] c = "^D" -> [Fresh(s) EXCEPT !.sh = fh_cli_cmd_process(@, Spelling["quit"], 0)]
           [] c = "^K" -> fh_cli_kill(s)
           [] c = "^Y" -> fh_cli_paste(s)
           [] c = "^U" -> fh_cli_kill(fh_cli_lmove(s, s.pos))
           [] c = "^R" -> SearchKey(s)
           [] c = "^L" -> s
           [] c \in {"TAB", "?"} -> Complete(s)
           [] c = "ESC" -> Escape(s)
           [] OTHER -> Plain(s, c)

-----------------------------------------------------------------------------
CliInit ==
    \E f \in Files :
        /\ hist_file = f.hist /\ hist = HistLoad(f.hist) /\ said = f.hist
        /\ ed = NoLine /\ sh = main(f.alias) /\ inputs = 0

Type(keys) ==
    /\ sh.end = "" /\ inputs < MaxInputs /\ inputs' = inputs + 1
    /\ \E t \in {FoldLeft(Key, Loop, Front(keys))} : \E s \in {Key(t, Last(keys))} :
        /\ ed' = [f \in DOMAIN ed |-> s[f]]
        /\ sh' = s.sh /\ hist' = s.h /\ hist_file' = s.file /\ said' = s.said

\* A session that ended is followed by another.
Again ==
    /\ sh.end # "" /\ inputs < MaxInputs /\ inputs' = inputs + 1
    /\ ed' = NoLine /\ sh' = main(sh.file)
    /\ hist' = HistLoad(hist_file) /\ said' = hist_file
    /\ UNCHANGED hist_file

CliNext == (\E keys \in Inputs : Type(keys)) \/ Again

-----------------------------------------------------------------------------
(* A command is run only for words that mean it: each is the name found or *)
(* begins it, in either case, and in the name's case begins no other       *)
(* command beside it, through aliases that come and go, and managers that  *)
(* bring their services.  A command that differs only in the case of its   *)
(* letters is no other to the lookup, and may be passed over.              *)
RunsTheOneMeant ==
    \A i \in DOMAIN sh.ran :
        LET word == sh.ran[i][1]
            name == sh.ran[i][2]
        IN  /\ IsPrefix(Lower(word), Lower(name))
            /\ \/ Lower(word) = Lower(name)
               \/ \A other \in sh.ran[i][3] \ {name} : ~IsPrefix(Upto(name, Len(word)), other)

(* An alias runs what it was made for, and the table has every alias that  *)
(* can be called, as long as only the newest alias was ever deleted.       *)
AliasRuns ==
    sh.tidy => /\ sh.end \notin {"lost", "freed"}
               /\ sh.called # <<>> => sh.called[2] = sh.meant[sh.called[1]]

(* The ring holds the last commands that were given, one after another     *)
(* never the same, from one session to the next.                           *)
HistoryExact ==
    Entries(hist) = SubSeq(said, Len(said) - hist.cnt + 1, Len(said))
    /\ hist.cnt = IF Len(said) < HIST_CNT THEN Len(said) ELSE HIST_CNT

(* !start runs the newest command that begins so, unless that is the       *)
(* oldest in the history, whose number stands for the last command; !n     *)
(* runs what the history shows as n.                                       *)
BangRuns ==
    ed.bang # <<>> =>
        LET text == ed.bang[1]
            cmd == ed.bang[2]
            old == ed.bang[3]
            fits == {i \in DOMAIN old : IsPrefix(text, old[i])}
            last == CHOOSE i \in fits : \A j \in fits : j <= i
        IN  CASE text # <<>> /\ text[1] = "!" -> cmd = Last(old) \/ Len(old) = 1
              [] text # <<>> /\ IsDigit(text[1]) ->
                    Atoi(text) \in 1..Len(old) - 1 => cmd = old[Atoi(text) + 1]
              [] OTHER -> last # 1 => cmd = old[last]

(* A search step that changes the line shows a command of the history that *)
(* contains the text, and leaving the search changes neither line nor      *)
(* cursor, although both go through the buffer of the killed text.         *)
SearchFinds ==
    [][/\ ed.rev /\ ed'.rev /\ Len(ed'.srch) > Len(ed.srch) =>
            \E k \in 0..Len(ed'.cmd) : IsPrefix(ed'.srch, SubSeq(ed'.cmd, k + 1, Len(ed'.cmd)))
       /\ ed.rev /\ ~ed'.rev /\ ed'.esc => ed'.cmd = ed.cmd /\ ed'.pos = ed.pos]_cliVars

(* A word, short or an alias, runs what it means.                          *)
CommandsMeant == RunsTheOneMeant /\ AliasRuns

(* The history and the commands recalled from it are what was typed.       *)
HistoryTrue == HistoryExact /\ BangRuns

=============================================================================
