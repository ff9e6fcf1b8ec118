------------------------------- MODULE CliCmd -------------------------------
(***************************************************************************)
(* The commands of the management shell: the tree of commands and how a    *)
(* line finds one (mgmt/cli/fh_cli_cmd.c), the aliases (fh_cli_alias.c),   *)
(* the output filter (fh_cli_filter.c) and what fhctl registers and does   *)
(* (mgmt/fhctl/fhctl.c).                                                   *)
(*                                                                         *)
(* Characters are strings of one letter; words and lines are sequences of  *)
(* them.  Spelling gives each command of the code its word, so a small     *)
(* instance may spell them short.  Lengths are told with the case of the   *)
(* letters and commands found without.  A node of the tree is a record:    *)
(* its word, the length that tells it from its siblings, its callback, its *)
(* children, and an identity that stands for its address.                  *)
(*                                                                         *)
(* The state of the shell is a record: the tree, the alias table and file, *)
(* the filter, the manager it is connected to, how the process ended if it *)
(* did, and, to state properties, the words that found the last command    *)
(* and the aliases on the way to it, what the aliases were to mean, and    *)
(* whether only the newest was deleted.                                    *)
(***************************************************************************)
EXTENDS Integers, Sequences, FiniteSets, SequencesExt, Eager

CONSTANTS
    Spelling,      \* the word of each command
    ALIAS_CNT,     \* slots of the alias table
    Hosts,         \* what a connection to each host meets: does, and groups
    Local,         \* the word for 127.0.0.1
    MaxDepth       \* bound: aliases that call each other

ASSUME CliCmdAssumption == ALIAS_CNT \in Nat \ {0} /\ MaxDepth \in Nat

Least(S) == CHOOSE i \in S : \A j \in S : i <= j

-----------------------------------------------------------------------------
(* The tree.                                                               *)

Upto(s, n) == SubSeq(s, 1, IF n < Len(s) THEN n ELSE Len(s))

\* strncmp(a, b, n) == 0
Same(a, b, n) == Upto(a, n) = Upto(b, n)

Small == [A |-> "a", B |-> "b", C |-> "c", D |-> "d", E |-> "e", F |-> "f", G |-> "g", H |-> "h", I |-> "i",
          J |-> "j", K |-> "k", L |-> "l", M |-> "m", N |-> "n", O |-> "o", P |-> "p", Q |-> "q", R |-> "r",
          S |-> "s", T |-> "t", U |-> "u", V |-> "v", W |-> "w", X |-> "x", Y |-> "y", Z |-> "z"]
Lower(word) == [i \in DOMAIN word |-> IF word[i] \in DOMAIN Small THEN Small[word[i]] ELSE word[i]]

\* strncasecmp(a, b, n) == 0
SameLetters(a, b, n) == Same(Lower(a), Lower(b), n)

\* mutant: a command is compared only with those registered before it.
cmd_buildBehind(list) ==
    [i \in DOMAIN list |->
        [list[i] EXCEPT !.uniq = Least({u \in 1..Len(list[i].name) + 1 :
            u > Len(list[i].name) \/ \A j \in DOMAIN list \ 1..i : ~Same(list[j].name, list[i].name, u)})]]

\* The length of each command that no sibling shares, letter for letter and
\* in the same case.
cmd_build(list) ==
    [i \in DOMAIN list |->
        [list[i] EXCEPT !.uniq = Least({u \in 1..Len(list[i].name) + 1 :
            u > Len(list[i].name) \/ \A j \in DOMAIN list \ {i} : ~Same(list[j].name, list[i].name, u)})]]

Node(name, cb, kids, id) == [name |-> name, uniq |-> 0, cb |-> cb, kids |-> kids, id |-> id]

\* The new command stands first.
fh_cli_cmd_register(list, node) == cmd_build(<<node>> \o list)

\* Those that stay keep their lengths.
fh_cli_cmd_unregister(list, id) == SelectSeq(list, LAMBDA n : n.id # id)

\* A table of commands, registered one after the other.
fh_cli_register(list, nodes) == FoldLeft(fh_cli_cmd_register, list, nodes)

\* fh_cli_cmd_search, and what is done with the children of what it finds.
Place(list, name) == Least({i \in DOMAIN list : list[i].name = Spelling[name]})

-----------------------------------------------------------------------------
(* A line in words.  A quote starts the word over, inside other quotes too; *)
(* a bar is a word.                                                        *)

Blank == " "
Bar == "|"
Quotes == {"'", "\""}

ParseStep(p, c) ==
    LET ends == p.open /\ (IF p.quote # "" THEN c = p.quote ELSE c \in {Blank, Bar})
    IN  Then(IF ends THEN [p EXCEPT !.args = Append(@, p.word), !.open = FALSE] ELSE p, LAMBDA q :
        CASE ends /\ p.quote # "" -> [q EXCEPT !.quote = ""]
          [] c \in Quotes /\ ~(ends /\ p.quote # "") -> [q EXCEPT !.quote = c, !.open = TRUE, !.word = <<>>]
          [] ~q.open /\ c = Bar -> [q EXCEPT !.args = Append(@, <<Bar>>)]
          [] ~q.open /\ c = Blank -> q
          [] ~q.open /\ c \notin {Bar, Blank} \cup Quotes -> [q EXCEPT !.open = TRUE, !.word = <<c>>]
          [] OTHER -> [q EXCEPT !.word = Append(@, c)])

fh_cli_cmd_parse(line) ==
    Then(FoldLeft(ParseStep, [args |-> <<>>, word |-> <<>>, open |-> TRUE, quote |-> ""], line), LAMBDA p :
         IF p.open THEN Append(p.args, p.word) ELSE p.args)

SkipBlanks(line) ==
    LET at == {i \in DOMAIN line : line[i] # Blank}
    IN  IF at = {} THEN <<>> ELSE SubSeq(line, Least(at), Len(line))

\* A question mark at the end of a word asks for help.
Asks(word) == word # <<>> /\ word[Len(word)] = "?"

-----------------------------------------------------------------------------
(* fh_cli_cmd_find: the way down the tree.  found is "leaf" with the       *)
(* command and the words it is given, "help" with the commands that match, *)
(* or why nothing is run.  path tells the words used, the names they found *)
(* and the names beside them.                                              *)

\* The word is as long as needed, and the name begins with it in either case.
Picks(list, word) ==
    {i \in DOMAIN list : /\ SameLetters(list[i].name, word, list[i].uniq)
                         /\ SameLetters(list[i].name, word, Len(word))}

NotFound(why) == [found |-> why, path |-> <<>>, node |-> <<>>, argv |-> <<>>, matches |-> <<>>]

Level(list, word, c) == <<word, c.name, {list[i].name : i \in DOMAIN list}>>

RECURSIVE Find(_, _, _)
Find(list, args, c_args) ==
    LET word == args[1]
        hits == SelectSeq(list, LAMBDA n : SameLetters(n.name, word, Len(word) - 1))
    IN  IF Asks(word) THEN [NotFound("help") EXCEPT !.matches = hits]
        ELSE IF Picks(list, word) = {} THEN NotFound("none")
        ELSE Then(list[Least(Picks(list, word))], LAMBDA c :
             IF c.kids = <<>>
             THEN IF c.cb = "none" THEN NotFound("none")
                  ELSE [NotFound("leaf") EXCEPT !.path = <<Level(list, word, c)>>, !.node = c,
                                                !.argv = SubSeq(args, 2, c_args)]
             ELSE IF c_args = 1 THEN NotFound("incomplete")
             ELSE Then(Find(c.kids, Tail(args), c_args - 1), LAMBDA below :
                       [below EXCEPT !.path = <<Level(list, word, c)>> \o @]))

-----------------------------------------------------------------------------
(* Aliases.  The table is an array; beyond alias_cnt lies what was left    *)
(* there.  A read beyond the array, a command that is freed twice and an   *)
(* alias that the table no longer has are the end of what is modelled.     *)

NoAlias == [name |-> <<>>, cmd |-> <<>>, index |-> 0, ref |-> 0]

AliasAt(sh, name) == {p \in 1..sh.alias_cnt : sh.alias[p].name = name}

\* strcat: the command is put behind what the slot holds.
fh_cli_alias_add(sh, name, cmd) ==
    IF AliasAt(sh, name) # {} \/ sh.alias_cnt = ALIAS_CNT THEN sh
    ELSE [sh EXCEPT !.alias_cnt = @ + 1, !.next = @ + 1,
                    !.alias[sh.alias_cnt + 1] =
                        [name |-> name, cmd |-> @.cmd \o cmd, index |-> sh.alias_cnt, ref |-> sh.next],
                    !.tree = fh_cli_cmd_register(@, Node(name, "alias_exec", <<>>, sh.next))]

\* As written, the slot is overwritten by the next one, again and again, and
\* no other moves.
fh_cli_alias_del(sh, name) ==
    LET p == Least(AliasAt(sh, name))
        a == sh.alias[p]
    IN  IF AliasAt(sh, name) = {} THEN sh
        ELSE IF \A i \in DOMAIN sh.tree : sh.tree[i].id # a.ref THEN [sh EXCEPT !.end = "freed"]
        ELSE [sh EXCEPT !.tree = fh_cli_cmd_unregister(@, a.ref),
                        !.alias[p] = IF a.index < sh.alias_cnt /\ p < ALIAS_CNT THEN sh.alias[p + 1] ELSE @,
                        !.alias_cnt = @ - 1,
                        !.end = IF a.index < sh.alias_cnt /\ p = ALIAS_CNT THEN "undefined" ELSE @,
                        !.tidy = @ /\ p = sh.alias_cnt]

fh_cli_alias_save(sh) ==
    [sh EXCEPT !.file = [i \in 1..sh.alias_cnt |-> <<sh.alias[i].name, sh.alias[i].cmd>>]]

fh_cli_alias_load(sh) == FoldLeft(LAMBDA s, f : fh_cli_alias_add(s, f[1], f[2]), sh, sh.file)

-----------------------------------------------------------------------------
(* The output filter: set before a callback, cleared behind it.            *)

FilterWords(word) == {k \in {"include", "exclude"} : IsPrefix(word, Spelling[k])}

fh_cli_filter_init(sh, word) ==
    [sh EXCEPT !.filter = IF "exclude" \in FilterWords(word) THEN "exclude"
                          ELSE IF "include" \in FilterWords(word) THEN "include" ELSE "none"]
fh_cli_filter_clean(sh) == [sh EXCEPT !.filter = "none"]

-----------------------------------------------------------------------------
(* The callbacks.  A last word that asks for help changes nothing.  The    *)
(* requests to the manager are recorded in the path that led to them.      *)

alias_add_cb(sh, argv) ==
    LET new == fh_cli_alias_add(sh, argv[1], argv[2])
    IN  IF Len(argv) # 2 \/ new = sh THEN sh
        ELSE fh_cli_alias_save([new EXCEPT !.meant = [n \in DOMAIN @ \cup {argv[1]} |->
                                                        IF n = argv[1] THEN argv[2] ELSE @[n]]])

alias_del_cb(sh, argv) ==
    LET new == fh_cli_alias_del(sh, argv[1])
    IN  IF Len(argv) # 1 \/ new = sh THEN sh ELSE IF new.end = "" THEN fh_cli_alias_save(new) ELSE new

\* The commands of a service or of a group.
show_serv_cmd_list == <<"status", "stats", "version">>
serv_cmd_list == <<"enable", "disable", "start", "stop", "restart", "clrstats">>

add_cli_cmd(list, ccl, name) ==
    fh_cli_cmd_register(list,
        Node(name, "none", fh_cli_register(<<>>, [i \in DOMAIN ccl |-> Node(Spelling[ccl[i]], ccl[i], <<>>, 0)]), 0))

\* All, then each group of several services, and each service.
Names(groups) ==
    <<Spelling["all"]>>
    \o FlattenSeq([i \in DOMAIN groups |->
                    (IF Len(groups[i].services) > 1 THEN <<groups[i].name>> ELSE <<>>) \o groups[i].services])

get_service_group_tree(tree, groups) ==
    LET Add(list, ccl) == FoldLeft(LAMBDA l, n : add_cli_cmd(l, ccl, n), list, Names(groups))
        show == Place(tree, "show")
        under == tree[show].kids
    IN  [tree EXCEPT ![show].kids[Place(under, "service")].kids = Add(@, show_serv_cmd_list),
                     ![Place(tree, "service")].kids = Add(@, serv_cmd_list)]

\* A new connection; the commands of the old one stay.
connect_cb(sh, argv) ==
    IF Len(argv) # 1 \/ argv[1] \notin DOMAIN Hosts THEN sh
    ELSE LET host == Hosts[argv[1]]
         IN  CASE host.does = "refuses" -> [sh EXCEPT !.peer = <<>>]
               [] host.does = "silent" -> [sh EXCEPT !.peer = argv[1]]
               [] host.does = "answers" ->
                    [sh EXCEPT !.peer = argv[1], !.tree = get_service_group_tree(@, host.groups)]

\* Leaves the reverse search when it is on, else the shell.
quit_cb(sh) == IF sh.mode = "none" THEN [sh EXCEPT !.end = "quit"] ELSE [sh EXCEPT !.mode = "none"]

\* The words that begin with a bar.
Bars(args) == {i \in DOMAIN args : args[i] # <<>> /\ args[i][1] = Bar}

\* One line, and the lines its aliases stand for.
RECURSIVE fh_cli_cmd_process(_, _, _)
RECURSIVE Call(_, _, _)

\* A command is called with its words.  An alias that is not in the table
\* fails an assertion, and aliases that call each other never end.
Call(sh, f, depth) ==
    LET cb == f.node.cb
        a == AliasAt(sh, f.node.name)
        s == [sh EXCEPT !.ran = IF depth = 0 THEN f.path ELSE @ \o f.path]
        line == sh.alias[Least(a)].cmd
    IN  CASE cb = "alias_exec" ->
                IF a = {} THEN [sh EXCEPT !.end = "lost"]
                ELSE IF depth = MaxDepth THEN [sh EXCEPT !.end = "loop"]
                ELSE fh_cli_cmd_process([s EXCEPT !.called = <<f.node.name, line>>], line, depth + 1)
          [] f.argv # <<>> /\ Asks(Last(f.argv)) -> sh
          [] cb = "add" -> alias_add_cb(s, f.argv)
          [] cb = "del" -> alias_del_cb(s, f.argv)
          [] cb = "connect" -> connect_cb(s, f.argv)
          [] cb = "quit" -> quit_cb(s)
          [] OTHER -> s

\* The words before the first bar are the command; three words from it on
\* are a filter.
CommandArgs(args) == IF Bars(args) = {} \/ 1 \in Bars(args) THEN Len(args) ELSE Least(Bars(args)) - 1
fh_cli_cmd_process(sh, line, depth) ==
    IF SkipBlanks(line) = <<>> THEN sh
    ELSE Then(fh_cli_cmd_parse(SkipBlanks(line)), LAMBDA args :
         Then(CommandArgs(args), LAMBDA c_args :
         Then(Find(sh.tree, args, c_args), LAMBDA f :
              IF f.found # "leaf" THEN sh
              ELSE fh_cli_filter_clean(Call(IF Len(args) - c_args = 3 THEN fh_cli_filter_init(sh, args[c_args + 2])
                                            ELSE sh, f, depth)))))

(* fh_cli_cmd_complete: a question mark is put behind the line, past its   *)
(* end when the line starts with blanks, and the line is looked up.  One   *)
(* match completes the word; several complete it as far as the last of     *)
(* them differs from its siblings.  A command that is found is called.     *)
CompleteFilter(line, word) ==
    LET typed == Front(word)
        k == IF IsPrefix(typed, Spelling["include"]) THEN "include" ELSE "exclude"
    IN  IF Asks(word) /\ typed # <<>> /\ FilterWords(typed) # {}
        THEN line \o SubSeq(Spelling[k], Len(typed) + 1, Len(Spelling[k])) \o <<Blank>>
        ELSE line

CompleteWord(line, f, typed) ==
    LET m == Last(f.matches)
    IN  IF Len(f.matches) = 1 THEN line \o SubSeq(m.name, typed + 1, Len(m.name)) \o <<Blank>>
        ELSE IF f.matches # <<>> /\ typed > 0 THEN line \o SubSeq(m.name, typed + 1, m.uniq - 1)
        ELSE line

OddWords(args) == {i \in DOMAIN args \ Bars(args) : FilterWords(args[i]) = {} /\ \E b \in Bars(args) : b < i}

fh_cli_cmd_complete(sh, line) ==
    IF SkipBlanks(line) = <<>> THEN [sh |-> sh, line |-> line]
    ELSE Then(fh_cli_cmd_parse(IF line[1] = Blank THEN SkipBlanks(line) ELSE Append(line, "?")), LAMBDA args :
         IF OddWords(args) # {} THEN [sh |-> sh, line |-> CompleteFilter(line, args[Least(OddWords(args))])]
         ELSE Then(Find(sh.tree, args, Len(args)), LAMBDA f :
              [sh |-> IF f.found = "leaf" THEN Call(sh, f, 0) ELSE sh,
               line |-> IF f.found = "help" THEN CompleteWord(line, f, Len(Last(args)) - 1) ELSE line]))

-----------------------------------------------------------------------------
(* The start: the shell's own commands, the aliases of the file, fhctl's   *)
(* tables, and the attempt to reach the local manager.                     *)

Leaf(cb) == Node(Spelling[cb], cb, <<>>, 0)
alias_tree == fh_cli_register(<<>>, <<Leaf("add"), Leaf("del"), Leaf("ls")>>)
show_tree == fh_cli_register(<<>>, <<Leaf("show_version"), Node(Spelling["service"], "none", <<>>, 0)>>)
top_tree == <<Leaf("date"), Leaf("connect"), Node(Spelling["service"], "none", <<>>, 0),
              Node(Spelling["show"], "none", show_tree, 0)>>

fh_cli_init(file) ==
    fh_cli_alias_load(
        [tree |-> fh_cli_register(<<>>, <<Leaf("quit"), Leaf("history"), Leaf("help"),
                                          Node(Spelling["alias"], "none", alias_tree, 0)>>),
         alias |-> [i \in 1..ALIAS_CNT |-> NoAlias], alias_cnt |-> 0, file |-> file, next |-> 1,
         filter |-> "none", mode |-> "none", peer |-> <<>>, end |-> "",
         ran |-> <<>>, called |-> <<>>, tidy |-> TRUE,
         meant |-> [n \in {file[i][1] : i \in DOMAIN file} |->
                        file[Least({i \in DOMAIN file : file[i][1] = n})][2]]])

main(file) ==
    LET sh == fh_cli_init(file)
    IN  connect_cb([sh EXCEPT !.tree = fh_cli_register(@, top_tree)], <<Local>>)
=============================================================================
