------------------------------ MODULE MCAlone -------------------------------
(* The parts that run on their own, side by side: the FAST codecs over small *)
(* packets, the management shell over short sessions, and the messages of  *)
(* the management protocol over a connection that cuts them.               *)
EXTENDS ArcaFast, OpraFast, Cli, Adm

\* An order, its change and its removal, an auction, a refresh, and the
\* messages about symbols, with values that make fields repeat, step and
\* need two bytes.
MCOrder(t, seq, vol, firm) ==
    [type |-> t, val |-> (STOCK_IDX :> 200) @@ (SEQUENCE :> seq) @@ (TIME :> 5) @@ (ORDER_ID :> 9)
        @@ (VOLUME :> vol) @@ (PRICE :> 300) @@ (PRICE_SCALE :> 2) @@ (BUY_SELL :> 66)
        @@ (EXCH_ID :> 80) @@ (SECURITY_TYPE :> 69) @@ (FIRM_ID :> firm) @@ (SESSION_ID :> 3)]
MCOnly(m, fs) == [m EXCEPT !.val = [f \in fs |-> m.val[f]]]

MCMessages ==
    {MCOrder(100, 7, 100, 4),
     MCOrder(101, 8, 100, 4),
     MCOnly(MCOrder(102, 8, 100, 130), DOMAIN MCOrder(102, 8, 0, 0).val \ {VOLUME, PRICE, PRICE_SCALE}),
     [MCOrder(103, 7, 130, 9) EXCEPT !.val = @ @@ (BITMAP :> 1)],
     [type |-> 35, val |-> (STOCK_IDX :> 200) @@ (SESSION_ID :> 3) @@ (BITMAP :> <<65, 66>>)],
     [type |-> 36, val |-> (SEQUENCE :> 9) @@ (STOCK_IDX :> 200) @@ (SESSION_ID :> 3)],
     [type |-> 37, val |-> (FIRM_ID :> 4) @@ (BITMAP :> <<65>>)],
     MCOnly(MCOrder(32, 8, 100, 4), DOMAIN MCOrder(32, 8, 0, 0).val \ {STOCK_IDX, SESSION_ID}),
     [type |-> 1, val |-> SEQUENCE :> 9],
     [type |-> 50, val |-> <<>>]}

-----------------------------------------------------------------------------
MCTags == {MakeTag("U32", op, 0) : op \in {"NONE", "COPY", "INCR", "DELTA"}}
          \cup {MakeTag("I32", op, 0) : op \in {"NONE", "COPY"}}
          \cup {MakeTag("STR", op, 0) : op \in {"NONE", "COPY", "DELTA"}}
\* Both sides of each change of length and of sign.
MCNumbers == {0, 1, 63, 64, 127, 128, 8192, Word \div 2, Word - 1, Word - 65}
MCStrings == {<<65, 66>>, <<65, 67>>, <<68, 66>>}

-----------------------------------------------------------------------------
\* OPRA messages; v is a value that some of them share and some do not.
MCMsg(handed, cat, type, seq, body) ==
    <<handed, <<<<0, cat>>, <<1, type>>, <<2, 80>>, <<3, 32>>, <<4, seq>>, <<5, 300>>>> \o body>>
MCContract(v) == <<<<6, <<65, 66, 32, 32, 32>>>>, <<7, v>>, <<8, 17>>, <<9, 9>>, <<10, v>>, <<11, 500>>, <<12, 1>>>>
MCPlain(slots, v) == [i \in DOMAIN slots |-> <<slots[i], v>>]
MCQuote(bbo, seq, v, more) ==
    MCMsg(TRUE, 107, 32, seq, MCContract(v) \o MCPlain(<<15, 25, 26, 27, 28, 29>>, v)
                              \o <<<<30, bbo>>>> \o MCPlain(more, v))
MCIndex(v) == <<<<41, <<v, 32, 32>>>>, <<42, [i \in 1..8 |-> 49]>>>>
MCBidOffer(v) == <<<<41, <<v, 32, 32>>>>, <<43, [i \in 1..8 |-> 49]>>, <<44, [i \in 1..8 |-> v]>>>>
MCText(cat, seq, n) == MCMsg(TRUE, cat, 65, seq, <<<<48, [i \in 1..n |-> 65]>>>>)

MCPackets ==
    {<<MCQuote(65, 7, 2, <<>>), MCQuote(67, 8, 2, BestOffer), MCQuote(67, 9, 2, BestOffer)>>,
     <<MCQuote(79, 9, 200, BestBid \o BestOffer), MCQuote(77, 10, 2, BestBid)>>,
     <<MCMsg(TRUE, 100, 32, 7, MCContract(2) \o MCPlain(<<14>>, 2)),
       MCMsg(TRUE, 97, 32, 8, MCContract(2) \o MCPlain(<<13, 15, 16, 29>>, 2))>>,
     <<MCMsg(TRUE, 102, 32, 8, MCContract(3) \o MCPlain(<<13, 14, 15, 17, 18, 19, 20, 21, 22, 23, 24, 25, 27>>, 3)),
       MCQuote(65, 9, 3, <<>>)>>,
     <<MCMsg(FALSE, 79, 32, 3, <<<<6, <<65, 66, 67>>>>, <<8, 1>>>> \o MCPlain(<<12, 13, 16>>, 4)),
       MCMsg(FALSE, 85, 32, 4, <<<<6, <<65, 66, 67>>>>, <<8, 2>>>> \o MCPlain(<<12, 25, 27>>, 4))>>,
     <<MCMsg(FALSE, 70, 32, 3, <<<<6, <<65, 66, 67>>>>, <<8, 1>>>>
                                \o MCPlain(<<12, 13, 14, 17, 18, 19, 20, 21, 22, 24>>, 4))>>,
     <<MCMsg(TRUE, 89, 32, 4, <<<<39, 2>>>> \o MCIndex(65) \o MCIndex(65)),
       MCMsg(TRUE, 89, 73, 5, <<<<39, 2>>>> \o MCBidOffer(65) \o MCBidOffer(66))>>,
     <<MCMsg(TRUE, 89, 70, 5, <<<<40, 1>>, <<45, <<65, 32, 32>>>>, <<46, 1>>, <<47, 900>>>>),
       MCMsg(FALSE, 89, 90, 9, <<>>)>>,
     <<MCText(67, 5, 3), MCText(72, 6, 2)>>,
     <<MCQuote(65, 20, 2, <<>>), <<FALSE, <<<<0, 66>>, <<49, <<65, 66>>>>>>>>, <<FALSE, MCQuote(90, 21, 2, <<>>)[2]>>>>}

-----------------------------------------------------------------------------
(* The shell: the commands are spelt short, with the prefixes they share.  *)

MCSpelling ==
    [quit |-> <<"q">>, history |-> <<"h", "i">>, help |-> <<"h", "e">>, alias |-> <<"a", "l">>,
     add |-> <<"a">>, del |-> <<"d">>, ls |-> <<"l">>, date |-> <<"d", "a">>,
     connect |-> <<"c", "o">>, service |-> <<"s", "e">>, show |-> <<"s", "h">>, show_version |-> <<"v">>,
     all |-> <<"a", "l">>, status |-> <<"s", "t", "u">>, stats |-> <<"s", "t", "s">>, version |-> <<"v">>,
     enable |-> <<"e">>, disable |-> <<"d">>, start |-> <<"s", "t", "a">>, stop |-> <<"s", "t", "o">>,
     restart |-> <<"r">>, clrstats |-> <<"c">>, include |-> <<"i">>, exclude |-> <<"e">>]

\* A group of two services whose names begin alike, beside one of one.
MCHosts ==
    (<<"m">> :> [does |-> "answers", groups |-> <<[name |-> <<"g">>, services |-> <<<<"g", "1">>, <<"g", "2">>>>],
                                                [name |-> <<"s">>, services |-> <<<<"s">>>>]>>])
    @@ (<<"n">> :> [does |-> "silent", groups |-> <<>>])
    @@ (<<"o">> :> [does |-> "refuses", groups |-> <<>>])
MCLocal == <<"o">>

MCLines ==
    {<<"a", "l", " ", "a", " ", "x", " ", "\"", "s", "e", " ", "a", "l", " ", "r", "\"">>,
     <<"a", "l", " ", "a", " ", "s", " ", "d", "a">>,
     <<"a", "l", " ", "a", " ", "S", "h", "1", " ", "d", "a">>,
     <<"S", "h", " ", "v">>,
     <<"a", "l", " ", "d", " ", "x">>,
     <<"x">>,
     <<"s">>,
     <<"s", "e", " ", "a", "l", " ", "r">>,
     <<"s", "e", " ", "g", "1", " ", "s", "t", "o">>,
     <<"c", "o", " ", "m">>,
     <<"c", "o", " ", "o">>,
     <<"d", "a", " ", "|", " ", "i", " ", "x">>,
     <<"!", "d">>,
     <<"!", "1">>,
     <<"!", "!">>,
     <<"q">>,
     <<"h">>}
MCKeys ==
    {<<"d">>, <<"s">>, <<"BS">>, <<"TAB">>, <<"ENTER">>, <<"ESC", "[", "A">>, <<"ESC", "[", "B">>, <<"ESC", "[", "D">>,
     <<"ESC">>, <<"^A">>, <<"ESC", "BS">>, <<"^K">>, <<"^Y">>, <<"^U">>, <<"^R">>, <<"^D">>, <<"^L", "^E", "ESC", "[", "C", " ">>}
MCInputs == MCKeys \cup {Append(line, "ENTER") : line \in MCLines}

\* Nothing, and a history that fills the ring beside one alias.
MCFiles ==
    {[hist |-> <<>>, alias |-> <<>>],
     [hist |-> <<<<"s", "h", " ", "v">>, <<"d", "a">>, <<"s", "e", " ", "a", "l", " ", "r">>>>, alias |-> <<<<<<"d", "x">>, <<"d", "a">>>>>>]}

-----------------------------------------------------------------------------
(* Management messages.  No two bytes of a number are the same.            *)
MCLong(n) == <<n, n + 1, n + 2, n + 3>>
MCCounter(n) == MCLong(n) \o MCLong(n + 4)
MCStatus(s) == [status_service |-> s, status |-> [i \in 1..8 |-> MCLong(9 * i)]]
MCLine(n) == [line_name |-> <<n>>, line |-> [i \in 1..13 |-> MCCounter(n + i)]]
MCStats(s, n) == [stats_service |-> s, stats_state |-> MCLong(3), stats_lines |-> [i \in 1..n |-> MCLine(i)]]
MCServ(cmd, resps) == [serv_name |-> <<97>>, serv_resp_cmd |-> cmd, resps |-> resps]
MCGroups == <<[name |-> <<103>>, services |-> <<<<97>>, <<98, 99>>, <<100>>>>, cli |-> {<<97>>, <<98, 99>>}],
              [name |-> <<104>>, services |-> <<<<105>>>>, cli |-> {}],
              [name |-> <<106, 107>>, services |-> <<<<108>>>>, cli |-> {<<108>>}]>>
MCAdm(type, msg) == [type |-> type, tid |-> MCLong(TypeNo(type)), msg |-> msg]

MCAdmMessages ==
    {MCAdm("REG_REQ", [reg_type |-> <<1, 2>>, reg_port |-> <<3, 4>>, reg_addr |-> MCLong(5),
                       reg_pid |-> MCLong(7), reg_srv |-> <<97>>]),
     MCAdm("REG_RESP", [reg_conn_id |-> MCLong(1)]),
     MCAdm("GETVER_REQ", [getver_service |-> <<97, 98>>]),
     MCAdm("GETVER_RESP", [getver_service |-> <<>>, getver_state |-> MCLong(1), getver_build |-> [i \in 1..32 |-> i]]),
     MCAdm("SERV_REQ", [serv_name |-> <<97>>, serv_cmd |-> MCLong(1)]),
     MCAdm("STATUS_REQ", [status_service |-> <<97, 98>>]),
     MCAdm("STATUS_RESP", MCStatus(<<97>>)),
     MCAdm("STATS_REQ", [stats_service |-> <<97>>]),
     MCAdm("STATS_RESP", MCStats(<<97>>, 1)),
     MCAdm("SERV_RESP", MCServ("STATUS_RESP", <<MCStatus(<<97>>), MCStatus(<<98, 97>>)>>)),
     MCAdm("SERV_RESP", MCServ("STATS_RESP", <<MCStats(<<>>, 2), MCStats(<<98>>, 0)>>)),
     MCAdm("SERV_RESP", MCServ("GETVER_RESP", <<>>)),
     MCAdm("ACTION_REQ", [action_type |-> MCLong(1)]),
     MCAdm("SGT_REQ", [sgt_reserved |-> MCLong(1)]),
     MCAdm("SGT_RESP", fh_mgmt_sgt_resp(MCGroups)),
     MCAdm("SGT_RESP", fh_mgmt_sgt_resp(<<>>))}
MCLastMessages == {m \in MCAdmMessages : m.type = "SERV_REQ"}

-----------------------------------------------------------------------------
VARIABLE which         \* which of the five is looked at

Init == /\ which \in {"arca", "api", "opra", "cli", "adm"}
        /\ FastInit /\ ApiInit /\ OpraFastInit /\ CliInit /\ AdmInit
        /\ which # "api" => tag = CHOOSE t \in ApiTags : TRUE
        /\ which # "cli" => hist_file = <<>>

Next == \/ which = "arca" /\ FastNext /\ UNCHANGED <<which, apiVars, opraFastVars, cliVars, admVars>>
        \/ which = "api" /\ ApiNext /\ UNCHANGED <<which, fastVars, opraFastVars, cliVars, admVars>>
        \/ which = "opra" /\ OpraFastNext /\ UNCHANGED <<which, fastVars, apiVars, cliVars, admVars>>
        \/ which = "cli" /\ CliNext /\ UNCHANGED <<which, fastVars, apiVars, opraFastVars, admVars>>
        \/ which = "adm" /\ AdmNext /\ UNCHANGED <<which, fastVars, apiVars, opraFastVars, cliVars>>

Spec == Init /\ [][Next]_<<which, fastVars, apiVars, opraFastVars, cliVars, admVars>>
=============================================================================
