------------------------------- MODULE EdgeLine -------------------------------
(***************************************************************************)
(* The TCP line handler (fh_shr_tcp_lh.c) with the DirectEdge session and  *)
(* parser (fh_edge_login.c, fh_edge_connect.c, fh_edge_parse.c): it logs   *)
(* in, asking for the messages from dir_edge_seq_num on, and cuts the byte *)
(* stream into messages with the static variables part_rx, offset and      *)
(* still_more.  The stream is modelled byte by byte with a shortened       *)
(* header and shortened bodies; the bytes keep what the code looks at: the *)
(* first one, the type at the end of the header, the display indicator of  *)
(* an add order and the line feeds.  The server is external: it sends,     *)
(* closes or resets at any byte, ends a session and begins the next.       *)
(***************************************************************************)
EXTENDS Integers, Sequences, FiniteSets, SequencesExt

CONSTANTS
  Kinds,        \* the kinds of sequenced messages the server sends
  HB_ALARM_TIMEOUT,
  MaxSessions,  \* bound on the sessions of the server
  MaxSend,      \* bound on the sequenced messages of all sessions
  MaxEvents,    \* bound on what else happens: heart beats, debug messages, closed and
                \* reset connections, refused connects and logins, timeouts of select
  MaxFails      \* bound on the hooks that fail

Hdr == 5         \* 10 in the code: the bytes up to the message type
\* The length the code reads for a type (ORDER_EXECUTED_MSG_SIZE, ADD_ORDER_MSG_SIZE).
MsgSize(t) == CASE t \in {"E", "A"} -> Hdr + 2
Attribution == 2 \* 4 in the code: what an attributed quote has after ADD_ORDER_MSG_SIZE

ASSUME EdgeAssumption ==
  /\ Kinds \subseteq {"executed", "add", "attributed"}
  /\ HB_ALARM_TIMEOUT \in Nat \ {0}
  /\ MaxSessions \in Nat /\ MaxSend \in Nat
  /\ MaxEvents \in Nat /\ MaxFails \in Nat

VARIABLES
  pc,        \* where the line handler thread is
  finished,  \* static finished
  conn,      \* the socket: down, up, eof, reset, closed (by the end of a session)
  wire,      \* bytes the server has sent that have not arrived
  sock,      \* bytes in the receive buffer
  rx_buf,    \* the bytes that part_rx or offset refers to, "?" for the others
  part_rx, offset, still_more, add_order,
  seq_num,   \* dir_edge_seq_num
  monitor,   \* monitor_hb_count
  first_time,
  alarm,     \* the last alarm downstream
  published, \* the messages handed to the plugin
  server,    \* session, stream (the kinds it has sent in it), ended; seen: the handler
             \* has read its end
  lag,       \* history: messages since the login that left seq_num where it was
  lost,      \* history: the messages not published, <<session, number>>: cut in two,
             \* refused by their hook or not sent
  torn,      \* history: the stream was cut where the code loses its place
  rolled,    \* history: a session ended without the handler seeing it
  budget

rxVars == <<rx_buf, part_rx, offset, still_more, add_order>>
sessVars == <<seq_num, monitor, first_time, alarm, published>>
history == <<lag, lost, torn, rolled>>
vars == <<pc, finished, conn, wire, sock, rxVars, sessVars, server, history, budget>>

Least(a, b) == IF a < b THEN a ELSE b
Most(a, b) == IF a < b THEN b ELSE a

LF == "lf"
Digit(n) == CASE n = 1 -> "1" [] n = 2 -> "2" [] n = 3 -> "3" [] n = 4 -> "4"

(* What the server writes: message n of session s; heart beat, end of session, debug. *)
Bytes(s, n, kind) ==
  <<"S", Digit(s), Digit(n), "0">> \o
    CASE kind = "executed"   -> <<"E", "0", LF>>
      [] kind = "add"        -> <<"A", "N", LF>>
      [] kind = "attributed" -> <<"A", "A", "m", "m", LF>>
Beat == <<"H", LF>>
EndOfSession == <<"S", LF>>
Debug == <<"+", "0", "0", "0", "0", LF>>

Stream(s, stream, from) ==
  FoldLeft(LAMBDA acc, n : acc \o Bytes(s, n, stream[n]), <<>>,
           [i \in 1..(Len(stream) - from + 1) |-> from + i - 1])

Event == budget.events > 0 /\ budget' = [budget EXCEPT !.events = @ - 1]
HookFails == budget.fails > 0 /\ budget' = [budget EXCEPT !.fails = @ - 1]

Init ==
  /\ pc = "start" /\ finished = FALSE
  /\ conn = "down" /\ wire = <<>> /\ sock = <<>>
  /\ rx_buf = [j \in 1..(Hdr + 4) |-> "?"]
  /\ part_rx = 0 /\ offset = 0 /\ still_more = 0 /\ add_order = FALSE
  /\ seq_num = 1 /\ monitor = 0 /\ first_time = FALSE /\ alarm = "none"
  /\ published = <<>>
  /\ server = [session |-> 1, stream |-> <<>>, ended |-> FALSE, seen |-> FALSE]
  /\ lag = 0 /\ lost = {} /\ torn = FALSE /\ rolled = FALSE
  /\ budget = [send |-> MaxSend, events |-> MaxEvents, fails |-> MaxFails]

-----------------------------------------------------------------------------
(* The server and the network. *)

lhVars == <<pc, finished, rxVars, sessVars, history>>

(* A step of the server or of the network between two reads of the handler is the same
   as one before its select, unless the next read shows it.  Once the handler has been
   stopped or has lost its place, the environment does no more than deliver what it has:
   nothing is claimed of what follows. *)
Visible == pc \in {"select", "attr", "attrwait"} \/ (pc = "peek" /\ (still_more > 0 \/ Len(sock) \in 1..Hdr))
Goes == pc \in {"connect", "select"} /\ ~finished /\ ~torn

Send(kind) ==
  /\ Goes /\ ~server.ended
  /\ server.stream # <<>> => kind # Last(server.stream)  \* a bound: kinds alternate
  /\ budget.send > 0 /\ budget' = [budget EXCEPT !.send = @ - 1]
  /\ server' = [server EXCEPT !.stream = Append(@, kind)]
  /\ wire' = IF conn = "up" THEN wire \o Bytes(server.session, Len(server.stream) + 1, kind) ELSE wire
  /\ UNCHANGED <<conn, sock, lhVars>>

SendOther(bytes) ==
  /\ Goes /\ conn = "up" /\ Event
  /\ wire' = wire \o bytes
  /\ UNCHANGED <<conn, sock, server, lhVars>>

Ends ==
  /\ Goes /\ ~server.ended /\ conn = "up" /\ server.session < MaxSessions
  /\ server' = [server EXCEPT !.ended = TRUE]
  /\ wire' = wire \o EndOfSession
  /\ UNCHANGED <<conn, sock, budget, lhVars>>

\* The next session: the handler has seen the last one end, or has not.
NewSession ==
  /\ server.ended /\ conn \in {"down", "closed"}
  /\ server' = [session |-> server.session + 1, stream |-> <<>>, ended |-> FALSE, seen |-> FALSE]
  /\ rolled' = (rolled \/ ~server.seen)
  /\ UNCHANGED <<pc, finished, conn, wire, sock, rxVars, sessVars, lag, lost, torn, budget>>

\* Bytes that arrive between the two reads of a rest are taken for a header.
Deliver(n) ==
  /\ Visible /\ (finished \/ torn => n = Len(wire))
  /\ sock' = sock \o SubSeq(wire, 1, n)
  /\ wire' = SubSeq(wire, n + 1, Len(wire))
  /\ torn' = (torn \/ (pc = "peek" /\ still_more > 0))
  /\ UNCHANGED <<conn, server, budget, pc, finished, rxVars, sessVars, lag, lost, rolled>>

\* The server closes: what has arrived can still be read.  Or it resets: nothing can.
Close ==
  /\ Visible /\ ~torn /\ conn = "up" /\ Event
  /\ conn' = "eof" /\ wire' = <<>>
  /\ UNCHANGED <<sock, server, lhVars>>

Reset ==
  /\ Visible /\ ~torn /\ conn = "up" /\ Event
  /\ conn' = "reset" /\ wire' = <<>> /\ sock' = <<>>
  /\ UNCHANGED <<server, lhVars>>

-----------------------------------------------------------------------------
(* fh_edge_conn_login, login_tcp_server *)

serverVars == <<server, lost, rolled>>

\* dir_edge_reconnect up to its connect loop.
Reconnect ==
  /\ pc' = "connect"
  /\ conn' = "down" /\ wire' = <<>> /\ sock' = <<>>
  /\ alarm' = IF first_time THEN "CONNECTION_BROKEN" ELSE alarm
  /\ first_time' = TRUE

Start ==
  /\ pc = "start"
  /\ Reconnect
  /\ UNCHANGED <<finished, rxVars, seq_num, monitor, published, serverVars, lag, torn, budget>>

\* The connect, or the login, fails: both loops sleep and try again, one of them
\* until finished.
ConnectFails ==
  /\ pc \in {"connect", "hbconnect"} /\ Event
  /\ UNCHANGED <<pc, finished, conn, wire, sock, rxVars, sessVars, server, history>>

GiveUp ==
  /\ pc = "connect" /\ finished
  /\ pc' = "select"
  /\ monitor' = HB_ALARM_TIMEOUT
  /\ UNCHANGED <<finished, conn, wire, sock, rxVars, seq_num, first_time, alarm, published,
                 server, history, budget>>

\* init_login_msg asks for seq_num of whatever session the server has: the code
\* copies the blank session of login_msg into cur_session, not the other way.
Connected ==
  /\ pc' = "select"
  /\ alarm' = IF pc = "connect" /\ ~finished THEN "CONNECTION_ESTABLISHED" ELSE alarm
  /\ monitor' = IF pc = "connect" THEN HB_ALARM_TIMEOUT ELSE monitor
  /\ torn' = (torn \/ part_rx > 0 \/ (pc = "hbconnect" /\ still_more > 0))
  /\ UNCHANGED <<finished, rxVars, first_time, published, serverVars, sock>>

LoginAccepted ==
  /\ pc \in {"connect", "hbconnect"} /\ ~server.ended
  /\ Connected
  /\ conn' = "up"
  /\ seq_num' = Least(seq_num, Len(server.stream) + 1)
  /\ wire' = Stream(server.session, server.stream, seq_num')
  /\ lag' = 0
  /\ UNCHANGED budget

\* A reject is read and logged, and login_tcp_server returns FH_OK; the server closes.
LoginRejected ==
  /\ pc \in {"connect", "hbconnect"} /\ Event
  /\ Connected
  /\ conn' = "eof"
  /\ UNCHANGED <<seq_num, wire, lag>>

-----------------------------------------------------------------------------
(* fh_shr_tcp_lh_run *)

Readable == sock # <<>> \/ conn \in {"eof", "reset"}

\* while (!finished); select reports a closed descriptor, a timeout or data.
\* mutant: the loop is left only when nothing is left to read
ExitWhenIdle ==
  /\ pc = "select" /\ finished /\ ~Readable
  /\ pc' = "done"
  /\ UNCHANGED <<finished, conn, wire, sock, rxVars, sessVars, server, history, budget>>

Exit ==
  /\ pc = "select" /\ finished
  /\ pc' = "done"
  /\ UNCHANGED <<finished, conn, wire, sock, rxVars, sessVars, server, history, budget>>

\* mutant: a closed descriptor is not taken for a lost connection
SelectFailsIgnored ==
  /\ pc = "select" /\ ~finished /\ conn = "closed"
  /\ UNCHANGED vars

SelectFails ==
  /\ pc = "select" /\ ~finished /\ conn = "closed"
  /\ Reconnect
  /\ UNCHANGED <<finished, rxVars, seq_num, monitor, published, serverVars, lag, torn, budget>>

Timeout ==
  /\ pc = "select" /\ ~finished /\ conn = "up" /\ ~Readable /\ ~torn /\ Event
  /\ monitor' = IF monitor = 1 THEN HB_ALARM_TIMEOUT ELSE monitor - 1
  /\ alarm' = IF monitor = 1 THEN "SERVER_HB_MISSING" ELSE alarm
  /\ UNCHANGED <<pc, finished, conn, wire, sock, rxVars, seq_num, first_time, published,
                 server, history>>

\* The connection breaks before send_hb_msg writes: it closes and connects again,
\* with no alarm and whether finished or not.  EPIPE comes with SIGPIPE, whose
\* handler sets finished.
TimeoutBroken(sigpipe) ==
  /\ pc = "select" /\ ~finished /\ conn = "up" /\ ~Readable /\ ~torn
  /\ Event
  /\ monitor' = IF monitor = 1 THEN HB_ALARM_TIMEOUT ELSE monitor - 1
  /\ alarm' = IF monitor = 1 THEN "SERVER_HB_MISSING" ELSE alarm
  /\ finished' = sigpipe
  /\ conn' = "down" /\ wire' = <<>>
  /\ pc' = "hbconnect"
  /\ UNCHANGED <<sock, rxVars, seq_num, first_time, published, server, history>>

Select ==
  /\ pc = "select" /\ ~finished /\ Readable
  /\ monitor' = HB_ALARM_TIMEOUT
  /\ pc' = IF still_more > 0 THEN "rest" ELSE "peek"
  /\ UNCHANGED <<finished, conn, wire, sock, rxVars, seq_num, first_time, alarm, published,
                 server, history, budget>>

\* rx_buf with bytes written at index i (from 0).
Put(i, bytes) == [j \in DOMAIN rx_buf |-> IF j > i /\ j <= i + Len(bytes) THEN bytes[j - i] ELSE rx_buf[j]]
\* buf, of which only the first n bytes are looked at again before they are overwritten.
Keep(buf, n) == rx_buf' = [j \in DOMAIN buf |-> IF j <= n THEN buf[j] ELSE "?"]
Consume(n) == sock' = SubSeq(sock, n + 1, Len(sock))

\* A connection found broken: reconnect, forget the rest, count an error.
BrokenEverywhere(part) ==
  /\ Reconnect
  /\ still_more' = 0 /\ offset' = 0 /\ part_rx' = part
  /\ UNCHANGED <<finished, rx_buf, add_order, seq_num, monitor, published, serverVars, lag, torn, budget>>

\* The message that the read position of the stream is at.
NextNumber == seq_num + lag

\* still_more > 0: the rest of a message.  It is parsed with rx_char '\0', which
\* fh_edge_parse_msg refuses, so nothing is published and seq_num stays.
RestComplete ==
  /\ pc = "rest" /\ Len(sock) >= still_more
  /\ Keep(Put(offset, SubSeq(sock, 1, still_more)), part_rx)
  /\ Consume(still_more)
  /\ offset' = 0 /\ still_more' = 0
  /\ pc' = "peek"
  /\ lag' = lag + 1
  /\ lost' = lost \cup {<<server.session, NextNumber>>}
  /\ UNCHANGED <<finished, conn, wire, part_rx, add_order, seq_num, monitor, first_time, alarm, published,
                 server, torn, rolled, budget>>

RestPartial ==
  /\ pc = "rest" /\ sock # <<>> /\ Len(sock) < still_more
  /\ Keep(Put(offset, sock), offset + Len(sock))
  /\ sock' = <<>>
  /\ offset' = offset + Len(sock) /\ still_more' = still_more - Len(sock)
  /\ pc' = "peek"
  /\ UNCHANGED <<finished, conn, wire, part_rx, add_order, sessVars, server, history, budget>>

RestBroken ==
  /\ pc = "rest" /\ sock = <<>> /\ conn \in {"eof", "reset"}
  /\ BrokenEverywhere(part_rx)

\* Nothing left to read, or an error: back to select.  A reset is reported once.
PeekNothing ==
  /\ pc = "peek" /\ sock = <<>> /\ conn \in {"up", "reset"}
  /\ pc' = "select"
  /\ conn' = IF conn = "reset" THEN "eof" ELSE conn
  /\ UNCHANGED <<finished, wire, sock, rxVars, sessVars, server, history, budget>>

PeekBroken ==
  /\ pc = "peek" /\ sock = <<>> /\ conn = "eof"
  /\ BrokenEverywhere(part_rx)

(* What the peek sees: the receive buffer laid over rx_buf from part_rx on. *)
reclen == Least(Len(sock), Hdr - part_rx)
Peeked == Put(part_rx, SubSeq(sock, 1, reclen))
HeaderSeen == pc = "peek" /\ sock # <<>> /\ reclen + part_rx = Hdr
HeaderPart == pc = "peek" /\ sock # <<>> /\ reclen + part_rx < Hdr
Used == Most(part_rx, offset)
rx_char == Peeked[Hdr]
Wanted == MsgSize(rx_char) - part_rx

(* fh_edge_parse_msg, whose result nobody looks at.  Published: the hook of the type made
   the data, the number goes on and the data are sent.  Refused: the hook failed, and the
   number stays.  Not sent: the number has gone on when hook_msg_send fails, and also when
   the hook of an executed order fails, whose result is not tested, so that what it left
   as data is sent. *)
Published(buf, len) ==
  /\ published' = Append(published, SubSeq(buf, 1, len))
  /\ seq_num' = seq_num + 1
  /\ UNCHANGED <<lag, lost, budget>>

Lose == lost' = lost \cup {<<server.session, NextNumber>>} /\ UNCHANGED published

Refused(buf) ==
  /\ buf[Hdr] # "E" /\ HookFails
  /\ Lose
  /\ lag' = lag + 1
  /\ UNCHANGED seq_num

NotSent ==
  /\ HookFails
  /\ Lose
  /\ seq_num' = seq_num + 1
  /\ UNCHANGED lag

\* mutant: the number is not advanced for attributed quotes
ParseForgets(buf, len) ==
  /\ published' = Append(published, SubSeq(buf, 1, len))
  /\ seq_num' = IF len > MsgSize("A") THEN seq_num ELSE seq_num + 1
  /\ UNCHANGED <<lag, lost, budget>>

Parse(buf, len) == Published(buf, len) \/ Refused(buf) \/ NotSent

SequencedSeen == HeaderSeen /\ Peeked[1] = "S"

\* A type the handler does not know is left where it is.
UnknownType ==
  /\ SequencedSeen /\ rx_char \notin {"E", "A"}
  /\ Keep(Peeked, Used)
  /\ pc' = "select"
  /\ UNCHANGED <<finished, conn, wire, sock, part_rx, offset, still_more, add_order, sessVars, server, history, budget>>

KnownType == SequencedSeen /\ rx_char \in {"E", "A"}

\* The whole message is there; a plain one is parsed, part_rx starts afresh.
Message ==
  /\ KnownType /\ Len(sock) >= Wanted
  /\ \E buf \in {Put(part_rx, SubSeq(sock, 1, Wanted))} :
       /\ Consume(Wanted)
       /\ IF (add_order \/ rx_char = "A") /\ buf[MsgSize(rx_char) - 1] = "A"
          THEN /\ pc' = "attr" /\ add_order' = TRUE
               /\ Keep(buf, MsgSize(rx_char))
               /\ UNCHANGED <<part_rx, seq_num, published, lag, lost, budget>>
          ELSE /\ Parse(buf, MsgSize(rx_char))
               /\ Keep(buf, offset)
               /\ part_rx' = 0 /\ add_order' = FALSE
               /\ UNCHANGED pc
  /\ UNCHANGED <<finished, conn, wire, offset, still_more, monitor, first_time, alarm, server,
                 torn, rolled>>

\* Less than the message: what is there is taken, part_rx keeps its value.
MessagePart ==
  /\ KnownType /\ Len(sock) < Wanted
  /\ Keep(Put(part_rx, sock), part_rx + Len(sock))
  /\ sock' = <<>>
  /\ offset' = Len(sock) + part_rx /\ still_more' = Wanted - Len(sock)
  /\ add_order' = (add_order \/ rx_char = "A")
  /\ torn' = (torn \/ part_rx > 0)
  /\ pc' = "select"
  /\ UNCHANGED <<finished, conn, wire, part_rx, sessVars, server, lag, lost, rolled, budget>>

(* get_rest_of_attributed_data: its test compares rx_len with itself, so any first read
   counts as the whole rest.  The socket does not block: a read that finds nothing sets
   rx_len to -1, and the size of the next one, rx_len - more, is as good as unlimited. *)
AttributedWaits ==
  /\ pc = "attr" /\ sock = <<>> /\ conn = "up"
  /\ pc' = "attrwait"
  /\ UNCHANGED <<finished, conn, wire, sock, rxVars, sessVars, server, history, budget>>

AttributedSize == IF pc = "attr" THEN Least(Attribution, Len(sock)) ELSE Len(sock)

Attributed ==
  /\ pc \in {"attr", "attrwait"} /\ sock # <<>>
  /\ \E size \in {MsgSize(rx_buf[Hdr])} :
       \E buf \in {Put(size, SubSeq(sock, 1, AttributedSize))} :
         /\ Keep(buf, offset)
         /\ Parse(buf, size + Attribution)
  /\ Consume(AttributedSize)
  /\ torn' = (torn \/ AttributedSize # Attribution)
  /\ part_rx' = 0 /\ add_order' = FALSE
  /\ pc' = "peek"
  /\ UNCHANGED <<finished, conn, wire, offset, still_more, monitor, first_time, alarm, server, rolled>>

\* Broken in the middle: the message is dropped.  A reset shows as an error first.
AttributedBroken ==
  /\ pc \in {"attr", "attrwait"} /\ sock = <<>> /\ conn \in {"eof", "reset"}
  /\ conn' = "eof"
  /\ pc' = IF conn = "reset" THEN "attrwait" ELSE "select"
  /\ UNCHANGED <<finished, wire, sock, rxVars, sessVars, server, history, budget>>

\* '+': the handler stays in get_and_send_debug_msg until it has seen a line feed.
LineFeeds == {i \in DOMAIN sock : sock[i] = LF}
FirstLF == CHOOSE i \in LineFeeds : \A j \in LineFeeds : i <= j

DebugMessage ==
  /\ HeaderSeen /\ Peeked[1] = "+" /\ LineFeeds # {}
  /\ Keep(Put(0, SubSeq(sock, 1, FirstLF)), Used)
  /\ Consume(FirstLF)
  /\ torn' = (torn \/ part_rx > 0)
  /\ UNCHANGED <<pc, finished, conn, wire, part_rx, offset, still_more, add_order, sessVars, server,
                 lag, lost, rolled, budget>>

\* Anything else: find_next_message skips to the line feed, or all there is.
FindNextMessage ==
  /\ HeaderSeen /\ Peeked[1] \notin {"S", "+"}
  /\ Keep(Peeked, Used)
  /\ Consume(IF LineFeeds = {} THEN Len(sock) ELSE FirstLF)
  /\ torn' = (torn \/ part_rx > 0)
  /\ pc' = "select"
  /\ UNCHANGED <<finished, conn, wire, part_rx, offset, still_more, add_order, sessVars, server,
                 lag, lost, rolled, budget>>

\* Less than a header: the end of the session, a heart beat, or a part of a header,
\* which is read into rx_buf from its beginning.
ProcessEndOfSession ==
  /\ HeaderPart /\ reclen >= 2 /\ Peeked[1] = "S" /\ Peeked[2] = LF
  /\ Keep(Peeked, Used)
  /\ sock' = <<>> /\ wire' = <<>> /\ conn' = "closed"
  /\ alarm' = "SESSION_TERMINATED"
  /\ server' = [server EXCEPT !.seen = TRUE]
  /\ seq_num' = 1
  /\ pc' = "select"
  /\ UNCHANGED <<finished, part_rx, offset, still_more, add_order, monitor, first_time, published,
                 history, budget>>

HeartBeat ==
  /\ HeaderPart /\ reclen >= 2 /\ Peeked[1] = "H" /\ Peeked[2] = LF
  /\ Keep([Peeked EXCEPT ![1] = sock[1], ![2] = sock[2]], Used)
  /\ Consume(2)
  /\ monitor' = HB_ALARM_TIMEOUT
  /\ pc' = "select"
  /\ UNCHANGED <<finished, conn, wire, part_rx, offset, still_more, add_order, seq_num, first_time, alarm,
                 published, server, history, budget>>

TakeHeaderPart ==
  /\ HeaderPart /\ reclen >= 2
  /\ <<Peeked[1], Peeked[2]>> \notin {EndOfSession, Beat}
  /\ Keep([j \in DOMAIN rx_buf |-> IF j <= reclen THEN sock[j] ELSE Peeked[j]], Most(reclen, offset))
  /\ Consume(reclen)
  /\ part_rx' = reclen
  /\ torn' = (torn \/ part_rx > 0)
  /\ pc' = "select"
  /\ UNCHANGED <<finished, conn, wire, offset, still_more, add_order, sessVars, server, lag, lost, rolled, budget>>

\* A single byte is left where it is.
OneByte ==
  /\ HeaderPart /\ reclen = 1
  /\ Keep(Peeked, Used)
  /\ pc' = "select"
  /\ UNCHANGED <<finished, conn, wire, sock, part_rx, offset, still_more, add_order, sessVars, server, history, budget>>

\* fh_shr_tcp_exit, from the signal handler or the management thread.
SetFinished ==
  /\ ~finished /\ ~torn /\ pc # "done"
  /\ finished' = TRUE
  /\ UNCHANGED <<pc, conn, wire, sock, rxVars, sessVars, server, history, budget>>

Connects == LoginAccepted \/ GiveUp
Reads ==
  \/ Start \/ Exit \/ SelectFails \/ Select
  \/ RestComplete \/ RestPartial \/ RestBroken \/ PeekNothing \/ PeekBroken
  \/ UnknownType \/ Message \/ MessagePart \/ AttributedWaits \/ Attributed \/ AttributedBroken
  \/ DebugMessage \/ FindNextMessage
  \/ ProcessEndOfSession \/ HeartBeat \/ TakeHeaderPart \/ OneByte

Next ==
  \/ \E kind \in Kinds : Send(kind)
  \/ SendOther(Beat) \/ SendOther(Debug)
  \/ Ends \/ NewSession
  \/ \E n \in 1..Len(wire) : Deliver(n)
  \/ Close \/ Reset
  \/ ConnectFails \/ LoginRejected
  \/ Timeout \/ (\E sigpipe \in BOOLEAN : TimeoutBroken(sigpipe))
  \/ Connects \/ Reads
  \/ SetFinished

(* The handler runs, the network delivers, the server goes on and lets the handler
   log in when it has not been refused MaxEvents times. *)
Spec ==
  /\ Init /\ [][Next]_vars
  /\ WF_vars(Reads) /\ WF_vars(Connects)
  /\ WF_vars(NewSession) /\ WF_vars(\E n \in 1..Len(wire) : Deliver(n))

-----------------------------------------------------------------------------
TypeOK ==
  /\ pc \in {"start", "connect", "hbconnect", "select", "rest", "peek", "attr", "attrwait", "done"}
  /\ conn \in {"down", "up", "eof", "reset", "closed"}
  /\ part_rx \in 0..(Hdr - 1) /\ DOMAIN rx_buf = 1..(Hdr + 4)
  /\ offset \in 0..(Hdr + 2) /\ still_more \in 0..(Hdr + 2)
  /\ monitor \in 0..HB_ALARM_TIMEOUT /\ (pc = "select" => monitor > 0)
  /\ seq_num \in Nat \ {0} /\ lag \in Nat

\* The history so far has none of the cuts that the handler is known to lose its place by.
InPlace == ~torn /\ ~rolled

\* The positions at which sequenced messages begin in the unread bytes.
Unread == sock \o wire
Starts == {i \in 1..(Len(Unread) - 1) : Unread[i] = "S" /\ Unread[i + 1] # LF}

\* dir_edge_seq_num is the number of the message the stream goes on with, less the
\* messages that arrived in two pieces or that their hook refused: across heart beats, debug messages, headers in
\* two pieces, reconnects and ends of sessions (fh_shr_tcp_lh.c:384, fh_edge_parse.c:574).
InStep ==
  ~torn /\ conn = "up" /\ pc = "select" /\ part_rx = 0 /\ still_more = 0
    => IF Starts = {} THEN NextNumber = Len(server.stream) + 1
       ELSE \A i \in Starts : (\A j \in Starts : i <= j) => Unread[i + 2] = Digit(NextNumber)

\* While no message is lost, what was published of a session is what the server sent,
\* each message once, whole and in order, up to seq_num: no byte of one message ends up
\* in another, nothing is skipped or repeated by a reconnect.
OfSession(s) == SelectSeq(published, LAMBDA p : p[2] = Digit(s))
Exactly ==
  InPlace /\ lost = {} /\ conn = "up"
    => OfSession(server.session)
         = [n \in 1..(seq_num - 1) |-> Bytes(server.session, n, server.stream[n])]

\* Only a message that arrived in two pieces, that its hook refused or that was not sent
\* is lost, also when the numbering lags behind because of one and a reconnect has old
\* messages repeated.
LossesKnown ==
  InPlace /\ conn = "up" =>
    \A n \in 1..(NextNumber - 1) :
      \/ <<server.session, n>> \in lost
      \/ \E i \in DOMAIN published : published[i] = Bytes(server.session, n, server.stream[n])

\* The connection has gone and left a piece the handler peeks at for ever: one byte of
\* a header, or a debug message without its line feed.
DebugStuck == conn = "eof" /\ HeaderSeen /\ Peeked[1] = "+" /\ LineFeeds = {}
Stranded ==
  /\ conn = "eof" /\ still_more = 0 /\ sock # <<>>
  /\ \/ reclen = 1 /\ part_rx + 1 < Hdr
     \/ DebugStuck

\* Every message of the session is published in the end or is one of the messages known
\* to be lost, whatever connections break and hooks fail meanwhile, unless the handler
\* stops, is stranded or a cut made it lose its place.
Delivered ==
  \A s \in 1..MaxSessions, n \in 1..MaxSend :
    (server.session = s /\ Len(server.stream) >= n) ~>
      \/ ~InPlace \/ finished \/ Stranded \/ <<s, n>> \in lost
      \/ \E i \in DOMAIN published : published[i][2] = Digit(s) /\ published[i][3] = Digit(n)

\* A handler that is told to stop ends, except in the middle of a debug message.
Exits == finished ~> (pc = "done" \/ DebugStuck)

\* The handler keeps its place in the byte stream and in the numbering: what it asks for
\* after a reconnect, what it publishes and what it loses are exactly accounted for.
StreamExact == TypeOK /\ InStep /\ Exactly /\ LossesKnown

=============================================================================
