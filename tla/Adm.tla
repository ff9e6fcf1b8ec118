-------------------------------- MODULE Adm ---------------------------------
(***************************************************************************)
(* The messages of the management protocol: how each is packed and         *)
(* unpacked (mgmt/lib/admin/), the header before it (fh_mgmt_admin.c), and *)
(* its way through a connection that may cut it anywhere (common/fh_tcp.c).*)
(*                                                                         *)
(* Memory is a sequence of bytes.  A number is the sequence of its bytes   *)
(* in the order of the host, the low one first, so the conversions are     *)
(* what they do to that order.  A name is the sequence of its characters,  *)
(* and fills its array with them, a zero, and whatever was there.          *)
(***************************************************************************)
EXTENDS Integers, Sequences, SequencesExt

CONSTANTS
    NameLen,       \* size of the array of a service's name
    LineNameLen,   \* size of the array of a line's name
    MaxLines,      \* FH_MGMT_MAX_LINES
    AnyByte,       \* what memory holds that nobody wrote
    AdmMessages,   \* the messages: [type, tid, msg]
    LastMessages,  \* those that may be cut when the sender ends
    Pieces,        \* the sizes of the pieces that arrive
    MaxLate,       \* bound: size of the messages that may take too long
    MaxAdm         \* bound: messages sent

ASSUME AdmAssumption ==
    NameLen \in Nat \ {0} /\ LineNameLen \in Nat \ {0} /\ MaxLines \in Nat
    /\ MaxLate \in Nat /\ MaxAdm \in Nat

-----------------------------------------------------------------------------
(* Bytes.                                                                  *)

U16(n) == <<n % 256, n \div 256>>
U32(n) == U16(n % 65536) \o U16(n \div 65536)
Num(b) == FoldRight(LAMBDA x, n : 256 * n + x, b, 0)

htons(x) == Reverse(x)
htonl(x) == Reverse(x)

\* Each half is converted and takes the place of the other.
htonll(x) == htonl(SubSeq(x, 5, 8)) \o htonl(SubSeq(x, 1, 4))
ntohll(x) == htonl(SubSeq(x, 5, 8)) \o htonl(SubSeq(x, 1, 4))

\* strcpy to an array of n bytes, and from one.
Array(s, n) == s \o <<0>> \o [i \in 1..n - Len(s) - 1 |-> AnyByte]
Chars0(b) == SubSeq(b, 1, (CHOOSE i \in DOMAIN b : b[i] = 0 /\ \A j \in 1..i - 1 : b[j] # 0) - 1)
NameOut(s) == Array(s, NameLen)

\* The elements of an array, each of n bytes, one behind the other.
Joined(a, n) == [k \in 1..n * Len(a) |-> a[(k - 1) \div n + 1][((k - 1) % n) + 1]]

\* n bytes of d from offset o on.
Part(d, o, n) == SubSeq(d, o + 1, o + n)
NameIn(d, o) == Chars0(Part(d, o, NameLen))
LongIn(d, o) == htonl(Part(d, o, 4))
ShortIn(d, o) == htons(Part(d, o, 2))

-----------------------------------------------------------------------------
(* The messages, one by one.                                               *)

adm_reg_req_pack(m) ==
    htons(m.reg_type) \o htons(m.reg_port) \o m.reg_addr \o htonl(m.reg_pid) \o NameOut(m.reg_srv)
adm_reg_req_unpack(d) ==
    [reg_type |-> ShortIn(d, 0), reg_port |-> ShortIn(d, 2), reg_addr |-> Part(d, 4, 4),
     reg_pid |-> LongIn(d, 8), reg_srv |-> NameIn(d, 12)]

adm_reg_resp_pack(m) == htonl(m.reg_conn_id)
adm_reg_resp_unpack(d) == [reg_conn_id |-> LongIn(d, 0)]

adm_getver_req_pack(m) == NameOut(m.getver_service)
adm_getver_req_unpack(d) == [getver_service |-> NameIn(d, 0)]

\* The whole structure is copied; date and revision are kept as they are.
adm_getver_resp_pack(m) == NameOut(m.getver_service) \o htonl(m.getver_state) \o m.getver_build
adm_getver_resp_unpack(d) ==
    [getver_service |-> NameIn(d, 0), getver_state |-> LongIn(d, NameLen),
     getver_build |-> SubSeq(d, NameLen + 5, Len(d))]

adm_serv_req_pack(m) == NameOut(m.serv_name) \o htonl(m.serv_cmd)
adm_serv_req_unpack(d) == [serv_name |-> NameIn(d, 0), serv_cmd |-> LongIn(d, NameLen)]

adm_status_req_pack(m) == NameOut(m.status_service)
adm_status_req_unpack(d) == [status_service |-> NameIn(d, 0)]

\* state, pid, cpu, thread, up time, memory, user and system time
adm_status_resp_pack(m) ==
    NameOut(m.status_service) \o Joined([i \in 1..8 |-> htonl(m.status[i])], 4)
adm_status_resp_unpack(d) ==
    [status_service |-> NameIn(d, 0), status |-> [i \in 1..8 |-> LongIn(d, NameLen + 4 * (i - 1))]]

adm_stats_req_pack(m) == NameOut(m.stats_service)
adm_stats_req_unpack(d) == [stats_service |-> NameIn(d, 0)]

\* The array of lines is sent whole; those beyond the count are not written.
\* Packets and messages of a line are thirteen counters.
LineSize == LineNameLen + 13 * 8
LineOut(l) == Array(l.line_name, LineNameLen) \o Joined([i \in 1..13 |-> htonll(l.line[i])], 8)
LineIn(d, o) ==
    [line_name |-> Chars0(Part(d, o, LineNameLen)),
     line |-> [i \in 1..13 |-> ntohll(Part(d, o + LineNameLen + 8 * (i - 1), 8))]]

adm_stats_resp_pack(m) ==
    NameOut(m.stats_service) \o htonl(m.stats_state) \o htonl(U32(Len(m.stats_lines)))
    \o Joined([i \in 1..MaxLines |-> IF i <= Len(m.stats_lines) THEN LineOut(m.stats_lines[i])
                                     ELSE [k \in 1..LineSize |-> AnyByte]], LineSize)
adm_stats_resp_unpack(d) ==
    [stats_service |-> NameIn(d, 0), stats_state |-> LongIn(d, NameLen),
     stats_lines |-> [i \in 1..Num(LongIn(d, NameLen + 4)) |-> LineIn(d, NameLen + 8 + LineSize * (i - 1))]]

adm_action_req_pack(m) == htonl(m.action_type)
adm_action_req_unpack(d) == [action_type |-> LongIn(d, 0)]

adm_sgt_req_pack(m) == htonl(m.sgt_reserved)
adm_sgt_req_unpack(d) == [sgt_reserved |-> LongIn(d, 0)]

\* fh_mgmt_sgt_resp: the services a group shows, and the sizes.
fh_mgmt_sgt_resp(groups) ==
    LET shown == [i \in DOMAIN groups |->
                    [sg_name |-> groups[i].name,
                     services |-> SelectSeq(groups[i].services, LAMBDA s : s \in groups[i].cli)]]
        sizes == [i \in DOMAIN shown |-> NameLen + 8 + NameLen * Len(shown[i].services)]
    IN  [sgt_size |-> FoldLeft(LAMBDA a, b : (a + b) % 65536, 0, sizes), groups |-> shown]

GroupOut(g) ==
    NameOut(g.sg_name) \o htonl(U32(Len(g.services))) \o htonl(U32(NameLen * Len(g.services)))
    \o Joined([i \in DOMAIN g.services |-> NameOut(g.services[i])], NameLen)

adm_sgt_resp_pack(m) ==
    htons(U16(Len(m.groups))) \o htons(U16(m.sgt_size)) \o FlattenSeq([i \in DOMAIN m.groups |-> GroupOut(m.groups[i])])

GroupIn(d, acc) ==
    LET o == acc.off
        n == Num(LongIn(d, o + NameLen))
    IN  [off |-> o + NameLen + 8 + Num(LongIn(d, o + NameLen + 4)),
         groups |-> Append(acc.groups, [sg_name |-> NameIn(d, o),
                        services |-> [i \in 1..n |-> NameIn(d, o + NameLen + 8 + NameLen * (i - 1))]])]

adm_sgt_resp_unpack(d) ==
    [sgt_size |-> Num(ShortIn(d, 2)),
     groups |-> FoldLeft(LAMBDA acc, i : GroupIn(d, acc), [off |-> 4, groups |-> <<>>],
                         [i \in 1..Num(ShortIn(d, 0)) |-> i]).groups]

-----------------------------------------------------------------------------
(* The table of the messages.  A message whose length is not that of its   *)
(* structure fails an assertion.                                           *)

SizeOf(type) ==
    CASE type \in {"REG_RESP", "ACTION_REQ", "SGT_REQ"} -> 4
      [] type \in {"GETVER_REQ", "STATUS_REQ", "STATS_REQ"} -> NameLen
      [] type = "REG_REQ" -> NameLen + 12
      [] type = "GETVER_RESP" -> NameLen + 4 + 32
      [] type = "SERV_REQ" -> NameLen + 4
      [] type = "STATUS_RESP" -> NameLen + 32
      [] type = "STATS_RESP" -> NameLen + 8 + MaxLines * LineSize

fh_adm_pack(type, m) ==
    CASE type = "REG_REQ" -> adm_reg_req_pack(m) [] type = "REG_RESP" -> adm_reg_resp_pack(m)
      [] type = "GETVER_REQ" -> adm_getver_req_pack(m) [] type = "GETVER_RESP" -> adm_getver_resp_pack(m)
      [] type = "SERV_REQ" -> adm_serv_req_pack(m) [] type = "STATUS_REQ" -> adm_status_req_pack(m)
      [] type = "STATUS_RESP" -> adm_status_resp_pack(m) [] type = "STATS_REQ" -> adm_stats_req_pack(m)
      [] type = "STATS_RESP" -> adm_stats_resp_pack(m) [] type = "ACTION_REQ" -> adm_action_req_pack(m)
      [] type = "SGT_REQ" -> adm_sgt_req_pack(m) [] type = "SGT_RESP" -> adm_sgt_resp_pack(m)

\* Of the payload d, no more than the structure is looked at.
fh_adm_unpack(type, d) ==
    CASE type = "REG_REQ" -> adm_reg_req_unpack(d) [] type = "REG_RESP" -> adm_reg_resp_unpack(d)
      [] type = "GETVER_REQ" -> adm_getver_req_unpack(d) [] type = "GETVER_RESP" -> adm_getver_resp_unpack(d)
      [] type = "SERV_REQ" -> adm_serv_req_unpack(d) [] type = "STATUS_REQ" -> adm_status_req_unpack(d)
      [] type = "STATUS_RESP" -> adm_status_resp_unpack(d) [] type = "STATS_REQ" -> adm_stats_req_unpack(d)
      [] type = "STATS_RESP" -> adm_stats_resp_unpack(d) [] type = "ACTION_REQ" -> adm_action_req_unpack(d)
      [] type = "SGT_REQ" -> adm_sgt_req_unpack(d) [] type = "SGT_RESP" -> adm_sgt_resp_unpack(d)

Types == <<"REG_REQ", "REG_RESP", "GETVER_REQ", "GETVER_RESP", "SERV_REQ", "SERV_RESP", "STATS_REQ",
           "STATS_RESP", "STATUS_REQ", "STATUS_RESP", "ACTION_REQ", "SGT_REQ", "SGT_RESP">>
TypeNo(type) == CHOOSE i \in DOMAIN Types : Types[i] = type

\* The answers of several services, one behind the other.
adm_serv_resp_pack(m) ==
    NameOut(m.serv_name) \o htonl(U32(Len(m.resps))) \o htonl(U32(SizeOf(m.serv_resp_cmd)))
    \o htonl(U32(TypeNo(m.serv_resp_cmd)))
    \o Joined([i \in DOMAIN m.resps |-> fh_adm_pack(m.serv_resp_cmd, m.resps[i])], SizeOf(m.serv_resp_cmd))
adm_serv_resp_unpack(d) ==
    LET cmd == Types[Num(LongIn(d, NameLen + 8))]
        size == Num(LongIn(d, NameLen + 4))
    IN  [serv_name |-> NameIn(d, 0), serv_resp_cmd |-> cmd,
         resps |-> [i \in 1..Num(LongIn(d, NameLen)) |->
                        fh_adm_unpack(cmd, Part(d, NameLen + 12 + size * (i - 1), size))]]

\* The length a message must have.
Expected(type, d) ==
    CASE type = "SERV_RESP" -> NameLen + 12 + Num(LongIn(d, NameLen)) * Num(LongIn(d, NameLen + 4))
      [] type = "SGT_RESP" -> 4 + Num(ShortIn(d, 2))
      [] OTHER -> SizeOf(type)

-----------------------------------------------------------------------------
(* The header, and the connection.                                         *)

FH_ADM_MAGIC == <<77, 60, 43, 26>>
HeaderSize == 16

fh_adm_create(type, tid, m) ==
    LET body == IF type = "SERV_RESP" THEN adm_serv_resp_pack(m) ELSE fh_adm_pack(type, m)
    IN  htonl(FH_ADM_MAGIC) \o htonl(U32(TypeNo(type))) \o htonl(tid) \o htonl(U32(Len(body))) \o body

fh_adm_parse(type, d) ==
    IF Expected(type, d) # Len(d) THEN [fails |-> type]
    ELSE IF type = "SERV_RESP" THEN adm_serv_resp_unpack(d) ELSE fh_adm_unpack(type, d)

VARIABLES
    wire,          \* bytes written, not yet arrived
    sock,          \* bytes arrived, not yet read
    shut,          \* the sender is gone
    rcv,           \* the receiver: "idle", the size it reads, or "failed"
    late,          \* history: a message took longer than the receiver waits
    adm_sent, adm_got

admVars == <<wire, sock, shut, rcv, late, adm_sent, adm_got>>

AdmInit ==
    /\ wire = <<>> /\ sock = <<>> /\ shut = FALSE /\ rcv = <<"idle", 0>> /\ late = FALSE
    /\ adm_sent = <<>> /\ adm_got = <<>>

fh_adm_send(m) ==
    /\ ~shut /\ Len(adm_sent) < MaxAdm
    /\ wire' = wire \o fh_adm_create(m.type, m.tid, m.msg)
    /\ adm_sent' = Append(adm_sent, m)
    /\ UNCHANGED <<sock, shut, rcv, late, adm_got>>

\* The sender ends, maybe in the middle of a write.
SenderEnds(m, k) ==
    /\ ~shut /\ shut' = TRUE /\ k < Len(fh_adm_create(m.type, m.tid, m.msg))
    /\ wire' = wire \o SubSeq(fh_adm_create(m.type, m.tid, m.msg), 1, k)
    /\ UNCHANGED <<sock, rcv, late, adm_sent, adm_got>>

AdmArrive(n) ==
    /\ wire # <<>>
    /\ LET k == IF n < Len(wire) THEN n ELSE Len(wire)
       IN  /\ sock' = sock \o SubSeq(wire, 1, k)
           /\ wire' = SubSeq(wire, k + 1, Len(wire))
    /\ UNCHANGED <<shut, rcv, late, adm_sent, adm_got>>

Ended == shut /\ wire = <<>>

\* mutant: what has arrived is taken for all of it.
fh_adm_recvPeekShort ==
    /\ rcv[1] = "idle" /\ sock # <<>>
    /\ rcv' = IF Len(sock) >= HeaderSize /\ Part(sock, 0, 4) = htonl(FH_ADM_MAGIC)
              THEN <<"read", Num(LongIn(sock, 12)) + HeaderSize>> ELSE <<"failed", 0>>
    /\ UNCHANGED <<wire, sock, shut, late, adm_sent, adm_got>>

\* fh_tcp_peek waits for the whole header; with a part of it behind which
\* nothing comes it waits for ever.
fh_adm_recvPeek ==
    /\ rcv[1] = "idle" /\ (Len(sock) >= HeaderSize \/ (Ended /\ sock = <<>>))
    /\ rcv' = IF Len(sock) >= HeaderSize /\ Part(sock, 0, 4) = htonl(FH_ADM_MAGIC)
              THEN <<"read", Num(LongIn(sock, 12)) + HeaderSize>> ELSE <<"failed", 0>>
    /\ UNCHANGED <<wire, sock, shut, late, adm_sent, adm_got>>

\* fh_tcp_read has all of the message.
fh_adm_recvRead ==
    /\ rcv[1] = "read" /\ Len(sock) >= rcv[2] /\ rcv' = <<"idle", 0>>
    /\ LET type == Types[Num(LongIn(sock, 4))]
       IN  adm_got' = Append(adm_got, [type |-> type, tid |-> LongIn(sock, 8),
                        msg |-> fh_adm_parse(type, SubSeq(sock, HeaderSize + 1, rcv[2]))])
    /\ sock' = SubSeq(sock, rcv[2] + 1, Len(sock))
    /\ UNCHANGED <<wire, shut, late, adm_sent>>

\* The sender is gone, or the rest takes longer than FH_TCP_TIMEOUT; what was
\* read is lost.
fh_adm_recvShort ==
    /\ rcv[1] = "read" /\ Len(sock) < rcv[2] /\ (Ended \/ rcv[2] <= MaxLate)
    /\ rcv' = <<"failed", 0>> /\ sock' = <<>> /\ late' = (late \/ ~Ended)
    /\ UNCHANGED <<wire, shut, adm_sent, adm_got>>

\* The shell keeps the connection and may ask again.
AdmAgain ==
    /\ rcv[1] = "failed" /\ sock # <<>> /\ rcv' = <<"idle", 0>>
    /\ UNCHANGED <<wire, sock, shut, late, adm_sent, adm_got>>

AdmNext ==
    \/ \E m \in AdmMessages : fh_adm_send(m)
    \/ \E m \in LastMessages, k \in Pieces \cup {0} : SenderEnds(m, k)
    \/ \E n \in Pieces : AdmArrive(n)
    \/ fh_adm_recvPeek \/ fh_adm_recvRead \/ fh_adm_recvShort \/ AdmAgain

-----------------------------------------------------------------------------
(* What the receiver reads is what was sent, message for message and field *)
(* for field, wherever the connection cuts the bytes: names, counters and  *)
(* nested answers come out of memory nobody cleared, and after a message   *)
(* that was lost half read nothing is taken for one (fh_adm_create,        *)
(* fh_adm_recv, fh_adm_parse).                                             *)
AdmInOrder == IsPrefix(adm_got, adm_sent)

(* A message that is cut is not taken for a broken one: receiving fails    *)
(* only when the sender is gone, or has kept the rest of some message back *)
(* for longer than the receiver waits (fh_tcp_readex).                     *)
AdmPatient == rcv[1] = "failed" => Ended \/ late

(* The connection gives the messages back, and fails only for cause.       *)
AdmSound == AdmInOrder /\ AdmPatient

=============================================================================
