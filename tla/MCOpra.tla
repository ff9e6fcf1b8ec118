------------------------------- MODULE MCOpra -------------------------------
EXTENDS Opra

MCKeys == {"q1", "q2", "ix", "iy", "lg", "no"}
MCRoot == [k \in MCKeys |-> IF k = "q2" THEN "q1" ELSE IF k = "no" THEN "" ELSE k]

MCListed ==
    << [root |-> "r1", sec |-> "ix", type |-> "FC"], [root |-> "q1", sec |-> "q1", type |-> "EF"],
       [root |-> "", sec |-> "x", type |-> "EU"], [root |-> "longer", sec |-> "lo", type |-> "IU"],
       [root |-> "zz", sec |-> "zz", type |-> "EU"] >>

Px(n, c) == [n |-> n, code |-> c]
Msg(cat, type, keys, px, px2, size, session, bbo) ==
    [cat |-> cat, type |-> type, keys |-> keys, px |-> px, px2 |-> px2, size |-> size,
     session |-> session, bbo |-> bbo, part |-> session]
Pkt(cat, type, sn, msgs) ==
    [cat |-> cat, type |-> type, sn |-> sn, num |-> Len(msgs), msgs |-> msgs]

Ctl(type) == Msg("H", type, <<>>, Px(0, 4), Px(0, 4), 0, 0, {})
Qt(k, b, o, bbo) == Msg("k", "F", <<k>>, Px(b, 2), Px(o, 2), 1, 1, bbo)
Ls(k, p, n) == Msg("a", " ", <<k>>, Px(p, 5), Px(0, 4), n, 2, {})
Oi(k) == Msg("d", " ", <<k>>, Px(0, 4), Px(0, 4), 1, 0, {})
Ed(k, p, q) == Msg("f", " ", <<k>>, Px(p, 4), Px(q, 4), 1, 0, {})
Uvs(type, p) == Msg("Y", type, <<"ix", "iy">>, Px(p, 4), Px(p + 1, 4), 0, 0, {})
Fco == Msg("U", " ", <<>>, Px(0, 4), Px(0, 4), 0, 0, {})

\* A day from its start; numbers restarted by a reset; a start in the middle of
\* the day with a jump.
MCScripts ==
    { << Pkt("H", "C", 0, <<Ctl("C")>>),
         Pkt("k", "F", 1, <<Qt("q1", 0, 7, {"bo"})>>),
         Pkt("a", " ", 2, <<Ls("q1", 50, 2), Qt("q1", 6, 8, {"bb"})>>),
         Pkt("Y", " ", 4, <<Uvs(" ", 3)>>),
         Pkt("Y", "I", 5, <<Uvs("I", 5)>>),
         Pkt("H", "N", 6, <<Ctl("N")>>) >>,
      << Pkt("H", "A", 5, <<Ctl("A")>>),
         Pkt("a", " ", 6, <<Ls("q1", 70, 1)>>),
         Pkt("H", "B", 7, <<Ctl("B")>>),
         Pkt("H", "K", 1, <<Ctl("K")>>),
         Pkt("k", " ", 2, <<Qt("q1", 3, 4, {"bb", "bo"}), Ls("q1", 60, 3)>>),
         Pkt("C", " ", 3, <<Msg("C", " ", <<>>, Px(0, 4), Px(0, 4), 0, 0, {})>>) >>,
      << Pkt("k", "F", 20, <<Qt("q1", 1, 2, {}), Oi("lg")>>),
         Pkt("U", " ", 22, <<Fco, Ls("q1", 90, 1)>>),
         Pkt("k", "T", 29, <<Qt("q2", 1, 2, {})>>),
         Pkt("a", " ", 30, <<Ls("q1", 80, 1), Ed("q1", 4, 5), Oi("no"), Oi("q2")>>) >> }

=============================================================================
