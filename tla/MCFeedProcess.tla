---------------------------- MODULE MCFeedProcess ----------------------------
(***************************************************************************)
(* FeedProcess with two lines, the second disabled.                        *)
(***************************************************************************)
EXTENDS FeedProcess

SampleConns == {<<1, "primary">>, <<1, "secondary">>}

===============================================================================
