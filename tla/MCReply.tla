------------------------------ MODULE MCReply ------------------------------
(***************************************************************************)
(* Up to two peers whose ids look like bencode themselves: a length with   *)
(* its colon, the end of a list, digits after a digit, nothing at all, and *)
(* a character 0.  Numbers have one or two digits or a sign.               *)
(***************************************************************************)
EXTENDS Reply

Peer(id, port) == [peerId |-> id, ipa |-> <<"7">>, port |-> port]

RowValue ==
  { Peer(<<"1", ":">>, 0), Peer(<<"e", "e">>, 12), Peer(<<"i", "3", "e">>, 5),
    Peer(<< >>, -1), Peer(<<"d", "nul", "e">>, 5) }

MessageValue == {<<"User", ":">>, <<"e">>}

TokenValue == Written \cup {"nul", "User"}
=============================================================================
