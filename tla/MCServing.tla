----------------------------- MODULE MCServing ------------------------------
(* An instance of Serving for TLC: three requests of every kind. *)
EXTENDS Serving

CONSTANTS r1, r2, r3

W(kind, items) == [kind |-> kind, items |-> items, target |-> NoReq]

MCWorks ==
    {W("chat", <<"chat">>), W("batch", <<"chat", "bad", "chat">>), W("batch", <<>>),
     W("send", <<"chat">>), W("mcp", <<"ping", "read">>), W("relay", <<"call">>),
     W("denied", <<>>),
     [kind |-> "cancel", items |-> <<>>, target |-> r1]}
=============================================================================
