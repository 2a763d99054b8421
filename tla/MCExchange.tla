----------------------------- MODULE MCExchange -----------------------------
(***************************************************************************)
(* An instance of Exchange for TLC: conversations of up to four messages   *)
(* of two sizes, answers of up to two alternatives of two parts, streams   *)
(* of lines whole, cut short, with carriage returns and with two payloads. *)
(***************************************************************************)
EXTENDS Exchange

M(role, content, calls, size) ==
    [role |-> role, content |-> content, calls |-> calls, size |-> size]

Messages == {M("system", "text", FALSE, 2), M("user", "text", FALSE, 3),
             M("assistant", "parts", FALSE, 2),
             M("tool", "none", TRUE, 2)}

Conversations == UNION {[1 .. n -> Messages] : n \in 1 .. 4}

MCRoutes == [format : Format, base : {"bare"}, has_key : {TRUE}]
                \cup [format : {"OpenAi"}, base : {"endpoint"}, has_key : {FALSE}]

R(messages, options, streamed, compress, budget) ==
    [messages |-> messages, options |-> options, streamed |-> streamed,
     compress |-> compress, budget |-> budget]

MCRequests ==
    {R(ms, {}, FALSE, TRUE, b) : ms \in Conversations, b \in {0, 4, 7}}
        \cup {R(<<M("user", "text", FALSE, 3)>>, o, s, FALSE, 0) :
                 o \in {{}, Option}, s \in BOOLEAN}

Alternatives(f) ==
    {[parts |-> p, finish |-> r] : p \in UNION {[1 .. n -> Part] : n \in 0 .. 2}, r \in Reason(f)}

MCBodies == [f \in Format |->
    {[shape |-> "complete", alternatives |-> <<a>>] : a \in Alternatives(f)}
        \cup {[shape |-> s, alternatives |-> <<a>>] :
                 s \in {"no JSON", "no list"}, a \in {[parts |-> <<>>, finish |-> "none"]}}
        \cup IF f = "Claude" THEN {}
             ELSE {[shape |-> "complete", alternatives |-> <<>>]}
                  \cup {[shape |-> "complete", alternatives |-> <<a, b>>] :
                           a, b \in Alternatives(f)}]

Lines == {<<"nl">>, <<"cr", "nl">>, <<"other", "nl">>, <<"data", "nl">>, <<"data", "text">>,
          <<"data", "text", "nl">>}

MCFragments == [f \in Format |->
    CASE f = "OpenAi" -> Lines \cup {<<"data", "done", "cr", "nl">>}
      [] f = "Claude" -> Lines \cup {<<"data", "stop", "nl">>}
      [] f = "Gemini" -> Lines \cup {<<"data", "blank", "nl">>}]
=============================================================================
