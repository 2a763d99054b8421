-------------------------------- MODULE Wire --------------------------------
(***************************************************************************)
(* The formats of the providers: how a request is put into one             *)
(* (executor/request_builder.rs, translator.rs), where it is sent          *)
(* (executor.rs, executor/streaming.rs), how an answer is read             *)
(* (executor/response_parser.rs, translator.rs, sanitize.rs) and what      *)
(* becomes of an error on its way to the client (proxy.rs, sanitize.rs).   *)
(*                                                                         *)
(* A message has a role, a content ("text", "parts": a text and an image,  *)
(* or "none") and maybe tool calls.  Texts are named by the position of    *)
(* their message, so that what is lost, moved or doubled can be seen.      *)
(***************************************************************************)
EXTENDS Compress

Format == {"OpenAi", "Claude", "Gemini"}

Role == {"system", "user", "assistant", "tool"}

Content == {"text", "parts", "none"}

Option == {"stream", "max_tokens", "temperature", "top_p", "stop", "tools", "tool_choice"}

\* The catalogue's base URLs name the endpoint, those of the environment and
\* of the built-in table do not.
Base == {"bare", "endpoint"}

-----------------------------------------------------------------------------
\* How often the endpoint's path is in the URL that is called.
Paths(base, streamed) == IF base = "endpoint" /\ streamed THEN 2 ELSE 1

\* The credential that is sent: none, an empty one, or the account's key.
Credential(has_key, streamed) ==
    IF has_key THEN "key" ELSE IF streamed THEN "empty" ELSE "none"

\* Gemini knows two speakers.
\* Mutant: all turns are the user's.
SpeakerUnmapped(format, role) == "user"

Speaker(format, role) ==
    IF format # "Gemini" THEN role ELSE IF role = "assistant" THEN "model" ELSE "user"

Pieces(format, content) ==
    IF format = "Gemini" THEN IF content = "none" THEN <<"blank">> ELSE <<"text">>
    ELSE CASE content = "text" -> <<"text">>
           [] content = "parts" -> <<"text", IF format = "OpenAi" THEN "image" ELSE "null">>
           [] content = "none" -> <<"null">>

\* The message at position i, Placeholder being the one rtk_select wrote.
MessageAt(ms, i) ==
    IF i = Placeholder
    THEN [role |-> "system", content |-> "text", calls |-> FALSE, size |-> PlaceholderSize]
    ELSE ms[i]

IsSystem(ms, i) == MessageAt(ms, i).role = "system"

Spoken(ms) == {i \in 0 .. Len(ms) : ~ IsSystem(ms, i)}

\* The messages of the body.
WireMessages(format, ms, selected) ==
    LET spoken == IF format = "OpenAi" THEN selected ELSE Only(selected, Spoken(ms))
        Wired(i) == [from    |-> i,
                     speaker |-> Speaker(format, MessageAt(ms, i).role),
                     content |-> Pieces(format, MessageAt(ms, i).content),
                     calls   |-> format = "OpenAi" /\ MessageAt(ms, i).calls]
    IN  [k \in DOMAIN spoken |-> Wired(spoken[k])]

\* The system prompt that the body has beside the messages, as a sequence of
\* at most one: for Claude the last text of the system messages, for Gemini none.
SystemPrompt(format, ms, selected) ==
    LET texts == Only(selected, {i \in 0 .. Len(ms) : /\ IsSystem(ms, i)
                                                      /\ MessageAt(ms, i).content = "text"})
    IN  IF format # "Claude" \/ texts = <<>> THEN <<>> ELSE <<Last(texts)>>

Options(format, options) ==
    CASE format = "OpenAi" -> options
      [] format = "Claude" -> (options \ {"stream", "tool_choice"}) \cup {"max_tokens"}
      [] format = "Gemini" -> options \ {"stream", "stop", "tool_choice"}

BuildUpstreamRequest(format, ms, selected, options) ==
    [messages |-> WireMessages(format, ms, selected),
     system   |-> SystemPrompt(format, ms, selected),
     options  |-> Options(format, options)]

-----------------------------------------------------------------------------
(***************************************************************************)
(* Answers.  An upstream body may be no JSON, or lack the field its format *)
(* must have; otherwise it has alternatives (choices or candidates, one    *)
(* for Claude), each a sequence of parts (texts, blank texts and tool      *)
(* calls) with the reason it ended.  A part of the reply is named by its   *)
(* alternative and position.                                               *)
(***************************************************************************)
Part == {"text", "blank", "call"}

Reason(format) ==
    CASE format = "OpenAi" -> {"stop", "length", "tool_calls", "none"}
      [] format = "Claude" -> {"end_turn", "max_tokens", "tool_use", "none"}
      [] format = "Gemini" -> {"STOP", "MAX_TOKENS", "SAFETY", "none"}

PartsOf(alternative, k, kind) ==
    FlattenSeq([i \in DOMAIN alternative.parts |->
                   IF alternative.parts[i] = kind THEN <<<<k, i>>>> ELSE <<>>])

Choice(alternatives, ks, reason) ==
    [texts  |-> FlattenSeq([n \in DOMAIN ks |-> PartsOf(alternatives[ks[n]], ks[n], "text")]),
     calls  |-> FlattenSeq([n \in DOMAIN ks |-> PartsOf(alternatives[ks[n]], ks[n], "call")]),
     finish |-> reason]

OrStop(reason) == IF reason = "none" THEN "stop" ELSE reason

\* parse_openai: one choice for each; parse_claude and parse_gemini: one choice in all.
\* Mutant: the first alternative only.
AnswerChoicesFirst(format, alternatives) ==
    IF alternatives = <<>> THEN <<>>
    ELSE <<Choice(alternatives, <<1>>, OrStop(alternatives[1].finish))>>

AnswerChoices(format, alternatives) ==
    IF format = "OpenAi"
    THEN [k \in DOMAIN alternatives |-> Choice(alternatives, <<k>>, alternatives[k].finish)]
    ELSE <<Choice(alternatives, Upwards(1, Len(alternatives)), OrStop(alternatives[1].finish))>>

\* sanitize_response.
Finish(reason) ==
    CASE reason \in {"end_turn", "STOP"} -> "stop"
      [] reason = "MAX_TOKENS" -> "length"
      [] reason \in {"SAFETY", "RECITATION"} -> "content_filter"
      [] OTHER -> reason

Sanitized(choices) == [k \in DOMAIN choices |-> [choices[k] EXCEPT !.finish = Finish(@)]]

\* parse_gemini reads the first candidate of a list that may be empty.
ParsePanics(format, body) ==
    format = "Gemini" /\ body.shape = "complete" /\ body.alternatives = <<>>

-----------------------------------------------------------------------------
(***************************************************************************)
(* Errors.  The engine keeps the text of an error, and the handler guesses *)
(* the error from the text: an error is its kind and the phrases that an   *)
(* upstream or the client has put into its text.                           *)
(***************************************************************************)
ErrorKind == {"RateLimited", "AuthFailed", "Upstream", "Network", "InvalidResponse",
              "UnsupportedProvider"}

Phrase == {"rate limited", "authentication failed", "timeout", "network error",
           "no provider registered", "upstream error"}

\* Mutant: an error is given another text, which the guess does not know.
OwnPhraseReworded(kind) ==
    CASE kind = "RateLimited" -> {"rate limited"}
      [] kind = "Upstream" -> {"upstream error"}
      [] kind = "Network" -> {"network error"}
      [] OTHER -> {}

OwnPhrase(kind) ==
    CASE kind = "RateLimited" -> {"rate limited"}
      [] kind = "AuthFailed" -> {"authentication failed"}
      [] kind = "Upstream" -> {"upstream error"}
      [] kind = "Network" -> {"network error"}
      [] kind \in {"InvalidResponse", "UnsupportedProvider"} -> {}

\* execute_chat_inner: what a status other than 200 stands for.
StatusError(status) ==
    CASE status = 429 -> "RateLimited"
      [] status \in {401, 403} -> "AuthFailed"
      [] OTHER -> "Upstream"

\* error_to_response.
StatusFor(kind) ==
    CASE kind = "RateLimited" -> 429
      [] kind = "AuthFailed" -> 401
      [] kind = "Timeout" -> 504
      [] kind \in {"Network", "Upstream", "InvalidResponse"} -> 502
      [] kind = "UnsupportedProvider" -> 400

\* parse_executor_error: the first phrase of this order that the text contains.
GuessOrder == <<<<"rate limited", "RateLimited">>,
                <<"authentication failed", "AuthFailed">>,
                <<"timeout", "Timeout">>,
                <<"network error", "Network">>,
                <<"no provider registered", "UnsupportedProvider">>,
                <<"upstream error", "Upstream">>>>

Guesses(text) == {i \in DOMAIN GuessOrder : GuessOrder[i][1] \in text}

\* combo_error_response.
ClientStatus(text) ==
    IF Guesses(text) = {} THEN 502 ELSE StatusFor(GuessOrder[Min(Guesses(text))][2])
=============================================================================
