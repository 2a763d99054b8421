------------------------------ MODULE Exchange ------------------------------
(***************************************************************************)
(* One call of a provider, from the client's request to what the client    *)
(* gets: the request is compressed (Compress) and put into the provider's  *)
(* format (Wire), and the answer, the error or the stream of events comes  *)
(* back (Wire, SseStream).  Which provider is called, and what a failure   *)
(* does to it, is Fallback's; the error here is the last one of a chain.   *)
(***************************************************************************)
EXTENDS Wire, SseStream

CONSTANTS
    Requests,  \* the requests of clients, see Request
    Routes,    \* the targets they are routed to, see Route
    Bodies,    \* the bodies that upstreams answer with, by format
    Fragments, \* what upstreams write into a stream at once, by format
    Statuses,  \* the statuses other than 200 that upstreams answer with
    MaxBytes,  \* bound: letters in one stream
    Nothing    \* no value

Message == [role : Role, content : Content, calls : BOOLEAN, size : Nat \ {0}]

Request ==
    [messages : Seq(Message), options : SUBSET Option, streamed : BOOLEAN,
     compress : BOOLEAN, budget : Nat]

Route == [format : Format, base : Base, has_key : BOOLEAN]

Alternative(format) == [parts : Seq(Part), finish : Reason(format)]

ASSUME ExchangeAssumption ==
    /\ \A r \in Requests : r \in Request
    /\ Routes \subseteq Route
    /\ \A f \in Format : \A b \in Bodies[f] :
          /\ b.shape \in {"no JSON", "no list", "complete"}
          /\ b.alternatives \in Seq(Alternative(f))
          /\ f = "Claude" => Len(b.alternatives) = 1
    /\ \A f \in Format : \A s \in Fragments[f] : s \in Seq(Letter)
    /\ Statuses \subseteq 201 .. 599
    /\ MaxBytes \in Nat

VARIABLES
    phase,  \* where the call is
    call,   \* its format, and whether it is streamed and reaches an endpoint
    sent,   \* the request that goes out
    reply,  \* the choices of the reply, or the status of the error
    wire,   \* what the upstream has written and the gateway has not read
    buffer, \* buffer of parse_sse_stream
    out,    \* the chunks the client got
    \* History, read by the properties only:
    asked,  \* the client's request
    said,   \* the upstream's body, or the error before it was put into words
    read    \* all the bytes read from the stream

vars == <<phase, call, sent, reply, wire, buffer, out, asked, said, read>>

-----------------------------------------------------------------------------
(***************************************************************************)
(* The engine prepares the call: only execute compresses, execute_stream   *)
(* does not.  Bodies are built before anything is sent.                    *)
(***************************************************************************)
Prepare(route, r) ==
    LET selected == IF r.streamed THEN Upwards(1, Len(r.messages))
                    ELSE Compressed(r.messages, r.compress, r.budget)
    IN  /\ phase = "new"
        /\ phase' = "built"
        /\ call' = [format |-> route.format, streamed |-> r.streamed,
                    reached |-> Paths(route.base, r.streamed) = 1]
        /\ sent' = [selected   |-> selected,
                    paths      |-> Paths(route.base, r.streamed),
                    credential |-> Credential(route.has_key, r.streamed),
                    body       |-> BuildUpstreamRequest(route.format, r.messages, selected, r.options)]
        /\ asked' = r
        /\ UNCHANGED <<reply, wire, buffer, out, said, read>>

\* It goes out; nothing of it is needed to read the answer.
Send ==
    /\ phase = "built"
    /\ phase' = "waiting"
    /\ sent' = Nothing /\ asked' = Nothing
    /\ UNCHANGED <<call, reply, wire, buffer, out, said, read>>

\* The chain ends with an error of this kind, and these phrases in its text.
FailWith(kind, says) ==
    /\ phase' = "failed"
    /\ said' = [kind |-> kind, says |-> says]
    /\ reply' = [status |-> ClientStatus(OwnPhrase(kind) \cup says)]
    /\ UNCHANGED <<call, sent, wire, buffer, out, asked, read>>

\* route_prefer finds no provider, no executor or no account for the model.
\* The text of an unknown model has the model's name in it.
Unrouted(kind, says) ==
    /\ phase = "new"
    /\ \/ kind \in {"RateLimited", "AuthFailed"} /\ says = {}
       \/ kind = "UnsupportedProvider" /\ (says # {} => "no provider registered" \in says)
    /\ FailWith(kind, says)

\* Any status but 200; the text of a plain call has the upstream's body in it.
Refuse(status, says) ==
    LET kind == StatusError(status)
    IN  /\ phase = "waiting"
        /\ kind # "Upstream" \/ call.streamed => says = {}
        /\ FailWith(kind, says)

\* No connection, a connection that breaks, or the client's timeout of 120 s.
Unanswered ==
    /\ phase = "waiting"
    /\ FailWith("Network", {})

\* A plain answer with status 200.
AnswerUnreadable(body) ==
    /\ phase = "waiting" /\ call.reached /\ ~ call.streamed
    /\ body.shape # "complete"
    /\ FailWith("InvalidResponse", {})

AnswerPanics(body) ==
    /\ phase = "waiting" /\ call.reached /\ ~ call.streamed
    /\ ParsePanics(call.format, body)
    /\ phase' = "panicked" /\ said' = body
    /\ UNCHANGED <<call, sent, reply, wire, buffer, out, asked, read>>

Answer(body) ==
    /\ phase = "waiting" /\ call.reached /\ ~ call.streamed
    /\ body.shape = "complete" /\ ~ ParsePanics(call.format, body)
    /\ phase' = "answered" /\ said' = body
    /\ reply' = [choices |-> Sanitized(AnswerChoices(call.format, body.alternatives))]
    /\ UNCHANGED <<call, sent, wire, buffer, out, asked, read>>

-----------------------------------------------------------------------------
\* A stream is established with status 200.
Establish ==
    /\ phase = "waiting" /\ call.reached /\ call.streamed
    /\ phase' = "streaming"
    /\ UNCHANGED <<call, sent, reply, wire, buffer, out, asked, said, read>>

Write(fragment) ==
    /\ phase = "streaming"
    /\ Len(read) + Len(wire) + Len(fragment) <= MaxBytes
    /\ wire' = wire \o fragment
    /\ UNCHANGED <<phase, call, sent, reply, buffer, out, asked, said, read>>

\* A network chunk of n letters comes, wherever that cuts the events.
Receive(n) ==
    LET scan == Scan(buffer \o SubSeq(wire, 1, n))
    IN  /\ phase = "streaming" /\ n <= Len(wire)
        /\ wire' = SubSeq(wire, n + 1, Len(wire))
        /\ read' = read \o SubSeq(wire, 1, n)
        /\ buffer' = scan.rest
        /\ out' = out \o Normalized(call.format, scan.events)
        /\ UNCHANGED <<phase, call, sent, reply, asked, said>>

\* The connection breaks or times out: an error chunk, and the stream goes on
\* to ask for more.
Break ==
    /\ phase = "streaming"
    /\ phase' = "broken" /\ wire' = <<>>
    /\ out' = Append(out, "[ERROR]")
    /\ UNCHANGED <<call, sent, reply, buffer, asked, said, read>>

\* The upstream's stream is over.  The flush of a trailing event looks at the
\* events that are found and not yet handed on, of which there are none here:
\* what is in the buffer is dropped, against the comment in parse_sse_stream.
Close ==
    /\ phase \in {"streaming", "broken"} /\ wire = <<>>
    /\ phase' = "closed" /\ buffer' = <<>>
    /\ UNCHANGED <<call, sent, reply, wire, out, asked, said, read>>

-----------------------------------------------------------------------------
Init ==
    /\ phase = "new"
    /\ call = Nothing /\ sent = Nothing /\ reply = Nothing
    /\ wire = <<>> /\ buffer = <<>> /\ out = <<>> /\ read = <<>>
    /\ asked = Nothing /\ said = Nothing

Next ==
    \/ \E route \in Routes, r \in Requests : Prepare(route, r)
    \/ Send
    \/ \E kind \in ErrorKind, says \in SUBSET Phrase : Unrouted(kind, says)
    \/ \E status \in Statuses, says \in SUBSET Phrase : Refuse(status, says)
    \/ Unanswered
    \/ phase = "waiting" /\ \E b \in Bodies[call.format] :
          AnswerUnreadable(b) \/ AnswerPanics(b) \/ Answer(b)
    \/ Establish
    \/ phase = "streaming" /\ \E s \in Fragments[call.format] : Write(s)
    \/ \E n \in 1 .. Len(wire) : Receive(n)
    \/ Break
    \/ Close

Spec == Init /\ [][Next]_vars

-----------------------------------------------------------------------------
(***************************************************************************)
(* Types, and what is in the buffer between two chunks: no blank line, for *)
(* then an event would be kept back (parse_sse_stream).                    *)
(***************************************************************************)
TypeOK ==
    /\ phase \in {"new", "built", "waiting", "failed", "answered", "panicked",
                  "streaming", "broken", "closed"}
    /\ call = Nothing \/ call \in [format : Format, streamed : BOOLEAN, reached : BOOLEAN]
    /\ wire \in Seq(Letter) /\ buffer \in Seq(Letter) /\ read \in Seq(Letter)
    /\ out \in Seq(Chunk)
    /\ \A i \in 1 .. Len(buffer) - 1 : ~ (buffer[i] = "nl" /\ buffer[i + 1] = "nl")

Increasing(s) == \A i, j \in DOMAIN s : i < j => s[i] < s[j]

(***************************************************************************)
(* What the selection leaves of a request is the client's, in order, and   *)
(* within the budget but for the note that something is missing; the note  *)
(* is there, once, exactly when something is; and of the middle the newest *)
(* messages are kept without a gap (Compress::rtk_select).                 *)
(***************************************************************************)
CompressionFits ==
    phase = "built" /\ asked.compress /\ ~ asked.streamed =>
        LET ms == asked.messages
            kept == Only(sent.selected, 1 .. Len(ms))
            notes == Len(sent.selected) - Len(kept)
            In(i) == \E k \in DOMAIN kept : kept[k] = i
        IN  /\ Increasing(kept)
            /\ asked.budget > 0 => TokensOf(ms, kept) <= asked.budget
            /\ notes = IF Len(kept) < Len(ms) /\ kept # <<>> THEN 1 ELSE 0
            /\ \A i, j \in HeadEnd(ms) + 1 .. Len(ms) - KeepTail :
                  i < j /\ In(i) => In(j)

(***************************************************************************)
(* Whichever provider a chain comes to, it is told the same conversation:  *)
(* the turns of the selected messages but for system messages, in order,   *)
(* once each, with the assistant's turns marked as the assistant's.        *)
(***************************************************************************)
SameConversation ==
    phase = "built" =>
        LET ms == asked.messages
            turns == Only(sent.selected, Spoken(ms))
            told == Only(sent.body.messages,
                         {m \in ToSet(sent.body.messages) : m.from \in Spoken(ms)})
        IN  /\ [k \in DOMAIN told |-> told[k].from] = turns
            /\ \A k \in DOMAIN told :
                  /\ told[k].speaker \in {"assistant", "model"}
                        <=> ms[told[k].from].role = "assistant"
                  /\ ms[told[k].from].content # "none" => told[k].content[1] = "text"

(***************************************************************************)
(* A plain answer reaches the client whole: every text and tool call of    *)
(* the upstream, once and in order, and an answer that was cut short or    *)
(* blocked is not reported as finished, by the first alternative's reason. *)
(***************************************************************************)
AnswerKept ==
    phase = "answered" =>
        LET parts(kind) == UNION {{<<k, i>> : i \in {j \in DOMAIN said.alternatives[k].parts :
                                                     said.alternatives[k].parts[j] = kind}} :
                                 k \in DOMAIN said.alternatives}
            InOrder(given, kind) ==
                /\ ToSet(given) = parts(kind)
                /\ \A m, n \in DOMAIN given : m < n =>
                      \/ given[m][1] < given[n][1]
                      \/ given[m][1] = given[n][1] /\ given[m][2] < given[n][2]
        IN  /\ InOrder(FlattenSeq([k \in DOMAIN reply.choices |-> reply.choices[k].texts]), "text")
            /\ InOrder(FlattenSeq([k \in DOMAIN reply.choices |-> reply.choices[k].calls]), "call")
            /\ reply.choices # <<>> /\ reply.choices[1].finish = "stop" =>
                  said.alternatives[1].finish \in {"stop", "end_turn", "STOP", "none"}

(***************************************************************************)
(* The client gets the status of the error that ended the chain, although  *)
(* it is guessed from a text, unless the upstream or the client has put    *)
(* another error's words into it; only an unsupported provider that the    *)
(* text does not call unregistered is reported as a bad gateway.           *)
(***************************************************************************)
StatusTrue ==
    /\ phase = "failed"
    /\ \/ said.says = {}
       \/ said = [kind |-> "UnsupportedProvider", says |-> {"no provider registered"}]
    =>
        reply.status =
            IF said = [kind |-> "UnsupportedProvider", says |-> {}] THEN 502
            ELSE StatusFor(said.kind)

\* An event ends where a blank line follows something.
Ends(bytes) == {e \in 2 .. Len(bytes) : bytes[e - 1] # "nl" /\ BlankLine(bytes, e)}

\* The lines with a payload, without a blank line between them and a position.
PayloadLines(bytes, e) ==
    {i \in LineStarts(bytes) : /\ i < e
                               /\ \A j \in i .. e - 1 : ~ BlankLine(bytes, j)
                               /\ Payload(LineAt(bytes, i)) # <<>>}

\* The first payload of the event that ends there, if one does.
PayloadAt(bytes, e) ==
    IF e \notin Ends(bytes) \/ PayloadLines(bytes, e) = {} THEN <<>>
    ELSE <<Payload(LineAt(bytes, Min(PayloadLines(bytes, e))))>>

PayloadsOf(bytes) == FlattenSeq([e \in DOMAIN bytes |-> PayloadAt(bytes, e)])

(***************************************************************************)
(* The client gets the chunks of all events of the stream that are         *)
(* complete, once each and in order, and then an error if the connection   *)
(* breaks: where the network cuts the stream makes no difference.          *)
(* What becomes of an event that has no blank line behind it when the      *)
(* stream ends is left open: a comment in parse_sse_stream has it flushed, *)
(* the code loses it (see Close).                                          *)
(***************************************************************************)
ChunkingInvisible ==
    phase \in {"streaming", "broken", "closed"} =>
        LET Chunks(bytes) == Normalized(call.format, PayloadsOf(bytes))
            complete == Chunks(read)
            ended == Chunks(read \o <<"nl", "nl">>)
            trailing == SubSeq(ended, Len(complete) + 1, Len(ended))
        IN  \E error \in {<<>>, <<"[ERROR]">>}, last \in {<<>>, trailing} :
               /\ out = complete \o error \o last
               /\ phase = "streaming" => error = <<>>
               /\ phase = "broken" => error # <<>>
               /\ phase # "closed" => last = <<>>

-----------------------------------------------------------------------------
(* What documents and comments say, and the code does not do.              *)

(***************************************************************************)
(* The endpoint's path is in a URL once (executor.rs: registry URLs have   *)
(* it already, do not append it twice).                                    *)
(***************************************************************************)
EndpointOnce == phase = "built" => sent.paths = 1

(***************************************************************************)
(* Compression keeps what is important (compress.rs): of a conversation    *)
(* with a system prompt and a user's message at its end, for which there   *)
(* is room, the provider is told both (Gemini knows no system prompt).     *)
(***************************************************************************)
ImportantKept ==
    phase = "built" /\ asked.compress /\ ~ asked.streamed =>
        LET ms == asked.messages
            last == Len(ms)
            Told(i) == \/ \E k \in DOMAIN sent.body.messages : sent.body.messages[k].from = i
                       \/ sent.body.system = <<i>>
        IN  /\ ms[1].role = "system" /\ \A i \in 2 .. last : ms[i].role # "system"
            /\ ms[last].role = "user"
            /\ ms[1].size + ms[last].size <= asked.budget
            => Told(last) /\ (call.format # "Gemini" => Told(1))

=============================================================================
