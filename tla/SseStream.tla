----------------------------- MODULE SseStream ------------------------------
(***************************************************************************)
(* The parser of upstream event streams (executor/streaming.rs).  Bytes    *)
(* are letters: "nl" and "cr", "data" for a data: prefix, "other" for a    *)
(* piece of any other line, and the payloads                               *)
(*   text   a JSON chunk the parser turns into a piece of the answer (for  *)
(*          Claude any content_block_delta),                               *)
(*   blank  any other JSON chunk (a role, usage),                          *)
(*   stop   Claude's message_stop,                                         *)
(*   done   [DONE].                                                        *)
(* Where a network chunk ends inside of one of these makes no difference:  *)
(* the parser looks at newlines only, until an event is complete.          *)
(***************************************************************************)
EXTENDS Naturals, SequencesExt, FiniteSetsExt

Letter == {"nl", "cr", "data", "other", "text", "blank", "stop", "done"}

Json == {"text", "blank", "stop"}

Chunk == {"Data", "Done", "[ERROR]"}

\* Without the carriage returns at both ends (trim_start, trim_end_matches).
TrimCr(line) ==
    LET inner == {i \in DOMAIN line : line[i] # "cr"}
    IN  IF inner = {} THEN <<>> ELSE SubSeq(line, Min(inner), Max(inner))

LineStarts(bytes) == {i \in DOMAIN bytes : i = 1 \/ bytes[i - 1] = "nl"}

LineAt(bytes, i) ==
    SubSeq(bytes, i, Min({j \in i .. Len(bytes) + 1 : j > Len(bytes) \/ bytes[j] = "nl"}) - 1)

\* What follows data: on the line, if the line has it.
Payload(line) ==
    LET trimmed == TrimCr(line)
    IN  IF trimmed # <<>> /\ Head(trimmed) = "data" THEN TrimCr(Tail(trimmed)) ELSE <<>>

\* extract_sse_data: the first payload of the event, as a sequence of at most one.
ExtractSseData(event) ==
    LET found == {i \in LineStarts(event) : Payload(LineAt(event, i)) # <<>>}
    IN  IF found = {} THEN <<>> ELSE <<Payload(LineAt(event, Min(found)))>>

\* normalize_chunk, as a sequence of at most one chunk.
NormalizeChunk(format, payload) ==
    IF payload = <<"done">> THEN <<"Done">>
    ELSE IF Len(payload) # 1 \/ payload[1] \notin Json THEN <<>>
    ELSE CASE format = "OpenAi" \/ payload[1] = "text" -> <<"Data">>
           [] format = "Claude" /\ payload[1] = "stop" -> <<"Done">>
           [] format = "Claude" /\ payload[1] = "blank" -> <<>>
           [] OTHER -> <<"Done">>

Normalized(format, payloads) ==
    FlattenSeq([i \in DOMAIN payloads |-> NormalizeChunk(format, payloads[i])])

\* What has not been ended by a blank line waits for the next chunk.
\* Mutants: it is thrown away; the events stay in the buffer.
RestDropped(buffer, start) == <<>>

RestKept(buffer, start) == buffer

Rest(buffer, start) == SubSeq(buffer, start, Len(buffer))

BlankLine(bytes, i) == i < Len(bytes) /\ bytes[i] = "nl" /\ bytes[i + 1] = "nl"

\* Where an event starts for the scan that has been at the first n positions.
Start(buffer, n) ==
    LET passed == {i \in 1 .. n : BlankLine(buffer, i)}
    IN  IF passed = {} THEN 1 ELSE Max(passed) + 2

\* What the scan finds at a position: nothing, or the payload of an event.
FoundAt(buffer, i) ==
    IF BlankLine(buffer, i) /\ i > Start(buffer, i - 1)
    THEN ExtractSseData(SubSeq(buffer, Start(buffer, i - 1), i - 1))
    ELSE <<>>

(***************************************************************************)
(* The scan of the buffer after a network chunk: the payloads of the       *)
(* events that a blank line ends, and what of the buffer stays.            *)
(***************************************************************************)
Scan(buffer) ==
    [events |-> FlattenSeq([i \in DOMAIN buffer |-> FoundAt(buffer, i)]),
     rest   |-> Rest(buffer, Start(buffer, Len(buffer)))]
=============================================================================
