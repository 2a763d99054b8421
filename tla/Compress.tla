------------------------------ MODULE Compress ------------------------------
(***************************************************************************)
(* Context compression (omniroute-core/src/compress.rs).  A message is     *)
(* known by its role and its size in tokens, which message_tokens guesses  *)
(* from the number of characters: at least one for the text and one for    *)
(* the role.  Messages are named by their positions in the request, so     *)
(* that a selection is a sequence of positions; 0 stands for the message   *)
(* that rtk_select writes itself.                                          *)
(***************************************************************************)
EXTENDS Naturals, SequencesExt, FiniteSetsExt

CONSTANTS KeepTail,        \* keep_tail, 6 in combo.rs
          PlaceholderSize  \* tokens of the message about the trimmed ones

ASSUME CompressAssumption == KeepTail \in Nat /\ PlaceholderSize \in Nat \ {0}

Placeholder == 0

\* The elements of a sequence that are in a set, in their order.
Only(s, S) == FlattenSeq([k \in DOMAIN s |-> IF s[k] \in S THEN <<s[k]>> ELSE <<>>])

MessageTokens(ms, i) == IF i = Placeholder THEN PlaceholderSize ELSE ms[i].size

TokensOf(ms, selection) ==
    LET sum[n \in 0 .. Len(selection)] ==
            IF n = 0 THEN 0 ELSE sum[n - 1] + MessageTokens(ms, selection[n])
    IN  sum[Len(selection)]

Upwards(from, to) == [i \in 1 .. (to + 1) - from |-> from + i - 1]

TotalTokens(ms) == TokensOf(ms, Upwards(1, Len(ms)))

\* The first message, and the system messages that follow it without a gap.
HeadEnd(ms) ==
    Max({h \in 1 .. Len(ms) : \A i \in 2 .. h : ms[i].role = "system"})

\* Those of the messages, in this order, that fit into what is left.
KeepFitting(ms, positions, budget) ==
    LET Fits(n, left) == ms[positions[n]].size <= left
        left[n \in 0 .. Len(positions)] ==
            IF n = 0 THEN budget
            ELSE left[n - 1] - (IF Fits(n, left[n - 1]) THEN ms[positions[n]].size ELSE 0)
    IN  [kept |-> FlattenSeq([n \in DOMAIN positions |->
                                 IF Fits(n, left[n - 1]) THEN <<positions[n]>> ELSE <<>>]),
         left |-> left[Len(positions)]]

\* The newest of the messages, as many as fit without leaving one out.
KeepNewest(ms, positions, budget) ==
    LET Fits(n) == TokensOf(ms, SubSeq(positions, (Len(positions) - n) + 1, Len(positions))) <= budget
        kept == Max({n \in 0 .. Len(positions) : Fits(n)})
    IN  SubSeq(positions, (Len(positions) - kept) + 1, Len(positions))

\* The budget of the middle is what head and tail have left.
\* Mutant: the middle has the budget that the tail started with.
MiddleBudgetStale(head, tail) == head.left

MiddleBudget(head, tail) == tail.left

RtkSelect(ms, budget) ==
    IF budget = 0 \/ TotalTokens(ms) <= budget
    THEN Upwards(1, Len(ms))
    ELSE LET head_end == HeadEnd(ms)
             tail_start == Max({IF KeepTail < Len(ms) THEN Len(ms) - KeepTail ELSE 0, head_end})
             head == KeepFitting(ms, Upwards(1, head_end), budget)
             tail == KeepFitting(ms, Upwards(tail_start + 1, Len(ms)), head.left)
             middle == KeepNewest(ms, Upwards(head_end + 1, tail_start), MiddleBudget(head, tail))
             selected == head.kept \o middle \o tail.kept
         IN  IF Len(selected) < Len(ms) /\ selected # <<>>
             THEN InsertAt(selected, Min({head_end, Len(selected)}) + 1, Placeholder)
             ELSE selected

\* ComboEngine::execute compresses a request that asks for it, by its own budget.
Compressed(ms, compress, budget) ==
    IF compress /\ TotalTokens(ms) > budget THEN RtkSelect(ms, budget) ELSE Upwards(1, Len(ms))
=============================================================================
