------------------------------ MODULE Tokenize ------------------------------
(***************************************************************************)
(* The rows of src/forge/data/tokenize.py as operators: which tokens a     *)
(* source item becomes at a sequence cap, and which of them carry loss.    *)
(*                                                                         *)
(* A text is a sequence of characters and a token a sequence of one or two *)
(* of them: like a real tokenizer, Tokens joins neighbours that have a     *)
(* token of their own, wherever the texts they come from meet.  A row is   *)
(* [ids, labels], labels being the positions that are not -100.            *)
(***************************************************************************)
EXTENDS Integers, SequencesExt

CONSTANTS
    Characters, \* the characters of the texts, the special ones among them
    Merges,     \* the pairs of characters that have a token of their own
    DocFactor,  \* a document is tokenized up to this many caps (64 in the code)
    EvaluatorCap  \* the cap the evaluator starts at (4096 in the code)

ASSUME TokenizeAssumption ==
    /\ {"bos", "eos"} \subseteq Characters
    /\ DocFactor \in Nat \ {0} /\ EvaluatorCap \in Nat \ {0}

Text == Seq(Characters)

Bos == <<"bos">>
Eos == <<"eos">>

\* The content of the message that stands for an answer in the diff,
\* "[[dummy_message]]": its ends are characters an answer may have as well.
Dummy == <<"[[", "dummy", "]]">>

\* The reasoning block that some templates remove from the earlier answers.
Thought == <<"<think>", "why", "because", "</think>">>

\* What reading the character c makes of the tokens before it.
Reading(tokens, c) ==
    IF tokens # <<>> /\ Append(Last(tokens), c) \in Merges
    THEN Append(Front(tokens), Append(Last(tokens), c))
    ELSE Append(tokens, <<c>>)

Tokens(text) ==
    LET read[k \in 0 .. Len(text)] ==
            IF k = 0 THEN <<>> ELSE Reading(read[k - 1], text[k])
    IN  read[Len(text)]

-----------------------------------------------------------------------------
(* Rendering.  A template has a head and a foot for each message, a tail   *)
(* after the last one, and may strip the reasoning of an answer once a     *)
(* question follows it.                                                    *)

Body(t, messages, i) ==
    LET content == messages[i].content
        followed == \E j \in i + 1 .. Len(messages) : messages[j].role = "user"
    IN  IF t.strips /\ followed /\ IsPrefix(Thought, content)
        THEN SubSeq(content, Len(Thought) + 1, Len(content))
        ELSE content

\* The first k messages of a conversation, as they are rendered within it.
Opening(t, messages, k) ==
    FlattenSeq([i \in 1 .. k |-> t.head \o Body(t, messages, i) \o t.foot])

Render(t, messages) == Opening(t, messages, Len(messages)) \o t.tail

-----------------------------------------------------------------------------
(* Chat: the answers are found by comparing renderings.                    *)

LesserOf(a, b) == IF a < b THEN a ELSE b

\* Mutated form of DiffSpan: the last difference is left out.
DiffSpanShort(dummy, full) ==
    LET common == LesserOf(Len(dummy), Len(full))
        front == {i \in 1 .. common : dummy[i] # full[i]}
        back  == {k \in 0 .. common - 1 :
                      dummy[Len(dummy) - k] # full[Len(full) - k]}
    IN  IF front = {} \/ back = {} THEN {}
        ELSE Min(front) .. Len(full) - Min(back) - 1

\* _token_diff_boundaries: from the first to the last difference.
DiffSpan(dummy, full) ==
    LET common == LesserOf(Len(dummy), Len(full))
        front == {i \in 1 .. common : dummy[i] # full[i]}
        back  == {k \in 0 .. common - 1 :
                      dummy[Len(dummy) - k] # full[Len(full) - k]}
    IN  IF front = {} \/ back = {} THEN {}
        ELSE Min(front) .. Len(full) - Min(back)

\* Mutated form of NearbyEos: any later EOS will do.
NearbyEosAnywhere(ids, end) ==
    LET found == {p \in end + 1 .. Len(ids) : ids[p] = Eos}
    IN  IF found = {} THEN {} ELSE {Min(found)}

\* The first EOS among the four tokens after an answer.
NearbyEos(ids, end) ==
    LET found == {p \in end + 1 .. LesserOf(end + 4, Len(ids)) : ids[p] = Eos}
    IN  IF found = {} THEN {} ELSE {Min(found)}

\* The positions of the full conversation that the answer at turn k labels: they
\* are found in the conversation up to k, rendered with the answer and with the
\* dummy.
TurnLabels(t, messages, k, ids) ==
    LET turn == SubSeq(messages, 1, k)
        dummy == [turn EXCEPT ![k].content = Dummy]
        span == DiffSpan(Tokens(Render(t, dummy)), Tokens(Render(t, turn)))
                    \cap DOMAIN ids
    IN  IF span = {} THEN {} ELSE span \cup NearbyEos(ids, Max(span))

AnswerTurns(messages) == {k \in DOMAIN messages : messages[k].role = "assistant"}

\* _mask_assistant_turns and tokenize_chat_resolved for one conversation.
ChatRows(t, messages, cap) ==
    LET ids == Tokens(Render(t, messages))
        labels == UNION {TurnLabels(t, messages, k, ids) :
                             k \in AnswerTurns(messages)}
    IN  IF Len(ids) > cap \/ labels = {} THEN <<>>
        ELSE <<[ids |-> ids, labels |-> labels]>>

-----------------------------------------------------------------------------
(* Instruct: prompt and completion are tokenized separately.               *)

\* Mutated form of InstructRows: a row over the cap is cut instead of dropped.
InstructRowsCut(example, cap) ==
    LET prompt == <<Bos>> \o Tokens(example.prompt)
        ids == prompt \o Tokens(example.completion) \o <<Eos>>
        kept == LesserOf(Len(ids), cap)
    IN  IF kept <= Len(prompt) THEN <<>>
        ELSE <<[ids |-> SubSeq(ids, 1, kept),
                labels |-> Len(prompt) + 1 .. kept]>>

InstructRows(example, cap) ==
    LET prompt == <<Bos>> \o Tokens(example.prompt)
        ids == prompt \o Tokens(example.completion) \o <<Eos>>
    IN  IF Len(ids) > cap THEN <<>>
        ELSE <<[ids |-> ids, labels |-> Len(prompt) + 1 .. Len(ids)]>>

-----------------------------------------------------------------------------
(* Completion: a document is cut into contiguous rows.                     *)

\* Mutated form of Encoded: the EOS is appended to a full document too.
EncodedPastCap(text, cap) ==
    LET all == <<Bos>> \o Tokens(text)
        ids == SubSeq(all, 1, LesserOf(Len(all), cap * DocFactor))
    IN  IF Last(ids) # Eos THEN Append(ids, Eos) ELSE ids

\* The tokens of a document: truncated, and closed by an EOS if there is room.
Encoded(text, cap) ==
    LET all == <<Bos>> \o Tokens(text)
        ids == SubSeq(all, 1, LesserOf(Len(all), cap * DocFactor))
    IN  IF Last(ids) # Eos /\ Len(ids) < cap * DocFactor THEN Append(ids, Eos)
        ELSE ids

\* A document without text has no rows.
CompletionRows(text, cap) ==
    LET ids == Encoded(text, cap)
        chunks == IF text = <<>> THEN 0 ELSE (Len(ids) + cap - 1) \div cap
        Chunk(i) == SubSeq(ids, (i - 1) * cap + 1, LesserOf(i * cap, Len(ids)))
    IN  [i \in 1 .. chunks |-> [ids |-> Chunk(i), labels |-> DOMAIN Chunk(i)]]

-----------------------------------------------------------------------------
(* The caps the evaluator tries.                                           *)

\* effective_sft_seq_len: half the positions of a model that has fewer than twice
\* the evaluator's cap.
EffectiveStart(positions, requested) ==
    LesserOf(requested, IF positions < 2 * EvaluatorCap THEN (positions + 1) \div 2
                        ELSE EvaluatorCap)

\* Mutated form of Candidates: the last doubling must fit the limit.
CandidatesBelow(start, limit) ==
    LET first == LesserOf(start, limit)
        current[k \in Nat] == IF k = 0 THEN first
                              ELSE LesserOf(2 * current[k - 1], limit + 1)
        last == Min({k \in 0 .. limit : 2 * current[k] > limit})
    IN  [k \in 1 .. last + 1 |-> current[k - 1]]

\* sft_sequence_len_candidates: the cap is doubled until it reaches the limit,
\* which is the last.
Candidates(start, limit) ==
    LET first == LesserOf(start, limit)
        current[k \in Nat] ==
            IF k = 0 THEN first ELSE LesserOf(2 * current[k - 1], limit)
        last == Min({k \in 0 .. limit : current[k] >= limit})
    IN  [k \in 1 .. last + 1 |-> current[k - 1]]
=============================================================================
