------------------------------ MODULE DataView ------------------------------
(***************************************************************************)
(* The rows a run of src/forge/tasks/instruct.py trains on.  run looks for *)
(* the first sequence cap at which some source item gives a row; the       *)
(* survival ladder later asks for the same items at smaller caps, and the  *)
(* view it was using is dropped for the one at the new cap (data_for).     *)
(*                                                                         *)
(* A task has items of one kind: chat conversations with their template,   *)
(* instruct examples, or the documents of a completion task.               *)
(***************************************************************************)
EXTENDS Tokenize

CONSTANTS
    Tasks,        \* [kind, template, items] records
    Limits,       \* [positions, tokenizer]: what model and tokenizer accept
    Requested,    \* the plan's max_seq_len
    ReducedCaps   \* caps the ladder may reduce to

Template == [head : Text, foot : Text, tail : Text, strips : BOOLEAN]
Message == [role : STRING, content : Text]

ASSUME DataViewAssumption ==
    /\ Requested \in Nat \ {0} /\ ReducedCaps \subseteq Nat \ {0}
    /\ \A l \in Limits : l.positions \in Nat \ {0} /\ l.tokenizer \in Nat \ {0}
    /\ \A t \in Tasks :
          \/ /\ t.kind = "chat" /\ t.template \in Template
             /\ t.items \in Seq(Seq(Message))
          \/ /\ t.kind = "instruct"
             /\ t.items \in Seq([prompt : Text, completion : Text])
          \/ t.kind = "completion" /\ t.items \in Seq(Text)

VARIABLES
    task, limit,
    tried,    \* candidates whose view was built
    view,     \* the view in use: its cap, and the rows of each item
    status

vars == <<task, limit, tried, view, status>>

NoView == [cap |-> 0, rows |-> <<>>]

Init ==
    /\ task \in Tasks
    /\ limit \in Limits
    /\ tried = 0 /\ view = NoView /\ status = "searching"

\* sft_sequence_len_candidates for the model and the tokenizer of the run.
Ladder == Candidates(EffectiveStart(limit.positions, Requested),
                     LesserOf(limit.positions, limit.tokenizer))

\* tokenize_one: the rows of one source item.
RowsOf(item, cap) ==
    CASE task.kind = "chat"       -> ChatRows(task.template, item, cap)
      [] task.kind = "instruct"   -> InstructRows(item, cap)
      [] task.kind = "completion" -> CompletionRows(item, cap)

\* _make_data_view.
MakeView(cap) ==
    [cap |-> cap,
     rows |-> [i \in DOMAIN task.items |-> RowsOf(task.items[i], cap)]]

HasRows(v) == \E i \in DOMAIN v.rows : v.rows[i] # <<>>

\* A candidate without rows: the evaluator would try the next one.
SkipCandidate ==
    /\ status = "searching" /\ tried < Len(Ladder)
    /\ ~HasRows(MakeView(Ladder[tried + 1]))
    /\ tried' = tried + 1
    /\ UNCHANGED <<task, limit, view, status>>

TakeCandidate ==
    /\ status = "searching" /\ tried < Len(Ladder)
    /\ HasRows(MakeView(Ladder[tried + 1]))
    /\ view' = MakeView(Ladder[tried + 1])
    /\ tried' = tried + 1 /\ status' = "in use"
    /\ UNCHANGED <<task, limit>>

\* "no trainable examples after tokenization".
NoTrainable ==
    /\ status = "searching" /\ tried = Len(Ladder)
    /\ status' = "raised"
    /\ UNCHANGED <<task, limit, tried, view>>

\* data_for at another cap: the only view kept is replaced.
Reduce(cap) ==
    /\ status = "in use" /\ cap < view.cap
    /\ view' = MakeView(cap)
    /\ UNCHANGED <<task, limit, tried, status>>

\* The ladder has the view it trains on, or the handler has raised.
Settled ==
    /\ status \in {"in use", "raised"}
    /\ UNCHANGED vars

Next ==
    \/ SkipCandidate \/ TakeCandidate \/ NoTrainable
    \/ \E cap \in ReducedCaps : Reduce(cap)
    \/ Settled

Spec == Init /\ [][Next]_vars

-----------------------------------------------------------------------------
(* What the rows should be, stated on the characters of the texts.         *)

\* Position p of ids holds a character of text numbered first to last.
Covers(ids, p, first, last) ==
    LET before == Len(FlattenSeq(SubSeq(ids, 1, p - 1)))
    IN  before + 1 <= last /\ before + Len(ids[p]) >= first

\* The positions that hold a part of the answer at turn k.
AnswerTokens(t, messages, k, ids) ==
    LET from == Len(Opening(t, messages, k - 1)) + Len(t.head)
    IN  {p \in DOMAIN ids :
            Covers(ids, p, from + 1, from + Len(Body(t, messages, k)))}

\* The answer at turn k reads the same in the conversation up to it and in the
\* whole one, and so do the messages before it.
RendersAlike(t, messages, k) ==
    Opening(t, messages, k) = Opening(t, SubSeq(messages, 1, k), k)

Steady(t, messages) ==
    \A k \in AnswerTurns(messages) : RendersAlike(t, messages, k)

\* An answer that begins or ends like the dummy shares tokens with it.
LikeDummy(content) == Head(content) = Head(Dummy) \/ Last(content) = Last(Dummy)

\* "Only completion tokens carry loss": a labelled token of a conversation holds
\* a part of an answer, or is an EOS within four tokens of the end of one,
\* provided the template renders the turns of a conversation alike however far
\* it has gone; a labelled token of an instruct row is not one of its prompt's.
OnlyAnswersCarryLoss ==
    \A i \in DOMAIN view.rows : \A row \in Range(view.rows[i]) :
        CASE task.kind = "chat" ->
                LET item == task.items[i]
                    answers == UNION {AnswerTokens(task.template, item, k, row.ids) :
                                          k \in AnswerTurns(item)}
                    stops == {p \in DOMAIN row.ids :
                                 row.ids[p] = Eos /\ \E q \in answers : p - q \in 1 .. 4}
                IN  Steady(task.template, item) => row.labels \subseteq answers \cup stops
          [] task.kind = "instruct" ->
                \A p \in row.labels : p > 1 + Len(Tokens(task.items[i].prompt))
          [] OTHER -> TRUE

\* "For chat we supervise every assistant turn": a conversation that fits the cap
\* gives a row in which every part of every answer is labelled, and so is the EOS
\* that closes it; an answer that begins or ends like the dummy is excepted.  An
\* instruct example that fits has its whole completion and EOS labelled.
AnswersAreSupervised ==
    \A i \in DOMAIN view.rows :
        LET item == task.items[i] rows == view.rows[i] IN
        CASE task.kind = "chat" ->
                LET ids == Tokens(Render(task.template, item)) IN
                \A k \in AnswerTurns(item) :
                    LET answer == AnswerTokens(task.template, item, k, ids) IN
                    /\ Len(ids) <= view.cap
                    /\ Steady(task.template, item)
                    /\ item[k].content # <<>> /\ ~LikeDummy(item[k].content)
                    => /\ rows # <<>>
                       /\ answer \subseteq rows[1].labels
                       /\ \A p \in DOMAIN ids :
                              ids[p] = Eos /\ p = Max(answer) + 1 => p \in rows[1].labels
          [] task.kind = "instruct" ->
                LET whole == Tokens(item.prompt) \o Tokens(item.completion) IN
                Len(whole) + 2 <= view.cap =>
                    /\ rows # <<>>
                    /\ Cardinality(rows[1].labels) = Len(Tokens(item.completion)) + 1
          [] OTHER -> TRUE

\* The evaluator drops an excess row and cuts a document without losing any of
\* it: no row exceeds the cap, a conversation or an example is never cut, and the
\* rows of a document, all but the last of them full and all of them labelled
\* throughout, are its tokens up to the document's limit.
RowsAreWhole ==
    \A i \in DOMAIN view.rows :
        LET item == task.items[i] rows == view.rows[i] IN
        /\ \A row \in Range(rows) : Len(row.ids) <= view.cap
        /\ CASE task.kind = "chat" ->
                  \A row \in Range(rows) :
                      row.ids = Tokens(Render(task.template, item))
            [] task.kind = "instruct" ->
                  \A row \in Range(rows) :
                      row.ids = <<Bos>> \o Tokens(item.prompt)
                                    \o Tokens(item.completion) \o <<Eos>>
            [] task.kind = "completion" ->
                  LET joined == FlattenSeq([r \in DOMAIN rows |-> rows[r].ids])
                      text == <<Bos>> \o Tokens(item)
                      closed == IF item = <<>> THEN <<>>
                                ELSE IF Last(text) = Eos THEN text
                                ELSE Append(text, Eos)
                  IN  /\ joined = SubSeq(closed, 1, LesserOf(view.cap * DocFactor,
                                                            Len(closed)))
                      /\ Len(rows) <= DocFactor
                      /\ \A r \in DOMAIN rows :
                             /\ rows[r].labels = DOMAIN rows[r].ids
                             /\ r < Len(rows) => Len(rows[r].ids) = view.cap

\* The handler gives up only if no item could be trained on at the largest cap
\* that model and tokenizer accept.
FailureIsEarned ==
    status = "raised" =>
        ~HasRows(MakeView(LesserOf(limit.positions, limit.tokenizer)))
=============================================================================
