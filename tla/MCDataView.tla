----------------------------- MODULE MCDataView -----------------------------
(***************************************************************************)
(* Model-checking module of DataView: the templates, texts and limits.     *)
(* The templates have the shapes of chatml (an EOS and a newline close     *)
(* every message), metharme (one EOS at the end), a native template that   *)
(* ends a message with a newline, and qwen3 (reasoning is stripped).       *)
(***************************************************************************)
EXTENDS DataView

MCCharacters ==
    {"bos", "eos", "h", "nl", "a", "q", "[[", "dummy", "]]",
     "<think>", "why", "because", "</think>"}
MCMerges == {<<"nl", "nl">>}

Chatml   == [head |-> <<"h", "nl">>, foot |-> <<"eos", "nl">>, tail |-> <<>>,
             strips |-> FALSE]
Metharme == [Chatml EXCEPT !.head = <<"h">>, !.foot = <<>>, !.tail = <<"eos">>]
Native   == [Chatml EXCEPT !.foot = <<"nl">>]
Qwen3    == [Chatml EXCEPT !.strips = TRUE]
Templates == {Chatml, Metharme, Native, Qwen3}

User(c)      == [role |-> "user", content |-> c]
Assistant(c) == [role |-> "assistant", content |-> c]

Answers == {<<>>, <<"a">>, <<"nl", "a">>, <<"a", "nl">>, <<"nl">>,
            <<"[[", "]]">>, <<"[[", "a", "]]">>, <<"a", "[[">>,
            Thought \o <<"a">>, <<"a", "eos", "a">>}
Questions == {<<"q">>, <<"nl", "q", "q", "q", "q">>}

Conversations ==
    {<<Assistant(a)>> : a \in Answers}
    \cup {<<User(q), Assistant(a)>> : q \in Questions, a \in Answers}
    \cup {<<User(q), Assistant(a), User(r)>> :
              q \in Questions, a \in Answers, r \in Questions}
    \cup {<<User(q), Assistant(a), User(r), Assistant(b)>> :
              q \in {<<"q">>}, a \in Answers, r \in Questions, b \in Answers}
    \cup {<<Assistant(a), Assistant(b)>> : a \in Answers, b \in Answers}

Texts == {<<>>, <<"a">>, <<"a", "nl">>, <<"nl", "nl", "a">>, <<"a", "a", "eos">>,
          [i \in 1 .. 9 |-> "a"], [i \in 1 .. 14 |-> "a"], [i \in 1 .. 30 |-> "a"]}

Items(kind) ==
    CASE kind = "chat"       -> Conversations
      [] kind = "instruct"   -> [prompt : Texts, completion : Texts]
      [] kind = "completion" -> Texts

\* A second item that is short, so that views with and without rows are met.
Companion(kind) ==
    CASE kind = "chat"       -> <<User(<<"q">>), Assistant(<<"a">>)>>
      [] kind = "instruct"   -> [prompt |-> <<"a">>, completion |-> <<"a">>]
      [] kind = "completion" -> <<"a">>

MCTasks ==
    UNION {{[kind |-> k, template |-> t, items |-> s] :
                t \in IF k = "chat" THEN Templates ELSE {Chatml},
                s \in UNION {{<<i>>, <<i, Companion(k)>>} : i \in Items(k)}} :
           k \in {"chat", "instruct", "completion"}}

MCLimits == {[positions |-> 34, tokenizer |-> 100],
             [positions |-> 13, tokenizer |-> 100],
             [positions |-> 34, tokenizer |-> 5]}
=============================================================================
