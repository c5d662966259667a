---------------------------- MODULE MCTextIndex ----------------------------
(***************************************************************************)
(* MultimodalQuery and its TextIndex for TLC: files of text and of tags,   *)
(* and the expressions that QueryMeaning writes queries for.               *)
(***************************************************************************)
EXTENDS MultimodalQuery, TextInvariant, QueryMeaning

MCForms == {"cat", "cats", "dog", "the", "empty"}
MCStem == [f \in MCForms |-> IF f = "cats" THEN "cat" ELSE f]
MCWords == MCForms \ {"cats"}

\* Expressions over two words: two operators at most, and the joins of two small
\* ones that tell the precedences apart.
Negations(E) == {[op |-> "!", of |-> e] : e \in E}
Joins(L, R) == [op : {"&", "|"}, left : L, right : R]
Cat == [op |-> "word", form |-> "cats"]
Dog == [op |-> "word", form |-> "dog"]
Both == Joins({Cat}, {Dog})
MCExpressions == {Cat, Dog} \cup Negations({Cat} \cup Both \cup Negations({Cat})) \cup Both
                 \cup Joins(Negations({Cat}), {Dog})
                 \cup Joins({Cat}, Both) \cup Joins(Both, {Cat, Dog})

MCDepth[e \in MCExpressions] ==
    CASE e.op = "word" -> 0
      [] e.op = "!" -> MCDepth[e.of] + 1
      [] OTHER -> MCDepth[e.left] + MCDepth[e.right] + 1

\* What no expression has: nothing, two words, an open parenthesis, an unknown word.
Others == {<<>>, <<"cat", " ", "dog">>, <<"(", "cat">>, <<"empty">>}

MCQueries == {Render[e] : e \in Expressions} \cup Others

Line(forms) == Analyzer!Text(forms, TRUE)
Markup(articles) == FlattenSeq([k \in DOMAIN articles |->
    <<Analyzer!OpenArticle, Line(articles[k]), Analyzer!CloseArticle>>])

MCFiles == {
    [lines |-> <<Line(<<"cat", "the">>), Analyzer!Text(<<"cats">>, FALSE)>>, closed |-> TRUE],
    [lines |-> <<Line(<<"dog", "dog">>), Analyzer!Text(<<"the", "cat">>, FALSE)>>, closed |-> FALSE],
    [lines |-> Markup(<<<<"cat">>, <<"dog", "cats">>>>), closed |-> TRUE],
    [lines |-> Markup(<<<<"dog">>>>), closed |-> FALSE]}

MCTagFiles == {<<>>, <<"cats">>, <<"cat", "dog">>}

\* Nothing, or other documents under the first labels of some words.
MCEarlier == {[l \in Labels |-> None],
    [l \in Labels |-> IF l[1] = "cat" \/ l = <<"dog", 0>> THEN <<l, (l[2] + 1) % MaxDocs, 1>> ELSE None]}
=============================================================================
