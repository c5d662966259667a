---------------------------- MODULE QueryMeaning ----------------------------
(***************************************************************************)
(* What the answer to a query must be: Boolean expressions over words, the *)
(* queries written for them, and the documents of TextIndex that an        *)
(* expression is true of. None of it is code of the system.                *)
(***************************************************************************)
EXTENDS TextIndex

CONSTANTS Expressions,      \* records, closed under operands
          Depth, MaxDepth   \* expression -> how deep it is

Operands(e) == CASE e.op = "word" -> {}
                 [] e.op = "!" -> {e.of}
                 [] OTHER -> {e.left, e.right}

\* An expression's operands are less deep than it is; None is no state of the parser.
ASSUME ExpressionsAssumption ==
    /\ Expressions \subseteq [op : {"word"}, form : Forms] \cup [op : {"!"}, of : Expressions]
                             \cup [op : {"&", "|"}, left : Expressions, right : Expressions]
    /\ MaxDepth \in Nat /\ Depth \in [Expressions -> 0 .. MaxDepth]
    /\ \A e \in Expressions : \A x \in Operands(e) : Depth[x] < Depth[e]
    /\ None \notin [operators : Seq(Words \cup Parser!Lexemes), output : Seq(Words \cup Parser!Lexemes)]

\* An operand is in parentheses if its operator is one of some.
Nested(text, x, ops) == IF x.op \in ops THEN <<"(">> \o text \o <<")">> ELSE text

\* What is written for an expression, of what is written for its operands:
\* parentheses only where the precedence asks for them, and where a negation is
\* negated.
TextOf(e, text) ==
    CASE e.op = "word" -> <<e.form>>
      [] e.op = "!" -> <<"!">> \o Nested(text[e.of], e.of, {"!", "&", "|"})
      [] e.op = "&" -> Nested(text[e.left], e.left, {"|"}) \o <<" ", "&", "&", " ">>
                       \o Nested(text[e.right], e.right, {"|"})
      [] e.op = "|" -> text[e.left] \o <<"|">> \o text[e.right]

Render == LET text[e \in Expressions] == TextOf(e, text) IN text

\* The documents an expression is true of, of those that its operands are.
MeaningOf(e, documents) ==
    CASE e.op = "word" -> {d \in 0 .. Len(texts) - 1 : texts[d + 1][Stem[e.form]] > 0}
      [] e.op = "!" -> 0 .. Len(texts) - 1 \ documents[e.of]
      [] e.op = "&" -> documents[e.left] \cap documents[e.right]
      [] e.op = "|" -> documents[e.left] \cup documents[e.right]

Meaning == LET documents[e \in Expressions] == MeaningOf(e, documents) IN documents

\* A search returns, each once, the documents its query is true of, of those the
\* client has sent: through stemming, the parser's precedences, the counters, the
\* shuffled batches, the storage and the evaluator's vectors.
SearchMeansQuery ==
    pc = "answer" => \A e \in Expressions :
        query = Render[e] => ToSet(result) = Meaning[e] /\ IsInjective(result)
=============================================================================
