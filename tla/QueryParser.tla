---------------------------- MODULE QueryParser ----------------------------
(***************************************************************************)
(* The client's parser of Boolean queries                                  *)
(* (Framework/src/Client/rbisen/QueryParser.cpp): the text is cut into     *)
(* tokens, and the tokens are put into reverse polish notation with the    *)
(* shunting-yard algorithm.                                                *)
(*                                                                         *)
(* A query is a sequence of lexemes: the operator characters, the space,   *)
(* and forms, the longest runs of other characters.  What lower case and   *)
(* the Porter stemmer make of a form is its word, Stem[form].  No form or  *)
(* word is one of the other lexemes.                                       *)
(***************************************************************************)
EXTENDS Integers, SequencesExt

CONSTANTS Forms, Words,
          Stem,       \* form -> word
          Malformed   \* no notation: the parser throws invalid_argument

Operators == {"&", "|", "!"}
Lexemes == Forms \cup Operators \cup {"(", ")", " "}

precedence(op) == CASE op = "!" -> 3 [] op = "&" -> 2 [] op = "|" -> 1 [] OTHER -> -1

\* The second of two equal characters && or || that touch is passed over.
tokenize(query) ==
    LET Run(i) == i - SelectLastInSubSeq(query, 1, i, LAMBDA x : x # query[i])
        Second(i) == query[i] \in {"&", "|"} /\ Run(i) % 2 = 0
        Token(i) == IF query[i] \in Forms THEN Stem[query[i]] ELSE query[i]
        tokens[n \in 0 .. Len(query)] ==   \* of the first n lexemes
            IF n = 0 THEN <<>>
            ELSE IF query[n] = " " \/ Second(n) THEN tokens[n - 1]
            ELSE Append(tokens[n - 1], Token(n))
    IN  tokens[Len(query)]

----------------------------------------------------------------------------
(* The shunting yard: the operators that wait, the last on top, and the    *)
(* output so far.                                                          *)

\* What is left of the waiting operators when those on top of the k-th are
\* popped, each into the output.
PopDownTo(yard, k) ==
    [operators |-> SubSeq(yard.operators, 1, k),
     output |-> yard.output \o Reverse(SubSeq(yard.operators, k + 1, Len(yard.operators)))]

Topmost(yard, Test(_)) == SelectLastInSeq(yard.operators, Test)

PushOperator(yard, op) ==
    LET popped == PopDownTo(yard, Topmost(yard, LAMBDA o : precedence(o) < precedence(op)))
    IN  [popped EXCEPT !.operators = Append(@, op)]

\* Without a "(", the operators run out: the parser throws.  (With no operator
\* at all it reads the top of an empty stack, which is undefined.)
CloseParenthesis(yard) ==
    LET open == Topmost(yard, LAMBDA o : o = "(")
        popped == PopDownTo(yard, open)
    IN  IF open = 0 THEN Malformed ELSE [popped EXCEPT !.operators = Front(@)]

ShuntingStep(yard, token) ==
    IF yard = Malformed THEN Malformed ELSE
    CASE token \in Operators -> PushOperator(yard, token)
      [] token = "(" -> [yard EXCEPT !.operators = Append(@, token)]
      [] token = ")" -> CloseParenthesis(yard)
      [] OTHER -> [yard EXCEPT !.output = Append(@, token)]

shunting_yard(infix) ==
    LET yards[n \in 0 .. Len(infix)] ==   \* after n tokens
            IF n = 0 THEN [operators |-> <<>>, output |-> <<>>]
            ELSE ShuntingStep(yards[n - 1], infix[n])
        yard == yards[Len(infix)]
    IN  IF yard = Malformed \/ Contains(yard.operators, "(") THEN Malformed
        ELSE PopDownTo(yard, 0).output

\* What the client sends of a query: its reverse polish notation.
parse(query) == shunting_yard(tokenize(query))
=============================================================================
