-------------------------- MODULE QueryEvaluator ---------------------------
(***************************************************************************)
(* The enclave's evaluation of a query in reverse polish notation          *)
(* (ImageSearch/src/rbisen/QueryEvaluator.cpp, util/vec_int.cpp): a stack  *)
(* of vectors of documents.  The set operations mark the documents in a    *)
(* buffer, count, of one byte per document, and read the result off it.    *)
(***************************************************************************)
EXTENDS Integers, SequencesExt

CONSTANT Wrong   \* no result: the enclave's process ends

\* count[d] after both operands are marked.  A document past the end of the
\* buffer is marked outside of it, and never read.
MarkBoth(a, b, d) ==
    (IF Contains(a, d) THEN 1 ELSE 0) + Cardinality({i \in DOMAIN b : b[i] = d})

\* What a vector has no room for is dropped.
vi_push_back(vector, d, room) == IF Len(vector) < room THEN Append(vector, d) ELSE vector

\* The documents read off the buffer, from 0 on.
ReadOff(marked, room, nDocs) ==
    LET vector[n \in 0 .. nDocs] ==   \* of the first n documents
            IF n = 0 THEN <<>>
            ELSE IF n - 1 \in marked THEN vi_push_back(vector[n - 1], n - 1, room)
            ELSE vector[n - 1]
    IN  vector[nDocs]

vi_vec_union(a, b, nDocs) ==
    ReadOff({d \in 0 .. nDocs - 1 : MarkBoth(a, b, d) > 0},
            Len(a) + Cardinality(ToSet(b) \ ToSet(a)), nDocs)

\* The room is the number of documents whose mark reached 2.
vi_vec_intersection(a, b, nDocs) ==
    ReadOff({d \in 0 .. nDocs - 1 : MarkBoth(a, b, d) = 2},
            Cardinality({d \in ToSet(b) : MarkBoth(a, b, d) >= 2}), nDocs)

\* Wrong: the room of the operand.
get_not_docs_in_place(a, nDocs) == ReadOff((0 .. nDocs - 1) \ ToSet(a), Len(a), nDocs)

get_not_docs(a, nDocs) ==
    ReadOff((0 .. nDocs - 1) \ ToSet(a), nDocs - Len(a), nDocs)

\* The operands are the top of the stack and the one below it.
EvaluateStep(stack, token, docs, nDocs) ==
    LET n == Len(stack)
        below == SubSeq(stack, 1, n - 2)
    IN  IF stack = Wrong THEN Wrong ELSE
        CASE token = "&" -> IF n < 2 THEN Wrong ELSE
                Append(below, vi_vec_intersection(stack[n], stack[n - 1], nDocs))
          [] token = "|" -> IF n < 2 THEN Wrong ELSE
                Append(below, vi_vec_union(stack[n], stack[n - 1], nDocs))
          [] token = "!" -> IF n < 1 THEN Wrong ELSE
                Append(Front(stack), get_not_docs(stack[n], nDocs))
          [] OTHER -> Append(stack, docs)

\* docs[i]: the documents of the i-th token, if it is a word.
evaluate(rpn, docs, nDocs) ==
    LET stacks[n \in 0 .. Len(rpn)] ==   \* after n tokens
            IF n = 0 THEN <<>> ELSE EvaluateStep(stacks[n - 1], rpn[n], docs[n], nDocs)
        stack == stacks[Len(rpn)]
    IN  IF stack # Wrong /\ Len(stack) = 1 THEN stack[1] ELSE Wrong
=============================================================================
