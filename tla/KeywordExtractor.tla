-------------------------- MODULE KeywordExtractor -------------------------
(***************************************************************************)
(* How the client makes documents of a text file                           *)
(* (Framework/src/Client/rbisen/EnglishAnalyzer.cpp): one document of the  *)
(* whole file, or one of every article of a file of articles.  A document  *)
(* gives the words of the file their frequencies.                          *)
(*                                                                         *)
(* A file is [lines, closed]: closed says that a newline follows the last  *)
(* line.  A line opens or closes an article ("<doc ", "</doc>"), or is the *)
(* sequence of its forms, the runs of letters and digits, and says whether *)
(* another character follows the last of them.                             *)
(***************************************************************************)
EXTENDS Integers, SequencesExt

CONSTANTS Forms, Words, Stem, StopWords

OpenArticle == [kind |-> "open"]
CloseArticle == [kind |-> "close"]
Text(forms, followed) == [kind |-> "text", forms |-> forms, followed |-> followed]

Line == {OpenArticle, CloseArticle}
        \cup [kind : {"text"}, forms : Seq(Forms), followed : BOOLEAN]
File == [lines : Seq(Line), closed : BOOLEAN]

NoText == [w \in Words |-> 0]

\* Every form counts for its word, but the stop words.
CountForms(document, forms) ==
    [w \in Words |-> document[w] +
        Cardinality({i \in DOMAIN forms : forms[i] \notin StopWords /\ Stem[forms[i]] = w})]

FormsOf(line) == IF line.kind = "text" THEN line.forms ELSE <<>>

\* The words of the markup are left out of the model.
extractUniqueKeywords(file) ==
    FoldLeft(LAMBDA document, line : CountForms(document, FormsOf(line)), NoText, file.lines)

\* A form is counted when the character after it is read: the last one of a line
\* has none.
Counted(line) == IF line.followed THEN line.forms ELSE Front(line.forms)

\* Wrong: an article's words go on in the next document.
ReadLineOpening(articles, line) ==
    CASE line = OpenArticle -> Append(articles, NoText)
      [] line = CloseArticle -> articles
      [] OTHER -> [articles EXCEPT ![Len(articles)] = CountForms(@, Counted(line))]

ReadLine(articles, line) ==
    CASE line = OpenArticle -> articles
      [] line = CloseArticle -> Append(articles, NoText)
      [] OTHER -> [articles EXCEPT ![Len(articles)] = CountForms(@, Counted(line))]

\* The loop goes through its body once more when getline has failed.  If the file
\* ended with a newline, the line is empty then; if not, getline touches nothing
\* and the last line is read again.
extractUniqueKeywords_wiki(file) ==
    LET n == Len(file.lines)
        Again == IF file.closed \/ n = 0 THEN <<>> ELSE <<file.lines[n]>>
        lines == file.lines \o Again
        articles[m \in 0 .. Len(lines)] ==   \* after m lines
            IF m = 0 THEN <<NoText>> ELSE ReadLine(articles[m - 1], lines[m])
    IN  articles[Len(lines)]
=============================================================================
