-------------------------------- MODULE SqlInput --------------------------------
(***************************************************************************)
(* SqlInput::ParseQueries: the scanner that splits an SQL file into the    *)
(* statements mysql_tquery_file and mysql_query_file send.                 *)
(*                                                                         *)
(* It looks at one character at a time, and at most three ahead, and       *)
(* leaves comments out.  A text is a sequence of characters, in which the  *)
(* word DELIMITER, which is only looked at as a whole, is one, and the     *)
(* backquote is called "grave".  A blank and a line break stand for the    *)
(* characters isspace and Trim know.                                       *)
(***************************************************************************)
EXTENDS Integers, Sequences

VARIABLES
  sql,      \* the text
  i,        \* the next character
  mode,     \* "plain", "line", "block", "kept", or the quote that is open
  current,  \* the statement read so far
  queries,  \* the statements found
  result    \* "scanning", "accepted" or "rejected"

vars == <<sql, i, mode, current, queries, result>>

Quotes == {"'", "\"", "grave"}
Blanks == {" ", "\n"}

Begin ==
  /\ i = 1 /\ mode = "plain"
  /\ current = <<>> /\ queries = <<>>
  /\ result = "scanning"

---------------------------------------------------------------------------
(* "" is what is read behind the end of the text.                          *)
At(k) == IF k =< Len(sql) THEN sql[k] ELSE ""
c == At(i)
next == At(i + 1)

Trim(s) ==
  LET solid == {k \in 1 .. Len(s) : s[k] \notin Blanks}
  IN  IF solid = {} THEN <<>>
      ELSE SubSeq(s, CHOOSE k \in solid : \A l \in solid : k =< l,
                     CHOOSE k \in solid : \A l \in solid : l =< k)

(* The loop goes on behind the n characters it has dealt with.             *)
Take(n, emitted, then) ==
  /\ i' = i + n
  /\ current' = current \o emitted
  /\ mode' = then
  /\ UNCHANGED <<sql, queries, result>>

Reading(modes) == result = "scanning" /\ i =< Len(sql) /\ mode \in modes

InLineComment ==
  /\ Reading({"line"})
  /\ IF c = "\n" THEN Take(1, <<"\n">>, "plain") ELSE Take(1, <<>>, "line")

InBlockComment ==
  /\ Reading({"block", "kept"})
  /\ IF c = "*" /\ next = "/"
     THEN Take(2, IF mode = "kept" THEN <<c, next>> ELSE <<" ">>, "plain")
     ELSE Take(1, IF mode = "kept" THEN <<c>> ELSE <<>>, mode)

EscapedEverywhere == c = "\\" /\ next # ""   \* faulty variant: in identifiers too
Escaped == mode # "grave" /\ c = "\\" /\ next # ""

Ended == c = mode /\ next # mode
InQuote ==
  /\ Reading(Quotes)
  /\ IF Escaped \/ (c = mode /\ next = mode) THEN Take(2, <<c, next>>, mode)
     ELSE Take(1, <<c>>, IF Ended THEN "plain" ELSE mode)

OpensLine == c = "#" \/ (c = "-" /\ next = "-" /\ At(i + 2) \in Blanks \cup {""})
OpensBlock == c = "/" /\ next = "*"
(* Executable comments and optimizer hints are kept.                       *)
IsKept == At(i + 2) \in {"!", "+"} \/ (At(i + 2) = "M" /\ At(i + 3) = "!")

OpenQuote ==
  /\ Reading({"plain"}) /\ c \in Quotes
  /\ Take(1, <<c>>, c)

OpenLine ==
  /\ Reading({"plain"}) /\ OpensLine
  /\ Take(1, <<" ">>, "line")

OpenBlock ==
  /\ Reading({"plain"}) /\ OpensBlock
  /\ IF IsKept THEN Take(2, <<c, next>>, "kept") ELSE Take(2, <<" ">>, "block")

EndStatement ==
  /\ Reading({"plain"}) /\ c = ";"
  /\ queries' = IF Trim(current) = <<>> THEN queries
                ELSE Append(queries, Append(Trim(current), ";"))
  /\ current' = <<>>
  /\ i' = i + 1
  /\ UNCHANGED <<sql, mode, result>>

Copy ==
  /\ Reading({"plain"})
  /\ c \notin Quotes \cup {";"} /\ ~OpensLine /\ ~OpensBlock
  /\ Take(1, <<c>>, "plain")

---------------------------------------------------------------------------
(* The end of the text.                                                    *)
QuoteOpen == mode \in Quotes          \* faulty variant: comments are forgotten
Unclosed == mode \in Quotes \cup {"block", "kept"}

IsDirective(q) == q[1] = "DELIMITER" /\ (Len(q) > 1 => q[2] \in Blanks)

AllQueries == IF Trim(current) = <<>> THEN queries ELSE Append(queries, Trim(current))

Refused == Unclosed \/ \E k \in 1 .. Len(AllQueries) : IsDirective(AllQueries[k])

Accept ==
  /\ result = "scanning" /\ i > Len(sql) /\ ~Refused
  /\ queries' = AllQueries
  /\ result' = "accepted"
  /\ UNCHANGED <<sql, i, mode, current>>

Reject ==
  /\ result = "scanning" /\ i > Len(sql) /\ Refused
  /\ queries' = <<>>
  /\ result' = "rejected"
  /\ UNCHANGED <<sql, i, mode, current>>

Returned == result # "scanning" /\ UNCHANGED vars

Scan == \/ InLineComment \/ InBlockComment \/ InQuote
        \/ OpenQuote \/ OpenLine \/ OpenBlock \/ EndStatement \/ Copy

Next == Scan \/ Accept \/ Reject \/ Returned
=============================================================================
