----------------------------- MODULE SqlInputReference -----------------------------
(***************************************************************************)
(* What ParseQueries promises, against a definition that does not scan:    *)
(* a file is a sequence of lexemes put down one after the other, the text  *)
(* is what they spell, and the statements are what stands between the      *)
(* lexemes that are semicolons.                                            *)
(***************************************************************************)
EXTENDS SqlInput

CONSTANTS
  Character,   \* the characters of a file, "" is none
  Lexemes,     \* records [kind, text]
  MaxLexemes   \* bound: lexemes of a file

(* "code", "end" (a semicolon), "quoted", "kept" (an executable comment)   *)
(* stand for themselves; "comment" and "line" are comments; "last" is a    *)
(* line comment, and "open" something unclosed, at the end of the file.    *)
Kinds == {"code", "end", "quoted", "kept", "comment", "line", "last", "open"}

(* Behind its opening quote a string or an identifier, which is read up to *)
(* last, is made of pairs, an escaped character or a doubled quote, and of *)
(* single characters, which are no quotes.  They begin at starts.          *)
Pair(t, k) ==
  k < Len(t) /\ \/ t[1] # "grave" /\ t[k] = "\\"
                \/ t[k] = t[1] /\ t[k + 1] = t[1]
Divides(starts, t, last) ==
  /\ starts \subseteq 2 .. last /\ {2, last} \subseteq starts
  /\ \A k \in starts \ {last} :
       IF Pair(t, k) THEN k + 2 \in starts ELSE t[k] # t[1] /\ k + 1 \in starts
ReadsTo(t, last) ==
  t[1] \in Quotes /\ \E starts \in SUBSET (2 .. last) : Divides(starts, t, last)

(* A comment of the form / * ... * / that is not closed before last.       *)
ClosesAt(t, k) == t[k] = "*" /\ t[k + 1] = "/"
BlockTo(t, last) ==
  /\ Len(t) >= 2 /\ t[1] = "/" /\ t[2] = "*"
  /\ \A k \in 3 .. last - 1 : ~ClosesAt(t, k)
Block(t) == Len(t) >= 4 /\ BlockTo(t, Len(t) - 1) /\ ClosesAt(t, Len(t) - 1)
Executable(t) == t[3] \in {"!", "+"} \/ (t[3] = "M" /\ t[4] = "!")

(* A comment of the form # ... or -- ... that is not ended before last.    *)
LineTo(t, last) ==
  /\ \/ t[1] = "#"
     \/ Len(t) >= 2 /\ t[1] = "-" /\ t[2] = "-" /\ (Len(t) > 2 => t[3] \in Blanks)
  /\ \A k \in 1 .. last - 1 : t[k] # "\n"

Spells(t, kind) ==
  CASE kind = "code" -> Len(t) = 1 /\ t[1] \notin Quotes \cup {";", "#"}
    [] kind = "end" -> t = <<";">>
    [] kind = "quoted" -> Len(t) >= 2 /\ ReadsTo(t, Len(t)) /\ t[Len(t)] = t[1]
    [] kind = "kept" -> Block(t) /\ Executable(t)
    [] kind = "comment" -> Block(t) /\ ~Executable(t)
    [] kind = "line" -> Len(t) >= 2 /\ LineTo(t, Len(t)) /\ t[Len(t)] = "\n"
    [] kind = "last" -> LineTo(t, Len(t) + 1)
    [] kind = "open" -> ReadsTo(t, Len(t) + 1) \/ BlockTo(t, Len(t))

ASSUME LexemeAssumption ==
  /\ MaxLexemes \in Nat
  /\ {" ", "\n", ";"} \subseteq Character /\ "" \notin Character
  /\ \A l \in Lexemes :
       /\ l.kind \in Kinds /\ l.text \in Seq(Character) /\ l.text # <<>>
       /\ Spells(l.text, l.kind)

VARIABLE lexemes   \* the file

(* The text of the first n lexemes.                                        *)
Texts(file) ==
  LET text[n \in 0 .. Len(file)] == IF n = 0 THEN <<>> ELSE text[n - 1] \o file[n].text
  IN  text
Spelled(file) == Texts(file)[Len(file)]

(* Nothing stands behind what runs to the end of the file, and neighbours  *)
(* do not spell the beginning of a comment.                                *)
First(file, k) == IF k =< Len(file) THEN file[k].text[1] ELSE ""
WellFormed(file) ==
  \A k \in 1 .. Len(file) :
    /\ file[k].kind \in {"last", "open"} => k = Len(file)
    /\ file[k].kind = "code" =>
         /\ ~(First(file, k) = "/" /\ First(file, k + 1) = "*")
         /\ ~(/\ First(file, k) = "-" /\ First(file, k + 1) = "-"
              /\ file[k + 1].kind = "code"
              /\ First(file, k + 2) \in Blanks \cup {""})

Files == {file \in UNION {[1 .. n -> Lexemes] : n \in 0 .. MaxLexemes} : WellFormed(file)}

Init ==
  /\ lexemes \in Files
  /\ sql = Spelled(lexemes)
  /\ Begin

ScanFile == Next /\ UNCHANGED lexemes

Spec == Init /\ [][ScanFile]_<<vars, lexemes>>

---------------------------------------------------------------------------
(* A comment leaves blanks, so what it separates stays separate.           *)
Meaning(l) == CASE l.kind = "comment" -> <<" ", " ">>
                [] l.kind = "line" -> <<" ", "\n">>
                [] l.kind = "last" -> <<" ">>
                [] OTHER -> l.text

(* The statements in the first n lexemes, and what has begun behind the    *)
(* last of them.  One without a character but blanks is none.              *)
Nothing == [statements |-> <<>>, begun |-> <<>>]
With(s, end) ==
  IF Trim(s.begun) = <<>> THEN s.statements
  ELSE Append(s.statements, Trim(s.begun) \o end)
Further(s, l) ==
  IF l.kind = "end" THEN [statements |-> With(s, <<";">>), begun |-> <<>>]
  ELSE [statements |-> s.statements, begun |-> s.begun \o Meaning(l)]
Said(file) ==
  LET said[n \in 0 .. Len(file)] == IF n = 0 THEN Nothing ELSE Further(said[n - 1], file[n])
  IN  said

Statements == With(Said(lexemes)[Len(lexemes)], <<>>)

Has(kind) == \E k \in DOMAIN lexemes : lexemes[k].kind = kind
Done == result # "scanning"

(* A DELIMITER directive is a client command and no statement: the word by *)
(* itself, in front of a semicolon or of white space.                      *)
IsCommand(s) == s[1] = "DELIMITER" /\ (Len(s) > 1 => s[2] \in Blanks \cup {";"})
Commands == {n \in DOMAIN Statements : IsCommand(Statements[n])}

(* Of DELIMITER; and DELIMITER ; nothing is left but the word and the      *)
(* semicolon that ends it.                                                 *)
OnlySemicolon == {n \in Commands : Len(Statements[n]) > 1 /\ Statements[n][2] = ";"}

(* The statements sent are those written in the file: nothing inside a     *)
(* string, an identifier or a comment ends one, and comments disappear.    *)
(* A file that ends inside one of them, or has a client command, is        *)
(* rejected as a whole, its complete statements included, and no other     *)
(* one.  The case of a directive with nothing but its semicolon is left    *)
(* open: the header rejects directives, the code sends this one.           *)
SplitAsWritten ==
  Done =>
    \/ /\ result = "accepted" /\ queries = Statements
       /\ ~Has("open") /\ Commands \subseteq OnlySemicolon
    \/ /\ result = "rejected" /\ queries = <<>>
       /\ Has("open") \/ Commands # {}
=============================================================================
