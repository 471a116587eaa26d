-------------------------------- MODULE MCSqlInput --------------------------------
EXTENDS SqlInputReference

MCCharacter ==
  Quotes \cup Blanks \cup {";", "#", "-", "/", "*", "\\", "!", "+", "M", "a", "DELIMITER"}

Lexeme(kind, texts) == {[kind |-> kind, text |-> t] : t \in texts}

(* A quote of either sort around a character that means something outside, *)
(* an escape, a doubled quote, or nothing.                                 *)
Quoted ==
  {<<"'">> \o b \o <<"'">> : b \in {<<>>, <<";">>, <<"grave">>, <<"#">>, <<"/", "*">>,
     <<"\\", "'">>, <<"\\", "\\">>, <<"'", "'">>}}
  \cup {<<"grave">> \o b \o <<"grave">> : b \in {<<>>, <<";">>, <<"'">>, <<"\\">>, <<"grave", "grave">>}}
  \cup {<<"\"", ";", "\"">>}

Inside == {<<>>, <<";">>, <<"'">>, <<"*">>, <<"/">>, <<"-", "-", " ">>}

MCLexemes ==
  Lexeme("code", {<<"a">>, <<" ">>, <<"\n">>, <<"-">>, <<"/">>, <<"*">>, <<"!">>, <<"DELIMITER">>})
  \cup Lexeme("end", {<<";">>})
  \cup Lexeme("quoted", Quoted)
  \cup Lexeme("comment", {<<"/", "*">> \o b \o <<"*", "/">> : b \in Inside})
  \cup Lexeme("kept", {<<"/", "*", "!">> \o b \o <<"*", "/">> : b \in Inside}
                      \cup {<<"/", "*", "+", "*", "/">>, <<"/", "*", "M", "!", ";", "*", "/">>})
  \cup Lexeme("line", {<<"#", "\n">>, <<"#", "'", "\n">>, <<"-", "-", "\n">>,
                       <<"-", "-", " ", ";", "\n">>})
  \cup Lexeme("last", {<<"#", ";">>, <<"-", "-">>})
  \cup Lexeme("open", {<<"'", ";">>, <<"'", "\\", "'">>, <<"grave">>, <<"/", "*", "/">>,
                       <<"/", "*", "!", "*">>, <<"'", "\\">>})
=============================================================================
