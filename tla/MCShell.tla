------------------------------- MODULE MCShell -------------------------------
(***************************************************************************)
(* The lines and words of Shell for TLC: every line of a few symbols with  *)
(* a program's name in it, and the lines with nested parentheses, builtin  *)
(* commands and aliases that a short line has no place for.                *)
(***************************************************************************)
EXTENDS Shell

MCWords == {"ls", "w", "alias", "exit", "cd", "ll", "la", "ll=exit"}
MCLetters == {"w"}
MCDefinitions == {"ll=exit"}
MCAliasOf == [d \in MCDefinitions |-> "ll"]
MCValueOf == [d \in MCDefinitions |-> "exit"]

ShortLines ==
  BoundedSeq({"ls", "w", SPACE, COMMA, LPAREN, RPAREN, PUNCT, UNCLASSED}, 2)
  \cup BoundedSeq({"ls", SPACE, COMMA, LPAREN, RPAREN}, 3)

(* Every way to put a few commands into parentheses.                       *)
Nestings == {l \in BoundedSeq({"ls", "w", COMMA, LPAREN, RPAREN}, 6) : WellFormed(l)}

LongLines ==
  { <<"ls", COMMA, LPAREN, "ls", COMMA, "w", RPAREN>>,
    <<LPAREN, LPAREN, "ls", RPAREN, COMMA, "w", RPAREN, COMMA, "ls">>,
    <<LPAREN, LPAREN, "ls", COMMA, "w", RPAREN, RPAREN, COMMA, "w", COMMA, "ls">>,
    <<LPAREN, "ls", COMMA, "ls", COMMA, "w", COMMA, SPACE, "ls", RPAREN>>,
    <<LPAREN, "w", COMMA, LPAREN, "ls", RPAREN, COMMA, "ls", RPAREN, COMMA, "ls">>,
    <<"ls", COMMA, SPACE, LPAREN, "w", SPACE, PUNCT, "w", RPAREN>>,
    <<LPAREN, "ls", COMMA, "cd", RPAREN, COMMA, "ls">>,
    <<LPAREN, "ls", COMMA, "w", COMMA, "ll", RPAREN, COMMA, "la">>,
    <<"ls", COMMA, "la">>, <<"ll">>, <<"exit">>, <<"cd", SPACE, "w">>,
    <<"alias">>, <<"alias", SPACE, "la">>, <<"alias", SPACE, "ll=exit">> }

MCLines == ShortLines \cup Nestings \cup LongLines
=============================================================================
