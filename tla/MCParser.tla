----------------------------- MODULE MCParser -----------------------------
(* Instances of Parser for TLC. *)
EXTENDS Parser

\* One character of every class that matters, and one reserved word.
Chars    == {"o", "r", "1", ".", "'", "-", "\n", "=", "<"}
Keywords == {<<"o", "r">>}

NoChars == {}

\* For each statement the words its clauses are made of.
Words == [
  DELETE |-> {"a", "1", "?", "(", ")", "-", "*", "<", "NOT", "AND", "OR"},
  SELECT |-> {"a", "count", ".", ",", "*", "(", ")", "FROM", "INNER", "JOIN", "ON", "WHERE",
              "GROUP", "ORDER", "BY", "DESC", "ASC", "LIMIT", "1", "9"},
  INSERT |-> {"a", "?", ",", "(", ")", "+", "1", "VALUES", "'s'", "'it''s'", ";", "ERROR"},
  UPDATE |-> {"a", "?", "=", ",", "+", "WHERE", ";", "1000000.0"},
  CREATE |-> {"a", "int", ",", "(", ")", "PRIMARY", "KEY", "REFERENCES", "ON", "DELETE",
              "UPDATE", "CASCADE", "SET", "NULL"},
  BEGIN  |-> {"TRANSACTION", ";", "a"},
  COMMIT |-> {";", "a"}]

Lengths == [DELETE |-> 10, SELECT |-> 10, INSERT |-> 11, UPDATE |-> 13, CREATE |-> 19,
            BEGIN |-> 4, COMMIT |-> 3]

Beginnings == {<<"DELETE", "FROM", "t", "WHERE">>, <<"SELECT">>, <<"INSERT", "INTO", "t">>,
               <<"UPDATE", "t", "SET">>, <<"CREATE", "TABLE", "t", "(", "a", "int">>,
               <<"BEGIN">>, <<"COMMIT">>}

\* Short statements, for every amount of memory.
ShortLengths == [DELETE |-> 7, SELECT |-> 6, INSERT |-> 7, UPDATE |-> 6, CREATE |-> 8,
                 BEGIN |-> 2, COMMIT |-> 2]
=============================================================================
