------------------------------- MODULE Lexer -------------------------------
(***************************************************************************)
(* The SQL lexer (lexer.c): how a text is cut into tokens.  A text is a    *)
(* sequence of characters that grows one character at a time; a character  *)
(* is a string of length one, and a few stand for their class.  Positions  *)
(* start at 1, where the lexer's start at 0.                               *)
(***************************************************************************)
EXTENDS Integers, Sequences, FiniteSetsExt

CONSTANTS
  Char,      \* the characters a text is made of
  Keyword,   \* reserved words, as sequences of letters
  MaxText    \* bound: characters of a text

VARIABLE text

Letter == {"a", "o", "r", "_"}
Digit  == {"0", "1"}
Blanks == {" ", "\n"}
Single == {"*", ",", ".", "?", ";", "(", ")", "=", "+", "-", "/"}

\* '\0' stands for whatever lies behind the end.
peek_at(s, i) == IF i \in 1..Len(s) THEN s[i] ELSE "\\0"

\* The first position from i on that holds none of these characters.
Past(s, i, chars) == Min({j \in i..(Len(s) + 1) : peek_at(s, j) \notin chars})

\* How many lines end between two positions.
Newlines(s, i, j) == Cardinality({k \in i..j : s[k] = "\n"})

\* White space and comments; a comment ends before the newline.
RECURSIVE skip_trivia(_, _)
skip_trivia(s, i) ==
  IF peek_at(s, i) \in Blanks THEN skip_trivia(s, i + 1)
  ELSE IF peek_at(s, i) = "-" /\ peek_at(s, i + 1) = "-"
       THEN skip_trivia(s, Min({j \in i..(Len(s) + 1) : peek_at(s, j) \in {"\n", "\\0"}}))
       ELSE i

\* Where the literal ends whose opening quote lies before i: at the first
\* quote that is not doubled; behind the text when there is none.
RECURSIVE StringEnd(_, _)
StringEnd(s, i) ==
  IF i > Len(s) \/ (s[i] = "'" /\ peek_at(s, i + 1) # "'") THEN i
  ELSE StringEnd(s, IF s[i] = "'" THEN i + 2 ELSE i + 1)

\* The last position of the token at i, and its type.
Word(s, i) ==
  LET e == Past(s, i, Letter \cup Digit) - 1
  IN  [type |-> IF SubSeq(s, i, e) \in Keyword THEN "keyword" ELSE "word", last |-> e]

\* Fault: a dot that no digit follows is taken for the number's.
NumberTakesDot(s, i) ==
  LET e == Past(s, i, Digit)
  IN  IF peek_at(s, e) = "." THEN [type |-> "float", last |-> Past(s, e + 1, Digit) - 1]
                             ELSE [type |-> "int", last |-> e - 1]

Number(s, i) ==
  LET e == Past(s, i, Digit)
  IN  IF peek_at(s, e) = "." /\ peek_at(s, e + 1) \in Digit
      THEN [type |-> "float", last |-> Past(s, e + 1, Digit) - 1]
      ELSE [type |-> "int", last |-> e - 1]

String(s, i) ==
  LET e == StringEnd(s, i + 1)
  IN  IF e > Len(s) THEN [type |-> "error", last |-> Len(s)]
                    ELSE [type |-> "string", last |-> e]

Symbol(s, i) ==
  IF <<s[i], peek_at(s, i + 1)>> \in {<<"!", "=">>, <<"<", "=">>, <<"<", ">">>, <<">", "=">>}
  THEN [type |-> "symbol", last |-> i + 1]
  ELSE [type |-> IF s[i] \in Single \cup {"<", ">"} THEN "symbol" ELSE "error", last |-> i]

\* Fault: newlines within a token are not counted.
LineStays(s, l, i, j) == l

\* The line the lexer is in behind the characters from i to j.
LineAfter(s, l, i, j) == l + Newlines(s, i, j)

\* lx is the lexer: where it stands, and in which line.
lexer_init == [pos |-> 1, line |-> 1]

lexer_next(s, lx) ==
  LET i == skip_trivia(s, lx.pos)
      l == lx.line + Newlines(s, lx.pos, i - 1)
      t == IF s[i] \in Letter THEN Word(s, i)
           ELSE IF s[i] \in Digit THEN Number(s, i)
           ELSE IF s[i] = "'" THEN String(s, i)
           ELSE Symbol(s, i)
  IN  IF i > Len(s)
      THEN [token |-> [type |-> "eof", from |-> i, to |-> i - 1, line |-> l],
            lx    |-> [pos |-> i, line |-> l]]
      ELSE [token |-> [type |-> t.type, from |-> i, to |-> t.last, line |-> l],
            lx    |-> [pos |-> t.last + 1, line |-> LineAfter(s, l, i, t.last)]]

RECURSIVE TokensFrom(_, _)
TokensFrom(s, lx) ==
  LET n == lexer_next(s, lx)
  IN  IF n.token.type = "eof" THEN <<n.token>>
                              ELSE <<n.token>> \o TokensFrom(s, n.lx)

Tokens(s) == TokensFrom(s, lexer_init)

\* Somebody types one more character.
Type(c) == Len(text) < MaxText /\ text' = Append(text, c)

-----------------------------------------------------------------------------
(* What a token is, said without reading from left to right.               *)

AllIn(s, i, j, chars) == \A k \in i..j : s[k] \in chars

\* A run of quotes within a literal has even length.
QuotesPaired(s, i, j) ==
  \A a, b \in i..j :
    (/\ a <= b /\ AllIn(s, a, b, {"'"})
     /\ (a = i \/ s[a - 1] # "'") /\ (b = j \/ s[b + 1] # "'")) => (b - a) % 2 = 1

\* The characters from i to j form one token.
Lexeme(s, i, j) ==
  \/ s[i] \in Letter /\ AllIn(s, i, j, Letter \cup Digit)
  \/ AllIn(s, i, j, Digit)
  \/ \E d \in (i + 1)..(j - 1) : s[d] = "." /\ AllIn(s, i, d - 1, Digit) /\ AllIn(s, d + 1, j, Digit)
  \/ i < j /\ s[i] = "'" /\ s[j] = "'" /\ QuotesPaired(s, i + 1, j - 1)
  \/ i = j /\ s[i] \in Single \cup {"<", ">"}
  \/ j = i + 1 /\ <<s[i], s[j]>> \in {<<"!", "=">>, <<"<", "=">>, <<"<", ">">>, <<">", "=">>}

\* Position k lies in a comment that begins at or after i.
Commented(s, i, k) ==
  \E j \in i..k : peek_at(s, j) = "-" /\ peek_at(s, j + 1) = "-" /\ \A m \in j..k : s[m] # "\n"

-----------------------------------------------------------------------------
(* Properties.                                                             *)

TokensTile ==
  LET ts == Tokens(text)
      from(n) == IF n = 1 THEN 1 ELSE ts[n - 1].to + 1
  IN  \A n \in 1..Len(ts) :
        /\ n < Len(ts) => ts[n].from <= ts[n].to
        /\ from(n) <= ts[n].from
        /\ \A k \in from(n)..(ts[n].from - 1) :
             text[k] \in Blanks \/ Commented(text, from(n), k)
        /\ n < Len(ts) => ~Commented(text, from(n), ts[n].from)
        /\ n = Len(ts) => ts[n].from = Len(text) + 1

LongestMatch ==
  \A n \in 1..Len(Tokens(text)) :
    LET t == Tokens(text)[n]
    IN  /\ t.type \notin {"error", "eof"} =>
             /\ Lexeme(text, t.from, t.to)
             /\ \A j \in (t.to + 1)..Len(text) : ~Lexeme(text, t.from, j)
        /\ t.type = "error" =>
             IF text[t.from] = "'"
             THEN Cardinality({k \in t.from..Len(text) : text[k] = "'"}) % 2 = 1
             ELSE \A j \in t.from..Len(text) : ~Lexeme(text, t.from, j)

LineOfToken ==
  \A n \in 1..Len(Tokens(text)) :
    LET t == Tokens(text)[n] IN t.line = 1 + Newlines(text, 1, t.from - 1)

\* Nothing of a text is lost between two tokens but white space and comments,
\* no token begins inside a comment, and every token takes at least one
\* character, so that reading ends.  A token is the longest there is at its
\* place, and a text is refused only where no token begins or a literal stays
\* open.  The line an error is reported at is the line its token begins in, also
\* behind literals and comments that go over several lines (lexer_next,
\* skip_trivia).
TokensRight == TokensTile /\ LongestMatch /\ LineOfToken
=============================================================================
