------------------------------ MODULE MCReload ------------------------------
(* Instances of Reload for TLC. *)
EXTENDS Reload

\* Plain and quoted fields, both line ends, NULLs and malformed lines.
Symbols == {"x", "1", ",", "\"", "\n", "\r"}

\* Declared columns; a malformed row before an empty text and a number that
\* is printed otherwise, two rows of which the first holds a quote; and values a CSV file must
\* quote, one it cannot hold as a DOUBLE, one with a zero byte and one longer
\* than the reader's limit.
TextAndDouble == {<<"TEXT", "DOUBLE">>}
Mixed == {<<"1", "\n", "\"", "\"", ",", ".", "1", "0", "\n">>,
          <<"x", "\"", ",", "1", "\n", ",", "\n">>}
Awkward == {<<"\"", "zero">>, <<"\r">>, <<"inf">>, <<"x", "x", "x", "x">>}

\* Two rows whose first column is TEXT by its first row.
Inferred == {<<"inferred", "inferred">>}
TwoRows  == {<<"x", ",", "1", "\n", "x", ",", "1", "\n">>}
Plain    == {<<"x">>, <<"1">>}

\* The same file, its first column declared TEXT or left to be inferred.
TextOrInferred == {<<"TEXT", "INT">>, <<"inferred", "INT">>}
Numbers == {<<"1", ",", "1", "\n">>}
=============================================================================
