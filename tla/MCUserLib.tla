------------------------------ MODULE MCUserLib ------------------------------
(* Instances of UserLib. *)
EXTENDS UserLib

Piece(names, kind, base) == [text |-> [i \in DOMAIN names |-> Char(names[i])], kind |-> kind, base |-> base]

\* Every directive, text, directives that are not known, and one cut short.
MCPieces == {Piece(<<"a">>, "text", 0), Piece(<<"%", "%">>, "percent", 0),
             Piece(<<"%", "d">>, "int", 10), Piece(<<"%", "i">>, "int", 10), Piece(<<"%", "x">>, "int", 16),
             Piece(<<"%", "l", "d">>, "long", 10), Piece(<<"%", "l", "x">>, "long", 16),
             Piece(<<"%", "c">>, "char", 0), Piece(<<"%", "s">>, "string", 0), Piece(<<"%", "s">>, "null", 0),
             Piece(<<"%", "q">>, "text", 0), Piece(<<"%", "l", "q">>, "text", 0),
             Piece(<<"%">>, "open", 0), Piece(<<"%", "l">>, "open", 0)}

\* The limits of int and of long, and numbers around a power of ten or of 16.
MCLongs == {-2048, -1000, -129, -128, -127, -100, -99, -10, -1, 0, 1, 9, 10, 15, 16, 99, 100, 127, 128, 255, 256, 2047}
MCBytes == {0, Char("-"), Char("0"), Char("9"), 200}
MCLengths == -1..7

=============================================================================
