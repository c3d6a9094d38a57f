---------------------------- MODULE MCAnsiParser ----------------------------
(* Model-checking instances of AnsiParser. *)
EXTENDS AnsiParser

\* ESC ! 0 1 2 3 4 9 ; A [ m and U+FFFD; with 50 the greatest int, two digits may
\* be a number or none.
MCRunes == {27, 33, 48, 49, 50, 51, 52, 57, 59, 65, 91, 109, 65533}

\* Outside of a control sequence params and esc are dead: StartEscape resets them.
View == <<parserState, IF parserState = "ParsingControl" THEN <<params, esc.trailings>> ELSE <<>>, term, call.to>>
=============================================================================
