------------------------------ MODULE MCLinks -------------------------------
(* Model-checking instances of Links. *)
EXTENDS Links

\* Boards: the article's own and another one, one with a dot in its name, whose
\* last part is the name of the former, and one whose name ends every id of eight
\* characters; and Odd, which is no board.
MCBoardNames == {"Own", "Other", "Dot_Own", "Id", "Odd"}

\* The end of a word, of an id (of the board system's name after the "@" of a long
\* one, one character), and of a URL.
MCSuffix(t) ==
  CASE t.is = "word"                            -> IF t.name = "Dot_Own" THEN "Own" ELSE t.name
    [] t.is = "url" /\ t.kind = "other"         -> t.path
    [] t.is = "url" /\ t.kind = "imgur"         -> "Other"
    [] t.is = "id" \/ (t.is = "url" /\ t.kind = "fragment")
         -> IF Len(t.id) = 8 THEN "Id" ELSE IF Last(t.id) = At THEN NoName ELSE "Odd"
    [] OTHER                                    -> NoName

\* The types' and the times' highest bits differ.
File(class, first, last) ==
  [class |-> class, time |-> <<first, 17, 0, 0, 63, 36>>, rand |-> <<0, last>>]
MCFiles == {File("M", 1, 5), File("G", 3, 63)}

\* The first of the window and the last one.
MCHash == [early |-> 0, late |-> 2]

AnId == AidOf(File("M", 1, 5))
AnotherId == Mention(AidOf(File("G", 3, 63)))
AnyId == AnId \o <<At>>
AnOddId == AnId \o <<At, 7>>

Tokens == {Word("Own"), Word("Other"), Word("Dot_Own"), Word("Odd"), Kanban,
           InBrackets("Other"), InBrackets("Dot_Own"), InBrackets("Odd"),
           Mention(AnId), Mention(AnyId), Mention(AnOddId), UrlWithId(AnId),
           OtherUrl("Odd"), OtherUrl("Other")}

\* All short lines, and longer ones of two phrases.
Short == UNION {[1 .. n -> Tokens] : n \in 0 .. 3}
Phrases == {<<Word("Other"), Kanban, AnotherId>>, <<AnotherId, InBrackets("Other")>>, <<AnotherId>>,
            <<Word("Other"), Kanban, AnotherId, InBrackets("Own")>>, <<Imgur("early")>>,
            <<OtherUrl(NoName)>>, <<OtherUrl("Other"), Kanban, AnotherId>>,
            <<UrlWithId(AidOf(File("G", 3, 63))), InBrackets("Other")>>,
            <<Kanban, AnotherId>>, <<Kanban, Mention(AnOddId)>>}
MCLines == Short \cup {<<Imgur("late")>>} \cup {a \o b : a \in Phrases, b \in Phrases}

(***************************************************************************)
(* When the article is complete and has no picture, times are of no         *)
(* consequence: whatever may still be shown can be generated at once.       *)
(***************************************************************************)
NoPictures == \A i \in DOMAIN article : \A j \in DOMAIN article[i] :
                article[i][j].is # "url" \/ article[i][j].kind # "imgur"

View ==
  IF Len(article) = MaxLines /\ NoPictures
  THEN <<article, IF shown = None THEN None ELSE LinesOf(shown.object)>>
  ELSE vars
=============================================================================
