----------------------------- MODULE MCRenderer -----------------------------
(* Model-checking instances of Renderer. *)
EXTENDS Renderer

\* All short articles of runes of several widths, two colours and newlines.
Mixed == {Rune("text"), Rune("amp"), Rune("space"), Rune("newline"), Sequence(<<31>>), Sequence(<<>>)}
ShortArticles == UNION {[1 .. n -> Mixed] : n \in 0 .. 5}

\* Pushes: the tag, the user, a content that may contain and end in spaces,
\* and the time, with and without the colours a push has.
Contents == UNION {[1 .. n -> {Rune("text"), Rune("space")}] : n \in 1 .. 3}
PushArticles ==
  {<<Sequence(<<1, 31>>), Rune("push"), Sequence(<<33>>), Rune("text")>> \o nums
     \o c \o <<Sequence(<<>>), Rune("text"), Rune("newline")>> :
     nums \in {<<Sequence(<<>>), Sequence(<<33>>)>>, <<Sequence(<<22>>)>>, <<Sequence(<<>>)>>},
     c \in Contents}

\* Headers and quotes before, or after, a line of text.
Starts == {<<Rune(c), Rune("wide")>> : c \in {"meta", "quote", "text"}}
HeaderArticles ==
  {a \o <<Rune("newline")>> \o b \o c : a \in Starts, b \in Starts, c \in {<<>>, <<Rune("newline")>>}}

MCArticles == ShortArticles \cup PushArticles \cup HeaderArticles
=============================================================================
