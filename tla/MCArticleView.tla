--------------------------- MODULE MCArticleView ----------------------------
(* Model-checking instances of ArticleView. *)
EXTENDS ArticleView
=============================================================================
