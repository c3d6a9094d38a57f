------------------------------- MODULE Links --------------------------------
(***************************************************************************)
(* The links and pictures in the text of an article: the finders of URLs   *)
(* (richcontent/url_based_finder.go) and of article ids (aid_finder.go),   *)
(* and the links to the cache of external pictures (extcache), which       *)
(* expire, while the pages that show them are themselves cached.           *)
(*                                                                         *)
(* A line is a sequence of tokens, with a space between any two.  Its      *)
(* positions are the halves of tokens: token i is at 2i and 2i+1.  Lines   *)
(* are only added to the article.                                          *)
(***************************************************************************)
EXTENDS Aid, Finders

CONSTANTS Board,           \* the board of the article
          BoardNames,      \* names of boards, and words that the patterns take for one
          Unroutable,      \* the latter: of one character, or with - or _ for the first
          Suffix(_),       \* Suffix(t): the last [0-9A-Za-z\-_]{1,12} of the token t
          NoName,          \* when t ends in another character
          Files,           \* the files of the articles that are mentioned
          Lines,           \* the lines that are written here
          MaxLines,        \* bound on the lines of the article
          Hash,            \* Hash[p]: the last bits of the hash of picture p
          Window,          \* 0xFFFF + 1: the time between two expiries of a picture
          Expires,         \* extcache.Config.Expires
          Timeout,         \* ArticleCacheTimeout
          PartTimeout,     \* and that of generateArticlePart, time.Minute
          MaxStore,        \* bound on the time it takes to store a page
          Horizon,         \* bound on the time
          None             \* no page

Pictures == DOMAIN Hash

VARIABLES clock,
          extCache, \* there is an external cache, and the article takes part in the experiment
          article,  \* the article
          mc,       \* mc[k]: memcached's entry for the page, 0, or the part after k - 1 lines
          made,     \* made[k]: a page that is being stored
          shown     \* the last page that somebody was shown, and when

vars == <<clock, extCache, article, mc, made, shown>>

-----------------------------------------------------------------------------
(* Tokens *)

Word(name) == [is |-> "word", name |-> name]          \* a name, perhaps with dots
Kanban == [is |-> "kanban"]                            \* "看板"
InBrackets(name) == [is |-> "brackets", name |-> name] \* "(name)"
Mention(id) == [is |-> "id", id |-> id]                \* "#" and 8 to 10 characters
Imgur(picture) == [is |-> "url", kind |-> "imgur", picture |-> picture]
UrlWithId(id) == [is |-> "url", kind |-> "fragment", id |-> id]
OtherUrl(path) == [is |-> "url", kind |-> "other", path |-> path]

Ids == {id \in Seq(Digit \cup {At}) : Len(id) \in 8 .. 10}

TextTokens ==
  [is : {"word", "brackets"}, name : BoardNames] \cup [is : {"kanban"}]
  \cup [is : {"id"}, id : Ids] \cup [is : {"url"}, kind : {"fragment"}, id : Ids]
  \cup [is : {"url"}, kind : {"imgur"}, picture : Pictures]
  \cup [is : {"url"}, kind : {"other"}, path : BoardNames \cup {NoName}]

\* External: how the board system writes the id of a file.
AidOf(f) ==
  <<(IF f.class = "M" THEN 0 ELSE 4) + f.time[1], f.time[2], f.time[3], f.time[4],
    f.time[5], f.time[6], f.rand[1], f.rand[2]>>

\* Names of files have a time of 32 bits.
ASSUME LinksAssumption ==
  /\ Board \in BoardNames \ Unroutable /\ NoName \notin BoardNames
  /\ Files \subseteq FileNames /\ \A f \in Files : f.time[1] < 4
  /\ MaxLines \in Nat /\ Horizon \in Nat /\ MaxStore \in Nat
  /\ Window \in Nat \ {0} /\ Hash \in [Pictures -> 0 .. Window - 1]
  /\ Expires \in Nat /\ Timeout \in Nat \ {0} /\ PartTimeout \in Nat \ {0}

\* Ids of eight digits are those of files; what a name may begin in is a word, or
\* the end of an id or of a URL.
ASSUME LinesAssumption ==
  /\ Lines \subseteq Seq(TextTokens)
  /\ \A line \in Lines : \A i \in DOMAIN line :
       /\ line[i].is = "id" /\ Len(line[i].id) = 8 => \E f \in Files : AidOf(f) = line[i].id
       /\ Suffix(line[i]) \in BoardNames \cup {NoName}
       /\ Suffix(line[i]) # NoName => line[i].is \in {"word", "id", "url"}

Is(line, i, what) == i \in DOMAIN line /\ line[i].is = what
Position(i) == <<2 * i, 2 * i + 1>>

\* An id, or a URL that ends in one.
HoldsId(line, i) == Is(line, i, "id") \/ (Is(line, i, "url") /\ line[i].kind = "fragment")

\* Where its "#" is.
IdAt(line, i) == IF Is(line, i, "id") THEN 2 * i ELSE 2 * i + 1

\* The patterns have no dot in a name.
Dotless(name) == Suffix(Word(name)) = name

\* Text, then "看板 #id".
NamesBoard(line, i) == Suffix(line[i]) # NoName /\ Is(line, i + 1, "kanban") /\ Is(line, i + 2, "id")

-----------------------------------------------------------------------------
(* aid_finder.go: the patterns, over the whole line *)

Match(first, last, name, id) == [at |-> <<first, last>>, name |-> name, id |-> id]

\* FindAllSubmatchIndex: what a match ends in does not begin another one; so,
\* of js that are two tokens apart, it takes the first, the third...
Alternate(js) ==
  {j \in js : \E n \in 0 .. j : /\ \A k \in 0 .. 2 * n : j - 2 * k \in js
                                /\ j - 2 * (2 * n + 1) \notin js}

\* "name 看板 #id", of any text the last characters.
BoardAidText(line) ==
  {Match(IF line[i] = Word(Suffix(line[i])) THEN 2 * i ELSE 2 * i + 1, 2 * i + 5,
         Suffix(line[i]), line[i + 2].id) :
     i \in Alternate({j \in DOMAIN line : NamesBoard(line, j)})}

\* "#id (name)".
AidBoardText(line) ==
  {Match(IdAt(line, i), 2 * i + 3, line[i + 1].name, line[i].id) :
     i \in {j \in DOMAIN line : /\ HoldsId(line, j) /\ Is(line, j + 1, "brackets")
                                /\ Dotless(line[j + 1].name)}}

\* "#id", on the board of the article.
AidText(line) ==
  {Match(IdAt(line, i), 2 * i + 1, Board, line[i].id) : i \in {j \in DOMAIN line : HoldsId(line, j)}}

\* Mutant: the board in brackets is not looked for.
MatchesWithoutBrackets(line) == BoardAidText(line) \cup AidText(line)

Matches(line) == BoardAidText(line) \cup AidBoardText(line) \cup AidText(line)

\* findAidText: the links, and whether it fails for a board without a URL.
AidFails(line) == \E m \in Matches(line) : ParseAid(m.id) # NoAid /\ m.name \in Unroutable
AidLinks(line) ==
  {[at |-> m.at, to |-> [board |-> m.name, file |-> Filename(ParseAid(m.id))]] :
     m \in {n \in Matches(line) : ParseAid(n.id) # NoAid}}

-----------------------------------------------------------------------------
(* FindUrl, and Find *)

UrlLinks(line) == {[at |-> Position(i), to |-> line[i]] : i \in {j \in DOMAIN line : Is(line, j, "url")}}

\* Find: an error of one finder takes all links of the line.
Find(line) ==
  IF AidFails(line) THEN {}
  ELSE LET found == UrlLinks(line) \cup AidLinks(line)
       IN {c \in found : c.at \in Range(Filtered({d.at : d \in found}))}

\* The pictures that are shown by way of the external cache: handleImgurSingle,
\* the first pattern that an imgur URL matches.
Embedded(line) ==
  {c.to.picture : c \in {d \in Find(line) : d \in UrlLinks(line) /\ d.to.kind = "imgur"}}

\* Mutant: rounded down.
SnapDown(p, now) == LET least == now + Expires IN least - (least % Window) + Hash[p]

\* snapExpire: what the link made now has for its expiry, e.
SnapExpire(p, now) ==
  LET least == now + Expires + (Window - 1) IN least - (least % Window) + Hash[p]

-----------------------------------------------------------------------------
(* generateArticle and generateArticlePart, cached *)

\* 0, and parts; there are no lines after the last one.
Keys == 0 .. MaxLines

\* What is made of the lines after from, up to to, at a time.
Objects == [key : Keys, from : 0 .. MaxLines, to : 0 .. MaxLines, at : 0 .. Horizon]

From(k) == IF k = 0 THEN 0 ELSE k - 1
TimeoutOf(k) == IF k = 0 THEN Timeout ELSE PartTimeout

LinesOf(o) == {article[i] : i \in o.from + 1 .. o.to}

\* The pictures of the object, by their links.
PicturesOf(o) ==
  IF extCache THEN {[picture |-> p, expire |-> SnapExpire(p, o.at)] :
                      p \in UNION {Embedded(line) : line \in LinesOf(o)}}
  ELSE {}

Init ==
  /\ clock = 0
  /\ extCache \in BOOLEAN
  /\ article = <<>>
  /\ mc = [k \in Keys |-> None] /\ made = [k \in Keys |-> None]
  /\ shown = None

\* The article is written, or pushed to.
Push(line) ==
  /\ Len(article) < MaxLines
  /\ article' = Append(article, line)
  /\ UNCHANGED <<clock, extCache, mc, made, shown>>

\* cacheMgr.Get misses, or memcached does not answer: the object is made, and
\* sent to memcached.  A part begins after lines that were shown.
Generate(k) ==
  /\ From(k) <= Len(article)
  /\ LET o == [key |-> k, from |-> From(k), to |-> Len(article), at |-> clock] IN
     /\ made' = [made EXCEPT ![k] = o]
     /\ shown' = [object |-> o, at |-> clock]
  /\ UNCHANGED <<clock, extCache, article, mc>>

\* memcached has it, MaxStore later at most, or never.
Store(k) ==
  /\ made[k] # None
  /\ mc' \in {mc, [mc EXCEPT ![k] = [object |-> made[k], expire |-> clock + TimeoutOf(k)]]}
  /\ made' = [made EXCEPT ![k] = None]
  /\ UNCHANGED <<clock, extCache, article, shown>>

Hit(k) ==
  /\ mc[k] # None
  /\ shown' = [object |-> mc[k].object, at |-> clock]
  /\ UNCHANGED <<clock, extCache, article, mc, made>>

Tick ==
  /\ clock < Horizon
  /\ \A k \in Keys : made[k] # None => clock < made[k].at + MaxStore
  /\ clock' = clock + 1
  /\ mc' = [k \in Keys |-> IF mc[k] # None /\ mc[k].expire <= clock' THEN None ELSE mc[k]]
  /\ UNCHANGED <<extCache, article, made, shown>>

Next ==
  \/ \E line \in Lines : Push(line)
  \/ \E k \in Keys : Generate(k) \/ Store(k) \/ Hit(k)
  \/ Tick

Spec == Init /\ [][Next]_vars

-----------------------------------------------------------------------------
(* Properties *)

\* The board that is meant by whoever wrote the id at i: the one named before it,
\* or after it, or else that of the article.
MeantBoard(line, i) ==
  IF i > 2 /\ Is(line, i - 2, "word") /\ Is(line, i - 1, "kanban") THEN line[i - 2].name
  ELSE IF Is(line, i + 1, "brackets") THEN line[i + 1].name
  ELSE Board

Covers(c, i) == c.at[1] <= 2 * i + 1 /\ 2 * i <= c.at[2]

\* Names of boards with a dot, which the patterns cannot read, and ids with more
\* than their eight digits.
Legible(line, i) == Dotless(MeantBoard(line, i)) /\ Len(line[i].id) = 8

\* What stands where the name of a board would is none, be it the end of a URL:
\* the links of the whole line are lost.
Misread(line) ==
  \E i \in DOMAIN line :
    \/ Suffix(line[i]) \in Unroutable /\ NamesBoard(line, i)
    \/ HoldsId(line, i) /\ Is(line, i + 1, "brackets") /\ line[i + 1].name \in Unroutable

\* Every link of a page leads where the text says: the id of an article to its
\* file, on the board that is named with it, a URL to itself, whatever the
\* finders report besides; and every id and URL has a link, unless text of the
\* line is taken for the name of a board and is none.
LinksLeadThere ==
  shown # None =>
    \A line \in LinesOf(shown.object) : \A i \in DOMAIN line :
      LET links == {c \in Find(line) : Covers(c, i)} IN
      /\ Is(line, i, "url") => Misread(line) \/ {c.to : c \in links} = {line[i]}
      /\ Is(line, i, "id") /\ Legible(line, i) =>
           \/ Misread(line)
           \/ \E f \in Files :
                /\ AidOf(f) = line[i].id
                /\ {c.to : c \in links} = {[board |-> MeantBoard(line, i), file |-> f]}

\* Whatever page somebody is shown, from memcached or not, its pictures remain
\* available for as long as Expires, less the time the page may have been kept,
\* and no longer than two windows more.
PicturesOutlivePages ==
  shown # None =>
    \A p \in PicturesOf(shown.object) :
      /\ p.expire >= shown.at + Expires - (MaxStore + TimeoutOf(shown.object.key))
      /\ p.expire < shown.at + Expires + 2 * Window

=============================================================================
