------------------------------ MODULE Renderer ------------------------------
(***************************************************************************)
(* article/render.go: how the runes and escape sequences that the parser   *)
(* (module AnsiParser) takes out of an article become HTML.  A line is     *)
(* collected in segments of one colour each; at its end the links that     *)
(* richcontent.Find has found in its text are cut into the segments, by    *)
(* way of the IndexMapper, which knows where in the segments each byte of  *)
(* the text is.                                                            *)
(*                                                                         *)
(* The article is a sequence of tokens.  A rune is of a class, which says  *)
(* how many bytes it has in the text and how many in HTML; "push", "quote" *)
(* and "meta" stand for what the prefixes of pttbbs/string.go match at the *)
(* beginning of a line.  HTML is a sequence of tags and bytes, a byte      *)
(* being the position of its rune and a number.                            *)
(***************************************************************************)
EXTENDS Terminal, Finders, FiniteSets

CONSTANTS Articles,  \* the articles: sequences of tokens
          MaxFinds   \* bound on the finds in a line

Token(kind, class, nums) == [kind |-> kind, class |-> class, nums |-> nums]
Rune(class) == Token("rune", class, <<>>)
Sequence(nums) == Token("escape", "none", nums)   \* of Mode 'm'

\* Bytes of a rune in the text, in lineBuf, and in HTML, in a Segment: "&" is
\* taken for the ones that fastWriteHtmlEscapedRune escapes.
TextWidth == [text |-> 1, space |-> 1, newline |-> 1, amp |-> 1,
              wide |-> 2, push |-> 2, quote |-> 2, meta |-> 2]
HtmlWidth == [text |-> 1, space |-> 1, newline |-> 1, amp |-> 3,
              wide |-> 2, push |-> 2, quote |-> 2, meta |-> 2]

Tokens ==
  [kind : {"rune"}, class : DOMAIN TextWidth, nums : {<<>>}]
  \cup [kind : {"escape"}, class : {"none"}, nums : Seq(Nat)]

ASSUME RendererAssumption == Articles \subseteq Seq(Tokens) /\ MaxFinds \in Nat

VARIABLES content,        \* the article
          at,             \* how much of it has been read
          headers,        \* ~disableArticleHeader
          lineNo, acceptMetaLines, terminalState,
          lineBuf,        \* the positions in content of the runes of the line
          lineSegs, segClosed,
          mapper,         \* mapper[b]: the segment and offset of byte b
          preview,        \* the lines in previewContent
          buf,            \* the HTML
          hidden          \* positions that HTML leaves out on purpose

lineVars == <<lineBuf, lineSegs, segClosed, mapper>>
articleVars == <<lineNo, acceptMetaLines, preview, buf, hidden>>
rendererVars == <<content, at, headers, terminalState, lineVars, articleVars>>

ExtraFlags == {"PushTag", "PushUserId", "PushContent", "PushIpDateTime"}
Looks == [state : TerminalStates, extra : SUBSET ExtraFlags]
NoLook == [state |-> ResetState, extra |-> {}]

\* A Segment: what was written to its Buffer, its length after TrimRight, and
\* how it looks.
Segment(bytes, state) == [bytes |-> bytes, len |-> Len(bytes), look |-> [state |-> state, extra |-> {}]]

\* A piece of HTML.
Html(tag, where, look) == [tag |-> tag, where |-> where, look |-> look]
Plain(tag) == Html(tag, <<0, 0>>, NoLook)
Byte(pos, k) == Html("byte", <<pos, k>>, NoLook)

\* The HTML of the rune at position p of c.
RuneBytes(c, p) == [k \in 1 .. HtmlWidth[c[p].class] |-> Byte(p, k)]

ClassAt(pos) == content[pos].class
SumWidths(width, ps) == FoldLeft(LAMBDA n, p : n + width[ClassAt(p)], 0, ps)
TextLen(ps) == SumWidths(TextWidth, ps)

RendererInit ==
  /\ content \in Articles
  /\ headers \in BOOLEAN
  /\ at = 0
  /\ lineNo = 1 /\ acceptMetaLines = TRUE /\ terminalState = ResetState
  /\ lineBuf = <<>> /\ lineSegs = <<>> /\ segClosed = TRUE
  /\ mapper = [b \in 0 .. 3 * Len(content) |-> <<0, 0>>]
  /\ preview = <<>> /\ buf = <<>> /\ hidden = {}

-----------------------------------------------------------------------------
(* Segments *)

\* endSegment removes an empty segment.
EndSegment(segs) == IF Last(segs).len = 0 THEN Front(segs) ELSE segs

\* startSegment, with the terminal state as it is now.
StartSegment(state) ==
  Append(IF segClosed THEN lineSegs ELSE EndSegment(lineSegs), Segment(<<>>, state))

\* currSeg
WithCurrSeg == IF lineSegs = <<>> \/ segClosed THEN StartSegment(terminalState) ELSE lineSegs

\* Mutant: a segment begins only when the foreground changes.
ReadEscapeForeground ==
  /\ at < Len(content) /\ content[at + 1].kind = "escape"
  /\ at' = at + 1
  /\ terminalState' = ApplyNums(terminalState, content[at + 1].nums)
  /\ lineSegs' = IF segClosed \/ terminalState'.fg # Last(lineSegs).look.state.fg
                 THEN StartSegment(terminalState') ELSE lineSegs
  /\ segClosed' = FALSE
  /\ UNCHANGED <<content, headers, lineBuf, mapper, articleVars>>

\* escape
ReadEscape ==
  /\ at < Len(content) /\ content[at + 1].kind = "escape"
  /\ at' = at + 1
  /\ terminalState' = ApplyNums(terminalState, content[at + 1].nums)
  /\ lineSegs' = IF segClosed \/ terminalState' # Last(lineSegs).look.state
                 THEN StartSegment(terminalState') ELSE lineSegs
  /\ segClosed' = FALSE
  /\ UNCHANGED <<content, headers, lineBuf, mapper, articleVars>>

\* Mutant: the position is recorded in bytes of the text.
RecordText(segs, b) == [mapper EXCEPT ![b] = <<Len(segs) - 1, b>>]

\* mapper.Record(lineBuf.Len(), len(lineSegs)-1, seg.Len())
Record(segs, b) == [mapper EXCEPT ![b] = <<Len(segs) - 1, Last(segs).len>>]

\* fastWriteHtmlEscapedRune to the last segment.
Written(segs, pos) ==
  LET new == RuneBytes(content, pos)
  IN [segs EXCEPT ![Len(segs)].bytes = @ \o new, ![Len(segs)].len = @ + Len(new)]

-----------------------------------------------------------------------------
(* richcontent.Find *)

\* A find is the first and the last rune of a URL, or an article id, in the
\* line: visible ones.
Visible(pos) == ClassAt(pos) \notin {"space", "newline"}
Ranges(line) ==
  {r \in (DOMAIN line) \X (DOMAIN line) : r[1] <= r[2] /\ Visible(line[r[1]]) /\ Visible(line[r[2]])}
Finds(line) == {Range(finds) : finds \in SeqOf(Ranges(line), MaxFinds)}

-----------------------------------------------------------------------------
(* The output of a line.  w is where it is: at offset off of segment i, the *)
(* first one being 0, whose tag is closed or not, with the HTML so far.     *)

Styled(look) ==
  \/ look.state.fg # DefaultFg \/ look.state.bg # DefaultBg
  \/ HasFlags(look.state, Highlighted) \/ look.extra # {}

Emit(w, html) == [w EXCEPT !.out = Append(@, html)]

\* Go panics at an index or a slice out of range.
Panic(w) == Emit(w, Plain("panic"))
PastEnd(segs, w) == w.i >= Len(segs)

\* maybeOpenCurrentSegment; a segment of the default look has no tag.
MaybeOpen(segs, w) ==
  IF ~w.closed THEN w
  ELSE IF PastEnd(segs, w) THEN Panic(w)
  ELSE LET look == segs[w.i + 1].look
           v == IF Styled(look) THEN Emit(w, Html("span", <<0, 0>>, look)) ELSE w
       IN [v EXCEPT !.closed = FALSE]

MaybeClose(segs, w) ==
  LET v == IF ~w.closed /\ Styled(segs[w.i + 1].look) THEN Emit(w, Plain("/span")) ELSE w
  IN [v EXCEPT !.closed = TRUE]

\* r.buf.Write(s.InnerBytes()[r.segOffset:to]): such a slice may reach beyond
\* the length of the bytes, into what TrimRight cut off, but not end before it
\* begins, nor beyond what was ever written.
WriteUpTo(segs, w, to) ==
  IF PastEnd(segs, w) \/ to < w.off \/ to > Len(segs[w.i + 1].bytes) THEN Panic(w)
  ELSE [w EXCEPT !.out = @ \o SubSeq(segs[w.i + 1].bytes, w.off + 1, to)]

\* The rest of a segment, and on to the next one.
Whole(segs, w) ==
  [MaybeClose(segs, WriteUpTo(segs, MaybeOpen(segs, w), segs[w.i + 1].len)) EXCEPT !.i = @ + 1, !.off = 0]

\* outputToSegment
OutputTo(segs, w, i, off) ==
  LET v == FoldLeft(LAMBDA u, j : Whole(segs, u), w, [j \in 1 .. i - w.i |-> j])
  IN IF off > 0 THEN [WriteUpTo(segs, MaybeOpen(segs, v), off) EXCEPT !.off = off] ELSE v

\* Mutant: a link never wraps around the tags of segments.
LinkEmbedded(segs, line, map, w, r) ==
  LET begin == map[TextLen(SubSeq(line, 1, r[1] - 1))]
      end   == map[TextLen(SubSeq(line, 1, r[2]))]
      v     == MaybeOpen(segs, OutputTo(segs, w, begin[1], begin[2]))
      a     == Html("a", <<line[r[1]], line[r[2]]>>, NoLook)
  IN Emit(OutputTo(segs, Emit(v, a), end[1], end[2]), Plain("/a"))

\* A link inside of a segment is embedded, one that crosses into another
\* segment wraps around whole tags.
Link(segs, line, map, w, r) ==
  LET begin == map[TextLen(SubSeq(line, 1, r[1] - 1))]
      end   == map[TextLen(SubSeq(line, 1, r[2]))]
      v     == OutputTo(segs, w, begin[1], begin[2])
      a     == Html("a", <<line[r[1]], line[r[2]]>>, NoLook)
  IN IF begin[1] = end[1]
     THEN Emit(OutputTo(segs, Emit(MaybeOpen(segs, v), a), end[1], end[2]), Plain("/a"))
     ELSE Emit(MaybeClose(segs, OutputTo(segs, Emit(MaybeClose(segs, v), a), end[1], end[2])), Plain("/a"))

-----------------------------------------------------------------------------
(* endOfLine *)

IsQuote(line) == ClassAt(line[1]) = "quote"
IsBlank(line) == \A k \in DOMAIN line : ~Visible(line[k])
IsMeta(line) == ClassAt(line[1]) = "meta" /\ Len(line) > 2 /\ ClassAt(Last(line)) = "newline"

\* A quoted line, or one of the signature, gets a colour, in its first segment.
Recolored(segs, line) ==
  IF IsQuote(line) THEN [segs EXCEPT ![1].look.state = Color(6, DefaultBg, NoFlags)] ELSE segs

HasColor(seg, fgs, flags) ==
  LET t == seg.look.state IN t.fg \in fgs /\ t.bg = 0 /\ HasFlags(t, flags)

\* matchPushLine
IsPush(segs) ==
  /\ Len(segs) = 4
  /\ segs[1].len = HtmlWidth.push /\ ClassAt(segs[1].bytes[1].where[1]) = "push"
  /\ HasColor(segs[1], {1, 7}, Highlighted)
  /\ HasColor(segs[2], {3}, Highlighted)
  /\ HasColor(segs[3], {3}, NoFlags)
  /\ HasColor(segs[4], {7}, NoFlags)

IsSpaceByte(b) == ClassAt(b.where[1]) = "space"

\* Segment.TrimRight
TrimmedLen(seg) ==
  CHOOSE n \in 0 .. seg.len :
    /\ n = 0 \/ ~IsSpaceByte(seg.bytes[n])
    /\ \A k \in n + 1 .. seg.len : IsSpaceByte(seg.bytes[k])

\* The segments of a push get classes, the content loses its trailing spaces.
PushParts == <<"PushTag", "PushUserId", "PushContent", "PushIpDateTime">>
MarkedAsPush(segs) ==
  [k \in 1 .. 4 |->
     [bytes |-> segs[k].bytes,
      len   |-> IF k = 3 THEN TrimmedLen(segs[3]) ELSE segs[k].len,
      look  |-> [state |-> segs[k].look.state, extra |-> {PushParts[k]}]]]

\* processNormalContentLine, after Find has returned links.
NormalLine(segs, line, map, links) ==
  LET push  == IsPush(segs)
      ready == IF push THEN MarkedAsPush(segs) ELSE segs
      Step(w, r) == Link(ready, line, map, w, r)
      begin == [i |-> 0, off |-> 0, closed |-> TRUE,
                out |-> IF push THEN Append(buf, Plain("div")) ELSE buf]
      html  == OutputTo(ready, FoldLeft(Step, begin, links), Len(ready), 0).out
      cut   == IF push THEN {segs[3].bytes[k].where[1] : k \in ready[3].len + 1 .. segs[3].len} ELSE {}
  IN /\ buf' = html \o (IF push THEN <<Plain("/div")>> ELSE <<>>)
                    \o [k \in DOMAIN links |-> Plain("richcontent")]
     /\ hidden' = hidden \cup cut

\* Of the first lines, as long as all of them were such, the ones that match
\* become headers; the others are shown, with whatever Find finds in them.
EndOfLine(line, segs, map) ==
  LET full   == [map EXCEPT ![TextLen(line)] = <<Len(segs), 0>>]
      header == headers /\ acceptMetaLines /\ lineNo < 5
  IN /\ IF header /\ IsMeta(line)
        THEN /\ buf' = Append(buf, Plain("meta"))
             /\ hidden' = hidden \cup ToSet(line)
             /\ UNCHANGED <<acceptMetaLines, preview>>
        ELSE /\ acceptMetaLines' = (acceptMetaLines /\ ~header)
             /\ preview' = IF /\ ~IsBlank(line) /\ Len(preview) < 5
                              /\ preview # <<>> \/ ~IsQuote(line)
                           THEN Append(preview, lineNo) ELSE preview
             /\ \E finds \in Finds(line) :
                  NormalLine(Recolored(segs, line), line, full, Filtered(finds))
     /\ mapper' = full
     /\ lineBuf' = <<>> /\ lineSegs' = <<>> /\ segClosed' = TRUE
     /\ lineNo' = lineNo + 1

\* oneRune
ReadRune ==
  /\ at < Len(content) /\ content[at + 1].kind = "rune"
  /\ at' = at + 1
  /\ LET line == Append(lineBuf, at + 1)
         segs == Written(WithCurrSeg, at + 1)
         map  == Record(WithCurrSeg, TextLen(lineBuf))
     IN IF content[at + 1].class = "newline"
        THEN EndOfLine(line, segs, map)
        ELSE /\ lineBuf' = line /\ lineSegs' = segs /\ segClosed' = FALSE /\ mapper' = map
             /\ UNCHANGED articleVars
  /\ UNCHANGED <<content, headers, terminalState>>

\* Render, after the parser: the last line may lack its newline.
FinishLine ==
  /\ at = Len(content) /\ lineBuf # <<>>
  /\ EndOfLine(lineBuf, lineSegs, mapper)
  /\ UNCHANGED <<content, at, headers, terminalState>>

RendererNext == ReadEscape \/ ReadRune \/ FinishLine

RendererSpec == RendererInit /\ [][RendererNext]_rendererVars

-----------------------------------------------------------------------------
(* Properties *)

Rendered == at = Len(content) /\ lineBuf = <<>>

\* The types; and every recorded byte of the line is in a segment.
RendererTypeOK ==
  /\ at \in 0 .. Len(content)
  /\ headers \in BOOLEAN /\ acceptMetaLines \in BOOLEAN /\ segClosed \in BOOLEAN
  /\ lineNo \in Nat \ {0} /\ preview \in Seq(Nat) /\ Len(preview) <= 5
  /\ terminalState \in TerminalStates
  /\ lineBuf \in Seq(1 .. at) /\ hidden \subseteq 1 .. at
  /\ \A k \in DOMAIN lineSegs :
       lineSegs[k].look \in Looks /\ lineSegs[k].len = Len(lineSegs[k].bytes)
  /\ \A k \in DOMAIN lineBuf :
       LET m == mapper[TextLen(SubSeq(lineBuf, 1, k - 1))]
       IN m[1] < Len(lineSegs) /\ m[2] < lineSegs[m[1] + 1].len

CloserOf == [span |-> "/span", a |-> "/a", div |-> "/div", bad |-> "none"]

\* The tags that are open after html: "bad" once a tag does not match.
Nest(stack, html) ==
  CASE html.tag \in {"span", "a", "div"} ->
         IF html.tag = "a" /\ Contains(stack, "a") THEN Append(stack, "bad") ELSE Append(stack, html.tag)
    [] html.tag \in {"/span", "/a", "/div"} ->
         IF stack # <<>> /\ html.tag = CloserOf[Last(stack)] THEN Front(stack) ELSE Append(stack, "bad")
    [] html.tag \in {"meta", "richcontent", "panic"} ->
         IF html.tag = "panic" \/ stack # <<>> THEN Append(stack, "bad") ELSE stack
    [] OTHER -> stack

\* What a reader of html knows: the tags that are open, the look and the link
\* of what comes next, the links so far, the text, and how each byte was seen.
Blank ==
  [open |-> <<>>, look |-> NoLook, link |-> <<0, 0>>, links |-> {}, text |-> <<>>, seen |-> {}]
ReadHtml(r, html) ==
  [open  |-> Nest(r.open, html),
   look  |-> CASE html.tag = "span" -> html.look [] html.tag = "/span" -> NoLook [] OTHER -> r.look,
   link  |-> CASE html.tag = "a" -> html.where [] html.tag = "/a" -> <<0, 0>> [] OTHER -> r.link,
   links |-> IF html.tag = "a" THEN r.links \cup {html.where} ELSE r.links,
   text  |-> IF html.tag = "byte" THEN Append(r.text, html) ELSE r.text,
   seen  |-> IF html.tag = "byte"
             THEN r.seen \cup {[where |-> html.where, look |-> r.look, link |-> r.link]} ELSE r.seen]
ReaderOf(html) == FoldLeft(ReadHtml, Blank, html)

\* Wherever colours change and links begin and end, also inside of one
\* another, the HTML of an article is well-formed: tags close in order, no
\* link is inside of a link, and the rich content stands outside of lines.
WellFormed == ReaderOf(buf).open = <<>>

HtmlOf(ps) == FoldLeft(LAMBDA h, p : h \o RuneBytes(content, p), <<>>, ps)
Shown ==
  FoldLeft(LAMBDA ps, p : IF content[p].kind = "rune" /\ p \notin hidden THEN Append(ps, p) ELSE ps,
           <<>>, [p \in 1 .. at |-> p])

\* Nothing of the text is lost, doubled or out of order, and no rune is cut,
\* except the header lines, which are shown in another way, and the padding of
\* a push: what is in the HTML and what waits in the line is what was read.
TextIsKept == ReaderOf(buf).text \o HtmlOf(lineBuf) = HtmlOf(Shown)

\* A link shows exactly the text it was found for: the bytes of these runes are
\* in the link, and no others, however many segments it takes.
LinksAreExact ==
  LET r == ReaderOf(buf)
  IN \A link \in r.links : \A g \in r.seen : g.link = link <=> g.where[1] \in link[1] .. link[2]

\* The terminal state a reader of the text is in at a position.
StateAt(pos) ==
  FoldLeft(LAMBDA t, p : IF content[p].kind = "escape" THEN ApplyNums(t, content[p].nums) ELSE t,
           ResetState, [p \in 1 .. pos |-> p])

InQuote(pos) ==
  \E q \in 1 .. pos :
    /\ content[q].class = "quote"
    /\ \A p \in q .. pos - 1 : content[p].class # "newline"

\* Every character has the colours that were in effect where it stands in the
\* article, also when links have split its segment; quotes have their own.
ColoursAreKept ==
  \A g \in ReaderOf(buf).seen : ~InQuote(g.where[1]) =>
    LET t == g.look.state
        u == StateAt(g.where[1])
    IN t.fg = u.fg /\ t.bg = u.bg /\ (HasFlags(t, Highlighted) <=> HasFlags(u, Highlighted))

=============================================================================
