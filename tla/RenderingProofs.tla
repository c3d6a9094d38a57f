-------------------------- MODULE RenderingProofs --------------------------
(***************************************************************************)
(* Theorems about what becomes of the text of an article. About Renderer,  *)
(* for any article, and any finds in its lines: the HTML is well-formed,   *)
(* links are exact, colours and text are kept. The argument is one lemma   *)
(* about a line (NormalLineShown) and an invariant for each of the four:   *)
(* Settled, Sorted, Coloured and TextInv. About AnsiParser, for any input: *)
(* an escape sequence leaves the terminal as ECMA-48 says. About Links:    *)
(* how ids of articles are read, that pictures outlive the pages that show *)
(* them, and where links lead.                                             *)
(***************************************************************************)
EXTENDS RenderingLemmas, Links

-----------------------------------------------------------------------------
(* A whole line *)

\* HTML that ends outside of any line, before a line and after it.
Outside(h, base, ls, text, G) ==
  /\ h \in HtmlSeqs
  /\ Rd(h).open = base /\ Rd(h).look = NoLook /\ Rd(h).link = <<0, 0>>
  /\ Rd(h).links = ls /\ Rd(h).text = text /\ Rd(h).seen \subseteq G

\* A walk that begins.
AtStart(h) == [i |-> 0, off |-> 0, closed |-> TRUE, out |-> h]

\* At the begin of the line, it shows what there was before.
LEMMA StartWalked ==
  ASSUME NEW c, NEW line, NEW segs, NEW map, NEW f, NEW ready, NEW links, NEW full,
         LineWith(c, line, segs, map, f, ready, links, full),
         NEW base \in Bases, NEW ls \in SUBSET Pairs, NEW text \in ByteSeqs, NEW G \in SUBSET Glyphs,
         NEW h, Outside(h, base, ls, text, G), NEW begin, begin = AtStart(h)
  PROVE  /\ Walked(ready, begin, Scene(base, ls, text, G))
         /\ SitsAt(c, line, Len(segs), f, EndOf(links, 0), begin.i, begin.off)
<1>1. /\ c \in Seq(Tokens) /\ line \in Seq(RunesOf(c)) /\ segs \in Seq(SegmentSet)
      /\ Divided(c, line, segs, map, f) /\ Len(segs) > 0 /\ f[2] > 1
      /\ Len(line) \in Nat /\ Len(segs) \in Nat /\ ready \in Seq(ReadySegs) /\ Len(ready) = Len(segs)
  BY LineFields
<1>2. begin \in Walks /\ begin.i = 0 /\ begin.off = 0 /\ begin.closed = TRUE /\ begin.out = h
  BY DEF AtStart, Walks, Outside
<1>3. PICK z : z = Scene(base, ls, text, G)
  OBVIOUS
<1>4. z.base = base /\ z.link = <<0, 0>> /\ z.links = ls /\ z.text = text /\ z.right = G
  BY <1>3 DEF Scene
<1>5. text \o TextUpTo(ready, 0, 0) = text
  <2>1. PICK b \in Seq(ByteSet) : b = ready[1].bytes
    <3>1. 1 \in 1 .. Len(ready)
      BY <1>1
    <3> QED BY <1>1, <3>1, SegFields
  <2>2. TextUpTo(ready, 0, 0) = <<>> \o SubSeq(b, 1, 0)
    <3>1. 0 < Len(ready) /\ ready[0 + 1].bytes = b
      BY <1>1, <2>1
    <3>2. Joined(ready, 0) = <<>>
      BY <1>1, JoinedZero
    <3> QED BY <3>1, <3>2 DEF TextUpTo
  <2>3. SubSeq(b, 1, 0) = <<>>
    OBVIOUS
  <2>4. text \in Seq(ByteSet)
    BY DEF ByteSeqs
  <2> QED BY <2>2, <2>3, <2>4
<1>6. ~InSpan(ready, begin)
  BY <1>2 DEF InSpan
<1>7. SeenAs(ready, begin, z)
  BY <1>2, <1>4, <1>5, <1>6 DEF SeenAs, Outside
<1>8. ready[0 + 1].len >= 0
  <2>1. 0 + 1 \in 1 .. Len(ready)
    BY <1>1
  <2>2. ready[0 + 1].len \in Nat
    BY <1>1, <2>1, SegFields
  <2> QED BY <2>2
<1>9. Walked(ready, begin, z)
  BY <1>1, <1>2, <1>7, <1>8 DEF Walked
<1>10. SitsAt(c, line, Len(segs), f, 1, 0, 0)
  <2>1. f[1] = 1
    BY DEF LineWith, Divided
  <2>2. HtmlFrom(c, line, 1, 1) = <<>>
    <3>1. 1 \in 1 .. Len(line) + 1
      BY <1>1
    <3> QED BY <1>1, <3>1, HtmlFromType
  <2>3. 0 = Len(HtmlFrom(c, line, f[0 + 1], 1))
    BY <2>1, <2>2
  <2>4. 0 \in 0 .. Len(segs) /\ f[0 + 1] <= 1 /\ 1 < f[0 + 2]
    BY <1>1, <2>1
  <2> QED BY <2>3, <2>4 DEF SitsAt
<1>11. EndOf(links, 0) = 1
  BY DEF EndOf
<1> QED BY <1>2, <1>3, <1>9, <1>10, <1>11

\* After n links.
After(c, line, segs, f, ready, links, base, ls, text, G, w, n) ==
  /\ Walked(ready, w, Scene(base, ls \cup NewLinks(line, links, n), text, G))
  /\ SitsAt(c, line, Len(segs), f, EndOf(links, n), w.i, w.off)

\* Through all links of a line it shows what it should.
LEMMA LinksWalked ==
  ASSUME NEW c, NEW line, NEW segs, NEW map, NEW f, NEW ready, NEW links, NEW full,
         LineWith(c, line, segs, map, f, ready, links, full),
         NEW base \in Bases, NEW ls \in SUBSET Pairs, NEW text \in ByteSeqs, NEW G \in SUBSET Glyphs,
         AllRight(line, ready, f, links, G),
         NEW h, Outside(h, base, ls, text, G), NEW begin, begin = AtStart(h)
  PROVE  /\ begin \in Walks
         /\ After(c, line, segs, f, ready, links, base, ls, text, G,
                  WalkTo(c, line, ready, full, links, begin, Len(links)), Len(links))
<1> DEFINE W(n) == WalkTo(c, line, ready, full, links, begin, n)
           L == Len(links)
           S == {n \in 0 .. L : After(c, line, segs, f, ready, links, base, ls, text, G, W(n), n)}
<1>1. begin \in Walks
  BY DEF AtStart, Walks, Outside
<1>2. L \in Nat /\ links \in Kept(VisibleRanges(c, line)) /\ c \in Seq(Tokens) /\ line \in Seq(RunesOf(c))
  BY LineFields
<1>3. W(0) = begin /\ \A n \in 1 .. L : W(n) = Linked(c, line, ready, full, W(n - 1), links[n])
  BY <1>1, WalkToStep
<1> HIDE DEF W, L
<1>4. 0 \in S
  <2>1. NewLinks(line, links, 0) = {} /\ ls \cup NewLinks(line, links, 0) = ls
    BY DEF NewLinks
  <2>2. /\ Walked(ready, begin, Scene(base, ls, text, G))
        /\ SitsAt(c, line, Len(segs), f, EndOf(links, 0), begin.i, begin.off)
    BY StartWalked
  <2>3. 0 \in 0 .. L
    BY <1>2
  <2> QED BY <1>3, <2>1, <2>2, <2>3 DEF After
<1>5. ASSUME NEW n \in 1 .. L, n - 1 \in S
      PROVE  n \in S
  <2>1. PICK w : w = W(n - 1)
    OBVIOUS
  <2>2. PICK us : us = ls \cup NewLinks(line, links, n - 1)
    OBVIOUS
  <2>3. Walked(ready, w, Scene(base, us, text, G)) /\ SitsAt(c, line, Len(segs), f, EndOf(links, n - 1), w.i, w.off)
    BY <1>5, <2>1, <2>2 DEF After
  <2>4. us \in SUBSET Pairs
    <3>1. \A m \in 1 .. Len(links) : LinkOf(line, links[m]) \in Pairs
      BY <1>2, LinkOfType
    <3>2. \A m \in 1 .. n - 1 : m \in 1 .. Len(links)
      BY <1>2 DEF L
    <3> QED BY <2>2, <3>1, <3>2 DEF NewLinks
  <2>5. n \in 1 .. Len(links)
    BY DEF L
  <2>6. PICK v : v = Linked(c, line, ready, full, w, links[n])
    OBVIOUS
  <2>7. Reached(c, line, segs, f, ready, Scene(base, us \cup {LinkOf(line, links[n])}, text, G),
                v, EndOf(links, n))
    BY <2>3, <2>4, <2>5, <2>6, NextLink
  <2>9. us \cup {LinkOf(line, links[n])} = ls \cup NewLinks(line, links, n)
    <3>1. \A m : m \in 1 .. n <=> m \in 1 .. n - 1 \/ m = n
      BY <1>2
    <3> QED BY <2>2, <3>1 DEF NewLinks
  <2>10. v = W(n)
    BY <1>3, <2>1, <2>6
  <2>11. n \in 0 .. L
    BY <1>2
  <2> QED BY <2>7, <2>9, <2>10, <2>11 DEF After, Reached
<1>6. L \in S
  <2>1. L \in 0 .. L
    BY <1>2
  <2> HIDE DEF S
  <2>2. 0 .. L \subseteq S
    BY <1>2, <1>4, <1>5, IntervalInduction
  <2> QED BY <2>1, <2>2
<1> QED BY <1>1, <1>6 DEF W, L

\* To the end of the line.
LEMMA LineWalked ==
  ASSUME NEW c, NEW line, NEW segs, NEW map, NEW f, NEW ready, NEW links, NEW full,
         LineWith(c, line, segs, map, f, ready, links, full),
         NEW base \in Bases, NEW ls \in SUBSET Pairs, NEW text \in ByteSeqs, NEW G \in SUBSET Glyphs,
         AllRight(line, ready, f, links, G),
         NEW h, Outside(h, base, ls, text, G), NEW begin, begin = AtStart(h),
         NEW html, html = OutputTo(ready, WalkTo(c, line, ready, full, links, begin, Len(links)), Len(ready), 0).out
  PROVE  Outside(html, base, ls \cup NewLinks(line, links, Len(links)), text \o Joined(ready, Len(ready)), G)
<1>1. /\ c \in Seq(Tokens) /\ line \in Seq(RunesOf(c)) /\ segs \in Seq(SegmentSet)
      /\ Divided(c, line, segs, map, f) /\ Ready(c, segs, ready)
      /\ Len(line) \in Nat /\ Len(segs) \in Nat /\ ready \in Seq(ReadySegs) /\ Len(ready) = Len(segs)
      /\ links \in Kept(VisibleRanges(c, line)) /\ Len(links) \in Nat
  BY LineFields
<1>2. PICK w : w = WalkTo(c, line, ready, full, links, begin, Len(links))
  OBVIOUS
<1>3. PICK us : us = ls \cup NewLinks(line, links, Len(links))
  OBVIOUS
<1>4. PICK z : z = Scene(base, us, text, G)
  OBVIOUS
<1>5. Walked(ready, w, z) /\ SitsAt(c, line, Len(segs), f, EndOf(links, Len(links)), w.i, w.off)
  BY <1>2, <1>3, <1>4, LinksWalked DEF After
<1>6. us \in SUBSET Pairs
  <2>1. \A m \in 1 .. Len(links) : LinkOf(line, links[m]) \in Pairs
    BY <1>1, LinkOfType
  <2> QED BY <1>3, <2>1 DEF NewLinks
<1>7. z \in Scenes
  BY <1>4, <1>6, SceneType
<1>8. w \in Walks /\ w.i \in Nat /\ w.off \in Nat
  BY <1>5, WalkFields DEF Walked
<1>9. PICK s \in 1 .. Len(line) + 1 :
        /\ s = EndOf(links, Len(links))
        /\ \A x \in s .. Len(line) : \A m \in 1 .. Len(links) : links[m][2] < x
  <2>1. CASE Len(links) = 0
    <3>1. EndOf(links, Len(links)) = 1 /\ 1 \in 1 .. Len(line) + 1 /\ \A m \in 1 .. Len(links) : FALSE
      BY <1>1, <2>1 DEF EndOf
    <3> QED BY <3>1
  <2>2. CASE Len(links) # 0
    <3>1. Len(links) \in 1 .. Len(links)
      BY <1>1, <2>2
    <3>2. PICK e \in 1 .. Len(line) : e = links[Len(links)][2]
      BY <1>1, <3>1, RangeFields
    <3>3. EndOf(links, Len(links)) = e + 1 /\ e + 1 \in 1 .. Len(line) + 1
      BY <2>2, <3>2 DEF EndOf
    <3>4. ASSUME NEW x \in e + 1 .. Len(line), NEW m \in 1 .. Len(links)
          PROVE  links[m][2] < x
      <4>1. CASE m = Len(links)
        BY <3>2, <4>1
      <4>2. CASE m # Len(links)
        <5>1. m \in 1 .. Len(links) - 1
          BY <1>1, <4>2
        <5>2. links[m][2] < links[Len(links)][1]
          BY <1>1, <3>1, <5>1 DEF Kept, Apart
        <5>3. links[Len(links)][1] \in Nat /\ links[Len(links)][1] <= e
          BY <1>1, <3>1, <3>2, RangeFields
        <5>4. links[m][2] \in Nat
          BY <1>1, RangeFields
        <5> QED BY <5>2, <5>3, <5>4
      <4> QED BY <4>1, <4>2
    <3> QED BY <3>3, <3>4
  <2> QED BY <2>1, <2>2
<1>10. PICK e \in 1 .. Len(line) + 1 : e = Len(line) + 1
  BY <1>1
<1>11. s \in 1 .. Len(line) + 1 /\ e \in s .. Len(line) + 1
  BY <1>1, <1>10
<1>12. SitsAt(c, line, Len(segs), f, e, Len(segs), 0)
  <2>1. f[Len(segs) + 1] = e
    BY <1>1, <1>10 DEF Divided
  <2>2. HtmlFrom(c, line, e, e) = <<>>
    BY <1>1, HtmlFromType
  <2>3. 0 = Len(HtmlFrom(c, line, f[Len(segs) + 1], e))
    BY <2>1, <2>2
  <2>4. Len(segs) \in 0 .. Len(segs) /\ f[Len(segs) + 1] <= e
    BY <1>1, <2>1
  <2> QED BY <2>3, <2>4 DEF SitsAt
<1>13. SitsAt(c, line, Len(segs), f, s, w.i, w.off)
  BY <1>5, <1>9
<1>14. PICK N \in Nat : N = Len(segs)
  BY <1>1
<1>15. PICK to \in Nat : to = 0
  OBVIOUS
<1>16. SitsAt(c, line, Len(segs), f, e, N, to)
  BY <1>12, <1>14, <1>15
<1>17. w.i <= N /\ (w.i = N => w.off <= to)
  BY <1>1, <1>8, <1>11, <1>13, <1>16, SitsInOrder
<1>18. Place(ready, N, to)
  BY <1>1, <1>14, <1>15 DEF Place
<1>19. RightTo(ready, w.i, w.off, N, to, z)
  <2>1. z.link = <<0, 0>> /\ z.right = G
    BY <1>4 DEF Scene
  <2>2. ASSUME NEW x \in s .. e - 1
        PROVE  RuneRight(line, ready, f, x, z)
    <3>1. x \in 1 .. Len(line) /\ x \in s .. Len(line)
      BY <1>1, <1>10
    <3>2. AsLinked(line, links, x, z.link)
      BY <1>9, <2>1, <3>1 DEF AsLinked
    <3> QED BY <1>7, <2>1, <3>1, <3>2 DEF AllRight
  <2> QED BY <1>1, <1>7, <1>8, <1>11, <1>13, <1>16, <2>2, RegionRight
<1>20. PICK o : o = OutputTo(ready, w, N, to)
  OBVIOUS
<1>21. Walked(ready, o, z) /\ o.i = N /\ o.off = to
  BY <1>1, <1>5, <1>7, <1>17, <1>18, <1>19, <1>20, OutputStep
<1>22. html = o.out
  BY <1>1, <1>2, <1>14, <1>15, <1>20
<1>23. ~InSpan(ready, o) /\ SeenAs(ready, o, z) /\ o \in Walks
  BY <1>1, <1>14, <1>21 DEF Walked, InSpan
<1>24. z.base = base /\ z.link = <<0, 0>> /\ z.links = us /\ z.text = text /\ z.right = G
  BY <1>4 DEF Scene
<1>25. TextUpTo(ready, o.i, o.off) = Joined(ready, Len(ready))
  <2>1. ~(N < Len(ready))
    BY <1>1, <1>14
  <2> QED BY <1>1, <1>14, <1>21, <2>1 DEF TextUpTo
<1>26. o.out \in HtmlSeqs
  BY <1>23, WalkFields
<1> QED BY <1>3, <1>22, <1>23, <1>24, <1>25, <1>26 DEF SeenAs, Outside

-----------------------------------------------------------------------------
(* Lines and what is around them *)

\* A push is in an element of its own,
LEMMA OpenDiv ==
  ASSUME NEW h, NEW ls, NEW text, NEW G, Outside(h, <<>>, ls, text, G)
  PROVE  Outside(Append(h, Plain("div")), <<"div">>, ls, text, G)
<1>1. PICK x \in Htmls : x = Plain("div")
  BY TagType DEF TagNames
<1>2. h \in HtmlSeqs
  BY DEF Outside
<1>3. PICK o \in HtmlSeqs : o = Append(h, x) /\ Rd(o) = ReadHtml(Rd(h), x)
  BY <1>2, RdAppend
<1>4. x.tag = "div"
  BY <1>1 DEF Plain, Html
<1>5. PICK q : q = Rd(h)
  OBVIOUS
<1>6. q.open = <<>> /\ q.look = NoLook /\ q.link = <<0, 0>> /\ q.links = ls /\ q.text = text /\ q.seen \subseteq G
  BY <1>5 DEF Outside
<1>7. PICK r : r = Rd(o)
  OBVIOUS
<1>8. Nest(q.open, x) = <<"div">>
  BY <1>4, <1>6 DEF Nest
<1>9. r = ReadHtml(q, x)
  BY <1>3, <1>5, <1>7
<1>10. /\ r.open = <<"div">> /\ r.look = q.look /\ r.link = q.link
       /\ r.links = q.links /\ r.text = q.text /\ r.seen = q.seen
  BY <1>4, <1>8, <1>9 DEF ReadHtml
<1> QED BY <1>1, <1>3, <1>6, <1>7, <1>10 DEF Outside

\* which is closed.
LEMMA CloseDiv ==
  ASSUME NEW h, NEW ls, NEW text, NEW G, Outside(h, <<"div">>, ls, text, G)
  PROVE  Outside(Append(h, Plain("/div")), <<>>, ls, text, G)
<1>1. PICK x \in Htmls : x = Plain("/div")
  BY TagType DEF TagNames
<1>2. h \in HtmlSeqs
  BY DEF Outside
<1>3. PICK o \in HtmlSeqs : o = Append(h, x) /\ Rd(o) = ReadHtml(Rd(h), x)
  BY <1>2, RdAppend
<1>4. x.tag = "/div"
  BY <1>1 DEF Plain, Html
<1>5. PICK q : q = Rd(h)
  OBVIOUS
<1>6. q.open = <<"div">> /\ q.look = NoLook /\ q.link = <<0, 0>> /\ q.links = ls /\ q.text = text /\ q.seen \subseteq G
  BY <1>5 DEF Outside
<1>7. PICK r : r = Rd(o)
  OBVIOUS
<1>8. Nest(q.open, x) = <<>>
  <2>1. PICK s : s = <<"div">>
    OBVIOUS
  <2>2. s # <<>> /\ Last(s) = "div" /\ Front(s) = <<>>
    BY <2>1 DEF Last, Front
  <2>3. Nest(s, x) = <<>>
    BY <1>4, <2>2 DEF Nest, CloserOf
  <2> QED BY <1>6, <2>1, <2>3
<1>9. r = ReadHtml(q, x)
  BY <1>3, <1>5, <1>7
<1>10. /\ r.open = <<>> /\ r.look = q.look /\ r.link = q.link
       /\ r.links = q.links /\ r.text = q.text /\ r.seen = q.seen
  BY <1>4, <1>8, <1>9 DEF ReadHtml
<1> QED BY <1>1, <1>3, <1>6, <1>7, <1>10 DEF Outside

\* What stands outside of lines.
LEMMA Standalone ==
  ASSUME NEW h, NEW ls, NEW text, NEW G, Outside(h, <<>>, ls, text, G), NEW t \in {"meta", "richcontent"}
  PROVE  Outside(Append(h, Plain(t)), <<>>, ls, text, G)
<1>1. PICK x \in Htmls : x = Plain(t)
  BY TagType DEF TagNames
<1>2. h \in HtmlSeqs
  BY DEF Outside
<1>3. PICK o \in HtmlSeqs : o = Append(h, x) /\ Rd(o) = ReadHtml(Rd(h), x)
  BY <1>2, RdAppend
<1>4. x.tag \in {"meta", "richcontent"}
  BY <1>1 DEF Plain, Html
<1>5. PICK q : q = Rd(h)
  OBVIOUS
<1>6. q.open = <<>> /\ q.look = NoLook /\ q.link = <<0, 0>> /\ q.links = ls /\ q.text = text /\ q.seen \subseteq G
  BY <1>5 DEF Outside
<1>7. PICK r : r = Rd(o)
  OBVIOUS
<1>8. Nest(q.open, x) = <<>>
  BY <1>4, <1>6 DEF Nest
<1>9. r = ReadHtml(q, x)
  BY <1>3, <1>5, <1>7
<1>10. /\ r.open = <<>> /\ r.look = q.look /\ r.link = q.link
       /\ r.links = q.links /\ r.text = q.text /\ r.seen = q.seen
  BY <1>4, <1>8, <1>9 DEF ReadHtml
<1> QED BY <1>1, <1>3, <1>6, <1>7, <1>10 DEF Outside

\* The rich content below a line.
Contents(n) == [k \in 1 .. n |-> Plain("richcontent")]

\* It nests in nothing.
LEMMA RichContents ==
  ASSUME NEW h, NEW ls, NEW text, NEW G, Outside(h, <<>>, ls, text, G), NEW n \in Nat
  PROVE  Outside(h \o Contents(n), <<>>, ls, text, G)
<1> DEFINE S == {m \in 0 .. n : Outside(h \o Contents(m), <<>>, ls, text, G)}
<1>1. h \in Seq(Htmls)
  BY DEF Outside, HtmlSeqs
<1>2. PICK x \in Htmls : x = Plain("richcontent")
  BY TagType DEF TagNames
<1>3. \A m \in Nat : Contents(m) = [k \in 1 .. m |-> x]
  BY <1>2 DEF Contents
<1>4. 0 \in S
  <2>1. Contents(0) = <<>>
    BY <1>3
  <2>2. h \o Contents(0) = h
    BY <1>1, <2>1
  <2>3. 0 \in 0 .. n
    OBVIOUS
  <2> QED BY <2>2, <2>3
<1>5. ASSUME NEW m \in 1 .. n, m - 1 \in S
      PROVE  m \in S
  <2>1. PICK q \in Seq(Htmls) : q = Contents(m - 1)
    <3>1. m - 1 \in Nat
      OBVIOUS
    <3>2. [k \in 1 .. m - 1 |-> x] \in Seq(Htmls)
      BY <3>1
    <3> QED BY <1>3, <3>1, <3>2, Zenon
  <2>2. Contents(m) = Append(q, x)
    <3>1. m - 1 \in Nat /\ m \in Nat
      OBVIOUS
    <3>2. q = [k \in 1 .. m - 1 |-> x] /\ Contents(m) = [k \in 1 .. m |-> x]
      BY <1>3, <2>1, <3>1
    <3> QED BY <3>1, <3>2
  <2>3. h \o Append(q, x) = Append(h \o q, x)
    BY <1>1, ConcatAppend
  <2>4. PICK g : g = h \o q
    OBVIOUS
  <2>5. Outside(g, <<>>, ls, text, G)
    BY <1>5, <2>1, <2>4
  <2>6. Outside(Append(g, Plain("richcontent")), <<>>, ls, text, G)
    BY <2>5, Standalone
  <2>7. h \o Contents(m) = Append(g, Plain("richcontent"))
    BY <1>2, <2>2, <2>3, <2>4
  <2>8. Outside(h \o Contents(m), <<>>, ls, text, G)
    BY <2>6, <2>7, Zenon
  <2>9. m \in 0 .. n
    OBVIOUS
  <2> QED BY <2>8, <2>9
<1>6. n \in S
  <2> HIDE DEF S
  <2>1. 0 .. n \subseteq S
    BY <1>4, <1>5, IntervalInduction
  <2> QED BY <2>1
<1> QED BY <1>6

-----------------------------------------------------------------------------
(* The segments that are put out *)

\* The look of quotes.
QuoteState == Color(6, DefaultBg, NoFlags)
\* The segments that are put out.
ReadyOf(segs, line) ==
  IF IsPush(Recolored(segs, line)) THEN MarkedAsPush(Recolored(segs, line)) ELSE Recolored(segs, line)

\* Recolored changes the look of the first segment of a quote.
LEMMA RecoloredOK ==
  ASSUME NEW segs \in Seq(SegmentSet), Len(segs) > 0, NEW line, NEW r, r = Recolored(segs, line)
  PROVE  /\ r \in Seq(SegmentSet) /\ Len(r) = Len(segs)
         /\ \A i \in 1 .. Len(segs) :
              /\ r[i].bytes = segs[i].bytes /\ r[i].len = segs[i].len
              /\ r[i].look.extra = segs[i].look.extra
              /\ r[i].look.state = IF IsQuote(line) /\ i = 1 THEN QuoteState ELSE segs[i].look.state
<1>1. CASE ~IsQuote(line)
  BY <1>1 DEF Recolored
<1>2. CASE IsQuote(line)
  <2>1. \A i \in 1 .. Len(segs) : segs[i] \in SegmentSet
    OBVIOUS
  <2>2. PICK look : look = [state |-> QuoteState, extra |-> segs[1].look.extra]
    OBVIOUS
  <2>3. PICK s : s = [bytes |-> segs[1].bytes, len |-> segs[1].len, look |-> look]
    OBVIOUS
  <2>4. 1 \in 1 .. Len(segs) /\ segs[1] \in SegmentSet
    BY <2>1
  <2>5. look \in Looks
    <3>1. QuoteState \in TerminalStates
      BY DEF QuoteState, TerminalStates, Color, NoFlags, DefaultBg, Highlighted
    <3>2. segs[1].look \in Looks
      BY <2>4 DEF SegmentSet
    <3> QED BY <2>2, <3>1, <3>2 DEF Looks
  <2>6. s \in SegmentSet
    BY <2>3, <2>4, <2>5 DEF SegmentSet
  <2>7. r = [segs EXCEPT ![1] = s]
    <3>1. r = [segs EXCEPT ![1].look.state = QuoteState]
      BY <1>2 DEF Recolored, QuoteState
    <3>2. PICK q : q = segs[1]
      OBVIOUS
    <3>3. q \in SegmentSet
      BY <2>4, <3>2
    <3>4. PICK l : l = q.look
      OBVIOUS
    <3>5. l \in Looks
      BY <3>3, <3>4 DEF SegmentSet
    <3>6. [l EXCEPT !.state = QuoteState] = look
      BY <2>2, <3>2, <3>4, <3>5 DEF Looks
    <3>7. [q EXCEPT !.look = look] = s
      BY <2>3, <3>2, <3>3 DEF SegmentSet
    <3>8. r = [segs EXCEPT ![1] = [q EXCEPT !.look = [l EXCEPT !.state = QuoteState]]]
      BY <3>1, <3>2, <3>4
    <3> QED BY <3>6, <3>7, <3>8
  <2>8. r \in Seq(SegmentSet) /\ Len(r) = Len(segs) /\ r[1] = s /\ \A i \in 1 .. Len(segs) : i # 1 => r[i] = segs[i]
    BY <2>4, <2>6, <2>7
  <2>9. ASSUME NEW i \in 1 .. Len(segs)
        PROVE  /\ r[i].bytes = segs[i].bytes /\ r[i].len = segs[i].len
               /\ r[i].look.extra = segs[i].look.extra
               /\ r[i].look.state = IF IsQuote(line) /\ i = 1 THEN QuoteState ELSE segs[i].look.state
    <3>1. CASE i = 1
      BY <1>2, <2>2, <2>3, <2>8, <3>1
    <3>2. CASE i # 1
      BY <2>8, <3>2
    <3> QED BY <3>1, <3>2
  <2> QED BY <2>8, <2>9
<1> QED BY <1>1, <1>2

\* MarkedAsPush marks the segments, and trims the third one.
LEMMA MarkedOK ==
  ASSUME NEW segs \in Seq(SegmentSet), Len(segs) = 4, NEW m, m = MarkedAsPush(segs)
  PROVE  /\ m \in Seq(SegmentSet) /\ Len(m) = 4
         /\ \A i \in 1 .. 4 :
              /\ m[i].bytes = segs[i].bytes /\ m[i].look.state = segs[i].look.state
              /\ m[i].len = IF i = 3 THEN TrimmedLen(segs[3]) ELSE segs[i].len
              /\ m[i].look.extra = {PushParts[i]}
<1>1. /\ m = [k \in 1 .. 4 |->
              [bytes |-> segs[k].bytes,
               len   |-> IF k = 3 THEN TrimmedLen(segs[3]) ELSE segs[k].len,
               look  |-> [state |-> segs[k].look.state, extra |-> {PushParts[k]}]]]
  BY DEF MarkedAsPush
<1>2. \A k \in 1 .. 4 : segs[k] \in SegmentSet
  OBVIOUS
<1>3. \A k \in 1 .. 4 : /\ segs[k].bytes \in Seq(ByteSet) /\ segs[k].len \in Nat
                        /\ segs[k].look.state \in TerminalStates
  BY <1>2 DEF SegmentSet, Looks
<1>4. TrimmedLen(segs[3]) \in Nat
  <2>1. segs[3].len \in Nat
    BY <1>3
  <2>2. TrimmedLen(segs[3]) \in 0 .. segs[3].len
    BY <2>1, TrimmedType
  <2> QED BY <2>1, <2>2
<1>5. \A k \in 1 .. 4 : PushParts[k] \in ExtraFlags
  <2> SUFFICES ASSUME NEW k \in 1 .. 4 PROVE PushParts[k] \in ExtraFlags
    OBVIOUS
  <2>1. k = 1 \/ k = 2 \/ k = 3 \/ k = 4
    OBVIOUS
  <2> QED BY <2>1 DEF PushParts, ExtraFlags
<1>6. \A k \in 1 .. 4 : m[k] \in SegmentSet
  <2> SUFFICES ASSUME NEW k \in 1 .. 4 PROVE m[k] \in SegmentSet
    OBVIOUS
  <2>1. PICK look \in Looks : look = [state |-> segs[k].look.state, extra |-> {PushParts[k]}]
    BY <1>3, <1>5 DEF Looks
  <2>2. PICK n \in Nat : n = IF k = 3 THEN TrimmedLen(segs[3]) ELSE segs[k].len
    BY <1>3, <1>4
  <2>3. m[k] = [bytes |-> segs[k].bytes, len |-> n, look |-> look]
    BY <1>1, <2>1, <2>2
  <2> QED BY <1>3, <2>3 DEF SegmentSet
<1>7. m \in Seq(SegmentSet) /\ Len(m) = 4
  BY <1>1, <1>6
<1> QED BY <1>1, <1>7

\* So nothing but spaces is cut, and colours but in quotes are kept.
LEMMA ReadyKept ==
  ASSUME NEW segs \in Seq(SegmentSet), Len(segs) > 0,
         \A i \in 1 .. Len(segs) : segs[i].len = Len(segs[i].bytes),
         NEW line, NEW ready, ready = ReadyOf(segs, line)
  PROVE  /\ Ready(content, segs, ready)
         /\ \A i \in 1 .. Len(segs) :
              ready[i].look.state = IF IsQuote(line) /\ i = 1 THEN QuoteState ELSE segs[i].look.state
<1>1. PICK N \in Nat : N = Len(segs) /\ N > 0
  OBVIOUS
<1>2. PICK r : r = Recolored(segs, line)
  OBVIOUS
<1>3. /\ r \in Seq(SegmentSet) /\ Len(r) = N
      /\ \A i \in 1 .. N :
           /\ r[i].bytes = segs[i].bytes /\ r[i].len = segs[i].len
           /\ r[i].look.extra = segs[i].look.extra
           /\ r[i].look.state = IF IsQuote(line) /\ i = 1 THEN QuoteState ELSE segs[i].look.state
  BY <1>1, <1>2, RecoloredOK
<1>4. \A i \in 1 .. N : r[i] \in SegmentSet /\ r[i].len = Len(r[i].bytes) /\ r[i].len \in Nat
  <2>1. \A i \in 1 .. N : r[i] \in SegmentSet
    BY <1>3
  <2> QED BY <1>1, <1>3, <2>1 DEF SegmentSet
<1>5. CASE ~IsPush(r)
  <2>1. ready = r
    BY <1>2, <1>5 DEF ReadyOf
  <2>2. \A i \in 1 .. N : r[i] \in ReadySegs
    BY <1>4 DEF ReadySegs
  <2>3. r \in Seq(ReadySegs)
    BY <1>3, <2>2, SeqOfNarrow
  <2>4. \A i \in 1 .. N : \A n \in 1 .. Len(segs[i].bytes) : n <= ready[i].len
    BY <1>1, <1>3, <2>1, SMTT(40)
  <2> QED BY <1>1, <1>3, <2>1, <2>3, <2>4 DEF Ready
<1>6. CASE IsPush(r)
  <2>1. ready = MarkedAsPush(r)
    BY <1>2, <1>6 DEF ReadyOf
  <2>2. N = 4
    BY <1>3, <1>6 DEF IsPush
  <2>3. /\ ready \in Seq(SegmentSet) /\ Len(ready) = 4
        /\ \A i \in 1 .. 4 :
             /\ ready[i].bytes = r[i].bytes /\ ready[i].look.state = r[i].look.state
             /\ ready[i].len = IF i = 3 THEN TrimmedLen(r[3]) ELSE r[i].len
    BY <1>3, <2>1, <2>2, MarkedOK
  <2>4. 3 \in 1 .. N /\ r[3].len \in Nat
    BY <1>4, <2>2
  <2>5. /\ TrimmedLen(r[3]) \in 0 .. r[3].len
        /\ \A k \in 1 .. r[3].len : ~IsSpaceByte(r[3].bytes[k]) => k <= TrimmedLen(r[3])
    BY <2>4, TrimmedType
  <2>6. \A i \in 1 .. 4 : ready[i].len <= Len(ready[i].bytes)
    <3> SUFFICES ASSUME NEW i \in 1 .. 4 PROVE ready[i].len <= Len(ready[i].bytes)
      OBVIOUS
    <3>1. r[i].len = Len(ready[i].bytes) /\ r[i].len \in Nat
      BY <1>4, <2>2, <2>3
    <3>2. CASE i = 3
      BY <2>3, <2>5, <3>1, <3>2
    <3>3. CASE i # 3
      BY <2>3, <3>1, <3>3
    <3> QED BY <3>2, <3>3
  <2>7. \A i \in 1 .. 4 : ready[i] \in ReadySegs
    <3>0. ready \in Seq(SegmentSet) /\ Len(ready) = 4
      BY <2>3
    <3>a. PICK m \in Seq(SegmentSet) : m = ready /\ Len(m) = 4
      BY <3>0, Zenon
    <3>b. \A i \in 1 .. Len(m) : m[i] \in SegmentSet
      OBVIOUS
    <3>1. \A i \in 1 .. 4 : ready[i] \in SegmentSet
      BY <3>a, <3>b
    <3> QED BY <2>6, <3>1 DEF ReadySegs
  <2>8. ready \in Seq(ReadySegs)
    BY <2>3, <2>7, SeqOfNarrow
  <2>9. ASSUME NEW i \in 1 .. N, NEW n \in 1 .. Len(segs[i].bytes),
               content[segs[i].bytes[n].where[1]].class # "space"
        PROVE  n <= ready[i].len
    <3>1. i \in 1 .. 4 /\ segs[i].bytes = r[i].bytes /\ n \in 1 .. r[i].len
      BY <1>3, <1>4, <2>2
    <3>2. CASE i # 3
      <4>1. ready[i].len = r[i].len
        BY <2>3, <3>1, <3>2
      <4> QED BY <3>1, <4>1
    <3>3. CASE i = 3
      <4>1. ready[3].len = TrimmedLen(r[3])
        BY <2>3
      <4>2. n \in 1 .. r[3].len /\ ~IsSpaceByte(r[3].bytes[n])
        BY <2>9, <3>1, <3>3 DEF IsSpaceByte, ClassAt
      <4> QED BY <2>5, <3>3, <4>1, <4>2
    <3> QED BY <3>2, <3>3
  <2>10. \A i \in 1 .. N : ready[i].bytes = segs[i].bytes
    BY <1>3, <2>2, <2>3
  <2>11. \A i \in 1 .. N :
              ready[i].look.state = IF IsQuote(line) /\ i = 1 THEN QuoteState ELSE segs[i].look.state
    BY <1>3, <2>2, <2>3
  <2> QED BY <1>1, <2>2, <2>3, <2>8, <2>9, <2>10, <2>11, ZenonT(60) DEF Ready
<1> QED BY <1>5, <1>6

\* A line that has runes has a first segment that is not empty.
LEMMA FirstSegment ==
  ASSUME NEW c \in Seq(Tokens), NEW a, NEW line, NEW segs, NEW closed, NEW map, NEW t,
         LineOK(c, a, line, segs, closed, map, t), Len(line) > 0, NEW f, Divided(c, line, segs, map, f)
  PROVE  Len(segs) > 0 /\ f[2] > 1
<1>1. /\ line \in Seq(RunesOf(c)) /\ segs \in Seq(SegmentSet)
      /\ \A i \in 1 .. Len(segs) : segs[i].len = Len(segs[i].bytes)
      /\ \A i \in 1 .. Len(segs) - 1 : segs[i].len > 0
  BY DEF LineOK
<1>2. PICK N \in Nat : N = Len(segs)
  BY <1>1
<1>3. PICK L \in Nat : L = Len(line) /\ L > 0
  BY <1>1
<1>4. f[1] = 1 /\ f[N + 1] = L + 1
  BY <1>2, <1>3 DEF Divided
<1>5. N > 0
  BY <1>2, <1>3, <1>4
<1>6. CASE N = 1
  BY <1>2, <1>3, <1>4, <1>5, <1>6
<1>7. CASE N # 1
  <2>1. 1 \in 1 .. Len(segs) /\ 1 \in 1 .. Len(segs) - 1 /\ 2 \in 1 .. Len(segs) + 1
    BY <1>2, <1>5, <1>7
  <2>2. segs[1].bytes = HtmlFrom(c, line, f[1], f[2]) /\ f[1] <= f[2]
    <3>1. 1 + 1 = 2
      OBVIOUS
    <3> QED BY <2>1, <3>1 DEF Divided
  <2>3. Len(segs) \in Nat /\ Len(line) \in Nat
    BY <1>2, <1>3
  <2>4. PICK g \in 1 .. Len(line) + 1 : g = f[2]
    BY <2>1, <2>3, DivisionType
  <2>5. CASE g <= 1
    <3>1. 1 \in 1 .. Len(line) + 1
      BY <2>3
    <3>2. HtmlFrom(c, line, 1, g) = <<>>
      BY <1>1, <2>5, <3>1, HtmlFromType
    <3>3. Len(segs[1].bytes) = 0
      BY <1>4, <2>2, <2>4, <3>2
    <3>4. segs[1].len > 0 /\ segs[1].len = Len(segs[1].bytes)
      BY <1>1, <2>1
    <3> QED BY <3>3, <3>4
  <2> QED BY <1>2, <1>5, <2>4, <2>5
<1> QED BY <1>2, <1>5, <1>6, <1>7

\* Kept of fewer is kept of more.
LEMMA KeptMore ==
  ASSUME NEW R, NEW T, R \subseteq T, NEW s \in Kept(R)
  PROVE  s \in Kept(T)
<1>1. s \in Seq(R) /\ Apart(s)
  BY DEF Kept
<1>2. s \in Seq(T)
  BY <1>1, SeqOfNarrow
<1> QED BY <1>1, <1>2 DEF Kept

\* What Find keeps begins and ends with visible runes.
LEMMA FindsAreRanges ==
  ASSUME content \in Seq(Tokens), NEW line \in Seq(RunesOf(content)), NEW finds \in Finds(line)
  PROVE  Filtered(finds) \in Kept(VisibleRanges(content, line))
<1>1. Len(line) \in Nat /\ DOMAIN line = 1 .. Len(line)
  OBVIOUS
<1>2. \A r \in Ranges(line) : r \in VisibleRanges(content, line)
  <2> SUFFICES ASSUME NEW r \in Ranges(line) PROVE r \in VisibleRanges(content, line)
    OBVIOUS
  <2>1. r \in (1 .. Len(line)) \X (1 .. Len(line)) /\ r[1] <= r[2] /\ Visible(line[r[1]]) /\ Visible(line[r[2]])
    BY <1>1 DEF Ranges
  <2>2. r \in Nat \X Nat /\ 1 <= r[1] /\ r[2] <= Len(line)
    BY <1>1, <2>1
  <2>3. content[line[r[1]]].class # "space" /\ content[line[r[2]]].class # "space"
    BY <2>1 DEF Visible, ClassAt
  <2> QED BY <2>1, <2>2, <2>3 DEF VisibleRanges, RangesIn
<1>3. \A r \in VisibleRanges(content, line) : r \in RangesIn(Len(line))
  BY DEF VisibleRanges
<1>4. finds \subseteq Ranges(line)
  <2>1. PICK q \in SeqOf(Ranges(line), MaxFinds) : finds = Range(q)
    BY DEF Finds
  <2>2. PICK m \in 0 .. MaxFinds : q \in [1 .. m -> Ranges(line)]
    BY <2>1 DEF SeqOf
  <2> QED BY <2>1, <2>2 DEF Range
<1>5. PICK R : R = RangesIn(Len(line))
  OBVIOUS
<1>6. finds \subseteq VisibleRanges(content, line) /\ finds \subseteq R
  BY <1>2, <1>3, <1>4, <1>5
<1>8. Filtered(finds) \in Kept(finds)
  BY <1>1, <1>5, <1>6, FilteredIs
<1> QED BY <1>6, <1>8, KeptMore

\* The line that ends is one that the walks can be taken on.
LEMMA LineIsReady ==
  ASSUME content \in Seq(Tokens), NEW a, NEW line, NEW segs, NEW closed, NEW map, NEW t,
         LineOK(content, a, line, segs, closed, map, t), Len(line) > 0,
         NEW f, Divided(content, line, segs, map, f),
         NEW links \in Kept(VisibleRanges(content, line)),
         NEW ready, ready = ReadyOf(segs, line),
         NEW full, full = [map EXCEPT ![TextLen(line)] = <<Len(segs), 0>>]
  PROVE  LineWith(content, line, segs, map, f, ready, links, full)
<1>1. /\ line \in Seq(RunesOf(content)) /\ segs \in Seq(SegmentSet)
      /\ \A i \in 1 .. Len(segs) : segs[i].len = Len(segs[i].bytes)
      /\ map \in [0 .. 3 * Len(content) -> Nat \X Nat]
      /\ Len(line) <= a /\ a \in 0 .. Len(content)
  BY DEF LineOK
<1>2. Len(segs) > 0 /\ f[2] > 1
  BY FirstSegment
<1>3. Ready(content, segs, ready)
  BY <1>1, <1>2, ReadyKept
<1>4. TextLen(line) = TLen(content, line)
  BY <1>1, TextLenIs
<1>5. TLen(content, line) \in 0 .. 3 * Len(content)
  <2>1. Len(line) \in 0 .. Len(line) /\ Len(line) \in Nat
    BY <1>1
  <2>2. TLen(content, SubSeq(line, 1, Len(line))) \in 0 .. 2 * Len(line)
    BY <1>1, <2>1, TLenMonotone
  <2>3. SubSeq(line, 1, Len(line)) = line
    BY <1>1
  <2>4. TLen(content, line) \in 0 .. 2 * Len(line)
    BY <2>2, <2>3
  <2>5. Len(content) \in Nat
    OBVIOUS
  <2> QED BY <1>1, <2>1, <2>4, <2>5
<1>6. DOMAIN map = 0 .. 3 * Len(content)
  BY <1>1
<1> QED BY <1>1, <1>2, <1>3, <1>4, <1>5, <1>6 DEF LineWith

\* Link is what was shown of LinkTo.
LEMMA LinkIsLinked ==
  ASSUME content \in Seq(Tokens), NEW line \in Seq(RunesOf(content)), NEW ready, NEW full, NEW w,
         NEW r \in VisibleRanges(content, line)
  PROVE  Link(ready, line, full, w, r) = Linked(content, line, ready, full, w, r)
<1>1. PICK x \in Nat, y \in Nat : x = r[1] /\ y = r[2] /\ 1 <= x /\ x <= y /\ y <= Len(line)
  BY DEF VisibleRanges, RangesIn
<1>2. Len(line) \in Nat
  OBVIOUS
<1>3. TextLen(SubSeq(line, 1, x - 1)) = TextOf(content, line, x)
  <2>1. x - 1 \in 0 .. Len(line)
    BY <1>1, <1>2
  <2>2. SubSeq(line, 1, x - 1) \in Seq(RunesOf(content))
    BY <2>1, PrefixOf
  <2>3. PICK q \in Seq(RunesOf(content)) : q = SubSeq(line, 1, x - 1)
    BY <2>2, Zenon
  <2>4. TextLen(q) = TLen(content, q)
    BY TextLenIs
  <2> QED BY <2>3, <2>4 DEF TextOf
<1>4. TextLen(SubSeq(line, 1, y)) = TextOf(content, line, y + 1)
  <2>1. y \in 0 .. Len(line) /\ (y + 1) - 1 = y
    BY <1>1, <1>2
  <2>2. SubSeq(line, 1, y) \in Seq(RunesOf(content))
    BY <2>1, PrefixOf
  <2>3. PICK q \in Seq(RunesOf(content)) : q = SubSeq(line, 1, y)
    BY <2>2, Zenon
  <2>4. TextLen(q) = TLen(content, q)
    BY TextLenIs
  <2> QED BY <2>1, <2>3, <2>4 DEF TextOf
<1>5. PICK begin : begin = full[TextOf(content, line, x)]
  OBVIOUS
<1>6. PICK end : end = full[TextOf(content, line, y + 1)]
  OBVIOUS
<1>7. Linked(content, line, ready, full, w, r) = LinkTo(ready, w, begin, end, <<line[x], line[y]>>)
  BY <1>1, <1>5, <1>6 DEF Linked, PlaceOf, LinkOf
<1>8. full[TextLen(SubSeq(line, 1, r[1] - 1))] = begin /\ full[TextLen(SubSeq(line, 1, r[2]))] = end
  BY <1>1, <1>3, <1>4, <1>5, <1>6
<1> QED BY <1>1, <1>7, <1>8 DEF Link, LinkTo

\* processNormalContentLine puts out what LineWalked is about.
StartedAt(segs, line) == IF IsPush(Recolored(segs, line)) THEN Append(buf, Plain("div")) ELSE buf
\* What comes after it.
ClosersOf(segs, line) == IF IsPush(Recolored(segs, line)) THEN <<Plain("/div")>> ELSE <<>>

\* NormalLine is the walk to the end of the line, and the rich content
\* below.
LEMMA NormalLineIs ==
  ASSUME content \in Seq(Tokens), NEW line, NEW segs, NEW map, NEW f, NEW ready, NEW links, NEW full,
         LineWith(content, line, segs, map, f, ready, links, full), ready = ReadyOf(segs, line),
         NEW begin \in Walks, begin = AtStart(StartedAt(segs, line)),
         NormalLine(Recolored(segs, line), line, full, links)
  PROVE  buf' = OutputTo(ready, WalkTo(content, line, ready, full, links, begin, Len(links)), Len(ready), 0).out
                  \o ClosersOf(segs, line) \o Contents(Len(links))
<1>a. PICK R : R = VisibleRanges(content, line)
  OBVIOUS
<1>b. PICK op : op = LinkFn(content, line, ready, full, R)
  OBVIOUS
<1>1. links \in Seq(R) /\ line \in Seq(RunesOf(content)) /\ DOMAIN links = 1 .. Len(links) /\ Len(links) \in Nat
  <2>1. links \in Seq(R)
    BY <1>a, LineFields
  <2> QED BY <2>1, LineFields
<1>2. IsOp(Walks, R, op)
  BY <1>a, <1>b, LinkFnType, SMTT(40)
<1> DEFINE Good(it) == it = [s \in SUBSET (DOMAIN links) |->
                               IF s = {} THEN begin
                               ELSE Link(ready, line, full, it[s \ {Max(s)}], links[Max(s)])]
           it == CHOOSE it : Good(it)
<1>3. buf' = OutputTo(ready, it[DOMAIN links], Len(ready), 0).out
               \o ClosersOf(segs, line) \o Contents(Len(links))
  BY <1>1, ZenonT(60) DEF NormalLine, FoldLeft, MapThenFoldSet, ReadyOf, AtStart, StartedAt, ClosersOf, Contents
<1>4. PICK g \in Iterates(Walks, R, op, begin, links) : TRUE
  BY <1>1, <1>2, IterateExists
<1>5. \A w : \A r \in R : Link(ready, line, full, w, r) = Linked(content, line, ready, full, w, r)
  BY <1>1, <1>a, LinkIsLinked
<1>6. Good(g)
  <2>1. ASSUME NEW s \in SUBSET (DOMAIN links), s # {}
        PROVE  g[s] = Link(ready, line, full, g[s \ {Max(s)}], links[Max(s)])
    <3>1. PICK u \in Walks : u = g[s \ {Max(s)}]
      BY <1>4, <2>1 DEF Iterates
    <3>2. PICK r \in R : r = links[Max(s)]
      BY <1>4, <2>1 DEF Iterates
    <3>3. g[s] = op[<<u, r>>]
      BY <1>4, <2>1, <3>1, <3>2 DEF Iterates
    <3>4. op[<<u, r>>] = Linked(content, line, ready, full, u, r)
      BY <1>b DEF LinkFn
    <3> QED BY <1>5, <3>1, <3>2, <3>3, <3>4
  <2>2. g[{}] = begin /\ DOMAIN g = SUBSET (DOMAIN links) /\ g = [s \in SUBSET (DOMAIN links) |-> g[s]]
    BY <1>4 DEF Iterates
  <2>3. \A s \in SUBSET (DOMAIN links) :
          g[s] = IF s = {} THEN begin ELSE Link(ready, line, full, g[s \ {Max(s)}], links[Max(s)])
    BY <2>1, <2>2
  <2> QED BY <2>2, <2>3
<1>7. Good(it)
  BY <1>6
<1> HIDE DEF it
<1>8. Iterated(Walks, op, begin, links, it)
  <2> SUFFICES ASSUME NEW s \in SUBSET (DOMAIN links)
               PROVE  /\ s = {} => it[s] = begin
                      /\ s # {} /\ it[s \ {Max(s)}] \in Walks
                           => it[s] = op[<<it[s \ {Max(s)}], links[Max(s)]>>]
    BY DEF Iterated
  <2>1. it[s] = IF s = {} THEN begin ELSE Link(ready, line, full, it[s \ {Max(s)}], links[Max(s)])
    BY <1>7
  <2>2. s # {} => links[Max(s)] \in R
    BY <1>4 DEF Iterates
  <2> QED BY <1>5, <1>b, <2>1, <2>2 DEF LinkFn
<1>9. it[DOMAIN links] = FoldFn(Walks, op, begin, links)
  BY <1>1, <1>2, <1>8, IteratedIsFold
<1>10. SubSeq(links, 1, Len(links)) = links
  BY <1>1
<1>11. it[DOMAIN links] = WalkTo(content, line, ready, full, links, begin, Len(links))
  BY <1>9, <1>10, <1>a, <1>b DEF WalkTo
<1> QED BY <1>3, <1>11

-----------------------------------------------------------------------------
(* The end of a line *)

\* What may be seen of the runes of a line: their looks and their links.
NewGlyphs(line, ready, f, links) ==
  {g \in Glyphs : \E x \in 1 .. Len(line) : \E i \in 1 .. Len(ready) :
     /\ f[i] <= x /\ x < f[i + 1] /\ g.where[1] = line[x]
     /\ g.look = ShownLook(ready[i].look) /\ AsLinked(line, links, x, g.link)}

\* The walk shows nothing but these.
LEMMA GlyphsAreRight ==
  ASSUME NEW c, NEW line, NEW segs, NEW map, NEW f, NEW ready, NEW links, NEW full,
         LineWith(c, line, segs, map, f, ready, links, full), NEW G0, NEW G, G = G0 \cup NewGlyphs(line, ready, f, links)
  PROVE  AllRight(line, ready, f, links, G)
<1>1. /\ c \in Seq(Tokens) /\ line \in Seq(RunesOf(c)) /\ ready \in Seq(ReadySegs)
  BY LineFields
<1>2. ASSUME NEW x \in 1 .. Len(line), NEW z \in Scenes, z.right = G, AsLinked(line, links, x, z.link),
             NEW i \in 1 .. Len(ready), f[i] <= x, x < f[i + 1], NEW b \in Nat
      PROVE  [where |-> <<line[x], b>>, look |-> ShownLook(ready[i].look), link |-> z.link] \in G
  <2>1. PICK g : g = [where |-> <<line[x], b>>, look |-> ShownLook(ready[i].look), link |-> z.link]
    OBVIOUS
  <2>2. line[x] \in Nat
    <3>1. line[x] \in RunesOf(c)
      BY <1>1
    <3> QED BY <1>1, <3>1, RuneType
  <2>3. ShownLook(ready[i].look) \in Looks
    <3>1. ready[i].look \in Looks
      BY <1>1, SegFields
    <3> QED BY <3>1, NoLookType DEF ShownLook
  <2>4. z.link \in Nat \X Nat
    BY DEF Scenes
  <2>5. g \in Glyphs
    BY <2>1, <2>2, <2>3, <2>4 DEF Glyphs
  <2>6. g.where[1] = line[x] /\ g.look = ShownLook(ready[i].look) /\ g.link = z.link
    BY <2>1
  <2>7. g \in NewGlyphs(line, ready, f, links)
    BY <1>2, <2>5, <2>6 DEF NewGlyphs
  <2> QED BY <2>1, <2>7
<1> QED BY <1>2 DEF AllRight, RuneRight

\* The HTML after a line that has been put out.
CutOf(segs, line) ==
  IF IsPush(Recolored(segs, line))
  THEN {Recolored(segs, line)[3].bytes[k].where[1] :
          k \in ReadyOf(segs, line)[3].len + 1 .. Recolored(segs, line)[3].len} ELSE {}
\* The text that is put out for the line.
NewText(segs, line) == Joined(ReadyOf(segs, line), Len(ReadyOf(segs, line)))
\* The HTML h after the line.
PutOut(h, ls, text, G, line, segs, map) ==
  \E f : \E links \in Kept(VisibleRanges(content, line)) :
    /\ Divided(content, line, segs, map, f)
    /\ Outside(h, <<>>, ls \cup NewLinks(line, links, Len(links)), text \o NewText(segs, line),
               G \cup NewGlyphs(line, ReadyOf(segs, line), f, links))

\* That is what normalLine puts out.
LEMMA NormalLineShown ==
  ASSUME content \in Seq(Tokens), NEW a, NEW line, NEW segs, NEW closed, NEW map, NEW t,
         LineOK(content, a, line, segs, closed, map, t), Len(line) > 0,
         NEW ls \in SUBSET Pairs, NEW text \in ByteSeqs, NEW G \in SUBSET Glyphs,
         Outside(buf, <<>>, ls, text, G),
         NEW full, full = [map EXCEPT ![TextLen(line)] = <<Len(segs), 0>>],
         NEW links \in Kept(VisibleRanges(content, line)),
         NormalLine(Recolored(segs, line), line, full, links)
  PROVE  PutOut(buf', ls, text, G, line, segs, map) /\ hidden' = hidden \cup CutOf(segs, line)
<1>1. PICK f : Divided(content, line, segs, map, f)
  BY DEF LineOK
<1>2. PICK ready : ready = ReadyOf(segs, line)
  OBVIOUS
<1>3. LineWith(content, line, segs, map, f, ready, links, full)
  BY <1>1, <1>2, LineIsReady
<1>4. PICK H : H = G \cup NewGlyphs(line, ready, f, links)
  OBVIOUS
<1>5. AllRight(line, ready, f, links, H) /\ H \in SUBSET Glyphs
  <2>1. AllRight(line, ready, f, links, H)
    BY <1>3, <1>4, GlyphsAreRight
  <2>2. H \in SUBSET Glyphs
    BY <1>4 DEF NewGlyphs
  <2> QED BY <2>1, <2>2
<1>6. Outside(buf, <<>>, ls, text, H)
  BY <1>4 DEF Outside
<1>7. PICK push : push = IsPush(Recolored(segs, line))
  OBVIOUS
<1>8. PICK base : base = IF push THEN <<"div">> ELSE <<>>
  OBVIOUS
<1>9. base \in Bases
  <2>1. <<"div">> \in Stacks /\ <<>> \in Stacks
    BY DEF Stacks, OpenTags
  <2>2. ~Contains(<<"div">>, "a") /\ ~Contains(<<>>, "a")
    BY DEF Contains
  <2> QED BY <1>8, <2>1, <2>2 DEF Bases
<1>10. PICK h : h = StartedAt(segs, line)
  OBVIOUS
<1>11. Outside(h, base, ls, text, H)
  BY <1>6, <1>7, <1>8, <1>10, OpenDiv DEF StartedAt
<1>12. PICK begin : begin = AtStart(h)
  OBVIOUS
<1>13. begin \in Walks
  BY <1>11, <1>12 DEF AtStart, Walks, Outside
<1>14. PICK html : html = OutputTo(ready, WalkTo(content, line, ready, full, links, begin, Len(links)), Len(ready), 0).out
  OBVIOUS
<1>15. PICK us : us = ls \cup NewLinks(line, links, Len(links))
  OBVIOUS
<1>16. PICK tx : tx = text \o Joined(ready, Len(ready))
  OBVIOUS
<1>17. Outside(html, base, us, tx, H)
  BY <1>3, <1>5, <1>9, <1>11, <1>12, <1>14, <1>15, <1>16, LineWalked
<1>18. buf' = html \o ClosersOf(segs, line) \o Contents(Len(links))
  BY <1>2, <1>3, <1>10, <1>12, <1>13, <1>14, NormalLineIs, ZenonT(60)
<1>19. PICK o : o = html \o ClosersOf(segs, line)
  OBVIOUS
<1>20. Outside(o, <<>>, us, tx, H)
  <2>1. CASE push
    <3>1. o = Append(html, Plain("/div"))
      <4>1. html \in Seq(Htmls)
        BY <1>17 DEF Outside, HtmlSeqs
      <4>2. ClosersOf(segs, line) = <<Plain("/div")>>
        BY <1>7, <2>1 DEF ClosersOf
      <4> QED BY <1>19, <4>1, <4>2
    <3>2. Outside(html, <<"div">>, us, tx, H)
      BY <1>8, <1>17, <2>1
    <3> QED BY <3>1, <3>2, CloseDiv
  <2>2. CASE ~push
    <3>1. o = html
      <4>1. html \in Seq(Htmls)
        BY <1>17 DEF Outside, HtmlSeqs
      <4>2. ClosersOf(segs, line) = <<>>
        BY <1>7, <2>2 DEF ClosersOf
      <4> QED BY <1>19, <4>1, <4>2
    <3> QED BY <1>8, <1>17, <2>2, <3>1
  <2> QED BY <2>1, <2>2
<1>21. PICK n \in Nat : n = Len(links)
  BY <1>3, LineFields
<1>22. Outside(o \o Contents(n), <<>>, us, tx, H)
  BY <1>20, RichContents
<1>23. Outside(buf', <<>>, us, tx, H)
  BY <1>18, <1>19, <1>21, <1>22
<1>24. PutOut(buf', ls, text, G, line, segs, map)
  BY <1>1, <1>2, <1>4, <1>15, <1>16, <1>23 DEF PutOut, NewText
<1>25. hidden' = hidden \cup CutOf(segs, line)
  BY DEF NormalLine, CutOf, ReadyOf
<1> QED BY <1>24, <1>25

-----------------------------------------------------------------------------
(* The HTML of the article, line by line *)

\* h reads as r, and no element is open.
Shows(h, r) == Outside(h, <<>>, r.links, r.text, r.seen)
\* No element is open between lines.
Settled == Shows(buf, Rd(buf))

\* A line is a header or it is put out.
Ended(r, line, segs, map) ==
  \/ Shows(buf', r) /\ hidden' = hidden \cup ToSet(line)
  \/ PutOut(buf', r.links, r.text, r.seen, line, segs, map) /\ hidden' = hidden \cup CutOf(segs, line)

\* What that says of the reader.
LEMMA SettledFields ==
  ASSUME Settled, NEW r, r = Rd(buf)
  PROVE  /\ buf \in HtmlSeqs /\ r.open = <<>> /\ r.look = NoLook /\ r.link = <<0, 0>>
         /\ r.links \in SUBSET Pairs /\ r.text \in ByteSeqs /\ r.seen \in SUBSET Glyphs
<1>1. buf \in HtmlSeqs /\ r.open = <<>> /\ r.look = NoLook /\ r.link = <<0, 0>>
  BY DEF Settled, Shows, Outside
<1>2. r \in Readers
  BY <1>1, RdType
<1> QED BY <1>1, <1>2 DEF Readers, Pairs

\* endOfLine puts out a line of meta data, whose text is hidden, or the
\* line.
LEMMA EndOfLineShown ==
  ASSUME content \in Seq(Tokens), Settled, NEW a, NEW line, NEW segs, NEW closed, NEW map, NEW t,
         LineOK(content, a, line, segs, closed, map, t), Len(line) > 0, EndOfLine(line, segs, map)
  PROVE  Ended(Rd(buf), line, segs, map)
<1> DEFINE header == headers /\ acceptMetaLines /\ lineNo < 5
<1>1. PICK r : r = Rd(buf)
  OBVIOUS
<1>2. r.links \in SUBSET Pairs /\ r.text \in ByteSeqs /\ r.seen \in SUBSET Glyphs
  BY <1>1, SettledFields
<1>3. Shows(buf, r)
  BY <1>1 DEF Settled
<1>4. CASE header /\ IsMeta(line)
  <2>1. buf' = Append(buf, Plain("meta")) /\ hidden' = hidden \cup ToSet(line)
    BY <1>4 DEF EndOfLine
  <2>2. Outside(Append(buf, Plain("meta")), <<>>, r.links, r.text, r.seen)
    BY <1>3, Standalone DEF Shows
  <2> QED BY <1>1, <2>1, <2>2 DEF Ended, Shows
<1>5. CASE ~(header /\ IsMeta(line))
  <2>1. PICK full : full = [map EXCEPT ![TextLen(line)] = <<Len(segs), 0>>]
    OBVIOUS
  <2>2. PICK finds \in Finds(line) : NormalLine(Recolored(segs, line), line, full, Filtered(finds))
    BY <1>5, <2>1 DEF EndOfLine
  <2>3. line \in Seq(RunesOf(content))
    BY DEF LineOK
  <2>4. PICK links \in Kept(VisibleRanges(content, line)) : links = Filtered(finds)
    BY <2>3, FindsAreRanges
  <2>5. NormalLine(Recolored(segs, line), line, full, links)
    BY <2>2, <2>4
  <2>6. PICK ls \in SUBSET Pairs : ls = r.links
    BY <1>2, Zenon
  <2>7. PICK text \in ByteSeqs : text = r.text
    BY <1>2, Zenon
  <2>8. PICK G \in SUBSET Glyphs : G = r.seen
    BY <1>2, Zenon
  <2>9. Outside(buf, <<>>, ls, text, G)
    BY <1>3, <2>6, <2>7, <2>8 DEF Shows
  <2>10. PutOut(buf', ls, text, G, line, segs, map) /\ hidden' = hidden \cup CutOf(segs, line)
    BY <2>1, <2>5, <2>9, NormalLineShown
  <2> QED BY <1>1, <2>6, <2>7, <2>8, <2>10 DEF Ended
<1> QED BY <1>4, <1>5

\* The line that ends in a step, if one does.
EndsWith(a, line, segs, map) ==
  /\ LineOK(content, a, line, segs, FALSE, map, terminalState)
  /\ Len(line) > 0 /\ a = at'
  /\ \/ a = at /\ line = lineBuf /\ segs = lineSegs /\ map = mapper /\ at = Len(content)
     \/ /\ a = at + 1 /\ a <= Len(content) /\ content[a].kind = "rune" /\ content[a].class = "newline"
        /\ line = Append(lineBuf, a)
        /\ segs = Written(WithCurrSeg, a) /\ map = Record(WithCurrSeg, TextLen(lineBuf))

\* A step goes on in its line, or ends it.
LEMMA EndingStep ==
  ASSUME RendererInv, Settled, RendererNext
  PROVE  \/ /\ UNCHANGED <<buf, hidden>> /\ ~FinishLine
            /\ ReadEscape \/ (ReadRune /\ content[at + 1].class # "newline")
         \/ /\ UNCHANGED content /\ lineBuf' = <<>> /\ lineSegs' = <<>> /\ UNCHANGED terminalState
            /\ \E a, line, segs, map : EndsWith(a, line, segs, map) /\ Ended(Rd(buf), line, segs, map)
<1>1. /\ content \in Seq(Tokens) /\ at \in 0 .. Len(content)
      /\ LineOK(content, at, lineBuf, lineSegs, segClosed, mapper, terminalState)
  BY DEF RendererInv, LineOK
<1>2. CASE ReadEscape
  <2>1. ~FinishLine
    BY <1>2 DEF ReadEscape, FinishLine
  <2> QED BY <1>2, <2>1 DEF ReadEscape, articleVars
<1>3. CASE ReadRune
  <2>1. /\ at < Len(content) /\ content[at + 1].kind = "rune" /\ at' = at + 1
        /\ UNCHANGED <<content, terminalState>>
    BY <1>3 DEF ReadRune
  <2>2. CASE content[at + 1].class # "newline"
    <3>1. ~FinishLine
      BY <2>1 DEF FinishLine
    <3> QED BY <1>3, <2>2, <3>1 DEF ReadRune, articleVars
  <2>3. CASE content[at + 1].class = "newline"
    <3>1. PICK a : a = at + 1
      OBVIOUS
    <3>2. PICK line : line = Append(lineBuf, a)
      OBVIOUS
    <3>3. PICK segs : segs = Written(WithCurrSeg, a)
      OBVIOUS
    <3>4. PICK map : map = Record(WithCurrSeg, TextLen(lineBuf))
      OBVIOUS
    <3>5. LineOK(content, a, line, segs, FALSE, map, terminalState)
      BY <2>1, <3>1, <3>2, <3>3, <3>4, WrittenOK
    <3>6. EndOfLine(line, segs, map)
      BY <1>3, <2>3, <3>1, <3>2, <3>3, <3>4 DEF ReadRune
    <3>7. Len(line) > 0
      <4>1. lineBuf \in Seq(RunesOf(content))
        BY <1>1 DEF LineOK
      <4> QED BY <3>2, <4>1
    <3>8. Ended(Rd(buf), line, segs, map)
      BY <1>1, <3>5, <3>6, <3>7, EndOfLineShown
    <3>9. a <= Len(content)
      BY <1>1, <2>1, <3>1
    <3>10. EndsWith(a, line, segs, map)
      BY <2>1, <2>3, <3>1, <3>2, <3>3, <3>4, <3>5, <3>7, <3>9 DEF EndsWith
    <3>11. lineBuf' = <<>> /\ lineSegs' = <<>>
      BY <3>6 DEF EndOfLine
    <3> QED BY <2>1, <3>8, <3>10, <3>11
  <2> QED BY <2>2, <2>3
<1>4. CASE FinishLine
  <2>1. /\ at = Len(content) /\ lineBuf # <<>> /\ EndOfLine(lineBuf, lineSegs, mapper)
        /\ UNCHANGED <<content, at, terminalState>>
    BY <1>4 DEF FinishLine
  <2>2. Len(lineBuf) > 0
    <3>1. lineBuf \in Seq(RunesOf(content))
      BY <1>1 DEF LineOK
    <3> QED BY <2>1, <3>1
  <2>3. segClosed = FALSE
    <3>1. PICK f : Divided(content, lineBuf, lineSegs, mapper, f)
      BY <1>1 DEF LineOK
    <3>2. Len(lineSegs) > 0
      BY <1>1, <2>2, <3>1, FirstSegment
    <3>3. lineSegs # <<>>
      BY <3>2
    <3> QED BY <1>1, <3>3 DEF LineOK
  <2>4. Ended(Rd(buf), lineBuf, lineSegs, mapper)
    BY <1>1, <2>1, <2>2, EndOfLineShown
  <2>5. EndsWith(at, lineBuf, lineSegs, mapper)
    BY <1>1, <2>1, <2>2, <2>3 DEF EndsWith
  <2>6. lineBuf' = <<>> /\ lineSegs' = <<>>
    BY <2>1 DEF EndOfLine
  <2> QED BY <2>1, <2>4, <2>5, <2>6
<1> QED BY <1>2, <1>3, <1>4 DEF RendererNext

\* Whatever the text and the links are, nothing is open.
LEMMA OutsideSettles ==
  ASSUME NEW h, NEW ls, NEW text, NEW G, Outside(h, <<>>, ls, text, G)
  PROVE  Shows(h, Rd(h))
  BY DEF Outside, Shows

\* Nor is there after the end of a line.
LEMMA EndedSettles ==
  ASSUME NEW r, NEW line, NEW segs, NEW map, Ended(r, line, segs, map)
  PROVE  Settled'
<1>1. PICK ls, text, G : Outside(buf', <<>>, ls, text, G)
  BY DEF Ended, PutOut, Shows
<1>2. Shows(buf', Rd(buf'))
  BY <1>1, OutsideSettles
<1> QED BY <1>2 DEF Settled

\* Nor at first.
LEMMA SettledInit == RendererInit => Settled
<1> SUFFICES ASSUME RendererInit PROVE Settled
  OBVIOUS
<1>1. buf = <<>> /\ Rd(buf) = Blank
  BY RdEmpty DEF RendererInit
<1>2. buf \in HtmlSeqs
  BY <1>1 DEF HtmlSeqs
<1> QED BY <1>1, <1>2 DEF Settled, Shows, Outside, Blank

\* Settled is inductive, with RendererInv.
LEMMA SettledStep == RendererInv /\ Settled /\ [RendererNext]_rendererVars => Settled'
<1> SUFFICES ASSUME RendererInv, Settled, [RendererNext]_rendererVars PROVE Settled'
  OBVIOUS
<1>1. CASE UNCHANGED buf
  BY <1>1 DEF Settled
<1>2. CASE UNCHANGED rendererVars
  BY <1>1, <1>2 DEF rendererVars, articleVars
<1>3. CASE RendererNext
  BY <1>1, <1>3, EndingStep, EndedSettles
<1> QED BY <1>2, <1>3

\* For every article, the HTML that render puts out nests: every span, link
\* and push is closed by its own end tag, at the end of each line, there is
\* no link in a link, and WriteUpTo never reaches its panic.
THEOREM HtmlIsWellFormed == RendererSpec => []WellFormed
<1>1. RendererSpec => [](RendererInv /\ Settled)
  BY RendererStarts, RendererTypeStep, SettledInit, SettledStep, PTL DEF RendererSpec
<1>2. Settled => WellFormed
  BY ReaderIs DEF Settled, Shows, Outside, WellFormed
<1> QED BY <1>1, <1>2, PTL

-----------------------------------------------------------------------------
(* What links show *)

\* The runes of a line are in order, after all that has been put out, up to d.
LineAfter(line, d) ==
  \A k \in 1 .. Len(line) : d < line[k] /\ \A j \in 1 .. k - 1 : line[j] < line[k]
\* The glyph is from one of the runes of the link.
InLinkOf(l, g) == l[1] <= g.where[1] /\ g.where[1] <= l[2]
\* Links show exactly what is between their ends, and nothing after d is
\* shown.
Exact(ls, G, d) ==
  /\ \A l \in ls : l[1] \in Nat /\ l[2] \in Nat /\ 1 <= l[1] /\ l[2] <= d
  /\ \A g \in G : /\ g \in Glyphs /\ g.where[1] \in Nat /\ g.link[2] \in Nat
                  /\ g.where[1] <= d /\ g.link[2] <= d
  /\ \A l \in ls : \A g \in G : g.link = l <=> InLinkOf(l, g)

\* The runes of a line are in its order.
LEMMA LineOrder ==
  ASSUME NEW c \in Seq(Tokens), NEW line \in Seq(RunesOf(c)), NEW d \in Nat, LineAfter(line, d),
         NEW x \in 1 .. Len(line), NEW y \in 1 .. Len(line)
  PROVE  /\ line[x] \in Nat /\ line[y] \in Nat /\ d < line[x]
         /\ (x <= y <=> line[x] <= line[y]) /\ (line[x] = line[y] => x = y)
<1>1. line[x] \in RunesOf(c) /\ line[y] \in RunesOf(c) /\ Len(line) \in Nat
  OBVIOUS
<1>2. line[x] \in Nat /\ line[y] \in Nat
  BY <1>1, RuneType
<1>3. x < y => line[x] < line[y]
  <2>1. x < y => x \in 1 .. y - 1
    BY <1>1
  <2> QED BY <2>1 DEF LineAfter
<1>4. y < x => line[y] < line[x]
  <2>1. y < x => y \in 1 .. x - 1
    BY <1>1
  <2> QED BY <2>1 DEF LineAfter
<1>5. d < line[x]
  BY DEF LineAfter
<1> QED BY <1>1, <1>2, <1>3, <1>4, <1>5

\* The fields of a link of the line.
LEMMA NewLinkFields ==
  ASSUME NEW c \in Seq(Tokens), NEW line \in Seq(RunesOf(c)), NEW links \in Kept(VisibleRanges(c, line)),
         NEW n \in 1 .. Len(links)
  PROVE  \E q \in 1 .. Len(line) : \E e \in 1 .. Len(line) :
           q = links[n][1] /\ e = links[n][2] /\ q <= e /\ LinkOf(line, links[n]) = <<line[q], line[e]>>
<1>1. Len(line) \in Nat
  OBVIOUS
<1>2. links[n][1] \in 1 .. Len(line) /\ links[n][2] \in 1 .. Len(line) /\ links[n][1] <= links[n][2]
  BY <1>1, RangeFields
<1> QED BY <1>2 DEF LinkOf

\* The links of a line are in the line.
LEMMA NewLinkType ==
  ASSUME NEW c \in Seq(Tokens), NEW line \in Seq(RunesOf(c)), NEW d \in Nat, LineAfter(line, d),
         NEW a \in Nat, \A k \in 1 .. Len(line) : line[k] <= a,
         NEW links \in Kept(VisibleRanges(c, line)), NEW n \in 1 .. Len(links), NEW l, l = LinkOf(line, links[n])
  PROVE  l[1] \in Nat /\ l[2] \in Nat /\ d < l[1] /\ d < l[2] /\ l[2] <= a
<1>1. PICK q \in 1 .. Len(line), e \in 1 .. Len(line) : LinkOf(line, links[n]) = <<line[q], line[e]>>
  BY NewLinkFields
<1>2. line[q] \in Nat /\ line[e] \in Nat /\ d < line[q] /\ d < line[e]
  BY LineOrder
<1>3. line[e] <= a
  OBVIOUS
<1>4. l[1] = line[q] /\ l[2] = line[e]
  BY <1>1
<1> QED BY <1>2, <1>3, <1>4

\* What is shown of a line is from it.
LEMMA NewGlyphType ==
  ASSUME NEW c \in Seq(Tokens), NEW line \in Seq(RunesOf(c)), NEW d \in Nat, LineAfter(line, d),
         NEW a \in Nat, \A k \in 1 .. Len(line) : line[k] <= a,
         NEW links \in Kept(VisibleRanges(c, line)), NEW ready, NEW f,
         NEW g \in NewGlyphs(line, ready, f, links)
  PROVE  /\ g \in Glyphs /\ g.where[1] \in Nat /\ g.link[2] \in Nat
         /\ d < g.where[1] /\ g.where[1] <= a /\ g.link[2] <= a
         /\ (g.link[2] # 0 => d < g.link[2])
<1>1. PICK x \in 1 .. Len(line) : g.where[1] = line[x] /\ AsLinked(line, links, x, g.link)
  BY DEF NewGlyphs
<1>2. line[x] \in Nat /\ d < line[x] /\ line[x] <= a
  BY LineOrder
<1>3. g.link[2] \in Nat /\ g.link[2] <= a /\ (g.link[2] # 0 => d < g.link[2])
  <2>1. CASE g.link = <<0, 0>>
    <3>1. g.link[2] = 0
      BY <2>1
    <3> QED BY <3>1
  <2>2. CASE g.link # <<0, 0>>
    <3>1. PICK m \in 1 .. Len(links) : g.link = LinkOf(line, links[m])
      BY <1>1, <2>2 DEF AsLinked
    <3>2. PICK l : l = g.link
      OBVIOUS
    <3>3. l[2] \in Nat /\ d < l[2] /\ l[2] <= a
      BY <3>1, <3>2, NewLinkType
    <3> QED BY <3>2, <3>3
  <2> QED BY <2>1, <2>2
<1>4. g \in Glyphs
  BY DEF NewGlyphs
<1> QED BY <1>1, <1>2, <1>3, <1>4

\* A rune of the line is in the link just if it is between its ends.
LEMMA NewExact ==
  ASSUME NEW c \in Seq(Tokens), NEW line \in Seq(RunesOf(c)), NEW d \in Nat, LineAfter(line, d),
         NEW links \in Kept(VisibleRanges(c, line)), NEW ready, NEW f,
         NEW g \in NewGlyphs(line, ready, f, links), NEW n \in 1 .. Len(links),
         NEW l, l = LinkOf(line, links[n])
  PROVE  g.link = l <=> InLinkOf(l, g)
<1>1. PICK x \in 1 .. Len(line) : g.where[1] = line[x] /\ AsLinked(line, links, x, g.link)
  BY DEF NewGlyphs
<1>2. PICK q \in 1 .. Len(line), e \in 1 .. Len(line) :
        q = links[n][1] /\ e = links[n][2] /\ q <= e /\ LinkOf(line, links[n]) = <<line[q], line[e]>>
  BY NewLinkFields
<1>3. l[1] = line[q] /\ l[2] = line[e]
  BY <1>2
<1>4. InLinkOf(l, g) <=> q <= x /\ x <= e
  <2>1. q <= x <=> line[q] <= line[x]
    BY LineOrder
  <2>2. x <= e <=> line[x] <= line[e]
    BY LineOrder
  <2> QED BY <1>1, <1>3, <2>1, <2>2 DEF InLinkOf
<1>5. ASSUME g.link = l
      PROVE  q <= x /\ x <= e
  <2>1. g.link # <<0, 0>>
    <3>1. line[q] \in Nat /\ d < line[q]
      BY LineOrder
    <3>2. line[q] # 0
      BY <3>1
    <3> QED BY <1>3, <1>5, <3>2
  <2>2. PICK m \in 1 .. Len(links) : links[m][1] <= x /\ x <= links[m][2] /\ g.link = LinkOf(line, links[m])
    BY <1>1, <2>1 DEF AsLinked
  <2>3. PICK q2 \in 1 .. Len(line), e2 \in 1 .. Len(line) :
          q2 = links[m][1] /\ e2 = links[m][2] /\ LinkOf(line, links[m]) = <<line[q2], line[e2]>>
    BY NewLinkFields
  <2>4. line[q2] = line[q] /\ line[e2] = line[e]
    BY <1>2, <1>5, <2>2, <2>3
  <2>5. q2 = q
    BY <2>4, LineOrder
  <2>6. e2 = e
    BY <2>4, LineOrder
  <2> QED BY <2>2, <2>3, <2>5, <2>6
<1>6. ASSUME q <= x, x <= e
      PROVE  g.link = l
  <2>1. ~(x < links[n][1] \/ links[n][2] < x)
    BY <1>2, <1>6
  <2>2. PICK m \in 1 .. Len(links) : links[m][1] <= x /\ x <= links[m][2] /\ g.link = LinkOf(line, links[m])
    BY <1>1, <2>1 DEF AsLinked
  <2>3. PICK q2 \in 1 .. Len(line), e2 \in 1 .. Len(line) : q2 = links[m][1] /\ e2 = links[m][2]
    BY NewLinkFields
  <2>4. Apart(links) /\ Len(links) \in Nat
    BY DEF Kept
  <2>5. ~(m < n)
    <3> SUFFICES ASSUME m < n PROVE FALSE
      OBVIOUS
    <3>1. m \in 1 .. n - 1
      BY <2>4
    <3>2. e2 < q
      BY <1>2, <2>3, <2>4, <3>1 DEF Apart
    <3> QED BY <1>6, <2>2, <2>3, <3>2
  <2>6. ~(n < m)
    <3> SUFFICES ASSUME n < m PROVE FALSE
      OBVIOUS
    <3>1. n \in 1 .. m - 1
      BY <2>4
    <3>2. e < q2
      BY <1>2, <2>3, <2>4, <3>1 DEF Apart
    <3> QED BY <1>6, <2>2, <2>3, <3>2
  <2>7. m = n
    BY <2>4, <2>5, <2>6
  <2> QED BY <2>2, <2>7
<1> QED BY <1>4, <1>5, <1>6

\* So links remain exact when a line is put out.
LEMMA ExactGrows ==
  ASSUME NEW c \in Seq(Tokens), NEW line \in Seq(RunesOf(c)), NEW d \in Nat, LineAfter(line, d),
         NEW a \in Nat, \A k \in 1 .. Len(line) : line[k] <= a, d <= a,
         NEW links \in Kept(VisibleRanges(c, line)), NEW ready, NEW f,
         NEW ls, NEW G, Exact(ls, G, d)
  PROVE  Exact(ls \cup NewLinks(line, links, Len(links)), G \cup NewGlyphs(line, ready, f, links), a)
<1> DEFINE us == ls \cup NewLinks(line, links, Len(links))
           H == G \cup NewGlyphs(line, ready, f, links)
<1>1. ASSUME NEW l \in us
      PROVE  l[1] \in Nat /\ l[2] \in Nat /\ 1 <= l[1] /\ l[2] <= a
  <2>1. CASE l \in ls
    BY <2>1 DEF Exact
  <2>2. CASE l \in NewLinks(line, links, Len(links))
    <3>1. PICK n \in 1 .. Len(links) : l = LinkOf(line, links[n])
      BY <2>2 DEF NewLinks
    <3>2. l[1] \in Nat /\ l[2] \in Nat /\ d < l[1] /\ l[2] <= a
      BY <3>1, NewLinkType
    <3> QED BY <3>2
  <2> QED BY <2>1, <2>2
<1>2. ASSUME NEW g \in H
      PROVE  g \in Glyphs /\ g.where[1] \in Nat /\ g.link[2] \in Nat /\ g.where[1] <= a /\ g.link[2] <= a
  <2>1. CASE g \in G
    BY <2>1 DEF Exact
  <2>2. CASE g \in NewGlyphs(line, ready, f, links)
    BY <2>2, NewGlyphType
  <2> QED BY <2>1, <2>2
<1>3. ASSUME NEW l \in us, NEW g \in H
      PROVE  g.link = l <=> InLinkOf(l, g)
  <2>1. CASE l \in ls /\ g \in G
    BY <2>1 DEF Exact
  <2>2. CASE l \in ls /\ g \in NewGlyphs(line, ready, f, links)
    <3>1. l[1] \in Nat /\ l[2] \in Nat /\ 1 <= l[1] /\ l[2] <= d
      BY <2>2 DEF Exact
    <3>2. g.where[1] \in Nat /\ d < g.where[1]
      BY <2>2, NewGlyphType
    <3>3. ~InLinkOf(l, g)
      BY <3>1, <3>2 DEF InLinkOf
    <3>4. g.link # l
      <4>1. PICK x \in 1 .. Len(line) : AsLinked(line, links, x, g.link)
        BY <2>2 DEF NewGlyphs
      <4>2. CASE g.link = <<0, 0>>
        <5>1. l[1] # 0
          BY <3>1
        <5> QED BY <4>2, <5>1
      <4>3. CASE g.link # <<0, 0>>
        <5>1. PICK m \in 1 .. Len(links) : g.link = LinkOf(line, links[m])
          BY <4>1, <4>3 DEF AsLinked
        <5>2. PICK k : k = g.link
          OBVIOUS
        <5>3. k[2] \in Nat /\ d < k[2]
          BY <5>1, <5>2, NewLinkType
        <5> QED BY <3>1, <5>2, <5>3
      <4> QED BY <4>2, <4>3
    <3> QED BY <3>3, <3>4
  <2>3. CASE l \in NewLinks(line, links, Len(links)) /\ g \in G
    <3>1. PICK n \in 1 .. Len(links) : l = LinkOf(line, links[n])
      BY <2>3 DEF NewLinks
    <3>2. l[1] \in Nat /\ l[2] \in Nat /\ d < l[1] /\ d < l[2]
      BY <3>1, NewLinkType
    <3>3. g.where[1] \in Nat /\ g.link[2] \in Nat /\ g.where[1] <= d /\ g.link[2] <= d
      BY <2>3 DEF Exact
    <3>4. ~InLinkOf(l, g)
      BY <3>2, <3>3 DEF InLinkOf
    <3>5. g.link # l
      BY <3>2, <3>3
    <3> QED BY <3>4, <3>5
  <2>4. CASE l \in NewLinks(line, links, Len(links)) /\ g \in NewGlyphs(line, ready, f, links)
    <3>1. PICK n \in 1 .. Len(links) : l = LinkOf(line, links[n])
      BY <2>4 DEF NewLinks
    <3> QED BY <2>4, <3>1, NewExact
  <2> QED BY <2>1, <2>2, <2>3, <2>4
<1> HIDE DEF us, H
<1>4. Exact(us, H, a)
  BY <1>1, <1>2, <1>3 DEF Exact
<1> QED BY <1>4 DEF us, H

\* What is put out comes before what is in the line.
Sorted == \E d \in 0 .. at : Exact(Rd(buf).links, Rd(buf).seen, d) /\ LineAfter(lineBuf, d)

\* One more rune in the line.
LEMMA AppendAfter ==
  ASSUME NEW c \in Seq(Tokens), NEW line \in Seq(RunesOf(c)), NEW a \in Nat,
         \A k \in 1 .. Len(line) : line[k] <= a, NEW d \in 0 .. a, LineAfter(line, d)
  PROVE  LineAfter(Append(line, a + 1), d)
<1>1. PICK new : new = Append(line, a + 1)
  OBVIOUS
<1>2. Len(line) \in Nat /\ Len(new) = Len(line) + 1 /\ new[Len(line) + 1] = a + 1
      /\ \A k \in 1 .. Len(line) : new[k] = line[k]
  BY <1>1
<1>3. \A k \in 1 .. Len(line) : line[k] \in Nat
  <2> SUFFICES ASSUME NEW k \in 1 .. Len(line) PROVE line[k] \in Nat
    OBVIOUS
  <2>1. line[k] \in RunesOf(c)
    OBVIOUS
  <2> QED BY <2>1, RuneType
<1>4. ASSUME NEW k \in 1 .. Len(line) + 1
      PROVE  d < new[k] /\ \A j \in 1 .. k - 1 : new[j] < new[k]
  <2>1. CASE k = Len(line) + 1
    <3>1. d < new[k]
      BY <1>2, <2>1
    <3>2. ASSUME NEW j \in 1 .. k - 1
          PROVE  new[j] < new[k]
      <4>1. j \in 1 .. Len(line)
        BY <1>2, <2>1
      <4> QED BY <1>2, <1>3, <2>1, <4>1
    <3> QED BY <3>1, <3>2
  <2>2. CASE k # Len(line) + 1
    <3>1. k \in 1 .. Len(line)
      BY <1>2, <2>2
    <3>2. \A j \in 1 .. k - 1 : j \in 1 .. Len(line)
      BY <1>2, <3>1
    <3> QED BY <1>2, <3>1, <3>2 DEF LineAfter
  <2> QED BY <2>1, <2>2
<1> QED BY <1>1, <1>2, <1>4 DEF LineAfter

\* Less is shown.
LEMMA ExactFewer ==
  ASSUME NEW ls, NEW G, NEW H, NEW d, Exact(ls, H, d), G \subseteq H
  PROVE  Exact(ls, G, d)
  BY DEF Exact

\* Later places.
LEMMA ExactLater ==
  ASSUME NEW ls, NEW G, NEW d \in Nat, Exact(ls, G, d), NEW e \in Nat, d <= e
  PROVE  Exact(ls, G, e)
  BY DEF Exact

\* The line of a step that ends it, in order.
LEMMA EndedInOrder ==
  ASSUME RendererInv, NEW a, NEW line, NEW segs, NEW map, EndsWith(a, line, segs, map),
         NEW d \in 0 .. at, LineAfter(lineBuf, d)
  PROVE  /\ a \in Nat /\ d <= a /\ a <= Len(content) /\ line \in Seq(RunesOf(content)) /\ LineAfter(line, d)
         /\ \A k \in 1 .. Len(line) : line[k] <= a
<1>1. /\ content \in Seq(Tokens) /\ at \in 0 .. Len(content) /\ lineBuf \in Seq(RunesOf(content))
      /\ \A k \in 1 .. Len(lineBuf) : lineBuf[k] <= at
  BY DEF RendererInv, LineOK
<1>2. line \in Seq(RunesOf(content)) /\ \A k \in 1 .. Len(line) : line[k] <= a
  BY DEF EndsWith, LineOK
<1>3. CASE a = at /\ line = lineBuf
  BY <1>1, <1>2, <1>3
<1>4. CASE a = at + 1 /\ a <= Len(content) /\ line = Append(lineBuf, a)
  <2>1. at \in Nat
    BY <1>1
  <2>2. LineAfter(line, d)
    BY <1>1, <1>4, <2>1, AppendAfter
  <2> QED BY <1>1, <1>2, <1>4, <2>1, <2>2
<1> QED BY <1>3, <1>4 DEF EndsWith

\* Sorted is inductive, with RendererInv and Settled.
LEMMA SortedStep ==
  RendererInv /\ Settled /\ Sorted /\ [RendererNext]_rendererVars => Sorted'
<1> SUFFICES ASSUME RendererInv, Settled, Sorted, [RendererNext]_rendererVars PROVE Sorted'
  OBVIOUS
<1>1. /\ content \in Seq(Tokens) /\ at \in 0 .. Len(content) /\ at \in Nat /\ lineBuf \in Seq(RunesOf(content))
      /\ \A k \in 1 .. Len(lineBuf) : lineBuf[k] <= at
  BY DEF RendererInv, LineOK
<1>2. PICK d \in 0 .. at : Exact(Rd(buf).links, Rd(buf).seen, d) /\ LineAfter(lineBuf, d)
  BY DEF Sorted
<1>3. CASE UNCHANGED rendererVars
  BY <1>3 DEF Sorted, rendererVars, lineVars, articleVars
<1>4. ASSUME UNCHANGED buf, ReadEscape
      PROVE  Sorted'
  <2>1. at' = at + 1 /\ lineBuf' = lineBuf
    BY <1>4 DEF ReadEscape
  <2>2. d \in 0 .. at'
    BY <1>1, <2>1
  <2> QED BY <1>2, <1>4, <2>1, <2>2 DEF Sorted
<1>5. ASSUME UNCHANGED buf, ReadRune, content[at + 1].class # "newline"
      PROVE  Sorted'
  <2>1. at' = at + 1 /\ lineBuf' = Append(lineBuf, at + 1)
    BY <1>5 DEF ReadRune
  <2>2. d \in 0 .. at'
    BY <1>1, <2>1
  <2>3. LineAfter(lineBuf', d)
    BY <1>1, <1>2, <2>1, AppendAfter
  <2> QED BY <1>2, <1>5, <2>2, <2>3 DEF Sorted
<1>6. ASSUME lineBuf' = <<>>, NEW a, NEW line, NEW segs, NEW map,
             EndsWith(a, line, segs, map), Ended(Rd(buf), line, segs, map)
      PROVE  Sorted'
  <2>1. /\ a \in Nat /\ d <= a /\ line \in Seq(RunesOf(content)) /\ LineAfter(line, d)
        /\ \A k \in 1 .. Len(line) : line[k] <= a
    BY <1>2, <1>6, EndedInOrder
  <2>2. a = at' /\ at' \in 0 .. at' /\ LineAfter(lineBuf', at')
    <3>1. a = at'
      BY <1>6 DEF EndsWith
    <3>2. Len(lineBuf') = 0
      BY <1>6
    <3> QED BY <2>1, <3>1, <3>2 DEF LineAfter
  <2>3. PICK r : r = Rd(buf)
    OBVIOUS
  <2>4. PICK r2 : r2 = Rd(buf')
    OBVIOUS
  <2>5. Exact(r2.links, r2.seen, a)
    <3>1. CASE Shows(buf', r)
      <4>1. r2.links = r.links /\ r2.seen \subseteq r.seen
        BY <2>4, <3>1 DEF Shows, Outside
      <4>2. Exact(r2.links, r2.seen, d)
        BY <1>2, <2>3, <4>1, ExactFewer
      <4>3. d \in Nat
        BY <1>1
      <4> QED BY <2>1, <4>2, <4>3, ExactLater
    <3>2. CASE PutOut(buf', r.links, r.text, r.seen, line, segs, map)
      <4>0. PICK f : \E links \in Kept(VisibleRanges(content, line)) :
              Outside(buf', <<>>, r.links \cup NewLinks(line, links, Len(links)), r.text \o NewText(segs, line),
                      r.seen \cup NewGlyphs(line, ReadyOf(segs, line), f, links))
        BY <3>2 DEF PutOut
      <4>1. PICK links \in Kept(VisibleRanges(content, line)) :
              Outside(buf', <<>>, r.links \cup NewLinks(line, links, Len(links)), r.text \o NewText(segs, line),
                      r.seen \cup NewGlyphs(line, ReadyOf(segs, line), f, links))
        BY <4>0
      <4>2. PICK ready : ready = ReadyOf(segs, line)
        OBVIOUS
      <4>3. d \in Nat /\ Exact(r.links, r.seen, d)
        BY <1>1, <1>2, <2>3
      <4>4. Exact(r.links \cup NewLinks(line, links, Len(links)), r.seen \cup NewGlyphs(line, ready, f, links), a)
        BY <1>1, <2>1, <4>3, ExactGrows
      <4>5. r2.links = r.links \cup NewLinks(line, links, Len(links))
            /\ r2.seen \subseteq r.seen \cup NewGlyphs(line, ready, f, links)
        BY <2>4, <4>1, <4>2 DEF Outside
      <4> QED BY <4>4, <4>5, ExactFewer
    <3> QED BY <1>6, <2>3, <3>1, <3>2 DEF Ended
  <2> QED BY <2>2, <2>4, <2>5 DEF Sorted
<1> QED BY <1>3, <1>4, <1>5, <1>6, EndingStep

\* It holds at first.
LEMMA SortedInit == RendererInit => Sorted
<1> SUFFICES ASSUME RendererInit PROVE Sorted
  OBVIOUS
<1>1. Rd(buf) = Blank /\ at = 0 /\ lineBuf = <<>>
  BY RdEmpty DEF RendererInit
<1>2. Len(lineBuf) = 0 /\ 0 \in 0 .. at
  BY <1>1
<1> QED BY <1>1, <1>2 DEF Sorted, Blank, Exact, LineAfter

\* For every article, finder and division into segments, the text in a link
\* is all of the text that was found and nothing else, in whatever segments
\* it begins and ends.
THEOREM EveryLinkIsExact == RendererSpec => []LinksAreExact
<1>1. RendererSpec => [](RendererInv /\ Settled /\ Sorted)
  BY RendererStarts, RendererTypeStep, SettledInit, SettledStep, SortedInit, SortedStep, PTL DEF RendererSpec
<1>2. RendererInv /\ Settled /\ Sorted => LinksAreExact
  <2> SUFFICES ASSUME RendererInv, Settled, Sorted PROVE LinksAreExact
    OBVIOUS
  <2>1. PICK r : r = Rd(buf)
    OBVIOUS
  <2>2. ReaderOf(buf) = r
    BY <2>1, ReaderIs DEF Settled, Shows, Outside
  <2>3. PICK d : Exact(r.links, r.seen, d)
    BY <2>1 DEF Sorted
  <2>4. ASSUME NEW link \in r.links, NEW g \in r.seen
        PROVE  g.link = link <=> g.where[1] \in link[1] .. link[2]
    <3>1. link[1] \in Nat /\ link[2] \in Nat /\ g.where[1] \in Nat
      BY <2>3 DEF Exact
    <3>2. g.link = link <=> InLinkOf(link, g)
      BY <2>3 DEF Exact
    <3> QED BY <3>1, <3>2 DEF InLinkOf
  <2> QED BY <2>2, <2>4 DEF LinksAreExact
<1> QED BY <1>1, <1>2, PTL

-----------------------------------------------------------------------------
(* The colours of the article *)

\* The places of the article.
PlacesIn(c) == 1 .. Len(c)
\* What a token does to the terminal.
PassFn(c) ==
  [x \in TerminalStates \X PlacesIn(c) |->
     IF c[x[2]].kind = "escape" THEN ApplyNums(x[1], c[x[2]].nums) ELSE x[1]]
\* The state of the terminal at n: StateAt, as a typed fold.
St(c, n) == FoldFn(TerminalStates, PassFn(c), ResetState, Steps(n))

\* The state at first.
LEMMA ResetType == ResetState \in TerminalStates
  BY DEF TerminalStates, ResetState, Color, NoFlags, Highlighted, DefaultFg, DefaultBg

\* A token takes states to states.
LEMMA PassFnType ==
  ASSUME NEW c \in Seq(Tokens)
  PROVE  IsOp(TerminalStates, PlacesIn(c), PassFn(c))
<1>1. ASSUME NEW t \in TerminalStates, NEW p \in PlacesIn(c)
      PROVE  (IF c[p].kind = "escape" THEN ApplyNums(t, c[p].nums) ELSE t) \in TerminalStates
  <2>1. c[p] \in Tokens
    BY DEF PlacesIn
  <2>2. c[p].nums \in Seq(Nat)
    <3>1. <<>> \in Seq(Nat)
      OBVIOUS
    <3> QED BY <2>1, <3>1 DEF Tokens
  <2> QED BY <2>2, ApplyNumsType
<1> QED BY <1>1 DEF IsOp, PassFn

\* The places up to n.
LEMMA PlaceSteps ==
  ASSUME NEW c \in Seq(Tokens), NEW n \in 0 .. Len(c)
  PROVE  /\ Steps(n) \in Seq(PlacesIn(c)) /\ Len(Steps(n)) = n
         /\ DOMAIN Steps(n) = 1 .. n /\ \A k \in 1 .. n : Steps(n)[k] = k
<1>1. n \in Nat /\ \A k \in 1 .. n : k \in 1 .. Len(c)
  OBVIOUS
<1> QED BY <1>1 DEF Steps, PlacesIn

\* Nothing is read.
LEMMA StZero ==
  ASSUME NEW c \in Seq(Tokens)
  PROVE  St(c, 0) = ResetState
<1>1. PICK s \in Seq(PlacesIn(c)) : s = Steps(0) /\ Len(s) = 0
  <2>1. 0 \in 0 .. Len(c)
    OBVIOUS
  <2> QED BY <2>1, PlaceSteps
<1>2. FoldFn(TerminalStates, PassFn(c), ResetState, s) = ResetState
  BY <1>1, PassFnType, ResetType, FoldFnEmpty
<1> QED BY <1>1, <1>2 DEF St

\* One more token.
LEMMA StNext ==
  ASSUME NEW c \in Seq(Tokens), NEW n \in 1 .. Len(c)
  PROVE  /\ St(c, n - 1) \in TerminalStates /\ St(c, n) \in TerminalStates
         /\ St(c, n) = IF c[n].kind = "escape" THEN ApplyNums(St(c, n - 1), c[n].nums) ELSE St(c, n - 1)
<1>1. PICK s \in Seq(PlacesIn(c)) : s = Steps(n) /\ Len(s) = n /\ s[n] = n
  <2>1. n \in 0 .. Len(c) /\ n \in 1 .. n
    OBVIOUS
  <2> QED BY <2>1, PlaceSteps
<1>2. PICK op : op = PassFn(c)
  OBVIOUS
<1>3. IsOp(TerminalStates, PlacesIn(c), op)
  BY <1>2, PassFnType
<1>4. SubSeq(s, 1, n - 1) = Steps(n - 1)
  <2>1. n - 1 \in 0 .. n /\ n \in Nat
    OBVIOUS
  <2> QED BY <1>1, <2>1, StepsCut DEF Lengths
<1>5. SubSeq(s, 1, n) = s
  BY <1>1
<1>6. n \in 1 .. Len(s)
  BY <1>1
<1>7. /\ FoldFn(TerminalStates, op, ResetState, SubSeq(s, 1, n - 1)) \in TerminalStates
      /\ FoldFn(TerminalStates, op, ResetState, SubSeq(s, 1, n))
           = op[<<FoldFn(TerminalStates, op, ResetState, SubSeq(s, 1, n - 1)), s[n]>>]
  BY <1>3, <1>6, ResetType, FoldFnPrefix
<1>8. St(c, n - 1) \in TerminalStates /\ St(c, n) = op[<<St(c, n - 1), n>>]
  BY <1>1, <1>2, <1>4, <1>5, <1>7 DEF St
<1>9. n \in PlacesIn(c)
  BY DEF PlacesIn
<1>10. op[<<St(c, n - 1), n>>] = IF c[n].kind = "escape" THEN ApplyNums(St(c, n - 1), c[n].nums) ELSE St(c, n - 1)
  <2>1. \A t \in TerminalStates : op[<<t, n>>] = IF c[n].kind = "escape" THEN ApplyNums(t, c[n].nums) ELSE t
    BY <1>2, <1>9 DEF PassFn
  <2> QED BY <1>8, <2>1
<1>11. op[<<St(c, n - 1), n>>] \in TerminalStates
  BY <1>3, <1>8, <1>9 DEF IsOp
<1> QED BY <1>8, <1>10, <1>11

\* It is what StateAt computes.
LEMMA StateAtIs ==
  ASSUME content \in Seq(Tokens), NEW n \in 0 .. Len(content)
  PROVE  StateAt(n) = St(content, n)
<1>1. PICK s \in Seq(PlacesIn(content)) : s = Steps(n)
  <2>1. Steps(n) \in Seq(PlacesIn(content))
    BY PlaceSteps
  <2> QED BY <2>1, Zenon
<1>2. PICK op : op = PassFn(content)
  OBVIOUS
<1>3. IsOp(TerminalStates, PlacesIn(content), op)
  BY <1>2, PassFnType
<1>4. PICK b \in TerminalStates : b = ResetState
  BY ResetType
<1> DEFINE Pass(t, p) == IF content[p].kind = "escape" THEN ApplyNums(t, content[p].nums) ELSE t
           Good(it) == it = [r \in SUBSET (DOMAIN s) |->
                               IF r = {} THEN b ELSE Pass(it[r \ {Max(r)}], s[Max(r)])]
           it == CHOOSE it : Good(it)
<1>5. StateAt(n) = it[DOMAIN s]
  BY <1>1, <1>4 DEF StateAt, Steps, FoldLeft, MapThenFoldSet
<1>6. PICK g \in Iterates(TerminalStates, PlacesIn(content), op, b, s) : TRUE
  BY <1>3, IterateExists
<1>7. Good(g)
  BY <1>2, <1>6 DEF Iterates, PassFn
<1>8. Good(it)
  BY <1>7
<1> HIDE DEF it
<1>9. Iterated(TerminalStates, op, b, s, it)
  <2> SUFFICES ASSUME NEW r \in SUBSET (DOMAIN s)
               PROVE  /\ r = {} => it[r] = b
                      /\ r # {} /\ it[r \ {Max(r)}] \in TerminalStates
                           => it[r] = op[<<it[r \ {Max(r)}], s[Max(r)]>>]
    BY DEF Iterated
  <2>1. it[r] = IF r = {} THEN b ELSE Pass(it[r \ {Max(r)}], s[Max(r)])
    BY <1>8
  <2>2. r # {} => s[Max(r)] \in PlacesIn(content)
    BY <1>6 DEF Iterates
  <2> QED BY <1>2, <2>1, <2>2 DEF PassFn
<1>10. it[DOMAIN s] = FoldFn(TerminalStates, op, b, s)
  BY <1>3, <1>9, IteratedIsFold
<1> QED BY <1>1, <1>2, <1>4, <1>5, <1>10 DEF St

\* Every byte of a segment has the colours of the segment.
Painted(c, segs) ==
  \A i \in 1 .. Len(segs) : \A n \in 1 .. Len(segs[i].bytes) :
    segs[i].look.state = St(c, segs[i].bytes[n].where[1])

\* A new segment has no bytes,
LEMMA PaintedStart ==
  ASSUME NEW c, NEW segs \in Seq(SegmentSet), NEW closed \in BOOLEAN, closed <=> segs = <<>>,
         NEW u \in TerminalStates, Painted(c, segs)
  PROVE  Painted(c, Started(segs, closed, u))
<1>1. PICK s : s = Segment(<<>>, u)
  OBVIOUS
<1>2. s \in SegmentSet /\ s.bytes = <<>> /\ Len(s.bytes) = 0
  <2>1. s \in SegmentSet /\ s.bytes = <<>>
    BY <1>1, SegmentType
  <2>2. Len(<<>>) = 0
    OBVIOUS
  <2> QED BY <2>1, <2>2
<1>3. PICK new : new = Started(segs, closed, u)
  OBVIOUS
<1>4. \A i \in 1 .. Len(new) : new[i] = s \/ (i \in 1 .. Len(segs) /\ new[i] = segs[i])
  <2>1. CASE closed
    <3>1. new = Append(segs, s)
      BY <1>1, <1>3, <2>1 DEF Started
    <3> QED BY <1>2, <3>1
  <2>2. CASE ~closed /\ Last(segs).len # 0
    <3>1. new = Append(segs, s)
      BY <1>1, <1>3, <2>2 DEF Started, EndSegment
    <3> QED BY <1>2, <3>1
  <2>3. CASE ~closed /\ Last(segs).len = 0
    <3>1. Len(segs) \in Nat /\ Len(segs) > 0 /\ Len(segs) - 1 \in 0 .. Len(segs)
      BY <2>3
    <3>2. PICK cut \in Seq(SegmentSet) : cut = SubSeq(segs, 1, Len(segs) - 1)
      <4>1. SubSeq(segs, 1, Len(segs) - 1) \in Seq(SegmentSet)
        BY <3>1, PrefixOf
      <4> QED BY <4>1, Zenon
    <3>3. Len(cut) = Len(segs) - 1 /\ \A i \in 1 .. Len(segs) - 1 : cut[i] = segs[i]
      BY <3>1, <3>2, PrefixOf
    <3>4. new = Append(cut, s)
      BY <1>1, <1>3, <2>3, <3>2 DEF Started, EndSegment, Front
    <3>5. Len(new) = Len(segs) /\ new[Len(segs)] = s /\ \A i \in 1 .. Len(segs) - 1 : new[i] = segs[i]
      BY <1>2, <3>1, <3>3, <3>4
    <3> QED BY <3>1, <3>5
  <2> QED BY <2>1, <2>2, <2>3
<1>5. ASSUME NEW i \in 1 .. Len(new), NEW n \in 1 .. Len(new[i].bytes)
      PROVE  new[i].look.state = St(c, new[i].bytes[n].where[1])
  <2>1. CASE new[i] = s
    <3>1. Len(new[i].bytes) = 0
      BY <1>2, <2>1
    <3> QED BY <3>1
  <2>2. CASE i \in 1 .. Len(segs) /\ new[i] = segs[i]
    BY <2>2 DEF Painted
  <2> QED BY <1>4, <2>1, <2>2
<1> QED BY <1>3, <1>5 DEF Painted

\* has the look of the terminal when runes are written,
LEMMA PaintedCurr ==
  ASSUME RendererInv, Painted(content, lineSegs)
  PROVE  /\ Painted(content, WithCurrSeg) /\ WithCurrSeg \in Seq(SegmentSet) /\ WithCurrSeg # <<>>
         /\ WithCurrSeg[Len(WithCurrSeg)].look.state = terminalState
<1>1. LineOK(content, at, lineBuf, lineSegs, segClosed, mapper, terminalState)
  BY DEF RendererInv
<1>2. terminalState \in TerminalStates /\ segClosed \in BOOLEAN /\ (segClosed <=> lineSegs = <<>>)
      /\ lineSegs \in Seq(SegmentSet)
  BY <1>1 DEF LineOK
<1>3. Painted(content, WithCurrSeg)
  <2>1. CASE lineSegs = <<>>
    <3>1. WithCurrSeg = Started(lineSegs, segClosed, terminalState)
      BY <2>1 DEF WithCurrSeg, StartSegment, Started
    <3> QED BY <1>2, <3>1, PaintedStart
  <2>2. CASE lineSegs # <<>>
    BY <1>2, <2>2 DEF WithCurrSeg
  <2> QED BY <2>1, <2>2
<1>4. WithCurrSeg # <<>> /\ LineOK(content, at, lineBuf, WithCurrSeg, FALSE, mapper, terminalState)
  BY CurrSegOK
<1> QED BY <1>3, <1>4 DEF LineOK

\* and so has every byte in it.
LEMMA PaintedWrite ==
  ASSUME NEW c \in Seq(Tokens), NEW segs \in Seq(SegmentSet), segs # <<>>, NEW p \in RunesOf(c), Painted(c, segs),
         segs[Len(segs)].look.state = St(c, p)
  PROVE  Painted(c, WrittenTo(c, segs, p))
<1>1. PICK new : new = WrittenTo(c, segs, p)
  OBVIOUS
<1>2. PICK N \in Nat : N = Len(segs)
  OBVIOUS
<1>3. PICK b \in Seq(ByteSet) : b = RuneBytes(c, p)
  BY RuneBytesType
<1>4. IsWritten(new, segs, N, b)
  BY <1>1, <1>2, <1>3, WrittenSegs
<1>5. N \in 1 .. N /\ segs[N] \in SegmentSet
  <2>1. N # 0
    BY <1>2
  <2> QED BY <1>2, <2>1
<1>6. PICK old \in Seq(ByteSet) : old = segs[N].bytes
  BY <1>5 DEF SegmentSet
<1>7. new[N].bytes = old \o b /\ new[N].look = segs[N].look /\ Len(new) = N
      /\ \A i \in 1 .. N - 1 : new[i] = segs[i]
  BY <1>4, <1>6 DEF IsWritten
<1>8. ASSUME NEW i \in 1 .. N, NEW n \in 1 .. Len(new[i].bytes)
      PROVE  new[i].look.state = St(c, new[i].bytes[n].where[1])
  <2>1. CASE i # N
    <3>1. i \in 1 .. N - 1
      BY <2>1
    <3>2. new[i] = segs[i] /\ i \in 1 .. Len(segs)
      BY <1>2, <1>7, <3>1
    <3> QED BY <3>2 DEF Painted
  <2>2. CASE i = N
    <3>1. n \in 1 .. Len(old \o b) /\ new[i].bytes[n] = (old \o b)[n]
      BY <1>7, <2>2
    <3>2. CASE n \in 1 .. Len(old)
      <4>1. (old \o b)[n] = old[n]
        BY <3>1, <3>2
      <4>2. segs[N].look.state = St(c, segs[N].bytes[n].where[1])
        BY <1>2, <1>5, <1>6, <3>2 DEF Painted
      <4> QED BY <1>6, <1>7, <2>2, <3>1, <4>1, <4>2
    <3>3. CASE n \notin 1 .. Len(old)
      <4>1. PICK m \in 1 .. Len(b) : (old \o b)[n] = b[m]
        <5>1. Len(old) \in Nat /\ Len(b) \in Nat /\ Len(old \o b) = Len(old) + Len(b)
          OBVIOUS
        <5>2. n - Len(old) \in 1 .. Len(b) /\ (old \o b)[n] = b[n - Len(old)]
          BY <3>1, <3>3, <5>1
        <5> QED BY <5>2
      <4>2. b[m] = Byte(p, m)
        BY <1>3, RuneBytesType
      <4>3. b[m].where[1] = p
        BY <4>2 DEF Byte, Html
      <4> QED BY <1>2, <1>7, <2>2, <3>1, <4>1, <4>3
    <3> QED BY <3>2, <3>3
  <2> QED BY <2>1, <2>2
<1> QED BY <1>1, <1>7, <1>8 DEF Painted

\* So has every rune of a line.
LEMMA RunePainted ==
  ASSUME NEW c \in Seq(Tokens), NEW line \in Seq(RunesOf(c)), NEW segs \in Seq(SegmentSet), NEW map, NEW f,
         Divided(c, line, segs, map, f), Painted(c, segs), NEW x \in 1 .. Len(line),
         NEW i \in 1 .. Len(segs), f[i] <= x, x < f[i + 1]
  PROVE  segs[i].look.state = St(c, line[x])
<1>1. PICK off : off = Len(HtmlFrom(c, line, f[i], x))
  OBVIOUS
<1>2. Holds(c, line, segs[i], map, i, f[i + 1], x, off)
  BY <1>1, RuneIsHeld
<1>3. PICK r : r = RuneBytes(c, line[x])
  OBVIOUS
<1>4. off \in Nat /\ Len(r) \in 1 .. 3 /\ off + Len(r) <= Len(segs[i].bytes)
      /\ \A j \in 1 .. Len(r) : segs[i].bytes[off + j] = r[j]
  BY <1>2, <1>3 DEF Holds
<1>5. segs[i].bytes \in Seq(ByteSet)
  <2>1. segs[i] \in SegmentSet
    OBVIOUS
  <2> QED BY <2>1 DEF SegmentSet
<1>6. Len(segs[i].bytes) \in Nat
  BY <1>5
<1>7. 1 \in 1 .. Len(r) /\ off + 1 \in 1 .. Len(segs[i].bytes)
  <2>1. PICK m \in 1 .. 3 : m = Len(r)
    BY <1>4
  <2>2. PICK L \in Nat : L = Len(segs[i].bytes)
    BY <1>6
  <2>3. off + m <= L /\ off \in Nat
    BY <1>4, <2>1, <2>2
  <2>4. 1 \in 1 .. m /\ off + 1 \in 1 .. L
    BY <2>3
  <2> QED BY <2>1, <2>2, <2>4
<1>8. line[x] \in RunesOf(c)
  OBVIOUS
<1>9. r[1] = Byte(line[x], 1)
  BY <1>3, <1>7, <1>8, RuneBytesType
<1>10. r[1].where[1] = line[x]
  BY <1>9 DEF Byte, Html
<1>11. segs[i].bytes[off + 1].where[1] = line[x]
  BY <1>4, <1>7, <1>10
<1> QED BY <1>7, <1>11 DEF Painted

\* What of a look can be seen.
SameColours(t, u) ==
  t.fg = u.fg /\ t.bg = u.bg /\ (HasFlags(t, Highlighted) <=> HasFlags(u, Highlighted))
\* What is shown has the colours of the article, but in quotes.
ColouredAs(G) == \A g \in G : InQuote(g.where[1]) \/ SameColours(g.look.state, St(content, g.where[1]))

\* No newline is in a line before its end.
Unbroken(line, a) == line # <<>> => \A p \in line[1] .. a : content[p].class # "newline"

\* The segments have the look of the terminal at each of their bytes.
Coloured ==
  /\ terminalState = St(content, at)
  /\ Painted(content, lineSegs) /\ Unbroken(lineBuf, at) /\ ColouredAs(Rd(buf).seen)

\* A look without a span is that of the page.
LEMMA ShownColours ==
  ASSUME NEW look \in Looks
  PROVE  SameColours(ShownLook(look).state, look.state)
<1>1. CASE Styled(look)
  BY <1>1 DEF ShownLook, SameColours
<1>2. CASE ~Styled(look)
  <2>1. look.state.fg = DefaultFg /\ look.state.bg = DefaultBg /\ ~HasFlags(look.state, Highlighted)
    BY <1>2 DEF Styled
  <2>2. ShownLook(look).state = ResetState
    BY <1>2 DEF ShownLook, NoLook
  <2>3. ResetState.fg = DefaultFg /\ ResetState.bg = DefaultBg /\ ~HasFlags(ResetState, Highlighted)
    BY DEF ResetState, Color, HasFlags, NoFlags, Highlighted
  <2> QED BY <2>1, <2>2, <2>3 DEF SameColours
<1> QED BY <1>1, <1>2

\* What is shown of a line has its colours.
LEMMA NewGlyphColours ==
  ASSUME content \in Seq(Tokens), NEW a, NEW line, NEW segs, NEW closed, NEW map, NEW t,
         LineOK(content, a, line, segs, closed, map, t), Len(line) > 0,
         NEW f, Divided(content, line, segs, map, f), Painted(content, segs), LineAfter(line, 0),
         \A x \in 1 .. Len(line) : \A p \in line[1] .. line[x] - 1 : content[p].class # "newline",
         NEW links
  PROVE  ColouredAs(NewGlyphs(line, ReadyOf(segs, line), f, links))
<1> SUFFICES ASSUME NEW g \in NewGlyphs(line, ReadyOf(segs, line), f, links)
             PROVE  InQuote(g.where[1]) \/ SameColours(g.look.state, St(content, g.where[1]))
  BY DEF ColouredAs
<1>1. /\ line \in Seq(RunesOf(content)) /\ segs \in Seq(SegmentSet)
      /\ \A i \in 1 .. Len(segs) : segs[i].len = Len(segs[i].bytes)
  BY DEF LineOK
<1>2. Len(segs) > 0
  BY FirstSegment
<1>3. PICK ready : ready = ReadyOf(segs, line)
  OBVIOUS
<1>4. /\ Ready(content, segs, ready)
      /\ \A i \in 1 .. Len(segs) :
           ready[i].look.state = IF IsQuote(line) /\ i = 1 THEN QuoteState ELSE segs[i].look.state
  BY <1>1, <1>2, <1>3, ReadyKept
<1>5. ready \in Seq(ReadySegs) /\ Len(ready) = Len(segs)
  BY <1>4 DEF Ready
<1>6. PICK x \in 1 .. Len(line) : \E i \in 1 .. Len(ready) :
        /\ f[i] <= x /\ x < f[i + 1] /\ g.where[1] = line[x] /\ g.look = ShownLook(ready[i].look)
  BY <1>3 DEF NewGlyphs
<1>7. PICK i \in 1 .. Len(ready) :
        /\ f[i] <= x /\ x < f[i + 1] /\ g.where[1] = line[x] /\ g.look = ShownLook(ready[i].look)
  BY <1>6
<1>8. i \in 1 .. Len(segs)
  BY <1>5
<1>9. segs[i].look.state = St(content, line[x])
  BY <1>1, <1>7, <1>8, RunePainted
<1>10. ready[i].look \in Looks
  BY <1>5, SegFields
<1>11. SameColours(g.look.state, ready[i].look.state)
  BY <1>7, <1>10, ShownColours
<1>12. CASE ~(IsQuote(line) /\ i = 1)
  <2>1. ready[i].look.state = segs[i].look.state
    BY <1>4, <1>8, <1>12
  <2>2. ready[i].look.state = St(content, g.where[1])
    BY <1>7, <1>9, <2>1
  <2> QED BY <1>11, <2>2
<1>13. CASE IsQuote(line) /\ i = 1
  <2>1. 1 \in 1 .. Len(line) /\ 1 <= x
    <3>1. Len(line) \in Nat
      BY <1>1
    <3> QED BY <3>1
  <2>2. content[line[1]].class = "quote"
    BY <1>13 DEF IsQuote, ClassAt
  <2>3. line[1] \in Nat /\ line[x] \in Nat /\ line[1] <= line[x] /\ 0 < line[1]
    BY <1>1, <2>1, LineOrder
  <2>4. line[1] \in 1 .. line[x]
    BY <2>3
  <2>5. \A p \in line[1] .. line[x] - 1 : content[p].class # "newline"
    OBVIOUS
  <2>6. InQuote(line[x])
    BY <2>2, <2>4, <2>5 DEF InQuote
  <2> QED BY <1>7, <2>6
<1> QED BY <1>12, <1>13

\* The line of a step that ends it, with its colours.
LEMMA EndedInColour ==
  ASSUME RendererInv, Coloured, NEW a, NEW line, NEW segs, NEW map, EndsWith(a, line, segs, map)
  PROVE  /\ Painted(content, segs)
         /\ \A x \in 1 .. Len(line) : \A p \in line[1] .. line[x] - 1 : content[p].class # "newline"
<1>1. /\ content \in Seq(Tokens) /\ at \in 0 .. Len(content) /\ at \in Nat /\ lineBuf \in Seq(RunesOf(content))
      /\ Painted(content, lineSegs) /\ Unbroken(lineBuf, at) /\ terminalState = St(content, at)
  BY DEF RendererInv, LineOK, Coloured
<1>2. line \in Seq(RunesOf(content)) /\ \A k \in 1 .. Len(line) : line[k] <= a
  BY DEF EndsWith, LineOK
<1>3. \A k \in 1 .. Len(line) : line[k] \in Nat
  <2> SUFFICES ASSUME NEW k \in 1 .. Len(line) PROVE line[k] \in Nat
    OBVIOUS
  <2>1. line[k] \in RunesOf(content)
    BY <1>2
  <2> QED BY <1>1, <2>1, RuneType
<1>4. CASE a = at /\ line = lineBuf /\ segs = lineSegs
  <2>1. ASSUME NEW x \in 1 .. Len(line), NEW p \in line[1] .. line[x] - 1
        PROVE  content[p].class # "newline"
    <3>1. lineBuf # <<>> /\ 1 \in 1 .. Len(line)
      <4>1. Len(line) \in Nat
        BY <1>2
      <4> QED BY <1>4, <4>1
    <3>2. line[1] \in Nat /\ line[x] \in Nat /\ line[x] <= at
      BY <1>2, <1>3, <1>4, <3>1
    <3>3. p \in lineBuf[1] .. at
      BY <1>1, <1>4, <3>2
    <3> QED BY <1>1, <3>1, <3>3 DEF Unbroken
  <2> QED BY <1>1, <1>4, <2>1
<1>5. CASE /\ a = at + 1 /\ a <= Len(content) /\ content[a].kind = "rune" /\ content[a].class = "newline"
           /\ line = Append(lineBuf, a) /\ segs = Written(WithCurrSeg, a)
  <2>1. a \in 1 .. Len(content) /\ a \in RunesOf(content) /\ a - 1 = at
    BY <1>1, <1>5 DEF RunesOf
  <2>2. St(content, a) = terminalState
    BY <1>1, <1>5, <2>1, StNext
  <2>3. PICK curr : curr = WithCurrSeg
    OBVIOUS
  <2>4. Painted(content, curr) /\ curr \in Seq(SegmentSet) /\ curr # <<>>
        /\ curr[Len(curr)].look.state = terminalState
    BY <1>1, <2>3, PaintedCurr
  <2>5. Painted(content, WrittenTo(content, curr, a))
    BY <1>1, <2>1, <2>2, <2>4, PaintedWrite
  <2>6. segs = WrittenTo(content, curr, a)
    BY <1>5, <2>3 DEF Written, WrittenTo, RuneBytes, ClassAt
  <2>7. ASSUME NEW x \in 1 .. Len(line), NEW p \in line[1] .. line[x] - 1
        PROVE  content[p].class # "newline"
    <3>1. 1 \in 1 .. Len(line)
      <4>1. Len(line) \in Nat
        BY <1>2
      <4> QED BY <4>1
    <3>2. line[1] \in Nat /\ line[x] \in Nat /\ line[x] <= a
      BY <1>2, <1>3, <3>1
    <3>3. CASE lineBuf = <<>>
      <4>1. line[1] = a
        BY <1>5, <3>3
      <4> QED BY <3>2, <4>1, <1>1, <1>5
    <3>4. CASE lineBuf # <<>>
      <4>1. Len(lineBuf) \in Nat /\ Len(lineBuf) # 0
        BY <1>1, <3>4
      <4>2. line[1] = lineBuf[1]
        BY <1>1, <1>5, <4>1
      <4>3. p \in lineBuf[1] .. at
        BY <1>1, <1>5, <3>2, <4>2
      <4> QED BY <1>1, <3>4, <4>3 DEF Unbroken
    <3> QED BY <3>3, <3>4
  <2> QED BY <2>5, <2>6, <2>7
<1> QED BY <1>4, <1>5 DEF EndsWith

\* No text, no colours.
LEMMA ColouredInit == RendererInit => Coloured
<1> SUFFICES ASSUME RendererInit PROVE Coloured
  OBVIOUS
<1>1. /\ content \in Seq(Tokens) /\ Rd(buf) = Blank /\ at = 0 /\ lineBuf = <<>> /\ lineSegs = <<>>
      /\ terminalState = ResetState
  BY RendererAssumption, RdEmpty DEF RendererInit
<1>2. terminalState = St(content, at)
  BY <1>1, StZero
<1>3. Painted(content, lineSegs)
  <2>1. Len(lineSegs) = 0
    BY <1>1
  <2> QED BY <2>1 DEF Painted
<1> QED BY <1>1, <1>2, <1>3 DEF Coloured, Unbroken, ColouredAs, Blank

\* An escape sequence changes the state from there on.
LEMMA ColouredEscape ==
  ASSUME RendererInv, Coloured, UNCHANGED buf, ReadEscape
  PROVE  Coloured'
<1>1. /\ content \in Seq(Tokens) /\ at \in 0 .. Len(content) /\ at \in Nat /\ lineBuf \in Seq(RunesOf(content))
      /\ lineSegs \in Seq(SegmentSet) /\ terminalState \in TerminalStates
      /\ segClosed \in BOOLEAN /\ (segClosed <=> lineSegs = <<>>)
      /\ Painted(content, lineSegs) /\ Unbroken(lineBuf, at) /\ terminalState = St(content, at)
      /\ ColouredAs(Rd(buf).seen)
  BY DEF RendererInv, LineOK, Coloured
<1>2. /\ at < Len(content) /\ content[at + 1].kind = "escape" /\ at' = at + 1
      /\ terminalState' = ApplyNums(terminalState, content[at + 1].nums)
      /\ UNCHANGED <<content, lineBuf>>
  BY DEF ReadEscape
<1>3. PICK a \in 1 .. Len(content) : a = at + 1 /\ a - 1 = at
  BY <1>1, <1>2
<1>4. terminalState' = St(content, a)
  BY <1>1, <1>2, <1>3, StNext
<1>5. Painted(content, lineSegs')
  <2>1. PICK u : u = terminalState'
    OBVIOUS
  <2>2. u \in TerminalStates
    BY <1>1, <1>3, <1>4, <2>1, StNext
  <2>3. lineSegs' = IF segClosed \/ u # Last(lineSegs).look.state
                    THEN Started(lineSegs, segClosed, u) ELSE lineSegs
    BY <2>1 DEF ReadEscape, StartSegment, Started
  <2>4. Painted(content, Started(lineSegs, segClosed, u))
    BY <1>1, <2>2, PaintedStart
  <2> QED BY <1>1, <2>3, <2>4
<1>6. Unbroken(lineBuf, a)
  <2>1. content[a].class # "newline"
    <3>1. content[a] \in Tokens
      BY <1>1
    <3>2. content[a].kind = "escape"
      BY <1>2, <1>3
    <3>3. content[a].class = "none"
      BY <3>1, <3>2 DEF Tokens
    <3> QED BY <3>3
  <2>2. \A p \in Int : p <= a => p = a \/ p <= at
    BY <1>1, <1>3
  <2>3. SUFFICES ASSUME lineBuf # <<>>, NEW p \in lineBuf[1] .. a
                 PROVE  content[p].class # "newline"
    BY DEF Unbroken
  <2>4. lineBuf[1] \in Nat
    <3>1. Len(lineBuf) \in Nat /\ Len(lineBuf) # 0
      BY <1>1, <2>3
    <3>2. lineBuf[1] \in RunesOf(content)
      BY <1>1, <3>1
    <3> QED BY <1>1, <3>2, RuneType
  <2>5. p = a \/ p \in lineBuf[1] .. at
    BY <1>1, <1>3, <2>3, <2>4
  <2> QED BY <1>1, <2>1, <2>3, <2>5 DEF Unbroken
<1>7. terminalState' = St(content', at') /\ Painted(content', lineSegs')
  BY <1>2, <1>3, <1>4, <1>5
<1>10. Unbroken(lineBuf, at)'
  BY <1>2, <1>3, <1>6 DEF Unbroken
<1>11. ColouredAs(Rd(buf).seen)'
  BY <1>1, <1>2 DEF ColouredAs, InQuote
<1> QED BY <1>7, <1>10, <1>11 DEF Coloured

\* A rune has the state at its place.
LEMMA ColouredRune ==
  ASSUME RendererInv, Coloured, UNCHANGED buf, ReadRune, content[at + 1].class # "newline"
  PROVE  Coloured'
<1>1. /\ content \in Seq(Tokens) /\ at \in 0 .. Len(content) /\ at \in Nat /\ lineBuf \in Seq(RunesOf(content))
      /\ Painted(content, lineSegs) /\ Unbroken(lineBuf, at) /\ terminalState = St(content, at)
      /\ ColouredAs(Rd(buf).seen)
  BY DEF RendererInv, LineOK, Coloured
<1>2. /\ at < Len(content) /\ content[at + 1].kind = "rune" /\ at' = at + 1
      /\ lineBuf' = Append(lineBuf, at + 1) /\ lineSegs' = Written(WithCurrSeg, at + 1)
      /\ UNCHANGED <<content, terminalState>>
  BY DEF ReadRune
<1>3. PICK a \in 1 .. Len(content) : a = at + 1 /\ a - 1 = at
  BY <1>1, <1>2
<1>4. a \in RunesOf(content)
  BY <1>2, <1>3 DEF RunesOf
<1>5. terminalState = St(content, a)
  BY <1>1, <1>2, <1>3, StNext
<1>6. Painted(content, lineSegs')
  <2>1. PICK curr : curr = WithCurrSeg
    OBVIOUS
  <2>2. Painted(content, curr) /\ curr \in Seq(SegmentSet) /\ curr # <<>>
        /\ curr[Len(curr)].look.state = terminalState
    BY <1>1, <2>1, PaintedCurr
  <2>3. Painted(content, WrittenTo(content, curr, a))
    BY <1>1, <1>4, <1>5, <2>2, PaintedWrite
  <2>4. lineSegs' = WrittenTo(content, curr, a)
    BY <1>2, <1>3, <2>1 DEF Written, WrittenTo, RuneBytes, ClassAt
  <2> QED BY <2>3, <2>4
<1>7. PICK new : new = Append(lineBuf, a)
  OBVIOUS
<1>8. Unbroken(new, a)
  <2>1. content[a].class # "newline"
    BY <1>3
  <2>2. SUFFICES ASSUME NEW p \in new[1] .. a PROVE content[p].class # "newline"
    BY DEF Unbroken
  <2>3. CASE lineBuf = <<>>
    <3>1. new[1] = a
      BY <1>7, <2>3
    <3>2. p = a
      BY <2>2, <3>1
    <3> QED BY <2>1, <3>2
  <2>4. CASE lineBuf # <<>>
    <3>1. Len(lineBuf) \in Nat /\ Len(lineBuf) # 0
      BY <1>1, <2>4
    <3>2. new[1] = lineBuf[1]
      BY <1>1, <1>7, <3>1
    <3>3. lineBuf[1] \in RunesOf(content)
      BY <1>1, <3>1
    <3>4. lineBuf[1] \in Nat
      BY <1>1, <3>3, RuneType
    <3>5. p = a \/ p \in lineBuf[1] .. at
      BY <1>1, <1>3, <2>2, <3>2, <3>4
    <3> QED BY <1>1, <2>1, <2>4, <3>5 DEF Unbroken
  <2> QED BY <2>3, <2>4
<1>9. lineBuf' = new /\ at' = a
  BY <1>2, <1>3, <1>7
<1>10. Unbroken(lineBuf, at)'
  BY <1>2, <1>8, <1>9 DEF Unbroken
<1>11. terminalState' = St(content', at') /\ Painted(content', lineSegs')
  BY <1>2, <1>5, <1>6, <1>9
<1>12. ColouredAs(Rd(buf).seen)'
  BY <1>1, <1>2 DEF ColouredAs, InQuote
<1> QED BY <1>10, <1>11, <1>12 DEF Coloured

\* The line is put out in its colours.
LEMMA ColouredEnd ==
  ASSUME RendererInv, Coloured, Sorted, UNCHANGED <<content, terminalState>>, lineBuf' = <<>>, lineSegs' = <<>>,
         NEW a, NEW line, NEW segs, NEW map, EndsWith(a, line, segs, map), Ended(Rd(buf), line, segs, map)
  PROVE  Coloured'
<1>1. /\ content \in Seq(Tokens) /\ at \in 0 .. Len(content) /\ at \in Nat
      /\ terminalState = St(content, at) /\ ColouredAs(Rd(buf).seen)
  BY DEF RendererInv, LineOK, Coloured
<1>2. PICK d \in 0 .. at : LineAfter(lineBuf, d)
  BY DEF Sorted
<1>3. /\ a \in Nat /\ line \in Seq(RunesOf(content)) /\ LineAfter(line, d)
  BY <1>2, EndedInOrder
<1>4. LineAfter(line, 0)
  <2>1. \A k \in 1 .. Len(line) : 0 < line[k]
    <3> SUFFICES ASSUME NEW k \in 1 .. Len(line) PROVE 0 < line[k]
      OBVIOUS
    <3>1. line[k] \in RunesOf(content)
      BY <1>3
    <3>2. line[k] \in 1 .. Len(content)
      BY <1>1, <3>1, RuneType
    <3> QED BY <1>1, <3>2
  <2> QED BY <1>3, <2>1 DEF LineAfter
<1>5. /\ Painted(content, segs)
      /\ \A x \in 1 .. Len(line) : \A p \in line[1] .. line[x] - 1 : content[p].class # "newline"
  BY EndedInColour
<1>6. LineOK(content, a, line, segs, FALSE, map, terminalState) /\ Len(line) > 0 /\ a = at'
  BY DEF EndsWith
<1>7. terminalState' = St(content', at')
  <2>1. CASE a = at
    BY <1>1, <1>6, <2>1
  <2>2. CASE a = at + 1 /\ a <= Len(content) /\ content[a].kind = "rune"
    <3>1. a \in 1 .. Len(content) /\ a - 1 = at
      BY <1>1, <2>2
    <3>2. St(content, a) = St(content, at)
      BY <1>1, <2>2, <3>1, StNext
    <3> QED BY <1>1, <1>6, <3>2
  <2> QED BY <2>1, <2>2 DEF EndsWith
<1>8. ColouredAs(Rd(buf').seen)
  <2>1. PICK r : r = Rd(buf)
    OBVIOUS
  <2>2. PICK r2 : r2 = Rd(buf')
    OBVIOUS
  <2>3. CASE Shows(buf', r)
    <3>1. r2.seen \subseteq r.seen
      BY <2>2, <2>3 DEF Shows, Outside
    <3> QED BY <1>1, <2>1, <2>2, <3>1 DEF ColouredAs
  <2>4. CASE PutOut(buf', r.links, r.text, r.seen, line, segs, map)
    <3>1. PICK f : /\ Divided(content, line, segs, map, f)
                   /\ \E links : Outside(buf', <<>>, r.links \cup NewLinks(line, links, Len(links)),
                                         r.text \o NewText(segs, line),
                                         r.seen \cup NewGlyphs(line, ReadyOf(segs, line), f, links))
      BY <2>4 DEF PutOut
    <3>2. PICK links : r2.seen \subseteq r.seen \cup NewGlyphs(line, ReadyOf(segs, line), f, links)
      BY <2>2, <3>1 DEF Outside
    <3>3. ColouredAs(NewGlyphs(line, ReadyOf(segs, line), f, links))
      BY <1>1, <1>4, <1>5, <1>6, <3>1, NewGlyphColours
    <3> QED BY <1>1, <2>1, <2>2, <3>2, <3>3 DEF ColouredAs
  <2> QED BY <2>1, <2>3, <2>4 DEF Ended
<1>9. Painted(content', lineSegs')
  <2>1. Len(lineSegs') = 0
    OBVIOUS
  <2> QED BY <2>1 DEF Painted
<1>10. Unbroken(lineBuf, at)'
  BY DEF Unbroken
<1>11. ColouredAs(Rd(buf).seen)'
  BY <1>8 DEF ColouredAs, InQuote
<1> QED BY <1>7, <1>9, <1>10, <1>11 DEF Coloured

\* Coloured is inductive, with RendererInv, Settled and Sorted.
LEMMA ColouredStep ==
  RendererInv /\ Settled /\ Sorted /\ Coloured /\ [RendererNext]_rendererVars => Coloured'
<1> SUFFICES ASSUME RendererInv, Settled, Sorted, Coloured, [RendererNext]_rendererVars PROVE Coloured'
  OBVIOUS
<1>1. CASE UNCHANGED rendererVars
  BY <1>1 DEF Coloured, Unbroken, ColouredAs, InQuote, rendererVars, lineVars, articleVars
<1> QED BY <1>1, EndingStep, ColouredEscape, ColouredRune, ColouredEnd

\* For every article, every rune is shown in the colours that the escape
\* sequences before it make, but those in quotes.
THEOREM EveryColourIsKept == RendererSpec => []ColoursAreKept
<1>1. RendererSpec => [](RendererInv /\ Settled /\ Sorted /\ Coloured)
  BY RendererStarts, RendererTypeStep, SettledInit, SettledStep, SortedInit, SortedStep, ColouredInit, ColouredStep,
     PTL DEF RendererSpec
<1>2. RendererInv /\ Settled /\ Sorted /\ Coloured => ColoursAreKept
  <2> SUFFICES ASSUME RendererInv, Settled, Sorted, Coloured PROVE ColoursAreKept
    OBVIOUS
  <2>1. content \in Seq(Tokens) /\ at \in 0 .. Len(content)
    BY DEF RendererInv, LineOK
  <2>2. PICK r : r = Rd(buf)
    OBVIOUS
  <2>3. ReaderOf(buf) = r
    BY <2>2, ReaderIs DEF Settled, Shows, Outside
  <2>4. PICK d \in 0 .. at : Exact(r.links, r.seen, d)
    BY <2>2 DEF Sorted
  <2>5. ColouredAs(r.seen)
    BY <2>2 DEF Coloured
  <2>6. ASSUME NEW g \in r.seen, ~InQuote(g.where[1])
        PROVE  SameColours(g.look.state, StateAt(g.where[1]))
    <3>1. g.where[1] \in Nat /\ g.where[1] <= d
      BY <2>4 DEF Exact
    <3>2. g.where[1] \in 0 .. Len(content)
      BY <2>1, <3>1
    <3>3. StateAt(g.where[1]) = St(content, g.where[1])
      BY <2>1, <3>2, StateAtIs
    <3> QED BY <2>5, <2>6, <3>3 DEF ColouredAs
  <2> QED BY <2>3, <2>6 DEF ColoursAreKept, SameColours
<1> QED BY <1>1, <1>2, PTL

-----------------------------------------------------------------------------
(* What is shown of the text *)

\* Runes in the order in which they are shown.
RuneSeqs(c) == Seq(RunesOf(c))
\* None.
NoRunes == <<>>
\* One more rune, unless it is hidden.
ShowFn(c, H) ==
  [x \in RuneSeqs(c) \X PlacesIn(c) |->
     IF c[x[2]].kind = "rune" /\ x[2] \notin H THEN Append(x[1], x[2]) ELSE x[1]]
\* The runes of s that are not hidden.
Chosen(c, H, s) == FoldFn(RuneSeqs(c), ShowFn(c, H), NoRunes, s)

\* It is a step on such sequences.
LEMMA ShowFnType ==
  ASSUME NEW c \in Seq(Tokens), NEW H
  PROVE  IsOp(RuneSeqs(c), PlacesIn(c), ShowFn(c, H)) /\ NoRunes \in RuneSeqs(c)
<1>1. ASSUME NEW s \in Seq(RunesOf(c)), NEW p \in PlacesIn(c)
      PROVE  (IF c[p].kind = "rune" /\ p \notin H THEN Append(s, p) ELSE s) \in Seq(RunesOf(c))
  <2>1. c[p].kind = "rune" => p \in RunesOf(c)
    BY DEF PlacesIn, RunesOf
  <2> QED BY <2>1
<1>2. <<>> \in Seq(RunesOf(c))
  OBVIOUS
<1> QED BY <1>1, <1>2 DEF IsOp, ShowFn, RuneSeqs, NoRunes

\* They are runes.
LEMMA ChosenType ==
  ASSUME NEW c \in Seq(Tokens), NEW H, NEW s \in Seq(PlacesIn(c))
  PROVE  Chosen(c, H, s) \in Seq(RunesOf(c))
<1>1. FoldFn(RuneSeqs(c), ShowFn(c, H), NoRunes, s) \in RuneSeqs(c)
  BY ShowFnType, FoldFnType
<1> QED BY <1>1 DEF Chosen, RuneSeqs

\* Of no places, none.
LEMMA ChosenEmpty ==
  ASSUME NEW c \in Seq(Tokens), NEW H, NEW s \in Seq(PlacesIn(c)), Len(s) = 0
  PROVE  Chosen(c, H, s) = <<>>
<1>1. FoldFn(RuneSeqs(c), ShowFn(c, H), NoRunes, s) = NoRunes
  BY ShowFnType, FoldFnEmpty
<1> QED BY <1>1 DEF Chosen, NoRunes

\* One more place.
LEMMA ChosenAppend ==
  ASSUME NEW c \in Seq(Tokens), NEW H, NEW s \in Seq(PlacesIn(c)), NEW p \in PlacesIn(c)
  PROVE  Chosen(c, H, Append(s, p))
           = IF c[p].kind = "rune" /\ p \notin H THEN Append(Chosen(c, H, s), p) ELSE Chosen(c, H, s)
<1>1. PICK op : op = ShowFn(c, H)
  OBVIOUS
<1>2. IsOp(RuneSeqs(c), PlacesIn(c), op) /\ NoRunes \in RuneSeqs(c)
  BY <1>1, ShowFnType
<1>3. PICK t \in RuneSeqs(c) : t = FoldFn(RuneSeqs(c), op, NoRunes, s)
  BY <1>2, FoldFnType
<1>4. FoldFn(RuneSeqs(c), op, NoRunes, Append(s, p)) = op[<<t, p>>]
  BY <1>2, <1>3, FoldFnAppend
<1>5. op[<<t, p>>] = IF c[p].kind = "rune" /\ p \notin H THEN Append(t, p) ELSE t
  BY <1>1 DEF ShowFn
<1> QED BY <1>1, <1>3, <1>4, <1>5 DEF Chosen

\* The places up to n, in order.
LEMMA StepsAppend ==
  ASSUME NEW c \in Seq(Tokens), NEW n \in 1 .. Len(c)
  PROVE  Steps(n - 1) \in Seq(PlacesIn(c)) /\ n \in PlacesIn(c) /\ Steps(n) = Append(Steps(n - 1), n)
<1>1. n - 1 \in 0 .. Len(c) /\ n \in 0 .. Len(c) /\ n \in Nat
  OBVIOUS
<1>2. PICK s \in Seq(PlacesIn(c)) : s = Steps(n - 1) /\ Len(s) = n - 1 /\ \A k \in 1 .. n - 1 : s[k] = k
  BY <1>1, PlaceSteps
<1>3. PICK t \in Seq(PlacesIn(c)) : t = Steps(n) /\ Len(t) = n /\ \A k \in 1 .. n : t[k] = k
  BY <1>1, PlaceSteps
<1>4. n \in PlacesIn(c)
  BY DEF PlacesIn
<1>5. PICK u \in Seq(PlacesIn(c)) : u = Append(s, n)
  <2>1. PICK p \in PlacesIn(c) : p = n
    BY <1>4
  <2>2. Append(s, p) \in Seq(PlacesIn(c))
    OBVIOUS
  <2> QED BY <2>1, <2>2, Zenon
<1>6. Len(u) = n /\ \A k \in 1 .. n : u[k] = k
  BY <1>1, <1>2, <1>5
<1>7. t = u
  BY <1>1, <1>3, <1>6, SeqEqual
<1> QED BY <1>2, <1>3, <1>4, <1>5, <1>7

\* What is shown up to n.
LEMMA ChosenNext ==
  ASSUME NEW c \in Seq(Tokens), NEW H, NEW n \in 1 .. Len(c)
  PROVE  Chosen(c, H, Steps(n))
           = IF c[n].kind = "rune" /\ n \notin H
             THEN Append(Chosen(c, H, Steps(n - 1)), n) ELSE Chosen(c, H, Steps(n - 1))
<1>1. PICK s \in Seq(PlacesIn(c)) : s = Steps(n - 1)
  <2>1. Steps(n - 1) \in Seq(PlacesIn(c))
    BY StepsAppend
  <2> QED BY <2>1, Zenon
<1>2. n \in PlacesIn(c) /\ Steps(n) = Append(s, n)
  BY <1>1, StepsAppend
<1>3. Chosen(c, H, Append(s, n))
        = IF c[n].kind = "rune" /\ n \notin H THEN Append(Chosen(c, H, s), n) ELSE Chosen(c, H, s)
  BY <1>2, ChosenAppend
<1> QED BY <1>1, <1>2, <1>3

\* What comes later changes nothing.
LEMMA ChosenSame ==
  ASSUME NEW c \in Seq(Tokens), NEW H, NEW K, NEW n \in 0 .. Len(c), \A p \in 1 .. n : p \in H <=> p \in K
  PROVE  Chosen(c, H, Steps(n)) = Chosen(c, K, Steps(n))
<1> DEFINE S == {m \in 0 .. n : Chosen(c, H, Steps(m)) = Chosen(c, K, Steps(m))}
<1>1. n \in Nat /\ Len(c) \in Nat
  OBVIOUS
<1>2. 0 \in S
  <2>1. PICK s \in Seq(PlacesIn(c)) : s = Steps(0) /\ Len(s) = 0
    <3>1. 0 \in 0 .. Len(c)
      BY <1>1
    <3> QED BY <3>1, PlaceSteps
  <2>2. Chosen(c, H, s) = <<>> /\ Chosen(c, K, s) = <<>>
    BY <2>1, ChosenEmpty
  <2>3. 0 \in 0 .. n
    BY <1>1
  <2> QED BY <2>1, <2>2, <2>3
<1>3. ASSUME NEW m \in 1 .. n, m - 1 \in S
      PROVE  m \in S
  <2>1. m \in 1 .. Len(c) /\ m \in 0 .. n
    BY <1>1
  <2>2. Chosen(c, H, Steps(m)) = IF c[m].kind = "rune" /\ m \notin H
             THEN Append(Chosen(c, H, Steps(m - 1)), m) ELSE Chosen(c, H, Steps(m - 1))
    BY <2>1, ChosenNext
  <2>3. Chosen(c, K, Steps(m)) = IF c[m].kind = "rune" /\ m \notin K
             THEN Append(Chosen(c, K, Steps(m - 1)), m) ELSE Chosen(c, K, Steps(m - 1))
    BY <2>1, ChosenNext
  <2>4. Chosen(c, H, Steps(m - 1)) = Chosen(c, K, Steps(m - 1)) /\ (m \in H <=> m \in K)
    BY <1>3
  <2> QED BY <2>1, <2>2, <2>3, <2>4
<1>4. n \in S
  <2> HIDE DEF S
  <2>1. 0 .. n \subseteq S
    BY <1>1, <1>2, <1>3, IntervalInduction
  <2>2. n \in 0 .. n
    BY <1>1
  <2> QED BY <2>1, <2>2
<1> QED BY <1>4

\* Of a line whose runes from number k up to number g - 1 are left out, the
\* HTML is what is before and after them.
KeptTo(c, line, k, g, n) ==
  IF n < k THEN HtmlFrom(c, line, 1, n + 1)
  ELSE IF n < g THEN HtmlFrom(c, line, 1, k)
  ELSE HtmlFrom(c, line, 1, k) \o HtmlFrom(c, line, g, n + 1)
\* What is hidden of the line are the runes from k to before g.
CutAt(line, H, k, g) ==
  /\ k \in 1 .. Len(line) + 1 /\ g \in k .. Len(line) + 1
  /\ \A x \in 1 .. Len(line) : line[x] \in H <=> (k <= x /\ x < g)

\* One more rune: it is in the text, unless it is cut.
LEMMA KeptToNext ==
  ASSUME NEW c \in Seq(Tokens), NEW line \in Seq(RunesOf(c)), NEW k \in 1 .. Len(line) + 1,
         NEW g \in k .. Len(line) + 1, NEW n \in 1 .. Len(line)
  PROVE  KeptTo(c, line, k, g, n)
           = IF k <= n /\ n < g THEN KeptTo(c, line, k, g, n - 1)
             ELSE KeptTo(c, line, k, g, n - 1) \o RuneBytes(c, line[n])
<1>1. PICK L \in Nat : L = Len(line)
  OBVIOUS
<1>2. n \in Nat /\ k \in Nat /\ g \in Nat /\ n - 1 \in Nat /\ (n - 1) + 1 = n
  BY <1>1
<1>3. HtmlFrom(c, line, n, n + 1) = RuneBytes(c, line[n])
  BY HtmlFromOne
<1>4. CASE n < k
  <2>1. HtmlFrom(c, line, 1, n + 1) = HtmlFrom(c, line, 1, n) \o HtmlFrom(c, line, n, n + 1)
    <3>1. 1 \in 1 .. L + 1 /\ n \in 1 .. L + 1 /\ n + 1 \in n .. L + 1
      BY <1>1, <1>2
    <3> QED BY <1>1, <3>1, HtmlFromCut
  <2>2. n - 1 < k
    BY <1>2, <1>4
  <2>3. KeptTo(c, line, k, g, n) = HtmlFrom(c, line, 1, n + 1)
    BY <1>4 DEF KeptTo
  <2>4. KeptTo(c, line, k, g, n - 1) = HtmlFrom(c, line, 1, n)
    BY <1>2, <2>2 DEF KeptTo
  <2>5. ~(k <= n /\ n < g)
    BY <1>2, <1>4
  <2> QED BY <1>3, <2>1, <2>3, <2>4, <2>5
<1>5. CASE k <= n /\ n < g
  <2>1. KeptTo(c, line, k, g, n) = HtmlFrom(c, line, 1, k)
    BY <1>2, <1>5 DEF KeptTo
  <2>2. CASE n - 1 < k
    <3>1. n = k
      BY <1>2, <1>5, <2>2
    <3> QED BY <1>2, <1>5, <2>1, <2>2, <3>1 DEF KeptTo
  <2>3. CASE ~(n - 1 < k)
    <3>1. n - 1 < g
      BY <1>2, <1>5
    <3> QED BY <1>2, <1>5, <2>1, <2>3, <3>1 DEF KeptTo
  <2> QED BY <2>2, <2>3
<1>6. CASE g <= n
  <2>0. k <= n /\ ~(n < g) /\ ~(n < k)
    <3>1. k <= g
      BY <1>1
    <3> QED BY <1>2, <1>6, <3>1
  <2>1. KeptTo(c, line, k, g, n) = HtmlFrom(c, line, 1, k) \o HtmlFrom(c, line, g, n + 1)
    BY <2>0 DEF KeptTo
  <2>2. /\ HtmlFrom(c, line, 1, k) \in Seq(ByteSet) /\ HtmlFrom(c, line, g, n) \in Seq(ByteSet)
        /\ HtmlFrom(c, line, n, n + 1) \in Seq(ByteSet)
        /\ HtmlFrom(c, line, g, n + 1) = HtmlFrom(c, line, g, n) \o HtmlFrom(c, line, n, n + 1)
    <3>1. /\ 1 \in 1 .. L + 1 /\ k \in 1 .. L + 1 /\ g \in 1 .. L + 1 /\ n \in g .. L + 1 /\ n \in 1 .. L + 1
          /\ n + 1 \in n .. L + 1 /\ n + 1 \in 1 .. L + 1
      BY <1>1, <1>2, <1>6
    <3> QED BY <1>1, <3>1, HtmlFromCut, HtmlFromType
  <2>3. CASE g = n
    <3>1. HtmlFrom(c, line, g, n) = <<>>
      BY <1>1, <1>2, <2>3, HtmlFromType
    <3>2. HtmlFrom(c, line, g, n + 1) = HtmlFrom(c, line, n, n + 1)
      BY <2>3
    <3>3. KeptTo(c, line, k, g, n - 1) = HtmlFrom(c, line, 1, k)
      <4>1. CASE n - 1 < k
        <5>1. k = n \/ k < n
          BY <1>2, <2>0
        <5>2. k = n
          BY <1>2, <4>1, <5>1
        <5> QED BY <1>2, <4>1, <5>2 DEF KeptTo
      <4>2. CASE ~(n - 1 < k)
        <5>1. n - 1 < g
          BY <1>2, <2>3
        <5> QED BY <4>2, <5>1 DEF KeptTo
      <4> QED BY <4>1, <4>2
    <3> QED BY <1>3, <2>0, <2>1, <3>2, <3>3
  <2>4. CASE g < n
    <3>1. ~(n - 1 < g) /\ ~(n - 1 < k)
      <4>1. k <= g
        BY <1>1
      <4> QED BY <1>2, <2>4, <4>1
    <3>2. KeptTo(c, line, k, g, n - 1) = HtmlFrom(c, line, 1, k) \o HtmlFrom(c, line, g, n)
      BY <1>2, <3>1 DEF KeptTo
    <3>3. HtmlFrom(c, line, 1, k) \o (HtmlFrom(c, line, g, n) \o HtmlFrom(c, line, n, n + 1))
            = (HtmlFrom(c, line, 1, k) \o HtmlFrom(c, line, g, n)) \o HtmlFrom(c, line, n, n + 1)
      BY <2>2, BytesAssoc
    <3> QED BY <1>3, <2>0, <2>1, <2>2, <3>2, <3>3
  <2> QED BY <1>2, <1>6, <2>3, <2>4
<1> QED BY <1>2, <1>4, <1>5, <1>6

\* A line is of places in the article.
LEMMA LineOfPlaces ==
  ASSUME NEW c \in Seq(Tokens), NEW line \in Seq(RunesOf(c))
  PROVE  line \in Seq(PlacesIn(c))
<1>1. \A k \in 1 .. Len(line) : line[k] \in PlacesIn(c)
  <2> SUFFICES ASSUME NEW k \in 1 .. Len(line) PROVE line[k] \in PlacesIn(c)
    OBVIOUS
  <2>1. line[k] \in RunesOf(c)
    OBVIOUS
  <2> QED BY <2>1, RuneType DEF PlacesIn
<1> QED BY <1>1, SeqOfNarrow

\* The line up to n.
LEMMA LinePrefix ==
  ASSUME NEW S, NEW line \in Seq(S), NEW n \in 1 .. Len(line)
  PROVE  /\ SubSeq(line, 1, n - 1) \in Seq(S) /\ line[n] \in S
         /\ SubSeq(line, 1, n) = Append(SubSeq(line, 1, n - 1), line[n])
<1>1. PICK L \in Nat : L = Len(line)
  OBVIOUS
<1>2. n \in Nat /\ n - 1 \in 0 .. L /\ n \in 0 .. L /\ n <= L
  BY <1>1
<1>3. PICK s \in Seq(S) : s = SubSeq(line, 1, n - 1) /\ Len(s) = n - 1 /\ \A i \in 1 .. n - 1 : s[i] = line[i]
  BY <1>1, <1>2, PrefixOf
<1>4. PICK t \in Seq(S) : t = SubSeq(line, 1, n) /\ Len(t) = n /\ \A i \in 1 .. n : t[i] = line[i]
  BY <1>1, <1>2, PrefixOf, ZenonT(60)
<1>5. PICK x \in S : x = line[n]
  BY <1>1, <1>2
<1>6. PICK u \in Seq(S) : u = Append(s, x)
  <2>1. Append(s, x) \in Seq(S)
    OBVIOUS
  <2> QED BY <2>1, Zenon
<1>7. Len(u) = n /\ \A i \in 1 .. n : u[i] = line[i]
  BY <1>2, <1>3, <1>5, <1>6
<1>8. t = u
  BY <1>2, <1>4, <1>7, SeqEqual
<1> QED BY <1>3, <1>4, <1>5, <1>6, <1>8

\* A line without the runes from k to before g.
LEMMA ChosenCut ==
  ASSUME NEW c \in Seq(Tokens), NEW line \in Seq(RunesOf(c)), NEW H, NEW k, NEW g, CutAt(line, H, k, g)
  PROVE  HBytes(c, Chosen(c, H, line)) = HtmlFrom(c, line, 1, k) \o HtmlFrom(c, line, g, Len(line) + 1)
<1> DEFINE P(n) == SubSeq(line, 1, n)
           S == {n \in 0 .. Len(line) : HBytes(c, Chosen(c, H, P(n))) = KeptTo(c, line, k, g, n)}
<1>1. PICK L \in Nat : L = Len(line)
  OBVIOUS
<1>2. k \in 1 .. L + 1 /\ g \in k .. L + 1 /\ k \in Nat /\ g \in Nat /\ k <= g /\ g <= L + 1 /\ 1 <= k
  BY <1>1 DEF CutAt
<1>3. line \in Seq(PlacesIn(c))
  BY LineOfPlaces
<1>4. 0 \in S
  <2>1. 0 \in 0 .. L
    BY <1>1
  <2>2. P(0) \in Seq(PlacesIn(c)) /\ Len(P(0)) = 0
    BY <1>1, <1>3, <2>1, PrefixOf
  <2>3. Chosen(c, H, P(0)) = <<>>
    BY <2>2, ChosenEmpty
  <2>4. HBytes(c, <<>>) = <<>>
    <3>1. Chosen(c, H, P(0)) \in Seq(RunesOf(c))
      BY <2>2, ChosenType
    <3>2. PICK e \in Seq(RunesOf(c)) : e = Chosen(c, H, P(0))
      BY <3>1, Zenon
    <3>3. Len(e) = 0
      BY <2>3, <3>2
    <3> QED BY <2>3, <3>2, <3>3, HBytesEmpty
  <2>5. KeptTo(c, line, k, g, 0) = <<>>
    <3>1. HtmlFrom(c, line, 1, 1) = <<>>
      BY <1>1, HtmlFromType
    <3> QED BY <1>2, <3>1 DEF KeptTo
  <2> QED BY <1>1, <2>1, <2>3, <2>4, <2>5
<1>5. ASSUME NEW n \in 1 .. L, n - 1 \in S
      PROVE  n \in S
  <2>1. n \in 0 .. L
    BY <1>1
  <2>2. PICK s \in Seq(PlacesIn(c)) : s = P(n - 1)
    <3>1. P(n - 1) \in Seq(PlacesIn(c))
      BY <1>1, <1>3, LinePrefix
    <3> QED BY <3>1, Zenon
  <2>3. PICK p \in RunesOf(c) : p = line[n]
    BY <1>1
  <2>4. p \in PlacesIn(c) /\ c[p].kind = "rune"
    BY <2>3, RuneType DEF PlacesIn, RunesOf
  <2>5. P(n) = Append(s, p)
    BY <1>1, <2>2, <2>3, LinePrefix
  <2>6. PICK q \in Seq(RunesOf(c)) : q = Chosen(c, H, s)
    <3>1. Chosen(c, H, s) \in Seq(RunesOf(c))
      BY ChosenType
    <3> QED BY <3>1, Zenon
  <2>7. Chosen(c, H, P(n)) = IF p \notin H THEN Append(q, p) ELSE q
    <3>1. Chosen(c, H, Append(s, p))
            = IF c[p].kind = "rune" /\ p \notin H THEN Append(Chosen(c, H, s), p) ELSE Chosen(c, H, s)
      BY <2>4, ChosenAppend
    <3> HIDE DEF P
    <3> QED BY <2>4, <2>5, <2>6, <3>1
  <2>8. HBytes(c, Append(q, p)) = HBytes(c, q) \o RuneBytes(c, p)
    BY HBytesAppend
  <2>9. HBytes(c, q) = KeptTo(c, line, k, g, n - 1)
    BY <1>5, <2>2, <2>6
  <2>10. p \in H <=> (k <= n /\ n < g)
    BY <1>1, <2>3 DEF CutAt
  <2>11. KeptTo(c, line, k, g, n)
           = IF k <= n /\ n < g THEN KeptTo(c, line, k, g, n - 1)
             ELSE KeptTo(c, line, k, g, n - 1) \o RuneBytes(c, line[n])
    BY <1>1, <1>2, KeptToNext
  <2>12. HBytes(c, Chosen(c, H, P(n))) = KeptTo(c, line, k, g, n)
    <3>1. CASE p \in H
      BY <2>7, <2>9, <2>10, <2>11, <3>1
    <3>2. CASE p \notin H
      BY <2>3, <2>7, <2>8, <2>9, <2>10, <2>11, <3>2
    <3> QED BY <3>1, <3>2
  <2> QED BY <1>1, <2>1, <2>12
<1>6. HBytes(c, Chosen(c, H, P(L))) = KeptTo(c, line, k, g, L)
  <2> HIDE DEF S
  <2>1. 0 .. L \subseteq S
    BY <1>4, <1>5, IntervalInduction
  <2>2. L \in 0 .. L
    OBVIOUS
  <2>3. L \in S
    BY <2>1, <2>2
  <2> QED BY <2>3 DEF S
<1>7. P(L) = line
  <2>1. PICK t \in Seq(RunesOf(c)) : t = P(L) /\ Len(t) = L /\ \A i \in 1 .. L : t[i] = line[i]
    <3>1. L \in 0 .. L
      OBVIOUS
    <3> QED BY <1>1, <3>1, PrefixOf
  <2> QED BY <1>1, <2>1, SeqEqual
<1>8. KeptTo(c, line, k, g, L) = HtmlFrom(c, line, 1, k) \o HtmlFrom(c, line, g, L + 1)
  <2>0. PICK h \in Seq(ByteSet) : h = HtmlFrom(c, line, 1, k)
    <3>1. HtmlFrom(c, line, 1, k) \in Seq(ByteSet)
      BY <1>1, <1>2, HtmlFromType, SMTT(40)
    <3> QED BY <3>1, Zenon
  <2>1. h \o <<>> = h
    OBVIOUS
  <2>2. CASE L < k
    <3>1. k = L + 1 /\ g = L + 1
      BY <1>2, <2>2
    <3>2. HtmlFrom(c, line, g, L + 1) = <<>>
      BY <1>1, <1>2, <3>1, HtmlFromType
    <3> QED BY <2>0, <2>1, <2>2, <3>1, <3>2 DEF KeptTo
  <2>3. CASE ~(L < k) /\ L < g
    <3>1. g = L + 1
      BY <1>2, <2>3
    <3>2. HtmlFrom(c, line, g, L + 1) = <<>>
      BY <1>1, <1>2, <3>1, HtmlFromType
    <3> QED BY <2>0, <2>1, <2>3, <3>2 DEF KeptTo
  <2>4. CASE ~(L < k) /\ ~(L < g)
    BY <2>4 DEF KeptTo
  <2> QED BY <2>2, <2>3, <2>4
<1> QED BY <1>1, <1>6, <1>7, <1>8

(* The text of a line that is put out *)
\* The first m of the segments lose nothing.
Full(ready, segs, m) ==
  \A i \in 1 .. m : ready[i].bytes = segs[i].bytes /\ ready[i].len = Len(segs[i].bytes)

\* Segments that lose nothing hold the HTML of their runes.
LEMMA JoinedFull ==
  ASSUME NEW c \in Seq(Tokens), NEW line \in Seq(RunesOf(c)), NEW segs \in Seq(SegmentSet), NEW map, NEW f,
         Divided(c, line, segs, map, f), NEW ready \in Seq(ReadySegs), Len(ready) = Len(segs),
         NEW m \in 0 .. Len(segs),
         Full(ready, segs, m)
  PROVE  Joined(ready, m) = HtmlFrom(c, line, 1, f[m + 1])
<1> DEFINE S == {n \in 0 .. m : Joined(ready, n) = HtmlFrom(c, line, 1, f[n + 1])}
<1>1. PICK L \in Nat : L = Len(line)
  OBVIOUS
<1>2. PICK N \in Nat : N = Len(segs)
  OBVIOUS
<1>3. m \in Nat /\ m <= N
  BY <1>2
<1>4. 0 \in S
  <2>1. f[0 + 1] = 1
    BY DEF Divided
  <2>2. HtmlFrom(c, line, 1, 1) = <<>>
    BY <1>1, HtmlFromType
  <2> QED BY <1>3, <2>1, <2>2, JoinedZero
<1>5. ASSUME NEW n \in 1 .. m, n - 1 \in S
      PROVE  n \in S
  <2>1. n \in 1 .. N /\ n \in 1 .. N + 1 /\ n + 1 \in 1 .. N + 1 /\ n \in 0 .. m /\ (n - 1) + 1 = n
    BY <1>2, <1>3
  <2>2. /\ f[n] \in 1 .. L + 1 /\ f[n + 1] \in 1 .. L + 1 /\ f[n] <= f[n + 1]
        /\ segs[n].bytes = HtmlFrom(c, line, f[n], f[n + 1])
    BY <1>1, <1>2, <2>1 DEF Divided
  <2>3. HtmlFrom(c, line, 1, f[n + 1]) = HtmlFrom(c, line, 1, f[n]) \o HtmlFrom(c, line, f[n], f[n + 1])
    <3>1. PICK u \in Nat : u = f[n]
      BY <2>2
    <3>2. PICK v \in Nat : v = f[n + 1]
      BY <2>2
    <3>3. 1 \in 1 .. L + 1 /\ u \in 1 .. L + 1 /\ v \in u .. L + 1
      BY <1>1, <2>2, <3>1, <3>2
    <3>4. HtmlFrom(c, line, 1, v) = HtmlFrom(c, line, 1, u) \o HtmlFrom(c, line, u, v)
      BY <1>1, <3>3, HtmlFromCut
    <3> QED BY <3>1, <3>2, <3>4
  <2>4. Joined(ready, n) = Joined(ready, n - 1) \o SubSeq(ready[n].bytes, 1, ready[n].len)
    BY <1>2, <2>1, JoinedStep
  <2>5. SubSeq(ready[n].bytes, 1, ready[n].len) = segs[n].bytes
    <3>1. PICK b \in Seq(ByteSet) : b = segs[n].bytes
      <4>1. HtmlFrom(c, line, f[n], f[n + 1]) \in Seq(ByteSet)
        BY <1>1, <2>2, HtmlFromType
      <4> QED BY <2>2, <4>1, Zenon
    <3>2. ready[n].bytes = b /\ ready[n].len = Len(b)
      BY <3>1 DEF Full
    <3>3. PICK top \in Nat : top = Len(b)
      OBVIOUS
    <3>4. PICK t \in Seq(ByteSet) : t = SubSeq(b, 1, top) /\ Len(t) = top /\ \A i \in 1 .. top : t[i] = b[i]
      <4>1. top \in 0 .. Len(b)
        BY <3>3
      <4>2. /\ SubSeq(b, 1, top) \in Seq(ByteSet) /\ Len(SubSeq(b, 1, top)) = top
            /\ \A i \in 1 .. top : SubSeq(b, 1, top)[i] = b[i]
        BY <4>1, PrefixOf
      <4> QED BY <4>2, Zenon
    <3>5. t = b
      BY <3>3, <3>4, SeqEqual
    <3> QED BY <3>1, <3>2, <3>3, <3>4, <3>5
  <2> QED BY <1>5, <2>1, <2>2, <2>3, <2>4, <2>5
<1>6. m \in S
  <2> HIDE DEF S
  <2>1. 0 .. m \subseteq S
    BY <1>3, <1>4, <1>5, IntervalInduction
  <2>2. m \in 0 .. m
    BY <1>3
  <2> QED BY <2>1, <2>2
<1> QED BY <1>6

\* TrimRight cuts between two runes.
LEMMA TrimmedAtRune ==
  ASSUME content \in Seq(Tokens), NEW line \in Seq(RunesOf(content)),
         NEW p \in 1 .. Len(line) + 1, NEW e \in p .. Len(line) + 1,
         NEW seg, seg.bytes = HtmlFrom(content, line, p, e), seg.len = Len(seg.bytes)
  PROVE  \E k \in p .. e : Len(HtmlFrom(content, line, p, k)) = TrimmedLen(seg)
<1>1. PICK L \in Nat : L = Len(line)
  OBVIOUS
<1>2. p \in Nat /\ e \in Nat /\ 1 <= p /\ p <= e /\ e <= L + 1
  BY <1>1
<1>3. PICK b \in Seq(ByteSet) : b = HtmlFrom(content, line, p, e)
  <2>1. HtmlFrom(content, line, p, e) \in Seq(ByteSet)
    BY <1>1, <1>2, HtmlFromType
  <2> QED BY <2>1, Zenon
<1>4. seg.bytes = b /\ seg.len \in Nat /\ seg.len = Len(b)
  BY <1>3
<1>5. PICK n \in Nat : /\ n = TrimmedLen(seg) /\ n <= Len(b) /\ (n = 0 \/ ~IsSpaceByte(b[n]))
                       /\ \A j \in n + 1 .. Len(b) : IsSpaceByte(b[j])
  <2>1. PICK top \in Nat : top = Len(b)
    OBVIOUS
  <2> DEFINE Q(m) == (m = 0 \/ ~IsSpaceByte(b[m])) /\ \A j \in m + 1 .. top : IsSpaceByte(b[j])
             V(i) == top - i
             S == {i \in 0 .. top : \A j \in (top - i) + 1 .. top : IsSpaceByte(b[j])}
  <2>2. \E m \in 0 .. top : Q(m)
    <3>1. CASE top \in S
      <4>1. Q(0)
        BY <3>1
      <4> QED BY <4>1
    <3>2. CASE top \notin S
      <4>1. 0 \in S
        OBVIOUS
      <4>2. PICK i \in 1 .. top : i - 1 \in S /\ i \notin S
        <5> HIDE DEF S
        <5>1. ~(0 .. top \subseteq S)
          BY <3>2
        <5> QED BY <4>1, <5>1, IntervalInduction
      <4>3. PICK m \in 1 .. top : m = (top - i) + 1
        OBVIOUS
      <4>4. \A j \in m + 1 .. top : IsSpaceByte(b[j])
        <5>1. (top - (i - 1)) + 1 = m + 1
          BY <4>3
        <5> QED BY <4>2, <5>1
      <4>5. ~IsSpaceByte(b[m])
        <5>1. i \in 0 .. top
          OBVIOUS
        <5>2. PICK j \in m .. top : ~IsSpaceByte(b[j])
          BY <4>2, <4>3, <5>1
        <5>3. j = m \/ j \in m + 1 .. top
          OBVIOUS
        <5> QED BY <4>4, <5>2, <5>3
      <4> QED BY <4>4, <4>5
    <3> QED BY <3>1, <3>2
  <2>3. TrimmedLen(seg) = CHOOSE m \in 0 .. top : Q(m)
    BY <1>4, <2>1 DEF TrimmedLen
  <2>4. TrimmedLen(seg) \in 0 .. top /\ Q(TrimmedLen(seg))
    <3> HIDE DEF Q
    <3> QED BY <2>2, <2>3
  <2> QED BY <2>1, <2>4
<1>6. CASE n = 0
  <2>1. p \in p .. e /\ HtmlFrom(content, line, p, p) = <<>>
    BY <1>1, <1>2, HtmlFromType
  <2>2. Len(HtmlFrom(content, line, p, p)) = 0
    BY <2>1
  <2> QED BY <1>5, <1>6, <2>1, <2>2
<1>7. CASE n > 0
  <2> DEFINE S == {i \in 0 .. e - p : Len(HtmlFrom(content, line, p, p + i)) < n}
  <2>0. PICK top \in Nat : top = e - p
    BY <1>2
  <2>1. 0 \in S
    <3>0. p \in 1 .. L + 1 /\ p <= p
      BY <1>1, <1>2
    <3>1. HtmlFrom(content, line, p, p) = <<>>
      BY <1>1, <3>0, HtmlFromType
    <3>2. Len(HtmlFrom(content, line, p, p)) = 0 /\ p + 0 = p
      BY <1>2, <3>1
    <3> QED BY <1>7, <2>0, <3>2
  <2>2. top \notin S
    <3>1. p + top = e
      BY <1>2, <2>0
    <3>2. ~(Len(HtmlFrom(content, line, p, p + top)) < n)
      <4>1. Len(b) \in Nat /\ ~(Len(b) < n)
        BY <1>5
      <4> QED BY <1>3, <3>1, <4>1
    <3> QED BY <3>2
  <2>3. PICK i \in 1 .. top : i - 1 \in S /\ i \notin S
    <3> HIDE DEF S
    <3>1. ~(0 .. top \subseteq S)
      BY <2>2
    <3> QED BY <2>1, <3>1, IntervalInduction
  <2>4. PICK x \in p .. e - 1 : x = p + (i - 1)
    BY <1>2, <2>0
  <2>5. PICK k \in p .. e : k = p + i /\ k = x + 1
    BY <1>2, <2>0, <2>4
  <2>6. PICK lo \in Nat : lo = Len(HtmlFrom(content, line, p, x)) /\ lo < n
    <3>1. HtmlFrom(content, line, p, x) \in Seq(ByteSet)
      BY <1>1, <1>2, HtmlFromType
    <3>2. Len(HtmlFrom(content, line, p, x)) \in Nat
      BY <3>1
    <3> QED BY <2>3, <2>4, <3>2
  <2>7. PICK hi \in Nat : hi = Len(HtmlFrom(content, line, p, k)) /\ n <= hi
    <3>1. HtmlFrom(content, line, p, k) \in Seq(ByteSet)
      BY <1>1, <1>2, HtmlFromType
    <3>2. Len(HtmlFrom(content, line, p, k)) \in Nat
      BY <3>1
    <3>3. i \in 0 .. e - p
      BY <2>0
    <3>4. ~(Len(HtmlFrom(content, line, p, k)) < n)
      BY <2>3, <2>5, <3>3
    <3> QED BY <3>2, <3>4
  <2>8. hi <= Len(b)
    <3>1. k \in p .. L + 1 /\ e \in k .. L + 1
      BY <1>2
    <3> QED BY <1>1, <1>3, <2>7, <3>1, HtmlGrows
  <2>9. ASSUME NEW q \in Nat, lo < q, q <= hi
        PROVE  b[q].where[1] = line[x]
    <3>1. x \in p .. L + 1 /\ k \in x .. L + 1 /\ e \in k .. L + 1
      BY <1>2, <2>5
    <3>2. \E y \in x .. k - 1 : \E o \in Nat : HtmlFrom(content, line, p, e)[q].where = <<line[y], o>>
      BY <1>1, <2>6, <2>7, <2>9, <3>1, ByteOfRune, ZenonT(60)
    <3>3. \A y \in x .. k - 1 : y = x
      BY <1>2, <2>5
    <3>4. PICK y \in x .. k - 1 : \E o \in Nat : HtmlFrom(content, line, p, e)[q].where = <<line[y], o>>
      BY <3>2
    <3>5. PICK o \in Nat : b[q].where = <<line[y], o>>
      BY <1>3, <3>4
    <3>6. y = x
      BY <3>3, <3>4
    <3> QED BY <3>5, <3>6
  <2>10. n = hi
    <3>1. SUFFICES ASSUME n < hi PROVE FALSE
      BY <2>7
    <3>2. b[n].where[1] = line[x] /\ b[hi].where[1] = line[x]
      BY <2>6, <2>7, <2>9, <3>1, SMTT(40)
    <3>3. hi \in n + 1 .. Len(b)
      BY <2>8, <3>1
    <3> QED BY <1>5, <1>7, <3>2, <3>3 DEF IsSpaceByte
  <2> QED BY <1>5, <2>5, <2>7, <2>10
<1> QED BY <1>6, <1>7

\* What TrimRight cuts off a segment are the runes from one on to its end.
LEMMA TrimmedRunes ==
  ASSUME content \in Seq(Tokens), NEW line \in Seq(RunesOf(content)), NEW d \in Nat, LineAfter(line, d),
         NEW segs \in Seq(SegmentSet), NEW map, NEW f, Divided(content, line, segs, map, f),
         NEW i \in 1 .. Len(segs), NEW n \in Nat, NEW k \in f[i] .. f[i + 1],
         Len(HtmlFrom(content, line, f[i], k)) = n,
         NEW x \in 1 .. Len(line)
  PROVE  line[x] \in {segs[i].bytes[j].where[1] : j \in n + 1 .. Len(segs[i].bytes)}
           <=> (k <= x /\ x < f[i + 1])
<1>1. PICK L \in Nat : L = Len(line)
  OBVIOUS
<1>2. PICK p \in 1 .. L + 1 : p = f[i]
  <2>1. i \in 1 .. Len(segs) + 1
    OBVIOUS
  <2>2. Len(segs) \in Nat /\ Len(line) \in Nat
    OBVIOUS
  <2> QED BY <1>1, <2>1, <2>2, DivisionType
<1>3. PICK e \in 1 .. L + 1 : e = f[i + 1] /\ p <= e
  <2>1. i + 1 \in 1 .. Len(segs) + 1
    OBVIOUS
  <2>2. f[i + 1] \in 1 .. L + 1
    BY <1>1, <2>1, DivisionType
  <2>3. f[i] <= f[i + 1]
    BY DEF Divided
  <2> QED BY <1>2, <2>2, <2>3
<1>4. k \in p .. e /\ k \in p .. L + 1 /\ e \in k .. L + 1 /\ k \in 1 .. L + 1 /\ k \in Nat
  BY <1>2, <1>3
<1>5. PICK b \in Seq(ByteSet) : b = segs[i].bytes /\ b = HtmlFrom(content, line, p, e)
  <2>1. HtmlFrom(content, line, p, e) \in Seq(ByteSet)
    BY <1>1, HtmlFromType
  <2>2. segs[i].bytes = HtmlFrom(content, line, p, e)
    BY <1>2, <1>3 DEF Divided
  <2> QED BY <2>1, <2>2, Zenon
<1>6. Len(HtmlFrom(content, line, p, k)) = n
  BY <1>2
<1>7. ASSUME NEW j \in n + 1 .. Len(b), b[j].where[1] = line[x]
      PROVE  k <= x /\ x < e
  <2>1. j \in Nat /\ n < j /\ j <= Len(b)
    BY <1>5
  <2>2. j <= Len(HtmlFrom(content, line, p, e)) /\ e \in e .. L + 1
    BY <1>5, <2>1
  <2>3. \E y \in k .. e - 1 : \E o \in Nat : HtmlFrom(content, line, p, e)[j].where = <<line[y], o>>
    <3>1. Len(HtmlFrom(content, line, p, k)) < j /\ j <= Len(HtmlFrom(content, line, p, e))
      BY <1>6, <2>1, <2>2
    <3>2. /\ p \in 1 .. Len(line) + 1 /\ k \in p .. Len(line) + 1 /\ e \in k .. Len(line) + 1
          /\ e \in e .. Len(line) + 1 /\ j \in Nat
      BY <1>1, <1>2, <1>4, <2>1, <2>2
    <3> QED BY <1>1, <3>1, <3>2, ByteOfRune, ZenonT(60)
  <2>4. PICK y \in k .. e - 1 : \E o \in Nat : b[j].where = <<line[y], o>>
    BY <1>5, <2>3
  <2>5. line[y] = line[x]
    BY <1>7, <2>4
  <2>6. y \in 1 .. Len(line)
    BY <1>1, <1>3, <1>4, SMTT(40)
  <2>7. y = x
    BY <2>5, <2>6, LineOrder
  <2> QED BY <1>4, <2>4, <2>7
<1>8. ASSUME k <= x, x < e
      PROVE  \E j \in n + 1 .. Len(b) : b[j].where[1] = line[x]
  <2>1. f[i] <= x /\ x < f[i + 1]
    BY <1>1, <1>2, <1>3, <1>4, <1>8
  <2>2. Holds(content, line, segs[i], map, i, f[i + 1], x, Len(HtmlFrom(content, line, f[i], x)))
    BY <2>1, RuneIsHeld
  <2>3. PICK off \in Nat : off = Len(HtmlFrom(content, line, p, x))
    BY <1>2, <2>2 DEF Holds
  <2>4. PICK r : r = RuneBytes(content, line[x])
    OBVIOUS
  <2>5. Len(r) \in 1 .. 3 /\ off + Len(r) <= Len(b) /\ \A j \in 1 .. Len(r) : b[off + j] = r[j]
    BY <1>2, <1>5, <2>2, <2>3, <2>4 DEF Holds
  <2>6. n <= off
    <3>1. x \in k .. L + 1
      BY <1>1, <1>8, <1>4
    <3> QED BY <1>1, <1>4, <1>6, <2>3, <3>1, HtmlGrows
  <2>7. PICK R \in 1 .. 3 : R = Len(r)
    BY <2>5
  <2>8. b[off + 1] = r[1]
    BY <2>5, <2>7
  <2>9. r[1] = Byte(line[x], 1)
    <3>1. line[x] \in RunesOf(content)
      OBVIOUS
    <3>2. 1 \in 1 .. Len(r)
      BY <2>7
    <3> QED BY <2>4, <3>1, <3>2, RuneBytesType
  <2>10. PICK j \in n + 1 .. Len(b) : j = off + 1
    <3>1. Len(b) \in Nat
      BY <1>5
    <3> QED BY <2>5, <2>6, <2>7, <3>1
  <2>11. b[j].where = <<line[x], 1>>
    BY <2>8, <2>9, <2>10 DEF Byte, Html
  <2> QED BY <2>11
<1> QED BY <1>3, <1>5, <1>7, <1>8

\* All of the text of a line that is no push is put out.
LEMMA PlainText ==
  ASSUME content \in Seq(Tokens), NEW a, NEW line, NEW segs, NEW closed, NEW map, NEW t,
         LineOK(content, a, line, segs, closed, map, t), Len(line) > 0, ~IsPush(Recolored(segs, line))
  PROVE  NewText(segs, line) = HtmlFrom(content, line, 1, Len(line) + 1)
<1>1. /\ line \in Seq(RunesOf(content)) /\ segs \in Seq(SegmentSet)
      /\ \A i \in 1 .. Len(segs) : segs[i].len = Len(segs[i].bytes)
  BY DEF LineOK
<1>2. PICK f : Divided(content, line, segs, map, f)
  BY DEF LineOK
<1>3. Len(segs) > 0
  BY <1>2, FirstSegment
<1>4. PICK ready : ready = ReadyOf(segs, line)
  OBVIOUS
<1>5. PICK N \in Nat : N = Len(segs)
  BY <1>1
<1>6. ready \in Seq(ReadySegs) /\ Len(ready) = N
  BY <1>1, <1>3, <1>4, <1>5, ReadyKept DEF Ready
<1>7. \A i \in 1 .. N : ready[i].bytes = segs[i].bytes /\ ready[i].len = Len(segs[i].bytes)
  <2>1. PICK q : q = Recolored(segs, line)
    OBVIOUS
  <2>2. \A i \in 1 .. N : q[i].bytes = segs[i].bytes /\ q[i].len = segs[i].len
    BY <1>1, <1>3, <1>5, <2>1, RecoloredOK
  <2>3. ready = q
    BY <1>4, <2>1 DEF ReadyOf
  <2> QED BY <1>1, <1>5, <2>2, <2>3
<1>8. Joined(ready, N) = HtmlFrom(content, line, 1, f[N + 1])
  <2>1. N \in 0 .. Len(segs)
    BY <1>5
  <2>2. Full(ready, segs, N)
    BY <1>7 DEF Full
  <2>3. Len(ready) = Len(segs)
    BY <1>5, <1>6
  <2>4. PICK m \in 0 .. Len(segs) : m = N
    BY <2>1
  <2>5. Full(ready, segs, m)
    BY <2>2, <2>4
  <2>6. line \in Seq(RunesOf(content)) /\ segs \in Seq(SegmentSet) /\ ready \in Seq(ReadySegs)
    BY <1>1, <1>6
  <2>7. Joined(ready, m) = HtmlFrom(content, line, 1, f[m + 1])
    BY <1>2, <2>3, <2>5, <2>6, JoinedFull
  <2> QED BY <2>4, <2>7
<1>9. f[N + 1] = Len(line) + 1
  BY <1>2, <1>5 DEF Divided
<1> QED BY <1>4, <1>6, <1>8, <1>9 DEF NewText

\* What a push line shows, and what it cuts, n being what TrimRight leaves.
Pushed(line, segs, f, n) ==
  /\ Len(segs) = 4
  /\ CutOf(segs, line) = {segs[3].bytes[j].where[1] : j \in n + 1 .. Len(segs[3].bytes)}
  /\ \E k \in f[3] .. f[4] :
       /\ Len(HtmlFrom(content, line, f[3], k)) = n
       /\ NewText(segs, line) = HtmlFrom(content, line, 1, k) \o HtmlFrom(content, line, f[4], Len(line) + 1)

\* Of a push, all but the spaces that are trimmed.
LEMMA PushText ==
  ASSUME content \in Seq(Tokens), NEW a, NEW line, NEW segs, NEW closed, NEW map, NEW t,
         LineOK(content, a, line, segs, closed, map, t), Len(line) > 0, IsPush(Recolored(segs, line)),
         NEW f, Divided(content, line, segs, map, f)
  PROVE  Pushed(line, segs, f, TrimmedLen(Recolored(segs, line)[3]))
<1>1. /\ line \in Seq(RunesOf(content)) /\ segs \in Seq(SegmentSet)
      /\ \A i \in 1 .. Len(segs) : segs[i].len = Len(segs[i].bytes)
  BY DEF LineOK
<1>2. Len(segs) > 0
  BY FirstSegment
<1>3. PICK q : q = Recolored(segs, line)
  OBVIOUS
<1>4. q \in Seq(SegmentSet) /\ Len(q) = Len(segs) /\ \A i \in 1 .. Len(segs) :
        q[i].bytes = segs[i].bytes /\ q[i].len = segs[i].len
  BY <1>1, <1>2, <1>3, RecoloredOK
<1>5. Len(segs) = 4 /\ Len(q) = 4
  BY <1>3, <1>4 DEF IsPush
<1>6. \A i \in 1 .. 4 : q[i].bytes = segs[i].bytes /\ q[i].len = Len(segs[i].bytes)
  BY <1>1, <1>4, <1>5
<1>7. PICK ready : ready = MarkedAsPush(q)
  OBVIOUS
<1>8. ready = ReadyOf(segs, line)
  BY <1>3, <1>7 DEF ReadyOf
<1>9. \A i \in 1 .. 4 : /\ ready[i].bytes = segs[i].bytes
                       /\ ready[i].len = IF i = 3 THEN TrimmedLen(q[3]) ELSE Len(segs[i].bytes)
  <2>1. \A i \in 1 .. 4 : /\ ready[i].bytes = q[i].bytes
                         /\ ready[i].len = IF i = 3 THEN TrimmedLen(q[3]) ELSE q[i].len
    BY <1>4, <1>5, <1>7, MarkedOK, SMTT(40)
  <2> QED BY <1>6, <2>1
<1>10. ready \in Seq(ReadySegs) /\ Len(ready) = 4
  <2>1. Ready(content, segs, ready)
    BY <1>1, <1>2, <1>8, ReadyKept
  <2> QED BY <1>5, <2>1 DEF Ready
<1>11. PICK n : n = TrimmedLen(q[3])
  OBVIOUS
<1>12. CutOf(segs, line) = {segs[3].bytes[j].where[1] : j \in n + 1 .. Len(segs[3].bytes)}
  <2>1. CutOf(segs, line) = {q[3].bytes[j].where[1] : j \in ready[3].len + 1 .. q[3].len}
    BY <1>3, <1>8 DEF CutOf
  <2>2. ready[3].len = n /\ q[3].len = Len(segs[3].bytes) /\ q[3].bytes = segs[3].bytes
    BY <1>6, <1>9, <1>11
  <2> QED BY <2>1, <2>2
<1>13. PICK L \in Nat : L = Len(line)
  BY <1>1
<1>14. /\ f[3] \in 1 .. L + 1 /\ f[4] \in 1 .. L + 1 /\ f[3] <= f[4] /\ f[5] = L + 1
       /\ segs[3].bytes = HtmlFrom(content, line, f[3], f[4])
       /\ segs[4].bytes = HtmlFrom(content, line, f[4], f[5])
  BY <1>5, <1>13 DEF Divided
<1>15. PICK p \in 1 .. L + 1 : p = f[3]
  BY <1>14
<1>16. PICK e \in p .. L + 1 : e = f[4]
  BY <1>14, <1>15
<1>17. PICK k \in p .. e : Len(HtmlFrom(content, line, p, k)) = n
  <2>1. q[3].bytes = HtmlFrom(content, line, p, e) /\ q[3].len = Len(q[3].bytes)
    BY <1>6, <1>14, <1>15, <1>16
  <2>2. \E k \in p .. e : Len(HtmlFrom(content, line, p, k)) = TrimmedLen(q[3])
    BY <1>1, <1>13, <2>1, TrimmedAtRune, ZenonT(60)
  <2> QED BY <1>11, <2>2
<1>18. /\ k \in 1 .. L + 1 /\ p \in 1 .. k /\ k \in p .. L + 1 /\ e \in k .. L + 1 /\ e \in 1 .. L + 1
       /\ L + 1 \in e .. L + 1 /\ 1 \in 1 .. L + 1 /\ L + 1 \in 1 .. L + 1
  OBVIOUS
<1>19. PICK h1 \in Seq(ByteSet) : h1 = HtmlFrom(content, line, 1, p)
  <2>1. HtmlFrom(content, line, 1, p) \in Seq(ByteSet)
    BY <1>1, <1>13, <1>18, HtmlFromType
  <2> QED BY <2>1, Zenon
<1>20. PICK h2 \in Seq(ByteSet) : h2 = HtmlFrom(content, line, p, k)
  <2>1. HtmlFrom(content, line, p, k) \in Seq(ByteSet)
    BY <1>1, <1>13, <1>18, HtmlFromType
  <2> QED BY <2>1, Zenon
<1>21. PICK h3 \in Seq(ByteSet) : h3 = HtmlFrom(content, line, k, e)
  <2>1. HtmlFrom(content, line, k, e) \in Seq(ByteSet)
    BY <1>1, <1>13, <1>18, HtmlFromType
  <2> QED BY <2>1, Zenon
<1>22. PICK h4 \in Seq(ByteSet) : h4 = HtmlFrom(content, line, e, L + 1)
  <2>1. HtmlFrom(content, line, e, L + 1) \in Seq(ByteSet)
    BY <1>1, <1>13, <1>18, HtmlFromType
  <2> QED BY <2>1, Zenon
<1>23. HtmlFrom(content, line, 1, k) = h1 \o h2
  <2>1. p \in 1 .. L + 1 /\ k \in p .. L + 1
    BY <1>18
  <2> QED BY <1>1, <1>13, <1>18, <1>19, <1>20, <2>1, HtmlFromCut
<1>24. HtmlFrom(content, line, p, e) = h2 \o h3
  BY <1>1, <1>13, <1>18, <1>20, <1>21, HtmlFromCut
<1>25. Joined(ready, 2) = h1
  <2>1. 2 \in 0 .. Len(segs) /\ Full(ready, segs, 2)
    BY <1>5, <1>9 DEF Full
  <2>2. Joined(ready, 2) = HtmlFrom(content, line, 1, f[2 + 1])
    <3>1. Len(ready) = Len(segs)
      BY <1>5, <1>10
    <3> QED BY <1>1, <1>10, <2>1, <3>1, JoinedFull
  <2> QED BY <1>15, <1>19, <2>2
<1>26. Joined(ready, 3) = h1 \o h2
  <2>1. Joined(ready, 3) = Joined(ready, 2) \o SubSeq(ready[3].bytes, 1, ready[3].len)
    <3>1. 3 \in 1 .. Len(ready) /\ 3 - 1 = 2
      BY <1>10
    <3> QED BY <1>10, <3>1, JoinedStep
  <2>2. ready[3].bytes = h2 \o h3 /\ ready[3].len = Len(h2)
    <3>1. ready[3].bytes = segs[3].bytes /\ ready[3].len = n
      BY <1>9, <1>11
    <3> QED BY <1>14, <1>15, <1>16, <1>17, <1>20, <1>24, <3>1
  <2>3. SubSeq(h2 \o h3, 1, Len(h2)) = h2
    <3>1. PICK top \in Nat : top = Len(h2)
      OBVIOUS
    <3>2. PICK z \in Seq(ByteSet) : z = h2 \o h3 /\ Len(z) = Len(h2) + Len(h3) /\ \A j \in 1 .. top : z[j] = h2[j]
      <4>1. h2 \o h3 \in Seq(ByteSet)
        BY ConcatType
      <4>2. Len(h2 \o h3) = Len(h2) + Len(h3) /\ \A j \in 1 .. top : (h2 \o h3)[j] = h2[j]
        BY <3>1
      <4> QED BY <4>1, <4>2, Zenon
    <3>3. top \in 0 .. Len(z)
      BY <3>1, <3>2
    <3>4. /\ SubSeq(z, 1, top) \in Seq(ByteSet) /\ Len(SubSeq(z, 1, top)) = top
          /\ \A j \in 1 .. top : SubSeq(z, 1, top)[j] = z[j]
      BY <3>3, PrefixOf
    <3>5. PICK y \in Seq(ByteSet) : y = SubSeq(z, 1, top) /\ Len(y) = top /\ \A j \in 1 .. top : y[j] = h2[j]
      <4>1. \A j \in 1 .. top : SubSeq(z, 1, top)[j] = h2[j]
        BY <3>2, <3>4
      <4> QED BY <3>4, <4>1, Zenon
    <3>6. y = h2
      BY <3>1, <3>5, SeqEqual
    <3> QED BY <3>1, <3>2, <3>5, <3>6
  <2> QED BY <1>25, <2>1, <2>2, <2>3
<1>27. Joined(ready, 4) = (h1 \o h2) \o h4
  <2>1. Joined(ready, 4) = Joined(ready, 3) \o SubSeq(ready[4].bytes, 1, ready[4].len)
    <3>1. 4 \in 1 .. Len(ready) /\ 4 - 1 = 3
      BY <1>10
    <3> QED BY <1>10, <3>1, JoinedStep
  <2>2. ready[4].bytes = h4 /\ ready[4].len = Len(h4)
    <3>1. ready[4].bytes = segs[4].bytes /\ ready[4].len = Len(segs[4].bytes)
      BY <1>9
    <3> QED BY <1>14, <1>16, <1>22, <3>1
  <2>3. SubSeq(h4, 1, Len(h4)) = h4
    OBVIOUS
  <2> QED BY <1>26, <2>1, <2>2, <2>3
<1>28. NewText(segs, line) = HtmlFrom(content, line, 1, k) \o HtmlFrom(content, line, e, L + 1)
  BY <1>8, <1>10, <1>22, <1>23, <1>27 DEF NewText
<1>29. k \in f[3] .. f[4]
  BY <1>15, <1>16
<1>30. Len(HtmlFrom(content, line, f[3], k)) = TrimmedLen(Recolored(segs, line)[3])
  BY <1>3, <1>11, <1>15, <1>17
<1> QED BY <1>3, <1>5, <1>11, <1>12, <1>13, <1>16, <1>28, <1>29, <1>30 DEF Pushed

\* Of a line that is put out, what is not cut is in the text.
LEMMA CutText ==
  ASSUME content \in Seq(Tokens), NEW a, NEW line, NEW segs, NEW closed, NEW map, NEW t,
         LineOK(content, a, line, segs, closed, map, t), Len(line) > 0,
         NEW d \in Nat, LineAfter(line, d), NEW H, \A x \in 1 .. Len(line) : line[x] \notin H,
         NEW K, K = H \cup CutOf(segs, line)
  PROVE  HBytes(content, Chosen(content, K, line)) = NewText(segs, line)
<1>1. line \in Seq(RunesOf(content)) /\ segs \in Seq(SegmentSet)
  BY DEF LineOK
<1>2. PICK L \in Nat : L = Len(line) /\ L > 0
  BY <1>1
<1>3. CASE ~IsPush(Recolored(segs, line))
  <2>1. K = H
    BY <1>3 DEF CutOf
  <2>2. CutAt(line, K, 1, 1)
    <3>1. 1 \in 1 .. L + 1
      BY <1>2
    <3>2. \A x \in 1 .. L : ~(1 <= x /\ x < 1)
      OBVIOUS
    <3> QED BY <1>2, <2>1, <3>1, <3>2 DEF CutAt
  <2>3. HBytes(content, Chosen(content, K, line))
          = HtmlFrom(content, line, 1, 1) \o HtmlFrom(content, line, 1, Len(line) + 1)
    BY <1>1, <2>2, ChosenCut, ZenonT(60)
  <2>4. HtmlFrom(content, line, 1, 1) = <<>>
    <3>1. 1 \in 1 .. Len(line) + 1 /\ 1 <= 1
      BY <1>2
    <3> QED BY <1>1, <3>1, HtmlFromType
  <2>5. PICK h \in Seq(ByteSet) : h = HtmlFrom(content, line, 1, Len(line) + 1)
    <3>1. HtmlFrom(content, line, 1, Len(line) + 1) \in Seq(ByteSet)
      <4>1. 1 \in 1 .. Len(line) + 1 /\ Len(line) + 1 \in 1 .. Len(line) + 1
        BY <1>2
      <4> QED BY <1>1, <4>1, HtmlFromType
    <3> QED BY <3>1, Zenon
  <2>6. <<>> \o h = h
    OBVIOUS
  <2>7. NewText(segs, line) = HtmlFrom(content, line, 1, Len(line) + 1)
    BY <1>3, PlainText
  <2> QED BY <2>3, <2>4, <2>5, <2>6, <2>7
<1>4. CASE IsPush(Recolored(segs, line))
  <2>1. PICK f : Divided(content, line, segs, map, f)
    BY DEF LineOK
  <2>2. PICK n : n = TrimmedLen(Recolored(segs, line)[3])
    OBVIOUS
  <2>3. /\ Len(segs) = 4
        /\ CutOf(segs, line) = {segs[3].bytes[j].where[1] : j \in n + 1 .. Len(segs[3].bytes)}
        /\ \E k \in f[3] .. f[4] :
             /\ Len(HtmlFrom(content, line, f[3], k)) = n
             /\ NewText(segs, line)
                  = HtmlFrom(content, line, 1, k) \o HtmlFrom(content, line, f[4], Len(line) + 1)
    <3>1. Pushed(line, segs, f, TrimmedLen(Recolored(segs, line)[3]))
      BY <1>4, <2>1, PushText
    <3> QED BY <2>2, <3>1 DEF Pushed
  <2>4. PICK k \in f[3] .. f[4] :
             /\ Len(HtmlFrom(content, line, f[3], k)) = n
             /\ NewText(segs, line)
                  = HtmlFrom(content, line, 1, k) \o HtmlFrom(content, line, f[4], Len(line) + 1)
    BY <2>3
  <2>5. /\ f[3] \in 1 .. L + 1 /\ f[4] \in 1 .. L + 1 /\ f[3] <= f[4]
    BY <1>2, <2>1, <2>3 DEF Divided
  <2>6. k \in 1 .. L + 1 /\ f[4] \in k .. L + 1 /\ k \in Nat
    BY <2>5
  <2>7. n \in Nat
    <3>1. HtmlFrom(content, line, f[3], k) \in Seq(ByteSet)
      BY <1>1, <1>2, <2>5, <2>6, HtmlFromType
    <3>2. Len(HtmlFrom(content, line, f[3], k)) \in Nat
      BY <3>1
    <3> QED BY <2>4, <3>2
  <2>8. ASSUME NEW x \in 1 .. Len(line)
        PROVE  line[x] \in K <=> (k <= x /\ x < f[4])
    <3>1. PICK i \in 1 .. Len(segs) : i = 3
      BY <2>3
    <3>2. k \in f[i] .. f[i + 1] /\ Len(HtmlFrom(content, line, f[i], k)) = n
      BY <2>4, <3>1
    <3>3. line[x] \in {segs[i].bytes[j].where[1] : j \in n + 1 .. Len(segs[i].bytes)}
            <=> (k <= x /\ x < f[i + 1])
      BY <1>1, <2>1, <2>7, <3>2, TrimmedRunes
    <3>4. line[x] \in CutOf(segs, line) <=> (k <= x /\ x < f[4])
      BY <2>3, <3>1, <3>3
    <3> QED BY <3>4
  <2>9. CutAt(line, K, k, f[4])
    BY <1>2, <2>6, <2>8 DEF CutAt
  <2>10. HBytes(content, Chosen(content, K, line))
          = HtmlFrom(content, line, 1, k) \o HtmlFrom(content, line, f[4], Len(line) + 1)
    BY <1>1, <2>9, ChosenCut
  <2> QED BY <2>4, <2>10
<1> QED BY <1>3, <1>4

\* What a line cuts is of the line.
CutIn(segs, line) == \A p \in CutOf(segs, line) : \E x \in 1 .. Len(line) : line[x] = p

\* What is cut is from the line.
LEMMA CutIsOfLine ==
  ASSUME content \in Seq(Tokens), NEW a, NEW line, NEW segs, NEW closed, NEW map, NEW t,
         LineOK(content, a, line, segs, closed, map, t), Len(line) > 0
  PROVE  CutIn(segs, line)
<1> SUFFICES ASSUME NEW p, p \in CutOf(segs, line)
             PROVE  \E x \in 1 .. Len(line) : line[x] = p
  BY DEF CutIn
<1>1. IsPush(Recolored(segs, line))
  BY DEF CutOf
<1>2. line \in Seq(RunesOf(content)) /\ segs \in Seq(SegmentSet)
  BY DEF LineOK
<1>3. PICK f : Divided(content, line, segs, map, f)
  BY DEF LineOK
<1>4. PICK n : n = TrimmedLen(Recolored(segs, line)[3])
  OBVIOUS
<1>5. Pushed(line, segs, f, n)
  BY <1>1, <1>3, <1>4, PushText
<1>6. PICK L \in Nat : L = Len(line)
  BY <1>2
<1>7. /\ f[3] \in 1 .. L + 1 /\ f[4] \in 1 .. L + 1
      /\ segs[3].bytes = HtmlFrom(content, line, f[3], f[4])
  BY <1>3, <1>5, <1>6 DEF Divided, Pushed
<1>8. n \in Nat
  <2>1. PICK k \in f[3] .. f[4] : Len(HtmlFrom(content, line, f[3], k)) = n
    BY <1>5 DEF Pushed
  <2>2. k \in 1 .. L + 1
    BY <1>7
  <2>3. HtmlFrom(content, line, f[3], k) \in Seq(ByteSet)
    BY <1>2, <1>6, <1>7, <2>2, HtmlFromType
  <2>4. Len(HtmlFrom(content, line, f[3], k)) \in Nat
    BY <2>3
  <2> QED BY <2>1, <2>4
<1>9. PICK j \in n + 1 .. Len(segs[3].bytes) : segs[3].bytes[j].where[1] = p
  BY <1>5 DEF Pushed
<1>10. PICK ps \in Seq(RunesOf(content)) : ps = SubSeq(line, f[3], f[4] - 1)
  <2>1. SubSeq(line, f[3], f[4] - 1) \in Seq(RunesOf(content))
    <3>1. f[3] \in 1 .. Len(line) + 1 /\ f[4] - 1 \in 0 .. Len(line)
      BY <1>6, <1>7
    <3> QED BY <1>2, <3>1, SubSeqType
  <2> QED BY <2>1, Zenon
<1>11. segs[3].bytes = HBytes(content, ps)
  BY <1>7, <1>10 DEF HtmlFrom
<1>12. j \in 1 .. Len(HBytes(content, ps))
  BY <1>8, <1>9, <1>11
<1>13. PICK y \in 1 .. Len(ps) : HBytes(content, ps)[j].where[1] = ps[y]
  BY <1>12, BytesOfRunes
<1>14. \E x \in 1 .. Len(line) : line[x] = ps[y]
  <2>1. PICK u \in 1 .. L + 1 : u = f[3]
    BY <1>7
  <2>2. PICK v \in 0 .. L : v = f[4] - 1
    BY <1>7
  <2>3. ps = SubSeq(line, u, v)
    BY <1>10, <2>1, <2>2
  <2>4. y \in 1 .. v - u + 1 /\ ps[y] = line[u + y - 1]
    BY <1>2, <1>6, <2>3
  <2>5. u + y - 1 \in 1 .. L
    BY <2>4
  <2> QED BY <1>6, <2>4, <2>5
<1> QED BY <1>9, <1>11, <1>13, <1>14

\* Nothing is shown of a line that is hidden.
LEMMA MetaText ==
  ASSUME NEW c \in Seq(Tokens), NEW line \in Seq(RunesOf(c)), NEW H
  PROVE  HBytes(c, Chosen(c, H \cup ToSet(line), line)) = <<>>
<1>1. PICK L \in Nat : L = Len(line)
  OBVIOUS
<1>2. PICK K : K = H \cup ToSet(line)
  OBVIOUS
<1>3. \A x \in 1 .. L : line[x] \in K
  <2>1. DOMAIN line = 1 .. L
    BY <1>1
  <2> QED BY <1>2, <2>1 DEF ToSet
<1>4. CutAt(line, K, 1, L + 1)
  <2>1. 1 \in 1 .. L + 1 /\ L + 1 \in 1 .. L + 1
    BY <1>1
  <2>2. \A x \in 1 .. L : 1 <= x /\ x < L + 1
    OBVIOUS
  <2> QED BY <1>1, <1>3, <2>1, <2>2 DEF CutAt
<1>5. HBytes(c, Chosen(c, K, line)) = HtmlFrom(c, line, 1, 1) \o HtmlFrom(c, line, L + 1, Len(line) + 1)
  BY <1>4, ChosenCut
<1>6. HtmlFrom(c, line, 1, 1) = <<>> /\ HtmlFrom(c, line, L + 1, L + 1) = <<>>
  <2>1. 1 \in 1 .. L + 1 /\ 1 <= 1 /\ L + 1 \in 1 .. L + 1 /\ L + 1 <= L + 1
    OBVIOUS
  <2> QED BY <1>1, <2>1, HtmlFromType
<1>7. <<>> \o <<>> = <<>>
  <2>1. <<>> \in Seq(ByteSet)
    OBVIOUS
  <2>2. PICK e \in Seq(ByteSet) : e = <<>>
    BY <2>1, Zenon
  <2> QED BY <2>2
<1> QED BY <1>1, <1>2, <1>5, <1>6, <1>7

-----------------------------------------------------------------------------
(* TextIsKept *)

\* What was read since d is the line.
LineIs(c, d, a, line) ==
  \A H : Chosen(c, H, Steps(a)) = Chosen(c, H, Steps(d)) \o Chosen(c, H, line)
\* The text up to d was put out, but for what is hidden, and the rest is in
\* the line.
KeptUpTo(d) ==
  /\ hidden \subseteq 1 .. d
  /\ Rd(buf).text = HBytes(content, Chosen(content, hidden, Steps(d)))
  /\ LineAfter(lineBuf, d) /\ LineIs(content, d, at, lineBuf)
\* What was put out and what is in the line make up the article.
TextInv == \E d \in 0 .. at : KeptUpTo(d)

\* A rune is added to the line.
LEMMA LineIsRune ==
  ASSUME NEW c \in Seq(Tokens), NEW n \in 1 .. Len(c), c[n].kind = "rune", NEW d \in 0 .. n - 1,
         NEW line \in Seq(RunesOf(c)), LineIs(c, d, n - 1, line)
  PROVE  LineIs(c, d, n, Append(line, n))
<1> SUFFICES ASSUME NEW H
             PROVE  Chosen(c, H, Steps(n)) = Chosen(c, H, Steps(d)) \o Chosen(c, H, Append(line, n))
  BY DEF LineIs
<1>1. n \in PlacesIn(c) /\ line \in Seq(PlacesIn(c))
  BY LineOfPlaces DEF PlacesIn
<1>2. Chosen(c, H, Steps(n))
           = IF n \notin H THEN Append(Chosen(c, H, Steps(n - 1)), n) ELSE Chosen(c, H, Steps(n - 1))
  BY ChosenNext
<1>3. Chosen(c, H, Append(line, n)) = IF n \notin H THEN Append(Chosen(c, H, line), n) ELSE Chosen(c, H, line)
  BY <1>1, ChosenAppend
<1>4. Chosen(c, H, Steps(n - 1)) = Chosen(c, H, Steps(d)) \o Chosen(c, H, line)
  BY DEF LineIs
<1>5. PICK s \in Seq(RunesOf(c)) : s = Chosen(c, H, Steps(d))
  <2>1. d \in 0 .. Len(c)
    OBVIOUS
  <2>2. Steps(d) \in Seq(PlacesIn(c))
    BY <2>1, PlaceSteps
  <2>3. Chosen(c, H, Steps(d)) \in Seq(RunesOf(c))
    BY <2>2, ChosenType
  <2> QED BY <2>3, Zenon
<1>6. PICK q \in Seq(RunesOf(c)) : q = Chosen(c, H, line)
  <2>1. Chosen(c, H, line) \in Seq(RunesOf(c))
    BY <1>1, ChosenType
  <2> QED BY <2>1, Zenon
<1>7. PICK p \in RunesOf(c) : p = n
  BY DEF RunesOf
<1>8. s \o Append(q, p) = Append(s \o q, p)
  BY ConcatAppend, SMTT(40)
<1> QED BY <1>2, <1>3, <1>4, <1>5, <1>6, <1>7, <1>8

\* An escape sequence is not.
LEMMA LineIsEscape ==
  ASSUME NEW c \in Seq(Tokens), NEW n \in 1 .. Len(c), c[n].kind # "rune", NEW d,
         NEW line, LineIs(c, d, n - 1, line)
  PROVE  LineIs(c, d, n, line)
<1>1. ASSUME NEW H
      PROVE  Chosen(c, H, Steps(n)) = Chosen(c, H, Steps(n - 1))
  BY ChosenNext
<1> QED BY <1>1 DEF LineIs

\* A line begins.
LEMMA LineIsNone ==
  ASSUME NEW c \in Seq(Tokens), NEW n \in 0 .. Len(c)
  PROVE  LineIs(c, n, n, <<>>)
<1>1. Steps(n) \in Seq(PlacesIn(c))
  BY PlaceSteps
<1>2. ASSUME NEW H
      PROVE  Chosen(c, H, Steps(n)) = Chosen(c, H, Steps(n)) \o Chosen(c, H, <<>>)
  <2>1. PICK s \in Seq(RunesOf(c)) : s = Chosen(c, H, Steps(n))
    <3>1. Chosen(c, H, Steps(n)) \in Seq(RunesOf(c))
      BY <1>1, ChosenType
    <3> QED BY <3>1, Zenon
  <2>2. PICK e \in Seq(PlacesIn(c)) : e = <<>>
    <3>1. <<>> \in Seq(PlacesIn(c))
      OBVIOUS
    <3> QED BY <3>1, Zenon
  <2>3. Chosen(c, H, e) = <<>>
    <3>1. Len(e) = 0
      BY <2>2
    <3> QED BY <3>1, ChosenEmpty
  <2>4. s \o <<>> = s
    OBVIOUS
  <2> QED BY <2>1, <2>2, <2>3, <2>4
<1> QED BY <1>2 DEF LineIs

\* Nothing was read.
LEMMA TextInit == RendererInit => TextInv
<1> SUFFICES ASSUME RendererInit PROVE TextInv
  OBVIOUS
<1>1. content \in Seq(Tokens) /\ at = 0 /\ lineBuf = <<>> /\ buf = <<>> /\ hidden = {}
  BY RendererAssumption DEF RendererInit
<1>2. 0 \in 0 .. Len(content) /\ 0 \in 0 .. at
  BY <1>1
<1>3. LineIs(content, 0, at, lineBuf)
  BY <1>1, <1>2, LineIsNone
<1>4. Rd(buf).text = <<>>
  BY <1>1, RdEmpty DEF Blank
<1>5. HBytes(content, Chosen(content, hidden, Steps(0))) = <<>>
  <2>1. PICK s \in Seq(PlacesIn(content)) : s = Steps(0) /\ Len(s) = 0
    BY <1>1, <1>2, PlaceSteps
  <2>2. Chosen(content, hidden, s) = <<>>
    BY <1>1, <2>1, ChosenEmpty
  <2>3. PICK e \in Seq(RunesOf(content)) : e = <<>>
    <3>1. <<>> \in Seq(RunesOf(content))
      OBVIOUS
    <3> QED BY <3>1, Zenon
  <2>4. HBytes(content, e) = <<>>
    <3>1. Len(e) = 0
      BY <2>3
    <3> QED BY <1>1, <3>1, HBytesEmpty
  <2> QED BY <2>1, <2>2, <2>3, <2>4
<1>6. LineAfter(lineBuf, 0) /\ hidden \subseteq 1 .. 0
  BY <1>1 DEF LineAfter
<1>7. KeptUpTo(0)
  BY <1>3, <1>4, <1>5, <1>6 DEF KeptUpTo
<1> QED BY <1>2, <1>7 DEF TextInv

\* TextInv does not depend on the rest.
LEMMA TextSame ==
  ASSUME TextInv, UNCHANGED <<content, at, lineBuf, buf, hidden>>
  PROVE  TextInv'
<1>1. PICK d \in 0 .. at : KeptUpTo(d)
  BY DEF TextInv
<1>2. KeptUpTo(d)'
  BY <1>1 DEF KeptUpTo, LineIs
<1> QED BY <1>1, <1>2 DEF TextInv

\* An escape sequence has no text.
LEMMA TextEscape ==
  ASSUME RendererInv, TextInv, UNCHANGED <<buf, hidden>>, ReadEscape
  PROVE  TextInv'
<1>1. content \in Seq(Tokens) /\ at \in 0 .. Len(content) /\ at \in Nat /\ lineBuf \in Seq(RunesOf(content))
  BY DEF RendererInv, LineOK
<1>2. /\ at < Len(content) /\ content[at + 1].kind = "escape" /\ at' = at + 1
      /\ UNCHANGED <<content, lineBuf>>
  BY DEF ReadEscape
<1>3. PICK d \in 0 .. at : KeptUpTo(d)
  BY DEF TextInv
<1>4. PICK n \in 1 .. Len(content) : n = at + 1 /\ n - 1 = at
  BY <1>1, <1>2
<1>5. LineIs(content, d, n, lineBuf)
  <2>1. content[n].kind # "rune"
    BY <1>2, <1>4
  <2>2. LineIs(content, d, n - 1, lineBuf)
    BY <1>3, <1>4 DEF KeptUpTo
  <2> QED BY <1>1, <2>1, <2>2, LineIsEscape
<1>6. KeptUpTo(d)'
  BY <1>2, <1>3, <1>4, <1>5 DEF KeptUpTo
<1>7. d \in 0 .. at'
  BY <1>1, <1>2
<1> QED BY <1>6, <1>7 DEF TextInv

\* A rune is in the line.
LEMMA TextRune ==
  ASSUME RendererInv, TextInv, UNCHANGED <<buf, hidden>>, ReadRune, content[at + 1].class # "newline"
  PROVE  TextInv'
<1>1. /\ content \in Seq(Tokens) /\ at \in 0 .. Len(content) /\ at \in Nat /\ lineBuf \in Seq(RunesOf(content))
      /\ \A k \in 1 .. Len(lineBuf) : lineBuf[k] <= at
  BY DEF RendererInv, LineOK
<1>2. /\ at < Len(content) /\ content[at + 1].kind = "rune" /\ at' = at + 1 /\ UNCHANGED content
      /\ lineBuf' = Append(lineBuf, at + 1)
  BY DEF ReadRune
<1>3. PICK d \in 0 .. at : KeptUpTo(d)
  BY DEF TextInv
<1>4. PICK n \in 1 .. Len(content) : n = at + 1 /\ n - 1 = at
  BY <1>1, <1>2
<1>5. LineIs(content, d, n, Append(lineBuf, n))
  <2>1. content[n].kind = "rune" /\ d \in 0 .. n - 1
    BY <1>2, <1>4
  <2>2. LineIs(content, d, n - 1, lineBuf)
    BY <1>3, <1>4 DEF KeptUpTo
  <2> QED BY <1>1, <2>1, <2>2, LineIsRune
<1>6. LineAfter(lineBuf', d)
  <2>1. LineAfter(lineBuf, d)
    BY <1>3 DEF KeptUpTo
  <2> QED BY <1>1, <1>2, <2>1, AppendAfter
<1>7. KeptUpTo(d)'
  <2>1. LineIs(content', d, at', lineBuf')
    BY <1>2, <1>4, <1>5
  <2> QED BY <1>2, <1>3, <1>6, <2>1 DEF KeptUpTo
<1>8. d \in 0 .. at'
  BY <1>1, <1>2
<1> QED BY <1>7, <1>8 DEF TextInv

\* The line of a step that ends it.
LEMMA EndedIsLine ==
  ASSUME RendererInv, NEW d \in 0 .. at, KeptUpTo(d),
         NEW a, NEW line, NEW segs, NEW map, EndsWith(a, line, segs, map)
  PROVE  LineIs(content, d, a, line)
<1>1. content \in Seq(Tokens) /\ at \in 0 .. Len(content) /\ at \in Nat /\ lineBuf \in Seq(RunesOf(content))
  BY DEF RendererInv, LineOK
<1>2. LineIs(content, d, at, lineBuf)
  BY DEF KeptUpTo
<1>3. CASE a = at /\ line = lineBuf
  BY <1>2, <1>3
<1>4. CASE a = at + 1 /\ a <= Len(content) /\ content[a].kind = "rune" /\ line = Append(lineBuf, a)
  <2>1. PICK n \in 1 .. Len(content) : n = a /\ n - 1 = at
    BY <1>1, <1>4
  <2>2. content[n].kind = "rune" /\ d \in 0 .. n - 1 /\ LineIs(content, d, n - 1, lineBuf)
    BY <1>2, <1>4, <2>1
  <2>3. LineIs(content, d, n, Append(lineBuf, n))
    BY <1>1, <2>2, LineIsRune
  <2> QED BY <1>4, <2>1, <2>3
<1> QED BY <1>3, <1>4 DEF EndsWith

\* The line is put out.
LEMMA TextEnd ==
  ASSUME RendererInv, Settled, TextInv, UNCHANGED content, lineBuf' = <<>>, hidden' \subseteq 1 .. at',
         NEW a, NEW line, NEW segs, NEW map, EndsWith(a, line, segs, map), Ended(Rd(buf), line, segs, map)
  PROVE  TextInv'
<1>1. content \in Seq(Tokens) /\ at \in 0 .. Len(content) /\ at \in Nat
  BY DEF RendererInv, LineOK
<1>2. PICK d \in 0 .. at : KeptUpTo(d)
  BY DEF TextInv
<1>3. /\ hidden \subseteq 1 .. d /\ LineAfter(lineBuf, d)
      /\ Rd(buf).text = HBytes(content, Chosen(content, hidden, Steps(d)))
  BY <1>2 DEF KeptUpTo
<1>4. /\ a \in Nat /\ d <= a /\ a <= Len(content) /\ line \in Seq(RunesOf(content)) /\ LineAfter(line, d)
      /\ \A k \in 1 .. Len(line) : line[k] <= a
  BY <1>2, <1>3, EndedInOrder
<1>5. LineIs(content, d, a, line)
  BY <1>2, EndedIsLine
<1>6. LineOK(content, a, line, segs, FALSE, map, terminalState) /\ Len(line) > 0 /\ a = at'
  BY DEF EndsWith
<1>7. \A x \in 1 .. Len(line) : line[x] \notin hidden
  <2> SUFFICES ASSUME NEW x \in 1 .. Len(line) PROVE line[x] \notin hidden
    OBVIOUS
  <2>1. d < line[x]
    BY <1>4 DEF LineAfter
  <2>2. line[x] \in Nat
    BY <1>1, <1>4, RuneType
  <2>3. line[x] \notin 1 .. d
    BY <1>2, <2>1, <2>2
  <2> QED BY <1>3, <2>3
<1>8. PICK K : K = hidden'
  OBVIOUS
<1>9. PICK tx : tx = HBytes(content, Chosen(content, K, line))
  OBVIOUS
<1>10. PICK r : r = Rd(buf)
  OBVIOUS
<1>11. r.text \in ByteSeqs
  BY <1>10, SettledFields
<1>12. Rd(buf').text = r.text \o tx /\ \A p \in 1 .. d : p \in K <=> p \in hidden
  <2>1. CASE Shows(buf', r) /\ hidden' = hidden \cup ToSet(line)
    <3>1. tx = <<>>
      BY <1>1, <1>4, <1>8, <1>9, <2>1, MetaText
    <3>2. Rd(buf').text = r.text
      BY <2>1 DEF Shows, Outside
    <3>3. PICK h \in Seq(ByteSet) : h = r.text
      BY <1>11, Zenon DEF ByteSeqs
    <3>4. h \o <<>> = h
      OBVIOUS
    <3>5. ASSUME NEW p \in 1 .. d
          PROVE  p \notin ToSet(line)
      <4>1. SUFFICES ASSUME NEW x \in DOMAIN line, p = line[x] PROVE FALSE
        BY DEF ToSet
      <4>2. x \in 1 .. Len(line)
        BY <1>4
      <4>3. d < line[x]
        BY <1>4, <4>2 DEF LineAfter
      <4> QED BY <1>2, <4>1, <4>3
    <3> QED BY <1>8, <2>1, <3>1, <3>2, <3>3, <3>4, <3>5
  <2>2. CASE PutOut(buf', r.links, r.text, r.seen, line, segs, map) /\ hidden' = hidden \cup CutOf(segs, line)
    <3>1. tx = NewText(segs, line)
      <4>1. K = hidden \cup CutOf(segs, line)
        BY <1>8, <2>2
      <4>2. d \in Nat
        BY <1>1, <1>2
      <4>3. HBytes(content, Chosen(content, K, line)) = NewText(segs, line)
        BY <1>1, <1>4, <1>6, <1>7, <4>1, <4>2, CutText
      <4> QED BY <1>9, <4>3
    <3>2. Rd(buf').text = r.text \o NewText(segs, line)
      BY <2>2 DEF PutOut, Outside
    <3>3. ASSUME NEW p \in 1 .. d
          PROVE  p \notin CutOf(segs, line)
      <4>1. SUFFICES ASSUME p \in CutOf(segs, line) PROVE FALSE
        OBVIOUS
      <4>2. PICK x \in 1 .. Len(line) : line[x] = p
        <5>1. CutIn(segs, line)
          BY <1>1, <1>6, CutIsOfLine
        <5> QED BY <4>1, <5>1 DEF CutIn
      <4>3. d < line[x]
        BY <1>4 DEF LineAfter
      <4> QED BY <1>2, <4>2, <4>3
    <3> QED BY <1>8, <2>2, <3>1, <3>2, <3>3
  <2> QED BY <1>10, <2>1, <2>2 DEF Ended
<1>13. d \in 0 .. Len(content)
  BY <1>1, <1>2
<1>14. PICK s \in Seq(RunesOf(content)) : s = Chosen(content, hidden, Steps(d)) /\ s = Chosen(content, K, Steps(d))
  <2>1. Chosen(content, K, Steps(d)) = Chosen(content, hidden, Steps(d))
    BY <1>1, <1>12, <1>13, ChosenSame
  <2>2. Steps(d) \in Seq(PlacesIn(content))
    BY <1>1, <1>13, PlaceSteps
  <2>3. Chosen(content, hidden, Steps(d)) \in Seq(RunesOf(content))
    BY <1>1, <2>2, ChosenType
  <2> QED BY <2>1, <2>3, Zenon
<1>15. PICK q \in Seq(RunesOf(content)) : q = Chosen(content, K, line)
  <2>1. line \in Seq(PlacesIn(content))
    BY <1>1, <1>4, LineOfPlaces
  <2>2. Chosen(content, K, line) \in Seq(RunesOf(content))
    BY <1>1, <2>1, ChosenType
  <2> QED BY <2>2, Zenon
<1>16. Chosen(content, K, Steps(a)) = s \o q
  BY <1>5, <1>14, <1>15 DEF LineIs
<1>17. HBytes(content, s \o q) = HBytes(content, s) \o HBytes(content, q)
  BY <1>1, HBytesConcat
<1>18. Rd(buf').text = HBytes(content, Chosen(content, K, Steps(a)))
  BY <1>3, <1>9, <1>10, <1>12, <1>14, <1>15, <1>16, <1>17
<1>19. LineIs(content, a, a, <<>>)
  <2>1. a \in 0 .. Len(content)
    BY <1>4
  <2> QED BY <1>1, <2>1, LineIsNone
<1>20. LineAfter(<<>>, a)
  BY DEF LineAfter
<1>21. KeptUpTo(a)'
  BY <1>6, <1>8, <1>18, <1>19, <1>20 DEF KeptUpTo
<1>22. a \in 0 .. at'
  BY <1>4, <1>6
<1> QED BY <1>21, <1>22 DEF TextInv

\* TextInv is inductive, with RendererInv and Settled.
LEMMA TextStep ==
  RendererInv /\ Settled /\ TextInv /\ [RendererNext]_rendererVars => TextInv'
<1> SUFFICES ASSUME RendererInv, Settled, TextInv, [RendererNext]_rendererVars PROVE TextInv'
  OBVIOUS
<1>1. CASE UNCHANGED rendererVars
  BY <1>1, TextSame DEF rendererVars, lineVars, articleVars
<1>2. CASE RendererNext
  <2>1. hidden' \subseteq 1 .. at'
    <3>1. RendererInv'
      BY <1>2, RendererTypeStep
    <3> QED BY <3>1 DEF RendererInv, ArticleOK
  <2> QED BY <1>2, <2>1, EndingStep, TextEscape, TextRune, TextEnd
<1> QED BY <1>1, <1>2

\* HtmlOf is HBytes.
LEMMA HtmlOfIs ==
  ASSUME content \in Seq(Tokens), NEW ps \in Seq(RunesOf(content))
  PROVE  HtmlOf(ps) = HBytes(content, ps)
<1>1. PICK op : op = HtmlFn(content)
  OBVIOUS
<1>2. PICK R : R = RunesOf(content)
  OBVIOUS
<1>3. IsOp(ByteSeqs, R, op) /\ NoBytes \in ByteSeqs
  BY <1>1, <1>2, HtmlFnType
<1>4. PICK b \in ByteSeqs : b = NoBytes
  BY <1>3
<1>5. PICK s \in Seq(R) : s = ps
  BY <1>2
<1> DEFINE Good(it) == it = [r \in SUBSET (DOMAIN s) |->
                               IF r = {} THEN b ELSE it[r \ {Max(r)}] \o RuneBytes(content, s[Max(r)])]
           it == CHOOSE it : Good(it)
<1>6. HtmlOf(ps) = it[DOMAIN s]
  BY <1>4, <1>5 DEF HtmlOf, NoBytes, FoldLeft, MapThenFoldSet
<1>7. PICK g \in Iterates(ByteSeqs, R, op, b, s) : TRUE
  BY <1>3, IterateExists
<1>8. Good(g)
  <2>1. ASSUME NEW r \in SUBSET (DOMAIN s), r # {}
        PROVE  g[r] = g[r \ {Max(r)}] \o RuneBytes(content, s[Max(r)])
    <3>1. PICK u \in ByteSeqs : u = g[r \ {Max(r)}]
      BY <1>7, <2>1 DEF Iterates
    <3>2. PICK p \in R : p = s[Max(r)]
      BY <1>7, <2>1 DEF Iterates
    <3>3. g[r] = op[<<u, p>>]
      BY <1>7, <2>1, <3>1, <3>2 DEF Iterates
    <3>4. op[<<u, p>>] = u \o RuneBytes(content, p)
      BY <1>1, <1>2 DEF HtmlFn
    <3> QED BY <3>1, <3>2, <3>3, <3>4
  <2>2. g[{}] = b /\ DOMAIN g = SUBSET (DOMAIN s) /\ g = [r \in SUBSET (DOMAIN s) |-> g[r]]
    BY <1>7 DEF Iterates
  <2>3. \A r \in SUBSET (DOMAIN s) :
          g[r] = IF r = {} THEN b ELSE g[r \ {Max(r)}] \o RuneBytes(content, s[Max(r)])
    BY <2>1, <2>2, ZenonT(60)
  <2> QED BY <2>2, <2>3
<1>9. Good(it)
  BY <1>8, ZenonT(60)
<1> HIDE DEF it
<1>10. Iterated(ByteSeqs, op, b, s, it)
  <2> SUFFICES ASSUME NEW r \in SUBSET (DOMAIN s)
               PROVE  /\ r = {} => it[r] = b
                      /\ r # {} /\ it[r \ {Max(r)}] \in ByteSeqs
                           => it[r] = op[<<it[r \ {Max(r)}], s[Max(r)]>>]
    BY DEF Iterated
  <2>1. it[r] = IF r = {} THEN b ELSE it[r \ {Max(r)}] \o RuneBytes(content, s[Max(r)])
    BY <1>9
  <2>2. r # {} => s[Max(r)] \in R
    BY <1>7 DEF Iterates
  <2> QED BY <1>1, <1>2, <2>1, <2>2 DEF HtmlFn
<1>11. it[DOMAIN s] = FoldFn(ByteSeqs, op, b, s)
  BY <1>3, <1>10, IteratedIsFold
<1> QED BY <1>1, <1>4, <1>5, <1>6, <1>11 DEF HBytes

\* Shown is what is chosen.
LEMMA ShownIs ==
  ASSUME content \in Seq(Tokens), NEW n \in 0 .. Len(content), n = at
  PROVE  Shown = Chosen(content, hidden, Steps(n))
<1>1. PICK s \in Seq(PlacesIn(content)) : s = Steps(n)
  <2>1. Steps(n) \in Seq(PlacesIn(content))
    BY PlaceSteps
  <2> QED BY <2>1, Zenon
<1>2. PICK op : op = ShowFn(content, hidden)
  OBVIOUS
<1>3. IsOp(RuneSeqs(content), PlacesIn(content), op) /\ NoRunes \in RuneSeqs(content)
  BY <1>2, ShowFnType
<1>a. PICK T : T = RuneSeqs(content)
  OBVIOUS
<1>4. PICK b \in T : b = NoRunes
  BY <1>3, <1>a
<1> DEFINE Pass(t, p) == IF content[p].kind = "rune" /\ p \notin hidden THEN Append(t, p) ELSE t
           Good(it) == it = [r \in SUBSET (DOMAIN s) |->
                               IF r = {} THEN b ELSE Pass(it[r \ {Max(r)}], s[Max(r)])]
           it == CHOOSE it : Good(it)
<1>5. Shown = it[DOMAIN s]
  BY <1>1, <1>4 DEF Shown, Steps, NoRunes, FoldLeft, MapThenFoldSet
<1>6. PICK g \in Iterates(T, PlacesIn(content), op, b, s) : TRUE
  BY <1>3, <1>a, IterateExists
<1>7. Good(g)
  <2>1. ASSUME NEW r \in SUBSET (DOMAIN s), r # {}
        PROVE  g[r] = Pass(g[r \ {Max(r)}], s[Max(r)])
    <3>1. PICK u \in T : u = g[r \ {Max(r)}]
      BY <1>6, <2>1 DEF Iterates
    <3>2. PICK p \in PlacesIn(content) : p = s[Max(r)]
      BY <1>6, <2>1 DEF Iterates
    <3>3. g[r] = op[<<u, p>>]
      BY <1>6, <2>1, <3>1, <3>2 DEF Iterates
    <3>4. op[<<u, p>>] = Pass(u, p)
      BY <1>2, <1>a DEF ShowFn
    <3> QED BY <3>1, <3>2, <3>3, <3>4
  <2>2. g[{}] = b /\ DOMAIN g = SUBSET (DOMAIN s) /\ g = [r \in SUBSET (DOMAIN s) |-> g[r]]
    BY <1>6 DEF Iterates
  <2>3. \A r \in SUBSET (DOMAIN s) :
          g[r] = IF r = {} THEN b ELSE Pass(g[r \ {Max(r)}], s[Max(r)])
    BY <2>1, <2>2, ZenonT(60)
  <2> QED BY <2>2, <2>3
<1>8. Good(it)
  BY <1>7, ZenonT(60)
<1> HIDE DEF it
<1>9. Iterated(T, op, b, s, it)
  <2> SUFFICES ASSUME NEW r \in SUBSET (DOMAIN s)
               PROVE  /\ r = {} => it[r] = b
                      /\ r # {} /\ it[r \ {Max(r)}] \in T
                           => it[r] = op[<<it[r \ {Max(r)}], s[Max(r)]>>]
    BY DEF Iterated
  <2>1. it[r] = IF r = {} THEN b ELSE Pass(it[r \ {Max(r)}], s[Max(r)])
    BY <1>8
  <2>2. r # {} => s[Max(r)] \in PlacesIn(content)
    BY <1>6 DEF Iterates
  <2> QED BY <1>2, <1>a, <2>1, <2>2 DEF ShowFn
<1>10. it[DOMAIN s] = FoldFn(T, op, b, s)
  BY <1>3, <1>9, <1>a, IteratedIsFold
<1> QED BY <1>1, <1>2, <1>4, <1>5, <1>10, <1>a DEF Chosen

\* For every article, the text of its HTML is all of its runes in their
\* order, but for those of meta data and the spaces that a push is trimmed
\* of: nothing is lost, doubled or moved by the segments, the links and the
\* marks.
THEOREM AllTextIsKept == RendererSpec => []TextIsKept
<1>1. RendererSpec => [](RendererInv /\ Settled /\ TextInv)
  BY RendererStarts, RendererTypeStep, SettledInit, SettledStep, TextInit, TextStep, PTL DEF RendererSpec
<1>2. RendererInv /\ Settled /\ TextInv => TextIsKept
  <2> SUFFICES ASSUME RendererInv, Settled, TextInv PROVE TextIsKept
    OBVIOUS
  <2>1. content \in Seq(Tokens) /\ at \in 0 .. Len(content) /\ lineBuf \in Seq(RunesOf(content))
    BY DEF RendererInv, LineOK
  <2>2. ReaderOf(buf) = Rd(buf)
    BY ReaderIs DEF Settled, Shows, Outside
  <2>3. PICK d \in 0 .. at : KeptUpTo(d)
    BY DEF TextInv
  <2>4. \A x \in 1 .. Len(lineBuf) : lineBuf[x] \notin hidden
    <3> SUFFICES ASSUME NEW x \in 1 .. Len(lineBuf) PROVE lineBuf[x] \notin hidden
      OBVIOUS
    <3>1. d < lineBuf[x] /\ hidden \subseteq 1 .. d
      BY <2>3 DEF KeptUpTo, LineAfter
    <3>2. lineBuf[x] \in Nat
      BY <2>1, RuneType
    <3>3. lineBuf[x] \notin 1 .. d
      BY <2>1, <2>3, <3>1, <3>2
    <3> QED BY <3>1, <3>3
  <2>5. HBytes(content, Chosen(content, hidden, lineBuf)) = HBytes(content, lineBuf)
    <3>1. PICK L \in Nat : L = Len(lineBuf)
      BY <2>1
    <3>2. CutAt(lineBuf, hidden, 1, 1)
      <4>1. 1 \in 1 .. L + 1
        BY <3>1
      <4>2. \A x \in 1 .. L : ~(1 <= x /\ x < 1)
        OBVIOUS
      <4> QED BY <2>4, <3>1, <4>1, <4>2 DEF CutAt
    <3>3. HBytes(content, Chosen(content, hidden, lineBuf))
            = HtmlFrom(content, lineBuf, 1, 1) \o HtmlFrom(content, lineBuf, 1, Len(lineBuf) + 1)
      BY <2>1, <3>2, ChosenCut
    <3>4. HtmlFrom(content, lineBuf, 1, 1) = <<>>
      <4>1. 1 \in 1 .. Len(lineBuf) + 1 /\ 1 <= 1
        BY <3>1
      <4> QED BY <2>1, <4>1, HtmlFromType
    <3>5. HtmlFrom(content, lineBuf, 1, Len(lineBuf) + 1) = HBytes(content, lineBuf)
      <4>1. SubSeq(lineBuf, 1, (L + 1) - 1) = lineBuf
        BY <2>1, <3>1
      <4> QED BY <3>1, <4>1 DEF HtmlFrom
    <3>6. PICK h \in Seq(ByteSet) : h = HBytes(content, lineBuf)
      <4>1. HBytes(content, lineBuf) \in Seq(ByteSet)
        BY <2>1, HBytesType
      <4> QED BY <4>1, Zenon
    <3>7. <<>> \o h = h
      OBVIOUS
    <3> QED BY <3>3, <3>4, <3>5, <3>6, <3>7
  <2>6. PICK s \in Seq(RunesOf(content)) : s = Chosen(content, hidden, Steps(d))
    <3>1. d \in 0 .. Len(content)
      BY <2>1
    <3>2. Steps(d) \in Seq(PlacesIn(content))
      BY <2>1, <3>1, PlaceSteps
    <3>3. Chosen(content, hidden, Steps(d)) \in Seq(RunesOf(content))
      BY <2>1, <3>2, ChosenType
    <3> QED BY <3>3, Zenon
  <2>7. PICK q \in Seq(RunesOf(content)) : q = Chosen(content, hidden, lineBuf)
    <3>1. lineBuf \in Seq(PlacesIn(content))
      BY <2>1, LineOfPlaces
    <3>2. Chosen(content, hidden, lineBuf) \in Seq(RunesOf(content))
      BY <2>1, <3>1, ChosenType
    <3> QED BY <3>2, Zenon
  <2>8. Shown = s \o q
    <3>1. Shown = Chosen(content, hidden, Steps(at))
      BY <2>1, ShownIs
    <3> QED BY <2>3, <2>6, <2>7, <3>1 DEF KeptUpTo, LineIs
  <2>9. HtmlOf(Shown) = HBytes(content, s) \o HBytes(content, q)
    <3>1. PICK u \in Seq(RunesOf(content)) : u = s \o q
      <4>1. s \o q \in Seq(RunesOf(content))
        OBVIOUS
      <4> QED BY <4>1, Zenon
    <3>2. HtmlOf(u) = HBytes(content, u)
      BY <2>1, HtmlOfIs
    <3>3. HBytes(content, s \o q) = HBytes(content, s) \o HBytes(content, q)
      BY <2>1, HBytesConcat
    <3> QED BY <2>8, <3>1, <3>2, <3>3
  <2>10. HtmlOf(lineBuf) = HBytes(content, q)
    <3>1. HtmlOf(lineBuf) = HBytes(content, lineBuf)
      BY <2>1, HtmlOfIs
    <3> QED BY <2>5, <2>7, <3>1
  <2>11. Rd(buf).text = HBytes(content, s)
    BY <2>3, <2>6 DEF KeptUpTo
  <2> QED BY <2>2, <2>9, <2>10, <2>11 DEF TextIsKept
<1> QED BY <1>1, <1>2, PTL

-----------------------------------------------------------------------------
(* The parameters of an escape sequence *)

\* One more digit.
DigitFn == [x \in Lengths \X Digits |-> 10 * x[1] + (x[2] - 48)]

\* It is a step on numbers.
LEMMA DigitFnType == IsOp(Lengths, Digits, DigitFn) /\ Zero \in Lengths
<1>1. \A n \in Nat : \A r \in 48 .. 57 : 10 * n + (r - 48) \in Nat
  OBVIOUS
<1> QED BY <1>1 DEF IsOp, DigitFn, Digits, Lengths, Zero

\* Digits stand for a number.
LEMMA NumberOfDigits ==
  ASSUME NEW part \in Seq(Digits)
  PROVE  NumberOf(part) \in Nat /\ NumberOf(part) = FoldFn(Lengths, DigitFn, Zero, part)
<1> DEFINE Grow(n, r) == 10 * n + (r - 48)
           Good(it) == it = [r \in SUBSET (DOMAIN part) |->
                               IF r = {} THEN 0 ELSE Grow(it[r \ {Max(r)}], part[Max(r)])]
           it == CHOOSE it : Good(it)
<1>2. NumberOf(part) = it[DOMAIN part]
  BY DEF NumberOf, FoldLeft, MapThenFoldSet
<1>3. PICK g \in Iterates(Lengths, Digits, DigitFn, Zero, part) : TRUE
  BY DigitFnType, IterateExists
<1>4. Good(g)
  BY <1>3 DEF Iterates, DigitFn, Zero
<1>5. Good(it)
  BY <1>4
<1> HIDE DEF it
<1>6. Iterated(Lengths, DigitFn, Zero, part, it)
  <2> SUFFICES ASSUME NEW r \in SUBSET (DOMAIN part)
               PROVE  /\ r = {} => it[r] = Zero
                      /\ r # {} /\ it[r \ {Max(r)}] \in Lengths
                           => it[r] = DigitFn[<<it[r \ {Max(r)}], part[Max(r)]>>]
    BY DEF Iterated
  <2>1. it[r] = IF r = {} THEN 0 ELSE Grow(it[r \ {Max(r)}], part[Max(r)])
    BY <1>5
  <2>2. r # {} => part[Max(r)] \in Digits
    BY <1>3 DEF Iterates
  <2> QED BY <2>1, <2>2 DEF DigitFn, Zero
<1>7. it[DOMAIN part] \in Lengths /\ it[DOMAIN part] = FoldFn(Lengths, DigitFn, Zero, part)
  BY <1>6, DigitFnType, IteratedIsFold
<1> QED BY <1>2, <1>7 DEF Lengths

\* Other text is no number, nor is one that is no int.
LEMMA AtoiType ==
  ASSUME NEW part \in Seq(Nat)
  PROVE  Atoi(part) \in Nat \cup {-1}
<1>1. CASE \A i \in DOMAIN part : part[i] \in Digits
  <2>1. part \in Seq(Digits)
    BY <1>1
  <2>2. NumberOf(part) \in Nat
    BY <2>1, NumberOfDigits
  <2> QED BY <2>2 DEF Atoi
<1>2. CASE ~(\A i \in DOMAIN part : part[i] \in Digits)
  BY <1>2 DEF Atoi
<1> QED BY <1>1, <1>2

\* What is no number becomes none by more runes.
LEMMA NoNumberGrows ==
  ASSUME NEW part \in Seq(Nat), NEW r \in Nat, Atoi(part) = -1
  PROVE  Atoi(Append(part, r)) = -1
<1>1. PICK more \in Seq(Nat) : more = Append(part, r)
  <2>1. Append(part, r) \in Seq(Nat)
    OBVIOUS
  <2> QED BY <2>1, Zenon
<1>2. \A i \in DOMAIN part : i \in DOMAIN more /\ more[i] = part[i]
  BY <1>1
<1>3. CASE ~(\A i \in DOMAIN more : more[i] \in Digits)
  BY <1>1, <1>3 DEF Atoi
<1>4. CASE \A i \in DOMAIN more : more[i] \in Digits
  <2>1. part \in Seq(Digits)
    BY <1>2, <1>4
  <2>2. more \in Seq(Digits)
    BY <1>4
  <2>3. r \in Digits
    <3>1. Len(more) = Len(part) + 1 /\ more[Len(part) + 1] = r /\ Len(part) + 1 \in DOMAIN more
      BY <1>1
    <3> QED BY <1>4, <3>1
  <2>4. PICK n \in Nat : n = NumberOf(part) /\ n = FoldFn(Lengths, DigitFn, Zero, part)
    BY <2>1, NumberOfDigits
  <2>5. PICK m \in Nat : m = NumberOf(more) /\ m = FoldFn(Lengths, DigitFn, Zero, more)
    BY <2>2, NumberOfDigits
  <2>6. m = DigitFn[<<n, r>>]
    BY <1>1, <2>1, <2>3, <2>4, <2>5, DigitFnType, FoldFnAppend
  <2>7. m = 10 * n + (r - 48)
    BY <2>3, <2>4, <2>6 DEF DigitFn, Lengths
  <2>8. n > MaxInt
    <3>1. \A i \in DOMAIN part : part[i] \in Digits
      BY <1>2, <1>4
    <3>2. n <= MaxInt => Atoi(part) = n
      BY <2>4, <3>1 DEF Atoi
    <3>3. ~(n <= MaxInt)
      BY <3>2
    <3> QED BY <3>3, ParserAssumption
  <2>9. m > MaxInt
    BY <2>3, <2>7, <2>8, ParserAssumption DEF Digits
  <2> QED BY <1>1, <2>5, <2>9, ParserAssumption DEF Atoi
<1> QED BY <1>3, <1>4

\* Runes and numbers.
NatSeqs == Seq(Nat)
\* What ParseNumbers keeps.
ParseStates == [part : NatSeqs, nums : NatSeqs]
\* The positions in the buffer.
PositionsIn(b) == 1 .. Len(b)
\* ParameterRune, for the folds.
ParseFn(b) == [x \in ParseStates \X PositionsIn(b) |-> ParameterRune(b, x[1], x[2])]

\* A parameter ends.
LEMMA EndParameterType ==
  ASSUME NEW st \in ParseStates
  PROVE  EndParameter(st) \in ParseStates
<1>1. st.part \in Seq(Nat) /\ st.nums \in Seq(Nat) /\ st = [part |-> st.part, nums |-> st.nums]
  BY DEF ParseStates, NatSeqs
<1>2. Append(st.nums, 0) \in Seq(Nat)
  BY <1>1
<1>3. Atoi(st.part) # -1 => Append(st.nums, Atoi(st.part)) \in Seq(Nat)
  <2>1. Atoi(st.part) \in Nat \cup {-1}
    BY <1>1, AtoiType
  <2> QED BY <1>1, <2>1
<1>4. <<>> \in Seq(Nat)
  OBVIOUS
<1> QED BY <1>1, <1>2, <1>3, <1>4 DEF EndParameter, ParseStates, NatSeqs

\* ParameterRune is a step on that.
LEMMA ParseFnType ==
  ASSUME NEW b \in NatSeqs
  PROVE  IsOp(ParseStates, PositionsIn(b), ParseFn(b))
<1>1. ASSUME NEW st \in ParseStates, NEW i \in PositionsIn(b)
      PROVE  ParameterRune(b, st, i) \in ParseStates
  <2>1. b[i] \in Nat
    BY DEF PositionsIn, NatSeqs
  <2>2. st.part \in Seq(Nat) /\ st.nums \in Seq(Nat) /\ st = [part |-> st.part, nums |-> st.nums]
    BY DEF ParseStates, NatSeqs
  <2>3. Append(st.part, b[i]) \in Seq(Nat)
    BY <2>1, <2>2
  <2>4. PICK grown \in ParseStates :
          grown = IF b[i] # Semicolon THEN [st EXCEPT !.part = Append(@, b[i])] ELSE st
    BY <2>2, <2>3 DEF ParseStates, NatSeqs
  <2>5. EndParameter(grown) \in ParseStates
    BY EndParameterType
  <2> QED BY <2>4, <2>5 DEF ParameterRune
<1> QED BY <1>1 DEF IsOp, ParseFn

\* Nothing is parsed.
LEMMA NoNumbersType == NoNumbers \in ParseStates
<1>1. <<>> \in Seq(Nat)
  OBVIOUS
<1> QED BY <1>1 DEF NoNumbers, ParseStates, NatSeqs

\* The positions, in order.
LEMMA PositionSteps ==
  ASSUME NEW b \in NatSeqs, NEW n \in 0 .. Len(b)
  PROVE  /\ Steps(n) \in Seq(PositionsIn(b)) /\ Len(Steps(n)) = n
         /\ \A k \in 1 .. n : Steps(n)[k] = k
<1>1. n \in Nat /\ \A k \in 1 .. n : k \in 1 .. Len(b)
  OBVIOUS
<1> QED BY <1>1 DEF Steps, PositionsIn

\* What the first n runes of b make of the loop's variables.
ParsedTo(b, n) == FoldFn(ParseStates, ParseFn(b), NoNumbers, Steps(n))

\* Nothing is parsed yet.
LEMMA ParsedNone ==
  ASSUME NEW b \in NatSeqs
  PROVE  ParsedTo(b, 0) = NoNumbers
<1>1. PICK q \in Seq(PositionsIn(b)) : q = Steps(0) /\ Len(q) = 0
  <2>1. 0 \in 0 .. Len(b)
    BY DEF NatSeqs
  <2> QED BY <2>1, PositionSteps
<1>2. FoldFn(ParseStates, ParseFn(b), NoNumbers, q) = NoNumbers
  BY <1>1, ParseFnType, NoNumbersType, FoldFnEmpty
<1> QED BY <1>1, <1>2 DEF ParsedTo

\* One more rune.
LEMMA ParsedNext ==
  ASSUME NEW b \in NatSeqs, NEW n \in 1 .. Len(b)
  PROVE  /\ ParsedTo(b, n - 1) \in ParseStates /\ ParsedTo(b, n) \in ParseStates
         /\ ParsedTo(b, n) = ParameterRune(b, ParsedTo(b, n - 1), n)
<1>1. PICK q \in Seq(PositionsIn(b)) : q = Steps(n) /\ Len(q) = n /\ q[n] = n
  <2>1. n \in 0 .. Len(b) /\ n \in 1 .. n
    OBVIOUS
  <2> QED BY <2>1, PositionSteps
<1>2. PICK op : op = ParseFn(b)
  OBVIOUS
<1>3. IsOp(ParseStates, PositionsIn(b), op)
  BY <1>2, ParseFnType
<1>4. SubSeq(q, 1, n - 1) = Steps(n - 1)
  <2>1. n - 1 \in 0 .. n /\ n \in Nat
    OBVIOUS
  <2> QED BY <1>1, <2>1, StepsCut DEF Lengths
<1>5. SubSeq(q, 1, n) = q
  BY <1>1
<1>6. n \in 1 .. Len(q)
  BY <1>1
<1>7. /\ FoldFn(ParseStates, op, NoNumbers, SubSeq(q, 1, n - 1)) \in ParseStates
      /\ FoldFn(ParseStates, op, NoNumbers, SubSeq(q, 1, n))
           = op[<<FoldFn(ParseStates, op, NoNumbers, SubSeq(q, 1, n - 1)), q[n]>>]
  BY <1>3, <1>6, NoNumbersType, FoldFnPrefix
<1>8. ParsedTo(b, n - 1) \in ParseStates /\ ParsedTo(b, n) = op[<<ParsedTo(b, n - 1), n>>]
  BY <1>1, <1>2, <1>4, <1>5, <1>7 DEF ParsedTo
<1>9. n \in PositionsIn(b)
  BY DEF PositionsIn
<1>10. op[<<ParsedTo(b, n - 1), n>>] = ParameterRune(b, ParsedTo(b, n - 1), n)
  <2>1. \A st \in ParseStates : op[<<st, n>>] = ParameterRune(b, st, n)
    BY <1>2, <1>9 DEF ParseFn
  <2> QED BY <1>8, <2>1
<1>11. op[<<ParsedTo(b, n - 1), n>>] \in ParseStates
  BY <1>3, <1>8, <1>9 DEF IsOp
<1> QED BY <1>8, <1>10, <1>11

\* ParseNumbers is the loop over all of b; it makes numbers of any runes.
LEMMA ParseNumbersIs ==
  ASSUME NEW b \in NatSeqs
  PROVE  /\ ParseNumbers(b) = ParsedTo(b, Len(b)).nums
         /\ ParseNumbers(b) \in Seq(Nat)
<1>1. PICK q \in Seq(PositionsIn(b)) : q = Steps(Len(b))
  <2>1. Steps(Len(b)) \in Seq(PositionsIn(b))
    <3>1. PICK n \in 0 .. Len(b) : n = Len(b)
      BY DEF NatSeqs
    <3> QED BY <3>1, PositionSteps
  <2> QED BY <2>1, Zenon
<1>2. PICK op : op = ParseFn(b)
  OBVIOUS
<1>3. IsOp(ParseStates, PositionsIn(b), op)
  BY <1>2, ParseFnType
<1>4. PICK z \in ParseStates : z = NoNumbers
  BY NoNumbersType
<1> DEFINE Good(it) == it = [r \in SUBSET (DOMAIN q) |->
                               IF r = {} THEN z ELSE ParameterRune(b, it[r \ {Max(r)}], q[Max(r)])]
           it == CHOOSE it : Good(it)
<1>5. ParseNumbers(b) = it[DOMAIN q].nums
  BY <1>1, <1>4 DEF ParseNumbers, Steps, FoldLeft, MapThenFoldSet
<1>6. PICK g \in Iterates(ParseStates, PositionsIn(b), op, z, q) : TRUE
  BY <1>3, IterateExists
<1>7. Good(g)
  BY <1>2, <1>6 DEF Iterates, ParseFn
<1>8. Good(it)
  BY <1>7
<1> HIDE DEF it
<1>9. Iterated(ParseStates, op, z, q, it)
  <2> SUFFICES ASSUME NEW r \in SUBSET (DOMAIN q)
               PROVE  /\ r = {} => it[r] = z
                      /\ r # {} /\ it[r \ {Max(r)}] \in ParseStates
                           => it[r] = op[<<it[r \ {Max(r)}], q[Max(r)]>>]
    BY DEF Iterated
  <2>1. it[r] = IF r = {} THEN z ELSE ParameterRune(b, it[r \ {Max(r)}], q[Max(r)])
    BY <1>8
  <2>2. r # {} => q[Max(r)] \in PositionsIn(b)
    BY <1>6 DEF Iterates
  <2> QED BY <1>2, <2>1, <2>2 DEF ParseFn
<1>10. it[DOMAIN q] = FoldFn(ParseStates, op, z, q) /\ it[DOMAIN q] \in ParseStates
  BY <1>3, <1>9, IteratedIsFold
<1>11. it[DOMAIN q] = ParsedTo(b, Len(b))
  BY <1>1, <1>2, <1>4, <1>10 DEF ParsedTo
<1> QED BY <1>5, <1>10, <1>11 DEF ParseStates, NatSeqs

-----------------------------------------------------------------------------
(* What they make of the terminal state *)

\* The spans that count and end at n or before, and those that have something to say.
CountedTo(b, n) == {p \in Counted(b) : p[2] <= n}
HitsTo(b, n, values) == {p \in CountedTo(b, n) : ValueOf(b, p) \in values \cup {0}}

\* v is the value of the last of them, or -1.
Decided(b, n, values, v) ==
  \/ v = -1 /\ HitsTo(b, n, values) = {}
  \/ \E p \in HitsTo(b, n, values) :
       v = ValueOf(b, p) /\ \A q \in HitsTo(b, n, values) : q[1] <= p[1]

\* The state t, with f, g and h decided, -1 for undecided.
Styling(t, f, g, h) ==
  Color(IF f = -1 THEN t.fg ELSE IF f = 0 THEN 7 ELSE f - 30,
        IF g = -1 THEN t.bg ELSE IF g = 0 THEN 0 ELSE g - 40,
        IF h = -1 THEN t.flags ELSE IF h = 1 THEN NoFlags \cup Highlighted ELSE NoFlags)

\* The values that decide an attribute.
Fgs == 30 .. 37
\* The parameters that set a background, and those that set or end the highlight.
Bgs == 40 .. 47
Highs == {1, 22}
\* What v says on an attribute that old was decided for.
Says(values, v, old) == IF v \in values \cup {0} THEN v ELSE old
\* What an attribute that these parameters may set can be, or not be, set to.
Attribute(values) == values \cup {0, -1}

\* A parameter does to the state what it has to say about each attribute.
LEMMA ControlStyles ==
  ASSUME NEW t \in TerminalStates, NoFlags \subseteq t.flags,
         NEW f \in Attribute(Fgs), NEW g \in Attribute(Bgs), NEW h \in Attribute(Highs), NEW v \in Nat
  PROVE  Control(Styling(t, f, g, h), v)
           = Styling(t, Says(Fgs, v, f), Says(Bgs, v, g), Says(Highs, v, h))
<1>1. /\ t.fg \in 0 .. 7 /\ t.bg \in 0 .. 7
      /\ t.flags = NoFlags \/ t.flags = NoFlags \cup Highlighted
  BY DEF TerminalStates, NoFlags, Highlighted
<1>2. PICK u : u = Styling(t, f, g, h)
  OBVIOUS
<1>3. u = [fg |-> u.fg, bg |-> u.bg, flags |-> u.flags]
  BY <1>2 DEF Styling, Color
<1>4. CASE v = 0
  BY <1>2, <1>4 DEF Control, Styling, Says, ResetState, Color, DefaultFg, DefaultBg, Fgs, Bgs, Highs
<1>5. CASE v = 1
  <2>1. Control(u, v) = [fg |-> u.fg, bg |-> u.bg, flags |-> u.flags \cup Highlighted]
    BY <1>3, <1>5 DEF Control
  <2>2. Says(Fgs, v, f) = f /\ Says(Bgs, v, g) = g /\ Says(Highs, v, h) = 1
    BY <1>5 DEF Says, Fgs, Bgs, Highs
  <2>3. u.flags \cup Highlighted = NoFlags \cup Highlighted
    BY <1>1, <1>2 DEF Styling, Color, Attribute, Highs, NoFlags, Highlighted
  <2>4. Styling(t, f, g, 1) = [fg |-> u.fg, bg |-> u.bg, flags |-> NoFlags \cup Highlighted]
    BY <1>2 DEF Styling, Color
  <2> QED BY <1>2, <1>5, <2>1, <2>2, <2>3, <2>4
<1>6. CASE v = 22
  <2>1. Control(u, v) = [fg |-> u.fg, bg |-> u.bg, flags |-> u.flags \ Highlighted]
    BY <1>3, <1>6 DEF Control
  <2>2. Says(Fgs, v, f) = f /\ Says(Bgs, v, g) = g /\ Says(Highs, v, h) = 22
    BY <1>6 DEF Says, Fgs, Bgs, Highs
  <2>3. u.flags \ Highlighted = NoFlags
    BY <1>1, <1>2 DEF Styling, Color, Attribute, Highs, NoFlags, Highlighted
  <2>4. Styling(t, f, g, 22) = [fg |-> u.fg, bg |-> u.bg, flags |-> NoFlags]
    BY <1>2 DEF Styling, Color
  <2> QED BY <1>2, <1>6, <2>1, <2>2, <2>3, <2>4
<1>7. CASE v \in 30 .. 37
  <2>1. v % 10 = v - 30
    BY <1>7
  <2>2. Control(u, v) = [fg |-> v - 30, bg |-> u.bg, flags |-> u.flags]
    BY <1>3, <1>7, <2>1 DEF Control
  <2>3. Says(Fgs, v, f) = v /\ Says(Bgs, v, g) = g /\ Says(Highs, v, h) = h
    BY <1>7 DEF Says, Fgs, Bgs, Highs
  <2> QED BY <1>2, <1>7, <2>2, <2>3 DEF Styling, Color
<1>8. CASE v \in 40 .. 47
  <2>1. v % 10 = v - 40
    BY <1>8
  <2>2. Control(u, v) = [fg |-> u.fg, bg |-> v - 40, flags |-> u.flags]
    BY <1>3, <1>8, <2>1 DEF Control
  <2>3. Says(Fgs, v, f) = f /\ Says(Bgs, v, g) = v /\ Says(Highs, v, h) = h
    BY <1>8 DEF Says, Fgs, Bgs, Highs
  <2> QED BY <1>2, <1>8, <2>2, <2>3 DEF Styling, Color
<1>9. CASE v \notin {0, 1, 22} \cup (30 .. 37) \cup (40 .. 47)
  <2>1. Control(u, v) = u
    BY <1>9 DEF Control
  <2>2. Says(Fgs, v, f) = f /\ Says(Bgs, v, g) = g /\ Says(Highs, v, h) = h
    BY <1>9 DEF Says, Fgs, Bgs, Highs
  <2> QED BY <1>2, <2>1, <2>2
<1> QED BY <1>4, <1>5, <1>6, <1>7, <1>8, <1>9

\* The parameter that begins after j goes on at n.
Begins(b, j, n) ==
  /\ j \in 0 .. n /\ (j = 0 \/ b[j] = Semicolon)
  /\ \A k \in j + 1 .. n : b[k] # Semicolon

\* The spans are between neighbouring bounds.
LEMMA SpanFields ==
  ASSUME NEW b \in NatSeqs, NEW p \in ParameterSpans(b)
  PROVE  /\ p[1] \in 0 .. Len(b) + 1 /\ p[2] \in 0 .. Len(b) + 1 /\ p[1] < p[2]
         /\ p[1] \in Bounds(b) /\ p[2] \in Bounds(b) /\ p = <<p[1], p[2]>>
         /\ \A k \in Bounds(b) : k <= p[1] \/ p[2] <= k
  BY DEF ParameterSpans, Bounds, NatSeqs

\* A rune that is no semicolon ends no span.
LEMMA NothingEnds ==
  ASSUME NEW b \in NatSeqs, NEW n \in 1 .. Len(b), b[n] # Semicolon
  PROVE  CountedTo(b, n) = CountedTo(b, n - 1)
<1>1. ASSUME NEW p \in ParameterSpans(b) PROVE p[2] <= n <=> p[2] <= n - 1
  <2>1. n \notin Bounds(b)
    BY DEF Bounds
  <2> QED BY <2>1, SpanFields
<1> QED BY <1>1 DEF CountedTo, Counted

\* Nor does one count after one that is no number.
LEMMA NothingCounts ==
  ASSUME NEW b \in NatSeqs, NEW n \in 0 .. Len(b) + 1, NEW m \in n .. Len(b) + 1,
         NEW q \in ParameterSpans(b), q[2] <= n, ValueOf(b, q) = -1
  PROVE  CountedTo(b, m) = CountedTo(b, n)
<1>1. ASSUME NEW p \in Counted(b) PROVE p[2] <= n
  <2>1. p \in ParameterSpans(b)
    BY DEF Counted
  <2>2. ~(q[1] <= p[1])
    BY DEF Counted
  <2>3. /\ p[1] \in Nat /\ p[2] \in Nat /\ q[1] \in Nat /\ q[2] \in Nat /\ q[1] < q[2]
        /\ q[2] \in Bounds(b) /\ (q[2] <= p[1] \/ p[2] <= q[2])
    BY <2>1, SpanFields DEF NatSeqs
  <2> QED BY <2>2, <2>3
<1>2. \A p \in Counted(b) : p[2] <= m
  BY <1>1, SpanFields DEF Counted, NatSeqs
<1> QED BY <1>1, <1>2 DEF CountedTo

\* The span that ends at n comes after those that ended before.
LEMMA SpanEnds ==
  ASSUME NEW b \in NatSeqs, NEW n \in 1 .. Len(b) + 1, n = Len(b) + 1 \/ b[n] = Semicolon,
         NEW j, Begins(b, j, n - 1)
  PROVE  /\ <<j, n>> \in ParameterSpans(b)
         /\ \A q \in ParameterSpans(b) : q[2] <= n => q = <<j, n>> \/ (q[2] <= n - 1 /\ q[1] < j)
<1>1. Len(b) \in Nat /\ n \in Nat /\ j \in Nat /\ j < n /\ j <= Len(b)
  BY DEF NatSeqs, Begins
<1>2. j \in Bounds(b) /\ n \in Bounds(b)
  <2>1. j \in 1 .. Len(b) => j \in DOMAIN b
    BY DEF NatSeqs
  <2>2. n \in 1 .. Len(b) => n \in DOMAIN b
    BY DEF NatSeqs
  <2> QED BY <1>1, <2>1, <2>2 DEF Bounds, Begins
<1>3. ASSUME NEW k \in Bounds(b) PROVE k <= j \/ n <= k
  <2>1. k \in 0 .. Len(b) + 1
    BY <1>1 DEF Bounds, NatSeqs
  <2>2. k \notin j + 1 .. n - 1
    <3>1. SUFFICES ASSUME k \in j + 1 .. n - 1 PROVE FALSE
      OBVIOUS
    <3>2. b[k] # Semicolon
      BY <3>1 DEF Begins
    <3>3. k # 0 /\ k # Len(b) + 1
      BY <1>1, <3>1
    <3> QED BY <3>2, <3>3 DEF Bounds
  <2> QED BY <1>1, <2>1, <2>2
<1>4. <<j, n>> \in ParameterSpans(b)
  BY <1>1, <1>2, <1>3 DEF ParameterSpans
<1>5. ASSUME NEW q \in ParameterSpans(b), q[2] <= n
      PROVE  q = <<j, n>> \/ (q[2] <= n - 1 /\ q[1] < j)
  <2>1. /\ q[1] \in Nat /\ q[2] \in Nat /\ q[1] < q[2] /\ q = <<q[1], q[2]>>
        /\ q[1] \in Bounds(b) /\ q[2] \in Bounds(b) /\ (j <= q[1] \/ q[2] <= j)
    BY <1>1, <1>2, SpanFields
  <2>2. (q[1] <= j \/ n <= q[1]) /\ (q[2] <= j \/ n <= q[2])
    BY <1>3, <2>1
  <2> QED BY <1>1, <1>5, <2>1, <2>2
<1> QED BY <1>4, <1>5

\* A parameter that ends has the last word.
LEMMA SomethingEnds ==
  ASSUME NEW b \in NatSeqs, NEW n \in 1 .. Len(b) + 1, n = Len(b) + 1 \/ b[n] = Semicolon,
         NEW j, Begins(b, j, n - 1), <<j, n>> \in Counted(b),
         NEW values, NEW old, Decided(b, n - 1, values, old)
  PROVE  Decided(b, n, values, Says(values, ValueOf(b, <<j, n>>), old))
<1>1. PICK p : p = <<j, n>> /\ p[1] = j /\ p[2] = n
  <2>1. <<j, n>>[1] = j /\ <<j, n>>[2] = n
    OBVIOUS
  <2> QED BY <2>1
<1>2. PICK v : v = ValueOf(b, p)
  OBVIOUS
<1>3. /\ p \in ParameterSpans(b) /\ n \in Nat /\ j \in Nat
      /\ \A q \in ParameterSpans(b) : q[2] <= n => q = p \/ (q[2] <= n - 1 /\ q[1] < j)
  BY <1>1, SpanEnds DEF Begins, NatSeqs
<1>4. \A q \in ParameterSpans(b) : q[2] \in Nat /\ q[1] \in Nat
  BY SpanFields DEF NatSeqs
<1> USE DEF CountedTo, Counted
<1>5. CASE v \in values \cup {0}
  <2>1. p \in HitsTo(b, n, values)
    <3>1. p \in Counted(b) /\ p[2] <= n
      BY <1>1, <1>3
    <3> QED BY <1>2, <1>5, <3>1 DEF HitsTo
  <2>2. \A q \in HitsTo(b, n, values) : q[1] <= p[1]
    BY <1>1, <1>3, <1>4 DEF HitsTo
  <2>3. Decided(b, n, values, v)
    BY <1>2, <2>1, <2>2 DEF Decided
  <2> QED BY <1>1, <1>2, <1>5, <2>3 DEF Says
<1>6. CASE v \notin values \cup {0}
  <2>1. HitsTo(b, n, values) = HitsTo(b, n - 1, values)
    BY <1>1, <1>2, <1>3, <1>4, <1>6 DEF HitsTo
  <2>2. Decided(b, n, values, old)
    BY <2>1 DEF Decided
  <2> QED BY <1>1, <1>2, <1>6, <2>2 DEF Says
<1> QED BY <1>5, <1>6

\* At the end, it is the last of all.
LEMMA LastIsDecided ==
  ASSUME NEW b \in NatSeqs, NEW values, NEW v, Decided(b, Len(b) + 1, values, v)
  PROVE  LastOf(b, values, -1) = v
<1>1. Len(b) \in Nat
  BY DEF NatSeqs
<1> DEFINE hits == {p \in Counted(b) : ValueOf(b, p) \in values \cup {0}}
<1>2. hits = HitsTo(b, Len(b) + 1, values)
  BY <1>1, SpanFields DEF HitsTo, CountedTo, Counted
<1>3. CASE hits = {}
  BY <1>2, <1>3 DEF Decided, LastOf
<1>4. CASE hits # {}
  <2>1. PICK p \in hits : v = ValueOf(b, p) /\ \A q \in hits : q[1] <= p[1]
    BY <1>2, <1>4 DEF Decided
  <2>2. PICK c : c = CHOOSE r \in hits : \A q \in hits : q[1] <= r[1]
    OBVIOUS
  <2>3. c \in hits /\ \A q \in hits : q[1] <= c[1]
    BY <2>1, <2>2
  <2>4. c = p
    <3>1. c \in ParameterSpans(b) /\ p \in ParameterSpans(b) /\ c[1] <= p[1] /\ p[1] <= c[1]
      BY <2>1, <2>3 DEF Counted
    <3>2. /\ p[1] \in Nat /\ p[2] \in Nat /\ p[1] < p[2] /\ p = <<p[1], p[2]>>
          /\ p[2] \in Bounds(b) /\ \A k \in Bounds(b) : k <= p[1] \/ p[2] <= k
      BY <1>1, <3>1, SpanFields
    <3>3. /\ c[1] \in Nat /\ c[2] \in Nat /\ c[1] < c[2] /\ c = <<c[1], c[2]>>
          /\ c[2] \in Bounds(b) /\ \A k \in Bounds(b) : k <= c[1] \/ c[2] <= k
      BY <1>1, <3>1, SpanFields
    <3>4. c[1] = p[1]
      BY <3>1, <3>2, <3>3
    <3>5. p[2] <= c[2]
      BY <3>2, <3>3, <3>4
    <3>6. c[2] <= p[2]
      BY <3>2, <3>3, <3>4
    <3> QED BY <3>2, <3>3, <3>4, <3>5, <3>6
  <2>5. LastOf(b, values, -1) = ValueOf(b, c)
    BY <1>4, <2>2 DEF LastOf
  <2> QED BY <2>1, <2>4, <2>5
<1> QED BY <1>3, <1>4

\* The state u has the attributes that the spans up to n have decided.
DecidedState(t, b, n, u) ==
  \E f \in Attribute(Fgs) : \E g \in Attribute(Bgs) : \E h \in Attribute(Highs) :
    /\ Decided(b, n, Fgs, f) /\ Decided(b, n, Bgs, g) /\ Decided(b, n, Highs, h)
    /\ u = Styling(t, f, g, h)

\* It is so as long as no more span counts.
LEMMA StateGoesOn ==
  ASSUME NEW b, NEW t, NEW u, NEW n, NEW m, CountedTo(b, m) = CountedTo(b, n),
         DecidedState(t, b, n, u)
  PROVE  DecidedState(t, b, m, u)
<1>1. \A values : HitsTo(b, m, values) = HitsTo(b, n, values)
  BY DEF HitsTo
<1>2. \A values, v : Decided(b, n, values, v) => Decided(b, m, values, v)
  BY <1>1 DEF Decided
<1> QED BY <1>2 DEF DecidedState

\* A parameter does what Control says.
LEMMA StateIsControlled ==
  ASSUME NEW b \in NatSeqs, NEW t \in TerminalStates, NoFlags \subseteq t.flags, NEW u,
         NEW n \in 1 .. Len(b) + 1, n = Len(b) + 1 \/ b[n] = Semicolon,
         NEW j, Begins(b, j, n - 1), <<j, n>> \in Counted(b), ValueOf(b, <<j, n>>) \in Nat,
         DecidedState(t, b, n - 1, u)
  PROVE  DecidedState(t, b, n, Control(u, ValueOf(b, <<j, n>>)))
<1>1. PICK f \in Attribute(Fgs), g \in Attribute(Bgs), h \in Attribute(Highs) :
        /\ Decided(b, n - 1, Fgs, f) /\ Decided(b, n - 1, Bgs, g) /\ Decided(b, n - 1, Highs, h)
        /\ u = Styling(t, f, g, h)
  BY DEF DecidedState
<1>2. PICK v \in Nat : v = ValueOf(b, <<j, n>>)
  OBVIOUS
<1>3. Decided(b, n, Fgs, Says(Fgs, v, f))
  BY <1>1, <1>2, SomethingEnds
<1>4. Decided(b, n, Bgs, Says(Bgs, v, g))
  BY <1>1, <1>2, SomethingEnds
<1>5. Decided(b, n, Highs, Says(Highs, v, h))
  BY <1>1, <1>2, SomethingEnds
<1>6. Control(u, v) = Styling(t, Says(Fgs, v, f), Says(Bgs, v, g), Says(Highs, v, h))
  BY <1>1, ControlStyles
<1>7. /\ Says(Fgs, v, f) \in Attribute(Fgs) /\ Says(Bgs, v, g) \in Attribute(Bgs)
      /\ Says(Highs, v, h) \in Attribute(Highs)
  BY DEF Says, Attribute
<1> QED BY <1>2, <1>3, <1>4, <1>5, <1>6, <1>7 DEF DecidedState

\* Of all of b the state is what Sgr says, if anything counts.
LEMMA StateIsSgr ==
  ASSUME NEW b \in NatSeqs, NEW t, NEW u, DecidedState(t, b, Len(b) + 1, u), Counted(b) # {}
  PROVE  u = Sgr(t, b)
<1>1. PICK f \in Attribute(Fgs), g \in Attribute(Bgs), h \in Attribute(Highs) :
        /\ Decided(b, Len(b) + 1, Fgs, f) /\ Decided(b, Len(b) + 1, Bgs, g)
        /\ Decided(b, Len(b) + 1, Highs, h) /\ u = Styling(t, f, g, h)
  BY DEF DecidedState
<1>2. LastOf(b, Fgs, -1) = f /\ LastOf(b, Bgs, -1) = g /\ LastOf(b, Highs, -1) = h
  BY <1>1, LastIsDecided
<1> QED BY <1>1, <1>2 DEF Sgr, Styling, Fgs, Bgs, Highs

\* Nothing has been decided.
LEMMA StateAtFirst ==
  ASSUME NEW b \in NatSeqs, NEW t \in TerminalStates
  PROVE  DecidedState(t, b, 0, t)
<1>1. \A values : HitsTo(b, 0, values) = {}
  BY SpanFields DEF HitsTo, CountedTo, Counted, NatSeqs
<1>2. \A values : Decided(b, 0, values, -1)
  BY <1>1 DEF Decided
<1>3. t = Styling(t, -1, -1, -1)
  BY DEF Styling, Color, TerminalStates
<1>4. -1 \in Attribute(Fgs) /\ -1 \in Attribute(Bgs) /\ -1 \in Attribute(Highs)
  BY DEF Attribute
<1> QED BY <1>2, <1>3, <1>4 DEF DecidedState

-----------------------------------------------------------------------------
(* The loop *)

\* What n runes of b have made of the state t, and of the numbers.
Applied(t, b, n, nums) ==
  /\ DecidedState(t, b, n, ApplyAll(t, nums))
  /\ nums = <<>> <=> CountedTo(b, n) = {}

\* All parameters that have ended are numbers, the next one has begun; or one was
\* none, and goes on.
AllNumbers(b, n) == \A q \in ParameterSpans(b) : q[2] <= n => ValueOf(b, q) # -1
Between(b, n, part) ==
  AllNumbers(b, n) /\ \E j \in 0 .. n : Begins(b, j, n) /\ part = SubSeq(b, j + 1, n)
Stuck(b, n, part) ==
  /\ part # <<>> /\ Atoi(part) = -1
  /\ \E q \in ParameterSpans(b) : q[2] <= n /\ ValueOf(b, q) = -1

\* After n runes the last of which is not the last of b.
Parsing(t, b, n) ==
  LET st == ParsedTo(b, n)
  IN Applied(t, b, n, st.nums) /\ (Between(b, n, st.part) \/ Stuck(b, n, st.part))

\* One more number is one more parameter applied.
LEMMA ApplyOneMore ==
  ASSUME NEW t \in TerminalStates, NEW nums \in Seq(Nat), NEW v \in Nat
  PROVE  ApplyAll(t, Append(nums, v)) = Control(ApplyAll(t, nums), v)
<1>1. PICK more \in Seq(Nat) : more = Append(nums, v)
  <2>1. Append(nums, v) \in Seq(Nat)
    OBVIOUS
  <2> QED BY <2>1, Zenon
<1>2. PICK u \in TerminalStates : u = FoldFn(TerminalStates, ControlFn, t, nums)
  BY ApplyAllType
<1>3. FoldFn(TerminalStates, ControlFn, t, more) = ControlFn[<<u, v>>]
  BY <1>1, <1>2, ControlFnType, FoldFnAppend
<1>4. ApplyAll(t, nums) = u /\ ApplyAll(t, more) = FoldFn(TerminalStates, ControlFn, t, more)
  BY <1>2, ApplyAllType
<1> QED BY <1>1, <1>3, <1>4 DEF ControlFn

\* No numbers.
LEMMA ApplyNone ==
  ASSUME NEW t \in TerminalStates
  PROVE  ApplyAll(t, <<>>) = t
<1>1. PICK nums \in Seq(Lengths) : nums = <<>> /\ Len(nums) = 0
  <2>1. <<>> \in Seq(Lengths) /\ Len(<<>>) = 0
    OBVIOUS
  <2> QED BY <2>1, Zenon
<1>2. IsOp(TerminalStates, Lengths, ControlFn)
  BY ControlFnType DEF Lengths
<1>3. FoldFn(TerminalStates, ControlFn, t, nums) = t
  BY <1>1, <1>2, FoldFnEmpty
<1>4. nums \in Seq(Nat)
  BY DEF Lengths
<1>5. ApplyAll(t, nums) = t
  BY <1>3, <1>4, ApplyAllType
<1> QED BY <1>1, <1>5

\* A sequence with something appended.
LEMMA NotEmpty ==
  ASSUME NEW s \in Seq(Nat), NEW v \in Nat
  PROVE  Append(s, v) # <<>>
<1>1. PICK more \in Seq(Nat) : more = Append(s, v)
  <2>1. Append(s, v) \in Seq(Nat)
    OBVIOUS
  <2> QED BY <2>1, Zenon
<1>2. Len(more) # 0
  BY <1>1
<1> QED BY <1>1, <1>2

\* The end of a parameter: its value is one more number, or it stays.
LEMMA ParameterEnds ==
  ASSUME NEW b \in NatSeqs, NEW n \in 1 .. Len(b) + 1, NEW j \in Nat, Begins(b, j, n - 1),
         NEW st \in ParseStates, st.part = SubSeq(b, j + 1, n - 1)
  PROVE  /\ ValueOf(b, <<j, n>>) \in Nat \cup {-1}
         /\ ValueOf(b, <<j, n>>) # -1
              => EndParameter(st) = [part |-> <<>>, nums |-> Append(st.nums, ValueOf(b, <<j, n>>))]
         /\ ValueOf(b, <<j, n>>) = -1
              => EndParameter(st) = st /\ st.part # <<>> /\ Atoi(st.part) = -1
<1>0. PICK N \in Nat : N = Len(b)
  BY DEF NatSeqs
<1>1. n \in Nat /\ j \in Nat /\ j < n /\ n <= N + 1
  BY <1>0 DEF Begins
<1>9. Len(b) = N /\ b \in Seq(Nat) /\ DOMAIN b = 1 .. N
  BY <1>0 DEF NatSeqs
<1>10. st = [part |-> st.part, nums |-> st.nums]
  BY DEF ParseStates
<1>2. PICK part \in Seq(Nat) : part = SubSeq(b, j + 1, n - 1)
  BY DEF ParseStates, NatSeqs
<1>3. Len(part) = n - 1 - j
  BY <1>1, <1>2, <1>9
<1>5. PICK v \in Nat \cup {-1} : v = Atoi(part)
  BY AtoiType
<1>6. <<j, n>>[1] = j /\ <<j, n>>[2] = n
  OBVIOUS
<1>7. CASE n = j + 1
  <2>1. part = <<>>
    BY <1>1, <1>3, <1>7
  <2>2. ValueOf(b, <<j, n>>) = 0
    BY <1>6, <1>7 DEF ValueOf
  <2>3. st.part = <<>>
    BY <1>2, <2>1
  <2>4. EndParameter(st) = [st EXCEPT !.nums = Append(@, 0)]
    BY <2>3 DEF EndParameter
  <2>5. PICK x, y : st = [part |-> x, nums |-> y] /\ x = st.part /\ y = st.nums
    BY <1>10
  <2>6. PICK z : z = Append(y, 0)
    OBVIOUS
  <2>8. [[part |-> x, nums |-> y] EXCEPT !.nums = z] = [part |-> x, nums |-> z]
    OBVIOUS
  <2>9. EndParameter(st) = [st EXCEPT !.nums = z]
    BY <2>4, <2>5, <2>6
  <2>7. EndParameter(st) = [part |-> st.part, nums |-> Append(st.nums, 0)]
    BY <2>5, <2>6, <2>8, <2>9
  <2>10. PICK w : w = ValueOf(b, <<j, n>>) /\ w = 0
    BY <2>2
  <2>11. EndParameter(st) = [part |-> <<>>, nums |-> Append(st.nums, w)]
    BY <2>3, <2>7, <2>10
  <2>12. ValueOf(b, <<j, n>>) \in Nat /\ ValueOf(b, <<j, n>>) # -1
    BY <2>10
  <2> QED BY <2>10, <2>11, <2>12
<1>8. CASE n # j + 1
  <2>1. part # <<>>
    BY <1>1, <1>3, <1>8
  <2>2. ValueOf(b, <<j, n>>) = v
    BY <1>2, <1>5, <1>6, <1>8 DEF ValueOf
  <2> QED BY <1>2, <1>5, <2>1, <2>2 DEF EndParameter
<1> QED BY <1>7, <1>8

\* With all numbers so far, a parameter that ends before the end of b counts if it is
\* a number, and is applied; it stays if it is none.
LEMMA ParameterApplied ==
  ASSUME NEW b \in NatSeqs, NEW t \in TerminalStates, NoFlags \subseteq t.flags,
         NEW n \in 1 .. Len(b) + 1, n = Len(b) + 1 \/ b[n] = Semicolon,
         NEW j \in Nat, Begins(b, j, n - 1), j < Len(b), AllNumbers(b, n - 1),
         NEW st \in ParseStates, st.part = SubSeq(b, j + 1, n - 1), Applied(t, b, n - 1, st.nums)
  PROVE  /\ Applied(t, b, n, EndParameter(st).nums)
         /\ \/ EndParameter(st).part = <<>> /\ AllNumbers(b, n)
            \/ /\ EndParameter(st) = st /\ st.part # <<>> /\ Atoi(st.part) = -1
               /\ \E q \in ParameterSpans(b) : q[2] <= n /\ ValueOf(b, q) = -1
<1>1. PICK p : p = <<j, n>> /\ p[1] = j /\ p[2] = n
  <2>1. <<j, n>>[1] = j /\ <<j, n>>[2] = n
    OBVIOUS
  <2> QED BY <2>1
<1>2. /\ p \in ParameterSpans(b) /\ n \in Nat
      /\ \A q \in ParameterSpans(b) : q[2] <= n => q = p \/ (q[2] <= n - 1 /\ q[1] < j)
  BY <1>1, SpanEnds DEF NatSeqs
<1>3. PICK v \in Nat \cup {-1} : v = ValueOf(b, p)
  BY <1>1, ParameterEnds
<1>4. \A q \in ParameterSpans(b) : q[2] \in Nat /\ q[1] \in Nat /\ (q[1] <= j => q = p \/ q[2] <= n - 1)
  <2>1. j \in Bounds(b) /\ n \in Bounds(b)
    BY <1>1, <1>2, SpanFields
  <2> QED BY <1>1, <1>2, <2>1, SpanFields DEF NatSeqs
<1>5. DecidedState(t, b, n - 1, ApplyAll(t, st.nums)) /\ (st.nums = <<>> <=> CountedTo(b, n - 1) = {})
  BY DEF Applied
<1>6. CASE v # -1
  <2>1. EndParameter(st).part = <<>> /\ EndParameter(st).nums = Append(st.nums, v)
    <3>1. EndParameter(st) = [part |-> <<>>, nums |-> Append(st.nums, v)]
      BY <1>1, <1>3, <1>6, ParameterEnds
    <3> QED BY <3>1
  <2>2. AllNumbers(b, n)
    BY <1>2, <1>3, <1>6 DEF AllNumbers
  <2>3. p \in Counted(b) /\ p \in CountedTo(b, n)
    BY <1>1, <1>2, <1>3, <1>4, <1>6 DEF Counted, CountedTo, AllNumbers
  <2>4. DecidedState(t, b, n, Control(ApplyAll(t, st.nums), v))
    BY <1>1, <1>3, <1>5, <1>6, <2>3, StateIsControlled
  <2>5. ApplyAll(t, Append(st.nums, v)) = Control(ApplyAll(t, st.nums), v)
    BY <1>3, <1>6, ApplyOneMore DEF ParseStates, NatSeqs
  <2>6. Append(st.nums, v) # <<>>
    BY <1>3, <1>6, NotEmpty DEF ParseStates, NatSeqs
  <2> QED BY <2>1, <2>2, <2>3, <2>4, <2>5, <2>6 DEF Applied
<1>7. CASE v = -1
  <2>1. EndParameter(st) = st /\ st.part # <<>> /\ Atoi(st.part) = -1
    BY <1>1, <1>3, <1>7, ParameterEnds
  <2>2. CountedTo(b, n) = CountedTo(b, n - 1)
    <3>1. p \notin Counted(b)
      <4>1. p \in Counted(b) => \A q \in ParameterSpans(b) : q[1] <= p[1] => ValueOf(b, q) # -1
        BY DEF Counted
      <4>2. p[1] <= p[1]
        BY <1>1
      <4> QED BY <1>2, <1>3, <1>7, <4>1, <4>2, Zenon
    <3> QED BY <1>2, <1>4, <3>1 DEF CountedTo, Counted
  <2>3. Applied(t, b, n, st.nums)
    BY <1>5, <2>2, StateGoesOn DEF Applied
  <2>4. p[2] <= n /\ ValueOf(b, p) = -1
    BY <1>1, <1>2, <1>3, <1>7
  <2> QED BY <1>2, <2>1, <2>3, <2>4
<1> QED BY <1>6, <1>7

\* One more rune of the parameter.
LEMMA SubSeqGrows ==
  ASSUME NEW b \in NatSeqs, NEW n \in 1 .. Len(b), NEW j \in 0 .. n - 1
  PROVE  Append(SubSeq(b, j + 1, n - 1), b[n]) = SubSeq(b, j + 1, n)
<1>0. PICK N \in Nat : N = Len(b)
  BY DEF NatSeqs
<1>1. b \in Seq(Nat)
  BY DEF NatSeqs
<1> QED BY <1>0, <1>1

\* From a rune to the next one.
LEMMA ParsingStarts ==
  ASSUME NEW b \in NatSeqs, NEW t \in TerminalStates
  PROVE  Parsing(t, b, 0)
<1>1. ParsedTo(b, 0) = NoNumbers
  BY ParsedNone
<1>2. Begins(b, 0, 0) /\ SubSeq(b, 0 + 1, 0) = <<>>
  BY DEF Begins, NatSeqs
<1>3. Applied(t, b, 0, <<>>)
  <2>1. CountedTo(b, 0) = {}
    BY SpanFields DEF CountedTo, Counted, NatSeqs
  <2> QED BY <2>1, StateAtFirst, ApplyNone DEF Applied
<1>4. ParsedTo(b, 0).part = <<>> /\ ParsedTo(b, 0).nums = <<>>
  BY <1>1 DEF NoNumbers
<1>5. Between(b, 0, <<>>)
  <2>1. AllNumbers(b, 0)
    BY SpanFields DEF AllNumbers, NatSeqs
  <2>2. 0 \in 0 .. 0
    OBVIOUS
  <2> QED BY <1>2, <2>1, <2>2 DEF Between
<1> QED BY <1>3, <1>4, <1>5 DEF Parsing

\* ParameterRune keeps to what the spans say.
LEMMA ParsingGoesOn ==
  ASSUME NEW b \in NatSeqs, NEW t \in TerminalStates, NoFlags \subseteq t.flags,
         NEW n \in 1 .. Len(b), n # Len(b), Parsing(t, b, n - 1)
  PROVE  Parsing(t, b, n)
<1>0. PICK N \in Nat : N = Len(b)
  BY DEF NatSeqs
<1>1. n \in Nat /\ 1 <= n /\ n < N
  BY <1>0
<1>2. PICK st \in ParseStates : st = ParsedTo(b, n - 1)
  BY ParsedNext
<1>3. ParsedTo(b, n) = ParameterRune(b, st, n) /\ ParsedTo(b, n) \in ParseStates
  BY <1>2, ParsedNext
<1>4. Applied(t, b, n - 1, st.nums) /\ (Between(b, n - 1, st.part) \/ Stuck(b, n - 1, st.part))
  BY <1>2 DEF Parsing
<1>5. st.part \in Seq(Nat) /\ st.nums \in Seq(Nat) /\ b[n] \in Nat
  BY DEF ParseStates, NatSeqs
<1>6. n \in 1 .. Len(b) + 1 /\ n - 1 \in 0 .. Len(b) + 1 /\ n \in n - 1 .. Len(b) + 1
  BY <1>0, <1>1
<1>7. CASE b[n] = Semicolon
  <2>1. ParsedTo(b, n) = EndParameter(st)
    BY <1>3, <1>7 DEF ParameterRune
  <2>2. CASE Between(b, n - 1, st.part)
    <3>1. PICK j \in 0 .. n - 1 : Begins(b, j, n - 1) /\ st.part = SubSeq(b, j + 1, n - 1)
      BY <2>2 DEF Between
    <3>2. j \in Nat /\ j < Len(b)
      BY <1>0, <1>1
    <3>4. /\ Applied(t, b, n, EndParameter(st).nums)
          /\ \/ EndParameter(st).part = <<>> /\ AllNumbers(b, n)
             \/ /\ EndParameter(st) = st /\ st.part # <<>> /\ Atoi(st.part) = -1
                /\ \E q \in ParameterSpans(b) : q[2] <= n /\ ValueOf(b, q) = -1
      BY <1>4, <1>6, <1>7, <2>2, <3>1, <3>2, ParameterApplied DEF Between
    <3>5. Begins(b, n, n) /\ SubSeq(b, n + 1, n) = <<>> /\ n \in 0 .. n
      BY <1>1, <1>7 DEF Begins, NatSeqs
    <3> QED BY <2>1, <3>4, <3>5 DEF Parsing, Between, Stuck
  <2>3. CASE Stuck(b, n - 1, st.part)
    <3>1. EndParameter(st) = st
      BY <2>3 DEF Stuck, EndParameter
    <3>2. PICK q \in ParameterSpans(b) : q[2] <= n - 1 /\ ValueOf(b, q) = -1
      BY <2>3 DEF Stuck
    <3>3. CountedTo(b, n) = CountedTo(b, n - 1)
      BY <1>6, <3>2, NothingCounts
    <3>4. Applied(t, b, n, st.nums)
      BY <1>4, <3>3, StateGoesOn DEF Applied
    <3>5. q[2] <= n
      BY <1>1, <3>2, SpanFields DEF NatSeqs
    <3> QED BY <2>1, <2>3, <3>1, <3>2, <3>4, <3>5 DEF Parsing, Stuck
  <2> QED BY <1>4, <2>2, <2>3
<1>8. CASE b[n] # Semicolon
  <2>1. ParsedTo(b, n) = [st EXCEPT !.part = Append(@, b[n])]
    BY <1>3, <1>8 DEF ParameterRune
  <2>2. ParsedTo(b, n).part = Append(st.part, b[n]) /\ ParsedTo(b, n).nums = st.nums
    BY <2>1 DEF ParseStates
  <2>3. CountedTo(b, n) = CountedTo(b, n - 1)
    BY <1>8, NothingEnds
  <2>4. Applied(t, b, n, st.nums)
    BY <1>4, <2>3, StateGoesOn DEF Applied
  <2>5. CASE Between(b, n - 1, st.part)
    <3>1. PICK j \in 0 .. n - 1 : Begins(b, j, n - 1) /\ st.part = SubSeq(b, j + 1, n - 1)
      BY <2>5 DEF Between
    <3>2. Begins(b, j, n) /\ j \in 0 .. n
      <4>1. j \in 0 .. n /\ \A k \in j + 1 .. n : k = n \/ k \in j + 1 .. n - 1
        BY <1>1
      <4> QED BY <1>8, <3>1, <4>1 DEF Begins
    <3>3. Append(SubSeq(b, j + 1, n - 1), b[n]) = SubSeq(b, j + 1, n)
      BY <1>1, SubSeqGrows
    <3>4. AllNumbers(b, n)
      <4>1. n \notin Bounds(b)
        BY <1>0, <1>1, <1>8 DEF Bounds
      <4>2. \A q \in ParameterSpans(b) : q[2] <= n => q[2] <= n - 1
        BY <4>1, SpanFields DEF NatSeqs
      <4> QED BY <2>5, <4>2 DEF Between, AllNumbers
    <3>5. Between(b, n, ParsedTo(b, n).part)
      BY <2>2, <3>1, <3>2, <3>3, <3>4 DEF Between
    <3> QED BY <2>2, <2>4, <3>5 DEF Parsing
  <2>6. CASE Stuck(b, n - 1, st.part)
    <3>1. Atoi(Append(st.part, b[n])) = -1
      BY <1>5, <2>6, NoNumberGrows DEF Stuck
    <3>2. Append(st.part, b[n]) # <<>>
      BY <1>5, NotEmpty
    <3>3. PICK q \in ParameterSpans(b) : q[2] <= n - 1 /\ ValueOf(b, q) = -1
      BY <2>6 DEF Stuck
    <3>4. q[2] <= n
      BY <1>1, <3>3, SpanFields DEF NatSeqs
    <3> QED BY <2>2, <2>4, <3>1, <3>2, <3>3, <3>4 DEF Parsing, Stuck
  <2> QED BY <1>4, <2>5, <2>6
<1> QED BY <1>7, <1>8

\* The last rune ends the last parameter that counts, and maybe one more that does not.
LEMMA ParsingEnds ==
  ASSUME NEW b \in NatSeqs, NEW t \in TerminalStates, NoFlags \subseteq t.flags,
         Len(b) # 0, Parsing(t, b, Len(b) - 1)
  PROVE  Applied(t, b, Len(b) + 1, ParsedTo(b, Len(b)).nums)
<1>0. PICK N \in Nat : N = Len(b)
  BY DEF NatSeqs
<1>1. N \in 1 .. Len(b) /\ N \in 1 .. Len(b) + 1 /\ N + 1 \in 1 .. Len(b) + 1 /\ N # 0
  BY <1>0
<1>2. PICK st \in ParseStates : st = ParsedTo(b, N - 1)
  BY <1>1, ParsedNext
<1>3. ParsedTo(b, N) = ParameterRune(b, st, N) /\ ParsedTo(b, N) \in ParseStates
  BY <1>1, <1>2, ParsedNext
<1>4. Applied(t, b, N - 1, st.nums) /\ (Between(b, N - 1, st.part) \/ Stuck(b, N - 1, st.part))
  BY <1>0, <1>2 DEF Parsing
<1>5. st.part \in Seq(Nat) /\ st.nums \in Seq(Nat) /\ b[N] \in Nat
  BY <1>1 DEF ParseStates, NatSeqs
<1>6. PICK grown : grown = IF b[N] # Semicolon THEN [st EXCEPT !.part = Append(@, b[N])] ELSE st
  OBVIOUS
<1>7. ParsedTo(b, N) = EndParameter(grown)
  BY <1>0, <1>3, <1>6 DEF ParameterRune
<1>8. Append(st.part, b[N]) \in Seq(Nat)
  BY <1>5
<1>9. /\ grown \in ParseStates /\ grown.nums = st.nums
      /\ grown.part = IF b[N] # Semicolon THEN Append(st.part, b[N]) ELSE st.part
  BY <1>6, <1>8 DEF ParseStates, NatSeqs
<1>10. CASE Stuck(b, N - 1, st.part)
  <2>1. grown.part # <<>> /\ Atoi(grown.part) = -1
    <3>1. Atoi(Append(st.part, b[N])) = -1
      BY <1>5, <1>10, NoNumberGrows DEF Stuck
    <3>2. Append(st.part, b[N]) # <<>>
      BY <1>5, NotEmpty
    <3> QED BY <1>9, <1>10, <3>1, <3>2 DEF Stuck
  <2>2. EndParameter(grown) = grown
    BY <2>1 DEF EndParameter
  <2>3. PICK q \in ParameterSpans(b) : q[2] <= N - 1 /\ ValueOf(b, q) = -1
    BY <1>10 DEF Stuck
  <2>4. N - 1 \in 0 .. Len(b) + 1 /\ N + 1 \in N - 1 .. Len(b) + 1
    BY <1>0, <1>1
  <2>5. CountedTo(b, N + 1) = CountedTo(b, N - 1)
    BY <2>3, <2>4, NothingCounts
  <2>6. Applied(t, b, N + 1, st.nums)
    BY <1>4, <2>5, StateGoesOn DEF Applied
  <2> QED BY <1>0, <1>7, <1>9, <2>2, <2>6
<1>11. CASE Between(b, N - 1, st.part)
  <2>1. PICK j \in 0 .. N - 1 : Begins(b, j, N - 1) /\ st.part = SubSeq(b, j + 1, N - 1)
    BY <1>11 DEF Between
  <2>2. j \in Nat /\ j < Len(b) /\ AllNumbers(b, N - 1)
    BY <1>0, <1>1, <1>11 DEF Between
  <2>3. CASE b[N] = Semicolon
    <3>2. Applied(t, b, N, EndParameter(st).nums)
      BY <1>1, <1>4, <2>1, <2>2, <2>3, ParameterApplied
    <3>3. CountedTo(b, N + 1) = CountedTo(b, N)
      <4>1. ASSUME NEW p \in Counted(b) PROVE p[2] <= N
        <5>1. /\ p[1] \in Nat /\ p[2] \in Nat /\ p[1] < N
              /\ \A k \in Bounds(b) : k <= p[1] \/ p[2] <= k
          BY <1>0, SpanFields DEF Counted, NatSeqs
        <5>2. N \in Bounds(b)
          BY <1>1, <2>3 DEF Bounds, NatSeqs
        <5> QED BY <5>1, <5>2
      <4>2. \A p \in Counted(b) : p[2] <= N + 1
        BY <4>1, SpanFields DEF Counted, NatSeqs
      <4> QED BY <4>1, <4>2 DEF CountedTo
    <3>4. Applied(t, b, N + 1, EndParameter(st).nums)
      BY <3>2, <3>3, StateGoesOn DEF Applied
    <3>5. grown = st
      BY <1>6, <2>3
    <3> QED BY <1>0, <1>7, <3>4, <3>5
  <2>4. CASE b[N] # Semicolon
    <3>1. PICK e \in 1 .. Len(b) + 1 : e = Len(b) + 1 /\ e - 1 = N
      BY <1>0, <1>1
    <3>2. Begins(b, j, e - 1)
      <4>1. j \in 0 .. N /\ \A k \in j + 1 .. N : k = N \/ k \in j + 1 .. N - 1
        BY <1>1
      <4> QED BY <2>1, <2>4, <3>1, <4>1 DEF Begins
    <3>3. grown.part = SubSeq(b, j + 1, e - 1)
      <4>1. Append(SubSeq(b, j + 1, N - 1), b[N]) = SubSeq(b, j + 1, N)
        BY <1>1, SubSeqGrows
      <4> QED BY <1>9, <2>1, <2>4, <3>1, <4>1
    <3>4. CountedTo(b, N - 1) = CountedTo(b, e - 1)
      BY <1>1, <2>4, <3>1, NothingEnds
    <3>5. AllNumbers(b, e - 1)
      <4>1. N \notin Bounds(b)
        BY <1>0, <1>1, <2>4 DEF Bounds
      <4>2. \A q \in ParameterSpans(b) : q[2] <= N => q[2] <= N - 1
        BY <1>0, <4>1, SpanFields
      <4> QED BY <2>2, <3>1, <4>2 DEF AllNumbers
    <3>7. Applied(t, b, e - 1, grown.nums)
      BY <1>4, <1>9, <3>4, StateGoesOn DEF Applied
    <3>8. Applied(t, b, e, EndParameter(grown).nums)
      BY <1>9, <2>2, <3>1, <3>2, <3>3, <3>5, <3>7, ParameterApplied
    <3> QED BY <1>0, <1>7, <3>1, <3>8
  <2> QED BY <2>3, <2>4
<1> QED BY <1>4, <1>10, <1>11

\* An "m" sequence does what Sgr says.
LEMMA NumbersAreApplied ==
  ASSUME NEW b \in NatSeqs, NEW t \in TerminalStates, NoFlags \subseteq t.flags
  PROVE  ApplyNums(t, ParseNumbers(b)) = Sgr(t, b)
<1>0. PICK N \in Nat : N = Len(b)
  BY DEF NatSeqs
<1>1. PICK nums \in Seq(Nat) : nums = ParseNumbers(b) /\ nums = ParsedTo(b, N).nums
  BY <1>0, ParseNumbersIs
<1>2. Applied(t, b, N + 1, nums)
  <2>1. CASE N = 0
    <3>1. nums = <<>>
      BY <1>1, <2>1, ParsedNone DEF NoNumbers
    <3>2. Applied(t, b, 0, <<>>)
      BY <3>1, ParsingStarts, ParsedNone DEF Parsing, NoNumbers
    <3>3. CountedTo(b, 0) = CountedTo(b, N + 1)
      BY <1>0, <2>1, SpanFields DEF CountedTo, Counted
    <3> QED BY <3>1, <3>2, <3>3, StateGoesOn DEF Applied
  <2>2. CASE N # 0
    <3> DEFINE S == {n \in 0 .. N - 1 : Parsing(t, b, n)}
    <3>1. 0 .. N - 1 \subseteq S
      <4>1. N - 1 \in Nat
        BY <2>2
      <4>2. 0 \in S
        BY <4>1, ParsingStarts
      <4>3. ASSUME NEW n \in 1 .. N - 1, n - 1 \in S PROVE n \in S
        <5>1. n \in 1 .. Len(b) /\ n # Len(b)
          BY <1>0, <4>1
        <5>2. Parsing(t, b, n - 1)
          BY <4>3
        <5>3. Parsing(t, b, n)
          BY <5>1, <5>2, ParsingGoesOn
        <5> QED BY <4>1, <5>3
      <4> HIDE DEF S
      <4> QED BY <4>1, <4>2, <4>3, IntervalInduction
    <3>2. Parsing(t, b, N - 1)
      BY <2>2, <3>1
    <3> QED BY <1>0, <1>1, <2>2, <3>2, ParsingEnds
  <2> QED BY <2>1, <2>2
<1>3. CountedTo(b, N + 1) = Counted(b)
  BY <1>0, SpanFields DEF CountedTo, Counted
<1>4. CASE Counted(b) = {}
  <2>1. nums = <<>>
    BY <1>2, <1>3, <1>4 DEF Applied
  <2> QED BY <1>1, <1>4, <2>1 DEF ApplyNums, Sgr
<1>5. CASE Counted(b) # {}
  <2>1. nums # <<>> /\ DecidedState(t, b, Len(b) + 1, ApplyAll(t, nums))
    BY <1>0, <1>2, <1>3, <1>5 DEF Applied
  <2>2. ApplyAll(t, nums) = Sgr(t, b)
    BY <1>5, <2>1, StateIsSgr
  <2> QED BY <1>1, <2>1, <2>2 DEF ApplyNums
<1> QED BY <1>4, <1>5

-----------------------------------------------------------------------------
(* The parser *)

\* NoFlags, once set by Reset, is never cleared.
LEMMA NoFlagsStays ==
  ASSUME NEW t \in TerminalStates, NoFlags \subseteq t.flags, NEW nums \in Seq(Nat)
  PROVE  NoFlags \subseteq ApplyNums(t, nums).flags
<1>1. PICK L \in Nat : L = Len(nums)
  OBVIOUS
<1> DEFINE A(n) == FoldFn(TerminalStates, ControlFn, t, SubSeq(nums, 1, n))
           S == {n \in 0 .. L : NoFlags \subseteq A(n).flags}
<1>2. 0 \in S
  <2>1. SubSeq(nums, 1, 0) = <<>> /\ <<>> \in Seq(Nat)
    OBVIOUS
  <2>2. ApplyAll(t, SubSeq(nums, 1, 0)) = t /\ SubSeq(nums, 1, 0) \in Seq(Nat)
    BY <2>1, ApplyNone
  <2>3. A(0) = t
    BY <2>2, ApplyAllType
  <2> QED BY <2>3
<1>3. ASSUME NEW n \in 1 .. L, n - 1 \in S PROVE n \in S
  <2>1. n \in 1 .. Len(nums) /\ n \in 0 .. L
    BY <1>1
  <2>2. A(n - 1) \in TerminalStates /\ A(n) = ControlFn[<<A(n - 1), nums[n]>>]
    BY <2>1, ControlFnType, FoldFnPrefix
  <2>3. PICK u \in TerminalStates : u = A(n - 1)
    BY <2>2
  <2>4. PICK v \in Nat : v = nums[n]
    BY <2>1
  <2>5. NoFlags \subseteq u.flags
    BY <1>3, <2>3
  <2>6. NoFlags \subseteq Control(u, v).flags
    BY <2>5 DEF Control, TerminalStates, ResetState, Color, NoFlags, Highlighted
  <2>7. A(n) = Control(u, v)
    BY <2>2, <2>3, <2>4 DEF ControlFn
  <2>8. NoFlags \subseteq A(n).flags
    BY <2>6, <2>7
  <2> QED BY <2>1, <2>8
<1>4. 0 .. L \subseteq S
  <2> HIDE DEF S
  <2> QED BY <1>2, <1>3, IntervalInduction
<1>5. NoFlags \subseteq A(L).flags
  BY <1>4
<1>6. A(L) = ApplyAll(t, nums)
  <2>1. SubSeq(nums, 1, L) = nums
    BY <1>1
  <2> QED BY <2>1, ApplyAllType
<1>7. NoFlags \subseteq ResetState.flags
  BY DEF ResetState, Color
<1> QED BY <1>5, <1>6, <1>7 DEF ApplyNums

\* The escape sequences that are parsed.
Escapes == [nums : NatSeqs, trailings : NatSeqs, mode : Nat]

\* The types; the flags of the terminal state; and the numbers of a sequence are
\* none until it ends.
ParserInv ==
  /\ parserState \in {"Default", "Escaping", "ParsingControl", "SkipOne"}
  /\ params \in NatSeqs /\ esc \in Escapes
  /\ term \in TerminalStates /\ NoFlags \subseteq term.flags
  /\ parserState = "Escaping" => esc = NoSequence
  /\ parserState = "ParsingControl" => esc.nums = <<>>

\* ParserInv holds at first.
LEMMA ParserStarts == ParserInit => ParserInv
<1>1. <<>> \in Seq(Nat)
  OBVIOUS
<1>2. ResetState \in TerminalStates /\ NoFlags \subseteq ResetState.flags
  BY DEF TerminalStates, ResetState, Color, NoFlags, Highlighted, DefaultFg, DefaultBg
<1> QED BY <1>1, <1>2 DEF ParserInit, ParserInv, NoSequence, Escapes, NatSeqs

\* The numbers that FinishControl finds, and what they do.
LEMMA ControlFinished ==
  ASSUME ParserInv, NEW r \in Nat, FinishControl(r)
  PROVE  /\ esc' \in Escapes /\ esc'.mode = r /\ esc'.nums = ParseNumbers(params)
         /\ term' = IF r = M THEN ApplyNums(term, ParseNumbers(params)) ELSE term
<1>1. params \in NatSeqs /\ esc \in Escapes /\ esc.nums = <<>>
  BY DEF ParserInv, FinishControl
<1>2. PICK nums \in Seq(Nat) : nums = ParseNumbers(params)
  BY <1>1, ParseNumbersIs
<1>3. <<>> \o nums = nums
  OBVIOUS
<1>4. esc' = [esc EXCEPT !.mode = r, !.nums = @ \o nums]
  BY <1>2 DEF FinishControl
<1>5. esc' = [nums |-> nums, trailings |-> esc.trailings, mode |-> r]
  <2>1. PICK n, x, m : esc = [nums |-> n, trailings |-> x, mode |-> m] /\ x = esc.trailings
    BY <1>1 DEF Escapes
  <2>2. PICK e : e = [nums |-> n, trailings |-> x, mode |-> r]
    OBVIOUS
  <2>3. [[nums |-> n, trailings |-> x, mode |-> m] EXCEPT !.mode = r] = e
    BY <2>2
  <2>4. [e EXCEPT !.nums = nums] = [nums |-> nums, trailings |-> x, mode |-> r]
    BY <2>2
  <2>5. [esc EXCEPT !.mode = r] = e
    BY <2>1, <2>3
  <2>6. esc' = [[esc EXCEPT !.mode = r] EXCEPT !.nums = nums]
    BY <1>1, <1>3, <1>4
  <2>7. esc' = [e EXCEPT !.nums = nums]
    BY <2>5, <2>6
  <2> QED BY <2>1, <2>4, <2>7
<1>7. esc'.mode = r /\ esc'.nums = nums
  BY <1>5
<1>8. esc' \in Escapes
  BY <1>1, <1>5 DEF Escapes, NatSeqs
<1>9. term' = IF r = M THEN ApplyNums(term, nums) ELSE term
  <2>1. Escape(esc')
    BY DEF FinishControl
  <2>2. term' = IF esc'.mode = M THEN ApplyNums(term, esc'.nums) ELSE term
    BY <2>1 DEF Escape
  <2> QED BY <1>7, <2>2
<1> QED BY <1>2, <1>7, <1>8, <1>9

\* ParserInv is inductive.
LEMMA ParserStep == ParserInv /\ [ParserNext]_parserVars => ParserInv'
<1> SUFFICES ASSUME ParserInv, [ParserNext]_parserVars PROVE ParserInv'
  OBVIOUS
<1> USE DEF ParserInv
<1>1. CASE UNCHANGED parserVars
  BY <1>1 DEF parserVars
<1>2. ASSUME NEW r \in Runes, ParserNext, Undecodable(r) \/ Text(r) \/ Swallow(r)
      PROVE  ParserInv'
  BY <1>2 DEF Undecodable, Text, Swallow, Skip, ShowRune
<1>3. ASSUME NEW r \in Runes, StartEscape(r) PROVE ParserInv'
  <2>1. <<>> \in Seq(Nat)
    OBVIOUS
  <2> QED BY <1>3, <2>1 DEF StartEscape, Skip, NoSequence, Escapes, NatSeqs
<1>4. ASSUME NEW r \in Runes, AfterEscape(r) PROVE ParserInv'
  <2>1. term' = term
    <3>1. CASE r = M
      <4>1. Escape(esc) /\ esc = NoSequence
        BY <1>4, <3>1 DEF AfterEscape, Bracket, Star, M
      <4>2. esc.mode # M
        BY <4>1 DEF NoSequence, M
      <4> QED BY <4>1, <4>2 DEF Escape
    <3>2. CASE r # M
      BY <1>4, <3>2 DEF AfterEscape, Skip, ShowRune
    <3> QED BY <3>1, <3>2
  <2> QED BY <1>4, <2>1 DEF AfterEscape, NoSequence
<1>5. ASSUME NEW r \in Runes, Trailing(r) PROVE ParserInv'
  <2>1. PICK x \in Seq(Nat) : x = Append(esc.trailings, r)
    <3>1. Append(esc.trailings, r) \in Seq(Nat)
      BY ParserAssumption DEF Escapes, NatSeqs
    <3> QED BY <3>1, Zenon
  <2>2. esc' = [esc EXCEPT !.trailings = x]
    BY <1>5, <2>1 DEF Trailing
  <2>3. esc' \in Escapes /\ esc'.nums = esc.nums
    BY <2>2 DEF Escapes, NatSeqs
  <2> QED BY <1>5, <2>3 DEF Trailing, Skip
<1>6. ASSUME NEW r \in Runes, FinishControl(r) PROVE ParserInv'
  <2>0. r \in Nat
    BY ParserAssumption
  <2>1. PICK nums \in Seq(Nat) : nums = ParseNumbers(params)
    BY ParseNumbersIs
  <2>2. ApplyNums(term, nums) \in TerminalStates /\ NoFlags \subseteq ApplyNums(term, nums).flags
    BY ApplyNumsType, NoFlagsStays
  <2>3. esc' \in Escapes /\ term' = IF r = M THEN ApplyNums(term, nums) ELSE term
    BY <1>6, <2>0, <2>1, ControlFinished
  <2> QED BY <1>6, <2>2, <2>3 DEF FinishControl
<1>7. ASSUME NEW r \in Runes, Parameter(r) PROVE ParserInv'
  <2>1. Append(params, r) \in Seq(Nat)
    BY ParserAssumption DEF NatSeqs
  <2> QED BY <1>7, <2>1 DEF Parameter, Skip, NatSeqs
<1> QED BY <1>1, <1>2, <1>3, <1>4, <1>5, <1>6, <1>7 DEF ParserNext

\* Whatever sequences came before, an "m" sequence makes of the terminal state
\* what Sgr says, attribute by attribute: whichever of its parameters are numbers.
THEOREM EscapesAreApplied == ParserSpec => SgrIsApplied
<1>1. ParserSpec => []ParserInv
  BY ParserStarts, ParserStep, PTL DEF ParserSpec
<1>2. ParserInv /\ [ParserNext]_parserVars => [FinishControl(M) => term' = Sgr(term, params)]_parserVars
  <2> SUFFICES ASSUME ParserInv, FinishControl(M), ParserNext
               PROVE  term' = Sgr(term, params)
    OBVIOUS
  <2>1. M \in Nat
    BY DEF M
  <2> QED BY <2>1, ControlFinished, NumbersAreApplied DEF ParserInv
<1> QED BY <1>1, <1>2, PTL DEF ParserSpec, SgrIsApplied

-----------------------------------------------------------------------------
(* Ids *)

\* The time of a file name has 32 bits, two of them in the first digit.
Files32 == {f \in FileNames : f.time[1] < 4}

\* The low digits survive the padding: eight of them end at place 10.
LEMMA PaddedEight ==
  ASSUME NEW d \in Seq(Digit), Len(d) = 8
  PROVE  \A p \in 3 .. 10 : Padded(d)[p] = d[p - 2]
<1>1. \A p \in 3 .. 10 : p \in Places /\ ~(p <= 10 - Len(d)) /\ p + Len(d) - 10 = p - 2
  BY DEF Places
<1> QED
  BY <1>1 DEF Padded

\* ParseAid reads a string of digits, ten at most, as the number they make.
LEMMA ParseDigits ==
  \A d \in Seq(Digit) : Len(d) <= 10 => ParseAid(d) = Padded(d)
<1> SUFFICES ASSUME NEW d \in Seq(Digit), Len(d) <= 10
             PROVE  ParseAid(d) = Padded(d)
  OBVIOUS
<1>1. \A i \in DOMAIN d : d[i] \in Digit
  BY LenProperties
<1>2. At \notin Digit
  BY DEF Digit, At
<1>3. Read(d) = d
  BY <1>1, <1>2 DEF Read
<1>4. ~(Len(d) > 10)
  BY LenProperties
<1> QED
  BY <1>1, <1>3, <1>4 DEF ParseAid

\* The id of a file has eight digits.
LEMMA IdDigits ==
  ASSUME NEW f \in Files32
  PROVE  AidOf(f) \in Seq(Digit) /\ Len(AidOf(f)) = 8
<1>1. /\ f.time \in [1 .. 6 -> Digit] /\ f.rand \in [1 .. 2 -> Digit] /\ f.time[1] \in 0 .. 3
  BY DEF Files32, FileNames, Digit
<1>2. (IF f.class = "M" THEN 0 ELSE 4) + f.time[1] \in Digit
  BY <1>1 DEF Digit
<1>3. /\ f.time[2] \in Digit /\ f.time[3] \in Digit /\ f.time[4] \in Digit
      /\ f.time[5] \in Digit /\ f.time[6] \in Digit /\ f.rand[1] \in Digit /\ f.rand[2] \in Digit
  BY <1>1
<1> QED BY <1>2, <1>3 DEF AidOf

\* ParseAid does not fail for it.
LEMMA MentionsAreIds ==
  ASSUME NEW f \in Files32
  PROVE  ParseAid(AidOf(f)) # NoAid
<1>1. ParseAid(AidOf(f)) = Padded(AidOf(f))
  <2>1. PICK d \in Seq(Digit) : d = AidOf(f) /\ Len(d) = 8
    BY IdDigits
  <2>2. Len(d) <= 10
    BY <2>1
  <2> QED BY <2>1, <2>2, ParseDigits
<1>2. 1 \in DOMAIN Padded(AidOf(f))
  BY DEF Padded, Places
<1>3. DOMAIN NoAid = {}
  BY DEF NoAid
<1> QED BY <1>1, <1>2, <1>3

\* The id that the board system writes of an article is read by ParseAid and
\* Filename as the name of the article's file, for every type, time and
\* random part: links by ids lead to the article that is meant.
THEOREM MentionsAreRead ==
  \A f \in Files32 : Filename(ParseAid(AidOf(f))) = f
<1> SUFFICES ASSUME NEW f \in Files32 PROVE Filename(ParseAid(AidOf(f))) = f
  OBVIOUS
<1>1. /\ f \in FileNames
      /\ f.class \in {"M", "G"} /\ f.time \in [1 .. 6 -> Digit] /\ f.rand \in [1 .. 2 -> Digit]
      /\ f.time[1] \in 0 .. 3
  BY DEF Files32, FileNames, Digit
<1> DEFINE d == AidOf(f)
           a == Padded(d)
<1>2. d \in Seq(Digit) /\ Len(d) = 8
  BY IdDigits
<1>3. ParseAid(d) = a /\ \A p \in 3 .. 10 : a[p] = d[p - 2]
  <2>1. ParseAid(d) = a
    <3>1. Len(d) <= 10
      BY <1>2
    <3> QED
      BY <1>2, <3>1, ParseDigits
  <2>2. \A p \in 3 .. 10 : a[p] = d[p - 2]
    BY <1>2, PaddedEight
  <2> QED
    BY <2>1, <2>2
<1>4. a[3] = (IF f.class = "M" THEN 0 ELSE 4) + f.time[1]
  BY <1>1, <1>3 DEF AidOf
<1>5. /\ a[4] = f.time[2] /\ a[5] = f.time[3] /\ a[6] = f.time[4]
      /\ a[7] = f.time[5] /\ a[8] = f.time[6] /\ a[9] = f.rand[1] /\ a[10] = f.rand[2]
  BY <1>3 DEF AidOf
<1>6. a[3] \div 4 = (IF f.class = "M" THEN 0 ELSE 1) /\ (a[3] % 4) = f.time[1]
  BY <1>1, <1>4
<1>7. Filename(a).class = f.class
  BY <1>1, <1>6 DEF Filename
<1>8. Filename(a).time = f.time
  <2>1. Filename(a).time = <<f.time[1], f.time[2], f.time[3], f.time[4], f.time[5], f.time[6]>>
    BY <1>5, <1>6 DEF Filename
  <2> QED
    BY <1>1, <2>1
<1>9. Filename(a).rand = f.rand
  <2>1. Filename(a).rand = <<f.rand[1], f.rand[2]>>
    BY <1>5 DEF Filename
  <2> QED
    BY <1>1, <2>1
<1> QED
  BY <1>1, <1>3, <1>7, <1>8, <1>9 DEF Filename, FileNames

\* Of an id that is not 0 there is a first digit that is not.
LEMMA FirstDigit ==
  ASSUME NEW a \in Aids, NEW q \in Places, a[q] # 0
  PROVE  \E m \in Places : a[m] # 0 /\ \A p \in Places : p < m => a[p] = 0
BY DEF Places

\* What Aid.String writes, ParseAid reads.
THEOREM StringIsRead ==
  \A a \in Aids : ParseAid(AidString(a)) = a
<1> SUFFICES ASSUME NEW a \in Aids PROVE ParseAid(AidString(a)) = a
  OBVIOUS
<1> DEFINE places == {p \in Places : a[p] # 0}
<1>1. CASE places = {}
  <2>1. AidString(a) = <<>> /\ <<>> \in Seq(Digit) /\ Len(<<>>) = 0
    BY <1>1 DEF AidString
  <2>2. ParseAid(<<>>) = Padded(<<>>)
    <3>1. Len(<<>>) <= 10
      BY <2>1
    <3> QED
      BY <2>1, <3>1, ParseDigits
  <2>3. \A p \in Places : Padded(<<>>)[p] = 0 /\ a[p] = 0
    BY <1>1 DEF Padded, Places
  <2> QED
    BY <2>1, <2>2, <2>3 DEF Aids, Padded
<1>2. CASE places # {}
  <2> DEFINE m == Min(places)
  <2>1. m \in places /\ \A p \in places : m <= p
    <3>1. \E n \in places : \A p \in places : n <= p
      BY <1>2, FirstDigit DEF Places
    <3> QED
      BY <3>1 DEF Min
  <2>2. m \in 1 .. 10 /\ \A p \in Places : p < m => a[p] = 0
    BY <2>1 DEF Places
  <2>3. AidString(a) = SubSeq(a, m, 10)
    BY <1>2 DEF AidString
  <2> HIDE DEF m
  <2> DEFINE d == SubSeq(a, m, 10)
  <2>4. d \in Seq(Digit) /\ Len(d) = 11 - m /\ \A i \in 1 .. 11 - m : d[i] = a[m + i - 1]
    BY <2>2 DEF Aids, Places
  <2>5. ParseAid(d) = Padded(d)
    <3>1. Len(d) <= 10
      BY <2>2, <2>4
    <3> QED
      BY <2>4, <3>1, ParseDigits
  <2>6. \A p \in Places : Padded(d)[p] = a[p]
    <3> SUFFICES ASSUME NEW p \in Places PROVE Padded(d)[p] = a[p]
      OBVIOUS
    <3>1. CASE p < m
      BY <2>2, <2>4, <3>1 DEF Padded, Places
    <3>2. CASE p >= m
      <4>1. p + Len(d) - 10 = p - m + 1 /\ p - m + 1 \in 1 .. 11 - m /\ ~(p <= 10 - Len(d))
        BY <2>2, <2>4, <3>2 DEF Places
      <4>2. d[p - m + 1] = a[p]
        <5>1. m + (p - m + 1) - 1 = p
          BY <2>2, <3>2 DEF Places
        <5> QED
          BY <2>4, <4>1, <5>1
      <4> QED
        BY <4>1, <4>2 DEF Padded
    <3> QED
      BY <2>2, <3>1, <3>2 DEF Places
  <2> QED
    BY <2>3, <2>5, <2>6 DEF Aids, Padded
<1> QED
  BY <1>1, <1>2

-----------------------------------------------------------------------------
(* Pictures *)

\* The link made at a time expires after Expires, and not two windows later.
LEMMA SnapBounds ==
  ASSUME NEW p \in Pictures, NEW now \in Nat
  PROVE  /\ SnapExpire(p, now) \in Int
         /\ now + Expires <= SnapExpire(p, now)
         /\ SnapExpire(p, now) < now + Expires + 2 * Window
<1> DEFINE least == now + Expires + (Window - 1)
<1>1. Window \in Nat /\ Window > 0 /\ Expires \in Nat
  BY LinksAssumption
<1>2. least \in Nat
  BY <1>1
<1>3. (least % Window) \in 0 .. Window - 1
  <2> HIDE DEF least
  <2> QED
    BY <1>1, <1>2
<1>4. Hash[p] \in 0 .. Window - 1
  BY LinksAssumption
<1>5. SnapExpire(p, now) = least - (least % Window) + Hash[p]
  BY DEF SnapExpire
<1> DEFINE rest == least % Window
<1>6. rest \in 0 .. Window - 1 /\ SnapExpire(p, now) = least - rest + Hash[p]
  BY <1>3, <1>5
<1> HIDE DEF rest
<1> QED
  BY <1>1, <1>4, <1>6

\* An object that memcached may still be sent, or has, or has given out: of lines
\* there are, and of a time that has been.
Sound(o) == o \in Objects /\ o.to <= Len(article) /\ o.at <= clock

\* The state has its type.
LinksTypeOK ==
  /\ clock \in 0 .. Horizon
  /\ article \in Seq(Lines) /\ Len(article) <= MaxLines
  /\ DOMAIN mc = Keys /\ DOMAIN made = Keys

\* Every object is stored soon after it is made, and kept for its timeout.
LinksInv ==
  /\ LinksTypeOK
  /\ \A k \in Keys : made[k] # None =>
       /\ Sound(made[k]) /\ made[k].key = k
       /\ clock <= made[k].at + MaxStore
  /\ \A k \in Keys : mc[k] # None =>
       /\ Sound(mc[k].object) /\ mc[k].object.key = k
       /\ mc[k].expire \in Nat /\ clock < mc[k].expire
       /\ mc[k].expire <= mc[k].object.at + MaxStore + TimeoutOf(k)
  /\ shown # None =>
       /\ Sound(shown.object)
       /\ shown.at \in Nat /\ shown.object.at <= shown.at
       /\ shown.at <= shown.object.at + MaxStore + TimeoutOf(shown.object.key)

\* The invariant holds of an article without lines.
LEMMA LinksInvInit == Init => LinksInv
<1> SUFFICES ASSUME Init PROVE LinksInv
  OBVIOUS
<1>1. clock \in 0 .. Horizon /\ article \in Seq(Lines) /\ Len(article) <= MaxLines /\ shown = None
  BY LinksAssumption DEF Init
<1>2. /\ DOMAIN mc = Keys /\ DOMAIN made = Keys
      /\ \A k \in Keys : mc[k] = None /\ made[k] = None
  BY DEF Init
<1> QED
  BY <1>1, <1>2 DEF LinksInv, LinksTypeOK

\* A page is kept for some time.
LEMMA Timeouts ==
  /\ MaxStore \in Nat
  /\ \A k \in Keys : TimeoutOf(k) \in Nat /\ TimeoutOf(k) > 0
BY LinksAssumption DEF TimeoutOf

\* Every action keeps it.
LEMMA LinksInvStep == LinksInv /\ [Next]_vars => LinksInv'
<1> SUFFICES ASSUME LinksInv, [Next]_vars PROVE LinksInv'
  OBVIOUS
<1> USE DEF LinksTypeOK, Sound
<1>1. ASSUME NEW line \in Lines, Push(line) PROVE LinksInv'
  <2>1. article' \in Seq(Lines) /\ Len(article') = Len(article) + 1 /\ Len(article) \in Nat
    BY <1>1 DEF Push, LinksInv
  <2>2. clock' = clock /\ mc' = mc /\ made' = made /\ shown' = shown
    BY <1>1 DEF Push
  <2>3. Len(article') <= MaxLines
    BY <1>1, <2>1, LinksAssumption DEF Push
  <2>4. \A o \in Objects : Sound(o) => Sound(o)'
    BY <2>1, <2>2 DEF Objects
  <2> QED
    BY <2>1, <2>2, <2>3, <2>4 DEF LinksInv
<1>2. ASSUME NEW k \in Keys, Generate(k) PROVE LinksInv'
  <2> DEFINE o == [key |-> k, from |-> From(k), to |-> Len(article), at |-> clock]
  <2>1. /\ clock' = clock /\ article' = article /\ mc' = mc
        /\ made' = [made EXCEPT ![k] = o] /\ shown' = [object |-> o, at |-> clock]
    BY <1>2 DEF Generate
  <2>2. clock \in 0 .. Horizon /\ MaxStore \in Nat /\ TimeoutOf(k) \in Nat /\ Horizon \in Nat
    BY LinksAssumption, Timeouts DEF LinksInv
  <2>3. Len(article) \in 0 .. MaxLines
    BY LenProperties, LinksAssumption DEF LinksInv
  <2>4. From(k) \in 0 .. MaxLines
    BY LinksAssumption DEF From, Keys
  <2>5. o \in Objects /\ o.to <= Len(article') /\ o.key = k /\ o.at = clock
    BY <2>1, <2>2, <2>3, <2>4 DEF Objects
  <2>6. \A j \in Keys : made'[j] = IF j = k THEN o ELSE made[j]
    BY <2>1 DEF LinksInv
  <2> HIDE DEF o
  <2>7. /\ shown'.object = o /\ shown'.at = clock
        /\ clock <= clock + MaxStore /\ clock <= clock + MaxStore + TimeoutOf(k)
    BY <2>1, <2>2
  <2>8. /\ DOMAIN made' = Keys /\ DOMAIN mc' = Keys
        /\ \A j \in Keys : made'[j] # None =>
             Sound(made[j])' /\ made'[j].key = j /\ clock' <= made'[j].at + MaxStore
    BY <2>1, <2>2, <2>5, <2>6, <2>7 DEF LinksInv
  <2>9. \A j \in Keys : mc'[j] # None =>
          /\ Sound(mc[j].object)' /\ mc'[j].object.key = j
          /\ mc'[j].expire \in Nat /\ clock' < mc'[j].expire
          /\ mc'[j].expire <= mc'[j].object.at + MaxStore + TimeoutOf(j)
    BY <2>1 DEF LinksInv
  <2>10. /\ Sound(shown.object)' /\ shown'.at \in Nat /\ shown'.object.at <= shown'.at
         /\ shown'.at <= shown'.object.at + MaxStore + TimeoutOf(shown'.object.key)
    BY <2>1, <2>2, <2>5, <2>7
  <2>11. LinksTypeOK'
    BY <2>1, <2>8 DEF LinksInv
  <2> QED
    BY <2>8, <2>9, <2>10, <2>11 DEF LinksInv
<1>3. ASSUME NEW k \in Keys, Store(k) PROVE LinksInv'
  <2> DEFINE entry == [object |-> made[k], expire |-> clock + TimeoutOf(k)]
  <2>1. /\ made[k] # None /\ clock' = clock /\ article' = article /\ shown' = shown
        /\ made' = [made EXCEPT ![k] = None]
        /\ mc' = mc \/ mc' = [mc EXCEPT ![k] = entry]
    BY <1>3 DEF Store
  <2>2. /\ Sound(made[k]) /\ made[k].key = k /\ made[k].at \in Nat
        /\ clock \in Nat /\ clock <= made[k].at + MaxStore
    BY <2>1, LinksAssumption DEF LinksInv, Objects
  <2>3. /\ entry.object = made[k] /\ entry.expire \in Nat /\ clock < entry.expire
        /\ entry.expire <= made[k].at + MaxStore + TimeoutOf(k)
    BY <2>2, Timeouts
  <2> HIDE DEF entry
  <2>4. DOMAIN mc' = Keys /\ DOMAIN made' = Keys
    BY <2>1 DEF LinksInv
  <2>5. \A j \in Keys : made'[j] # None => j # k /\ made'[j] = made[j]
    BY <2>1 DEF LinksInv
  <2>6. \A j \in Keys : mc'[j] = mc[j] \/ (j = k /\ mc'[j] = entry)
    BY <2>1 DEF LinksInv
  <2> QED
    BY <2>1, <2>2, <2>3, <2>4, <2>5, <2>6 DEF LinksInv
<1>4. ASSUME NEW k \in Keys, Hit(k) PROVE LinksInv'
  <2>1. /\ mc[k] # None /\ shown' = [object |-> mc[k].object, at |-> clock]
        /\ UNCHANGED <<clock, article, mc, made>>
    BY <1>4 DEF Hit
  <2>2. clock \in Nat /\ mc[k].object.at \in Nat
    BY <2>1, LinksAssumption DEF LinksInv, Objects
  <2>3. /\ mc[k].object.at <= clock
        /\ clock <= mc[k].object.at + MaxStore + TimeoutOf(k)
    BY <2>1, <2>2, Timeouts, SMTT(40) DEF LinksInv
  <2>4. shown'.object = mc[k].object /\ shown'.at = clock /\ mc[k].object.key = k
    BY <2>1 DEF LinksInv
  <2>5. Sound(shown.object)'
    BY <2>1, <2>4 DEF LinksInv
  <2>6. /\ LinksTypeOK'
        /\ \A j \in Keys : made'[j] # None =>
             Sound(made[j])' /\ made'[j].key = j /\ clock' <= made'[j].at + MaxStore
    BY <2>1 DEF LinksInv
  <2>7. \A j \in Keys : mc'[j] # None =>
          /\ Sound(mc[j].object)' /\ mc'[j].object.key = j
          /\ mc'[j].expire \in Nat /\ clock' < mc'[j].expire
          /\ mc'[j].expire <= mc'[j].object.at + MaxStore + TimeoutOf(j)
    BY <2>1 DEF LinksInv
  <2> QED
    BY <2>1, <2>2, <2>3, <2>4, <2>5, <2>6, <2>7 DEF LinksInv
<1>5. CASE Tick
  <2>1. /\ clock < Horizon /\ clock' = clock + 1 /\ UNCHANGED <<article, made, shown>>
        /\ \A k \in Keys : made[k] # None => clock < made[k].at + MaxStore
        /\ mc' = [k \in Keys |-> IF mc[k] # None /\ mc[k].expire <= clock' THEN None ELSE mc[k]]
    BY <1>5 DEF Tick
  <2>2. clock \in Nat /\ clock' \in 0 .. Horizon
    BY <2>1, LinksAssumption DEF LinksInv
  <2>3. \A o \in Objects : Sound(o) => Sound(o)'
    BY <2>1, <2>2, LinksAssumption DEF Objects
  <2>4. \A k \in Keys : made'[k] # None => clock' <= made'[k].at + MaxStore
    <3> SUFFICES ASSUME NEW k \in Keys, made'[k] # None
                 PROVE  clock' <= made'[k].at + MaxStore
      OBVIOUS
    <3>1. made[k].at \in Nat
      BY <2>1, LinksAssumption DEF LinksInv, Objects
    <3> QED
      BY <2>1, <2>2, <3>1, Timeouts
  <2>5. \A k \in Keys : mc'[k] # None => mc'[k] = mc[k] /\ clock' < mc[k].expire
    <3> SUFFICES ASSUME NEW k \in Keys, mc'[k] # None
                 PROVE  mc'[k] = mc[k] /\ clock' < mc[k].expire
      OBVIOUS
    <3>1. mc'[k] = mc[k] /\ ~(mc[k].expire <= clock') /\ mc[k] # None
      BY <2>1
    <3>2. mc[k].expire \in Nat
      BY <3>1 DEF LinksInv
    <3> QED
      BY <2>2, <3>1, <3>2
  <2>6. DOMAIN mc' = Keys
    BY <2>1
  <2> QED
    BY <2>1, <2>2, <2>3, <2>4, <2>5, <2>6 DEF LinksInv
<1>6. CASE UNCHANGED vars
  BY <1>6 DEF LinksInv, vars
<1> QED
  BY <1>1, <1>2, <1>3, <1>4, <1>5, <1>6 DEF Next

\* So it always holds.
LEMMA LinksInvariant == Spec => []LinksInv
  BY LinksInvInit, LinksInvStep, PTL DEF Spec

\* A page is of lines that were written.
LEMMA LinesAreLines ==
  ASSUME LinksInv, shown # None
  PROVE  \A line \in LinesOf(shown.object) : line \in Lines
<1>1. shown.object \in Objects /\ shown.object.to <= Len(article)
  BY DEF LinksInv, Sound
<1>2. article \in Seq(Lines) /\ Len(article) \in Nat
  BY LenProperties DEF LinksInv, LinksTypeOK
<1> SUFFICES ASSUME NEW i \in shown.object.from + 1 .. shown.object.to PROVE article[i] \in Lines
  BY DEF LinesOf
<1>3. i \in 1 .. Len(article)
  BY <1>1, <1>2, LinksAssumption DEF Objects
<1> QED BY <1>2, <1>3, ElementOfSeq

\* The pictures of a page are pictures of its lines.
LEMMA PicturesAreKnown ==
  ASSUME NEW line \in Lines
  PROVE  Embedded(line) \subseteq Pictures
<1> SUFFICES ASSUME NEW c \in UrlLinks(line), c.to.kind = "imgur"
             PROVE  c.to.picture \in Pictures
  BY DEF Embedded
<1>1. PICK i \in DOMAIN line : line[i].is = "url" /\ c.to = line[i]
  BY DEF UrlLinks, Is
<1>2. line[i] \in TextTokens
  BY LinesAssumption
<1>3. line[i] \in [is : {"url"}, kind : {"imgur"}, picture : Pictures]
  BY <1>1, <1>2 DEF TextTokens
<1> QED BY <1>1, <1>3

\* Whatever page somebody is shown, however late it was stored, and however long
\* it has been in memcached, its pictures remain available for as long as
\* configured, less the page's timeout: for any windows, timeouts and hashes.
THEOREM PicturesOutlive == Spec => []PicturesOutlivePages
<1>1. LinksInv => PicturesOutlivePages
  <2> SUFFICES ASSUME LinksInv, shown # None, NEW p \in PicturesOf(shown.object)
               PROVE  /\ p.expire >= shown.at + Expires - (MaxStore + TimeoutOf(shown.object.key))
                      /\ p.expire < shown.at + Expires + 2 * Window
    BY DEF PicturesOutlivePages
  <2> DEFINE o == shown.object
             kept == TimeoutOf(o.key)
  <2>1. /\ o \in Objects /\ o.to <= Len(article) /\ shown.at \in Nat
        /\ o.at <= shown.at /\ shown.at <= o.at + MaxStore + kept
    BY DEF LinksInv, Sound
  <2>2. o.at \in Nat /\ kept \in Nat /\ MaxStore \in Nat /\ Expires \in Nat /\ Window \in Nat
    BY <2>1, LinksAssumption, Timeouts DEF Objects
  <2>3. \A line \in LinesOf(o) : line \in Lines
    BY LinesAreLines
  <2>4. PICK q \in UNION {Embedded(line) : line \in LinesOf(o)} : p.expire = SnapExpire(q, o.at)
    BY DEF PicturesOf
  <2>5. q \in Pictures
    BY <2>3, <2>4, PicturesAreKnown
  <2>6. /\ p.expire \in Int /\ o.at + Expires <= p.expire
        /\ p.expire < o.at + Expires + 2 * Window
    BY <2>2, <2>4, <2>5, SnapBounds
  <2> HIDE DEF o, kept
  <2>7. p.expire >= shown.at + Expires - (MaxStore + kept) /\ p.expire < shown.at + Expires + 2 * Window
    BY <2>1, <2>2, <2>6, SMTT(40)
  <2> QED
    BY <2>7 DEF o, kept
<1> QED
  BY <1>1, LinksInvariant, PTL

-----------------------------------------------------------------------------
(* Where links lead *)

\* What all finders report of a line, and where.
Reported(line) == UrlLinks(line) \cup AidLinks(line)
\* Where the finds of a line are.
PlacesOf(line) == {d.at : d \in Reported(line)}
\* To the file of an id, on a board.
ToArticle(name, id) == [board |-> name, file |-> Filename(ParseAid(id))]

\* A find is kept if of those that overlap it and begin before it, or are longer,
\* none is kept, and what is kept besides does not overlap it.
LEMMA FirstIsKept ==
  ASSUME NEW L \in Nat, NEW R, R \subseteq RangesIn(L), NEW A \in R,
         \A r \in R : Before(r, A) /\ A[1] <= r[2] => r \notin Range(Filtered(R))
  PROVE  /\ A \in Range(Filtered(R))
         /\ \A r \in Range(Filtered(R)) : r[1] <= A[2] /\ A[1] <= r[2] => r = A
<1>1. PICK k \in Seq(R) : k = Filtered(R) /\ Apart(k)
  BY FilteredIs DEF Kept
<1>2. Decides(k, A)
  BY <1>1, FilteredDecides
<1>3. A[1] \in Nat /\ A[2] \in Nat /\ A[1] <= A[2] /\ \A r \in R : r[1] \in Nat /\ r[2] \in Nat /\ r[1] <= r[2]
  BY DEF RangesIn
<1>4. PICK j \in 1 .. Len(k) : k[j] = A
  <2>1. PICK j \in 1 .. Len(k) : k[j] = A \/ (Before(k[j], A) /\ A[1] <= k[j][2])
    BY <1>2 DEF Decides
  <2>2. k[j] \in R /\ k[j] \in Range(Filtered(R))
    BY <1>1 DEF Range
  <2>3. ~(Before(k[j], A) /\ A[1] <= k[j][2])
    BY <2>2
  <2> QED BY <2>1, <2>3
<1>5. Range(k) = {k[n] : n \in 1 .. Len(k)}
  BY <1>1 DEF Range
<1>6. ASSUME NEW n \in 1 .. Len(k), k[n][1] <= A[2], A[1] <= k[n][2] PROVE k[n] = A
  <2>1. Len(k) \in Nat /\ k[n] \in R
    BY <1>1
  <2>2. CASE n < j
    <3>1. n \in 1 .. j - 1
      BY <2>1, <2>2
    <3>2. k[n][2] < A[1]
      BY <1>1, <1>4, <3>1 DEF Apart
    <3> QED BY <1>3, <1>6, <2>1, <3>2
  <2>3. CASE j < n
    <3>1. j \in 1 .. n - 1
      BY <2>1, <2>3
    <3>2. A[2] < k[n][1]
      BY <1>1, <1>4, <3>1 DEF Apart
    <3> QED BY <1>3, <1>6, <2>1, <3>2
  <2>4. n < j \/ j < n \/ n = j
    BY <2>1
  <2> QED BY <1>4, <2>2, <2>3, <2>4
<1> QED BY <1>1, <1>4, <1>5, <1>6

\* What begins at the second position of a find Q is not kept if no find ends at the
\* first: Q is kept, or what it has lost to overlaps both.
LEMMA NextIsDropped ==
  ASSUME NEW L \in Nat, NEW R, R \subseteq RangesIn(L), NEW T \in R, NEW Q \in R,
         T[1] = Q[1] + 1, T[1] <= Q[2], \A r \in R : r[2] # Q[1]
  PROVE  T \notin Range(Filtered(R))
<1>1. PICK k \in Seq(R) : k = Filtered(R) /\ Apart(k)
  BY FilteredIs DEF Kept
<1>2. Decides(k, Q)
  BY <1>1, FilteredDecides
<1>3. \A r \in R : r[1] \in Nat /\ r[2] \in Nat /\ r[1] <= r[2]
  BY DEF RangesIn
<1>4. PICK j \in 1 .. Len(k) : k[j] = Q \/ (Before(k[j], Q) /\ Q[1] <= k[j][2])
  BY <1>2 DEF Decides
<1>5. k[j] \in R /\ k[j][1] <= Q[1] /\ T[1] <= k[j][2]
  <2>1. k[j] \in R /\ k[j][2] # Q[1]
    BY <1>1
  <2> QED BY <1>3, <1>4, <2>1 DEF Before
<1> SUFFICES ASSUME NEW n \in 1 .. Len(k), k[n] = T PROVE FALSE
  BY <1>1 DEF Range
<1>6. Len(k) \in Nat
  BY <1>1
<1>7. CASE n < j
  <2>1. n \in 1 .. j - 1
    BY <1>6, <1>7
  <2>2. k[n][2] < k[j][1]
    BY <1>1, <2>1 DEF Apart
  <2> QED BY <1>3, <1>5, <2>2
<1>8. CASE j < n
  <2>1. j \in 1 .. n - 1
    BY <1>6, <1>8
  <2>2. k[j][2] < k[n][1]
    BY <1>1, <2>1 DEF Apart
  <2> QED BY <1>3, <1>5, <2>2
<1>9. CASE n = j
  BY <1>3, <1>5, <1>9
<1> QED BY <1>6, <1>7, <1>8, <1>9

\* What can be found at token j of a line.
FoundAt(line, j, c) ==
  \/ Is(line, j, "url") /\ c.at = <<2 * j, 2 * j + 1>> /\ c.to = line[j]
  \/ Is(line, j, "url") /\ c.at = <<2 * j + 1, 2 * j + 1>>
  \/ Is(line, j, "url") /\ Is(line, j + 1, "brackets") /\ c.at = <<2 * j + 1, 2 * j + 3>>
  \/ Is(line, j, "id") /\ c.at = <<2 * j, 2 * j + 1>> /\ c.to = ToArticle(Board, line[j].id)
  \/ /\ Is(line, j, "id") /\ Is(line, j + 1, "brackets")
     /\ c.at = <<2 * j, 2 * j + 3>> /\ c.to = ToArticle(line[j + 1].name, line[j].id)
  \/ /\ j > 2 /\ Is(line, j, "id") /\ Is(line, j - 2, "word") /\ Is(line, j - 1, "kanban")
     /\ c.at = <<2 * j - 4, 2 * j + 1>> \/ c.at = <<2 * j - 3, 2 * j + 1>>
     /\ Dotless(line[j - 2].name) =>
          c.at = <<2 * j - 4, 2 * j + 1>> /\ c.to = ToArticle(line[j - 2].name, line[j].id)
  \/ /\ j > 2 /\ Is(line, j, "id") /\ Is(line, j - 1, "kanban")
     /\ Is(line, j - 2, "id") \/ Is(line, j - 2, "url")
     /\ c.at = <<2 * j - 3, 2 * j + 1>>

\* Words are their names.
LEMMA WordsAre ==
  ASSUME NEW line \in Lines, NEW i, Is(line, i, "word")
  PROVE  line[i] = Word(line[i].name) /\ line[i].name \in BoardNames
<1>1. line[i] \in TextTokens
  BY LinesAssumption DEF Is
<1>2. line[i] \in [is : {"word", "brackets"}, name : BoardNames]
  BY <1>1 DEF Is, TextTokens
<1> QED BY <1>2 DEF Is, Word

\* The finders report nothing else.
LEMMA FoundIs ==
  ASSUME NEW line \in Lines, NEW c \in Reported(line)
  PROVE  \E j \in DOMAIN line : FoundAt(line, j, c)
<1>1. Len(line) \in Nat /\ DOMAIN line = 1 .. Len(line)
  BY LinesAssumption, LenProperties
<1>2. CASE c \in UrlLinks(line)
  BY <1>2 DEF UrlLinks, Position, FoundAt, Is
<1>3. CASE c \in AidLinks(line)
  <2>1. PICK m \in Matches(line) : c.at = m.at /\ c.to = ToArticle(m.name, m.id)
    <3>1. PICK m \in Matches(line) :
            c = [at |-> m.at, to |-> [board |-> m.name, file |-> Filename(ParseAid(m.id))]]
      BY <1>3 DEF AidLinks
    <3> QED BY <3>1 DEF ToArticle
  <2>2. CASE m \in BoardAidText(line)
    <3>1. PICK i \in DOMAIN line :
            /\ Suffix(line[i]) # NoName /\ Is(line, i + 1, "kanban") /\ Is(line, i + 2, "id")
            /\ m = Match(IF line[i] = Word(Suffix(line[i])) THEN 2 * i ELSE 2 * i + 1, 2 * i + 5,
                         Suffix(line[i]), line[i + 2].id)
      BY <2>2 DEF BoardAidText, Alternate, NamesBoard
    <3>2. PICK j \in DOMAIN line : j = i + 2
      BY <3>1 DEF Is
    <3>3. /\ j > 2 /\ i = j - 2 /\ i + 1 = j - 1 /\ i + 2 = j /\ 2 * i = 2 * j - 4
          /\ 2 * i + 1 = 2 * j - 3 /\ 2 * i + 5 = 2 * j + 1
      BY <1>1, <3>2
    <3>4. Is(line, j, "id") /\ Is(line, j - 1, "kanban")
      BY <3>1, <3>3
    <3>5. line[i].is \in {"word", "id", "url"}
      BY <3>1, LinesAssumption
    <3>6. CASE line[i].is = "word"
      <4>1. m.at = <<2 * j - 4, 2 * j + 1>> \/ m.at = <<2 * j - 3, 2 * j + 1>>
        BY <3>1, <3>3 DEF Match
      <4>2. Is(line, i, "word")
        BY <3>6 DEF Is
      <4>3. Dotless(line[i].name) =>
              m.at = <<2 * j - 4, 2 * j + 1>> /\ m.name = line[i].name /\ m.id = line[j].id
        <5>1. Dotless(line[i].name) => Suffix(line[i]) = line[i].name /\ line[i] = Word(Suffix(line[i]))
          BY <4>2, WordsAre DEF Dotless
        <5> QED BY <3>1, <3>3, <5>1 DEF Match
      <4>4. FoundAt(line, j, c)
        BY <2>1, <3>3, <3>4, <4>1, <4>2, <4>3 DEF FoundAt
      <4> QED BY <4>4
    <3>7. CASE line[i].is \in {"id", "url"}
      <4>1. line[i] # Word(Suffix(line[i]))
        BY <3>7 DEF Word
      <4>2. m.at = <<2 * j - 3, 2 * j + 1>>
        BY <3>1, <3>3, <4>1 DEF Match
      <4>3. Is(line, j - 2, "id") \/ Is(line, j - 2, "url")
        BY <3>3, <3>7 DEF Is
      <4>4. FoundAt(line, j, c)
        BY <2>1, <3>3, <3>4, <4>2, <4>3 DEF FoundAt
      <4> QED BY <4>4
    <3> QED BY <3>5, <3>6, <3>7
  <2>3. CASE m \in AidBoardText(line)
    <3>1. PICK i \in DOMAIN line :
            /\ HoldsId(line, i) /\ Is(line, i + 1, "brackets")
            /\ m = Match(IdAt(line, i), 2 * i + 3, line[i + 1].name, line[i].id)
      BY <2>3 DEF AidBoardText
    <3>2. CASE Is(line, i, "id")
      <4>1. c.at = <<2 * i, 2 * i + 3>> /\ c.to = ToArticle(line[i + 1].name, line[i].id)
        BY <2>1, <3>1, <3>2 DEF Match, IdAt
      <4>2. FoundAt(line, i, c)
        BY <3>1, <3>2, <4>1 DEF FoundAt
      <4> QED BY <4>2
    <3>3. CASE ~Is(line, i, "id")
      <4>1. Is(line, i, "url") /\ c.at = <<2 * i + 1, 2 * i + 3>>
        BY <2>1, <3>1, <3>3 DEF Match, IdAt, HoldsId
      <4>2. FoundAt(line, i, c)
        BY <3>1, <4>1 DEF FoundAt
      <4> QED BY <4>2
    <3> QED BY <3>2, <3>3
  <2>4. CASE m \in AidText(line)
    <3>1. PICK i \in DOMAIN line :
            HoldsId(line, i) /\ m = Match(IdAt(line, i), 2 * i + 1, Board, line[i].id)
      BY <2>4 DEF AidText
    <3>2. CASE Is(line, i, "id")
      <4>1. c.at = <<2 * i, 2 * i + 1>> /\ c.to = ToArticle(Board, line[i].id)
        BY <2>1, <3>1, <3>2 DEF Match, IdAt
      <4>2. FoundAt(line, i, c)
        BY <3>2, <4>1 DEF FoundAt
      <4> QED BY <4>2
    <3>3. CASE ~Is(line, i, "id")
      <4>1. Is(line, i, "url") /\ c.at = <<2 * i + 1, 2 * i + 1>>
        BY <2>1, <3>1, <3>3 DEF Match, IdAt, HoldsId
      <4>2. FoundAt(line, i, c)
        BY <4>1 DEF FoundAt
      <4> QED BY <4>2
    <3> QED BY <3>2, <3>3
  <2> QED BY <2>2, <2>3, <2>4 DEF Matches
<1> QED BY <1>2, <1>3 DEF Reported

\* The finds are in the line, and end at the end of a token.
LEMMA FoundInLine ==
  ASSUME NEW line \in Lines
  PROVE  /\ 2 * Len(line) + 1 \in Nat /\ PlacesOf(line) \subseteq RangesIn(2 * Len(line) + 1)
         /\ \A r \in PlacesOf(line) : \E k \in Nat : r[2] = 2 * k + 1
<1>1. Len(line) \in Nat /\ DOMAIN line = 1 .. Len(line)
  BY LinesAssumption, LenProperties
<1>2. ASSUME NEW c \in Reported(line)
      PROVE  c.at \in RangesIn(2 * Len(line) + 1) /\ \E k \in Nat : c.at[2] = 2 * k + 1
  <2>1. PICK j \in 1 .. Len(line) : FoundAt(line, j, c)
    BY <1>1, FoundIs
  <2>2. CASE Is(line, j + 1, "brackets") /\ c.at \in {<<2 * j, 2 * j + 3>>, <<2 * j + 1, 2 * j + 3>>}
    <3>1. j + 1 \in 1 .. Len(line)
      BY <1>1, <2>2 DEF Is
    <3>2. /\ 1 <= 2 * j /\ 2 * j + 1 <= 2 * j + 3 /\ 2 * j + 3 <= 2 * Len(line) + 1 /\ j + 1 \in Nat
          /\ 2 * j \in Nat /\ 2 * j + 1 \in Nat /\ 2 * j + 3 \in Nat /\ 2 * j + 3 = 2 * (j + 1) + 1
      BY <1>1, <3>1
    <3>3. c.at[2] = 2 * (j + 1) + 1
      BY <2>2, <3>2
    <3>4. c.at \in RangesIn(2 * Len(line) + 1)
      BY <2>2, <3>2 DEF RangesIn
    <3> QED BY <3>2, <3>3, <3>4
  <2>3. CASE c.at \in {<<2 * j, 2 * j + 1>>, <<2 * j + 1, 2 * j + 1>>}
    <3>1. 1 <= 2 * j /\ 2 * j + 1 <= 2 * Len(line) + 1 /\ 2 * j \in Nat /\ 2 * j + 1 \in Nat /\ j \in Nat
      BY <1>1
    <3>2. c.at[2] = 2 * j + 1
      BY <2>3
    <3>3. c.at \in RangesIn(2 * Len(line) + 1)
      BY <2>3, <3>1 DEF RangesIn
    <3> QED BY <3>1, <3>2, <3>3
  <2>4. CASE j > 2 /\ c.at \in {<<2 * j - 4, 2 * j + 1>>, <<2 * j - 3, 2 * j + 1>>}
    <3>1. /\ 1 <= 2 * j - 4 /\ 1 <= 2 * j - 3 /\ 2 * j + 1 <= 2 * Len(line) + 1
          /\ 2 * j - 4 \in Nat /\ 2 * j - 3 \in Nat /\ 2 * j + 1 \in Nat /\ j \in Nat
          /\ 2 * j - 4 <= 2 * j + 1 /\ 2 * j - 3 <= 2 * j + 1
      BY <1>1, <2>4
    <3>2. c.at[2] = 2 * j + 1
      BY <2>4
    <3>3. c.at \in RangesIn(2 * Len(line) + 1)
      BY <2>4, <3>1 DEF RangesIn
    <3> QED BY <3>1, <3>2, <3>3
  <2> QED BY <2>1, <2>2, <2>3, <2>4 DEF FoundAt
<1>3. \A r \in PlacesOf(line) : \E c \in Reported(line) : r = c.at
  BY DEF PlacesOf
<1>4. \A r \in PlacesOf(line) : r \in RangesIn(2 * Len(line) + 1) /\ \E k \in Nat : r[2] = 2 * k + 1
  BY <1>2, <1>3
<1> QED BY <1>1, <1>4

\* What an id may consist of can be read.
LEMMA IdsAreRead ==
  ASSUME NEW id \in Ids
  PROVE  ParseAid(id) # NoAid
<1>1. id \in Seq(Digit \cup {At}) /\ Len(id) \in 8 .. 10
  BY DEF Ids
<1> DEFINE ats == {i \in DOMAIN id : id[i] = At}
<1>2. \A i \in DOMAIN Read(id) : Read(id)[i] \in Digit
  <2>1. CASE ats = {}
    <3>1. Read(id) = id
      BY <2>1 DEF Read
    <3> QED BY <1>1, <2>1, <3>1
  <2>2. CASE ats # {}
    <3>1. ats \subseteq 1 .. Len(id) /\ Len(id) \in Nat
      BY <1>1
    <3>2. PICK m \in ats : m = Min(ats) /\ \A i \in ats : m <= i
      <4>1. \E m \in ats : \A i \in ats : m <= i
        <5>1. \A i \in ats : i \in 1 .. 10
          BY <1>1
        <5> HIDE DEF ats
        <5> QED BY <2>2, <5>1
      <4> QED BY <4>1 DEF Min
    <3>3. m \in 1 .. Len(id) /\ \A i \in 1 .. m - 1 : id[i] \in Digit
      <4>1. m \in 1 .. Len(id)
        BY <3>1
      <4>2. ASSUME NEW i \in 1 .. m - 1 PROVE id[i] \in Digit
        <5>1. i \in DOMAIN id /\ ~(m <= i)
          BY <1>1, <4>1
        <5> QED BY <1>1, <3>2, <5>1
      <4> QED BY <4>1, <4>2
    <3>4. PICK head \in Seq(Digit) : head = SubSeq(id, 1, m - 1)
      <4>1. SubSeq(id, 1, m - 1) \in Seq(Digit)
        BY <1>1, <3>3
      <4> QED BY <4>1, Zenon
    <3>5. Read(id) = Append(head, 0) /\ 0 \in Digit
      <4>1. Read(id) = Append(SubSeq(id, 1, Min(ats) - 1), 0)
        BY <2>2 DEF Read
      <4> QED BY <3>2, <3>4, <4>1 DEF Digit
    <3> QED BY <3>4, <3>5
  <2> QED BY <2>1, <2>2
<1>3. ~(Len(id) > 10) /\ ~(\E i \in DOMAIN Read(id) : Read(id)[i] \notin Digit)
  <2>1. ~(Len(id) > 10)
    <3>1. PICK n : n = Len(id)
      OBVIOUS
    <3>2. n \in 8 .. 10
      BY <1>1, <3>1, Zenon
    <3>3. ~(n > 10)
      BY <3>2
    <3> QED BY <3>1, <3>3, Zenon
  <2>2. ~(\E i \in DOMAIN Read(id) : Read(id)[i] \notin Digit)
    BY <1>2, Zenon
  <2> QED BY <2>1, <2>2
<1>4. ParseAid(id) = Padded(Read(id))
  BY <1>3 DEF ParseAid
<1>5. 1 \in DOMAIN Padded(Read(id))
  BY DEF Padded, Places
<1>6. DOMAIN NoAid = {}
  BY DEF NoAid
<1> QED BY <1>4, <1>5, <1>6

\* What begins in an id or a URL behind its first half is dropped.
LEMMA TailIsDropped ==
  ASSUME NEW line \in Lines, NEW j \in DOMAIN line, Is(line, j, "id") \/ Is(line, j, "url"),
         NEW T \in PlacesOf(line), T[1] = 2 * j + 1
  PROVE  T \notin Range(Filtered(PlacesOf(line)))
<1>1. j \in Nat
  BY LinesAssumption, LenProperties
<1>2. PICK Q \in PlacesOf(line) : Q[1] = 2 * j /\ Q[2] = 2 * j + 1
  <2>1. PICK Q : Q = <<2 * j, 2 * j + 1>>
    OBVIOUS
  <2>2. CASE Is(line, j, "url")
    <3>1. [at |-> Q, to |-> line[j]] \in Reported(line)
      BY <2>1, <2>2 DEF Reported, UrlLinks, Position
    <3>2. Q \in PlacesOf(line)
      BY <3>1 DEF PlacesOf
    <3> QED BY <2>1, <3>2
  <2>3. CASE Is(line, j, "id")
    <3>1. line[j].id \in Ids
      <4>1. line[j] \in TextTokens /\ line[j].is = "id"
        BY <2>3, LinesAssumption DEF Is
      <4>2. line[j] \in [is : {"id"}, id : Ids]
        BY <4>1 DEF TextTokens
      <4> QED BY <4>2
    <3>2. PICK m \in Matches(line) : m.at = Q /\ m.id = line[j].id
      <4>1. Match(2 * j, 2 * j + 1, Board, line[j].id) \in AidText(line)
        BY <2>3 DEF AidText, HoldsId, IdAt
      <4> QED BY <2>1, <4>1 DEF Matches, Match
    <3>3. ParseAid(m.id) # NoAid
      BY <3>1, <3>2, IdsAreRead
    <3>4. [at |-> m.at, to |-> [board |-> m.name, file |-> Filename(ParseAid(m.id))]] \in Reported(line)
      BY <3>3 DEF Reported, AidLinks
    <3>5. Q \in PlacesOf(line)
      BY <3>2, <3>4 DEF PlacesOf
    <3> QED BY <2>1, <3>5
  <2> QED BY <2>2, <2>3
<1>3. \A r \in PlacesOf(line) : r[2] # Q[1]
  <2>1. \A k \in Nat : 2 * k + 1 # 2 * j
    BY <1>1
  <2> QED BY <1>2, <2>1, FoundInLine
<1>4. T[1] = Q[1] + 1 /\ T[1] <= Q[2]
  BY <1>1, <1>2
<1>5. 2 * Len(line) + 1 \in Nat /\ PlacesOf(line) \subseteq RangesIn(2 * Len(line) + 1)
  BY FoundInLine
<1> QED BY <1>3, <1>4, <1>5, NextIsDropped

\* The find at A is the one link that covers token i.
LEMMA OneLink ==
  ASSUME NEW line \in Lines, NEW i \in DOMAIN line, ~AidFails(line),
         NEW A \in PlacesOf(line), A[1] <= 2 * i, 2 * i + 1 <= A[2],
         \A r \in PlacesOf(line) : Before(r, A) => r[2] < A[1] \/ r \notin Range(Filtered(PlacesOf(line)))
  PROVE  {c \in Find(line) : Covers(c, i)} = {c \in Reported(line) : c.at = A}
<1>1. i \in Nat /\ 2 * Len(line) + 1 \in Nat /\ PlacesOf(line) \subseteq RangesIn(2 * Len(line) + 1)
  BY FoundInLine, LinesAssumption, LenProperties
<1>2. /\ A \in Range(Filtered(PlacesOf(line)))
      /\ \A r \in Range(Filtered(PlacesOf(line))) : r[1] <= A[2] /\ A[1] <= r[2] => r = A
  <2>1. \A r \in PlacesOf(line) : r[1] \in Nat /\ r[2] \in Nat
    BY <1>1 DEF RangesIn
  <2>2. \A r \in PlacesOf(line) :
          Before(r, A) /\ A[1] <= r[2] => r \notin Range(Filtered(PlacesOf(line)))
    BY <2>1
  <2> QED BY <1>1, <2>2, FirstIsKept
<1>3. Find(line) = {c \in Reported(line) : c.at \in Range(Filtered(PlacesOf(line)))}
  BY DEF Find, Reported, PlacesOf
<1>4. \A r \in PlacesOf(line) : r[1] \in Nat /\ r[2] \in Nat
  BY <1>1 DEF RangesIn
<1>5. ASSUME NEW c \in Reported(line), c.at \in Range(Filtered(PlacesOf(line))), Covers(c, i) PROVE c.at = A
  <2>1. c.at \in PlacesOf(line)
    BY DEF PlacesOf
  <2>2. c.at[1] <= A[2] /\ A[1] <= c.at[2]
    BY <1>1, <1>4, <1>5, <2>1 DEF Covers
  <2> QED BY <1>2, <1>5, <2>2
<1>6. ASSUME NEW c \in Reported(line), c.at = A PROVE Covers(c, i)
  <2>1. A[1] \in Nat /\ A[2] \in Nat
    BY <1>4
  <2> QED BY <1>1, <1>6, <2>1 DEF Covers
<1> QED BY <1>2, <1>3, <1>5, <1>6


\* A URL is a link to itself.
LEMMA UrlIsLink ==
  ASSUME NEW line \in Lines, NEW i \in DOMAIN line, ~AidFails(line), Is(line, i, "url")
  PROVE  {c.to : c \in {d \in Find(line) : Covers(d, i)}} = {line[i]}
<1>1. i \in Nat /\ i >= 1 /\ DOMAIN line \subseteq Nat
  BY LinesAssumption, LenProperties
<1>2. PICK u : u = [at |-> <<2 * i, 2 * i + 1>>, to |-> line[i]]
  OBVIOUS
<1>3. u \in Reported(line)
  BY <1>2 DEF Reported, UrlLinks, Position
<1>4. PICK A \in PlacesOf(line) : A = u.at
  BY <1>3 DEF PlacesOf
<1>5. A[1] = 2 * i /\ A[2] = 2 * i + 1
  BY <1>2, <1>4
<1>6. ASSUME NEW c \in Reported(line), Before(c.at, A) PROVE c.at[2] < A[1]
  <2>1. PICK j \in DOMAIN line : FoundAt(line, j, c)
    BY FoundIs
  <2>2. j \in Nat
    BY <1>1
  <2>3. CASE c.at \in {<<2 * j, 2 * j + 1>>, <<2 * j + 1, 2 * j + 1>>}
    <3>1. c.at[1] \in {2 * j, 2 * j + 1} /\ c.at[2] = 2 * j + 1
      BY <2>3
    <3> QED BY <1>1, <1>5, <1>6, <2>2, <3>1 DEF Before
  <2>4. CASE /\ Is(line, j + 1, "brackets")
             /\ \/ Is(line, j, "id") /\ c.at = <<2 * j, 2 * j + 3>>
                \/ c.at = <<2 * j + 1, 2 * j + 3>>
    <3>1. j + 1 # i /\ (Is(line, j, "id") => j # i)
      BY <2>4 DEF Is
    <3>2. (Is(line, j, "id") /\ c.at[1] = 2 * j) \/ c.at[1] = 2 * j + 1
      BY <2>4
    <3>3. c.at[2] = 2 * j + 3
      BY <2>4
    <3> QED BY <1>1, <1>5, <1>6, <2>2, <3>1, <3>2, <3>3 DEF Before
  <2>6. CASE /\ Is(line, j, "id") /\ Is(line, j - 1, "kanban") /\ c.at = <<2 * j - 3, 2 * j + 1>>
    <3>1. j # i /\ j - 1 # i
      BY <2>6 DEF Is
    <3>2. c.at[1] = 2 * j - 3 /\ c.at[2] = 2 * j + 1
      BY <2>6
    <3> QED BY <1>1, <1>5, <1>6, <2>2, <3>1, <3>2 DEF Before
  <2>5. CASE /\ Is(line, j, "id") /\ Is(line, j - 2, "word") /\ Is(line, j - 1, "kanban")
             /\ c.at \in {<<2 * j - 4, 2 * j + 1>>, <<2 * j - 3, 2 * j + 1>>}
    <3>1. j # i /\ j - 1 # i /\ j - 2 # i
      BY <2>5 DEF Is
    <3>2. (c.at[1] = 2 * j - 4 \/ c.at[1] = 2 * j - 3) /\ c.at[2] = 2 * j + 1
      BY <2>5
    <3>3. j < i \/ j - 2 > i
      BY <1>1, <2>2, <3>1
    <3>4. CASE j < i
      BY <1>1, <1>5, <2>2, <3>2, <3>4
    <3>5. CASE j - 2 > i
      <4>1. c.at[1] > A[1]
        BY <1>1, <1>5, <2>2, <3>2, <3>5
      <4>2. c.at[1] \in Int /\ A[1] \in Int
        BY <1>1, <1>5, <2>2, <3>2, SMTT(40)
      <4> QED BY <1>6, <4>1, <4>2 DEF Before
    <3> QED BY <3>3, <3>4, <3>5
  <2> QED BY <2>1, <2>3, <2>4, <2>5, <2>6 DEF FoundAt
<1>7. {c \in Find(line) : Covers(c, i)} = {c \in Reported(line) : c.at = A}
  <2>1. \A r \in PlacesOf(line) : Before(r, A) => r[2] < A[1]
    BY <1>6 DEF PlacesOf
  <2>2. A[1] <= 2 * i /\ 2 * i + 1 <= A[2]
    BY <1>1, <1>5
  <2> QED BY <2>1, <2>2, OneLink
<1>8. ASSUME NEW c \in Reported(line), c.at = A PROVE c.to = line[i]
  <2>1. PICK j \in DOMAIN line : FoundAt(line, j, c)
    BY FoundIs
  <2>2. j \in Nat /\ c.at[1] = 2 * i /\ c.at[2] = 2 * i + 1
    BY <1>1, <1>5, <1>8
  <2>3. CASE Is(line, j, "url") /\ c.at = <<2 * j, 2 * j + 1>> /\ c.to = line[j]
    <3>1. c.at[1] = 2 * j
      BY <2>3
    <3>2. j = i
      BY <1>1, <2>2, <3>1
    <3> QED BY <2>3, <3>2
  <2>4. CASE c.at = <<2 * j + 1, 2 * j + 1>>
    <3>1. c.at[1] = c.at[2]
      BY <2>4
    <3> QED BY <1>1, <2>2, <3>1
  <2>6. CASE c.at = <<2 * j + 1, 2 * j + 3>>
    <3>1. c.at[1] = 2 * j + 1
      BY <2>6
    <3> QED BY <1>1, <2>2, <3>1
  <2>5. CASE Is(line, j, "id")
    <3>1. j # i
      BY <2>5 DEF Is
    <3>2. CASE c.at = <<2 * j, 2 * j + 1>>
      <4>1. c.at[1] = 2 * j
        BY <3>2
      <4> QED BY <1>1, <2>2, <3>1, <4>1
    <3>3. CASE c.at = <<2 * j, 2 * j + 3>>
      <4>1. c.at[1] = 2 * j /\ c.at[2] = 2 * j + 3
        BY <3>3
      <4> QED BY <1>1, <2>2, <4>1
    <3>4. CASE c.at \in {<<2 * j - 4, 2 * j + 1>>, <<2 * j - 3, 2 * j + 1>>}
      <4>1. c.at[2] = 2 * j + 1
        BY <3>4
      <4> QED BY <1>1, <2>2, <3>1, <4>1
    <3> QED BY <2>1, <2>5, <3>2, <3>3, <3>4 DEF FoundAt, Is
  <2> QED BY <2>1, <2>3, <2>4, <2>5, <2>6 DEF FoundAt
<1> QED BY <1>2, <1>3, <1>4, <1>7, <1>8

\* The find of an id, with the board that is named with it.
PlaceOfId(line, i) ==
  IF i > 2 /\ Is(line, i - 2, "word") /\ Is(line, i - 1, "kanban") THEN <<2 * i - 4, 2 * i + 1>>
  ELSE IF Is(line, i + 1, "brackets") THEN <<2 * i, 2 * i + 3>>
  ELSE <<2 * i, 2 * i + 1>>

\* It is reported.
LEMMA IdIsFound ==
  ASSUME NEW line \in Lines, NEW i \in DOMAIN line, Is(line, i, "id"), Legible(line, i),
         ParseAid(line[i].id) # NoAid
  PROVE  [at |-> PlaceOfId(line, i), to |-> ToArticle(MeantBoard(line, i), line[i].id)] \in Reported(line)
<1>1. i \in Nat
  BY LinesAssumption, LenProperties
<1>2. PICK name : name = MeantBoard(line, i) /\ Dotless(name)
  BY DEF Legible
<1>3. Match(PlaceOfId(line, i)[1], PlaceOfId(line, i)[2], name, line[i].id) \in Matches(line)
  <2>1. CASE i > 2 /\ Is(line, i - 2, "word") /\ Is(line, i - 1, "kanban")
    <3>1. PICK j : j = i - 2 /\ j + 1 = i - 1 /\ j + 2 = i /\ 2 * j = 2 * i - 4 /\ 2 * j + 5 = 2 * i + 1
      BY <1>1
    <3>2. name = line[j].name
      BY <1>2, <2>1, <3>1 DEF MeantBoard
    <3>3. PlaceOfId(line, i)[1] = 2 * j /\ PlaceOfId(line, i)[2] = 2 * j + 5
      BY <2>1, <3>1 DEF PlaceOfId
    <3>4. line[j] = Word(name) /\ Suffix(line[j]) = name /\ name # NoName
      BY <1>2, <2>1, <3>1, <3>2, WordsAre, LinksAssumption DEF Dotless
    <3>5. j \in Alternate({k \in DOMAIN line : NamesBoard(line, k)})
      <4> DEFINE js == {k \in DOMAIN line : NamesBoard(line, k)}
      <4>1. j \in js
        BY <2>1, <3>1, <3>4 DEF Is, NamesBoard
      <4>2. j - 2 \notin js
        <5>1. ~Is(line, j, "id")
          BY <2>1, <3>1 DEF Is
        <5>2. j - 2 + 2 = j
          BY <1>1, <3>1
        <5> QED BY <5>1, <5>2 DEF NamesBoard
      <4>3. 0 \in 0 .. j /\ 2 * 0 = 0 /\ j - 2 * 0 = j /\ j - 2 * (2 * 0 + 1) = j - 2 /\ 0 .. 0 = {0}
        BY <1>1, <2>1, <3>1
      <4> HIDE DEF js
      <4>4. \E n \in 0 .. j : /\ \A k \in 0 .. 2 * n : j - 2 * k \in js
                              /\ j - 2 * (2 * n + 1) \notin js
        <5>1. \A k \in 0 .. 2 * 0 : j - 2 * k \in js
          BY <4>1, <4>3
        <5> QED BY <4>2, <4>3, <5>1
      <4>5. j \in Alternate(js)
        BY <4>1, <4>4 DEF Alternate
      <4> QED BY <4>5 DEF js
    <3>6. Match(2 * j, 2 * j + 5, name, line[j + 2].id) \in BoardAidText(line)
      BY <3>4, <3>5 DEF BoardAidText
    <3> QED BY <3>1, <3>3, <3>6 DEF Matches
  <2>2. CASE /\ ~(i > 2 /\ Is(line, i - 2, "word") /\ Is(line, i - 1, "kanban"))
             /\ Is(line, i + 1, "brackets")
    <3>1. name = line[i + 1].name /\ PlaceOfId(line, i)[1] = 2 * i /\ PlaceOfId(line, i)[2] = 2 * i + 3
      BY <1>2, <2>2 DEF MeantBoard, PlaceOfId
    <3>2. Match(2 * i, 2 * i + 3, name, line[i].id) \in AidBoardText(line)
      BY <1>2, <2>2, <3>1 DEF AidBoardText, HoldsId, IdAt
    <3> QED BY <3>1, <3>2 DEF Matches
  <2>3. CASE /\ ~(i > 2 /\ Is(line, i - 2, "word") /\ Is(line, i - 1, "kanban"))
             /\ ~Is(line, i + 1, "brackets")
    <3>1. name = Board /\ PlaceOfId(line, i)[1] = 2 * i /\ PlaceOfId(line, i)[2] = 2 * i + 1
      BY <1>2, <2>3 DEF MeantBoard, PlaceOfId
    <3>2. Match(2 * i, 2 * i + 1, name, line[i].id) \in AidText(line)
      BY <3>1 DEF AidText, HoldsId, IdAt
    <3> QED BY <3>1, <3>2 DEF Matches
  <2> QED BY <2>1, <2>2, <2>3
<1>4. PlaceOfId(line, i) = <<PlaceOfId(line, i)[1], PlaceOfId(line, i)[2]>>
  BY DEF PlaceOfId
<1>5. PICK m \in Matches(line) : m.at = PlaceOfId(line, i) /\ m.name = name /\ m.id = line[i].id
  BY <1>3, <1>4 DEF Match
<1>6. [at |-> m.at, to |-> [board |-> m.name, file |-> Filename(ParseAid(m.id))]] \in AidLinks(line)
  BY <1>5 DEF AidLinks
<1> QED BY <1>2, <1>5, <1>6 DEF Reported, ToArticle

\* Nothing that overlaps it and comes before it is kept, nor is anything else in its place.
LEMMA IdIsFirst ==
  ASSUME NEW line \in Lines, NEW i \in DOMAIN line, Is(line, i, "id"), Legible(line, i),
         NEW A, A = PlaceOfId(line, i), NEW c \in Reported(line)
  PROVE  /\ Before(c.at, A) => c.at[2] < A[1] \/ c.at \notin Range(Filtered(PlacesOf(line)))
         /\ c.at = A => c.to = ToArticle(MeantBoard(line, i), line[i].id)
<1>1. i \in Nat /\ DOMAIN line \subseteq Nat
  BY LinesAssumption, LenProperties
<1>2. PICK j \in DOMAIN line : FoundAt(line, j, c)
  BY FoundIs
<1>3. j \in Nat
  BY <1>1, <1>2
<1>4. Dotless(MeantBoard(line, i))
  BY DEF Legible
<1> DEFINE Named == i > 2 /\ Is(line, i - 2, "word") /\ Is(line, i - 1, "kanban")
           Follows == ~Named /\ Is(line, i + 1, "brackets")
           Alone == ~Named /\ ~Is(line, i + 1, "brackets")
<1>5. Named \/ Follows \/ Alone
  OBVIOUS
<1>6. /\ Named => A[1] = 2 * i - 4 /\ A[2] = 2 * i + 1 /\ MeantBoard(line, i) = line[i - 2].name
      /\ Follows => A[1] = 2 * i /\ A[2] = 2 * i + 3 /\ MeantBoard(line, i) = line[i + 1].name
      /\ Alone => A[1] = 2 * i /\ A[2] = 2 * i + 1 /\ MeantBoard(line, i) = Board
  BY DEF PlaceOfId, MeantBoard
<1>7. Named => line[i - 2].is = "word" /\ line[i - 1].is = "kanban" /\ i > 2
  BY DEF Is
<1>8. line[i].is = "id" /\ (Follows => line[i + 1].is = "brackets") /\ (Alone => ~Is(line, i + 1, "brackets"))
  BY DEF Is
<1>13. CASE Is(line, j, "url") /\ Is(line, j + 1, "brackets") /\ c.at = <<2 * j + 1, 2 * j + 3>>
  <2>1. c.at[1] = 2 * j + 1 /\ c.at[2] = 2 * j + 3 /\ line[j].is = "url" /\ line[j + 1].is = "brackets"
    BY <1>13 DEF Is
  <2>2. j # i /\ j + 1 # i /\ (Named => j # i - 2 /\ j # i - 1 /\ j + 1 # i - 2 /\ j + 1 # i - 1)
    BY <1>7, <1>8, <2>1
  <2> HIDE DEF Named, Follows, Alone
  <2>3. i > 2 \/ ~Named
    BY <1>7
  <2>4. Before(c.at, A) => c.at[2] < A[1]
    BY <1>1, <1>3, <1>5, <1>6, <2>1, <2>2, <2>3, SMTT(40) DEF Before
  <2>5. c.at # A
    BY <1>1, <1>3, <1>5, <1>6, <2>1, SMTT(40)
  <2> QED BY <2>4, <2>5
<1>14. CASE /\ j > 2 /\ Is(line, j, "id") /\ Is(line, j - 1, "kanban")
            /\ Is(line, j - 2, "id") \/ Is(line, j - 2, "url")
            /\ c.at = <<2 * j - 3, 2 * j + 1>>
  <2>1. /\ c.at[1] = 2 * (j - 2) + 1 /\ c.at[2] = 2 * j + 1 /\ line[j - 1].is = "kanban"
        /\ line[j].is = "id" /\ line[j - 2].is # "word" /\ j - 2 \in DOMAIN line
    BY <1>3, <1>14 DEF Is
  <2>2. c.at \notin Range(Filtered(PlacesOf(line)))
    <3>1. c.at \in PlacesOf(line)
      BY DEF PlacesOf
    <3> QED BY <1>14, <2>1, <3>1, TailIsDropped
  <2>3. c.at # A
    <3> HIDE DEF Named, Follows, Alone
    <3> QED BY <1>1, <1>3, <1>5, <1>6, <2>1, SMTT(40)
  <2> QED BY <2>2, <2>3
<1>9. CASE /\ Is(line, j, "url")
           /\ c.at = <<2 * j, 2 * j + 1>> \/ c.at = <<2 * j + 1, 2 * j + 1>>
  <2>1. c.at[1] \in {2 * j, 2 * j + 1} /\ c.at[2] = 2 * j + 1 /\ line[j].is = "url"
    BY <1>9 DEF Is
  <2>2. j # i /\ (Named => j # i - 2 /\ j # i - 1) /\ (Follows => j # i + 1)
    BY <1>7, <1>8, <2>1
  <2> HIDE DEF Named, Follows, Alone
  <2>3. i > 2 \/ ~Named
    BY <1>7
  <2> QED BY <1>1, <1>3, <1>5, <1>6, <2>1, <2>2, <2>3, SMTT(40) DEF Before
<1>10. CASE /\ Is(line, j, "id") /\ c.at = <<2 * j, 2 * j + 1>> /\ c.to = ToArticle(Board, line[j].id)
  <2>1. c.at[1] = 2 * j /\ c.at[2] = 2 * j + 1 /\ line[j].is = "id"
    BY <1>10 DEF Is
  <2>2. (Named => j # i - 2 /\ j # i - 1) /\ (Follows => j # i + 1)
    BY <1>7, <1>8, <2>1
  <2>3. i > 2 \/ ~Named
    BY <1>7
  <2> HIDE DEF Named, Follows, Alone
  <2>4. Before(c.at, A) => c.at[2] < A[1]
    BY <1>1, <1>3, <1>5, <1>6, <2>1, <2>2, <2>3, SMTT(40) DEF Before
  <2>5. c.at = A => Alone /\ j = i
    BY <1>1, <1>3, <1>5, <1>6, <2>1, <2>2, <2>3, SMTT(40)
  <2> QED BY <1>6, <1>10, <2>4, <2>5
<1>11. CASE /\ Is(line, j, "id") /\ Is(line, j + 1, "brackets")
            /\ c.at = <<2 * j, 2 * j + 3>> /\ c.to = ToArticle(line[j + 1].name, line[j].id)
  <2>1. c.at[1] = 2 * j /\ c.at[2] = 2 * j + 3 /\ line[j].is = "id" /\ line[j + 1].is = "brackets"
    BY <1>11 DEF Is
  <2>2. (Named => j # i - 2 /\ j # i - 1 /\ j + 1 # i - 2 /\ j + 1 # i - 1) /\ j + 1 # i /\ (Alone => j # i)
    BY <1>7, <1>8, <1>11, <2>1
  <2>3. i > 2 \/ ~Named
    BY <1>7
  <2> HIDE DEF Named, Follows, Alone
  <2>4. Before(c.at, A) => c.at[2] < A[1]
    BY <1>1, <1>3, <1>5, <1>6, <2>1, <2>2, <2>3, SMTT(40) DEF Before
  <2>5. c.at = A => Follows /\ j = i
    BY <1>1, <1>3, <1>5, <1>6, <2>1, <2>2, <2>3, SMTT(40)
  <2> QED BY <1>6, <1>11, <2>4, <2>5
<1>12. CASE /\ j > 2 /\ Is(line, j, "id") /\ Is(line, j - 2, "word") /\ Is(line, j - 1, "kanban")
            /\ c.at = <<2 * j - 4, 2 * j + 1>> \/ c.at = <<2 * j - 3, 2 * j + 1>>
            /\ Dotless(line[j - 2].name) =>
                 c.at = <<2 * j - 4, 2 * j + 1>> /\ c.to = ToArticle(line[j - 2].name, line[j].id)
  <2>1. /\ c.at[1] = 2 * j - 4 \/ c.at[1] = 2 * j - 3
        /\ c.at[2] = 2 * j + 1
        /\ line[j].is = "id" /\ line[j - 2].is = "word" /\ line[j - 1].is = "kanban" /\ j > 2
    BY <1>12 DEF Is
  <2>2. /\ Named => j # i - 2 /\ j # i - 1 /\ j - 1 # i - 2 /\ j - 2 # i - 1
        /\ j - 2 # i /\ j - 1 # i /\ (Follows => j # i + 1 /\ j - 1 # i + 1 /\ j - 2 # i + 1)
        /\ (~Named => j # i)
    BY <1>7, <1>8, <1>12, <2>1
  <2>3. j = i /\ Named => c.at[1] = 2 * i - 4
    <3> SUFFICES ASSUME j = i, Named PROVE c.at[1] = 2 * i - 4
      OBVIOUS
    <3>1. Dotless(line[j - 2].name)
      BY <1>4, <1>6
    <3> QED BY <1>12, <3>1
  <2>4. j = i /\ Named => c.to = ToArticle(line[j - 2].name, line[j].id)
    BY <1>4, <1>6, <1>12
  <2> HIDE DEF Named, Follows, Alone
  <2>5. A[1] \in Int /\ A[2] \in Int /\ c.at[1] \in Int /\ c.at[2] \in Int
    <3>1. A[1] \in Int /\ A[2] \in Int
      BY <1>1, <1>5, <1>6
    <3>2. c.at[1] \in Int /\ c.at[2] \in Int
      BY <1>3, <2>1, SMTT(40)
    <3> QED BY <3>1, <3>2
  <2>6. CASE j < i
    <3>1. Named => j < i - 2
      BY <1>1, <1>3, <2>2, <2>6
    <3>2. c.at[2] < A[1]
      BY <1>1, <1>3, <1>5, <1>6, <2>1, <2>6, <3>1
    <3>3. A[1] <= A[2]
      BY <1>1, <1>5, <1>6
    <3>4. c.at # A
      BY <2>5, <3>2, <3>3
    <3> QED BY <3>2, <3>4
  <2>7. CASE j = i
    <3>1. Named
      BY <2>2, <2>7
    <3>2. c.at[1] = A[1] /\ c.at[2] = A[2]
      BY <1>6, <2>1, <2>3, <2>7, <3>1
    <3>3. ~Before(c.at, A)
      BY <2>5, <3>2 DEF Before
    <3> QED BY <1>6, <2>4, <2>7, <3>1, <3>3
  <2>8. CASE j > i
    <3>1. j - 2 > i
      BY <1>1, <1>3, <2>2, <2>8
    <3>2. c.at[1] > A[1]
      <4>1. A[1] <= 2 * i
        BY <1>1, <1>5, <1>6
      <4>2. c.at[1] > 2 * i
        BY <1>1, <1>3, <2>1, <3>1
      <4> QED BY <1>1, <2>5, <4>1, <4>2
    <3>3. ~Before(c.at, A) /\ c.at # A
      BY <2>5, <3>2 DEF Before
    <3> QED BY <3>3
  <2> QED BY <1>1, <1>3, <2>6, <2>7, <2>8
<1> QED BY <1>2, <1>9, <1>10, <1>11, <1>12, <1>13, <1>14 DEF FoundAt

\* The id of an article is a link to it.
LEMMA IdIsLink ==
  ASSUME NEW line \in Lines, NEW i \in DOMAIN line, ~AidFails(line), Is(line, i, "id"), Legible(line, i)
  PROVE  \E f \in Files :
           /\ AidOf(f) = line[i].id
           /\ {c.to : c \in {d \in Find(line) : Covers(d, i)}} = {[board |-> MeantBoard(line, i), file |-> f]}
<1>2. PICK f \in Files : AidOf(f) = line[i].id
  BY LinesAssumption DEF Is, Legible
<1>3. Filename(ParseAid(line[i].id)) = f /\ ParseAid(line[i].id) # NoAid
  <2>1. f \in Files32
    BY LinksAssumption DEF Files32
  <2>2. ParseAid(AidOf(f)) # NoAid
    BY <2>1, MentionsAreIds
  <2> QED BY <1>2, <2>1, <2>2, MentionsAreRead
<1>4. PICK A : A = PlaceOfId(line, i)
  OBVIOUS
<1>5. PICK u \in Reported(line) : u.at = A /\ u.to = ToArticle(MeantBoard(line, i), line[i].id)
  BY <1>3, <1>4, IdIsFound
<1>6. A \in PlacesOf(line)
  BY <1>5 DEF PlacesOf
<1>7. A[1] <= 2 * i /\ 2 * i + 1 <= A[2]
  <2>1. i \in Nat
    BY LinesAssumption, LenProperties
  <2> QED BY <1>4, <2>1 DEF PlaceOfId
<1>8. \A r \in PlacesOf(line) : Before(r, A) => r[2] < A[1] \/ r \notin Range(Filtered(PlacesOf(line)))
  <2>1. \A c \in Reported(line) :
          Before(c.at, A) => c.at[2] < A[1] \/ c.at \notin Range(Filtered(PlacesOf(line)))
    BY <1>4, IdIsFirst
  <2> QED BY <2>1 DEF PlacesOf
<1>9. {d \in Find(line) : Covers(d, i)} = {c \in Reported(line) : c.at = A}
  BY <1>6, <1>7, <1>8, OneLink
<1>10. \A c \in Reported(line) : c.at = A => c.to = u.to
  BY <1>4, <1>5, IdIsFirst
<1>11. u.to = [board |-> MeantBoard(line, i), file |-> f]
  BY <1>3, <1>5 DEF ToArticle
<1>12. {c.to : c \in {d \in Find(line) : Covers(d, i)}} = {u.to}
  BY <1>5, <1>9, <1>10
<1> QED BY <1>2, <1>11, <1>12

\* The finders fail only in a line where text is taken for the name of a board
\* that is none.
LEMMA FailsIfMisread ==
  ASSUME NEW line, AidFails(line)
  PROVE  Misread(line)
<1>1. PICK m \in Matches(line) : m.name \in Unroutable
  BY DEF AidFails
<1>2. CASE m \in BoardAidText(line)
  <2>1. PICK i \in DOMAIN line : NamesBoard(line, i) /\ m.name = Suffix(line[i])
    BY <1>2 DEF BoardAidText, Alternate, Match
  <2> QED BY <1>1, <2>1 DEF Misread
<1>3. CASE m \in AidBoardText(line)
  <2>1. PICK i \in DOMAIN line :
          HoldsId(line, i) /\ Is(line, i + 1, "brackets") /\ m.name = line[i + 1].name
    BY <1>3 DEF AidBoardText, Match
  <2> QED BY <1>1, <2>1 DEF Misread
<1>4. CASE m \in AidText(line)
  <2>1. m.name = Board
    BY <1>4 DEF AidText, Match
  <2> QED BY <1>1, <2>1, LinksAssumption
<1> QED BY <1>1, <1>2, <1>3, <1>4 DEF Matches

\* In every line of every article, the id of an article is a link to its file on
\* the board that is named with it, and a URL is a link to itself, however the
\* finds of the finders overlap, unless text of the line is taken for the name of a
\* board and is none: for any lines, boards, and files.
THEOREM LinksLead == Spec => []LinksLeadThere
<1>1. LinksInv => LinksLeadThere
  <2> SUFFICES ASSUME LinksInv, shown # None, NEW line \in LinesOf(shown.object), NEW i \in DOMAIN line,
                      ~Misread(line)
               PROVE  LET links == {c \in Find(line) : Covers(c, i)} IN
                      /\ Is(line, i, "url") => {c.to : c \in links} = {line[i]}
                      /\ Is(line, i, "id") /\ Legible(line, i) =>
                           \E f \in Files : /\ AidOf(f) = line[i].id
                                 /\ {c.to : c \in links} = {[board |-> MeantBoard(line, i), file |-> f]}
    BY DEF LinksLeadThere
  <2>1. line \in Lines
    BY LinesAreLines
  <2>2. ~AidFails(line)
    BY FailsIfMisread
  <2>3. Is(line, i, "url") => {c.to : c \in {d \in Find(line) : Covers(d, i)}} = {line[i]}
    BY <2>1, <2>2, UrlIsLink
  <2> QED BY <2>1, <2>2, <2>3, IdIsLink
<1> QED BY <1>1, LinksInvariant, PTL

=============================================================================
