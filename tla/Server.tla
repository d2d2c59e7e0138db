------------------------------- MODULE Server -------------------------------
(***************************************************************************)
(* What a server writes and how it reads, by RFC 6143 and the documents of *)
(* the extensions.  None of it is in src/: it is the other end of Codecs   *)
(* and Messages, and the reference they are checked against.               *)
(***************************************************************************)
EXTENDS Messages

(***************************************************************************)
(* Rectangles of pixels.                                                   *)
(***************************************************************************)

Colours(px) == SelectSeq([i \in 1..(MaxChannel + 1) |-> i - 1], LAMBDA c : c \in ToSet(px))
IndexIn(palette, colour) == CHOOSE i \in DOMAIN palette : palette[i] = colour

\* Rows of indices of `bits` bits, each row starting on a unit of its own.
Packed(indices, w, bits) ==
    LET per == ByteBits \div bits
        row == Ceil(w, per)
        Bits(y, x) == indices[1 + y * w + x] * 2^(ByteBits - bits * (1 + (x % per)))
        Unit(y, u) == MapThenSumSet(LAMBDA x : Bits(y, x),
                                    (u * per)..(Smaller(w, (u + 1) * per) - 1))
    IN  [i \in 1..(row * (Len(indices) \div w)) |-> Unit((i - 1) \div row, (i - 1) % row)]

\* The longest runs of equal pixels: <<pixel, length>>.
RunsOf(px) ==
    FoldLeft(LAMBDA runs, p :
                IF runs # <<>> /\ Last(runs)[1] = p
                THEN Front(runs) \o <<<<p, Last(runs)[2] + 1>>>>
                ELSE Append(runs, <<p, 1>>),
             <<>>, px)
LengthUnits(n) == [i \in 1..((n - 1) \div RunMax) |-> RunMax] \o <<(n - 1) % RunMax>>
PlainRuns(px) == FlattenSeq([i \in DOMAIN RunsOf(px) |->
                     <<RunsOf(px)[i][1]>> \o LengthUnits(RunsOf(px)[i][2])])
IndexedRuns(indices) == FlattenSeq([i \in DOMAIN RunsOf(indices) |->
    LET run == RunsOf(indices)[i]
    IN  IF run[2] = 1 THEN <<run[1]>> ELSE <<128 + run[1]>> \o LengthUnits(run[2])])

TileStyles == {"raw", "fill", "packed", "runs", "indexed"}

\* A tile in one of the styles, or raw where its colours do not suit it.
ZrleTile(style, px, w) ==
    LET palette == Colours(px)
        n       == Len(palette)
        indices == [i \in DOMAIN px |-> IndexIn(palette, px[i]) - 1]
    IN  CASE style = "fill" /\ n = 1 -> <<1>> \o palette
          [] style = "packed" /\ n \in 2..16 ->
               <<n>> \o palette \o Packed(indices, w, BitsPerIndex(n))
          [] style = "runs" -> <<128>> \o PlainRuns(px)
          [] style = "indexed" /\ n \in 2..127 -> <<128 + n>> \o palette \o IndexedRuns(indices)
          [] OTHER -> <<0>> \o px

\* Pixels of a part of a picture, which is a function of pixels <<x, y>>.
Cut(picture, r) == [i \in 1..Area(r) |-> picture[<<r.x + ((i - 1) % r.w), r.y + ((i - 1) \div r.w)>>]]

ZrleRect(style, picture, r, place) ==
    LET tiles == TilesOf(r)
        data  == FlattenSeq([i \in DOMAIN tiles |-> ZrleTile(style, Cut(picture, tiles[i]), tiles[i].w)])
    IN  <<Len(data) + 1, place>> \o data

LengthCompact(n) ==
    CASE n < LenBase -> <<n>>
      [] n >= LenBase /\ n < LenBase^2 -> <<LenBase + (n % LenBase), n \div LenBase>>
      [] OTHER -> <<LenBase + (n % LenBase), LenBase + ((n \div LenBase) % LenBase), n \div LenBase^2>>

Compressed(data, place) ==
    IF Len(data) < TightMin THEN data
    ELSE LengthCompact(Len(data) + 1) \o <<place>> \o data

\* Each pixel as its distance from the guess of its neighbours.
Graded(px, w) ==
    LET At(i, inside) == IF inside /\ i > 0 THEN px[i] ELSE 0
        Guess(i) == LET g == At(i - w, TRUE) + At(i - 1, (i - 1) % w # 0)
                             - At(i - w - 1, (i - 1) % w # 0)
                    IN  IF g < 0 THEN 0 ELSE Smaller(g, MaxChannel)
    IN  [i \in DOMAIN px |-> (px[i] - Guess(i)) % (MaxChannel + 1)]

TightStyles == {"solid", "jpeg", "broken", "copy", "named", "palette", "graded"}

\* Pixels in one of the styles, copied where their colours do not suit it.
\* `stream` is the compressor; it starts over first if `reset`.
TightRect(style, px, w, stream, reset, place) ==
    LET palette == Colours(px)
        n       == Len(palette)
        indices == [i \in DOMAIN px |-> IndexIn(palette, px[i]) - 1]
        Ctrl(c) == <<16 * c + (IF reset THEN 2^stream ELSE 0)>>
        at      == IF reset THEN 0 ELSE place
    IN  CASE style = "solid" /\ n = 1 -> Ctrl(8) \o palette
          [] style = "jpeg" -> Ctrl(9) \o LengthCompact(Len(px) + 2) \o <<w, Len(px) \div w>> \o px
          [] style = "broken" -> Ctrl(9) \o LengthCompact(1) \o <<0>>
          [] style = "palette" /\ n >= 2 ->
               Ctrl(4 + stream) \o <<1, n - 1>> \o palette
               \o Compressed(IF n = 2 THEN Packed(indices, w, 1) ELSE indices, at)
          [] style = "graded" -> Ctrl(4 + stream) \o <<2>> \o Compressed(Graded(px, w), at)
          [] style = "named" -> Ctrl(4 + stream) \o <<0>> \o Compressed(px, at)
          [] OTHER -> Ctrl(stream) \o Compressed(px, at)

\* Where that leaves the compressor.
PlaceAfter(style, px, w, reset, place) ==
    LET n    == Cardinality(ToSet(px))
        at   == IF reset THEN 0 ELSE place
        size == IF style = "palette" /\ n = 2 THEN Ceil(w, ByteBits) * (Len(px) \div w) ELSE Len(px)
        whole == style \in {"jpeg", "broken"} \/ (style = "solid" /\ n = 1)
    IN  IF whole \/ size < TightMin THEN at ELSE at + 1

\* A shape of the pointer: its pixels are <<colour, opaque>>.
CursorRect(px, w) ==
    [i \in DOMAIN px |-> px[i][1]] \o Packed([i \in DOMAIN px |-> px[i][2]], w, 1)

LayoutUnits(screens) ==
    <<Len(screens), 0>> \o FlattenSeq([i \in DOMAIN screens |-> ScreenUnits(screens[i])])

(***************************************************************************)
(* Messages, each with the events it stands for.                           *)
(***************************************************************************)
Message(units, events) == [units |-> units, events |-> events]

\* zlib shortens a run of three and more.
Deflated(units) ==
    FlattenSeq([i \in DOMAIN RunsOf(units) |->
        LET run == RunsOf(units)[i]
        IN  IF run[2] > 2 THEN <<run[1], 1 - run[2]>> ELSE [j \in 1..run[2] |-> run[1]]])

CutText(text) ==
    Message(<<3, 0, Len(text)>> \o text, <<[kind |-> "text", text |-> First(text, MaxCutText)]>>)

SendsExtended(body, events) ==
    Message(<<3, 0, -Len(body)>> \o body, IF Len(body) > MaxCutText THEN <<>> ELSE events)
SendsCaps(formats, sizes) ==
    SendsExtended(<<CAPS + NOTIFY + PROVIDE + formats>> \o sizes,
        <<[kind |-> "caps", flags |-> CAPS + NOTIFY + PROVIDE + formats,
           size |-> IF Has(formats, TEXT) THEN sizes[1] ELSE 0]>>)
SendsText(text) ==
    SendsExtended(<<PROVIDE + TEXT>> \o Deflated(<<Len(Provided(text))>> \o Provided(text)),
                  <<[kind |-> "text", text |-> text]>>)
SendsNotify(formats) ==
    SendsExtended(<<NOTIFY + formats>>, <<[kind |-> "notify", text |-> Has(formats, TEXT)]>>)
SendsRequest == SendsExtended(<<REQUEST + TEXT>>, <<[kind |-> "request"]>>)
SendsPeek == SendsExtended(<<PEEK>>, <<>>)

SendsFence(flags, payload) ==
    Message(<<248, 0, flags, Len(payload)>> \o payload,
            <<[kind |-> "fence", flags |-> flags, payload |-> First(payload, MaxFence)]>>)
SendsBell == Message(<<2>>, <<[kind |-> "bell"]>>)
SendsEndOfPushing == Message(<<150>>, <<[kind |-> "endOfPushing"]>>)

(***************************************************************************)
(* What a server understands of the next message: [m, rest].               *)
(***************************************************************************)
TextOf(body) == DecodeText(First(Tail(body), Head(body)))

HearsExtended(body) ==
    CASE body[1] = REQUEST + TEXT /\ Len(body) = 1 -> [kind |-> "request"]
      [] body[1] = NOTIFY + TEXT /\ Len(body) = 1 -> [kind |-> "notify"]
      [] body[1] = OurCaps /\ Len(body) = 2 -> [kind |-> "caps"]
      [] body[1] = PROVIDE + TEXT /\ Len(body) = 2 + body[2] ->
           [kind |-> "provide", text |-> TextOf(Tail(body))]
      [] OTHER -> [kind |-> "garbled"]

Hears(s) ==
    LET H(m, units) == [m |-> m, rest |-> After(s, units)]
        is(type, units) == s[1] = type /\ Len(s) >= units
    IN  CASE is(0, 3) -> H([kind |-> "pixelFormat", format |-> s[3]], 3)
          [] is(2, 3) -> H([kind |-> "encodings", ids |-> SubSeq(s, 4, Smaller(3 + s[3], Len(s)))], 3 + s[3])
          [] is(3, 6) -> H([kind |-> "update", incremental |-> s[2] = 1, rect |-> RectAt(s, 3)], 6)
          [] is(4, 4) -> H([kind |-> "key", down |-> s[2] = 1, key |-> s[4]], 4)
          [] is(5, 4) -> H([kind |-> "pointer", buttons |-> s[2], x |-> s[3], y |-> s[4]], 4)
          [] is(6, 3) /\ s[3] >= 0 -> H([kind |-> "cutText", text |-> First(After(s, 3), s[3])], 3 + s[3])
          [] is(6, 4) /\ s[3] < 0 -> H(HearsExtended(First(After(s, 3), -s[3])), 3 - s[3])
          [] is(150, 6) -> H([kind |-> "pushing", enable |-> s[2] = 1, rect |-> RectAt(s, 3)], 6)
          [] is(248, 4) -> H([kind |-> "fence", flags |-> s[3], payload |-> First(After(s, 4), s[4])], 4 + s[4])
          [] is(251, 6) /\ Len(s) >= 6 + 6 * s[5] ->
               H([kind |-> "resize", w |-> s[3], h |-> s[4], screens |-> ScreensOf(After(s, 6), s[5])], 6 + 6 * s[5])
          [] OTHER -> H([kind |-> "garbled"], Len(s))
=============================================================================
