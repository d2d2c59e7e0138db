------------------------------- MODULE Codecs -------------------------------
(***************************************************************************)
(* The decoders of src/src/rfb/codec: raw, ZRLE, Tight and the pointer's   *)
(* shape, as operators from what is left of the stream to the events they  *)
(* emit.  A stream is a sequence of units: one for every number of a       *)
(* header, for every byte of packed bits and for every pixel.  A pixel has *)
(* one channel, of the values 0..MaxChannel; where it sits in its four     *)
(* bytes is left out.                                                      *)
(*                                                                         *)
(* The sizes of the source are scaled down so that small rectangles cross  *)
(* them: TileSide for 64, ByteBits for 8, RunMax for 255, LenBase for 128, *)
(* TightMin for 12 and MaxPayload for MAX_PAYLOAD.                         *)
(*                                                                         *)
(* A decoder returns [ok, rest, events].  One that is refused, or that     *)
(* runs out of units, is not ok: the connection ends, or waits for units   *)
(* that are part of the next message.                                      *)
(***************************************************************************)
EXTENDS Integers, Sequences, SequencesExt, FiniteSetsExt

CONSTANTS TileSide, ByteBits, RunMax, LenBase, TightMin, MaxChannel, MaxPayload

ASSUME CodecsAssumption ==
    /\ {TileSide, RunMax, LenBase, TightMin, MaxChannel, MaxPayload} \subseteq Nat \ {0}
    /\ ByteBits \in {4, 8}

Ceil(a, b) == (a + b - 1) \div b
Smaller(a, b) == IF a < b THEN a ELSE b
First(s, n) == SubSeq(s, 1, Smaller(n, Len(s)))
After(s, n) == SubSeq(s, n + 1, Len(s))

Refused(s) == [ok |-> FALSE, rest |-> s, events |-> <<>>]

Rect(x, y, w, h) == [x |-> x, y |-> y, w |-> w, h |-> h]
Area(r) == r.w * r.h
ImageEvent(r, px) == [kind |-> "image", rect |-> r, px |-> px]

\* A length is looked at before anything is read.
CheckedLen(len) == len <= MaxPayload

(***************************************************************************)
(* Raw.                                                                    *)
(***************************************************************************)
RawDecode(r, s) ==
    IF ~CheckedLen(Area(r)) \/ Len(s) < Area(r) THEN Refused(s)
    ELSE [ok |-> TRUE, rest |-> After(s, Area(r)),
          events |-> <<ImageEvent(r, First(s, Area(r)))>>]

(***************************************************************************)
(* zlib.  A compressor and its decompressor keep a history: a payload      *)
(* carries its place in the stream and is only understood at that place,   *)
(* in one go.  Here what a decoder leaves over of the inflated units is an *)
(* error; ZlibReader::into_inner refuses compressed bytes left over, and   *)
(* inflated ones only with them.  No server this is run with leaves any.   *)
(***************************************************************************)
Inflates(place, payload) == payload # <<>> /\ Head(payload) = place

(***************************************************************************)
(* ZRLE.                                                                   *)
(***************************************************************************)
\* A length is one more than the sum of the units up to one below RunMax.
RunLength(s) ==
    LET ends == {i \in DOMAIN s : s[i] # RunMax}
        last == Min(ends)
    IN  IF ends = {} THEN [length |-> 0, units |-> Len(s) + 1]
        ELSE [length |-> 1 + RunMax * (last - 1) + s[last], units |-> last]

\* Runs of pixels, or of colours of a palette, until a tile has its pixels.
RECURSIVE Runs(_, _, _, _)
Runs(s, palette, wanted, px) ==
    LET indexed == palette # <<>>
        single  == indexed /\ Head(s) < 128
        run     == IF single THEN [length |-> 1, units |-> 0] ELSE RunLength(Tail(s))
        index   == 1 + (IF single THEN Head(s) ELSE Head(s) - 128)
        pixel   == IF indexed THEN palette[index] ELSE Head(s)
    IN  IF wanted <= 0 THEN [ok |-> TRUE, rest |-> s, px |-> px]
        ELSE IF \/ s = <<>>
                \/ run.units >= Len(s)
                \/ indexed /\ index \notin DOMAIN palette
             THEN [ok |-> FALSE, rest |-> s, px |-> px]
             ELSE Runs(After(s, 1 + run.units), palette, wanted - run.length,
                       px \o [i \in 1..run.length |-> pixel])

BitsPerIndex(colours) ==
    CASE colours = 2 -> 1 [] colours \in 3..4 -> 2 [] colours \in 5..16 -> 4

\* Slip: the bits of a row follow those of the row before.
UnpackedUnaligned(s, w, h, bits) ==
    LET At(b) == s[1 + b \div ByteBits] \div 2^(ByteBits - bits - (b % ByteBits))
    IN  [i \in 1..(w * h) |-> At((i - 1) * bits) % 2^bits]

\* Indices of a few bits, a row starting on a unit of its own.
Unpacked(s, w, h, bits) ==
    LET row == Ceil(w * bits, ByteBits)
        At(x, y) == s[1 + y * row + (x * bits) \div ByteBits]
                    \div 2^(ByteBits - bits - ((x * bits) % ByteBits))
    IN  [i \in 1..(w * h) |-> At((i - 1) % w, (i - 1) \div w) % 2^bits]

Coloured(indices, palette) == [i \in DOMAIN indices |-> palette[indices[i] + 1]]

PackedTile(s, palette, w, h) ==
    LET bits  == BitsPerIndex(Len(palette))
        units == h * Ceil(w * bits, ByteBits)
        indices == Unpacked(s, w, h, bits)
    IN  IF units > Len(s) THEN [ok |-> FALSE, rest |-> s, px |-> <<>>]
        ELSE IF \E i \in DOMAIN indices : indices[i] >= Len(palette)
             THEN [ok |-> FALSE, rest |-> s, px |-> <<>>]
             ELSE [ok |-> TRUE, rest |-> After(s, units), px |-> Coloured(indices, palette)]

TileDecode(s, w, h) ==
    LET colours == Head(s) % 128
        runs    == Head(s) >= 128
        palette == First(Tail(s), colours)
        body    == After(s, 1 + colours)
        bad     == [ok |-> FALSE, rest |-> s, px |-> <<>>]
    IN  IF s = <<>> \/ Len(s) < 1 + colours THEN bad
        ELSE CASE runs /\ colours # 1 -> Runs(body, palette, w * h, <<>>)
               [] ~runs /\ colours = 0 ->
                    IF Len(body) < w * h THEN bad
                    ELSE [ok |-> TRUE, rest |-> After(body, w * h), px |-> First(body, w * h)]
               [] ~runs /\ colours = 1 ->
                    [ok |-> TRUE, rest |-> body, px |-> [i \in 1..(w * h) |-> palette[1]]]
               [] ~runs /\ colours \in 2..16 -> PackedTile(body, palette, w, h)
               [] OTHER -> bad

\* The tiles of a rectangle, row by row, the last of each clipped.
TilesOf(r) ==
    LET columns == Ceil(r.w, TileSide)
        Left(i) == ((i - 1) % columns) * TileSide
        Top(i)  == ((i - 1) \div columns) * TileSide
    IN  [i \in 1..(columns * Ceil(r.h, TileSide)) |->
            Rect(r.x + Left(i), r.y + Top(i),
                 Smaller(TileSide, r.w - Left(i)), Smaller(TileSide, r.h - Top(i)))]

TilesDecode(r, s) ==
    LET Decoded(so, tile) ==
            LET d == TileDecode(so.rest, tile.w, tile.h)
            IN  IF ~so.ok \/ ~d.ok THEN [so EXCEPT !.ok = FALSE]
                ELSE [ok |-> TRUE, rest |-> d.rest,
                      events |-> Append(so.events, ImageEvent(tile, d.px))]
    IN  FoldLeft(Decoded, [ok |-> TRUE, rest |-> s, events |-> <<>>], TilesOf(r))

\* Units the tiles leave over are an error as well.
ZrleDecode(r, s, place) ==
    LET payload == First(Tail(s), Head(s))
        tiles   == TilesDecode(r, Tail(payload))
    IN  IF s = <<>> \/ ~CheckedLen(Head(s)) \/ Len(s) < 1 + Head(s) THEN Refused(s)
        ELSE IF ~Inflates(place, payload) THEN Refused(s)
        ELSE [ok |-> tiles.ok /\ tiles.rest = <<>>,
              rest |-> After(s, 1 + Head(s)), events |-> tiles.events]

(***************************************************************************)
(* Tight.  `places` has the place reached in each of the four streams.     *)
(***************************************************************************)
\* A length of one to three units; the third is taken whole.
CompactLength(s) ==
    LET more(i) == s[i] >= LenBase
    IN  IF ~more(1) THEN [length |-> s[1], units |-> 1]
        ELSE IF ~more(2) THEN [length |-> s[1] - LenBase + s[2] * LenBase, units |-> 2]
        ELSE [length |-> s[1] - LenBase + (s[2] - LenBase) * LenBase + s[3] * LenBase^2,
              units |-> 3]

\* Less than TightMin units are not worth compressing.
TightData(s, size, place) ==
    LET c       == CompactLength(s)
        payload == First(After(s, c.units), c.length)
    IN  IF size < TightMin
        THEN [ok |-> Len(s) >= size, rest |-> After(s, size), data |-> First(s, size), read |-> 0]
        ELSE IF Len(s) < 3 \/ ~CheckedLen(c.length) \/ Len(s) < c.units + c.length
        THEN [ok |-> FALSE, rest |-> s, data |-> <<>>, read |-> 0]
        ELSE [ok |-> Inflates(place, payload) /\ Len(payload) = size + 1,
              rest |-> After(s, c.units + c.length), data |-> Tail(payload), read |-> 1]

\* A pixel is coded as its distance from what its neighbours predict.
Ungraded(data, w) ==
    LET At(px, i) == IF i > 0 THEN px[i] ELSE 0
        Next(px, value) ==
            LET i    == Len(px) + 1
                edge == i % w = 1 \/ w = 1
                left == IF edge THEN 0 ELSE At(px, i - 1)
                up   == At(px, i - w)
                corner == IF edge THEN 0 ELSE At(px, i - w - 1)
                guess  == up + left - corner
                clamped == IF guess < 0 THEN 0 ELSE Smaller(guess, MaxChannel)
            IN  Append(px, (clamped + value) % (MaxChannel + 1))
    IN  FoldLeft(Next, <<>>, data)

\* Indices into a palette are whole units, whatever it holds.
InPalette(r, indices, palette) ==
    /\ Area(r) <= Len(indices)
    /\ \A i \in DOMAIN indices : indices[i] < Len(palette)

\* Copied, of a palette or graded.  A palette of two colours is packed.
Filtered(filter, r, s, place) ==
    LET colours == Head(s) + 1
        palette == First(Tail(s), colours)
        body    == IF filter = 1 THEN After(s, 1 + colours) ELSE s
        row     == IF filter = 1 /\ colours <= 2 THEN Ceil(r.w, ByteBits) ELSE r.w
        got     == TightData(body, r.h * row, place)
        indices == IF colours = 2 THEN Unpacked(got.data, r.w, r.h, 1) ELSE got.data
        px      == CASE filter = 0 -> got.data
                     [] filter = 1 -> Coloured(indices, palette)
                     [] filter = 2 -> Ungraded(got.data, r.w)
    IN  IF filter \notin 0..2 \/ (filter = 1 /\ Len(s) < 1 + colours)
        THEN Refused(s) @@ [read |-> 0]
        ELSE IF Area(r) = 0 THEN [ok |-> TRUE, rest |-> body, events |-> <<>>, read |-> 0]
        ELSE IF ~got.ok THEN Refused(s) @@ [read |-> 0]
        ELSE IF filter = 1 /\ ~InPalette(r, indices, palette) THEN Refused(s) @@ [read |-> got.read]
        ELSE [ok |-> TRUE, rest |-> got.rest, events |-> <<ImageEvent(r, px)>>, read |-> got.read]

\* The first unit has a bit for every stream to start over, and the kind.
TightDecode(r, s, places) ==
    LET ctrl   == Head(s) \div 16
        started == [i \in 0..3 |-> IF (Head(s) \div 2^i) % 2 = 1 THEN 0 ELSE places[i]]
        stream == ctrl % 4
        body   == Tail(s)
        named  == (ctrl \div 4) % 2 = 1
        filter == IF named THEN Head(body) ELSE 0
        jpeg   == CompactLength(body)
        basic  == Filtered(filter, r, IF named THEN Tail(body) ELSE body, started[stream])
        With(d, p) == [ok |-> d.ok, rest |-> d.rest, events |-> d.events, places |-> p]
    IN  CASE Len(s) < 2 -> With(Refused(s), started)
          [] Len(s) >= 2 /\ ctrl = 8 ->
               With([ok |-> TRUE, rest |-> Tail(body),
                     events |-> <<ImageEvent(r, [i \in 1..Area(r) |-> Head(body)])>>], started)
          [] Len(s) >= 2 /\ ctrl = 9 ->
               IF ~CheckedLen(jpeg.length) \/ Len(body) < jpeg.units + jpeg.length
               THEN With(Refused(s), started)
               ELSE With([ok |-> TRUE, rest |-> After(body, jpeg.units + jpeg.length),
                          events |-> <<[kind |-> "jpeg", rect |-> r,
                                        data |-> First(After(body, jpeg.units), jpeg.length)]>>],
                         started)
          [] Len(s) >= 2 /\ ctrl < 8 ->
               With(basic, [started EXCEPT ![stream] = @ + basic.read])
          [] OTHER -> With(Refused(s), started)

(***************************************************************************)
(* The pointer's shape: its pixels, then a bit for each that is opaque.    *)
(***************************************************************************)
CursorDecode(r, s) ==
    LET row    == Ceil(r.w, ByteBits)
        units  == Area(r) + row * r.h
        opaque == Unpacked(After(s, Area(r)), r.w, r.h, 1)
    IN  IF Len(s) < units THEN Refused(s)
        ELSE [ok |-> TRUE, rest |-> After(s, units),
              events |-> <<[kind |-> "cursor", rect |-> r,
                            px |-> [i \in 1..Area(r) |-> <<s[i], opaque[i]>>]]>>]
=============================================================================
