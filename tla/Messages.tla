------------------------------ MODULE Messages ------------------------------
(***************************************************************************)
(* The messages of src/src/rfb/client/messages.rs and the extended         *)
(* clipboard of clipboard.rs: what the client reads from a server, as      *)
(* operators from the stream to events, and what it writes for each of     *)
(* its own messages.                                                       *)
(*                                                                         *)
(* A unit is a number of the wire whatever its width, one byte of padding  *)
(* standing for three, or a character.  A word of four bytes is one unit,  *)
(* so a length the source compares with 4 is compared with 1.  The limits  *)
(* MAX_CUT_TEXT, MAX_PAYLOAD and the 64 bytes of a fence are scaled down.  *)
(***************************************************************************)
EXTENDS Codecs

CONSTANTS MaxCutText, MaxFence

ASSUME MessagesAssumption ==
    /\ {MaxCutText, MaxFence} \subseteq Nat \ {0}
    /\ MaxCutText < MaxPayload

RectUnits(r) == <<r.x, r.y, r.w, r.h>>
RectAt(s, i) == Rect(s[i], s[i + 1], s[i + 2], s[i + 3])

\* A screen is six units: its id, its rectangle and its flags.
ScreenUnits(screen) == <<screen.id>> \o RectUnits(screen.rect) \o <<screen.flags>>
ScreensOf(s, n) ==
    [i \in 1..n |-> [id |-> s[6 * i - 5], rect |-> RectAt(s, 6 * i - 4), flags |-> s[6 * i]]]

LF == 10
CR == 13
Nul == 0
Replacement == 65533

(***************************************************************************)
(* Flags of the extended clipboard: formats, then actions.                 *)
(***************************************************************************)
TEXT == 1
HTML == 2
CAPS == 16
REQUEST == 32
PEEK == 64
NOTIFY == 128
PROVIDE == 256
Has(flags, bit) == (flags \div bit) % 2 = 1
Actions(flags) == 16 * (flags \div 16)
OurCaps == TEXT + CAPS + REQUEST + NOTIFY + PROVIDE

\* zlib shortens runs: a negative number repeats the unit before it.
Inflated(z) ==
    FoldLeft(LAMBDA out, u : IF u >= 0 THEN Append(out, u)
                             ELSE out \o [i \in 1..(-u) |-> Last(out)],
             <<>>, z)

\* Two units of which the first announces the second are one character;
\* a unit that is not UTF-8 is replaced.
RECURSIVE Utf8Lossy(_)
Utf8Lossy(s) ==
    LET pair == Len(s) > 1 /\ s[1] \in 194..223 /\ s[2] \in 128..191
    IN  IF s = <<>> THEN <<>>
        ELSE IF s[1] \in 128..255 /\ ~pair THEN <<Replacement>> \o Utf8Lossy(Tail(s))
        ELSE IF pair THEN <<64 * (s[1] - 192) + s[2] - 128>> \o Utf8Lossy(After(s, 2))
        ELSE <<s[1]>> \o Utf8Lossy(Tail(s))

\* The null at the end goes, and whatever ends a line becomes LF.
DecodeText(s) ==
    LET text == IF s # <<>> /\ Last(s) = Nul THEN Front(s) ELSE s
        InPair(i) == text[i] = LF /\ i > 1 /\ text[i - 1] = CR
        kept == SelectSeq([i \in DOMAIN text |-> i], LAMBDA i : ~InPair(i))
    IN  [i \in DOMAIN kept |-> IF text[kept[i]] = CR THEN LF ELSE text[kept[i]]]

(***************************************************************************)
(* What a server says.                                                     *)
(***************************************************************************)
Says(events, rest) == [ok |-> TRUE, rest |-> rest, events |-> events, rects |-> 0]
Error(s) == Refused(s) @@ [rects |-> 0]

\* One size follows for each format, in the order of the bits.
CapsEvent(flags, sizes) ==
    [kind |-> "caps", flags |-> flags, size |-> IF Has(flags, TEXT) THEN Head(sizes) ELSE 0]
DecodeCaps(flags, body, rest) ==
    LET formats == Cardinality({f \in {TEXT, HTML} : Has(flags, f)})
    IN  IF Len(body) < formats THEN Error(rest) ELSE Says(<<CapsEvent(flags, body)>>, rest)

\* What a text inflates to is limited as well.
DecodeProvide(flags, body, rest) ==
    LET text == Inflated(body)
    IN  IF ~Has(flags, TEXT) THEN Says(<<>>, rest)
        ELSE IF text = <<>> \/ Len(text) > MaxCutText THEN Error(rest)
        ELSE IF Head(text) > Len(text) - 1 THEN Error(rest)
        ELSE Says(<<[kind |-> "text", text |-> DecodeText(First(Tail(text), Head(text)))]>>, rest)

Decode(payload, rest) ==
    LET flags == Head(payload)
        body  == Tail(payload)
    IN  IF Has(flags, CAPS) THEN DecodeCaps(flags, body, rest)
        ELSE CASE Actions(flags) = REQUEST -> Says(<<[kind |-> "request"]>>, rest)
               [] Actions(flags) = NOTIFY ->
                    Says(<<[kind |-> "notify", text |-> Has(flags, TEXT)]>>, rest)
               [] Actions(flags) = PROVIDE -> DecodeProvide(flags, body, rest)
               [] OTHER -> Says(<<>>, rest)

\* A payload past the limit is read to its end, and dropped.
ReadExtended(len, s) ==
    IF len < 1 \/ len > MaxPayload \/ Len(s) < len THEN Error(s)
    ELSE IF len > MaxCutText THEN Says(<<>>, After(s, len))
    ELSE Decode(First(s, len), After(s, len))

\* A text past the limit is read to its end, and clipped.
ReadCutText(len, s) ==
    IF len < 0 THEN ReadExtended(-len, s)
    ELSE IF len > MaxPayload \/ Len(s) < len THEN Error(s)
    ELSE Says(<<[kind |-> "text", text |-> Utf8Lossy(First(s, Smaller(len, MaxCutText)))]>>,
              After(s, len))

ReadFence(flags, len, s) ==
    IF Len(s) < len THEN Error(s)
    ELSE Says(<<[kind |-> "fence", flags |-> flags, payload |-> First(s, Smaller(len, MaxFence))]>>,
              After(s, len))

Needs(s, units) == Len(s) >= units

ServerMsgRead(s) ==
    CASE Needs(s, 3) /\ s[1] = 0 -> [Says(<<>>, After(s, 3)) EXCEPT !.rects = s[3]]
      [] Needs(s, 1) /\ s[1] = 2 -> Says(<<[kind |-> "bell"]>>, Tail(s))
      [] Needs(s, 3) /\ s[1] = 3 -> ReadCutText(s[3], After(s, 3))
      [] Needs(s, 1) /\ s[1] = 150 -> Says(<<[kind |-> "endOfPushing"]>>, Tail(s))
      [] Needs(s, 4) /\ s[1] = 248 -> ReadFence(s[3], s[4], After(s, 4))
      [] OTHER -> Error(s)

(***************************************************************************)
(* What the client writes.                                                 *)
(***************************************************************************)
Bit(b) == IF b THEN 1 ELSE 0

\* LF becomes CRLF, and a null ends the text.
Provided(text) ==
    FlattenSeq([i \in DOMAIN text |-> IF text[i] = LF THEN <<CR, LF>> ELSE <<text[i]>>]) \o <<Nul>>

Provide(text) == <<PROVIDE + TEXT, Len(Provided(text))>> \o Provided(text)

\* Latin-1 has 256 characters.
Latin1(text) == [i \in DOMAIN text |-> IF text[i] > 255 THEN 63 ELSE text[i]]

Extended(body) == <<6, 0, -Len(body)>> \o body

SetDesktopSize(m) ==
    <<251, 0, m.w, m.h, Len(m.screens), 0>>
        \o FlattenSeq([i \in DOMAIN m.screens |-> ScreenUnits(m.screens[i])])

Written(m) ==
    CASE m.kind = "pixelFormat" -> <<0, 0, m.format>>
      [] m.kind = "encodings" -> <<2, 0, Len(m.ids)>> \o m.ids
      [] m.kind = "update" -> <<3, Bit(m.incremental)>> \o RectUnits(m.rect)
      [] m.kind = "key" -> <<4, Bit(m.down), 0, m.key>>
      [] m.kind = "pointer" -> <<5, m.buttons, m.x, m.y>>
      [] m.kind = "cutText" -> <<6, 0, Len(m.text)>> \o Latin1(m.text)
      [] m.kind = "caps" -> Extended(<<OurCaps, 0>>)
      [] m.kind = "request" -> Extended(<<REQUEST + TEXT>>)
      [] m.kind = "notify" -> Extended(<<NOTIFY + TEXT>>)
      [] m.kind = "provide" -> Extended(Provide(m.text))
      [] m.kind = "pushing" -> <<150, Bit(m.enable)>> \o RectUnits(m.rect)
      [] m.kind = "fence" ->
           LET payload == First(m.payload, Smaller(Len(m.payload), MaxFence))
           IN  <<248, 0, m.flags, Len(payload)>> \o payload
      [] m.kind = "resize" -> SetDesktopSize(m)
=============================================================================
