-------------------------------- MODULE Wire --------------------------------
(***************************************************************************)
(* The way of a picture from a server to the framebuffer, and of a message *)
(* from the client to the server: the stream, the read loop and the write  *)
(* loop of src/src/rfb/client/connection.rs over the operators of Codecs   *)
(* and Messages, the channel of events, and the session that applies them  *)
(* to src/src/render/framebuffer.rs.                                       *)
(*                                                                         *)
(* A picture is [w, h, px] with px[<<x, y>>] the colour of a pixel.  The   *)
(* two directions of a connection share nothing, so a behaviour has one of *)
(* them; a step reads a whole message or rectangle.                        *)
(***************************************************************************)
EXTENDS Server

CONSTANTS
    Sizes,       \* sizes <<w, h>> of the desktop, the first of them Sizes[1]
    Parts,       \* rectangles a server paints; one may reach over the edge
    Paints,      \* what it paints: functions of all the pixels of Parts
    Copies,      \* rectangles it copies: [dst, x, y]
    Shapes,      \* shapes of the pointer: [rect, px]
    Texts,       \* texts a server puts on its clipboard
    Fences,      \* payloads of its fences
    Spoken,      \* messages of the client
    MaxRects,    \* bound: rectangles of an update announced by their number
    MaxSaid,     \* bound: messages and rectangles a server sends
    MaxSpoken,   \* bound: messages the client sends
    MaxFrame     \* the largest plausible desktop, in pixels

VARIABLES
    turn,        \* whose direction this is: "server" or "client"
    server,      \* [told: what it has told of its picture, left: rectangles
                 \*  still to come, zrle, tight: places of its compressors]
    said,        \* bound: messages and rectangles sent, but for headers of updates
    wire,        \* units on their way to the client
    reader,      \* [left: rectangles still to come, zrle, tight: places of
                 \*  the decompressors, alive]
    events,      \* events on their way to the session
    session,     \* [fb: its framebuffer, mid: an update is not over]
    input,       \* messages on their way to the write loop
    up,          \* units on their way to the server
    meant,       \* history: what was sent and has not reached the session
    whole,       \* history: the picture of the last update that ended
    intended,    \* history: what the client's messages stood for
    heard        \* history: what the server made of them

down == <<server, said, wire, reader, events, session, meant, whole>>
upward == <<input, up, intended, heard>>
vars == <<turn, down, upward>>

Pixels(w, h) == (0..(w - 1)) \X (0..(h - 1))
Covered(r) == (r.x..(r.x + r.w - 1)) \X (r.y..(r.y + r.h - 1))
Black(w, h) == [w |-> w, h |-> h, px |-> [p \in Pixels(w, h) |-> 0]]

-----------------------------------------------------------------------------
(* The framebuffer.                                                        *)

Clip(fb, r) ==
    LET x == Smaller(r.x, fb.w)
        y == Smaller(r.y, fb.h)
    IN  Rect(x, y, Smaller(r.w, fb.w - x), Smaller(r.h, fb.h - y))

\* Rows of pixels as wide as the rectangle, of which the part inside counts.
Apply(fb, r, px) ==
    LET c == Clip(fb, r)
    IN  IF Area(c) = 0 \/ Len(px) < Area(r) THEN fb
        ELSE [fb EXCEPT !.px = [p \in Covered(c) |->
                  px[1 + (p[2] - c.y) * r.w + p[1] - c.x]] @@ @]

ToZero(n) == IF n < 0 THEN 0 ELSE n

\* Slip: always from the top.
CopyRectDown(fb, dst, x, y) ==
    LET Copied(px, row) ==
            [p \in Covered(Rect(dst.x, dst.y + row, dst.w, 1)) |->
                px[<<p[1] - dst.x + x, y + row>>]] @@ px
    IN  [fb EXCEPT !.px = FoldLeft(Copied, @, [i \in 1..dst.h |-> i - 1])]

\* Row by row, from the side that keeps what is still to be copied.
CopyRect(fb, dst, x, y) ==
    LET w == Smaller(dst.w, Smaller(ToZero(fb.w - dst.x), ToZero(fb.w - x)))
        h == Smaller(dst.h, Smaller(ToZero(fb.h - dst.y), ToZero(fb.h - y)))
        Row(i) == IF dst.y > y THEN h - i ELSE i - 1
        Copied(px, row) ==
            [p \in Covered(Rect(dst.x, dst.y + row, w, 1)) |->
                px[<<p[1] - dst.x + x, y + row>>]] @@ px
    IN  IF w = 0 \/ h = 0 THEN fb
        ELSE [fb EXCEPT !.px = FoldLeft(Copied, @, [i \in 1..h |-> Row(i)])]

\* What fits is kept.
Resize(fb, w, h) ==
    [w |-> w, h |-> h, px |-> [p \in Pixels(w, h) |-> IF p \in DOMAIN fb.px THEN fb.px[p] ELSE 0]]

-----------------------------------------------------------------------------
(* The server.  What it tells of its picture is what somebody would know   *)
(* who takes every rectangle at its word.                                  *)

Init ==
    /\ turn \in {"server", "client"}
    /\ LET none == [i \in 0..3 |-> 0]
           size == Sizes[1]
           blank == Black(size[1], size[2])
       IN  /\ server = [told |-> blank, left |-> 0, zrle |-> 0, tight |-> none]
           /\ reader = [left |-> 0, zrle |-> 0, tight |-> none, alive |-> TRUE]
           /\ session = [fb |-> blank, mid |-> FALSE]
           /\ whole = blank
    /\ said = 0
    /\ wire = <<>> /\ events = <<>> /\ meant = <<>>
    /\ input = <<>> /\ up = <<>> /\ intended = <<>> /\ heard = <<>>

EndOf(picture) == [kind |-> "end", picture |-> picture]
LastRect == <<0, 0, 0, 0, -224>>
Many == 1000

Sends(units, evs) ==
    /\ wire' = wire \o units
    /\ meant' = meant \o evs
    /\ said' = said + IF server'.left > server.left THEN 0 ELSE 1
    /\ UNCHANGED <<turn, reader, events, session, whole, upward>>

MayTell(updating) ==
    turn = "server" /\ said < MaxSaid /\ (server.left > 0) = updating

\* A rectangle of an update, and the end of the update if it was the last.
SendsRect(r, encoding, units, evs, after) ==
    /\ server' = [after EXCEPT !.left = @ - 1]
    /\ Sends(RectUnits(r) \o <<encoding>> \o units,
             evs \o IF server.left = 1 THEN <<EndOf(after.told)>> ELSE <<>>)

Painted(told, r, paint) ==
    [told EXCEPT !.px = [p \in DOMAIN @ |-> IF p \in Covered(r) THEN paint[p] ELSE @[p]]]
OnDesktop(r) == r.x < server.told.w /\ r.y < server.told.h

StartsUpdate ==
    /\ MayTell(FALSE)
    /\ \E n \in 0..MaxRects \union {Many} :
        /\ server' = [server EXCEPT !.left = n]
        /\ Sends(<<0, 0, n>>, IF n = 0 THEN <<EndOf(server.told)>> ELSE <<>>)

EndsUpdate ==
    /\ MayTell(TRUE)
    /\ server' = [server EXCEPT !.left = 0]
    /\ Sends(LastRect, <<EndOf(server.told)>>)

Raw ==
    /\ MayTell(TRUE)
    /\ \E r \in Parts, paint \in Paints :
        /\ OnDesktop(r)
        /\ SendsRect(r, 0, Cut(paint, r), <<ImageEvent(r, Cut(paint, r))>>,
                     [server EXCEPT !.told = Painted(@, r, paint)])

Zrle ==
    /\ MayTell(TRUE)
    /\ \E r \in Parts, paint \in Paints, style \in TileStyles :
        /\ OnDesktop(r)
        /\ SendsRect(r, 16, ZrleRect(style, paint, r, server.zrle),
                     [i \in DOMAIN TilesOf(r) |-> ImageEvent(TilesOf(r)[i], Cut(paint, TilesOf(r)[i]))],
                     [server EXCEPT !.told = Painted(@, r, paint), !.zrle = @ + 1])

\* A JPEG carries its own size; one that is broken shows nothing.
TightEvent(style, r, px) ==
    CASE style = "jpeg" -> [kind |-> "jpeg", rect |-> r, data |-> <<r.w, r.h>> \o px]
      [] style = "broken" -> [kind |-> "jpeg", rect |-> r, data |-> <<0>>]
      [] OTHER -> ImageEvent(r, px)
Tight ==
    /\ MayTell(TRUE)
    /\ \E r \in Parts, paint \in Paints, style \in TightStyles,
        reset \in {FALSE, server.tight # [i \in 0..3 |-> 0]} :
        LET px == Cut(paint, r)
            stream == IF style = "palette" THEN 1 ELSE 0
            place  == server.tight[stream]
        IN  /\ OnDesktop(r)
            /\ SendsRect(r, 7, TightRect(style, px, r.w, stream, reset, place),
                         <<TightEvent(style, r, px)>>,
                         [server EXCEPT !.told = IF style = "broken" THEN @ ELSE Painted(@, r, paint),
                                        !.tight[stream] = PlaceAfter(style, px, r.w, reset, place)])

Copy ==
    /\ MayTell(TRUE)
    /\ \E c \in Copies :
        LET From(p) == <<p[1] - c.dst.x + c.x, p[2] - c.dst.y + c.y>>
            told == server.told
        IN  /\ Covered(c.dst) \union {From(p) : p \in Covered(c.dst)} \subseteq DOMAIN told.px
            /\ SendsRect(c.dst, 1, <<c.x, c.y>>,
                         <<[kind |-> "copy", dst |-> c.dst, x |-> c.x, y |-> c.y]>>,
                         [server EXCEPT !.told.px = [p \in DOMAIN @ |->
                             IF p \in Covered(c.dst) THEN @[From(p)] ELSE @[p]]])

Pointer ==
    /\ MayTell(TRUE)
    /\ \E s \in Shapes :
        SendsRect(s.rect, -239, CursorRect(s.px, s.rect.w),
                  <<[kind |-> "cursor", rect |-> s.rect, px |-> s.px]>>, server)

Lights ==
    /\ MayTell(TRUE)
    /\ \E state \in {2, 5} :
        SendsRect(Rect(0, 0, 0, 0), -261, <<state>>,
                  <<[kind |-> "led", num |-> (state \div 2) % 2 = 1, caps |-> state > 3]>>, server)

\* What was there stays, and what is new is black until it is painted.
Resized(told, w, h) ==
    [w |-> w, h |-> h,
     px |-> [p \in Pixels(w, h) |-> IF p[1] < told.w /\ p[2] < told.h THEN told.px[p] ELSE 0]]

ChangesSize ==
    /\ MayTell(TRUE)
    /\ \E i \in DOMAIN Sizes :
        LET w == Sizes[i][1]
            h == Sizes[i][2]
        IN  SendsRect(Rect(0, 0, w, h), -223, <<>>, <<[kind |-> "size", w |-> w, h |-> h]>>,
                      [server EXCEPT !.told = Resized(@, w, h)])

\* A reason and a status travel as x and y.  A refusal changes nothing.
Lays ==
    /\ MayTell(TRUE)
    /\ \E i \in DOMAIN Sizes, reason \in 0..1, status \in {0, 1, 4}, n \in 0..1 :
        LET w == Sizes[i][1]
            h == Sizes[i][2]
            screens == [j \in 1..n |-> [id |-> 7, rect |-> Rect(0, 0, w, h), flags |-> 5]]
        IN  /\ status # 0 => reason = 1
            /\ SendsRect(Rect(reason, status, w, h), -308, LayoutUnits(screens),
                         <<[kind |-> "layout", w |-> w, h |-> h, reason |-> reason,
                            status |-> status, screens |-> screens]>>,
                         [server EXCEPT !.told = IF status = 0 THEN Resized(@, w, h) ELSE @])

Talks ==
    /\ MayTell(FALSE)
    /\ UNCHANGED server
    /\ \E m \in {SendsBell, SendsEndOfPushing, SendsRequest, SendsPeek}
             \union {CutText(t) : t \in Texts} \union {SendsText(t) : t \in Texts}
             \union {SendsNotify(f) : f \in {0, TEXT, HTML, TEXT + HTML}}
             \union {SendsCaps(TEXT, <<5>>), SendsCaps(HTML, <<6>>), SendsCaps(TEXT + HTML, <<5, 6>>)}
             \union {SendsFence(0, p) : p \in Fences} :
        Sends(m.units, m.events)

ServerTells ==
    StartsUpdate \/ EndsUpdate \/ Raw \/ Zrle \/ Tight \/ Copy \/ Pointer \/ Lights
    \/ ChangesSize \/ Lays \/ Talks

-----------------------------------------------------------------------------
(* The read loop.                                                          *)

End == [kind |-> "end"]

\* It ends with the first message it cannot read, and says so.
Reads(ok, rest, evs, next) ==
    /\ wire' = rest
    /\ events' = events \o evs \o IF ok THEN <<>> ELSE <<[kind |-> "error"]>>
    /\ reader' = [next EXCEPT !.alive = ok]
    /\ UNCHANGED <<turn, server, said, session, meant, whole, upward>>

ReadMessage ==
    /\ reader.alive /\ reader.left = 0 /\ wire # <<>>
    /\ \E d \in {ServerMsgRead(wire)} :
        Reads(d.ok, d.rest,
              d.events \o IF d.ok /\ wire[1] = 0 /\ d.rects = 0 THEN <<End>> ELSE <<>>,
              [reader EXCEPT !.left = d.rects])

\* [ok, rest, events] of the pseudo-rectangles.
ReadCopy(r, s) ==
    IF Len(s) < 2 THEN Refused(s)
    ELSE [ok |-> TRUE, rest |-> After(s, 2),
          events |-> <<[kind |-> "copy", dst |-> r, x |-> s[1], y |-> s[2]]>>]
ReadLights(s) ==
    IF s = <<>> THEN Refused(s)
    ELSE [ok |-> TRUE, rest |-> Tail(s),
          events |-> <<[kind |-> "led", num |-> (Head(s) \div 2) % 2 = 1,
                        caps |-> (Head(s) \div 4) % 2 = 1]>>]
ReadLayout(r, s) ==
    IF Len(s) < 2 \/ Len(s) < 2 + 6 * s[1] THEN Refused(s)
    ELSE [ok |-> TRUE, rest |-> After(s, 2 + 6 * s[1]),
          events |-> <<[kind |-> "layout", w |-> r.w, h |-> r.h, reason |-> r.x, status |-> r.y,
                        screens |-> ScreensOf(After(s, 2), s[1])]>>]

\* The payload of a rectangle by its encoding, for the state [zrle, tight].
Payload(r, encoding, s) ==
    CASE encoding = 0 -> RawDecode(r, s)
      [] encoding = 1 -> ReadCopy(r, s)
      [] encoding = 16 -> ZrleDecode(r, s, reader.zrle)
      [] encoding = -239 -> CursorDecode(r, s)
      [] encoding = -223 ->
           [ok |-> TRUE, rest |-> s, events |-> <<[kind |-> "size", w |-> r.w, h |-> r.h]>>]
      [] encoding = -308 -> ReadLayout(r, s)
      [] encoding = -261 -> ReadLights(s)
      [] OTHER -> Refused(s)

\* LastRect ends an update before its number of rectangles is reached.
ReadRect ==
    /\ reader.alive /\ reader.left > 0 /\ wire # <<>>
    /\ IF Len(wire) < 5 THEN Reads(FALSE, wire, <<>>, reader)
       ELSE LET r == RectAt(wire, 1)
                encoding == wire[5]
                body == After(wire, 5)
                left == IF encoding = -224 THEN 0 ELSE reader.left - 1
                end  == IF left = 0 THEN <<End>> ELSE <<>>
            IN  IF encoding = -224 THEN Reads(TRUE, body, end, [reader EXCEPT !.left = 0])
                ELSE IF encoding = 7
                THEN \E d \in {TightDecode(r, body, reader.tight)} :
                        Reads(d.ok, d.rest, d.events \o end,
                              [reader EXCEPT !.left = left, !.tight = d.places])
                ELSE \E d \in {Payload(r, encoding, body)} :
                        Reads(d.ok, d.rest, d.events \o end,
                              [reader EXCEPT !.left = left,
                                             !.zrle = IF encoding = 16 THEN @ + 1 ELSE @])

-----------------------------------------------------------------------------
(* The session.                                                            *)

Plausible(w, h) == w > 0 /\ h > 0 /\ w * h <= MaxFrame

\* A size that is none, or not new, is ignored.  Which tiles a new one
\* leaves stale is up to relayout: see RemoteSize of Tiles.
OnRemoteSize(fb, w, h) ==
    IF <<w, h>> = <<fb.w, fb.h>> \/ ~Plausible(w, h) THEN fb ELSE Resize(fb, w, h)

OnLayout(fb, e) ==
    IF e.reason = 1 /\ e.status # 0 THEN fb ELSE OnRemoteSize(fb, e.w, e.h)

\* The header of its rectangle places a JPEG; its size is its own.
OnJpeg(fb, e) ==
    IF Len(e.data) < 2 \/ Len(e.data) < 2 + e.data[1] * e.data[2] THEN fb
    ELSE Apply(fb, Rect(e.rect.x, e.rect.y, e.data[1], e.data[2]), After(e.data, 2))

Updated(fb, e) ==
    CASE e.kind = "image" -> Apply(fb, e.rect, e.px)
      [] e.kind = "jpeg" -> OnJpeg(fb, e)
      [] e.kind = "copy" -> CopyRect(fb, e.dst, e.x, e.y)
      [] e.kind = "size" -> OnRemoteSize(fb, e.w, e.h)
      [] e.kind = "layout" -> OnLayout(fb, e)
      [] OTHER -> fb

\* From the first rectangle of an update to its end nothing is drawn, unless
\* that takes longer than max_partial_wait: then half of one is.
MidAfter(mid, e) ==
    CASE e.kind \in {"image", "jpeg", "copy"} -> TRUE
      [] e.kind = "end" -> FALSE
      [] OTHER -> mid

OnUpdate ==
    /\ events # <<>> /\ meant # <<>>
    /\ LET e == Head(events)
           told == Head(meant)
       IN  /\ session' = [fb |-> Updated(session.fb, e), mid |-> MidAfter(session.mid, e)]
            /\ whole' = CASE told.kind = "end" -> told.picture
                          [] told.kind = "size" -> Resized(whole, told.w, told.h)
                          [] told.kind = "layout" /\ told.status = 0 ->
                               Resized(whole, told.w, told.h)
                          [] OTHER -> whole
    /\ events' = Tail(events)
    /\ meant' = Tail(meant)
    /\ UNCHANGED <<turn, server, said, wire, reader, upward>>

-----------------------------------------------------------------------------
(* The other direction.                                                    *)

\* What Latin-1 has no character for is a question mark at best, and a
\* fence has a limit; a server is not told more than its message has.
Meaning(m) ==
    CASE m.kind = "cutText" ->
           [m EXCEPT !.text = [i \in DOMAIN @ |-> IF @[i] \in 0..255 THEN @[i] ELSE 63]]
      [] m.kind = "fence" -> [m EXCEPT !.payload = First(@, MaxFence)]
      [] OTHER -> m

Input ==
    /\ turn = "client" /\ Len(intended) < MaxSpoken
    /\ \E m \in Spoken :
        /\ input' = Append(input, m)
        /\ intended' = Append(intended, Meaning(m))
    /\ UNCHANGED <<turn, down, up, heard>>

WriteLoop ==
    /\ input # <<>>
    /\ up' = up \o Written(Head(input))
    /\ input' = Tail(input)
    /\ UNCHANGED <<turn, down, intended, heard>>

ServerHears ==
    /\ up # <<>>
    /\ \E h \in {Hears(up)} : up' = h.rest /\ heard' = Append(heard, h.m)
    /\ UNCHANGED <<turn, down, input, intended>>

Next == ServerTells \/ ReadMessage \/ ReadRect \/ OnUpdate \/ Input \/ WriteLoop \/ ServerHears

Spec == Init /\ [][Next]_vars

-----------------------------------------------------------------------------
(* Properties.                                                             *)

\* A server that keeps to the protocol is not refused, and the session is
\* given what the server meant, in its order and with its pixels: no
\* rectangle, whatever its encoding, tile, filter, palette, compressor or
\* length, leaves the reader between two messages.  Texts are excepted that
\* inflate to more than MaxCutText from a body that is within it, which end
\* the connection, and those whose Latin-1 is not UTF-8, which come out
\* replaced; and what is larger than MaxPayload is refused.
HeardAsSaid ==
    IsPrefix(events, [i \in DOMAIN meant |->
                         IF meant[i].kind = "end" THEN End ELSE meant[i]])

\* What is drawn outside of an update is the picture of a whole one: the
\* framebuffer is what the server told, however its rectangles overlap or
\* hang over the edge, copy within themselves or change the desktop's size.
WholePicture == ~session.mid => session.fb = whole

\* What the client says is what the server hears: no message is read as
\* part of another, whatever characters, signs and lengths it has.
SpokenAsMeant == IsPrefix(heard, intended)

\* The two of them: neither side loses its place in the other's stream.
Understood == HeardAsSaid /\ SpokenAsMeant
=============================================================================
