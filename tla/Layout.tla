------------------------------- MODULE Layout -------------------------------
(***************************************************************************)
(* Where the remote desktop goes on the screen (render/mod.rs, Layout and  *)
(* TileGrid), and the session state it is computed from: the window, the   *)
(* scaling mode, the remote's size and the pan.                            *)
(*                                                                         *)
(* The two axes follow the same rules and meet only in the scale, so a     *)
(* size, an extent or a count is a function of the axis.  The scale is the *)
(* exact fraction the code keeps as an f64.  A range of pixels is a set.   *)
(* The layout is taken to follow the state at once; where native mode lags *)
(* behind is the subject of Negotiation.                                   *)
(***************************************************************************)
EXTENDS Integers, FiniteSets

CONSTANTS
    Windows,        \* terminals: their cells, and their size in pixels
    Remotes,        \* sizes of the remote desktop
    TileTarget,     \* TILE_TARGET_PX
    Stride          \* TILE_ID_STRIDE

Axes == {"x", "y"}

ASSUME LayoutConstants ==
    /\ Windows \subseteq [cells : [Axes -> Nat \ {0}], px : [Axes -> Nat \ {0}]]
    /\ Remotes \subseteq [Axes -> Nat \ {0}]
    /\ {TileTarget, Stride} \subseteq Nat \ {0}

(* A size that fits in a u16 fits in 512 tiles of 128 pixels.              *)
ASSUME GridAssumption ==
    \A w \in Windows, a \in Axes :
        w.px[a] <= Stride * TileTarget /\ w.cells[a] <= Stride * TileTarget

VARIABLES window, mode, remote, pan
layoutVars == <<window, mode, remote, pan>>

Modes == {"native", "fit", "integer", "one"}

LayoutTypeOK ==
    /\ window \in Windows /\ mode \in Modes
    /\ remote \in Remotes /\ pan \in [Axes -> Nat]

-----------------------------------------------------------------------------
Least(a, b) == IF a < b THEN a ELSE b
Most(a, b) == IF a > b THEN a ELSE b
Clamp(n, low, high) == Least(Most(n, low), high)
CeilDiv(n, d) == (n + d - 1) \div d

CellSize(w, a) == Most(w.px[a] \div w.cells[a], 1)
(* Everything but the status line.                                         *)
Area(w, a) == CellSize(w, a) * (IF a = "y" THEN w.cells[a] - 1 ELSE w.cells[a])

OneToOne(m) == m \in {"native", "one"}

Fit(w, r) ==
    IF Area(w, "x") * r["y"] <= Area(w, "y") * r["x"]
      THEN [num |-> Area(w, "x"), den |-> r["x"]]
      ELSE [num |-> Area(w, "y"), den |-> r["y"]]

Scale(w, m, r) ==
    LET fit == Fit(w, r)
    IN CASE OneToOne(m) -> [num |-> 1, den |-> 1]
         [] m = "integer" /\ fit.num >= fit.den ->
                [num |-> fit.num \div fit.den, den |-> 1]
         [] OTHER -> fit

Visible(w, m, r, p, a) ==
    IF OneToOne(m)
      THEN LET len == Least(r[a], Area(w, a))
           IN [at |-> Least(p[a], r[a] - len), len |-> len]
      ELSE [at |-> 0, len |-> r[a]]

(* Rounded half up, and never to nothing.                                  *)
Drawn(w, m, r, a) ==
    LET s == Scale(w, m, r)
    IN IF OneToOne(m)
         THEN Least(r[a], Area(w, a))
         ELSE Clamp((2 * r[a] * s.num + s.den) \div (2 * s.den), 1, Area(w, a))

Compute(w, m, r, p) ==
    [scale |-> Scale(w, m, r),
     src |-> [a \in Axes |-> Visible(w, m, r, p, a)],
     dst |-> [a \in Axes |-> Drawn(w, m, r, a)],
     cell |-> [a \in Axes |-> CellSize(w, a)],
     origin |-> [a \in Axes |-> (Area(w, a) - Drawn(w, m, r, a)) \div (2 * CellSize(w, a))]]

NeedsScaling(l) == \E a \in Axes : l.dst[a] # l.src[a].len
(* Pixel doubling, or Lanczos.                                             *)
Nearest(l) == l.scale.num >= l.scale.den /\ l.scale.num % l.scale.den = 0
DstPadding(l) == IF Nearest(l) THEN 1 ELSE 3

(* Slip: the last pixel is rounded like the first.                         *)
SrcToDstFloored(l, a, at, len) ==
    LET first == Most(at, l.src[a].at) - l.src[a].at
        past == Least(at + len, l.src[a].at + l.src[a].len) - l.src[a].at
        pad == IF NeedsScaling(l) THEN DstPadding(l) ELSE 0
    IN {d \in 0 .. l.dst[a] - 1 :
            /\ first < past
            /\ (first * l.scale.num) \div l.scale.den - pad <= d
            /\ d < (past * l.scale.num) \div l.scale.den - 1}

SrcToDst(l, a, at, len) ==
    LET first == Most(at, l.src[a].at) - l.src[a].at
        past == Least(at + len, l.src[a].at + l.src[a].len) - l.src[a].at
        pad == IF NeedsScaling(l) THEN DstPadding(l) ELSE 0
    IN {d \in 0 .. l.dst[a] - 1 :
            /\ first < past
            /\ (first * l.scale.num) \div l.scale.den - pad <= d
            /\ d < CeilDiv(past * l.scale.num, l.scale.den) + pad}

TerminalToDst(l, a, t) == t - l.origin[a] * l.cell[a]

OnImage(l, a, t) == TerminalToDst(l, a, t) \in 0 .. l.dst[a] - 1

(* Slip: the pixel is rounded to the nearest rather than down.             *)
TerminalToSrcRounded(l, a, t) ==
    LET d == TerminalToDst(l, a, t)
        s == (2 * d * l.scale.den + l.scale.num) \div (2 * l.scale.num)
    IN Least(l.src[a].at + s, l.src[a].at + l.src[a].len - 1)

TerminalToSrc(l, a, t) ==
    LET d == TerminalToDst(l, a, t)
    IN Least(l.src[a].at + (d * l.scale.den) \div l.scale.num,
             l.src[a].at + l.src[a].len - 1)

-----------------------------------------------------------------------------
(* The grid of tiles: whole cells, at least TileTarget pixels on a side.   *)
TileSize(l, a) == Most(CeilDiv(TileTarget, l.cell[a]), 1) * l.cell[a]
TileCount(l, a) == Least(CeilDiv(l.dst[a], TileSize(l, a)), Stride)

(* Slip: the last tile is as large as the others.                          *)
TileUnclipped(l, a, t) == t * TileSize(l, a) .. (t + 1) * TileSize(l, a) - 1

Tile(l, a, t) ==
    t * TileSize(l, a) .. Least((t + 1) * TileSize(l, a), l.dst[a]) - 1

TilesCovering(l, a, pixels) ==
    {t \in 0 .. TileCount(l, a) - 1 :
        \E first, last \in pixels :
            /\ first \div TileSize(l, a) <= t
            /\ t <= last \div TileSize(l, a)}

(* Pixels under cells that were erased; what lies before the image counts  *)
(* from its corner.                                                        *)
MarkCells(l, a, at, n) ==
    {d \in 0 .. l.dst[a] - 1 :
        d \div l.cell[a] - Most(at - l.origin[a], 0) \in 0 .. n - 1}

-----------------------------------------------------------------------------
LayoutInit ==
    /\ window \in Windows /\ remote \in Remotes
    /\ mode \in Modes
    /\ pan = [a \in Axes |-> 0]

Now == Compute(window, mode, remote, pan)
PanLimit(l, a) == remote[a] - l.src[a].len

WindowChanges ==
    /\ window' \in Windows \ {window}
    /\ UNCHANGED <<mode, remote, pan>>

SetMode ==
    /\ mode' \in Modes
    /\ pan' = [a \in Axes |-> 0]
    /\ UNCHANGED <<window, remote>>

OnRemoteSize ==
    /\ remote' \in Remotes \ {remote}
    /\ pan' = [a \in Axes |-> 0]
    /\ UNCHANGED <<window, mode>>

(* Native mode is given up, or tried again; what is panned stays so.       *)
FallBackFromNative ==
    /\ mode = "native"
    /\ mode' = IF \A a \in Axes : remote[a] <= Area(window, a) THEN "one" ELSE "fit"
    /\ UNCHANGED <<window, remote, pan>>

Renegotiate ==
    /\ mode' = "native"
    /\ UNCHANGED <<window, remote, pan>>

Pan(a, by) ==
    LET l == Now
        step == Most(l.src[a].len \div 2, 1)
    IN /\ \E b \in Axes : PanLimit(l, b) > 0
       /\ pan' = [b \in Axes |->
                    Clamp(pan[b] + (IF a = b THEN by * step ELSE 0), 0, PanLimit(l, b))]
       /\ UNCHANGED <<window, mode, remote>>

LayoutNext ==
    \/ WindowChanges \/ SetMode \/ OnRemoteSize \/ FallBackFromNative \/ Renegotiate
    \/ \E a \in Axes, by \in {-1, 1} : Pan(a, by)

LayoutSpec == LayoutInit /\ [][LayoutNext]_layoutVars

-----------------------------------------------------------------------------
(* What the resampler reads for a pixel: itself at 1:1, the pixel under    *)
(* its centre when doubling, and else everything within three pixels of    *)
(* the centre, of whichever side has the larger ones.                      *)
Near(l, a, at, d, halves) ==
    LET off == (2 * at + 1) * l.dst[a] - (2 * d + 1) * l.src[a].len
        reach == halves * Most(l.src[a].len, l.dst[a])
    IN off \in -reach .. reach

Reads(l, a, d) ==
    {s \in l.src[a].at .. l.src[a].at + l.src[a].len - 1 :
        LET at == s - l.src[a].at
        IN CASE ~NeedsScaling(l) -> at = d
             [] NeedsScaling(l) /\ Nearest(l) ->
                    at = ((2 * d + 1) * l.src[a].len) \div (2 * l.dst[a])
             [] OTHER -> Near(l, a, at, d, 6)}

(* Damage reaches every tile with a pixel that was computed from what      *)
(* changed, however the scale rounds, and every tile with a pixel in a     *)
(* cell that was erased; where the filter magnifies, see PaddedByTheReach. *)
Reaches(l, a) ==
    \A d \in 0 .. l.dst[a] - 1 : \A s \in Reads(l, a, d) :
        \E t \in TilesCovering(l, a, SrcToDst(l, a, s, 1)) : d \in Tile(l, a, t)
Covered(l, a) ==
    \A at \in 0 .. window.cells[a] - 1, n \in 1 .. 2 :
        \E tiles \in {TilesCovering(l, a, MarkCells(l, a, at, n))} :
            \A d \in 0 .. l.dst[a] - 1 :
                d \div l.cell[a] + l.origin[a] \in at .. at + n - 1 =>
                    \E t \in tiles : d \in Tile(l, a, t)
DamageReaches ==
    /\ \A a \in Axes : Covered(Now, a)
    /\ Nearest(Now) \/ Now.scale.num <= Now.scale.den =>
          \A a \in Axes : Reaches(Now, a)

(* Every pixel of the image belongs to one tile, no tile is empty or       *)
(* reaches outside the image, and the image stays off the status line and  *)
(* inside the window, at any size and scale.                               *)
TilesPartition ==
    \A a \in Axes :
        /\ Now.origin[a] * Now.cell[a] + Now.dst[a] <= Area(window, a)
        /\ \A t \in 0 .. TileCount(Now, a) - 1 :
            Tile(Now, a, t) # {} /\ Tile(Now, a, t) \subseteq 0 .. Now.dst[a] - 1
        /\ \A d \in 0 .. Now.dst[a] - 1 :
            Cardinality({t \in 0 .. TileCount(Now, a) - 1 : d \in Tile(Now, a, t)}) = 1

(* A click names the pixel that is drawn under it; where pixels are        *)
(* blended, one at most a pixel and a half off, of whichever side has the  *)
(* larger ones.  At 1:1 or doubled, every visible pixel can be clicked on. *)
ClickLands ==
    \A a \in Axes :
        LET hits == {t \in 0 .. Area(window, a) - 1 : OnImage(Now, a, t)}
            Hit(t) == TerminalToSrc(Now, a, t)
        IN
        /\ \A t \in hits :
            IF Nearest(Now) THEN Hit(t) \in Reads(Now, a, TerminalToDst(Now, a, t))
            ELSE Near(Now, a, Hit(t) - Now.src[a].at, TerminalToDst(Now, a, t), 3)
        /\ Nearest(Now) => {Hit(t) : t \in hits} =
                Now.src[a].at .. Now.src[a].at + Now.src[a].len - 1

(* "Damage has to be padded by this much or the edges of a changed region  *)
(* go stale" (scale.rs:27-28), whatever the filter and the scale.          *)
PaddedByTheReach == \A a \in Axes : Reaches(Now, a)

(* Every mode stays within the image area (the test                        *)
(* odd_sizes_do_not_overflow_the_area, render/mod.rs:1100): there is one   *)
(* to clamp to, however small the terminal (clamp panics otherwise).       *)
RoomToScale == OneToOne(mode) \/ \A a \in Axes : Area(window, a) > 0

(* "A screenful at a time, clamped to what exists" (session.rs:916):       *)
(* panning moves what is seen by a step, or to the edge.                   *)
PanMoves ==
    [][\A a \in Axes, by \in {-1, 1} : Pan(a, by) =>
        Now'.src[a].at = Clamp(Now.src[a].at + by * Most(Now.src[a].len \div 2, 1),
                               0, PanLimit(Now, a))]_layoutVars
=============================================================================
