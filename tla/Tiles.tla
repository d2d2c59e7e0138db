-------------------------------- MODULE Tiles -------------------------------
(***************************************************************************)
(* The tiles of render/mod.rs and the path their pixels take: damage and   *)
(* layout changes mark tiles, a draw of session.rs composes what is owed   *)
(* and offers it to the writer (term/writer.rs), which is busy or takes    *)
(* it, and the terminal keeps one image and one placement per tile id.     *)
(*                                                                         *)
(* Pixels are abstracted to what can differ: the source is divided into    *)
(* regions, each of one colour, and a picture is a geometry together with  *)
(* the colours of the regions it is cut from.                              *)
(***************************************************************************)
EXTENDS Naturals, FiniteSets

CONSTANTS
    Ids,            \* image ids: a place in the tile grid each
    Regions,        \* parts of the remote framebuffer
    Geos,           \* what Content says beyond its generation
    NoGeo,          \* nothing there
    Cells,          \* cells of the terminal an image can be placed on
    Nowhere,        \* not placed
    Layouts,        \* layouts the session moves between
    FirstLayout,
    Grid(_),        \* the ids of a layout's grid
    Geo(_, _),      \* the geometry a layout asks of an id
    Cell(_, _),     \* the cell a layout puts an id on
    Src(_),         \* the regions a geometry is cut from, filter's reach included
    Desktop(_),     \* the regions the remote had when a layout was computed
    Window(_),      \* the terminal metrics a layout was computed for
    Scaled(_),      \* whether a layout has its source resampled
    ResampleFails,  \* whether Scaler::resize_region may report an error
    MaxRelayouts,   \* bound: layout changes after an accepted frame before
                    \* the last change of the window, mode, pan or font
    MaxResizes,     \* bound: and before the last change of the desktop's size
    MaxGeneration,  \* bound on the damage generation
    Colours         \* bound: colours of a region but for black, which is 0

ASSUME FiniteIds == IsFiniteSet(Ids)
ASSUME Absent == NoGeo \notin Geos /\ Nowhere \notin Cells
ASSUME LayoutTypes ==
    /\ FirstLayout \in Layouts
    /\ \A l \in Layouts :
        /\ Grid(l) \subseteq Ids
        /\ Desktop(l) \subseteq Regions
        /\ \A i \in Grid(l) : Geo(l, i) \in Geos /\ Cell(l, i) \in Cells
ASSUME SrcTypes == \A g \in Geos : Src(g) \subseteq Regions
ASSUME ResampleType ==
    ResampleFails \in BOOLEAN /\ \A l \in Layouts : Scaled(l) \in BOOLEAN
ASSUME BoundTypes ==
    MaxRelayouts \in Nat /\ MaxResizes \in Nat /\ MaxGeneration \in Nat /\ Colours \in Nat

VARIABLES
    layout,       \* Renderer::layout, and the grid that goes with it
    held,         \* Tile::held: the content the terminal is taken to hold
    placedAt,     \* Tile::placed_at
    touched,      \* Tile::touched
    generation,   \* Renderer::generation
    owing,        \* Renderer::owing
    fb,           \* the framebuffer: a colour for every region
    cleanup,      \* Session::pending_cleanup, what it does to every id
    chromeWindow, \* Chrome::shown.area: the metrics the chrome last drew for
    slot,         \* the frame in the writer's channel
    slotFull,
    writing,      \* the frame the writer is in the middle of
    busy,
    screen,       \* what the terminal holds and shows under every id
    relayouts,    \* layout changes since a frame was last accepted
    unnoticed     \* history: ids that something happened to which neither
                  \* their key nor the terminal was told of

vars == <<layout, held, placedAt, touched, generation, owing, fb, cleanup,
          chromeWindow, slot, slotFull, writing, busy, screen, relayouts,
          unnoticed>>

-----------------------------------------------------------------------------
(* The terminal's side of an id: an image and where it is placed.          *)
Image == [geo : Geos \union {NoGeo}, px : [Regions -> Nat]]
NoImage == [geo |-> NoGeo, px |-> [r \in Regions |-> 0]]
Shown == [img : Image, at : Cells \union {Nowhere}]
Blank == [img |-> NoImage, at |-> Nowhere]

(* What bytes addressed to an id do to it: nothing, delete_image,          *)
(* place_existing, or a transmission with its placement (place_rgb).       *)
Effect == [kind : {"keep", "delete", "place", "send"},
           cell : Cells \union {Nowhere}, img : Image]
Keep == [kind |-> "keep", cell |-> Nowhere, img |-> NoImage]
Delete == [kind |-> "delete", cell |-> Nowhere, img |-> NoImage]
Place(c) == [kind |-> "place", cell |-> c, img |-> NoImage]
Send(c, img) == [kind |-> "send", cell |-> c, img |-> img]

(* A placement of an image the terminal has not got is refused by it.      *)
Apply(e, s) ==
    IF e.kind = "delete" THEN Blank
    ELSE IF e.kind = "send" THEN [img |-> e.img, at |-> e.cell]
    ELSE IF e.kind = "place" /\ s.img.geo # NoGeo
      THEN [img |-> s.img, at |-> e.cell]
      ELSE s

(* The bytes of e followed by the bytes of f.                              *)
Then(e, f) ==
    IF f.kind = "keep" \/ (f.kind = "place" /\ e.kind = "delete") THEN e
    ELSE IF f.kind = "place" /\ e.kind = "send"
      THEN [kind |-> "send", cell |-> f.cell, img |-> e.img]
      ELSE f

NoFrame == [i \in Ids |-> Keep]
ThenAll(a, b) == [i \in Ids |-> Then(a[i], b[i])]

-----------------------------------------------------------------------------
(* Content: the key a tile is compared by.                                 *)
Content == [geo : Geos \union {NoGeo}, gen : Nat]
NotHeld == [geo |-> NoGeo, gen |-> 0]

Want(l, t, i) == [geo |-> Geo(l, i), gen |-> t[i]]
Owed(l, h, t) == {i \in Grid(l) : h[i] # Want(l, t, i)}

(* The picture a tile is packed from, as the framebuffer stands.           *)
Picture(g) == [geo |-> g, px |-> [r \in Regions |-> IF r \in Src(g) THEN fb[r] ELSE 0]]

TypeOK ==
    /\ layout \in Layouts
    /\ held \in [Ids -> Content]
    /\ placedAt \in [Ids -> Cells \union {Nowhere}]
    /\ touched \in [Ids -> Nat]
    /\ generation \in Nat
    /\ owing \in Nat
    /\ fb \in [Regions -> Nat]
    /\ cleanup \in [Ids -> Effect]
    /\ slot \in [Ids -> Effect]
    /\ slotFull \in BOOLEAN
    /\ ~slotFull => slot = NoFrame
    /\ writing \in [Ids -> Effect]
    /\ busy \in BOOLEAN
    /\ ~busy => writing = NoFrame
    /\ screen \in [Ids -> Shown]
    /\ relayouts \in Nat
    /\ unnoticed \subseteq Ids

(* Nothing is held, so every tile is owed; the framebuffer is black.       *)
Init ==
    /\ layout = FirstLayout
    /\ held = [i \in Ids |-> NotHeld]
    /\ placedAt = [i \in Ids |-> Nowhere]
    /\ touched = [i \in Ids |-> 0]
    /\ generation = 0
    /\ owing = Cardinality(Grid(FirstLayout))
    /\ fb = [r \in Regions |-> 0]
    /\ cleanup = NoFrame
    /\ chromeWindow = Nowhere
    /\ slot = NoFrame
    /\ slotFull = FALSE
    /\ writing = NoFrame
    /\ busy = FALSE
    /\ screen = [i \in Ids |-> Blank]
    /\ relayouts = 0
    /\ unnoticed = {}

-----------------------------------------------------------------------------
(* A slip: tiles are stamped with the generation already in use.           *)
TouchedLate(tiles) ==
    [i \in Ids |-> IF i \in tiles THEN generation ELSE touched[i]]

(* Slips: every tile marked is counted, and none is.                       *)
OwingEach(tiles) == owing + Cardinality(tiles)
OwingStill(tiles) == owing

(* mark_dst, once the tiles under the rectangle are known: a generation of *)
(* its own, and every tile that was not owed now is.                       *)
TouchedBy(tiles) ==
    [i \in Ids |-> IF i \in tiles THEN generation + 1 ELSE touched[i]]
OwingAfter(tiles) ==
    owing + Cardinality({i \in tiles : held[i] = Want(layout, touched, i)})

(* What changes under a tile that is held for another layout than the one  *)
(* in force is not recorded in its key.                                    *)
HeldFrom(rs) == {i \in Ids : held[i] # NotHeld /\ Src(held[i].geo) \cap rs # {}}

(* An update writes a rectangle of the framebuffer and marks the tiles it  *)
(* can reach, if it is in view at all.                                     *)
Reached(rs) == {i \in Grid(layout) : Src(Geo(layout, i)) \cap rs # {}}
Damage ==
    \E rs \in SUBSET Desktop(layout) \ {{}}, colour \in 0 .. Colours :
        /\ generation < MaxGeneration
        /\ fb' = [r \in Regions |-> IF r \in rs THEN colour ELSE fb[r]]
        /\ generation' = IF Reached(rs) = {} THEN generation ELSE generation + 1
        /\ touched' = TouchedBy(Reached(rs))
        /\ owing' = OwingAfter(Reached(rs))
        /\ unnoticed' = unnoticed \union (HeldFrom(rs) \ Reached(rs))
        /\ UNCHANGED <<layout, held, placedAt, cleanup, chromeWindow, slot,
                       slotFull, writing, busy, screen, relayouts>>

(* mark_all: a full refresh.                                               *)
MarkAll ==
    /\ generation < MaxGeneration
    /\ generation' = generation + 1
    /\ touched' = TouchedBy(Grid(layout))
    /\ owing' = OwingAfter(Grid(layout))
    /\ UNCHANGED <<layout, held, placedAt, fb, cleanup, chromeWindow, slot,
                   slotFull, writing, busy, screen, relayouts, unnoticed>>

(* relayout: what the terminal holds is carried over by id, tiles the new  *)
(* grid has no place for are deleted, and a tile whose content survived    *)
(* but whose cell moved costs a placement. The bytes wait for a frame.     *)
HeldIn(l) == [i \in Ids |-> IF i \in Grid(l) THEN held[i] ELSE NotHeld]
TouchedIn(l) == [i \in Ids |-> IF i \in Grid(l) THEN touched[i] ELSE 0]
Dropped(l) == {i \in Grid(layout) \ Grid(l) : held[i] # NotHeld}
Moved(l) == {i \in Grid(l) \ Owed(l, HeldIn(l), TouchedIn(l)) :
                placedAt[i] # Cell(l, i)}
CleanupFor(l) ==
    [i \in Ids |-> IF i \in Dropped(l) THEN Delete
                   ELSE IF i \in Moved(l) THEN Place(Cell(l, i))
                   ELSE Keep]

Adopts(l) ==
    /\ relayouts' = relayouts + 1
    /\ layout' = l
    /\ held' = HeldIn(l)
    /\ touched' = TouchedIn(l)
    /\ owing' = Cardinality(Owed(l, HeldIn(l), TouchedIn(l)))
    /\ placedAt' = [i \in Ids |-> IF i \in Moved(l) THEN Cell(l, i)
                                  ELSE IF i \in Grid(l) THEN placedAt[i]
                                  ELSE Nowhere]
    /\ cleanup' = ThenAll(cleanup, CleanupFor(l))
    /\ UNCHANGED <<generation, chromeWindow, slot, slotFull, writing, busy,
                   screen>>

(* Another window, mode, pan or font.                                      *)
Relayout ==
    \E l \in Layouts \ {layout} :
        /\ relayouts < MaxRelayouts
        /\ Desktop(l) = Desktop(layout)
        /\ Adopts(l)
        /\ UNCHANGED <<fb, unnoticed>>

(* Slip: the new framebuffer starts out black all over.                    *)
StartedAnew(l) == [r \in Regions |-> 0]

(* on_remote_size: the framebuffer keeps what fits and is black where the  *)
(* desktop is new.  Nothing is marked: relayout is to find out from the    *)
(* keys, which say nothing of pixels that are gone.                        *)
Resized(l) == [r \in Regions |-> IF r \in Desktop(l) THEN fb[r] ELSE 0]
RemoteSize ==
    \E l \in Layouts :
        /\ relayouts < MaxResizes
        /\ Desktop(l) # Desktop(layout)
        /\ Window(l) = Window(layout)
        /\ Adopts(l)
        /\ fb' = Resized(l)
        /\ unnoticed' = unnoticed \union HeldFrom(Desktop(layout) \ Desktop(l))

(* draw: the frame is the pending cleanup and then, once the tiles under   *)
(* cells the chrome vacated are marked, every held image put back on its   *)
(* cell if the window is a new one, and the tiles that are owed.           *)
Replaced ==
    IF chromeWindow # Window(layout)
      THEN {i \in Grid(layout) : held[i] # NotHeld}
      ELSE {}
Sent(vacated, resampled) ==
    IF OwingAfter(vacated) = 0 \/ ~resampled
      THEN {}
      ELSE Owed(layout, held, TouchedBy(vacated))
Composed(vacated, resampled) ==
    [i \in Ids |->
        IF i \in Sent(vacated, resampled)
          THEN Send(Cell(layout, i), Picture(Geo(layout, i)))
        ELSE IF i \in Replaced THEN Place(Cell(layout, i))
        ELSE Keep]

Compose(vacated, resampled) ==
    /\ resampled \/ (Scaled(layout) /\ ResampleFails)
    /\ vacated # {} => generation < MaxGeneration
    /\ generation' = IF vacated = {} THEN generation ELSE generation + 1
    /\ touched' = TouchedBy(vacated)
    /\ chromeWindow' = Window(layout)
    /\ UNCHANGED <<layout, fb, writing, busy, screen>>

(* The writer takes the frame: commit, and every tile is held.             *)
DrawTaken(vacated, resampled) ==
    /\ ~slotFull
    /\ Compose(vacated, resampled)
    /\ slot' = ThenAll(cleanup, Composed(vacated, resampled))
    /\ slotFull' = TRUE
    /\ cleanup' = NoFrame
    /\ held' = [i \in Ids |-> IF i \in Grid(layout)
                                THEN Want(layout, TouchedBy(vacated), i)
                                ELSE held[i]]
    /\ placedAt' = [i \in Ids |-> IF i \in Grid(layout) THEN Cell(layout, i)
                                                         ELSE placedAt[i]]
    /\ owing' = 0
    /\ relayouts' = 0
    /\ unnoticed' = unnoticed \ Sent(vacated, resampled)

(* Slips: a dropped frame is committed like any other, and one that takes  *)
(* the pending cleanup with it.                                            *)
DropCommits(vacated, resampled) ==
    /\ slotFull
    /\ Compose(vacated, resampled)
    /\ held' = [i \in Ids |-> IF i \in Grid(layout)
                                THEN Want(layout, TouchedBy(vacated), i)
                                ELSE held[i]]
    /\ placedAt' = [i \in Ids |-> IF i \in Grid(layout) THEN Cell(layout, i)
                                                         ELSE placedAt[i]]
    /\ owing' = 0
    /\ UNCHANGED <<cleanup, slot, slotFull, relayouts, unnoticed>>

DropForgets(vacated, resampled) ==
    /\ slotFull
    /\ Compose(vacated, resampled)
    /\ placedAt' = [i \in Ids |-> IF i \in Replaced THEN Cell(layout, i)
                                                     ELSE placedAt[i]]
    /\ owing' = OwingAfter(vacated)
    /\ cleanup' = NoFrame
    /\ UNCHANGED <<held, slot, slotFull, relayouts, unnoticed>>

(* The writer is busy: the frame is dropped, and its cleanup goes back,    *)
(* but not the places it was to put images at, which have been noted.      *)
DrawDropped(vacated, resampled) ==
    /\ slotFull
    /\ Compose(vacated, resampled)
    /\ placedAt' = [i \in Ids |-> IF i \in Replaced THEN Cell(layout, i)
                                                     ELSE placedAt[i]]
    /\ owing' = OwingAfter(vacated)
    /\ unnoticed' = unnoticed \union
           (Replaced \cap Owed(layout, held, TouchedBy(vacated)))
    /\ UNCHANGED <<held, cleanup, slot, slotFull, relayouts>>

Draw ==
    \E vacated \in SUBSET Grid(layout), resampled \in BOOLEAN :
        \/ DrawTaken(vacated, resampled)
        \/ DrawDropped(vacated, resampled)

(* The writer thread takes the frame and writes it out: see FrameWriter.   *)
Receive ==
    /\ slotFull
    /\ ~busy
    /\ writing' = slot
    /\ busy' = TRUE
    /\ slot' = NoFrame
    /\ slotFull' = FALSE
    /\ UNCHANGED <<layout, held, placedAt, touched, generation, owing, fb,
                   cleanup, chromeWindow, screen, relayouts, unnoticed>>

Write ==
    /\ busy
    /\ screen' = [i \in Ids |-> Apply(writing[i], screen[i])]
    /\ writing' = NoFrame
    /\ busy' = FALSE
    /\ UNCHANGED <<layout, held, placedAt, touched, generation, owing, fb,
                   cleanup, chromeWindow, slot, slotFull, relayouts,
                   unnoticed>>

Remote == Damage \/ MarkAll \/ Relayout \/ RemoteSize
Output == Draw \/ Receive \/ Write
Next == Remote \/ Output
Spec == Init /\ [][Next]_vars

(* The loop ticks and the writer is scheduled, on a terminal that reads.   *)
FairSpec == Spec /\ WF_vars(Draw) /\ WF_vars(Receive) /\ WF_vars(Write)

-----------------------------------------------------------------------------
(* What the terminal holds under an id once everything composed for it --  *)
(* written, queued, or waiting for the next frame -- has arrived.          *)
Settled(i) ==
    Apply(cleanup[i], Apply(slot[i], Apply(writing[i], screen[i])))

(* A tile counted as held has been sent: however many frames were dropped, *)
(* however the layout changed with frames on their way, the terminal ends  *)
(* up with an image under that id, cut for the geometry the key names.     *)
(* (commit: "a tile counted as held that was never sent is a hole")        *)
HeldIsSent ==
    \A i \in Grid(layout) :
        held[i] # NotHeld => Settled(i).img.geo = held[i].geo

(* No image outlives its tile: an id that no layout in force uses ends up  *)
(* deleted, even when the frame that was to delete it was dropped.         *)
NoGhosts == \A i \in Ids \ Grid(layout) : Settled(i) = Blank

(* has_work and compose trust a counter; it counts the tiles owed.         *)
OwingCounts == owing = Cardinality(Owed(layout, held, touched))

(* A tile that is not owed ends up showing the framebuffer as it is now,   *)
(* where the layout wants it, however frames were dropped and however      *)
(* often the window and the desktop changed between two of them.           *)
(*                                                                         *)
(* Unnoticed are: a tile whose pixels changed while it was held for        *)
(* another layout, or went when the desktop shrank; and one that a frame   *)
(* noted another place for and was then dropped.  An old key that comes    *)
(* back before such a tile was sent again passes for the new picture.      *)
Current(i) == [img |-> Picture(Geo(layout, i)), at |-> Cell(layout, i)]
Fresh ==
    \A i \in Grid(layout) \ Owed(layout, held, touched) :
        i \in unnoticed \/ Settled(i) = Current(i)

(* Two equal keys are the same picture, whatever layout produced them: as  *)
(* Content has it, without those exceptions.  The code keeps it while the  *)
(* layout changes once at most between two frames and the desktop never.   *)
KeysTell ==
    \A i \in Grid(layout) \ Owed(layout, held, touched) :
        Settled(i) = Current(i)

(* When the remote falls quiet the screen catches up, and stays right:     *)
(* every tile current, on its cell, but for those, and nothing else left.  *)
Caught ==
    \A i \in Ids : IF i \in Grid(layout)
                     THEN i \in unnoticed \/ screen[i] = Current(i)
                     ELSE screen[i] = Blank
CatchesUp == (<>[][Output]_vars) => <>[]Caught
=============================================================================
