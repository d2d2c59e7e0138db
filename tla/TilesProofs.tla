----------------------------- MODULE TilesProofs ----------------------------
(***************************************************************************)
(* What holds of Tiles for every set of layouts, tiles and regions, and    *)
(* however many layout changes fall between two frames: a tile counted as  *)
(* held has been sent, an id without a tile ends up deleted, the count of  *)
(* owed tiles is exact, and a tile that is not owed is current, or         *)
(* something happened to it that its key does not record; which takes a    *)
(* change of the desktop's size, or two changes of the layout between two  *)
(* frames.  Resampling is assumed to succeed where it says so.             *)
(*                                                                         *)
(* And of Layout, for every window, remote, mode, pan and tile: the        *)
(* grid covers the image and nothing else, damage reaches every tile that  *)
(* shows it unless the filter magnifies, and a click names what it is on.  *)
(***************************************************************************)
EXTENDS Tiles, Layout, FiniteSetTheorems, TLAPS

-----------------------------------------------------------------------------
(* Bytes addressed to an id.                                               *)

LEMMA EffectTypes ==
    /\ NoImage \in Image /\ Blank \in Shown
    /\ Keep \in Effect /\ Delete \in Effect
    /\ \A c \in Cells : Place(c) \in Effect
    /\ \A c \in Cells, img \in Image : Send(c, img) \in Effect
    /\ Keep.kind # "send" /\ Delete.kind # "send"
    /\ \A c : Place(c).kind # "send"
  BY DEF NoImage, Image, Blank, Shown, Keep, Delete, Place, Send, Effect

LEMMA ApplyType ==
    ASSUME NEW e \in Effect, NEW s \in Shown
    PROVE  Apply(e, s) \in Shown
  BY EffectTypes DEF Apply, Effect, Shown

LEMMA ApplyKeep == \A s : Apply(Keep, s) = s
  BY DEF Apply, Keep

(* A frame's bytes put one after another do what they do one by one.       *)
LEMMA ThenApplies ==
    ASSUME NEW e \in Effect, NEW f \in Effect, NEW s \in Shown,
           e.kind # "send"
    PROVE  /\ Then(e, f) \in Effect
           /\ Apply(Then(e, f), s) = Apply(f, Apply(e, s))
           /\ f.kind # "send" => Then(e, f).kind # "send"
  <1>1. CASE f.kind = "keep"
    BY <1>1 DEF Then, Apply
  <1>2. CASE f.kind \in {"delete", "send"}
    BY <1>2 DEF Then, Apply
  <1>3. CASE f.kind = "place"
    <2>1. CASE e.kind = "keep"
      BY <1>3, <2>1 DEF Then, Apply
    <2>2. CASE e.kind = "place"
      <3>1. Then(e, f) = f
        BY <1>3, <2>2 DEF Then
      <3>2. CASE s.img.geo = NoGeo
        BY <1>3, <2>2, <3>1, <3>2 DEF Apply
      <3>3. CASE s.img.geo # NoGeo
        BY <1>3, <2>2, <3>1, <3>3 DEF Apply, Shown
      <3>4. QED
        BY <3>1, <3>2, <3>3
    <2>3. CASE e.kind = "delete"
      BY <1>3, <2>3 DEF Then, Apply, Blank, NoImage
    <2>4. QED
      BY <2>1, <2>2, <2>3 DEF Effect
  <1>4. QED
    BY <1>1, <1>2, <1>3 DEF Effect

-----------------------------------------------------------------------------
(* The inductive invariant. A generation recorded anywhere is one that has *)
(* been given out, so a fresh one tells damage from what it damaged; and   *)
(* what is still to come for an id -- being written, queued, or waiting --  *)
(* leaves it with the geometry it is counted as holding.                   *)
Generations ==
    \A i \in Ids : held[i].gen <= generation /\ touched[i] <= generation

CleanupSendsNothing == \A i \in Ids : cleanup[i].kind # "send"

Sync ==
    \A i \in Ids :
        /\ i \notin Grid(layout) => held[i] = NotHeld
        /\ held[i].geo = NoGeo => held[i] = NotHeld /\ Settled(i) = Blank
        /\ Settled(i).img.geo = held[i].geo

IInv == TypeOK /\ Generations /\ CleanupSendsNothing /\ OwingCounts /\ Sync

(* Marking tiles: what is owed afterwards, and that the count follows.     *)
LEMMA Marking ==
    ASSUME TypeOK, Generations, OwingCounts,
           NEW tiles, tiles \subseteq Grid(layout)
    PROVE  /\ Owed(layout, held, TouchedBy(tiles))
                 = Owed(layout, held, touched) \union tiles
           /\ OwingAfter(tiles)
                 = Cardinality(Owed(layout, held, TouchedBy(tiles)))
           /\ OwingAfter(tiles) \in Nat
           /\ TouchedBy(tiles) \in [Ids -> Nat]
           /\ \A i \in Ids : TouchedBy(tiles)[i] <= generation + 1
           /\ tiles = {} => TouchedBy(tiles) = touched
  <1> DEFINE owed == Owed(layout, held, touched)
             fresh == {i \in tiles : held[i] = Want(layout, touched, i)}
  <1>0. Grid(layout) \subseteq Ids
    BY LayoutTypes DEF TypeOK
  <1>1. /\ TouchedBy(tiles) \in [Ids -> Nat]
        /\ \A i \in Ids : TouchedBy(tiles)[i] <= generation + 1
        /\ tiles = {} => TouchedBy(tiles) = touched
    BY DEF TouchedBy, TypeOK, Generations
  <1>2. Owed(layout, held, TouchedBy(tiles)) = owed \union tiles
    <2>1. ASSUME NEW i \in Grid(layout), i \in tiles
          PROVE  held[i] # Want(layout, TouchedBy(tiles), i)
      <3>1. held[i].gen <= generation /\ held[i].gen \in Nat
        BY <1>0 DEF TypeOK, Content, Generations
      <3>2. Want(layout, TouchedBy(tiles), i).gen = generation + 1
        BY <1>0, <2>1 DEF Want, TouchedBy
      <3>3. QED
        BY <3>1, <3>2 DEF TypeOK
    <2>2. ASSUME NEW i \in Grid(layout), i \notin tiles
          PROVE  Want(layout, TouchedBy(tiles), i) = Want(layout, touched, i)
      BY <1>0, <2>2 DEF Want, TouchedBy
    <2>3. QED
      BY <2>1, <2>2 DEF Owed
  <1>3. IsFiniteSet(owed) /\ IsFiniteSet(fresh)
    BY <1>0, FiniteIds, FS_Subset DEF Owed
  <1>4. owed \cap fresh = {} /\ owed \union tiles = owed \union fresh
    BY DEF Owed
  <1>5. Cardinality(owed \union fresh) = Cardinality(owed) + Cardinality(fresh)
    <2>1. Cardinality(owed \union fresh)
            = Cardinality(owed) + Cardinality(fresh) - Cardinality(owed \cap fresh)
      BY <1>3, FS_Union
    <2>2. Cardinality(owed \cap fresh) = 0
      BY <1>4, FS_EmptySet
    <2> HIDE DEF owed, fresh
    <2>3. Cardinality(owed) \in Nat /\ Cardinality(fresh) \in Nat
      BY <1>3, FS_CardinalityType
    <2>4. QED
      BY <2>1, <2>2, <2>3
  <1>6. OwingAfter(tiles) = Cardinality(owed \union tiles)
    BY <1>4, <1>5 DEF OwingAfter, OwingCounts
  <1>7. OwingAfter(tiles) \in Nat
    <2>1. Cardinality(fresh) \in Nat
      BY <1>3, FS_CardinalityType
    <2>2. QED
      BY <2>1 DEF OwingAfter, TypeOK
  <1>8. QED
    BY <1>1, <1>2, <1>6, <1>7

LEMMA InitIInv == Init => IInv
  <1> SUFFICES ASSUME Init PROVE IInv
    OBVIOUS
  <1>0. Grid(FirstLayout) \subseteq Ids /\ layout \in Layouts
    BY LayoutTypes DEF Init
  <1>1. Owed(layout, held, touched) = Grid(FirstLayout)
    <2>1. ASSUME NEW i \in Grid(FirstLayout)
          PROVE  held[i] # Want(layout, touched, i)
      BY <1>0, LayoutTypes, Absent DEF Init, NotHeld, Want
    <2>2. QED
      BY <2>1 DEF Owed, Init
  <1>2. owing \in Nat /\ OwingCounts
    BY <1>0, <1>1, FiniteIds, FS_Subset, FS_CardinalityType DEF Init, OwingCounts
  <1>3. \A i \in Ids : Settled(i) = Blank
    BY ApplyKeep DEF Init, Settled, NoFrame
  <1>4. TypeOK
    BY <1>0, <1>2, EffectTypes DEF Init, TypeOK, Content, NotHeld, NoFrame
  <1>5. Generations /\ CleanupSendsNothing
    BY EffectTypes DEF Init, Generations, CleanupSendsNothing, NotHeld, NoFrame
  <1>6. Sync
    BY <1>3 DEF Init, Sync, NotHeld, Blank, NoImage
  <1>7. QED
    BY <1>2, <1>4, <1>5, <1>6 DEF IInv

-----------------------------------------------------------------------------
(* Damage and mark_all leave everything but the reckoning alone.           *)
LEMMA MarkingKeepsIInv ==
    ASSUME IInv, NEW tiles, tiles \subseteq Grid(layout),
           touched' = TouchedBy(tiles), owing' = OwingAfter(tiles),
           generation' = (IF tiles = {} THEN generation ELSE generation + 1),
           fb' \in [Regions -> Nat], unnoticed' \subseteq Ids,
           UNCHANGED <<layout, held, placedAt, cleanup, slot, slotFull,
                       writing, busy, screen, relayouts>>
    PROVE  IInv'
  <1>1. /\ owing' = Cardinality(Owed(layout, held, TouchedBy(tiles)))
        /\ owing' \in Nat /\ touched' \in [Ids -> Nat]
        /\ \A i \in Ids : TouchedBy(tiles)[i] <= generation + 1
        /\ tiles = {} => TouchedBy(tiles) = touched
    BY Marking DEF IInv
  <1>2. TypeOK'
    BY <1>1 DEF IInv, TypeOK, NoFrame
  <1>3. Generations'
    BY <1>1 DEF IInv, TypeOK, Content, Generations
  <1>4. CleanupSendsNothing'
    BY DEF IInv, CleanupSendsNothing
  <1>5. OwingCounts'
    BY <1>1 DEF OwingCounts, Owed, Want
  <1>6. Sync'
    BY DEF IInv, Sync, Settled
  <1>7. QED
    BY <1>2, <1>3, <1>4, <1>5, <1>6 DEF IInv

(* The types of what is on its way to an id.                               *)
LEMMA SettledTypes ==
    ASSUME TypeOK, NEW i \in Ids
    PROVE  /\ screen[i] \in Shown
           /\ Apply(writing[i], screen[i]) \in Shown
           /\ Apply(slot[i], Apply(writing[i], screen[i])) \in Shown
           /\ Settled(i) \in Shown
  BY ApplyType DEF TypeOK, Settled

(* Reading a frame from the channel and writing it out move what is on its *)
(* way nearer the screen and change nothing else.                          *)
LEMMA ReceiveKeepsIInv == IInv /\ Receive => IInv'
  <1> SUFFICES ASSUME IInv, Receive PROVE IInv'
    OBVIOUS
  <1>1. ASSUME NEW i \in Ids PROVE Settled(i)' = Settled(i)
    BY ApplyKeep DEF IInv, TypeOK, Receive, Settled, NoFrame
  <1>2. TypeOK'
    BY DEF IInv, TypeOK, Receive, NoFrame
  <1>3. Generations' /\ CleanupSendsNothing' /\ OwingCounts'
    BY DEF IInv, Receive, Generations, CleanupSendsNothing, OwingCounts, Owed, Want
  <1>4. Sync'
    BY <1>1 DEF IInv, Receive, Sync
  <1>5. QED
    BY <1>2, <1>3, <1>4 DEF IInv

LEMMA WriteKeepsIInv == IInv /\ Write => IInv'
  <1> SUFFICES ASSUME IInv, Write PROVE IInv'
    OBVIOUS
  <1>1. ASSUME NEW i \in Ids PROVE Settled(i)' = Settled(i)
    BY ApplyKeep DEF IInv, TypeOK, Write, Settled, NoFrame
  <1>2. screen' \in [Ids -> Shown]
    BY SettledTypes DEF IInv, Write
  <1>3. TypeOK'
    BY <1>2, EffectTypes DEF IInv, TypeOK, Write, NoFrame
  <1>4. Generations' /\ CleanupSendsNothing' /\ OwingCounts'
    BY DEF IInv, Write, Generations, CleanupSendsNothing, OwingCounts, Owed, Want
  <1>5. Sync'
    BY <1>1 DEF IInv, Write, Sync
  <1>6. QED
    BY <1>3, <1>4, <1>5 DEF IInv

LEMMA DamageKeepsIInv == IInv /\ Damage => IInv'
  <1> SUFFICES ASSUME IInv, NEW rs \in SUBSET Desktop(layout) \ {{}},
                      NEW colour \in 0 .. Colours,
                      fb' = [r \in Regions |-> IF r \in rs THEN colour ELSE fb[r]],
                      generation' = (IF Reached(rs) = {} THEN generation
                                                         ELSE generation + 1),
                      touched' = TouchedBy(Reached(rs)),
                      owing' = OwingAfter(Reached(rs)),
                      unnoticed' = unnoticed \union (HeldFrom(rs) \ Reached(rs)),
                      UNCHANGED <<layout, held, placedAt, cleanup, slot, slotFull,
                                  writing, busy, screen, relayouts>>
               PROVE  IInv'
    BY DEF Damage
  <1>1. Reached(rs) \subseteq Grid(layout)
    BY DEF Reached
  <1>2. fb' \in [Regions -> Nat] /\ unnoticed' \subseteq Ids
    BY DEF IInv, TypeOK, HeldFrom
  <1>3. QED
    BY <1>1, <1>2, MarkingKeepsIInv

LEMMA MarkAllKeepsIInv == IInv /\ MarkAll => IInv'
  <1> SUFFICES ASSUME IInv, MarkAll PROVE IInv'
    OBVIOUS
  <1>1. CASE Grid(layout) = {}
    <2>1. touched' = touched /\ owing' = OwingAfter({}) /\ owing' \in Nat
      BY <1>1, Marking DEF IInv, MarkAll
    <2>2. owing' = Cardinality(Owed(layout, held, touched))
      BY <1>1, <2>1, Marking DEF IInv, MarkAll
    <2>3. TypeOK' /\ Generations'
      BY <2>1 DEF IInv, TypeOK, Content, Generations, MarkAll, NoFrame
    <2>4. CleanupSendsNothing' /\ Sync'
      BY DEF IInv, MarkAll, CleanupSendsNothing, Sync, Settled
    <2>5. OwingCounts'
      BY <2>1, <2>2 DEF MarkAll, OwingCounts, Owed, Want
    <2>6. QED
      BY <2>3, <2>4, <2>5 DEF IInv
  <1>2. CASE Grid(layout) # {}
    <2>1. fb' \in [Regions -> Nat] /\ unnoticed' \subseteq Ids
      BY DEF IInv, TypeOK, MarkAll
    <2>2. QED
      BY <1>2, <2>1, MarkingKeepsIInv DEF MarkAll
  <1>3. QED
    BY <1>1, <1>2

-----------------------------------------------------------------------------
(* A new layout: what is waiting for an id is now followed by what the     *)
(* relayout appends for it.                                                *)
LEMMA RelayoutAppends ==
    ASSUME IInv, NEW l \in Layouts, cleanup' = ThenAll(cleanup, CleanupFor(l)),
           UNCHANGED <<slot, writing, screen>>, NEW i \in Ids
    PROVE  /\ CleanupFor(l)[i].kind # "send"
           /\ cleanup'[i] \in Effect /\ cleanup'[i].kind # "send"
           /\ Settled(i)' = Apply(CleanupFor(l)[i], Settled(i))
  <1>1. CleanupFor(l)[i] \in Effect /\ CleanupFor(l)[i].kind # "send"
    BY LayoutTypes, EffectTypes DEF CleanupFor, Moved
  <1>2. cleanup'[i] = Then(cleanup[i], CleanupFor(l)[i])
    BY DEF ThenAll
  <1>3. /\ cleanup[i] \in Effect /\ cleanup[i].kind # "send"
        /\ Apply(slot[i], Apply(writing[i], screen[i])) \in Shown
    BY SettledTypes DEF IInv, TypeOK, CleanupSendsNothing
  <1>4. QED
    BY <1>1, <1>2, <1>3, ThenApplies DEF Settled

LEMMA AdoptingKeepsIInv ==
    ASSUME IInv, NEW l \in Layouts, Adopts(l),
           fb' \in [Regions -> Nat], unnoticed' \subseteq Ids
    PROVE  IInv'
  <1> USE DEF Adopts
  <1>0. Grid(l) \subseteq Ids /\ \A i \in Grid(l) : Geo(l, i) \in Geos /\ Cell(l, i) \in Cells
    BY LayoutTypes
  <1>1. \A i \in Ids : /\ CleanupFor(l)[i].kind # "send"
                      /\ cleanup'[i] \in Effect /\ cleanup'[i].kind # "send"
                      /\ Settled(i)' = Apply(CleanupFor(l)[i], Settled(i))
    BY RelayoutAppends
  <1>2. HeldIn(l) \in [Ids -> Content] /\ TouchedIn(l) \in [Ids -> Nat]
    BY DEF IInv, TypeOK, HeldIn, TouchedIn, NotHeld, Content
  <1>3. owing' \in Nat /\ OwingCounts'
    <2>1. IsFiniteSet(Owed(l, HeldIn(l), TouchedIn(l)))
      BY <1>0, FiniteIds, FS_Subset DEF Owed
    <2>2. QED
      BY <2>1, FS_CardinalityType DEF OwingCounts
  <1>4. TypeOK'
    <2>1. cleanup' \in [Ids -> Effect]
      BY <1>1 DEF ThenAll
    <2>2. placedAt' \in [Ids -> Cells \union {Nowhere}]
      BY <1>0 DEF IInv, TypeOK, Moved
    <2>3. QED
      BY <1>2, <1>3, <2>1, <2>2 DEF IInv, TypeOK, NoFrame
  <1>5. Generations'
    BY DEF IInv, TypeOK, Generations, HeldIn, TouchedIn, NotHeld
  <1>6. CleanupSendsNothing'
    BY <1>1 DEF CleanupSendsNothing
  <1>7. Sync'
    <2> SUFFICES ASSUME NEW i \in Ids
                 PROVE  /\ i \notin Grid(l) => held'[i] = NotHeld
                        /\ held'[i].geo = NoGeo => held'[i] = NotHeld /\ Settled(i)' = Blank
                        /\ Settled(i)'.img.geo = held'[i].geo
      BY DEF Sync, Settled
    <2>1. Settled(i) \in Shown
      BY SettledTypes DEF IInv
    <2>2. CASE i \in Grid(l)
      <3>1. held'[i] = held[i]
        BY <2>2 DEF HeldIn
      <3>2. CleanupFor(l)[i].kind \in {"keep", "place"}
        BY <2>2 DEF CleanupFor, Dropped, Keep, Place
      <3>3. Apply(CleanupFor(l)[i], Settled(i)).img = Settled(i).img
        BY <2>1, <3>2 DEF Apply
      <3>4. Settled(i) = Blank => Apply(CleanupFor(l)[i], Settled(i)) = Blank
        BY <3>2 DEF Apply, Blank, NoImage
      <3>5. QED
        BY <1>1, <2>2, <3>1, <3>3, <3>4 DEF IInv, Sync
    <2>3. CASE i \notin Grid(l)
      <3>1. held'[i] = NotHeld
        BY <2>3 DEF HeldIn
      <3>2. CASE i \in Grid(layout) /\ held[i] # NotHeld
        <4>1. CleanupFor(l)[i] = Delete
          BY <2>3, <3>2 DEF CleanupFor, Dropped
        <4>2. Settled(i)' = Blank
          BY <1>1, <4>1 DEF Apply, Delete
        <4>3. QED
          BY <2>3, <3>1, <4>2 DEF Blank, NoImage, NotHeld
      <3>3. CASE ~(i \in Grid(layout) /\ held[i] # NotHeld)
        <4>1. held[i] = NotHeld /\ Settled(i) = Blank
          BY <3>3 DEF IInv, Sync, NotHeld
        <4>2. CleanupFor(l)[i] = Keep
          BY <2>3, <3>3 DEF CleanupFor, Dropped, Moved
        <4>3. Settled(i)' = Blank
          BY <1>1, <4>1, <4>2, ApplyKeep
        <4>4. QED
          BY <2>3, <3>1, <4>3 DEF Blank, NoImage, NotHeld
      <3>4. QED
        BY <3>2, <3>3
    <2>4. QED
      BY <2>2, <2>3
  <1>8. QED
    BY <1>3, <1>4, <1>5, <1>6, <1>7 DEF IInv

LEMMA RelayoutKeepsIInv == IInv /\ Relayout => IInv'
  <1> SUFFICES ASSUME IInv, Relayout PROVE IInv'
    OBVIOUS
  <1>1. PICK l \in Layouts : Adopts(l) /\ UNCHANGED <<fb, unnoticed>>
    BY DEF Relayout
  <1>2. fb' \in [Regions -> Nat] /\ unnoticed' \subseteq Ids
    BY <1>1 DEF IInv, TypeOK
  <1>3. QED
    BY <1>1, <1>2, AdoptingKeepsIInv

LEMMA RemoteSizeKeepsIInv == IInv /\ RemoteSize => IInv'
  <1> SUFFICES ASSUME IInv, RemoteSize PROVE IInv'
    OBVIOUS
  <1>1. PICK l \in Layouts :
          /\ Adopts(l) /\ fb' = Resized(l)
          /\ unnoticed' = unnoticed \union HeldFrom(Desktop(layout) \ Desktop(l))
    BY DEF RemoteSize
  <1>2. fb' \in [Regions -> Nat] /\ unnoticed' \subseteq Ids
    BY <1>1 DEF IInv, TypeOK, Resized, HeldFrom
  <1>3. QED
    BY <1>1, <1>2, AdoptingKeepsIInv

(* A frame the writer is too busy for changes no more than marking does:   *)
(* the cleanup is still there for the next.                                *)
LEMMA DropKeepsIInv ==
    ASSUME NEW vacated \in SUBSET Grid(layout), NEW resampled \in BOOLEAN
    PROVE  IInv /\ DrawDropped(vacated, resampled) => IInv'
  <1> SUFFICES ASSUME IInv, DrawDropped(vacated, resampled) PROVE IInv'
    OBVIOUS
  <1>0. Grid(layout) \subseteq Ids /\ \A i \in Grid(layout) : Cell(layout, i) \in Cells
    BY LayoutTypes DEF IInv, TypeOK
  <1>1. /\ owing' = Cardinality(Owed(layout, held, TouchedBy(vacated)))
        /\ owing' \in Nat /\ touched' \in [Ids -> Nat]
        /\ \A i \in Ids : TouchedBy(vacated)[i] <= generation + 1
        /\ vacated = {} => TouchedBy(vacated) = touched
    BY Marking DEF IInv, DrawDropped, Compose
  <1>2. placedAt' \in [Ids -> Cells \union {Nowhere}]
    BY <1>0 DEF IInv, TypeOK, DrawDropped, Replaced
  <1>3. TypeOK'
    <2>1. unnoticed' \subseteq Ids
      BY <1>0 DEF IInv, TypeOK, DrawDropped, Replaced
    <2>2. QED
      BY <1>1, <1>2, <2>1 DEF IInv, TypeOK, DrawDropped, Compose, NoFrame
  <1>4. Generations'
    BY <1>1 DEF IInv, TypeOK, Content, Generations, DrawDropped, Compose
  <1>5. CleanupSendsNothing' /\ Sync'
    BY DEF IInv, CleanupSendsNothing, Sync, Settled, DrawDropped, Compose
  <1>6. OwingCounts'
    BY <1>1 DEF OwingCounts, Owed, Want, DrawDropped, Compose
  <1>7. QED
    BY <1>3, <1>4, <1>5, <1>6 DEF IInv

(* A frame the writer takes: every id gets what was waiting for it and     *)
(* then what the frame composed, which for a tile that is owed is its      *)
(* picture. That no owed tile is left out is what OwingCounts is for.      *)
LEMMA TakeAppends ==
    ASSUME ResampleFails = FALSE, IInv,
           NEW vacated \in SUBSET Grid(layout), NEW resampled \in BOOLEAN,
           DrawTaken(vacated, resampled)
    PROVE  /\ Sent(vacated, resampled) = Owed(layout, held, TouchedBy(vacated))
           /\ \A i \in Ids : /\ slot'[i] \in Effect
                            /\ Settled(i)' = Apply(Composed(vacated, resampled)[i], Settled(i))
  <1> DEFINE t2 == TouchedBy(vacated)
             extra == Composed(vacated, resampled)
  <1>0. /\ Grid(layout) \subseteq Ids
        /\ \A i \in Grid(layout) : Geo(layout, i) \in Geos /\ Cell(layout, i) \in Cells
    BY LayoutTypes DEF IInv, TypeOK
  <1>1. OwingAfter(vacated) = Cardinality(Owed(layout, held, t2))
    BY Marking DEF IInv
  <1>2. Sent(vacated, resampled) = Owed(layout, held, t2)
    <2>1. resampled
      BY DEF DrawTaken, Compose
    <2>2. IsFiniteSet(Owed(layout, held, t2))
      BY <1>0, FiniteIds, FS_Subset DEF Owed
    <2>3. OwingAfter(vacated) = 0 => Owed(layout, held, t2) = {}
      BY <1>1, <2>2, FS_EmptySet
    <2>4. QED
      BY <2>1, <2>3 DEF Sent
  <1>3. ASSUME NEW i \in Ids
        PROVE  extra[i] \in Effect
    <2>1. ASSUME i \in Grid(layout)
          PROVE  Send(Cell(layout, i), Picture(Geo(layout, i))) \in Effect
      <3>1. Picture(Geo(layout, i)) \in Image
        BY <1>0, <2>1 DEF Picture, Image, IInv, TypeOK
      <3>2. QED
        BY <1>0, <2>1, <3>1, EffectTypes
    <2>2. QED
      BY <1>0, <1>2, <2>1, EffectTypes DEF Composed, Owed, Replaced
  <1>4. ASSUME NEW i \in Ids
        PROVE  /\ slot'[i] \in Effect
               /\ Settled(i)' = Apply(extra[i], Settled(i))
    <2>1. /\ slot'[i] = Then(cleanup[i], extra[i])
          /\ cleanup'[i] = Keep /\ slot[i] = Keep
          /\ writing' = writing /\ screen' = screen
      BY DEF DrawTaken, Compose, ThenAll, NoFrame, IInv, TypeOK
    <2>2. /\ cleanup[i] \in Effect /\ cleanup[i].kind # "send"
          /\ Apply(writing[i], screen[i]) \in Shown
      BY SettledTypes DEF IInv, TypeOK, CleanupSendsNothing
    <2>3. /\ slot'[i] \in Effect
          /\ Apply(slot'[i], Apply(writing[i], screen[i]))
               = Apply(extra[i], Apply(cleanup[i], Apply(writing[i], screen[i])))
      BY <1>3, <2>1, <2>2, ThenApplies
    <2>4. QED
      BY <2>1, <2>3, ApplyKeep DEF Settled
  <1>5. QED
    BY <1>2, <1>4

LEMMA TakeKeepsIInv ==
    ASSUME ResampleFails = FALSE,
           NEW vacated \in SUBSET Grid(layout), NEW resampled \in BOOLEAN
    PROVE  IInv /\ DrawTaken(vacated, resampled) => IInv'
  <1> SUFFICES ASSUME IInv, DrawTaken(vacated, resampled) PROVE IInv'
    OBVIOUS
  <1> DEFINE t2 == TouchedBy(vacated)
             extra == Composed(vacated, resampled)
  <1>0. /\ Grid(layout) \subseteq Ids
        /\ \A i \in Grid(layout) : Geo(layout, i) \in Geos /\ Cell(layout, i) \in Cells
    BY LayoutTypes DEF IInv, TypeOK
  <1>1. /\ OwingAfter(vacated) = Cardinality(Owed(layout, held, t2))
        /\ touched' = t2 /\ t2 \in [Ids -> Nat]
        /\ \A i \in Ids : t2[i] <= generation + 1
        /\ vacated = {} => t2 = touched
    BY Marking DEF IInv, DrawTaken, Compose
  <1>2. Sent(vacated, resampled) = Owed(layout, held, t2)
    BY TakeAppends
  <1>4. \A i \in Ids : slot'[i] \in Effect /\ Settled(i)' = Apply(extra[i], Settled(i))
    BY TakeAppends
  <1>5. held' \in [Ids -> Content]
    BY <1>0, <1>1 DEF DrawTaken, Want, Content, IInv, TypeOK
  <1>6. TypeOK'
    <2>1. slot' \in [Ids -> Effect]
      BY <1>4 DEF DrawTaken, ThenAll
    <2>2. cleanup' \in [Ids -> Effect]
      BY EffectTypes DEF DrawTaken, NoFrame
    <2>3. placedAt' \in [Ids -> Cells \union {Nowhere}]
      BY <1>0 DEF DrawTaken, IInv, TypeOK
    <2>4. QED
      BY <1>1, <1>5, <2>1, <2>2, <2>3 DEF IInv, TypeOK, DrawTaken, Compose, NoFrame
  <1>7. Generations'
    BY <1>0, <1>1 DEF IInv, TypeOK, Content, Generations, DrawTaken, Compose, Want
  <1>8. CleanupSendsNothing'
    BY EffectTypes DEF CleanupSendsNothing, DrawTaken, NoFrame
  <1>9. OwingCounts'
    <2>1. Owed(layout', held', touched') = {}
      BY <1>0, <1>1 DEF Owed, Want, DrawTaken, Compose
    <2>2. QED
      BY <2>1, FS_EmptySet DEF OwingCounts, DrawTaken
  <1>10. Sync'
    <2> SUFFICES ASSUME NEW i \in Ids
                 PROVE  /\ i \notin Grid(layout) => held'[i] = NotHeld
                        /\ held'[i].geo = NoGeo => held'[i] = NotHeld /\ Settled(i)' = Blank
                        /\ Settled(i)'.img.geo = held'[i].geo
      BY DEF Sync, Settled, DrawTaken, Compose
    <2>1. Settled(i) \in Shown
      BY SettledTypes DEF IInv
    <2>2. CASE i \notin Grid(layout)
      <3>1. held'[i] = held[i]
        BY <2>2 DEF DrawTaken
      <3>2. extra[i] = Keep
        BY <1>2, <2>2 DEF Composed, Owed, Replaced
      <3>3. QED
        BY <1>4, <2>2, <3>1, <3>2, ApplyKeep DEF IInv, Sync
    <2>3. CASE i \in Grid(layout)
      <3>1. held'[i].geo = Geo(layout, i)
        BY <1>0, <2>3 DEF DrawTaken, Want
      <3>2. Geo(layout, i) # NoGeo
        BY <1>0, <2>3, Absent
      <3>3. CASE i \in Owed(layout, held, t2)
        <4>1. extra[i] = Send(Cell(layout, i), Picture(Geo(layout, i)))
          BY <1>2, <3>3 DEF Composed
        <4>2. Settled(i)'.img.geo = Geo(layout, i)
          BY <1>4, <4>1 DEF Apply, Send, Picture
        <4>3. QED
          BY <2>3, <3>1, <3>2, <4>2
      <3>4. CASE i \notin Owed(layout, held, t2)
        <4>1. held[i].geo = Geo(layout, i)
          BY <2>3, <3>4 DEF Owed, Want
        <4>2. extra[i].kind \in {"keep", "place"}
          BY <1>2, <3>4 DEF Composed, Keep, Place
        <4>3. Settled(i)'.img = Settled(i).img
          BY <1>4, <2>1, <4>2 DEF Apply
        <4>4. QED
          BY <2>3, <3>1, <3>2, <4>1, <4>3 DEF IInv, Sync
      <3>5. QED
        BY <3>3, <3>4
    <2>4. QED
      BY <2>2, <2>3
  <1>11. QED
    BY <1>6, <1>7, <1>8, <1>9, <1>10 DEF IInv

LEMMA IInvInvariant ==
    ASSUME ResampleFails = FALSE
    PROVE  Spec => []IInv
  <1>1. Init => IInv
    BY InitIInv
  <1>2. IInv /\ [Next]_vars => IInv'
    <2> SUFFICES ASSUME IInv, [Next]_vars PROVE IInv'
      OBVIOUS
    <2>1. CASE Damage
      BY <2>1, DamageKeepsIInv
    <2>2. CASE MarkAll
      BY <2>2, MarkAllKeepsIInv
    <2>3. CASE Relayout \/ RemoteSize
      BY <2>3, RelayoutKeepsIInv, RemoteSizeKeepsIInv
    <2>4. CASE Draw
      <3>1. PICK vacated \in SUBSET Grid(layout), resampled \in BOOLEAN :
               \/ DrawTaken(vacated, resampled)
               \/ DrawDropped(vacated, resampled)
        BY <2>4 DEF Draw
      <3>2. QED
        BY <3>1, TakeKeepsIInv, DropKeepsIInv
    <2>5. CASE Receive
      BY <2>5, ReceiveKeepsIInv
    <2>6. CASE Write
      BY <2>6, WriteKeepsIInv
    <2>7. CASE UNCHANGED vars
      BY <2>7 DEF vars, IInv, TypeOK, Generations, CleanupSendsNothing,
                  OwingCounts, Owed, Want, Sync, Settled
    <2>8. QED
      BY <2>1, <2>2, <2>3, <2>4, <2>5, <2>6, <2>7 DEF Next, Remote, Output
  <1>3. QED
    BY <1>1, <1>2, PTL DEF Spec

-----------------------------------------------------------------------------
(* The variables of Tiles keep their types, whatever the layouts.          *)
THEOREM TypeCorrect ==
    ASSUME ResampleFails = FALSE
    PROVE  Spec => []TypeOK
  <1>1. IInv => TypeOK
    BY DEF IInv
  <1>2. QED
    BY <1>1, IInvInvariant, PTL

(* The counter that has_work and compose consult is the number of tiles    *)
(* owed, after any mixture of marks, relayouts, dropped and taken frames.  *)
THEOREM CountExact ==
    ASSUME ResampleFails = FALSE
    PROVE  Spec => []OwingCounts
  <1>1. IInv => OwingCounts
    BY DEF IInv
  <1>2. QED
    BY <1>1, IInvInvariant, PTL

(* A tile counted as held has been sent with the geometry it is counted    *)
(* under, for every set of layouts and any number of relayouts between     *)
(* frames: no hole is left for a later resize to keep.                     *)
THEOREM HeldTilesAreSent ==
    ASSUME ResampleFails = FALSE
    PROVE  Spec => []HeldIsSent
  <1>1. IInv => HeldIsSent
    <2>1. IInv => Grid(layout) \subseteq Ids
      BY LayoutTypes DEF IInv, TypeOK
    <2>2. QED
      BY <2>1 DEF IInv, Sync, HeldIsSent
  <1>2. QED
    BY <1>1, IInvInvariant, PTL

(* An id outside the grid ends up with no image and no placement, however  *)
(* the deletion and the frames still on their way are interleaved.         *)
THEOREM NoImageOutlivesItsTile ==
    ASSUME ResampleFails = FALSE
    PROVE  Spec => []NoGhosts
  <1>1. IInv => NoGhosts
    BY DEF IInv, Sync, NoGhosts, NotHeld
  <1>2. QED
    BY <1>1, IInvInvariant, PTL

-----------------------------------------------------------------------------
(* A tile that no damage was recorded for since it was held, and nothing   *)
(* happened to that could not be, has the picture of what it is held for,  *)
(* and is where it is noted to be: whatever layout that was for, so that   *)
(* an old key may come back. A tile that is not owed is noted on its cell, *)
(* and a region the desktop has not got is black, as it is when it comes   *)
(* back.                                                                   *)
Kept ==
    \A i \in Ids \ unnoticed :
        held[i] # NotHeld /\ held[i].gen = touched[i] =>
            Settled(i) = [img |-> Picture(held[i].geo), at |-> placedAt[i]]
Placed ==
    \A i \in Grid(layout) \ (Owed(layout, held, touched) \union unnoticed) :
        placedAt[i] = Cell(layout, i)
BlackOutside == \A r \in Regions \ Desktop(layout) : fb[r] = 0
FInv == IInv /\ Kept /\ Placed /\ BlackOutside

(* What a tile that is not owed is held for.                               *)
LEMMA NotOwedIsHeld ==
    ASSUME IInv, NEW i \in Grid(layout) \ Owed(layout, held, touched)
    PROVE  /\ i \in Ids /\ held[i] # NotHeld
           /\ held[i].geo = Geo(layout, i) /\ held[i].gen = touched[i]
  BY LayoutTypes, Absent DEF IInv, TypeOK, Owed, Want, NotHeld

LEMMA FInvFresh == FInv => Fresh
  <1> SUFFICES ASSUME FInv, NEW i \in Grid(layout) \ Owed(layout, held, touched),
                      i \notin unnoticed
               PROVE  Settled(i) = Current(i)
    BY DEF Fresh
  <1>1. /\ i \in Ids /\ held[i] # NotHeld
        /\ held[i].geo = Geo(layout, i) /\ held[i].gen = touched[i]
    BY NotOwedIsHeld DEF FInv
  <1>2. placedAt[i] = Cell(layout, i)
    BY DEF FInv, Placed
  <1>3. QED
    BY <1>1, <1>2 DEF FInv, Kept, Current

LEMMA InitFInv == Init => FInv
  <1> SUFFICES ASSUME Init PROVE FInv
    OBVIOUS
  <1>1. IInv
    BY InitIInv
  <1>2. ASSUME NEW i \in Grid(layout)
        PROVE  i \in Owed(layout, held, touched)
    BY <1>2, LayoutTypes, Absent DEF Init, Owed, Want, NotHeld
  <1>3. Kept /\ Placed /\ BlackOutside
    BY <1>2 DEF Init, Kept, Placed, BlackOutside
  <1>4. QED
    BY <1>1, <1>3 DEF FInv

(* Marked tiles are owed; the rest keep what they had, and if a change of  *)
(* the framebuffer shows in one it is unnoticed.                           *)
LEMMA MarkingKeepsKept ==
    ASSUME FInv, NEW tiles, tiles \subseteq Grid(layout),
           touched' = TouchedBy(tiles), unnoticed \subseteq unnoticed',
           \A i \in Ids \ (tiles \union unnoticed') :
               held[i] # NotHeld => \A r \in Src(held[i].geo) : fb'[r] = fb[r],
           UNCHANGED <<layout, held, placedAt, cleanup, slot, writing, screen>>
    PROVE  Kept' /\ Placed'
  <1>1. Owed(layout, held, touched)' = Owed(layout, held, touched) \union tiles
    BY Marking DEF FInv, IInv, Owed, Want
  <1>2. ASSUME NEW i \in Ids \ unnoticed', held[i] # NotHeld, held[i].gen = touched'[i]
        PROVE  (Settled(i) = [img |-> Picture(held[i].geo), at |-> placedAt[i]])'
    <2>1. i \notin tiles
      <3>1. held[i].gen <= generation /\ held[i].gen \in Nat /\ generation \in Nat
        BY DEF FInv, IInv, TypeOK, Content, Generations
      <3>2. i \in tiles => touched'[i] = generation + 1
        BY DEF TouchedBy
      <3>3. QED
        BY <1>2, <3>1, <3>2
    <2>2. touched'[i] = touched[i]
      BY <2>1 DEF TouchedBy
    <2>3. Settled(i) = [img |-> Picture(held[i].geo), at |-> placedAt[i]]
      BY <1>2, <2>2 DEF FInv, Kept
    <2>4. Picture(held[i].geo)' = Picture(held[i].geo)
      BY <1>2, <2>1 DEF Picture
    <2>5. QED
      BY <2>3, <2>4 DEF Settled
  <1>3. Kept'
    BY <1>2 DEF Kept
  <1>4. Placed'
    BY <1>1 DEF FInv, Placed
  <1>5. QED
    BY <1>3, <1>4

LEMMA DamageKeepsFInv == FInv /\ Damage => FInv'
  <1> SUFFICES ASSUME FInv, Damage PROVE FInv'
    OBVIOUS
  <1>1. IInv'
    BY DamageKeepsIInv DEF FInv
  <1>2. PICK rs \in SUBSET Desktop(layout) \ {{}}, colour \in 0 .. Colours :
          /\ fb' = [r \in Regions |-> IF r \in rs THEN colour ELSE fb[r]]
          /\ touched' = TouchedBy(Reached(rs))
          /\ unnoticed' = unnoticed \union (HeldFrom(rs) \ Reached(rs))
          /\ UNCHANGED <<layout, held, placedAt, cleanup, slot, writing, screen>>
    BY DEF Damage
  <1>3. ASSUME NEW i \in Ids \ (Reached(rs) \union unnoticed'), held[i] # NotHeld,
               NEW r \in Src(held[i].geo)
        PROVE  fb'[r] = fb[r]
    <2>1. r \in Regions
      BY <1>3, SrcTypes DEF FInv, IInv, TypeOK, Content, Sync
    <2>2. r \notin rs
      BY <1>2, <1>3 DEF HeldFrom
    <2>3. QED
      BY <1>2, <2>1, <2>2
  <1>4. Reached(rs) \subseteq Grid(layout)
    BY DEF Reached
  <1>5. Kept' /\ Placed'
    BY <1>2, <1>3, <1>4, MarkingKeepsKept
  <1>6. BlackOutside'
    BY <1>2 DEF FInv, BlackOutside
  <1>7. QED
    BY <1>1, <1>5, <1>6 DEF FInv

LEMMA MarkAllKeepsFInv == FInv /\ MarkAll => FInv'
  <1> SUFFICES ASSUME FInv, MarkAll PROVE FInv'
    OBVIOUS
  <1>1. IInv'
    BY MarkAllKeepsIInv DEF FInv
  <1>2. Kept' /\ Placed'
    BY MarkingKeepsKept DEF MarkAll
  <1>3. BlackOutside'
    BY DEF FInv, BlackOutside, MarkAll
  <1>4. QED
    BY <1>1, <1>2, <1>3 DEF FInv

(* What is on its way moves nearer the screen, and ends up the same.       *)
LEMMA OutputKeepsFInv == FInv /\ (Receive \/ Write) => FInv'
  <1> SUFFICES ASSUME FInv, Receive \/ Write PROVE FInv'
    OBVIOUS
  <1>1. IInv'
    BY ReceiveKeepsIInv, WriteKeepsIInv DEF FInv
  <1>2. ASSUME NEW i \in Ids PROVE Settled(i)' = Settled(i)
    <2>1. CASE Receive
      BY <2>1, ApplyKeep DEF FInv, IInv, TypeOK, Receive, Settled, NoFrame
    <2>2. CASE Write
      BY <2>2, ApplyKeep DEF FInv, IInv, TypeOK, Write, Settled, NoFrame
    <2>3. QED
      BY <2>1, <2>2
  <1>3. UNCHANGED <<layout, held, touched, placedAt, fb, unnoticed>>
    BY DEF Receive, Write
  <1>4. Kept' /\ Placed' /\ BlackOutside'
    BY <1>2, <1>3 DEF FInv, Kept, Placed, BlackOutside, Owed, Want, Picture
  <1>5. QED
    BY <1>1, <1>4 DEF FInv

(* A new layout leaves the pictures alone and notes where it puts them; a  *)
(* tile is not owed under it once its old key is the new one.              *)
LEMMA AdoptingKeepsFInv ==
    ASSUME FInv, NEW l \in Layouts, Adopts(l), unnoticed \subseteq unnoticed',
           \A i \in Ids \ unnoticed' :
               held[i] # NotHeld => \A r \in Src(held[i].geo) : fb'[r] = fb[r]
    PROVE  Kept' /\ Placed'
  <1>1. /\ layout' = l /\ held' = HeldIn(l) /\ touched' = TouchedIn(l)
        /\ placedAt' = [i \in Ids |-> IF i \in Moved(l) THEN Cell(l, i)
                                      ELSE IF i \in Grid(l) THEN placedAt[i]
                                      ELSE Nowhere]
        /\ cleanup' = ThenAll(cleanup, CleanupFor(l))
        /\ UNCHANGED <<slot, writing, screen>>
    BY DEF Adopts
  <1>2. Grid(l) \subseteq Ids
    BY LayoutTypes
  <1>3. ASSUME NEW i \in Ids \ unnoticed', held'[i] # NotHeld, held'[i].gen = touched'[i]
        PROVE  (Settled(i) = [img |-> Picture(held[i].geo), at |-> placedAt[i]])'
    <2>1. i \in Grid(l) /\ held'[i] = held[i] /\ touched'[i] = touched[i]
      BY <1>1, <1>3 DEF HeldIn, TouchedIn
    <2>2. Settled(i) = [img |-> Picture(held[i].geo), at |-> placedAt[i]]
      BY <1>3, <2>1 DEF FInv, Kept
    <2>3. Picture(held[i].geo)' = Picture(held[i].geo)
      BY <1>3, <2>1 DEF Picture
    <2>4. Settled(i)' = Apply(CleanupFor(l)[i], Settled(i))
      BY <1>1, RelayoutAppends DEF FInv
    <2>5. CASE i \in Moved(l)
      <3>1. CleanupFor(l)[i] = Place(Cell(l, i)) /\ placedAt'[i] = Cell(l, i)
        BY <1>1, <2>1, <2>5 DEF CleanupFor, Dropped
      <3>2. Settled(i).img.geo # NoGeo
        BY <1>3, <2>1 DEF FInv, IInv, Sync
      <3>3. Settled(i)' = [img |-> Settled(i).img, at |-> Cell(l, i)]
        BY <2>4, <3>1, <3>2 DEF Apply, Place
      <3>4. QED
        BY <2>1, <2>2, <2>3, <3>1, <3>3
    <2>6. CASE i \notin Moved(l)
      <3>1. CleanupFor(l)[i] = Keep /\ placedAt'[i] = placedAt[i]
        BY <1>1, <2>1, <2>6 DEF CleanupFor, Dropped
      <3>2. QED
        BY <2>1, <2>2, <2>3, <2>4, <3>1, ApplyKeep
    <2>7. QED
      BY <2>5, <2>6
  <1>4. Kept'
    BY <1>3 DEF Kept
  <1>5. ASSUME NEW i \in Grid(l) \ Owed(l, HeldIn(l), TouchedIn(l))
        PROVE  placedAt'[i] = Cell(l, i)
    BY <1>1, <1>2 DEF Moved
  <1>6. Placed'
    BY <1>1, <1>5 DEF Placed
  <1>7. QED
    BY <1>4, <1>6

LEMMA RelayoutKeepsFInv == FInv /\ Relayout => FInv'
  <1> SUFFICES ASSUME FInv, Relayout PROVE FInv'
    OBVIOUS
  <1>1. IInv'
    BY RelayoutKeepsIInv DEF FInv
  <1>2. PICK l \in Layouts : /\ Desktop(l) = Desktop(layout) /\ Adopts(l)
                             /\ UNCHANGED <<fb, unnoticed>>
    BY DEF Relayout
  <1>3. Kept' /\ Placed'
    BY <1>2, AdoptingKeepsFInv
  <1>4. BlackOutside'
    BY <1>2 DEF FInv, BlackOutside, Adopts
  <1>5. QED
    BY <1>1, <1>3, <1>4 DEF FInv

(* The pixels that go with a smaller desktop are the only ones that        *)
(* change, as those that come with a larger one are black before and after.*)
LEMMA RemoteSizeKeepsFInv == FInv /\ RemoteSize => FInv'
  <1> SUFFICES ASSUME FInv, RemoteSize PROVE FInv'
    OBVIOUS
  <1>1. IInv'
    BY RemoteSizeKeepsIInv DEF FInv
  <1>2. PICK l \in Layouts :
          /\ Adopts(l) /\ fb' = Resized(l)
          /\ unnoticed' = unnoticed \union HeldFrom(Desktop(layout) \ Desktop(l))
    BY DEF RemoteSize
  <1>3. ASSUME NEW i \in Ids \ unnoticed', held[i] # NotHeld,
               NEW r \in Src(held[i].geo)
        PROVE  fb'[r] = fb[r]
    <2>1. r \in Regions
      BY <1>3, SrcTypes DEF FInv, IInv, TypeOK, Content, Sync
    <2>2. r \in Desktop(l) \/ r \notin Desktop(layout)
      BY <1>2, <1>3 DEF HeldFrom
    <2>3. r \notin Desktop(layout) => fb[r] = 0
      BY <2>1 DEF FInv, BlackOutside
    <2>4. QED
      BY <1>2, <2>1, <2>2, <2>3 DEF Resized
  <1>4. Kept' /\ Placed'
    BY <1>2, <1>3, AdoptingKeepsFInv
  <1>5. BlackOutside'
    BY <1>2 DEF BlackOutside, Resized, Adopts
  <1>6. QED
    BY <1>1, <1>4, <1>5 DEF FInv

(* A place noted for a frame that is dropped is the one the tile is on, or *)
(* the tile is unnoticed.                                                  *)
LEMMA DropKeepsFInv ==
    ASSUME NEW vacated \in SUBSET Grid(layout), NEW resampled \in BOOLEAN
    PROVE  FInv /\ DrawDropped(vacated, resampled) => FInv'
  <1> SUFFICES ASSUME FInv, DrawDropped(vacated, resampled) PROVE FInv'
    OBVIOUS
  <1> DEFINE owed == Owed(layout, held, TouchedBy(vacated))
  <1>1. IInv'
    BY DropKeepsIInv DEF FInv
  <1>2. /\ touched' = TouchedBy(vacated)
        /\ placedAt' = [i \in Ids |-> IF i \in Replaced THEN Cell(layout, i)
                                                         ELSE placedAt[i]]
        /\ unnoticed' = unnoticed \union (Replaced \cap owed)
        /\ UNCHANGED <<layout, held, fb, cleanup, slot, writing, screen>>
    BY DEF DrawDropped, Compose
  <1>3. Grid(layout) \subseteq Ids
    BY LayoutTypes DEF FInv, IInv, TypeOK
  <1>4. owed = Owed(layout, held, touched) \union vacated
    BY Marking DEF FInv, IInv
  <1>5. ASSUME NEW i \in Ids \ unnoticed'
        PROVE  placedAt'[i] = placedAt[i]
    <2>1. CASE i \in Replaced
      <3>1. i \in Grid(layout) \ (Owed(layout, held, touched) \union unnoticed)
        BY <1>2, <1>4, <2>1 DEF Replaced
      <3>2. QED
        BY <1>2, <2>1, <3>1 DEF FInv, Placed
    <2>2. CASE i \notin Replaced
      BY <1>2, <2>2
    <2>3. QED
      BY <2>1, <2>2
  <1>6. ASSUME NEW i \in Ids \ unnoticed', held[i] # NotHeld, held[i].gen = touched'[i]
        PROVE  Settled(i) = [img |-> Picture(held[i].geo), at |-> placedAt'[i]]
    <2>1. i \notin vacated
      <3>1. held[i].gen <= generation /\ held[i].gen \in Nat /\ generation \in Nat
        BY DEF FInv, IInv, TypeOK, Content, Generations
      <3>2. i \in vacated => touched'[i] = generation + 1
        BY <1>2 DEF TouchedBy
      <3>3. QED
        BY <1>6, <3>1, <3>2
    <2>2. touched'[i] = touched[i]
      BY <1>2, <2>1 DEF TouchedBy
    <2>3. i \notin unnoticed
      BY <1>2
    <2>4. QED
      BY <1>5, <1>6, <2>2, <2>3 DEF FInv, Kept
  <1>7. Kept'
    BY <1>2, <1>6 DEF Kept, Settled, Picture
  <1>8. Placed'
    <2>1. ASSUME NEW i \in Grid(layout) \ (owed \union unnoticed')
          PROVE  placedAt'[i] = Cell(layout, i)
      BY <1>2, <1>3, <1>4, <1>5 DEF FInv, Placed
    <2>2. QED
      BY <1>2, <2>1 DEF Placed
  <1>9. BlackOutside'
    BY <1>2 DEF FInv, BlackOutside
  <1>10. QED
    BY <1>1, <1>7, <1>8, <1>9 DEF FInv

(* Every tile that is owed is sent as the framebuffer is now, and every    *)
(* other one had that picture already or is unnoticed.                     *)
LEMMA TakeKeepsFInv ==
    ASSUME ResampleFails = FALSE,
           NEW vacated \in SUBSET Grid(layout), NEW resampled \in BOOLEAN
    PROVE  FInv /\ DrawTaken(vacated, resampled) => FInv'
  <1> SUFFICES ASSUME FInv, DrawTaken(vacated, resampled) PROVE FInv'
    OBVIOUS
  <1> DEFINE owed == Owed(layout, held, TouchedBy(vacated))
             extra == Composed(vacated, resampled)
  <1>1. IInv'
    BY TakeKeepsIInv DEF FInv
  <1>2. /\ Grid(layout) \subseteq Ids
        /\ \A i \in Grid(layout) : Geo(layout, i) \in Geos
    BY LayoutTypes DEF FInv, IInv, TypeOK
  <1>3. /\ Sent(vacated, resampled) = owed
        /\ \A i \in Ids : Settled(i)' = Apply(extra[i], Settled(i))
    BY TakeAppends DEF FInv
  <1>4. owed = Owed(layout, held, touched) \union vacated
    BY Marking DEF FInv, IInv
  <1>5. /\ layout' = layout /\ fb' = fb /\ unnoticed' = unnoticed \ owed
        /\ \A i \in Grid(layout) : placedAt'[i] = Cell(layout, i)
        /\ \A i \in Grid(layout) : held'[i].geo = Geo(layout, i)
        /\ \A i \in Ids \ Grid(layout) : held'[i] = NotHeld
    BY <1>2, <1>3 DEF DrawTaken, Compose, Want, FInv, IInv, Sync
  <1>6. ASSUME NEW i \in Grid(layout), i \notin unnoticed'
        PROVE  Settled(i)' = Current(i)
    <2>1. CASE i \in owed
      <3>1. extra[i] = Send(Cell(layout, i), Picture(Geo(layout, i)))
        BY <1>2, <1>3, <2>1 DEF Composed
      <3>2. QED
        BY <1>2, <1>3, <3>1 DEF Apply, Send, Current
    <2>2. CASE i \notin owed
      <3>1. Settled(i) = Current(i)
        BY <1>4, <1>5, <1>6, <2>2, FInvFresh DEF Fresh
      <3>2. extra[i] = Place(Cell(layout, i)) \/ extra[i] = Keep
        BY <1>2, <1>3, <2>2 DEF Composed
      <3>3. Apply(Place(Cell(layout, i)), Settled(i)) = Settled(i)
        BY <3>1 DEF Apply, Place, Current
      <3>4. QED
        BY <1>2, <1>3, <3>1, <3>2, <3>3, ApplyKeep
    <2>3. QED
      BY <2>1, <2>2
  <1>7. Kept'
    <2>1. ASSUME NEW i \in Ids \ unnoticed', held'[i] # NotHeld
          PROVE  (Settled(i) = [img |-> Picture(held[i].geo), at |-> placedAt[i]])'
      <3>1. i \in Grid(layout)
        BY <1>5, <2>1
      <3>2. QED
        BY <1>5, <1>6, <3>1 DEF Current, Picture
    <2>2. QED
      BY <2>1 DEF Kept
  <1>8. Placed' /\ BlackOutside'
    BY <1>5 DEF FInv, Placed, BlackOutside
  <1>9. QED
    BY <1>1, <1>7, <1>8 DEF FInv

LEMMA FInvInvariant ==
    ASSUME ResampleFails = FALSE
    PROVE  Spec => []FInv
  <1>1. FInv /\ [Next]_vars => FInv'
    <2> SUFFICES ASSUME FInv, [Next]_vars PROVE FInv'
      OBVIOUS
    <2>1. CASE Damage
      BY <2>1, DamageKeepsFInv
    <2>2. CASE MarkAll
      BY <2>2, MarkAllKeepsFInv
    <2>3. CASE Relayout \/ RemoteSize
      BY <2>3, RelayoutKeepsFInv, RemoteSizeKeepsFInv
    <2>4. CASE Draw
      <3>1. PICK vacated \in SUBSET Grid(layout), resampled \in BOOLEAN :
               \/ DrawTaken(vacated, resampled)
               \/ DrawDropped(vacated, resampled)
        BY <2>4 DEF Draw
      <3>2. QED
        BY <3>1, TakeKeepsFInv, DropKeepsFInv
    <2>5. CASE Receive \/ Write
      BY <2>5, OutputKeepsFInv
    <2>6. CASE UNCHANGED vars
      BY <2>6 DEF vars, FInv, IInv, TypeOK, Generations, CleanupSendsNothing,
                  OwingCounts, Owed, Want, Sync, Settled, Kept, Placed,
                  BlackOutside, Picture
    <2>7. QED
      BY <2>1, <2>2, <2>3, <2>4, <2>5, <2>6 DEF Next, Remote, Output
  <1>2. QED
    BY <1>1, InitFInv, PTL DEF Spec

(* A tile that is not owed ends up current and on its cell, whatever the   *)
(* damage, the frames dropped, and the layouts and sizes of the desktop it *)
(* goes through between two of them, but for the tiles that something      *)
(* happened to of which their key says nothing (Content, relayout).        *)
THEOREM NotOwedIsCurrent ==
    ASSUME ResampleFails = FALSE
    PROVE  Spec => []Fresh
  <1>1. QED
    BY FInvInvariant, FInvFresh, PTL

-----------------------------------------------------------------------------
(* While the desktop keeps its size and the layout changes once at most    *)
(* between two frames, a tile has the geometry it has now or is not held   *)
(* at all until the layout changes, so what its key does not record cannot *)
(* reach it; a tile that is moved by a frame that is dropped stays owed.   *)
Committed ==
    relayouts = 0 =>
        \A i \in Grid(layout) : held[i] = NotHeld \/ held[i].geo = Geo(layout, i)
UnnoticedAreOwed ==
    \A i \in unnoticed \cap Grid(layout) : i \in Owed(layout, held, touched)
NInv == IInv /\ Committed /\ UnnoticedAreOwed

LEMMA RelayoutKeepsNInv ==
    ASSUME MaxRelayouts <= 1
    PROVE  NInv /\ Relayout => NInv'
  <1> SUFFICES ASSUME NInv, Relayout PROVE NInv'
    OBVIOUS
  <1>1. IInv'
    BY RelayoutKeepsIInv DEF NInv
  <1>2. PICK l \in Layouts :
          /\ relayouts < MaxRelayouts /\ relayouts' = relayouts + 1
          /\ layout' = l /\ held' = HeldIn(l) /\ touched' = TouchedIn(l)
          /\ unnoticed' = unnoticed
    BY DEF Relayout, Adopts
  <1>3. relayouts = 0 /\ relayouts' = 1
    BY <1>2, BoundTypes DEF NInv, IInv, TypeOK
  <1>4. Grid(l) \subseteq Ids /\ \A i \in Grid(l) : Geo(l, i) \in Geos
    BY LayoutTypes
  <1>5. ASSUME NEW i \in unnoticed \cap Grid(l)
        PROVE  HeldIn(l)[i] # Want(l, TouchedIn(l), i)
    <2>1. HeldIn(l)[i] = held[i] /\ TouchedIn(l)[i] = touched[i]
      BY <1>4 DEF HeldIn, TouchedIn
    <2>2. CASE held[i] = NotHeld
      BY <1>4, <2>1, <2>2, Absent DEF Want, NotHeld
    <2>3. CASE held[i] # NotHeld
      <3>1. i \in Grid(layout)
        BY <1>4, <2>3 DEF NInv, IInv, Sync
      <3>2. held[i].geo = Geo(layout, i) /\ held[i] # Want(layout, touched, i)
        BY <1>3, <2>3, <3>1 DEF NInv, Committed, UnnoticedAreOwed, Owed
      <3>3. held[i] = [geo |-> held[i].geo, gen |-> held[i].gen]
        BY <1>4 DEF NInv, IInv, TypeOK, Content
      <3>4. held[i].gen # touched[i]
        BY <3>2, <3>3 DEF Want
      <3>5. QED
        BY <2>1, <3>4 DEF Want
    <2>4. QED
      BY <2>2, <2>3
  <1>6. Committed' /\ UnnoticedAreOwed'
    BY <1>2, <1>3, <1>5 DEF Committed, UnnoticedAreOwed, Owed
  <1>7. QED
    BY <1>1, <1>6 DEF NInv

LEMMA MarkingKeepsNInv ==
    ASSUME NInv, NEW tiles, tiles \subseteq Grid(layout),
           touched' = TouchedBy(tiles),
           \A i \in unnoticed' \cap Grid(layout) :
               i \in unnoticed \/ i \in Owed(layout, held, TouchedBy(tiles)),
           UNCHANGED <<layout, held, relayouts>>
    PROVE  Committed' /\ UnnoticedAreOwed'
  <1>1. /\ Owed(layout, held, touched)' = Owed(layout, held, touched) \union tiles
        /\ Owed(layout, held, TouchedBy(tiles))
             = Owed(layout, held, touched) \union tiles
    BY Marking DEF NInv, IInv, Owed, Want
  <1>2. QED
    BY <1>1 DEF NInv, Committed, UnnoticedAreOwed

LEMMA DamageKeepsNInv == NInv /\ Damage => NInv'
  <1> SUFFICES ASSUME NInv, Damage PROVE NInv'
    OBVIOUS
  <1>1. IInv'
    BY DamageKeepsIInv DEF NInv
  <1>2. PICK rs :
          /\ touched' = TouchedBy(Reached(rs))
          /\ unnoticed' = unnoticed \union (HeldFrom(rs) \ Reached(rs))
          /\ UNCHANGED <<layout, held, relayouts>>
    BY DEF Damage
  <1>3. Reached(rs) \subseteq Grid(layout)
    BY DEF Reached
  <1>4. ASSUME NEW i \in (HeldFrom(rs) \ Reached(rs)) \cap Grid(layout)
        PROVE  i \in Owed(layout, held, TouchedBy(Reached(rs)))
    <2>1. held[i].geo # Geo(layout, i)
      BY DEF HeldFrom, Reached
    <2>2. QED
      BY <2>1 DEF Owed, Want
  <1>5. Committed' /\ UnnoticedAreOwed'
    BY <1>2, <1>3, <1>4, MarkingKeepsNInv
  <1>6. QED
    BY <1>1, <1>5 DEF NInv

(* Equal keys are the same picture (render/mod.rs, Content), with nothing  *)
(* excepted, while the layout changes once at most between two frames that *)
(* are taken and the desktop keeps its size.                               *)
THEOREM EqualKeysSamePicture ==
    ASSUME ResampleFails = FALSE, MaxRelayouts <= 1, MaxResizes = 0
    PROVE  Spec => []KeysTell
  <1>1. Init => NInv
    BY InitIInv, LayoutTypes DEF NInv, Init, Committed, UnnoticedAreOwed
  <1>2. NInv /\ [Next]_vars => NInv'
    <2> SUFFICES ASSUME NInv, [Next]_vars PROVE NInv'
      OBVIOUS
    <2>1. CASE Damage
      BY <2>1, DamageKeepsNInv
    <2>2. CASE MarkAll
      <3>1. IInv'
        BY <2>2, MarkAllKeepsIInv DEF NInv
      <3>2. Committed' /\ UnnoticedAreOwed'
        BY <2>2, MarkingKeepsNInv DEF MarkAll
      <3>3. QED
        BY <3>1, <3>2 DEF NInv
    <2>3. CASE Relayout
      BY <2>3, RelayoutKeepsNInv
    <2>4. CASE RemoteSize
      BY <2>4, BoundTypes DEF RemoteSize, NInv, IInv, TypeOK
    <2>5. ASSUME NEW vacated \in SUBSET Grid(layout), NEW resampled \in BOOLEAN,
                 DrawDropped(vacated, resampled)
          PROVE  NInv'
      <3>1. IInv'
        BY <2>5, DropKeepsIInv DEF NInv
      <3>2. /\ touched' = TouchedBy(vacated) /\ UNCHANGED <<layout, held, relayouts>>
            /\ unnoticed' = unnoticed \union
                   (Replaced \cap Owed(layout, held, TouchedBy(vacated)))
        BY <2>5 DEF DrawDropped, Compose
      <3>3. Committed' /\ UnnoticedAreOwed'
        BY <3>2, MarkingKeepsNInv
      <3>4. QED
        BY <3>1, <3>3 DEF NInv
    <2>6. ASSUME NEW vacated \in SUBSET Grid(layout), NEW resampled \in BOOLEAN,
                 DrawTaken(vacated, resampled)
          PROVE  NInv'
      <3>1. IInv'
        BY <2>6, TakeKeepsIInv DEF NInv
      <3>2. /\ layout' = layout
            /\ unnoticed' = unnoticed \ Owed(layout, held, TouchedBy(vacated))
            /\ \A i \in Grid(layout) : held'[i].geo = Geo(layout, i)
        BY <2>6, TakeAppends, LayoutTypes DEF DrawTaken, Compose, Want, NInv, IInv, TypeOK
      <3>3. unnoticed \cap Grid(layout) \subseteq Owed(layout, held, TouchedBy(vacated))
        BY Marking DEF NInv, IInv, UnnoticedAreOwed
      <3>4. Committed' /\ UnnoticedAreOwed'
        BY <3>2, <3>3 DEF Committed, UnnoticedAreOwed
      <3>5. QED
        BY <3>1, <3>4 DEF NInv
    <2>7. CASE Receive \/ Write
      <3>1. IInv'
        BY <2>7, ReceiveKeepsIInv, WriteKeepsIInv DEF NInv
      <3>2. UNCHANGED <<layout, held, touched, relayouts, unnoticed>>
        BY <2>7 DEF Receive, Write
      <3>3. QED
        BY <3>1, <3>2 DEF NInv, Committed, UnnoticedAreOwed, Owed, Want
    <2>8. CASE UNCHANGED vars
      BY <2>8 DEF vars, NInv, IInv, TypeOK, Generations, CleanupSendsNothing,
                  OwingCounts, Owed, Want, Sync, Settled, Committed, UnnoticedAreOwed
    <2>9. QED
      BY <2>1, <2>2, <2>3, <2>4, <2>5, <2>6, <2>7, <2>8 DEF Next, Remote, Output, Draw
  <1>3. Fresh /\ NInv => KeysTell
    BY DEF Fresh, KeysTell, NInv, UnnoticedAreOwed
  <1>4. QED
    BY <1>1, <1>2, <1>3, NotOwedIsCurrent, PTL DEF Spec

-----------------------------------------------------------------------------
(* Layout: division.                                                       *)

LEMMA Larger ==
    ASSUME NEW a \in Nat, NEW b \in Nat, a <= b, NEW c \in Nat
    PROVE  a * c <= b * c
OBVIOUS

LEMMA Dividing ==
    ASSUME NEW n \in Nat, NEW d \in Nat \ {0}
    PROVE  /\ n \div d \in Nat
           /\ (n \div d) * d <= n
           /\ n < (n \div d) * d + d
OBVIOUS

LEMMA Quotient ==
    ASSUME NEW n \in Nat, NEW d \in Nat \ {0}, NEW q \in Nat,
           q * d <= n, n < q * d + d
    PROVE  n \div d = q
<1> DEFINE p == n \div d
<1>1. /\ p \in Nat /\ p * d <= n /\ n < p * d + d
  BY Dividing
<1>2. ASSUME p < q PROVE FALSE
  <2>1. (p + 1) * d <= q * d
    BY <1>1, <1>2, Larger
  <2>2. (p + 1) * d = p * d + d
    BY <1>1
  <2> QED
    BY <1>1, <2>1, <2>2
<1>3. ASSUME q < p PROVE FALSE
  <2>1. (q + 1) * d <= p * d
    BY <1>1, <1>3, Larger
  <2>2. (q + 1) * d = q * d + d
    OBVIOUS
  <2> QED
    BY <1>1, <2>1, <2>2
<1> QED
  BY <1>1, <1>2, <1>3

LEMMA Ceiling ==
    ASSUME NEW n \in Nat, NEW d \in Nat \ {0}
    PROVE  /\ CeilDiv(n, d) \in Nat
           /\ n <= CeilDiv(n, d) * d
           /\ CeilDiv(n, d) * d < n + d
           /\ \A t \in Nat : t < CeilDiv(n, d) <=> t * d < n
<1> DEFINE c == (n + d - 1) \div d
<1>1. /\ n + d - 1 \in Nat
      /\ c \in Nat /\ c * d <= n + d - 1 /\ n + d - 1 < c * d + d
  BY Dividing
<1>2. CeilDiv(n, d) = c
  BY DEF CeilDiv
<1>3. ASSUME NEW t \in Nat, t < c PROVE t * d < n
  <2>1. (t + 1) * d <= c * d
    BY <1>1, <1>3, Larger
  <2>2. (t + 1) * d = t * d + d
    OBVIOUS
  <2> QED
    BY <1>1, <2>1, <2>2
<1>4. ASSUME NEW t \in Nat, c <= t PROVE ~ (t * d < n)
  BY <1>1, <1>4, Larger
<1> QED
  BY <1>1, <1>2, <1>3, <1>4

-----------------------------------------------------------------------------
(* Layout: what a layout is made of.                                       *)

LEMMA AreaTypes ==
    ASSUME NEW w \in Windows, NEW a \in Axes
    PROVE  /\ CellSize(w, a) \in Nat \ {0}
           /\ Area(w, a) \in Nat
           /\ Area(w, a) <= Stride * TileTarget
<1> DEFINE cells == w.cells[a]
           px == w.px[a]
           rows == IF a = "y" THEN cells - 1 ELSE cells
           target == Stride * TileTarget
<1>1. /\ cells \in Nat \ {0} /\ px \in Nat \ {0}
      /\ px <= target /\ cells <= target /\ target \in Nat
  BY LayoutConstants, GridAssumption
<1>2. px \div cells \in Nat /\ (px \div cells) * cells <= px
  BY <1>1, Dividing
<1>3. CellSize(w, a) = IF px \div cells > 1 THEN px \div cells ELSE 1
  BY DEF CellSize, Most
<1>4. CellSize(w, a) \in Nat \ {0}
  BY <1>2, <1>3
<1>5. rows \in Nat /\ rows <= cells
  BY <1>1
<1>6. Area(w, a) = CellSize(w, a) * rows
  BY DEF Area
<1>7. CellSize(w, a) * cells <= target
  BY <1>1, <1>2, <1>3
<1>8. rows * CellSize(w, a) <= cells * CellSize(w, a)
  BY <1>1, <1>4, <1>5, Larger
<1> HIDE DEF rows, cells, target
<1>9. CellSize(w, a) * rows \in Nat /\ CellSize(w, a) * rows <= target
  BY <1>1, <1>4, <1>5, <1>7, <1>8
<1> QED
  BY <1>4, <1>6, <1>9 DEF target

LEMMA ScaleTypes ==
    ASSUME NEW w \in Windows, NEW m \in Modes, NEW r \in Remotes
    PROVE  /\ r \in [Axes -> Nat \ {0}]
           /\ Scale(w, m, r).num \in Nat
           /\ Scale(w, m, r).den \in Nat \ {0}
<1>1. r \in [Axes -> Nat \ {0}]
  BY LayoutConstants
<1>2. /\ Area(w, "x") \in Nat /\ Area(w, "y") \in Nat
  BY AreaTypes DEF Axes
<1> DEFINE fit == Fit(w, r)
<1>3. fit.num \in Nat /\ fit.den \in Nat \ {0}
  BY <1>1, <1>2 DEF Fit, Axes
<1>4. fit.num \div fit.den \in Nat
  BY <1>3, Dividing
<1>5. Scale(w, m, r) \in {[num |-> 1, den |-> 1], [num |-> fit.num \div fit.den, den |-> 1], fit}
  BY DEF Scale
<1> HIDE DEF fit
<1> QED
  BY <1>1, <1>3, <1>4, <1>5

LEMMA ClampWithin ==
    ASSUME NEW n \in Int, NEW high \in Nat
    PROVE  /\ Clamp(n, 1, high) \in Nat /\ Clamp(n, 1, high) <= high
           /\ high > 0 /\ n >= 1 /\ n <= high => Clamp(n, 1, high) = n
           /\ high > 0 => Clamp(n, 1, high) >= 1
BY DEF Clamp, Least, Most

LEMMA DrawnTypes ==
    ASSUME NEW w \in Windows, NEW m \in Modes, NEW r \in Remotes, NEW a \in Axes
    PROVE  Drawn(w, m, r, a) \in Nat /\ Drawn(w, m, r, a) <= Area(w, a)
<1> DEFINE s == Scale(w, m, r)
<1>1. /\ r[a] \in Nat \ {0} /\ s.num \in Nat /\ s.den \in Nat \ {0}
      /\ Area(w, a) \in Nat
  BY ScaleTypes, AreaTypes
<1>2. CASE OneToOne(m)
  BY <1>1, <1>2 DEF Drawn, Least
<1>3. CASE ~ OneToOne(m)
  <2> DEFINE n == (2 * r[a] * s.num + s.den) \div (2 * s.den)
  <2>1. 2 * r[a] * s.num + s.den \in Nat /\ 2 * s.den \in Nat \ {0}
    BY <1>1
  <2>2. n \in Nat
    BY <2>1, Dividing
  <2>3. Drawn(w, m, r, a) = Clamp(n, 1, Area(w, a))
    BY <1>3 DEF Drawn
  <2> HIDE DEF n
  <2> QED
    BY <1>1, <2>2, <2>3, ClampWithin
<1> QED
  BY <1>2, <1>3

(* A layout: the pixels drawn, and the cells they are drawn in.            *)
LEMMA ComputeTypes ==
    ASSUME NEW w \in Windows, NEW m \in Modes, NEW r \in Remotes,
           NEW p, NEW a \in Axes, NEW l, l = Compute(w, m, r, p)
    PROVE  /\ l.dst[a] = Drawn(w, m, r, a) /\ l.dst[a] \in Nat
           /\ l.dst[a] <= Area(w, a) /\ Area(w, a) \in Nat
           /\ Area(w, a) <= Stride * TileTarget
           /\ l.cell[a] = CellSize(w, a) /\ l.cell[a] \in Nat \ {0}
           /\ l.origin[a] = (Area(w, a) - l.dst[a]) \div (2 * l.cell[a])
           /\ l.scale = Scale(w, m, r)
           /\ l.src[a] = Visible(w, m, r, p, a)
<1>1. /\ l.dst[a] = Drawn(w, m, r, a) /\ l.cell[a] = CellSize(w, a)
      /\ l.origin[a] = (Area(w, a) - Drawn(w, m, r, a)) \div (2 * CellSize(w, a))
      /\ l.scale = Scale(w, m, r)
      /\ l.src[a] = Visible(w, m, r, p, a)
  BY DEF Compute
<1> QED
  BY <1>1, DrawnTypes, AreaTypes

LEMMA Centred ==
    ASSUME NEW A \in Nat, NEW D \in Nat, D <= A, NEW C \in Nat \ {0},
           NEW o, o = (A - D) \div (2 * C)
    PROVE  o \in Nat /\ o * C + D <= A
<1>1. A - D \in Nat /\ 2 * C \in Nat \ {0}
  OBVIOUS
<1>2. o \in Nat /\ o * (2 * C) <= A - D
  BY <1>1, Dividing
<1>3. o * (2 * C) = o * C + o * C /\ o * C \in Nat
  BY <1>2
<1> QED
  BY <1>2, <1>3

(* The tiles of an axis: T pixels each, until D or the stride is reached.  *)
LEMMA TileTypes ==
    ASSUME NEW w \in Windows, NEW m \in Modes, NEW r \in Remotes,
           NEW p, NEW a \in Axes, NEW l, l = Compute(w, m, r, p)
    PROVE  /\ TileSize(l, a) \in Nat \ {0}
           /\ TileCount(l, a) \in Nat
           /\ \A t \in Nat : t < TileCount(l, a) <=> t * TileSize(l, a) < l.dst[a]
<1> DEFINE C == l.cell[a]
           D == l.dst[a]
           n == CeilDiv(TileTarget, C)
           T == TileSize(l, a)
           c == CeilDiv(D, T)
<1>1. /\ C \in Nat \ {0} /\ D \in Nat /\ D <= Stride * TileTarget
      /\ Stride \in Nat \ {0} /\ TileTarget \in Nat \ {0}
  <2>1. D <= Area(w, a) /\ Area(w, a) <= Stride * TileTarget
        /\ Area(w, a) \in Nat /\ C \in Nat \ {0} /\ D \in Nat
    BY ComputeTypes
  <2>2. Stride \in Nat \ {0} /\ TileTarget \in Nat \ {0} /\ Stride * TileTarget \in Nat
    BY LayoutConstants
  <2> HIDE DEF C, D
  <2> QED
    BY <2>1, <2>2
<1>2. n \in Nat /\ TileTarget <= n * C
  BY <1>1, Ceiling
<1>3. T = (IF n > 1 THEN n ELSE 1) * C
  BY DEF TileSize, Most
<1> HIDE DEF C, D, n, T
<1>4. T \in Nat \ {0} /\ TileTarget <= T
  <2>1. CASE n > 1
    <3>1. T = n * C
      BY <1>3, <2>1
    <3>2. n * C \in Nat /\ n * C > 0
      BY <1>1, <1>2, <2>1
    <3> QED
      BY <1>1, <1>2, <3>1, <3>2
  <2>2. CASE ~ (n > 1)
    <3>1. T = C
      BY <1>1, <1>3, <2>2
    <3>2. n * C <= 1 * C
      BY <1>1, <1>2, <2>2, Larger
    <3> QED
      BY <1>1, <1>2, <3>1, <3>2
  <2> QED
    BY <2>1, <2>2
<1>5. /\ c \in Nat /\ \A t \in Nat : t < c <=> t * T < D
  BY <1>1, <1>4, Ceiling
<1>6. D <= Stride * T
  <2>1. TileTarget * Stride <= T * Stride
    BY <1>1, <1>4, Larger
  <2> QED
    BY <1>1, <1>4, <2>1
<1>7. c <= Stride
  <2>1. ~ (Stride < c)
    BY <1>1, <1>4, <1>5, <1>6
  <2> QED
    BY <1>1, <1>5, <2>1
<1>8. TileCount(l, a) = IF c < Stride THEN c ELSE Stride
  BY DEF TileCount, Least, T, D
<1>9. TileCount(l, a) = c
  BY <1>1, <1>5, <1>7, <1>8
<1> QED
  BY <1>4, <1>5, <1>9 DEF T, D

LEMMA TileOf ==
    ASSUME NEW w \in Windows, NEW m \in Modes, NEW r \in Remotes,
           NEW p, NEW a \in Axes, NEW l, l = Compute(w, m, r, p)
    PROVE  /\ \A t \in 0 .. TileCount(l, a) - 1 :
                Tile(l, a, t) # {} /\ Tile(l, a, t) \subseteq 0 .. l.dst[a] - 1
           /\ \A d \in 0 .. l.dst[a] - 1 :
                /\ d \div TileSize(l, a) \in 0 .. TileCount(l, a) - 1
                /\ \A t \in 0 .. TileCount(l, a) - 1 :
                    d \in Tile(l, a, t) <=> t = d \div TileSize(l, a)
<1> DEFINE T == TileSize(l, a)
           N == TileCount(l, a)
           D == l.dst[a]
<1>1. /\ T \in Nat \ {0} /\ N \in Nat /\ D \in Nat
      /\ \A t \in Nat : t < N <=> t * T < D
  BY TileTypes, ComputeTypes
<1>2. \A t : Tile(l, a, t) = t * T .. (IF (t + 1) * T < D THEN (t + 1) * T ELSE D) - 1
  BY DEF Tile, Least
<1> HIDE DEF T, N, D
<1>3. ASSUME NEW t \in 0 .. N - 1
      PROVE  Tile(l, a, t) # {} /\ Tile(l, a, t) \subseteq 0 .. D - 1
  <2>1. t \in Nat /\ t * T \in Nat /\ t * T < D
    BY <1>1
  <2>2. (t + 1) * T = t * T + T
    BY <1>1, <2>1
  <2> DEFINE last == (IF (t + 1) * T < D THEN (t + 1) * T ELSE D) - 1
  <2>3. last \in Nat /\ t * T <= last /\ last <= D - 1
    BY <1>1, <2>1, <2>2
  <2>4. Tile(l, a, t) = t * T .. last
    BY <1>2
  <2> HIDE DEF last
  <2>5. t * T \in t * T .. last /\ t * T .. last \subseteq 0 .. D - 1
    BY <1>1, <2>1, <2>3
  <2> QED
    BY <2>4, <2>5
<1>4. ASSUME NEW d \in 0 .. D - 1
      PROVE  /\ d \div T \in 0 .. N - 1
             /\ \A t \in 0 .. N - 1 : d \in Tile(l, a, t) <=> t = d \div T
  <2>1. d \in Nat /\ d < D
    BY <1>1
  <2>2. d \div T \in Nat /\ (d \div T) * T <= d /\ d < (d \div T) * T + T
    BY <1>1, <2>1, Dividing
  <2>3. d \div T \in 0 .. N - 1
    <3> DEFINE q == d \div T
    <3>1. q * T < D /\ q \in Nat
      BY <1>1, <2>1, <2>2
    <3> HIDE DEF q
    <3>2. q < N
      BY <1>1, <3>1
    <3> QED
      BY <1>1, <3>1, <3>2 DEF q
  <2>4. ASSUME NEW t \in 0 .. N - 1
        PROVE  d \in Tile(l, a, t) <=> t * T <= d /\ d < t * T + T
    <3>1. t \in Nat /\ (t + 1) * T = t * T + T /\ t * T \in Nat
      BY <1>1
    <3> QED
      BY <1>1, <1>2, <2>1, <3>1
  <2>5. ASSUME NEW t \in 0 .. N - 1, t * T <= d, d < t * T + T
        PROVE  d \div T = t
    BY <1>1, <2>1, <2>5, Quotient
  <2> QED
    BY <2>2, <2>3, <2>4, <2>5
<1> QED
  BY <1>3, <1>4 DEF T, N, D

LEMMA LayoutInvariance == LayoutSpec => []LayoutTypeOK
<1>1. LayoutInit => LayoutTypeOK
  BY DEF LayoutInit, LayoutTypeOK
<1>2. ASSUME LayoutTypeOK, [LayoutNext]_layoutVars PROVE LayoutTypeOK'
  <2> USE <1>2 DEF LayoutTypeOK
  <2>1. CASE WindowChanges
    BY <2>1 DEF WindowChanges
  <2>2. CASE SetMode
    BY <2>2 DEF SetMode
  <2>3. CASE OnRemoteSize
    BY <2>3 DEF OnRemoteSize
  <2>4. CASE FallBackFromNative
    BY <2>4 DEF FallBackFromNative, Modes
  <2>5. CASE Renegotiate
    BY <2>5 DEF Renegotiate, Modes
  <2>6. ASSUME NEW a \in Axes, NEW by \in {-1, 1}, Pan(a, by)
        PROVE  LayoutTypeOK'
    <3> DEFINE l == Now
               step == Most(l.src[a].len \div 2, 1)
               to(b) == Clamp(pan[b] + (IF a = b THEN by * step ELSE 0), 0, PanLimit(l, b))
    <3>1. /\ pan' = [b \in Axes |-> to(b)]
          /\ UNCHANGED <<window, mode, remote>>
      BY <2>6 DEF Pan
    <3>2. ASSUME NEW b \in Axes PROVE l.src[b].len \in Nat /\ PanLimit(l, b) \in Nat
      <4>1. l.src[b] = Visible(window, mode, remote, pan, b)
        BY DEF Now, Compute
      <4>2. remote[b] \in Nat \ {0} /\ Area(window, b) \in Nat
        BY AreaTypes, LayoutConstants
      <4>3. l.src[b].len \in {remote[b], Area(window, b)} /\ l.src[b].len <= remote[b]
        BY <4>1, <4>2 DEF Visible, Least
      <4> HIDE DEF l
      <4> QED
        BY <4>2, <4>3 DEF PanLimit
    <3>3. step \in Nat
      <4>1. l.src[a].len \div 2 \in Nat
        BY <3>2, Dividing
      <4> HIDE DEF l
      <4> QED
        BY <4>1 DEF Most
    <3> HIDE DEF l, step
    <3>4. ASSUME NEW b \in Axes PROVE to(b) \in Nat
      BY <3>2, <3>3 DEF Clamp, Least, Most
    <3> HIDE DEF to
    <3> QED
      BY <3>1, <3>4
  <2>7. CASE UNCHANGED layoutVars
    BY <2>7 DEF layoutVars
  <2> QED
    BY <1>2, <2>1, <2>2, <2>3, <2>4, <2>5, <2>6, <2>7 DEF LayoutNext
<1> QED
  BY <1>1, <1>2, PTL DEF LayoutSpec

(* Every pixel of the image belongs to exactly one tile, no tile is empty  *)
(* or reaches outside, and the image stays off the status line: in windows *)
(* of any size in pixels and cells, at any size of the remote, whatever    *)
(* tile is aimed at (Layout::compute, TileGrid).                           *)
THEOREM GridCovers == LayoutSpec => []TilesPartition
<1>1. ASSUME LayoutTypeOK PROVE TilesPartition
  <2> SUFFICES ASSUME NEW a \in Axes
               PROVE  /\ Now.origin[a] * Now.cell[a] + Now.dst[a] <= Area(window, a)
                      /\ \A t \in 0 .. TileCount(Now, a) - 1 :
                          /\ Tile(Now, a, t) # {}
                          /\ Tile(Now, a, t) \subseteq 0 .. Now.dst[a] - 1
                      /\ \A d \in 0 .. Now.dst[a] - 1 :
                          Cardinality({t \in 0 .. TileCount(Now, a) - 1 :
                                          d \in Tile(Now, a, t)}) = 1
    BY DEF TilesPartition
  <2>1. PICK l : l = Now /\ l = Compute(window, mode, remote, pan)
    BY DEF Now
  <2>2. window \in Windows /\ mode \in Modes /\ remote \in Remotes
    BY <1>1 DEF LayoutTypeOK
  <2>3. l.origin[a] * l.cell[a] + l.dst[a] <= Area(window, a)
    <3>1. /\ l.dst[a] \in Nat /\ l.dst[a] <= Area(window, a)
          /\ Area(window, a) \in Nat /\ l.cell[a] \in Nat \ {0}
          /\ l.origin[a] = (Area(window, a) - l.dst[a]) \div (2 * l.cell[a])
      BY <2>1, <2>2, ComputeTypes
    <3> DEFINE A == Area(window, a)
               D == l.dst[a]
               C == l.cell[a]
               o == l.origin[a]
    <3>2. /\ A \in Nat /\ D \in Nat /\ D <= A /\ C \in Nat \ {0}
          /\ o = (A - D) \div (2 * C)
      BY <3>1
    <3> HIDE DEF A, D, C, o
    <3>3. o * C + D <= A
      BY <3>2, Centred
    <3> QED
      BY <3>3 DEF A, D, C, o
  <2>4. /\ \A t \in 0 .. TileCount(l, a) - 1 :
              Tile(l, a, t) # {} /\ Tile(l, a, t) \subseteq 0 .. l.dst[a] - 1
        /\ \A d \in 0 .. l.dst[a] - 1 :
              /\ d \div TileSize(l, a) \in 0 .. TileCount(l, a) - 1
              /\ \A t \in 0 .. TileCount(l, a) - 1 :
                    d \in Tile(l, a, t) <=> t = d \div TileSize(l, a)
    BY <2>1, <2>2, TileOf
  <2>5. ASSUME NEW d \in 0 .. l.dst[a] - 1
        PROVE  Cardinality({t \in 0 .. TileCount(l, a) - 1 : d \in Tile(l, a, t)}) = 1
    <3>1. {t \in 0 .. TileCount(l, a) - 1 : d \in Tile(l, a, t)} = {d \div TileSize(l, a)}
      BY <2>4
    <3> QED
      BY <3>1, FS_Singleton
  <2> QED
    BY <2>1, <2>3, <2>4, <2>5
<1> QED
  BY <1>1, LayoutInvariance, PTL

-----------------------------------------------------------------------------
(* Layout: the scale, and what is drawn at it.                             *)

(* At its scale the remote is no larger than the area, and at the fitting  *)
(* one it fills it along an axis.                                          *)
LEMMA FitFits ==
    ASSUME NEW w \in Windows, NEW r \in Remotes
    PROVE  /\ Fit(w, r).num \in Nat /\ Fit(w, r).den \in Nat \ {0}
           /\ \A a \in Axes : r[a] * Fit(w, r).num <= Area(w, a) * Fit(w, r).den
           /\ \E a \in Axes : Fit(w, r) = [num |-> Area(w, a), den |-> r[a]]
<1> DEFINE X == Area(w, "x")
           Y == Area(w, "y")
<1>1. /\ X \in Nat /\ Y \in Nat /\ r["x"] \in Nat \ {0} /\ r["y"] \in Nat \ {0}
  BY AreaTypes, LayoutConstants DEF Axes
<1>2. Fit(w, r) = IF X * r["y"] <= Y * r["x"] THEN [num |-> X, den |-> r["x"]]
                                             ELSE [num |-> Y, den |-> r["y"]]
  BY DEF Fit
<1>3. \A a \in Axes : r[a] * Fit(w, r).num <= Area(w, a) * Fit(w, r).den
  <2> SUFFICES /\ r["x"] * Fit(w, r).num <= X * Fit(w, r).den
               /\ r["y"] * Fit(w, r).num <= Y * Fit(w, r).den
    BY DEF Axes
  <2> HIDE DEF X, Y
  <2>1. CASE X * r["y"] <= Y * r["x"]
    BY <1>1, <1>2, <2>1
  <2>2. CASE ~ (X * r["y"] <= Y * r["x"])
    BY <1>1, <1>2, <2>2
  <2> QED
    BY <2>1, <2>2
<1> QED
  BY <1>1, <1>2, <1>3 DEF Axes

(* One to one, a whole number of times, or what fits.                      *)
LEMMA ScaleChoice ==
    ASSUME NEW w \in Windows, NEW m \in Modes, NEW r \in Remotes
    PROVE  /\ OneToOne(m) => Scale(w, m, r) = [num |-> 1, den |-> 1]
           /\ ~ OneToOne(m) =>
                \/ Scale(w, m, r) = Fit(w, r)
                \/ /\ Scale(w, m, r) = [num |-> Fit(w, r).num \div Fit(w, r).den, den |-> 1]
                   /\ Fit(w, r).num \div Fit(w, r).den \in Nat \ {0}
<1> DEFINE n == Fit(w, r).num
           d == Fit(w, r).den
<1>1. n \in Nat /\ d \in Nat \ {0}
  BY FitFits
<1>2. ASSUME OneToOne(m) PROVE Scale(w, m, r) = [num |-> 1, den |-> 1]
  <2>1. m # "integer"
    BY <1>2 DEF OneToOne
  <2> QED
    BY <1>2, <2>1, Zenon DEF Scale
<1>3. ASSUME ~ OneToOne(m)
      PROVE  \/ Scale(w, m, r) = Fit(w, r)
             \/ Scale(w, m, r) = [num |-> n \div d, den |-> 1] /\ n >= d
  BY <1>3, Zenon DEF Scale
<1>4. ASSUME n >= d PROVE n \div d \in Nat \ {0}
  <2> HIDE DEF n, d
  <2>1. n \div d \in Nat /\ n < (n \div d) * d + d
    BY <1>1, Dividing
  <2> DEFINE k == n \div d
  <2> HIDE DEF k
  <2>2. k # 0
    BY <1>1, <1>4, <2>1 DEF k
  <2> QED
    BY <2>1, <2>2 DEF k
<1> QED
  BY <1>2, <1>3, <1>4

LEMMA ScaleFits ==
    ASSUME NEW w \in Windows, NEW m \in Modes, NEW r \in Remotes, ~ OneToOne(m),
           NEW a \in Axes
    PROVE  r[a] * Scale(w, m, r).num <= Area(w, a) * Scale(w, m, r).den
<1> DEFINE fit == Fit(w, r)
           k == fit.num \div fit.den
<1>1. /\ fit.num \in Nat /\ fit.den \in Nat \ {0} /\ r[a] \in Nat /\ Area(w, a) \in Nat
      /\ r[a] * fit.num <= Area(w, a) * fit.den
  BY FitFits, ScaleTypes, AreaTypes
<1>2. Scale(w, m, r) \in {[num |-> k, den |-> 1], fit}
  BY ScaleChoice
<1>3. r[a] * k <= Area(w, a)
  <2> DEFINE n == fit.num
             d == fit.den
             R == r[a]
             A == Area(w, a)
  <2>1. n \in Nat /\ d \in Nat \ {0} /\ R \in Nat /\ A \in Nat /\ R * n <= A * d
    BY <1>1
  <2>2. k \in Nat /\ k * d <= n
    BY <2>1, Dividing
  <2> HIDE DEF n, d, R, A, k
  <2>3. k * d * R <= n * R
    BY <2>1, <2>2, Larger
  <2>4. R * k * d <= A * d
    BY <2>1, <2>2, <2>3
  <2>5. ~ (A + 1 <= R * k)
    <3> SUFFICES ASSUME A + 1 <= R * k PROVE FALSE
      OBVIOUS
    <3>1. (A + 1) * d <= R * k * d
      BY <2>1, <2>2, Larger
    <3> QED
      BY <2>1, <2>2, <2>4, <3>1
  <2>6. R * k <= A
    BY <2>1, <2>2, <2>5
  <2> QED
    BY <2>6 DEF R, A
<1> HIDE DEF fit, k
<1>4. CASE Scale(w, m, r) = fit
  BY <1>1, <1>4
<1>5. CASE Scale(w, m, r) = [num |-> k, den |-> 1]
  BY <1>1, <1>3, <1>5
<1> QED
  BY <1>2, <1>4, <1>5

(* What is drawn is the nearest whole number of pixels, but never none.    *)
LEMMA Rounded ==
    ASSUME NEW w \in Windows, NEW m \in Modes, NEW r \in Remotes, ~ OneToOne(m),
           NEW a \in Axes, NEW D, D = Drawn(w, m, r, a), D > 0,
           NEW n, n = Scale(w, m, r).num, NEW d, d = Scale(w, m, r).den
    PROVE  \/ D = 1 /\ 2 * (r[a] * n) < d
           \/ 2 * (D * d) <= 2 * (r[a] * n) + d /\ 2 * (r[a] * n) < 2 * (D * d) + d
<1> DEFINE A == Area(w, a)
           L == r[a]
           q == (2 * L * n + d) \div (2 * d)
<1>1. /\ A \in Nat /\ L \in Nat \ {0} /\ n \in Nat /\ d \in Nat \ {0}
      /\ L * n <= A * d
  BY AreaTypes, ScaleTypes, ScaleFits
<1>2. D = Clamp(q, 1, A)
  BY DEF Drawn
<1> HIDE DEF A, L
<1>3. 2 * L * n + d \in Nat /\ 2 * d \in Nat \ {0} /\ L * n \in Nat
  BY <1>1
<1>4. q \in Nat /\ q * (2 * d) <= 2 * L * n + d /\ 2 * L * n + d < q * (2 * d) + 2 * d
  BY <1>3, Dividing
<1> HIDE DEF q
<1>5. 2 * (q * d) <= 2 * (L * n) + d /\ 2 * (L * n) < 2 * (q * d) + d
  <2>1. q * (2 * d) = 2 * (q * d) /\ 2 * L * n = 2 * (L * n) /\ q * d \in Nat
    BY <1>1, <1>4
  <2> QED
    BY <1>1, <1>3, <1>4, <2>1
<1>6. q <= A
  <2> SUFFICES ASSUME A + 1 <= q PROVE FALSE
    BY <1>1, <1>4
  <2>1. (A + 1) * d <= q * d
    BY <1>1, <1>4, Larger
  <2>2. (A + 1) * d = A * d + d /\ A * d \in Nat /\ q * d \in Nat
    BY <1>1, <1>4
  <2> QED
    BY <1>1, <1>3, <1>5, <2>1, <2>2
<1>7. A > 0
  BY <1>1, <1>2, <1>4 DEF Clamp, Least, Most
<1>8. CASE q = 0
  <2>1. D = 1
    BY <1>1, <1>2, <1>7, <1>8 DEF Clamp, Least, Most
  <2>2. 2 * (L * n) < d
    BY <1>1, <1>3, <1>5, <1>8
  <2> QED
    BY <2>1, <2>2 DEF L
<1>9. CASE q > 0
  <2>1. D = q
    BY <1>1, <1>2, <1>4, <1>6, <1>7, <1>9, ClampWithin
  <2> QED
    BY <1>5, <2>1 DEF L
<1> QED
  BY <1>4, <1>8, <1>9

LEMMA VisibleTypes ==
    ASSUME NEW w \in Windows, NEW m \in Modes, NEW r \in Remotes,
           NEW p \in [Axes -> Nat], NEW a \in Axes
    PROVE  /\ Visible(w, m, r, p, a).at \in Nat /\ Visible(w, m, r, p, a).len \in Nat
           /\ OneToOne(m) => Visible(w, m, r, p, a).len = Drawn(w, m, r, a)
           /\ ~ OneToOne(m) => Visible(w, m, r, p, a) = [at |-> 0, len |-> r[a]]
<1>1. r[a] \in Nat \ {0} /\ p[a] \in Nat /\ Area(w, a) \in Nat
  BY ScaleTypes, AreaTypes
<1> QED
  BY <1>1 DEF Visible, Drawn, Least

(* A scale that keeps the pixels sharp is a whole number of them.          *)
LEMMA Doubled ==
    ASSUME NEW w \in Windows, NEW m \in Modes, NEW r \in Remotes,
           NEW p \in [Axes -> Nat], NEW l, l = Compute(w, m, r, p), Nearest(l)
    PROVE  \E k \in Nat \ {0} :
              /\ l.scale.num = k * l.scale.den
              /\ \A a \in Axes : l.dst[a] = l.src[a].len * k
<1> DEFINE n == l.scale.num
           d == l.scale.den
           k == n \div d
<1>1. n \in Nat /\ d \in Nat \ {0} /\ n >= d /\ n % d = 0
  BY ScaleTypes DEF Compute, Nearest
<1>2. k \in Nat \ {0} /\ n = k * d
  <2> HIDE DEF n, d
  <2> QED
    BY <1>1
<1> HIDE DEF k
<1>3. ASSUME NEW a \in Axes PROVE l.dst[a] = l.src[a].len * k
  <2>1. /\ l.dst[a] = Drawn(w, m, r, a) /\ l.dst[a] \in Nat
        /\ l.src[a] = Visible(w, m, r, p, a)
        /\ l.scale = Scale(w, m, r)
    BY ComputeTypes
  <2>2. CASE OneToOne(m)
    <3>1. n = 1 /\ d = 1
      BY <2>1, <2>2, ScaleChoice
    <3>2. k = 1
      BY <1>2, <3>1
    <3> QED
      BY <2>1, <2>2, <3>2, VisibleTypes
  <2>3. CASE ~ OneToOne(m)
    <3> DEFINE D == l.dst[a]
               L == r[a]
               A == Area(w, a)
    <3>1. l.src[a].len = L /\ L \in Nat \ {0} /\ A \in Nat /\ D \in Nat
      BY <2>1, <2>3, VisibleTypes, ScaleTypes, AreaTypes
    <3>2. L * n <= A * d
      BY <2>1, <2>3, ScaleFits
    <3>3. D > 0
      <4>1. A > 0
        <5> HIDE DEF L, A, n, d
        <5>1. L * n > 0
          BY <1>1, <3>1
        <5> QED
          BY <1>1, <3>1, <3>2, <5>1
      <4>2. D = Clamp((2 * r[a] * n + d) \div (2 * d), 1, A)
        BY <2>1, <2>3 DEF Drawn
      <4>3. (2 * r[a] * n + d) \div (2 * d) \in Nat
        <5>1. 2 * r[a] * n + d \in Nat /\ 2 * d \in Nat \ {0}
          BY <1>1, <3>1
        <5> QED
          BY <5>1, Dividing
      <4> QED
        BY <3>1, <4>1, <4>2, <4>3, ClampWithin
    <3>4. \/ D = 1 /\ 2 * (L * n) < d
          \/ 2 * (D * d) <= 2 * (L * n) + d /\ 2 * (L * n) < 2 * (D * d) + d
      BY <2>1, <2>3, <3>3, Rounded
    <3> HIDE DEF D, L, A, n, d
    <3>5. L * n = (L * k) * d /\ L * k \in Nat \ {0} /\ D * d \in Nat
      BY <1>1, <1>2, <3>1
    <3>6. L * n >= d
      BY <1>1, <1>2, <3>1, <3>5
    <3>7. 2 * (D * d) <= 2 * (L * n) + d /\ 2 * (L * n) < 2 * (D * d) + d
      BY <1>1, <3>1, <3>4, <3>5, <3>6
    <3>8. ~ (D + 1 <= L * k)
      <4> SUFFICES ASSUME D + 1 <= L * k PROVE FALSE
        OBVIOUS
      <4>1. (D + 1) * d <= (L * k) * d /\ (D + 1) * d = D * d + d
        BY <1>1, <3>1, <3>5, Larger
      <4> QED
        BY <1>1, <3>5, <3>7, <4>1
    <3>9. ~ (L * k + 1 <= D)
      <4> SUFFICES ASSUME L * k + 1 <= D PROVE FALSE
        OBVIOUS
      <4> DEFINE E == L * k
      <4>1. E \in Nat /\ E + 1 <= D /\ L * n = E * d
        BY <3>5
      <4> HIDE DEF E
      <4>2. (E + 1) * d <= D * d
        BY <1>1, <3>1, <4>1, Larger
      <4>3. (E + 1) * d = E * d + d /\ E * d \in Nat
        BY <1>1, <4>1
      <4> QED
        BY <1>1, <3>5, <3>7, <4>1, <4>2, <4>3
    <3>10. D = L * k
      BY <3>1, <3>5, <3>8, <3>9
    <3> QED
      BY <3>1, <3>10 DEF D, L
  <2> QED
    BY <2>2, <2>3
<1> QED
  BY <1>2, <1>3

(* What is drawn pixel for pixel has the scale 1.                          *)
LEMMA Unscaled ==
    ASSUME NEW w \in Windows, NEW m \in Modes, NEW r \in Remotes,
           NEW p \in [Axes -> Nat], NEW l, l = Compute(w, m, r, p), ~ NeedsScaling(l)
    PROVE  l.scale.num = l.scale.den
<1>1. /\ \A a \in Axes : l.dst[a] = l.src[a].len
      /\ \A a \in Axes : l.dst[a] = Drawn(w, m, r, a) /\ l.src[a] = Visible(w, m, r, p, a)
      /\ l.scale = Scale(w, m, r)
  <2>1. \A a \in Axes : l.dst[a] = l.src[a].len
    BY DEF NeedsScaling
  <2>2. l.scale = Scale(w, m, r)
    BY DEF Compute
  <2> QED
    BY <2>1, <2>2, ComputeTypes
<1> DEFINE fit == Fit(w, r)
           k == fit.num \div fit.den
<1>2. fit.num \in Nat /\ fit.den \in Nat \ {0}
  BY FitFits
<1>3. CASE OneToOne(m)
  BY <1>1, <1>3, ScaleChoice
<1>4. ASSUME ~ OneToOne(m), l.scale = fit PROVE l.scale.num = l.scale.den
  <2>1. PICK a \in Axes : fit = [num |-> Area(w, a), den |-> r[a]]
    BY FitFits
  <2> DEFINE A == Area(w, a)
             R == r[a]
             q == (2 * R * A + R) \div (2 * R)
  <2>2. A \in Nat /\ R \in Nat \ {0} /\ l.scale.num = A /\ l.scale.den = R
    BY <1>4, <2>1, AreaTypes, ScaleTypes
  <2>3. l.dst[a] = Clamp(q, 1, A)
    BY <1>1, <1>4, <2>2 DEF Drawn
  <2>4. l.dst[a] = R
    BY <1>1, <1>4, VisibleTypes
  <2> HIDE DEF A, R
  <2>5. q = A
    <3>1. /\ 2 * R * A + R \in Nat /\ 2 * R \in Nat \ {0}
          /\ A * (2 * R) <= 2 * R * A + R /\ 2 * R * A + R < A * (2 * R) + 2 * R
      BY <2>2
    <3> QED
      BY <2>2, <3>1, Quotient
  <2> HIDE DEF q
  <2>6. R = A
    BY <2>2, <2>3, <2>4, <2>5 DEF Clamp, Least, Most
  <2> QED
    BY <2>2, <2>6
<1>5. ASSUME ~ OneToOne(m), l.scale = [num |-> k, den |-> 1], k \in Nat \ {0}
      PROVE  l.scale.num = l.scale.den
  <2>1. Nearest(l)
    <3> HIDE DEF k
    <3> QED
      BY <1>5 DEF Nearest
  <2>2. PICK j \in Nat \ {0} : /\ l.scale.num = j * l.scale.den
                               /\ \A a \in Axes : l.dst[a] = l.src[a].len * j
    BY <2>1, Doubled
  <2>3. PICK a \in Axes : a = "x"
    BY DEF Axes
  <2>4. l.dst[a] = r[a] /\ l.src[a].len = r[a] /\ r[a] \in Nat \ {0}
    BY <1>1, <1>5, VisibleTypes, ScaleTypes
  <2> DEFINE R == r[a]
  <2>5. R = R * j /\ R \in Nat \ {0}
    BY <2>2, <2>4
  <2> HIDE DEF R
  <2>6. j = 1
    BY <2>2, <2>5
  <2> QED
    BY <1>5, <2>2, <2>6
<1> QED
  BY <1>1, <1>3, <1>4, <1>5, ScaleChoice

-----------------------------------------------------------------------------
(* Layout: damage.                                                         *)

LEMMA Marked ==
    ASSUME NEW w \in Windows, NEW m \in Modes, NEW r \in Remotes,
           NEW p, NEW a \in Axes, NEW l, l = Compute(w, m, r, p),
           NEW pixels, NEW d \in pixels, d \in 0 .. l.dst[a] - 1
    PROVE  \E t \in TilesCovering(l, a, pixels) : d \in Tile(l, a, t)
<1> DEFINE t == d \div TileSize(l, a)
<1>1. t \in 0 .. TileCount(l, a) - 1 /\ d \in Tile(l, a, t)
  BY TileOf
<1>2. t \in TilesCovering(l, a, pixels)
  <2>1. t <= t
    BY <1>1, TileTypes
  <2> QED
    BY <1>1, <2>1 DEF TilesCovering
<1> QED
  BY <1>1, <1>2

LEMMA ErasedCovered ==
    ASSUME NEW a \in Axes, LayoutTypeOK
    PROVE  Covered(Now, a)
<1>1. PICK l : l = Now /\ l = Compute(window, mode, remote, pan)
  BY DEF Now
<1>2. window \in Windows /\ mode \in Modes /\ remote \in Remotes
  BY DEF LayoutTypeOK
<1> DEFINE C == l.cell[a]
           o == l.origin[a]
           D == l.dst[a]
<1>3. C \in Nat \ {0} /\ o \in Nat /\ D \in Nat
  <2>1. /\ D \in Nat /\ D <= Area(window, a)
        /\ Area(window, a) \in Nat /\ C \in Nat \ {0}
        /\ o = (Area(window, a) - D) \div (2 * C)
    BY <1>1, <1>2, ComputeTypes
  <2> HIDE DEF C, o, D
  <2> QED
    BY <2>1, Centred
<1>4. window.cells[a] \in Nat
  BY <1>2, LayoutConstants
<1>5. ASSUME NEW at \in 0 .. window.cells[a] - 1, NEW n \in 1 .. 2,
             NEW d \in 0 .. D - 1, d \div C + o \in at .. at + n - 1
      PROVE  d \in MarkCells(l, a, at, n)
  <2> DEFINE q == d \div C
  <2> HIDE DEF q, C, o, D
  <2>1. q \in Nat /\ d \in Nat
    <3>1. d \in Nat
      BY <1>3
    <3> QED
      BY <1>3, <3>1, Dividing DEF q
  <2>2. at \in Nat /\ n \in Nat /\ q + o >= at /\ q + o <= at + n - 1
    BY <1>3, <1>4, <1>5, <2>1 DEF q
  <2>3. q - (IF at - o > 0 THEN at - o ELSE 0) \in 0 .. n - 1
    BY <1>3, <2>1, <2>2
  <2> QED
    BY <2>3 DEF MarkCells, Most, q, C, o, D
<1>6. ASSUME NEW at \in 0 .. window.cells[a] - 1, NEW n \in 1 .. 2,
             NEW d \in 0 .. D - 1, d \div C + o \in at .. at + n - 1
      PROVE  \E t \in TilesCovering(l, a, MarkCells(l, a, at, n)) : d \in Tile(l, a, t)
  BY <1>1, <1>2, <1>5, <1>6, Marked
<1> QED
  BY <1>1, <1>6 DEF Covered

(* A pixel drawn k times is drawn among the pixels it is scaled to.        *)
LEMMA DoubledReach ==
    ASSUME NEW k \in Nat \ {0}, NEW n \in Nat, NEW m \in Nat \ {0}, n = k * m,
           NEW d \in Nat, NEW q \in Nat, q * k <= d, d < q * k + k
    PROVE  (q * n) \div m <= d /\ d < CeilDiv((q + 1) * n, m)
<1>1. (q * n) \div m = q * k
  <2>1. q * n \in Nat /\ q * k \in Nat /\ q * n = (q * k) * m
    OBVIOUS
  <2>2. q * n < (q * k) * m + m
    BY <2>1
  <2> QED
    BY <2>1, <2>2, Quotient
<1>2. d * m < (q + 1) * n
  <2>1. (d + 1) * m <= (q * k + k) * m
    <3>1. q * k + k \in Nat /\ d + 1 <= q * k + k
      OBVIOUS
    <3> QED
      BY <3>1, Larger
  <2>2. (d + 1) * m = d * m + m /\ (q * k + k) * m = (q + 1) * n
    OBVIOUS
  <2>3. d * m \in Nat /\ (q + 1) * n \in Nat
    OBVIOUS
  <2> QED
    BY <2>1, <2>2, <2>3
<1> QED
  BY <1>1, <1>2, Ceiling

(* The pixel under the centre of one that was drawn k times.               *)
LEMMA UnderTheCentre ==
    ASSUME NEW k \in Nat \ {0}, NEW L \in Nat \ {0}, NEW d \in Nat
    PROVE  ((2 * d + 1) * L) \div (2 * (L * k)) = d \div k
<1> DEFINE q == d \div k
<1>1. q \in Nat /\ q * k <= d /\ d < q * k + k
  BY Dividing
<1> HIDE DEF q
<1> DEFINE E == q * k
<1>2. E \in Nat /\ 2 * E <= 2 * d + 1 /\ 2 * d + 2 <= 2 * E + 2 * k
  BY <1>1
<1>3. q * (2 * (L * k)) = (2 * E) * L /\ 2 * (L * k) = (2 * k) * L
  BY <1>1
<1> HIDE DEF E
<1>4. (2 * E) * L <= (2 * d + 1) * L /\ (2 * d + 2) * L <= (2 * E + 2 * k) * L
  BY <1>2, Larger
<1>5. /\ (2 * d + 2) * L = (2 * d + 1) * L + L
      /\ (2 * E + 2 * k) * L = (2 * E) * L + (2 * k) * L
      /\ (2 * d + 1) * L \in Nat /\ (2 * E) * L \in Nat /\ (2 * k) * L \in Nat \ {0}
  BY <1>2
<1>6. /\ q * (2 * (L * k)) <= (2 * d + 1) * L
      /\ (2 * d + 1) * L < q * (2 * (L * k)) + 2 * (L * k)
      /\ 2 * (L * k) \in Nat \ {0}
  BY <1>3, <1>4, <1>5
<1>7. ((2 * d + 1) * L) \div (2 * (L * k)) = q
  BY <1>1, <1>5, <1>6, Quotient
<1> QED
  BY <1>7 DEF q

(* A pixel of L shrunk to D, n to m, is drawn within three of the pixels   *)
(* it is scaled to when it is read from within three of the larger ones.   *)
LEMMA ShrunkReach ==
    ASSUME NEW L \in Nat \ {0}, NEW D \in Nat \ {0},
           NEW n \in Nat, NEW m \in Nat \ {0},
           \/ D = 1 /\ 2 * (L * n) < m
           \/ 2 * (D * m) <= 2 * (L * n) + m /\ 2 * (L * n) < 2 * (D * m) + m,
           NEW d \in Nat, d < D, NEW k \in Nat, k < L,
           (2 * k + 1) * D <= (2 * d + 1) * L + 6 * L,
           (2 * d + 1) * L <= (2 * k + 1) * D + 6 * L
    PROVE  (k * n) \div m - 3 <= d /\ d < CeilDiv((k + 1) * n, m) + 3
<1>1. /\ k * n \in Nat /\ (k + 1) * n \in Nat /\ L * n \in Nat
      /\ D * m \in Nat /\ k * D \in Nat /\ d * L \in Nat
  OBVIOUS
<1>2. (k * n) \div m \in Nat /\ ((k * n) \div m) * m <= k * n
  BY <1>1, Dividing
<1>3. CeilDiv((k + 1) * n, m) \in Nat
  BY <1>1, Ceiling
<1>4. CASE D = 1 /\ 2 * (L * n) < m
  <2>1. k * n <= L * n
    BY Larger
  <2>2. (k * n) \div m = 0
    BY <1>1, <1>4, <2>1, Quotient
  <2> QED
    BY <1>3, <1>4, <2>2
<1>5. CASE 2 * (D * m) <= 2 * (L * n) + m /\ 2 * (L * n) < 2 * (D * m) + m
  <2>1. (2 * k + 1) * D = 2 * (k * D) + D /\ (2 * d + 1) * L = 2 * (d * L) + L
    OBVIOUS
  <2>2. k * n < (d + 4) * m
    <3> DEFINE X == 2 * (k * D) + k
               Y == 2 * (d * L) + 8 * L
    <3>1. X \in Nat /\ Y \in Nat /\ X < Y
      BY <1>1, <2>1
    <3>2. X * m < Y * m
      <4> HIDE DEF X, Y
      <4>1. (X + 1) * m <= Y * m
        BY <3>1, Larger
      <4>2. (X + 1) * m = X * m + m /\ X * m \in Nat /\ Y * m \in Nat
        BY <3>1
      <4> QED
        BY <4>1, <4>2
    <3>3. (2 * (L * n)) * k <= (2 * (D * m) + m) * k
      BY <1>1, <1>5, Larger
    <3>4. (2 * (L * n)) * k = (k * n) * (2 * L) /\ (2 * (D * m) + m) * k = X * m
      BY <1>1
    <3>5. Y * m = ((d + 4) * m) * (2 * L)
      BY <1>1
    <3>6. (d + 4) * m \in Nat
      OBVIOUS
    <3>7. ~ ((d + 4) * m <= k * n)
      <4> SUFFICES ASSUME (d + 4) * m <= k * n PROVE FALSE
        OBVIOUS
      <4>1. ((d + 4) * m) * (2 * L) <= (k * n) * (2 * L)
        <5> DEFINE U == (d + 4) * m
                   V == k * n
        <5>1. U \in Nat /\ V \in Nat /\ U <= V /\ 2 * L \in Nat
          BY <1>1, <3>6
        <5> HIDE DEF U, V
        <5>2. U * (2 * L) <= V * (2 * L)
          BY <5>1, Larger
        <5> QED
          BY <5>2 DEF U, V
      <4>2. (k * n) * (2 * L) <= X * m /\ X * m < Y * m
        BY <3>2, <3>3, <3>4
      <4>3. /\ (k * n) * (2 * L) \in Nat /\ X * m \in Nat /\ Y * m \in Nat
        BY <1>1, <3>1
      <4> HIDE DEF X, Y
      <4> QED
        BY <3>5, <4>1, <4>2, <4>3
    <3> QED
      BY <1>1, <3>6, <3>7
  <2>3. (k * n) \div m < d + 4
    <3> DEFINE q == (k * n) \div m
    <3>1. q \in Nat /\ q * m <= k * n
      BY <1>2
    <3> HIDE DEF q
    <3>2. ~ (d + 4 <= q)
      <4> SUFFICES ASSUME d + 4 <= q PROVE FALSE
        OBVIOUS
      <4>1. (d + 4) * m <= q * m
        BY <3>1, Larger
      <4> QED
        BY <1>1, <2>2, <3>1, <4>1
    <3>3. q < d + 4
      BY <3>1, <3>2
    <3> QED
      BY <3>3 DEF q
  <2>4. ASSUME d >= 3 PROVE (d - 3) * m < (k + 1) * n
    <3> DEFINE e == d - 3
               X == 2 * (k * D) + 2 * D
               Y == 2 * (e * L) + k + 1
    <3>1. e \in Nat /\ d = e + 3 /\ d * L = e * L + 3 * L /\ e * L \in Nat
      BY <2>4
    <3>2. X \in Nat /\ Y \in Nat /\ Y < X
      BY <1>1, <2>1, <3>1
    <3> HIDE DEF e
    <3>3. Y * m < X * m
      <4> HIDE DEF X, Y
      <4>1. (Y + 1) * m <= X * m
        BY <3>2, Larger
      <4>2. (Y + 1) * m = Y * m + m /\ X * m \in Nat /\ Y * m \in Nat
        BY <3>2
      <4> QED
        BY <4>1, <4>2
    <3>4. (2 * (D * m)) * (k + 1) <= (2 * (L * n) + m) * (k + 1)
      BY <1>1, <1>5, Larger
    <3>5. /\ (2 * (D * m)) * (k + 1) = X * m
          /\ (2 * (L * n) + m) * (k + 1) = ((k + 1) * n) * (2 * L) + (k + 1) * m
          /\ Y * m = (e * m) * (2 * L) + (k + 1) * m
      BY <1>1, <3>1
    <3>6. /\ e * m \in Nat /\ (e * m) * (2 * L) \in Nat /\ (k + 1) * m \in Nat
          /\ ((k + 1) * n) * (2 * L) \in Nat /\ X * m \in Nat /\ Y * m \in Nat
      BY <1>1, <3>1, <3>2
    <3>7. (e * m) * (2 * L) < ((k + 1) * n) * (2 * L)
      <4> HIDE DEF X, Y
      <4> QED
        BY <3>3, <3>4, <3>5, <3>6
    <3>8. ~ ((k + 1) * n <= e * m)
      <4> SUFFICES ASSUME (k + 1) * n <= e * m PROVE FALSE
        OBVIOUS
      <4> DEFINE U == (k + 1) * n
                 V == e * m
      <4>1. U \in Nat /\ V \in Nat /\ U <= V /\ 2 * L \in Nat
        BY <1>1, <3>6
      <4>2. V * (2 * L) < U * (2 * L)
        BY <3>7
      <4> HIDE DEF U, V
      <4>3. U * (2 * L) <= V * (2 * L)
        BY <4>1, Larger
      <4> QED
        BY <4>1, <4>2, <4>3
    <3> QED
      BY <1>1, <3>6, <3>8 DEF e
  <2>5. ASSUME d >= 3 PROVE d - 3 < CeilDiv((k + 1) * n, m)
    BY <1>1, <2>4, <2>5, Ceiling
  <2> QED
    BY <1>2, <1>3, <2>3, <2>5
<1> QED
  BY <1>4, <1>5

LEMMA SrcToDstHas ==
    ASSUME NEW a \in Axes, NEW l, NEW at \in Nat, NEW L \in Nat,
           l.src[a].at = at, l.src[a].len = L,
           NEW k \in Nat, k < L, NEW d \in 0 .. l.dst[a] - 1,
           NEW pad, pad = IF NeedsScaling(l) THEN DstPadding(l) ELSE 0,
           (k * l.scale.num) \div l.scale.den - pad <= d,
           d < CeilDiv((k + 1) * l.scale.num, l.scale.den) + pad
    PROVE  d \in SrcToDst(l, a, at + k, 1)
<1> DEFINE s == at + k
           first == Most(s, l.src[a].at) - l.src[a].at
           past == Least(s + 1, l.src[a].at + l.src[a].len) - l.src[a].at
<1>1. first = k /\ past = k + 1
  BY DEF Most, Least
<1>2. k < k + 1
  OBVIOUS
<1> HIDE DEF first, past
<1>3. /\ first < past
      /\ (first * l.scale.num) \div l.scale.den - pad <= d
      /\ d < CeilDiv(past * l.scale.num, l.scale.den) + pad
  BY <1>1, <1>2
<1> QED
  BY <1>3 DEF SrcToDst, first, past

(* Where pixels are kept sharp, or shrunk, every pixel computed from a     *)
(* pixel of the remote is among those that one is scaled to.               *)
LEMMA ReadsReached ==
    ASSUME NEW w \in Windows, NEW m \in Modes, NEW r \in Remotes,
           NEW p \in [Axes -> Nat], NEW l, l = Compute(w, m, r, p),
           Nearest(l) \/ l.scale.num <= l.scale.den,
           NEW a \in Axes, NEW d \in 0 .. l.dst[a] - 1, NEW s \in Reads(l, a, d)
    PROVE  d \in SrcToDst(l, a, s, 1)
<1> DEFINE n == l.scale.num
           den == l.scale.den
           D == l.dst[a]
           L == l.src[a].len
           at == l.src[a].at
           k == s - at
           pad == IF NeedsScaling(l) THEN DstPadding(l) ELSE 0
<1>1. /\ n \in Nat /\ den \in Nat \ {0} /\ D \in Nat /\ at \in Nat /\ L \in Nat
      /\ D = Drawn(w, m, r, a) /\ l.src[a] = Visible(w, m, r, p, a)
      /\ l.scale = Scale(w, m, r)
  BY ComputeTypes, ScaleTypes, VisibleTypes
<1>2. d \in Nat /\ d < D
  BY <1>1
<1>3. s \in at .. at + L - 1
  BY DEF Reads
<1>4. k \in Nat /\ k < L /\ s = at + k
  BY <1>1, <1>3
<1>5. SUFFICES /\ (k * n) \div den - pad <= d
               /\ d < CeilDiv((k + 1) * n, den) + pad
  <2> HIDE DEF k, pad
  <2>1. d \in SrcToDst(l, a, at + k, 1)
    BY <1>1, <1>4, <1>5, SrcToDstHas DEF pad
  <2> QED
    BY <1>4, <2>1
<1>6. CASE ~ NeedsScaling(l)
  <2>1. n = 1 * den
    BY <1>1, <1>6, Unscaled
  <2>2. k = d
    BY <1>6 DEF Reads
  <2>3. pad = 0
    BY <1>6
  <2>4. 1 \in Nat \ {0} /\ k * 1 <= d /\ d < k * 1 + 1
    BY <1>2, <2>2
  <2> HIDE DEF n, den, k, pad
  <2>5. CeilDiv((k + 1) * n, den) \in Nat /\ (k * n) \div den \in Nat
    <3>1. (k + 1) * n \in Nat /\ k * n \in Nat
      BY <1>1, <1>4
    <3> QED
      BY <1>1, <3>1, Ceiling, Dividing
  <2>6. (k * n) \div den <= d /\ d < CeilDiv((k + 1) * n, den)
    BY <1>1, <1>2, <1>4, <2>1, <2>4, DoubledReach
  <2> QED
    BY <1>2, <2>3, <2>5, <2>6
<1>7. CASE NeedsScaling(l) /\ Nearest(l)
  <2>1. PICK j \in Nat \ {0} : n = j * den /\ D = L * j
    BY <1>7, Doubled
  <2>2. k = ((2 * d + 1) * L) \div (2 * D)
    BY <1>7 DEF Reads
  <2>3. pad = 1
    BY <1>7 DEF DstPadding
  <2> HIDE DEF n, den, D, L, k, pad, at
  <2>4. k = d \div j
    <3>1. L \in Nat \ {0}
      BY <1>1, <1>4
    <3> QED
      BY <1>2, <2>1, <2>2, <3>1, UnderTheCentre
  <2>5. k * j <= d /\ d < k * j + j
    BY <1>2, <2>1, <2>4, Dividing
  <2>6. (k * n) \div den <= d /\ d < CeilDiv((k + 1) * n, den)
    BY <1>1, <1>2, <1>4, <2>1, <2>5, DoubledReach
  <2>7. CeilDiv((k + 1) * n, den) \in Nat /\ (k * n) \div den \in Nat
    <3>1. (k + 1) * n \in Nat /\ k * n \in Nat
      BY <1>1, <1>4
    <3> QED
      BY <1>1, <3>1, Ceiling, Dividing
  <2> QED
    BY <1>2, <2>3, <2>6, <2>7
<1>8. CASE NeedsScaling(l) /\ ~ Nearest(l)
  <2>1. n < den
    <3>1. den % den = 0
      BY <1>1
    <3>2. n # den
      BY <1>1, <1>8, <3>1 DEF Nearest
    <3> QED
      BY <1>1, <1>8, <3>2
  <2>2. ~ OneToOne(m)
    <3>1. ASSUME OneToOne(m) PROVE n = 1 /\ den = 1
      BY <1>1, <3>1, ScaleChoice
    <3> QED
      BY <2>1, <3>1
  <2>3. at = 0 /\ L = r[a] /\ L \in Nat \ {0}
    BY <1>1, <1>4, <2>2, VisibleTypes
  <2>4. pad = 3
    BY <1>8 DEF DstPadding
  <2>5. \/ D = 1 /\ 2 * (L * n) < den
        \/ 2 * (D * den) <= 2 * (L * n) + den /\ 2 * (L * n) < 2 * (D * den) + den
    <3>1. D > 0
      BY <1>1, <1>2
    <3> QED
      BY <1>1, <2>2, <2>3, <3>1, Rounded
  <2>6. D <= L
    <3> HIDE DEF n, den, D, L
    <3>1. CASE D = 1
      BY <2>3, <3>1
    <3>2. CASE 2 * (D * den) <= 2 * (L * n) + den
      <4> SUFFICES ASSUME L + 1 <= D PROVE FALSE
        BY <1>1, <2>3
      <4>1. (L + 1) * den <= D * den /\ (L + 1) * den = L * den + den
        BY <1>1, Larger
      <4>2. n * L <= den * L
        BY <1>1, <2>1, Larger
      <4>3. L * den \in Nat /\ L * n \in Nat /\ D * den \in Nat
        BY <1>1
      <4> QED
        BY <1>1, <3>2, <4>1, <4>2, <4>3
    <3> QED
      BY <2>5, <3>1, <3>2
  <2>7. /\ (2 * k + 1) * D <= (2 * d + 1) * L + 6 * L
        /\ (2 * d + 1) * L <= (2 * k + 1) * D + 6 * L
    <3>1. Near(l, a, k, d, 6)
      BY <1>8 DEF Reads
    <3>2. (2 * k + 1) * D - (2 * d + 1) * L \in -(6 * Most(L, D)) .. 6 * Most(L, D)
      BY <3>1 DEF Near
    <3>3. Most(L, D) = L
      BY <1>1, <2>6 DEF Most
    <3> DEFINE U == (2 * k + 1) * D
               V == (2 * d + 1) * L
    <3> HIDE DEF D, L, k
    <3>4. U \in Nat /\ V \in Nat
      BY <1>1, <1>2, <1>4
    <3>5. U - V \in -(6 * L) .. 6 * L
      BY <3>2, <3>3
    <3> HIDE DEF U, V
    <3>6. U <= V + 6 * L /\ V <= U + 6 * L
      BY <1>1, <3>4, <3>5
    <3> QED
      BY <3>6 DEF U, V
  <2> HIDE DEF n, den, D, L, k, pad, at
  <2>8. D \in Nat \ {0}
    BY <1>1, <1>2
  <2>9. (k * n) \div den - 3 <= d /\ d < CeilDiv((k + 1) * n, den) + 3
    BY <1>1, <1>2, <1>4, <2>3, <2>5, <2>7, <2>8, ShrunkReach
  <2> QED
    BY <2>4, <2>9
<1> QED
  BY <1>6, <1>7, <1>8

(* Damage reaches every tile that shows what changed, however the scale    *)
(* rounds, and every tile under cells that were erased: for any windows    *)
(* and remotes, down to a terminal of one row, wherever the filter does    *)
(* not magnify (src_to_dst, mark_cells).                                   *)
THEOREM DamageArrives == LayoutSpec => []DamageReaches
<1>1. ASSUME LayoutTypeOK PROVE DamageReaches
  <2>1. PICK l : l = Now /\ l = Compute(window, mode, remote, pan)
    BY DEF Now
  <2>2. /\ window \in Windows /\ mode \in Modes /\ remote \in Remotes
        /\ pan \in [Axes -> Nat]
    BY <1>1 DEF LayoutTypeOK
  <2>3. ASSUME Nearest(l) \/ l.scale.num <= l.scale.den,
               NEW a \in Axes, NEW d \in 0 .. l.dst[a] - 1, NEW s \in Reads(l, a, d)
        PROVE  \E t \in TilesCovering(l, a, SrcToDst(l, a, s, 1)) : d \in Tile(l, a, t)
    <3>1. d \in SrcToDst(l, a, s, 1)
      BY <2>1, <2>2, <2>3, ReadsReached
    <3> QED
      BY <2>1, <2>2, <3>1, Marked
  <2>4. ASSUME Nearest(l) \/ l.scale.num <= l.scale.den, NEW a \in Axes
        PROVE  Reaches(l, a)
    BY <2>3, <2>4 DEF Reaches
  <2>5. \A a \in Axes : Covered(Now, a)
    BY <1>1, ErasedCovered
  <2> QED
    BY <2>1, <2>4, <2>5 DEF DamageReaches
<1> QED
  BY <1>1, LayoutInvariance, PTL

-----------------------------------------------------------------------------
(* Layout: clicks.                                                         *)

(* A click on one of D pixels that L are drawn with, n to m, names one     *)
(* whose centre is within three halves of the larger ones.                 *)
LEMMA NamedNear ==
    ASSUME NEW L \in Nat \ {0}, NEW D \in Nat \ {0},
           NEW n \in Nat \ {0}, NEW m \in Nat \ {0},
           \/ D = 1 /\ 2 * (L * n) < m
           \/ 2 * (D * m) <= 2 * (L * n) + m /\ 2 * (L * n) < 2 * (D * m) + m,
           NEW d \in Nat, d < D,
           NEW q \in Nat, q = Least((d * m) \div n, L - 1),
           NEW M \in Nat, M = Most(L, D)
    PROVE  /\ (2 * q + 1) * D <= (2 * d + 1) * L + 3 * M
           /\ (2 * d + 1) * L <= (2 * q + 1) * D + 3 * M
<1> DEFINE h == (d * m) \div n
<1>1. /\ d * m \in Nat /\ L * n \in Nat /\ D * m \in Nat
      /\ q * D \in Nat /\ d * L \in Nat /\ q * m \in Nat /\ q * n \in Nat
  OBVIOUS
<1>2. h \in Nat /\ h * n <= d * m /\ d * m < h * n + n
  BY <1>1, Dividing
<1>3. q <= L - 1 /\ q <= h /\ (q = L - 1 \/ q = h)
  BY <1>2 DEF Least
<1>4. L <= M /\ D <= M
  BY DEF Most
<1>5. /\ (2 * q + 1) * D = 2 * (q * D) + D /\ (2 * d + 1) * L = 2 * (d * L) + L
  OBVIOUS
<1> HIDE DEF h
<1>6. CASE D = 1 /\ 2 * (L * n) < m
  <2>1. d = 0
    BY <1>6
  <2>2. h = 0
    BY <1>2, <2>1
  <2>3. q = 0
    BY <1>2, <1>3, <2>2
  <2> QED
    BY <1>4, <1>6, <2>1, <2>3
<1>7. CASE 2 * (D * m) <= 2 * (L * n) + m /\ 2 * (L * n) < 2 * (D * m) + m
  <2>1. 2 * (q * D) <= 2 * (d * L) + q
    <3>1. (2 * (D * m)) * q <= (2 * (L * n) + m) * q
      BY <1>1, <1>7, Larger
    <3>2. q * n <= h * n
      BY <1>2, <1>3, Larger
    <3>3. (q * n) * (2 * L) <= (d * m) * (2 * L)
      <4>1. q * n <= d * m
        <5>1. h * n \in Nat
          BY <1>2
        <5> QED
          BY <1>1, <1>2, <3>2, <5>1
      <4> QED
        BY <1>1, <4>1, Larger
    <3>4. /\ (2 * (D * m)) * q = (2 * (q * D)) * m
          /\ (2 * (L * n) + m) * q = (q * n) * (2 * L) + q * m
          /\ (2 * (d * L) + q) * m = (d * m) * (2 * L) + q * m
      OBVIOUS
    <3> DEFINE U == 2 * (q * D)
               V == 2 * (d * L) + q
    <3>5. U \in Nat /\ V \in Nat /\ U * m \in Nat /\ V * m \in Nat
          /\ (q * n) * (2 * L) \in Nat /\ (d * m) * (2 * L) \in Nat
      BY <1>1
    <3>6. U * m <= V * m
      BY <1>1, <3>1, <3>3, <3>4, <3>5
    <3> HIDE DEF U, V
    <3>7. ~ (V + 1 <= U)
      <4> SUFFICES ASSUME V + 1 <= U PROVE FALSE
        OBVIOUS
      <4>1. (V + 1) * m <= U * m /\ (V + 1) * m = V * m + m
        BY <3>5, Larger
      <4> QED
        BY <3>5, <3>6, <4>1
    <3>8. U <= V
      BY <3>5, <3>7
    <3> QED
      BY <3>8 DEF U, V
  <2>2. CASE q = L - 1
    <3>1. d * L <= (D - 1) * L
      <4>1. D - 1 \in Nat /\ d <= D - 1
        OBVIOUS
      <4> QED
        BY <4>1, Larger
    <3> DEFINE P == D * L
               U == q * D
               V == d * L
    <3>2. P \in Nat /\ (D - 1) * L = P - L
      OBVIOUS
    <3>3. U = P - D
      <4>1. (q + 1) * D = q * D + D /\ L * D = D * L
        OBVIOUS
      <4>2. q + 1 = L
        BY <2>2
      <4> QED
        BY <1>1, <3>2, <4>1, <4>2
    <3>4. U \in Nat /\ V \in Nat /\ V <= P - L /\ 2 * U <= 2 * V + q
      BY <1>1, <2>1, <3>1, <3>2
    <3>5. (2 * q + 1) * D = 2 * U + D /\ (2 * d + 1) * L = 2 * V + L
      BY <1>5
    <3> HIDE DEF P, U, V
    <3>6. 2 * U + D <= 2 * V + L + 3 * M /\ 2 * V + L <= 2 * U + D + 3 * M
      BY <1>3, <1>4, <3>2, <3>3, <3>4
    <3> QED
      BY <3>5, <3>6
  <2>3. CASE q = h
    <3>1. 2 * (d * L) < 2 * (q * D) + 2 * D + q + 1
      <4>1. (2 * (L * n)) * (q + 1) <= (2 * (D * m) + m) * (q + 1)
        BY <1>1, <1>7, Larger
      <4>2. d * m + 1 <= (q + 1) * n
        <5>1. (q + 1) * n = q * n + n
          OBVIOUS
        <5> QED
          BY <1>1, <1>2, <2>3, <5>1
      <4>3. (d * m + 1) * (2 * L) <= ((q + 1) * n) * (2 * L)
        <5>1. d * m + 1 \in Nat /\ (q + 1) * n \in Nat /\ 2 * L \in Nat
          BY <1>1
        <5> QED
          BY <4>2, <5>1, Larger
      <4>4. /\ (2 * (L * n)) * (q + 1) = ((q + 1) * n) * (2 * L)
            /\ (d * m + 1) * (2 * L) = (2 * (d * L)) * m + 2 * L
            /\ (2 * (D * m) + m) * (q + 1) = (2 * (q * D) + 2 * D + q + 1) * m
        OBVIOUS
      <4> DEFINE U == 2 * (d * L)
                 V == 2 * (q * D) + 2 * D + q + 1
      <4>5. U \in Nat /\ V \in Nat /\ U * m \in Nat /\ V * m \in Nat
            /\ ((q + 1) * n) * (2 * L) \in Nat
        BY <1>1
      <4>6. U * m < V * m
        BY <4>1, <4>3, <4>4, <4>5
      <4> HIDE DEF U, V
      <4>7. ~ (V <= U)
        <5> SUFFICES ASSUME V <= U PROVE FALSE
          OBVIOUS
        <5>1. V * m <= U * m
          BY <4>5, Larger
        <5> QED
          BY <4>5, <4>6, <5>1
      <4>8. U < V
        BY <4>5, <4>7
      <4> QED
        BY <4>8 DEF U, V
    <3> QED
      BY <1>1, <1>3, <1>4, <1>5, <2>1, <3>1
  <2> QED
    BY <1>3, <2>2, <2>3
<1> QED
  BY <1>6, <1>7

(* The pixel a click names, counted from the first that is visible.        *)
LEMMA Named ==
    ASSUME NEW a \in Axes, NEW l, NEW t,
           NEW d, d = TerminalToDst(l, a, t),
           NEW at \in Nat, at = l.src[a].at, NEW L \in Nat \ {0}, L = l.src[a].len,
           NEW h \in Nat, h = (d * l.scale.den) \div l.scale.num
    PROVE  TerminalToSrc(l, a, t) = at + Least(h, L - 1)
BY DEF TerminalToSrc, Least

LEMMA SharpClick ==
    ASSUME NEW w \in Windows, NEW m \in Modes, NEW r \in Remotes,
           NEW p \in [Axes -> Nat], NEW l, l = Compute(w, m, r, p), Nearest(l),
           NEW a \in Axes, NEW k \in Nat \ {0},
           l.scale.num = k * l.scale.den, l.dst[a] = l.src[a].len * k,
           NEW t, NEW d \in 0 .. l.dst[a] - 1, d = TerminalToDst(l, a, t)
    PROVE  /\ d \div k \in 0 .. l.src[a].len - 1
           /\ TerminalToSrc(l, a, t) = l.src[a].at + d \div k
           /\ TerminalToSrc(l, a, t) \in Reads(l, a, d)
<1> DEFINE n == l.scale.num
           den == l.scale.den
           D == l.dst[a]
           L == l.src[a].len
           at == l.src[a].at
           q == d \div k
<1>1. /\ n \in Nat /\ den \in Nat \ {0} /\ D \in Nat /\ at \in Nat /\ L \in Nat
      /\ n = k * den /\ D = L * k
  BY ComputeTypes, ScaleTypes, VisibleTypes
<1>2. d \in Nat /\ d < D
  BY <1>1
<1>3. q \in Nat /\ q * k <= d /\ d < q * k + k
  BY <1>2, Dividing
<1>4. q < L /\ L \in Nat \ {0}
  <2> HIDE DEF q, D, L
  <2>1. ~ (L <= q)
    <3> SUFFICES ASSUME L <= q PROVE FALSE
      OBVIOUS
    <3>1. L * k <= q * k
      BY <1>1, <1>3, Larger
    <3> QED
      BY <1>1, <1>2, <1>3, <3>1
  <2> QED
    BY <1>1, <1>3, <2>1
<1>5. (d * den) \div n = q
  <2> HIDE DEF q, D, L, n, den, at
  <2>1. q * n = (q * k) * den /\ n = k * den /\ n \in Nat \ {0}
    BY <1>1, <1>3
  <2>2. (q * k) * den <= d * den
    BY <1>1, <1>2, <1>3, Larger
  <2>3. d * den < (q * k + k) * den
    <3>1. (d + 1) * den <= (q * k + k) * den
      <4>1. q * k + k \in Nat /\ d + 1 <= q * k + k
        BY <1>2, <1>3
      <4> QED
        BY <1>1, <1>2, <4>1, Larger
    <3>2. (d + 1) * den = d * den + den /\ d * den \in Nat /\ (q * k + k) * den \in Nat
      BY <1>1, <1>2, <1>3
    <3> QED
      BY <1>1, <3>1, <3>2
  <2>4. (q * k + k) * den = q * n + n
    BY <1>1, <1>3
  <2>5. d * den \in Nat /\ q * n <= d * den /\ d * den < q * n + n
    BY <1>1, <1>2, <2>1, <2>2, <2>3, <2>4
  <2> QED
    BY <1>3, <2>1, <2>5, Quotient
<1>6. TerminalToSrc(l, a, t) = at + q
  <2> HIDE DEF q
  <2>1. TerminalToSrc(l, a, t) = at + Least(q, L - 1)
    BY <1>1, <1>3, <1>4, <1>5, Named
  <2>2. Least(q, L - 1) = q
    <3> HIDE DEF L
    <3> QED
      BY <1>3, <1>4 DEF Least
  <2> QED
    BY <2>1, <2>2
<1>7. at + q \in Reads(l, a, d)
  <2>1. /\ at + q \in at .. at + L - 1 /\ (at + q) - at = q
    <3> HIDE DEF q, L, at
    <3> QED
      BY <1>1, <1>3, <1>4
  <2>2. CASE ~ NeedsScaling(l)
    <3>1. n = den
      BY <2>2, Unscaled
    <3>2. k = 1
      <4> HIDE DEF n, den
      <4> QED
        BY <1>1, <3>1
    <3>3. q = d
      <4> HIDE DEF q
      <4> QED
        BY <1>2, <1>3, <3>2
    <3> QED
      BY <2>1, <2>2, <3>3 DEF Reads
  <2>3. CASE NeedsScaling(l)
    <3>1. ((2 * d + 1) * L) \div (2 * D) = q
      <4> HIDE DEF D, L
      <4> QED
        BY <1>1, <1>2, <1>4, UnderTheCentre
    <3> HIDE DEF q
    <3> QED
      BY <2>1, <2>3, <3>1 DEF Reads
  <2> QED
    BY <2>2, <2>3
<1> QED
  BY <1>3, <1>4, <1>6, <1>7

LEMMA BlendedClick ==
    ASSUME NEW w \in Windows, NEW m \in Modes, NEW r \in Remotes,
           NEW p \in [Axes -> Nat], NEW l, l = Compute(w, m, r, p), ~ Nearest(l),
           \A b \in Axes : Area(w, b) > 0, NEW a \in Axes,
           NEW t, NEW d \in 0 .. l.dst[a] - 1, d = TerminalToDst(l, a, t)
    PROVE  Near(l, a, TerminalToSrc(l, a, t) - l.src[a].at, d, 3)
<1> DEFINE n == l.scale.num
           den == l.scale.den
           D == l.dst[a]
           L == l.src[a].len
           at == l.src[a].at
           h == (d * den) \div n
           q == Least(h, L - 1)
           M == Most(L, D)
<1>1. /\ n \in Nat /\ den \in Nat \ {0} /\ D \in Nat
      /\ D = Drawn(w, m, r, a) /\ l.src[a] = Visible(w, m, r, p, a)
      /\ l.scale = Scale(w, m, r)
  BY ComputeTypes, ScaleTypes
<1>2. d \in Nat /\ d < D /\ D \in Nat \ {0}
  BY <1>1
<1>3. ~ OneToOne(m)
  <2> SUFFICES ASSUME OneToOne(m) PROVE FALSE
    OBVIOUS
  <2>1. n = 1 /\ den = 1
    BY <1>1, ScaleChoice
  <2>2. 1 % 1 = 0
    OBVIOUS
  <2> QED
    BY <2>1, <2>2 DEF Nearest
<1>4. at = 0 /\ L = r[a] /\ L \in Nat \ {0}
  BY <1>1, <1>3, VisibleTypes, ScaleTypes
<1>5. n > 0
  <2>1. CASE l.scale = Fit(w, r)
    <3>1. PICK b \in Axes : Fit(w, r) = [num |-> Area(w, b), den |-> r[b]]
      BY FitFits
    <3> QED
      BY <2>1, <3>1
  <2>2. CASE l.scale # Fit(w, r)
    <3>1. n \in Nat \ {0}
      BY <1>1, <1>3, <2>2, ScaleChoice
    <3> QED
      BY <3>1
  <2> QED
    BY <2>1, <2>2
<1>6. \/ D = 1 /\ 2 * (L * n) < den
      \/ 2 * (D * den) <= 2 * (L * n) + den /\ 2 * (L * n) < 2 * (D * den) + den
  <2>1. D > 0
    BY <1>2
  <2> QED
    BY <1>1, <1>3, <1>4, <2>1, Rounded
<1> HIDE DEF n, den, D, L, at
<1>7. h \in Nat
  <2>1. d * den \in Nat /\ n \in Nat \ {0}
    BY <1>1, <1>2, <1>5
  <2> QED
    BY <2>1, Dividing
<1>8. TerminalToSrc(l, a, t) = at + q
  <2>1. h = (d * l.scale.den) \div l.scale.num /\ at = l.src[a].at /\ L = l.src[a].len
    BY DEF n, den, at, L
  <2> HIDE DEF h
  <2> QED
    BY <1>4, <1>7, <2>1, Named
<1>9. q \in Nat /\ M \in Nat
  <2> HIDE DEF h
  <2> QED
    BY <1>2, <1>4, <1>7 DEF Least, Most
<1>10. /\ (2 * q + 1) * D <= (2 * d + 1) * L + 3 * M
       /\ (2 * d + 1) * L <= (2 * q + 1) * D + 3 * M
  <2>1. /\ L \in Nat \ {0} /\ D \in Nat \ {0}
        /\ n \in Nat \ {0} /\ den \in Nat \ {0}
        /\ d \in Nat /\ d < D /\ q \in Nat /\ M \in Nat
    BY <1>1, <1>2, <1>4, <1>5, <1>9
  <2>2. q = Least((d * den) \div n, L - 1) /\ M = Most(L, D)
    OBVIOUS
  <2> HIDE DEF h, q, M
  <2> QED
    BY <1>6, <2>1, <2>2, NamedNear
<1>11. (2 * q + 1) * D - (2 * d + 1) * L \in -(3 * M) .. 3 * M
  <2> DEFINE U == (2 * q + 1) * D
             V == (2 * d + 1) * L
  <2> HIDE DEF q, M
  <2>1. U \in Nat /\ V \in Nat /\ U <= V + 3 * M /\ V <= U + 3 * M
    BY <1>2, <1>4, <1>9, <1>10
  <2> HIDE DEF U, V
  <2>2. U - V \in -(3 * M) .. 3 * M
    BY <1>9, <2>1
  <2> QED
    BY <2>2 DEF U, V
<1>12. TerminalToSrc(l, a, t) - l.src[a].at = q
  <2> HIDE DEF q
  <2>1. (at + q) - at = q
    BY <1>4, <1>9
  <2> QED
    BY <1>8, <2>1 DEF at
<1> HIDE DEF q
<1> QED
  BY <1>11, <1>12 DEF Near, M, D, L

(* A click names the pixel that is drawn under it, or where pixels are     *)
(* blended one a pixel and a half off at most; and whatever is shown sharp *)
(* can be clicked on, pixel by pixel: for any windows and remotes and      *)
(* however far it is panned, where there is room to scale to               *)
(* (terminal_px_to_src).                                                   *)
THEOREM ClicksLand == LayoutSpec => [](RoomToScale => ClickLands)
<1>1. ASSUME LayoutTypeOK, RoomToScale PROVE ClickLands
  <2>1. PICK l : l = Now /\ l = Compute(window, mode, remote, pan)
    BY DEF Now
  <2>2. /\ window \in Windows /\ mode \in Modes /\ remote \in Remotes
        /\ pan \in [Axes -> Nat]
    BY <1>1 DEF LayoutTypeOK
  <2>3. ASSUME NEW a \in Axes, ~ Nearest(l) PROVE \A b \in Axes : Area(window, b) > 0
    <3>1. CASE OneToOne(mode)
      <4>1. l.scale = [num |-> 1, den |-> 1]
        BY <2>1, <2>2, <3>1, ScaleChoice DEF Compute
      <4>2. 1 % 1 = 0
        OBVIOUS
      <4> QED
        BY <2>3, <4>1, <4>2 DEF Nearest
    <3> QED
      BY <1>1, <3>1 DEF RoomToScale
  <2> SUFFICES ASSUME NEW a \in Axes
               PROVE  LET hits == {t \in 0 .. Area(window, a) - 1 : OnImage(l, a, t)}
                          Hit(t) == TerminalToSrc(l, a, t)
                      IN  /\ \A t \in hits :
                              IF Nearest(l)
                                THEN Hit(t) \in Reads(l, a, TerminalToDst(l, a, t))
                                ELSE Near(l, a, Hit(t) - l.src[a].at,
                                          TerminalToDst(l, a, t), 3)
                          /\ Nearest(l) =>
                              {Hit(t) : t \in hits} =
                                  l.src[a].at .. l.src[a].at + l.src[a].len - 1
    BY <2>1 DEF ClickLands
  <2> DEFINE hits == {t \in 0 .. Area(window, a) - 1 : OnImage(l, a, t)}
             Hit(t) == TerminalToSrc(l, a, t)
             at == l.src[a].at
             L == l.src[a].len
  <2>4. ASSUME NEW t \in hits PROVE TerminalToDst(l, a, t) \in 0 .. l.dst[a] - 1
    BY DEF OnImage
  <2>5. ASSUME ~ Nearest(l), NEW t \in hits
        PROVE  Near(l, a, Hit(t) - l.src[a].at, TerminalToDst(l, a, t), 3)
    BY <2>1, <2>2, <2>3, <2>4, <2>5, BlendedClick
  <2>6. ASSUME Nearest(l)
        PROVE  /\ \A t \in hits : Hit(t) \in Reads(l, a, TerminalToDst(l, a, t))
               /\ {Hit(t) : t \in hits} = at .. at + L - 1
    <3>1. PICK k \in Nat \ {0} : /\ l.scale.num = k * l.scale.den
                                 /\ \A b \in Axes : l.dst[b] = l.src[b].len * k
      BY <2>1, <2>2, <2>6, Doubled
    <3>2. ASSUME NEW t, NEW d \in 0 .. l.dst[a] - 1, d = TerminalToDst(l, a, t)
          PROVE  /\ d \div k \in 0 .. L - 1 /\ Hit(t) = at + d \div k
                 /\ Hit(t) \in Reads(l, a, d)
      BY <2>1, <2>2, <2>6, <3>1, <3>2, SharpClick
    <3>3. at \in Nat /\ L \in Nat
      BY <2>1, <2>2, VisibleTypes, ComputeTypes
    <3>4. ASSUME NEW t \in hits
          PROVE  /\ Hit(t) \in Reads(l, a, TerminalToDst(l, a, t))
                 /\ Hit(t) \in at .. at + L - 1
      <4>1. PICK d \in 0 .. l.dst[a] - 1 : d = TerminalToDst(l, a, t)
        BY <2>4
      <4>2. /\ d \div k \in 0 .. L - 1 /\ Hit(t) = at + d \div k
            /\ Hit(t) \in Reads(l, a, d)
        BY <3>2, <4>1
      <4> HIDE DEF Hit, at, L
      <4> QED
        BY <3>3, <4>1, <4>2
    <3>5. ASSUME NEW s \in at .. at + L - 1 PROVE \E t \in hits : s = Hit(t)
      <4> DEFINE q == s - at
                 d == q * k
                 C == l.cell[a]
                 o == l.origin[a]
                 D == l.dst[a]
                 A == Area(window, a)
                 t == o * C + d
      <4>1. q \in Nat /\ q < L /\ s = at + q
        <5> HIDE DEF at, L
        <5> QED
          BY <3>3
      <4>2. /\ D \in Nat /\ D <= A /\ A \in Nat /\ C \in Nat \ {0}
            /\ o = (A - D) \div (2 * C) /\ D = L * k
        BY <2>1, <2>2, <3>1, ComputeTypes
      <4> HIDE DEF q, C, o, D, A, L, at
      <4>3. o \in Nat /\ o * C + D <= A /\ o * C \in Nat
        <5>1. o \in Nat /\ o * C + D <= A
          BY <4>2, Centred
        <5> QED
          BY <4>2, <5>1
      <4>4. d \in Nat /\ d < D
        <5>1. (q + 1) * k <= L * k
          BY <3>3, <4>1, Larger
        <5>2. (q + 1) * k = q * k + k /\ q * k \in Nat
          BY <4>1
        <5> QED
          BY <4>2, <5>1, <5>2
      <4>5. d \div k = q
        <5>1. d \in Nat /\ q * k <= d /\ d < q * k + k
          BY <4>1, <4>4
        <5> QED
          BY <4>1, <5>1, Quotient
      <4> HIDE DEF d
      <4>6. t \in 0 .. A - 1 /\ t - o * C = d /\ d \in 0 .. D - 1
        <5> DEFINE e == o * C
        <5>1. e \in Nat /\ e + D <= A
          BY <4>3
        <5> HIDE DEF e
        <5>2. e + d \in 0 .. A - 1 /\ (e + d) - e = d /\ d \in 0 .. D - 1
          BY <4>2, <4>4, <5>1
        <5> QED
          BY <5>2 DEF e
      <4>7. TerminalToDst(l, a, t) = d
        BY <4>6 DEF TerminalToDst, o, C
      <4> HIDE DEF t
      <4>8. t \in hits
        BY <4>6, <4>7 DEF OnImage, A, D
      <4>9. Hit(t) = at + d \div k
        BY <3>2, <4>6, <4>7 DEF D
      <4> QED
        BY <4>1, <4>5, <4>8, <4>9
    <3>6. {Hit(t) : t \in hits} = at .. at + L - 1
      <4> HIDE DEF Hit, hits, at, L
      <4> QED
        BY <3>4, <3>5
    <3> QED
      BY <3>4, <3>6
  <2> QED
    BY <2>5, <2>6
<1> QED
  BY <1>1, LayoutInvariance, PTL
=============================================================================
