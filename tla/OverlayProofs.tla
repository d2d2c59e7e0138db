--------------------------- MODULE OverlayProofs ---------------------------
(***************************************************************************)
(* For any windows, notes, shapes of the pointer, watched cells and any    *)
(* number of refused frames: chrome is right about the screen, pointer and *)
(* light follow the hand, and no hole stays.  Where the menu and the popup *)
(* go is opaque to all but the light: whatever is drawn, the difference is *)
(* the right one.                                                          *)
(***************************************************************************)
EXTENDS Overlay, TLAPS

Commands == {"menu", "note"} \cup Range(Modes)

(* What the variables hold.  Letters are whatever the plane has.           *)
UIOK == ui \in [menu : BOOLEAN, hover : Hovers, mode : Range(Modes),
                note : {NoNote} \cup [text : Notes, old : BOOLEAN], cross : BOOLEAN]
PointerOK == pointer \in [at : Watched \cup {Nowhere}, shape : Shapes \cup {NoShape},
                          sent : BOOLEAN, placed : Watched \cup {Nowhere}, owing : BOOLEAN]
ChromeOK ==
    /\ chrome = [area |-> chrome.area, shown |-> chrome.shown, placed |-> chrome.placed]
    /\ chrome.area \in Windows \cup {NoWindow}
    /\ chrome.placed \subseteq Images
ScreenOK ==
    /\ screen = [takes |-> screen.takes, text |-> screen.text, images |-> screen.images,
                 data |-> screen.data, pointer |-> screen.pointer, holes |-> screen.holes]
    /\ DOMAIN screen.text = Cells[terminal] /\ DOMAIN screen.images = Images
    /\ screen.holes \subseteq Cells[terminal]
Types ==
    /\ terminal \in Windows /\ metrics \in Windows
    /\ UIOK /\ PointerOK /\ ChromeOK /\ ScreenOK
    /\ lost \subseteq {"erase", "data", "pointer", "hover"} \cup Images

(* Letters: chrome has them right once it has drawn for this window; before *)
(* the first frame there are none.                                         *)
Letters ==
    /\ ("erase" \notin lost /\ terminal = chrome.area) =>
          \A c \in Cells[terminal] : screen.text[c] = chrome.shown[c]
    /\ chrome.area = NoWindow => \A c \in Cells[terminal] : screen.text[c] = "blank"

(* Images: chrome has those right that it did not forget, in any window.   *)
Overlays == \A i \in Images \ lost : screen.images[i] # NoBox <=> i \in chrome.placed

(* Holes: none but where a tile is owed; before the first frame everything *)
(* is a hole, and everything the session knows of is owed.                 *)
Tiled ==
    /\ ("erase" \notin lost /\ terminal = chrome.area) => screen.holes \subseteq owed
    /\ chrome.area = NoWindow =>
          owed = Cells[metrics] /\ screen.holes = Cells[terminal]

(* The pointer: what the renderer takes to be sent and placed is, and when *)
(* it owes nothing that is where the pointer belongs.  A window chrome has *)
(* not drawn for yet has the pointer owed and unplaced: an erase takes no  *)
(* pointer away that nobody would put back.                                *)
Placed ==
    /\ lost \cap {"data", "pointer"} = {} => screen.pointer = pointer.placed
    /\ (pointer.sent /\ "data" \notin lost) => screen.data = pointer.shape
    /\ ~pointer.owing => pointer.placed = PointerCell
    /\ (~pointer.owing /\ PointerCell # Nowhere) => pointer.sent
    /\ chrome.area \notin {NoWindow, metrics} =>
          pointer.owing /\ pointer.placed = Nowhere

(* A cross is in the same corner whatever the note says, and it is there   *)
(* that the pointer is while it is lit, a note with room or none.  A menu  *)
(* that is shut has nothing lit, in whatever window.                       *)
Corner(w) == <<w.cols - MarginX - PadX - Button, MarginY + PadY>>
Lit ==
    /\ ("hover" \notin lost /\ ui.cross) => ui.note # NoNote /\ pointer.at = Corner(metrics)
    /\ ("hover" \notin lost /\ ui.hover # NoHover) =>
          ui.menu /\ ui.hover = Hit(metrics, pointer.at)
    /\ ~ui.menu => ui.hover = NoHover

OInv == Types /\ Letters /\ Overlays /\ Tiled /\ Placed /\ Lit

-----------------------------------------------------------------------------
(* The data the steps read.                                                *)
LEMMA WindowsAndCells ==
    /\ NoWindow \notin Windows
    /\ Nowhere \notin Watched
    /\ \A w \in Windows : Cells[w] \subseteq Watched /\ OnImage(w, ui.mode) \subseteq Watched
  BY WindowsAssumption, CellsAssumption DEF NoWindow, Nowhere, Cells, OnImage

LEMMA ModesKnown == Modes[1] \in Range(Modes)
  BY DEF Modes, Range

LEMMA HitIn == \A w, c : Hit(w, c) \in Hovers
  <1> SUFFICES ASSUME NEW w, NEW c PROVE Hit(w, c) \in Hovers
    OBVIOUS
  <1> DEFINE area == MenuArea[w]
             index == c[2] - (area.y + PadY) + 1
             commands == CommandsAt(Entries[index], c[1] - (area.x + PadX))
  <1>1. CASE c \notin Inside(area) \/ index \notin DOMAIN Entries
    BY <1>1 DEF Hit, Hovers
  <1>2. CASE index \in DOMAIN Entries /\ c \in Inside(area)
    <2>1. commands \subseteq Commands
      <3> HIDE DEF index
      <3>1. index \in 1 .. 3
        BY <1>2 DEF Entries
      <3>2. Entries[index].kind \in {"title", "item", "choice"}
        BY <3>1 DEF Entries
      <3>3. QED
        BY <3>2 DEF CommandsAt, Commands, Range
    <2>2. CASE commands = {}
      BY <1>2, <2>2 DEF Hit, Hovers
    <2>3. CASE commands # {}
      <3>1. (CHOOSE k \in commands : TRUE) \in commands
        BY <2>3
      <3>2. Hit(w, c) = [index |-> index, command |-> CHOOSE k \in commands : TRUE]
        BY <1>2, <2>3 DEF Hit
      <3>3. QED
        BY <1>2, <2>1, <3>1, <3>2 DEF Hovers, Commands
    <2>4. QED
      BY <2>2, <2>3
  <1>3. QED
    BY <1>1, <1>2

LEMMA LongestNote == Max(Notes) \in Notes
  BY NotesAssumption DEF Max

(* The cross is where it is whatever the message says, if there is room.   *)
LEMMA LesserOfTwo ==
    ASSUME NEW m \in Int, NEW n \in Int
    PROVE  Min({m, n}) = IF m <= n THEN m ELSE n
  <1>1. \E x \in {m, n} : \A y \in {m, n} : x <= y
    OBVIOUS
  <1>2. Min({m, n}) \in {m, n} /\ \A y \in {m, n} : Min({m, n}) <= y
    BY <1>1 DEF Min
  <1>3. QED
    BY <1>2

LEMMA CrossInCorner ==
    ASSUME NEW w \in Windows, NEW u \in Notes, ToastArea[w][u] # NoBox
    PROVE  CloseAt(ToastArea[w][u]) = Corner(w)
  <1> DEFINE width == Min({u + Beside, w.cols - MarginX * 2})
  <1>1. w.cols \in Nat /\ w.rows \in Nat
    BY WindowsAssumption
  <1>2. width \in Int
    <2>1. u \in Int /\ u + Beside \in Int /\ w.cols - MarginX * 2 \in Int
      BY <1>1, NotesAssumption DEF Beside, Gap, Button, PadX, MarginX
    <2>2. QED
      BY <2>1, LesserOfTwo
  <1>3. ToastArea[w][u] = Box(w.cols - MarginX - width, MarginY, width, 1 + PadY * 2)
    BY DEF ToastArea
  <1>4. QED
    BY <1>1, <1>2, <1>3 DEF CloseAt, Corner, Box, MarginX, MarginY, PadX, PadY, Button


(* A press or a move is on the cross only in the corner, with a note up.   *)
LEMMA OnCloseInCorner ==
    ASSUME UIOK, metrics \in Windows, NEW c, OnClose(metrics, ui.note, c)
    PROVE  ui.note # NoNote /\ c = Corner(metrics)
  <1>1. ui.note # NoNote /\ ui.note.text \in Notes
    BY DEF OnClose, UIOK
  <1>2. QED
    BY <1>1, CrossInCorner DEF OnClose

LEMMA LitIsLit == ASSUME UIOK, metrics \in Windows, Lit PROVE LitIsPointedAt
  <1> SUFFICES ASSUME "hover" \notin lost, ui.cross, ui.note # NoNote,
                      ToastArea[metrics][ui.note.text] # NoBox
               PROVE  OnClose(metrics, ui.note, pointer.at)
    BY DEF Lit, LitIsPointedAt
  <1>1. ui.note.text \in Notes
    BY DEF UIOK
  <1>2. QED
    BY <1>1, CrossInCorner DEF Lit, OnClose

-----------------------------------------------------------------------------
LEMMA InitOInv == Init => OInv
  <1> SUFFICES ASSUME Init PROVE OInv
    OBVIOUS
  <1>1. terminal \in Windows /\ metrics = terminal /\ lost = {}
    BY DEF Init
  <1>2. UIOK
    BY ModesKnown DEF Init, UIOK, Hovers
  <1>3. PointerOK
    BY DEF Init, PointerOK
  <1>4. ChromeOK /\ chrome.area = NoWindow /\ chrome.placed = {}
    BY DEF Init, ChromeOK
  <1>5. /\ screen.text = BlankText(terminal) /\ screen.images = NothingPlaced
        /\ screen.holes = Cells[terminal] /\ screen.pointer = Nowhere
        /\ screen = [takes |-> screen.takes, text |-> screen.text, images |-> screen.images,
                     data |-> screen.data, pointer |-> screen.pointer, holes |-> screen.holes]
    BY DEF Init
  <1>6. ScreenOK
    BY <1>5 DEF ScreenOK, BlankText, NothingPlaced
  <1>7. Types
    BY <1>1, <1>2, <1>3, <1>4, <1>6 DEF Types
  <1>8. Letters
    BY <1>1, <1>4, <1>5, WindowsAndCells DEF Letters, BlankText
  <1>9. Overlays
    BY <1>4, <1>5 DEF Overlays, NothingPlaced
  <1>10. Tiled
    BY <1>1, <1>4, <1>5, WindowsAndCells DEF Tiled, Init
  <1>11. Placed
    BY <1>1, <1>4, <1>5 DEF Placed, Init, PointerCell, CellOf
  <1>12. Lit
    BY DEF Lit, Init
  <1>13. QED
    BY <1>7, <1>8, <1>9, <1>10, <1>11, <1>12 DEF OInv

-----------------------------------------------------------------------------
(* What the user and the server do touches nothing that is on the screen.  *)
LEMMA Aside ==
    ASSUME OInv, UNCHANGED <<terminal, metrics, chrome, owed, screen>>,
           UIOK', PointerOK',
           lost' \subseteq lost \cup {"pointer", "hover"}, lost \ {"hover"} \subseteq lost',
           Placed', Lit'
    PROVE  OInv'
  <1>1. Types'
    BY DEF OInv, Types, ChromeOK, ScreenOK
  <1>2. Letters' /\ Tiled'
    BY DEF OInv, Letters, Tiled
  <1>3. Overlays'
    BY DEF OInv, Overlays, Images
  <1>4. QED
    BY <1>1, <1>2, <1>3 DEF OInv

(* The pointer's image belongs where it did unless it is owed or shapeless. *)
LEMMA WhereItBelongs ==
    ASSUME OInv
    PROVE  PointerCell = IF pointer.shape \in {NoShape, Invisible} THEN Nowhere
                         ELSE OnPicture(pointer.at)
  BY DEF PointerCell, CellOf, OnPicture

LEMMA MoveKeeps == ASSUME OInv, NEW c \in Spots, PointerMoves(c) PROVE OInv'
  <1> DEFINE onClose == OnClose(metrics, ui.note, c)
  <1>1. /\ UNCHANGED <<terminal, metrics, chrome, owed, screen>>
        /\ pointer' = Moved(c) /\ lost' = lost \ {"hover"}
        /\ ui' = [ui EXCEPT !.cross = onClose,
                            !.hover = IF ~ui.menu THEN @
                                      ELSE IF onClose THEN NoHover ELSE Hit(metrics, c)]
    BY DEF PointerMoves
  <1>2. UIOK /\ PointerOK /\ metrics \in Windows
    BY DEF OInv, Types
  <1>3. UIOK' /\ ui'.note = ui.note /\ ui'.menu = ui.menu /\ ui'.mode = ui.mode
    BY <1>1, <1>2, HitIn DEF UIOK, Hovers, OnClose
  <1>4. PointerOK'
    BY <1>1, <1>2, CellsAssumption DEF PointerOK, Moved
  <1>5. /\ pointer'.shape = pointer.shape /\ pointer'.sent = pointer.sent
        /\ pointer'.placed = pointer.placed /\ pointer'.at = c
        /\ pointer'.owing = (pointer.owing \/ OnPicture(pointer.at) # OnPicture(c))
    BY <1>1, <1>2 DEF PointerOK, Moved
  <1>6. ~pointer'.owing => ~pointer.owing /\ PointerCell' = PointerCell
    <2>1. PointerCell' = IF pointer.shape \in {NoShape, Invisible} THEN Nowhere
                         ELSE OnPicture(c)
      BY <1>1, <1>3, <1>5 DEF PointerCell, CellOf, OnPicture
    <2>2. QED
      BY <1>5, <2>1, WhereItBelongs
  <1>7. Placed'
    BY <1>1, <1>5, <1>6 DEF OInv, Placed
  <1>8. Lit'
    <2>1. ui'.cross = onClose
      BY <1>1, <1>2 DEF UIOK
    <2>2. ui'.hover = IF ~ui.menu THEN ui.hover ELSE IF onClose THEN NoHover ELSE Hit(metrics, c)
      BY <1>1, <1>2 DEF UIOK
    <2>3. onClose => ui.note # NoNote /\ c = Corner(metrics)
      BY <1>2, OnCloseInCorner
    <2>4. QED
      BY <1>1, <1>3, <1>5, <2>1, <2>2, <2>3 DEF OInv, Lit
  <1>9. QED
    BY <1>1, <1>3, <1>4, <1>7, <1>8, Aside

(* A layout, or a mode: the pointer is owed and its place forgotten.       *)
LEMMA Unplacing ==
    ASSUME OInv, pointer' = Unplaced, UNCHANGED <<chrome, screen>>,
           lost \cup Stranded \subseteq lost'
    PROVE  Placed' /\ PointerOK' /\ pointer'.at = pointer.at
  <1>1. PointerOK
    BY DEF OInv, Types
  <1>2. /\ pointer'.shape = pointer.shape /\ pointer'.sent = pointer.sent
        /\ pointer'.placed = Nowhere /\ pointer'.at = pointer.at /\ pointer'.owing
        /\ PointerOK'
    BY <1>1 DEF PointerOK, Unplaced
  <1>3. QED
    BY <1>2 DEF OInv, Placed, Stranded

(* A command, of a key or of the menu.                                     *)
LEMMA RunKeeps ==
    ASSUME OInv, NEW u, NEW command \in Commands, Run(u, command),
           u = [ui EXCEPT !.cross = u.cross], u.cross \in BOOLEAN,
           "hover" \notin lost /\ u.cross => ui.note # NoNote /\ pointer.at = Corner(metrics),
           UNCHANGED <<terminal, metrics, chrome, owed, screen>>
    PROVE  OInv'
  <1>1. UIOK /\ PointerOK
    BY DEF OInv, Types
  <1>2. /\ u \in [menu : BOOLEAN, hover : Hovers, mode : Range(Modes),
                  note : {NoNote} \cup [text : Notes, old : BOOLEAN], cross : BOOLEAN]
        /\ u.menu = ui.menu /\ u.hover = ui.hover /\ u.mode = ui.mode /\ u.note = ui.note
    BY <1>1 DEF UIOK
  <1>3. [text |-> Max(Notes), old |-> FALSE] \in [text : Notes, old : BOOLEAN] \ {NoNote}
    BY LongestNote, NotesAssumption DEF NoNote
  <1>4. NoHover \in Hovers
    BY DEF Hovers
  <1>5. CASE command = "menu"
    <2>1. /\ pointer' = pointer /\ lost' = lost
          /\ ui' = IF u.menu THEN [[u EXCEPT !.menu = FALSE] EXCEPT !.hover = NoHover]
                   ELSE [u EXCEPT !.menu = TRUE]
      <3>1. command \notin Range(Modes)
        BY <1>5 DEF Range, Modes
      <3>2. QED
        BY <1>2, <1>5, <3>1 DEF Run, DismissMenu
    <2>2. /\ UIOK' /\ ui'.note = ui.note /\ ui'.mode = ui.mode /\ ui'.cross = u.cross
          /\ ui'.menu = ~ui.menu /\ ui'.hover = IF ui.menu THEN NoHover ELSE ui.hover
      BY <1>2, <1>4, <2>1 DEF UIOK
    <2>3. Lit'
      BY <2>1, <2>2 DEF OInv, Lit
    <2>4. Placed' /\ PointerOK'
      BY <1>1, <2>1, <2>2 DEF OInv, Placed, PointerOK, PointerCell, CellOf
    <2>5. QED
      BY <2>1, <2>2, <2>3, <2>4, Aside
  <1>6. CASE command # "menu"
    <2>1. /\ UIOK' /\ ui'.note # NoNote /\ ui'.cross = u.cross
          /\ ui'.menu = ui.menu /\ ui'.hover = ui.hover
          /\ ui'.mode # ui.mode => command \in Range(Modes)
      <3>1. CASE command = "note"
        <4>1. ui' = [u EXCEPT !.note = [text |-> Max(Notes), old |-> FALSE]]
          BY <3>1 DEF Run, Say
        <4>2. QED
          BY <1>2, <1>3, <4>1 DEF UIOK
      <3>2. CASE command \in Range(Modes) /\ command # "note"
        <4>1. ui' = [[u EXCEPT !.mode = command] EXCEPT !.note = [text |-> Max(Notes), old |-> FALSE]]
          BY <1>6, <3>2 DEF Run, Say
        <4>2. QED
          BY <1>2, <1>3, <3>2, <4>1 DEF UIOK
      <3>3. QED
        BY <1>6, <3>1, <3>2 DEF Commands
    <2>2. /\ lost \subseteq lost' /\ lost' \subseteq lost \cup {"pointer"}
          /\ pointer'.at = pointer.at /\ PointerOK' /\ Placed'
      <3>1. CASE command \in Range(Modes)
        <4>1. pointer' = Unplaced /\ lost' = lost \cup Stranded
          BY <3>1 DEF Run
        <4>2. QED
          BY <4>1, Unplacing DEF Stranded
      <3>2. CASE command \notin Range(Modes)
        <4>1. pointer' = pointer /\ lost' = lost
          BY <3>2 DEF Run
        <4>2. QED
          BY <1>1, <2>1, <3>2, <4>1 DEF OInv, Placed, PointerOK, PointerCell, CellOf
      <3>3. QED
        BY <3>1, <3>2
    <2>3. Lit'
      BY <2>1, <2>2 DEF OInv, Lit
    <2>4. QED
      BY <2>1, <2>2, <2>3, Aside
  <1>7. QED
    BY <1>5, <1>6

LEMMA PressKeeps == ASSUME OInv, Press PROVE OInv'
  <1> DEFINE onClose == OnClose(metrics, ui.note, pointer.at)
             u == [ui EXCEPT !.cross = onClose]
             hit == Hit(metrics, pointer.at)
  <1>1. UIOK /\ PointerOK /\ metrics \in Windows
    BY DEF OInv, Types
  <1>2. UNCHANGED <<terminal, metrics, chrome, owed, screen>>
    BY DEF Press
  <1>3. onClose \in BOOLEAN /\ u.cross = onClose
    BY <1>1 DEF OnClose, UIOK
  <1>4. CASE onClose /\ ui' = Dismissed(u) /\ UNCHANGED <<pointer, lost>>
    <2>1. /\ UIOK' /\ ui'.note = NoNote /\ ui'.mode = ui.mode /\ ui'.cross = FALSE
          /\ ui'.menu = ui.menu /\ ui'.hover = ui.hover
      BY <1>1, <1>4 DEF UIOK, Dismissed
    <2>2. Lit' /\ Placed' /\ PointerOK'
      BY <1>1, <1>2, <1>4, <2>1 DEF OInv, Lit, Placed, PointerOK, PointerCell, CellOf
    <2>3. QED
      BY <1>2, <1>4, <2>1, <2>2, Aside
  <1>5. CASE ~onClose /\ ui.menu /\ hit # NoHover /\ Run(u, hit.command)
    <2>1. hit.command \in Commands
      BY <1>5, HitIn DEF Hovers, Commands
    <2>2. u = [ui EXCEPT !.cross = u.cross] /\ u.cross \in BOOLEAN /\ ~u.cross
      BY <1>3, <1>5
    <2> HIDE DEF u, hit
    <2>3. QED
      BY <1>2, <1>5, <2>1, <2>2, RunKeeps
  <1>6. QED
    BY <1>4, <1>5 DEF Press

LEMMA KeyKeeps == ASSUME OInv, NEW k \in {"menu"} \cup Range(Modes), Key(k) PROVE OInv'
  <1>1. ui = [ui EXCEPT !.cross = ui.cross] /\ ui.cross \in BOOLEAN
    BY DEF OInv, Types, UIOK
  <1>2. "hover" \notin lost /\ ui.cross => ui.note # NoNote /\ pointer.at = Corner(metrics)
    BY DEF OInv, Lit
  <1>3. k \in Commands /\ Run(ui, k) /\ UNCHANGED <<terminal, metrics, chrome, owed, screen>>
    BY DEF Key, Commands
  <1>4. QED
    BY <1>1, <1>2, <1>3, RunKeeps

LEMMA NoteKeeps ==
    ASSUME OInv, NoteAges \/ \E text \in Notes : SetNote(text)
    PROVE  OInv'
  <1>1. UIOK /\ PointerOK
    BY DEF OInv, Types
  <1>2. UNCHANGED <<terminal, metrics, pointer, chrome, owed, screen, lost>>
    BY DEF NoteAges, SetNote
  <1>3. /\ UIOK' /\ ui'.note # NoNote /\ ui'.mode = ui.mode /\ ui'.cross = ui.cross
        /\ ui'.menu = ui.menu /\ ui'.hover = ui.hover
    <2>1. CASE NoteAges
      <3>1. ui.note \in [text : Notes, old : BOOLEAN]
        BY <1>1, <2>1 DEF NoteAges, UIOK
      <3>2. ui' = [ui EXCEPT !.note = [ui.note EXCEPT !.old = TRUE]]
        BY <2>1 DEF NoteAges
      <3>3. [ui.note EXCEPT !.old = TRUE] \in [text : Notes, old : BOOLEAN] \ {NoNote}
        BY <3>1 DEF NoNote
      <3>4. QED
        BY <1>1, <3>2, <3>3 DEF UIOK
    <2>2. CASE \E text \in Notes : SetNote(text)
      <3>1. PICK text \in Notes : ui' = [ui EXCEPT !.note = [text |-> text, old |-> FALSE]]
        BY <2>2 DEF SetNote, Say
      <3>2. [text |-> text, old |-> FALSE] \in [text : Notes, old : BOOLEAN] \ {NoNote}
        BY NotesAssumption DEF NoNote
      <3>3. QED
        BY <1>1, <3>1, <3>2 DEF UIOK
    <2>3. QED
      BY <2>1, <2>2
  <1>4. Lit' /\ Placed' /\ PointerOK'
    BY <1>1, <1>2, <1>3 DEF OInv, Lit, Placed, PointerOK, PointerCell, CellOf
  <1>5. QED
    BY <1>2, <1>3, <1>4, Aside

LEMMA CursorKeeps == ASSUME OInv, NEW s \in Shapes, SetCursor(s) PROVE OInv'
  <1>1. UIOK /\ PointerOK
    BY DEF OInv, Types
  <1>2. UNCHANGED <<terminal, metrics, ui, chrome, owed, screen, lost>>
    BY DEF SetCursor
  <1>3. /\ pointer'.shape = s /\ pointer'.sent = FALSE /\ pointer'.owing = TRUE
        /\ pointer'.placed = pointer.placed /\ pointer'.at = pointer.at /\ PointerOK'
    BY <1>1 DEF SetCursor, PointerOK
  <1>4. Lit' /\ Placed' /\ UIOK'
    BY <1>1, <1>2, <1>3 DEF OInv, Lit, Placed, UIOK
  <1>5. QED
    BY <1>2, <1>3, <1>4, Aside

-----------------------------------------------------------------------------
(* The window changes: what is on it is not what chrome drew for another,  *)
(* and where the shape is an old one the erase has been lost.              *)
LEMMA WindowKeeps == ASSUME OInv, NEW w \in Windows, WindowChanges(w) PROVE OInv'
  <1>1. UIOK /\ PointerOK /\ ChromeOK /\ ScreenOK
    BY DEF OInv, Types
  <1>2. PICK rest \in IF chrome.area = NoWindow THEN {"blank"} ELSE {"blank", "name"} :
          screen' = [screen EXCEPT
             !.text = [c \in Cells[w] |-> IF rest = "blank" /\ c \in Cells[terminal]
                                          THEN screen.text[c] ELSE rest],
             !.holes = (screen.holes \cap Cells[w]) \cup (Cells[w] \ Cells[terminal])]
    BY DEF WindowChanges
  <1>3. /\ w # terminal /\ terminal' = w
        /\ lost' = lost \cup (IF w = chrome.area THEN {"erase"} ELSE {})
        /\ UNCHANGED <<metrics, ui, pointer, chrome, owed>>
    BY DEF WindowChanges
  <1>4. /\ screen'.text = [c \in Cells[w] |-> IF rest = "blank" /\ c \in Cells[terminal]
                                              THEN screen.text[c] ELSE rest]
        /\ screen'.holes = (screen.holes \cap Cells[w]) \cup (Cells[w] \ Cells[terminal])
        /\ screen'.images = screen.images /\ screen'.data = screen.data
        /\ screen'.pointer = screen.pointer /\ screen'.takes = screen.takes
        /\ screen' = [takes |-> screen'.takes, text |-> screen'.text, images |-> screen'.images,
                      data |-> screen'.data, pointer |-> screen'.pointer, holes |-> screen'.holes]
    BY <1>1, <1>2 DEF ScreenOK
  <1>5. Types'
    BY <1>1, <1>3, <1>4 DEF OInv, Types, UIOK, PointerOK, ChromeOK, ScreenOK
  <1>6. Letters'
    BY <1>3, <1>4 DEF OInv, Letters
  <1>7. Overlays'
    BY <1>3, <1>4 DEF OInv, Overlays, Images
  <1>8. Tiled'
    BY <1>3, <1>4 DEF OInv, Tiled
  <1>9. Placed'
    BY <1>3, <1>4 DEF OInv, Placed, PointerCell, CellOf
  <1>10. Lit'
    BY <1>3 DEF OInv, Lit
  <1>11. QED
    BY <1>5, <1>6, <1>7, <1>8, <1>9, <1>10 DEF OInv

LEMMA RelayoutKeeps == ASSUME OInv, Relayout PROVE OInv'
  <1>1. UIOK /\ PointerOK /\ ChromeOK /\ ScreenOK
    BY DEF OInv, Types
  <1>2. /\ metrics' = terminal /\ pointer' = Unplaced
        /\ lost' = lost \cup Stranded \cup {"hover"}
        /\ owed' = Cells[terminal] \cap (owed \cup (Cells[terminal] \ Cells[metrics]))
        /\ UNCHANGED <<terminal, ui, chrome, screen>>
    BY DEF Relayout
  <1>3. Placed' /\ PointerOK'
    BY <1>2, Unplacing
  <1>4. Types'
    BY <1>1, <1>2, <1>3 DEF OInv, Types, UIOK, ChromeOK, ScreenOK, Stranded
  <1>5. Letters' /\ Overlays'
    BY <1>2 DEF OInv, Letters, Overlays, Images
  <1>6. Tiled'
    BY <1>1, <1>2 DEF OInv, Tiled, ScreenOK
  <1>7. Lit'
    BY <1>2 DEF OInv, Lit
  <1>8. QED
    BY <1>3, <1>4, <1>5, <1>6, <1>7 DEF OInv

-----------------------------------------------------------------------------
(* A frame.  What is drawn in it is opaque: plane and wanted are anything. *)
LEMMA BegunFrame ==
    ASSUME OInv
    PROVE  /\ Begun.area = metrics /\ Begun.placed \subseteq chrome.placed
           /\ Begun = [area |-> Begun.area, shown |-> Begun.shown, placed |-> Begun.placed]
           /\ chrome.area = metrics => Begun = chrome
           /\ chrome.area # metrics =>
                 Begun.placed = {} /\ \A c \in Cells[metrics] : Begun.shown[c] = "blank"
           /\ metrics # NoWindow
  <1>1. ChromeOK /\ metrics \in Windows
    BY DEF OInv, Types
  <1>2. QED
    BY <1>1, WindowsAndCells DEF Begun, ChromeOK, BlankText

LEMMA FramePointer ==
    ASSUME OInv
    PROVE  /\ Composed \in [at : Watched \cup {Nowhere}, shape : Shapes \cup {NoShape},
                            sent : BOOLEAN, placed : Watched \cup {Nowhere}, owing : BOOLEAN]
           /\ Composed.at = pointer.at /\ Composed.shape = pointer.shape
           /\ Composed.owing = FALSE /\ Composed.placed = PointerCell
           /\ Composed.sent = (pointer.sent \/ (pointer.owing /\ PointerCell # Nowhere))
           /\ PointerCell # Nowhere => Composed.sent /\ pointer.shape # NoShape
  <1>1. PointerOK
    BY DEF OInv, Types
  <1>2. PointerCell \in Watched \cup {Nowhere}
    BY <1>1 DEF PointerOK, PointerCell, CellOf
  <1>3. /\ Composed.at = pointer.at /\ Composed.shape = pointer.shape
        /\ Composed.owing = FALSE
        /\ Composed.placed = IF pointer.owing THEN PointerCell ELSE pointer.placed
        /\ Composed.sent = (pointer.sent \/ (pointer.owing /\ PointerCell # Nowhere))
        /\ Composed \in [at : Watched \cup {Nowhere}, shape : Shapes \cup {NoShape},
                         sent : BOOLEAN, placed : Watched \cup {Nowhere}, owing : BOOLEAN]
    BY <1>1, <1>2 DEF PointerOK, Composed
  <1>4. ~pointer.owing => pointer.placed = PointerCell
    BY DEF OInv, Placed
  <1>5. PointerCell # Nowhere => Composed.sent /\ pointer.shape # NoShape
    BY <1>3 DEF OInv, Placed, PointerCell, CellOf
  <1>6. QED
    BY <1>3, <1>4, <1>5

(* The frame is shown.                                                     *)
LEMMA ShownKeeps ==
    ASSUME OInv, NEW plane, NEW wanted, Taken(Begun, plane, wanted),
           pointer' = Composed, UNCHANGED <<terminal, metrics>>,
           UIOK', ui'.mode = ui.mode
    PROVE  Types' /\ Letters' /\ Overlays' /\ Tiled' /\ Placed'
  <1> DEFINE begun == Begun
             taken == Resized /\ screen.takes
             erased == IF Resized THEN BlankText(terminal) ELSE screen.text
             written == [c \in Cells[terminal] |->
                           IF c \in Cells[metrics] /\ begun.shown[c] # plane[c] THEN plane[c]
                           ELSE erased[c]]
             bare == IF taken THEN Cells[terminal]
                     ELSE screen.holes \cup {c \in Cells[terminal] :
                            written[c] \in Unwritten /\ erased[c] \notin Unwritten}
             data == IF Transmits THEN pointer.shape ELSE screen.data
  <1>1. PointerOK /\ ChromeOK /\ ScreenOK /\ metrics # NoWindow
    BY BegunFrame DEF OInv, Types
  <1>2. chrome' = [area |-> metrics, shown |-> plane, placed |-> Ids(wanted)] /\ owed' = {}
    BY DEF Taken
  <1>3. screen' = OnScreen(Begun, plane, wanted)
        /\ lost' = (lost \ Healed(Begun, wanted)) \cup Forgotten(Begun, wanted)
    BY DEF Taken
  <1>4. /\ screen'.text = written
        /\ screen'.images = [i \in Images |-> IF wanted[i] # NoBox THEN wanted[i]
                               ELSE IF taken \/ i \in begun.placed THEN NoBox
                               ELSE screen.images[i]]
        /\ screen'.data = data
        /\ screen'.pointer = (IF Transmits \/ (Replaces /\ data # NoShape) THEN PointerCell
                              ELSE IF Hides \/ taken THEN Nowhere ELSE screen.pointer)
        /\ screen'.holes = bare \ (owed \cup Vacated(begun, plane) \cup ReplacedAll)
        /\ screen' = [takes |-> screen'.takes, text |-> screen'.text, images |-> screen'.images,
                      data |-> screen'.data, pointer |-> screen'.pointer, holes |-> screen'.holes]
    BY <1>3 DEF OnScreen
  <1>5. Forgotten(Begun, wanted) \subseteq Images /\ Ids(wanted) \subseteq Images
    BY <1>1 DEF Forgotten, ChromeOK, Ids
  <1>6. bare \subseteq Cells[terminal]
    BY <1>1 DEF ScreenOK
  <1>7. Types'
    <2>1. ScreenOK'
      <3> HIDE DEF bare, written, taken, data
      <3>1. DOMAIN written = Cells[terminal]
        BY DEF written
      <3>2. DOMAIN screen'.images = Images
        BY <1>4
      <3>3. QED
        BY <1>4, <1>6, <3>1, <3>2 DEF ScreenOK
    <2>2. ChromeOK' /\ PointerOK'
      BY <1>2, <1>5, FramePointer DEF ChromeOK, PointerOK, OInv, Types
    <2>3. lost' \subseteq {"erase", "data", "pointer", "hover"} \cup Images
      BY <1>3, <1>5 DEF OInv, Types
    <2>4. QED
      BY <2>1, <2>2, <2>3 DEF OInv, Types
  <1>8. \* whether it was erased or drawn on, chrome's picture was the screen's
        (terminal = metrics /\ "erase" \notin lost')
          => \A c \in Cells[terminal] : erased[c] = begun.shown[c]
    <2> SUFFICES ASSUME terminal = metrics, "erase" \notin lost', NEW c \in Cells[terminal]
                 PROVE  erased[c] = begun.shown[c]
      OBVIOUS
    <2>1. CASE Resized
      BY <2>1, BegunFrame DEF Resized, BlankText
    <2>2. CASE chrome.area = NoWindow
      BY <2>2, <1>1, BegunFrame DEF OInv, Letters, Resized
    <2>3. CASE chrome.area = metrics
      <3>1. "erase" \notin lost
        BY <1>3, <2>3 DEF Healed, Resized, Ids, Images
      <3>2. QED
        BY <2>3, <3>1, BegunFrame DEF OInv, Letters, Resized
    <2>4. QED
      BY <2>1, <2>2, <2>3 DEF Resized
  <1>9. Letters'
    <2>1. (terminal = metrics /\ "erase" \notin lost')
             => \A c \in Cells[terminal] : written[c] = plane[c]
      BY <1>8
    <2>2. QED
      BY <1>1, <1>2, <1>4, <2>1 DEF Letters
  <1>10. Overlays'
    <2> SUFFICES ASSUME NEW i \in Images, i \notin lost'
                 PROVE  screen'.images[i] # NoBox <=> i \in Ids(wanted)
      BY <1>2 DEF Overlays
    <2>1. CASE wanted[i] # NoBox
      BY <2>1, <1>4 DEF Ids
    <2>2. CASE wanted[i] = NoBox /\ (taken \/ i \in begun.placed)
      BY <2>2, <1>4 DEF Ids
    <2>3. CASE wanted[i] = NoBox /\ ~taken /\ i \notin begun.placed
      <3>1. i \notin lost /\ i \notin Forgotten(Begun, wanted)
        BY <1>3, <2>3 DEF Healed, Ids, Images
      <3>2. i \notin chrome.placed
        BY <2>3, <3>1 DEF Forgotten, Ids
      <3>3. screen.images[i] = NoBox
        BY <3>1, <3>2 DEF OInv, Overlays
      <3>4. QED
        BY <1>4, <2>3, <3>3 DEF Ids
    <2>4. QED
      BY <2>1, <2>2, <2>3
  <1>11. Tiled'
    <2> SUFFICES ASSUME terminal = metrics, "erase" \notin lost' PROVE screen'.holes = {}
      BY <1>1, <1>2 DEF Tiled
    <2>1. CASE Resized
      BY <1>4, <1>6, <2>1 DEF ReplacedAll
    <2>2. CASE ~Resized
      <3>1. screen.holes \subseteq owed
        <4>1. CASE chrome.area = NoWindow
          BY <4>1 DEF OInv, Tiled
        <4>2. CASE chrome.area = metrics
          <5>1. "erase" \notin lost
            BY <1>3, <4>2 DEF Healed, Resized, Ids, Images
          <5>2. QED
            BY <4>2, <5>1 DEF OInv, Tiled
        <4>3. QED
          BY <2>2, <4>1, <4>2 DEF Resized
      <3>2. ASSUME NEW c \in Cells[terminal], written[c] \in Unwritten, erased[c] \notin Unwritten
            PROVE  c \in Vacated(begun, plane)
        BY <1>8, <3>2 DEF Vacated
      <3>3. QED
        BY <1>4, <2>2, <3>1, <3>2
    <2>3. QED
      BY <2>1, <2>2
  <1>12. Placed'
    <2>1. /\ pointer'.placed = PointerCell /\ pointer'.owing = FALSE
          /\ pointer'.shape = pointer.shape /\ pointer'.at = pointer.at
          /\ pointer'.sent = (pointer.sent \/ (pointer.owing /\ PointerCell # Nowhere))
          /\ PointerCell # Nowhere => pointer'.sent /\ pointer.shape # NoShape
          /\ PointerCell' = PointerCell
      BY FramePointer DEF PointerCell, CellOf
    <2>2. pointer'.sent /\ "data" \notin lost' => screen'.data = pointer.shape
      <3>1. CASE Transmits
        BY <1>4, <3>1
      <3>2. CASE ~Transmits
        <4>1. pointer'.sent => pointer.sent
          BY <2>1, <3>2 DEF Transmits, OInv, Types, PointerOK
        <4>2. "data" \notin lost' => "data" \notin lost
          BY <1>3, <3>2 DEF Healed, Ids, Images
        <4>3. QED
          BY <1>4, <3>2, <4>1, <4>2 DEF OInv, Placed
      <3>3. QED
        BY <3>1, <3>2
    <2>3. lost' \cap {"data", "pointer"} = {} => screen'.pointer = PointerCell
      <3> SUFFICES ASSUME "data" \notin lost', "pointer" \notin lost'
                   PROVE  screen'.pointer = PointerCell
        OBVIOUS
      <3>1. CASE Transmits
        BY <1>4, <3>1
      <3>2. CASE ~Transmits /\ Replaces
        <4>1. data # NoShape
          BY <1>4, <2>1, <2>2, <3>2 DEF Replaces
        <4>2. QED
          BY <1>4, <3>2, <4>1
      <3>3. CASE Hides
        BY <1>4, <3>3 DEF Hides, Transmits, Replaces
      <3>4. CASE ~Transmits /\ ~Replaces /\ ~Hides
        <4>1. "data" \notin lost /\ "pointer" \notin lost
          BY <1>3, <3>4 DEF Healed, Ids, Images
        <4>2. screen.pointer = pointer.placed
          BY <4>1 DEF OInv, Placed
        <4>3. pointer.placed = PointerCell
          BY <3>4 DEF Transmits, Replaces, Hides, OInv, Types, PointerOK, Placed
        <4>4. taken => PointerCell = Nowhere
          BY <4>3 DEF OInv, Placed, Resized
        <4>5. QED
          BY <1>4, <3>4, <4>2, <4>3, <4>4
      <3>5. QED
        BY <3>1, <3>2, <3>3, <3>4
    <2>4. QED
      BY <1>2, <2>1, <2>2, <2>3 DEF Placed
  <1>13. QED
    BY <1>7, <1>9, <1>10, <1>11, <1>12

(* The frame is refused: chrome has begun, the pointer is counted as sent. *)
LEMMA RefusedKeeps ==
    ASSUME OInv, NEW plane, NEW wanted, Refused(Begun, plane, wanted),
           pointer' = Composed, UNCHANGED <<terminal, metrics>>,
           UIOK', ui'.mode = ui.mode
    PROVE  Types' /\ Letters' /\ Overlays' /\ Tiled' /\ Placed'
  <1>1. PointerOK /\ ChromeOK /\ ScreenOK
    BY DEF OInv, Types
  <1>2. /\ chrome' = Begun /\ owed' = owed \cup Vacated(Begun, plane) /\ screen' = screen
        /\ lost' = lost \cup (IF Resized THEN {"erase"} ELSE {})
                    \cup (IF Transmits THEN {"data"} ELSE {})
                    \cup (IF Transmits \/ Replaces \/ Hides THEN {"pointer"} ELSE {})
                    \cup (chrome.placed \ Begun.placed)
    BY DEF Refused
  <1>3. Types'
    <2>1. ChromeOK' /\ ScreenOK' /\ PointerOK'
      BY <1>1, <1>2, BegunFrame, FramePointer DEF ChromeOK, ScreenOK, PointerOK, OInv, Types
    <2>2. lost' \subseteq {"erase", "data", "pointer", "hover"} \cup Images
      BY <1>1, <1>2 DEF OInv, Types, ChromeOK
    <2>3. QED
      BY <2>1, <2>2 DEF OInv, Types
  <1>4. Letters' /\ Tiled'
    <2>1. CASE Resized
      <3>1. "erase" \in lost' /\ chrome'.area # NoWindow
        BY <1>2, <2>1, BegunFrame
      <3>2. QED
        BY <3>1 DEF Letters, Tiled
    <2>2. CASE ~Resized /\ chrome.area = NoWindow
      BY <1>2, <2>2, BegunFrame DEF OInv, Letters, Tiled
    <2>3. CASE ~Resized /\ chrome.area = metrics
      BY <1>2, <2>3, BegunFrame DEF OInv, Letters, Tiled
    <2>4. QED
      BY <2>1, <2>2, <2>3 DEF Resized
  <1>5. Overlays'
    BY <1>2, BegunFrame DEF OInv, Overlays
  <1>6. Placed'
    <2>1. /\ pointer'.placed = PointerCell /\ pointer'.owing = FALSE
          /\ pointer'.shape = pointer.shape /\ pointer'.at = pointer.at
          /\ pointer'.sent = (pointer.sent \/ (pointer.owing /\ PointerCell # Nowhere))
          /\ PointerCell # Nowhere => pointer'.sent
          /\ PointerCell' = PointerCell
      BY FramePointer DEF PointerCell, CellOf
    <2>2. pointer'.sent /\ "data" \notin lost' => screen.data = pointer.shape
      BY <1>2, <2>1 DEF OInv, Types, PointerOK, Placed, Transmits
    <2>3. lost' \cap {"data", "pointer"} = {} => screen.pointer = PointerCell
      <3> SUFFICES ASSUME "data" \notin lost', "pointer" \notin lost'
                   PROVE  screen.pointer = PointerCell
        OBVIOUS
      <3>1. ~Transmits /\ ~Replaces /\ ~Hides /\ "data" \notin lost /\ "pointer" \notin lost
        BY <1>2
      <3>2. pointer.placed = PointerCell
        BY <3>1 DEF Transmits, Replaces, Hides, OInv, Types, PointerOK, Placed
      <3>3. QED
        BY <3>1, <3>2 DEF OInv, Placed
    <2>4. chrome'.area = metrics
      BY <1>2, BegunFrame
    <2>5. QED
      BY <1>2, <2>1, <2>2, <2>3, <2>4 DEF Placed
  <1>7. QED
    BY <1>3, <1>4, <1>5, <1>6

LEMMA DrawKeeps == ASSUME OInv, Draw PROVE OInv'
  <1> DEFINE u == IF ui.note # NoNote /\ ui.note.old THEN Dismissed(ui) ELSE ui
  <1>1. UIOK
    BY DEF OInv, Types
  <1>2. /\ ui' = u /\ pointer' = Composed /\ UNCHANGED <<terminal, metrics>>
        /\ Taken(Begun, Plane(u), Wanted(u)) \/ Refused(Begun, Plane(u), Wanted(u))
    BY DEF Draw
  <1>3. /\ UIOK' /\ ui'.mode = ui.mode /\ ui'.menu = ui.menu /\ ui'.hover = ui.hover
        /\ ui'.cross => ui.cross /\ ui'.note = ui.note
    BY <1>1, <1>2 DEF UIOK, Dismissed
  <1> HIDE DEF u
  <1>4. Types' /\ Letters' /\ Overlays' /\ Tiled' /\ Placed'
    BY <1>2, <1>3, ShownKeeps, RefusedKeeps
  <1>5. "hover" \notin lost' => "hover" \notin lost
    BY <1>2 DEF Taken, Refused, Healed, Ids, Images
  <1>6. pointer'.at = pointer.at
    BY <1>2, FramePointer
  <1>7. Lit'
    BY <1>2, <1>3, <1>5, <1>6 DEF OInv, Lit
  <1>8. QED
    BY <1>4, <1>7 DEF OInv

-----------------------------------------------------------------------------
LEMMA NextOInv == OInv /\ [Next]_vars => OInv'
  <1> SUFFICES ASSUME OInv, [Next]_vars PROVE OInv'
    OBVIOUS
  <1>1. CASE UNCHANGED vars
    BY <1>1 DEF vars, OInv, Types, UIOK, PointerOK, ChromeOK, ScreenOK, Letters, Overlays,
                Tiled, Placed, Lit, PointerCell, CellOf
  <1>2. CASE Next
    <2>1. CASE \E c \in Spots : PointerMoves(c)
      BY <2>1, MoveKeeps
    <2>2. CASE NoteAges \/ \E t \in Notes : SetNote(t)
      BY <2>2, NoteKeeps
    <2>3. CASE Press
      BY <2>3, PressKeeps
    <2>4. CASE \E k \in {"menu"} \cup Range(Modes) : Key(k)
      BY <2>4, KeyKeeps
    <2>5. CASE \E s \in Shapes : SetCursor(s)
      BY <2>5, CursorKeeps
    <2>6. CASE \E w \in Windows : WindowChanges(w)
      BY <2>6, WindowKeeps
    <2>7. CASE Relayout
      BY <2>7, RelayoutKeeps
    <2>8. CASE Draw
      BY <2>8, DrawKeeps
    <2>9. QED
      BY <1>2, <2>1, <2>2, <2>3, <2>4, <2>5, <2>6, <2>7, <2>8 DEF Next
  <1>3. QED
    BY <1>1, <1>2

(* The invariant, whatever is opened, closed, refused or resized.          *)
LEMMA Inductive == Spec => []OInv
  <1>1. QED
    BY InitOInv, NextOInv, PTL DEF Spec

(* What the chrome believes to be on screen is there, letters and images,  *)
(* in any number of windows and whatever was refused: the difference the   *)
(* next frame writes is the right one (Chrome::flush).                     *)
THEOREM DifferenceRight == Spec => []ChromeShown
  <1>1. OInv => ChromeShown
    <2> SUFFICES ASSUME OInv, "erase" \notin lost, terminal = chrome.area
                 PROVE  {i \in Images : screen.images[i] # NoBox} \ lost = chrome.placed \ lost
      BY DEF OInv, Letters, ChromeShown
    <2>1. QED
      BY DEF OInv, Types, ChromeOK, Overlays
  <1>2. QED
    BY <1>1, Inductive, PTL

(* The pointer's image is where the pointer is, in its shape, whenever     *)
(* nothing of it is owed or lost, and only what it is on is lit            *)
(* (compose_cursor, Toast::on_close, Menu::hit).                           *)
THEOREM HandFollowed == Spec => []FollowsTheHand
  <1>1. OInv => TypeOK
    BY DEF OInv, Types, UIOK, ChromeOK, ScreenOK, TypeOK
  <1>2. OInv => PointerShown
    BY DEF OInv, Placed, PointerShown
  <1>3. OInv => LitIsPointedAt
    BY LitIsLit DEF OInv, Types
  <1>4. QED
    BY <1>1, <1>2, <1>3, Inductive, PTL DEF FollowsTheHand

(* Where chrome was erased the picture is owed again until it is back      *)
(* (mark_cells, replace_all).                                              *)
THEOREM HolesOwed == Spec => []NoHoles
  <1>1. OInv => NoHoles
    BY DEF OInv, Tiled, NoHoles
  <1>2. QED
    BY <1>1, Inductive, PTL
=============================================================================
