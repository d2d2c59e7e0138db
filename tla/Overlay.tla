------------------------------ MODULE Overlay ------------------------------
(* What desktui draws over the picture: the status line, the command menu     *)
(* and the popup, rendered into one plane of cells that is compared with what *)
(* is on screen (ui/chrome.rs), the images they stand on, and the pointer's   *)
(* image (render/mod.rs).  A frame carries all of them, and the writer may    *)
(* refuse a frame after it was composed.                                      *)
(*                                                                            *)
(* A frame that is not refused is shown: that much FrameQueue promises.  What *)
(* is abstracted: a text is its width, a cell holds the role of what is       *)
(* written in it, and the entries of the menu are one of every kind.          *)
EXTENDS Integers, FiniteSets, Sequences, SequencesExt

CONSTANTS Windows,      \* [cols, rows] the terminal may have
          Watched,      \* the cells looked at: no cell depends on another
          Spots,        \* those the pointer goes to
          Notes,        \* widths of the messages of the popup
          Shapes,       \* shapes of the pointer the server sends
          Invisible,    \* the shape of no size
          EraseTakes,   \* whether erasing the screen takes placements with it
          MaxResizes, MaxEvents, MaxRefused

ASSUME WindowsAssumption == Windows \subseteq [cols : Nat, rows : Nat \ {0}]
ASSUME EraseAssumption == EraseTakes \subseteq BOOLEAN
ASSUME BoundsAssumption == {MaxResizes, MaxEvents, MaxRefused} \subseteq Nat
ASSUME ShapesAssumption == Invisible \in Shapes
(* Every message says something, and there is a longest.                      *)
ASSUME NotesAssumption ==
    Notes \subseteq Nat \ {0} /\ \E longest \in Notes : \A text \in Notes : text <= longest
ASSUME CellsAssumption == Spots \subseteq Watched /\ Watched \subseteq Nat \X Nat

NoWindow == [cols |-> 0, rows |-> 0]
NoNote == [text |-> 0, old |-> FALSE]
NoHover == [index |-> 0, command |-> "none"]
NoShape == "none"
Nowhere == <<-1, -1>>
ImageRows(w) == w.rows - 1
Cells == [w \in Windows |-> {c \in Watched : c[1] < w.cols /\ c[2] < w.rows}]
Box(x, y, width, height) == [x |-> x, y |-> y, w |-> width, h |-> height]
NoBox == Box(0, 0, 0, 0)
Inside(b) == {c \in Watched : b.x <= c[1] /\ c[1] < b.x + b.w /\ b.y <= c[2] /\ c[2] < b.y + b.h}

----------------------------------------------------------------------------
(* ui/menu.rs.  One entry of every kind; an item's command puts a note up, a  *)
(* choice names a mode, the title has the button that closes the menu.        *)
PadX == 1
PadY == 1
Gap == 1
ChoiceGap == 1
OptionWidth == 1
Modes == <<"fit", "1:1">>

Entries == <<[kind |-> "title"], [kind |-> "item"], [kind |-> "choice"]>>

OptionSpan(i) ==
    [start |-> (i - 1) * (OptionWidth + ChoiceGap),
     end   |-> (i - 1) * (OptionWidth + ChoiceGap) + OptionWidth
                 + (IF i = Len(Modes) THEN 0 ELSE ChoiceGap)]

EntryWidth(e) ==
    CASE e.kind = "title"  -> 1 + Gap + 1
      [] e.kind = "item"   -> 1 + Gap + 1
      [] e.kind = "choice" -> OptionSpan(Len(Modes)).end + Gap

MenuInner == Max({EntryWidth(Entries[i]) : i \in DOMAIN Entries})

MenuArea == [w \in Windows |->
    LET width == MenuInner + PadX * 2
        height == Len(Entries) + PadY * 2
    IN  IF width > w.cols \/ height > ImageRows(w) THEN NoBox
        ELSE Box((w.cols - width) \div 2, (ImageRows(w) - height) \div 2, width, height)]

(* Entry::command_at: the command under an offset into an entry's row.        *)
CommandsAt(e, offset) ==
    CASE e.kind = "title"  -> {k \in {"menu"} : offset = MenuInner - 1}
      [] e.kind = "item"   -> {"note"}
      [] e.kind = "choice" -> {Modes[i] : i \in {j \in DOMAIN Modes :
                                   OptionSpan(j).start <= offset /\ offset < OptionSpan(j).end}}

Hovers == {NoHover} \cup [index : DOMAIN Entries, command : {"menu", "note"} \cup Range(Modes)]

(* Menu::hit, as the entry and the command, or neither for a cell of no        *)
(* target.                                                                    *)
Hit(w, c) ==
    LET area == MenuArea[w]
        index == c[2] - (area.y + PadY) + 1
        commands == CommandsAt(Entries[index], c[1] - (area.x + PadX))
    IN  IF c \notin Inside(area) \/ index \notin DOMAIN Entries THEN NoHover
        ELSE IF commands = {} THEN NoHover
        ELSE [index |-> index, command |-> CHOOSE k \in commands : TRUE]

HoverBar(w, hover) ==
    LET area == MenuArea[w]
        y == area.y + PadY + hover.index - 1
        option == CHOOSE i \in DOMAIN Modes : Modes[i] = hover.command
    IN  IF area = NoBox \/ hover = NoHover THEN NoBox
        ELSE CASE Entries[hover.index].kind = "title"  -> NoBox
               [] Entries[hover.index].kind = "item"   -> Box(area.x, y, area.w, 1)
               [] Entries[hover.index].kind = "choice" ->
                    Box(area.x + PadX + OptionSpan(option).start, y, OptionWidth, 1)

----------------------------------------------------------------------------
(* ui/toast.rs                                                                *)
MarginX == 1
MarginY == 1
Button == 1
MinText == 2
Beside == Gap + Button + PadX * 2

ToastArea == [w \in Windows |-> [text \in Notes |->
    LET height == 1 + PadY * 2
        wanted == text + Beside
        width == Min({wanted, w.cols - MarginX * 2})
    IN  IF \/ MarginY + height > ImageRows(w)
           \/ w.cols < MarginX * 2
           \/ width < Min({wanted, MinText + Beside})
        THEN NoBox
        ELSE Box(w.cols - MarginX - width, MarginY, width, height)]]

CloseAt(area) == <<area.x + area.w - PadX - Button, area.y + PadY>>

OnClose(w, note, c) ==
    note # NoNote /\ ToastArea[w][note.text] # NoBox /\ c = CloseAt(ToastArea[w][note.text])

----------------------------------------------------------------------------
(* The plane: the role of what is written in each cell.  "blank" is a cell    *)
(* nothing has drawn in, "paper" one that has a colour and no letter.         *)
Unwritten == {"blank", "paper"}

StatusText == [w \in Windows |->
    [c \in {d \in Cells[w] : d[2] = w.rows - 1} |-> IF c[1] = 0 THEN "name" ELSE "bar"]]

MenuText == [w \in Windows |-> [hover \in Hovers |-> [mode \in Range(Modes) |->
    LET area == MenuArea[w]
        lit(i, k) == hover = [index |-> i, command |-> k]
        Written(i, x) ==
            CASE Entries[i].kind = "title" /\ x = 0 -> "title"
              [] Entries[i].kind = "title" /\ x = MenuInner - 1 ->
                   (IF lit(i, "menu") THEN "cross lit" ELSE "cross")
              [] Entries[i].kind = "item" /\ x \in {0, MenuInner - 1} ->
                   (IF lit(i, "note") THEN "item lit" ELSE "item")
              [] Entries[i].kind = "choice" /\ (\E j \in DOMAIN Modes : x = OptionSpan(j).start) ->
                   (IF x = OptionSpan(CHOOSE j \in DOMAIN Modes : Modes[j] = mode).start
                    THEN "chosen" ELSE "option")
              [] OTHER -> "paper"
    IN  [c \in Inside(area) |->
            LET i == c[2] - (area.y + PadY) + 1
            IN  IF i \in DOMAIN Entries THEN Written(i, c[1] - (area.x + PadX)) ELSE "paper"]]]]

ToastText == [w \in Windows |-> [text \in Notes |-> [cross \in BOOLEAN |->
    LET area == ToastArea[w][text]
        room == (area.x + PadX) .. (area.x + area.w - PadX - Gap - Button - 1)
    IN  [c \in Inside(area) |->
            IF c = CloseAt(area) THEN (IF cross THEN "cross lit" ELSE "cross")
            ELSE IF c[2] = area.y + PadY /\ c[1] \in room THEN "message" ELSE "paper"]]]]

----------------------------------------------------------------------------
VARIABLES
    terminal,   \* the window as it is
    metrics,    \* the window as the session knows it
    ui,         \* [menu, hover, mode, note, cross]: show_menu, Menu::hover, the mode the
                \* brackets are on, Toast::showing and Toast::hover
    pointer,    \* [at, shape, sent, placed, owing]: pointer_px and the renderer's cursor_*
    chrome,     \* [area, shown, placed]: what Chrome believes is on screen
    owed,       \* cells whose tile is marked, and owed again
    screen,     \* [text, images, data, pointer, holes, takes]: what is on the terminal,
                \* and how it erases
    lost,       \* shortfalls of the code, see below, that are on the screen now
    spent       \* [resizes, events, refused]: bounds of the instance

vars == <<terminal, metrics, ui, pointer, chrome, owed, screen, lost, spent>>

BlankText(w) == [c \in Cells[w] |-> "blank"]
Images == {"backdrop", "highlight", "paper"}

NothingPlaced == [i \in Images |-> NoBox]

Init ==
    /\ terminal \in Windows
    /\ metrics = terminal
    /\ ui = [menu |-> FALSE, hover |-> NoHover, mode |-> Modes[1], note |-> NoNote, cross |-> FALSE]
    /\ pointer = [at |-> Nowhere, shape |-> NoShape, sent |-> FALSE, placed |-> Nowhere, owing |-> FALSE]
    /\ chrome = [area |-> NoWindow, shown |-> <<>>, placed |-> {}]
    /\ owed = Cells[terminal]
    /\ screen \in [text : {BlankText(terminal)}, images : {NothingPlaced}, data : {NoShape},
                   pointer : {Nowhere}, holes : {Cells[terminal]}, takes : EraseTakes]
    /\ lost = {}
    /\ spent = [resizes |-> 0, events |-> 0, refused |-> 0]

----------------------------------------------------------------------------
(* The user, the server and the terminal.                                     *)
Event == spent.events < MaxEvents /\ spent' = [spent EXCEPT !.events = @ + 1]

(* The cells that show some of the remote screen: in the second mode it is    *)
(* a column narrower on either side.                                          *)
OnImage(w, mode) ==
    LET margin == IF mode = Modes[1] THEN 0 ELSE 1
    IN  {c \in Cells[w] : margin <= c[1] /\ c[1] < w.cols - margin /\ c[2] < ImageRows(w)}

(* cursor_at_cell: where the pointer's image belongs, if anywhere.            *)
CellOf(p, w, mode) ==
    IF p.shape \in {NoShape, Invisible} \/ p.at \notin OnImage(w, mode) THEN Nowhere ELSE p.at
PointerCell == CellOf(pointer, metrics, ui.mode)

(* Renderer::relayout: the pointer is placed against the terminal's grid,     *)
(* which has just moved under it.                                             *)
Unplaced == [pointer EXCEPT !.owing = TRUE, !.placed = Nowhere]
(* Until it is placed again nothing would hide it: its place is forgotten     *)
(* with the image still on the screen.                                        *)
Stranded == IF pointer.placed # Nowhere THEN {"pointer"} ELSE {}

(* move_cursor compares destination pixels, of which a margin has none.       *)
OnPicture(c) == IF c \in OnImage(metrics, ui.mode) THEN c ELSE Nowhere
Moved(c) == [pointer EXCEPT !.at = c, !.owing = @ \/ OnPicture(pointer.at) # OnPicture(c)]

(* on_terminal, Event::Mouse: the popup is offered the pointer, then the menu. *)
PointerMoves(c) ==
    /\ Event
    /\ c # pointer.at
    /\ pointer' = Moved(c)
    /\ LET onClose == OnClose(metrics, ui.note, c)
       IN  ui' = [ui EXCEPT !.cross = onClose,
                            !.hover = IF ~ui.menu THEN @
                                      ELSE IF onClose THEN NoHover ELSE Hit(metrics, c)]
    /\ lost' = lost \ {"hover"}
    /\ UNCHANGED <<terminal, metrics, chrome, owed, screen>>

Say(u, text) == [u EXCEPT !.note = [text |-> text, old |-> FALSE]]
Dismissed(u) == [u EXCEPT !.note = NoNote, !.cross = FALSE]
DismissMenu(u) == [u EXCEPT !.menu = FALSE, !.hover = NoHover]

(* on_command and set_mode.  The notes of commands are of one width.          *)
Run(u, command) ==
    /\ ui' = CASE command = "menu" -> (IF u.menu THEN DismissMenu(u) ELSE [u EXCEPT !.menu = TRUE])
               [] command = "note" -> Say(u, Max(Notes))
               [] OTHER            -> Say([u EXCEPT !.mode = command], Max(Notes))
    /\ IF command \in Range(Modes)
       THEN pointer' = Unplaced /\ lost' = lost \cup Stranded
       ELSE UNCHANGED <<pointer, lost>>

(* A press of the left button, where the pointer is.                          *)
Press ==
    /\ Event
    /\ pointer.at # Nowhere
    /\ LET onClose == OnClose(metrics, ui.note, pointer.at)
           u == [ui EXCEPT !.cross = onClose]
           hit == Hit(metrics, pointer.at)
       IN  \/ onClose /\ ui' = Dismissed(u) /\ UNCHANGED <<pointer, lost>>
           \/ ~onClose /\ ui.menu /\ hit # NoHover /\ Run(u, hit.command)
    /\ UNCHANGED <<terminal, metrics, chrome, owed, screen>>

(* A command by its key, and a note of any other origin.                      *)
Key(command) ==
    /\ Event
    /\ Run(ui, command)
    /\ UNCHANGED <<terminal, metrics, chrome, owed, screen>>

SetNote(text) ==
    /\ Event
    /\ ui' = Say(ui, text)
    /\ UNCHANGED <<terminal, metrics, pointer, chrome, owed, screen, lost>>

(* LINGER passes.                                                             *)
NoteAges ==
    /\ ui.note # NoNote /\ ~ui.note.old
    /\ ui' = [ui EXCEPT !.note.old = TRUE]
    /\ UNCHANGED <<terminal, metrics, pointer, chrome, owed, screen, lost, spent>>

(* Slip: the new shape waits for the pointer to move.                         *)
SetCursorOnly(s) ==
    /\ Event
    /\ s # pointer.shape
    /\ pointer' = [pointer EXCEPT !.shape = s, !.sent = FALSE]
    /\ UNCHANGED <<terminal, metrics, ui, chrome, owed, screen, lost>>
(* Update::Cursor, Renderer::set_cursor.                                      *)
SetCursor(s) ==
    /\ Event
    /\ s # pointer.shape
    /\ pointer' = [pointer EXCEPT !.shape = s, !.sent = FALSE, !.owing = TRUE]
    /\ UNCHANGED <<terminal, metrics, ui, chrome, owed, screen, lost>>

(* A window that changes its shape keeps what is on it, or what was the       *)
(* bottom row ends up elsewhere: what is left is not specified.  A window     *)
(* back at the size of the last frame is not seen to have changed.            *)
WindowChanges(w) ==
    /\ spent.resizes < MaxResizes /\ spent' = [spent EXCEPT !.resizes = @ + 1]
    /\ w # terminal
    /\ terminal' = w
    /\ \E rest \in IF chrome.area = NoWindow THEN {"blank"} ELSE {"blank", "name"} :
          screen' = [screen EXCEPT
             !.text = [c \in Cells[w] |-> IF rest = "blank" /\ c \in Cells[terminal] THEN @[c] ELSE rest],
             !.holes = (@ \cap Cells[w]) \cup (Cells[w] \ Cells[terminal])]
    /\ lost' = lost \cup (IF w = chrome.area THEN {"erase"} ELSE {})
    /\ UNCHANGED <<metrics, ui, pointer, chrome, owed>>

(* on_tick and relayout: the session adopts the new window.                   *)
Relayout ==
    /\ metrics # terminal
    /\ metrics' = terminal
    /\ pointer' = Unplaced
    /\ lost' = lost \cup Stranded \cup {"hover"}
    /\ owed' = Cells[terminal] \cap (owed \cup (Cells[terminal] \ Cells[metrics]))
    /\ UNCHANGED <<terminal, ui, chrome, screen, spent>>

----------------------------------------------------------------------------
(* Session::draw.                                                             *)
(* The images the chrome wants this frame, where it places them.              *)
Wanted(u) ==
    [backdrop  |-> IF u.menu THEN MenuArea[metrics] ELSE NoBox,
     highlight |-> IF u.menu THEN HoverBar(metrics, u.hover) ELSE NoBox,
     paper     |-> IF u.note # NoNote THEN ToastArea[metrics][u.note.text] ELSE NoBox]

Ids(wanted) == {i \in Images : wanted[i] # NoBox}

(* The bar, then the menu, then a note over the menu.                         *)
Plane(u) ==
    (IF u.note # NoNote THEN ToastText[metrics][u.note.text][u.cross] ELSE <<>>)
       @@ (IF u.menu THEN MenuText[metrics][u.hover][u.mode] ELSE <<>>)
       @@ StatusText[metrics] @@ BlankText(metrics)

(* Chrome::begin: a plane of another size is forgotten.                       *)
Resized == chrome.area \notin {NoWindow, metrics}
Begun == IF chrome.area = metrics THEN chrome
         ELSE [area |-> metrics, shown |-> BlankText(metrics), placed |-> {}]

(* Chrome::flush writes the cells that differ; those that are given up are    *)
(* handed back, and their tiles marked.                                       *)
(* Slip: only what has no colour either.                                      *)
VacatedBlank(begun, plane) ==
    {c \in Cells[metrics] : plane[c] = "blank" /\ begun.shown[c] \notin Unwritten}
Vacated(begun, plane) ==
    {c \in Cells[metrics] : plane[c] \in Unwritten /\ begun.shown[c] \notin Unwritten}

(* Renderer::replace_all, which is for the tiles the terminal holds.          *)
ReplacedAll == IF Resized THEN Cells[terminal] \ owed ELSE {}

(* compose_cursor: what is written, "place" needing data that is there.       *)
Composed == [pointer EXCEPT !.owing = FALSE,
                            !.sent = @ \/ (pointer.owing /\ PointerCell # Nowhere),
                            !.placed = IF pointer.owing THEN PointerCell ELSE @]
Transmits == pointer.owing /\ PointerCell # Nowhere /\ ~pointer.sent
Hides == pointer.owing /\ PointerCell = Nowhere /\ pointer.placed # Nowhere
Replaces == pointer.owing /\ PointerCell # Nowhere /\ pointer.sent /\ pointer.placed # PointerCell

(* What a terminal does with the frame.  Clearing a letter takes the           *)
(* placement under it, on some; the tiles that are owed follow in the same frame, and  *)
(* after an erase replace_all puts the others back.                           *)
OnScreen(begun, plane, wanted) ==
    LET erased == IF Resized THEN BlankText(terminal) ELSE screen.text
        taken == Resized /\ screen.takes
        data == IF Transmits THEN pointer.shape ELSE screen.data
        written == [c \in Cells[terminal] |->
                       IF c \in Cells[metrics] /\ begun.shown[c] # plane[c] THEN plane[c]
                       ELSE erased[c]]
        bare == IF taken THEN Cells[terminal]
                ELSE screen.holes \cup {c \in Cells[terminal] :
                        written[c] \in Unwritten /\ erased[c] \notin Unwritten}
    IN  [takes   |-> screen.takes,
         text    |-> written,
         images  |-> [i \in Images |->
                         IF wanted[i] # NoBox THEN wanted[i]
                         ELSE IF taken \/ i \in begun.placed THEN NoBox ELSE screen.images[i]],
         data    |-> data,
         pointer |-> IF Transmits \/ (Replaces /\ data # NoShape) THEN PointerCell
                     ELSE IF Hides \/ taken THEN Nowhere ELSE screen.pointer,
         holes   |-> bare \ (owed \cup Vacated(begun, plane) \cup ReplacedAll)]

(* What of the shortfalls a frame that is shown makes good, and leaves.       *)
Healed(begun, wanted) ==
    (IF Resized THEN {"erase"} ELSE {})
       \cup (IF Transmits THEN {"data"} ELSE {})
       \cup (IF Transmits \/ Replaces \/ Hides THEN {"pointer"} ELSE {})
       \cup (IF Resized /\ screen.takes THEN Images ELSE Ids(wanted))
Forgotten(begun, wanted) ==
    IF Resized /\ screen.takes THEN {} ELSE (chrome.placed \ begun.placed) \ Ids(wanted)

(* Slip: what is placed is not remembered.                                    *)
TakenUnplaced(begun, plane, wanted) ==
    /\ chrome' = [area |-> metrics, shown |-> plane, placed |-> {}]
    /\ owed' = {}
    /\ screen' = OnScreen(begun, plane, wanted)
    /\ lost' = (lost \ Healed(begun, wanted)) \cup Forgotten(begun, wanted)
    /\ UNCHANGED spent

Taken(begun, plane, wanted) ==
    /\ chrome' = [area |-> metrics, shown |-> plane, placed |-> Ids(wanted)]
    /\ owed' = {}
    /\ screen' = OnScreen(begun, plane, wanted)
    /\ lost' = (lost \ Healed(begun, wanted)) \cup Forgotten(begun, wanted)
    /\ UNCHANGED spent

(* Slip: committed before the writer has answered.                            *)
RefusedCommits(begun, plane, wanted) ==
    /\ spent.refused < MaxRefused /\ spent' = [spent EXCEPT !.refused = @ + 1]
    /\ chrome' = [area |-> metrics, shown |-> plane, placed |-> Ids(wanted)]
    /\ owed' = owed \cup Vacated(begun, plane)
    /\ lost' = lost \cup (IF Resized THEN {"erase"} ELSE {})
    /\ UNCHANGED screen

(* The writer is busy: what begin and compose_cursor did stays done.          *)
Refused(begun, plane, wanted) ==
    /\ spent.refused < MaxRefused /\ spent' = [spent EXCEPT !.refused = @ + 1]
    /\ chrome' = begun
    /\ owed' = owed \cup Vacated(begun, plane)
    /\ lost' = lost \cup (IF Resized THEN {"erase"} ELSE {})
                    \cup (IF Transmits THEN {"data"} ELSE {})
                    \cup (IF Transmits \/ Replaces \/ Hides THEN {"pointer"} ELSE {})
                    \cup (chrome.placed \ begun.placed)
    /\ UNCHANGED screen

(* A frame is drawn in time, with work or without; a note that has run out    *)
(* comes off first (Toast::expire).                                           *)
Draw ==
    LET u == IF ui.note # NoNote /\ ui.note.old THEN Dismissed(ui) ELSE ui
    IN  /\ ui' = u
        /\ pointer' = Composed
        /\ \E begun \in {Begun}, plane \in {Plane(u)}, wanted \in {Wanted(u)} :
              Taken(begun, plane, wanted) \/ Refused(begun, plane, wanted)
        /\ UNCHANGED <<terminal, metrics>>

Next ==
    \/ \E c \in Spots : PointerMoves(c)
    \/ \E t \in Notes : SetNote(t)
    \/ Press
    \/ \E k \in {"menu"} \cup Range(Modes) : Key(k)
    \/ NoteAges \/ Relayout \/ Draw
    \/ \E s \in Shapes : SetCursor(s)
    \/ \E w \in Windows : WindowChanges(w)

Spec == Init /\ [][Next]_vars /\ WF_vars(Draw) /\ WF_vars(Relayout) /\ WF_vars(NoteAges)
----------------------------------------------------------------------------
(* Type correctness.                                                          *)
TypeOK ==
    /\ {terminal, metrics} \subseteq Windows
    /\ ui.menu \in BOOLEAN /\ ui.cross \in BOOLEAN /\ ui.mode \in Range(Modes)
    /\ chrome.area \in Windows \cup {NoWindow} /\ chrome.placed \subseteq Images
    /\ DOMAIN screen.text = Cells[terminal] /\ DOMAIN screen.images = Images
    /\ lost \subseteq {"erase", "data", "pointer", "hover"} \cup Images

(* What the chrome believes to be on screen is on screen, letters and images, *)
(* whatever opened, closed, expired or was refused since: the difference the  *)
(* next frame writes is the right one.  Excepted are the screens of "lost":   *)
(* an erase that was refused with its frame or never owed, and an overlay     *)
(* that Chrome::begin forgot and nobody deletes (ui/chrome.rs 79-84).         *)
ChromeShown ==
    ("erase" \notin lost /\ terminal = chrome.area) =>
        /\ \A c \in Cells[terminal] : screen.text[c] = chrome.shown[c]
        /\ {i \in Images : screen.images[i] # NoBox} \ lost = chrome.placed \ lost

(* When the renderer owes the pointer nothing, it is on the screen where the  *)
(* hand is, in its shape, or nowhere: except after a frame that carried it    *)
(* was refused, and after a layout that had no place for it.                  *)
PointerShown ==
    (~pointer.owing /\ metrics = terminal /\ lost \cap {"data", "pointer"} = {}) =>
        /\ screen.pointer = PointerCell
        /\ PointerCell # Nowhere => screen.data = pointer.shape

(* Where chrome has been erased the picture is put back, if not in this frame *)
(* then in the next that is shown (ui/chrome.rs 19-23).                       *)
NoHoles == ("erase" \notin lost /\ terminal = chrome.area) => screen.holes \subseteq owed

(* What is lit is what the pointer is on: nothing comes up already lit, and   *)
(* nothing stays lit that a click would not act on (ui/toast.rs 176-179,      *)
(* session.rs 1021-1022).  A window that changes under the pointer is not     *)
(* asked about until the pointer moves, and a note there is no room for has   *)
(* no cross to light.                                                         *)
LitIsPointedAt ==
    "hover" \notin lost =>
        /\ ui.cross => /\ ui.note # NoNote
                       /\ \/ ToastArea[metrics][ui.note.text] = NoBox
                          \/ OnClose(metrics, ui.note, pointer.at)
        /\ ui.hover # NoHover => ui.menu /\ ui.hover = Hit(metrics, pointer.at)

(* The two of them: pointer and light follow the hand.                        *)
FollowsTheHand == TypeOK /\ PointerShown /\ LitIsPointedAt

(* Notes take themselves off again, and off the screen.                       *)
NotesLeave == <>[](ui.note = NoNote /\ (screen.images["paper"] = NoBox \/ "paper" \in lost))

----------------------------------------------------------------------------
(* Stronger statements the code does not keep.                                *)
(* "a frame the writer was too busy for did not happen and the next one has   *)
(* to say all of it again" (ui/chrome.rs 103-105): nothing of an old window   *)
(* is left once a frame for the new one is shown.                             *)
SaidAgain == [][(chrome' # chrome /\ screen' # screen /\ metrics = terminal)
                  => \A c \in Cells[terminal] : screen'.text[c] = chrome'.shown[c]]_vars

(* "whatever was placed last frame and is not wanted this one is deleted"     *)
(* (ui/chrome.rs 33-34).                                                      *)
OverlaysDeleted == [][screen' # screen /\ UNCHANGED terminal /\ metrics = terminal
                        => \A i \in Images : screen'.images[i] # NoBox => i \in chrome'.placed]_vars

(* "Draw, move or hide the pointer, whichever it is owed" (render/mod.rs).    *)
PointerHidden == (~pointer.owing /\ PointerCell = Nowhere) => screen.pointer = Nowhere
=============================================================================
