# Verification of desktui

TLA+ models of desktui, a remote desktop client that draws with the Kitty
graphics protocol: one module per part of the program that keeps state, checked
with TLC on small instances, and theorems about them proved with TLAPS for every
instance. Paths such as `session.rs` are below `src/` of the repository.

1. [The system](#the-system)
2. [The modules](#the-modules)
3. [The runs](#the-runs)
4. [Fairness](#fairness)
5. [What is proved](#what-is-proved)
6. [What the code does not keep](#what-the-code-does-not-keep)
7. [What is not modelled](#what-is-not-modelled)
8. [Plan](#plan)

## The system

A process has one async task that matters, the session loop (`session.rs`), an OS
thread that writes to the terminal (`term/writer.rs`), and two tasks around the
socket (`rfb/client/connection.rs`). The loop is a `select!` over three
sources: an update from the backend, an event from the terminal, a tick of the
frame clock. Each branch is a handler that runs to its end. Around the loop, `run`
connects, and with `--reconnect` connects again.

```
 terminal events --> Session::run --> InputMapper --> Backend::send --> input_ch --> write_loop --> server
                        |   ^                            (outbox)                                      |
            tick: draw  |   +---- Backend::recv <-- translate <-- output_ch <-- read_loop <------------+
                        v
      Renderer (tiles, pointer) + Chrome --> FrameWriter::submit --> slot --> writer thread --> terminal
                 |                                                                                 |
                 +--- shared memory objects, named in the frame, read and unlinked by -------------+
```

| Component | State it keeps | Operations | What is hard | What makes it correct |
|---|---|---|---|---|
| Terminal writer, `term/writer.rs` | one-slot channel, pool of returned buffers, the thread, its `done` signal | `take_buffer`, `submit`, `submit_blocking`, `recycle`, `shutdown` | a terminal that stalls mid-write, a grace period racing the last write | a queue of two that loses and reorders nothing; a clean join means everything was written |
| Shared memory pool, `term/shm.rs` | names listed, their bytes and ages, the budget | `frame`, `remember`, `sweep`, `Drop` | the pool cannot see what the terminal has read | no object outlives its name; none is taken back before memory or age says so |
| Terminal guard, `term/mod.rs`, `main.rs` | `RAW`, `FULL_SCREEN`, the lock of stdout | enter, full screen, query, leave, panic hook | who holds the lock of stdout, and for how long | the terminal is restored on every way out, never inside a frame |
| Tile renderer, `render/mod.rs` | per tile: what the terminal holds, where, and the generation its source was last touched; the count of owed tiles; cleanup waiting for a frame | `mark`, `relayout`, `replace_all`, `compose`, `commit` | frames are dropped after they were composed; layouts and the size of the desktop change in between | what is believed held was sent; what is shown is current, in place, and nobody else's |
| Pointer image, chrome, menu, toast, `ui/*`, `render/mod.rs` | what is shown, wanted, placed; the note and its age; hovering | compose, flush, commit, hit testing, `relayout` | the same dropped frames; windows that change under it | what chrome thinks is shown is shown; no hole in the picture; notes leave |
| Layout, `render/mod.rs` | window, mode, remote size, pan | `compute`, `src_to_dst`, `terminal_px_to_src`, `TileGrid`, `mark_cells` | rounding at fractional scales, clipping at edges | tiles partition the image; damage reaches what it changed; a click names the pixel under it |
| Resize negotiation, `session.rs` | `Resize`, `requested_size`, `screens`, `mode`, `remote` | `on_layout`, `on_remote_size`, `request_native_size`, `set_mode`, `on_tick` | replies, other clients' resizes and window changes in any order | never a loop of requests; waits only for what will come; settles |
| Input mapper, `term/input.rs` | held keys, synthesised modifiers, armed prefix; buttons, last and pending position | `on_key`, `on_key_local`, `on_mouse`, `flush_motion`, `release_all` | presses and releases that change meaning midway: prefix, menu, view-only, focus | the remote's keys and buttons are those held here, and are let go of in time |
| Lock keys, `session.rs` | what the remote last reported of its locks | `sync_lock_keys`, `on_lock_keys` | corrections and reports that cross | both ends agree once somebody types |
| Update pacing, `session.rs` | `awaiting_update`, `requested_at`, `pushed_frames`, the probe | `request_update`, `on_update`, `on_tick`, `probe_round_trip` | lost requests, servers that stop pushing, late answers | every change of the desktop is shown; no waiting for a frame nobody asked for |
| VNC backend, `remote/vnc.rs`, and connection tasks | outbox, caps, announced text, two copies of the size, two bounded channels | `recv`, `send`, `flush`, `translate`, `paste`, `close` | `recv` is cancelled by every keystroke; full channels both ways | replies go out once and in order; both copies agree; a send returns |
| Connector, authentication, reconnect loop, `rfb/client/*`, `session.rs` `run` | version, security type, format, the password asked for, the pause | `try_start`, `negotiate_security_type`, `vnc_auth`, `security_result`, `server_init`, `run` | three versions, refusals, a peer that hangs up or falls silent anywhere | both sides agree on what is read next; a session was granted; a quit is heard |
| Messages, codecs, framebuffer, `rfb/*`, `render/framebuffer.rs` | zlib streams, palettes, the picture | every message of both directions, Raw, CopyRect, ZRLE, Tight, cursor, `blit`, `copy_rect`, `resize` | packed rows, run lengths and tiles that end at odd edges; copies that overlap, rectangles that overhang | neither side loses its place; the picture is the server's |

## The modules

A definition has the name of the code it models wherever there is one, and
`PROJECT.json` gives its lines. Comments quote the code where a property comes
from a sentence of it. Definitions introduced as a *slip* are deliberately wrong
variants of the definition after them; no specification uses them, they show
that a property can fail.

**FrameQueue** is what the writer promises, in three actions: a queue of at most
two frames that accepts or refuses, shows in order, and may break with the
terminal. **FrameWriter** is the code: `submit` is `SubmitOk`, `SubmitFull` and
`SubmitClosed` (the three results of `try_send`), `submit_blocking` waits in
`blocked` until `SendCompletes` or `SendFails`, the thread is `Receive`, `WriteOk`,
`WriteFails`, `Disconnected`, and `shutdown` is `Shutdown` then `Join` or
`GraceElapses`. `Bells` are the frames that go through `submit_blocking`. The
refinement mapping is: abstract queue = what the thread has in hand followed by
the slot.

**Stdout** has the same thread seen from the lock of stdout, over several sessions
of one process: the loop's own writes to stdout (full screen, a geometry
query, notices, the restore, the panic hook) need the lock that the writer thread
takes when it starts and gives up when it ends. Frames are counted, not named.

**Shm** extends `FrameWriter` with the objects a frame names: composing creates one per tile
(`PlaceShm`), or fails and sends everything inline from then on (`PlaceFails`); a frame that is written puts its
names into the pty (`Written`), where the terminal, another process, reads them one by one and unlinks
what it read, or does not (`Parse`). The pool sweeps its list by what it can see: names that no longer exist, the bytes it
counts, the age of the oldest, the length of the list. Every action of `FrameWriter` is an action of `Shm`, with the objects' part
conjoined (`Written`, `Refused`, `Dropped`) or left alone (`WriterOnly`).

**Tiles** models what the terminal is believed to hold against what it holds. A
frame is a function from image ids to effects (keep, delete, place, send with
an image); a frame that is composed, one in the slot and one being written
are three such functions, and the terminal's graphics store is the fourth. An image
is the geometry it was cut for and the colour of each region it shows, so a
stale picture is told from a fresh one. Layouts are data: which ids a layout
has, on which cells, cut from which regions, for which desktop. `Relayout` (the window, the mode, the pan or
the font), `RemoteSize` (the desktop: the framebuffer loses what does not fit, is black where it is new, and nothing is marked), `MarkAll`, `Damage` and
`DrawTaken`/`DrawDropped` are the operations; `commit` is part of a draw that is
taken, and everything `compose` sets before the writer refuses is set in
`DrawDropped` too. A tile is carried over by its key, and there are three ways for something to happen to a tile
that its key is not told of; `unnoticed` is a history of them, which `Fresh` excepts and nothing in the model reads.

**Layout** is the arithmetic `Tiles` leaves out: `Layout::compute`,
`src_to_dst`, `terminal_px_to_src` and the tile grid with exact fractions
for the `f64` scale, over a session that resizes, changes mode, adopts remote
sizes and pans. The reading pattern of the resampler (`Reads`) is the reference
the pads are compared with: for Lanczos three pixels of the larger side to each
side of the centre, for nearest the pixel under the centre. `MarkCells` maps erased cells back to
tiles, which is how chrome asks for the picture again.

**Overlay** is what is drawn over the picture: the status line, the menu, the toast and the pointer's image, in the frames that
`Tiles` has too. Cells are independent of each other, so a few are watched (`Watched`): each holds the role of what is written
there. `chrome` is what the program believes to be on the screen, `screen` what is. `Draw` composes everything `draw` does and then the writer
takes the frame or not; `Refused` lists what composing sets before the refusal. The shortfalls listed
[below](#what-the-code-does-not-keep) are tracked by name in `lost`, so that the properties say what holds apart from them, and again once they
have healed.

**Negotiation** is the `Resize` state machine. Handlers are functions from a
session record to the next, in the order the code calls them (`OnLayout`
contains `OnReply`, which contains `RequestNativeSize`), so one message is one
step. The server may grant another size, refuse, forward, or have its size
changed by somebody else, and may not know how to resize at all. A size stands for
a pair of dimensions.

**Keyboard**, **Mouse** and **Locks** are `InputMapper` and `sync_lock_keys`, each with the flags of the session that
its outcomes depend on. An event is what the terminal reports for a hand that
presses and lets go; `remote` is what the server was told. Control stands for
the six modifiers and there is one key per role; one lock stands for both. **Input** has the three in one event loop. They share only
the menu, view-only and the focus, and each of them turns those at any moment anyway; so a behaviour follows one device,
chosen at the start, and the others stay as they begin.

**Requests** is the pacing of update requests with the backend's re-arming of
continuous updates, and the round-trip probe. Time is three flags that come up:
an interval has passed, a request is old, a probe is old.

**Backend** joins `VncBackend` with the two tasks and their channels (all with
small capacities): `Flush` and `Recv` are the polls of the `recv` branch of the
`select!`, `Send` a send, which flushes first and is not cancelled, `Read` and
`Write` the tasks. Fences are numbered so that their echoes can be told apart.

**Connect** is the way from nothing to a session and back: the handshake in its three versions, client and server each reading units of the
stream of the kinds they expect, the prompt for a password, the first messages, and `run` with its pause and its prompt. The server is external: it does
what RFC 6143 says, may refuse, hang up or fall silent. A challenge response is right or wrong.

**Codecs**, **Messages**, **Server** and **Wire** are the stream. `Codecs` decodes a rectangle: raw, ZRLE (raw, solid, packed palette, runs,
palette runs), Tight (fill, copy, palette and gradient filters, compressors and their resets), cursor. `Messages` reads and writes
every message. The stream is a sequence of units, a unit being what the program never takes apart; lengths, signs, packing and padding are kept,
with small parameters (a tile of 3, bytes of 4 bits, runs and lengths with a small base) so that every boundary falls inside a small
picture. `Server` (external) is the encoder a server would have, written from the format and not from the decoder. `Wire` composes them with the
event channel, the session and the framebuffer. The two directions share nothing, so a behaviour has one of them; the server says one message or
rectangle and the reader takes it, by turns.

**MC*** modules give the constants of an instance; ***Proofs** hold theorems.

The models overlap where the code does: the writer's thread is in `FrameWriter`,
`Stdout` and (as slot and write) in `Tiles`; the re-arming of pushed updates is in
`Requests` (from the session's side) and in `Backend` (from the channels'); the dropped frame is in `Tiles` and `Overlay`.

## The runs

Each passing run explores its instance completely. Times are with two workers.

| Run | Shows | Instance, and why it is enough | States | Time |
|---|---|---|---|---|
| `FrameWriter` | `ImplementsQueue`, `JoinedMeansFlushed`, `BuffersBounded`, `Accounted`, `TakenWhenItMust` | up to four frames, the third by the blocking path, the others of up to two tiles: the slot, the thread and the loop are all full at once; a budget of three bytes that two frames exceed; one stale name, one failure, one ageing | 680,000 | 25 s |
| `Stdout` | `OneOwner`, `TeardownWhole`, `QuitExits` | two sessions, so that a thread abandoned by the first meets the second; a terminal that stalls, recovers, goes away; panics; no pixel ioctl | 574 | 2 s |
| `Tiles` | `Fresh`, `HeldIsSent`, `NoGhosts`, `OwingCounts`, `CatchesUp` | two tiles, six layouts (grown, scaled, half a window, panned, and a narrower desktop in the first window), between two accepted frames two changes at most: the first of the layout or of the size of the desktop, the second of its size, so that it shrinks and grows back; two colours, so that a region may get its old one again; one damage generation, any frame dropped | 286,000 | 80 s |
| `Negotiation` | `AskedOnce`, `KeepsStep`, `Settles` | three sizes and one nobody would allocate, every mode to begin with, a server that snaps to its favourite size, refuses, forwards or cannot; two window changes, a command, another client | 197,000 | 20 s |
| `Input` | `SentAsStruck`, `NothingStuck`, `AllLetGo`, `PressesLand`, `PendingLeaves`, `LocksAgree` | eight keys, one per role, three down at a time, both kinds of terminal; three pixels, one under the cross, and the letterbox, two buttons, five movements, three changes of mode; a lock pressed twice, turned once by somebody else, three keys on their way | 263,000 | 50 s |
| `Requests` | `FramesAreComing`, `PictureArrives` | one change of the desktop, one lost request, one stop of pushing, one command, one probe | 135,000 | 25 s |
| `Backend` | `GoesOutInOrder`, `RemembersRightly`, `PushedWhole`, `SendReturns` | channels and socket with room for one message, so that everything that can be full is; three messages of the server, two pastes | 897,000 | 115 s |
| `Layout` | `TilesPartition`, `DamageReaches`, `ClickLands` | three windows, one whose cells divide neither the window nor the tile; seven remotes, smaller, larger and of other shapes; every mode, and pans | 1,380 | 50 s |
| `Overlay` | `ChromeShown`, `FollowsTheHand`, `NoHoles`, `NotesLeave` | two windows, one too low for the menu; eight watched cells, on the crosses, an item, an option, the edges, five of which the pointer goes to; two notes, one too long for the second window; a visible and a hidden pointer; one resize, three events, one refused frame; both things an erase may do to placements | 261,000 | 90 s |
| `Connect` | `ShakenHands`, `QuitHeard` | four versions announced, one unknown; six offers of security types; a right and a wrong password; two formats; two faults, so that a reconnect fails too | 306,000 | 26 s |
| `Wire` | `Understood`, `WholePicture` | desktops of 4x4 and 5x2 in tiles of 3, solid, two-coloured and many-coloured paint in every encoding, three copies (one onto itself lower down, one onto itself further right, one from elsewhere), rectangles that overhang a desktop that has shrunk, cursor, texts, fences; two rectangles, two messages; sixteen messages of the client in pairs | 209,000 | 25 s |
| `MouseStuck` | `ButtonsReleased` fails | see below | | 2 s |

What the properties of the passing runs say:

* `ImplementsQueue`: the thread, the slot and the buffers are one queue of two.
  `JoinedMeansFlushed`: if `shutdown` joined the thread and the terminal is there, the last frame was written.
  `BuffersBounded`: at most three buffers exist, wherever they are. `Accounted`: every shared memory object is on the list it is swept from, and the
  count of bytes is that of the list. `TakenWhenItMust`: an object a frame still needs is only ever taken back because the memory in use or its age says so.
* `OneOwner`: a process that has exited left raw mode and the alternate screen, and no two threads write. `TeardownWhole`: the restore is
  not written into a frame. `QuitExits`: with a terminal that reads on, a quit ends the process.
* `Fresh`: a tile that is not owed is (or, with what is under way, will be) on the screen, current and on its
  cell, unless it is one of `unnoticed`; these are listed with the exceptions below. `HeldIsSent`, `NoGhosts`: the belief about the terminal is true of it. `OwingCounts`: the incremental counter equals the
  number of owed tiles. `CatchesUp`: when the remote falls quiet, the terminal ends up showing just what it should, with the same exceptions.
* `AskedOnce`: between two changes of what the user wants there is at most one request. `KeepsStep`: layout, size and mode
  agree, native mode excepted while the server is asked (`LaidOutAsKnown`), and `Waiting` implies a reply to come (`WaitsForAReply`). `Settles`: in the end, native
  mode is exact, or was answered otherwise for exactly this window.
* `SentAsStruck` (`NoPhantomRelease`, `ModifiersMatch`), `NothingStuck`: keys of the remote against keys of the hand. The exceptions written
  into them (view-only, the prefix letter, a prefix sent through) are where the code falls short, and are in the table below.
  `AllLetGo`: everything is let go of when the focus or the input goes, and the mapper's record of buttons is the server's. `PressesLand`: a press arrives at the
  pixel of the hand. `PendingLeaves`: a held-back position goes out. `LocksAgree`: if somebody goes on typing, the lock of the remote ends as the one here, however
  corrections and reports crossed.
* `FramesAreComing`: an awaited frame was asked for and is not lost for good, and pushing is counted on only while it is armed. `PictureArrives`: every change of the
  desktop is shown.
* `GoesOutInOrder`: the fences not yet answered are exactly those under way, in order, and nothing of the extended clipboard
  precedes our caps. `RemembersRightly`: both copies of the size are equal, a zero size excepted, and text asked for is the
  announced text or a later announced one. `PushedWhole`: the server's pushed rectangle becomes the whole desktop.
  `SendReturns`: a send ends.
* `TilesPartition`, `DamageReaches`, `ClickLands`: the geometry, as in their comments.
* `ChromeShown`: the cells and images chrome takes to be on the screen are. `FollowsTheHand`: the pointer's image is where the pointer is and has its shape, and what is lit is
  what it is on. `NoHoles`: where chrome was erased the picture is put back. `NotesLeave`: notes expire, off the screen too.
* `ShakenHands`: neither side finds on the stream something else than it reads, and a session is one the server granted, in a format and with encodings both know.
  `QuitHeard`: a quit ends the process, whenever it was typed, unless the server falls silent in the handshake.
* `Understood`: what the session is given is what the server meant, and what the server hears is what the client meant, in order. `WholePicture`: outside of an update the framebuffer is
  the server's picture.

Deadlock is checked in all but `Stdout`, `Input`, `Backend`, `Connect` and `Wire`. In `Stdout` a panic or a query can hang for good, which is a
finding, and so can a handshake in `Connect`; in the others the session is over at the end, or everything has been said.

## Fairness

Weak fairness, and strong for a lock or a write that becomes possible again and again; only for what the scheduler or the peer owes:

* the writer thread and the session loop go on when they can (an OS thread, a tokio task that is woken). Nothing is assumed of the terminal
  except in properties that say so (`[]<>` draining as a hypothesis); it may stall for ever;
* the frame clock ticks, so `draw`, `flush_motion`, the watchdog and the expiry of a note are tried again (`Tiles`, `Mouse`, `Requests`, `Overlay`);
* a change of the window reaches the layout (`Relayout` in `Overlay`);
* timers expire (`Elapse`, `ProbeAges`, `IntervalEnds`, `IntervalElapses`, `GraceElapses`, `NoteAges`);
* messages on their way arrive (`OnLockKeys`, `RemoteHears` in `Locks`);
* a server that is there reads what it was sent and, in `Negotiation`, answers each request in one of the ways the protocol has,
  forwarding included; in `Requests` it may lose requests, up to a bound; in `Connect` it takes its next step unless it fell silent, which it may at any point, up to a bound;
  in `Backend` when it speaks is up to it.

User input, damage, window changes and what a server says of its own accord are never fair. That somebody goes on typing is a hypothesis of `LocksAgree`.

## What is proved

For every value of the constants that satisfies the named assumptions of the modules. They say what kind of thing a constant is, that a bound is a number, that the symbols that
must differ do; two say more. `GridAssumption` (`Layout`) is the comment of `TILE_ID_STRIDE` (`render/mod.rs:40-43`): a window has no more pixels or cells than `Stride` tiles of the aimed size, a `u16` against
512 times 128. `NotesAssumption` (`Overlay`) is that texts have a width and that one is the longest. Where a theorem needs more it has a hypothesis of its own, and the table below says what
happens without it.

| Module | About | Theorems, and the properties of runs among them |
|---|---|---|
| `FrameWriterProofs` | `FrameWriter`, `Shm` | `JoinFlushes` and `PathKept` (`JoinedMeansFlushed`), `ThreeBuffers` (`BuffersBounded`), `WriterIsAQueue` (`ImplementsQueue`), `OrderKept`, `WriterInside`, `NothingLeft` (`Accounted`), `RoomTaken` (`TakenWhenItMust`), `TypeCorrect` |
| `TilesProofs` | `Tiles`, `Layout` | `CountExact` (`OwingCounts`), `HeldTilesAreSent` (`HeldIsSent`), `NoImageOutlivesItsTile` (`NoGhosts`), `NotOwedIsCurrent` (`Fresh`), `EqualKeysSamePicture` (`KeysTell`, which no run checks), `GridCovers` (`TilesPartition`), `DamageArrives` (`DamageReaches`), `ClicksLand` (`ClickLands`), `TypeCorrect` |
| `OverlayProofs` | `Overlay` | `DifferenceRight` (`ChromeShown`), `HandFollowed` (`FollowsTheHand`), `HolesOwed` (`NoHoles`) |
| `NegotiationProofs` | `Negotiation` | `AsksOnce` (`AskedOnce`), `InStep` (`KeepsStep`), `Invariance` |
| `InputProofs` | `Keyboard`, `Mouse`, `Locks`, `Input` | `AsStruck` (`SentAsStruck`), `KeysComeUp` (`NothingStuck`), `LettingGo` (`AllLetGo`), `LandsUnderTheHand` (`PressesLand`) |
| `RequestsProofs` | `Requests` | `PicturesAreComing` (`FramesAreComing`), `TypeCorrect` |
| `BackendProofs` | `Backend` | `RepliesInOrder` (`GoesOutInOrder`), `RememberedRight` (`RemembersRightly`), `TypeCorrect` |
| `RunProofs` | `Connect`, `Stdout` | `ShakesHands` (`ShakenHands`), `TerminalOwned` (`OneOwner`), `TeardownUntorn` (`TeardownWhole`), `Invariance`, `TypeCorrect` |

**FrameWriterProofs.** `IInv` joins the types, the order (`accepted = shown \o inHand \o queue` while the terminal is there), `Resting` (an ended thread leaves nothing queued, and only an ended thread is
joined), `Younger` (a frame in the making is younger than every accepted one) and the bound on buffers. Order alone is not inductive: that a join implies
everything shown needs to know where a frame can still be once the thread has ended.
From it: `TypeCorrect`, `OrderKept`, `JoinFlushes` (`JoinedMeansFlushed`), `ThreeBuffers` (`BuffersBounded`) and `WriterIsAQueue`
(`ImplementsQueue`): initial states map to initial states and each action to a step of `FrameQueue` or a stutter.

It EXTENDS `Shm`, which is `FrameWriter` and its objects. `WriterInside`: every behaviour of the writer with its objects is one of the writer, so that what is proved of it holds in the run too (`PathKept`).
`NothingLeft` (`Accounted`) has two halves. That every object of this process is on the list: the argument follows a name through the three ways a list is shortened: the sweep
forgets only a prefix of names that no longer exist (the least `k` of `Fewest` exists because the naturals are well founded), the other two unlink what they forget, and a
new name is the last of a list that has room for one. That the bytes counted are those of the names listed: the names on the list rise (`Rising`), so that no entry is counted twice, and a sum over a finite set
can be taken apart at any member (`SumsAgree`). The last is an induction over the size of the set, in the form the provers take: among the sizes of the sets for which it fails there would be a least.
`CountInv` is what is inductive.

`RoomTaken` (`TakenWhenItMust`): the sweep counts back from the newest name the bytes it keeps, and an object it takes lies beyond the budget by that count; but the count is of entries, and the memory in use
is of objects that exist. `Held` closes the gap: whatever is listed at or behind a name a frame still needs is still there. It rests on `WayInv`: names go up along the road, from what the terminal has yet
to read through the frame in hand, the queue and the frame in the making (`InLine`, `Road`), so that the terminal comes to the oldest first and nothing behind a needed name has been taken out. `Stored` keeps
the objects finitely many, for the sum over them.

**TilesProofs.** `TypeCorrect`; `CountExact` (`OwingCounts`), by counting what each operation adds to and removes from the set of owed
tiles, with the cardinality theorems of the library; `HeldTilesAreSent` (`HeldIsSent`), under the assumption that the resampler does not fail; and
`NoImageOutlivesItsTile` (`NoGhosts`). These two are about what the terminal will hold *after* everything under way, `Settled(i)`, the composition of
the waiting cleanup, the slot and the write. That is what is inductive: moving a frame from the slot to the thread or to the screen leaves `Settled`
as it was, so only composing, dropping and relaying out can disturb it. The proofs hold for any number of
changes between two frames, where the run has two.

So does `NotOwedIsCurrent` (`Fresh`), while the resampler does not fail. What is inductive is a statement about every tile that is *held*, owed or not, and not unnoticed: whatever its key names is
what the terminal will hold, with the pixels there are now wherever the key's generation is the last (`Kept`), on the cell recorded for it (`Placed`); and where there is no desktop the framebuffer is black
(`BlackOutside`), so that a region that comes back has changed when it went and not when it returns. `EqualKeysSamePicture` (`KeysTell`) is the same without the exceptions, as the comment of `Content` has it. That fails
for two changes between two frames, of the layout or of the size; it has the hypotheses `MaxRelayouts <= 1` and `MaxResizes = 0`. What it adds is that before the first change a tile has the geometry it
has now or is not held at all, so that damage its key does not record cannot reach it (`Committed`), and that then whatever is unnoticed is owed (`UnnoticedAreOwed`).

**TilesProofs, layout.** Nothing but the types is inductive here; what is proved is the arithmetic, for every window, remote, mode and pan. It rests on a few facts about
quotients (`Dividing`, `Quotient`, `Ceiling`) and on what the three ways to a scale have in common: at its scale the remote fits the area (`ScaleFits`), what is drawn is the nearest whole
number of pixels though never none (`Rounded`), a sharp scale is a whole number of them (`Doubled`), and nothing is resampled only at scale 1 (`Unscaled`). `GridCovers` (`TilesPartition`): a pixel
is in the tile of its quotient and in no other, and by `GridAssumption` the stride never cuts the grid short. `DamageArrives` (`DamageReaches`): a pixel that reads a changed one is among those the change is
scaled to, by cases of the filter; for a shrinking one `ShrunkReach` shows that a pad of three covers a reach of three of the larger pixels and both roundings. `ClicksLand` (`ClickLands`) holds where
there is room to scale to (`RoomToScale`, a hypothesis, since a terminal of one row has none): sharp clicks by quotients, blended ones by `NamedNear`, a pixel and a half of the larger side at most.

**OverlayProofs.** `OInv` joins what chrome, renderer and terminal hold. `Letters` and `Overlays` say what chrome is right about: letters once it has drawn for the window there is, images in any window,
but for what is in `lost`. `Tiled` has the holes among what is owed, and before the first frame everything is a hole and everything owed. `Placed` has
the pointer's data and place as the renderer takes them to be; what makes it inductive is that a window chrome has not drawn for yet has the pointer owed and unplaced, so that the erase of the
next frame takes no pointer away that nobody would put back. From these `DifferenceRight` (`ChromeShown`) and `HolesOwed` (`NoHoles`), in which where menu and popup go is opaque: whatever the two planes
are, the difference written is the right one. `Lit` is about the light and does need the geometry: the cross of a note is in the same corner of the window whatever the note says, so a lit cross stays under
the pointer when another note replaces it (`HandFollowed`, `FollowsTheHand`). The exception, a note there is no room for, is in the property and was found by this proof: with two notes of different lengths a
cross may stay lit though the new note is not drawn. The run now has such a note.

**NegotiationProofs.** Handlers call handlers, so the argument is about one link (`Link(c, d)`: what a handler may do to a session in the middle of an event), proved of each of them and shown to
compose; a step is then a chain of links. `IInv` joins the types, `LaidOutAsKnown`, what may be on its way (`RepliesAreLayouts`) and `AskedForThis`: a session that has asked since the user
last changed what is wanted has asked for just that. From it `Invariance` and `AsksOnce` (`AskedOnce`). `InStep` (`KeepsStep`) needs that a wait ends: `WaitsForAReply` is inductive with
`ForwardedIsFollowed`, under the hypothesis that a forwarded request is reported as the client's own when it is done (`LateReasons \subseteq {1}`, RFB reason 1). Without it the
session waits for ever, as `WaitingEnds` shows.

**InputProofs.** For keys, `KInv` relates what is down for the remote, for the mapper and for the hand. What the remote has down the mapper holds (`Remembered`), and nothing else
while view-only was never on (`ViewTells`); a terminal without releases leaves nothing down but the modifiers the mapper put down itself (`InLine`). Without these none of the properties is inductive. Each event is a sequence of keys sent, so the lemmas say what one press, one
release and the release of a set do to the remote (`Tell`), for any sequence; then every branch of `on_key` is one of them. For buttons, that the mapper's record is the server's
is inductive with what view-only lets go of. From them `AsStruck` (`SentAsStruck`), `KeysComeUp` (`NothingStuck`), `LettingGo` (`AllLetGo`) and, as an action property,
`LandsUnderTheHand` (`PressesLand`), for any number of keys down at once and any places and buttons.

**RequestsProofs.** `RInv` is about what the queues hold: the types say which messages travel which way, and the two promises are restated as the presence of a message
(`Coming`, `Armed`), with the cardinalities of `InFlight` replaced by it (`Promised`, from the library's theorems on finite sets). How `Has` goes with appending, joining and taking the head is proved
once; then each handler begins to wait only with a request among what it sends (`Asks`), and the server takes a request only into what it holds, loses it only by counting it lost, and
stops pushing only with a word. `PicturesAreComing` (`FramesAreComing`) holds for any wire, any number of losses, stops and probes.

**BackendProofs.** A message goes from the head of one queue to the end of the next, so the invariant gives the messages of a kind numbers that neither skip nor repeat (`Numbered`):
fences by what they carry, requests for a text and their answers by their place. One lemma says what appending and taking the head do to a numbering, and `FenceMove`, `WantMove` and
`AnswerMove` that moving a message on moves a boundary between two queues by at most one. `Ordered` is then a chain of boundaries from the last echo the server heard to the last fence it sent,
and `Paired` one from the last answer it got to the last request it made, half of which are still questions. What makes it inductive besides: until our caps have arrived, whatever
needs them has them ahead of it, and nothing the server could ask for needs them (`CapsAhead`); texts are numbered as they are pasted, and the server
knows of none later than the one announced last (`Growing`), so that a request always finds a text; a closed client has no writer (`Stopped`). From it `RepliesInOrder` (`GoesOutInOrder`), `RememberedRight` (`RemembersRightly`) and `TypeCorrect`, for queues of any length, any
number of words of the server and any number of texts. That a closed road takes what was in it is why order is claimed while it is open.

**RunProofs, connecting.** Two things are inductive together. `Meeting` says, for every place a live server can be at, what the client reads and what is on its way in both directions: at most one side has
spoken at a time, but for the two units that 3.7 and 3.3 send without waiting, and in all three versions the units are the ones the other side is about to take. `Road` says the same for what
remains to be read once the server is gone or silent, when nobody answers any more but the client goes on with what had been said; it is where the refusal of 3.8 to a client without a password is
let through (`RefusalRead`). `Granted` and `Told` carry on into the session: it was admitted, and what the server has not yet heard of format, encodings and first request is still on its way, in that order. From it `ShakesHands`
(`ShakenHands`), for any announced versions, offers (an empty one too), formats, passwords and options and any number of failures, and `TypeCorrect`.

**RunProofs, stdout.** `IInv` adds to what is wanted who has the lock (`LockHeld`), which threads there have been (`Begun`), that only the last of them can be there (`Alone`), and that
`FULL_SCREEN` is down only where the terminal is back (`GivenBack`). The point is the grace period: a thread given up on is in a write and not waiting for the lock, because nobody else can have it;
so the notice that comes before the next session, which needs the lock, comes after the thread has ended. From it `TerminalOwned` (`OneOwner`) and `TeardownUntorn` (`TeardownWhole`), for any number of sessions.

Only model-checked: liveness (`QuitExits`, `CatchesUp`, `Settles`, `PendingLeaves`, `LocksAgree`, `PictureArrives`, `PushedWhole`, `SendReturns`, `NotesLeave`, `QuitHeard`),
which is beyond the prover; and what the codecs compute (`Understood`, `WholePicture`), which is induction over data.

## What the code does not keep

One listed run refutes what comments say: `MouseStuck`, a button released over the letterbox or the menu stays down on the remote.

The following properties are defined in the modules and fail as well. Each is reproduced by putting it into the cfg named, alone, with the
change given.

| Property | cfg and change | What the code says | What happens |
|---|---|---|---|
| `NeverStalled` | `FrameWriter`, `SPECIFICATION ShmFairSpec` | `term/writer.rs:3-4`, a stalled terminal "can never stall the async runtime" | a bell or a clipboard write uses `submit_blocking` on the session task (`session.rs:525-530`, `1410-1418`) |
| `LastFrameDrawn` | `FrameWriter`, `Budget = 99`, `MaxPending = 99`, `MaxWaits = 0` | `term/writer.rs:105`, "Flush everything queued and stop the thread." | the pool is dropped, and its objects unlinked, before the terminal has read the names in the last frames |
| `PanicRestores` | `Stdout` | `term/mod.rs:89`, "safe from a panic or signal path" | the hook waits for the lock the writer thread holds |
| `QuitNeedsNoTerminal` | `Stdout`, `PixelIoctl = TRUE`, `Panics = FALSE` | `term/writer.rs:109-112`, "quitting must not depend on the terminal's cooperation" | the abandoned thread keeps the lock of stdout that the restore waits for (`term/mod.rs:90-94`) |
| `QueryReturns` | `Stdout` (no pixel ioctl) | `term/mod.rs:140-142`, "falling back to `CSI 14 t`" | the fallback, called on a resize, waits for the same lock |
| `WriterGoneAtNotice` | `Stdout` | `session.rs:193-194`, "the session and its writer thread are gone by this point" | an abandoned writer is not |
| `KeysTell` | `Tiles` | `render/mod.rs:410-415`, "Two equal keys are the same picture, whatever layout produced them"; `render/mod.rs:672-676`, "this makes the question moot" | a desktop that shrinks and grows back before a frame is drawn leaves a tile with its old key over pixels that are black now: `on_remote_size` marks nothing (`session.rs:609-611`) and `relayout` keeps what has an equal key (`render/mod.rs:534-597`). With `MaxRelayouts = 2`, damage out of sight between two relayouts leaves the key as it was, too, and `replace_all` records places in a frame that is then dropped |
| `HeldIsSent` | `Tiles`, `ResampleFails = TRUE` | `render/mod.rs:994-996`, "a tile counted as held that was never sent is a hole" | after a resampler error the rest of the frame is committed unsent |
| `WaitingEnds` | `Negotiation`, `LateReasons <- AsServerSide` | `session.rs:637-638`, "a later layout may report success" | a success reported as the server's own change does not end the waiting |
| `OneInFlight` | `Negotiation` | `session.rs:697`, "One request at a time."; RENDERING.md:217 | a forced request goes out beside an unanswered one |
| `FallsBack` | `Negotiation`, `CanResize = {FALSE}` | README.md:97-99, "falls back to scaling or a 1:1 view" | native mode chosen again on such a server stays |
| `NativeIsOneToOne` | `Negotiation` | `render/mod.rs:135-136`, "Until it does, or when it refuses, it behaves as a 1:1 window" | `set_mode(Native)` relays out only if the size already matches, so the picture stays scaled until the reply |
| `NoKeyStuck` | `Input`, `Devices = {"keyboard"}` | `term/input.rs:5`, "a down and an up for every key" | the release of a plain prefix letter is swallowed while Ctrl is down |
| `TakenStaysHere` | `Input`, `Devices = {"keyboard"}` | `session.rs:783-784`, "nothing typed at the menu belongs to the remote" | the repeats of a key that closed the menu or named a command are sent |
| `PointerArrives` | `Input`, `Devices = {"mouse"}`, `MaxModes = 0` | `term/input.rs:434-435`, "still ends up where the user left it" | a position held back is sent after the pointer has returned to the last reported one |
| `TypedInStep` | `Input`, `Devices = {"locks"}`, `MaxStrangers = 0`, `MaxTurns = 0`, `MaxPresses = 1` | `session.rs:792-796`, "the remote interprets *this* key with the right lock state" | the lock key is forwarded and corrected for as well, or not yet corrected, so the letter after it is typed with the lock the other way |
| `OneInFlight` | `Requests` | README.md:195-196, "never more than one in flight" | the watchdog or a full refresh asks beside an outstanding request, and from then on two are |
| `RttOfItsProbe` | `Requests`, `MaxProbes = 2` | `session.rs:554`, "Our own probe, back again: the gap is the round trip." | the late answer to an abandoned probe is taken for the next one's |
| `RttOfItsRequest` | `Requests` | `session.rs:470-472`, "when this frame answers a request of ours" | a resize request restarts the clock of the frame request |
| `LetGoOnLeaving` | `Backend`, `MaxSaid = 0`, `MaxPastes = 0` | `session.rs:172-174`, what is held is released before leaving | `close` aborts the write task with the releases in its channel |
| `PanMoves` | `Layout` | `session.rs:916`, "A screenful at a time, clamped to what exists." | after the window has grown, the kept pan is past the edge, and the first step back may show nothing new |
| `PaddedByTheReach` | `Layout` | `render/scale.rs:27-28`, "Damage has to be padded by this much or the edges of a changed region go stale" | damage is padded for a scale of 1 (`render/mod.rs:231`) where Lanczos magnifies and, as `render/scale.rs:40-41` says, reaches further |
| `RoomToScale` | `Layout`, `Windows <- OneRow` | `render/mod.rs:1100`, the test `odd_sizes_do_not_overflow_the_area` | a terminal of one row has an image area of height 0, and `clamp(1, 0)` panics in fit and integer mode |
| `SaidAgain` | `Overlay` | `ui/chrome.rs:103-105`, "a frame the writer was too busy for did not happen and the next one has to say all of it again" | `begin` adopts the new size while composing; if that frame is refused the erase is not said again |
| `OverlaysDeleted` | `Overlay`, `EraseTakes = {FALSE}` | `ui/chrome.rs:33-34`, "whatever was placed last frame and is not wanted this one is deleted" | `begin` forgets what was placed when the size changes; where erasing leaves placements, an overlay that has gone is not deleted |
| `PointerHidden` | `Overlay`, `MaxRefused = 0` | `render/mod.rs:770`, "Draw, move or hide the pointer, whichever it is owed." | `relayout` forgets where the pointer was placed, so one that has left the image or been hidden by then is not taken off |
| `RefusalRead` | `Connect` | `rfb/client/connector.rs:76-81` reads the server's result after type None in 3.8 | and does not look at it, so that after a refusal the reason is met where ServerInit is read |
| `QuitAlone` | `Connect` | `session.rs:179`, "A clean exit is the user quitting." | between sessions no key is read, and the handshake has no time limit: a server that falls silent there holds the process |
| `ComesBack` | `Connect`, `AsksLater = TRUE` | `cli.rs:73`, "Reconnect automatically, with backoff, when the session drops." | only the first connection prompts: a password first wanted at a reconnect is never asked for and every attempt fails |
| `ComesBack` | `Connect`, `Offers <- WithUnknown` | the same | one type `rfb/client/auth.rs:44` does not know fails the whole list (84-86), one it can use included |

Exceptions that are written into a property that holds, for the same reason:

* `Fresh` and `CatchesUp` except what is `unnoticed` (`KeysTell`), until it is sent again: a tile whose pixels changed while it was held for another layout, or went with a part of the
  desktop, and one that a dropped frame noted another place for.
* `NoPhantomRelease` excepts view-only: presses swallowed there are recorded as held (`term/input.rs:10-12` says releases are checked "against the set
  of keys we actually sent a press for").
* `ModifiersMatch` excepts a literal prefix: it releases Ctrl but leaves `synthesised` (`term/input.rs:272`).
* `Settles` excepts windows that change before the first layout: the second change is not asked for (`session.rs:709-710`). It excepts servers that
  cannot resize, too (`FallsBack`).
* `SizesAgree` excepts 0 x 0: `vnc.rs` ignores it and `connection.rs` takes it, although `vnc.rs:186-191` says both are derived the same way.
* `DamageReaches` excepts magnifying Lanczos (`PaddedByTheReach`).
* `ClickLands` demands that every pixel can be clicked on only at 1:1 and when doubling: where the drawn size is rounded down, the last row of remote pixels
  may have no terminal pixel of its own.
* `FollowsTheHand` (`LitIsPointedAt`) lets the cross stay lit for a note there is no room for: it is not drawn, and so not unlit (`ui/toast.rs:66-102`).
* The properties of `Overlay` except what is in `lost`: an erase, an overlay, or a pointer's data or place that was counted as sent with a frame that was
  refused or forgotten by a change of the window (`SaidAgain`, `OverlaysDeleted`, `PointerHidden`; `render/mod.rs:796` for the pointer), for as long as that lasts.
* `ShakenHands` excepts the refusal of `RefusalRead`, `QuitHeard` the silent server of `QuitAlone`.
* `Understood` (`HeardAsSaid`) excepts the texts that are refused or replaced, as described next.

Met on the way, and not stated as properties: `term/shm.rs:9-14` says "One object per *frame*, not per tile", where `render/mod.rs:954` makes one per tile;
a clipboard text that inflates past its cap ends the session (`rfb/client/clipboard.rs:205-217`); `ServerCutText`, Latin-1 in the protocol, is read as UTF-8 with replacement.

## What is not modelled

* **Abstractions.** A picture is a colour per region in `Tiles` and a small number per pixel in `Wire`; a key is its role; a size in `Negotiation` and `Backend` is a symbol, and only
  `Layout` and `Wire` compute with dimensions. The even rounding of `target_size` is part of what a window is in `Negotiation`. `f64` scales are exact fractions in `Layout`,
  so errors of the last bit are out of its sight. Generations and counters do not wrap. A text is its width in `Overlay`.
* **Time** is which of several things happens first, never how long: back-offs, grace periods and pauses are steps that may come at any moment.
* **Tiles and Layout are separate**: `Tiles` takes any layouts that satisfy its assumptions, `Layout` shows the arithmetic they come from.
  In native mode the drawn layout may lag behind the mode; that is in `Negotiation` only.
* **The stream** is decoded in `Wire`, where the channels have room; in `Backend`, where they have not, decoding is one event per message and a decode error is `GoesAway`.
  zlib is the place in a stream and its resets, not its bits, and inflated units a decoder leaves over are an error, where the code looks at compressed bytes only (`rfb/codec/zlib.rs:41-50`); a JPEG is its own size and its pixels, or broken.
* **Left out**: conversions between pixel formats and resampling (arithmetic on pixels); DES; the escape sequences of `term/kitty.rs` and the parsing of a terminal's answers
  (`term/caps.rs`); themes and the raster of a panel (`ui/paint.rs`, `ui/theme.rs`); image ids and the tile budget; the command line and the test pattern, which
  is a demonstration without a remote.

## Plan

Done: the writer with its shared memory, stdout, tiles, layout, the overlays and the pointer, negotiation, keyboard, mouse and lock keys, pacing, backend, the connector with its reconnect loop, the stream with its
codecs and the framebuffer. Left, in this order:

1. An abstract graphics store that `Tiles` implements (the screen shows a recent picture of every tile), as a refinement beside its invariants.
2. Image ids and the tile budget of `TileGrid`; conversions between pixel formats.
3. The parsing of the terminal's answers, which are split over reads and mixed with keys.
