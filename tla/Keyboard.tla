------------------------------- MODULE Keyboard -----------------------------
(***************************************************************************)
(* Keys (term/input.rs, and the key arms of session.rs): what the terminal *)
(* reports becomes what the remote is told, around a prefix chord that is  *)
(* a command of our own, a menu that holds the focus, view-only, and a     *)
(* window that loses the focus with keys held down.                        *)
(*                                                                         *)
(* Where releases are expected the terminal reports presses, repeats and   *)
(* releases of every key, modifiers too; elsewhere it reports presses      *)
(* only, with a bitmask of the modifiers.  Control stands for all six.     *)
(***************************************************************************)
EXTENDS Naturals, Sequences, FiniteSets, SequencesExt

CONSTANTS
    Ctrl, Prefix, Esc,          \* keys with a role of their own
    ViewKey, MenuKey, QuitKey,  \* the commands that matter here
    Letter,                     \* a key bound to nothing
    Unmapped,                   \* a key that has no keysym
    Fingers                     \* bound: keys down at a time

Keys == {Ctrl, Prefix, Esc, ViewKey, MenuKey, QuitKey, Letter, Unmapped}
Modifiers == {Ctrl}

Hand ==
    /\ Fingers \in Nat \ {0}
    /\ Ctrl # Prefix /\ Unmapped \notin {Ctrl, Prefix}

VARIABLES
    mapper,     \* InputMapper, and the flags of Session its outcomes go by
    down,       \* the keys that are down on the keyboard
    focused,    \* the terminal has the focus
    remote,     \* what the remote was told
    past,       \* history: view-only was on, the prefix sent, the focus lost
    ended       \* run() has let go and closed the connection

vars == <<mapper, down, focused, remote, past, ended>>

Keysyms == Keys \ {Unmapped}

TypeOK ==
    /\ mapper \in [expectReleases : BOOLEAN, armed : BOOLEAN,
                   held : SUBSET Keysyms, synthesised : SUBSET Modifiers,
                   view : BOOLEAN, menu : BOOLEAN, quit : BOOLEAN]
    /\ down \subseteq Keys
    /\ focused \in BOOLEAN
    /\ remote \in [down : SUBSET Keysyms, phantom : BOOLEAN, garbled : BOOLEAN]
    /\ past \subseteq {"view", "prefix", "focus"}
    /\ ended \in BOOLEAN

Init ==
    /\ mapper \in [expectReleases : BOOLEAN, armed : {FALSE}, held : {{}},
                   synthesised : {{}}, view : BOOLEAN, menu : {FALSE},
                   quit : {FALSE}]
    /\ down = {}
    /\ focused = TRUE
    /\ remote = [down |-> {}, phantom |-> FALSE, garbled |-> FALSE]
    /\ past = IF mapper.view THEN {"view"} ELSE {}
    /\ ended = FALSE

-----------------------------------------------------------------------------
(* InputMapper.  A result is the mapper, the keys to send in order, and    *)
(* the command to carry out.                                               *)
Result(m, out, cmd) == [m |-> m, out |-> out, cmd |-> cmd]
Ignored(m) == Result(m, <<>>, "none")

Press(r, k) ==
    [r EXCEPT !.m.held = @ \union {k},
              !.out = Append(@, [key |-> k, down |-> TRUE])]

(* Slip: a release is passed on without asking what was pressed.           *)
ReleaseAny(r, k) ==
    [r EXCEPT !.m.held = @ \ {k},
              !.out = Append(@, [key |-> k, down |-> FALSE])]

Release(r, k) ==
    IF k \in r.m.held
      THEN [r EXCEPT !.m.held = @ \ {k},
                     !.out = Append(@, [key |-> k, down |-> FALSE])]
      ELSE r

IsPrefixKey(e) == e.key = Prefix /\ Ctrl \in e.modifiers

CommandFor(k) ==
    CASE k = ViewKey -> "view"
      [] k = MenuKey -> "menu"
      [] k = QuitKey -> "quit"
      [] OTHER -> "none"

HasKeysym(k) == k \in Keysyms

ReleaseIfHeld(m, e) ==
    IF HasKeysym(e.key) THEN Release(Ignored(m), e.key) ELSE Ignored(m)

(* For each modifier: pressed or let go of as the terminal shows it.       *)
SyncModifiers(r, want) ==
    [CASE Ctrl \in want \ r.m.synthesised -> Press(r, Ctrl)
       [] Ctrl \in r.m.synthesised \ want -> Release(r, Ctrl)
       [] OTHER -> r
     EXCEPT !.m.synthesised = want]

Translate(m, e) ==
    LET before == IF m.expectReleases THEN Ignored(m)
                           ELSE SyncModifiers(Ignored(m), e.modifiers)
    IN CASE ~HasKeysym(e.key) -> Ignored(m)
         [] HasKeysym(e.key) /\ e.kind = "release" -> Release(before, e.key)
         [] HasKeysym(e.key) /\ e.kind # "release" /\ m.expectReleases ->
                Press(before, e.key)
         [] HasKeysym(e.key) /\ e.kind # "release" /\ ~m.expectReleases ->
                Release(Press(before, e.key), e.key)

(* Slip: while the prefix is armed, releases are swallowed like the rest.  *)
OnKeyArmedDeaf(m, e) ==
    IF e.kind # "press" THEN Ignored(m)
    ELSE Result([m EXCEPT !.armed = FALSE], <<>>,
                IF IsPrefixKey(e) THEN "prefix" ELSE CommandFor(e.key))

OnKeyArmed(m, e) ==
    CASE e.kind = "release" -> ReleaseIfHeld(m, e)
      [] e.kind = "repeat" -> Ignored(m)
      [] e.kind = "press" ->
            Result([m EXCEPT !.armed = FALSE], <<>>,
                   IF IsPrefixKey(e) THEN "prefix" ELSE CommandFor(e.key))

OnKey(m, e) ==
    CASE m.armed -> OnKeyArmed(m, e)
      [] ~m.armed /\ IsPrefixKey(e) ->
            Ignored([m EXCEPT !.armed = e.kind = "press"])
      [] OTHER -> Translate(m, e)

OnKeyLocal(m, e) ==
    IF e.kind # "release" /\ ~m.armed /\ ~IsPrefixKey(e)
      THEN Ignored(m)
      ELSE OnKey(m, e)

LiteralPrefix(m) ==
    Release(Release(Press(Press(Ignored(m), Ctrl), Prefix), Prefix), Ctrl)

Releases(keys) ==
    [i \in 1 .. Cardinality(keys) |-> [key |-> SetToSeq(keys)[i], down |-> FALSE]]

(* Slip: the modifiers are all that is released.                           *)
ReleaseModifiers(m) ==
    Result([m EXCEPT !.held = @ \ Modifiers, !.synthesised = {}],
           Releases(m.held \intersect Modifiers), "none")

(* The record is emptied, in an order that does not matter here.           *)
ReleaseAll(m) ==
    Result([m EXCEPT !.held = {}, !.synthesised = {}], Releases(m.held), "none")

-----------------------------------------------------------------------------
(* Session.  on_command's result is again a mapper and keys to send; what  *)
(* release_input sends goes out in view-only too.                          *)
ToggleViewOnly(m) ==
    LET to == [m EXCEPT !.view = ~@] IN
    IF to.view THEN ReleaseAll(to) ELSE Ignored(to)

OnCommand(m, cmd) ==
    CASE cmd = "none" -> Ignored(m)
      [] cmd = "prefix" /\ (m.view \/ m.menu) -> Ignored(m)
      [] cmd = "prefix" /\ ~m.view /\ ~m.menu -> LiteralPrefix(m)
      [] cmd = "view" -> ToggleViewOnly(m)
      [] cmd = "menu" -> Ignored([m EXCEPT !.menu = ~@])
      [] cmd = "quit" -> Ignored([m EXCEPT !.quit = TRUE])

OnTerminalKey(m, e) ==
    IF m.menu /\ e.key = Esc /\ e.kind = "press"
      THEN Ignored([m EXCEPT !.menu = FALSE])
      ELSE LET r == IF m.menu THEN OnKeyLocal(m, e) ELSE OnKey(m, e) IN
           CASE r.cmd # "none" -> OnCommand(r.m, r.cmd)
             [] r.cmd = "none" /\ r.m.view -> Ignored(r.m)
             [] OTHER -> r

-----------------------------------------------------------------------------
(* The remote, told one key after another: what is down after n of them,   *)
(* and whether it was told to let go of one that was not.                  *)
IsDown(k, out, n) ==
    \/ k \in remote.down /\ \A i \in 1 .. n : out[i].key # k
    \/ \E i \in 1 .. n : /\ out[i].key = k /\ out[i].down
                        /\ \A j \in i + 1 .. n : out[j].key # k
Tell(out) ==
    [remote EXCEPT
       !.down = {k \in Keysyms : IsDown(k, out, Len(out))},
       !.phantom = @ \/ \E i \in 1 .. Len(out) :
                            ~out[i].down /\ ~IsDown(out[i].key, out, i - 1)]

(* A key event, and what the remote makes of it: garbled if the key it is  *)
(* meant to press is struck with other modifiers than the terminal showed. *)
Strikes(e, out) ==
    \E i \in DOMAIN out : out[i].key = e.key /\ out[i].down
Event(e) ==
    LET r == OnTerminalKey(mapper, e)
        modifiers == Tell(r.out).down \intersect Modifiers
    IN /\ mapper' = r.m
       /\ past' = past \union (IF r.m.view THEN {"view"} ELSE {}) \union
                    (IF mapper.armed /\ IsPrefixKey(e) /\ e.kind = "press"
                       THEN {"prefix"} ELSE {})
       /\ remote' =
            [Tell(r.out) EXCEPT
               !.garbled = @ \/ (/\ e.key \notin Modifiers /\ ~mapper.armed
                                 /\ Strikes(e, r.out)
                                 /\ modifiers # e.modifiers)]

Running == ~mapper.quit /\ ~ended

KeyDown == \E k \in Keys \ down :
    /\ mapper.expectReleases /\ focused /\ Running
    /\ Cardinality(down) < Fingers
    /\ Event([key |-> k, kind |-> "press", modifiers |-> down \intersect Modifiers])
    /\ down' = down \union {k}
    /\ UNCHANGED <<focused, ended>>

KeyRepeat == \E k \in down :
    /\ mapper.expectReleases /\ focused /\ Running
    /\ Event([key |-> k, kind |-> "repeat", modifiers |-> down \intersect Modifiers])
    /\ UNCHANGED <<down, focused, ended>>

KeyUp == \E k \in down :
    /\ mapper.expectReleases /\ focused /\ Running
    /\ Event([key |-> k, kind |-> "release",
              modifiers |-> (down \ {k}) \intersect Modifiers])
    /\ down' = down \ {k}
    /\ UNCHANGED <<focused, ended>>

(* Without releases: a press, and the modifiers that were down with it.       *)
KeyTyped == \E k \in Keys \ Modifiers, mods \in SUBSET Modifiers :
    /\ ~mapper.expectReleases /\ focused /\ Running
    /\ Event([key |-> k, kind |-> "press", modifiers |-> mods])
    /\ UNCHANGED <<down, focused, ended>>

(* The menu offers view-only and quitting to the pointer as well.          *)
MenuClick == \E cmd \in {"view", "quit"} :
    /\ mapper.menu /\ Running
    /\ LET r == OnCommand(mapper, cmd) IN
        /\ mapper' = r.m
        /\ remote' = Tell(r.out)
        /\ past' = past \union (IF r.m.view THEN {"view"} ELSE {})
    /\ UNCHANGED <<down, focused, ended>>

FocusLost ==
    /\ focused /\ Running
    /\ focused' = FALSE
    /\ mapper' = ReleaseAll(mapper).m
    /\ remote' = Tell(ReleaseAll(mapper).out)
    /\ past' = past \union {"focus"}
    /\ UNCHANGED <<down, ended>>

(* Nobody hears of the keys let go of elsewhere.                           *)
FocusGained == \E still \in SUBSET down :
    /\ ~focused /\ Running
    /\ focused' = TRUE
    /\ down' = still
    /\ UNCHANGED <<mapper, remote, past, ended>>

Leave ==
    /\ mapper.quit /\ ~ended
    /\ ended' = TRUE
    /\ mapper' = ReleaseAll(mapper).m
    /\ remote' = Tell(ReleaseAll(mapper).out)
    /\ UNCHANGED <<down, focused, past>>

Next == KeyDown \/ KeyRepeat \/ KeyUp \/ KeyTyped \/ MenuClick
        \/ FocusLost \/ FocusGained \/ Leave
Spec == Init /\ [][Next]_vars

-----------------------------------------------------------------------------
(* "Never release what was not pressed": no release reaches the remote for *)
(* a key it was not told is down, whatever was swallowed in between, while *)
(* view-only was never on: there presses are recorded and not sent.        *)
NoPhantomRelease == remote.phantom => "view" \in past

(* The remote has nothing down that is not down here: what the prefix, the *)
(* menu, view-only and the focus swallow never includes the release of a   *)
(* key whose press went out.  The prefix letter is the exception that      *)
(* NoKeyStuck is about.  Without releases to go by, only a modifier is     *)
(* left down, and only one that the next event can take up again.          *)
NothingStuck ==
    IF mapper.expectReleases
      THEN focused /\ ~ended => remote.down \subseteq down \union {Prefix}
      ELSE remote.down \subseteq mapper.synthesised

(* Losing the focus, turning view-only on and leaving let go of everything *)
(* the remote was told is down: a modifier left down outlives us.          *)
LetGo == (~focused \/ mapper.view \/ ended) => remote.down = {}

(* "Bring the remote's modifier state in line with the reported bitmask":  *)
(* a key is struck over there with the modifiers it had here, until a      *)
(* prefix sent through, or view-only, leaves the record of them wrong.     *)
ModifiersMatch ==
    remote.garbled => mapper.expectReleases \/ past \ {"focus"} # {}

(* "The remote wants a down and an up for every key."                      *)
NoKeyStuck ==
    (focused /\ ~ended /\ mapper.expectReleases) => remote.down \subseteq down

(* "nothing typed at the menu belongs to the remote": a key taken for a    *)
(* command or by the menu is not struck over there while it stays down.    *)
TakenStaysHere ==
    [][past' = {} => \A k \in down \intersect down' :
                        k \in remote'.down => k \in remote.down]_vars
=============================================================================
