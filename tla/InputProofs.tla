----------------------------- MODULE InputProofs -----------------------------
(***************************************************************************)
(* Keys and buttons: what the remote was told is down, and what the mapper *)
(* will let go of.                                                         *)
(***************************************************************************)
EXTENDS Input, FiniteSetTheorems, SequenceTheorems, TLAPS

LEMMA KeyTypes == K!Hand /\ Ctrl # Prefix /\ Unmapped \notin {Ctrl, Prefix}
                  /\ Ctrl \in K!Keysyms /\ Prefix \in K!Keysyms
                  /\ K!Keysyms \subseteq K!Keys /\ IsFiniteSet(K!Keysyms)
<1>1. K!Hand
    BY InputBounds
<1>2. IsFiniteSet({}) /\ \A S, x : IsFiniteSet(S) => IsFiniteSet(S \cup {x})
    BY FS_EmptySet, FS_AddElement
<1>3. K!Keys = (((((((({} \cup {Ctrl}) \cup {Prefix}) \cup {Esc}) \cup {ViewKey})
                 \cup {MenuKey}) \cup {QuitKey}) \cup {Letter}) \cup {Unmapped})
    BY DEF K!Keys
<1>4. IsFiniteSet(K!Keys)
    BY <1>2, <1>3
<1>5. IsFiniteSet(K!Keysyms)
    BY <1>4, FS_Subset DEF K!Keysyms
<1> QED
    BY <1>1, <1>5 DEF K!Hand, K!Keysyms, K!Keys

(* An instance has names of its own for the library's operators.           *)
LEMMA SameCardinality ==
    \A S : K!Cardinality(S) = Cardinality(S)
BY DEF K!Cardinality, Cardinality

(* A finite set in some order has every element in one place.              *)
LEMMA InSomeOrder ==
    ASSUME NEW S, IsFiniteSet(S)
    PROVE  LET s == K!SetToSeq(S)
           IN  /\ Cardinality(S) \in Nat
               /\ s \in [1 .. Cardinality(S) -> S]
               /\ \A i, j \in 1 .. Cardinality(S) : s[i] = s[j] => i = j
               /\ \A x \in S : \E i \in 1 .. Cardinality(S) : s[i] = x
<1> DEFINE n == Cardinality(S)
           s == K!SetToSeq(S)
<1>1. n \in Nat /\ ExistsBijection(1 .. n, S)
    BY FS_CardinalityType
<1>2. PICK f \in [1 .. n -> S] : \A i, j \in 1 .. n : f[i] = f[j] => i = j
    BY <1>1 DEF ExistsBijection, Bijection, Injection, IsInjective
<1>3. s \in [1 .. n -> S] /\ K!IsInjective(s)
    <2>1. \E g \in [1 .. n -> S] : K!IsInjective(g)
        BY <1>2 DEF K!IsInjective
    <2> QED
        BY <2>1, SameCardinality DEF K!SetToSeq
<1> HIDE DEF s
<1>4. \A i, j \in 1 .. n : s[i] = s[j] => i = j
    BY <1>3 DEF K!IsInjective
<1>5. ASSUME NEW x \in S, \A i \in 1 .. n : s[i] # x
      PROVE  FALSE
    <2>1. IsFiniteSet(S \ {x}) /\ Cardinality(S \ {x}) = n - 1
        BY FS_RemoveElement
    <2>2. IsFiniteSet(1 .. n) /\ Cardinality(1 .. n) = n
        BY <1>1, FS_Interval
    <2>3. s \in [1 .. n -> S \ {x}]
        BY <1>3, <1>5
    <2>4. \E i, j \in 1 .. n : i # j /\ s[i] = s[j]
        BY <1>1, <2>1, <2>2, <2>3, FS_PigeonHole
    <2> QED
        BY <1>4, <2>4
<1> QED
    BY <1>1, <1>3, <1>4, <1>5 DEF s

-----------------------------------------------------------------------------
(* The remote, told one key more.                                          *)
Key == [key : K!Keysyms, down : BOOLEAN]
Remote == [down : SUBSET K!Keysyms, phantom : BOOLEAN, garbled : BOOLEAN]

LEMMA OneMoreKey ==
    ASSUME NEW out \in Seq(Key), NEW p \in Key
    PROVE  /\ Append(out, p) \in Seq(Key) /\ Len(out) \in Nat
           /\ Len(Append(out, p)) = Len(out) + 1
           /\ \A i \in 1 .. Len(out) : Append(out, p)[i] = out[i]
           /\ Append(out, p)[Len(out) + 1] = p
BY AppendProperties, LenProperties

LEMMA DownAfter ==
    ASSUME NEW out \in Seq(Key), NEW p \in Key, NEW k
    PROVE  /\ K!IsDown(k, Append(out, p), Len(out) + 1) <=>
                 IF p.key = k THEN p.down ELSE K!IsDown(k, out, Len(out))
           /\ \A n \in 0 .. Len(out) :
                 K!IsDown(k, Append(out, p), n) <=> K!IsDown(k, out, n)
<1> DEFINE a == Append(out, p)
<1>1. /\ a \in Seq(Key) /\ Len(out) \in Nat
      /\ \A i \in 1 .. Len(out) : a[i] = out[i]
      /\ a[Len(out) + 1] = p
    BY OneMoreKey
<1> HIDE DEF a
<1>2. ASSUME NEW n \in 0 .. Len(out)
      PROVE  K!IsDown(k, a, n) <=> K!IsDown(k, out, n)
    <2>1. /\ \A i \in 1 .. n : a[i] = out[i]
          /\ \A i \in 1 .. n : \A j \in i + 1 .. n : a[j] = out[j]
        BY <1>1
    <2> QED
        BY <2>1 DEF K!IsDown
<1>3. CASE p.key = k
    <2>1. ~(\A i \in 1 .. Len(out) + 1 : a[i].key # k)
        BY <1>1, <1>3
    <2>2. \A i \in 1 .. Len(out) : Len(out) + 1 \in i + 1 .. Len(out) + 1
        BY <1>1
    <2>3. \A j \in Len(out) + 1 + 1 .. Len(out) + 1 : FALSE
        BY <1>1
    <2>4. K!IsDown(k, a, Len(out) + 1) <=> p.down
        BY <1>1, <1>3, <2>1, <2>2, <2>3 DEF K!IsDown
    <2> QED
        BY <1>2, <1>3, <2>4 DEF a
<1>4. CASE p.key # k
    <2>1. K!IsDown(k, a, Len(out) + 1) <=> K!IsDown(k, a, Len(out))
        <3>1. (\A i \in 1 .. Len(out) + 1 : a[i].key # k) <=>
              (\A i \in 1 .. Len(out) : a[i].key # k)
            BY <1>1, <1>4
        <3>2. \A i \in 1 .. Len(out) :
                (\A j \in i + 1 .. Len(out) + 1 : a[j].key # k) <=>
                (\A j \in i + 1 .. Len(out) : a[j].key # k)
            BY <1>1, <1>4
        <3> QED
            BY SMTT(20), <1>1, <1>4, <3>1, <3>2 DEF K!IsDown
    <2> QED
        BY <1>1, <1>2, <1>4, <2>1 DEF a
<1> QED
    BY <1>3, <1>4

LEMMA TellAppend ==
    ASSUME remote \in Remote, NEW out \in Seq(Key), NEW p \in Key
    PROVE  LET t == K!Tell(out)  u == K!Tell(Append(out, p))
           IN  /\ t \in Remote /\ u \in Remote
               /\ u.down = IF p.down THEN t.down \cup {p.key} ELSE t.down \ {p.key}
               /\ u.phantom <=> t.phantom \/ (~p.down /\ p.key \notin t.down)
               /\ u.garbled = t.garbled
<1> DEFINE a == Append(out, p)
           bad(o, i) == ~o[i].down /\ ~K!IsDown(o[i].key, o, i - 1)
<1>1. /\ a \in Seq(Key) /\ Len(out) \in Nat /\ Len(a) = Len(out) + 1
      /\ \A i \in 1 .. Len(out) : a[i] = out[i]
      /\ a[Len(out) + 1] = p
    BY OneMoreKey
<1>2. /\ \A k : K!IsDown(k, a, Len(out) + 1) <=>
                  IF p.key = k THEN p.down ELSE K!IsDown(k, out, Len(out))
      /\ \A k : \A n \in 0 .. Len(out) : K!IsDown(k, a, n) <=> K!IsDown(k, out, n)
    BY DownAfter
<1> HIDE DEF a
<1>3. ASSUME NEW o
      PROVE  /\ K!Tell(o) \in Remote
             /\ K!Tell(o).down = {k \in K!Keysyms : K!IsDown(k, o, Len(o))}
             /\ K!Tell(o).phantom <=> remote.phantom \/ \E i \in 1 .. Len(o) : bad(o, i)
             /\ K!Tell(o).garbled = remote.garbled
    BY DEF K!Tell, Remote
<1>4. p.key \in K!Keysyms /\ p.down \in BOOLEAN
    BY DEF Key
<1> HIDE DEF bad
<1>5. K!Tell(a).down = IF p.down THEN K!Tell(out).down \cup {p.key}
                                 ELSE K!Tell(out).down \ {p.key}
    <2>1. K!Tell(a).down = {k \in K!Keysyms : K!IsDown(k, a, Len(out) + 1)}
        BY <1>1, <1>3
    <2>2. K!Tell(out).down = {k \in K!Keysyms : K!IsDown(k, out, Len(out))}
        BY <1>3
    <2> QED
        BY <1>2, <1>4, <2>1, <2>2
<1>6. \A i \in 1 .. Len(out) : bad(a, i) <=> bad(out, i)
    BY <1>1, <1>2 DEF bad
<1>7. bad(a, Len(out) + 1) <=> ~p.down /\ p.key \notin K!Tell(out).down
    <2>1. (Len(out) + 1) - 1 = Len(out) /\ Len(out) \in 0 .. Len(out)
        BY <1>1
    <2>2. bad(a, Len(out) + 1) <=> ~p.down /\ ~K!IsDown(p.key, a, Len(out))
        BY <1>1, <2>1 DEF bad
    <2>3. K!IsDown(p.key, a, Len(out)) <=> K!IsDown(p.key, out, Len(out))
        BY <1>2, <2>1
    <2>4. p.key \in K!Tell(out).down <=> K!IsDown(p.key, out, Len(out))
        BY <1>3, <1>4
    <2> QED
        BY <2>2, <2>3, <2>4
<1>8. K!Tell(a).phantom <=> K!Tell(out).phantom \/ (~p.down /\ p.key \notin K!Tell(out).down)
    <2>1. \A i \in 1 .. Len(a) : i \in 1 .. Len(out) \/ i = Len(out) + 1
        BY <1>1
    <2>2. Len(out) + 1 \in 1 .. Len(a) /\ \A i \in 1 .. Len(out) : i \in 1 .. Len(a)
        BY <1>1
    <2>3. (\E i \in 1 .. Len(a) : bad(a, i)) <=>
            (\E i \in 1 .. Len(out) : bad(out, i)) \/ bad(a, Len(out) + 1)
        BY <1>6, <2>1, <2>2
    <2> QED
        BY <1>3, <1>7, <2>3
<1> QED
    BY <1>3, <1>5, <1>8 DEF a

LEMMA TellNothing ==
    ASSUME remote \in Remote
    PROVE  K!Tell(<<>>) = remote
<1>1. \A i \in 1 .. Len(<<>>) : FALSE
    OBVIOUS
<1>2. {k \in K!Keysyms : K!IsDown(k, <<>>, Len(<<>>))} = remote.down
    BY <1>1 DEF K!IsDown, Remote
<1>3. K!Tell(<<>>) = [remote EXCEPT !.down = remote.down, !.phantom = remote.phantom]
    BY <1>1, <1>2 DEF K!Tell, Remote
<1> QED
    BY <1>3 DEF Remote

LEMMA TellReleases ==
    ASSUME remote \in Remote, NEW S \in SUBSET K!Keysyms
    PROVE  LET out == K!Releases(S)
           IN  /\ out \in Seq(Key) /\ K!Tell(out) \in Remote
               /\ K!Tell(out).down = remote.down \ S
               /\ K!Tell(out).phantom => remote.phantom \/ ~(S \subseteq remote.down)
               /\ K!Tell(out).garbled = remote.garbled
               /\ \A i \in 1 .. Len(out) : ~out[i].down
<1> DEFINE n == Cardinality(S)
           s == K!SetToSeq(S)
           out == K!Releases(S)
<1>1. /\ n \in Nat /\ s \in [1 .. n -> S]
      /\ \A i, j \in 1 .. n : s[i] = s[j] => i = j
      /\ \A x \in S : \E i \in 1 .. n : s[i] = x
    BY InSomeOrder, KeyTypes, FS_Subset
<1>2. out = [i \in 1 .. n |-> [key |-> s[i], down |-> FALSE]]
    BY SameCardinality DEF K!Releases
<1> HIDE DEF s, n, out
<1>3. /\ out \in Seq(Key) /\ Len(out) = n
      /\ \A i \in 1 .. n : out[i].key = s[i] /\ out[i].down = FALSE
    BY <1>1, <1>2 DEF Key
<1>4. \A k \in K!Keysyms : K!IsDown(k, out, n) <=> k \in remote.down \ S
    BY <1>1, <1>3 DEF K!IsDown
<1>5. ASSUME NEW i \in 1 .. n, s[i] \in remote.down
      PROVE  K!IsDown(out[i].key, out, i - 1)
    <2>1. \A j \in 1 .. i - 1 : j \in 1 .. n /\ j # i
        BY <1>1
    <2> QED
        BY <1>1, <1>3, <1>5, <2>1 DEF K!IsDown
<1>6. /\ K!Tell(out) \in Remote
      /\ K!Tell(out).down = {k \in K!Keysyms : K!IsDown(k, out, n)}
      /\ K!Tell(out).phantom <=> remote.phantom \/ \E i \in 1 .. n :
            ~out[i].down /\ ~K!IsDown(out[i].key, out, i - 1)
      /\ K!Tell(out).garbled = remote.garbled
    BY <1>3 DEF K!Tell, Remote
<1>7. K!Tell(out).down = remote.down \ S
    BY <1>4, <1>6 DEF Remote
<1>8. K!Tell(out).phantom => remote.phantom \/ ~(S \subseteq remote.down)
    BY <1>1, <1>5, <1>6
<1> QED
    BY <1>3, <1>6, <1>7, <1>8 DEF out

-----------------------------------------------------------------------------
(* The mapper's results.  What the remote will have down is in the record  *)
(* of what is held, so that none of it can be forgotten; and a record that *)
(* matches the remote to begin with goes on matching it.                   *)
Mapper == [expectReleases : BOOLEAN, armed : BOOLEAN,
           held : SUBSET K!Keysyms, synthesised : SUBSET K!Modifiers,
           view : BOOLEAN, menu : BOOLEAN, quit : BOOLEAN]
Commands == {"none", "prefix", "view", "menu", "quit"}

After(r) == K!Tell(r.out)

Recorded(r) ==
    /\ r \in [m : Mapper, out : Seq(Key), cmd : Commands]
    /\ After(r) \in Remote
    /\ After(r).down \subseteq r.m.held
Exact(r) == After(r).down = r.m.held /\ After(r).phantom = remote.phantom

(* The fields of a mapper that keys leave alone, and all but the record.   *)
SameModes(m, n) ==
    /\ m.expectReleases = n.expectReleases /\ m.view = n.view
    /\ m.menu = n.menu /\ m.quit = n.quit
SameBut(m, n) == SameModes(m, n) /\ m.armed = n.armed /\ m.synthesised = n.synthesised

LEMMA NothingSent ==
    ASSUME remote \in Remote, NEW m \in Mapper, remote.down \subseteq m.held
    PROVE  LET r == K!Ignored(m)
           IN  /\ Recorded(r) /\ r.m = m /\ r.out = <<>> /\ r.cmd = "none"
               /\ After(r) = remote
               /\ remote.down = m.held => Exact(r)
<1>1. K!Ignored(m) = [m |-> m, out |-> <<>>, cmd |-> "none"]
    BY DEF K!Ignored, K!Result
<1> QED
    BY <1>1, TellNothing DEF Recorded, Exact, After, Commands

LEMMA Pressed ==
    ASSUME remote \in Remote, NEW r, Recorded(r), NEW k \in K!Keysyms
    PROVE  LET s == K!Press(r, k)
           IN  /\ Recorded(s) /\ SameBut(s.m, r.m) /\ s.cmd = r.cmd
               /\ After(s).down = After(r).down \cup {k}
               /\ s.out = Append(r.out, [key |-> k, down |-> TRUE])
               /\ s.m.held = r.m.held \cup {k}
               /\ Exact(r) => Exact(s)
<1> DEFINE p == [key |-> k, down |-> TRUE]
           s == K!Press(r, k)
<1>1. p \in Key /\ p.key = k /\ p.down = TRUE
    BY DEF Key
<1>2. r \in [m : Mapper, out : Seq(Key), cmd : Commands]
    BY DEF Recorded
<1>3. /\ s.out = Append(r.out, p) /\ s.cmd = r.cmd /\ s.m.held = r.m.held \cup {k}
      /\ SameBut(s.m, r.m) /\ s.m \in Mapper
      /\ s \in [m : Mapper, out : {Append(r.out, p)}, cmd : Commands]
    BY <1>2 DEF K!Press, Mapper, SameBut, SameModes
<1> HIDE DEF p, s
<1>4. Append(r.out, p) \in Seq(Key)
    BY <1>1, <1>2, OneMoreKey
<1>5. /\ After(s) \in Remote /\ After(s).down = After(r).down \cup {k}
      /\ After(s).phantom <=> After(r).phantom
    BY <1>1, <1>2, <1>3, TellAppend DEF After
<1>6. After(s).phantom = After(r).phantom
    BY <1>5 DEF Remote, Recorded
<1>7. Recorded(s)
    BY <1>3, <1>4, <1>5 DEF Recorded
<1> QED
    BY <1>3, <1>5, <1>6, <1>7 DEF Exact, p, s

LEMMA Released ==
    ASSUME remote \in Remote, NEW r, Recorded(r), NEW k \in K!Keysyms
    PROVE  LET s == K!Release(r, k)
           IN  /\ Recorded(s) /\ SameBut(s.m, r.m) /\ s.cmd = r.cmd
               /\ After(s).down = After(r).down \ {k}
               /\ s.out \in {r.out, Append(r.out, [key |-> k, down |-> FALSE])}
               /\ s.m.held = r.m.held \ {k}
               /\ Exact(r) => Exact(s)
<1> DEFINE p == [key |-> k, down |-> FALSE]
           s == K!Release(r, k)
<1>1. p \in Key /\ p.key = k /\ p.down = FALSE
    BY DEF Key
<1>2. /\ r \in [m : Mapper, out : Seq(Key), cmd : Commands]
      /\ After(r) \in Remote /\ After(r).down \subseteq r.m.held
    BY DEF Recorded
<1>3. CASE k \notin r.m.held
    <2>1. s = r
        BY <1>3 DEF K!Release
    <2> HIDE DEF s
    <2> QED
        BY <1>2, <1>3, <2>1 DEF SameBut, SameModes, s
<1>4. CASE k \in r.m.held
    <2>1. /\ s.out = Append(r.out, p) /\ s.cmd = r.cmd /\ s.m.held = r.m.held \ {k}
          /\ SameBut(s.m, r.m) /\ s.m \in Mapper
          /\ s \in [m : Mapper, out : {Append(r.out, p)}, cmd : Commands]
        BY <1>2, <1>4 DEF K!Release, Mapper, SameBut, SameModes
    <2> HIDE DEF p, s
    <2>2. Append(r.out, p) \in Seq(Key)
        BY <1>1, <1>2, OneMoreKey
    <2>3. /\ After(s) \in Remote /\ After(s).down = After(r).down \ {k}
          /\ After(s).phantom <=> After(r).phantom \/ k \notin After(r).down
        <3>1. r.out \in Seq(Key)
            BY <1>2
        <3>2. /\ K!Tell(Append(r.out, p)) \in Remote
              /\ K!Tell(Append(r.out, p)).down = K!Tell(r.out).down \ {k}
              /\ K!Tell(Append(r.out, p)).phantom <=>
                    K!Tell(r.out).phantom \/ k \notin K!Tell(r.out).down
            BY <1>1, <3>1, TellAppend
        <3> QED
            BY <2>1, <3>2 DEF After
    <2>4. Exact(r) => After(s).phantom = After(r).phantom
        BY <1>4, <2>3 DEF Remote, Recorded, Exact
    <2>5. Recorded(s)
        BY <1>2, <2>1, <2>2, <2>3 DEF Recorded
    <2> QED
        BY <2>1, <2>3, <2>4, <2>5 DEF Exact, p, s
<1> QED
    BY <1>3, <1>4

LEMMA Synced ==
    ASSUME remote \in Remote, NEW r, Recorded(r), NEW want \in SUBSET K!Modifiers
    PROVE  LET s == K!SyncModifiers(r, want)
           IN  /\ Recorded(s) /\ SameModes(s.m, r.m) /\ s.m.armed = r.m.armed
               /\ s.m.synthesised = want /\ s.cmd = r.cmd
               /\ Exact(r) => Exact(s)
               /\ After(r).down \subseteq r.m.synthesised => After(s).down \subseteq want
               /\ After(r).down = r.m.synthesised => After(s).down = want
<1> DEFINE t == CASE Ctrl \in want \ r.m.synthesised -> K!Press(r, Ctrl)
                  [] Ctrl \in r.m.synthesised \ want -> K!Release(r, Ctrl)
                  [] OTHER -> r
           s == K!SyncModifiers(r, want)
<1>1. Ctrl \in K!Keysyms /\ K!Modifiers = {Ctrl}
    BY KeyTypes DEF K!Modifiers
<1>2. r.m.synthesised \in SUBSET {Ctrl}
    BY <1>1 DEF Recorded, Mapper
<1>3. /\ Recorded(t) /\ SameBut(t.m, r.m) /\ t.cmd = r.cmd
      /\ Exact(r) => Exact(t)
      /\ After(r).down \subseteq r.m.synthesised => After(t).down \subseteq want
      /\ After(r).down = r.m.synthesised => After(t).down = want
    <2>1. CASE Ctrl \in want \ r.m.synthesised
        <3>1. t = K!Press(r, Ctrl)
            BY <2>1
        <3> HIDE DEF t
        <3>2. /\ Recorded(t) /\ SameBut(t.m, r.m) /\ t.cmd = r.cmd
              /\ After(t).down = After(r).down \cup {Ctrl}
              /\ Exact(r) => Exact(t)
            BY <1>1, <3>1, Pressed
        <3>3. want = {Ctrl} /\ r.m.synthesised = {}
            BY <1>1, <1>2, <2>1
        <3> QED
            BY <3>2, <3>3
    <2>2. CASE Ctrl \in r.m.synthesised \ want
        <3>1. t = K!Release(r, Ctrl)
            BY <2>2
        <3> HIDE DEF t
        <3>2. /\ Recorded(t) /\ SameBut(t.m, r.m) /\ t.cmd = r.cmd
              /\ After(t).down = After(r).down \ {Ctrl}
              /\ Exact(r) => Exact(t)
            BY <1>1, <3>1, Released
        <3>3. want = {} /\ r.m.synthesised = {Ctrl}
            BY <1>1, <1>2, <2>2
        <3> QED
            BY <3>2, <3>3
    <2>3. CASE Ctrl \notin want \ r.m.synthesised /\ Ctrl \notin r.m.synthesised \ want
        <3>1. t = r
            BY <2>3
        <3>2. r.m.synthesised = want
            BY <1>1, <1>2, <2>3
        <3> HIDE DEF t
        <3> QED
            BY <3>1, <3>2 DEF SameBut, SameModes
    <2> QED
        BY <2>1, <2>2, <2>3
<1>4. s = [t EXCEPT !.m.synthesised = want]
    BY DEF K!SyncModifiers
<1> HIDE DEF t
<1>5. /\ s.m.held = t.m.held /\ s.m.armed = t.m.armed /\ s.m.synthesised = want
      /\ SameModes(s.m, t.m) /\ s.out = t.out /\ s.cmd = t.cmd
      /\ s \in [m : Mapper, out : {t.out}, cmd : {t.cmd}]
    BY <1>3, <1>4 DEF Recorded, Mapper, SameModes
<1> HIDE DEF s
<1>6. Recorded(s) /\ After(s) = After(t)
    BY <1>3, <1>5 DEF Recorded, After
<1>7. Exact(t) => Exact(s)
    BY <1>5, <1>6 DEF Exact
<1> QED
    BY <1>3, <1>5, <1>6, <1>7 DEF SameBut, SameModes, s

LEMMA AllReleased ==
    ASSUME remote \in Remote, NEW m \in Mapper, remote.down \subseteq m.held
    PROVE  LET r == K!ReleaseAll(m)
           IN  /\ Recorded(r) /\ SameModes(r.m, m) /\ r.cmd = "none"
               /\ r.m.held = {} /\ r.m.synthesised = {} /\ After(r).down = {}
               /\ After(r).garbled = remote.garbled
               /\ remote.down = m.held => Exact(r)
               /\ \A i \in 1 .. Len(r.out) : ~r.out[i].down
<1> DEFINE n == [m EXCEPT !.held = {}, !.synthesised = {}]
           r == K!ReleaseAll(m)
<1>1. r = [m |-> n, out |-> K!Releases(m.held), cmd |-> "none"]
    BY DEF K!ReleaseAll, K!Result
<1>2. n \in Mapper /\ SameModes(n, m) /\ n.held = {} /\ n.synthesised = {}
    BY DEF Mapper, SameModes
<1>3. m.held \in SUBSET K!Keysyms
    BY DEF Mapper
<1> HIDE DEF n
<1>4. /\ K!Releases(m.held) \in Seq(Key) /\ K!Tell(K!Releases(m.held)) \in Remote
      /\ K!Tell(K!Releases(m.held)).down = remote.down \ m.held
      /\ K!Tell(K!Releases(m.held)).phantom =>
            remote.phantom \/ ~(m.held \subseteq remote.down)
      /\ K!Tell(K!Releases(m.held)).garbled = remote.garbled
      /\ \A i \in 1 .. Len(K!Releases(m.held)) : ~K!Releases(m.held)[i].down
    BY <1>3, TellReleases
<1>5. remote.phantom => K!Tell(K!Releases(m.held)).phantom
    BY DEF K!Tell, Remote
<1>6. Recorded(r)
    BY <1>1, <1>2, <1>4 DEF Recorded, After, Commands
<1> HIDE DEF r
<1>7. After(r) = K!Tell(K!Releases(m.held)) /\ r.m = n /\ r.cmd = "none"
      /\ r.out = K!Releases(m.held)
    BY <1>1 DEF After
<1>8. ASSUME remote.down = m.held
      PROVE  Exact(r)
    <2>1. K!Tell(K!Releases(m.held)).phantom <=> remote.phantom
        BY <1>4, <1>5, <1>8
    <2>2. After(r).phantom = remote.phantom
        BY <1>4, <1>7, <2>1 DEF Remote
    <2> QED
        BY <1>2, <1>4, <1>7, <1>8, <2>2 DEF Exact
<1> QED
    BY <1>2, <1>4, <1>6, <1>7, <1>8 DEF r

LEMMA PrefixSent ==
    ASSUME remote \in Remote, NEW m \in Mapper, remote.down \subseteq m.held
    PROVE  LET r == K!LiteralPrefix(m)
           IN  /\ Recorded(r) /\ SameBut(r.m, m) /\ r.cmd = "none"
               /\ After(r).down = remote.down \ {Ctrl, Prefix}
               /\ remote.down = m.held => Exact(r)
<1> DEFINE a == K!Ignored(m)
           b == K!Press(a, Ctrl)
           c == K!Press(b, Prefix)
           d == K!Release(c, Prefix)
           e == K!Release(d, Ctrl)
<1>1. /\ Recorded(a) /\ a.m = m /\ After(a) = remote /\ a.cmd = "none"
      /\ remote.down = m.held => Exact(a)
    BY NothingSent
<1> HIDE DEF a
<1>2. /\ Recorded(b) /\ SameBut(b.m, a.m) /\ b.cmd = a.cmd
      /\ After(b).down = After(a).down \cup {Ctrl} /\ (Exact(a) => Exact(b))
    BY <1>1, KeyTypes, Pressed
<1> HIDE DEF b
<1>3. /\ Recorded(c) /\ SameBut(c.m, b.m) /\ c.cmd = b.cmd
      /\ After(c).down = After(b).down \cup {Prefix} /\ (Exact(b) => Exact(c))
    BY <1>2, KeyTypes, Pressed
<1> HIDE DEF c
<1>4. /\ Recorded(d) /\ SameBut(d.m, c.m) /\ d.cmd = c.cmd
      /\ After(d).down = After(c).down \ {Prefix} /\ (Exact(c) => Exact(d))
    BY <1>3, KeyTypes, Released
<1> HIDE DEF d
<1>5. /\ Recorded(e) /\ SameBut(e.m, d.m) /\ e.cmd = d.cmd
      /\ After(e).down = After(d).down \ {Ctrl} /\ (Exact(d) => Exact(e))
    BY <1>4, KeyTypes, Released
<1>6. K!LiteralPrefix(m) = e
    BY DEF K!LiteralPrefix, a, b, c, d
<1> HIDE DEF e
<1> QED
    BY <1>1, <1>2, <1>3, <1>4, <1>5, <1>6, KeyTypes DEF SameBut, SameModes

-----------------------------------------------------------------------------
(* A key event.  With releases to go by, what it leaves down is what was   *)
(* down, with the key or without; without them, what is down is what the   *)
(* event that came last showed, and a key is struck with its modifiers.    *)
KeyEvent == [key : K!Keys, kind : {"press", "repeat", "release"},
             modifiers : SUBSET K!Modifiers]

LeftDown(e) ==
    IF e.kind = "release" THEN remote.down \ ({e.key} \ {Prefix})
                          ELSE remote.down \cup {e.key}
Typed(m, e, r) ==
    /\ remote.down \subseteq m.synthesised => After(r).down \subseteq r.m.synthesised
    /\ remote.down = m.synthesised =>
         After(r).down = r.m.synthesised /\ (K!Strikes(e, r.out) => After(r).down = e.modifiers)
IsTyped(m, e) == ~m.expectReleases /\ e.kind = "press" /\ e.key \notin K!Modifiers

Handled(m, e, r) ==
    /\ Recorded(r) /\ SameModes(r.m, m)
    /\ remote.down = m.held => Exact(r)
    /\ m.expectReleases => After(r).down \subseteq LeftDown(e)
    /\ IsTyped(m, e) => Typed(m, e, r)
    /\ r.cmd # "none" => r.out = <<>> /\ r.m.held = m.held
                         /\ r.m.synthesised = m.synthesised /\ e.kind = "press"
    /\ r.cmd = "prefix" => m.armed /\ K!IsPrefixKey(e)

(* An event that is swallowed, whatever becomes of the prefix.             *)
LEMMA Swallowed ==
    ASSUME remote \in Remote, NEW m \in Mapper, remote.down \subseteq m.held,
           NEW e \in KeyEvent, NEW n \in Mapper, NEW cmd \in Commands,
           SameModes(n, m), n.held = m.held, n.synthesised = m.synthesised,
           e.kind = "release" => e.key \in {Prefix, Unmapped},
           cmd # "none" => e.kind = "press",
           cmd = "prefix" => m.armed /\ K!IsPrefixKey(e)
    PROVE  Handled(m, e, K!Result(n, <<>>, cmd))
<1> DEFINE r == K!Result(n, <<>>, cmd)
<1>1. r = [m |-> n, out |-> <<>>, cmd |-> cmd]
    BY DEF K!Result
<1> HIDE DEF r
<1>2. /\ r.m = n /\ r.out = <<>> /\ r.cmd = cmd
      /\ r \in [m : Mapper, out : Seq(Key), cmd : Commands]
    BY <1>1
<1>3. After(r) = remote
    BY <1>2, TellNothing DEF After
<1>4. ~K!Strikes(e, r.out)
    BY <1>2 DEF K!Strikes
<1>5. remote.down \subseteq LeftDown(e)
    BY DEF LeftDown, Remote, K!Keysyms
<1>6. Recorded(r) /\ (remote.down = m.held => Exact(r))
    BY <1>2, <1>3 DEF Recorded, Exact
<1>7. Typed(m, e, r)
    BY <1>2, <1>3, <1>4 DEF Typed
<1>8. Handled(m, e, r)
    BY <1>2, <1>3, <1>5, <1>6, <1>7 DEF Handled
<1> QED
    BY <1>8 DEF r

(* Passed on: pressed or let go of with releases to go by, and without     *)
(* them struck between what brings the modifiers in line.                  *)
LEMMA Translated ==
    ASSUME remote \in Remote, NEW m \in Mapper, remote.down \subseteq m.held,
           NEW e \in KeyEvent
    PROVE  Handled(m, e, K!Translate(m, e))
<1> DEFINE k == e.key
           i == K!Ignored(m)
           before == IF m.expectReleases THEN i ELSE K!SyncModifiers(i, e.modifiers)
           r == K!Translate(m, e)
<1>1. /\ k \in K!Keys /\ e.kind \in {"press", "repeat", "release"}
      /\ e.modifiers \in SUBSET K!Modifiers
    BY DEF KeyEvent
<1>2. CASE k \notin K!Keysyms
    <2>1. r = K!Result(m, <<>>, "none")
        BY <1>2 DEF K!Translate, K!HasKeysym, K!Ignored
    <2>2. SameModes(m, m) /\ "none" \in Commands /\ k = Unmapped
        BY <1>1, <1>2 DEF SameModes, Commands, K!Keysyms
    <2> QED
        BY <2>1, <2>2, Swallowed
<1>3. CASE k \in K!Keysyms
    <2>1. /\ Recorded(i) /\ i.m = m /\ i.out = <<>> /\ i.cmd = "none"
          /\ After(i) = remote /\ (remote.down = m.held => Exact(i))
        BY NothingSent
    <2>2. /\ Recorded(before) /\ SameModes(before.m, m) /\ before.cmd = "none"
          /\ remote.down = m.held => Exact(before)
          /\ m.expectReleases => After(before) = remote /\ before.m.synthesised = m.synthesised
          /\ ~m.expectReleases =>
               /\ before.m.synthesised = e.modifiers
               /\ remote.down \subseteq m.synthesised => After(before).down \subseteq e.modifiers
               /\ remote.down = m.synthesised => After(before).down = e.modifiers
        <3>1. CASE m.expectReleases
            <4>1. before = i
                BY <3>1
            <4> QED
                BY <2>1, <3>1, <4>1 DEF SameModes
        <3>2. CASE ~m.expectReleases
            <4>1. before = K!SyncModifiers(i, e.modifiers)
                BY <3>2
            <4> HIDE DEF before, i
            <4>2. /\ Recorded(before) /\ SameModes(before.m, i.m) /\ before.cmd = i.cmd
                  /\ before.m.synthesised = e.modifiers
                  /\ Exact(i) => Exact(before)
                  /\ After(i).down \subseteq i.m.synthesised => After(before).down \subseteq e.modifiers
                  /\ After(i).down = i.m.synthesised => After(before).down = e.modifiers
                BY <1>1, <2>1, <4>1, Synced
            <4>3. Recorded(before) /\ SameModes(before.m, m) /\ before.cmd = "none"
                BY <2>1, <4>2
            <4>4. remote.down = m.held => Exact(before)
                BY <2>1, <4>2
            <4>5. /\ remote.down \subseteq m.synthesised => After(before).down \subseteq e.modifiers
                  /\ remote.down = m.synthesised => After(before).down = e.modifiers
                BY <2>1, <4>2
            <4> QED
                BY <3>2, <4>2, <4>3, <4>4, <4>5
        <3> QED
            BY <3>1, <3>2
    <2>3. /\ e.kind = "release" => r = K!Release(before, k)
          /\ e.kind # "release" /\ m.expectReleases => r = K!Press(before, k)
          /\ e.kind # "release" /\ ~m.expectReleases => r = K!Release(K!Press(before, k), k)
        BY <1>3 DEF K!Translate, K!HasKeysym
    <2> SUFFICES Handled(m, e, r)
        OBVIOUS
    <2> HIDE DEF before, i, r
    <2>4. CASE e.kind = "release"
        <3> DEFINE q == K!Release(before, k)
        <3>1. /\ Recorded(q) /\ SameBut(q.m, before.m) /\ q.cmd = before.cmd
              /\ After(q).down = After(before).down \ {k} /\ (Exact(before) => Exact(q))
            BY <1>3, <2>2, Released
        <3>2. r = q
            BY <2>3, <2>4
        <3> HIDE DEF q
        <3> QED
            BY <2>2, <2>4, <3>1, <3>2
               DEF Handled, IsTyped, LeftDown, SameBut, SameModes
    <2>5. CASE e.kind # "release" /\ m.expectReleases
        <3> DEFINE q == K!Press(before, k)
        <3>1. /\ Recorded(q) /\ SameBut(q.m, before.m) /\ q.cmd = before.cmd
              /\ After(q).down = After(before).down \cup {k} /\ (Exact(before) => Exact(q))
            BY ZenonT(30), <1>3, <2>2, Pressed
        <3>2. r = q
            BY <2>3, <2>5
        <3> HIDE DEF q
        <3> QED
            BY <2>2, <2>5, <3>1, <3>2
               DEF Handled, IsTyped, LeftDown, SameBut, SameModes
    <2>6. CASE e.kind # "release" /\ ~m.expectReleases
        <3> DEFINE p == K!Press(before, k)
        <3>1. /\ Recorded(p) /\ SameBut(p.m, before.m) /\ p.cmd = before.cmd
              /\ After(p).down = After(before).down \cup {k} /\ (Exact(before) => Exact(p))
            BY ZenonT(30), <1>3, <2>2, Pressed
        <3>2. r = K!Release(p, k)
            BY <2>3, <2>6
        <3> HIDE DEF p
        <3>3. /\ Recorded(r) /\ SameBut(r.m, p.m) /\ r.cmd = p.cmd
              /\ After(r).down = After(p).down \ {k} /\ (Exact(p) => Exact(r))
            BY ZenonT(30), <1>3, <3>1, <3>2, Released
        <3>4. IsTyped(m, e) => k \notin e.modifiers
            BY <1>1 DEF IsTyped
        <3>5. /\ SameModes(r.m, m) /\ r.m.synthesised = e.modifiers /\ r.cmd = "none"
              /\ remote.down = m.held => Exact(r)
              /\ After(r).down = After(before).down \ {k}
            BY <2>2, <2>6, <3>1, <3>3 DEF SameBut, SameModes
        <3>6. IsTyped(m, e) => Typed(m, e, r)
            BY <2>2, <2>6, <3>4, <3>5 DEF Typed
        <3> QED
            BY <2>6, <3>3, <3>5, <3>6 DEF Handled
    <2> QED
        BY <2>4, <2>5, <2>6
<1> QED
    BY <1>2, <1>3

LEMMA ArmedHandled ==
    ASSUME remote \in Remote, NEW m \in Mapper, remote.down \subseteq m.held,
           NEW e \in KeyEvent, m.armed
    PROVE  Handled(m, e, K!OnKeyArmed(m, e))
<1> DEFINE r == K!OnKeyArmed(m, e)
           n == [m EXCEPT !.armed = FALSE]
           cmd == IF K!IsPrefixKey(e) THEN "prefix" ELSE K!CommandFor(e.key)
<1>1. e.key \in K!Keys /\ e.kind \in {"press", "repeat", "release"}
    BY DEF KeyEvent
<1>2. CASE e.kind = "press"
    <2>1. r = K!Result(n, <<>>, cmd)
        BY <1>2 DEF K!OnKeyArmed
    <2>2. /\ n \in Mapper /\ SameModes(n, m) /\ n.held = m.held
          /\ n.synthesised = m.synthesised
        BY DEF Mapper, SameModes
    <2>3. cmd \in Commands /\ (cmd = "prefix" => K!IsPrefixKey(e))
        BY DEF Commands, K!CommandFor
    <2> HIDE DEF n, cmd, r
    <2>4. Handled(m, e, K!Result(n, <<>>, cmd))
        BY <1>2, <2>2, <2>3, Swallowed
    <2> QED
        BY <2>1, <2>4 DEF r
<1>3. CASE e.kind = "repeat" \/ (e.kind = "release" /\ e.key \notin K!Keysyms)
    <2>1. r = K!Result(m, <<>>, "none")
        BY <1>3 DEF K!OnKeyArmed, K!ReleaseIfHeld, K!HasKeysym, K!Ignored
    <2>2. SameModes(m, m) /\ "none" \in Commands
          /\ (e.kind = "release" => e.key \in {Prefix, Unmapped})
        BY <1>1, <1>3 DEF SameModes, Commands, K!Keysyms
    <2> QED
        BY <2>1, <2>2, Swallowed
<1>4. CASE e.kind = "release" /\ e.key \in K!Keysyms
    <2> DEFINE i == K!Ignored(m)
    <2>1. r = K!Release(i, e.key)
        BY <1>4 DEF K!OnKeyArmed, K!ReleaseIfHeld, K!HasKeysym
    <2>2. /\ Recorded(i) /\ i.m = m /\ i.cmd = "none"
          /\ After(i) = remote /\ (remote.down = m.held => Exact(i))
        BY NothingSent
    <2> HIDE DEF i, r
    <2>3. /\ Recorded(r) /\ SameBut(r.m, i.m) /\ r.cmd = i.cmd
          /\ After(r).down = After(i).down \ {e.key} /\ (Exact(i) => Exact(r))
        BY <1>4, <2>1, <2>2, Released
    <2>4. Handled(m, e, r)
        BY <1>4, <2>2, <2>3 DEF Handled, IsTyped, LeftDown, SameBut, SameModes
    <2> QED
        BY <2>4 DEF r
<1> QED
    BY <1>1, <1>2, <1>3, <1>4

(* The whole of on_key, and of on_key_local under the menu.                *)
LEMMA KeyHandled ==
    ASSUME remote \in Remote, NEW m \in Mapper, remote.down \subseteq m.held,
           NEW e \in KeyEvent
    PROVE  Handled(m, e, K!OnKey(m, e)) /\ Handled(m, e, K!OnKeyLocal(m, e))
<1>1. e.key \in K!Keys /\ e.kind \in {"press", "repeat", "release"}
    BY DEF KeyEvent
<1>2. Handled(m, e, K!OnKey(m, e))
    <2>1. CASE m.armed
        <3>1. K!OnKey(m, e) = K!OnKeyArmed(m, e)
            BY <2>1 DEF K!OnKey
        <3> QED
            BY <2>1, <3>1, ArmedHandled
    <2>2. CASE ~m.armed /\ K!IsPrefixKey(e)
        <3> DEFINE n == [m EXCEPT !.armed = e.kind = "press"]
        <3>1. K!OnKey(m, e) = K!Result(n, <<>>, "none")
            BY <2>2 DEF K!OnKey, K!Ignored
        <3>2. /\ n \in Mapper /\ SameModes(n, m) /\ n.held = m.held
              /\ n.synthesised = m.synthesised
            BY DEF Mapper, SameModes
        <3>3. e.key = Prefix /\ "none" \in Commands
            BY <2>2 DEF K!IsPrefixKey, Commands
        <3> HIDE DEF n
        <3>4. Handled(m, e, K!Result(n, <<>>, "none"))
            BY <3>2, <3>3, Swallowed
        <3> QED
            BY <3>1, <3>4
    <2>3. CASE ~m.armed /\ ~K!IsPrefixKey(e)
        <3>1. K!OnKey(m, e) = K!Translate(m, e)
            BY <2>3 DEF K!OnKey
        <3> QED
            BY <3>1, Translated
    <2> QED
        BY <2>1, <2>2, <2>3
<1>3. CASE e.kind # "release" /\ ~m.armed /\ ~K!IsPrefixKey(e)
    <2>1. K!OnKeyLocal(m, e) = K!Result(m, <<>>, "none")
        BY <1>3 DEF K!OnKeyLocal, K!Ignored
    <2>2. SameModes(m, m) /\ "none" \in Commands
        BY DEF SameModes, Commands
    <2>3. Handled(m, e, K!Result(m, <<>>, "none"))
        BY <1>3, <2>2, Swallowed
    <2> QED
        BY <1>2, <2>1, <2>3
<1>4. CASE ~(e.kind # "release" /\ ~m.armed /\ ~K!IsPrefixKey(e))
    <2>1. K!OnKeyLocal(m, e) = K!OnKey(m, e)
        BY <1>4 DEF K!OnKeyLocal
    <2> QED
        BY <1>2, <2>1
<1> QED
    BY <1>3, <1>4

-----------------------------------------------------------------------------
(* What a command makes of a mapper that has sent nothing yet, and what    *)
(* reaches the remote in the end.                                          *)
Sent(m, r) ==
    /\ Recorded(r) /\ r.m.expectReleases = m.expectReleases
    /\ r.m.view => After(r).down = {}
    /\ remote.down = m.held /\ ~r.m.view => Exact(r)

(* A command lets go, and never leaves more down than there was.           *)
LEMMA Commanded ==
    ASSUME remote \in Remote, NEW m \in Mapper, remote.down \subseteq m.held,
           m.view => remote.down = {}, NEW cmd \in Commands
    PROVE  LET r == K!OnCommand(m, cmd)
           IN  /\ Sent(m, r)
               /\ After(r).down \subseteq remote.down
               /\ remote.down \subseteq m.synthesised => After(r).down \subseteq r.m.synthesised
               /\ remote.down = m.synthesised /\ cmd # "prefix" => After(r).down = r.m.synthesised
               /\ cmd # "prefix" => \A i \in 1 .. Len(r.out) : ~r.out[i].down
               /\ After(r).garbled = remote.garbled
<1> DEFINE r == K!OnCommand(m, cmd)
           Done(q) ==
             /\ Sent(m, q)
             /\ After(q).down \subseteq remote.down
             /\ remote.down \subseteq m.synthesised => After(q).down \subseteq q.m.synthesised
             /\ remote.down = m.synthesised /\ cmd # "prefix" => After(q).down = q.m.synthesised
             /\ cmd # "prefix" => \A i \in 1 .. Len(q.out) : ~q.out[i].down
             /\ After(q).garbled = remote.garbled
<1>1. ASSUME NEW q, Recorded(q)
      PROVE  After(q).garbled = remote.garbled
    BY DEF After, K!Tell, Remote
<1>2. ASSUME NEW n \in Mapper, n.held = m.held, n.synthesised = m.synthesised,
             n.expectReleases = m.expectReleases, n.view => m.view
      PROVE  Done(K!Ignored(n))
    <2> DEFINE q == K!Ignored(n)
    <2>1. /\ Recorded(q) /\ q.m = n /\ q.out = <<>> /\ After(q) = remote
          /\ remote.down = n.held => Exact(q)
        BY <1>2, NothingSent
    <2> HIDE DEF q
    <2>2. \A i \in 1 .. Len(q.out) : FALSE
        BY <2>1
    <2> QED
        BY <1>2, <2>1, <2>2 DEF Sent, q
<1>3. ASSUME NEW n \in Mapper, n.held = m.held, n.expectReleases = m.expectReleases
      PROVE  Done(K!ReleaseAll(n))
    <2> DEFINE q == K!ReleaseAll(n)
    <2>1. /\ Recorded(q) /\ SameModes(q.m, n)
          /\ q.m.held = {} /\ q.m.synthesised = {} /\ After(q).down = {}
          /\ After(q).garbled = remote.garbled
          /\ remote.down = n.held => Exact(q)
          /\ \A i \in 1 .. Len(q.out) : ~q.out[i].down
        BY <1>3, AllReleased
    <2> HIDE DEF q
    <2> QED
        BY <1>3, <2>1 DEF Sent, SameModes, q
<1>4. CASE cmd = "none" \/ (cmd = "prefix" /\ (m.view \/ m.menu))
    <2>1. r = K!Ignored(m)
        BY <1>4 DEF K!OnCommand
    <2> HIDE DEF r, Done
    <2> QED
        BY <1>2, <2>1 DEF r, Done
<1>5. CASE cmd = "prefix" /\ ~m.view /\ ~m.menu
    <2>1. r = K!LiteralPrefix(m)
        BY <1>5 DEF K!OnCommand
    <2>2. /\ Recorded(r) /\ SameBut(r.m, m)
          /\ After(r).down = remote.down \ {Ctrl, Prefix}
          /\ remote.down = m.held => Exact(r)
        BY <2>1, PrefixSent
    <2> HIDE DEF r
    <2>3. After(r).garbled = remote.garbled
        BY <1>1, <2>2
    <2>4. Done(r)
        BY <1>5, <2>2, <2>3 DEF Sent, SameBut, SameModes
    <2> QED
        BY <2>4 DEF r
<1>6. CASE cmd = "view"
    <2> DEFINE n == [m EXCEPT !.view = ~@]
    <2>1. /\ n \in Mapper /\ n.held = m.held /\ n.synthesised = m.synthesised
          /\ n.expectReleases = m.expectReleases /\ n.view = ~m.view
        BY DEF Mapper
    <2>2. r = IF n.view THEN K!ReleaseAll(n) ELSE K!Ignored(n)
        BY <1>6 DEF K!OnCommand, K!ToggleViewOnly
    <2> HIDE DEF n, r, Done
    <2>3. Done(r)
        BY <1>2, <1>3, <2>1, <2>2
    <2> QED
        BY <2>3 DEF Done, r
<1>7. CASE cmd = "menu"
    <2> DEFINE n == [m EXCEPT !.menu = ~@]
    <2>1. /\ n \in Mapper /\ n.held = m.held /\ n.synthesised = m.synthesised
          /\ n.expectReleases = m.expectReleases /\ n.view = m.view
        BY DEF Mapper
    <2>2. r = K!Ignored(n)
        BY <1>7 DEF K!OnCommand
    <2> HIDE DEF n, r, Done
    <2>3. Done(r)
        BY <1>2, <2>1, <2>2
    <2> QED
        BY <2>3 DEF Done, r
<1>8. CASE cmd = "quit"
    <2> DEFINE n == [m EXCEPT !.quit = TRUE]
    <2>1. /\ n \in Mapper /\ n.held = m.held /\ n.synthesised = m.synthesised
          /\ n.expectReleases = m.expectReleases /\ n.view = m.view
        BY DEF Mapper
    <2>2. r = K!Ignored(n)
        BY <1>8 DEF K!OnCommand
    <2> HIDE DEF n, r, Done
    <2>3. Done(r)
        BY <1>2, <2>1, <2>2
    <2> QED
        BY <2>3 DEF Done, r
<1> QED
    BY <1>4, <1>5, <1>6, <1>7, <1>8 DEF Commands

(* A key event from the terminal, through the menu and view-only.          *)
LEMMA KeyTaken ==
    ASSUME remote \in Remote, NEW m \in Mapper, remote.down \subseteq m.held,
           m.view => remote.down = {}, NEW e \in KeyEvent
    PROVE  LET r == K!OnTerminalKey(m, e)
           IN  /\ Sent(m, r)
               /\ m.expectReleases => After(r).down \subseteq LeftDown(e)
               /\ IsTyped(m, e) /\ remote.down \subseteq m.synthesised
                    => After(r).down \subseteq r.m.synthesised
               /\ IsTyped(m, e) /\ remote.down = m.synthesised /\ ~r.m.view
                    => /\ ~(m.armed /\ K!IsPrefixKey(e)) => After(r).down = r.m.synthesised
                       /\ ~m.armed /\ K!Strikes(e, r.out) => After(r).down = e.modifiers
<1> DEFINE r == K!OnTerminalKey(m, e)
           q == IF m.menu THEN K!OnKeyLocal(m, e) ELSE K!OnKey(m, e)
           Done(s) ==
             /\ Sent(m, s)
             /\ m.expectReleases => After(s).down \subseteq LeftDown(e)
             /\ IsTyped(m, e) /\ remote.down \subseteq m.synthesised
                  => After(s).down \subseteq s.m.synthesised
             /\ IsTyped(m, e) /\ remote.down = m.synthesised /\ ~s.m.view
                  => /\ ~(m.armed /\ K!IsPrefixKey(e)) => After(s).down = s.m.synthesised
                     /\ ~m.armed /\ K!Strikes(e, s.out) => After(s).down = e.modifiers
<1> SUFFICES Done(r)
    OBVIOUS
<1>1. CASE m.menu /\ e.key = Esc /\ e.kind = "press"
    <2> DEFINE n == [m EXCEPT !.menu = FALSE]
               s == K!Ignored(n)
    <2>1. /\ n \in Mapper /\ n.held = m.held /\ n.synthesised = m.synthesised
          /\ n.expectReleases = m.expectReleases /\ n.view = m.view
        BY DEF Mapper
    <2>2. r = s
        BY <1>1 DEF K!OnTerminalKey
    <2> HIDE DEF n
    <2>3. /\ Recorded(s) /\ s.m = n /\ s.out = <<>> /\ After(s) = remote
          /\ remote.down = n.held => Exact(s)
        BY <2>1, NothingSent
    <2> HIDE DEF r, s
    <2>4. ~K!Strikes(e, s.out)
        BY <2>3 DEF K!Strikes
    <2>5. remote.down \subseteq LeftDown(e)
        BY <1>1 DEF LeftDown
    <2> QED
        BY <2>1, <2>2, <2>3, <2>4, <2>5 DEF Sent
<1>2. CASE ~(m.menu /\ e.key = Esc /\ e.kind = "press")
    <2>1. Handled(m, e, q)
        BY KeyHandled
    <2>2. r = CASE q.cmd # "none" -> K!OnCommand(q.m, q.cmd)
                [] q.cmd = "none" /\ q.m.view -> K!Ignored(q.m)
                [] OTHER -> q
        BY <1>2 DEF K!OnTerminalKey
    <2> HIDE DEF r, q
    <2>3. /\ Recorded(q) /\ q.m \in Mapper /\ q.out \in Seq(Key) /\ q.cmd \in Commands
          /\ q.m.view = m.view /\ q.m.expectReleases = m.expectReleases
          /\ remote.down = m.held => Exact(q)
        BY <2>1 DEF Handled, Recorded, SameModes
    <2>4. CASE q.cmd # "none"
        <3> DEFINE s == K!OnCommand(q.m, q.cmd)
        <3>1. r = s
            BY <2>2, <2>4
        <3>2. /\ q.m.held = m.held /\ q.m.synthesised = m.synthesised /\ e.kind = "press"
              /\ q.cmd = "prefix" => m.armed /\ K!IsPrefixKey(e)
            BY <2>1, <2>4 DEF Handled
        <3>3. /\ Sent(q.m, s)
              /\ After(s).down \subseteq remote.down
              /\ remote.down \subseteq q.m.synthesised => After(s).down \subseteq s.m.synthesised
              /\ remote.down = q.m.synthesised /\ q.cmd # "prefix"
                    => After(s).down = s.m.synthesised
              /\ q.cmd # "prefix" => \A i \in 1 .. Len(s.out) : ~s.out[i].down
            BY <2>3, <3>2, Commanded
        <3> HIDE DEF s
        <3>4. s.out \in Seq(Key)
            BY <3>3 DEF Sent, Recorded
        <3>5. q.cmd # "prefix" => ~K!Strikes(e, s.out)
            BY <3>3, <3>4 DEF K!Strikes
        <3>6. remote.down \subseteq LeftDown(e)
            BY <3>2 DEF LeftDown
        <3> QED
            BY <2>3, <3>1, <3>2, <3>3, <3>5, <3>6 DEF Sent
    <2>5. CASE q.cmd = "none" /\ q.m.view
        <3> DEFINE s == K!Ignored(q.m)
        <3>1. r = s
            BY <2>2, <2>5
        <3>2. remote.down = {}
            BY <2>3, <2>5
        <3>3. /\ Recorded(s) /\ s.m = q.m /\ s.out = <<>> /\ After(s) = remote
              /\ remote.down = q.m.held => Exact(s)
            BY <2>3, <3>2, NothingSent
        <3> HIDE DEF s
        <3> QED
            BY <2>3, <2>5, <3>1, <3>2, <3>3 DEF Sent
    <2>6. CASE q.cmd = "none" /\ ~q.m.view
        <3>1. r = q
            BY <2>2, <2>6
        <3>2. /\ m.expectReleases => After(q).down \subseteq LeftDown(e)
              /\ IsTyped(m, e) => Typed(m, e, q)
            BY <2>1 DEF Handled
        <3> QED
            BY <2>3, <2>6, <3>1, <3>2 DEF Sent, Typed
    <2> QED
        BY <2>4, <2>5, <2>6
<1> QED
    BY <1>1, <1>2

-----------------------------------------------------------------------------
(* The inductive invariant of the keyboard: what the remote has down is    *)
(* recorded, all of it and nothing else until view-only leaves presses in  *)
(* the record that were not sent; and without releases to go by it is the  *)
(* modifiers of the last event, until a prefix sent through takes Control  *)
(* from under them.                                                        *)
Remembered == remote.down \subseteq mapper.held
ViewTells == "view" \notin past =>
    remote.down = mapper.held /\ ~mapper.view /\ ~remote.phantom
InLine == ~mapper.expectReleases /\ past \subseteq {"focus"} =>
    remote.down = mapper.synthesised
KInv == K!TypeOK /\ Remembered /\ ViewTells /\ InLine
        /\ K!LetGo /\ K!NothingStuck /\ K!ModifiersMatch

LEMMA KeyInit ==
    K!Init => KInv
<1> SUFFICES ASSUME K!Init PROVE KInv
    OBVIOUS
<1>1. /\ remote.down = {} /\ remote.phantom = FALSE /\ remote.garbled = FALSE
      /\ remote \in Remote /\ mapper \in Mapper /\ mapper.held = {} /\ mapper.synthesised = {}
    BY DEF K!Init, Remote, Mapper
<1>2. K!TypeOK
    BY <1>1 DEF K!Init, K!TypeOK, Remote, Mapper
<1> QED
    BY <1>1, <1>2 DEF K!Init, KInv, Remembered, ViewTells, InLine, K!LetGo,
                      K!NothingStuck, K!ModifiersMatch

LEMMA KeyEventStep ==
    ASSUME KInv, NEW e \in KeyEvent, K!Event(e), K!Running, focused,
           UNCHANGED <<focused, ended>>, down' \subseteq K!Keys,
           mapper.expectReleases => LeftDown(e) \subseteq down' \cup {Prefix},
           ~mapper.expectReleases => IsTyped(mapper, e)
    PROVE  KInv'
<1> DEFINE m == mapper
           r == K!OnTerminalKey(m, e)
           bad == /\ e.key \notin K!Modifiers /\ ~m.armed
                  /\ K!Strikes(e, r.out)
                  /\ K!Tell(r.out).down \intersect K!Modifiers # e.modifiers
           through == m.armed /\ K!IsPrefixKey(e) /\ e.kind = "press"
<1>1. /\ remote \in Remote /\ m \in Mapper /\ remote.down \subseteq m.held
      /\ focused /\ ~ended /\ (m.view => remote.down = {})
      /\ past \subseteq {"view", "prefix", "focus"}
    BY DEF KInv, K!TypeOK, Remote, Mapper, Remembered, K!LetGo, K!Running
<1>2. /\ Sent(m, r)
      /\ m.expectReleases => After(r).down \subseteq LeftDown(e)
      /\ IsTyped(m, e) /\ remote.down \subseteq m.synthesised
           => After(r).down \subseteq r.m.synthesised
      /\ IsTyped(m, e) /\ remote.down = m.synthesised /\ ~r.m.view
           => /\ ~(m.armed /\ K!IsPrefixKey(e)) => After(r).down = r.m.synthesised
              /\ ~m.armed /\ K!Strikes(e, r.out) => After(r).down = e.modifiers
    BY <1>1, KeyTaken
<1>3. /\ mapper' = r.m
      /\ past' = past \union (IF r.m.view THEN {"view"} ELSE {})
                      \union (IF through THEN {"prefix"} ELSE {})
      /\ remote' = [K!Tell(r.out) EXCEPT !.garbled = @ \/ bad]
    BY DEF K!Event
<1> HIDE DEF r, bad
<1>4. /\ r.m \in Mapper /\ After(r) \in Remote /\ After(r).down \subseteq r.m.held
      /\ r.m.expectReleases = m.expectReleases
      /\ r.m.view => After(r).down = {}
      /\ remote.down = m.held /\ ~r.m.view => Exact(r)
    BY <1>2 DEF Sent, Recorded
<1>5. After(r).garbled = remote.garbled
    BY <1>1 DEF After, K!Tell, Remote
<1>6. /\ remote'.down = After(r).down /\ remote'.phantom = After(r).phantom
      /\ remote'.garbled <=> remote.garbled \/ bad
      /\ remote' \in Remote
    BY <1>3, <1>4, <1>5 DEF After, Remote, bad
<1>7. past \subseteq past' /\ past' \subseteq {"view", "prefix", "focus"}
      /\ ("view" \notin past' => ~r.m.view) /\ ("prefix" \notin past' => ~through)
    BY <1>1, <1>3
<1> HIDE DEF through
<1>8. K!TypeOK'
    BY <1>1, <1>3, <1>4, <1>6, <1>7 DEF K!TypeOK, KInv, Remote, Mapper
<1>9. Remembered'
    BY <1>3, <1>4, <1>6 DEF Remembered
<1>10. ViewTells'
    BY <1>3, <1>4, <1>6, <1>7 DEF ViewTells, KInv, Exact
<1>11. ASSUME ~mapper'.expectReleases, past' \subseteq {"focus"}
       PROVE  /\ IsTyped(m, e) /\ remote.down = m.synthesised /\ ~r.m.view
              /\ ~through /\ ~remote.garbled
    <2>1. ~m.expectReleases /\ past \subseteq {"focus"}
        BY <1>3, <1>4, <1>7, <1>11
    <2>2. remote.down = m.synthesised /\ ~remote.garbled
        BY <2>1 DEF KInv, InLine, K!ModifiersMatch
    <2> QED
        BY <1>7, <1>11, <2>1, <2>2
<1>12. InLine'
    <2> SUFFICES ASSUME ~mapper'.expectReleases, past' \subseteq {"focus"}
                 PROVE  remote'.down = mapper'.synthesised
        BY DEF InLine
    <2>1. ~(m.armed /\ K!IsPrefixKey(e))
        BY <1>11 DEF through, IsTyped
    <2> QED
        BY <1>2, <1>3, <1>6, <1>11, <2>1
<1>13. K!LetGo'
    BY <1>1, <1>3, <1>4, <1>6 DEF K!LetGo
<1>14. K!NothingStuck'
    <2>1. CASE m.expectReleases
        BY <1>2, <1>3, <1>4, <1>6, <2>1 DEF K!NothingStuck
    <2>2. CASE ~m.expectReleases
        <3>1. remote.down \subseteq m.synthesised
            BY <2>2 DEF KInv, K!NothingStuck
        <3> QED
            BY <1>2, <1>3, <1>4, <1>6, <2>2, <3>1 DEF K!NothingStuck
    <2> QED
        BY <2>1, <2>2
<1>15. K!ModifiersMatch'
    <2> SUFFICES ASSUME ~mapper'.expectReleases, past' \ {"focus"} = {}
                 PROVE  ~remote'.garbled
        BY DEF K!ModifiersMatch
    <2>1. past' \subseteq {"focus"}
        OBVIOUS
    <2>2. ~m.armed /\ K!Strikes(e, r.out) => After(r).down = e.modifiers
        BY <1>2, <1>11, <2>1
    <2>3. e.modifiers \in SUBSET K!Modifiers
        BY DEF KeyEvent
    <2>4. ~bad
        BY <2>2, <2>3 DEF bad, After
    <2> QED
        BY <1>6, <1>11, <2>1, <2>4
<1> QED
    BY <1>8, <1>9, <1>10, <1>12, <1>13, <1>14, <1>15 DEF KInv

LEMMA KeyStep ==
    ASSUME KInv, [K!Next]_K!vars
    PROVE  KInv'
<1>1. /\ remote \in Remote /\ mapper \in Mapper /\ remote.down \subseteq mapper.held
      /\ (mapper.view => remote.down = {})
      /\ down \subseteq K!Keys /\ past \subseteq {"view", "prefix", "focus"}
      /\ K!Modifiers = {Ctrl}
    BY DEF KInv, K!TypeOK, Remote, Mapper, Remembered, K!LetGo, K!Modifiers
<1>2. ASSUME K!KeyDown
      PROVE  KInv'
    <2>1. PICK k \in K!Keys \ down :
            /\ mapper.expectReleases /\ focused /\ K!Running
            /\ K!Event([key |-> k, kind |-> "press",
                        modifiers |-> down \intersect K!Modifiers])
            /\ down' = down \union {k}
            /\ UNCHANGED <<focused, ended>>
        BY <1>2 DEF K!KeyDown
    <2> DEFINE e == [key |-> k, kind |-> "press",
                     modifiers |-> down \intersect K!Modifiers]
    <2>2. e \in KeyEvent /\ e.kind = "press" /\ e.key = k
        BY <1>1 DEF KeyEvent
    <2> HIDE DEF e
    <2>3. LeftDown(e) \subseteq down' \cup {Prefix}
        BY <2>1, <2>2 DEF LeftDown, KInv, K!NothingStuck, K!Running
    <2>4. K!Event(e) /\ down' \subseteq K!Keys
        BY <1>1, <2>1 DEF e
    <2> QED
        BY <2>1, <2>2, <2>3, <2>4, KeyEventStep
<1>3. ASSUME K!KeyRepeat
      PROVE  KInv'
    <2>1. PICK k \in down :
            /\ mapper.expectReleases /\ focused /\ K!Running
            /\ K!Event([key |-> k, kind |-> "repeat",
                        modifiers |-> down \intersect K!Modifiers])
            /\ UNCHANGED <<down, focused, ended>>
        BY <1>3 DEF K!KeyRepeat
    <2> DEFINE e == [key |-> k, kind |-> "repeat",
                     modifiers |-> down \intersect K!Modifiers]
    <2>2. e \in KeyEvent /\ e.kind = "repeat" /\ e.key = k
        BY <1>1 DEF KeyEvent
    <2> HIDE DEF e
    <2>3. LeftDown(e) \subseteq down' \cup {Prefix}
        BY <2>1, <2>2 DEF LeftDown, KInv, K!NothingStuck, K!Running
    <2>4. K!Event(e) /\ down' \subseteq K!Keys
        BY <1>1, <2>1 DEF e
    <2> QED
        BY <2>1, <2>2, <2>3, <2>4, KeyEventStep
<1>4. ASSUME K!KeyUp
      PROVE  KInv'
    <2>1. PICK k \in down :
            /\ mapper.expectReleases /\ focused /\ K!Running
            /\ K!Event([key |-> k, kind |-> "release",
                        modifiers |-> (down \ {k}) \intersect K!Modifiers])
            /\ down' = down \ {k}
            /\ UNCHANGED <<focused, ended>>
        BY <1>4 DEF K!KeyUp
    <2> DEFINE e == [key |-> k, kind |-> "release",
                     modifiers |-> (down \ {k}) \intersect K!Modifiers]
    <2>2. e \in KeyEvent /\ e.kind = "release" /\ e.key = k
        BY <1>1 DEF KeyEvent
    <2> HIDE DEF e
    <2>3. LeftDown(e) \subseteq down' \cup {Prefix}
        BY <2>1, <2>2 DEF LeftDown, KInv, K!NothingStuck, K!Running
    <2>4. K!Event(e) /\ down' \subseteq K!Keys
        BY <1>1, <2>1 DEF e
    <2> QED
        BY <2>1, <2>2, <2>3, <2>4, KeyEventStep
<1>5. ASSUME K!KeyTyped
      PROVE  KInv'
    <2>1. PICK k \in K!Keys \ K!Modifiers, mods \in SUBSET K!Modifiers :
            /\ ~mapper.expectReleases /\ focused /\ K!Running
            /\ K!Event([key |-> k, kind |-> "press", modifiers |-> mods])
            /\ UNCHANGED <<down, focused, ended>>
        BY <1>5 DEF K!KeyTyped
    <2> DEFINE e == [key |-> k, kind |-> "press", modifiers |-> mods]
    <2>2. e \in KeyEvent /\ IsTyped(mapper, e)
        BY <2>1 DEF KeyEvent, IsTyped
    <2> HIDE DEF e
    <2>3. K!Event(e) /\ down' \subseteq K!Keys
        BY <1>1, <2>1 DEF e
    <2> QED
        BY <2>1, <2>2, <2>3, KeyEventStep
<1>6. ASSUME K!MenuClick
      PROVE  KInv'
    <2>1. PICK cmd \in {"view", "quit"} :
            /\ mapper' = K!OnCommand(mapper, cmd).m
            /\ remote' = K!Tell(K!OnCommand(mapper, cmd).out)
            /\ past' = past \union (IF K!OnCommand(mapper, cmd).m.view THEN {"view"} ELSE {})
            /\ UNCHANGED <<down, focused, ended>>
        BY <1>6 DEF K!MenuClick
    <2> DEFINE r == K!OnCommand(mapper, cmd)
    <2>2. cmd \in Commands /\ cmd # "prefix"
        BY DEF Commands
    <2>3. /\ Sent(mapper, r)
          /\ After(r).down \subseteq remote.down
          /\ remote.down \subseteq mapper.synthesised => After(r).down \subseteq r.m.synthesised
          /\ remote.down = mapper.synthesised => After(r).down = r.m.synthesised
          /\ After(r).garbled = remote.garbled
        BY <1>1, <2>2, Commanded
    <2>4. /\ mapper' = r.m /\ remote' = After(r)
          /\ past' = past \union (IF r.m.view THEN {"view"} ELSE {})
        BY <2>1 DEF After
    <2> HIDE DEF r
    <2>5. /\ mapper' \in Mapper /\ remote' \in Remote /\ remote'.down \subseteq mapper'.held
          /\ mapper'.expectReleases = mapper.expectReleases
          /\ mapper'.view => remote'.down = {}
          /\ remote.down = mapper.held /\ ~mapper'.view
               => remote'.down = mapper'.held /\ remote'.phantom = remote.phantom
        BY <2>3, <2>4 DEF Sent, Recorded, Exact
    <2>6. past \subseteq past' /\ past' \subseteq {"view", "prefix", "focus"}
          /\ ("view" \notin past' => ~mapper'.view)
        BY <1>1, <2>4
    <2>7. K!TypeOK'
        BY <1>1, <2>1, <2>5, <2>6 DEF KInv, K!TypeOK, Mapper, Remote
    <2>8. ViewTells'
        BY <2>5, <2>6 DEF KInv, ViewTells
    <2>9. InLine'
        BY <2>3, <2>4, <2>5, <2>6 DEF KInv, InLine
    <2>10. K!LetGo'
        BY <2>1, <2>3, <2>4, <2>5 DEF KInv, K!LetGo
    <2>11. K!NothingStuck'
        BY <2>1, <2>3, <2>4, <2>5 DEF KInv, K!NothingStuck
    <2>12. K!ModifiersMatch'
        BY <2>3, <2>4, <2>5, <2>6 DEF KInv, K!ModifiersMatch
    <2> QED
        BY <2>5, <2>7, <2>8, <2>9, <2>10, <2>11, <2>12 DEF KInv, Remembered
<1>7. ASSUME mapper' = K!ReleaseAll(mapper).m, remote' = K!Tell(K!ReleaseAll(mapper).out),
             past \subseteq past', past' \subseteq past \cup {"focus"}, down' = down,
             focused' \in BOOLEAN, ended' \in BOOLEAN
      PROVE  KInv'
    <2> DEFINE r == K!ReleaseAll(mapper)
    <2>1. /\ Recorded(r) /\ SameModes(r.m, mapper)
          /\ r.m.held = {} /\ r.m.synthesised = {} /\ After(r).down = {}
          /\ After(r).garbled = remote.garbled
          /\ remote.down = mapper.held => Exact(r)
        BY <1>1, AllReleased
    <2>2. mapper' = r.m /\ remote' = After(r)
        BY <1>7 DEF After
    <2> HIDE DEF r
    <2>3. /\ mapper' \in Mapper /\ remote' \in Remote /\ remote'.down = {}
          /\ mapper'.held = {} /\ mapper'.synthesised = {}
          /\ mapper'.expectReleases = mapper.expectReleases
          /\ mapper'.view = mapper.view /\ remote'.garbled = remote.garbled
          /\ remote.down = mapper.held => remote'.phantom = remote.phantom
        BY <2>1, <2>2 DEF Recorded, SameModes, Exact
    <2>4. K!TypeOK'
        BY <1>1, <1>7, <2>3 DEF KInv, K!TypeOK, Mapper, Remote
    <2>5. ViewTells'
        BY <1>7, <2>3 DEF KInv, ViewTells
    <2>6. K!ModifiersMatch'
        BY <1>7, <2>3 DEF KInv, K!ModifiersMatch
    <2> QED
        BY <2>3, <2>4, <2>5, <2>6 DEF KInv, Remembered, InLine, K!LetGo, K!NothingStuck
<1>8. ASSUME K!FocusLost
      PROVE  KInv'
    BY <1>7, <1>8 DEF K!FocusLost, KInv, K!TypeOK
<1>9. ASSUME K!FocusGained
      PROVE  KInv'
    <2>1. /\ ~focused /\ focused' = TRUE /\ down' \subseteq down
          /\ UNCHANGED <<mapper, remote, past, ended>>
        BY <1>9 DEF K!FocusGained
    <2>2. remote.down = {}
        BY <2>1 DEF KInv, K!LetGo
    <2>3. K!TypeOK'
        BY <1>1, <2>1 DEF KInv, K!TypeOK
    <2> QED
        BY <1>1, <2>1, <2>2, <2>3
           DEF KInv, Remembered, ViewTells, InLine, K!LetGo, K!NothingStuck, K!ModifiersMatch
<1>10. ASSUME K!Leave
       PROVE  KInv'
    BY <1>7, <1>10 DEF K!Leave, KInv, K!TypeOK
<1>11. ASSUME UNCHANGED K!vars
       PROVE  KInv'
    BY <1>11 DEF K!vars, KInv, K!TypeOK, Remembered, ViewTells, InLine, K!LetGo,
                 K!NothingStuck, K!ModifiersMatch, K!Keys, K!Keysyms, K!Modifiers
<1> QED
    BY <1>2, <1>3, <1>4, <1>5, <1>6, <1>8, <1>9, <1>10, <1>11 DEF K!Next

-----------------------------------------------------------------------------
(* The pointer.  Whatever a result sends ends with the buttons the mapper  *)
(* is left with; one that sends nothing leaves them as they were.          *)
Pointing == [buttons : SUBSET Buttons, last : Places \cup {Nowhere},
             pending : Places \cup {Nowhere}, recent : BOOLEAN]
PointerEvent == [at : Places \cup {Nowhere}, buttons : SUBSET Buttons]

Sound(m, r) ==
    /\ r \in [m : Pointing, out : Seq(PointerEvent)]
    /\ IF r.out = <<>> THEN r.m.buttons = m.buttons
                       ELSE M!Last(r.out).buttons = r.m.buttons

MInv == M!TypeOK /\ M!ButtonsTold /\ M!LetGo

LEMMA Unsent ==
    ASSUME NEW m, NEW n \in Pointing, n.buttons = m.buttons
    PROVE  LET r == M!Nothing(n) IN Sound(m, r) /\ r.m = n /\ r.out = <<>>
<1>1. M!Nothing(n) = [m |-> n, out |-> <<>>]
    BY DEF M!Nothing, M!Result
<1> QED
    BY <1>1 DEF Sound

LEMMA Reported ==
    ASSUME NEW r \in [m : Pointing, out : Seq(PointerEvent)], NEW p \in Places, NEW m
    PROVE  LET s == M!Report(r, p)
           IN  /\ Sound(m, s) /\ s.m.buttons = r.m.buttons /\ s.out # <<>>
               /\ M!Last(s.out) = [at |-> p, buttons |-> r.m.buttons]
<1> DEFINE s == M!Report(r, p)
           e == [at |-> p, buttons |-> r.m.buttons]
<1>1. e \in PointerEvent
    BY DEF PointerEvent, Pointing
<1>2. s = [r EXCEPT !.m.last = p, !.out = Append(r.out, e)]
    BY DEF M!Report, M!Pointer
<1> HIDE DEF e, s
<1>3. /\ s.out = Append(r.out, e) /\ s.m.buttons = r.m.buttons
      /\ s.m \in Pointing /\ s \in [m : Pointing, out : {Append(r.out, e)}]
    BY <1>2 DEF Pointing
<1>4. /\ Append(r.out, e) \in Seq(PointerEvent) /\ Append(r.out, e) # <<>>
      /\ Append(r.out, e)[Len(Append(r.out, e))] = e
    BY <1>1, AppendProperties, LenProperties
<1>5. s.out # <<>> /\ M!Last(s.out) = e /\ s \in [m : Pointing, out : Seq(PointerEvent)]
    BY <1>3, <1>4 DEF M!Last
<1>6. e.buttons = r.m.buttons
    BY DEF e
<1> QED
    BY <1>3, <1>5, <1>6 DEF Sound, s, e

LEMMA Flushed ==
    ASSUME NEW m \in Pointing
    PROVE  LET r == M!FlushPending(m) IN Sound(m, r) /\ r.m.buttons = m.buttons
<1> DEFINE n == [m EXCEPT !.pending = Nowhere, !.recent = TRUE]
           i == M!Nothing(n)
<1>1. n \in Pointing /\ n.buttons = m.buttons
    BY DEF Pointing
<1>2. CASE m.pending = Nowhere
    <2>1. M!FlushPending(m) = M!Nothing(m)
        BY <1>2 DEF M!FlushPending
    <2> QED
        BY <2>1, Unsent
<1>3. CASE m.pending # Nowhere
    <2>1. M!FlushPending(m) = M!Report(i, m.pending) /\ m.pending \in Places
        BY <1>3 DEF M!FlushPending, Pointing
    <2> HIDE DEF n
    <2>2. Sound(n, i) /\ i.m = n
        BY <1>1, Unsent
    <2>3. i \in [m : Pointing, out : Seq(PointerEvent)]
        BY <2>2 DEF Sound
    <2> HIDE DEF i
    <2> DEFINE s == M!Report(i, m.pending)
    <2>4. Sound(m, s) /\ s.m.buttons = i.m.buttons
        BY <2>1, <2>3, Reported
    <2> QED
        BY <1>1, <2>1, <2>2, <2>4
<1> QED
    BY <1>2, <1>3

(* A button goes out last, and where it was pressed.                       *)
LEMMA ButtonsSent ==
    ASSUME NEW m \in Pointing, NEW p \in Places, NEW bs \in SUBSET Buttons
    PROVE  LET r == M!OnButtons(m, p, bs)
           IN  /\ Sound(m, r) /\ r.m.buttons = bs /\ r.out # <<>>
               /\ M!Last(r.out) = [at |-> p, buttons |-> bs]
<1> DEFINE f == M!FlushPending(m)
           g == [f EXCEPT !.m.buttons = bs]
<1>1. Sound(m, f)
    BY Flushed
<1>2. M!OnButtons(m, p, bs) = M!Report(g, p)
    BY DEF M!OnButtons
<1> HIDE DEF f
<1>3. g \in [m : Pointing, out : Seq(PointerEvent)] /\ g.m.buttons = bs
    BY <1>1 DEF Sound, Pointing
<1> HIDE DEF g
<1> DEFINE r == M!Report(g, p)
<1>4. /\ Sound(m, r) /\ r.m.buttons = g.m.buttons /\ r.out # <<>>
      /\ M!Last(r.out) = [at |-> p, buttons |-> g.m.buttons]
    BY <1>3, Reported
<1> QED
    BY <1>2, <1>3, <1>4

LEMMA Scrolled ==
    ASSUME NEW m \in Pointing, NEW p \in Places
    PROVE  LET r == M!OnScroll(m, p) IN Sound(m, r) /\ r.m.buttons = m.buttons
<1> DEFINE f == M!FlushPending(m)
<1>1. Sound(m, f) /\ f.m.buttons = m.buttons
    BY Flushed
<1>2. M!OnScroll(m, p) = M!Report(f, p) /\ f \in [m : Pointing, out : Seq(PointerEvent)]
    BY <1>1 DEF M!OnScroll, Sound
<1> HIDE DEF f
<1> DEFINE r == M!Report(f, p)
<1>3. Sound(m, r) /\ r.m.buttons = f.m.buttons
    BY <1>2, Reported
<1> QED
    BY <1>1, <1>2, <1>3

LEMMA Moved ==
    ASSUME NEW m \in Pointing, NEW p \in Places
    PROVE  LET r == M!OnMotion(m, p) IN Sound(m, r) /\ r.m.buttons = m.buttons
<1> DEFINE r == M!OnMotion(m, p)
<1>1. CASE m.last = p
    <2>1. r = M!Nothing(m)
        BY <1>1 DEF M!OnMotion
    <2> QED
        BY <2>1, Unsent
<1>2. CASE m.last # p /\ m.recent
    <2> DEFINE n == [m EXCEPT !.pending = p]
    <2>1. r = M!Nothing(n) /\ n \in Pointing /\ n.buttons = m.buttons
        BY <1>2 DEF M!OnMotion, Pointing
    <2> HIDE DEF n
    <2> QED
        BY <2>1, Unsent
<1>3. CASE m.last # p /\ ~m.recent
    <2> DEFINE n == [m EXCEPT !.recent = TRUE]
               i == M!Nothing(n)
               s == M!Report(i, p)
    <2>1. r = s /\ n \in Pointing /\ n.buttons = m.buttons
        BY <1>3 DEF M!OnMotion, Pointing
    <2> HIDE DEF n
    <2>2. Sound(n, i) /\ i.m = n
        BY <2>1, Unsent
    <2>3. i \in [m : Pointing, out : Seq(PointerEvent)]
        BY <2>2 DEF Sound
    <2> HIDE DEF i
    <2>4. Sound(m, s) /\ s.m.buttons = i.m.buttons
        BY <2>3, Reported
    <2> QED
        BY <2>1, <2>2, <2>4
<1> QED
    BY <1>1, <1>2, <1>3

LEMMA ButtonsLetGo ==
    ASSUME NEW m \in Pointing
    PROVE  LET r == M!ReleaseButtons(m) IN Sound(m, r) /\ r.m.buttons = {}
<1> DEFINE r == M!ReleaseButtons(m)
           n == [m EXCEPT !.buttons = {}, !.pending = Nowhere]
           e == [at |-> m.last, buttons |-> {}]
<1>1. CASE m.buttons = {}
    <2>1. r = M!Nothing(m)
        BY <1>1 DEF M!ReleaseButtons
    <2> QED
        BY <1>1, <2>1, Unsent
<1>2. CASE m.buttons # {}
    <2>1. r = [m |-> n, out |-> <<e>>]
        BY <1>2 DEF M!ReleaseButtons, M!Result, M!Pointer
    <2>2. n \in Pointing /\ n.buttons = {} /\ e \in PointerEvent /\ e.buttons = {}
        BY DEF Pointing, PointerEvent
    <2> HIDE DEF n, e
    <2>3. <<e>> \in Seq(PointerEvent) /\ <<e>> # <<>> /\ M!Last(<<e>>) = e
        BY <2>2 DEF M!Last
    <2> QED
        BY <2>1, <2>2, <2>3 DEF Sound
<1> QED
    BY <1>1, <1>2

(* Sent as it is: the remote then holds the buttons of the record.         *)
LEMMA PointerSent ==
    ASSUME MInv, NEW r, Sound(pointer, r), M!Send(r)
    PROVE  /\ pointer' = r.m /\ pointer' \in Pointing /\ told' \in PointerEvent
           /\ told'.buttons = pointer'.buttons
           /\ r.out # <<>> => told' = M!Last(r.out)
<1>1. /\ told \in PointerEvent /\ told.buttons = pointer.buttons
      /\ r.m \in Pointing /\ r.out \in Seq(PointerEvent)
      /\ pointer' = r.m /\ told' = IF r.out = <<>> THEN told ELSE M!Last(r.out)
    BY DEF MInv, M!TypeOK, M!ButtonsTold, PointerEvent, Sound, M!Send
<1>2. CASE r.out = <<>>
    BY <1>1, <1>2 DEF Sound
<1>3. CASE r.out # <<>>
    <2>1. M!Last(r.out) \in PointerEvent
        BY <1>1, <1>3, LenProperties DEF M!Last
    <2> QED
        BY <1>1, <1>3, <2>1 DEF Sound
<1> QED
    BY <1>2, <1>3

(* One step of the pointer keeps the record true, lets go when it must,    *)
(* and presses a button nowhere but under the hand.                        *)
LEMMA PointerStep ==
    ASSUME MInv, M!PlaceTypes, [M!Next]_M!vars
    PROVE  MInv' /\ (told'.buttons \ told.buttons # {} => told'.at = hand)
<1>1. /\ pointer \in Pointing /\ told \in PointerEvent /\ told.buttons = pointer.buttons
      /\ pressed \subseteq Buttons /\ hand \in Places \cup {Letterbox}
      /\ popup \in BOOLEAN /\ menu \in BOOLEAN /\ view \in BOOLEAN
      /\ view => told.buttons = {}
    BY DEF MInv, M!TypeOK, M!ButtonsTold, M!LetGo, Pointing, PointerEvent
<1>2. ASSUME pointer' \in Pointing, told' \in PointerEvent,
             told'.buttons = pointer'.buttons, pressed' \subseteq Buttons,
             hand' \in Places \cup {Letterbox},
             popup' \in BOOLEAN, menu' \in BOOLEAN, view' \in BOOLEAN,
             view' => told'.buttons = {},
             told'.buttons \subseteq told.buttons \/ told'.at = hand
      PROVE  MInv' /\ (told'.buttons \ told.buttons # {} => told'.at = hand)
    <2>1. MInv'
        BY <1>2 DEF MInv, M!TypeOK, M!ButtonsTold, M!LetGo, Pointing, PointerEvent
    <2> QED
        BY <1>2, <2>1
<1>3. ASSUME NEW r, hand' \in Places \cup {Letterbox}, M!ToRemote(r),
             hand' \in Places =>
                /\ Sound(pointer, r)
                /\ r.m.buttons = pointer.buttons \/ (r.out # <<>> /\ M!Last(r.out).at = hand)
      PROVE  /\ pointer' \in Pointing /\ told' \in PointerEvent
             /\ told'.buttons = pointer'.buttons
             /\ view => told'.buttons = {}
             /\ told'.buttons \subseteq told.buttons \/ told'.at = hand
    <2>1. CASE menu \/ view \/ hand' = Letterbox
        BY <1>1, <1>3, <2>1 DEF M!ToRemote
    <2>2. CASE ~(menu \/ view \/ hand' = Letterbox)
        <3>1. M!Send(r) /\ Sound(pointer, r) /\ ~view
            BY <1>3, <2>2 DEF M!ToRemote
        <3>2. /\ pointer' = r.m /\ pointer' \in Pointing /\ told' \in PointerEvent
              /\ told'.buttons = pointer'.buttons
              /\ r.out # <<>> => told' = M!Last(r.out)
            BY <3>1, PointerSent
        <3> QED
            BY <1>1, <1>3, <2>2, <3>1, <3>2
    <2> QED
        BY <2>1, <2>2
<1>4. CASE M!Move
    <2> DEFINE r == M!OnMotion(pointer, hand')
    <2>1. /\ hand' \in Places \cup {Letterbox} /\ M!ToRemote(r)
          /\ UNCHANGED <<pressed, popup, menu, view>>
        BY <1>4 DEF M!Move
    <2>2. hand' \in Places => Sound(pointer, r) /\ r.m.buttons = pointer.buttons
        BY <1>1, Moved
    <2> HIDE DEF r
    <2> QED
        BY <1>1, <1>2, <1>3, <2>1, <2>2
<1>5. CASE M!Down
    <2>1. PICK b \in Buttons \ pressed :
            /\ pressed' = pressed \union {b}
            /\ hand' = hand
            /\ IF popup /\ hand = Cross /\ b = Left
                 THEN popup' = FALSE /\ UNCHANGED <<pointer, told>>
                 ELSE /\ popup' = popup
                      /\ M!ToRemote(M!OnButtons(pointer, hand, pointer.buttons \union {b}))
            /\ UNCHANGED <<menu, view>>
        BY <1>5 DEF M!Down
    <2>2. CASE popup /\ hand = Cross /\ b = Left
        BY <1>1, <1>2, <2>1, <2>2
    <2>3. CASE ~(popup /\ hand = Cross /\ b = Left)
        <3> DEFINE bs == pointer.buttons \union {b}
                   r == M!OnButtons(pointer, hand, bs)
        <3>1. bs \in SUBSET Buttons
            BY <1>1 DEF Pointing
        <3> HIDE DEF bs
        <3>2. hand \in Places => /\ Sound(pointer, r) /\ r.m.buttons = bs /\ r.out # <<>>
                                 /\ M!Last(r.out) = [at |-> hand, buttons |-> bs]
            BY <1>1, <3>1, ButtonsSent
        <3>3. M!ToRemote(r) /\ popup' = popup
            BY <2>1, <2>3 DEF bs
        <3> HIDE DEF r
        <3> QED
            BY <1>1, <1>2, <1>3, <2>1, <3>1, <3>2, <3>3
    <2> QED
        BY <2>2, <2>3
<1>6. CASE M!Up
    <2>1. PICK b \in pressed :
            /\ pressed' = pressed \ {b}
            /\ hand' = hand
            /\ M!ToRemote(M!OnButtons(pointer, hand, pointer.buttons \ {b}))
            /\ UNCHANGED <<popup, menu, view>>
        BY <1>6 DEF M!Up
    <2> DEFINE bs == pointer.buttons \ {b}
               r == M!OnButtons(pointer, hand, bs)
    <2>2. bs \in SUBSET Buttons
        BY <1>1 DEF Pointing
    <2> HIDE DEF bs
    <2>3. hand \in Places => /\ Sound(pointer, r) /\ r.m.buttons = bs /\ r.out # <<>>
                             /\ M!Last(r.out) = [at |-> hand, buttons |-> bs]
        BY <1>1, <2>2, ButtonsSent
    <2>4. M!ToRemote(r)
        BY <2>1 DEF bs
    <2> HIDE DEF r
    <2> QED
        BY <1>1, <1>2, <1>3, <2>1, <2>2, <2>3, <2>4
<1>7. CASE M!Scroll
    <2> DEFINE r == M!OnScroll(pointer, hand)
    <2>1. hand' = hand /\ M!ToRemote(r) /\ UNCHANGED <<pressed, popup, menu, view>>
        BY <1>7 DEF M!Scroll
    <2>2. hand \in Places => Sound(pointer, r) /\ r.m.buttons = pointer.buttons
        BY <1>1, Scrolled
    <2> HIDE DEF r
    <2> QED
        BY <1>1, <1>2, <1>3, <2>1, <2>2
<1>8. CASE M!Tick
    <2> DEFINE r == M!FlushMotion(pointer)
    <2>1. M!Send(r) /\ ~view /\ UNCHANGED <<hand, pressed, popup, menu, view>>
        BY <1>8 DEF M!Tick
    <2>2. r = M!Nothing(pointer) \/ r = M!FlushPending(pointer)
        BY DEF M!FlushMotion
    <2>3. Sound(pointer, r) /\ r.m.buttons = pointer.buttons
        BY <1>1, <2>2, Unsent, Flushed
    <2> HIDE DEF r
    <2>4. /\ pointer' = r.m /\ pointer' \in Pointing /\ told' \in PointerEvent
          /\ told'.buttons = pointer'.buttons
        BY <2>1, <2>3, PointerSent
    <2> QED
        BY <1>1, <1>2, <2>1, <2>3, <2>4
<1>9. CASE M!IntervalElapses
    BY <1>1, <1>2, <1>9 DEF M!IntervalElapses, Pointing
<1>10. CASE M!ToggleMenu
    BY <1>1, <1>2, <1>10 DEF M!ToggleMenu
<1>11. CASE M!ToggleViewOnly
    <2> DEFINE r == IF view THEN M!Nothing(pointer) ELSE M!ReleaseButtons(pointer)
    <2>1. view' = ~view /\ M!Send(r) /\ UNCHANGED <<hand, pressed, popup, menu>>
        BY <1>11 DEF M!ToggleViewOnly
    <2>2. Sound(pointer, r) /\ r.m.buttons \subseteq pointer.buttons
          /\ (~view => r.m.buttons = {})
        BY <1>1, Unsent, ButtonsLetGo
    <2> HIDE DEF r
    <2>3. /\ pointer' = r.m /\ pointer' \in Pointing /\ told' \in PointerEvent
          /\ told'.buttons = pointer'.buttons
        BY <2>1, <2>2, PointerSent
    <2> QED
        BY <1>1, <1>2, <2>1, <2>2, <2>3
<1>12. CASE M!FocusLost
    <2> DEFINE r == M!ReleaseButtons(pointer)
    <2>1. M!Send(r) /\ pressed' \subseteq pressed /\ UNCHANGED <<hand, popup, menu, view>>
        BY <1>12 DEF M!FocusLost
    <2>2. Sound(pointer, r) /\ r.m.buttons = {}
        BY <1>1, ButtonsLetGo
    <2> HIDE DEF r
    <2>3. /\ pointer' = r.m /\ pointer' \in Pointing /\ told' \in PointerEvent
          /\ told'.buttons = pointer'.buttons
        BY <2>1, <2>2, PointerSent
    <2> QED
        BY <1>1, <1>2, <2>1, <2>2, <2>3
<1>13. CASE UNCHANGED M!vars
    BY <1>1, <1>2, <1>13 DEF M!vars
<1> QED
    BY <1>4, <1>5, <1>6, <1>7, <1>8, <1>9, <1>10, <1>11, <1>12, <1>13
       DEF M!Next, M!Event

LEMMA PointerInit ==
    M!Init => MInv
<1> SUFFICES ASSUME M!Init PROVE MInv
    OBVIOUS
<1>1. /\ told.buttons = {} /\ pointer.buttons = {}
      /\ pointer \in Pointing /\ told \in PointerEvent
      /\ popup \in BOOLEAN /\ menu \in BOOLEAN /\ view \in BOOLEAN
      /\ hand = Letterbox /\ pressed = {}
    BY DEF M!Init, Pointing, PointerEvent
<1> QED
    BY <1>1 DEF MInv, M!TypeOK, M!ButtonsTold, M!LetGo, Pointing, PointerEvent

-----------------------------------------------------------------------------
(* The devices side by side.                                               *)
LEMMA Start ==
    Init => KInv /\ MInv
<1> SUFFICES ASSUME Init PROVE K!Init /\ M!Init
    BY KeyInit, PointerInit
<1> QED
    BY DEF Init, NoKeys, NoPointer

LEMMA Step ==
    ASSUME KInv, MInv, [Next]_vars
    PROVE  KInv' /\ MInv' /\ [told'.buttons \ told.buttons # {} => told'.at = hand]_M!vars
<1>1. M!PlaceTypes
    BY InputBounds
<1>2. [K!Next]_K!vars /\ [M!Next]_M!vars
    BY DEF Next, OnKey, OnMouse, OnLocks, OfKeyboard, OfMouse, OfLocks, vars,
           keyboard, mouse, K!vars, M!vars
<1> QED
    BY <1>1, <1>2, KeyStep, PointerStep

(* What the remote has down is in the records of what is held, and the     *)
(* records are true, in every reachable state: term/input.rs and the key   *)
(* and mouse arms of session.rs.                                           *)
THEOREM Invariance ==
    Spec => [](KInv /\ MInv)
<1>1. Init => KInv /\ MInv
    BY Start
<1>2. KInv /\ MInv /\ [Next]_vars => (KInv /\ MInv)'
    BY Step
<1> QED
    BY <1>1, <1>2, PTL DEF Spec

(* Keys go over as they were struck: no release of a key the remote was    *)
(* not told is down, and none without its modifiers (on_key and            *)
(* sync_modifiers).                                                        *)
THEOREM AsStruck ==
    Spec => []SentAsStruck
<1>1. KInv => SentAsStruck
    BY DEF KInv, ViewTells, SentAsStruck, K!NoPhantomRelease
<1> QED
    BY <1>1, Invariance, PTL

(* No key stays down over there that is up here, whatever the prefix, the  *)
(* menu, view-only and the focus swallow: on_key and on_key_local let      *)
(* every release through that follows a press that was sent.               *)
THEOREM KeysComeUp ==
    Spec => []NothingStuck
<1>1. KInv => NothingStuck
    BY DEF KInv, NothingStuck
<1> QED
    BY <1>1, Invariance, PTL

(* Losing the focus, giving up the input and leaving let go of everything  *)
(* the remote was told is down: release_input empties a record that has    *)
(* all of it.                                                              *)
THEOREM LettingGo ==
    Spec => []AllLetGo
<1>1. KInv /\ MInv => AllLetGo
    BY DEF KInv, MInv, AllLetGo
<1> QED
    BY <1>1, Invariance, PTL

(* A button goes down over there at the pixel the hand is on: on_mouse     *)
(* sends the position it held back before the press, never after it.       *)
THEOREM LandsUnderTheHand ==
    Spec => PressesLand
<1>1. KInv /\ MInv /\ [Next]_vars
        => [told'.buttons \ told.buttons # {} => told'.at = hand]_M!vars
    BY Step
<1> QED
    BY <1>1, Invariance, PTL DEF Spec, PressesLand, M!PressesLand
=============================================================================
